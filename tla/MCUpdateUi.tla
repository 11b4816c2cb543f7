------------------------------ MODULE MCUpdateUi ------------------------------
(***************************************************************************)
(* Instances of UpdateUi.  One version is offered as files to replace and  *)
(* later withdrawn from automatic installation (auto_update off in a newer *)
(* manifest), the next one as a setup program.                             *)
(***************************************************************************)
EXTENDS UpdateUi

Offer(v, p) == [v |-> v, plan |-> p]
AllOffers == {Offer(1, "files"), Offer(1, "manual"), Offer(2, "setup")}
=============================================================================
