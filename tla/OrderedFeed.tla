----------------------------- MODULE OrderedFeed -----------------------------
(***************************************************************************)
(* What the shell pump promises about the keys a user types: those it has  *)
(* accepted reach the remote terminal in the order they were accepted, each *)
(* at most once.  A failing connection loses the oldest ones first.        *)
(***************************************************************************)
EXTENDS Naturals

VARIABLES
  sent,      \* commands accepted so far, of any kind; numbered from 1
  waiting,   \* the numbers of the inputs accepted and not yet written
  typed      \* the input written last, 0 before the first

vars == <<sent, waiting, typed>>

Init == sent = 0 /\ waiting = {} /\ typed = 0

(* A command is accepted: an input, or one that is not written.            *)
Accept ==
  /\ sent' = sent + 1
  /\ waiting' \in {waiting \cup {sent'}, waiting}
  /\ UNCHANGED typed

(* The oldest input is written, and waits no more.                         *)
Write ==
  /\ typed' \in waiting
  /\ \A n \in waiting : typed' <= n
  /\ waiting' = waiting \ {typed'}
  /\ UNCHANGED sent

Lose ==
  /\ \E n \in 1 .. sent : waiting' = {m \in waiting : m > n}
  /\ UNCHANGED <<sent, typed>>

Next == Accept \/ Write \/ Lose

Spec == Init /\ [][Next]_vars
=============================================================================
