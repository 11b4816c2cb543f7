------------------------------ MODULE ProgramSet ------------------------------
(***************************************************************************)
(* What the updater promises of an installation directory: its programs    *)
(* form one set of one version.  An update or a rollback works in private, *)
(* then either changes the version of the whole set in a single step, once *)
(* per operation, or ends without any change.  Only an accident (a crash   *)
(* in the middle of the replacement, a cleanup that interferes, a restore  *)
(* that fails) tears the set.                                              *)
(***************************************************************************)
EXTENDS Naturals

CONSTANT MaxVersion

Torn == 0

VARIABLES version, phase

setVars == <<version, phase>>

SetInit == version = 1 /\ phase = "idle"

Begin == phase = "idle" /\ phase' = "working" /\ UNCHANGED version

Commit ==
  /\ phase = "working" /\ version # Torn
  /\ version' \in 1 .. MaxVersion
  /\ phase' = "committed"

(* The operation returns or its process ends.                              *)
End == phase # "idle" /\ phase' = "idle" /\ UNCHANGED version

(* The setup program of the vendor replaces the set as a whole.            *)
Setup == version # Torn /\ version' \in 1 .. MaxVersion /\ phase' = "idle"

(* An accident; nothing is promised of the version after it.              *)
Tear == version' = Torn /\ phase' \in {"idle", "working", "committed"}

SetNext == Begin \/ Commit \/ End \/ Setup \/ Tear

SetStep == [SetNext]_setVars
SetSpec == SetInit /\ [][SetNext]_setVars
=============================================================================
