---------------------------- MODULE MCUpdateState ----------------------------
(* Instances of UpdateState for TLC.                                       *)
EXTENDS UpdateState

CONSTANTS window, cli, i1, i2, i3

OneThread == {window}
TwoThreads == {window, cli}
TwoVersions == {1, 2}
TwoDates == {11, 12}
OneDate == {11}
TwoInodes == {i1, i2}
ThreeInodes == {i1, i2, i3}
=============================================================================
