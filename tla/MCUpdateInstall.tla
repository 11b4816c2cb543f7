--------------------------- MODULE MCUpdateInstall ---------------------------
EXTENDS UpdateInstall, TLC

CONSTANTS gui, cli

(* One window and one command line, in any of the editions.  The Windows   *)
(* package holds both programs; on Linux the desktop build and the static  *)
(* command line have packages of their own, here in one directory.         *)
TwoProcs == {gui, cli}
OneGui == {gui}
Names == gui :> "Mist" @@ cli :> "cli"
TwoFiles == {"Mist", "cli"}
TwoPackages ==
  [e \in AllEditions |->
     IF e = "unix" THEN gui :> {"Mist"} @@ cli :> {"cli"}
     ELSE gui :> TwoFiles @@ cli :> TwoFiles]
=============================================================================
