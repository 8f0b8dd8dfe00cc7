------------------------- MODULE BlueprintVersions -------------------------
(***************************************************************************)
(* What the blueprints service promises, with no tree, sync or bus in      *)
(* sight.  It serves one version at a time, from the first one on; what it *)
(* tells the others is true of the version it serves at that moment; and   *)
(* it goes on to another version only when the last one has been told.     *)
(***************************************************************************)
EXTENDS Naturals

CONSTANT Tally    \* what is told of a version: how many files it has

VARIABLES
  served,   \* the version that Snapshot() returns, 0 before the first
  told      \* versions the others were told of

vars == <<served, told>>

Init ==
  /\ served.version = 0
  /\ told = {}

Install(counts) ==
  /\ served.version = 0 \/ served \in told
  /\ served' = [version |-> served.version + 1, counts |-> counts]
  /\ UNCHANGED told

Tell ==
  /\ served.version > 0
  /\ told' = told \cup {served}
  /\ UNCHANGED served

Next == Tell \/ \E counts \in Tally : Install(counts)

Spec == Init /\ [][Next]_vars
=============================================================================
