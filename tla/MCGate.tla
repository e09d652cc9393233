------------------------------- MODULE MCGate -------------------------------
(* Instances of the gate for TLC.                                           *)
EXTENDS GateProperties, TLC

(* Windows and sessions are compared for equality only.                   *)
GateSymmetry == Permutations(Window) \cup Permutations(Session)

-----------------------------------------------------------------------------
(* Two scenarios in one run: many windows and sessions whose contents       *)
(* change while the clock stands still, and one session whose begin() calls *)
(* overlap over MaxTime ticks.                                              *)
VARIABLE scenario

MCInit == Init /\ scenario \in {"windows", "clock"}

Opened == { s \in Session : owner'[s] # None }

ClockStill ==
  /\ now' = now
  /\ Cardinality(reads') <= 1

OneSession ==
  /\ Cardinality(Opened) <= 1
  /\ \A m \in MaterialId : revision'[m] <= 1

MCNext ==
  /\ Next
  /\ IF scenario = "clock" THEN OneSession ELSE ClockStill
  /\ UNCHANGED scenario

MCSpec == MCInit /\ [][MCNext]_<<vars, scenario>>

=============================================================================
