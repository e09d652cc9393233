------------------------------ MODULE MCCanvas ------------------------------
(* Instances of the Canvas connection for TLC.                              *)
EXTENDS CanvasCredentials, TLC

CONSTANTS o1, o2, a1, a2, k1, k2, k3

(* Two accounts at two origins; the first one has two tokens.               *)
MCOriginOf == a1 :> o1 @@ a2 :> o2
MCOwnerOf == k1 :> a1 @@ k2 :> a2 @@ k3 :> a1

InstanceSymmetry == Permutations(Thread) \cup Permutations(CanvasCourse) \cup Permutations(Course)

=============================================================================
