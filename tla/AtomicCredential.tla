--------------------------- MODULE AtomicCredential ----------------------------
(***************************************************************************)
(* What a credential operation promises: one at a time changes a role's    *)
(* credential from what it was to what it was asked to become, at once, or *)
(* leaves it as it was.                                                    *)
(***************************************************************************)
CONSTANTS Roles, Ops, Values

VARIABLES
    cred,      \* the credential of each role
    change     \* what each operation is to do, and what has become of it

NoChange == [state |-> "none"]
Pending(op) == change[op] # NoChange /\ change[op].state = "pending"

Init ==
    /\ cred \in [Roles -> Values]
    /\ change \in [Ops -> {NoChange}
                          \cup [state : {"pending"}, role : Roles, new : Values]]
    /\ \A op, other \in Ops : Pending(op) /\ Pending(other) => op = other

Begin(op, r, v) ==
    /\ change[op] = NoChange
    /\ \A other \in Ops : ~Pending(other)
    /\ change' = [change EXCEPT ![op] = [state |-> "pending", role |-> r, new |-> v]]
    /\ UNCHANGED cred

Apply(op) ==
    /\ Pending(op)
    /\ change' = [change EXCEPT ![op].state = "applied"]
    /\ cred' = [cred EXCEPT ![change[op].role] = change[op].new]

Undo(op) ==
    /\ Pending(op)
    /\ change' = [change EXCEPT ![op].state = "undone"]
    /\ UNCHANGED cred

Next == \E op \in Ops : \/ \E r \in Roles, v \in Values : Begin(op, r, v)
                        \/ Apply(op)
                        \/ Undo(op)

Spec == Init /\ [][Next]_<<cred, change>>
=============================================================================
