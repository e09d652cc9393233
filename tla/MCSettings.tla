------------------------------ MODULE MCSettings -------------------------------
EXTENDS CredentialProperties, TLC
CONSTANTS w1, w2, mcp, worker, s1, s2, z1, z2, hand
Symmetry == Permutations(Workspaces) \cup Permutations(Roles) \cup Permutations(Secrets)


\* Two operations from either workspace, on a pair of which one role at least is in use;
\* or one beside a reviewed change.  Changes and operations that a scenario does without
\* count as done in the past.
TwoOperations ==
    /\ \A a \in Applies : applies[a] = Past
    /\ \A op \in Ops : journal[op] # Past
    /\ \A w \in Workspaces : holder[w] = Free /\ config[w].zone = hand
    /\ \E c \in Config : config = [w \in Workspaces |-> c] /\ \E r \in Roles : c.source[r] = "managed"

OperationAndChange ==
    /\ \A a \in Applies : applies[a] = NoApply
    /\ journal[1] = NoRecord /\ \A op \in Ops \ {1} : journal[op] = Past
    /\ \E w \in Workspaces :
          /\ holder[w] = Free /\ config[w].zone # hand
          /\ \E r \in Roles : /\ config[w].source[r] = "managed"
                              /\ \A p \in Roles \ {r} : /\ config[w].source[p] = "none"
                                                        /\ store[p].active = Absent
          /\ \A x \in Workspaces \ {w} :
                holder[x] = Other /\ config[x] = [config[w] EXCEPT !.zone = hand]

MCInit == SagaInit /\ (TwoOperations \/ OperationAndChange)
MCSpec == MCInit /\ [][Next]_vars
=============================================================================
