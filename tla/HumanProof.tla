----------------------------- MODULE HumanProof -----------------------------
(***************************************************************************)
(* What the human gate promises: a mark on a material is backed by exactly  *)
(* one request, a person was asked about the content the material has at    *)
(* that moment, and a request decides at most once.                         *)
(***************************************************************************)
EXTENDS Naturals

CONSTANTS Nonce, MaterialId

VARIABLES
  content,  \* what a material is now
  asked,    \* the material and the content a request is about
  open,     \* requests that may still be answered
  proofs    \* requests that were answered with a proof

vars == <<content, asked, open, proofs>>

Init == open = {} /\ proofs = {}

(* Requests are dropped: denied, refused, expired or forgotten.             *)
Withdraw == open' \subseteq open /\ UNCHANGED <<content, asked, proofs>>

(* A new request about what the material was when it was looked at.         *)
Ask(n) ==
  /\ n \notin open \cup proofs
  /\ \A k \in Nonce : k # n => asked'[k] = asked[k]
  /\ n \in open' /\ open' \subseteq open \cup {n}
  /\ UNCHANGED <<content, proofs>>

Prove(n) ==
  /\ n \in open
  /\ asked[n].print = content[asked[n].target]
  /\ \A k \in proofs : asked[k].target # asked[n].target
  /\ proofs' = proofs \cup {n} /\ open' = open \ {n}
  /\ UNCHANGED <<content, asked>>

Change == UNCHANGED <<asked, open, proofs>>

Next == Withdraw \/ Change \/ \E n \in Nonce : Ask(n) \/ Prove(n)

Spec == Init /\ [][Next]_vars

=============================================================================
