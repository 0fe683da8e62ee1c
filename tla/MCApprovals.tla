----------------------------- MODULE MCApprovals -----------------------------
(* Instances of Approvals small enough for TLC. *)
EXTENDS Approvals, TLC

CONSTANTS c1, q1, p1, p2, a1, a2

SameClient == [q \in Requests |-> c1]
\* A device code and a CIBA request polled twice and answered once; user codes typed at once
\* and one after another.
ScenesHere ==
  {[device |-> {q1}, polls |-> {p1, p2}, answers |-> {a1}],
   [device |-> {}, polls |-> {p1, p2}, answers |-> {a1}],
   [device |-> {q1}, polls |-> {}, answers |-> {a1, a2}]}

Symmetry == Permutations(Polls)
=============================================================================
