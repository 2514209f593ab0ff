---------------------------- MODULE MCTicketing ----------------------------
(* Instances of Ticketing for TLC.                                         *)
EXTENDS Ticketing, TLC

CONSTANTS o1, o2, s1, s2, u1, u2, k1, k2, w1, w2, g1, g2, adult

OneSlotEach(n) == [s \in Slots |-> n]
Capacity2 == OneSlotEach(2)
Capacity3 == OneSlotEach(3)
SameType == [s \in Slots |-> adult]
ToTheGate == (s1 :> 2) @@ (s2 :> 2)
NoClock == [s \in Slots |-> 0]

Symmetry == Permutations(Orders) \cup Permutations(Workers)
=============================================================================
