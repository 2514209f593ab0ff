-------------------------- MODULE MCQueueFastPass --------------------------
(* Instances of QueueFastPass for TLC.                                     *)
EXTENDS QueueFastPass, TLC

CONSTANTS e1, e2, u1, u2, k1, w1, w2, p1, p2

Symmetry == Permutations(Entries) \cup Permutations(Users) \cup Permutations(Workers)
            \cup Permutations(Publishers)
=============================================================================
