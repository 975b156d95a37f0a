------------------------------ MODULE MCLimits ------------------------------
(* An instance of Limits: two servers, a developer, an unknown address. *)
EXTENDS Limits, TLC

CONSTANTS s1, s2, d1, unknown, r1, r2

MCAddrs == {s1, s2, d1, unknown}
MCKeyOf == [a \in {s1, s2, d1} |-> a]
MCRequests == {<<s1, 1, TRUE>>, <<s2, 2, TRUE>>, <<d1, 1, FALSE>>, <<d1, 2, FALSE>>,
                <<s2, 2, FALSE>>, <<unknown, 1, FALSE>>}
MCBurst == [b \in Buckets |-> 1]
MCRefill == MCBurst
SlotSymmetry == Permutations(Slots)
=============================================================================
