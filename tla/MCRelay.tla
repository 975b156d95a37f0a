------------------------------ MODULE MCRelay ------------------------------
(***************************************************************************)
(* Small instances of Relay for TLC.                                       *)
(***************************************************************************)
EXTENDS Relay, TLC

CONSTANTS r1, r2, r3, j1, j2, b1, b2

\* Lifecycle: any slot may create, delete, join or poll.
LifecycleReqs == {r1, r2}
LifecycleRole ==
    [r \in LifecycleReqs |-> {"create", "delete", "join", "poll"}]

\* Messages: one slot opens the session, joins it and ends it, one posts, and
\* one polls or posts.
MessageReqs == {r1, r2, r3}
MessageRole ==
    (r1 :> {"create", "join", "delete"}) @@ (r2 :> {"post"})
      @@ (r3 :> {"post", "poll"})

\* Liveness: one slot sends, one polls.
LiveReqs == {r1, r2}
LiveRole ==
    (r1 :> {"create", "join", "post"}) @@ (r2 :> {"delete", "poll"})

TwoJoiners == {j1, j2}
OneJoiner == {j1}
TwoBodies == {b1, b2}
OneBody == {b1}
SlotSymmetry == Permutations(LifecycleReqs) \cup Permutations(TwoJoiners)
BodySymmetry == Permutations(TwoBodies)
JobsOnly == {"jobs"}
=============================================================================
