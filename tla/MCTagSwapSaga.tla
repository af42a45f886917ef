--------------------------- MODULE MCTagSwapSaga ---------------------------
\* Values of TagSwapSaga's constants for TLC.
EXTENDS TagSwapSaga, TLC

MCMembers == 1 .. 3
MCTags == 1 .. 3
MCFinishes == {(1 :> 2 @@ 2 :> 1), (1 :> 2 @@ 2 :> 3 @@ 3 :> 1)}
MCInitialTag == (1 :> 1 @@ 2 :> 2 @@ 3 :> 3)

Swap(p, q) == [type |-> "swap", requestor |-> p, target |-> q]
Batch(req) == [type |-> "batch", assignments |-> req]

\* Two members ask for each other's tags, an admin gives one of them to a third.
CycleMessages == {Swap(1, 2), Swap(2, 1), Batch(3 :> 1)}
=============================================================================
