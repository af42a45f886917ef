--------------------------- MODULE MCLeaderboard ---------------------------
\* Values of Leaderboard's constants for TLC, and the mutants of its definitions.
EXTENDS Leaderboard, TLC

MCMembers == 1 .. 2
MCTags == 1 .. 2

\* Two members in either order, and one of them alone.
MCFinishes == {(1 :> 1 @@ 2 :> 2), (1 :> 2 @@ 2 :> 1), (1 :> 1)}

\* Claims of a first tag, of a free tag, and a refused one.
MCRequests == {(1 :> 1), (2 :> 2)}

MCResetOrders == {<<2, 1>>}
MCDeltas == {-50}

\* Round and season ids are only compared for equality.
IdSymmetry == Permutations(Rounds) \cup Permutations(SeasonIds)
=============================================================================
