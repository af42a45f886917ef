--------------------------- MODULE MCRoundScoring ---------------------------
(***************************************************************************)
(* Three users: 1 and 2 hold tags and are on the list, 3 comes without.    *)
(***************************************************************************)
EXTENDS RoundScoring, TLC

MCUsers == 1 .. 3
MCTags == 1 .. 3
MCScores == {-1, 0, 2}
MCInitialTag == (1 :> 1) @@ (2 :> 2) @@ (3 :> NoTag)
OnList(response, userTag) == [response |-> response, tag |-> userTag, score |-> NoScore]

\* One accepted, one tentative.
MCList == (1 :> OnList("ACCEPT", 1)) @@ (2 :> OnList("TENTATIVE", 2))
BothAccepted == (1 :> OnList("ACCEPT", 1)) @@ (2 :> OnList("ACCEPT", 2))

ScoreOf(u, s) == [type |-> "score", user |-> u, score |-> s]

JoinAs(u, r) == [type |-> "join", user |-> u, response |-> r]
Retagging == [type |-> "retag", changed |-> (1 :> 3) @@ (2 :> 1)]
Import == [type |-> "import", scores |-> (1 :> 2) @@ (2 :> -1)]
Bulk == [type |-> "bulk", scores |-> (2 :> -1)]
Correct(u, s) == [type |-> "correct", user |-> u, score |-> s]
Start == [type |-> "start"]
Recalculate == [type |-> "recalculate"]

MCScenarios ==
  { {ScoreOf(1, 2), ScoreOf(2, 0), ScoreOf(3, -1), Start},
    {ScoreOf(1, 2), Bulk, Correct(1, -1), Correct(3, 0)},
    {ScoreOf(1, 2), JoinAs(2, "TENTATIVE"), JoinAs(3, "ACCEPT"), Retagging},
    {ScoreOf(3, 0), Import, JoinAs(2, "DECLINE"), Start},
    {Import, Retagging, Recalculate} }

\* A score arrives while another user leaves.
RemovalScenario == {{ScoreOf(1, 2), JoinAs(2, "TENTATIVE")}}
\* Everybody who accepted submits a score.
ScoredScenario == {{ScoreOf(1, 2), ScoreOf(2, -1)}}
\* One of two users who accepted is on the scorecard.
ImportScenario == {{[type |-> "import", scores |-> (1 :> 2)], Start}}
=============================================================================
