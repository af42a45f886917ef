------------------------------ MODULE MCRounds ------------------------------
(***************************************************************************)
(* Round 1 is announced and on the list of two users, with its reminder    *)
(* scheduled for hour 2; round 2 can be created.                           *)
(***************************************************************************)
EXTENDS RoundImport

MCScores == {-1, 0, 2}

MCRow == [NewRow("Open", 3, 1) EXCEPT
  !.message = TRUE, !.event = TRUE,
  !.list = <<Entry(1, "ACCEPT", NoScore, NoTeam), Entry(2, "TENTATIVE", NoScore, NoTeam)>>]
MCRows == [r \in {1} |-> MCRow]
MCJobs == {[args |-> Reminder(1, "Open", 3, {}), state |-> "scheduled", spared |-> FALSE]}

MCNames == {"ann", "annie", "bob", "stranger"}
MCDisplay == [n \in MCNames |-> IF n = "ann" THEN 1 ELSE Nobody]
MCUsername == [n \in MCNames |-> CASE n = "annie" -> 1 [] n = "bob" -> 2 [] OTHER -> Nobody]
\* User 3 is of another guild and calls himself like a member of this one.
MCGlobally == [n \in MCNames |-> IF n \in {"bob", "ann"} THEN 3 ELSE Nobody]

Line(names, total) == [names |-> names, total |-> total]
Singles == <<Line(<<"annie">>, 2), Line(<<"bob">>, -1), Line(<<"ann">>, 0), Line(<<"stranger">>, 0)>>
Doubles == <<Line(<<"ann", "stranger">>, 2), Line(<<"bob">>, -1)>>
Strangers == <<Line(<<"stranger", "stranger">>, 0)>>
MCCards == {Singles, Doubles, Strangers, <<>>}

NewRound(title, start) == [type |-> "create", title |-> title, start |-> start, user |-> 1]
Edit(title, start) == [type |-> "edit", round |-> 1, title |-> title, start |-> start]
Delete(user) == [type |-> "delete", round |-> 1, user |-> user]
StartIt == [type |-> "start", round |-> 1]
Answering(round, user, response) ==
  [type |-> "answer", round |-> round, user |-> user, response |-> response]
Card(import, card, parser) ==
  [type |-> "upload", round |-> 1, import |-> import, card |-> card, parser |-> parser]
URL(round, import, ofUDisc) ==
  [type |-> "url", round |-> round, import |-> import, card |-> Singles, parser |-> FALSE,
   ofUDisc |-> ofUDisc]

MCScenarios ==
  { {NewRound("Open", 3), Answering(2, 2, "ACCEPT")},
    {Edit(Same, 4), Delete(1), StartIt},
    {Edit("Cup", Same), Edit(Same, 4), Answering(1, 2, "DECLINE")},
    {Edit(Same, 3), Edit(Same, 1), Answering(1, 3, "ACCEPT")},
    {Card(1, Singles, TRUE), Edit("Cup", Same)},
    {Card(1, Singles, TRUE), Answering(1, 3, "ACCEPT")},
    {Card(1, Singles, TRUE), Card(2, <<>>, TRUE), Delete(2)},
    {Card(1, Doubles, TRUE), StartIt},
    {Card(1, Doubles, TRUE), Card(2, Strangers, TRUE)},
    {URL(1, 1, TRUE)}, {URL(1, 2, FALSE), URL(2, 3, TRUE)} }
=============================================================================
