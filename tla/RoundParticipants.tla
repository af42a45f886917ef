------------------------- MODULE RoundParticipants -------------------------
(***************************************************************************)
(* The participant list of a singles round and what the round and score    *)
(* modules compute from it (application/participant_tags.go, score_round.go,*)
(* import_apply.go, finalize_round.go and repositories/round.go of the     *)
(* round module, application/utils.go of the score module).                *)
(*                                                                         *)
(* A list is a partial function from users to entries: every writer looks  *)
(* its user up before it appends, so nobody is listed twice.               *)
(***************************************************************************)
EXTENDS Integers, FiniteSets

CONSTANTS
  Users,    \* ids, compared when scores tie
  Tags,     \* tags the leaderboard hands out
  Scores,   \* scores relative to par, within the range the score module accepts
  NoScore   \* the nil score

ASSUME UsersAssumption == Users \subseteq Nat /\ IsFiniteSet(Users)
ASSUME TagsAssumption == Tags \subseteq Nat \ {0}
ASSUME ScoresAssumption == Scores \subseteq (-36) .. 72 /\ 0 \in Scores /\ NoScore \notin Scores

NoTag == 0
Responses == {"ACCEPT", "DECLINE", "TENTATIVE"}
Blank == ""      \* no response: the zero value in an update
Entries == [response : Responses \cup {Blank}, tag : Tags \cup {NoTag},
            score : Scores \cup {NoScore}]
Lists == UNION {[U -> Entries] : U \in SUBSET Users}

-----------------------------------------------------------------------------
\* UpdateParticipant, for every user in `news': a blank response or a nil score
\* leaves the listed one alone, but the tag is always overwritten.
Upserted(list, news) ==
  [u \in DOMAIN list \cup DOMAIN news |->
     IF u \notin DOMAIN news THEN list[u]
     ELSE IF u \notin DOMAIN list THEN news[u]
     ELSE [response |-> IF news[u].response = Blank THEN list[u].response
                                                    ELSE news[u].response,
           tag |-> news[u].tag,
           score |-> IF news[u].score = NoScore THEN list[u].score ELSE news[u].score]]

Removed(list, user) == [u \in DOMAIN list \ {user} |-> list[u]]

\* Mutant: the entries share one loop variable, so all get the same tag.
RetaggedByAlias(list, changed) ==
  LET last == CHOOSE u \in DOMAIN changed : TRUE
  IN  [u \in DOMAIN list |->
         IF u \in DOMAIN changed THEN [list[u] EXCEPT !.tag = changed[last]] ELSE list[u]]

\* getRoundsAndParticipantsToUpdateFromRounds: the list with the changed tags.
Retagged(list, changed) ==
  [u \in DOMAIN list |->
     IF u \in DOMAIN changed THEN [list[u] EXCEPT !.tag = changed[u]] ELSE list[u]]

\* Mutant: the scores share one loop variable, so all get the same score.
ImportedByAlias(list, scores) ==
  LET last == CHOOSE u \in DOMAIN scores : TRUE
  IN  [u \in DOMAIN list \cup DOMAIN scores |->
         IF u \notin DOMAIN scores THEN list[u]
         ELSE [response |-> "ACCEPT", score |-> scores[last],
               tag |-> IF u \in DOMAIN list THEN list[u].tag ELSE NoTag]]

\* applySinglesScores: whoever is on the scorecard took part.
Imported(list, scores) ==
  [u \in DOMAIN list \cup DOMAIN scores |->
     IF u \notin DOMAIN scores THEN list[u]
     ELSE [response |-> "ACCEPT", score |-> scores[u],
           tag |-> IF u \in DOMAIN list THEN list[u].tag ELSE NoTag]]

\* Mutant: waits for the users who did not accept, too.
IsCompleteForAll(list) == \A u \in DOMAIN list : list[u].score # NoScore

\* CheckAllScoresSubmitted
IsComplete(list) ==
  \A u \in DOMAIN list : list[u].response = "ACCEPT" => list[u].score # NoScore

-----------------------------------------------------------------------------
\* The scores HandleRoundFinalized sends on: everybody listed, a nil score as 0.
FinalScores(list) ==
  [u \in DOMAIN list |-> [score |-> IF list[u].score = NoScore THEN 0 ELSE list[u].score,
                          tag |-> list[u].tag]]

\* ProcessScoresForStorage sorts by score, then by user.
SortsBefore(scores, u, v) ==
  \/ scores[u].score < scores[v].score
  \/ scores[u].score = scores[v].score /\ u < v

Tagged(scores) == {u \in DOMAIN scores : scores[u].tag # NoTag}

\* Mutant: the index is not turned into a rank.
RankingFromZero(scores) ==
  [u \in Tagged(scores) |-> Cardinality({v \in Tagged(scores) : SortsBefore(scores, v, u)})]

\* The batch for the leaderboard: the tagged users in sorted order, whose
\* positions handleRoundBasedAssignment turns into finish ranks.
Ranking(scores) ==
  [u \in Tagged(scores) |-> 1 + Cardinality({v \in Tagged(scores) : SortsBefore(scores, v, u)})]
=============================================================================
