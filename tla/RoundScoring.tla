---------------------------- MODULE RoundScoring ----------------------------
(***************************************************************************)
(* From joining a round to the tags its finish order moves: the handlers   *)
(* of the round and score modules that write one singles round's           *)
(* participants, its state and its stored scores, and those of the         *)
(* leaderboard module that turn its results into tags.                     *)
(*                                                                         *)
(* Handlers talk through messages (Delivery).  A handler that reads the    *)
(* list without a lock and writes it back whole takes two steps here; one  *)
(* that locks the row (UpdateParticipant, SELECT FOR UPDATE) takes one.    *)
(***************************************************************************)
EXTENDS RoundParticipants, Delivery

CONSTANTS
  InitialList,      \* the participants when the commands arrive
  InitialTag,       \* the tags on the leaderboard then; NoTag for none
  Scenarios         \* sets of Requests, one of which comes from outside

VARIABLES
  commands,      \* the scenario: what comes from outside
  state,         \* state of the round
  participants,  \* its list
  tag,           \* tag[u]: the tag of u on the leaderboard
  held,          \* held[u]: the tags u has had so far
  ranked,        \* the ranks the leaderboard processed last for the round; empty: none
  stored,        \* scores row: partial function to [score, tag]; empty: no row
  batches        \* rankings sent to the leaderboard

leaderboard == <<tag, held, ranked>>
vars == <<commands, state, participants, leaderboard, stored, batches, delivery>>

Allocation == INSTANCE TagAllocation

ScoreMaps == UNION {[U -> Scores] : U \in (SUBSET Users) \ {{}}}
TagMaps == UNION {[U -> Tags] : U \in SUBSET Users}
RankMaps == UNION {[U -> 1 .. Cardinality(Users)] : U \in SUBSET Users}
Results == [score : Scores, tag : Tags \cup {NoTag}]
ResultMaps == UNION {[U -> Results] : U \in SUBSET Users}

Requests ==
       [type : {"join"}, user : Users, response : Responses]
  \cup [type : {"score"}, user : Users, score : Scores]
  \cup [type : {"bulk", "import"}, scores : ScoreMaps]
  \cup [type : {"correct"}, user : Users, score : Scores]
  \cup [type : {"retag"}, changed : TagMaps]
  \cup [type : {"start", "recalculate"}]

\* What handlers publish for each other.
Events ==
       [type : {"lookup"}, user : Users, response : Responses]
  \cup [type : {"status"}, user : Users, response : Responses, tag : Tags \cup {NoTag}]
  \cup [type : {"removal"}, user : Users]
  \cup [type : {"scoreUpdated", "allScores", "corrected"}]
  \cup [type : {"finalized"}, list : Lists]
  \cup [type : {"process"}, scores : ResultMaps, overwrite : BOOLEAN, singles : BOOLEAN]
  \cup [type : {"batch"}, ranks : RankMaps]
  \cup [type : {"sync"}, changed : TagMaps]

ASSUME ScenariosAssumption == \A C \in Scenarios : C \subseteq Requests
ASSUME InitialAssumption ==
  InitialList \in Lists /\ InitialTag \in [Users -> Tags \cup {NoTag}]

Init ==
  /\ state = "UPCOMING"
  /\ participants = InitialList
  /\ tag = InitialTag /\ held = [u \in Users |-> {InitialTag[u]}] /\ ranked = <<>>
  /\ stored = <<>>
  /\ batches = {}
  /\ commands \in Scenarios
  /\ msgs = commands
  /\ open = {}
  /\ redelivered = 0

-----------------------------------------------------------------------------
\* The transaction of m's handler has read `seen' (and, for a correction, `kept').
Begin(m, seen, kept) == Open([msg |-> m, seen |-> seen, kept |-> kept])

Status(user, response, userTag) ==
  [type |-> "status", user |-> user, response |-> response, tag |-> userTag]
Process(scores, overwrite, singles) ==
  [type |-> "process", scores |-> scores, overwrite |-> overwrite, singles |-> singles]

-----------------------------------------------------------------------------
Listed(u) == u \in DOMAIN participants

\* HandleParticipantJoinValidationRequest: a decline needs no tag.
Validated(m) ==
  IF m.response = "DECLINE" THEN Status(m.user, m.response, NoTag)
  ELSE [type |-> "lookup", user |-> m.user, response |-> m.response]

\* CheckParticipantStatus: the same response again means leave.
Checked(m) ==
  IF Listed(m.user) /\ participants[m.user].response = m.response
  THEN [type |-> "removal", user |-> m.user] ELSE Validated(m)

\* HandleParticipantJoinRequest
Join == \E m \in Of("join") :
  /\ Handle(m, {Checked(m)})
  /\ UNCHANGED <<commands, state, participants, leaderboard, stored, batches>>

\* HandleRoundGetTagRequest of the leaderboard module.
LookupTag == \E m \in Of("lookup") :
  /\ Finish(m, {Status(m.user, m.response, tag[m.user])})
  /\ UNCHANGED <<commands, state, participants, leaderboard, stored, batches, open>>

UpdateParticipantStatus(m) == participants' = Upserted(participants,
  [u \in {m.user} |-> [response |-> m.response, tag |-> m.tag, score |-> NoScore]])

\* HandleParticipantStatusUpdateRequest
UpdateStatus == \E m \in Of("status") :
  /\ UpdateParticipantStatus(m)
  /\ Finish(m, {})
  /\ UNCHANGED <<commands, state, leaderboard, stored, batches, open>>

\* RemoveParticipant reads the list without a lock ...
ReadForRemoval == \E m \in Of("removal") :
  /\ \/ ~Listed(m.user) /\ Handle(m, {})
     \/ Listed(m.user) /\ Begin(m, participants, NoTag)
  /\ UNCHANGED <<commands, state, participants, leaderboard, stored, batches>>

\* ... and writes back what it read, without the user.
WriteRemoval == \E t \in OpenFor("removal") :
  /\ participants' = Removed(t.seen, t.msg.user)
  /\ Commit(t, {})
  /\ UNCHANGED <<commands, state, leaderboard, stored, batches>>

-----------------------------------------------------------------------------
\* UpdateParticipantScore reads the list to see whether the user is on it ...
ReadForScore == \E m \in Of("score") :
  /\ Begin(m, participants, NoTag)
  /\ UNCHANGED <<commands, state, participants, leaderboard, stored, batches>>

\* ... and updates the locked row: a user it did not see joins with the score,
\* and the tag of one it did see is cleared.
UpdateParticipantScore(t) == participants' = Upserted(participants,
  [u \in {t.msg.user} |->
     [response |-> IF u \in DOMAIN t.seen THEN Blank ELSE "ACCEPT",
      tag |-> NoTag, score |-> t.msg.score]])

WriteScore == \E t \in OpenFor("score") :
  /\ UpdateParticipantScore(t)
  /\ Commit(t, {[type |-> "scoreUpdated"]})
  /\ UNCHANGED <<commands, state, leaderboard, stored, batches>>

\* One transaction.
UpdateParticipantScoresBulk(m) == participants' = Upserted(participants,
  [u \in DOMAIN m.scores |-> [response |-> Blank, tag |-> NoTag, score |-> m.scores[u]]])

\* HandleScoreBulkUpdateRequest: the score module hears of it and reprocesses;
\* nobody checks whether the round is complete.
UpdateScoresBulk == \E m \in Of("bulk") :
  /\ UpdateParticipantScoresBulk(m)
  /\ Finish(m, {[type |-> "corrected"]})
  /\ UNCHANGED <<commands, state, leaderboard, stored, batches, open>>

\* ApplyImportedScores reads the list without a lock ...
ReadForImport == \E m \in Of("import") :
  /\ Begin(m, participants, NoTag)
  /\ UNCHANGED <<commands, state, participants, leaderboard, stored, batches>>

\* ... writes it back with the scores, and asks for the round to be finalized.
WriteImport == \E t \in OpenFor("import") :
  /\ participants' = Imported(t.seen, t.msg.scores)
  /\ Commit(t, {[type |-> "scoreUpdated"], [type |-> "allScores"]})
  /\ UNCHANGED <<commands, state, leaderboard, stored, batches>>

\* HandleParticipantScoreUpdated: the check runs after the update, on its own read.
CheckScores == \E m \in Of("scoreUpdated") :
  /\ Finish(m, IF IsComplete(participants) THEN {[type |-> "allScores"]} ELSE {})
  /\ UNCHANGED <<commands, state, participants, leaderboard, stored, batches, open>>

\* StartRound, whatever state the round is in.
StartRound == \E m \in Of("start") :
  /\ state' = "IN_PROGRESS"
  /\ Finish(m, {})
  /\ UNCHANGED <<commands, participants, leaderboard, stored, batches, open>>

\* FinalizeRound of the service, whatever state the round is in.
Finalize == state' = "FINALIZED"

\* HandleAllScoresSubmitted, whatever the list says by now.
FinalizeRound == \E m \in Of("allScores") :
  /\ Finalize
  /\ Finish(m, {[type |-> "finalized", list |-> participants]})
  /\ UNCHANGED <<commands, participants, leaderboard, stored, batches, open>>

\* HandleRoundFinalized, unless NotifyScoreModule finds no score at all.
NotifyScoreModule == \E m \in Of("finalized") :
  /\ Finish(m, IF \E u \in DOMAIN m.list : m.list[u].score # NoScore
               THEN {Process(FinalScores(m.list), TRUE, TRUE)} ELSE {})
  /\ UNCHANGED <<commands, state, participants, leaderboard, stored, batches, open>>

-----------------------------------------------------------------------------
\* The batch with the finish order: singles only, and not without a player.
Batches(m) == IF m.singles /\ Tagged(m.scores) # {} THEN {Ranking(m.scores)} ELSE {}

HasRow == DOMAIN stored # {}
LogScores(scores) == stored' = scores

\* HandleProcessRoundScoresRequest: refused when there is a row and no leave to
\* overwrite it.
ProcessScores == \E m \in Of("process") :
  /\ \/ /\ HasRow /\ ~m.overwrite
        /\ Handle(m, {})
        /\ UNCHANGED <<stored, batches>>
     \/ /\ m.overwrite \/ ~HasRow
        /\ LogScores(m.scores)
        /\ batches' = batches \cup Batches(m)
        /\ Handle(m, {[type |-> "batch", ranks |-> ranks] : ranks \in Batches(m)})
  /\ UNCHANGED <<commands, state, participants, leaderboard>>

\* CorrectScore reads the tag stored for the user, to keep it ...
ReadTagForCorrection == \E m \in Of("correct") :
  /\ Begin(m, <<>>, IF m.user \in DOMAIN stored THEN stored[m.user].tag ELSE NoTag)
  /\ UNCHANGED <<commands, state, participants, leaderboard, stored, batches>>

\* ... UpdateOrAddScore reads the row, or inserts one and holds it ...
ReadForCorrection == \E t \in OpenFor("correct") :
  /\ DOMAIN t.seen = {}
  /\ \/ /\ ~HasRow
        /\ stored' = [u \in {t.msg.user} |-> [score |-> t.msg.score, tag |-> t.kept]]
        /\ Commit(t, {[type |-> "corrected"]})
     \/ /\ HasRow
        /\ Proceed(t, [t EXCEPT !.seen = stored])
        /\ UNCHANGED stored
  /\ UNCHANGED <<commands, state, participants, leaderboard, batches>>

\* ... and writes back what it read, with the correction.
WriteCorrection == \E t \in OpenFor("correct") :
  /\ DOMAIN t.seen # {}
  /\ stored' = [u \in DOMAIN t.seen \cup {t.msg.user} |->
       IF u = t.msg.user THEN [score |-> t.msg.score, tag |-> t.kept] ELSE t.seen[u]]
  /\ Commit(t, {[type |-> "corrected"]})
  /\ UNCHANGED <<commands, state, participants, leaderboard, batches>>

\* reprocessAfterScoreUpdate asks to process the row again, with neither the
\* leave to overwrite it nor the mode of the round.
Reprocess == \E m \in Of("corrected") :
  /\ Finish(m, IF HasRow THEN {Process(stored, FALSE, FALSE)} ELSE {})
  /\ UNCHANGED <<commands, state, participants, leaderboard, stored, batches, open>>

-----------------------------------------------------------------------------
\* The leaderboard's tags move, and the upcoming rounds hear of those of `users'.
TagsBecome(new) ==
  /\ tag' = new
  /\ held' = [u \in Users |-> held[u] \cup {new[u]}]
Sync(new, users) ==
  [type |-> "sync", changed |-> [u \in {v \in users : new[v] # NoTag} |-> new[u]]]

\* An assignment: mapSuccessResults publishes the tags it gave.
Retag == \E m \in Of("retag") :
  /\ TagsBecome([u \in Users |-> IF u \in DOMAIN m.changed THEN m.changed[u] ELSE tag[u]])
  /\ Handle(m, {Sync(tag', DOMAIN m.changed)})
  /\ UNCHANGED <<commands, state, participants, ranked, stored, batches>>

\* Mutant: every delivery moves the tags again.
NeverProcessed(ranks) == FALSE
\* The results processed last are not processed again.
AlreadyProcessed(ranks) == ranks = ranked

\* ProcessRound of the command pipeline, as far as it moves tags (see TagLedger).
ProcessRound(ranks) ==
  \/ AlreadyProcessed(ranks) /\ UNCHANGED leaderboard
  \/ /\ ~AlreadyProcessed(ranks)
     /\ \E new \in Allocation!ClosedPoolAllocations(tag, ranks) :
          TagsBecome(Allocation!FinalTags(tag, new))
     /\ ranked' = ranks

\* handleRoundBasedAssignment
AssignRanks == \E m \in Of("batch") :
  /\ ProcessRound(m.ranks)
  /\ Handle(m, {Sync(tag', DOMAIN m.ranks)})
  /\ UNCHANGED <<commands, state, participants, stored, batches>>

\* The finish order of a recalculation: by the tags the round has, not by score.
RanksByTag(list) == LET players == {u \in DOMAIN list : list[u].tag # NoTag} IN
  [u \in players |-> 1 + Cardinality({v \in players :
     list[v].tag < list[u].tag \/ (list[v].tag = list[u].tag /\ v < u)})]

\* HandleRecalculateRound, when an admin asks for it; the rounds hear nothing of it.
RecalculateRound == \E m \in Of("recalculate") :
  /\ IF DOMAIN RanksByTag(participants) = {} THEN UNCHANGED leaderboard
     ELSE ProcessRound(RanksByTag(participants))
  /\ Handle(m, {})
  /\ UNCHANGED <<commands, state, participants, stored, batches>>

GetUpcomingRounds == IF state = "UPCOMING" THEN {participants} ELSE {}

\* UpdateScheduledRoundsWithNewTags reads the upcoming rounds without a lock ...
ReadForSync == \E m \in Of("sync") :
  /\ LET concerned == {list \in GetUpcomingRounds : DOMAIN m.changed \cap DOMAIN list # {}}
     IN  \/ \E list \in concerned : Begin(m, list, NoTag)
         \/ concerned = {} /\ Handle(m, {})
  /\ UNCHANGED <<commands, state, participants, leaderboard, stored, batches>>

\* ... and writes back what it read, with the changed tags.
WriteSync == \E t \in OpenFor("sync") :
  /\ participants' = Retagged(t.seen, t.msg.changed)
  /\ Commit(t, {})
  /\ UNCHANGED <<commands, state, leaderboard, stored, batches>>

-----------------------------------------------------------------------------
Next ==
  \/ Join \/ LookupTag \/ UpdateStatus \/ ReadForRemoval \/ WriteRemoval
  \/ ReadForScore \/ WriteScore \/ UpdateScoresBulk \/ ReadForImport \/ WriteImport
  \/ CheckScores \/ StartRound \/ FinalizeRound \/ NotifyScoreModule \/ ProcessScores
  \/ ReadTagForCorrection \/ ReadForCorrection \/ WriteCorrection \/ Reprocess
  \/ Retag \/ AssignRanks \/ RecalculateRound \/ ReadForSync \/ WriteSync

\* The router keeps handling what is in flight.  Every message leads to
\* finitely many others, so each is handled in the end.
Spec == Init /\ [][Next]_vars /\ WF_vars(Next)

-----------------------------------------------------------------------------
TypeOK ==
  /\ commands \in Scenarios
  /\ state \in {"UPCOMING", "IN_PROGRESS", "FINALIZED"}
  /\ participants \in Lists
  /\ tag \in [Users -> Tags \cup {NoTag}]
  /\ held \in [Users -> SUBSET (Tags \cup {NoTag})]
  /\ ranked \in RankMaps
  /\ stored \in ResultMaps
  /\ \A b \in batches : \A u \in DOMAIN b : u \in Users /\ b[u] \in 1 .. Cardinality(Users)
  /\ msgs \subseteq Requests \cup Events
  /\ \A t \in open :
       /\ t.msg \in Requests \cup Events
       /\ t.seen \in IF t.msg.type = "correct" THEN ResultMaps ELSE Lists
       /\ t.kept \in Tags \cup {NoTag}
  /\ redelivered \in 0 .. MaxRedeliveries

\* The scores the commands submit for u, and the tags the leaderboard gave it.
Submitted(u) ==
  {c.score : c \in {d \in commands : d.type \in {"score", "correct"} /\ d.user = u}}
  \cup {c.scores[u] : c \in {d \in commands : d.type \in {"bulk", "import"} /\ u \in DOMAIN d.scores}}
  \cup {InitialList[v].score : v \in DOMAIN InitialList \cap {u}}
Held(u) == held[u] \cup {InitialList[v].tag : v \in DOMAIN InitialList \cap {u}}

\* The lists and the results there are: in the tables, in messages, in transactions.
ListsAround ==
  {participants} \cup {m.list : m \in {n \in msgs : n.type = "finalized"}}
  \cup {t.seen : t \in {x \in open : x.msg.type # "correct"}}
ResultsAround ==
  {stored} \cup {m.scores : m \in {n \in msgs : n.type = "process"}}
  \cup {t.seen : t \in {x \in open : x.msg.type = "correct"}}

\* However commands interleave and messages repeat, a score next to a user's
\* name, in the round or among the processed scores, was submitted for that user;
\* only a missing score may have become 0 on its way to the score module.
ScoresWereSubmitted ==
  /\ \A list \in ListsAround : \A u \in DOMAIN list :
       list[u].score \in Submitted(u) \cup {NoScore}
  /\ \A scores \in ResultsAround : \A u \in DOMAIN scores :
       scores[u].score \in Submitted(u) \cup {0}

\* A tag next to a user's name, in the round or among the processed scores, is
\* one the leaderboard gave that user at some time.
TagsWereHeld ==
  /\ \A list \in ListsAround : \A u \in DOMAIN list : list[u].tag \in Held(u) \cup {NoTag}
  /\ \A scores \in ResultsAround : \A u \in DOMAIN scores :
       scores[u].tag \in Held(u) \cup {NoTag}

\* However often results are delivered, and whatever assignments come in between, the
\* leaderboard's tags move with an assignment or with results of the round other than
\* those it processed last.  (processRoundInTx, HandleRecalculateRound)
RedeliveredResultsMoveNoTags ==
  [][tag' # tag => Retag \/ ranked' # ranked]_vars

Accepted == {u \in DOMAIN participants : participants[u].response = "ACCEPT"}
AllScored == Accepted # {} /\ \A u \in Accepted : participants[u].score # NoScore

\* Nothing comes from outside that writes the whole list back.
OnlyScored == \A c \in commands : c.type \in {"score", "bulk", "correct", "start"}

\* Once everybody who accepted has a score and the update is announced, the round
\* is finalized and all of them are among the processed scores: of concurrent last
\* scores, restarts and corrections none leaves the round unfinished.
CompleteRoundsAreProcessed ==
  (OnlyScored /\ AllScored /\ [type |-> "scoreUpdated"] \in msgs)
    ~> (~AllScored \/ Accepted \subseteq DOMAIN stored)

\* Nothing but single scores completes the round.
ScoredOneByOne == \A c \in commands : c.type \in {"score", "correct", "start"}
Processed == Accepted \subseteq DOMAIN stored

\* That the round is complete is on its way to the score module: as an update that is
\* announced or, stored already, will be delivered again; or as a list or results
\* with everybody who accepted.
OnItsWay ==
  \/ \E m \in InHand : m.type = "score" /\ Listed(m.user) /\ participants[m.user].score = m.score
  \/ {[type |-> "scoreUpdated"], [type |-> "allScores"]} \cap msgs # {}
  \/ \E m \in Of("finalized") :
       Accepted \subseteq DOMAIN m.list /\ \E u \in DOMAIN m.list : m.list[u].score # NoScore
  \/ \E m \in Of("process") : m.overwrite /\ Accepted \subseteq DOMAIN m.scores

\* Of concurrent last scores none is overlooked: a step that completes the round has
\* the score module told, no step drops that news before it is processed, and what is
\* processed stays so, unless older scores are written over it when no newer ones are
\* on their way.  (CheckAllScoresSubmitted, HandleRoundFinalized)
CompletionIsKept ==
  [][ScoredOneByOne /\ (AllScored => OnItsWay \/ Processed)
       => (AllScored' => OnItsWay' \/ Processed' \/ (~OnItsWay /\ stored' # stored))]_vars

Entry(list, u) == {list[v] : v \in DOMAIN list \cap {u}}

\* "RemoveParticipant removes a participant from a round": nobody else's entry
\* changes.
RemovalsRemoveOneUser ==
  [][\A t \in open : t.msg.type = "removal" /\ t \notin open' =>
       \A u \in Users \ {t.msg.user} : Entry(participants', u) = Entry(participants, u)]_vars

\* "Singles rounds propagate tag assignments to leaderboard": when the scores of a
\* singles round have been processed, the leaderboard has been sent a ranking with
\* everybody on the list who holds a tag.
TaggedPlayersAreRanked ==
  [][\A m \in msgs : m.type = "process" /\ m.singles /\ m \notin msgs' =>
       \E b \in batches' : {u \in DOMAIN m.scores : tag[u] # NoTag} \subseteq DOMAIN b]_vars

\* A participant with "NO SCORE - should be excluded" from what the score module
\* is told: the leaderboard is sent ranks of users with a score only.
OnlyScoredPlayersAreRanked ==
  \A b \in batches : \A u \in DOMAIN b : Submitted(u) \ {NoScore} # {}
=============================================================================
