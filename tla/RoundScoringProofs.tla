------------------------- MODULE RoundScoringProofs -------------------------
(***************************************************************************)
(* For every round, every set of commands and every number of deliveries:  *)
(* a score next to a user's name was submitted for that user, a tag next   *)
(* to it was held by that user, redelivered results move no tags, and the  *)
(* news that all scores are in is dropped by no step.                      *)
(*                                                                         *)
(* ScoringInv is inductive: it carries the first two facts through         *)
(* everything that holds a list or a result, that is the tables, the       *)
(* messages in flight and what half-way handlers have read and will write  *)
(* back.  For the last one SoleInv adds that, while only single scores     *)
(* come from outside, nobody else has a copy of the list to write back.    *)
(***************************************************************************)
EXTENDS RoundScoring, DeliveryProofs, FiniteSetTheorems

Message == Requests \cup Events
Transaction == [msg : Message, seen : Lists \cup ResultMaps, kept : Tags \cup {NoTag}]
Commands == {"join", "score", "bulk", "import", "correct", "retag", "start", "recalculate"}

GoodList(list) == \A u \in DOMAIN list :
  list[u].score \in Submitted(u) \cup {NoScore} /\ list[u].tag \in Held(u) \cup {NoTag}
GoodResults(scores) == \A u \in DOMAIN scores :
  scores[u].score \in Submitted(u) \cup {0} /\ scores[u].tag \in Held(u) \cup {NoTag}

\* A command is one of the scenario's; what handlers publish carries only tags
\* that were held and scores that were submitted.
GoodMessage(m) ==
  /\ m.type \in Commands => m \in commands
  /\ m.type = "status" => m.tag \in Held(m.user) \cup {NoTag}
  /\ m.type = "sync" => \A u \in DOMAIN m.changed : m.changed[u] \in Held(u)
  /\ m.type = "finalized" => GoodList(m.list)
  /\ m.type = "process" => GoodResults(m.scores)

GoodTransaction(t) ==
  /\ GoodMessage(t.msg)
  /\ t.msg.type # "correct" => t.seen \in Lists /\ GoodList(t.seen)
  /\ t.msg.type = "correct" => /\ t.seen \in ResultMaps /\ GoodResults(t.seen)
                               /\ t.kept \in Held(t.msg.user) \cup {NoTag}

InFlight ==
  /\ msgs \subseteq Message
  /\ open \subseteq Transaction
  /\ \A m \in msgs : GoodMessage(m)
  /\ \A t \in open : GoodTransaction(t)
  /\ RedeliveriesBounded

Tables ==
  /\ state \in {"UPCOMING", "IN_PROGRESS", "FINALIZED"}
  /\ participants \in Lists /\ GoodList(participants)
  /\ tag \in [Users -> Tags \cup {NoTag}]
  /\ held \in [Users -> SUBSET (Tags \cup {NoTag})]
  /\ \A u \in Users : tag[u] \in held[u]
  /\ ranked \in RankMaps
  /\ stored \in ResultMaps /\ GoodResults(stored)
  /\ batches \subseteq RankMaps

ScoringInv == commands \in Scenarios /\ Tables /\ InFlight

-----------------------------------------------------------------------------
\* A partial function on the users is a function on some of them.
LEMMA PartialFunctions ==
  ASSUME NEW S, NEW f
  PROVE  f \in UNION {[U -> S] : U \in SUBSET Users}
           <=> DOMAIN f \subseteq Users /\ f \in [DOMAIN f -> S]
  OBVIOUS

\* What a message of each type carries.
LEMMA MessageFacts ==
  ASSUME NEW m \in Message
  PROVE  /\ m.type \in {"join", "lookup"} => m.user \in Users /\ m.response \in Responses
         /\ m.type = "status" => /\ m.user \in Users /\ m.response \in Responses
                                 /\ m.tag \in Tags \cup {NoTag}
         /\ m.type = "removal" => m.user \in Users
         /\ m.type \in {"score", "correct"} => m.user \in Users /\ m.score \in Scores
         /\ m.type \in {"bulk", "import"} => m.scores \in ScoreMaps
         /\ m.type \in {"retag", "sync"} => m.changed \in TagMaps
         /\ m.type = "finalized" => m.list \in Lists
         /\ m.type = "process" => /\ m.scores \in ResultMaps
                                  /\ m.overwrite \in BOOLEAN /\ m.singles \in BOOLEAN
         /\ m.type = "batch" => m.ranks \in RankMaps
  BY DEF Message, Requests, Events

-----------------------------------------------------------------------------
\* The scores submitted stay the same, and what a user has held once stays held.
Grows == commands' = commands /\ \A u \in Users : held[u] \subseteq held'[u]

LEMMA GrowthKeeps ==
  ASSUME Grows
  PROVE  /\ \A u : Submitted(u)' = Submitted(u)
         /\ \A u \in Users : Held(u) \subseteq Held(u)'
  BY DEF Grows, Submitted, Held

LEMMA GrowthKeepsGood ==
  ASSUME Grows
  PROVE  /\ \A list \in Lists : GoodList(list) => GoodList(list)'
         /\ \A scores \in ResultMaps : GoodResults(scores) => GoodResults(scores)'
         /\ \A m \in Message : GoodMessage(m) => GoodMessage(m)'
         /\ \A t \in Transaction : GoodTransaction(t) => GoodTransaction(t)'
<1>1. ASSUME NEW list \in Lists, GoodList(list) PROVE GoodList(list)'
  <2>1. DOMAIN list \subseteq Users
    BY PartialFunctions DEF Lists
  <2> QED BY <1>1, <2>1, GrowthKeeps DEF GoodList
<1>2. ASSUME NEW scores \in ResultMaps, GoodResults(scores) PROVE GoodResults(scores)'
  <2>1. DOMAIN scores \subseteq Users
    BY PartialFunctions DEF ResultMaps
  <2> QED BY <1>2, <2>1, GrowthKeeps DEF GoodResults
<1>3. ASSUME NEW m \in Message, GoodMessage(m) PROVE GoodMessage(m)'
  <2>1. m.type = "status" => m.tag \in Held(m.user)' \cup {NoTag}
    BY <1>3, MessageFacts, GrowthKeeps DEF GoodMessage
  <2>2. m.type = "sync" => \A u \in DOMAIN m.changed : m.changed[u] \in Held(u)'
    <3> SUFFICES ASSUME m.type = "sync", NEW u \in DOMAIN m.changed
                 PROVE  m.changed[u] \in Held(u)'
      OBVIOUS
    <3>1. m.changed \in TagMaps
      BY MessageFacts
    <3>2. u \in Users
      BY <3>1, PartialFunctions DEF TagMaps
    <3> QED BY <1>3, <3>2, GrowthKeeps DEF GoodMessage
  <2>3. m.type = "finalized" => GoodList(m.list)'
    BY <1>1, <1>3, MessageFacts DEF GoodMessage
  <2>4. m.type = "process" => GoodResults(m.scores)'
    BY <1>2, <1>3, MessageFacts DEF GoodMessage
  <2>5. m.type \in Commands => m \in commands'
    BY <1>3 DEF GoodMessage, Grows
  <2> QED BY <2>1, <2>2, <2>3, <2>4, <2>5 DEF GoodMessage
<1>4. ASSUME NEW t \in Transaction, GoodTransaction(t) PROVE GoodTransaction(t)'
  <2>1. t.msg \in Message /\ GoodMessage(t.msg)'
    BY <1>3, <1>4 DEF Transaction, GoodTransaction
  <2>2. t.msg.type = "correct" => t.kept \in Held(t.msg.user)' \cup {NoTag}
    BY <1>4, <2>1, MessageFacts, GrowthKeeps DEF GoodTransaction
  <2> QED BY <1>1, <1>2, <1>4, <2>1, <2>2 DEF GoodTransaction
<1> QED BY <1>1, <1>2, <1>3, <1>4

\* A handler keeps what is in flight good if what it publishes and begins is good.
LEMMA FlightStep ==
  ASSUME InFlight, Grows, NEW out \in SUBSET Message, NEW begun \in SUBSET Transaction,
         \A m \in out : GoodMessage(m)', \A t \in begun : GoodTransaction(t)',
         Delivered(out, begun)
  PROVE  InFlight'
<1>1. \A t \in open : t.msg \in Message /\ GoodMessage(t.msg)
  BY DEF InFlight, Transaction, GoodTransaction
<1>2. msgs' \subseteq Message /\ open' \subseteq Transaction /\ RedeliveriesBounded'
  BY <1>1 DEF InFlight, Delivered
<1>3. \A m \in msgs' : GoodMessage(m)'
  BY <1>1, GrowthKeepsGood DEF InFlight, Delivered
<1>4. \A t \in open' : GoodTransaction(t)'
  BY GrowthKeepsGood DEF InFlight, Delivered
<1> QED BY <1>2, <1>3, <1>4 DEF InFlight

\* The same for a handler that leaves the leaderboard alone.
LEMMA QuietFlightStep ==
  ASSUME InFlight, UNCHANGED <<commands, held>>,
         NEW out \in SUBSET Message, NEW begun \in SUBSET Transaction,
         \A m \in out : GoodMessage(m), \A t \in begun : GoodTransaction(t),
         Delivered(out, begun)
  PROVE  InFlight'
  BY FlightStep, GrowthKeepsGood DEF Grows

-----------------------------------------------------------------------------
\* Whatever a list is written back with, each entry's score and tag come from a list
\* or a scorecard that has that user.
LEMMA UpsertedIsGood ==
  ASSUME NEW list \in Lists, GoodList(list), NEW news \in Lists, GoodList(news)
  PROVE  Upserted(list, news) \in Lists /\ GoodList(Upserted(list, news))
<1> DEFINE new == Upserted(list, news)
<1>1. /\ DOMAIN list \subseteq Users /\ \A u \in DOMAIN list : list[u] \in Entries
      /\ DOMAIN news \subseteq Users /\ \A u \in DOMAIN news : news[u] \in Entries
  BY PartialFunctions DEF Lists
<1>2. /\ DOMAIN new = DOMAIN list \cup DOMAIN news
      /\ new \in [DOMAIN list \cup DOMAIN news -> Entries]
  <2>1. ASSUME NEW u \in DOMAIN list \cup DOMAIN news PROVE new[u] \in Entries
    BY <1>1 DEF Upserted, Entries
  <2> QED BY <2>1 DEF Upserted
<1>3. new \in Lists
  BY <1>1, <1>2, PartialFunctions DEF Lists
<1>4. GoodList(new)
  <2> SUFFICES ASSUME NEW u \in DOMAIN new
               PROVE  new[u].score \in Submitted(u) \cup {NoScore} /\ new[u].tag \in Held(u) \cup {NoTag}
    BY DEF GoodList
  <2> QED BY <1>1, <1>2 DEF Upserted, GoodList
<1> QED BY <1>3, <1>4

LEMMA RemovedIsGood ==
  ASSUME NEW list \in Lists, GoodList(list), NEW user
  PROVE  Removed(list, user) \in Lists /\ GoodList(Removed(list, user))
<1> DEFINE new == Removed(list, user)
<1>1. DOMAIN list \subseteq Users /\ \A u \in DOMAIN list : list[u] \in Entries
  BY PartialFunctions DEF Lists
<1>2. /\ DOMAIN new = DOMAIN list \ {user} /\ new \in [DOMAIN new -> Entries]
      /\ \A u \in DOMAIN new : new[u] = list[u]
  BY <1>1 DEF Removed
<1>3. new \in Lists
  BY <1>1, <1>2, PartialFunctions DEF Lists
<1> QED BY <1>2, <1>3 DEF GoodList

LEMMA RetaggedIsGood ==
  ASSUME NEW list \in Lists, GoodList(list), NEW changed \in TagMaps,
         \A u \in DOMAIN changed : changed[u] \in Held(u)
  PROVE  Retagged(list, changed) \in Lists /\ GoodList(Retagged(list, changed))
<1> DEFINE new == Retagged(list, changed)
<1>1. /\ DOMAIN list \subseteq Users /\ \A u \in DOMAIN list : list[u] \in Entries
      /\ \A u \in DOMAIN changed : changed[u] \in Tags
  BY PartialFunctions DEF Lists, TagMaps
<1>2. DOMAIN new = DOMAIN list /\ new \in [DOMAIN list -> Entries]
  <2>1. ASSUME NEW u \in DOMAIN list PROVE new[u] \in Entries
    BY <1>1 DEF Retagged, Entries
  <2> QED BY <2>1 DEF Retagged
<1>3. new \in Lists
  BY <1>1, <1>2, PartialFunctions DEF Lists
<1>4. \A u \in DOMAIN list :
        /\ new[u].score = list[u].score
        /\ \/ new[u].tag = list[u].tag
           \/ u \in DOMAIN changed /\ new[u].tag = changed[u]
  BY <1>1 DEF Retagged, Entries
<1> QED BY <1>2, <1>3, <1>4 DEF GoodList

LEMMA ImportedIsGood ==
  ASSUME NEW list \in Lists, GoodList(list), NEW scores \in ScoreMaps,
         \A u \in DOMAIN scores : scores[u] \in Submitted(u)
  PROVE  Imported(list, scores) \in Lists /\ GoodList(Imported(list, scores))
<1> DEFINE new == Imported(list, scores)
<1>1. /\ DOMAIN list \subseteq Users /\ \A u \in DOMAIN list : list[u] \in Entries
      /\ DOMAIN scores \subseteq Users /\ \A u \in DOMAIN scores : scores[u] \in Scores
  BY PartialFunctions DEF Lists, ScoreMaps
<1>2. DOMAIN new = DOMAIN list \cup DOMAIN scores /\ new \in [DOMAIN new -> Entries]
  <2>1. ASSUME NEW u \in DOMAIN list \cup DOMAIN scores PROVE new[u] \in Entries
    BY <1>1 DEF Imported, Entries, Responses
  <2> QED BY <2>1 DEF Imported
<1>3. new \in Lists
  BY <1>1, <1>2, PartialFunctions DEF Lists
<1>4. GoodList(new)
  BY <1>1, <1>2 DEF Imported, GoodList
<1> QED BY <1>3, <1>4

\* What the score module is told of a list: a missing score becomes 0, no other.
LEMMA FinalScoresAreGood ==
  ASSUME NEW list \in Lists, GoodList(list)
  PROVE  FinalScores(list) \in ResultMaps /\ GoodResults(FinalScores(list))
<1> DEFINE new == FinalScores(list)
<1>1. DOMAIN list \subseteq Users /\ \A u \in DOMAIN list : list[u] \in Entries
  BY PartialFunctions DEF Lists
<1>2. DOMAIN new = DOMAIN list /\ new \in [DOMAIN list -> Results]
  <2>1. ASSUME NEW u \in DOMAIN list PROVE new[u] \in Results
    BY <1>1, ScoresAssumption DEF FinalScores, Entries, Results
  <2> QED BY <2>1 DEF FinalScores
<1>3. new \in ResultMaps
  BY <1>1, <1>2, PartialFunctions DEF ResultMaps
<1>4. \A u \in DOMAIN list :
        /\ new[u].score \in {list[u].score, 0} \ {NoScore}
        /\ new[u].tag = list[u].tag
  BY <1>1, ScoresAssumption DEF FinalScores
<1> QED BY <1>2, <1>3, <1>4 DEF GoodList, GoodResults

-----------------------------------------------------------------------------
\* One more than the number of those who finish before is a rank.
LEMMA CountsAreRanks ==
  ASSUME NEW P \in SUBSET Users, NEW before, \A u \in P : before[u] \in SUBSET (P \ {u})
  PROVE  [u \in P |-> 1 + Cardinality(before[u])] \in RankMaps
<1>1. ASSUME NEW u \in P PROVE 1 + Cardinality(before[u]) \in 1 .. Cardinality(Users)
  <2>1. u \in Users /\ before[u] \in SUBSET (Users \ {u})
    OBVIOUS
  <2>2. /\ IsFiniteSet(Users \ {u})
        /\ Cardinality(Users \ {u}) = Cardinality(Users) - 1
    BY <2>1, UsersAssumption, FS_RemoveElement
  <2>3. /\ IsFiniteSet(before[u])
        /\ Cardinality(before[u]) <= Cardinality(Users \ {u})
    BY <2>1, <2>2, FS_Subset
  <2>4. Cardinality(before[u]) \in Nat /\ Cardinality(Users) \in Nat
    BY <2>3, UsersAssumption, FS_CardinalityType
  <2> QED BY <2>2, <2>3, <2>4
<1> QED BY <1>1, PartialFunctions DEF RankMaps

LEMMA RankingIsRanks ==
  ASSUME NEW scores \in ResultMaps
  PROVE  Ranking(scores) \in RankMaps
<1> DEFINE P == Tagged(scores)
           before == [u \in P |-> {v \in P : SortsBefore(scores, v, u)}]
<1>1. /\ DOMAIN scores \subseteq Users
      /\ \A u \in DOMAIN scores : scores[u].score \in Int /\ u \in Nat
  BY PartialFunctions, ScoresAssumption, UsersAssumption DEF ResultMaps, Results
<1>2. P \in SUBSET Users
  BY <1>1 DEF Tagged
<1>3. \A u \in P : before[u] \in SUBSET (P \ {u})
  BY <1>1 DEF SortsBefore, Tagged
<1>4. [u \in P |-> 1 + Cardinality(before[u])] \in RankMaps
  <2> HIDE DEF P, before
  <2> QED BY <1>2, <1>3, CountsAreRanks
<1> QED BY <1>4 DEF Ranking

LEMMA RanksByTagIsRanks ==
  ASSUME NEW list \in Lists
  PROVE  RanksByTag(list) \in RankMaps
<1> DEFINE P == {u \in DOMAIN list : list[u].tag # NoTag}
           before == [u \in P |-> {v \in P :
             list[v].tag < list[u].tag \/ (list[v].tag = list[u].tag /\ v < u)}]
<1>1. DOMAIN list \subseteq Users /\ \A u \in DOMAIN list : list[u].tag \in Nat /\ u \in Nat
  BY PartialFunctions, TagsAssumption, UsersAssumption DEF Lists, Entries, NoTag
<1>2. P \in SUBSET Users
  BY <1>1
<1>3. \A u \in P : before[u] \in SUBSET (P \ {u})
  BY <1>1
<1>4. [u \in P |-> 1 + Cardinality(before[u])] \in RankMaps
  <2> HIDE DEF P, before
  <2> QED BY <1>2, <1>3, CountsAreRanks
<1> QED BY <1>4 DEF RanksByTag

\* However a closed pool is handed out, a user's next tag is a tag there is.
LEMMA AllocatedTags ==
  ASSUME tag \in [Users -> Tags \cup {NoTag}], NEW ranks \in RankMaps,
         NEW new \in Allocation!ClosedPoolAllocations(tag, ranks)
  PROVE  Allocation!FinalTags(tag, new) \in [Users -> Tags \cup {NoTag}]
<1>1. DOMAIN ranks \subseteq Users
  BY PartialFunctions DEF RankMaps
<1>2. Allocation!TagPool(tag, ranks) \subseteq Tags \cup {NoTag}
  BY <1>1 DEF Allocation!TagPool, Allocation!Eligible
<1>3. \A u \in DOMAIN new : new[u] \in Tags \cup {NoTag}
  BY <1>2 DEF Allocation!ClosedPoolAllocations
<1> QED BY <1>3 DEF Allocation!FinalTags

-----------------------------------------------------------------------------
\* What the handlers publish is good if what they have read is.
LEMMA EmptyIsAList ==
  /\ <<>> \in Lists /\ GoodList(<<>>)
  /\ <<>> \in ResultMaps /\ GoodResults(<<>>)
  /\ <<>> \in RankMaps
<1>1. DOMAIN <<>> = {}
  OBVIOUS
<1>2. \A S : <<>> \in [{} -> S]
  OBVIOUS
<1>3. <<>> \in Lists /\ <<>> \in ResultMaps /\ <<>> \in RankMaps
  BY <1>1, <1>2, PartialFunctions DEF Lists, ResultMaps, RankMaps
<1> QED BY <1>1, <1>3 DEF GoodList, GoodResults

LEMMA PlainMessages ==
  ASSUME NEW m \in [type : {"scoreUpdated", "allScores", "corrected"}]
  PROVE  m \in Message /\ GoodMessage(m)
  BY DEF Message, Events, GoodMessage, Commands

LEMMA JoinMessages ==
  ASSUME NEW user \in Users, NEW response \in Responses,
         NEW userTag \in Tags \cup {NoTag}, userTag \in Held(user) \cup {NoTag}
  PROVE  /\ Status(user, response, userTag) \in Message
         /\ GoodMessage(Status(user, response, userTag))
         /\ [type |-> "removal", user |-> user] \in Message
         /\ GoodMessage([type |-> "removal", user |-> user])
         /\ [type |-> "lookup", user |-> user, response |-> response] \in Message
         /\ GoodMessage([type |-> "lookup", user |-> user, response |-> response])
  BY DEF Message, Events, Status, GoodMessage, Commands

LEMMA FinalizedMessage ==
  ASSUME NEW list \in Lists, GoodList(list)
  PROVE  LET m == [type |-> "finalized", list |-> list] IN m \in Message /\ GoodMessage(m)
  BY DEF Message, Events, GoodMessage, Commands

LEMMA ProcessMessage ==
  ASSUME NEW scores \in ResultMaps, GoodResults(scores),
         NEW overwrite \in BOOLEAN, NEW singles \in BOOLEAN
  PROVE  LET m == Process(scores, overwrite, singles) IN m \in Message /\ GoodMessage(m)
  BY DEF Message, Events, Process, GoodMessage, Commands

LEMMA BatchMessage ==
  ASSUME NEW ranks \in RankMaps
  PROVE  LET m == [type |-> "batch", ranks |-> ranks] IN m \in Message /\ GoodMessage(m)
  BY DEF Message, Events, GoodMessage, Commands

LEMMA SyncMessage ==
  ASSUME tag' \in [Users -> Tags \cup {NoTag}], \A u \in Users : tag'[u] \in held'[u],
         NEW users \in SUBSET Users, NEW m, m = Sync(tag', users)
  PROVE  m \in Message /\ GoodMessage(m)'
<1> DEFINE changed == [u \in {v \in users : tag'[v] # NoTag} |-> tag'[u]]
<1>1. DOMAIN changed \subseteq Users /\ changed \in [DOMAIN changed -> Tags]
  OBVIOUS
<1>2. changed \in TagMaps
  BY <1>1, PartialFunctions DEF TagMaps
<1>3. \A u \in DOMAIN changed : changed[u] \in Held(u)'
  BY DEF Held
<1>4. m = [type |-> "sync", changed |-> changed]
  BY DEF Sync
<1> HIDE DEF changed
<1>5. m \in Message
  BY <1>2, <1>4 DEF Message, Events
<1> QED BY <1>3, <1>4, <1>5 DEF GoodMessage, Commands

-----------------------------------------------------------------------------
\* A handler of the round or the score module writes a good list and good results.
LEMMA TablesStep ==
  ASSUME Tables, UNCHANGED <<commands, leaderboard>>,
         state' \in {"UPCOMING", "IN_PROGRESS", "FINALIZED"},
         NEW list \in Lists, GoodList(list), participants' = list,
         NEW scores \in ResultMaps, GoodResults(scores), stored' = scores,
         batches' \subseteq RankMaps
  PROVE  Tables'
<1>1. Grows
  BY DEF Grows, leaderboard
<1>2. GoodList(participants)' /\ GoodResults(stored)'
  <2>1. GoodList(list)' /\ GoodResults(scores)'
    BY <1>1, GrowthKeepsGood
  <2> QED BY <2>1 DEF GoodList, GoodResults
<1> QED BY <1>2 DEF Tables, leaderboard

\* A handler of the leaderboard module remembers the tags it has given.
LEMMA LeaderboardStep ==
  ASSUME Tables, UNCHANGED <<commands, state, participants, stored, batches>>,
         NEW new \in [Users -> Tags \cup {NoTag}], TagsBecome(new), ranked' \in RankMaps
  PROVE  Tables' /\ Grows
<1>1. Grows
  BY DEF Tables, TagsBecome, Grows
<1>2. GoodList(participants)' /\ GoodResults(stored)'
  <2>1. GoodList(participants') /\ GoodResults(stored')
    BY DEF Tables, GoodList, GoodResults
  <2> QED BY <1>1, GrowthKeeps, PartialFunctions DEF Tables, GoodList, GoodResults, Lists, ResultMaps
<1>3. held' \in [Users -> SUBSET (Tags \cup {NoTag})] /\ \A u \in Users : tag'[u] \in held'[u]
  BY DEF Tables, TagsBecome
<1> QED BY <1>1, <1>2, <1>3 DEF Tables, TagsBecome

\* Results that are already processed leave the leaderboard as it is.
LEMMA ProcessRoundStep ==
  ASSUME Tables, UNCHANGED <<commands, state, participants, stored, batches>>,
         NEW ranks \in RankMaps, ProcessRound(ranks)
  PROVE  Tables' /\ Grows
<1>1. CASE UNCHANGED leaderboard
  <2>1. Tables'
    BY <1>1, TablesStep DEF Tables
  <2> QED BY <1>1, <2>1 DEF Grows, leaderboard
<1>2. ASSUME NEW new \in Allocation!ClosedPoolAllocations(tag, ranks),
             TagsBecome(Allocation!FinalTags(tag, new)), ranked' = ranks
      PROVE  Tables' /\ Grows
  <2>1. Allocation!FinalTags(tag, new) \in [Users -> Tags \cup {NoTag}]
    BY <1>2, AllocatedTags DEF Tables
  <2> HIDE DEF Allocation!FinalTags
  <2> QED BY <1>2, <2>1, LeaderboardStep
<1> QED BY <1>1, <1>2 DEF ProcessRound

\* Handlers that leave the tables alone.
LEMMA SameTablesStep ==
  ASSUME Tables, UNCHANGED <<commands, state, participants, leaderboard, stored, batches>>
  PROVE  Tables' /\ UNCHANGED <<commands, held>>
  BY TablesStep DEF Tables, leaderboard

\* Handlers that write the participants only.
LEMMA ListStep ==
  ASSUME Tables, UNCHANGED <<commands, state, leaderboard, stored, batches>>,
         NEW list \in Lists, GoodList(list), participants' = list
  PROVE  Tables' /\ UNCHANGED <<commands, held>>
  BY TablesStep DEF Tables, leaderboard

\* Handlers that write the stored scores only.
LEMMA ResultsStep ==
  ASSUME Tables, UNCHANGED <<commands, state, participants, leaderboard>>,
         NEW scores \in ResultMaps, GoodResults(scores), stored' = scores,
         batches' \subseteq RankMaps
  PROVE  Tables' /\ UNCHANGED <<commands, held>>
  BY TablesStep DEF Tables, leaderboard

\* What a handler is called with, and what a half-way handler holds.
LEMMA CallFacts ==
  ASSUME InFlight
  PROVE  /\ \A type : \A m \in Of(type) :
              m \in msgs /\ m \in Message /\ GoodMessage(m) /\ m.type = type
         /\ \A type : \A t \in OpenFor(type) :
              /\ t \in open /\ t \in Transaction /\ GoodTransaction(t)
              /\ t.msg \in Message /\ GoodMessage(t.msg) /\ t.msg.type = type
  BY DEF InFlight, Of, OpenFor, Transaction, GoodTransaction

\* A score command was submitted for its user, a scorecard for all that are on it.
LEMMA CommandsSubmit ==
  ASSUME NEW m \in Message, GoodMessage(m)
  PROVE  /\ m.type \in {"score", "correct"} => m.score \in Submitted(m.user)
         /\ m.type \in {"bulk", "import"} =>
              \A u \in DOMAIN m.scores : m.scores[u] \in Submitted(u)
  BY DEF GoodMessage, Commands, Submitted

LEMMA HandledQuietly ==
  ASSUME InFlight, UNCHANGED <<commands, held>>, NEW m \in msgs,
         NEW out \in SUBSET Message, \A x \in out : GoodMessage(x), Handle(m, out)
  PROVE  InFlight'
  BY HandleDelivers, QuietFlightStep DEF InFlight

LEMMA CommittedQuietly ==
  ASSUME InFlight, UNCHANGED <<commands, held>>, NEW t \in open,
         NEW out \in SUBSET Message, \A x \in out : GoodMessage(x), Commit(t, out)
  PROVE  InFlight'
  BY CommitDelivers, QuietFlightStep DEF InFlight

\* A half-way handler has read a list, or the stored results of a correction.
LEMMA BegunQuietly ==
  ASSUME InFlight, UNCHANGED <<commands, held>>, NEW m \in msgs,
         NEW seen, NEW kept \in Tags \cup {NoTag}, Begin(m, seen, kept),
         m.type # "correct" => seen \in Lists /\ GoodList(seen),
         m.type = "correct" => /\ seen \in ResultMaps /\ GoodResults(seen)
                               /\ kept \in Held(m.user) \cup {NoTag}
  PROVE  InFlight'
<1> DEFINE t == [msg |-> m, seen |-> seen, kept |-> kept]
<1>1. m \in Message /\ GoodMessage(m)
  BY DEF InFlight
<1>2. t \in Transaction /\ GoodTransaction(t)
  BY <1>1 DEF Transaction, GoodTransaction
<1>3. Delivered({}, {t})
  BY OpenDelivers DEF Begin, InFlight
<1> HIDE DEF t
<1> QED BY <1>2, <1>3, QuietFlightStep

-----------------------------------------------------------------------------
\* The handlers that write the list of participants or the state of the round.
LEMMA RoundStepsInv ==
  ASSUME ScoringInv,
         \/ Join \/ LookupTag \/ UpdateStatus \/ ReadForRemoval \/ WriteRemoval
         \/ ReadForScore \/ WriteScore \/ UpdateScoresBulk \/ ReadForImport \/ WriteImport
         \/ CheckScores \/ StartRound \/ FinalizeRound \/ NotifyScoreModule
         \/ ReadForSync \/ WriteSync
  PROVE  ScoringInv'
<1>a. commands \in Scenarios /\ Tables /\ InFlight
  BY DEF ScoringInv
<1>b. participants \in Lists /\ GoodList(participants)
  BY <1>a DEF Tables
<1>1. ASSUME Join PROVE ScoringInv'
  <2>1. PICK m \in Of("join") : Handle(m, {Checked(m)})
    BY <1>1 DEF Join
  <2>2. m \in msgs /\ m.user \in Users /\ m.response \in Responses
    BY <2>1, <1>a, CallFacts, MessageFacts
  <2>3. Checked(m) \in Message /\ GoodMessage(Checked(m))
    BY <2>2, JoinMessages DEF Checked, Validated
  <2>4. Tables' /\ UNCHANGED <<commands, held>>
    BY <1>1, <1>a, SameTablesStep DEF Join
  <2> HIDE DEF Checked
  <2>5. InFlight'
    BY <1>a, <2>1, <2>2, <2>3, <2>4, HandledQuietly
  <2> QED BY <1>a, <2>4, <2>5 DEF ScoringInv
<1>2. ASSUME LookupTag PROVE ScoringInv'
  <2>1. PICK m \in Of("lookup") : Handle(m, {Status(m.user, m.response, tag[m.user])})
    BY <1>2 DEF LookupTag, Handle
  <2>2. m \in msgs /\ m.user \in Users /\ m.response \in Responses
    BY <2>1, <1>a, CallFacts, MessageFacts
  <2>3. tag[m.user] \in Tags \cup {NoTag} /\ tag[m.user] \in Held(m.user)
    BY <1>a, <2>2 DEF Tables, Held
  <2>4. /\ Status(m.user, m.response, tag[m.user]) \in Message
        /\ GoodMessage(Status(m.user, m.response, tag[m.user]))
    BY <2>2, <2>3, JoinMessages
  <2>5. Tables' /\ UNCHANGED <<commands, held>>
    BY <1>2, <1>a, SameTablesStep DEF LookupTag
  <2> HIDE DEF Status
  <2>6. InFlight'
    BY <1>a, <2>1, <2>2, <2>4, <2>5, HandledQuietly
  <2> QED BY <1>a, <2>5, <2>6 DEF ScoringInv
<1>3. ASSUME UpdateStatus PROVE ScoringInv'
  <2>1. PICK m \in Of("status") : UpdateParticipantStatus(m) /\ Handle(m, {})
    BY <1>3 DEF UpdateStatus, Handle
  <2> DEFINE news == [u \in {m.user} |-> [response |-> m.response, tag |-> m.tag, score |-> NoScore]]
             list == Upserted(participants, news)
  <2>2. /\ m \in msgs /\ m.user \in Users /\ m.response \in Responses
        /\ m.tag \in Tags \cup {NoTag} /\ m.tag \in Held(m.user) \cup {NoTag}
    BY <2>1, <1>a, CallFacts, MessageFacts DEF GoodMessage
  <2>3. news \in Lists /\ GoodList(news)
    BY <2>2, PartialFunctions DEF Lists, Entries, GoodList
  <2> HIDE DEF news
  <2>4. list \in Lists /\ GoodList(list)
    BY <1>b, <2>3, UpsertedIsGood
  <2>5. participants' = list
    BY <2>1 DEF UpdateParticipantStatus, news
  <2> HIDE DEF list
  <2>6. Tables' /\ UNCHANGED <<commands, held>>
    BY <1>3, <1>a, <2>4, <2>5, ListStep DEF UpdateStatus
  <2>7. InFlight'
    BY <1>a, <2>1, <2>2, <2>6, HandledQuietly
  <2> QED BY <1>a, <2>6, <2>7 DEF ScoringInv
<1>4. ASSUME ReadForRemoval PROVE ScoringInv'
  <2>1. PICK m \in Of("removal") : Handle(m, {}) \/ Begin(m, participants, NoTag)
    BY <1>4 DEF ReadForRemoval
  <2>2. m \in msgs /\ m.type = "removal"
    BY <2>1, <1>a, CallFacts
  <2>3. Tables' /\ UNCHANGED <<commands, held>>
    BY <1>4, <1>a, SameTablesStep DEF ReadForRemoval
  <2>4. InFlight'
    BY <1>a, <1>b, <2>1, <2>2, <2>3, HandledQuietly, BegunQuietly
  <2> QED BY <1>a, <2>3, <2>4 DEF ScoringInv
<1>5. ASSUME WriteRemoval PROVE ScoringInv'
  <2>1. PICK t \in OpenFor("removal") :
          participants' = Removed(t.seen, t.msg.user) /\ Commit(t, {})
    BY <1>5 DEF WriteRemoval
  <2>2. t \in open /\ t.seen \in Lists /\ GoodList(t.seen)
    BY <2>1, <1>a, CallFacts DEF GoodTransaction
  <2>3. Tables' /\ UNCHANGED <<commands, held>>
    BY <1>5, <1>a, <2>1, <2>2, RemovedIsGood, ListStep DEF WriteRemoval
  <2>4. InFlight'
    BY <1>a, <2>1, <2>2, <2>3, CommittedQuietly
  <2> QED BY <1>a, <2>3, <2>4 DEF ScoringInv
<1>6. ASSUME ReadForScore PROVE ScoringInv'
  <2>1. PICK m \in Of("score") : Begin(m, participants, NoTag)
    BY <1>6 DEF ReadForScore
  <2>2. m \in msgs /\ m.type = "score"
    BY <2>1, <1>a, CallFacts
  <2>3. Tables' /\ UNCHANGED <<commands, held>>
    BY <1>6, <1>a, SameTablesStep DEF ReadForScore
  <2>4. InFlight'
    BY <1>a, <1>b, <2>1, <2>2, <2>3, BegunQuietly
  <2> QED BY <1>a, <2>3, <2>4 DEF ScoringInv
<1>7. ASSUME WriteScore PROVE ScoringInv'
  <2>1. PICK t \in OpenFor("score") :
          UpdateParticipantScore(t) /\ Commit(t, {[type |-> "scoreUpdated"]})
    BY <1>7 DEF WriteScore
  <2>2. /\ t \in open /\ t.msg.user \in Users
        /\ t.msg.score \in Scores /\ t.msg.score \in Submitted(t.msg.user)
    BY <2>1, <1>a, CallFacts, MessageFacts, CommandsSubmit
  <2> DEFINE news == [u \in {t.msg.user} |->
                        [response |-> IF u \in DOMAIN t.seen THEN Blank ELSE "ACCEPT",
                         tag |-> NoTag, score |-> t.msg.score]]
             list == Upserted(participants, news)
  <2>3. news \in Lists /\ GoodList(news)
    <3>1. DOMAIN news \subseteq Users /\ \A u \in DOMAIN news : news[u] \in Entries
      BY <2>2 DEF Entries, Responses
    <3>2. \A u \in DOMAIN news : news[u].tag = NoTag /\ news[u].score \in Submitted(u)
      BY <2>2
    <3>3. news \in [DOMAIN news -> Entries]
      BY <3>1
    <3> HIDE DEF news
    <3> QED BY <3>1, <3>2, <3>3, PartialFunctions DEF Lists, GoodList
  <2>4. participants' = list
    BY <2>1 DEF UpdateParticipantScore
  <2> HIDE DEF news
  <2>5. list \in Lists /\ GoodList(list)
    BY <1>b, <2>3, UpsertedIsGood
  <2> HIDE DEF list
  <2>6. Tables' /\ UNCHANGED <<commands, held>>
    BY <1>7, <1>a, <2>4, <2>5, ListStep DEF WriteScore
  <2>7. InFlight'
    BY <1>a, <2>1, <2>2, <2>6, PlainMessages, CommittedQuietly
  <2> QED BY <1>a, <2>6, <2>7 DEF ScoringInv
<1>8. ASSUME UpdateScoresBulk PROVE ScoringInv'
  <2>1. PICK m \in Of("bulk") :
          UpdateParticipantScoresBulk(m) /\ Handle(m, {[type |-> "corrected"]})
    BY <1>8 DEF UpdateScoresBulk, Handle
  <2>2. /\ m \in msgs /\ m.scores \in ScoreMaps
        /\ \A u \in DOMAIN m.scores : m.scores[u] \in Submitted(u)
    BY <2>1, <1>a, CallFacts, MessageFacts, CommandsSubmit
  <2> DEFINE news == [u \in DOMAIN m.scores |->
                        [response |-> Blank, tag |-> NoTag, score |-> m.scores[u]]]
             list == Upserted(participants, news)
  <2>3. news \in Lists /\ GoodList(news)
    <3>1. DOMAIN news \subseteq Users /\ \A u \in DOMAIN news : news[u] \in Entries
      BY <2>2, PartialFunctions DEF ScoreMaps, Entries
    <3>2. \A u \in DOMAIN news : news[u].tag = NoTag /\ news[u].score \in Submitted(u)
      BY <2>2
    <3>3. news \in [DOMAIN news -> Entries]
      BY <3>1
    <3> HIDE DEF news
    <3> QED BY <3>1, <3>2, <3>3, PartialFunctions DEF Lists, GoodList
  <2>4. participants' = list
    BY <2>1 DEF UpdateParticipantScoresBulk
  <2> HIDE DEF news
  <2>5. list \in Lists /\ GoodList(list)
    BY <1>b, <2>3, UpsertedIsGood
  <2> HIDE DEF list
  <2>6. Tables' /\ UNCHANGED <<commands, held>>
    BY <1>8, <1>a, <2>4, <2>5, ListStep DEF UpdateScoresBulk
  <2>7. InFlight'
    BY <1>a, <2>1, <2>2, <2>6, PlainMessages, HandledQuietly
  <2> QED BY <1>a, <2>6, <2>7 DEF ScoringInv
<1>9. ASSUME ReadForImport PROVE ScoringInv'
  <2>1. PICK m \in Of("import") : Begin(m, participants, NoTag)
    BY <1>9 DEF ReadForImport
  <2>2. m \in msgs /\ m.type = "import"
    BY <2>1, <1>a, CallFacts
  <2>3. Tables' /\ UNCHANGED <<commands, held>>
    BY <1>9, <1>a, SameTablesStep DEF ReadForImport
  <2>4. InFlight'
    BY <1>a, <1>b, <2>1, <2>2, <2>3, BegunQuietly
  <2> QED BY <1>a, <2>3, <2>4 DEF ScoringInv
<1>10. ASSUME WriteImport PROVE ScoringInv'
  <2> DEFINE out == {[type |-> "scoreUpdated"], [type |-> "allScores"]}
  <2>1. PICK t \in OpenFor("import") :
          participants' = Imported(t.seen, t.msg.scores) /\ Commit(t, out)
    BY <1>10 DEF WriteImport
  <2>2. /\ t \in open /\ t.seen \in Lists /\ GoodList(t.seen)
        /\ t.msg.scores \in ScoreMaps
        /\ \A u \in DOMAIN t.msg.scores : t.msg.scores[u] \in Submitted(u)
    BY <2>1, <1>a, CallFacts, MessageFacts, CommandsSubmit DEF GoodTransaction
  <2>3. Tables' /\ UNCHANGED <<commands, held>>
    BY <1>10, <1>a, <2>1, <2>2, ImportedIsGood, ListStep DEF WriteImport
  <2>4. out \in SUBSET Message /\ \A x \in out : GoodMessage(x)
    BY PlainMessages
  <2> HIDE DEF out
  <2>5. InFlight'
    BY <1>a, <2>1, <2>2, <2>3, <2>4, CommittedQuietly
  <2> QED BY <1>a, <2>3, <2>5 DEF ScoringInv
<1>11. ASSUME CheckScores PROVE ScoringInv'
  <2> DEFINE out == IF IsComplete(participants) THEN {[type |-> "allScores"]} ELSE {}
  <2>1. PICK m \in Of("scoreUpdated") : Handle(m, out)
    BY <1>11 DEF CheckScores, Handle
  <2>2. m \in msgs
    BY <2>1, <1>a, CallFacts
  <2>3. out \in SUBSET Message /\ \A x \in out : GoodMessage(x)
    BY PlainMessages
  <2>4. Tables' /\ UNCHANGED <<commands, held>>
    BY <1>11, <1>a, SameTablesStep DEF CheckScores
  <2> HIDE DEF out
  <2>5. InFlight'
    BY <1>a, <2>1, <2>2, <2>3, <2>4, HandledQuietly
  <2> QED BY <1>a, <2>4, <2>5 DEF ScoringInv
<1>12. ASSUME StartRound PROVE ScoringInv'
  <2>1. PICK m \in Of("start") : Handle(m, {})
    BY <1>12 DEF StartRound, Handle
  <2>2. m \in msgs
    BY <2>1, <1>a, CallFacts
  <2>3. Tables' /\ UNCHANGED <<commands, held>>
    BY <1>12, <1>a, TablesStep DEF StartRound, Tables, leaderboard
  <2>4. InFlight'
    BY <1>a, <2>1, <2>2, <2>3, HandledQuietly
  <2> QED BY <1>a, <2>3, <2>4 DEF ScoringInv
<1>13. ASSUME FinalizeRound PROVE ScoringInv'
  <2> DEFINE x == [type |-> "finalized", list |-> participants]
  <2>1. PICK m \in Of("allScores") : Handle(m, {x})
    BY <1>13 DEF FinalizeRound, Handle
  <2>2. m \in msgs
    BY <2>1, <1>a, CallFacts
  <2>3. x \in Message /\ GoodMessage(x)
    BY <1>b, FinalizedMessage
  <2>4. Tables' /\ UNCHANGED <<commands, held>>
    BY <1>13, <1>a, TablesStep DEF FinalizeRound, Finalize, Tables, leaderboard
  <2> HIDE DEF x
  <2>5. InFlight'
    BY <1>a, <2>1, <2>2, <2>3, <2>4, HandledQuietly
  <2> QED BY <1>a, <2>4, <2>5 DEF ScoringInv
<1>14. ASSUME NotifyScoreModule PROVE ScoringInv'
  <2>1. PICK m \in Of("finalized") :
          Handle(m, {Process(FinalScores(m.list), TRUE, TRUE)}) \/ Handle(m, {})
    BY <1>14 DEF NotifyScoreModule, Handle
  <2> DEFINE x == Process(FinalScores(m.list), TRUE, TRUE)
  <2>2. m \in msgs /\ m.list \in Lists /\ GoodList(m.list)
    BY <2>1, <1>a, CallFacts, MessageFacts DEF GoodMessage
  <2>3. FinalScores(m.list) \in ResultMaps /\ GoodResults(FinalScores(m.list))
    BY <2>2, FinalScoresAreGood
  <2>4. x \in Message /\ GoodMessage(x)
    BY <2>3, ProcessMessage
  <2>5. Tables' /\ UNCHANGED <<commands, held>>
    BY <1>14, <1>a, SameTablesStep DEF NotifyScoreModule
  <2>6. Handle(m, {x}) \/ Handle(m, {})
    BY <2>1
  <2> HIDE DEF x
  <2>7. InFlight'
    BY <1>a, <2>2, <2>4, <2>5, <2>6, HandledQuietly
  <2> QED BY <1>a, <2>5, <2>7 DEF ScoringInv
<1>15. ASSUME ReadForSync PROVE ScoringInv'
  <2>1. PICK m \in Of("sync") : Handle(m, {}) \/ Begin(m, participants, NoTag)
    BY <1>15 DEF ReadForSync, GetUpcomingRounds
  <2>2. m \in msgs /\ m.type = "sync"
    BY <2>1, <1>a, CallFacts
  <2>3. Tables' /\ UNCHANGED <<commands, held>>
    BY <1>15, <1>a, SameTablesStep DEF ReadForSync
  <2>4. InFlight'
    BY <1>a, <1>b, <2>1, <2>2, <2>3, HandledQuietly, BegunQuietly
  <2> QED BY <1>a, <2>3, <2>4 DEF ScoringInv
<1>16. ASSUME WriteSync PROVE ScoringInv'
  <2>1. PICK t \in OpenFor("sync") :
          participants' = Retagged(t.seen, t.msg.changed) /\ Commit(t, {})
    BY <1>16 DEF WriteSync
  <2>2. /\ t \in open /\ t.seen \in Lists /\ GoodList(t.seen)
        /\ t.msg.changed \in TagMaps
        /\ \A u \in DOMAIN t.msg.changed : t.msg.changed[u] \in Held(u)
    BY <2>1, <1>a, CallFacts, MessageFacts DEF GoodTransaction, GoodMessage
  <2>3. Tables' /\ UNCHANGED <<commands, held>>
    BY <1>16, <1>a, <2>1, <2>2, RetaggedIsGood, ListStep DEF WriteSync
  <2>4. InFlight'
    BY <1>a, <2>1, <2>2, <2>3, CommittedQuietly
  <2> QED BY <1>a, <2>3, <2>4 DEF ScoringInv
<1> QED BY <1>1, <1>2, <1>3, <1>4, <1>5, <1>6, <1>7, <1>8, <1>9, <1>10, <1>11, <1>12,
           <1>13, <1>14, <1>15, <1>16

\* The handlers that write the stored scores.
LEMMA ScoreStepsInv ==
  ASSUME ScoringInv,
         \/ ProcessScores \/ ReadTagForCorrection \/ ReadForCorrection
         \/ WriteCorrection \/ Reprocess
  PROVE  ScoringInv'
<1>a. commands \in Scenarios /\ Tables /\ InFlight
  BY DEF ScoringInv
<1>b. stored \in ResultMaps /\ GoodResults(stored) /\ batches \subseteq RankMaps
  BY <1>a DEF Tables
<1>c. \A scores \in ResultMaps : DOMAIN scores \subseteq Users /\ \A u \in DOMAIN scores : scores[u] \in Results
  BY PartialFunctions DEF ResultMaps
\* What a correction writes for its user.
<1>d. ASSUME NEW t \in OpenFor("correct")
      PROVE  /\ t \in open /\ t.seen \in ResultMaps /\ GoodResults(t.seen)
             /\ t.msg.user \in Users /\ [score |-> t.msg.score, tag |-> t.kept] \in Results
             /\ t.msg.score \in Submitted(t.msg.user) /\ t.kept \in Held(t.msg.user) \cup {NoTag}
  <2>1. /\ t \in open /\ t \in Transaction /\ GoodTransaction(t)
        /\ t.msg \in Message /\ GoodMessage(t.msg) /\ t.msg.type = "correct"
    BY <1>a, CallFacts
  <2>2. t.msg.score \in Scores /\ t.msg.user \in Users /\ t.kept \in Tags \cup {NoTag}
    BY <2>1, MessageFacts DEF Transaction
  <2> QED BY <2>1, <2>2, CommandsSubmit DEF GoodTransaction, Results
<1>1. ASSUME ProcessScores PROVE ScoringInv'
  <2>1. PICK m \in Of("process") :
          \/ Handle(m, {}) /\ UNCHANGED <<stored, batches>>
          \/ /\ stored' = m.scores
             /\ batches' = batches \cup Batches(m)
             /\ Handle(m, {[type |-> "batch", ranks |-> ranks] : ranks \in Batches(m)})
    BY <1>1 DEF ProcessScores, LogScores
  <2> DEFINE out == {[type |-> "batch", ranks |-> ranks] : ranks \in Batches(m)}
  <2>2. m \in msgs /\ m.scores \in ResultMaps /\ GoodResults(m.scores)
    BY <2>1, <1>a, CallFacts, MessageFacts DEF GoodMessage
  <2>3. Batches(m) \subseteq RankMaps
    BY <2>2, RankingIsRanks DEF Batches
  <2>4. out \in SUBSET Message /\ \A x \in out : GoodMessage(x)
    BY <2>3, BatchMessage
  <2>5. Tables' /\ UNCHANGED <<commands, held>>
    BY <1>1, <1>a, <1>b, <2>1, <2>2, <2>3, ResultsStep DEF ProcessScores
  <2>6. Handle(m, {}) \/ Handle(m, out)
    BY <2>1
  <2> HIDE DEF out
  <2>7. InFlight'
    BY <1>a, <2>2, <2>4, <2>5, <2>6, HandledQuietly
  <2> QED BY <1>a, <2>5, <2>7 DEF ScoringInv
<1>2. ASSUME ReadTagForCorrection PROVE ScoringInv'
  <2> DEFINE Kept(m) == IF m.user \in DOMAIN stored THEN stored[m.user].tag ELSE NoTag
  <2>1. PICK m \in Of("correct") : Begin(m, <<>>, Kept(m))
    BY <1>2 DEF ReadTagForCorrection
  <2>2. m \in msgs /\ m.type = "correct"
    BY <2>1, <1>a, CallFacts
  <2>3. Kept(m) \in Tags \cup {NoTag} /\ Kept(m) \in Held(m.user) \cup {NoTag}
    BY <1>b, <1>c DEF GoodResults, Results
  <2>4. Tables' /\ UNCHANGED <<commands, held>>
    BY <1>2, <1>a, SameTablesStep DEF ReadTagForCorrection
  <2> HIDE DEF Kept
  <2>5. InFlight'
    BY <1>a, <2>1, <2>2, <2>3, <2>4, EmptyIsAList, BegunQuietly
  <2> QED BY <1>a, <2>4, <2>5 DEF ScoringInv
<1>3. ASSUME ReadForCorrection PROVE ScoringInv'
  <2>1. PICK t \in OpenFor("correct") :
          \/ /\ stored' = [u \in {t.msg.user} |-> [score |-> t.msg.score, tag |-> t.kept]]
             /\ Commit(t, {[type |-> "corrected"]})
          \/ Proceed(t, [t EXCEPT !.seen = stored]) /\ UNCHANGED stored
    BY <1>3 DEF ReadForCorrection
  <2>2. CASE /\ stored' = [u \in {t.msg.user} |-> [score |-> t.msg.score, tag |-> t.kept]]
             /\ Commit(t, {[type |-> "corrected"]})
    <3> DEFINE new == [u \in {t.msg.user} |-> [score |-> t.msg.score, tag |-> t.kept]]
    <3>1. new \in ResultMaps /\ GoodResults(new)
      BY <1>d, PartialFunctions DEF ResultMaps, GoodResults
    <3> HIDE DEF new
    <3>2. Tables' /\ UNCHANGED <<commands, held>>
      BY <1>3, <1>a, <1>b, <2>2, <3>1, ResultsStep DEF ReadForCorrection, new
    <3>3. InFlight'
      BY <1>a, <1>d, <2>2, <3>2, PlainMessages, CommittedQuietly
    <3> QED BY <1>a, <3>2, <3>3 DEF ScoringInv
  <2>3. CASE Proceed(t, [t EXCEPT !.seen = stored]) /\ UNCHANGED stored
    <3> DEFINE x == [t EXCEPT !.seen = stored]
    <3>1. Tables' /\ UNCHANGED <<commands, held>>
      BY <1>3, <1>a, <2>3, SameTablesStep DEF ReadForCorrection
    <3>2. t \in Transaction /\ GoodTransaction(t) /\ t.msg.type = "correct"
      BY <1>a, CallFacts
    <3>3. x \in Transaction
      BY <1>b, <3>2 DEF Transaction
    <3>4. x.msg = t.msg /\ x.kept = t.kept /\ x.seen = stored
      BY <3>2 DEF Transaction
    <3> HIDE DEF x
    <3>5. GoodTransaction(x)
      BY <1>b, <3>2, <3>4 DEF GoodTransaction
    <3>6. Proceed(t, x)
      BY <2>3 DEF x
    <3>7. Delivered({}, {x})
      BY <1>a, <3>6, ProceedDelivers DEF InFlight
    <3>8. InFlight'
      BY <1>a, <3>1, <3>3, <3>5, <3>7, QuietFlightStep
    <3> QED BY <1>a, <3>1, <3>8 DEF ScoringInv
  <2> QED BY <2>1, <2>2, <2>3
<1>4. ASSUME WriteCorrection PROVE ScoringInv'
  <2> DEFINE Corrected(t) == [u \in DOMAIN t.seen \cup {t.msg.user} |->
        IF u = t.msg.user THEN [score |-> t.msg.score, tag |-> t.kept] ELSE t.seen[u]]
  <2>1. PICK t \in OpenFor("correct") :
          stored' = Corrected(t) /\ Commit(t, {[type |-> "corrected"]})
    BY <1>4 DEF WriteCorrection
  <2>2. DOMAIN t.seen \subseteq Users /\ \A u \in DOMAIN t.seen : t.seen[u] \in Results
    BY <1>c, <1>d
  <2>3. DOMAIN Corrected(t) \subseteq Users /\ Corrected(t) \in [DOMAIN Corrected(t) -> Results]
    BY <1>d, <2>2
  <2>4. GoodResults(Corrected(t))
    BY <1>d DEF GoodResults
  <2> HIDE DEF Corrected
  <2>5. Corrected(t) \in ResultMaps
    BY <2>3, PartialFunctions DEF ResultMaps
  <2>6. Tables' /\ UNCHANGED <<commands, held>>
    BY <1>4, <1>a, <1>b, <2>1, <2>4, <2>5, ResultsStep DEF WriteCorrection
  <2>7. InFlight'
    BY <1>a, <1>d, <2>1, <2>6, PlainMessages, CommittedQuietly
  <2> QED BY <1>a, <2>6, <2>7 DEF ScoringInv
<1>5. ASSUME Reprocess PROVE ScoringInv'
  <2> DEFINE out == IF HasRow THEN {Process(stored, FALSE, FALSE)} ELSE {}
  <2>1. PICK m \in Of("corrected") : Handle(m, out)
    BY <1>5 DEF Reprocess, Handle
  <2>2. m \in msgs
    BY <2>1, <1>a, CallFacts
  <2>3. out \in SUBSET Message /\ \A x \in out : GoodMessage(x)
    BY <1>b, ProcessMessage
  <2>4. Tables' /\ UNCHANGED <<commands, held>>
    BY <1>5, <1>a, SameTablesStep DEF Reprocess
  <2> HIDE DEF out
  <2>5. InFlight'
    BY <1>a, <2>1, <2>2, <2>3, <2>4, HandledQuietly
  <2> QED BY <1>a, <2>4, <2>5 DEF ScoringInv
<1> QED BY <1>1, <1>2, <1>3, <1>4, <1>5

\* The handlers that move tags, and tell the upcoming rounds of it.
LEMMA TagStepsInv ==
  ASSUME ScoringInv, Retag \/ AssignRanks \/ RecalculateRound
  PROVE  ScoringInv'
<1>a. commands \in Scenarios /\ Tables /\ InFlight
  BY DEF ScoringInv
\* The tags of a message are those the leaderboard has given just now.
<1>b. ASSUME Tables', Grows, NEW m \in msgs, NEW users \in SUBSET Users,
             NEW x, x = Sync(tag', users), Handle(m, {x})
      PROVE  ScoringInv'
  <2>1. x \in Message /\ GoodMessage(x)'
    BY <1>b, SyncMessage DEF Tables
  <2>2. Delivered({x}, {})
    BY <1>a, <1>b, HandleDelivers DEF InFlight
  <2>3. InFlight'
    BY <1>a, <1>b, <2>1, <2>2, FlightStep
  <2> QED BY <1>a, <1>b, <2>3 DEF ScoringInv, Grows
<1>1. ASSUME Retag PROVE ScoringInv'
  <2> DEFINE New(m) == [u \in Users |-> IF u \in DOMAIN m.changed THEN m.changed[u] ELSE tag[u]]
  <2>1. PICK m \in Of("retag") : TagsBecome(New(m)) /\ Handle(m, {Sync(tag', DOMAIN m.changed)})
    BY <1>1 DEF Retag
  <2>2. /\ m \in msgs /\ DOMAIN m.changed \subseteq Users
        /\ \A u \in DOMAIN m.changed : m.changed[u] \in Tags
    <3>1. m \in msgs /\ m.changed \in TagMaps
      BY <2>1, <1>a, CallFacts, MessageFacts
    <3> QED BY <3>1, PartialFunctions DEF TagMaps
  <2>3. New(m) \in [Users -> Tags \cup {NoTag}]
    BY <1>a, <2>2 DEF Tables
  <2> HIDE DEF New
  <2>4. Tables' /\ Grows
    BY <1>1, <1>a, <2>1, <2>3, LeaderboardStep DEF Retag, Tables
  <2> QED BY <1>b, <2>1, <2>2, <2>4
<1>2. ASSUME AssignRanks PROVE ScoringInv'
  <2>1. PICK m \in Of("batch") : ProcessRound(m.ranks) /\ Handle(m, {Sync(tag', DOMAIN m.ranks)})
    BY <1>2 DEF AssignRanks
  <2>2. m \in msgs /\ m.ranks \in RankMaps
    BY <2>1, <1>a, CallFacts, MessageFacts
  <2>3. DOMAIN m.ranks \subseteq Users
    BY <2>2, PartialFunctions DEF RankMaps
  <2>4. Tables' /\ Grows
    BY <1>2, <1>a, <2>1, <2>2, ProcessRoundStep DEF AssignRanks
  <2> QED BY <1>b, <2>1, <2>2, <2>3, <2>4
<1>3. ASSUME RecalculateRound PROVE ScoringInv'
  <2>1. PICK m \in Of("recalculate") : Handle(m, {})
    BY <1>3 DEF RecalculateRound
  <2>2. m \in msgs
    BY <2>1, <1>a, CallFacts
  <2>3. participants \in Lists
    BY <1>a DEF Tables
  <2>4. Tables' /\ Grows
    <3>1. CASE UNCHANGED leaderboard
      <4>1. Tables' /\ UNCHANGED <<commands, held>>
        BY <1>3, <1>a, <3>1, SameTablesStep DEF RecalculateRound
      <4> QED BY <4>1 DEF Grows
    <3>2. CASE ProcessRound(RanksByTag(participants))
      <4>1. RanksByTag(participants) \in RankMaps
        BY <2>3, RanksByTagIsRanks
      <4> QED BY <1>3, <1>a, <3>2, <4>1, ProcessRoundStep DEF RecalculateRound
    <3> QED BY <1>3, <3>1, <3>2 DEF RecalculateRound
  <2>5. Delivered({}, {})
    BY <1>a, <2>1, <2>2, HandleDelivers DEF InFlight
  <2>6. InFlight'
    BY <1>a, <2>4, <2>5, FlightStep
  <2> QED BY <1>a, <2>4, <2>6 DEF ScoringInv, Grows
<1> QED BY <1>1, <1>2, <1>3

-----------------------------------------------------------------------------
\* At first there is the list the scenario starts from, and only commands to handle.
LEMMA ScoringInit == Init => ScoringInv
<1> SUFFICES ASSUME Init PROVE ScoringInv
  OBVIOUS
<1>1. DOMAIN InitialList \subseteq Users
  BY InitialAssumption, PartialFunctions DEF Lists
<1>2. Tables
  <2>1. GoodList(participants)
    BY <1>1 DEF Init, GoodList, Submitted, Held
  <2>2. held \in [Users -> SUBSET (Tags \cup {NoTag})] /\ \A u \in Users : tag[u] \in held[u]
    BY InitialAssumption DEF Init
  <2> QED BY <2>1, <2>2, InitialAssumption, EmptyIsAList DEF Init, Tables
<1>3. InFlight
  <2>1. commands \subseteq Requests
    BY ScenariosAssumption DEF Init
  <2>2. \A m \in Requests : m.type \in Commands
    BY DEF Requests, Commands
  <2>3. \A m \in commands : GoodMessage(m)
    BY <2>1, <2>2 DEF GoodMessage, Commands
  <2> QED BY <2>1, <2>3, RedeliveriesAssumption DEF Init, InFlight, Message, RedeliveriesBounded
<1> QED BY <1>2, <1>3 DEF Init, ScoringInv

LEMMA ScoringNext == ScoringInv /\ [Next]_vars => ScoringInv'
<1> SUFFICES ASSUME ScoringInv, [Next]_vars PROVE ScoringInv'
  OBVIOUS
<1>1. CASE Next
  BY <1>1, RoundStepsInv, ScoreStepsInv, TagStepsInv DEF Next
<1>2. CASE UNCHANGED vars
  <2>1. Tables' /\ UNCHANGED <<commands, held>>
    BY <1>2, SameTablesStep DEF vars, ScoringInv
  <2>2. Delivered({}, {})
    BY <1>2 DEF vars, delivery, Delivered, RedeliveriesBounded, ScoringInv, InFlight
  <2>3. InFlight'
    BY <2>1, <2>2, QuietFlightStep DEF ScoringInv
  <2> QED BY <2>1, <2>3 DEF ScoringInv
<1> QED BY <1>1, <1>2

LEMMA ScoringInvariant == Spec => []ScoringInv
  BY ScoringInit, ScoringNext, PTL DEF Spec

\* The tables, the messages and what half-way handlers have read keep their types.
THEOREM ScoringTypeCorrect == Spec => []TypeOK
<1>1. ScoringInv => TypeOK
  <2> SUFFICES ASSUME ScoringInv PROVE TypeOK
    OBVIOUS
  <2>1. \A b \in batches : \A u \in DOMAIN b : u \in Users /\ b[u] \in 1 .. Cardinality(Users)
    BY PartialFunctions DEF ScoringInv, Tables, RankMaps
  <2>2. \A t \in open :
          /\ t.msg \in Requests \cup Events
          /\ t.seen \in IF t.msg.type = "correct" THEN ResultMaps ELSE Lists
          /\ t.kept \in Tags \cup {NoTag}
    BY DEF ScoringInv, InFlight, Transaction, GoodTransaction, Message
  <2> QED BY <2>1, <2>2 DEF ScoringInv, Tables, InFlight, TypeOK, Message, RedeliveriesBounded
<1> QED BY <1>1, ScoringInvariant, PTL

\* However commands interleave and messages repeat, a score next to a user's name, in
\* the round, among the processed scores or on its way between the two, was submitted
\* for that user.  (UpdateParticipant, ApplyImportedScores, CorrectScore and the rest)
THEOREM ScoresAreSubmitted == Spec => []ScoresWereSubmitted
<1>1. ScoringInv => ScoresWereSubmitted
  BY DEF ScoringInv, Tables, InFlight, GoodTransaction, GoodMessage, GoodList, GoodResults,
         ScoresWereSubmitted, ListsAround, ResultsAround
<1> QED BY <1>1, ScoringInvariant, PTL

\* A tag next to a user's name, in any of these places, is one the leaderboard gave
\* that user at some time: lists written back whole never mix users up.
THEOREM TagsAreHeld == Spec => []TagsWereHeld
<1>1. ScoringInv => TagsWereHeld
  BY DEF ScoringInv, Tables, InFlight, GoodTransaction, GoodMessage, GoodList, GoodResults,
         TagsWereHeld, ListsAround, ResultsAround
<1> QED BY <1>1, ScoringInvariant, PTL

\* Results that are delivered again, or recalculated to what they were, move no tags.
THEOREM RedeliveriesMoveNoTags == Spec => RedeliveredResultsMoveNoTags
<1>1. [Next]_vars => [tag' # tag => Retag \/ ranked' # ranked]_vars
  <2> SUFFICES ASSUME Next, tag' # tag, ~Retag PROVE ranked' # ranked
    BY DEF vars, leaderboard
  <2>1. ASSUME NEW ranks, ProcessRound(ranks) PROVE ranked' # ranked
    BY <2>1 DEF ProcessRound, AlreadyProcessed, leaderboard
  <2>2. CASE AssignRanks
    BY <2>1, <2>2 DEF AssignRanks
  <2>3. CASE RecalculateRound
    BY <2>1, <2>3 DEF RecalculateRound, leaderboard
  <2>4. CASE ~AssignRanks /\ ~RecalculateRound
    BY <2>4 DEF Next, leaderboard, Join, LookupTag, UpdateStatus, ReadForRemoval, WriteRemoval,
         ReadForScore, WriteScore, UpdateScoresBulk, ReadForImport, WriteImport, CheckScores,
         StartRound, FinalizeRound, NotifyScoreModule, ProcessScores, ReadTagForCorrection,
         ReadForCorrection, WriteCorrection, Reprocess, ReadForSync, WriteSync
  <2> QED BY <2>2, <2>3, <2>4
<1> QED BY <1>1, PTL DEF Spec, RedeliveredResultsMoveNoTags

-----------------------------------------------------------------------------
\* When nothing but single scores comes from outside, nobody writes the list but who
\* writes a score: what is half-way is a score or a correction, and tags reach the
\* upcoming rounds only when this one is not among them any more.
SoleTypes == {"score", "correct", "start", "scoreUpdated", "allScores", "corrected",
              "finalized", "process", "batch", "sync"}
OfTheEnd(m) == m.type \in {"finalized", "batch", "sync"} \/ (m.type = "process" /\ m.singles)
SoleInv ==
  ScoredOneByOne =>
    /\ \A m \in InHand : m.type \in SoleTypes /\ (OfTheEnd(m) => state # "UPCOMING")
    /\ \A t \in open : t.msg.type \in {"score", "correct"}

LEMMA SoleStep ==
  ASSUME SoleInv, ScoredOneByOne, commands' = commands,
         state' = state \/ state' # "UPCOMING",
         NEW out, InHand' \subseteq InHand \cup out,
         \A x \in out : x.type \in SoleTypes /\ (OfTheEnd(x) => state' # "UPCOMING"),
         \A t \in open' : t \in open \/ t.msg.type \in {"score", "correct"}
  PROVE  SoleInv'
  BY DEF SoleInv, ScoredOneByOne, OfTheEnd

LEMMA SoleOpenStep ==
  ASSUME SoleInv, ScoredOneByOne, commands' = commands,
         state' = state \/ state' # "UPCOMING", InHand' \subseteq InHand,
         \A t \in open' : t \in open \/ t.msg.type \in {"score", "correct"}
  PROVE  SoleInv'
  BY DEF SoleInv, ScoredOneByOne, OfTheEnd

LEMMA SoleHands ==
  ASSUME SoleInv, ScoredOneByOne, commands' = commands, state' = state \/ state' # "UPCOMING"
  PROVE  /\ \A m \in msgs : Handle(m, {}) => SoleInv'
         /\ \A m \in msgs : \A x :
              Handle(m, {x}) /\ x.type \in SoleTypes /\ (OfTheEnd(x) => state' # "UPCOMING")
                => SoleInv'
         /\ \A t \in open : \A x :
              Commit(t, {x}) /\ x.type \in SoleTypes /\ (OfTheEnd(x) => state' # "UPCOMING")
                => SoleInv'
         /\ \A m \in msgs : \A seen, kept :
              Begin(m, seen, kept) /\ m.type \in {"score", "correct"} => SoleInv'
<1>1. ASSUME NEW m \in msgs, NEW out, Handle(m, out),
             \A x \in out : x.type \in SoleTypes /\ (OfTheEnd(x) => state' # "UPCOMING")
      PROVE  SoleInv'
  <2>1. InHand' \subseteq InHand \cup out /\ open' = open
    BY <1>1, HandsTake DEF Handle
  <2> QED BY <1>1, <2>1, SoleStep
<1>2. ASSUME NEW t \in open, NEW x, Commit(t, {x}),
             x.type \in SoleTypes, OfTheEnd(x) => state' # "UPCOMING"
      PROVE  SoleInv'
  <2>1. InHand' \subseteq InHand \cup {x} /\ open' \subseteq open
    BY <1>2, HandsTake DEF Commit
  <2> QED BY <1>2, <2>1, SoleStep
<1>3. ASSUME NEW m \in msgs, NEW seen, NEW kept, Begin(m, seen, kept), m.type \in {"score", "correct"}
      PROVE  SoleInv'
  <2> DEFINE t == [msg |-> m, seen |-> seen, kept |-> kept]
  <2>1. t.msg = m /\ Open(t)
    BY <1>3 DEF Begin
  <2> HIDE DEF t
  <2>2. InHand' \subseteq InHand
    BY <2>1, HandsTake
  <2>3. \A y \in open' : y \in open \/ y.msg.type \in {"score", "correct"}
    BY <1>3, <2>1 DEF Open
  <2> QED BY <2>2, <2>3, SoleOpenStep
<1>4. \A m \in msgs : Handle(m, {}) => SoleInv'
  BY <1>1
<1>5. ASSUME NEW m \in msgs, NEW x, Handle(m, {x}),
             x.type \in SoleTypes, OfTheEnd(x) => state' # "UPCOMING"
      PROVE  SoleInv'
  BY <1>1, <1>5
<1> QED BY <1>2, <1>3, <1>4, <1>5

\* Nobody else gets a message.
LEMMA NobodyElse ==
  ASSUME SoleInv, ScoredOneByOne
  PROVE  ~ (\/ Join \/ LookupTag \/ UpdateStatus \/ ReadForRemoval \/ WriteRemoval
            \/ UpdateScoresBulk \/ ReadForImport \/ WriteImport \/ Retag
            \/ RecalculateRound \/ WriteSync)
<1>1. \A m \in msgs : m.type \in SoleTypes
  BY DEF SoleInv, InHand
<1>2. \A t \in open : t.msg.type \in {"score", "correct"}
  BY DEF SoleInv
<1>3. Of("join") = {} /\ Of("lookup") = {} /\ Of("status") = {} /\ Of("removal") = {}
      /\ Of("bulk") = {} /\ Of("import") = {} /\ Of("retag") = {} /\ Of("recalculate") = {}
  BY <1>1 DEF Of, SoleTypes
<1>4. OpenFor("removal") = {} /\ OpenFor("import") = {} /\ OpenFor("sync") = {}
  BY <1>2 DEF OpenFor
<1> QED BY <1>3, <1>4
        DEF Join, LookupTag, UpdateStatus, ReadForRemoval, WriteRemoval, UpdateScoresBulk,
            ReadForImport, WriteImport, Retag, RecalculateRound, WriteSync

LEMMA SoleNext ==
  ASSUME ScoringInv, SoleInv, ScoredOneByOne, Next
  PROVE  SoleInv'
<1> USE DEF SoleTypes, OfTheEnd
<1>1. \A m \in msgs : OfTheEnd(m) => state # "UPCOMING"
  BY DEF SoleInv, InHand
<1>2. \A type : (\A m \in Of(type) : m \in msgs /\ m.type = type)
                /\ \A t \in OpenFor(type) : t \in open /\ t.msg.type = type
  BY DEF Of, OpenFor
<1>0. /\ [type |-> "scoreUpdated"].type = "scoreUpdated" /\ [type |-> "allScores"].type = "allScores"
      /\ [type |-> "corrected"].type = "corrected"
      /\ [type |-> "finalized", list |-> participants].type = "finalized"
  OBVIOUS
<1>3. CASE ReadForScore \/ ReadTagForCorrection
  BY <1>2, <1>3, SoleHands DEF ReadForScore, ReadTagForCorrection
<1>4. CASE WriteScore
  <2>1. PICK t \in OpenFor("score") : Commit(t, {[type |-> "scoreUpdated"]})
    BY <1>4 DEF WriteScore
  <2>2. commands' = commands /\ state' = state
    BY <1>4 DEF WriteScore
  <2> QED BY <1>0, <1>2, <2>1, <2>2, SoleHands
<1>5. CASE CheckScores
  <2>1. PICK m \in Of("scoreUpdated") :
          Handle(m, IF IsComplete(participants) THEN {[type |-> "allScores"]} ELSE {})
    BY <1>5 DEF CheckScores, Handle
  <2>2. Handle(m, {}) \/ Handle(m, {[type |-> "allScores"]})
    BY <2>1
  <2>3. commands' = commands /\ state' = state
    BY <1>5 DEF CheckScores
  <2> QED BY <1>0, <1>2, <2>2, <2>3, SoleHands
<1>6. CASE StartRound
  <2>1. PICK m \in Of("start") : Handle(m, {})
    BY <1>6 DEF StartRound, Handle
  <2>2. commands' = commands /\ state' # "UPCOMING"
    BY <1>6 DEF StartRound
  <2> QED BY <1>2, <2>1, <2>2, SoleHands
<1>7. CASE FinalizeRound
  <2>1. PICK m \in Of("allScores") : Handle(m, {[type |-> "finalized", list |-> participants]})
    BY <1>7 DEF FinalizeRound, Handle
  <2>2. commands' = commands /\ state' # "UPCOMING"
    BY <1>7 DEF FinalizeRound, Finalize
  <2> QED BY <1>0, <1>2, <2>1, <2>2, SoleHands
<1>8. CASE NotifyScoreModule
  <2>1. PICK m \in Of("finalized") :
          Handle(m, {}) \/ Handle(m, {Process(FinalScores(m.list), TRUE, TRUE)})
    BY <1>8 DEF NotifyScoreModule, Handle
  <2>2. commands' = commands /\ state' = state /\ state # "UPCOMING"
    BY <1>1, <1>2, <1>8 DEF NotifyScoreModule
  <2>3. Process(FinalScores(m.list), TRUE, TRUE).type = "process"
    BY DEF Process
  <2> QED BY <1>2, <2>1, <2>2, <2>3, SoleHands
<1>9. CASE ProcessScores
  <2>1. PICK m \in Of("process") : \E out :
          Handle(m, out) /\ out \in {{}, {[type |-> "batch", ranks |-> ranks] : ranks \in Batches(m)}}
    BY <1>9 DEF ProcessScores
  <2>2. commands' = commands /\ state' = state
    BY <1>9 DEF ProcessScores
  <2>3. Handle(m, {}) \/ \E x : x.type = "batch" /\ Handle(m, {x}) /\ m.singles
    <3>1. CASE m.singles /\ Tagged(m.scores) # {}
      <4>1. {[type |-> "batch", ranks |-> ranks] : ranks \in Batches(m)}
              = {[type |-> "batch", ranks |-> Ranking(m.scores)]}
        BY <3>1 DEF Batches
      <4> QED BY <2>1, <3>1, <4>1
    <3>2. CASE ~ (m.singles /\ Tagged(m.scores) # {})
      <4>1. {[type |-> "batch", ranks |-> ranks] : ranks \in Batches(m)} = {}
        BY <3>2 DEF Batches
      <4> QED BY <2>1, <4>1
    <3> QED BY <3>1, <3>2
  <2> QED BY <1>1, <1>2, <2>2, <2>3, SoleHands
<1>10. CASE ReadForCorrection
  <2>1. PICK t \in OpenFor("correct") :
          \/ Commit(t, {[type |-> "corrected"]})
          \/ Proceed(t, [t EXCEPT !.seen = stored]) /\ UNCHANGED stored
    BY <1>10 DEF ReadForCorrection
  <2>2. commands' = commands /\ state' = state
    BY <1>10 DEF ReadForCorrection
  <2>3. CASE Commit(t, {[type |-> "corrected"]})
    BY <1>0, <1>2, <2>2, <2>3, SoleHands
  <2>4. CASE Proceed(t, [t EXCEPT !.seen = stored]) /\ UNCHANGED stored
    <3> DEFINE x == [t EXCEPT !.seen = stored]
    <3>1. x.msg = t.msg /\ t.msg.type = "correct" /\ t \in open
      BY <1>2, <2>1, CallFacts DEF ScoringInv, Transaction
    <3> HIDE DEF x
    <3>2. open' \in {(open \ {t}) \cup {x}, open \cup {x}} /\ msgs' = msgs
      BY <2>4 DEF x, Proceed
    <3>3. InHand' \subseteq InHand
      BY <3>1, <3>2 DEF InHand
    <3>4. \A y \in open' : y \in open \/ y.msg.type \in {"score", "correct"}
      BY <3>1, <3>2
    <3> QED BY <2>2, <3>3, <3>4, SoleOpenStep
  <2> QED BY <2>1, <2>3, <2>4
<1>11. CASE WriteCorrection
  <2>1. PICK t \in OpenFor("correct") : Commit(t, {[type |-> "corrected"]})
    BY <1>11 DEF WriteCorrection
  <2>2. commands' = commands /\ state' = state
    BY <1>11 DEF WriteCorrection
  <2> QED BY <1>0, <1>2, <2>1, <2>2, SoleHands
<1>12. CASE Reprocess
  <2>1. PICK m \in Of("corrected") :
          Handle(m, IF HasRow THEN {Process(stored, FALSE, FALSE)} ELSE {})
    BY <1>12 DEF Reprocess, Handle
  <2>3. Handle(m, {}) \/ Handle(m, {Process(stored, FALSE, FALSE)})
    BY <2>1
  <2>4. commands' = commands /\ state' = state
    BY <1>12 DEF Reprocess
  <2>2. Process(stored, FALSE, FALSE).type = "process" /\ ~ Process(stored, FALSE, FALSE).singles
    BY DEF Process
  <2> DEFINE x == Process(stored, FALSE, FALSE)
  <2> HIDE DEF x
  <2>5. x.type = "process" /\ ~ x.singles /\ (Handle(m, {}) \/ Handle(m, {x}))
    BY <2>2, <2>3 DEF x
  <2> QED BY <1>2, <2>4, <2>5, SoleHands
<1>13. CASE AssignRanks
  <2>1. PICK m \in Of("batch") : Handle(m, {Sync(tag', DOMAIN m.ranks)})
    BY <1>13 DEF AssignRanks
  <2>2. commands' = commands /\ state' = state /\ state # "UPCOMING"
    BY <1>1, <1>2, <1>13 DEF AssignRanks
  <2>3. Sync(tag', DOMAIN m.ranks).type = "sync"
    BY DEF Sync
  <2> QED BY <1>2, <2>1, <2>2, <2>3, SoleHands
<1>14. CASE ReadForSync
  <2>1. PICK m \in Of("sync") :
          \/ \E list \in GetUpcomingRounds : Begin(m, list, NoTag)
          \/ Handle(m, {})
    BY <1>14 DEF ReadForSync
  <2>2. GetUpcomingRounds = {}
    BY <1>1, <1>2 DEF GetUpcomingRounds
  <2> QED BY <1>2, <1>14, <2>1, <2>2, SoleHands DEF ReadForSync
<1> QED BY <1>3, <1>4, <1>5, <1>6, <1>7, <1>8, <1>9, <1>10, <1>11, <1>12, <1>13, <1>14,
           NobodyElse DEF Next

\* What comes from outside comes at first.
LEMMA CommandsStay ==
  ASSUME [Next]_vars
  PROVE  commands' = commands
  BY DEF vars, Next, Join, LookupTag, UpdateStatus, ReadForRemoval, WriteRemoval,
     ReadForScore, WriteScore, UpdateScoresBulk, ReadForImport, WriteImport, CheckScores,
     StartRound, FinalizeRound, NotifyScoreModule, ProcessScores, ReadTagForCorrection,
     ReadForCorrection, WriteCorrection, Reprocess, Retag, AssignRanks, RecalculateRound,
     ReadForSync, WriteSync

\* What tells the score module that the round is complete.
Tells(m) ==
  \/ m.type = "score" /\ Listed(m.user) /\ participants[m.user].score = m.score
  \/ m \in {[type |-> "scoreUpdated"], [type |-> "allScores"]}
  \/ /\ m.type = "finalized" /\ Accepted \subseteq DOMAIN m.list
     /\ \E u \in DOMAIN m.list : m.list[u].score # NoScore
  \/ m.type = "process" /\ m.overwrite /\ Accepted \subseteq DOMAIN m.scores
News == {m \in Message : Tells(m)}

LEMMA NewsOnItsWay ==
  /\ ScoringInv /\ SoleInv /\ ScoredOneByOne => (OnItsWay <=> News \cap InHand # {})
  /\ ScoringInv' /\ SoleInv' /\ ScoredOneByOne' => (OnItsWay' <=> News' \cap InHand' # {})
<1> USE DEF ScoringInv, InFlight, Transaction, SoleInv, InHand, OnItsWay, News, Tells, Of
<1>1. ASSUME ScoringInv, SoleInv, ScoredOneByOne
      PROVE  OnItsWay <=> News \cap InHand # {}
  <2>1. \A m \in InHand : m \in Message /\ (m \in msgs \/ m.type \in {"score", "correct"})
    BY <1>1
  <2>2. /\ [type |-> "scoreUpdated"].type = "scoreUpdated"
        /\ [type |-> "allScores"].type = "allScores"
    OBVIOUS
  <2>3. OnItsWay => News \cap InHand # {}
    BY <1>1, <2>1
  <2>4. ASSUME NEW m \in News \cap InHand PROVE OnItsWay
    <3>1. CASE m \in msgs
      BY <3>1
    <3>2. CASE m \notin msgs
      BY <2>1, <2>2, <3>2
    <3> QED BY <3>1, <3>2
  <2> QED BY <2>3, <2>4
<1>2. ASSUME ScoringInv', SoleInv', ScoredOneByOne'
      PROVE  OnItsWay' <=> News' \cap InHand' # {}
  <2>1. \A m \in InHand' : m \in Message /\ (m \in msgs' \/ m.type \in {"score", "correct"})
    BY <1>2
  <2>2. /\ [type |-> "scoreUpdated"].type = "scoreUpdated"
        /\ [type |-> "allScores"].type = "allScores"
    OBVIOUS
  <2>3. OnItsWay' => News' \cap InHand' # {}
    BY <1>2, <2>1
  <2>4. ASSUME NEW m \in News' \cap InHand' PROVE OnItsWay'
    <3>1. CASE m \in msgs'
      BY <3>1
    <3>2. CASE m \notin msgs'
      BY <2>1, <2>2, <3>2
    <3> QED BY <3>1, <3>2
  <2> QED BY <2>3, <2>4
<1> QED BY <1>1, <1>2

\* Whoever takes the news passes it on, until it is processed.
LEMMA NewsIsPassedOn ==
  ASSUME ScoringInv, SoleInv, ScoredOneByOne, Next, UNCHANGED participants,
         AllScored, News \cap InHand # {}
  PROVE  News \cap InHand' # {} \/ Processed'
<1>1. \A type : (\A m \in Of(type) : m \in msgs /\ m.type = type /\ m \in Message /\ GoodMessage(m))
                /\ \A t \in OpenFor(type) : t \in open /\ t.msg.type = type
  BY CallFacts DEF ScoringInv
<1>2. /\ [type |-> "scoreUpdated"].type = "scoreUpdated"
      /\ [type |-> "allScores"].type = "allScores"
  OBVIOUS
<1>3. /\ \A m, out : Handle(m, out) /\ (m \in News => out \cap News # {}) => News \cap InHand' # {}
      /\ \A t, out : Commit(t, out) /\ (t.msg \in News => out \cap News # {}) => News \cap InHand' # {}
      /\ \A t : Open(t) => News \cap InHand' # {}
  BY HandsHold
<1>4. \A m \in News : m.type \notin {"correct", "corrected", "start", "batch", "sync"}
  BY <1>2 DEF News, Tells
<1>5. \A m, out : Handle(m, out) /\ m.type \in {"correct", "corrected", "start", "batch", "sync"}
                    => News \cap InHand' # {}
  BY <1>3, <1>4
<1>6. \A t, out : Commit(t, out) /\ t.msg.type \in {"correct", "corrected", "start", "batch", "sync"}
                    => News \cap InHand' # {}
  BY <1>3, <1>4
<1>7. participants \in Lists /\ Accepted \subseteq DOMAIN participants
      /\ \E u \in DOMAIN participants : participants[u].score # NoScore
  BY DEF ScoringInv, Tables, AllScored, Accepted
<1>8. CASE ReadForScore \/ ReadTagForCorrection
  BY <1>3, <1>8 DEF ReadForScore, ReadTagForCorrection, Begin
<1>9. CASE WriteScore
  <2>1. PICK t \in OpenFor("score") : Commit(t, {[type |-> "scoreUpdated"]})
    BY <1>9 DEF WriteScore
  <2>2. [type |-> "scoreUpdated"] \in News
    BY DEF News, Tells, Message, Events
  <2> QED BY <1>3, <2>1, <2>2
<1>10. CASE CheckScores
  <2>1. PICK m \in Of("scoreUpdated") :
          Handle(m, IF IsComplete(participants) THEN {[type |-> "allScores"]} ELSE {})
    BY <1>10 DEF CheckScores, Handle
  <2>2. IsComplete(participants)
    BY DEF AllScored, Accepted, IsComplete
  <2>3. [type |-> "allScores"] \in News
    BY DEF News, Tells, Message, Events
  <2> QED BY <1>3, <2>1, <2>2, <2>3
<1>11. CASE FinalizeRound
  <2> DEFINE x == [type |-> "finalized", list |-> participants]
  <2>1. PICK m \in Of("allScores") : Handle(m, {x})
    BY <1>11 DEF FinalizeRound, Handle
  <2>2. x \in Message /\ x.type = "finalized" /\ x.list = participants
    BY <1>7 DEF Message, Events
  <2> HIDE DEF x
  <2>3. x \in News
    BY <1>7, <2>2 DEF News, Tells
  <2> QED BY <1>3, <2>1, <2>3
<1>12. CASE NotifyScoreModule
  <2> DEFINE x(m) == Process(FinalScores(m.list), TRUE, TRUE)
  <2>1. PICK m \in Of("finalized") :
          Handle(m, IF \E u \in DOMAIN m.list : m.list[u].score # NoScore THEN {x(m)} ELSE {})
    BY <1>12 DEF NotifyScoreModule, Handle
  <2>2. m.list \in Lists /\ GoodList(m.list) /\ m.type = "finalized"
    BY <1>1, <2>1, MessageFacts DEF GoodMessage
  <2>3. x(m) \in Message
    BY <2>2, FinalScoresAreGood DEF Process, Message, Events
  <2>4. x(m).type = "process" /\ x(m).overwrite /\ DOMAIN x(m).scores = DOMAIN m.list
    BY DEF Process, FinalScores
  <2> HIDE DEF x
  <2>5. m \in News => (\E u \in DOMAIN m.list : m.list[u].score # NoScore) /\ x(m) \in News
    BY <1>2, <2>2, <2>3, <2>4 DEF News, Tells
  <2>6. \/ Handle(m, {x(m)})
        \/ m \notin News /\ Handle(m, {})
    BY <2>1, <2>5
  <2> QED BY <1>3, <2>5, <2>6
<1>13. CASE ProcessScores
  <2>1. PICK m \in Of("process") : \E out :
          Handle(m, out) /\ (m.overwrite => stored' = m.scores)
    BY <1>13 DEF ProcessScores, LogScores
  <2>2. m \in News => m.overwrite /\ Accepted \subseteq DOMAIN m.scores
    BY <1>1, <1>2 DEF News, Tells
  <2>3. m \in News => Processed'
    BY <2>1, <2>2 DEF Processed, Accepted
  <2> QED BY <1>3, <2>1, <2>3
<1>14. CASE ReadForCorrection
  <2>1. PICK t \in OpenFor("correct") :
          \/ Commit(t, {[type |-> "corrected"]})
          \/ Proceed(t, [t EXCEPT !.seen = stored]) /\ UNCHANGED stored
    BY <1>14 DEF ReadForCorrection
  <2>2. CASE Proceed(t, [t EXCEPT !.seen = stored]) /\ UNCHANGED stored
    <3> DEFINE x == [t EXCEPT !.seen = stored]
    <3>1. x.msg = t.msg
      BY <2>1, CallFacts DEF ScoringInv, Transaction
    <3> HIDE DEF x
    <3>2. open' \in {(open \ {t}) \cup {x}, open \cup {x}} /\ msgs' = msgs
      BY <2>2 DEF x, Proceed
    <3>3. InHand \subseteq InHand'
      BY <3>1, <3>2 DEF InHand
    <3> QED BY <3>3
  <2> QED BY <1>1, <1>6, <2>1, <2>2
<1>15. CASE WriteCorrection
  BY <1>1, <1>6, <1>15 DEF WriteCorrection
<1>16. CASE StartRound
  <2>1. PICK m \in Of("start") : Handle(m, {})
    BY <1>16 DEF StartRound, Handle
  <2> QED BY <1>1, <1>5, <2>1
<1>17. CASE Reprocess
  <2>1. PICK m \in Of("corrected") : \E out : Handle(m, out)
    BY <1>17 DEF Reprocess, Handle
  <2> QED BY <1>1, <1>5, <2>1
<1>18. CASE AssignRanks
  BY <1>1, <1>5, <1>18 DEF AssignRanks
<1>19. CASE ReadForSync
  BY <1>1, <1>3, <1>5, <1>19 DEF ReadForSync, Begin
<1> QED BY <1>8, <1>9, <1>10, <1>11, <1>12, <1>13, <1>14, <1>15, <1>16, <1>17, <1>18, <1>19,
           NobodyElse DEF Next

\* A score that is written is announced, or will be written again.
LEMMA WrittenScoresAreNews ==
  ASSUME ScoringInv, WriteScore
  PROVE  News' \cap InHand' # {}
<1>1. PICK t \in OpenFor("score") : UpdateParticipantScore(t) /\ Commit(t, {[type |-> "scoreUpdated"]})
  BY DEF WriteScore
<1>2. t.msg \in Message /\ t.msg.type = "score"
  BY <1>1, CallFacts DEF ScoringInv
<1>3. t.msg.user \in Users /\ t.msg.score \in Scores
  BY <1>2, MessageFacts
<1>4. t.msg.user \in DOMAIN participants' /\ participants'[t.msg.user].score = t.msg.score
  <2>1. t.msg.score # NoScore
    BY <1>3, ScoresAssumption
  <2> QED BY <1>1, <2>1 DEF UpdateParticipantScore, Upserted
<1>5. t.msg \in News'
  BY <1>2, <1>4 DEF News, Tells, Listed
<1>6. [type |-> "scoreUpdated"] \in News'
  BY DEF News, Tells, Message, Events
<1> QED BY <1>1, <1>5, <1>6, HandsPass

\* A complete round is not forgotten before it is processed, whoever dies on the way.
THEOREM CompletionIsAlwaysKept == Spec => CompletionIsKept
<1> DEFINE Step == ScoredOneByOne /\ (AllScored => OnItsWay \/ Processed)
                     => (AllScored' => OnItsWay' \/ Processed' \/ (~OnItsWay /\ stored' # stored))
<1>1. Init => SoleInv
  <2> SUFFICES ASSUME Init, ScoredOneByOne PROVE SoleInv
    BY DEF SoleInv
  <2>1. InHand = commands /\ open = {}
    BY DEF Init, InHand
  <2> QED BY <2>1 DEF SoleInv, ScoredOneByOne, SoleTypes, OfTheEnd
<1>2. SoleInv /\ ScoringInv /\ [Next]_vars => SoleInv'
  <2> SUFFICES ASSUME SoleInv, ScoringInv, [Next]_vars PROVE SoleInv'
    OBVIOUS
  <2>1. commands' = commands
    BY CommandsStay
  <2>2. CASE ~ ScoredOneByOne
    BY <2>1, <2>2 DEF SoleInv, ScoredOneByOne
  <2>3. CASE ScoredOneByOne /\ Next
    BY <2>3, SoleNext
  <2>4. CASE UNCHANGED vars
    BY <2>4 DEF vars, delivery, SoleInv, ScoredOneByOne, InHand, OfTheEnd
  <2> QED BY <2>2, <2>3, <2>4
<1>3. SoleInv /\ SoleInv' /\ ScoringInv /\ ScoringInv' /\ [Next]_vars => [Step]_vars
  <2> SUFFICES ASSUME SoleInv, SoleInv', ScoringInv, ScoringInv', Next,
                      ScoredOneByOne, AllScored => OnItsWay \/ Processed, AllScored',
                      ~ Processed', ~ (~OnItsWay /\ stored' # stored)
               PROVE  OnItsWay'
    OBVIOUS
  <2>1. ScoredOneByOne'
    BY CommandsStay DEF ScoredOneByOne
  <2>2. CASE WriteScore
    BY <2>1, <2>2, WrittenScoresAreNews, NewsOnItsWay
  <2>3. CASE UNCHANGED participants
    <3>1. AllScored /\ News' = News
      BY <2>3 DEF AllScored, Accepted, News, Tells, Listed
    <3>2. OnItsWay
      BY <2>3, <3>1 DEF Processed, Accepted
    <3>3. News \cap InHand' # {}
      BY <2>3, <3>1, <3>2, NewsOnItsWay, NewsIsPassedOn
    <3> QED BY <2>1, <3>1, <3>3, NewsOnItsWay
  <2>4. WriteScore \/ UNCHANGED participants
    BY NobodyElse DEF Next, ReadForScore, CheckScores, StartRound, FinalizeRound, NotifyScoreModule,
       ProcessScores, ReadTagForCorrection, ReadForCorrection, WriteCorrection, Reprocess,
       AssignRanks, ReadForSync
  <2> QED BY <2>2, <2>3, <2>4
<1> QED BY <1>1, <1>2, <1>3, ScoringInvariant, PTL DEF Spec, CompletionIsKept
=============================================================================
