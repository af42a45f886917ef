---------------------------- MODULE RoundsProofs ----------------------------
(***************************************************************************)
(* A round's record and its scorecards, for every set of rounds, users,    *)
(* cards and commands: rounds only move forward, reminders ask the list,   *)
(* nobody is listed twice, every score on a list was on a card beside that *)
(* user's name, a deletion leaves no reminder but those it spares, and no  *)
(* step drops an import or a reminder that is owed.                        *)
(*                                                                         *)
(* RoundsInv is inductive.  It follows a card from the command through     *)
(* every message and half-way handler to the list; whatever it says of     *)
(* them refers only to the commands and to which rounds there are, so that *)
(* other handlers cannot spoil it.  The groups, the reminders of deleted   *)
(* rounds and the reminders owed (RemindersInv), which do look at other    *)
(* rows and jobs, are proved on top of it.                                 *)
(***************************************************************************)
EXTENDS RoundImport, DeliveryProofs, NatInductionFacts, FiniteSetTheorems

Lines == [name : Names, score : Scores, team : Nat]
Matches == [user : Users \cup {Nobody}, score : Scores, team : Nat, name : Names]

\* What handlers publish for each other.
Events ==
       [type : {"entity"}, round : Rounds, row : Row]
  \cup [type : {"created", "posted", "event", "deleteAuthorized"}, round : Rounds]
  \cup [type : {"scheduled", "rescheduled"}, round : Rounds, title : Titles, start : Hours]
  \cup [type : {"validated"}, round : Rounds, title : Titles \cup {Same}, start : Hours \cup {Same}]
  \cup [type : {"remind"}, args : Reminders]
  \cup [type : {"told"}, round : Rounds, start : Hours, users : SUBSET (Users \cup {Nobody})]
  \cup [type : {"parse", "parsed"}, round : Rounds, import : Nat, card : Cards, parser : BOOLEAN]
  \cup [type : {"parse", "parsed"}, round : Rounds, import : Nat, card : Cards, parser : BOOLEAN,
       ofUDisc : BOOLEAN]
  \cup [type : {"normalized"}, round : Rounds, import : Nat, doubles : BOOLEAN, lines : Seq(Lines)]
  \cup [type : {"completed"}, round : Rounds, import : Nat, scores : Seq(Matches)]
  \cup [type : {"importFailed"}, import : Nat]
  \cup [type : {"allScores"}, round : Rounds, import : Nat]
Message == Requests \cup Events
Commands == {"create", "edit", "delete", "start", "answer", "upload", "url"}

\* What handlers are half-way with: a message, or also the row or the list they have read.
WithoutCopy == {"scheduled", "rescheduled", "deleteAuthorized", "parse", "normalized"}
WithRow == {"validated", "upload", "url"}
WithList == {"completed"}

\* A card has the score beside a name of the user.
OnACard(user, score) ==
  \E c \in Imports : \E k \in DOMAIN c.card : \E n \in ToSet(c.card[k].names) :
    c.card[k].total = score /\ user = ResolveUserID(n)

Once(list) == \A i, j \in DOMAIN list : list[i].user = list[j].user => i = j
GoodLists ==
  {list \in Seq(Entries) :
     Once(list) /\ \A i \in DOMAIN list :
                     list[i].score = NoScore \/ OnACard(list[i].user, list[i].score)}

\* Which rounds there are, and which command's card it is about.
GoodMessage(m) ==
  /\ m.type \in Commands => m \in commands
  /\ m.type = "entity" => m.round \in minted /\ m.row.list = <<>>
  /\ m.type \in {"created", "posted", "event", "deleteAuthorized", "scheduled", "rescheduled",
                "parse", "parsed", "normalized", "completed"} => m.round \in DOMAIN rows
  /\ m.type = "remind" => m.args.round \in DOMAIN rows
  /\ m.type \in {"parse", "parsed"} =>
       \E c \in Imports : m.round = c.round /\ m.import = c.import /\ m.card = c.card
  /\ m.type = "normalized" =>
       \E c \in Imports : /\ m.round = c.round /\ m.import = c.import
                         /\ m.lines = Normalized(c.card) /\ m.doubles = IsDoubles(c.card)
  /\ m.type = "completed" => \A i \in DOMAIN m.scores :
       m.scores[i].user = Nobody \/ OnACard(m.scores[i].user, m.scores[i].score)

GoodTransaction(t) ==
  /\ t.msg \in Message /\ GoodMessage(t.msg)
  /\ t.msg.type \in WithoutCopy \cup WithRow \cup WithList
  /\ t.msg.type \in WithoutCopy => t \in [msg : Message]
  /\ t.msg.type \in WithRow => t \in [msg : Message, seen : Row] /\ t.msg.round \in DOMAIN rows
  /\ t.msg.type \in WithList => t \in [msg : Message, seen : GoodLists]

InFlight ==
  /\ msgs \subseteq Message /\ \A m \in msgs : GoodMessage(m)
  /\ \A t \in open : GoodTransaction(t)
  /\ RedeliveriesBounded

RowsOK ==
  /\ DOMAIN rows \subseteq minted /\ minted \subseteq Rounds
  /\ rows \in [DOMAIN rows -> Row]
  /\ \A r \in DOMAIN rows : rows[r].list \in GoodLists
QueueOK ==
  /\ clock \in Hours /\ missed \subseteq Rounds
  /\ jobs \subseteq Jobs /\ \A j \in jobs : j.args.round \in DOMAIN rows
  /\ failed \subseteq DOMAIN rows
GroupsOK == groups \in [Rounds -> Seq(Names)] /\ overtaken \subseteq Rounds

RoundsInv == commands \in Scenarios /\ RowsOK /\ QueueOK /\ GroupsOK /\ InFlight

-----------------------------------------------------------------------------
\* What a step may do to a row, and what a message to Discord says.
Forward(row, new) ==
  /\ new.state = "UPCOMING" => row.state = "UPCOMING"
  /\ row.message => new.message
  /\ row.event => new.event
  /\ new.creator = row.creator
RowsForward == \A r \in DOMAIN rows : Forward(rows[r], rows'[r])
Asks(m) == m.type = "told" => m.users = Recipients(rows[m.round].list)
ListAsked == \A m \in msgs' \ msgs : Asks(m)

\* Applying the scores of a card one after the other stays within any set of lists
\* that each single application stays in.
LEMMA ScoresApplied ==
  ASSUME NEW n \in Nat, NEW scores, DOMAIN scores = 1 .. n, NEW F, NEW list \in F,
         \A l \in F : \A i \in 1 .. n : WithScore(l, scores[i]) \in F
  PROVE  FoldLeft(WithScore, list, scores) \in F
<1> DEFINE IsFold(f, k) == f = [s \in SUBSET (1 .. k) |->
             IF s = {} THEN list ELSE WithScore(f[s \ {Max(s)}], scores[Max(s)])]
           fold == CHOOSE f : IsFold(f, n)
<1>a. \A k \in Nat : k + 1 \in Nat /\ SUBSET (1 .. k) \subseteq SUBSET (1 .. k + 1)
  OBVIOUS
<1>1. FoldLeft(WithScore, list, scores) = fold[1 .. n]
  BY DEF FoldLeft, MapThenFoldSet
<1>2. IsFold(fold, n)
  <2> DEFINE S == {k \in Nat : \E f : IsFold(f, k)}
  <2>1. 0 \in S
    <3> DEFINE v == [s \in SUBSET (1 .. 0) |-> list]
    <3>1. \A s \in SUBSET (1 .. 0) : s = {}
      OBVIOUS
    <3>2. IsFold(v, 0)
      BY <3>1
    <3> HIDE DEF v
    <3> QED BY <3>2
  <2>2. ASSUME NEW k \in Nat, k \in S PROVE k + 1 \in S
    <3>1. PICK w : IsFold(w, k)
      BY <2>2
    <3> DEFINE v == [s \in SUBSET (1 .. k + 1) |->
                       IF s = {} THEN list ELSE WithScore(w[s \ {Max(s)}], scores[Max(s)])]
    <3>2. \A s \in SUBSET (1 .. k) : v[s] = w[s]
      BY <1>a, <3>1
    <3>3. ASSUME NEW s \in SUBSET (1 .. k + 1), s # {}
          PROVE  v[s \ {Max(s)}] = w[s \ {Max(s)}]
      <4>1. Max(s) \in s /\ \A i \in s : i <= Max(s)
        BY <1>a, <3>3, MaxUpTo
      <4>2. s \ {Max(s)} \in SUBSET (1 .. k)
        <5>1. \A i \in s : i \in Nat /\ 1 <= i /\ i <= k + 1
          OBVIOUS
        <5>2. ASSUME NEW i \in s, i # Max(s) PROVE i \in 1 .. k
          <6>1. /\ Max(s) \in Nat /\ Max(s) <= k + 1
                /\ i \in Nat /\ 1 <= i /\ i <= Max(s)
            BY <4>1, <5>1
          <6> QED BY <5>2, <6>1
        <5> QED BY <5>2
      <4> HIDE DEF v
      <4> QED BY <3>2, <4>2
    <3>4. IsFold(v, k + 1)
      BY <3>3
    <3> HIDE DEF v, IsFold
    <3> QED BY <1>a, <3>4
  <2> HIDE DEF S
  <2>3. n \in S
    BY <2>1, <2>2, SetInduction
  <2> QED BY <2>3 DEF S
<1> HIDE DEF fold
<1>3. \A k \in Nat : k <= n => fold[1 .. k] \in F
  <2> DEFINE S == {k \in Nat : k <= n => fold[1 .. k] \in F}
  <2>1. 0 \in S
    <3>1. 1 .. 0 = {} /\ {} \in SUBSET (1 .. n)
      OBVIOUS
    <3> QED BY <1>2, <3>1
  <2>2. ASSUME NEW k \in Nat, k \in S PROVE k + 1 \in S
    <3> SUFFICES ASSUME k + 1 <= n PROVE fold[1 .. k + 1] \in F
      OBVIOUS
    <3>1. 1 .. k + 1 \in SUBSET (1 .. n) /\ k + 1 \in 1 .. k + 1
      <4>1. \A i \in 1 .. k + 1 : i \in 1 .. n
        OBVIOUS
      <4> QED BY <4>1
    <3>2. Max(1 .. k + 1) = k + 1
      <4>1. Max(1 .. k + 1) \in 1 .. k + 1 /\ k + 1 <= Max(1 .. k + 1)
        <5> DEFINE all == 1 .. k + 1
        <5>1. k + 1 \in all
          BY <3>1
        <5> HIDE DEF all
        <5>2. all \in SUBSET all /\ all # {}
          BY <5>1
        <5> QED BY <1>a, <3>1, <5>1, <5>2, MaxUpTo DEF all
      <4> QED BY <4>1
    <3>3. (1 .. k + 1) \ {k + 1} = 1 .. k
      OBVIOUS
    <3>4. fold[1 .. k + 1] = WithScore(fold[1 .. k], scores[k + 1])
      BY <1>2, <3>1, <3>2, <3>3
    <3> QED BY <2>2, <3>4
  <2> HIDE DEF S
  <2>3. Nat \subseteq S
    BY <2>1, <2>2, SetInduction
  <2> QED BY <2>3 DEF S
<1> QED BY <1>1, <1>3

\* Sequences of elements of T, one after the other, are a sequence of elements of T.
LEMMA Flattened ==
  ASSUME NEW T, NEW seqs \in Seq(Seq(T))
  PROVE  FlattenSeq(seqs) \in Seq(T)
<1> DEFINE n == Len(seqs)
           IsFlat(f, k) == f = [i \in 1 .. k |-> IF i = 1 THEN seqs[i] ELSE f[i - 1] \o seqs[i]]
           flat == CHOOSE f : IsFlat(f, n)
<1>1. CASE n = 0
  <2>1. seqs = <<>>
    BY <1>1
  <2> QED BY <1>1, <2>1 DEF FlattenSeq
<1>2. CASE n # 0
  <2>1. FlattenSeq(seqs) = flat[n]
    BY <1>2 DEF FlattenSeq
  <2>2. IsFlat(flat, n)
    <3> DEFINE S == {k \in Nat : \E f : IsFlat(f, k)}
    <3>1. 0 \in S
      <4> DEFINE v == [i \in 1 .. 0 |-> seqs]
      <4>1. IsFlat(v, 0)
        OBVIOUS
      <4> HIDE DEF v
      <4> QED BY <4>1
    <3>2. ASSUME NEW k \in Nat, k \in S PROVE k + 1 \in S
      <4>1. PICK w : IsFlat(w, k)
        BY <3>2
      <4> DEFINE v == [i \in 1 .. k + 1 |-> IF i = 1 THEN seqs[i] ELSE w[i - 1] \o seqs[i]]
      <4>2. ASSUME NEW i \in 1 .. k PROVE v[i] = w[i]
        <5>1. i \in 1 .. k + 1
          OBVIOUS
        <5>2. w[i] = IF i = 1 THEN seqs[i] ELSE w[i - 1] \o seqs[i]
          BY <4>1
        <5> QED BY <5>1, <5>2
      <4>3. ASSUME NEW i \in 1 .. k + 1, i # 1 PROVE v[i - 1] = w[i - 1]
        <5>1. i - 1 \in 1 .. k
          BY <4>3
        <5> HIDE DEF v
        <5> QED BY <4>2, <5>1
      <4>4. IsFlat(v, k + 1)
        BY <4>3
      <4>5. k + 1 \in Nat
        OBVIOUS
      <4> HIDE DEF v, IsFlat
      <4> QED BY <4>4, <4>5
    <3> HIDE DEF S
    <3>3. n \in S
      BY <3>1, <3>2, SetInduction
    <3> QED BY <3>3 DEF S
  <2> HIDE DEF flat
  <2>3. \A k \in Nat : k \in 1 .. n => flat[k] \in Seq(T)
    <3> DEFINE S == {k \in Nat : k \in 1 .. n => flat[k] \in Seq(T)}
    <3>1. 0 \in S
      OBVIOUS
    <3>2. ASSUME NEW k \in Nat, k \in S PROVE k + 1 \in S
      <4> SUFFICES ASSUME k + 1 \in 1 .. n PROVE flat[k + 1] \in Seq(T)
        OBVIOUS
      <4>1. seqs[k + 1] \in Seq(T)
        OBVIOUS
      <4>2. CASE k = 0
        BY <2>2, <4>1, <4>2
      <4>3. CASE k # 0
        <5>a. k + 1 # 1 /\ (k + 1) - 1 = k
          BY <4>3
        <5>1. flat[k + 1] = flat[k] \o seqs[k + 1]
          BY <2>2, <5>a
        <5>2. flat[k] \in Seq(T)
          BY <3>2, <4>3
        <5> QED BY <4>1, <5>1, <5>2
      <4> QED BY <4>2, <4>3
    <3> HIDE DEF S
    <3>3. Nat \subseteq S
      BY <3>1, <3>2, SetInduction
    <3> QED BY <3>3 DEF S
  <2> QED BY <1>2, <2>1, <2>3
<1> QED BY <1>1, <1>2

-----------------------------------------------------------------------------
\* What a message of each type carries.
LEMMA MessageFacts ==
  ASSUME NEW m \in Message
  PROVE  /\ m.type = "create" => m.title \in Titles /\ m.start \in Hours /\ m.user \in Users
         /\ m.type = "entity" => m.round \in Rounds /\ m.row \in Row
         /\ m.type \in {"created", "posted", "event", "deleteAuthorized", "edit", "delete", "start",
                       "answer", "upload", "url", "completed"} => m.round \in Rounds
         /\ m.type \in {"scheduled", "rescheduled"} =>
              m.round \in Rounds /\ m.title \in Titles /\ m.start \in Hours
         /\ m.type = "answer" => m.user \in Users /\ m.response \in Responses
         /\ m.type \in {"edit", "validated"} =>
              m.round \in Rounds /\ m.title \in Titles \cup {Same} /\ m.start \in Hours \cup {Same}
         /\ m.type = "remind" => m.args \in Reminders
         /\ m.type \in {"upload", "url", "parse", "parsed"} =>
              m.round \in Rounds /\ m.import \in Nat /\ m.card \in Cards
         /\ m.type = "normalized" => /\ m.round \in Rounds /\ m.import \in Nat
                                     /\ m.doubles \in BOOLEAN /\ m.lines \in Seq(Lines)
         /\ m.type = "completed" => m.import \in Nat /\ m.scores \in Seq(Matches)
  BY DEF Message, Requests, LifecycleRequests, Events

\* The types tell the records apart.
LEMMA MessageShapes ==
  ASSUME NEW m \in Message
  PROVE  /\ m.type = "edit" => m \in [type : {"edit"}, round : Rounds, title : Titles \cup {Same},
                                      start : Hours \cup {Same}]
         /\ m.type = "normalized" => m \in [type : {"normalized"}, round : Rounds, import : Nat,
                                            doubles : BOOLEAN, lines : Seq(Lines)]
         /\ m.type \in {"upload", "url", "parse", "parsed"} =>
              \/ m \in [type : {m.type}, round : Rounds, import : Nat, card : Cards, parser : BOOLEAN]
              \/ m \in [type : {m.type}, round : Rounds, import : Nat, card : Cards, parser : BOOLEAN,
                        ofUDisc : BOOLEAN]
  BY DEF Message, Requests, LifecycleRequests, Events

-----------------------------------------------------------------------------
\* The commands stay the same and rounds are only added.
Grows == commands' = commands /\ DOMAIN rows \subseteq DOMAIN rows' /\ minted \subseteq minted'

LEMMA GrowthKeeps ==
  ASSUME commands' = commands
  PROVE  /\ Imports' = Imports
         /\ \A user, score : OnACard(user, score)' = OnACard(user, score)
         /\ GoodLists' = GoodLists
<1>1. Imports' = Imports
  BY DEF Imports
<1>2. \A user, score : OnACard(user, score)' = OnACard(user, score)
  BY <1>1 DEF OnACard
<1> QED BY <1>1, <1>2 DEF GoodLists

LEMMA GrowthKeepsGood ==
  ASSUME Grows
  PROVE  /\ \A m : GoodMessage(m) => GoodMessage(m)'
         /\ \A t : GoodTransaction(t) => GoodTransaction(t)'
<1>1. ASSUME NEW m, GoodMessage(m) PROVE GoodMessage(m)'
  BY <1>1, GrowthKeeps DEF GoodMessage, Grows
<1>2. ASSUME NEW t, GoodTransaction(t) PROVE GoodTransaction(t)'
  BY <1>1, <1>2, GrowthKeeps DEF GoodTransaction, Grows
<1> QED BY <1>1, <1>2

\* A handler keeps what is in flight good, and tells the users on the list, if what it
\* publishes and begins is good.
LEMMA FlightStep ==
  ASSUME InFlight, Grows, NEW out \in SUBSET Message, NEW begun,
         \A m \in out : GoodMessage(m)' /\ Asks(m), \A t \in begun : GoodTransaction(t)',
         Delivered(out, begun)
  PROVE  InFlight' /\ ListAsked
<1>1. \A t \in open : t.msg \in Message /\ GoodMessage(t.msg) /\ t.msg.type # "told"
  BY DEF InFlight, GoodTransaction, WithoutCopy, WithRow, WithList
<1>2. msgs' \subseteq Message /\ RedeliveriesBounded'
  BY <1>1 DEF InFlight, Delivered
<1>3. \A m \in msgs' : GoodMessage(m)'
  BY <1>1, GrowthKeepsGood DEF InFlight, Delivered
<1>4. \A t \in open' : GoodTransaction(t)'
  BY GrowthKeepsGood DEF InFlight, Delivered
<1>5. ListAsked
  BY <1>1 DEF Delivered, ListAsked, Asks
<1> QED BY <1>2, <1>3, <1>4, <1>5 DEF InFlight

LEMMA HandledWell ==
  ASSUME InFlight, Grows, NEW m \in msgs, NEW out \in SUBSET Message,
         \A x \in out : GoodMessage(x)' /\ Asks(x), Handle(m, out)
  PROVE  InFlight' /\ ListAsked
  BY HandleDelivers, FlightStep DEF InFlight

LEMMA CommittedWell ==
  ASSUME InFlight, Grows, NEW t \in open, NEW out \in SUBSET Message,
         \A x \in out : GoodMessage(x)' /\ Asks(x), Commit(t, out)
  PROVE  InFlight' /\ ListAsked
  BY CommitDelivers, FlightStep DEF InFlight

\* Most publish one message, or none.
LEMMA HandledOne ==
  ASSUME InFlight, Grows, NEW m \in msgs, NEW x \in Message, GoodMessage(x)', Asks(x),
         Handle(m, {x})
  PROVE  InFlight' /\ ListAsked
<1> DEFINE out == {x}
<1>1. out \in SUBSET Message /\ \A y \in out : GoodMessage(y)' /\ Asks(y)
  OBVIOUS
<1>2. Handle(m, out)
  OBVIOUS
<1> HIDE DEF out
<1> QED BY <1>1, <1>2, HandledWell

LEMMA CommittedOne ==
  ASSUME InFlight, Grows, NEW t \in open, NEW x \in Message, GoodMessage(x)', Asks(x),
         Commit(t, {x})
  PROVE  InFlight' /\ ListAsked
<1> DEFINE out == {x}
<1>1. out \in SUBSET Message /\ \A y \in out : GoodMessage(y)' /\ Asks(y)
  OBVIOUS
<1>2. Commit(t, out)
  OBVIOUS
<1> HIDE DEF out
<1> QED BY <1>1, <1>2, CommittedWell

LEMMA DoneWithNothing ==
  ASSUME InFlight, Grows
  PROVE  /\ \A m \in msgs : Handle(m, {}) => InFlight' /\ ListAsked
         /\ \A t \in open : Commit(t, {}) => InFlight' /\ ListAsked
  BY HandledWell, CommittedWell

LEMMA OpenedWell ==
  ASSUME InFlight, Grows, NEW t, GoodTransaction(t), Open(t)
  PROVE  InFlight' /\ ListAsked
<1>1. GoodTransaction(t)'
  BY GrowthKeepsGood
<1>2. Delivered({}, {t})
  BY OpenDelivers DEF InFlight
<1> QED BY <1>1, <1>2, FlightStep

LEMMA AbortedWell ==
  ASSUME InFlight, Grows, NEW t \in open, Abort(t)
  PROVE  InFlight' /\ ListAsked
  BY AbortDelivers, FlightStep DEF InFlight

\* What a handler is called with, and what a half-way handler holds.
LEMMA CallFacts ==
  ASSUME InFlight
  PROVE  /\ \A type : \A m \in Of(type) :
              m \in msgs /\ m \in Message /\ GoodMessage(m) /\ m.type = type
         /\ \A type : \A t \in OpenFor(type) :
              /\ t \in open /\ GoodTransaction(t)
              /\ t.msg \in Message /\ GoodMessage(t.msg) /\ t.msg.type = type
  BY DEF InFlight, Of, OpenFor, GoodTransaction

-----------------------------------------------------------------------------
\* A handler that leaves the rounds, or the queue and the clock, alone.
LEMMA SameRows ==
  ASSUME RowsOK, UNCHANGED <<commands, table>>
  PROVE  RowsOK' /\ RowsForward /\ Grows
  BY GrowthKeeps DEF RowsOK, table, RowsForward, Forward, Grows

LEMMA SameQueue ==
  ASSUME QueueOK, Grows, UNCHANGED <<queue, time>>
  PROVE  QueueOK'
  BY DEF QueueOK, Grows, queue, time

\* A handler that writes one row.
LEMMA RowWritten ==
  ASSUME RowsOK, UNCHANGED <<commands, minted>>, NEW r \in DOMAIN rows,
         NEW row \in Row, row.list \in GoodLists, Forward(rows[r], row),
         rows' = [rows EXCEPT ![r] = row]
  PROVE  RowsOK' /\ RowsForward /\ Grows
<1>1. DOMAIN rows' = DOMAIN rows /\ rows' \in [DOMAIN rows -> Row]
  BY DEF RowsOK
<1>2. \A s \in DOMAIN rows : rows'[s] = IF s = r THEN row ELSE rows[s]
  BY DEF RowsOK
<1>3. \A s \in DOMAIN rows : rows'[s].list \in GoodLists'
  BY <1>2, GrowthKeeps DEF RowsOK
<1>4. RowsForward
  BY <1>2 DEF RowsForward, Forward
<1> QED BY <1>1, <1>3, <1>4 DEF RowsOK, Grows

\* Each statement writes the columns it names: none takes a round back, and only the
\* list's writers touch the list.
LEMMA RowFacts ==
  ASSUME NEW row \in Row
  PROVE  /\ \A new \in {WithMessageId(row), WithEventId(row), InState(row, "IN_PROGRESS"), Deleted(row)} :
              new \in Row /\ new.list = row.list /\ Forward(row, new)
         /\ \A status \in ImportStates : LET new == [row EXCEPT !.import = status] IN
              new \in Row /\ new.list = row.list /\ Forward(row, new)
         /\ \A copy \in Row : LET new == Written(row, copy) IN
              new \in Row /\ new.list = row.list /\ Forward(row, new)
         /\ \A list \in Seq(Entries) : LET new == [row EXCEPT !.list = list] IN
              new \in Row /\ new.list = list /\ Forward(row, new)
         /\ \A list \in Seq(Entries) : \A teams \in SUBSET Nat :
              LET new == [row EXCEPT !.list = list, !.teams = teams] IN
              new \in Row /\ new.list = list /\ Forward(row, new)
<1>1. \A new \in {WithMessageId(row), WithEventId(row), InState(row, "IN_PROGRESS"), Deleted(row)} :
         new \in Row /\ new.list = row.list /\ Forward(row, new)
  BY DEF Row, WithMessageId, WithEventId, InState, Deleted, Forward, States
<1>2. ASSUME NEW status \in ImportStates, NEW new, new = [row EXCEPT !.import = status]
      PROVE  new \in Row /\ new.list = row.list /\ Forward(row, new)
  BY <1>2 DEF Row, Forward
<1>3. ASSUME NEW copy \in Row, NEW new, new = Written(row, copy)
      PROVE  new \in Row /\ new.list = row.list /\ Forward(row, new)
  BY <1>3 DEF Row, Written, Forward
<1>4. ASSUME NEW list \in Seq(Entries), NEW new, new = [row EXCEPT !.list = list]
      PROVE  new \in Row /\ new.list = list /\ Forward(row, new)
  BY <1>4 DEF Row, Forward
<1>5. ASSUME NEW list \in Seq(Entries), NEW teams \in SUBSET Nat,
             NEW new, new = [row EXCEPT !.list = list, !.teams = teams]
      PROVE  new \in Row /\ new.list = list /\ Forward(row, new)
  BY <1>5 DEF Row, Forward
<1> QED BY <1>1, <1>2, <1>3, <1>4, <1>5

LEMMA CopyFacts ==
  ASSUME NEW row \in Row
  PROVE  /\ [row EXCEPT !.import = "pending"] \in Row
         /\ \A edit : edit.title \in Titles \cup {Same} /\ edit.start \in Hours \cup {Same}
              => Edited(row, edit) \in Row
  BY DEF Row, Edited, ImportStates

-----------------------------------------------------------------------------
\* A new user at the end of a list.
LEMMA Appended ==
  ASSUME NEW list \in GoodLists, NEW entry \in Entries,
         \A i \in DOMAIN list : list[i].user # entry.user,
         entry.score = NoScore \/ OnACard(entry.user, entry.score)
  PROVE  Append(list, entry) \in GoodLists
<1>1. list \in Seq(Entries) /\ Once(list)
  BY DEF GoodLists
<1>2. \A i \in DOMAIN list : list[i].score = NoScore \/ OnACard(list[i].user, list[i].score)
  BY DEF GoodLists
<1> DEFINE new == Append(list, entry)
<1>3. /\ new \in Seq(Entries)
      /\ DOMAIN new = DOMAIN list \cup {Len(list) + 1} /\ Len(list) + 1 \notin DOMAIN list
      /\ \A i \in DOMAIN list : new[i] = list[i]
      /\ new[Len(list) + 1] = entry
  BY <1>1
<1> HIDE DEF new
<1>4. Once(new)
  BY <1>1, <1>3 DEF Once
<1>5. \A i \in DOMAIN new : new[i].score = NoScore \/ OnACard(new[i].user, new[i].score)
  BY <1>2, <1>3
<1>6. new \in GoodLists
  BY <1>3, <1>4, <1>5 DEF GoodLists
<1> QED BY <1>6 DEF new

\* An answer changes a response or adds a user who is not on the list.
LEMMA AnsweredWell ==
  ASSUME NEW list \in GoodLists, NEW user \in Users, NEW response \in Responses
  PROVE  Answered(list, user, response) \in GoodLists
<1>1. list \in Seq(Entries) /\ Once(list)
  BY DEF GoodLists
<1>2. \A i \in DOMAIN list :
        /\ list[i] \in Entries
        /\ list[i].score = NoScore \/ OnACard(list[i].user, list[i].score)
  BY DEF GoodLists
<1>3. CASE \E i \in DOMAIN list : list[i].user = user
  <2> DEFINE new == [i \in DOMAIN list |->
               IF list[i].user = user THEN [list[i] EXCEPT !.response = response] ELSE list[i]]
  <2>1. \A i \in DOMAIN list :
          new[i] \in Entries /\ new[i].user = list[i].user /\ new[i].score = list[i].score
    BY <1>2 DEF Entries
  <2>2. DOMAIN list = 1 .. Len(list) /\ Len(list) \in Nat /\ DOMAIN new = DOMAIN list
    BY <1>1
  <2>3. new \in [1 .. Len(list) -> Entries]
    BY <2>1, <2>2
  <2>4. new \in Seq(Entries)
    BY <2>2, <2>3
  <2>5. new = Answered(list, user, response)
    BY <1>3 DEF Answered
  <2> HIDE DEF new
  <2>6. Once(new)
    BY <1>1, <2>1, <2>2 DEF Once
  <2>7. \A i \in DOMAIN new : new[i].score = NoScore \/ OnACard(new[i].user, new[i].score)
    BY <1>2, <2>1, <2>2
  <2> QED BY <2>4, <2>5, <2>6, <2>7 DEF GoodLists
<1>4. CASE ~ \E i \in DOMAIN list : list[i].user = user
  <2> DEFINE entry == Entry(user, response, NoScore, NoTeam)
  <2>1. entry \in Entries /\ entry.user = user /\ entry.score = NoScore
    BY DEF Entry, Entries, NoTeam
  <2> HIDE DEF entry
  <2>2. Append(list, entry) \in GoodLists
    BY <1>1, <1>2, <1>4, <2>1, Appended
  <2>3. Append(list, entry) = Answered(list, user, response)
    BY <1>4 DEF Answered, entry
  <2> QED BY <2>2, <2>3
<1> QED BY <1>3, <1>4

\* A score of a card for its user changes an entry of the list or adds one.
LEMMA WithScoreWell ==
  ASSUME NEW list \in GoodLists, NEW s \in Matches,
         s.user = Nobody \/ OnACard(s.user, s.score)
  PROVE  WithScore(list, s) \in GoodLists
<1>1. list \in Seq(Entries) /\ Once(list)
  BY DEF GoodLists
<1>2. \A i \in DOMAIN list :
        /\ list[i] \in Entries
        /\ list[i].score = NoScore \/ OnACard(list[i].user, list[i].score)
  BY DEF GoodLists
<1>3. s.user \in Users \cup {Nobody} /\ s.score \in Scores
  BY DEF Matches
<1>4. CASE s.user = Nobody
  BY <1>4 DEF WithScore
<1>5. CASE s.user # Nobody /\ s.user \in Listed(list)
  <2> DEFINE new == [i \in DOMAIN list |->
               IF list[i].user = s.user THEN Entry(s.user, "ACCEPT", s.score, list[i].team)
               ELSE list[i]]
  <2>1. \A i \in DOMAIN list :
          /\ new[i] \in Entries /\ new[i].user = list[i].user
          /\ \/ new[i].score = list[i].score
             \/ new[i].score = s.score /\ new[i].user = s.user
    BY <1>2, <1>3 DEF Entry, Entries, Responses
  <2>2. DOMAIN list = 1 .. Len(list) /\ Len(list) \in Nat /\ DOMAIN new = DOMAIN list
    BY <1>1
  <2>3. new \in [1 .. Len(list) -> Entries]
    BY <2>1, <2>2
  <2>4. new \in Seq(Entries)
    BY <2>2, <2>3
  <2>5. new = WithScore(list, s)
    BY <1>5 DEF WithScore
  <2> HIDE DEF new
  <2>6. Once(new)
    BY <1>1, <2>1, <2>2 DEF Once
  <2>7. \A i \in DOMAIN new : new[i].score = NoScore \/ OnACard(new[i].user, new[i].score)
    BY <1>2, <1>5, <2>1, <2>2
  <2> QED BY <2>4, <2>5, <2>6, <2>7 DEF GoodLists
<1>6. CASE s.user # Nobody /\ s.user \notin Listed(list)
  <2> DEFINE entry == Entry(s.user, "ACCEPT", s.score, NoTeam)
  <2>1. entry \in Entries /\ entry.user = s.user /\ entry.score = s.score
    BY <1>3 DEF Entry, Entries, NoTeam, Responses
  <2> HIDE DEF entry
  <2>2. \A i \in DOMAIN list : list[i].user # entry.user
    BY <1>6, <2>1 DEF Listed
  <2>3. Append(list, entry) \in GoodLists
    BY <1>6, <2>1, <2>2, Appended
  <2>4. Append(list, entry) = WithScore(list, s)
    BY <1>6 DEF WithScore, entry
  <2> QED BY <2>3, <2>4
<1> QED BY <1>4, <1>5, <1>6

\* The names of a card, each with the score beside it.
LinesOn(card) ==
  {line \in Lines : \E k \in DOMAIN card : \E n \in ToSet(card[k].names) :
                      card[k].total = line.score /\ line.name = n}

LEMMA NormalizedWell ==
  ASSUME NEW card \in Cards
  PROVE  Normalized(card) \in Seq(LinesOn(card))
<1>1. card \in Seq([names : Seq(Names), total : Scores])
  BY CardsAssumption
<1>2. ASSUME NEW i \in DOMAIN card PROVE LinesOf(card, i) \in Seq(LinesOn(card))
  <2> DEFINE S == [names : Seq(Names), total : Scores]
  <2>a. card \in Seq(S)
    BY <1>1
  <2> HIDE DEF S
  <2>1. card[i] \in S /\ i \in Nat
    BY <2>a
  <2>2. card[i].names \in Seq(Names) /\ card[i].total \in Scores
    BY <2>1 DEF S
  <2>3. ASSUME NEW k \in DOMAIN card[i].names
        PROVE  LinesOf(card, i)[k] \in LinesOn(card)
    <3> DEFINE line == [name |-> card[i].names[k], score |-> card[i].total,
                        team |-> IF IsDoubles(card) THEN i ELSE NoTeam]
    <3>1. card[i].names[k] \in Names /\ card[i].names[k] \in ToSet(card[i].names)
      BY <2>2 DEF ToSet
    <3>2. line \in Lines
      BY <2>1, <2>2, <3>1 DEF Lines, NoTeam
    <3>3. line.name = card[i].names[k] /\ line.score = card[i].total
      OBVIOUS
    <3>4. LinesOf(card, i)[k] = line
      BY DEF LinesOf
    <3> HIDE DEF line
    <3> QED BY <3>1, <3>2, <3>3, <3>4 DEF LinesOn
  <2>4. /\ DOMAIN card[i].names = 1 .. Len(card[i].names)
        /\ Len(card[i].names) \in Nat /\ DOMAIN LinesOf(card, i) = DOMAIN card[i].names
    BY <2>2 DEF LinesOf
  <2>5. LinesOf(card, i) \in [1 .. Len(card[i].names) -> LinesOn(card)]
    BY <2>3, <2>4 DEF LinesOf
  <2> QED BY <2>4, <2>5
<1> DEFINE seqs == [i \in DOMAIN card |-> LinesOf(card, i)]
<1>3. DOMAIN card = 1 .. Len(card) /\ Len(card) \in Nat
  BY <1>1
<1>4. seqs \in [1 .. Len(card) -> Seq(LinesOn(card))]
  BY <1>2, <1>3
<1>5. seqs \in Seq(Seq(LinesOn(card)))
  BY <1>3, <1>4
<1> HIDE DEF seqs
<1>6. FlattenSeq(seqs) \in Seq(LinesOn(card))
  BY <1>5, Flattened
<1> QED BY <1>6 DEF Normalized, seqs

\* The matches of a card's names: whoever is a user has the score beside a name of his.
Proper == {s \in Matches : s.user = Nobody \/ OnACard(s.user, s.score)}

LEMMA ScoresWell ==
  ASSUME NEW c \in Imports, c.card \in Cards, NEW m, m.lines = Normalized(c.card)
  PROVE  ScoresOf(m) \in Seq(Proper)
<1>1. m.lines \in Seq(LinesOn(c.card))
  BY NormalizedWell
<1>2. DOMAIN m.lines = 1 .. Len(m.lines) /\ Len(m.lines) \in Nat
  BY <1>1
<1>3. ASSUME NEW i \in DOMAIN m.lines PROVE Matched(m)[i] \in Proper
  <2>1. m.lines[i] \in LinesOn(c.card)
    BY <1>1
  <2> DEFINE line == m.lines[i]
             s == [user |-> ResolveUserID(line.name), score |-> line.score,
                   team |-> line.team, name |-> line.name]
  <2>2. Matched(m)[i] = s
    BY DEF Matched
  <2>3. line \in Lines
    BY <2>1 DEF LinesOn
  <2>4. PICK k \in DOMAIN c.card : \E n \in ToSet(c.card[k].names) :
                c.card[k].total = line.score /\ line.name = n
    BY <2>1 DEF LinesOn
  <2> HIDE DEF line
  <2>5. line.name \in Names /\ line.score \in Scores /\ line.team \in Nat
    BY <2>3 DEF Lines
  <2>6. ResolveUserID(line.name) \in Users \cup {Nobody}
    BY <2>5, NamesAssumption DEF ResolveUserID
  <2>7. s \in Matches
    BY <2>5, <2>6 DEF Matches
  <2>8. OnACard(s.user, s.score)
    BY <2>4 DEF OnACard
  <2> HIDE DEF s
  <2> QED BY <2>2, <2>7, <2>8 DEF Proper
<1>4. CASE m.doubles
  <2>1. Matched(m) \in [1 .. Len(m.lines) -> Proper]
    BY <1>2, <1>3 DEF Matched
  <2>2. Matched(m) \in Seq(Proper)
    BY <1>2, <2>1
  <2> QED BY <1>4, <2>2 DEF ScoresOf
<1>5. CASE ~ m.doubles
  <2> DEFINE seqs == [i \in DOMAIN m.lines |-> IfUser(Matched(m)[i])]
  <2>1. ASSUME NEW i \in DOMAIN m.lines PROVE IfUser(Matched(m)[i]) \in Seq(Proper)
    BY <1>3 DEF IfUser
  <2>2. seqs \in [1 .. Len(m.lines) -> Seq(Proper)]
    BY <1>2, <2>1
  <2>3. seqs \in Seq(Seq(Proper))
    BY <1>2, <2>2
  <2> HIDE DEF seqs
  <2>4. FlattenSeq(seqs) \in Seq(Proper)
    BY <2>3, Flattened
  <2> QED BY <1>5, <2>4 DEF ScoresOf, seqs
<1> QED BY <1>4, <1>5
-----------------------------------------------------------------------------
\* What every step keeps.
Kept == RoundsInv' /\ RowsForward /\ ListAsked /\ Grows

\* Half-way handlers hold what they may.
LEMMA Begun ==
  ASSUME NEW m \in Message, GoodMessage(m)
  PROVE  /\ m.type \in WithoutCopy => GoodTransaction([msg |-> m])
         /\ \A row \in Row : m.type \in WithRow /\ m.round \in DOMAIN rows
              => GoodTransaction([msg |-> m, seen |-> row])
         /\ \A list \in GoodLists : m.type \in WithList
              => GoodTransaction([msg |-> m, seen |-> list])
  BY DEF GoodTransaction, WithoutCopy, WithRow, WithList

LEMMA SameFlight ==
  ASSUME InFlight, Grows, UNCHANGED delivery
  PROVE  InFlight' /\ ListAsked
  BY GrowthKeepsGood DEF InFlight, delivery, ListAsked, RedeliveriesBounded

LEMMA Together ==
  ASSUME RoundsInv, RowsOK', RowsForward, Grows, QueueOK', UNCHANGED grouping, InFlight', ListAsked
  PROVE  Kept
  BY DEF Kept, RoundsInv, GroupsOK, grouping, Grows

LEMMA CancelledWell ==
  ASSUME QueueOK, Grows, UNCHANGED time, NEW r \in DOMAIN rows, CancelRoundJobs(r)
  PROVE  QueueOK'
<1>1. \A j \in Remaining(r) : j \in Jobs /\ j.args.round \in DOMAIN rows
  <2> SUFFICES ASSUME NEW j \in jobs, NEW k, k = [j EXCEPT !.spared = @ \/ rows[r].state = "DELETED"]
               PROVE  k \in Jobs /\ k.args.round \in DOMAIN rows
    BY DEF Remaining, Unfinished, JobsOf
  <2>1. j \in Jobs /\ j.args.round \in DOMAIN rows
    BY DEF QueueOK
  <2>2. (j.spared \/ rows[r].state = "DELETED") \in BOOLEAN
    BY <2>1 DEF Jobs
  <2> QED BY <2>1, <2>2 DEF Jobs
<1> QED BY <1>1 DEF QueueOK, CancelRoundJobs, Grows, time

LEMMA ScheduledWell ==
  ASSUME QueueOK, Grows, UNCHANGED <<clock, failed>>, missed' \subseteq Rounds,
         NEW args \in Reminders, args.round \in DOMAIN rows, ScheduleRoundReminder(args)
  PROVE  QueueOK'
<1> DEFINE job == [args |-> args, state |-> "scheduled", spared |-> rows[args.round].state = "DELETED"]
<1>1. job \in Jobs /\ job.args.round \in DOMAIN rows
  BY DEF Jobs
<1>2. jobs' \subseteq jobs \cup {job}
  BY DEF ScheduleRoundReminder
<1> HIDE DEF job
<1> QED BY <1>1, <1>2 DEF QueueOK, Grows

-----------------------------------------------------------------------------
LEMMA TickKeeps ==
  ASSUME RoundsInv, UNCHANGED grouping, Tick
  PROVE  Kept
<1>1. RowsOK' /\ RowsForward /\ Grows
  BY SameRows DEF RoundsInv, Tick
<1>2. InFlight' /\ ListAsked
  BY <1>1, SameFlight DEF RoundsInv, Tick
<1>3. QueueOK'
  BY <1>1, ClockAssumption DEF RoundsInv, QueueOK, Tick, queue, Hours, Grows
<1> QED BY <1>1, <1>2, <1>3, Together

LEMMA CreateKeeps ==
  ASSUME RoundsInv, UNCHANGED grouping, Create
  PROVE  Kept
<1>1. PICK m \in Of("create") :
        \/ Handle(m, {}) /\ UNCHANGED minted
        \/ \E r \in Rounds \ minted :
             /\ minted' = minted \cup {r}
             /\ Handle(m, {[type |-> "entity", round |-> r, row |-> NewRow(m.title, m.start, m.user)]})
  BY DEF Create
<1>2. m \in msgs /\ m \in Message /\ m.type = "create"
  BY CallFacts DEF RoundsInv
<1>3. UNCHANGED <<commands, rows, queue, time>>
  BY DEF Create
<1>4. CASE Handle(m, {}) /\ UNCHANGED minted
  <2>1. RowsOK' /\ RowsForward /\ Grows
    BY <1>3, <1>4, SameRows DEF RoundsInv, table
  <2>2. InFlight' /\ ListAsked
    BY <1>2, <1>4, <2>1, DoneWithNothing DEF RoundsInv
  <2>3. QueueOK'
    BY <1>3, <2>1, SameQueue DEF RoundsInv
  <2> QED BY <2>1, <2>2, <2>3, Together
<1>5. ASSUME NEW r \in Rounds \ minted, minted' = minted \cup {r},
             Handle(m, {[type |-> "entity", round |-> r, row |-> NewRow(m.title, m.start, m.user)]})
      PROVE  Kept
  <2>1. NewRow(m.title, m.start, m.user) \in Row /\ NewRow(m.title, m.start, m.user).list = <<>>
    BY <1>2, MessageFacts DEF NewRow, Row, States, ImportStates
  <2> DEFINE row == NewRow(m.title, m.start, m.user)
             x == [type |-> "entity", round |-> r, row |-> row]
  <2>2. RowsOK' /\ RowsForward /\ Grows
    BY <1>3, <1>5, GrowthKeeps DEF RoundsInv, RowsOK, RowsForward, Forward, Grows
  <2> HIDE DEF row
  <2>3. x \in Message
    BY <2>1 DEF Message, Events, row
  <2>4. GoodMessage(x)' /\ Asks(x)
    BY <1>5, <2>1 DEF GoodMessage, Asks, Commands, row
  <2>5. Handle(m, {x})
    BY <1>5 DEF row
  <2> HIDE DEF x
  <2>6. InFlight' /\ ListAsked
    BY <1>2, <2>2, <2>3, <2>4, <2>5, HandledOne DEF RoundsInv
  <2>7. QueueOK'
    BY <1>3, <2>2, SameQueue DEF RoundsInv
  <2> QED BY <2>2, <2>6, <2>7, Together
<1> QED BY <1>1, <1>4, <1>5

LEMMA StoreKeeps ==
  ASSUME RoundsInv, UNCHANGED grouping, Store
  PROVE  Kept
<1>1. PICK m \in Of("entity") :
        StoreRound(m.round, m.row) /\ Handle(m, {[type |-> "created", round |-> m.round]})
  BY DEF Store
<1>2. /\ m \in msgs /\ m \in Message /\ GoodMessage(m) /\ m.type = "entity"
      /\ m.round \in Rounds /\ m.row \in Row /\ m.round \in minted /\ m.row.list = <<>>
  BY CallFacts, MessageFacts DEF RoundsInv, GoodMessage
<1>3. UNCHANGED <<commands, minted, queue, time>>
  BY DEF Store
<1>4. RowsOK' /\ RowsForward /\ Grows
  <2>1. /\ m.round \notin DOMAIN rows /\ DOMAIN rows' = DOMAIN rows \cup {m.round}
        /\ \A s \in DOMAIN rows' : rows'[s] = IF s = m.round THEN m.row ELSE rows[s]
    BY <1>1 DEF StoreRound, CreateRound, Found
  <2>2. rows' \in [DOMAIN rows' -> Row]
    BY <1>1, <1>2 DEF StoreRound, CreateRound, RoundsInv, RowsOK
  <2>3. <<>> \in GoodLists
    <3>1. <<>> \in Seq(Entries) /\ DOMAIN <<>> = {}
      OBVIOUS
    <3> QED BY <3>1 DEF GoodLists, Once
  <2>4. \A s \in DOMAIN rows' : rows'[s].list \in GoodLists'
    BY <1>2, <1>3, <2>1, <2>3, GrowthKeeps DEF RoundsInv, RowsOK
  <2>5. RowsForward
    BY <2>1 DEF RowsForward, Forward
  <2> QED BY <1>2, <1>3, <2>1, <2>2, <2>4, <2>5 DEF RoundsInv, RowsOK, Grows
<1>5. m.round \in DOMAIN rows'
  BY <1>1 DEF StoreRound, CreateRound
<1> DEFINE x == [type |-> "created", round |-> m.round]
<1>6. x \in Message /\ GoodMessage(x)' /\ Asks(x)
  BY <1>2, <1>5 DEF Message, Events, GoodMessage, Commands, Asks
<1>7. Handle(m, {x})
  BY <1>1
<1> HIDE DEF x
<1>8. InFlight' /\ ListAsked
  BY <1>2, <1>4, <1>6, <1>7, HandledOne DEF RoundsInv
<1>9. QueueOK'
  BY <1>3, <1>4, SameQueue DEF RoundsInv
<1> QED BY <1>4, <1>8, <1>9, Together

LEMMA AnnounceKeeps ==
  ASSUME RoundsInv, UNCHANGED grouping, Announce
  PROVE  Kept
<1>1. PICK m \in Of("created") :
        Handle(m, {[type |-> "posted", round |-> m.round], [type |-> "event", round |-> m.round]})
  BY DEF Announce
<1>2. m \in msgs /\ m \in Message /\ m.round \in Rounds /\ m.round \in DOMAIN rows
  BY CallFacts, MessageFacts DEF RoundsInv, GoodMessage
<1>3. RowsOK' /\ RowsForward /\ Grows
  BY SameRows DEF RoundsInv, Announce
<1> DEFINE out == {[type |-> "posted", round |-> m.round], [type |-> "event", round |-> m.round]}
<1>4. out \in SUBSET Message
  BY <1>2 DEF Message, Events
<1>5. \A x \in out : GoodMessage(x)' /\ Asks(x)
  BY <1>2, <1>3 DEF GoodMessage, Commands, Asks, Grows
<1>6. Handle(m, out)
  BY <1>1
<1> HIDE DEF out
<1>7. InFlight' /\ ListAsked
  BY <1>2, <1>3, <1>4, <1>5, <1>6, HandledWell DEF RoundsInv
<1>8. QueueOK'
  BY <1>3, SameQueue DEF RoundsInv, Announce
<1> QED BY <1>3, <1>7, <1>8, Together

LEMMA StoreMessageIdKeeps ==
  ASSUME RoundsInv, UNCHANGED grouping, StoreMessageId
  PROVE  Kept
<1>1. PICK m \in Of("posted") :
        /\ UpdateRoundMessageID(m.round)
        /\ Handle(m, {[type |-> "scheduled", round |-> m.round,
                       title |-> rows[m.round].title, start |-> rows[m.round].start]})
  BY DEF StoreMessageId
<1>2. m \in msgs /\ m \in Message /\ m.round \in Rounds /\ m.round \in DOMAIN rows
  BY CallFacts, MessageFacts DEF RoundsInv, GoodMessage
<1>3. rows[m.round] \in Row /\ rows[m.round].list \in GoodLists
  BY <1>2 DEF RoundsInv, RowsOK
<1>4. RowsOK' /\ RowsForward /\ Grows
  <2> DEFINE new == WithMessageId(rows[m.round])
  <2>1. new \in Row /\ new.list = rows[m.round].list /\ Forward(rows[m.round], new)
    BY <1>3, RowFacts
  <2>2. rows' = [rows EXCEPT ![m.round] = new]
    BY <1>1 DEF UpdateRoundMessageID, SetRow
  <2> HIDE DEF new
  <2> QED BY <1>2, <1>3, <2>1, <2>2, RowWritten DEF RoundsInv, StoreMessageId
<1>5. rows[m.round].title \in Titles /\ rows[m.round].start \in Hours
  BY <1>3 DEF Row
<1>6. PICK x \in Message : x = [type |-> "scheduled", round |-> m.round,
                               title |-> rows[m.round].title, start |-> rows[m.round].start]
  BY <1>2, <1>5 DEF Message, Events
<1>7. GoodMessage(x)' /\ Asks(x)
  BY <1>2, <1>4, <1>6 DEF GoodMessage, Commands, Asks, Grows
<1>8. Handle(m, {x})
  BY <1>1, <1>6
<1>9. InFlight' /\ ListAsked
  BY <1>2, <1>4, <1>7, <1>8, HandledOne DEF RoundsInv
<1>10. QueueOK'
  BY <1>4, SameQueue DEF RoundsInv, StoreMessageId
<1> QED BY <1>4, <1>9, <1>10, Together

LEMMA StoreEventIdKeeps ==
  ASSUME RoundsInv, UNCHANGED grouping, StoreEventId
  PROVE  Kept
<1>1. PICK m \in Of("event") : UpdateDiscordEventID(m.round) /\ Handle(m, {})
  BY DEF StoreEventId
<1>2. m \in msgs /\ m \in Message /\ m.round \in DOMAIN rows
  BY CallFacts DEF RoundsInv, GoodMessage
<1>3. rows[m.round] \in Row /\ rows[m.round].list \in GoodLists
  BY <1>2 DEF RoundsInv, RowsOK
<1>4. RowsOK' /\ RowsForward /\ Grows
  <2> DEFINE new == WithEventId(rows[m.round])
  <2>1. new \in Row /\ new.list = rows[m.round].list /\ Forward(rows[m.round], new)
    BY <1>3, RowFacts
  <2>2. rows' = [rows EXCEPT ![m.round] = new]
    BY <1>1 DEF UpdateDiscordEventID, SetRow
  <2> HIDE DEF new
  <2> QED BY <1>2, <1>3, <2>1, <2>2, RowWritten DEF RoundsInv, StoreEventId
<1>5. InFlight' /\ ListAsked
  BY <1>1, <1>2, <1>4, DoneWithNothing DEF RoundsInv
<1>6. QueueOK'
  BY <1>4, SameQueue DEF RoundsInv, StoreEventId
<1> QED BY <1>4, <1>5, <1>6, Together
LEMMA CancelForScheduleKeeps ==
  ASSUME RoundsInv, UNCHANGED grouping, CancelForSchedule
  PROVE  Kept
<1>1. PICK m \in Of("scheduled") : CancelRoundJobs(m.round) /\ Open([msg |-> m])
  BY DEF CancelForSchedule
<1>2. m \in Message /\ GoodMessage(m) /\ m.type = "scheduled" /\ m.round \in DOMAIN rows
  BY CallFacts DEF RoundsInv, GoodMessage
<1>3. RowsOK' /\ RowsForward /\ Grows
  BY SameRows DEF RoundsInv, CancelForSchedule
<1>4. GoodTransaction([msg |-> m])
  BY <1>2, Begun DEF WithoutCopy
<1>5. InFlight' /\ ListAsked
  BY <1>1, <1>3, <1>4, OpenedWell DEF RoundsInv
<1>6. QueueOK'
  BY <1>1, <1>2, <1>3, CancelledWell DEF RoundsInv, CancelForSchedule
<1> QED BY <1>3, <1>5, <1>6, Together

LEMMA CancelForRescheduleKeeps ==
  ASSUME RoundsInv, UNCHANGED grouping, CancelForReschedule
  PROVE  Kept
<1>1. PICK m \in Of("rescheduled") : CancelRoundJobs(m.round) /\ Open([msg |-> m])
  BY DEF CancelForReschedule
<1>2. m \in Message /\ GoodMessage(m) /\ m.type = "rescheduled" /\ m.round \in DOMAIN rows
  BY CallFacts DEF RoundsInv, GoodMessage
<1>3. RowsOK' /\ RowsForward /\ Grows
  BY SameRows DEF RoundsInv, CancelForReschedule
<1>4. GoodTransaction([msg |-> m])
  BY <1>2, Begun DEF WithoutCopy
<1>5. InFlight' /\ ListAsked
  BY <1>1, <1>3, <1>4, OpenedWell DEF RoundsInv
<1>6. QueueOK'
  BY <1>1, <1>2, <1>3, CancelledWell DEF RoundsInv, CancelForReschedule
<1> QED BY <1>3, <1>5, <1>6, Together

LEMMA InsertReminderKeeps ==
  ASSUME RoundsInv, UNCHANGED grouping, InsertReminder
  PROVE  Kept
<1>1. PICK t \in OpenFor("scheduled") :
        \/ /\ ScheduleRoundReminder(Reminder(t.msg.round, t.msg.title, t.msg.start, {}))
           /\ Commit(t, {}) /\ UNCHANGED missed
        \/ missed' = missed \cup {t.msg.round} /\ Commit(t, {}) /\ UNCHANGED jobs
        \/ Abort(t) /\ UNCHANGED <<jobs, missed>>
  BY DEF InsertReminder, InsertFails
<1>2. t \in open /\ t.msg.type = "scheduled" /\ t.msg.round \in DOMAIN rows
  BY CallFacts DEF RoundsInv, GoodMessage
<1>3. t.msg.round \in Rounds /\ t.msg.title \in Titles /\ t.msg.start \in Hours
  BY <1>2, CallFacts, MessageFacts DEF RoundsInv
<1>4. RowsOK' /\ RowsForward /\ Grows
  BY SameRows DEF RoundsInv, InsertReminder
<1>5. InFlight' /\ ListAsked
  BY <1>1, <1>2, <1>4, DoneWithNothing, AbortedWell DEF RoundsInv
<1>6. UNCHANGED <<clock, failed>>
  BY DEF InsertReminder
<1>7. ASSUME UNCHANGED missed,
             ScheduleRoundReminder(Reminder(t.msg.round, t.msg.title, t.msg.start, {}))
      PROVE  QueueOK'
  <2> DEFINE args == Reminder(t.msg.round, t.msg.title, t.msg.start, {})
  <2>1. args \in Reminders /\ args.round = t.msg.round
    BY <1>3 DEF Reminder, Reminders
  <2>2. ScheduleRoundReminder(args) /\ missed' \subseteq Rounds
    BY <1>7 DEF RoundsInv, QueueOK
  <2> HIDE DEF args
  <2> QED BY <1>2, <1>4, <1>6, <2>1, <2>2, ScheduledWell DEF RoundsInv
<1>8. ASSUME missed' \subseteq missed \cup {t.msg.round}, UNCHANGED jobs
      PROVE  QueueOK'
  BY <1>3, <1>4, <1>6, <1>8 DEF RoundsInv, QueueOK, Grows
<1>9. QueueOK'
  BY <1>1, <1>7, <1>8
<1> QED BY <1>4, <1>5, <1>9, Together

LEMMA ListedAreUsers ==
  ASSUME NEW list \in Seq(Entries)
  PROVE  /\ Listed(list) \subseteq Users \cup {Nobody}
         /\ Recipients(list) \subseteq Users \cup {Nobody}
<1>1. \A i \in DOMAIN list : list[i] \in Entries
  OBVIOUS
<1>2. \A i \in DOMAIN list : list[i].user \in Users \cup {Nobody}
  BY <1>1 DEF Entries
<1>3. \A e \in ToSet(list) : e.user \in Users \cup {Nobody}
  BY <1>2 DEF ToSet
<1> QED BY <1>2, <1>3 DEF Listed, Recipients

LEMMA InsertRescheduledKeeps ==
  ASSUME RoundsInv, UNCHANGED grouping, InsertRescheduled
  PROVE  Kept
<1>1. PICK t \in OpenFor("rescheduled") :
        \/ /\ ScheduleRoundReminder(Reminder(t.msg.round, t.msg.title, t.msg.start,
                                             Listed(rows[t.msg.round].list)))
           /\ Commit(t, {})
        \/ Commit(t, {}) /\ UNCHANGED jobs
        \/ Abort(t) /\ UNCHANGED jobs
  BY DEF InsertRescheduled, InsertFails
<1>2. t \in open /\ t.msg.type = "rescheduled" /\ t.msg.round \in DOMAIN rows
  BY CallFacts DEF RoundsInv, GoodMessage
<1>3. t.msg.round \in Rounds /\ t.msg.title \in Titles /\ t.msg.start \in Hours
  BY <1>2, CallFacts, MessageFacts DEF RoundsInv
<1>4. RowsOK' /\ RowsForward /\ Grows
  BY SameRows DEF RoundsInv, InsertRescheduled
<1>5. InFlight' /\ ListAsked
  BY <1>1, <1>2, <1>4, DoneWithNothing, AbortedWell DEF RoundsInv
<1>6. UNCHANGED <<clock, failed, missed>>
  BY DEF InsertRescheduled, time
<1>7. ASSUME NEW users \in SUBSET (Users \cup {Nobody}),
             ScheduleRoundReminder(Reminder(t.msg.round, t.msg.title, t.msg.start, users))
      PROVE  QueueOK'
  <2> DEFINE args == Reminder(t.msg.round, t.msg.title, t.msg.start, users)
  <2>1. args \in Reminders /\ args.round = t.msg.round
    BY <1>3 DEF Reminder, Reminders
  <2>2. ScheduleRoundReminder(args) /\ missed' \subseteq Rounds
    BY <1>6, <1>7 DEF RoundsInv, QueueOK
  <2> HIDE DEF args
  <2> QED BY <1>2, <1>4, <1>6, <2>1, <2>2, ScheduledWell DEF RoundsInv
<1>8. Listed(rows[t.msg.round].list) \in SUBSET (Users \cup {Nobody})
  <2>1. rows[t.msg.round].list \in Seq(Entries)
    BY <1>2 DEF RoundsInv, RowsOK, GoodLists
  <2> QED BY <2>1, ListedAreUsers
<1>9. ASSUME UNCHANGED jobs
      PROVE  QueueOK'
  BY <1>4, <1>6, <1>9 DEF RoundsInv, QueueOK, Grows
<1>10. QueueOK'
  BY <1>1, <1>7, <1>8, <1>9
<1> QED BY <1>4, <1>5, <1>10, Together

LEMMA ValidateEditKeeps ==
  ASSUME RoundsInv, UNCHANGED grouping, ValidateEdit
  PROVE  Kept
<1>1. PICK m \in Of("edit") : \/ Handle(m, {[m EXCEPT !.type = "validated"]})
                              \/ Handle(m, {})
  BY DEF ValidateEdit
<1>2. m \in msgs /\ m \in Message /\ m.type = "edit"
  BY CallFacts DEF RoundsInv
<1>3. RowsOK' /\ RowsForward /\ Grows
  BY SameRows DEF RoundsInv, ValidateEdit
<1> DEFINE x == [m EXCEPT !.type = "validated"]
<1>4. x \in Message /\ x.type = "validated"
  BY <1>2, MessageShapes DEF Message, Events
<1>5. Handle(m, {x}) \/ Handle(m, {})
  BY <1>1
<1> HIDE DEF x
<1>6. GoodMessage(x)' /\ Asks(x)
  BY <1>4 DEF GoodMessage, Commands, Asks
<1>7. InFlight' /\ ListAsked
  BY <1>2, <1>3, <1>4, <1>5, <1>6, HandledOne, DoneWithNothing DEF RoundsInv
<1>8. QueueOK'
  BY <1>3, SameQueue DEF RoundsInv, ValidateEdit
<1> QED BY <1>3, <1>7, <1>8, Together

LEMMA ReadForEditKeeps ==
  ASSUME RoundsInv, UNCHANGED grouping, ReadForEdit
  PROVE  Kept
<1>1. PICK m \in Of("validated") : \/ Handle(m, {})
                                   \/ Found(m.round) /\ Open([msg |-> m, seen |-> rows[m.round]])
  BY DEF ReadForEdit
<1>2. m \in msgs /\ m \in Message /\ GoodMessage(m) /\ m.type = "validated"
  BY CallFacts DEF RoundsInv
<1>3. RowsOK' /\ RowsForward /\ Grows
  BY SameRows DEF RoundsInv, ReadForEdit
<1>4. ASSUME Found(m.round), Open([msg |-> m, seen |-> rows[m.round]])
      PROVE  InFlight' /\ ListAsked
  <2>1. GoodTransaction([msg |-> m, seen |-> rows[m.round]])
    BY <1>2, <1>4, Begun DEF RoundsInv, RowsOK, Found, WithRow
  <2>2. PICK t : t = [msg |-> m, seen |-> rows[m.round]]
    OBVIOUS
  <2> QED BY <1>3, <1>4, <2>1, <2>2, OpenedWell DEF RoundsInv
<1>5. InFlight' /\ ListAsked
  BY <1>1, <1>2, <1>3, <1>4, DoneWithNothing DEF RoundsInv
<1>6. QueueOK'
  BY <1>3, SameQueue DEF RoundsInv, ReadForEdit
<1> QED BY <1>3, <1>5, <1>6, Together

LEMMA WriteEditKeeps ==
  ASSUME RoundsInv, UNCHANGED grouping, WriteEdit
  PROVE  Kept
<1>1. PICK t \in OpenFor("validated") :
        LET row == Written(rows[t.msg.round], Edited(t.seen, t.msg))
        IN  SetRow(t.msg.round, row) /\ Commit(t, Reschedules(t.msg, row))
  BY DEF WriteEdit
<1>2. /\ t \in open /\ t.msg \in Message /\ t.msg.type = "validated"
      /\ t.seen \in Row /\ t.msg.round \in DOMAIN rows
  BY CallFacts DEF RoundsInv, GoodTransaction, WithRow
<1>3. rows[t.msg.round] \in Row /\ rows[t.msg.round].list \in GoodLists
  BY <1>2 DEF RoundsInv, RowsOK
<1>4. /\ t.msg.round \in Rounds
      /\ t.msg.title \in Titles \cup {Same} /\ t.msg.start \in Hours \cup {Same}
  BY <1>2, MessageFacts
<1>5. Edited(t.seen, t.msg) \in Row
  BY <1>2, <1>4, CopyFacts
<1>6. PICK row \in Row : row = Written(rows[t.msg.round], Edited(t.seen, t.msg))
  BY <1>3, <1>5, RowFacts
<1>7. row.list = rows[t.msg.round].list /\ Forward(rows[t.msg.round], row)
  BY <1>3, <1>5, <1>6, RowFacts
<1>8. rows' = [rows EXCEPT ![t.msg.round] = row] /\ Commit(t, Reschedules(t.msg, row))
  BY <1>1, <1>6 DEF SetRow
<1>9. RowsOK' /\ RowsForward /\ Grows
  BY <1>2, <1>3, <1>7, <1>8, RowWritten DEF RoundsInv, WriteEdit
<1> DEFINE x == [type |-> "rescheduled", round |-> t.msg.round, title |-> row.title, start |-> row.start]
<1>10. row.title \in Titles /\ row.start \in Hours
  BY DEF Row
<1>11. x \in Message
  BY <1>4, <1>10 DEF Message, Events
<1>12. GoodMessage(x)' /\ Asks(x)
  BY <1>2, <1>9 DEF GoodMessage, Commands, Asks, Grows
<1>13. Commit(t, {}) \/ Commit(t, {x})
  BY <1>8 DEF Reschedules
<1> HIDE DEF x
<1>14. InFlight' /\ ListAsked
  BY <1>2, <1>9, <1>11, <1>12, <1>13, CommittedOne, DoneWithNothing DEF RoundsInv
<1>15. QueueOK'
  BY <1>9, SameQueue DEF RoundsInv, WriteEdit
<1> QED BY <1>9, <1>14, <1>15, Together
LEMMA RequestDeletionKeeps ==
  ASSUME RoundsInv, UNCHANGED grouping, RequestDeletion
  PROVE  Kept
<1>1. PICK m \in Of("delete") : \/ Found(m.round) /\ Handle(m, {DeleteAuthorized(m.round)})
                                \/ Handle(m, {})
  BY DEF RequestDeletion, ValidateRoundDeletion
<1>2. m \in msgs /\ m \in Message /\ m.type = "delete"
  BY CallFacts DEF RoundsInv
<1>3. m.round \in Rounds
  BY <1>2, MessageFacts
<1>4. RowsOK' /\ RowsForward /\ Grows
  BY SameRows DEF RoundsInv, RequestDeletion
<1> DEFINE x == DeleteAuthorized(m.round)
<1>5. x \in Message
  BY <1>3 DEF Message, Events, DeleteAuthorized
<1>6. Found(m.round) => GoodMessage(x)' /\ Asks(x)
  BY <1>4 DEF GoodMessage, Commands, Asks, Found, Grows, DeleteAuthorized
<1>7. (Found(m.round) /\ Handle(m, {x})) \/ Handle(m, {})
  BY <1>1
<1> HIDE DEF x
<1>8. InFlight' /\ ListAsked
  BY <1>2, <1>4, <1>5, <1>6, <1>7, HandledOne, DoneWithNothing DEF RoundsInv
<1>9. QueueOK'
  BY <1>4, SameQueue DEF RoundsInv, RequestDeletion
<1> QED BY <1>4, <1>8, <1>9, Together

LEMMA MarkDeletedKeeps ==
  ASSUME RoundsInv, UNCHANGED grouping, MarkDeleted
  PROVE  Kept
<1>1. PICK m \in Of("deleteAuthorized") : SetRow(m.round, Deleted(rows[m.round])) /\ Open([msg |-> m])
  BY DEF MarkDeleted
<1>2. m \in Message /\ GoodMessage(m) /\ m.type = "deleteAuthorized" /\ m.round \in DOMAIN rows
  BY CallFacts DEF RoundsInv, GoodMessage
<1>3. rows[m.round] \in Row /\ rows[m.round].list \in GoodLists
  BY <1>2 DEF RoundsInv, RowsOK
<1>4. RowsOK' /\ RowsForward /\ Grows
  <2> DEFINE new == Deleted(rows[m.round])
  <2>1. new \in Row /\ new.list = rows[m.round].list /\ Forward(rows[m.round], new)
    BY <1>3, RowFacts
  <2>2. rows' = [rows EXCEPT ![m.round] = new]
    BY <1>1 DEF SetRow
  <2> HIDE DEF new
  <2> QED BY <1>2, <1>3, <2>1, <2>2, RowWritten DEF RoundsInv, MarkDeleted
<1>5. GoodTransaction([msg |-> m])
  BY <1>2, Begun DEF WithoutCopy
<1>6. InFlight' /\ ListAsked
  BY <1>1, <1>4, <1>5, OpenedWell DEF RoundsInv
<1>7. QueueOK'
  BY <1>4, SameQueue DEF RoundsInv, MarkDeleted
<1> QED BY <1>4, <1>6, <1>7, Together

LEMMA CancelForDeletionKeeps ==
  ASSUME RoundsInv, UNCHANGED grouping, CancelForDeletion
  PROVE  Kept
<1>1. PICK t \in OpenFor("deleteAuthorized") :
        \/ CancelRoundJobs(t.msg.round) /\ Commit(t, {})
        \/ Abort(t) /\ UNCHANGED queue
  BY DEF CancelForDeletion
<1>2. t \in open /\ t.msg.round \in DOMAIN rows
  BY CallFacts DEF RoundsInv, GoodMessage
<1>3. RowsOK' /\ RowsForward /\ Grows
  BY SameRows DEF RoundsInv, CancelForDeletion
<1>4. InFlight' /\ ListAsked
  BY <1>1, <1>2, <1>3, DoneWithNothing, AbortedWell DEF RoundsInv
<1>5. QueueOK'
  BY <1>1, <1>2, <1>3, CancelledWell, SameQueue DEF RoundsInv, CancelForDeletion
<1> QED BY <1>3, <1>4, <1>5, Together

LEMMA StartKeeps ==
  ASSUME RoundsInv, UNCHANGED grouping, Start
  PROVE  Kept
<1>1. PICK m \in Of("start") : StartRound(m.round) /\ Handle(m, {})
  BY DEF Start
<1>2. m \in msgs
  BY CallFacts DEF RoundsInv
<1>3. ASSUME m.round \in DOMAIN rows, SetRow(m.round, InState(rows[m.round], "IN_PROGRESS"))
      PROVE  RowsOK' /\ RowsForward /\ Grows
  <2> DEFINE new == InState(rows[m.round], "IN_PROGRESS")
  <2>0. rows[m.round] \in Row /\ rows[m.round].list \in GoodLists
    BY <1>3 DEF RoundsInv, RowsOK
  <2>1. new \in Row /\ new.list = rows[m.round].list /\ Forward(rows[m.round], new)
    BY <2>0, RowFacts
  <2>2. rows' = [rows EXCEPT ![m.round] = new]
    BY <1>3 DEF SetRow
  <2> HIDE DEF new
  <2> QED BY <1>3, <2>0, <2>1, <2>2, RowWritten DEF RoundsInv, Start
<1>4. RowsOK' /\ RowsForward /\ Grows
  <2>1. UNCHANGED rows => RowsOK' /\ RowsForward /\ Grows
    BY SameRows DEF RoundsInv, Start, table
  <2> QED BY <1>1, <1>3, <2>1 DEF StartRound, Found
<1>5. InFlight' /\ ListAsked
  BY <1>1, <1>2, <1>4, DoneWithNothing DEF RoundsInv
<1>6. QueueOK'
  BY <1>4, SameQueue DEF RoundsInv, Start
<1> QED BY <1>4, <1>5, <1>6, Together

LEMMA AnswerKeeps ==
  ASSUME RoundsInv, UNCHANGED grouping, Answer
  PROVE  Kept
<1>1. PICK m \in Of("answer") :
        /\ Found(m.round)
        /\ rows' = [rows EXCEPT ![m.round].list = Answered(@, m.user, m.response)]
        /\ Handle(m, {})
  BY DEF Answer
<1>2. m \in msgs /\ m \in Message /\ m.type = "answer" /\ m.round \in DOMAIN rows
  BY <1>1, CallFacts DEF RoundsInv, Found
<1>3. m.user \in Users /\ m.response \in Responses
  BY <1>2, MessageFacts
<1>4. RowsOK' /\ RowsForward /\ Grows
  <2>1. rows[m.round] \in Row /\ rows[m.round].list \in GoodLists
    BY <1>2 DEF RoundsInv, RowsOK
  <2> DEFINE list == Answered(rows[m.round].list, m.user, m.response)
             new == [rows[m.round] EXCEPT !.list = list]
  <2>2. list \in GoodLists
    BY <1>3, <2>1, AnsweredWell
  <2>3. rows' = [rows EXCEPT ![m.round] = new]
    BY <1>1
  <2> HIDE DEF list
  <2>4. new \in Row /\ new.list = list /\ Forward(rows[m.round], new)
    BY <2>1, <2>2, RowFacts DEF GoodLists
  <2> HIDE DEF new
  <2> QED BY <1>2, <2>2, <2>3, <2>4, RowWritten DEF RoundsInv, Answer
<1>5. InFlight' /\ ListAsked
  BY <1>1, <1>2, <1>4, DoneWithNothing DEF RoundsInv
<1>6. QueueOK'
  BY <1>4, SameQueue DEF RoundsInv, Answer
<1> QED BY <1>4, <1>5, <1>6, Together

LEMMA JobMovedWell ==
  ASSUME QueueOK, Grows, UNCHANGED <<failed, time>>, NEW j \in jobs,
         NEW state \in {"scheduled", "running", "retryable", "completed"}, JobBecomes(j, state)
  PROVE  QueueOK'
<1> DEFINE k == [j EXCEPT !.state = state]
<1>1. k \in Jobs /\ k.args = j.args /\ j.args.round \in DOMAIN rows
  BY DEF QueueOK, Jobs
<1>2. jobs' \subseteq jobs \cup {k}
  BY DEF JobBecomes
<1> HIDE DEF k
<1> QED BY <1>1, <1>2 DEF QueueOK, Grows, time

LEMMA FetchJobKeeps ==
  ASSUME RoundsInv, UNCHANGED grouping, FetchJob
  PROVE  Kept
<1>1. PICK j \in jobs : JobBecomes(j, "running") \/ JobBecomes(j, "scheduled")
  BY DEF FetchJob
<1>2. RowsOK' /\ RowsForward /\ Grows
  BY SameRows DEF RoundsInv, FetchJob
<1>3. QueueOK'
  BY <1>1, <1>2, JobMovedWell DEF RoundsInv, FetchJob
<1>4. InFlight' /\ ListAsked
  BY <1>2, SameFlight DEF RoundsInv, FetchJob
<1> QED BY <1>2, <1>3, <1>4, Together

LEMMA WorkJobKeeps ==
  ASSUME RoundsInv, UNCHANGED grouping, WorkJob
  PROVE  Kept
<1>1. PICK j \in jobs :
        /\ msgs' \in {msgs, msgs \cup {[type |-> "remind", args |-> j.args]}}
        /\ JobBecomes(j, "completed") \/ JobBecomes(j, "retryable")
        /\ UNCHANGED redelivered \/ Again
  BY DEF WorkJob
<1>2. j \in Jobs /\ j.args \in Reminders /\ j.args.round \in DOMAIN rows
  BY DEF RoundsInv, QueueOK, Jobs
<1>3. RowsOK' /\ RowsForward /\ Grows
  BY SameRows DEF RoundsInv, WorkJob
<1>4. QueueOK'
  BY <1>1, <1>3, JobMovedWell DEF RoundsInv, WorkJob
<1> DEFINE x == [type |-> "remind", args |-> j.args]
<1>5. x \in Message /\ x.type = "remind" /\ x.args = j.args
  BY <1>2 DEF Message, Events
<1>6. msgs' \subseteq msgs \cup {x}
  BY <1>1
<1> HIDE DEF x
<1>7. GoodMessage(x)' /\ Asks(x)
  BY <1>2, <1>3, <1>5 DEF GoodMessage, Commands, Asks, Grows
<1>8. Delivered({x}, {})
  BY <1>1, <1>6, RedeliveriesAssumption
     DEF RoundsInv, InFlight, RedeliveriesBounded, Again, Delivered, WorkJob
<1> DEFINE out == {x}
<1>9. out \in SUBSET Message /\ \A m \in out : GoodMessage(m)' /\ Asks(m)
  BY <1>5, <1>7
<1>10. Delivered(out, {})
  BY <1>8
<1> HIDE DEF out
<1>11. InFlight' /\ ListAsked
  BY <1>3, <1>9, <1>10, FlightStep DEF RoundsInv
<1> QED BY <1>3, <1>4, <1>11, Together

LEMMA RemindKeeps ==
  ASSUME RoundsInv, UNCHANGED grouping, Remind
  PROVE  Kept
<1>1. PICK m \in Of("remind") : \/ Handle(m, {})
                                \/ Handle(m, {[type |-> "told", round |-> m.args.round,
                                               start |-> m.args.start, users |-> Told(m)]})
  BY DEF Remind
<1>2. /\ m \in msgs /\ m \in Message /\ m.type = "remind" /\ m.args.round \in DOMAIN rows
  BY CallFacts DEF RoundsInv, GoodMessage
<1>3. m.args.round \in Rounds /\ m.args.start \in Hours
  BY <1>2, MessageFacts DEF Reminders
<1>4. RowsOK' /\ RowsForward /\ Grows
  BY SameRows DEF RoundsInv, Remind
<1>5. Told(m) \subseteq Users \cup {Nobody}
  <2>1. rows[m.args.round].list \in Seq(Entries)
    BY <1>2 DEF RoundsInv, RowsOK, GoodLists
  <2> QED BY <2>1, ListedAreUsers DEF Told
<1>6. PICK x \in Message : x = [type |-> "told", round |-> m.args.round,
                               start |-> m.args.start, users |-> Told(m)]
  BY <1>3, <1>5 DEF Message, Events
<1>7. GoodMessage(x)' /\ Asks(x)
  BY <1>6 DEF GoodMessage, Commands, Asks, Told
<1>8. Handle(m, {x}) \/ Handle(m, {})
  BY <1>1, <1>6
<1>9. InFlight' /\ ListAsked
  BY <1>2, <1>4, <1>7, <1>8, HandledOne, DoneWithNothing DEF RoundsInv
<1>10. QueueOK'
  BY <1>4, SameQueue DEF RoundsInv, Remind
<1> QED BY <1>4, <1>9, <1>10, Together

\* Every step of the lifecycle is one of these.
LEMMA LifecycleKeeps ==
  ASSUME RoundsInv, UNCHANGED grouping, LifecycleNext
  PROVE  Kept
<1>1. CASE Tick
  BY <1>1, TickKeeps
<1>2. CASE Create
  BY <1>2, CreateKeeps
<1>3. CASE Store
  BY <1>3, StoreKeeps
<1>4. CASE Announce
  BY <1>4, AnnounceKeeps
<1>5. CASE StoreMessageId
  BY <1>5, StoreMessageIdKeeps
<1>6. CASE StoreEventId
  BY <1>6, StoreEventIdKeeps
<1>7. CASE HandleDiscordMessageIDUpdated
  BY <1>7, CancelForScheduleKeeps, InsertReminderKeeps DEF HandleDiscordMessageIDUpdated
<1>8. CASE ValidateEdit
  BY <1>8, ValidateEditKeeps
<1>9. CASE HandleRoundUpdateValidated
  BY <1>9, ReadForEditKeeps, WriteEditKeeps DEF HandleRoundUpdateValidated
<1>10. CASE HandleRoundScheduleUpdate
  BY <1>10, CancelForRescheduleKeeps, InsertRescheduledKeeps DEF HandleRoundScheduleUpdate
<1>11. CASE RequestDeletion
  BY <1>11, RequestDeletionKeeps
<1>12. CASE HandleRoundDeleteAuthorized
  BY <1>12, MarkDeletedKeeps, CancelForDeletionKeeps DEF HandleRoundDeleteAuthorized
<1>13. CASE Start
  BY <1>13, StartKeeps
<1>14. CASE Answer
  BY <1>14, AnswerKeeps
<1>15. CASE RunJob
  BY <1>15, FetchJobKeeps, WorkJobKeeps DEF RunJob
<1>16. CASE Remind
  BY <1>16, RemindKeeps
<1> QED BY <1>1, <1>2, <1>3, <1>4, <1>5, <1>6, <1>7, <1>8, <1>9, <1>10, <1>11, <1>12, <1>13,
           <1>14, <1>15, <1>16 DEF LifecycleNext
-----------------------------------------------------------------------------
Quiet == UNCHANGED <<commands, minted, time, queue, grouping>>

\* A card's message keeps what it says when it is passed on.
LEMMA UploadPassedOn ==
  ASSUME NEW m \in Message, m.type \in {"upload", "url", "parse", "parsed"},
         NEW status \in {"parse", "parsed"}
  PROVE  /\ Upload(m, status) \in Message /\ Upload(m, status).type = status
         /\ Upload(m, status).round = m.round /\ Upload(m, status).import = m.import
         /\ Upload(m, status).card = m.card
  BY MessageShapes DEF Upload, Message, Events

LEMMA FailurePassedOn ==
  ASSUME NEW m, m.import \in Nat
  PROVE  FailImport(m) \in Message /\ GoodMessage(FailImport(m))' /\ Asks(FailImport(m))
  BY DEF FailImport, Message, Events, GoodMessage, Commands, Asks

LEMMA ReadForImportKeeps ==
  ASSUME RoundsInv, Quiet, UNCHANGED rows, NEW type \in {"upload", "url"}, NEW m \in Of(type),
         ReadForImportJob(m)
  PROVE  Kept
<1>1. m \in msgs /\ m \in Message /\ GoodMessage(m) /\ m.type = type
  BY CallFacts DEF RoundsInv
<1>2. RowsOK' /\ RowsForward /\ Grows
  BY SameRows DEF RoundsInv, Quiet, table
<1>3. ASSUME Found(m.round), Open([msg |-> m, seen |-> rows[m.round]])
      PROVE  InFlight' /\ ListAsked
  <2>1. GoodTransaction([msg |-> m, seen |-> rows[m.round]])
    BY <1>1, <1>3, Begun DEF RoundsInv, RowsOK, Found, WithRow
  <2>2. PICK t : t = [msg |-> m, seen |-> rows[m.round]]
    OBVIOUS
  <2> QED BY <1>2, <1>3, <2>1, <2>2, OpenedWell DEF RoundsInv
<1>4. ASSUME Handle(m, {FailImport(m)})
      PROVE  InFlight' /\ ListAsked
  BY <1>1, <1>2, <1>4, MessageFacts, FailurePassedOn, HandledOne DEF RoundsInv
<1>5. InFlight' /\ ListAsked
  BY <1>3, <1>4 DEF ReadForImportJob
<1>6. QueueOK'
  BY <1>2, SameQueue DEF RoundsInv, Quiet
<1> QED BY <1>2, <1>5, <1>6, Together DEF Quiet

LEMMA WriteImportKeeps ==
  ASSUME RoundsInv, Quiet, NEW type \in {"upload", "url"}, NEW t \in OpenFor(type),
         WriteImportJob(t)
  PROVE  Kept
<1>1. /\ t \in open /\ t.msg \in Message /\ GoodMessage(t.msg) /\ t.msg.type = type
      /\ t.seen \in Row /\ t.msg.round \in DOMAIN rows
  BY CallFacts DEF RoundsInv, GoodTransaction, WithRow
<1>2. rows[t.msg.round] \in Row /\ rows[t.msg.round].list \in GoodLists
  BY <1>1 DEF RoundsInv, RowsOK
<1>3. [t.seen EXCEPT !.import = "pending"] \in Row
  BY <1>1, CopyFacts
<1>4. PICK row \in Row : row = Written(rows[t.msg.round], [t.seen EXCEPT !.import = "pending"])
  BY <1>2, <1>3, RowFacts
<1>5. row.list = rows[t.msg.round].list /\ Forward(rows[t.msg.round], row)
  BY <1>2, <1>3, <1>4, RowFacts
<1>6. rows' = [rows EXCEPT ![t.msg.round] = row]
  BY <1>4 DEF WriteImportJob
<1>7. RowsOK' /\ RowsForward /\ Grows
  BY <1>1, <1>2, <1>5, <1>6, RowWritten DEF RoundsInv, Quiet
<1>8. PICK x \in Message : x = Upload(t.msg, "parse")
  BY <1>1, UploadPassedOn
<1>9. /\ x.type = "parse" /\ x.round = t.msg.round
      /\ x.import = t.msg.import /\ x.card = t.msg.card
  BY <1>1, <1>8, UploadPassedOn
<1>10. t.msg \in Imports'
  BY <1>1, <1>7 DEF GoodMessage, Commands, Imports, Grows
<1>11. GoodMessage(x)' /\ Asks(x)
  BY <1>1, <1>7, <1>9, <1>10 DEF GoodMessage, Commands, Asks, Grows
<1>12. InFlight' /\ ListAsked
  BY <1>1, <1>7, <1>8, <1>11, CommittedOne DEF RoundsInv, WriteImportJob
<1>13. QueueOK'
  BY <1>7, SameQueue DEF RoundsInv, Quiet
<1> QED BY <1>7, <1>12, <1>13, Together DEF Quiet

LEMMA UploadedKeeps ==
  ASSUME RoundsInv, Uploaded
  PROVE  Kept
<1>1. Quiet
  BY DEF Uploaded, Quiet
<1>2. CASE \E m \in Of("upload") : ReadForImportJob(m) /\ UNCHANGED rows
  BY <1>1, <1>2, ReadForImportKeeps
<1>3. CASE \E t \in OpenFor("upload") : WriteImportJob(t)
  BY <1>1, <1>3, WriteImportKeeps
<1> QED BY <1>2, <1>3 DEF Uploaded

LEMMA URLRequestedKeeps ==
  ASSUME RoundsInv, URLRequested
  PROVE  Kept
<1>1. Quiet
  BY DEF URLRequested, Quiet
<1>2. CASE \E m \in Of("url") : ReadForImportJob(m) /\ UNCHANGED rows
  BY <1>1, <1>2, ReadForImportKeeps
<1>3. CASE \E t \in OpenFor("url") : WriteImportJob(t)
  BY <1>1, <1>3, WriteImportKeeps
<1>4. ASSUME NEW t \in OpenFor("url"), Commit(t, {FailImport(t.msg)}), UNCHANGED rows
      PROVE  Kept
  <2>1. t \in open /\ t.msg \in Message /\ t.msg.type = "url"
    BY CallFacts DEF RoundsInv
  <2>2. RowsOK' /\ RowsForward /\ Grows
    BY <1>1, <1>4, SameRows DEF RoundsInv, Quiet, table
  <2>3. InFlight' /\ ListAsked
    BY <1>4, <2>1, <2>2, MessageFacts, FailurePassedOn, CommittedOne DEF RoundsInv
  <2>4. QueueOK'
    BY <1>1, <2>2, SameQueue DEF RoundsInv, Quiet
  <2> QED BY <1>1, <2>2, <2>3, <2>4, Together DEF Quiet
<1> QED BY <1>2, <1>3, <1>4 DEF URLRequested

\* Noting the status of an import.
LEMMA StatusWritten ==
  ASSUME RoundsInv, Quiet, NEW r \in DOMAIN rows, NEW status \in ImportStates, SetStatus(r, status)
  PROVE  RowsOK' /\ RowsForward /\ Grows
<1>1. rows[r] \in Row /\ rows[r].list \in GoodLists
  BY DEF RoundsInv, RowsOK
<1>2. PICK row \in Row : row = [rows[r] EXCEPT !.import = status]
  BY <1>1, RowFacts
<1>3. row.list = rows[r].list /\ Forward(rows[r], row)
  BY <1>1, <1>2, RowFacts
<1>4. rows' = [rows EXCEPT ![r] = row]
  BY <1>2 DEF SetStatus
<1> QED BY <1>1, <1>3, <1>4, RowWritten DEF RoundsInv, Quiet

LEMMA StartParsingKeeps ==
  ASSUME RoundsInv, StartParsing
  PROVE  Kept
<1>1. PICK m \in Of("parse") : SetStatus(m.round, "parsing") /\ Open([msg |-> m])
  BY DEF StartParsing
<1>2. m \in Message /\ GoodMessage(m) /\ m.type = "parse" /\ m.round \in DOMAIN rows
  BY CallFacts DEF RoundsInv, GoodMessage
<1>3. Quiet
  BY DEF StartParsing, Quiet
<1>4. RowsOK' /\ RowsForward /\ Grows
  BY <1>1, <1>2, <1>3, StatusWritten DEF ImportStates
<1>5. GoodTransaction([msg |-> m])
  BY <1>2, Begun DEF WithoutCopy
<1>6. InFlight' /\ ListAsked
  BY <1>1, <1>4, <1>5, OpenedWell DEF RoundsInv
<1>7. QueueOK'
  BY <1>3, <1>4, SameQueue DEF RoundsInv, Quiet
<1> QED BY <1>3, <1>4, <1>6, <1>7, Together DEF Quiet

LEMMA FinishParsingKeeps ==
  ASSUME RoundsInv, FinishParsing
  PROVE  Kept
<1>1. PICK t \in OpenFor("parse") :
        \/ SetStatus(t.msg.round, "parsed") /\ Commit(t, {Upload(t.msg, "parsed")})
        \/ Commit(t, {FailImport(t.msg)}) /\ UNCHANGED rows
  BY DEF FinishParsing, ParsingFailure
<1>2. /\ t \in open /\ t.msg \in Message /\ GoodMessage(t.msg) /\ t.msg.type = "parse"
      /\ t.msg.round \in DOMAIN rows
  BY CallFacts DEF RoundsInv, GoodMessage
<1>3. Quiet
  BY DEF FinishParsing, Quiet
<1>4. RowsOK' /\ RowsForward /\ Grows
  <2>1. UNCHANGED rows => RowsOK' /\ RowsForward /\ Grows
    BY <1>3, SameRows DEF RoundsInv, Quiet, table
  <2> QED BY <1>1, <1>2, <1>3, <2>1, StatusWritten DEF ImportStates
<1>5. PICK x \in Message : x = Upload(t.msg, "parsed")
  BY <1>2, UploadPassedOn
<1>6. /\ x.type = "parsed" /\ x.round = t.msg.round
      /\ x.import = t.msg.import /\ x.card = t.msg.card
  BY <1>2, <1>5, UploadPassedOn
<1>7. GoodMessage(x)
  BY <1>2, <1>6 DEF GoodMessage, Commands
<1>8. GoodMessage(x)' /\ Asks(x)
  BY <1>4, <1>6, <1>7, GrowthKeepsGood DEF Asks
<1>9. ASSUME Commit(t, {FailImport(t.msg)})
      PROVE  InFlight' /\ ListAsked
  BY <1>2, <1>4, <1>9, MessageFacts, FailurePassedOn, CommittedOne DEF RoundsInv
<1>10. ASSUME Commit(t, {x})
       PROVE  InFlight' /\ ListAsked
  BY <1>2, <1>4, <1>8, <1>10, CommittedOne DEF RoundsInv
<1>11. InFlight' /\ ListAsked
  BY <1>1, <1>5, <1>9, <1>10
<1>12. QueueOK'
  BY <1>3, <1>4, SameQueue DEF RoundsInv, Quiet
<1> QED BY <1>3, <1>4, <1>11, <1>12, Together DEF Quiet
LEMMA ImportsHaveCards ==
  ASSUME commands \in Scenarios, NEW c \in Imports
  PROVE  c \in Message /\ c.round \in Rounds /\ c.import \in Nat /\ c.card \in Cards
<1>1. c \in Message /\ c.type \in {"upload", "url"}
  BY ScenariosAssumption DEF Imports, Message
<1> QED BY <1>1, MessageFacts

LEMMA NormalizeKeeps ==
  ASSUME RoundsInv, NormalizeScorecard
  PROVE  Kept
<1>1. PICK m \in Of("parsed") :
        Handle(m, {[type |-> "normalized", round |-> m.round, import |-> m.import,
                    doubles |-> IsDoubles(m.card), lines |-> Normalized(m.card)]})
  BY DEF NormalizeScorecard
<1>2. m \in msgs /\ m \in Message /\ GoodMessage(m) /\ m.type = "parsed" /\ m.round \in DOMAIN rows
  BY CallFacts DEF RoundsInv, GoodMessage
<1>3. m.round \in Rounds /\ m.import \in Nat /\ m.card \in Cards
  BY <1>2, MessageFacts
<1>4. UNCHANGED <<commands, table, time, queue, grouping>>
  BY DEF NormalizeScorecard
<1>5. RowsOK' /\ RowsForward /\ Grows
  BY <1>4, SameRows DEF RoundsInv
<1> DEFINE x == [type |-> "normalized", round |-> m.round, import |-> m.import,
                 doubles |-> IsDoubles(m.card), lines |-> Normalized(m.card)]
<1>6. Normalized(m.card) \in Seq(Lines)
  <2>1. Normalized(m.card) \in Seq(LinesOn(m.card))
    BY <1>3, NormalizedWell
  <2>2. LinesOn(m.card) \subseteq Lines
    BY DEF LinesOn
  <2> QED BY <2>1, <2>2
<1>7. IsDoubles(m.card) \in BOOLEAN
  BY DEF IsDoubles
<1>8. x \in Message
  BY <1>3, <1>6, <1>7 DEF Message, Events
<1>9. PICK c \in Imports : m.round = c.round /\ m.import = c.import /\ m.card = c.card
  BY <1>2 DEF GoodMessage
<1>10. GoodMessage(x) /\ Asks(x)
  BY <1>2, <1>9 DEF GoodMessage, Commands, Asks
<1>11. Handle(m, {x})
  BY <1>1
<1> HIDE DEF x
<1>12. GoodMessage(x)'
  BY <1>5, <1>10, GrowthKeepsGood
<1>13. InFlight' /\ ListAsked
  BY <1>2, <1>5, <1>8, <1>10, <1>11, <1>12, HandledOne DEF RoundsInv
<1>14. QueueOK'
  BY <1>4, <1>5, SameQueue DEF RoundsInv
<1> QED BY <1>4, <1>5, <1>13, <1>14, Together

\* What becomes of a normalized card.
LEMMA IngestedWell ==
  ASSUME RoundsInv, Grows, NEW m \in Message, GoodMessage(m), m.type = "normalized"
  PROVE  \E x \in Message : Ingested(m) = {x} /\ GoodMessage(x)' /\ Asks(x)
<1>1. m.round \in Rounds /\ m.import \in Nat /\ m.round \in DOMAIN rows
  BY MessageFacts DEF GoodMessage
<1>2. CASE ScoresOf(m) = <<>>
  BY <1>1, <1>2, FailurePassedOn DEF Ingested
<1>3. CASE ScoresOf(m) # <<>>
  <2>1. PICK c \in Imports : m.lines = Normalized(c.card)
    BY DEF GoodMessage
  <2>2. c.card \in Cards
    BY ImportsHaveCards DEF RoundsInv
  <2>3. PICK scores \in Seq(Proper) : scores = ScoresOf(m)
    BY <2>1, <2>2, ScoresWell
  <2>4. scores \in Seq(Matches)
    BY DEF Proper
  <2> DEFINE x == [type |-> "completed", round |-> m.round, import |-> m.import, scores |-> scores]
  <2>5. x \in Message
    BY <1>1, <2>4 DEF Message, Events
  <2>6. \A i \in DOMAIN scores : scores[i].user = Nobody \/ OnACard(scores[i].user, scores[i].score)
    BY DEF Proper
  <2>7. GoodMessage(x) /\ Asks(x)
    BY <1>1, <2>6 DEF GoodMessage, Commands, Asks
  <2>8. Ingested(m) = {x}
    BY <1>3, <2>3 DEF Ingested
  <2> HIDE DEF x
  <2> QED BY <2>5, <2>7, <2>8, GrowthKeepsGood
<1> QED BY <1>2, <1>3

LEMMA IngestKeeps ==
  ASSUME RoundsInv, Ingest
  PROVE  Kept
<1>1. PICK m \in Of("normalized") : Open([msg |-> m]) \/ Handle(m, Ingested(m))
  BY DEF Ingest
<1>2. m \in msgs /\ m \in Message /\ GoodMessage(m) /\ m.type = "normalized"
  BY CallFacts DEF RoundsInv
<1>3. UNCHANGED <<commands, table, time, queue, grouping>>
  BY DEF Ingest
<1>4. RowsOK' /\ RowsForward /\ Grows
  BY <1>3, SameRows DEF RoundsInv
<1>5. GoodTransaction([msg |-> m])
  BY <1>2, Begun DEF WithoutCopy
<1>6. PICK x \in Message : Ingested(m) = {x} /\ GoodMessage(x)' /\ Asks(x)
  BY <1>2, <1>4, IngestedWell
<1>7. InFlight' /\ ListAsked
  BY <1>1, <1>2, <1>4, <1>5, <1>6, HandledOne, OpenedWell DEF RoundsInv
<1>8. QueueOK'
  BY <1>3, <1>4, SameQueue DEF RoundsInv
<1> QED BY <1>3, <1>4, <1>7, <1>8, Together

LEMMA CreateRoundGroupsKeeps ==
  ASSUME RoundsInv, CreateRoundGroups
  PROVE  Kept
<1>1. PICK t \in OpenFor("normalized") :
        /\ groups' = [groups EXCEPT ![t.msg.round] =
                        @ \o [i \in DOMAIN t.msg.lines |-> t.msg.lines[i].name]]
        /\ Commit(t, Ingested(t.msg))
        /\ overtaken' \subseteq overtaken \cup {t.msg.round}
  BY DEF CreateRoundGroups
<1>2. t \in open /\ t.msg \in Message /\ GoodMessage(t.msg) /\ t.msg.type = "normalized"
  BY CallFacts DEF RoundsInv
<1>3. UNCHANGED <<commands, table, time, queue>>
  BY DEF CreateRoundGroups
<1>4. RowsOK' /\ RowsForward /\ Grows
  BY <1>3, SameRows DEF RoundsInv
<1>5. PICK x \in Message : Ingested(t.msg) = {x} /\ GoodMessage(x)' /\ Asks(x)
  BY <1>2, <1>4, IngestedWell
<1>6. InFlight' /\ ListAsked
  BY <1>1, <1>2, <1>4, <1>5, CommittedOne DEF RoundsInv
<1>7. QueueOK'
  BY <1>3, <1>4, SameQueue DEF RoundsInv
<1>8. GroupsOK'
  <2>1. t.msg.lines \in Seq(Lines) /\ t.msg.round \in Rounds
    BY <1>2, MessageFacts
  <2> DEFINE names == [i \in DOMAIN t.msg.lines |-> t.msg.lines[i].name]
  <2>2. \A i \in DOMAIN t.msg.lines : t.msg.lines[i] \in Lines
    BY <2>1
  <2>3. \A i \in DOMAIN t.msg.lines : t.msg.lines[i].name \in Names
    BY <2>2 DEF Lines
  <2>4. DOMAIN t.msg.lines = 1 .. Len(t.msg.lines) /\ Len(t.msg.lines) \in Nat
    BY <2>1
  <2>5. names \in [1 .. Len(t.msg.lines) -> Names]
    BY <2>3, <2>4
  <2>6. names \in Seq(Names)
    BY <2>4, <2>5
  <2>7. groups' = [groups EXCEPT ![t.msg.round] = @ \o names]
    BY <1>1
  <2> HIDE DEF names
  <2>8. groups[t.msg.round] \o names \in Seq(Names)
    BY <2>1, <2>6 DEF RoundsInv, GroupsOK
  <2> QED BY <1>1, <2>1, <2>7, <2>8 DEF RoundsInv, GroupsOK
<1> QED BY <1>4, <1>6, <1>7, <1>8 DEF Kept, RoundsInv, Grows

LEMMA ReadForApplyKeeps ==
  ASSUME RoundsInv, ReadForApply
  PROVE  Kept
<1>1. PICK m \in Of("completed") : Open([msg |-> m, seen |-> rows[m.round].list])
  BY DEF ReadForApply
<1>2. m \in Message /\ GoodMessage(m) /\ m.type = "completed" /\ m.round \in DOMAIN rows
  BY CallFacts DEF RoundsInv, GoodMessage
<1>3. UNCHANGED <<commands, table, time, queue, grouping>>
  BY DEF ReadForApply
<1>4. RowsOK' /\ RowsForward /\ Grows
  BY <1>3, SameRows DEF RoundsInv
<1>5. PICK t : t = [msg |-> m, seen |-> rows[m.round].list]
  OBVIOUS
<1>6. GoodTransaction(t)
  BY <1>2, <1>5, Begun DEF WithList, RoundsInv, RowsOK
<1>7. InFlight' /\ ListAsked
  BY <1>1, <1>4, <1>5, <1>6, OpenedWell DEF RoundsInv
<1>8. QueueOK'
  BY <1>3, <1>4, SameQueue DEF RoundsInv
<1> QED BY <1>3, <1>4, <1>7, <1>8, Together

LEMMA WriteApplyKeeps ==
  ASSUME RoundsInv, WriteApply
  PROVE  Kept
<1>1. PICK t \in OpenFor("completed") :
        LET list == FoldLeft(WithScore, t.seen, t.msg.scores)
        IN  \/ Commit(t, {FailImport(t.msg)}) /\ UNCHANGED rows
            \/ /\ rows' = [rows EXCEPT ![t.msg.round].list = list,
                             ![t.msg.round].teams = IF TeamsOf(list) = {} THEN @ ELSE TeamsOf(list)]
               /\ Commit(t, {[type |-> "allScores", round |-> t.msg.round, import |-> t.msg.import]})
  BY DEF WriteApply
<1>2. /\ t \in open /\ t.msg \in Message /\ GoodMessage(t.msg) /\ t.msg.type = "completed"
      /\ t.seen \in GoodLists /\ t.msg.round \in DOMAIN rows
  BY CallFacts DEF RoundsInv, GoodMessage, GoodTransaction, WithList
<1>3. t.msg.round \in Rounds /\ t.msg.import \in Nat /\ t.msg.scores \in Seq(Matches)
  BY <1>2, MessageFacts
<1>4. Quiet
  BY DEF WriteApply, Quiet
<1>5. PICK list \in GoodLists : list = FoldLeft(WithScore, t.seen, t.msg.scores)
  <2>1. DOMAIN t.msg.scores = 1 .. Len(t.msg.scores) /\ Len(t.msg.scores) \in Nat
    BY <1>3
  <2>2. \A i \in DOMAIN t.msg.scores :
          /\ t.msg.scores[i] \in Matches
          /\ t.msg.scores[i].user = Nobody \/ OnACard(t.msg.scores[i].user, t.msg.scores[i].score)
    BY <1>2, <1>3 DEF GoodMessage
  <2>3. \A l \in GoodLists : \A i \in 1 .. Len(t.msg.scores) : WithScore(l, t.msg.scores[i]) \in GoodLists
    BY <2>1, <2>2, WithScoreWell
  <2>4. FoldLeft(WithScore, t.seen, t.msg.scores) \in GoodLists
    BY <1>2, <2>1, <2>3, ScoresApplied
  <2> QED BY <2>4
<1>6. \/ Commit(t, {FailImport(t.msg)}) /\ UNCHANGED rows
      \/ /\ rows' = [rows EXCEPT ![t.msg.round].list = list,
                       ![t.msg.round].teams = IF TeamsOf(list) = {} THEN @ ELSE TeamsOf(list)]
         /\ Commit(t, {[type |-> "allScores", round |-> t.msg.round, import |-> t.msg.import]})
  BY <1>1, <1>5
<1>7. ASSUME rows' = [rows EXCEPT ![t.msg.round].list = list,
                        ![t.msg.round].teams = IF TeamsOf(list) = {} THEN @ ELSE TeamsOf(list)]
      PROVE  RowsOK' /\ RowsForward /\ Grows
  <2>1. rows[t.msg.round] \in Row /\ list \in Seq(Entries)
    BY <1>2 DEF RoundsInv, RowsOK, GoodLists
  <2>2. TeamsOf(list) \in SUBSET Nat
    <3>1. \A i \in DOMAIN list : list[i] \in Entries
      BY <2>1
    <3> QED BY <3>1 DEF TeamsOf, Entries
  <2>3. PICK teams \in SUBSET Nat :
          teams = IF TeamsOf(list) = {} THEN rows[t.msg.round].teams ELSE TeamsOf(list)
    BY <2>1, <2>2 DEF Row
  <2>4. PICK row \in Row : row = [rows[t.msg.round] EXCEPT !.list = list, !.teams = teams]
    BY <2>1, RowFacts
  <2>5. row.list = list /\ Forward(rows[t.msg.round], row)
    BY <2>1, <2>4 DEF Row, Forward
  <2>6. rows' = [rows EXCEPT ![t.msg.round] = row]
    BY <1>2, <1>7, <2>3, <2>4 DEF RoundsInv, RowsOK
  <2> QED BY <1>2, <1>4, <2>5, <2>6, RowWritten DEF RoundsInv, Quiet
<1>8. RowsOK' /\ RowsForward /\ Grows
  <2>1. UNCHANGED rows => RowsOK' /\ RowsForward /\ Grows
    BY <1>4, SameRows DEF RoundsInv, Quiet, table
  <2> QED BY <1>6, <1>7, <2>1
<1> DEFINE x == [type |-> "allScores", round |-> t.msg.round, import |-> t.msg.import]
<1>9. x \in Message /\ GoodMessage(x)' /\ Asks(x)
  BY <1>3 DEF Message, Events, GoodMessage, Commands, Asks
<1>10. Commit(t, {x}) \/ Commit(t, {FailImport(t.msg)})
  BY <1>6
<1> HIDE DEF x
<1>11. InFlight' /\ ListAsked
  BY <1>2, <1>3, <1>8, <1>9, <1>10, FailurePassedOn, CommittedOne DEF RoundsInv
<1>12. QueueOK'
  BY <1>4, <1>8, SameQueue DEF RoundsInv, Quiet
<1> QED BY <1>4, <1>8, <1>11, <1>12, Together DEF Quiet

-----------------------------------------------------------------------------
LEMMA Starts ==
  ASSUME Init
  PROVE  RoundsInv
<1> USE DEF Init, LifecycleInit
<1>1. RowsOK
  <2>1. ASSUME NEW r \in DOMAIN rows PROVE rows[r].list \in GoodLists
    <3>1. rows[r] \in Row
      BY <2>1, InitialRowsAssumption
    <3>2. rows[r].list \in Seq(Entries)
      BY <3>1 DEF Row
    <3>3. /\ Once(rows[r].list)
          /\ \A i \in DOMAIN rows[r].list : rows[r].list[i].score = NoScore
      BY <2>1, InitialRowsAssumption DEF Once
    <3> QED BY <3>2, <3>3 DEF GoodLists
  <2> QED BY <2>1, InitialRowsAssumption DEF RowsOK
<1>2. QueueOK
  BY ClockAssumption, InitialJobsAssumption DEF QueueOK, Hours
<1>3. GroupsOK
  <2>1. <<>> \in Seq(Names)
    OBVIOUS
  <2> QED BY <2>1 DEF GroupsOK
<1>4. InFlight
  <2>1. msgs \subseteq Requests
    BY ScenariosAssumption
  <2>2. \A m \in Requests : m.type \in Commands
    BY DEF Requests, LifecycleRequests, Commands
  <2>3. \A m \in msgs : GoodMessage(m)
    BY <2>1, <2>2 DEF GoodMessage, Commands
  <2> QED BY <2>1, <2>3, RedeliveriesAssumption DEF InFlight, Message, RedeliveriesBounded
<1> QED BY <1>1, <1>2, <1>3, <1>4 DEF RoundsInv

LEMMA StepKeeps ==
  ASSUME RoundsInv, [Next]_vars
  PROVE  Kept
<1>1. CASE LifecycleNext /\ UNCHANGED grouping
  BY <1>1, LifecycleKeeps
<1>2. CASE Uploaded \/ URLRequested
  BY <1>2, UploadedKeeps, URLRequestedKeeps
<1>3. CASE HandleParseScorecardRequest
  BY <1>3, StartParsingKeeps, FinishParsingKeeps DEF HandleParseScorecardRequest
<1>4. CASE NormalizeScorecard
  BY <1>4, NormalizeKeeps
<1>5. CASE HandleScorecardNormalized
  BY <1>5, IngestKeeps, CreateRoundGroupsKeeps DEF HandleScorecardNormalized
<1>6. CASE HandleImportCompleted
  BY <1>6, ReadForApplyKeeps, WriteApplyKeeps DEF HandleImportCompleted
<1>7. CASE UNCHANGED vars
  <2>1. RowsOK' /\ RowsForward /\ Grows
    BY <1>7, SameRows DEF vars, RoundsInv
  <2>2. InFlight' /\ ListAsked
    BY <1>7, <2>1, SameFlight DEF vars, RoundsInv
  <2>3. QueueOK'
    BY <1>7, <2>1, SameQueue DEF vars, RoundsInv
  <2> QED BY <1>7, <2>1, <2>2, <2>3, Together DEF vars
<1> QED BY <1>1, <1>2, <1>3, <1>4, <1>5, <1>6, <1>7 DEF Next

\* RoundsInv is inductive.
LEMMA RoundsInvariant == Spec => []RoundsInv
<1>1. RoundsInv /\ [Next]_vars => RoundsInv'
  BY StepKeeps DEF Kept
<1> QED BY <1>1, Starts, PTL DEF Spec

\* Every row, job and message is what the handlers think it is.
THEOREM RoundsTypeCorrect == Spec => []TypeOK
<1>1. RoundsInv => TypeOK
  <2>1. RoundsInv => LifecycleTypeOK
    BY DEF RoundsInv, RowsOK, QueueOK, InFlight, RedeliveriesBounded, LifecycleTypeOK
  <2>2. RoundsInv => \A r \in Rounds : ToSet(groups[r]) \subseteq Names
    <3> SUFFICES ASSUME RoundsInv, NEW r \in Rounds PROVE ToSet(groups[r]) \subseteq Names
      OBVIOUS
    <3>1. groups[r] \in Seq(Names)
      BY DEF RoundsInv, GroupsOK
    <3> QED BY <3>1 DEF ToSet
  <2> QED BY <2>1, <2>2 DEF TypeOK, RoundsInv, GroupsOK
<1> QED BY <1>1, RoundsInvariant, PTL

\* No copy of a row that a handler writes back, no upload and no redelivery takes a
\* round back to UPCOMING or makes it forget its announcement.
THEOREM RoundsNeverGoBack == Spec => RoundsMoveForward
<1>1. RoundsInv /\ [Next]_vars => RowsForward
  BY StepKeeps DEF Kept
<1> QED BY <1>1, RoundsInvariant, PTL DEF Spec, RoundsMoveForward, RowsForward, Forward

\* Reminders go to those who are coming when they are sent.
THEOREM RemindersGoToTheList == Spec => RemindersAskTheList
<1>1. RoundsInv /\ [Next]_vars => ListAsked
  BY StepKeeps DEF Kept
<1> QED BY <1>1, RoundsInvariant, PTL DEF Spec, RemindersAskTheList, ListAsked, Asks

\* Nobody is on a list twice, however often a card is applied.
THEOREM NobodyIsListedTwice == Spec => []UsersOnce
<1>1. RoundsInv => UsersOnce
  BY DEF RoundsInv, RowsOK, GoodLists, Once, UsersOnce
<1> QED BY <1>1, RoundsInvariant, PTL

\* Every score on a list was on a card beside a name of the user, and a name is a
\* stranger's only if no member of the guild answers to it.
THEOREM ScoresComeFromCards == Spec => []ImportedScoresAreOnACard
<1>1. RoundsInv => ImportedScoresAreOnACard
  <2> SUFFICES ASSUME RoundsInv, NEW r \in DOMAIN rows, NEW i \in DOMAIN rows[r].list,
                      rows[r].list[i].score # NoScore
               PROVE  \E c \in Imports : \E k \in DOMAIN c.card : \E n \in ToSet(c.card[k].names) :
                        LET e == rows[r].list[i] IN
                        c.card[k].total = e.score /\
                        (\/ e.user \in {ByDisplayName[n], ByUsername[n]}
                         \/ e.user = Globally[n] /\ {ByDisplayName[n], ByUsername[n]} = {Nobody})
    BY DEF ImportedScoresAreOnACard
  <2>1. OnACard(rows[r].list[i].user, rows[r].list[i].score)
    BY DEF RoundsInv, RowsOK, GoodLists
  <2>2. PICK c \in Imports : \E k \in DOMAIN c.card : \E n \in ToSet(c.card[k].names) :
          c.card[k].total = rows[r].list[i].score /\ rows[r].list[i].user = ResolveUserID(n)
    BY <2>1 DEF OnACard
  <2>3. PICK k \in DOMAIN c.card : \E n \in ToSet(c.card[k].names) :
          c.card[k].total = rows[r].list[i].score /\ rows[r].list[i].user = ResolveUserID(n)
    BY <2>2
  <2>4. PICK n \in ToSet(c.card[k].names) :
          c.card[k].total = rows[r].list[i].score /\ rows[r].list[i].user = ResolveUserID(n)
    BY <2>3
  <2>5. \/ ResolveUserID(n) \in {ByDisplayName[n], ByUsername[n]}
        \/ ResolveUserID(n) = Globally[n] /\ {ByDisplayName[n], ByUsername[n]} = {Nobody}
    BY DEF ResolveUserID
  <2> QED BY <2>4, <2>5
<1> QED BY <1>1, RoundsInvariant, PTL
-----------------------------------------------------------------------------
\* Unless another handler was half-way when groups were made: half-way handlers see a
\* round without groups, and the groups are those of one card.
GroupsInv ==
  \A r \in Rounds \ overtaken :
    /\ \A t \in OpenFor("normalized") : t.msg.round = r => groups[r] = <<>>
    /\ groups[r] = <<>> \/ \E c \in Imports : c.round = r /\ groups[r] = NamesOn(c.card)

\* Only the handlers of normalized cards can disturb that.
LEMMA GroupsUntouched ==
  ASSUME GroupsInv, Grows, UNCHANGED grouping,
         \A t \in open' : t \in open \/ t.msg.type # "normalized"
  PROVE  GroupsInv'
  BY GrowthKeeps DEF GroupsInv, Grows, OpenFor, grouping

\* Which handlers a step may leave half-way.
LEMMA HandsOpen ==
  /\ \A m, out : Handle(m, out) => open' \subseteq open
  /\ \A t, out : Commit(t, out) => open' \subseteq open
  /\ \A t : Abort(t) => open' \subseteq open
  /\ \A t : Open(t) => open' \subseteq open \cup {t}
  BY DEF Handle, Commit, Abort, Open

OthersOpen == \A t \in open' : t \in open \/ t.msg.type # "normalized"

LEMMA OthersOpened ==
  /\ \A m, out : Handle(m, out) => OthersOpen
  /\ \A t, out : Commit(t, out) => OthersOpen
  /\ \A t : Abort(t) => OthersOpen
  /\ \A m : Open([msg |-> m]) /\ m.type # "normalized" => OthersOpen
  /\ \A m, seen : Open([msg |-> m, seen |-> seen]) /\ m.type # "normalized" => OthersOpen
  BY HandsOpen DEF OthersOpen

LEMMA LifecycleOpens ==
  ASSUME LifecycleNext
  PROVE  OthersOpen
<1> USE DEF Of, OpenFor
<1>1. CASE Tick \/ RunJob
  BY <1>1 DEF Tick, RunJob, FetchJob, WorkJob, delivery, OthersOpen
<1>2. CASE Create \/ Store \/ Announce \/ StoreMessageId \/ StoreEventId
  BY <1>2, OthersOpened DEF Create, Store, Announce, StoreMessageId, StoreEventId
<1>3. CASE HandleDiscordMessageIDUpdated
  BY <1>3, OthersOpened
     DEF HandleDiscordMessageIDUpdated, CancelForSchedule, InsertReminder, InsertFails
<1>4. CASE ValidateEdit \/ HandleRoundUpdateValidated
  BY <1>4, OthersOpened DEF ValidateEdit, HandleRoundUpdateValidated, ReadForEdit, WriteEdit
<1>5. CASE HandleRoundScheduleUpdate
  BY <1>5, OthersOpened
     DEF HandleRoundScheduleUpdate, CancelForReschedule, InsertRescheduled, InsertFails
<1>6. CASE RequestDeletion \/ HandleRoundDeleteAuthorized
  BY <1>6, OthersOpened
     DEF RequestDeletion, HandleRoundDeleteAuthorized, MarkDeleted, CancelForDeletion
<1>7. CASE Start \/ Answer \/ Remind
  BY <1>7, OthersOpened DEF Start, Answer, Remind
<1> QED BY <1>1, <1>2, <1>3, <1>4, <1>5, <1>6, <1>7 DEF LifecycleNext

LEMMA ImportOpens ==
  ASSUME Uploaded \/ URLRequested \/ HandleParseScorecardRequest \/ NormalizeScorecard
         \/ HandleImportCompleted
  PROVE  OthersOpen /\ UNCHANGED grouping
<1> USE DEF Of, OpenFor
<1>1. CASE Uploaded \/ URLRequested
  BY <1>1, OthersOpened DEF Uploaded, URLRequested, ReadForImportJob, WriteImportJob
<1>2. CASE HandleParseScorecardRequest
  BY <1>2, OthersOpened DEF HandleParseScorecardRequest, StartParsing, FinishParsing
<1>3. CASE NormalizeScorecard
  BY <1>3, OthersOpened DEF NormalizeScorecard
<1>4. CASE HandleImportCompleted
  BY <1>4, OthersOpened DEF HandleImportCompleted, ReadForApply, WriteApply
<1> QED BY <1>1, <1>2, <1>3, <1>4

LEMMA IngestKeepsGroups ==
  ASSUME GroupsInv, Grows, Ingest
  PROVE  GroupsInv'
<1>1. PICK m \in Of("normalized") : \/ ~ HasGroups(m.round) /\ Open([msg |-> m])
                                    \/ Handle(m, Ingested(m))
  BY DEF Ingest
<1>2. UNCHANGED grouping
  BY DEF Ingest
<1>3. \A t \in open' : t \in open \/ groups[t.msg.round] = <<>>
  BY <1>1, HandsOpen DEF HasGroups
<1> QED BY <1>2, <1>3, GrowthKeeps DEF GroupsInv, Grows, OpenFor, grouping

LEMMA CreateGroupsKeepsGroups ==
  ASSUME RoundsInv, GroupsInv, Grows, CreateRoundGroups
  PROVE  GroupsInv'
<1>1. PICK t \in OpenFor("normalized") :
        /\ groups' = [groups EXCEPT ![t.msg.round] =
                        @ \o [i \in DOMAIN t.msg.lines |-> t.msg.lines[i].name]]
        /\ open' \subseteq open
        /\ overtaken \subseteq overtaken'
        /\ \A u \in OpenFor("normalized")' : u.msg.round = t.msg.round => u.msg.round \in overtaken'
  BY HandsOpen DEF CreateRoundGroups
<1>2. t \in open /\ t.msg \in Message /\ GoodMessage(t.msg) /\ t.msg.type = "normalized"
  BY CallFacts DEF RoundsInv
<1>3. t.msg.round \in Rounds /\ t.msg.lines \in Seq(Lines)
  BY <1>2, MessageFacts
<1> DEFINE names == [i \in DOMAIN t.msg.lines |-> t.msg.lines[i].name]
<1>4. <<>> \o names = names
  <2>1. \A i \in DOMAIN t.msg.lines : t.msg.lines[i] \in Lines
    BY <1>3
  <2>2. \A i \in DOMAIN t.msg.lines : t.msg.lines[i].name \in Names
    BY <2>1 DEF Lines
  <2>3. DOMAIN t.msg.lines = 1 .. Len(t.msg.lines) /\ Len(t.msg.lines) \in Nat
    BY <1>3
  <2>4. names \in [1 .. Len(t.msg.lines) -> Names]
    BY <2>2, <2>3
  <2>5. names \in Seq(Names)
    BY <2>3, <2>4
  <2> HIDE DEF names
  <2> QED BY <2>5
<1>5. PICK c \in Imports : c.round = t.msg.round /\ names = NamesOn(c.card)
  BY <1>2 DEF GoodMessage, NamesOn
<1>6. groups' = [groups EXCEPT ![t.msg.round] = @ \o names]
  BY <1>1
<1> HIDE DEF names
<1> SUFFICES ASSUME NEW r \in Rounds \ overtaken'
             PROVE  /\ \A u \in OpenFor("normalized")' : u.msg.round = r => groups'[r] = <<>>
                    /\ \/ groups'[r] = <<>>
                       \/ \E d \in Imports : d.round = r /\ groups'[r] = NamesOn(d.card)
  BY GrowthKeeps DEF GroupsInv, Grows
<1>7. CASE r = t.msg.round
  <2>1. groups[r] = <<>>
    BY <1>1, <1>7 DEF GroupsInv
  <2>2. groups'[r] = names
    BY <1>4, <1>6, <1>7, <2>1 DEF RoundsInv, GroupsOK
  <2> QED BY <1>1, <1>5, <1>7, <2>2
<1>8. CASE r # t.msg.round
  <2>1. groups'[r] = groups[r]
    BY <1>6, <1>8 DEF RoundsInv, GroupsOK
  <2> QED BY <1>1, <2>1 DEF GroupsInv, OpenFor
<1> QED BY <1>7, <1>8

LEMMA GroupsInvariant == Spec => []GroupsInv
<1>1. Init => GroupsInv
  BY DEF Init, LifecycleInit, GroupsInv, OpenFor
<1>2. RoundsInv /\ GroupsInv /\ [Next]_vars => GroupsInv'
  <2> SUFFICES ASSUME RoundsInv, GroupsInv, [Next]_vars PROVE GroupsInv'
    OBVIOUS
  <2>1. Grows
    BY StepKeeps DEF Kept
  <2>2. CASE LifecycleNext /\ UNCHANGED grouping
    BY <2>1, <2>2, LifecycleOpens, GroupsUntouched DEF OthersOpen
  <2>3. CASE Uploaded \/ URLRequested \/ HandleParseScorecardRequest \/ NormalizeScorecard
             \/ HandleImportCompleted
    BY <2>1, <2>3, ImportOpens, GroupsUntouched DEF OthersOpen
  <2>4. CASE HandleScorecardNormalized
    BY <2>1, <2>4, IngestKeepsGroups, CreateGroupsKeepsGroups DEF HandleScorecardNormalized
  <2>5. CASE UNCHANGED vars
    BY <2>1, <2>5, GroupsUntouched DEF vars, delivery
  <2> QED BY <2>2, <2>3, <2>4, <2>5 DEF Next
<1> QED BY <1>1, <1>2, RoundsInvariant, PTL DEF Spec

\* A round has the groups of one card, once, however many cards are uploaded and however
\* often their messages are delivered, unless a second handler had seen the round without
\* groups when the first one made them.
THEOREM GroupsAreMadeOnce == Spec => []GroupsOnce
<1>1. GroupsInv => GroupsOnce
  BY DEF GroupsInv, GroupsOnce
<1> QED BY <1>1, GroupsInvariant, PTL

\* However often the messages of imports are delivered, users are listed once and, where
\* no two handlers make them at a time, so are groups.
THEOREM ImportsAlwaysCountOnce == Spec => []ImportsCountOnce
BY NobodyIsListedTwice, GroupsAreMadeOnce, PTL DEF ImportsCountOnce

-----------------------------------------------------------------------------
\* A step that deletes no round, schedules nothing and drops no deletion that is
\* being handled leaves no reminder behind.
NothingDeleted == \A r \in DOMAIN rows : rows'[r].state = "DELETED" => rows[r].state = "DELETED"
\* What is unfinished and not spared was so before.
NothingScheduled == \A j \in jobs' :
  \/ j.state = "completed" \/ j.spared
  \/ \E i \in jobs : i.args = j.args /\ i.state # "completed" /\ ~ i.spared
DeletionsKept ==
  /\ failed \subseteq failed'
  /\ \A m \in InHand : m.type = "deleteAuthorized" => m \in InHand'
Undisturbed == NothingDeleted /\ NothingScheduled /\ DeletionsKept

LEMMA UndisturbedKeeps ==
  ASSUME RoundsInv, OnlySparedRemindersOutliveDeletion, Undisturbed
  PROVE  OnlySparedRemindersOutliveDeletion'
<1> SUFFICES ASSUME NEW j \in jobs', rows'[j.args.round].state = "DELETED", j.state # "completed",
                    ~ j.spared, j.args.round \notin failed'
             PROVE  Deleting(j.args.round)'
  BY DEF OnlySparedRemindersOutliveDeletion, Unfinished, JobsOf
<1>0. PICK i \in jobs : i.args = j.args /\ i.state # "completed" /\ ~ i.spared
  BY DEF Undisturbed, NothingScheduled
<1>1. i \in Unfinished(j.args.round) /\ j.args.round \in DOMAIN rows
  BY <1>0 DEF Unfinished, JobsOf, RoundsInv, QueueOK
<1>2. rows[j.args.round].state = "DELETED" /\ j.args.round \notin failed
  BY <1>1 DEF Undisturbed, NothingDeleted, DeletionsKept
<1>3. Deleting(j.args.round)
  BY <1>0, <1>1, <1>2 DEF OnlySparedRemindersOutliveDeletion
<1> QED BY <1>3 DEF Deleting, Undisturbed, DeletionsKept, InHand

\* What is being handled, message by message.
LEMMA OthersKeepDeletions ==
  /\ \A m, out : Handle(m, out) /\ m.type # "deleteAuthorized" /\ UNCHANGED failed => DeletionsKept
  /\ \A t, out : Commit(t, out) /\ t.msg.type # "deleteAuthorized" /\ UNCHANGED failed => DeletionsKept
  /\ \A t : Abort(t) /\ UNCHANGED failed => DeletionsKept
  /\ \A t : Open(t) /\ failed \subseteq failed' => DeletionsKept
  BY HandsKeep DEF DeletionsKept

LEMMA RowsAlone == UNCHANGED rows => NothingDeleted
  BY DEF NothingDeleted

LEMMA JobsAlone == jobs' \subseteq jobs => NothingScheduled
  BY DEF NothingScheduled

\* A write of another column, or to another state.
LEMMA OtherColumn ==
  ASSUME RoundsInv, NEW r, NEW row, rows' = [rows EXCEPT ![r] = row],
         r \in DOMAIN rows => row.state = rows[r].state \/ row.state # "DELETED"
  PROVE  NothingDeleted
  BY DEF RoundsInv, RowsOK, NothingDeleted

LEMMA WrittenState ==
  ASSUME RoundsInv, NEW r, NEW copy
  PROVE  r \in DOMAIN rows => Written(rows[r], copy).state = rows[r].state
  BY DEF RoundsInv, RowsOK, Row, Written

LEMMA AnnouncingLeavesNone ==
  ASSUME RoundsInv, Tick \/ Create \/ Store \/ Announce \/ StoreMessageId \/ StoreEventId
  PROVE  Undisturbed
<1> USE DEF Of
<1>1. CASE Tick
  BY <1>1, RowsAlone, JobsAlone DEF Tick, table, queue, delivery, Undisturbed, DeletionsKept, InHand
<1>2. CASE Create
  BY <1>2, RowsAlone, JobsAlone, OthersKeepDeletions DEF Create, queue, Undisturbed
<1>3. CASE Store
  <2>1. NothingDeleted
    <3>1. PICK m : m.round \notin DOMAIN rows /\ rows' = CreateRound(m.round, m.row)
      BY <1>3 DEF Store, StoreRound, Found
    <3> QED BY <3>1 DEF CreateRound, NothingDeleted
  <2> QED BY <1>3, <2>1, JobsAlone, OthersKeepDeletions DEF Store, queue, Undisturbed
<1>4. CASE Announce
  BY <1>4, RowsAlone, JobsAlone, OthersKeepDeletions DEF Announce, table, queue, Undisturbed
<1>5. CASE StoreMessageId
  <2>1. NothingDeleted
    <3>1. PICK m : rows' = [rows EXCEPT ![m.round] = WithMessageId(rows[m.round])]
      BY <1>5 DEF StoreMessageId, UpdateRoundMessageID, SetRow
    <3>2. m.round \in DOMAIN rows => WithMessageId(rows[m.round]).state = rows[m.round].state
      BY DEF RoundsInv, RowsOK, Row, WithMessageId
    <3> QED BY <3>1, <3>2, OtherColumn
  <2> QED BY <1>5, <2>1, JobsAlone, OthersKeepDeletions DEF StoreMessageId, queue, Undisturbed
<1>6. CASE StoreEventId
  <2>1. NothingDeleted
    <3>1. PICK m : rows' = [rows EXCEPT ![m.round] = WithEventId(rows[m.round])]
      BY <1>6 DEF StoreEventId, UpdateDiscordEventID, SetRow
    <3>2. m.round \in DOMAIN rows => WithEventId(rows[m.round]).state = rows[m.round].state
      BY DEF RoundsInv, RowsOK, Row, WithEventId
    <3> QED BY <3>1, <3>2, OtherColumn
  <2> QED BY <1>6, <2>1, JobsAlone, OthersKeepDeletions DEF StoreEventId, queue, Undisturbed
<1> QED BY <1>1, <1>2, <1>3, <1>4, <1>5, <1>6

LEMMA EditingLeavesNone ==
  ASSUME RoundsInv, ValidateEdit \/ HandleRoundUpdateValidated \/ RequestDeletion \/ Start \/ Answer
  PROVE  Undisturbed
<1> USE DEF Of, OpenFor
<1>1. CASE ValidateEdit
  BY <1>1, RowsAlone, JobsAlone, OthersKeepDeletions DEF ValidateEdit, table, queue, Undisturbed
<1>2. CASE ReadForEdit
  BY <1>2, RowsAlone, JobsAlone, OthersKeepDeletions DEF ReadForEdit, table, queue, Undisturbed
<1>3. CASE WriteEdit
  <2>1. NothingDeleted
    <3>1. PICK t : rows' = [rows EXCEPT ![t.msg.round] =
                              Written(rows[t.msg.round], Edited(t.seen, t.msg))]
      BY <1>3 DEF WriteEdit, SetRow
    <3> QED BY <3>1, WrittenState, OtherColumn
  <2> QED BY <1>3, <2>1, JobsAlone, OthersKeepDeletions DEF WriteEdit, queue, Undisturbed
<1>4. CASE RequestDeletion
  BY <1>4, RowsAlone, JobsAlone, OthersKeepDeletions DEF RequestDeletion, table, queue, Undisturbed
<1>5. CASE Start
  <2>1. NothingDeleted
    <3>1. PICK m : \/ rows' = [rows EXCEPT ![m.round] = InState(rows[m.round], "IN_PROGRESS")]
                   \/ UNCHANGED rows
      BY <1>5 DEF Start, StartRound, SetRow
    <3>2. m.round \in DOMAIN rows => InState(rows[m.round], "IN_PROGRESS").state # "DELETED"
      BY DEF RoundsInv, RowsOK, Row, InState
    <3> QED BY <3>1, <3>2, RowsAlone, OtherColumn
  <2> QED BY <1>5, <2>1, JobsAlone, OthersKeepDeletions DEF Start, queue, Undisturbed
<1>6. CASE Answer
  <2>1. PICK m : rows' = [rows EXCEPT ![m.round].list = Answered(@, m.user, m.response)]
    BY <1>6 DEF Answer
  <2>2. NothingDeleted
    BY <2>1 DEF RoundsInv, RowsOK, Row, NothingDeleted
  <2> QED BY <1>6, <2>2, JobsAlone, OthersKeepDeletions DEF Answer, queue, Undisturbed
<1> QED BY <1>1, <1>2, <1>3, <1>4, <1>5, <1>6 DEF HandleRoundUpdateValidated

LEMMA ImportingLeavesNone ==
  ASSUME RoundsInv, Uploaded \/ URLRequested \/ HandleParseScorecardRequest \/ NormalizeScorecard
                    \/ HandleScorecardNormalized \/ HandleImportCompleted
  PROVE  Undisturbed
<1> USE DEF Of, OpenFor
<1>1. ASSUME NEW t, WriteImportJob(t) PROVE NothingDeleted
  <2>1. rows' = [rows EXCEPT ![t.msg.round] =
                   Written(rows[t.msg.round], [t.seen EXCEPT !.import = "pending"])]
    BY <1>1 DEF WriteImportJob
  <2> QED BY <2>1, WrittenState, OtherColumn
<1>2. CASE Uploaded
  BY <1>1, <1>2, RowsAlone, JobsAlone, OthersKeepDeletions
     DEF Uploaded, ReadForImportJob, WriteImportJob, queue, Undisturbed
<1>3. CASE URLRequested
  BY <1>1, <1>3, RowsAlone, JobsAlone, OthersKeepDeletions
     DEF URLRequested, ReadForImportJob, WriteImportJob, queue, Undisturbed
<1>4. ASSUME NEW r, NEW status, SetStatus(r, status) PROVE NothingDeleted
  BY <1>4 DEF SetStatus, RoundsInv, RowsOK, Row, NothingDeleted
<1>5. CASE StartParsing
  BY <1>4, <1>5, JobsAlone, OthersKeepDeletions DEF StartParsing, queue, Undisturbed
<1>6. CASE FinishParsing
  BY <1>4, <1>6, RowsAlone, JobsAlone, OthersKeepDeletions DEF FinishParsing, queue, Undisturbed
<1>7. CASE NormalizeScorecard \/ HandleScorecardNormalized
  BY <1>7, RowsAlone, JobsAlone, OthersKeepDeletions
     DEF NormalizeScorecard, HandleScorecardNormalized, Ingest, CreateRoundGroups, table, queue,
         Undisturbed
<1>8. CASE ReadForApply
  BY <1>8, RowsAlone, JobsAlone, OthersKeepDeletions DEF ReadForApply, table, queue, Undisturbed
<1>9. CASE WriteApply
  <2>1. PICK t : \E list :
          \/ rows' = [rows EXCEPT ![t.msg.round].list = list,
                        ![t.msg.round].teams = IF TeamsOf(list) = {} THEN @ ELSE TeamsOf(list)]
          \/ UNCHANGED rows
    BY <1>9 DEF WriteApply
  <2>2. PICK list :
          \/ rows' = [rows EXCEPT ![t.msg.round].list = list,
                        ![t.msg.round].teams = IF TeamsOf(list) = {} THEN @ ELSE TeamsOf(list)]
          \/ UNCHANGED rows
    BY <2>1
  <2>3. ASSUME NEW s \in DOMAIN rows, ~ UNCHANGED rows PROVE rows'[s].state = rows[s].state
    <3>1. rows[s] \in Row
      BY DEF RoundsInv, RowsOK
    <3> QED BY <2>2, <2>3, <3>1 DEF RoundsInv, RowsOK, Row
  <2>4. NothingDeleted
    BY <2>3, RowsAlone DEF NothingDeleted
  <2> QED BY <1>9, <2>4, JobsAlone, OthersKeepDeletions DEF WriteApply, queue, Undisturbed
<1> QED BY <1>2, <1>3, <1>5, <1>6, <1>7, <1>8, <1>9
        DEF HandleParseScorecardRequest, HandleImportCompleted
LEMMA RemindingLeavesNone ==
  ASSUME RoundsInv, CancelForSchedule \/ CancelForReschedule \/ RunJob \/ Remind
  PROVE  Undisturbed
<1> USE DEF Of, OpenFor
<1>1. \A r : CancelRoundJobs(r) => NothingScheduled /\ failed \subseteq failed'
  <2> SUFFICES ASSUME NEW r, NEW k, k \in Remaining(r), k.state # "completed", ~ k.spared
               PROVE  \E i \in jobs : i.args = k.args /\ i.state # "completed" /\ ~ i.spared
    BY DEF CancelRoundJobs, NothingScheduled
  <2>1. PICK i \in jobs : k = [i EXCEPT !.spared = @ \/ rows[r].state = "DELETED"]
    BY DEF Remaining, Unfinished, JobsOf
  <2>2. i \in Jobs
    BY DEF RoundsInv, QueueOK
  <2> QED BY <2>1, <2>2 DEF Jobs
<1>2. CASE CancelForSchedule
  BY <1>1, <1>2, RowsAlone, OthersKeepDeletions DEF CancelForSchedule, table, Undisturbed
<1>3. CASE CancelForReschedule
  BY <1>1, <1>3, RowsAlone, OthersKeepDeletions DEF CancelForReschedule, table, Undisturbed
<1>4. CASE RunJob
  <2>1. NothingScheduled
    <3>1. PICK j \in jobs : \E state : j.state # "completed" /\ JobBecomes(j, state)
      BY <1>4 DEF RunJob, FetchJob, WorkJob
    <3>2. j \in Jobs
      BY DEF RoundsInv, QueueOK
    <3> QED BY <3>1, <3>2 DEF NothingScheduled, JobBecomes, Jobs
  <2>2. DeletionsKept
    BY <1>4 DEF RunJob, FetchJob, WorkJob, DeletionsKept, InHand, delivery
  <2> QED BY <1>4, <2>1, <2>2, RowsAlone DEF RunJob, FetchJob, WorkJob, table, Undisturbed
<1>5. CASE Remind
  BY <1>5, RowsAlone, JobsAlone, OthersKeepDeletions DEF Remind, table, queue, Undisturbed
<1> QED BY <1>2, <1>3, <1>4, <1>5

\* A job that is inserted for a deleted round is spared.
LEMMA LateInserts ==
  ASSUME RoundsInv, OnlySparedRemindersOutliveDeletion, UNCHANGED rows, DeletionsKept,
         NEW args, ScheduleRoundReminder(args)
  PROVE  OnlySparedRemindersOutliveDeletion'
<1> SUFFICES ASSUME NEW j \in jobs', rows[j.args.round].state = "DELETED", j.state # "completed",
                    ~ j.spared, j.args.round \notin failed'
             PROVE  Deleting(j.args.round)'
  BY DEF OnlySparedRemindersOutliveDeletion, Unfinished, JobsOf
<1>1. j \in jobs
  <2> DEFINE job == [args |-> args, state |-> "scheduled", spared |-> rows[args.round].state = "DELETED"]
  <2>1. job.args = args /\ job.spared = (rows[args.round].state = "DELETED")
    BY Zenon
  <2>2. j \in jobs \/ j = job
    BY DEF ScheduleRoundReminder
  <2> HIDE DEF job
  <2> QED BY <2>1, <2>2, Zenon
<1>2. Deleting(j.args.round)
  BY <1>1 DEF OnlySparedRemindersOutliveDeletion, Unfinished, JobsOf, DeletionsKept, RoundsInv, QueueOK
<1> QED BY <1>2 DEF Deleting, DeletionsKept, InHand

LEMMA InsertingLeavesNone ==
  ASSUME RoundsInv, OnlySparedRemindersOutliveDeletion, InsertReminder \/ InsertRescheduled
  PROVE  OnlySparedRemindersOutliveDeletion'
<1> USE DEF OpenFor
<1>1. UNCHANGED rows /\ DeletionsKept
  BY OthersKeepDeletions DEF InsertReminder, InsertRescheduled, InsertFails, table
<1>2. UNCHANGED jobs \/ \E args : ScheduleRoundReminder(args)
  BY DEF InsertReminder, InsertRescheduled, InsertFails
<1>3. CASE UNCHANGED jobs
  BY <1>1, <1>3, RowsAlone, JobsAlone, UndisturbedKeeps DEF Undisturbed
<1> QED BY <1>1, <1>2, <1>3, LateInserts

\* While a round is deleted its deletion is in hand until the jobs are cancelled.
LEMMA DeletingLeavesNone ==
  ASSUME RoundsInv, OnlySparedRemindersOutliveDeletion, HandleRoundDeleteAuthorized
  PROVE  OnlySparedRemindersOutliveDeletion'
<1>1. ASSUME MarkDeleted PROVE OnlySparedRemindersOutliveDeletion'
  <2>1. PICK m \in Of("deleteAuthorized") :
          rows' = [rows EXCEPT ![m.round] = Deleted(rows[m.round])] /\ Open([msg |-> m])
    BY <1>1 DEF MarkDeleted, SetRow
  <2>2. m.type = "deleteAuthorized" /\ UNCHANGED queue
    BY <1>1 DEF MarkDeleted, Of
  <2>3. Deleting(m.round)' /\ DeletionsKept
    BY <2>1, <2>2, HandsKeep DEF Deleting, DeletionsKept, InHand, queue
  <2> SUFFICES ASSUME NEW j \in jobs', rows'[j.args.round].state = "DELETED", j.state # "completed",
                      ~ j.spared, j.args.round \notin failed', j.args.round # m.round
               PROVE  Deleting(j.args.round)'
    BY <2>3 DEF OnlySparedRemindersOutliveDeletion, Unfinished, JobsOf
  <2>4. j \in jobs /\ j.args.round \in DOMAIN rows /\ j.args.round \notin failed
    BY <2>2 DEF RoundsInv, QueueOK, queue
  <2>5. rows[j.args.round].state = "DELETED"
    BY <2>1, <2>4 DEF RoundsInv, RowsOK
  <2>6. Deleting(j.args.round)
    BY <2>4, <2>5 DEF OnlySparedRemindersOutliveDeletion, Unfinished, JobsOf
  <2> QED BY <2>3, <2>6 DEF Deleting, DeletionsKept, InHand
<1>2. ASSUME CancelForDeletion PROVE OnlySparedRemindersOutliveDeletion'
  <2>1. PICK t \in OpenFor("deleteAuthorized") :
          \/ CancelRoundJobs(t.msg.round) /\ Commit(t, {})
          \/ Abort(t) /\ UNCHANGED queue
    BY <1>2 DEF CancelForDeletion
  <2>2. UNCHANGED rows
    BY <1>2 DEF CancelForDeletion, table
  <2>3. CASE Abort(t) /\ UNCHANGED queue
    BY <2>2, <2>3, RowsAlone, JobsAlone, OthersKeepDeletions, UndisturbedKeeps DEF queue, Undisturbed
  <2>4. CASE CancelRoundJobs(t.msg.round) /\ Commit(t, {})
    <3> SUFFICES ASSUME NEW j \in jobs', rows[j.args.round].state = "DELETED", j.state # "completed",
                        ~ j.spared, j.args.round \notin failed'
                 PROVE  Deleting(j.args.round)'
      BY <2>2 DEF OnlySparedRemindersOutliveDeletion, Unfinished, JobsOf
    <3>1. j \in jobs /\ j.args.round \notin failed /\ j.args.round # t.msg.round
      <4>1. ASSUME j \in Remaining(t.msg.round) PROVE FALSE
        <5>1. PICK i \in jobs : i.args.round = t.msg.round
                /\ j = [i EXCEPT !.spared = @ \/ rows[t.msg.round].state = "DELETED"]
          BY <4>1 DEF Remaining, Unfinished, JobsOf
        <5>2. i \in Jobs
          BY DEF RoundsInv, QueueOK
        <5> QED BY <5>1, <5>2 DEF Jobs
      <4> QED BY <2>4, <4>1 DEF CancelRoundJobs, Unfinished, JobsOf
    <3>2. PICK m \in InHand : m.type = "deleteAuthorized" /\ m.round = j.args.round
      BY <3>1 DEF OnlySparedRemindersOutliveDeletion, Unfinished, JobsOf, Deleting, InHand, RoundsInv, QueueOK
    <3>3. m \in InHand'
      BY <2>4, <3>1, <3>2, HandsKeep
    <3> QED BY <3>2, <3>3 DEF Deleting, InHand
  <2> QED BY <2>1, <2>3, <2>4
<1> QED BY <1>1, <1>2 DEF HandleRoundDeleteAuthorized

\* A deleted round keeps no reminder but those inserted afterwards or not selected because
\* they were at work or to be retried, those of a failed cancellation and, until it is
\* done, those its deletion is about to cancel.
THEOREM DeletedRoundsKeepOnlySparedReminders == Spec => []OnlySparedRemindersOutliveDeletion
<1>1. Init => OnlySparedRemindersOutliveDeletion
  BY InitialJobsAssumption DEF Init, LifecycleInit, OnlySparedRemindersOutliveDeletion, Unfinished, JobsOf
<1>2. RoundsInv /\ OnlySparedRemindersOutliveDeletion /\ [Next]_vars
        => OnlySparedRemindersOutliveDeletion'
  <2> SUFFICES ASSUME RoundsInv, OnlySparedRemindersOutliveDeletion, [Next]_vars
               PROVE  OnlySparedRemindersOutliveDeletion'
    OBVIOUS
  <2>1. CASE LifecycleNext
    BY <2>1, AnnouncingLeavesNone, EditingLeavesNone, RemindingLeavesNone, UndisturbedKeeps,
       InsertingLeavesNone, DeletingLeavesNone
       DEF LifecycleNext, HandleDiscordMessageIDUpdated, HandleRoundScheduleUpdate
  <2>2. CASE Uploaded \/ URLRequested \/ HandleParseScorecardRequest \/ NormalizeScorecard
             \/ HandleScorecardNormalized \/ HandleImportCompleted
    BY <2>2, ImportingLeavesNone, UndisturbedKeeps
  <2>3. CASE UNCHANGED vars
    BY <2>3, RowsAlone, JobsAlone, UndisturbedKeeps
       DEF vars, table, queue, delivery, Undisturbed, DeletionsKept, InHand
  <2> QED BY <2>1, <2>2, <2>3 DEF Next
<1> QED BY <1>1, <1>2, RoundsInvariant, PTL DEF Spec

-----------------------------------------------------------------------------
\* The messages an import may be at, and that a step leaves one of them in hand.
ImportTypes == {"upload", "url", "parse", "parsed", "normalized", "completed", "importFailed",
                "allScores"}
About(import) == {m \in Message : m.type \in ImportTypes /\ m.import = import}
ImportKept(import) == About(import) \cap InHand # {} => About(import) \cap InHand' # {}

\* Other messages do not matter to it, nor does a handler that is not done.
LEMMA OthersKeepImports ==
  ASSUME NEW import
  PROVE  /\ \A m, out : Handle(m, out) /\ m.type \notin ImportTypes => ImportKept(import)
         /\ \A t, out : Commit(t, out) /\ t.msg.type \notin ImportTypes => ImportKept(import)
         /\ \A t : Open(t) \/ Abort(t) => ImportKept(import)
<1> DEFINE S == About(import)
<1>1. \A m \in S : m.type \in ImportTypes
  BY DEF About
<1>2. S \cap InHand # {} /\ S \cap InHand' = {} <=> ~ ImportKept(import)
  BY DEF ImportKept
<1> HIDE DEF S
<1> QED BY <1>1, <1>2, HandsHold

\* A message of the import is replaced by another.
LEMMA PassedOnKeeps ==
  ASSUME NEW import
  PROVE  /\ \A m, x : Handle(m, {x}) /\ (m \in About(import) => x \in About(import)) => ImportKept(import)
         /\ \A t, x : Commit(t, {x}) /\ (t.msg \in About(import) => x \in About(import)) => ImportKept(import)
<1> DEFINE S == About(import)
<1>1. S \cap InHand # {} /\ S \cap InHand' = {} <=> ~ ImportKept(import)
  BY DEF ImportKept
<1>2. \A x : x \in S => {x} \cap S # {}
  OBVIOUS
<1> HIDE DEF S
<1>3. ASSUME NEW m, NEW x, Handle(m, {x}), m \in S => x \in S PROVE ImportKept(import)
  BY <1>1, <1>2, <1>3, HandsHold
<1>4. ASSUME NEW t, NEW x, Commit(t, {x}), t.msg \in S => x \in S PROVE ImportKept(import)
  BY <1>1, <1>2, <1>4, HandsHold
<1> QED BY <1>3, <1>4 DEF S

LEMMA LifecycleKeepsImports ==
  ASSUME LifecycleNext, NEW import
  PROVE  ImportKept(import)
<1> USE DEF Of, OpenFor, ImportTypes
<1>1. CASE Tick \/ RunJob
  BY <1>1 DEF Tick, RunJob, FetchJob, WorkJob, delivery, ImportKept, InHand
<1>2. CASE Create \/ Store \/ Announce \/ StoreMessageId \/ StoreEventId
  BY <1>2, OthersKeepImports DEF Create, Store, Announce, StoreMessageId, StoreEventId
<1>3. CASE HandleDiscordMessageIDUpdated
  BY <1>3, OthersKeepImports
     DEF HandleDiscordMessageIDUpdated, CancelForSchedule, InsertReminder, InsertFails
<1>4. CASE ValidateEdit \/ HandleRoundUpdateValidated
  BY <1>4, OthersKeepImports DEF ValidateEdit, HandleRoundUpdateValidated, ReadForEdit, WriteEdit
<1>5. CASE HandleRoundScheduleUpdate
  BY <1>5, OthersKeepImports
     DEF HandleRoundScheduleUpdate, CancelForReschedule, InsertRescheduled, InsertFails
<1>6. CASE RequestDeletion \/ HandleRoundDeleteAuthorized
  BY <1>6, OthersKeepImports
     DEF RequestDeletion, HandleRoundDeleteAuthorized, MarkDeleted, CancelForDeletion
<1>7. CASE Start \/ Answer \/ Remind
  BY <1>7, OthersKeepImports DEF Start, Answer, Remind
<1> QED BY <1>1, <1>2, <1>3, <1>4, <1>5, <1>6, <1>7 DEF LifecycleNext

LEMMA FailedImports ==
  ASSUME NEW import, NEW m \in About(import), m.import \in Nat
  PROVE  FailImport(m) \in About(import)
  BY DEF About, FailImport, Message, Events, ImportTypes

LEMMA PassedOnImports ==
  ASSUME NEW import, NEW m \in About(import), m.type \in {"upload", "url", "parse", "parsed"},
         NEW status \in {"parse", "parsed"}
  PROVE  Upload(m, status) \in About(import)
  BY UploadPassedOn DEF About, ImportTypes

LEMMA UploadingKeepsImports ==
  ASSUME RoundsInv, Uploaded \/ URLRequested \/ HandleParseScorecardRequest, NEW import
  PROVE  ImportKept(import)
<1>1. ASSUME NEW type \in {"upload", "url"}, NEW m \in Of(type), ReadForImportJob(m)
      PROVE  ImportKept(import)
  <2>1. m \in Message /\ m.type = type
    BY CallFacts DEF RoundsInv
  <2>2. m.import \in Nat
    BY <2>1, MessageFacts
  <2> QED BY <1>1, <2>2, FailedImports, OthersKeepImports, PassedOnKeeps DEF ReadForImportJob
<1>2. ASSUME NEW type \in {"upload", "url"}, NEW t \in OpenFor(type),
             WriteImportJob(t) \/ Commit(t, {FailImport(t.msg)})
      PROVE  ImportKept(import)
  <2>1. t.msg \in Message /\ t.msg.type = type
    BY CallFacts DEF RoundsInv
  <2>2. t.msg.import \in Nat
    BY <2>1, MessageFacts
  <2> QED BY <1>2, <2>1, <2>2, FailedImports, PassedOnImports, PassedOnKeeps DEF WriteImportJob
<1>3. CASE Uploaded
  BY <1>1, <1>2, <1>3 DEF Uploaded
<1>4. CASE URLRequested
  BY <1>1, <1>2, <1>4 DEF URLRequested
<1>5. CASE StartParsing
  BY <1>5, OthersKeepImports DEF StartParsing
<1>6. CASE FinishParsing
  <2>1. PICK t \in OpenFor("parse") :
          Commit(t, {Upload(t.msg, "parsed")}) \/ Commit(t, ParsingFailure(t))
    BY <1>6 DEF FinishParsing
  <2>2. t.msg \in Message /\ t.msg.type = "parse"
    BY CallFacts DEF RoundsInv
  <2>3. t.msg.import \in Nat
    BY <2>2, MessageFacts
  <2>4. Commit(t, {Upload(t.msg, "parsed")}) \/ Commit(t, {FailImport(t.msg)})
    BY <2>1 DEF ParsingFailure
  <2> QED BY <2>2, <2>3, <2>4, FailedImports, PassedOnImports, PassedOnKeeps
<1> QED BY <1>3, <1>4, <1>5, <1>6 DEF HandleParseScorecardRequest

LEMMA IngestingKeepsImports ==
  ASSUME RoundsInv, Grows, NormalizeScorecard \/ HandleScorecardNormalized, NEW import
  PROVE  ImportKept(import)
<1>1. ASSUME NEW m \in Message, m.type = "normalized", GoodMessage(m)
      PROVE  \E x : Ingested(m) = {x} /\ (m \in About(import) => x \in About(import))
  <2>1. PICK x \in Message : Ingested(m) = {x}
    BY <1>1, IngestedWell
  <2>2. x.import = m.import /\ x.type \in {"importFailed", "completed"}
    BY <2>1 DEF Ingested, FailImport
  <2> QED BY <2>1, <2>2 DEF About, ImportTypes
<1>2. CASE NormalizeScorecard
  <2>1. PICK m \in Of("parsed") :
          Handle(m, {[type |-> "normalized", round |-> m.round, import |-> m.import,
                      doubles |-> IsDoubles(m.card), lines |-> Normalized(m.card)]})
    BY <1>2 DEF NormalizeScorecard
  <2> DEFINE x == [type |-> "normalized", round |-> m.round, import |-> m.import,
                   doubles |-> IsDoubles(m.card), lines |-> Normalized(m.card)]
  <2>2. m \in Message /\ m.type = "parsed"
    BY CallFacts DEF RoundsInv
  <2>3. m.round \in Rounds /\ m.import \in Nat /\ m.card \in Cards
    BY <2>2, MessageFacts
  <2>4. x \in Message
    <3>1. Normalized(m.card) \in Seq(LinesOn(m.card)) /\ LinesOn(m.card) \subseteq Lines
      BY <2>3, NormalizedWell DEF LinesOn
    <3>2. Normalized(m.card) \in Seq(Lines) /\ IsDoubles(m.card) \in BOOLEAN
      BY <3>1 DEF IsDoubles
    <3> QED BY <2>3, <3>2 DEF Message, Events
  <2>5. x.type = "normalized" /\ x.import = m.import
    OBVIOUS
  <2>6. Handle(m, {x})
    BY <2>1
  <2> HIDE DEF x
  <2>7. m \in About(import) => x \in About(import)
    BY <2>4, <2>5 DEF About, ImportTypes
  <2> QED BY <2>6, <2>7, PassedOnKeeps
<1>3. CASE Ingest
  <2>1. PICK m \in Of("normalized") : Open([msg |-> m]) \/ Handle(m, Ingested(m))
    BY <1>3 DEF Ingest
  <2>2. m \in Message /\ GoodMessage(m) /\ m.type = "normalized"
    BY CallFacts DEF RoundsInv
  <2>3. PICK x : Ingested(m) = {x} /\ (m \in About(import) => x \in About(import))
    BY <1>1, <2>2
  <2>4. Open([msg |-> m]) \/ Handle(m, {x})
    BY <2>1, <2>3
  <2> QED BY <2>3, <2>4, OthersKeepImports, PassedOnKeeps
<1>4. CASE CreateRoundGroups
  <2>1. PICK t \in OpenFor("normalized") : Commit(t, Ingested(t.msg))
    BY <1>4 DEF CreateRoundGroups
  <2>2. t.msg \in Message /\ GoodMessage(t.msg) /\ t.msg.type = "normalized"
    BY CallFacts DEF RoundsInv
  <2>3. PICK x : Ingested(t.msg) = {x} /\ (t.msg \in About(import) => x \in About(import))
    BY <1>1, <2>2
  <2>4. Commit(t, {x})
    BY <2>1, <2>3
  <2> QED BY <2>3, <2>4, PassedOnKeeps
<1> QED BY <1>2, <1>3, <1>4 DEF HandleScorecardNormalized

LEMMA ApplyingKeepsImports ==
  ASSUME RoundsInv, HandleImportCompleted, NEW import
  PROVE  ImportKept(import)
<1>1. CASE ReadForApply
  BY <1>1, OthersKeepImports DEF ReadForApply
<1>2. CASE WriteApply
  <2>1. PICK t \in OpenFor("completed") :
          \/ Commit(t, {FailImport(t.msg)})
          \/ Commit(t, {[type |-> "allScores", round |-> t.msg.round, import |-> t.msg.import]})
    BY <1>2 DEF WriteApply
  <2> DEFINE x == [type |-> "allScores", round |-> t.msg.round, import |-> t.msg.import]
  <2>2. t.msg \in Message /\ t.msg.type = "completed"
    BY CallFacts DEF RoundsInv
  <2>3. t.msg.round \in Rounds /\ t.msg.import \in Nat
    BY <2>2, MessageFacts
  <2>4. t.msg \in About(import) => x \in About(import)
    BY <2>3 DEF About, ImportTypes, Message, Events
  <2>5. Commit(t, {x}) \/ Commit(t, {FailImport(t.msg)})
    BY <2>1
  <2> HIDE DEF x
  <2> QED BY <2>3, <2>4, <2>5, FailedImports, PassedOnKeeps
<1> QED BY <1>1, <1>2 DEF HandleImportCompleted

\* No import is dropped on its way through the handlers, whichever of them die.
THEOREM ImportsAreAlwaysKept == Spec => []ImportsAreKept
<1> DEFINE AllKept == \A c \in Imports : About(c.import) \cap InHand # {}
<1>1. Init => AllKept
  <2> SUFFICES ASSUME Init, NEW c \in Imports PROVE About(c.import) \cap InHand # {}
    OBVIOUS
  <2>1. c \in msgs /\ c.type \in {"upload", "url"}
    BY DEF Init, LifecycleInit, Imports
  <2>2. c \in Message
    BY <2>1, Starts DEF RoundsInv, InFlight
  <2> QED BY <2>1, <2>2 DEF About, ImportTypes, InHand
<1>2. RoundsInv /\ AllKept /\ [Next]_vars => AllKept'
  <2> SUFFICES ASSUME RoundsInv, AllKept, [Next]_vars PROVE AllKept'
    OBVIOUS
  <2>1. Grows /\ Imports' = Imports
    BY StepKeeps, GrowthKeeps DEF Kept, Grows
  <2> SUFFICES ASSUME NEW c \in Imports PROVE ImportKept(c.import)
    BY <2>1 DEF ImportKept
  <2>2. CASE UNCHANGED vars
    BY <2>2 DEF vars, delivery, ImportKept, InHand
  <2> QED BY <2>1, <2>2, LifecycleKeepsImports, UploadingKeepsImports, IngestingKeepsImports,
             ApplyingKeepsImports DEF Next
<1>3. AllKept => ImportsAreKept
  BY DEF ImportsAreKept, About, ImportTypes
<1> QED BY <1>1, <1>2, <1>3, RoundsInvariant, PTL DEF Spec

-----------------------------------------------------------------------------
\* Why no reminder is lost: jobs of a round nobody edits or deletes are cancelled only
\* by a handler that holds its announcement, a worker gets a job only when it is due,
\* and a reminder in flight has a job, an announcement, or is known to be too late.
Touching == {"validated", "rescheduled", "deleteAuthorized"}
TouchedByCommand == \A m \in InHand : m.type \in Touching => ~ Untouched(m.round)
DoneWhenDue == \A j \in jobs : j.state # "scheduled" => j.args.start - 1 <= clock
Scheduled(r) == \E m \in InHand : m.type = "scheduled" /\ m.round = r
Completed(r) == {j \in jobs : j.args.round = r /\ j.state = "completed"}
Sent(r) == \E m \in Of("remind") : m.args.round = r
RemindersHaveJobs ==
  \A r \in Rounds : Untouched(r) /\ Sent(r) =>
    Unfinished(r) # {} \/ Scheduled(r) \/ Completed(r) # {} \/ r \in missed
RemindersInv == TouchedByCommand /\ DoneWhenDue /\ RemindersHaveJobs

ReminderKept ==
  \A r \in Rounds : Untouched(r) /\ Owed(r) => Owed(r)' \/ Reminded(r)' \/ r \in missed'

LEMMA OwedFacts ==
  /\ \A r : Owed(r) <=> Unfinished(r) # {} \/ Scheduled(r) \/ Sent(r)
  /\ \A r : Owed(r)' <=> Unfinished(r)' # {} \/ Scheduled(r)' \/ Sent(r)'
  BY DEF Owed, Scheduled, Sent

\* A reminder is never half-way.
LEMMA RemindersFly ==
  /\ RoundsInv => \A m : m \in InHand /\ m.type = "remind" <=> m \in Of("remind")
  /\ RoundsInv' => \A m : m \in InHand' /\ m.type = "remind" <=> m \in Of("remind")'
<1>1. RoundsInv => \A t \in open : t.msg.type # "remind"
  BY DEF RoundsInv, InFlight, GoodTransaction, WithoutCopy, WithRow, WithList
<1>2. RoundsInv' => \A t \in open' : t.msg.type # "remind"
  BY DEF RoundsInv, InFlight, GoodTransaction, WithoutCopy, WithRow, WithList
<1> QED BY <1>1, <1>2 DEF InHand, Of

\* A step is calm when it drops no announcement and no reminder, sends no reminder, and
\* edits or deletes only what a command names.
Innocent(m) == m.type # "remind" /\ (m.type \in Touching => ~ Untouched(m.round))
Calm ==
  /\ \A m \in InHand : m.type \in {"scheduled", "remind"} => m \in InHand'
  /\ \A m \in InHand' : m \in InHand \/ Innocent(m)

LEMMA OthersCalm ==
  /\ \A m \in msgs : \A out : Handle(m, out) /\ m.type \notin {"scheduled", "remind"}
                          /\ (\A x \in out : Innocent(x)) => Calm
  /\ \A t \in open : \A out : Commit(t, out) /\ t.msg.type \notin {"scheduled", "remind"}
                          /\ (\A x \in out : Innocent(x)) => Calm
  /\ \A m \in msgs : Open([msg |-> m]) => Calm
  /\ \A m \in msgs : \A seen : Open([msg |-> m, seen |-> seen]) => Calm
  /\ \A t \in open : Abort(t) => Calm
  BY HandsKeep, HandsTake DEF Calm

\* Edits and deletions name their round.
LEMMA EditsAreCalm ==
  ASSUME RoundsInv, TouchedByCommand, ValidateEdit \/ RequestDeletion \/ HandleRoundUpdateValidated
  PROVE  Calm
<1>1. ASSUME NEW m \in msgs, m.type \in {"edit", "delete"} PROVE ~ Untouched(m.round) /\ m \in Message
  <2>1. m \in Message /\ m \in commands
    BY <1>1 DEF RoundsInv, InFlight, GoodMessage, Commands
  <2> QED BY <1>1, <2>1 DEF Untouched
<1>2. CASE ValidateEdit
  <2>1. PICK m \in Of("edit") :
          Handle(m, IF ValidateRoundUpdate(m) THEN {[m EXCEPT !.type = "validated"]} ELSE {})
    BY <1>2 DEF ValidateEdit
  <2>2. m \in msgs /\ m.type = "edit" /\ ~ Untouched(m.round) /\ m \in Message
    BY <1>1 DEF Of
  <2> DEFINE x == [m EXCEPT !.type = "validated"]
  <2>3. x.type = "validated" /\ x.round = m.round
    BY <2>2, MessageShapes
  <2>4. Innocent(x)
    BY <2>2, <2>3 DEF Innocent
  <2>5. Handle(m, {x}) \/ Handle(m, {})
    BY <2>1
  <2> HIDE DEF x
  <2> QED BY <2>2, <2>4, <2>5, OthersCalm
<1>3. CASE RequestDeletion
  <2>1. PICK m \in Of("delete") :
          Handle(m, IF ValidateRoundDeletion(m) THEN {DeleteAuthorized(m.round)} ELSE {})
    BY <1>3 DEF RequestDeletion
  <2>2. m \in msgs /\ m.type = "delete" /\ ~ Untouched(m.round)
    BY <1>1 DEF Of
  <2>3. Innocent(DeleteAuthorized(m.round))
    BY <2>2 DEF Innocent, DeleteAuthorized
  <2>4. Handle(m, {DeleteAuthorized(m.round)}) \/ Handle(m, {})
    BY <2>1
  <2> QED BY <2>2, <2>3, <2>4, OthersCalm
<1>4. CASE ReadForEdit
  BY <1>4, OthersCalm DEF ReadForEdit, Of
<1>5. CASE WriteEdit
  <2>1. PICK t \in OpenFor("validated") : \E row : Commit(t, Reschedules(t.msg, row))
    BY <1>5 DEF WriteEdit
  <2>2. PICK row : Commit(t, Reschedules(t.msg, row))
    BY <2>1
  <2>3. t \in open /\ t.msg.type = "validated" /\ ~ Untouched(t.msg.round)
    BY DEF TouchedByCommand, InHand, OpenFor, Touching
  <2>4. \A x \in Reschedules(t.msg, row) : x.type = "rescheduled" /\ x.round = t.msg.round
    BY DEF Reschedules
  <2>5. \A x \in Reschedules(t.msg, row) : Innocent(x)
    BY <2>3, <2>4 DEF Innocent
  <2> QED BY <2>2, <2>3, <2>5, OthersCalm
<1> QED BY <1>2, <1>3, <1>4, <1>5 DEF HandleRoundUpdateValidated

LEMMA AnnouncingIsCalm ==
  ASSUME RoundsInv, Create \/ Store \/ Announce \/ StoreMessageId \/ StoreEventId
  PROVE  Calm
<1> USE DEF Of, Touching
<1>1. ASSUME NEW m \in msgs, m.type \notin {"scheduled", "remind"}, NEW x, Handle(m, {x}),
             x.type \notin Touching \cup {"remind"}
      PROVE  Calm
  BY <1>1, OthersCalm DEF Innocent
<1>2. CASE Create
  <2>1. PICK m \in Of("create") : \/ Handle(m, {})
                                  \/ \E r : Handle(m, {[type |-> "entity", round |-> r,
                                                        row |-> NewRow(m.title, m.start, m.user)]})
    BY <1>2 DEF Create
  <2>2. CASE Handle(m, {})
    BY <2>2, OthersCalm
  <2>3. ASSUME NEW r, Handle(m, {[type |-> "entity", round |-> r,
                                  row |-> NewRow(m.title, m.start, m.user)]})
        PROVE  Calm
    <3>1. [type |-> "entity", round |-> r, row |-> NewRow(m.title, m.start, m.user)].type = "entity"
      OBVIOUS
    <3> QED BY <1>1, <2>3, <3>1
  <2> QED BY <2>1, <2>2, <2>3
<1>3. CASE Store
  <2>1. PICK m \in Of("entity") : Handle(m, {[type |-> "created", round |-> m.round]})
    BY <1>3 DEF Store
  <2> QED BY <1>1, <2>1
<1>4. CASE Announce
  <2>1. PICK m \in Of("created") :
          Handle(m, {[type |-> "posted", round |-> m.round], [type |-> "event", round |-> m.round]})
    BY <1>4 DEF Announce
  <2>2. \A x \in {[type |-> "posted", round |-> m.round], [type |-> "event", round |-> m.round]} :
          Innocent(x)
    BY DEF Innocent
  <2> QED BY <2>1, <2>2, OthersCalm
<1>5. CASE StoreMessageId
  <2>1. PICK m \in Of("posted") :
          Handle(m, {[type |-> "scheduled", round |-> m.round,
                      title |-> rows[m.round].title, start |-> rows[m.round].start]})
    BY <1>5 DEF StoreMessageId
  <2> QED BY <1>1, <2>1
<1>6. CASE StoreEventId
  BY <1>6, OthersCalm DEF StoreEventId
<1> QED BY <1>2, <1>3, <1>4, <1>5, <1>6

LEMMA ImportingIsCalm ==
  ASSUME RoundsInv,
         Uploaded \/ URLRequested \/ HandleParseScorecardRequest \/ NormalizeScorecard
         \/ HandleScorecardNormalized \/ HandleImportCompleted
  PROVE  Calm
<1> USE DEF Of, OpenFor, Touching
<1>1. \A m \in Message : m.type \in {"upload", "url", "parse"} =>
        Upload(m, "parse").type = "parse" /\ Upload(m, "parsed").type = "parsed"
  BY UploadPassedOn
<1>2. \A m : FailImport(m).type = "importFailed"
  BY DEF FailImport
<1>3. (\A t \in open : t.msg \in Message) /\ msgs \subseteq Message
  BY CallFacts DEF RoundsInv, InFlight
<1>4. ASSUME NEW x, x.type \notin Touching \cup {"remind"}
      PROVE  /\ \A m \in msgs : Handle(m, {x}) /\ m.type \notin {"scheduled", "remind"} => Calm
             /\ \A t \in open : Commit(t, {x}) /\ t.msg.type \notin {"scheduled", "remind"} => Calm
  BY <1>4, OthersCalm DEF Innocent
<1>5. CASE Uploaded \/ URLRequested
  BY <1>1, <1>2, <1>3, <1>4, <1>5, OthersCalm DEF Uploaded, URLRequested, ReadForImportJob, WriteImportJob
<1>6. CASE HandleParseScorecardRequest
  BY <1>1, <1>2, <1>3, <1>4, <1>6, OthersCalm
     DEF HandleParseScorecardRequest, StartParsing, FinishParsing, ParsingFailure
<1>7. \A m : \A x \in Ingested(m) : x.type \in {"importFailed", "completed"}
  BY <1>2 DEF Ingested
<1>8. CASE NormalizeScorecard
  <2>1. PICK m \in Of("parsed") : \E x : x.type = "normalized" /\ Handle(m, {x})
    BY <1>8 DEF NormalizeScorecard
  <2> QED BY <1>4, <2>1
<1>9. CASE HandleScorecardNormalized
  BY <1>7, <1>9, OthersCalm DEF HandleScorecardNormalized, Ingest, CreateRoundGroups, Innocent
<1>10. CASE HandleImportCompleted
  BY <1>2, <1>4, <1>10, OthersCalm DEF HandleImportCompleted, ReadForApply, WriteApply
<1> QED BY <1>5, <1>6, <1>8, <1>9, <1>10

\* What an announcement may become, and a step that leaves none behind.
Cared(r) == Scheduled(r) \/ r \in missed \/ Unfinished(r) # {}
Peaceful ==
  /\ \A m \in InHand : m.type = "remind" => m \in InHand'
  /\ \A m \in InHand : m.type = "scheduled" => Cared(m.round)'
  /\ \A m \in InHand' : m \in InHand \/ Innocent(m)
  /\ \A j \in jobs : Untouched(j.args.round) => j \in jobs' \/ Cared(j.args.round)'
  /\ \A j \in jobs' : \/ j.state = "scheduled"
                      \/ \E i \in jobs : i.args = j.args /\ i.state = j.state
  /\ missed \subseteq missed' /\ clock <= clock' /\ commands' = commands

RemindersDone == RemindersInv' /\ ReminderKept

LEMMA TouchingCommanded ==
  ASSUME TouchedByCommand, commands' = commands,
         \A m \in InHand' : m \in InHand \/ (m.type \in Touching => ~ Untouched(m.round))
  PROVE  TouchedByCommand'
  BY DEF TouchedByCommand, Untouched

LEMMA PeacefulKeeps ==
  ASSUME RoundsInv, RoundsInv', RemindersInv, Peaceful
  PROVE  RemindersDone
<1>1. TouchedByCommand'
  BY TouchingCommanded DEF Peaceful, Innocent, RemindersInv
<1>2. DoneWhenDue'
  <2> SUFFICES ASSUME NEW j \in jobs', j.state # "scheduled" PROVE j.args.start - 1 <= clock'
    BY DEF DoneWhenDue
  <2>1. j \in Jobs /\ j.args.start - 1 <= clock /\ clock <= clock'
    BY DEF Peaceful, RemindersInv, DoneWhenDue, RoundsInv, QueueOK
  <2>2. j.args.start \in Nat /\ clock \in Nat /\ clock' \in Nat
    BY <2>1 DEF Jobs, Reminders, Hours, RoundsInv, QueueOK
  <2> QED BY <2>1, <2>2
<1>3. \A r : Sent(r)' <=> Sent(r)
  BY RemindersFly DEF Peaceful, Sent, Innocent
<1>4. \A r : Scheduled(r) => Cared(r)'
  BY DEF Peaceful, Scheduled
<1>5. \A r : Untouched(r) /\ Unfinished(r) # {} => Cared(r)'
  BY DEF Peaceful, Unfinished, JobsOf, Cared
<1>6. \A r : Untouched(r) /\ Completed(r) # {} => Cared(r)' \/ Completed(r)' # {}
  BY DEF Peaceful, Completed
<1>7. \A r : Untouched(r)' = Untouched(r) /\ (r \in missed => r \in missed')
  BY DEF Peaceful, Untouched
<1>8. RemindersHaveJobs'
  <2> SUFFICES ASSUME NEW r \in Rounds, Untouched(r), Sent(r)
               PROVE  Cared(r)' \/ Completed(r)' # {}
    BY <1>3, <1>7 DEF RemindersHaveJobs, Cared
  <2> QED BY <1>4, <1>5, <1>6, <1>7 DEF RemindersInv, RemindersHaveJobs, Cared
<1>9. ReminderKept
  BY <1>3, <1>4, <1>5, OwedFacts DEF ReminderKept, Cared
<1> QED BY <1>1, <1>2, <1>8, <1>9 DEF RemindersDone, RemindersInv

LEMMA CalmIsPeaceful ==
  ASSUME RoundsInv, Calm, UNCHANGED <<commands, queue, time>>
  PROVE  Peaceful
<1>1. \A m \in InHand : m.type = "scheduled" => Scheduled(m.round)'
  BY DEF Calm, Scheduled
<1>2. clock <= clock
  BY DEF RoundsInv, QueueOK, Hours
<1> QED BY <1>1, <1>2 DEF Calm, Peaceful, Cared, queue, time

\* Jobs are cancelled with their announcement in hand, or for a round that is edited or
\* deleted.
LEMMA CancellingIsPeaceful ==
  ASSUME RoundsInv, TouchedByCommand, CancelForSchedule \/ CancelForReschedule \/ CancelForDeletion
  PROVE  Peaceful
<1> USE DEF Of, OpenFor
<1>1. ASSUME NEW r, CancelRoundJobs(r), Calm, Scheduled(r)' \/ ~ Untouched(r),
             UNCHANGED <<commands, time>>
      PROVE  Peaceful
  <2>1. \A m \in InHand : m.type = "scheduled" => Scheduled(m.round)'
    BY <1>1 DEF Calm, Scheduled
  <2>2. \A j \in jobs : j \in jobs' \/ j.args.round = r
    BY <1>1 DEF CancelRoundJobs, Unfinished, JobsOf
  <2>3. \A j \in jobs' : \E i \in jobs : i.args = j.args /\ i.state = j.state
    <3>1. ASSUME NEW j \in Remaining(r) PROVE \E i \in jobs : i.args = j.args /\ i.state = j.state
      <4>1. PICK i \in jobs : j = [i EXCEPT !.spared = @ \/ rows[r].state = "DELETED"]
        BY DEF Remaining, Unfinished, JobsOf
      <4>2. i \in Jobs
        BY DEF RoundsInv, QueueOK
      <4> QED BY <4>1, <4>2 DEF Jobs
    <3> QED BY <1>1, <3>1 DEF CancelRoundJobs
  <2>4. clock <= clock
    BY DEF RoundsInv, QueueOK, Hours
  <2> QED BY <1>1, <2>1, <2>2, <2>3, <2>4 DEF Calm, Peaceful, Cared, time
<1>2. CASE CancelForSchedule
  <2>1. PICK m \in Of("scheduled") : CancelRoundJobs(m.round) /\ Open([msg |-> m])
    BY <1>2 DEF CancelForSchedule
  <2>2. Scheduled(m.round)'
    BY <2>1, HandsKeep DEF Scheduled
  <2> QED BY <1>1, <1>2, <2>1, <2>2, OthersCalm DEF CancelForSchedule
<1>3. CASE CancelForReschedule
  <2>1. PICK m \in Of("rescheduled") : CancelRoundJobs(m.round) /\ Open([msg |-> m])
    BY <1>3 DEF CancelForReschedule
  <2>2. ~ Untouched(m.round)
    BY DEF TouchedByCommand, InHand, Touching
  <2> QED BY <1>1, <1>3, <2>1, <2>2, OthersCalm DEF CancelForReschedule
<1>4. CASE CancelForDeletion
  <2>1. PICK t \in OpenFor("deleteAuthorized") :
          \/ CancelRoundJobs(t.msg.round) /\ Commit(t, {})
          \/ Abort(t) /\ UNCHANGED queue
    BY <1>4 DEF CancelForDeletion
  <2>2. ~ Untouched(t.msg.round)
    BY DEF TouchedByCommand, InHand, Touching
  <2>3. Calm
    BY <2>1, OthersCalm
  <2> QED BY <1>1, <1>4, <2>1, <2>2, <2>3, CalmIsPeaceful DEF CancelForDeletion
<1> QED BY <1>2, <1>3, <1>4

\* The insert leaves a job to be done: a completed one for the same hour is not to come.
LEMMA InsertingIsPeaceful ==
  ASSUME RoundsInv, DoneWhenDue, InsertReminder \/ InsertRescheduled
  PROVE  Peaceful
<1> USE DEF Of, OpenFor
<1>1. ASSUME NEW args, ScheduleRoundReminder(args)
      PROVE  /\ jobs \subseteq jobs'
             /\ \A j \in jobs' : j.state = "scheduled" \/ j \in jobs
             /\ \E j \in jobs' : j.args = args
  <2> DEFINE job == [args |-> args, state |-> "scheduled",
                     spared |-> rows[args.round].state = "DELETED"]
  <2>1. job.args = args /\ job.state = "scheduled"
    BY Zenon
  <2>2. jobs' = IF Unique(args) THEN jobs \cup {job} ELSE jobs
    BY <1>1 DEF ScheduleRoundReminder
  <2> HIDE DEF job
  <2> QED BY <2>1, <2>2 DEF Unique
<1>2. CASE InsertRescheduled
  <2>1. Calm
    BY <1>2, OthersCalm DEF InsertRescheduled, InsertFails
  <2>2. /\ jobs \subseteq jobs'
        /\ \A j \in jobs' : j.state = "scheduled" \/ j \in jobs
    BY <1>1, <1>2 DEF InsertRescheduled
  <2>3. UNCHANGED <<commands, missed, clock>> /\ clock <= clock
    BY <1>2 DEF InsertRescheduled, time, RoundsInv, QueueOK, Hours
  <2>4. \A m \in InHand : m.type = "scheduled" => Scheduled(m.round)'
    BY <2>1 DEF Calm, Scheduled
  <2> QED BY <2>1, <2>2, <2>3, <2>4 DEF Calm, Peaceful, Cared
<1>3. CASE InsertReminder
  <2>1. PICK t \in OpenFor("scheduled") :
          \/ /\ t.msg.start - 1 > clock
             /\ ScheduleRoundReminder(Reminder(t.msg.round, t.msg.title, t.msg.start, {}))
             /\ Commit(t, {})
             /\ UNCHANGED missed
          \/ /\ missed' = missed \cup {t.msg.round}
             /\ Commit(t, {})
             /\ UNCHANGED jobs
          \/ Abort(t) /\ UNCHANGED <<jobs, missed>>
    BY <1>3 DEF InsertReminder, InsertFails
  <2> DEFINE args == Reminder(t.msg.round, t.msg.title, t.msg.start, {})
  <2>2. t \in open /\ t.msg.type = "scheduled" /\ t.msg \in Message
    BY CallFacts DEF RoundsInv
  <2>3. t.msg.start \in Nat /\ clock \in Nat
    BY <2>2, MessageFacts DEF Hours, RoundsInv, QueueOK
  <2>4. args.round = t.msg.round /\ args.start = t.msg.start
    BY DEF Reminder
  <2> HIDE DEF args
  <2>5. UNCHANGED <<commands, clock>>
    BY <1>3 DEF InsertReminder
  <2>6. /\ jobs \subseteq jobs' /\ missed \subseteq missed'
        /\ \A j \in jobs' : j.state = "scheduled" \/ j \in jobs
    BY <1>1, <2>1 DEF args
  <2>7. ASSUME Commit(t, {}), Cared(t.msg.round)' PROVE Peaceful
    <3>1. \A m \in InHand : m.type = "scheduled" => m \in InHand' \/ Cared(m.round)'
      BY <2>7, HandsKeep
    <3>2. \A m \in InHand : m.type = "scheduled" => Cared(m.round)'
      BY <3>1 DEF Scheduled, Cared
    <3>3. \A m \in InHand : m.type = "remind" => m \in InHand'
      BY <2>2, <2>7, HandsKeep
    <3>4. InHand' \subseteq InHand
      BY <2>2, <2>7, HandsTake
    <3> QED BY <2>3, <2>5, <2>6, <3>2, <3>3, <3>4 DEF Peaceful
  <2>8. ASSUME t.msg.start - 1 > clock, ScheduleRoundReminder(args)
        PROVE  Unfinished(t.msg.round)' # {}
    <3>1. PICK j \in jobs' : j.args = args
      BY <1>1, <2>8
    <3>2. j.state = "scheduled"
      BY <2>3, <2>4, <2>6, <2>8, <3>1 DEF DoneWhenDue
    <3> QED BY <2>4, <3>1, <3>2 DEF Unfinished, JobsOf
  <2>9. CASE Abort(t) /\ UNCHANGED <<jobs, missed>>
    <3>1. Calm
      BY <2>2, <2>9, OthersCalm
    <3>2. \A m \in InHand : m.type = "scheduled" => Scheduled(m.round)'
      BY <3>1 DEF Calm, Scheduled
    <3> QED BY <2>3, <2>5, <2>9, <3>1, <3>2 DEF Calm, Peaceful, Cared
  <2>10. (t.msg.start - 1 > clock /\ ScheduleRoundReminder(args)) => Cared(t.msg.round)'
    BY <2>8 DEF Cared
  <2>11. missed' = missed \cup {t.msg.round} => Cared(t.msg.round)'
    BY DEF Cared
  <2> QED BY <2>1, <2>7, <2>9, <2>10, <2>11 DEF args
<1> QED BY <1>2, <1>3

\* The worker completes its job only after its message is sent, when it is due.
LEMMA RunJobKeepsReminders ==
  ASSUME RoundsInv, RoundsInv', RemindersInv, RunJob
  PROVE  RemindersDone
<1>1. PICK j \in jobs : \E state :
        /\ JobBecomes(j, state)
        /\ state # "scheduled" => j.args.start - 1 <= clock
        /\ msgs' \in {msgs, msgs \cup {[type |-> "remind", args |-> j.args]}}
        /\ state = "completed" => msgs' = msgs \cup {[type |-> "remind", args |-> j.args]}
        /\ UNCHANGED <<commands, clock, missed, open>>
  BY DEF RunJob, FetchJob, WorkJob, RemindersInv, DoneWhenDue, time, delivery
<1>2. PICK state :
        /\ JobBecomes(j, state)
        /\ state # "scheduled" => j.args.start - 1 <= clock
        /\ msgs' \in {msgs, msgs \cup {[type |-> "remind", args |-> j.args]}}
        /\ state = "completed" => msgs' = msgs \cup {[type |-> "remind", args |-> j.args]}
        /\ UNCHANGED <<commands, clock, missed, open>>
  BY <1>1
<1> DEFINE k == [j EXCEPT !.state = state]
<1>3. k.args = j.args /\ k.state = state
  BY DEF RoundsInv, QueueOK, Jobs
<1> HIDE DEF k
<1>4. jobs' = (jobs \ {j}) \cup {k}
  BY <1>2 DEF JobBecomes, k
<1> DEFINE m == [type |-> "remind", args |-> j.args]
<1>5. m.type = "remind" /\ m.args = j.args
  OBVIOUS
<1>6. msgs' \in {msgs, msgs \cup {m}} /\ (state = "completed" => m \in msgs') /\ open' = open
  BY <1>2
<1> HIDE DEF m
<1>7. InHand' \in {InHand, InHand \cup {m}}
  BY <1>6 DEF InHand
<1>8. \A r : Untouched(r)' = Untouched(r)
  BY <1>2 DEF Untouched
<1>9. TouchedByCommand'
  BY <1>5, <1>7, <1>8 DEF RemindersInv, TouchedByCommand, Touching
<1>10. DoneWhenDue'
  BY <1>2, <1>3, <1>4 DEF RemindersInv, DoneWhenDue
<1>11. /\ Sent(j.args.round) \/ state = "completed" => Sent(j.args.round)'
       /\ \A r : r # j.args.round => (Sent(r)' <=> Sent(r))
  BY <1>5, <1>6 DEF Sent, Of
<1>12. \A r : Scheduled(r)' <=> Scheduled(r)
  BY <1>5, <1>7 DEF Scheduled
<1>13. /\ state # "completed" => Unfinished(j.args.round)' # {}
       /\ state = "completed" => Completed(j.args.round)' # {}
       /\ \A r : r # j.args.round => Unfinished(r)' = Unfinished(r) /\ Completed(r)' = Completed(r)
  BY <1>3, <1>4 DEF Unfinished, JobsOf, Completed
<1>14. RemindersHaveJobs'
  BY <1>2, <1>8, <1>11, <1>12, <1>13 DEF RemindersInv, RemindersHaveJobs
<1>15. ReminderKept
  BY <1>11, <1>12, <1>13, OwedFacts DEF ReminderKept
<1> QED BY <1>9, <1>10, <1>14, <1>15 DEF RemindersDone, RemindersInv

\* The last reminder of a round is handled when its job is done, or it was too late.
LEMMA RemindKeepsReminders ==
  ASSUME RoundsInv, RoundsInv', RemindersInv, Remind
  PROVE  RemindersDone
<1> DEFINE told(m) == [type |-> "told", round |-> m.args.round, start |-> m.args.start,
                       users |-> Told(m)]
<1>1. PICK m \in Of("remind") : Handle(m, IF Told(m) = {} THEN {} ELSE {told(m)})
  BY DEF Remind
<1>2. UNCHANGED <<commands, rows, jobs, clock, missed>>
  BY DEF Remind, table, queue, time
<1>3. told(m).type = "told" /\ told(m).round = m.args.round
  OBVIOUS
<1>4. m \in msgs /\ m.type = "remind"
  BY DEF Of
<1>5. PICK out : Handle(m, out) /\ out = IF Told(m) = {} THEN {} ELSE {told(m)}
  BY <1>1
<1> HIDE DEF told
<1>6. \A x \in out : x.type = "told"
  BY <1>3, <1>5
<1>7. InHand' \subseteq InHand \cup out /\ InHand \subseteq InHand' \cup {m}
  BY <1>4, <1>5, HandsTake, HandsKeep
<1>8. /\ \A r : Untouched(r)' = Untouched(r)
      /\ \A r : Unfinished(r)' = Unfinished(r) /\ Completed(r)' = Completed(r)
  BY <1>2 DEF Untouched, Unfinished, JobsOf, Completed
<1>9. \A r : Scheduled(r)' <=> Scheduled(r)
  BY <1>4, <1>6, <1>7 DEF Scheduled
<1>10. \A r : Sent(r)' => Sent(r)
  BY <1>6, <1>7, RemindersFly DEF Sent
<1>11. TouchedByCommand'
  BY <1>6, <1>7, <1>8 DEF RemindersInv, TouchedByCommand, Touching
<1>12. RemindersInv'
  BY <1>2, <1>8, <1>9, <1>10, <1>11
     DEF RemindersInv, DoneWhenDue, RemindersHaveJobs
<1>13. ASSUME NEW r \in Rounds, Untouched(r), Owed(r), ~ Owed(r)', r \notin missed'
       PROVE  Reminded(r)'
  <2>1. Sent(r) /\ Unfinished(r) = {} /\ ~ Scheduled(r) /\ ~ Sent(r)'
    BY <1>8, <1>9, <1>13, OwedFacts
  <2>2. PICK j \in jobs' : j.args.round = r /\ j.state = "completed"
    BY <1>2, <1>13, <2>1 DEF RemindersInv, RemindersHaveJobs, Completed
  <2>3. \A x \in Of("remind")' : x.args # j.args
    BY <2>1, <2>2 DEF Sent
  <2>4. m.args.round = r /\ m \notin msgs'
    <3>1. PICK x \in Of("remind") : x.args.round = r
      BY <2>1 DEF Sent
    <3>2. x \notin Of("remind")' /\ x \in InHand /\ x.type = "remind"
      BY <2>1, <3>1 DEF Sent, Of, InHand
    <3>3. x = m
      BY <1>7, <3>2, RemindersFly
    <3> QED BY <1>4, <3>1, <3>2, <3>3 DEF Of
  <2>5. out \subseteq msgs'
    BY <1>5, <2>4 DEF Handle, Finish
  <2>6. Recipients(rows'[r].list) = {} \/ \E x \in Of("told")' : x.round = r
    <3>1. CASE Told(m) = {}
      BY <1>2, <2>4, <3>1 DEF Told
    <3>2. CASE Told(m) # {}
      BY <1>3, <1>5, <2>4, <2>5, <3>2 DEF Of
    <3> QED BY <3>1, <3>2
  <2> QED BY <2>2, <2>3, <2>6 DEF Reminded, JobsOf
<1> QED BY <1>8, <1>12, <1>13 DEF RemindersDone, ReminderKept

LEMMA LifecycleKeepsReminders ==
  ASSUME RoundsInv, RoundsInv', RemindersInv, LifecycleNext
  PROVE  RemindersDone
<1>1. TouchedByCommand /\ DoneWhenDue
  BY DEF RemindersInv
<1>2. CASE Tick
  <2>1. InHand' = InHand /\ UNCHANGED <<commands, jobs, missed>> /\ clock' = clock + 1
    BY <1>2 DEF Tick, delivery, queue, InHand
  <2>2. clock <= clock'
    BY <2>1 DEF RoundsInv, QueueOK, Hours
  <2>3. \A m \in InHand : m.type = "scheduled" => Scheduled(m.round)'
    BY <2>1 DEF Scheduled
  <2>4. Peaceful
    BY <2>1, <2>2, <2>3 DEF Peaceful, Cared
  <2> QED BY <2>4, PeacefulKeeps
<1>3. CASE Create \/ Store \/ Announce \/ StoreMessageId \/ StoreEventId
  <2>1. UNCHANGED <<commands, queue, time>>
    BY <1>3 DEF Create, Store, Announce, StoreMessageId, StoreEventId, table
  <2> QED BY <1>3, <2>1, AnnouncingIsCalm, CalmIsPeaceful, PeacefulKeeps
<1>4. CASE ValidateEdit \/ RequestDeletion \/ HandleRoundUpdateValidated
  <2>1. UNCHANGED <<commands, queue, time>>
    BY <1>4 DEF ValidateEdit, RequestDeletion, HandleRoundUpdateValidated, ReadForEdit, WriteEdit
  <2> QED BY <1>1, <1>4, <2>1, EditsAreCalm, CalmIsPeaceful, PeacefulKeeps
<1>5. CASE MarkDeleted \/ Start \/ Answer
  <2>1. UNCHANGED <<commands, queue, time>>
    BY <1>5 DEF MarkDeleted, Start, Answer
  <2>2. Calm
    <3>1. CASE MarkDeleted
      BY <3>1, OthersCalm DEF MarkDeleted, Of
    <3>2. CASE Start \/ Answer
      <4>1. \E m \in msgs : m.type \in {"start", "answer"} /\ Handle(m, {})
        BY <3>2 DEF Start, Answer, Of
      <4> QED BY <4>1, OthersCalm
    <3> QED BY <1>5, <3>1, <3>2
  <2> QED BY <2>1, <2>2, CalmIsPeaceful, PeacefulKeeps
<1>6. CASE CancelForSchedule \/ CancelForReschedule \/ CancelForDeletion
  BY <1>1, <1>6, CancellingIsPeaceful, PeacefulKeeps
<1>7. CASE InsertReminder \/ InsertRescheduled
  BY <1>1, <1>7, InsertingIsPeaceful, PeacefulKeeps
<1> QED BY <1>2, <1>3, <1>4, <1>5, <1>6, <1>7, RunJobKeepsReminders, RemindKeepsReminders
        DEF LifecycleNext, HandleDiscordMessageIDUpdated, HandleRoundScheduleUpdate,
            HandleRoundDeleteAuthorized

\* Whatever dies, fails or is delivered again, a reminder that is owed stays owed until
\* it is sent or found too late.
THEOREM RemindersAreAlwaysKept == Spec => RemindersAreKept
<1>1. Init => RemindersInv
  <2> SUFFICES ASSUME Init PROVE RemindersInv
    OBVIOUS
  <2>1. InHand = commands /\ msgs = commands
    BY DEF Init, LifecycleInit, InHand
  <2>2. \A m \in msgs : m.type \in Commands
    <3>1. msgs \subseteq Requests
      BY <2>1, Starts, ScenariosAssumption DEF RoundsInv
    <3> QED BY <3>1 DEF Requests, LifecycleRequests, Commands
  <2>3. TouchedByCommand
    BY <2>1, <2>2 DEF TouchedByCommand, Touching, Commands
  <2>4. DoneWhenDue
    BY InitialJobsAssumption DEF DoneWhenDue, Init, LifecycleInit
  <2>5. \A r : ~ Sent(r)
    BY <2>2 DEF Sent, Of, Commands
  <2> QED BY <2>3, <2>4, <2>5 DEF RemindersInv, RemindersHaveJobs
<1>2. RoundsInv /\ RoundsInv' /\ RemindersInv /\ [Next]_vars => RemindersDone
  <2> SUFFICES ASSUME RoundsInv, RoundsInv', RemindersInv, [Next]_vars PROVE RemindersDone
    OBVIOUS
  <2>1. CASE LifecycleNext
    BY <2>1, LifecycleKeepsReminders
  <2>2. CASE Uploaded \/ URLRequested \/ HandleParseScorecardRequest \/ NormalizeScorecard
             \/ HandleScorecardNormalized \/ HandleImportCompleted
    <3>1. UNCHANGED <<commands, queue, time>>
      BY <2>2 DEF Uploaded, URLRequested, ReadForImportJob, WriteImportJob,
                  HandleParseScorecardRequest, StartParsing, FinishParsing, NormalizeScorecard,
                  HandleScorecardNormalized, Ingest, CreateRoundGroups,
                  HandleImportCompleted, ReadForApply, WriteApply
    <3> QED BY <2>2, <3>1, ImportingIsCalm, CalmIsPeaceful, PeacefulKeeps
  <2>3. CASE UNCHANGED vars
    <3>1. InHand' = InHand /\ UNCHANGED <<commands, queue, time>>
      BY <2>3 DEF vars, delivery, InHand
    <3>2. Calm
      BY <3>1 DEF Calm
    <3> QED BY <3>1, <3>2, CalmIsPeaceful, PeacefulKeeps
  <2> QED BY <2>1, <2>2, <2>3 DEF Next
<1>3. RemindersDone =>
        [\A r \in Rounds : Untouched(r) /\ Owed(r) =>
           Owed(r)' \/ Reminded(r)' \/ r \in missed']_<<queue, time, delivery>>
  BY DEF RemindersDone, ReminderKept
<1> QED BY <1>1, <1>2, <1>3, RoundsInvariant, PTL DEF Spec, RemindersAreKept, RemindersDone
=============================================================================
