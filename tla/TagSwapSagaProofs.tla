------------------------- MODULE TagSwapSagaProofs -------------------------
(***************************************************************************)
(* The swap saga, for every set of requests, however many restarts and     *)
(* rounds interfere: it keeps the ledger's invariant, gives nobody a tag   *)
(* that was not asked for on its behalf, and lets no cycle of requests     *)
(* close unnoticed.                                                        *)
(*                                                                         *)
(* SagaInv is inductive.  What a handler carries from step to step (Fits)  *)
(* is only ever compared with `asked', which grows, so what other handlers *)
(* do meanwhile cannot spoil it (HandlerMoves).  That cycles are noticed   *)
(* rests on the walk of findCycle: among users each followed by one of     *)
(* them it finds a cycle of them (CyclesAreFound).                         *)
(***************************************************************************)
EXTENDS TagSwapSaga, TagLedgerProofs, NatInductionFacts

Listings == UNION {[S -> Intents] : S \in SUBSET Members}
HandlerStates ==
  [pc : {"queued", "readOwn", "assign", "put", "list", "get", "execute", "delete", "done"},
   user : Members \cup {Nobody}, own : Tags \cup {NoTag}, target : Tags \cup {NoTag},
   keys : SUBSET Members, listing : Listings, cycle : SUBSET Members]

\* What q's handler, in state h, may rely on when `wishes' were asked for.
Fits(q, h, wishes) ==
  /\ h.pc \in {"readOwn", "assign"} => q.type = "swap" /\ h.target \in Tags
  /\ h.pc = "put" => h.user \in Members /\ h.target \in wishes[h.user]
  /\ h.pc \in {"list", "get"} => h.user \in Members
  /\ h.pc \in {"put", "list"} => DOMAIN h.listing = {}
  /\ h.pc = "get" => h.keys \cap DOMAIN h.listing = {}
  /\ h.pc = "execute" => h.cycle \subseteq DOMAIN h.listing
  /\ \A m \in DOMAIN h.listing : h.listing[m].target \in wishes[m]

HandlersFit ==
  /\ handler \in [Messages -> HandlerStates]
  /\ \A q \in Messages : Fits(q, handler[q], asked)

\* Every intent in the bucket is somebody's wish.
IntentsAreWishes ==
  /\ DOMAIN intents \subseteq Members
  /\ \A m \in DOMAIN intents : intents[m] \in Intents /\ intents[m].target \in asked[m]

AskedTypeOK == asked \in [Members -> SUBSET Tags]

SagaInv == TagInv /\ AskedTypeOK /\ IntentsAreWishes /\ HandlersFit

-----------------------------------------------------------------------------
\* The walk of findCycle is well defined, and stays wherever its steps lead.
LEMMA WalksStay ==
  ASSUME Members # {}, NEW start, NEW next, NEW S, start \in S, NEW T \in SUBSET S,
         \A x \in S : (IF x = Nobody THEN Nobody ELSE next[x]) \in T
  PROVE  /\ CycleFrom(start, next) \subseteq T \ {Nobody}
         /\ Nobody \notin T => CycleFrom(start, next) # {}
<1> DEFINE N == Cardinality(Members)
           IsWalk(w, n) == w = [k \in 0 .. n |-> IF k = 0 THEN start ELSE
                                  IF w[k - 1] = Nobody THEN Nobody ELSE next[w[k - 1]]]
           walk == CHOOSE w : IsWalk(w, 2 * N)
<1>1. CycleFrom(start, next) = {walk[n] : n \in N .. 2 * N} \ {Nobody}
  BY DEF CycleFrom
<1>2. N \in Nat /\ N > 0
  BY MembersAssumption, FS_CardinalityType, FS_EmptySet
<1>3. IsWalk(walk, 2 * N)
  <2> DEFINE W == {n \in Nat : \E w : IsWalk(w, n)}
  <2>1. 0 \in W
    <3>1. IsWalk([k \in 0 .. 0 |-> start], 0)
      OBVIOUS
    <3> QED BY <3>1
  <2>2. ASSUME NEW n \in Nat, n \in W PROVE n + 1 \in W
    <3>1. PICK w : IsWalk(w, n)
      BY <2>2
    <3> DEFINE v == [k \in 0 .. n + 1 |-> IF k = 0 THEN start ELSE
                                  IF w[k - 1] = Nobody THEN Nobody ELSE next[w[k - 1]]]
    <3>2. \A k \in 0 .. n : v[k] = w[k]
      BY <3>1
    <3>3. ASSUME NEW k \in 0 .. n + 1, k # 0 PROVE v[k - 1] = w[k - 1]
      <4>1. k - 1 \in 0 .. n
        BY <3>3
      <4> HIDE DEF v
      <4> QED BY <3>2, <4>1
    <3>4. IsWalk(v, n + 1)
      BY <3>3
    <3> HIDE DEF v
    <3> QED BY <3>4
  <2> HIDE DEF W
  <2>3. 2 * N \in W
    BY <1>2, <2>1, <2>2, SetInduction
  <2> QED BY <2>3 DEF W
<1> HIDE DEF walk
<1>4. ASSUME NEW n \in 1 .. 2 * N
      PROVE  walk[n] = IF walk[n - 1] = Nobody THEN Nobody ELSE next[walk[n - 1]]
  BY <1>2, <1>3
<1>5. \A n \in 0 .. 2 * N : walk[n] \in S
  <2> DEFINE Q == {n \in Nat : n \in 0 .. 2 * N => walk[n] \in S}
  <2>1. 0 \in Q
    BY <1>2, <1>3
  <2>2. ASSUME NEW n \in Nat, n \in Q PROVE n + 1 \in Q
    <3> SUFFICES ASSUME n + 1 \in 0 .. 2 * N PROVE walk[n + 1] \in S
      OBVIOUS
    <3>1. walk[n + 1] = IF walk[n] = Nobody THEN Nobody ELSE next[walk[n]]
      BY <1>2, <1>3
    <3>2. walk[n] \in S
      BY <1>2, <2>2
    <3> QED BY <3>1, <3>2
  <2> HIDE DEF Q
  <2>3. Nat \subseteq Q
    BY <2>1, <2>2, SetInduction
  <2> QED BY <1>2, <2>3 DEF Q
<1>6. ASSUME NEW n \in N .. 2 * N PROVE walk[n] \in T
  <2>1. n \in 1 .. 2 * N /\ n - 1 \in 0 .. 2 * N
    BY <1>2
  <2>2. walk[n] = IF walk[n - 1] = Nobody THEN Nobody ELSE next[walk[n - 1]]
    BY <1>4, <2>1
  <2> QED BY <1>5, <2>1, <2>2
<1>7. walk[N] \in {walk[n] : n \in N .. 2 * N}
  BY <1>2
<1> QED BY <1>1, <1>6, <1>7

\* The cycle findCycle finds is made of users with an intent ...
LEMMA CyclesAreListed ==
  ASSUME NEW start \in Members, NEW L \in SUBSET Members,
         NEW next \in [Members -> L \cup {Nobody}]
  PROVE  CycleFrom(start, next) \subseteq L
<1> DEFINE S == Members \cup {Nobody}  T == L \cup {Nobody}
<1>1. \A x \in S : (IF x = Nobody THEN Nobody ELSE next[x]) \in T
  OBVIOUS
<1>2. T \in SUBSET S /\ start \in S /\ Members # {} /\ T \ {Nobody} \subseteq L
  OBVIOUS
<1> HIDE DEF S, T
<1>3. CycleFrom(start, next) \subseteq T \ {Nobody}
  BY <1>1, <1>2, WalksStay
<1> QED BY <1>2, <1>3

\* ... and there is one among users each of whom is followed by one of them.
LEMMA CyclesAreFound ==
  ASSUME NEW C \in SUBSET Members, NEW start \in C, NEW next, \A m \in C : next[m] \in C
  PROVE  CycleFrom(start, next) # {} /\ CycleFrom(start, next) \subseteq C
<1>1. \A x \in C : (IF x = Nobody THEN Nobody ELSE next[x]) \in C
  BY MembersAssumption
<1>2. Nobody \notin C
  BY MembersAssumption
<1> QED BY <1>1, <1>2, WalksStay

-----------------------------------------------------------------------------
\* One handler moves on, to a state that fits; wishes are only added.
LEMMA HandlerMoves ==
  ASSUME HandlersFit, NEW q \in Messages, NEW h \in HandlerStates, Set(q, h),
         \A m \in Members : asked[m] \subseteq asked'[m], Fits(q, h, asked')
  PROVE  HandlersFit'
<1>1. handler' \in [Messages -> HandlerStates]
  BY DEF HandlersFit, Set
<1>2. ASSUME NEW p \in Messages PROVE Fits(p, handler'[p], asked')
  <2>1. CASE p = q
    BY <2>1 DEF HandlersFit, Set
  <2>2. CASE p # q
    <3>1. handler'[p] = handler[p] /\ handler[p] \in HandlerStates
      BY <2>2 DEF HandlersFit, Set
    <3>2. DOMAIN handler[p].listing \subseteq Members
      BY <3>1 DEF HandlerStates, Listings
    <3>3. Fits(p, handler[p], asked)
      BY DEF HandlersFit
    <3> QED BY <3>1, <3>2, <3>3 DEF Fits
  <2> QED BY <2>1, <2>2
<1> QED BY <1>1, <1>2 DEF HandlersFit

\* The states in which a handler has read nothing yet fit any message.
LEMMA FreshStatesFit ==
  /\ Waiting \in HandlerStates /\ Done \in HandlerStates
  /\ \A q, wishes : Fits(q, Waiting, wishes) /\ Fits(q, Done, wishes)
<1>1. <<>> \in Listings /\ DOMAIN <<>> = {}
  <2>1. <<>> \in [{} -> Intents]
    OBVIOUS
  <2> QED BY <2>1 DEF Listings
<1>2. Waiting \in HandlerStates /\ Done \in HandlerStates
  BY <1>1 DEF Waiting, Done, HandlerStates
<1>3. ASSUME NEW q, NEW wishes PROVE Fits(q, Waiting, wishes) /\ Fits(q, Done, wishes)
  BY <1>1 DEF Waiting, Done, Fits
<1> QED BY <1>2, <1>3

\* A message asks for tags on behalf of members, one each.
LEMMA WantedFacts ==
  ASSUME SagaInv, NEW q \in Messages, ReadyToAssign(q)
  PROVE  DOMAIN Wanted(q) \subseteq Members /\ Wanted(q) \in [DOMAIN Wanted(q) -> Tags]
<1>1. CASE q.type = "swap"
  <2>1. q.requestor \in Members
    BY <1>1, MessagesAssumption
  <2>2. handler[q].target \in Tags
    BY <1>1 DEF SagaInv, HandlersFit, Fits, ReadyToAssign, At
  <2> QED BY <1>1, <2>1, <2>2 DEF Wanted
<1>2. CASE q.type # "swap"
  BY <1>2, MessagesAssumption DEF Wanted
<1> QED BY <1>1, <1>2

\* Recording a batch adds its wishes and forgets none.
LEMMA RecordedWishes ==
  ASSUME AskedTypeOK, IntentsAreWishes, NEW req, DOMAIN req \subseteq Members,
         req \in [DOMAIN req -> Tags], RecordAsked(req)
  PROVE  /\ AskedTypeOK'
         /\ \A m \in Members : asked[m] \subseteq asked'[m]
         /\ \A m \in DOMAIN req : req[m] \in asked'[m]
<1>1. asked' = [m \in Members |-> IF m \in DOMAIN req THEN asked[m] \cup {req[m]} ELSE asked[m]]
  BY DEF RecordAsked
<1>2. \A m \in Members : asked[m] \in SUBSET Tags
  BY DEF AskedTypeOK
<1> QED BY <1>1, <1>2 DEF AskedTypeOK

\* More wishes leave the intents wishes.
LEMMA IntentsStayWishes ==
  ASSUME IntentsAreWishes, \A m \in Members : asked[m] \subseteq asked'[m],
         UNCHANGED intents
  PROVE  IntentsAreWishes'
  BY DEF IntentsAreWishes

\* A step that leaves both tables alone keeps the ledger's invariant.
LEMMA UntouchedLedger == TagInv /\ UNCHANGED tagVars => TagInv'
  BY TagNextInv DEF TagNext

-----------------------------------------------------------------------------
\* Every step of a handler keeps the invariant and gives tags that were asked for.
LEMMA HandlerStepInv ==
  ASSUME SagaInv, NEW q \in Messages, HandlerStep(q)
  PROVE  /\ SagaInv'
         /\ \A m \in Members : tag'[m] # tag[m] => tag'[m] \in asked'[m]
<1> DEFINE h == handler[q]
           TagsAskedFor == \A m \in Members : tag'[m] # tag[m] => tag'[m] \in asked'[m]
<1>a. /\ TagInv /\ AskedTypeOK /\ IntentsAreWishes /\ HandlersFit
      /\ h \in HandlerStates /\ Fits(q, h, asked)
  BY DEF SagaInv, HandlersFit
<1>b. ASSUME UNCHANGED <<tagVars, intents, asked>>, NEW g \in HandlerStates, Set(q, g),
             Fits(q, g, asked)
      PROVE  SagaInv' /\ TagsAskedFor
  <2>1. HandlersFit'
    BY <1>a, <1>b, HandlerMoves
  <2> QED BY <1>a, <1>b, <2>1, UntouchedLedger
          DEF SagaInv, AskedTypeOK, IntentsAreWishes, tagVars
<1>c. \A m \in Members : tag[m] \in Tags \cup {NoTag}
  BY <1>a DEF TagInv, TagTypeOK
<1>1. ASSUME ReadTargetTag(q) PROVE SagaInv' /\ TagsAskedFor
  <2>1. q.requestor \in Members /\ q.target \in Members
    BY <1>1, MessagesAssumption DEF ReadTargetTag
  <2>2. CASE tag[q.target] = NoTag
    BY <1>1, <1>b, <2>2, FreshStatesFit DEF ReadTargetTag
  <2>3. CASE tag[q.target] # NoTag
    <3> DEFINE g == [Waiting EXCEPT !.pc = "readOwn", !.user = q.requestor,
                                    !.target = tag[q.target]]
    <3>1. g \in HandlerStates
      BY <1>c, <2>1, FreshStatesFit DEF HandlerStates, Waiting
    <3>2. Fits(q, g, asked)
      BY <1>1, <1>c, <2>1, <2>3, FreshStatesFit DEF Fits, Waiting, ReadTargetTag
    <3> QED BY <1>1, <1>b, <2>3, <3>1, <3>2 DEF ReadTargetTag
  <2> QED BY <2>2, <2>3
<1>2. ASSUME ReadOwnTag(q) PROVE SagaInv' /\ TagsAskedFor
  <2> DEFINE g == [h EXCEPT !.pc = "assign", !.own = tag[q.requestor]]
  <2>1. q.type = "swap" /\ q.requestor \in Members
    BY <1>2, <1>a, MessagesAssumption DEF ReadOwnTag, At, Fits
  <2>2. g \in HandlerStates
    BY <1>a, <1>c, <2>1 DEF HandlerStates
  <2>3. Fits(q, g, asked)
    BY <1>2, <1>a, <2>1 DEF Fits, ReadOwnTag, At, HandlerStates
  <2> QED BY <1>2, <1>b, <2>2, <2>3 DEF ReadOwnTag
<1>3. ASSUME AssignDirectly(q) PROVE SagaInv' /\ TagsAskedFor
  <2> DEFINE req == Wanted(q)
  <2>1. DOMAIN req \subseteq Members /\ req \in [DOMAIN req -> Tags]
    BY <1>3, WantedFacts DEF AssignDirectly
  <2>2. ApplyTagAssignments(req) /\ RecordAsked(req) /\ Set(q, Done) /\ UNCHANGED intents
    BY <1>3 DEF AssignDirectly
  <2> HIDE DEF req
  <2>3. TagInv' /\ \A m \in Members : tag'[m] = IF m \in DOMAIN req THEN req[m] ELSE tag[m]
    BY <1>a, <2>1, <2>2, ApplyTagAssignmentsStep
  <2>4. /\ AskedTypeOK'
        /\ \A m \in Members : asked[m] \subseteq asked'[m]
        /\ \A m \in DOMAIN req : req[m] \in asked'[m]
    BY <1>a, <2>1, <2>2, RecordedWishes
  <2>5. IntentsAreWishes' /\ HandlersFit'
    BY <1>a, <2>2, <2>4, IntentsStayWishes, HandlerMoves, FreshStatesFit
  <2> QED BY <2>3, <2>4, <2>5 DEF SagaInv
<1>4. ASSUME NeedSwap(q) PROVE SagaInv' /\ TagsAskedFor
  <2> DEFINE req == Wanted(q)
             user == SwapRequestor(req)
             g == [Waiting EXCEPT !.pc = "put", !.user = user,
                     !.own = IF q.type = "swap" THEN h.own ELSE tag[user],
                     !.target = req[user]]
  <2>1. DOMAIN req \subseteq Members /\ req \in [DOMAIN req -> Tags]
    BY <1>4, WantedFacts DEF NeedSwap
  <2>2. Blocked(req) # {} /\ RecordAsked(req) /\ Set(q, g) /\ UNCHANGED <<tagVars, intents>>
    BY <1>4 DEF NeedSwap
  <2> HIDE DEF req
  <2>3. user \in DOMAIN req
    <3>1. Blocked(req) \subseteq DOMAIN req
      BY DEF Blocked
    <3>2. \E p \in Blocked(req) : \A r \in Blocked(req) : req[p] <= req[r]
      <4> DEFINE T == {req[p] : p \in Blocked(req)}
      <4>1. T \in SUBSET Nat /\ T # {}
        BY <2>1, <2>2, <3>1, TagsAssumption
      <4>2. PICK x \in T : \A y \in T : x <= y
        BY <4>1, LeastNatural
      <4> QED BY <4>2
    <3> QED BY <3>1, <3>2 DEF SwapRequestor
  <2>4. /\ AskedTypeOK'
        /\ \A m \in Members : asked[m] \subseteq asked'[m]
        /\ \A m \in DOMAIN req : req[m] \in asked'[m]
    BY <1>a, <2>1, <2>2, RecordedWishes
  <2> HIDE DEF user
  <2>5. g \in HandlerStates
    BY <1>a, <1>c, <2>1, <2>3, FreshStatesFit DEF HandlerStates, Waiting
  <2>6. Fits(q, g, asked')
    BY <2>1, <2>3, <2>4, FreshStatesFit DEF Fits, Waiting
  <2>7. IntentsAreWishes' /\ HandlersFit'
    BY <1>a, <2>2, <2>4, <2>5, <2>6, IntentsStayWishes, HandlerMoves
  <2> QED BY <1>a, <2>2, <2>4, <2>7, UntouchedLedger DEF SagaInv, tagVars
<1>5. ASSUME PutIntent(q) PROVE SagaInv' /\ TagsAskedFor
  <2> DEFINE g == [h EXCEPT !.pc = "list"]
  <2>1. /\ h.user \in Members /\ h.target \in asked[h.user] /\ h.target \in Tags
        /\ DOMAIN h.listing = {}
    BY <1>5, <1>a DEF PutIntent, At, Fits, AskedTypeOK
  <2>2. /\ intents' = [m \in DOMAIN intents \cup {h.user} |->
                         IF m = h.user THEN [cur |-> h.own, target |-> h.target] ELSE intents[m]]
        /\ Set(q, g) /\ UNCHANGED <<tagVars, asked>>
    BY <1>5 DEF PutIntent
  <2>3. [cur |-> h.own, target |-> h.target] \in Intents
    BY <1>a, <2>1 DEF Intents, HandlerStates
  <2>4. IntentsAreWishes'
    BY <1>a, <2>1, <2>2, <2>3 DEF IntentsAreWishes
  <2>5. g \in HandlerStates
    BY <1>a DEF HandlerStates
  <2>6. Fits(q, g, asked)
    BY <1>a, <2>1 DEF Fits, HandlerStates
  <2>7. HandlersFit'
    BY <1>a, <2>2, <2>5, <2>6, HandlerMoves
  <2> QED BY <1>a, <2>2, <2>4, <2>7, UntouchedLedger DEF SagaInv, AskedTypeOK, tagVars
<1>6. ASSUME ListKeys(q) PROVE SagaInv' /\ TagsAskedFor
  <2> DEFINE g == [h EXCEPT !.pc = "get", !.keys = DOMAIN intents]
  <2>1. g \in HandlerStates
    BY <1>a DEF HandlerStates, IntentsAreWishes
  <2>2. Fits(q, g, asked)
    <3>1. h.user \in Members /\ DOMAIN h.listing = {}
      BY <1>6, <1>a DEF Fits, ListKeys, At
    <3> QED BY <1>a, <3>1 DEF Fits, HandlerStates
  <2> QED BY <1>6, <1>b, <2>1, <2>2 DEF ListKeys
<1>7. ASSUME GetIntent(q) PROVE SagaInv' /\ TagsAskedFor
  <2>1. PICK m \in h.keys :
          LET read == IF m \in DOMAIN intents THEN DOMAIN h.listing \cup {m}
                                              ELSE DOMAIN h.listing
          IN  Set(q, [h EXCEPT !.keys = @ \ {m},
                        !.listing = [u \in read |-> IF u = m THEN intents[m]
                                                             ELSE h.listing[u]]])
    BY <1>7 DEF GetIntent
  <2> DEFINE read == IF m \in DOMAIN intents THEN DOMAIN h.listing \cup {m}
                                             ELSE DOMAIN h.listing
             listing == [u \in read |-> IF u = m THEN intents[m] ELSE h.listing[u]]
             g == [h EXCEPT !.keys = @ \ {m}, !.listing = listing]
  <2>2. DOMAIN h.listing \subseteq Members /\ \A u \in DOMAIN h.listing : h.listing[u] \in Intents
    BY <1>a DEF HandlerStates, Listings
  <2>3. m \notin DOMAIN h.listing
    BY <1>7, <1>a, <2>1 DEF Fits, GetIntent, At
  <2>4. read \subseteq Members
    BY <1>a, <2>2 DEF IntentsAreWishes
  <2>5. \A u \in read : IF u = m THEN u \in DOMAIN intents ELSE u \in DOMAIN h.listing
    BY <2>3
  <2>6. \A u \in read : listing[u] \in Intents /\ listing[u].target \in asked[u]
    BY <1>a, <2>2, <2>5 DEF IntentsAreWishes, Fits
  <2>7. listing \in Listings
    <3>1. listing \in [read -> Intents]
      BY <2>6
    <3> HIDE DEF read, listing
    <3> QED BY <2>4, <3>1 DEF Listings
  <2>8. Set(q, g) /\ UNCHANGED <<tagVars, intents, asked>>
    BY <1>7, <2>1 DEF GetIntent
  <2>9. DOMAIN listing \subseteq DOMAIN h.listing \cup {m}
    OBVIOUS
  <2> HIDE DEF listing
  <2>10. g \in HandlerStates
    BY <1>a, <2>7 DEF HandlerStates
  <2>11. Fits(q, g, asked)
    <3>1. h.pc = "get" /\ h.user \in Members /\ h.keys \cap DOMAIN h.listing = {}
      BY <1>7, <1>a DEF Fits, GetIntent, At
    <3>2. \A u \in DOMAIN listing : listing[u].target \in asked[u]
      BY <2>6 DEF listing
    <3> QED BY <1>a, <2>9, <3>1, <3>2 DEF Fits, HandlerStates
  <2> QED BY <1>b, <2>8, <2>10, <2>11
<1>8. ASSUME FindCycle(q) PROVE SagaInv' /\ TagsAskedFor
  <2>1. PICK next \in Walks(h.listing) :
          LET cycle == CycleFrom(h.user, next)
          IN  IF cycle = {} THEN Set(q, Done)
              ELSE Set(q, [h EXCEPT !.pc = "execute", !.cycle = cycle])
    BY <1>8 DEF FindCycle
  <2> DEFINE cycle == CycleFrom(h.user, next)
             g == [h EXCEPT !.pc = "execute", !.cycle = cycle]
  <2>2. h.user \in Members /\ DOMAIN h.listing \in SUBSET Members
    BY <1>8, <1>a DEF FindCycle, At, Fits, HandlerStates, Listings
  <2>3. next \in [Members -> DOMAIN h.listing \cup {Nobody}]
    BY DEF Walks
  <2>4. cycle \subseteq DOMAIN h.listing
    BY <2>2, <2>3, CyclesAreListed
  <2>5. IF cycle = {} THEN Set(q, Done) ELSE Set(q, g)
    BY <2>1
  <2> HIDE DEF cycle
  <2>6. g \in HandlerStates
    BY <1>a, <2>2, <2>4 DEF HandlerStates
  <2>7. Fits(q, g, asked)
    BY <1>a, <2>4 DEF Fits, HandlerStates
  <2>8. UNCHANGED <<tagVars, intents, asked>>
    BY <1>8 DEF FindCycle
  <2> QED BY <1>b, <2>5, <2>6, <2>7, <2>8, FreshStatesFit
<1>9. ASSUME ExecuteCycle(q) PROVE SagaInv' /\ TagsAskedFor
  <2> DEFINE req == CycleRequests(h)
             g == [h EXCEPT !.pc = "delete"]
  <2>1. h.cycle \subseteq DOMAIN h.listing /\ DOMAIN h.listing \subseteq Members
    BY <1>9, <1>a DEF ExecuteCycle, At, Fits, HandlerStates, Listings
  <2>2. \A m \in h.cycle : h.listing[m].target \in asked[m] /\ h.listing[m].target \in Tags
    BY <1>a, <2>1 DEF Fits, AskedTypeOK
  <2>3. /\ DOMAIN req \subseteq Members /\ req \in [DOMAIN req -> Tags]
        /\ \A m \in DOMAIN req : req[m] \in asked[m]
    BY <2>1, <2>2 DEF CycleRequests
  <2>4. g \in HandlerStates /\ Fits(q, g, asked)
    BY <1>a DEF HandlerStates, Fits
  <2>5. \/ ApplyTagAssignments(req) /\ Set(q, g)
        \/ UNCHANGED tagVars /\ (Set(q, Waiting) \/ Set(q, g))
    BY <1>9 DEF ExecuteCycle
  <2>6. UNCHANGED <<intents, asked>>
    BY <1>9 DEF ExecuteCycle
  <2> HIDE DEF req
  <2>7. CASE ApplyTagAssignments(req) /\ Set(q, g)
    <3>1. TagInv' /\ \A m \in Members : tag'[m] = IF m \in DOMAIN req THEN req[m] ELSE tag[m]
      BY <1>a, <2>3, <2>7, ApplyTagAssignmentsStep
    <3>2. HandlersFit'
      BY <1>a, <2>4, <2>6, <2>7, HandlerMoves
    <3> QED BY <1>a, <2>3, <2>6, <3>1, <3>2 DEF SagaInv, AskedTypeOK, IntentsAreWishes
  <2>8. CASE UNCHANGED tagVars /\ (Set(q, Waiting) \/ Set(q, g))
    BY <1>b, <2>4, <2>6, <2>8, FreshStatesFit
  <2> QED BY <2>5, <2>7, <2>8
<1>10. ASSUME DeleteIntent(q) PROVE SagaInv' /\ TagsAskedFor
  <2>1. PICK m \in h.cycle :
          /\ intents' = [u \in DOMAIN intents \ {m} |-> intents[u]]
          /\ Set(q, IF h.cycle = {m} THEN Done ELSE [h EXCEPT !.cycle = @ \ {m}])
    BY <1>10 DEF DeleteIntent
  <2> DEFINE g == [h EXCEPT !.cycle = @ \ {m}]
  <2>2. UNCHANGED <<tagVars, asked>>
    BY <1>10 DEF DeleteIntent
  <2>3. IntentsAreWishes'
    BY <1>a, <2>1, <2>2 DEF IntentsAreWishes
  <2>4. g \in HandlerStates /\ Fits(q, g, asked)
    BY <1>10, <1>a DEF HandlerStates, Fits, DeleteIntent, At
  <2>5. HandlersFit'
    BY <1>a, <2>1, <2>2, <2>4, FreshStatesFit, HandlerMoves
  <2> QED BY <1>a, <2>2, <2>3, <2>5, UntouchedLedger DEF SagaInv, AskedTypeOK, tagVars
<1> QED BY <1>1, <1>2, <1>3, <1>4, <1>5, <1>6, <1>7, <1>8, <1>9, <1>10 DEF HandlerStep

-----------------------------------------------------------------------------
\* At first nobody has asked for anything and the tags are those of InitialTag, each
\* taken through an assignment.
LEMMA SagaInitInv == SagaInit => SagaInv
<1> SUFFICES ASSUME SagaInit PROVE SagaInv
  OBVIOUS
<1>1. TagTypeOK
  <2>1. lastHolder \in [Tags -> Members \cup {Nobody}]
    BY DEF SagaInit
  <2> QED BY <2>1, InitialTagAssumption DEF SagaInit, TagTypeOK
<1>2. UniqueTags
  BY InitialTagAssumption DEF SagaInit, UniqueTags, NoTag
<1>3. HistoryExplainsTags
  <2> SUFFICES ASSUME NEW m \in Members, tag[m] > NoTag
               PROVE  lastHolder[tag[m]] = m /\ lastTaken[m] = tag[m]
    BY DEF HistoryExplainsTags
  <2>1. tag[m] \in Tags /\ InitialTag[m] = tag[m] /\ InitialTag[m] # NoTag
    BY InitialTagAssumption DEF SagaInit, NoTag
  <2>2. \A p \in Members : InitialTag[p] = tag[m] => p = m
    BY <2>1, InitialTagAssumption
  <2>3. lastHolder[tag[m]] = CHOOSE p \in Members : InitialTag[p] = tag[m]
    BY <2>1 DEF SagaInit
  <2> QED BY <2>1, <2>2, <2>3 DEF SagaInit
<1>4. AskedTypeOK /\ IntentsAreWishes
  BY DEF SagaInit, AskedTypeOK, IntentsAreWishes
<1>5. HandlersFit
  BY FreshStatesFit DEF SagaInit, HandlersFit
<1> QED BY <1>1, <1>2, <1>3, <1>4, <1>5 DEF SagaInv, TagInv

\* Handlers, restarts and rounds keep the invariant.
LEMMA SagaNextInv == SagaInv /\ [SagaNext]_allVars => SagaInv'
<1> SUFFICES ASSUME SagaInv, [SagaNext]_allVars PROVE SagaInv'
  OBVIOUS
<1>1. ASSUME NEW q \in Messages, HandlerStep(q) PROVE SagaInv'
  BY <1>1, HandlerStepInv
<1>2. ASSUME Crash PROVE SagaInv'
  <2>1. handler' = [q \in Messages |-> IF At(q, "done") THEN handler[q] ELSE Waiting]
    BY <1>2 DEF Crash
  <2>2. UNCHANGED <<tagVars, intents, asked>>
    BY <1>2 DEF Crash
  <2>3. HandlersFit'
    BY <2>1, <2>2, FreshStatesFit DEF SagaInv, HandlersFit
  <2> QED BY <2>2, <2>3, UntouchedLedger DEF SagaInv, AskedTypeOK, IntentsAreWishes
<1>3. ASSUME PlayRound PROVE SagaInv'
  <2>1. TagInv'
    BY <1>3, ReassignTagsStep DEF PlayRound, SagaInv
  <2>2. UNCHANGED <<intents, handler, asked>>
    BY <1>3 DEF PlayRound
  <2> QED BY <2>1, <2>2 DEF SagaInv, AskedTypeOK, IntentsAreWishes, HandlersFit
<1>4. CASE UNCHANGED allVars
  <2>1. UNCHANGED <<tagVars, intents, handler, asked>>
    BY <1>4 DEF allVars, sagaVars
  <2> QED BY <2>1, UntouchedLedger
          DEF SagaInv, AskedTypeOK, IntentsAreWishes, HandlersFit
<1> QED BY <1>1, <1>2, <1>3, <1>4 DEF SagaNext

LEMMA SagaInvariant == SagaSpec => []SagaInv
  BY SagaInitInv, SagaNextInv, PTL DEF SagaSpec

\* The bucket and the handlers' locals keep their types, whatever they read while
\* other handlers put and delete intents.
THEOREM SagaTypeCorrect == SagaSpec => []SagaTypeOK
<1>1. SagaInv => SagaTypeOK
  <2> SUFFICES ASSUME SagaInv, NEW q \in Messages
               PROVE  LET h == handler[q]
                      IN  /\ h \in HandlerStates
                          /\ DOMAIN h.listing \subseteq Members
                          /\ \A m \in DOMAIN h.listing : h.listing[m] \in Intents
    BY DEF SagaInv, TagInv, AskedTypeOK, IntentsAreWishes, SagaTypeOK, HandlerStates
  <2> QED BY DEF SagaInv, HandlersFit, HandlerStates, Listings
<1> QED BY <1>1, SagaInvariant, PTL

\* Swaps go through the same batches as assignments: tags stay unique and explained
\* by the history while sagas run, restart and overlap with rounds.
THEOREM SwapsKeepTheLedger == SagaSpec => [](UniqueTags /\ HistoryExplainsTags)
<1>1. SagaInv => UniqueTags /\ HistoryExplainsTags
  BY DEF SagaInv, TagInv
<1> QED BY <1>1, SagaInvariant, PTL

\* A handler never gives a member a tag that no request asked for on its behalf, nor
\* takes its tag without giving it one: not even when it executes a cycle whose
\* intents were overwritten or deleted since it read them.
THEOREM SwapsAreAlwaysAskedFor == SagaSpec => SwapsAreAskedFor
<1>1. SagaInv => ((\E q \in Messages : HandlerStep(q)) =>
                    \A m \in Members : tag'[m] # tag[m] => tag'[m] \in asked'[m])
  BY HandlerStepInv
<1> QED BY <1>1, SagaInvariant, PTL DEF SagaSpec, SwapsAreAskedFor
-----------------------------------------------------------------------------
\* Cycles are noticed.

\* Nothing is noticed or given up by a step that leaves the bucket alone, if the handler
\* that moves goes on noticing what it did.
LEMMA NoticedStill ==
  ASSUME HandlersFit, NEW q \in Messages, NEW g, Set(q, g), UNCHANGED intents,
         NEW C \in SUBSET Members, Closed(C)',
         Closed(C) /\ Notices(handler[q], C) => Notices(g, C)
  PROVE  Noticed(C)' \/ (Closed(C) /\ ~Noticed(C))
<1>1. Closed(C)
  BY DEF Closed
<1>2. SUFFICES ASSUME NEW p \in Messages, Notices(handler[p], C) PROVE Noticed(C)'
  BY <1>1 DEF Noticed
<1>3. PICK h : h = handler'[p]
  OBVIOUS
<1>4. h = IF p = q THEN g ELSE handler[p]
  BY <1>3 DEF HandlersFit, Set
<1>5. Notices(h, C)
  BY <1>1, <1>2, <1>4
<1>6. Notices(h, C)'
  BY <1>5 DEF Notices
<1> QED BY <1>3, <1>6 DEF Noticed, Notices

\* A handler stores its intent before it looks: whatever cycle the intent closes, its
\* handler is to read all of it.
LEMMA PutIntentNotices ==
  ASSUME SagaInv, NEW q \in Messages, PutIntent(q), NEW C \in SUBSET Members, Closed(C)'
  PROVE  Noticed(C)' \/ (Closed(C) /\ ~Noticed(C))
<1> DEFINE h == handler[q]
           g == [h EXCEPT !.pc = "list"]
<1>1. h \in HandlerStates /\ h.pc = "put" /\ handler' = [handler EXCEPT ![q] = g]
  BY DEF SagaInv, HandlersFit, PutIntent, At, Set
<1>2. \A p \in Messages : handler'[p] = IF p = q THEN g ELSE handler[p]
  BY <1>1 DEF SagaInv, HandlersFit
<1>3. intents' = [m \in DOMAIN intents \cup {h.user} |->
                    IF m = h.user THEN [cur |-> h.own, target |-> h.target] ELSE intents[m]]
  BY DEF PutIntent
<1>4. CASE h.user \in C
  <2>1. PICK k : k = handler'[q]
    OBVIOUS
  <2>2. k.pc = "list" /\ k.user \in C
    BY <1>1, <1>2, <1>4, <2>1 DEF HandlerStates
  <2>3. Notices(k, C)'
    BY <2>2 DEF Notices
  <2> QED BY <2>1, <2>3 DEF Noticed, Notices
<1>5. CASE h.user \notin C
  <2>1. C \subseteq DOMAIN intents /\ \A m \in C : intents'[m] = intents[m]
    BY <1>3, <1>5 DEF Closed
  <2>2. Closed(C)
    BY <2>1 DEF Closed
  <2> SUFFICES ASSUME NEW p \in Messages, Notices(handler[p], C) PROVE Noticed(C)'
    BY <2>2 DEF Noticed
  <2>3. PICK k : k = handler[p]
    OBVIOUS
  <2>4. p # q
    BY <1>1 DEF Notices
  <2>5. k = handler'[p]
    BY <1>2, <2>3, <2>4
  <2>6. Notices(k, C)'
    BY <2>1, <2>3 DEF Notices
  <2> QED BY <2>5, <2>6 DEF Noticed, Notices
<1> QED BY <1>4, <1>5

\* What is deleted closes no cycle any more.
LEMMA DeleteIntentNotices ==
  ASSUME SagaInv, NEW q \in Messages, DeleteIntent(q), NEW C \in SUBSET Members, Closed(C)'
  PROVE  Noticed(C)' \/ (Closed(C) /\ ~Noticed(C))
<1> DEFINE h == handler[q]
<1>1. h \in HandlerStates /\ h.pc = "delete"
  BY DEF SagaInv, HandlersFit, DeleteIntent, At
<1>2. PICK m \in h.cycle :
        /\ intents' = [u \in DOMAIN intents \ {m} |-> intents[u]]
        /\ Set(q, IF h.cycle = {m} THEN Done ELSE [h EXCEPT !.cycle = @ \ {m}])
  BY DEF DeleteIntent
<1>3. m \notin C /\ C \subseteq DOMAIN intents /\ \A u \in C : intents'[u] = intents[u]
  BY <1>2 DEF Closed
<1>4. Closed(C)
  BY <1>3 DEF Closed
<1> SUFFICES ASSUME NEW p \in Messages, Notices(handler[p], C) PROVE Noticed(C)'
  BY <1>4 DEF Noticed
<1>5. CASE p = q
  <2>1. h.cycle \cap C # {}
    BY <1>1, <1>5 DEF Notices
  <2>2. PICK k : k = [h EXCEPT !.cycle = @ \ {m}]
    OBVIOUS
  <2>3. handler'[q] = k
    BY <1>2, <1>3, <2>1, <2>2 DEF Set, SagaInv, HandlersFit
  <2>4. k.pc = "delete" /\ k.cycle \cap C # {}
    BY <1>1, <1>3, <2>1, <2>2 DEF HandlerStates
  <2>5. Notices(k, C)'
    BY <2>4 DEF Notices
  <2> QED BY <2>3, <2>5 DEF Noticed, Notices
<1>6. CASE p # q
  <2>1. PICK k : k = handler[p]
    OBVIOUS
  <2>2. k = handler'[p]
    BY <1>2, <1>6, <2>1 DEF Set, SagaInv, HandlersFit
  <2>3. Notices(k, C)'
    BY <1>3, <2>1 DEF Notices
  <2> QED BY <2>2, <2>3 DEF Noticed, Notices
<1> QED BY <1>5, <1>6

\* Who reads the bucket reads all of a cycle that stays in it.
LEMMA ReadingNotices ==
  ASSUME SagaInv, NEW q \in Messages, ListKeys(q) \/ GetIntent(q),
         NEW C \in SUBSET Members, Closed(C)'
  PROVE  Noticed(C)' \/ (Closed(C) /\ ~Noticed(C))
<1>1. HandlersFit /\ handler[q] \in HandlerStates /\ UNCHANGED intents
  BY DEF SagaInv, HandlersFit, ListKeys, GetIntent
<1>2. CASE ListKeys(q)
  <2> DEFINE g == [handler[q] EXCEPT !.pc = "get", !.keys = DOMAIN intents]
  <2>1. Set(q, g) /\ handler[q].pc = "list"
    BY <1>2 DEF ListKeys, At
  <2>2. Closed(C) /\ Notices(handler[q], C) => Notices(g, C)
    BY <1>1, <2>1 DEF Notices, HandlerStates, Closed
  <2> QED BY <1>1, <2>1, <2>2, NoticedStill
<1>3. CASE GetIntent(q)
  <2> DEFINE h == handler[q]
  <2>1. PICK m \in h.keys :
          LET read == IF m \in DOMAIN intents THEN DOMAIN h.listing \cup {m}
                                              ELSE DOMAIN h.listing
          IN  Set(q, [h EXCEPT !.keys = @ \ {m},
                        !.listing = [u \in read |-> IF u = m THEN intents[m]
                                                             ELSE h.listing[u]]])
    BY <1>3 DEF GetIntent
  <2>2. PICK listing, g :
          /\ listing = [u \in IF m \in DOMAIN intents THEN DOMAIN h.listing \cup {m}
                              ELSE DOMAIN h.listing |->
                          IF u = m THEN intents[m] ELSE h.listing[u]]
          /\ g = [h EXCEPT !.keys = @ \ {m}, !.listing = listing] /\ Set(q, g)
    BY <2>1
  <2>3. h.pc = "get"
    BY <1>3 DEF GetIntent, At
  <2>4. g.pc = "get" /\ g.user = h.user /\ g.keys = h.keys \ {m} /\ g.listing = listing
    BY <1>1, <2>2, <2>3 DEF HandlerStates
  <2>5. ASSUME Closed(C), Notices(h, C) PROVE Notices(g, C)
    <3>1. h.user \in C /\ C \subseteq DOMAIN intents
          /\ \A u \in C : u \in h.keys \/ (u \in DOMAIN h.listing /\ h.listing[u] = intents[u])
      BY <2>3, <2>5 DEF Notices, Closed
    <3>2. \A u \in C : u \in g.keys \/ (u \in DOMAIN g.listing /\ g.listing[u] = intents[u])
      BY <2>2, <2>4, <3>1
    <3> QED BY <2>4, <3>1, <3>2 DEF Notices
  <2> QED BY <1>1, <2>2, <2>5, NoticedStill
<1> QED BY <1>2, <1>3

\* Who has read a cycle and is not misled finds one in it.
LEMMA FindCycleNotices ==
  ASSUME SagaInv, NEW q \in Messages, FindCycle(q), ~Misled, NEW C \in SUBSET Members, Closed(C)'
  PROVE  Noticed(C)' \/ (Closed(C) /\ ~Noticed(C))
<1> DEFINE h == handler[q]
<1>1. HandlersFit /\ h \in HandlerStates /\ UNCHANGED intents /\ h.pc = "get" /\ h.keys = {}
  BY DEF SagaInv, HandlersFit, FindCycle, At
<1>2. PICK next, cycle :
        /\ next \in Walks(h.listing)
        /\ cycle = CycleFrom(h.user, next)
        /\ IF cycle = {} THEN Set(q, Done)
           ELSE Set(q, [h EXCEPT !.pc = "execute", !.cycle = cycle])
  BY DEF FindCycle
<1>3. PICK g : g = IF cycle = {} THEN Done ELSE [h EXCEPT !.pc = "execute", !.cycle = cycle]
  OBVIOUS
<1>4. ASSUME Closed(C), Notices(h, C) PROVE Notices(g, C)
  <2>1. /\ h.user \in C /\ C \subseteq DOMAIN h.listing
        /\ \A m \in C : h.listing[m] = intents[m]
    BY <1>1, <1>4 DEF Notices
  <2>2. ASSUME NEW m \in C PROVE next[m] \in C
    <3>1. PICK u \in C : h.listing[u].cur = h.listing[m].target
      BY <1>4, <2>1 DEF Closed
    <3>2. h.listing[m].target \in Tags
      BY <1>1, <2>1 DEF HandlerStates, Listings, Intents
    <3>3. u \in Successors(h.listing, m)
      BY <2>1, <3>1 DEF Successors, TargetIn
    <3>4. next[m] \in Successors(h.listing, m)
      BY <1>2, <3>3 DEF Walks
    <3>5. next[m] \in DOMAIN h.listing /\ h.listing[next[m]].cur = h.listing[m].target
      BY <2>1, <3>4 DEF Successors, TargetIn
    <3>6. h.listing[u].cur # NoTag
      BY <3>1, <3>2, TagsAssumption
    <3>7. next[m] = u
      BY <1>1, <2>1, <3>1, <3>5, <3>6 DEF Misled, At
    <3> QED BY <3>7
  <2>3. cycle # {} /\ cycle \subseteq C
    BY <1>2, <2>1, <2>2, CyclesAreFound
  <2>4. g.pc = "execute" /\ g.cycle = cycle /\ g.listing = h.listing
    BY <1>1, <1>3, <2>3 DEF HandlerStates
  <2> QED BY <2>1, <2>3, <2>4 DEF Notices
<1>5. Set(q, g)
  BY <1>2, <1>3
<1> QED BY <1>1, <1>4, <1>5, NoticedStill

\* A cycle asks no tag twice, so who executes one comes to its end.
LEMMA ExecuteCycleNotices ==
  ASSUME SagaInv, NEW q \in Messages, ExecuteCycle(q), NEW C \in SUBSET Members, Closed(C)'
  PROVE  Noticed(C)' \/ (Closed(C) /\ ~Noticed(C))
<1> DEFINE h == handler[q]
<1>1. HandlersFit /\ h \in HandlerStates /\ UNCHANGED intents /\ h.pc = "execute"
  BY DEF SagaInv, HandlersFit, ExecuteCycle, At
<1>2. PICK g : /\ g = [h EXCEPT !.pc = "delete"] \/ (g = Waiting /\ AsksOneTagTwice(CycleRequests(h)))
               /\ Set(q, g)
  BY DEF ExecuteCycle, Applicable
<1>3. ASSUME Closed(C), Notices(h, C) PROVE Notices(g, C)
  <2>1. h.cycle # {} /\ h.cycle \subseteq C /\ \A m \in h.cycle : h.listing[m] = intents[m]
    BY <1>1, <1>3 DEF Notices
  <2>2. \A m, u \in h.cycle : h.listing[m].target = h.listing[u].target => m = u
    BY <1>3, <2>1 DEF Closed
  <2>3. ~AsksOneTagTwice(CycleRequests(h))
    BY <2>2 DEF AsksOneTagTwice, CycleRequests
  <2>4. g.pc = "delete" /\ g.cycle = h.cycle
    BY <1>1, <1>2, <2>3 DEF HandlerStates
  <2> QED BY <2>1, <2>4 DEF Notices
<1> QED BY <1>1, <1>2, <1>3, NoticedStill

\* Before it stores its intent a handler has noticed nothing.
LEMMA AskingNotices ==
  ASSUME SagaInv, NEW q \in Messages,
         ReadTargetTag(q) \/ ReadOwnTag(q) \/ AssignDirectly(q) \/ NeedSwap(q),
         NEW C \in SUBSET Members, Closed(C)'
  PROVE  Noticed(C)' \/ (Closed(C) /\ ~Noticed(C))
<1>1. HandlersFit /\ UNCHANGED intents
  BY DEF SagaInv, ReadTargetTag, ReadOwnTag, AssignDirectly, NeedSwap
<1>2. PICK g : Set(q, g)
  BY DEF ReadTargetTag, ReadOwnTag, AssignDirectly, NeedSwap
<1>3. handler[q].pc \in {"queued", "readOwn", "assign"}
  BY DEF ReadTargetTag, ReadOwnTag, AssignDirectly, NeedSwap, ReadyToAssign, At
<1>4. ~Notices(handler[q], C)
  BY <1>3 DEF Notices
<1> QED BY <1>1, <1>2, <1>4, NoticedStill

\* Restarts are counted.
LEMMA CrashesAreCounted == SagaSpec => [](crashes \in Nat)
<1>1. SagaInit => crashes \in Nat
  BY DEF SagaInit
<1>2. crashes \in Nat /\ [SagaNext]_allVars => (crashes \in Nat)'
  <2> SUFFICES ASSUME crashes \in Nat, SagaNext PROVE crashes' \in Nat
    BY DEF allVars, sagaVars
  <2>1. CASE \E q \in Messages : HandlerStep(q)
    BY <2>1 DEF HandlerStep, ReadTargetTag, ReadOwnTag, AssignDirectly, NeedSwap, PutIntent,
                ListKeys, GetIntent, FindCycle, ExecuteCycle, DeleteIntent
  <2>2. CASE Crash
    BY <2>2 DEF Crash
  <2>3. CASE PlayRound
    BY <2>3 DEF PlayRound
  <2> QED BY <2>1, <2>2, <2>3 DEF SagaNext
<1> QED BY <1>1, <1>2, PTL DEF SagaSpec

\* However the handlers that store, list, read, execute and delete interleave, no cycle
\* closes unnoticed, and those who notice it do not all give up.
THEOREM CyclesAreAlwaysNoticed == SagaSpec => CyclesAreNoticed
<1>1. SagaInv /\ crashes \in Nat /\ [SagaNext]_allVars
        => [~Misled /\ crashes' = crashes => NoticingGoesOn]_allVars
  <2> SUFFICES ASSUME SagaInv, crashes \in Nat, SagaNext, ~Misled, crashes' = crashes,
                      NEW C \in SUBSET Members, Closed(C)'
               PROVE  Noticed(C)' \/ (Closed(C) /\ ~Noticed(C))
    BY DEF NoticingGoesOn
  <2>1. CASE \E q \in Messages : HandlerStep(q)
    BY <2>1, PutIntentNotices, DeleteIntentNotices, ReadingNotices, FindCycleNotices,
       ExecuteCycleNotices, AskingNotices DEF HandlerStep
  <2>2. CASE Crash
    <3>1. crashes' # crashes
      BY <2>2 DEF Crash
    <3> QED BY <3>1
  <2>3. CASE PlayRound
    <3>1. UNCHANGED <<intents, handler>>
      BY <2>3 DEF PlayRound
    <3> QED BY <3>1 DEF Noticed, Closed, Notices
  <2> QED BY <2>1, <2>2, <2>3 DEF SagaNext
<1> QED BY <1>1, SagaInvariant, CrashesAreCounted, PTL DEF SagaSpec, CyclesAreNoticed
=============================================================================
