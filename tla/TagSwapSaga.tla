---------------------------- MODULE TagSwapSaga ----------------------------
(***************************************************************************)
(* Swap requests and the saga that joins them                              *)
(* (infrastructure/handlers/tag_swap.go, batch_tag_assign.go and           *)
(* infrastructure/saga/coordinator.go of the leaderboard module).          *)
(*                                                                         *)
(* A request whose tag is taken leaves an intent in a NATS key-value       *)
(* bucket, one key per user.  The handler that stores an intent lists the  *)
(* bucket, and if the intents close a cycle it assigns the whole cycle in  *)
(* one batch and deletes its intents.  Only the batch is a transaction     *)
(* under the guild lock: tags are read before it, and the bucket is read   *)
(* and cleaned key by key, with other handlers and rounds in between.      *)
(* Messages are delivered until a handler finishes them.                   *)
(***************************************************************************)
EXTENDS TagLedger

CONSTANTS
  Messages,    \* [type : {"swap"}, requestor, target] and [type : {"batch"}, assignments]
  InitialTag,  \* the tags when the requests arrive
  MaxEvents    \* bound: process restarts and rounds processed meanwhile

\* A batch counts after its last-wins deduplication by user, as in TagLedger.
ASSUME MessagesAssumption ==
  \A q \in Messages :
    \/ q.type = "swap" /\ q.requestor \in Members /\ q.target \in Members
    \/ /\ q.type = "batch" /\ DOMAIN q.assignments \subseteq Members
       /\ q.assignments \in [DOMAIN q.assignments -> Tags]
\* Rows the unique index has let in.
ASSUME InitialTagAssumption ==
  /\ InitialTag \in [Members -> Tags \cup {NoTag}]
  /\ \A p, q \in Members : InitialTag[p] = InitialTag[q] /\ InitialTag[p] # NoTag => p = q

VARIABLES
  intents,   \* the bucket: partial function from members to [cur, target]
  handler,   \* handler[q]: program counter and locals of the handler of q
  asked,     \* asked[m]: every tag some request asked for on behalf of m
  crashes,   \* restarts so far
  rounds     \* rounds processed so far

sagaVars == <<intents, handler, asked, crashes, rounds>>
allVars == <<tagVars, sagaVars>>

Waiting ==
  [pc |-> "queued", user |-> Nobody, own |-> NoTag, target |-> NoTag,
   keys |-> {}, listing |-> <<>>, cycle |-> {}]
Done == [Waiting EXCEPT !.pc = "done"]

\* Everybody in InitialTag took the tag through an earlier assignment.
SagaInit ==
  /\ league = {m \in Members : InitialTag[m] # NoTag}
  /\ tag = InitialTag
  /\ lastHolder = [t \in Tags |-> IF \E m \in Members : InitialTag[m] = t
                                  THEN CHOOSE m \in Members : InitialTag[m] = t
                                  ELSE Nobody]
  /\ lastTaken = InitialTag
  /\ intents = <<>>
  /\ handler = [q \in Messages |-> Waiting]
  /\ asked = [m \in Members |-> {}]
  /\ crashes = 0
  /\ rounds = 0

At(q, label) == handler[q].pc = label
Set(q, h) == handler' = [handler EXCEPT ![q] = h]

-----------------------------------------------------------------------------
\* HandleTagSwapRequested: the target's tag is read outside any transaction.
ReadTargetTag(q) ==
  /\ q.type = "swap" /\ At(q, "queued")
  /\ IF tag[q.target] = NoTag
     THEN Set(q, Done)
     ELSE Set(q, [Waiting EXCEPT !.pc = "readOwn", !.user = q.requestor,
                                 !.target = tag[q.target]])
  /\ UNCHANGED <<tagVars, intents, asked, crashes, rounds>>

\* The requestor's own tag, for the intent; zero if it has none.
ReadOwnTag(q) ==
  /\ At(q, "readOwn")
  /\ Set(q, [handler[q] EXCEPT !.pc = "assign", !.own = tag[q.requestor]])
  /\ UNCHANGED <<tagVars, intents, asked, crashes, rounds>>

\* The batch a message asks for.
Wanted(q) ==
  IF q.type = "swap" THEN [m \in {q.requestor} |-> handler[q].target]
                     ELSE q.assignments

ReadyToAssign(q) == At(q, IF q.type = "swap" THEN "assign" ELSE "queued")

RecordAsked(req) ==
  asked' = [m \in Members |-> IF m \in DOMAIN req THEN asked[m] \cup {req[m]} ELSE asked[m]]

\* ExecuteBatchTagAssignment succeeds: the request needs no swap.
AssignDirectly(q) ==
  /\ ReadyToAssign(q)
  /\ ApplyTagAssignments(Wanted(q))
  /\ RecordAsked(Wanted(q))
  /\ Set(q, Done)
  /\ UNCHANGED <<intents, crashes, rounds>>

\* It fails with TagSwapNeededError.  The swap handler keeps the tags it read;
\* the batch handler takes the error's, read in the failed transaction.  The
\* other assignments of the batch are dropped.
NeedSwap(q) ==
  /\ ReadyToAssign(q)
  /\ ~AsksOneTagTwice(Wanted(q)) /\ Blocked(Wanted(q)) # {}
  /\ LET user == SwapRequestor(Wanted(q))
     IN  Set(q, [Waiting EXCEPT !.pc = "put", !.user = user,
                   !.own = IF q.type = "swap" THEN handler[q].own ELSE tag[user],
                   !.target = Wanted(q)[user]])
  /\ RecordAsked(Wanted(q))
  /\ UNCHANGED <<tagVars, intents, crashes, rounds>>

\* ProcessIntent: the put overwrites an earlier intent of the user.
PutIntent(q) ==
  /\ At(q, "put")
  /\ LET h == handler[q]
     IN  intents' = [m \in DOMAIN intents \cup {h.user} |->
           IF m = h.user THEN [cur |-> h.own, target |-> h.target] ELSE intents[m]]
  /\ Set(q, [handler[q] EXCEPT !.pc = "list"])
  /\ UNCHANGED <<tagVars, asked, crashes, rounds>>

\* getGuildIntents: the keys first ...
ListKeys(q) ==
  /\ At(q, "list")
  /\ Set(q, [handler[q] EXCEPT !.pc = "get", !.keys = DOMAIN intents])
  /\ UNCHANGED <<tagVars, intents, asked, crashes, rounds>>

\* ... then the entries one at a time, skipping the ones deleted since.
GetIntent(q) ==
  /\ At(q, "get")
  /\ \E m \in handler[q].keys :
       LET h == handler[q]
           read == IF m \in DOMAIN intents THEN DOMAIN h.listing \cup {m}
                                           ELSE DOMAIN h.listing
       IN  Set(q, [h EXCEPT !.keys = @ \ {m},
                     !.listing = [u \in read |-> IF u = m THEN intents[m]
                                                          ELSE h.listing[u]]])
  /\ UNCHANGED <<tagVars, intents, asked, crashes, rounds>>

\* The tag a user asks for in a listing; the zero intent of the Go map asks for 0.
TargetIn(listing, m) ==
  IF m \in DOMAIN listing THEN listing[m].target ELSE NoTag

\* Whom findCycle may visit after m: the map iteration picks any intent whose
\* user held the tag m asks for, and the walk ends when there is none.
Successors(listing, m) ==
  {u \in DOMAIN listing : listing[u].cur = TargetIn(listing, m)}

\* Mutant: the end of the walk counts as a user.
CycleWithEnd(start, next) ==
  LET N == Cardinality(Members)
      walk[n \in 0 .. 2 * N] ==
        IF n = 0 THEN start
        ELSE IF walk[n - 1] = Nobody THEN Nobody ELSE next[walk[n - 1]]
  IN  {walk[n] : n \in N .. 2 * N}

\* Mutant: two users are no cycle.
CycleOfMore(start, next) ==
  LET N == Cardinality(Members)
      walk[n \in 0 .. 2 * N] ==
        IF n = 0 THEN start
        ELSE IF walk[n - 1] = Nobody THEN Nobody ELSE next[walk[n - 1]]
      cycle == {walk[n] : n \in N .. 2 * N} \ {Nobody}
  IN  IF Cardinality(cycle) > 2 THEN cycle ELSE {}

\* findCycle: the walk from `start' along one choice of successors, and the
\* cycle it ends in (empty when it ends at a user without a successor).
CycleFrom(start, next) ==
  LET N == Cardinality(Members)
      walk[n \in 0 .. 2 * N] ==
        IF n = 0 THEN start
        ELSE IF walk[n - 1] = Nobody THEN Nobody ELSE next[walk[n - 1]]
  IN  {walk[n] : n \in N .. 2 * N} \ {Nobody}

Walks(listing) ==
  {next \in [Members -> DOMAIN listing \cup {Nobody}] :
     \A m \in Members : IF Successors(listing, m) = {} THEN next[m] = Nobody
                        ELSE next[m] \in Successors(listing, m)}

FindCycle(q) ==
  /\ At(q, "get") /\ handler[q].keys = {}
  /\ \E next \in Walks(handler[q].listing) :
       LET cycle == CycleFrom(handler[q].user, next)
       IN  IF cycle = {} THEN Set(q, Done)
           ELSE Set(q, [handler[q] EXCEPT !.pc = "execute", !.cycle = cycle])
  /\ UNCHANGED <<tagVars, intents, asked, crashes, rounds>>

\* Mutant: everybody in the cycle gets the tag it had when it asked.
CycleRequestsCurrent(h) == [m \in h.cycle |-> h.listing[m].cur]

\* The batch of executeCycle: everybody in the cycle gets the tag it asked for.
CycleRequests(h) == [m \in h.cycle |-> h.listing[m].target]

(***************************************************************************)
(* executeCycle.  A batch that asks one tag twice is an error: the message *)
(* is delivered again.  A batch that needs a swap outside the cycle is a   *)
(* failure inside the discarded result: no error, so the intents go.       *)
(***************************************************************************)
ExecuteCycle(q) ==
  /\ At(q, "execute")
  /\ LET req == CycleRequests(handler[q])
     IN  \/ /\ ApplyTagAssignments(req)
            /\ Set(q, [handler[q] EXCEPT !.pc = "delete"])
         \/ /\ ~Applicable(req)
            /\ Set(q, IF AsksOneTagTwice(req) THEN Waiting
                      ELSE [handler[q] EXCEPT !.pc = "delete"])
            /\ UNCHANGED tagVars
  /\ UNCHANGED <<intents, asked, crashes, rounds>>

\* The intents of the cycle are deleted key by key, whatever they say by now.
DeleteIntent(q) ==
  /\ At(q, "delete")
  /\ \E m \in handler[q].cycle :
       /\ intents' = [u \in DOMAIN intents \ {m} |-> intents[u]]
       /\ Set(q, IF handler[q].cycle = {m} THEN Done
                 ELSE [handler[q] EXCEPT !.cycle = @ \ {m}])
  /\ UNCHANGED <<tagVars, asked, crashes, rounds>>

HandlerStep(q) ==
  \/ ReadTargetTag(q) \/ ReadOwnTag(q) \/ AssignDirectly(q) \/ NeedSwap(q)
  \/ PutIntent(q) \/ ListKeys(q) \/ GetIntent(q) \/ FindCycle(q)
  \/ ExecuteCycle(q) \/ DeleteIntent(q)

\* The process restarts: what was being handled is delivered again.
Crash ==
  /\ crashes + rounds < MaxEvents
  /\ crashes' = crashes + 1
  /\ handler' = [q \in Messages |-> IF At(q, "done") THEN handler[q] ELSE Waiting]
  /\ UNCHANGED <<tagVars, intents, asked, rounds>>

\* A round of the same guild is processed in between.
PlayRound ==
  /\ crashes + rounds < MaxEvents
  /\ rounds' = rounds + 1
  /\ \E ranks \in Finishes : ReassignTags(ranks)
  /\ UNCHANGED <<intents, handler, asked, crashes>>

SagaNext == (\E q \in Messages : HandlerStep(q)) \/ Crash \/ PlayRound

\* The router runs every delivered message to its end.
Fairness == \A q \in Messages : WF_allVars(HandlerStep(q))

SagaSpec == SagaInit /\ [][SagaNext]_allVars /\ Fairness

-----------------------------------------------------------------------------
Intents == [cur : Tags \cup {NoTag}, target : Tags]

SagaTypeOK ==
  /\ TagTypeOK
  /\ DOMAIN intents \subseteq Members
  /\ \A m \in DOMAIN intents : intents[m] \in Intents
  /\ asked \in [Members -> SUBSET Tags]
  /\ \A q \in Messages :
       LET h == handler[q]
       IN  /\ h.pc \in {"queued", "readOwn", "assign", "put", "list", "get",
                        "execute", "delete", "done"}
           /\ h.user \in Members \cup {Nobody}
           /\ h.own \in Tags \cup {NoTag} /\ h.target \in Tags \cup {NoTag}
           /\ h.keys \cup h.cycle \cup DOMAIN h.listing \subseteq Members
           /\ \A m \in DOMAIN h.listing : h.listing[m] \in Intents

\* Whatever handlers, crashes and rounds interleave, the saga never gives a
\* member a tag that no request asked for on its behalf, and never takes the
\* tag of a member without giving it one it asked for.
SwapsAreAskedFor ==
  [][(\E q \in Messages : HandlerStep(q)) =>
        \A m \in Members : tag'[m] # tag[m] => tag'[m] \in asked'[m]]_allVars

\* Of the users of a cycle in the bucket everybody asks for another one's tag.
Closed(cycle) ==
  /\ cycle # {} /\ cycle \subseteq DOMAIN intents
  /\ \A m \in cycle : \E u \in cycle : intents[u].cur = intents[m].target
  /\ \A m, u \in cycle : intents[m].target = intents[u].target => m = u

\* A handler in state h, of one of them, is to read all of it, or has; or it has found
\* a cycle in it and is to execute it, or to delete its intents.
Notices(h, cycle) ==
  \/ h.pc = "list" /\ h.user \in cycle
  \/ /\ h.pc = "get" /\ h.user \in cycle
     /\ \A m \in cycle : m \in h.keys \/ (m \in DOMAIN h.listing /\ h.listing[m] = intents[m])
  \/ /\ h.pc = "execute" /\ h.cycle # {} /\ h.cycle \subseteq cycle
     /\ \A m \in h.cycle : h.listing[m] = intents[m]
  \/ h.pc = "delete" /\ h.cycle \cap cycle # {}
Noticed(cycle) == \E q \in Messages : Notices(handler[q], cycle)

\* A handler has read two intents that name one tag as their own, which has moved.
Misled == \E q \in Messages : LET listing == handler[q].listing IN
  At(q, "get") /\ \E m, u \in DOMAIN listing :
    m # u /\ listing[m].cur = listing[u].cur /\ listing[m].cur # NoTag

\* If nobody notices a closed cycle after a step, it was closed and unnoticed before.
NoticingGoesOn ==
  \A cycle \in SUBSET Members :
    Closed(cycle)' => Noticed(cycle)' \/ (Closed(cycle) /\ ~Noticed(cycle))

\* However puts, listings and deletions of several handlers interleave, a cycle does
\* not close unnoticed, and the handlers that notice it do not all give up, unless one
\* is misled.  (ProcessIntent stores before it looks; a restart starts all over.)
CyclesAreNoticed == [][~Misled /\ crashes' = crashes => NoticingGoesOn]_allVars

\* If the requests close a cycle, they all come true at some time, however their
\* handlers interleave and even if the process restarts, unless a round moved
\* the tags meanwhile.
CyclesAreExecuted ==
  <>(\/ rounds > 0
     \/ \A q \in Messages :
          q.type = "swap" => tag[q.requestor] = InitialTag[q.target])

\* executeCycle cleans up after a batch that was executed ("Failed to execute saga
\* cycle batch" returns first) and calls the intents it deletes processed: when it
\* starts to delete, every user of the cycle has been given the tag it asked for.
CleanedUpCyclesWereApplied ==
  [][\A q \in Messages :
        At(q, "execute") /\ handler'[q].pc = "delete" =>
           \A m \in handler[q].cycle : tag'[m] = handler[q].listing[m].target]_allVars
=============================================================================
