----------------------------- MODULE TagLedger -----------------------------
(***************************************************************************)
(* Who holds which tag in one guild, and what tag_history says about it.   *)
(* Every operation below is one database transaction that first takes the  *)
(* guild's advisory lock (AcquireGuildLock), so operations of one guild    *)
(* never interleave: each is one action.  A transaction that fails changes *)
(* nothing and its message is delivered again, so it is not an action.     *)
(***************************************************************************)
EXTENDS TagAllocation, Sequences

CONSTANTS
  Members,      \* Discord ids, ordered: natural numbers
  Tags,         \* the tag numbers requests ask for
  Finishes,     \* results of rounds: functions from participants to ranks
  Requests,     \* batches of tag requests: functions from members to tags
  ResetOrders,  \* finish orders of qualifying rounds: sequences of members
  Nobody        \* stands for no member

ASSUME MembersAssumption ==
  Members \subseteq Nat /\ IsFiniteSet(Members) /\ Nobody \notin Members
ASSUME TagsAssumption == Tags \subseteq Nat \ {NoTag}
ASSUME FinishesAssumption ==
  \A ranks \in Finishes : /\ DOMAIN ranks \subseteq Members
                          /\ DOMAIN ranks # {}
                          /\ ranks \in [DOMAIN ranks -> Nat]
\* A request list counts after its last-wins deduplication by user.
ASSUME RequestsAssumption ==
  \A req \in Requests : /\ DOMAIN req \subseteq Members
                         /\ req \in [DOMAIN req -> Tags]
\* A repeated member fails the bulk upsert of AllocateTagsFromReset's changes.
ASSUME ResetOrdersAssumption ==
  \A order \in ResetOrders :
     /\ order \in Seq(Members)
     /\ DOMAIN order \subseteq Tags
     /\ \A i, j \in DOMAIN order : order[i] = order[j] => i = j

VARIABLES
  league,      \* the members with a league_members row
  tag,         \* tag[m]: current_tag of m, NoTag for NULL or no row
  lastHolder,  \* lastHolder[t]: new_member_id of the latest history row of tag t
  lastTaken    \* lastTaken[m]: tag_number of the latest row naming m new holder

tagVars == <<league, tag, lastHolder, lastTaken>>

TagInit ==
  /\ league = {}
  /\ tag = [m \in Members |-> NoTag]
  /\ lastHolder = [t \in Tags |-> Nobody]
  /\ lastTaken = [m \in Members |-> NoTag]

\* tag_history gains a row (taken[m], m) for every member m of taken's domain.
InsertHistory(taken) ==
  /\ lastHolder' = [t \in Tags |->
                      IF \E m \in DOMAIN taken : taken[m] = t
                      THEN CHOOSE m \in DOMAIN taken : taken[m] = t
                      ELSE lastHolder[t]]
  /\ lastTaken' = [m \in Members |->
                      IF m \in DOMAIN taken THEN taken[m] ELSE lastTaken[m]]

Restricted(f, S) == [m \in S |-> f[m]]

-----------------------------------------------------------------------------
(***************************************************************************)
(* The tag half of processRoundInTx: the eligible participants trade the   *)
(* tags they hold now, the changes go to league_members and tag_history,   *)
(* and every participant gets a row.                                       *)
(***************************************************************************)
ReassignTags(ranks) ==
  \E f \in ClosedPoolAllocations(tag, ranks) :
     /\ tag' = FinalTags(tag, f)
     /\ InsertHistory(Restricted(f, Changed(tag, f)))
     /\ league' = league \cup DOMAIN ranks

\* applyTagAssignmentsInTx refuses a batch that gives one tag to two users...
AsksOneTagTwice(req) ==
  \E p, q \in DOMAIN req : p # q /\ req[p] = req[q]

\* Mutant: nobody asks who holds a requested tag.
NobodyBlocked(req) == {}

\* ... and one in which a requested tag belongs to somebody outside the batch.
Blocked(req) ==
  {p \in DOMAIN req : \E h \in Members \ DOMAIN req : tag[h] = req[p]}

\* TagSwapNeededError names the blocked requestor of the lowest tag.
SwapRequestor(req) ==
  CHOOSE p \in Blocked(req) : \A q \in Blocked(req) : req[p] <= req[q]

Applicable(req) == ~AsksOneTagTwice(req) /\ Blocked(req) = {}

ApplyTagAssignments(req) ==
  /\ Applicable(req)
  /\ tag' = FinalTags(tag, req)
  /\ InsertHistory(Restricted(req, Changed(tag, req)))
  /\ league' = league \cup DOMAIN req

\* Mutant: the tags are not cleared first.
ResetTagsUncleared(order) ==
  LET new == ResetAllocation(order)
  IN  /\ tag' = FinalTags(tag, new)
      /\ InsertHistory(new)
      /\ league' = league \cup DOMAIN new

\* ResetTagsFromQualifyingRound: clear all tags, then hand out 1..N.
ResetTags(order) ==
  LET new == ResetAllocation(order)
  IN  /\ tag' = FinalTags([m \in Members |-> NoTag], new)
      /\ InsertHistory(new)
      /\ league' = league \cup DOMAIN new

TagNext ==
  \/ \E ranks \in Finishes : ReassignTags(ranks)
  \/ \E req \in Requests : ApplyTagAssignments(req)
  \/ \E order \in ResetOrders : ResetTags(order)

TagSpec == TagInit /\ [][TagNext]_tagVars

\* league_members read by tag: GetMemberByTag.
HolderOf ==
  [t \in Tags |-> IF \E m \in Members : tag[m] = t
                  THEN CHOOSE m \in Members : tag[m] = t
                  ELSE Nobody]

\* The ledger implements the abstract ownership of tags.
Ownership == INSTANCE TagOwnership WITH holder <- HolderOf

-----------------------------------------------------------------------------
TagTypeOK ==
  /\ league \subseteq Members
  /\ tag \in [Members -> Tags \cup {NoTag}]
  /\ lastHolder \in [Tags -> Members \cup {Nobody}]
  /\ lastTaken \in [Members -> Tags \cup {NoTag}]

HeldTags == {tag[m] : m \in Members} \ {NoTag}

\* No two members of a guild hold the same tag: the operations alone ensure it,
\* the partial unique index uq_league_members_tag_per_guild never has to refuse
\* a statement of theirs.
UniqueTags == \A p, q \in Members : tag[p] = tag[q] /\ tag[p] > NoTag => p = q

\* The tag history that the history views and charts read explains the present:
\* the latest row of a held tag names its holder, and the latest row in which a
\* tagged member is the new holder names the tag it holds.
HistoryExplainsTags ==
  \A m \in Members : tag[m] > NoTag => /\ lastHolder[tag[m]] = m
                                       /\ lastTaken[m] = tag[m]

\* "Closed pool": a processed round creates and loses no tag, and moves no tag of
\* a member who did not play it or came to it without a tag.
RoundsKeepThePool ==
  [][\A ranks \in Finishes :
        ReassignTags(ranks) =>
           /\ HeldTags' = HeldTags
           /\ \A m \in Members :
                 tag'[m] # tag[m] => m \in DOMAIN ranks /\ tag[m] > NoTag]_tagVars

\* Every operation is one of the abstract steps: participants trade, requestors
\* move to free tags or to each other's, a reset starts over.
ImplementsOwnership == Ownership!Spec
=============================================================================
