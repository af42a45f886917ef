-------------------------- MODULE TagLedgerProofs --------------------------
(***************************************************************************)
(* For every guild, every round, every batch and every reset: tags stay    *)
(* unique, the history explains them, rounds keep the pool closed, and the *)
(* ledger implements the abstract ownership of tags.                       *)
(*                                                                         *)
(* TagInv is inductive.  Each operation has a lemma that says what the     *)
(* next tags are; HistoryStep then covers the history of all of them.      *)
(***************************************************************************)
EXTENDS TagLedger, FiniteSetTheorems, TLAPS

TagInv == TagTypeOK /\ UniqueTags /\ HistoryExplainsTags

\* What the three operations have in common: they record a row exactly for the
\* members whose new tag they write, and a tagged member without one keeps its tag.
LEMMA HistoryStep ==
  ASSUME TagTypeOK, HistoryExplainsTags, UniqueTags',
         tag' \in [Members -> Tags \cup {NoTag}],
         NEW new, DOMAIN new \subseteq Members, InsertHistory(new),
         \A m \in DOMAIN new : new[m] \in Tags /\ tag'[m] = new[m],
         \A m \in Members \ DOMAIN new : tag'[m] > NoTag => tag'[m] = tag[m]
  PROVE  /\ lastHolder' \in [Tags -> Members \cup {Nobody}]
         /\ lastTaken' \in [Members -> Tags \cup {NoTag}]
         /\ HistoryExplainsTags'
<1>1. lastHolder' \in [Tags -> Members \cup {Nobody}]
  <2> SUFFICES ASSUME NEW t \in Tags
               PROVE  lastHolder'[t] \in Members \cup {Nobody}
    BY DEF InsertHistory
  <2>1. CASE \E m \in DOMAIN new : new[m] = t
    BY <2>1 DEF InsertHistory
  <2>2. CASE ~ \E m \in DOMAIN new : new[m] = t
    BY <2>2 DEF InsertHistory, TagTypeOK
  <2> QED BY <2>1, <2>2
<1>2. lastTaken' \in [Members -> Tags \cup {NoTag}]
  BY DEF InsertHistory, TagTypeOK
<1>3. ASSUME NEW m \in Members, tag'[m] > NoTag
      PROVE  lastHolder'[tag'[m]] = m /\ lastTaken'[m] = tag'[m]
  <2>1. tag'[m] \in Tags
    BY <1>3 DEF NoTag
  <2>2. CASE m \in DOMAIN new
    <3>1. \A x \in DOMAIN new : new[x] = tag'[m] => x = m
      BY <1>3, <2>2 DEF UniqueTags
    <3>2. lastHolder'[tag'[m]] = CHOOSE x \in DOMAIN new : new[x] = tag'[m]
      BY <2>1, <2>2 DEF InsertHistory
    <3> QED BY <2>2, <3>1, <3>2 DEF InsertHistory
  <2>3. CASE m \notin DOMAIN new
    <3>1. tag'[m] = tag[m]
      BY <1>3, <2>3
    <3>2. ~ \E x \in DOMAIN new : new[x] = tag'[m]
      BY <1>3, <2>3 DEF UniqueTags
    <3>3. lastHolder'[tag'[m]] = lastHolder[tag[m]] /\ lastTaken'[m] = lastTaken[m]
      BY <2>1, <2>3, <3>1, <3>2 DEF InsertHistory
    <3> QED BY <1>3, <3>1, <3>3 DEF HistoryExplainsTags
  <2> QED BY <2>2, <2>3
<1> QED BY <1>1, <1>2, <1>3 DEF HistoryExplainsTags

-----------------------------------------------------------------------------
\* A round's eligible participants are members, hold tags, and finish in a total
\* order: of two of them one finishes before the other.
LEMMA EligibleFacts ==
  ASSUME TagTypeOK, UniqueTags, NEW ranks \in Finishes
  PROVE  LET E == Eligible(tag, ranks)
         IN  /\ E \subseteq Members
             /\ IsFiniteSet(E)
             /\ TagPool(tag, ranks) \subseteq Tags
             /\ \A p, q \in E : p # q => \/ FinishesBefore(tag, ranks, p, q)
                                         \/ FinishesBefore(tag, ranks, q, p)
<1> DEFINE E == Eligible(tag, ranks)
<1>1. E \subseteq Members
  BY FinishesAssumption DEF Eligible
<1>2. IsFiniteSet(E)
  BY <1>1, MembersAssumption, FS_Subset
<1>3. \A p \in E : tag[p] \in Tags /\ tag[p] \in Nat /\ tag[p] > NoTag
  <2> SUFFICES ASSUME NEW p \in E
               PROVE  tag[p] \in Tags /\ tag[p] \in Nat /\ tag[p] > NoTag
    OBVIOUS
  <2>1. p \in Members /\ tag[p] > NoTag
    BY <1>1 DEF Eligible
  <2>2. tag[p] \in Tags
    BY <2>1 DEF TagTypeOK, NoTag
  <2> QED BY <2>1, <2>2, TagsAssumption
<1>4. TagPool(tag, ranks) \subseteq Tags
  BY <1>3 DEF TagPool
<1>5. \A p \in E : ranks[p] \in Nat
  BY FinishesAssumption DEF Eligible
<1>6. ASSUME NEW p \in E, NEW q \in E, p # q
      PROVE  FinishesBefore(tag, ranks, p, q) \/ FinishesBefore(tag, ranks, q, p)
  <2>1. tag[p] # tag[q]
    BY <1>1, <1>3, <1>6 DEF UniqueTags
  <2> QED BY <1>3, <1>5, <2>1 DEF FinishesBefore
<1> QED BY <1>1, <1>2, <1>4, <1>6

\* The allocation is a bijection: every tag of the pool goes to one participant.
LEMMA AllocationIsBijection ==
  ASSUME TagTypeOK, UniqueTags, NEW ranks \in Finishes,
         NEW f \in ClosedPoolAllocations(tag, ranks)
  PROVE  LET E == Eligible(tag, ranks)
         IN  /\ f \in [E -> TagPool(tag, ranks)]
             /\ \A p, q \in E : f[p] = f[q] => p = q
             /\ {f[p] : p \in E} = TagPool(tag, ranks)
<1> DEFINE E == Eligible(tag, ranks)
           Pool == TagPool(tag, ranks)
           current == [p \in E |-> tag[p]]
<1> USE EligibleFacts
<1>1. f \in [E -> Pool]
  BY DEF ClosedPoolAllocations
<1>2. \A p \in E : f[p] \in Nat
  BY <1>1, TagsAssumption
<1>3. ASSUME NEW p \in E, NEW q \in E, f[p] = f[q] PROVE p = q
  <2> SUFFICES ASSUME p # q PROVE FALSE
    OBVIOUS
  <2>1. f[p] < f[q] \/ f[q] < f[p]
    BY DEF ClosedPoolAllocations
  <2> QED BY <1>2, <1>3, <2>1
<1>4. current \in Surjection(E, Pool)
  BY DEF Surjection, TagPool
<1>5. current \in Injection(E, Pool)
  <2>1. \A p \in E : tag[p] > NoTag
    BY DEF Eligible
  <2>2. \A p, q \in E : current[p] = current[q] => p = q
    BY <2>1 DEF UniqueTags
  <2> QED BY <1>4, <2>2 DEF Surjection, Injection, IsInjective
<1>6. IsFiniteSet(Pool) /\ Cardinality(Pool) = Cardinality(E)
  BY <1>4, <1>5, FS_Surjection
<1>7. f \in Injection(E, Pool)
  BY <1>1, <1>3 DEF Injection, IsInjective
<1>8. f \in Surjection(E, Pool)
  BY <1>6, <1>7, FS_Injection
<1>9. {f[p] : p \in E} = Pool
  BY <1>1, <1>8 DEF Surjection
<1> QED BY <1>1, <1>3, <1>9

-----------------------------------------------------------------------------
\* A processed round keeps the invariant, the pool of held tags and the tags of
\* everybody it may not touch.
LEMMA ReassignTagsStep ==
  ASSUME TagInv, NEW ranks \in Finishes, ReassignTags(ranks)
  PROVE  /\ TagInv'
         /\ HeldTags' = HeldTags
         /\ \A m \in Members : tag'[m] # tag[m] => m \in Eligible(tag, ranks)
         /\ \A m \in Eligible(tag, ranks) : tag'[m] \in Tags
<1> DEFINE E == Eligible(tag, ranks)
           Pool == TagPool(tag, ranks)
<1>1. PICK f \in ClosedPoolAllocations(tag, ranks) :
        /\ tag' = FinalTags(tag, f)
        /\ InsertHistory(Restricted(f, Changed(tag, f)))
        /\ league' = league \cup DOMAIN ranks
  BY DEF ReassignTags
<1>2. /\ E \subseteq Members /\ Pool \subseteq Tags
      /\ f \in [E -> Pool]
      /\ \A p, q \in E : f[p] = f[q] => p = q
      /\ {f[p] : p \in E} = Pool
  BY EligibleFacts, AllocationIsBijection DEF TagInv
<1>3. DOMAIN tag = Members
  BY DEF TagInv, TagTypeOK
<1>4. \A m \in Members : tag'[m] = IF m \in E THEN f[m] ELSE tag[m]
  BY <1>1, <1>2, <1>3 DEF FinalTags
<1>5. tag' \in [Members -> Tags \cup {NoTag}]
  <2>1. tag' = [m \in Members |-> IF m \in E THEN f[m] ELSE tag[m]]
    BY <1>1, <1>2, <1>3 DEF FinalTags
  <2>2. \A m \in Members : tag[m] \in Tags \cup {NoTag}
    BY DEF TagInv, TagTypeOK
  <2> QED BY <1>2, <2>1, <2>2
<1>6. Pool = {tag[p] : p \in E}
  BY DEF TagPool
<1>7. UniqueTags'
  <2> SUFFICES ASSUME NEW p \in Members, NEW q \in Members,
                      tag'[p] = tag'[q], tag'[p] > NoTag
               PROVE  p = q
    BY DEF UniqueTags
  <2>1. CASE p \in E /\ q \in E
    BY <1>2, <1>4, <2>1
  <2>2. CASE p \notin E /\ q \notin E
    BY <1>4, <2>2 DEF TagInv, UniqueTags
  <2>3. ASSUME NEW u \in E, NEW v \in Members \ E,
               f[u] = tag[v], tag[v] > NoTag
        PROVE  FALSE
    <3>1. PICK e \in E : tag[e] = f[u]
      BY <1>2, <1>6
    <3>2. e = v
      BY <1>2, <2>3, <3>1 DEF TagInv, UniqueTags
    <3> QED BY <2>3, <3>2
  <2> QED BY <1>4, <2>1, <2>2, <2>3
<1>8. TagTypeOK' /\ HistoryExplainsTags'
  <2> DEFINE new == Restricted(f, Changed(tag, f))
  <2>1. DOMAIN new = {p \in E : f[p] # tag[p]}
    BY <1>2 DEF Restricted, Changed
  <2>2. \A m \in DOMAIN new : new[m] = f[m] /\ new[m] \in Tags /\ tag'[m] = new[m]
    BY <1>2, <1>4, <2>1 DEF Restricted
  <2>3. \A m \in Members \ DOMAIN new : tag'[m] = tag[m]
    BY <1>4, <2>1
  <2>4. DOMAIN new \subseteq Members
    BY <1>2, <2>1
  <2> HIDE DEF new
  <2>5. InsertHistory(new)
    BY <1>1 DEF new
  <2>6. /\ lastHolder' \in [Tags -> Members \cup {Nobody}]
        /\ lastTaken' \in [Members -> Tags \cup {NoTag}]
        /\ HistoryExplainsTags'
    BY <1>5, <1>7, <2>2, <2>3, <2>4, <2>5, HistoryStep DEF TagInv
  <2>7. league' \subseteq Members
    BY <1>1, FinishesAssumption DEF TagInv, TagTypeOK
  <2> QED BY <1>5, <2>6, <2>7 DEF TagTypeOK
<1>9. HeldTags' = HeldTags
  <2>1. HeldTags' = {tag'[m] : m \in Members} \ {NoTag}
    BY DEF HeldTags
  <2>2. {tag'[m] : m \in Members} = Pool \cup {tag[m] : m \in Members \ E}
    <3>1. {tag'[m] : m \in Members} = {f[m] : m \in E} \cup {tag[m] : m \in Members \ E}
      BY <1>2, <1>4
    <3> QED BY <1>2, <3>1
  <2>3. {tag[m] : m \in Members} = Pool \cup {tag[m] : m \in Members \ E}
    BY <1>2, <1>6
  <2> QED BY <2>1, <2>2, <2>3 DEF HeldTags
<1>10. \A m \in E : tag'[m] \in Tags
  BY <1>2, <1>4
<1> QED BY <1>4, <1>7, <1>8, <1>9, <1>10 DEF TagInv

\* An accepted batch keeps the invariant and moves only the members it names.
LEMMA ApplyTagAssignmentsStep ==
  ASSUME TagInv, NEW req, DOMAIN req \subseteq Members, req \in [DOMAIN req -> Tags],
         ApplyTagAssignments(req)
  PROVE  /\ TagInv'
         /\ \A m \in Members :
               tag'[m] = IF m \in DOMAIN req THEN req[m] ELSE tag[m]
<1>1. DOMAIN tag = Members
  BY DEF TagInv, TagTypeOK
<1>2. tag' = [m \in Members |-> IF m \in DOMAIN req THEN req[m] ELSE tag[m]]
  BY <1>1 DEF ApplyTagAssignments, FinalTags
<1>3. tag' \in [Members -> Tags \cup {NoTag}]
  <2>1. \A m \in Members : tag[m] \in Tags \cup {NoTag}
    BY DEF TagInv, TagTypeOK
  <2> QED BY <1>2, <2>1
<1>4. UniqueTags'
  <2> SUFFICES ASSUME NEW p \in Members, NEW q \in Members,
                      tag'[p] = tag'[q], tag'[p] > NoTag
               PROVE  p = q
    BY DEF UniqueTags
  <2>1. CASE p \in DOMAIN req /\ q \in DOMAIN req
    BY <1>2, <2>1 DEF ApplyTagAssignments, Applicable, AsksOneTagTwice
  <2>2. CASE p \notin DOMAIN req /\ q \notin DOMAIN req
    BY <1>2, <2>2 DEF TagInv, UniqueTags
  <2>3. ASSUME NEW u \in DOMAIN req, NEW v \in Members \ DOMAIN req, req[u] = tag[v]
        PROVE  FALSE
    BY <2>3 DEF ApplyTagAssignments, Applicable, Blocked
  <2> QED BY <1>2, <2>1, <2>2, <2>3
<1>5. TagTypeOK' /\ HistoryExplainsTags'
  <2> DEFINE new == Restricted(req, Changed(tag, req))
  <2>1. DOMAIN new = {p \in DOMAIN req : req[p] # tag[p]}
    BY DEF Restricted, Changed
  <2>2. \A m \in DOMAIN new : new[m] \in Tags /\ tag'[m] = new[m]
    BY <1>2, <2>1 DEF Restricted
  <2>3. \A m \in Members \ DOMAIN new : tag'[m] = tag[m]
    BY <1>2, <2>1
  <2>4. DOMAIN new \subseteq Members
    BY <2>1
  <2> HIDE DEF new
  <2>5. InsertHistory(new)
    BY DEF new, ApplyTagAssignments
  <2>6. /\ lastHolder' \in [Tags -> Members \cup {Nobody}]
        /\ lastTaken' \in [Members -> Tags \cup {NoTag}]
        /\ HistoryExplainsTags'
    BY <1>3, <1>4, <2>2, <2>3, <2>4, <2>5, HistoryStep DEF TagInv
  <2>7. league' \subseteq Members
    BY DEF ApplyTagAssignments, TagInv, TagTypeOK
  <2> QED BY <1>3, <2>6, <2>7 DEF TagTypeOK
<1> QED BY <1>2, <1>4, <1>5 DEF TagInv

\* A reset keeps the invariant: positions in the finish order are unique.
LEMMA ResetTagsStep ==
  ASSUME TagInv, NEW order \in ResetOrders, ResetTags(order)
  PROVE  /\ TagInv'
         /\ \A m \in Members :
               tag'[m] = IF m \in DOMAIN ResetAllocation(order)
                         THEN ResetAllocation(order)[m] ELSE NoTag
<1> DEFINE new == ResetAllocation(order)
<1>1. /\ order \in Seq(Members) /\ DOMAIN order \subseteq Tags
      /\ \A i, j \in DOMAIN order : order[i] = order[j] => i = j
  BY ResetOrdersAssumption
<1>2. \A i \in DOMAIN order : order[i] \in Members
  BY <1>1
<1>3. DOMAIN new = {order[i] : i \in DOMAIN order} /\ DOMAIN new \subseteq Members
  BY <1>2 DEF ResetAllocation
<1>4. \A m \in DOMAIN new : new[m] \in DOMAIN order /\ order[new[m]] = m
  BY <1>3 DEF ResetAllocation
<1>5. \A m \in DOMAIN new : new[m] \in Tags
  BY <1>1, <1>4
<1>6. InsertHistory(new) /\ league' = league \cup DOMAIN new
  BY DEF ResetTags
<1>7. tag' = FinalTags([m \in Members |-> NoTag], new)
  BY DEF ResetTags
<1> HIDE DEF new
<1>8. tag' = [m \in Members |-> IF m \in DOMAIN new THEN new[m] ELSE NoTag]
  BY <1>7 DEF FinalTags
<1>9. tag' \in [Members -> Tags \cup {NoTag}]
  BY <1>5, <1>8
<1>10. UniqueTags'
  <2> SUFFICES ASSUME NEW p \in Members, NEW q \in Members,
                      tag'[p] = tag'[q], tag'[p] > NoTag
               PROVE  p = q
    BY DEF UniqueTags
  <2>1. p \in DOMAIN new /\ q \in DOMAIN new
    BY <1>8 DEF NoTag
  <2> QED BY <1>4, <1>8, <2>1
<1>11. \A m \in Members \ DOMAIN new : tag'[m] > NoTag => tag'[m] = tag[m]
  BY <1>8 DEF NoTag
<1>12. /\ lastHolder' \in [Tags -> Members \cup {Nobody}]
       /\ lastTaken' \in [Members -> Tags \cup {NoTag}]
       /\ HistoryExplainsTags'
  BY <1>3, <1>5, <1>6, <1>8, <1>9, <1>10, <1>11, HistoryStep DEF TagInv
<1>13. TagTypeOK'
  BY <1>3, <1>6, <1>9, <1>12 DEF TagInv, TagTypeOK
<1> QED BY <1>8, <1>10, <1>12, <1>13 DEF TagInv, new

-----------------------------------------------------------------------------
\* Nobody holds a tag at first, and there is no history.
LEMMA TagInitInv == TagInit => TagInv
  BY DEF TagInit, TagInv, TagTypeOK, UniqueTags, HistoryExplainsTags, NoTag

\* Every operation on tags keeps the invariant.
LEMMA TagNextInv == TagInv /\ [TagNext]_tagVars => TagInv'
<1> SUFFICES ASSUME TagInv, [TagNext]_tagVars PROVE TagInv'
  OBVIOUS
<1>1. ASSUME NEW ranks \in Finishes, ReassignTags(ranks) PROVE TagInv'
  BY <1>1, ReassignTagsStep
<1>2. ASSUME NEW req \in Requests, ApplyTagAssignments(req) PROVE TagInv'
  BY <1>2, RequestsAssumption, ApplyTagAssignmentsStep
<1>3. ASSUME NEW order \in ResetOrders, ResetTags(order) PROVE TagInv'
  BY <1>3, ResetTagsStep
<1>4. CASE UNCHANGED tagVars
  BY <1>4 DEF tagVars, TagInv, TagTypeOK, UniqueTags, HistoryExplainsTags
<1> QED BY <1>1, <1>2, <1>3, <1>4 DEF TagNext

\* Every member has a tag of the guild or none, whatever the batches ask for and the
\* resets give, and the history names members and tags only.
THEOREM LedgerTypeCorrect == TagSpec => []TagTypeOK
<1>1. TagInv => TagTypeOK
  BY DEF TagInv
<1> QED BY TagInitInv, TagNextInv, <1>1, PTL DEF TagSpec

\* No two members of a guild ever hold the same tag, and the tag history always
\* explains the tags held: for every set of members, tags, rounds, batches and resets.
THEOREM LedgerInvariant == TagSpec => [](UniqueTags /\ HistoryExplainsTags)
<1>1. TagInv => UniqueTags /\ HistoryExplainsTags
  BY DEF TagInv
<1> QED BY TagInitInv, TagNextInv, <1>1, PTL DEF TagSpec

\* A processed round creates and loses no tag and moves only the tags of its
\* tagged participants.
THEOREM RoundsKeepThePoolAlways == TagSpec => RoundsKeepThePool
<1>1. ASSUME TagInv
      PROVE  \A ranks \in Finishes :
               ReassignTags(ranks) =>
                 /\ HeldTags' = HeldTags
                 /\ \A m \in Members :
                       tag'[m] # tag[m] => m \in DOMAIN ranks /\ tag[m] > NoTag
  BY <1>1, ReassignTagsStep DEF Eligible
<1> QED BY TagInitInv, TagNextInv, <1>1, PTL DEF TagSpec, RoundsKeepThePool
-----------------------------------------------------------------------------
(***************************************************************************)
(* The ledger implements TagOwnership: a processed round is a trade, an    *)
(* accepted batch a move of the members it names, a reset a                *)
(* requalification.  The lemmas above say what each operation does to the  *)
(* members' tags; HolderFactsInv turns that into what it does to the       *)
(* holders of tags.                                                        *)
(***************************************************************************)

\* Who holds a tag is whoever has it as current tag.
HoldersAreMembers ==
  /\ HolderOf \in [Tags -> Members \cup {Nobody}]
  /\ \A t \in Tags, m \in Members : HolderOf[t] = m <=> tag[m] = t

\* Unique tags make GetMemberByTag a function.
LEMMA HolderFacts == TagTypeOK /\ UniqueTags => HoldersAreMembers
<1> SUFFICES ASSUME TagTypeOK, UniqueTags PROVE HoldersAreMembers
  OBVIOUS
<1>1. HolderOf \in [Tags -> Members \cup {Nobody}]
  BY DEF HolderOf
<1>2. ASSUME NEW t \in Tags, NEW m \in Members
      PROVE  HolderOf[t] = m <=> tag[m] = t
  <2>1. t > NoTag
    BY TagsAssumption DEF NoTag
  <2>2. \A p \in Members : tag[p] = t /\ tag[m] = t => p = m
    BY <2>1 DEF UniqueTags
  <2>3. CASE \E p \in Members : tag[p] = t
    <3>1. HolderOf[t] = CHOOSE p \in Members : tag[p] = t
      BY <2>3 DEF HolderOf
    <3>2. HolderOf[t] \in Members /\ tag[HolderOf[t]] = t
      BY <2>3, <3>1
    <3> QED BY <2>2, <3>2
  <2>4. CASE ~ \E p \in Members : tag[p] = t
    <3>1. HolderOf[t] = Nobody
      BY <2>4 DEF HolderOf
    <3> QED BY <2>4, <3>1, MembersAssumption
  <2> QED BY <2>3, <2>4
<1> QED BY <1>1, <1>2 DEF HoldersAreMembers

\* The tags that somebody holds, seen from the tags and from the members.
HoldersHoldTags ==
  /\ \A t \in Tags : HolderOf[t] # Nobody <=> t \in HeldTags
  /\ \A m \in Members : Ownership!TagsOf(m) # {} <=> tag[m] \in Tags

LEMMA HeldAsHolder == HoldersAreMembers => HoldersHoldTags
<1> SUFFICES ASSUME HoldersAreMembers PROVE HoldersHoldTags
  OBVIOUS
<1>1. ASSUME NEW t \in Tags PROVE HolderOf[t] # Nobody <=> t \in HeldTags
  <2>1. t # NoTag
    BY TagsAssumption DEF NoTag
  <2>2. HolderOf[t] # Nobody <=> \E m \in Members : HolderOf[t] = m
    BY MembersAssumption DEF HoldersAreMembers
  <2> QED BY <2>1, <2>2 DEF HoldersAreMembers, HeldTags
<1>2. ASSUME NEW m \in Members PROVE Ownership!TagsOf(m) # {} <=> tag[m] \in Tags
  BY DEF Ownership!TagsOf, HoldersAreMembers
<1> QED BY <1>1, <1>2 DEF HoldersHoldTags

\* Both hold before and after a step.
LEMMA HolderFactsInv ==
  /\ TagInv => HoldersAreMembers /\ HoldersHoldTags
  /\ TagInv' => HoldersAreMembers' /\ HoldersHoldTags'
<1>1. TagInv => HoldersAreMembers /\ HoldersHoldTags
  BY HolderFacts, HeldAsHolder DEF TagInv
<1> QED BY <1>1, PTL

\* What every step keeps: no two tags have one holder.
LEMMA OneTagEach ==
  ASSUME TagInv'
  PROVE  \A t, u \in Tags :
            HolderOf'[t] = HolderOf'[u] /\ HolderOf'[t] # Nobody => t = u
<1>1. HoldersAreMembers'
  BY HolderFactsInv
<1> QED BY <1>1 DEF HoldersAreMembers

-----------------------------------------------------------------------------
\* A processed round is a trade among those who hold tags.
LEMMA RoundIsTrade ==
  ASSUME TagInv, NEW ranks \in Finishes, ReassignTags(ranks)
  PROVE  Ownership!Trade
<1>1. /\ TagInv' /\ HeldTags' = HeldTags
      /\ \A m \in Members : tag'[m] # tag[m] => m \in Eligible(tag, ranks)
      /\ \A m \in Eligible(tag, ranks) : tag'[m] \in Tags
  BY ReassignTagsStep
<1>2. HoldersAreMembers /\ HoldersHoldTags /\ HoldersAreMembers' /\ HoldersHoldTags'
  BY <1>1, HolderFactsInv
<1>3. ASSUME NEW t \in Tags PROVE HolderOf[t] = Nobody <=> HolderOf'[t] = Nobody
  BY <1>1, <1>2 DEF HoldersHoldTags
<1>4. ASSUME NEW m \in Members
      PROVE  Ownership!TagsOf(m) # {} <=> Ownership!TagsOf(m)' # {}
  <2>1. tag[m] \in Tags <=> tag'[m] \in Tags
    <3>1. CASE m \in Eligible(tag, ranks)
      <4>1. tag[m] > NoTag
        BY <3>1 DEF Eligible
      <4>2. tag[m] \in Tags
        BY <4>1 DEF TagInv, TagTypeOK, NoTag
      <4> QED BY <1>1, <3>1, <4>2
    <3>2. CASE m \notin Eligible(tag, ranks)
      BY <1>1, <3>2
    <3> QED BY <3>1, <3>2
  <2> QED BY <1>2, <2>1 DEF HoldersHoldTags
<1> QED BY <1>2, <1>3, <1>4 DEF Ownership!Trade, HoldersAreMembers

\* An accepted batch moves the members it names, to free tags or each other's.
LEMMA BatchIsMove ==
  ASSUME TagInv, NEW req \in Requests, ApplyTagAssignments(req)
  PROVE  Ownership!Move(DOMAIN req)
<1>1. DOMAIN req \subseteq Members /\ req \in [DOMAIN req -> Tags]
  BY RequestsAssumption
<1>2. /\ TagInv'
      /\ \A m \in Members : tag'[m] = IF m \in DOMAIN req THEN req[m] ELSE tag[m]
  BY <1>1, ApplyTagAssignmentsStep
<1>3. HoldersAreMembers /\ HoldersAreMembers' /\ HoldersHoldTags'
  BY <1>2, HolderFactsInv
<1>4. ASSUME NEW t \in Tags, HolderOf'[t] # HolderOf[t]
      PROVE  /\ HolderOf[t] \in DOMAIN req \cup {Nobody}
             /\ HolderOf'[t] \in DOMAIN req \cup {Nobody}
  <2>1. ASSUME NEW m \in Members \ DOMAIN req PROVE HolderOf[t] # m /\ HolderOf'[t] # m
    <3>1. HolderOf[t] = m <=> HolderOf'[t] = m
      BY <1>2, <1>3 DEF HoldersAreMembers
    <3> QED BY <1>4, <3>1
  <2> QED BY <1>3, <2>1 DEF HoldersAreMembers
<1>5. ASSUME NEW m \in DOMAIN req PROVE Ownership!TagsOf(m)' # {}
  BY <1>1, <1>2, <1>3 DEF HoldersHoldTags
<1> QED BY <1>3, <1>4, <1>5 DEF Ownership!Move, HoldersAreMembers

\* A reset hands out the first tags: the i-th of the finish order holds tag i.
LEMMA ResetIsRequalification ==
  ASSUME TagInv, NEW order \in ResetOrders, ResetTags(order)
  PROVE  Ownership!Requalify
<1> DEFINE new == ResetAllocation(order)
<1>1. /\ order \in Seq(Members) /\ DOMAIN order \subseteq Tags
      /\ \A i, j \in DOMAIN order : order[i] = order[j] => i = j
  BY ResetOrdersAssumption
<1>2. /\ TagInv'
      /\ \A m \in Members : tag'[m] = IF m \in DOMAIN new THEN new[m] ELSE NoTag
  BY ResetTagsStep
<1>3. HoldersAreMembers'
  BY <1>2, HolderFactsInv
<1>4. \A i \in DOMAIN order : order[i] \in Members
  BY <1>1
<1>5. ASSUME NEW i \in DOMAIN order PROVE order[i] \in DOMAIN new /\ new[order[i]] = i
  BY <1>1 DEF ResetAllocation
<1>6. \A m \in DOMAIN new : new[m] \in DOMAIN order
  BY DEF ResetAllocation
<1> HIDE DEF new
<1>7. ASSUME NEW t \in Tags PROVE HolderOf'[t] # Nobody <=> t \in DOMAIN order
  <2>1. t # NoTag
    BY TagsAssumption DEF NoTag
  <2>2. HolderOf'[t] # Nobody <=> \E m \in Members : tag'[m] = t
    BY <1>3, MembersAssumption DEF HoldersAreMembers
  <2> QED BY <1>2, <1>4, <1>5, <1>6, <2>1, <2>2
<1>8. ASSUME NEW t \in Tags, NEW u \in Tags, t \in DOMAIN order, u < t
      PROVE  u \in DOMAIN order
  <2>1. DOMAIN order = 1 .. Len(order) /\ Len(order) \in Nat
    BY <1>1
  <2>2. t \in Nat \ {0} /\ u \in Nat \ {0}
    BY TagsAssumption DEF NoTag
  <2> QED BY <1>8, <2>1, <2>2
<1> QED BY <1>3, <1>7, <1>8 DEF Ownership!Requalify, HoldersAreMembers

-----------------------------------------------------------------------------
\* Every operation of the ledger is an abstract step or changes no holder.
LEMMA StepsAreAbstract == TagInv /\ [TagNext]_tagVars => [Ownership!Next]_HolderOf
<1> SUFFICES ASSUME TagInv, [TagNext]_tagVars PROVE [Ownership!Next]_HolderOf
  OBVIOUS
<1>1. TagInv'
  BY TagNextInv
<1>2. \A t, u \in Tags : HolderOf'[t] = HolderOf'[u] /\ HolderOf'[t] # Nobody => t = u
  BY <1>1, OneTagEach
<1>3. ASSUME NEW ranks \in Finishes, ReassignTags(ranks) PROVE Ownership!Next
  BY <1>2, <1>3, RoundIsTrade DEF Ownership!Next
<1>4. ASSUME NEW req \in Requests, ApplyTagAssignments(req) PROVE Ownership!Next
  <2>1. DOMAIN req \in SUBSET Members
    BY RequestsAssumption
  <2> QED BY <1>2, <1>4, <2>1, BatchIsMove DEF Ownership!Next
<1>5. ASSUME NEW order \in ResetOrders, ResetTags(order) PROVE Ownership!Next
  BY <1>2, <1>5, ResetIsRequalification DEF Ownership!Next
<1>6. CASE UNCHANGED tagVars
  BY <1>6 DEF tagVars, HolderOf
<1> QED BY <1>3, <1>4, <1>5, <1>6 DEF TagNext

\* The league_members and tag_history tables, written by rounds, batches and resets,
\* implement the abstract ownership of tags, for all of them and all members: a
\* tag never has two holders, and no operation moves a tag it may not move.
THEOREM LedgerImplementsOwnership == TagSpec => ImplementsOwnership
<1>1. TagInit => Ownership!Init
  <2> SUFFICES ASSUME TagInit PROVE HolderOf = [t \in Tags |-> Nobody]
    BY DEF Ownership!Init
  <2>1. \A t \in Tags, m \in Members : tag[m] # t
    BY TagsAssumption DEF TagInit, NoTag
  <2> QED BY <2>1 DEF HolderOf
<1> QED BY <1>1, TagInitInv, TagNextInv, StepsAreAbstract, PTL
        DEF TagSpec, ImplementsOwnership, Ownership!Spec
=============================================================================
