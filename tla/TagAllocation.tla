--------------------------- MODULE TagAllocation ---------------------------
(***************************************************************************)
(* The tag arithmetic of app/modules/leaderboard/domain/tag_allocator.go.  *)
(* `held' maps members to the tag they hold, NoTag when they hold none;    *)
(* `ranks' maps the participants of a round to their finish rank (lower is *)
(* better, equal ranks are ties).                                          *)
(***************************************************************************)
EXTENDS Naturals, FiniteSets

\* A NULL league_members.current_tag: the code reads it as the int 0.
NoTag == 0

\* Mutant: untagged participants bring their 0 to the pool.
AllParticipants(held, ranks) == DOMAIN ranks

\* Participants who already hold a tag: the only ones the allocator moves.
Eligible(held, ranks) == {p \in DOMAIN ranks : held[p] > NoTag}

\* The tags the eligible participants bring to the round.
TagPool(held, ranks) == {held[p] : p \in Eligible(held, ranks)}

\* Mutant: ties are left open.
FinishesBeforeByRank(held, ranks, p, q) == ranks[p] < ranks[q]

\* Finish order: by rank, and between equal ranks the lower current tag first.
FinishesBefore(held, ranks, p, q) ==
  \/ ranks[p] < ranks[q]
  \/ ranks[p] = ranks[q] /\ held[p] < held[q]

(***************************************************************************)
(* AllocateTagsClosedPool sorts the pool, sorts the eligible participants  *)
(* by finish order and gives the i-th tag to the i-th participant: that is *)
(* the order-preserving map from participants to pool.  When no two        *)
(* members hold the same tag there is exactly one (ClosedPoolIsSorting in  *)
(* MCLeaderboardRules compares it with the two sorts of the code).         *)
(***************************************************************************)
ClosedPoolAllocations(held, ranks) ==
  {f \in [Eligible(held, ranks) -> TagPool(held, ranks)] :
      \A p, q \in Eligible(held, ranks) :
         FinishesBefore(held, ranks, p, q) => f[p] < f[q]}

\* Mutant: only members who had a tag before are reported.
ChangedHolders(held, f) == {p \in DOMAIN f : held[p] # NoTag /\ f[p] # held[p]}

\* The changes the allocator reports: members whose new tag differs.
Changed(held, f) == {p \in DOMAIN f : f[p] # held[p]}

\* ComputeFinalTagState: the old tags with the changes written over them.
FinalTags(held, f) ==
  [m \in DOMAIN held |-> IF m \in DOMAIN f THEN f[m] ELSE held[m]]

\* AllocateTagsFromReset: the i-th member of the finish order gets tag i.
ResetAllocation(order) ==
  [m \in {order[i] : i \in DOMAIN order} |->
      CHOOSE i \in DOMAIN order : order[i] = m]
=============================================================================
