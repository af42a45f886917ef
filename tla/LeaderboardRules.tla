-------------------------- MODULE LeaderboardRules --------------------------
(***************************************************************************)
(* The closed forms of TagAllocation and PointsRules against the loops the *)
(* code computes them by.  A behaviour picks a round (the tags held and    *)
(* the ranks), then the season records of its players.                     *)
(***************************************************************************)
EXTENDS PointsRules, Integers, SequencesExt, FiniteSetsExt

CONSTANTS Players, MaxTag, MaxRank, SeasonSizes

\* Players are numbers: the order of ids breaks ties of untagged players.
ASSUME PlayersAssumption == IsFiniteSet(Players) /\ Players \subseteq Nat
ASSUME BoundsAssumption == MaxTag \in Nat /\ MaxRank \in Nat /\ SeasonSizes \subseteq Nat

VARIABLES
  heldTags,   \* the tag each player holds, NoTag for none
  finish,     \* the ranks of those who took part
  records,    \* their season records; <<>> before the round is scored
  guildSize   \* the members the tiers are shares of

ruleVars == <<heldTags, finish, records, guildSize>>

NoDuplicates(f) ==
  \A p, q \in DOMAIN f : p # q /\ f[p] = f[q] => f[p] = NoTag

RulesInit ==
  /\ heldTags \in {f \in [Players -> 0 .. MaxTag] : NoDuplicates(f)}
  /\ finish \in UNION {[S -> 1 .. MaxRank] : S \in (SUBSET Players) \ {{}}}
  /\ records = <<>> /\ guildSize = 0

Allocated == CHOOSE f \in ClosedPoolAllocations(heldTags, finish) : TRUE
NewTags == FinalTags(heldTags, Allocated)
BestTag(p) == UpdateBestTag(heldTags[p], NewTags[p])

ScoreRound ==
  /\ records = <<>>
  /\ guildSize' \in SeasonSizes
  /\ \E rounds \in [DOMAIN finish -> {ProvisionalRounds - 1, ProvisionalRounds}] :
       records' = [p \in DOMAIN finish |->
                     [rounds |-> rounds[p], tier |-> DetermineTier(BestTag(p), guildSize')]]
  /\ UNCHANGED <<heldTags, finish>>

RulesSpec == RulesInit /\ [][ScoreRound]_ruleVars

-----------------------------------------------------------------------------
\* slices.SortFunc: the elements of S, each once, none after one it is `Before'.
SortFunc(S, Before(_,_)) ==
  CHOOSE s \in SetToSeqs(S) : \A i, j \in DOMAIN s : i < j => ~Before(s[j], s[i])

\* AllocateTagsClosedPool as written: sort the pool, sort the eligible, zip.
SortedAllocation ==
  LET pool  == SortFunc(TagPool(heldTags, finish), <)
      order == SortFunc(Eligible(heldTags, finish),
                        LAMBDA p, q : FinishesBefore(heldTags, finish, p, q))
  IN  [p \in Eligible(heldTags, finish) |-> pool[CHOOSE i \in DOMAIN order : order[i] = p]]

\* The order-preserving map of the model is the code's zip of two sorted lists,
\* and there is exactly one.
ClosedPoolIsSorting == ClosedPoolAllocations(heldTags, finish) = {SortedAllocation}

\* CalculateMatchup as written: one price per matchup, early returns for
\* provisional and Gold winners.
CalculateMatchup(winner, loser) ==
  IF winner.rounds < ProvisionalRounds \/ winner.tier = Gold THEN BaseWin
  ELSE BaseWin
         + (IF winner.tier = Silver /\ loser.tier = Gold THEN BonusStandard ELSE 0)
         + (IF winner.tier = Bronze /\ loser.tier = Silver THEN BonusStandard ELSE 0)
         + (IF winner.tier = Bronze /\ loser.tier = Gold THEN BonusGiantSlayer ELSE 0)

\* An untagged player sorts as the largest int, which no tag is.
SortKey(finalTag, p) == IF finalTag[p] = NoTag THEN MaxTag + 1 ELSE finalTag[p]

\* The double loop of CalculateRoundPoints over the list sorted by tag.
SummedMatchups(players, finalTag) ==
  LET sorted == SortFunc(DOMAIN players,
                   LAMBDA p, q : \/ SortKey(finalTag, p) < SortKey(finalTag, q)
                                 \/ SortKey(finalTag, p) = SortKey(finalTag, q) /\ p < q)
  IN  [p \in DOMAIN players |->
         LET i == CHOOSE k \in DOMAIN sorted : sorted[k] = p
         IN  MapThenSumSet(LAMBDA j : CalculateMatchup(players[p], players[sorted[j]]),
                           (i + 1) .. Len(sorted))]

\* Top 10% = Gold, next 30% = Silver: whoever has less than that share ahead of them.
TierByShare(bestTag, totalMembers) ==
  CASE bestTag # NoTag /\ 10 * (bestTag - 1) < totalMembers -> Gold
    [] bestTag # NoTag /\ 10 * (bestTag - 1) \in totalMembers .. 4 * totalMembers - 1 -> Silver
    [] OTHER -> Bronze

ByShare == [p \in DOMAIN records |->
              [rounds |-> records[p].rounds, tier |-> TierByShare(BestTag(p), guildSize)]]

\* The closed form of the model, with the tiers that ceilings of shares give, pays what
\* the code's double loop pays whoever has less than a tier's share ahead of them.
\* (CalculateRoundPoints, CalculateMatchup, DetermineTier)
PointsAreSummedMatchups ==
  records # <<>> => CalculateRoundPoints(records, NewTags) = SummedMatchups(ByShare, NewTags)

\* Among the tagged players of a round, points follow the finish order up to the
\* bonuses: a better finisher with the same record never earns less.
BetterFinishNeverPaysLess ==
  records # <<>> => BetterFinishPaysMore(heldTags, finish, records, NewTags)
=============================================================================
