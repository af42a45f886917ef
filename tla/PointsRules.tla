---------------------------- MODULE PointsRules ----------------------------
(***************************************************************************)
(* Points for one round: domain/points_calculator.go and domain/ranking.go *)
(* of the leaderboard module.  Players are compared by the tag they hold   *)
(* after the round's tags were traded; whoever ranks above somebody earns  *)
(* points for that matchup, more if the other's tier is better.            *)
(***************************************************************************)
EXTENDS TagAllocation

CONSTANT ProvisionalRounds   \* rounds before bonuses count: 3 in the code

ASSUME ProvisionalRoundsAssumption == ProvisionalRounds \in Nat

Gold == "Gold"
Silver == "Silver"
Bronze == "Bronze"

BaseWin == 100
BonusStandard == 50
BonusGiantSlayer == 75

\* Sums below are over sets of matchups, so the two bonuses are the matchups
\* in which a non-provisional winner of the worse tier meets the better one.
StandardUpset(winner, loser) ==
  \/ winner.tier = Silver /\ loser.tier = Gold
  \/ winner.tier = Bronze /\ loser.tier = Silver

GiantSlain(winner, loser) == winner.tier = Bronze /\ loser.tier = Gold

EarnsBonuses(winner) == winner.rounds >= ProvisionalRounds

\* Mutant: shares are rounded down
FloorTenths(tenths, totalMembers) == (tenths * totalMembers) \div 10

\* math.Ceil of a share of totalMembers, the share in tenths.  (The float64
\* product of the code has the same ceiling for every realistic guild size.)
CeilTenths(tenths, totalMembers) == (tenths * totalMembers + 9) \div 10

DetermineTier(bestTag, totalMembers) ==
  IF totalMembers = 0 \/ bestTag = NoTag THEN Bronze
  ELSE IF bestTag <= CeilTenths(1, totalMembers) THEN Gold
  ELSE IF bestTag <= CeilTenths(4, totalMembers) THEN Silver
  ELSE Bronze

\* The lower of two tags, where NoTag is worse than any tag.
UpdateBestTag(currentBest, newTag) ==
  IF currentBest = NoTag \/ (newTag # NoTag /\ newTag < currentBest)
  THEN newTag ELSE currentBest

\* Mutant: descending sort.
OutranksByHigherTag(finalTag, p, q) == finalTag[p] > finalTag[q]

\* The sort of CalculateRoundPoints: by tag, the untagged last, then by id.
Outranks(finalTag, p, q) ==
  \/ finalTag[p] # NoTag /\ finalTag[q] = NoTag
  \/ finalTag[p] # NoTag /\ finalTag[q] # NoTag /\ finalTag[p] < finalTag[q]
  \/ finalTag[p] = finalTag[q] /\ p < q

(***************************************************************************)
(* CalculateRoundPoints: `players' maps participants to their rounds so    *)
(* far and their tier.  The award of p is the sum of CalculateMatchup over *)
(* everybody p outranks, written as the number of matchups of each price.  *)
(***************************************************************************)
CalculateRoundPoints(players, finalTag) ==
  [p \in DOMAIN players |->
     LET beaten == {q \in DOMAIN players : Outranks(finalTag, p, q)}
         paid   == IF EarnsBonuses(players[p]) THEN beaten ELSE {}
         upsets == {q \in paid : StandardUpset(players[p], players[q])}
         giants == {q \in paid : GiantSlain(players[p], players[q])}
     IN  BaseWin * Cardinality(beaten)
           + BonusStandard * Cardinality(upsets)
           + BonusGiantSlayer * Cardinality(giants)]

\* Among the participants with a tag, points follow the finish order up to the
\* bonuses: a better finisher with the same record earns more.
BetterFinishPaysMore(held, ranks, players, finalTag) ==
  LET points == CalculateRoundPoints(players, finalTag)
  IN  \A p, q \in Eligible(held, ranks) :
         ranks[p] < ranks[q] /\ players[p] = players[q] => points[p] > points[q]
=============================================================================
