------------------------- MODULE LeaderboardProofs -------------------------
(***************************************************************************)
(* For every guild, every set of rounds and seasons and every point rule   *)
(* parameter: the pipeline keeps tags, point history, outcomes and         *)
(* standings consistent through recalculations and redeliveries.           *)
(*                                                                         *)
(* LbInv is inductive.  RolledBackFacts says what is left of a round once  *)
(* its earlier version has been taken back, ApplyRoundStep that the new    *)
(* version is put in its place; the other commands hardly touch the parts  *)
(* the invariant relates.                                                  *)
(***************************************************************************)
EXTENDS Leaderboard, LeaderboardRules, TagLedgerProofs, NatInductionFacts

Standings == [total : Nat, rounds : Nat, best : Nat]

LbTypeOK ==
  /\ seasons \subseteq SeasonIds
  /\ activeSeason \in seasons \cup {NoSeason}
  /\ outcome \in [Rounds -> [season : SeasonIds \cup {NoSeason},
                             ranks : Finishes \cup {<<>>}]]
  /\ fresh \subseteq Rounds
  /\ pointHistory \subseteq [round : Rounds, season : SeasonIds,
                             member : Members, points : Nat]
  /\ adjustments \in [SeasonIds -> [Members -> Seq(Deltas)]]
  /\ enrolled \in [SeasonIds -> SUBSET Members]
  /\ standing \in [SeasonIds -> [Members -> Standings]]

LbInv ==
  /\ TagInv
  /\ LbTypeOK
  /\ IsFiniteSet(pointHistory)
  /\ HistoryMatchesOutcome
  /\ RoundsPlayedIsHistory

\* Rows of season s and member m in a set of point history rows.
RowsIn(H, s, m) == {h \in H : h.season = s /\ h.member = m}

-----------------------------------------------------------------------------
\* Participants of a round are finitely many members with numbered ranks.
LEMMA FinishFacts ==
  ASSUME NEW ranks \in Finishes
  PROVE  DOMAIN ranks \subseteq Members /\ IsFiniteSet(DOMAIN ranks) /\ DOMAIN ranks # {}
BY FinishesAssumption, MembersAssumption, FS_Subset

\* Awards are natural numbers.
LEMMA PointsAreNat ==
  ASSUME NEW players, IsFiniteSet(DOMAIN players), NEW finalTag
  PROVE  CalculateRoundPoints(players, finalTag) \in [DOMAIN players -> Nat]
<1> SUFFICES ASSUME NEW p \in DOMAIN players
             PROVE  CalculateRoundPoints(players, finalTag)[p] \in Nat
  BY DEF CalculateRoundPoints
<1> DEFINE beaten == {q \in DOMAIN players : Outranks(finalTag, p, q)}
           paid   == IF EarnsBonuses(players[p]) THEN beaten ELSE {}
           upsets == {q \in paid : StandardUpset(players[p], players[q])}
           giants == {q \in paid : GiantSlain(players[p], players[q])}
<1>1. beaten \in SUBSET DOMAIN players /\ upsets \in SUBSET DOMAIN players
        /\ giants \in SUBSET DOMAIN players
  OBVIOUS
<1>2. CalculateRoundPoints(players, finalTag)[p] =
        BaseWin * Cardinality(beaten) + BonusStandard * Cardinality(upsets)
          + BonusGiantSlayer * Cardinality(giants)
  BY DEF CalculateRoundPoints
<1> HIDE DEF beaten, paid, upsets, giants
<1>3. Cardinality(beaten) \in Nat /\ Cardinality(upsets) \in Nat
        /\ Cardinality(giants) \in Nat
  BY <1>1, FS_Subset, FS_CardinalityType
<1> QED BY <1>2, <1>3 DEF BaseWin, BonusStandard, BonusGiantSlayer

\* The better of two tags is one of them.
LEMMA BestIsNat ==
  ASSUME NEW a \in Nat, NEW b \in Nat
  PROVE  UpdateBestTag(a, b) \in Nat
BY DEF UpdateBestTag

\* Tags are natural numbers.
LEMMA TagIsNat == ASSUME NEW t \in Tags \cup {NoTag} PROVE t \in Nat
<1>1. NoTag \in Nat
  BY DEF NoTag
<1> QED BY <1>1, TagsAssumption

-----------------------------------------------------------------------------
\* After a rollback the standings count exactly the rounds still in the history,
\* and only the season the round was in has changed.
LEMMA RolledBackFacts ==
  ASSUME LbInv, NEW r \in Rounds
  PROVE  /\ RolledBack(r) \in [SeasonIds -> [Members -> Standings]]
         /\ IsFiniteSet(HistoryWithout(r))
         /\ \A s \in SeasonIds, m \in Members :
               RolledBack(r)[s][m].rounds = Cardinality(RowsIn(HistoryWithout(r), s, m))
         /\ \A s \in SeasonIds : RolledBack(r)[s] # standing[s] => outcome[r].season = s
<1>1. ASSUME NEW s \in SeasonIds, NEW m \in Members
      PROVE  /\ RolledBack(r)[s][m] \in Standings
             /\ RolledBack(r)[s][m].rounds = Cardinality(RowsIn(HistoryWithout(r), s, m))
             /\ outcome[r].season # s => RolledBack(r)[s][m] = standing[s][m]
  <2> DEFINE St == standing[s][m]
             all == SeasonRows(s, m)
             left == RowsIn(HistoryWithout(r), s, m)
  <2>1. St \in Standings
    BY <1>1 DEF LbInv, LbTypeOK
  <2>2. all \in SUBSET pointHistory /\ IsFiniteSet(all)
    BY FS_Subset DEF LbInv, SeasonRows
  <2>3. St.rounds = Cardinality(all)
    BY DEF LbInv, RoundsPlayedIsHistory
  <2>4. CASE \E h \in RowsOf(r) : h.season = s /\ h.member = m
    <3> DEFINE h == CHOOSE h \in RowsOf(r) : h.season = s /\ h.member = m
    <3>1. h \in RowsOf(r) /\ h.season = s /\ h.member = m
      BY <2>4
    <3>2. RolledBack(r)[s][m] = [total  |-> NonNegative(St.total - h.points),
                                 rounds |-> NonNegative(St.rounds - 1),
                                 best   |-> St.best]
      BY <2>4 DEF RolledBack
    <3> HIDE DEF h
    <3>3. left = all \ {h}
      <4>1. \A g \in RowsOf(r) : g.member = m => g = h
        BY <3>1 DEF LbInv, HistoryMatchesOutcome
      <4> QED BY <3>1, <4>1 DEF RowsIn, HistoryWithout, SeasonRows, RowsOf
    <3>4. h \in all
      BY <3>1 DEF SeasonRows, RowsOf
    <3>5. Cardinality(left) = Cardinality(all) - 1 /\ IsFiniteSet(left)
      BY <2>2, <3>3, <3>4, FS_RemoveElement
    <3>6. Cardinality(left) \in Nat /\ Cardinality(all) \in Nat
      BY <2>2, <3>5, FS_CardinalityType
    <3>7. h.points \in Nat
      BY <3>1 DEF LbInv, LbTypeOK, RowsOf
    <3>8. outcome[r].season = s
      BY <3>1 DEF LbInv, HistoryMatchesOutcome
    <3>9. RolledBack(r)[s][m].rounds = NonNegative(St.rounds - 1)
      BY <3>2
    <3>10. RolledBack(r)[s][m] \in Standings
      <4>1. NonNegative(St.total - h.points) \in Nat /\ NonNegative(St.rounds - 1) \in Nat
        BY <2>1, <3>7 DEF Standings, NonNegative
      <4> QED BY <2>1, <3>2, <4>1 DEF Standings
    <3> HIDE DEF left, all, St
    <3> QED BY <2>3, <3>5, <3>6, <3>8, <3>9, <3>10 DEF NonNegative, left, St
  <2>5. CASE ~ \E h \in RowsOf(r) : h.season = s /\ h.member = m
    <3>1. RolledBack(r)[s][m] = St
      BY <2>5 DEF RolledBack
    <3>2. left = all
      BY <2>5 DEF RowsIn, HistoryWithout, SeasonRows, RowsOf
    <3> QED BY <2>1, <2>3, <3>1, <3>2
  <2> QED BY <2>4, <2>5
<1>2. RolledBack(r) = [s \in SeasonIds |-> [m \in Members |-> RolledBack(r)[s][m]]]
  BY DEF RolledBack
<1>3. IsFiniteSet(HistoryWithout(r))
  BY FS_Subset DEF LbInv, HistoryWithout
<1>4. RolledBack(r) \in [SeasonIds -> [Members -> Standings]]
  BY <1>1, <1>2
<1>5. ASSUME NEW s \in SeasonIds, outcome[r].season # s
      PROVE  RolledBack(r)[s] = standing[s]
  <2>1. standing[s] \in [Members -> Standings] /\ RolledBack(r)[s] \in [Members -> Standings]
    BY <1>4 DEF LbInv, LbTypeOK
  <2> QED BY <1>1, <1>5, <2>1
<1> QED BY <1>1, <1>3, <1>4, <1>5

-----------------------------------------------------------------------------
\* What is left when nobody is awarded points, and what an award is added to.
LEMMA SkipPointsStep ==
  ASSUME LbInv, NEW r \in Rounds, SkipPoints(r, RolledBack(r))
  PROVE  /\ pointHistory' = HistoryWithout(r)
         /\ IsFiniteSet(pointHistory')
         /\ standing' \in [SeasonIds -> [Members -> Standings]]
         /\ enrolled' = enrolled
         /\ RoundsPlayedIsHistory'
         /\ \A z \in SeasonIds : standing'[z] # standing[z] => outcome[r].season = z
<1>1. pointHistory' = HistoryWithout(r) /\ standing' = RolledBack(r) /\ enrolled' = enrolled
  BY DEF SkipPoints
<1>2. RoundsPlayedIsHistory'
  <2> SUFFICES ASSUME NEW z \in SeasonIds, NEW m \in Members
               PROVE  standing'[z][m].rounds = Cardinality(SeasonRows(z, m)')
    BY DEF RoundsPlayedIsHistory
  <2>1. SeasonRows(z, m)' = RowsIn(HistoryWithout(r), z, m)
    BY <1>1 DEF SeasonRows, RowsIn
  <2> QED BY <1>1, <2>1, RolledBackFacts
<1> QED BY <1>1, <1>2, RolledBackFacts

\* One row per participant is added to what is left of the history, and one round
\* to the standing of each; the rest of the standings stays as rolled back.
LEMMA AwardPointsStep ==
  ASSUME LbInv, NEW r \in Rounds, NEW ranks \in Finishes, NEW s \in SeasonIds,
         \A m \in Members : tag'[m] \in Nat,
         AwardPoints(r, ranks, RolledBack(r), tag', s)
  PROVE  \E new \in SUBSET [round : {r}, season : {s}, member : DOMAIN ranks, points : Nat] :
            /\ pointHistory' = HistoryWithout(r) \cup new
            /\ {h.member : h \in new} = DOMAIN ranks
            /\ \A g, h \in new : g.member = h.member => g = h
            /\ IsFiniteSet(pointHistory')
            /\ standing' \in [SeasonIds -> [Members -> Standings]]
            /\ enrolled' \in [SeasonIds -> SUBSET Members]
            /\ RoundsPlayedIsHistory'
            /\ \A z \in SeasonIds :
                  standing'[z] # standing[z] => z = s \/ outcome[r].season = z
<1> DEFINE before  == RolledBack(r)
           players == PlayersOf(ranks, before, tag', s)
           points  == CalculateRoundPoints(players, tag')
           row(p)  == [round |-> r, season |-> s, member |-> p, points |-> points[p]]
           new     == {row(p) : p \in DOMAIN ranks}
<1>1. DOMAIN ranks \subseteq Members /\ IsFiniteSet(DOMAIN ranks)
  BY FinishFacts
<1>2. DOMAIN players = DOMAIN ranks
  BY DEF PlayersOf
<1>3. points \in [DOMAIN ranks -> Nat]
  <2> HIDE DEF players
  <2> QED BY <1>1, <1>2, PointsAreNat
<1>4. /\ pointHistory' = HistoryWithout(r) \cup new
      /\ standing' = [before EXCEPT ![s] = [m \in Members |->
           IF m \in DOMAIN ranks
           THEN [total  |-> before[s][m].total + points[m],
                 rounds |-> before[s][m].rounds + 1,
                 best   |-> UpdateBestTag(before[s][m].best, tag'[m])]
           ELSE before[s][m]]]
      /\ enrolled' = [enrolled EXCEPT ![s] = @ \cup DOMAIN ranks]
  BY DEF AwardPoints
<1> HIDE DEF points
<1>5. /\ before \in [SeasonIds -> [Members -> Standings]]
      /\ IsFiniteSet(HistoryWithout(r))
      /\ \A z \in SeasonIds, m \in Members :
            before[z][m].rounds = Cardinality(RowsIn(HistoryWithout(r), z, m))
      /\ \A z \in SeasonIds : before[z] # standing[z] => outcome[r].season = z
  BY RolledBackFacts
<1> HIDE DEF before
<1>6. new \in SUBSET [round : {r}, season : {s}, member : DOMAIN ranks, points : Nat]
  BY <1>3
<1>7. {h.member : h \in new} = DOMAIN ranks
  <2>1. \A p \in DOMAIN ranks : row(p) \in new /\ row(p).member = p
    OBVIOUS
  <2>2. \A h \in new : h.member \in DOMAIN ranks
    OBVIOUS
  <2> HIDE DEF new, row
  <2> QED BY <2>1, <2>2
<1>8. \A g, h \in new : g.member = h.member => g = h
  OBVIOUS
<1>9. IsFiniteSet(pointHistory')
  <2> DEFINE f == [p \in DOMAIN ranks |-> row(p)]
  <2>1. f \in Surjection(DOMAIN ranks, new)
    BY DEF Surjection
  <2>2. IsFiniteSet(new)
    BY <1>1, <2>1, FS_Surjection
  <2> HIDE DEF new
  <2> QED BY <1>4, <1>5, <2>2, FS_Union
<1>10. \A m \in Members : before[s][m] \in Standings
  BY <1>5
<1>11. standing' \in [SeasonIds -> [Members -> Standings]]
  <2> DEFINE mine == [m \in Members |->
           IF m \in DOMAIN ranks
           THEN [total  |-> before[s][m].total + points[m],
                 rounds |-> before[s][m].rounds + 1,
                 best   |-> UpdateBestTag(before[s][m].best, tag'[m])]
           ELSE before[s][m]]
  <2>1. ASSUME NEW m \in Members PROVE mine[m] \in Standings
    <3>1. CASE m \in DOMAIN ranks
      <4>1. UpdateBestTag(before[s][m].best, tag'[m]) \in Nat
        BY <1>10, BestIsNat DEF Standings
      <4>2. before[s][m].total + points[m] \in Nat /\ before[s][m].rounds + 1 \in Nat
        BY <1>3, <1>10, <3>1 DEF Standings
      <4> QED BY <3>1, <4>1, <4>2 DEF Standings
    <3>2. CASE m \notin DOMAIN ranks
      BY <1>10, <3>2
    <3> QED BY <3>1, <3>2
  <2>2. mine \in [Members -> Standings]
    BY <2>1
  <2>3. standing' = [before EXCEPT ![s] = mine]
    BY <1>4
  <2> HIDE DEF mine
  <2> QED BY <1>5, <2>2, <2>3
<1>12. enrolled' \in [SeasonIds -> SUBSET Members]
  BY <1>1, <1>4 DEF LbInv, LbTypeOK
<1>13. RoundsPlayedIsHistory'
  <2> SUFFICES ASSUME NEW z \in SeasonIds, NEW m \in Members
               PROVE  standing'[z][m].rounds = Cardinality(SeasonRows(z, m)')
    BY DEF RoundsPlayedIsHistory
  <2> DEFINE left == RowsIn(HistoryWithout(r), z, m)
  <2>1. SeasonRows(z, m)' = left \cup RowsIn(new, z, m)
    BY <1>4 DEF SeasonRows, RowsIn
  <2>2. IsFiniteSet(left)
    BY <1>5, FS_Subset DEF RowsIn
  <2>3. CASE z = s /\ m \in DOMAIN ranks
    <3>1. RowsIn(new, z, m) = {row(m)}
      BY <2>3 DEF RowsIn
    <3>2. row(m) \notin left
      BY DEF RowsIn, HistoryWithout, RowsOf
    <3>3. standing'[z][m].rounds = before[s][m].rounds + 1
      BY <1>4, <1>5, <2>3
    <3> HIDE DEF left
    <3>4. Cardinality(left \cup {row(m)}) = Cardinality(left) + 1
      BY <2>2, <3>2, FS_AddElement
    <3> QED BY <1>5, <2>1, <2>3, <3>1, <3>3, <3>4 DEF left
  <2>4. CASE ~(z = s /\ m \in DOMAIN ranks)
    <3>1. RowsIn(new, z, m) = {}
      BY <2>4 DEF RowsIn
    <3>2. standing'[z][m] = before[z][m]
      BY <1>4, <1>5, <2>4
    <3> HIDE DEF new
    <3>3. SeasonRows(z, m)' = left
      BY <2>1, <3>1
    <3>4. before[z][m].rounds = Cardinality(left)
      BY <1>5
    <3> QED BY <3>2, <3>3, <3>4
  <2> QED BY <2>3, <2>4
<1>14. \A z \in SeasonIds : standing'[z] # standing[z] => z = s \/ outcome[r].season = z
  BY <1>4, <1>5
<1> QED BY <1>4, <1>6, <1>7, <1>8, <1>9, <1>11, <1>12, <1>13, <1>14

-----------------------------------------------------------------------------
\* Processing a round, for the first time or again, keeps the invariant, leaves
\* the history of the other rounds alone and touches the standings of two
\* seasons at most: the one the round was in and the active one.
LEMMA ApplyRoundStep ==
  ASSUME LbInv, NEW r \in Rounds, NEW ranks \in Finishes, ApplyRound(r, ranks)
  PROVE  /\ LbInv'
         /\ \A q \in Rounds \ {r} : RowsOf(q)' = RowsOf(q)
         /\ \A z \in SeasonIds :
               standing'[z] # standing[z] => z = activeSeason \/ outcome[r].season = z
<1> DEFINE s == ResolveSeasonForRound(r)
<1>1. /\ ReassignTags(ranks)
      /\ IF s # NoSeason THEN AwardPoints(r, ranks, RolledBack(r), tag', s)
                         ELSE SkipPoints(r, RolledBack(r))
      /\ outcome' = [outcome EXCEPT ![r] = [season |-> s, ranks |-> ranks]]
      /\ fresh' = fresh \cup {r}
      /\ UNCHANGED <<seasons, activeSeason, adjustments>>
  BY DEF ApplyRound
<1>2. s \in SeasonIds \cup {NoSeason} /\ (s = outcome[r].season \/ s = activeSeason)
  BY DEF LbInv, LbTypeOK, ResolveSeasonForRound
<1>3. s = NoSeason => outcome[r].season = NoSeason
  BY DEF ResolveSeasonForRound
<1> HIDE DEF s
<1>4. TagInv'
  BY <1>1, ReassignTagsStep DEF LbInv
<1>5. \A m \in Members : tag'[m] \in Nat
  BY <1>4, TagIsNat DEF TagInv, TagTypeOK
<1>6. /\ outcome' \in [Rounds -> [season : SeasonIds \cup {NoSeason},
                                  ranks : Finishes \cup {<<>>}]]
      /\ outcome'[r] = [season |-> s, ranks |-> ranks]
      /\ \A q \in Rounds \ {r} : outcome'[q] = outcome[q]
  BY <1>1, <1>2 DEF LbInv, LbTypeOK
<1>7. /\ seasons' \subseteq SeasonIds
      /\ activeSeason' \in seasons' \cup {NoSeason}
      /\ fresh' \subseteq Rounds
      /\ adjustments' \in [SeasonIds -> [Members -> Seq(Deltas)]]
  BY <1>1 DEF LbInv, LbTypeOK
<1>8. CASE s # NoSeason
  <2>1. AwardPoints(r, ranks, RolledBack(r), tag', s) /\ s \in SeasonIds
    BY <1>1, <1>2, <1>8
  <2>2. PICK new \in SUBSET [round : {r}, season : {s}, member : DOMAIN ranks, points : Nat] :
            /\ pointHistory' = HistoryWithout(r) \cup new
            /\ {h.member : h \in new} = DOMAIN ranks
            /\ \A g, h \in new : g.member = h.member => g = h
            /\ IsFiniteSet(pointHistory')
            /\ standing' \in [SeasonIds -> [Members -> Standings]]
            /\ enrolled' \in [SeasonIds -> SUBSET Members]
            /\ RoundsPlayedIsHistory'
            /\ \A z \in SeasonIds :
                  standing'[z] # standing[z] => z = s \/ outcome[r].season = z
    BY <1>5, <2>1, AwardPointsStep
  <2>3. \A h \in new : h.round = r /\ h.season = s
    OBVIOUS
  <2>4. RowsOf(r)' = new
    BY <2>2, <2>3 DEF RowsOf, HistoryWithout
  <2>5. \A q \in Rounds \ {r} : RowsOf(q)' = RowsOf(q)
    BY <2>2, <2>3 DEF RowsOf, HistoryWithout
  <2>6. HistoryMatchesOutcome'
    <3> SUFFICES ASSUME NEW q \in Rounds
                 PROVE  /\ {h.member : h \in RowsOf(q)'} =
                             (IF outcome'[q].season = NoSeason THEN {}
                              ELSE DOMAIN outcome'[q].ranks)
                        /\ \A h \in RowsOf(q)' : h.season = outcome'[q].season
                        /\ \A g, h \in RowsOf(q)' : g.member = h.member => g = h
      BY DEF HistoryMatchesOutcome
    <3>1. CASE q = r
      BY <1>6, <1>8, <2>2, <2>3, <2>4, <3>1
    <3>2. CASE q # r
      <4>1. RowsOf(q)' = RowsOf(q) /\ outcome'[q] = outcome[q]
        BY <1>6, <2>5, <3>2
      <4> QED BY <4>1 DEF LbInv, HistoryMatchesOutcome
    <3> QED BY <3>1, <3>2
  <2>7. pointHistory' \subseteq [round : Rounds, season : SeasonIds,
                                 member : Members, points : Nat]
    BY <2>1, <2>2, FinishFacts DEF LbInv, LbTypeOK, HistoryWithout
  <2> QED BY <1>2, <1>4, <1>6, <1>7, <2>2, <2>5, <2>6, <2>7 DEF LbInv, LbTypeOK
<1>9. CASE s = NoSeason
  <2>1. /\ pointHistory' = HistoryWithout(r)
        /\ IsFiniteSet(pointHistory')
        /\ standing' \in [SeasonIds -> [Members -> Standings]]
        /\ enrolled' = enrolled
        /\ RoundsPlayedIsHistory'
        /\ \A z \in SeasonIds : standing'[z] # standing[z] => outcome[r].season = z
    BY <1>1, <1>9, SkipPointsStep
  <2>2. RowsOf(r)' = {} /\ \A q \in Rounds \ {r} : RowsOf(q)' = RowsOf(q)
    BY <2>1 DEF RowsOf, HistoryWithout
  <2>3. HistoryMatchesOutcome'
    <3> SUFFICES ASSUME NEW q \in Rounds
                 PROVE  /\ {h.member : h \in RowsOf(q)'} =
                             (IF outcome'[q].season = NoSeason THEN {}
                              ELSE DOMAIN outcome'[q].ranks)
                        /\ \A h \in RowsOf(q)' : h.season = outcome'[q].season
                        /\ \A g, h \in RowsOf(q)' : g.member = h.member => g = h
      BY DEF HistoryMatchesOutcome
    <3>1. CASE q = r
      BY <1>6, <1>9, <2>2, <3>1
    <3>2. CASE q # r
      <4>1. RowsOf(q)' = RowsOf(q) /\ outcome'[q] = outcome[q]
        BY <1>6, <2>2, <3>2
      <4> QED BY <4>1 DEF LbInv, HistoryMatchesOutcome
    <3> QED BY <3>1, <3>2
  <2>4. pointHistory' \subseteq [round : Rounds, season : SeasonIds,
                                 member : Members, points : Nat]
    BY <2>1 DEF LbInv, LbTypeOK, HistoryWithout
  <2>5. enrolled' \in [SeasonIds -> SUBSET Members]
    BY <2>1 DEF LbInv, LbTypeOK
  <2> QED BY <1>4, <1>6, <1>7, <2>1, <2>2, <2>3, <2>4, <2>5 DEF LbInv, LbTypeOK
<1> QED BY <1>8, <1>9

\* An adjustment moves a total and nothing the history of rounds is compared with.
LEMMA AdjustPointsStep ==
  ASSUME LbInv, NEW m \in Members, NEW delta \in Deltas, AdjustPoints(m, delta)
  PROVE  /\ LbInv'
         /\ \A z \in SeasonIds : standing'[z] # standing[z] => z = activeSeason
<1> DEFINE s == activeSeason
           total == NonNegative(standing[s][m].total + delta)
<1>1. /\ s # NoSeason
      /\ adjustments' = [adjustments EXCEPT ![s][m] = Append(@, delta)]
      /\ standing' = [standing EXCEPT ![s][m].total = total]
      /\ enrolled' = [enrolled EXCEPT ![s] = @ \cup {m}]
      /\ UNCHANGED <<tagVars, seasons, activeSeason, outcome, fresh, pointHistory>>
  BY DEF AdjustPoints
<1>2. s \in SeasonIds
  BY <1>1 DEF LbInv, LbTypeOK
<1>3. standing[s][m] \in Standings /\ standing \in [SeasonIds -> [Members -> Standings]]
  BY <1>2 DEF LbInv, LbTypeOK
<1>4. total \in Nat
  BY <1>3, DeltasAssumption DEF Standings, NonNegative
<1> HIDE DEF total
<1>5. standing' \in [SeasonIds -> [Members -> Standings]]
  BY <1>1, <1>2, <1>3, <1>4 DEF Standings
<1>6. \A z \in SeasonIds, x \in Members : standing'[z][x].rounds = standing[z][x].rounds
  BY <1>1, <1>2, <1>3 DEF Standings
<1>7. adjustments' \in [SeasonIds -> [Members -> Seq(Deltas)]]
  <2>1. adjustments \in [SeasonIds -> [Members -> Seq(Deltas)]]
    BY DEF LbInv, LbTypeOK
  <2>2. Append(adjustments[s][m], delta) \in Seq(Deltas)
    BY <1>2, <2>1
  <2> QED BY <1>1, <1>2, <2>1, <2>2
<1>8. enrolled' \in [SeasonIds -> SUBSET Members]
  BY <1>1, <1>2 DEF LbInv, LbTypeOK
<1>9. TagInv'
  BY <1>1 DEF LbInv, TagInv, tagVars, TagTypeOK, UniqueTags, HistoryExplainsTags
<1>10. RoundsPlayedIsHistory'
  BY <1>1, <1>6 DEF LbInv, RoundsPlayedIsHistory, SeasonRows
<1>11. HistoryMatchesOutcome'
  BY <1>1 DEF LbInv, HistoryMatchesOutcome, RowsOf
<1>12. LbTypeOK'
  BY <1>1, <1>5, <1>7, <1>8 DEF LbInv, LbTypeOK
<1>13. IsFiniteSet(pointHistory')
  BY <1>1 DEF LbInv
<1>14. \A z \in SeasonIds : standing'[z] # standing[z] => z = activeSeason
  BY <1>1, <1>2, <1>3
<1> QED BY <1>9, <1>10, <1>11, <1>12, <1>13, <1>14 DEF LbInv

\* Batches and resets reach the tags only.
LEMMA AssignTagsStep == ASSUME LbInv, AssignTags PROVE LbInv'
<1>1. TagInv'
  <2>1. ASSUME NEW req \in Requests, ApplyTagAssignments(req) PROVE TagInv'
    BY <2>1, RequestsAssumption, ApplyTagAssignmentsStep DEF LbInv
  <2>2. ASSUME NEW order \in ResetOrders, ResetTags(order) PROVE TagInv'
    BY <2>2, ResetTagsStep DEF LbInv
  <2> QED BY <2>1, <2>2 DEF AssignTags
<1> QED BY <1>1 DEF AssignTags, pointVars, LbInv, LbTypeOK, HistoryMatchesOutcome,
                    RowsOf, RoundsPlayedIsHistory, SeasonRows

-----------------------------------------------------------------------------
\* No member has a tag, no round a history.
LEMMA LbInitInv == Init => LbInv
<1> SUFFICES ASSUME Init PROVE LbInv
  OBVIOUS
<1>1. TagInv
  BY TagInitInv DEF Init
<1>2. LbTypeOK
  BY DEF Init, LbTypeOK, NotProcessed, NoStanding, Standings, NoTag
<1>3. IsFiniteSet(pointHistory)
  BY FS_EmptySet DEF Init
<1>4. HistoryMatchesOutcome
  BY DEF Init, HistoryMatchesOutcome, RowsOf, NotProcessed
<1>5. RoundsPlayedIsHistory
  <2> SUFFICES ASSUME NEW s \in SeasonIds, NEW m \in Members
               PROVE  standing[s][m].rounds = Cardinality(SeasonRows(s, m))
    BY DEF RoundsPlayedIsHistory
  <2>1. SeasonRows(s, m) = {}
    BY DEF Init, SeasonRows
  <2> QED BY <2>1, FS_EmptySet DEF Init, NoStanding
<1> QED BY <1>1, <1>2, <1>3, <1>4, <1>5 DEF LbInv

\* Every command keeps the invariant.
LEMMA LbNextInv == LbInv /\ [Next]_vars => LbInv'
<1> SUFFICES ASSUME LbInv, [Next]_vars PROVE LbInv'
  OBVIOUS
<1>1. ASSUME UNCHANGED tagVars PROVE TagInv'
  BY <1>1 DEF tagVars, LbInv, TagInv, TagTypeOK, UniqueTags, HistoryExplainsTags
<1>2. CASE UNCHANGED vars
  BY <1>1, <1>2 DEF vars, tagVars, pointVars, LbInv, LbTypeOK, HistoryMatchesOutcome,
                    RowsOf, RoundsPlayedIsHistory, SeasonRows
<1>3. ASSUME NEW r \in Rounds, NEW ranks \in Finishes, ProcessRound(r, ranks)
      PROVE  LbInv'
  <2>1. CASE SameData(r, ranks)
    BY <1>2, <1>3, <2>1 DEF ProcessRound
  <2>2. CASE ~SameData(r, ranks)
    BY <1>3, <2>2, ApplyRoundStep DEF ProcessRound
  <2> QED BY <2>1, <2>2
<1>4. ASSUME NEW r \in Rounds, WindowCloses(r) PROVE LbInv'
  BY <1>1, <1>4 DEF WindowCloses, LbInv, LbTypeOK, HistoryMatchesOutcome,
                    RowsOf, RoundsPlayedIsHistory, SeasonRows
<1>5. ASSUME NEW s \in SeasonIds, StartSeason(s) PROVE LbInv'
  BY <1>1, <1>5 DEF StartSeason, LbInv, LbTypeOK, HistoryMatchesOutcome,
                    RowsOf, RoundsPlayedIsHistory, SeasonRows
<1>6. CASE EndSeason
  BY <1>1, <1>6 DEF EndSeason, LbInv, LbTypeOK, HistoryMatchesOutcome,
                    RowsOf, RoundsPlayedIsHistory, SeasonRows
<1>7. ASSUME NEW m \in Members, NEW delta \in Deltas, AdjustPoints(m, delta)
      PROVE  LbInv'
  BY <1>7, AdjustPointsStep
<1>8. CASE AssignTags
  BY <1>8, AssignTagsStep
<1> QED BY <1>2, <1>3, <1>4, <1>5, <1>6, <1>7, <1>8 DEF Next

\* The whole state of the pipeline stays well-typed: in particular no total, no
\* number of rounds and no award ever becomes negative.
THEOREM TypeCorrect == Spec => []TypeOK
<1>1. LbInv => TypeOK
  BY DEF LbInv, TagInv, LbTypeOK, TypeOK, Standings
<1> QED BY LbInitInv, LbNextInv, <1>1, PTL DEF Spec

\* Tags stay unique and explained by their history also when rounds are
\* recalculated and redelivered between batches and resets.
THEOREM TagsStayUnique == Spec => [](UniqueTags /\ HistoryExplainsTags)
<1>1. LbInv => UniqueTags /\ HistoryExplainsTags
  BY DEF LbInv, TagInv
<1> QED BY LbInitInv, LbNextInv, <1>1, PTL DEF Spec

\* The point history of a round is always exactly what its outcome says.
THEOREM HistoryAlwaysMatchesOutcome == Spec => []HistoryMatchesOutcome
<1>1. LbInv => HistoryMatchesOutcome
  BY DEF LbInv
<1> QED BY LbInitInv, LbNextInv, <1>1, PTL DEF Spec

\* The rounds a standing counts are always the rounds in the history.
THEOREM RoundsPlayedAlwaysIsHistory == Spec => []RoundsPlayedIsHistory
<1>1. LbInv => RoundsPlayedIsHistory
  BY DEF LbInv
<1> QED BY LbInitInv, LbNextInv, <1>1, PTL DEF Spec

-----------------------------------------------------------------------------
\* A standing of a season that is not active changes only when a round of that
\* season is recalculated with other data.
THEOREM ClosedSeasonsAreAlwaysFrozen == Spec => ClosedSeasonsAreFrozen
<1> DEFINE Frozen == \A s \in SeasonIds :
              standing'[s] # standing[s] =>
                 \/ s = activeSeason
                 \/ \E r \in Rounds : outcome[r].season = s /\ outcome'[r] # outcome[r]
<1>1. LbInv /\ [Next]_vars => Frozen
  <2> SUFFICES ASSUME LbInv, [Next]_vars,
                      NEW s \in SeasonIds, standing'[s] # standing[s], s # activeSeason
               PROVE  \E r \in Rounds : outcome[r].season = s /\ outcome'[r] # outcome[r]
    OBVIOUS
  <2>1. PICK r \in Rounds, ranks \in Finishes : ProcessRound(r, ranks)
    <3>1. ASSUME NEW m \in Members, NEW delta \in Deltas, AdjustPoints(m, delta)
          PROVE  FALSE
      BY <3>1, AdjustPointsStep
    <3> QED BY <3>1 DEF Next, vars, pointVars, WindowCloses, StartSeason, EndSeason,
                        AssignTags
  <2>2. ~SameData(r, ranks)
    BY <2>1 DEF ProcessRound, vars, pointVars
  <2>3. ApplyRound(r, ranks)
    BY <2>1, <2>2 DEF ProcessRound
  <2>4. outcome[r].season = s
    BY <2>3, ApplyRoundStep
  <2>5. outcome'[r].ranks = ranks
    BY <2>3 DEF ApplyRound, LbInv, LbTypeOK
  <2>6. DOMAIN ranks # {}
    BY FinishFacts
  <2>7. outcome'[r] # outcome[r]
    BY <2>2, <2>5, <2>6 DEF SameData, Processed
  <2> QED BY <2>4, <2>7
<1> QED BY LbInitInv, LbNextInv, <1>1, PTL DEF Spec, ClosedSeasonsAreFrozen

\* A recalculated round keeps its season, whatever season is active by then.
LEMMA RoundsStayInTheirSeason ==
  ASSUME LbInv, [Next]_vars, NEW q \in Rounds
  PROVE  StaysInItsSeason(q)
<1> SUFFICES ASSUME outcome[q].season # NoSeason PROVE outcome'[q].season = outcome[q].season
  BY DEF StaysInItsSeason
<1>1. ASSUME NEW r \in Rounds, NEW ranks \in Finishes, ApplyRound(r, ranks)
      PROVE  outcome'[q].season = outcome[q].season
  BY <1>1 DEF ApplyRound, ResolveSeasonForRound, LbInv, LbTypeOK
<1> QED BY <1>1 DEF Next, ProcessRound, vars, pointVars, WindowCloses, StartSeason,
                    EndSeason, AdjustPoints, AssignTags

\* Once the recalculation window of a round has closed, nothing changes its
\* outcome or its points, whatever happens to other rounds.
LEMMA OldRoundsAreFinal ==
  ASSUME LbInv, [Next]_vars, NEW q \in Rounds
  PROVE  IsFinal(q)
<1> SUFFICES ASSUME Processed(q), q \notin fresh
             PROVE  outcome'[q] = outcome[q] /\ RowsOf(q)' = RowsOf(q)
  BY DEF IsFinal
<1>1. ASSUME NEW r \in Rounds, NEW ranks \in Finishes, ApplyRound(r, ranks)
      PROVE  outcome'[q] = outcome[q] /\ RowsOf(q)' = RowsOf(q)
  <2>1. q # r
    BY <1>1 DEF ApplyRound, MayProcess
  <2>2. RowsOf(q)' = RowsOf(q)
    BY <1>1, <2>1, ApplyRoundStep
  <2> QED BY <1>1, <2>1, <2>2 DEF ApplyRound, LbInv, LbTypeOK
<1> QED BY <1>1 DEF Next, ProcessRound, vars, pointVars, WindowCloses, StartSeason,
                    EndSeason, AdjustPoints, AssignTags, RowsOf

\* What a round came to settles, with its season first and with its window for good.
THEOREM OutcomesAlwaysSettle == Spec => OutcomesSettle
<1>1. LbInv /\ [Next]_vars => RoundsSettle
  BY RoundsStayInTheirSeason, OldRoundsAreFinal DEF RoundsSettle
<1> QED BY LbInitInv, LbNextInv, <1>1, PTL DEF Spec, OutcomesSettle

-----------------------------------------------------------------------------
\* Points over sets of history rows.

Earned(H) == MapThenSumSet(LAMBDA h : h.points, H)
PointsOf(H) == [h \in H |-> h.points]

\* What a set of rows earned is the sum of their points.
LEMMA EarnedIsSum ==
  ASSUME NEW H, IsFiniteSet(H)
  PROVE  Earned(H) = SumOf(PointsOf(H), H)
<1> DEFINE IsFold(f) ==
             f = [s \in SUBSET H |-> IF s = {} THEN 0 ELSE First(s).points + f[s \ {First(s)}]]
<1>1. Earned(H) = (CHOOSE f : IsFold(f))[H]
  BY DEF Earned, MapThenSumSet, MapThenFoldSet, First
<1>2. ASSUME NEW f PROVE IsFold(f) <=> IsSum(f, PointsOf(H), H)
  <2>1. \A s \in SUBSET H : s # {} => PointsOf(H)[First(s)] = First(s).points
    BY FirstIsIn DEF PointsOf
  <2> QED BY <2>1 DEF IsSum
<1> HIDE DEF IsFold
<1>3. \E f : IsFold(f)
  BY <1>2, SumExists
<1> DEFINE f == CHOOSE f : IsFold(f)
<1>4. IsSum(f, PointsOf(H), H)
  BY <1>2, <1>3
<1> HIDE DEF f
<1>5. f[H] = SumOf(PointsOf(H), H)
  BY <1>4, SumIs
<1> QED BY <1>1, <1>5 DEF f

\* No rows earn nothing.
LEMMA NothingEarned == Earned({}) = 0
<1>1. IsFiniteSet({})
  BY FS_EmptySet
<1>2. Earned({}) = SumOf(PointsOf({}), {})
  BY <1>1, EarnedIsSum
<1> QED BY <1>1, <1>2, SumStep

\* Points that are natural numbers add up to one.
LEMMA EarnedIsNat ==
  ASSUME NEW H, IsFiniteSet(H), \A h \in H : h.points \in Nat
  PROVE  Earned(H) \in Nat
<1>1. \A h \in H : PointsOf(H)[h] \in Nat
  BY DEF PointsOf
<1> QED BY <1>1, SumIsNat, EarnedIsSum

\* A row more is its points more.
LEMMA EarnedMore ==
  ASSUME NEW H, IsFiniteSet(H), \A h \in H : h.points \in Nat, NEW x \in H
  PROVE  Earned(H) = Earned(H \ {x}) + x.points
<1> DEFINE less == H \ {x}
<1>1. IsFiniteSet(less)
  BY FS_Subset
<1>2. \A h \in H : PointsOf(H)[h] \in Nat /\ PointsOf(H)[h] = h.points
  BY DEF PointsOf
<1>3. SumOf(PointsOf(H), H) = SumOf(PointsOf(H), less) + x.points
  BY <1>2, SumMore
<1>4. \A h \in less : PointsOf(H)[h] = PointsOf(less)[h]
  BY DEF PointsOf
<1> HIDE DEF less
<1>5. SumOf(PointsOf(H), less) = SumOf(PointsOf(less), less)
  BY <1>1, <1>4, SumsAreAlike
<1>6. Earned(H) = SumOf(PointsOf(H), H) /\ Earned(less) = SumOf(PointsOf(less), less)
  BY <1>1, EarnedIsSum
<1> QED BY <1>3, <1>5, <1>6 DEF less

-----------------------------------------------------------------------------
\* The amounts added by hand, in the order they came in, and their running totals.
Adjusted(a) == FoldLeft(+, 0, a)
IsRun(f, a, n) ==
  f = [s \in SUBSET (1 .. n) |-> IF s = {} THEN 0 ELSE f[s \ {Max(s)}] + a[Max(s)]]
Run(a, n) == CHOOSE f : IsRun(f, a, n)

\* The fold over the amounts is a running total.
LEMMA AdjustedIsRun ==
  ASSUME NEW a, NEW n \in Nat, DOMAIN a = 1 .. n
  PROVE  Adjusted(a) = Run(a, n)[1 .. n]
  BY DEF Adjusted, FoldLeft, MapThenFoldSet, IsRun, Run

\* Every list of amounts has running totals.
LEMMA RunExists ==
  ASSUME NEW a, NEW n \in Nat
  PROVE  IsRun(Run(a, n), a, n)
<1> DEFINE S == {k \in Nat : \E f : IsRun(f, a, k)}
<1>1. 0 \in S
  <2> DEFINE v == [s \in SUBSET (1 .. 0) |-> 0]
  <2>1. \A s \in SUBSET (1 .. 0) : s = {}
    OBVIOUS
  <2>2. IsRun(v, a, 0)
    BY <2>1 DEF IsRun
  <2> HIDE DEF v
  <2> QED BY <2>2
<1>2. ASSUME NEW k \in Nat, k \in S PROVE k + 1 \in S
  <2>1. PICK w : IsRun(w, a, k)
    BY <1>2
  <2> DEFINE v == [s \in SUBSET (1 .. k + 1) |->
                     IF s = {} THEN 0 ELSE w[s \ {Max(s)}] + a[Max(s)]]
  <2>a. k + 1 \in Nat /\ SUBSET (1 .. k) \subseteq SUBSET (1 .. k + 1)
    OBVIOUS
  <2>2. \A s \in SUBSET (1 .. k) : v[s] = w[s]
    BY <2>a, <2>1 DEF IsRun
  <2>3. ASSUME NEW s \in SUBSET (1 .. k + 1), s # {}
        PROVE  v[s \ {Max(s)}] = w[s \ {Max(s)}]
    <3>1. Max(s) \in s /\ \A i \in s : i <= Max(s)
      BY <2>a, <2>3, MaxUpTo
    <3>2. s \ {Max(s)} \in SUBSET (1 .. k)
      <4>1. \A i \in s : i \in Nat /\ 1 <= i /\ i <= k + 1
        OBVIOUS
      <4>2. ASSUME NEW i \in s, i # Max(s) PROVE i \in 1 .. k
        <5>1. /\ Max(s) \in Nat /\ Max(s) <= k + 1
              /\ i \in Nat /\ 1 <= i /\ i <= Max(s)
          BY <3>1, <4>1
        <5> QED BY <4>2, <5>1
      <4> QED BY <4>2
    <3> HIDE DEF v
    <3> QED BY <2>2, <3>2
  <2>4. IsRun(v, a, k + 1)
    BY <2>3 DEF IsRun
  <2> HIDE DEF v
  <2> QED BY <2>a, <2>4
<1> HIDE DEF S
<1>3. n \in S
  BY <1>1, <1>2, SetInduction
<1> QED BY <1>3 DEF S, Run

\* A running total is the one before it plus the next amount.
LEMMA RunStep ==
  ASSUME NEW a, NEW n \in Nat, NEW f, IsRun(f, a, n), NEW k \in Nat, k + 1 <= n
  PROVE  f[1 .. k + 1] = f[1 .. k] + a[k + 1]
<1>1. 1 .. k + 1 \in SUBSET (1 .. n)
  <2>1. \A i \in 1 .. k + 1 : i \in 1 .. n
    OBVIOUS
  <2> QED BY <2>1
<1> DEFINE s == 1 .. k + 1
<1>2. s \in SUBSET (1 .. n) /\ s # {} /\ Max(s) = k + 1 /\ s \ {k + 1} = 1 .. k
  BY <1>1, LastUpTo
<1> HIDE DEF s
<1>3. f[s] = f[s \ {Max(s)}] + a[Max(s)]
  BY <1>2 DEF IsRun
<1> QED BY <1>2, <1>3 DEF s

\* A running total starts at zero.
LEMMA RunEmpty ==
  ASSUME NEW a, NEW n \in Nat, NEW f, IsRun(f, a, n)
  PROVE  f[1 .. 0] = 0
<1>1. 1 .. 0 = {} /\ {} \in SUBSET (1 .. n)
  OBVIOUS
<1> QED BY <1>1 DEF IsRun

\* No amounts add up to nothing.
LEMMA NothingAdjusted == Adjusted(<<>>) = 0
<1>1. DOMAIN <<>> = 1 .. 0 /\ 0 \in Nat
  OBVIOUS
<1> QED BY <1>1, AdjustedIsRun, RunExists, RunEmpty

\* Lists that begin alike have the same running totals as far as that goes.
LEMMA RunsAgree ==
  ASSUME NEW n \in Nat, NEW a \in [1 .. n -> Int], NEW m \in Nat, m >= n, NEW b,
         \A i \in 1 .. n : b[i] = a[i],
         NEW f, IsRun(f, a, n), NEW g, IsRun(g, b, m)
  PROVE  f[1 .. n] \in Int /\ g[1 .. n] = f[1 .. n]
<1> DEFINE S == {k \in Nat : k <= n => f[1 .. k] \in Int /\ g[1 .. k] = f[1 .. k]}
<1>1. 0 \in S
  BY RunEmpty
<1>2. ASSUME NEW k \in Nat, k \in S PROVE k + 1 \in S
  <2> SUFFICES ASSUME k + 1 <= n
               PROVE  f[1 .. k + 1] \in Int /\ g[1 .. k + 1] = f[1 .. k + 1]
    OBVIOUS
  <2>1. f[1 .. k] \in Int /\ g[1 .. k] = f[1 .. k]
    BY <1>2
  <2>2. a[k + 1] \in Int /\ b[k + 1] = a[k + 1] /\ k + 1 <= m
    OBVIOUS
  <2>3. f[1 .. k + 1] = f[1 .. k] + a[k + 1]
    BY RunStep
  <2>4. g[1 .. k + 1] = g[1 .. k] + b[k + 1]
    BY <2>2, RunStep
  <2> QED BY <2>1, <2>2, <2>3, <2>4
<1> HIDE DEF S
<1>3. n \in S
  BY <1>1, <1>2, SetInduction
<1> QED BY <1>3 DEF S

\* One amount more adds that amount.
LEMMA AdjustedMore ==
  ASSUME NEW a \in Seq(Int), NEW d \in Int
  PROVE  Adjusted(a) \in Int /\ Adjusted(Append(a, d)) = Adjusted(a) + d
<1> DEFINE n == Len(a)
           b == Append(a, d)
<1>1. n \in Nat /\ a \in [1 .. n -> Int] /\ DOMAIN a = 1 .. n
  OBVIOUS
<1>2. /\ n + 1 \in Nat /\ DOMAIN b = 1 .. n + 1 /\ b[n + 1] = d
      /\ \A i \in 1 .. n : b[i] = a[i]
  OBVIOUS
<1> HIDE DEF n, b
<1>3. IsRun(Run(a, n), a, n) /\ IsRun(Run(b, n + 1), b, n + 1)
  BY <1>1, <1>2, RunExists
<1>4. Run(a, n)[1 .. n] \in Int /\ Run(b, n + 1)[1 .. n] = Run(a, n)[1 .. n]
  <2>1. n + 1 >= n
    BY <1>1
  <2> QED BY <1>1, <1>2, <1>3, <2>1, RunsAgree
<1>5. Run(b, n + 1)[1 .. n + 1] = Run(b, n + 1)[1 .. n] + b[n + 1]
  BY <1>1, <1>2, <1>3, RunStep
<1>6. Adjusted(a) = Run(a, n)[1 .. n] /\ Adjusted(b) = Run(b, n + 1)[1 .. n + 1]
  BY <1>1, <1>2, AdjustedIsRun
<1> QED BY <1>2, <1>4, <1>5, <1>6 DEF b

-----------------------------------------------------------------------------
\* A total is explained by the rows of history H and the amounts a.
ExplainedBy(total, H, a) ==
  /\ total >= Earned(H) + Adjusted(a)
  /\ a = <<>> => total = Earned(H)

EveryTotalExplained ==
  \A s \in SeasonIds, m \in Members :
     ExplainedBy(standing[s][m].total, SeasonRows(s, m), adjustments[s][m])

\* This is what TotalsExplainedByHistory says, in terms of the two sums.
LEMMA TotalsExplained == EveryTotalExplained => TotalsExplainedByHistory
BY DEF TotalsExplainedByHistory, EveryTotalExplained, ExplainedBy, Earned, Adjusted

\* The sums of an invariant state are numbers.
LEMMA SumsAreNumbers ==
  ASSUME LbInv, NEW s \in SeasonIds, NEW m \in Members
  PROVE  /\ standing[s][m].total \in Nat
         /\ adjustments[s][m] \in Seq(Int)
         /\ Adjusted(adjustments[s][m]) \in Int
         /\ \A H \in SUBSET pointHistory :
               IsFiniteSet(H) /\ (\A h \in H : h.points \in Nat) /\ Earned(H) \in Nat
<1>1. standing[s][m] \in Standings /\ adjustments[s][m] \in Seq(Deltas)
  BY DEF LbInv, LbTypeOK
<1>2. adjustments[s][m] \in Seq(Int)
  <2>1. PICK a : a = adjustments[s][m]
    OBVIOUS
  <2>2. Len(a) \in Nat /\ DOMAIN a = 1 .. Len(a) /\ a \in [1 .. Len(a) -> Deltas]
    BY <1>1, <2>1
  <2>3. a \in [1 .. Len(a) -> Int]
    BY <2>2, DeltasAssumption
  <2> QED BY <2>1, <2>2, <2>3
<1>3. Adjusted(adjustments[s][m]) \in Int
  BY <1>2, AdjustedMore, 0 \in Int
<1>4. ASSUME NEW H \in SUBSET pointHistory
      PROVE  IsFiniteSet(H) /\ (\A h \in H : h.points \in Nat) /\ Earned(H) \in Nat
  <2>1. IsFiniteSet(H)
    BY FS_Subset DEF LbInv
  <2>2. \A h \in H : h.points \in Nat
    BY DEF LbInv, LbTypeOK
  <2> QED BY <2>1, <2>2, EarnedIsNat
<1> QED BY <1>1, <1>2, <1>3, <1>4 DEF Standings

\* A rollback takes as much from a total as from the history behind it.
LEMMA RolledBackTotals ==
  ASSUME LbInv, EveryTotalExplained, NEW r \in Rounds,
         NEW s \in SeasonIds, NEW m \in Members
  PROVE  ExplainedBy(RolledBack(r)[s][m].total, RowsIn(HistoryWithout(r), s, m),
                     adjustments[s][m])
<1> DEFINE St   == standing[s][m]
           all  == SeasonRows(s, m)
           left == RowsIn(HistoryWithout(r), s, m)
<1>1. /\ St.total \in Nat /\ Adjusted(adjustments[s][m]) \in Int
      /\ IsFiniteSet(all) /\ Earned(all) \in Nat
      /\ \A h \in all : h.points \in Nat
  <2>1. all \in SUBSET pointHistory
    BY DEF SeasonRows
  <2> QED BY <2>1, SumsAreNumbers
<1>2. ExplainedBy(St.total, all, adjustments[s][m])
  BY DEF EveryTotalExplained
<1>3. CASE \E h \in RowsOf(r) : h.season = s /\ h.member = m
  <2> DEFINE h == CHOOSE h \in RowsOf(r) : h.season = s /\ h.member = m
  <2>1. h \in RowsOf(r) /\ h.season = s /\ h.member = m
    BY <1>3
  <2>2. RolledBack(r)[s][m].total = NonNegative(St.total - h.points)
    BY <1>3 DEF RolledBack
  <2> HIDE DEF h
  <2>3. left = all \ {h}
    <3>1. \A g \in RowsOf(r) : g.member = m => g = h
      BY <2>1 DEF LbInv, HistoryMatchesOutcome
    <3> QED BY <2>1, <3>1 DEF RowsIn, HistoryWithout, SeasonRows, RowsOf
  <2>4. h \in all
    BY <2>1 DEF SeasonRows, RowsOf
  <2>5. h.points \in Nat
    BY <1>1, <2>4
  <2>6. Earned(all) = Earned(left) + h.points
    BY <1>1, <2>3, <2>4, EarnedMore
  <2>7. Earned(left) \in Nat
    <3>1. left \in SUBSET pointHistory
      BY DEF RowsIn, HistoryWithout
    <3> QED BY <3>1, SumsAreNumbers
  <2> HIDE DEF all, left, St
  <2> QED BY <1>1, <1>2, <2>2, <2>5, <2>6, <2>7 DEF ExplainedBy, NonNegative, left
<1>4. CASE ~ \E h \in RowsOf(r) : h.season = s /\ h.member = m
  <2>1. RolledBack(r)[s][m] = St
    BY <1>4 DEF RolledBack
  <2>2. left = all
    BY <1>4 DEF RowsIn, HistoryWithout, SeasonRows, RowsOf
  <2> QED BY <1>2, <2>1, <2>2
<1> QED BY <1>3, <1>4

\* A total and its history grow by the same award.
LEMMA OneRowMore ==
  ASSUME NEW H, IsFiniteSet(H), \A h \in H : h.points \in Nat,
         NEW x, x \notin H, x.points \in Nat,
         NEW total \in Nat, NEW a \in Seq(Int), ExplainedBy(total, H, a)
  PROVE  ExplainedBy(total + x.points, H \cup {x}, a)
<1> DEFINE more == H \cup {x}
<1>1. IsFiniteSet(more) /\ x \in more /\ more \ {x} = H /\ \A h \in more : h.points \in Nat
  BY FS_AddElement
<1> HIDE DEF more
<1>2. Earned(more) = Earned(H) + x.points
  BY <1>1, EarnedMore
<1>3. Earned(H) \in Nat
  BY EarnedIsNat
<1>4. Adjusted(a) \in Int
  BY AdjustedMore, 0 \in Int
<1> QED BY <1>2, <1>3, <1>4 DEF ExplainedBy, more

\* An award adds the same to the total and to the history of each participant.
LEMMA AwardedTotals ==
  ASSUME LbInv, EveryTotalExplained, NEW r \in Rounds, NEW ranks \in Finishes,
         NEW s \in SeasonIds, AwardPoints(r, ranks, RolledBack(r), tag', s),
         adjustments' = adjustments
  PROVE  EveryTotalExplained'
<1> DEFINE before  == RolledBack(r)
           players == PlayersOf(ranks, before, tag', s)
           points  == CalculateRoundPoints(players, tag')
           row(p)  == [round |-> r, season |-> s, member |-> p, points |-> points[p]]
           new     == {row(p) : p \in DOMAIN ranks}
<1>1. DOMAIN ranks \subseteq Members /\ IsFiniteSet(DOMAIN ranks)
  BY FinishFacts
<1>2. DOMAIN players = DOMAIN ranks
  BY DEF PlayersOf
<1>3. points \in [DOMAIN ranks -> Nat]
  <2> HIDE DEF players
  <2> QED BY <1>1, <1>2, PointsAreNat
<1>4. /\ pointHistory' = HistoryWithout(r) \cup new
      /\ standing' = [before EXCEPT ![s] = [m \in Members |->
           IF m \in DOMAIN ranks
           THEN [total  |-> before[s][m].total + points[m],
                 rounds |-> before[s][m].rounds + 1,
                 best   |-> UpdateBestTag(before[s][m].best, tag'[m])]
           ELSE before[s][m]]]
  BY DEF AwardPoints
<1> HIDE DEF points
<1>5. before \in [SeasonIds -> [Members -> Standings]]
  BY RolledBackFacts
<1>6. \A z \in SeasonIds, m \in Members :
         ExplainedBy(before[z][m].total, RowsIn(HistoryWithout(r), z, m), adjustments[z][m])
  BY RolledBackTotals
<1> HIDE DEF before
<1> SUFFICES ASSUME NEW z \in SeasonIds, NEW m \in Members
             PROVE  ExplainedBy(standing[z][m].total, SeasonRows(z, m), adjustments[z][m])'
  BY DEF EveryTotalExplained
<1> DEFINE left == RowsIn(HistoryWithout(r), z, m)
<1>7. SeasonRows(z, m)' = left \cup RowsIn(new, z, m)
  BY <1>4 DEF SeasonRows, RowsIn
<1>8. IsFiniteSet(left) /\ \A h \in left : h.points \in Nat
  <2>1. left \in SUBSET pointHistory
    BY DEF RowsIn, HistoryWithout
  <2> QED BY <2>1, SumsAreNumbers
<1>9. before[z][m].total \in Nat
  BY <1>5 DEF Standings
<1>10. adjustments[z][m] \in Seq(Int)
  BY SumsAreNumbers
<1>11. CASE z = s /\ m \in DOMAIN ranks
  <2>1. RowsIn(new, z, m) = {row(m)}
    BY <1>11 DEF RowsIn
  <2>2. row(m) \notin left /\ row(m).points = points[m] /\ points[m] \in Nat
    BY <1>3, <1>11 DEF RowsIn, HistoryWithout, RowsOf
  <2>3. standing'[z][m].total = before[z][m].total + points[m]
    BY <1>4, <1>5, <1>11
  <2>4. ExplainedBy(before[z][m].total, left, adjustments[z][m])
    BY <1>6
  <2>5. PICK x : x = row(m)
    OBVIOUS
  <2> HIDE DEF left, row, new
  <2>6. ExplainedBy(before[z][m].total + x.points, left \cup {x}, adjustments[z][m])
    BY <1>8, <1>9, <1>10, <2>2, <2>4, <2>5, OneRowMore
  <2>7. SeasonRows(z, m)' = left \cup {x}
    BY <1>7, <2>1, <2>5
  <2>8. standing'[z][m].total = before[z][m].total + x.points
    BY <2>2, <2>3, <2>5
  <2> QED BY <2>6, <2>7, <2>8 DEF ExplainedBy
<1>12. CASE ~(z = s /\ m \in DOMAIN ranks)
  <2>1. RowsIn(new, z, m) = {}
    BY <1>12 DEF RowsIn
  <2>2. standing'[z][m] = before[z][m]
    BY <1>4, <1>5, <1>12
  <2> HIDE DEF new
  <2>3. SeasonRows(z, m)' = left
    BY <1>7, <2>1
  <2>4. ExplainedBy(before[z][m].total, left, adjustments[z][m])
    BY <1>6
  <2> HIDE DEF left
  <2> QED BY <2>2, <2>3, <2>4 DEF ExplainedBy
<1> QED BY <1>11, <1>12

\* The floor keeps a total up, never down.
LEMMA AdjustedTotals ==
  ASSUME LbInv, EveryTotalExplained, NEW m \in Members, NEW delta \in Deltas,
         AdjustPoints(m, delta)
  PROVE  EveryTotalExplained'
<1> DEFINE s == activeSeason
<1>1. /\ adjustments' = [adjustments EXCEPT ![s][m] = Append(@, delta)]
      /\ standing' = [standing EXCEPT ![s][m].total = NonNegative(@ + delta)]
      /\ pointHistory' = pointHistory /\ s # NoSeason
  BY DEF AdjustPoints
<1>2. s \in SeasonIds
  BY <1>1 DEF LbInv, LbTypeOK
<1>3. /\ standing \in [SeasonIds -> [Members -> Standings]]
      /\ adjustments \in [SeasonIds -> [Members -> Seq(Deltas)]]
  BY DEF LbInv, LbTypeOK
<1> HIDE DEF s
<1> SUFFICES ASSUME NEW z \in SeasonIds, NEW x \in Members
             PROVE  ExplainedBy(standing[z][x].total, SeasonRows(z, x), adjustments[z][x])'
  BY DEF EveryTotalExplained
<1>4. SeasonRows(z, x)' = SeasonRows(z, x)
  BY <1>1 DEF SeasonRows
<1>5. ExplainedBy(standing[z][x].total, SeasonRows(z, x), adjustments[z][x])
  BY DEF EveryTotalExplained
<1>6. CASE z = s /\ x = m
  <2>1. /\ standing'[z][x].total = NonNegative(standing[z][x].total + delta)
        /\ adjustments'[z][x] = Append(adjustments[z][x], delta)
    BY <1>1, <1>2, <1>3, <1>6 DEF Standings
  <2>2. PICK a : a = adjustments[z][x]
    OBVIOUS
  <2>3. a \in Seq(Int) /\ delta \in Int
    BY <2>2, SumsAreNumbers, DeltasAssumption
  <2>4. Adjusted(a) \in Int /\ Adjusted(Append(a, delta)) = Adjusted(a) + delta
    BY <2>3, AdjustedMore
  <2>5. PICK b : b = Append(a, delta)
    OBVIOUS
  <2>6. b # <<>> /\ adjustments'[z][x] = b /\ Adjusted(b) = Adjusted(a) + delta
    <3>1. b # <<>>
      BY <2>3, <2>5
    <3> QED BY <2>1, <2>2, <2>4, <2>5, <3>1
  <2>7. PICK H : H = SeasonRows(z, x)
    OBVIOUS
  <2>8. Earned(H) \in Nat /\ standing[z][x].total \in Nat
    <3>1. H \in SUBSET pointHistory
      BY <2>7 DEF SeasonRows
    <3> QED BY <3>1, SumsAreNumbers
  <2>9. standing[z][x].total >= Earned(H) + Adjusted(a)
    BY <1>5, <2>2, <2>7 DEF ExplainedBy
  <2>10. standing'[z][x].total >= Earned(H) + Adjusted(b)
    BY <2>1, <2>3, <2>4, <2>6, <2>8, <2>9 DEF NonNegative
  <2> QED BY <1>4, <2>6, <2>7, <2>10 DEF ExplainedBy
<1>7. CASE ~(z = s /\ x = m)
  <2>1. standing'[z][x].total = standing[z][x].total /\ adjustments'[z][x] = adjustments[z][x]
    BY <1>1, <1>2, <1>3, <1>7 DEF Standings
  <2> QED BY <1>4, <1>5, <2>1 DEF ExplainedBy
<1> QED BY <1>6, <1>7

\* Totals, history and adjustments belong together through every command.
LEMMA TotalsNextInv ==
  LbInv /\ EveryTotalExplained /\ [Next]_vars => EveryTotalExplained'
<1> SUFFICES ASSUME LbInv, EveryTotalExplained, [Next]_vars
             PROVE  EveryTotalExplained'
  OBVIOUS
<1>1. ASSUME UNCHANGED <<pointHistory, standing, adjustments>>
      PROVE  EveryTotalExplained'
  BY <1>1 DEF EveryTotalExplained, SeasonRows
<1>2. ASSUME NEW r \in Rounds, NEW ranks \in Finishes, ProcessRound(r, ranks)
      PROVE  EveryTotalExplained'
  <2>1. CASE SameData(r, ranks)
    BY <1>1, <1>2, <2>1 DEF ProcessRound, vars, pointVars
  <2>2. CASE ~SameData(r, ranks)
    <3> DEFINE s == ResolveSeasonForRound(r)
    <3>1. /\ IF s # NoSeason THEN AwardPoints(r, ranks, RolledBack(r), tag', s)
                             ELSE SkipPoints(r, RolledBack(r))
          /\ adjustments' = adjustments
      BY <1>2, <2>2 DEF ProcessRound, ApplyRound
    <3>2. s \in SeasonIds \cup {NoSeason}
      BY DEF LbInv, LbTypeOK, ResolveSeasonForRound
    <3> HIDE DEF s
    <3>3. CASE s # NoSeason
      BY <3>1, <3>2, <3>3, AwardedTotals
    <3>4. CASE s = NoSeason
      <4>1. pointHistory' = HistoryWithout(r) /\ standing' = RolledBack(r)
        BY <3>1, <3>4 DEF SkipPoints
      <4> SUFFICES ASSUME NEW z \in SeasonIds, NEW m \in Members
                   PROVE  ExplainedBy(standing[z][m].total, SeasonRows(z, m),
                                      adjustments[z][m])'
        BY DEF EveryTotalExplained
      <4>2. SeasonRows(z, m)' = RowsIn(HistoryWithout(r), z, m)
        BY <4>1 DEF SeasonRows, RowsIn
      <4>3. ExplainedBy(RolledBack(r)[z][m].total, RowsIn(HistoryWithout(r), z, m),
                        adjustments[z][m])
        BY RolledBackTotals
      <4> QED BY <3>1, <4>1, <4>2, <4>3 DEF ExplainedBy
    <3> QED BY <3>3, <3>4
  <2> QED BY <2>1, <2>2
<1>3. ASSUME NEW m \in Members, NEW delta \in Deltas, AdjustPoints(m, delta)
      PROVE  EveryTotalExplained'
  BY <1>3, AdjustedTotals
<1>4. CASE UNCHANGED vars
  BY <1>1, <1>4 DEF vars, pointVars
<1>5. ASSUME NEW r \in Rounds, WindowCloses(r) PROVE EveryTotalExplained'
  BY <1>1, <1>5 DEF WindowCloses
<1>6. ASSUME NEW s \in SeasonIds, StartSeason(s) PROVE EveryTotalExplained'
  BY <1>1, <1>6 DEF StartSeason
<1>7. CASE EndSeason
  BY <1>1, <1>7 DEF EndSeason
<1>8. CASE AssignTags
  BY <1>1, <1>8 DEF AssignTags, pointVars
<1> QED BY <1>2, <1>3, <1>4, <1>5, <1>6, <1>7, <1>8 DEF Next

\* A member's total is what its rounds of the season earned it, however often and
\* in whatever order rounds were corrected, redelivered or adjusted by hand.
THEOREM TotalsAlwaysExplained == Spec => []TotalsExplainedByHistory
<1>1. Init => EveryTotalExplained
  <2> SUFFICES ASSUME Init, NEW s \in SeasonIds, NEW m \in Members
               PROVE  ExplainedBy(standing[s][m].total, SeasonRows(s, m), adjustments[s][m])
    BY DEF EveryTotalExplained
  <2>1. SeasonRows(s, m) = {}
    BY DEF Init, SeasonRows
  <2>2. Earned({}) = 0
    BY NothingEarned
  <2>3. standing[s][m].total = 0 /\ adjustments[s][m] = <<>>
    BY DEF Init, NoStanding
  <2> HIDE DEF SeasonRows
  <2> QED BY <2>1, <2>2, <2>3, NothingAdjusted DEF ExplainedBy
<1> QED BY LbInitInv, LbNextInv, TotalsNextInv, TotalsExplained, <1>1, PTL DEF Spec

-----------------------------------------------------------------------------
\* Who ranks lower by tag beats fewer, and with the same record is paid for fewer.
LEMMA FewerBeatenPayLess ==
  ASSUME NEW players, IsFiniteSet(DOMAIN players), NEW finalTag,
         NEW p \in DOMAIN players, NEW q \in DOMAIN players, players[p] = players[q],
         Outranks(finalTag, p, q), ~Outranks(finalTag, q, q),
         \A x \in DOMAIN players : Outranks(finalTag, q, x) => Outranks(finalTag, p, x)
  PROVE  CalculateRoundPoints(players, finalTag)[p] > CalculateRoundPoints(players, finalTag)[q]
<1> DEFINE beaten(z) == {x \in DOMAIN players : Outranks(finalTag, z, x)}
           paid(z)   == IF EarnsBonuses(players[z]) THEN beaten(z) ELSE {}
           upsets(z) == {x \in paid(z) : StandardUpset(players[z], players[x])}
           giants(z) == {x \in paid(z) : GiantSlain(players[z], players[x])}
<1>1. \A z \in DOMAIN players :
         CalculateRoundPoints(players, finalTag)[z] =
           BaseWin * Cardinality(beaten(z)) + BonusStandard * Cardinality(upsets(z))
             + BonusGiantSlayer * Cardinality(giants(z))
  BY DEF CalculateRoundPoints
<1>2. \A z \in {p, q} : beaten(z) \in SUBSET DOMAIN players
                        /\ upsets(z) \in SUBSET DOMAIN players
                        /\ giants(z) \in SUBSET DOMAIN players
  OBVIOUS
<1>3. beaten(q) \subseteq beaten(p) /\ q \in beaten(p) /\ q \notin beaten(q)
  OBVIOUS
<1>4. upsets(q) \subseteq upsets(p) /\ giants(q) \subseteq giants(p)
  BY <1>3
<1> HIDE DEF beaten, upsets, giants
<1>5. \A z \in {p, q} : IsFiniteSet(beaten(z)) /\ IsFiniteSet(upsets(z))
                        /\ IsFiniteSet(giants(z)) /\ Cardinality(beaten(z)) \in Nat
                        /\ Cardinality(upsets(z)) \in Nat /\ Cardinality(giants(z)) \in Nat
  BY <1>2, FS_Subset, FS_CardinalityType
<1>6. Cardinality(upsets(q)) <= Cardinality(upsets(p))
      /\ Cardinality(giants(q)) <= Cardinality(giants(p))
  BY <1>4, <1>5, FS_Subset
<1>7. Cardinality(beaten(q)) < Cardinality(beaten(p))
  <2>1. Cardinality(beaten(q)) <= Cardinality(beaten(p))
        /\ (Cardinality(beaten(q)) = Cardinality(beaten(p)) => beaten(q) = beaten(p))
    BY <1>3, <1>5, FS_Subset
  <2> QED BY <1>3, <1>5, <2>1
<1> QED BY <1>1, <1>5, <1>6, <1>7 DEF BaseWin, BonusStandard, BonusGiantSlayer

\* Whatever tags the players of a round held and however the round's tags are
\* traded, a better finisher with a tag earns more than a worse one with a tag and
\* the same record: the trade of tags and the points never contradict each other.
THEOREM BetterFinishAlwaysPays ==
  ASSUME NEW held, \A m \in DOMAIN held : m \in Nat /\ held[m] \in Nat,
         NEW ranks, IsFiniteSet(DOMAIN ranks), DOMAIN ranks \subseteq DOMAIN held,
         NEW players, DOMAIN players = DOMAIN ranks,
         NEW f \in ClosedPoolAllocations(held, ranks)
  PROVE  BetterFinishPaysMore(held, ranks, players, FinalTags(held, f))
<1> DEFINE final == FinalTags(held, f)
<1> SUFFICES ASSUME NEW p \in Eligible(held, ranks), NEW q \in Eligible(held, ranks),
                    ranks[p] < ranks[q], players[p] = players[q]
             PROVE  CalculateRoundPoints(players, final)[p]
                      > CalculateRoundPoints(players, final)[q]
  BY DEF BetterFinishPaysMore
<1>1. p \in DOMAIN players /\ q \in DOMAIN players /\ p \in DOMAIN held /\ q \in DOMAIN held
  BY DEF Eligible
<1>2. f \in [Eligible(held, ranks) -> TagPool(held, ranks)] /\ f[p] < f[q]
  BY DEF ClosedPoolAllocations, FinishesBefore
<1>3. final[p] = f[p] /\ final[q] = f[q]
  BY <1>1, <1>2 DEF FinalTags
<1>4. \A t \in TagPool(held, ranks) : t \in Nat /\ t # NoTag
  BY DEF TagPool, Eligible, NoTag
<1>5. final[p] \in Nat /\ final[q] \in Nat /\ final[p] # NoTag /\ final[q] # NoTag
  BY <1>2, <1>3, <1>4
<1>6. ASSUME NEW x \in DOMAIN players PROVE final[x] \in Nat
  BY <1>2, <1>4, <1>6 DEF FinalTags
<1> HIDE DEF final
<1>7. final[p] < final[q]
  BY <1>2, <1>3
<1>8. Outranks(final, p, q)
  BY <1>5, <1>7 DEF Outranks
<1>9. ASSUME NEW x \in DOMAIN players, Outranks(final, q, x) PROVE Outranks(final, p, x)
  BY <1>5, <1>6, <1>7, <1>9 DEF Outranks
<1>10. ~Outranks(final, q, q)
  <2>1. q \in Nat
    BY <1>1
  <2> QED BY <1>5, <2>1 DEF Outranks
<1> QED BY <1>1, <1>8, <1>9, <1>10, FewerBeatenPayLess

-----------------------------------------------------------------------------
\* R orders S strictly: any two elements are in one order and not in the other.
Orders(R, S) ==
  /\ \A x \in S : <<x, x>> \notin R
  /\ \A x, y, z \in S : <<x, y>> \in R /\ <<y, z>> \in R => <<x, z>> \in R
  /\ \A x, y \in S : x # y => <<x, y>> \in R \/ <<y, x>> \in R

Before(R, S, x) == {y \in S : <<y, x>> \in R}
Place(R, S, x) == Cardinality(Before(R, S, x)) + 1

\* s lists the elements of S once each, in the order R.
Sorts(s, R, S) ==
  /\ s \in SetToSeqs(S)
  /\ \A i, j \in 1 .. Cardinality(S) : i < j => ~(<<s[j], s[i]>> \in R)

\* Places are numbers from 1 on, and later elements have higher ones.
LEMMA PlacesDiffer ==
  ASSUME NEW S, IsFiniteSet(S), NEW R, Orders(R, S)
  PROVE  /\ \A x \in S : Place(R, S, x) \in 1 .. Cardinality(S)
         /\ \A x, y \in S : <<x, y>> \in R => Place(R, S, x) < Place(R, S, y)
         /\ \A x, y \in S : Place(R, S, x) = Place(R, S, y) => x = y
<1>a. Cardinality(S) \in Nat
  BY FS_CardinalityType
<1>1. ASSUME NEW x \in S
      PROVE  /\ IsFiniteSet(Before(R, S, x)) /\ Cardinality(Before(R, S, x)) \in Nat
             /\ Cardinality(Before(R, S, x)) < Cardinality(S)
  <2>1. Before(R, S, x) \in SUBSET S /\ x \notin Before(R, S, x)
    BY DEF Before, Orders
  <2>2. /\ IsFiniteSet(Before(R, S, x)) /\ Cardinality(Before(R, S, x)) <= Cardinality(S)
        /\ (Cardinality(Before(R, S, x)) = Cardinality(S) => Before(R, S, x) = S)
    BY <2>1, FS_Subset
  <2>3. Cardinality(Before(R, S, x)) \in Nat
    BY <2>2, FS_CardinalityType
  <2> QED BY <1>a, <2>1, <2>2, <2>3
<1>2. \A x \in S : Place(R, S, x) \in 1 .. Cardinality(S)
  BY <1>a, <1>1 DEF Place
<1>3. ASSUME NEW x \in S, NEW y \in S, <<x, y>> \in R
      PROVE  Place(R, S, x) < Place(R, S, y)
  <2>1. Before(R, S, x) \in SUBSET Before(R, S, y) /\ x \in Before(R, S, y) /\ x \notin Before(R, S, x)
    BY <1>3 DEF Before, Orders
  <2>2. /\ Cardinality(Before(R, S, x)) <= Cardinality(Before(R, S, y))
        /\ (Cardinality(Before(R, S, x)) = Cardinality(Before(R, S, y)) => Before(R, S, x) = Before(R, S, y))
    BY <1>1, <2>1, FS_Subset
  <2> QED BY <1>1, <2>1, <2>2 DEF Place
<1>4. ASSUME NEW x \in S, NEW y \in S, Place(R, S, x) = Place(R, S, y) PROVE x = y
  <2>1. Place(R, S, x) \in Nat /\ Place(R, S, y) \in Nat
    BY <1>2
  <2>2. ~(Place(R, S, x) < Place(R, S, y)) /\ ~(Place(R, S, y) < Place(R, S, x))
    BY <1>4, <2>1
  <2>3. <<x, y>> \notin R /\ <<y, x>> \notin R
    BY <1>3, <2>2
  <2> QED BY <2>3 DEF Orders
<1> QED BY <1>2, <1>3, <1>4

\* Every place is taken.
LEMMA PlacesAreTaken ==
  ASSUME NEW S, IsFiniteSet(S), NEW R, Orders(R, S), NEW i \in 1 .. Cardinality(S)
  PROVE  \E x \in S : Place(R, S, x) = i
<1> DEFINE n == Cardinality(S)
           place == [x \in S |-> Place(R, S, x)]
<1>1. n \in Nat /\ IsFiniteSet(1 .. n) /\ Cardinality(1 .. n) = n
  BY FS_CardinalityType, FS_Interval
<1>2. place \in Injection(S, 1 .. n)
  BY PlacesDiffer DEF Injection, IsInjective
<1> HIDE DEF place
<1>3. place \in Surjection(S, 1 .. n)
  BY <1>1, <1>2, FS_Injection
<1> QED BY <1>3 DEF Surjection, place

\* A finite set can be sorted.
LEMMA SortExists ==
  ASSUME NEW S, IsFiniteSet(S), NEW R, Orders(R, S)
  PROVE  \E s : Sorts(s, R, S)
<1> DEFINE n == Cardinality(S)
           s == [i \in 1 .. n |-> CHOOSE x \in S : Place(R, S, x) = i]
<1>1. n \in Nat
  BY FS_CardinalityType
<1>2. \A i \in 1 .. n : s[i] \in S /\ Place(R, S, s[i]) = i
  BY PlacesAreTaken
<1>3. s \in [1 .. n -> S]
  BY <1>2
<1> HIDE DEF s
<1>4. ASSUME NEW i \in 1 .. n, NEW j \in 1 .. n, i < j PROVE ~(<<s[j], s[i]>> \in R)
  <2>1. i \in Nat /\ j \in Nat
    BY <1>1
  <2> QED BY <1>2, <1>4, <2>1, PlacesDiffer
<1>5. \A i, j \in 1 .. n : i # j => s[i] # s[j]
  BY <1>2
<1>6. Sorts(s, R, S)
  BY <1>3, <1>4, <1>5 DEF Sorts, SetToSeqs
<1> QED BY <1>6

\* A set of n elements given by a one-to-one list of them has n.
LEMMA ImageSize ==
  ASSUME NEW J, IsFiniteSet(J), NEW s, \A i, j \in J : i # j => s[i] # s[j]
  PROVE  IsFiniteSet({s[j] : j \in J}) /\ Cardinality({s[j] : j \in J}) = Cardinality(J)
<1> DEFINE T == {s[j] : j \in J}
           f == [j \in J |-> s[j]]
<1>1. f \in Bijection(J, T)
  BY DEF Bijection, Injection, Surjection, IsInjective
<1>2. ExistsBijection(J, T)
  BY <1>1 DEF ExistsBijection
<1> QED BY <1>2, FS_Bijection

\* However it was sorted, every element stands at its place.
LEMMA SortedPlaces ==
  ASSUME NEW S, IsFiniteSet(S), NEW R, Orders(R, S), NEW s, Sorts(s, R, S)
  PROVE  /\ s \in [1 .. Cardinality(S) -> S] /\ DOMAIN s = 1 .. Cardinality(S)
         /\ Len(s) = Cardinality(S)
         /\ \A i \in 1 .. Cardinality(S) : Place(R, S, s[i]) = i
         /\ \A x \in S : s[Place(R, S, x)] = x
         /\ \A x \in S : (CHOOSE i \in DOMAIN s : s[i] = x) = Place(R, S, x)
<1> DEFINE n == Cardinality(S)
<1>1. n \in Nat
  BY FS_CardinalityType
<1>2. s \in [1 .. n -> S] /\ \A i, j \in 1 .. n : i # j => s[i] # s[j]
  BY DEF Sorts, SetToSeqs
<1>3. ASSUME NEW i \in 1 .. n, NEW j \in 1 .. n, i < j PROVE <<s[i], s[j]>> \in R
  <2>1. s[i] # s[j]
    BY <1>1, <1>2, <1>3
  <2>2. ~(<<s[j], s[i]>> \in R)
    BY <1>3 DEF Sorts
  <2> QED BY <1>2, <2>1, <2>2 DEF Orders
<1>4. \A x \in S : \E i \in 1 .. n : s[i] = x
  <2>1. s \in Injection(1 .. n, S)
    BY <1>2 DEF Injection, IsInjective
  <2>2. Cardinality(1 .. n) = n /\ IsFiniteSet(1 .. n)
    BY <1>1, FS_Interval
  <2>3. s \in Surjection(1 .. n, S)
    BY <2>1, <2>2, FS_Injection
  <2> QED BY <2>3 DEF Surjection
<1>5. ASSUME NEW i \in 1 .. n PROVE Place(R, S, s[i]) = i
  <2>1. i - 1 \in Nat /\ \A j \in 1 .. (i - 1) : j \in 1 .. n /\ j < i
    BY <1>1
  <2>2. ASSUME NEW y \in Before(R, S, s[i]) PROVE \E j \in 1 .. (i - 1) : y = s[j]
    <3>1. y \in S /\ <<y, s[i]>> \in R
      BY DEF Before
    <3>2. PICK j \in 1 .. n : s[j] = y
      BY <1>4, <3>1
    <3>3. j # i
      BY <1>2, <3>1, <3>2 DEF Orders
    <3>4. ~(i < j)
      BY <1>2, <1>3, <3>1, <3>2 DEF Orders
    <3>5. j \in 1 .. (i - 1)
      BY <1>1, <3>3, <3>4
    <3> QED BY <3>2, <3>5
  <2>3. \A j \in 1 .. (i - 1) : s[j] \in Before(R, S, s[i])
    BY <1>2, <1>3, <2>1 DEF Before
  <2>4. Before(R, S, s[i]) = {s[j] : j \in 1 .. (i - 1)}
    BY <2>2, <2>3
  <2>5. Cardinality(1 .. (i - 1)) = i - 1 /\ IsFiniteSet(1 .. (i - 1))
    BY <2>1, FS_Interval
  <2>6. Cardinality({s[j] : j \in 1 .. (i - 1)}) = i - 1
    BY <1>2, <2>1, <2>5, ImageSize
  <2> QED BY <2>1, <2>4, <2>6 DEF Place
<1>6. \A x \in S : s[Place(R, S, x)] = x
  BY <1>4, <1>5
<1>7. DOMAIN s = 1 .. n /\ Len(s) = n
  BY <1>1, <1>2
<1>8. ASSUME NEW x \in S PROVE (CHOOSE i \in DOMAIN s : s[i] = x) = Place(R, S, x)
  <2>1. \E i \in DOMAIN s : s[i] = x
    BY <1>4, <1>7
  <2> DEFINE k == CHOOSE i \in DOMAIN s : s[i] = x
  <2>2. k \in DOMAIN s /\ s[k] = x
    BY <2>1
  <2> HIDE DEF k
  <2> QED BY <1>5, <1>7, <2>2 DEF k
<1> QED BY <1>2, <1>5, <1>6, <1>7, <1>8

-----------------------------------------------------------------------------
\* Who finishes before whom, and which of two tags is the better one.
FinishOrder(held, ranks) ==
  {pair \in Eligible(held, ranks) \X Eligible(held, ranks) :
      FinishesBefore(held, ranks, pair[1], pair[2])}
TagOrder(pool) == {pair \in pool \X pool : pair[1] < pair[2]}

\* What the leaderboard keeps true of the participants of a round.
Playable(held, ranks) ==
  /\ IsFiniteSet(DOMAIN ranks)
  /\ \A p \in DOMAIN ranks : held[p] \in Nat /\ ranks[p] \in Nat
  /\ \A p, q \in DOMAIN ranks : p # q /\ held[p] = held[q] => held[p] = NoTag

\* There are as many tags in the pool as eligible participants, and both are ordered.
LEMMA PoolFacts ==
  ASSUME NEW held, NEW ranks, Playable(held, ranks)
  PROVE  LET E == Eligible(held, ranks)
             P == TagPool(held, ranks)
         IN  /\ IsFiniteSet(E) /\ IsFiniteSet(P) /\ Cardinality(P) = Cardinality(E)
             /\ P \subseteq Nat /\ Orders(TagOrder(P), P)
             /\ Orders(FinishOrder(held, ranks), E)
<1> DEFINE E == Eligible(held, ranks)
           P == TagPool(held, ranks)
<1>1. \A p \in E : p \in DOMAIN ranks /\ held[p] \in Nat /\ held[p] # NoTag /\ ranks[p] \in Nat
  BY DEF Playable, Eligible, NoTag
<1>2. \A p, q \in E : p # q => held[p] # held[q]
  BY <1>1 DEF Playable
<1>3. IsFiniteSet(E)
  <2>1. E \in SUBSET DOMAIN ranks
    BY DEF Eligible
  <2> QED BY <2>1, FS_Subset DEF Playable
<1>4. P = {held[p] : p \in E}
  BY DEF TagPool
<1>5. P \subseteq Nat
  BY <1>1, <1>4
<1> HIDE DEF E, P
<1>6. IsFiniteSet(P) /\ Cardinality(P) = Cardinality(E)
  BY <1>2, <1>3, <1>4, ImageSize
<1>7. Orders(TagOrder(P), P)
  BY <1>5 DEF Orders, TagOrder
<1>8. Orders(FinishOrder(held, ranks), E)
  <2>1. \A p, q \in E : <<p, q>> \in FinishOrder(held, ranks) <=> FinishesBefore(held, ranks, p, q)
    BY DEF FinishOrder, E
  <2>2. \A p \in E : ~FinishesBefore(held, ranks, p, p)
    BY <1>1 DEF FinishesBefore
  <2>3. \A p, q, r \in E : FinishesBefore(held, ranks, p, q) /\ FinishesBefore(held, ranks, q, r)
                             => FinishesBefore(held, ranks, p, r)
    BY <1>1 DEF FinishesBefore
  <2>4. \A p, q \in E : p # q => FinishesBefore(held, ranks, p, q)
                                 \/ FinishesBefore(held, ranks, q, p)
    BY <1>1, <1>2 DEF FinishesBefore
  <2> QED BY <2>1, <2>2, <2>3, <2>4 DEF Orders
<1> QED BY <1>3, <1>5, <1>6, <1>7, <1>8 DEF E, P

\* Everybody gets the tag whose place in the pool is their place in the finish order.
AllocationByPlace(held, ranks) ==
  [p \in Eligible(held, ranks) |->
     CHOOSE t \in TagPool(held, ranks) :
        Place(TagOrder(TagPool(held, ranks)), TagPool(held, ranks), t)
          = Place(FinishOrder(held, ranks), Eligible(held, ranks), p)]

\* The closed pool can be allocated in exactly one way: the model's choice of an
\* order-preserving map always finds one and leaves nothing open.
THEOREM OneAllocation ==
  ASSUME NEW held, NEW ranks, Playable(held, ranks)
  PROVE  ClosedPoolAllocations(held, ranks) = {AllocationByPlace(held, ranks)}
<1> DEFINE E == Eligible(held, ranks)
           P == TagPool(held, ranks)
           R == FinishOrder(held, ranks)
           T == TagOrder(P)
           g == AllocationByPlace(held, ranks)
<1>1. /\ IsFiniteSet(E) /\ IsFiniteSet(P) /\ Cardinality(P) = Cardinality(E)
      /\ P \subseteq Nat /\ Orders(T, P) /\ Orders(R, E)
  BY PoolFacts
<1>2. /\ \A p, q \in E : <<p, q>> \in R <=> FinishesBefore(held, ranks, p, q)
      /\ \A t, u \in P : <<t, u>> \in T <=> t < u
  BY DEF FinishOrder, TagOrder
<1>3. \A f : f \in ClosedPoolAllocations(held, ranks) <=>
               f \in [E -> P] /\ \A p, q \in E : FinishesBefore(held, ranks, p, q) => f[p] < f[q]
  BY DEF ClosedPoolAllocations
<1>4. g = [p \in E |-> CHOOSE t \in P : Place(T, P, t) = Place(R, E, p)]
  BY DEF AllocationByPlace
<1> HIDE DEF E, P, R, T, g
<1>5. /\ \A p \in E : Place(R, E, p) \in 1 .. Cardinality(P)
      /\ \A p, q \in E : <<p, q>> \in R => Place(R, E, p) < Place(R, E, q)
  BY <1>1, PlacesDiffer
<1>6. /\ \A t \in P : Place(T, P, t) \in 1 .. Cardinality(P)
      /\ \A t, u \in P : <<t, u>> \in T => Place(T, P, t) < Place(T, P, u)
      /\ \A t, u \in P : Place(T, P, t) = Place(T, P, u) => t = u
  BY <1>1, PlacesDiffer
<1>7. Cardinality(P) \in Nat
  BY <1>1, FS_CardinalityType
<1>8. g \in [E -> P] /\ \A p \in E : Place(T, P, g[p]) = Place(R, E, p)
  <2>1. \A p \in E : \E t \in P : Place(T, P, t) = Place(R, E, p)
    BY <1>1, <1>5, PlacesAreTaken
  <2> QED BY <1>4, <2>1
<1>9. ASSUME NEW p \in E, NEW q \in E, FinishesBefore(held, ranks, p, q) PROVE g[p] < g[q]
  <2>1. Place(T, P, g[p]) < Place(T, P, g[q])
    BY <1>2, <1>5, <1>8, <1>9
  <2>2. /\ g[p] \in P /\ g[q] \in P /\ g[p] \in Nat /\ g[q] \in Nat
        /\ Place(T, P, g[p]) \in Nat /\ Place(T, P, g[q]) \in Nat
    <3>1. g[p] \in P /\ g[q] \in P
      BY <1>8
    <3>2. \A i \in 1 .. Cardinality(P) : i \in Nat
      BY <1>7
    <3> QED BY <1>1, <1>6, <3>1, <3>2
  <2>3. g[p] # g[q]
    BY <2>1, <2>2
  <2>4. ~(g[q] < g[p])
    <3>1. ~(Place(T, P, g[q]) < Place(T, P, g[p]))
      BY <2>1, <2>2
    <3> QED BY <1>2, <1>6, <2>2, <3>1
  <2> QED BY <2>2, <2>3, <2>4
<1>10. ASSUME NEW f \in [E -> P],
              \A p, q \in E : FinishesBefore(held, ranks, p, q) => f[p] < f[q]
       PROVE  f = g
  <2>1. \A p, q \in E : p # q => f[p] # f[q]
    <3> SUFFICES ASSUME NEW p \in E, NEW q \in E, p # q PROVE f[p] # f[q]
      OBVIOUS
    <3>1. FinishesBefore(held, ranks, p, q) \/ FinishesBefore(held, ranks, q, p)
      BY <1>1, <1>2 DEF Orders
    <3>2. f[p] \in Nat /\ f[q] \in Nat
      BY <1>1
    <3>3. f[p] < f[q] \/ f[q] < f[p]
      BY <1>10, <3>1
    <3> QED BY <3>2, <3>3
  <2>2. f \in Surjection(E, P)
    <3>1. f \in Injection(E, P)
      BY <2>1 DEF Injection, IsInjective
    <3> QED BY <1>1, <3>1, FS_Injection
  <2>3. ASSUME NEW p \in E PROVE Place(T, P, f[p]) = Place(R, E, p)
    <3>1. ASSUME NEW t \in Before(T, P, f[p]) PROVE \E q \in Before(R, E, p) : t = f[q]
      <4>1. t \in P /\ t < f[p] /\ t \in Nat /\ f[p] \in Nat
        BY <1>1, <1>2 DEF Before
      <4>2. PICK q \in E : f[q] = t
        BY <2>2, <4>1 DEF Surjection
      <4>3. q # p /\ ~(f[p] < f[q])
        BY <4>1, <4>2
      <4>4. ~FinishesBefore(held, ranks, p, q)
        BY <1>10, <4>3
      <4>5. q \in Before(R, E, p)
        BY <1>1, <1>2, <4>3, <4>4 DEF Orders, Before
      <4> QED BY <4>2, <4>5
    <3>2. \A q \in Before(R, E, p) : f[q] \in Before(T, P, f[p])
      BY <1>2, <1>10 DEF Before
    <3>3. Before(T, P, f[p]) = {f[q] : q \in Before(R, E, p)}
      BY <3>1, <3>2
    <3>4. IsFiniteSet(Before(R, E, p)) /\ \A q \in Before(R, E, p) : q \in E
      <4>1. Before(R, E, p) \in SUBSET E
        BY DEF Before
      <4> QED BY <1>1, <4>1, FS_Subset
    <3>5. Cardinality(Before(T, P, f[p])) = Cardinality(Before(R, E, p))
      BY <2>1, <3>3, <3>4, ImageSize
    <3> QED BY <3>5 DEF Place
  <2>4. ASSUME NEW p \in E PROVE f[p] = g[p]
    BY <1>6, <1>8, <2>3
  <2> QED BY <1>8, <2>4
<1> QED BY <1>3, <1>8, <1>9, <1>10 DEF g

-----------------------------------------------------------------------------
\* The lists the code sorts are sorted.
LEMMA SortedPool ==
  ASSUME NEW P, IsFiniteSet(P), Orders(TagOrder(P), P)
  PROVE  Sorts(SortFunc(P, <), TagOrder(P), P)
<1> DEFINE ListsIt(s) == \A i, j \in DOMAIN s : i < j => ~(s[j] < s[i])
<1>1. ASSUME NEW s PROVE Sorts(s, TagOrder(P), P) <=> s \in SetToSeqs(P) /\ ListsIt(s)
  <2>1. s \in SetToSeqs(P) => DOMAIN s = 1 .. Cardinality(P) /\ \A i \in DOMAIN s : s[i] \in P
    BY DEF SetToSeqs
  <2> QED BY <2>1 DEF Sorts, TagOrder
<1>2. \E s \in SetToSeqs(P) : ListsIt(s)
  BY <1>1, SortExists
<1>3. SortFunc(P, <) = CHOOSE s \in SetToSeqs(P) : ListsIt(s)
  BY DEF SortFunc
<1> HIDE DEF ListsIt
<1> QED BY <1>1, <1>2, <1>3

FinishersInOrder(held, ranks) ==
  SortFunc(Eligible(held, ranks), LAMBDA p, q : FinishesBefore(held, ranks, p, q))

LEMMA SortedFinishers ==
  ASSUME NEW held, NEW ranks, Playable(held, ranks)
  PROVE  Sorts(FinishersInOrder(held, ranks), FinishOrder(held, ranks), Eligible(held, ranks))
<1> DEFINE E == Eligible(held, ranks)
           R == FinishOrder(held, ranks)
           ListsIt(s) == \A i, j \in DOMAIN s : i < j => ~FinishesBefore(held, ranks, s[j], s[i])
<1>1. ASSUME NEW s PROVE Sorts(s, R, E) <=> s \in SetToSeqs(E) /\ ListsIt(s)
  <2>1. s \in SetToSeqs(E) => DOMAIN s = 1 .. Cardinality(E) /\ \A i \in DOMAIN s : s[i] \in E
    BY DEF SetToSeqs
  <2>2. \A p, q \in E : <<p, q>> \in R <=> FinishesBefore(held, ranks, p, q)
    BY DEF FinishOrder
  <2> HIDE DEF E, R
  <2> QED BY <2>1, <2>2 DEF Sorts
<1>2. IsFiniteSet(E) /\ Orders(R, E)
  BY PoolFacts
<1>3. FinishersInOrder(held, ranks) = CHOOSE s \in SetToSeqs(E) : ListsIt(s)
  BY DEF FinishersInOrder, SortFunc
<1> HIDE DEF E, R, ListsIt
<1>4. \E s \in SetToSeqs(E) : ListsIt(s)
  BY <1>1, <1>2, SortExists
<1>5. Sorts(FinishersInOrder(held, ranks), R, E)
  BY <1>1, <1>3, <1>4
<1> QED BY <1>5 DEF E, R

\* A picked round can be played, and its records are those of its players.
RulesInv ==
  /\ Playable(heldTags, finish) /\ finish # <<>>
  /\ DOMAIN finish \subseteq Players
  /\ heldTags \in [Players -> 0 .. MaxTag]
  /\ guildSize \in Nat
  /\ records # <<>> =>
       \E rounds \in [DOMAIN finish -> Int] :
         records = [p \in DOMAIN finish |->
                      [rounds |-> rounds[p], tier |-> DetermineTier(BestTag(p), guildSize)]]

LEMMA RulesInitInv == RulesInit => RulesInv
<1> SUFFICES ASSUME RulesInit PROVE RulesInv
  OBVIOUS
<1>1. PICK S \in SUBSET Players : S # {} /\ finish \in [S -> 1 .. MaxRank]
  BY DEF RulesInit
<1>2. DOMAIN finish = S /\ IsFiniteSet(S) /\ finish # <<>>
  BY <1>1, PlayersAssumption, FS_Subset
<1>3. heldTags \in [Players -> 0 .. MaxTag] /\ NoDuplicates(heldTags)
  BY DEF RulesInit
<1>4. \A p \in S : finish[p] \in Nat /\ heldTags[p] \in Nat
  BY <1>1, <1>3, BoundsAssumption
<1> QED BY <1>2, <1>3, <1>4 DEF RulesInit, RulesInv, Playable, NoDuplicates

LEMMA RulesNextInv == RulesInv /\ [ScoreRound]_ruleVars => RulesInv'
<1> SUFFICES ASSUME RulesInv, [ScoreRound]_ruleVars PROVE RulesInv'
  OBVIOUS
<1>1. CASE ScoreRound
  <2>1. PICK rounds \in [DOMAIN finish -> {ProvisionalRounds - 1, ProvisionalRounds}] :
          records' = [p \in DOMAIN finish |->
                        [rounds |-> rounds[p], tier |-> DetermineTier(BestTag(p), guildSize')]]
    BY <1>1 DEF ScoreRound
  <2>2. ProvisionalRounds - 1 \in Int /\ ProvisionalRounds \in Int
    BY ProvisionalRoundsAssumption
  <2>3. UNCHANGED <<heldTags, finish>> /\ guildSize' \in Nat
    BY <1>1, BoundsAssumption DEF ScoreRound
  <2>4. \A p : BestTag(p)' = BestTag(p)
    BY <2>3 DEF BestTag, NewTags, Allocated
  <2>5. rounds \in [DOMAIN finish -> Int]
    BY <2>2
  <2> QED BY <2>1, <2>3, <2>4, <2>5 DEF RulesInv, Playable
<1>2. CASE UNCHANGED ruleVars
  <2>1. \A p : BestTag(p)' = BestTag(p)
    BY <1>2 DEF ruleVars, BestTag, NewTags, Allocated
  <2> QED BY <1>2, <2>1 DEF ruleVars, RulesInv, Playable
<1> QED BY <1>1, <1>2

\* The zip of the two sorted lists gives everybody the tag of their place.
LEMMA SortedIsByPlace ==
  ASSUME RulesInv
  PROVE  SortedAllocation = AllocationByPlace(heldTags, finish)
<1> DEFINE E == Eligible(heldTags, finish)
           P == TagPool(heldTags, finish)
           R == FinishOrder(heldTags, finish)
           T == TagOrder(P)
           pool == SortFunc(P, <)
           order == FinishersInOrder(heldTags, finish)
<1>1. /\ IsFiniteSet(E) /\ IsFiniteSet(P) /\ Cardinality(P) = Cardinality(E)
      /\ Orders(T, P) /\ Orders(R, E)
  BY PoolFacts DEF RulesInv
<1>2. Sorts(pool, T, P) /\ Sorts(order, R, E)
  BY <1>1, SortedPool, SortedFinishers DEF RulesInv
<1>3. SortedAllocation = [p \in E |-> pool[CHOOSE i \in DOMAIN order : order[i] = p]]
  BY DEF SortedAllocation, FinishersInOrder
<1>4. AllocationByPlace(heldTags, finish)
        = [p \in E |-> CHOOSE t \in P : Place(T, P, t) = Place(R, E, p)]
  BY DEF AllocationByPlace
<1> HIDE DEF E, P, R, T, pool, order
<1>5. ASSUME NEW p \in E
      PROVE  pool[CHOOSE i \in DOMAIN order : order[i] = p]
               = CHOOSE t \in P : Place(T, P, t) = Place(R, E, p)
  <2>1. (CHOOSE i \in DOMAIN order : order[i] = p) = Place(R, E, p)
        /\ Place(R, E, p) \in 1 .. Cardinality(P)
    BY <1>1, <1>2, SortedPlaces, PlacesDiffer
  <2> DEFINE i == Place(R, E, p)
  <2>2. pool[i] \in P /\ Place(T, P, pool[i]) = i
    BY <1>1, <1>2, <2>1, SortedPlaces
  <2> HIDE DEF i
  <2>3. \A t \in P : Place(T, P, t) = i => t = pool[i]
    BY <1>1, <2>2, PlacesDiffer
  <2>4. (CHOOSE t \in P : Place(T, P, t) = i) = pool[i]
    BY <2>2, <2>3
  <2> QED BY <2>1, <2>4 DEF i
<1> QED BY <1>3, <1>4, <1>5

\* For every set of players and all tags and ranks: the order-preserving map of the
\* model is what the two sorts and the zip of AllocateTagsClosedPool compute.
THEOREM ClosedPoolAlwaysIsSorting == RulesSpec => []ClosedPoolIsSorting
<1>1. RulesInv => ClosedPoolIsSorting
  BY OneAllocation, SortedIsByPlace DEF ClosedPoolIsSorting, RulesInv
<1> QED BY RulesInitInv, RulesNextInv, <1>1, PTL DEF RulesSpec

-----------------------------------------------------------------------------
\* What is counted is one less without a counted element, and else the same.
LEMMA OneCountedLess ==
  ASSUME NEW K, IsFiniteSet(K), NEW C, NEW x \in K
  PROVE  Cardinality((K \ {x}) \cap C)
           = Cardinality(K \cap C) - (IF x \in C THEN 1 ELSE 0)
<1> DEFINE counted == K \cap C
           less == (K \ {x}) \cap C
<1>1. IsFiniteSet(counted) /\ Cardinality(counted) \in Nat
  <2>1. counted \in SUBSET K
    OBVIOUS
  <2> HIDE DEF counted
  <2> QED BY <2>1, FS_Subset, FS_CardinalityType
<1>2. CASE x \in C
  <2>1. less = counted \ {x} /\ x \in counted
    BY <1>2
  <2> HIDE DEF less, counted
  <2>2. Cardinality(less) = Cardinality(counted) - 1
    BY <1>1, <2>1, FS_RemoveElement
  <2> QED BY <1>2, <2>2 DEF less, counted
<1>3. CASE x \notin C
  <2>1. less = counted
    BY <1>3
  <2> HIDE DEF less, counted
  <2>2. Cardinality(less) = Cardinality(counted) - 0
    BY <1>1, <2>1
  <2> QED BY <1>3, <2>2 DEF less, counted
<1> QED BY <1>2, <1>3

\* A base price each and two bonuses for some add up to what the counts say.
LEMMA PricesAddUp ==
  ASSUME NEW J, IsFiniteSet(J), NEW A, NEW B, NEW w,
         \A j \in J : w[j] = BaseWin + (IF j \in A THEN BonusStandard ELSE 0)
                               + (IF j \in B THEN BonusGiantSlayer ELSE 0)
  PROVE  SumOf(w, J) = BaseWin * Cardinality(J) + BonusStandard * Cardinality(J \cap A)
                         + BonusGiantSlayer * Cardinality(J \cap B)
<1> DEFINE Count(K) == BaseWin * Cardinality(K) + BonusStandard * Cardinality(K \cap A)
                         + BonusGiantSlayer * Cardinality(K \cap B)
           S == {K \in SUBSET J : SumOf(w, K) = Count(K)}
<1>a. \A K \in SUBSET J : /\ IsFiniteSet(K) /\ IsFiniteSet(K \cap A) /\ IsFiniteSet(K \cap B)
                          /\ Cardinality(K) \in Nat /\ Cardinality(K \cap A) \in Nat
                          /\ Cardinality(K \cap B) \in Nat
  <2>1. \A K \in SUBSET J : K \cap A \in SUBSET J /\ K \cap B \in SUBSET J
    OBVIOUS
  <2> QED BY <2>1, FS_Subset, FS_CardinalityType
<1>1. {} \in S
  <2>1. SumOf(w, {}) = 0 /\ Cardinality({}) = 0
    BY FS_EmptySet, SumStep
  <2>2. {} \cap A = {} /\ {} \cap B = {}
    OBVIOUS
  <2>3. Count({}) = 0
    BY <2>1, <2>2 DEF BaseWin, BonusStandard, BonusGiantSlayer
  <2> QED BY <2>1, <2>3
<1>2. ASSUME NEW K \in SUBSET J, K # {}, \A x \in K : K \ {x} \in S PROVE K \in S
  <2> DEFINE x == First(K)
             less == K \ {x}
  <2>1. x \in K
    BY <1>2, FirstIsIn
  <2>2. SumOf(w, K) = w[x] + SumOf(w, less)
    BY <1>a, <1>2, SumStep
  <2>3. SumOf(w, less) = Count(less)
    BY <1>2, <2>1
  <2> HIDE DEF x
  <2>5. Cardinality(less) = Cardinality(K) - 1
    BY <1>a, <2>1, FS_RemoveElement
  <2>6. /\ Cardinality(less \cap A) = Cardinality(K \cap A) - (IF x \in A THEN 1 ELSE 0)
        /\ Cardinality(less \cap B) = Cardinality(K \cap B) - (IF x \in B THEN 1 ELSE 0)
    BY <1>a, <2>1, OneCountedLess
  <2>7. w[x] = BaseWin + (IF x \in A THEN BonusStandard ELSE 0)
                 + (IF x \in B THEN BonusGiantSlayer ELSE 0)
    BY <2>1
  <2>8. Cardinality(K) \in Nat /\ Cardinality(K \cap A) \in Nat /\ Cardinality(K \cap B) \in Nat
    BY <1>a
  <2> DEFINE k == Cardinality(K)
             a == Cardinality(K \cap A)
             b == Cardinality(K \cap B)
             inA == IF x \in A THEN 1 ELSE 0
             inB == IF x \in B THEN 1 ELSE 0
  <2>9. SumOf(w, less) = BaseWin * (k - 1) + BonusStandard * (a - inA) + BonusGiantSlayer * (b - inB)
    BY <2>3, <2>5, <2>6
  <2> HIDE DEF less, k, a, b, Count
  <2>10. SumOf(w, K) = BaseWin * k + BonusStandard * a + BonusGiantSlayer * b
    BY <2>2, <2>7, <2>8, <2>9 DEF BaseWin, BonusStandard, BonusGiantSlayer, k, a, b
  <2> QED BY <2>10 DEF Count, k, a, b
<1> HIDE DEF S
<1>3. J \in S
  <2>1. S \in SUBSET SUBSET J
    BY DEF S
  <2> QED BY <1>1, <1>2, <2>1, SubsetInduction
<1> QED BY <1>3 DEF S

\* The two bonuses of a matchup are never paid together, and only to a player who has
\* enough rounds: the early returns of CalculateMatchup price it so.
LEMMA MatchupPrice ==
  ASSUME NEW winner, NEW loser, winner.rounds \in Int
  PROVE  CalculateMatchup(winner, loser)
           = BaseWin
               + (IF EarnsBonuses(winner) /\ StandardUpset(winner, loser) THEN BonusStandard ELSE 0)
               + (IF EarnsBonuses(winner) /\ GiantSlain(winner, loser) THEN BonusGiantSlayer ELSE 0)
<1>1. EarnsBonuses(winner) <=> ~(winner.rounds < ProvisionalRounds)
  BY ProvisionalRoundsAssumption DEF EarnsBonuses
<1> QED
  BY <1>1 DEF CalculateMatchup, StandardUpset, GiantSlain, Gold, Silver, Bronze,
              BaseWin, BonusStandard, BonusGiantSlayer

\* The ranking the double loop goes through.
RankOrder(D, finalTag) == {pair \in D \X D : Outranks(finalTag, pair[1], pair[2])}
Ranked(D, finalTag) ==
  SortFunc(D, LAMBDA p, q : \/ SortKey(finalTag, p) < SortKey(finalTag, q)
                            \/ SortKey(finalTag, p) = SortKey(finalTag, q) /\ p < q)

\* Sorting by tag, the untagged as the largest int, sorts by Outranks.
LEMMA RankedIsSorted ==
  ASSUME NEW D \in SUBSET Nat, IsFiniteSet(D), NEW finalTag,
         \A p \in D : finalTag[p] \in 0 .. MaxTag
  PROVE  /\ Orders(RankOrder(D, finalTag), D)
         /\ Sorts(Ranked(D, finalTag), RankOrder(D, finalTag), D)
<1> DEFINE R == RankOrder(D, finalTag)
           Above(p, q) == \/ SortKey(finalTag, p) < SortKey(finalTag, q)
                          \/ SortKey(finalTag, p) = SortKey(finalTag, q) /\ p < q
           ListsIt(s) == \A i, j \in DOMAIN s : i < j => ~Above(s[j], s[i])
<1>a. \A p \in D : p \in Nat /\ finalTag[p] \in Nat /\ finalTag[p] <= MaxTag
  BY BoundsAssumption
<1>1. \A p, q \in D : Outranks(finalTag, p, q) <=> Above(p, q)
  BY <1>a, BoundsAssumption DEF Outranks, SortKey, NoTag
<1>2. \A p, q \in D : <<p, q>> \in R <=> Outranks(finalTag, p, q)
  BY DEF RankOrder
<1>3. Orders(R, D)
  <2>1. \A p \in D : ~Outranks(finalTag, p, p)
    BY <1>a DEF Outranks, NoTag
  <2>2. \A p, q, r \in D : Outranks(finalTag, p, q) /\ Outranks(finalTag, q, r)
                             => Outranks(finalTag, p, r)
    BY <1>a DEF Outranks, NoTag
  <2>3. \A p, q \in D : p # q => Outranks(finalTag, p, q) \/ Outranks(finalTag, q, p)
    BY <1>a DEF Outranks, NoTag
  <2> HIDE DEF R
  <2> QED BY <1>2, <2>1, <2>2, <2>3 DEF Orders
<1> HIDE DEF R, Above
<1>4. ASSUME NEW s PROVE Sorts(s, R, D) <=> s \in SetToSeqs(D) /\ ListsIt(s)
  <2>1. s \in SetToSeqs(D) => DOMAIN s = 1 .. Cardinality(D) /\ \A i \in DOMAIN s : s[i] \in D
    BY DEF SetToSeqs
  <2> QED BY <1>1, <1>2, <2>1 DEF Sorts
<1>5. Ranked(D, finalTag) = CHOOSE s \in SetToSeqs(D) : ListsIt(s)
  BY DEF Ranked, SortFunc, Above
<1> HIDE DEF ListsIt
<1>6. Sorts(Ranked(D, finalTag), R, D)
  <2>1. \E s \in SetToSeqs(D) : ListsIt(s)
    BY <1>3, <1>4, SortExists
  <2> QED BY <1>4, <1>5, <2>1
<1> QED BY <1>3, <1>6 DEF R

\* The sum of the inner loop for p, which the list `sorted' has at place i.
LoopSum(players, sorted, p, i) ==
  MapThenSumSet(LAMBDA j : CalculateMatchup(players[p], players[sorted[j]]), (i + 1) .. Len(sorted))

LEMMA LoopSumIsSum ==
  ASSUME NEW players, NEW sorted, NEW p, NEW i, IsFiniteSet((i + 1) .. Len(sorted))
  PROVE  LoopSum(players, sorted, p, i)
           = SumOf([j \in (i + 1) .. Len(sorted) |-> CalculateMatchup(players[p], players[sorted[j]])],
                   (i + 1) .. Len(sorted))
<1> DEFINE J == (i + 1) .. Len(sorted)
           w == [j \in J |-> CalculateMatchup(players[p], players[sorted[j]])]
           IsFold(f) ==
             f = [s \in SUBSET J |-> IF s = {} THEN 0
                    ELSE CalculateMatchup(players[p], players[sorted[First(s)]]) + f[s \ {First(s)}]]
<1>1. LoopSum(players, sorted, p, i) = (CHOOSE f : IsFold(f))[J]
  BY DEF LoopSum, MapThenSumSet, MapThenFoldSet, First
<1>2. ASSUME NEW f PROVE IsFold(f) <=> IsSum(f, w, J)
  <2>1. \A s \in SUBSET J : s # {} =>
           w[First(s)] = CalculateMatchup(players[p], players[sorted[First(s)]])
    BY FirstIsIn
  <2> HIDE DEF J, w
  <2> QED BY <2>1 DEF IsSum
<1> HIDE DEF IsFold, J, w
<1>3. IsFiniteSet(J)
  BY DEF J
<1>4. \E f : IsFold(f)
  BY <1>2, <1>3, SumExists
<1> DEFINE f == CHOOSE f : IsFold(f)
<1>5. IsSum(f, w, J)
  BY <1>2, <1>4
<1> HIDE DEF f
<1>6. f[J] = SumOf(w, J)
  BY <1>3, <1>5, SumIs
<1> QED BY <1>1, <1>6 DEF f, J, w

\* The elements a sorted list has after the place of p are those after p.
LEMMA AfterPlace ==
  ASSUME NEW D, IsFiniteSet(D), NEW R, Orders(R, D), NEW s, Sorts(s, R, D), NEW p \in D,
         NEW i, i = Place(R, D, p)
  PROVE  /\ i \in Nat /\ IsFiniteSet((i + 1) .. Len(s))
         /\ \A j \in (i + 1) .. Len(s) : s[j] \in D
         /\ \A j, k \in (i + 1) .. Len(s) : j # k => s[j] # s[k]
         /\ {q \in D : <<p, q>> \in R} = {s[j] : j \in (i + 1) .. Len(s)}
<1> DEFINE n == Cardinality(D)
<1>1. n \in Nat /\ i \in 1 .. n /\ i \in Nat
  BY PlacesDiffer, FS_CardinalityType
<1>2. Len(s) = n /\ (i + 1) .. n \subseteq 1 .. n /\ i + 1 \in Int /\ n \in Int
  BY <1>1, SortedPlaces
<1>3. IsFiniteSet((i + 1) .. n)
  BY <1>2, FS_Interval
<1>4. /\ \A j \in 1 .. n : s[j] \in D /\ Place(R, D, s[j]) = j
      /\ \A q \in D : s[Place(R, D, q)] = q
  BY SortedPlaces
<1> HIDE DEF n
<1>5. ASSUME NEW q \in D, <<p, q>> \in R PROVE \E j \in (i + 1) .. n : q = s[j]
  <2> DEFINE j == Place(R, D, q)
  <2>1. j \in 1 .. n /\ i < j /\ s[j] = q
    BY <1>4, <1>5, PlacesDiffer DEF n
  <2> HIDE DEF j
  <2>2. j \in (i + 1) .. n
    BY <1>1, <2>1
  <2> QED BY <2>1, <2>2
<1>6. ASSUME NEW j \in (i + 1) .. n PROVE s[j] \in D /\ <<p, s[j]>> \in R
  <2>1. j \in 1 .. n /\ j > i /\ j \in Nat
    BY <1>1
  <2>2. s[j] \in D /\ Place(R, D, s[j]) = j
    BY <1>4, <2>1
  <2>3. ~(Place(R, D, s[j]) < Place(R, D, p)) /\ s[j] # p
    BY <1>1, <2>1, <2>2
  <2>4. <<s[j], p>> \notin R
    BY <2>2, <2>3, PlacesDiffer
  <2> QED BY <2>2, <2>3, <2>4 DEF Orders
<1>7. \A j, k \in (i + 1) .. n : j # k => s[j] # s[k]
  BY <1>2, <1>4
<1>8. {q \in D : <<p, q>> \in R} = {s[j] : j \in (i + 1) .. n}
  BY <1>5, <1>6
<1> QED BY <1>1, <1>2, <1>3, <1>6, <1>7, <1>8

\* A round's points, as the double loop sums them and as the model counts them.
THEOREM LoopsPayAsCounted ==
  ASSUME NEW players, DOMAIN players \subseteq Nat, IsFiniteSet(DOMAIN players),
         \A p \in DOMAIN players : players[p].rounds \in Int,
         NEW finalTag, \A p \in DOMAIN players : finalTag[p] \in 0 .. MaxTag
  PROVE  CalculateRoundPoints(players, finalTag) = SummedMatchups(players, finalTag)
<1> DEFINE D == DOMAIN players
           R == RankOrder(D, finalTag)
           sorted == Ranked(D, finalTag)
           J(p) == (Place(R, D, p) + 1) .. Len(sorted)
           beaten(p) == {q \in D : Outranks(finalTag, p, q)}
           paid(p)   == IF EarnsBonuses(players[p]) THEN beaten(p) ELSE {}
           upsets(p) == {q \in paid(p) : StandardUpset(players[p], players[q])}
           giants(p) == {q \in paid(p) : GiantSlain(players[p], players[q])}
<1>1. Orders(R, D) /\ Sorts(sorted, R, D) /\ IsFiniteSet(D)
  BY RankedIsSorted
<1>2. CalculateRoundPoints(players, finalTag) =
        [p \in D |-> BaseWin * Cardinality(beaten(p)) + BonusStandard * Cardinality(upsets(p))
                       + BonusGiantSlayer * Cardinality(giants(p))]
  BY DEF CalculateRoundPoints
<1>3. SummedMatchups(players, finalTag) =
        [p \in D |-> LoopSum(players, sorted, p, CHOOSE k \in DOMAIN sorted : sorted[k] = p)]
  BY DEF SummedMatchups, Ranked, LoopSum
<1>4. \A p, q \in D : <<p, q>> \in R <=> Outranks(finalTag, p, q)
  BY DEF RankOrder
<1> HIDE DEF R, sorted
<1>5. \A p \in D : (CHOOSE k \in DOMAIN sorted : sorted[k] = p) = Place(R, D, p)
  BY <1>1, SortedPlaces
<1>6. ASSUME NEW p \in D
      PROVE  LoopSum(players, sorted, p, Place(R, D, p))
               = BaseWin * Cardinality(beaten(p)) + BonusStandard * Cardinality(upsets(p))
                   + BonusGiantSlayer * Cardinality(giants(p))
  <2> DEFINE K == J(p)
             earns == EarnsBonuses(players[p])
             A == {j \in K : earns /\ StandardUpset(players[p], players[sorted[j]])}
             B == {j \in K : earns /\ GiantSlain(players[p], players[sorted[j]])}
             w == [j \in K |-> CalculateMatchup(players[p], players[sorted[j]])]
  <2>1. /\ IsFiniteSet(K) /\ \A j \in K : sorted[j] \in D
        /\ \A j, k \in K : j # k => sorted[j] # sorted[k]
        /\ {q \in D : <<p, q>> \in R} = {sorted[j] : j \in K}
    BY <1>1, AfterPlace
  <2>2. beaten(p) = {sorted[j] : j \in K}
    BY <1>4, <2>1
  <2>3. LoopSum(players, sorted, p, Place(R, D, p)) = SumOf(w, K)
    BY <2>1, LoopSumIsSum
  <2> HIDE DEF K
  <2>4. \A j \in K : w[j] = BaseWin + (IF j \in A THEN BonusStandard ELSE 0)
                              + (IF j \in B THEN BonusGiantSlayer ELSE 0)
    BY MatchupPrice
  <2>5. upsets(p) = {sorted[j] : j \in A} /\ giants(p) = {sorted[j] : j \in B}
    BY <2>2
  <2>6. A \in SUBSET K /\ B \in SUBSET K /\ K \cap A = A /\ K \cap B = B
    OBVIOUS
  <2> HIDE DEF A, B, w, beaten, upsets, giants
  <2>7. SumOf(w, K) = BaseWin * Cardinality(K) + BonusStandard * Cardinality(K \cap A)
                        + BonusGiantSlayer * Cardinality(K \cap B)
    BY <2>1, <2>4, PricesAddUp
  <2>8. Cardinality(beaten(p)) = Cardinality(K)
    BY <2>1, <2>2, ImageSize
  <2>9. ASSUME NEW C \in SUBSET K PROVE Cardinality({sorted[j] : j \in C}) = Cardinality(C)
    <3>1. IsFiniteSet(C) /\ \A j, k \in C : j # k => sorted[j] # sorted[k]
      BY <2>1, FS_Subset
    <3> QED BY <3>1, ImageSize
  <2>10. Cardinality(upsets(p)) = Cardinality(A) /\ Cardinality(giants(p)) = Cardinality(B)
    BY <2>5, <2>6, <2>9
  <2> QED BY <2>3, <2>6, <2>7, <2>8, <2>10
<1> HIDE DEF D, beaten, upsets, giants
<1> QED BY <1>2, <1>3, <1>5, <1>6

\* The tags of a picked round's players stay below the bound, and its allocation is one
\* of the closed pool.
LEMMA NewTagsFit ==
  ASSUME RulesInv
  PROVE  /\ Allocated \in ClosedPoolAllocations(heldTags, finish)
         /\ \A p \in DOMAIN finish : NewTags[p] \in 0 .. MaxTag
<1>1. Allocated \in ClosedPoolAllocations(heldTags, finish)
  <2>1. \E f : f \in ClosedPoolAllocations(heldTags, finish)
    BY OneAllocation DEF RulesInv
  <2> QED BY <2>1 DEF Allocated
<1>2. \A p \in Players : heldTags[p] \in 0 .. MaxTag
  BY DEF RulesInv
<1>3. \A t \in TagPool(heldTags, finish) : t \in 0 .. MaxTag
  BY <1>2 DEF RulesInv, TagPool, Eligible
<1>4. Allocated \in [Eligible(heldTags, finish) -> TagPool(heldTags, finish)]
  BY <1>1 DEF ClosedPoolAllocations
<1>5. NewTags = [m \in Players |-> IF m \in Eligible(heldTags, finish) THEN Allocated[m] ELSE heldTags[m]]
  BY <1>4 DEF NewTags, FinalTags, RulesInv
<1>6. ASSUME NEW p \in DOMAIN finish PROVE NewTags[p] \in 0 .. MaxTag
  <2>1. p \in Players
    BY DEF RulesInv
  <2> QED BY <1>2, <1>3, <1>4, <1>5, <2>1
<1> QED BY <1>1, <1>6

\* The ceiling of a share is reached by whoever has less than the share ahead.
LEMMA TiersAreShares ==
  ASSUME NEW bestTag \in Nat, NEW n \in Nat
  PROVE  DetermineTier(bestTag, n) = TierByShare(bestTag, n)
<1>1. ASSUME NEW k \in {1, 4}
      PROVE  bestTag <= CeilTenths(k, n) <=> 10 * (bestTag - 1) < k * n
  <2> DEFINE c == CeilTenths(k, n)
  <2>1. c \in Int /\ 10 * c <= k * n + 9 /\ k * n + 9 < 10 * c + 10
    BY <1>1 DEF CeilTenths
  <2> HIDE DEF c
  <2>2. k * n \in Int
    BY <1>1
  <2>3. bestTag <= c <=> 10 * (bestTag - 1) < k * n
    BY <2>1, <2>2
  <2> QED BY <2>3 DEF c
<1>2. bestTag <= CeilTenths(1, n) <=> 10 * (bestTag - 1) < n
  BY <1>1
<1>3. bestTag <= CeilTenths(4, n) <=> 10 * (bestTag - 1) < 4 * n
  BY <1>1
<1>4. n = 0 /\ bestTag # NoTag => ~ (10 * (bestTag - 1) < n) /\ ~ (10 * (bestTag - 1) < 4 * n)
  BY DEF NoTag
<1>5. 10 * (bestTag - 1) \in n .. 4 * n - 1 <=>
        ~ (10 * (bestTag - 1) < n) /\ 10 * (bestTag - 1) < 4 * n
  OBVIOUS
<1> QED BY <1>2, <1>3, <1>4, <1>5 DEF DetermineTier, TierByShare

LEMMA RecordsAreByShare ==
  ASSUME RulesInv, records # <<>>
  PROVE  /\ records = ByShare /\ DOMAIN records = DOMAIN finish
         /\ \A p \in DOMAIN records : records[p].rounds \in Int
<1>1. PICK rounds \in [DOMAIN finish -> Int] :
        records = [p \in DOMAIN finish |->
                     [rounds |-> rounds[p], tier |-> DetermineTier(BestTag(p), guildSize)]]
  BY DEF RulesInv
<1>2. ASSUME NEW p \in DOMAIN finish
      PROVE  DetermineTier(BestTag(p), guildSize) = TierByShare(BestTag(p), guildSize)
  <2>1. heldTags[p] \in Nat /\ NewTags[p] \in Nat
    BY NewTagsFit, BoundsAssumption DEF RulesInv
  <2>2. BestTag(p) \in Nat
    BY <2>1 DEF BestTag, UpdateBestTag
  <2> QED BY <2>2, TiersAreShares DEF RulesInv
<1> QED BY <1>1, <1>2 DEF ByShare

\* For every round: the points the model counts are those CalculateRoundPoints sums up,
\* with tiers that are the shares their ceilings stand for.
THEOREM PointsAlwaysAreSummedMatchups == RulesSpec => []PointsAreSummedMatchups
<1>1. ASSUME RulesInv, records # <<>>
      PROVE  CalculateRoundPoints(records, NewTags) = SummedMatchups(ByShare, NewTags)
  <2>1. /\ DOMAIN records = DOMAIN finish /\ IsFiniteSet(DOMAIN records)
        /\ \A p \in DOMAIN records : records[p].rounds \in Int
        /\ DOMAIN records \subseteq Nat
    BY <1>1, RecordsAreByShare, PlayersAssumption DEF RulesInv, Playable
  <2>2. \A p \in DOMAIN records : NewTags[p] \in 0 .. MaxTag
    BY <1>1, <2>1, NewTagsFit
  <2>3. CalculateRoundPoints(records, NewTags) = SummedMatchups(records, NewTags)
    BY <2>1, <2>2, LoopsPayAsCounted
  <2> QED BY <1>1, <2>3, RecordsAreByShare
<1>2. RulesInv => PointsAreSummedMatchups
  BY <1>1 DEF PointsAreSummedMatchups
<1> QED BY RulesInitInv, RulesNextInv, <1>2, PTL DEF RulesSpec

\* For every round that is picked and scored: the allocation the pipeline finds makes
\* a better finisher with the same record earn more.
THEOREM BetterFinishersNeverEarnLess == RulesSpec => []BetterFinishNeverPaysLess
<1>1. ASSUME RulesInv, records # <<>>
      PROVE  BetterFinishPaysMore(heldTags, finish, records, NewTags)
  <2>1. DOMAIN records = DOMAIN finish /\ IsFiniteSet(DOMAIN finish)
    BY <1>1, RecordsAreByShare DEF RulesInv, Playable
  <2>2. DOMAIN finish \subseteq DOMAIN heldTags
        /\ \A m \in DOMAIN heldTags : m \in Nat /\ heldTags[m] \in Nat
    BY <1>1, PlayersAssumption, BoundsAssumption DEF RulesInv
  <2>3. Allocated \in ClosedPoolAllocations(heldTags, finish)
    BY <1>1, NewTagsFit
  <2> QED BY <2>1, <2>2, <2>3, BetterFinishAlwaysPays DEF NewTags
<1>2. RulesInv => BetterFinishNeverPaysLess
  BY <1>1 DEF BetterFinishNeverPaysLess
<1> QED BY RulesInitInv, RulesNextInv, <1>2, PTL DEF RulesSpec

\* Whatever a guild's tags have become, the tags of every possible round can be traded
\* in exactly one way: ReassignTags never has a choice and is never stuck.
OneWayToTrade ==
  \A ranks \in Finishes : \E f : ClosedPoolAllocations(tag, ranks) = {f}

THEOREM RoundsHaveOneAllocation == Spec => []OneWayToTrade
<1>1. ASSUME LbInv, NEW ranks \in Finishes PROVE Playable(tag, ranks)
  <2>1. IsFiniteSet(DOMAIN ranks) /\ DOMAIN ranks \subseteq Members
    BY FinishFacts
  <2>2. \A p \in DOMAIN ranks : ranks[p] \in Nat
    BY FinishesAssumption
  <2>3. \A m \in Members : tag[m] \in Nat
    BY <1>1, TagIsNat DEF LbInv, TagInv, TagTypeOK
  <2>4. \A p, q \in Members : p # q /\ tag[p] = tag[q] => tag[p] = NoTag
    BY <1>1, <2>3 DEF LbInv, TagInv, UniqueTags, NoTag
  <2> QED BY <2>1, <2>2, <2>3, <2>4 DEF Playable
<1>2. LbInv => OneWayToTrade
  BY <1>1, OneAllocation DEF OneWayToTrade
<1> QED BY LbInitInv, LbNextInv, <1>2, PTL DEF Spec
=============================================================================
