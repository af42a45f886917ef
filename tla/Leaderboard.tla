---------------------------- MODULE Leaderboard ----------------------------
(***************************************************************************)
(* The leaderboard command pipeline of one guild                           *)
(* (app/modules/leaderboard/application/write_flow.go and admin_ops.go):   *)
(* rounds are processed into tags, points and an outcome, possibly more    *)
(* than once and with corrected results; seasons start and end; admins     *)
(* adjust points.  Every command is one transaction under the guild's      *)
(* advisory lock.  Commands arrive over at-least-once messaging: each      *)
(* action may repeat with the same parameters at any later time.           *)
(***************************************************************************)
EXTENDS TagLedger, PointsRules, Integers, FiniteSetsExt, SequencesExt

CONSTANTS
  Rounds,          \* round ids
  SeasonIds,       \* season ids
  NoSeason,        \* a NULL season id
  Deltas,          \* amounts an admin adds to somebody's points
  MaxAdjustments   \* bound: manual adjustments per standing

ASSUME SeasonsAssumption == NoSeason \notin SeasonIds
ASSUME DeltasAssumption == Deltas \subseteq Int

VARIABLES
  seasons,       \* ids in leaderboard_seasons
  activeSeason,  \* the one with is_active, or NoSeason
  outcome,       \* outcome[r]: season and processed data of round r
  fresh,         \* rounds processed less than RecalculationWindow ago
  pointHistory,  \* point_history rows of rounds
  adjustments,   \* adjustments[s][m]: deltas of the manual rows, in order
  enrolled,      \* enrolled[s]: members with a season_standings row
  standing       \* standing[s][m]: that row; zeros where there is none

pointVars == <<seasons, activeSeason, outcome, fresh,
               pointHistory, adjustments, enrolled, standing>>
vars == <<tagVars, pointVars>>

\* The processing hash identifies the processed (member, rank) pairs, so the
\* outcome row is modelled with the pairs themselves.
NotProcessed == [season |-> NoSeason, ranks |-> <<>>]
Processed(r) == DOMAIN outcome[r].ranks # {}
SameData(r, ranks) == Processed(r) /\ outcome[r].ranks = ranks

NoStanding == [total |-> 0, rounds |-> 0, best |-> NoTag]

Init ==
  /\ TagInit
  /\ activeSeason \in SeasonIds \cup {NoSeason}   \* the migrated guild has one
  /\ seasons = {activeSeason} \ {NoSeason}
  /\ outcome = [r \in Rounds |-> NotProcessed]
  /\ fresh = {}
  /\ pointHistory = {}
  /\ adjustments = [s \in SeasonIds |-> [m \in Members |-> <<>>]]
  /\ enrolled = [s \in SeasonIds |-> {}]
  /\ standing = [s \in SeasonIds |-> [m \in Members |-> NoStanding]]

-----------------------------------------------------------------------------
\* Mutant: the query of point_history forgets the round.
RowsOfAnyRound(r) == pointHistory

\* GetPointHistoryForRound.
RowsOf(r) == {h \in pointHistory : h.round = r}

\* Mutant: the history rows of the earlier version stay.
HistoryKept(r) == pointHistory

\* DeletePointHistoryForRound.
HistoryWithout(r) == pointHistory \ RowsOf(r)

\* Mutant: no floor.
AnyTotal(n) == n

\* The floor of AdjustPoints, and GREATEST(..., 0) of DecrementSeasonStanding.
NonNegative(n) == IF n < 0 THEN 0 ELSE n

\* Mutant: a recalculation forgets to take the old points back.
NotRolledBack(r) == standing

\* rollbackPreviousRound: each history row of the round is taken out of the
\* standing it went into.  The season's best tag stays.
RolledBack(r) ==
  [s \in SeasonIds |-> [m \in Members |->
     IF \E h \in RowsOf(r) : h.season = s /\ h.member = m
     THEN LET h == CHOOSE h \in RowsOf(r) : h.season = s /\ h.member = m
          IN  [total  |-> NonNegative(standing[s][m].total - h.points),
               rounds |-> NonNegative(standing[s][m].rounds - 1),
               best   |-> standing[s][m].best]
     ELSE standing[s][m]]]

\* Mutant: a recalculated round goes to the season active now.
ActiveSeasonForRound(r) == activeSeason

\* resolveActiveSeason and ResolveSeasonForRound: a recalculated round keeps the
\* season it had; any other goes to the active season, if there is one.
ResolveSeasonForRound(r) ==
  IF outcome[r].season # NoSeason THEN outcome[r].season ELSE activeSeason

\* calculateAndPersistPoints up to the awards: the tier of a player comes from
\* its season best including this round, among the members enrolled so far.
PlayersOf(ranks, before, finalTag, s) ==
  [p \in DOMAIN ranks |->
     [rounds |-> before[s][p].rounds,
      tier   |-> DetermineTier(UpdateBestTag(before[s][p].best, finalTag[p]),
                               Cardinality(enrolled[s]))]]

\* calculateAndPersistPoints: history rows and standings of the round.
AwardPoints(r, ranks, before, finalTag, s) ==
  LET points == CalculateRoundPoints(PlayersOf(ranks, before, finalTag, s), finalTag)
  IN  /\ pointHistory' = HistoryWithout(r) \cup
           {[round |-> r, season |-> s, member |-> p, points |-> points[p]] :
              p \in DOMAIN ranks}
      /\ standing' = [before EXCEPT ![s] = [m \in Members |->
           IF m \in DOMAIN ranks
           THEN [total  |-> before[s][m].total + points[m],
                 rounds |-> before[s][m].rounds + 1,
                 best   |-> UpdateBestTag(before[s][m].best, finalTag[m])]
           ELSE before[s][m]]]
      /\ enrolled' = [enrolled EXCEPT ![s] = @ \cup DOMAIN ranks]

\* Off season: tags move, points do not.
SkipPoints(r, before) ==
  /\ pointHistory' = HistoryWithout(r)
  /\ standing' = before
  /\ UNCHANGED enrolled

\* Other data for a processed round is refused once its window has closed.
MayProcess(r) == Processed(r) => r \in fresh

\* processRoundInTx on data that differs from what was last processed.
ApplyRound(r, ranks) ==
  LET before == RolledBack(r)
      s      == ResolveSeasonForRound(r)
  IN  /\ MayProcess(r)
      /\ ReassignTags(ranks)
      /\ IF s # NoSeason THEN AwardPoints(r, ranks, before, tag', s)
                         ELSE SkipPoints(r, before)
      /\ outcome' = [outcome EXCEPT ![r] = [season |-> s, ranks |-> ranks]]
      /\ fresh' = fresh \cup {r}
      /\ UNCHANGED <<seasons, activeSeason, adjustments>>

\* ProcessRound: a no-op on the data last processed, otherwise a first
\* processing or a recalculation.
ProcessRound(r, ranks) ==
  IF SameData(r, ranks) THEN UNCHANGED vars ELSE ApplyRound(r, ranks)

\* The clock passes the recalculation window of a processed round.
WindowCloses(r) ==
  /\ r \in fresh
  /\ fresh' = fresh \ {r}
  /\ UNCHANGED <<tagVars, seasons, activeSeason, outcome, pointHistory,
                 adjustments, enrolled, standing>>

\* StartSeason: a reused id violates the primary key and undoes the transaction.
StartSeason(s) ==
  /\ s \notin seasons
  /\ seasons' = seasons \cup {s}
  /\ activeSeason' = s
  /\ UNCHANGED <<tagVars, outcome, fresh, pointHistory, adjustments,
                 enrolled, standing>>

EndSeason ==
  /\ activeSeason' = NoSeason
  /\ UNCHANGED <<tagVars, seasons, outcome, fresh, pointHistory, adjustments,
                 enrolled, standing>>

\* AdjustPoints: the history row has the delta, the total stops at zero.
AdjustPoints(m, delta) ==
  LET s == activeSeason
  IN  /\ s # NoSeason
      /\ Len(adjustments[s][m]) < MaxAdjustments
      /\ adjustments' = [adjustments EXCEPT ![s][m] = Append(@, delta)]
      /\ standing' = [standing EXCEPT ![s][m].total = NonNegative(@ + delta)]
      /\ enrolled' = [enrolled EXCEPT ![s] = @ \cup {m}]
      /\ UNCHANGED <<tagVars, seasons, activeSeason, outcome, fresh, pointHistory>>

\* The commands that touch tags only.
AssignTags ==
  /\ \/ \E req \in Requests : ApplyTagAssignments(req)
     \/ \E order \in ResetOrders : ResetTags(order)
  /\ UNCHANGED pointVars

Next ==
  \/ \E r \in Rounds, ranks \in Finishes : ProcessRound(r, ranks)
  \/ \E r \in Rounds : WindowCloses(r)
  \/ \E s \in SeasonIds : StartSeason(s)
  \/ EndSeason
  \/ \E m \in Members, delta \in Deltas : AdjustPoints(m, delta)
  \/ AssignTags

Spec == Init /\ [][Next]_vars

-----------------------------------------------------------------------------
TypeOK ==
  /\ TagTypeOK
  /\ seasons \subseteq SeasonIds
  /\ activeSeason \in seasons \cup {NoSeason}
  /\ outcome \in [Rounds -> [season : SeasonIds \cup {NoSeason},
                             ranks : Finishes \cup {<<>>}]]
  /\ fresh \subseteq Rounds
  /\ pointHistory \subseteq [round : Rounds, season : SeasonIds,
                             member : Members, points : Nat]
  /\ adjustments \in [SeasonIds -> [Members -> Seq(Deltas)]]
  /\ enrolled \in [SeasonIds -> SUBSET Members]
  /\ standing \in [SeasonIds -> [Members -> [total : Nat, rounds : Nat, best : Nat]]]

\* The point history of a round is what its outcome says and nothing else: one
\* row per participant last processed, in the outcome's season, none off season.
\* Whatever recalculations and redeliveries came before, nothing of an earlier
\* version of the round is left and nothing is counted twice.
HistoryMatchesOutcome ==
  \A r \in Rounds :
     /\ {h.member : h \in RowsOf(r)} =
          (IF outcome[r].season = NoSeason THEN {} ELSE DOMAIN outcome[r].ranks)
     /\ \A h \in RowsOf(r) : h.season = outcome[r].season
     /\ \A g, h \in RowsOf(r) : g.member = h.member => g = h

SeasonRows(s, m) == {h \in pointHistory : h.season = s /\ h.member = m}

\* rounds_played, which decides who is provisional, is the number of rounds in
\* the season's history: the decrement of a rollback is never cut off at zero.
RoundsPlayedIsHistory ==
  \A s \in SeasonIds, m \in Members :
     standing[s][m].rounds = Cardinality(SeasonRows(s, m))

\* A total is the sum of the history behind it, as long as no admin adjusted it;
\* with adjustments it is never less (the floor at zero may keep it higher).
TotalsExplainedByHistory ==
  \A s \in SeasonIds, m \in Members :
     LET earned   == MapThenSumSet(LAMBDA h : h.points, SeasonRows(s, m))
         adjusted == FoldLeft(+, 0, adjustments[s][m])
     IN  /\ standing[s][m].total >= earned + adjusted
         /\ adjustments[s][m] = <<>> => standing[s][m].total = earned

\* "Existing data is preserved under the old season_id": a standing of a season
\* that is not active changes only when a round that was processed in that season
\* is recalculated with other data.
ClosedSeasonsAreFrozen ==
  [][\A s \in SeasonIds :
        standing'[s] # standing[s] =>
           \/ s = activeSeason
           \/ \E r \in Rounds : outcome[r].season = s /\ outcome'[r] # outcome[r]]_vars

\* A recalculated round stays in its season, also when the season has ended or
\* another one is active by then.
StaysInItsSeason(r) == outcome[r].season # NoSeason => outcome'[r].season = outcome[r].season

\* Once the recalculation window of a round has closed, neither its outcome nor
\* its points can change any more.
IsFinal(r) == Processed(r) /\ r \notin fresh => outcome'[r] = outcome[r] /\ RowsOf(r)' = RowsOf(r)

\* What a round came to settles: its season with its first result, all of it with its
\* window, whatever seasons, corrections and other rounds come later.
RoundsSettle == \A r \in Rounds : StaysInItsSeason(r) /\ IsFinal(r)
OutcomesSettle == [][RoundsSettle]_vars
=============================================================================
