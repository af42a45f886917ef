# Verification of frolf-bot

frolf-bot keeps the disc-golf rounds, scores and leaderboards of Discord guilds.
It is one Go process of modules (`src/app/modules/`) that talk to each other over
NATS JetStream messages and keep their state in Postgres. This directory models
its core in TLA+, model-checks it with TLC and proves the central invariants with
TLAPS.

## 1. Inventory

Every module has handlers (one per message topic), a service and a repository. A
handler's result is a list of messages to publish; when it returns an error the
message is delivered again. Delivery is at least once, topics are independent of
each other, and handlers of different topics run concurrently.

| component | state | operations | hard behaviour |
|---|---|---|---|
| Tag ledger (`leaderboard/domain/tag_allocator.go`, `application/write_flow.go`) | `league_members.current_tag`, `tag_history` | tags traded by a round, batch assignment, reset | ties, untagged players, chains inside a batch, one tag for one member |
| Points and seasons (`write_flow.go`, `admin_ops.go`, `domain/points_calculator.go`, `ranking.go`, `season_policy.go`, `idempotency.go`) | `leaderboard_round_outcomes`, `leaderboard_point_history`, `leaderboard_season_standings`, `leaderboard_seasons` | process a round, recalculate it, start and end a season, adjust points | redelivery, correction after other things happened, a window in time, floors at zero |
| Tag swap saga (`infrastructure/saga`, `handlers/tag_swap.go`, `batch_tag_assign.go`) | `tag_swap_intents` key-value bucket | store an intent, look for a cycle, execute it, delete intents | no transaction spans it: interleaving, restarts |
| Leaderboard handlers and fan-out | none | turn messages into commands, publish their results one by one | partial publishing |
| Leaderboard queries and charts | none of their own | read | - |
| Round participants and scores (`round/application/participant_status.go`, `score_round.go`, `participant_tags.go`, `infrastructure/repositories/round.go`) | `rounds.participants`, a JSON list in one row | join, leave, score, bulk scores, tag sync, check that all scores are in | read-modify-write of the whole list, with and without a row lock |
| Round lifecycle (`create_round.go`, `update_round.go`, `start_round.go`, `finalize_round.go`, `delete_round.go`) | `rounds.state` and descriptive fields | create, edit, start, finalize, delete | unguarded state changes, stale copies |
| Reminders (`schedule_round.go`, `infrastructure/queue`) | River jobs | schedule, cancel, fire | not in the round's transaction |
| Scorecard import (`import_*.go`, `parsers/`) | import columns of the round, the participant list, `round_groups` | upload, parse, match users, apply scores | repeated delivery, whole-list writes |
| Score (`score/`) | `scores.round_data` | store a round's scores, correct, reprocess | overwrite or refuse, lost corrections |
| Guild (`guild/`) | `guild_configs` | create, update, delete softly, retrieve | check, then upsert; a deletion delivered again |
| Club (`club/`) | `clubs`, one per guild | upsert from a guild's setup or a sign-up, name request | two inserts at once |
| User (`user/`) | `users`, `guild_memberships`, `club_memberships` | sign-up, profiles, roles, UDisc names, matching of scorecards | memberships stored twice, read before and written after others, a tag promised before it is assigned |
| Auth (`auth/`) | `magic_links`, `refresh_tokens` | magic link, log-in, ticket, log-out, connection check | tokens replaced at every use, lost answers, replays, two devices |
| Application (`app/app.go`, `main.go`, `config/`, `cmd/`, migrations) | none | wiring | - |

How they interact: a round whose scores are all in is finalized by the round module,
which asks the score module to process the scores; the score module stores them and
sends the tagged players in finish order to the leaderboard as a batch of source
`process_scores`; the leaderboard processes the round (tags, then points) and sends
the changed tags back to the round module, which writes them into upcoming rounds.
Joining a round looks the player's tag up in the leaderboard. Signing up a user with
a tag asks the leaderboard whether it is free. Admin batches and tag swaps go to the
leaderboard directly; when a requested tag is taken, the saga waits for a cycle.

What makes each component correct:

- *Tags*: one holder per tag; a round neither creates nor loses tags and moves only
  those of players who came with one; a batch takes nothing from anybody outside it;
  the history explains the present.
- *Points*: whatever is redelivered or corrected, every round counts exactly once and
  in the version processed last; rounds stay in their season; closed seasons are
  frozen; old rounds are final; a better finish never pays less.
- *Saga*: nobody gets a tag it did not ask for or loses one for nothing; requests that
  close a cycle come true; requests are not dropped silently.
- *Participants*: no join, score or removal undoes another; the tags shown are those of
  the leaderboard; only scores that were submitted are processed; a complete round is.
- *Lifecycle*: edits and late messages never take a round back; an announced round is
  reminded of; a deleted one is not, but by a job its deletion could not cancel; who is
  reminded is who is coming then.
- *Import*: whoever uploads a card hears how it ended; nobody is listed
  twice, and grouped twice only by handlers that overlap; a score belongs to a name on the card.
- *Guild, club, user*: every setup, deletion and sign-up is answered, whatever runs beside it;
  rights and names survive sign-ups and profiles.
- *Auth*: devices do not end each other's sessions; a ticket in hand connects.

The hazards, each at its line, are listed in `PROJECT.json`.

## 2. Plan

Modules, in order, all written but the last:

1. `TagAllocation`: pure tag arithmetic.
2. `TagLedger`, implementing the abstract `TagOwnership`; proofs in `TagLedgerProofs`.
3. `PointsRules`, `LeaderboardRules` (the rules beside the loops of the code), `Leaderboard`
   (extends `TagLedger`); proofs about all three in `LeaderboardProofs`.
4. `TagSwapSaga` (extends `TagLedger`); proofs in `TagSwapSagaProofs`.
5. `Delivery`: messages delivered at least once, handlers open between two statements, a
   process that dies between commit, publish and acknowledgement. All modules below extend it;
   what its steps do to messages and open handlers is proved in `DeliveryProofs`.
6. `RoundParticipants` and `RoundScoring`: the participant list with its locked and unlocked
   writers, the join flow, the end of a round, the stored scores and their corrections, and
   what the leaderboard makes of the result (it instantiates `TagAllocation`) down to the tag
   sync that comes back; proofs in `RoundScoringProofs`.
7. `RoundRecords`, `RoundLifecycle` (rounds, jobs, clock), `RoundImport` (extends it: scorecards
   into the same rows); proofs in `RoundsProofs`.
8. `GuildSetup`, `Members` (extends it), `SignIn` (extends both): guilds and clubs, users and
   memberships, sessions and tickets; proofs in `SignInProofs`.
9. Open: `GuildSeasons` (two guilds sharing a season id).

The theorems the plan asked for are all proved (section 5): every safety property a run checks,
that a round's trade of tags always exists and is the only one, that the rules compute what the
loops of the code do, and the safety halves of the liveness properties, which say that nothing an
answer needs can be dropped between two handlers.

## 3. The models and the code

**TagAllocation** (`tag_allocator.go`). `ClosedPoolAllocations` is the order-preserving map
from the tagged participants (ordered by rank, then current tag) to the tags they bring;
the code computes it by sorting both and zipping. `ResetAllocation` gives the i-th finisher
tag i. `NoTag` (0) stands for a NULL tag, as the code reads it.

**TagLedger** (`write_flow.go`). State: `league` and `tag` are `league_members`,
`lastHolder` and `lastTaken` are what readers take from `tag_history`: the latest row of a
tag and the latest row naming a member its new holder. Actions: `ReassignTags` (tag half of
`processRoundInTx`), `ApplyTagAssignments` (`applyTagAssignmentsInTx`), `ResetTags`
(`resetTagsCore`). Each is one action because each is one transaction that takes
`pg_advisory_xact_lock` of the guild first; a transaction that fails leaves nothing behind.
Refused batches leave the state alone; `Applicable` and `Blocked` say when.

**TagOwnership** is what this promises: `holder[t]` has one value by construction, a round
is a `Trade` among holders, a batch is a `Move` of the members who asked, a reset is a
`Requalify`. `TagLedger` implements it with `holder <- HolderOf`.

**PointsRules** (`points_calculator.go`, `ranking.go`). The double loop over the sorted
players is written as a count of the matchups of each price.

**LeaderboardRules** has the loops as the code writes them: `SortedAllocation` sorts the pool and
the eligible players and zips them, `SummedMatchups` runs over the list sorted by tag (untagged
players last, ties broken by id) and adds what `CalculateMatchup` pays for each player below. There
the tiers are stated a second time and in another form, as shares of the guild (`TierByShare`: gold
for tags among the best tenth, a begun tenth counting whole), so that a ceiling off by one on either
side shows. A behaviour picks a round, the size of the guild, any tags and ranks of the round, and
then any season records; the `leaderboard_rules` run compares both forms on every small round, and
the theorems on every round.

**Leaderboard** (`write_flow.go`, `admin_ops.go`) extends the ledger with seasons, outcomes,
point history, adjustments and standings of one guild. `outcome[r].ranks` stands for the
processing hash, which identifies the (member, rank) pairs. `ProcessRound` is the whole
command: nothing for data already processed, otherwise (inside the recalculation window,
`fresh`) roll back, trade tags, award points in the season `ResolveSeasonForRound` gives,
and store the outcome. `WindowCloses` is the clock. Any command may come again at any
time, so redelivery and reordering are in the model without a message queue.

**TagSwapSaga** (`tag_swap.go`, `batch_tag_assign.go`, `coordinator.go`) has one handler per
message with its program counter and locals: `ReadTargetTag`, `ReadOwnTag`,
`AssignDirectly` or `NeedSwap`, `PutIntent`, `ListKeys`, `GetIntent` per key, `FindCycle`,
`ExecuteCycle`, `DeleteIntent` per key. Only the assignments are transactions. `Crash`
starts every unfinished handler over and keeps the bucket and the database; `PlayRound` is a
round of the same guild in between. The iteration of a Go map in `findCycle` is any choice
of successors (`Walks`).

**RoundParticipants** holds what the handlers compute from a round's participant list: a partial
function from users to response, tag and score, because every writer looks its user up first.
`Upserted` is `UpdateParticipant` (a nil score is kept, the tag always overwritten), `Imported`
applies a scorecard, `Retagged` a tag sync, `FinalScores` is what leaves the round module,
`Ranking` the finish order the score module sorts it into.

**Delivery** is how the router (`router.go` of every module, `handlerwrapper`) runs handlers.
`Finish` publishes and acknowledges, or the process dies before or after publishing and the
message comes again (`InHand` is what is in flight or half-way, so still to be handled);
`Handle` is a handler of one step, `Open` and `Commit` one that reads in one
statement and writes in another (`Proceed` is a step in between), `Abort` a failure half-way,
`Refuse` a write the database turns down (a unique index), rolled back and delivered again.
Messages are in no order. Equal messages may be several: `msgs` and `open` say which there are, and
at every step what is taken away may also stay, as another one like it (`Again`, at most
`MaxRedeliveries` times), so two deliveries of one message, or two messages with different ids and
the same content, can be half-way at once, wherever their handlers are.

**RoundScoring** (round module, score module, `retrieve_info.go`, `leaderboard_update.go`,
`admin_ops.go`) is one singles round and its row of scores. A handler that locks the row or only
publishes is one action. One that reads without a lock and writes the whole list is two:
`ReadForRemoval` and `WriteRemoval`, `ReadForImport` and `WriteImport`, `ReadForSync` and
`WriteSync`; so is `UpdateParticipantScore`, which decides on an unlocked read whether the user
joins, and `CorrectScore` has three (`ReadTagForCorrection`, `ReadForCorrection`,
`WriteCorrection`). Handlers that only pass a message on (validation of scores and joins) are
merged with the handler before them. The ranking goes to the leaderboard as a message
(`AssignRanks`), whose command moves the tags as `TagLedger` does (`Allocation` is an instance of
`TagAllocation`) unless it is what was processed last (`AlreadyProcessed`, the processing hash);
the tags that moved go back as a sync. `Retag` is an assignment from outside, `RecalculateRound`
the admin's recalculation, which orders players by the tags in the round. Points, seasons and the
recalculation window are in `Leaderboard` only.

**RoundRecords, RoundLifecycle** (`create_round.go`, `update_round.go`, `delete_round.go`,
`start_round.go`, `schedule_round.go`, `round_reminders.go`, `queue/`). `rows` is the rounds table,
`jobs` River's reminder jobs, `clock` the hour. Every repository statement is an operator on one
row: `Written` says which columns the general update touches, `WithMessageId`, `WithEventId`,
`InState` set one each. The job queue is not in the database transaction, so scheduling,
rescheduling and deletion are two steps each (`CancelForSchedule`, `InsertReminder`, ...), with
failures of the insert (the message comes back) and of the cancellation (logged only, at most
`MaxFailures`). River's unique jobs count completed ones (`Unique`). A job is scheduled (River's
available included), running, retryable or completed: `FetchJob` gives a due one to a worker and
makes a retryable one available again, `WorkJob` publishes and completes, or fails or dies before or
after publishing, and the job is to be retried. A job whose worker has died is called running until
River rescues it; the model calls it retryable at once, since the code treats the two alike:
`CancelRoundJobs` selects neither (`Cancellable`), so what is at work or waiting for another attempt
survives a cancellation that did not fail and runs again (`Remaining`). `spared` marks a job that a
deletion of its round has left in this way, or that was inserted after it. That River gives up after
25 attempts is not modelled. A new round gets a new id, also when its request comes twice
(`Create`).

**RoundImport** (`import_service.go`, `import_processing.go`, `import_apply.go`,
`import_handlers.go`) adds the six handlers from upload or URL to the scores in the list. A card is
a sequence of rows of names and a total; `Normalized`, `ResolveUserID` and `WithScore` are what the
code computes from it. For doubles, `Ingest` looks whether the round has groups and
`CreateRoundGroups` makes them; there is neither a lock nor a unique constraint in between
(`import_processing.go:211`), so two handlers that both look first make them twice. `overtaken` has
the rounds that got groups while another handler was between the two. URL imports carry no file
name, so no parser takes them: they always end in a failure message.

**GuildSetup, Members, SignIn** (guild and club modules, user module, auth module) share the tables.
`GuildSetup`: the setup stores the club, then passes the settings on; creation, deletion and the
upsert of the club are a read and a write. `Members`: `ReadUser`/`WriteUser` are the transaction of
a sign-up (read committed, so others commit in between), `ReadProfile`/`WriteProfile` that of a
profile from Discord, whose errors are acknowledged (`profile_handlers.go:33`); the club's
membership is upserted whole (`UpsertMember`). `SignIn`: calls of devices over HTTP, whose answers
may be lost (`Respond`). A ticket request reads the token and the memberships; when there are none
it reads the old guild memberships, makes club memberships of them one by one in no transaction and
looks again (`ReadLegacy`, `BackfillClubMembership`, `ReadAgain`), others' handlers in between; then
it replaces the token (`ReadToken`, `BackfillClubMemberships`, `Rotate`). A link is read and used in
two steps (`ReadLink`, `LoginUser`), since neither statement locks the row. `Connects` is the
message server's question whether a ticket is let in. A club is named by its guild, a token by its
place in the table; expiry is in the order of creation because lifetimes are constant.

In all of these, `commands` is one of `Scenarios`: what comes from outside in a behaviour, taken
in any order.

The MC modules hold the values of the constants. Operators commented "Mutant" are faulty
variants of the definition after them, used to see that each property notices.

## 4. What is checked

| run | instance | result |
|---|---|---|
| `tag_ledger` | 3 members, tags 1..3, every result of every round with ties, every batch, three resets | tags unique, history explains them, rounds keep the pool, implements `TagOwnership` |
| `leaderboard_rules` | every round of up to 3 players with tags 0..4 and ranks 1..3, seasons of 0, 3 and 11 members (tags on both sides of tier boundaries), provisional or not | allocation is the code's two sorts, points are the code's double loop with tiers as shares of the guild, a better finish never pays less |
| `leaderboard` | 2 members, 2 rounds, 2 seasons, 3 results, 2 batches, 1 reset, one adjustment of -50 per standing, provisional for 1 round | the history of a round is its last version; counts and totals are explained by it; closed seasons are frozen; outcomes settle (a round keeps its season, and after its window everything) |
| `tag_swap_saga` | a cycle of two swap requests and an admin batch for a third member, one restart or one round | only tags that were asked for; no cycle closes unnoticed; it is executed in the end |
| `tag_swap_lost` | the same | violation: intents are deleted although their batch failed |
| `round_scoring` | three users (one not on the list), five sets of three or four commands, one redelivery | scores and tags stay with their users; the news that all scores are in is not dropped, and such a round is processed in the end; results delivered again move no tags |
| `round_removal` | a score and a removal | violation: the removal takes the other user's score with it |
| `round_ranking` | two accepted users submit scores | violation: their tags are cleared, the leaderboard is sent no ranking |
| `round_unscored` | a scorecard with one of two accepted users | violation: the other is ranked with score 0 |
| `rounds` | an announced round with two participants and a reminder, a second one to create, hours 0 to 4, eleven sets of commands, one redelivery, one failed cancellation | rounds move forward; reminders ask the list, are dropped by no step and outlive a deletion only where no cancellation could reach them; imports are dropped by no step, end, list and score everybody once, and group once but for overlapping handlers |
| `members` | a guild with two members and one to be set up, three users, two devices, seventeen sets of commands, three HTTP calls, one redelivery, one expiry | setups, deletions and sign-ups are dropped by no step and answered in the end; rights and names are kept; sessions and tickets hold |
| `returning_members` | a member with a display name signs up again | violation: the name is gone |

**Bounds and why they are enough.** Three members and tags give rounds with a bystander,
chains and cycles of batches, and resets that leave somebody out; the invariants are also
proved for all sizes. In `leaderboard`, two rounds in two seasons are the least in which one
round's recalculation could disturb another round or season; a third result (one player
alone) makes a correction drop a player. `MaxAdjustments` bounds the manual adjustments of
a standing; one of -50 is enough to reach both floors at zero. Round and season ids are
symmetric. In the saga, `MaxEvents = 1` allows one restart or one round at every point of
three interleaved handlers. The runs of the pure rules and of the saga end (a scored round;
all messages handled), so they do not check for deadlock; in the others some command is
always possible.

In `round_scoring`, the scenarios put each kind of writer of the list next to the others:
single scores of three users (one of whom joins by it) and a start; a bulk update and
corrections; a join, a leave and a tag sync; an import, a late score, a decline and a start; an
import, an assignment and a recalculation. One redelivery (`MaxRedeliveries`) repeats any handler
of a run at any point. Tags 1 to 3 for two holders let a sync give a user a tag the other never had.

In `rounds`, each scenario is a set of messages that meet in one row: a
creation and an acceptance of the created round (so that somebody is there to be reminded of it); an
edit, a deletion and a start; edits of both fields and a decline; two edits of the start, one
into the past; an import with an edit, with a join, with an empty card and a refused deletion, with a
start; two imports of different groups; URLs of and not of UDisc and for a round that is not there.
Four hours put a reminder
before, at and after the time its message is handled. The cards hold two names of one user, a
guest, a name that is a member's in this guild and a stranger's elsewhere, a team, and nothing.

In `members`, the scenarios are the pairs and triples of handlers that touch one row: two
sign-ups and a setup of one guild, a sign-up and a profile, two profiles, two creations, a
deletion with an update, two tag checks, and two devices of one user or one user's sign-up
beside its ticket. Two guilds are
needed because a user may be in both and only one has a club. `RightsAreKept` and `NamesAreKept` leave
out the writes of handlers that had looked before the row was what it is (`LookedEarly`): those
write an older role or name back, in the code too.

**Safety halves.** What must happen in the end is stated twice: as a liveness property, which TLC
checks under fairness, and as what no step may do, which is proved for all instances.

- `ImportsAreKept`, `RequestsAreKept`: for each upload, setup, sign-up and deletion a message that
  is its command, a stage of it or its answer is in flight or in a handler's hands. An answer has to
  be right: who is told of a membership has it, a deletion is announced with what the row says.
- `RemindersAreKept`: a reminder that is owed (its announcement, a pending job or a message of it
  is there) stays owed until it is sent or its announcement is handled too late.
- `CompletionIsKept`: that the round is complete stays on its way until it is processed, as long as
  only single scores, corrections and the start come from outside. Older scores written late may
  replace newer ones that are stored (`stored' # stored`), which the code does not prevent.
- `CyclesAreNoticed`: when a step leaves a closed cycle of intents in the bucket, some handler is to
  list it, has it in its listing or is executing or cleaning it up, or the cycle was unnoticed
  before. Excepted are restarts, after which the messages come again, and a misled handler, which
  has read two intents naming one tag as their owner's (`Misled`): an intent in the bucket keeps
  the tag its user had when it was stored, so the search may leave the cycle.

All these runs end when everything is handled, so they do not check for deadlock. The violations
need no redelivery.

**Fairness.** Safety runs have none. `TagSwapSaga` assumes weak fairness of each handler: the router
(`router.go`) runs a delivered message to its end and delivers it again until it is acknowledged.
`RoundScoring` assumes weak fairness of `Next` as a whole: the router handles what is in flight,
every message leads to finitely many others, and redeliveries are bounded, so each is handled in the
end. Its liveness property is about scenarios without a whole-list writer (`OnlyScored`): with one,
a score may be lost and the round stay incomplete, as `round_removal` shows. `RoundImport` and
`SignIn` assume the same for the same reason, where the clock, River's workers and the browsers'
calls are bounded too; a refused write (`Refuse`) may be repeated only while another transaction is
open, so it ends as well. No fairness is assumed of crashes or rounds, nor of anybody sending a
request.

**Findings.** (1) `executeCycle` ignores the result of its batch and only looks at the error;
a batch that needs a swap outside the cycle is such a result. If a round has moved a
requested tag between `findCycle` and `executeCycle`, nothing is assigned, the intents are
deleted as "processed", and their users, who were told the swap is recorded, are never told
that it was dropped.

(2) `RemoveParticipant` reads the round without a lock and writes the whole list back, so a score
stored in between disappears (`round_removal`).

(3) `UpdateParticipant` overwrites the tag on every call, and the score update passes none, so
submitting a score clears the player's tag in the round. The score module ranks only players
with a tag, so a round scored by single submissions reaches the leaderboard without them
(`round_ranking`). An import keeps the tags.

(4) `NotifyScoreModule` leaves participants without a score out, but the handler that calls it
builds its message from all participants, with 0 for a missing score (`round_unscored`).

(5) A member who signs up again loses the display name stored with the club membership: the
upsert sets every column and the sign-up has no name, although the comment above it says that
role and display name are preserved (`returning_members`). The role is.

Seen while modelling and not checked by a run of its own: a correction of processed scores asks for
them to be processed again without the leave to overwrite, which is refused; URL imports cannot
succeed; doubles cards never become teams, because `applyTeamScores` is only reached by a round that
has teams already (`import_apply.go:42`); a name on a card falls back to any user of that username,
member or not, where the comment at `import_apply.go:82` expects a member; a create request
delivered twice makes two rounds; a start request revives a deleted round; an edit after a deletion
inserts a reminder again, and a job that is at work or to be retried survives the deletion (`spared`
in the model, both); two handlers make a round's groups twice (`overtaken`); a link may be redeemed
twice by two calls that both read it unused (`ReadLink`, `LoginUser`), which the comment at
`ticket_service.go:36` says the transaction prevents: the transaction is read committed, its read
takes no lock and its update of the link asks no condition; a swap that was executed before a
restart may be executed back, because the redelivered requests read the tags anew; a role update
changes the guild's membership only, and rights come from the club's; after a lost answer a device's
retry revokes all sessions of its user, where the comment at `ticket_service.go:126` speaks of the
token's family; an update between the read and the write of a configuration's deletion is lost. The
models have all of these behaviours.

## 5. What is proved

Everything below is proved for every value of the constants that the named assumptions of the
modules allow: every finite set of members or users, every set of tags, rounds, results, seasons,
cards and devices, and every set of commands of the declared form. The assumptions say what kind of
thing the constants are and what the tables look like at the start: members and tags are numbers,
results are nonempty functions from participants to ranks, a reset names nobody twice (`TagLedger`);
commands have the payloads of the handlers (`ScenariosAssumption`, `MessagesAssumption`,
`RequestsAssumption`); lists begin without scores and with nobody twice, and a deleted round begins
without reminders but spared ones, and a job that is no longer scheduled was due
(`InitialRowsAssumption`, `InitialJobsAssumption`); memberships belong to users and clubs, nobody
begins with rights beyond playing in a club without being in its guild, and no two devices begin
with the same token (`TablesAssumption`); NULL is no role and no token (`NoneAssumption`). TLC
evaluates each of them on the instances of the runs.

All safety theorems have the same shape: an inductive invariant, one lemma for the initial
states, one for each action, and the theorem by temporal logic. The inductive invariants:

- `TagLedgerProofs` (`LedgerTypeCorrect`, `LedgerInvariant`, `RoundsKeepThePoolAlways`,
  `LedgerImplementsOwnership`). `TagInv` is the conjunction of types, `UniqueTags` and
  `HistoryExplainsTags`: the history can only be shown to explain the tags if no two members hold
  the same one, because `lastHolder` of a tag is one member. The key lemma is
  `AllocationIsBijection`: an allocation of the closed pool uses each tag of the pool exactly once.
  It is strictly monotone in the finish order, which is total on players with distinct tags, so it
  is injective, and an injection from a finite set to one of the same size is onto. The
  refinement maps each operation to one action of `TagOwnership`; unique tags are what makes
  `HolderOf` a function of the tag.
- `LeaderboardProofs` (`TypeCorrect`, `TagsStayUnique`, `HistoryAlwaysMatchesOutcome`,
  `RoundsPlayedAlwaysIsHistory`, `TotalsAlwaysExplained`, `ClosedSeasonsAreAlwaysFrozen`,
  `OutcomesAlwaysSettle`). `LbInv` adds to the types the
  finiteness of the history, `HistoryMatchesOutcome` and `RoundsPlayedIsHistory`. The last needs
  the one before: a rollback decrements once per row, and that equals the number of rounds that go
  only because a member has at most one row per round, and is never cut off at zero because that
  row was counted. The totals rest on the same: `Earned`, the sum of a set of rows, loses exactly
  the points of a row that is removed (`EarnedMore`, whatever order the fold takes the rows in),
  `Adjusted` grows by the amount appended, and the floors only ever keep a total up.
- `LeaderboardProofs` on the rules themselves (`OneAllocation`, `RoundsHaveOneAllocation`,
  `ClosedPoolAlwaysIsSorting`, `LoopsPayAsCounted`, `PointsAlwaysAreSummedMatchups`,
  `BetterFinishAlwaysPays`, `BetterFinishersNeverEarnLess`). Every finite set with a total order has
  one sorted list, in which the place of an element is one more than the number of elements before
  it (`SortedPlaces`). A map that preserves the order preserves these numbers, so the allocation of
  a round is the zip of the two sorted lists and nothing else; one exists because the zip is one.
  The tier by ceilings is the tier by shares (`TiersAreShares`). The inner loop over the list runs over
those a player beat, and its sum is the count of the
  matchups of each price, by induction over sets of losers (`PricesAddUp`). For every allocation
  whoever finishes behind beats a proper subset of those the better one beats. `RulesInv` says that
  tags and ranks of the round are those of players without a tag in common. The instance is any
  finite set of players, any tags and ranks and any sizes of the season (`PlayersAssumption`,
  `BoundsAssumption`).
- `TagSwapSagaProofs` (`SagaTypeCorrect`, `SwapsKeepTheLedger`, `SwapsAreAlwaysAskedFor`,
  `CyclesAreAlwaysNoticed`). `SagaInv`
  says of every intent in the bucket, and of every copy of one a handler has listed, that its tag
  was asked for on its user's behalf. What was asked for only grows, so what other handlers do
  between two steps cannot spoil a handler's copies. The walk of `findCycle` stays among users each
  of whom is followed by one of them, by induction over its steps (`WalksStay`), so who has read a
  closed cycle and is not misled finds a cycle in it (`CyclesAreFound`); a handler that stores an
  intent reads the bucket after that, so whichever is last sees all of it.
- `RoundScoringProofs` (`ScoringTypeCorrect`, `ScoresAreSubmitted`, `TagsAreHeld`,
  `RedeliveriesMoveNoTags`, `CompletionIsAlwaysKept`). `ScoringInv` says of every list and every
  result, wherever it is (in the round, in the score table, in a message, in the hands of a handler
  that will write it back), that each score was submitted for its user and each tag held by it.
  For the last theorem `SoleInv` adds that nobody else has a copy of the list to write back, and
  that nothing of the round's end is in flight while it is upcoming.
- `RoundsProofs` (`RoundsTypeCorrect`, `RoundsNeverGoBack`, `RemindersGoToTheList`,
  `NobodyIsListedTwice`, `ScoresComeFromCards`, `GroupsAreMadeOnce`, `ImportsAlwaysCountOnce`,
  `DeletedRoundsKeepOnlySparedReminders`, `ImportsAreAlwaysKept`, `RemindersAreAlwaysKept`).
  `RoundsInv` follows a card through its messages to the list: each message of an import carries
  what a command's card says, each score of a match was beside a name of its user, and rounds that
  messages speak of exist. `GroupsAreMadeOnce` says that a round that was not overtaken has no
  groups or those of exactly one card, and adds that while a handler is about to make some it has
  none yet (`GroupsInv`); the reminders of deleted rounds need `DeletionsKept`: a failed
  cancellation stays on record and a deletion in hand stays in hand until it has cancelled. An
  import is kept because each of its handlers publishes its next stage or its failure. A reminder is
  kept by `RemindersInv`: jobs are fetched and complete only when they are due, what edits or
  deletes a round comes from a command, and a reminder that was sent still has its job; so the
  insert that finds a completed job in its way (`Unique`) is too late.
- `SignInProofs` (`MembersTypeCorrect`, `DevicesStaySignedIn`, `TicketsOfSessionsConnect`,
  `DisplayNamesStay`, `MembersKeepTheirRights`, `SetupsAreAlwaysKept`, `SignUpsAreAlwaysKept`,
  `DeletionsAreAlwaysKept`, `RequestsAreAlwaysKept`). `SignInInv` says that rows belong together,
  that what a half-way sign-up or profile has read (user, memberships, club) is still there when it
  writes, and that a token is in one device's hands: its cookie and the calls made with it.
  Requests are kept because a refused insertion comes again, memberships are only added, and
  whatever writes over a deleted configuration either makes it active or is another deletion.
- `DeliveryProofs` and `NatInductionFacts` hold what the others share: nothing is in flight after a
  step that was not before but what the handler published and began; and induction over the
  natural numbers in the form of a set that contains 0 and every successor, with which folds over
  sequences and sets, flattening and the walk of `findCycle` are proved about.

Each inductive invariant was checked with TLC on the instance of its run before it was proved;
what is proved of single steps (`CompletionIsKept`, `RemindersAreKept`, `CyclesAreNoticed`,
`OutcomesSettle` and the like) is a property of a run.

Only model-checked:

- the liveness properties (`CyclesAreExecuted`, `CompleteRoundsAreProcessed`,
  `AnnouncedRoundsAreReminded`, `EveryImportEnds`, `RequestsAreAnswered`, which is
  `EverySetupIsAnswered`, `DeletionsAreAnnounced` and `EverySignUpIsAnswered`): fairness and
  `ENABLED` are beyond the prover. Their safety halves are proved.

## 6. What is not modelled

Postgres, JetStream, Watermill and River are taken at what the code relies on: transactions, the
guild lock, a key-value bucket whose puts and deletes are seen in order, delivery at least once.
Wording, logging, metrics, tracing, Discord formatting and the text of scorecards and dates are left
out. The two ids of a guild (Discord id and club UUID) are one. Members are numbers so that the
order of ids, which breaks ties of untagged players, exists. `float64` tier thresholds are exact
tenths; the two agree for every season of up to two million members. A round command that names a
member twice fails in the database and is not enumerated. In the saga, deleting an intent succeeds;
the code only warns when it does not. In `RoundScoring` there is one round, without teams or guests;
scores are in the range the score module accepts; database failures (after which a transaction
leaves nothing behind and the message comes again, or an error is published) do not occur; a
correction names no tag; bulk corrections in the score table are left out, what they send to the
round module is the `bulk` command. The topic `GetTagNumberFailedV1` has a handler but nothing in
the repository publishes it.

In `RoundLifecycle` a row keeps what the properties tell apart: title, description and location
are edited alike and are one field, times are hours, the validation of texts is left out, and
the list is changed by an atomic `Answer` (its races are in `RoundScoring`). The retrieval of
rounds only reads. In `GuildSetup` two settings stand for all, one for those a repeated creation
is compared by and one for the rest; `HandleGuildSetup` of the guild module is not registered
with its router and is left out, the club module's is the one modelled. In `Members`, names are
compared in lower case already; matching several users of one name picks any, as the loop over
rows in no order does. In `SignIn`, cryptography (JWT, NKeys, hashes of tokens) is the identity
of a token; the list of subjects a role may use is one of three rights. Sync requests a ticket
returns are not published by its handler, so they are not in the model.

Not modelled at all: the wording of scorecards and dates, charts and other queries (they read
and change nothing), start-up, configuration and migrations, test helpers.
