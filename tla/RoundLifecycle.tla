--------------------------- MODULE RoundLifecycle ---------------------------
(***************************************************************************)
(* A round from its creation over edits, its announcement and its reminder *)
(* to its start or deletion: the round module's handlers and the job queue *)
(* (River).  Jobs are cancelled and inserted outside the transactions that *)
(* change the rounds, so a handler that does both takes two steps.         *)
(***************************************************************************)
EXTENDS RoundRecords, Delivery

CONSTANTS
  InitialRows,   \* the rounds there are when the commands arrive
  InitialJobs,   \* and their reminder jobs
  Scenarios,     \* sets of commands, one of which comes from outside
  MaxFailures    \* bound: cancellations that fail and are only logged

VARIABLES
  commands,   \* the scenario: what comes from outside
  clock,      \* the hour
  rows,       \* the rounds table: partial function from Rounds
  minted,     \* ids given out
  jobs,       \* reminder jobs that are not cancelled
  failed,     \* rounds one of whose cancellations failed
  missed      \* rounds whose announcement was handled, perhaps again, too late

LifecycleRequests ==
       [type : {"create"}, title : Titles, start : Hours, user : Users]
  \cup [type : {"edit"}, round : Rounds, title : Titles \cup {Same}, start : Hours \cup {Same}]
  \cup [type : {"delete"}, round : Rounds, user : Users]
  \cup [type : {"start"}, round : Rounds]
  \cup [type : {"answer"}, round : Rounds, user : Users, response : Responses]

\* What a reminder is about.
Reminders == [round : Rounds, title : Titles, start : Hours, users : SUBSET (Users \cup {Nobody})]
\* The job for it.  "scheduled" includes River's available; a job whose worker has
\* died counts as "retryable" although it is called running until it is rescued.
\* `spared' marks the job of a deleted round that no deletion has cancelled: it was
\* inserted later, or was at work or to be retried at the time.
Jobs == [args : Reminders, state : {"scheduled", "running", "retryable", "completed"},
         spared : BOOLEAN]

ASSUME ClockAssumption == MaxHour \in Nat
\* The commands find rounds on whose lists nobody is twice and nobody has a score.
ASSUME InitialRowsAssumption ==
  /\ DOMAIN InitialRows \subseteq Rounds /\ InitialRows \in [DOMAIN InitialRows -> Row]
  /\ \A r \in DOMAIN InitialRows : LET list == InitialRows[r].list IN
       /\ \A i, j \in DOMAIN list : list[i].user = list[j].user => i = j
       /\ \A i \in DOMAIN list : list[i].score = NoScore
\* Their jobs; one that a worker has had was due.
ASSUME InitialJobsAssumption ==
  /\ InitialJobs \subseteq Jobs
  /\ \A j \in InitialJobs :
       /\ j.args.round \in DOMAIN InitialRows
       /\ InitialRows[j.args.round].state = "DELETED" => j.spared
       /\ j.state # "scheduled" => j.args.start - 1 <= 0

table == <<rows, minted>>
queue == <<jobs, failed>>
time == <<clock, missed>>

LifecycleInit ==
  /\ clock = 0 /\ missed = {}
  /\ rows = InitialRows /\ minted = DOMAIN InitialRows
  /\ jobs = InitialJobs /\ failed = {}
  /\ commands \in Scenarios
  /\ msgs = commands /\ open = {} /\ redelivered = 0

\* GetRound: a deleted round is found as well.
Found(r) == r \in DOMAIN rows
SetRow(r, row) == rows' = [rows EXCEPT ![r] = row]

Tick ==
  /\ clock < MaxHour
  /\ clock' = clock + 1
  /\ UNCHANGED <<commands, missed, table, queue, delivery>>

-----------------------------------------------------------------------------
\* ValidateRoundCreation refuses a start in the past; otherwise a new id is given
\* out, also when the request is delivered again.
Create == \E m \in Of("create") :
  /\ \/ m.start < clock /\ Handle(m, {}) /\ UNCHANGED minted
     \/ /\ m.start >= clock
        /\ \E r \in Rounds \ minted :
             /\ minted' = minted \cup {r}
             /\ Handle(m, {[type |-> "entity", round |-> r,
                            row |-> NewRow(m.title, m.start, m.user)]})
  /\ UNCHANGED <<commands, rows, queue, time>>

\* CreateRound inserts.  When the row is there the insert fails and the message
\* comes back again and again, without effect.
CreateRound(r, row) == [s \in DOMAIN rows \cup {r} |-> IF s = r THEN row ELSE rows[s]]
StoreRound(r, row) == ~Found(r) /\ rows' = CreateRound(r, row)

\* HandleRoundEntityCreated
Store == \E m \in Of("entity") :
  /\ StoreRound(m.round, m.row)
  /\ Handle(m, {[type |-> "created", round |-> m.round]})
  /\ UNCHANGED <<commands, minted, queue, time>>

\* The Discord bot announces the round and opens an event for it.
Announce == \E m \in Of("created") :
  /\ Handle(m, {[type |-> "posted", round |-> m.round], [type |-> "event", round |-> m.round]})
  /\ UNCHANGED <<commands, table, queue, time>>

UpdateRoundMessageID(r) == SetRow(r, WithMessageId(rows[r]))
\* HandleRoundEventMessageIDUpdate: what is scheduled then is the row as returned.
StoreMessageId == \E m \in Of("posted") :
  /\ UpdateRoundMessageID(m.round)
  /\ Handle(m, {[type |-> "scheduled", round |-> m.round,
                 title |-> rows[m.round].title, start |-> rows[m.round].start]})
  /\ UNCHANGED <<commands, minted, queue, time>>

UpdateDiscordEventID(r) == SetRow(r, WithEventId(rows[r]))
\* HandleNativeEventCreated
StoreEventId == \E m \in Of("event") :
  /\ UpdateDiscordEventID(m.round)
  /\ Handle(m, {})
  /\ UNCHANGED <<commands, minted, queue, time>>

-----------------------------------------------------------------------------
Reminder(r, title, start, users) ==
  [round |-> r, title |-> title, start |-> start, users |-> users]
\* River keeps a job unique by its arguments, among the completed ones too.
Unique(args) == \A j \in jobs : j.args # args

JobsOf(r) == {j \in jobs : j.args.round = r}
Unfinished(r) == {j \in JobsOf(r) : j.state # "completed"}
\* What CancelRoundJobs selects: neither what is at work nor what is to be retried.
Cancellable(r) == {j \in JobsOf(r) : j.state = "scheduled"}
\* What is not selected, and survives a deletion.
Remaining(r) == {[j EXCEPT !.spared = @ \/ rows[r].state = "DELETED"] :
                   j \in Unfinished(r) \ Cancellable(r)}

\* Mutant: nothing is cancelled
CancelNothing(r) == UNCHANGED <<jobs, failed>>
\* CancelRoundJobs: errors of single jobs are ignored.
CancelRoundJobs(r) ==
  \/ jobs' = (jobs \ Unfinished(r)) \cup Remaining(r) /\ UNCHANGED failed
  \/ /\ Cardinality(failed) < MaxFailures
     /\ failed' = failed \cup {r}
     /\ UNCHANGED jobs

\* ScheduleRoundReminder
ScheduleRoundReminder(args) ==
  jobs' = IF Unique(args)
          THEN jobs \cup {[args |-> args, state |-> "scheduled",
                           spared |-> rows[args.round].state = "DELETED"]}
          ELSE jobs

\* ScheduleRoundEvents cancels the round's jobs ...
CancelForSchedule == \E m \in Of("scheduled") :
  /\ CancelRoundJobs(m.round)
  /\ Open([msg |-> m])
  /\ UNCHANGED <<commands, table, time>>

\* Mutant: a failed insert is acknowledged
AcknowledgeFailure(t) == Commit(t, {})
\* An insert that fails sends the message back.
InsertFails(t) == Abort(t)

\* ... and inserts one an hour before the start, if that is still to come.
InsertReminder == \E t \in OpenFor("scheduled") :
  /\ \/ /\ t.msg.start - 1 > clock
        /\ ScheduleRoundReminder(Reminder(t.msg.round, t.msg.title, t.msg.start, {}))
        /\ Commit(t, {})
        /\ UNCHANGED missed
     \/ /\ t.msg.start - 1 <= clock
        /\ missed' = missed \cup {t.msg.round}
        /\ Commit(t, {})
        /\ UNCHANGED jobs
     \/ InsertFails(t) /\ UNCHANGED <<jobs, missed>>
  /\ UNCHANGED <<commands, table, failed, clock>>

HandleDiscordMessageIDUpdated == CancelForSchedule \/ InsertReminder

-----------------------------------------------------------------------------
\* ValidateRoundUpdate: no start in the past; whoever asks, whatever the state.
ValidateRoundUpdate(m) == m.start = Same \/ m.start >= clock
\* HandleRoundUpdateRequest
ValidateEdit == \E m \in Of("edit") :
  /\ Handle(m, IF ValidateRoundUpdate(m) THEN {[m EXCEPT !.type = "validated"]} ELSE {})
  /\ UNCHANGED <<commands, table, queue, time>>

\* UpdateRoundEntity reads the row without a transaction ...
ReadForEdit == \E m \in Of("validated") :
  /\ LET applies == Found(m.round) /\ Edited(rows[m.round], m) # rows[m.round]
     IN  \/ ~applies /\ Handle(m, {})
         \/ applies /\ Open([msg |-> m, seen |-> rows[m.round]])
  /\ UNCHANGED <<commands, table, queue, time>>

\* The message to reschedule carries the row as written, if a start was given.
Reschedules(m, row) ==
  IF m.start = Same THEN {}
  ELSE {[type |-> "rescheduled", round |-> m.round, title |-> row.title, start |-> row.start]}

\* ... and writes its copy of it.
WriteEdit == \E t \in OpenFor("validated") :
  /\ LET r == t.msg.round
         row == Written(rows[r], Edited(t.seen, t.msg))
     IN  SetRow(r, row) /\ Commit(t, Reschedules(t.msg, row))
  /\ UNCHANGED <<commands, minted, queue, time>>

HandleRoundUpdateValidated == ReadForEdit \/ WriteEdit

\* UpdateScheduledRoundEvents cancels first ...
CancelForReschedule == \E m \in Of("rescheduled") :
  /\ CancelRoundJobs(m.round)
  /\ Open([msg |-> m])
  /\ UNCHANGED <<commands, table, time>>

\* ... and inserts if the start, and an hour before it, are still to come.
InsertRescheduled == \E t \in OpenFor("rescheduled") :
  /\ \/ /\ t.msg.start - 1 > clock
        /\ ScheduleRoundReminder(Reminder(t.msg.round, t.msg.title, t.msg.start,
                                          Listed(rows[t.msg.round].list)))
        /\ Commit(t, {})
     \/ /\ t.msg.start - 1 <= clock
        /\ Commit(t, {})
        /\ UNCHANGED jobs
     \/ InsertFails(t) /\ UNCHANGED jobs
  /\ UNCHANGED <<commands, table, failed, time>>

HandleRoundScheduleUpdate == CancelForReschedule \/ InsertRescheduled

-----------------------------------------------------------------------------
\* ValidateRoundDeletion: only the creator may.
ValidateRoundDeletion(m) == Found(m.round) /\ rows[m.round].creator = m.user
\* HandleRoundDeleteValidated only passes this on.
DeleteAuthorized(r) == [type |-> "deleteAuthorized", round |-> r]

\* HandleRoundDeleteRequest
RequestDeletion == \E m \in Of("delete") :
  /\ Handle(m, IF ValidateRoundDeletion(m) THEN {DeleteAuthorized(m.round)} ELSE {})
  /\ UNCHANGED <<commands, table, queue, time>>

\* DeleteRound marks the row in a transaction ...
MarkDeleted == \E m \in Of("deleteAuthorized") :
  /\ SetRow(m.round, Deleted(rows[m.round]))
  /\ Open([msg |-> m])
  /\ UNCHANGED <<commands, minted, queue, time>>

\* ... and then cancels the jobs; a failure is only logged.
CancelForDeletion == \E t \in OpenFor("deleteAuthorized") :
  /\ \/ CancelRoundJobs(t.msg.round) /\ Commit(t, {})
     \/ Abort(t) /\ UNCHANGED queue
  /\ UNCHANGED <<commands, table, time>>

HandleRoundDeleteAuthorized == MarkDeleted \/ CancelForDeletion

\* StartRound: the round must have been announced; its state is not looked at.
StartRound(r) == IF Found(r) /\ rows[r].message
                 THEN SetRow(r, InState(rows[r], "IN_PROGRESS")) ELSE UNCHANGED rows
\* HandleRoundStartRequested
Start == \E m \in Of("start") :
  /\ StartRound(m.round)
  /\ Handle(m, {})
  /\ UNCHANGED <<commands, minted, queue, time>>

\* A response to the invitation reaches the list (RoundScoring has the flow).
Answer == \E m \in Of("answer") :
  /\ Found(m.round)
  /\ rows' = [rows EXCEPT ![m.round].list = Answered(@, m.user, m.response)]
  /\ Handle(m, {})
  /\ UNCHANGED <<commands, minted, queue, time>>

-----------------------------------------------------------------------------
JobBecomes(j, state) == jobs' = (jobs \ {j}) \cup {[j EXCEPT !.state = state]}

\* River fetches a job that is due for a worker, and makes one that failed, or
\* whose worker has died, available again.
FetchJob == \E j \in jobs :
  /\ \/ j.state = "scheduled" /\ j.args.start - 1 <= clock /\ JobBecomes(j, "running")
     \/ j.state = "retryable" /\ JobBecomes(j, "scheduled")
  /\ UNCHANGED <<commands, table, failed, time, delivery>>

\* RoundReminderWorker.Work publishes.  When that fails, or the worker dies before
\* or after it, the job is to be run again.
WorkJob == \E j \in jobs :
  LET remind == [type |-> "remind", args |-> j.args] IN
  /\ j.state = "running"
  /\ \/ /\ msgs' = msgs \cup {remind}
        /\ JobBecomes(j, "completed")
        /\ UNCHANGED redelivered
     \/ /\ Again
        /\ msgs' \in {msgs, msgs \cup {remind}}
        /\ JobBecomes(j, "retryable")
  /\ UNCHANGED <<commands, table, failed, time, open>>

RunJob == FetchJob \/ WorkJob

\* Mutant: the users stored in the job are reminded
ToldByJob(m) == m.args.users
\* ProcessRoundReminder asks the list who is coming, not the job.
Told(m) == Recipients(rows[m.args.round].list)

\* HandleRoundReminder: what it publishes is for Discord and stays in msgs.
Remind == \E m \in Of("remind") :
  /\ Handle(m, IF Told(m) = {} THEN {}
               ELSE {[type |-> "told", round |-> m.args.round, start |-> m.args.start,
                      users |-> Told(m)]})
  /\ UNCHANGED <<commands, table, queue, time>>

LifecycleNext ==
  \/ Tick \/ Create \/ Store \/ Announce \/ StoreMessageId \/ StoreEventId
  \/ HandleDiscordMessageIDUpdated
  \/ ValidateEdit \/ HandleRoundUpdateValidated \/ HandleRoundScheduleUpdate
  \/ RequestDeletion \/ HandleRoundDeleteAuthorized \/ Start \/ Answer
  \/ RunJob \/ Remind

-----------------------------------------------------------------------------
LifecycleTypeOK ==
  /\ clock \in Hours /\ missed \subseteq Rounds
  /\ DOMAIN rows \subseteq minted /\ minted \subseteq Rounds
  /\ \A r \in DOMAIN rows : rows[r] \in Row
  /\ jobs \subseteq Jobs /\ \A j \in jobs : j.args.round \in DOMAIN rows
  /\ failed \subseteq DOMAIN rows /\ redelivered \in 0 .. MaxRedeliveries

\* Whatever edits, uploads and redelivered messages carry of a round, they never
\* take it back: a round that has left UPCOMING does not return to it, and the
\* announcement and the event it has are not forgotten.
RoundsMoveForward ==
  [][\A r \in DOMAIN rows :
       /\ rows'[r].state = "UPCOMING" => rows[r].state = "UPCOMING"
       /\ rows[r].message => rows'[r].message
       /\ rows[r].event => rows'[r].event
       /\ rows'[r].creator = rows[r].creator]_rows

\* A reminder goes to those who are coming when it is sent, however often the round
\* was rescheduled and people changed their minds since the job was written.
RemindersAskTheList ==
  [][\A m \in msgs' \ msgs : m.type = "told" => m.users = Recipients(rows[m.round].list)]_msgs

Deleting(r) == \E m \in msgs \cup {t.msg : t \in open} :
  m.type = "deleteAuthorized" /\ m.round = r

\* A deleted round keeps a reminder only until its deletion is done, or when cancelling
\* failed, or when the job was inserted after the deletion, or was with a worker or
\* waiting to be retried when the jobs were cancelled.  (DeleteRound, CancelRoundJobs)
OnlySparedRemindersOutliveDeletion ==
  \A r \in DOMAIN rows : rows[r].state = "DELETED" =>
    \A j \in Unfinished(r) : j.spared \/ r \in failed \/ Deleting(r)

\* Somebody has still to be reminded of r, or to be found too late for it.
Owed(r) ==
  \/ Unfinished(r) # {}
  \/ \E m \in InHand : m.type = "scheduled" /\ m.round = r
  \/ \E m \in Of("remind") : m.args.round = r

Untouched(r) == \A c \in commands : c.type \in {"edit", "delete"} => c.round # r
Reminded(r) == \E j \in JobsOf(r) :
  /\ j.state = "completed"
  /\ \A m \in Of("remind") : m.args # j.args
  /\ Recipients(rows[r].list) = {} \/ \E m \in Of("told") : m.round = r

\* No step drops a reminder that is owed: jobs are cancelled before others are
\* inserted, inserts fail, jobs are unique and their worker dies between its message
\* and their completion, and yet the reminder stays owed until it is sent, or its
\* announcement is handled too late.  (ScheduleRoundEvents, RoundReminderWorker.Work)
RemindersAreKept ==
  [][\A r \in Rounds :
       Untouched(r) /\ Owed(r) => Owed(r)' \/ Reminded(r)' \/ r \in missed']_<<queue, time, delivery>>

\* Once a round is announced, its participants are reminded an hour before, through
\* failing inserts and restarts, unless the announcement was handled too late.
AnnouncedRoundsAreReminded ==
  \A r \in Rounds :
    (Untouched(r) /\ \E m \in Of("scheduled") : m.round = r) ~> (r \in missed \/ Reminded(r))
=============================================================================
