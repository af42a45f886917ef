------------------------------ MODULE Delivery ------------------------------
(***************************************************************************)
(* How the modules' handlers get their messages.  A handler's transaction  *)
(* commits, its messages are published and then its own message is         *)
(* acknowledged; when the process dies in between, or the handler fails,   *)
(* the message is delivered again.  Handlers run concurrently: one that    *)
(* reads in one statement and writes in another is open in between.        *)
(***************************************************************************)
EXTENDS Naturals

CONSTANT MaxRedeliveries   \* bound: deaths and failures of handlers, second deliveries

VARIABLES
  msgs,         \* messages in flight, as far as they differ
  open,         \* handlers half-way, as far as they differ: records with the message in `msg'
  redelivered   \* redeliveries so far

delivery == <<msgs, open, redelivered>>

ASSUME RedeliveriesAssumption == MaxRedeliveries \in Nat

Of(type) == {m \in msgs : m.type = type}
OpenFor(type) == {t \in open : t.msg.type = type}
\* In flight or in a handler's hands.
InHand == msgs \cup {t.msg : t \in open}

\* A handler dies or fails, or a message is delivered once more.
Again == redelivered < MaxRedeliveries /\ redelivered' = redelivered + 1

\* The handler of m has committed and published `out'.  Either m is
\* acknowledged, or it is delivered again, because the process dies first, before
\* or after it published, or because there is another like it.
Finish(m, out) ==
  \/ /\ msgs' = (msgs \ {m}) \cup out
     /\ UNCHANGED redelivered
  \/ /\ Again
     /\ msgs' \in {msgs \cup {m}, msgs \cup {m} \cup out}

\* A handler that is done after one step.
Handle(m, out) == Finish(m, out) /\ UNCHANGED open

\* A handler has made its first step; t holds its message and what it has read.
\* The message may be delivered to a second handler while this one is half-way.
Open(t) ==
  /\ \/ msgs' = msgs \ {t.msg} /\ UNCHANGED redelivered
     \/ Again /\ UNCHANGED msgs
  /\ open' = open \cup {t}

\* The half-way handler t goes on as u; another one like t may stay behind.
Proceed(t, u) ==
  /\ \/ open' = (open \ {t}) \cup {u} /\ UNCHANGED redelivered
     \/ Again /\ open' = open \cup {u}
  /\ UNCHANGED msgs

\* A half-way handler has committed and published, and its message is acknowledged
\* or delivered again; or another one like it is half-way still.
Commit(t, out) ==
  \/ /\ msgs' = msgs \cup out /\ open' = open \ {t}
     /\ UNCHANGED redelivered
  \/ /\ Again
     /\ \/ open' = open \ {t} /\ msgs' \in {msgs \cup {t.msg}, msgs \cup {t.msg} \cup out}
        \/ UNCHANGED open /\ msgs' = msgs \cup out

\* The database refuses the handler's write, which is rolled back.  Not bounded:
\* when the message comes back the row that was in the way is found.
Refuse(t) ==
  /\ msgs' = msgs \cup {t.msg}
  /\ open' = open \ {t}
  /\ UNCHANGED redelivered

\* The handler fails or dies half-way: what it has committed stays.
Abort(t) ==
  /\ Again
  /\ msgs' = msgs \cup {t.msg}
  /\ open' = open \ {t}
=============================================================================
