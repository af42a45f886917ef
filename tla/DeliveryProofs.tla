--------------------------- MODULE DeliveryProofs ---------------------------
(***************************************************************************)
(* What the ways to handle a message do to what is in flight: whatever     *)
(* dies, fails or is delivered again, nothing is in flight afterwards that *)
(* was not before, except what the handler published and began.            *)
(***************************************************************************)
EXTENDS Delivery, TLAPS

RedeliveriesBounded == redelivered \in 0 .. MaxRedeliveries

\* Nothing but `out' is new in flight, nothing but `begun' is new half-way.
Delivered(out, begun) ==
  /\ msgs' \subseteq msgs \cup {t.msg : t \in open} \cup out
  /\ open' \subseteq open \cup begun
  /\ RedeliveriesBounded'

LEMMA HandleDelivers ==
  ASSUME RedeliveriesBounded, NEW m \in msgs, NEW out, Handle(m, out)
  PROVE  Delivered(out, {})
  BY RedeliveriesAssumption DEF Handle, Finish, Again, Delivered, RedeliveriesBounded

LEMMA OpenDelivers ==
  ASSUME RedeliveriesBounded, NEW t, Open(t)
  PROVE  Delivered({}, {t})
  BY RedeliveriesAssumption DEF Open, Again, Delivered, RedeliveriesBounded

LEMMA ProceedDelivers ==
  ASSUME RedeliveriesBounded, NEW t, NEW u, Proceed(t, u)
  PROVE  Delivered({}, {u})
  BY RedeliveriesAssumption DEF Proceed, Again, Delivered, RedeliveriesBounded

LEMMA CommitDelivers ==
  ASSUME RedeliveriesBounded, NEW t \in open, NEW out, Commit(t, out)
  PROVE  Delivered(out, {})
  BY RedeliveriesAssumption DEF Commit, Again, Delivered, RedeliveriesBounded

LEMMA RefuseDelivers ==
  ASSUME RedeliveriesBounded, NEW t \in open, Refuse(t)
  PROVE  Delivered({}, {})
  BY DEF Refuse, Delivered, RedeliveriesBounded

LEMMA AbortDelivers ==
  ASSUME RedeliveriesBounded, NEW t \in open, Abort(t)
  PROVE  Delivered({}, {})
  BY RedeliveriesAssumption DEF Abort, Again, Delivered, RedeliveriesBounded

\* What is in flight or half-way is forgotten only when its handler is done with it.
LEMMA HandsKeep ==
  /\ \A m, out : Handle(m, out) => InHand \subseteq InHand' \cup {m}
  /\ \A t, out : Commit(t, out) => InHand \subseteq InHand' \cup {t.msg}
  /\ \A t : Open(t) => InHand \subseteq InHand' /\ t.msg \in InHand'
  /\ \A t : Abort(t) => InHand \subseteq InHand' /\ t.msg \in InHand'
  /\ \A t : Refuse(t) => InHand \subseteq InHand' /\ t.msg \in InHand'
  BY DEF Handle, Commit, Open, Abort, Refuse, Finish, InHand

\* Nothing comes into the hands of handlers but what they publish.
LEMMA HandsTake ==
  /\ \A m \in msgs : \A out : Handle(m, out) => InHand' \subseteq InHand \cup out
  /\ \A t \in open : \A out : Commit(t, out) => InHand' \subseteq InHand \cup out
  /\ \A t : t.msg \in msgs /\ Open(t) => InHand' \subseteq InHand
  /\ \A t \in open : Abort(t) \/ Refuse(t) => InHand' \subseteq InHand
  BY DEF Handle, Commit, Open, Abort, Refuse, Finish, InHand

\* A handler that is done with a message, and will not get it again, has published.
LEMMA HandsPass ==
  /\ \A m, out : Handle(m, out) => m \in InHand' \/ out \subseteq InHand'
  /\ \A t, out : Commit(t, out) => t.msg \in InHand' \/ out \subseteq InHand'
  BY DEF Handle, Commit, Finish, InHand

\* S is what may become of something.  It is not lost, if who takes one of S leaves one.
LEMMA HandsHold ==
  ASSUME NEW S, S \cap InHand # {}
  PROVE  /\ \A m, out : Handle(m, out) /\ (m \in S => out \cap S # {}) => S \cap InHand' # {}
         /\ \A t, out : Commit(t, out) /\ (t.msg \in S => out \cap S # {}) => S \cap InHand' # {}
         /\ \A t : Open(t) \/ Abort(t) \/ Refuse(t) => S \cap InHand' # {}
<1>1. PICK x \in S : x \in InHand
  OBVIOUS
<1>2. ASSUME NEW m, NEW out, Handle(m, out), m \in S => out \cap S # {}
      PROVE  S \cap InHand' # {}
  <2>1. CASE x \in InHand'
    BY <2>1
  <2>2. CASE x = m
    BY <1>2, <2>2, HandsPass
  <2> QED BY <1>1, <1>2, <2>1, <2>2, HandsKeep
<1>3. ASSUME NEW t, NEW out, Commit(t, out), t.msg \in S => out \cap S # {}
      PROVE  S \cap InHand' # {}
  <2>1. CASE x \in InHand'
    BY <2>1
  <2>2. CASE x = t.msg
    BY <1>3, <2>2, HandsPass
  <2> QED BY <1>1, <1>3, <2>1, <2>2, HandsKeep
<1>4. \A t : Open(t) \/ Abort(t) \/ Refuse(t) => S \cap InHand' # {}
  BY <1>1, HandsKeep
<1> QED BY <1>2, <1>3, <1>4
=============================================================================
