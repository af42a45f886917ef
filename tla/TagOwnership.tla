---------------------------- MODULE TagOwnership ----------------------------
(***************************************************************************)
(* What the leaderboard promises about tags, without saying how: a tag has *)
(* at most one holder by construction, rounds only permute, requests only  *)
(* move the members who asked, and a reset starts over.                    *)
(***************************************************************************)
EXTENDS Naturals

CONSTANTS Members, Tags, Nobody

VARIABLE holder   \* holder[t]: the member holding t, or Nobody

TagsOf(m) == {t \in Tags : holder[t] = m}

Init == holder = [t \in Tags |-> Nobody]

\* Some holders trade their tags among themselves; nobody gains or loses one.
Trade ==
  /\ holder' \in [Tags -> Members \cup {Nobody}]
  /\ \A t \in Tags : holder[t] = Nobody <=> holder'[t] = Nobody
  /\ \A m \in Members : TagsOf(m) # {} <=> TagsOf(m)' # {}

\* The members of S give up their tags and take tags that were free or
\* belonged to members of S; nobody else's tag moves.
Move(S) ==
  /\ holder' \in [Tags -> Members \cup {Nobody}]
  /\ \A t \in Tags : holder'[t] # holder[t] =>
        /\ holder[t] \in S \cup {Nobody}
        /\ holder'[t] \in S \cup {Nobody}
  /\ \A m \in S : TagsOf(m)' # {}

\* A qualifying round hands out the first tags 1..N and clears all others.
Requalify ==
  /\ holder' \in [Tags -> Members \cup {Nobody}]
  /\ \A t \in Tags : holder'[t] # Nobody =>
        \A u \in Tags : u < t => holder'[u] # Nobody

\* A member never holds two tags, whatever the step.
Next ==
  /\ Trade \/ Requalify \/ \E S \in SUBSET Members : Move(S)
  /\ \A t, u \in Tags : holder'[t] = holder'[u] /\ holder'[t] # Nobody => t = u

Spec == Init /\ [][Next]_holder
=============================================================================
