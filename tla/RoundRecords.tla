---------------------------- MODULE RoundRecords ----------------------------
(***************************************************************************)
(* The rounds table and what the round module's statements make of a row:  *)
(* pure operators for RoundLifecycle and RoundImport.                      *)
(***************************************************************************)
EXTENDS Integers, Sequences, SequencesExt, FiniteSets

CONSTANTS
  Rounds,    \* ids that can be minted
  Users,
  Titles,    \* stands for title, description and location, edited alike
  MaxHour,   \* bound: the last hour of the clock
  Scores,
  NoScore,   \* no score yet
  Nobody,    \* no user: guests, and names nobody answers to
  Same       \* what an edit gives for a field it leaves alone

Hours == 0 .. MaxHour
NoTeam == 0

Responses == {"ACCEPT", "TENTATIVE", "DECLINE"}
States == {"UPCOMING", "IN_PROGRESS", "DELETED"}
ImportStates == {"none", "pending", "parsing", "parsed"}

Entry(user, response, score, team) ==
  [user |-> user, response |-> response, score |-> score, team |-> team]

\* What ValidateRoundCreation fills in.
NewRow(title, start, creator) ==
  [title |-> title, start |-> start, creator |-> creator, state |-> "UPCOMING",
   message |-> FALSE, event |-> FALSE, import |-> "none", list |-> <<>>, teams |-> {}]

Entries == [user : Users \cup {Nobody}, response : Responses,
            score : Scores \cup {NoScore}, team : Nat]
Row == [title : Titles, start : Hours, creator : Users, state : States,
        message : BOOLEAN, event : BOOLEAN, import : ImportStates,
        list : Seq(Entries), teams : SUBSET Nat]

\* Mutant: the copy's state and Discord ids are written as well
WrittenWhole(row, copy) == copy
\* UpdateRound writes the fields of the copy it knows of: neither the state nor
\* the Discord ids nor the participants, and nothing that is empty in the copy.
Written(row, copy) ==
  [row EXCEPT !.title = copy.title, !.start = copy.start,
              !.import = IF copy.import = "none" THEN @ ELSE copy.import]

\* Mutant: fields the edit does not give are taken over as well
EditedBlindly(copy, edit) == [copy EXCEPT !.title = edit.title, !.start = edit.start]
\* UpdateRoundEntity's copy with the fields that the edit provides.
Edited(copy, edit) ==
  [copy EXCEPT !.title = IF edit.title = Same THEN @ ELSE edit.title,
               !.start = IF edit.start = Same THEN @ ELSE edit.start]

\* UpdateEventMessageID, UpdateDiscordEventID, UpdateRoundState and DeleteRound set
\* one column each, whatever the row holds.
WithMessageId(row) == [row EXCEPT !.message = TRUE]
WithEventId(row) == [row EXCEPT !.event = TRUE]
InState(row, state) == [row EXCEPT !.state = state]
Deleted(row) == InState(row, "DELETED")

\* UpdateParticipant, under a lock of the row.
Answered(list, user, response) ==
  IF \E i \in DOMAIN list : list[i].user = user
  THEN [i \in DOMAIN list |-> IF list[i].user = user THEN [list[i] EXCEPT !.response = response]
                                                    ELSE list[i]]
  ELSE Append(list, Entry(user, response, NoScore, NoTeam))

Listed(list) == {list[i].user : i \in DOMAIN list}
\* ProcessRoundReminder's choice among the participants.
Recipients(list) ==
  {e.user : e \in {f \in ToSet(list) : f.response \in {"ACCEPT", "TENTATIVE"}}}
=============================================================================
