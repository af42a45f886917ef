----------------------------- MODULE RoundImport -----------------------------
(***************************************************************************)
(* A scorecard on its way into a round: upload, parsing, normalization,    *)
(* matching of names to users and the scores written to the participants,  *)
(* beside everything RoundLifecycle does to the same row.                  *)
(***************************************************************************)
EXTENDS RoundLifecycle

CONSTANTS
  Names,          \* names on scorecards, trimmed and in lower case
  ByDisplayName,  \* ByDisplayName[n]: the guild's user of that UDisc name, or Nobody
  ByUsername,     \* the guild's user with that UDisc username
  Globally,       \* any user with that UDisc username
  Cards           \* the rows of a card: sequences of [names, total]

VARIABLES
  groups,    \* groups[r]: the names in the round's groups, with repetitions
  overtaken  \* rounds that got groups while another handler was about to make some

grouping == <<groups, overtaken>>
vars == <<commands, time, table, queue, delivery, grouping>>

Requests == LifecycleRequests
  \cup [type : {"upload"}, round : Rounds, import : Nat, card : Cards, parser : BOOLEAN]
  \cup [type : {"url"}, round : Rounds, import : Nat, card : Cards, parser : BOOLEAN,
       ofUDisc : BOOLEAN]

ASSUME ScenariosAssumption == \A C \in Scenarios : C \subseteq Requests /\ IsFiniteSet(C)
ASSUME CardsAssumption == Cards \subseteq Seq([names : Seq(Names), total : Scores])
ASSUME NamesAssumption ==
  {ByDisplayName, ByUsername, Globally} \subseteq [Names -> Users \cup {Nobody}]

Init ==
  /\ LifecycleInit
  /\ groups = [r \in Rounds |-> <<>>] /\ overtaken = {}

Upload(m, status) == [m EXCEPT !.type = status]
FailImport(m) == [type |-> "importFailed", import |-> m.import]

-----------------------------------------------------------------------------
\* Reads the row for CreateImportJob and ScorecardURLRequested.
ReadForImportJob(m) ==
  IF Found(m.round)
  THEN Open([msg |-> m, seen |-> rows[m.round]])
  ELSE Handle(m, {FailImport(m)})

\* Writes the copy with the import's fields, and asks for the card to be parsed.
WriteImportJob(t) ==
  /\ rows' = [rows EXCEPT ![t.msg.round] = Written(@, [t.seen EXCEPT !.import = "pending"])]
  /\ Commit(t, {Upload(t.msg, "parse")})

\* CreateImportJob, for HandleScorecardUploaded: a file comes with its name.
Uploaded ==
  /\ \/ \E m \in Of("upload") : ReadForImportJob(m) /\ UNCHANGED rows
     \/ \E t \in OpenFor("upload") : WriteImportJob(t)
  /\ UNCHANGED <<commands, minted, time, queue, grouping>>

\* normalizeUDiscExportURL, and its failure forgiven to any URL of UDisc.
IsUDiscURL(m) == m.ofUDisc

\* ScorecardURLRequested, for its handler: no file name is known.
URLRequested ==
  /\ \/ \E m \in Of("url") : ReadForImportJob(m) /\ UNCHANGED rows
     \/ \E t \in OpenFor("url") :
          IF IsUDiscURL(t.msg) THEN WriteImportJob(t)
                           ELSE Commit(t, {FailImport(t.msg)}) /\ UNCHANGED rows
  /\ UNCHANGED <<commands, minted, time, queue, grouping>>

\* Mutant: the failure is not told
SilentFailure(t) == {}
\* What a scorecard's message says when its file cannot be had or read.
ParsingFailure(t) == {FailImport(t.msg)}

\* GetParser knows the file name's extension (no name has none), and Parse finds rows.
Readable(m) == m.parser /\ m.card # <<>>

\* UpdateImportStatus
SetStatus(r, status) == rows' = [rows EXCEPT ![r].import = status]

\* ParseScorecard notes that it parses ...
StartParsing == \E m \in Of("parse") :
  /\ SetStatus(m.round, "parsing")
  /\ Open([msg |-> m])
  /\ UNCHANGED <<commands, minted, time, queue, grouping>>

\* ... and has a card, or has not; the status of a failure is not noted.
FinishParsing == \E t \in OpenFor("parse") :
  /\ \/ /\ Readable(t.msg)
        /\ SetStatus(t.msg.round, "parsed")
        /\ Commit(t, {Upload(t.msg, "parsed")})
     \/ /\ ~Readable(t.msg)
        /\ Commit(t, ParsingFailure(t))
        /\ UNCHANGED rows
  /\ UNCHANGED <<commands, minted, time, queue, grouping>>

HandleParseScorecardRequest == StartParsing \/ FinishParsing

-----------------------------------------------------------------------------
\* The parsers call a card with a row of several names a doubles card.
IsDoubles(card) == \E i \in DOMAIN card : Len(card[i].names) > 1

\* One line for each name of the card: a doubles row becomes a team.
LinesOf(card, i) ==
  [k \in DOMAIN card[i].names |->
     [name |-> card[i].names[k], score |-> card[i].total,
      team |-> IF IsDoubles(card) THEN i ELSE NoTeam]]
Normalized(card) == FlattenSeq([i \in DOMAIN card |-> LinesOf(card, i)])

\* HandleScorecardParsedForNormalization.  The ids and times it makes up are left out:
\* a card normalized again is another message like the first.
NormalizeScorecard == \E m \in Of("parsed") :
  /\ Handle(m, {[type |-> "normalized", round |-> m.round, import |-> m.import,
                 doubles |-> IsDoubles(m.card), lines |-> Normalized(m.card)]})
  /\ UNCHANGED <<commands, table, time, queue, grouping>>

\* Mutant: any user of that username comes before the guild's members
ResolveAnywhere(name) ==
  CASE Globally[name] # Nobody -> Globally[name]
    [] OTHER -> ByDisplayName[name]
\* resolveUserID: the guild's UDisc names, its usernames, all usernames.
ResolveUserID(name) ==
  CASE ByDisplayName[name] # Nobody -> ByDisplayName[name]
    [] ByUsername[name] # Nobody -> ByUsername[name]
    [] OTHER -> Globally[name]

Matched(m) ==
  [i \in DOMAIN m.lines |->
     [user |-> ResolveUserID(m.lines[i].name), score |-> m.lines[i].score,
      team |-> m.lines[i].team, name |-> m.lines[i].name]]

\* Guests stay in the scores of doubles, not of singles.
IfUser(s) == IF s.user = Nobody THEN <<>> ELSE <<s>>
ScoresOf(m) ==
  IF m.doubles THEN Matched(m)
  ELSE FlattenSeq([i \in DOMAIN m.lines |-> IfUser(Matched(m)[i])])

\* Mutant: groups are created whether there are any or not
GroupsAnyway(r) == FALSE
\* RoundHasGroups
HasGroups(r) == groups[r] # <<>>

Ingested(m) ==
  IF ScoresOf(m) = <<>> THEN {FailImport(m)}
  ELSE {[type |-> "completed", round |-> m.round, import |-> m.import, scores |-> ScoresOf(m)]}

\* IngestNormalizedScorecard; for doubles it looks whether the round has groups ...
Ingest == \E m \in Of("normalized") :
  /\ \/ m.doubles /\ ~HasGroups(m.round) /\ Open([msg |-> m])
     \/ (m.doubles => HasGroups(m.round)) /\ Handle(m, Ingested(m))
  /\ UNCHANGED <<commands, table, time, queue, grouping>>

\* ... and creates them, one for each name; nothing has kept another handler from
\* looking meanwhile.
CreateRoundGroups == \E t \in OpenFor("normalized") :
  /\ groups' = [groups EXCEPT ![t.msg.round] =
                  @ \o [i \in DOMAIN t.msg.lines |-> t.msg.lines[i].name]]
  /\ Commit(t, Ingested(t.msg))
  /\ overtaken' = overtaken \cup
       {r \in {t.msg.round} : \E u \in OpenFor("normalized")' : u.msg.round = r}
  /\ UNCHANGED <<commands, table, time, queue>>

HandleScorecardNormalized == Ingest \/ CreateRoundGroups

-----------------------------------------------------------------------------
\* One score of applySinglesScores: guests are skipped, a user on the list is
\* updated, another one is added.
WithScore(list, s) ==
  IF s.user = Nobody THEN list
  ELSE IF s.user \in Listed(list)
  THEN [i \in DOMAIN list |-> IF list[i].user = s.user
                              THEN Entry(s.user, "ACCEPT", s.score, list[i].team) ELSE list[i]]
  ELSE Append(list, Entry(s.user, "ACCEPT", s.score, NoTeam))

\* UpdateRoundsAndParticipants derives the teams from the participants.
TeamsOf(list) == {list[i].team : i \in DOMAIN list} \ {NoTeam}

\* ApplyImportedScores reads the round, which never has teams here, and its list ...
ReadForApply == \E m \in Of("completed") :
  /\ rows[m.round].teams = {}
  /\ Open([msg |-> m, seen |-> rows[m.round].list])
  /\ UNCHANGED <<commands, table, time, queue, grouping>>

\* ... and writes the list back with the scores.
WriteApply == \E t \in OpenFor("completed") :
  /\ LET r == t.msg.round
         list == FoldLeft(WithScore, t.seen, t.msg.scores)
     IN  IF \A i \in DOMAIN t.msg.scores : t.msg.scores[i].user = Nobody
         THEN Commit(t, {FailImport(t.msg)}) /\ UNCHANGED rows
         ELSE /\ rows' = [rows EXCEPT ![r].list = list,
                            ![r].teams = IF TeamsOf(list) = {} THEN @ ELSE TeamsOf(list)]
              /\ Commit(t, {[type |-> "allScores", round |-> r, import |-> t.msg.import]})
  /\ UNCHANGED <<commands, minted, time, queue, grouping>>

HandleImportCompleted == ReadForApply \/ WriteApply

-----------------------------------------------------------------------------
Next ==
  \/ LifecycleNext /\ UNCHANGED grouping
  \/ Uploaded \/ URLRequested \/ HandleParseScorecardRequest \/ NormalizeScorecard
  \/ HandleScorecardNormalized \/ HandleImportCompleted

\* The router, the queue and the clock keep going.
Spec == Init /\ [][Next]_vars /\ WF_vars(Next)

-----------------------------------------------------------------------------
TypeOK ==
  /\ LifecycleTypeOK
  /\ \A r \in Rounds : ToSet(groups[r]) \subseteq Names
  /\ overtaken \subseteq Rounds

Imports == {c \in commands : c.type \in {"upload", "url"}}

\* Nobody is on a participant list twice, though two names of a card may be one
\* user, the card may be applied again and people answer meanwhile.
UsersOnce ==
  \A r \in DOMAIN rows : \A i, j \in DOMAIN rows[r].list :
    rows[r].list[i].user = rows[r].list[j].user => i = j

\* A round's groups are those of one card, however many cards are uploaded and however
\* often they are delivered, unless two handlers looked before either made groups.
\* (IngestNormalizedScorecard, RoundHasGroups)
NamesOn(card) == [i \in DOMAIN Normalized(card) |-> Normalized(card)[i].name]
GroupsOnce ==
  \A r \in Rounds \ overtaken :
    groups[r] = <<>> \/ \E c \in Imports : c.round = r /\ groups[r] = NamesOn(c.card)

\* What is delivered or applied again counts once: users on the list, groups of the round.
ImportsCountOnce == UsersOnce /\ GroupsOnce

\* A score on the list stands on a card beside a name of that user, where the guild's
\* members come before strangers.
ImportedScoresAreOnACard ==
  \A r \in DOMAIN rows : \A i \in DOMAIN rows[r].list :
    LET e == rows[r].list[i]
    IN  e.score # NoScore =>
          \E c \in Imports : \E k \in DOMAIN c.card : \E n \in ToSet(c.card[k].names) :
            c.card[k].total = e.score /\
            (\/ e.user \in {ByDisplayName[n], ByUsername[n]}
             \/ e.user = Globally[n] /\ {ByDisplayName[n], ByUsername[n]} = {Nobody})

\* Through six handlers, the dying ones included, an import is never dropped: it is
\* on its way, or its failure or its scores have been published.
ImportsAreKept ==
  \A c \in Imports : \E m \in InHand :
    /\ m.type \in {"upload", "url", "parse", "parsed", "normalized", "completed",
                   "importFailed", "allScores"}
    /\ m.import = c.import

\* Whoever uploads a card hears how it ended, whatever is wrong with the card.
EveryImportEnds ==
  \A c \in {d \in UNION Scenarios : d.type \in {"upload", "url"}} : c \in commands ~> \E m \in msgs :
    m.type \in {"importFailed", "allScores"} /\ m.import = c.import
=============================================================================
