----------------------------- MODULE GuildSetup -----------------------------
(***************************************************************************)
(* The guild and club modules.  Setting up a guild first stores its club   *)
(* and then, by a second message, its configuration; a configuration is    *)
(* deleted softly, keeping what the Discord bot has to clean up.           *)
(***************************************************************************)
EXTENDS Delivery

CONSTANTS
  Guilds,     \* a club is named by its guild: there is at most one
  Ids,        \* of Discord channels and roles
  None,       \* NULL, the empty string
  Scenarios   \* sets of commands, one of which comes from outside

VARIABLES
  commands,   \* the scenario: what comes from outside
  clubs,      \* the clubs table: name by guild
  configs     \* the guild_configs table, by guild

guildTables == <<clubs, configs>>

\* `channel' stands for the five settings a second creation must repeat (three
\* channels, the user role, the emoji), `admin' for the others.
Settings == [channel : Ids \cup {None}, admin : Ids \cup {None}]
NoSettings == [channel |-> None, admin |-> None]
Config == [active : BOOLEAN, deletion : {"none", "pending"}, settings : Settings,
           snapshot : Settings]

Put(f, k, v) == [x \in DOMAIN f \cup {k} |-> IF x = k THEN v ELSE f[x]]

Answer(type, m, settings) == [type |-> type, guild |-> m.guild, settings |-> settings]

GuildInit ==
  /\ commands \in Scenarios
  /\ msgs = commands /\ open = {} /\ redelivered = 0

-----------------------------------------------------------------------------
\* Clubs

HasClub(g) == g \in DOMAIN clubs

\* UpsertClubFromDiscord first looks for the club of the guild.
ReadClub == \E m \in Of("setup") \cup Of("sync") :
  /\ Open([msg |-> m, found |-> HasClub(m.guild)])
  /\ UNCHANGED <<commands, guildTables>>

\* HandleGuildSetup hands the settings on, HandleClubSyncFromDiscord is done.
Forwarded(m) == IF m.type = "sync" THEN {} ELSE
  {[type |-> "create", guild |-> m.guild, settings |-> m.settings]}

UpsertClub(t) == clubs' = Put(clubs, t.msg.guild, t.msg.name)

\* Another handler has inserted the club since: the unique index on the guild
\* refuses this one, and in the failed transaction the second look fails too.
Outrun(t) == ~t.found /\ HasClub(t.msg.guild)

\* Mutant: the refused insertion is acknowledged.
RefuseSilently(t) ==
  /\ open' = open \ {t}
  /\ UNCHANGED <<msgs, redelivered>>
RefuseClub(t) == Refuse(t)

WriteClub == \E t \in OpenFor("setup") \cup OpenFor("sync") :
  /\ \/ ~Outrun(t) /\ UpsertClub(t) /\ Commit(t, Forwarded(t.msg))
     \/ Outrun(t) /\ RefuseClub(t) /\ UNCHANGED clubs
     \/ Abort(t) /\ UNCHANGED clubs
  /\ UNCHANGED <<commands, configs>>

\* GetClub
ClubName(g) == IF HasClub(g) THEN clubs[g] ELSE None

\* HandleClubInfoRequest: an unknown club is answered as well.
AnswerClubInfo == \E m \in Of("club") :
  /\ Handle(m, {[type |-> "clubInfo", guild |-> m.guild, name |-> ClubName(m.guild)]})
  /\ UNCHANGED <<commands, guildTables>>

-----------------------------------------------------------------------------
\* Configurations

Known(g) == g \in DOMAIN configs
Active(g) == Known(g) /\ configs[g].active

\* GuildConfig.Validate
Valid(settings) == settings.channel # None
\* The same settings again, as far as they are compared.
Repeats(settings, existing) == settings.channel = existing.channel

\* HandleCreateGuildConfig, as far as it ends without a write.
AnswerCreation == \E m \in Of("create") :
  /\ \/ /\ ~Valid(m.settings)
        /\ Handle(m, {Answer("creationFailed", m, NoSettings)})
     \/ /\ Valid(m.settings) /\ Active(m.guild)
        /\ Handle(m, {IF Repeats(m.settings, configs[m.guild].settings)
                      THEN Answer("created", m, configs[m.guild].settings)
                      ELSE Answer("creationFailed", m, NoSettings)})
  /\ UNCHANGED <<commands, guildTables>>

\* No active configuration is found ...
ReadConfig == \E m \in Of("create") :
  /\ Valid(m.settings) /\ ~Active(m.guild)
  /\ Open([msg |-> m])
  /\ UNCHANGED <<commands, guildTables>>

\* ... and SaveConfig writes the whole row, whatever it is by then.
SaveConfig(g, settings) == configs' =
  Put(configs, g, [active |-> TRUE, deletion |-> "none", settings |-> settings,
                   snapshot |-> NoSettings])

WriteConfig == \E t \in OpenFor("create") :
  /\ \/ /\ SaveConfig(t.msg.guild, t.msg.settings)
        /\ Commit(t, {Answer("created", t.msg, t.msg.settings)})
     \/ Abort(t) /\ UNCHANGED configs
  /\ UNCHANGED <<commands, clubs>>

\* Only what is given is changed.
Merged(old, new) == [f \in DOMAIN old |-> IF new[f] = None THEN old[f] ELSE new[f]]
UpdateConfig(g, settings) ==
  configs' = [configs EXCEPT ![g].settings = Merged(@, settings)]

\* An update of nothing succeeds, whatever the guild.
UpdateSucceeds(m) == m.settings = NoSettings \/ Active(m.guild)

\* HandleUpdateGuildConfig
AnswerUpdate == \E m \in Of("update") :
  /\ \/ /\ UpdateSucceeds(m)
        /\ Handle(m, {Answer("updated", m, m.settings)})
        /\ IF Active(m.guild) THEN UpdateConfig(m.guild, m.settings) ELSE UNCHANGED configs
     \/ /\ ~UpdateSucceeds(m)
        /\ Handle(m, {Answer("updateFailed", m, NoSettings)})
        /\ UNCHANGED configs
  /\ UNCHANGED <<commands, clubs>>

\* GetConfigIncludeDeleted: the snapshot of the last deletion.
Snapshot(g) == IF Known(g) THEN configs[g].snapshot ELSE NoSettings

\* Mutant: a configuration that is deleted already is deleted again.
DeletableIfKnown(g) == Known(g)
Deletable(g) == Active(g)

\* HandleDeleteGuildConfig, when there is nothing to delete (any more).
AnswerDeletion == \E m \in Of("delete") :
  /\ ~Deletable(m.guild)
  /\ Handle(m, {Answer("deleted", m, Snapshot(m.guild))})
  /\ UNCHANGED <<commands, guildTables>>

\* DeleteConfig reads the row ...
ReadDeletion == \E m \in Of("delete") :
  /\ Deletable(m.guild)
  /\ Open([msg |-> m, settings |-> configs[m.guild].settings])
  /\ UNCHANGED <<commands, guildTables>>

\* ... and keeps what it has read, whatever the row is by then.
DeleteConfig(g, settings) == configs' =
  [configs EXCEPT ![g] = [active |-> FALSE, deletion |-> "pending",
                          settings |-> NoSettings, snapshot |-> settings]]

WriteDeletion == \E t \in OpenFor("delete") :
  /\ \/ /\ DeleteConfig(t.msg.guild, t.settings)
        /\ Commit(t, {Answer("deleted", t.msg, t.settings)})
     \/ Abort(t) /\ UNCHANGED configs
  /\ UNCHANGED <<commands, clubs>>

\* GetGuildConfig
Retrieval(m) == IF Active(m.guild) THEN Answer("retrieved", m, configs[m.guild].settings)
                ELSE Answer("retrievalFailed", m, NoSettings)

\* HandleRetrieveGuildConfig
AnswerRetrieval == \E m \in Of("retrieve") :
  /\ Handle(m, {Retrieval(m)})
  /\ UNCHANGED <<commands, guildTables>>

GuildStep ==
  \/ ReadClub \/ WriteClub \/ AnswerClubInfo
  \/ AnswerCreation \/ ReadConfig \/ WriteConfig
  \/ AnswerUpdate \/ AnswerDeletion \/ ReadDeletion \/ WriteDeletion
  \/ AnswerRetrieval
=============================================================================
