---------------------------- MODULE SignInProofs ----------------------------
(***************************************************************************)
(* Clubs, members and sessions, for every set of guilds, users, devices    *)
(* and commands: signing up again and profiles keep names and rights,      *)
(* devices do not end each other's sessions and their tickets connect, no  *)
(* setup, sign-up or deletion is lost.                                     *)
(*                                                                         *)
(* SignInInv is inductive.  What a half-way handler has read stays true    *)
(* of the tables as far as it writes by it, since clubs, users and guild   *)
(* memberships are only added; and a token is in one device's hands: its   *)
(* cookie and the calls it has made with it.  A handler that takes a setup,*)
(* a sign-up or a deletion hands on what becomes of it.                    *)
(***************************************************************************)
EXTENDS SignIn, DeliveryProofs

\* What handlers publish for each other, and what is for the bot only.
Events ==
       [type : {"sync"}, guild : Guilds, name : Names]
  \cup [type : {"tagCheck", "available", "unavailable"}, user : Users, guild : Guilds,
       tag : Int \cup {None}]
  \cup [type : {"profileRequest"}, user : Users, guild : Guilds]
  \cup [type : {"link"}, user : Users, link : Nat]
Message == Requests \cup Events
Answers ==
  {"clubInfo", "created", "creationFailed", "updated", "updateFailed", "deleted", "retrieved",
   "retrievalFailed", "signedUp", "signupFailed", "roleUpdated", "roleUpdateFailed",
   "udiscUpdated", "udiscUpdateFailed", "user", "matched", "unmatched", "linkRefused"}

GoodMessage(m) ==
  /\ m \in Message \/ m.type \in Answers
  /\ m.type = "link" => m.link \in DOMAIN links

\* What a sign-up or a profile has read and writes by.
SignUpRead(t) ==
  /\ t.role \in ClubRole \cup {None}
  /\ t.known \/ t.member => Registered(t.msg.user)
  /\ t.member => InGuild(t.msg.user, t.msg.guild)
  /\ t.club => HasClub(t.msg.guild)
ProfileRead(t) ==
  /\ t.role \in ClubRole \cup {None}
  /\ t.display \in Names \cup {None} /\ t.name \in Names \cup {None}
  /\ t.name = None => t.old = None
  /\ t.msg.guild # None => HasClub(t.msg.guild)
  /\ t.role = None \/ InGuild(t.msg.user, t.msg.guild) \/ Rights(t.role) = "play"

GoodTransaction(t) ==
  /\ t.msg \in Message
  /\ t.msg.type \in {"setup", "sync", "create", "delete", "signup", "available", "profile"}
  /\ t.msg.type = "delete" => t.settings \in Settings
  /\ t.msg.type \in {"signup", "available"} => SignUpRead(t)
  /\ t.msg.type = "profile" => ProfileRead(t)

InFlight ==
  /\ \A m \in msgs : GoodMessage(m)
  /\ \A t \in open : GoodTransaction(t)
  /\ RedeliveriesBounded

ClubsOK == DOMAIN clubs \subseteq Guilds /\ clubs \in [DOMAIN clubs -> Names]
ConfigsOK == DOMAIN configs \subseteq Guilds /\ configs \in [DOMAIN configs -> Config]
UsersOK == DOMAIN users \subseteq Users /\ users \in [DOMAIN users -> UserRow]
RolesOK ==
  /\ DOMAIN guildRoles \subseteq (DOMAIN users) \X Guilds
  /\ guildRoles \in [DOMAIN guildRoles -> GuildRole]
\* Who is in a club and not in its guild came by a profile.
MembersOK ==
  /\ DOMAIN members \subseteq (DOMAIN users) \X (DOMAIN clubs)
  /\ members \in [DOMAIN members -> MemberRow]
  /\ \A k \in DOMAIN members : k \in DOMAIN guildRoles \/ Rights(members[k].role) = "play"
TablesOK == ClubsOK /\ ConfigsOK /\ UsersOK /\ RolesOK /\ MembersOK

Memberships == [member : Users \X Guilds, role : GuildRole]
Stages == {"sent", "memberless", "backfill", "ready"}
Calls == [n : Nat, device : Devices, op : {"login", "ticket", "logout"}, key : Nat,
          at : Stages, legacy : SUBSET Memberships,
          rights : SUBSET (Guilds \X {"view", "play", "edit"})]

\* A call has a link or a token of its device.
CallsOK ==
  /\ calls \subseteq Calls /\ called \in Nat
  /\ \A c \in calls : c.op = "login" => c.key \in DOMAIN links
  /\ \A c \in calls : c.op # "login" =>
       c.key \in DOMAIN tokens /\ \A d \in Devices : devices[d].cookie = c.key => d = c.device
\* No two devices share a token, and that of a session is good.
DevicesOK ==
  /\ devices \in [Devices -> Device]
  /\ \A d \in Devices : devices[d].cookie # None =>
       /\ devices[d].cookie \in DOMAIN tokens
       /\ \A e \in Devices : devices[e].cookie = devices[d].cookie => e = d
       /\ devices[d].ticket # None => devices[d].ticket.token = devices[d].cookie
  /\ DevicesKeepTheirSessions
SessionsOK == links \in Seq(Link) /\ tokens \in Seq(Token) /\ CallsOK /\ DevicesOK

SignInInv == TablesOK /\ InFlight /\ SessionsOK

\* What is to be backfilled are guild memberships of the call's user.  Proved beside
\* SignInInv, as it relates calls to tables.
LegacyOK == \A c \in calls : \A l \in c.legacy :
  c.op = "ticket" /\ l.member \in DOMAIN guildRoles /\ l.member[1] = tokens[c.key].user

-----------------------------------------------------------------------------
\* What a step may do to names and rights.
NamesKept ==
  \A u \in DOMAIN users : users[u].display # None =>
    users'[u].display # None \/ \E t \in OpenFor("profile") : t.msg.user = u /\ t.old = None
RightsStay ==
  \A k \in DOMAIN members :
    Rights(members'[k].role) = Rights(members[k].role) \/ LookedEarly(k[1], k[2])
Kept == SignInInv' /\ NamesKept /\ RightsStay

\* Clubs, users, guild memberships and links are only added.
Grows ==
  /\ DOMAIN clubs \subseteq DOMAIN clubs' /\ DOMAIN users \subseteq DOMAIN users'
  /\ DOMAIN guildRoles \subseteq DOMAIN guildRoles' /\ DOMAIN links \subseteq DOMAIN links'

LEMMA GrowthKeepsGood ==
  ASSUME Grows
  PROVE  /\ \A m : GoodMessage(m) => GoodMessage(m)'
         /\ \A t : GoodTransaction(t) => GoodTransaction(t)'
  BY DEF GoodMessage, GoodTransaction, SignUpRead, ProfileRead, Registered, InGuild, HasClub, Grows

LEMMA FlightStep ==
  ASSUME InFlight, Grows, NEW out, NEW begun,
         \A m \in out : GoodMessage(m)', \A t \in begun : GoodTransaction(t)',
         Delivered(out, begun)
  PROVE  InFlight'
<1>1. \A t \in open : GoodMessage(t.msg)
  BY DEF InFlight, GoodTransaction, GoodMessage
<1>2. \A m \in msgs' : GoodMessage(m)'
  BY <1>1, GrowthKeepsGood DEF InFlight, Delivered
<1>3. \A t \in open' : GoodTransaction(t)'
  BY GrowthKeepsGood DEF InFlight, Delivered
<1> QED BY <1>2, <1>3 DEF InFlight, Delivered

LEMMA HandledWell ==
  ASSUME InFlight, Grows, NEW m \in msgs, NEW out, \A x \in out : GoodMessage(x)', Handle(m, out)
  PROVE  InFlight'
  BY HandleDelivers, FlightStep DEF InFlight

LEMMA CommittedWell ==
  ASSUME InFlight, Grows, NEW t \in open, NEW out, \A x \in out : GoodMessage(x)', Commit(t, out)
  PROVE  InFlight'
  BY CommitDelivers, FlightStep DEF InFlight

LEMMA GivenBack ==
  ASSUME InFlight, Grows, NEW t \in open, Abort(t) \/ Refuse(t)
  PROVE  InFlight'
  BY AbortDelivers, RefuseDelivers, FlightStep DEF InFlight

LEMMA OpenedWell ==
  ASSUME InFlight, Grows, NEW t, GoodTransaction(t), Open(t)
  PROVE  InFlight'
<1>1. Delivered({}, {t})
  BY OpenDelivers DEF InFlight
<1> QED BY <1>1, GrowthKeepsGood, FlightStep

LEMMA SameFlight ==
  ASSUME InFlight, Grows, UNCHANGED delivery
  PROVE  InFlight'
  BY GrowthKeepsGood DEF InFlight, delivery, RedeliveriesBounded

\* Answers are read by nobody here.
LEMMA AnswersAreGood ==
  ASSUME NEW m, m.type \in Answers
  PROVE  GoodMessage(m)'
  BY DEF GoodMessage, Answers

\* What a handler is called with, and what a half-way handler holds.
LEMMA CallFacts ==
  ASSUME InFlight
  PROVE  /\ \A type : \A m \in Of(type) :
              m \in msgs /\ GoodMessage(m) /\ m.type = type /\ (type \notin Answers => m \in Message)
         /\ \A type : \A t \in OpenFor(type) :
              t \in open /\ GoodTransaction(t) /\ t.msg \in Message /\ t.msg.type = type
  BY DEF InFlight, Of, OpenFor, GoodTransaction, GoodMessage

\* What a message of each type carries.
LEMMA MessageFacts ==
  ASSUME NEW m \in Message
  PROVE  /\ m.guild \in Guilds \/ m.type \in {"profile", "link"}
         /\ m.type \in {"setup", "sync"} => m.name \in Names
         /\ m.type \in {"setup", "create", "update"} => m.settings \in Settings
         /\ m.type \in {"signup", "available", "tagCheck", "unavailable", "profile",
                       "profileRequest", "role", "magicLink", "udisc", "link"} => m.user \in Users
         /\ m.type = "signup" => m.udisc \in UDiscNames /\ m.guildName \in Names \cup {None}
                                 /\ m.tag \in Int \cup {None}
         /\ m.type = "udisc" => m.udisc \in UDiscNames
         /\ m.type = "profile" => m.guild \in Guilds \cup {None} /\ m.name \in Names \cup {None}
         /\ m.type = "lookup" => m.users \subseteq Users
         /\ m.type = "link" => m.link \in Nat
  BY DEF Message, Requests, Events

LEMMA MessageShapes ==
  ASSUME NEW m \in Message
  PROVE  /\ m.type = "tagCheck" =>
              m \in [type : {"tagCheck"}, user : Users, guild : Guilds, tag : Int \cup {None}]
  BY DEF Message, Requests, Events
-----------------------------------------------------------------------------
\* Steps that leave tables alone.

LEMMA PutFacts ==
  ASSUME NEW f, NEW k, NEW v
  PROVE  /\ DOMAIN Put(f, k, v) = DOMAIN f \cup {k} /\ Put(f, k, v)[k] = v
         /\ \A x \in DOMAIN f : x # k => Put(f, k, v)[x] = f[x]
  BY DEF Put

LEMMA PutIn ==
  ASSUME NEW S, NEW f, f \in [DOMAIN f -> S], NEW k, NEW v \in S
  PROVE  Put(f, k, v) \in [DOMAIN Put(f, k, v) -> S]
  BY DEF Put

LEMMA SameSessions ==
  ASSUME SessionsOK, UNCHANGED sessions
  PROVE  SessionsOK'
<1>1. UNCHANGED <<links, tokens, devices, calls, called, replayed>>
  BY DEF sessions
<1>2. CallsOK'
  BY <1>1 DEF SessionsOK, CallsOK
<1>3. DevicesOK'
  BY <1>1 DEF SessionsOK, DevicesOK, DevicesKeepTheirSessions, HasSession
<1> QED BY <1>1, <1>2, <1>3 DEF SessionsOK

\* A step of the guild and club modules.
LEMMA GuildStepKeeps ==
  ASSUME SignInInv, UNCHANGED <<userTables, sessions>>, DOMAIN clubs \subseteq DOMAIN clubs',
         ClubsOK', ConfigsOK', Grows => InFlight'
  PROVE  Kept
<1>1. UNCHANGED <<users, guildRoles, members, links>>
  BY DEF userTables, sessions
<1>2. Grows
  BY <1>1 DEF Grows
<1>3. UsersOK' /\ RolesOK'
  BY <1>1 DEF SignInInv, TablesOK, UsersOK, RolesOK
<1>4. MembersOK'
  BY <1>1 DEF SignInInv, TablesOK, MembersOK
<1>5. NamesKept /\ RightsStay
  BY <1>1 DEF NamesKept, RightsStay
<1>6. SessionsOK'
  BY SameSessions DEF SignInInv
<1> QED BY <1>2, <1>3, <1>4, <1>5, <1>6 DEF Kept, SignInInv, TablesOK

LEMMA SameGuildTables ==
  ASSUME TablesOK, UNCHANGED guildTables
  PROVE  ClubsOK' /\ ConfigsOK' /\ DOMAIN clubs \subseteq DOMAIN clubs'
  BY DEF TablesOK, ClubsOK, ConfigsOK, guildTables

\* A step of the user module.
LEMMA MemberStepKeeps ==
  ASSUME SignInInv, UNCHANGED <<guildTables, sessions>>,
         DOMAIN users \subseteq DOMAIN users', DOMAIN guildRoles \subseteq DOMAIN guildRoles',
         UsersOK', RolesOK', MembersOK', NamesKept, RightsStay, Grows => InFlight'
  PROVE  Kept
<1>1. UNCHANGED <<clubs, links>>
  BY DEF guildTables, sessions
<1>2. Grows
  BY <1>1 DEF Grows
<1> QED BY <1>2, SameGuildTables, SameSessions DEF Kept, SignInInv, TablesOK

\* One that only handles a message.
LEMMA HandlingKeeps ==
  ASSUME SignInInv, UNCHANGED <<guildTables, userTables, sessions>>, Grows => InFlight'
  PROVE  Kept
  BY SameGuildTables, GuildStepKeeps DEF SignInInv
-----------------------------------------------------------------------------
\* The guild and club modules

LEMMA NothingIsConfigured == NoSettings \in Settings
  BY DEF NoSettings, Settings

LEMMA ReadClubKeeps ==
  ASSUME SignInInv, ReadClub, UNCHANGED <<userTables, sessions>>
  PROVE  Kept
<1>1. PICK m \in Of("setup") \cup Of("sync") : Open([msg |-> m, found |-> HasClub(m.guild)])
  BY DEF ReadClub
<1>2. m \in Message /\ m.type \in {"setup", "sync"}
  BY <1>1, CallFacts DEF SignInInv, Answers
<1>3. GoodTransaction([msg |-> m, found |-> HasClub(m.guild)])
  BY <1>2 DEF GoodTransaction
<1>4. ASSUME Grows PROVE InFlight'
  BY <1>1, <1>3, <1>4, OpenedWell DEF SignInInv
<1> QED BY <1>4, HandlingKeeps DEF ReadClub

LEMMA WriteClubKeeps ==
  ASSUME SignInInv, WriteClub, UNCHANGED <<userTables, sessions>>
  PROVE  Kept
<1>1. PICK t \in OpenFor("setup") \cup OpenFor("sync") :
        \/ UpsertClub(t) /\ Commit(t, Forwarded(t.msg))
        \/ Refuse(t) /\ UNCHANGED clubs
        \/ Abort(t) /\ UNCHANGED clubs
  BY DEF WriteClub, RefuseClub
<1>2. t \in open /\ t.msg \in Message /\ t.msg.type \in {"setup", "sync"}
  BY <1>1, CallFacts DEF SignInInv
<1>3. t.msg.guild \in Guilds /\ t.msg.name \in Names
      /\ (t.msg.type = "setup" => t.msg.settings \in Settings)
  BY <1>2, MessageFacts
<1>4. UNCHANGED configs
  BY DEF WriteClub
<1>5. DOMAIN clubs \subseteq DOMAIN clubs' /\ ClubsOK' /\ ConfigsOK'
  <2>1. ConfigsOK'
    BY <1>4 DEF SignInInv, TablesOK, ConfigsOK
  <2>2. CASE UpsertClub(t)
    <3>1. clubs' = Put(clubs, t.msg.guild, t.msg.name)
      BY <2>2 DEF UpsertClub
    <3>2. DOMAIN clubs' = DOMAIN clubs \cup {t.msg.guild}
      BY <3>1 DEF Put
    <3>3. clubs' \in [DOMAIN clubs' -> Names]
      BY <1>3, <3>1, PutIn DEF SignInInv, TablesOK, ClubsOK
    <3> QED BY <1>3, <2>1, <3>2, <3>3 DEF SignInInv, TablesOK, ClubsOK
  <2>3. CASE UNCHANGED clubs
    BY <2>1, <2>3 DEF SignInInv, TablesOK, ClubsOK
  <2> QED BY <1>1, <2>2, <2>3
<1>6. \A x \in Forwarded(t.msg) : GoodMessage(x)'
  <2>1. \A x \in Forwarded(t.msg) : x \in Message /\ x.type = "create"
    BY <1>2, <1>3 DEF Forwarded, Message, Requests
  <2> QED BY <2>1 DEF GoodMessage
<1>7. ASSUME Grows PROVE InFlight'
  BY <1>1, <1>2, <1>6, <1>7, CommittedWell, GivenBack DEF SignInInv
<1> QED BY <1>5, <1>7, GuildStepKeeps

LEMMA AnsweredWell ==
  ASSUME SignInInv, NEW m \in msgs, NEW x, x.type \in Answers, Handle(m, {x})
  PROVE  Grows => InFlight'
  BY HandledWell, AnswersAreGood DEF SignInInv

LEMMA AnswerClubInfoKeeps ==
  ASSUME SignInInv, AnswerClubInfo, UNCHANGED <<userTables, sessions>>
  PROVE  Kept
<1>1. PICK m \in Of("club") :
        Handle(m, {[type |-> "clubInfo", guild |-> m.guild, name |-> ClubName(m.guild)]})
  BY DEF AnswerClubInfo
<1>2. PICK x : x = [type |-> "clubInfo", guild |-> m.guild, name |-> ClubName(m.guild)]
  OBVIOUS
<1>3. m \in msgs /\ Handle(m, {x})
  BY <1>1, <1>2, CallFacts DEF SignInInv
<1>4. x.type \in Answers
  BY <1>2 DEF Answers
<1>5. Grows => InFlight'
  BY <1>3, <1>4, AnsweredWell
<1> QED BY <1>5, HandlingKeeps DEF AnswerClubInfo

LEMMA AnswerCreationKeeps ==
  ASSUME SignInInv, AnswerCreation, UNCHANGED <<userTables, sessions>>
  PROVE  Kept
<1>1. PICK m \in Of("create") :
        \/ Handle(m, {Answer("creationFailed", m, NoSettings)})
        \/ Handle(m, {Answer("created", m, configs[m.guild].settings)})
  BY DEF AnswerCreation
<1>2. PICK x : /\ x \in {Answer("creationFailed", m, NoSettings),
                         Answer("created", m, configs[m.guild].settings)}
               /\ Handle(m, {x})
  BY <1>1
<1>3. m \in msgs
  BY CallFacts DEF SignInInv
<1>4. x.type \in Answers
  BY <1>2 DEF Answer, Answers
<1>5. Grows => InFlight'
  BY <1>2, <1>3, <1>4, AnsweredWell
<1> QED BY <1>5, HandlingKeeps DEF AnswerCreation

LEMMA ReadConfigKeeps ==
  ASSUME SignInInv, ReadConfig, UNCHANGED <<userTables, sessions>>
  PROVE  Kept
<1>1. PICK m \in Of("create") : Open([msg |-> m])
  BY DEF ReadConfig
<1>2. m \in Message /\ m.type = "create"
  BY <1>1, CallFacts DEF SignInInv, Answers
<1>3. GoodTransaction([msg |-> m])
  BY <1>2 DEF GoodTransaction
<1>4. Grows => InFlight'
  BY <1>1, <1>3, OpenedWell DEF SignInInv
<1> QED BY <1>4, HandlingKeeps DEF ReadConfig

LEMMA WriteConfigKeeps ==
  ASSUME SignInInv, WriteConfig, UNCHANGED <<userTables, sessions>>
  PROVE  Kept
<1>1. PICK t \in OpenFor("create") :
        \/ /\ SaveConfig(t.msg.guild, t.msg.settings)
           /\ Commit(t, {Answer("created", t.msg, t.msg.settings)})
        \/ Abort(t) /\ UNCHANGED configs
  BY DEF WriteConfig
<1>2. t \in open /\ t.msg.guild \in Guilds /\ t.msg.settings \in Settings
  BY <1>1, CallFacts, MessageFacts DEF SignInInv
<1>3. UNCHANGED clubs
  BY DEF WriteConfig
<1>4. ClubsOK'
  BY <1>3 DEF SignInInv, TablesOK, ClubsOK
<1>5. ConfigsOK'
  <2>1. CASE SaveConfig(t.msg.guild, t.msg.settings)
    <3> DEFINE row == [active |-> TRUE, deletion |-> "none", settings |-> t.msg.settings,
                       snapshot |-> NoSettings]
    <3>1. row \in Config
      BY <1>2, NothingIsConfigured DEF Config
    <3>2. configs' = Put(configs, t.msg.guild, row)
      BY <2>1 DEF SaveConfig
    <3> HIDE DEF row
    <3>3. DOMAIN configs' = DOMAIN configs \cup {t.msg.guild}
      BY <3>2 DEF Put
    <3>4. configs' \in [DOMAIN configs' -> Config]
      BY <3>1, <3>2, PutIn DEF SignInInv, TablesOK, ConfigsOK
    <3> QED BY <1>2, <3>3, <3>4 DEF SignInInv, TablesOK, ConfigsOK
  <2>2. CASE UNCHANGED configs
    BY <2>2 DEF SignInInv, TablesOK, ConfigsOK
  <2> QED BY <1>1, <2>1, <2>2
<1>6. \A x \in {Answer("created", t.msg, t.msg.settings)} : GoodMessage(x)'
  BY AnswersAreGood DEF Answer, Answers
<1>7. Grows => InFlight'
  BY <1>1, <1>2, <1>6, CommittedWell, GivenBack DEF SignInInv
<1> QED BY <1>3, <1>4, <1>5, <1>7, GuildStepKeeps
LEMMA AnsweringKeeps ==
  ASSUME SignInInv, NEW m \in msgs, \E x : x.type \in Answers /\ Handle(m, {x}),
         UNCHANGED <<guildTables, userTables, sessions>>
  PROVE  Kept
  BY AnsweredWell, HandlingKeeps

LEMMA MergedWell ==
  ASSUME NEW old \in Settings, NEW new \in Settings
  PROVE  Merged(old, new) \in Settings
<1>1. DOMAIN old = {"channel", "admin"}
  BY DEF Settings
<1>2. \A f \in {"channel", "admin"} : old[f] \in Ids \cup {None} /\ new[f] \in Ids \cup {None}
  BY DEF Settings
<1>3. Merged(old, new) = [channel |-> Merged(old, new).channel, admin |-> Merged(old, new).admin]
  BY <1>1 DEF Merged
<1>4. Merged(old, new).channel \in Ids \cup {None} /\ Merged(old, new).admin \in Ids \cup {None}
  BY <1>1, <1>2 DEF Merged
<1> QED BY <1>3, <1>4 DEF Settings

LEMMA AnswerUpdateKeeps ==
  ASSUME SignInInv, AnswerUpdate, UNCHANGED <<userTables, sessions>>
  PROVE  Kept
<1>1. PICK m \in Of("update") :
        \/ /\ Handle(m, {Answer("updated", m, m.settings)})
           /\ IF Active(m.guild) THEN UpdateConfig(m.guild, m.settings) ELSE UNCHANGED configs
        \/ /\ Handle(m, {Answer("updateFailed", m, NoSettings)})
           /\ UNCHANGED configs
  BY DEF AnswerUpdate
<1>2. PICK x : /\ x \in {Answer("updated", m, m.settings), Answer("updateFailed", m, NoSettings)}
               /\ Handle(m, {x})
  BY <1>1
<1>3. m \in msgs /\ m \in Message /\ m.type = "update"
  BY <1>1, CallFacts DEF SignInInv, Answers
<1>4. x.type \in Answers
  BY <1>2 DEF Answer, Answers
<1>5. Grows => InFlight'
  BY <1>2, <1>3, <1>4, AnsweredWell
<1>6. UNCHANGED clubs
  BY DEF AnswerUpdate
<1>7. ClubsOK'
  BY <1>6 DEF SignInInv, TablesOK, ClubsOK
<1>8. ConfigsOK'
  <2>1. CASE UNCHANGED configs
    BY <2>1 DEF SignInInv, TablesOK, ConfigsOK
  <2>2. CASE Active(m.guild) /\ UpdateConfig(m.guild, m.settings)
    <3>1. m.guild \in DOMAIN configs
      BY <2>2 DEF Active, Known
    <3>2. configs \in [DOMAIN configs -> Config] /\ DOMAIN configs \subseteq Guilds
      BY DEF SignInInv, TablesOK, ConfigsOK
    <3>3. PICK new : new = Merged(configs[m.guild].settings, m.settings)
      OBVIOUS
    <3>4. configs[m.guild] \in Config
      BY <3>1, <3>2
    <3>5. new \in Settings
      BY <1>3, <3>3, <3>4, MergedWell, MessageFacts DEF Config
    <3>6. configs' = [configs EXCEPT ![m.guild].settings = new]
      BY <2>2, <3>3 DEF UpdateConfig
    <3>7. [configs[m.guild] EXCEPT !.settings = new] \in Config
      BY <3>4, <3>5 DEF Config
    <3> QED BY <3>1, <3>2, <3>6, <3>7 DEF ConfigsOK
  <2> QED BY <1>1, <2>1, <2>2
<1> QED BY <1>5, <1>6, <1>7, <1>8, GuildStepKeeps

LEMMA AnswerDeletionKeeps ==
  ASSUME SignInInv, AnswerDeletion, UNCHANGED <<userTables, sessions>>
  PROVE  Kept
<1>1. PICK m \in Of("delete") : Handle(m, {Answer("deleted", m, Snapshot(m.guild))})
  BY DEF AnswerDeletion
<1>2. PICK x : x = Answer("deleted", m, Snapshot(m.guild))
  OBVIOUS
<1>3. m \in msgs /\ Handle(m, {x})
  BY <1>1, <1>2, CallFacts DEF SignInInv
<1>4. x.type \in Answers
  BY <1>2 DEF Answer, Answers
<1> QED BY <1>3, <1>4, AnsweringKeeps DEF AnswerDeletion

LEMMA AnswerRetrievalKeeps ==
  ASSUME SignInInv, AnswerRetrieval, UNCHANGED <<userTables, sessions>>
  PROVE  Kept
<1>1. PICK m \in Of("retrieve") : Handle(m, {Retrieval(m)})
  BY DEF AnswerRetrieval
<1>2. PICK x : x = Retrieval(m)
  OBVIOUS
<1>3. m \in msgs /\ Handle(m, {x})
  BY <1>1, <1>2, CallFacts DEF SignInInv
<1>4. x.type \in Answers
  BY <1>2 DEF Retrieval, Answer, Answers
<1> QED BY <1>3, <1>4, AnsweringKeeps DEF AnswerRetrieval

LEMMA ReadDeletionKeeps ==
  ASSUME SignInInv, ReadDeletion, UNCHANGED <<userTables, sessions>>
  PROVE  Kept
<1>1. PICK m \in Of("delete") :
        Deletable(m.guild) /\ Open([msg |-> m, settings |-> configs[m.guild].settings])
  BY DEF ReadDeletion
<1>2. m \in Message /\ m.type = "delete"
  BY <1>1, CallFacts DEF SignInInv, Answers
<1>3. configs[m.guild].settings \in Settings
  BY <1>1 DEF Deletable, Active, Known, SignInInv, TablesOK, ConfigsOK, Config
<1>4. PICK t : t = [msg |-> m, settings |-> configs[m.guild].settings]
  OBVIOUS
<1>5. GoodTransaction(t)
  BY <1>2, <1>3, <1>4 DEF GoodTransaction
<1>6. Grows => InFlight'
  BY <1>1, <1>4, <1>5, OpenedWell DEF SignInInv
<1> QED BY <1>6, HandlingKeeps DEF ReadDeletion

LEMMA WriteDeletionKeeps ==
  ASSUME SignInInv, WriteDeletion, UNCHANGED <<userTables, sessions>>
  PROVE  Kept
<1>1. PICK t \in OpenFor("delete") :
        \/ /\ DeleteConfig(t.msg.guild, t.settings)
           /\ Commit(t, {Answer("deleted", t.msg, t.settings)})
        \/ Abort(t) /\ UNCHANGED configs
  BY DEF WriteDeletion
<1>2. t \in open /\ t.settings \in Settings
  BY <1>1, CallFacts DEF SignInInv, GoodTransaction
<1>3. UNCHANGED clubs
  BY DEF WriteDeletion
<1>4. ClubsOK'
  BY <1>3 DEF SignInInv, TablesOK, ClubsOK
<1>5. ConfigsOK'
  <2>1. CASE DeleteConfig(t.msg.guild, t.settings)
    <3>1. PICK row : row = [active |-> FALSE, deletion |-> "pending", settings |-> NoSettings,
                            snapshot |-> t.settings]
      OBVIOUS
    <3>2. row \in Config
      BY <1>2, <3>1, NothingIsConfigured DEF Config
    <3>3. configs' = [configs EXCEPT ![t.msg.guild] = row]
      BY <2>1, <3>1 DEF DeleteConfig
    <3> QED BY <3>2, <3>3 DEF SignInInv, TablesOK, ConfigsOK
  <2>2. CASE UNCHANGED configs
    BY <2>2 DEF SignInInv, TablesOK, ConfigsOK
  <2> QED BY <1>1, <2>1, <2>2
<1>6. \A x \in {Answer("deleted", t.msg, t.settings)} : GoodMessage(x)'
  BY AnswersAreGood DEF Answer, Answers
<1>7. Grows => InFlight'
  BY <1>1, <1>2, <1>6, CommittedWell, GivenBack DEF SignInInv
<1> QED BY <1>3, <1>4, <1>5, <1>7, GuildStepKeeps

LEMMA GuildStepsKeep ==
  ASSUME SignInInv, GuildStep, UNCHANGED <<userTables, sessions>>
  PROVE  Kept
  BY ReadClubKeeps, WriteClubKeeps, AnswerClubInfoKeeps, AnswerCreationKeeps, ReadConfigKeeps,
     WriteConfigKeeps, AnswerUpdateKeeps, AnswerDeletionKeeps, ReadDeletionKeeps,
     WriteDeletionKeeps, AnswerRetrievalKeeps DEF GuildStep
-----------------------------------------------------------------------------
\* The user module: what only hands messages on.

LEMMA EventsAreGood ==
  ASSUME NEW m \in Message, m.type # "link"
  PROVE  GoodMessage(m)'
  BY DEF GoodMessage

LEMMA PassingOnKeeps ==
  ASSUME SignInInv, NEW m \in msgs, NEW out,
         \A x \in out : x.type \in Answers \/ (x \in Message /\ x.type # "link"),
         Handle(m, out), UNCHANGED <<guildTables, userTables, sessions>>
  PROVE  Kept
<1>1. \A x \in out : GoodMessage(x)'
  BY AnswersAreGood, EventsAreGood
<1> QED BY <1>1, HandledWell, HandlingKeeps DEF SignInInv

LEMMA SyncsAreEvents ==
  ASSUME NEW m \in Message
  PROVE  \A x \in SyncOf(m) : x \in Message /\ x.type = "sync"
<1>1. \A x \in SyncOf(m) : m.type = "signup" /\ m.guildName # None
                           /\ x = [type |-> "sync", guild |-> m.guild, name |-> m.guildName]
  BY DEF SyncOf
<1>2. m.type = "signup" => m.guild \in Guilds /\ m.guildName \in Names \cup {None}
  BY MessageFacts
<1> QED BY <1>1, <1>2 DEF Message, Events

LEMMA AskForTagKeeps ==
  ASSUME SignInInv, AskForTag, UNCHANGED sessions
  PROVE  Kept
<1>1. PICK m \in Of("signup") :
        Handle(m, {[type |-> "tagCheck", user |-> m.user, guild |-> m.guild, tag |-> m.tag]}
                    \cup SyncOf(m))
  BY DEF AskForTag
<1>2. m \in msgs /\ m \in Message /\ m.type = "signup"
  BY <1>1, CallFacts DEF SignInInv, Answers
<1>3. m.user \in Users /\ m.guild \in Guilds /\ m.tag \in Int \cup {None}
  BY <1>2, MessageFacts
<1>4. PICK check : check = [type |-> "tagCheck", user |-> m.user, guild |-> m.guild, tag |-> m.tag]
  OBVIOUS
<1>5. check \in Message /\ check.type # "link"
  BY <1>3, <1>4 DEF Message, Events
<1>6. PICK out : out = {check} \cup SyncOf(m)
  OBVIOUS
<1>7. \A x \in out : x \in Message /\ x.type # "link"
  BY <1>2, <1>5, <1>6, SyncsAreEvents
<1> QED BY <1>1, <1>2, <1>4, <1>6, <1>7, PassingOnKeeps DEF AskForTag

LEMMA CheckTagKeeps ==
  ASSUME SignInInv, CheckTag, UNCHANGED sessions
  PROVE  Kept
<1>1. PICK m \in Of("tagCheck"), type \in {"available", "unavailable"} :
        Handle(m, {[m EXCEPT !.type = type]})
  <2>1. PICK m \in Of("tagCheck") :
          Handle(m, {[m EXCEPT !.type = IF TagIsFree(m.tag, m.user) THEN "available"
                                        ELSE "unavailable"]})
    BY DEF CheckTag
  <2> QED BY <2>1
<1>2. m \in msgs /\ m \in Message /\ m.type = "tagCheck"
  BY <1>1, CallFacts DEF SignInInv, Answers
<1>3. PICK x : x = [m EXCEPT !.type = type]
  OBVIOUS
<1>4. m \in [type : {"tagCheck"}, user : Users, guild : Guilds, tag : Int \cup {None}]
  BY <1>2, MessageShapes
<1>5. x \in [type : {"tagCheck", "available", "unavailable"}, user : Users, guild : Guilds,
             tag : Int \cup {None}]
      /\ x.type = type
  BY <1>1, <1>3, <1>4
<1>6. x \in Message /\ x.type # "link"
  BY <1>1, <1>5 DEF Message, Events
<1> QED BY <1>1, <1>2, <1>3, <1>6, PassingOnKeeps DEF CheckTag

LEMMA ReplyType == \A type, m : Reply(type, m).type = type
  BY DEF Reply

LEMMA RefuseTagKeeps ==
  ASSUME SignInInv, RefuseTag, UNCHANGED sessions
  PROVE  Kept
<1>1. PICK m \in Of("unavailable") : Handle(m, {Reply("signupFailed", m)})
  BY DEF RefuseTag
<1>2. PICK x : x = Reply("signupFailed", m)
  OBVIOUS
<1>3. m \in msgs /\ x.type \in Answers
  BY <1>1, <1>2, ReplyType, CallFacts DEF SignInInv, Answers
<1> QED BY <1>1, <1>2, <1>3, AnsweringKeeps DEF RefuseTag

LEMMA MissClubKeeps ==
  ASSUME SignInInv, MissClub, UNCHANGED sessions
  PROVE  Kept
  BY CallFacts, PassingOnKeeps DEF MissClub, SignInInv

LEMMA LookupProfilesKeeps ==
  ASSUME SignInInv, LookupProfiles, UNCHANGED sessions
  PROVE  Kept
<1>1. PICK m \in Of("lookup") : \E asked \in SUBSET m.users :
        Handle(m, {[type |-> "profileRequest", user |-> u, guild |-> m.guild] : u \in asked})
  <2>1. PICK m \in Of("lookup") : \E stale \in SUBSET {u \in m.users : Registered(u)} :
       Handle(m, {[type |-> "profileRequest", user |-> u, guild |-> m.guild] :
                    u \in {v \in m.users : NeedsSync(v)} \cup stale})
    BY DEF LookupProfiles
  <2>2. PICK stale \in SUBSET {u \in m.users : Registered(u)} :
       Handle(m, {[type |-> "profileRequest", user |-> u, guild |-> m.guild] :
                    u \in {v \in m.users : NeedsSync(v)} \cup stale})
    BY <2>1
  <2>3. PICK asked : asked = {v \in m.users : NeedsSync(v)} \cup stale
    OBVIOUS
  <2>4. asked \in SUBSET m.users
    BY <2>3
  <2>5. Handle(m, {[type |-> "profileRequest", user |-> u, guild |-> m.guild] : u \in asked})
    BY <2>2, <2>3
  <2> QED BY <2>4, <2>5
<1>2. PICK asked \in SUBSET m.users :
        Handle(m, {[type |-> "profileRequest", user |-> u, guild |-> m.guild] : u \in asked})
  BY <1>1
<1>3. m \in msgs /\ m \in Message /\ m.type = "lookup"
  BY <1>1, CallFacts DEF SignInInv, Answers
<1>4. m.guild \in Guilds /\ asked \subseteq Users
  BY <1>3, MessageFacts
<1>5. PICK out : out = {[type |-> "profileRequest", user |-> u, guild |-> m.guild] : u \in asked}
  OBVIOUS
<1>6. \A x \in out : x \in Message /\ x.type # "link"
  BY <1>4, <1>5 DEF Message, Events
<1> QED BY <1>2, <1>3, <1>5, <1>6, PassingOnKeeps DEF LookupProfiles

LEMMA SendProfileKeeps ==
  ASSUME SignInInv, SendProfile, UNCHANGED sessions
  PROVE  Kept
<1>1. PICK m \in Of("profileRequest"), name \in Names :
        Handle(m, {[type |-> "profile", user |-> m.user, guild |-> m.guild, name |-> name]})
  BY DEF SendProfile
<1>2. m \in msgs /\ m \in Message /\ m.type = "profileRequest"
  BY <1>1, CallFacts DEF SignInInv, Answers
<1>3. m.user \in Users /\ m.guild \in Guilds
  BY <1>2, MessageFacts
<1>4. PICK x : x = [type |-> "profile", user |-> m.user, guild |-> m.guild, name |-> name]
  OBVIOUS
<1>5. x \in Message /\ x.type # "link"
  BY <1>3, <1>4 DEF Message, Requests
<1> QED BY <1>1, <1>2, <1>4, <1>5, PassingOnKeeps DEF SendProfile

LEMMA AnswerUserKeeps ==
  ASSUME SignInInv, AnswerUser, UNCHANGED sessions
  PROVE  Kept
<1>1. PICK m \in Of("getUser") \cup Of("getRole") : Handle(m, {UserData(m)})
  BY DEF AnswerUser
<1>2. m \in msgs
  BY <1>1, CallFacts DEF SignInInv
<1>3. PICK x : x = UserData(m)
  OBVIOUS
<1>4. x.type \in Answers
  BY <1>3 DEF UserData, Answers
<1> QED BY <1>1, <1>2, <1>3, <1>4, AnsweringKeeps DEF AnswerUser

LEMMA MatchScorecardKeeps ==
  ASSUME SignInInv, MatchScorecard, UNCHANGED sessions
  PROVE  Kept
<1> DEFINE Found(m) == {n \in m.names : Candidates(m.guild, n) # {}}
<1>1. PICK m \in Of("scorecard") : \E match \in [Found(m) -> Users] :
        Handle(m, {[type |-> "matched", guild |-> m.guild, match |-> match] : n \in Found(m)}
                    \cup {[type |-> "unmatched", guild |-> m.guild, names |-> m.names \ Found(m)] :
                            n \in m.names \ Found(m)})
  BY DEF MatchScorecard
<1> HIDE DEF Found
<1>2. PICK found, match :
        Handle(m, {[type |-> "matched", guild |-> m.guild, match |-> match] : n \in found}
                    \cup {[type |-> "unmatched", guild |-> m.guild, names |-> m.names \ found] :
                            n \in m.names \ found})
  BY <1>1
<1>3. PICK out : out = {[type |-> "matched", guild |-> m.guild, match |-> match] : n \in found}
                    \cup {[type |-> "unmatched", guild |-> m.guild, names |-> m.names \ found] :
                            n \in m.names \ found}
  OBVIOUS
<1>4. \A x \in out : x.type \in Answers
  BY <1>3 DEF Answers
<1>5. m \in msgs
  BY <1>1, CallFacts DEF SignInInv
<1> QED BY <1>2, <1>3, <1>4, <1>5, PassingOnKeeps DEF MatchScorecard
-----------------------------------------------------------------------------
\* The user module: what reads and writes rows.

LEMMA RowFacts ==
  /\ DOMAIN NewUser = {"udiscUsername", "udiscName", "display"}
  /\ \A row \in UserRow : /\ DOMAIN row = {"udiscUsername", "udiscName", "display"}
                          /\ \A f \in DOMAIN NewUser : row[f] \in Names \cup {None}
  /\ \A udisc \in UDiscNames : /\ DOMAIN udisc = {"udiscUsername", "udiscName"}
                               /\ \A f \in DOMAIN udisc : udisc[f] \in Names \cup {None}
  BY DEF NewUser, UserRow, UDiscNames

LEMMA TableFacts ==
  ASSUME TablesOK, NEW u, NEW g
  PROVE  /\ RoleOf(u, g) \in ClubRole \cup {None} /\ DisplayOf(u) \in Names \cup {None}
         /\ InGuild(u, g) => Registered(u)
         /\ InClub(u, g) => /\ RoleOf(u, g) = members[<<u, g>>].role /\ RoleOf(u, g) # None
                            /\ members[<<u, g>>] \in MemberRow /\ HasClub(g)
                            /\ InGuild(u, g) \/ Rights(RoleOf(u, g)) = "play"
<1>1. InClub(u, g) => members[<<u, g>>] \in MemberRow
  BY DEF TablesOK, MembersOK, InClub
<1>2. InClub(u, g) => RoleOf(u, g) = members[<<u, g>>].role /\ RoleOf(u, g) \in ClubRole
  BY <1>1 DEF RoleOf, MemberRow
<1>3. Registered(u) => users[u] \in UserRow
  BY DEF TablesOK, UsersOK, Registered
<1>4. DisplayOf(u) \in Names \cup {None}
  BY <1>3, RowFacts DEF DisplayOf
<1>5. InClub(u, g) => InGuild(u, g) \/ Rights(RoleOf(u, g)) = "play"
  BY <1>2 DEF TablesOK, MembersOK, InClub, InGuild
<1>6. InClub(u, g) => HasClub(g)
  BY DEF TablesOK, MembersOK, InClub, HasClub
<1>7. InGuild(u, g) => Registered(u)
  BY DEF TablesOK, RolesOK, InGuild, Registered
<1>8. ~InClub(u, g) => RoleOf(u, g) = None
  BY DEF RoleOf
<1> QED BY <1>1, <1>2, <1>4, <1>5, <1>6, <1>7, <1>8, NoneAssumption

LEMMA UDiscWritten ==
  ASSUME TablesOK, NEW u \in DOMAIN users, NEW udisc \in UDiscNames, UpdateGlobalUser(u, udisc)
  PROVE  UsersOK' /\ DOMAIN users' = DOMAIN users /\ NamesKept
<1>1. users[u] \in UserRow
  BY DEF TablesOK, UsersOK
<1>2. WithUDisc(users[u], udisc) \in UserRow
      /\ WithUDisc(users[u], udisc).display = users[u].display
  BY <1>1, RowFacts DEF WithUDisc, UserRow
<1>3. PICK row : row = WithUDisc(users[u], udisc)
  OBVIOUS
<1>4. users' = [users EXCEPT ![u] = row]
  BY <1>3 DEF UpdateGlobalUser
<1> QED BY <1>2, <1>3, <1>4 DEF TablesOK, UsersOK, NamesKept

LEMMA UserSaved ==
  ASSUME TablesOK, NEW u \in Users, NEW udisc \in UDiscNames, SaveGlobalUser(u, udisc)
  PROVE  UsersOK' /\ DOMAIN users' = DOMAIN users \cup {u} /\ NamesKept
<1>1. PICK row : row = [f \in DOMAIN NewUser |-> IF f \in DOMAIN udisc THEN udisc[f]
                                                 ELSE DisplayOf(u)]
  OBVIOUS
<1>2. row \in UserRow /\ row.display = DisplayOf(u)
  BY <1>1, RowFacts, TableFacts DEF UserRow
<1>3. users' = Put(users, u, row)
  BY <1>1 DEF SaveGlobalUser
<1>4. DOMAIN users' = DOMAIN users \cup {u}
  BY <1>3 DEF Put
<1>5. users' \in [DOMAIN users' -> UserRow]
  BY <1>2, <1>3, PutIn DEF TablesOK, UsersOK
<1>6. \A v \in DOMAIN users : users'[v].display = users[v].display
  BY <1>2, <1>3 DEF Put, DisplayOf, Registered
<1> QED BY <1>4, <1>5, <1>6 DEF TablesOK, UsersOK, NamesKept

\* Writing a membership keeps what it allows, or its writer had looked early.
LEMMA MemberWritten ==
  ASSUME TablesOK, NEW u \in DOMAIN users', NEW g, HasClub(g), NEW role \in ClubRole,
         NEW display \in Names \cup {None}, NEW synced \in BOOLEAN,
         UpsertMember(u, g, role, display, synced), UNCHANGED clubs,
         DOMAIN users \subseteq DOMAIN users', DOMAIN guildRoles \subseteq DOMAIN guildRoles',
         <<u, g>> \in DOMAIN guildRoles' \/ Rights(role) = "play",
         InClub(u, g) => Rights(role) = Rights(RoleOf(u, g)) \/ LookedEarly(u, g)
  PROVE  MembersOK' /\ RightsStay
<1>1. PICK row : row = [role |-> role, display |-> display, synced |-> synced]
  OBVIOUS
<1>2. row \in MemberRow /\ row.role = role
  BY <1>1 DEF MemberRow
<1>3. members' = Put(members, <<u, g>>, row)
  BY <1>1 DEF UpsertMember
<1>4. DOMAIN members' = DOMAIN members \cup {<<u, g>>} /\ members'[<<u, g>>] = row
      /\ \A k \in DOMAIN members : k # <<u, g>> => members'[k] = members[k]
  BY <1>3 DEF Put
<1>5. members' \in [DOMAIN members' -> MemberRow]
  BY <1>2, <1>3, PutIn DEF TablesOK, MembersOK
<1>6. DOMAIN members' \subseteq (DOMAIN users') \X (DOMAIN clubs')
  BY <1>4 DEF TablesOK, MembersOK, HasClub
<1>7. \A k \in DOMAIN members' : k \in DOMAIN guildRoles' \/ Rights(members'[k].role) = "play"
  BY <1>2, <1>4 DEF TablesOK, MembersOK
<1>8. RightsStay
  <2> SUFFICES ASSUME NEW k \in DOMAIN members
               PROVE  Rights(members'[k].role) = Rights(members[k].role) \/ LookedEarly(k[1], k[2])
    BY DEF RightsStay
  <2>1. CASE k # <<u, g>>
    BY <1>4, <2>1
  <2>2. CASE k = <<u, g>>
    BY <1>2, <1>4, <2>2, TableFacts DEF InClub
  <2> QED BY <2>1, <2>2
<1> QED BY <1>5, <1>6, <1>7, <1>8 DEF MembersOK
LEMMA SameMembers ==
  ASSUME TablesOK, UNCHANGED <<clubs, members>>,
         DOMAIN users \subseteq DOMAIN users', DOMAIN guildRoles \subseteq DOMAIN guildRoles'
  PROVE  MembersOK' /\ RightsStay
  BY DEF TablesOK, MembersOK, RightsStay

LEMMA SameRoles ==
  ASSUME TablesOK, UNCHANGED guildRoles, DOMAIN users \subseteq DOMAIN users'
  PROVE  RolesOK'
  BY DEF TablesOK, RolesOK

LEMMA SameUsers ==
  ASSUME TablesOK, UNCHANGED users
  PROVE  UsersOK' /\ NamesKept
  BY DEF TablesOK, UsersOK, NamesKept

LEMMA ReadUserKeeps ==
  ASSUME SignInInv, ReadUser, UNCHANGED sessions
  PROVE  Kept
<1>1. PICK m \in Creations :
        Open([msg |-> m, known |-> Registered(m.user), member |-> InGuild(m.user, m.guild),
              club |-> HasClub(m.guild), role |-> RoleOf(m.user, m.guild)])
  BY DEF ReadUser
<1>2. m \in Message /\ m.type \in {"signup", "available"}
  BY <1>1, CallFacts DEF SignInInv, Creations, Answers
<1>3. PICK t : t = [msg |-> m, known |-> Registered(m.user), member |-> InGuild(m.user, m.guild),
                    club |-> HasClub(m.guild), role |-> RoleOf(m.user, m.guild)]
  OBVIOUS
<1>4. /\ t.msg = m /\ t.known = Registered(m.user) /\ t.member = InGuild(m.user, m.guild)
      /\ t.club = HasClub(m.guild) /\ t.role = RoleOf(m.user, m.guild)
  BY <1>3, Zenon
<1>5. SignUpRead(t)
  BY <1>4, TableFacts DEF SignUpRead, SignInInv
<1>6. GoodTransaction(t)
  BY <1>2, <1>4, <1>5 DEF GoodTransaction
<1>7. Grows => InFlight'
  BY <1>1, <1>3, <1>6, OpenedWell DEF SignInInv
<1> QED BY <1>7, HandlingKeeps DEF ReadUser

LEMMA SignUpWrites ==
  ASSUME SignInInv, NEW t \in OpenFor("signup") \cup OpenFor("available")
  PROVE  /\ t \in open /\ t.msg \in Message /\ SignUpRead(t)
         /\ t.msg.user \in Users /\ t.msg.guild \in Guilds /\ UDiscOf(t.msg) \in UDiscNames
         /\ MemberRole(t) \in ClubRole /\ (t.role # None => MemberRole(t) = t.role)
         /\ t.role # RoleOf(t.msg.user, t.msg.guild) => LookedEarly(t.msg.user, t.msg.guild)
         /\ \A x \in SignedUp(t) : GoodMessage(x)'
<1>1. t \in open /\ t.msg \in Message /\ t.msg.type \in {"signup", "available"} /\ SignUpRead(t)
  BY CallFacts DEF SignInInv, GoodTransaction
<1>2. t.msg.user \in Users /\ t.msg.guild \in Guilds
      /\ (t.msg.type = "signup" => t.msg.udisc \in UDiscNames)
  BY <1>1, MessageFacts
<1>3. UDiscOf(t.msg) \in UDiscNames
  BY <1>2 DEF UDiscOf, UDiscNames
<1>4. MemberRole(t) \in ClubRole /\ (t.role # None => MemberRole(t) = t.role)
  BY <1>1 DEF SignUpRead, MemberRole, ClubRole
<1>5. t.role # RoleOf(t.msg.user, t.msg.guild) => LookedEarly(t.msg.user, t.msg.guild)
  BY DEF LookedEarly
<1>6. PICK reply : reply = Reply("signedUp", t.msg)
  OBVIOUS
<1>7. reply.type \in Answers
  BY <1>6, ReplyType DEF Answers
<1>8. \A x \in SyncOf(t.msg) : GoodMessage(x)'
  BY <1>1, SyncsAreEvents, EventsAreGood
<1>9. \A x \in SignedUp(t) : GoodMessage(x)'
  BY <1>6, <1>7, <1>8, AnswersAreGood DEF SignedUp
<1> QED BY <1>1, <1>2, <1>3, <1>4, <1>5, <1>9

LEMMA ReturnMemberKeeps ==
  ASSUME SignInInv, NEW t \in OpenFor("signup") \cup OpenFor("available"),
         t.member, ReturnMember(t), UNCHANGED guildTables
  PROVE  /\ UsersOK' /\ RolesOK' /\ MembersOK' /\ NamesKept /\ RightsStay
         /\ DOMAIN users \subseteq DOMAIN users' /\ DOMAIN guildRoles \subseteq DOMAIN guildRoles'
<1> DEFINE u == t.msg.user  g == t.msg.guild
<1>1. TablesOK /\ UNCHANGED clubs /\ UNCHANGED guildRoles
  BY DEF SignInInv, guildTables, ReturnMember
<1>2. u \in DOMAIN users /\ InGuild(u, g) /\ (t.club => HasClub(g))
  BY SignUpWrites DEF SignUpRead, Registered
<1>3. UpdateGlobalUser(u, UDiscOf(t.msg))
  BY DEF ReturnMember
<1>4. UsersOK' /\ DOMAIN users' = DOMAIN users /\ NamesKept
  BY <1>1, <1>2, <1>3, SignUpWrites, UDiscWritten
<1>5. RolesOK'
  BY <1>1, <1>4, SameRoles
<1>6. MembersOK' /\ RightsStay
  <2>1. CASE ~t.club
    BY <1>1, <1>4, <2>1, SameMembers DEF ReturnMember
  <2>2. CASE t.club
    <3>1. UpsertMember(u, g, MemberRole(t), None, FALSE)
      BY <2>2 DEF ReturnMember
    <3>2. u \in DOMAIN users' /\ HasClub(g) /\ <<u, g>> \in DOMAIN guildRoles'
      BY <1>1, <1>2, <1>4, <2>2 DEF InGuild
    <3>3. InClub(u, g) => Rights(MemberRole(t)) = Rights(RoleOf(u, g)) \/ LookedEarly(u, g)
      BY <1>1, SignUpWrites, TableFacts
    <3>4. MemberRole(t) \in ClubRole
      BY SignUpWrites
    <3> HIDE DEF u, g
    <3> QED BY <1>1, <1>4, <3>1, <3>2, <3>3, <3>4, MemberWritten
  <2> QED BY <2>1, <2>2
<1> QED BY <1>1, <1>4, <1>5, <1>6

LEMMA JoinGuildKeeps ==
  ASSUME SignInInv, NEW t \in OpenFor("signup") \cup OpenFor("available"),
         ~t.member, ~Joined(t), JoinGuild(t), UNCHANGED guildTables
  PROVE  /\ UsersOK' /\ RolesOK' /\ MembersOK' /\ NamesKept /\ RightsStay
         /\ DOMAIN users \subseteq DOMAIN users' /\ DOMAIN guildRoles \subseteq DOMAIN guildRoles'
<1> DEFINE u == t.msg.user  g == t.msg.guild
<1>1. TablesOK /\ UNCHANGED clubs
  BY DEF SignInInv, guildTables
<1>2. u \in Users /\ g \in Guilds /\ UDiscOf(t.msg) \in UDiscNames /\ (t.known => u \in DOMAIN users)
  BY SignUpWrites DEF SignUpRead, Registered
<1>3. UsersOK' /\ DOMAIN users' = DOMAIN users \cup {u} /\ NamesKept
  <2>1. CASE t.known
    BY <1>1, <1>2, <2>1, UDiscWritten DEF JoinGuild
  <2>2. CASE ~t.known
    BY <1>1, <1>2, <2>2, UserSaved DEF JoinGuild
  <2> QED BY <2>1, <2>2
<1>4. guildRoles' = Put(guildRoles, <<u, g>>, "User")
  BY DEF JoinGuild
<1>5. DOMAIN guildRoles' = DOMAIN guildRoles \cup {<<u, g>>}
  BY <1>4 DEF Put
<1>6. guildRoles' \in [DOMAIN guildRoles' -> GuildRole]
  BY <1>1, <1>4, PutIn DEF TablesOK, RolesOK, GuildRole
<1>7. RolesOK'
  BY <1>1, <1>2, <1>3, <1>5, <1>6 DEF TablesOK, RolesOK
<1>8. MembersOK' /\ RightsStay
  <2>1. CASE ~HasClub(g)
    BY <1>1, <1>3, <1>5, <2>1, SameMembers DEF JoinGuild
  <2>2. CASE HasClub(g)
    <3>1. UpsertMember(u, g, "player", None, FALSE)
      BY <2>2 DEF JoinGuild
    <3>2. u \in DOMAIN users' /\ <<u, g>> \in DOMAIN guildRoles'
      BY <1>3, <1>5
    <3>3. ~InGuild(u, g)
      BY DEF Joined
    <3>4. InClub(u, g) => Rights("player") = Rights(RoleOf(u, g))
      BY <1>1, <3>3, TableFacts DEF Rights
    <3>5. "player" \in ClubRole
      BY DEF ClubRole
    <3> HIDE DEF u, g
    <3> QED BY <1>1, <1>3, <1>5, <2>2, <3>1, <3>2, <3>4, <3>5, MemberWritten
  <2> QED BY <2>1, <2>2
<1> QED BY <1>3, <1>5, <1>7, <1>8

LEMMA SameUserTables ==
  ASSUME TablesOK, UNCHANGED userTables, UNCHANGED guildTables
  PROVE  /\ UsersOK' /\ RolesOK' /\ MembersOK' /\ NamesKept /\ RightsStay
         /\ DOMAIN users \subseteq DOMAIN users' /\ DOMAIN guildRoles \subseteq DOMAIN guildRoles'
  BY SameUsers, SameRoles, SameMembers DEF userTables, guildTables

LEMMA WriteUserKeeps ==
  ASSUME SignInInv, WriteUser, UNCHANGED sessions
  PROVE  Kept
<1>1. PICK t \in OpenFor("signup") \cup OpenFor("available") :
        \/ t.member /\ ReturnMember(t) /\ Commit(t, SignedUp(t))
        \/ ~t.member /\ ~Joined(t) /\ JoinGuild(t) /\ Commit(t, SignedUp(t))
        \/ Refuse(t) /\ UNCHANGED userTables
        \/ Abort(t) /\ UNCHANGED userTables
  BY DEF WriteUser
<1>2. TablesOK /\ UNCHANGED guildTables
  BY DEF SignInInv, WriteUser, guildTables
<1>3. Grows => InFlight'
  BY <1>1, SignUpWrites, CommittedWell, GivenBack DEF SignInInv
<1>4. /\ UsersOK' /\ RolesOK' /\ MembersOK' /\ NamesKept /\ RightsStay
      /\ DOMAIN users \subseteq DOMAIN users' /\ DOMAIN guildRoles \subseteq DOMAIN guildRoles'
  BY <1>1, <1>2, ReturnMemberKeeps, JoinGuildKeeps, SameUserTables
<1> QED BY <1>2, <1>3, <1>4, MemberStepKeeps
LEMMA ReadProfileKeeps ==
  ASSUME SignInInv, ReadProfile, UNCHANGED sessions
  PROVE  Kept
<1>1. PICK m \in Of("profile") :
        /\ m.guild = None \/ HasClub(m.guild)
        /\ Open([msg |-> m, known |-> Registered(m.user), old |-> DisplayOf(m.user),
                 name |-> NameFor(m),
                 role |-> IF m.guild = None THEN None ELSE RoleOf(m.user, m.guild),
                 display |-> IF m.guild # None /\ InClub(m.user, m.guild)
                             THEN members[<<m.user, m.guild>>].display ELSE None])
  BY DEF ReadProfile
<1>2. m \in Message /\ m.type = "profile"
  BY <1>1, CallFacts DEF SignInInv, Answers
<1>3. PICK t :
        t = [msg |-> m, known |-> Registered(m.user), old |-> DisplayOf(m.user),
             name |-> NameFor(m),
             role |-> IF m.guild = None THEN None ELSE RoleOf(m.user, m.guild),
             display |-> IF m.guild # None /\ InClub(m.user, m.guild)
                         THEN members[<<m.user, m.guild>>].display ELSE None]
  OBVIOUS
<1>4. /\ t.msg = m /\ t.old = DisplayOf(m.user) /\ t.name = NameFor(m)
      /\ t.role = IF m.guild = None THEN None ELSE RoleOf(m.user, m.guild)
      /\ t.display = IF m.guild # None /\ InClub(m.user, m.guild)
                     THEN members[<<m.user, m.guild>>].display ELSE None
  BY <1>3, Zenon
<1>5. t.name \in Names \cup {None} /\ (t.name = None => t.old = None)
  BY <1>2, <1>4, MessageFacts, TableFacts DEF NameFor, SignInInv
<1>6. t.display \in Names \cup {None}
  BY <1>4, TableFacts DEF SignInInv, MemberRow
<1>7. t.role \in ClubRole \cup {None}
      /\ (t.role = None \/ InGuild(m.user, m.guild) \/ Rights(t.role) = "play")
  <2>1. TablesOK
    BY DEF SignInInv
  <2>2. CASE t.role = None
    BY <2>2
  <2>3. CASE t.role # None
    <3>1. t.role = RoleOf(m.user, m.guild)
      BY <1>4, <2>3
    <3>2. InClub(m.user, m.guild)
      BY <3>1, <2>3 DEF RoleOf
    <3> QED BY <2>1, <3>1, <3>2, TableFacts
  <2> QED BY <2>2, <2>3
<1>8. ProfileRead(t)
  BY <1>1, <1>4, <1>5, <1>6, <1>7 DEF ProfileRead
<1>9. GoodTransaction(t)
  BY <1>2, <1>4, <1>8 DEF GoodTransaction
<1>10. Grows => InFlight'
  BY <1>1, <1>3, <1>9, OpenedWell DEF SignInInv
<1> QED BY <1>10, HandlingKeeps DEF ReadProfile

LEMMA ProfileWritten ==
  ASSUME TablesOK, NEW u \in Users, NEW name \in Names \cup {None}, UpdateProfile(u, name)
  PROVE  /\ UsersOK' /\ DOMAIN users' = DOMAIN users \cup {u} /\ users'[u].display = name
         /\ \A v \in DOMAIN users : v # u => users'[v] = users[v]
<1>1. PICK old : old = IF Registered(u) THEN users[u] ELSE NewUser
  OBVIOUS
<1>2. old \in UserRow
  BY <1>1 DEF TablesOK, UsersOK, Registered, UserRow, NewUser
<1>3. PICK row : row = [old EXCEPT !.display = name]
  OBVIOUS
<1>4. row \in UserRow /\ row.display = name
  BY <1>2, <1>3, RowFacts DEF UserRow
<1>5. users' = Put(users, u, row)
  BY <1>1, <1>3 DEF UpdateProfile
<1>6. DOMAIN users' = DOMAIN users \cup {u} /\ users'[u] = row
      /\ \A v \in DOMAIN users : v # u => users'[v] = users[v]
  BY <1>5 DEF Put
<1>7. users' \in [DOMAIN users' -> UserRow]
  BY <1>4, <1>5, PutIn DEF TablesOK, UsersOK
<1> QED BY <1>4, <1>6, <1>7 DEF TablesOK, UsersOK

LEMMA ProfileMembership ==
  ASSUME SignInInv, NEW t \in OpenFor("profile"), t.msg.guild # None, ProfileMember(t),
         UNCHANGED <<clubs, guildRoles>>,
         DOMAIN users' = DOMAIN users \cup {t.msg.user}
  PROVE  MembersOK' /\ RightsStay
<1> DEFINE u == t.msg.user  g == t.msg.guild
           role == IF t.known THEN t.role ELSE RoleOf(u, g)
           given == IF role = None THEN "User" ELSE role
           display == IF t.name = None THEN t.display ELSE t.name
<1>1. t \in open /\ ProfileRead(t) /\ t.msg.type = "profile" /\ TablesOK
  BY CallFacts DEF SignInInv, GoodTransaction
<1>2. HasClub(g) /\ display \in Names \cup {None}
  BY <1>1 DEF ProfileRead
<1>3. role \in ClubRole \cup {None}
      /\ (role = None \/ InGuild(u, g) \/ Rights(role) = "play")
  <2>1. CASE t.known
    BY <1>1, <2>1 DEF ProfileRead
  <2>2. CASE ~t.known
    BY <1>1, <2>2, TableFacts DEF RoleOf
  <2> QED BY <2>1, <2>2
<1>4. InClub(u, g) => role = RoleOf(u, g) \/ LookedEarly(u, g)
  BY DEF LookedEarly
<1>5. UpsertMember(u, g, given, display, TRUE)
  BY DEF ProfileMember
<1> HIDE DEF role
<1>6. given \in ClubRole
  BY <1>3 DEF ClubRole, GuildRole
<1>7. InGuild(u, g) \/ Rights(given) = "play"
  BY <1>3 DEF Rights
<1>8. InClub(u, g) => Rights(given) = Rights(RoleOf(u, g)) \/ LookedEarly(u, g)
  BY <1>1, <1>4, TableFacts
<1>9. u \in DOMAIN users' /\ (<<u, g>> \in DOMAIN guildRoles' \/ Rights(given) = "play")
  BY <1>7 DEF InGuild
<1>10. DOMAIN users \subseteq DOMAIN users' /\ DOMAIN guildRoles \subseteq DOMAIN guildRoles'
  OBVIOUS
<1> HIDE DEF u, g, given, display
<1> QED BY <1>1, <1>2, <1>5, <1>6, <1>8, <1>9, <1>10, MemberWritten

LEMMA WriteProfileKeeps ==
  ASSUME SignInInv, WriteProfile, UNCHANGED sessions
  PROVE  Kept
<1>1. PICK t \in OpenFor("profile") :
        \/ /\ UpdateProfile(t.msg.user, t.name)
           /\ IF t.msg.guild = None THEN UNCHANGED members ELSE ProfileMember(t)
           /\ Commit(t, {})
           /\ UNCHANGED guildRoles
        \/ (Commit(t, {}) \/ Abort(t)) /\ UNCHANGED userTables
  BY DEF WriteProfile
<1>2. t \in open /\ t.msg.user \in Users /\ ProfileRead(t)
  BY <1>1, CallFacts, MessageFacts DEF SignInInv, GoodTransaction
<1>3. TablesOK /\ UNCHANGED guildTables
  BY DEF SignInInv, WriteProfile, guildTables
<1>4. UNCHANGED clubs
  BY <1>3 DEF guildTables
<1>5. Grows => InFlight'
  BY <1>1, <1>2, CommittedWell, GivenBack DEF SignInInv
<1>6. /\ UsersOK' /\ RolesOK' /\ MembersOK' /\ NamesKept /\ RightsStay
      /\ DOMAIN users \subseteq DOMAIN users' /\ DOMAIN guildRoles \subseteq DOMAIN guildRoles'
  <2>1. CASE UNCHANGED userTables
    BY <1>3, <2>1, SameUserTables
  <2>2. CASE /\ UpdateProfile(t.msg.user, t.name)
             /\ IF t.msg.guild = None THEN UNCHANGED members ELSE ProfileMember(t)
             /\ UNCHANGED guildRoles
    <3>1. t.name \in Names \cup {None} /\ (t.name = None => t.old = None)
      BY <1>2 DEF ProfileRead
    <3>2. UsersOK' /\ DOMAIN users' = DOMAIN users \cup {t.msg.user}
          /\ users'[t.msg.user].display = t.name
          /\ \A v \in DOMAIN users : v # t.msg.user => users'[v] = users[v]
      BY <1>2, <1>3, <2>2, <3>1, ProfileWritten
    <3>3. NamesKept
      BY <1>1, <3>1, <3>2 DEF NamesKept
    <3>4. RolesOK'
      BY <1>3, <2>2, <3>2, SameRoles
    <3>5. MembersOK' /\ RightsStay
      <4>1. CASE t.msg.guild = None
        BY <1>3, <1>4, <2>2, <3>2, <4>1, SameMembers
      <4>2. CASE t.msg.guild # None
        BY <1>1, <1>4, <2>2, <3>2, <4>2, ProfileMembership
      <4> QED BY <4>1, <4>2
    <3> QED BY <2>2, <3>2, <3>3, <3>4, <3>5
  <2> QED BY <1>1, <2>1, <2>2
<1> QED BY <1>3, <1>5, <1>6, MemberStepKeeps
LEMMA RepliesWell ==
  ASSUME SignInInv, NEW m \in msgs, NEW type \in Answers, Handle(m, {Reply(type, m)})
  PROVE  Grows => InFlight'
<1>1. PICK x : x = Reply(type, m)
  OBVIOUS
<1>2. x.type \in Answers
  BY <1>1, ReplyType
<1> QED BY <1>1, <1>2, AnsweredWell

LEMMA UpdateRoleKeeps ==
  ASSUME SignInInv, UpdateRole, UNCHANGED sessions
  PROVE  Kept
<1>1. PICK m \in Of("role") :
        \/ /\ RoleUpdatable(m) /\ UpdateMembershipRole(m.user, m.guild, m.role)
           /\ Handle(m, {Reply("roleUpdated", m)})
        \/ /\ UNCHANGED guildRoles
           /\ Handle(m, {Reply("roleUpdateFailed", m)})
  BY DEF UpdateRole
<1>2. m \in msgs
  BY <1>1, CallFacts DEF SignInInv
<1>3. Grows => InFlight'
  <2>1. "roleUpdated" \in Answers /\ "roleUpdateFailed" \in Answers
    BY DEF Answers
  <2> QED BY <1>1, <1>2, <2>1, RepliesWell
<1>4. TablesOK /\ UNCHANGED guildTables /\ UNCHANGED <<clubs, users, members>>
  BY DEF SignInInv, UpdateRole, guildTables
<1>5. RolesOK' /\ DOMAIN guildRoles' = DOMAIN guildRoles
  <2>1. CASE RoleUpdatable(m) /\ UpdateMembershipRole(m.user, m.guild, m.role)
    BY <1>4, <2>1 DEF TablesOK, RolesOK, RoleUpdatable, UpdateMembershipRole, InGuild
  <2>2. CASE UNCHANGED guildRoles
    BY <1>4, <2>2 DEF TablesOK, RolesOK
  <2> QED BY <1>1, <2>1, <2>2
<1>6. UsersOK' /\ NamesKept /\ MembersOK' /\ RightsStay
  BY <1>4, <1>5, SameUsers, SameMembers
<1> QED BY <1>3, <1>4, <1>5, <1>6, MemberStepKeeps

LEMMA UpdateUDiscIdentityKeeps ==
  ASSUME SignInInv, UpdateUDiscIdentity, UNCHANGED sessions
  PROVE  Kept
<1>1. PICK m \in Of("udisc") :
        /\ \/ Registered(m.user) /\ UpdateGlobalUser(m.user, m.udisc)
           \/ UNCHANGED users
        /\ Handle(m, {Reply(IF IdentityUpdated(m) THEN "udiscUpdated" ELSE "udiscUpdateFailed", m)})
  BY DEF UpdateUDiscIdentity
<1>2. m \in msgs /\ m.udisc \in UDiscNames
  BY <1>1, CallFacts, MessageFacts DEF SignInInv, Answers
<1>3. Grows => InFlight'
  <2>1. PICK type : type = IF IdentityUpdated(m) THEN "udiscUpdated" ELSE "udiscUpdateFailed"
    OBVIOUS
  <2>2. type \in Answers
    BY <2>1 DEF Answers
  <2> QED BY <1>1, <1>2, <2>1, <2>2, RepliesWell
<1>4. TablesOK /\ UNCHANGED guildTables /\ UNCHANGED <<clubs, guildRoles, members>>
  BY DEF SignInInv, UpdateUDiscIdentity, guildTables
<1>5. UsersOK' /\ NamesKept /\ DOMAIN users' = DOMAIN users
  <2>1. CASE Registered(m.user) /\ UpdateGlobalUser(m.user, m.udisc)
    BY <1>2, <1>4, <2>1, UDiscWritten DEF Registered
  <2>2. CASE UNCHANGED users
    BY <1>4, <2>2, SameUsers
  <2> QED BY <1>1, <2>1, <2>2
<1>6. RolesOK' /\ MembersOK' /\ RightsStay
  BY <1>4, <1>5, SameRoles, SameMembers
<1> QED BY <1>3, <1>4, <1>5, <1>6, MemberStepKeeps

LEMMA MemberStepsKeep ==
  ASSUME SignInInv, MemberStep, UNCHANGED sessions
  PROVE  Kept
  BY AskForTagKeeps, CheckTagKeeps, RefuseTagKeeps, ReadUserKeeps, WriteUserKeeps, MissClubKeeps,
     ReadProfileKeeps, WriteProfileKeeps, LookupProfilesKeeps, SendProfileKeeps, UpdateRoleKeeps,
     UpdateUDiscIdentityKeeps, AnswerUserKeeps, MatchScorecardKeeps DEF MemberStep
-----------------------------------------------------------------------------
\* The auth module

LEMMA SessionStepKeeps ==
  ASSUME SignInInv, UNCHANGED <<guildTables, userTables>>, DOMAIN links \subseteq DOMAIN links',
         Grows => InFlight', SessionsOK'
  PROVE  Kept
<1>1. UNCHANGED <<clubs, users, guildRoles>>
  BY DEF guildTables, userTables
<1>2. Grows
  BY <1>1 DEF Grows
<1>3. TablesOK
  BY DEF SignInInv
<1> QED BY <1>2, <1>3, SameGuildTables, SameUserTables DEF Kept, SignInInv, TablesOK

\* A step that leaves what is in flight alone.
LEMMA HttpStepKeeps ==
  ASSUME SignInInv, UNCHANGED <<delivery, guildTables, userTables>>,
         DOMAIN links \subseteq DOMAIN links', SessionsOK'
  PROVE  Kept
  BY SameFlight, SessionStepKeeps DEF SignInInv

LEMMA LinkAdded ==
  ASSUME NEW s \in Seq(Link), NEW link \in Link
  PROVE  Append(s, link) \in Seq(Link) /\ Len(s) + 1 \in DOMAIN Append(s, link)
         /\ DOMAIN s \subseteq DOMAIN Append(s, link)
  OBVIOUS

LEMMA MakeLinkKeeps ==
  ASSUME SignInInv, MakeLink
  PROVE  Kept
<1>1. PICK m \in Of("magicLink") :
        \/ SaveMagicLink(m)
           /\ \E synced \in BOOLEAN : msgs' = (msgs \ {m})
               \cup {[type |-> "link", user |-> m.user, link |-> Len(links) + 1]}
               \cup IF synced THEN {} ELSE
                      {[type |-> "profileRequest", user |-> m.user, guild |-> m.guild]}
        \/ UNCHANGED links /\ msgs' = (msgs \ {m}) \cup {Reply("linkRefused", m)}
  BY DEF MakeLink
<1>2. m \in msgs /\ m \in Message /\ m.type = "magicLink"
  BY <1>1, CallFacts DEF SignInInv, Answers
<1>3. m.user \in Users /\ m.guild \in Guilds
  BY <1>2, MessageFacts
<1>4. links \in Seq(Link)
  BY DEF SignInInv, SessionsOK
<1>5. PICK x : x = [type |-> "link", user |-> m.user, link |-> Len(links) + 1]
  OBVIOUS
<1>6. PICK y : y = [type |-> "profileRequest", user |-> m.user, guild |-> m.guild]
  OBVIOUS
<1>7. PICK z : z = Reply("linkRefused", m)
  OBVIOUS
<1>8. \/ SaveMagicLink(m) /\ msgs' \subseteq msgs \cup {x, y}
      \/ UNCHANGED links /\ msgs' \subseteq msgs \cup {z}
  BY <1>1, <1>5, <1>6, <1>7
<1>9. x \in Message /\ y \in Message /\ y.type # "link" /\ x.type = "link"
      /\ x.link = Len(links) + 1
  BY <1>3, <1>4, <1>5, <1>6 DEF Message, Events
<1>10. DOMAIN links \subseteq DOMAIN links' /\ links' \in Seq(Link)
       /\ (SaveMagicLink(m) => Len(links) + 1 \in DOMAIN links')
  <2>1. CASE SaveMagicLink(m)
    <3>1. PICK link : link = [user |-> m.user, used |-> FALSE]
      OBVIOUS
    <3>2. link \in Link
      BY <1>3, <3>1 DEF Link
    <3>3. links' = Append(links, link)
      BY <2>1, <3>1 DEF SaveMagicLink
    <3> QED BY <1>4, <3>2, <3>3, LinkAdded
  <2>2. CASE UNCHANGED links /\ ~SaveMagicLink(m)
    BY <1>4, <2>2
  <2> QED BY <1>8, <2>1, <2>2
<1>11. ASSUME Grows PROVE InFlight'
  <2>1. SaveMagicLink(m) => GoodMessage(x)'
    BY <1>9, <1>10 DEF GoodMessage
  <2>2. GoodMessage(y)'
    BY <1>9, EventsAreGood
  <2>3. GoodMessage(z)'
    BY <1>7, ReplyType, AnswersAreGood DEF Answers
  <2>4. UNCHANGED <<open, redelivered>>
    BY DEF MakeLink
  <2>5. \A w \in msgs' : GoodMessage(w)'
    BY <1>8, <1>11, <2>1, <2>2, <2>3, GrowthKeepsGood DEF SignInInv, InFlight
  <2>6. \A t \in open' : GoodTransaction(t)'
    BY <1>11, <2>4, GrowthKeepsGood DEF SignInInv, InFlight
  <2> QED BY <2>4, <2>5, <2>6 DEF SignInInv, InFlight, RedeliveriesBounded
<1>12. SessionsOK'
  <2>1. UNCHANGED <<tokens, devices, calls, called, replayed>>
    BY DEF MakeLink
  <2>2. CallsOK'
    BY <1>10, <2>1 DEF SignInInv, SessionsOK, CallsOK
  <2>3. DevicesOK'
    BY <2>1 DEF SignInInv, SessionsOK, DevicesOK, DevicesKeepTheirSessions, HasSession
  <2> QED BY <1>10, <2>1, <2>2, <2>3 DEF SignInInv, SessionsOK
<1>13. UNCHANGED <<guildTables, userTables>>
  BY DEF MakeLink
<1> QED BY <1>10, <1>11, <1>12, <1>13, SessionStepKeeps

LEMMA SameDevices ==
  ASSUME DevicesOK, UNCHANGED <<tokens, devices, replayed>>
  PROVE  DevicesOK'
  BY DEF DevicesOK, DevicesKeepTheirSessions, HasSession

LEMMA SendKeeps ==
  ASSUME SignInInv, Send
  PROVE  Kept
<1>1. PICK d \in Devices :
        \/ \E m \in Of("link") : calls' = calls \cup {Call(d, "login", m.link)}
        \/ devices[d].cookie # None
           /\ \E op \in {"ticket", "logout"} : calls' = calls \cup {Call(d, op, devices[d].cookie)}
  BY DEF Send
<1>2. UNCHANGED <<links, tokens, devices, replayed>> /\ called' = called + 1
      /\ UNCHANGED <<delivery, guildTables, userTables>>
  BY DEF Send
<1>3. CallsOK /\ DevicesOK /\ links \in Seq(Link) /\ tokens \in Seq(Token)
  BY DEF SignInInv, SessionsOK
<1>4. PICK c \in Calls :
        /\ calls' = calls \cup {c}
        /\ c.op = "login" => c.key \in DOMAIN links
        /\ c.op # "login" => c.key \in DOMAIN tokens
                             /\ \A e \in Devices : devices[e].cookie = c.key => e = c.device
  <2>1. called + 1 \in Nat
    BY <1>3 DEF CallsOK
  <2>2. \A op \in {"login", "ticket", "logout"}, key \in Nat :
          /\ Call(d, op, key) \in Calls
          /\ Call(d, op, key).op = op /\ Call(d, op, key).key = key /\ Call(d, op, key).device = d
    BY <2>1 DEF Call, Calls, Stages
  <2>3. CASE \E m \in Of("link") : calls' = calls \cup {Call(d, "login", m.link)}
    <3>1. PICK m \in Of("link") : calls' = calls \cup {Call(d, "login", m.link)}
      BY <2>3
    <3>2. m.link \in DOMAIN links
      BY <3>1, CallFacts DEF SignInInv, GoodMessage
    <3>3. m.link \in Nat
      BY <1>3, <3>2
    <3> QED BY <2>2, <3>1, <3>2, <3>3
  <2>4. CASE /\ devices[d].cookie # None
             /\ \E op \in {"ticket", "logout"} : calls' = calls \cup {Call(d, op, devices[d].cookie)}
    <3>1. PICK op \in {"ticket", "logout"} : calls' = calls \cup {Call(d, op, devices[d].cookie)}
      BY <2>4
    <3>2. devices[d].cookie \in DOMAIN tokens
          /\ \A e \in Devices : devices[e].cookie = devices[d].cookie => e = d
      BY <1>3, <2>4 DEF DevicesOK
    <3>3. devices[d].cookie \in Nat
      BY <1>3, <3>2
    <3> QED BY <2>2, <3>1, <3>2, <3>3
  <2> QED BY <1>1, <2>3, <2>4
<1>5. CallsOK'
  BY <1>2, <1>3, <1>4 DEF CallsOK
<1>6. SessionsOK'
  BY <1>2, <1>3, <1>5, SameDevices DEF SessionsOK
<1> QED BY <1>2, <1>6, HttpStepKeeps
OneCall(c, d) == d \in Calls /\ d.op = c.op /\ d.key = c.key /\ d.device = c.device
LEMMA CallFields ==
  ASSUME NEW c \in Calls
  PROVE  /\ \A at \in Stages : OneCall(c, [c EXCEPT !.at = at])
         /\ \A legacy \in SUBSET Memberships : OneCall(c, [c EXCEPT !.legacy = legacy])
         /\ \A at \in Stages, legacy \in SUBSET Memberships :
              OneCall(c, [c EXCEPT !.at = at, !.legacy = legacy])
         /\ \A at \in Stages, rights \in SUBSET (Guilds \X {"view", "play", "edit"}) :
              OneCall(c, [c EXCEPT !.at = at, !.rights = rights])
  BY DEF Calls, OneCall, Stages

\* A call goes on, or ends.
LEMMA CallMoves ==
  ASSUME CallsOK, UNCHANGED <<links, tokens, devices, called>>,
         NEW c \in calls, NEW next \in Calls,
         next.op = c.op, next.key = c.key, next.device = c.device,
         calls' \subseteq calls \cup {next}
  PROVE  CallsOK'
  BY DEF CallsOK

LEMMA ReadLinkKeeps ==
  ASSUME SignInInv, ReadLink
  PROVE  Kept
<1>1. PICK c \in Sent("login") : calls' \subseteq calls \cup {[c EXCEPT !.at = "ready"]}
  BY DEF ReadLink, End, Goes
<1>2. UNCHANGED <<links, tokens, devices, called, replayed>>
      /\ UNCHANGED <<delivery, guildTables, userTables>>
  BY DEF ReadLink
<1>3. CallsOK /\ DevicesOK /\ links \in Seq(Link) /\ tokens \in Seq(Token) /\ c \in calls
      /\ c \in Calls
  BY DEF SignInInv, SessionsOK, CallsOK, Sent
<1>4. PICK next : next = [c EXCEPT !.at = "ready"]
  OBVIOUS
<1>5. next \in Calls /\ next.op = c.op /\ next.key = c.key /\ next.device = c.device
  BY <1>3, <1>4, CallFields DEF OneCall, Stages
<1>6. CallsOK'
  BY <1>1, <1>2, <1>3, <1>4, <1>5, CallMoves
<1>7. SessionsOK'
  BY <1>2, <1>3, <1>6, SameDevices DEF SessionsOK
<1> QED BY <1>2, <1>7, HttpStepKeeps

\* What a device holds after a call of it ended.
LEMMA Responded ==
  ASSUME devices \in [Devices -> Device], NEW c, c.device \in Devices, NEW held \in Device,
         Respond(c, held)
  PROVE  /\ devices' \in [Devices -> Device]
         /\ \A d \in Devices : d # c.device => devices'[d] = devices[d]
         /\ \/ devices'[c.device] = held
            \/ /\ devices'[c.device].cookie = devices[c.device].cookie
               /\ devices'[c.device].ticket = devices[c.device].ticket
               /\ ~devices'[c.device].current
<1>1. devices[c.device] \in Device
  OBVIOUS
<1>2. PICK lost : lost = [devices[c.device] EXCEPT !.current = FALSE]
  OBVIOUS
<1>3. lost \in Device /\ lost.cookie = devices[c.device].cookie
      /\ lost.ticket = devices[c.device].ticket /\ ~lost.current
  BY <1>1, <1>2 DEF Device
<1>4. devices' = [devices EXCEPT ![c.device] = held] \/ devices' = [devices EXCEPT ![c.device] = lost]
  BY <1>2 DEF Respond
<1> QED BY <1>3, <1>4

\* What a call that ends may do to the tokens: revoke the one it came with, and
\* give its device a new one.
LEMMA SessionMoves ==
  ASSUME CallsOK, DevicesOK, links \in Seq(Link), tokens \in Seq(Token),
         NEW c \in calls, NEW held \in Device, Respond(c, held), End(c),
         UNCHANGED <<called, replayed>>,
         links' \in Seq(Link), tokens' \in Seq(Token),
         DOMAIN links \subseteq DOMAIN links', DOMAIN tokens \subseteq DOMAIN tokens',
         \A i \in DOMAIN tokens :
           /\ tokens'[i].user = tokens[i].user
           /\ tokens'[i].revoked = tokens[i].revoked \/ (c.op # "login" /\ i = c.key),
         held.cookie # None =>
           /\ held.cookie \in DOMAIN tokens' \ DOMAIN tokens /\ ~tokens'[held.cookie].revoked
           /\ held.ticket # None => held.ticket.token = held.cookie
  PROVE  SessionsOK'
<1>1. c \in Calls /\ c.device \in Devices
  BY DEF CallsOK, Calls
<1>2. devices \in [Devices -> Device]
  BY DEF DevicesOK
<1>3. /\ devices' \in [Devices -> Device]
      /\ \A d \in Devices : d # c.device => devices'[d] = devices[d]
      /\ \/ devices'[c.device] = held
         \/ /\ devices'[c.device].cookie = devices[c.device].cookie
            /\ devices'[c.device].ticket = devices[c.device].ticket
            /\ ~devices'[c.device].current
  BY <1>1, <1>2, Responded
<1>4. \A d \in Devices : \/ devices'[d].cookie = devices[d].cookie
                            /\ devices'[d].ticket = devices[d].ticket
                         \/ d = c.device /\ devices'[d] = held
  BY <1>3
<1>5. CallsOK'
  <2>1. calls' \subseteq calls
    BY DEF End
  <2>2. \A b \in calls : b.op # "login" => b.key \in DOMAIN tokens
    BY DEF CallsOK
  <2>3. ASSUME NEW b \in calls', b.op # "login", NEW d \in Devices, devices'[d].cookie = b.key
        PROVE  d = b.device
    <3>1. b.key \in DOMAIN tokens
      BY <2>1, <2>2, <2>3
    <3>2. CASE devices'[d].cookie = devices[d].cookie
      BY <2>1, <2>3, <3>2 DEF CallsOK
    <3>3. CASE devices'[d] = held
      <4>1. b.key # None
        BY <3>1, NoneAssumption
      <4> QED BY <2>3, <3>1, <3>3, <4>1
    <3> QED BY <1>4, <3>2, <3>3
  <2> QED BY <2>1, <2>2, <2>3 DEF CallsOK
<1>6. DevicesOK'
  <2>1. ASSUME NEW d \in Devices, devices'[d].cookie # None
        PROVE  /\ devices'[d].cookie \in DOMAIN tokens'
               /\ \A e \in Devices : devices'[e].cookie = devices'[d].cookie => e = d
               /\ devices'[d].ticket # None => devices'[d].ticket.token = devices'[d].cookie
    <3> DEFINE Old(e) == /\ devices[e].cookie # None /\ devices[e].cookie \in DOMAIN tokens
                         /\ devices'[e].cookie = devices[e].cookie
                         /\ devices'[e].ticket = devices[e].ticket
               Fresh(e) == /\ e = c.device /\ devices'[e] = held
                           /\ held.cookie \in DOMAIN tokens' \ DOMAIN tokens
    <3>1. ASSUME NEW e \in Devices, devices'[e].cookie # None
          PROVE  Old(e) \/ Fresh(e)
      <4>1. CASE devices'[e].cookie = devices[e].cookie /\ devices'[e].ticket = devices[e].ticket
        BY <3>1, <4>1 DEF DevicesOK
      <4>2. CASE e = c.device /\ devices'[e] = held
        BY <3>1, <4>2
      <4> QED BY <1>4, <4>1, <4>2
    <3>2. Old(d) \/ Fresh(d)
      BY <2>1, <3>1
    <3>3. devices'[d].cookie \in DOMAIN tokens'
      BY <3>2
    <3>4. ASSUME NEW e \in Devices, devices'[e].cookie = devices'[d].cookie
          PROVE  e = d
      <4>1. Old(e) \/ Fresh(e)
        BY <2>1, <3>1, <3>4
      <4>2. CASE Old(d)
        <5>1. Old(e)
          BY <3>4, <4>1, <4>2
        <5>2. devices[e].cookie = devices[d].cookie
          BY <3>4, <4>2, <5>1
        <5> QED BY <4>2, <5>2 DEF DevicesOK
      <4>3. CASE Fresh(d)
        BY <3>4, <4>1, <4>3
      <4> QED BY <3>2, <4>2, <4>3
    <3>5. devices'[d].ticket # None => devices'[d].ticket.token = devices'[d].cookie
      <4>1. CASE Old(d)
        BY <4>1 DEF DevicesOK
      <4>2. CASE Fresh(d)
        BY <2>1, <4>2
      <4> QED BY <3>2, <4>1, <4>2
    <3> QED BY <3>3, <3>4, <3>5
  <2>2. ASSUME NEW d \in Devices, HasSession(d)'
        PROVE  ~tokens'[devices'[d].cookie].revoked
    <3>1. devices'[d].current /\ devices'[d].cookie # None
          /\ tokens'[devices'[d].cookie].user \notin replayed
      BY <2>2 DEF HasSession
    <3>2. CASE d = c.device
      BY <1>3, <3>1, <3>2
    <3>3. CASE d # c.device
      <4>1. devices'[d] = devices[d] /\ devices[d].cookie \in DOMAIN tokens
        BY <1>3, <3>1, <3>3 DEF DevicesOK
      <4>2. tokens[devices[d].cookie].user \notin replayed
        BY <3>1, <4>1
      <4>3. ~tokens[devices[d].cookie].revoked
        BY <3>1, <4>1, <4>2 DEF DevicesOK, DevicesKeepTheirSessions, HasSession
      <4>4. c.op # "login" => devices[d].cookie # c.key
        BY <3>3 DEF CallsOK
      <4> QED BY <4>1, <4>3, <4>4
    <3> QED BY <3>2, <3>3
  <2> QED BY <1>3, <2>1, <2>2 DEF DevicesOK, DevicesKeepTheirSessions
<1> QED BY <1>5, <1>6 DEF SessionsOK
LEMMA TokenAdded ==
  ASSUME NEW s \in Seq(Token), NEW token \in Token
  PROVE  /\ Append(s, token) \in Seq(Token)
         /\ DOMAIN Append(s, token) = DOMAIN s \cup {Len(s) + 1} /\ Len(s) + 1 \notin DOMAIN s
         /\ Append(s, token)[Len(s) + 1] = token
         /\ \A i \in DOMAIN s : Append(s, token)[i] = s[i]
<1>1. Len(Append(s, token)) = Len(s) + 1 /\ Append(s, token) \in Seq(Token)
  OBVIOUS
<1>2. DOMAIN s = 1 .. Len(s) /\ DOMAIN Append(s, token) = 1 .. Len(s) + 1 /\ Len(s) \in Nat
  BY <1>1
<1>3. DOMAIN Append(s, token) = DOMAIN s \cup {Len(s) + 1} /\ Len(s) + 1 \notin DOMAIN s
  BY <1>2
<1>4. Append(s, token)[Len(s) + 1] = token /\ \A i \in DOMAIN s : Append(s, token)[i] = s[i]
  BY <1>2
<1> QED BY <1>1, <1>3, <1>4

LEMMA LoginUserKeeps ==
  ASSUME SignInInv, LoginUser
  PROVE  Kept
<1>1. PICK c \in Ready("login") :
        /\ MarkLinkUsed(c.key)
        /\ tokens' = Append(tokens, [user |-> links[c.key].user, family |-> Len(tokens) + 1,
                                     revoked |-> FALSE])
        /\ Respond(c, [cookie |-> Len(tokens) + 1, ticket |-> None, current |-> TRUE])
        /\ End(c)
  BY DEF LoginUser
<1>2. UNCHANGED <<called, replayed>> /\ UNCHANGED <<delivery, guildTables, userTables>>
  BY DEF LoginUser
<1>3. CallsOK /\ DevicesOK /\ links \in Seq(Link) /\ tokens \in Seq(Token) /\ c \in calls
      /\ c.op = "login" /\ c.key \in DOMAIN links
  BY DEF SignInInv, SessionsOK, CallsOK, Ready
<1>4. links[c.key] \in Link /\ links[c.key].user \in Users /\ Len(tokens) \in Nat
  <2>1. links[c.key] \in Link
    BY <1>3
  <2>2. links[c.key].user \in Users
    BY <2>1 DEF Link
  <2> QED BY <1>3, <2>1, <2>2
<1>5. PICK token : token = [user |-> links[c.key].user, family |-> Len(tokens) + 1, revoked |-> FALSE]
  OBVIOUS
<1>6. token \in Token /\ ~token.revoked
  BY <1>4, <1>5 DEF Token
<1>7. PICK held : held = [cookie |-> Len(tokens) + 1, ticket |-> None, current |-> TRUE]
  OBVIOUS
<1>8. held \in Device /\ held.cookie = Len(tokens) + 1 /\ held.ticket = None
  BY <1>4, <1>7 DEF Device
<1>9. tokens' = Append(tokens, token) /\ Respond(c, held)
  BY <1>1, <1>5, <1>7
<1>10. /\ tokens' \in Seq(Token)
       /\ DOMAIN tokens' = DOMAIN tokens \cup {Len(tokens) + 1} /\ Len(tokens) + 1 \notin DOMAIN tokens
       /\ tokens'[Len(tokens) + 1] = token /\ \A i \in DOMAIN tokens : tokens'[i] = tokens[i]
  BY <1>3, <1>6, <1>9, TokenAdded
<1>11. links' \in Seq(Link) /\ DOMAIN links \subseteq DOMAIN links'
  <2>1. PICK link : link = [links[c.key] EXCEPT !.used = TRUE]
    OBVIOUS
  <2>2. link \in Link
    BY <1>4, <2>1 DEF Link
  <2>3. links' = [links EXCEPT ![c.key] = link]
    BY <1>1, <2>1 DEF MarkLinkUsed
  <2> QED BY <1>3, <2>2, <2>3
<1>12. SessionsOK'
  BY <1>1, <1>2, <1>3, <1>6, <1>8, <1>9, <1>10, <1>11, SessionMoves
<1> QED BY <1>2, <1>11, <1>12, HttpStepKeeps

LEMMA TokensChanged ==
  ASSUME NEW s \in Seq(Token), NEW t, DOMAIN t = DOMAIN s, t = [i \in DOMAIN s |-> t[i]],
         \A i \in DOMAIN s : t[i] \in Token
  PROVE  t \in Seq(Token) /\ Len(t) = Len(s)
<1>1. DOMAIN s = 1 .. Len(s) /\ Len(s) \in Nat
  OBVIOUS
<1>2. t \in [1 .. Len(s) -> Token]
  BY <1>1
<1> QED BY <1>1, <1>2

LEMMA RefuseTicketKeeps ==
  ASSUME SignInInv, RefuseTicket
  PROVE  Kept
<1>1. PICK c \in Sent("ticket") :
        /\ \/ /\ RevokeAll(tokens[c.key].user)
              /\ replayed' = replayed \cup {tokens[c.key].user}
           \/ UNCHANGED <<tokens, replayed>>
        /\ End(c)
  BY DEF RefuseTicket
<1>2. UNCHANGED <<links, devices, called>> /\ UNCHANGED <<delivery, guildTables, userTables>>
  BY DEF RefuseTicket
<1>3. CallsOK /\ DevicesOK /\ links \in Seq(Link) /\ tokens \in Seq(Token)
  BY DEF SignInInv, SessionsOK
<1>4. /\ tokens' \in Seq(Token) /\ DOMAIN tokens' = DOMAIN tokens /\ replayed \subseteq replayed'
      /\ \A i \in DOMAIN tokens :
           tokens'[i].user = tokens[i].user
           /\ (tokens[i].user \notin replayed' => tokens'[i].revoked = tokens[i].revoked)
  <2>1. CASE UNCHANGED <<tokens, replayed>>
    BY <1>3, <2>1
  <2>2. CASE RevokeAll(tokens[c.key].user) /\ replayed' = replayed \cup {tokens[c.key].user}
    <3>1. PICK u : u = tokens[c.key].user
      OBVIOUS
    <3>2. tokens' = [i \in DOMAIN tokens |->
            [tokens[i] EXCEPT !.revoked = tokens[i].revoked \/ tokens[i].user = u]]
      BY <2>2, <3>1 DEF RevokeAll
    <3>3. \A i \in DOMAIN tokens :
            /\ tokens'[i] \in Token /\ tokens'[i].user = tokens[i].user
            /\ tokens'[i].revoked = (tokens[i].revoked \/ tokens[i].user = u)
      <4> SUFFICES ASSUME NEW i \in DOMAIN tokens
                   PROVE  /\ tokens'[i] \in Token /\ tokens'[i].user = tokens[i].user
                          /\ tokens'[i].revoked = (tokens[i].revoked \/ tokens[i].user = u)
        OBVIOUS
      <4>1. tokens[i] \in Token
        BY <1>3
      <4>2. PICK revoked \in BOOLEAN : revoked = (tokens[i].revoked \/ tokens[i].user = u)
        OBVIOUS
      <4>3. tokens'[i] = [tokens[i] EXCEPT !.revoked = revoked]
        BY <3>2, <4>2
      <4> QED BY <4>1, <4>2, <4>3 DEF Token
    <3>4. DOMAIN tokens' = DOMAIN tokens /\ tokens' = [i \in DOMAIN tokens |-> tokens'[i]]
      BY <3>2
    <3>5. tokens' \in Seq(Token)
      BY <1>3, <3>3, <3>4, TokensChanged
    <3>6. u \in replayed' /\ replayed \subseteq replayed'
      BY <2>2, <3>1
    <3>7. \A i \in DOMAIN tokens :
            tokens[i].user \notin replayed' => tokens'[i].revoked = tokens[i].revoked
      <4> SUFFICES ASSUME NEW i \in DOMAIN tokens, tokens[i].user # u
                   PROVE  tokens'[i].revoked = tokens[i].revoked
        BY <3>6
      <4>1. tokens[i] \in Token
        BY <1>3
      <4>2. tokens[i].revoked \in BOOLEAN
        BY <4>1 DEF Token
      <4> QED BY <3>3, <4>2
    <3> QED BY <3>3, <3>4, <3>5, <3>6, <3>7
  <2> QED BY <1>1, <2>1, <2>2
<1>5. CallsOK'
  BY <1>1, <1>2, <1>3, <1>4 DEF CallsOK, End
<1>6. DevicesOK'
  <2>1. ASSUME NEW d \in Devices, HasSession(d)'
        PROVE  ~tokens'[devices'[d].cookie].revoked
    <3>1. devices[d].current /\ devices[d].cookie # None
          /\ tokens'[devices[d].cookie].user \notin replayed'
      BY <1>2, <2>1 DEF HasSession
    <3>2. devices[d].cookie \in DOMAIN tokens
      BY <1>3, <3>1 DEF DevicesOK
    <3>3. HasSession(d)
      BY <1>4, <3>1, <3>2 DEF HasSession
    <3> QED BY <1>2, <1>3, <1>4, <3>1, <3>2, <3>3 DEF DevicesOK, DevicesKeepTheirSessions
  <2> QED BY <1>2, <1>3, <1>4, <2>1 DEF DevicesOK, DevicesKeepTheirSessions
<1>7. SessionsOK'
  BY <1>2, <1>3, <1>4, <1>5, <1>6 DEF SessionsOK
<1> QED BY <1>2, <1>7, HttpStepKeeps

\* The handler of a call goes on and changes no table.
LEMMA GoingKeeps ==
  ASSUME SignInInv, NEW c \in calls, NEW next \in Calls,
         next.op = c.op, next.key = c.key, next.device = c.device, Goes(c, next),
         UNCHANGED <<links, tokens, devices, called, replayed, delivery, guildTables, userTables>>
  PROVE  Kept
<1>1. CallsOK /\ DevicesOK /\ links \in Seq(Link) /\ tokens \in Seq(Token)
  BY DEF SignInInv, SessionsOK
<1>2. CallsOK'
  BY <1>1, CallMoves DEF Goes
<1>3. SessionsOK'
  BY <1>1, <1>2, SameDevices DEF SessionsOK
<1> QED BY <1>3, HttpStepKeeps

LEMMA RightsAreRights ==
  ASSUME TablesOK, NEW u
  PROVE  RightsOf(u) \in SUBSET (Guilds \X {"view", "play", "edit"})
<1>1. \A role : Rights(role) \in {"view", "play", "edit"}
  BY DEF Rights
<1>2. \A k \in DOMAIN members : k[2] \in Guilds
  BY DEF TablesOK, MembersOK, ClubsOK
<1> QED BY <1>1, <1>2 DEF RightsOf, MembershipsOf

LEMMA ReadTokenKeeps ==
  ASSUME SignInInv, ReadToken
  PROVE  Kept
<1>1. PICK c \in Sent("ticket") : LET rights == RightsOf(tokens[c.key].user) IN
        Goes(c, [c EXCEPT !.at = IF rights = {} THEN "memberless" ELSE "ready",
                          !.rights = rights])
  BY DEF ReadToken
<1>2. c \in calls /\ c \in Calls
  BY DEF SignInInv, SessionsOK, CallsOK, Sent
<1>3. PICK rights : rights = RightsOf(tokens[c.key].user)
  OBVIOUS
<1>4. rights \in SUBSET (Guilds \X {"view", "play", "edit"})
  BY <1>3, RightsAreRights DEF SignInInv
<1>5. PICK at \in Stages : at = IF rights = {} THEN "memberless" ELSE "ready"
  BY DEF Stages
<1>6. PICK next : next = [c EXCEPT !.at = at, !.rights = rights]
  OBVIOUS
<1>7. next \in Calls /\ next.op = c.op /\ next.key = c.key /\ next.device = c.device
  <2>1. OneCall(c, [c EXCEPT !.at = at, !.rights = rights])
    BY <1>2, <1>4, CallFields
  <2> QED BY <1>6, <2>1 DEF OneCall
<1>8. Goes(c, next)
  BY <1>1, <1>3, <1>5, <1>6
<1> QED BY <1>2, <1>7, <1>8, GoingKeeps DEF ReadToken

LEMMA LegacyFacts ==
  ASSUME TablesOK, NEW u
  PROVE  /\ Legacy(u) \in SUBSET Memberships
         /\ \A l \in Legacy(u) : l.member \in DOMAIN guildRoles /\ l.member[1] = u
  BY DEF Legacy, Memberships, TablesOK, RolesOK, UsersOK

LEMMA ReadLegacyKeeps ==
  ASSUME SignInInv, ReadLegacy
  PROVE  Kept
<1>1. PICK c \in Memberless : LET legacy == Legacy(tokens[c.key].user) IN
        Goes(c, [c EXCEPT !.at = IF legacy = {} THEN "ready" ELSE "backfill", !.legacy = legacy])
  BY DEF ReadLegacy
<1>2. c \in calls /\ c \in Calls
  BY DEF SignInInv, SessionsOK, CallsOK, Memberless
<1>3. PICK legacy : legacy = Legacy(tokens[c.key].user)
  OBVIOUS
<1>4. legacy \in SUBSET Memberships
  BY <1>3, LegacyFacts DEF SignInInv
<1>5. PICK at \in Stages : at = IF legacy = {} THEN "ready" ELSE "backfill"
  BY DEF Stages
<1>6. PICK next : next = [c EXCEPT !.at = at, !.legacy = legacy]
  OBVIOUS
<1>7. next \in Calls /\ next.op = c.op /\ next.key = c.key /\ next.device = c.device
  BY <1>2, <1>4, <1>6, CallFields DEF OneCall
<1>8. Goes(c, next)
  BY <1>1, <1>3, <1>5, <1>6
<1> QED BY <1>2, <1>7, <1>8, GoingKeeps DEF ReadLegacy

LEMMA ReadAgainKeeps ==
  ASSUME SignInInv, ReadAgain
  PROVE  Kept
<1>1. PICK c \in Backfilling : \E rights \in {RightsOf(tokens[c.key].user), {}} :
        Goes(c, [c EXCEPT !.at = "ready", !.rights = rights])
  BY DEF ReadAgain
<1>2. c \in calls /\ c \in Calls
  BY DEF SignInInv, SessionsOK, CallsOK, Backfilling
<1>3. PICK rights : /\ rights \in {RightsOf(tokens[c.key].user), {}}
                    /\ Goes(c, [c EXCEPT !.at = "ready", !.rights = rights])
  BY <1>1
<1>4. rights \in SUBSET (Guilds \X {"view", "play", "edit"})
  BY <1>3, RightsAreRights DEF SignInInv
<1>5. PICK next : next = [c EXCEPT !.at = "ready", !.rights = rights]
  OBVIOUS
<1>6. next \in Calls /\ next.op = c.op /\ next.key = c.key /\ next.device = c.device
  BY <1>2, <1>4, <1>5, CallFields DEF OneCall, Stages
<1>7. Goes(c, next)
  BY <1>3, <1>5
<1> QED BY <1>2, <1>6, <1>7, GoingKeeps DEF ReadAgain

LEMMA BackfillKeeps ==
  ASSUME SignInInv, LegacyOK, BackfillClubMembership
  PROVE  Kept
<1>1. PICK c, l :
        /\ c \in Backfilling
        /\ l \in c.legacy
        /\ \/ /\ HasClub(l.member[2])
              /\ UpsertMember(l.member[1], l.member[2], l.role, None, FALSE)
           \/ UNCHANGED members
        /\ Goes(c, [c EXCEPT !.legacy = @ \ {l}])
  BY DEF BackfillClubMembership
<1>2. UNCHANGED <<links, tokens, devices, called, replayed>>
      /\ UNCHANGED <<clubs, configs, users, guildRoles>> /\ UNCHANGED delivery
  BY DEF BackfillClubMembership, guildTables
<1>3. CallsOK /\ DevicesOK /\ links \in Seq(Link) /\ tokens \in Seq(Token) /\ c \in calls
      /\ c \in Calls /\ TablesOK
  BY <1>1 DEF SignInInv, SessionsOK, CallsOK, Backfilling
<1>4. l \in Memberships /\ l.member \in DOMAIN guildRoles /\ l.member[1] = tokens[c.key].user
  BY <1>1, <1>3 DEF LegacyOK, Calls
<1>5. PICK u, g : l.member = <<u, g>> /\ u = l.member[1] /\ g = l.member[2]
  BY <1>4 DEF Memberships
<1>6. u \in DOMAIN users' /\ <<u, g>> \in DOMAIN guildRoles' /\ l.role \in ClubRole
  <2>1. DOMAIN guildRoles \subseteq (DOMAIN users) \X Guilds
    BY <1>3 DEF TablesOK, RolesOK
  <2>2. u \in DOMAIN users /\ <<u, g>> \in DOMAIN guildRoles
    BY <1>4, <1>5, <2>1
  <2>3. l.role \in ClubRole
    BY <1>4 DEF Memberships, ClubRole
  <2> QED BY <1>2, <2>2, <2>3
<1>7. LookedEarly(u, g)
  BY <1>1, <1>4, <1>5 DEF LookedEarly
<1>8. MembersOK' /\ RightsStay
  <2>1. CASE UNCHANGED members
    BY <1>2, <1>3, <2>1, SameMembers
  <2>2. CASE HasClub(g) /\ UpsertMember(u, g, l.role, None, FALSE)
    BY <1>2, <1>3, <1>6, <1>7, <2>2, MemberWritten
  <2> QED BY <1>1, <1>5, <2>1, <2>2
<1>9. UsersOK' /\ RolesOK' /\ NamesKept
  BY <1>2, <1>3, SameUsers, SameRoles
<1>10. ClubsOK' /\ ConfigsOK'
  BY <1>2, <1>3, SameGuildTables DEF guildTables
<1>11. InFlight'
  BY <1>2, SameFlight DEF SignInInv, Grows
<1>12. CallsOK'
  <2>1. PICK legacy : legacy = c.legacy \ {l}
    OBVIOUS
  <2>2. legacy \in SUBSET Memberships
    BY <1>3, <2>1 DEF Calls
  <2>3. PICK next : next = [c EXCEPT !.legacy = legacy]
    OBVIOUS
  <2>4. next \in Calls /\ next.op = c.op /\ next.key = c.key /\ next.device = c.device
    BY <1>3, <2>2, <2>3, CallFields DEF OneCall
  <2>5. calls' \subseteq calls \cup {next}
    BY <1>1, <2>1, <2>3 DEF Goes
  <2> QED BY <1>2, <1>3, <2>4, <2>5, CallMoves
<1>13. SessionsOK'
  BY <1>2, <1>3, <1>12, SameDevices DEF SessionsOK
<1> QED BY <1>8, <1>9, <1>10, <1>11, <1>13 DEF Kept, SignInInv, TablesOK

\* A token is revoked and nothing else of it changes.
LEMMA TokenRevoked ==
  ASSUME NEW token \in Token, NEW revoked \in BOOLEAN
  PROVE  /\ [token EXCEPT !.revoked = revoked] \in Token
         /\ [token EXCEPT !.revoked = revoked].user = token.user
         /\ [token EXCEPT !.revoked = revoked].revoked = revoked
  BY DEF Token

LEMMA RotateKeeps ==
  ASSUME SignInInv, Rotate
  PROVE  Kept
<1>1. PICK c \in Ready("ticket") :
        /\ tokens' = Append([i \in DOMAIN tokens |-> [tokens[i] EXCEPT !.revoked = RevokedBy(c, i)]],
                            [tokens[c.key] EXCEPT !.revoked = FALSE])
        /\ Respond(c, [cookie |-> Len(tokens) + 1, ticket |-> TicketFor(c), current |-> TRUE])
        /\ End(c)
  BY DEF Rotate
<1>2. UNCHANGED <<links, called, replayed>> /\ UNCHANGED <<delivery, guildTables, userTables>>
  BY DEF Rotate
<1>3. CallsOK /\ DevicesOK /\ links \in Seq(Link) /\ tokens \in Seq(Token) /\ c \in calls
      /\ c \in Calls /\ c.op = "ticket" /\ c.key \in DOMAIN tokens
  BY DEF SignInInv, SessionsOK, CallsOK, Ready
<1>4. PICK spent : spent = [i \in DOMAIN tokens |-> [tokens[i] EXCEPT !.revoked = RevokedBy(c, i)]]
  OBVIOUS
<1>5. \A i \in DOMAIN tokens :
        /\ spent[i] \in Token /\ spent[i].user = tokens[i].user
        /\ i # c.key => spent[i].revoked = tokens[i].revoked
  <2> SUFFICES ASSUME NEW i \in DOMAIN tokens
               PROVE  /\ spent[i] \in Token /\ spent[i].user = tokens[i].user
                      /\ i # c.key => spent[i].revoked = tokens[i].revoked
    OBVIOUS
  <2>1. tokens[i] \in Token
    BY <1>3
  <2>2. tokens[i].revoked \in BOOLEAN
    BY <2>1 DEF Token
  <2>3. PICK revoked \in BOOLEAN : revoked = RevokedBy(c, i)
    BY DEF RevokedBy
  <2>4. spent[i] = [tokens[i] EXCEPT !.revoked = revoked]
    BY <1>4, <2>3
  <2>5. i # c.key => revoked = tokens[i].revoked
    BY <2>2, <2>3 DEF RevokedBy
  <2> QED BY <2>1, <2>4, <2>5, TokenRevoked
<1>6. DOMAIN spent = DOMAIN tokens /\ spent = [i \in DOMAIN tokens |-> spent[i]]
  BY <1>4
<1>7. spent \in Seq(Token) /\ Len(spent) = Len(tokens)
  BY <1>3, <1>5, <1>6, TokensChanged
<1>8. PICK token : token = [tokens[c.key] EXCEPT !.revoked = FALSE]
  OBVIOUS
<1>9. token \in Token /\ ~token.revoked
  <2>1. tokens[c.key] \in Token
    BY <1>3
  <2> QED BY <1>8, <2>1, TokenRevoked
<1>10. tokens' = Append(spent, token)
  BY <1>1, <1>4, <1>8
<1>11. /\ tokens' \in Seq(Token)
       /\ DOMAIN tokens' = DOMAIN tokens \cup {Len(tokens) + 1} /\ Len(tokens) + 1 \notin DOMAIN tokens
       /\ tokens'[Len(tokens) + 1] = token /\ \A i \in DOMAIN tokens : tokens'[i] = spent[i]
  BY <1>6, <1>7, <1>9, <1>10, TokenAdded
<1>12. PICK held : held = [cookie |-> Len(tokens) + 1, ticket |-> TicketFor(c), current |-> TRUE]
  OBVIOUS
<1>13. /\ held \in Device /\ held.cookie = Len(tokens) + 1
       /\ held.ticket # None => held.ticket.token = held.cookie
  <2>1. Len(tokens) + 1 \in Nat /\ c.rights \in SUBSET (Guilds \X {"view", "play", "edit"})
    BY <1>3 DEF Calls
  <2>2. PICK ticket : ticket = TicketFor(c)
    OBVIOUS
  <2>3. ticket \in Ticket /\ ticket.token = Len(tokens) + 1
    BY <2>1, <2>2 DEF TicketFor, Ticket
  <2> QED BY <1>12, <2>1, <2>2, <2>3 DEF Device
<1>14. Respond(c, held)
  BY <1>1, <1>12
<1>15. \A i \in DOMAIN tokens :
         /\ tokens'[i].user = tokens[i].user
         /\ tokens'[i].revoked = tokens[i].revoked \/ (c.op # "login" /\ i = c.key)
  BY <1>3, <1>5, <1>11
<1>16. SessionsOK'
  BY <1>1, <1>2, <1>3, <1>9, <1>11, <1>13, <1>14, <1>15, SessionMoves
<1> QED BY <1>2, <1>16, HttpStepKeeps

LEMMA LogoutKeeps ==
  ASSUME SignInInv, Logout
  PROVE  Kept
<1>1. PICK c \in Sent("logout") :
        /\ Revoke(c.key)
        /\ Respond(c, [devices[c.device] EXCEPT !.cookie = None])
        /\ End(c)
  BY DEF Logout
<1>2. UNCHANGED <<links, called, replayed>> /\ UNCHANGED <<delivery, guildTables, userTables>>
  BY DEF Logout
<1>3. CallsOK /\ DevicesOK /\ links \in Seq(Link) /\ tokens \in Seq(Token) /\ c \in calls
      /\ c \in Calls /\ c.op = "logout" /\ c.key \in DOMAIN tokens
  BY DEF SignInInv, SessionsOK, CallsOK, Sent
<1>4. tokens[c.key] \in Token
  BY <1>3
<1>5. PICK token : token = [tokens[c.key] EXCEPT !.revoked = TRUE]
  OBVIOUS
<1>6. token \in Token /\ token.user = tokens[c.key].user
  BY <1>4, <1>5, TokenRevoked
<1>7. tokens' = [tokens EXCEPT ![c.key] = token]
  BY <1>1, <1>5 DEF Revoke
<1>8. tokens' \in Seq(Token) /\ DOMAIN tokens' = DOMAIN tokens
  BY <1>3, <1>6, <1>7
<1>9. \A i \in DOMAIN tokens :
        /\ tokens'[i].user = tokens[i].user
        /\ tokens'[i].revoked = tokens[i].revoked \/ (c.op # "login" /\ i = c.key)
  BY <1>3, <1>6, <1>7
<1>10. PICK held : held = [devices[c.device] EXCEPT !.cookie = None]
  OBVIOUS
<1>11. held \in Device /\ held.cookie = None
  <2>1. devices[c.device] \in Device
    BY <1>3 DEF Calls, DevicesOK
  <2> QED BY <1>10, <2>1 DEF Device
<1>12. Respond(c, held)
  BY <1>1, <1>10
<1>13. SessionsOK'
  BY <1>1, <1>2, <1>3, <1>8, <1>9, <1>11, <1>12, SessionMoves
<1> QED BY <1>2, <1>13, HttpStepKeeps

LEMMA ExpireKeeps ==
  ASSUME SignInInv, Expire
  PROVE  Kept
<1>1. UNCHANGED <<links, tokens, devices, calls, called, replayed>>
      /\ UNCHANGED <<delivery, guildTables, userTables>>
  BY DEF Expire
<1>2. CallsOK /\ DevicesOK /\ links \in Seq(Link) /\ tokens \in Seq(Token)
  BY DEF SignInInv, SessionsOK
<1>3. CallsOK'
  BY <1>1, <1>2 DEF CallsOK
<1>4. SessionsOK'
  BY <1>1, <1>2, <1>3, SameDevices DEF SessionsOK
<1> QED BY <1>1, <1>4, HttpStepKeeps

LEMMA SignInStepsKeep ==
  ASSUME SignInInv, LegacyOK, SignInStep
  PROVE  Kept
  BY MakeLinkKeeps, SendKeeps, ReadLinkKeeps, LoginUserKeeps, RefuseTicketKeeps, ReadTokenKeeps,
     ReadLegacyKeeps, BackfillKeeps, ReadAgainKeeps, RotateKeeps, LogoutKeeps, ExpireKeeps
     DEF SignInStep, BackfillClubMemberships
-----------------------------------------------------------------------------
\* Tokens stay with their users and guild memberships stay, so what is to be backfilled
\* stays what it is.

UsersOfTokens == \A i \in DOMAIN tokens :
  i \in DOMAIN tokens' /\ tokens'[i].user = tokens[i].user

LEMMA TokensKeepUsers ==
  ASSUME SignInInv, SignInStep
  PROVE  UsersOfTokens
<1>1. tokens \in Seq(Token) /\ \A c \in calls : c \in Calls
  BY DEF SignInInv, SessionsOK, CallsOK
<1>2. \A i \in DOMAIN tokens : tokens[i] \in Token
  BY <1>1
<1>3. CASE UNCHANGED tokens
  BY <1>3 DEF UsersOfTokens
<1>4. CASE LoginUser
  <2>1. PICK c \in Ready("login") :
          tokens' = Append(tokens, [user |-> links[c.key].user, family |-> Len(tokens) + 1,
                                    revoked |-> FALSE])
    BY <1>4 DEF LoginUser
  <2> QED BY <1>1, <2>1 DEF UsersOfTokens
<1>5. CASE RefuseTicket
  <2>1. PICK u : RevokeAll(u) \/ UNCHANGED tokens
    BY <1>5 DEF RefuseTicket
  <2>2. CASE RevokeAll(u)
    BY <1>2, <2>2 DEF RevokeAll, UsersOfTokens, Token
  <2> QED BY <1>3, <2>1, <2>2
<1>6. CASE Rotate
  <2>1. PICK c : tokens' = Append([i \in DOMAIN tokens |->
                                     [tokens[i] EXCEPT !.revoked = RevokedBy(c, i)]],
                                  [tokens[c.key] EXCEPT !.revoked = FALSE])
    BY <1>6 DEF Rotate
  <2>2. PICK spent : spent = [i \in DOMAIN tokens |-> [tokens[i] EXCEPT !.revoked = RevokedBy(c, i)]]
    OBVIOUS
  <2>3. DOMAIN spent = DOMAIN tokens /\ \A i \in DOMAIN tokens : spent[i].user = tokens[i].user
    BY <1>2, <2>2 DEF Token
  <2>4. DOMAIN tokens = 1 .. Len(tokens) /\ Len(tokens) \in Nat
    BY <1>1
  <2>5. spent = [i \in 1 .. Len(tokens) |-> spent[i]]
    BY <2>2, <2>4
  <2>6. spent \in Seq({spent[i] : i \in 1 .. Len(tokens)})
    BY <2>4, <2>5
  <2>7. PICK token : tokens' = Append(spent, token)
    BY <2>1, <2>2
  <2>8. \A i \in DOMAIN spent : i \in DOMAIN tokens' /\ tokens'[i] = spent[i]
    BY <2>6, <2>7
  <2> QED BY <2>3, <2>8 DEF UsersOfTokens
<1>7. CASE Logout
  <2>1. PICK c \in Sent("logout") : Revoke(c.key)
    BY <1>7 DEF Logout
  <2>2. DOMAIN tokens' = DOMAIN tokens
        /\ \A i \in DOMAIN tokens : tokens'[i] \in {tokens[i], [tokens[i] EXCEPT !.revoked = TRUE]}
    BY <1>1, <2>1 DEF Revoke
  <2> QED BY <1>2, <2>2 DEF UsersOfTokens, Token
<1> QED BY <1>3, <1>4, <1>5, <1>6, <1>7
    DEF SignInStep, MakeLink, Send, ReadLink, ReadToken, BackfillClubMemberships, ReadLegacy,
        BackfillClubMembership, ReadAgain, Expire

\* The calls after a step come from those before it.
LEMMA LegacyStays ==
  ASSUME SignInInv, LegacyOK, UsersOfTokens, DOMAIN guildRoles \subseteq DOMAIN guildRoles',
         NEW next, \A l \in next.legacy :
           next.op = "ticket" /\ l.member \in DOMAIN guildRoles
           /\ next.key \in DOMAIN tokens /\ l.member[1] = tokens[next.key].user,
         calls' \subseteq calls \cup {next}
  PROVE  LegacyOK'
<1>1. \A c \in calls : c.op # "login" => c.key \in DOMAIN tokens
  BY DEF SignInInv, SessionsOK, CallsOK
<1> QED BY <1>1 DEF LegacyOK, UsersOfTokens

LEMMA CallsFollow ==
  ASSUME SignInInv, LegacyOK, SignInStep
  PROVE  LegacyOK'
<1>1. UsersOfTokens
  BY TokensKeepUsers
<1>2. UNCHANGED guildRoles
  BY DEF SignInStep, MakeLink, Send, ReadLink, LoginUser, RefuseTicket, ReadToken, ReadLegacy,
     BackfillClubMembership, ReadAgain, BackfillClubMemberships, Rotate, Logout, Expire, userTables
<1>3. \A c \in calls : c \in Calls /\ (c.op # "login" => c.key \in DOMAIN tokens)
  BY DEF SignInInv, SessionsOK, CallsOK
<1>4. CASE calls' \subseteq calls
  BY <1>1, <1>2, <1>3, <1>4 DEF LegacyOK, UsersOfTokens
<1>5. CASE Send
  <2>1. PICK d, op, key : calls' = calls \cup {Call(d, op, key)}
    BY <1>5 DEF Send
  <2>2. Call(d, op, key).legacy = {}
    BY DEF Call
  <2>3. PICK next : next = Call(d, op, key)
    OBVIOUS
  <2> QED BY <1>1, <1>2, <2>1, <2>2, <2>3, LegacyStays
<1>6. ASSUME NEW c \in calls, NEW next, Goes(c, next), next.op = c.op, next.key = c.key,
             next.legacy \subseteq c.legacy
      PROVE  LegacyOK'
  <2>1. \A l \in next.legacy :
          next.op = "ticket" /\ l.member \in DOMAIN guildRoles
          /\ next.key \in DOMAIN tokens /\ l.member[1] = tokens[next.key].user
    BY <1>3, <1>6 DEF LegacyOK
  <2> QED BY <1>1, <1>2, <1>6, <2>1, LegacyStays DEF Goes
<1>7. CASE ReadLink
  <2>1. PICK c \in Sent("login") : Goes(c, [c EXCEPT !.at = "ready"]) \/ End(c)
    BY <1>7 DEF ReadLink
  <2>2. c \in calls /\ c \in Calls
    BY <1>3, <2>1 DEF Sent
  <2>3. PICK next : next = [c EXCEPT !.at = "ready"]
    OBVIOUS
  <2>4. next.op = c.op /\ next.key = c.key /\ next.legacy = c.legacy
    BY <2>2, <2>3 DEF Calls
  <2>5. End(c) => calls' \subseteq calls
    BY DEF End
  <2> QED BY <1>4, <1>6, <2>1, <2>2, <2>3, <2>4, <2>5
<1>8. CASE ReadToken
  <2>1. PICK c, at, rights :
          c \in Sent("ticket") /\ Goes(c, [c EXCEPT !.at = at, !.rights = rights])
    BY <1>8 DEF ReadToken
  <2>2. c \in calls /\ c \in Calls
    BY <1>3, <2>1 DEF Sent
  <2>3. PICK next : next = [c EXCEPT !.at = at, !.rights = rights]
    OBVIOUS
  <2>4. next.op = c.op /\ next.key = c.key /\ next.legacy = c.legacy
    BY <2>2, <2>3 DEF Calls
  <2> QED BY <1>6, <2>1, <2>2, <2>3, <2>4
<1>9. CASE ReadAgain
  <2>1. PICK c, rights : c \in Backfilling /\ Goes(c, [c EXCEPT !.at = "ready", !.rights = rights])
    BY <1>9 DEF ReadAgain
  <2>2. c \in calls /\ c \in Calls
    BY <1>3, <2>1 DEF Backfilling
  <2>3. PICK next : next = [c EXCEPT !.at = "ready", !.rights = rights]
    OBVIOUS
  <2>4. next.op = c.op /\ next.key = c.key /\ next.legacy = c.legacy
    BY <2>2, <2>3 DEF Calls
  <2> QED BY <1>6, <2>1, <2>2, <2>3, <2>4
<1>10. CASE BackfillClubMembership
  <2>1. PICK c, l : c \in Backfilling /\ Goes(c, [c EXCEPT !.legacy = @ \ {l}])
    BY <1>10 DEF BackfillClubMembership
  <2>2. c \in calls /\ c \in Calls
    BY <1>3, <2>1 DEF Backfilling
  <2>3. PICK next : next = [c EXCEPT !.legacy = @ \ {l}]
    OBVIOUS
  <2>4. next.op = c.op /\ next.key = c.key /\ next.legacy \subseteq c.legacy
    BY <2>2, <2>3 DEF Calls
  <2> QED BY <1>6, <2>1, <2>2, <2>3, <2>4
<1>11. CASE ReadLegacy
  <2>1. PICK c, at :
          /\ c \in Memberless
          /\ Goes(c, [c EXCEPT !.at = at, !.legacy = Legacy(tokens[c.key].user)])
    BY <1>11 DEF ReadLegacy
  <2>2. c \in calls /\ c \in Calls /\ c.op = "ticket"
    BY <1>3, <2>1 DEF Memberless
  <2>3. PICK next : next = [c EXCEPT !.at = at, !.legacy = Legacy(tokens[c.key].user)]
    OBVIOUS
  <2>4. next.op = c.op /\ next.key = c.key /\ next.legacy = Legacy(tokens[c.key].user)
    BY <2>2, <2>3 DEF Calls
  <2>5. \A l \in next.legacy :
          next.op = "ticket" /\ l.member \in DOMAIN guildRoles
          /\ next.key \in DOMAIN tokens /\ l.member[1] = tokens[next.key].user
    BY <1>3, <2>2, <2>4, LegacyFacts DEF SignInInv
  <2> QED BY <1>1, <1>2, <2>1, <2>3, <2>5, LegacyStays DEF Goes
<1> QED BY <1>4, <1>5, <1>7, <1>8, <1>9, <1>10, <1>11
    DEF SignInStep, MakeLink, LoginUser, RefuseTicket, BackfillClubMemberships, Rotate, Logout,
        Expire, End

LEMMA OthersKeepLegacy ==
  ASSUME SignInInv, LegacyOK, UNCHANGED sessions,
         (GuildStep /\ UNCHANGED userTables) \/ MemberStep
  PROVE  LegacyOK'
<1>1. UNCHANGED <<tokens, calls>>
  BY DEF sessions
<1>2. CASE UNCHANGED guildRoles
  BY <1>1, <1>2 DEF LegacyOK
<1>3. CASE DOMAIN guildRoles \subseteq DOMAIN guildRoles'
  BY <1>1, <1>3 DEF LegacyOK
<1>4. CASE WriteUser
  BY <1>2, <1>3, <1>4 DEF WriteUser, ReturnMember, JoinGuild, Put, userTables
<1>5. CASE UpdateRole
  BY <1>2, <1>3, <1>5 DEF UpdateRole, UpdateMembershipRole
<1>6. CASE WriteProfile
  BY <1>2, <1>6 DEF WriteProfile, userTables
<1> QED BY <1>2, <1>4, <1>5, <1>6
    DEF MemberStep, AskForTag, CheckTag, RefuseTag, ReadUser, MissClub, ReadProfile,
        LookupProfiles, SendProfile, UpdateUDiscIdentity, AnswerUser, MatchScorecard, userTables
-----------------------------------------------------------------------------
LEMMA InitEstablishes == Init => SignInInv
<1> SUFFICES ASSUME Init PROVE SignInInv
  OBVIOUS
<1>1. PICK cs \in Scenarios : cs = commands
  BY DEF Init, GuildInit
<1>2. PICK t : t = InitialTables(cs)
  OBVIOUS
<1>3. /\ clubs = t.clubs /\ configs = t.configs
      /\ users = t.users /\ guildRoles = t.guildRoles /\ members = t.members
      /\ links = <<>> /\ tokens = t.tokens /\ devices = t.devices
      /\ calls = {} /\ called = t.called /\ replayed = {}
      /\ msgs = cs /\ open = {} /\ redelivered = 0
  BY <1>1, <1>2 DEF Init, GuildInit
<1>4. /\ ClubsOK /\ ConfigsOK /\ UsersOK /\ RolesOK /\ MembersOK
      /\ tokens \in Seq(Token) /\ devices \in [Devices -> Device] /\ called \in Nat
      /\ \A d \in Devices : devices[d].cookie # None =>
           /\ devices[d].cookie \in DOMAIN tokens /\ ~tokens[devices[d].cookie].revoked
           /\ \A e \in Devices : devices[e].cookie = devices[d].cookie => e = d
           /\ devices[d].ticket # None => devices[d].ticket.token = devices[d].cookie
  BY <1>2, <1>3, TablesAssumption DEF ClubsOK, ConfigsOK, UsersOK, RolesOK, MembersOK
<1>5. DevicesOK
  BY <1>4 DEF DevicesOK, DevicesKeepTheirSessions, HasSession
<1>6. CallsOK
  BY <1>3, <1>4 DEF CallsOK
<1>7. links \in Seq(Link)
  BY <1>3
<1>8. \A m \in msgs : GoodMessage(m)
  BY <1>3, RequestsAssumption DEF GoodMessage, Message, Requests
<1>9. InFlight
  BY <1>3, <1>8, RedeliveriesAssumption DEF InFlight, RedeliveriesBounded
<1> QED BY <1>4, <1>5, <1>6, <1>7, <1>9 DEF SignInInv, TablesOK, SessionsOK

LEMMA StepsKeep ==
  ASSUME SignInInv, LegacyOK, [Next]_vars
  PROVE  Kept /\ LegacyOK'
<1>1. CASE UNCHANGED vars
  <2>1. UNCHANGED <<delivery, guildTables, userTables>> /\ UNCHANGED sessions
    BY <1>1 DEF vars
  <2>2. SessionsOK' /\ DOMAIN links \subseteq DOMAIN links'
    BY <2>1, SameSessions DEF SignInInv, sessions
  <2>3. LegacyOK'
    BY <1>1 DEF vars, userTables, sessions, LegacyOK
  <2> QED BY <2>1, <2>2, <2>3, HttpStepKeeps
<1>2. CASE Next
  <2>1. Kept
    BY <1>2, GuildStepsKeep, MemberStepsKeep, SignInStepsKeep DEF Next
  <2>2. LegacyOK'
    BY <1>2, OthersKeepLegacy, CallsFollow DEF Next
  <2> QED BY <2>1, <2>2
<1> QED BY <1>1, <1>2

LEMMA SignInSteps == Spec => [](SignInInv /\ LegacyOK)
<1>1. Init => LegacyOK
  BY DEF Init, LegacyOK
<1>2. SignInInv /\ LegacyOK /\ [Next]_vars => SignInInv' /\ LegacyOK'
  BY StepsKeep DEF Kept
<1> QED BY <1>1, <1>2, InitEstablishes, PTL DEF Spec

THEOREM SignInInvariant == Spec => []SignInInv
BY SignInSteps, PTL

\* Clubs, users, memberships and sessions have their types, and the rows belong together.
THEOREM MembersTypeCorrect == Spec => []TypeOK
<1>1. SignInInv => TypeOK
  BY DEF SignInInv, TablesOK, ClubsOK, ConfigsOK, UsersOK, RolesOK, MembersOK, SessionsOK,
         DevicesOK, TypeOK
<1> QED BY <1>1, SignInInvariant, PTL

\* Devices do not end each other's sessions, however their calls interleave and
\* whichever answers are lost.  (GetTicket, LoginUser, LogoutUser)
THEOREM DevicesStaySignedIn == Spec => []DevicesKeepTheirSessions
<1>1. SignInInv => DevicesKeepTheirSessions
  BY DEF SignInInv, SessionsOK, DevicesOK
<1> QED BY <1>1, SignInInvariant, PTL

\* The ticket a device holds connects it while it has its session and nothing has
\* expired.  (GetTicket, HandleNATSAuthRequest)
THEOREM TicketsOfSessionsConnect == Spec => []TicketsConnect
<1>1. ASSUME SignInInv PROVE TicketsConnect
  <2> SUFFICES ASSUME NEW d \in Devices, HasSession(d), devices[d].ticket # None, expired = {}
               PROVE  Connects(devices[d].ticket)
    BY DEF TicketsConnect
  <2>1. devices[d].cookie # None /\ ~tokens[devices[d].cookie].revoked
    BY <1>1 DEF HasSession, SignInInv, SessionsOK, DevicesOK, DevicesKeepTheirSessions
  <2>2. devices[d].cookie \in DOMAIN tokens /\ devices[d].ticket.token = devices[d].cookie
    BY <1>1, <2>1 DEF SignInInv, SessionsOK, DevicesOK
  <2> QED BY <2>1, <2>2 DEF Connects, Expired
<1> QED BY <1>1, SignInInvariant, PTL

\* A display name is never emptied, but by a profile read before there was one.
\* (UpdateUserProfile)
THEOREM DisplayNamesStay == Spec => NamesAreKept
<1>1. SignInInv /\ LegacyOK /\ [Next]_vars => NamesKept
  BY StepsKeep DEF Kept
<1> QED BY <1>1, SignInSteps, PTL DEF Spec, NamesAreKept, NamesKept

\* Signing up again and profiles never change what a member may do, but by a handler
\* that had looked before the membership was what it is.  (executeCreateUser,
\* UpdateUserProfile, backfillClubMemberships)
THEOREM MembersKeepTheirRights == Spec => RightsAreKept
<1>1. SignInInv /\ LegacyOK /\ [Next]_vars => RightsStay
  BY StepsKeep DEF Kept
<1> QED BY <1>1, SignInSteps, PTL DEF Spec, RightsAreKept, RightsStay
-----------------------------------------------------------------------------
\* Setups and sign-ups are kept: what may have become of them is in somebody's hands.

SetupTypes == {"setup", "create", "created", "creationFailed"}
SignUpTypes == {"signup", "tagCheck", "available", "unavailable", "signupFailed", "signedUp"}

OfSetup(m, g) == m.type \in SetupTypes /\ m.guild = g
OfSignUp(m, u, g) ==
  /\ m.type \in SignUpTypes /\ m.user = u /\ m.guild = g
  /\ m.type = "signedUp" => InGuild(u, g)

SetupKept(g) == \E m \in InHand : OfSetup(m, g)
SignUpKept(u, g) == \E m \in InHand : OfSignUp(m, u, g)

\* A step does not lose a setup, or a sign-up.
SetupsHold == \A g : SetupKept(g) => SetupKept(g)'
SignUpsHold == \A u, g : SignUpKept(u, g) => SignUpKept(u, g)'

\* Guild memberships are only added.
RolesGrow == DOMAIN guildRoles \subseteq DOMAIN guildRoles'

LEMMA SetupsPass ==
  /\ \A m, out : Handle(m, out) /\ (\A g : OfSetup(m, g) => \E x \in out : OfSetup(x, g))
       => SetupsHold
  /\ \A t, out : Commit(t, out) /\ (\A g : OfSetup(t.msg, g) => \E x \in out : OfSetup(x, g))
       => SetupsHold
  /\ \A t : Open(t) \/ Abort(t) \/ Refuse(t) => SetupsHold
<1>1. ASSUME NEW m, NEW out, Handle(m, out), \A g : OfSetup(m, g) => \E x \in out : OfSetup(x, g)
      PROVE  SetupsHold
  BY <1>1, HandsKeep, HandsPass DEF SetupsHold, SetupKept, OfSetup
<1>2. ASSUME NEW t, NEW out, Commit(t, out),
             \A g : OfSetup(t.msg, g) => \E x \in out : OfSetup(x, g)
      PROVE  SetupsHold
  BY <1>2, HandsKeep, HandsPass DEF SetupsHold, SetupKept, OfSetup
<1>3. \A t : Open(t) \/ Abort(t) \/ Refuse(t) => SetupsHold
  BY HandsKeep DEF SetupsHold, SetupKept, OfSetup
<1> QED BY <1>1, <1>2, <1>3

LEMMA StillOfSignUp ==
  ASSUME RolesGrow
  PROVE  \A m, u, g : OfSignUp(m, u, g) => OfSignUp(m, u, g)'
  BY DEF RolesGrow, OfSignUp, InGuild

LEMMA SignUpsPass ==
  ASSUME RolesGrow
  PROVE
  /\ \A m, out : Handle(m, out) /\ (\A u, g : OfSignUp(m, u, g) => \E x \in out : OfSignUp(x, u, g)')
       => SignUpsHold
  /\ \A t, out : Commit(t, out)
                 /\ (\A u, g : OfSignUp(t.msg, u, g) => \E x \in out : OfSignUp(x, u, g)')
       => SignUpsHold
  /\ \A t : Open(t) \/ Abort(t) \/ Refuse(t) => SignUpsHold
<1>1. ASSUME NEW m, NEW out, Handle(m, out),
             \A u, g : OfSignUp(m, u, g) => \E x \in out : OfSignUp(x, u, g)'
      PROVE  SignUpsHold
  BY <1>1, StillOfSignUp, HandsKeep, HandsPass DEF SignUpsHold, SignUpKept
<1>2. ASSUME NEW t, NEW out, Commit(t, out),
             \A u, g : OfSignUp(t.msg, u, g) => \E x \in out : OfSignUp(x, u, g)'
      PROVE  SignUpsHold
  BY <1>2, StillOfSignUp, HandsKeep, HandsPass DEF SignUpsHold, SignUpKept
<1>3. \A t : Open(t) \/ Abort(t) \/ Refuse(t) => SignUpsHold
  BY StillOfSignUp, HandsKeep DEF SignUpsHold, SignUpKept
<1> QED BY <1>1, <1>2, <1>3

\* Handlers of other messages have nothing to do with them.
LEMMA AsideFromSetups ==
  /\ \A m, out : m.type \notin SetupTypes /\ Handle(m, out) => SetupsHold
  /\ \A t, out : t.msg.type \notin SetupTypes /\ Commit(t, out) => SetupsHold
  BY SetupsPass DEF OfSetup

LEMMA AsideFromSignUps ==
  ASSUME RolesGrow
  PROVE  /\ \A m, out : m.type \notin SignUpTypes /\ Handle(m, out) => SignUpsHold
         /\ \A t, out : t.msg.type \notin SignUpTypes /\ Commit(t, out) => SignUpsHold
  BY SignUpsPass DEF OfSignUp

LEMMA NothingTaken ==
  ASSUME RolesGrow, UNCHANGED delivery
  PROVE  SetupsHold /\ SignUpsHold
<1>1. InHand' = InHand
  BY DEF InHand, delivery
<1> QED BY <1>1, StillOfSignUp DEF SetupsHold, SignUpsHold, SetupKept, SignUpKept, OfSetup

\* The guild and club modules take no sign-up, and pass setups on.
LEMMA GuildStepsHold ==
  ASSUME GuildStep, UNCHANGED userTables
  PROVE  SetupsHold /\ SignUpsHold
<1>r. RolesGrow
  BY DEF RolesGrow, userTables
<1>o. \A t : Open(t) \/ Abort(t) \/ Refuse(t) => SetupsHold /\ SignUpsHold
  BY <1>r, SetupsPass, SignUpsPass
<1>1. CASE ReadClub
  BY <1>1, <1>o DEF ReadClub
<1>2. CASE WriteClub
  <2>1. PICK t \in OpenFor("setup") \cup OpenFor("sync") :
          Commit(t, Forwarded(t.msg)) \/ Refuse(t) \/ Abort(t)
    BY <1>2 DEF WriteClub, RefuseClub
  <2>2. t.msg.type \in {"setup", "sync"}
    BY DEF OpenFor
  <2>3. ASSUME NEW g, OfSetup(t.msg, g) PROVE \E x \in Forwarded(t.msg) : OfSetup(x, g)
    BY <2>2, <2>3 DEF Forwarded, OfSetup, SetupTypes
  <2>4. t.msg.type \notin SignUpTypes
    BY <2>2 DEF SignUpTypes
  <2> QED BY <1>r, <1>o, <2>1, <2>3, <2>4, SetupsPass, AsideFromSignUps
<1>3. CASE AnswerClubInfo \/ AnswerUpdate \/ AnswerDeletion \/ AnswerRetrieval
  <2>1. ASSUME NEW m, NEW out, Handle(m, out), m.type \in {"club", "update", "delete", "retrieve"}
        PROVE  SetupsHold /\ SignUpsHold
    <3>1. m.type \notin SetupTypes /\ m.type \notin SignUpTypes
      BY <2>1 DEF SetupTypes, SignUpTypes
    <3> QED BY <1>r, <2>1, <3>1, AsideFromSetups, AsideFromSignUps
  <2>2. \A type : \A m \in Of(type) : m.type = type
    BY DEF Of
  <2>3. CASE AnswerClubInfo
    BY <2>1, <2>2, <2>3 DEF AnswerClubInfo
  <2>4. CASE AnswerUpdate
    BY <2>1, <2>2, <2>4 DEF AnswerUpdate
  <2>5. CASE AnswerDeletion
    BY <2>1, <2>2, <2>5 DEF AnswerDeletion
  <2>6. CASE AnswerRetrieval
    BY <2>1, <2>2, <2>6 DEF AnswerRetrieval
  <2> QED BY <1>3, <2>3, <2>4, <2>5, <2>6
<1>4. CASE AnswerCreation
  <2>1. PICK m, type, s :
          /\ m \in Of("create") /\ type \in {"created", "creationFailed"}
          /\ Handle(m, {Answer(type, m, s)})
    BY <1>4 DEF AnswerCreation
  <2>2. m.type = "create" /\ m.type \notin SignUpTypes
    BY <2>1 DEF Of, SignUpTypes
  <2>3. ASSUME NEW g, OfSetup(m, g) PROVE OfSetup(Answer(type, m, s), g)
    BY <2>1, <2>3 DEF Answer, OfSetup, SetupTypes
  <2> QED BY <1>r, <2>1, <2>2, <2>3, SetupsPass, AsideFromSignUps
<1>5. CASE ReadConfig \/ ReadDeletion
  BY <1>5, <1>o DEF ReadConfig, ReadDeletion
<1>6. CASE WriteConfig
  <2>1. PICK t \in OpenFor("create") :
          Commit(t, {Answer("created", t.msg, t.msg.settings)}) \/ Abort(t)
    BY <1>6 DEF WriteConfig
  <2>2. t.msg.type = "create" /\ t.msg.type \notin SignUpTypes
    BY DEF OpenFor, SignUpTypes
  <2>3. ASSUME NEW g, OfSetup(t.msg, g)
        PROVE  OfSetup(Answer("created", t.msg, t.msg.settings), g)
    BY <2>3 DEF Answer, OfSetup, SetupTypes
  <2> QED BY <1>r, <1>o, <2>1, <2>2, <2>3, SetupsPass, AsideFromSignUps
<1>7. CASE WriteDeletion
  <2>1. PICK t, out : t \in OpenFor("delete") /\ (Commit(t, out) \/ Abort(t))
    BY <1>7 DEF WriteDeletion
  <2>2. t.msg.type \notin SetupTypes /\ t.msg.type \notin SignUpTypes
    BY <2>1 DEF OpenFor, SetupTypes, SignUpTypes
  <2> QED BY <1>r, <1>o, <2>1, <2>2, AsideFromSetups, AsideFromSignUps
<1> QED BY <1>1, <1>2, <1>3, <1>4, <1>5, <1>6, <1>7 DEF GuildStep

\* Who is told of a membership when a sign-up is written has it.
LEMMA WriteUserHolds ==
  ASSUME SignInInv, WriteUser
  PROVE  RolesGrow /\ SetupsHold /\ SignUpsHold
<1>1. PICK t \in OpenFor("signup") \cup OpenFor("available") :
        \/ t.member /\ ReturnMember(t) /\ Commit(t, SignedUp(t))
        \/ ~t.member /\ JoinGuild(t) /\ Commit(t, SignedUp(t))
        \/ Refuse(t) /\ UNCHANGED userTables
        \/ Abort(t) /\ UNCHANGED userTables
  BY DEF WriteUser
<1>2. t.msg.type \in {"signup", "available"} /\ (t.member => InGuild(t.msg.user, t.msg.guild))
  BY CallFacts DEF SignInInv, SignUpRead, GoodTransaction
<1>3. t.msg.type \notin SetupTypes
  BY <1>2 DEF SetupTypes
<1>4. RolesGrow /\ (Commit(t, SignedUp(t)) /\ ~Refuse(t) /\ ~Abort(t) =>
                      InGuild(t.msg.user, t.msg.guild)')
  <2>1. CASE t.member /\ ReturnMember(t)
    BY <1>2, <2>1 DEF ReturnMember, RolesGrow, InGuild
  <2>2. CASE JoinGuild(t)
    <3>1. guildRoles' = Put(guildRoles, <<t.msg.user, t.msg.guild>>, "User")
      BY <2>2 DEF JoinGuild
    <3>2. DOMAIN guildRoles' = DOMAIN guildRoles \cup {<<t.msg.user, t.msg.guild>>}
      BY <3>1, PutFacts
    <3> QED BY <3>2 DEF RolesGrow, InGuild
  <2>3. CASE UNCHANGED userTables /\ (Refuse(t) \/ Abort(t))
    BY <2>3 DEF userTables, RolesGrow
  <2> QED BY <1>1, <2>1, <2>2, <2>3
<1>5. CASE Refuse(t) \/ Abort(t)
  BY <1>4, <1>5, SetupsPass, SignUpsPass
<1>6. CASE Commit(t, SignedUp(t)) /\ InGuild(t.msg.user, t.msg.guild)'
  <2>1. ASSUME NEW u, NEW g, OfSignUp(t.msg, u, g)
        PROVE  Reply("signedUp", t.msg) \in SignedUp(t) /\ OfSignUp(Reply("signedUp", t.msg), u, g)'
    BY <1>6, <2>1 DEF SignedUp, Reply, OfSignUp, SignUpTypes
  <2>2. \A u, g : OfSignUp(t.msg, u, g) => \E x \in SignedUp(t) : OfSignUp(x, u, g)'
    BY <2>1
  <2> QED BY <1>3, <1>4, <1>6, <2>2, AsideFromSetups, SignUpsPass
<1> QED BY <1>1, <1>4, <1>5, <1>6

\* The user module takes no setup, and passes sign-ups on.
LEMMA MemberStepsHold ==
  ASSUME SignInInv, MemberStep
  PROVE  SetupsHold /\ SignUpsHold
<1>1. CASE WriteUser
  BY <1>1, WriteUserHolds
<1>2. CASE ~WriteUser
  <2>r. RolesGrow
    BY <1>2 DEF MemberStep, AskForTag, CheckTag, RefuseTag, ReadUser, MissClub, ReadProfile,
       WriteProfile, LookupProfiles, SendProfile, UpdateRole, UpdateMembershipRole,
       UpdateUDiscIdentity, AnswerUser, MatchScorecard, RolesGrow, userTables
  <2>o. \A t : Open(t) \/ Abort(t) \/ Refuse(t) => SetupsHold /\ SignUpsHold
    BY <2>r, SetupsPass, SignUpsPass
  <2>1. CASE AskForTag \/ CheckTag \/ RefuseTag
    <3>1. ASSUME NEW m, NEW x, NEW out, x \in out, Handle(m, out), x.user = m.user, x.guild = m.guild,
                 m.type \in {"signup", "tagCheck", "unavailable"},
                 x.type \in SignUpTypes \ {"signedUp"}
          PROVE  SetupsHold /\ SignUpsHold
      <4>1. m.type \notin SetupTypes
        BY <3>1 DEF SetupTypes
      <4>2. ASSUME NEW u, NEW g, OfSignUp(m, u, g) PROVE OfSignUp(x, u, g)'
        BY <3>1, <4>2 DEF OfSignUp
      <4>3. \A u, g : OfSignUp(m, u, g) => \E y \in out : OfSignUp(y, u, g)'
        BY <3>1, <4>2
      <4> QED BY <2>r, <3>1, <4>1, <4>3, AsideFromSetups, SignUpsPass
    <3>2. CASE AskForTag
      <4>1. PICK m, x, out :
              /\ m \in Of("signup")
              /\ x = [type |-> "tagCheck", user |-> m.user, guild |-> m.guild, tag |-> m.tag]
              /\ out = {x} \cup SyncOf(m) /\ Handle(m, out)
        BY <3>2 DEF AskForTag
      <4>2. m.type = "signup" /\ x \in out /\ x.user = m.user /\ x.guild = m.guild
            /\ x.type \in SignUpTypes \ {"signedUp"}
        BY <4>1 DEF Of, SignUpTypes
      <4> QED BY <3>1, <4>1, <4>2
    <3>3. CASE CheckTag
      <4>1. PICK m, type, x :
              /\ m \in Of("tagCheck") /\ type \in {"available", "unavailable"}
              /\ x = [m EXCEPT !.type = type] /\ Handle(m, {x})
        BY <3>3 DEF CheckTag
      <4>2. m \in [type : {"tagCheck"}, user : Users, guild : Guilds, tag : Int \cup {None}]
        BY <4>1, CallFacts, MessageShapes DEF SignInInv, Answers
      <4>3. x.user = m.user /\ x.guild = m.guild /\ x.type \in SignUpTypes \ {"signedUp"}
            /\ m.type = "tagCheck"
        BY <4>1, <4>2 DEF SignUpTypes
      <4> QED BY <3>1, <4>1, <4>3
    <3>4. CASE RefuseTag
      <4>1. PICK m, x :
              m \in Of("unavailable") /\ x = Reply("signupFailed", m) /\ Handle(m, {x})
        BY <3>4 DEF RefuseTag
      <4>2. m.type = "unavailable" /\ x.user = m.user /\ x.guild = m.guild
            /\ x.type \in SignUpTypes \ {"signedUp"}
        BY <4>1 DEF Of, Reply, SignUpTypes
      <4> QED BY <3>1, <4>1, <4>2
    <3> QED BY <2>1, <3>2, <3>3, <3>4
  <2>2. CASE ReadUser \/ ReadProfile
    BY <2>2, <2>o DEF ReadUser, ReadProfile
  <2>3. CASE WriteProfile
    <3>1. PICK t \in OpenFor("profile") : Commit(t, {}) \/ Abort(t)
      BY <2>3 DEF WriteProfile
    <3>2. t.msg.type \notin SetupTypes /\ t.msg.type \notin SignUpTypes
      BY DEF OpenFor, SetupTypes, SignUpTypes
    <3> QED BY <2>r, <2>o, <3>1, <3>2, AsideFromSetups, AsideFromSignUps
  <2>4. CASE \/ MissClub \/ LookupProfiles \/ SendProfile \/ UpdateRole \/ UpdateUDiscIdentity
             \/ AnswerUser \/ MatchScorecard
    <3>1. PICK m, out : Handle(m, out) /\ m.type \in {"profile", "lookup", "profileRequest", "role",
                                                      "udisc", "getUser", "getRole", "scorecard"}
      BY <2>4 DEF MissClub, LookupProfiles, SendProfile, UpdateRole, UpdateUDiscIdentity,
         AnswerUser, MatchScorecard, Of
    <3>2. m.type \notin SetupTypes /\ m.type \notin SignUpTypes
      BY <3>1 DEF SetupTypes, SignUpTypes
    <3> QED BY <2>r, <3>1, <3>2, AsideFromSetups, AsideFromSignUps
  <2> QED BY <1>2, <2>1, <2>2, <2>3, <2>4 DEF MemberStep
<1> QED BY <1>1, <1>2

\* The auth module takes neither.
LEMMA SignInStepsHold ==
  ASSUME SignInStep
  PROVE  SetupsHold /\ SignUpsHold
<1>1. CASE MakeLink
  <2>1. PICK m \in Of("magicLink") : msgs \ {m} \subseteq msgs'
    BY <1>1 DEF MakeLink
  <2>2. UNCHANGED <<open, guildRoles>>
    BY <1>1 DEF MakeLink, userTables
  <2>3. m.type \notin SetupTypes /\ m.type \notin SignUpTypes
    BY DEF Of, SetupTypes, SignUpTypes
  <2>4. InHand \subseteq InHand' \cup {m}
    BY <2>1, <2>2 DEF InHand
  <2>5. RolesGrow
    BY <2>2 DEF RolesGrow
  <2>6. SetupsHold
    BY <2>3, <2>4 DEF SetupsHold, SetupKept, OfSetup
  <2>7. \A u, g : ~OfSignUp(m, u, g)
    BY <2>3 DEF OfSignUp
  <2>8. SignUpsHold
    BY <2>4, <2>5, <2>7, StillOfSignUp DEF SignUpsHold, SignUpKept
  <2> QED BY <2>6, <2>8
<1>2. CASE ~MakeLink
  <2>1. UNCHANGED delivery /\ UNCHANGED guildRoles
    BY <1>2 DEF SignInStep, Send, ReadLink, LoginUser, RefuseTicket, ReadToken,
       BackfillClubMemberships, ReadLegacy, BackfillClubMembership,
         ReadAgain, Rotate, Logout, Expire, userTables
  <2>2. RolesGrow
    BY <2>1 DEF RolesGrow
  <2> QED BY <2>1, <2>2, NothingTaken
<1> QED BY <1>1, <1>2

LEMMA CommandsStay == Next => UNCHANGED commands
<1>1. GuildStep => UNCHANGED commands
  BY DEF GuildStep, ReadClub, WriteClub, AnswerClubInfo, AnswerCreation, ReadConfig, WriteConfig,
     AnswerUpdate, AnswerDeletion, ReadDeletion, WriteDeletion, AnswerRetrieval
<1>2. MemberStep => UNCHANGED commands
  BY DEF MemberStep, AskForTag, CheckTag, RefuseTag, ReadUser, WriteUser, MissClub, ReadProfile,
     WriteProfile, LookupProfiles, SendProfile, UpdateRole, UpdateUDiscIdentity, AnswerUser,
     MatchScorecard
<1>3. SignInStep => UNCHANGED commands
  BY DEF SignInStep, MakeLink, Send, ReadLink, LoginUser, RefuseTicket, ReadToken,
     BackfillClubMemberships, ReadLegacy, BackfillClubMembership,
         ReadAgain, Rotate, Logout, Expire
<1> QED BY <1>1, <1>2, <1>3 DEF Next

LEMMA StepsHold ==
  ASSUME SignInInv, [Next]_vars
  PROVE  SetupsHold /\ SignUpsHold /\ UNCHANGED commands
<1>1. CASE Next
  BY <1>1, GuildStepsHold, MemberStepsHold, SignInStepsHold, CommandsStay DEF Next
<1>2. CASE UNCHANGED vars
  BY <1>2, NothingTaken DEF vars, userTables, RolesGrow
<1> QED BY <1>1, <1>2

\* No setup is dropped between the club and its configuration, nor when another handler
\* inserts the club first.  (HandleGuildSetup, upsertClubFromDiscordLogic)
THEOREM SetupsAreAlwaysKept == Spec => []SetupsAreKept
<1>1. Init => SetupsAreKept
  BY DEF Init, GuildInit, SetupsAreKept, InHand
<1>2. SetupsAreKept /\ SignInInv /\ [Next]_vars => SetupsAreKept'
  <2>1. SetupsAreKept <=> \A c \in commands : c.type = "setup" => SetupKept(c.guild)
    BY DEF SetupsAreKept, SetupKept, OfSetup, SetupTypes
  <2>2. SetupsAreKept' <=> \A c \in commands' : c.type = "setup" => SetupKept(c.guild)'
    BY DEF SetupsAreKept, SetupKept, OfSetup, SetupTypes
  <2> QED BY <2>1, <2>2, StepsHold DEF SetupsHold
<1> QED BY <1>1, <1>2, SignInInvariant, PTL DEF Spec

\* No sign-up is dropped, also when another request inserts the user first; who is told
\* of a membership has it.  (HandleUserSignupRequest, executeCreateUser)
THEOREM SignUpsAreAlwaysKept == Spec => []SignUpsAreKept
<1>1. Init => SignUpsAreKept
  BY DEF Init, GuildInit, SignUpsAreKept, InHand
<1>2. SignUpsAreKept /\ SignInInv /\ [Next]_vars => SignUpsAreKept'
  <2>1. SignUpsAreKept <=> \A c \in commands : c.type = "signup" => SignUpKept(c.user, c.guild)
    BY DEF SignUpsAreKept, SignUpKept, OfSignUp, SignUpTypes
  <2>2. SignUpsAreKept' <=> \A c \in commands' : c.type = "signup" => SignUpKept(c.user, c.guild)'
    BY DEF SignUpsAreKept, SignUpKept, OfSignUp, SignUpTypes
  <2> QED BY <2>1, <2>2, StepsHold DEF SignUpsHold
<1> QED BY <1>1, <1>2, SignInInvariant, PTL DEF Spec

-----------------------------------------------------------------------------
\* Deletions are kept: on their way, or announced with what the row says.
OfDeletion(m, g) ==
  /\ m.type \in {"delete", "deleted"} /\ m.guild = g
  /\ m.type = "deleted" /\ Known(g) /\ ~Active(g) => m.settings = Snapshot(g)
DeletionKept(g) == \E m \in InHand : OfDeletion(m, g)
DeletionsHold == \A g : DeletionKept(g) => DeletionKept(g)'

\* The row says of a deletion what it said, or says nothing of it any more.
Remembered(g) == (Known(g) /\ ~Active(g))' => Known(g) /\ ~Active(g) /\ Snapshot(g)' = Snapshot(g)

LEMMA StillOfDeletion ==
  \A m, g : Remembered(g) /\ OfDeletion(m, g) => OfDeletion(m, g)'
  BY DEF Remembered, OfDeletion

\* What is neither taken nor contradicted is kept.
LEMMA DeletionsLeft ==
  ASSUME \A g : Remembered(g), \A m \in InHand : m.type \in {"delete", "deleted"} => m \in InHand'
  PROVE  DeletionsHold
BY StillOfDeletion DEF DeletionsHold, DeletionKept, OfDeletion

\* Whoever handles something else takes no deletion.
LEMMA OthersLeave ==
  LET Leaves == \A m \in InHand : m.type \in {"delete", "deleted"} => m \in InHand' IN
  /\ \A m, out : Handle(m, out) /\ m.type \notin {"delete", "deleted"} => Leaves
  /\ \A t, out : Commit(t, out) /\ t.msg.type \notin {"delete", "deleted"} => Leaves
  /\ \A t : Open(t) \/ Abort(t) \/ Refuse(t) => Leaves
BY HandsKeep

\* Creations and updates leave nothing of a deletion in the row they write.
LEMMA ConfigsRemember ==
  ASSUME SignInInv
  PROVE  /\ UNCHANGED configs => \A g : Remembered(g)
         /\ \A h, settings : SaveConfig(h, settings) => \A g : Remembered(g)
         /\ \A h, settings : Active(h) /\ UpdateConfig(h, settings) => \A g : Remembered(g)
<1>1. UNCHANGED configs => \A g : Remembered(g)
  BY DEF Remembered, Known, Active, Snapshot
<1>2. ASSUME NEW h, NEW settings, SaveConfig(h, settings), NEW g PROVE Remembered(g)
  <2>1. PICK row : row.active = TRUE /\ configs' = Put(configs, h, row)
    BY <1>2 DEF SaveConfig
  <2>2. DOMAIN configs' = DOMAIN configs \cup {h} /\ configs'[h] = row
        /\ \A x \in DOMAIN configs : x # h => configs'[x] = configs[x]
    BY <2>1 DEF Put
  <2>3. CASE g = h
    BY <2>1, <2>2, <2>3 DEF Remembered, Active
  <2>4. CASE g # h
    BY <2>2, <2>4 DEF Remembered, Known, Active, Snapshot
  <2> QED BY <2>3, <2>4
<1>3. ASSUME NEW h, NEW settings, Active(h), UpdateConfig(h, settings), NEW g PROVE Remembered(g)
  <2>1. configs[h] \in Config /\ h \in DOMAIN configs
    BY <1>3 DEF SignInInv, TablesOK, ConfigsOK, Active, Known
  <2>2. DOMAIN configs' = DOMAIN configs /\ \A x \in DOMAIN configs :
          configs'[x].active = configs[x].active /\ configs'[x].snapshot = configs[x].snapshot
    <3>1. ASSUME NEW x \in DOMAIN configs
          PROVE  configs'[x] = IF x = h THEN [configs[h] EXCEPT !.settings = Merged(@, settings)]
                               ELSE configs[x]
      BY <1>3, <2>1 DEF UpdateConfig
    <3>2. DOMAIN configs' = DOMAIN configs
      BY <1>3 DEF UpdateConfig
    <3> QED BY <2>1, <3>1, <3>2 DEF Config
  <2> QED BY <2>2 DEF Remembered, Known, Active, Snapshot
<1> QED BY <1>1, <1>2, <1>3

\* Whoever handles a deletion publishes what the row says by then.
LEMMA AnswerDeletionHolds ==
  ASSUME SignInInv, AnswerDeletion
  PROVE  DeletionsHold
<1>1. PICK m : /\ m \in Of("delete")
               /\ Handle(m, {Answer("deleted", m, Snapshot(m.guild))}) /\ UNCHANGED configs
  BY DEF AnswerDeletion, guildTables
<1>2. \A g : Remembered(g)
  BY <1>1, ConfigsRemember
<1> SUFFICES ASSUME NEW g, DeletionKept(g) PROVE DeletionKept(g)'
  BY DEF DeletionsHold
<1>3. PICK x \in InHand : OfDeletion(x, g)
  BY DEF DeletionKept
<1>4. CASE x \in InHand'
  BY <1>2, <1>3, <1>4, StillOfDeletion DEF DeletionKept
<1>5. CASE x \notin InHand'
  <2>1. x = m /\ m.guild = g
    BY <1>1, <1>3, <1>5, HandsKeep DEF OfDeletion
  <2>2. PICK a : a = Answer("deleted", m, Snapshot(g))
    OBVIOUS
  <2>3. a \in InHand'
    BY <1>1, <1>5, <2>1, <2>2, HandsPass
  <2>4. OfDeletion(a, g)'
    BY <1>1, <2>1, <2>2 DEF OfDeletion, Answer, Snapshot, Known, Active
  <2> QED BY <2>3, <2>4 DEF DeletionKept
<1> QED BY <1>4, <1>5

\* The row is written before the announcement is published: when the handler dies in
\* between, its message comes again.
LEMMA WriteDeletionHolds ==
  ASSUME SignInInv, WriteDeletion
  PROVE  DeletionsHold
<1>1. PICK t \in OpenFor("delete") :
        \/ /\ DeleteConfig(t.msg.guild, t.settings)
           /\ Commit(t, {Answer("deleted", t.msg, t.settings)})
        \/ Abort(t) /\ UNCHANGED configs
  BY DEF WriteDeletion
<1>2. CASE Abort(t) /\ UNCHANGED configs
  BY <1>2, ConfigsRemember, OthersLeave, DeletionsLeft
<1>3. CASE /\ DeleteConfig(t.msg.guild, t.settings)
           /\ Commit(t, {Answer("deleted", t.msg, t.settings)})
  <2>1. t.msg.type = "delete"
    BY DEF OpenFor
  <2>2. DOMAIN configs' = DOMAIN configs /\ \A x \in DOMAIN configs : configs'[x] =
          IF x = t.msg.guild THEN [active |-> FALSE, deletion |-> "pending",
                                   settings |-> NoSettings, snapshot |-> t.settings]
          ELSE configs[x]
    BY <1>3 DEF DeleteConfig, SignInInv, TablesOK
  <2> SUFFICES ASSUME NEW g, DeletionKept(g) PROVE DeletionKept(g)'
    BY DEF DeletionsHold
  <2>3. CASE g # t.msg.guild
    <3>1. Remembered(g)
      BY <2>2, <2>3 DEF Remembered, Known, Active, Snapshot
    <3>2. PICK x \in InHand : OfDeletion(x, g)
      BY DEF DeletionKept
    <3>3. x \in InHand'
      BY <1>3, <2>3, <3>2, HandsKeep DEF OfDeletion
    <3> QED BY <3>1, <3>2, <3>3, StillOfDeletion DEF DeletionKept
  <2>4. CASE g = t.msg.guild
    <3>1. PICK a : a = Answer("deleted", t.msg, t.settings)
      OBVIOUS
    <3>2. t.msg \in InHand' \/ a \in InHand'
      BY <1>3, <3>1, HandsPass
    <3>3. OfDeletion(a, g)'
      BY <2>2, <2>4, <3>1 DEF OfDeletion, Answer, Snapshot, Known
    <3>4. OfDeletion(t.msg, g)'
      BY <2>1, <2>4 DEF OfDeletion
    <3> QED BY <3>2, <3>3, <3>4 DEF DeletionKept
  <2> QED BY <2>3, <2>4
<1> QED BY <1>1, <1>2, <1>3

LEMMA DeletionStepsHold ==
  ASSUME SignInInv, [Next]_vars
  PROVE  DeletionsHold
<1> DEFINE Leaves == \A m \in InHand : m.type \in {"delete", "deleted"} => m \in InHand'
<1>o. /\ \A m, out : Handle(m, out) /\ m.type \notin {"delete", "deleted"} => Leaves
      /\ \A t, out : Commit(t, out) /\ t.msg.type \notin {"delete", "deleted"} => Leaves
      /\ \A t : Open(t) \/ Abort(t) \/ Refuse(t) => Leaves
  BY OthersLeave
<1>t. \A type : (\A m \in Of(type) : m.type = type) /\ (\A t \in OpenFor(type) : t.msg.type = type)
  BY DEF Of, OpenFor
<1> HIDE DEF Leaves
<1>1. CASE GuildStep
  <2>1. CASE WriteConfig
    <3>1. PICK t \in OpenFor("create") :
            \/ /\ SaveConfig(t.msg.guild, t.msg.settings)
               /\ Commit(t, {Answer("created", t.msg, t.msg.settings)})
            \/ Abort(t) /\ UNCHANGED configs
      BY <2>1 DEF WriteConfig
    <3> QED BY <1>o, <1>t, <3>1, ConfigsRemember, DeletionsLeft DEF Leaves
  <2>2. CASE AnswerUpdate
    <3>1. PICK m, out : /\ m \in Of("update") /\ Handle(m, out)
                        /\ \/ Active(m.guild) /\ UpdateConfig(m.guild, m.settings)
                           \/ UNCHANGED configs
      BY <2>2 DEF AnswerUpdate
    <3> QED BY <1>o, <1>t, <3>1, ConfigsRemember, DeletionsLeft DEF Leaves
  <2>3. CASE ReadClub \/ WriteClub \/ AnswerClubInfo \/ AnswerCreation \/ ReadConfig
             \/ ReadDeletion \/ AnswerRetrieval
    <3>1. UNCHANGED configs
      BY <2>3 DEF ReadClub, WriteClub, AnswerClubInfo, AnswerCreation, ReadConfig, ReadDeletion,
         AnswerRetrieval, guildTables
    <3>2. Leaves
      BY <1>o, <1>t, <2>3 DEF ReadClub, WriteClub, RefuseClub, AnswerClubInfo, AnswerCreation,
         ReadConfig, ReadDeletion, AnswerRetrieval
    <3> QED BY <3>1, <3>2, ConfigsRemember, DeletionsLeft DEF Leaves
  <2> QED BY <1>1, <2>1, <2>2, <2>3, AnswerDeletionHolds, WriteDeletionHolds DEF GuildStep
<1>2. CASE MemberStep
  <2>1. UNCHANGED configs
    BY <1>2 DEF MemberStep, AskForTag, CheckTag, RefuseTag, ReadUser, WriteUser, MissClub,
       ReadProfile, WriteProfile, LookupProfiles, SendProfile, UpdateRole, UpdateUDiscIdentity,
       AnswerUser, MatchScorecard, guildTables
  <2>2. Leaves
    BY <1>2, <1>o, <1>t DEF MemberStep, AskForTag, CheckTag, RefuseTag, ReadUser, WriteUser,
       MissClub, ReadProfile, WriteProfile, LookupProfiles, SendProfile, UpdateRole,
       UpdateUDiscIdentity, AnswerUser, MatchScorecard
  <2> QED BY <2>1, <2>2, ConfigsRemember, DeletionsLeft DEF Leaves
<1>3. CASE SignInStep \/ UNCHANGED vars
  <2>1. UNCHANGED configs
    BY <1>3 DEF SignInStep, MakeLink, Send, ReadLink, LoginUser, RefuseTicket, ReadToken,
       BackfillClubMemberships, ReadLegacy, BackfillClubMembership,
         ReadAgain, Rotate, Logout, Expire, guildTables, vars
  <2>2. CASE MakeLink
    <3>1. PICK m \in Of("magicLink") : msgs \ {m} \subseteq msgs' /\ open' = open
      BY <2>2 DEF MakeLink
    <3> QED BY <1>t, <2>1, <3>1, ConfigsRemember, DeletionsLeft DEF InHand
  <2>3. CASE ~MakeLink
    <3>1. UNCHANGED delivery
      BY <1>3, <2>3 DEF SignInStep, Send, ReadLink, LoginUser, RefuseTicket, ReadToken,
         BackfillClubMemberships, ReadLegacy, BackfillClubMembership,
         ReadAgain, Rotate, Logout, Expire, vars
    <3> QED BY <2>1, <3>1, ConfigsRemember, DeletionsLeft DEF InHand, delivery
  <2> QED BY <2>2, <2>3
<1> QED BY <1>1, <1>2, <1>3 DEF Next

\* No deletion is dropped before it is announced with what the row says, also when its
\* handler dies between the two.  (HandleDeleteGuildConfig, DeleteConfig)
THEOREM DeletionsAreAlwaysKept == Spec => []DeletionsAreKept
<1>1. Init => DeletionsAreKept
  BY DEF Init, GuildInit, DeletionsAreKept, InHand
<1>2. DeletionsAreKept /\ SignInInv /\ [Next]_vars => DeletionsAreKept'
  <2>1. DeletionsAreKept <=> \A c \in commands : c.type = "delete" => DeletionKept(c.guild)
    BY DEF DeletionsAreKept, DeletionKept, OfDeletion
  <2>2. DeletionsAreKept' <=> \A c \in commands' : c.type = "delete" => DeletionKept(c.guild)'
    BY DEF DeletionsAreKept, DeletionKept, OfDeletion
  <2> QED BY <2>1, <2>2, DeletionStepsHold, StepsHold DEF DeletionsHold
<1> QED BY <1>1, <1>2, SignInInvariant, PTL DEF Spec

\* No step loses what an answer needs: a setup on its way to a configuration, a sign-up on
\* its way to a membership, a deletion on its way to its announcement.
THEOREM RequestsAreAlwaysKept == Spec => []RequestsAreKept
BY SetupsAreAlwaysKept, SignUpsAreAlwaysKept, DeletionsAreAlwaysKept, PTL DEF RequestsAreKept
=============================================================================
