------------------------------- MODULE SignIn -------------------------------
(***************************************************************************)
(* The auth module: magic links, the sessions of devices (refresh tokens   *)
(* that are replaced at every use) and the tickets the message server is   *)
(* connected to with.  What a ticket allows comes from club memberships.   *)
(***************************************************************************)
EXTENDS Members, Integers, Sequences, FiniteSets

CONSTANTS
  Devices,
  InitialTables(_),   \* the tables and what devices hold, by scenario
  MaxCalls,        \* bound: HTTP calls, those already made included
  MaxExpiries      \* bound: links, sessions and tickets whose time passes

ASSUME SignInAssumption == MaxCalls \in Nat /\ MaxExpiries \in Nat

VARIABLES
  links,      \* magic links, in the order they were made
  tokens,     \* refresh tokens, in the order they were made
  devices,    \* what each device holds
  calls,      \* HTTP calls, sent or half-way through their handler
  called,     \* calls so far
  expired,    \* links, tokens and tickets whose time has passed
  replayed    \* users one of whose spent tokens was presented

sessions == <<links, tokens, devices, calls, called, expired, replayed>>
vars == <<commands, delivery, guildTables, userTables, sessions>>

LinkRole == {"viewer", "player", "editor", "admin"}

Link == [user : Users, used : BOOLEAN]
Token == [user : Users, family : Nat, revoked : BOOLEAN]
Ticket == [token : Nat, rights : SUBSET (Guilds \X {"view", "play", "edit"})]
Device == [cookie : Nat \cup {None}, ticket : Ticket \cup {None}, current : BOOLEAN]

UDiscNames == [udiscUsername : Names \cup {None}, udiscName : Names \cup {None}]
Requests ==
       [type : {"setup"}, guild : Guilds, name : Names, settings : Settings]
  \cup [type : {"create", "update"}, guild : Guilds, settings : Settings]
  \cup [type : {"delete", "retrieve", "club"}, guild : Guilds]
  \cup [type : {"signup"}, user : Users, guild : Guilds, tag : Int \cup {None},
       udisc : UDiscNames, guildName : Names \cup {None}]
  \cup [type : {"profile"}, user : Users, guild : Guilds \cup {None}, name : Names \cup {None}]
  \cup [type : {"role", "magicLink"}, user : Users, guild : Guilds, role : STRING]
  \cup [type : {"udisc"}, user : Users, guild : Guilds, udisc : UDiscNames]
  \cup [type : {"getUser", "getRole"}, user : Users, guild : Guilds]
  \cup [type : {"scorecard"}, guild : Guilds, names : SUBSET Names]
  \cup [type : {"lookup"}, guild : Guilds, users : SUBSET Users]

Init == LET tables == InitialTables(commands) IN
  /\ GuildInit
  /\ clubs = tables.clubs /\ configs = tables.configs
  /\ users = tables.users /\ guildRoles = tables.guildRoles /\ members = tables.members
  /\ links = <<>> /\ tokens = tables.tokens /\ devices = tables.devices
  /\ calls = {} /\ called = tables.called /\ expired = {} /\ replayed = {}

-----------------------------------------------------------------------------
\* Magic links: requested over the message server, at most once.

NeedsLinkSync(row) == row.display = None \/ ~row.synced

\* GenerateMagicLink
LinkGranted(m) == m.role \in LinkRole /\ Registered(m.user) /\ HasClub(m.guild)
                  /\ InClub(m.user, m.guild)

\* createAndSaveMagicLink
SaveMagicLink(m) == links' = Append(links, [user |-> m.user, used |-> FALSE])

\* HandleMagicLinkRequest
MakeLink == \E m \in Of("magicLink") :
  /\ \/ /\ LinkGranted(m)
        /\ SaveMagicLink(m)
        /\ \E synced \in IF NeedsLinkSync(members[<<m.user, m.guild>>]) THEN {FALSE} ELSE BOOLEAN :
             msgs' = (msgs \ {m})
               \cup {[type |-> "link", user |-> m.user, link |-> Len(links) + 1]}
               \cup IF synced THEN {} ELSE
                      {[type |-> "profileRequest", user |-> m.user, guild |-> m.guild]}
     \/ /\ ~LinkGranted(m)
        /\ msgs' = (msgs \ {m}) \cup {Reply("linkRefused", m)}
        /\ UNCHANGED links
  /\ UNCHANGED <<commands, open, redelivered, guildTables, userTables,
                 tokens, devices, calls, called, expired, replayed>>

-----------------------------------------------------------------------------
\* Devices call over HTTP and may not get the answer.

\* `at' is how far its handler has got, `legacy' what it is still to backfill.
Call(d, op, key) == [n |-> called + 1, device |-> d, op |-> op, key |-> key,
                     at |-> "sent", legacy |-> {}, rights |-> {}]

Send == \E d \in Devices :
  /\ called < MaxCalls
  /\ called' = called + 1
  /\ \/ \E m \in Of("link") : calls' = calls \cup {Call(d, "login", m.link)}
     \/ /\ devices[d].cookie # None
        /\ \E op \in {"ticket", "logout"} :
             calls' = calls \cup {Call(d, op, devices[d].cookie)}
  /\ UNCHANGED <<commands, delivery, guildTables, userTables,
                 links, tokens, devices, expired, replayed>>

Sent(op) == {c \in calls : c.op = op /\ c.at = "sent"}
Ready(op) == {c \in calls : c.op = op /\ c.at = "ready"}
Goes(c, next) == calls' = (calls \ {c}) \cup {next}

End(c) == calls' = calls \ {c}
\* The answer arrives, or it is lost and the device keeps what it has.
Respond(c, held) == \E arrives \in BOOLEAN :
  devices' = [devices EXCEPT ![c.device] = IF arrives THEN held ELSE [@ EXCEPT !.current = FALSE]]

\* LoginUser looks at the link ...
LinkWorks(l) == ~links[l].used /\ <<"link", l>> \notin expired

ReadLink == \E c \in Sent("login") :
  /\ IF LinkWorks(c.key) THEN Goes(c, [c EXCEPT !.at = "ready"]) ELSE End(c)
  /\ UNCHANGED <<commands, delivery, guildTables, userTables,
                 links, tokens, devices, called, expired, replayed>>

MarkLinkUsed(l) == links' = [links EXCEPT ![l].used = TRUE]

\* ... and uses it for a new session.
LoginUser == \E c \in Ready("login") :
  /\ MarkLinkUsed(c.key)
  /\ tokens' = Append(tokens, [user |-> links[c.key].user, family |-> Len(tokens) + 1,
                               revoked |-> FALSE])
  /\ Respond(c, [cookie |-> Len(tokens) + 1, ticket |-> None, current |-> TRUE])
  /\ End(c)
  /\ UNCHANGED <<commands, delivery, guildTables, userTables, called, expired, replayed>>

-----------------------------------------------------------------------------
\* Tickets

MembershipsOf(u) == {k \in DOMAIN members : k[1] = u}

\* Builder.ForRole: what a role may do with the messages of its club.
Rights(role) ==
  CASE role \in {"player", "User"} -> "play"
    [] role \in {"editor", "Editor", "admin"} -> "edit"
    [] OTHER -> "view"
RightsOf(u) == {<<k[2], Rights(members[k].role)>> : k \in MembershipsOf(u)}

Expired(token) == <<"token", token>> \in expired

\* RevokeAllUserTokens: a token that was replaced already is presented again.
RevokeAll(u) == tokens' = [i \in DOMAIN tokens |->
  [tokens[i] EXCEPT !.revoked = @ \/ tokens[i].user = u]]

RefuseTicket == \E c \in Sent("ticket") :
  /\ \/ /\ tokens[c.key].revoked
        /\ RevokeAll(tokens[c.key].user)
        /\ replayed' = replayed \cup {tokens[c.key].user}
     \/ ~tokens[c.key].revoked /\ Expired(c.key) /\ UNCHANGED <<tokens, replayed>>
  /\ End(c)
  /\ UNCHANGED <<commands, delivery, guildTables, userTables,
                 links, devices, called, expired>>

\* GetTicket reads the token and the memberships ...
ReadToken == \E c \in Sent("ticket") :
  LET rights == RightsOf(tokens[c.key].user) IN
  /\ ~tokens[c.key].revoked /\ ~Expired(c.key)
  /\ Goes(c, [c EXCEPT !.at = IF rights = {} THEN "memberless" ELSE "ready", !.rights = rights])
  /\ UNCHANGED <<commands, delivery, guildTables, userTables,
                 links, tokens, devices, called, expired, replayed>>

\* ... and, if there are none, the guild memberships ...
Legacy(u) == {[member |-> k, role |-> guildRoles[k]] : k \in {j \in DOMAIN guildRoles : j[1] = u}}
Memberless == {c \in calls : c.op = "ticket" /\ c.at = "memberless"}
Backfilling == {c \in calls : c.op = "ticket" /\ c.at = "backfill"}

ReadLegacy == \E c \in Memberless :
  LET legacy == Legacy(tokens[c.key].user) IN
  /\ Goes(c, [c EXCEPT !.at = IF legacy = {} THEN "ready" ELSE "backfill", !.legacy = legacy])
  /\ UNCHANGED <<commands, delivery, guildTables, userTables,
                 links, tokens, devices, called, expired, replayed>>

\* ... of which it makes club memberships one by one, in no transaction; guilds
\* without a club and errors are skipped.
BackfillClubMembership == \E c \in Backfilling : \E l \in c.legacy :
  /\ \/ HasClub(l.member[2]) /\ UpsertMember(l.member[1], l.member[2], l.role, None, FALSE)
     \/ UNCHANGED members
  /\ Goes(c, [c EXCEPT !.legacy = @ \ {l}])
  /\ UNCHANGED <<commands, delivery, guildTables, users, guildRoles,
                 links, tokens, devices, called, expired, replayed>>

\* It looks again; an error is as if there were none.
ReadAgain == \E c \in Backfilling : \E rights \in {RightsOf(tokens[c.key].user), {}} :
  /\ c.legacy = {}
  /\ Goes(c, [c EXCEPT !.at = "ready", !.rights = rights])
  /\ UNCHANGED <<commands, delivery, guildTables, userTables,
                 links, tokens, devices, called, expired, replayed>>

BackfillClubMemberships == ReadLegacy \/ BackfillClubMembership \/ ReadAgain

\* Mutant: the ticket names the token that was presented.
TicketForPresented(c) == [token |-> c.key, rights |-> c.rights]
\* The ticket names the token that replaces the one presented.
TicketFor(c) == [token |-> Len(tokens) + 1, rights |-> c.rights]

\* Mutant: all the user's tokens are revoked.
RevokedByUser(c, i) == tokens[i].revoked \/ tokens[i].user = tokens[c.key].user
RevokedBy(c, i) == tokens[i].revoked \/ i = c.key

\* ... and replaces the token.
Rotate == \E c \in Ready("ticket") :
  /\ tokens' = Append([i \in DOMAIN tokens |-> [tokens[i] EXCEPT !.revoked = RevokedBy(c, i)]],
                      [tokens[c.key] EXCEPT !.revoked = FALSE])
  /\ Respond(c, [cookie |-> Len(tokens) + 1, ticket |-> TicketFor(c), current |-> TRUE])
  /\ End(c)
  /\ UNCHANGED <<commands, delivery, guildTables, userTables, links, called, expired, replayed>>

\* LogoutUser
Revoke(i) == tokens' = [tokens EXCEPT ![i].revoked = TRUE]

\* HandleHTTPLogout
Logout == \E c \in Sent("logout") :
  /\ Revoke(c.key)
  /\ Respond(c, [devices[c.device] EXCEPT !.cookie = None])
  /\ End(c)
  /\ UNCHANGED <<commands, delivery, guildTables, userTables,
                 links, called, expired, replayed>>

\* HandleNATSAuthRequest: whether the message server lets a ticket in, changing nothing.
Connects(ticket) ==
  /\ <<"ticket", ticket.token>> \notin expired
  /\ ticket.token \in DOMAIN tokens
  /\ ~tokens[ticket.token].revoked /\ ~Expired(ticket.token)

\* Time passes: what was made first expires first.
Expire == \E kind \in {"link", "token", "ticket"} :
  /\ Cardinality(expired) < MaxExpiries
  /\ \E i \in DOMAIN IF kind = "link" THEN links ELSE tokens :
       /\ <<kind, i>> \notin expired
       /\ \A j \in 1..(i - 1) : <<kind, j>> \in expired
       /\ expired' = expired \cup {<<kind, i>>}
  /\ UNCHANGED <<commands, delivery, guildTables, userTables,
                 links, tokens, devices, calls, called, replayed>>

ASSUME RequestsAssumption == \A cs \in Scenarios : cs \subseteq Requests
\* NULL is no role and no token.
ASSUME NoneAssumption == None \notin ClubRole /\ None \notin Nat
\* The rows belong together; who is in a club and not in its guild may play; no two
\* devices share a token, and theirs are good.
ASSUME TablesAssumption == \A cs \in Scenarios : LET t == InitialTables(cs) IN
  /\ DOMAIN t.clubs \subseteq Guilds /\ t.clubs \in [DOMAIN t.clubs -> Names]
  /\ DOMAIN t.configs \subseteq Guilds /\ t.configs \in [DOMAIN t.configs -> Config]
  /\ DOMAIN t.users \subseteq Users /\ t.users \in [DOMAIN t.users -> UserRow]
  /\ DOMAIN t.guildRoles \subseteq (DOMAIN t.users) \X Guilds
  /\ t.guildRoles \in [DOMAIN t.guildRoles -> GuildRole]
  /\ DOMAIN t.members \subseteq (DOMAIN t.users) \X (DOMAIN t.clubs)
  /\ t.members \in [DOMAIN t.members -> MemberRow]
  /\ \A k \in DOMAIN t.members : k \in DOMAIN t.guildRoles \/ Rights(t.members[k].role) = "play"
  /\ t.tokens \in Seq(Token) /\ t.devices \in [Devices -> Device] /\ t.called \in Nat
  /\ \A d \in Devices : LET cookie == t.devices[d].cookie IN cookie # None =>
       /\ cookie \in DOMAIN t.tokens /\ ~ t.tokens[cookie].revoked
       /\ \A e \in Devices : t.devices[e].cookie = cookie => e = d
       /\ t.devices[d].ticket # None => t.devices[d].ticket.token = cookie

SignInStep ==
  \/ MakeLink \/ Send \/ ReadLink \/ LoginUser
  \/ RefuseTicket \/ ReadToken \/ BackfillClubMemberships \/ Rotate \/ Logout \/ Expire

Next ==
  \/ GuildStep /\ UNCHANGED <<userTables, sessions>>
  \/ MemberStep /\ UNCHANGED sessions
  \/ SignInStep

Spec == Init /\ [][Next]_vars /\ WF_vars(Next)
-----------------------------------------------------------------------------
\* Types of the tables; messages and half-way handlers have the fields of their type.
TypeOK ==
  /\ DOMAIN clubs \subseteq Guilds /\ \A g \in DOMAIN clubs : clubs[g] \in Names
  /\ DOMAIN configs \subseteq Guilds /\ \A g \in DOMAIN configs : configs[g] \in Config
  /\ DOMAIN users \subseteq Users /\ \A u \in DOMAIN users : users[u] \in UserRow
  /\ DOMAIN guildRoles \subseteq (DOMAIN users) \X Guilds
  /\ \A k \in DOMAIN guildRoles : guildRoles[k] \in GuildRole
  /\ DOMAIN members \subseteq (DOMAIN users) \X (DOMAIN clubs)
  /\ \A k \in DOMAIN members : members[k] \in MemberRow
  /\ links \in Seq(Link) /\ tokens \in Seq(Token)
  /\ \A d \in Devices : devices[d].cookie \in DOMAIN tokens \cup {None}

\* Every setup of a guild is answered, with a configuration created or not, also
\* when the club is inserted by a sign-up at the same time.  (upsertClubFromDiscordLogic,
\* HandleGuildSetup, executeCreateGuildConfig)
EverySetupIsAnswered == \A g \in Guilds :
  (\E m \in Of("setup") : m.guild = g)
    ~> (\E a \in Of("created") \cup Of("creationFailed") : a.guild = g)

\* What the bot has to clean up after a deletion is announced, however often the
\* deletion is delivered, unless the guild is set up again first.  (DeleteConfig,
\* executeDeleteGuildConfig)
DeletionsAreAnnounced == \A g \in Guilds, s \in Settings \ {NoSettings} :
  (Known(g) /\ ~Active(g) /\ Snapshot(g) = s)
    ~> (Active(g) \/ \E a \in Of("deleted") : a.guild = g /\ a.settings = s)

\* Every sign-up ends with a membership and an answer that says so, or is refused,
\* whatever it runs into.  (HandleUserSignupRequest, executeCreateUser)
EverySignUpIsAnswered == \A u \in Users, g \in Guilds :
  (\E m \in Of("signup") : m.user = u /\ m.guild = g)
    ~> \/ InGuild(u, g) /\ Reply("signedUp", [user |-> u, guild |-> g]) \in msgs
       \/ Reply("signupFailed", [user |-> u, guild |-> g]) \in msgs

\* Whoever asked is answered in the end: setups, deletions and sign-ups.
RequestsAreAnswered == EverySetupIsAnswered /\ DeletionsAreAnnounced /\ EverySignUpIsAnswered

\* No setup is dropped between the club and its configuration, nor when another handler
\* inserts the club first: it is on its way, or its answer has been published.
SetupsAreKept == \A c \in commands : c.type = "setup" =>
  \E m \in InHand : m.type \in {"setup", "create", "created", "creationFailed"} /\ m.guild = c.guild

\* No sign-up is dropped, also when another request inserts the user first: it is on
\* its way or refused, or the user is told of a membership there is.
SignUpsAreKept == \A c \in commands : c.type = "signup" =>
  \E m \in InHand :
    /\ m.type \in {"signup", "tagCheck", "available", "unavailable", "signupFailed", "signedUp"}
    /\ m.user = c.user /\ m.guild = c.guild
    /\ m.type = "signedUp" => InGuild(c.user, c.guild)

\* No deletion is dropped: it is on its way, also when its handler has died after the
\* row was written, or announced with what the row says now there is to clean up.
DeletionsAreKept == \A c \in commands : c.type = "delete" =>
  \E m \in InHand :
    /\ m.type \in {"delete", "deleted"} /\ m.guild = c.guild
    /\ m.type = "deleted" /\ Known(c.guild) /\ ~Active(c.guild) => m.settings = Snapshot(c.guild)

\* Of what answers need, nothing is lost at any step.
RequestsAreKept == SetupsAreKept /\ SignUpsAreKept /\ DeletionsAreKept

\* A handler that had looked for the club membership of u before it was what it is.
LookedEarly(u, g) ==
  \/ \E t \in OpenFor("signup") \cup OpenFor("available") \cup OpenFor("profile") :
       t.msg.user = u /\ t.msg.guild = g /\ t.role # RoleOf(u, g)
  \/ \E c \in Memberless \cup Backfilling : tokens[c.key].user = u

\* What a member may do in a club is never changed by signing up again or by a
\* profile from Discord, except by a handler that had looked before the membership
\* was what it is.  (user_creation.go:132-139, user_profile.go:73-79)
RightsAreKept == [][
  \A k \in DOMAIN members :
    Rights(members'[k].role) = Rights(members[k].role) \/ LookedEarly(k[1], k[2])]_members

\* A display name is never emptied, except by a profile that was read before there
\* was one.  (user_profile.go:32-38)
NamesAreKept == [][
  \A u \in DOMAIN users : users[u].display # None =>
    users'[u].display # None \/ \E t \in OpenFor("profile") : t.msg.user = u /\ t.old = None]_users

HasSession(d) ==
  /\ devices[d].current /\ devices[d].cookie # None
  /\ tokens[devices[d].cookie].user \notin replayed

\* Devices do not end each other's sessions: while all its answers arrive and no spent
\* token of the user is presented, a device's token stays good.  (GetTicket, LoginUser)
DevicesKeepTheirSessions == \A d \in Devices :
  HasSession(d) => ~tokens[devices[d].cookie].revoked

\* A ticket connects as long as its device has its session and nothing has expired.
\* (GetTicket names the new token in the ticket before that token is saved.)
TicketsConnect == \A d \in Devices :
  HasSession(d) /\ devices[d].ticket # None /\ expired = {} => Connects(devices[d].ticket)

\* "We don't overwrite role or display name for existing members to preserve their
\* state" (user_creation.go:118), of the display names.
SignUpsKeepDisplayNames == [][
  \A k \in DOMAIN members : members[k].display # None => members'[k].display # None]_members
=============================================================================
