------------------------------ MODULE Members ------------------------------
(***************************************************************************)
(* The user module: signing up to a guild, profiles from Discord, roles,   *)
(* UDisc names and the matching of scorecards.  A membership is stored     *)
(* twice, with the guild and with its club.                                *)
(***************************************************************************)
EXTENDS GuildSetup

CONSTANTS
  Users,       \* Discord users
  Names,       \* display names and UDisc names
  TagHolders   \* the leaderboard's tags: a function to Users or None

VARIABLES
  users,       \* the users table, by user
  guildRoles,  \* guild_memberships: role by user and guild
  members      \* club_memberships by user and guild of the club

userTables == <<users, guildRoles, members>>

\* The roles a guild membership may have, and those of club memberships.
GuildRole == {"User", "Editor", "Admin"}
ClubRole == GuildRole \cup {"player"}

NewUser == [udiscUsername |-> None, udiscName |-> None, display |-> None]
UserRow == [DOMAIN NewUser -> Names \cup {None}]
MemberRow == [role : ClubRole, display : Names \cup {None}, synced : BOOLEAN]

Registered(u) == u \in DOMAIN users
InGuild(u, g) == <<u, g>> \in DOMAIN guildRoles
InClub(u, g) == <<u, g>> \in DOMAIN members

DisplayOf(u) == IF Registered(u) THEN users[u].display ELSE None
RoleOf(u, g) == IF InClub(u, g) THEN members[<<u, g>>].role ELSE None

\* UpsertClubMembership overwrites everything.
UpsertMember(u, g, role, display, synced) == members' =
  Put(members, <<u, g>>, [role |-> role, display |-> display, synced |-> synced])

-----------------------------------------------------------------------------
\* Signing up

Reply(type, m) == [type |-> type, user |-> m.user, guild |-> m.guild]

SyncOf(m) == IF m.type # "signup" \/ m.guildName = None THEN {} ELSE
  {[type |-> "sync", guild |-> m.guild, name |-> m.guildName]}

\* HandleUserSignupRequest with a tag: the rest of the request is not passed on.
AskForTag == \E m \in Of("signup") :
  /\ m.tag # None
  /\ Handle(m, {[type |-> "tagCheck", user |-> m.user, guild |-> m.guild, tag |-> m.tag]}
                 \cup SyncOf(m))
  /\ UNCHANGED <<commands, guildTables, userTables>>

\* HandleTagAvailabilityCheckRequested: nothing is reserved.
TagIsFree(tag, u) == tag > 0 /\ (tag \notin DOMAIN TagHolders \/ TagHolders[tag] \in {None, u})

CheckTag == \E m \in Of("tagCheck") :
  /\ Handle(m, {[m EXCEPT !.type = IF TagIsFree(m.tag, m.user) THEN "available"
                                   ELSE "unavailable"]})
  /\ UNCHANGED <<commands, guildTables, userTables>>

\* HandleTagUnavailable
RefuseTag == \E m \in Of("unavailable") :
  /\ Handle(m, {Reply("signupFailed", m)})
  /\ UNCHANGED <<commands, guildTables, userTables>>

\* The requests that create a user, and the UDisc names they bring.
Creations == {m \in Of("signup") : m.tag = None} \cup Of("available")
UDiscOf(m) == IF m.type = "signup" THEN m.udisc ELSE [udiscUsername |-> None, udiscName |-> None]

\* CreateUser reads; of a member of the guild also the club and the role in it.
ReadUser == \E m \in Creations :
  /\ Open([msg |-> m, known |-> Registered(m.user), member |-> InGuild(m.user, m.guild),
           club |-> HasClub(m.guild), role |-> RoleOf(m.user, m.guild)])
  /\ UNCHANGED <<commands, guildTables, userTables>>

\* UpdateGlobalUser: only the UDisc names that are given.
WithUDisc(row, udisc) == [f \in DOMAIN row |->
  IF f \in DOMAIN udisc /\ udisc[f] # None THEN udisc[f] ELSE row[f]]
UpdateGlobalUser(u, udisc) == users' = [users EXCEPT ![u] = WithUDisc(@, udisc)]
\* SaveGlobalUser: when the user is there after all, both UDisc names.
SaveGlobalUser(u, udisc) == users' =
  Put(users, u, [f \in DOMAIN NewUser |-> IF f \in DOMAIN udisc THEN udisc[f]
                                          ELSE DisplayOf(u)])

\* Mutant: the role that was read is not used.
MemberRoleForgetful(t) == "player"
MemberRole(t) == IF t.role = None THEN "player" ELSE t.role

\* A member of the guild signs up again: the club membership is written anew.
ReturnMember(t) ==
  /\ UpdateGlobalUser(t.msg.user, UDiscOf(t.msg))
  /\ IF t.club THEN UpsertMember(t.msg.user, t.msg.guild, MemberRole(t), None, FALSE)
               ELSE UNCHANGED members
  /\ UNCHANGED guildRoles

\* A user joins the guild, and its club when there is one by now.
JoinGuild(t) == LET u == t.msg.user  g == t.msg.guild IN
  /\ IF t.known THEN UpdateGlobalUser(u, UDiscOf(t.msg)) ELSE SaveGlobalUser(u, UDiscOf(t.msg))
  /\ guildRoles' = Put(guildRoles, <<u, g>>, "User")
  /\ IF HasClub(g) THEN UpsertMember(u, g, "player", None, FALSE) ELSE UNCHANGED members

\* Who is a member already is told that all went well, too.
SignedUp(t) == {Reply("signedUp", t.msg)} \cup SyncOf(t.msg)

\* Another request has joined the user since: the membership cannot be inserted.
Joined(t) == ~t.member /\ InGuild(t.msg.user, t.msg.guild)

WriteUser == \E t \in OpenFor("signup") \cup OpenFor("available") :
  /\ \/ t.member /\ ReturnMember(t) /\ Commit(t, SignedUp(t))
     \/ ~t.member /\ ~Joined(t) /\ JoinGuild(t) /\ Commit(t, SignedUp(t))
     \/ Joined(t) /\ Refuse(t) /\ UNCHANGED userTables
     \/ Abort(t) /\ UNCHANGED userTables
  /\ UNCHANGED <<commands, guildTables>>

-----------------------------------------------------------------------------
\* Profiles

\* Mutant: an empty name replaces the one there is.
NameFromDiscord(m) == m.name
\* An empty name from Discord stands for the one there is.
NameFor(m) == IF m.name = None THEN DisplayOf(m.user) ELSE m.name

\* HandleUserProfileUpdated, UpdateUserProfile: without the club everything is
\* rolled back, and the message is acknowledged nevertheless.
MissClub == \E m \in Of("profile") :
  /\ m.guild # None /\ ~HasClub(m.guild)
  /\ Handle(m, {})
  /\ UNCHANGED <<commands, guildTables, userTables>>

\* The row of a user there is not yet is locked by whoever inserts it first.
ReadProfile == \E m \in Of("profile") :
  /\ m.guild = None \/ HasClub(m.guild)
  /\ Open([msg |-> m, known |-> Registered(m.user), old |-> DisplayOf(m.user),
           name |-> NameFor(m), role |-> IF m.guild = None THEN None ELSE RoleOf(m.user, m.guild),
           display |-> IF m.guild # None /\ InClub(m.user, m.guild)
                       THEN members[<<m.user, m.guild>>].display ELSE None])
  /\ UNCHANGED <<commands, guildTables, userTables>>

\* Mutant: a user there is not yet is not inserted.
UpdateProfileOnly(u, name) == users' =
  IF Registered(u) THEN [users EXCEPT ![u].display = name] ELSE users
UpdateProfile(u, name) == users' =
  Put(users, u, [IF Registered(u) THEN users[u] ELSE NewUser EXCEPT !.display = name])

ProfileMember(t) == LET u == t.msg.user  g == t.msg.guild
                        role == IF t.known THEN t.role ELSE RoleOf(u, g) IN
  UpsertMember(u, g, IF role = None THEN "User" ELSE role,
               IF t.name = None THEN t.display ELSE t.name, TRUE)

\* An error is only logged and the message acknowledged; when the process dies it
\* comes back.
WriteProfile == \E t \in OpenFor("profile") :
  /\ \/ /\ UpdateProfile(t.msg.user, t.name)
        /\ IF t.msg.guild = None THEN UNCHANGED members ELSE ProfileMember(t)
        /\ Commit(t, {})
        /\ UNCHANGED guildRoles
     \/ (Commit(t, {}) \/ Abort(t)) /\ UNCHANGED userTables
  /\ UNCHANGED <<commands, guildTables>>

\* LookupProfiles asks the bot for every profile that is missing or, when time has
\* passed, stale.
NeedsSync(u) == DisplayOf(u) = None
LookupProfiles == \E m \in Of("lookup") :
  /\ \E stale \in SUBSET {u \in m.users : Registered(u)} :
       Handle(m, {[type |-> "profileRequest", user |-> u, guild |-> m.guild] :
                    u \in {v \in m.users : NeedsSync(v)} \cup stale})
  /\ UNCHANGED <<commands, guildTables, userTables>>

\* The Discord bot sends a profile it is asked for.
SendProfile == \E m \in Of("profileRequest"), name \in Names :
  /\ Handle(m, {[type |-> "profile", user |-> m.user, guild |-> m.guild, name |-> name]})
  /\ UNCHANGED <<commands, guildTables, userTables>>

-----------------------------------------------------------------------------
\* Roles, identities and the matching of scorecards

\* The role is that of the guild's membership, not of the club's.
RoleUpdatable(m) == m.role \in GuildRole /\ InGuild(m.user, m.guild)
UpdateMembershipRole(u, g, role) == guildRoles' = [guildRoles EXCEPT ![<<u, g>>] = role]

\* HandleUserRoleUpdateRequest
UpdateRole == \E m \in Of("role") :
  /\ \/ /\ RoleUpdatable(m)
        /\ UpdateMembershipRole(m.user, m.guild, m.role)
        /\ Handle(m, {Reply("roleUpdated", m)})
     \/ /\ ~RoleUpdatable(m)
        /\ Handle(m, {Reply("roleUpdateFailed", m)})
        /\ UNCHANGED guildRoles
  /\ UNCHANGED <<commands, guildTables, users, members>>

\* UpdateUDiscIdentity: an update of nothing succeeds, whoever the user.
IdentityUpdated(m) == Registered(m.user) \/ \A f \in DOMAIN m.udisc : m.udisc[f] = None

\* HandleUpdateUDiscIdentityRequest
UpdateUDiscIdentity == \E m \in Of("udisc") :
  /\ \/ Registered(m.user) /\ UpdateGlobalUser(m.user, m.udisc)
     \/ ~Registered(m.user) /\ UNCHANGED users
  /\ Handle(m, {Reply(IF IdentityUpdated(m) THEN "udiscUpdated" ELSE "udiscUpdateFailed", m)})
  /\ UNCHANGED <<commands, guildTables, guildRoles, members>>

GuildRoleOf(u, g) == IF InGuild(u, g) THEN guildRoles[<<u, g>>] ELSE None
\* GetUser, GetUserRole: only members of the guild are found.
UserData(m) == [type |-> "user", user |-> m.user, guild |-> m.guild,
                role |-> GuildRoleOf(m.user, m.guild)]

\* HandleGetUserRequest, HandleGetUserRoleRequest
AnswerUser == \E m \in Of("getUser") \cup Of("getRole") :
  /\ Handle(m, {UserData(m)})
  /\ UNCHANGED <<commands, guildTables, userTables>>

MembersNamed(g, field, name) ==
  {u \in DOMAIN users : InGuild(u, g) /\ users[u][field] = name}
\* A username counts before a name; of several users any may be the one.
Candidates(g, name) == LET byUsername == MembersNamed(g, "udiscUsername", name) IN
  IF byUsername # {} THEN byUsername ELSE MembersNamed(g, "udiscName", name)

\* HandleScorecardParsed: the matches are published, and the names without one.
MatchScorecard == \E m \in Of("scorecard") :
  LET found == {n \in m.names : Candidates(m.guild, n) # {}} IN
  /\ \E match \in [found -> Users] :
       /\ \A n \in found : match[n] \in Candidates(m.guild, n)
       /\ Handle(m, {[type |-> "matched", guild |-> m.guild, match |-> match] : n \in found}
                      \cup {[type |-> "unmatched", guild |-> m.guild, names |-> m.names \ found] :
                              n \in m.names \ found})
  /\ UNCHANGED <<commands, guildTables, userTables>>

MemberStep ==
  \/ AskForTag \/ CheckTag \/ RefuseTag \/ ReadUser \/ WriteUser
  \/ MissClub \/ ReadProfile \/ WriteProfile \/ LookupProfiles \/ SendProfile
  \/ UpdateRole \/ UpdateUDiscIdentity \/ AnswerUser \/ MatchScorecard
=============================================================================
