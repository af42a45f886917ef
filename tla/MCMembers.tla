----------------------------- MODULE MCMembers -----------------------------
(***************************************************************************)
(* Guild 1 is set up, with two members; user 3 and guild 2 are new.        *)
(***************************************************************************)
EXTENDS SignIn

Row(username, name, display) ==
  [udiscUsername |-> username, udiscName |-> name, display |-> display]
Member(role, display) == [role |-> role, display |-> display, synced |-> TRUE]
Channel(c, a) == [channel |-> c, admin |-> a]

\* Tag 2 is user 1's.
MCTagHolders == [t \in {1, 2} |-> IF t = 2 THEN 1 ELSE None]

Setup(g, settings) == [type |-> "setup", guild |-> g, name |-> "ann", settings |-> settings]
Create(g, settings) == [type |-> "create", guild |-> g, settings |-> settings]
Update(g, settings) == [type |-> "update", guild |-> g, settings |-> settings]
Ask(type, g) == [type |-> type, guild |-> g]

NoUDisc == Row(None, None, None)
UDisc(username, name) == [udiscUsername |-> username, udiscName |-> name]
SignUp(u, g, tag, udisc, guildName) ==
  [type |-> "signup", user |-> u, guild |-> g, tag |-> tag, udisc |-> udisc,
   guildName |-> guildName]
Profile(u, g, name) == [type |-> "profile", user |-> u, guild |-> g, name |-> name]
AskUser(type, u, g) == [type |-> type, user |-> u, guild |-> g]
Role(u, g, role) == [type |-> "role", user |-> u, guild |-> g, role |-> role]
Identity(u, udisc) == [type |-> "udisc", user |-> u, guild |-> 1, udisc |-> udisc]
Scorecard(names) == [type |-> "scorecard", guild |-> 1, names |-> names]
Lookup(us) == [type |-> "lookup", guild |-> 1, users |-> us]
LinkFor(u, role) == [type |-> "magicLink", user |-> u, guild |-> 1, role |-> role]

NoNames == UDisc(None, None)

\* Two devices of user 1 call; user 1 asks for another link; user 2 comes back.
CallsScenario == {}
LinkScenario == {LinkFor(1, "editor")}
SessionScenarios == { CallsScenario, LinkScenario, {SignUp(2, 1, None, NoNames, None)} }

MCScenarios == SessionScenarios \cup
  { {SignUp(3, 2, None, NoNames, "bob"), SignUp(3, 2, None, UDisc("bob", None), None),
     Setup(2, Channel("c", "d"))},
    {SignUp(3, 1, None, NoNames, None), Profile(3, 1, "bob"), SignUp(3, 2, None, NoNames, None)},
    {SignUp(1, 1, None, UDisc("bob", None), None), Profile(1, 1, None), Role(1, 1, "Admin")},
    {SignUp(2, 1, None, NoNames, None), Profile(2, 1, None), Profile(2, None, "bob")},
    {SignUp(3, 1, 1, NoNames, "bob"), SignUp(2, 1, 1, NoNames, None)},
    {SignUp(3, 1, 2, NoNames, None), SignUp(1, 1, 2, NoNames, None), SignUp(2, 1, 0, NoNames, None)},
    {Setup(1, Channel("c", "d")), Setup(1, Channel("d", None)), Ask("delete", 1)},
    {Create(2, Channel("c", None)), Create(2, Channel("d", "d")), Create(2, NoSettings)},
    {Ask("delete", 1), Update(1, Channel("d", None))}, {Lookup({1, 3}), Ask("retrieve", 1)},
    {Update(1, NoSettings), Update(2, Channel("d", None)), Ask("retrieve", 2), Ask("delete", 2),
     Ask("club", 1), Ask("club", 2)},
    {Identity(2, UDisc("ann", None)), Identity(3, UDisc("ann", None)), Scorecard({"ann", "bob"})},
    {Role(3, 1, "Admin"), Role(1, 1, "owner"), AskUser("getUser", 3, 1), AskUser("getRole", 2, 1),
     Profile(3, 2, "bob"), Identity(3, NoNames)},
    {LinkFor(3, "player")} }

ReturningScenario == {{SignUp(1, 1, None, NoNames, None)}}

\* User 1 is an editor; user 2 was one in both guilds before there were clubs.
MCTables(cs) == [
  clubs |-> [g \in {1} |-> "bob"],
  configs |-> [g \in {1} |-> [active |-> TRUE, deletion |-> "none",
                              settings |-> Channel("c", None), snapshot |-> NoSettings]],
  users |-> [u \in {1, 2} |-> IF u = 1 THEN Row("ann", None, "ann") ELSE Row(None, "ann", None)],
  guildRoles |-> [k \in {<<1, 1>>, <<2, 1>>, <<2, 2>>} |-> "Editor"],
  members |-> [k \in {<<1, 1>>} |-> Member("Editor", "ann")],
  tokens |-> [i \in 1..(CASE cs = CallsScenario -> 2
                           [] cs \in SessionScenarios \ {CallsScenario} -> 1
                           [] OTHER -> 0) |->
    [user |-> IF cs \in {CallsScenario, LinkScenario} THEN 1 ELSE 2, family |-> i,
     revoked |-> FALSE]],
  devices |-> [d \in Devices |->
    [cookie |-> IF cs = CallsScenario \/ (cs \in SessionScenarios /\ d = 1) THEN d ELSE None,
     ticket |-> None, current |-> TRUE]],
  called |-> IF cs = CallsScenario THEN 0 ELSE 1]
=============================================================================
