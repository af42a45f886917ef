---------------------------- MODULE MCTagLedger ----------------------------
\* Values of TagLedger's constants for TLC, and the mutants of its definitions.
EXTENDS TagLedger

MCMembers == 1 .. 3
MCTags == 1 .. 3

\* Every result of every round of one to three members, ties included.
MCFinishes == UNION {[S -> 1 .. 3] : S \in SUBSET MCMembers \ {{}}}

\* Every batch of requests.
MCRequests == UNION {[S -> MCTags] : S \in SUBSET MCMembers \ {{}}}

MCResetOrders == {<<>>, <<2, 1>>, <<3, 1, 2>>}
=============================================================================
