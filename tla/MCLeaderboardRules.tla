------------------------- MODULE MCLeaderboardRules -------------------------
(***************************************************************************)
(* Every round of up to three players, with tags up to four.               *)
(***************************************************************************)
EXTENDS LeaderboardRules

MCPlayers == 1 .. 3
=============================================================================
