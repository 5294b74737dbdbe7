------------------------------- MODULE MCGames -------------------------------
(* Users are alike, and so are letters and channels.                       *)
EXTENDS Games, TLC

Anybody == Permutations(Channel) \cup Permutations(User) \cup Permutations(Letter)
=============================================================================
