---------------------------- MODULE MCNickRecords ----------------------------
(* Two users and two nicknames: an account may be deleted and registered    *)
(* anew by another user while the first one is still identified for it.     *)
EXTENDS NickRecords, TLC

TwoNames == {"ann", "bob"}
OneInfo == {"url"}
FirstIsStaff == {1}

Clients == Permutations(Client)
=============================================================================
