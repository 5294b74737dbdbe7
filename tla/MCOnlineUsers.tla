---------------------------- MODULE MCOnlineUsers ----------------------------
(* The spellings of nicknames that clients choose from.  "Bob" and "bob"   *)
(* are the same nickname.                                                  *)
EXTENDS OnlineUsers

Spelling == {"Bob", "bob", "ann", "eve"}
PlainFold == [n \in Spelling |-> IF n = "Bob" THEN "bob" ELSE n]
=============================================================================
