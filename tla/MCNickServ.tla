----------------------------- MODULE MCNickServ -----------------------------
(* Two clients that choose among two nicknames.                            *)
EXTENDS NickServ

Symmetry == Permutations(Client) \cup Permutations(Name)

SameFold == [n \in Name |-> n]
=============================================================================
