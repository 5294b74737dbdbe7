----------------------------- MODULE MCChanServ -----------------------------
(* Two clients, two nicknames and a channel.                               *)
EXTENDS ChanServ

Anybody == Permutations(Client) \cup Permutations(Name)

SameFold == [n \in Name |-> n]

(* Demands to identify have nothing to do with channels: they are filed    *)
(* and never come due.                                                     *)
EverybodyIsAsked ==
  /\ \A r \in nicks : r.modnick
  /\ \A i \in 1..Len(kills) : ~kills[i].due

(* One account of staff is enough for the commands of Serv.                *)
OneOfStaff == Cardinality(access) <= 1

Channels == {"#a"}
SameChanFold == [n \in Channels |-> n]
=============================================================================
