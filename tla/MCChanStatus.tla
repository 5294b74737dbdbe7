---------------------------- MODULE MCChanStatus ----------------------------
(* Two clients, two nicknames, and a channel that is created up to twice.  *)
EXTENDS ChanStatus

Clients == Permutations(Client)

Nicks == {"ann", "bob"}
SameFold == [n \in Nicks |-> n]

(* One nickname has a level for every command or none, the other one a    *)
(* level for voices.                                                       *)
LevelsApart == levels["ann"] # 60 /\ levels["bob"] = 60

(* One client with two identifications, or two with one.                   *)
FewIdentify == FoldFunctionOnSet(LAMBDA s, n : Len(s) + n, 0, identified, Client) <= 2

(* Of what is left behind only the rows of ops are followed.               *)
LeftBehindAreOps ==
  \A r \in chanstatus :
    r.status = 2 \/ (r.chanid = chan /\ \E u \in users : u.onlineID = r.nickid)

(* The network makes nobody both op and voice.                             *)
OneModeEach == ops \cap voices = {}
=============================================================================
