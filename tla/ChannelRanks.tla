---------------------------- MODULE ChannelRanks ----------------------------
(***************************************************************************)
(* What the record of ranks on a channel promises: a rank belongs to one   *)
(* connection on one incarnation of the channel.  It changes by a report   *)
(* of the network about that client, or by a command of somebody whose     *)
(* level is high enough for it, or by staff, and it ends with the          *)
(* connection or with the channel.                                         *)
(*                                                                         *)
(* There are no nicknames, online IDs or tables here: ChanStatus shows     *)
(* that they implement this.                                               *)
(***************************************************************************)
EXTENDS Integers

CONSTANTS
  Client,   \* connections to the network
  None      \* the rank of a client that the record does not list

VARIABLES
  online,    \* the clients that are on the network
  seen,      \* what the network reported of each client on the channel
  frozen,    \* whether staff have frozen the channel
  standing,  \* the level that counts for most commands of a client
  reach,     \* the highest of the levels of a client
  staff,     \* the clients that may use the commands of staff
  ranks      \* the recorded rank: None, 0, 1 (voice) or 2 (op)

ranksVars == <<online, seen, frozen, standing, reach, staff, ranks>>
worldVars == <<online, seen, frozen, standing, reach, staff>>

RanksInit ==
  /\ online = {}
  /\ ranks = [c \in Client |-> None]

(* Clients arrive, identify and change nickname, and levels change.        *)
Elsewhere == online \subseteq online' /\ UNCHANGED <<seen, ranks>>

Leave(c) ==
  /\ online' = online \ {c}
  /\ ranks' = [ranks EXCEPT ![c] = None]

(* The channel ends, or services are started again.                        *)
Vanish == ranks' = [c \in Client |-> None]

Report(c) ==
  /\ c \in online
  /\ seen'[c] # seen[c]
  /\ \A d \in Client \ {c} : seen'[d] = seen[d] /\ ranks'[d] = ranks[d]
  /\ UNCHANGED <<online, frozen, standing, reach, staff>>

Changed == {d \in Client : ranks'[d] # ranks[d]}

(* A voice may be given to anybody, and takes the place of another rank.   *)
ChangeVoice(c) ==
  /\ ~frozen
  /\ standing[c] > 50
  /\ \A d \in Changed : /\ d \in online
                        /\ ranks'[d] = 1 \/ (ranks[d] = 1 /\ ranks'[d] = 0)
  /\ UNCHANGED worldVars

ChangeOp(c) ==
  /\ ~frozen
  /\ standing[c] > 99
  /\ \A d \in Changed : /\ d \in online
                        /\ ranks'[d] = 2 \/ (ranks[d] = 2 /\ ranks'[d] = 0)
  /\ UNCHANGED worldVars

Kick(c, d) ==
  /\ ~frozen
  /\ reach[c] > 99
  /\ ranks' = [ranks EXCEPT ![d] = None]
  /\ UNCHANGED worldVars

MassDeop(c) ==
  /\ c \in staff
  /\ ranks' = [d \in Client |-> IF ranks[d] = None THEN None ELSE 0]
  /\ UNCHANGED worldVars

RanksNext ==
  \/ Elsewhere
  \/ Vanish
  \/ \E c \in Client : Leave(c) \/ Report(c) \/ MassDeop(c)
  \/ \E c \in online : ChangeVoice(c) \/ ChangeOp(c)
  \/ \E c \in online, d \in Client : Kick(c, d)

RanksSpec == RanksInit /\ [][RanksNext]_ranksVars
=============================================================================
