----------------------------- MODULE ChanStatus -----------------------------
(***************************************************************************)
(* Who is recorded as op or voice on a channel: the table chanstatus, the  *)
(* methods of dChan that read and write it (source/lib/dchan.cpp), the     *)
(* commands and event handlers of the Chan service that use them           *)
(* (source/modules/mod.chan/chan.cpp), and Oper's MDEOP, over the registry *)
(* of online users.                                                        *)
(*                                                                         *)
(* One channel is followed.  Each time the server reports it created it    *)
(* has a new online ID, which with the online ID of a user is the key of a *)
(* row.  Nothing deletes the rows of users and channels that are gone.     *)
(*                                                                         *)
(* The methods that would send a MODE or KICK to the network are empty, so *)
(* what the network thinks (members, ops, voices) changes only by itself.  *)
(* Who has identified for which nickname, the levels on the channel and    *)
(* its freezes are what NickServ and ChanServ make of them; here they      *)
(* change at any time.  A command refused changes nothing.                 *)
(***************************************************************************)
EXTENDS OnlineUsers, SequencesExt

CONSTANTS
  Level,       \* the levels that nicknames may have on the channel
  Staff,       \* the nicknames with access to the Oper service
  MaxChan,     \* bound on the online IDs of channels
  MaxIdas      \* bound on the identifications of one client

ASSUME StatusAssumption ==
  /\ Level \subseteq Nat
  /\ 0 \in Level
  /\ Staff \subseteq Name
  /\ MaxChan \in Nat
  /\ MaxIdas \in Nat

VARIABLES
  members,     \* the clients on the channel
  ops,         \* those of them that are ops for the network
  voices,      \* those of them that have a voice for the network
  identified,  \* the nicknames each client has identified for, the first first
  levels,      \* the level of each nickname on the channel
  frozen,      \* whether the channel is frozen
  secure,      \* the column chanopts.secure of the channel
  chan,        \* the online ID of the channel, 0 when it does not exist
  nextChan,    \* the next value of the column onlinechan.id
  chanstatus   \* the table of ranks

networkVars == <<members, ops, voices>>
rightVars == <<identified, levels, frozen, secure>>
statusVars == <<onlineVars, networkVars, rightVars, chan, nextChan, chanstatus>>

Status == 0..2
StatusRow == [chanid : Nat, nickid : Nat, status : Status]

(* The rank that the queries of isOp and isVoice find for a client: they   *)
(* look the online ID up by nickname.                                      *)
RowsOf(c) == {r \in chanstatus : r.chanid = chan /\ r.nickid = locateID(onlineclients, network[c])}
isOp(c) == \E r \in RowsOf(c) : r.status = 2
isVoice(c) == \E r \in RowsOf(c) : r.status = 1

(* The row of each user in D is deleted and inserted anew.                 *)
addUser(D, status) ==
  chanstatus' = {r \in chanstatus : ~(r.chanid = chan /\ \E d \in D : r.nickid = IDOf(d))} \cup
                  {[chanid |-> chan, nickid |-> IDOf(d), status |-> status] : d \in D}

delUserStatus(c) ==
  chanstatus' = {r \in chanstatus : ~(r.chanid = chan /\ r.nickid = IDOf(c))}

(* getAccess for a nickname, in whatever spelling.                         *)
getAccess(n) == levels[IRCtoLower[n]]

(* The commands that return inside the loop over getIDList look only at    *)
(* its first nickname; the others look for one that will do.               *)
FirstLevel(c) == IF identified[c] = <<>> THEN 0 ELSE getAccess(Head(identified[c]))
BestLevel(c) == Max({0} \cup {getAccess(n) : n \in ToSet(identified[c])})

(* isIdentified(getNickname()): the first identification is compared.      *)
isIdentifiedAsUsed(c) ==
  /\ identified[c] # <<>>
  /\ IRCtoLower[Head(identified[c])] = Key(c)

StatusInit ==
  /\ OnlineInit
  /\ members = {} /\ ops = {} /\ voices = {}
  /\ identified = [c \in Client |-> <<>>]
  /\ levels \in [Name -> Level]
  /\ frozen = FALSE
  /\ secure \in BOOLEAN
  /\ chan = 0
  /\ nextChan = 1
  /\ chanstatus = {}

-----------------------------------------------------------------------------
(* The network, and what the other services do.                            *)

signOn(c, n) ==
  /\ addClient(c, n)
  /\ UNCHANGED <<networkVars, rightVars, chan, nextChan, chanstatus>>

changeNick(c, n) ==
  /\ setNick(c, n)
  /\ UNCHANGED <<networkVars, rightVars, chan, nextChan, chanstatus>>

signOff(c) ==
  /\ delUser(c)
  /\ members' = members \ {c} /\ ops' = ops \ {c} /\ voices' = voices \ {c}
  /\ identified' = [identified EXCEPT ![c] = <<>>]
  /\ UNCHANGED <<levels, frozen, secure, chan, nextChan, chanstatus>>

identify(c, n) ==
  /\ c \in Online
  /\ Len(identified[c]) < MaxIdas
  /\ n \notin ToSet(identified[c])
  /\ identified' = [identified EXCEPT ![c] = Append(@, n)]
  /\ UNCHANGED <<onlineVars, networkVars, levels, frozen, secure, chan, nextChan, chanstatus>>

changeRights ==
  /\ \/ \E n \in Name, l \in Level : levels' = [levels EXCEPT ![n] = l] /\ UNCHANGED frozen
     \/ frozen' = ~frozen /\ UNCHANGED levels
  /\ UNCHANGED <<onlineVars, networkVars, identified, secure, chan, nextChan, chanstatus>>

(* The first client joins a channel that did not exist: the server files   *)
(* it in onlinechan and passes the ID to addChan.                          *)
addChan ==
  /\ chan = 0
  /\ nextChan <= MaxChan
  /\ chan' = nextChan
  /\ nextChan' = nextChan + 1
  /\ UNCHANGED <<onlineVars, networkVars, rightVars, chanstatus>>

delChan ==
  /\ chan # 0
  /\ members = {}
  /\ chan' = 0
  /\ UNCHANGED <<onlineVars, networkVars, rightVars, nextChan, chanstatus>>

(* Mutant: the table of ranks is forgotten.                                *)
startServices_keepRanks ==
  /\ restart
  /\ members' = {} /\ ops' = {} /\ voices' = {}
  /\ identified' = [c \in Client |-> <<>>]
  /\ chan' = 0
  /\ nextChan' \in {1, nextChan}
  /\ UNCHANGED <<levels, frozen, secure, chanstatus>>

(* Services die or stop, and start again: the constructor empties the      *)
(* tables of what was online.                                              *)
startServices ==
  /\ restart
  /\ members' = {} /\ ops' = {} /\ voices' = {}
  /\ identified' = [c \in Client |-> <<>>]
  /\ chan' = 0
  /\ nextChan' \in {1, nextChan}
  /\ chanstatus' = {}
  /\ UNCHANGED <<levels, frozen, secure>>

-----------------------------------------------------------------------------
(* Events of the channel, and how Chan handles them.                       *)

(* Mutant: the status is recorded as reported.                             *)
handleChannelJoin_rawStatus(c, status) ==
  /\ chan # 0
  /\ c \in Online \ members
  /\ members' = members \cup {c}
  /\ ops' = IF status \in {2, 3} THEN ops \cup {c} ELSE ops
  /\ voices' = IF status \in {1, 3} THEN voices \cup {c} ELSE voices
  /\ IF status < 2
       THEN IF isIdentifiedAsUsed(c) /\ getAccess(network[c]) > 99
              THEN addUser({c}, 2)
              ELSE UNCHANGED chanstatus
       ELSE IF secure /\ getAccess(network[c]) < 100
              THEN addUser({c}, status)
              ELSE UNCHANGED chanstatus
  /\ UNCHANGED <<onlineVars, rightVars, chan, nextChan>>

(* The status of a client that joins: 0, 1 for a voice, 2 for an op, 3 for *)
(* both.  Whoever is not an op is made one if the nickname in use is that  *)
(* of somebody with the level; on a secure channel an op without the level *)
(* is not let be one.                                                      *)
handleChannelJoin(c, status) ==
  /\ chan # 0
  /\ c \in Online \ members
  /\ members' = members \cup {c}
  /\ ops' = IF status \in {2, 3} THEN ops \cup {c} ELSE ops
  /\ voices' = IF status \in {1, 3} THEN voices \cup {c} ELSE voices
  /\ IF status < 2
       THEN IF isIdentifiedAsUsed(c) /\ getAccess(network[c]) > 99
              THEN addUser({c}, 2)
              ELSE UNCHANGED chanstatus
       ELSE IF secure /\ getAccess(network[c]) < 100
              THEN addUser({c}, status - 2)
              ELSE UNCHANGED chanstatus
  /\ UNCHANGED <<onlineVars, rightVars, chan, nextChan>>

(* The row of the client stays.                                            *)
handleChannelPart(c) ==
  /\ c \in members
  /\ members' = members \ {c} /\ ops' = ops \ {c} /\ voices' = voices \ {c}
  /\ UNCHANGED <<onlineVars, rightVars, chan, nextChan, chanstatus>>

(* One letter of a change of modes by another client on the channel or by  *)
(* a server; the letters of a line are handled one by one.  On a secure    *)
(* channel a -o is asked for when somebody without the level is made op,   *)
(* and the op recorded all the same; and when somebody without the level   *)
(* takes an op, a +o is asked for and the op stays recorded.               *)
handleChannelMode(c) ==
  /\ c \in members
  /\ \/ /\ c \notin ops
        /\ ops' = ops \cup {c}
        /\ addUser({c}, 2)
        /\ UNCHANGED voices
     \/ /\ c \in ops
        /\ ops' = ops \ {c}
        /\ \E access \in {0} \cup {getAccess(network[d]) : d \in members} :
             IF secure /\ access < 100 THEN UNCHANGED chanstatus ELSE addUser({c}, 0)
        /\ UNCHANGED voices
     \/ /\ c \notin voices
        /\ voices' = voices \cup {c}
        /\ addUser({c}, 1)
        /\ UNCHANGED ops
     \/ /\ c \in voices
        /\ voices' = voices \ {c}
        /\ addUser({c}, 0)
        /\ UNCHANGED ops
  /\ UNCHANGED <<onlineVars, members, rightVars, chan, nextChan>>

-----------------------------------------------------------------------------
(* Commands of the Chan service, sent by client c about the users in T: c  *)
(* if no nickname is given, else the nicknames up to the first unknown.    *)

Heeded(c) == c \in Online /\ chan # 0 /\ ~frozen

(* Mutant: any of the nicknames will do.                                   *)
parseOP_byBest(c, T) ==
  /\ Heeded(c)
  /\ BestLevel(c) > 99
  /\ addUser({d \in T : ~isOp(d)}, 2)
  /\ UNCHANGED <<onlineVars, networkVars, rightVars, chan, nextChan>>

parseOP(c, T) ==
  /\ Heeded(c)
  /\ FirstLevel(c) > 99
  /\ addUser({d \in T : ~isOp(d)}, 2)
  /\ UNCHANGED <<onlineVars, networkVars, rightVars, chan, nextChan>>

parseDEOP(c, T) ==
  /\ Heeded(c)
  /\ FirstLevel(c) > 99
  /\ addUser({d \in T : isOp(d)}, 0)
  /\ UNCHANGED <<onlineVars, networkVars, rightVars, chan, nextChan>>

(* Whoever is recorded as op is recorded as voice from then on.            *)
parseVOICE(c, T) ==
  /\ Heeded(c)
  /\ FirstLevel(c) > 50
  /\ addUser({d \in T : ~isVoice(d)}, 1)
  /\ UNCHANGED <<onlineVars, networkVars, rightVars, chan, nextChan>>

parseDEVOICE(c, T) ==
  /\ Heeded(c)
  /\ FirstLevel(c) > 50
  /\ addUser({d \in T : isVoice(d)}, 0)
  /\ UNCHANGED <<onlineVars, networkVars, rightVars, chan, nextChan>>

(* Who kicks the service itself is kicked; the row is deleted twice.       *)
parseKICK(c, d) ==
  /\ Heeded(c)
  /\ d \in Online
  /\ BestLevel(c) > 99
  /\ delUserStatus(d)
  /\ UNCHANGED <<onlineVars, networkVars, rightVars, chan, nextChan>>

setChanSecure(c, value) ==
  /\ Heeded(c)
  /\ BestLevel(c) > 400
  /\ secure' = value
  /\ UNCHANGED <<onlineVars, networkVars, identified, levels, frozen, chan, nextChan, chanstatus>>

(* Oper's MDEOP goes over the rows of the channel and looks the nickname   *)
(* of each up.  A row of a client that is gone yields a null pointer, and  *)
(* the process dies.  In the end MDEOP deletes the channel's object, which *)
(* findChan goes on returning (oper.cpp:140): the commands that follow     *)
(* find the memory as it was, or the process dies, which startServices     *)
(* allows at any time.  The access is that of the nickname in use.         *)
parseMDEOP(c) ==
  LET rows == {r \in chanstatus : r.chanid = chan}
      known == \A r \in rows : \E q \in onlineclients : q.id = r.nickid
  IN  /\ c \in Online
      /\ Key(c) \in Staff
      /\ chan # 0
      /\ \/ /\ known
            /\ chanstatus' = (chanstatus \ rows) \cup {[r EXCEPT !.status = 0] : r \in rows}
            /\ UNCHANGED <<onlineVars, networkVars, rightVars, chan, nextChan>>
         \/ ~known /\ startServices

StatusNext ==
  \/ \E c \in Client, n \in Name : signOn(c, n) \/ changeNick(c, n) \/ identify(c, n)
  \/ \E c \in Client : signOff(c) \/ handleChannelPart(c) \/ handleChannelMode(c) \/ parseMDEOP(c)
  \/ \E c \in Client, status \in 0..3 : handleChannelJoin(c, status)
  \/ changeRights \/ addChan \/ delChan \/ startServices
  \/ \E c \in Client : \E T \in SUBSET Online :
       parseOP(c, T) \/ parseDEOP(c, T) \/ parseVOICE(c, T) \/ parseDEVOICE(c, T)
  \/ \E c, d \in Client : parseKICK(c, d)
  \/ \E c \in Client, value \in BOOLEAN : setChanSecure(c, value)

StatusSpec == StatusInit /\ [][StatusNext]_statusVars

-----------------------------------------------------------------------------
ChanStatusTypeOK ==
  /\ members \subseteq Online /\ ops \subseteq members /\ voices \subseteq members
  /\ identified \in [Client -> Seq(Name)]
  /\ levels \in [Name -> Level]
  /\ frozen \in BOOLEAN /\ secure \in BOOLEAN
  /\ chan \in 0..(nextChan - 1) /\ nextChan \in Nat \ {0}
  /\ chanstatus \subseteq StatusRow

(* Although nothing deletes them, no row of chanstatus is for a user or a  *)
(* channel that is still to come: its IDs were handed out in this run of   *)
(* services, and not to a client or a channel that came later.  A user has *)
(* one rank on a channel (dchan.cpp:41, services.cpp:84).                  *)
RanksAreOfThisRun ==
  /\ \A r \in chanstatus : r.nickid \in 1..(nextOnlineID - 1) /\ r.chanid \in 1..(nextChan - 1)
  /\ \A r, s \in chanstatus : r.chanid = s.chanid /\ r.nickid = s.nickid => r = s

(* The table implements the abstract ranks.                                *)
RankOf(c) ==
  IF c \in Online /\ \E r \in chanstatus : r.chanid = chan /\ r.nickid = IDOf(c)
    THEN (CHOOSE r \in chanstatus : r.chanid = chan /\ r.nickid = IDOf(c)).status
    ELSE -1

Ranks == INSTANCE ChannelRanks WITH
  None <- -1,
  online <- Online,
  seen <- [c \in Client |-> <<c \in members, c \in ops, c \in voices>>],
  standing <- [c \in Client |-> FirstLevel(c)],
  reach <- [c \in Client |-> BestLevel(c)],
  staff <- {c \in Online : Key(c) \in Staff},
  ranks <- [c \in Client |-> RankOf(c)]

ImplementsRanks == Ranks!RanksSpec
=============================================================================
