------------------------------ MODULE ChanServ ------------------------------
(***************************************************************************)
(* The registration of channels and the rights on them: the Chan service   *)
(* (source/modules/mod.chan/chan.cpp), the classes Channel and dChan it    *)
(* uses (source/lib/channel.cpp, dchan.cpp), and Serv's CHAN and FREEZE,   *)
(* over the Nick service.                                                  *)
(*                                                                         *)
(* A registered channel is a row of chans.  Who may do what on it is a row *)
(* of chanaccess: a channel ID, an account ID and a level.  Commands find  *)
(* both IDs by name each time, 0 standing for "not registered".  The map   *)
(* chans of ServicesInternal holds an object for each channel on the       *)
(* network; here it is called objects.                                     *)
(*                                                                         *)
(* The list of a user's identifications is walked over as the code does:   *)
(* some commands look at its first nickname, some at all, and some at the  *)
(* nickname in use instead.  Where a query finds several levels, any may   *)
(* be the first row.                                                       *)
(***************************************************************************)
EXTENDS NickServ

CONSTANTS
  ChanName,         \* spellings of names of channels
  ChanToLower,      \* String::toLower on them
  ChanIRCtoLower,   \* String::IRCtoLower on them
  Level,            \* the levels that ADDUSER is tried with
  MaxChanID,        \* bound on the auto-incremented column chans.id
  MaxFreezes        \* how often a channel can be frozen (6 in the code)

ASSUME ChanAssumption ==
  /\ ChanToLower \in [ChanName -> ChanName]
  /\ ChanIRCtoLower \in [ChanName -> ChanName]
  /\ \A n \in ChanName :
       /\ ChanToLower[ChanToLower[n]] = ChanToLower[n]
       /\ ChanIRCtoLower[ChanIRCtoLower[n]] = ChanIRCtoLower[n]
       /\ ChanIRCtoLower[ChanToLower[n]] = ChanIRCtoLower[n]
       /\ ChanToLower[ChanIRCtoLower[n]] = ChanIRCtoLower[n]
  /\ Level \subseteq Int
  /\ MaxChanID \in Nat
  /\ MaxFreezes \in Nat

VARIABLES
  objects,      \* the names of the dChan objects that the map holds
  freed,        \* those of them that have been deleted, and are still there
  chans,        \* the table of registered channels
  nextChanID,   \* the next value of the column chans.id
  chanaccess,   \* the table of levels
  chanfreeze    \* the table of freezes

chanTables == <<chans, nextChanID, chanaccess, chanfreeze>>
chanVars == <<objects, freed, chanTables>>
allVars == <<vars, chanVars>>

Founder == 500

Chan == [id : 1..MaxChanID, name : ChanName, owner : Name]
ChanAccess == [chanid : Nat, nickid : Nat, access : 1..Founder]
Freeze == [chan : Nat, nth : Nat, expired : BOOLEAN]

SameChan(a, b) == ChanToLower[a] = ChanToLower[b]

ChansNamed(n) == {r \in chans : SameChan(r.name, n)}

(* 0 if the channel is not registered.                                     *)
getChanID(n) == IF ChansNamed(n) = {} THEN 0 ELSE Min({r.id : r \in ChansNamed(n)})

isChanRegistered(n) == ChansNamed(n) # {}

(* 0 if the nickname is not registered.                                    *)
getNickID(n) == IF AccountsOf(n) = {} THEN 0 ELSE Min({r.id : r \in AccountsOf(n)})

(* What getAccess may return for a channel and a nickname.                 *)
getAccess(n, nick) ==
  LET rows == {r \in chanaccess : r.chanid = getChanID(n) /\ r.nickid = getNickID(nick)}
  IN  IF rows = {} THEN {0} ELSE {r.access : r \in rows}

isFreezed(n) ==
  \E f \in chanfreeze : f.chan = getChanID(ChanIRCtoLower[n]) /\ ~f.expired

timesFreezed(n) ==
  Cardinality({f \in chanfreeze : f.chan = getChanID(ChanIRCtoLower[n])})

(* The name of the object that findChan returns, if there is one.          *)
findChan(n) == ChanIRCtoLower[n]
Found(n) == findChan(n) \in objects

(* getIDList: the accounts a user is identified for, without those that    *)
(* are gone; and the first of them.                                        *)
getIDList(u) == {r \in nicks : r.id \in idas(u)}

FirstOf(u) ==
  LET first == {r \in nicks : \E i \in nicksidentified :
                   i.nick = u.onlineID /\ i.idas = r.id /\ i.first}
  IN  IF first = {} THEN getIDList(u) ELSE first

ChanInit ==
  /\ NickInit
  /\ objects = {}
  /\ freed = {}
  /\ chans = {}
  /\ nextChanID = 1
  /\ chanaccess = {}
  /\ chanfreeze = {}

-----------------------------------------------------------------------------
(* Everything Nick does.  When nobody is online there are no channels; the *)
(* map is empty too when services have just been started.                  *)
nickStep ==
  /\ NickNext
  /\ objects' = IF Online' = {} THEN {} ELSE objects
  /\ freed' = IF Online' = {} THEN {} ELSE freed
  /\ UNCHANGED chanTables

(* The server reports the first client on a channel, and the last to go.   *)
(* The map files the object under the spelling of the report, and looks    *)
(* for it under the folded one.                                            *)
addChan(n) ==
  /\ Online # {}
  /\ objects' = objects \cup {n}
  /\ freed' = freed \ {n}
  /\ UNCHANGED <<vars, chanTables>>

delChan(n) ==
  /\ Found(n)
  /\ objects' = objects \ {findChan(n)}
  /\ freed' = freed \ {findChan(n)}
  /\ UNCHANGED <<vars, chanTables>>

-----------------------------------------------------------------------------
(* The class Channel.                                                      *)

(* Mutant: the IDs start from 0.                                           *)
registerChannel_fromZero(n, owner) ==
  /\ nextChanID <= MaxChanID
  /\ chans' = chans \cup {[id |-> nextChanID - 1, name |-> ChanIRCtoLower[n],
                           owner |-> owner]}
  /\ nextChanID' = nextChanID + 1
  /\ chanaccess' = chanaccess \cup
       {[chanid |-> (getChanID(n))', nickid |-> getNickID(owner), access |-> Founder]}

(* The row of the channel holds the IRC folding; chanAddAccess looks for   *)
(* its ID under the ASCII folding.                                         *)
registerChannel(n, owner) ==
  /\ nextChanID <= MaxChanID
  /\ chans' = chans \cup {[id |-> nextChanID, name |-> ChanIRCtoLower[n],
                           owner |-> owner]}
  /\ nextChanID' = nextChanID + 1
  /\ chanaccess' = chanaccess \cup
       {[chanid |-> (getChanID(n))', nickid |-> getNickID(owner), access |-> Founder]}

(* Mutant: the ID is looked up when the row is gone.                       *)
deregisterChannel_late(n) ==
  /\ chans' = {r \in chans : ~SameChan(r.name, ChanIRCtoLower[n])}
  /\ chanaccess' = {r \in chanaccess : r.chanid # (getChanID(n))'}
  /\ UNCHANGED nextChanID

(* The freezes of the channel stay.                                        *)
deregisterChannel(n) ==
  /\ chans' = {r \in chans : ~SameChan(r.name, ChanIRCtoLower[n])}
  /\ chanaccess' = {r \in chanaccess : r.chanid # getChanID(n)}
  /\ UNCHANGED nextChanID

-----------------------------------------------------------------------------
(* Commands of the Chan service, sent by client c.                         *)

ownedChannels(nick) == {r \in chans : SqlEqual(r.owner, nick)}

parseREGISTER_Chan(c, n) ==
  LET who == UserOf(c)
  IN  /\ c \in Online
      /\ Found(n)
      /\ isRegistered(who)
      /\ isIdentified(who)
      /\ ownedChannels(who.nickname) = {}
      /\ ~isChanRegistered(findChan(n))
      /\ registerChannel(n, who.nickname)
      /\ UNCHANGED <<vars, objects, freed, chanfreeze>>

MayAdd(waccess, access1) == waccess < access1 /\ waccess \in 1..499

(* Mutant: the level is that of the nickname in use.                       *)
parseADDUSER_byNickname(c, n, nick, level) ==
  /\ c \in Online
  /\ Found(n)
  /\ AccountsOf(nick) # {}
  /\ isChanRegistered(findChan(n))
  /\ ~isFreezed(n)
  /\ \E access1 \in getAccess(findChan(n), UserOf(c).nickname) : MayAdd(level, access1)
  /\ \E taccess \in getAccess(findChan(n), nick) : taccess <= 0
  /\ chanaccess' = chanaccess \cup
       {[chanid |-> getChanID(findChan(n)), nickid |-> getNickID(nick), access |-> level]}
  /\ UNCHANGED <<vars, objects, freed, chans, nextChanID, chanfreeze>>

(* The first nickname of the list decides.                                 *)
parseADDUSER(c, n, nick, level) ==
  /\ c \in Online
  /\ Found(n)
  /\ AccountsOf(nick) # {}
  /\ isChanRegistered(findChan(n))
  /\ ~isFreezed(n)
  /\ \E r \in FirstOf(UserOf(c)) : \E access1 \in getAccess(findChan(n), r.nickname) :
       MayAdd(level, access1)
  /\ \E taccess \in getAccess(findChan(n), nick) : taccess <= 0
  /\ chanaccess' = chanaccess \cup
       {[chanid |-> getChanID(findChan(n)), nickid |-> getNickID(nick), access |-> level]}
  /\ UNCHANGED <<vars, objects, freed, chans, nextChanID, chanfreeze>>

(* SET looks for a level above 400 among all nicknames of the list.  If it *)
(* finds one it sets columns of chans or chanopts that nothing here reads. *)
(* Otherwise it deletes the object of the channel and leaves it in the     *)
(* map.  Later commands use it: the process may die, which startServices   *)
(* allows at any time, or find the object still there.                     *)
parseSET_Chan(c, n) ==
  /\ c \in Online
  /\ ~isFreezed(n)
  /\ Found(n)
  /\ isChanRegistered(findChan(n))
  /\ \A r \in getIDList(UserOf(c)) : \E l \in getAccess(findChan(n), r.nickname) : l <= 400
  /\ freed' = freed \cup {findChan(n)}
  /\ UNCHANGED <<vars, objects, chanTables>>

(* The level is that of the nickname in use, and any identification will   *)
(* do.                                                                     *)
parseDROP(c, n) ==
  LET who == UserOf(c)
  IN  /\ c \in Online
      /\ Found(n)
      /\ isChanRegistered(findChan(n))
      /\ Founder \in getAccess(findChan(n), who.nickname)
      /\ idas(who) # {}
      /\ deregisterChannel(n)
      /\ UNCHANGED <<vars, objects, freed, chanfreeze>>

-----------------------------------------------------------------------------
(* Commands of the Serv service that act on channels.                      *)

(* Mutant: the old owner keeps the level.                                  *)
CHANmod_keepOld(c, n, newowner) ==
  /\ servAllows(c)
  /\ AccountsOf(newowner) # {}
  /\ isChanRegistered(n)
  /\ chanaccess' = chanaccess \cup
       {[chanid |-> getChanID(n), nickid |-> getNickID(newowner), access |-> Founder]}
  /\ chans' = {IF SameChan(r.name, n) THEN [r EXCEPT !.owner = newowner] ELSE r : r \in chans}
  /\ UNCHANGED <<vars, objects, freed, nextChanID, chanfreeze>>

(* The access of the old owner is looked for under the account that has    *)
(* the old owner's nickname now.                                           *)
CHANmod(c, n, newowner) ==
  LET oldowner == (CHOOSE r \in chans : r.id = getChanID(n)).owner
  IN  /\ servAllows(c)
      /\ AccountsOf(newowner) # {}
      /\ isChanRegistered(n)
      /\ chanaccess' =
           {r \in chanaccess : ~(r.chanid = getChanID(n) /\ r.nickid = getNickID(oldowner))}
             \cup {[chanid |-> getChanID(n), nickid |-> getNickID(newowner), access |-> Founder]}
      /\ chans' = {IF SameChan(r.name, n) THEN [r EXCEPT !.owner = newowner] ELSE r : r \in chans}
      /\ UNCHANGED <<vars, objects, freed, nextChanID, chanfreeze>>

CHANdel(c, n) ==
  /\ servAllows(c)
  /\ isChanRegistered(n)
  /\ deregisterChannel(n)
  /\ UNCHANGED <<vars, objects, freed, chanfreeze>>

(* Mutant: nobody asks whether the channel is registered.                  *)
CHANadd_again(c, n, thenick) ==
  /\ servAllows(c)
  /\ AccountsOf(thenick) # {}
  /\ registerChannel(n, thenick)
  /\ UNCHANGED <<vars, objects, freed, chanfreeze>>

CHANadd(c, n, thenick) ==
  /\ servAllows(c)
  /\ ~isChanRegistered(n)
  /\ AccountsOf(thenick) # {}
  /\ registerChannel(n, thenick)
  /\ UNCHANGED <<vars, objects, freed, chanfreeze>>

parseCHAN(c, n) ==
  \/ \E nick \in Name : CHANmod(c, n, nick) \/ CHANadd(c, n, nick)
  \/ CHANdel(c, n)

FREEZEadd(c, n) ==
  /\ servAllows(c)
  /\ isChanRegistered(n)
  /\ timesFreezed(n) < MaxFreezes
  /\ chanfreeze' = chanfreeze \cup
       {[chan |-> getChanID(ChanIRCtoLower[n]), nth |-> timesFreezed(n), expired |-> FALSE]}
  /\ UNCHANGED <<vars, objects, freed, chans, nextChanID, chanaccess>>

FREEZEdel(c, n) ==
  /\ servAllows(c)
  /\ isFreezed(n)
  /\ chanfreeze' = {IF f.chan = getChanID(ChanIRCtoLower[n])
                    THEN [f EXCEPT !.expired = TRUE] ELSE f : f \in chanfreeze}
  /\ UNCHANGED <<vars, objects, freed, chans, nextChanID, chanaccess>>

(* The time of a freeze passes.                                            *)
freezeExpires(f) ==
  /\ ~f.expired
  /\ chanfreeze' = (chanfreeze \ {f}) \cup {[f EXCEPT !.expired = TRUE]}
  /\ UNCHANGED <<vars, objects, freed, chans, nextChanID, chanaccess>>

ChanNext ==
  \/ nickStep
  \/ \E n \in ChanName : addChan(n) \/ delChan(n)
  \/ \E c \in Client, n \in ChanName :
       \/ parseREGISTER_Chan(c, n)
       \/ \E nick \in Name, level \in Level : parseADDUSER(c, n, nick, level)
       \/ parseSET_Chan(c, n)
       \/ parseDROP(c, n)
       \/ parseCHAN(c, n)
       \/ FREEZEadd(c, n)
       \/ FREEZEdel(c, n)
  \/ \E f \in chanfreeze : freezeExpires(f)

ChanSpec == ChanInit /\ [][ChanNext]_allVars

-----------------------------------------------------------------------------
RightsTypeOK ==
  /\ objects \subseteq ChanName
  /\ freed \subseteq objects
  /\ chans \subseteq Chan
  /\ nextChanID \in Nat \ {0}
  /\ chanaccess \subseteq ChanAccess

ChanTypeOK == RightsTypeOK /\ chanfreeze \subseteq Freeze

(* Every level is somebody's on some channel: no row of chanaccess is for  *)
(* the ID 0, under which all nicknames and channels that are not           *)
(* registered would share it, and none outlives the registration of its    *)
(* channel (channel.cpp:218, :243, dchan.cpp:145).                         *)
RightsAreGrounded ==
  \A r \in chanaccess :
    /\ r.nickid \in 1..(nextRegID - 1)
    /\ \E ch \in chans : ch.id = r.chanid

(* A channel is registered once, and the only account with the level of a  *)
(* founder is that of its owner, through changes of ownership, deletions   *)
(* and registrations anew of the owner's nickname (channel.cpp:285,        *)
(* serv.cpp:486).                                                          *)
OwnerIsFounder ==
  /\ \A ch, dh \in chans : ch.id = dh.id \/ SameChan(ch.name, dh.name) => ch = dh
  /\ \A ch \in chans, a \in nicks :
       [chanid |-> ch.id, nickid |-> a.id, access |-> Founder] \in chanaccess
         => SqlEqual(a.nickname, ch.owner)

(* The tables implement the abstract rights.                               *)
Rights == INSTANCE ChannelRights WITH
  trusted <- trust,
  accounts <- {r.id : r \in nicks},
  staff <- access,
  registered <- {r.id : r \in chans},
  rights <- chanaccess

ImplementsRights == Rights!RightsSpec

=============================================================================
