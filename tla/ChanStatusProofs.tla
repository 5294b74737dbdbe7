--------------------------- MODULE ChanStatusProofs ---------------------------
(***************************************************************************)
(* The record of ops and voices, for any clients, nicknames, levels and    *)
(* staff, provided that the two foldings of nicknames agree (PlainNames of *)
(* OnlineUsersProofs).  A row is found by numbers, a user by nickname: that *)
(* both mean the same connection rests on the invariant of the registry.   *)
(***************************************************************************)
EXTENDS ChanStatus, OnlineUsersProofs

(* The invariant by its parts.  Besides the types and RanksAreOfThisRun it *)
(* says that while the channel does not exist nobody is on it, so that no  *)
(* mode is recorded for the ID 0.                                          *)
NetworkInv ==
  /\ members \subseteq Online /\ ops \subseteq members /\ voices \subseteq members
  /\ members # {} => chan # 0

RightsTypeOK == identified \in [Client -> Seq(Name)] /\ levels \in [Name -> Level]

SwitchesTypeOK == frozen \in BOOLEAN /\ secure \in BOOLEAN

TableInv ==
  /\ chan \in 0..(nextChan - 1)
  /\ nextChan \in Nat \ {0}
  /\ chanstatus \subseteq StatusRow
  /\ RanksAreOfThisRun

StatusInv == OnlineInv /\ NetworkInv /\ RightsTypeOK /\ SwitchesTypeOK /\ TableInv

LEMMA StatusInvParts == StatusInv => ChanStatusTypeOK /\ RanksAreOfThisRun
  BY DEF StatusInv, ChanStatusTypeOK, NetworkInv, RightsTypeOK, SwitchesTypeOK, TableInv

-----------------------------------------------------------------------------
(* Users and their IDs.                                                    *)

(* The ID of a user was handed out in this run, and to nobody else.        *)
LEMMA IDsOfOnline ==
  ASSUME OnlineInv
  PROVE  /\ \A c \in Online : IDOf(c) \in 1..(nextOnlineID - 1)
         /\ \A c, d \in Online : IDOf(c) = IDOf(d) => c = d
  <1>1. \A c \in Online : UserOf(c) \in users /\ UserOf(c).nickname = Key(c)
    BY UserOfOnline DEF OnlineInv
  <1>2. \A u \in users : u.onlineID \in Nat /\ u.onlineID # 0 /\ u.onlineID < nextOnlineID
    BY DEF OnlineInv, OnlineTypeOK, User, UniqueOnlineID, IDsAreOld
  <1>3. nextOnlineID \in Nat
    BY DEF OnlineInv, OnlineTypeOK
  <1>4. \A u \in users : u.onlineID \in 1..(nextOnlineID - 1)
    BY <1>2, <1>3
  <1>5. ASSUME NEW c \in Online, NEW d \in Online, IDOf(c) = IDOf(d) PROVE c = d
    <2>1. UserOf(c) = UserOf(d)
      BY <1>1, <1>5 DEF OnlineInv, UniqueOnlineID, IDOf
    <2> QED
      BY <1>1, <2>1 DEF OnlineInv, KeysDiffer
  <1> QED
    BY <1>1, <1>4, <1>5 DEF IDOf

(* locateID finds the ID of an online client by its nickname.              *)
LEMMA LocateFindsID ==
  ASSUME OnlineInv, PlainNames, NEW c \in Online
  PROVE  locateID(onlineclients, network[c]) = IDOf(c)
  <1> DEFINE hits == {q \in onlineclients : SqlEqual(q.nickname, IRCtoLower[network[c]])}
  <1>1. \A d \in Online : network[d] \in Name
    BY DEF Online, OnlineInv, OnlineTypeOK
  <1>2. ToLower[Key(c)] = Key(c) /\ IRCtoLower[network[c]] = Key(c)
    BY <1>1, Folding DEF Key
  <1>3. UserOf(c) \in users /\ UserOf(c).nickname = Key(c)
    BY UserOfOnline DEF OnlineInv
  <1>4. ASSUME NEW q \in hits PROVE q.id = IDOf(c)
    <2>1. PICK u \in users : q = [id |-> u.onlineID, nickname |-> u.nickname]
      BY <1>4 DEF OnlineInv, TableIsRegistry
    <2>2. PICK d \in Online : u.nickname = Key(d)
      BY DEF OnlineInv, RegistryIsNetwork
    <2>3. ToLower[Key(d)] = Key(d)
      BY <1>1, Folding DEF Key
    <2>4. ToLower[q.nickname] = Key(c)
      BY <1>2, <1>4 DEF SqlEqual
    <2>5. u.nickname = Key(c)
      BY <2>1, <2>2, <2>3, <2>4
    <2>6. u = UserOf(c)
      BY <2>5, UserOfOnline DEF OnlineInv
    <2> QED
      BY <2>1, <2>6 DEF IDOf
  <1>5. \E q \in hits : q.id = IDOf(c)
    <2> DEFINE q == [id |-> IDOf(c), nickname |-> Key(c)]
    <2>1. q \in onlineclients
      BY <1>3 DEF OnlineInv, TableIsRegistry, IDOf
    <2>2. q \in hits
      BY <1>2, <2>1 DEF SqlEqual
    <2> QED
      BY <2>2
  <1> HIDE DEF hits
  <1>6. {r.id : r \in hits} = {IDOf(c)}
    BY <1>4, <1>5
  <1>7. IDOf(c) \in Nat
    BY IDsOfOnline DEF OnlineInv, OnlineTypeOK
  <1>8. Min({IDOf(c)}) = IDOf(c)
    BY <1>7 DEF Min
  <1> QED
    BY <1>6, <1>8 DEF locateID, hits

-----------------------------------------------------------------------------
(* The invariant.                                                          *)

LEMMA StatusInvInit == StatusInit => StatusInv
  <1> SUFFICES ASSUME StatusInit PROVE StatusInv
    OBVIOUS
  <1>1. OnlineInv
    BY OnlineInvInit DEF StatusInit
  <1>2. Online = {}
    BY DEF StatusInit, OnlineInit, Online
  <1>3. NetworkInv
    BY <1>2 DEF StatusInit, NetworkInv
  <1>4. identified = [c \in Client |-> <<>>] /\ levels \in [Name -> Level]
    BY DEF StatusInit
  <1>5. RightsTypeOK
    BY <1>4 DEF RightsTypeOK
  <1>6. SwitchesTypeOK
    BY DEF StatusInit, SwitchesTypeOK
  <1>7. chan = 0 /\ nextChan = 1 /\ chanstatus = {}
    BY DEF StatusInit
  <1>8. TableInv
    BY <1>7 DEF TableInv, RanksAreOfThisRun
  <1> QED
    BY <1>1, <1>3, <1>5, <1>6, <1>8 DEF StatusInv

(* Every step is one of the registry, or leaves it alone.                  *)
LEMMA OnlineSteps == [StatusNext]_statusVars => [OnlineNext]_onlineVars
  <1> SUFFICES ASSUME [StatusNext]_statusVars
               PROVE  OnlineNext \/ UNCHANGED onlineVars
    OBVIOUS
  <1>1. ASSUME NEW c \in Client, NEW n \in Name, signOn(c, n) \/ changeNick(c, n) \/ identify(c, n)
        PROVE  OnlineNext \/ UNCHANGED onlineVars
    BY <1>1 DEF signOn, changeNick, identify, OnlineNext
  <1>2. CASE startServices
    BY <1>2 DEF startServices, OnlineNext
  <1>3. ASSUME NEW c \in Client,
               signOff(c) \/ handleChannelPart(c) \/ handleChannelMode(c) \/ parseMDEOP(c)
        PROVE  OnlineNext \/ UNCHANGED onlineVars
    BY <1>2, <1>3 DEF signOff, handleChannelPart, handleChannelMode, parseMDEOP, OnlineNext
  <1>4. ASSUME NEW c \in Client, NEW status \in 0..3, handleChannelJoin(c, status)
        PROVE  UNCHANGED onlineVars
    BY <1>4 DEF handleChannelJoin
  <1>5. CASE changeRights \/ addChan \/ delChan
    BY <1>5 DEF changeRights, addChan, delChan
  <1>6. ASSUME NEW c \in Client, NEW T \in SUBSET Online,
               parseOP(c, T) \/ parseDEOP(c, T) \/ parseVOICE(c, T) \/ parseDEVOICE(c, T)
        PROVE  UNCHANGED onlineVars
    BY <1>6 DEF parseOP, parseDEOP, parseVOICE, parseDEVOICE
  <1>7. ASSUME NEW c \in Client, NEW d \in Client, parseKICK(c, d)
        PROVE  UNCHANGED onlineVars
    BY <1>7 DEF parseKICK
  <1>8. ASSUME NEW c \in Client, NEW value \in BOOLEAN, setChanSecure(c, value)
        PROVE  UNCHANGED onlineVars
    BY <1>8 DEF setChanSecure
  <1>9. CASE UNCHANGED statusVars
    BY <1>9 DEF statusVars
  <1> QED
    BY <1>1, <1>2, <1>3, <1>4, <1>5, <1>6, <1>7, <1>8, <1>9 DEF StatusNext

(* What the steps do to the table.                                         *)
LEMMA RangeGrows ==
  ASSUME NEW a \in Nat, NEW b \in Nat, b >= a
  PROVE  1..(a - 1) \subseteq 1..(b - 1)
  OBVIOUS

LEMMA ZeroIsFirst ==
  ASSUME NEW a \in Nat \ {0}
  PROVE  0 \in 0..(a - 1)
  OBVIOUS

LEMMA TableKept ==
  ASSUME TableInv, nextOnlineID \in Nat, nextOnlineID' \in Nat, nextOnlineID' >= nextOnlineID,
         UNCHANGED <<chan, nextChan, chanstatus>>
  PROVE  TableInv'
  <1>1. 1..(nextOnlineID - 1) \subseteq 1..(nextOnlineID' - 1)
    BY RangeGrows
  <1> QED
    BY <1>1 DEF TableInv, RanksAreOfThisRun

LEMMA TableEmptied ==
  ASSUME nextChan' \in Nat \ {0}, chan' \in 0..(nextChan' - 1), chanstatus' = {}
  PROVE  TableInv'
  BY DEF TableInv, RanksAreOfThisRun

(* The row that addUser inserts for a user.                                *)
RowFor(d, status) == [chanid |-> chan, nickid |-> IDOf(d), status |-> status]

LEMMA AddUserTable ==
  ASSUME StatusInv, NEW D \in SUBSET Online, NEW status \in Status, chan # 0,
         addUser(D, status), UNCHANGED <<onlineVars, chan, nextChan>>
  PROVE  TableInv'
  <1> DEFINE old == {r \in chanstatus : ~(r.chanid = chan /\ \E d \in D : r.nickid = IDOf(d))}
             new == {RowFor(d, status) : d \in D}
  <1>1. chanstatus' = old \cup new
    BY DEF addUser, RowFor
  <1>2. chan' = chan /\ nextChan' = nextChan /\ nextOnlineID' = nextOnlineID
    BY DEF onlineVars
  <1>3. /\ chan \in 1..(nextChan - 1) /\ nextChan \in Nat \ {0} /\ nextOnlineID \in Nat
    BY DEF StatusInv, TableInv, OnlineInv, OnlineTypeOK
  <1>4. /\ \A d \in D : IDOf(d) \in 1..(nextOnlineID - 1)
        /\ \A c, d \in D : IDOf(c) = IDOf(d) => c = d
    BY IDsOfOnline DEF StatusInv
  <1>5. \A d \in D : /\ RowFor(d, status).chanid = chan
                     /\ RowFor(d, status).nickid = IDOf(d)
                     /\ RowFor(d, status) \in StatusRow
    BY <1>3, <1>4 DEF RowFor, StatusRow
  <1>6. \A r \in new : /\ r.chanid = chan /\ r \in StatusRow
                       /\ \E d \in D : r = RowFor(d, status) /\ r.nickid = IDOf(d)
    BY <1>5
  <1>7. \A r \in old : /\ r \in chanstatus
                       /\ ~(r.chanid = chan /\ \E d \in D : r.nickid = IDOf(d))
    OBVIOUS
  <1> HIDE DEF old, new
  <1>8. chanstatus' \subseteq StatusRow
    BY <1>1, <1>6, <1>7 DEF StatusInv, TableInv
  <1>9. \A r \in chanstatus' : r.nickid \in 1..(nextOnlineID - 1) /\ r.chanid \in 1..(nextChan - 1)
    BY <1>1, <1>3, <1>4, <1>6, <1>7 DEF StatusInv, TableInv, RanksAreOfThisRun
  <1>10. ASSUME NEW r \in chanstatus', NEW s \in chanstatus',
                r.chanid = s.chanid, r.nickid = s.nickid
         PROVE  r = s
    <2>1. CASE r \in new /\ s \in new
      BY <1>4, <1>6, <1>10, <2>1
    <2>2. CASE r \in old /\ s \in old
      BY <1>7, <1>10, <2>2 DEF StatusInv, TableInv, RanksAreOfThisRun
    <2>3. CASE (r \in old /\ s \in new) \/ (r \in new /\ s \in old)
      BY <1>6, <1>7, <1>10, <2>3
    <2> QED
      BY <1>1, <1>10, <2>1, <2>2, <2>3
  <1> QED
    BY <1>2, <1>3, <1>8, <1>9, <1>10 DEF StatusInv, TableInv, RanksAreOfThisRun

LEMMA RowsFewer ==
  ASSUME TableInv, chanstatus' \subseteq chanstatus,
         UNCHANGED <<nextOnlineID, chan, nextChan>>
  PROVE  TableInv'
  BY DEF TableInv, RanksAreOfThisRun

(* MDEOP rewrites the rows of the channel in place.                        *)
LEMMA MdeopTable ==
  ASSUME StatusInv, UNCHANGED <<onlineVars, chan, nextChan>>,
         chanstatus' = {r \in chanstatus : r.chanid # chan} \cup
                         {[r EXCEPT !.status = 0] : r \in {q \in chanstatus : q.chanid = chan}}
  PROVE  TableInv'
  <1> DEFINE F == [r \in StatusRow |-> IF r.chanid = chan THEN [r EXCEPT !.status = 0] ELSE r]
  <1>1. nextOnlineID' = nextOnlineID /\ chan' = chan /\ nextChan' = nextChan
    BY DEF onlineVars
  <1>2. chanstatus \subseteq StatusRow
    BY DEF StatusInv, TableInv
  <1>3. \A r \in StatusRow : /\ F[r] \in StatusRow
                             /\ F[r].chanid = r.chanid /\ F[r].nickid = r.nickid
    BY DEF StatusRow, Status
  <1>4. \A q \in chanstatus' : \E r \in chanstatus : q = F[r]
    BY <1>2
  <1> HIDE DEF F
  <1>5. chanstatus' \subseteq StatusRow
    BY <1>2, <1>3, <1>4
  <1>6. \A q \in chanstatus' : /\ q.nickid \in 1..(nextOnlineID - 1)
                               /\ q.chanid \in 1..(nextChan - 1)
    BY <1>2, <1>3, <1>4 DEF StatusInv, TableInv, RanksAreOfThisRun
  <1>7. \A p, q \in chanstatus' : p.chanid = q.chanid /\ p.nickid = q.nickid => p = q
    BY <1>2, <1>3, <1>4 DEF StatusInv, TableInv, RanksAreOfThisRun
  <1> QED
    BY <1>1, <1>5, <1>6, <1>7 DEF StatusInv, TableInv, RanksAreOfThisRun

-----------------------------------------------------------------------------
(* Every step preserves the invariant.                                     *)

(* What is enough for a step that leaves the registry alone.               *)
LEMMA QuietStep ==
  ASSUME StatusInv, OnlineInv', UNCHANGED onlineVars,
         members' \subseteq Online, ops' \subseteq members', voices' \subseteq members',
         members' # {} => chan' # 0, RightsTypeOK', SwitchesTypeOK', TableInv'
  PROVE  StatusInv'
  <1>1. Online' = Online
    BY DEF onlineVars, Online
  <1> QED
    BY <1>1 DEF StatusInv, NetworkInv

(* A command or event that changes the table at most.                      *)
LEMMA TableStep ==
  ASSUME StatusInv, OnlineInv', TableInv', UNCHANGED <<onlineVars, rightVars, chan>>,
         members' \subseteq Online, ops' \subseteq members', voices' \subseteq members',
         members' # {} => chan # 0
  PROVE  StatusInv'
  <1>1. RightsTypeOK' /\ SwitchesTypeOK'
    BY DEF StatusInv, RightsTypeOK, SwitchesTypeOK, rightVars
  <1> QED
    BY <1>1, QuietStep

LEMMA EventInv ==
  ASSUME StatusInv, OnlineInv', NEW c \in Client,
         \/ \E status \in 0..3 : handleChannelJoin(c, status)
         \/ handleChannelPart(c) \/ handleChannelMode(c)
  PROVE  StatusInv'
  <1>1. /\ members \subseteq Online /\ ops \subseteq members /\ voices \subseteq members
        /\ members # {} => chan # 0
        /\ nextOnlineID \in Nat /\ TableInv
    BY DEF StatusInv, NetworkInv, OnlineInv, OnlineTypeOK
  <1>2. ASSUME UNCHANGED <<onlineVars, chan, nextChan, chanstatus>> PROVE TableInv'
    BY <1>1, <1>2, TableKept DEF onlineVars
  <1>3. ASSUME NEW status \in 0..3, handleChannelJoin(c, status) PROVE StatusInv'
    <2>1. /\ chan # 0 /\ c \in Online /\ members' = members \cup {c}
          /\ ops' \subseteq ops \cup {c} /\ voices' \subseteq voices \cup {c}
          /\ UNCHANGED <<onlineVars, rightVars, chan, nextChan>>
      BY <1>3 DEF handleChannelJoin
    <2>2. addUser({c}, 2) \/ (status - 2 \in Status /\ addUser({c}, status - 2)) \/ UNCHANGED chanstatus
      BY <1>3 DEF handleChannelJoin, Status
    <2>3. TableInv'
      BY <1>2, <2>1, <2>2, AddUserTable DEF Status
    <2> QED
      BY <1>1, <2>1, <2>3, TableStep
  <1>4. CASE handleChannelPart(c)
    <2>1. TableInv' /\ UNCHANGED <<onlineVars, rightVars, chan>>
      BY <1>2, <1>4 DEF handleChannelPart
    <2> QED
      BY <1>1, <1>4, <2>1, TableStep DEF handleChannelPart
  <1>5. CASE handleChannelMode(c)
    <2>1. /\ c \in members /\ members' = members
          /\ ops' \subseteq ops \cup {c} /\ voices' \subseteq voices \cup {c}
          /\ UNCHANGED <<onlineVars, rightVars, chan, nextChan>>
      BY <1>5 DEF handleChannelMode
    <2>2. chan # 0 /\ {c} \in SUBSET Online
      BY <1>1, <2>1
    <2>3. addUser({c}, 2) \/ addUser({c}, 1) \/ addUser({c}, 0) \/ UNCHANGED chanstatus
      BY <1>5 DEF handleChannelMode
    <2>4. TableInv'
      BY <1>2, <2>1, <2>2, <2>3, AddUserTable DEF Status
    <2> QED
      BY <1>1, <2>1, <2>4, TableStep
  <1> QED
    BY <1>3, <1>4, <1>5

LEMMA CommandInv ==
  ASSUME StatusInv, OnlineInv', NEW c \in Client,
         \/ \E T \in SUBSET Online :
              parseOP(c, T) \/ parseDEOP(c, T) \/ parseVOICE(c, T) \/ parseDEVOICE(c, T)
         \/ \E d \in Client : parseKICK(c, d)
         \/ \E value \in BOOLEAN : setChanSecure(c, value)
  PROVE  StatusInv'
  <1>1. /\ members \subseteq Online /\ ops \subseteq members /\ voices \subseteq members
        /\ members # {} => chan # 0
        /\ nextOnlineID \in Nat /\ TableInv
    BY DEF StatusInv, NetworkInv, OnlineInv, OnlineTypeOK
  <1>2. ASSUME NEW T \in SUBSET Online,
               parseOP(c, T) \/ parseDEOP(c, T) \/ parseVOICE(c, T) \/ parseDEVOICE(c, T)
        PROVE  StatusInv'
    <2>1. /\ chan # 0 /\ UNCHANGED <<onlineVars, networkVars, rightVars, chan, nextChan>>
          /\ \E D \in SUBSET Online, status \in Status : addUser(D, status)
      BY <1>2 DEF parseOP, parseDEOP, parseVOICE, parseDEVOICE, Heeded, Status
    <2>2. TableInv'
      BY <2>1, AddUserTable
    <2> QED
      BY <1>1, <2>1, <2>2, TableStep DEF networkVars
  <1>3. ASSUME NEW d \in Client, parseKICK(c, d) PROVE StatusInv'
    <2>1. /\ UNCHANGED <<onlineVars, networkVars, rightVars, chan, nextChan>>
          /\ chanstatus' \subseteq chanstatus
      BY <1>3 DEF parseKICK, delUserStatus
    <2>2. TableInv'
      BY <1>1, <2>1, RowsFewer DEF onlineVars
    <2> QED
      BY <1>1, <2>1, <2>2, TableStep DEF networkVars
  <1>4. ASSUME NEW value \in BOOLEAN, setChanSecure(c, value) PROVE StatusInv'
    <2>1. /\ secure' = value /\ chan' = chan
          /\ UNCHANGED <<onlineVars, networkVars, identified, levels, frozen, nextChan, chanstatus>>
      BY <1>4 DEF setChanSecure
    <2>2. TableInv'
      BY <1>1, <2>1, TableKept DEF onlineVars
    <2>3. RightsTypeOK'
      BY <2>1 DEF StatusInv, RightsTypeOK
    <2>4. SwitchesTypeOK'
      BY <2>1 DEF StatusInv, SwitchesTypeOK
    <2> QED
      BY <1>1, <2>1, <2>2, <2>3, <2>4, QuietStep DEF networkVars
  <1> QED
    BY <1>2, <1>3, <1>4

LEMMA StartServicesInv ==
  ASSUME StatusInv, OnlineInv', startServices
  PROVE  StatusInv'
  <1>1. Online' = {}
    BY DEF startServices, restart, Online
  <1>2. NetworkInv'
    BY <1>1 DEF startServices, NetworkInv
  <1>3. identified' = [c \in Client |-> <<>>] /\ levels' = levels
    BY DEF startServices
  <1>4. RightsTypeOK'
    BY <1>3 DEF StatusInv, RightsTypeOK
  <1>5. SwitchesTypeOK'
    BY DEF startServices, StatusInv, SwitchesTypeOK
  <1>6. chan' = 0 /\ nextChan' \in {1, nextChan} /\ chanstatus' = {} /\ nextChan \in Nat \ {0}
    BY DEF startServices, StatusInv, TableInv
  <1>7. TableInv'
    <2>1. nextChan' \in Nat \ {0}
      BY <1>6
    <2>2. chan' = 0
      BY <1>6
    <2>3. 0 \in 0..(nextChan' - 1)
      BY <2>1, ZeroIsFirst
    <2> QED
      BY <1>6, <2>1, <2>2, <2>3, TableEmptied
  <1> QED
    BY <1>2, <1>4, <1>5, <1>7 DEF StatusInv

LEMMA UserStepInv ==
  ASSUME StatusInv, OnlineInv', PlainNames, NEW c \in Client,
         (\E n \in Name : signOn(c, n) \/ changeNick(c, n) \/ identify(c, n)) \/ signOff(c)
  PROVE  StatusInv'
  <1>1. /\ members \subseteq Online /\ ops \subseteq members /\ voices \subseteq members
        /\ members # {} => chan # 0
        /\ nextOnlineID \in Nat /\ TableInv /\ OnlineInv
    BY DEF StatusInv, NetworkInv, OnlineInv, OnlineTypeOK
  <1>2. ASSUME NEW n \in Name, signOn(c, n) \/ changeNick(c, n) PROVE StatusInv'
    <2>1. Online \subseteq Online'
      BY <1>1, <1>2, AddClientIDs, SetNickIDs DEF signOn, changeNick
    <2>2. UNCHANGED <<networkVars, rightVars, chan, nextChan, chanstatus>>
      BY <1>2 DEF signOn, changeNick
    <2>3. nextOnlineID' \in {nextOnlineID, nextOnlineID + 1}
      BY <1>2 DEF signOn, changeNick, addClient, setNick
    <2>4. nextOnlineID' \in Nat /\ nextOnlineID' >= nextOnlineID
      BY <1>1, <2>3
    <2>5. TableInv'
      BY <1>1, <2>2, <2>4, TableKept
    <2>6. NetworkInv' /\ RightsTypeOK' /\ SwitchesTypeOK'
      BY <2>1, <2>2 DEF StatusInv, NetworkInv, RightsTypeOK, SwitchesTypeOK, networkVars, rightVars
    <2> QED
      BY <2>5, <2>6 DEF StatusInv
  <1>3. ASSUME NEW n \in Name, identify(c, n) PROVE StatusInv'
    <2>1. /\ UNCHANGED <<onlineVars, networkVars, levels, frozen, secure, chan, nextChan, chanstatus>>
          /\ identified' = [identified EXCEPT ![c] = Append(@, n)]
      BY <1>3 DEF identify
    <2>2. TableInv'
      BY <1>1, <2>1, TableKept DEF onlineVars
    <2>3. RightsTypeOK'
      BY <2>1 DEF StatusInv, RightsTypeOK
    <2>4. SwitchesTypeOK'
      BY <2>1 DEF StatusInv, SwitchesTypeOK
    <2> QED
      BY <1>1, <2>1, <2>2, <2>3, <2>4, QuietStep DEF networkVars
  <1>4. CASE signOff(c)
    <2>1. /\ delUser(c) /\ members' = members \ {c} /\ ops' = ops \ {c} /\ voices' = voices \ {c}
          /\ identified' = [identified EXCEPT ![c] = <<>>]
          /\ UNCHANGED <<levels, frozen, secure, chan, nextChan, chanstatus>>
      BY <1>4 DEF signOff
    <2>2. Online' = Online \ {c} /\ nextOnlineID' = nextOnlineID
      BY <1>1, <2>1, DelUserIDs DEF delUser
    <2>3. TableInv'
      BY <1>1, <2>1, <2>2, TableKept
    <2>4. RightsTypeOK'
      BY <2>1 DEF StatusInv, RightsTypeOK
    <2>5. SwitchesTypeOK'
      BY <2>1 DEF StatusInv, SwitchesTypeOK
    <2>6. NetworkInv'
      BY <1>1, <2>1, <2>2 DEF NetworkInv
    <2> QED
      BY <2>3, <2>4, <2>5, <2>6 DEF StatusInv
  <1> QED
    BY <1>2, <1>3, <1>4

LEMMA ChannelStepInv ==
  ASSUME StatusInv, OnlineInv', changeRights \/ addChan \/ delChan
  PROVE  StatusInv'
  <1>1. /\ members \subseteq Online /\ ops \subseteq members /\ voices \subseteq members
        /\ members # {} => chan # 0
        /\ nextOnlineID \in Nat /\ TableInv
    BY DEF StatusInv, NetworkInv, OnlineInv, OnlineTypeOK
  <1>2. CASE changeRights
    <2>1. UNCHANGED <<onlineVars, networkVars, identified, secure, chan, nextChan, chanstatus>>
      BY <1>2 DEF changeRights
    <2>2. TableInv'
      BY <1>1, <2>1, TableKept DEF onlineVars
    <2>3. levels' = levels \/ \E n \in Name, l \in Level : levels' = [levels EXCEPT ![n] = l]
      BY <1>2 DEF changeRights
    <2>4. RightsTypeOK'
      BY <2>1, <2>3 DEF StatusInv, RightsTypeOK
    <2>5. frozen' = frozen \/ frozen' = ~frozen
      BY <1>2 DEF changeRights
    <2>6. SwitchesTypeOK'
      BY <2>1, <2>5 DEF StatusInv, SwitchesTypeOK
    <2> QED
      BY <1>1, <2>1, <2>2, <2>4, <2>6, QuietStep DEF networkVars
  <1>3. CASE addChan \/ delChan
    <2>1. /\ UNCHANGED <<onlineVars, networkVars, rightVars, chanstatus>>
          /\ members # {} => chan' # 0
          /\ \/ chan' = nextChan /\ nextChan' = nextChan + 1
             \/ chan' = 0 /\ nextChan' = nextChan
      BY <1>1, <1>3 DEF addChan, delChan
    <2>2. TableInv'
      <3>1. nextChan \in Nat \ {0} /\ nextOnlineID' = nextOnlineID
        BY <1>1, <2>1 DEF TableInv, onlineVars
      <3>2. nextChan' \in Nat \ {0} /\ chan' \in 0..(nextChan' - 1) /\ nextChan' >= nextChan
        BY <2>1, <3>1
      <3>3. 1..(nextChan - 1) \subseteq 1..(nextChan' - 1)
        BY <3>1, <3>2, RangeGrows
      <3> QED
        BY <1>1, <2>1, <3>1, <3>2, <3>3 DEF TableInv, RanksAreOfThisRun
    <2>3. RightsTypeOK' /\ SwitchesTypeOK'
      BY <2>1 DEF StatusInv, RightsTypeOK, SwitchesTypeOK, rightVars
    <2> QED
      BY <1>1, <2>1, <2>2, <2>3, QuietStep DEF networkVars
  <1> QED
    BY <1>2, <1>3

LEMMA MdeopInv ==
  ASSUME StatusInv, OnlineInv', NEW c \in Client, parseMDEOP(c)
  PROVE  StatusInv'
  <1>1. CASE startServices
    BY <1>1, StartServicesInv
  <1>2. CASE ~startServices
    <2> DEFINE rows == {r \in chanstatus : r.chanid = chan}
    <2>1. /\ UNCHANGED <<onlineVars, networkVars, rightVars, chan, nextChan>>
          /\ chanstatus' = (chanstatus \ rows) \cup {[r EXCEPT !.status = 0] : r \in rows}
      BY <1>2 DEF parseMDEOP
    <2>2. chanstatus \ rows = {r \in chanstatus : r.chanid # chan}
      OBVIOUS
    <2>3. TableInv'
      BY <2>1, <2>2, MdeopTable
    <2>4. /\ members \subseteq Online /\ ops \subseteq members /\ voices \subseteq members
          /\ members # {} => chan # 0
      BY DEF StatusInv, NetworkInv
    <2> QED
      BY <2>1, <2>3, <2>4, TableStep DEF networkVars
  <1> QED
    BY <1>1, <1>2

LEMMA StatusInvNext == PlainNames /\ StatusInv /\ [StatusNext]_statusVars => StatusInv'
  <1> SUFFICES ASSUME PlainNames, StatusInv, [StatusNext]_statusVars PROVE StatusInv'
    OBVIOUS
  <1>1. OnlineInv'
    BY OnlineSteps, OnlineInvNext DEF StatusInv
  <1>2. CASE UNCHANGED statusVars
    <2>1. UNCHANGED <<onlineVars, rightVars, networkVars, chan, nextChan, chanstatus>>
      BY <1>2 DEF statusVars
    <2>2. TableInv'
      BY <2>1, TableKept DEF StatusInv, OnlineInv, OnlineTypeOK, onlineVars
    <2> QED
      BY <1>1, <2>1, <2>2, TableStep DEF StatusInv, NetworkInv, networkVars
  <1> QED
    BY <1>1, <1>2, EventInv, CommandInv, StartServicesInv, UserStepInv, ChannelStepInv, MdeopInv
       DEF StatusNext

(* The state of the ranks is well formed; a rank is for a user and an      *)
(* incarnation of the channel of this run, and there is one for the two.   *)
THEOREM ChanStatusTypeCorrect == PlainNames /\ StatusSpec => []ChanStatusTypeOK
  <1>1. StatusInit => StatusInv
    BY StatusInvInit
  <1> SUFFICES ASSUME PlainNames PROVE StatusSpec => []ChanStatusTypeOK
    OBVIOUS
  <1>2. StatusInv /\ [StatusNext]_statusVars => StatusInv'
    BY StatusInvNext
  <1>3. StatusInv => ChanStatusTypeOK
    BY StatusInvParts
  <1> QED
    BY <1>1, <1>2, <1>3, PTL DEF StatusSpec

THEOREM RanksStayInTheirRun == PlainNames /\ StatusSpec => []RanksAreOfThisRun
  <1>1. StatusInit => StatusInv
    BY StatusInvInit
  <1> SUFFICES ASSUME PlainNames PROVE StatusSpec => []RanksAreOfThisRun
    OBVIOUS
  <1>2. StatusInv /\ [StatusNext]_statusVars => StatusInv'
    BY StatusInvNext
  <1>3. StatusInv => RanksAreOfThisRun
    BY StatusInvParts
  <1> QED
    BY <1>1, <1>2, <1>3, PTL DEF StatusSpec

-----------------------------------------------------------------------------
(* The rank that the table records for a client.                           *)

HasRank(c) == c \in Online /\ \E r \in chanstatus : r.chanid = chan /\ r.nickid = IDOf(c)

(* In a table with one row for two IDs the row that is found is the one.   *)
LEMMA ChosenRow ==
  ASSUME NEW T, \A r, s \in T : r.chanid = s.chanid /\ r.nickid = s.nickid => r = s,
         NEW k, NEW id, NEW r \in T, r.chanid = k, r.nickid = id
  PROVE  (CHOOSE q \in T : q.chanid = k /\ q.nickid = id) = r
  <1> DEFINE p == CHOOSE q \in T : q.chanid = k /\ q.nickid = id
  <1>1. p \in T /\ p.chanid = k /\ p.nickid = id
    OBVIOUS
  <1> QED
    BY <1>1

LEMMA RankOfRow ==
  ASSUME StatusInv
  PROVE  /\ \A c \in Online : \A r \in chanstatus :
              r.chanid = chan /\ r.nickid = IDOf(c) => RankOf(c) = r.status
         /\ \A c : ~HasRank(c) => RankOf(c) = -1
         /\ \A c : HasRank(c) => RankOf(c) \in Status
  <1>1. \A r, s \in chanstatus : r.chanid = s.chanid /\ r.nickid = s.nickid => r = s
    BY DEF StatusInv, TableInv, RanksAreOfThisRun
  <1>2. ASSUME NEW c \in Online, NEW r \in chanstatus, r.chanid = chan, r.nickid = IDOf(c)
        PROVE  RankOf(c) = r.status
    <2>1. (CHOOSE q \in chanstatus : q.chanid = chan /\ q.nickid = IDOf(c)) = r
      BY <1>1, <1>2, ChosenRow
    <2> QED
      BY <1>2, <2>1 DEF RankOf
  <1>3. \A c : ~HasRank(c) => RankOf(c) = -1
    BY DEF HasRank, RankOf
  <1>4. \A c : HasRank(c) => RankOf(c) \in Status
    BY <1>2 DEF HasRank, StatusInv, TableInv, StatusRow
  <1> QED
    BY <1>2, <1>3, <1>4

LEMMA RankOfRowNext ==
  ASSUME StatusInv'
  PROVE  /\ \A c \in Online' : \A r \in chanstatus' :
              r.chanid = chan' /\ r.nickid = IDOf(c)' => RankOf(c)' = r.status
         /\ \A c : ~HasRank(c)' => RankOf(c)' = -1
  <1>1. \A r, s \in chanstatus' : r.chanid = s.chanid /\ r.nickid = s.nickid => r = s
    BY DEF StatusInv, TableInv, RanksAreOfThisRun
  <1>2. ASSUME NEW c \in Online', NEW r \in chanstatus', r.chanid = chan', r.nickid = IDOf(c)'
        PROVE  RankOf(c)' = r.status
    <2>1. (CHOOSE q \in chanstatus' : q.chanid = chan' /\ q.nickid = IDOf(c)') = r
      BY <1>1, <1>2, ChosenRow
    <2> QED
      BY <1>2, <2>1 DEF RankOf
  <1>3. \A c : ~HasRank(c)' => RankOf(c)' = -1
    BY DEF HasRank, RankOf
  <1> QED
    BY <1>2, <1>3

(* The queries of isOp and isVoice find that rank.                         *)
LEMMA RankAsAsked ==
  ASSUME StatusInv, PlainNames, NEW c \in Online
  PROVE  /\ isOp(c) => RankOf(c) = 2
         /\ isVoice(c) => RankOf(c) = 1
  <1>1. locateID(onlineclients, network[c]) = IDOf(c)
    BY LocateFindsID DEF StatusInv
  <1> QED
    BY <1>1, RankOfRow DEF isOp, isVoice, RowsOf

(* What the steps do to the ranks.                                         *)
LEMMA RanksKept ==
  ASSUME StatusInv, StatusInv', UNCHANGED <<chan, chanstatus>>,
         NEW c, c \in Online <=> c \in Online', c \in Online => IDOf(c)' = IDOf(c)
  PROVE  RankOf(c)' = RankOf(c)
  BY DEF RankOf

LEMMA AddUserRanks ==
  ASSUME StatusInv, StatusInv', NEW D \in SUBSET Online, NEW status \in Status,
         addUser(D, status), UNCHANGED <<onlineVars, chan>>
  PROVE  \A c : RankOf(c)' = IF c \in D THEN status ELSE RankOf(c)
  <1>1. Online' = Online /\ \A c : IDOf(c)' = IDOf(c)
    BY DEF onlineVars, Online, IDOf, UserOf, Key
  <1>2. chan' = chan
    OBVIOUS
  <1>3. ASSUME NEW c \in D PROVE RankOf(c)' = status
    <2>1. RowFor(c, status) \in chanstatus'
      BY DEF addUser, RowFor
    <2>2. RowFor(c, status).chanid = chan' /\ RowFor(c, status).nickid = IDOf(c)'
          /\ RowFor(c, status).status = status
      BY <1>1, <1>2 DEF RowFor
    <2> QED
      BY <1>1, <2>1, <2>2, RankOfRowNext
  <1>4. ASSUME NEW c \in Online \ D PROVE RankOf(c)' = RankOf(c)
    <2>1. \A d \in D : IDOf(d) # IDOf(c)
      BY <1>4, IDsOfOnline DEF StatusInv
    <2>2. \A r : r.nickid = IDOf(c) => (r \in chanstatus' <=> r \in chanstatus)
      BY <2>1 DEF addUser
    <2>3. CASE HasRank(c)
      <3>1. PICK r \in chanstatus : r.chanid = chan /\ r.nickid = IDOf(c)
        BY <2>3 DEF HasRank
      <3> QED
        BY <1>1, <1>2, <1>4, <2>2, <3>1, RankOfRow, RankOfRowNext
    <2>4. CASE ~HasRank(c)
      <3>1. ~HasRank(c)'
        BY <1>1, <1>2, <1>4, <2>2, <2>4 DEF HasRank
      <3> QED
        BY <2>4, <3>1, RankOfRow, RankOfRowNext
    <2> QED
      BY <2>3, <2>4
  <1>5. ASSUME NEW c, c \notin Online PROVE RankOf(c)' = RankOf(c)
    BY <1>1, <1>5 DEF RankOf
  <1> QED
    BY <1>3, <1>4, <1>5

LEMMA DelUserRanks ==
  ASSUME StatusInv, StatusInv', NEW d \in Online, delUserStatus(d), UNCHANGED <<onlineVars, chan>>
  PROVE  \A c : RankOf(c)' = IF c = d THEN -1 ELSE RankOf(c)
  <1>1. Online' = Online /\ \A c : IDOf(c)' = IDOf(c)
    BY DEF onlineVars, Online, IDOf, UserOf, Key
  <1>2. chan' = chan
    OBVIOUS
  <1>3. RankOf(d)' = -1
    <2>1. ~HasRank(d)'
      BY <1>1, <1>2 DEF delUserStatus, HasRank
    <2> QED
      BY <2>1, RankOfRowNext
  <1>4. ASSUME NEW c \in Online \ {d} PROVE RankOf(c)' = RankOf(c)
    <2>1. IDOf(d) # IDOf(c)
      BY <1>4, IDsOfOnline DEF StatusInv
    <2>2. \A r : r.nickid = IDOf(c) => (r \in chanstatus' <=> r \in chanstatus)
      BY <2>1 DEF delUserStatus
    <2>3. CASE HasRank(c)
      <3>1. PICK r \in chanstatus : r.chanid = chan /\ r.nickid = IDOf(c)
        BY <2>3 DEF HasRank
      <3> QED
        BY <1>1, <1>2, <1>4, <2>2, <3>1, RankOfRow, RankOfRowNext
    <2>4. CASE ~HasRank(c)
      <3>1. ~HasRank(c)'
        BY <1>1, <1>2, <1>4, <2>2, <2>4 DEF HasRank
      <3> QED
        BY <2>4, <3>1, RankOfRow, RankOfRowNext
    <2> QED
      BY <2>3, <2>4
  <1>5. ASSUME NEW c, c \notin Online PROVE RankOf(c)' = RankOf(c)
    BY <1>1, <1>5 DEF RankOf
  <1> QED
    BY <1>3, <1>4, <1>5

(* MDEOP lowers every rank on the channel to 0.                            *)
LEMMA MdeopRanks ==
  ASSUME StatusInv, StatusInv', UNCHANGED <<onlineVars, chan>>,
         chanstatus' = {r \in chanstatus : r.chanid # chan} \cup
                         {[r EXCEPT !.status = 0] : r \in {q \in chanstatus : q.chanid = chan}}
  PROVE  \A c : RankOf(c)' = IF RankOf(c) = -1 THEN -1 ELSE 0
  <1>1. Online' = Online /\ \A c : IDOf(c)' = IDOf(c)
    BY DEF onlineVars, Online, IDOf, UserOf, Key
  <1>2. chan' = chan
    OBVIOUS
  <1>3. \A r \in chanstatus : r \in StatusRow /\ r = [chanid |-> r.chanid, nickid |-> r.nickid, status |-> r.status]
    BY DEF StatusInv, TableInv, StatusRow
  <1>4. ASSUME NEW c, HasRank(c) PROVE RankOf(c)' = 0 /\ RankOf(c) # -1
    <2>1. PICK r \in chanstatus : r.chanid = chan /\ r.nickid = IDOf(c)
      BY <1>4 DEF HasRank
    <2> DEFINE q == [r EXCEPT !.status = 0]
    <2>2. q \in chanstatus'
      BY <2>1
    <2>3. q.chanid = chan' /\ q.nickid = IDOf(c)' /\ q.status = 0
      BY <1>1, <1>2, <1>3, <2>1 DEF StatusRow
    <2> HIDE DEF q
    <2>4. RankOf(c)' = 0
      BY <1>1, <1>4, <2>2, <2>3, RankOfRowNext DEF HasRank
    <2>5. RankOf(c) # -1
      BY <1>4, RankOfRow DEF Status
    <2> QED
      BY <2>4, <2>5
  <1>5. ASSUME NEW c, ~HasRank(c) PROVE RankOf(c)' = -1 /\ RankOf(c) = -1
    <2>1. ASSUME HasRank(c)' PROVE FALSE
      <3>1. c \in Online /\ \E q \in chanstatus' : q.chanid = chan /\ q.nickid = IDOf(c)
        BY <1>1, <1>2, <2>1 DEF HasRank
      <3>2. PICK q \in chanstatus' : q.chanid = chan /\ q.nickid = IDOf(c)
        BY <3>1
      <3>3. PICK r \in chanstatus : r.chanid = chan /\ q = [r EXCEPT !.status = 0]
        BY <3>2
      <3>4. q.nickid = r.nickid
        BY <1>3, <3>3 DEF StatusRow
      <3> QED
        BY <1>5, <3>1, <3>2, <3>3, <3>4 DEF HasRank
    <2> QED
      BY <1>5, <2>1, RankOfRow, RankOfRowNext
  <1> QED
    BY <1>4, <1>5

-----------------------------------------------------------------------------
(* The table implements the abstract ranks.                                *)

SameRanks == [c \in Client |-> RankOf(c)]' = [c \in Client |-> RankOf(c)]

LEMMA NobodyRanked ==
  ASSUME StatusInv, chan = 0
  PROVE  \A c : RankOf(c) = -1
  <1>1. \A r \in chanstatus : r.chanid # chan
    BY DEF StatusInv, TableInv, RanksAreOfThisRun
  <1> QED
    BY <1>1 DEF RankOf

(* The registry and the rights alone decide about what the abstract ranks  *)
(* know of the world but for the channel.                                  *)
LEMMA WorldKept ==
  ASSUME UNCHANGED <<onlineVars, identified, levels>>
  PROVE  /\ Online' = Online
         /\ [c \in Client |-> FirstLevel(c)]' = [c \in Client |-> FirstLevel(c)]
         /\ [c \in Client |-> BestLevel(c)]' = [c \in Client |-> BestLevel(c)]
         /\ {c \in Online : Key(c) \in Staff}' = {c \in Online : Key(c) \in Staff}
  <1>1. network' = network /\ identified' = identified /\ levels' = levels
    BY DEF onlineVars
  <1>2. Online' = Online /\ \A c : Key(c)' = Key(c)
    BY <1>1 DEF Online, Key
  <1>3. \A c : FirstLevel(c)' = FirstLevel(c)
    BY <1>1 DEF FirstLevel, getAccess
  <1>4. \A c : BestLevel(c)' = BestLevel(c)
    BY <1>1 DEF BestLevel, getAccess
  <1> QED
    BY <1>2, <1>3, <1>4

LEMMA SeenKept ==
  ASSUME UNCHANGED networkVars
  PROVE  [c \in Client |-> <<c \in members, c \in ops, c \in voices>>]'
           = [c \in Client |-> <<c \in members, c \in ops, c \in voices>>]
  BY DEF networkVars

LEMMA UserStepRanks ==
  ASSUME PlainNames, StatusInv, StatusInv', NEW c \in Client, NEW n \in Name,
         signOn(c, n) \/ changeNick(c, n) \/ identify(c, n)
  PROVE  Ranks!Elsewhere
  <1>1. Online \subseteq Online' /\ \A d \in Online : IDOf(d)' = IDOf(d)
    <2>1. CASE signOn(c, n)
      BY <2>1, AddClientIDs DEF signOn, StatusInv
    <2>2. CASE changeNick(c, n)
      BY <2>2, SetNickIDs DEF changeNick, StatusInv
    <2>3. CASE identify(c, n)
      BY <2>3 DEF identify, onlineVars, Online, IDOf, UserOf, Key
    <2> QED
      BY <2>1, <2>2, <2>3
  <1>2. UNCHANGED <<networkVars, chan, chanstatus>>
    BY DEF signOn, changeNick, identify
  <1>3. \A d \in Online : RankOf(d)' = RankOf(d)
    BY <1>1, <1>2, RanksKept
  <1>4. \A d \in Online' \ Online : RankOf(d)' = -1
    <2> SUFFICES ASSUME NEW d \in Online' \ Online PROVE RankOf(d)' = -1
      OBVIOUS
    <2>1. IDOf(d)' = nextOnlineID
      <3>1. CASE signOn(c, n)
        BY <3>1, AddClientIDs DEF signOn, StatusInv
      <3>2. CASE changeNick(c, n)
        BY <3>2, SetNickIDs DEF changeNick, StatusInv
      <3>3. CASE identify(c, n)
        BY <3>3 DEF identify, onlineVars, Online
      <3> QED
        BY <3>1, <3>2, <3>3
    <2>2. \A r \in chanstatus : r.nickid # nextOnlineID
      BY DEF StatusInv, TableInv, RanksAreOfThisRun, OnlineInv, OnlineTypeOK
    <2>3. ~HasRank(d)'
      BY <1>2, <2>1, <2>2 DEF HasRank
    <2> QED
      BY <2>3, RankOfRowNext
  <1>5. \A d \in Client : RankOf(d)' = RankOf(d)
    <2>1. \A d : d \notin Online => RankOf(d) = -1
      BY DEF RankOf
    <2>2. \A d : d \notin Online' => RankOf(d)' = -1
      BY DEF RankOf
    <2> QED
      BY <1>1, <1>3, <1>4, <2>1, <2>2
  <1>6. SameRanks
    BY <1>5 DEF SameRanks
  <1> QED
    BY <1>1, <1>2, <1>6, SeenKept DEF Ranks!Elsewhere, SameRanks

LEMMA SignOffRanks ==
  ASSUME PlainNames, StatusInv, StatusInv', NEW c \in Client, signOff(c)
  PROVE  Ranks!Leave(c)
  <1>1. Online' = Online \ {c} /\ \A d \in Online' : IDOf(d)' = IDOf(d)
    BY DelUserIDs DEF signOff, StatusInv
  <1>2. UNCHANGED <<chan, chanstatus>>
    BY DEF signOff
  <1>3. \A d \in Client : RankOf(d)' = IF d = c THEN -1 ELSE RankOf(d)
    <2>1. \A d \in Online' : RankOf(d)' = RankOf(d)
      BY <1>1, <1>2, RanksKept
    <2>2. \A d : d \notin Online' => RankOf(d)' = -1
      BY DEF RankOf
    <2>3. \A d : d \notin Online => RankOf(d) = -1
      BY DEF RankOf
    <2> QED
      BY <1>1, <2>1, <2>2, <2>3
  <1>4. [d \in Client |-> RankOf(d)]' = [[d \in Client |-> RankOf(d)] EXCEPT ![c] = -1]
    BY <1>3
  <1> QED
    BY <1>1, <1>4 DEF Ranks!Leave

LEMMA RestartRanks ==
  ASSUME startServices
  PROVE  Ranks!Vanish
  <1>1. chanstatus' = {}
    BY DEF startServices
  <1>2. \A c : RankOf(c)' = -1
    BY <1>1 DEF RankOf
  <1> QED
    BY <1>2 DEF Ranks!Vanish

LEMMA ChannelStepRanks ==
  ASSUME StatusInv, StatusInv', addChan \/ delChan
  PROVE  Ranks!Vanish
  <1>1. chan' \in {0, nextChan} /\ chanstatus' = chanstatus
    BY DEF addChan, delChan
  <1>2. \A r \in chanstatus : r.chanid # nextChan /\ r.chanid # 0
    BY DEF StatusInv, TableInv, RanksAreOfThisRun
  <1>3. \A c : RankOf(c)' = -1
    BY <1>1, <1>2 DEF RankOf
  <1> QED
    BY <1>3 DEF Ranks!Vanish

(* An event is about one client, of whom the network now says otherwise.   *)
LEMMA EventRanks ==
  ASSUME StatusInv, StatusInv', NEW c \in Client,
         \/ \E status \in 0..3 : handleChannelJoin(c, status)
         \/ handleChannelPart(c) \/ handleChannelMode(c)
  PROVE  Ranks!Report(c)
  <1>1. members \subseteq Online /\ ops \subseteq members /\ voices \subseteq members
    BY DEF StatusInv, NetworkInv
  <1>2. UNCHANGED <<onlineVars, identified, levels, frozen, chan>> /\ c \in Online
    BY <1>1 DEF handleChannelJoin, handleChannelPart, handleChannelMode, rightVars
  <1>3. \/ UNCHANGED chanstatus
        \/ \E status \in Status : addUser({c}, status)
    <2>1. ASSUME NEW status \in 0..3, handleChannelJoin(c, status)
          PROVE  \/ UNCHANGED chanstatus
                 \/ addUser({c}, 2) \/ (status - 2 \in Status /\ addUser({c}, status - 2))
      BY <2>1 DEF handleChannelJoin, Status
    <2>2. CASE handleChannelPart(c)
      BY <2>2 DEF handleChannelPart
    <2>3. CASE handleChannelMode(c)
      BY <2>3 DEF handleChannelMode, Status
    <2> QED
      BY <2>1, <2>2, <2>3 DEF Status
  <1>4. \A d \in Client \ {c} : RankOf(d)' = RankOf(d)
    <2>1. CASE UNCHANGED chanstatus
      <3>1. Online' = Online /\ \A d : IDOf(d)' = IDOf(d)
        BY <1>2 DEF onlineVars, Online, IDOf, UserOf, Key
      <3> QED
        BY <1>2, <2>1, <3>1, RanksKept
    <2>2. ASSUME NEW status \in Status, addUser({c}, status)
          PROVE  \A d \in Client \ {c} : RankOf(d)' = RankOf(d)
      <3>1. {c} \in SUBSET Online
        BY <1>2
      <3> QED
        BY <1>2, <2>2, <3>1, AddUserRanks
    <2> QED
      BY <1>3, <2>1, <2>2
  <1> DEFINE Others == \A d \in Client \ {c} : /\ (d \in members') = (d \in members)
                                              /\ (d \in ops') = (d \in ops)
                                              /\ (d \in voices') = (d \in voices)
             News == \/ (c \in members') # (c \in members)
                     \/ (c \in ops') # (c \in ops)
                     \/ (c \in voices') # (c \in voices)
  <1>5. Others /\ News
    <2>1. ASSUME NEW status \in 0..3, handleChannelJoin(c, status) PROVE Others /\ News
      BY <2>1 DEF handleChannelJoin
    <2>2. CASE handleChannelPart(c)
      BY <2>2 DEF handleChannelPart
    <2>3. CASE handleChannelMode(c)
      BY <2>3 DEF handleChannelMode
    <2> QED
      BY <2>1, <2>2, <2>3
  <1> QED
    BY <1>2, <1>4, <1>5, WorldKept DEF Ranks!Report

-----------------------------------------------------------------------------
(* The commands.                                                           *)

LEMMA ModeCommandRanks ==
  ASSUME PlainNames, StatusInv, StatusInv', NEW c \in Client, NEW T \in SUBSET Online,
         parseOP(c, T) \/ parseDEOP(c, T) \/ parseVOICE(c, T) \/ parseDEVOICE(c, T)
  PROVE  c \in Online /\ (Ranks!ChangeOp(c) \/ Ranks!ChangeVoice(c))
  <1>1. /\ c \in Online /\ ~frozen
        /\ UNCHANGED <<onlineVars, networkVars, rightVars, chan>>
    BY DEF parseOP, parseDEOP, parseVOICE, parseDEVOICE, Heeded
  <1>2. UNCHANGED Ranks!worldVars
    BY <1>1, WorldKept, SeenKept DEF Ranks!worldVars, rightVars
  <1>3. ASSUME NEW D \in SUBSET Online, NEW status \in Status, addUser(D, status)
        PROVE  \A d \in Ranks!Changed : d \in D /\ d \in Online /\ RankOf(d)' = status
    BY <1>1, <1>3, AddUserRanks DEF Ranks!Changed
  <1>4. Ranks!Changed \subseteq Client
    BY DEF Ranks!Changed
  <1>5. ASSUME parseOP(c, T) \/ parseDEOP(c, T), FirstLevel(c) > 99 PROVE Ranks!ChangeOp(c)
    <2>1. \A d \in Ranks!Changed : /\ d \in Online
                                   /\ RankOf(d)' = 2 \/ (RankOf(d) = 2 /\ RankOf(d)' = 0)
      <3>1. CASE parseOP(c, T)
        BY <1>3, <3>1 DEF parseOP, Status
      <3>2. CASE parseDEOP(c, T)
        BY <1>3, <3>2, RankAsAsked DEF parseDEOP, Status
      <3> QED
        BY <1>5, <3>1, <3>2
    <2> QED
      BY <1>1, <1>2, <1>4, <1>5, <2>1 DEF Ranks!ChangeOp
  <1>6. ASSUME parseVOICE(c, T) \/ parseDEVOICE(c, T), FirstLevel(c) > 50
        PROVE  Ranks!ChangeVoice(c)
    <2>1. \A d \in Ranks!Changed : /\ d \in Online
                                   /\ RankOf(d)' = 1 \/ (RankOf(d) = 1 /\ RankOf(d)' = 0)
      <3>1. CASE parseVOICE(c, T)
        BY <1>3, <3>1 DEF parseVOICE, Status
      <3>2. CASE parseDEVOICE(c, T)
        BY <1>3, <3>2, RankAsAsked DEF parseDEVOICE, Status
      <3> QED
        BY <1>6, <3>1, <3>2
    <2> QED
      BY <1>1, <1>2, <1>4, <1>6, <2>1 DEF Ranks!ChangeVoice
  <1>7. /\ parseOP(c, T) \/ parseDEOP(c, T) => FirstLevel(c) > 99
        /\ parseVOICE(c, T) \/ parseDEVOICE(c, T) => FirstLevel(c) > 50
    BY DEF parseOP, parseDEOP, parseVOICE, parseDEVOICE
  <1> QED
    BY <1>1, <1>5, <1>6, <1>7

LEMMA KickRanks ==
  ASSUME StatusInv, StatusInv', NEW c \in Client, NEW d \in Client, parseKICK(c, d)
  PROVE  c \in Online /\ Ranks!Kick(c, d)
  <1>1. /\ c \in Online /\ d \in Online /\ ~frozen /\ BestLevel(c) > 99 /\ delUserStatus(d)
        /\ UNCHANGED <<onlineVars, networkVars, rightVars, chan>>
    BY DEF parseKICK, Heeded
  <1>2. UNCHANGED Ranks!worldVars
    BY <1>1, WorldKept, SeenKept DEF Ranks!worldVars, rightVars
  <1>3. [e \in Client |-> RankOf(e)]' = [[e \in Client |-> RankOf(e)] EXCEPT ![d] = -1]
    BY <1>1, DelUserRanks
  <1> QED
    BY <1>1, <1>2, <1>3 DEF Ranks!Kick

LEMMA MassDeopRanks ==
  ASSUME StatusInv, StatusInv', NEW c \in Client, parseMDEOP(c)
  PROVE  Ranks!MassDeop(c) \/ Ranks!Vanish
  <1>1. CASE startServices
    BY <1>1, RestartRanks
  <1>2. CASE ~startServices
    <2> DEFINE rows == {r \in chanstatus : r.chanid = chan}
    <2>1. /\ UNCHANGED <<onlineVars, networkVars, rightVars, chan, nextChan>>
          /\ c \in Online /\ Key(c) \in Staff
          /\ chanstatus' = (chanstatus \ rows) \cup {[r EXCEPT !.status = 0] : r \in rows}
      BY <1>2 DEF parseMDEOP
    <2>2. chanstatus \ rows = {r \in chanstatus : r.chanid # chan}
      OBVIOUS
    <2>3. \A d : RankOf(d)' = IF RankOf(d) = -1 THEN -1 ELSE 0
      BY <2>1, <2>2, MdeopRanks
    <2>4. UNCHANGED Ranks!worldVars
      BY <2>1, WorldKept, SeenKept DEF Ranks!worldVars, rightVars
    <2> HIDE DEF rows
    <2> QED
      BY <2>1, <2>3, <2>4 DEF Ranks!MassDeop
  <1> QED
    BY <1>1, <1>2

LEMMA RanksStep ==
  ASSUME PlainNames, StatusInv, StatusInv', [StatusNext]_statusVars
  PROVE  [Ranks!RanksNext]_(Ranks!ranksVars)
  <1>1. ASSUME NEW c \in Client, NEW n \in Name, signOn(c, n) \/ changeNick(c, n) \/ identify(c, n)
        PROVE  Ranks!RanksNext
    BY <1>1, UserStepRanks DEF Ranks!RanksNext
  <1>2. ASSUME NEW c \in Client,
               signOff(c) \/ handleChannelPart(c) \/ handleChannelMode(c) \/ parseMDEOP(c)
        PROVE  Ranks!RanksNext
    BY <1>2, SignOffRanks, EventRanks, MassDeopRanks DEF Ranks!RanksNext
  <1>3. ASSUME NEW c \in Client, NEW status \in 0..3, handleChannelJoin(c, status)
        PROVE  Ranks!RanksNext
    BY <1>3, EventRanks DEF Ranks!RanksNext
  <1>4. CASE changeRights
    <2>1. UNCHANGED <<onlineVars, networkVars, chan, chanstatus>>
      BY <1>4 DEF changeRights
    <2>2. Online' = Online /\ \A c : IDOf(c)' = IDOf(c)
      BY <2>1 DEF onlineVars, Online, IDOf, UserOf, Key
    <2>3. SameRanks
      BY <2>1, <2>2, RanksKept DEF SameRanks
    <2> QED
      BY <2>1, <2>2, <2>3, SeenKept DEF Ranks!RanksNext, Ranks!Elsewhere, SameRanks
  <1>5. CASE addChan \/ delChan
    BY <1>5, ChannelStepRanks DEF Ranks!RanksNext
  <1>6. CASE startServices
    BY <1>6, RestartRanks DEF Ranks!RanksNext
  <1>7. ASSUME NEW c \in Client, NEW T \in SUBSET Online,
               parseOP(c, T) \/ parseDEOP(c, T) \/ parseVOICE(c, T) \/ parseDEVOICE(c, T)
        PROVE  Ranks!RanksNext
    BY <1>7, ModeCommandRanks DEF Ranks!RanksNext
  <1>8. ASSUME NEW c \in Client, NEW d \in Client, parseKICK(c, d)
        PROVE  Ranks!RanksNext
    BY <1>8, KickRanks DEF Ranks!RanksNext
  <1>9. ASSUME \/ \E c \in Client, value \in BOOLEAN : setChanSecure(c, value)
               \/ UNCHANGED statusVars
        PROVE  UNCHANGED Ranks!ranksVars
    <2>1. UNCHANGED <<onlineVars, networkVars, identified, levels, frozen, chan, chanstatus>>
      BY <1>9 DEF setChanSecure, statusVars, rightVars
    <2>2. Online' = Online /\ \A c : IDOf(c)' = IDOf(c)
      BY <2>1 DEF onlineVars, Online, IDOf, UserOf, Key
    <2>3. SameRanks
      BY <2>1, <2>2, RanksKept DEF SameRanks
    <2> QED
      BY <2>1, <2>3, WorldKept, SeenKept DEF Ranks!ranksVars, SameRanks
  <1> QED
    BY <1>1, <1>2, <1>3, <1>4, <1>5, <1>6, <1>7, <1>8, <1>9 DEF StatusNext

(* The queries by nickname and the rows by number are one record of ranks  *)
(* of connections: a rank changes only by a report about the client or by  *)
(* a command of somebody who may give it, and neither the end of a         *)
(* connection or a channel nor a change of nickname hands it to another    *)
(* (ImplementsRanks; dchan.cpp:41, chan.cpp).                              *)
THEOREM ChanStatusImplementsRanks == PlainNames /\ StatusSpec => ImplementsRanks
  <1>1. StatusInit => Ranks!RanksInit
    <2> SUFFICES ASSUME StatusInit PROVE Ranks!RanksInit
      OBVIOUS
    <2>1. Online = {} /\ chanstatus = {}
      BY DEF StatusInit, OnlineInit, Online
    <2> QED
      BY <2>1 DEF Ranks!RanksInit, RankOf
  <1>2. StatusInit => StatusInv
    BY StatusInvInit
  <1> SUFFICES ASSUME PlainNames PROVE StatusSpec => ImplementsRanks
    OBVIOUS
  <1>3. StatusInv /\ [StatusNext]_statusVars => StatusInv'
    BY StatusInvNext
  <1>4. StatusInv /\ StatusInv' /\ [StatusNext]_statusVars => [Ranks!RanksNext]_(Ranks!ranksVars)
    BY RanksStep
  <1> QED
    BY <1>1, <1>2, <1>3, <1>4, PTL DEF StatusSpec, ImplementsRanks, Ranks!RanksSpec

(* The composition: ranks are kept over the registry of OnlineUsers, which *)
(* behaves as it does alone.                                               *)
THEOREM ChanStatusIsOnlineUsers == StatusSpec => OnlineSpec
  <1>1. StatusInit => OnlineInit
    BY DEF StatusInit
  <1>2. [StatusNext]_statusVars => [OnlineNext]_onlineVars
    BY OnlineSteps
  <1> QED
    BY <1>1, <1>2, PTL DEF StatusSpec, OnlineSpec
=============================================================================
