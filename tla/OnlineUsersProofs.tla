-------------------------- MODULE OnlineUsersProofs --------------------------
(***************************************************************************)
(* The invariants of the registry of online users, for any clients, any    *)
(* nicknames and any bound on the IDs.                                     *)
(*                                                                         *)
(* That the map has the clients of the network under keys of their own is  *)
(* true of every nickname.  It is not inductive alone: MapInv adds that    *)
(* two clients have different keys, and that every ID in use is below the  *)
(* next one.                                                               *)
(*                                                                         *)
(* What the table and the IDs promise holds provided that the two foldings *)
(* the code mixes agree (PlainNames).  Without it two clients whose        *)
(* nicknames have brackets share the ID 0.  OnlineInv, which adds these    *)
(* promises to MapInv, makes the row addClient looks up the one it has     *)
(* just inserted: that is the lemma NewRowIsFound.                         *)
(***************************************************************************)
EXTENDS OnlineUsers, FiniteSetTheorems, TLAPS

(* No nickname has a character that only one of the foldings folds.        *)
PlainNames == ToLower = IRCtoLower

KeysDiffer == \A c, d \in Online : Key(c) = Key(d) => c = d

IDsAreOld == \A u \in users : u.onlineID < nextOnlineID

RowIDsAreOld == \A r \in onlineclients : r.id < nextOnlineID

MapInv ==
  /\ OnlineTypeOK
  /\ KeysDiffer
  /\ RegistryIsNetwork
  /\ IDsAreOld
  /\ RowIDsAreOld

OnlineInv ==
  /\ OnlineTypeOK
  /\ KeysDiffer
  /\ RegistryIsNetwork
  /\ TableIsRegistry
  /\ UniqueOnlineID
  /\ IDsAreOld

-----------------------------------------------------------------------------
(* MapInv is inductive, whatever the nicknames.                            *)

(* Both foldings leave a key as it is.                                     *)
LEMMA KeyIsFolded ==
  ASSUME NEW n \in Name
  PROVE  /\ IRCtoLower[n] \in Name
         /\ ToLower[n] \in Name
         /\ ToLower[IRCtoLower[n]] = IRCtoLower[n]
         /\ IRCtoLower[IRCtoLower[n]] = IRCtoLower[n]
  BY FoldingAssumption

(* A set of natural numbers that is not empty has a least element.         *)
LEMMA LeastElement ==
  ASSUME NEW S \in SUBSET Nat, S # {}
  PROVE  Min(S) \in S
<1> DEFINE R == {ss \in Nat \X Nat : ss[1] < ss[2]}
<1>1. IsWellFoundedOn(R, Nat)
  BY NatLessThanWellFounded DEF OpToRel
<1> HIDE DEF R
<1>2. PICK x \in S : \A y \in S : <<y, x>> \notin R
  BY <1>1, WFMin
<1>3. \A y \in S : ~(y < x)
  BY <1>2 DEF R
<1>4. \A y \in S : x <= y
  BY <1>3
<1>5. QED
  BY <1>4 DEF Min

(* Every online client has exactly one User object, found under its key.   *)
LEMMA UserOfOnline ==
  ASSUME OnlineTypeOK, RegistryIsNetwork, NEW c \in Online
  PROVE  /\ UserOf(c) \in users
         /\ UserOf(c).nickname = Key(c)
         /\ \A u \in users : u.nickname = Key(c) => u = UserOf(c)
<1>1. PICK u \in users : u.nickname = Key(c)
  BY DEF RegistryIsNetwork
<1>2. UserOf(c) \in users /\ UserOf(c).nickname = Key(c)
  BY <1>1 DEF UserOf
<1>3. QED
  BY <1>2 DEF RegistryIsNetwork

(* A key that is free on the network is free in the map.                   *)
LEMMA FreeInMap ==
  ASSUME RegistryIsNetwork, NEW c, c \notin Online, NEW n, NameFree(c, n)
  PROVE  \A v \in users : v.nickname # IRCtoLower[n]
<1> SUFFICES ASSUME NEW v \in users PROVE v.nickname # IRCtoLower[n]
  OBVIOUS
<1>1. PICK d \in Online : v.nickname = Key(d)
  BY DEF RegistryIsNetwork
<1>2. QED
  BY <1>1 DEF NameFree

(* The ID that addClient reads back is that of some row, or 0.             *)
LEMMA LocatedID ==
  ASSUME MapInv, NEW c \in Client, NEW n \in Name, addClient(c, n)
  PROVE  /\ locateID(onlineclients', n) \in Nat
         /\ locateID(onlineclients', n) < nextOnlineID'
<1> DEFINE ids == {r.id : r \in {q \in onlineclients' : SqlEqual(q.nickname, IRCtoLower[n])}}
<1>1. nextOnlineID \in Nat /\ nextOnlineID' = nextOnlineID + 1
  BY DEF addClient, MapInv, OnlineTypeOK
<1>2. \A r \in onlineclients : r.id \in Nat /\ r.id < nextOnlineID
  BY DEF MapInv, OnlineTypeOK, OnlineRow, RowIDsAreOld
<1>3. \A r \in onlineclients' : r \in onlineclients \/ r.id = nextOnlineID
  BY DEF addClient
<1>4. \A x \in ids : x \in Nat /\ x < nextOnlineID'
  BY <1>1, <1>2, <1>3
<1>5. ids # {} => Min(ids) \in ids
  <2> HIDE DEF ids
  <2>1. QED
    BY <1>4, LeastElement
<1>6. CASE ids = {}
  <2>1. locateID(onlineclients', n) = 0
    BY <1>6 DEF locateID
  <2>2. QED
    BY <1>1, <2>1
<1>7. CASE ids # {}
  <2>1. locateID(onlineclients', n) = Min(ids)
    BY <1>7 DEF locateID
  <2> HIDE DEF ids
  <2>2. QED
    BY <1>4, <1>5, <1>7, <2>1
<1>8. QED
  BY <1>6, <1>7

LEMMA AddClientMap ==
  ASSUME MapInv, NEW c \in Client, NEW n \in Name, addClient(c, n)
  PROVE  /\ MapInv'
         /\ users' = users \cup {[nickname |-> IRCtoLower[n],
                                  onlineID |-> locateID(onlineclients', n)]}
<1> DEFINE u == [nickname |-> IRCtoLower[n], onlineID |-> locateID(onlineclients', n)]
           row == [id |-> nextOnlineID, nickname |-> ToLower[n]]
<1>1. /\ network' = [network EXCEPT ![c] = n]
      /\ onlineclients' = onlineclients \cup {row}
      /\ nextOnlineID' = nextOnlineID + 1
      /\ users' = Filed(users, u)
      /\ c \notin Online
      /\ NameFree(c, n)
  BY DEF addClient
<1>2. OnlineTypeOK /\ nextOnlineID \in Nat \ {0} /\ network \in [Client -> Name \cup {Offline}]
  BY DEF MapInv, OnlineTypeOK
<1>3. u \in User /\ u.nickname = IRCtoLower[n] /\ u.onlineID < nextOnlineID'
  BY KeyIsFolded, LocatedID DEF User
<1>4. row \in OnlineRow /\ row.id = nextOnlineID
  BY <1>2, KeyIsFolded DEF OnlineRow
<1> HIDE DEF u, row
<1>5. \A v \in users : v.nickname # IRCtoLower[n]
  BY <1>1, FreeInMap DEF MapInv
<1>6. users' = users \cup {u}
  BY <1>1, <1>3, <1>5 DEF Filed
<1>7. Online' = Online \cup {c} /\ Key(c)' = IRCtoLower[n]
  BY <1>1, <1>2, RegistryAssumption DEF Online, Key
<1>8. \A d \in Online : Key(d)' = Key(d) /\ Key(d) # IRCtoLower[n]
  BY <1>1, <1>2 DEF Online, Key, NameFree
<1>9. OnlineTypeOK'
  BY <1>1, <1>2, <1>3, <1>4, <1>6 DEF OnlineTypeOK
<1>10. KeysDiffer'
  BY <1>7, <1>8 DEF KeysDiffer, MapInv
<1>11. RegistryIsNetwork'
  <2>1. \A d \in Online' : \E v \in users' : v.nickname = Key(d)'
    BY <1>3, <1>6, <1>7, <1>8 DEF MapInv, RegistryIsNetwork
  <2>2. \A v \in users' : \E d \in Online' : v.nickname = Key(d)'
    BY <1>3, <1>6, <1>7, <1>8 DEF MapInv, RegistryIsNetwork
  <2>3. \A v, w \in users' : v.nickname = w.nickname => v = w
    BY <1>3, <1>5, <1>6 DEF MapInv, RegistryIsNetwork
  <2>4. QED
    BY <2>1, <2>2, <2>3 DEF RegistryIsNetwork
<1>12. IDsAreOld'
  <2>1. \A v \in users : v.onlineID \in Nat /\ v.onlineID < nextOnlineID
    BY <1>2 DEF MapInv, OnlineTypeOK, User, IDsAreOld
  <2>2. QED
    BY <1>1, <1>2, <1>3, <1>6, <2>1 DEF IDsAreOld
<1>13. RowIDsAreOld'
  <2>1. \A r \in onlineclients : r.id \in Nat /\ r.id < nextOnlineID
    BY <1>2 DEF MapInv, OnlineTypeOK, OnlineRow, RowIDsAreOld
  <2>2. QED
    BY <1>1, <1>2, <1>4, <2>1 DEF RowIDsAreOld
<1>14. QED
  BY <1>6, <1>9, <1>10, <1>11, <1>12, <1>13 DEF MapInv, u

LEMMA DelUserMap ==
  ASSUME MapInv, NEW c \in Client, delUser(c)
  PROVE  MapInv'
<1>1. /\ c \in Online
      /\ network' = [network EXCEPT ![c] = Offline]
      /\ users' = {u \in users : u.nickname # Key(c)}
      /\ onlineclients' \subseteq onlineclients
      /\ nextOnlineID' = nextOnlineID
  BY DEF delUser
<1>2. OnlineTypeOK /\ network \in [Client -> Name \cup {Offline}]
  BY DEF MapInv, OnlineTypeOK
<1>3. Online' = Online \ {c} /\ \A d \in Online' : Key(d)' = Key(d)
  BY <1>1, <1>2 DEF Online, Key
<1>4. \A d \in Online \ {c} : Key(d) # Key(c)
  BY <1>1 DEF MapInv, KeysDiffer
<1>5. OnlineTypeOK'
  BY <1>1, <1>2 DEF OnlineTypeOK
<1>6. KeysDiffer'
  BY <1>3 DEF MapInv, KeysDiffer
<1>7. RegistryIsNetwork'
  BY <1>1, <1>3, <1>4 DEF MapInv, RegistryIsNetwork
<1>8. IDsAreOld' /\ RowIDsAreOld'
  BY <1>1 DEF MapInv, IDsAreOld, RowIDsAreOld
<1>9. QED
  BY <1>5, <1>6, <1>7, <1>8 DEF MapInv

(* setNick replaces one User by another with the same ID.                  *)
LEMMA SetNickUsers ==
  ASSUME MapInv, NEW c \in Client, NEW n \in Name, setNick(c, n)
  PROVE  LET who == UserOf(c)
             u == [nickname |-> IRCtoLower[n], onlineID |-> who.onlineID]
         IN  /\ who \in users
             /\ who.nickname = Key(c)
             /\ users' = (users \ {who}) \cup {u}
             /\ \A v \in users \ {who} : v.nickname # u.nickname
<1> DEFINE who == UserOf(c)
           u == [nickname |-> IRCtoLower[n], onlineID |-> who.onlineID]
<1>1. c \in Online
  BY DEF setNick
<1>2. who \in users /\ who.nickname = Key(c) /\ \A v \in users : v.nickname = Key(c) => v = who
  BY <1>1, UserOfOnline DEF MapInv
<1>3. \A v \in users \ {who} : v.nickname # IRCtoLower[n] /\ v.nickname # who.nickname
  <2> SUFFICES ASSUME NEW v \in users \ {who}
               PROVE  v.nickname # IRCtoLower[n] /\ v.nickname # who.nickname
    OBVIOUS
  <2>1. PICK d \in Online : v.nickname = Key(d)
    BY DEF MapInv, RegistryIsNetwork
  <2>2. d # c
    BY <1>2, <2>1
  <2>3. QED
    BY <1>2, <2>1, <2>2 DEF setNick, NameFree
<1>4. who \in User
  BY <1>2 DEF MapInv, OnlineTypeOK
<1>5. [who EXCEPT !.nickname = IRCtoLower[n]] = u
  BY <1>4 DEF User
<1>6. users' = (users \ {who}) \cup {u}
  <2>1. users' = Filed({v \in users : v.nickname # who.nickname}, u)
    BY <1>5 DEF setNick
  <2>2. {v \in users : v.nickname # who.nickname} = users \ {who}
    BY <1>2, <1>3
  <2>3. u.nickname = IRCtoLower[n]
    OBVIOUS
  <2>4. QED
    BY <2>1, <2>2, <2>3, <1>3 DEF Filed
<1>7. QED
  BY <1>2, <1>3, <1>6

LEMMA SetNickMap ==
  ASSUME MapInv, NEW c \in Client, NEW n \in Name, setNick(c, n)
  PROVE  MapInv'
<1> DEFINE who == UserOf(c)
           u == [nickname |-> IRCtoLower[n], onlineID |-> who.onlineID]
<1>1. /\ who \in users
      /\ who.nickname = Key(c)
      /\ users' = (users \ {who}) \cup {u}
      /\ \A v \in users \ {who} : v.nickname # u.nickname
  BY SetNickUsers
<1>2. /\ c \in Online
      /\ network' = [network EXCEPT ![c] = n]
      /\ onlineclients' = {IF r.id = who.onlineID
                           THEN [r EXCEPT !.nickname = IRCtoLower[n]]
                           ELSE r : r \in onlineclients}
      /\ nextOnlineID' = nextOnlineID
      /\ \A d \in Online \ {c} : Key(d) # IRCtoLower[n]
  BY DEF setNick, NameFree
<1>3. OnlineTypeOK /\ nextOnlineID \in Nat \ {0} /\ network \in [Client -> Name \cup {Offline}]
  BY DEF MapInv, OnlineTypeOK
<1>4. u \in User /\ u.nickname = IRCtoLower[n] /\ u.onlineID = who.onlineID
  BY <1>1, <1>3, KeyIsFolded DEF User, OnlineTypeOK
<1> HIDE DEF who, u
<1>5. Online' = Online /\ Key(c)' = IRCtoLower[n] /\ \A d \in Online \ {c} : Key(d)' = Key(d)
  BY <1>2, <1>3, RegistryAssumption DEF Online, Key
<1>6. \A r \in onlineclients' : r \in OnlineRow /\ r.id < nextOnlineID
  <2>1. \A q \in onlineclients : q \in OnlineRow /\ q.id < nextOnlineID
    BY <1>3 DEF MapInv, OnlineTypeOK, RowIDsAreOld
  <2>2. \A q \in OnlineRow : /\ [q EXCEPT !.nickname = IRCtoLower[n]] \in OnlineRow
                            /\ [q EXCEPT !.nickname = IRCtoLower[n]].id = q.id
    BY KeyIsFolded DEF OnlineRow
  <2>3. QED
    BY <1>2, <2>1, <2>2
<1>7. OnlineTypeOK'
  <2>1. users' \subseteq User
    BY <1>1, <1>3, <1>4 DEF OnlineTypeOK
  <2>2. network' \in [Client -> Name \cup {Offline}]
    BY <1>2, <1>3
  <2>3. QED
    BY <1>2, <1>3, <1>6, <2>1, <2>2 DEF OnlineTypeOK
<1>8. KeysDiffer'
  BY <1>2, <1>5 DEF MapInv, KeysDiffer
<1>9. RegistryIsNetwork'
  <2>1. \A v \in users \ {who} : \E d \in Online \ {c} : v.nickname = Key(d)
    BY <1>1 DEF MapInv, RegistryIsNetwork
  <2>2. \A d \in Online \ {c} : \E v \in users \ {who} : v.nickname = Key(d)
    BY <1>1, <1>2 DEF MapInv, RegistryIsNetwork, KeysDiffer
  <2>3. \A v, w \in users' : v.nickname = w.nickname => v = w
    BY <1>1 DEF MapInv, RegistryIsNetwork
  <2>4. QED
    BY <2>1, <2>2, <2>3, <1>1, <1>2, <1>4, <1>5 DEF RegistryIsNetwork
<1>10. IDsAreOld'
  BY <1>1, <1>2, <1>4 DEF MapInv, IDsAreOld
<1>11. RowIDsAreOld'
  BY <1>2, <1>6 DEF RowIDsAreOld
<1>12. QED
  BY <1>7, <1>8, <1>9, <1>10, <1>11 DEF MapInv

LEMMA RestartMap ==
  ASSUME OnlineTypeOK, restart
  PROVE  MapInv'
<1>1. Online' = {}
  BY DEF restart, Online
<1>2. QED
  BY <1>1 DEF restart, OnlineTypeOK, MapInv, KeysDiffer, RegistryIsNetwork,
              IDsAreOld, RowIDsAreOld

LEMMA MapInvInit == OnlineInit => MapInv
<1> SUFFICES ASSUME OnlineInit PROVE MapInv
  OBVIOUS
<1>1. Online = {}
  BY DEF OnlineInit, Online
<1>2. QED
  BY <1>1 DEF OnlineInit, OnlineTypeOK, MapInv, KeysDiffer, RegistryIsNetwork,
              IDsAreOld, RowIDsAreOld

LEMMA MapInvNext ==
  ASSUME MapInv, [OnlineNext]_onlineVars
  PROVE  MapInv'
<1>1. CASE \E c \in Client, n \in Name : addClient(c, n)
  BY <1>1, AddClientMap
<1>2. CASE \E c \in Client, n \in Name : setNick(c, n)
  BY <1>2, SetNickMap
<1>3. CASE \E c \in Client : delUser(c)
  BY <1>3, DelUserMap
<1>4. CASE restart
  BY <1>4, RestartMap DEF MapInv
<1>5. CASE UNCHANGED onlineVars
  BY <1>5 DEF onlineVars, MapInv, OnlineTypeOK, KeysDiffer, RegistryIsNetwork,
              IDsAreOld, RowIDsAreOld, Online, Key
<1>6. QED
  BY <1>1, <1>2, <1>3, <1>4, <1>5 DEF OnlineNext

(* The map and the network always describe the same clients, each under a  *)
(* key of its own, whatever characters their nicknames are made of         *)
(* (RegistryIsNetwork).                                                    *)
THEOREM MapFollowsNetwork == OnlineSpec => [](OnlineTypeOK /\ RegistryIsNetwork)
<1>1. OnlineInit => MapInv
  BY MapInvInit
<1>2. MapInv /\ [OnlineNext]_onlineVars => MapInv'
  BY MapInvNext
<1>3. MapInv => OnlineTypeOK /\ RegistryIsNetwork
  BY DEF MapInv
<1>4. QED
  BY <1>1, <1>2, <1>3, PTL DEF OnlineSpec

-----------------------------------------------------------------------------
(* OnlineInv is inductive for plain names.                                 *)

LEMMA OnlineHasMap == OnlineInv => MapInv
  BY DEF OnlineInv, MapInv, TableIsRegistry, IDsAreOld, RowIDsAreOld

(* Under plain names folding does not tell the foldings apart.             *)
LEMMA Folding ==
  ASSUME PlainNames, NEW n \in Name
  PROVE  /\ IRCtoLower[n] \in Name
         /\ ToLower[n] = IRCtoLower[n]
         /\ ToLower[IRCtoLower[n]] = IRCtoLower[n]
         /\ IRCtoLower[IRCtoLower[n]] = IRCtoLower[n]
  BY FoldingAssumption DEF PlainNames

(* The query of locateID finds the row that addClient inserted: no other   *)
(* client has the nickname, and every row is that of a client.             *)
LEMMA NewRowIsFound ==
  ASSUME OnlineInv, PlainNames, NEW c \in Client, NEW n \in Name, addClient(c, n)
  PROVE  locateID(onlineclients', n) = nextOnlineID
<1> DEFINE new == [id |-> nextOnlineID, nickname |-> ToLower[n]]
           hits == {q \in onlineclients' : SqlEqual(q.nickname, IRCtoLower[n])}
<1>1. onlineclients' = onlineclients \cup {new}
  BY DEF addClient
<1>2. new \in hits
  BY <1>1, Folding DEF SqlEqual
<1>3. ASSUME NEW q \in onlineclients PROVE q \notin hits
  <2>1. PICK u \in users : q = [id |-> u.onlineID, nickname |-> u.nickname]
    BY DEF OnlineInv, TableIsRegistry
  <2>2. PICK d \in Online : u.nickname = Key(d)
    BY DEF OnlineInv, RegistryIsNetwork
  <2>3. d # c /\ d \in Client /\ network[d] \in Name
    BY DEF addClient, Online, OnlineInv, OnlineTypeOK
  <2>4. Key(d) # IRCtoLower[n]
    BY <2>2, <2>3 DEF addClient, NameFree
  <2>5. ToLower[q.nickname] = Key(d) /\ ToLower[IRCtoLower[n]] = IRCtoLower[n]
    BY <2>1, <2>2, <2>3, Folding DEF Key
  <2>6. QED
    BY <2>4, <2>5 DEF SqlEqual
<1>4. hits = {new}
  BY <1>1, <1>2, <1>3
<1>5. {r.id : r \in hits} = {nextOnlineID}
  <2> HIDE DEF hits
  <2>1. QED
    BY <1>4
<1>6. nextOnlineID \in Nat
  BY DEF OnlineInv, OnlineTypeOK
<1>7. Min({nextOnlineID}) = nextOnlineID
  BY <1>6 DEF Min
<1>8. QED
  BY <1>5, <1>7 DEF locateID

(* addClient adds one User with a fresh ID, and replaces none.             *)
LEMMA AddClientEffect ==
  ASSUME OnlineInv, PlainNames, NEW c \in Client, NEW n \in Name, addClient(c, n)
  PROVE  LET u == [nickname |-> IRCtoLower[n], onlineID |-> nextOnlineID]
         IN  /\ users' = users \cup {u}
             /\ onlineclients' = onlineclients \cup
                                  {[id |-> u.onlineID, nickname |-> u.nickname]}
             /\ \A v \in users : v.nickname # u.nickname
<1>1. \A v \in users : v.nickname # IRCtoLower[n]
  BY FreeInMap DEF addClient, OnlineInv
<1>2. QED
  BY <1>1, NewRowIsFound, Folding DEF addClient, Filed

(* Each step of the registry preserves the invariant: one lemma an action. *)
LEMMA AddClientInv ==
  ASSUME OnlineInv, PlainNames, NEW c \in Client, NEW n \in Name, addClient(c, n)
  PROVE  OnlineInv'
<1> DEFINE u == [nickname |-> IRCtoLower[n], onlineID |-> nextOnlineID]
<1>1. /\ users' = users \cup {u}
      /\ onlineclients' = onlineclients \cup
                           {[id |-> u.onlineID, nickname |-> u.nickname]}
  BY AddClientEffect
<1>2. MapInv'
  BY OnlineHasMap, AddClientMap
<1>3. TableIsRegistry'
  BY <1>1 DEF OnlineInv, TableIsRegistry
<1>4. UniqueOnlineID'
  <2>1. nextOnlineID \in Nat \ {0}
    BY DEF OnlineInv, OnlineTypeOK
  <2>2. \A v \in users : v.onlineID \in Nat /\ v.onlineID < nextOnlineID
    BY DEF OnlineInv, OnlineTypeOK, User, IDsAreOld
  <2>3. QED
    BY <1>1, <2>1, <2>2 DEF OnlineInv, UniqueOnlineID
<1>5. QED
  BY <1>2, <1>3, <1>4 DEF OnlineInv, MapInv

LEMMA DelUserInv ==
  ASSUME OnlineInv, PlainNames, NEW c \in Client, delUser(c)
  PROVE  OnlineInv'
<1>1. /\ c \in Online
      /\ users' = {u \in users : u.nickname # Key(c)}
      /\ onlineclients' = {r \in onlineclients : ~SqlEqual(r.nickname, network[c])}
  BY DEF delUser
<1>2. MapInv'
  BY OnlineHasMap, DelUserMap
<1>3. TableIsRegistry'
  <2>1. \A u \in users : SqlEqual(u.nickname, network[c]) <=> u.nickname = Key(c)
    <3> SUFFICES ASSUME NEW u \in users
                 PROVE  SqlEqual(u.nickname, network[c]) <=> u.nickname = Key(c)
      OBVIOUS
    <3>1. PICK d \in Online : u.nickname = Key(d)
      BY DEF OnlineInv, RegistryIsNetwork
    <3>2. network[c] \in Name /\ network[d] \in Name
      BY <1>1 DEF Online, OnlineInv, OnlineTypeOK
    <3>3. QED
      BY <3>1, <3>2, Folding DEF SqlEqual, Key
  <2>2. QED
    BY <1>1, <2>1 DEF OnlineInv, TableIsRegistry
<1>4. UniqueOnlineID'
  BY <1>1 DEF OnlineInv, UniqueOnlineID
<1>5. QED
  BY <1>2, <1>3, <1>4 DEF OnlineInv, MapInv

(* setNick finds the row of the one User it replaces.                      *)
LEMMA SetNickEffect ==
  ASSUME OnlineInv, NEW c \in Client, NEW n \in Name, setNick(c, n)
  PROVE  LET who == UserOf(c)
             u == [nickname |-> IRCtoLower[n], onlineID |-> who.onlineID]
         IN  /\ who \in users
             /\ users' = (users \ {who}) \cup {u}
             /\ \A v \in users \ {who} : v.nickname # u.nickname
             /\ onlineclients' = {[id |-> v.onlineID, nickname |-> v.nickname]
                                    : v \in users'}
<1> DEFINE who == UserOf(c)
           u == [nickname |-> IRCtoLower[n], onlineID |-> who.onlineID]
           Row(v) == [id |-> v.onlineID, nickname |-> v.nickname]
<1>1. /\ who \in users
      /\ users' = (users \ {who}) \cup {u}
      /\ \A v \in users \ {who} : v.nickname # u.nickname
  BY OnlineHasMap, SetNickUsers
<1>2. onlineclients' = {IF r.id = who.onlineID
                        THEN [r EXCEPT !.nickname = IRCtoLower[n]]
                        ELSE r : r \in onlineclients}
  BY DEF setNick
<1>3. onlineclients = {Row(v) : v \in users}
  BY DEF OnlineInv, TableIsRegistry
<1>4. \A v \in users : v.onlineID = who.onlineID <=> v = who
  BY <1>1 DEF OnlineInv, UniqueOnlineID
<1>5. [Row(who) EXCEPT !.nickname = IRCtoLower[n]] = Row(u)
  OBVIOUS
<1>6. \A v \in users : Row(v).id = v.onlineID
  OBVIOUS
<1> HIDE DEF Row, who, u
<1>7. onlineclients' = {IF v.onlineID = who.onlineID
                        THEN [Row(v) EXCEPT !.nickname = IRCtoLower[n]]
                        ELSE Row(v) : v \in users}
  BY <1>2, <1>3, <1>6
<1>8. onlineclients' = {IF v = who THEN Row(u) ELSE Row(v) : v \in users}
  BY <1>4, <1>5, <1>7
<1>9. onlineclients' = {Row(v) : v \in users'}
  BY <1>1, <1>8
<1>10. QED
  BY <1>1, <1>9 DEF Row, who, u

LEMMA SetNickInv ==
  ASSUME OnlineInv, NEW c \in Client, NEW n \in Name, setNick(c, n)
  PROVE  OnlineInv'
<1> DEFINE who == UserOf(c)
           u == [nickname |-> IRCtoLower[n], onlineID |-> who.onlineID]
<1>1. /\ who \in users
      /\ users' = (users \ {who}) \cup {u}
      /\ onlineclients' = {[id |-> v.onlineID, nickname |-> v.nickname] : v \in users'}
  BY SetNickEffect
<1>2. u.onlineID = who.onlineID
  OBVIOUS
<1> HIDE DEF who, u
<1>3. MapInv'
  BY OnlineHasMap, SetNickMap
<1>4. TableIsRegistry'
  BY <1>1 DEF TableIsRegistry
<1>5. UniqueOnlineID'
  BY <1>1, <1>2 DEF OnlineInv, UniqueOnlineID
<1>6. QED
  BY <1>3, <1>4, <1>5 DEF OnlineInv, MapInv

LEMMA RestartInv ==
  ASSUME OnlineTypeOK, restart
  PROVE  OnlineInv'
  BY RestartMap DEF restart, MapInv, OnlineInv, TableIsRegistry, UniqueOnlineID

LEMMA OnlineInvInit == OnlineInit => OnlineInv
  BY MapInvInit DEF OnlineInit, MapInv, OnlineInv, TableIsRegistry, UniqueOnlineID

LEMMA OnlineInvNext ==
  ASSUME OnlineInv, PlainNames, [OnlineNext]_onlineVars
  PROVE  OnlineInv'
<1>1. CASE \E c \in Client, n \in Name : addClient(c, n)
  BY <1>1, AddClientInv
<1>2. CASE \E c \in Client, n \in Name : setNick(c, n)
  BY <1>2, SetNickInv
<1>3. CASE \E c \in Client : delUser(c)
  BY <1>3, DelUserInv
<1>4. CASE restart
  BY <1>4, RestartInv DEF OnlineInv
<1>5. CASE UNCHANGED onlineVars
  BY <1>5 DEF onlineVars, OnlineInv, OnlineTypeOK, KeysDiffer, RegistryIsNetwork,
              TableIsRegistry, UniqueOnlineID, IDsAreOld, Online, Key
<1>6. QED
  BY <1>1, <1>2, <1>3, <1>4, <1>5 DEF OnlineNext

(* The map, the table and the network always describe the same clients     *)
(* (RegistryIsNetwork, TableIsRegistry), and the ID by which the other     *)
(* modules know a client is its own (UniqueOnlineID).                      *)
THEOREM RegistryCorrect ==
  PlainNames /\ OnlineSpec
    => [](OnlineTypeOK /\ RegistryIsNetwork /\ TableIsRegistry /\ UniqueOnlineID)
<1>1. OnlineInit => OnlineInv
  BY OnlineInvInit
<1>2. PlainNames /\ OnlineInv /\ [OnlineNext]_onlineVars => OnlineInv'
  BY OnlineInvNext
<1>3. OnlineInv => OnlineTypeOK /\ RegistryIsNetwork /\ TableIsRegistry /\ UniqueOnlineID
  BY DEF OnlineInv
<1> SUFFICES ASSUME PlainNames
             PROVE  OnlineSpec => [](OnlineTypeOK /\ RegistryIsNetwork
                                      /\ TableIsRegistry /\ UniqueOnlineID)
  OBVIOUS
<1>4. OnlineInv /\ [OnlineNext]_onlineVars => OnlineInv'
  BY <1>2
<1>5. QED
  BY <1>1, <1>3, <1>4, PTL DEF OnlineSpec

-----------------------------------------------------------------------------
(* The same as UserOfOnline, of the next state.                            *)
LEMMA UserOfOnlineNext ==
  ASSUME OnlineInv', NEW c \in Online'
  PROVE  \A u \in users' : u.nickname = Key(c)' => u = UserOf(c)'
<1>1. RegistryIsNetwork'
  BY DEF OnlineInv
<1>2. PICK u \in users' : u.nickname = Key(c)'
  BY <1>1 DEF RegistryIsNetwork
<1>3. UserOf(c)' \in users' /\ UserOf(c)'.nickname = Key(c)'
  BY <1>2 DEF UserOf
<1>4. QED
  BY <1>1, <1>3 DEF RegistryIsNetwork

(* What each step does to who is online and to their IDs.                  *)
LEMMA AddClientIDs ==
  ASSUME OnlineInv, PlainNames, NEW c \in Client, NEW n \in Name, addClient(c, n)
  PROVE  /\ c \notin Online
         /\ Online' = Online \cup {c}
         /\ (IDOf(c))' = nextOnlineID
         /\ \A d \in Online : (IDOf(d))' = IDOf(d)
<1> DEFINE u == [nickname |-> IRCtoLower[n], onlineID |-> nextOnlineID]
<1>1. OnlineInv' /\ users' = users \cup {u}
  BY AddClientInv, AddClientEffect
<1>2. /\ c \notin Online
      /\ Online' = Online \cup {c}
      /\ Key(c)' = IRCtoLower[n]
      /\ \A d \in Online : Key(d)' = Key(d)
  BY RegistryAssumption DEF addClient, OnlineInv, OnlineTypeOK, Online, Key
<1>3. UserOf(c)' = u
  <2>1. u.nickname = IRCtoLower[n] /\ u \in users'
    BY <1>1
  <2> HIDE DEF u
  <2>2. QED
    BY <1>1, <1>2, <2>1, UserOfOnlineNext
<1>4. \A d \in Online : UserOf(d)' = UserOf(d)
  BY <1>1, <1>2, UserOfOnline, UserOfOnlineNext DEF OnlineInv
<1>5. QED
  BY <1>2, <1>3, <1>4 DEF IDOf

LEMMA DelUserIDs ==
  ASSUME OnlineInv, PlainNames, NEW c \in Client, delUser(c)
  PROVE  /\ Online' = Online \ {c}
         /\ \A d \in Online' : (IDOf(d))' = IDOf(d)
<1>1. OnlineInv'
  BY DelUserInv
<1>2. Online' = Online \ {c} /\ \A d \in Online' : Key(d)' = Key(d)
  BY DEF delUser, OnlineInv, OnlineTypeOK, Online, Key
<1>3. \A d \in Online' : Key(d) # Key(c)
  BY <1>2 DEF delUser, OnlineInv, KeysDiffer
<1>4. \A d \in Online' : UserOf(d) \in users'
  BY <1>2, <1>3, UserOfOnline DEF delUser, OnlineInv
<1>5. \A d \in Online' : UserOf(d)' = UserOf(d)
  BY <1>1, <1>2, <1>4, UserOfOnline, UserOfOnlineNext DEF OnlineInv
<1>6. QED
  BY <1>2, <1>5 DEF IDOf

LEMMA SetNickIDs ==
  ASSUME OnlineInv, NEW c \in Client, NEW n \in Name, setNick(c, n)
  PROVE  /\ Online' = Online
         /\ \A d \in Online : (IDOf(d))' = IDOf(d)
<1> DEFINE who == UserOf(c)
           u == [nickname |-> IRCtoLower[n], onlineID |-> who.onlineID]
<1>1. OnlineInv' /\ users' = (users \ {who}) \cup {u}
  BY SetNickInv, SetNickEffect
<1>2. /\ c \in Online
      /\ Online' = Online
      /\ Key(c)' = IRCtoLower[n]
      /\ \A d \in Online \ {c} : Key(d)' = Key(d)
  BY RegistryAssumption DEF setNick, OnlineInv, OnlineTypeOK, Online, Key
<1>3. UserOf(c)' = u
  <2>1. u.nickname = IRCtoLower[n] /\ u \in users'
    BY <1>1
  <2> HIDE DEF u
  <2>2. QED
    BY <1>1, <1>2, <2>1, UserOfOnlineNext
<1>4. ASSUME NEW d \in Online \ {c} PROVE UserOf(d)' = UserOf(d)
  <2>1. UserOf(d) \in users /\ UserOf(d).nickname = Key(d)
    BY UserOfOnline DEF OnlineInv
  <2>2. who.nickname = Key(c) /\ Key(d) # Key(c)
    BY <1>2, UserOfOnline DEF OnlineInv, KeysDiffer
  <2>3. UserOf(d) \in users'
    BY <1>1, <2>1, <2>2
  <2>4. QED
    BY <1>1, <1>2, <2>1, <2>3, UserOfOnlineNext
<1>5. QED
  BY <1>2, <1>3, <1>4 DEF IDOf

(* An online ID stays with its client for as long as the client is online, *)
(* and is not given to another one (OnlineIDIsStable).                     *)
THEOREM OnlineIDStability == PlainNames /\ OnlineSpec => OnlineIDIsStable
<1> DEFINE Stable == \A c \in Online' : IF c \in Online THEN (IDOf(c))' = IDOf(c)
                                                     ELSE (IDOf(c))' >= nextOnlineID
<1> SUFFICES ASSUME PlainNames PROVE OnlineSpec => OnlineIDIsStable
  OBVIOUS
<1>1. OnlineInit => OnlineInv
  BY OnlineInvInit
<1>2. OnlineInv /\ [OnlineNext]_onlineVars => OnlineInv'
  BY OnlineInvNext
<1>3. ASSUME OnlineInv, OnlineNext PROVE Stable
  <2>1. CASE \E c \in Client, n \in Name : addClient(c, n)
    <3>1. PICK c \in Client, n \in Name : addClient(c, n)
      BY <2>1
    <3>2. nextOnlineID \in Nat
      BY <1>3 DEF OnlineInv, OnlineTypeOK
    <3>3. QED
      BY <1>3, <3>1, <3>2, AddClientIDs
  <2>2. CASE \E c \in Client, n \in Name : setNick(c, n)
    BY <1>3, <2>2, SetNickIDs
  <2>3. CASE \E c \in Client : delUser(c)
    BY <1>3, <2>3, DelUserIDs
  <2>4. CASE restart
    BY <2>4 DEF restart, Online
  <2>5. QED
    BY <1>3, <2>1, <2>2, <2>3, <2>4 DEF OnlineNext
<1>4. OnlineInv /\ [OnlineNext]_onlineVars => [Stable]_onlineVars
  BY <1>3
<1>5. QED
  BY <1>1, <1>2, <1>4, PTL DEF OnlineSpec, OnlineIDIsStable
=============================================================================
