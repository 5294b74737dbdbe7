----------------------------- MODULE OnlineUsers -----------------------------
(***************************************************************************)
(* The registry of online users: the map `users' that ServicesInternal     *)
(* keeps in memory, and the table `onlineclients' it keeps in the database *)
(* (source/lib/services.cpp).  The two are updated together by addClient,  *)
(* delUser and setNick, which the IRC server calls when a client signs on, *)
(* quits or changes nickname, and they are emptied by the constructor when *)
(* services start after a shutdown or a crash.                             *)
(*                                                                         *)
(* A client is known to every other module by its online ID.  The ID is    *)
(* not returned by the INSERT that allocates it: addClient looks the row   *)
(* up again by nickname, so it depends on how nicknames are folded and on  *)
(* how the database compares strings.  (findUser also files null pointers  *)
(* under the keys it does not find; every reader takes them for absent.)   *)
(*                                                                         *)
(* A table is a set of rows.  The map is the set of its User objects,      *)
(* whose nickname is always the key they are filed under.                  *)
(***************************************************************************)
EXTENDS Integers, FiniteSetsExt

CONSTANTS
  Client,         \* connections to the IRC network
  Name,           \* spellings of nicknames
  Offline,        \* stands for the nickname of a client that is not online
  ToLower,        \* String::toLower:    folds A-Z
  IRCtoLower,     \* String::IRCtoLower: folds A-Z and also []\~ to {}|^
  MaxOnlineID     \* bound on the auto-incremented column onlineclients.id

(* The foldings are idempotent and IRCtoLower folds more than ToLower.     *)
ASSUME FoldingAssumption ==
  /\ ToLower \in [Name -> Name]
  /\ IRCtoLower \in [Name -> Name]
  /\ \A n \in Name : /\ ToLower[ToLower[n]] = ToLower[n]
                     /\ IRCtoLower[IRCtoLower[n]] = IRCtoLower[n]
                     /\ IRCtoLower[ToLower[n]] = IRCtoLower[n]
                     /\ ToLower[IRCtoLower[n]] = IRCtoLower[n]

ASSUME RegistryAssumption ==
  /\ Offline \notin Name
  /\ MaxOnlineID \in Nat

VARIABLES
  network,        \* the nickname each client has on the network
  users,          \* the map ServicesInternal::users, as a set of Users
  onlineclients,  \* the table onlineclients
  nextOnlineID    \* the next value of the column onlineclients.id

onlineVars == <<network, users, onlineclients, nextOnlineID>>

User == [nickname : Name, onlineID : Nat]
OnlineRow == [id : Nat, nickname : Name]

Online == {c \in Client : network[c] # Offline}

(* The registry's key for the nickname client c uses.                      *)
Key(c) == IRCtoLower[network[c]]

(* How the database evaluates  nickname='...': MySQL compares the strings  *)
(* of these columns without regard to ASCII case.                          *)
SqlEqual(a, b) == ToLower[a] = ToLower[b]

(* Mutant: the first row of the table, whatever its nickname.              *)
locateID_anyRow(rows, n) == IF rows = {} THEN 0 ELSE Min({r.id : r \in rows})

(* The first row that matches, rows being returned by increasing id; 0 if  *)
(* there is none.                                                          *)
locateID(rows, n) ==
  LET ids == {r.id : r \in {q \in rows : SqlEqual(q.nickname, IRCtoLower[n])}}
  IN  IF ids = {} THEN 0 ELSE Min(ids)

(* users[u.nickname] = u : an entry with the same key is replaced.         *)
Filed(map, u) == {v \in map : v.nickname # u.nickname} \cup {u}

(* The User object the server passes along with client c's messages.       *)
UserOf(c) == CHOOSE u \in users : u.nickname = Key(c)

OnlineInit ==
  /\ network = [c \in Client |-> Offline]
  /\ users = {}
  /\ onlineclients = {}
  /\ nextOnlineID = 1

(* What the network guarantees: two clients never have the same nickname.  *)
NameFree(c, n) ==
  \A d \in Online \ {c} : Key(d) # IRCtoLower[n]

addClient(c, n) ==
  /\ c \notin Online
  /\ NameFree(c, n)
  /\ nextOnlineID <= MaxOnlineID
  /\ network' = [network EXCEPT ![c] = n]
  /\ onlineclients' =
       onlineclients \cup {[id |-> nextOnlineID, nickname |-> ToLower[n]]}
  /\ nextOnlineID' = nextOnlineID + 1
  /\ users' = Filed(users, [nickname |-> IRCtoLower[n],
                            onlineID |-> locateID(onlineclients', n)])

(* Mutant: only the map forgets the client.                                *)
delUser_keepRow(c) ==
  /\ c \in Online
  /\ network' = [network EXCEPT ![c] = Offline]
  /\ users' = {u \in users : u.nickname # Key(c)}
  /\ UNCHANGED <<onlineclients, nextOnlineID>>

(* The row is looked for under the spelling the client used.               *)
delUser(c) ==
  /\ c \in Online
  /\ network' = [network EXCEPT ![c] = Offline]
  /\ users' = {u \in users : u.nickname # Key(c)}
  /\ onlineclients' = {r \in onlineclients : ~SqlEqual(r.nickname, network[c])}
  /\ UNCHANGED nextOnlineID

(* Mutant: the entry under the old nickname is not erased.                 *)
setNick_keepOld(c, n) ==
  LET who == UserOf(c)
  IN  /\ c \in Online
      /\ NameFree(c, n)
      /\ network' = [network EXCEPT ![c] = n]
      /\ users' = Filed(users, [who EXCEPT !.nickname = IRCtoLower[n]])
      /\ onlineclients' = {IF r.id = who.onlineID
                           THEN [r EXCEPT !.nickname = IRCtoLower[n]]
                           ELSE r : r \in onlineclients}
      /\ UNCHANGED nextOnlineID

(* Mutant: the client is filed anew, with a row of its own.                *)
setNick_newRow(c, n) ==
  LET who == UserOf(c)
  IN  /\ c \in Online
      /\ NameFree(c, n)
      /\ nextOnlineID <= MaxOnlineID
      /\ network' = [network EXCEPT ![c] = n]
      /\ users' = Filed({u \in users : u.nickname # who.nickname},
                        [nickname |-> IRCtoLower[n], onlineID |-> nextOnlineID])
      /\ onlineclients' = {r \in onlineclients : r.id # who.onlineID} \cup
                            {[id |-> nextOnlineID, nickname |-> IRCtoLower[n]]}
      /\ nextOnlineID' = nextOnlineID + 1

(* The row is found by the online ID, and now holds the IRC folding.       *)
setNick(c, n) ==
  LET who == UserOf(c)
  IN  /\ c \in Online
      /\ NameFree(c, n)
      /\ network' = [network EXCEPT ![c] = n]
      /\ users' = Filed({u \in users : u.nickname # who.nickname},
                        [who EXCEPT !.nickname = IRCtoLower[n]])
      /\ onlineclients' = {IF r.id = who.onlineID
                           THEN [r EXCEPT !.nickname = IRCtoLower[n]]
                           ELSE r : r \in onlineclients}
      /\ UNCHANGED nextOnlineID

(* Mutant: the auto-increment starts from 0.                               *)
restart_fromZero ==
  /\ network' = [c \in Client |-> Offline]
  /\ users' = {}
  /\ onlineclients' = {}
  /\ nextOnlineID' = 0

(* Services stop or die, and start again.  The server runs them in its own *)
(* process, so every client is gone too and will be announced again.  What *)
(* is left in the table is deleted by the constructor; whether that also   *)
(* restarts the auto-increment is up to the database engine.               *)
restart ==
  /\ network' = [c \in Client |-> Offline]
  /\ users' = {}
  /\ onlineclients' = {}
  /\ nextOnlineID' \in {1, nextOnlineID}

OnlineNext ==
  \/ \E c \in Client, n \in Name : addClient(c, n) \/ setNick(c, n)
  \/ \E c \in Client : delUser(c)
  \/ restart

OnlineSpec == OnlineInit /\ [][OnlineNext]_onlineVars

-----------------------------------------------------------------------------
OnlineTypeOK ==
  /\ network \in [Client -> Name \cup {Offline}]
  /\ users \subseteq User
  /\ onlineclients \subseteq OnlineRow
  /\ nextOnlineID \in Nat \ {0}

(* Services know exactly the clients that are on the network, each under   *)
(* one key: no step of addClient, setNick and delUser overwrites or leaves *)
(* behind another client's entry (services.cpp:508, :563, :602).           *)
RegistryIsNetwork ==
  /\ \A c \in Online : \E u \in users : u.nickname = Key(c)
  /\ \A u \in users : \E c \in Online : u.nickname = Key(c)
  /\ \A u, v \in users : u.nickname = v.nickname => u = v

(* The table and the map describe the same clients: each online client has *)
(* one row, with its key and the ID its User object carries, and no row is *)
(* left behind by a client that quit (services.cpp:567, :614, :629).       *)
TableIsRegistry ==
  onlineclients = {[id |-> u.onlineID, nickname |-> u.nickname] : u \in users}

(* The online ID is unique (include/exordium/user.h:56): two online        *)
(* clients never carry the same one, and none carries the "not known" 0.   *)
UniqueOnlineID ==
  /\ \A u \in users : u.onlineID # 0
  /\ \A u, v \in users : u.onlineID = v.onlineID => u = v

(* A client that stays online keeps its ID whatever it or another client   *)
(* does to nicknames, and the ID of a client that signs on was not handed  *)
(* out before in this run of services (services.cpp:602-637).              *)
IDOf(c) == UserOf(c).onlineID

OnlineIDIsStable ==
  [][\A c \in Online' : IF c \in Online THEN IDOf(c)' = IDOf(c)
                                       ELSE IDOf(c)' >= nextOnlineID]_onlineVars
=============================================================================
