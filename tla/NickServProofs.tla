--------------------------- MODULE NickServProofs ---------------------------
(***************************************************************************)
(* The properties of the Nick service, for any clients, nicknames,         *)
(* passwords and bounds.                                                   *)
(*                                                                         *)
(* The argument: every step of the service is a step of the registry or    *)
(* leaves it alone, so the invariants of OnlineUsersProofs hold here too.  *)
(* BaseInv adds that nicksidentified mentions only online IDs and account  *)
(* IDs that were already handed out.  A new client or a new account then   *)
(* finds no row left by an older one, although no row is ever deleted      *)
(* while services run.  It is an invariant whatever the nicknames, and so  *)
(* is what follows from it: one account a nickname, confirmation before    *)
(* identification, demands that last.                                      *)
(*                                                                         *)
(* That the service implements the abstract accounts (module Accounts)     *)
(* takes unique online IDs (NickInv), and so PlainNames.                   *)
(*                                                                         *)
(* KillsInv adds that demands to identify are filed under folded           *)
(* nicknames: the query of IDENTIFY, which compares them with the sender's *)
(* key, then ends the demands for that very key and no other.              *)
(***************************************************************************)
EXTENDS NickServ, OnlineUsersProofs, FiniteSetTheorems

RowsAreOld ==
  /\ \A i \in nicksidentified : i.nick < nextOnlineID /\ i.idas < nextRegID
  /\ \A r \in nicks : r.id < nextRegID
  /\ \A a \in access : a < nextRegID

(* An account is registered under the key of whoever registers it.         *)
NicknamesAreFolded == \A r \in nicks : IRCtoLower[r.nickname] = r.nickname

BaseInv ==
  /\ MapInv
  /\ TablesTypeOK
  /\ OneAccountPerNick
  /\ NicknamesAreFolded
  /\ RowsAreOld

NickInv ==
  /\ OnlineInv
  /\ TablesTypeOK
  /\ OneAccountPerNick
  /\ NicknamesAreFolded
  /\ RowsAreOld

LEMMA NickHasBase == NickInv => BaseInv
  BY OnlineHasMap DEF NickInv, BaseInv

(* The registry is touched by three events of the network and by the start *)
(* of services, and by nothing else.                                       *)
LEMMA RegistrySteps == ASSUME [NickNext]_vars PROVE [OnlineNext]_onlineVars
<1>1. CASE \E c \in Client, n \in Name : handleClientSignon(c, n) \/ changeNick(c, n)
  BY <1>1 DEF handleClientSignon, changeNick, OnlineNext
<1>2. CASE \E c \in Client : signOff(c) \/ parseAUTH(c) \/ parseSET(c)
  BY <1>2 DEF signOff, parseAUTH, parseSET, OnlineNext
<1>3. CASE startServices \/ \E c \in Client : parseSET_language(c)
  BY <1>3 DEF startServices, parseSET_language, OnlineNext
<1>4. CASE checkpoint
  BY <1>4 DEF checkpoint, startServices, OnlineNext
<1>5. CASE \E i \in 1..Len(kills) : becomeDue(i)
  BY <1>5 DEF becomeDue
<1>6. CASE \E c \in Client, p \in Password : parseREGISTER(c, p)
  BY <1>6 DEF parseREGISTER
<1>7. CASE \E c \in Client, p \in Password \cup Email : parseIDENTIFY(c, p)
  BY <1>7 DEF parseIDENTIFY
<1>8. CASE \E c \in Client, n \in Name : parseDELNICK(c, n) \/ parseUSER(c, n)
  BY <1>8 DEF parseDELNICK, parseUSER
<1>9. CASE \E c \in Client, n \in Name, p \in Password : parseSETPASS(c, n, p)
  BY <1>9 DEF parseSETPASS
<1>10. CASE \E r \in nicks : grantAccess(r)
  BY <1>10 DEF grantAccess
<1>11. CASE UNCHANGED vars
  BY <1>11 DEF vars
<1>12. QED
  BY <1>1, <1>2, <1>3, <1>4, <1>5, <1>6, <1>7, <1>8, <1>9, <1>10, <1>11
  DEF NickNext

(* The User object of an online client, and its two names for the client.  *)
LEMMA Sender ==
  ASSUME BaseInv, NEW c \in Online
  PROVE  /\ UserOf(c) \in users
         /\ UserOf(c) \in User
         /\ UserOf(c).nickname = Key(c)
         /\ UserOf(c).onlineID < nextOnlineID
         /\ c \in Client
<1>1. OnlineTypeOK /\ RegistryIsNetwork /\ IDsAreOld
  BY DEF BaseInv, MapInv
<1>2. QED
  BY <1>1, UserOfOnline DEF OnlineTypeOK, IDsAreOld, Online

(* A nickname finds one account or none.                                   *)
LEMMA AccountOfNick ==
  ASSUME BaseInv, NEW n, NEW r \in AccountsOf(n)
  PROVE  AccountsOf(n) = {r} /\ r \in nicks /\ SqlEqual(r.nickname, n)
<1>1. \A s \in AccountsOf(n) : s = r
  BY DEF BaseInv, OneAccountPerNick, AccountsOf, SqlEqual
<1>2. QED
  BY <1>1 DEF AccountsOf

LEMMA RegisteredNickID ==
  ASSUME BaseInv, NEW u, NEW r \in AccountsOf(u.nickname)
  PROVE  getRegisteredNickID(u) = r.id
<1>1. AccountsOf(u.nickname) = {r} /\ r \in nicks
  BY AccountOfNick
<1>2. r.id \in Int
  BY <1>1 DEF BaseInv, TablesTypeOK, Nick
<1>3. {s.id : s \in AccountsOf(u.nickname)} = {r.id}
  BY <1>1
<1>4. Min({r.id}) = r.id
  BY <1>2 DEF Min
<1>5. QED
  BY <1>3, <1>4 DEF getRegisteredNickID

(* USER ADD does what the installation does.                               *)
LEMMA UserEffect ==
  ASSUME BaseInv, NEW c, NEW n, parseUSER(c, n)
  PROVE  \E r \in nicks : grantAccess(r)
<1>1. PICK r : r \in AccountsOf(n)
  BY DEF parseUSER
<1>2. AccountsOf(n) = {r} /\ r \in nicks
  BY <1>1, AccountOfNick
<1>3. r.id \in Int
  BY <1>2 DEF BaseInv, TablesTypeOK, Nick
<1>4. {s.id : s \in AccountsOf(n)} = {r.id}
  BY <1>2
<1>5. Min({r.id}) = r.id
  BY <1>3 DEF Min
<1>6. QED
  BY <1>2, <1>4, <1>5 DEF parseUSER, grantAccess

(* Whoever passes isIdentified is trusted with the account of his nickname.*)
LEMMA IdentifiedOwns ==
  ASSUME BaseInv, NEW c \in Online, isIdentified(UserOf(c))
  PROVE  \E r \in AccountsOf(UserOf(c).nickname) : r.id \in trust[c]
<1> DEFINE u == UserOf(c)
<1>1. PICK i \in nicksidentified, r \in nicks :
        /\ i.nick = u.onlineID
        /\ r.id = i.idas
        /\ IRCtoLower[r.nickname] = IRCtoLower[u.nickname]
  BY DEF isIdentified
<1>2. IRCtoLower[u.nickname] = u.nickname
  BY Sender, KeyIsFolded DEF BaseInv, MapInv, OnlineTypeOK, Online, Key
<1>3. r \in AccountsOf(u.nickname)
  BY <1>1, <1>2 DEF BaseInv, NicknamesAreFolded, AccountsOf, SqlEqual
<1>4. trust[c] = idas(u)
  BY Sender DEF trust
<1>5. r.id \in idas(u)
  BY <1>1 DEF idas
<1>6. QED
  BY <1>3, <1>4, <1>5

(* UPDATE ... WHERE nickname=n replaces the one account that n finds.      *)
LEMMA UpdateOne ==
  ASSUME BaseInv, NEW n, NEW r \in AccountsOf(n),
         NEW field, NEW value, UpdateNicks(n, field, value),
         \/ field = "password" /\ value \in Password \cup Email
         \/ field = "modnick" /\ value \in BOOLEAN
  PROVE  \E b \in Nick : /\ b.id = r.id
                        /\ b.nickname = r.nickname
                        /\ nicks' = (nicks \ {r}) \cup {b}
<1> DEFINE b == [r EXCEPT ![field] = value]
<1>1. r \in Nick
  BY AccountOfNick DEF BaseInv, TablesTypeOK
<1>2. b \in Nick /\ b.id = r.id /\ b.nickname = r.nickname
  BY <1>1 DEF Nick
<1>3. AccountsOf(n) = {r} /\ r \in nicks
  BY AccountOfNick
<1> HIDE DEF b
<1>4. nicks' = (nicks \ {r}) \cup {b}
  BY <1>3 DEF UpdateNicks, b
<1>5. QED
  BY <1>2, <1>4

(* The trust in a client depends on its ID and on nicksidentified only.    *)
LEMMA SameTrust ==
  ASSUME Online' = Online, \A d \in Online : (IDOf(d))' = IDOf(d),
         UNCHANGED nicksidentified
  PROVE  trust' = trust
  BY DEF trust, idas, IDOf

LEMMA SameRegistry ==
  ASSUME UNCHANGED onlineVars
  PROVE  Online' = Online /\ \A d \in Online : (IDOf(d))' = IDOf(d)
  BY DEF onlineVars, Online, IDOf, UserOf, Key

-----------------------------------------------------------------------------
(* BaseInv is inductive, and NickInv for plain names.                      *)
LEMMA NickInvInit == NickInit => NickInv
<1> SUFFICES ASSUME NickInit PROVE NickInv
  OBVIOUS
<1>1. OnlineInv
  BY OnlineInvInit DEF NickInit
<1>2. QED
  BY <1>1 DEF NickInit, NickInv, TablesTypeOK, OneAccountPerNick, NicknamesAreFolded, RowsAreOld

(* A new account: its nickname had none, and its ID was never used.        *)
LEMMA RegisterBase ==
  ASSUME BaseInv, MapInv', NEW c \in Client, NEW p \in Password,
         parseREGISTER(c, p)
  PROVE  BaseInv'
<1> DEFINE u == UserOf(c)
           r == [id |-> nextRegID, nickname |-> IRCtoLower[u.nickname],
                 password |-> p, modnick |-> TRUE]
<1>1. /\ c \in Online
      /\ AccountsOf(u.nickname) = {}
      /\ nextRegID <= MaxRegID
      /\ nicks' = nicks \cup {r}
      /\ nextRegID' = nextRegID + 1
      /\ nickspending' = nickspending \cup {u.nickname}
      /\ UNCHANGED <<nextOnlineID, nicksidentified, access>>
  BY DEF parseREGISTER, isRegistered, onlineVars
<1>2. u \in User /\ u.nickname \in Name /\ u.nickname = Key(c) /\ network[c] \in Name
  BY <1>1, Sender DEF User, BaseInv, MapInv, OnlineTypeOK, Online
<1>3. TablesTypeOK /\ nextRegID \in Nat \ {0} /\ MaxRegID \in Nat
  BY NickAssumption DEF BaseInv, TablesTypeOK
<1>4. r \in Nick /\ r.id = nextRegID /\ r.nickname = u.nickname
  BY <1>1, <1>2, <1>3, KeyIsFolded DEF Nick, Key
<1>5. \A s \in nicks : s.id \in Nat /\ s.id < nextRegID /\ ~SqlEqual(s.nickname, r.nickname)
  BY <1>1, <1>2, <1>3, <1>4 DEF BaseInv, RowsAreOld, AccountsOf, SqlEqual, TablesTypeOK, Nick
<1>6. IRCtoLower[u.nickname] = u.nickname
  BY <1>2, KeyIsFolded DEF Key
<1> HIDE DEF r, u
<1>7. TablesTypeOK'
  BY <1>1, <1>2, <1>3, <1>4 DEF TablesTypeOK
<1>8. OneAccountPerNick'
  BY <1>1, <1>3, <1>4, <1>5 DEF BaseInv, OneAccountPerNick, SqlEqual
<1>9. RowsAreOld'
  <2>1. \A i \in nicksidentified : i.idas \in Nat
    BY <1>3 DEF TablesTypeOK, Identification
  <2>2. \A a \in access : a \in Nat
    BY <1>3 DEF TablesTypeOK
  <2>3. QED
    BY <1>1, <1>3, <1>4, <1>5, <2>1, <2>2 DEF BaseInv, RowsAreOld
<1>10. NicknamesAreFolded'
  BY <1>1, <1>4, <1>6 DEF BaseInv, NicknamesAreFolded
<1>11. QED
  BY <1>7, <1>8, <1>9, <1>10 DEF BaseInv

LEMMA IdentifyBase ==
  ASSUME BaseInv, MapInv', NEW c \in Client, NEW p, parseIDENTIFY(c, p)
  PROVE  BaseInv'
<1> DEFINE u == UserOf(c)
           i == [nick |-> u.onlineID, idas |-> getRegisteredNickID(u), first |-> idas(u) = {}]
<1>1. /\ c \in Online
      /\ AccountsOf(u.nickname) # {}
      /\ nicksidentified' = nicksidentified \cup {i}
      /\ UNCHANGED <<nextOnlineID, nicks, nextRegID, nickspending, access>>
  BY DEF parseIDENTIFY, isRegistered, onlineVars
<1>2. PICK r \in AccountsOf(u.nickname) : TRUE
  BY <1>1
<1>3. r \in nicks /\ getRegisteredNickID(u) = r.id
  BY AccountOfNick, RegisteredNickID
<1>4. u.onlineID \in Nat /\ u.onlineID < nextOnlineID
  BY <1>1, Sender DEF User
<1>5. r.id \in Nat /\ r.id < nextRegID
  BY <1>3 DEF BaseInv, TablesTypeOK, Nick, RowsAreOld
<1>6. (idas(u) = {}) \in BOOLEAN
  OBVIOUS
<1>7. i \in Identification /\ i.nick < nextOnlineID /\ i.idas < nextRegID
  BY <1>3, <1>4, <1>5, <1>6 DEF Identification
<1> HIDE DEF i, u
<1>8. QED
  BY <1>1, <1>7 DEF BaseInv, TablesTypeOK, OneAccountPerNick, NicknamesAreFolded, RowsAreOld, SqlEqual

(* A change of the settings of an account leaves its ID and nickname.      *)
LEMMA ReplaceBase ==
  ASSUME BaseInv, MapInv', NEW r \in nicks, NEW b \in Nick,
         b.id = r.id, b.nickname = r.nickname,
         nicks' = (nicks \ {r}) \cup {b},
         UNCHANGED <<onlineVars, nextRegID, nickspending, nicksidentified, access>>
  PROVE  BaseInv'
<1>1. UNCHANGED nextOnlineID
  BY DEF onlineVars
<1>2. TablesTypeOK'
  BY DEF BaseInv, TablesTypeOK
<1>3. OneAccountPerNick' /\ NicknamesAreFolded'
  BY DEF BaseInv, OneAccountPerNick, NicknamesAreFolded, SqlEqual
<1>4. RowsAreOld'
  BY <1>1 DEF BaseInv, RowsAreOld
<1>5. QED
  BY <1>2, <1>3, <1>4 DEF BaseInv

(* What an allowed SET or SETPASS does, in one fact.                       *)
LEMMA SetEffect ==
  ASSUME BaseInv, NEW c \in Client, parseSET(c)
  PROVE  \E r \in nicks, b \in Nick :
           /\ r.id \in trust[c]
           /\ b.id = r.id /\ b.nickname = r.nickname
           /\ nicks' = (nicks \ {r}) \cup {b}
<1>1. c \in Online /\ isIdentified(UserOf(c))
  BY DEF parseSET
<1>2. PICK r \in AccountsOf(UserOf(c).nickname) : r.id \in trust[c]
  BY <1>1, IdentifiedOwns
<1>3. \E field, value :
        /\ UpdateNicks(UserOf(c).nickname, field, value)
        /\ \/ field = "password" /\ value \in Password \cup Email
           \/ field = "modnick" /\ value \in BOOLEAN
  BY DEF parseSET, setPassword, setModNick, setEmail
<1>4. \E b \in Nick : b.id = r.id /\ b.nickname = r.nickname
                      /\ nicks' = (nicks \ {r}) \cup {b}
  BY <1>3, UpdateOne
<1>5. QED
  BY <1>2, <1>4, AccountOfNick

LEMMA SetpassEffect ==
  ASSUME BaseInv, NEW c \in Client, NEW n, NEW p \in Password, parseSETPASS(c, n, p)
  PROVE  \E r \in nicks, b \in Nick :
           /\ b.id = r.id /\ b.nickname = r.nickname
           /\ nicks' = (nicks \ {r}) \cup {b}
<1>1. PICK r \in AccountsOf(n) : TRUE
  BY DEF parseSETPASS
<1>2. UpdateNicks(n, "password", p)
  BY DEF parseSETPASS
<1>3. QED
  BY <1>1, <1>2, UpdateOne, AccountOfNick

LEMMA BaseInvNext ==
  ASSUME BaseInv, [NickNext]_vars
  PROVE  BaseInv'
<1>1. MapInv'
  BY RegistrySteps, MapInvNext DEF BaseInv
<1>2. ASSUME UNCHANGED <<nicks, nextRegID, nickspending, access>>,
             nicksidentified' = nicksidentified, nextOnlineID' >= nextOnlineID
      PROVE  BaseInv'
  <2>1. nextOnlineID \in Nat /\ nextOnlineID' \in Nat
    BY <1>1 DEF BaseInv, MapInv, OnlineTypeOK
  <2>2. \A i \in nicksidentified : i.nick \in Nat
    BY DEF BaseInv, TablesTypeOK, Identification
  <2>3. RowsAreOld'
    BY <1>2, <2>1, <2>2 DEF BaseInv, RowsAreOld
  <2>4. TablesTypeOK' /\ OneAccountPerNick' /\ NicknamesAreFolded'
    BY <1>2 DEF BaseInv, TablesTypeOK, OneAccountPerNick, NicknamesAreFolded, SqlEqual
  <2>5. QED
    BY <1>1, <2>3, <2>4 DEF BaseInv
<1>3. nextOnlineID \in Nat
  BY DEF BaseInv, MapInv, OnlineTypeOK
<1>4. CASE \E c \in Client, n \in Name : handleClientSignon(c, n) \/ changeNick(c, n)
  BY <1>2, <1>3, <1>4 DEF handleClientSignon, addClient, changeNick, setNick, nickVars
<1>5. CASE \E c \in Client : signOff(c)
  BY <1>2, <1>3, <1>5 DEF signOff, delUser, nickVars
<1>6. ASSUME startServices PROVE BaseInv'
  BY <1>1, <1>6 DEF startServices, BaseInv, TablesTypeOK, OneAccountPerNick, NicknamesAreFolded, RowsAreOld, SqlEqual
<1>7. CASE checkpoint
  BY <1>2, <1>3, <1>6, <1>7 DEF checkpoint, onlineVars
<1>8. CASE \E i \in 1..Len(kills) : becomeDue(i)
  BY <1>2, <1>3, <1>8 DEF becomeDue, onlineVars
<1>9. CASE \E c \in Client, p \in Password : parseREGISTER(c, p)
  BY <1>1, <1>9, RegisterBase
<1>10. CASE \E c \in Client : parseAUTH(c)
  <2>1. PICK c \in Client : parseAUTH(c)
    BY <1>10
  <2>2. nickspending' \subseteq nickspending
    BY <2>1 DEF parseAUTH
  <2>3. UNCHANGED <<nextOnlineID, nicks, nextRegID, nicksidentified, access>>
    BY <2>1 DEF parseAUTH, onlineVars
  <2>4. QED
    BY <1>1, <2>2, <2>3 DEF BaseInv, TablesTypeOK, OneAccountPerNick, NicknamesAreFolded, RowsAreOld, SqlEqual
<1>11. CASE \E c \in Client, p \in Password \cup Email : parseIDENTIFY(c, p)
  BY <1>1, <1>11, IdentifyBase
<1>12. CASE \E c \in Client : parseSET(c)
  BY <1>1, <1>12, SetEffect, ReplaceBase DEF parseSET
<1>13. CASE \E c \in Client, n \in Name : parseDELNICK(c, n)
  <2>1. PICK c \in Client, n \in Name : parseDELNICK(c, n)
    BY <1>13
  <2>2. /\ nicks' \subseteq nicks
        /\ UNCHANGED <<nextOnlineID, nextRegID, nickspending, nicksidentified, access>>
    BY <2>1 DEF parseDELNICK, onlineVars
  <2>3. QED
    BY <1>1, <2>2 DEF BaseInv, TablesTypeOK, OneAccountPerNick, NicknamesAreFolded, RowsAreOld, SqlEqual
<1>14. CASE \E c \in Client, n \in Name, p \in Password : parseSETPASS(c, n, p)
  BY <1>1, <1>14, SetpassEffect, ReplaceBase DEF parseSETPASS
<1>15. ASSUME \E r \in nicks : grantAccess(r) PROVE BaseInv'
  <2>1. PICK r \in nicks : grantAccess(r)
    BY <1>15
  <2>2. /\ access' = access \cup {r.id}
        /\ UNCHANGED <<nextOnlineID, nicks, nextRegID, nickspending, nicksidentified>>
    BY <2>1 DEF grantAccess, onlineVars
  <2>3. r.id \in Nat /\ r.id < nextRegID
    BY DEF BaseInv, TablesTypeOK, Nick, RowsAreOld
  <2>4. QED
    BY <1>1, <2>2, <2>3 DEF BaseInv, TablesTypeOK, OneAccountPerNick, NicknamesAreFolded, RowsAreOld, SqlEqual
<1>16. CASE UNCHANGED vars
  BY <1>2, <1>3, <1>16 DEF vars, onlineVars, nickVars
<1>17. CASE \E c \in Client : parseSET_language(c)
  BY <1>6, <1>17 DEF parseSET_language
<1>18. CASE \E c \in Client, n \in Name : parseUSER(c, n)
  BY <1>1, <1>15, <1>18, UserEffect
<1>19. QED
  BY <1>4, <1>5, <1>6, <1>7, <1>8, <1>9, <1>10, <1>11, <1>12, <1>13, <1>14, <1>15, <1>16, <1>17, <1>18
  DEF NickNext

LEMMA NickInvNext ==
  ASSUME NickInv, PlainNames, [NickNext]_vars
  PROVE  NickInv'
<1>1. OnlineInv'
  BY RegistrySteps, OnlineInvNext DEF NickInv
<1>2. BaseInv'
  BY NickHasBase, BaseInvNext
<1>3. QED
  BY <1>1, <1>2 DEF NickInv, BaseInv

-----------------------------------------------------------------------------
(* Every step of the service is a step of the abstract accounts, or leaves *)
(* what they see unchanged.                                                *)
LEMMA AccountsOfInit == NickInit => Abstract!AccountsInit
<1> SUFFICES ASSUME NickInit PROVE Abstract!AccountsInit
  OBVIOUS
<1>1. Online = {}
  BY DEF NickInit, OnlineInit, Online
<1>2. trust = [c \in Client |-> {}]
  BY <1>1 DEF trust
<1>3. QED
  BY <1>1, <1>2 DEF NickInit, Abstract!AccountsInit

(* A client that signs on has an ID that no row mentions.                  *)
LEMMA SignonStep ==
  ASSUME NickInv, PlainNames, NEW c \in Client, NEW n \in Name, handleClientSignon(c, n)
  PROVE  Abstract!SignOn(c)
<1>1. addClient(c, n) /\ UNCHANGED <<nicks, nicksidentified, access>>
  BY DEF handleClientSignon
<1>2. /\ c \notin Online
      /\ Online' = Online \cup {c}
      /\ (IDOf(c))' = nextOnlineID
      /\ \A d \in Online : (IDOf(d))' = IDOf(d)
  BY <1>1, AddClientIDs DEF NickInv
<1>3. \A i \in nicksidentified : i.nick # nextOnlineID
  BY DEF NickInv, RowsAreOld, TablesTypeOK, Identification, OnlineInv, OnlineTypeOK
<1>4. (idas(UserOf(c)))' = {}
  BY <1>1, <1>2, <1>3 DEF idas, IDOf
<1>5. \A d \in Online : (idas(UserOf(d)))' = idas(UserOf(d))
  BY <1>1, <1>2 DEF idas, IDOf
<1>6. trust' = trust
  BY <1>2, <1>4, <1>5 DEF trust
<1>7. QED
  BY <1>1, <1>2, <1>6 DEF Abstract!SignOn

LEMMA SignoffStep ==
  ASSUME NickInv, PlainNames, NEW c \in Client, signOff(c)
  PROVE  Abstract!SignOff(c)
<1>1. delUser(c) /\ UNCHANGED <<nicks, nicksidentified, access>>
  BY DEF signOff, nickVars
<1>2. Online' = Online \ {c} /\ \A d \in Online' : (IDOf(d))' = IDOf(d)
  BY <1>1, DelUserIDs DEF NickInv
<1>3. \A d \in Online' : (idas(UserOf(d)))' = idas(UserOf(d))
  BY <1>1, <1>2 DEF idas, IDOf
<1>4. trust' = [trust EXCEPT ![c] = {}]
  BY <1>2, <1>3 DEF trust
<1>5. QED
  BY <1>1, <1>2, <1>4 DEF Abstract!SignOff

LEMMA StartStep ==
  ASSUME startServices
  PROVE  Abstract!Reset
<1>1. Online' = {} /\ UNCHANGED <<nicks, access>>
  BY DEF startServices, restart, Online
<1>2. QED
  BY <1>1 DEF Abstract!Reset, trust

LEMMA RegisterStep ==
  ASSUME BaseInv, NEW c \in Client, NEW p \in Password, parseREGISTER(c, p)
  PROVE  \E a \in Nick : Abstract!Open(a)
<1> DEFINE a == [id |-> nextRegID, nickname |-> IRCtoLower[UserOf(c).nickname],
                 password |-> p, modnick |-> TRUE]
<1>1. /\ c \in Online
      /\ nextRegID <= MaxRegID
      /\ nicks' = nicks \cup {a}
      /\ UNCHANGED <<onlineVars, nicksidentified, access>>
  BY DEF parseREGISTER
<1>2. a \in Nick /\ a.id = nextRegID /\ nextRegID \in Nat
  BY <1>1, Sender, KeyIsFolded, NickAssumption DEF BaseInv, TablesTypeOK, Nick, User
<1>3. trust' = trust /\ Online' = Online
  BY <1>1, SameRegistry, SameTrust
<1>4. nextRegID \notin {b.id : b \in nicks} \cup access
  BY <1>2 DEF BaseInv, TablesTypeOK, RowsAreOld, Nick
<1>5. \A d \in Client : nextRegID \notin trust[d]
  <2>1. \A i \in nicksidentified : i.idas # nextRegID
    BY <1>2 DEF BaseInv, TablesTypeOK, RowsAreOld, Identification
  <2>2. QED
    BY <2>1 DEF trust, idas
<1> HIDE DEF a
<1>6. Abstract!Open(a)
  BY <1>1, <1>2, <1>3, <1>4, <1>5 DEF Abstract!Open
<1>7. QED
  BY <1>2, <1>6

(* Only the sender is trusted with more: nobody else has his online ID.    *)
LEMMA IdentifyStep ==
  ASSUME NickInv, NEW c \in Client, NEW p, parseIDENTIFY(c, p)
  PROVE  \E a \in nicks : Abstract!Prove(c, a)
<1> DEFINE u == UserOf(c)
           i == [nick |-> u.onlineID, idas |-> getRegisteredNickID(u), first |-> idas(u) = {}]
<1>1. /\ c \in Online
      /\ AccountsOf(u.nickname) # {}
      /\ nicksidentified' = nicksidentified \cup {i}
      /\ UNCHANGED <<onlineVars, nicks, access>>
  BY DEF parseIDENTIFY, isRegistered
<1>2. PICK a \in AccountsOf(u.nickname) : TRUE
  BY <1>1
<1>3. a \in nicks /\ i.idas = a.id /\ i.nick = u.onlineID
  BY AccountOfNick, NickHasBase, RegisteredNickID
<1>4. Online' = Online /\ \A d \in Online : UserOf(d)' = UserOf(d)
  BY <1>1 DEF onlineVars, Online, UserOf, Key
<1> HIDE DEF i, u
<1>5. (idas(UserOf(c)))' = idas(UserOf(c)) \cup {a.id}
  BY <1>1, <1>3, <1>4 DEF idas, u
<1>6. ASSUME NEW d \in Online \ {c} PROVE (idas(UserOf(d)))' = idas(UserOf(d))
  <2>1. UserOf(d) \in users /\ u \in users /\ UserOf(d).nickname # u.nickname
    BY <1>1, Sender, NickHasBase DEF NickInv, OnlineInv, KeysDiffer, u
  <2>2. UserOf(d).onlineID # i.nick
    BY <1>3, <2>1 DEF NickInv, OnlineInv, UniqueOnlineID
  <2>3. QED
    BY <1>1, <1>4, <2>2 DEF idas
<1>7. trust' = [trust EXCEPT ![c] = @ \cup {a.id}]
  BY <1>1, <1>4, <1>5, <1>6 DEF trust
<1>8. QED
  BY <1>1, <1>3, <1>4, <1>7 DEF Abstract!Prove

LEMMA SetStep ==
  ASSUME BaseInv, NEW c \in Client, parseSET(c)
  PROVE  \E a \in nicks, b \in Nick : Abstract!ChangeOwn(c, a, b)
<1>1. PICK a \in nicks, b \in Nick : /\ a.id \in trust[c]
                                   /\ b.id = a.id
                                   /\ nicks' = (nicks \ {a}) \cup {b}
  BY SetEffect
<1>2. c \in Online /\ UNCHANGED <<onlineVars, nicksidentified, access>>
  BY DEF parseSET
<1>3. trust' = trust /\ Online' = Online
  BY <1>2, SameRegistry, SameTrust
<1>4. QED
  BY <1>1, <1>2, <1>3 DEF Abstract!ChangeOwn, Abstract!Replace

(* The sender of a command of Serv is trusted with a staff account.        *)
LEMMA ServStep ==
  ASSUME BaseInv, NEW c \in Client, NEW n \in Name,
         \/ parseDELNICK(c, n)
         \/ \E p \in Password : parseSETPASS(c, n, p)
  PROVE  Abstract!ActAsStaff(c)
<1>1. servAllows(c) /\ UNCHANGED <<onlineVars, nicksidentified, access>>
  BY DEF parseDELNICK, parseSETPASS
<1>2. c \in Online /\ trust[c] \cap access # {}
  BY <1>1, IdentifiedOwns, RegisteredNickID DEF servAllows
<1>3. trust' = trust /\ Online' = Online
  BY <1>1, SameRegistry, SameTrust
<1>4. \/ \E a \in nicks, b \in Nick : b.id = a.id /\ nicks' = (nicks \ {a}) \cup {b}
      \/ \E a \in nicks : nicks' = nicks \ {a}
  <2>1. CASE parseDELNICK(c, n)
    <3>1. PICK a \in AccountsOf(n) : TRUE
      BY <2>1 DEF parseDELNICK
    <3>2. QED
      BY <2>1, <3>1, AccountOfNick DEF parseDELNICK
  <2>2. CASE \E p \in Password : parseSETPASS(c, n, p)
    BY <2>2, SetpassEffect
  <2>3. QED
    BY <2>1, <2>2
<1>5. QED
  BY <1>1, <1>2, <1>3, <1>4 DEF Abstract!ActAsStaff, Abstract!Replace

LEMMA AccountsOfNext ==
  ASSUME NickInv, PlainNames, [NickNext]_vars
  PROVE  [Abstract!AccountsNext]_(Abstract!accountsVars)
<1> USE DEF Abstract!AccountsNext
<1>1. ASSUME Online' = Online, \A d \in Online : (IDOf(d))' = IDOf(d),
             UNCHANGED <<nicksidentified, nicks, access>>
      PROVE  UNCHANGED Abstract!accountsVars
  BY <1>1, SameTrust DEF Abstract!accountsVars
<1>2. CASE \E c \in Client, n \in Name : handleClientSignon(c, n)
  BY <1>2, SignonStep
<1>3. CASE \E c \in Client, n \in Name : changeNick(c, n)
  BY <1>1, <1>3, SetNickIDs DEF changeNick, nickVars, NickInv
<1>4. CASE \E c \in Client : signOff(c)
  BY <1>4, SignoffStep
<1>5. CASE startServices
  BY <1>5, StartStep
<1>6. CASE checkpoint
  BY <1>1, <1>6, StartStep, SameRegistry DEF checkpoint
<1>7. CASE \E i \in 1..Len(kills) : becomeDue(i)
  BY <1>1, <1>7, SameRegistry DEF becomeDue
<1>8. CASE \E c \in Client, p \in Password : parseREGISTER(c, p)
  BY <1>8, RegisterStep, NickHasBase
<1>9. CASE \E c \in Client : parseAUTH(c)
  BY <1>1, <1>9, SameRegistry DEF parseAUTH
<1>10. CASE \E c \in Client, p \in Password \cup Email : parseIDENTIFY(c, p)
  BY <1>10, IdentifyStep
<1>11. CASE \E c \in Client : parseSET(c)
  BY <1>11, SetStep, NickHasBase
<1>12. CASE \E c \in Client, n \in Name : parseDELNICK(c, n)
  BY <1>12, ServStep, NickHasBase
<1>13. CASE \E c \in Client, n \in Name, p \in Password : parseSETPASS(c, n, p)
  BY <1>13, ServStep, NickHasBase
<1>14. ASSUME \E r \in nicks : grantAccess(r)
       PROVE  \E r \in nicks : Abstract!Appoint(r)
  <2>1. PICK r \in nicks : grantAccess(r)
    BY <1>14
  <2>2. trust' = trust /\ Online' = Online
    BY <2>1, SameRegistry, SameTrust DEF grantAccess
  <2>3. Abstract!Appoint(r)
    BY <2>1, <2>2 DEF grantAccess, Abstract!Appoint
  <2>4. QED
    BY <2>3
<1>15. CASE UNCHANGED vars
  BY <1>1, <1>15, SameRegistry DEF vars, nickVars
<1>16. CASE \E c \in Client : parseSET_language(c)
  BY <1>16, StartStep DEF parseSET_language
<1>17. CASE \E c \in Client, n \in Name : parseUSER(c, n)
  BY <1>14, <1>17, UserEffect, NickHasBase
<1>18. QED
  BY <1>2, <1>3, <1>4, <1>5, <1>6, <1>7, <1>8, <1>9, <1>10, <1>11, <1>12, <1>13, <1>14, <1>15, <1>16, <1>17
  DEF NickNext

(* An account is changed only by a connection that proved it owns it, or   *)
(* by staff, and trust ends with the connection: the Nick service          *)
(* implements the specification of accounts.                               *)
THEOREM NickServImplementsAccounts == PlainNames /\ NickSpec => ImplementsAccounts
<1> SUFFICES ASSUME PlainNames PROVE NickSpec => ImplementsAccounts
  OBVIOUS
<1>1. NickInit => NickInv /\ Abstract!AccountsInit
  BY NickInvInit, AccountsOfInit
<1>2. NickInv /\ [NickNext]_vars => NickInv'
  BY NickInvNext
<1>3. NickInv /\ [NickNext]_vars => [Abstract!AccountsNext]_(Abstract!accountsVars)
  BY AccountsOfNext
<1>4. QED
  BY <1>1, <1>2, <1>3, PTL DEF NickSpec, ImplementsAccounts, Abstract!AccountsSpec

(* A nickname has one account and an account one nickname.                 *)
THEOREM AccountsUnique == NickSpec => []OneAccountPerNick
<1>1. NickInit => BaseInv
  BY NickInvInit, NickHasBase
<1>2. BaseInv /\ [NickNext]_vars => BaseInv'
  BY BaseInvNext
<1>3. BaseInv => OneAccountPerNick
  BY DEF BaseInv
<1>4. QED
  BY <1>1, <1>2, <1>3, PTL DEF NickSpec

-----------------------------------------------------------------------------
(* Confirmation comes before identification.                               *)

(* Most steps make no row that could pair an identification with a pending *)
(* registration.                                                           *)
LEMMA FewerPairs ==
  ASSUME PendingNotIdentified,
         nicksidentified' \subseteq nicksidentified, nickspending' \subseteq nickspending,
         \A r \in nicks' : \E s \in nicks : s.id = r.id /\ s.nickname = r.nickname
  PROVE  PendingNotIdentified'
  BY DEF PendingNotIdentified, SqlEqual

(* A new account has an ID nobody has identified for, and its nickname had *)
(* no account.                                                             *)
LEMMA RegisterPending ==
  ASSUME BaseInv, PendingNotIdentified, NEW c \in Client, NEW p \in Password,
         parseREGISTER(c, p)
  PROVE  PendingNotIdentified'
<1> DEFINE u == UserOf(c)
           r == [id |-> nextRegID, nickname |-> IRCtoLower[u.nickname],
                 password |-> p, modnick |-> TRUE]
<1>1. /\ AccountsOf(u.nickname) = {}
      /\ nicks' = nicks \cup {r}
      /\ nickspending' = nickspending \cup {u.nickname}
      /\ nicksidentified' = nicksidentified
  BY DEF parseREGISTER, isRegistered
<1>2. \A i \in nicksidentified : i.idas # nextRegID
  <2>1. \A i \in nicksidentified : i.idas \in Nat /\ i.idas < nextRegID /\ nextRegID \in Nat
    BY DEF BaseInv, TablesTypeOK, RowsAreOld, Identification
  <2>2. QED
    BY <2>1
<1>3. \A s \in nicks : ~SqlEqual(u.nickname, s.nickname)
  BY <1>1 DEF AccountsOf, SqlEqual
<1>4. r.id = nextRegID
  OBVIOUS
<1> HIDE DEF u, r
<1>5. QED
  BY <1>1, <1>2, <1>3, <1>4 DEF PendingNotIdentified, SqlEqual

(* Who identifies has no registration of the nickname pending.             *)
LEMMA IdentifyPending ==
  ASSUME BaseInv, PendingNotIdentified, NEW c \in Client, NEW p, parseIDENTIFY(c, p)
  PROVE  PendingNotIdentified'
<1> DEFINE u == UserOf(c)
           i == [nick |-> u.onlineID, idas |-> getRegisteredNickID(u), first |-> idas(u) = {}]
<1>1. /\ \A n \in nickspending : ~SqlEqual(n, u.nickname)
      /\ AccountsOf(u.nickname) # {}
      /\ nicksidentified' = nicksidentified \cup {i}
      /\ UNCHANGED <<nicks, nickspending>>
  BY DEF parseIDENTIFY, isPending, isRegistered
<1>2. PICK r \in AccountsOf(u.nickname) : TRUE
  BY <1>1
<1>3. r \in nicks /\ SqlEqual(r.nickname, u.nickname) /\ getRegisteredNickID(u) = r.id
  BY AccountOfNick, RegisteredNickID
<1>4. i.idas = r.id
  BY <1>3
<1>5. \A s \in nicks : s.id = r.id => s = r
  BY <1>3 DEF BaseInv, OneAccountPerNick
<1> HIDE DEF u, i
<1>6. \A n \in nickspending : ~SqlEqual(n, r.nickname)
  BY <1>1, <1>3 DEF SqlEqual
<1>7. QED
  BY <1>1, <1>4, <1>5, <1>6 DEF PendingNotIdentified, SqlEqual

LEMMA PendingNext ==
  ASSUME BaseInv, PendingNotIdentified, [NickNext]_vars
  PROVE  PendingNotIdentified'
<1>1. ASSUME UNCHANGED <<nicks, nickspending>>, nicksidentified' \subseteq nicksidentified
      PROVE  PendingNotIdentified'
  BY <1>1, FewerPairs
<1>2. ASSUME NEW r \in nicks, NEW b, b.id = r.id, b.nickname = r.nickname,
             nicks' = (nicks \ {r}) \cup {b}, UNCHANGED <<nicksidentified, nickspending>>
      PROVE  PendingNotIdentified'
  BY <1>2, FewerPairs
<1>3. CASE \E c \in Client, n \in Name : handleClientSignon(c, n) \/ changeNick(c, n)
  BY <1>1, <1>3 DEF handleClientSignon, changeNick, nickVars
<1>4. CASE \E c \in Client : signOff(c)
  BY <1>1, <1>4 DEF signOff, nickVars
<1>5. ASSUME startServices PROVE PendingNotIdentified'
  BY <1>1, <1>5 DEF startServices
<1>6. CASE checkpoint
  BY <1>1, <1>5, <1>6 DEF checkpoint
<1>7. CASE \E i \in 1..Len(kills) : becomeDue(i)
  BY <1>1, <1>7 DEF becomeDue
<1>8. CASE \E c \in Client, p \in Password : parseREGISTER(c, p)
  BY <1>8, RegisterPending
<1>9. CASE \E c \in Client : parseAUTH(c)
  BY <1>9, FewerPairs DEF parseAUTH
<1>10. CASE \E c \in Client, p \in Password \cup Email : parseIDENTIFY(c, p)
  BY <1>10, IdentifyPending
<1>11. CASE \E c \in Client : parseSET(c)
  BY <1>2, <1>11, SetEffect DEF parseSET
<1>12. CASE \E c \in Client, n \in Name : parseDELNICK(c, n)
  BY <1>12, FewerPairs DEF parseDELNICK
<1>13. CASE \E c \in Client, n \in Name, p \in Password : parseSETPASS(c, n, p)
  BY <1>2, <1>13, SetpassEffect DEF parseSETPASS
<1>14. CASE \/ \E r \in nicks : grantAccess(r)
            \/ \E c \in Client, n \in Name : parseUSER(c, n)
  BY <1>1, <1>14 DEF grantAccess, parseUSER
<1>15. CASE \E c \in Client : parseSET_language(c)
  BY <1>5, <1>15 DEF parseSET_language
<1>16. CASE UNCHANGED vars
  BY <1>1, <1>16 DEF vars, nickVars
<1>17. QED
  BY <1>3, <1>4, <1>5, <1>6, <1>7, <1>8, <1>9, <1>10, <1>11, <1>12, <1>13, <1>14, <1>15, <1>16
  DEF NickNext

(* Nobody is identified for a registration that has not been confirmed,    *)
(* nor inherits an identification for an earlier account of the nickname.  *)
THEOREM PendingComesFirst == NickSpec => []PendingNotIdentified
<1>1. NickInit => BaseInv /\ PendingNotIdentified
  BY NickInvInit, NickHasBase DEF NickInit, PendingNotIdentified
<1>2. BaseInv /\ PendingNotIdentified /\ [NickNext]_vars => BaseInv' /\ PendingNotIdentified'
  BY BaseInvNext, PendingNext
<1>3. QED
  BY <1>1, <1>2, PTL DEF NickSpec

-----------------------------------------------------------------------------
(* The demands to identify.  A demand is for a nickname in folded spelling *)
(* because sign-on takes it from the User object; the query that ends      *)
(* demands compares it with another such nickname.                         *)
KillsTypeOK == kills \in Seq(Demand)

KillsAreFolded == \A i \in 1..Len(kills) : ToLower[kills[i].nick] = kills[i].nick

KillsInv == KillsTypeOK /\ KillsAreFolded

(* A deletion leaves the rows that it does not name, and makes none.       *)
LEMMA DeleteKills ==
  ASSUME KillsTypeOK, NEW D, deleteKills(D)
  PROVE  /\ KillsTypeOK'
         /\ \A k \in 1..Len(kills') : \E i \in 1..Len(kills) : kills'[k] = kills[i]
         /\ \A i \in 1..Len(kills) \ D : \E k \in 1..Len(kills') : kills'[k] = kills[i]
<1> DEFINE kept == 1..Len(kills) \ D
           n == Cardinality(kept)
<1>1. PICK order \in Bijection(1..n, kept) : kills' = [k \in 1..n |-> kills[order[k]]]
  BY DEF deleteKills
<1>2. Len(kills) \in Nat /\ \A i \in 1..Len(kills) : kills[i] \in Demand
  BY DEF KillsTypeOK
<1>3. n \in Nat
  <2>1. IsFiniteSet(1..Len(kills))
    BY <1>2, FS_Interval
  <2>2. IsFiniteSet(kept)
    BY <2>1, FS_Difference
  <2>3. QED
    BY <2>2, FS_CardinalityType
<1>4. /\ order \in [1..n -> kept]
      /\ \A i \in kept : \E k \in 1..n : order[k] = i
  BY DEF Bijection, Injection, Surjection
<1>5. kept \subseteq 1..Len(kills)
  OBVIOUS
<1> HIDE DEF kept, n
<1>6. kills' \in [1..n -> Demand] /\ \A k \in 1..n : kills'[k] = kills[order[k]]
  BY <1>1, <1>2, <1>4, <1>5
<1>7. kills' \in Seq(Demand) /\ Len(kills') = n
  BY <1>3, <1>6
<1>8. \A k \in 1..n : \E i \in 1..Len(kills) : kills'[k] = kills[i]
  BY <1>4, <1>5, <1>6
<1>9. \A i \in kept : \E k \in 1..n : kills'[k] = kills[i]
  BY <1>4, <1>6
<1>10. QED
  BY <1>7, <1>8, <1>9 DEF KillsTypeOK, kept

(* The User object that addClient has made for the client.                 *)
LEMMA NewUser ==
  ASSUME BaseInv, NEW c \in Client, NEW n \in Name, addClient(c, n)
  PROVE  (UserOf(c)').nickname = IRCtoLower[n]
<1>1. MapInv
  BY DEF BaseInv
<1>2. \E u \in users' : u.nickname = IRCtoLower[n]
  <2>1. [nickname |-> IRCtoLower[n], onlineID |-> locateID(onlineclients', n)] \in users'
    BY <1>1, AddClientMap
  <2>2. QED
    BY <2>1
<1>3. network'[c] = n
  BY <1>1 DEF addClient, MapInv, OnlineTypeOK
<1>4. UserOf(c)' = CHOOSE u \in users' : u.nickname = IRCtoLower[n]
  BY <1>3 DEF UserOf, Key
<1>5. QED
  BY <1>2, <1>4

LEMMA KillsInvNext ==
  ASSUME BaseInv, KillsInv, [NickNext]_vars
  PROVE  KillsInv'
<1>1. KillsTypeOK /\ KillsAreFolded
  BY DEF KillsInv
<1>2. ASSUME UNCHANGED kills PROVE KillsInv'
  BY <1>1, <1>2 DEF KillsInv, KillsTypeOK, KillsAreFolded
<1>3. ASSUME NEW D, deleteKills(D) PROVE KillsInv'
  BY <1>1, <1>3, DeleteKills DEF KillsInv, KillsAreFolded
<1>4. ASSUME startServices PROVE KillsInv'
  BY <1>4 DEF startServices, KillsInv, KillsTypeOK, KillsAreFolded
<1>5. ASSUME NEW c \in Client, NEW n \in Name, handleClientSignon(c, n) PROVE KillsInv'
  <2>1. \/ UNCHANGED kills
        \/ kills' = Append(kills, [nick |-> (UserOf(c)').nickname, due |-> FALSE])
    BY <1>5 DEF handleClientSignon
  <2>2. (UserOf(c)').nickname = IRCtoLower[n]
    BY <1>5, NewUser DEF handleClientSignon
  <2>3. IRCtoLower[n] \in Name /\ ToLower[IRCtoLower[n]] = IRCtoLower[n]
    BY KeyIsFolded
  <2> DEFINE demand == [nick |-> IRCtoLower[n], due |-> FALSE]
  <2>4. demand \in Demand /\ demand.nick = IRCtoLower[n]
    BY <2>3 DEF Demand
  <2>5. CASE kills' = Append(kills, demand)
    <3> HIDE DEF demand
    <3>1. /\ kills' \in Seq(Demand) /\ Len(kills') = Len(kills) + 1 /\ Len(kills) \in Nat
          /\ \A k \in 1..Len(kills) : kills'[k] = kills[k]
          /\ kills'[Len(kills) + 1] = demand
      BY <1>1, <2>4, <2>5 DEF KillsTypeOK
    <3>2. QED
      BY <1>1, <2>3, <2>4, <3>1 DEF KillsInv, KillsTypeOK, KillsAreFolded
  <2>6. QED
    BY <1>2, <2>1, <2>2, <2>5
<1>6. CASE \E i \in 1..Len(kills) : becomeDue(i)
  <2>1. PICK i \in 1..Len(kills) : kills' = [kills EXCEPT ![i].due = TRUE]
    BY <1>6 DEF becomeDue
  <2>2. \A k \in 1..Len(kills) : kills[k] \in Demand
    BY <1>1 DEF KillsTypeOK
  <2>3. [kills[i] EXCEPT !.due = TRUE] \in Demand /\ [kills[i] EXCEPT !.due = TRUE].nick = kills[i].nick
    BY <2>2 DEF Demand
  <2>4. kills' = [kills EXCEPT ![i] = [kills[i] EXCEPT !.due = TRUE]]
    BY <2>1
  <2>5. /\ kills' \in Seq(Demand) /\ Len(kills') = Len(kills)
        /\ \A k \in 1..Len(kills) : kills'[k] = IF k = i THEN [kills[i] EXCEPT !.due = TRUE] ELSE kills[k]
    BY <1>1, <2>3, <2>4 DEF KillsTypeOK
  <2>6. QED
    BY <1>1, <2>3, <2>5 DEF KillsInv, KillsTypeOK, KillsAreFolded
<1>7. CASE checkpoint
  BY <1>3, <1>4, <1>7 DEF checkpoint, expire
<1>8. CASE \E c \in Client, p \in Password \cup Email : parseIDENTIFY(c, p)
  BY <1>3, <1>8 DEF parseIDENTIFY
<1>9. CASE \E c \in Client, n \in Name : changeNick(c, n)
  BY <1>2, <1>9 DEF changeNick, nickVars
<1>10. CASE \E c \in Client : signOff(c) \/ parseAUTH(c) \/ parseSET(c)
  BY <1>2, <1>10 DEF signOff, parseAUTH, parseSET, nickVars
<1>11. CASE \E c \in Client, p \in Password : parseREGISTER(c, p)
  BY <1>2, <1>11 DEF parseREGISTER
<1>12. CASE \E c \in Client, n \in Name : parseDELNICK(c, n) \/ parseUSER(c, n)
  BY <1>2, <1>12 DEF parseDELNICK, parseUSER
<1>13. CASE \E c \in Client, n \in Name, p \in Password : parseSETPASS(c, n, p)
  BY <1>2, <1>13 DEF parseSETPASS
<1>14. CASE \E r \in nicks : grantAccess(r)
  BY <1>2, <1>14 DEF grantAccess
<1>15. CASE \E c \in Client : parseSET_language(c)
  BY <1>4, <1>15 DEF parseSET_language
<1>16. CASE UNCHANGED vars
  BY <1>2, <1>16 DEF vars, nickVars
<1>17. QED
  BY <1>4, <1>5, <1>6, <1>7, <1>8, <1>9, <1>10, <1>11, <1>12, <1>13, <1>14, <1>15, <1>16
  DEF NickNext

(* IDENTIFY deletes the demands that name the sender's nickname, and with  *)
(* it the sender has identified for the account that the demand is about.  *)
LEMMA IdentifyEnds ==
  ASSUME BaseInv, KillsInv, NEW c \in Client, NEW p, parseIDENTIFY(c, p),
         NEW i \in 1..Len(kills), SqlEqual(kills[i].nick, UserOf(c).nickname)
  PROVE  \E d \in Online, r \in nicks : /\ Key(d) = kills[i].nick
                                        /\ SqlEqual(r.nickname, kills[i].nick)
                                        /\ r.id \in (idas(UserOf(d)))'
<1> DEFINE u == UserOf(c)
<1>1. /\ c \in Online
      /\ AccountsOf(u.nickname) # {}
      /\ nicksidentified' = nicksidentified \cup
           {[nick |-> u.onlineID, idas |-> getRegisteredNickID(u), first |-> idas(u) = {}]}
      /\ UNCHANGED onlineVars
  BY DEF parseIDENTIFY, isRegistered
<1>2. PICK r \in AccountsOf(u.nickname) : TRUE
  BY <1>1
<1>3. r \in nicks /\ SqlEqual(r.nickname, u.nickname) /\ getRegisteredNickID(u) = r.id
  BY AccountOfNick, RegisteredNickID
<1>4. UserOf(c)' = u
  BY <1>1 DEF onlineVars, UserOf, Key
<1>5. r.id \in (idas(UserOf(c)))'
  <2> DEFINE new == [nick |-> u.onlineID, idas |-> r.id, first |-> idas(u) = {}]
  <2>1. new \in nicksidentified' /\ new.nick = u.onlineID /\ new.idas = r.id
    BY <1>1, <1>3
  <2> HIDE DEF new
  <2>2. QED
    BY <1>4, <2>1 DEF idas
<1>6. u.nickname = Key(c) /\ network[c] \in Name
  BY <1>1, Sender DEF BaseInv, MapInv, OnlineTypeOK, Online
<1>7. kills[i].nick = Key(c)
  <2>1. ToLower[kills[i].nick] = kills[i].nick
    BY DEF KillsInv, KillsAreFolded
  <2>2. ToLower[Key(c)] = Key(c)
    BY <1>6, KeyIsFolded DEF Key
  <2>3. QED
    BY <1>6, <2>1, <2>2 DEF SqlEqual
<1>8. QED
  BY <1>1, <1>3, <1>5, <1>6, <1>7 DEF SqlEqual

LEMMA DemandStep ==
  ASSUME BaseInv, KillsInv, [NickNext]_vars,
         NEW i \in 1..Len(kills), ~kills[i].due
  PROVE  \/ Online' = {}
         \/ \E j \in 1..Len(kills') : kills'[j].nick = kills[i].nick
         \/ \E c \in Online, r \in nicks : /\ Key(c) = kills[i].nick
                                          /\ SqlEqual(r.nickname, kills[i].nick)
                                          /\ r.id \in (idas(UserOf(c)))'
<1> DEFINE Kept == \E j \in 1..Len(kills') : kills'[j].nick = kills[i].nick
<1>1. KillsTypeOK /\ Len(kills) \in Nat
  BY DEF KillsInv, KillsTypeOK
<1>2. ASSUME UNCHANGED kills PROVE Kept
  BY <1>2
<1>3. ASSUME NEW D, deleteKills(D), i \notin D PROVE Kept
  BY <1>1, <1>3, DeleteKills
<1>4. ASSUME startServices PROVE Online' = {}
  BY <1>4 DEF startServices, restart, Online
<1>5. CASE \E c \in Client, n \in Name : handleClientSignon(c, n)
  <2>1. \/ UNCHANGED kills
        \/ \E k : kills' = Append(kills, k)
    BY <1>5 DEF handleClientSignon
  <2>2. ASSUME NEW k, kills' = Append(kills, k) PROVE Kept
    <3>1. Len(kills') = Len(kills) + 1 /\ kills'[i] = kills[i]
      BY <1>1, <2>2 DEF KillsTypeOK
    <3>2. i \in 1..Len(kills')
      BY <1>1, <3>1
    <3>3. QED
      BY <3>1, <3>2
  <2>3. QED
    BY <1>2, <2>1, <2>2
<1>6. CASE \E j \in 1..Len(kills) : becomeDue(j)
  <2>1. PICK j \in 1..Len(kills) : kills' = [kills EXCEPT ![j].due = TRUE]
    BY <1>6 DEF becomeDue
  <2>2. kills[i] \in Demand /\ kills[j] \in Demand
    BY <1>1 DEF KillsTypeOK
  <2>3. kills'[i].nick = kills[i].nick /\ Len(kills') = Len(kills)
    BY <1>1, <2>1, <2>2 DEF KillsTypeOK, Demand
  <2>4. QED
    BY <2>3
<1>7. CASE checkpoint
  <2>1. PICK j \in 1..Len(kills) : firstDue(j) /\ (expire(j) \/ startServices)
    BY <1>7 DEF checkpoint
  <2>2. i # j
    BY <2>1 DEF firstDue
  <2>3. QED
    BY <1>3, <1>4, <2>1, <2>2 DEF expire
<1>8. CASE \E c \in Client, p \in Password \cup Email : parseIDENTIFY(c, p)
  <2>1. PICK c \in Client, p \in Password \cup Email : parseIDENTIFY(c, p)
    BY <1>8
  <2> DEFINE D == {k \in 1..Len(kills) : SqlEqual(kills[k].nick, UserOf(c).nickname)}
  <2>2. deleteKills(D)
    BY <2>1 DEF parseIDENTIFY
  <2>3. CASE i \in D
    BY <2>1, <2>3, IdentifyEnds
  <2>4. QED
    BY <1>3, <2>2, <2>3
<1>9. CASE \E c \in Client, n \in Name : changeNick(c, n)
  BY <1>2, <1>9 DEF changeNick, nickVars
<1>10. CASE \E c \in Client : signOff(c) \/ parseAUTH(c) \/ parseSET(c)
  BY <1>2, <1>10 DEF signOff, parseAUTH, parseSET, nickVars
<1>11. CASE \E c \in Client, p \in Password : parseREGISTER(c, p)
  BY <1>2, <1>11 DEF parseREGISTER
<1>12. CASE \E c \in Client, n \in Name : parseDELNICK(c, n) \/ parseUSER(c, n)
  BY <1>2, <1>12 DEF parseDELNICK, parseUSER
<1>13. CASE \E c \in Client, n \in Name, p \in Password : parseSETPASS(c, n, p)
  BY <1>2, <1>13 DEF parseSETPASS
<1>14. CASE \E r \in nicks : grantAccess(r)
  BY <1>2, <1>14 DEF grantAccess
<1>15. CASE \E c \in Client : parseSET_language(c)
  BY <1>4, <1>15 DEF parseSET_language
<1>16. CASE UNCHANGED vars
  BY <1>2, <1>16 DEF vars, nickVars
<1>17. QED
  BY <1>4, <1>5, <1>6, <1>7, <1>8, <1>9, <1>10, <1>11, <1>12, <1>13, <1>14, <1>15, <1>16
  DEF NickNext

LEMMA KillsInvariant == NickSpec => [](BaseInv /\ KillsInv)
<1>1. NickInit => BaseInv /\ KillsInv
  BY NickInvInit, NickHasBase DEF NickInit, KillsInv, KillsTypeOK, KillsAreFolded
<1>2. BaseInv /\ KillsInv /\ [NickNext]_vars => BaseInv' /\ KillsInv'
  BY BaseInvNext, KillsInvNext
<1>3. QED
  BY <1>1, <1>2, PTL DEF NickSpec

(* The tables of the Nick service hold what their columns are meant for,   *)
(* the demands to identify among them.                                     *)
THEOREM NickTypeCorrect == NickSpec => []NickTypeOK
<1>1. BaseInv /\ KillsInv => NickTypeOK
  BY DEF BaseInv, KillsInv, KillsTypeOK, NickTypeOK
<1>2. QED
  BY <1>1, KillsInvariant, PTL

(* The demands for a nickname, one of which is not due, all go only with   *)
(* the run of services or while whoever uses the nickname is identified    *)
(* for its account: the expiry of another demand leaves that one alone.    *)
THEOREM DemandsLast == NickSpec => DemandsAreKept
<1>1. BaseInv /\ KillsInv /\ [NickNext]_vars =>
        \A i \in 1..Len(kills) :
          ~kills[i].due =>
            \/ Online' = {}
            \/ \E j \in 1..Len(kills') : kills'[j].nick = kills[i].nick
            \/ \E c \in Online, r \in nicks : /\ Key(c) = kills[i].nick
                                             /\ SqlEqual(r.nickname, kills[i].nick)
                                             /\ r.id \in (idas(UserOf(c)))'
  BY DemandStep
<1>2. QED
  BY <1>1, KillsInvariant, PTL DEF NickSpec, DemandsAreKept

(* The composition: the registry behaves under the Nick service as it does *)
(* alone, so that RegistryCorrect and OnlineIDStability hold of it.        *)
THEOREM NickServIsOnlineUsers == NickSpec => OnlineSpec
<1>1. NickInit => OnlineInit
  BY DEF NickInit
<1>2. [NickNext]_vars => [OnlineNext]_onlineVars
  BY RegistrySteps
<1>3. QED
  BY <1>1, <1>2, PTL DEF NickSpec, OnlineSpec
=============================================================================
