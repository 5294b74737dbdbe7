------------------------------ MODULE NickServ ------------------------------
(***************************************************************************)
(* The Nick service (source/modules/mod.nick/nick.cpp) over the registry   *)
(* of online users: registration and confirmation of nicknames,            *)
(* identification, the settings of an account, the demand to identify and  *)
(* its expiry; and the two commands of Serv that act on another's account. *)
(*                                                                         *)
(* An account is found by the nickname of whoever sends the command.  Who  *)
(* has identified as what is kept in the table nicksidentified as pairs of *)
(* an online ID and an account ID, which nothing deletes until services    *)
(* are started again.                                                      *)
(*                                                                         *)
(* Handlers run to completion one at a time.  A command that is refused    *)
(* changes nothing, and replies are left out.                              *)
(***************************************************************************)
EXTENDS OnlineUsers, SequencesExt

CONSTANTS
  Password,    \* what users choose as passwords (long enough for the service)
  Email,       \* what users give as email addresses
  MaxRegID,    \* bound on the auto-incremented column nicks.id
  MaxKills     \* bound on the length of the table kills

ASSUME NickAssumption ==
  /\ Password \cap Email = {}
  /\ MaxRegID \in Nat
  /\ MaxKills \in Nat

VARIABLES
  nicks,            \* the table of registered nicknames
  nextRegID,        \* the next value of the column nicks.id
  nickspending,     \* the nicknames that have an unused authorisation code
  nicksidentified,  \* the table of identifications
  kills,            \* the table of demands to identify, by increasing id
  access            \* the account IDs with access to the Serv service

nickVars == <<nicks, nextRegID, nickspending, nicksidentified, kills, access>>
vars == <<onlineVars, nickVars>>

Nick == [id : 1..MaxRegID, nickname : Name, password : Password \cup Email, modnick : BOOLEAN]

(* "first" marks the row that a query by online ID returns first.          *)
Identification == [nick : Nat, idas : Nat, first : BOOLEAN]

(* "due" tells that the time in the row has passed.                        *)
Demand == [nick : Name, due : BOOLEAN]

(* The accounts that a query by nickname finds, and what the methods of    *)
(* User make of them.  A User u is a member of users.                      *)
AccountsOf(n) == {r \in nicks : SqlEqual(r.nickname, n)}

isPending(u) == \E n \in nickspending : SqlEqual(n, u.nickname)

(* Mutant: a registration that is not confirmed does not count.            *)
isRegistered_confirmed(u) == AccountsOf(u.nickname) # {} /\ ~isPending(u)

isRegistered(u) == AccountsOf(u.nickname) # {}

modNick(u) == \E r \in AccountsOf(u.nickname) : r.modnick

getRegisteredNickID(u) == Min({r.id : r \in AccountsOf(u.nickname)})

getPass(u) == (CHOOSE r \in AccountsOf(u.nickname) : r.id = getRegisteredNickID(u)).password

(* Mutant: the query forgets whose identification it looks for.            *)
isIdentified_byAnybody(u) ==
  \E i \in nicksidentified, r \in nicks :
    /\ i.first
    /\ r.id = i.idas
    /\ IRCtoLower[r.nickname] = IRCtoLower[u.nickname]

(* isIdentified(as): only the first row of the result is compared.  The    *)
(* nickname of an account that is gone is "", which no client has.         *)
isIdentified(u) ==
  \E i \in nicksidentified, r \in nicks :
    /\ i.nick = u.onlineID
    /\ i.first
    /\ r.id = i.idas
    /\ IRCtoLower[r.nickname] = IRCtoLower[u.nickname]

(* The accounts of which u owns the password, for all the table knows.     *)
idas(u) == {i.idas : i \in {j \in nicksidentified : j.nick = u.onlineID}}

(* DELETE FROM kills: the rows at positions outside D stay, in their order.*)
deleteKills(D) ==
  LET kept == 1..Len(kills) \ D
      left == 1..Cardinality(kept)
  IN  \E order \in Bijection(left, kept) :
        /\ \A j, k \in left : j < k => order[j] < order[k]
        /\ kills' = [k \in left |-> kills[order[k]]]

NickInit ==
  /\ OnlineInit
  /\ nicks = {}
  /\ nextRegID = 1
  /\ nickspending = {}
  /\ nicksidentified = {}
  /\ kills = <<>>
  /\ access = {}

-----------------------------------------------------------------------------
(* Events of the network.                                                  *)

(* addClient, and then the handler of the Nick service: the owner of a     *)
(* confirmed nickname may have asked that its users identify.              *)
handleClientSignon(c, n) ==
  LET who == (UserOf(c))'
  IN  /\ addClient(c, n)
      /\ IF isRegistered(who) /\ ~isPending(who) /\ modNick(who)
           THEN /\ Len(kills) < MaxKills
                /\ kills' = Append(kills, [nick |-> who.nickname, due |-> FALSE])
           ELSE UNCHANGED kills
      /\ UNCHANGED <<nicks, nextRegID, nickspending, nicksidentified, access>>

signOff(c) == delUser(c) /\ UNCHANGED nickVars

changeNick(c, n) == setNick(c, n) /\ UNCHANGED nickVars

(* The constructor of ServicesInternal deletes what belonged to the last   *)
(* run of services.                                                        *)
startServices ==
  /\ restart
  /\ nicksidentified' = {}
  /\ kills' = <<>>
  /\ UNCHANGED <<nicks, nextRegID, nickspending, access>>

(* The time of a demand, 120 to 180 seconds after the sign-on, passes.     *)
becomeDue(i) ==
  /\ ~kills[i].due
  /\ kills' = [kills EXCEPT ![i].due = TRUE]
  /\ UNCHANGED <<onlineVars, nicks, nextRegID, nickspending, nicksidentified, access>>

(* checkpoint walks over the rows of kills and acts on those that are due: *)
(* it deletes the row and looks the user up.  The walk ends there if the   *)
(* user is gone.  Otherwise it goes on to the next row, but the queries in *)
(* between have replaced the result it walks over, and the read of the     *)
(* missing row kills the process, which is then started again.  The method *)
(* is private and nothing in the repository calls it: here it may run at   *)
(* any time or never, and nothing is assumed about when.                   *)

(* Mutant: the rows of the nickname are deleted, not the row with the id.  *)
expire_byNickname(i) == deleteKills({j \in 1..Len(kills) : kills[j].nick = kills[i].nick})

(* DELETE FROM kills WHERE id=...                                          *)
expire(i) == deleteKills({i})

firstDue(i) ==
  /\ kills[i].due
  /\ \A j \in 1..(i - 1) : ~kills[j].due

checkpoint ==
  \E i \in 1..Len(kills) :
    /\ firstDue(i)
    /\ \/ /\ \/ i = Len(kills)
             \/ \A u \in users : u.nickname # IRCtoLower[kills[i].nick]
          /\ expire(i)
          /\ UNCHANGED <<onlineVars, nicks, nextRegID, nickspending,
                         nicksidentified, access>>
       \/ /\ i # Len(kills)
          /\ \E u \in users : u.nickname = IRCtoLower[kills[i].nick]
          /\ startServices

-----------------------------------------------------------------------------
(* Commands of the Nick service, sent by client c.                         *)

(* The last column of a new row is modnick: its users have to identify.    *)
parseREGISTER(c, password) ==
  LET who == UserOf(c)
  IN  /\ c \in Online
      /\ ~isRegistered(who)
      /\ nextRegID <= MaxRegID
      /\ nicks' = nicks \cup {[id |-> nextRegID,
                               nickname |-> IRCtoLower[who.nickname],
                               password |-> password,
                               modnick |-> TRUE]}
      /\ nextRegID' = nextRegID + 1
      /\ nickspending' = nickspending \cup {who.nickname}
      /\ UNCHANGED <<onlineVars, nicksidentified, kills, access>>

(* The code was sent to the email address given with the registration.     *)
parseAUTH(c) ==
  LET who == UserOf(c)
  IN  /\ c \in Online
      /\ isPending(who)
      /\ nickspending' = {n \in nickspending : ~SqlEqual(n, who.nickname)}
      /\ UNCHANGED <<onlineVars, nicks, nextRegID, nicksidentified, kills, access>>

(* Mutant: a pending registration may be identified for.                   *)
parseIDENTIFY_pending(c, password) ==
  LET who == UserOf(c)
  IN  /\ c \in Online
      /\ isRegistered(who)
      /\ password = getPass(who)
      /\ nicksidentified' = nicksidentified \cup
           {[nick |-> who.onlineID,
             idas |-> getRegisteredNickID(who),
             first |-> idas(who) = {}]}
      /\ deleteKills({k \in 1..Len(kills) : SqlEqual(kills[k].nick, who.nickname)})
      /\ UNCHANGED <<onlineVars, nicks, nextRegID, nickspending, access>>

parseIDENTIFY(c, password) ==
  LET who == UserOf(c)
  IN  /\ c \in Online
      /\ ~isPending(who)
      /\ isRegistered(who)
      /\ password = getPass(who)
      /\ nicksidentified' = nicksidentified \cup
           {[nick |-> who.onlineID,
             idas |-> getRegisteredNickID(who),
             first |-> idas(who) = {}]}
      /\ deleteKills({k \in 1..Len(kills) : SqlEqual(kills[k].nick, who.nickname)})
      /\ UNCHANGED <<onlineVars, nicks, nextRegID, nickspending, access>>

(* Mutant: the wrong column is written.                                    *)
UpdateNicks_wrongColumn(n, field, value) ==
  nicks' = {IF r \in AccountsOf(n) THEN [r EXCEPT !.modnick = value] ELSE r : r \in nicks}

(* UPDATE nicks SET field=value WHERE nickname=n                           *)
UpdateNicks(n, field, value) ==
  nicks' = {IF r \in AccountsOf(n) THEN [r EXCEPT ![field] = value] ELSE r : r \in nicks}

setPassword(u, password) == UpdateNicks(u.nickname, "password", password)

setModNick(u, val) == UpdateNicks(u.nickname, "modnick", val)

(* The column that is written is the password's.                           *)
setEmail(u, email) == UpdateNicks(u.nickname, "password", email)

(* The other options set columns that nothing here reads.                  *)
parseSET(c) ==
  LET who == UserOf(c)
  IN  /\ c \in Online
      /\ isIdentified(who)
      /\ \/ \E p \in Password : setPassword(who, p)
         \/ \E b \in BOOLEAN : setModNick(who, b)
         \/ \E e \in Email : setEmail(who, e)
      /\ UNCHANGED <<onlineVars, nextRegID, nickspending, nicksidentified, kills, access>>

(* SET LANGUAGE with a code that no language has: the message that says so *)
(* is sent, and then the missing language is used all the same, which      *)
(* kills the process.                                                      *)
parseSET_language(c) ==
  /\ c \in Online
  /\ isIdentified(UserOf(c))
  /\ startServices

-----------------------------------------------------------------------------
(* Commands of the Serv service that act on accounts.  getServiceAccess    *)
(* never finds a row, so staff nicknames are not protected from staff.     *)

servAllows(c) ==
  /\ c \in Online
  /\ isIdentified(UserOf(c))
  /\ getRegisteredNickID(UserOf(c)) \in access

parseDELNICK(c, who) ==
  /\ servAllows(c)
  /\ AccountsOf(who) # {}
  /\ nicks' = nicks \ AccountsOf(who)
  /\ UNCHANGED <<onlineVars, nextRegID, nickspending, nicksidentified, kills, access>>

parseSETPASS(c, who, newpass) ==
  /\ servAllows(c)
  /\ AccountsOf(who) # {}
  /\ UpdateNicks(who, "password", newpass)
  /\ UNCHANGED <<onlineVars, nextRegID, nickspending, nicksidentified, kills, access>>

(* USER ADD.  USER MOD compares the sender's level with itself and USER    *)
(* DEL asks getServiceAccess: neither ever gets to change a row.           *)
parseUSER(c, toadd) ==
  /\ servAllows(c)
  /\ ToLower[UserOf(c).nickname] # ToLower[toadd]
  /\ AccountsOf(toadd) # {}
  /\ access' = access \cup {Min({r.id : r \in AccountsOf(toadd)})}
  /\ UNCHANGED <<onlineVars, nicks, nextRegID, nickspending, nicksidentified, kills>>

(* The installation gives access to an account.                            *)
grantAccess(r) ==
  /\ r \in nicks
  /\ access' = access \cup {r.id}
  /\ UNCHANGED <<onlineVars, nicks, nextRegID, nickspending, nicksidentified, kills>>

NickNext ==
  \/ \E c \in Client, n \in Name : handleClientSignon(c, n) \/ changeNick(c, n)
  \/ \E c \in Client : signOff(c) \/ parseAUTH(c) \/ parseSET(c) \/ parseSET_language(c)
  \/ startServices
  \/ checkpoint
  \/ \E i \in 1..Len(kills) : becomeDue(i)
  \/ \E c \in Client, p \in Password : parseREGISTER(c, p)
  \/ \E c \in Client, p \in Password \cup Email : parseIDENTIFY(c, p)
  \/ \E c \in Client, n \in Name : parseDELNICK(c, n) \/ parseUSER(c, n)
  \/ \E c \in Client, n \in Name, p \in Password : parseSETPASS(c, n, p)
  \/ \E r \in nicks : grantAccess(r)

NickSpec == NickInit /\ [][NickNext]_vars

-----------------------------------------------------------------------------
TablesTypeOK ==
  /\ nicks \subseteq Nick
  /\ nextRegID \in Nat \ {0}
  /\ nickspending \subseteq Name
  /\ nicksidentified \subseteq Identification
  /\ access \subseteq Nat

NickTypeOK == TablesTypeOK /\ kills \in Seq(Demand)

(* A nickname has at most one account, and an account ID one nickname,     *)
(* however registrations, deletions and changes of nickname interleave     *)
(* (user.cpp:612, serv.cpp:911).                                           *)
OneAccountPerNick ==
  \A r, s \in nicks : r.id = s.id \/ SqlEqual(r.nickname, s.nickname) => r = s

(* Nobody is identified as the owner of a nickname whose registration has  *)
(* not been confirmed by email: confirmation comes first, and a second     *)
(* registration of the nickname does not inherit the identifications of    *)
(* the first (nick.cpp:825, user.cpp:376, :658).                           *)
PendingNotIdentified ==
  \A i \in nicksidentified, r \in nicks :
    i.idas = r.id => \A n \in nickspending : ~SqlEqual(n, r.nickname)

(* The demands to identify for a nickname, one of which is not due yet, all *)
(* end only with the run of services or while whoever uses the nickname is *)
(* identified for its account: neither the expiry of an older demand nor a *)
(* quit, a change of nickname or a deletion ends them (services.cpp:435,   *)
(* user.cpp:720).                                                          *)
DemandsAreKept ==
  [][\A i \in 1..Len(kills) :
       ~kills[i].due =>
         \/ Online' = {}
         \/ \E j \in 1..Len(kills') : kills'[j].nick = kills[i].nick
         \/ \E c \in Online, r \in nicks : /\ Key(c) = kills[i].nick
                                          /\ SqlEqual(r.nickname, kills[i].nick)
                                          /\ r.id \in (idas(UserOf(c)))']_vars

(* The service implements the abstract accounts: a client is trusted with  *)
(* the accounts that nicksidentified lists under its online ID.            *)
trust == [c \in Client |-> IF c \in Online THEN idas(UserOf(c)) ELSE {}]

Abstract == INSTANCE Accounts WITH
  Account <- Nick,
  online <- Online,
  trusted <- trust,
  accounts <- nicks,
  staff <- access

ImplementsAccounts == Abstract!AccountsSpec

=============================================================================
