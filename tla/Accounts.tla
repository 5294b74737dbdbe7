------------------------------ MODULE Accounts ------------------------------
(***************************************************************************)
(* What nickname registration promises: an account is changed only by a    *)
(* connection that has proved, since it signed on, that the account is its *)
(* own, or by one that has proved to be a member of staff.                 *)
(*                                                                         *)
(* Trust belongs to a connection and ends with it; it does not pass to     *)
(* another connection, to another account, or over a restart of services.  *)
(* There are no nicknames, online IDs or tables here: NickServ shows that  *)
(* they implement this.                                                    *)
(***************************************************************************)
CONSTANTS
  Client,   \* connections to the network
  Account   \* possible contents of an account; each has a field id

VARIABLES
  online,    \* the clients that are on the network
  trusted,   \* the ids of the accounts each client has proved to own
  accounts,  \* the registered accounts
  staff      \* the ids of the accounts that belong to staff

accountsVars == <<online, trusted, accounts, staff>>

AccountsInit ==
  /\ online = {}
  /\ trusted = [c \in Client |-> {}]
  /\ accounts = {}
  /\ staff = {}

(* Nobody is trusted on arrival.                                           *)
SignOn(c) ==
  /\ c \notin online
  /\ online' = online \cup {c}
  /\ UNCHANGED <<trusted, accounts, staff>>

SignOff(c) ==
  /\ online' = online \ {c}
  /\ trusted' = [trusted EXCEPT ![c] = {}]
  /\ UNCHANGED <<accounts, staff>>

Prove(c, a) ==
  /\ c \in online
  /\ trusted' = [trusted EXCEPT ![c] = @ \cup {a.id}]
  /\ UNCHANGED <<online, accounts, staff>>

(* A new account is nobody's yet, and its id was not used before.          *)
Open(a) ==
  /\ a.id \notin {b.id : b \in accounts} \cup staff
  /\ \A c \in Client : a.id \notin trusted[c]
  /\ accounts' = accounts \cup {a}
  /\ UNCHANGED <<online, trusted, staff>>

Replace(a, b) ==
  /\ b.id = a.id
  /\ accounts' = (accounts \ {a}) \cup {b}
  /\ UNCHANGED <<online, trusted, staff>>

ChangeOwn(c, a, b) ==
  /\ c \in online
  /\ a.id \in trusted[c]
  /\ Replace(a, b)

ActAsStaff(c) ==
  /\ c \in online
  /\ trusted[c] \cap staff # {}
  /\ \/ \E a \in accounts, b \in Account : Replace(a, b)
     \/ \E a \in accounts : /\ accounts' = accounts \ {a}
                            /\ UNCHANGED <<online, trusted, staff>>

Appoint(a) ==
  /\ staff' = staff \cup {a.id}
  /\ UNCHANGED <<online, trusted, accounts>>

Reset ==
  /\ online' = {}
  /\ trusted' = [c \in Client |-> {}]
  /\ UNCHANGED <<accounts, staff>>

AccountsNext ==
  \/ \E c \in Client : SignOn(c) \/ SignOff(c) \/ ActAsStaff(c)
  \/ \E c \in Client, a \in accounts : Prove(c, a)
  \/ \E c \in Client, a \in accounts, b \in Account : ChangeOwn(c, a, b)
  \/ \E a \in Account : Open(a)
  \/ \E a \in accounts : Appoint(a)
  \/ Reset

AccountsSpec == AccountsInit /\ [][AccountsNext]_accountsVars
=============================================================================
