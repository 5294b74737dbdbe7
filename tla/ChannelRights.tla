---------------------------- MODULE ChannelRights ----------------------------
(***************************************************************************)
(* What the registration of channels promises: rights on a channel come    *)
(* from its registration, or from somebody who has proved to hold a higher *)
(* right on it, or from staff.  A channel that is registered anew, and an  *)
(* account that is registered anew, start without rights.                  *)
(*                                                                         *)
(* There are no nicknames and no names of channels here: registrations of  *)
(* both are told apart by numbers that are used once.  ChanServ shows that *)
(* its tables implement this.                                              *)
(***************************************************************************)
EXTENDS Integers

CONSTANTS
  Client,    \* connections to the network
  Founder    \* the level of whoever registers a channel

VARIABLES
  trusted,     \* the ids of the accounts each client has proved to own
  accounts,    \* the ids of the registered accounts
  staff,       \* the ids of the accounts that belong to staff
  registered,  \* the ids of the registered channels
  rights       \* the levels: a set of [chanid, nickid, access]

rightsVars == <<trusted, accounts, staff, registered, rights>>
othersVars == <<trusted, accounts, staff>>

RightsOn(ch) == {r \in rights : r.chanid = ch}
RightsOf(ch, a) == {r \in RightsOn(ch) : r.nickid = a}

RightsInit ==
  /\ trusted = [c \in Client |-> {}]
  /\ accounts = {}
  /\ staff = {}
  /\ registered = {}
  /\ rights = {}

(* Accounts come and go, and clients prove to own them, as Accounts says.  *)
(* A new account has no rights anywhere.                                   *)
Elsewhere ==
  /\ \A a \in accounts' \ accounts : \A r \in rights : r.nickid # a
  /\ UNCHANGED <<registered, rights>>

Register(c, a, ch) ==
  /\ a \in trusted[c]
  /\ ch \notin registered
  /\ RightsOn(ch) = {}
  /\ registered' = registered \cup {ch}
  /\ rights' = rights \cup {[chanid |-> ch, nickid |-> a, access |-> Founder]}
  /\ UNCHANGED othersVars

(* One gives less than one has, and only to somebody who has nothing.      *)
Grant(c, a, ch, b, level) ==
  /\ a \in trusted[c]
  /\ \E r \in RightsOf(ch, a) : level < r.access
  /\ RightsOf(ch, b) = {}
  /\ rights' = rights \cup {[chanid |-> ch, nickid |-> b, access |-> level]}
  /\ UNCHANGED <<othersVars, registered>>

(* Only a founder's level ends a registration, and the rights with it.     *)
Drop(c, ch) ==
  /\ trusted[c] # {}
  /\ \E r \in RightsOn(ch) : r.access = Founder
  /\ registered' = registered \ {ch}
  /\ rights' = rights \ RightsOn(ch)
  /\ UNCHANGED othersVars

(* Staff may do anything to one channel at a time.                         *)
ActAsStaff(c, ch) ==
  /\ trusted[c] \cap staff # {}
  /\ registered' \ {ch} = registered \ {ch}
  /\ ch \notin registered' => \A r \in rights' : r.chanid # ch
  /\ {r \in rights' : r.chanid # ch} = rights \ RightsOn(ch)
  /\ UNCHANGED othersVars

RightsNext ==
  \/ Elsewhere
  \/ \E c \in Client, ch \in registered : Drop(c, ch)
  \/ \E c \in Client, ch \in registered \cup registered' : ActAsStaff(c, ch)
  \/ \E c \in Client, ch \in registered' : \E a \in trusted[c] : Register(c, a, ch)
  \/ \E c \in Client, ch \in registered : \E a \in trusted[c], r \in rights' :
       Grant(c, a, ch, r.nickid, r.access)

RightsSpec == RightsInit /\ [][RightsNext]_rightsVars
=============================================================================
