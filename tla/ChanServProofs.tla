--------------------------- MODULE ChanServProofs ---------------------------
(***************************************************************************)
(* The Chan service and Serv implement the abstract rights on channels     *)
(* (module ChannelRights), and the owner of a channel is its only founder, *)
(* for any clients, nicknames, channels, levels and bounds, provided that  *)
(* the two foldings agree on names of channels (PlainChannels).            *)
(* Nicknames may be any: who is identified for an account is found by its  *)
(* row (BaseInv), and does not depend on online IDs being unique.          *)
(*                                                                         *)
(* The argument: under PlainChannels a name finds one row of chans or      *)
(* none, so the ID that chanAddAccess looks up is the one of the row       *)
(* inserted just before (RegisterEffect).  IDs are handed out once, and a  *)
(* row of chanaccess mentions only IDs handed out before; so what a        *)
(* deleted account leaves behind never speaks for another one.             *)
(*                                                                         *)
(* That the tables are well formed takes neither assumption.               *)
(***************************************************************************)
EXTENDS ChanServ, NickServProofs, FiniteSetTheorems

(* No name of a channel has a character that only one of the foldings      *)
(* folds.                                                                  *)
PlainChannels == ChanToLower = ChanIRCtoLower

ChanIDsAreOld == \A ch \in chans : ch.id < nextChanID

ChanInv ==
  /\ BaseInv
  /\ RightsTypeOK
  /\ RightsAreGrounded
  /\ OwnerIsFounder
  /\ ChanIDsAreOld

(* The object that findChan returns is asked about the same channel.       *)
LEMMA SameObject ==
  ASSUME PlainChannels, NEW n \in ChanName
  PROVE  /\ findChan(n) \in ChanName
         /\ ChansNamed(findChan(n)) = ChansNamed(n)
         /\ getChanID(findChan(n)) = getChanID(n)
<1>1. ChanIRCtoLower[n] \in ChanName /\ ChanToLower[ChanIRCtoLower[n]] = ChanToLower[n]
  BY ChanAssumption DEF PlainChannels
<1>2. ChansNamed(findChan(n)) = ChansNamed(n)
  BY <1>1 DEF ChansNamed, SameChan, findChan
<1>3. QED
  BY <1>1, <1>2 DEF getChanID, findChan

(* A name finds one channel or none.                                       *)
LEMMA ChannelOfName ==
  ASSUME ChanInv, NEW n, NEW ch \in ChansNamed(n)
  PROVE  /\ ChansNamed(n) = {ch}
         /\ ch \in chans
         /\ ch.id \in Nat \ {0}
         /\ getChanID(n) = ch.id
<1>1. ch \in chans /\ ch.id \in Int /\ ch.id \in Nat \ {0}
  BY ChanAssumption DEF ChansNamed, ChanInv, RightsTypeOK, Chan
<1>2. ChansNamed(n) = {ch}
  BY DEF ChansNamed, SameChan, ChanInv, OwnerIsFounder
<1>3. {r.id : r \in ChansNamed(n)} = {ch.id}
  BY <1>2
<1>4. Min({ch.id}) = ch.id
  BY <1>1 DEF Min
<1>5. QED
  BY <1>1, <1>2, <1>3, <1>4 DEF getChanID

LEMMA NickIDOfName ==
  ASSUME BaseInv, NEW n, NEW r \in AccountsOf(n)
  PROVE  /\ r \in nicks
         /\ r.id \in 1..(nextRegID - 1)
         /\ getNickID(n) = r.id
<1>1. AccountsOf(n) = {r} /\ r \in nicks
  BY AccountOfNick
<1>2. r.id \in Int /\ r.id \in 1..(nextRegID - 1)
  BY <1>1, NickAssumption DEF BaseInv, TablesTypeOK, Nick, RowsAreOld
<1>3. {s.id : s \in AccountsOf(n)} = {r.id}
  BY <1>1
<1>4. Min({r.id}) = r.id
  BY <1>2 DEF Min
<1>5. QED
  BY <1>1, <1>2, <1>3, <1>4 DEF getNickID

(* An account that is found by its own nickname is that account.           *)
LEMMA NickIDOfAccount ==
  ASSUME BaseInv, NEW r \in nicks
  PROVE  getNickID(r.nickname) = r.id
<1>1. r \in AccountsOf(r.nickname)
  BY DEF AccountsOf, SqlEqual
<1>2. QED
  BY <1>1, NickIDOfName

(* What getAccess returns, if it is not 0, is a row of chanaccess.         *)
LEMMA AccessIsRow ==
  ASSUME ChanInv, NEW n, NEW nick, NEW l \in getAccess(n, nick)
  PROVE  \/ l = 0 /\ \A r \in chanaccess : ~(r.chanid = getChanID(n) /\ r.nickid = getNickID(nick))
         \/ l > 0 /\ \E r \in chanaccess : /\ r.chanid = getChanID(n)
                                          /\ r.nickid = getNickID(nick)
                                          /\ r.access = l
<1> DEFINE rows == {r \in chanaccess : r.chanid = getChanID(n) /\ r.nickid = getNickID(nick)}
<1>1. CASE rows = {}
  BY <1>1 DEF getAccess
<1>2. CASE rows # {}
  <2>1. PICK r \in rows : r.access = l
    BY <1>2 DEF getAccess
  <2>2. r.access > 0
    BY DEF ChanInv, RightsTypeOK, ChanAccess, Founder
  <2>3. QED
    BY <2>1, <2>2
<1>3. QED
  BY <1>1, <1>2

-----------------------------------------------------------------------------
(* The steps of Nick, as far as they change the accounts.                  *)
LEMMA AccountSteps ==
  ASSUME BaseInv, [NickNext]_vars
  PROVE  \/ nicks' \subseteq nicks /\ UNCHANGED nextRegID
         \/ /\ \E r \in nicks : \E b : /\ b.id = r.id /\ b.nickname = r.nickname
                                     /\ nicks' = (nicks \ {r}) \cup {b}
            /\ UNCHANGED nextRegID
         \/ \E b : /\ b.id = nextRegID
                   /\ nicks' = nicks \cup {b}
                   /\ nextRegID' = nextRegID + 1
<1>1. CASE \E c \in Client, n \in Name : handleClientSignon(c, n) \/ changeNick(c, n)
  BY <1>1 DEF handleClientSignon, changeNick, nickVars
<1>2. CASE \E c \in Client : signOff(c) \/ parseAUTH(c)
  BY <1>2 DEF signOff, parseAUTH, nickVars
<1>3. CASE startServices \/ checkpoint \/ \E c \in Client : parseSET_language(c)
  BY <1>3 DEF startServices, checkpoint, parseSET_language
<1>4. CASE \E i \in 1..Len(kills) : becomeDue(i)
  BY <1>4 DEF becomeDue
<1>5. CASE \E c \in Client, p \in Password : parseREGISTER(c, p)
  BY <1>5 DEF parseREGISTER
<1>6. CASE \E c \in Client, p \in Password \cup Email : parseIDENTIFY(c, p)
  BY <1>6 DEF parseIDENTIFY
<1>7. CASE \E c \in Client : parseSET(c)
  BY <1>7, SetEffect DEF parseSET
<1>8. CASE \E c \in Client, n \in Name : parseDELNICK(c, n) \/ parseUSER(c, n)
  BY <1>8 DEF parseDELNICK, parseUSER
<1>9. CASE \E c \in Client, n \in Name, p \in Password : parseSETPASS(c, n, p)
  BY <1>9, SetpassEffect DEF parseSETPASS
<1>10. CASE \E r \in nicks : grantAccess(r)
  BY <1>10 DEF grantAccess
<1>11. CASE UNCHANGED vars
  BY <1>11 DEF vars, nickVars
<1>12. QED
  BY <1>1, <1>2, <1>3, <1>4, <1>5, <1>6, <1>7, <1>8, <1>9, <1>10, <1>11 DEF NickNext

-----------------------------------------------------------------------------
(* What the operations do to the tables, in terms of one channel.          *)

(* A new channel, and the one row of its founder.                          *)
LEMMA RegisterEffect ==
  ASSUME ChanInv, PlainChannels, NEW n \in ChanName, NEW owner, NEW r \in AccountsOf(owner),
         ~isChanRegistered(n), registerChannel(n, owner)
  PROVE  /\ nextChanID \in 1..MaxChanID
         /\ nextChanID' = nextChanID + 1
         /\ \A d \in chans : ~SameChan(d.name, ChanIRCtoLower[n])
         /\ chans' = chans \cup {[id |-> nextChanID, name |-> ChanIRCtoLower[n],
                                  owner |-> owner]}
         /\ chanaccess' = chanaccess \cup
              {[chanid |-> nextChanID, nickid |-> r.id, access |-> Founder]}
<1> DEFINE ch == [id |-> nextChanID, name |-> ChanIRCtoLower[n], owner |-> owner]
<1>1. nextChanID \in 1..MaxChanID
  BY ChanAssumption DEF registerChannel, ChanInv, RightsTypeOK
<1>2. chans' = chans \cup {ch} /\ nextChanID' = nextChanID + 1
  BY DEF registerChannel
<1>3. SameChan(ch.name, n) /\ \A d \in chans : ~SameChan(d.name, n)
  BY ChanAssumption DEF isChanRegistered, ChansNamed, SameChan, PlainChannels
<1>4. \A d \in chans : ~SameChan(d.name, ChanIRCtoLower[n])
  BY <1>3 DEF SameChan
<1>5. (ChansNamed(n))' = {ch}
  BY <1>2, <1>3 DEF ChansNamed
<1>6. (getChanID(n))' = nextChanID
  <2>1. {d.id : d \in {ch}} = {nextChanID}
    OBVIOUS
  <2>2. Min({nextChanID}) = nextChanID
    BY <1>1 DEF Min
  <2> HIDE DEF ch
  <2>3. (getChanID(n))' = Min({d.id : d \in {ch}})
    BY <1>5 DEF getChanID
  <2>4. QED
    BY <2>1, <2>2, <2>3
<1>7. getNickID(owner) = r.id
  BY NickIDOfName DEF ChanInv
<1>8. QED
  BY <1>1, <1>2, <1>4, <1>6, <1>7 DEF registerChannel

(* The one channel of the name goes, with all its rows.                    *)
LEMMA DeregisterEffect ==
  ASSUME ChanInv, PlainChannels, NEW n \in ChanName, NEW ch \in ChansNamed(n),
         deregisterChannel(n)
  PROVE  /\ chans' = chans \ {ch}
         /\ chanaccess' = {r \in chanaccess : r.chanid # ch.id}
         /\ UNCHANGED nextChanID
<1>1. ChansNamed(n) = {ch} /\ getChanID(n) = ch.id
  BY ChannelOfName
<1>2. {d \in chans : SameChan(d.name, ChanIRCtoLower[n])} = {ch}
  BY <1>1, SameObject DEF ChansNamed, findChan
<1>3. QED
  BY <1>1, <1>2 DEF deregisterChannel

(* A new row for an account that has none on the channel, below the row of *)
(* an account that the sender has proved to own.                           *)
LEMMA AdduserEffect ==
  ASSUME ChanInv, PlainChannels, NEW c \in Client, NEW n \in ChanName,
         NEW nick \in Name, NEW level \in Level, parseADDUSER(c, n, nick, level)
  PROVE  \E ch \in chans, a \in trust[c], b \in nicks :
           /\ \E r \in chanaccess : r.chanid = ch.id /\ r.nickid = a /\ level < r.access
           /\ \A r \in chanaccess : ~(r.chanid = ch.id /\ r.nickid = b.id)
           /\ level \in 1..499
           /\ chanaccess' = chanaccess \cup
                {[chanid |-> ch.id, nickid |-> b.id, access |-> level]}
<1> DEFINE o == findChan(n)
<1>1. c \in Online /\ isChanRegistered(o) /\ AccountsOf(nick) # {}
  BY DEF parseADDUSER
<1>2. PICK ch \in ChansNamed(o) : TRUE
  BY <1>1 DEF isChanRegistered
<1>3. ch \in chans /\ getChanID(o) = ch.id
  BY <1>2, ChannelOfName
<1>4. PICK b \in AccountsOf(nick) : TRUE
  BY <1>1
<1>5. b \in nicks /\ getNickID(nick) = b.id
  BY <1>4, NickIDOfName DEF ChanInv
<1>6. PICK a \in FirstOf(UserOf(c)) :
        \E access1 \in getAccess(o, a.nickname) : MayAdd(level, access1)
  BY DEF parseADDUSER
<1>7. a \in nicks /\ a.id \in trust[c]
  <2>1. a \in nicks /\ a.id \in idas(UserOf(c))
    BY <1>6 DEF FirstOf, getIDList, idas
  <2>2. c \in Client
    OBVIOUS
  <2>3. QED
    BY <1>1, <2>1, <2>2 DEF trust
<1>8. getNickID(a.nickname) = a.id
  BY <1>7, NickIDOfAccount DEF ChanInv
<1>9. PICK access1 \in getAccess(o, a.nickname) : level \in 1..499 /\ level < access1
  BY <1>6 DEF MayAdd
<1>10. \E r \in chanaccess : r.chanid = ch.id /\ r.nickid = a.id /\ r.access = access1
  <2>1. access1 # 0
    BY <1>9
  <2>2. QED
    BY <1>3, <1>8, <1>9, <2>1, AccessIsRow
<1>11. \A r \in chanaccess : ~(r.chanid = ch.id /\ r.nickid = b.id)
  <2>1. PICK taccess \in getAccess(o, nick) : taccess <= 0
    BY DEF parseADDUSER
  <2>2. taccess = 0 \/ taccess \in 1..Founder
    BY AccessIsRow DEF ChanInv, RightsTypeOK, ChanAccess
  <2>3. taccess = 0 /\ \A r \in chanaccess : ~(r.chanid = getChanID(o) /\ r.nickid = getNickID(nick))
    BY <2>1, <2>2, AccessIsRow DEF Founder
  <2>4. QED
    BY <1>3, <1>5, <2>3
<1>12. chanaccess' = chanaccess \cup {[chanid |-> ch.id, nickid |-> b.id, access |-> level]}
  BY <1>3, <1>5 DEF parseADDUSER
<1>13. QED
  BY <1>3, <1>5, <1>7, <1>9, <1>10, <1>11, <1>12

(* The row of the old owner's account is replaced by one for the new one.  *)
LEMMA ModEffect ==
  ASSUME ChanInv, PlainChannels, NEW c \in Client, NEW n \in ChanName,
         NEW newowner \in Name, CHANmod(c, n, newowner)
  PROVE  \E ch \in chans, b \in nicks :
           /\ SqlEqual(b.nickname, newowner)
           /\ chans' = (chans \ {ch}) \cup {[ch EXCEPT !.owner = newowner]}
           /\ chanaccess' =
                {r \in chanaccess : ~(r.chanid = ch.id /\ r.nickid = getNickID(ch.owner))}
                  \cup {[chanid |-> ch.id, nickid |-> b.id, access |-> Founder]}
<1>1. PICK ch \in ChansNamed(n) : TRUE
  BY DEF CHANmod, isChanRegistered
<1>2. ChansNamed(n) = {ch} /\ ch \in chans /\ getChanID(n) = ch.id
  BY <1>1, ChannelOfName
<1>3. PICK b \in AccountsOf(newowner) : TRUE
  BY DEF CHANmod
<1>4. b \in nicks /\ getNickID(newowner) = b.id /\ SqlEqual(b.nickname, newowner)
  BY <1>3, NickIDOfName DEF ChanInv, AccountsOf
<1>5. (CHOOSE d \in chans : d.id = getChanID(n)) = ch
  <2>1. \A d \in chans : d.id = ch.id => d = ch
    BY <1>2 DEF ChanInv, OwnerIsFounder
  <2>2. QED
    BY <1>2, <2>1
<1>6. \A d \in chans : SameChan(d.name, n) <=> d = ch
  BY <1>2 DEF ChansNamed
<1>7. chans' = (chans \ {ch}) \cup {[ch EXCEPT !.owner = newowner]}
  BY <1>2, <1>6 DEF CHANmod
<1>8. QED
  BY <1>2, <1>4, <1>5, <1>7 DEF CHANmod

-----------------------------------------------------------------------------
(* ChanInv is inductive.                                                   *)
LEMMA ChanInvInit == ChanInit => ChanInv
<1> SUFFICES ASSUME ChanInit PROVE ChanInv
  OBVIOUS
<1>1. BaseInv
  BY NickInvInit, NickHasBase DEF ChanInit
<1>2. QED
  BY <1>1 DEF ChanInit, ChanInv, RightsTypeOK, RightsAreGrounded, OwnerIsFounder, ChanIDsAreOld

(* Accounts come and go: a new one has an ID that no row mentions.         *)
LEMMA NickStepInv ==
  ASSUME ChanInv, [NickNext]_vars,
         UNCHANGED <<chans, nextChanID, chanaccess>>,
         objects' \subseteq ChanName, freed' \subseteq objects'
  PROVE  ChanInv'
<1>1. BaseInv'
  BY BaseInvNext DEF ChanInv
<1>2. nextRegID \in Nat \ {0} /\ nextRegID' \in Nat \ {0}
  BY <1>1 DEF ChanInv, BaseInv, TablesTypeOK
<1>3. /\ nextRegID' >= nextRegID
      /\ \A a \in nicks' : \/ \E b \in nicks : b.id = a.id /\ b.nickname = a.nickname
                          \/ a.id = nextRegID
  BY <1>2, AccountSteps DEF ChanInv
<1>4. RightsTypeOK'
  BY DEF ChanInv, RightsTypeOK
<1>5. RightsAreGrounded'
  BY <1>2, <1>3 DEF ChanInv, RightsAreGrounded
<1>6. ASSUME NEW ch \in chans, NEW a \in nicks',
             [chanid |-> ch.id, nickid |-> a.id, access |-> Founder] \in chanaccess
      PROVE  SqlEqual(a.nickname, ch.owner)
  <2>1. a.id \in 1..(nextRegID - 1)
    BY <1>6 DEF ChanInv, RightsAreGrounded
  <2>2. PICK b \in nicks : b.id = a.id /\ b.nickname = a.nickname
    BY <1>2, <1>3, <2>1
  <2>3. QED
    BY <1>6, <2>2 DEF ChanInv, OwnerIsFounder
<1>7. OwnerIsFounder'
  BY <1>6 DEF ChanInv, OwnerIsFounder, SameChan, SqlEqual
<1>8. ChanIDsAreOld'
  BY DEF ChanInv, ChanIDsAreOld
<1>9. QED
  BY <1>1, <1>4, <1>5, <1>7, <1>8 DEF ChanInv

(* A channel that is registered: its ID was never used.                    *)
LEMMA RegisterChannelInv ==
  ASSUME ChanInv, PlainChannels, NEW n \in ChanName, NEW owner \in Name,
         AccountsOf(owner) # {}, ~isChanRegistered(n), registerChannel(n, owner),
         UNCHANGED <<vars, objects, freed>>
  PROVE  ChanInv'
<1>1. PICK r \in AccountsOf(owner) : TRUE
  OBVIOUS
<1> DEFINE ch == [id |-> nextChanID, name |-> ChanIRCtoLower[n], owner |-> owner]
           row == [chanid |-> nextChanID, nickid |-> r.id, access |-> Founder]
<1>2. /\ nextChanID \in 1..MaxChanID
      /\ nextChanID' = nextChanID + 1
      /\ \A d \in chans : ~SameChan(d.name, ch.name)
      /\ chans' = chans \cup {ch}
      /\ chanaccess' = chanaccess \cup {row}
  BY <1>1, RegisterEffect
<1>3. BaseInv' /\ nicks' = nicks /\ nextRegID' = nextRegID
  BY BaseInvNext DEF ChanInv, vars, nickVars
<1>4. r \in nicks /\ r.id \in 1..(nextRegID - 1) /\ SqlEqual(r.nickname, owner)
  BY <1>1, NickIDOfName DEF ChanInv, AccountsOf
<1>5. ch \in Chan /\ ch.id = nextChanID /\ ch.owner = owner
  BY <1>2, ChanAssumption DEF Chan
<1>6. row \in ChanAccess /\ row.chanid = nextChanID /\ row.nickid = r.id
  <2>1. nextRegID \in Nat /\ r.id \in Nat
    BY <1>4 DEF ChanInv, BaseInv, TablesTypeOK
  <2>2. QED
    BY <1>2, <2>1 DEF ChanAccess, Founder
<1>7. \A d \in chans : d.id \in Nat /\ d.id < nextChanID
  BY DEF ChanInv, RightsTypeOK, ChanIDsAreOld, Chan
<1> HIDE DEF ch, row
<1>8. RightsTypeOK'
  BY <1>2, <1>5, <1>6 DEF ChanInv, RightsTypeOK
<1>9. RightsAreGrounded'
  BY <1>2, <1>3, <1>4, <1>5, <1>6 DEF ChanInv, RightsAreGrounded
<1>10. \A d, e \in chans' : d.id = e.id \/ SameChan(d.name, e.name) => d = e
  BY <1>2, <1>5, <1>7 DEF ChanInv, OwnerIsFounder, SameChan
<1>11. ASSUME NEW d \in chans', NEW a \in nicks,
              [chanid |-> d.id, nickid |-> a.id, access |-> Founder] \in chanaccess'
       PROVE  SqlEqual(a.nickname, d.owner)
  <2>1. CASE [chanid |-> d.id, nickid |-> a.id, access |-> Founder] = row
    <3>1. d.id = nextChanID /\ a.id = r.id
      BY <2>1 DEF row
    <3>2. d = ch
      BY <1>2, <1>7, <3>1
    <3>3. a = r
      BY <1>4, <3>1 DEF ChanInv, BaseInv, OneAccountPerNick
    <3>4. QED
      BY <1>4, <1>5, <3>2, <3>3
  <2>2. CASE [chanid |-> d.id, nickid |-> a.id, access |-> Founder] \in chanaccess
    <3>1. d.id # nextChanID
      BY <1>7, <2>2 DEF ChanInv, RightsAreGrounded
    <3>2. d \in chans
      BY <1>2, <1>5, <3>1
    <3>3. QED
      BY <2>2, <3>2 DEF ChanInv, OwnerIsFounder
  <2>3. QED
    BY <1>2, <1>11, <2>1, <2>2
<1>12. OwnerIsFounder'
  BY <1>3, <1>10, <1>11 DEF OwnerIsFounder, SameChan, SqlEqual
<1>13. ChanIDsAreOld'
  BY <1>2, <1>5, <1>7 DEF ChanIDsAreOld
<1>14. QED
  BY <1>3, <1>8, <1>9, <1>12, <1>13 DEF ChanInv

(* Fewer channels, and no row for one that is gone.                        *)
LEMMA DeregisterChannelInv ==
  ASSUME ChanInv, PlainChannels, NEW n \in ChanName, isChanRegistered(n),
         deregisterChannel(n), UNCHANGED <<vars, objects, freed>>
  PROVE  ChanInv'
<1>1. PICK ch \in ChansNamed(n) : TRUE
  BY DEF isChanRegistered
<1>2. /\ chans' = chans \ {ch}
      /\ chanaccess' = {r \in chanaccess : r.chanid # ch.id}
      /\ UNCHANGED nextChanID
  BY <1>1, DeregisterEffect
<1>3. BaseInv' /\ nicks' = nicks /\ nextRegID' = nextRegID
  BY BaseInvNext DEF ChanInv, vars, nickVars
<1>4. RightsTypeOK'
  BY <1>2 DEF ChanInv, RightsTypeOK
<1>5. RightsAreGrounded'
  BY <1>2, <1>3 DEF ChanInv, RightsAreGrounded
<1>6. OwnerIsFounder'
  BY <1>2, <1>3 DEF ChanInv, OwnerIsFounder, SameChan, SqlEqual
<1>7. ChanIDsAreOld'
  BY <1>2 DEF ChanInv, ChanIDsAreOld
<1>8. QED
  BY <1>3, <1>4, <1>5, <1>6, <1>7 DEF ChanInv

LEMMA AdduserInv ==
  ASSUME ChanInv, PlainChannels, NEW c \in Client, NEW n \in ChanName,
         NEW nick \in Name, NEW level \in Level, parseADDUSER(c, n, nick, level)
  PROVE  ChanInv'
<1>1. PICK ch \in chans, b \in nicks :
        /\ level \in 1..499
        /\ chanaccess' = chanaccess \cup
             {[chanid |-> ch.id, nickid |-> b.id, access |-> level]}
  BY AdduserEffect
<1> DEFINE row == [chanid |-> ch.id, nickid |-> b.id, access |-> level]
<1>2. UNCHANGED <<vars, objects, freed, chans, nextChanID>>
  BY DEF parseADDUSER
<1>3. BaseInv' /\ nicks' = nicks /\ nextRegID' = nextRegID
  BY <1>2, BaseInvNext DEF ChanInv, vars, nickVars
<1>4. b.id \in Nat /\ b.id \in 1..(nextRegID - 1) /\ ch.id \in Nat
  BY NickIDOfAccount, NickAssumption, ChanAssumption
  DEF ChanInv, RightsTypeOK, Chan, BaseInv, TablesTypeOK, Nick, RowsAreOld
<1>5. row \in ChanAccess /\ row.access # Founder
  BY <1>1, <1>4 DEF ChanAccess, Founder
<1>6. row.chanid = ch.id /\ row.nickid = b.id
  OBVIOUS
<1>7. chanaccess' = chanaccess \cup {row}
  BY <1>1
<1> HIDE DEF row
<1>8. RightsTypeOK'
  BY <1>2, <1>5, <1>7 DEF ChanInv, RightsTypeOK
<1>9. RightsAreGrounded'
  BY <1>2, <1>3, <1>4, <1>6, <1>7 DEF ChanInv, RightsAreGrounded
<1>10. OwnerIsFounder'
  BY <1>2, <1>3, <1>5, <1>7 DEF ChanInv, OwnerIsFounder, SameChan, SqlEqual
<1>11. ChanIDsAreOld'
  BY <1>2 DEF ChanInv, ChanIDsAreOld
<1>12. QED
  BY <1>3, <1>8, <1>9, <1>10, <1>11 DEF ChanInv

(* The founder that was is no founder any more.                            *)
LEMMA ModInv ==
  ASSUME ChanInv, PlainChannels, NEW c \in Client, NEW n \in ChanName,
         NEW newowner \in Name, CHANmod(c, n, newowner)
  PROVE  ChanInv'
<1>1. PICK ch \in chans, b \in nicks :
        /\ SqlEqual(b.nickname, newowner)
        /\ chans' = (chans \ {ch}) \cup {[ch EXCEPT !.owner = newowner]}
        /\ chanaccess' =
             {r \in chanaccess : ~(r.chanid = ch.id /\ r.nickid = getNickID(ch.owner))}
               \cup {[chanid |-> ch.id, nickid |-> b.id, access |-> Founder]}
  BY ModEffect
<1> DEFINE dh == [ch EXCEPT !.owner = newowner]
           row == [chanid |-> ch.id, nickid |-> b.id, access |-> Founder]
<1>2. UNCHANGED <<vars, objects, freed, nextChanID>>
  BY DEF CHANmod
<1>3. BaseInv' /\ nicks' = nicks /\ nextRegID' = nextRegID
  BY <1>2, BaseInvNext DEF ChanInv, vars, nickVars
<1>4. b.id \in Nat /\ b.id \in 1..(nextRegID - 1) /\ ch.id \in Nat
  BY NickAssumption, ChanAssumption
  DEF ChanInv, RightsTypeOK, Chan, BaseInv, TablesTypeOK, Nick, RowsAreOld
<1>5. dh \in Chan /\ dh.id = ch.id /\ dh.name = ch.name /\ dh.owner = newowner
  BY DEF ChanInv, RightsTypeOK, Chan
<1>6. row \in ChanAccess /\ row.chanid = ch.id /\ row.nickid = b.id
  BY <1>4 DEF ChanAccess, Founder
<1>7. /\ chans' = (chans \ {ch}) \cup {dh}
      /\ chanaccess' =
           {r \in chanaccess : ~(r.chanid = ch.id /\ r.nickid = getNickID(ch.owner))}
             \cup {row}
  BY <1>1
<1> HIDE DEF dh
<1>8. RightsTypeOK'
  BY <1>2, <1>5, <1>6, <1>7 DEF ChanInv, RightsTypeOK
<1>9. RightsAreGrounded'
  BY <1>3, <1>4, <1>5, <1>6, <1>7 DEF ChanInv, RightsAreGrounded
<1>10. \A d, e \in chans' : d.id = e.id \/ SameChan(d.name, e.name) => d = e
  BY <1>5, <1>7 DEF ChanInv, OwnerIsFounder, SameChan
<1>11. ASSUME NEW d \in chans', NEW a \in nicks,
              [chanid |-> d.id, nickid |-> a.id, access |-> Founder] \in chanaccess'
       PROVE  SqlEqual(a.nickname, d.owner)
  <2> DEFINE other == [chanid |-> d.id, nickid |-> a.id, access |-> Founder]
  <2>1. CASE other = row
    <3>1. d.id = ch.id /\ a.id = b.id
      BY <2>1
    <3>2. d = dh
      BY <1>7, <3>1 DEF ChanInv, OwnerIsFounder
    <3>3. a = b
      BY <3>1 DEF ChanInv, BaseInv, OneAccountPerNick
    <3>4. QED
      BY <1>1, <1>5, <3>2, <3>3
  <2>2. CASE other \in chanaccess /\ ~(d.id = ch.id /\ a.id = getNickID(ch.owner))
    <3>1. CASE d = dh
      <4>1. SqlEqual(a.nickname, ch.owner)
        BY <1>5, <2>2, <3>1 DEF ChanInv, OwnerIsFounder
      <4>2. a \in AccountsOf(ch.owner)
        BY <4>1 DEF AccountsOf
      <4>3. getNickID(ch.owner) = a.id
        BY <4>2, NickIDOfName DEF ChanInv
      <4>4. QED
        BY <1>5, <2>2, <3>1, <4>3
    <3>2. CASE d \in chans
      BY <2>2, <3>2 DEF ChanInv, OwnerIsFounder
    <3>3. QED
      BY <1>7, <3>1, <3>2
  <2>3. QED
    BY <1>7, <1>11, <2>1, <2>2
<1>12. OwnerIsFounder'
  BY <1>3, <1>10, <1>11 DEF OwnerIsFounder, SameChan, SqlEqual
<1>13. ChanIDsAreOld'
  BY <1>2, <1>5, <1>7 DEF ChanInv, ChanIDsAreOld
<1>14. QED
  BY <1>3, <1>8, <1>9, <1>12, <1>13 DEF ChanInv

(* The services call registerChannel for a nickname with an account.       *)
LEMMA Registrant ==
  ASSUME ChanInv, PlainChannels, NEW c \in Client, NEW n \in ChanName,
         parseREGISTER_Chan(c, n)
  PROVE  /\ c \in Online
         /\ UserOf(c).nickname \in Name
         /\ AccountsOf(UserOf(c).nickname) # {}
         /\ ~isChanRegistered(n)
         /\ registerChannel(n, UserOf(c).nickname)
         /\ UNCHANGED <<vars, objects, freed>>
<1>1. c \in Online /\ UserOf(c) \in User
  BY Sender DEF parseREGISTER_Chan, ChanInv
<1>2. ~isChanRegistered(n)
  BY SameObject DEF parseREGISTER_Chan, isChanRegistered
<1>3. QED
  BY <1>1, <1>2 DEF parseREGISTER_Chan, isRegistered, User

LEMMA ChanInvNext ==
  ASSUME ChanInv, PlainChannels, [ChanNext]_allVars
  PROVE  ChanInv'
<1>1. objects \subseteq ChanName /\ freed \subseteq objects
  BY DEF ChanInv, RightsTypeOK
<1>2. CASE nickStep
  BY <1>1, <1>2, NickStepInv DEF nickStep, chanTables
<1>3. CASE \E n \in ChanName : addChan(n) \/ delChan(n)
  <2>1. UNCHANGED <<vars, chans, nextChanID, chanaccess>>
    BY <1>3 DEF addChan, delChan, chanTables
  <2>2. objects' \subseteq ChanName /\ freed' \subseteq objects'
    BY <1>1, <1>3 DEF addChan, delChan
  <2>3. QED
    BY <2>1, <2>2, NickStepInv
<1>4. CASE \E c \in Client, n \in ChanName : parseREGISTER_Chan(c, n)
  BY <1>4, Registrant, RegisterChannelInv
<1>5. CASE \E c \in Client, n \in ChanName, nick \in Name, level \in Level :
             parseADDUSER(c, n, nick, level)
  BY <1>5, AdduserInv
<1>6. CASE \E c \in Client, n \in ChanName : parseSET_Chan(c, n)
  <2>1. UNCHANGED <<vars, chans, nextChanID, chanaccess>>
    BY <1>6 DEF parseSET_Chan, chanTables
  <2>2. objects' \subseteq ChanName /\ freed' \subseteq objects'
    BY <1>1, <1>6 DEF parseSET_Chan, Found
  <2>3. QED
    BY <2>1, <2>2, NickStepInv
<1>7. ASSUME NEW n \in ChanName, isChanRegistered(n) \/ isChanRegistered(findChan(n)),
             deregisterChannel(n), UNCHANGED <<vars, objects, freed>>
      PROVE  ChanInv'
  BY <1>7, SameObject, DeregisterChannelInv DEF isChanRegistered
<1>8. CASE \E c \in Client, n \in ChanName : parseDROP(c, n)
  BY <1>7, <1>8 DEF parseDROP
<1>9. CASE \E c \in Client, n \in ChanName : parseCHAN(c, n)
  <2>1. PICK c \in Client, n \in ChanName : parseCHAN(c, n)
    BY <1>9
  <2>2. CASE \E nick \in Name : CHANmod(c, n, nick)
    BY <2>2, ModInv
  <2>3. CASE \E nick \in Name : CHANadd(c, n, nick)
    BY <2>3, RegisterChannelInv DEF CHANadd
  <2>4. CASE CHANdel(c, n)
    BY <1>7, <2>4 DEF CHANdel
  <2>5. QED
    BY <2>1, <2>2, <2>3, <2>4 DEF parseCHAN
<1>10. CASE \/ \E c \in Client, n \in ChanName : FREEZEadd(c, n) \/ FREEZEdel(c, n)
            \/ \E f \in chanfreeze : freezeExpires(f)
            \/ UNCHANGED allVars
  <2>1. UNCHANGED <<vars, objects, freed, chans, nextChanID, chanaccess>>
    BY <1>10 DEF FREEZEadd, FREEZEdel, freezeExpires, allVars, chanVars, chanTables
  <2>2. QED
    BY <1>1, <2>1, NickStepInv
<1>11. QED
  BY <1>2, <1>3, <1>4, <1>5, <1>6, <1>8, <1>9, <1>10 DEF ChanNext

-----------------------------------------------------------------------------
(* Refinement.                                                             *)

(* The commands of this module leave accounts and the trust in clients.    *)
LEMMA OthersSame ==
  ASSUME UNCHANGED vars
  PROVE  UNCHANGED Rights!othersVars
<1>1. UNCHANGED onlineVars /\ UNCHANGED <<nicks, nicksidentified, access>>
  BY DEF vars, nickVars
<1>2. trust' = trust
  BY <1>1, SameRegistry, SameTrust
<1>3. QED
  BY <1>1, <1>2 DEF Rights!othersVars

LEMMA RightsOfInit == ChanInit => Rights!RightsInit
  BY AccountsOfInit DEF ChanInit, NickInit, Rights!RightsInit, Abstract!AccountsInit

LEMMA ElsewhereStep ==
  ASSUME ChanInv, NickNext, UNCHANGED <<chans, chanaccess>>
  PROVE  Rights!Elsewhere
<1>1. \A a \in nicks' : (\E b \in nicks : b.id = a.id) \/ a.id = nextRegID
  BY AccountSteps DEF ChanInv
<1>2. \A r \in chanaccess : r.nickid # nextRegID
  BY DEF ChanInv, RightsAreGrounded, BaseInv, TablesTypeOK
<1>3. QED
  BY <1>1, <1>2 DEF Rights!Elsewhere

LEMMA RegisterRights ==
  ASSUME ChanInv, PlainChannels, NEW c \in Client, NEW n \in ChanName,
         parseREGISTER_Chan(c, n)
  PROVE  \E a \in trust[c], ch \in {d.id : d \in chans'} : Rights!Register(c, a, ch)
<1>1. /\ c \in Online
      /\ isIdentified(UserOf(c))
      /\ ~isChanRegistered(n)
      /\ registerChannel(n, UserOf(c).nickname)
      /\ UNCHANGED vars
  BY Registrant DEF parseREGISTER_Chan
<1>2. PICK r \in AccountsOf(UserOf(c).nickname) : r.id \in trust[c]
  BY <1>1, IdentifiedOwns DEF ChanInv
<1> DEFINE ch == [id |-> nextChanID, name |-> ChanIRCtoLower[n], owner |-> UserOf(c).nickname]
<1>3. /\ chans' = chans \cup {ch}
      /\ chanaccess' = chanaccess \cup
           {[chanid |-> nextChanID, nickid |-> r.id, access |-> Founder]}
  BY <1>1, RegisterEffect
<1>4. ch.id = nextChanID
  OBVIOUS
<1> HIDE DEF ch
<1>5. {d.id : d \in chans'} = {d.id : d \in chans} \cup {nextChanID}
  BY <1>3, <1>4
<1>6. \A d \in chans : d.id # nextChanID
  BY DEF ChanInv, RightsTypeOK, ChanIDsAreOld, Chan
<1>7. Rights!RightsOn(nextChanID) = {}
  BY <1>6 DEF Rights!RightsOn, ChanInv, RightsAreGrounded
<1>8. UNCHANGED Rights!othersVars
  BY <1>1, OthersSame
<1>9. PICK i : i = nextChanID
  OBVIOUS
<1>10. Rights!Register(c, r.id, i)
  BY <1>2, <1>3, <1>5, <1>6, <1>7, <1>8, <1>9 DEF Rights!Register
<1>11. QED
  BY <1>2, <1>5, <1>9, <1>10

LEMMA GrantRights ==
  ASSUME ChanInv, PlainChannels, NEW c \in Client, NEW n \in ChanName,
         NEW nick \in Name, NEW level \in Level, parseADDUSER(c, n, nick, level)
  PROVE  \E ch \in {d.id : d \in chans}, a \in trust[c], r \in chanaccess' :
           Rights!Grant(c, a, ch, r.nickid, r.access)
<1>1. PICK ch \in chans, a \in trust[c], b \in nicks :
        /\ \E r \in chanaccess : r.chanid = ch.id /\ r.nickid = a /\ level < r.access
        /\ \A r \in chanaccess : ~(r.chanid = ch.id /\ r.nickid = b.id)
        /\ chanaccess' = chanaccess \cup
             {[chanid |-> ch.id, nickid |-> b.id, access |-> level]}
  BY AdduserEffect
<1>2. UNCHANGED Rights!othersVars /\ chans' = chans
  BY OthersSame DEF parseADDUSER
<1>3. Rights!Grant(c, a, ch.id, b.id, level)
  BY <1>1, <1>2 DEF Rights!Grant, Rights!RightsOf, Rights!RightsOn
<1> DEFINE row == [chanid |-> ch.id, nickid |-> b.id, access |-> level]
<1>4. row \in chanaccess' /\ row.nickid = b.id /\ row.access = level
  BY <1>1
<1>5. ch.id \in {d.id : d \in chans}
  OBVIOUS
<1>6. QED
  BY <1>1, <1>3, <1>4, <1>5

(* What is left of the IDs when a channel goes: they differ.               *)
LEMMA IDsWithout ==
  ASSUME ChanInv, NEW ch \in chans, chans' = chans \ {ch}
  PROVE  {d.id : d \in chans'} = {d.id : d \in chans} \ {ch.id}
BY DEF ChanInv, OwnerIsFounder

LEMMA DropRights ==
  ASSUME ChanInv, PlainChannels, NEW c \in Client, NEW n \in ChanName,
         parseDROP(c, n)
  PROVE  \E ch \in {d.id : d \in chans} : Rights!Drop(c, ch)
<1>1. PICK ch \in ChansNamed(n) : TRUE
  BY SameObject DEF parseDROP, isChanRegistered
<1>2. ch \in chans /\ getChanID(findChan(n)) = ch.id
  BY <1>1, ChannelOfName, SameObject
<1>3. /\ chans' = chans \ {ch}
      /\ chanaccess' = {r \in chanaccess : r.chanid # ch.id}
  BY <1>1, DeregisterEffect DEF parseDROP
<1>4. \E r \in chanaccess : r.chanid = ch.id /\ r.access = Founder
  <2>1. Founder \in getAccess(findChan(n), UserOf(c).nickname) /\ Founder # 0
    BY DEF parseDROP, Founder
  <2>2. QED
    BY <1>2, <2>1, AccessIsRow
<1>5. trust[c] # {}
  BY DEF parseDROP, trust
<1>6. UNCHANGED Rights!othersVars
  BY OthersSame DEF parseDROP
<1>7. {d.id : d \in chans'} = {d.id : d \in chans} \ {ch.id}
  BY <1>2, <1>3, IDsWithout
<1>8. Rights!Drop(c, ch.id)
  BY <1>2, <1>3, <1>4, <1>5, <1>6, <1>7 DEF Rights!Drop, Rights!RightsOn
<1>9. QED
  BY <1>2, <1>8

(* The three commands of Serv act on one channel, and the sender is staff. *)
LEMMA StaffRights ==
  ASSUME ChanInv, PlainChannels, NEW c \in Client, NEW n \in ChanName,
         parseCHAN(c, n)
  PROVE  \E ch \in {d.id : d \in chans} \cup {d.id : d \in chans'} : Rights!ActAsStaff(c, ch)
<1>1. servAllows(c) /\ UNCHANGED vars
  BY DEF parseCHAN, CHANmod, CHANadd, CHANdel
<1>2. trust[c] \cap access # {}
  BY <1>1, IdentifiedOwns, RegisteredNickID DEF servAllows, ChanInv
<1>3. UNCHANGED Rights!othersVars
  BY <1>1, OthersSame
<1>4. \A r \in chanaccess : \E d \in chans : d.id = r.chanid
  BY DEF ChanInv, RightsAreGrounded
<1>5. CASE \E nick \in Name : CHANmod(c, n, nick)
  <2>1. PICK nick \in Name : CHANmod(c, n, nick)
    BY <1>5
  <2>2. PICK ch \in chans, b \in nicks :
          /\ chans' = (chans \ {ch}) \cup {[ch EXCEPT !.owner = nick]}
          /\ chanaccess' =
               {r \in chanaccess : ~(r.chanid = ch.id /\ r.nickid = getNickID(ch.owner))}
                 \cup {[chanid |-> ch.id, nickid |-> b.id, access |-> Founder]}
    BY <2>1, ModEffect
  <2>3. [ch EXCEPT !.owner = nick].id = ch.id
    BY DEF ChanInv, RightsTypeOK, Chan
  <2>4. {d.id : d \in chans'} = {d.id : d \in chans}
    BY <2>2, <2>3
  <2>5. {r \in chanaccess' : r.chanid # ch.id} = {r \in chanaccess : r.chanid # ch.id}
    BY <2>2
  <2>6. Rights!ActAsStaff(c, ch.id)
    BY <1>2, <1>3, <2>4, <2>5 DEF Rights!ActAsStaff, Rights!RightsOn
  <2>7. QED
    BY <2>6
<1>6. CASE \E nick \in Name : CHANadd(c, n, nick)
  <2>1. PICK nick \in Name : CHANadd(c, n, nick)
    BY <1>6
  <2>2. PICK r \in AccountsOf(nick) : TRUE
    BY <2>1 DEF CHANadd
  <2> DEFINE ch == [id |-> nextChanID, name |-> ChanIRCtoLower[n], owner |-> nick]
  <2>3. /\ chans' = chans \cup {ch}
        /\ chanaccess' = chanaccess \cup
             {[chanid |-> nextChanID, nickid |-> r.id, access |-> Founder]}
    BY <2>1, <2>2, RegisterEffect DEF CHANadd
  <2>4. ch.id = nextChanID
    OBVIOUS
  <2> HIDE DEF ch
  <2>5. {d.id : d \in chans'} = {d.id : d \in chans} \cup {nextChanID}
    BY <2>3, <2>4
  <2>6. \A d \in chans : d.id # nextChanID
    BY DEF ChanInv, RightsTypeOK, ChanIDsAreOld, Chan
  <2>7. {s \in chanaccess' : s.chanid # nextChanID} = {s \in chanaccess : s.chanid # nextChanID}
    BY <2>3
  <2>8. PICK i : i = nextChanID
    OBVIOUS
  <2>9. Rights!ActAsStaff(c, i)
    BY <1>2, <1>3, <2>5, <2>6, <2>7, <2>8 DEF Rights!ActAsStaff, Rights!RightsOn
  <2>10. i \in {d.id : d \in chans'}
    BY <2>5, <2>8
  <2>11. QED
    BY <2>9, <2>10
<1>7. CASE CHANdel(c, n)
  <2>1. PICK ch \in ChansNamed(n) : TRUE
    BY <1>7 DEF CHANdel, isChanRegistered
  <2>2. ch \in chans
    BY <2>1 DEF ChansNamed
  <2>3. /\ chans' = chans \ {ch}
        /\ chanaccess' = {r \in chanaccess : r.chanid # ch.id}
    BY <1>7, <2>1, DeregisterEffect DEF CHANdel
  <2>4. {d.id : d \in chans'} = {d.id : d \in chans} \ {ch.id}
    BY <2>2, <2>3, IDsWithout
  <2>5. Rights!ActAsStaff(c, ch.id)
    BY <1>2, <1>3, <2>3, <2>4 DEF Rights!ActAsStaff, Rights!RightsOn
  <2>6. QED
    BY <2>2, <2>5
<1>8. QED
  BY <1>5, <1>6, <1>7 DEF parseCHAN

LEMMA RightsOfNext ==
  ASSUME ChanInv, PlainChannels, [ChanNext]_allVars
  PROVE  [Rights!RightsNext]_(Rights!rightsVars)
<1> USE DEF Rights!RightsNext
<1>1. CASE nickStep
  BY <1>1, ElsewhereStep DEF nickStep, chanTables
<1>2. CASE \E c \in Client, n \in ChanName : parseREGISTER_Chan(c, n)
  BY <1>2, RegisterRights
<1>3. CASE \E c \in Client, n \in ChanName, nick \in Name, level \in Level :
             parseADDUSER(c, n, nick, level)
  BY <1>3, GrantRights
<1>4. CASE \E c \in Client, n \in ChanName : parseDROP(c, n)
  BY <1>4, DropRights
<1>5. CASE \E c \in Client, n \in ChanName : parseCHAN(c, n)
  BY <1>5, StaffRights
<1>6. CASE \/ \E n \in ChanName : addChan(n) \/ delChan(n)
           \/ \E c \in Client, n \in ChanName :
                parseSET_Chan(c, n) \/ FREEZEadd(c, n) \/ FREEZEdel(c, n)
           \/ \E f \in chanfreeze : freezeExpires(f)
           \/ UNCHANGED allVars
  <2>1. UNCHANGED <<vars, chans, chanaccess>>
    BY <1>6 DEF addChan, delChan, parseSET_Chan, FREEZEadd, FREEZEdel, freezeExpires,
                allVars, chanVars, chanTables
  <2>2. QED
    BY <2>1, OthersSame DEF Rights!rightsVars, Rights!othersVars
<1>7. QED
  BY <1>1, <1>2, <1>3, <1>4, <1>5, <1>6 DEF ChanNext

(* Rights on a channel come from its registration, from somebody who has   *)
(* proved to hold a higher right on it, or from staff, and a registration  *)
(* starts without any: the Chan service and Serv's CHAN implement the      *)
(* specification of rights.                                                *)
THEOREM ChanServImplementsRights ==
  PlainChannels /\ ChanSpec => ImplementsRights
<1> SUFFICES ASSUME PlainChannels PROVE ChanSpec => ImplementsRights
  OBVIOUS
<1>1. ChanInit => ChanInv /\ Rights!RightsInit
  BY ChanInvInit, RightsOfInit
<1>2. ChanInv /\ [ChanNext]_allVars => ChanInv'
  BY ChanInvNext
<1>3. ChanInv /\ [ChanNext]_allVars => [Rights!RightsNext]_(Rights!rightsVars)
  BY RightsOfNext
<1>4. QED
  BY <1>1, <1>2, <1>3, PTL DEF ChanSpec, ImplementsRights, Rights!RightsSpec

(* Nobody but the owner of a channel has the level of its founder.         *)
THEOREM FounderIsOwner == PlainChannels /\ ChanSpec => []OwnerIsFounder
<1> SUFFICES ASSUME PlainChannels PROVE ChanSpec => []OwnerIsFounder
  OBVIOUS
<1>1. ChanInit => ChanInv
  BY ChanInvInit
<1>2. ChanInv /\ [ChanNext]_allVars => ChanInv'
  BY ChanInvNext
<1>3. ChanInv => OwnerIsFounder
  BY DEF ChanInv
<1>4. QED
  BY <1>1, <1>2, <1>3, PTL DEF ChanSpec

(* No level outlives the registration of its channel, and none is for a    *)
(* nickname or a channel that is not registered.                           *)
THEOREM LevelsAreGrounded == PlainChannels /\ ChanSpec => []RightsAreGrounded
<1> SUFFICES ASSUME PlainChannels PROVE ChanSpec => []RightsAreGrounded
  OBVIOUS
<1>1. ChanInit => ChanInv
  BY ChanInvInit
<1>2. ChanInv /\ [ChanNext]_allVars => ChanInv'
  BY ChanInvNext
<1>3. ChanInv => RightsAreGrounded
  BY DEF ChanInv
<1>4. QED
  BY <1>1, <1>2, <1>3, PTL DEF ChanSpec

-----------------------------------------------------------------------------
(* What the service of channels adds does nothing to the accounts, nor to  *)
(* the registry.                                                           *)
LEMMA NickSteps == ASSUME [ChanNext]_allVars PROVE [NickNext]_vars
<1>1. CASE nickStep
  BY <1>1 DEF nickStep
<1>2. CASE \E n \in ChanName : addChan(n) \/ delChan(n)
  BY <1>2 DEF addChan, delChan
<1>3. CASE \E c \in Client, n \in ChanName :
             parseREGISTER_Chan(c, n) \/ parseSET_Chan(c, n) \/ parseDROP(c, n)
  BY <1>3 DEF parseREGISTER_Chan, parseSET_Chan, parseDROP
<1>4. CASE \E c \in Client, n \in ChanName, nick \in Name, level \in Level :
             parseADDUSER(c, n, nick, level)
  BY <1>4 DEF parseADDUSER
<1>5. CASE \E c \in Client, n \in ChanName : parseCHAN(c, n)
  BY <1>5 DEF parseCHAN, CHANmod, CHANadd, CHANdel
<1>6. CASE \E c \in Client, n \in ChanName : FREEZEadd(c, n) \/ FREEZEdel(c, n)
  BY <1>6 DEF FREEZEadd, FREEZEdel
<1>7. CASE \E f \in chanfreeze : freezeExpires(f)
  BY <1>7 DEF freezeExpires
<1>8. CASE UNCHANGED allVars
  BY <1>8 DEF allVars
<1>9. QED
  BY <1>1, <1>2, <1>3, <1>4, <1>5, <1>6, <1>7, <1>8 DEF ChanNext

-----------------------------------------------------------------------------
(* The types, freezes included.                                            *)

(* FREEZE ADD counts the rows of the channel, so there are finitely many.  *)
FreezesInv == IsFiniteSet(chanfreeze) /\ chanfreeze \subseteq Freeze

(* A name is looked up as the ID of a row or as 0: of a channel, also when *)
(* several rows match, and of an account.                                  *)
LEMMA ChanIDIsNumber ==
  ASSUME RightsTypeOK, NEW n
  PROVE  getChanID(n) \in Nat
<1> DEFINE ids == {r.id : r \in ChansNamed(n)}
<1>1. ids \in SUBSET Nat
  BY ChanAssumption DEF RightsTypeOK, Chan, ChansNamed
<1>2. ChansNamed(n) # {} => ids # {}
  OBVIOUS
<1> HIDE DEF ids
<1>3. ChansNamed(n) # {} => Min(ids) \in Nat
  BY <1>1, <1>2, LeastElement
<1>4. QED
  BY <1>3 DEF getChanID, ids

LEMMA NickIDIsNumber ==
  ASSUME BaseInv, NEW n, AccountsOf(n) # {}
  PROVE  getNickID(n) \in Nat
<1>1. PICK r \in AccountsOf(n) : TRUE
  OBVIOUS
<1>2. r \in nicks /\ getNickID(n) = r.id
  BY NickIDOfName
<1>3. QED
  BY <1>2, NickAssumption DEF BaseInv, TablesTypeOK, Nick

(* The tables are well formed, whatever the names of channels.             *)
LEMMA RightsTypeNext ==
  ASSUME BaseInv, RightsTypeOK, [ChanNext]_allVars
  PROVE  RightsTypeOK'
<1>1. ASSUME UNCHANGED <<chans, nextChanID, chanaccess>>,
             objects' \subseteq ChanName, freed' \subseteq objects'
      PROVE  RightsTypeOK'
  BY <1>1 DEF RightsTypeOK
<1>2. objects \subseteq ChanName /\ freed \subseteq objects
  BY DEF RightsTypeOK
<1>3. ASSUME NEW n \in ChanName, NEW owner \in Name, AccountsOf(owner) # {},
             registerChannel(n, owner), UNCHANGED <<objects, freed>>
      PROVE  RightsTypeOK'
  <2> DEFINE ch == [id |-> nextChanID, name |-> ChanIRCtoLower[n], owner |-> owner]
             row == [chanid |-> (getChanID(n))', nickid |-> getNickID(owner), access |-> Founder]
  <2>1. /\ nextChanID <= MaxChanID
        /\ chans' = chans \cup {ch}
        /\ nextChanID' = nextChanID + 1
        /\ chanaccess' = chanaccess \cup {row}
    BY <1>3 DEF registerChannel
  <2>2. nextChanID \in Nat \ {0} /\ MaxChanID \in Nat
    BY ChanAssumption DEF RightsTypeOK
  <2>3. ch \in Chan
    BY <2>1, <2>2, ChanAssumption DEF Chan
  <2> HIDE DEF ch
  <2>4. chans' \subseteq Chan
    BY <2>1, <2>3 DEF RightsTypeOK
  <2>5. (getChanID(n))' \in Nat
    <3> DEFINE hits == ChansNamed(n)'
               ids == {r.id : r \in hits}
    <3>1. hits \subseteq chans'
      BY DEF ChansNamed
    <3>2. ids \in SUBSET Nat
      BY <2>4, <3>1, ChanAssumption DEF Chan
    <3>3. hits # {} => ids # {}
      OBVIOUS
    <3>4. (getChanID(n))' = IF hits = {} THEN 0 ELSE Min(ids)
      BY DEF getChanID
    <3> HIDE DEF hits, ids
    <3>5. hits # {} => Min(ids) \in Nat
      BY <3>2, <3>3, LeastElement
    <3>6. QED
      BY <3>4, <3>5
  <2>6. row \in ChanAccess
    BY <1>3, <2>5, NickIDIsNumber DEF ChanAccess, Founder
  <2> HIDE DEF row
  <2>7. QED
    BY <1>3, <2>1, <2>2, <2>4, <2>6 DEF RightsTypeOK
<1>4. CASE nickStep
  BY <1>1, <1>2, <1>4 DEF nickStep, chanTables
<1>5. CASE \/ \E n \in ChanName : addChan(n) \/ delChan(n)
           \/ \E c \in Client, n \in ChanName : parseSET_Chan(c, n)
  <2>1. UNCHANGED <<chans, nextChanID, chanaccess>>
    BY <1>5 DEF addChan, delChan, parseSET_Chan, chanTables
  <2>2. objects' \subseteq ChanName /\ freed' \subseteq objects'
    BY <1>2, <1>5 DEF addChan, delChan, parseSET_Chan, Found
  <2>3. QED
    BY <1>1, <2>1, <2>2
<1>6. CASE \E c \in Client, n \in ChanName : parseREGISTER_Chan(c, n)
  <2>1. PICK c \in Client, n \in ChanName : parseREGISTER_Chan(c, n)
    BY <1>6
  <2>2. /\ c \in Online
        /\ AccountsOf(UserOf(c).nickname) # {}
        /\ registerChannel(n, UserOf(c).nickname)
        /\ UNCHANGED <<objects, freed>>
    BY <2>1 DEF parseREGISTER_Chan, isRegistered
  <2>3. UserOf(c).nickname \in Name
    BY <2>2, Sender DEF User
  <2>4. QED
    BY <1>3, <2>2, <2>3
<1>7. CASE \E c \in Client, n \in ChanName, nick \in Name, level \in Level :
             parseADDUSER(c, n, nick, level)
  <2>1. PICK c \in Client, n \in ChanName, nick \in Name, level \in Level :
               parseADDUSER(c, n, nick, level)
    BY <1>7
  <2> DEFINE row == [chanid |-> getChanID(findChan(n)), nickid |-> getNickID(nick),
                     access |-> level]
  <2>2. /\ chanaccess' = chanaccess \cup {row}
        /\ AccountsOf(nick) # {}
        /\ UNCHANGED <<objects, freed, chans, nextChanID>>
    BY <2>1 DEF parseADDUSER
  <2>3. level \in 1..499
    BY <2>1 DEF parseADDUSER, MayAdd
  <2>4. level \in 1..500
    BY <2>3
  <2>5. row \in ChanAccess
    BY <2>2, <2>4, ChanIDIsNumber, NickIDIsNumber DEF ChanAccess, Founder
  <2> HIDE DEF row
  <2>6. QED
    BY <2>2, <2>5 DEF RightsTypeOK
<1>8. ASSUME NEW n, deregisterChannel(n), UNCHANGED <<objects, freed>> PROVE RightsTypeOK'
  BY <1>8 DEF deregisterChannel, RightsTypeOK
<1>9. CASE \E c \in Client, n \in ChanName : parseDROP(c, n)
  BY <1>8, <1>9 DEF parseDROP
<1>10. CASE \E c \in Client, n \in ChanName : parseCHAN(c, n)
  <2>1. PICK c \in Client, n \in ChanName : parseCHAN(c, n)
    BY <1>10
  <2>2. CASE CHANdel(c, n)
    BY <1>8, <2>2 DEF CHANdel
  <2>3. CASE \E nick \in Name : CHANadd(c, n, nick)
    BY <1>3, <2>3 DEF CHANadd
  <2>4. ASSUME NEW nick \in Name, CHANmod(c, n, nick) PROVE RightsTypeOK'
    <3> DEFINE row == [chanid |-> getChanID(n), nickid |-> getNickID(nick), access |-> Founder]
    <3>1. /\ AccountsOf(nick) # {}
          /\ chanaccess' \subseteq chanaccess \cup {row}
          /\ chans' = {IF SameChan(r.name, n) THEN [r EXCEPT !.owner = nick] ELSE r : r \in chans}
          /\ UNCHANGED <<objects, freed, nextChanID>>
      BY <2>4 DEF CHANmod
    <3>2. row \in ChanAccess
      BY <3>1, ChanIDIsNumber, NickIDIsNumber DEF ChanAccess, Founder
    <3>3. \A r \in Chan : [r EXCEPT !.owner = nick] \in Chan
      BY DEF Chan
    <3>4. chans' \subseteq Chan
      BY <3>1, <3>3 DEF RightsTypeOK
    <3> HIDE DEF row
    <3>5. QED
      BY <3>1, <3>2, <3>4 DEF RightsTypeOK
  <2>5. QED
    BY <2>1, <2>2, <2>3, <2>4 DEF parseCHAN
<1>11. CASE \/ \E c \in Client, n \in ChanName : FREEZEadd(c, n) \/ FREEZEdel(c, n)
            \/ \E f \in chanfreeze : freezeExpires(f)
            \/ UNCHANGED allVars
  <2>1. UNCHANGED <<objects, freed, chans, nextChanID, chanaccess>>
    BY <1>11 DEF FREEZEadd, FREEZEdel, freezeExpires, allVars, chanVars, chanTables
  <2>2. QED
    BY <2>1 DEF RightsTypeOK
<1>12. QED
  BY <1>4, <1>5, <1>6, <1>7, <1>9, <1>10, <1>11 DEF ChanNext

(* Rows that are rewritten in place are as many as before.                 *)
LEMMA RewrittenFreezes ==
  ASSUME FreezesInv, NEW R, chanfreeze' = {IF f \in R THEN [f EXCEPT !.expired = TRUE] ELSE f
                                           : f \in chanfreeze}
  PROVE  FreezesInv'
<1> DEFINE F == [f \in chanfreeze |-> IF f \in R THEN [f EXCEPT !.expired = TRUE] ELSE f]
<1>1. \A f \in chanfreeze : F[f] \in Freeze
  BY DEF FreezesInv, Freeze
<1>2. chanfreeze' = {F[f] : f \in chanfreeze}
  OBVIOUS
<1>3. F \in Surjection(chanfreeze, chanfreeze')
  <2>1. F \in [chanfreeze -> chanfreeze'] /\ \A g \in chanfreeze' : \E f \in chanfreeze : F[f] = g
    BY <1>2
  <2>2. QED
    BY <2>1 DEF Surjection
<1> HIDE DEF F
<1>4. IsFiniteSet(chanfreeze')
  BY <1>3, FS_Surjection DEF FreezesInv
<1>5. QED
  BY <1>1, <1>2, <1>4 DEF FreezesInv

LEMMA FreezesInvNext ==
  ASSUME RightsTypeOK, FreezesInv, [ChanNext]_allVars
  PROVE  FreezesInv'
<1>1. ASSUME UNCHANGED chanfreeze PROVE FreezesInv'
  BY <1>1 DEF FreezesInv
<1>2. ASSUME NEW c \in Client, NEW n \in ChanName, FREEZEadd(c, n) PROVE FreezesInv'
  <2> DEFINE id == getChanID(ChanIRCtoLower[n])
             rows == {f \in chanfreeze : f.chan = id}
  <2>1. chanfreeze' = chanfreeze \cup {[chan |-> id, nth |-> Cardinality(rows), expired |-> FALSE]}
    BY <1>2 DEF FREEZEadd, timesFreezed
  <2>2. id \in Nat
    BY ChanIDIsNumber
  <2>3. IsFiniteSet(rows)
    BY FS_Subset DEF FreezesInv
  <2>4. Cardinality(rows) \in Nat
    BY <2>3, FS_CardinalityType
  <2> HIDE DEF id, rows
  <2>5. [chan |-> id, nth |-> Cardinality(rows), expired |-> FALSE] \in Freeze
    BY <2>2, <2>4 DEF Freeze
  <2>6. IsFiniteSet(chanfreeze')
    BY <2>1, FS_AddElement DEF FreezesInv
  <2>7. QED
    BY <2>1, <2>5, <2>6 DEF FreezesInv
<1>3. ASSUME NEW c \in Client, NEW n \in ChanName, FREEZEdel(c, n) PROVE FreezesInv'
  <2> DEFINE R == {f \in chanfreeze : f.chan = getChanID(ChanIRCtoLower[n])}
  <2>1. chanfreeze' = {IF f \in R THEN [f EXCEPT !.expired = TRUE] ELSE f : f \in chanfreeze}
    BY <1>3 DEF FREEZEdel
  <2>2. QED
    BY <2>1, RewrittenFreezes
<1>4. ASSUME NEW f \in chanfreeze, freezeExpires(f) PROVE FreezesInv'
  <2>1. chanfreeze' = {IF g \in {f} THEN [g EXCEPT !.expired = TRUE] ELSE g : g \in chanfreeze}
    BY <1>4 DEF freezeExpires
  <2>2. QED
    BY <2>1, RewrittenFreezes
<1>5. CASE UNCHANGED allVars
  BY <1>1, <1>5 DEF allVars, chanVars, chanTables
<1>6. CASE nickStep \/ \E n \in ChanName : addChan(n) \/ delChan(n)
  BY <1>1, <1>6 DEF nickStep, addChan, delChan, chanTables
<1>7. ASSUME NEW c \in Client, NEW n \in ChanName,
             \/ parseREGISTER_Chan(c, n)
             \/ \E nick \in Name, level \in Level : parseADDUSER(c, n, nick, level)
             \/ parseSET_Chan(c, n)
             \/ parseDROP(c, n)
             \/ parseCHAN(c, n)
      PROVE  FreezesInv'
  <2>1. UNCHANGED chanfreeze
    BY <1>7 DEF parseREGISTER_Chan, parseADDUSER, parseSET_Chan, parseDROP, parseCHAN,
                CHANmod, CHANadd, CHANdel, chanTables
  <2>2. QED
    BY <1>1, <2>1
<1>8. QED
  BY <1>2, <1>3, <1>4, <1>5, <1>6, <1>7 DEF ChanNext

(* Channels, objects, levels and freezes are well formed, whatever the     *)
(* names are made of; a deleted object is still in the map.                *)
THEOREM ChanTypeCorrect == ChanSpec => []ChanTypeOK
<1> DEFINE Inv == BaseInv /\ RightsTypeOK /\ FreezesInv
<1>1. ChanInit => Inv
  BY ChanInvInit, FS_EmptySet DEF ChanInit, FreezesInv, ChanInv
<1>2. Inv /\ [ChanNext]_allVars => Inv'
  BY NickSteps, BaseInvNext, RightsTypeNext, FreezesInvNext
<1>3. Inv => ChanTypeOK
  BY DEF FreezesInv, ChanTypeOK
<1>4. QED
  BY <1>1, <1>2, <1>3, PTL DEF ChanSpec

-----------------------------------------------------------------------------
(* The composition.                                                        *)

(* With channels about, the services of nicknames and the registry behave  *)
(* as they do alone.                                                       *)
THEOREM ChanServIsNickServ == ChanSpec => NickSpec
<1>1. ChanInit => NickInit
  BY DEF ChanInit
<1>2. [ChanNext]_allVars => [NickNext]_vars
  BY NickSteps
<1>3. QED
  BY <1>1, <1>2, PTL DEF ChanSpec, NickSpec

(* Hence what holds of accounts, demands to identify and online IDs still  *)
(* holds: a channel command changes nobody's account, ends nobody's demand *)
(* and gives nobody another ID.                                            *)
THEOREM ChanServKeepsAccounts ==
  /\ PlainNames /\ ChanSpec => ImplementsAccounts /\ OnlineIDIsStable
  /\ ChanSpec => []PendingNotIdentified /\ DemandsAreKept
  BY ChanServIsNickServ, NickServIsOnlineUsers, NickServImplementsAccounts, PendingComesFirst,
     DemandsLast, OnlineIDStability
=============================================================================
