-------------------------- MODULE NickRecordsProofs --------------------------
(***************************************************************************)
(* That INFO tells of an account nothing but its own settings, and that    *)
(* the number of a note changes only by whoever the note is for, for any   *)
(* users, nicknames and columns.                                           *)
(*                                                                         *)
(* Settings are written to the row with the nickname in use, by whoever is *)
(* identified for that nickname: by the ID of an account.  That the two    *)
(* rows are one is what AccountsInv is for.  A note's number counts the    *)
(* rows up to its ID: NotesInv says that IDs are unique and that the next  *)
(* ones are higher, so that a new note does not come in between, and no    *)
(* two notes of a nickname have one number (NumbersDiffer).                *)
(***************************************************************************)
EXTENDS NickRecords, FiniteSetTheorems, TLAPS

UsersTypeOK == using \in [Client -> Name \cup {""}]

AccountsInv ==
  /\ UsersTypeOK
  /\ nicks \subseteq Nick
  /\ nextNickID \in 1..(MaxNickID + 1)
  /\ idas \in [Client -> 0..MaxNickID]
  /\ \A r \in nicks : r.id < nextNickID
  /\ \A r, s \in nicks : r.id = s.id \/ r.nickname = s.nickname => r = s
  /\ \A r \in nicks : \A x \in Column : r.columns[x] \in {Default, r.id}

LEMMA AccountsInvInit == RecordsInit => AccountsInv
  <1> SUFFICES ASSUME RecordsInit PROVE AccountsInv
    OBVIOUS
  <1>1. UsersTypeOK
    BY DEF RecordsInit, UsersTypeOK
  <1>2. idas = [c \in Client |-> 0] /\ nicks = {} /\ nextNickID = 1
    BY DEF RecordsInit
  <1>3. MaxNickID \in Nat
    BY NickRecordsAssumption
  <1> QED
    BY <1>1, <1>2, <1>3 DEF AccountsInv

(* Who is identified for the nickname it uses has identified for the very  *)
(* account that has it now.                                                *)
LEMMA IdentifiedForRow ==
  ASSUME AccountsInv, NEW c \in Client, isIdentified(c)
  PROVE  \A r \in nicks : r.nickname = using[c] => r.id = idas[c]
  <1>1. using[c] # "" /\ getNick(idas[c]) = using[c]
    BY DEF isIdentified, Online
  <1>2. \E r \in nicks : r.id = idas[c]
    BY <1>1 DEF getNick
  <1> DEFINE q == CHOOSE r \in nicks : r.id = idas[c]
  <1>3. q \in nicks /\ q.id = idas[c]
    BY <1>2
  <1>4. q.nickname = using[c]
    BY <1>1, <1>2 DEF getNick
  <1> HIDE DEF q
  <1> QED
    BY <1>3, <1>4 DEF AccountsInv

(* An update by nickname with the ID of the account that has it, or with   *)
(* the default.                                                            *)
LEMMA UpdateEffect ==
  ASSUME AccountsInv, NEW n, NEW x \in Column, NEW value \in 0..MaxNickID,
         UpdateNicks(n, x, value),
         value = Default \/ (\A r \in nicks : r.nickname = n => r.id = value),
         nextNickID' = nextNickID,
         idas' \in [Client -> 0..MaxNickID], UsersTypeOK'
  PROVE  AccountsInv'
  <1> DEFINE F == [r \in nicks |-> IF r.nickname = n THEN [r EXCEPT !.columns[x] = value] ELSE r]
  <1>1. nicks' = {F[r] : r \in nicks}
    BY DEF UpdateNicks
  <1>2. \A r \in nicks : /\ r \in Nick
                         /\ r.columns \in [Column -> 0..MaxNickID]
                         /\ [r EXCEPT !.columns[x] = value]
                              = [r EXCEPT !.columns = [r.columns EXCEPT ![x] = value]]
    BY DEF AccountsInv, Nick
  <1>3. \A r \in nicks : /\ F[r] \in Nick /\ F[r].id = r.id /\ F[r].nickname = r.nickname
                         /\ \A y \in Column : F[r].columns[y] \in {r.columns[y], value}
                         /\ r.nickname # n => F[r] = r
    BY <1>2 DEF Nick
  <1>4. \A r \in nicks : \A y \in Column : F[r].columns[y] \in {Default, F[r].id}
    BY <1>3 DEF AccountsInv, Default
  <1> HIDE DEF F
  <1> QED
    BY <1>1, <1>3, <1>4 DEF AccountsInv

LEMMA AccountsInvStep == AccountsInv /\ [RecordsNext]_recordVars => AccountsInv'
  <1> SUFFICES ASSUME AccountsInv, [RecordsNext]_recordVars PROVE AccountsInv'
    OBVIOUS
  <1>1. ASSUME UNCHANGED nickVars, UsersTypeOK',
               idas' \in [Client -> 0..MaxNickID]
        PROVE  AccountsInv'
    BY <1>1 DEF AccountsInv, nickVars
  <1>2. idas \in [Client -> 0..MaxNickID] /\ MaxNickID \in Nat
    BY NickRecordsAssumption DEF AccountsInv
  <1>3. using' = using => UsersTypeOK'
    BY DEF AccountsInv, UsersTypeOK
  <1>4. ASSUME NEW c \in Client, NEW n \in Name, useNick(c, n) PROVE AccountsInv'
    <2>1. UsersTypeOK'
      BY <1>4 DEF useNick, AccountsInv, UsersTypeOK
    <2> QED
      BY <1>1, <1>2, <1>4, <2>1 DEF useNick
  <1>5. ASSUME NEW c \in Client, signOff(c) PROVE AccountsInv'
    <2>1. UsersTypeOK'
      BY <1>5 DEF signOff, AccountsInv, UsersTypeOK
    <2>2. idas' = [idas EXCEPT ![c] = 0] /\ UNCHANGED nickVars
      BY <1>5 DEF signOff
    <2>3. idas' \in [Client -> 0..MaxNickID]
      BY <1>2, <2>2
    <2> QED
      BY <1>1, <2>1, <2>2, <2>3
  <1>6. CASE startServices
    <2>1. UsersTypeOK'
      BY <1>6 DEF startServices, UsersTypeOK
    <2>2. idas' = [c \in Client |-> 0] /\ UNCHANGED nickVars
      BY <1>6 DEF startServices
    <2>3. idas' \in [Client -> 0..MaxNickID]
      BY <1>2, <2>2
    <2> QED
      BY <1>1, <2>1, <2>2, <2>3
  <1>7. CASE changeLevels
    BY <1>1, <1>2, <1>3, <1>7 DEF changeLevels, networkVars
  <1>8. ASSUME NEW c \in Client, parseREGISTER(c) PROVE AccountsInv'
    <2> DEFINE row == [id |-> nextNickID, nickname |-> using[c],
                       columns |-> [x \in Column |-> Default]]
    <2>1. /\ nicks' = nicks \cup {row} /\ nextNickID' = nextNickID + 1
          /\ nextNickID <= MaxNickID /\ using' = using /\ idas' = idas
          /\ \A r \in nicks : r.nickname # using[c]
      BY <1>8 DEF parseREGISTER, registerNick, isNickRegistered, RowsOf, networkVars
    <2>2. using[c] \in Name
      BY <1>8 DEF parseREGISTER, Online, AccountsInv, UsersTypeOK
    <2>3. nextNickID \in 1..MaxNickID
      BY <1>2, <2>1 DEF AccountsInv
    <2>4. [x \in Column |-> Default] \in [Column -> 0..MaxNickID]
      BY <1>2 DEF Default
    <2>5. /\ row \in Nick /\ row.id = nextNickID /\ row.nickname = using[c]
          /\ \A x \in Column : row.columns[x] = Default
      BY <2>2, <2>3, <2>4 DEF Nick
    <2> HIDE DEF row
    <2>6. \A r, s \in nicks' : r.id = s.id \/ r.nickname = s.nickname => r = s
      BY <2>1, <2>2, <2>5 DEF AccountsInv
    <2>7. UsersTypeOK' /\ idas' \in [Client -> 0..MaxNickID]
      BY <1>2, <1>3, <2>1
    <2>8. /\ nicks' \subseteq Nick /\ nextNickID' \in 1..(MaxNickID + 1)
          /\ \A r \in nicks' : r.id < nextNickID'
      <3>1. nicks' \subseteq Nick /\ \A r \in nicks : r.id \in 1..MaxNickID
        BY <2>1, <2>5 DEF AccountsInv, Nick
      <3>2. nextNickID' \in 1..(MaxNickID + 1)
        BY <1>2, <2>1, <2>3
      <3>3. \A r \in nicks' : r.id < nextNickID'
        BY <1>2, <2>1, <2>5, <2>3, <3>1 DEF AccountsInv
      <3> QED
        BY <3>1, <3>2, <3>3
    <2>9. \A r \in nicks' : \A x \in Column : r.columns[x] \in {Default, r.id}
      BY <2>1, <2>5 DEF AccountsInv
    <2> QED
      BY <2>6, <2>7, <2>8, <2>9 DEF AccountsInv
  <1>9. ASSUME NEW c \in Client, parseIDENTIFY(c) PROVE AccountsInv'
    <2>1. PICK r \in RowsOf(using[c]) :
            /\ idas' = [idas EXCEPT ![c] = IF @ = 0 THEN r.id ELSE @]
            /\ UpdateNicks(using[c], "lasthost", r.id)
      BY <1>9 DEF parseIDENTIFY
    <2>2. r \in nicks /\ r.nickname = using[c] /\ r.id \in 0..MaxNickID
      BY <2>1 DEF RowsOf, AccountsInv, Nick
    <2>3. \A s \in nicks : s.nickname = using[c] => s.id = r.id
      BY <2>2 DEF AccountsInv
    <2>4. idas' \in [Client -> 0..MaxNickID]
      BY <1>2, <2>1, <2>2
    <2> QED
      BY <1>9, <1>3, <2>1, <2>2, <2>3, <2>4, UpdateEffect DEF parseIDENTIFY, Column
  <1>10. ASSUME NEW c \in Client, parseSET(c) PROVE AccountsInv'
    <2>1. isIdentified(c) /\ nextNickID' = nextNickID /\ using' = using /\ idas' = idas
      BY <1>10 DEF parseSET, networkVars
    <2>2. \A r \in nicks : r.nickname = using[c] => r.id = idas[c]
      BY <2>1, IdentifiedForRow
    <2>3. idas[c] \in 0..MaxNickID /\ Default \in 0..MaxNickID
      BY <1>2 DEF Default
    <2>4. ASSUME NEW x \in Column, NEW value \in {Default, idas[c]},
                 UpdateNicks(using[c], x, value)
          PROVE  AccountsInv'
      BY <1>2, <1>3, <2>1, <2>2, <2>3, <2>4, UpdateEffect
    <2>5. \/ \E x \in Column, value \in {Default, idas[c]} : UpdateNicks(using[c], x, value)
          \/ nicks' = nicks
      BY <1>10 DEF parseSET, setDeopAway, setLanguage, setInfo, setPrivmsg, Column
    <2>6. CASE nicks' = nicks
      BY <1>1, <1>2, <1>3, <2>1, <2>6 DEF nickVars
    <2> QED
      BY <2>4, <2>5, <2>6
  <1>11. ASSUME NEW c \in Client, NEW n \in Name, parseDELNICK(c, n) PROVE AccountsInv'
    BY <1>2, <1>11, <1>3 DEF parseDELNICK, AccountsInv, networkVars
  <1>12. ASSUME NEW c \in Client, parseSEND(c) \/ parseDEL_all(c) PROVE AccountsInv'
    BY <1>1, <1>2, <1>3, <1>12 DEF parseSEND, parseDEL_all, networkVars
  <1>13. ASSUME NEW c \in Client, NEW num \in 1..MaxNotes, parseDEL(c, num) PROVE AccountsInv'
    BY <1>1, <1>2, <1>3, <1>13 DEF parseDEL, networkVars
  <1>14. CASE UNCHANGED recordVars
    BY <1>1, <1>2, <1>3, <1>14 DEF recordVars, networkVars
  <1> QED
    BY <1>4, <1>5, <1>6, <1>7, <1>8, <1>9, <1>10, <1>11, <1>12, <1>13, <1>14 DEF RecordsNext

LEMMA AccountsInvariant == RecordsSpec => []AccountsInv
  BY AccountsInvInit, AccountsInvStep, PTL DEF RecordsSpec

(* INFO tells of a nickname only what its present account has set: nobody  *)
(* who is still identified for an earlier account writes to the new one's  *)
(* row.                                                                    *)
THEOREM SettingsGoWithAccounts == RecordsSpec => []SettingsAreOwn
  <1>1. AccountsInv => SettingsAreOwn
    <2> SUFFICES ASSUME AccountsInv, NEW c \in Online, NEW d \in Online,
                        NEW x \in parseINFO(c, d), getColumn(d, x) # Default
                 PROVE  \E r \in nicks : r.id = getColumn(d, x) /\ r.nickname = using[d]
      BY DEF SettingsAreOwn
    <2>1. x \in Column
      BY DEF parseINFO, Column
    <2>2. isNickRegistered(using[d])
      BY DEF getColumn
    <2> DEFINE q == CHOOSE r \in RowsOf(using[d]) : TRUE
    <2>3. q \in RowsOf(using[d]) /\ getColumn(d, x) = q.columns[x]
      BY <2>2 DEF isNickRegistered, getColumn
    <2> HIDE DEF q
    <2>4. q \in nicks /\ q.nickname = using[d] /\ q.columns[x] = q.id
      BY <2>1, <2>3 DEF RowsOf, AccountsInv
    <2> QED
      BY <2>3, <2>4
  <1> QED
    BY <1>1, AccountsInvariant, PTL

-----------------------------------------------------------------------------
(* Notes.                                                                  *)
NotesInv ==
  /\ chanaccess \subseteq 1..MaxNickID
  /\ notes \subseteq Note
  /\ nextNoteID \in 1..(MaxNotes + 1)
  /\ \A note \in notes : note.id < nextNoteID
  /\ \A m, note \in notes : m.id = note.id => m = note

LEMMA Bounds == MaxNickID \in Nat /\ MaxNotes \in Nat
  BY NickRecordsAssumption

(* IDs are numbers below the next one.                                     *)
LEMMA IDsOfNotes ==
  ASSUME NotesInv
  PROVE  /\ nextNoteID \in Nat /\ nextNoteID >= 1
         /\ \A m \in notes : m.id \in Nat /\ m.id < nextNoteID
  <1>1. MaxNotes \in Nat
    BY Bounds
  <1>2. nextNoteID \in 1..(MaxNotes + 1)
    BY DEF NotesInv
  <1>3. \A m \in notes : m.id \in 1..MaxNotes /\ m.id < nextNoteID
    BY DEF NotesInv, Note
  <1>4. \A i \in 1..MaxNotes : i \in Nat
    OBVIOUS
  <1> QED
    BY <1>1, <1>2, <1>3, <1>4

(* The recipients of a SEND are finitely many, and have nicknames.         *)
LEMMA MembersAreFinite ==
  ASSUME AccountsInv, NotesInv, NEW c \in Client
  PROVE  /\ IsFiniteSet(DOMAIN Members(c))
         /\ \A a \in DOMAIN Members(c) : Members(c)[a] \in Name \cup {""}
  <1>1. IsFiniteSet(1..MaxNickID)
    <2>1. 1 \in Int /\ MaxNickID \in Int
      BY Bounds
    <2> QED
      BY <2>1, FS_Interval
  <1>2. DOMAIN Members(c) \subseteq chanaccess
    BY DEF Members
  <1>3. DOMAIN Members(c) \in SUBSET (1..MaxNickID)
    BY <1>2 DEF NotesInv
  <1>4. IsFiniteSet(DOMAIN Members(c))
    BY <1>1, <1>3, FS_Subset
  <1>5. ASSUME NEW a PROVE getNick(a) \in Name \cup {""}
    BY DEF getNick, AccountsInv, Nick
  <1>6. \A a \in DOMAIN Members(c) : Members(c)[a] = getNick(a)
    BY DEF Members
  <1> QED
    BY <1>4, <1>5, <1>6

LEMMA NextIDs ==
  ASSUME NEW a \in Nat, a >= 1, NEW n \in Nat, NEW max \in Nat, a + n <= max + 1
  PROVE  /\ \A i \in a..(a + n - 1) : i \in Nat /\ i \in 1..max /\ i >= a /\ i < a + n
         /\ a + n \in 1..(max + 1)
         /\ \A i \in Nat : i < a => i < a + n
  OBVIOUS

LEMMA Apart == \A i, j, k \in Nat : i >= k /\ j < k => i # j /\ ~(i <= j)
  OBVIOUS

(* sendNotes adds one row for each recipient, behind all there are.        *)
LEMMA SendEffect ==
  ASSUME NotesInv, NEW to, IsFiniteSet(DOMAIN to), sendNotes(to),
         \A k \in DOMAIN to : to[k] \in Name \cup {""},
         chanaccess' = chanaccess
  PROVE  /\ NotesInv'
         /\ notes \subseteq notes'
         /\ \A note \in notes' \ notes : note.id >= nextNoteID
  <1> DEFINE n == Cardinality(DOMAIN to)
             ids == nextNoteID..(nextNoteID + n - 1)
  <1>1. n \in Nat /\ nextNoteID \in Nat /\ nextNoteID >= 1 /\ MaxNotes \in Nat
    BY FS_CardinalityType, Bounds, IDsOfNotes
  <1>2. PICK sent \in Bijection(DOMAIN to, ids) :
          notes' = notes \cup {[id |-> sent[k], nto |-> to[k]] : k \in DOMAIN to}
    BY DEF sendNotes, sendNotesFrom
  <1>3. nextNoteID' = nextNoteID + n /\ nextNoteID + n <= MaxNotes + 1
    BY DEF sendNotes
  <1>4. /\ \A k \in DOMAIN to : sent[k] \in ids
        /\ \A j, k \in DOMAIN to : sent[j] = sent[k] => j = k
    BY <1>2 DEF Bijection, Injection, IsInjective
  <1>5. /\ \A i \in ids : i \in Nat /\ i \in 1..MaxNotes /\ i >= nextNoteID /\ i < nextNoteID'
        /\ nextNoteID' \in 1..(MaxNotes + 1)
        /\ \A i \in Nat : i < nextNoteID => i < nextNoteID'
    <2>1. nextNoteID + n <= MaxNotes + 1
      BY <1>3
    <2> HIDE DEF n
    <2>2. /\ \A i \in nextNoteID..(nextNoteID + n - 1) :
               i \in Nat /\ i \in 1..MaxNotes /\ i >= nextNoteID /\ i < nextNoteID + n
          /\ nextNoteID + n \in 1..(MaxNotes + 1)
          /\ \A i \in Nat : i < nextNoteID => i < nextNoteID + n
      BY <1>1, <2>1, NextIDs
    <2> QED
      BY <1>3, <2>2
  <1> HIDE DEF ids, n
  <1> DEFINE row(k) == [id |-> sent[k], nto |-> to[k]]
  <1>6. \A k \in DOMAIN to :
          /\ row(k) \in Note
          /\ row(k).id = sent[k] /\ sent[k] >= nextNoteID /\ sent[k] < nextNoteID'
    BY <1>4, <1>5 DEF Note
  <1>7. notes' = notes \cup {row(k) : k \in DOMAIN to}
    BY <1>2
  <1> HIDE DEF row
  <1>8. \A m \in notes' : \/ m \in notes
                         \/ \E k \in DOMAIN to : m = row(k)
    BY <1>7
  <1>10. \A m \in notes : m.id \in Nat /\ m.id < nextNoteID
    BY IDsOfNotes
  <1>11. \A m \in notes' : m \in Note /\ m.id < nextNoteID'
    <2>1. \A m \in notes : m \in Note
      BY DEF NotesInv
    <2>2. \A m \in notes : m.id < nextNoteID'
      BY <1>5, <1>10
    <2> QED
      BY <1>6, <1>8, <2>1, <2>2
  <1>12. ASSUME NEW l \in notes', NEW m \in notes', l.id = m.id PROVE l = m
    <2>1. ASSUME NEW k \in DOMAIN to, NEW note \in notes PROVE row(k).id # note.id
      <3>1. sent[k] >= nextNoteID /\ note.id < nextNoteID
        BY <1>6, <1>10
      <3>2. sent[k] \in Nat /\ note.id \in Nat /\ nextNoteID \in Nat
        BY <1>1, <1>4, <1>5, <1>10
      <3>3. sent[k] # note.id
        BY <3>1, <3>2, Apart
      <3> QED
        BY <1>6, <3>3
    <2>2. \A j, k \in DOMAIN to : row(j).id = row(k).id => row(j) = row(k)
      BY <1>4, <1>6
    <2> QED
      BY <1>8, <1>12, <2>1, <2>2 DEF NotesInv
  <1>13. NotesInv'
    <2>1. (chanaccess \subseteq 1..MaxNickID)'
      BY DEF NotesInv
    <2> QED
      BY <1>5, <1>11, <1>12, <2>1 DEF NotesInv
  <1> QED
    BY <1>6, <1>7, <1>8, <1>13

LEMMA SendNotes ==
  ASSUME AccountsInv, NotesInv, NEW c \in Client, parseSEND(c)
  PROVE  /\ NotesInv'
         /\ notes \subseteq notes'
         /\ \A note \in notes' \ notes : note.id >= nextNoteID
  <1>1. chanaccess' = chanaccess
    BY DEF parseSEND
  <1>2. CASE sendNotes(Members(c))
    BY <1>1, <1>2, MembersAreFinite, SendEffect
  <1>3. CASE \E n \in Name : sendNotes([k \in {n} |-> n])
    <2>1. PICK n \in Name : sendNotes([k \in {n} |-> n])
      BY <1>3
    <2> DEFINE to == [k \in {n} |-> n]
    <2>2. IsFiniteSet(DOMAIN to) /\ \A k \in DOMAIN to : to[k] \in Name \cup {""}
      BY FS_Singleton
    <2> HIDE DEF to
    <2>3. sendNotes(to)
      BY <2>1 DEF to
    <2> QED
      BY <1>1, <2>2, <2>3, SendEffect
  <1> QED
    BY <1>2, <1>3 DEF parseSEND

LEMMA NotesInvInit == RecordsInit => NotesInv
  <1> SUFFICES ASSUME RecordsInit PROVE NotesInv
    OBVIOUS
  <1>1. chanaccess = {} /\ notes = {} /\ nextNoteID = 1
    BY DEF RecordsInit
  <1>2. nextNoteID \in 1..(MaxNotes + 1)
    BY <1>1, Bounds
  <1> QED
    BY <1>1, <1>2 DEF NotesInv

LEMMA NotesInvNext ==
  ASSUME AccountsInv, NotesInv, [RecordsNext]_recordVars
  PROVE  NotesInv'
  <1>1. ASSUME chanaccess' \subseteq 1..MaxNickID, notes' \subseteq notes,
               nextNoteID' = nextNoteID
        PROVE  NotesInv'
    BY <1>1 DEF NotesInv
  <1>2. chanaccess' = chanaccess => chanaccess' \subseteq 1..MaxNickID
    BY DEF NotesInv
  <1>3. CASE UNCHANGED <<chanaccess, noteVars>>
    BY <1>1, <1>2, <1>3 DEF noteVars
  <1>4. CASE changeLevels
    <2>1. \A r \in nicks : r.id \in 1..MaxNickID
      BY DEF AccountsInv, Nick
    <2>2. chanaccess' \subseteq 1..MaxNickID
      BY <1>4, <2>1 DEF changeLevels, NotesInv
    <2> QED
      BY <1>1, <1>4, <2>2 DEF changeLevels, noteVars
  <1>5. ASSUME NEW c \in Client, parseSEND(c) PROVE NotesInv'
    BY <1>5, SendNotes
  <1>6. ASSUME NEW c \in Client, parseDEL_all(c) PROVE NotesInv'
    <2>1. notes' \subseteq notes
      BY <1>6 DEF parseDEL_all
    <2> QED
      BY <1>1, <1>2, <1>6, <2>1 DEF parseDEL_all
  <1>7. ASSUME NEW c \in Client, NEW num \in 1..MaxNotes, parseDEL(c, num) PROVE NotesInv'
    <2>1. notes' \subseteq notes
      BY <1>7 DEF parseDEL
    <2> QED
      BY <1>1, <1>2, <1>7, <2>1 DEF parseDEL
  <1>8. CASE startServices
    BY <1>3, <1>8 DEF startServices
  <1>9. ASSUME NEW c \in Client, NEW n \in Name, useNick(c, n) \/ parseDELNICK(c, n)
        PROVE  NotesInv'
    BY <1>3, <1>9 DEF useNick, parseDELNICK
  <1>10. ASSUME NEW c \in Client,
                signOff(c) \/ parseREGISTER(c) \/ parseIDENTIFY(c) \/ parseSET(c)
         PROVE  NotesInv'
    BY <1>3, <1>10 DEF signOff, parseREGISTER, parseIDENTIFY, parseSET
  <1>11. CASE UNCHANGED recordVars
    BY <1>3, <1>11 DEF recordVars
  <1> QED
    BY <1>4, <1>5, <1>6, <1>7, <1>8, <1>9, <1>10, <1>11 DEF RecordsNext

(* A note keeps its number while the rows of its nickname up to its own ID *)
(* stay.                                                                   *)
LEMMA NumberStays ==
  ASSUME NEW note \in notes, note \in notes',
         \A m \in notes : m.nto = note.nto /\ m.id <= note.id => m \in notes',
         \A m \in notes' : m.nto = note.nto /\ m.id <= note.id => m \in notes
  PROVE  (numberOf(note))' = numberOf(note)
  <1>1. {m \in notes' : m.nto = note.nto /\ m.id <= note.id}
          = {m \in notes : m.nto = note.nto /\ m.id <= note.id}
    OBVIOUS
  <1> QED
    BY <1>1 DEF numberOf

(* The numbers of a nickname's notes are different: the higher ID counts   *)
(* one note more at least.                                                 *)
LEMMA NumbersDiffer ==
  ASSUME NotesInv, NEW l \in notes, NEW m \in notes,
         l.nto = m.nto, numberOf(l) = numberOf(m)
  PROVE  l = m
  <1> DEFINE upTo(x) == {y \in notes : y.nto = x.nto /\ y.id <= x.id}
             f == [x \in notes |-> x.id]
  <1>1. \A x \in notes : x.id \in Nat /\ x.id \in 1..MaxNotes
    BY IDsOfNotes DEF NotesInv, Note
  <1>2. IsFiniteSet(notes)
    <2>1. 1 \in Int /\ MaxNotes \in Int
      BY Bounds
    <2>2. IsFiniteSet(1..MaxNotes)
      BY <2>1, FS_Interval
    <2>3. f \in Injection(notes, 1..MaxNotes)
      BY <1>1 DEF Injection, IsInjective, NotesInv
    <2> HIDE DEF f
    <2> QED
      BY <2>2, <2>3, FS_Injection
  <1>3. ASSUME NEW x \in notes, NEW y \in notes, x.nto = y.nto,
               numberOf(x) = numberOf(y), x.id <= y.id
        PROVE  y.id <= x.id
    <2>1. upTo(x) \in SUBSET upTo(y)
      BY <1>1, <1>3
    <2>2. upTo(y) \in SUBSET notes
      OBVIOUS
    <2>3. Cardinality(upTo(x)) = Cardinality(upTo(y))
      BY <1>3 DEF numberOf
    <2>4. y \in upTo(y)
      BY <1>1
    <2>5. upTo(x) = upTo(y)
      <3> HIDE DEF upTo
      <3>1. IsFiniteSet(upTo(y))
        BY <1>2, <2>2, FS_Subset
      <3> QED
        BY <2>1, <2>3, <3>1, FS_Subset
    <2> QED
      BY <2>4, <2>5
  <1>4. l.id <= m.id /\ m.id <= l.id
    <2>1. l.id <= m.id \/ m.id <= l.id
      BY <1>1
    <2>2. CASE l.id <= m.id
      BY <1>3, <2>2
    <2>3. CASE m.id <= l.id
      BY <1>3, <2>3
    <2> QED
      BY <2>1, <2>2, <2>3
  <1>5. l.id = m.id
    BY <1>1, <1>4
  <1> QED
    BY <1>5 DEF NotesInv

(* What NumbersAreKept says of a note: its number stays, or somebody who   *)
(* may has deleted one of the notes up to it.                              *)
Stays(note) == note \in notes' /\ (numberOf(note))' = numberOf(note)

ByOwner(note) ==
  LET gone == notes \ notes'
  IN  \E c \in Online :
        /\ using[c] = note.nto /\ isIdentified(c)
        /\ \E m \in gone : m.id <= note.id
        /\ \/ \E m \in gone : gone = {m} /\ m.nto = using[c]
           \/ gone = {m \in notes : m.nto = using[c]}

LEMMA NumberStep ==
  ASSUME AccountsInv, NotesInv, [RecordsNext]_recordVars, NEW note \in notes
  PROVE  Stays(note) \/ ByOwner(note)
  <1>1. ASSUME notes' = notes PROVE Stays(note)
    BY <1>1, NumberStays DEF Stays
  <1>2. ASSUME NEW c \in Client, isIdentified(c), notes' \subseteq notes,
               \A m \in notes \ notes' : m.nto = using[c],
               \/ \E m \in notes : notes \ notes' = {m}
               \/ notes \ notes' = {m \in notes : m.nto = using[c]}
        PROVE  Stays(note) \/ ByOwner(note)
    <2> DEFINE gone == notes \ notes'
    <2>1. c \in Online
      BY <1>2 DEF isIdentified
    <2>2. CASE \E m \in gone : m.nto = note.nto /\ m.id <= note.id
      <3>1. using[c] = note.nto
        BY <1>2, <2>2
      <3>2. \/ \E m \in gone : gone = {m} /\ m.nto = using[c]
            \/ gone = {m \in notes : m.nto = using[c]}
        BY <1>2
      <3> QED
        BY <1>2, <2>1, <2>2, <3>1, <3>2 DEF ByOwner
    <2>3. CASE ~\E m \in gone : m.nto = note.nto /\ m.id <= note.id
      <3>1. note.id <= note.id
        BY IDsOfNotes
      <3>2. note \in notes'
        BY <2>3, <3>1
      <3>3. \A m \in notes : m.nto = note.nto /\ m.id <= note.id => m \in notes'
        BY <2>3
      <3> QED
        BY <1>2, <3>2, <3>3, NumberStays DEF Stays
    <2> QED
      BY <2>2, <2>3
  <1>3. ASSUME NEW c \in Client, parseSEND(c) PROVE Stays(note)
    <2>1. notes \subseteq notes' /\ \A m \in notes' \ notes : m.id >= nextNoteID
      BY <1>3, SendNotes
    <2>2. note.id \in Nat /\ note.id < nextNoteID /\ nextNoteID \in Nat
      BY IDsOfNotes
    <2>3. ASSUME NEW m \in notes', m.id <= note.id PROVE m \in notes
      <3>1. NotesInv'
        BY <1>3, SendNotes
      <3>2. m.id \in 1..MaxNotes
        BY <3>1 DEF NotesInv, Note
      <3>3. m.id \in Nat
        BY <3>2
      <3> QED
        BY <2>1, <2>2, <2>3, <3>3, Apart
    <2> QED
      BY <2>1, <2>3, NumberStays DEF Stays
  <1>4. ASSUME NEW c \in Client, parseDEL_all(c) PROVE Stays(note) \/ ByOwner(note)
    <2>1. isIdentified(c) /\ notes' = {m \in notes : m.nto # using[c]}
      BY <1>4 DEF parseDEL_all
    <2>2. notes \ notes' = {m \in notes : m.nto = using[c]} /\ notes' \subseteq notes
      BY <2>1
    <2> QED
      BY <1>2, <2>1, <2>2
  <1>5. ASSUME NEW c \in Client, NEW num \in 1..MaxNotes, parseDEL(c, num)
        PROVE  Stays(note) \/ ByOwner(note)
    <2>1. isIdentified(c) /\ notes' = {m \in notes : m.id \notin numbered(c, num)}
      BY <1>5 DEF parseDEL
    <2>2. ASSUME NEW m \in notes \ notes'
          PROVE  m.nto = using[c] /\ numberOf(m) = num
      <3>1. PICK own \in notes : own.nto = using[c] /\ numberOf(own) = num /\ own.id = m.id
        BY <2>1, <2>2 DEF numbered
      <3>2. own = m
        BY <3>1 DEF NotesInv
      <3> QED
        BY <3>1, <3>2
    <2>3. \A l, m \in notes \ notes' : l = m
      BY <2>2, NumbersDiffer
    <2>4. CASE notes \ notes' = {}
      <3>1. notes' = notes
        BY <2>1, <2>4
      <3> QED
        BY <1>1, <3>1
    <2>5. CASE notes \ notes' # {}
      <3>1. \E m \in notes : notes \ notes' = {m}
        BY <2>3, <2>5
      <3>2. notes' \subseteq notes
        BY <2>1
      <3> QED
        BY <1>2, <2>1, <2>2, <3>1, <3>2
    <2> QED
      BY <2>4, <2>5
  <1>6. CASE changeLevels
    BY <1>1, <1>6 DEF changeLevels, noteVars
  <1>7. CASE startServices
    BY <1>1, <1>7 DEF startServices, noteVars
  <1>8. ASSUME NEW c \in Client, NEW n \in Name, useNick(c, n) \/ parseDELNICK(c, n)
        PROVE  Stays(note)
    BY <1>1, <1>8 DEF useNick, parseDELNICK, noteVars
  <1>9. ASSUME NEW c \in Client,
                signOff(c) \/ parseREGISTER(c) \/ parseIDENTIFY(c) \/ parseSET(c)
         PROVE  Stays(note)
    BY <1>1, <1>9 DEF signOff, parseREGISTER, parseIDENTIFY, parseSET, noteVars
  <1>10. CASE UNCHANGED recordVars
    BY <1>1, <1>10 DEF recordVars, noteVars
  <1> QED
    BY <1>3, <1>4, <1>5, <1>6, <1>7, <1>8, <1>9, <1>10 DEF RecordsNext

LEMMA NotesInvariant == RecordsSpec => [](AccountsInv /\ NotesInv)
  <1>1. RecordsInit => AccountsInv /\ NotesInv
    BY AccountsInvInit, NotesInvInit
  <1>2. AccountsInv /\ NotesInv /\ [RecordsNext]_recordVars => AccountsInv' /\ NotesInv'
    BY AccountsInvStep, NotesInvNext
  <1> QED
    BY <1>1, <1>2, PTL DEF RecordsSpec

(* The tables of accounts and notes are well formed: a SEND to a channel   *)
(* uses the IDs that are left, and no more.                                *)
THEOREM NickRecordsTypeCorrect == RecordsSpec => []RecordsTypeOK
  <1>1. AccountsInv /\ NotesInv => RecordsTypeOK
    BY DEF AccountsInv, UsersTypeOK, NotesInv, RecordsTypeOK
  <1> QED
    BY <1>1, NotesInvariant, PTL

(* A note keeps its number, and is not deleted, unless whoever is          *)
(* identified for the nickname it is for and uses it deletes one of the    *)
(* notes up to it, that one only or all of the nickname's.                 *)
THEOREM NumbersStay == RecordsSpec => NumbersAreKept
  <1> DEFINE Kept ==
    \A note \in notes :
      LET gone == notes \ notes'
      IN  \/ note \in notes' /\ (numberOf(note))' = numberOf(note)
          \/ \E c \in Online :
               /\ using[c] = note.nto /\ isIdentified(c)
               /\ \E m \in gone : m.id <= note.id
               /\ \/ \E m \in gone : gone = {m} /\ m.nto = using[c]
                  \/ gone = {m \in notes : m.nto = using[c]}
  <1>1. AccountsInv /\ NotesInv /\ [RecordsNext]_recordVars => [Kept]_recordVars
    BY NumberStep DEF Stays, ByOwner
  <1> HIDE DEF Kept
  <1>2. RecordsSpec => [][Kept]_recordVars
    BY <1>1, NotesInvariant, PTL DEF RecordsSpec
  <1> QED
    BY <1>2 DEF Kept, NumbersAreKept
=============================================================================
