---------------------------- MODULE NickRecords ----------------------------
(***************************************************************************)
(* What is kept for a nickname: the settings of its account, in the table  *)
(* nicks, as Nick's SET changes them and its INFO shows them               *)
(* (source/modules/mod.nick/nick.cpp, source/lib/user.cpp); and the notes  *)
(* sent to it, in the table notes (source/modules/mod.note/note.cpp).      *)
(*                                                                         *)
(* A setting belongs to an account and goes with it.  A note is found by   *)
(* the nickname and stays: who registers the nickname next has it.  Notes  *)
(* have IDs, but a user names them by their position among his own.        *)
(*                                                                         *)
(* Nicknames are in folded spelling and passwords, confirmations and the   *)
(* demands to identify are left out (NickServ has them): whoever uses a    *)
(* nickname may turn out to identify for it.  The value of a setting is    *)
(* reduced to the account that its writer has identified for.              *)
(*                                                                         *)
(* A table is a set of rows, which come in the order of their IDs.         *)
(***************************************************************************)
EXTENDS Integers, FiniteSets, Functions

CONSTANTS
  Client,     \* connections to the network
  Name,       \* nicknames
  Info,       \* the columns among msn, aim, yahoo, icq and url
  Staff,      \* the accounts with access to Serv or Oper
  MaxNickID,  \* bound on the auto-incremented column nicks.id
  MaxNotes    \* bound on the auto-incremented column notes.id

(* The columns that SET and IDENTIFY write; password, email and modnick    *)
(* are in NickServ.                                                        *)
Column == {"deopaway", "lang", "lasthost"} \cup Info

ASSUME NickRecordsAssumption ==
  /\ Info \cap {"deopaway", "lang", "lasthost"} = {}
  /\ "" \notin Name
  /\ Staff \subseteq Nat
  /\ MaxNickID \in Nat
  /\ MaxNotes \in Nat

VARIABLES
  using,       \* the nickname each client uses, "" while it is offline
  idas,        \* the account each client first identified for, or 0
  nicks,       \* the table of registered nicknames
  nextNickID,  \* the next value of the column nicks.id
  chanaccess,  \* the accounts with a level on the channel
  notes,       \* the table of notes
  nextNoteID   \* the next value of the column notes.id

networkVars == <<using, idas>>
nickVars == <<nicks, nextNickID>>
noteVars == <<notes, nextNoteID>>
recordVars == <<networkVars, nickVars, chanaccess, noteVars>>

Default == 0
Nick == [id : 1..MaxNickID, nickname : Name, columns : [Column -> 0..MaxNickID]]
Note == [id : 1..MaxNotes, nto : Name \cup {""}]

Online == {c \in Client : using[c] # ""}

RowsOf(n) == {r \in nicks : r.nickname = n}
isNickRegistered(n) == RowsOf(n) # {}

(* getNick: the nickname of an account, "" for one that is gone.           *)
getNick(id) ==
  IF \E r \in nicks : r.id = id THEN (CHOOSE r \in nicks : r.id = id).nickname ELSE ""

(* Mutant: the name identified for is the one in use.                      *)
isIdentified_anyName(c) == c \in Online /\ idas[c] # 0

(* isIdentified(getNickname()): the nickname is looked up by the ID.       *)
isIdentified(c) == c \in Online /\ getNick(idas[c]) = using[c]

(* getAccess("Serv") or getAccess("Oper") of the account of the nickname.  *)
hasAccess(c) == \E r \in RowsOf(using[c]) : r.id \in Staff

(* The number a note has among those of its nickname.                      *)
numberOf(note) == Cardinality({m \in notes : m.nto = note.nto /\ m.id <= note.id})

RecordsInit ==
  /\ using = [c \in Client |-> ""]
  /\ idas = [c \in Client |-> 0]
  /\ nicks = {}
  /\ nextNickID = 1
  /\ chanaccess = {}
  /\ notes = {}
  /\ nextNoteID = 1

-----------------------------------------------------------------------------
(* The network, and a level on the channel.                                *)

(* A client signs on, or changes its nickname and keeps its online ID.     *)
useNick(c, n) ==
  /\ n \notin {using[d] : d \in Client}
  /\ using' = [using EXCEPT ![c] = n]
  /\ UNCHANGED <<idas, nickVars, chanaccess, noteVars>>

signOff(c) ==
  /\ c \in Online
  /\ using' = [using EXCEPT ![c] = ""]
  /\ idas' = [idas EXCEPT ![c] = 0]
  /\ UNCHANGED <<nickVars, chanaccess, noteVars>>

startServices ==
  /\ using' = [c \in Client |-> ""]
  /\ idas' = [c \in Client |-> 0]
  /\ UNCHANGED <<nickVars, chanaccess, noteVars>>

(* What becomes of the channel is in ChanServ.                             *)
changeLevels ==
  /\ \/ \E r \in nicks : chanaccess' = chanaccess \cup {r.id}
     \/ chanaccess' = {}
  /\ UNCHANGED <<networkVars, nickVars, noteVars>>

-----------------------------------------------------------------------------
(* The Nick service, and Serv's DELNICK.                                   *)

(* UPDATE nicks SET column=... WHERE nickname=...                          *)
UpdateNicks(n, column, value) ==
  nicks' = {IF r.nickname = n THEN [r EXCEPT !.columns[column] = value] ELSE r : r \in nicks}

(* The row says en, None and None Set, whatever was there before.          *)
registerNick(n) ==
  nicks' = nicks \cup {[id |-> nextNickID, nickname |-> n,
                        columns |-> [x \in Column |-> Default]]}

parseREGISTER(c) ==
  /\ c \in Online
  /\ ~isNickRegistered(using[c])
  /\ nextNickID <= MaxNickID
  /\ registerNick(using[c])
  /\ nextNickID' = nextNickID + 1
  /\ UNCHANGED <<networkVars, chanaccess, noteVars>>

(* A row for the account is added behind those that the client has, and    *)
(* the account learns the client's host: updateIdentified.                 *)
parseIDENTIFY(c) ==
  /\ c \in Online
  /\ \E r \in RowsOf(using[c]) :
       /\ idas' = [idas EXCEPT ![c] = IF @ = 0 THEN r.id ELSE @]
       /\ UpdateNicks(using[c], "lasthost", r.id)
  /\ UNCHANGED <<using, nextNickID, chanaccess, noteVars>>

setDeopAway(c, val) ==
  UpdateNicks(using[c], "deopaway", IF val THEN idas[c] ELSE Default)

(* A language that is not known kills the process (NickServ).              *)
setLanguage(c, lang) ==
  isNickRegistered(using[c]) /\ UpdateNicks(using[c], "lang", lang)

setInfo(c, what) == UpdateNicks(using[c], what, idas[c])

(* There is no column privmsg: the query fails.                            *)
setPrivmsg == UNCHANGED nicks

parseSET(c) ==
  /\ isIdentified(c)
  /\ \/ \E val \in BOOLEAN : setDeopAway(c, val)
     \/ \E lang \in {Default, idas[c]} : setLanguage(c, lang)
     \/ \E what \in Info : setInfo(c, what)
     \/ setPrivmsg
  /\ UNCHANGED <<networkVars, nextNickID, chanaccess, noteVars>>

(* What a getter of User says of the nickname in use, here the default if  *)
(* there is no account.                                                    *)
getColumn(c, x) ==
  IF isNickRegistered(using[c]) THEN (CHOOSE r \in RowsOf(using[c]) : TRUE).columns[x] ELSE Default

(* The columns that INFO tells c about the user d.                         *)
parseINFO(c, d) ==
  IF isNickRegistered(using[c])
    THEN {"deopaway"} \cup Info \cup
         (IF hasAccess(c) /\ isIdentified(c) THEN {"lasthost"} ELSE {})
    ELSE {}

(* Only the account goes.                                                  *)
parseDELNICK(c, who) ==
  /\ isIdentified(c)
  /\ hasAccess(c)
  /\ isNickRegistered(who)
  /\ nicks' = nicks \ RowsOf(who)
  /\ UNCHANGED <<networkVars, nextNickID, chanaccess, noteVars>>

-----------------------------------------------------------------------------
(* The Note service.  parseLine asks that the sender be identified for the *)
(* nickname it uses; LIST and READ change nothing.                         *)

(* sendNote for each recipient k, of the nickname to[k].  The notes get the*)
(* next IDs, in the order in which levels were given, which is left open.  *)
sendNotesFrom(first, to) ==
  LET last == first + Cardinality(DOMAIN to) - 1
  IN  \E sent \in Bijection(DOMAIN to, first..last) :
        notes' = notes \cup {[id |-> sent[k], nto |-> to[k]] : k \in DOMAIN to}

(* Mutant: the first ID is one too high.                                   *)
sendNotes_offByOne(to) ==
  /\ nextNoteID + Cardinality(DOMAIN to) <= MaxNotes + 1
  /\ sendNotesFrom(nextNoteID + 1, to)
  /\ nextNoteID' = nextNoteID + Cardinality(DOMAIN to)

sendNotes(to) ==
  /\ nextNoteID + Cardinality(DOMAIN to) <= MaxNotes + 1
  /\ sendNotesFrom(nextNoteID, to)
  /\ nextNoteID' = nextNoteID + Cardinality(DOMAIN to)

(* Those who have a level on the channel, but for the sender; an account   *)
(* that is gone has the nickname "".                                       *)
Members(c) == [a \in {b \in chanaccess : getNick(b) # using[c]} |-> getNick(a)]

parseSEND(c) ==
  /\ isIdentified(c)
  /\ \/ sendNotes(Members(c))
     \/ \E n \in Name : isNickRegistered(n) /\ sendNotes([k \in {n} |-> n])
  /\ UNCHANGED <<networkVars, nickVars, chanaccess>>

(* The ID of the note with the number.                                     *)
numbered(c, num) ==
  {note.id : note \in {m \in notes : m.nto = using[c] /\ numberOf(m) = num}}

(* Mutant: the rows are those of the whole table.                          *)
parseDEL_ofTable(c, num) ==
  /\ isIdentified(c)
  /\ notes' = {note \in notes : Cardinality({m \in notes : m.id <= note.id}) # num}
  /\ UNCHANGED <<networkVars, nickVars, chanaccess, nextNoteID>>

parseDEL(c, num) ==
  /\ isIdentified(c)
  /\ notes' = {note \in notes : note.id \notin numbered(c, num)}
  /\ UNCHANGED <<networkVars, nickVars, chanaccess, nextNoteID>>

parseDEL_all(c) ==
  /\ isIdentified(c)
  /\ notes' = {note \in notes : note.nto # using[c]}
  /\ UNCHANGED <<networkVars, nickVars, chanaccess, nextNoteID>>

RecordsNext ==
  \/ \E c \in Client, n \in Name : useNick(c, n) \/ parseDELNICK(c, n)
  \/ \E c \in Client : signOff(c) \/ parseREGISTER(c) \/ parseIDENTIFY(c) \/ parseSET(c)
  \/ startServices
  \/ changeLevels
  \/ \E c \in Client : parseSEND(c) \/ parseDEL_all(c)
  \/ \E c \in Client, num \in 1..MaxNotes : parseDEL(c, num)

RecordsSpec == RecordsInit /\ [][RecordsNext]_recordVars

-----------------------------------------------------------------------------
(* Properties.                                                             *)

RecordsTypeOK ==
  /\ using \in [Client -> Name \cup {""}]
  /\ idas \in [Client -> 0..MaxNickID]
  /\ nicks \subseteq Nick
  /\ nextNickID \in 1..(MaxNickID + 1)
  /\ chanaccess \subseteq 1..MaxNickID
  /\ notes \subseteq Note
  /\ nextNoteID \in 1..(MaxNotes + 1)

(* INFO tells of a nickname only what its present account has set since it *)
(* was registered, whoever has set the columns of an earlier account and   *)
(* is identified for it still, and whoever has come to use the nickname    *)
(* (user.cpp:327, :612, serv.cpp:911).                                     *)
SettingsAreOwn ==
  \A c, d \in Online :
    \A x \in parseINFO(c, d) :
      getColumn(d, x) # Default =>
        \E r \in nicks : r.id = getColumn(d, x) /\ r.nickname = using[d]

(* The numbers of a nickname's notes stay what they are while others send, *)
(* delete, register and leave: a new note comes last, and a number changes *)
(* only when who is identified for the nickname and uses it deletes a note *)
(* up to that number, and then one note of its own or all (note.cpp:60,    *)
(* :82, :100).                                                             *)
NumbersAreKept ==
  [][\A note \in notes :
       LET gone == notes \ notes'
       IN  \/ note \in notes' /\ (numberOf(note))' = numberOf(note)
           \/ \E c \in Online :
                /\ using[c] = note.nto /\ isIdentified(c)
                /\ \E m \in gone : m.id <= note.id
                /\ \/ \E m \in gone : gone = {m} /\ m.nto = using[c]
                   \/ gone = {m \in notes : m.nto = using[c]}]_recordVars
=============================================================================
