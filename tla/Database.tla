------------------------------ MODULE Database ------------------------------
(***************************************************************************)
(* The connection to the database (source/lib/database) and the loops that *)
(* walk over the rows of a query.  A connection has one result: every      *)
(* query, of whatever function, frees it and takes its place.  A loop      *)
(* either reads the current row and fetches the next one from the          *)
(* connection, or walks over a copy that it made of the result.            *)
(*                                                                         *)
(* A loop is described by the queries in its body, in their order:         *)
(*   "select"  a query with a row or none, such as getNick or the language *)
(*             of GETLANG,                                                 *)
(*   "none"    a query that is repeated until it finds nothing,            *)
(*   "idlist"  getIDList, a loop of its own over a copy,                   *)
(*   "command" an INSERT, UPDATE or DELETE between LOCK and UNLOCK TABLES.  *)
(* A query may fail at any time.  What the values mean is in the other     *)
(* modules; notices, modes and log lines go nowhere and query nothing.     *)
(***************************************************************************)
EXTENDS Naturals, Sequences

CONSTANT MaxRows  \* bound on the rows of a query

ASSUME DatabaseAssumption == MaxRows \in Nat \ {0}

VARIABLES
  result,  \* the result of the connection: mysqlres
  row,     \* its current row: mysqlrow
  walker,  \* the name of the loop that runs or ran last
  i,       \* the loop's variable
  inBody,  \* whether the loop has read a row and not come to the next
  todo,    \* the queries left in the loop's body
  status, size, read, failed  \* as in RowWalk

walkVars == <<walker, i, inBody, todo, status, size, read, failed>>
databaseVars == <<result, row, walkVars>>

(* A result knows whether the rows are those of the loop's own query, how  *)
(* many there are and which is next.                                       *)
Result == [own : BOOLEAN, rows : 0..MaxRows, next : 1..(MaxRows + 2)]
Row == [own : BOOLEAN, number : 1..MaxRows]
NoResult == [own |-> FALSE, rows |-> 0, next |-> 0]
NoRow == [own |-> FALSE, number |-> 0]

Kind == {"select", "none", "idlist", "command"}

(* A loop: whether it walks over a copy, whether it looks at the number of *)
(* rows before it makes the copy, when it fetches the next row, what it    *)
(* may query, and what becomes of it if a user is not found or it has      *)
(* shown enough.                                                           *)
Loop == [copied : BOOLEAN, looksFirst : BOOLEAN, fetch : {"never", "early", "late"},
         bodies : SUBSET Seq(Kind), lost : {"goes on", "returns", "dies"}]

OverCursor(fetch, bodies, lost) ==
  [copied |-> FALSE, looksFirst |-> FALSE, fetch |-> fetch, bodies |-> bodies, lost |-> lost]

OverCopy(fetch, bodies, lost) ==
  [copied |-> TRUE, looksFirst |-> FALSE, fetch |-> fetch, bodies |-> bodies, lost |-> lost]

-----------------------------------------------------------------------------
(* The loops over the connection's own result.                             *)
doHelp == OverCursor("late", {<<>>}, "goes on")

(* Mutant: the topic of the channel is looked up.                          *)
synchChannels_lookUp == OverCursor("late", {<<"select">>}, "goes on")

synchChannels == OverCursor("late", {<<>>}, "goes on")

(* The nickname, ident and host of whoever is on the channel.              *)
banChan == OverCursor("late", {<<"select", "select", "select">>}, "dies")

(* A demand that is due is deleted and a nickname sought that is free.     *)
checkpoint == OverCursor("early", {<<>>, <<"command", "none", "none">>}, "returns")

-----------------------------------------------------------------------------
(* The loops over a copy.                                                  *)
getIDList == OverCopy("never", {<<"select">>}, "goes on")

(* Mutant: the rows are read from the connection, each just before the     *)
(* next one is fetched, as checkpoint does.                                *)
parseACCESS_overCursor == OverCursor("early", {<<"select">>}, "goes on")

parseACCESS == OverCopy("never", {<<"select">>}, "goes on")

sendBans == OverCopy("never", {<<>>}, "goes on")

parseNLIST == OverCopy("never", {<<>>, <<"select">>}, "returns")

parseELIST == OverCopy("late", {<<>>, <<"select">>}, "returns")

parseCLIST == OverCopy("late", {<<"select">>}, "goes on")

parseNEWS_list == [OverCopy("never", {<<>>}, "goes on") EXCEPT !.looksFirst = TRUE]

parseUSER_list == OverCopy("never", {<<"select", "select">>}, "goes on")

parseFREEZE_list == OverCopy("never", {<<>>}, "goes on")

(* Those who have a rank lose it when the channel is frozen.               *)
parseFREEZE_add == OverCopy("never", {<<"select">>}, "goes on")

parseMDEOP == OverCopy("never", {<<"select", "command", "command">>}, "dies")

(* Note's commands: the note with the number is deleted or shown.          *)
parseDEL ==
  OverCopy("never", {<<>>, <<"select", "command", "idlist", "select", "select", "command">>},
           "returns")

parseREAD ==
  OverCopy("never", {<<>>, <<"select", "select">>,
                     <<"select", "select", "idlist", "select", "select", "command">>}, "returns")

parseLIST == OverCopy("never", {<<"select">>}, "goes on")

(* A note to a channel: the nickname, the note, and whether its owner is   *)
(* online and has identified.                                              *)
parseSEND ==
  OverCopy("never", {<<"select">>, <<"select", "command", "select">>,
                     <<"select", "command", "select", "select", "select">>}, "goes on")

Loops ==
  [doHelp |-> doHelp, synchChannels |-> synchChannels, banChan |-> banChan,
   checkpoint |-> checkpoint, getIDList |-> getIDList, parseACCESS |-> parseACCESS,
   sendBans |-> sendBans, parseNLIST |-> parseNLIST, parseELIST |-> parseELIST,
   parseCLIST |-> parseCLIST, parseNEWS_list |-> parseNEWS_list,
   parseUSER_list |-> parseUSER_list, parseFREEZE_list |-> parseFREEZE_list,
   parseFREEZE_add |-> parseFREEZE_add, parseMDEOP |-> parseMDEOP, parseDEL |-> parseDEL,
   parseREAD |-> parseREAD, parseLIST |-> parseLIST, parseSEND |-> parseSEND]

Walker == DOMAIN Loops
self == Loops[walker]

-----------------------------------------------------------------------------
(* The connection.                                                         *)

DatabaseInit ==
  /\ result = NoResult
  /\ row = NoRow
  /\ walker \in Walker
  /\ i = 0
  /\ inBody = FALSE
  /\ todo = <<>>
  /\ status = "idle"
  /\ size = 0
  /\ read = <<>>
  /\ failed = FALSE

(* dbQuery for a SELECT that finds so many rows: the first is fetched.     *)
dbSelect(own, rows) ==
  /\ result' = [own |-> own, rows |-> rows, next |-> IF rows = 0 THEN 1 ELSE 2]
  /\ row' = IF rows = 0 THEN NoRow ELSE [own |-> own, number |-> 1]

(* dbQuery for anything else, or one that fails.                           *)
dbCommand ==
  /\ result' = NoResult
  /\ UNCHANGED row

dbGetRow ==
  IF result = NoResult
    THEN UNCHANGED <<result, row>>
    ELSE IF result.next <= result.rows
           THEN /\ row' = [own |-> result.own, number |-> result.next]
                /\ result' = [result EXCEPT !.next = @ + 1]
           ELSE row' = NoRow /\ UNCHANGED result

(* The number of the row that dbGetValue or the copy yields, 0 for a row   *)
(* of another query.                                                       *)
RowRead == IF self.copied THEN i + 1 ELSE IF row.own THEN row.number ELSE 0

-----------------------------------------------------------------------------
(* The loops.                                                              *)

(* The query of the loop, and the copy of its result.                      *)
openWalk(w, rows) ==
  /\ status \in {"idle", "done", "left"}
  /\ dbSelect(TRUE, rows)
  /\ walker' = w
  /\ size' = rows
  /\ status' = "walking"
  /\ failed' = FALSE
  /\ i' = 0 /\ inBody' = FALSE /\ todo' = <<>> /\ read' = <<>>

(* The query fails: there is no result to make a copy of.                  *)
openFails(w) ==
  /\ status \in {"idle", "done", "left"}
  /\ dbCommand
  /\ walker' = w
  /\ size' = 0
  /\ status' = IF Loops[w].copied /\ ~Loops[w].looksFirst THEN "dead" ELSE "walking"
  /\ failed' = TRUE
  /\ i' = 0 /\ inBody' = FALSE /\ todo' = <<>> /\ read' = <<>>

(* The loop reads a row, and goes on to what it does with it.  Without a   *)
(* result dbGetValue is empty; without a current row there is nothing to   *)
(* take a field of.                                                        *)
readRow ==
  /\ status = "walking" /\ ~inBody /\ i < size
  /\ IF ~self.copied /\ result # NoResult /\ row = NoRow
       THEN status' = "dead" /\ UNCHANGED <<result, row, inBody, todo, read>>
       ELSE /\ read' = IF ~self.copied /\ result = NoResult THEN read ELSE Append(read, RowRead)
            /\ IF self.fetch = "early" THEN dbGetRow ELSE UNCHANGED <<result, row>>
            /\ inBody' = TRUE
            /\ todo' \in self.bodies
            /\ UNCHANGED status
  /\ UNCHANGED <<walker, i, size, failed>>

(* A query of the body.                                                    *)
query(rows) ==
  /\ status = "walking" /\ todo # <<>>
  /\ Head(todo) = "none" => rows = 0
  /\ IF Head(todo) = "command" THEN dbCommand ELSE dbSelect(FALSE, rows)
  /\ todo' = Tail(todo)
  /\ UNCHANGED <<walker, i, inBody, status, size, read, failed>>

queryFails ==
  /\ status = "walking" /\ todo # <<>>
  /\ dbCommand
  /\ todo' = Tail(todo)
  /\ failed' = TRUE
  /\ status' = IF Head(todo) = "idlist" THEN "dead" ELSE "walking"
  /\ UNCHANGED <<walker, i, inBody, size, read>>

nextRow ==
  /\ status = "walking" /\ inBody /\ todo = <<>>
  /\ IF self.fetch = "late" THEN dbGetRow ELSE UNCHANGED <<result, row>>
  /\ i' = i + 1
  /\ inBody' = FALSE
  /\ UNCHANGED <<walker, todo, status, size, read, failed>>

(* Mutant: every loop is left when a user is not found.                    *)
giveUp_everyLoop ==
  /\ status = "walking" /\ inBody
  /\ status' = IF self.lost = "dies" THEN "dead" ELSE "left"
  /\ todo' = <<>>
  /\ UNCHANGED <<result, row, walker, i, inBody, size, read, failed>>

giveUp ==
  /\ status = "walking" /\ inBody
  /\ self.lost # "goes on"
  /\ status' = IF self.lost = "dies" THEN "dead" ELSE "left"
  /\ todo' = <<>>
  /\ UNCHANGED <<result, row, walker, i, inBody, size, read, failed>>

endWalk ==
  /\ status = "walking" /\ ~inBody /\ i = size
  /\ status' = "done"
  /\ UNCHANGED <<result, row, walker, i, inBody, todo, size, read, failed>>

(* What a loop does of its own: it never waits, and the database answers,  *)
(* if only with an error.                                                  *)
walkOn ==
  \/ readRow
  \/ \E rows \in 0..1 : query(rows)
  \/ queryFails
  \/ nextRow
  \/ endWalk

DatabaseNext ==
  \/ \E w \in Walker : openFails(w) \/ \E rows \in 0..MaxRows : openWalk(w, rows)
  \/ readRow
  \/ \E rows \in 0..1 : query(rows)
  \/ queryFails
  \/ nextRow
  \/ giveUp
  \/ endWalk

DatabaseSpec == DatabaseInit /\ [][DatabaseNext]_databaseVars

(* A handler that has begun runs on by itself to its end.                  *)
FairDatabaseSpec == DatabaseSpec /\ WF_databaseVars(walkOn)

-----------------------------------------------------------------------------
(* Properties.                                                             *)

(* The loops implement the abstract walk: although every query takes the   *)
(* place of the result that a loop may be walking over, no loop reads a    *)
(* row of another query, reads a row twice, or comes to its end with rows  *)
(* unread (services.cpp:423, channel.cpp:341, dbmysql.cpp:95).             *)
Walk == INSTANCE RowWalk
ImplementsRowWalk == Walk!WalkSpec

(* As long as no query fails, the process dies only in a loop that walks   *)
(* over the connection's result and queries in its body, or that takes it  *)
(* for granted that the users of the table are online: all the loops over  *)
(* a copy, and those that only show what they read, come to their end.     *)
OnlyNestedWalksDie ==
  status = "dead" => failed \/ walker \in {"checkpoint", "banChan", "parseMDEOP"}

(* A loop that does not stop at a user who is gone comes to its end with   *)
(* all its rows read, however long its rows and its queries; only a query  *)
(* that fails lets it miss some, or die, and even then it comes to an end  *)
(* (lib/user.cpp:275, mod.note/note.cpp:351, mod.serv/serv.cpp:740).       *)
WalksComplete ==
  status = "walking" /\ self.lost = "goes on"
    ~> \/ status = "done" /\ (failed \/ Len(read) = size)
       \/ status = "dead" /\ failed
=============================================================================
