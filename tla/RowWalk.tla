------------------------------ MODULE RowWalk ------------------------------
(***************************************************************************)
(* What a loop over the rows of a query promises: it reads rows of its own *)
(* query only, each once and in their order; it comes to its end only when *)
(* it has read all of them, unless a query failed meanwhile; and it may    *)
(* leave early, or take the process down with it.                          *)
(*                                                                         *)
(* There is no connection and no result here: Database shows that the      *)
(* loops of the services implement this.                                   *)
(***************************************************************************)
EXTENDS Naturals, Sequences

CONSTANT MaxRows  \* bound on the rows of a query

VARIABLES
  status,  \* how far the walk is
  size,    \* the number of rows of its query
  read,    \* the numbers of the rows it has read
  failed   \* whether a query has failed since the walk began

walkVars == <<status, size, read, failed>>

Over == {"idle", "done", "left"}

WalkInit ==
  /\ status = "idle"
  /\ size = 0
  /\ read = <<>>
  /\ failed = FALSE

Open ==
  /\ status \in Over
  /\ status' = "walking"
  /\ size' \in 0..MaxRows
  /\ read' = <<>>
  /\ failed' = FALSE

(* The query of the walk itself fails.                                     *)
OpenFails ==
  /\ status \in Over
  /\ status' \in {"walking", "left", "dead"}
  /\ size' = 0
  /\ read' = <<>>
  /\ failed' = TRUE

Read ==
  /\ status = "walking"
  /\ Len(read) < size
  /\ read' = Append(read, Len(read) + 1)
  /\ UNCHANGED <<status, size, failed>>

Fail ==
  /\ status = "walking"
  /\ failed' = TRUE
  /\ status' \in {"walking", "dead"}
  /\ UNCHANGED <<size, read>>

Finish ==
  /\ status = "walking"
  /\ Len(read) = size \/ failed
  /\ status' = "done"
  /\ UNCHANGED <<size, read, failed>>

LeaveOrDie ==
  /\ status = "walking"
  /\ status' \in {"left", "dead"}
  /\ UNCHANGED <<size, read, failed>>

WalkNext == Open \/ OpenFails \/ Read \/ Fail \/ Finish \/ LeaveOrDie

WalkSpec == WalkInit /\ [][WalkNext]_walkVars
=============================================================================
