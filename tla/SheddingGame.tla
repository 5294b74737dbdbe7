---------------------------- MODULE SheddingGame ----------------------------
(***************************************************************************)
(* What a turn-based card game on a channel promises its players, whatever *)
(* its rules are: users join until the cards are dealt; from then on the   *)
(* roster is fixed and the players move one at a time; a move touches the  *)
(* hand of the player whose turn it is and no other; a card is in one      *)
(* place at a time, and a card that was put down is never drawn again; the *)
(* turn goes no further than to a neighbour at the table; and the game is  *)
(* over when, and only when, a player puts down the last card.             *)
(* source/modules/mod.game/exordi8.cpp is shown to implement this.         *)
(***************************************************************************)
EXTENDS Integers, Sequences

CONSTANTS
  User        \* users of the channel

VARIABLES
  phase,      \* "seeking" players, "playing" or "over"
  roster,     \* the players, in the order they joined
  turn,       \* position in the roster of the player to move
  hands,      \* the cards each user holds
  down        \* the cards put down

gameVars == <<phase, roster, turn, hands, down>>

Seated == {roster[i] : i \in DOMAIN roster}

(* The positions next to i at a table of n.                                *)
Neighbours(i, n) == {IF i = n THEN 1 ELSE i + 1, IF i = 1 THEN n ELSE i - 1}

SheddingInit ==
  /\ phase = "seeking"
  /\ \E u \in User : roster = <<u>>
  /\ turn = 1
  /\ hands = [u \in User |-> {}]
  /\ down = {}

Join(u) ==
  /\ phase = "seeking"
  /\ u \notin Seated
  /\ roster' = Append(roster, u)
  /\ UNCHANGED <<phase, turn, hands, down>>

Deal ==
  /\ phase = "seeking"
  /\ Len(roster) >= 2
  /\ phase' = "playing"
  /\ \A u \in User : hands'[u] # {} <=> u \in Seated
  /\ \A u, v \in User : u # v => hands'[u] \cap hands'[v] = {}
  /\ UNCHANGED <<roster, turn, down>>

(* The player to move may put down at most one card, and may draw cards    *)
(* that nobody held and nobody put down.                                   *)
Move ==
  LET p == roster[turn]
      drawn == hands'[p] \ hands[p]
      shed == hands[p] \ hands'[p]
  IN  /\ phase = "playing"
      /\ \A u \in User \ {p} : hands'[u] = hands[u]
      /\ \A c, d \in shed : c = d
      /\ down' = down \cup shed
      /\ drawn \cap down = {}
      /\ \A u \in User : drawn \cap hands[u] = {}
      /\ turn' \in {turn} \cup Neighbours(turn, Len(roster))
      /\ phase' = IF hands'[p] = {} THEN "over" ELSE "playing"
      /\ UNCHANGED roster

SheddingNext ==
  \/ \E u \in User : Join(u)
  \/ Deal
  \/ Move

SheddingSpec == SheddingInit /\ [][SheddingNext]_gameVars
=============================================================================
