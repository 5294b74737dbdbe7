---------------------------- MODULE ChannelGames ----------------------------
(***************************************************************************)
(* What the game service promises the users of a channel, whatever the     *)
(* game: at most one game at a time; users join until it begins; from then *)
(* on the roster is fixed, and only the player whose turn it is can move,  *)
(* pass the turn on or end the game.  Anybody may open a new game over the *)
(* one in play.  Games.tla is shown to implement this.                     *)
(***************************************************************************)
EXTENDS Integers, Sequences

CONSTANTS
  Channel,    \* names of channels
  User        \* users on them

VARIABLES
  phase,      \* of each channel: "none", "seeking" players or "playing"
  roster,     \* of each channel: the players, in the order they joined
  turn,       \* of each channel: position in the roster of the player to move
  speaker     \* the user whose line was acted on last

channelGamesVars == <<phase, roster, turn, speaker>>

Seated(ch) == {roster[ch][i] : i \in DOMAIN roster[ch]}

ChannelGamesInit ==
  /\ phase = [ch \in Channel |-> "none"]
  /\ roster = [ch \in Channel |-> <<>>]
  /\ turn = [ch \in Channel |-> 1]
  /\ speaker \in User

Open(ch, u) ==
  /\ phase' = [phase EXCEPT ![ch] = "seeking"]
  /\ roster' = [roster EXCEPT ![ch] = <<u>>]
  /\ turn' = [turn EXCEPT ![ch] = 1]
  /\ speaker' = u

Join(ch, u) ==
  /\ phase[ch] = "seeking"
  /\ u \notin Seated(ch)
  /\ roster' = [roster EXCEPT ![ch] = Append(@, u)]
  /\ speaker' = u
  /\ UNCHANGED <<phase, turn>>

Begin(ch, u) ==
  /\ phase[ch] = "seeking"
  /\ phase' = [phase EXCEPT ![ch] = "playing"]
  /\ speaker' = u
  /\ UNCHANGED <<roster, turn>>

Move(ch, u) ==
  /\ phase[ch] = "playing"
  /\ roster[ch][turn[ch]] = u
  /\ \E i \in DOMAIN roster[ch] : turn' = [turn EXCEPT ![ch] = i]
  /\ speaker' = u
  /\ UNCHANGED <<phase, roster>>

(* Nobody is disturbed who has a game to lose but the player to move.      *)
Close(ch, u) ==
  /\ phase[ch] # "none"
  /\ phase[ch] = "playing" => roster[ch][turn[ch]] = u
  /\ phase' = [phase EXCEPT ![ch] = "none"]
  /\ roster' = [roster EXCEPT ![ch] = <<>>]
  /\ turn' = [turn EXCEPT ![ch] = 1]
  /\ speaker' = u

(* The service stops, and every game with it.                              *)
Stop ==
  /\ phase' = [ch \in Channel |-> "none"]
  /\ roster' = [ch \in Channel |-> <<>>]
  /\ turn' = [ch \in Channel |-> 1]
  /\ UNCHANGED speaker

ChannelGamesNext ==
  \/ \E ch \in Channel, u \in User :
       Open(ch, u) \/ Join(ch, u) \/ Begin(ch, u) \/ Move(ch, u) \/ Close(ch, u)
  \/ Stop

ChannelGamesSpec == ChannelGamesInit /\ [][ChannelGamesNext]_channelGamesVars
=============================================================================
