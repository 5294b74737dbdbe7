-------------------------------- MODULE Games --------------------------------
(***************************************************************************)
(* The game service (source/modules/mod.game/game.cpp) with the games it   *)
(* runs on channels: Hangman (hangman.cpp) and Poker (poker.cpp) with each *)
(* of their commands, and Exordi8, which Exordi8.tla has in detail, as one *)
(* line of the player to move.  A line that is refused sends a message and *)
(* changes nothing.                                                        *)
(*                                                                         *)
(* A user is an object in the registry of online users: the players list   *)
(* of a game holds pointers to those objects and is not told of a quit.    *)
(* Users are compared by online ID, which is one ID for each user as long  *)
(* as no nickname has brackets (OnlineUsersProofs.tla).  The use of the    *)
(* object of a user who has gone may be the end of the process, which can  *)
(* come at any time here.                                                  *)
(*                                                                         *)
(* A word is the set of its letters.  The letters that were guessed wrong  *)
(* are only shown and never read, and so are the hands and the discards of *)
(* Poker, whose code stops short of the rules: neither is modelled.        *)
(***************************************************************************)
EXTENDS Integers, Sequences, FiniteSets

CONSTANTS
  Channel,         \* names of channels, folded
  User,            \* the users' objects
  Letter,          \* what a guess of length one may be
  NoGame,          \* no entry in channelGames
  maxPlayers,      \* 50
  maxWrongGuesses  \* 10

Kind == {"hangman", "poker", "exordi8"}

Game == [kind : Kind, players : Seq(User), playing : BOOLEAN, currentPlayer : Nat,
         word : SUBSET Letter, correctGuesses : SUBSET Letter, numWrongGuesses : Nat]

ASSUME GamesAssumption ==
  /\ User # {}
  /\ IsFiniteSet(Letter)
  /\ NoGame \notin Game
  /\ maxPlayers \in Nat \ {0}
  /\ maxWrongGuesses \in Nat \ {0}

VARIABLES
  channelGames,    \* the game on each channel, or NoGame
  joined,          \* the channels the service is on
  origin           \* the user whose line was acted on last

gamesVars == <<channelGames, joined, origin>>

HasGame(ch) == channelGames[ch] # NoGame
InPlay(ch) == HasGame(ch) /\ channelGames[ch].playing

isPlaying(g, u) == \E i \in DOMAIN g.players : g.players[i] = u

(* Mutant: a player is asked for, not the current one.                     *)
isTurnOf_anyPlayer(g, u) == g.playing /\ isPlaying(g, u)

isTurnOf(g, u) == g.playing /\ g.players[g.currentPlayer] = u

(* Mutant: nextPlayer does not wrap around.                                *)
nextPlayer_noWrap(g) == g.currentPlayer + 1

nextPlayer(g) ==
  IF g.currentPlayer = Len(g.players) THEN 1 ELSE g.currentPlayer + 1

(* Constructors of the games.  Members they leave unset are not read       *)
(* before the game begins.                                                 *)
newGame(k, u) ==
  [kind |-> k, players |-> <<u>>, playing |-> FALSE, currentPlayer |-> 1,
   word |-> {}, correctGuesses |-> {}, numWrongGuesses |-> 0]

(* A game's parser has returned false.                                     *)
leave(ch, u) ==
  /\ channelGames' = [channelGames EXCEPT ![ch] = NoGame]
  /\ joined' = joined \ {ch}
  /\ origin' = u

(* A game's parser has returned true and made the game g.                  *)
keep(ch, u, g) ==
  /\ channelGames' = [channelGames EXCEPT ![ch] = g]
  /\ origin' = u
  /\ UNCHANGED joined

-----------------------------------------------------------------------------
GamesInit ==
  /\ channelGames = [ch \in Channel |-> NoGame]
  /\ joined = {}
  /\ origin \in User

(* Anybody starts a game on any channel, also over one in play.            *)
handleSTART(ch, u, k) ==
  /\ channelGames' = [channelGames EXCEPT ![ch] = newGame(k, u)]
  /\ joined' = joined \cup {ch}
  /\ origin' = u

(* The same in all three games.                                            *)
parsePLAY(ch, u) ==
  /\ HasGame(ch)
  /\ LET g == channelGames[ch]
     IN  /\ ~g.playing
         /\ Len(g.players) < maxPlayers
         /\ ~isPlaying(g, u)
         /\ keep(ch, u, [g EXCEPT !.players = Append(@, u)])

(* Whoever says so deals, a player or not.                                 *)
parseDEAL(ch, u) ==
  /\ HasGame(ch)
  /\ LET g == channelGames[ch]
     IN  /\ g.kind \in {"poker", "exordi8"} /\ ~g.playing
         /\ Len(g.players) >= 2
         /\ keep(ch, u, [g EXCEPT !.playing = TRUE, !.currentPlayer = 1])

(* A discard, a pass, a card taken or a suit in Exordi8.                   *)
parseExordi8(ch, u) ==
  /\ HasGame(ch)
  /\ LET g == channelGames[ch]
     IN  /\ g.kind = "exordi8" /\ isTurnOf(g, u)
         /\ \/ leave(ch, u)
            \/ \E i \in DOMAIN g.players : keep(ch, u, [g EXCEPT !.currentPlayer = i])

(* The index that getLevelData draws may point past the list: the word can *)
(* be anything, even empty.                                                *)
getLevelData == SUBSET Letter

(* Whoever says so begins.  Without the dictionary the game is over.       *)
parseSTART(ch, u) ==
  /\ HasGame(ch)
  /\ LET g == channelGames[ch]
     IN  /\ g.kind = "hangman" /\ ~g.playing
         /\ \/ leave(ch, u)
            \/ \E w \in getLevelData :
                 keep(ch, u, [g EXCEPT !.playing = TRUE, !.currentPlayer = 1, !.word = w,
                                       !.correctGuesses = {}, !.numWrongGuesses = 0])

(* Mutant: a letter that was guessed before is no wrong guess.             *)
wrongLetter_repeatsAreFree(g, l) == l \notin g.word

(* The letter is not in the word, or was guessed before.                   *)
wrongLetter(g, l) == l \notin g.word \/ l \in g.correctGuesses

(* Mutant: one wrong guess more than allowed.                              *)
hung_lenient(g) == g.numWrongGuesses > maxWrongGuesses

hung(g) == g.numWrongGuesses >= maxWrongGuesses

(* What follows a guess that did not solve the word.                       *)
carryOn(ch, u, g) ==
  \/ hung(g) /\ leave(ch, u)
  \/ ~hung(g) /\ keep(ch, u, [g EXCEPT !.currentPlayer = nextPlayer(g)])

(* A guess of more than one letter.                                        *)
guessWord(ch, u) ==
  LET g == channelGames[ch]
  IN  \/ g.word # {} /\ leave(ch, u)
      \/ carryOn(ch, u, [g EXCEPT !.numWrongGuesses = @ + 1])

guessLetter(ch, u, l) ==
  LET g == channelGames[ch]
      h == [g EXCEPT !.correctGuesses = @ \cup {l}]
  IN  \/ wrongLetter(g, l) /\ carryOn(ch, u, [g EXCEPT !.numWrongGuesses = @ + 1])
      \/ ~wrongLetter(g, l) /\ g.word \subseteq h.correctGuesses /\ leave(ch, u)
      \/ ~wrongLetter(g, l) /\ ~(g.word \subseteq h.correctGuesses) /\ carryOn(ch, u, h)

parseGUESS(ch, u) ==
  /\ HasGame(ch)
  /\ channelGames[ch].kind = "hangman" /\ isTurnOf(channelGames[ch], u)
  /\ guessWord(ch, u) \/ \E l \in Letter : guessLetter(ch, u, l)

(* The process ends and is started again.                                  *)
startServices ==
  /\ channelGames' = [ch \in Channel |-> NoGame]
  /\ joined' = {}
  /\ UNCHANGED origin

GamesNext ==
  \/ \E ch \in Channel, u \in User :
       \/ \E k \in Kind : handleSTART(ch, u, k)
       \/ parsePLAY(ch, u) \/ parseDEAL(ch, u) \/ parseExordi8(ch, u)
       \/ parseSTART(ch, u) \/ parseGUESS(ch, u)
  \/ startServices

GamesSpec == GamesInit /\ [][GamesNext]_gamesVars

-----------------------------------------------------------------------------
(* The type of each game; while it is in play somebody has the turn.       *)
GamesTypeOK ==
  /\ channelGames \in [Channel -> Game \cup {NoGame}]
  /\ joined \in SUBSET Channel
  /\ origin \in User
  /\ \A ch \in Channel :
       HasGame(ch) => channelGames[ch].currentPlayer \in DOMAIN channelGames[ch].players

(* The service is on a channel exactly while it has a game there, through  *)
(* games started over others, games won and games that could not begin     *)
(* (game.cpp:112, :221).                                                   *)
JoinedForGames == joined = {ch \in Channel : HasGame(ch)}

(* A Hangman game in play is neither lost nor won: there are guesses left, *)
(* so that the next one has a picture to show (hangman.cpp:557 looks it up *)
(* before the limit is tested at :490), and there is a letter to be found  *)
(* unless the word has none.                                               *)
HangmanUndecided ==
  \A ch \in Channel :
    InPlay(ch) /\ channelGames[ch].kind = "hangman" =>
      LET g == channelGames[ch]
      IN  /\ g.numWrongGuesses < maxWrongGuesses
          /\ g.correctGuesses \subseteq g.word
          /\ g.word # {} => g.word # g.correctGuesses

(* The most guesses that a game can still take.                            *)
guessesLeft(g) ==
  Cardinality(g.word \ g.correctGuesses) + maxWrongGuesses - g.numWrongGuesses

(* A Hangman game cannot go on for ever: while one is in play it changes   *)
(* only by guesses, and each of them, a repeated letter too, brings it     *)
(* nearer to its end (hangman.cpp:429-477).                                *)
EveryGuessCounts ==
  [][\A ch \in Channel :
       InPlay(ch) /\ channelGames[ch].kind = "hangman"
         /\ InPlay(ch)' /\ channelGames'[ch] # channelGames[ch]
       => guessesLeft(channelGames'[ch]) < guessesLeft(channelGames[ch])]_gamesVars

phaseOf(g) == CASE g = NoGame -> "none"
                [] g # NoGame /\ g.playing -> "playing"
                [] OTHER -> "seeking"
rosterOf(g) == IF g = NoGame THEN <<>> ELSE g.players
turnOf(g) == IF g = NoGame THEN 1 ELSE g.currentPlayer

(* The service runs games as ChannelGames.tla describes them.              *)
Promised == INSTANCE ChannelGames WITH
  phase <- [ch \in Channel |-> phaseOf(channelGames[ch])],
  roster <- [ch \in Channel |-> rosterOf(channelGames[ch])],
  turn <- [ch \in Channel |-> turnOf(channelGames[ch])],
  speaker <- origin

ImplementsChannelGames == Promised!ChannelGamesSpec
=============================================================================
