----------------------------- MODULE GamesProofs -----------------------------
(* Theorems about Games: every game of the service is in order             *)
(* (GamesCorrect), every guess at Hangman brings its game nearer to its    *)
(* end (GuessesRunOut), and the service runs games as ChannelGames says    *)
(* (GamesImplementsChannelGames).                                          *)
EXTENDS Games, FiniteSetTheorems, TLAPS

(* What is true of every game in the map.  A game that is not in play has  *)
(* its first player to move, as the abstract one has.                      *)
Undecided(g) ==
  /\ g.numWrongGuesses < maxWrongGuesses
  /\ g.correctGuesses \subseteq g.word
  /\ g.word # {} => g.word # g.correctGuesses

InOrder(g) ==
  /\ g \in Game
  /\ g.currentPlayer \in DOMAIN g.players
  /\ ~g.playing => g.currentPlayer = 1
  /\ g.playing /\ g.kind = "hangman" => Undecided(g)

GamesInv ==
  /\ channelGames \in [Channel -> Game \cup {NoGame}]
  /\ joined = {ch \in Channel : HasGame(ch)}
  /\ origin \in User
  /\ \A ch \in Channel : HasGame(ch) => InOrder(channelGames[ch])

(* The ways in which a line of user u makes the game h of the game g.      *)
Joins(g, h, u) ==
  /\ ~g.playing /\ ~h.playing
  /\ ~isPlaying(g, u)
  /\ h.players = Append(g.players, u)

Begins(g, h) ==
  /\ ~g.playing /\ h.playing
  /\ h.players = g.players
  /\ h.currentPlayer = 1

Moves(g, h, u) ==
  /\ g.playing /\ h.playing
  /\ g.players[g.currentPlayer] = u
  /\ h.players = g.players
  /\ g.kind = "hangman" => guessesLeft(h) < guessesLeft(g)

(* What a line does to the game on channel ch.                             *)
Ends(ch, u) ==
  /\ HasGame(ch)
  /\ InPlay(ch) => channelGames[ch].players[channelGames[ch].currentPlayer] = u
  /\ leave(ch, u)

GoesOn(ch, u) ==
  /\ HasGame(ch)
  /\ \E h \in Game :
       /\ InOrder(h)
       /\ \/ Joins(channelGames[ch], h, u) \/ Begins(channelGames[ch], h)
          \/ Moves(channelGames[ch], h, u)
       /\ keep(ch, u, h)

-----------------------------------------------------------------------------
(* The next player is one of the players.                                  *)
LEMMA NextIsPlayer ==
  ASSUME NEW g \in Game, g.currentPlayer \in DOMAIN g.players
  PROVE  nextPlayer(g) \in DOMAIN g.players
BY DEF nextPlayer, Game

(* A wrong guess brings the game nearer to its end.                        *)
LEMMA WrongGuess ==
  ASSUME NEW ch \in Channel, NEW u \in User, NEW g \in Game, InOrder(g),
         g = channelGames[ch], HasGame(ch), g.kind = "hangman", isTurnOf(g, u),
         carryOn(ch, u, [g EXCEPT !.numWrongGuesses = @ + 1])
  PROVE  Ends(ch, u) \/ GoesOn(ch, u)
<1> DEFINE h == [g EXCEPT !.numWrongGuesses = @ + 1]
           k == [h EXCEPT !.currentPlayer = nextPlayer(h)]
<1>1. h \in Game /\ h.players = g.players /\ h.currentPlayer = g.currentPlayer
      /\ h.kind = "hangman" /\ h.playing = g.playing
      /\ h.word = g.word /\ h.correctGuesses = g.correctGuesses
      /\ h.numWrongGuesses = g.numWrongGuesses + 1
  BY DEF Game
<1>2. CASE hung(h) /\ leave(ch, u)
  BY <1>2 DEF Ends, isTurnOf, InPlay
<1>3. CASE ~hung(h) /\ keep(ch, u, k)
  <2>1. nextPlayer(h) \in DOMAIN g.players
    BY <1>1, NextIsPlayer DEF InOrder
  <2>2. k \in Game /\ k.players = g.players /\ k.currentPlayer = nextPlayer(h)
        /\ k.kind = "hangman" /\ k.playing = g.playing
        /\ k.word = g.word /\ k.correctGuesses = g.correctGuesses
        /\ k.numWrongGuesses = g.numWrongGuesses + 1
    <3> HIDE DEF h
    <3> QED BY <1>1, <2>1 DEF Game
  <2>3. Undecided(k)
    <3>1. Undecided(g)
      BY DEF InOrder, isTurnOf
    <3>2. k.numWrongGuesses < maxWrongGuesses
      <4> HIDE DEF k, h
      <4> QED BY <1>1, <1>3, <2>2, GamesAssumption DEF hung, Game
    <3> HIDE DEF k, h
    <3> QED BY <2>2, <3>1, <3>2 DEF Undecided
  <2>4. guessesLeft(k) < guessesLeft(g)
    <3>1. Cardinality(g.word \ g.correctGuesses) \in Nat
      <4>1. IsFiniteSet(g.word \ g.correctGuesses)
        BY FS_Subset, GamesAssumption DEF Game
      <4> QED BY <4>1, FS_CardinalityType
    <3>2. g.numWrongGuesses \in Nat /\ maxWrongGuesses \in Nat
      BY GamesAssumption DEF Game
    <3> HIDE DEF k, h
    <3> QED BY <2>2, <3>1, <3>2 DEF guessesLeft
  <2>5. InOrder(k)
    <3> HIDE DEF k, h
    <3> QED BY <2>1, <2>2, <2>3 DEF InOrder, isTurnOf
  <2>6. Moves(g, k, u)
    <3> HIDE DEF k, h
    <3> QED BY <2>2, <2>4 DEF Moves, isTurnOf
  <2> HIDE DEF k, h
  <2> QED BY <1>3, <2>2, <2>5, <2>6 DEF GoesOn
<1> QED BY <1>2, <1>3 DEF carryOn

(* So does a letter of the word that was not guessed before.               *)
LEMMA RightLetter ==
  ASSUME NEW ch \in Channel, NEW u \in User, NEW g \in Game, InOrder(g),
         g = channelGames[ch], HasGame(ch), g.kind = "hangman", isTurnOf(g, u),
         NEW l \in Letter, ~wrongLetter(g, l),
         ~(g.word \subseteq g.correctGuesses \cup {l}),
         carryOn(ch, u, [g EXCEPT !.correctGuesses = @ \cup {l}])
  PROVE  GoesOn(ch, u)
<1> DEFINE h == [g EXCEPT !.correctGuesses = @ \cup {l}]
           k == [h EXCEPT !.currentPlayer = nextPlayer(h)]
<1>1. h \in Game /\ h.players = g.players /\ h.currentPlayer = g.currentPlayer
      /\ h.kind = "hangman" /\ h.playing = g.playing
      /\ h.word = g.word /\ h.correctGuesses = g.correctGuesses \cup {l}
      /\ h.numWrongGuesses = g.numWrongGuesses
  BY DEF Game
<1>2. Undecided(g)
  BY DEF InOrder, isTurnOf
<1>3. ~hung(h) /\ keep(ch, u, k)
  <2>1. ~hung(h)
    <3> HIDE DEF h
    <3> QED BY <1>1, <1>2, GamesAssumption DEF hung, Undecided, Game
  <2> QED BY <2>1 DEF carryOn
<1>4. nextPlayer(h) \in DOMAIN g.players
  BY <1>1, NextIsPlayer DEF InOrder
<1>5. k \in Game /\ k.players = g.players /\ k.currentPlayer = nextPlayer(h)
      /\ k.kind = "hangman" /\ k.playing = g.playing
      /\ k.word = g.word /\ k.correctGuesses = g.correctGuesses \cup {l}
      /\ k.numWrongGuesses = g.numWrongGuesses
  <2> HIDE DEF h
  <2> QED BY <1>1, <1>4 DEF Game
<1>6. InOrder(k)
  <2> HIDE DEF k, h
  <2>1. Undecided(k)
    BY <1>2, <1>5 DEF Undecided, wrongLetter
  <2> QED BY <1>4, <1>5, <2>1 DEF InOrder, isTurnOf
<1>7. guessesLeft(k) < guessesLeft(g)
  <2> DEFINE A == g.word \ g.correctGuesses
             B == g.word \ k.correctGuesses
  <2>1. IsFiniteSet(A)
    BY FS_Subset, GamesAssumption DEF Game
  <2>2. B \subseteq A /\ B # A
    <3> HIDE DEF k, h
    <3> QED BY <1>5 DEF wrongLetter
  <2>3. Cardinality(A) \in Nat /\ Cardinality(B) \in Nat /\ Cardinality(B) < Cardinality(A)
    <3> HIDE DEF A, B, k, h
    <3>1. IsFiniteSet(B) /\ Cardinality(B) <= Cardinality(A)
          /\ (Cardinality(B) = Cardinality(A) => B = A)
      BY <2>1, <2>2, FS_Subset
    <3> QED BY <2>1, <2>2, <3>1, FS_CardinalityType
  <2>4. g.numWrongGuesses \in Nat /\ maxWrongGuesses \in Nat
    BY GamesAssumption DEF Game
  <2>5. guessesLeft(k) = Cardinality(B) + maxWrongGuesses - g.numWrongGuesses
    <3> HIDE DEF k, h
    <3> QED BY <1>5 DEF guessesLeft
  <2>6. guessesLeft(g) = Cardinality(A) + maxWrongGuesses - g.numWrongGuesses
    BY DEF guessesLeft
  <2> HIDE DEF A, B, k, h
  <2> QED BY <2>3, <2>4, <2>5, <2>6
<1>8. Moves(g, k, u)
  <2> HIDE DEF k, h
  <2> QED BY <1>5, <1>7 DEF Moves, isTurnOf
<1> HIDE DEF k, h
<1> QED BY <1>3, <1>5, <1>6, <1>8 DEF GoesOn

-----------------------------------------------------------------------------
(* The other lines, each of which starts, continues or ends one game.      *)
LEMMA JoinStep ==
  ASSUME GamesInv, NEW ch \in Channel, NEW u \in User, parsePLAY(ch, u)
  PROVE  GoesOn(ch, u)
<1> DEFINE g == channelGames[ch]
           h == [g EXCEPT !.players = Append(g.players, u)]
<1>1. HasGame(ch) /\ ~g.playing /\ ~isPlaying(g, u) /\ keep(ch, u, h)
  BY DEF parsePLAY
<1>2. g \in Game /\ InOrder(g)
  BY <1>1 DEF GamesInv, InOrder
<1>3. h \in Game /\ h.players = Append(g.players, u) /\ h.playing = g.playing
      /\ h.currentPlayer = g.currentPlayer
  <2> HIDE DEF g
  <2>1. Append(g.players, u) \in Seq(User)
    BY <1>2 DEF Game
  <2> QED BY <1>2, <2>1 DEF Game
<1>4. h.currentPlayer \in DOMAIN h.players
  <2> HIDE DEF g, h
  <2>1. g.players \in Seq(User) /\ g.currentPlayer \in DOMAIN g.players
    BY <1>2 DEF InOrder, Game
  <2>2. g.currentPlayer \in DOMAIN Append(g.players, u)
    BY <2>1
  <2> QED BY <1>3, <2>2
<1> HIDE DEF h
<1> QED BY <1>1, <1>2, <1>3, <1>4 DEF GoesOn, Joins, InOrder

LEMMA DealStep ==
  ASSUME GamesInv, NEW ch \in Channel, NEW u \in User, parseDEAL(ch, u)
  PROVE  GoesOn(ch, u)
<1> DEFINE g == channelGames[ch]
           h == [g EXCEPT !.playing = TRUE, !.currentPlayer = 1]
<1>1. HasGame(ch) /\ ~g.playing /\ g.kind # "hangman" /\ Len(g.players) >= 2
      /\ keep(ch, u, h)
  BY DEF parseDEAL
<1>2. g \in Game /\ InOrder(g)
  BY <1>1 DEF GamesInv, InOrder
<1>3. h \in Game /\ h.players = g.players /\ h.playing = TRUE /\ h.kind = g.kind
      /\ h.currentPlayer = 1
  <2> HIDE DEF g
  <2> QED BY <1>2 DEF Game
<1>4. h.currentPlayer \in DOMAIN h.players
  <2> HIDE DEF g, h
  <2> QED BY <1>1, <1>2, <1>3 DEF Game
<1> HIDE DEF h
<1> QED BY <1>1, <1>2, <1>3, <1>4 DEF GoesOn, Begins, InOrder

LEMMA Exordi8Step ==
  ASSUME GamesInv, NEW ch \in Channel, NEW u \in User, parseExordi8(ch, u)
  PROVE  Ends(ch, u) \/ GoesOn(ch, u)
<1> DEFINE g == channelGames[ch]
           h(i) == [g EXCEPT !.currentPlayer = i]
<1>1. HasGame(ch) /\ g.kind = "exordi8" /\ isTurnOf(g, u)
  BY DEF parseExordi8
<1>2. g \in Game /\ InOrder(g)
  BY <1>1 DEF GamesInv, InOrder
<1>3. CASE leave(ch, u)
  BY <1>1, <1>3 DEF Ends, isTurnOf
<1>4. ASSUME NEW i \in DOMAIN g.players, keep(ch, u, h(i))
      PROVE  GoesOn(ch, u)
  <2>1. i \in Nat
    <3> HIDE DEF g
    <3> QED BY <1>2 DEF Game
  <2>2. h(i) \in Game /\ h(i).players = g.players /\ h(i).playing = g.playing
        /\ h(i).kind = g.kind /\ h(i).currentPlayer = i
    <3> HIDE DEF g
    <3> QED BY <1>2, <2>1 DEF Game
  <2> HIDE DEF h
  <2> QED BY <1>1, <1>2, <1>4, <2>2 DEF GoesOn, Moves, InOrder, isTurnOf
<1> QED BY <1>3, <1>4 DEF parseExordi8

LEMMA StartStep ==
  ASSUME GamesInv, NEW ch \in Channel, NEW u \in User, parseSTART(ch, u)
  PROVE  Ends(ch, u) \/ GoesOn(ch, u)
<1> DEFINE g == channelGames[ch]
           h(w) == [g EXCEPT !.playing = TRUE, !.currentPlayer = 1, !.word = w,
                             !.correctGuesses = {}, !.numWrongGuesses = 0]
<1>1. HasGame(ch) /\ g.kind = "hangman" /\ ~g.playing
  BY DEF parseSTART
<1>2. g \in Game /\ InOrder(g)
  BY <1>1 DEF GamesInv, InOrder
<1>3. CASE leave(ch, u)
  BY <1>1, <1>3 DEF Ends, InPlay
<1>4. ASSUME NEW w \in SUBSET Letter, keep(ch, u, h(w))
      PROVE  GoesOn(ch, u)
  <2>1. h(w) \in Game /\ h(w).players = g.players /\ h(w).playing = TRUE
        /\ h(w).currentPlayer = 1 /\ h(w).word = w /\ h(w).correctGuesses = {}
        /\ h(w).numWrongGuesses = 0
    <3> HIDE DEF g
    <3> QED BY <1>2 DEF Game
  <2> HIDE DEF h
  <2>2. 1 \in DOMAIN g.players
    <3> HIDE DEF g
    <3> QED BY <1>1, <1>2 DEF InOrder
  <2>3. Undecided(h(w))
    BY <2>1, GamesAssumption DEF Undecided
  <2> QED BY <1>1, <1>4, <2>1, <2>2, <2>3 DEF GoesOn, Begins, InOrder
<1> QED BY <1>3, <1>4 DEF parseSTART, getLevelData

LEMMA GuessStep ==
  ASSUME GamesInv, NEW ch \in Channel, NEW u \in User, parseGUESS(ch, u)
  PROVE  Ends(ch, u) \/ GoesOn(ch, u)
<1> DEFINE g == channelGames[ch]
<1>1. HasGame(ch) /\ g.kind = "hangman" /\ isTurnOf(g, u)
  BY DEF parseGUESS
<1>2. g \in Game /\ InOrder(g)
  BY <1>1 DEF GamesInv, InOrder
<1>3. CASE leave(ch, u)
  BY <1>1, <1>3 DEF Ends, isTurnOf
<1>4. CASE carryOn(ch, u, [g EXCEPT !.numWrongGuesses = @ + 1])
  BY <1>1, <1>2, <1>4, WrongGuess
<1>5. ASSUME NEW l \in Letter, ~wrongLetter(g, l),
             ~(g.word \subseteq g.correctGuesses \cup {l}),
             carryOn(ch, u, [g EXCEPT !.correctGuesses = @ \cup {l}])
      PROVE  GoesOn(ch, u)
  BY <1>1, <1>2, <1>5, RightLetter
<1>6. CASE guessWord(ch, u)
  BY <1>3, <1>4, <1>6 DEF guessWord
<1>7. ASSUME NEW l \in Letter, guessLetter(ch, u, l)
      PROVE  Ends(ch, u) \/ GoesOn(ch, u)
  <2> DEFINE h == [g EXCEPT !.correctGuesses = @ \cup {l}]
  <2>1. h.correctGuesses = g.correctGuesses \cup {l}
    <3> HIDE DEF g
    <3> QED BY <1>2 DEF Game
  <2>2. \/ carryOn(ch, u, [g EXCEPT !.numWrongGuesses = @ + 1])
        \/ leave(ch, u)
        \/ ~wrongLetter(g, l) /\ ~(g.word \subseteq h.correctGuesses) /\ carryOn(ch, u, h)
    BY <1>7 DEF guessLetter
  <2> QED BY <1>3, <1>4, <1>5, <2>1, <2>2
<1> QED BY <1>6, <1>7 DEF parseGUESS

(* So every step opens a game, goes on with one, ends one, or ends all.    *)
LEMMA GameSteps ==
  ASSUME GamesInv, GamesNext
  PROVE  \/ startServices
         \/ \E ch \in Channel, u \in User :
              \/ \E k \in Kind : handleSTART(ch, u, k)
              \/ Ends(ch, u) \/ GoesOn(ch, u)
<1>1. CASE startServices
  BY <1>1
<1>2. ASSUME NEW ch \in Channel, NEW u \in User, NEW k \in Kind, handleSTART(ch, u, k)
      PROVE  \E c \in Channel, v \in User : \E j \in Kind : handleSTART(c, v, j)
  BY <1>2
<1>3. ASSUME NEW ch \in Channel, NEW u \in User,
             \/ parsePLAY(ch, u) \/ parseDEAL(ch, u) \/ parseExordi8(ch, u)
             \/ parseSTART(ch, u) \/ parseGUESS(ch, u)
      PROVE  Ends(ch, u) \/ GoesOn(ch, u)
  BY <1>3, JoinStep, DealStep, Exordi8Step, StartStep, GuessStep
<1> QED BY <1>1, <1>2, <1>3 DEF GamesNext

-----------------------------------------------------------------------------
(* The invariant is inductive.                                             *)
LEMMA InvInit == GamesInit => GamesInv
BY DEF GamesInit, GamesInv, HasGame

LEMMA NewGameInOrder ==
  ASSUME NEW k \in Kind, NEW u \in User
  PROVE  newGame(k, u) \in Game /\ InOrder(newGame(k, u))
<1> DEFINE g == newGame(k, u)
<1>1. <<u>> \in Seq(User) /\ 1 \in DOMAIN <<u>>
  OBVIOUS
<1>2. g \in Game /\ g.playing = FALSE /\ g.currentPlayer = 1 /\ g.players = <<u>>
  BY <1>1 DEF newGame, Game
<1> QED BY <1>1, <1>2 DEF InOrder

LEMMA InvNext == GamesInv /\ [GamesNext]_gamesVars => GamesInv'
<1> SUFFICES ASSUME GamesInv, [GamesNext]_gamesVars
             PROVE  GamesInv'
  OBVIOUS
<1>0. NoGame \notin Game
  BY GamesAssumption
<1>1. CASE UNCHANGED gamesVars
  BY <1>1 DEF GamesInv, gamesVars, HasGame
<1>2. CASE startServices
  BY <1>2 DEF startServices, GamesInv, HasGame
<1>3. ASSUME NEW ch \in Channel, NEW u \in User, NEW k \in Kind, handleSTART(ch, u, k)
      PROVE  GamesInv'
  <2> DEFINE g == newGame(k, u)
  <2>1. g \in Game /\ InOrder(g)
    BY NewGameInOrder
  <2> HIDE DEF g
  <2>2. channelGames' = [channelGames EXCEPT ![ch] = g] /\ joined' = joined \cup {ch} /\ origin' = u
    BY <1>3 DEF handleSTART, g
  <2> QED BY <1>0, <2>1, <2>2 DEF GamesInv, HasGame
<1>4. ASSUME NEW ch \in Channel, NEW u \in User, Ends(ch, u)
      PROVE  GamesInv'
  BY <1>4 DEF Ends, leave, GamesInv, HasGame
<1>5. ASSUME NEW ch \in Channel, NEW u \in User, GoesOn(ch, u)
      PROVE  GamesInv'
  <2>1. PICK h \in Game : InOrder(h) /\ keep(ch, u, h)
    BY <1>5 DEF GoesOn
  <2>2. HasGame(ch)
    BY <1>5 DEF GoesOn
  <2> QED BY <1>0, <2>1, <2>2 DEF keep, GamesInv, HasGame
<1> QED BY <1>1, <1>2, <1>3, <1>4, <1>5, GameSteps

LEMMA Invariance == GamesSpec => []GamesInv
BY InvInit, InvNext, PTL DEF GamesSpec

(* Every game is well formed and has a player to move; the service is on   *)
(* the channels that have a game; and Hangman games in play are undecided  *)
(* (game.cpp:203-228, :95-121, hangman.cpp:403-506).                       *)
THEOREM GamesCorrect == GamesSpec => [](GamesTypeOK /\ JoinedForGames /\ HangmanUndecided)
<1>1. GamesInv => GamesTypeOK /\ JoinedForGames /\ HangmanUndecided
  BY DEF GamesInv, GamesTypeOK, JoinedForGames, HangmanUndecided, InOrder, Undecided, InPlay
<1> QED BY <1>1, Invariance, PTL

(* Every guess at Hangman brings its game nearer to its end                *)
(* (hangman.cpp:429-477).                                                  *)
THEOREM GuessesRunOut == GamesSpec => EveryGuessCounts
<1> DEFINE Counts ==
      \A ch \in Channel :
        InPlay(ch) /\ channelGames[ch].kind = "hangman"
          /\ InPlay(ch)' /\ channelGames'[ch] # channelGames[ch]
        => guessesLeft(channelGames'[ch]) < guessesLeft(channelGames[ch])
<1>1. ASSUME GamesInv, [GamesNext]_gamesVars
      PROVE  [Counts]_gamesVars
  <2> SUFFICES ASSUME GamesNext, NEW ch \in Channel,
                      InPlay(ch), channelGames[ch].kind = "hangman",
                      InPlay(ch)', channelGames'[ch] # channelGames[ch]
               PROVE  guessesLeft(channelGames'[ch]) < guessesLeft(channelGames[ch])
    BY <1>1
  <2>1. channelGames'[ch] # NoGame /\ channelGames'[ch].playing
    BY DEF InPlay, HasGame
  <2>2. CASE startServices
    BY <2>1, <2>2 DEF startServices
  <2>3. ASSUME NEW c \in Channel, NEW u \in User, NEW k \in Kind, handleSTART(c, u, k)
        PROVE  FALSE
    BY <1>1, <2>1, <2>3 DEF handleSTART, newGame, GamesInv
  <2>4. ASSUME NEW c \in Channel, NEW u \in User, Ends(c, u)
        PROVE  FALSE
    BY <1>1, <2>1, <2>4 DEF Ends, leave, GamesInv
  <2>5. ASSUME NEW c \in Channel, NEW u \in User, GoesOn(c, u)
        PROVE  guessesLeft(channelGames'[ch]) < guessesLeft(channelGames[ch])
    <3>1. PICK h \in Game :
            /\ \/ Joins(channelGames[c], h, u) \/ Begins(channelGames[c], h)
               \/ Moves(channelGames[c], h, u)
            /\ channelGames' = [channelGames EXCEPT ![c] = h]
      BY <2>5 DEF GoesOn, keep
    <3>2. c = ch /\ channelGames'[ch] = h
      BY <1>1, <3>1 DEF GamesInv
    <3>3. Moves(channelGames[ch], h, u)
      BY <3>1, <3>2 DEF Joins, Begins, InPlay
    <3> QED BY <3>2, <3>3 DEF Moves
  <2> QED BY <1>1, <2>2, <2>3, <2>4, <2>5, GameSteps
<1> QED BY <1>1, Invariance, PTL DEF GamesSpec, EveryGuessCounts, Counts

-----------------------------------------------------------------------------
(* The abstract state, by names of its own.                                *)
phases == [ch \in Channel |-> phaseOf(channelGames[ch])]
rosters == [ch \in Channel |-> rosterOf(channelGames[ch])]
turns == [ch \in Channel |-> turnOf(channelGames[ch])]

(* A function that differs from another at one place.                      *)
LEMMA OnePlace ==
  ASSUME NEW S, NEW x \in S, NEW v, NEW f, NEW h,
         f = [y \in S |-> f[y]], h = [y \in S |-> h[y]],
         h[x] = v, \A y \in S \ {x} : h[y] = f[y]
  PROVE  h = [f EXCEPT ![x] = v]
OBVIOUS

(* What becomes of it when the game on ch becomes g.                       *)
LEMMA AbstractChange ==
  ASSUME GamesInv, NEW ch \in Channel, NEW g,
         channelGames' = [channelGames EXCEPT ![ch] = g]
  PROVE  /\ phases' = [phases EXCEPT ![ch] = phaseOf(g)]
         /\ rosters' = [rosters EXCEPT ![ch] = rosterOf(g)]
         /\ turns' = [turns EXCEPT ![ch] = turnOf(g)]
<1>1. channelGames'[ch] = g /\ \A c \in Channel \ {ch} : channelGames'[c] = channelGames[c]
  BY DEF GamesInv
<1>2. /\ phases' = [c \in Channel |-> phaseOf(channelGames'[c])]
      /\ rosters' = [c \in Channel |-> rosterOf(channelGames'[c])]
      /\ turns' = [c \in Channel |-> turnOf(channelGames'[c])]
  BY DEF phases, rosters, turns
<1>3. /\ phases'[ch] = phaseOf(g)
      /\ rosters'[ch] = rosterOf(g)
      /\ turns'[ch] = turnOf(g)
  BY <1>1, <1>2
<1>4. \A c \in Channel \ {ch} :
        /\ phases'[c] = phases[c]
        /\ rosters'[c] = rosters[c]
        /\ turns'[c] = turns[c]
  BY <1>1, <1>2 DEF phases, rosters, turns
<1>5. /\ phases = [c \in Channel |-> phases[c]] /\ phases' = [c \in Channel |-> phases'[c]]
      /\ rosters = [c \in Channel |-> rosters[c]] /\ rosters' = [c \in Channel |-> rosters'[c]]
      /\ turns = [c \in Channel |-> turns[c]] /\ turns' = [c \in Channel |-> turns'[c]]
  BY <1>2 DEF phases, rosters, turns
<1> QED BY <1>3, <1>4, <1>5, OnePlace

LEMMA AbstractGame ==
  ASSUME NEW g \in Game
  PROVE  /\ phaseOf(g) = IF g.playing THEN "playing" ELSE "seeking"
         /\ rosterOf(g) = g.players
         /\ turnOf(g) = g.currentPlayer
BY GamesAssumption DEF phaseOf, rosterOf, turnOf

LEMMA OpenStep ==
  ASSUME GamesInv, NEW ch \in Channel, NEW u \in User, NEW k \in Kind, handleSTART(ch, u, k)
  PROVE  Promised!Open(ch, u)
<1> DEFINE g == newGame(k, u)
<1>1. g \in Game /\ g.players = <<u>> /\ g.playing = FALSE /\ g.currentPlayer = 1
  BY NewGameInOrder DEF newGame
<1>2. channelGames' = [channelGames EXCEPT ![ch] = g] /\ origin' = u
  BY DEF handleSTART
<1> HIDE DEF g
<1>3. /\ phases' = [phases EXCEPT ![ch] = "seeking"]
      /\ rosters' = [rosters EXCEPT ![ch] = <<u>>]
      /\ turns' = [turns EXCEPT ![ch] = 1]
  <2>1. phaseOf(g) = "seeking" /\ rosterOf(g) = <<u>> /\ turnOf(g) = 1
    BY <1>1, AbstractGame
  <2>2. /\ phases' = [phases EXCEPT ![ch] = phaseOf(g)]
        /\ rosters' = [rosters EXCEPT ![ch] = rosterOf(g)]
        /\ turns' = [turns EXCEPT ![ch] = turnOf(g)]
    BY <1>2, AbstractChange
  <2> QED BY <2>1, <2>2
<1> QED BY <1>2, <1>3 DEF Promised!Open, phases, rosters, turns

LEMMA CloseStep ==
  ASSUME GamesInv, NEW ch \in Channel, NEW u \in User, Ends(ch, u)
  PROVE  Promised!Close(ch, u)
<1>1. channelGames' = [channelGames EXCEPT ![ch] = NoGame] /\ origin' = u
  BY DEF Ends, leave
<1>3. /\ phases' = [phases EXCEPT ![ch] = "none"]
      /\ rosters' = [rosters EXCEPT ![ch] = <<>>]
      /\ turns' = [turns EXCEPT ![ch] = 1]
  BY <1>1, AbstractChange DEF phaseOf, rosterOf, turnOf
<1>4. HasGame(ch) /\ channelGames[ch] \in Game
  BY DEF Ends, HasGame, GamesInv
<1>5. /\ phases[ch] = IF channelGames[ch].playing THEN "playing" ELSE "seeking"
      /\ rosters[ch] = channelGames[ch].players
      /\ turns[ch] = channelGames[ch].currentPlayer
  BY <1>4, AbstractGame DEF phases, rosters, turns
<1>6. phases[ch] # "none" /\ (phases[ch] = "playing" => rosters[ch][turns[ch]] = u)
  BY <1>4, <1>5 DEF Ends, InPlay
<1> QED BY <1>1, <1>3, <1>6 DEF Promised!Close, phases, rosters, turns

LEMMA KeepStep ==
  ASSUME GamesInv, NEW ch \in Channel, NEW u \in User, GoesOn(ch, u)
  PROVE  Promised!Join(ch, u) \/ Promised!Begin(ch, u) \/ Promised!Move(ch, u)
<1> DEFINE g == channelGames[ch]
<1>1. HasGame(ch) /\ g \in Game /\ InOrder(g)
  BY DEF GoesOn, GamesInv, InOrder
<1>2. PICK h \in Game :
        /\ InOrder(h)
        /\ Joins(g, h, u) \/ Begins(g, h) \/ Moves(g, h, u)
        /\ channelGames' = [channelGames EXCEPT ![ch] = h] /\ origin' = u
  BY DEF GoesOn, keep
<1>3. /\ phases' = [phases EXCEPT ![ch] = IF h.playing THEN "playing" ELSE "seeking"]
      /\ rosters' = [rosters EXCEPT ![ch] = h.players]
      /\ turns' = [turns EXCEPT ![ch] = h.currentPlayer]
  <2>1. /\ phaseOf(h) = IF h.playing THEN "playing" ELSE "seeking"
        /\ rosterOf(h) = h.players /\ turnOf(h) = h.currentPlayer
    BY AbstractGame
  <2>2. /\ phases' = [phases EXCEPT ![ch] = phaseOf(h)]
        /\ rosters' = [rosters EXCEPT ![ch] = rosterOf(h)]
        /\ turns' = [turns EXCEPT ![ch] = turnOf(h)]
    BY <1>2, AbstractChange
  <2> QED BY <2>1, <2>2
<1>4. /\ phases[ch] = IF g.playing THEN "playing" ELSE "seeking"
      /\ rosters[ch] = g.players
      /\ turns[ch] = g.currentPlayer
  BY <1>1, AbstractGame DEF phases, rosters, turns
<1>5. /\ DOMAIN phases = Channel /\ DOMAIN rosters = Channel /\ DOMAIN turns = Channel
      /\ phases = [c \in Channel |-> phases[c]]
      /\ rosters = [c \in Channel |-> rosters[c]]
      /\ turns = [c \in Channel |-> turns[c]]
  BY DEF phases, rosters, turns
<1> HIDE DEF g
<1>6. CASE Joins(g, h, u)
  <2>1. phases' = phases /\ turns' = turns
    BY <1>1, <1>2, <1>3, <1>4, <1>5, <1>6 DEF Joins, InOrder
  <2>2. phases[ch] = "seeking" /\ rosters' = [rosters EXCEPT ![ch] = Append(@, u)]
    BY <1>3, <1>4, <1>5, <1>6 DEF Joins
  <2>3. u \notin {rosters[ch][i] : i \in DOMAIN rosters[ch]}
    BY <1>4, <1>6 DEF Joins, isPlaying
  <2> QED BY <1>2, <2>1, <2>2, <2>3 DEF Promised!Join, Promised!Seated, phases, rosters, turns
<1>7. CASE Begins(g, h)
  <2>1. rosters' = rosters /\ turns' = turns
    BY <1>1, <1>3, <1>4, <1>5, <1>7 DEF Begins, InOrder
  <2>2. phases[ch] = "seeking" /\ phases' = [phases EXCEPT ![ch] = "playing"]
    BY <1>3, <1>4, <1>7 DEF Begins
  <2> QED BY <1>2, <2>1, <2>2 DEF Promised!Begin, phases, rosters, turns
<1>8. CASE Moves(g, h, u)
  <2>1. rosters' = rosters /\ phases' = phases
    BY <1>3, <1>4, <1>5, <1>8 DEF Moves
  <2>2. phases[ch] = "playing" /\ rosters[ch][turns[ch]] = u
    BY <1>4, <1>8 DEF Moves
  <2>3. \E i \in DOMAIN rosters[ch] : turns' = [turns EXCEPT ![ch] = i]
    BY <1>2, <1>3, <1>4, <1>8 DEF Moves, InOrder
  <2> QED BY <1>2, <2>1, <2>2, <2>3 DEF Promised!Move, phases, rosters, turns
<1> QED BY <1>2, <1>6, <1>7, <1>8

LEMMA PromisedNext ==
  GamesInv /\ [GamesNext]_gamesVars
    => [Promised!ChannelGamesNext]_Promised!channelGamesVars
<1> SUFFICES ASSUME GamesInv, [GamesNext]_gamesVars
             PROVE  [Promised!ChannelGamesNext]_Promised!channelGamesVars
  OBVIOUS
<1>1. CASE UNCHANGED gamesVars
  BY <1>1 DEF gamesVars, Promised!channelGamesVars
<1>2. CASE startServices
  BY <1>2 DEF startServices, Promised!ChannelGamesNext, Promised!Stop, phaseOf, rosterOf, turnOf
<1>3. ASSUME NEW ch \in Channel, NEW u \in User, NEW k \in Kind, handleSTART(ch, u, k)
      PROVE  Promised!ChannelGamesNext
  BY <1>3, OpenStep DEF Promised!ChannelGamesNext
<1>4. ASSUME NEW ch \in Channel, NEW u \in User, Ends(ch, u)
      PROVE  Promised!ChannelGamesNext
  BY <1>4, CloseStep DEF Promised!ChannelGamesNext
<1>5. ASSUME NEW ch \in Channel, NEW u \in User, GoesOn(ch, u)
      PROVE  Promised!ChannelGamesNext
  BY <1>5, KeepStep DEF Promised!ChannelGamesNext
<1> QED BY <1>1, <1>2, <1>3, <1>4, <1>5, GameSteps

(* The service runs games as ChannelGames describes them: the roster is    *)
(* fixed once a game begins, and from then on only the player whose turn   *)
(* it is changes anything, other than by a new game or the end of the      *)
(* service (hangman.cpp:423, exordi8.cpp:393, game.cpp:203-228).           *)
THEOREM GamesImplementsChannelGames == GamesSpec => ImplementsChannelGames
<1>1. GamesInit => Promised!ChannelGamesInit
  BY DEF GamesInit, Promised!ChannelGamesInit, phaseOf, rosterOf, turnOf
<1> QED BY <1>1, PromisedNext, Invariance, PTL
     DEF GamesSpec, ImplementsChannelGames, Promised!ChannelGamesSpec
=============================================================================
