------------------------------- MODULE Exordi8 -------------------------------
(***************************************************************************)
(* One game of the card game Exordia8 on a channel                         *)
(* (source/modules/mod.game/exordi8.cpp): an Exordi8 object, from the START *)
(* command that creates it to the winning discard after which the game     *)
(* service deletes it.  Each command of a player is one action; a command  *)
(* that is refused sends a message and changes nothing.                    *)
(*                                                                         *)
(* A card is a suit and an index; copies of the same card come from        *)
(* different packs, are equal to the code and are told apart here.  The    *)
(* stock is shuffled once and then taken from the back, which is the same  *)
(* as a set from which any card may come next.  Taking a card from the     *)
(* empty stock returns `Card(0)', a Joker no pack contains: `jokers'       *)
(* counts them.                                                            *)
(***************************************************************************)
EXTENDS Integers, Sequences, FiniteSets

CONSTANTS
  User,           \* users of the channel
  Face,           \* the cards of one pack, as <<suit, index>>
  HandSize,       \* cards dealt to each player (5)
  PlayersPerPack, \* players for each pack after the first (6)
  maxPlayers      \* 50

Clubs == 1
Spades == 2
Hearts == 3
Diamonds == 4
Suit == {Clubs, Spades, Hearts, Diamonds}
Ace == 1
Jack == 11
Queen == 12
King == 13

Card == [suit : 0 .. 4, index : 0 .. 14, copy : Nat]
NoCard == [suit |-> 0, index |-> 0, copy |-> 0]
Joker(k) == [suit |-> 0, index |-> 14, copy |-> k]

(* populate: the cards of n packs.                                         *)
Packs(n) == {[suit |-> f[1], index |-> f[2], copy |-> k] : f \in Face, k \in 1 .. n}

(* The packs dealt for n players.                                          *)
numPacks(n) == 1 + n \div PlayersPerPack

ASSUME Exordi8Assumption ==
  /\ Face \subseteq Suit \X (Ace .. King)
  /\ IsFiniteSet(Face)
  /\ HandSize \in Nat \ {0}
  /\ PlayersPerPack \in Nat \ {0}
  /\ maxPlayers \in Nat \ {0}

(* There are cards enough for everybody's hand.                            *)
ASSUME AmpleAssumption ==
  \A n \in 2 .. maxPlayers : n * HandSize <= Cardinality(Face) * numPacks(n)

VARIABLES
  alive,             \* the game service still has this game
  playing,           \* dealt, and not won yet
  players,           \* the users registered, the caller first
  currentPlayer,     \* position in players
  hands,             \* Hand of each player
  stock,
  discard,
  lastDiscardedCard,
  forwardDirection,
  sequentTrick,
  nextSuit,          \* 0 while a suit is waited for, 5 before any
  jokers             \* cards taken from the empty stock

exordi8Vars == <<alive, playing, players, currentPlayer, hands, stock, discard,
                 lastDiscardedCard, forwardDirection, sequentTrick, nextSuit, jokers>>

isQueenOfSpades(c) == c.suit = Spades /\ c.index = Queen
isQueenOfHearts(c) == c.suit = Hearts /\ c.index = Queen
isRed(c) == c.suit \in {Hearts, Diamonds}

isPlaying(u) == \E i \in DOMAIN players : players[i] = u

(* Mutant: checkPlayerStatus alone, without the test for the current player. *)
isTurnOf_anyPlayer(u) == playing /\ isPlaying(u)

(* checkPlayerStatus, and the test for the current player.                 *)
isTurnOf(u) == playing /\ players[currentPlayer] = u

(* An 8 was discarded and its suit is waited for.                          *)
suitOwed == lastDiscardedCard.index = 8 /\ nextSuit = 0

(* Mutant: nextPlayer does not wrap around.                                *)
nextPlayer_noWrap(fwd) == IF fwd THEN currentPlayer + 1 ELSE currentPlayer - 1

(* Where nextPlayer goes when the direction of play is fwd.                *)
nextPlayer(fwd) ==
  LET n == Len(players)
  IN  CASE fwd /\ currentPlayer = n -> 1
        [] fwd /\ currentPlayer # n -> currentPlayer + 1
        [] ~fwd /\ currentPlayer = 1 -> n
        [] OTHER -> currentPlayer - 1

(* The cards that removeCard may return from stock s when k Jokers have    *)
(* come from the empty stock before.                                       *)
removeCard(s, k) == IF s = {} THEN {Joker(k + 1)} ELSE s

jokerCount(c) == IF c.suit = 0 THEN 1 ELSE 0

-----------------------------------------------------------------------------
Exordi8Init ==
  /\ alive = TRUE
  /\ playing = FALSE
  /\ \E caller \in User : players = <<caller>>
  /\ currentPlayer = 1
  /\ hands = [u \in User |-> {}]
  /\ stock = {}
  /\ discard = {}
  /\ lastDiscardedCard = NoCard
  /\ forwardDirection = TRUE
  /\ sequentTrick = FALSE
  /\ nextSuit = 5
  /\ jokers = 0

parsePLAY(u) ==
  /\ alive /\ ~playing
  /\ Len(players) < maxPlayers
  /\ ~isPlaying(u)
  /\ players' = Append(players, u)
  /\ UNCHANGED <<alive, playing, currentPlayer, hands, stock, discard,
                 lastDiscardedCard, forwardDirection, sequentTrick, nextSuit, jokers>>

(* Each player gets HandSize cards off the shuffled stock.                 *)
dealt(pack) ==
  {h \in [User -> {s \in SUBSET pack : Cardinality(s) \in {0, HandSize}}] :
     /\ \A u \in User : IF isPlaying(u) THEN Cardinality(h[u]) = HandSize
                                         ELSE h[u] = {}
     /\ \A u, v \in User : u # v => h[u] \cap h[v] = {}}

(* Whoever says so deals, a player or not.                                 *)
parseDEAL ==
  LET pack == Packs(numPacks(Len(players)))
  IN  /\ alive /\ ~playing
      /\ Len(players) >= 2
      /\ hands' \in dealt(pack)
      /\ stock' = pack \ UNION {hands'[u] : u \in User}
      /\ playing' = TRUE
      /\ currentPlayer' = 1
      /\ UNCHANGED <<alive, players, discard, lastDiscardedCard, forwardDirection,
                     sequentTrick, nextSuit, jokers>>

(* The card c may be put on the discard pile.                              *)
fits(c) ==
  LET last == lastDiscardedCard
  IN  \/ last = NoCard /\ ~isQueenOfHearts(c)
      \/ last # NoCard /\ isQueenOfSpades(last)
      \/ last # NoCard /\ last.index = 8 /\ nextSuit # 0
           /\ (c.suit = nextSuit \/ stock = {})
      \/ last # NoCard /\ ~(last.index = 8 /\ nextSuit # 0)
           /\ \/ c.suit = last.suit
              \/ c.index = last.index
              \/ last.index = Jack /\ (isRed(c) <=> isRed(last))

(* Mutant: a higher card carries a sequent on, whatever ranks are left out. *)
breaksSequent_lowerOnly(c) ==
  sequentTrick /\ ~isQueenOfSpades(c) /\ lastDiscardedCard.index > c.index - 1

(* Playing c breaks the sequent in play, or triggers one.                  *)
breaksSequent(c) ==
  sequentTrick /\ ~isQueenOfSpades(c) /\ lastDiscardedCard.index # c.index - 1

triggersSequent(c) ==
  ~sequentTrick /\ lastDiscardedCard.index = 2 /\ c.index = 3

(* Mutant: the card that breaks a sequent keeps its trump status.          *)
trumpingOkay_afterBreak(c) == ~(isQueenOfSpades(c) \/ triggersSequent(c))

trumpingOkay(c) == ~(isQueenOfSpades(c) \/ breaksSequent(c) \/ triggersSequent(c))

(* What follows when u has put down c and holds the cards in hand.         *)
discarded(u, c, hand) ==
  LET wins == hand = {}
      trumps == trumpingOkay(c) /\ ~wins
      reverses == trumps /\ Len(players) > 2 /\ c.index = Ace
      keepsTurn == wins \/ (trumps /\ (c.index = 8 \/ isQueenOfHearts(c)))
  IN  /\ hands' = [hands EXCEPT ![u] = hand]
      /\ lastDiscardedCard' = c
      /\ discard' = discard \cup {c}
      /\ sequentTrick' = (triggersSequent(c) \/ (sequentTrick /\ ~breaksSequent(c)))
      /\ playing' = ~wins
      /\ alive' = ~wins
      /\ nextSuit' = IF trumps /\ c.index = 8 THEN 0 ELSE nextSuit
      /\ forwardDirection' = (forwardDirection # reverses)
      /\ currentPlayer' = IF keepsTurn THEN currentPlayer
                                       ELSE nextPlayer(forwardDirection')
      /\ UNCHANGED players

discardCard(u, c) ==
  /\ ~breaksSequent(c)
  /\ discarded(u, c, hands[u] \ {c})
  /\ UNCHANGED <<stock, jokers>>

(* Mutant: the second card is looked at and not taken off the stock.       *)
discardAndDrawTwo_peek(u, c) ==
  /\ breaksSequent(c)
  /\ \E a \in removeCard(stock, jokers) :
       \E b \in removeCard(stock \ {a}, jokers + jokerCount(a)) :
         /\ discarded(u, c, (hands[u] \cup {a, b}) \ {c})
         /\ stock' = stock \ {a}
         /\ jokers' = jokers + jokerCount(a) + jokerCount(b)

(* The two cards are taken before the card that breaks the sequent is put  *)
(* down.                                                                   *)
discardAndDrawTwo(u, c) ==
  /\ breaksSequent(c)
  /\ \E a \in removeCard(stock, jokers) :
       \E b \in removeCard(stock \ {a}, jokers + jokerCount(a)) :
         /\ discarded(u, c, (hands[u] \cup {a, b}) \ {c})
         /\ stock' = stock \ {a, b}
         /\ jokers' = jokers + jokerCount(a) + jokerCount(b)

parseDISCARD(u) ==
  /\ isTurnOf(u)
  /\ ~suitOwed
  /\ \E c \in hands[u] : fits(c) /\ (discardCard(u, c) \/ discardAndDrawTwo(u, c))

(* The guard is the code's: the pass is refused when the stock is empty.   *)
parsePASS(u) ==
  /\ isTurnOf(u)
  /\ stock # {}
  /\ currentPlayer' = nextPlayer(forwardDirection)
  /\ UNCHANGED <<alive, playing, players, hands, stock, discard, lastDiscardedCard,
                 forwardDirection, sequentTrick, nextSuit, jokers>>

parsePICKUP(u) ==
  /\ isTurnOf(u)
  /\ stock # {}
  /\ \E c \in removeCard(stock, jokers) :
       /\ hands' = [hands EXCEPT ![u] = @ \cup {c}]
       /\ stock' = stock \ {c}
  /\ currentPlayer' = nextPlayer(forwardDirection)
  /\ UNCHANGED <<alive, playing, players, discard, lastDiscardedCard,
                 forwardDirection, sequentTrick, nextSuit, jokers>>

(* A suit that is not known leaves nextSuit 0, as it was.                  *)
parseSUIT(u, s) ==
  /\ isTurnOf(u)
  /\ suitOwed
  /\ nextSuit' = s
  /\ currentPlayer' = nextPlayer(forwardDirection)
  /\ UNCHANGED <<alive, playing, players, hands, stock, discard, lastDiscardedCard,
                 forwardDirection, sequentTrick, jokers>>

Exordi8Next ==
  \/ parseDEAL
  \/ \E u \in User : \/ parsePLAY(u) \/ parseDISCARD(u) \/ parsePASS(u)
                     \/ parsePICKUP(u) \/ \E s \in Suit : parseSUIT(u, s)

Exordi8Spec == Exordi8Init /\ [][Exordi8Next]_exordi8Vars

-----------------------------------------------------------------------------
Exordi8TypeOK ==
  /\ alive \in BOOLEAN /\ playing \in BOOLEAN
  /\ players \in Seq(User) /\ currentPlayer \in DOMAIN players
  /\ hands \in [User -> SUBSET Card]
  /\ stock \subseteq Card /\ discard \subseteq Card
  /\ lastDiscardedCard \in Card
  /\ forwardDirection \in BOOLEAN /\ sequentTrick \in BOOLEAN
  /\ nextSuit \in 0 .. 5
  /\ jokers \in Nat

(* The cards in the game.                                                  *)
dealtCards ==
  IF playing \/ ~alive
  THEN Packs(numPacks(Len(players))) \cup {Joker(k) : k \in 1 .. jokers}
  ELSE {}

(* Every card of the packs is in exactly one place from the deal on: no    *)
(* draw, penalty or discard loses or duplicates one (stock.h:78, hand.h:74, *)
(* exordi8.cpp:546, :560), and the only cards that appear from nowhere are *)
(* the Jokers of the empty stock.                                          *)
CardsConserved ==
  /\ stock \cup discard \cup UNION {hands[u] : u \in User} = dealtCards
  /\ stock \cap discard = {}
  /\ \A u \in User : hands[u] \cap (stock \cup discard) = {}
  /\ \A u, v \in User : u # v => hands[u] \cap hands[v] = {}
  /\ jokers > 0 => stock = {}

(* While a sequent is in play the pile shows it: a 2 and the 3 of the same *)
(* suit, and every rank from there to the card on top, up to the 8 of the  *)
(* one suit, whatever was put down before or after (README.Exordi8:94;     *)
(* exordi8.cpp:532, :550).  The Queen of Spades goes on any card, and a    *)
(* king on her.                                                            *)
SequentIsRun ==
  sequentTrick =>
    LET last == lastDiscardedCard
    IN  /\ \E c, d \in discard : c.index = 2 /\ d.index = 3 /\ c.suit = d.suit
        /\ last.index >= 3
        /\ last.index < Queen =>
             \A k \in 3 .. last.index :
               \E c \in discard : c.index = k /\ (last.index <= 8 => c.suit = last.suit)

(* Whoever breaks a sequent puts one card down and takes two from the      *)
(* stock, or what there is (README.Exordi8:101); the card has no effect of *)
(* its own, and whoever took a card has not won and loses the turn         *)
(* (exordi8.cpp:536-550 and the order of what follows).                    *)
BreakingIsPunished ==
  [][sequentTrick /\ ~sequentTrick' =>
       LET p == players[currentPlayer]
           taken == stock \ stock'
       IN  /\ hands[p] \ hands'[p] = {lastDiscardedCard'}
           /\ taken \subseteq hands'[p]
           /\ Cardinality(taken) <= 2
           /\ Cardinality(taken) < 2 => stock' = {}
           /\ taken # {} => playing' /\ currentPlayer' = nextPlayer(forwardDirection)
           /\ UNCHANGED <<forwardDirection, nextSuit>>]_exordi8Vars

(* The game is a shedding game as SheddingGame.tla describes them.         *)
Shedding == INSTANCE SheddingGame WITH
  phase <- CASE playing -> "playing" [] ~playing /\ alive -> "seeking" [] OTHER -> "over",
  roster <- players, turn <- currentPlayer, down <- discard

ImplementsSheddingGame == Shedding!SheddingSpec

-----------------------------------------------------------------------------
(* What README.Exordi8 and the comments say, and the code does not do.     *)

(* README.Exordi8:61: a play is a discard or a card from the stock, and    *)
(* when the stock is empty a player may skip.  So whoever has the turn can *)
(* always do something.                                                    *)
NobodyIsStuck ==
  playing => ENABLED \E u \in User : \/ parseDISCARD(u) \/ parsePASS(u) \/ parsePICKUP(u)
                                     \/ \E s \in Suit : parseSUIT(u, s)

(* README.Exordi8:101: whoever breaks a sequent picks up two cards "from   *)
(* the stock (if any)".  So no card comes from anywhere else.              *)
PenaltyIsFromStock ==
  [][sequentTrick /\ ~sequentTrick' =>
       LET p == players[currentPlayer] IN hands'[p] \subseteq hands[p] \cup stock]_exordi8Vars
=============================================================================
