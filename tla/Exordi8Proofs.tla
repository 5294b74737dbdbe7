---------------------------- MODULE Exordi8Proofs ----------------------------
(***************************************************************************)
(* A game of Exordia8 conserves its cards and implements the shedding game *)
(* (module SheddingGame), for any users, pack, size of a hand and number   *)
(* of packs.                                                               *)
(*                                                                         *)
(* The argument: a card that is drawn is either in the stock, and then in  *)
(* no hand and not put down, or a Joker with a number not given before     *)
(* (Drawn, DrawnTwo).  Exordi8Inv adds to the type and to CardsConserved   *)
(* what the two phases of the game look like: before the deal there are no *)
(* cards at all, and during play the players, and they alone, hold cards.  *)
(* SequentInv adds what a sequent in play has left on the pile.            *)
(***************************************************************************)
EXTENDS Exordi8, FiniteSetTheorems, TLAPS

Phases ==
  /\ playing => alive /\ Len(players) >= 2
  /\ playing => \A u \in User : hands[u] # {} <=> isPlaying(u)
  /\ ~playing /\ alive => /\ \A u \in User : hands[u] = {}
                          /\ discard = {} /\ stock = {} /\ jokers = 0
                          /\ currentPlayer = 1

Exordi8Inv == Exordi8TypeOK /\ CardsConserved /\ Phases

LEMMA PacksType ==
  ASSUME NEW n \in Nat
  PROVE  /\ numPacks(n) \in Nat
         /\ Packs(numPacks(n)) \subseteq Card
         /\ \A c \in Packs(numPacks(n)) : c.suit # 0
<1>1. numPacks(n) \in Nat
  BY Exordi8Assumption DEF numPacks
<1>2. ASSUME NEW c \in Packs(numPacks(n)) PROVE c \in Card /\ c.suit # 0
  <2>1. PICK f \in Face, k \in 1 .. numPacks(n) :
          c = [suit |-> f[1], index |-> f[2], copy |-> k]
    BY DEF Packs
  <2>2. f[1] \in 1 .. 4 /\ f[2] \in 1 .. 13
    BY Exordi8Assumption DEF Suit, Clubs, Spades, Hearts, Diamonds, Ace, King
  <2>3. QED
    BY <1>1, <2>1, <2>2 DEF Card
<1>3. QED
  BY <1>1, <1>2

(* Who has the turn is a player, and nextPlayer stays at the table.        *)
LEMMA Turn ==
  ASSUME Exordi8Inv, NEW u \in User, isTurnOf(u)
  PROVE  /\ currentPlayer \in 1 .. Len(players)
         /\ players[currentPlayer] = u
         /\ isPlaying(u)
         /\ playing /\ alive
         /\ Len(players) \in Nat /\ Len(players) >= 2
         /\ \A f \in BOOLEAN : /\ nextPlayer(f) \in DOMAIN players
                               /\ nextPlayer(f) \in
                                    Shedding!Neighbours(currentPlayer, Len(players))
<1>1. /\ currentPlayer \in 1 .. Len(players)
      /\ DOMAIN players = 1 .. Len(players)
      /\ Len(players) \in Nat /\ Len(players) >= 2
  BY DEF Exordi8Inv, Exordi8TypeOK, Phases, isTurnOf
<1>2. players[currentPlayer] = u /\ playing /\ alive
  BY DEF isTurnOf, Exordi8Inv, Phases
<1>3. isPlaying(u)
  BY <1>1, <1>2 DEF isPlaying
<1>4. ASSUME NEW f \in BOOLEAN
      PROVE  /\ nextPlayer(f) \in 1 .. Len(players)
             /\ nextPlayer(f) \in Shedding!Neighbours(currentPlayer, Len(players))
  <2>1. CASE f
    BY <1>1, <2>1 DEF nextPlayer, Shedding!Neighbours
  <2>2. CASE ~f
    BY <1>1, <2>2 DEF nextPlayer, Shedding!Neighbours
  <2>3. QED
    BY <2>1, <2>2
<1>5. QED
  BY <1>1, <1>2, <1>3, <1>4

(* A card that has not been dealt or drawn is nowhere.                     *)
LEMMA Located ==
  ASSUME CardsConserved
  PROVE  \A x : x \in dealtCards <=> \/ x \in stock \/ x \in discard
                                     \/ \E u \in User : x \in hands[u]
  BY DEF CardsConserved

(* Two cards taken one after the other, as by whoever breaks a sequent.    *)
LEMMA DrawnTwo ==
  ASSUME Exordi8Inv, playing,
         NEW a \in removeCard(stock, jokers),
         NEW b \in removeCard(stock \ {a}, jokers + jokerCount(a))
  PROVE  LET j == jokers + jokerCount(a) + jokerCount(b)
             pack == Packs(numPacks(Len(players)))
         IN  /\ a \in Card /\ b \in Card /\ a # b
             /\ j \in Nat
             /\ j > 0 => stock \ {a, b} = {}
             /\ a \notin discard /\ b \notin discard
             /\ \A u \in User : a \notin hands[u] /\ b \notin hands[u]
             /\ pack \cup {Joker(k) : k \in 1 .. j} = dealtCards \cup {a, b}
<1> DEFINE j == jokers + jokerCount(a) + jokerCount(b)
           pack == Packs(numPacks(Len(players)))
<1>1. jokers \in Nat /\ stock \subseteq Card /\ Len(players) \in Nat
  BY DEF Exordi8Inv, Exordi8TypeOK
<1>2. dealtCards = pack \cup {Joker(k) : k \in 1 .. jokers}
  BY DEF dealtCards
<1>3. pack \subseteq Card /\ \A c \in pack : c.suit # 0
  BY <1>1, PacksType
<1>4. \A k \in Nat : /\ Joker(k) \in Card /\ Joker(k).suit = 0
                     /\ Joker(k) \notin pack
                     /\ \A i \in Nat : Joker(i) = Joker(k) => i = k
  <2>1. ASSUME NEW k \in Nat PROVE Joker(k) \in Card /\ Joker(k).suit = 0
    BY DEF Joker, Card
  <2>2. ASSUME NEW k \in Nat, NEW i \in Nat, Joker(i) = Joker(k) PROVE i = k
    <3>1. Joker(i).copy = i /\ Joker(k).copy = k
      BY DEF Joker
    <3>2. QED
      BY <2>2, <3>1
  <2>3. QED
    BY <1>3, <2>1, <2>2
<1>5. /\ stock \subseteq dealtCards
      /\ \A x : x \notin dealtCards => x \notin discard /\ \A u \in User : x \notin hands[u]
      /\ \A x \in stock : x \notin discard /\ \A u \in User : x \notin hands[u]
      /\ jokers > 0 => stock = {}
  BY Located DEF Exordi8Inv, CardsConserved
<1>6. \A k \in Nat : k > jokers => Joker(k) \notin dealtCards
  BY <1>1, <1>2, <1>4
<1>7. CASE stock = {}
  <2>1. a = Joker(jokers + 1) /\ jokerCount(a) = 1
    BY <1>1, <1>4, <1>7 DEF removeCard, jokerCount
  <2>2. b = Joker(jokers + 2) /\ jokerCount(b) = 1
    BY <1>1, <1>4, <1>7, <2>1 DEF removeCard, jokerCount
  <2>3. j = jokers + 2
    BY <1>1, <2>1, <2>2
  <2>4. {Joker(k) : k \in 1 .. j} = {Joker(k) : k \in 1 .. jokers} \cup {a, b}
    <3>1. 1 .. j = (1 .. jokers) \cup {jokers + 1, jokers + 2}
      BY <1>1, <2>3
    <3>2. QED
      BY <3>1, <2>1, <2>2
  <2>5. a # b /\ a \in Card /\ b \in Card /\ a \notin dealtCards /\ b \notin dealtCards
    BY <1>1, <1>4, <1>6, <2>1, <2>2
  <2>6. QED
    BY <1>1, <1>2, <1>5, <1>7, <2>3, <2>4, <2>5
<1>8. CASE stock # {}
  <2>1. jokers = 0 /\ {Joker(k) : k \in 1 .. jokers} = {}
    BY <1>1, <1>5, <1>8
  <2>2. a \in stock /\ a.suit # 0 /\ jokerCount(a) = 0
    BY <1>2, <1>3, <1>5, <1>8, <2>1 DEF removeCard, jokerCount
  <2>3. CASE stock \ {a} = {}
    <3>1. b = Joker(1) /\ jokerCount(b) = 1
      BY <1>4, <2>1, <2>2, <2>3 DEF removeCard, jokerCount
    <3>2. j = 1 /\ {Joker(k) : k \in 1 .. j} = {b}
      BY <2>1, <2>2, <3>1
    <3>3. b \notin dealtCards /\ b \in Card /\ a # b /\ a \in dealtCards
      BY <1>4, <1>5, <1>6, <2>1, <2>2, <3>1
    <3>4. QED
      BY <1>1, <1>2, <1>5, <2>1, <2>2, <2>3, <3>2, <3>3
  <2>4. CASE stock \ {a} # {}
    <3>1. b \in stock /\ a # b /\ b.suit # 0 /\ jokerCount(b) = 0
      BY <1>2, <1>3, <1>5, <2>1, <2>4 DEF removeCard, jokerCount
    <3>2. j = 0
      BY <2>1, <2>2, <3>1
    <3>3. QED
      BY <1>1, <1>2, <1>5, <2>1, <2>2, <3>1, <3>2
  <2>5. QED
    BY <2>3, <2>4
<1>9. QED
  BY <1>7, <1>8

-----------------------------------------------------------------------------
LEMMA Exordi8InvInit == Exordi8Init => Exordi8Inv
<1> SUFFICES ASSUME Exordi8Init PROVE Exordi8Inv
  OBVIOUS
<1>1. Exordi8TypeOK
  <2>1. PICK caller \in User : players = <<caller>>
    BY DEF Exordi8Init
  <2>2. players \in Seq(User) /\ 1 \in DOMAIN players
    BY <2>1
  <2>3. NoCard \in Card
    BY DEF NoCard, Card
  <2>4. hands \in [User -> SUBSET Card] /\ nextSuit \in 0 .. 5 /\ jokers \in Nat
    BY DEF Exordi8Init
  <2>5. QED
    BY <2>2, <2>3, <2>4 DEF Exordi8Init, Exordi8TypeOK
<1>2. CardsConserved
  BY DEF Exordi8Init, CardsConserved, dealtCards
<1>3. Phases
  BY DEF Exordi8Init, Phases
<1>4. QED
  BY <1>1, <1>2, <1>3 DEF Exordi8Inv

LEMMA PlayKeepsInv ==
  ASSUME Exordi8Inv, NEW u \in User, parsePLAY(u)
  PROVE  Exordi8Inv'
<1>1. Exordi8TypeOK'
  BY DEF Exordi8Inv, Exordi8TypeOK, parsePLAY
<1>2. CardsConserved'
  BY DEF Exordi8Inv, CardsConserved, dealtCards, parsePLAY
<1>3. Phases'
  BY DEF Exordi8Inv, Phases, parsePLAY
<1>4. QED
  BY <1>1, <1>2, <1>3 DEF Exordi8Inv

(* What the deal hands out.                                                *)
LEMMA Deal ==
  ASSUME Exordi8Inv, parseDEAL
  PROVE  LET pack == Packs(numPacks(Len(players)))
         IN  /\ hands' \in [User -> SUBSET pack]
             /\ \A u \in User : hands'[u] # {} <=> isPlaying(u)
             /\ \A u, v \in User : u # v => hands'[u] \cap hands'[v] = {}
             /\ pack \subseteq Card
<1> DEFINE pack == Packs(numPacks(Len(players)))
<1>1. hands' \in dealt(pack)
  BY DEF parseDEAL
<1>2. hands' \in [User -> SUBSET pack]
  BY <1>1 DEF dealt
<1>3. \A u, v \in User : u # v => hands'[u] \cap hands'[v] = {}
  BY <1>1 DEF dealt
<1>4. \A u \in User : IF isPlaying(u) THEN Cardinality(hands'[u]) = HandSize
                                      ELSE hands'[u] = {}
  BY <1>1 DEF dealt
<1>5. \A u \in User : hands'[u] # {} <=> isPlaying(u)
  BY <1>4, FS_EmptySet, Exordi8Assumption
<1>6. pack \subseteq Card
  BY PacksType DEF Exordi8Inv, Exordi8TypeOK
<1>7. QED
  BY <1>2, <1>3, <1>5, <1>6

LEMMA DealKeepsInv ==
  ASSUME Exordi8Inv, parseDEAL
  PROVE  Exordi8Inv'
<1> DEFINE pack == Packs(numPacks(Len(players)))
<1>1. /\ ~playing /\ alive /\ discard = {} /\ jokers = 0
      /\ Len(players) >= 2 /\ players \in Seq(User)
  BY DEF parseDEAL, Exordi8Inv, Phases, Exordi8TypeOK
<1>2. /\ playing' = TRUE /\ players' = players /\ jokers' = 0 /\ discard' = {}
      /\ alive' = TRUE /\ currentPlayer' = 1
      /\ stock' = pack \ UNION {hands'[u] : u \in User}
  BY <1>1 DEF parseDEAL, Exordi8Inv, Exordi8TypeOK
<1>3. /\ hands' \in [User -> SUBSET pack]
      /\ \A u \in User : hands'[u] # {} <=> isPlaying(u)
      /\ \A u, v \in User : u # v => hands'[u] \cap hands'[v] = {}
      /\ pack \subseteq Card
  BY Deal
<1>4. Exordi8TypeOK'
  <2>1. 1 \in DOMAIN players
    BY <1>1
  <2>2. hands' \in [User -> SUBSET Card] /\ stock' \subseteq Card
    BY <1>2, <1>3
  <2>3. QED
    BY <1>1, <1>2, <2>1, <2>2 DEF Exordi8Inv, Exordi8TypeOK, parseDEAL
<1>5. CardsConserved'
  <2>1. dealtCards' = pack
    <3>1. {Joker(k) : k \in 1 .. 0} = {}
      OBVIOUS
    <3>2. QED
      BY <1>2, <3>1 DEF dealtCards
  <2>2. UNION {hands'[u] : u \in User} \subseteq pack
    BY <1>3
  <2>3. QED
    BY <1>2, <1>3, <2>1, <2>2 DEF CardsConserved
<1>6. Phases'
  BY <1>1, <1>2, <1>3 DEF Phases, isPlaying
<1>7. QED
  BY <1>4, <1>5, <1>6 DEF Exordi8Inv

LEMMA PickupKeepsInv ==
  ASSUME Exordi8Inv, NEW u \in User, parsePICKUP(u)
  PROVE  Exordi8Inv'
<1>1. PICK c \in stock : /\ hands' = [hands EXCEPT ![u] = hands[u] \cup {c}]
                         /\ stock' = stock \ {c}
  BY DEF parsePICKUP, removeCard
<1>2. /\ UNCHANGED <<alive, playing, players, discard, lastDiscardedCard,
                     forwardDirection, sequentTrick, nextSuit, jokers>>
      /\ currentPlayer' \in DOMAIN players
      /\ playing /\ alive /\ isPlaying(u)
  BY Turn DEF parsePICKUP, Exordi8Inv, Exordi8TypeOK
<1>3. Exordi8TypeOK'
  BY <1>1, <1>2 DEF Exordi8Inv, Exordi8TypeOK
<1>4. CardsConserved'
  <2>1. dealtCards' = dealtCards
    BY <1>2 DEF dealtCards
  <2>2. \A v \in User : hands'[v] = IF v = u THEN hands[u] \cup {c} ELSE hands[v]
    BY <1>1 DEF Exordi8Inv, Exordi8TypeOK
  <2>3. stock' \cup discard' \cup UNION {hands'[v] : v \in User}
          = stock \cup discard \cup UNION {hands[v] : v \in User}
    BY <1>1, <1>2, <2>2
  <2>4. QED
    BY <1>1, <1>2, <2>1, <2>2, <2>3 DEF Exordi8Inv, CardsConserved
<1>5. Phases'
  BY <1>1, <1>2 DEF Exordi8Inv, Exordi8TypeOK, Phases, isPlaying
<1>6. QED
  BY <1>3, <1>4, <1>5 DEF Exordi8Inv

(* A pass and the choice of a suit move the turn and no card.              *)
LEMMA TurnKeepsInv ==
  ASSUME Exordi8Inv, NEW u \in User,
         parsePASS(u) \/ \E s \in Suit : parseSUIT(u, s)
  PROVE  Exordi8Inv'
<1>1. /\ UNCHANGED <<alive, playing, players, hands, stock, discard,
                     lastDiscardedCard, forwardDirection, sequentTrick, jokers>>
      /\ currentPlayer' \in DOMAIN players
      /\ nextSuit' \in 0 .. 5
      /\ playing
  BY Turn DEF parsePASS, parseSUIT, Exordi8Inv, Exordi8TypeOK,
              Suit, Clubs, Spades, Hearts, Diamonds
<1>2. Exordi8TypeOK'
  BY <1>1 DEF Exordi8Inv, Exordi8TypeOK
<1>3. CardsConserved'
  BY <1>1 DEF Exordi8Inv, CardsConserved, dealtCards
<1>4. Phases'
  BY <1>1 DEF Exordi8Inv, Phases, isPlaying
<1>5. QED
  BY <1>2, <1>3, <1>4 DEF Exordi8Inv

(* Whatever a discard does to the hand, the rest of it is sound.           *)
LEMMA Discarded ==
  ASSUME Exordi8Inv, NEW u \in User, isTurnOf(u), NEW c \in hands[u],
         NEW hand \in SUBSET Card, discarded(u, c, hand)
  PROVE  /\ alive' \in BOOLEAN /\ playing' \in BOOLEAN
         /\ players' = players /\ currentPlayer' \in DOMAIN players
         /\ currentPlayer' \in {currentPlayer} \cup
                                 Shedding!Neighbours(currentPlayer, Len(players))
         /\ hands' \in [User -> SUBSET Card]
         /\ \A v \in User : hands'[v] = IF v = u THEN hand ELSE hands[v]
         /\ discard' = discard \cup {c} /\ c \in Card
         /\ lastDiscardedCard' \in Card
         /\ forwardDirection' \in BOOLEAN /\ sequentTrick' \in BOOLEAN
         /\ nextSuit' \in 0 .. 5
         /\ playing' = (hand # {}) /\ alive' = (hand # {})
<1>1. hands \in [User -> SUBSET Card] /\ nextSuit \in 0 .. 5 /\ c \in Card
  BY DEF Exordi8Inv, Exordi8TypeOK
<1>2. /\ hands' = [hands EXCEPT ![u] = hand]
      /\ lastDiscardedCard' = c
      /\ discard' = discard \cup {c}
      /\ sequentTrick' \in BOOLEAN
      /\ playing' = (hand # {}) /\ alive' = (hand # {})
      /\ nextSuit' \in {0, nextSuit}
      /\ forwardDirection' \in BOOLEAN
      /\ currentPlayer' \in {currentPlayer, nextPlayer(forwardDirection')}
      /\ players' = players
  BY DEF discarded
<1>3. /\ currentPlayer \in DOMAIN players
      /\ \A f \in BOOLEAN : /\ nextPlayer(f) \in DOMAIN players
                            /\ nextPlayer(f) \in
                                 Shedding!Neighbours(currentPlayer, Len(players))
  BY Turn DEF Exordi8Inv, Exordi8TypeOK
<1>4. QED
  BY <1>1, <1>2, <1>3

LEMMA DiscardCardKeepsInv ==
  ASSUME Exordi8Inv, NEW u \in User, isTurnOf(u), NEW c \in hands[u],
         discardCard(u, c)
  PROVE  Exordi8Inv'
<1> DEFINE hand == hands[u] \ {c}
<1>1. hand \in SUBSET Card /\ discarded(u, c, hand) /\ UNCHANGED <<stock, jokers>>
  BY DEF discardCard, Exordi8Inv, Exordi8TypeOK
<1>2. Exordi8TypeOK'
  BY <1>1, Discarded DEF Exordi8Inv, Exordi8TypeOK
<1>3. /\ \A v \in User : hands'[v] = IF v = u THEN hand ELSE hands[v]
      /\ discard' = discard \cup {c} /\ players' = players
      /\ playing' = (hand # {}) /\ alive' = (hand # {})
  BY <1>1, Discarded
<1>4. CardsConserved'
  <2>1. dealtCards' = dealtCards
    BY <1>1, <1>3 DEF dealtCards, isTurnOf
  <2>2. stock' \cup discard' \cup UNION {hands'[v] : v \in User}
          = stock \cup discard \cup UNION {hands[v] : v \in User}
    BY <1>1, <1>3
  <2>3. QED
    BY <1>1, <1>3, <2>1, <2>2 DEF Exordi8Inv, CardsConserved
<1>5. Phases'
  BY <1>3, Turn DEF Exordi8Inv, Phases, isPlaying
<1>6. QED
  BY <1>2, <1>4, <1>5 DEF Exordi8Inv

LEMMA DrawTwoKeepsInv ==
  ASSUME Exordi8Inv, NEW u \in User, isTurnOf(u), NEW c \in hands[u],
         discardAndDrawTwo(u, c)
  PROVE  Exordi8Inv'
<1>1. PICK a \in removeCard(stock, jokers) :
        \E b \in removeCard(stock \ {a}, jokers + jokerCount(a)) :
          /\ discarded(u, c, (hands[u] \cup {a, b}) \ {c})
          /\ stock' = stock \ {a, b}
          /\ jokers' = jokers + jokerCount(a) + jokerCount(b)
  BY DEF discardAndDrawTwo
<1>2. PICK b \in removeCard(stock \ {a}, jokers + jokerCount(a)) :
        /\ discarded(u, c, (hands[u] \cup {a, b}) \ {c})
        /\ stock' = stock \ {a, b}
        /\ jokers' = jokers + jokerCount(a) + jokerCount(b)
  BY <1>1
<1> DEFINE hand == (hands[u] \cup {a, b}) \ {c}
           pack == Packs(numPacks(Len(players)))
<1>3. playing
  BY DEF isTurnOf
<1>4. /\ a \in Card /\ b \in Card /\ a # b
      /\ jokers' \in Nat
      /\ jokers' > 0 => stock' = {}
      /\ a \notin discard /\ b \notin discard
      /\ \A v \in User : a \notin hands[v] /\ b \notin hands[v]
      /\ pack \cup {Joker(k) : k \in 1 .. jokers'} = dealtCards \cup {a, b}
  BY <1>2, <1>3, DrawnTwo
<1>5. hand \in SUBSET Card /\ hand # {}
  BY <1>4 DEF Exordi8Inv, Exordi8TypeOK
<1>6. /\ \A v \in User : hands'[v] = IF v = u THEN hand ELSE hands[v]
      /\ discard' = discard \cup {c} /\ players' = players
      /\ playing' = TRUE /\ alive' = TRUE
  BY <1>2, <1>5, Discarded
<1>7. Exordi8TypeOK'
  BY <1>2, <1>4, <1>5, Discarded DEF Exordi8Inv, Exordi8TypeOK
<1>8. CardsConserved'
  <2>1. dealtCards' = dealtCards \cup {a, b}
    BY <1>4, <1>6 DEF dealtCards
  <2>2. stock' \cup discard' \cup UNION {hands'[v] : v \in User}
          = (stock \cup discard \cup UNION {hands[v] : v \in User}) \cup {a, b}
    BY <1>2, <1>4, <1>6
  <2>3. \A v \in User : hands'[v] \cap (stock' \cup discard') = {}
    BY <1>2, <1>4, <1>6 DEF Exordi8Inv, CardsConserved
  <2>4. \A v, w \in User : v # w => hands'[v] \cap hands'[w] = {}
    BY <1>4, <1>6 DEF Exordi8Inv, CardsConserved
  <2>5. stock' \cap discard' = {}
    BY <1>2, <1>6 DEF Exordi8Inv, CardsConserved
  <2>6. QED
    BY <1>4, <2>1, <2>2, <2>3, <2>4, <2>5 DEF Exordi8Inv, CardsConserved
<1>9. Phases'
  BY <1>5, <1>6, Turn DEF Exordi8Inv, Phases, isPlaying
<1>10. QED
  BY <1>7, <1>8, <1>9 DEF Exordi8Inv

LEMMA Exordi8InvNext == Exordi8Inv /\ [Exordi8Next]_exordi8Vars => Exordi8Inv'
<1> SUFFICES ASSUME Exordi8Inv, [Exordi8Next]_exordi8Vars PROVE Exordi8Inv'
  OBVIOUS
<1>1. CASE parseDEAL
  BY <1>1, DealKeepsInv
<1>2. ASSUME NEW u \in User, parsePLAY(u) PROVE Exordi8Inv'
  BY <1>2, PlayKeepsInv
<1>3. ASSUME NEW u \in User, parseDISCARD(u) PROVE Exordi8Inv'
  BY <1>3, DiscardCardKeepsInv, DrawTwoKeepsInv DEF parseDISCARD
<1>4. ASSUME NEW u \in User, parsePICKUP(u) PROVE Exordi8Inv'
  BY <1>4, PickupKeepsInv
<1>5. ASSUME NEW u \in User, parsePASS(u) \/ \E s \in Suit : parseSUIT(u, s)
      PROVE  Exordi8Inv'
  BY <1>5, TurnKeepsInv
<1>6. CASE UNCHANGED exordi8Vars
  BY <1>6 DEF exordi8Vars, Exordi8Inv, Exordi8TypeOK, CardsConserved, dealtCards,
              Phases, isPlaying
<1>7. QED
  BY <1>1, <1>2, <1>3, <1>4, <1>5, <1>6 DEF Exordi8Next

(* A game's state is well formed, and every card dealt is in exactly one   *)
(* place; cards come from nowhere only when the stock is empty.            *)
THEOREM CardsAreConserved == Exordi8Spec => [](Exordi8TypeOK /\ CardsConserved)
<1>1. Exordi8Inv => Exordi8TypeOK /\ CardsConserved
  BY DEF Exordi8Inv
<1>2. QED
  BY <1>1, Exordi8InvInit, Exordi8InvNext, PTL DEF Exordi8Spec

-----------------------------------------------------------------------------
LEMMA SheddingOfInit == Exordi8Init => Shedding!SheddingInit
  BY DEF Exordi8Init, Shedding!SheddingInit

LEMMA SheddingOfDiscard ==
  ASSUME Exordi8Inv, NEW u \in User, isTurnOf(u), NEW c \in hands[u],
         NEW hand \in SUBSET Card, discarded(u, c, hand),
         hands[u] \ hand = {c},
         \A x \in hand \ hands[u] : x \notin discard /\ \A v \in User : x \notin hands[v]
  PROVE  Shedding!Move
<1>1. /\ playing /\ alive /\ players[currentPlayer] = u
  BY Turn
<1>2. /\ \A v \in User : hands'[v] = IF v = u THEN hand ELSE hands[v]
      /\ discard' = discard \cup {c} /\ players' = players
      /\ currentPlayer' \in {currentPlayer} \cup
                              Shedding!Neighbours(currentPlayer, Len(players))
      /\ playing' = (hand # {}) /\ alive' = (hand # {})
  BY Discarded
<1>3. hands'[u] = hand
  BY <1>2
<1>4. \A v \in User \ {u} : hands'[v] = hands[v]
  BY <1>2
<1>5. /\ \A x, y \in hands[u] \ hands'[u] : x = y
      /\ discard' = discard \cup (hands[u] \ hands'[u])
      /\ (hands'[u] \ hands[u]) \cap discard = {}
      /\ \A v \in User : (hands'[u] \ hands[u]) \cap hands[v] = {}
  BY <1>2, <1>3
<1>6. CASE hand = {}
  BY <1>1, <1>2, <1>3, <1>4, <1>5, <1>6 DEF Shedding!Move
<1>7. CASE hand # {}
  BY <1>1, <1>2, <1>3, <1>4, <1>5, <1>7 DEF Shedding!Move
<1>8. QED
  BY <1>6, <1>7

LEMMA SheddingOfNext ==
  Exordi8Inv /\ [Exordi8Next]_exordi8Vars
    => [Shedding!SheddingNext]_(Shedding!gameVars)
<1> SUFFICES ASSUME Exordi8Inv, [Exordi8Next]_exordi8Vars
             PROVE  [Shedding!SheddingNext]_(Shedding!gameVars)
  OBVIOUS
<1>1. CASE parseDEAL
  <2>1. /\ ~playing /\ alive /\ Len(players) >= 2 /\ currentPlayer = 1
        /\ playing' /\ UNCHANGED <<players, currentPlayer, discard>>
    BY <1>1 DEF parseDEAL, Exordi8Inv, Phases
  <2>2. /\ \A u \in User : hands'[u] # {} <=> u \in Shedding!Seated
        /\ \A u, v \in User : u # v => hands'[u] \cap hands'[v] = {}
    BY <1>1, Deal DEF Shedding!Seated, isPlaying
  <2>3. Shedding!Deal
    BY <2>1, <2>2 DEF Shedding!Deal
  <2>4. QED
    BY <2>3 DEF Shedding!SheddingNext
<1>2. ASSUME NEW u \in User, parsePLAY(u) PROVE Shedding!Join(u)
  BY <1>2 DEF parsePLAY, Shedding!Join, Shedding!Seated, isPlaying
<1>3. ASSUME NEW u \in User, parseDISCARD(u) PROVE Shedding!Move
  <2>1. isTurnOf(u)
    BY <1>3 DEF parseDISCARD
  <2>2. PICK c \in hands[u] : discardCard(u, c) \/ discardAndDrawTwo(u, c)
    BY <1>3 DEF parseDISCARD
  <2>3. CASE discardCard(u, c)
    <3> DEFINE hand == hands[u] \ {c}
    <3>1. hand \in SUBSET Card /\ discarded(u, c, hand)
      BY <2>3 DEF discardCard, Exordi8Inv, Exordi8TypeOK
    <3>2. hands[u] \ hand = {c} /\ hand \ hands[u] = {}
      OBVIOUS
    <3>3. QED
      BY <2>1, <3>1, <3>2, SheddingOfDiscard
  <2>4. CASE discardAndDrawTwo(u, c)
    <3>1. PICK a \in removeCard(stock, jokers) :
            \E b \in removeCard(stock \ {a}, jokers + jokerCount(a)) :
              discarded(u, c, (hands[u] \cup {a, b}) \ {c})
      BY <2>4 DEF discardAndDrawTwo
    <3>2. PICK b \in removeCard(stock \ {a}, jokers + jokerCount(a)) :
            discarded(u, c, (hands[u] \cup {a, b}) \ {c})
      BY <3>1
    <3> DEFINE hand == (hands[u] \cup {a, b}) \ {c}
    <3>3. /\ a \in Card /\ b \in Card
          /\ a \notin discard /\ b \notin discard
          /\ \A v \in User : a \notin hands[v] /\ b \notin hands[v]
      BY <2>1, DrawnTwo DEF isTurnOf
    <3>4. hand \in SUBSET Card /\ hands[u] \ hand = {c} /\ hand \ hands[u] \subseteq {a, b}
      BY <3>3 DEF Exordi8Inv, Exordi8TypeOK
    <3>5. QED
      BY <2>1, <3>2, <3>3, <3>4, SheddingOfDiscard
  <2>5. QED
    BY <2>2, <2>3, <2>4
<1>4. ASSUME NEW u \in User, parsePICKUP(u) PROVE Shedding!Move
  <2>1. PICK c \in stock : hands' = [hands EXCEPT ![u] = hands[u] \cup {c}]
    BY <1>4 DEF parsePICKUP, removeCard
  <2>2. /\ UNCHANGED <<alive, playing, players, discard>>
        /\ currentPlayer' = nextPlayer(forwardDirection)
        /\ isTurnOf(u)
    BY <1>4 DEF parsePICKUP
  <2>3. /\ playing /\ players[currentPlayer] = u
        /\ currentPlayer' \in Shedding!Neighbours(currentPlayer, Len(players))
    BY <2>2, Turn DEF Exordi8Inv, Exordi8TypeOK
  <2>4. \A v \in User : hands'[v] = IF v = u THEN hands[u] \cup {c} ELSE hands[v]
    BY <2>1 DEF Exordi8Inv, Exordi8TypeOK
  <2>5. c \notin discard /\ \A v \in User : c \notin hands[v]
    BY DEF Exordi8Inv, CardsConserved
  <2>6. QED
    BY <2>2, <2>3, <2>4, <2>5 DEF Shedding!Move
<1>5. ASSUME NEW u \in User, parsePASS(u) \/ \E s \in Suit : parseSUIT(u, s)
      PROVE  Shedding!Move
  <2>1. /\ UNCHANGED <<alive, playing, players, hands, discard>>
        /\ currentPlayer' = nextPlayer(forwardDirection)
        /\ isTurnOf(u)
    BY <1>5 DEF parsePASS, parseSUIT
  <2>2. /\ playing /\ players[currentPlayer] = u /\ isPlaying(u)
        /\ currentPlayer' \in Shedding!Neighbours(currentPlayer, Len(players))
    BY <2>1, Turn DEF Exordi8Inv, Exordi8TypeOK
  <2>3. hands[u] # {}
    BY <2>2 DEF Exordi8Inv, Phases
  <2>4. QED
    BY <2>1, <2>2, <2>3 DEF Shedding!Move
<1>6. CASE UNCHANGED exordi8Vars
  BY <1>6 DEF exordi8Vars, Shedding!gameVars
<1>7. QED
  BY <1>1, <1>2, <1>3, <1>4, <1>5, <1>6 DEF Exordi8Next, Shedding!SheddingNext

(* A game of Exordia8 is a shedding game: nobody joins once the cards are  *)
(* dealt, a command changes the hand of the player whose turn it is and no *)
(* other, and the game is over exactly when a hand is empty.               *)
THEOREM Exordi8IsSheddingGame == Exordi8Spec => ImplementsSheddingGame
  BY Exordi8InvInit, Exordi8InvNext, SheddingOfInit, SheddingOfNext, PTL
  DEF Exordi8Spec, ImplementsSheddingGame, Shedding!SheddingSpec

-----------------------------------------------------------------------------
(* The card to match is the one on top of the discard pile.                *)
TopOfPile == lastDiscardedCard # NoCard => lastDiscardedCard \in discard

SequentInv == SequentIsRun /\ TopOfPile

(* The ranks from 3 to that of last are in the pile, in its suit up to 8.  *)
RanksTo(pile, last) ==
  \A k \in 3 .. last.index :
    \E c \in pile : c.index = k /\ (last.index <= 8 => c.suit = last.suit)

(* The next rank fits on a card only if it is of the same suit, unless the *)
(* card is an 8, a jack or the Queen of Spades.                            *)
LEMMA NextOfSuit ==
  ASSUME NEW c, fits(c), lastDiscardedCard.index \in 2 .. 7,
         c.index = lastDiscardedCard.index + 1
  PROVE  lastDiscardedCard # NoCard /\ c.suit = lastDiscardedCard.suit
<1> DEFINE last == lastDiscardedCard
<1>1. last.index # 0 /\ last.index # 8 /\ last.index # 11 /\ last.index # 12 /\ c.index # last.index
  OBVIOUS
<1>2. last # NoCard
  BY <1>1 DEF NoCard
<1> HIDE DEF last
<1>3. QED
  BY <1>1, <1>2 DEF fits, isQueenOfSpades, Queen, Jack, last

(* One rank more on the pile.                                              *)
LEMMA NextRank ==
  ASSUME NEW pile, NEW last, NEW c, last.index \in Nat, last.index >= 2,
         c.index = last.index + 1, c.index <= 8 => c.suit = last.suit,
         last.index >= 3 => RanksTo(pile, last)
  PROVE  RanksTo(pile \cup {c}, c)
<1> SUFFICES ASSUME NEW k \in 3 .. c.index
             PROVE  \E d \in pile \cup {c} : d.index = k /\ (c.index <= 8 => d.suit = c.suit)
  BY DEF RanksTo
<1>1. CASE k = c.index
  BY <1>1
<1>2. CASE k # c.index
  <2>1. last.index >= 3 /\ k \in 3 .. last.index /\ (c.index <= 8 => last.index <= 8)
    BY <1>2
  <2>2. PICK d \in pile : d.index = k /\ (last.index <= 8 => d.suit = last.suit)
    BY <2>1 DEF RanksTo
  <2>3. c.index <= 8 => d.suit = c.suit
    BY <2>1, <2>2
  <2>4. QED
    BY <2>2, <2>3
<1>3. QED
  BY <1>1, <1>2

LEMMA SequentInvNext ==
  Exordi8Inv /\ SequentInv /\ [Exordi8Next]_exordi8Vars => SequentInv'
<1> SUFFICES ASSUME Exordi8Inv, SequentInv, [Exordi8Next]_exordi8Vars PROVE SequentInv'
  OBVIOUS
<1>1. ASSUME NEW u \in User, parseDISCARD(u) PROVE SequentInv'
  <2> DEFINE last == lastDiscardedCard
  <2>1. PICK c \in hands[u] : fits(c) /\ (discardCard(u, c) \/ discardAndDrawTwo(u, c))
    BY <1>1 DEF parseDISCARD
  <2>2. /\ lastDiscardedCard' = c
        /\ discard' = discard \cup {c}
        /\ sequentTrick' = (triggersSequent(c) \/ (sequentTrick /\ ~breaksSequent(c)))
    BY <2>1 DEF discardCard, discardAndDrawTwo, discarded
  <2>3. TopOfPile'
    BY <2>2 DEF TopOfPile
  <2>4. last.index \in Nat /\ c.index \in Nat
    BY DEF Exordi8Inv, Exordi8TypeOK, Card
  <2>5. CASE triggersSequent(c)
    <3>1. c.index = 3 /\ last.index = 2
      BY <2>5 DEF triggersSequent
    <3>2. last \in discard /\ c.suit = last.suit
      BY <2>1, <3>1, NextOfSuit DEF SequentInv, TopOfPile
    <3>3. RanksTo(discard', c)
      <4>1. last.index \in Nat /\ last.index >= 2 /\ c.index = last.index + 1
        BY <3>1
      <4>2. ~(last.index >= 3)
        BY <3>1
      <4>3. RanksTo(discard \cup {c}, c)
        BY <3>2, <4>1, <4>2, NextRank
      <4>4. QED
        BY <2>2, <4>3
    <3>4. SequentIsRun'
      BY <2>2, <3>1, <3>2, <3>3 DEF SequentIsRun, RanksTo
    <3>5. QED
      BY <2>3, <3>4 DEF SequentInv
  <2>6. CASE sequentTrick /\ ~breaksSequent(c)
    <3>1. /\ \E x, y \in discard : x.index = 2 /\ y.index = 3 /\ x.suit = y.suit
          /\ last.index >= 3
          /\ last.index < Queen => RanksTo(discard, last)
      BY <2>6 DEF SequentInv, SequentIsRun, RanksTo
    <3>2. \E x, y \in discard' : x.index = 2 /\ y.index = 3 /\ x.suit = y.suit
      BY <2>2, <3>1
    <3>3. CASE isQueenOfSpades(c)
      <4>1. c.index = 12
        BY <3>3 DEF isQueenOfSpades, Queen
      <4>2. SequentIsRun'
        BY <2>2, <3>2, <4>1 DEF SequentIsRun, Queen
      <4>3. QED
        BY <2>3, <4>2 DEF SequentInv
    <3>4. CASE ~isQueenOfSpades(c)
      <4>1. c.index = last.index + 1
        BY <2>4, <2>6, <3>4 DEF breaksSequent
      <4>2. c.index >= 3
        BY <2>4, <3>1, <4>1
      <4>3. c.index < Queen => RanksTo(discard', c)
        <5>1. HAVE c.index < Queen
        <5>2. last.index < Queen /\ last.index >= 2
          BY <2>4, <3>1, <4>1, <5>1 DEF Queen
        <5>3. c.index <= 8 => c.suit = last.suit
          <6>1. c.index <= 8 => last.index \in 2 .. 7
            BY <2>4, <3>1, <4>1
          <6>2. QED
            BY <2>1, <4>1, <6>1, NextOfSuit
        <5>4. RanksTo(discard \cup {c}, c)
          BY <2>4, <3>1, <4>1, <5>2, <5>3, NextRank
        <5>5. QED
          BY <2>2, <5>4
      <4>4. SequentIsRun'
        BY <2>2, <3>2, <4>2, <4>3 DEF SequentIsRun, RanksTo
      <4>5. QED
        BY <2>3, <4>4 DEF SequentInv
    <3>5. QED
      BY <3>3, <3>4
  <2>7. CASE ~triggersSequent(c) /\ ~(sequentTrick /\ ~breaksSequent(c))
    BY <2>2, <2>3, <2>7 DEF SequentInv, SequentIsRun
  <2>8. QED
    BY <2>5, <2>6, <2>7
<1>2. ASSUME UNCHANGED <<lastDiscardedCard, sequentTrick, discard>> PROVE SequentInv'
  BY <1>2 DEF SequentInv, SequentIsRun, TopOfPile
<1>3. ASSUME NEW u \in User, ~parseDISCARD(u),
             \/ parsePLAY(u) \/ parseDISCARD(u) \/ parsePASS(u)
             \/ parsePICKUP(u) \/ \E s \in Suit : parseSUIT(u, s)
      PROVE  UNCHANGED <<lastDiscardedCard, sequentTrick, discard>>
  BY <1>3 DEF parsePLAY, parsePASS, parsePICKUP, parseSUIT
<1>4. parseDEAL \/ UNCHANGED exordi8Vars
        => UNCHANGED <<lastDiscardedCard, sequentTrick, discard>>
  BY DEF parseDEAL, exordi8Vars
<1>5. QED
  BY <1>1, <1>2, <1>3, <1>4 DEF Exordi8Next

(* A sequent in play has left a 2 and the 3 of its suit on the pile, and   *)
(* every rank from there to the card on top, in the suit up to an 8.       *)
THEOREM SequentsAreRuns == Exordi8Spec => []SequentIsRun
<1>1. Exordi8Init => SequentInv
  BY DEF Exordi8Init, SequentInv, SequentIsRun, TopOfPile
<1>2. SequentInv => SequentIsRun
  BY DEF SequentInv
<1>3. QED
  BY <1>1, <1>2, Exordi8InvInit, Exordi8InvNext, SequentInvNext, PTL DEF Exordi8Spec

-----------------------------------------------------------------------------
(* The cards of the stock s that the two drawn are: two, or what it holds. *)
LEMMA TwoOfStock ==
  ASSUME NEW s, NEW a, NEW b, a # b,
         s # {} => a \in s, s \ {a} # {} => b \in s
  PROVE  LET taken == s \ (s \ {a, b})
         IN  /\ taken \subseteq {a, b}
             /\ Cardinality(taken) <= 2
             /\ Cardinality(taken) < 2 => s \ {a, b} = {}
<1> DEFINE taken == s \ (s \ {a, b})
<1>1. taken \subseteq {a, b}
  OBVIOUS
<1>2. CASE s = {}
  <2>1. taken = {}
    BY <1>2
  <2>2. Cardinality(taken) = 0
    BY <2>1, FS_EmptySet
  <2>3. QED
    BY <1>1, <1>2, <2>2
<1>3. CASE s # {} /\ s \ {a} = {}
  <2>1. taken = {a}
    BY <1>3
  <2>2. Cardinality(taken) = 1
    BY <2>1, FS_Singleton
  <2>3. QED
    BY <1>1, <1>3, <2>2
<1>4. CASE s \ {a} # {}
  <2>1. taken = {a} \cup {b} /\ b \notin {a}
    BY <1>4
  <2>2. IsFiniteSet({a}) /\ Cardinality({a}) = 1
    BY FS_Singleton
  <2>3. Cardinality({a} \cup {b}) = 2
    BY <2>1, <2>2, FS_AddElement
  <2>4. QED
    BY <1>1, <2>1, <2>3
<1>5. QED
  BY <1>2, <1>3, <1>4

(* What becomes of a player who breaks a sequent.                          *)
LEMMA PunishmentNext ==
  ASSUME Exordi8Inv, [Exordi8Next]_exordi8Vars,
         sequentTrick, ~sequentTrick'
  PROVE  LET p == players[currentPlayer]
             taken == stock \ stock'
         IN  /\ hands[p] \ hands'[p] = {lastDiscardedCard'}
             /\ taken \subseteq hands'[p]
             /\ Cardinality(taken) <= 2
             /\ Cardinality(taken) < 2 => stock' = {}
             /\ taken # {} => playing' /\ currentPlayer' = nextPlayer(forwardDirection)
             /\ UNCHANGED <<forwardDirection, nextSuit>>
<1>1. PICK u \in User : parseDISCARD(u)
  <2>1. ~UNCHANGED sequentTrick
    OBVIOUS
  <2>2. QED
    BY <2>1 DEF Exordi8Next, exordi8Vars, parseDEAL, parsePLAY, parsePASS, parsePICKUP, parseSUIT
<1>2. PICK c \in hands[u] : discardCard(u, c) \/ discardAndDrawTwo(u, c)
  BY <1>1 DEF parseDISCARD
<1>3. breaksSequent(c) /\ discardAndDrawTwo(u, c)
  BY <1>2 DEF discardCard, discardAndDrawTwo, discarded
<1>4. PICK a \in removeCard(stock, jokers) :
         \E b \in removeCard(stock \ {a}, jokers + jokerCount(a)) :
           /\ discarded(u, c, (hands[u] \cup {a, b}) \ {c})
           /\ stock' = stock \ {a, b}
  BY <1>3 DEF discardAndDrawTwo
<1>5. PICK b \in removeCard(stock \ {a}, jokers + jokerCount(a)) :
        /\ discarded(u, c, (hands[u] \cup {a, b}) \ {c})
        /\ stock' = stock \ {a, b}
  BY <1>4
<1> DEFINE hand == (hands[u] \cup {a, b}) \ {c}
           taken == stock \ stock'
<1>6. isTurnOf(u) /\ players[currentPlayer] = u /\ playing
  BY <1>1, Turn DEF parseDISCARD
<1>7. a # b /\ a \notin hands[u] /\ b \notin hands[u]
  BY <1>6, DrawnTwo
<1>8. hand # {} /\ hands[u] \ hand = {c} /\ {a, b} \subseteq hand
  BY <1>7
<1>9. /\ taken \subseteq {a, b}
      /\ Cardinality(taken) <= 2
      /\ Cardinality(taken) < 2 => stock' = {}
  <2>1. (stock # {} => a \in stock) /\ (stock \ {a} # {} => b \in stock)
    BY DEF removeCard
  <2>2. QED
    BY <1>5, <1>7, <2>1, TwoOfStock
<1>10. discarded(u, c, hand)
  BY <1>5
<1> HIDE DEF hand, taken
<1>11. ~trumpingOkay(c)
  BY <1>3 DEF trumpingOkay
<1>12. /\ hands' = [hands EXCEPT ![u] = hand]
       /\ lastDiscardedCard' = c
       /\ playing' = TRUE
       /\ nextSuit' = nextSuit
       /\ forwardDirection' = (forwardDirection # FALSE)
       /\ currentPlayer' = nextPlayer(forwardDirection')
  BY <1>8, <1>10, <1>11 DEF discarded
<1>13. forwardDirection \in BOOLEAN /\ hands \in [User -> SUBSET Card]
  BY DEF Exordi8Inv, Exordi8TypeOK
<1>14. forwardDirection' = forwardDirection /\ hands'[u] = hand
  BY <1>12, <1>13
<1>15. QED
  BY <1>6, <1>8, <1>9, <1>12, <1>14 DEF taken

(* Whoever breaks a sequent puts one card down, takes two from the stock   *)
(* or what there is, and, having taken one, has not won and loses the      *)
(* turn; the direction and the suit in force stay.                         *)
THEOREM BreakersArePunished == Exordi8Spec => BreakingIsPunished
<1> DEFINE Punished ==
  sequentTrick /\ ~sequentTrick' =>
    LET p == players[currentPlayer]
        taken == stock \ stock'
    IN  /\ hands[p] \ hands'[p] = {lastDiscardedCard'}
        /\ taken \subseteq hands'[p]
        /\ Cardinality(taken) <= 2
        /\ Cardinality(taken) < 2 => stock' = {}
        /\ taken # {} => playing' /\ currentPlayer' = nextPlayer(forwardDirection)
        /\ UNCHANGED <<forwardDirection, nextSuit>>
<1>1. Exordi8Inv /\ [Exordi8Next]_exordi8Vars => [Punished]_exordi8Vars
  BY PunishmentNext
<1> HIDE DEF Punished
<1>2. Exordi8Spec => [][Punished]_exordi8Vars
  BY <1>1, Exordi8InvInit, Exordi8InvNext, PTL DEF Exordi8Spec
<1>3. QED
  BY <1>2 DEF Punished, BreakingIsPunished
=============================================================================
