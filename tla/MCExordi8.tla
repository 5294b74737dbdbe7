------------------------------ MODULE MCExordi8 ------------------------------
(* A pack of a few cards, chosen so that the special ones meet: a sequent  *)
(* that an 8, an ace or a queen breaks, and a card that any card covers.   *)
EXTENDS Exordi8

SmallPack == {<<Clubs, 2>>, <<Clubs, 3>>, <<Clubs, 4>>, <<Clubs, 8>>, <<Clubs, Ace>>,
              <<Spades, Queen>>, <<Hearts, Queen>>}
=============================================================================
