\* Two channels, three users, words of up to three letters, three wrong guesses.
CONSTANTS
  Channel = {ch1, ch2}
  User = {u1, u2, u3}
  Letter = {a, b, c}
  NoGame = NoGame
  maxPlayers = 3
  maxWrongGuesses = 3
SPECIFICATION GamesSpec
INVARIANT GamesTypeOK HangmanUndecided
PROPERTY EveryGuessCounts ImplementsChannelGames
SYMMETRY Anybody
