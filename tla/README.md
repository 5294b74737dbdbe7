# A TLA+ model of Exordium network services

Exordium (`src/services`) is a set of IRC network services that runs inside the
KineIRCd server. Users talk to it in private messages ("/msg Nick identify
secret") and, for games, on channels. This directory holds a formal model of its
core logic: TLA+ modules, the TLC runs that check them on small instances, and
proofs, checked by TLAPS, of what matters most for every instance.

`PROJECT.json` lists the components, the runs, the lines of code each definition
stands for, the hazards of the code and the properties that cover them, the
disagreements between code and documentation that the runs show, and the theorems.

## The system

Everything happens in one thread. The server reports events (a client signs on,
quits, changes nickname; a message for a service; a timer) by calling the services
one at a time, and each handler runs to its end. What makes the code hard is not
parallelism but *state that outlives the handler that wrote it*: an SQL database that
survives restarts, in-memory maps that do not, rows that refer to each other by
numbers that the database hands out, and long games. An event may come in any
order, so the model lets every event happen whenever its guards allow it.

| Part | State | Operations | Hard behaviour | What makes it correct |
|---|---|---|---|---|
| Registry of online users (`lib/services.cpp`) | `users` (nickname to User), table `onlineclients` | `addClient`, `delUser`, `setNick`, `locateID`, constructor | map and table are updated by different keys; IDs are looked up after the insert; restarts | both follow the network; IDs unique and stable |
| User (`lib/user.cpp`) | rows of `nicks`, `nickspending`, `nicksidentified`, `kills` | queries and updates by nickname or online ID | rows outlive clients and accounts | nobody profits from another's row; settings end with their account |
| Nick (`mod.nick`) | as User | REGISTER, AUTH, IDENTIFY, SET, sign-on handler | commands, quits, nickname changes and expiries in any order | an account is changed by its owner or by staff |
| Serv (`mod.serv`) | `access`, `nicks`, `news`, `chanfreeze` | SETPASS, DELNICK, USER, CHAN, FREEZE, NEWS, ... | deletes accounts that other rows refer to | only staff; no leftovers that give rights |
| Chan (`mod.chan`), `dChan`, `Channel` | `chans`, `chanopts`, `chanaccess`, `onlinechan`, `chanstatus` | REGISTER, SET, TOPIC, ADDUSER, OP, VOICE, KICK, DROP, ...; join, part, modes, topics | tables with different keys (channel ID, name, online IDs); the level and the freeze are checked in each command | levels bound commands; a registration starts from the defaults; a freeze holds |
| Game service and factory (`mod.game/game.cpp`) | map of games per channel | START, LIST, lines for a game | a game is replaced or ends while others write to it | one game per channel |
| Exordi8, Hangman, Poker (`mod.game`) | players, hands, stock, turn | their commands | turn order, special cards, an empty stock | cards are conserved; the turn goes round; somebody can move |
| Note (`mod.note`) | `notes` | SEND, LIST, READ, DEL | notes are named by position | the numbers of a user's notes change only by that user's deletions |
| Oper, Love, Vote, Credits, Stats, Bot, Help | little or none | their commands | MDEOP's loop over users that may be gone | |
| Module loader (`lib/modules.cpp`, `lib/module.cpp`, `module.cpp`) | map of loaded modules, open libraries, registered services and tag maps | load, start, stop, unload, destruction | partial failures, repeated names, keys that are pointers | the code the host may call is open; one service per file |
| Database layer (`lib/database`) | one connection, one current result | queries, `dbGetRow`, `dbGetValue` | nested queries replace the result that is walked over | a reader reads its own result |
| Bank (`libbank`) | none (a stub) | | | |

Interaction: the server calls `ServicesInternal`, which keeps the registry, and then
the handlers of each service; a service finds the `User` object of the sender in the
registry and asks it about its account; the `User` runs SQL queries on the one
connection. Games are owned by the game service, which passes channel messages on.

## Modules

| Module | Models | Lines up with the code |
|---|---|---|
| `OnlineUsers` | the registry | one action per method; `users` is the map, `onlineclients` the table, `network` the truth they should follow |
| `Accounts` | what registration promises, abstractly | no code: connections, trust, accounts, staff |
| `NickServ` | Nick, its part of User, and Serv's SETPASS, DELNICK and USER, over `OnlineUsers` | one action per command or event, a variable per table; implements `Accounts` |
| `NickRecords` | what is kept for a nickname: the columns of its account, which SET writes and INFO shows, and its notes | one action per command; the tables `nicks` and `notes` |
| `ChannelRights` | what the registration of channels promises, abstractly | no code: registrations by number, levels, staff |
| `ChanServ` | Chan's REGISTER, ADDUSER, SET and DROP, Serv's CHAN and FREEZE, `Channel` and `dChan`, over `NickServ` | one action per command, a variable per table; implements `ChannelRights` |
| `ChannelRanks` | what the record of ops and voices promises, abstractly | no code: connections, reports of the network, levels, ranks |
| `ChanStatus` | `chanstatus` with the handlers of joins, parts and modes, OP, DEOP, VOICE, DEVOICE, KICK and Oper's MDEOP, over `OnlineUsers` | one action per command or handler; implements `ChannelRanks` |
| `ChannelRecords` | the columns and switches of a channel (`chans`, `chanopts`): SET, TOPIC, the handler of topics, registration, changes of owner, freezes | one action per command; a variable per table |
| `RowWalk` | what a loop over the rows of a query promises, abstractly | no code |
| `Database` | the connection with its one result, and every loop over rows in the services | a record per loop; one action per call of the connection; implements `RowWalk` |
| `Loader` | the services module from configuration to destruction, the loader, the console's MODULE | one action per entry point |
| `SheddingGame` | what a turn-based card game promises, abstractly | no code |
| `Exordi8` | one game of Exordia8 | one action per command; implements `SheddingGame` |
| `ChannelGames` | what the game service promises the users of a channel, abstractly | no code: phase, roster and turn of each channel |
| `Games` | the game service, Hangman and Poker | one action per command; a record per game; implements `ChannelGames` |
| `OnlineUsersProofs`, `NickServProofs`, `ChanServProofs`, `ChanStatusProofs`, `NickRecordsProofs`, `Exordi8Proofs`, `GamesProofs` | theorems and proofs about the module of that name | |
| `FoundationProofs` | theorems and proofs about `ChannelRecords`, `Loader` and `Database` | |
| `MC...` | one small instance of each for TLC | |

Each of `OnlineUsers`, `NickServ` and `ChanServ` extends the one before: a step of `ChanServ` is a
step of a channel command, or a step of `NickServ` that leaves the channels alone, and so on
down to the registry; `ChanServIsNickServ` and `NickServIsOnlineUsers` prove it. `ChanStatus` extends `OnlineUsers`, whose online IDs its rows are made of. `NickRecords`,
`ChannelRecords` and `Database` stand alone: what they need of the others (who is identified, who has which
level) is reduced to what the others may do at any time, so that what they show holds whatever the others do.

Abstractions that hold everywhere. A command that is refused only sends a message, so
it is no step. Replies, logging and help texts are left out. A table is a set of rows,
or a sequence where the order of the rows matters; auto-increment columns are
counters with a bound (`MaxOnlineID`, `MaxRegID`), which only stop the exploration.
Nicknames are model values with the two foldings of the code, `String::toLower` and
`String::IRCtoLower`, as functions. The password hash is left out, since
`Utils::generatePassword` returns the password. Operators called `<definition>_<word>`
and introduced by "Mutant:" are faulty versions of the definition that follows;
they are used by no specification, and `PROJECT.json` names the property that tells
each from the original.

### OnlineUsers

`addClient` inserts the row with the ASCII folding of the nickname, looks its ID up by the
IRC folding, and files the User under that. `delUser` deletes by nickname, `setNick`
updates by ID. `restart` is the constructor: the server runs the services in its own
process, so the network is empty too; the auto-increment may or may not start anew.
That nicknames differ on the network is the server's guarantee (`NameFree`).

### NickServ

The sign-on handler runs in the step of `addClient`. `becomeDue` lets the time of a row of
`kills` pass at any moment. `checkpoint` models the whole walk over that table with
the one result a connection has: the deletion and look-ups for the first row that is
due replace the result; the walk ends if the user is gone, and otherwise reads a row that
is not there, which kills the process unless it was the last row. A deletion from `kills` (`deleteKills`)
leaves the other rows in their order. A new row of `nicks` has `modnick`
set (the last of the seventeen values that `registerNick` inserts), so users of a nickname are asked to identify
until its owner says otherwise. A SET LANGUAGE with an unknown code tells the user so and then uses
the null pointer: the process dies. `ServicesInternal::checkpoint` is private (`lib/services.h:58`) and nothing in `src/` calls it; the model lets it
run at any time or never, so it shows what its code would do to the rows, and nothing depends on its being called. Of Serv's USER only ADD ever changes a row: MOD compares the sender's level with itself, and
DEL asks `getServiceAccess`. `isIdentified`
compares the first row only, which is why an identification carries `first`. Staff is
whoever is in `access`; `Static::getServiceAccess` sends a malformed query and
so protects nobody.

### ChanServ

The tables `chans`, `chanaccess` and `chanfreeze` are variables, and `objects` is the map of `dChan`
objects. Nothing in `src/` announces channels or calls `addChan`, so when an object comes and goes is
the environment's choice. Every command finds the ID of a channel and of an account by name, each
time anew; 0 stands for "not registered", and rows with the ID 0 are what
`RightsAreGrounded` excludes. The commands differ in whose level they look at, and the model follows each: ADDUSER
looks at the first nickname the sender identified for, SET at all of them, DROP at the
nickname in use with any identification. A refused SET deletes the object and leaves it in the map
(`freed`); a later use of it may kill the process, which `startServices` allows at any time, or find
the memory as it was. `getIDList` returns names separated by blanks with one in front; the
tokens (`StringTokens`, not in the repository) are taken to skip empty ones. Levels are numbers
below `Founder` = 500. The columns that SET writes (topic, modes, options) are in `ChannelRecords`.

`ChannelRights` has no names at all. Registrations are numbers used once; a right on a channel
appears by `Register` (by a client trusted with the account that gets it), by `Grant` (below a right of an account the client is
trusted with, to an account that had none) or by `ActAsStaff` (one channel at a time), and ends with the registration.

### NickRecords

A column holds the account that its writer was identified for, or the default; which text it is does not
matter to who wrote it. `parseINFO` gives the columns that INFO tells, including the staff's share of them. Password, address
and `modnick` are in `NickServ`; `privmsg` is written by a query that fails, since the table has no such column.
Notes are rows found by nickname, and `parseDEL` deletes the row at a position among the user's own by its ID: `numberOf` counts
the user's rows up to a note. MySQL promises no order without ORDER BY; the model takes that of the IDs, in which a scan of the primary key yields
rows. In which order a channel's members get their notes is left open. Notes outlive the account: who registers the nickname next has them, and a channel note
to an account that is gone goes to the nickname "" and stays for ever.

### ChanStatus

One channel is followed through creations and ends; each time it has a new online ID. The methods that would send MODE
or KICK are empty in the code (`services.h`), so what the network thinks (`members`, `ops`, `voices`) changes only by its own
reports. OP, DEOP, VOICE and DEVOICE return inside the loop over the nicknames a user has identified for, so only the first
counts (`FirstLevel`); KICK and SET look for one that will do (`BestLevel`). MDEOP deletes the channel's object after its loop and leaves it in the map
(`oper.cpp:140`), as a refused SET does: what uses it next finds the memory as it was or is the process's death (`startServices`). `ChannelRanks` has a rank per connection
and incarnation of the channel: it changes by a report about that client, by a command whose level is high enough, or by
staff, and ends with the connection or the channel.

### ChannelRecords

The columns of `chans` are found by ID, those of `chanopts` by name. The columns of `chanopts` are those the queries write;
`tables.cpp` declares only `clog`, but `affirmTable` is a stub that makes no table. A sender is reduced to a level on the
channel. `registerChannel` inserts into the two tables in one step: a crash between its inserts, which would leave a channel without switches (and, in `ChanServ`, without a founder), is
not modelled. `setChanLog` writes to a table `Chanopts`, which is the same table or none (`CaseSensitive`).

### Database

`result` is the connection's result, `row` its current row. A query of any kind frees the one and may
replace both; a command leaves no result. A loop is a record: whether it walks over a copy, when it
fetches the next row, which queries its body makes and what happens if a user is not found. The loops were listed from
every `dbGetResultSet` and `dbGetRow` in the services; stubs (`serviceNotice`, `mode`, `sendGOper`, ...) query nothing. The parts
of a body that show or compute are left out. `openFails` and `queryFails` are the errors that `dbQuery` answers with 0 rows: a copy made then
dereferences a null pointer. `RowWalk` allows a loop to leave early or to die, but not to read what is not its own; which loops die (`OnlyNestedWalksDie` names those the code
does not protect) and which come to their end with all rows read (`WalksComplete`) is the other half.

### Loader

A module's key in the map is the pointer to its short name, so a file loaded twice has one key, and a name that somebody types
is nobody's (`KeyOf`, `TypedKey`): MODULE UNLOAD never finds its module. `unloadAll` returns after the first module,
and `Module` objects are never deleted, so services and tag maps stay registered. The destructors of the database
`delete this` and do not come to an end: stopping is the process's death. `affirmTable` answers true, so every module starts.

### Exordi8

A card has a suit, an index and the number of its pack. The stock is a set from which any card may
come next, which is what shuffling once and taking from the back amounts to. A
Joker is a card that `removeCard` makes up when the stock is empty. `discarded` keeps the order of
the code: penalty, discard, win, trump, next player. `alive` becomes false with the winning
discard, after which the game service deletes the object. Who may deal, how a pass is
refused and what devalues a trump are as in the code, not as in `README.Exordi8`.

### Games

`channelGames` maps each channel to the record of its game or to `NoGame`, and a game's members are
the record's fields. A parser that returns false is `leave`, one that returns true is `keep`. `handleSTART` replaces
whatever game there was. The commands of the three games do not overlap except PLAY, whose code is the
same in all of them. A word is the set of its letters; since `getLevelData` may read past its list, any
set of letters can come, and none. A guess of several letters may or may not be the word. Of Exordi8
only the turn, and that a discard may end the game, is kept here; `Exordi8` has the rest, for one
game. `startServices` is the death of the process, which also stands for the use of a user's object after
that user has gone.

## Runs

Passing runs. Only `Database` assumes fairness (`FairDatabaseSpec`), and only `WalksComplete` needs it: a loop that has begun takes its next step
(`walkOn`), because a handler runs on by itself to its end, a query is answered, if only with an error, and nothing in a loop waits for anybody. Whether a user is missing, which rows a query has and
whether it fails are left to chance. No fairness is assumed of users, of the network or of timers.

| Run | Shows | Bounds |
|---|---|---|
| `OnlineUsers` | map and table follow the network, IDs are unique and stable | 3 clients, 4 spellings of 3 nicknames, 5 IDs: enough to reuse a nickname after a quit, a change and a restart |
| `NickServ` | only owners and staff change accounts; one account per nickname; no identification for what is not confirmed; a demand to identify is not lost to the expiry of another | 2 clients, 2 nicknames, 3 IDs, 2 accounts, up to 2 demands at a time: one client may be gone and another come, one account deleted and made again, one demand before the other, of the same nickname or not |
| `NickRecords` | INFO tells what the present account has set; the numbers of notes change only by their owner, who deletes one note or all | 2 users, 2 nicknames, 2 registrations, 3 notes: an account deleted and registered anew by the other user while the first is identified; a note before and behind another's |
| `ChanServ` | rights on channels: levels come from registrations, from higher levels or from staff, end with the registration, and only the owner is founder | 2 clients, 2 nicknames, 2 accounts, a channel registered up to twice, levels 0, 100 and 500, one freeze each |
| `ChanStatus` | statuses are of this run of services, and implement the ranks | 2 clients, 2 nicknames, 2 online IDs in a run, a channel created up to twice, levels on both sides of 50, 99 and 400 |
| `ChannelRecords` | one row in each table per registration, defaults at the start, nothing changes during a freeze | 2 channels, 3 registrations, levels on both sides of 150 and 400 |
| `Database` | no loop reads another query's rows; only the named ones die; those that pass over missing users come to their end with all rows read | results of up to 3 rows: a first, a middle and a last one |
| `Loader` | libraries stay open, listed modules have a service, one per file | 4 files (two modules, a library that is none, a missing one), each opened up to 3 times |
| `Exordi8` | cards are conserved, the pile shows the sequent in play, a penalty is a penalty, and the game is a shedding game | 2 or 3 players, a pack of 7 cards: a 2, its 3 and 4, an 8 and an ace of clubs, and the Queens of Spades and Hearts; hands of 2: sequents, reversed play, an empty stock, Jokers |
| `Games` | games in play are undecided, every guess counts, and only the player to move moves | 2 channels, 3 users, 3 letters, 3 wrong guesses: words with and without letters, repeated letters, a full table, games started over others |

Clients are interchangeable in `NickServ`, `NickRecords`, `ChanStatus` and `ChanServ`, nicknames in `NickServ` and `ChanServ`, channels, users and letters in `Games` (symmetry). `ChanServ.cfg`
constrains the exploration to states where every account demands identification and no demand comes due (`EverybodyIsAsked`: the expiry
of demands is what `NickServ` is run for, and no channel command reads them) and at most one account is staff (`OneOfStaff`). `ChanStatus.cfg` follows, of what
clients leave behind, the rows of ops (`LeftBehindAreOps`), and bounds levels, identifications and modes; `ChannelRecords.cfg` bounds how many
things about a channel differ from the defaults at a time (`FewChanges`). `CHECK_DEADLOCK FALSE` is said where the system may stop: a game of
Exordi8 ends, or gets stuck; a process that has died or stopped does nothing more (`Database`, `Loader`); and `ChannelRecords` stops where the bound on
registrations does.

Two runs show disagreements of the code with its documentation (findings in `PROJECT.json`). `Exordi8Stuck`: `README.Exordi8` says
that with an empty stock one may pass, but the guard of PASS is inverted, and the game is stuck; the property asks whether any command of the player whose turn it is
is enabled. `Exordi8Penalty`: who breaks a sequent takes two cards "from the stock (if any)", but an empty stock
yields Jokers, which no pack contains.

Other differences between code and documentation that the model keeps as the code has them, without a
run: `locateID` folds a nickname by another function than `addClient`, and `getChanID` a channel by another than `registerChannel`, so clients and
channels with brackets in their names share the ID 0 (`services.cpp:650`, `channel.cpp:97`; the runs use names whose foldings agree); only the first identification of a
client counts (`user.cpp:333`); `setEmail` writes the column `password` (`user.cpp:682`); a refused SET deletes the channel's object, which `findChan` goes
on returning (`chan.cpp:415`), and so does MDEOP (`oper.cpp:140`); `setChanLog` writes to `Chanopts`; MODULE UNLOAD finds no module and `unloadAll` unloads one (`modules.cpp:133`, `:174`); `dbSelect` with an order returns a count (`database.cpp:137`); a protected nickname taken by a change of nickname is not asked about; a demand to identify outlives the client's identification
for another spelling; who places an 8 may take a card or pass instead of selecting a suit, which the
next player then does (`README.Exordi8`, line 73); the devaluation by the Queen of Spades looks at the card put down and not at the one
below; an 8 must match like any other card, and one that breaks a sequent leaves the suit of an
earlier 8, or none, to be matched; the branch that ends a sequent at the 8 cannot be reached; DROP is not refused while
a channel is frozen; CHAN MOD to somebody who has a level leaves that row beside the new one.

## Proofs

TLAPS checks these for all values of the constants (under the modules' ASSUMEs).

* `MapFollowsNetwork` (`OnlineUsersProofs`): the map of users follows the network whatever the nicknames. `MapInv` adds that two
  clients have different keys and that IDs in use are below `nextOnlineID`. The ID of a new client is the least one among the rows that
  its nickname finds, or 0, and either way an ID handed out (`LocatedID`, from `LeastElement`: a set of natural numbers has a least one).
* `RegistryCorrect`, `OnlineIDStability` (`OnlineUsersProofs`): table and IDs. Assumption `PlainNames`: the two foldings agree, that is, no
  nickname has brackets; without it these are false (two such clients are given the ID 0). `OnlineInv` is `MapInv` with the properties
  themselves and that keys in map and table are folded, without which a new row could match an old key.
* `AccountsUnique`, `PendingComesFirst`, `DemandsLast`, `NickTypeCorrect` (`NickServProofs`), whatever the nicknames. Every step of the service
  is a step of the registry or leaves it alone (`RegistrySteps`), so `MapInv` carries over.
  `BaseInv` adds that `nicksidentified` and `access` mention only IDs already handed out, that is why rows
  nobody deletes never speak for a new client or a new account, and that accounts are under folded nicknames (`NicknamesAreFolded`): then it is
  the same account that a registration looks for and finds, though two foldings take part. A registration gets an ID that no
  identification can mention yet (`RegisterPending`).
  `DemandsLast` says that the demands for a nickname, one of which is not due, all end only with the run of services or while its user is identified for its account. It rests on `KillsInv`: demands are filed under folded nicknames, as sign-on finds them in the
  `User` object (`NewUser`), so the query of IDENTIFY, which folds again, ends those for the sender's own key only (`IdentifyEnds`);
  and `checkpoint` deletes the first row that is due, which is never the one that is not (`DeleteKills`).
* `NickServImplementsAccounts` (`NickServProofs`), under `PlainNames`: each action maps to an action of `Accounts` or to a stutter. Trust is
  filed under online IDs, so `NickInv` adds `OnlineInv`: clients who share the ID 0 share what one of them is trusted with.
* `ChanServImplementsRights`, `FounderIsOwner`, `LevelsAreGrounded` (`ChanServProofs`). They assume that the foldings agree on names of
  channels (`PlainChannels`); without it they are false (founders of channels with brackets share the channel ID 0). Of nicknames they
  assume nothing: rights are relative to whom the service takes to be identified, which is what `NickServImplementsAccounts` is about. A name finds one
  channel or none (`ChannelOfName`), so what each command does to the tables can be said in terms
  of one channel (`RegisterEffect`, `DeregisterEffect`, `AdduserEffect`, `ModEffect`). The invariant `ChanInv`
  is `BaseInv`, the types, the two properties and that channel IDs are below `nextChanID`. What Nick does
  to accounts is summed up in `AccountSteps`: fewer, one replaced under its ID and nickname, or a new
  one with a new ID; hence a level left behind by a deleted account never becomes somebody else's.
* `ChanTypeCorrect` (`ChanServProofs`), without an assumption on names. It needs that there are finitely many freezes, since the next is
  numbered by counting them (`FreezesInv`), and that an ID which is looked up is a number even where it is not the right one (`ChanIDIsNumber`).
* `ChanServIsNickServ`, `NickServIsOnlineUsers`, `ChanStatusIsOnlineUsers`: the composed modules behave, in the variables of the one
  below, as that one does alone. So what is proved of a service alone holds with the others about;
  `ChanServKeepsAccounts` says it of confirmations and demands and, under `PlainNames`, of accounts and online IDs.
* `ChanStatusTypeCorrect`, `RanksStayInTheirRun`, `ChanStatusImplementsRanks` (`ChanStatusProofs`), under `PlainNames`. Nothing deletes from
  `chanstatus` when a client quits or a channel goes. `StatusInv` says that a row is about IDs that were handed out, one row for a client and a
  channel, and that nobody is on a channel that does not exist; a query by nickname and one by online ID then mean the same connection
  (`LocateFindsID`), and what each handler does to the table is what a step of `ChannelRanks` does to one connection's rank.
* `CardsAreConserved`, `Exordi8IsSheddingGame`, `SequentsAreRuns`, `BreakersArePunished` (`Exordi8Proofs`). A drawn
  card is in the stock, and so nowhere else, or a Joker with a fresh number (`DrawnTwo`). `Exordi8Inv`
  adds the two phases: no cards before the deal; during play exactly the players hold cards. `SequentsAreRuns`
  needs that the card to match is on the pile (`TopOfPile`) and that the next rank fits on a card below the 8 only in its
  suit (`NextOfSuit`). `BreakersArePunished` needs that the two cards of the penalty are different and in no hand
  (`DrawnTwo`), and which of them were in the stock (`TwoOfStock`).
* `GamesCorrect`, `GuessesRunOut`, `GamesImplementsChannelGames` (`GamesProofs`). Every step starts a game,
  ends one, goes on with one or ends all (`GameSteps`); going on is a join, the beginning or a move (`Joins`, `Begins`,
  `Moves`), and the three theorems follow from what these say. `GamesInv` adds that a game that has not begun has its first
  player to move, as the abstract one has. That guesses run out needs the letters to be finitely many.
* `SettingsGoWithAccounts`, `NumbersStay`, `NickRecordsTypeCorrect` (`NickRecordsProofs`), without `PlainNames`, since the module's nicknames are folded. `AccountsInv` says that a column holds the default or the ID of its
  own row. It is inductive because whoever is identified for the nickname in use is identified by the ID of
  the one row that has it now (`IdentifiedForRow`), not by that of an earlier account. `NotesInv` says that IDs of notes are unique and below
  the next: a SEND to many adds rows behind all others (`SendEffect`), a deletion by ID takes a row of the user's own only, and no two notes of a nickname have one number
  (`NumbersDiffer`), so DEL takes one note.
* `RecordsCorrect`, `RegistrationsStartFromDefaults`, `FreezesHold` (`FoundationProofs`), whatever the levels and defaults
  are and whether or not the database tells `Chanopts` from `chanopts`. `RecordsInv` adds to the invariants that all IDs, those
  of freezes included, have been handed out. Every step registers a channel, drops one or rewrites rows in place
  (`RecordSteps`); a rewrite by ID and one by name meet the same channel (`RowFound`).
* `LibrariesStayOpen`, `ListedModulesAreStarted`, `FilesStartOnce`, `LoaderTypeCorrect` (`FoundationProofs`). One invariant carries all four: a
  library in the list is open, what is registered is of the list while the services exist, and before the start there is no service.

* `OtherWalksSurvive`, `DatabaseImplementsRowWalk` (`FoundationProofs`), for results of any length. `WalkInv` says that the cursor is the loop's
  own, at the position the loop believes in, or was lost to a query of the body's, and that then the loop reads no further row unless it is one of
  those that die of it. What each loop is (`Loops`) enters through a few facts about the records (`CopiedLoops`, `CursorLoops`).

Only model-checked: `WalksComplete` (liveness under fairness is out of the prover's reach), and the violations, which are
counterexamples. Every other property of a run is a theorem.

## Not modelled

The components that `PROJECT.json` marks `not_modelled`, with the reason there: stubs (Bank), services that keep nothing that a later
step depends on, and scripts. The PostgreSQL connection. What the network does with the messages that services send: the functions that send MODE, KICK, KILL and
SVSNICK are empty or commented out. NEWS DEL, since nothing can be added: NEWS ADD refuses every type (`serv.cpp:446`). KILL and GHOST of
Nick compare and report but the kill itself is an empty stub (`services.killnick`). The change of
nickname that should follow an expired demand is commented out in the code.

## Plan

1. Proofs: what the abstract specifications themselves guarantee, which the services then inherit; the types of `ChanStatus` without `PlainNames`.
2. The shuffler of the cards as an algorithm; the hands of Poker.
3. The PostgreSQL connection as a second refinement of `RowWalk`.
