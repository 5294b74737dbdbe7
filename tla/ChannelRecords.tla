--------------------------- MODULE ChannelRecords ---------------------------
(***************************************************************************)
(* What is recorded about a registered channel: its row of chans with the  *)
(* topic, modes, messages and descriptions, and its row of chanopts with   *)
(* the switches (source/lib/dchan.cpp, channel.cpp), as the Chan service   *)
(* and Serv's CHAN change them.                                            *)
(*                                                                         *)
(* The columns of chans are found by the ID of the channel, those of       *)
(* chanopts by its name, so nothing but the deletion keeps the switches of *)
(* one registration from the next one of the name.                         *)
(*                                                                         *)
(* Names are in folded spelling (ChanServ has the others).  Whoever sends  *)
(* a command is reduced to the levels it has on the channel, those of the  *)
(* nicknames it identified for or that of the nickname in use: any, if the *)
(* channel is registered, and else 0.  An object that was deleted is still *)
(* in the map, and is read as long as nothing overwrites it.  Rows of      *)
(* chanbans are never made: nothing calls ban or addChanBan.  A command    *)
(* refused changes nothing, but for SET, which deletes the object.         *)
(***************************************************************************)
EXTENDS Integers, FiniteSets

CONSTANTS
  Channel,        \* names of channels
  Owner,          \* nicknames that may own them
  Topic,          \* the texts of topics that users choose
  Level,          \* the levels users may have
  DefaultOn,      \* the switches that a new row of chanopts has on
  CaseSensitive,  \* whether the database tells Chanopts from chanopts
  MaxChanID       \* bound on the auto-incremented column chans.id

Option == {"clog", "secure", "enforcebans", "tracktopics", "modelock", "private"}
TextColumn == {"modes", "entrymsg", "partmsg", "cdesc", "url"}

ASSUME RecordsAssumption ==
  /\ Level \subseteq Int
  /\ DefaultOn \subseteq Option
  /\ CaseSensitive \in BOOLEAN
  /\ MaxChanID \in Nat

VARIABLES
  objects,     \* the channels with an object in the map chans
  freed,       \* those of them whose object has been deleted
  chans,       \* the table of registered channels
  nextChanID,  \* the next value of the column chans.id
  chanopts,    \* the table of switches
  frozen       \* the IDs of channels with a freeze that lasts

mapVars == <<objects, freed>>
recordVars == <<mapVars, chans, nextChanID, chanopts, frozen>>

NewTopic == "This is a new channel"
OwnedTopic == "This channel is now owned by"

(* The texts are told apart only as the one of the registration or not.    *)
Chan == [id : Nat, name : Channel, owner : Owner,
         topic : Topic \cup {NewTopic, OwnedTopic}, changed : SUBSET TextColumn]

(* A row of chanopts, with the switches that are on: the columns are those *)
(* of the queries.  tables.cpp declares only clog, but affirmTable makes   *)
(* no table of a declaration.                                              *)
ChanOpts == [name : Channel, on : SUBSET Option]

RowsNamed(ch) == {r \in chans : r.name = ch}
isRegistered(ch) == RowsNamed(ch) # {}
getRegisteredID(ch) == IF isRegistered(ch) THEN (CHOOSE r \in RowsNamed(ch) : TRUE).id ELSE 0
isFreezed(ch) == getRegisteredID(ch) \in frozen
LevelsOn(ch) == IF isRegistered(ch) THEN Level ELSE {0}

(* Switch o of the channel: the queries find a row by name.                *)
getOption(ch, o) == \E r \in chanopts : r.name = ch /\ o \in r.on

RecordsInit ==
  /\ objects = {}
  /\ freed = {}
  /\ chans = {}
  /\ nextChanID = 1
  /\ chanopts = {}
  /\ frozen = {}

-----------------------------------------------------------------------------
(* dbUpdate on the columns of chans, by the ID of the channel.             *)
updateTopic(ch, topic) ==
  chans' = {IF r.id = getRegisteredID(ch) THEN [r EXCEPT !.topic = topic] ELSE r : r \in chans}

setText(ch, column, isDefault) ==
  chans' = {IF r.id = getRegisteredID(ch)
              THEN [r EXCEPT !.changed = IF isDefault THEN @ \ {column} ELSE @ \cup {column}]
              ELSE r : r \in chans}

(* dbUpdate on a column of chanopts, by name.                              *)
setOption(ch, o, value) ==
  chanopts' = {IF r.name = ch
                 THEN [r EXCEPT !.on = IF value THEN @ \cup {o} ELSE @ \ {o}]
                 ELSE r : r \in chanopts}

(* The log is switched off in a table called Chanopts.                     *)
setChanLog(ch, value) ==
  IF ~value /\ CaseSensitive THEN UNCHANGED chanopts ELSE setOption(ch, "clog", value)

(* Both rows of a channel are inserted anew.                               *)
registerChannel(ch, owner) ==
  /\ nextChanID <= MaxChanID
  /\ chans' = chans \cup {[id |-> nextChanID, name |-> ch, owner |-> owner,
                           topic |-> NewTopic, changed |-> {}]}
  /\ nextChanID' = nextChanID + 1
  /\ chanopts' = chanopts \cup {[name |-> ch, on |-> DefaultOn]}

(* Mutant: the switches stay.                                              *)
deregisterChannel_keepOptions(ch) ==
  /\ chans' = chans \ RowsNamed(ch)
  /\ UNCHANGED <<nextChanID, chanopts>>

deregisterChannel(ch) ==
  /\ chans' = chans \ RowsNamed(ch)
  /\ chanopts' = {r \in chanopts : r.name # ch}
  /\ UNCHANGED nextChanID

-----------------------------------------------------------------------------
(* The network reports a channel, or its end; services are restarted.      *)
addChan(ch) ==
  /\ objects' = objects \cup {ch}
  /\ freed' = freed \ {ch}
  /\ UNCHANGED <<chans, nextChanID, chanopts, frozen>>

delChan(ch) ==
  /\ ch \in objects
  /\ objects' = objects \ {ch}
  /\ freed' = freed \ {ch}
  /\ UNCHANGED <<chans, nextChanID, chanopts, frozen>>

startServices ==
  /\ objects' = {}
  /\ freed' = {}
  /\ UNCHANGED <<chans, nextChanID, chanopts, frozen>>

(* REGISTER, by an owner of no other channel, and Serv's CHAN ADD.         *)
parseREGISTER(ch, owner) ==
  /\ ch \in objects
  /\ \A r \in chans : r.owner # owner
  /\ ~isRegistered(ch)
  /\ registerChannel(ch, owner)
  /\ UNCHANGED <<mapVars, frozen>>

(* Mutant: CHAN ADD does not ask whether the channel is registered.        *)
CHANadd_again(ch, owner) ==
  /\ registerChannel(ch, owner)
  /\ UNCHANGED <<mapVars, frozen>>

CHANadd(ch, owner) ==
  /\ ~isRegistered(ch)
  /\ registerChannel(ch, owner)
  /\ UNCHANGED <<mapVars, frozen>>

(* Serv's CHAN MOD.                                                        *)
CHANmod(ch, owner) ==
  /\ isRegistered(ch)
  /\ chans' = {IF r.name = ch THEN [r EXCEPT !.owner = owner, !.topic = OwnedTopic] ELSE r :
                 r \in chans}
  /\ UNCHANGED <<mapVars, nextChanID, chanopts, frozen>>

(* DROP by the founder, and Serv's CHAN DEL, which needs no object.        *)
parseDROP(ch) ==
  /\ isRegistered(ch)
  /\ deregisterChannel(ch)
  /\ UNCHANGED <<mapVars, frozen>>

(* Mutant: a channel that nobody registered is frozen.                     *)
FREEZEadd_unregistered(ch) ==
  /\ frozen' = frozen \cup {getRegisteredID(ch)}
  /\ UNCHANGED <<mapVars, chans, nextChanID, chanopts>>

FREEZEadd(ch) ==
  /\ isRegistered(ch)
  /\ frozen' = frozen \cup {getRegisteredID(ch)}
  /\ UNCHANGED <<mapVars, chans, nextChanID, chanopts>>

(* FREEZE DEL, or the time passes.                                         *)
thaw(id) ==
  /\ frozen' = frozen \ {id}
  /\ UNCHANGED <<mapVars, chans, nextChanID, chanopts>>

(* The method that SET calls for a switch.                                 *)
setSwitch(ch, command, value) ==
  IF command = "clog" THEN setChanLog(ch, value) ELSE setOption(ch, command, value)

(* SET: a switch, a text, or the refusal.  The last three parameters are   *)
(* the best level, the command and its value; a text that is the default's *)
(* is told from others.                                                    *)
parseSET(ch, level, command, value) ==
  /\ ~isFreezed(ch)
  /\ ch \in objects
  /\ isRegistered(ch)
  /\ IF level > 400
       THEN /\ IF command \in Option
                 THEN setSwitch(ch, command, value) /\ UNCHANGED chans
                 ELSE setText(ch, command, value) /\ UNCHANGED chanopts
            /\ UNCHANGED freed
       ELSE freed' = freed \cup {ch} /\ UNCHANGED <<chans, chanopts>>
  /\ UNCHANGED <<objects, nextChanID, frozen>>

(* Mutant: a freeze does not matter.                                       *)
parseTOPIC_frozen(ch, level, topic) ==
  /\ ch \in objects
  /\ level > 150
  /\ updateTopic(ch, topic)
  /\ UNCHANGED <<mapVars, nextChanID, chanopts, frozen>>

parseTOPIC(ch, level, topic) ==
  /\ ch \in objects
  /\ ~isFreezed(ch)
  /\ level > 150
  /\ updateTopic(ch, topic)
  /\ UNCHANGED <<mapVars, nextChanID, chanopts, frozen>>

(* The topic was changed on the network by a user with that level; what is *)
(* sent to revert it goes nowhere.  A server's change is not recorded.     *)
handleTopic(ch, level, topic) ==
  /\ ch \in objects
  /\ isRegistered(ch)
  /\ ~isFreezed(ch)
  /\ level > 100
  /\ getOption(ch, "tracktopics")
  /\ updateTopic(ch, topic)
  /\ UNCHANGED <<mapVars, nextChanID, chanopts, frozen>>

RecordsNext ==
  \/ startServices
  \/ \E id \in frozen : thaw(id)
  \/ \E ch \in Channel :
       \/ addChan(ch)
       \/ delChan(ch)
       \/ parseDROP(ch)
       \/ FREEZEadd(ch)
       \/ \E owner \in Owner : parseREGISTER(ch, owner) \/ CHANadd(ch, owner) \/ CHANmod(ch, owner)
       \/ \E level \in LevelsOn(ch), command \in Option \cup TextColumn, value \in BOOLEAN :
            parseSET(ch, level, command, value)
       \/ \E level \in LevelsOn(ch), topic \in Topic :
            parseTOPIC(ch, level, topic) \/ handleTopic(ch, level, topic)

RecordsSpec == RecordsInit /\ [][RecordsNext]_recordVars

-----------------------------------------------------------------------------
(* Properties.                                                             *)

(* The type of the state.                                                  *)
RecordsTypeOK ==
  /\ objects \subseteq Channel
  /\ freed \subseteq objects
  /\ chans \subseteq Chan
  /\ nextChanID \in 1..(MaxChanID + 1)
  /\ chanopts \subseteq ChanOpts
  /\ frozen \subseteq 1..MaxChanID

(* A registration has one row in each table, and chanopts has no others:   *)
(* the two tables, with different keys, stay in step through every command *)
(* and registration (channel.cpp:251, :294).                               *)
OptionsOfRegistrations ==
  /\ \A r, s \in chans : r.name = s.name \/ r.id = s.id => r = s
  /\ \A o, p \in chanopts : o.name = p.name => o = p
  /\ {o.name : o \in chanopts} = {r.name : r \in chans}

(* Whatever was recorded about a channel before, when it is registered it  *)
(* has the topic, texts and switches of a new channel, and is not frozen.  *)
StartsFromDefaults ==
  [][\A r \in chans' :
       (\A s \in chans : s.id # r.id) =>
         /\ r.topic = NewTopic /\ r.changed = {}
         /\ \A o \in chanopts' : o.name = r.name => o.on = DefaultOn
         /\ r.id \notin frozen]_recordVars

(* As long as a channel is frozen its texts and switches stay as they are, *)
(* and its topic too, unless Serv gives it to an owner: no command and no  *)
(* event of the network gets past the freeze (chan.cpp:152, :584, :1261).  *)
FreezeKeepsRecords ==
  [][\A r \in chans, s \in chans' :
       r.id = s.id /\ r.id \in frozen =>
         /\ s.changed = r.changed
         /\ s.topic \in {r.topic, OwnedTopic}
         /\ \A o \in chanopts : o.name = r.name => o \in chanopts']_recordVars
=============================================================================
