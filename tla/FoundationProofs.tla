--------------------------- MODULE FoundationProofs ---------------------------
(***************************************************************************)
(* Proofs about what the services stand on: the records of channels (for   *)
(* any channels, owners, levels and defaults, and whether or not the       *)
(* database tells Chanopts from chanopts), the loader (for every set of    *)
(* files and every bound) and the loops over rows of the one connection to *)
(* the database (for any number of rows).  The three modules share neither *)
(* a variable nor an action, and nothing proved about one is used for      *)
(* another.                                                                *)
(*                                                                         *)
(* Channels: the two tables have different keys.  What keeps them in step  *)
(* is that a name is registered at most once, and what keeps a new         *)
(* registration out of an old freeze is that every ID in use, or frozen,   *)
(* has been handed out: RecordsInv.                                        *)
(*                                                                         *)
(* Loops: the result of the connection is the loop's own and exactly as    *)
(* far as the loop has fetched, or a query of its body has taken its place *)
(* and there is no further row: WalkInv.                                   *)
(***************************************************************************)
EXTENDS ChannelRecords, Loader, Database, TLAPS

(***************************************************************************)
(* The records of channels.                                                *)
(***************************************************************************)

IDsAreOld ==
  /\ \A r \in chans : r.id \in 1..MaxChanID /\ r.id < nextChanID
  /\ \A id \in frozen : id < nextChanID

RecordsInv == RecordsTypeOK /\ OptionsOfRegistrations /\ IDsAreOld

(* A name finds the one row that has it, or none; 0 is the ID of no row.   *)
LEMMA RowFound ==
  ASSUME RecordsInv, NEW ch
  PROVE  /\ \A r \in chans : r.name = ch <=> r.id = getRegisteredID(ch)
         /\ isRegistered(ch) <=> \E r \in chans : r.name = ch
         /\ ~isRegistered(ch) => getRegisteredID(ch) = 0
         /\ isRegistered(ch) => \E r \in chans : r.name = ch /\ r.id = getRegisteredID(ch)
  <1>1. isRegistered(ch) <=> \E r \in chans : r.name = ch
    BY DEF isRegistered, RowsNamed
  <1>2. ~isRegistered(ch) => getRegisteredID(ch) = 0
    BY DEF getRegisteredID
  <1>3. \A r \in chans : r.id # 0
    BY DEF RecordsInv, IDsAreOld
  <1>4. CASE ~isRegistered(ch)
    BY <1>1, <1>2, <1>3, <1>4
  <1>5. CASE isRegistered(ch)
    <2> DEFINE q == CHOOSE r \in RowsNamed(ch) : TRUE
    <2>1. q \in RowsNamed(ch)
      BY <1>5 DEF isRegistered
    <2>2. q \in chans /\ q.name = ch
      BY <2>1 DEF RowsNamed
    <2>3. getRegisteredID(ch) = q.id
      BY <1>5 DEF getRegisteredID
    <2> HIDE DEF q
    <2>4. \A r \in chans : r.name = ch <=> r.id = q.id
      BY <2>2 DEF RecordsInv, OptionsOfRegistrations
    <2> QED
      BY <1>1, <1>5, <2>2, <2>3, <2>4
  <1> QED
    BY <1>4, <1>5

LEMMA RecordsInvInit == RecordsInit => RecordsInv
  BY RecordsAssumption
  DEF RecordsInit, RecordsInv, RecordsTypeOK, OptionsOfRegistrations, IDsAreOld

-----------------------------------------------------------------------------
(* What the commands do to the tables.                                     *)

(* Both tables get a row of the name, which neither had.                   *)
LEMMA RegisterEffect ==
  ASSUME RecordsInv, NEW ch \in Channel, NEW owner \in Owner,
         ~isRegistered(ch), registerChannel(ch, owner),
         UNCHANGED <<mapVars, frozen>>
  PROVE  /\ RecordsInv'
         /\ \A r \in chans' : r \in chans \/
              (/\ r.id = nextChanID /\ r.topic = NewTopic /\ r.changed = {}
               /\ \A o \in chanopts' : o.name = r.name => o.on = DefaultOn)
         /\ chanopts \subseteq chanopts'
         /\ \A s \in chans' : s \in chans \/ s.id = nextChanID
  <1> DEFINE reg == [id |-> nextChanID, name |-> ch, owner |-> owner,
                     topic |-> NewTopic, changed |-> {}]
             opts == [name |-> ch, on |-> DefaultOn]
  <1>1. /\ chans' = chans \cup {reg}
        /\ chanopts' = chanopts \cup {opts}
        /\ nextChanID' = nextChanID + 1
        /\ nextChanID <= MaxChanID
        /\ objects' = objects /\ freed' = freed /\ frozen' = frozen
    BY DEF registerChannel, mapVars
  <1>2. MaxChanID \in Nat /\ nextChanID \in 1..(MaxChanID + 1) /\ DefaultOn \subseteq Option
    BY RecordsAssumption DEF RecordsInv, RecordsTypeOK
  <1>3. /\ reg \in Chan
        /\ reg.id = nextChanID /\ reg.name = ch /\ reg.topic = NewTopic /\ reg.changed = {}
    BY <1>1, <1>2 DEF Chan
  <1>4. opts \in ChanOpts /\ opts.name = ch /\ opts.on = DefaultOn
    BY <1>2 DEF ChanOpts
  <1>5. \A r \in chans : r.name # ch /\ r.id < nextChanID /\ r.id \in 1..MaxChanID
    BY RowFound DEF RecordsInv, IDsAreOld
  <1>6. \A o \in chanopts : o.name # ch
    BY <1>5 DEF RecordsInv, OptionsOfRegistrations
  <1> HIDE DEF reg, opts
  <1>7. RecordsTypeOK'
    BY <1>1, <1>2, <1>3, <1>4 DEF RecordsInv, RecordsTypeOK
  <1>8. OptionsOfRegistrations'
    <2>1. \A r, s \in chans' : r.name = s.name \/ r.id = s.id => r = s
      BY <1>1, <1>2, <1>3, <1>5 DEF RecordsInv, OptionsOfRegistrations
    <2>2. \A o, p \in chanopts' : o.name = p.name => o = p
      BY <1>1, <1>4, <1>6 DEF RecordsInv, OptionsOfRegistrations
    <2>3. {o.name : o \in chanopts'} = {r.name : r \in chans'}
      <3>1. {o.name : o \in chanopts} = {r.name : r \in chans}
        BY DEF RecordsInv, OptionsOfRegistrations
      <3>2. {o.name : o \in chanopts'} = {o.name : o \in chanopts} \cup {opts.name}
        BY <1>1
      <3>3. {r.name : r \in chans'} = {r.name : r \in chans} \cup {reg.name}
        BY <1>1
      <3> QED
        BY <1>3, <1>4, <3>1, <3>2, <3>3
    <2> QED
      BY <2>1, <2>2, <2>3 DEF OptionsOfRegistrations
  <1>9. IDsAreOld'
    BY <1>1, <1>2, <1>3, <1>5 DEF RecordsInv, RecordsTypeOK, IDsAreOld
  <1> QED
    BY <1>1, <1>3, <1>4, <1>6, <1>7, <1>8, <1>9 DEF RecordsInv

(* Both tables lose the row of the name.                                   *)
LEMMA DeregisterEffect ==
  ASSUME RecordsInv, NEW ch \in Channel, parseDROP(ch)
  PROVE  /\ RecordsInv'
         /\ chans' = {r \in chans : r.name # ch}
         /\ chanopts' = {o \in chanopts : o.name # ch}
  <1>1. /\ chans' = {r \in chans : r.name # ch}
        /\ chanopts' = {o \in chanopts : o.name # ch}
        /\ nextChanID' = nextChanID
        /\ objects' = objects /\ freed' = freed /\ frozen' = frozen
    BY DEF parseDROP, deregisterChannel, RowsNamed, mapVars
  <1>2. RecordsTypeOK'
    BY <1>1 DEF RecordsInv, RecordsTypeOK
  <1>3. {o.name : o \in chanopts'} = {r.name : r \in chans'}
    BY <1>1 DEF RecordsInv, OptionsOfRegistrations
  <1>4. OptionsOfRegistrations' /\ IDsAreOld'
    BY <1>1, <1>3 DEF RecordsInv, OptionsOfRegistrations, IDsAreOld
  <1> QED
    BY <1>1, <1>2, <1>4 DEF RecordsInv

(* An update changes rows and keeps their IDs and names.                   *)
LEMMA UpdateKeepsInv ==
  ASSUME RecordsInv, NEW F \in [chans -> Chan], NEW G \in [chanopts -> ChanOpts],
         chans' = {F[r] : r \in chans}, chanopts' = {G[o] : o \in chanopts},
         \A r \in chans : F[r].id = r.id /\ F[r].name = r.name,
         \A o \in chanopts : G[o].name = o.name,
         objects' = objects, freed' \subseteq objects,
         nextChanID' = nextChanID, frozen' = frozen
  PROVE  RecordsInv'
  <1>1. RecordsTypeOK'
    BY DEF RecordsInv, RecordsTypeOK
  <1>2. \A r, s \in chans' : r.name = s.name \/ r.id = s.id => r = s
    BY DEF RecordsInv, OptionsOfRegistrations
  <1>3. \A o, p \in chanopts' : o.name = p.name => o = p
    BY DEF RecordsInv, OptionsOfRegistrations
  <1>4. {o.name : o \in chanopts'} = {r.name : r \in chans'}
    <2>1. {o.name : o \in chanopts'} = {o.name : o \in chanopts}
      OBVIOUS
    <2>2. {r.name : r \in chans'} = {r.name : r \in chans}
      OBVIOUS
    <2> QED
      BY <2>1, <2>2 DEF RecordsInv, OptionsOfRegistrations
  <1>5. IDsAreOld'
    BY DEF RecordsInv, IDsAreOld
  <1> QED
    BY <1>1, <1>2, <1>3, <1>4, <1>5 DEF RecordsInv, OptionsOfRegistrations

(* What a step that registers and deregisters nothing does: the rows stay  *)
(* the same but for their contents, which a freeze keeps from changing.    *)
Rewrites ==
  /\ \A s \in chans' : \E r \in chans : r.id = s.id
  /\ \A r \in chans, s \in chans' :
       r.id = s.id /\ r.id \in frozen =>
         /\ s.changed = r.changed
         /\ s.topic \in {r.topic, OwnedTopic}
         /\ \A o \in chanopts : o.name = r.name => o \in chanopts'

(* An update of the row with an ID that is not frozen.                     *)
LEMMA RowUpdate ==
  ASSUME RecordsInv, NEW id, id \notin frozen, NEW F \in [chans -> Chan],
         chans' = {F[r] : r \in chans},
         \A r \in chans : F[r].id = r.id /\ F[r].name = r.name /\ (r.id # id => F[r] = r),
         UNCHANGED <<objects, nextChanID, chanopts, frozen>>, freed' \subseteq objects
  PROVE  RecordsInv' /\ Rewrites
  <1> DEFINE G == [o \in chanopts |-> o]
  <1>1. G \in [chanopts -> ChanOpts] /\ chanopts' = {G[o] : o \in chanopts}
    BY DEF RecordsInv, RecordsTypeOK
  <1>2. \A o \in chanopts : G[o].name = o.name
    OBVIOUS
  <1> HIDE DEF G
  <1>3. RecordsInv'
    BY <1>1, <1>2, UpdateKeepsInv
  <1>4. \A r \in chans, s \in chans' : r.id = s.id => s = F[r]
    BY DEF RecordsInv, OptionsOfRegistrations
  <1>5. Rewrites
    BY <1>4 DEF Rewrites
  <1> QED
    BY <1>3, <1>5

LEMMA TopicUpdate ==
  ASSUME RecordsInv, NEW ch, ~isFreezed(ch), NEW topic \in Topic, updateTopic(ch, topic),
         UNCHANGED <<objects, nextChanID, chanopts, frozen>>, freed' \subseteq objects
  PROVE  RecordsInv' /\ Rewrites
  <1> DEFINE id == getRegisteredID(ch)
             F == [r \in chans |-> IF r.id = id THEN [r EXCEPT !.topic = topic] ELSE r]
  <1>1. chans \subseteq Chan /\ id \notin frozen
    BY DEF RecordsInv, RecordsTypeOK, isFreezed
  <1>2. chans' = {F[r] : r \in chans}
    BY DEF updateTopic
  <1>3. F \in [chans -> Chan]
    BY <1>1 DEF Chan
  <1>4. \A r \in chans : F[r].id = r.id /\ F[r].name = r.name /\ (r.id # id => F[r] = r)
    BY <1>1 DEF Chan
  <1> HIDE DEF id, F
  <1> QED
    BY <1>1, <1>2, <1>3, <1>4, RowUpdate

LEMMA TextUpdate ==
  ASSUME RecordsInv, NEW ch, ~isFreezed(ch), NEW column \in TextColumn,
         NEW isDefault \in BOOLEAN, setText(ch, column, isDefault),
         UNCHANGED <<objects, nextChanID, chanopts, frozen>>, freed' \subseteq objects
  PROVE  RecordsInv' /\ Rewrites
  <1> DEFINE id == getRegisteredID(ch)
             New(r) == IF isDefault THEN r.changed \ {column} ELSE r.changed \cup {column}
             F == [r \in chans |-> IF r.id = id THEN [r EXCEPT !.changed = New(r)] ELSE r]
  <1>1. chans \subseteq Chan /\ id \notin frozen
    BY DEF RecordsInv, RecordsTypeOK, isFreezed
  <1>2. chans' = {F[r] : r \in chans}
    BY DEF setText
  <1>3. \A r \in chans : New(r) \in SUBSET TextColumn
    BY <1>1 DEF Chan
  <1> HIDE DEF New
  <1>4. F \in [chans -> Chan]
    BY <1>1, <1>3 DEF Chan
  <1>5. \A r \in chans : F[r].id = r.id /\ F[r].name = r.name /\ (r.id # id => F[r] = r)
    BY <1>1 DEF Chan
  <1> HIDE DEF id, F
  <1> QED
    BY <1>1, <1>2, <1>4, <1>5, RowUpdate

(* A switch is found by the name: the row is that of the channel, which is *)
(* not frozen.                                                             *)
LEMMA OptionUpdate ==
  ASSUME RecordsInv, NEW ch, ~isFreezed(ch), NEW o \in Option,
         NEW value \in BOOLEAN, setSwitch(ch, o, value),
         UNCHANGED <<objects, nextChanID, chans, frozen>>, freed' \subseteq objects
  PROVE  RecordsInv' /\ Rewrites
  <1> DEFINE New(p) == IF value THEN p.on \cup {o} ELSE p.on \ {o}
             G == [p \in chanopts |-> IF p.name = ch THEN [p EXCEPT !.on = New(p)] ELSE p]
             F == [r \in chans |-> r]
             H == [p \in chanopts |-> p]
  <1>1. chans \subseteq Chan /\ chanopts \subseteq ChanOpts /\ getRegisteredID(ch) \notin frozen
    BY DEF RecordsInv, RecordsTypeOK, isFreezed
  <1>2. /\ F \in [chans -> Chan] /\ chans' = {F[r] : r \in chans}
        /\ \A r \in chans : F[r].id = r.id /\ F[r].name = r.name
    BY <1>1
  <1>3. \A p \in chanopts : New(p) \in SUBSET Option
    BY <1>1 DEF ChanOpts
  <1>4. /\ G \in [chanopts -> ChanOpts]
        /\ \A p \in chanopts : G[p].name = p.name /\ (p.name # ch => G[p] = p)
    <2> HIDE DEF New
    <2> QED
      BY <1>1, <1>3 DEF ChanOpts
  <1>5. /\ H \in [chanopts -> ChanOpts]
        /\ \A p \in chanopts : H[p].name = p.name
    BY <1>1
  <1>6. chanopts' = {G[p] : p \in chanopts} \/ chanopts' = {H[p] : p \in chanopts}
    BY DEF setSwitch, setChanLog, setOption
  <1>7. \A p \in chanopts : p.name # ch => p \in chanopts'
    BY <1>4, <1>6
  <1> HIDE DEF F, G, H
  <1>8. RecordsInv'
    BY <1>2, <1>4, <1>5, <1>6, UpdateKeepsInv
  <1>9. \A r \in chans : r.id \in frozen => r.name # ch
    BY <1>1, RowFound
  <1>10. \A r, s \in chans : r.id = s.id => r = s
    BY DEF RecordsInv, OptionsOfRegistrations
  <1>11. Rewrites
    BY <1>7, <1>9, <1>10 DEF Rewrites
  <1> QED
    BY <1>8, <1>11

-----------------------------------------------------------------------------
(* Every step registers a channel, deregisters one, gives one to another   *)
(* owner or rewrites what is not frozen.                                   *)

Registers ==
  \E ch \in Channel, owner \in Owner :
    ~isRegistered(ch) /\ registerChannel(ch, owner) /\ UNCHANGED <<mapVars, frozen>>

(* Only the owner and the topic change, of the rows with the name.         *)
LEMMA OwnerUpdate ==
  ASSUME RecordsInv, NEW ch \in Channel, NEW owner \in Owner, CHANmod(ch, owner)
  PROVE  RecordsInv' /\ Rewrites
  <1> DEFINE F == [r \in chans |-> IF r.name = ch
                                     THEN [r EXCEPT !.owner = owner, !.topic = OwnedTopic]
                                     ELSE r]
             G == [o \in chanopts |-> o]
  <1>1. chans \subseteq Chan /\ chanopts \subseteq ChanOpts /\ freed \subseteq objects
    BY DEF RecordsInv, RecordsTypeOK
  <1>2. /\ chans' = {F[r] : r \in chans} /\ chanopts' = {G[o] : o \in chanopts}
        /\ objects' = objects /\ freed' = freed /\ nextChanID' = nextChanID
        /\ frozen' = frozen /\ chanopts' = chanopts
    BY DEF CHANmod, mapVars
  <1>3. F \in [chans -> Chan]
    BY <1>1 DEF Chan
  <1>4. \A r \in chans : /\ F[r].id = r.id /\ F[r].name = r.name
                         /\ F[r].changed = r.changed /\ F[r].topic \in {r.topic, OwnedTopic}
    BY <1>1 DEF Chan
  <1>5. G \in [chanopts -> ChanOpts] /\ \A o \in chanopts : G[o].name = o.name
    BY <1>1
  <1> HIDE DEF F, G
  <1>6. RecordsInv'
    BY <1>1, <1>2, <1>3, <1>4, <1>5, UpdateKeepsInv
  <1>7. \A r \in chans, s \in chans' : r.id = s.id => s = F[r]
    BY <1>2, <1>4 DEF RecordsInv, OptionsOfRegistrations
  <1>8. Rewrites
    BY <1>2, <1>4, <1>7 DEF Rewrites
  <1> QED
    BY <1>6, <1>8

LEMMA RecordSteps ==
  ASSUME RecordsInv, [RecordsNext]_recordVars
  PROVE  \/ Registers
         \/ \E ch \in Channel : parseDROP(ch)
         \/ RecordsInv' /\ Rewrites
  <1>1. \A r, s \in chans : r.id = s.id => r = s
    BY DEF RecordsInv, OptionsOfRegistrations
  <1>2. freed \subseteq objects /\ MaxChanID \in Nat /\ nextChanID <= MaxChanID + 1
    BY RecordsAssumption DEF RecordsInv, RecordsTypeOK
  <1>3. ASSUME UNCHANGED <<chans, nextChanID, chanopts>>,
               objects' \subseteq Channel, freed' \subseteq objects',
               frozen' \subseteq 1..MaxChanID, \A id \in frozen' : id < nextChanID
        PROVE  RecordsInv' /\ Rewrites
    BY <1>1, <1>3 DEF RecordsInv, RecordsTypeOK, OptionsOfRegistrations, IDsAreOld, Rewrites
  <1>4. /\ objects \subseteq Channel
        /\ frozen \subseteq 1..MaxChanID /\ \A id \in frozen : id < nextChanID
    BY DEF RecordsInv, RecordsTypeOK, IDsAreOld
  <1>5. CASE startServices
    BY <1>3, <1>4, <1>5 DEF startServices
  <1>6. ASSUME NEW id \in frozen, thaw(id) PROVE RecordsInv' /\ Rewrites
    BY <1>2, <1>3, <1>4, <1>6 DEF thaw, mapVars
  <1>7. ASSUME NEW ch \in Channel, addChan(ch) \/ delChan(ch) PROVE RecordsInv' /\ Rewrites
    BY <1>2, <1>3, <1>4, <1>7 DEF addChan, delChan
  <1>8. ASSUME NEW ch \in Channel, FREEZEadd(ch) PROVE RecordsInv' /\ Rewrites
    <2>1. getRegisteredID(ch) \in 1..MaxChanID /\ getRegisteredID(ch) < nextChanID
      BY <1>8, RowFound DEF FREEZEadd, RecordsInv, IDsAreOld
    <2> QED
      BY <1>2, <1>3, <1>4, <1>8, <2>1 DEF FREEZEadd, mapVars
  <1>9. ASSUME NEW ch \in Channel, NEW owner \in Owner,
               parseREGISTER(ch, owner) \/ CHANadd(ch, owner)
        PROVE  Registers
    BY <1>9 DEF parseREGISTER, CHANadd, Registers
  <1>10. ASSUME NEW ch \in Channel, NEW owner \in Owner, CHANmod(ch, owner)
         PROVE  RecordsInv' /\ Rewrites
    BY <1>10, OwnerUpdate
  <1>11. ASSUME NEW ch \in Channel, NEW level \in LevelsOn(ch),
                NEW command \in Option \cup TextColumn, NEW value \in BOOLEAN,
                parseSET(ch, level, command, value)
         PROVE  RecordsInv' /\ Rewrites
    <2>1. /\ ~isFreezed(ch) /\ ch \in objects
          /\ UNCHANGED <<objects, nextChanID, frozen>>
      BY <1>11 DEF parseSET
    <2>2. CASE level > 400 /\ command \in Option
      BY <1>2, <1>11, <2>1, <2>2, OptionUpdate DEF parseSET
    <2>3. CASE level > 400 /\ command \notin Option
      BY <1>2, <1>11, <2>1, <2>3, TextUpdate DEF parseSET
    <2>4. CASE ~(level > 400)
      BY <1>2, <1>3, <1>4, <1>11, <2>1, <2>4 DEF parseSET
    <2> QED
      BY <2>2, <2>3, <2>4
  <1>12. ASSUME NEW ch \in Channel, NEW level \in LevelsOn(ch), NEW topic \in Topic,
                parseTOPIC(ch, level, topic) \/ handleTopic(ch, level, topic)
         PROVE  RecordsInv' /\ Rewrites
    BY <1>2, <1>12, TopicUpdate DEF parseTOPIC, handleTopic, mapVars
  <1>13. CASE UNCHANGED recordVars
    BY <1>2, <1>3, <1>4, <1>13 DEF recordVars, mapVars
  <1> QED
    BY <1>5, <1>6, <1>7, <1>8, <1>9, <1>10, <1>11, <1>12, <1>13 DEF RecordsNext

LEMMA RecordsInvStep == RecordsInv /\ [RecordsNext]_recordVars => RecordsInv'
  BY RecordSteps, RegisterEffect, DeregisterEffect DEF Registers

LEMMA RecordsInvariant == RecordsSpec => []RecordsInv
  BY RecordsInvInit, RecordsInvStep, PTL DEF RecordsSpec

-----------------------------------------------------------------------------
(* The type of the state, and one row in each table for every registration *)
(* and no other, although one is deleted by its name and the other found   *)
(* by its ID.                                                              *)
THEOREM RecordsCorrect == RecordsSpec => [](RecordsTypeOK /\ OptionsOfRegistrations)
  <1>1. RecordsInv => RecordsTypeOK /\ OptionsOfRegistrations
    BY DEF RecordsInv
  <1> QED
    BY <1>1, RecordsInvariant, PTL

(* A registration takes over nothing from an earlier one of the name:      *)
(* neither topic, texts and switches nor a freeze.                         *)
THEOREM RegistrationsStartFromDefaults == RecordsSpec => StartsFromDefaults
  <1> DEFINE Step == \A r \in chans' :
       (\A s \in chans : s.id # r.id) =>
         /\ r.topic = NewTopic /\ r.changed = {}
         /\ \A o \in chanopts' : o.name = r.name => o.on = DefaultOn
         /\ r.id \notin frozen
  <1>1. RecordsInv /\ [RecordsNext]_recordVars => [Step]_recordVars
    <2> SUFFICES ASSUME RecordsInv, [RecordsNext]_recordVars PROVE Step
      OBVIOUS
    <2>1. CASE Registers
      <3>1. nextChanID \notin frozen
        BY DEF RecordsInv, RecordsTypeOK, IDsAreOld
      <3> QED
        BY <2>1, <3>1, RegisterEffect DEF Registers
    <2>2. CASE \E ch \in Channel : parseDROP(ch)
      BY <2>2, DeregisterEffect
    <2>3. CASE Rewrites
      BY <2>3 DEF Rewrites
    <2> QED
      BY <2>1, <2>2, <2>3, RecordSteps
  <1> QED
    BY <1>1, RecordsInvariant, PTL DEF RecordsSpec, StartsFromDefaults

(* Nothing but a new owner gets past a freeze, and that only to the topic. *)
THEOREM FreezesHold == RecordsSpec => FreezeKeepsRecords
  <1> DEFINE Step == \A r \in chans, s \in chans' :
       r.id = s.id /\ r.id \in frozen =>
         /\ s.changed = r.changed
         /\ s.topic \in {r.topic, OwnedTopic}
         /\ \A o \in chanopts : o.name = r.name => o \in chanopts'
  <1>1. RecordsInv /\ [RecordsNext]_recordVars => [Step]_recordVars
    <2> SUFFICES ASSUME RecordsInv, [RecordsNext]_recordVars PROVE Step
      OBVIOUS
    <2>1. \A r, s \in chans : r.id = s.id => r = s
      BY DEF RecordsInv, OptionsOfRegistrations
    <2>2. CASE Registers
      <3>1. \A r \in chans : r.id # nextChanID
        BY DEF RecordsInv, RecordsTypeOK, IDsAreOld
      <3>2. /\ \A s \in chans' : s \in chans \/ s.id = nextChanID
            /\ chanopts \subseteq chanopts'
        BY <2>2, RegisterEffect DEF Registers
      <3> QED
        BY <2>1, <3>1, <3>2
    <2>3. CASE \E ch \in Channel : parseDROP(ch)
      BY <2>1, <2>3, DeregisterEffect
    <2>4. CASE Rewrites
      BY <2>4 DEF Rewrites
    <2> QED
      BY <2>2, <2>3, <2>4, RecordSteps
  <1> QED
    BY <1>1, RecordsInvariant, PTL DEF RecordsSpec, FreezeKeepsRecords

(***************************************************************************)
(* The loader.                                                             *)
(***************************************************************************)

(* What a step relies on: the modules in the list are those that have      *)
(* created a service once the services run, and before that nothing has    *)
(* been started.                                                           *)
LoaderInv ==
  /\ LoaderTypeOK
  /\ \A f \in mapped : opens[f] > 0
  /\ \A f \in File : services[f] <= 1
  /\ phase \in {"configuring", "refused"} =>
       /\ \A f \in File : services[f] = 0
       /\ registered = {}
       /\ tagMaps = {}
  /\ phase = "running" =>
       /\ \A f \in File : services[f] > 0 <=> f \in mapped
       /\ registered \subseteq mapped
       /\ tagMaps \subseteq mapped

LEMMA LoaderInvInit == LoaderInit => LoaderInv
  BY LoaderAssumption DEF LoaderInit, LoaderInv, LoaderTypeOK, Phase

(* What loadModule does to the counts and the list.                        *)
LEMMA LoadEffect ==
  ASSUME LoaderInv, NEW f \in File, loadModule(f)
  PROVE  /\ opens' \in [File -> 0..MaxOpens]
         /\ mapped' \subseteq File
         /\ \A g \in mapped' : opens'[g] > 0
         /\ Loads(f) => mapped' = mapped \cup {f} /\ f \notin mapped
         /\ ~Loads(f) => mapped' = mapped
  <1>1. opens[f] \in 0..MaxOpens /\ opens[f] < MaxOpens /\ MaxOpens \in Nat
    BY LoaderAssumption DEF LoaderInv, LoaderTypeOK, loadModule
  <1>2. opens' \in [File -> 0..MaxOpens]
    BY <1>1 DEF LoaderInv, LoaderTypeOK, loadModule
  <1>3. \A g \in File : opens'[g] >= opens[g]
    BY <1>1 DEF LoaderInv, LoaderTypeOK, loadModule
  <1>4. Loads(f) => opens'[f] > 0 /\ f \notin mapped
    BY <1>1 DEF LoaderInv, LoaderTypeOK, loadModule, Loads, exists
  <1>5. \A g \in mapped : opens'[g] > 0
    BY <1>2, <1>3 DEF LoaderInv, LoaderTypeOK
  <1> QED
    BY <1>2, <1>4, <1>5 DEF LoaderInv, LoaderTypeOK, loadModule

(* Closing modules of the list takes one from counts that are not 0.       *)
LEMMA CloseEffect ==
  ASSUME LoaderInv, NEW F \in SUBSET mapped, closeModules(F)
  PROVE  /\ opens' \in [File -> 0..MaxOpens]
         /\ mapped' \subseteq File
         /\ \A g \in mapped' : opens'[g] > 0
  <1>1. \A g \in File : opens[g] \in 0..MaxOpens /\ (g \in F => opens[g] > 0)
    BY DEF LoaderInv, LoaderTypeOK
  <1>2. opens' = [g \in File |-> IF g \in F THEN opens[g] - 1 ELSE opens[g]]
    BY DEF closeModules
  <1>3. \A g \in File : (IF g \in F THEN opens[g] - 1 ELSE opens[g]) \in 0..MaxOpens
    BY <1>1, LoaderAssumption
  <1> QED
    BY <1>1, <1>2, <1>3 DEF LoaderInv, LoaderTypeOK, closeModules

(* A name that is typed is the key of no module.                           *)
LEMMA TypedIsNoKey ==
  ASSUME NEW f, NEW key
  PROVE  TypedKey(f) # KeyOf(key)
  BY DEF TypedKey, KeyOf

LEMMA LoaderInvStep == LoaderInv /\ [LoaderNext]_loaderVars => LoaderInv'
  <1> SUFFICES ASSUME LoaderInv, [LoaderNext]_loaderVars PROVE LoaderInv'
    OBVIOUS
  <1>1. CASE start
    <2>1. mapped' = mapped /\ opens' = opens
      BY <1>1 DEF start
    <2>2. CASE phase' = "refused" /\ UNCHANGED hostVars
      BY <1>1, <2>1, <2>2 DEF start, LoaderInv, LoaderTypeOK, hostVars, Phase
    <2>3. CASE phase' = "running" /\ startModules(mapped)
      <3>1. services' = [f \in File |-> IF f \in mapped THEN services[f] + 1 ELSE services[f]]
        BY <2>3 DEF startModules
      <3>2. \A f \in File : services[f] = 0
        BY <1>1 DEF start, LoaderInv
      <3>3. /\ services' \in [File -> Nat]
            /\ \A f \in File : services'[f] <= 1 /\ (services'[f] > 0 <=> f \in mapped')
        BY <2>1, <3>1, <3>2
      <3>4. /\ registered' \subseteq mapped'
            /\ tagMaps' \subseteq mapped' \cap Translated
        BY <1>1, <2>1, <2>3 DEF start, startModules, LoaderInv
      <3> QED
        BY <2>1, <2>3, <3>3, <3>4 DEF LoaderInv, LoaderTypeOK, Phase
    <2> QED
      BY <1>1, <2>2, <2>3 DEF start
  <1>10. CASE exitWithoutDatabase \/ deleteDatabase
    BY <1>10 DEF exitWithoutDatabase, deleteDatabase, LoaderInv, LoaderTypeOK, hostVars, Phase
  <1>2. CASE parseLine_stranger
    BY <1>2 DEF parseLine_stranger, LoaderInv, LoaderTypeOK, hostVars, Phase
  <1>3. CASE handleEvent
    BY <1>3 DEF handleEvent, LoaderInv, LoaderTypeOK, hostVars, Phase
  <1>4. CASE unloadAll
    <2>1. CASE mapped = {}
      BY <1>4, <2>1 DEF unloadAll, LoaderInv, LoaderTypeOK, Phase
    <2>2. CASE mapped # {}
      <3>1. PICK f \in mapped : stop({f}) /\ closeModules({f})
        BY <1>4, <2>2 DEF unloadAll
      <3>2. /\ opens' \in [File -> 0..MaxOpens]
            /\ mapped' \subseteq File
            /\ \A g \in mapped' : opens'[g] > 0
        BY <3>1, CloseEffect
      <3> QED
        BY <1>4, <3>1, <3>2 DEF unloadAll, stop, LoaderInv, LoaderTypeOK, Phase
    <2> QED
      BY <2>1, <2>2
  <1>5. CASE destroyModules
    <2>1. closeModules(mapped)
      BY <1>5 DEF destroyModules
    <2>2. /\ opens' \in [File -> 0..MaxOpens]
          /\ mapped' \subseteq File
          /\ \A g \in mapped' : opens'[g] > 0
      BY <2>1, CloseEffect
    <2> QED
      BY <1>5, <2>2 DEF destroyModules, LoaderInv, LoaderTypeOK, hostVars, Phase
  <1>6. ASSUME NEW f \in File, handleModule(f) PROVE LoaderInv'
    <2>1. loadModule(f)
      BY <1>6 DEF handleModule
    <2>2. /\ opens' \in [File -> 0..MaxOpens]
          /\ mapped' \subseteq File
          /\ \A g \in mapped' : opens'[g] > 0
      BY <2>1, LoadEffect
    <2> QED
      BY <1>6, <2>2 DEF handleModule, LoaderInv, LoaderTypeOK, hostVars, Phase
  <1>7. ASSUME NEW f \in File, parseMODULE_load(f) PROVE LoaderInv'
    <2>1. loadModule(f) /\ phase = "running" /\ phase' = "running"
      BY <1>7 DEF parseMODULE_load
    <2>2. /\ opens' \in [File -> 0..MaxOpens]
          /\ mapped' \subseteq File
          /\ \A g \in mapped' : opens'[g] > 0
          /\ Loads(f) => mapped' = mapped \cup {f} /\ f \notin mapped
          /\ ~Loads(f) => mapped' = mapped
      BY <2>1, LoadEffect
    <2>3. CASE Loads(f)
      <3>1. startModules({f})
        BY <1>7, <2>3 DEF parseMODULE_load
      <3>2. services' = [g \in File |-> IF g \in {f} THEN services[g] + 1 ELSE services[g]]
        BY <3>1 DEF startModules
      <3>3. /\ services \in [File -> Nat]
            /\ \A g \in File : services[g] <= 1 /\ (services[g] > 0 <=> g \in mapped)
        BY <2>1 DEF LoaderInv, LoaderTypeOK
      <3>4. /\ services' \in [File -> Nat]
            /\ \A g \in File : services'[g] <= 1 /\ (services'[g] > 0 <=> g \in mapped')
        BY <2>2, <2>3, <3>2, <3>3
      <3>5. /\ registered' \subseteq mapped'
            /\ tagMaps' \subseteq mapped'
            /\ tagMaps' \subseteq Translated
        BY <2>1, <2>2, <2>3, <3>1 DEF startModules, LoaderInv, LoaderTypeOK
      <3> QED
        BY <2>1, <2>2, <3>4, <3>5 DEF LoaderInv, LoaderTypeOK, Phase
    <2>4. CASE ~Loads(f)
      BY <1>7, <2>1, <2>2, <2>4 DEF parseMODULE_load, LoaderInv, LoaderTypeOK, hostVars, Phase
    <2> QED
      BY <2>3, <2>4
  <1>8. ASSUME NEW f \in File, parseMODULE_unload(f) PROVE LoaderInv'
    <2> DEFINE F == {g \in mapped : KeyOf(g) = TypedKey(f)}
    <2>1. F = {}
      BY TypedIsNoKey
    <2>2. stop(F) /\ closeModules(F) /\ UNCHANGED <<phase, services, tagMaps>>
      BY <1>8 DEF parseMODULE_unload, unloadModule
    <2> HIDE DEF F
    <2>3. mapped' = mapped /\ registered' = registered
      BY <2>1, <2>2 DEF stop, closeModules
    <2>4. opens' = opens
      BY <2>1, <2>2 DEF closeModules, LoaderInv, LoaderTypeOK
    <2> QED
      BY <2>2, <2>3, <2>4 DEF LoaderInv, LoaderTypeOK, Phase
  <1>9. CASE UNCHANGED loaderVars
    BY <1>9 DEF loaderVars, hostVars, LoaderInv, LoaderTypeOK, Phase
  <1> QED
    BY <1>1, <1>2, <1>3, <1>4, <1>5, <1>6, <1>7, <1>8, <1>9, <1>10 DEF LoaderNext

LEMMA LoaderInvariant == LoaderSpec => []LoaderInv
  BY LoaderInvInit, LoaderInvStep, PTL DEF LoaderSpec

(* The type of the state holds throughout: libltdl's counts never fall     *)
(* below 0, whatever is loaded twice and closed once.                      *)
THEOREM LoaderTypeCorrect == LoaderSpec => []LoaderTypeOK
  <1>1. LoaderInv => LoaderTypeOK
    BY DEF LoaderInv
  <1> QED
    BY <1>1, LoaderInvariant, PTL

(* As long as the services exist no library is closed that the list, the   *)
(* registry or the tag maps still need.                                    *)
THEOREM LibrariesStayOpen == LoaderSpec => []CodeStaysOpen
  <1>1. LoaderInv => CodeStaysOpen
    BY DEF LoaderInv, CodeStaysOpen
  <1> QED
    BY <1>1, LoaderInvariant, PTL

(* The service pointers that the event handlers dereference are never null *)
(* while the services run, and registered services are in the list.        *)
THEOREM ListedModulesAreStarted == LoaderSpec => []ListIsStarted
  <1>1. LoaderInv => ListIsStarted
    BY DEF LoaderInv, LoaderTypeOK, ListIsStarted
  <1> QED
    BY <1>1, LoaderInvariant, PTL

(* No file has two services.                                               *)
THEOREM FilesStartOnce == LoaderSpec => []StartedOnce
  <1>1. LoaderInv => StartedOnce
    BY DEF LoaderInv, StartedOnce
  <1> QED
    BY <1>1, LoaderInvariant, PTL

(***************************************************************************)
(* The loops over rows.                                                    *)
(***************************************************************************)

(* The rows a loop has begun with, and those it has fetched since its first. *)
Begun == IF inBody THEN i + 1 ELSE i
Fetched == IF self.fetch = "early" THEN Begun ELSE i

(* The connection's result is the loop's own, of which it fetched p rows   *)
(* after the first; and the loop has read what it began with.              *)
Own(p) ==
  /\ result = [own |-> TRUE, rows |-> size, next |-> IF p < size THEN p + 2 ELSE size + 1]
  /\ row = IF p < size THEN [own |-> TRUE, number |-> p + 1] ELSE NoRow

OwnCursor == Own(Fetched) /\ Len(read) = Begun

Nested == {"checkpoint", "banChan"}

(* A query of the body, or one that failed, took the result's place: there *)
(* is none, or one without another row.                                    *)
LostCursor ==
  /\ Len(read) <= Begun
  /\ \/ result = NoResult
     \/ /\ result.next > result.rows
        /\ row = NoRow \/ (inBody /\ self.fetch = "late")
  /\ failed \/ /\ walker \in Nested
               /\ Len(read) = Begun
               /\ todo = <<>> => result # NoResult

(* What is left of the body of such a loop ends with a SELECT; one that    *)
(* fetches early only deletes, and looks for what it does not find.        *)
NestedQueries(t) ==
  t # <<>> => /\ walker \in Nested
              /\ t[Len(t)] # "command"
              /\ self.fetch = "late" \/ \A k \in 1..Len(t) : t[k] \in {"command", "none"}

ConnectionTypeOK ==
  /\ result \in [own : BOOLEAN, rows : Nat, next : Nat]
  /\ row \in [own : BOOLEAN, number : Nat]

FlagsTypeOK == failed \in BOOLEAN /\ inBody \in BOOLEAN

CountsTypeOK ==
  /\ size \in 0..MaxRows
  /\ i \in 0..size
  /\ read \in Seq(Nat)

LoopTypeOK ==
  /\ walker \in Walker
  /\ todo \in Seq(Kind)
  /\ status \in {"idle", "walking", "done", "left", "dead"}

WalkTypeOK == ConnectionTypeOK /\ FlagsTypeOK /\ CountsTypeOK /\ LoopTypeOK

Walking ==
  /\ inBody => i < size
  /\ todo # <<>> => inBody
  /\ self.copied => Len(read) = Begun
  /\ ~self.copied => NestedQueries(todo) /\ (OwnCursor \/ LostCursor)

WalkInv ==
  /\ WalkTypeOK
  /\ status = "walking" => Walking
  /\ OnlyNestedWalksDie

-----------------------------------------------------------------------------
(* The facts about the loops that the invariant rests on.                  *)
LEMMA LoopNames ==
  Walker = {"doHelp", "synchChannels", "banChan", "checkpoint", "getIDList", "parseACCESS",
            "sendBans", "parseNLIST", "parseELIST", "parseCLIST", "parseNEWS_list",
            "parseUSER_list", "parseFREEZE_list", "parseFREEZE_add", "parseMDEOP", "parseDEL",
            "parseREAD", "parseLIST", "parseSEND"}
  BY DEF Walker, Loops

(* A loop over a copy, and one over the connection's result.               *)
LEMMA OverCopyIsLoop ==
  ASSUME NEW fetch \in {"never", "early", "late"}, NEW bodies \in SUBSET Seq(Kind),
         NEW lost \in {"goes on", "returns", "dies"}
  PROVE  /\ OverCopy(fetch, bodies, lost) \in Loop
         /\ OverCopy(fetch, bodies, lost).copied
         /\ OverCopy(fetch, bodies, lost).lost = lost
  BY DEF OverCopy, Loop

LEMMA OverCursorIsLoop ==
  ASSUME NEW fetch \in {"never", "early", "late"}, NEW bodies \in SUBSET Seq(Kind),
         NEW lost \in {"goes on", "returns", "dies"}
  PROVE  /\ OverCursor(fetch, bodies, lost) \in Loop
         /\ ~OverCursor(fetch, bodies, lost).copied
         /\ OverCursor(fetch, bodies, lost).fetch = fetch
         /\ OverCursor(fetch, bodies, lost).bodies = bodies
         /\ OverCursor(fetch, bodies, lost).lost = lost
  BY DEF OverCursor, Loop

(* The bodies of the loops are sequences of queries.                       *)
LEMMA Bodies ==
  /\ <<>> \in Seq(Kind)
  /\ <<"select">> \in Seq(Kind)
  /\ <<"select", "select">> \in Seq(Kind)
  /\ <<"select", "select", "select">> \in Seq(Kind)
  /\ <<"command", "none", "none">> \in Seq(Kind)
  /\ <<"select", "command", "command">> \in Seq(Kind)
  /\ <<"select", "command", "select">> \in Seq(Kind)
  /\ <<"select", "command", "select", "select", "select">> \in Seq(Kind)
  /\ <<"select", "command", "idlist", "select", "select", "command">> \in Seq(Kind)
  /\ <<"select", "select", "idlist", "select", "select", "command">> \in Seq(Kind)
  BY DEF Kind

LEMMA CopiedLoops ==
  ASSUME NEW w \in Walker, w \notin {"doHelp", "synchChannels"} \cup Nested
  PROVE  /\ Loops[w] \in Loop
         /\ Loops[w].copied
         /\ Loops[w].lost = "dies" => w = "parseMDEOP"
  <1> DEFINE Good(l) == l \in Loop /\ l.copied
             Stays(l) == Good(l) /\ l.lost # "dies"
  <1>1. Stays(getIDList)
    BY Bodies, OverCopyIsLoop DEF getIDList
  <1>2. Stays(parseACCESS)
    BY Bodies, OverCopyIsLoop DEF parseACCESS
  <1>3. Stays(sendBans)
    BY Bodies, OverCopyIsLoop DEF sendBans
  <1>4. Stays(parseNLIST)
    BY Bodies, OverCopyIsLoop DEF parseNLIST
  <1>5. Stays(parseELIST)
    BY Bodies, OverCopyIsLoop DEF parseELIST
  <1>6. Stays(parseCLIST)
    BY Bodies, OverCopyIsLoop DEF parseCLIST
  <1>7. Stays(parseNEWS_list)
    <2> DEFINE l == OverCopy("never", {<<>>}, "goes on")
    <2>1. l \in Loop /\ l.copied /\ l.lost = "goes on"
      BY Bodies, OverCopyIsLoop
    <2> HIDE DEF l
    <2>2. Stays([l EXCEPT !.looksFirst = TRUE])
      BY <2>1 DEF Loop
    <2> QED
      BY <2>2 DEF l, parseNEWS_list
  <1>8. Stays(parseUSER_list)
    BY Bodies, OverCopyIsLoop DEF parseUSER_list
  <1>9. Stays(parseFREEZE_list)
    BY Bodies, OverCopyIsLoop DEF parseFREEZE_list
  <1>10. Stays(parseFREEZE_add)
    BY Bodies, OverCopyIsLoop DEF parseFREEZE_add
  <1>11. Good(parseMDEOP)
    BY Bodies, OverCopyIsLoop DEF parseMDEOP
  <1>12. Stays(parseDEL)
    BY Bodies, OverCopyIsLoop DEF parseDEL
  <1>13. Stays(parseREAD)
    BY Bodies, OverCopyIsLoop DEF parseREAD
  <1>14. Stays(parseLIST)
    BY Bodies, OverCopyIsLoop DEF parseLIST
  <1>15. Stays(parseSEND)
    BY Bodies, OverCopyIsLoop DEF parseSEND
  <1> HIDE DEF Stays, Good
  <1>16. Good(Loops[w]) /\ (Stays(Loops[w]) \/ w = "parseMDEOP")
    <2>1. \A l : Stays(l) => Good(l)
      BY DEF Stays
    <2> QED
      BY <1>1, <1>2, <1>3, <1>4, <1>5, <1>6, <1>7, <1>8, <1>9, <1>10, <1>11, <1>12, <1>13,
         <1>14, <1>15, <2>1, LoopNames DEF Loops, Nested
  <1> QED
    BY <1>16 DEF Stays, Good

(* What is over the connection's own result.                               *)
LEMMA CursorLoops ==
  /\ \A w \in {"doHelp", "synchChannels"} :
       /\ Loops[w] \in Loop /\ ~Loops[w].copied
       /\ Loops[w].fetch = "late" /\ Loops[w].bodies = {<<>>} /\ Loops[w].lost = "goes on"
  /\ /\ Loops["banChan"] \in Loop /\ ~Loops["banChan"].copied
     /\ Loops["banChan"].fetch = "late" /\ Loops["banChan"].lost = "dies"
     /\ Loops["banChan"].bodies = {<<"select", "select", "select">>}
  /\ /\ Loops["checkpoint"] \in Loop /\ ~Loops["checkpoint"].copied
     /\ Loops["checkpoint"].fetch = "early" /\ Loops["checkpoint"].lost = "returns"
     /\ Loops["checkpoint"].bodies = {<<>>, <<"command", "none", "none">>}
  <1> DEFINE B0 == {<<>>}
             B1 == {<<"select", "select", "select">>}
             B2 == {<<>>, <<"command", "none", "none">>}
  <1>1. /\ Loops["doHelp"] = OverCursor("late", B0, "goes on")
        /\ Loops["synchChannels"] = OverCursor("late", B0, "goes on")
        /\ Loops["banChan"] = OverCursor("late", B1, "dies")
        /\ Loops["checkpoint"] = OverCursor("early", B2, "returns")
    BY DEF Loops, doHelp, synchChannels, banChan, checkpoint
  <1>2. B0 \in SUBSET Seq(Kind) /\ B1 \in SUBSET Seq(Kind) /\ B2 \in SUBSET Seq(Kind)
    BY Bodies
  <1> HIDE DEF B0, B1, B2
  <1>3. \A w \in {"doHelp", "synchChannels"} :
          /\ Loops[w] \in Loop /\ ~Loops[w].copied
          /\ Loops[w].fetch = "late" /\ Loops[w].bodies = B0 /\ Loops[w].lost = "goes on"
    <2> DEFINE l == OverCursor("late", B0, "goes on")
    <2>1. B0 \in SUBSET Seq(Kind)
      BY <1>2
    <2>2. /\ "late" \in {"never", "early", "late"}
          /\ "goes on" \in {"goes on", "returns", "dies"}
      OBVIOUS
    <2>3. l \in Loop /\ ~l.copied /\ l.fetch = "late" /\ l.bodies = B0 /\ l.lost = "goes on"
      BY ONLY <2>1, <2>2, OverCursorIsLoop
    <2> HIDE DEF l
    <2> QED
      BY <1>1, <2>3 DEF l
  <1>4. /\ Loops["banChan"] \in Loop /\ ~Loops["banChan"].copied
        /\ Loops["banChan"].fetch = "late" /\ Loops["banChan"].lost = "dies"
        /\ Loops["banChan"].bodies = B1
    <2> DEFINE l == OverCursor("late", B1, "dies")
    <2>1. B1 \in SUBSET Seq(Kind)
      BY <1>2
    <2>2. /\ "late" \in {"never", "early", "late"}
          /\ "dies" \in {"goes on", "returns", "dies"}
      OBVIOUS
    <2>3. l \in Loop /\ ~l.copied /\ l.fetch = "late" /\ l.bodies = B1 /\ l.lost = "dies"
      BY ONLY <2>1, <2>2, OverCursorIsLoop
    <2> HIDE DEF l
    <2> QED
      BY <1>1, <2>3 DEF l
  <1>5. /\ Loops["checkpoint"] \in Loop /\ ~Loops["checkpoint"].copied
        /\ Loops["checkpoint"].fetch = "early" /\ Loops["checkpoint"].lost = "returns"
        /\ Loops["checkpoint"].bodies = B2
    <2> DEFINE l == OverCursor("early", B2, "returns")
    <2>1. B2 \in SUBSET Seq(Kind)
      BY <1>2
    <2>2. /\ "early" \in {"never", "early", "late"}
          /\ "returns" \in {"goes on", "returns", "dies"}
      OBVIOUS
    <2>3. l \in Loop /\ ~l.copied /\ l.fetch = "early" /\ l.bodies = B2 /\ l.lost = "returns"
      BY ONLY <2>1, <2>2, OverCursorIsLoop
    <2> HIDE DEF l
    <2> QED
      BY <1>1, <2>3 DEF l
  <1> QED
    BY <1>3, <1>4, <1>5 DEF B0, B1, B2

LEMMA LoopIsTyped == ASSUME NEW w \in Walker PROVE Loops[w] \in Loop
  BY CopiedLoops, CursorLoops DEF Nested

(* A loop over the connection's result makes no query in its body, or it   *)
(* is one of the nested ones.                                              *)
LEMMA CursorBodies ==
  ASSUME NEW w \in Walker, ~Loops[w].copied, NEW t \in Loops[w].bodies, t # <<>>
  PROVE  /\ w \in Nested
         /\ t[Len(t)] # "command"
         /\ Loops[w].fetch = "late" \/ \A k \in 1..Len(t) : t[k] \in {"command", "none"}
  <1>1. w \in {"doHelp", "synchChannels"} \cup Nested
    BY CopiedLoops
  <1>2. CASE w \in {"doHelp", "synchChannels"}
    BY <1>2, CursorLoops
  <1>3. CASE w = "banChan"
    <2>1. t = <<"select", "select", "select">> /\ Loops[w].fetch = "late"
      BY <1>3, CursorLoops
    <2> QED
      BY <1>3, <2>1 DEF Nested
  <1>4. CASE w = "checkpoint"
    <2>1. t = <<"command", "none", "none">>
      BY <1>4, CursorLoops
    <2> QED
      BY <1>4, <2>1 DEF Nested
  <1> QED
    BY <1>1, <1>2, <1>3, <1>4 DEF Nested

LEMMA CursorFetch ==
  ASSUME NEW w \in Walker, ~Loops[w].copied
  PROVE  Loops[w].fetch \in {"early", "late"}
  BY CopiedLoops, CursorLoops DEF Nested

(* The loops that die when a user is not found.                            *)
LEMMA DyingLoops ==
  ASSUME NEW w \in Walker, Loops[w].lost = "dies"
  PROVE  w \in {"banChan", "parseMDEOP"}
  <1>1. CASE w \in {"doHelp", "synchChannels", "checkpoint"}
    BY <1>1, CursorLoops
  <1> QED
    BY <1>1, CopiedLoops DEF Nested

-----------------------------------------------------------------------------
(* A result is not NoResult once a SELECT has been sent.                   *)
LEMMA SelectHasResult ==
  ASSUME NEW own \in BOOLEAN, NEW rows \in Nat, dbSelect(own, rows)
  PROVE  /\ ConnectionTypeOK'
         /\ result' # NoResult
         /\ rows <= 1 => result'.next > result'.rows
         /\ rows = 0 => row' = NoRow
  BY DEF dbSelect, NoResult, NoRow, ConnectionTypeOK

LEMMA CommandHasNone ==
  ASSUME dbCommand, ConnectionTypeOK
  PROVE  /\ result' = NoResult
         /\ row' = row
         /\ ConnectionTypeOK'
  BY DEF dbCommand, NoResult, ConnectionTypeOK

(* Fetching a row of the loop's own result brings the next one.            *)
LEMMA FetchOwn ==
  ASSUME NEW p \in Nat, size \in Nat, p < size, Own(p), dbGetRow, size' = size
  PROVE  Own(p + 1)'
  <1>1. result # NoResult /\ result.rows = size /\ result.own = TRUE /\ result.next = p + 2
    BY DEF Own, NoResult
  <1>2. CASE p + 1 < size
    BY <1>1, <1>2 DEF Own, dbGetRow
  <1>3. CASE ~(p + 1 < size)
    BY <1>1, <1>3 DEF Own, dbGetRow
  <1> QED
    BY <1>2, <1>3

(* Fetching from a result without another row, or from none.               *)
LEMMA FetchLost ==
  ASSUME ConnectionTypeOK, result = NoResult \/ result.next > result.rows, dbGetRow
  PROVE  /\ result' = result
         /\ result # NoResult => row' = NoRow
         /\ result = NoResult => row' = row
  BY DEF dbGetRow, ConnectionTypeOK

LEMMA FetchTyped ==
  ASSUME ConnectionTypeOK, dbGetRow
  PROVE  /\ ConnectionTypeOK'
  <1>1. CASE result = NoResult
    BY <1>1 DEF dbGetRow, ConnectionTypeOK
  <1>2. CASE result # NoResult /\ result.next <= result.rows
    BY <1>2 DEF dbGetRow, ConnectionTypeOK
  <1>3. CASE result # NoResult /\ ~(result.next <= result.rows)
    <2>1. row' = NoRow /\ result' = result
      BY <1>3 DEF dbGetRow
    <2>2. NoRow \in [own : BOOLEAN, number : Nat]
      BY DEF NoRow
    <2> QED
      BY <2>1, <2>2 DEF ConnectionTypeOK
  <1> QED
    BY <1>1, <1>2, <1>3

LEMMA OwnIsThere ==
  ASSUME NEW p \in Nat, size \in Nat, Own(p)
  PROVE  /\ result # NoResult
         /\ ConnectionTypeOK
         /\ p < size => row # NoRow /\ row.own /\ row.number = p + 1
  BY DEF Own, NoResult, NoRow, ConnectionTypeOK

LEMMA WalkInvInit == DatabaseInit => WalkInv
  <1> SUFFICES ASSUME DatabaseInit PROVE WalkInv
    OBVIOUS
  <1>1. ConnectionTypeOK
    BY DEF DatabaseInit, ConnectionTypeOK, NoResult, NoRow
  <1>2. CountsTypeOK
    BY DatabaseAssumption DEF DatabaseInit, CountsTypeOK
  <1>5. FlagsTypeOK
    BY DEF DatabaseInit, FlagsTypeOK
  <1>3. LoopTypeOK
    BY DEF DatabaseInit, LoopTypeOK
  <1>4. status = "idle"
    BY DEF DatabaseInit
  <1> QED
    BY <1>1, <1>2, <1>3, <1>4, <1>5 DEF WalkInv, WalkTypeOK, OnlyNestedWalksDie

LEMMA OpenWalkInv ==
  ASSUME WalkInv, NEW w \in Walker, NEW rows \in 0..MaxRows, openWalk(w, rows)
  PROVE  WalkInv'
  <1>1. /\ dbSelect(TRUE, rows) /\ size' = rows /\ i' = 0 /\ inBody' = FALSE
        /\ todo' = <<>> /\ read' = <<>> /\ failed' = FALSE
    BY DEF openWalk
  <1>2. walker' = w /\ status' = "walking"
    BY DEF openWalk
  <1>3. rows \in Nat
    BY DatabaseAssumption
  <1>4. Own(0)'
    <2>1. CASE rows = 0
      BY <1>1, <2>1 DEF dbSelect, Own
    <2>2. CASE rows # 0
      <3>1. 0 < rows
        BY <1>3, <2>2
      <3>2. result' = [own |-> TRUE, rows |-> rows, next |-> 2]
        BY <1>1, <2>2 DEF dbSelect
      <3>3. row' = [own |-> TRUE, number |-> 1]
        BY <1>1, <2>2 DEF dbSelect
      <3> QED
        BY <1>1, <3>1, <3>2, <3>3 DEF Own
    <2> QED
      BY <2>1, <2>2
  <1>5. Fetched' = 0 /\ Begun' = 0 /\ Len(read') = 0
    BY <1>1 DEF Fetched, Begun
  <1>6. OwnCursor'
    BY <1>4, <1>5 DEF OwnCursor
  <1>7. ConnectionTypeOK'
    BY <1>1, <1>3, SelectHasResult
  <1>8. CountsTypeOK'
    BY <1>1, <1>3 DEF CountsTypeOK
  <1>11. FlagsTypeOK'
    BY <1>1 DEF FlagsTypeOK
  <1>9. LoopTypeOK'
    BY <1>1, <1>2 DEF LoopTypeOK
  <1>10. Walking'
    BY <1>1, <1>5, <1>6 DEF Walking, NestedQueries
  <1> QED
    BY <1>2, <1>7, <1>8, <1>9, <1>10, <1>11 DEF WalkInv, WalkTypeOK, OnlyNestedWalksDie

LEMMA OpenFailsInv ==
  ASSUME WalkInv, NEW w \in Walker, openFails(w)
  PROVE  WalkInv'
  <1>1. /\ dbCommand /\ size' = 0 /\ i' = 0 /\ inBody' = FALSE
        /\ todo' = <<>> /\ read' = <<>> /\ failed' = TRUE
    BY DEF openFails
  <1>2. walker' = w /\ status' \in {"dead", "walking"}
    BY DEF openFails
  <1>3. Begun' = 0 /\ Len(read') = 0
    BY <1>1 DEF Begun
  <1>4. ConnectionTypeOK' /\ result' = NoResult
    BY <1>1, CommandHasNone DEF WalkInv, WalkTypeOK
  <1>5. LostCursor'
    BY <1>1, <1>3, <1>4 DEF LostCursor
  <1>6. CountsTypeOK'
    BY <1>1, DatabaseAssumption DEF CountsTypeOK
  <1>9. FlagsTypeOK'
    BY <1>1 DEF FlagsTypeOK
  <1>7. LoopTypeOK'
    BY <1>1, <1>2 DEF LoopTypeOK
  <1>8. Walking'
    BY <1>1, <1>3, <1>5 DEF Walking, NestedQueries
  <1> QED
    BY <1>1, <1>4, <1>6, <1>7, <1>8, <1>9 DEF WalkInv, WalkTypeOK, OnlyNestedWalksDie

(* What a step of the loop reads: the row after the last it read; nothing, *)
(* if a query failed; or the process dies with a nested loop.              *)
LEMMA ReadRowCases ==
  ASSUME WalkInv, readRow
  PROVE  /\ Walking /\ ~inBody /\ i < size /\ todo = <<>> /\ Begun = i
         /\ \/ /\ status' = "dead" /\ read' = read /\ UNCHANGED <<result, row, inBody, todo>>
               /\ ~self.copied /\ LostCursor
            \/ /\ inBody' = TRUE /\ todo' \in self.bodies /\ status' = status
               /\ IF self.fetch = "early" THEN dbGetRow ELSE UNCHANGED <<result, row>>
               /\ \/ /\ read' = Append(read, Len(read) + 1) /\ Len(read) = i
                     /\ self.copied \/ OwnCursor
                  \/ read' = read /\ ~self.copied /\ LostCursor /\ result = NoResult
  <1>1. /\ Walking /\ ~inBody /\ i < size /\ todo = <<>>
    BY DEF readRow, WalkInv, Walking
  <1>2. Begun = i
    BY <1>1 DEF Begun
  <1>3. CASE self.copied
    <2>1. RowRead = Len(read) + 1 /\ Len(read) = i
      BY <1>1, <1>2, <1>3 DEF Walking, RowRead
    <2> QED
      BY <1>1, <1>2, <1>3, <2>1 DEF readRow
  <1>4. CASE ~self.copied /\ OwnCursor
    <2>1. Fetched = i /\ Len(read) = i /\ Own(i)
      BY <1>2, <1>4 DEF Fetched, OwnCursor
    <2>2. i \in Nat /\ size \in Nat
      BY DatabaseAssumption DEF WalkInv, WalkTypeOK, CountsTypeOK
    <2>3. result # NoResult /\ row # NoRow /\ row.own /\ row.number = i + 1
      BY <1>1, <2>1, <2>2, OwnIsThere
    <2>4. RowRead = Len(read) + 1
      BY <1>4, <2>1, <2>3 DEF RowRead
    <2> QED
      BY <1>1, <1>2, <1>4, <2>1, <2>3, <2>4 DEF readRow
  <1>5. CASE ~self.copied /\ LostCursor
    <2>1. result = NoResult \/ row = NoRow
      BY <1>1, <1>5 DEF LostCursor
    <2> QED
      BY <1>1, <1>2, <1>5, <2>1 DEF readRow
  <1> QED
    BY <1>1, <1>3, <1>4, <1>5 DEF Walking

LEMMA ReadRowInv ==
  ASSUME WalkInv, readRow
  PROVE  WalkInv'
  <1>1. /\ Walking /\ ~inBody /\ i < size /\ todo = <<>> /\ Begun = i
    BY ReadRowCases
  <1>2. status = "walking" /\ walker' = walker /\ i' = i /\ size' = size /\ failed' = failed
    BY DEF readRow
  <1>3. self' = self /\ walker \in Walker
    BY <1>2 DEF self, WalkInv, WalkTypeOK, LoopTypeOK
  <1>4. i \in Nat /\ size \in Nat /\ Len(read) \in Nat /\ read \in Seq(Nat)
    BY DatabaseAssumption DEF WalkInv, WalkTypeOK, CountsTypeOK
  <1>5. CASE /\ status' = "dead" /\ read' = read /\ UNCHANGED <<result, row, inBody, todo>>
             /\ ~self.copied /\ LostCursor
    <2>1. WalkTypeOK'
      BY <1>2, <1>5 DEF WalkInv, WalkTypeOK, ConnectionTypeOK, FlagsTypeOK, CountsTypeOK, LoopTypeOK
    <2>2. OnlyNestedWalksDie'
      BY <1>2, <1>5 DEF LostCursor, Nested, OnlyNestedWalksDie
    <2> QED
      BY <1>5, <2>1, <2>2 DEF WalkInv
  <1>6. CASE /\ inBody' = TRUE /\ todo' \in self.bodies /\ status' = status
             /\ IF self.fetch = "early" THEN dbGetRow ELSE UNCHANGED <<result, row>>
             /\ \/ /\ read' = Append(read, Len(read) + 1) /\ Len(read) = i
                   /\ self.copied \/ OwnCursor
                \/ read' = read /\ ~self.copied /\ LostCursor /\ result = NoResult
    <2>1. ConnectionTypeOK'
      BY <1>6, FetchTyped DEF WalkInv, WalkTypeOK, ConnectionTypeOK
    <2>2. FlagsTypeOK'
      BY <1>2, <1>6 DEF WalkInv, WalkTypeOK, FlagsTypeOK
    <2>3. read' \in Seq(Nat) /\ (read' = read \/ Len(read') = Len(read) + 1)
      BY <1>4, <1>6
    <2>4. CountsTypeOK'
      BY <1>2, <2>3 DEF WalkInv, WalkTypeOK, CountsTypeOK
    <2>5. LoopTypeOK'
      <3>1. self.bodies \subseteq Seq(Kind)
        BY <1>3, LoopIsTyped DEF self, Loop
      <3> QED
        BY <1>2, <1>6, <3>1 DEF WalkInv, WalkTypeOK, LoopTypeOK
    <2>6. Begun' = i + 1
      BY <1>2, <1>6 DEF Begun
    <2>7. self.copied => Len(read') = i + 1
      BY <1>4, <1>6
    <2>8. ~self.copied => NestedQueries(todo)'
      BY <1>2, <1>3, <1>6, CursorBodies DEF NestedQueries, self
    <2>9. ASSUME ~self.copied, OwnCursor, read' = Append(read, Len(read) + 1), Len(read) = i
          PROVE  OwnCursor'
      <3>1. Fetched = i /\ Own(i) /\ Len(read') = i + 1
        BY <1>1, <1>4, <2>9 DEF OwnCursor, Fetched
      <3>2. CASE self.fetch = "early"
        <4>1. Own(i + 1)'
          BY <1>1, <1>2, <1>4, <1>6, <3>1, <3>2, FetchOwn
        <4>2. Fetched' = i + 1
          BY <1>3, <2>6, <3>2 DEF Fetched
        <4>3. Own(Fetched)'
          BY <1>2, <4>1, <4>2 DEF Own
        <4> QED
          BY <2>6, <3>1, <4>3 DEF OwnCursor
      <3>3. CASE self.fetch # "early"
        <4>1. Own(i)'
          BY <1>2, <1>6, <3>1, <3>3 DEF Own
        <4>2. Fetched' = i
          BY <1>2, <1>3, <3>3 DEF Fetched
        <4>3. Own(Fetched)'
          BY <1>2, <4>1, <4>2 DEF Own
        <4> QED
          BY <2>6, <3>1, <4>3 DEF OwnCursor
      <3> QED
        BY <3>2, <3>3
    <2>10. ASSUME read' = read, LostCursor, result = NoResult
           PROVE  LostCursor'
      <3>1. failed /\ Len(read) <= i
        BY <1>1, <2>10 DEF LostCursor
      <3>2. result' = NoResult
        BY <1>6, <2>10 DEF dbGetRow
      <3> QED
        BY <1>2, <1>4, <2>6, <2>10, <3>1, <3>2 DEF LostCursor
    <2>11. Walking'
      BY <1>1, <1>2, <1>3, <1>6, <2>6, <2>7, <2>8, <2>9, <2>10 DEF Walking
    <2> QED
      BY <1>2, <1>6, <2>1, <2>2, <2>4, <2>5, <2>11 DEF WalkInv, WalkTypeOK, OnlyNestedWalksDie
  <1> QED
    BY <1>5, <1>6, ReadRowCases

(* What is left of a body after its first query.                           *)
LEMMA RestOfBody ==
  ASSUME NEW t \in Seq(Kind), t # <<>>, NestedQueries(t)
  PROVE  /\ NestedQueries(Tail(t))
         /\ Tail(t) \in Seq(Kind)
         /\ Tail(t) = <<>> => Head(t) # "command"
         /\ self.fetch = "late" \/ Head(t) \in {"command", "none"}
  <1>1. /\ Tail(t) \in Seq(Kind) /\ Len(t) \in Nat /\ Len(t) >= 1
        /\ Len(Tail(t)) = Len(t) - 1 /\ Head(t) = t[1]
        /\ \A k \in 1..Len(Tail(t)) : Tail(t)[k] = t[k + 1]
    OBVIOUS
  <1>2. /\ walker \in Nested /\ t[Len(t)] # "command"
        /\ self.fetch = "late" \/ \A k \in 1..Len(t) : t[k] \in {"command", "none"}
    BY DEF NestedQueries
  <1>3. Tail(t) = <<>> => Head(t) # "command"
    <2>1. Tail(t) = <<>> => Len(t) = 1
      <3> DEFINE rest == Tail(t)
      <3>1. Len(rest) = Len(t) - 1
        BY <1>1
      <3>2. Len(t) \in Nat
        OBVIOUS
      <3> HIDE DEF rest
      <3>3. rest = <<>> => Len(rest) = 0
        OBVIOUS
      <3>4. rest = <<>> => Len(t) = 1
        BY <3>1, <3>2, <3>3
      <3> QED
        BY <3>4 DEF rest
    <2> QED
      BY <1>1, <1>2, <2>1
  <1>4. self.fetch = "late" \/ Head(t) \in {"command", "none"}
    BY <1>1, <1>2
  <1>5. CASE Tail(t) = <<>>
    BY <1>1, <1>3, <1>4, <1>5 DEF NestedQueries
  <1>6. CASE Tail(t) # <<>>
    <2>1. Len(Tail(t)) \in 1..Len(Tail(t)) /\ Len(Tail(t)) + 1 = Len(t)
      BY <1>1, <1>6
    <2>2. Tail(t)[Len(Tail(t))] # "command"
      BY <1>1, <1>2, <2>1
    <2>3. \A k \in 1..Len(Tail(t)) : k + 1 \in 1..Len(t)
      BY <1>1
    <2>4. self.fetch = "late" \/ \A k \in 1..Len(Tail(t)) : Tail(t)[k] \in {"command", "none"}
      BY <1>1, <1>2, <2>3
    <2> QED
      BY <1>1, <1>2, <1>3, <1>4, <2>2, <2>4 DEF NestedQueries
  <1> QED
    BY <1>5, <1>6

(* A query in the body, whether it fails or not, loses a loop the result   *)
(* it walks over; a loop over a copy has it still.                         *)
LEMMA BodyQuery ==
  ASSUME WalkInv, status = "walking", todo # <<>>,
         walker' = walker, i' = i, inBody' = inBody, size' = size, read' = read,
         failed' \in {TRUE, failed}, todo' = Tail(todo), ConnectionTypeOK',
         \/ result' = NoResult
         \/ /\ result'.next > result'.rows
            /\ row' = NoRow \/ Head(todo) \notin {"command", "none"},
         failed' \/ (Head(todo) # "command" => result' # NoResult)
  PROVE  Walking' /\ ConnectionTypeOK' /\ FlagsTypeOK' /\ CountsTypeOK' /\ walker' \in Walker
         /\ todo' \in Seq(Kind)
  <1>1. /\ Walking /\ inBody /\ i < size /\ todo \in Seq(Kind) /\ walker \in Walker
    BY DEF WalkInv, WalkTypeOK, LoopTypeOK, Walking
  <1>2. self' = self /\ Begun' = Begun /\ Begun = i + 1
    BY <1>1 DEF self, Begun
  <1>3. i \in Nat /\ size \in Nat /\ Len(read) \in Nat
    BY DatabaseAssumption DEF WalkInv, WalkTypeOK, CountsTypeOK
  <1>4. Tail(todo) \in Seq(Kind)
    BY <1>1
  <1>5. FlagsTypeOK' /\ CountsTypeOK'
    BY DEF WalkInv, WalkTypeOK, FlagsTypeOK, CountsTypeOK
  <1>6. ASSUME ~self.copied
        PROVE  NestedQueries(todo)' /\ LostCursor'
    <2>1. NestedQueries(todo) /\ walker \in Nested
      BY <1>1, <1>6 DEF Walking, NestedQueries
    <2>2. /\ NestedQueries(Tail(todo))
          /\ Tail(todo) = <<>> => Head(todo) # "command"
          /\ self.fetch = "late" \/ Head(todo) \in {"command", "none"}
      BY <1>1, <2>1, RestOfBody
    <2>3. NestedQueries(todo)'
      BY <1>2, <2>2 DEF NestedQueries
    <2>4. Len(read) <= Begun /\ (failed \/ Len(read) = Begun)
      BY <1>1, <1>2, <1>3, <1>6 DEF Walking, OwnCursor, LostCursor
    <2>5. \/ result' = NoResult
          \/ result'.next > result'.rows /\ (row' = NoRow \/ (inBody' /\ self'.fetch = "late"))
      BY <1>1, <1>2, <2>2
    <2>6. failed' \/ /\ walker' \in Nested /\ Len(read') = Begun'
                     /\ todo' = <<>> => result' # NoResult
      BY <1>2, <2>1, <2>2, <2>4
    <2>7. Len(read') <= Begun'
      BY <1>2, <2>4
    <2> QED
      BY <2>3, <2>5, <2>6, <2>7 DEF LostCursor
  <1>7. self.copied => Len(read') = Begun'
    BY <1>1, <1>2 DEF Walking
  <1>8. Walking'
    BY <1>1, <1>2, <1>6, <1>7 DEF Walking
  <1> QED
    BY <1>1, <1>4, <1>5, <1>8

LEMMA QueryInv ==
  ASSUME WalkInv, NEW rows \in 0..1, query(rows)
  PROVE  WalkInv'
  <1>1. /\ status = "walking" /\ todo # <<>> /\ todo' = Tail(todo) /\ status' = "walking"
        /\ UNCHANGED <<walker, i, inBody, size, read, failed>>
        /\ Head(todo) = "none" => rows = 0
        /\ IF Head(todo) = "command" THEN dbCommand ELSE dbSelect(FALSE, rows)
    BY DEF query
  <1>2. CASE Head(todo) = "command"
    <2>1. ConnectionTypeOK' /\ result' = NoResult
      BY <1>1, <1>2, CommandHasNone DEF WalkInv, WalkTypeOK
    <2>2. Walking' /\ FlagsTypeOK' /\ CountsTypeOK' /\ walker' \in Walker /\ todo' \in Seq(Kind)
      BY <1>1, <1>2, <2>1, BodyQuery
    <2> QED
      BY <1>1, <2>1, <2>2 DEF WalkInv, WalkTypeOK, LoopTypeOK, OnlyNestedWalksDie
  <1>3. CASE Head(todo) # "command"
    <2>1. rows \in Nat /\ rows <= 1
      OBVIOUS
    <2>2. /\ ConnectionTypeOK' /\ result' # NoResult /\ result'.next > result'.rows
          /\ rows = 0 => row' = NoRow
      BY <1>1, <1>3, <2>1, SelectHasResult
    <2>3. row' = NoRow \/ Head(todo) \notin {"command", "none"}
      BY <1>1, <1>3, <2>2
    <2>4. Walking' /\ FlagsTypeOK' /\ CountsTypeOK' /\ walker' \in Walker /\ todo' \in Seq(Kind)
      BY <1>1, <2>2, <2>3, BodyQuery
    <2> QED
      BY <1>1, <2>2, <2>4 DEF WalkInv, WalkTypeOK, LoopTypeOK, OnlyNestedWalksDie
  <1> QED
    BY <1>2, <1>3

LEMMA QueryFailsInv ==
  ASSUME WalkInv, queryFails
  PROVE  WalkInv'
  <1>1. /\ status = "walking" /\ todo # <<>> /\ todo' = Tail(todo)
        /\ status' \in {"walking", "dead"} /\ failed' = TRUE /\ dbCommand
        /\ UNCHANGED <<walker, i, inBody, size, read>>
    BY DEF queryFails
  <1>2. ConnectionTypeOK' /\ result' = NoResult
    BY <1>1, CommandHasNone DEF WalkInv, WalkTypeOK
  <1>3. Walking' /\ FlagsTypeOK' /\ CountsTypeOK' /\ walker' \in Walker /\ todo' \in Seq(Kind)
    BY <1>1, <1>2, BodyQuery
  <1> QED
    BY <1>1, <1>2, <1>3 DEF WalkInv, WalkTypeOK, LoopTypeOK, OnlyNestedWalksDie

LEMMA NextRowInv ==
  ASSUME WalkInv, nextRow
  PROVE  WalkInv'
  <1>1. /\ status = "walking" /\ status' = "walking" /\ inBody /\ inBody' = FALSE
        /\ todo = <<>> /\ i' = i + 1
        /\ IF self.fetch = "late" THEN dbGetRow ELSE UNCHANGED <<result, row>>
        /\ UNCHANGED <<walker, todo, size, read, failed>>
    BY DEF nextRow
  <1>2. Walking /\ i < size /\ walker \in Walker
    BY <1>1 DEF WalkInv, WalkTypeOK, LoopTypeOK, Walking
  <1>3. i \in Nat /\ size \in Nat /\ Len(read) \in Nat
    BY DatabaseAssumption DEF WalkInv, WalkTypeOK, CountsTypeOK
  <1>4. self' = self /\ Begun = i + 1 /\ Begun' = i + 1
    BY <1>1 DEF self, Begun
  <1>5. ConnectionTypeOK'
    BY <1>1, FetchTyped DEF WalkInv, WalkTypeOK, ConnectionTypeOK
  <1>6. CountsTypeOK'
    BY <1>1, <1>2, <1>3 DEF WalkInv, WalkTypeOK, CountsTypeOK
  <1>7. FlagsTypeOK'
    BY <1>1 DEF WalkInv, WalkTypeOK, FlagsTypeOK
  <1>8. LoopTypeOK'
    BY <1>1 DEF WalkInv, WalkTypeOK, LoopTypeOK
  <1>9. ASSUME ~self.copied, OwnCursor PROVE OwnCursor'
    <2>1. Own(Fetched) /\ Len(read') = Begun'
      BY <1>1, <1>4, <1>9 DEF OwnCursor
    <2>2. CASE self.fetch = "late"
      <3>1. Fetched = i /\ Fetched' = i + 1
        BY <1>1, <1>4, <2>2 DEF Fetched
      <3>2. \A p \in Nat : p = i => Own(p) /\ (Own(p + 1))'
        BY <1>1, <1>2, <1>3, <2>1, <2>2, <3>1, FetchOwn DEF Own
      <3>3. Own(Fetched)'
        BY <1>3, <3>1, <3>2 DEF Own
      <3> QED
        BY <2>1, <3>3 DEF OwnCursor
    <2>3. CASE self.fetch = "early"
      <3>1. Fetched = i + 1 /\ Fetched' = i + 1
        BY <1>4, <2>3 DEF Fetched
      <3>2. result' = result /\ row' = row
        BY <1>1, <2>3
      <3>3. Own(Fetched)'
        BY <1>1, <2>1, <3>1, <3>2 DEF Own
      <3> QED
        BY <2>1, <3>3 DEF OwnCursor
    <2> QED
      BY <1>2, <1>9, <2>2, <2>3, CursorFetch DEF self
  <1>10. ASSUME ~self.copied, LostCursor PROVE LostCursor'
    <2>1. result = NoResult \/ result.next > result.rows
      BY <1>10 DEF LostCursor
    <2>2. CASE self.fetch = "late"
      <3>1. result' = result /\ (result # NoResult => row' = NoRow)
        BY <1>1, <2>1, <2>2, FetchLost DEF WalkInv, WalkTypeOK
      <3> QED
        BY <1>1, <1>4, <1>10, <3>1 DEF LostCursor
    <2>3. CASE self.fetch # "late"
      <3>1. result' = result /\ row' = row
        BY <1>1, <2>3
      <3> QED
        BY <1>1, <1>4, <1>10, <2>3, <3>1 DEF LostCursor
    <2> QED
      BY <2>2, <2>3
  <1>11. Walking'
    BY <1>1, <1>2, <1>4, <1>9, <1>10 DEF Walking, NestedQueries
  <1> QED
    BY <1>1, <1>5, <1>6, <1>7, <1>8, <1>11 DEF WalkInv, WalkTypeOK, OnlyNestedWalksDie

LEMMA GiveUpInv ==
  ASSUME WalkInv, giveUp
  PROVE  WalkInv'
  <1>1. /\ status' = (IF self.lost = "dies" THEN "dead" ELSE "left") /\ todo' = <<>>
        /\ UNCHANGED <<result, row, walker, i, inBody, size, read, failed>>
    BY DEF giveUp
  <1>2. walker \in Walker
    BY DEF WalkInv, WalkTypeOK, LoopTypeOK
  <1>3. self.lost = "dies" => walker \in {"banChan", "parseMDEOP"}
    BY <1>2, DyingLoops DEF self
  <1>4. LoopTypeOK' /\ OnlyNestedWalksDie' /\ status' # "walking"
    BY <1>1, <1>2, <1>3 DEF LoopTypeOK, OnlyNestedWalksDie
  <1>5. ConnectionTypeOK' /\ FlagsTypeOK' /\ CountsTypeOK'
    BY <1>1 DEF WalkInv, WalkTypeOK, ConnectionTypeOK, FlagsTypeOK, CountsTypeOK
  <1> QED
    BY <1>4, <1>5 DEF WalkInv, WalkTypeOK

LEMMA EndWalkInv ==
  ASSUME WalkInv, endWalk
  PROVE  WalkInv'
  BY DEF endWalk, WalkInv, WalkTypeOK, ConnectionTypeOK, FlagsTypeOK, CountsTypeOK, LoopTypeOK,
         OnlyNestedWalksDie

LEMMA WalkInvNext == WalkInv /\ [DatabaseNext]_databaseVars => WalkInv'
  <1> SUFFICES ASSUME WalkInv, [DatabaseNext]_databaseVars PROVE WalkInv'
    OBVIOUS
  <1>1. CASE UNCHANGED databaseVars
    BY <1>1 DEF databaseVars, walkVars, WalkInv, WalkTypeOK, ConnectionTypeOK, FlagsTypeOK,
                CountsTypeOK, LoopTypeOK, Walking, NestedQueries, OwnCursor, LostCursor, Own,
                Begun, Fetched, self, OnlyNestedWalksDie
  <1> QED
    BY <1>1, OpenFailsInv, OpenWalkInv, ReadRowInv, QueryInv, QueryFailsInv, NextRowInv,
       GiveUpInv, EndWalkInv DEF DatabaseNext

LEMMA WalkInvariant == DatabaseSpec => []WalkInv
  BY WalkInvInit, WalkInvNext, PTL DEF DatabaseSpec

(* As long as no query fails, the process dies in no loop but the nested   *)
(* ones and MDEOP's: the others come to their end, whatever else is done   *)
(* on the connection (OnlyNestedWalksDie).                                 *)
THEOREM OtherWalksSurvive == DatabaseSpec => []OnlyNestedWalksDie
  <1>1. WalkInv => OnlyNestedWalksDie
    BY DEF WalkInv
  <1> QED
    BY <1>1, WalkInvariant, PTL

-----------------------------------------------------------------------------
(* A loop that comes to its end has read all its rows, or a query failed.  *)
LEMMA EndHasReadAll ==
  ASSUME WalkInv, endWalk
  PROVE  Len(read) = size \/ failed
  <1>1. Walking /\ Begun = size
    BY DEF endWalk, WalkInv, Begun
  <1> QED
    BY <1>1 DEF Walking, OwnCursor, LostCursor

(* Every step of the loops is one of the abstract walk, or hidden from it. *)
LEMMA WalkStep ==
  WalkInv /\ [DatabaseNext]_databaseVars => [Walk!WalkNext]_(Walk!walkVars)
  <1> SUFFICES ASSUME WalkInv, DatabaseNext
               PROVE  Walk!WalkNext \/ UNCHANGED Walk!walkVars
    BY DEF databaseVars, walkVars, Walk!walkVars
  <1>1. ASSUME NEW w \in Walker, NEW rows \in 0..MaxRows, openWalk(w, rows)
        PROVE  Walk!Open
    BY <1>1 DEF openWalk, Walk!Open, Walk!Over
  <1>2. ASSUME NEW w \in Walker, openFails(w)
        PROVE  Walk!OpenFails
    BY <1>2 DEF openFails, Walk!OpenFails, Walk!Over
  <1>3. CASE readRow
    <2>1. status = "walking" /\ size' = size /\ failed' = failed /\ i < size
      BY <1>3 DEF readRow
    <2>2. CASE status' = "dead" /\ read' = read
      BY <2>1, <2>2 DEF Walk!WalkNext, Walk!LeaveOrDie
    <2>3. CASE status' = status /\ read' = read
      BY <2>1, <2>3 DEF Walk!walkVars
    <2>4. CASE status' = status /\ read' = Append(read, Len(read) + 1) /\ Len(read) = i
      BY <2>1, <2>4 DEF Walk!WalkNext, Walk!Read
    <2> QED
      BY <1>3, <2>2, <2>3, <2>4, ReadRowCases
  <1>4. ASSUME NEW rows \in 0..1, query(rows)
        PROVE  UNCHANGED Walk!walkVars
    BY <1>4 DEF query, Walk!walkVars
  <1>5. CASE queryFails
    BY <1>5 DEF queryFails, Walk!WalkNext, Walk!Fail
  <1>6. CASE nextRow
    BY <1>6 DEF nextRow, Walk!walkVars
  <1>7. CASE giveUp
    BY <1>7 DEF giveUp, Walk!WalkNext, Walk!LeaveOrDie
  <1>8. CASE endWalk
    <2>1. Len(read) = size \/ failed
      BY <1>8, EndHasReadAll
    <2> QED
      BY <1>8, <2>1 DEF endWalk, Walk!WalkNext, Walk!Finish
  <1> QED
    BY <1>1, <1>2, <1>3, <1>4, <1>5, <1>6, <1>7, <1>8 DEF DatabaseNext, Walk!WalkNext

(* Every loop over rows in the services, with any number of rows and       *)
(* whatever fails, implements the abstract walk: it reads its own rows     *)
(* only, each once and in their order, and all of them if it comes to its  *)
(* end without a failure (ImplementsRowWalk).                              *)
THEOREM DatabaseImplementsRowWalk == DatabaseSpec => ImplementsRowWalk
  <1>1. DatabaseInit => Walk!WalkInit
    BY DEF DatabaseInit, Walk!WalkInit
  <1> QED
    BY <1>1, WalkStep, WalkInvariant, PTL DEF DatabaseSpec, ImplementsRowWalk, Walk!WalkSpec
=============================================================================
