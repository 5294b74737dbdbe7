-------------------------- MODULE MCChannelRecords --------------------------
(* Two channels, the second registered and used only now and then.         *)
EXTENDS ChannelRecords

Switches == {"clog", "secure"}

Changed(ch) ==
  UNION {r.changed : r \in RowsNamed(ch)} \cup
    UNION {(o.on \cup DefaultOn) \ (o.on \cap DefaultOn) : o \in {p \in chanopts : p.name = ch}}

(* No more than two things about a channel are changed at a time, and one  *)
(* when both are registered.                                               *)
FewChanges ==
  \A ch \in Channel : Cardinality(Changed(ch)) <= IF Cardinality(chans) > 1 THEN 1 ELSE 2
=============================================================================
