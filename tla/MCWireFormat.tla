---------------------------- MODULE MCWireFormat ----------------------------
(***************************************************************************)
(* Instances of WireFormat for TLC: fields below, at and above what fits   *)
(* the header.                                                             *)
(***************************************************************************)
EXTENDS WireFormat

MessagesMC ==
  [topic : {1, 3, 4, 6}, sub : {0, 2, 5}, source : {1, 4}, data : {0, 2},
   type : {"Data"}, serial : {0, 5}]
  \cup {[topic |-> 4, sub |-> 3, source |-> 1, data |-> 12, type |-> "Data", serial |-> 0],
        [topic |-> 1, sub |-> 0, source |-> 1, data |-> 22, type |-> "Data", serial |-> 0],
        [topic |-> 1, sub |-> 0, source |-> 1, data |-> 1, type |-> "System", serial |-> 3]}

OldMessagesMC == [topic : {1, 3}, data : 0..3]

=============================================================================
