--------------------------- MODULE MCDeserializer ---------------------------
(***************************************************************************)
(* Instances of Deserializer: streams of up to MaxFrames frames of every   *)
(* kind, cut off anywhere.                                                 *)
(***************************************************************************)
EXTENDS Deserializer, SequencesExt

CONSTANTS MaxFrames, MaxLen

FrameBytes(i, f) ==
  [p \in 1..f.len |-> [frame |-> i, pos |-> p, len |-> f.len, kind |-> f.kind]]

FrameShapes ==
  [kind : {"good"}, len : HeaderLen..MaxLen]
  \cup [kind : {"corrupt", "foreign"}, len : {1, MaxLen}]

WholeStreams ==
  {FlattenSeq([i \in 1..Len(fs) |-> FrameBytes(i, fs[i])]) :
     fs \in UNION {[1..n -> FrameShapes] : n \in 1..MaxFrames}}

StreamsMC == WholeStreams \cup {SubSeq(s, 1, Len(s) - 1) : s \in WholeStreams}

=============================================================================
