------------------------- MODULE DeserializerProofs -------------------------
(***************************************************************************)
(* Theorems about Deserializer, for all streams, all sizes of the reads    *)
(* and all header sizes.                                                   *)
(***************************************************************************)
EXTENDS Deserializer, SequenceLemmas

-----------------------------------------------------------------------------
(* The frame that begins after the first c bytes.                          *)

LEMMA FrameAhead ==
  ASSUME NEW s \in Streams, NEW c \in 0..Len(s), NEW r \in c..Len(s),
         c < Len(s) => s[c + 1].pos = 1,
         Complete(SubSeq(s, c + 1, r))
  PROVE  LET buf == SubSeq(s, c + 1, r)
             next == c + buf[1].len
         IN  /\ next \in (c + 1)..r
             /\ WithoutFirst(buf) = SubSeq(s, next + 1, r)
             /\ buf[1].frame = IF c = 0 THEN 1 ELSE s[c].frame + 1
             /\ s[next].frame = buf[1].frame
             /\ s[next].pos = s[next].len
             /\ next < Len(s) => s[next + 1].pos = 1
             /\ \A i \in (c + 1)..next : /\ s[i].kind = "good"
                                        /\ s[i].frame = buf[1].frame
<1> DEFINE buf == SubSeq(s, c + 1, r)
           next == c + buf[1].len
<1>1. /\ WellFormed(s) /\ s \in Seq(Byte) /\ Header1Len \in Nat \ {0}
      /\ HeaderLen \in Nat /\ Header1Len <= HeaderLen
  BY DeserializerAssumption DEF WellFormed
<1>2. /\ buf \in Seq(Byte)
      /\ Len(buf) = r - c
      /\ \A i \in 1..(r - c) : buf[i] = s[c + i]
  BY <1>1, PartType
<1>3. c + 1 \in 1..Len(s) /\ c < r
  BY <1>1, <1>2 DEF Complete
<1>4. buf[1] = s[c + 1] /\ s[c + 1] \in Byte
  BY <1>1, <1>2, <1>3, ElementOfSeq
<1>5. s[c + 1].pos = 1 /\ s[c + 1].kind = "good" /\ s[c + 1].len <= r - c
  BY <1>2, <1>3, <1>4 DEF Complete, Kind
<1>6. next \in (c + 1)..r
  BY <1>4, <1>5 DEF Byte
<1>7. WithoutFirst(buf) = SubSeq(s, next + 1, r)
  <2>1. buf[1].len \in 0..(r - c)
    BY <1>4, <1>5 DEF Byte
  <2>2. SubSeq(buf, buf[1].len + 1, r - c) = SubSeq(s, c + buf[1].len + 1, r)
    BY <1>1, <2>1, PartOfPart
  <2> QED
    BY <1>2, <2>2 DEF WithoutFirst
<1>8. /\ \A j \in 1..Len(s) :
           c + 1 <= j /\ j < next + 1 => s[j] = [s[c + 1] EXCEPT !.pos = j - c]
      /\ next + 1 <= Len(s) => s[next + 1].pos = 1
  <2>1. LET first == (c + 1) - s[c + 1].pos + 1
            nxt   == first + s[c + 1].len
        IN  /\ \A j \in 1..Len(s) :
                 first <= j /\ j < nxt => s[j] = [s[c + 1] EXCEPT !.pos = j - first + 1]
            /\ nxt <= Len(s) => s[nxt].pos = 1
    BY <1>1, <1>3 DEF WellFormed
  <2>2. (c + 1) - s[c + 1].pos + 1 = c + 1 /\ (c + 1) + s[c + 1].len = next + 1
    BY <1>4, <1>5, <1>6 DEF Byte
  <2>3. \A j \in 1..Len(s) : j - (c + 1) + 1 = j - c
    OBVIOUS
  <2> HIDE DEF next
  <2>4. /\ \A j \in 1..Len(s) :
             c + 1 <= j /\ j < next + 1 =>
               s[j] = [s[c + 1] EXCEPT !.pos = j - (c + 1) + 1]
        /\ next + 1 <= Len(s) => s[next + 1].pos = 1
    BY <2>1, <2>2, Zenon
  <2> QED
    BY <2>3, <2>4
<1> HIDE DEF next
<1>9. \A j \in (c + 1)..next : /\ s[j].kind = "good" /\ s[j].pos = j - c
                             /\ s[j].frame = buf[1].frame /\ s[j].len = buf[1].len
  <2> SUFFICES ASSUME NEW j \in (c + 1)..next
               PROVE  /\ s[j].kind = "good" /\ s[j].pos = j - c
                      /\ s[j].frame = buf[1].frame /\ s[j].len = buf[1].len
    OBVIOUS
  <2>1. s[j] = [s[c + 1] EXCEPT !.pos = j - c]
    <3>1. j \in 1..Len(s) /\ c + 1 <= j /\ j < next + 1
      BY <1>6
    <3> QED
      BY <1>8, <3>1
  <2> QED
    BY <1>4, <1>5, <2>1 DEF Byte
<1>10. buf[1].frame = IF c = 0 THEN 1 ELSE s[c].frame + 1
  <2>1. CASE c = 0
    BY <1>1, <1>3, <1>4, <2>1 DEF WellFormed
  <2>2. CASE c # 0
    <3> DEFINE first == c - s[c].pos + 1
               nxt   == first + s[c].len
    <3>1. /\ s[c].pos <= s[c].len
          /\ \A j \in 1..Len(s) :
               first <= j /\ j < nxt => s[j] = [s[c] EXCEPT !.pos = j - first + 1]
          /\ nxt <= Len(s) => s[nxt].frame = s[c].frame + 1
      BY <1>1, <2>2 DEF WellFormed
    <3>2. s[c] \in Byte
      BY <1>1, <2>2, ElementOfSeq
    <3>3. first <= c + 1 /\ nxt >= c + 1 /\ nxt \in Int
      BY <3>1, <3>2 DEF Byte
    <3>4. CASE c + 1 < nxt
      <4>1. s[c + 1] = [s[c] EXCEPT !.pos = (c + 1) - first + 1]
        BY <1>3, <3>1, <3>3, <3>4
      <4>2. s[c + 1].pos = s[c].pos + 1
        BY <3>2, <4>1 DEF Byte
      <4> QED
        BY <1>5, <3>2, <4>2 DEF Byte
    <3>5. CASE nxt = c + 1
      BY <1>3, <1>4, <2>2, <3>1, <3>5
    <3>6. c + 1 < nxt \/ nxt = c + 1
      BY <3>3
    <3> QED
      BY <3>4, <3>5, <3>6
  <2> QED
    BY <2>1, <2>2
<1>11. /\ s[next].frame = buf[1].frame
       /\ s[next].pos = s[next].len
  <2>1. next - c = buf[1].len
    BY <1>4, <1>6 DEF Byte, next
  <2> QED
    BY <1>6, <1>9, <2>1
<1>12. next < Len(s) => s[next + 1].pos = 1
  <2>1. next < Len(s) => next + 1 <= Len(s)
    BY <1>1, <1>6
  <2> QED
    BY <1>8, <2>1
<1>13. \A i \in (c + 1)..next : /\ s[i].kind = "good"
                               /\ s[i].frame = buf[1].frame
  BY <1>9
<1> HIDE DEF buf
<1> QED
  BY <1>6, <1>7, <1>10, <1>11, <1>12, <1>13, Zenon DEF next, buf

(* What is left of a buffer that begins with a message.                    *)
LEMMA CompleteRest ==
  ASSUME NEW buf \in Seq(Byte), Complete(buf)
  PROVE  WithoutFirst(buf) \in Seq(Byte) /\ buf[1].frame \in Nat \ {0}
<1>1. Header1Len \in Nat \ {0} /\ HeaderLen \in Nat /\ Header1Len <= HeaderLen
  BY DeserializerAssumption
<1>2. Len(buf) \in Nat /\ 1 \in 1..Len(buf)
  BY <1>1 DEF Complete
<1>3. buf[1] \in Byte
  BY <1>2, ElementOfSeq
<1>4. buf[1].len \in 0..Len(buf) /\ Len(buf) \in 0..Len(buf)
  BY <1>2, <1>3 DEF Complete, Byte
<1>5. WithoutFirst(buf) \in Seq(Byte)
  BY <1>4, PartType DEF WithoutFirst
<1> QED
  BY <1>3, <1>5 DEF Byte

-----------------------------------------------------------------------------
(* The inductive invariant.                                                *)

(* The frames delivered are those of the bytes consumed, to their last     *)
(* bytes.                                                                  *)
FramesInv ==
  /\ Len(delivered) <= Consumed
  /\ \A i \in 1..Consumed : stream[i].frame \in 1..Len(delivered)
  /\ \A f \in 1..Len(delivered) :
       \E i \in 1..Consumed : stream[i].frame = f /\ stream[i].pos = stream[i].len

SyncInv == TypeOK /\ OneHolder /\ InSync /\ DeliveredInOrder /\ FramesInv

LEMMA StreamFacts ==
  ASSUME TypeOK
  PROVE  /\ stream \in Seq(Byte)
         /\ read \in 0..Len(stream)
         /\ Len(stream) \in Nat
         /\ read \in Nat
BY DeserializerAssumption DEF TypeOK, WellFormed

LEMMA HeldFacts ==
  ASSUME SyncInv
  PROVE  /\ Held \in Seq(Byte)
         /\ Len(Held) = read - Consumed
         /\ Consumed \in 0..read
         /\ chunk = <<>> => Held = inputData
         /\ inputData = <<>> => Held = chunk
<1>1. inputData \in Seq(Byte) /\ chunk \in Seq(Byte)
  BY DEF SyncInv, TypeOK
<1>2. Held \in Seq(Byte)
  BY <1>1, ConcatProperties DEF Held
<1>3. /\ chunk = <<>> => Held = inputData
      /\ inputData = <<>> => Held = chunk
  BY <1>1, ConcatEmptySeq DEF Held
<1>4. Len(Held) \in Nat /\ Len(Held) <= read /\ read \in Nat
  BY <1>2, StreamFacts DEF SyncInv, InSync
<1> QED
  BY <1>2, <1>3, <1>4 DEF Consumed

(* A step that changes neither what is read, nor what is held, nor what is *)
(* delivered.                                                              *)
LEMMA HeldUnchanged ==
  ASSUME SyncInv, Held' = Held, UNCHANGED <<stream, read, delivered>>
  PROVE  InSync' /\ DeliveredInOrder' /\ FramesInv'
BY DEF SyncInv, InSync, DeliveredInOrder, FramesInv, Consumed

(* A read appends to what is held.                                         *)
LEMMA ReadAppends ==
  ASSUME SyncInv, NEW n \in 1..(Len(stream) - read),
         Held' = Held \o NextBytes(n), read' = read + n,
         UNCHANGED <<stream, delivered>>
  PROVE  InSync' /\ DeliveredInOrder' /\ FramesInv'
<1> DEFINE c == Consumed
<1>1. /\ stream \in Seq(Byte) /\ Len(stream) \in Nat
      /\ read \in Nat /\ read <= Len(stream) /\ n \in Nat /\ read + n <= Len(stream)
  BY StreamFacts DEF SyncInv
<1>2. c \in 0..read
  BY HeldFacts
<1>3. Held = SubSeq(stream, c + 1, read)
  BY DEF SyncInv, InSync
<1> HIDE DEF c
<1>4. Held' = SubSeq(stream, c + 1, read + n)
  <2>1. /\ c \in 0..Len(stream) /\ read \in c..Len(stream)
        /\ read + n \in read..Len(stream)
    BY <1>1, <1>2
  <2> QED
    BY <1>1, <1>3, <2>1, PartsMeet DEF NextBytes
<1>5. Len(Held') = read + n - c
  <2>1. /\ c \in 0..Len(stream) /\ read + n \in 0..Len(stream) /\ c < read + n
    BY <1>1, <1>2
  <2> QED
    BY <1>1, <1>4, <2>1, PartType
<1>6. Consumed' = c
  BY <1>1, <1>2, <1>5 DEF Consumed
<1>7. InSync'
  <2>1. Len(Held') <= read'
    BY <1>1, <1>2, <1>5
  <2>2. c < Len(stream) => stream[c + 1].pos = 1
    BY DEF SyncInv, InSync, c
  <2> QED
    BY <1>4, <1>6, <2>1, <2>2 DEF InSync
<1>8. DeliveredInOrder' /\ FramesInv'
  BY <1>6 DEF SyncInv, DeliveredInOrder, FramesInv, c
<1> QED
  BY <1>7, <1>8

(* A message is taken from the beginning of what is held.                  *)
LEMMA MessageTaken ==
  ASSUME SyncInv, Complete(Held), Held' = WithoutFirst(Held),
         delivered' = Append(delivered, Held[1].frame),
         UNCHANGED <<stream, read>>
  PROVE  InSync' /\ DeliveredInOrder' /\ FramesInv' /\ Held' \in Seq(Byte)
<1> DEFINE c == Consumed
           buf == SubSeq(stream, c + 1, read)
           next == c + buf[1].len
<1>1. /\ stream \in Seq(Byte) /\ Len(stream) \in Nat /\ stream \in Streams
      /\ read \in Nat /\ read <= Len(stream)
  BY StreamFacts DEF SyncInv, TypeOK
<1>2. c \in 0..read
  BY HeldFacts
<1>3. Held = buf /\ (c < Len(stream) => stream[c + 1].pos = 1)
  BY DEF SyncInv, InSync
<1> HIDE DEF c
<1>4. /\ next \in (c + 1)..read
      /\ WithoutFirst(buf) = SubSeq(stream, next + 1, read)
      /\ buf[1].frame = IF c = 0 THEN 1 ELSE stream[c].frame + 1
      /\ stream[next].frame = buf[1].frame
      /\ next < Len(stream) => stream[next + 1].pos = 1
      /\ stream[next].pos = stream[next].len
      /\ \A i \in (c + 1)..next : /\ stream[i].kind = "good"
                                 /\ stream[i].frame = buf[1].frame
  <2>1. c \in 0..Len(stream) /\ read \in c..Len(stream)
    BY <1>1, <1>2
  <2> QED
    BY <1>1, <1>3, <2>1, FrameAhead
<1> HIDE DEF next
<1>5. Held' = SubSeq(stream, next + 1, read)
  BY <1>3, <1>4
<1>6. Len(Held') = read - next /\ Held' \in Seq(Byte)
  <2>1. next \in 0..Len(stream) /\ read \in 0..Len(stream) /\ next <= read
    BY <1>1, <1>2, <1>4
  <2> QED
    BY <1>1, <1>5, <2>1, PartType
<1>7. Consumed' = next /\ next \in 1..read
  BY <1>1, <1>2, <1>4, <1>6 DEF Consumed
<1>8. InSync'
  <2>1. Len(Held') <= read'
    BY <1>1, <1>6, <1>7
  <2> QED
    BY <1>4, <1>5, <1>7, <2>1 DEF InSync
<1>9. /\ DeliveredInOrder'
      /\ Len(delivered') = Len(delivered) + 1 /\ Len(delivered) \in Nat
      /\ buf[1].frame = Len(delivered) + 1
  <2>1. /\ delivered = [i \in 1..Len(delivered) |-> i]
        /\ delivered \in Seq(Nat \ {0})
        /\ Len(delivered) = IF c = 0 THEN 0 ELSE stream[c].frame
        /\ \A i \in 1..c : stream[i].kind = "good"
    BY DEF SyncInv, DeliveredInOrder, TypeOK, c
  <2>2. Held[1].frame = Len(delivered) + 1
    <3>1. Held[1] = buf[1]
      BY <1>3
    <3> HIDE DEF buf
    <3> QED
      BY <1>4, <2>1, <3>1
  <2>3. Len(delivered') = Len(delivered) + 1
    BY <2>1
  <2>4. delivered' = [i \in 1..Len(delivered') |-> i]
    BY <2>1, <2>2, <2>3
  <2>5. \A i \in 1..next : stream[i].kind = "good"
    BY <1>2, <1>4, <1>7, <2>1
  <2>6. Len(delivered') = stream[next].frame
    BY <1>3, <1>4, <2>2, <2>3
  <2>7. Consumed' # 0 /\ stream' = stream
    BY <1>1, <1>7
  <2>8. DeliveredInOrder'
    BY <1>7, <2>4, <2>5, <2>6, <2>7 DEF DeliveredInOrder
  <2>9. Len(delivered) \in Nat
    BY <2>1
  <2> QED
    BY <1>3, <2>2, <2>3, <2>8, <2>9
<1>10. FramesInv'
  <2> DEFINE n == Len(delivered)
  <2>1. /\ n <= c /\ n \in Nat
        /\ \A i \in 1..c : stream[i].frame \in 1..n
        /\ \A f \in 1..n : \E i \in 1..c : stream[i].frame = f /\ stream[i].pos = stream[i].len
    BY <1>9 DEF SyncInv, FramesInv, c
  <2>2. Len(delivered') = n + 1 /\ buf[1].frame = n + 1 /\ stream' = stream
    BY <1>9
  <2> HIDE DEF n
  <2>3. n + 1 <= next
    BY <1>1, <1>2, <1>4, <2>1
  <2>4. \A i \in 1..next : stream[i].frame \in 1..(n + 1)
    BY <1>1, <1>2, <1>4, <2>1, <2>2
  <2>5. ASSUME NEW f \in 1..(n + 1)
        PROVE  \E i \in 1..next : stream[i].frame = f /\ stream[i].pos = stream[i].len
    <3>1. CASE f = n + 1
      <4>1. /\ stream[next].frame = buf[1].frame
            /\ stream[next].pos = stream[next].len
            /\ next \in 1..next
        BY <1>2, <1>4, <1>7
      <4> QED
        BY <2>2, <3>1, <4>1
    <3>2. CASE f # n + 1
      <4>1. f \in 1..n
        BY <2>1, <3>2
      <4>2. PICK i \in 1..c : stream[i].frame = f /\ stream[i].pos = stream[i].len
        BY <2>1, <4>1
      <4>3. i \in 1..next
        BY <1>1, <1>2, <1>4
      <4> QED
        BY <4>2, <4>3
    <3> QED
      BY <3>1, <3>2
  <2> QED
    <3>1. Consumed' = next
      BY <1>7
    <3> HIDE DEF buf
    <3> QED
      BY <2>2, <2>3, <2>4, <2>5, <3>1 DEF FramesInv
<1> QED
  BY <1>6, <1>8, <1>9, <1>10

LEMMA SyncInvariant == Spec => []SyncInv
<1>1. Init => SyncInv
  <2> SUFFICES ASSUME Init
               PROVE  SyncInv
    OBVIOUS
  <2>1. TypeOK /\ OneHolder
    BY DeserializerAssumption DEF Init, TypeOK, OneHolder, WellFormed
  <2>2. Held = <<>> /\ Consumed = 0
    <3>1. <<>> \in Seq(Byte)
      OBVIOUS
    <3>2. Held = <<>>
      BY <3>1, ConcatEmptySeq DEF Init, Held
    <3>3. read = 0
      BY DEF Init
    <3>4. Len(Held) = 0
      BY <3>2
    <3>5. read - Len(Held) = 0
      BY <3>3, <3>4
    <3> QED
      BY <3>2, <3>5, Zenon DEF Consumed
  <2>3. SubSeq(stream, 1, 0) = <<>>
    OBVIOUS
  <2>4. stream # <<>> => stream[1].pos = 1
    BY DeserializerAssumption DEF Init, WellFormed
  <2>5. InSync
    BY <2>2, <2>3, <2>4, StreamFacts, <2>1 DEF Init, InSync
  <2>6. DeliveredInOrder
    BY <2>2 DEF Init, DeliveredInOrder
  <2>7. FramesInv
    BY <2>2 DEF Init, FramesInv
  <2> QED
    BY <2>1, <2>5, <2>6, <2>7 DEF SyncInv
<1>2. SyncInv /\ [Next]_vars => SyncInv'
  <2> SUFFICES ASSUME SyncInv, [Next]_vars
               PROVE  SyncInv'
    OBVIOUS
  <2>1. /\ TypeOK /\ OneHolder
        /\ stream \in Seq(Byte) /\ Len(stream) \in Nat /\ read \in Nat
        /\ read <= Len(stream)
        /\ inputData \in Seq(Byte) /\ chunk \in Seq(Byte)
    BY StreamFacts DEF SyncInv, TypeOK
  <2>2. ASSUME NEW n \in 1..(Len(stream) - read)
        PROVE  NextBytes(n) \in Seq(Byte) /\ read + n \in 0..Len(stream)
    <3>1. read \in 0..Len(stream) /\ read + n \in 0..Len(stream)
      BY <2>1
    <3> QED
      BY <2>1, <3>1, PartType DEF NextBytes
  <2>3. ASSUME NEW n \in 1..(Len(stream) - read), Advance(n)
        PROVE  SyncInv'
    <3>1. /\ NextBytes(n) \in Seq(Byte) /\ chunk = <<>>
          /\ read' = read + n /\ read + n \in 0..Len(stream)
          /\ UNCHANGED <<caller, stream, delivered>>
      BY <2>1, <2>2, <2>3 DEF Advance, OneHolder
    <3>2. CASE inputData = <<>>
      <4>1. /\ chunk' = NextBytes(n) /\ phase' = "direct" /\ inputData' = <<>>
        BY <2>3, <3>2 DEF Advance
      <4>2. Held' = Held \o NextBytes(n)
        BY <3>1, <3>2, <4>1, ConcatEmptySeq DEF Held
      <4>3. TypeOK' /\ OneHolder'
        BY <2>1, <3>1, <3>2, <4>1 DEF TypeOK, OneHolder
      <4> QED
        BY <3>1, <4>2, <4>3, ReadAppends DEF SyncInv
    <3>3. CASE inputData # <<>>
      <4>1. /\ inputData' = inputData \o NextBytes(n) /\ phase' = "buffered"
            /\ chunk' = <<>>
        BY <2>3, <3>1, <3>3 DEF Advance
      <4>2. inputData' \in Seq(Byte)
        BY <2>1, <3>1, <4>1, ConcatProperties
      <4>3. Held' = Held \o NextBytes(n)
        BY <2>1, <3>1, <4>1, <4>2, ConcatEmptySeq DEF Held
      <4>4. TypeOK' /\ OneHolder'
        BY <2>1, <3>1, <4>1, <4>2 DEF TypeOK, OneHolder
      <4> QED
        BY <3>1, <4>3, <4>4, ReadAppends DEF SyncInv
    <3> QED
      BY <3>2, <3>3
  <2>4. ASSUME NEW n \in 1..(Len(stream) - read), AddData(n)
        PROVE  SyncInv'
    <3>1. /\ NextBytes(n) \in Seq(Byte) /\ chunk = <<>> /\ chunk' = <<>>
          /\ read' = read + n /\ read + n \in 0..Len(stream)
          /\ inputData' = inputData \o NextBytes(n) /\ phase' = "buffered"
          /\ UNCHANGED <<caller, stream, delivered>>
      BY <2>1, <2>2, <2>4 DEF AddData, OneHolder
    <3>2. inputData' \in Seq(Byte)
      BY <2>1, <3>1, ConcatProperties
    <3>3. Held' = Held \o NextBytes(n)
      BY <2>1, <3>1, <3>2, ConcatEmptySeq DEF Held
    <3>4. TypeOK' /\ OneHolder'
      BY <2>1, <3>1, <3>2 DEF TypeOK, OneHolder
    <3> QED
      BY <3>1, <3>3, <3>4, ReadAppends DEF SyncInv
  <2>5. CASE DirectMessage
    <3>1. inputData = <<>> /\ inputData' = <<>> /\ Held = chunk
      BY <2>1, <2>5, HeldFacts DEF DirectMessage, OneHolder
    <3>2. Held' = chunk' \/ chunk' \notin Seq(Byte)
      BY <3>1, ConcatEmptySeq DEF Held
    <3>3. chunk' = WithoutFirst(Held) /\ Complete(Held)
      BY <2>5, <3>1 DEF DirectMessage
    <3>4. chunk' \in Seq(Byte)
      BY <3>1, <3>3, HeldFacts, CompleteRest
    <3>5. InSync' /\ DeliveredInOrder' /\ FramesInv'
      BY <2>5, <3>1, <3>2, <3>3, <3>4, MessageTaken DEF DirectMessage
    <3>6. Held[1].frame \in Nat \ {0}
      BY <3>3, HeldFacts, CompleteRest
    <3>7. TypeOK' /\ OneHolder'
      BY <2>1, <2>5, <3>1, <3>4, <3>6 DEF DirectMessage, TypeOK, OneHolder
    <3> QED
      BY <3>5, <3>7 DEF SyncInv
  <2>6. CASE DirectEnd
    <3>1. inputData = <<>> /\ inputData' = chunk /\ chunk' = <<>>
      BY <2>1, <2>6, ConcatEmptySeq DEF DirectEnd, OneHolder
    <3>2. Held' = Held
      BY <2>1, <3>1, ConcatEmptySeq DEF Held
    <3>3. TypeOK' /\ OneHolder'
      BY <2>1, <2>6, <3>1 DEF DirectEnd, TypeOK, OneHolder
    <3> QED
      BY <2>6, <3>2, <3>3, HeldUnchanged DEF DirectEnd, SyncInv
  <2>7. CASE BufferedMessage
    <3>1. chunk = <<>> /\ chunk' = <<>> /\ Held = inputData
      BY <2>1, <2>7, HeldFacts DEF BufferedMessage, OneHolder
    <3>2. Held' = inputData' \/ inputData' \notin Seq(Byte)
      BY <3>1, ConcatEmptySeq DEF Held
    <3>3. inputData' = WithoutFirst(Held) /\ Complete(Held)
      BY <2>7, <3>1 DEF BufferedMessage
    <3>4. inputData' \in Seq(Byte)
      BY <3>1, <3>3, HeldFacts, CompleteRest
    <3>5. InSync' /\ DeliveredInOrder' /\ FramesInv'
      BY <2>7, <3>1, <3>2, <3>3, <3>4, MessageTaken DEF BufferedMessage
    <3>6. Held[1].frame \in Nat \ {0}
      BY <3>3, HeldFacts, CompleteRest
    <3>7. TypeOK' /\ OneHolder'
      BY <2>1, <2>7, <3>1, <3>4, <3>6 DEF BufferedMessage, TypeOK, OneHolder
    <3> QED
      BY <3>5, <3>7 DEF SyncInv
  <2>8. CASE ReadMessage \/ BufferedEnd \/ Reject
    <3>1. Held' = Held
      BY <2>8 DEF ReadMessage, BufferedEnd, Reject, Held
    <3>2. TypeOK' /\ OneHolder'
      BY <2>1, <2>8 DEF ReadMessage, BufferedEnd, Reject, TypeOK, OneHolder
    <3> QED
      BY <2>8, <3>1, <3>2, HeldUnchanged DEF ReadMessage, BufferedEnd, Reject, SyncInv
  <2>9. CASE UNCHANGED vars
    <3>1. Held' = Held
      BY <2>9 DEF vars, Held
    <3>2. TypeOK' /\ OneHolder'
      BY <2>1, <2>9 DEF vars, TypeOK, OneHolder
    <3>3. InSync' /\ DeliveredInOrder' /\ FramesInv'
      BY <2>1, <2>9, <3>1, HeldUnchanged DEF vars, SyncInv
    <3> QED
      BY <3>2, <3>3 DEF SyncInv
  <2> QED
    BY <2>3, <2>4, <2>5, <2>6, <2>7, <2>8, <2>9 DEF Next
<1> QED
  BY <1>1, <1>2, PTL DEF Spec

(* The deserializer keeps its types, and bytes are held either by          *)
(* _inputData or by the caller's buffer: nothing is kept twice when        *)
(* advance changes from one to the other.  (advance)                       *)
THEOREM TypeCorrect == Spec => []TypeOK
BY SyncInvariant, PTL DEF SyncInv

(* Whatever the reads return, no byte is lost, skipped or taken twice, and *)
(* what is kept between two messages begins with the header of a frame.    *)
THEOREM StaysInSync == Spec => []InSync
BY SyncInvariant, PTL DEF SyncInv

(* The callback gets the messages of the stream one by one, in order.      *)
THEOREM DeliversInOrder == Spec => []DeliveredInOrder
BY SyncInvariant, PTL DEF SyncInv

-----------------------------------------------------------------------------
(* What is left between two reads.                                         *)

(* With the bytes of a read processed no message is left, and a rejected   *)
(* stream is held from the header that was found invalid.                  *)
PhaseInv ==
  /\ phase = "failed" => Invalid(Held)
  /\ phase = "idle" /\ caller # "readMessage" => Incomplete(Held)

LEMMA PhaseInvariant == Spec => [](SyncInv /\ PhaseInv)
<1>1. Init => PhaseInv
  <2> SUFFICES ASSUME Init
               PROVE  PhaseInv
    OBVIOUS
  <2>1. Held = <<>>
    <3>1. <<>> \in Seq(Byte)
      OBVIOUS
    <3> QED
      BY <3>1, ConcatEmptySeq DEF Init, Held
  <2>2. Len(Held) = 0
    BY <2>1
  <2> QED
    BY <2>2, DeserializerAssumption DEF Init, PhaseInv, Incomplete, Invalid, Complete
<1>2. SyncInv /\ PhaseInv /\ [Next]_vars => PhaseInv'
  <2> SUFFICES ASSUME SyncInv, PhaseInv, [Next]_vars
               PROVE  PhaseInv'
    OBVIOUS
  <2>1. /\ OneHolder
        /\ chunk = <<>> => Held = inputData
        /\ inputData = <<>> => Held = chunk
    BY HeldFacts DEF SyncInv
  <2>2. ASSUME NEW n \in 1..(Len(stream) - read), Advance(n) \/ AddData(n)
        PROVE  PhaseInv'
    BY <2>2 DEF Advance, AddData, PhaseInv
  <2>3. CASE DirectMessage \/ ReadMessage \/ BufferedMessage
    BY <2>3 DEF DirectMessage, ReadMessage, BufferedMessage, PhaseInv
  <2>4. CASE DirectEnd
    <3>1. inputData = <<>> /\ chunk \in Seq(Byte)
      BY <2>1, <2>4 DEF DirectEnd, OneHolder, SyncInv, TypeOK
    <3>2. Held' = Held /\ Held = chunk
      <4>1. inputData' = chunk /\ chunk' = <<>>
        BY <2>4, <3>1, ConcatEmptySeq DEF DirectEnd
      <4> QED
        BY <2>1, <3>1, <4>1, ConcatEmptySeq DEF Held
    <3>3. Incomplete(Held')
      BY <2>4, <3>2 DEF DirectEnd
    <3>4. phase' # "failed"
      BY <2>4 DEF DirectEnd
    <3> QED
      BY <3>3, <3>4 DEF PhaseInv
  <2>5. CASE BufferedEnd
    BY <2>1, <2>5 DEF BufferedEnd, OneHolder, PhaseInv, Held
  <2>6. CASE Reject
    BY <2>1, <2>6 DEF Reject, OneHolder, PhaseInv, Held
  <2>7. CASE UNCHANGED vars
    BY <2>7 DEF vars, PhaseInv, Held
  <2> QED
    BY <2>2, <2>3, <2>4, <2>5, <2>6, <2>7 DEF Next
<1> QED
  BY <1>1, <1>2, SyncInvariant, PTL DEF Spec

(* The bytes held belong to one frame if no message is complete.           *)
LEMMA HeldFrame ==
  ASSUME SyncInv, ~Complete(Held), Consumed < read,
         stream[Consumed + 1].kind = "good"
  PROVE  \A j \in (Consumed + 1)..read :
           /\ stream[j].kind = "good"
           /\ stream[j].pos = j - Consumed
           /\ stream[j].pos < stream[j].len
<1> DEFINE c == Consumed
<1>1. /\ stream \in Seq(Byte) /\ Len(stream) \in Nat /\ WellFormed(stream)
      /\ read \in Nat /\ read <= Len(stream) /\ c \in 0..read /\ c < read
  BY StreamFacts, HeldFacts, DeserializerAssumption DEF SyncInv, TypeOK
<1>2. c + 1 \in 1..Len(stream) /\ stream[c + 1] \in Byte /\ stream[c + 1].pos = 1
  <2>1. c + 1 \in 1..Len(stream)
    BY <1>1
  <2>2. stream[c + 1] \in Byte
    BY <1>1, <2>1, ElementOfSeq
  <2>3. stream[c + 1].pos = 1
    BY <1>1 DEF SyncInv, InSync
  <2> QED
    BY <2>1, <2>2, <2>3
<1>3. Len(Held) = read - c /\ Held[1] = stream[c + 1]
  <2>1. Held = SubSeq(stream, c + 1, read)
    BY DEF SyncInv, InSync
  <2> HIDE DEF c
  <2>2. c \in 0..Len(stream) /\ read \in 0..Len(stream)
    BY <1>1
  <2> QED
    BY <1>1, <2>1, <2>2, PartType
<1> HIDE DEF c
<1>4. read - c < stream[c + 1].len /\ stream[c + 1].len \in Nat
  <2> DEFINE len == stream[c + 1].len
             held == Len(Held)
  <2>1. len >= HeaderLen
    BY <1>1, <1>2 DEF WellFormed, c
  <2>2. Kind(Held) = "good"
    BY <1>2, <1>3 DEF Kind, c
  <2>3. ~(held >= HeaderLen /\ held >= len)
    BY <1>3, <2>2 DEF Complete
  <2>4. len \in Nat /\ held = read - c /\ HeaderLen \in Nat
    BY <1>2, <1>3, DeserializerAssumption DEF Byte
  <2>5. read \in Nat /\ c \in Nat /\ c < read
    BY <1>1
  <2> HIDE DEF len, held
  <2>6. read - c < len
    BY <2>1, <2>3, <2>4, <2>5
  <2> QED
    BY <2>4, <2>6 DEF len
<1>5. \A j \in 1..Len(stream) :
        c + 1 <= j /\ j < (c + 1) + stream[c + 1].len =>
          stream[j] = [stream[c + 1] EXCEPT !.pos = j - (c + 1) + 1]
  <2>1. LET first == (c + 1) - stream[c + 1].pos + 1
            next  == first + stream[c + 1].len
        IN  \A j \in 1..Len(stream) :
              first <= j /\ j < next => stream[j] = [stream[c + 1] EXCEPT !.pos = j - first + 1]
    BY <1>1, <1>2 DEF WellFormed
  <2>2. (c + 1) - stream[c + 1].pos + 1 = c + 1
    BY <1>1, <1>2
  <2> QED
    BY <2>1, <2>2, Zenon
<1>6. ASSUME NEW j \in (c + 1)..read
      PROVE  /\ stream[j].kind = "good"
             /\ stream[j].pos = j - c
             /\ stream[j].pos < stream[j].len
  <2> DEFINE len == stream[c + 1].len
  <2>3. /\ len \in Nat /\ read - c < len /\ Len(stream) \in Nat
        /\ read \in Nat /\ read <= Len(stream) /\ c \in Nat
    BY <1>1, <1>4
  <2> HIDE DEF len
  <2>4. /\ j \in 1..Len(stream) /\ c + 1 <= j /\ j < (c + 1) + len
        /\ j - (c + 1) + 1 = j - c /\ j - c < len
    BY <2>3
  <2>1. /\ j \in 1..Len(stream) /\ c + 1 <= j /\ j < (c + 1) + stream[c + 1].len
        /\ j - (c + 1) + 1 = j - c /\ j - c < stream[c + 1].len
    BY <2>4 DEF len
  <2>2. stream[j] = [stream[c + 1] EXCEPT !.pos = j - c]
    BY <1>5, <2>1
  <2> QED
    BY <1>2, <2>1, <2>2 DEF Byte, c
<1> QED
  BY <1>6 DEF c

(* However the reads cut the stream, between two of them the messages      *)
(* delivered are those whose last byte is read, and the stream is rejected *)
(* as soon as the header of a bad frame is.                                *)
THEOREM CutsAreInvisible == Spec => []CuttingInvisible
<1>1. SyncInv /\ PhaseInv => CuttingInvisible
  <2> SUFFICES ASSUME SyncInv, PhaseInv, phase \in {"idle", "failed"},
                      caller # "readMessage"
               PROVE  /\ {delivered[i] : i \in DOMAIN delivered} = Parsable(read)
                      /\ phase = "failed" <=>
                           \E i \in 1..read :
                             /\ stream[i].pos = 1
                             /\ \A j \in 1..(i - 1) : stream[j].kind = "good"
                             /\ \/ stream[i].kind = "foreign" /\ read - i + 1 >= Header1Len
                                \/ stream[i].kind = "corrupt" /\ read - i + 1 >= HeaderLen
    BY DEF CuttingInvisible
  <2> DEFINE c == Consumed
             n == Len(delivered)
  <2>1. /\ stream \in Seq(Byte) /\ Len(stream) \in Nat
        /\ read \in Nat /\ read <= Len(stream) /\ c \in 0..read
        /\ delivered = [i \in 1..n |-> i] /\ n \in Nat /\ n <= c
        /\ \A i \in 1..c : stream[i].kind = "good" /\ stream[i].frame \in 1..n
        /\ \A f \in 1..n : \E i \in 1..c : stream[i].frame = f /\ stream[i].pos = stream[i].len
        /\ Len(Held) = read - c
    <3>1. stream \in Seq(Byte) /\ Len(stream) \in Nat /\ read \in Nat /\ read <= Len(stream)
      BY StreamFacts DEF SyncInv
    <3>2. c \in 0..read /\ Len(Held) = read - c
      BY HeldFacts
    <3>3. delivered = [i \in 1..n |-> i] /\ \A i \in 1..c : stream[i].kind = "good"
      BY DEF SyncInv, DeliveredInOrder
    <3>4. n \in Nat
      BY LenProperties DEF SyncInv, TypeOK
    <3>5. /\ n <= c
          /\ \A i \in 1..c : stream[i].frame \in 1..n
          /\ \A f \in 1..n : \E i \in 1..c : stream[i].frame = f /\ stream[i].pos = stream[i].len
      BY DEF SyncInv, FramesInv
    <3> HIDE DEF c, n
    <3> QED
      BY <3>1, <3>2, <3>3, <3>4, <3>5
  <2>2. c < read => /\ Held[1] = stream[c + 1]
                    /\ stream[c + 1].pos = 1 /\ stream[c + 1] \in Byte
    <3> SUFFICES ASSUME c < read
                 PROVE  /\ Held[1] = stream[c + 1]
                        /\ stream[c + 1].pos = 1 /\ stream[c + 1] \in Byte
      OBVIOUS
    <3>1. c + 1 \in 1..Len(stream) /\ c \in 0..Len(stream) /\ read \in 0..Len(stream)
      BY <2>1
    <3>2. Held = SubSeq(stream, c + 1, read) /\ stream[c + 1].pos = 1
      BY <2>1 DEF SyncInv, InSync
    <3>3. stream[c + 1] \in Byte
      BY <2>1, <3>1, ElementOfSeq
    <3> HIDE DEF c
    <3> QED
      BY <2>1, <3>1, <3>2, <3>3, PartType
  <2>3. ~Complete(Held)
    <3>1. Invalid(Held) => ~Complete(Held)
      BY <2>1, DeserializerAssumption DEF Invalid, Complete
    <3> QED
      BY <3>1 DEF PhaseInv, Incomplete
  <2>4. c < read /\ stream[c + 1].kind = "good" =>
          \A j \in (c + 1)..read : /\ stream[j].kind = "good"
                                   /\ stream[j].pos = j - c
                                   /\ stream[j].pos < stream[j].len
    BY <2>3, HeldFrame
  <2> HIDE DEF c, n
  <2>5. {delivered[i] : i \in DOMAIN delivered} = 1..n
    BY <2>1
  <2>6. 1..n = Parsable(read)
    <3>1. ASSUME NEW f \in 1..n
          PROVE  f \in Parsable(read)
      <4>1. PICK i \in 1..c : stream[i].frame = f /\ stream[i].pos = stream[i].len
        BY <2>1
      <4>2. i \in 1..read /\ f \in 1..read /\ \A j \in 1..i : j \in 1..c
        BY <2>1
      <4> QED
        BY <2>1, <4>1, <4>2 DEF Parsable
    <3>2. ASSUME NEW f \in Parsable(read)
          PROVE  f \in 1..n
      <4>1. PICK i \in 1..read : /\ stream[i].frame = f
                                 /\ stream[i].pos = stream[i].len
                                 /\ \A j \in 1..i : stream[j].kind = "good"
        BY <3>2 DEF Parsable
      <4>2. CASE i <= c
        BY <2>1, <4>1, <4>2
      <4>3. CASE i > c
        <5>1. c < read /\ c + 1 \in 1..i /\ i \in (c + 1)..read
          BY <2>1, <4>3
        <5>2. stream[i].pos < stream[i].len
          BY <2>4, <4>1, <5>1
        <5>3. stream[i].pos \in Nat
          BY <2>1, <2>4, <4>1, <5>1
        <5> QED
          BY <4>1, <5>2, <5>3
      <4> QED
        BY <2>1, <4>2, <4>3
    <3> QED
      BY <3>1, <3>2
  <2>7. ASSUME phase = "failed"
        PROVE  \E i \in 1..read :
                 /\ stream[i].pos = 1
                 /\ \A j \in 1..(i - 1) : stream[j].kind = "good"
                 /\ \/ stream[i].kind = "foreign" /\ read - i + 1 >= Header1Len
                    \/ stream[i].kind = "corrupt" /\ read - i + 1 >= HeaderLen
    <3>1. Invalid(Held) /\ Header1Len \in Nat \ {0} /\ HeaderLen \in Nat
           /\ Header1Len <= HeaderLen
      BY <2>7, DeserializerAssumption DEF PhaseInv
    <3>2. c < read
      BY <2>1, <3>1 DEF Invalid
    <3>3. /\ c + 1 \in 1..read /\ read - (c + 1) + 1 = read - c
          /\ \A j \in 1..((c + 1) - 1) : j \in 1..c
      BY <2>1, <3>2
    <3>4. /\ stream[c + 1].pos = 1
          /\ \/ stream[c + 1].kind = "foreign" /\ read - c >= Header1Len
             \/ stream[c + 1].kind = "corrupt" /\ read - c >= HeaderLen
      BY <2>1, <2>2, <3>1, <3>2 DEF Invalid, Kind
    <3> QED
      BY <2>1, <3>3, <3>4
  <2>8. ASSUME NEW i \in 1..read,
               stream[i].pos = 1,
               \A j \in 1..(i - 1) : stream[j].kind = "good",
               \/ stream[i].kind = "foreign" /\ read - i + 1 >= Header1Len
               \/ stream[i].kind = "corrupt" /\ read - i + 1 >= HeaderLen
        PROVE  phase = "failed"
    <3>1. i > c
      BY <2>1, <2>8
    <3>2. c < read
      BY <2>1, <3>1
    <3>3. i = c + 1
      <4> SUFFICES ASSUME i # c + 1
                   PROVE  FALSE
        OBVIOUS
      <4>1. c + 1 \in 1..(i - 1) /\ i \in (c + 1)..read
        BY <2>1, <3>1
      <4>2. stream[i].kind = "good"
        BY <2>4, <2>8, <3>2, <4>1
      <4> QED
        BY <2>8, <4>2
    <3>4. Invalid(Held)
      <4>1. read - i + 1 = read - c
        BY <2>1, <3>3
      <4>2. Kind(Held) = stream[i].kind
        BY <2>2, <3>2, <3>3 DEF Kind
      <4> QED
        BY <2>1, <2>8, <4>1, <4>2 DEF Invalid
    <3> QED
      BY <3>4 DEF PhaseInv, Incomplete
  <2> QED
    BY <2>5, <2>6, <2>7, <2>8
<1> QED
  BY <1>1, PhaseInvariant, PTL

=============================================================================
