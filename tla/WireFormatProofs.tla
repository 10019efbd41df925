--------------------------- MODULE WireFormatProofs ---------------------------
(***************************************************************************)
(* Theorems about the message format: the framing, what of a message       *)
(* arrives, and what a subscriber reads, for every size of the header, of  *)
(* its fields and of the messages.                                         *)
(***************************************************************************)
EXTENDS WireFormat, SequenceLemmas

-----------------------------------------------------------------------------
(* What the buffers are made of.                                           *)

Headers ==
  [length : 0..(SizeWrap - 1), topic : 0..(LengthWrap - 1),
   sub : 0..(LengthWrap - 1), source : 0..(LengthWrap - 1),
   type : ValidTypes, serial : Nat]

Units == ({"head"} \X Headers)
           \cup ({"zero", "topic", "sub", "source", "data"} \X Nat)

Wire == [topic : Seq(Units), sub : Seq(Units), source : Seq(Units),
         data : Seq(Units), type : ValidTypes, serial : Nat]

Narrow(m) == \A f \in {m.topic, m.sub, m.source} : Len(f) < LengthWrap

(* What the server reads is of this kind, whatever it is sent.             *)
Small == {m \in Wire : Narrow(m) /\ ~Oversize(m)}

LEMMA ModuloType ==
  ASSUME NEW n \in Nat, NEW d \in Nat \ {0}
  PROVE  n % d \in 0..(d - 1) /\ n % d <= n /\ (n < d => n % d = n)
OBVIOUS

LEMMA WireLengths ==
  ASSUME NEW m \in Wire
  PROVE  /\ Len(m.topic) \in Nat /\ Len(m.sub) \in Nat /\ Len(m.source) \in Nat
         /\ Len(m.data) \in Nat /\ MessageLength(m) \in Nat
         /\ HeaderSize \in Nat /\ HeaderSize >= 1
BY WireAssumption DEF Wire, MessageLength

LEMMA CutType ==
  ASSUME NEW n \in Nat
  PROVE  /\ Cut(n) \in Nat /\ Cut(n) <= n /\ Cut(n) < LengthWrap
         /\ Cut(n) \in 0..(LengthWrap - 1)
         /\ n < LengthWrap => Cut(n) = n
<1>1. LengthWrap \in Nat \ {0}
  BY WireAssumption
<1>2. /\ n % LengthWrap \in 0..(LengthWrap - 1) /\ n % LengthWrap <= n
      /\ n < LengthWrap => n % LengthWrap = n
  BY <1>1, ModuloType, Zenon
<1>3. \A k \in 0..(LengthWrap - 1) : k \in Nat /\ k < LengthWrap
  BY <1>1
<1> QED
  BY <1>2, <1>3 DEF Cut

(* Where the fields lie: topic, sub topic and source in the part that the  *)
(* header says, and the data ends inside the message.                      *)
LEMMA HeaderType ==
  ASSUME NEW m \in Wire
  PROVE  LET h == Header(m)
         IN  /\ h \in Headers
             /\ h.length = MessageLength(m) % SizeWrap
             /\ h.type = m.type /\ h.serial = m.serial
             /\ h.topic \in Nat /\ h.topic <= Len(m.topic) /\ h.topic < LengthWrap
             /\ h.sub \in Nat /\ h.sub <= Len(m.sub) /\ h.sub < LengthWrap
             /\ h.source \in Nat /\ h.source <= Len(m.source) /\ h.source < LengthWrap
             /\ Len(m.topic) < LengthWrap => h.topic = Len(m.topic)
             /\ Len(m.sub) < LengthWrap => h.sub = Len(m.sub)
             /\ Len(m.source) < LengthWrap => h.source = Len(m.source)
<1> DEFINE h == Header(m)
<1>1. LengthWrap \in Nat \ {0} /\ SizeWrap \in Nat \ {0}
  BY WireAssumption
<1>2. /\ Len(m.topic) \in Nat /\ Len(m.sub) \in Nat /\ Len(m.source) \in Nat
      /\ MessageLength(m) \in Nat
  BY WireLengths
<1>3. /\ h.length = MessageLength(m) % SizeWrap
      /\ h.topic = Cut(Len(m.topic)) /\ h.sub = Cut(Len(m.sub))
      /\ h.source = Cut(Len(m.source))
      /\ h.type = m.type /\ h.serial = m.serial
  BY DEF Header
<1>4. MessageLength(m) % SizeWrap \in 0..(SizeWrap - 1)
  BY <1>1, <1>2, ModuloType
<1>6. h \in Headers
  <2>1. m.type \in ValidTypes /\ m.serial \in Nat
    BY DEF Wire
  <2>2. /\ Cut(Len(m.topic)) \in 0..(LengthWrap - 1)
        /\ Cut(Len(m.sub)) \in 0..(LengthWrap - 1)
        /\ Cut(Len(m.source)) \in 0..(LengthWrap - 1)
    BY <1>2, CutType
  <2> QED
    BY <1>4, <2>1, <2>2 DEF Header, Headers
<1> HIDE DEF h
<1>7. /\ h.topic \in Nat /\ h.topic <= Len(m.topic) /\ h.topic < LengthWrap
      /\ h.sub \in Nat /\ h.sub <= Len(m.sub) /\ h.sub < LengthWrap
      /\ h.source \in Nat /\ h.source <= Len(m.source) /\ h.source < LengthWrap
  BY <1>2, <1>3, CutType
<1>8. /\ Len(m.topic) < LengthWrap => h.topic = Len(m.topic)
      /\ Len(m.sub) < LengthWrap => h.sub = Len(m.sub)
      /\ Len(m.source) < LengthWrap => h.source = Len(m.source)
  BY <1>2, <1>3, CutType
<1> QED
  BY <1>3, <1>6, <1>7, <1>8 DEF h

LEMMA Offsets ==
  ASSUME NEW m \in Wire
  PROVE  LET h == Header(m)
         IN  /\ TopicOffset(h) = HeaderSize
             /\ SubtopicOffset(h) = HeaderSize + h.topic
             /\ SourceOffset(h) = HeaderSize + h.topic + h.sub
             /\ DataOffset(h) = HeaderSize + h.topic + h.sub + h.source
             /\ TopicOffset(h) + Len(m.topic) <= MessageLength(m)
             /\ SubtopicOffset(h) + Len(m.sub) <= MessageLength(m)
             /\ SourceOffset(h) + Len(m.source) <= MessageLength(m)
             /\ DataOffset(h) + Len(m.data) <= MessageLength(m)
<1> DEFINE h == Header(m)
           t == h.topic
           u == h.sub
           v == h.source
           lt == Len(m.topic)
           lu == Len(m.sub)
           lv == Len(m.source)
           ld == Len(m.data)
<1>1. /\ t \in Nat /\ t <= lt /\ u \in Nat /\ u <= lu /\ v \in Nat /\ v <= lv
  BY HeaderType
<1>2. lt \in Nat /\ lu \in Nat /\ lv \in Nat /\ ld \in Nat /\ HeaderSize \in Nat
  BY WireLengths
<1>3. /\ TopicOffset(h) = HeaderSize
      /\ SubtopicOffset(h) = HeaderSize + t
      /\ SourceOffset(h) = HeaderSize + t + u
      /\ DataOffset(h) = HeaderSize + t + u + v
  BY DEF TopicOffset, SubtopicOffset, SourceOffset, DataOffset
<1>4. MessageLength(m) = HeaderSize + lt + lu + lv + ld
  BY DEF MessageLength
<1> HIDE DEF t, u, v, lt, lu, lv, ld
<1>5. /\ HeaderSize + lt <= HeaderSize + lt + lu + lv + ld
      /\ HeaderSize + t + lu <= HeaderSize + lt + lu + lv + ld
      /\ HeaderSize + t + u + lv <= HeaderSize + lt + lu + lv + ld
      /\ HeaderSize + t + u + v + ld <= HeaderSize + lt + lu + lv + ld
  BY <1>1, <1>2
<1> QED
  BY <1>3, <1>4, <1>5 DEF t, u, v, lt, lu, lv, ld

-----------------------------------------------------------------------------
(* appendTo.                                                               *)

(* Place i of a buffer b that s is copied to, where element j of s goes.   *)
Written(b, s, j, i) == IF j \in 1..Len(s) THEN s[j] ELSE b[i]

LEMMA CopyToType ==
  ASSUME NEW n \in Nat, NEW b \in [1..n -> Units], NEW s \in Seq(Units), NEW o \in Nat
  PROVE  /\ CopyTo(b, <<o, s>>) \in [1..n -> Units]
         /\ \A i \in 1..n : CopyTo(b, <<o, s>>)[i] = Written(b, s, i - o, i)
<1> DEFINE c == CopyTo(b, <<o, s>>)
<1>1. c = [i \in 1..n |-> Written(b, s, i - o, i)]
  BY DEF CopyTo, Written
<1>2. \A i \in 1..n : Written(b, s, i - o, i) \in Units
  BY DEF Written
<1> QED
  BY <1>1, <1>2

(* The bytes of a message: the header first, and of each field as much as  *)
(* the header says.                                                        *)
LEMMA EncodeUnits ==
  ASSUME NEW m \in Wire
  PROVE  LET h == Header(m)
             e == Encode(m)
         IN  /\ e \in Seq(Units) /\ Len(e) = MessageLength(m)
             /\ e[1] = <<"head", h>>
             /\ \A i \in 1..h.topic  : e[TopicOffset(h) + i] = m.topic[i]
             /\ \A i \in 1..h.sub    : e[SubtopicOffset(h) + i] = m.sub[i]
             /\ \A i \in 1..h.source : e[SourceOffset(h) + i] = m.source[i]
             /\ \A i \in 1..Len(m.data) : e[DataOffset(h) + i] = m.data[i]
<1> DEFINE h == Header(m)
           n == MessageLength(m)
           o1 == TopicOffset(h)
           o2 == SubtopicOffset(h)
           o3 == SourceOffset(h)
           o4 == DataOffset(h)
           t == h.topic
           u == h.sub
           v == h.source
           lt == Len(m.topic)
           lu == Len(m.sub)
           lv == Len(m.source)
           ld == Len(m.data)
           b0 == [i \in 1..n |-> IF i = 1 THEN <<"head", h>> ELSE <<"zero", 0>>]
           b1 == CopyTo(b0, <<o1, m.topic>>)
           b2 == CopyTo(b1, <<o2, m.sub>>)
           b3 == CopyTo(b2, <<o3, m.source>>)
           b4 == CopyTo(b3, <<o4, m.data>>)
<1>1. Encode(m) = b4
  BY DEF Encode, Copies
<1>2. /\ m.topic \in Seq(Units) /\ m.sub \in Seq(Units)
      /\ m.source \in Seq(Units) /\ m.data \in Seq(Units)
  BY DEF Wire
<1>3. /\ h \in Headers
      /\ t \in Nat /\ t <= lt
      /\ u \in Nat /\ u <= lu
      /\ v \in Nat /\ v <= lv
  BY HeaderType
<1>4. n \in Nat /\ HeaderSize \in Nat /\ HeaderSize >= 1
  BY WireLengths
<1>5. /\ o1 = HeaderSize /\ o2 = o1 + t /\ o3 = o2 + u /\ o4 = o3 + v
      /\ o1 + lt <= n /\ o2 + lu <= n
      /\ o3 + lv <= n /\ o4 + ld <= n
  BY <1>3, <1>4, Offsets
<1>12. /\ lt \in Nat /\ lu \in Nat /\ lv \in Nat
       /\ ld \in Nat
  BY WireLengths
<1>6. b0 \in [1..n -> Units]
  BY <1>3 DEF Units
<1> HIDE DEF h, n, b0, b1, b2, b3, b4, o1, o2, o3, o4, t, u, v, lt, lu, lv, ld
<1>7. o1 \in Nat /\ o2 \in Nat /\ o3 \in Nat /\ o4 \in Nat
  BY <1>3, <1>4, <1>5, <1>12
<1>8. /\ b1 \in [1..n -> Units]
      /\ \A i \in 1..n : b1[i] = IF i - o1 \in 1..lt THEN m.topic[i - o1] ELSE b0[i]
  <2>1. b0 \in [1..n -> Units] /\ m.topic \in Seq(Units)
    BY <1>2, <1>6
  <2>2. /\ b1 \in [1..n -> Units]
        /\ \A i \in 1..n : b1[i] = Written(b0, m.topic, i - o1, i)
    BY <1>4, <1>7, <2>1, CopyToType DEF b1
  <2> QED
    BY <2>2 DEF Written, lt
<1>9. /\ b2 \in [1..n -> Units]
      /\ \A i \in 1..n : b2[i] = IF i - o2 \in 1..lu THEN m.sub[i - o2] ELSE b1[i]
  <2>1. b1 \in [1..n -> Units] /\ m.sub \in Seq(Units)
    BY <1>2, <1>8
  <2>2. /\ b2 \in [1..n -> Units]
        /\ \A i \in 1..n : b2[i] = Written(b1, m.sub, i - o2, i)
    BY <1>4, <1>7, <2>1, CopyToType DEF b2
  <2> QED
    BY <2>2 DEF Written, lu
<1>10. /\ b3 \in [1..n -> Units]
       /\ \A i \in 1..n : b3[i] = IF i - o3 \in 1..lv THEN m.source[i - o3] ELSE b2[i]
  <2>1. b2 \in [1..n -> Units] /\ m.source \in Seq(Units)
    BY <1>2, <1>9
  <2>2. /\ b3 \in [1..n -> Units]
        /\ \A i \in 1..n : b3[i] = Written(b2, m.source, i - o3, i)
    BY <1>4, <1>7, <2>1, CopyToType DEF b3
  <2> QED
    BY <2>2 DEF Written, lv
<1>11. /\ b4 \in [1..n -> Units]
       /\ \A i \in 1..n : b4[i] = IF i - o4 \in 1..ld THEN m.data[i - o4] ELSE b3[i]
  <2>1. b3 \in [1..n -> Units] /\ m.data \in Seq(Units)
    BY <1>2, <1>10
  <2>2. /\ b4 \in [1..n -> Units]
        /\ \A i \in 1..n : b4[i] = Written(b3, m.data, i - o4, i)
    BY <1>4, <1>7, <2>1, CopyToType DEF b4
  <2> QED
    BY <2>2 DEF Written, ld
<1>13. b4 \in Seq(Units) /\ Len(b4) = n
  BY <1>4, <1>11
<1>14. b4[1] = <<"head", h>>
  <2>1. 1 \in 1..n
    BY <1>4, <1>5, <1>12
  <2>2. b0[1] = <<"head", h>>
    BY <2>1 DEF b0
  <2>3. 1 - o1 < 1 /\ 1 - o2 < 1 /\ 1 - o3 < 1 /\ 1 - o4 < 1
    BY <1>3, <1>4, <1>5
  <2> QED
    BY <1>7, <1>8, <1>9, <1>10, <1>11, <2>1, <2>2, <2>3
<1>15. ASSUME NEW i \in 1..t
       PROVE  b4[o1 + i] = m.topic[i]
  <2>1. o1 + i \in 1..n /\ (o1 + i) - o1 = i /\ i \in 1..lt
    BY <1>3, <1>4, <1>5, <1>7, <1>12
  <2>2. (o1 + i) - o2 < 1 /\ (o1 + i) - o3 < 1 /\ (o1 + i) - o4 < 1
    BY <1>3, <1>5, <1>7
  <2> QED
    BY <1>7, <1>8, <1>9, <1>10, <1>11, <2>1, <2>2
<1>16. ASSUME NEW i \in 1..u
       PROVE  b4[o2 + i] = m.sub[i]
  <2>1. o2 + i \in 1..n /\ (o2 + i) - o2 = i /\ i \in 1..lu
    BY <1>3, <1>4, <1>5, <1>7, <1>12
  <2>2. (o2 + i) - o3 < 1 /\ (o2 + i) - o4 < 1
    BY <1>3, <1>5, <1>7
  <2> QED
    BY <1>7, <1>9, <1>10, <1>11, <2>1, <2>2
<1>17. ASSUME NEW i \in 1..v
       PROVE  b4[o3 + i] = m.source[i]
  <2>1. o3 + i \in 1..n /\ (o3 + i) - o3 = i /\ i \in 1..lv
    BY <1>3, <1>4, <1>5, <1>7, <1>12
  <2>2. (o3 + i) - o4 < 1
    BY <1>3, <1>5, <1>7
  <2> QED
    BY <1>7, <1>10, <1>11, <2>1, <2>2
<1>18. ASSUME NEW i \in 1..ld
       PROVE  b4[o4 + i] = m.data[i]
  <2>1. o4 + i \in 1..n /\ (o4 + i) - o4 = i
    BY <1>4, <1>5, <1>7, <1>12
  <2> QED
    BY <1>7, <1>11, <2>1
<1> QED
  BY <1>1, <1>13, <1>14, <1>15, <1>16, <1>17, <1>18 DEF h, n, o1, o2, o3, o4, t, u, v, lt, lu, lv, ld

-----------------------------------------------------------------------------
(* processMessage.                                                         *)

LEMMA FieldType ==
  ASSUME NEW S, NEW b \in Seq(S), NEW o \in Nat, NEW n \in Nat, o + n <= Len(b)
  PROVE  /\ Field(b, o, n) \in Seq(S) /\ Len(Field(b, o, n)) = n
         /\ \A i \in 1..n : Field(b, o, n)[i] = b[o + i]
<1>1. o \in 0..Len(b) /\ o + n \in 0..Len(b) /\ (o + n) - o = n
  OBVIOUS
<1>2. o < o + n <=> n # 0
  OBVIOUS
<1>3. /\ Field(b, o, n) \in Seq(S)
      /\ Len(Field(b, o, n)) = IF o < o + n THEN (o + n) - o ELSE 0
      /\ \A i \in 1..((o + n) - o) : Field(b, o, n)[i] = b[o + i]
  BY <1>1, PartType DEF Field
<1> QED
  BY <1>1, <1>2, <1>3

(* The first n units of t lie in the buffer b behind the offset o.         *)
Lies(b, o, n, t) == \A i \in 1..n : b[o + i] = t[i]

(* A part of the buffer that agrees with t is a prefix of t, or t of it.   *)
LEMMA FieldPrefix ==
  ASSUME NEW S, NEW b \in Seq(S), NEW o \in Nat, NEW n \in Nat, o + n <= Len(b),
         NEW t \in Seq(S)
  PROVE  /\ n <= Len(t) /\ Lies(b, o, n, t) => IsPrefix(Field(b, o, n), t)
         /\ Len(t) <= n /\ Lies(b, o, Len(t), t) => IsPrefix(t, Field(b, o, n))
         /\ n = Len(t) /\ Lies(b, o, n, t) => Field(b, o, n) = t
<1> DEFINE f == Field(b, o, n)
           k == Len(t)
<1>1. f \in Seq(S) /\ Len(f) = n /\ \A i \in 1..n : f[i] = b[o + i]
  BY FieldType
<1>2. k \in Nat
  OBVIOUS
<1> HIDE DEF f, k
<1>3. ASSUME NEW j \in Nat, j <= n, j <= k, \A i \in 1..j : b[o + i] = t[i]
      PROVE  SubSeq(f, 1, j) = SubSeq(t, 1, j)
  <2>1. j \in 0..Len(f) /\ j \in 0..Len(t)
    BY <1>1, <1>2, <1>3 DEF k
  <2>2. SubSeq(f, 1, j) \in Seq(S) /\ Len(SubSeq(f, 1, j)) = j
        /\ \A i \in 1..j : SubSeq(f, 1, j)[i] = f[i]
    BY <1>1, <2>1, FirstOf
  <2>3. SubSeq(t, 1, j) \in Seq(S) /\ Len(SubSeq(t, 1, j)) = j
        /\ \A i \in 1..j : SubSeq(t, 1, j)[i] = t[i]
    BY <2>1, FirstOf
  <2>4. \A i \in 1..j : f[i] = t[i]
    BY <1>1, <1>3
  <2> QED
    BY <2>2, <2>3, <2>4, SeqEqual
<1>4. n <= k /\ (\A i \in 1..n : b[o + i] = t[i]) => IsPrefix(f, t)
  BY <1>1, <1>2, <1>3 DEF IsPrefix, k
<1>5. k <= n /\ (\A i \in 1..k : b[o + i] = t[i]) => IsPrefix(t, f)
  <2> SUFFICES ASSUME k <= n, \A i \in 1..k : b[o + i] = t[i]
               PROVE  IsPrefix(t, f)
    OBVIOUS
  <2>1. SubSeq(f, 1, k) = SubSeq(t, 1, k)
    BY <1>2, <1>3
  <2> QED
    BY <1>1, <2>1 DEF IsPrefix, k
<1>6. n = k /\ (\A i \in 1..n : b[o + i] = t[i]) => f = t
  BY <1>1, SeqEqual DEF k
<1> QED
  BY <1>4, <1>5, <1>6 DEF f, k, Lies

(* What is read of a buffer that begins with a message smaller than the    *)
(* header can say: the message itself if its fields are narrow.            *)
LEMMA ReadEncoded ==
  ASSUME NEW m \in Wire, ~Oversize(m), NEW rest \in Seq(Units)
  PROVE  LET b == Encode(m) \o rest
             d == Decode(b)
         IN  /\ b \in Seq(Units) /\ b # <<>>
             /\ Readable(b) /\ ~Rejected(b) /\ Behind(b) = rest
             /\ IsPrefix(d.topic, m.topic) /\ IsPrefix(d.sub, m.sub)
             /\ IsPrefix(d.source, m.source) /\ IsPrefix(m.data, d.data)
             /\ d.serial = m.serial
             /\ Narrow(m) => d = m
<1> DEFINE h == Header(m)
           e == Encode(m)
           b == e \o rest
           d == Decode(b)
           n == MessageLength(m)
           o1 == TopicOffset(h)
           o2 == SubtopicOffset(h)
           o3 == SourceOffset(h)
           o4 == DataOffset(h)
           t == h.topic
           u == h.sub
           v == h.source
           lt == Len(m.topic)
           lu == Len(m.sub)
           lv == Len(m.source)
           ld == Len(m.data)
<1>1. /\ m.topic \in Seq(Units) /\ m.sub \in Seq(Units)
      /\ m.source \in Seq(Units) /\ m.data \in Seq(Units)
  BY DEF Wire
<1>2. /\ t \in Nat /\ t <= lt /\ u \in Nat /\ u <= lu /\ v \in Nat /\ v <= lv
      /\ lt < LengthWrap => t = lt
      /\ lu < LengthWrap => u = lu
      /\ lv < LengthWrap => v = lv
      /\ h.type = m.type /\ h.serial = m.serial
  BY HeaderType
<1>3. /\ lt \in Nat /\ lu \in Nat /\ lv \in Nat /\ ld \in Nat /\ n \in Nat
      /\ HeaderSize \in Nat /\ HeaderSize >= 1
  BY WireLengths
<1>4. h.length = n
  <2>1. h.length = n % SizeWrap /\ SizeWrap \in Nat \ {0} /\ n < SizeWrap
    BY <1>3, HeaderType, WireAssumption DEF Oversize
  <2> QED
    BY <1>3, <2>1, ModuloType
<1>5. /\ o1 = HeaderSize /\ o2 = HeaderSize + t /\ o3 = HeaderSize + t + u
      /\ o4 = HeaderSize + t + u + v /\ o4 + ld <= n
  BY Offsets
<1>6. n = HeaderSize + lt + lu + lv + ld
  BY DEF MessageLength
<1>7. /\ e \in Seq(Units) /\ Len(e) = n /\ e[1] = <<"head", h>>
      /\ \A i \in 1..t  : e[o1 + i] = m.topic[i]
      /\ \A i \in 1..u  : e[o2 + i] = m.sub[i]
      /\ \A i \in 1..v  : e[o3 + i] = m.source[i]
      /\ \A i \in 1..ld : e[o4 + i] = m.data[i]
  BY EncodeUnits
<1> HIDE DEF h, e, b, n, o1, o2, o3, o4, t, u, v, lt, lu, lv, ld
<1>8. /\ b \in Seq(Units) /\ Len(b) \in Nat /\ Len(b) >= n
      /\ \A i \in 1..n : b[i] = e[i]
  <2>1. /\ b \in Seq(Units) /\ Len(b) = Len(e) + Len(rest)
        /\ \A i \in 1..(Len(e) + Len(rest)) : b[i] = IF i <= Len(e) THEN e[i] ELSE rest[i - Len(e)]
    BY <1>7, ConcatProperties DEF b
  <2>2. Len(rest) \in Nat
    OBVIOUS
  <2> QED
    BY <1>3, <1>7, <2>1, <2>2
<1>9. /\ o1 \in Nat /\ o2 \in Nat /\ o3 \in Nat /\ o4 \in Nat /\ n - o4 \in Nat
      /\ o1 + t <= n /\ o2 + u <= n /\ o3 + v <= n /\ o4 + (n - o4) <= n
      /\ o4 <= n /\ ld <= n - o4 /\ HeaderSize <= n /\ 1 <= n
  BY <1>2, <1>3, <1>5
<1>10. b[1] = <<"head", h>> /\ b[1][1] = "head" /\ b[1][2] = h
  BY <1>3, <1>7, <1>8, <1>9
<1>typed. h.type \in ValidTypes
  BY <1>2 DEF Wire
<1>11. Readable(b) /\ ~Rejected(b) /\ b # <<>>
  BY <1>3, <1>4, <1>8, <1>9, <1>10, <1>typed
     DEF Readable, Rejected, HasHeader, Magic, Corrupt, o4
<1>12. Behind(b) = rest
  <2>1. Behind(b) = SubSeq(e \o rest, Len(e) + 1, Len(e \o rest))
    BY <1>4, <1>7, <1>10 DEF Behind, Consumed, b
  <2> DEFINE q == SubSeq(b, n + 1, Len(b))
  <2>2. /\ q \in Seq(Units) /\ Len(q) = IF n < Len(b) THEN Len(b) - n ELSE 0
        /\ \A i \in 1..(Len(b) - n) : q[i] = b[n + i]
    BY <1>3, <1>8, RestOf
  <2>3. /\ Len(b) = n + Len(rest) /\ Len(rest) \in Nat
        /\ \A i \in 1..(n + Len(rest)) : b[i] = IF i <= n THEN e[i] ELSE rest[i - n]
    <3>1. /\ Len(b) = Len(e) + Len(rest)
          /\ \A i \in 1..(Len(e) + Len(rest)) : b[i] = IF i <= Len(e) THEN e[i] ELSE rest[i - Len(e)]
      BY <1>7, ConcatProperties DEF b
    <3> QED
      BY <1>7, <3>1
  <2> HIDE DEF q
  <2>4. Len(q) = Len(rest)
    BY <1>3, <2>2, <2>3
  <2>5. ASSUME NEW i \in 1..Len(rest)
        PROVE  q[i] = rest[i]
    <3>1. /\ n + i \in 1..(n + Len(rest)) /\ ~(n + i <= n) /\ (n + i) - n = i
          /\ i \in 1..(Len(b) - n)
      BY <1>3, <2>3
    <3>2. b[n + i] = rest[i]
      BY <2>3, <3>1
    <3> QED
      BY <2>2, <3>1, <3>2
  <2>6. q = rest
    BY <2>2, <2>4, <2>5, SeqEqual
  <2> QED
    BY <1>7, <2>1, <2>6 DEF q, b
<1>13. /\ d.topic = Field(b, o1, t) /\ d.sub = Field(b, o2, u)
       /\ d.source = Field(b, o3, v) /\ d.data = Field(b, o4, n - o4)
       /\ d.type = m.type /\ d.serial = m.serial
       /\ d = [topic |-> Field(b, o1, t), sub |-> Field(b, o2, u),
               source |-> Field(b, o3, v), data |-> Field(b, o4, n - o4),
               type |-> m.type, serial |-> m.serial]
  BY <1>2, <1>4, <1>10 DEF Decode, o1, o2, o3, o4, t, u, v
<1>14. /\ \A i \in 1..t  : b[o1 + i] = m.topic[i]
       /\ \A i \in 1..u  : b[o2 + i] = m.sub[i]
       /\ \A i \in 1..v  : b[o3 + i] = m.source[i]
       /\ \A i \in 1..ld : b[o4 + i] = m.data[i]
  <2>1. \A i \in 1..t : o1 + i \in 1..n
    BY <1>2, <1>3, <1>9
  <2>2. \A i \in 1..u : o2 + i \in 1..n
    BY <1>2, <1>3, <1>9
  <2>3. \A i \in 1..v : o3 + i \in 1..n
    BY <1>2, <1>3, <1>9
  <2>4. \A i \in 1..ld : o4 + i \in 1..n
    BY <1>2, <1>3, <1>9
  <2> QED
    BY <1>7, <1>8, <2>1, <2>2, <2>3, <2>4
<1> HIDE DEF d
<1>15. /\ o1 + t <= Len(b) /\ o2 + u <= Len(b) /\ o3 + v <= Len(b)
       /\ o4 + (n - o4) <= Len(b)
  BY <1>2, <1>3, <1>8, <1>9
<1>16. IsPrefix(d.topic, m.topic) /\ (t = lt => d.topic = m.topic)
  <2>1. /\ m.topic \in Seq(Units) /\ b \in Seq(Units) /\ o1 \in Nat /\ t \in Nat
        /\ o1 + t <= Len(b) /\ t <= Len(m.topic)
        /\ Lies(b, o1, t, m.topic)
    BY <1>1, <1>2, <1>8, <1>9, <1>14, <1>15 DEF Lies, lt
  <2>2. /\ IsPrefix(Field(b, o1, t), m.topic)
        /\ t = Len(m.topic) => Field(b, o1, t) = m.topic
    BY <2>1, FieldPrefix
  <2> QED
    BY <1>13, <2>2 DEF lt
<1>17. IsPrefix(d.sub, m.sub) /\ (u = lu => d.sub = m.sub)
  <2>1. /\ m.sub \in Seq(Units) /\ b \in Seq(Units) /\ o2 \in Nat /\ u \in Nat
        /\ o2 + u <= Len(b) /\ u <= Len(m.sub)
        /\ Lies(b, o2, u, m.sub)
    BY <1>1, <1>2, <1>8, <1>9, <1>14, <1>15 DEF Lies, lu
  <2>2. /\ IsPrefix(Field(b, o2, u), m.sub)
        /\ u = Len(m.sub) => Field(b, o2, u) = m.sub
    BY <2>1, FieldPrefix
  <2> QED
    BY <1>13, <2>2 DEF lu
<1>18. IsPrefix(d.source, m.source) /\ (v = lv => d.source = m.source)
  <2>1. /\ m.source \in Seq(Units) /\ b \in Seq(Units) /\ o3 \in Nat /\ v \in Nat
        /\ o3 + v <= Len(b) /\ v <= Len(m.source)
        /\ Lies(b, o3, v, m.source)
    BY <1>1, <1>2, <1>8, <1>9, <1>14, <1>15 DEF Lies, lv
  <2>2. /\ IsPrefix(Field(b, o3, v), m.source)
        /\ v = Len(m.source) => Field(b, o3, v) = m.source
    BY <2>1, FieldPrefix
  <2> QED
    BY <1>13, <2>2 DEF lv
<1>19. IsPrefix(m.data, d.data) /\ (n - o4 = ld => d.data = m.data)
  <2> DEFINE k == n - o4
  <2>1. /\ m.data \in Seq(Units) /\ b \in Seq(Units) /\ o4 \in Nat /\ k \in Nat
        /\ o4 + k <= Len(b) /\ Len(m.data) <= k
        /\ Lies(b, o4, Len(m.data), m.data)
    BY <1>1, <1>3, <1>8, <1>9, <1>14, <1>15 DEF Lies, ld
  <2> HIDE DEF k
  <2>2. /\ IsPrefix(m.data, Field(b, o4, k))
        /\ k = Len(m.data) => Field(b, o4, k) = m.data
    BY <2>1, FieldPrefix
  <2> QED
    BY <1>13, <2>2 DEF ld, k
<1>20. ASSUME Narrow(m)
       PROVE  d = m
  <2>1. t = lt /\ u = lu /\ v = lv
    BY <1>2, <1>20 DEF Narrow, lt, lu, lv
  <2>2. n - o4 = ld
    BY <1>2, <1>3, <1>5, <1>6, <2>1
  <2>3. /\ Field(b, o1, t) = m.topic /\ Field(b, o2, u) = m.sub
        /\ Field(b, o3, v) = m.source /\ Field(b, o4, n - o4) = m.data
    BY <1>13, <1>16, <1>17, <1>18, <1>19, <2>1, <2>2
  <2>4. m = [topic |-> m.topic, sub |-> m.sub, source |-> m.source, data |-> m.data,
             type |-> m.type, serial |-> m.serial]
    BY DEF Wire
  <2> QED
    BY <1>13, <2>3, <2>4
<1> QED
  BY <1>8, <1>11, <1>12, <1>13, <1>16, <1>17, <1>18, <1>19, <1>20 DEF b, e, d

(* Whatever else the buffer holds, what is read of it is small, since the  *)
(* header cannot say more.                                                 *)
LEMMA DecodeType ==
  ASSUME NEW b \in Seq(Units), Readable(b)
  PROVE  /\ Decode(b) \in Small
         /\ Behind(b) \in Seq(Units)
         /\ b # <<>>
<1> DEFINE h == b[1][2]
           t == h.topic
           u == h.sub
           v == h.source
           l == h.length
           o1 == TopicOffset(h)
           o2 == SubtopicOffset(h)
           o3 == SourceOffset(h)
           o4 == DataOffset(h)
           d == Decode(b)
           W == LengthWrap
<1>1. HeaderSize \in Nat /\ HeaderSize >= 1 /\ W \in Nat \ {0} /\ SizeWrap \in Nat \ {0}
  BY WireAssumption
<1>2. Len(b) \in Nat /\ Len(b) >= HeaderSize
  BY DEF Readable, HasHeader
<1>3. h \in Headers
  <2>1. b[1] \in Units /\ b[1][1] = "head"
    BY <1>1, <1>2 DEF Readable, Magic
  <2> QED
    BY <2>1 DEF Units
<1>4. /\ t \in 0..(W - 1) /\ u \in 0..(W - 1) /\ v \in 0..(W - 1)
      /\ l \in 0..(SizeWrap - 1) /\ h.type \in ValidTypes /\ h.serial \in Nat
  BY <1>3 DEF Headers
<1>5. /\ o1 = HeaderSize /\ o2 = HeaderSize + t /\ o3 = HeaderSize + t + u
      /\ o4 = HeaderSize + t + u + v
  BY DEF TopicOffset, SubtopicOffset, SourceOffset, DataOffset
<1>6. ~(o4 > l) /\ Len(b) >= l
  BY DEF Readable, Corrupt
<1>7. /\ d = [topic |-> Field(b, o1, t), sub |-> Field(b, o2, u),
              source |-> Field(b, o3, v), data |-> Field(b, o4, l - o4),
              type |-> h.type, serial |-> h.serial]
      /\ Behind(b) = SubSeq(b, l + 1, Len(b))
  BY DEF Decode, Behind, Consumed
<1>8. b # <<>>
  BY <1>1, <1>2
<1> HIDE DEF h, t, u, v, l, o1, o2, o3, o4, d, W
<1>9. /\ t \in Nat /\ u \in Nat /\ v \in Nat /\ l \in Nat
      /\ t < W /\ u < W /\ v < W /\ l < SizeWrap
      /\ o1 \in Nat /\ o2 \in Nat /\ o3 \in Nat /\ o4 \in Nat /\ l - o4 \in Nat
      /\ o1 + t <= Len(b) /\ o2 + u <= Len(b) /\ o3 + v <= Len(b)
      /\ o4 + (l - o4) <= Len(b)
  <2>1. /\ t \in Nat /\ u \in Nat /\ v \in Nat /\ l \in Nat
        /\ t < W /\ u < W /\ v < W /\ l < SizeWrap
    BY <1>1, <1>4
  <2> QED
    BY <1>1, <1>2, <1>5, <1>6, <2>1
<1>10. /\ Field(b, o1, t) \in Seq(Units) /\ Len(Field(b, o1, t)) = t
       /\ Field(b, o2, u) \in Seq(Units) /\ Len(Field(b, o2, u)) = u
       /\ Field(b, o3, v) \in Seq(Units) /\ Len(Field(b, o3, v)) = v
  BY <1>9, FieldType
<1>11. Field(b, o4, l - o4) \in Seq(Units) /\ Len(Field(b, o4, l - o4)) = l - o4
  BY <1>9, FieldType
<1>12. d \in Wire
  BY <1>4, <1>7, <1>10, <1>11 DEF Wire
<1>13. /\ Len(d.topic) = t /\ Len(d.sub) = u /\ Len(d.source) = v
       /\ Len(d.data) = l - o4
  BY <1>7, <1>10, <1>11
<1>14. Narrow(d)
  BY <1>9, <1>13 DEF Narrow, W
<1>15. ~Oversize(d)
  <2>1. MessageLength(d) = l
    BY <1>1, <1>5, <1>9, <1>13 DEF MessageLength
  <2> QED
    BY <1>1, <1>9, <2>1 DEF Oversize
<1>16. Behind(b) \in Seq(Units)
  BY <1>7, <1>9, RestOf
<1> QED
  BY <1>8, <1>12, <1>14, <1>15, <1>16 DEF Small, d

(* The fields of a message do not depend on its serial number.             *)
LEMMA Renumbered ==
  ASSUME NEW m \in Wire, NEW n \in Nat
  PROVE  LET r == [m EXCEPT !.serial = n]
         IN  /\ r \in Wire /\ r.serial = n /\ r.type = m.type
             /\ r.topic = m.topic /\ r.sub = m.sub /\ r.source = m.source
             /\ r.data = m.data
             /\ MessageLength(r) = MessageLength(m)
             /\ Narrow(r) <=> Narrow(m)
             /\ Oversize(r) <=> Oversize(m)
             /\ n = m.serial => r = m
<1> DEFINE r == [m EXCEPT !.serial = n]
<1>1. /\ r \in Wire /\ r.serial = n /\ r.type = m.type
      /\ r.topic = m.topic /\ r.sub = m.sub /\ r.source = m.source
      /\ r.data = m.data /\ (n = m.serial => r = m)
  BY DEF Wire
<1> HIDE DEF r
<1>2. MessageLength(r) = MessageLength(m)
  BY <1>1 DEF MessageLength
<1>3. Narrow(r) <=> Narrow(m)
  BY <1>1 DEF Narrow
<1>4. Oversize(r) <=> Oversize(m)
  BY <1>2 DEF Oversize
<1> QED
  BY <1>1, <1>2, <1>3, <1>4 DEF r

-----------------------------------------------------------------------------
(* A buffer that holds the messages of s behind the first p.               *)

Frames(s, p) == [k \in 1..(Len(s) - p) |-> Encode(s[p + k])]

Framed(s, p) == FlattenSeq(Frames(s, p))

LEMMA FlattenNone == FlattenSeq(<<>>) = <<>>
BY DEF FlattenSeq

LEMMA FlattenOne ==
  ASSUME NEW S, NEW e \in Seq(S)
  PROVE  FlattenSeq(<<e>>) = e
<1> DEFINE n == <<>>
<1>1. n \in Seq(Seq(S)) /\ n \in Seq(S) /\ FlattenSeq(n) = n
  BY FlattenNone
<1>2. FlattenSeq(Append(n, e)) = FlattenSeq(n) \o e
  BY <1>1, FlattenAppended
<1>3. Append(n, e) = <<e>>
  OBVIOUS
<1>4. n \o e = e
  BY ConcatEmptySeq
<1> QED
  BY <1>1, <1>2, <1>3, <1>4

LEMMA FramesType ==
  ASSUME NEW s \in Seq(Wire), NEW p \in 0..Len(s)
  PROVE  /\ Frames(s, p) \in Seq(Seq(Units)) /\ Len(Frames(s, p)) = Len(s) - p
         /\ \A k \in 1..(Len(s) - p) : Frames(s, p)[k] = Encode(s[p + k])
<1>1. Len(s) - p \in Nat
  OBVIOUS
<1>2. ASSUME NEW k \in 1..(Len(s) - p)
      PROVE  Encode(s[p + k]) \in Seq(Units)
  <2>1. p + k \in 1..Len(s)
    OBVIOUS
  <2>2. s[p + k] \in Wire
    BY <2>1
  <2> QED
    BY <2>2, EncodeUnits
<1> QED
  BY <1>1, <1>2 DEF Frames

LEMMA FramedNone ==
  ASSUME NEW s \in Seq(Wire)
  PROVE  Framed(s, Len(s)) = <<>>
<1>1. Len(Frames(s, Len(s))) = 0 /\ Frames(s, Len(s)) \in Seq(Seq(Units))
  <2>1. Len(s) \in 0..Len(s)
    OBVIOUS
  <2> QED
    BY <2>1, FramesType
<1>2. Frames(s, Len(s)) = <<>>
  BY <1>1
<1> QED
  BY <1>2, FlattenNone DEF Framed

(* A message is added behind those in the buffer.                          *)
LEMMA FramedMore ==
  ASSUME NEW s \in Seq(Wire), NEW p \in 0..Len(s), NEW m \in Wire
  PROVE  Framed(Append(s, m), p) = Framed(s, p) \o Encode(m)
<1> DEFINE t == Append(s, m)
           e == Encode(m)
           f == Frames(s, p)
           g == Frames(t, p)
           n == Len(s) - p
<1>1. /\ t \in Seq(Wire) /\ Len(t) = Len(s) + 1 /\ p \in 0..Len(t) /\ t[Len(s) + 1] = m
      /\ \A i \in 1..Len(s) : t[i] = s[i]
  BY AppendProperties
<1>2. f \in Seq(Seq(Units)) /\ Len(f) = n /\ \A k \in 1..n : f[k] = Encode(s[p + k])
  BY FramesType
<1>3. g \in Seq(Seq(Units)) /\ Len(g) = Len(t) - p /\ \A k \in 1..(Len(t) - p) : g[k] = Encode(t[p + k])
  <2> HIDE DEF t
  <2> QED
    BY <1>1, FramesType
<1>4. n \in Nat /\ Len(t) - p = n + 1 /\ p + (n + 1) = Len(s) + 1
  BY <1>1
<1>5. e \in Seq(Units)
  BY EncodeUnits
<1> HIDE DEF t, e, f, g, n
<1>6. /\ Append(f, e) \in Seq(Seq(Units)) /\ Len(Append(f, e)) = n + 1
      /\ Append(f, e)[n + 1] = e /\ \A k \in 1..n : Append(f, e)[k] = f[k]
  BY <1>2, <1>5, AppendProperties
<1>7. ASSUME NEW k \in 1..(n + 1)
      PROVE  g[k] = Append(f, e)[k]
  <2>1. CASE k = n + 1
    BY <1>1, <1>3, <1>4, <1>6, <2>1 DEF e
  <2>2. CASE k \in 1..n
    <3>1. p + k \in 1..Len(s) /\ k \in 1..(Len(t) - p)
      BY <1>4, <2>2 DEF n
    <3>2. t[p + k] = s[p + k]
      BY <1>1, <3>1
    <3> QED
      BY <1>2, <1>3, <1>6, <2>2, <3>1, <3>2
  <2>3. n \in Nat
    BY <1>4
  <2>4. k = n + 1 \/ k \in 1..n
    BY <2>3
  <2> QED
    BY <2>1, <2>2, <2>4
<1>8. g = Append(f, e)
  BY <1>3, <1>4, <1>6, <1>7, SeqEqual
<1>9. FlattenSeq(Append(f, e)) = FlattenSeq(f) \o e
  BY <1>2, <1>5, FlattenAppended
<1> QED
  BY <1>8, <1>9 DEF Framed, t, e, f, g

(* The buffer begins with the first message that is not read yet.          *)
LEMMA FramedHead ==
  ASSUME NEW s \in Seq(Wire), NEW p \in 0..Len(s), p # Len(s)
  PROVE  /\ s[p + 1] \in Wire /\ p + 1 \in 0..Len(s)
         /\ Framed(s, p + 1) \in Seq(Units)
         /\ Framed(s, p) = Encode(s[p + 1]) \o Framed(s, p + 1)
<1> DEFINE e == Encode(s[p + 1])
           f == Frames(s, p)
           g == Frames(s, p + 1)
           h == <<e>>
           u == h \o g
           n == Len(s) - p
<1>1. p + 1 \in 0..Len(s) /\ p + 1 \in 1..Len(s) /\ n \in Nat /\ n >= 1
  OBVIOUS
<1>2. s[p + 1] \in Wire
  BY <1>1
<1>3. e \in Seq(Units)
  BY <1>2, EncodeUnits
<1>4. f \in Seq(Seq(Units)) /\ Len(f) = n /\ \A k \in 1..n : f[k] = Encode(s[p + k])
  BY FramesType
<1>5. /\ g \in Seq(Seq(Units)) /\ Len(g) = n - 1
      /\ \A k \in 1..(n - 1) : g[k] = Encode(s[(p + 1) + k])
  <2>1. Len(s) - (p + 1) = n - 1
    OBVIOUS
  <2> HIDE DEF n
  <2> QED
    BY <1>1, <2>1, FramesType
<1>6. h \in Seq(Seq(Units)) /\ Len(h) = 1 /\ h[1] = e
  BY <1>3
<1> HIDE DEF e, f, g, h, n
<1>7. /\ u \in Seq(Seq(Units)) /\ Len(u) = Len(h) + Len(g)
      /\ \A i \in 1..(Len(h) + Len(g)) : u[i] = IF i <= Len(h) THEN h[i] ELSE g[i - Len(h)]
  BY <1>5, <1>6, ConcatProperties
<1> HIDE DEF u
<1>8. Len(u) = n
  BY <1>1, <1>5, <1>6, <1>7
<1>9. ASSUME NEW k \in 1..n
      PROVE  f[k] = u[k]
  <2>1. CASE k = 1
    <3>1. f[1] = e
      BY <1>1, <1>4 DEF e
    <3>2. u[1] = h[1]
      BY <1>1, <1>5, <1>6, <1>7
    <3> QED
      BY <1>6, <2>1, <3>1, <3>2
  <2>2. CASE k # 1
    <3>1. k - 1 \in 1..(n - 1) /\ (p + 1) + (k - 1) = p + k /\ ~(k <= 1)
      BY <1>1, <2>2
    <3>2. u[k] = g[k - 1]
      <4>1. k \in 1..(Len(h) + Len(g)) /\ ~(k <= Len(h)) /\ k - Len(h) = k - 1
        BY <1>1, <1>5, <1>6, <3>1
      <4> QED
        BY <1>7, <4>1
    <3>3. g[k - 1] = Encode(s[p + k])
      BY <1>5, <3>1
    <3> QED
      BY <1>4, <3>2, <3>3
  <2> QED
    BY <2>1, <2>2
<1>10. f = u
  BY <1>4, <1>7, <1>8, <1>9, SeqEqual
<1>11. FlattenSeq(h \o g) = FlattenSeq(h) \o FlattenSeq(g)
  BY <1>5, <1>6, FlattenBoth
<1>12. FlattenSeq(h) = e
  BY <1>3, FlattenOne DEF h
<1>13. FlattenSeq(g) \in Seq(Units)
  BY <1>5, FlattenType
<1>14. FlattenSeq(f) = e \o FlattenSeq(g)
  BY <1>10, <1>11, <1>12 DEF u
<1> QED
  BY <1>1, <1>2, <1>13, <1>14 DEF Framed, e, f, g

(* What is in the buffer is read as it was written, message by message.    *)
LEMMA FramedRead ==
  ASSUME NEW s \in Seq(Wire), NEW p \in 0..Len(s), ~Oversize(s[p + 1]), p # Len(s)
  PROVE  LET b == Framed(s, p)
             m == s[p + 1]
             d == Decode(b)
         IN  /\ b # <<>> /\ Readable(b) /\ ~Rejected(b)
             /\ Behind(b) = Framed(s, p + 1)
             /\ IsPrefix(d.topic, m.topic) /\ IsPrefix(d.sub, m.sub)
             /\ IsPrefix(d.source, m.source) /\ IsPrefix(m.data, d.data)
             /\ d.serial = m.serial
             /\ Narrow(m) => d = m
<1>1. /\ s[p + 1] \in Wire /\ Framed(s, p + 1) \in Seq(Units)
      /\ Framed(s, p) = Encode(s[p + 1]) \o Framed(s, p + 1)
  BY FramedHead
<1> QED
  BY <1>1, ReadEncoded

-----------------------------------------------------------------------------
(* Types.                                                                  *)

TypeInv ==
  /\ toServer \in Seq(Units)
  /\ toClient \in Seq(Units)
  /\ lastSerial \in Nat
  /\ sent \in Seq(Wire)
  /\ taken \in Seq(Small)
  /\ got \in Seq(Small)

(* The message as it is written: with a serial number of 32 bits.          *)
OnWire(m) == [m EXCEPT !.serial = @ % SerialWrap]

SentOnWire == [k \in 1..Len(sent) |-> OnWire(sent[k])]

LEMMA OnWireType ==
  ASSUME NEW m \in Wire
  PROVE  /\ OnWire(m) = [m EXCEPT !.serial = m.serial % SerialWrap]
         /\ m.serial % SerialWrap \in Nat /\ m.serial % SerialWrap < SerialWrap
         /\ m.serial < SerialWrap => m.serial % SerialWrap = m.serial
         /\ OnWire(m) \in Wire
<1>1. m.serial \in Nat /\ SerialWrap \in Nat \ {0}
  BY WireAssumption DEF Wire
<1>2. /\ m.serial % SerialWrap \in 0..(SerialWrap - 1)
      /\ m.serial < SerialWrap => m.serial % SerialWrap = m.serial
  BY <1>1, ModuloType
<1>3. \A k \in 0..(SerialWrap - 1) : k \in Nat /\ k < SerialWrap
  BY <1>1
<1>4. OnWire(m) = [m EXCEPT !.serial = m.serial % SerialWrap]
  BY DEF OnWire
<1>5. m.serial % SerialWrap \in Nat
  BY <1>2, <1>3
<1>6. OnWire(m) \in Wire
  BY <1>4, <1>5, Renumbered
<1> QED
  BY <1>2, <1>3, <1>4, <1>6

LEMMA MessageOfType ==
  ASSUME NEW m \in Messages
  PROVE  MessageOf(m) \in Wire
<1>1. /\ m.topic \in Nat /\ m.sub \in Nat /\ m.source \in Nat /\ m.data \in Nat
      /\ m.type \in ValidTypes /\ m.serial \in Nat
  BY WireAssumption
<1>2. \A n \in Nat : /\ Content("topic", n) \in Seq(Units) /\ Content("sub", n) \in Seq(Units)
                    /\ Content("source", n) \in Seq(Units) /\ Content("data", n) \in Seq(Units)
  BY DEF Content, Units
<1> QED
  BY <1>1, <1>2 DEF MessageOf, Wire

LEMMA TypeInvariant == Spec => []TypeInv
<1>1. Init => TypeInv
  BY DEF Init, TypeInv
<1>2. TypeInv /\ [Next]_vars => TypeInv'
  <2> SUFFICES ASSUME TypeInv, [Next]_vars
               PROVE  TypeInv'
    OBVIOUS
  <2>1. ASSUME NEW m \in Messages, Send(m)
        PROVE  TypeInv'
    <3> DEFINE message == MessageOf(m)
               e == Encode(OnWire(message))
    <3>1. message \in Wire
      BY MessageOfType
    <3>2. e \in Seq(Units)
      BY <3>1, OnWireType, EncodeUnits
    <3>3. sent' = Append(sent, message) /\ toServer' = toServer \o e
      BY <2>1 DEF Send, OnWire
    <3> HIDE DEF message, e
    <3>4. sent' \in Seq(Wire)
      BY <3>1, <3>3, AppendProperties DEF TypeInv
    <3>5. toServer' \in Seq(Units)
      BY <3>2, <3>3, ConcatProperties DEF TypeInv
    <3> QED
      BY <2>1, <3>4, <3>5 DEF Send, TypeInv
  <2>2. CASE ServerReads
    <3> DEFINE m == Decode(toServer)
               e == Encode([m EXCEPT !.serial = NextSerial(m)])
    <3>1. m \in Small /\ Behind(toServer) \in Seq(Units)
      BY <2>2, DecodeType DEF ServerReads, TypeInv
    <3>2. NextSerial(m) \in Nat /\ lastSerial + 1 \in Nat
      BY DEF NextSerial, TypeInv
    <3>3. e \in Seq(Units)
      BY <3>1, <3>2, Renumbered, EncodeUnits DEF Small
    <3>4. /\ taken' = Append(taken, m) /\ toServer' = Behind(toServer)
          /\ lastSerial' \in {lastSerial, lastSerial + 1}
          /\ toClient' \in {toClient, toClient \o e}
          /\ UNCHANGED <<broken, old, sent, got>>
      BY <2>2 DEF ServerReads
    <3> HIDE DEF m, e
    <3>5. toClient \o e \in Seq(Units)
      BY <3>3, ConcatProperties DEF TypeInv
    <3>6. Append(taken, m) \in Seq(Small)
      BY <3>1, AppendProperties DEF TypeInv
    <3> QED
      BY <3>1, <3>2, <3>4, <3>5, <3>6 DEF TypeInv
  <2>3. CASE SubscriberReads
    <3>1. Decode(toClient) \in Small /\ Behind(toClient) \in Seq(Units)
      BY <2>3, DecodeType DEF SubscriberReads, TypeInv
    <3>2. Append(got, Decode(toClient)) \in Seq(Small)
      BY <3>1, AppendProperties DEF TypeInv
    <3> QED
      BY <2>3, <3>1, <3>2 DEF SubscriberReads, TypeInv
  <2>4. CASE ServerRejects
    BY <2>4 DEF ServerRejects, TypeInv
  <2>5. ASSUME NEW m \in OldMessages, ReadOld(m)
        PROVE  TypeInv'
    BY <2>5 DEF ReadOld, TypeInv
  <2>6. CASE UNCHANGED vars
    BY <2>6 DEF vars, TypeInv
  <2> QED
    BY <2>1, <2>2, <2>3, <2>4, <2>5, <2>6 DEF Next
<1> QED
  BY <1>1, <1>2, PTL DEF Spec

-----------------------------------------------------------------------------
(* From a client to the server.                                            *)

NoneOversize == \A k \in DOMAIN sent : ~Oversize(sent[k])

(* What has become of the message s when it is read as d.                  *)
Arrived(s, d) ==
  /\ d = s <=> Fits(s)
  /\ IsPrefix(d.topic, s.topic)
  /\ IsPrefix(d.sub, s.sub)
  /\ IsPrefix(d.source, s.source)
  /\ IsPrefix(s.data, d.data)

FramingInv ==
  NoneOversize =>
    /\ ~broken
    /\ Len(taken) <= Len(sent)
    /\ toServer = Framed(SentOnWire, Len(taken))
    /\ \A k \in DOMAIN taken : Arrived(sent[k], taken[k])

LEMMA SentOnWireType ==
  ASSUME TypeInv
  PROVE  /\ SentOnWire \in Seq(Wire) /\ Len(SentOnWire) = Len(sent)
         /\ \A k \in 1..Len(sent) : SentOnWire[k] = OnWire(sent[k])
<1>1. \A k \in 1..Len(sent) : OnWire(sent[k]) \in Wire
  BY OnWireType DEF TypeInv
<1>2. Len(sent) \in Nat
  BY DEF TypeInv
<1> QED
  BY <1>1, <1>2 DEF SentOnWire

(* The message that the server reads next is the next one sent.            *)
LEMMA NextRead ==
  ASSUME TypeInv, FramingInv, NoneOversize, toServer # <<>>
  PROVE  LET p == Len(taken)
             s == sent[p + 1]
             d == Decode(toServer)
         IN  /\ p + 1 \in 1..Len(sent)
             /\ ~Rejected(toServer)
             /\ Behind(toServer) = Framed(SentOnWire, p + 1)
             /\ d \in Small => Arrived(s, d)
<1> DEFINE p == Len(taken)
           s == sent[p + 1]
           w == OnWire(s)
           d == Decode(toServer)
<1>1. /\ SentOnWire \in Seq(Wire) /\ Len(SentOnWire) = Len(sent)
      /\ \A k \in 1..Len(sent) : SentOnWire[k] = OnWire(sent[k])
  BY SentOnWireType
<1>2. p \in 0..Len(sent) /\ toServer = Framed(SentOnWire, p) /\ Len(sent) \in Nat
  BY DEF TypeInv, FramingInv
<1>3. p # Len(sent)
  BY <1>1, <1>2, FramedNone
<1>4. p + 1 \in 1..Len(sent)
  BY <1>2, <1>3
<1>5. s \in Wire /\ SentOnWire[p + 1] = w /\ ~Oversize(s)
  BY <1>1, <1>4 DEF TypeInv, NoneOversize
<1>6. /\ w \in Wire /\ w.topic = s.topic /\ w.sub = s.sub /\ w.source = s.source
      /\ w.data = s.data /\ w.serial = s.serial % SerialWrap
      /\ s.serial % SerialWrap < SerialWrap
      /\ Narrow(w) <=> Narrow(s)
      /\ ~Oversize(w)
      /\ s.serial < SerialWrap => w = s
  <2> DEFINE n == s.serial % SerialWrap
             r == [s EXCEPT !.serial = n]
  <2>1. /\ w = r /\ n \in Nat /\ n < SerialWrap
        /\ s.serial < SerialWrap => n = s.serial
    BY <1>5, OnWireType
  <2> HIDE DEF s, n
  <2>2. /\ r \in Wire /\ r.serial = n /\ r.topic = s.topic /\ r.sub = s.sub
        /\ r.source = s.source /\ r.data = s.data
        /\ Narrow(r) <=> Narrow(s)
        /\ Oversize(r) <=> Oversize(s)
        /\ n = s.serial => r = s
    BY <1>5, <2>1, Renumbered
  <2> QED
    BY <1>5, <2>1, <2>2 DEF n
<1> HIDE DEF p, s, w
<1>7. /\ ~Rejected(toServer) /\ Behind(toServer) = Framed(SentOnWire, p + 1)
      /\ IsPrefix(d.topic, w.topic) /\ IsPrefix(d.sub, w.sub)
      /\ IsPrefix(d.source, w.source) /\ IsPrefix(w.data, d.data)
      /\ d.serial = w.serial
      /\ Narrow(w) => d = w
  BY <1>1, <1>2, <1>3, <1>5, <1>6, FramedRead
<1> HIDE DEF d
<1>8. Fits(s) => d = s
  BY <1>6, <1>7 DEF Fits, Narrow
<1>9. d \in Small /\ d = s => Fits(s)
  BY <1>6, <1>7 DEF Fits, Narrow, Small
<1> QED
  BY <1>4, <1>6, <1>7, <1>8, <1>9 DEF Arrived, p, s, d

LEMMA FramingInvariant == Spec => []FramingInv
<1>1. Init => FramingInv
  <2> SUFFICES ASSUME Init
               PROVE  FramingInv
    OBVIOUS
  <2>1. SentOnWire = <<>>
    BY DEF Init, SentOnWire
  <2>2. <<>> \in Seq(Wire) /\ Len(<<>>) = 0
    OBVIOUS
  <2>3. Framed(<<>>, 0) = <<>>
    BY <2>2, FramedNone
  <2> QED
    BY <2>1, <2>3 DEF Init, FramingInv
<1>2. TypeInv /\ FramingInv /\ [Next]_vars => FramingInv'
  <2> SUFFICES ASSUME TypeInv, FramingInv, [Next]_vars, NoneOversize'
               PROVE  /\ ~broken'
                      /\ Len(taken') <= Len(sent')
                      /\ toServer' = Framed(SentOnWire', Len(taken'))
                      /\ \A k \in DOMAIN taken' : Arrived(sent'[k], taken'[k])
    BY DEF FramingInv
  <2> USE DEF TypeInv
  <2>1. ASSUME NEW m \in Messages, Send(m)
        PROVE  FramingInv'
    <3> DEFINE message == MessageOf(m)
               e == Encode(OnWire(message))
    <3>1. message \in Wire /\ OnWire(message) \in Wire
      BY MessageOfType, OnWireType
    <3>2. sent' = Append(sent, message) /\ toServer' = toServer \o e
      BY <2>1 DEF Send, OnWire
    <3>3. UNCHANGED <<broken, taken>>
      BY <2>1 DEF Send
    <3> HIDE DEF message
    <3>4. /\ sent' \in Seq(Wire) /\ Len(sent') = Len(sent) + 1 /\ Len(sent) \in Nat
          /\ sent'[Len(sent) + 1] = message /\ \A k \in 1..Len(sent) : sent'[k] = sent[k]
      BY <3>1, <3>2, AppendProperties
    <3>5. NoneOversize
      <4>1. DOMAIN sent = 1..Len(sent) /\ DOMAIN sent' = 1..(Len(sent) + 1)
        BY <3>4
      <4>2. ASSUME NEW k \in DOMAIN sent
            PROVE  k \in DOMAIN sent' /\ sent[k] = sent'[k]
        BY <3>4, <4>1
      <4> QED
        BY <4>2 DEF NoneOversize
    <3>6. /\ SentOnWire \in Seq(Wire) /\ Len(SentOnWire) = Len(sent)
          /\ \A k \in 1..Len(sent) : SentOnWire[k] = OnWire(sent[k])
      BY SentOnWireType
    <3>7. SentOnWire' = Append(SentOnWire, OnWire(message))
      <4> DEFINE u == SentOnWire'
                 v == Append(SentOnWire, OnWire(message))
      <4>1. /\ v \in Seq(Wire) /\ Len(v) = Len(sent) + 1 /\ v[Len(sent) + 1] = OnWire(message)
            /\ \A k \in 1..Len(sent) : v[k] = SentOnWire[k]
        BY <3>1, <3>6, AppendProperties
      <4>2. u = [k \in 1..(Len(sent) + 1) |-> OnWire(sent'[k])]
        BY <3>4 DEF SentOnWire
      <4>3. \A k \in 1..(Len(sent) + 1) : k = Len(sent) + 1 \/ k \in 1..Len(sent)
        BY <3>4
      <4>4. \A k \in 1..(Len(sent) + 1) : OnWire(sent'[k]) = v[k]
        BY <3>4, <3>6, <4>1, <4>3
      <4> HIDE DEF v
      <4>5. /\ u \in Seq(Wire) /\ Len(u) = Len(sent) + 1
            /\ \A k \in 1..(Len(sent) + 1) : u[k] = v[k]
        <5> HIDE DEF u
        <5> DEFINE n == Len(sent) + 1
        <5>1. n \in Nat /\ \A k \in 1..n : v[k] \in Wire
          BY <3>4, <4>1
        <5>2. u = [k \in 1..n |-> v[k]]
          BY <4>2, <4>4
        <5> HIDE DEF n
        <5>3. u \in Seq(Wire) /\ Len(u) = n /\ \A k \in 1..n : u[k] = v[k]
          BY <5>1, <5>2
        <5> QED
          BY <5>3 DEF n
      <4>6. u = v
        BY <4>1, <4>5, SeqEqual
      <4> QED
        BY <4>6 DEF v
    <3>8. Framed(Append(SentOnWire, OnWire(message)), Len(taken)) = Framed(SentOnWire, Len(taken)) \o e
      <4>1. Len(taken) \in 0..Len(SentOnWire)
        BY <3>5, <3>6 DEF FramingInv
      <4> QED
        BY <3>1, <3>6, <4>1, FramedMore
    <3>9. \A k \in DOMAIN taken : k \in 1..Len(sent)
      BY <3>5 DEF FramingInv
    <3> QED
      BY <3>2, <3>3, <3>4, <3>5, <3>7, <3>8, <3>9 DEF FramingInv
  <2>2. CASE ServerReads
    <3> DEFINE m == Decode(toServer)
    <3>1. /\ taken' = Append(taken, m) /\ toServer' = Behind(toServer)
          /\ UNCHANGED <<broken, sent>>
      BY <2>2 DEF ServerReads
    <3>2. NoneOversize
      BY <3>1 DEF NoneOversize
    <3>3. toServer # <<>> /\ m \in Small
      BY <2>2, DecodeType DEF ServerReads
    <3>4. /\ Len(taken) + 1 \in 1..Len(sent)
          /\ Behind(toServer) = Framed(SentOnWire, Len(taken) + 1)
          /\ Arrived(sent[Len(taken) + 1], m)
      BY <3>2, <3>3, NextRead
    <3> HIDE DEF m
    <3>5. /\ Len(taken') = Len(taken) + 1 /\ Len(taken) \in Nat
          /\ taken'[Len(taken) + 1] = m /\ \A k \in 1..Len(taken) : taken'[k] = taken[k]
          /\ DOMAIN taken' = 1..(Len(taken) + 1)
      BY <3>1, <3>3, AppendProperties
    <3>6. SentOnWire' = SentOnWire
      BY <3>1 DEF SentOnWire
    <3>7. \A k \in 1..(Len(taken) + 1) : k = Len(taken) + 1 \/ k \in DOMAIN taken
      BY <3>5
    <3>8. \A k \in DOMAIN taken' : Arrived(sent'[k], taken'[k])
      BY <3>1, <3>2, <3>4, <3>5, <3>7 DEF FramingInv
    <3>9. Len(taken') <= Len(sent')
      BY <3>1, <3>4, <3>5
    <3> QED
      BY <3>1, <3>2, <3>4, <3>5, <3>6, <3>8, <3>9 DEF FramingInv
  <2>3. CASE SubscriberReads
    BY <2>3 DEF SubscriberReads, FramingInv, NoneOversize, SentOnWire
  <2>4. CASE ServerRejects
    <3>1. NoneOversize
      BY <2>4 DEF ServerRejects, NoneOversize
    <3>2. toServer # <<>> /\ Rejected(toServer)
      BY <2>4, WireAssumption DEF ServerRejects, Rejected, HasHeader
    <3> QED
      BY <3>1, <3>2, NextRead
  <2>5. ASSUME NEW m \in OldMessages, ReadOld(m)
        PROVE  FramingInv'
    BY <2>5 DEF ReadOld, FramingInv, NoneOversize, SentOnWire
  <2>6. CASE UNCHANGED vars
    BY <2>6 DEF vars, FramingInv, NoneOversize, SentOnWire
  <2> QED
    BY <2>1, <2>2, <2>3, <2>4, <2>5, <2>6 DEF Next, FramingInv
<1> QED
  BY <1>1, <1>2, TypeInvariant, PTL DEF Spec

-----------------------------------------------------------------------------
(* From the server to the subscriber.                                      *)

DataIf(m) == IF m.type = "Data" THEN <<m>> ELSE <<>>

DataPieces == [k \in DOMAIN taken |-> DataIf(taken[k])]

(* The data messages that the server has read.                             *)
DataTaken == FlattenSeq(DataPieces)

Numbered(s) == [k \in 1..Len(s) |-> [s[k] EXCEPT !.serial = k]]

ForwardInv ==
  /\ lastSerial = Len(DataTaken)
  /\ Len(got) <= lastSerial
  /\ toClient = Framed(Numbered(DataTaken), Len(got))
  /\ \A k \in 1..Len(got) : got[k] = Numbered(DataTaken)[k]

LEMMA DataPiecesType ==
  ASSUME TypeInv
  PROVE  DataPieces \in Seq(Seq(Small)) /\ DataTaken \in Seq(Small)
<1>1. DOMAIN taken = 1..Len(taken) /\ Len(taken) \in Nat
  BY DEF TypeInv
<1>2. ASSUME NEW k \in 1..Len(taken)
      PROVE  DataIf(taken[k]) \in Seq(Small)
  <2>1. taken[k] \in Small
    BY DEF TypeInv
  <2> QED
    BY <2>1 DEF DataIf
<1>3. DataPieces \in Seq(Seq(Small))
  BY <1>1, <1>2 DEF DataPieces
<1> QED
  BY <1>3, FlattenType DEF DataTaken

LEMMA DataTakenMore ==
  ASSUME TypeInv, NEW m \in Small, taken' = Append(taken, m)
  PROVE  DataTaken' = DataTaken \o DataIf(m)
<1> DEFINE n == Len(taken)
           d == DataIf(m)
           p == DataPieces
           u == DataPieces'
           v == Append(p, d)
<1>1. n \in Nat /\ DOMAIN taken = 1..n
  BY DEF TypeInv
<1>2. /\ Len(taken') = n + 1 /\ DOMAIN taken' = 1..(n + 1) /\ taken'[n + 1] = m
      /\ \A k \in 1..n : taken'[k] = taken[k]
  BY <1>1, AppendProperties DEF TypeInv
<1>3. p \in Seq(Seq(Small)) /\ Len(p) = n /\ \A k \in 1..n : p[k] = DataIf(taken[k])
  <2>1. p = [k \in 1..n |-> DataIf(taken[k])]
    BY <1>1 DEF DataPieces
  <2>2. p \in Seq(Seq(Small))
    BY DataPiecesType
  <2> HIDE DEF p, n
  <2> QED
    BY <1>1, <2>1, <2>2
<1>4. d \in Seq(Small)
  BY DEF DataIf
<1>5. u = [k \in 1..(n + 1) |-> DataIf(taken'[k])]
  BY <1>2 DEF DataPieces
<1> HIDE DEF n, d, p, u
<1>6. /\ v \in Seq(Seq(Small)) /\ Len(v) = n + 1 /\ v[n + 1] = d
      /\ \A k \in 1..n : v[k] = p[k]
  BY <1>3, <1>4, AppendProperties
<1> HIDE DEF v
<1>7. ASSUME NEW k \in 1..(n + 1)
      PROVE  DataIf(taken'[k]) = v[k]
  <2>1. k = n + 1 \/ k \in 1..n
    BY <1>1
  <2> QED
    BY <1>2, <1>3, <1>6, <2>1 DEF d
<1>8. u = [k \in 1..(n + 1) |-> v[k]]
  BY <1>5, <1>7
<1>9. u = v
  <2> DEFINE l == n + 1
  <2>1. l \in Nat /\ v \in Seq(Seq(Small)) /\ Len(v) = l /\ u = [k \in 1..l |-> v[k]]
    BY <1>1, <1>6, <1>8
  <2> HIDE DEF l
  <2>2. u \in Seq(Seq(Small)) /\ Len(u) = l /\ \A k \in 1..l : u[k] = v[k]
    BY <2>1
  <2> QED
    BY <2>1, <2>2, SeqEqual
<1>10. FlattenSeq(v) = FlattenSeq(p) \o d
  BY <1>3, <1>4, FlattenAppended DEF v
<1> QED
  BY <1>9, <1>10 DEF DataTaken, d, p, u

LEMMA NumberedType ==
  ASSUME NEW s \in Seq(Small)
  PROVE  /\ Numbered(s) \in Seq(Wire) /\ Len(Numbered(s)) = Len(s)
         /\ \A k \in 1..Len(s) : /\ Numbered(s)[k] = [s[k] EXCEPT !.serial = k]
                                /\ Numbered(s)[k] \in Small
<1>1. ASSUME NEW k \in 1..Len(s)
      PROVE  [s[k] EXCEPT !.serial = k] \in Small
  <2>1. s[k] \in Wire /\ Narrow(s[k]) /\ ~Oversize(s[k]) /\ k \in Nat
    BY DEF Small
  <2> QED
    BY <2>1, Renumbered DEF Small
<1>2. Numbered(s) \in Seq(Small) /\ Len(Numbered(s)) = Len(s)
  BY <1>1 DEF Numbered
<1>3. Numbered(s) \in Seq(Wire)
  BY <1>2 DEF Small
<1> QED
  BY <1>1, <1>2, <1>3 DEF Numbered

LEMMA NumberedMore ==
  ASSUME NEW s \in Seq(Small), NEW m \in Small
  PROVE  Numbered(Append(s, m)) = Append(Numbered(s), [m EXCEPT !.serial = Len(s) + 1])
<1> DEFINE n == Len(s)
           e == [m EXCEPT !.serial = n + 1]
           t == Append(s, m)
           q == Numbered(s)
           u == Numbered(t)
           v == Append(q, e)
<1>1. n \in Nat /\ t \in Seq(Small) /\ Len(t) = n + 1 /\ t[n + 1] = m
      /\ \A k \in 1..n : t[k] = s[k]
  BY AppendProperties
<1>2. /\ q \in Seq(Wire) /\ Len(q) = n
      /\ \A k \in 1..n : q[k] = [s[k] EXCEPT !.serial = k]
  BY NumberedType
<1>3. e \in Wire
  <2>1. m \in Wire /\ n + 1 \in Nat
    BY <1>1 DEF Small
  <2> QED
    BY <2>1, Renumbered, Zenon
<1>4. u \in Seq(Wire) /\ Len(u) = n + 1
      /\ \A k \in 1..(n + 1) : u[k] = [t[k] EXCEPT !.serial = k]
  <2> HIDE DEF t
  <2> QED
    BY <1>1, NumberedType
<1> HIDE DEF n, e, t, q, u
<1>5. v \in Seq(Wire) /\ Len(v) = n + 1 /\ v[n + 1] = e /\ \A k \in 1..n : v[k] = q[k]
  BY <1>2, <1>3, AppendProperties
<1> HIDE DEF v
<1>6. ASSUME NEW k \in 1..(n + 1)
      PROVE  u[k] = v[k]
  <2>1. u[k] = [t[k] EXCEPT !.serial = k]
    BY <1>4
  <2>2. CASE k = n + 1
    <3>1. u[k] = [m EXCEPT !.serial = n + 1]
      BY <1>1, <2>1, <2>2
    <3> QED
      BY <1>5, <2>2, <3>1 DEF e
  <2>3. CASE k \in 1..n
    <3>1. t[k] = s[k] /\ v[k] = q[k] /\ q[k] = [s[k] EXCEPT !.serial = k]
      BY <1>1, <1>2, <1>5, <2>3
    <3> QED
      BY <2>1, <3>1
  <2>4. k = n + 1 \/ k \in 1..n
    BY <1>1
  <2> QED
    BY <2>2, <2>3, <2>4
<1>7. u = v
  BY <1>4, <1>5, <1>6, SeqEqual
<1> QED
  BY <1>7 DEF n, e, t, q, u, v

(* The subscriber reads the next data message, as it has been numbered.    *)
LEMMA NextGot ==
  ASSUME TypeInv, ForwardInv, toClient # <<>>
  PROVE  LET p == Len(got)
         IN  /\ p + 1 \in 1..lastSerial
             /\ Readable(toClient)
             /\ Behind(toClient) = Framed(Numbered(DataTaken), p + 1)
             /\ Decode(toClient) = Numbered(DataTaken)[p + 1]
<1> DEFINE p == Len(got)
           s == Numbered(DataTaken)
<1>1. /\ s \in Seq(Wire) /\ Len(s) = lastSerial
      /\ \A k \in 1..lastSerial : s[k] \in Small
  BY DataPiecesType, NumberedType DEF ForwardInv
<1>2. p \in 0..lastSerial /\ toClient = Framed(s, p) /\ lastSerial \in Nat
  BY DEF TypeInv, ForwardInv
<1> HIDE DEF p, s
<1>3. p # lastSerial
  BY <1>1, <1>2, FramedNone
<1>4. p + 1 \in 1..lastSerial
  BY <1>2, <1>3
<1>5. ~Oversize(s[p + 1]) /\ Narrow(s[p + 1])
  BY <1>1, <1>4 DEF Small
<1>6. /\ Readable(toClient) /\ Behind(toClient) = Framed(s, p + 1)
      /\ Decode(toClient) = s[p + 1]
  BY <1>1, <1>2, <1>3, <1>5, FramedRead
<1> QED
  BY <1>4, <1>6 DEF p, s

LEMMA ForwardInvariant == Spec => []ForwardInv
<1>1. Init => ForwardInv
  <2> SUFFICES ASSUME Init
               PROVE  ForwardInv
    OBVIOUS
  <2>1. DataPieces = <<>>
    BY DEF Init, DataPieces
  <2>2. DataTaken = <<>>
    BY <2>1, FlattenNone DEF DataTaken
  <2>3. Numbered(<<>>) = <<>>
    BY DEF Numbered
  <2>4. <<>> \in Seq(Wire) /\ Len(<<>>) = 0
    OBVIOUS
  <2>5. Framed(<<>>, 0) = <<>>
    BY <2>4, FramedNone
  <2> QED
    BY <2>2, <2>3, <2>4, <2>5 DEF Init, ForwardInv
<1>2. TypeInv /\ ForwardInv /\ [Next]_vars => ForwardInv'
  <2> SUFFICES ASSUME TypeInv, ForwardInv, [Next]_vars
               PROVE  ForwardInv'
    OBVIOUS
  <2>1. ASSUME UNCHANGED <<toClient, lastSerial, taken, got>>
        PROVE  ForwardInv'
    BY <2>1 DEF ForwardInv, DataTaken, DataPieces
  <2>2. CASE ServerReads
    <3> DEFINE m == Decode(toServer)
               e == [m EXCEPT !.serial = lastSerial + 1]
    <3>1. /\ taken' = Append(taken, m) /\ got' = got
          /\ m.type = "Data" => /\ lastSerial' = lastSerial + 1
                                /\ toClient' = toClient \o Encode(e)
          /\ m.type # "Data" => UNCHANGED <<lastSerial, toClient>>
      BY <2>2 DEF ServerReads, NextSerial
    <3>2. m \in Small
      BY <2>2, DecodeType DEF ServerReads, TypeInv
    <3> HIDE DEF m
    <3>3. DataTaken \in Seq(Small) /\ DataTaken' = DataTaken \o DataIf(m)
      BY <3>1, <3>2, DataPiecesType, DataTakenMore
    <3>4. lastSerial \in Nat /\ lastSerial = Len(DataTaken)
          /\ Len(got) \in 0..lastSerial /\ toClient = Framed(Numbered(DataTaken), Len(got))
      BY DEF TypeInv, ForwardInv
    <3>5. CASE m.type = "Data"
      <4>1. DataTaken' = Append(DataTaken, m)
        BY <3>2, <3>3, <3>5 DEF DataIf
      <4>2. Numbered(DataTaken)' = Append(Numbered(DataTaken), e)
        <5>1. Numbered(DataTaken)' = Numbered(DataTaken')
          BY DEF Numbered
        <5> QED
          BY <3>2, <3>3, <3>4, <4>1, <5>1, NumberedMore
      <4>3. e \in Wire
        BY <3>2, <3>4, Renumbered DEF Small
      <4>4. Numbered(DataTaken) \in Seq(Wire) /\ Len(Numbered(DataTaken)) = lastSerial
        BY <3>3, <3>4, NumberedType
      <4> DEFINE s == Numbered(DataTaken)
      <4> HIDE DEF e, s
      <4>5. Framed(Append(s, e), Len(got)) = Framed(s, Len(got)) \o Encode(e)
        BY <3>4, <4>3, <4>4, FramedMore DEF s
      <4>6. \A k \in 1..Len(got) : Append(s, e)[k] = s[k]
        BY <3>4, <4>3, <4>4, AppendProperties DEF s
      <4>7. Len(DataTaken') = lastSerial + 1
        BY <3>2, <3>3, <3>4, <4>1, AppendProperties
      <4>8. Len(got) <= lastSerial + 1
        BY <3>4
      <4> QED
        BY <3>1, <3>4, <3>5, <4>2, <4>5, <4>6, <4>7, <4>8 DEF ForwardInv, s
    <3>6. CASE m.type # "Data"
      <4>1. DataTaken' = DataTaken
        BY <3>3, <3>6, ConcatEmptySeq DEF DataIf
      <4> QED
        BY <3>1, <3>6, <4>1 DEF ForwardInv, Numbered
    <3> QED
      BY <3>5, <3>6
  <2>3. CASE SubscriberReads
    <3>1. /\ got' = Append(got, Decode(toClient)) /\ toClient' = Behind(toClient)
          /\ UNCHANGED <<taken, lastSerial>> /\ toClient # <<>>
      BY <2>3, DecodeType DEF SubscriberReads, TypeInv
    <3>2. DataTaken' = DataTaken /\ Numbered(DataTaken)' = Numbered(DataTaken)
      BY <3>1 DEF DataTaken, DataPieces, Numbered
    <3>3. /\ Len(got) + 1 \in 1..lastSerial
          /\ Behind(toClient) = Framed(Numbered(DataTaken), Len(got) + 1)
          /\ Decode(toClient) = Numbered(DataTaken)[Len(got) + 1]
      BY <3>1, NextGot
    <3> DEFINE d == Decode(toClient)
    <3>4. d \in Small
      BY <2>3, DecodeType DEF SubscriberReads, TypeInv
    <3> HIDE DEF d
    <3>5. /\ Len(got') = Len(got) + 1 /\ got'[Len(got) + 1] = d /\ Len(got) \in Nat
          /\ \A k \in 1..Len(got) : got'[k] = got[k]
      BY <3>1, <3>4, AppendProperties DEF TypeInv, d
    <3>6. ASSUME NEW k \in 1..Len(got')
          PROVE  got'[k] = Numbered(DataTaken)[k]
      <4>1. k = Len(got) + 1 \/ k \in 1..Len(got)
        BY <3>5
      <4> QED
        BY <3>3, <3>5, <4>1 DEF ForwardInv, d
    <3>7. Len(got') <= lastSerial
      BY <3>3, <3>5 DEF TypeInv
    <3> QED
      BY <3>1, <3>2, <3>3, <3>5, <3>6, <3>7 DEF ForwardInv
  <2>4. ASSUME NEW m \in Messages, Send(m)
        PROVE  ForwardInv'
    BY <2>1, <2>4 DEF Send
  <2>5. CASE ServerRejects
    BY <2>1, <2>5 DEF ServerRejects
  <2>6. ASSUME NEW m \in OldMessages, ReadOld(m)
        PROVE  ForwardInv'
    BY <2>1, <2>6 DEF ReadOld
  <2>7. CASE UNCHANGED vars
    BY <2>1, <2>7 DEF vars
  <2> QED
    BY <2>2, <2>3, <2>4, <2>5, <2>6, <2>7 DEF Next
<1> QED
  BY <1>1, <1>2, TypeInvariant, PTL DEF Spec

-----------------------------------------------------------------------------
(* The old format.                                                         *)

OldInv ==
  \A r \in old : IF r.outcome = "corrupt"
                   THEN r.of.data < HeaderSize - Header1Size
                   ELSE OldShifted(r.of, r.as)

LEMMA OldUnits ==
  ASSUME NEW m \in OldMessages
  PROVE  LET h == [length |-> Header1Size + m.topic + m.data, topic |-> m.topic]
             body == Content("topic", m.topic) \o Content("data", m.data)
             S == ({"head1"} \X {h}) \cup ({"topic", "data"} \X Nat)
         IN  /\ body \in Seq(S) /\ Len(body) = m.topic + m.data
             /\ Encoded1(m) \in Seq(S) /\ Len(Encoded1(m)) = Header1Size + m.topic + m.data
             /\ Encoded1(m)[1][2] = h
             /\ \A i \in 1..(m.topic + m.data) : Encoded1(m)[Header1Size + i] = body[i]
<1> DEFINE h == [length |-> Header1Size + m.topic + m.data, topic |-> m.topic]
           S == ({"head1"} \X {h}) \cup ({"topic", "data"} \X Nat)
           a == [i \in 1..Header1Size |-> <<"head1", h>>]
           t == Content("topic", m.topic)
           d == Content("data", m.data)
           body == t \o d
           nt == m.topic
           nd == m.data
           b == (a \o t) \o d
<1>1. nt \in Nat /\ nd \in Nat /\ Header1Size \in Nat /\ Header1Size >= 1
  BY WireAssumption
<1>2. a \in Seq(S) /\ Len(a) = Header1Size /\ \A i \in 1..Header1Size : a[i] = <<"head1", h>>
  <2> HIDE DEF h
  <2> QED
    BY <1>1
<1>3. t \in Seq(S) /\ Len(t) = nt
  BY <1>1 DEF Content
<1>4. d \in Seq(S) /\ Len(d) = nd
  BY <1>1 DEF Content
<1>5. Encoded1(m) = b
  BY DEF Encoded1
<1> HIDE DEF h, S, a, t, d, nt, nd
<1>6. body \in Seq(S) /\ Len(body) = nt + nd
  BY <1>3, <1>4, ConcatProperties
<1>7. (a \o t) \o d = a \o (t \o d)
  <2>1. Associative(S)
    BY ConcatIsAssociative
  <2> QED
    BY <1>2, <1>3, <1>4, <2>1, Zenon DEF Associative
<1> HIDE DEF body
<1> DEFINE q == a \o body
<1>8. /\ q \in Seq(S) /\ Len(q) = Len(a) + Len(body)
      /\ \A i \in 1..(Len(a) + Len(body)) : q[i] = IF i <= Len(a) THEN a[i] ELSE body[i - Len(a)]
  BY <1>2, <1>6, ConcatProperties
<1>9. b = q
  BY <1>7 DEF body
<1> HIDE DEF q, b
<1>10. Len(q) = Header1Size + nt + nd /\ q[1] = <<"head1", h>>
  <2>1. 1 \in 1..(Len(a) + Len(body)) /\ 1 <= Len(a)
    BY <1>1, <1>2, <1>6
  <2> QED
    BY <1>1, <1>2, <1>6, <1>8, <2>1
<1>11. ASSUME NEW i \in 1..(nt + nd)
       PROVE  q[Header1Size + i] = body[i]
  <2>1. /\ Header1Size + i \in 1..(Len(a) + Len(body)) /\ ~(Header1Size + i <= Len(a))
        /\ (Header1Size + i) - Len(a) = i
    BY <1>1, <1>2, <1>6
  <2> QED
    BY <1>8, <2>1
<1>12. q[1][2] = h
  BY <1>10
<1> QED
  BY <1>5, <1>6, <1>8, <1>9, <1>10, <1>11, <1>12 DEF h, S, t, d, body, nt, nd

LEMMA OldRead ==
  ASSUME NEW m \in OldMessages
  PROVE  LET b == Encoded1(m)
             h == b[1][2]
         IN  IF DataOffset1(h) > h.length
               THEN m.data < HeaderSize - Header1Size
               ELSE OldShifted(m, Decode1(b))
<1> DEFINE h == [length |-> Header1Size + m.topic + m.data, topic |-> m.topic]
           body == Content("topic", m.topic) \o Content("data", m.data)
           S == ({"head1"} \X {h}) \cup ({"topic", "data"} \X Nat)
           b == Encoded1(m)
           nt == m.topic
           nd == m.data
           H == HeaderSize
           H1 == Header1Size
           x == H - H1
           l == H1 + nt + nd
<1>1. nt \in Nat /\ nd \in Nat /\ H1 \in Nat /\ H \in Nat /\ H1 <= H
  BY WireAssumption
<1>2. /\ body \in Seq(S) /\ Len(body) = nt + nd
      /\ b \in Seq(S) /\ Len(b) = H1 + nt + nd
      /\ b[1][2] = h
      /\ \A i \in 1..(nt + nd) : b[H1 + i] = body[i]
  BY OldUnits
<1>3. DataOffset1(h) = H + nt /\ TopicOffset1 = H /\ h.length = l /\ h.topic = nt
  BY DEF DataOffset1, TopicOffset1
<1>4. /\ Decode1(b).topic = Field(b, H, nt)
      /\ Decode1(b).data = Field(b, H + nt, l - (H + nt))
  BY <1>2, <1>3 DEF Decode1
<1> HIDE DEF h, body, S, b, nt, nd, H, H1
<1>5. ASSUME H + nt > l
      PROVE  nd < x
  BY <1>1, <1>5
<1>6. ASSUME ~(H + nt > l)
      PROVE  OldShifted(m, Decode1(b))
  <2> DEFINE f == Field(b, H, nt)
             n == l - (H + nt)
             g == Field(b, H + nt, n)
             u == f \o g
             w == SubSeq(body, x + 1, Len(body))
  <2>1. n \in Nat /\ H + nt + n = l /\ l = Len(b) /\ x \in Nat /\ H = H1 + x
        /\ nt + n = nt + nd - x /\ x <= nt + nd /\ H + nt \in Nat /\ H + nt <= Len(b)
    BY <1>1, <1>2, <1>6
  <2> HIDE DEF n, l, x
  <2>2. f \in Seq(S) /\ Len(f) = nt /\ \A i \in 1..nt : f[i] = b[H + i]
    BY <1>1, <1>2, <2>1, FieldType
  <2>3. g \in Seq(S) /\ Len(g) = n /\ \A i \in 1..n : g[i] = b[(H + nt) + i]
    BY <1>1, <1>2, <2>1, FieldType
  <2> HIDE DEF f, g
  <2>4. /\ u \in Seq(S) /\ Len(u) = Len(f) + Len(g)
        /\ \A i \in 1..(Len(f) + Len(g)) : u[i] = IF i <= Len(f) THEN f[i] ELSE g[i - Len(f)]
    BY <2>2, <2>3, ConcatProperties
  <2>5. /\ w \in Seq(S) /\ Len(w) = IF x < Len(body) THEN Len(body) - x ELSE 0
        /\ \A i \in 1..(Len(body) - x) : w[i] = body[x + i]
    BY <1>2, <2>1, RestOf
  <2> HIDE DEF u, w
  <2>6. Len(u) = nt + n /\ Len(w) = nt + n
    BY <1>1, <1>2, <2>1, <2>2, <2>3, <2>4, <2>5
  <2>7. ASSUME NEW i \in 1..(nt + n)
        PROVE  u[i] = w[i]
    <3>1. u[i] = b[H + i]
      <4>1. i \in 1..(Len(f) + Len(g))
        BY <2>2, <2>3
      <4>2. CASE i <= nt
        BY <1>1, <2>2, <2>4, <4>1, <4>2
      <4>3. CASE ~(i <= nt)
        <5>1. i - nt \in 1..n /\ (H + nt) + (i - nt) = H + i
          BY <1>1, <2>1, <4>3
        <5>2. u[i] = g[i - nt]
          BY <2>2, <2>4, <4>1, <4>3
        <5> QED
          BY <2>3, <5>1, <5>2
      <4> QED
        BY <4>2, <4>3
    <3>2. /\ x + i \in 1..(nt + nd) /\ H + i = H1 + (x + i)
          /\ i \in 1..(Len(body) - x)
      BY <1>1, <1>2, <2>1
    <3>3. b[H + i] = body[x + i]
      BY <1>2, <3>2
    <3>4. w[i] = body[x + i]
      BY <2>5, <3>2
    <3> QED
      BY <3>1, <3>3, <3>4
  <2>8. u = w
    BY <2>4, <2>5, <2>6, <2>7, SeqEqual
  <2>9. Len(f) = m.topic /\ Decode1(b).topic = f /\ Decode1(b).data = g
    BY <1>4, <2>2 DEF f, g, n, nt
  <2> QED
    BY <2>8, <2>9 DEF OldShifted, u, w, body, x, H, H1
<1> QED
  BY <1>2, <1>3, <1>5, <1>6 DEF b, nd, H, H1

LEMMA OldInvariant == Spec => []OldInv
<1>1. Init => OldInv
  BY DEF Init, OldInv
<1>2. OldInv /\ [Next]_vars => OldInv'
  <2> SUFFICES ASSUME OldInv, [Next]_vars
               PROVE  OldInv'
    OBVIOUS
  <2>1. ASSUME NEW m \in OldMessages, ReadOld(m)
        PROVE  OldInv'
    <3> DEFINE b == Encoded1(m)
               h == b[1][2]
               r == IF DataOffset1(h) > h.length
                      THEN [of |-> m, outcome |-> "corrupt"]
                      ELSE [of |-> m, outcome |-> "read", as |-> Decode1(b)]
    <3>1. old' = old \cup {r}
      BY <2>1 DEF ReadOld
    <3>2. IF DataOffset1(h) > h.length
            THEN m.data < HeaderSize - Header1Size
            ELSE OldShifted(m, Decode1(b))
      BY OldRead
    <3> HIDE DEF h, b
    <3>3. CASE DataOffset1(h) > h.length
      <4>1. r.outcome = "corrupt" /\ r.of = m
        BY <3>3
      <4> QED
        BY <3>1, <3>2, <3>3, <4>1 DEF OldInv
    <3>4. CASE ~(DataOffset1(h) > h.length)
      <4>1. r.outcome = "read" /\ r.of = m /\ r.as = Decode1(b)
        BY <3>4
      <4> QED
        BY <3>1, <3>2, <3>4, <4>1 DEF OldInv
    <3> QED
      BY <3>3, <3>4
  <2>2. CASE UNCHANGED old
    BY <2>2 DEF OldInv
  <2> QED
    BY <2>1, <2>2 DEF Next, Send, ServerReads, SubscriberReads, ServerRejects, vars
<1> QED
  BY <1>1, <1>2, PTL DEF Spec

-----------------------------------------------------------------------------

(* appendTo never writes behind the bytes it has added, and as long as no  *)
(* message is larger than the header can say, the buffer that the server   *)
(* reads is cut where one message ends and the next begins.                *)
THEOREM FramingIsKept == Spec => []FramingKept
<1>1. TypeInv /\ FramingInv => FramingKept
  <2> SUFFICES ASSUME TypeInv, FramingInv
               PROVE  FramingKept
    OBVIOUS
  <2>1. ASSUME NEW k \in DOMAIN sent, NEW copy \in ToSet(Copies(sent[k]))
        PROVE  copy[1] + Len(copy[2]) <= MessageLength(sent[k])
    <3> DEFINE m == sent[k]
    <3>1. m \in Wire
      BY DEF TypeInv
    <3> HIDE DEF m
    <3>2. copy \in {<<TopicOffset(Header(m)), m.topic>>, <<SubtopicOffset(Header(m)), m.sub>>,
                    <<SourceOffset(Header(m)), m.source>>, <<DataOffset(Header(m)), m.data>>}
      BY <2>1 DEF ToSet, Copies, m
    <3>3. copy[1] + Len(copy[2]) <= MessageLength(m)
      BY <3>1, <3>2, Offsets
    <3> QED
      BY <3>3 DEF m
  <2>2. ASSUME NoneOversize
        PROVE  /\ ~broken
               /\ toServer = FlattenSeq([k \in 1..(Len(sent) - Len(taken)) |->
                    Encode([sent[Len(taken) + k] EXCEPT !.serial = @ % SerialWrap])])
    <3> DEFINE p == Len(taken)
               n == Len(sent) - p
    <3>1. ~broken /\ toServer = Framed(SentOnWire, p) /\ p \in 0..Len(sent)
      BY <2>2 DEF TypeInv, FramingInv
    <3>2. /\ Len(SentOnWire) = Len(sent)
          /\ \A k \in 1..Len(sent) : SentOnWire[k] = OnWire(sent[k])
      BY SentOnWireType
    <3>3. \A k \in 1..n : SentOnWire[p + k] = OnWire(sent[p + k])
      <4>1. \A k \in 1..n : p + k \in 1..Len(sent)
        BY <3>1
      <4> QED
        BY <3>2, <4>1
    <3> HIDE DEF p
    <3>4. Frames(SentOnWire, p) = [k \in 1..n |-> Encode(OnWire(sent[p + k]))]
      BY <3>2, <3>3 DEF Frames
    <3> QED
      BY <3>1, <3>4 DEF Framed, OnWire, p
  <2> QED
    BY <2>1, <2>2 DEF FramingKept, NoneOversize
<1> QED
  BY <1>1, TypeInvariant, FramingInvariant, PTL

(* A message arrives unchanged exactly if its fields fit the header, and   *)
(* one of the old format is shifted.                                       *)
THEOREM ArrivesAsSent == Spec => []RoundTrip
<1>1. FramingInv /\ OldInv => RoundTrip
  BY DEF FramingInv, NoneOversize, Arrived, OldInv, RoundTrip
<1> QED
  BY <1>1, FramingInvariant, OldInvariant, PTL

(* A subscriber reads the data messages as the server has, numbered one by *)
(* one, and its own buffer is never corrupt.                               *)
THEOREM ForwardsAsRead == Spec => []Forwarded
<1>1. TypeInv /\ ForwardInv => Forwarded
  <2> SUFFICES ASSUME TypeInv, ForwardInv
               PROVE  Forwarded
    OBVIOUS
  <2> DEFINE data == FlattenSeq([k \in DOMAIN taken |->
                       IF taken[k].type = "Data" THEN <<taken[k]>> ELSE <<>>])
  <2>1. data = DataTaken
    BY DEF DataTaken, DataPieces, DataIf
  <2>2. toClient # <<>> => Readable(toClient)
    BY NextGot
  <2>3. Len(got) <= Len(DataTaken) /\ Len(DataTaken) \in Nat /\ Len(got) \in Nat
        /\ DOMAIN got = 1..Len(got)
    BY DEF ForwardInv, TypeInv
  <2>4. ASSUME NEW k \in DOMAIN got
        PROVE  got[k] = [DataTaken[k] EXCEPT !.serial = k]
    <3>1. k \in 1..Len(DataTaken) /\ got[k] = Numbered(DataTaken)[k]
      BY <2>3 DEF ForwardInv
    <3> QED
      BY <3>1, DataPiecesType, NumberedType
  <2> HIDE DEF data
  <2>5. /\ Len(got) <= Len(data)
        /\ \A k \in DOMAIN got : got[k] = [data[k] EXCEPT !.serial = k]
    BY <2>1, <2>3, <2>4
  <2> QED
    BY <2>2, <2>5 DEF Forwarded, data
<1> QED
  BY <1>1, TypeInvariant, ForwardInvariant, PTL

=============================================================================
