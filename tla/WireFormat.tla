----------------------------- MODULE WireFormat -----------------------------
(***************************************************************************)
(* How tntpub messages are laid out in bytes, on their way from a client   *)
(* through the server to a subscriber.  From src/tntpub/datamessage.cpp    *)
(* and include/tntpub/datamessage.h.                                       *)
(*                                                                         *)
(* A buffer is a sequence of units, <<name of the field, place in it>>; a  *)
(* header is HeaderSize units, the first of which holds its numbers.  The  *)
(* header cuts the lengths of topic, sub topic and source to 16 bits, here *)
(* LengthWrap, that of the message to 32 bits, here SizeWrap.  How buffers *)
(* are cut into reads is the subject of Deserializer.                      *)
(***************************************************************************)
EXTENDS Naturals, SequencesExt

CONSTANTS
  HeaderSize,  \* sizeof(Header), 40 bytes
  Header1Size, \* sizeof(Header1), 32 bytes
  LengthWrap,
  SizeWrap,
  SerialWrap,  \* DataMessage::serial takes a uint32_t
  Messages,    \* what a client sends: the lengths of the fields
  OldMessages, \* messages stored in the old format
  MaxMessages  \* bound on the messages sent

(* Of the types isValidType accepts; DataMessage and Deserializer have the *)
(* messages it rejects.                                                    *)
ValidTypes == {"Data", "System"}

ASSUME WireAssumption ==
  /\ Header1Size \in Nat \ {0}
  /\ HeaderSize \in Nat /\ Header1Size <= HeaderSize
  /\ {LengthWrap, SizeWrap, SerialWrap} \subseteq Nat \ {0}
  /\ Messages \subseteq [topic : Nat, sub : Nat, source : Nat, data : Nat,
                         type : ValidTypes, serial : Nat]
  /\ OldMessages \subseteq [topic : Nat, data : Nat]
  /\ MaxMessages \in Nat

VARIABLES
  toServer,   \* the client's output, read by the server
  toClient,   \* the output of the subscriber's responder
  lastSerial, \* DataMessage::_lastSerial
  broken,     \* processMessage has thrown in the server
  old,        \* what createFromBuffer has made of messages of the old format
  sent,       \* history: the messages sent
  taken,      \* history: the messages the server has read
  got         \* history: the messages the subscriber has read

vars == <<toServer, toClient, lastSerial, broken, old, sent, taken, got>>

Content(field, n) == [i \in 1..n |-> <<field, i>>]

(* The message with fields of these lengths.                               *)
MessageOf(m) ==
  [topic |-> Content("topic", m.topic), sub |-> Content("sub", m.sub),
   source |-> Content("source", m.source), data |-> Content("data", m.data),
   type |-> m.type, serial |-> m.serial]

Init ==
  /\ toServer = <<>>
  /\ toClient = <<>>
  /\ lastSerial = 0
  /\ broken = FALSE
  /\ old = {}
  /\ sent = <<>>
  /\ taken = <<>>
  /\ got = <<>>

-----------------------------------------------------------------------------
(* Header                                                                  *)

Cut(n) == n % LengthWrap

TopicOffset(h) == HeaderSize
SubtopicOffset(h) == TopicOffset(h) + h.topic
SourceOffset(h) == SubtopicOffset(h) + h.sub

(* Fault: the source is forgotten.                                         *)
DataOffsetNoSource(h) == SourceOffset(h)

DataOffset(h) == SourceOffset(h) + h.source

MessageLength(m) ==
  HeaderSize + Len(m.topic) + Len(m.sub) + Len(m.source) + Len(m.data)

Header(m) ==
  [length |-> MessageLength(m) % SizeWrap, topic |-> Cut(Len(m.topic)),
   sub |-> Cut(Len(m.sub)), source |-> Cut(Len(m.source)),
   type |-> m.type, serial |-> m.serial]

(* What appendTo copies, in this order, and where to.                      *)
Copies(m) ==
  LET h == Header(m)
  IN  << <<TopicOffset(h), m.topic>>, <<SubtopicOffset(h), m.sub>>,
         <<SourceOffset(h), m.source>>, <<DataOffset(h), m.data>> >>

CopyTo(buffer, copy) ==
  [i \in DOMAIN buffer |->
     IF i - copy[1] \in DOMAIN copy[2] THEN copy[2][i - copy[1]] ELSE buffer[i]]

(* appendTo: the new bytes are zero until they are written.                *)
Encode(m) ==
  LET c == Copies(m)
      new == [i \in 1..MessageLength(m) |->
                IF i = 1 THEN <<"head", Header(m)>> ELSE <<"zero", 0>>]
  IN  CopyTo(CopyTo(CopyTo(CopyTo(new, c[1]), c[2]), c[3]), c[4])

-----------------------------------------------------------------------------
(* DataMessageDeserializer::processMessage                                 *)

HasHeader(buffer) == Len(buffer) >= HeaderSize
Magic(buffer) == buffer[1][1] = "head"

Corrupt(h) == DataOffset(h) > h.length \/ h.type \notin ValidTypes

Field(buffer, offset, length) == SubSeq(buffer, offset + 1, offset + length)

Decode(buffer) ==
  LET h == buffer[1][2]
  IN  [topic  |-> Field(buffer, TopicOffset(h), h.topic),
       sub    |-> Field(buffer, SubtopicOffset(h), h.sub),
       source |-> Field(buffer, SourceOffset(h), h.source),
       data   |-> Field(buffer, DataOffset(h), h.length - DataOffset(h)),
       type   |-> h.type, serial |-> h.serial]

(* Fault: the data is left in the buffer.                                  *)
ConsumedToData(h) == DataOffset(h)

Consumed(h) == h.length

(* The buffer begins with a message.                                       *)
Readable(buffer) ==
  /\ HasHeader(buffer)
  /\ Magic(buffer)
  /\ ~Corrupt(buffer[1][2])
  /\ Len(buffer) >= buffer[1][2].length

Behind(buffer) == SubSeq(buffer, Consumed(buffer[1][2]) + 1, Len(buffer))

(* The buffer makes processMessage throw: a foreign magic number as soon   *)
(* as an old header is there, a corrupt header when all of it is.          *)
Rejected(buffer) ==
  /\ Len(buffer) >= Header1Size
  /\ Magic(buffer) => HasHeader(buffer) /\ Corrupt(buffer[1][2])

(* The old format: Header1::topicOffset returns the size of the new header. *)
TopicOffset1 == HeaderSize

DataOffset1(h) == TopicOffset1 + h.topic

Encoded1(m) ==
  LET h == [length |-> Header1Size + m.topic + m.data, topic |-> m.topic]
  IN  [i \in 1..Header1Size |-> <<"head1", h>>]
        \o Content("topic", m.topic) \o Content("data", m.data)

Decode1(buffer) ==
  LET h == buffer[1][2]
  IN  [topic |-> Field(buffer, TopicOffset1, h.topic),
       data  |-> Field(buffer, DataOffset1(h), h.length - DataOffset1(h))]

-----------------------------------------------------------------------------

(* The client; serial(uint32_t) cuts what it is given.                     *)
Send(m) ==
  /\ Len(sent) < MaxMessages
  /\ old = {}
  /\ LET message == MessageOf(m) IN
       /\ sent' = Append(sent, message)
       /\ toServer' = toServer \o Encode([message EXCEPT !.serial = @ % SerialWrap])
  /\ UNCHANGED <<toClient, lastSerial, broken, old, taken, got>>

(* Fault: a serial number that is set already is kept.                     *)
NextSerialIfNone(m) == IF m.serial = 0 THEN lastSerial + 1 ELSE m.serial

(* setNextSerial                                                           *)
NextSerial(m) == lastSerial + 1

(* The server: Responder::onInput numbers data messages and forwards them. *)
ServerReads ==
  /\ ~broken
  /\ Readable(toServer)
  /\ LET m == Decode(toServer) IN
       /\ taken' = Append(taken, m)
       /\ IF m.type = "Data"
            THEN /\ lastSerial' = lastSerial + 1
                 /\ toClient' = toClient \o Encode([m EXCEPT !.serial = NextSerial(m)])
            ELSE UNCHANGED <<lastSerial, toClient>>
  /\ toServer' = Behind(toServer)
  /\ UNCHANGED <<broken, old, sent, got>>

SubscriberReads ==
  /\ Readable(toClient)
  /\ got' = Append(got, Decode(toClient))
  /\ toClient' = Behind(toClient)
  /\ UNCHANGED <<toServer, lastSerial, broken, old, sent, taken>>

ServerRejects ==
  /\ ~broken
  /\ Rejected(toServer)
  /\ broken' = TRUE
  /\ UNCHANGED <<toServer, toClient, lastSerial, old, sent, taken, got>>

(* createFromBuffer with a buffer in the old format.                       *)
ReadOld(m) ==
  /\ sent = <<>>
  /\ Len(Encoded1(m)) >= Header1Size
  /\ LET buffer == Encoded1(m)
         h == buffer[1][2]
     IN  old' = old \cup
           {IF DataOffset1(h) > h.length
              THEN [of |-> m, outcome |-> "corrupt"]
              ELSE [of |-> m, outcome |-> "read", as |-> Decode1(buffer)]}
  /\ UNCHANGED <<toServer, toClient, lastSerial, broken, sent, taken, got>>

Next ==
  \/ \E m \in Messages : Send(m)
  \/ ServerReads
  \/ SubscriberReads
  \/ ServerRejects
  \/ \E m \in OldMessages : ReadOld(m)

Spec == Init /\ [][Next]_vars

-----------------------------------------------------------------------------
(* Properties.                                                             *)

Oversize(m) == MessageLength(m) >= SizeWrap

(* However long the fields are, appendTo writes inside the bytes it has    *)
(* added to the buffer, and unless a message is larger than the header can *)
(* say, the framing stands: what the server has not read yet are the       *)
(* messages behind those it has, and nobody throws.                        *)
(* (appendTo: resize and copy; processMessage)                             *)
FramingKept ==
  /\ \A k \in DOMAIN sent : \A copy \in ToSet(Copies(sent[k])) :
       copy[1] + Len(copy[2]) <= MessageLength(sent[k])
  /\ (\A k \in DOMAIN sent : ~Oversize(sent[k])) =>
       /\ ~broken
       /\ toServer = FlattenSeq([k \in 1..(Len(sent) - Len(taken)) |->
                       Encode([sent[Len(taken) + k] EXCEPT !.serial = @ % SerialWrap])])

Fits(m) ==
  /\ \A f \in {m.topic, m.sub, m.source} : Len(f) < LengthWrap
  /\ m.serial < SerialWrap

(* What is read of a message in the old format: as many units as the new   *)
(* header is longer are lost, topic and data are what follows them.        *)
OldShifted(m, read) ==
  LET shift == HeaderSize - Header1Size
      body == Content("topic", m.topic) \o Content("data", m.data)
  IN  /\ Len(read.topic) = m.topic
      /\ read.topic \o read.data = SubSeq(body, shift + 1, Len(body))

(* A message arrives as it was sent exactly if its fields fit the header;  *)
(* otherwise topic, sub topic and source arrive as prefixes, and what is   *)
(* cut off them or lies between them follows the data.  One in the old     *)
(* format is shifted, or corrupt if it has too little data for that.       *)
(* (appendTo, processMessage, Header1::topicOffset)                        *)
RoundTrip ==
  /\ (\A k \in DOMAIN sent : ~Oversize(sent[k])) =>
       \A k \in DOMAIN taken :
         /\ taken[k] = sent[k] <=> Fits(sent[k])
         /\ IsPrefix(taken[k].topic, sent[k].topic)
         /\ IsPrefix(taken[k].sub, sent[k].sub)
         /\ IsPrefix(taken[k].source, sent[k].source)
         /\ IsPrefix(sent[k].data, taken[k].data)
  /\ \A r \in old : IF r.outcome = "corrupt"
                      THEN r.of.data < HeaderSize - Header1Size
                      ELSE OldShifted(r.of, r.as)

(* A subscriber reads the data messages as the server has read them, with  *)
(* the serial numbers 1, 2, 3, ... whatever the clients have set, and      *)
(* finds none of them corrupt, whatever the server was sent.               *)
(* (onInput: setNextSerial, sendMessage)                                   *)
Forwarded ==
  LET data == FlattenSeq([k \in DOMAIN taken |->
                IF taken[k].type = "Data" THEN <<taken[k]>> ELSE <<>>])
  IN  /\ toClient # <<>> => Readable(toClient)
      /\ Len(got) <= Len(data)
      /\ \A k \in DOMAIN got : got[k] = [data[k] EXCEPT !.serial = k]

=============================================================================
