---------------------------- MODULE Deserializer ----------------------------
(***************************************************************************)
(* DataMessageDeserializer: how the bytes of a connection are cut into     *)
(* messages, whatever the sizes of the reads.  From                        *)
(* src/tntpub/datamessage.cpp and include/tntpub/datamessage.h.            *)
(*                                                                         *)
(* The stream is a sequence of frames.  A byte is known by its frame, its  *)
(* position in it, and what the header of the frame says: the length of    *)
(* the message, and whether it is a message of this format.  Connections   *)
(* use deserializers that do not accept the old format (_version1Flag is   *)
(* false).                                                                 *)
(***************************************************************************)
EXTENDS Naturals, Sequences

CONSTANTS
  Streams,    \* the streams a peer may send
  Header1Len, \* sizeof(Header1): the bytes needed to look at the magic number
  HeaderLen   \* sizeof(Header)

(* good: a message; corrupt: its header fails the checks of type and       *)
(* length; foreign: no magic number.                                       *)
Kinds == {"good", "corrupt", "foreign"}

Byte == [frame : Nat \ {0}, pos : Nat \ {0}, len : Nat \ {0}, kind : Kinds]

(* A byte tells where its frame lies in the stream s; the frames follow    *)
(* one another without gaps, and only the last may be cut off.             *)
WellFormed(s) ==
  /\ s \in Seq(Byte)
  /\ s # <<>> => s[1].frame = 1 /\ s[1].pos = 1
  /\ \A i \in 1..Len(s) :
       LET first == i - s[i].pos + 1
           next  == first + s[i].len
       IN  /\ s[i].pos <= s[i].len
           /\ s[i].pos <= i
           /\ s[i].kind = "good" => s[i].len >= HeaderLen
           /\ \A j \in 1..Len(s) :
                first <= j /\ j < next => s[j] = [s[i] EXCEPT !.pos = j - first + 1]
           /\ next <= Len(s) => s[next].pos = 1 /\ s[next].frame = s[i].frame + 1

ASSUME DeserializerAssumption ==
  /\ Header1Len \in Nat \ {0}
  /\ HeaderLen \in Nat
  /\ Header1Len <= HeaderLen
  /\ \A s \in Streams : WellFormed(s)

VARIABLES
  caller,    \* who uses the deserializer: "responder", "onInput", "readMessage"
  stream,    \* the bytes the peer sends
  read,      \* the number of bytes read
  inputData, \* DataMessageDeserializer::_inputData
  chunk,     \* what advance has not yet consumed of the caller's buffer
  phase,     \* "idle", "direct", "buffered" or "failed"
  delivered  \* the frames handed to the callback

vars == <<caller, stream, read, inputData, chunk, phase, delivered>>

(* Bytes are held in _inputData or in the caller's buffer, not in both.    *)
OneHolder ==
  /\ inputData = <<>> \/ chunk = <<>>
  /\ phase = "direct" => inputData = <<>>
  /\ phase \in {"idle", "buffered"} => chunk = <<>>

TypeOK ==
  /\ caller \in {"responder", "onInput", "readMessage"}
  /\ stream \in Streams
  /\ read \in 0..Len(stream)
  /\ inputData \in Seq(Byte)
  /\ chunk \in Seq(Byte)
  /\ phase \in {"idle", "direct", "buffered", "failed"}
  /\ delivered \in Seq(Nat \ {0})
  /\ OneHolder

Init ==
  /\ caller \in {"responder", "onInput", "readMessage"}
  /\ stream \in Streams
  /\ read = 0
  /\ inputData = <<>>
  /\ chunk = <<>>
  /\ phase = "idle"
  /\ delivered = <<>>

-----------------------------------------------------------------------------
(* DataMessageDeserializer::processMessage(buffer, bufsize, ...): what it  *)
(* finds at the beginning of the buffer.                                   *)

(* The magic number is found only at the beginning of a frame.             *)
Kind(buf) == IF buf[1].pos = 1 THEN buf[1].kind ELSE "foreign"

Invalid(buf) ==
  \/ Len(buf) >= Header1Len /\ Kind(buf) = "foreign"
  \/ Len(buf) >= HeaderLen /\ Kind(buf) = "corrupt"

(* Fault: the header is not checked.                                       *)
CompleteUnchecked(buf) == Len(buf) >= HeaderLen /\ Len(buf) >= buf[1].len

Complete(buf) ==
  /\ Len(buf) >= HeaderLen
  /\ Kind(buf) = "good"
  /\ Len(buf) >= buf[1].len

Incomplete(buf) == ~Invalid(buf) /\ ~Complete(buf)

(* Fault: off by one.                                                      *)
WithoutFirstOffByOne(buf) == SubSeq(buf, buf[1].len, Len(buf))

WithoutFirst(buf) == SubSeq(buf, buf[1].len + 1, Len(buf))

-----------------------------------------------------------------------------

NextBytes(n) == SubSeq(stream, read + 1, read + n)

(* Fault: a read waits until nothing is kept from the one before.          *)
AdvanceDirect(n) ==
  /\ caller = "responder"
  /\ phase = "idle"
  /\ inputData = <<>>
  /\ n \in 1..(Len(stream) - read)
  /\ read' = read + n
  /\ chunk' = NextBytes(n)
  /\ phase' = "direct"
  /\ UNCHANGED <<caller, stream, inputData, delivered>>

(* advance: with nothing kept from earlier reads the messages are taken    *)
(* from the caller's buffer, otherwise it is appended to what is kept.     *)
Advance(n) ==
  /\ caller = "responder"
  /\ phase = "idle"
  /\ n \in 1..(Len(stream) - read)
  /\ read' = read + n
  /\ IF inputData = <<>>
       THEN /\ chunk' = NextBytes(n)
            /\ phase' = "direct"
            /\ UNCHANGED inputData
       ELSE /\ inputData' = inputData \o NextBytes(n)
            /\ phase' = "buffered"
            /\ UNCHANGED chunk
  /\ UNCHANGED <<caller, stream, delivered>>

DirectMessage ==
  /\ phase = "direct"
  /\ Complete(chunk)
  /\ delivered' = Append(delivered, chunk[1].frame)
  /\ chunk' = WithoutFirst(chunk)
  /\ UNCHANGED <<caller, stream, read, inputData, phase>>

(* What is left of the caller's buffer is kept.                            *)
DirectEnd ==
  /\ phase = "direct"
  /\ Incomplete(chunk)
  /\ inputData' = inputData \o chunk
  /\ chunk' = <<>>
  /\ phase' = IF chunk = <<>> THEN "idle" ELSE "buffered"
  /\ UNCHANGED <<caller, stream, read, delivered>>

(* addData: Client::onInput calls it once for a read and then processes    *)
(* all messages; Client::readMessage only when it finds none.              *)
AddData(n) ==
  /\ \/ caller = "onInput" /\ phase = "idle"
     \/ caller = "readMessage" /\ phase = "buffered" /\ Incomplete(inputData)
  /\ n \in 1..(Len(stream) - read)
  /\ read' = read + n
  /\ inputData' = inputData \o NextBytes(n)
  /\ phase' = "buffered"
  /\ UNCHANGED <<caller, stream, chunk, delivered>>

ReadMessage ==
  /\ caller = "readMessage"
  /\ phase = "idle"
  /\ phase' = "buffered"
  /\ UNCHANGED <<caller, stream, read, inputData, chunk, delivered>>

(* processMessage(callback) on _inputData; readMessage returns after one.  *)
BufferedMessage ==
  /\ phase = "buffered"
  /\ Complete(inputData)
  /\ delivered' = Append(delivered, inputData[1].frame)
  /\ inputData' = WithoutFirst(inputData)
  /\ phase' = IF caller = "readMessage" THEN "idle" ELSE phase
  /\ UNCHANGED <<caller, stream, read, chunk>>

(* Fault: not all messages are processed.                                  *)
BufferedEndEarly ==
  /\ caller # "readMessage"
  /\ phase = "buffered"
  /\ phase' = "idle"
  /\ UNCHANGED <<caller, stream, read, inputData, chunk, delivered>>

BufferedEnd ==
  /\ caller # "readMessage"
  /\ phase = "buffered"
  /\ Incomplete(inputData)
  /\ phase' = "idle"
  /\ UNCHANGED <<caller, stream, read, inputData, chunk, delivered>>

(* The exception leaves the deserializer; the connection is given up.      *)
Reject ==
  /\ \/ phase = "direct" /\ Invalid(chunk)
     \/ phase = "buffered" /\ Invalid(inputData)
  /\ phase' = "failed"
  /\ UNCHANGED <<caller, stream, read, inputData, chunk, delivered>>

Next ==
  \/ \E n \in 1..(Len(stream) - read) : Advance(n) \/ AddData(n)
  \/ DirectMessage
  \/ DirectEnd
  \/ ReadMessage
  \/ BufferedMessage
  \/ BufferedEnd
  \/ Reject

Spec == Init /\ [][Next]_vars

FairSpec == Spec /\ WF_vars(Next)

-----------------------------------------------------------------------------
(* Properties.                                                             *)

Held == inputData \o chunk

(* The number of bytes given away in messages.                             *)
Consumed == read - Len(Held)

(* Nothing that was read is lost or read twice: what is held is the end of *)
(* what was read, and it begins where a frame begins.                      *)
(* (the erase in processMessage, append and buffer += n in advance)        *)
InSync ==
  /\ Len(Held) <= read
  /\ Held = SubSeq(stream, Consumed + 1, read)
  /\ Consumed < Len(stream) => stream[Consumed + 1].pos = 1

(* The callback has got the frames before that point, each once, in order, *)
(* and only messages.  (processMessage)                                    *)
DeliveredInOrder ==
  /\ delivered = [i \in 1..Len(delivered) |-> i]
  /\ Len(delivered) = IF Consumed = 0 THEN 0 ELSE stream[Consumed].frame
  /\ \A i \in 1..Consumed : stream[i].kind = "good"

(* The frames that must have been delivered when so many bytes are read.   *)
Parsable(n) ==
  {f \in 1..n : \E i \in 1..n :
     /\ stream[i].frame = f
     /\ stream[i].pos = stream[i].len
     /\ \A j \in 1..i : stream[j].kind = "good"}

(* The outcome depends on the bytes read and not on how they were cut: all *)
(* complete messages before the first bad frame are delivered, and the     *)
(* stream is rejected exactly if the header of a bad frame has been read.  *)
(* (advance, Client::onInput)                                              *)
CuttingInvisible ==
  (phase \in {"idle", "failed"} /\ caller # "readMessage") =>
    /\ {delivered[i] : i \in DOMAIN delivered} = Parsable(read)
    /\ phase = "failed" <=>
         \E i \in 1..read :
           /\ stream[i].pos = 1
           /\ \A j \in 1..(i - 1) : stream[j].kind = "good"
           /\ \/ stream[i].kind = "foreign" /\ read - i + 1 >= Header1Len
              \/ stream[i].kind = "corrupt" /\ read - i + 1 >= HeaderLen

(* All that the peer sends is read and cut up, or rejected.                *)
(* (the loops terminate, and a partial message does not block the rest)    *)
EverythingParsed ==
  <>(phase = "failed" \/ (read = Len(stream) /\ Incomplete(inputData)))

=============================================================================
