--------------------------- MODULE ProgramsProofs ---------------------------
(***************************************************************************)
(* Theorems about the programs: what the generators count and pubCopy      *)
(* copies, for all numbers of messages and all bulks.                      *)
(***************************************************************************)
EXTENDS Programs, ClientProofs

-----------------------------------------------------------------------------
(* Lemmas about sequences.                                                 *)

(* The units of the first n messages of a program, which are of one unit.  *)
Counting(n) == [i \in 1..n |-> i]

LEMMA CountingType ==
  ASSUME NEW n \in Nat
  PROVE  Counting(n) \in Seq(Nat) /\ Len(Counting(n)) = n
BY DEF Counting

LEMMA CountingNone == <<>> = Counting(0)
<1>1. 1..0 = {}
  OBVIOUS
<1> QED
  BY <1>1 DEF Counting

LEMMA CountingNext ==
  ASSUME NEW n \in Nat
  PROVE  Counting(n) \o [i \in 1..1 |-> n + 1] = Counting(n + 1)
<1> DEFINE p == [i \in 1..1 |-> n + 1]
           s == Counting(n) \o p
           t == Counting(n + 1)
<1>1. p \in Seq(Nat) /\ Len(p) = 1 /\ p[1] = n + 1
  OBVIOUS
<1>2. s \in Seq(Nat) /\ Len(s) = n + 1
  BY <1>1, CountingType, ConcatProperties
<1>3. t \in Seq(Nat) /\ Len(t) = n + 1
  BY CountingType
<1>4. \A i \in 1..(n + 1) : s[i] = t[i]
  <2>1. \A i \in 1..(n + 1) : s[i] = IF i <= n THEN Counting(n)[i] ELSE p[i - n]
    BY <1>1, CountingType, ConcatProperties
  <2> QED
    BY <1>1, <2>1 DEF Counting
<1> HIDE DEF s, t
<1>5. s = t
  BY <1>2, <1>3, <1>4, SeqEqual
<1> QED
  BY <1>5 DEF s, t

(* The beginning of what counts counts.                                    *)
LEMMA CountingBegins ==
  ASSUME NEW w \in Seq(Nat), NEW r \in Seq(Nat), NEW n \in Nat, w \o r = Counting(n)
  PROVE  w = Counting(Len(w)) /\ Len(w) + Len(r) = n
<1>1. /\ Len(w \o r) = Len(w) + Len(r) /\ Len(w) \in Nat /\ Len(r) \in Nat
      /\ \A i \in 1..(Len(w) + Len(r)) : i <= Len(w) => (w \o r)[i] = w[i]
  BY ConcatProperties
<1>2. Len(w) + Len(r) = n
  BY <1>1, CountingType
<1>3. \A i \in 1..n : Counting(n)[i] = i
  BY DEF Counting
<1>4. \A i \in 1..Len(w) : i \in 1..n /\ w[i] = i
  BY <1>1, <1>2, <1>3
<1>5. \A i \in 1..Len(w) : Counting(Len(w))[i] = i
  BY <1>1 DEF Counting
<1>6. Counting(Len(w)) \in Seq(Nat) /\ Len(Counting(Len(w))) = Len(w)
  BY <1>1, CountingType
<1> QED
  BY <1>2, <1>4, <1>5, <1>6, SeqEqual

-----------------------------------------------------------------------------
(* A program is a client.                                                  *)

LEMMA ProgramIsClient ==
  ASSUME [ProgramsNext]_allVars
  PROVE  [Next]_vars
<1>1. 1 \in Sizes
  BY ProgramsAssumption
<1>2. ASSUME ProgramStep
      PROVE  Next
  <2>1. CASE Network
    BY <2>1 DEF Network, Next
  <2>2. CASE OnConnected
    BY <2>2 DEF OnConnected, Next
  <2>3. CASE SendInSlot
    BY <1>1, <2>3 DEF SendInSlot, Next
  <2>4. CASE OnThrottleTimeout
    BY <1>1, <2>4 DEF OnThrottleTimeout, Next
  <2>5. ASSUME NEW k \in 1..Len(pinned), Output(k)
        PROVE  Next
    BY <2>5 DEF Output, Next
  <2>6. ASSUME NEW k \in 0..Len(pinned), OutputFails(k)
        PROVE  Next
    BY <2>6 DEF OutputFails, Next
  <2>7. CASE EndSlot
    BY <2>7 DEF EndSlot, Next
  <2>8. ASSUME NEW n \in 0..Len(inbox), Input(n)
        PROVE  Next
    BY <2>8 DEF Input, Next
  <2>9. CASE MessageReceived \/ InputEnds
    BY <2>9 DEF MessageReceived, InputEnds, Next
  <2> QED
    BY <1>2, <2>1, <2>2, <2>3, <2>4, <2>5, <2>6, <2>7, <2>8, <2>9 DEF ProgramStep
<1>3. CASE UNCHANGED allVars
  BY <1>3 DEF allVars
<1> QED
  BY <1>2, <1>3 DEF ProgramsNext, AnyStep

(* What holds of every application of Client holds of these programs.      *)
THEOREM ProgramsAreClients == ProgramsSpec => Spec
<1>1. ProgramsInit => Init
  BY DEF ProgramsInit
<1>2. [ProgramsNext]_allVars => [Next]_vars
  BY ProgramIsClient
<1> QED
  BY <1>1, <1>2, PTL DEF ProgramsSpec, Spec

-----------------------------------------------------------------------------
(* One connection, and messages of one unit in order.                      *)

ProgramTypes ==
  /\ running \in BOOLEAN
  /\ finished \in BOOLEAN
  /\ burst \in Nat
  /\ num \in Nat
  /\ bulk \in Nat
  /\ sentBulk \in Nat
  /\ total \in Nat

(* Before the connection nothing has happened.                             *)
NotBegun ==
  /\ conn = "closed" /\ handler = "none" /\ failed = "no"
  /\ obuf = <<>> /\ next = <<>> /\ wire = <<>>
  /\ sends = 0 /\ burst = 0
  /\ num = Num /\ sentBulk = 0 /\ total = 0 /\ finished = FALSE

(* A program whose send has failed sends no more.                          *)
FailedStops ==
  failed = "yes" =>
    \/ conn = "closed"
    \/ burst = 0 /\ ((handler = "none" /\ ~running) \/ handler \in {"callback", "sent"})

InOrder ==
  /\ mode = "async"
  /\ overtaken = 0
  /\ stale = <<>>
  /\ accepted = Counting(sends)
  /\ conns \in {0, 1}
  /\ conns = 0 => NotBegun
  /\ handler \in {"input", "inputFailed"} => burst = 0
  /\ handler = "inputFailed" => conn = "closed"
  /\ FailedStops

WireCounts == wire = Counting(Len(wire))

(* Each message received, and the first one sent for onConnected, has been *)
(* answered or is about to be.                                             *)
CopyInv ==
  kind = "pubCopy" /\ failed = "no" /\ conns = 1 => sends + burst = 1 + Len(got)

(* What is still to send, what the slot has still to send and what it has  *)
(* sent make up what there was; what is counted and what is pending make   *)
(* up what was sent or is about to be.                                     *)
GeneratorInv ==
  kind = "pubGen" =>
    /\ total <= Len(wire)
    /\ failed = "no" => num + sends + burst = Num /\ total + sentBulk = sends + burst
    /\ finished => ~running /\ burst = 0
    /\ finished /\ bulk > 0 => total = Num /\ Len(wire) = Num

TimerInv == kind = "pubGenT" => burst = 0

ProgramInv ==
  kind # "any" => InOrder /\ WireCounts /\ CopyInv /\ GeneratorInv /\ TimerInv

LEMMA Begun ==
  ASSUME InOrder, conn = "connected" \/ handler # "none"
  PROVE  conns = 1
BY DEF InOrder, NotBegun

(* What the wire holds when all that was sent is on it or in the buffers.  *)
LEMMA WireBegins ==
  ASSUME NEW w \in Seq(Nat), NEW a \in Seq(Nat), NEW b \in Seq(Nat), NEW m \in Nat,
         w \o a \o b = <<>> \o Counting(m)
  PROVE  /\ w = Counting(Len(w))
         /\ Len(w) <= m
         /\ a = <<>> /\ b = <<>> => Len(w) = m
<1>1. a \o b \in Seq(Nat) /\ Counting(m) \in Seq(Nat)
  BY Joined, CountingType
<1>2. w \o (a \o b) = Counting(m)
  <2>1. w \o a \o b = w \o (a \o b)
    BY JoinedThree
  <2>2. <<>> \o Counting(m) = Counting(m)
    BY <1>1, Joined
  <2> QED
    BY <2>1, <2>2
<1>3. w = Counting(Len(w)) /\ Len(w) + Len(a \o b) = m
  <2> DEFINE q == a \o b
  <2> HIDE DEF q
  <2>1. q \in Seq(Nat) /\ w \o q = Counting(m)
    BY <1>1, <1>2 DEF q
  <2>2. w = Counting(Len(w))
    BY <2>1, CountingBegins, Zenon
  <2>3. Len(w) + Len(q) = m
    <3>1. Len(w \o q) = Len(w) + Len(q) /\ Len(Counting(m)) = m
      BY <2>1, ConcatProperties, CountingType
    <3> QED
      BY <2>1, <3>1
  <2> QED
    BY <2>2, <2>3 DEF q
<1>4. Len(w) \in Nat /\ Len(a \o b) \in Nat /\ Len(a \o b) = Len(a) + Len(b)
  BY <1>1, ConcatProperties
<1>5. a = <<>> /\ b = <<>> => Len(a \o b) = 0
  BY <1>4
<1> QED
  BY <1>3, <1>4, <1>5

-----------------------------------------------------------------------------
(* The steps.                                                              *)

(* A program sends only while nothing has failed, and so in order.         *)
LEMMA SentInOrder ==
  ASSUME OutputInv, InOrder, SendAsync(1), failed = "no"
  PROVE  /\ sends' = sends + 1
         /\ conns = 1 /\ accepted' = Counting(sends') /\ overtaken' = 0
         /\ wire' = wire /\ got' = got /\ handler' = handler /\ conn' = "connected"
         /\ conns' = conns /\ mode' = mode /\ stale' = stale
         /\ failed' \in {"no", "yes"}
<1>1. /\ TypeOK /\ BufferInv /\ sends \in Nat
  BY DEF OutputInv, TypeInv, TypeOK
<1>2. conn = "connected" /\ NewMessage(1)
  BY DEF SendAsync
<1>3. sends' = sends + 1 /\ accepted' = accepted \o [i \in 1..1 |-> sends + 1]
  BY <1>2 DEF NewMessage
<1>4. accepted' = Counting(sends')
  BY <1>1, <1>3, CountingNext DEF InOrder
<1>5. ~Overtakes
  BY <1>1, <1>2 DEF BufferInv, Overtakes
<1>6. overtaken' = 0
  BY <1>5 DEF SendAsync, InOrder
<1>7. failed' \in {"no", "yes"}
  BY DEF SendAsync
<1> QED
  BY <1>2, <1>3, <1>4, <1>6, <1>7, Begun
     DEF SendAsync, inputVars, networkVars, epochVars

(* A step of the network, of the input or of the end of a slot touches     *)
(* neither the buffers nor what is counted.                                *)
Quiet ==
  /\ conns = 1
  /\ UNCHANGED <<mode, overtaken, stale, accepted, conns, wire, sends, burst, failed,
                 generatorVars>>
  /\ got' = got \/ kind # "pubCopy"
  /\ running' \in BOOLEAN /\ (running' => running)
  /\ handler' \in {"input", "inputFailed"} => burst = 0
  /\ handler' = "inputFailed" => conn' = "closed"
  /\ FailedStops'

LEMMA QuietStep ==
  ASSUME ProgramTypes, InOrder, WireCounts, CopyInv, GeneratorInv, TimerInv, TypeOK,
         Quiet
  PROVE  /\ ProgramTypes' /\ InOrder' /\ WireCounts' /\ CopyInv'
         /\ GeneratorInv' /\ TimerInv'
<1> USE DEF generatorVars, Quiet
<1>1. ProgramTypes'
  BY DEF ProgramTypes
<1>2. InOrder'
  BY DEF InOrder
<1>3. WireCounts'
  BY DEF WireCounts
<1>4. CopyInv'
  BY DEF CopyInv
<1>5. GeneratorInv'
  BY DEF GeneratorInv
<1>6. TimerInv'
  BY DEF TimerInv
<1> QED
  BY <1>1, <1>2, <1>3, <1>4, <1>5, <1>6

(* The next bulk of pubGen.                                                *)
LEMMA NextBulk ==
  ASSUME ProgramTypes, SendBulk
  PROVE  /\ num' \in Nat /\ burst' \in Nat /\ sentBulk' = burst'
         /\ num' + burst' = num
         /\ running' \in BOOLEAN /\ finished' \in BOOLEAN
         /\ finished' => ~running' /\ burst' = 0 /\ (bulk > 0 => num = 0)
<1> DEFINE count == IF num < bulk THEN num ELSE bulk
<1>1. count \in Nat /\ count <= num /\ (count = 0 /\ bulk > 0 => num = 0)
  BY DEF ProgramTypes
<1>2. /\ num' = num - count /\ burst' = count /\ sentBulk' = count
      /\ running' = (running /\ count > 0) /\ finished' = (count = 0)
  BY DEF SendBulk
<1> HIDE DEF count
<1>3. num \in Nat /\ running \in BOOLEAN
  BY DEF ProgramTypes
<1>4. num' \in Nat /\ burst' \in Nat /\ sentBulk' = burst' /\ num' + burst' = num
  BY <1>1, <1>2, <1>3
<1>5. running' \in BOOLEAN /\ finished' \in BOOLEAN
  BY <1>2
<1>6. finished' => ~running' /\ burst' = 0 /\ (bulk > 0 => num = 0)
  <2>1. finished' => count = 0
    BY <1>2
  <2>2. count = 0 => ~(count > 0)
    OBVIOUS
  <2>3. finished' => ~running' /\ burst' = 0
    BY <1>2, <2>1, <2>2, Zenon
  <2> QED
    BY <1>1, <2>1, <2>3
<1> QED
  BY <1>4, <1>5, <1>6

(* What was written counts, whatever a write takes.                        *)
LEMMA WrittenCounts ==
  ASSUME OutputInv, OutputInv', InOrder, conn = "connected", WireCounts,
         NEW k \in Nat, OnOutput(k) \/ OnOutputFails(k)
  PROVE  /\ WireCounts' /\ Len(wire') >= Len(wire)
         /\ OnOutput(k) /\ AllWritten(k) => Len(wire') = sends
<1>1. /\ wire \in Seq(Nat) /\ obuf \in Seq(Nat) /\ next \in Seq(Nat) /\ sends \in Nat
      /\ BufferInv /\ WireExact /\ LifeInv
  BY DEF OutputInv, TypeInv, TypeOK
<1>2. wire \o obuf \o next = <<>> \o Counting(sends)
  BY <1>1 DEF WireExact, InOrder
<1>3. CASE wire' = wire /\ OnOutputFails(k)
  <2>1. WireCounts'
    BY <1>3 DEF WireCounts
  <2>2. ~OnOutput(k)
    BY <1>3 DEF OnOutput, OnOutputFails
  <2>3. Len(wire) \in Nat
    BY <1>1
  <2> QED
    BY <1>3, <2>1, <2>2, <2>3
<1>4. CASE k \in 1..Len(pinned) /\ wire' = wire \o SubSeq(pinned, 1, k) /\ Refill(k)
  <2>1. pinned = obuf /\ k \in 0..Len(obuf)
    <3>1. "write" \in pending /\ handler = "none"
      BY DEF OnOutput, OnOutputFails
    <3> QED
      BY <1>1, <1>4, <3>1 DEF BufferInv
  <2>2. wire' \o obuf' \o next' = wire \o obuf \o next
    <3>1. wire' = wire \o SubSeq(obuf, 1, k) /\ obuf' = Rest(obuf, k) \o next /\ next' = <<>>
      BY <1>4, <2>1 DEF Refill
    <3> QED
      BY <1>1, <2>1, <3>1, Refilled, ZenonT(40)
  <2>3. wire' \in Seq(Nat) /\ obuf' \in Seq(Nat) /\ next' \in Seq(Nat)
    BY DEF OutputInv, TypeInv, TypeOK
  <2>4. wire' \o obuf' \o next' = <<>> \o Counting(sends)
    BY <1>2, <2>2
  <2>5. /\ wire' = Counting(Len(wire'))
        /\ obuf' = <<>> /\ next' = <<>> => Len(wire') = sends
    <3>1. wire' = Counting(Len(wire'))
      BY <1>1, <2>3, <2>4, WireBegins, Zenon
    <3>2. obuf' = <<>> /\ next' = <<>> => Len(wire') = sends
      <4>1. wire' \o <<>> \o <<>> = wire' /\ <<>> \o Counting(sends) = Counting(sends)
        BY <1>1, <2>3, CountingType, Joined
      <4>2. Len(Counting(sends)) = sends
        BY <1>1, CountingType
      <4> QED
        BY <2>4, <4>1, <4>2
    <3> QED
      BY <3>1, <3>2
  <2>6. AllWritten(k) => obuf' = <<>> /\ next' = <<>>
    <3>1. <<>> \o <<>> = <<>>
      OBVIOUS
    <3> QED
      BY <1>4, <3>1 DEF AllWritten, Refill
  <2>7. Len(wire') >= Len(wire)
    <3>1. SubSeq(obuf, 1, k) \in Seq(Nat)
      BY <1>1, <2>1, FirstOf
    <3>2. wire' = wire \o SubSeq(obuf, 1, k)
      BY <1>4, <2>1
    <3>3. Len(wire') = Len(wire) + Len(SubSeq(obuf, 1, k))
      BY <1>1, <3>1, <3>2, ConcatProperties
    <3>4. Len(wire) \in Nat /\ Len(SubSeq(obuf, 1, k)) \in Nat
      BY <1>1, <3>1
    <3> QED
      BY <3>3, <3>4
  <2> QED
    BY <2>5, <2>6, <2>7 DEF WireCounts
<1> QED
  BY <1>3, <1>4 DEF OnOutput, OnOutputFails

LEMMA ProgramStepKeeps ==
  ASSUME OutputInv, OutputInv', ProgramTypes, ProgramInv, ProgramStep
  PROVE  ProgramTypes' /\ ProgramInv'
<1> USE DEF socketVars, bufferVars, inputVars, networkVars, epochVars, callerVars,
            generatorVars, programVars
<1>1. /\ TypeOK /\ LifeInv /\ BufferInv /\ sends \in Nat /\ failed \in {"no", "yes"}
      /\ Len(wire) \in Nat /\ Len(got) \in Nat
  <2>1. TypeOK /\ LifeInv /\ BufferInv
    BY DEF OutputInv, TypeInv
  <2>2. /\ sends \in Nat /\ wire \in Seq(Nat) /\ got \in Seq(Nat \ {0})
        /\ failed \in {"no", "yes"}
    BY <2>1 DEF TypeOK
  <2> QED
    BY <2>1, <2>2
<1>2. /\ InOrder /\ WireCounts /\ CopyInv /\ GeneratorInv /\ TimerInv
      /\ kind # "any" /\ FailedStops
  BY DEF ProgramStep, ProgramInv, InOrder
<1> SUFFICES /\ ProgramTypes' /\ InOrder' /\ WireCounts' /\ CopyInv'
             /\ GeneratorInv' /\ TimerInv'
  BY DEF ProgramInv
<1>3. conn = "connected" \/ handler # "none" => conns = 1
  BY <1>2, Begun
<1>4. ASSUME Quiet
      PROVE  /\ ProgramTypes' /\ InOrder' /\ WireCounts' /\ CopyInv'
             /\ GeneratorInv' /\ TimerInv'
  BY <1>1, <1>2, <1>4, QuietStep
<1>5. Network => Quiet
  BY <1>2, <1>3 DEF Network, ServerSends, LinkFails, InOrder, FailedStops, ProgramTypes,
                    Quiet
<1>6. EndSlot => Quiet
  <2>1. EndSlot => burst = 0 /\ handler \in {"sent", "callback"}
    BY DEF EndSlot, SlotThrows, EndOutput, EndCallback
  <2>2. EndSlot =>
        /\ UNCHANGED <<mode, overtaken, stale, accepted, conns, wire, sends, burst,
                       generatorVars, failed, got>>
        /\ handler' = "inputFailed" => conn' = "closed"
    BY DEF EndSlot, SlotThrows, EndOutput, EndCallback, ClosePeer, ExitIfClosed
  <2>3. EndSlot => running' \in BOOLEAN /\ (running' => running)
    BY DEF EndSlot, ExitIfClosed, ProgramTypes
  <2>4. EndSlot => FailedStops'
    BY <1>1 DEF EndSlot, SlotThrows, EndOutput, EndCallback, ClosePeer, FailedStops
  <2> QED
    BY <1>3, <2>1, <2>2, <2>3, <2>4 DEF Quiet
<1>7. ASSUME NEW n \in 0..Len(inbox), Input(n)
      PROVE  Quiet
  <2>1. conn = "connected" /\ burst = 0 /\ running
    BY <1>1, <1>7 DEF Input, OnInput, Read, LifeInv, TypeOK
  <2>2. FailedStops'
    BY <1>2, <1>7, <2>1 DEF Input, OnInput, Read, FailedStops
  <2> QED
    BY <1>3, <1>7, <2>1, <2>2 DEF Input, OnInput, Read, ProgramTypes, Quiet
<1>8. InputEnds => Quiet
  <2>1. InputEnds => burst = 0 /\ (conn = "connected" \/ handler # "none")
    BY <1>1 DEF InputEnds, EndInput, EndInputEof, EndsInput, EndInputFails,
                OnInputFails, LifeInv, TypeOK
  <2>2. InputEnds =>
        /\ UNCHANGED <<mode, overtaken, stale, accepted, conns, wire, sends, burst,
                       generatorVars, failed, got>>
        /\ handler' = "inputFailed" => conn' = "closed"
    BY <1>2 DEF InputEnds, EndInput, EndInputEof, EndsInput, EndInputFails,
                OnInputFails, ClosePeer, ExitIfClosed, InOrder
  <2>3. InputEnds => running' \in BOOLEAN /\ (running' => running)
    BY DEF InputEnds, ExitIfClosed
  <2>4. InputEnds => FailedStops'
    BY <1>2 DEF InputEnds, EndInput, EndInputEof, EndsInput, EndInputFails,
                OnInputFails, ClosePeer, FailedStops, InOrder
  <2> QED
    BY <1>3, <2>1, <2>2, <2>3, <2>4 DEF Quiet
<1>9. CASE MessageReceived
  <2>1. /\ conns = 1 /\ burst = 0 /\ got' = Append(got, dser[1].msg)
        /\ handler' = "callback" /\ kind \in {"pubCopy", "reader"}
        /\ burst' = IF kind = "pubCopy" THEN 1 ELSE 0
        /\ UNCHANGED <<mode, overtaken, stale, accepted, conns, wire, sends, running,
                       generatorVars, failed, conn>>
    BY <1>2, <1>3, <1>9
       DEF MessageReceived, Dispatch, TakeMessage, Copies, InOrder
  <2>2. Len(got') = Len(got) + 1
    BY <1>1, <2>1
  <2>3. FailedStops'
    BY <1>2, <1>9, <2>1 DEF MessageReceived, Dispatch, FailedStops
  <2>4. ProgramTypes'
    BY <2>1 DEF ProgramTypes
  <2>5. InOrder' /\ WireCounts'
    BY <1>2, <2>1, <2>3 DEF InOrder, WireCounts
  <2>6. CopyInv'
    BY <1>1, <1>2, <2>1, <2>2 DEF CopyInv
  <2>7. GeneratorInv' /\ TimerInv'
    BY <2>1 DEF GeneratorInv, TimerInv
  <2> QED
    BY <2>4, <2>5, <2>6, <2>7
<1>10. CASE OnConnected
  <2>1. NotBegun /\ running
    BY <1>2, <1>10 DEF OnConnected, InOrder
  <2>2. /\ conn' = "connected" /\ conns' = 1 /\ handler' = "none" /\ got' = <<>>
        /\ wire' = <<>> /\ accepted' = <<>> /\ stale' = <<>> \o <<>> /\ failed' = "no"
        /\ sends' = 0 /\ mode' = mode /\ overtaken' = overtaken
    BY <1>10, <2>1 DEF OnConnected, Connect, NotBegun
  <2>3. /\ stale' = <<>> /\ Len(wire') = 0 /\ Len(got') = 0
    BY <2>2
  <2>4. InOrder' /\ WireCounts'
    BY <1>2, <2>2, <2>3, CountingNone DEF InOrder, WireCounts, FailedStops
  <2>5. CASE kind = "pubGen" /\ SendBulk /\ UNCHANGED <<kind, bulk, total>>
    <3>1. /\ num' \in Nat /\ burst' \in Nat /\ sentBulk' = burst'
          /\ num' + burst' = Num /\ running' \in BOOLEAN /\ finished' \in BOOLEAN
          /\ finished' => ~running' /\ burst' = 0 /\ (bulk > 0 => Num = 0)
      BY <2>1, <2>5, NextBulk DEF NotBegun
    <3>2. ProgramTypes'
      BY <2>5, <3>1 DEF ProgramTypes
    <3>3. GeneratorInv'
      BY <2>1, <2>2, <2>3, <2>5, <3>1 DEF NotBegun, GeneratorInv
    <3> QED
      BY <2>4, <2>5, <3>2, <3>3 DEF CopyInv, TimerInv
  <2>6. CASE kind = "pubGenT" /\ UNCHANGED programVars
    <3>1. TimerInv'
      BY <1>2, <2>1, <2>2, <2>6 DEF TimerInv, NotBegun
    <3> QED
      BY <2>4, <2>6, <3>1 DEF ProgramTypes, CopyInv, GeneratorInv
  <2>7. CASE /\ kind \in {"pubCopy", "reader"}
             /\ burst' = 1
             /\ UNCHANGED <<running, generatorVars>>
    <3>1. CopyInv'
      BY <2>2, <2>3, <2>7 DEF CopyInv
    <3> QED
      BY <2>4, <2>7, <3>1 DEF ProgramTypes, GeneratorInv, TimerInv
  <2> QED
    BY <1>10, <2>5, <2>6, <2>7 DEF OnConnected
<1>11. CASE SendInSlot
  <2>1. conn = "connected" /\ burst > 0 /\ SendAsync(1) /\ AppRuns
    BY <1>11 DEF SendInSlot, SendAsync
  <2>2. failed = "no"
    BY <1>1, <1>2, <2>1 DEF FailedStops
  <2>3. /\ sends' = sends + 1 /\ conns = 1 /\ accepted' = Counting(sends')
        /\ overtaken' = 0 /\ wire' = wire /\ got' = got /\ handler' = handler
        /\ conn' = "connected" /\ conns' = conns /\ mode' = mode /\ stale' = stale
        /\ failed' \in {"no", "yes"}
    BY <1>2, <2>1, <2>2, SentInOrder
  <2>4. /\ failed' = "no" => burst' = burst - 1 /\ running' = running
        /\ failed' = "yes" => burst' = 0 /\ running' = (running /\ handler # "none")
        /\ UNCHANGED generatorVars
    BY <1>11, <2>2 DEF SendInSlot
  <2>5. ProgramTypes'
    <3>1. running' \in BOOLEAN
      BY <2>3, <2>4 DEF ProgramTypes
    <3>2. burst' \in Nat
      BY <2>1, <2>3, <2>4 DEF ProgramTypes
    <3> QED
      BY <2>4, <3>1, <3>2 DEF ProgramTypes
  <2>6. handler \in {"none", "callback", "sent"}
    BY <1>2, <2>1 DEF AppRuns, InOrder
  <2>7. FailedStops'
    BY <2>3, <2>4, <2>6 DEF FailedStops
  <2>8. InOrder' /\ WireCounts'
    BY <1>2, <2>3, <2>6, <2>7 DEF InOrder, WireCounts
  <2>9. CopyInv'
    BY <1>1, <1>2, <2>2, <2>3, <2>4 DEF CopyInv, ProgramTypes
  <2>10. GeneratorInv'
    BY <1>1, <1>2, <2>1, <2>2, <2>3, <2>4 DEF GeneratorInv, ProgramTypes
  <2>11. TimerInv'
    BY <1>2, <2>1, <2>4 DEF TimerInv, ProgramTypes
  <2> QED
    BY <2>5, <2>8, <2>9, <2>10, <2>11
<1>12. CASE OnThrottleTimeout
  <2>1. /\ conn = "connected" /\ handler = "none" /\ SendAsync(1) /\ running
        /\ kind = "pubGenT"
    BY <1>12 DEF OnThrottleTimeout, SendAsync
  <2>2. failed = "no"
    BY <1>1, <1>2, <2>1 DEF FailedStops
  <2>3. /\ sends' = sends + 1 /\ conns = 1 /\ accepted' = Counting(sends')
        /\ overtaken' = 0 /\ wire' = wire /\ got' = got /\ handler' = handler
        /\ conn' = "connected" /\ conns' = conns /\ mode' = mode /\ stale' = stale
        /\ failed' \in {"no", "yes"}
    BY <1>2, <2>1, <2>2, SentInOrder
  <2>4. burst = 0 /\ num \in Nat /\ Num \in Nat
    BY <1>2, <2>1, ProgramsAssumption DEF TimerInv, ProgramTypes
  <2>5. num' \in Nat
    <3>1. num' = (num + NumWrap - 1) % NumWrap
      BY <1>12 DEF OnThrottleTimeout
    <3>2. NumWrap \in Nat /\ NumWrap > 0
      BY <2>4, ProgramsAssumption
    <3> QED
      BY <2>4, <3>1, <3>2
  <2>6. /\ finished' = (failed' = failed /\ num = 0)
        /\ running' = (failed' = failed /\ ~(num = 0))
        /\ UNCHANGED <<kind, burst, bulk, sentBulk, total>>
    BY <1>12 DEF OnThrottleTimeout, IsLast
  <2>7. ProgramTypes'
    BY <2>5, <2>6 DEF ProgramTypes
  <2>8. FailedStops'
    BY <2>1, <2>2, <2>3, <2>4, <2>6 DEF FailedStops
  <2>9. InOrder' /\ WireCounts'
    BY <1>2, <2>1, <2>3, <2>4, <2>6, <2>8 DEF InOrder, WireCounts
  <2>10. TimerInv'
    BY <2>4, <2>6 DEF TimerInv
  <2> QED
    BY <2>1, <2>6, <2>7, <2>9, <2>10 DEF CopyInv, GeneratorInv
<1>13. ASSUME NEW k \in 1..Len(pinned), Output(k)
       PROVE  /\ ProgramTypes' /\ InOrder' /\ WireCounts' /\ CopyInv'
              /\ GeneratorInv' /\ TimerInv'
  <2>1. /\ conn = "connected" /\ handler = "none" /\ running /\ burst = 0 /\ OnOutput(k)
        /\ handler' \in {"none", "sent"} /\ (handler' = "sent" => AllWritten(k))
        /\ UNCHANGED <<mode, overtaken, stale, accepted, conns, conn, sends, failed, got>>
    BY <1>1, <1>13 DEF Output, OnOutput, LifeInv, TypeOK
  <2>2. conns = 1 /\ failed = "no"
    BY <1>1, <1>2, <1>3, <2>1 DEF FailedStops
  <2>3. /\ WireCounts' /\ Len(wire') >= Len(wire) /\ Len(wire') \in Nat
        /\ handler' = "sent" => Len(wire') = sends
    <3>1. k \in Nat /\ wire' \in Seq(Nat)
      BY DEF OutputInv, TypeInv, TypeOK
    <3> QED
      BY <1>2, <2>1, <3>1, WrittenCounts
  <2>4. InOrder'
    <3>1. FailedStops'
      BY <2>1, <2>2 DEF FailedStops
    <3> QED
      BY <1>2, <2>1, <2>2, <3>1 DEF InOrder
  <2>5. CASE ~(kind = "pubGen" /\ handler' = "sent")
    <3>1. UNCHANGED programVars
      BY <1>13, <2>5 DEF Output
    <3>2. GeneratorInv'
      BY <1>1, <1>2, <2>1, <2>2, <2>3, <3>1 DEF GeneratorInv, ProgramTypes
    <3> QED
      BY <1>2, <2>1, <2>3, <2>4, <3>1, <3>2
         DEF ProgramTypes, CopyInv, TimerInv
  <2>6. CASE kind = "pubGen" /\ handler' = "sent"
    <3>1. total' = total + sentBulk /\ SendBulk /\ UNCHANGED <<kind, bulk>>
      BY <1>13, <2>6 DEF Output, MessagesSent
    <3>2. /\ num' \in Nat /\ burst' \in Nat /\ sentBulk' = burst'
          /\ num' + burst' = num /\ running' \in BOOLEAN /\ finished' \in BOOLEAN
          /\ finished' => ~running' /\ burst' = 0 /\ (bulk > 0 => num = 0)
      BY <3>1, NextBulk
    <3>3. ProgramTypes'
      BY <3>1, <3>2 DEF ProgramTypes
    <3>4. num + sends = Num /\ total + sentBulk = sends /\ Len(wire') = sends
      BY <1>1, <1>2, <2>1, <2>2, <2>3, <2>6 DEF GeneratorInv, ProgramTypes
    <3>5. GeneratorInv'
      <4>1. total' = sends /\ sends' = sends /\ bulk' = bulk
        BY <2>1, <3>1, <3>4
      <4>2. num' + sends' + burst' = Num /\ total' + sentBulk' = sends' + burst'
        <5>1. num \in Nat /\ sends' \in Nat
          BY <1>1, <4>1 DEF ProgramTypes
        <5>2. num + sends' = Num
          BY <3>4, <4>1
        <5>3. num' \in Nat /\ burst' \in Nat /\ sentBulk' = burst' /\ num' + burst' = num
          BY <3>2
        <5>4. num' + sends' + burst' = (num' + burst') + sends'
          BY <5>1, <5>3
        <5>5. num' + sends' + burst' = Num
          BY <5>2, <5>3, <5>4
        <5> QED
          BY <4>1, <5>3, <5>5
      <4>3. total' <= Len(wire')
        BY <1>1, <3>4, <4>1
      <4>4. finished' /\ bulk' > 0 => total' = Num /\ Len(wire') = Num
        BY <1>1, <3>2, <3>4, <4>1
      <4> QED
        BY <3>2, <4>2, <4>3, <4>4 DEF GeneratorInv
    <3> QED
      BY <2>3, <2>4, <2>6, <3>1, <3>3, <3>5 DEF CopyInv, TimerInv
  <2> QED
    BY <2>5, <2>6
<1>14. ASSUME NEW k \in 0..Len(pinned), OutputFails(k)
       PROVE  /\ ProgramTypes' /\ InOrder' /\ WireCounts' /\ CopyInv'
              /\ GeneratorInv' /\ TimerInv'
  <2>1. /\ conn = "connected" /\ handler = "none" /\ running /\ burst = 0
        /\ OnOutputFails(k) /\ conn' = "closed" /\ failed' = "yes"
        /\ UNCHANGED <<mode, overtaken, stale, accepted, conns, sends, handler, got,
                       burst, generatorVars>>
    BY <1>1, <1>14 DEF OutputFails, OnOutputFails, ClosePeer, ExitIfClosed, LifeInv,
                       TypeOK
  <2>2. running' \in BOOLEAN
    BY <1>14 DEF OutputFails, ExitIfClosed
  <2>3. WireCounts' /\ Len(wire') >= Len(wire) /\ Len(wire') \in Nat
    <3>1. k \in Nat /\ wire' \in Seq(Nat)
      BY DEF OutputInv, TypeInv, TypeOK
    <3> QED
      BY <1>2, <2>1, <3>1, WrittenCounts
  <2>4. ProgramTypes' /\ InOrder'
    BY <1>2, <1>3, <2>1, <2>2 DEF ProgramTypes, InOrder, FailedStops
  <2>5. GeneratorInv'
    BY <1>1, <1>2, <2>1, <2>3 DEF GeneratorInv, ProgramTypes
  <2>6. CopyInv' /\ TimerInv'
    BY <1>2, <2>1 DEF CopyInv, TimerInv
  <2> QED
    BY <2>3, <2>4, <2>5, <2>6
<1> QED
  BY <1>4, <1>5, <1>6, <1>7, <1>8, <1>9, <1>10, <1>11, <1>12, <1>13, <1>14
     DEF ProgramStep

-----------------------------------------------------------------------------

LEMMA ProgramsInvariant == ProgramsSpec => [](OutputInv /\ ProgramTypes /\ ProgramInv)
<1> DEFINE Inv == ProgramTypes /\ ProgramInv
<1>1. ProgramsInit => Inv
  <2>1. ASSUME ProgramsInit
        PROVE  ProgramTypes
    <3>1. bulk \in Nat
      BY <2>1, ProgramsAssumption DEF ProgramsInit
    <3> QED
      BY <2>1, <3>1, ProgramsAssumption DEF ProgramsInit, ProgramTypes
  <2>2. ASSUME ProgramsInit, kind # "any"
        PROVE  ProgramInv
    <3>1. NotBegun /\ conns = 0 /\ got = <<>> /\ stale = <<>> /\ accepted = <<>>
          /\ mode = "async" /\ overtaken = 0
      BY <2>2 DEF ProgramsInit, Init, NotBegun
    <3>2. accepted = Counting(sends) /\ wire = Counting(Len(wire)) /\ Len(wire) = 0
      BY <3>1, CountingNone DEF NotBegun
    <3>3. InOrder /\ WireCounts
      BY <3>1, <3>2 DEF InOrder, WireCounts, FailedStops, NotBegun
    <3>4. CopyInv /\ GeneratorInv /\ TimerInv
      BY <3>1, <3>2, ProgramsAssumption DEF CopyInv, GeneratorInv, TimerInv, NotBegun
    <3> QED
      BY <3>3, <3>4 DEF ProgramInv
  <2> QED
    BY <2>1, <2>2 DEF ProgramInv
<1>2. OutputInv /\ OutputInv' /\ Inv /\ [ProgramsNext]_allVars => Inv'
  <2>1. ASSUME AnyStep, Inv
        PROVE  Inv'
    BY <2>1 DEF AnyStep, programVars, generatorVars, ProgramTypes, ProgramInv
  <2>2. ASSUME UNCHANGED allVars, Inv
        PROVE  Inv'
    BY <2>2 DEF allVars, vars, socketVars, bufferVars, inputVars, networkVars,
                epochVars, callerVars, programVars, generatorVars,
                ProgramTypes, ProgramInv, InOrder, NotBegun, FailedStops, WireCounts,
                CopyInv, GeneratorInv, TimerInv
  <2> QED
    BY <2>1, <2>2, ProgramStepKeeps DEF ProgramsNext
<1> HIDE DEF Inv
<1>3. ProgramsSpec => []OutputInv
  BY ProgramsAreClients, OutputInvariant, PTL
<1>4. ProgramsSpec => []Inv
  BY <1>1, <1>2, <1>3, PTL DEF ProgramsSpec
<1> QED
  BY <1>3, <1>4, PTL DEF Inv

(* What pubGen counts at messagesSent is on the wire, and when it is       *)
(* through all that it was to send is counted, whatever Num and bulk are.  *)
THEOREM CountsWhatIsWritten == ProgramsSpec => []CountedIsWritten
<1>1. ProgramInv => CountedIsWritten
  BY DEF ProgramInv, GeneratorInv, CountedIsWritten
<1> QED
  BY <1>1, ProgramsInvariant, PTL

(* pubCopy sends one message for each one it receives, in order.           *)
THEOREM CopiesEveryMessage == ProgramsSpec => []CopiesEach
<1>1. OutputInv /\ ProgramTypes /\ ProgramInv => CopiesEach
  <2> SUFFICES ASSUME OutputInv, ProgramTypes, ProgramInv, kind = "pubCopy",
                      conn = "connected", burst = 0, failed = "no"
               PROVE  wire \o obuf \o next = Counting(1 + Len(got))
    BY DEF CopiesEach, Counting
  <2>1. InOrder /\ CopyInv /\ WireExact /\ conns = 1
    BY Begun DEF ProgramInv, OutputInv
  <2>2. sends = 1 + Len(got) /\ sends \in Nat
    BY <2>1 DEF CopyInv, OutputInv, TypeInv, TypeOK
  <2>3. wire \o obuf \o next = <<>> \o Counting(sends)
    BY <2>1 DEF WireExact, InOrder
  <2>4. <<>> \o Counting(sends) = Counting(sends)
    BY <2>2, CountingType, Joined
  <2> QED
    BY <2>2, <2>3, <2>4
<1> QED
  BY <1>1, ProgramsInvariant, PTL

=============================================================================
