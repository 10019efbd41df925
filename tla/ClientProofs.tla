---------------------------- MODULE ClientProofs ----------------------------
(***************************************************************************)
(* Theorems about Client, for all sizes of messages and all bounds,        *)
(* whether closing a socket signals it and writes time out or not.         *)
(***************************************************************************)
EXTENDS Client, SequenceLemmas

-----------------------------------------------------------------------------
(* Lemmas about the operators of the model.                                *)

LEMMA RestType ==
  ASSUME NEW S, NEW s \in Seq(S), NEW k \in Nat
  PROVE  /\ Rest(s, k) \in Seq(S)
         /\ Len(Rest(s, k)) = IF k < Len(s) THEN Len(s) - k ELSE 0
         /\ \A i \in 1..(Len(s) - k) : Rest(s, k)[i] = s[k + i]
BY RestOf DEF Rest

LEMMA InPacketType ==
  ASSUME NEW m \in Nat \ {0}
  PROVE  /\ InPacket(m) \in Seq(InUnit)
         /\ Len(InPacket(m)) = InSize
         /\ \A i \in 1..InSize : InPacket(m)[i] = [msg |-> m, pos |-> i]
BY ClientAssumption DEF InPacket, InUnit

LEMMA PacketType ==
  ASSUME TypeOK, NEW size \in Sizes
  PROVE  Packet(size) \in Seq(Nat) /\ Packet(size) # <<>>
<1>1. size \in Nat \ {0} /\ sends + 1 \in Nat
  BY ClientAssumption DEF TypeOK
<1>2. Packet(size) \in Seq(Nat) /\ Len(Packet(size)) = size
  BY <1>1 DEF Packet
<1> QED
  BY <1>1, <1>2

-----------------------------------------------------------------------------
(* Types, and how the handlers, the read and the signals of a connection   *)
(* go together.                                                            *)

(* The second signal of the failed read a connection was made in.          *)
ClosedBefore == IF madeIn = "inputFailed" THEN 1 ELSE 0

(* What a connection that is closed leaves behind; in which handlers a     *)
(* read is pending; and how often closed can have been signalled.          *)
LifeInv ==
  /\ conn = "closed" =>
       /\ pending = {}
       /\ handler \notin {"input", "callback", "reading", "undefined"}
  /\ handler \in {"input", "callback"} => "read" \notin pending
  /\ handler \in {"reading", "undefined"} => "read" \in pending
  /\ handler = "reading" => readBy # "loop"
  /\ handler = "undefined" => madeIn = "inputFailed"
  /\ conn = "connected" /\ handler = "inputFailed" =>
       madeIn = "inputFailed" /\ "read" \in pending /\ closed = 0
  /\ conn = "connected" /\ ("read" \in pending \/ handler \in {"input", "callback"}) =>
       closed <= ClosedBefore
  /\ conn = "connected" \/ handler = "inputFailed" => closed <= ClosedBefore + 1
  /\ closed <= ClosedBefore + 2

TypeInv == TypeOK /\ LifeInv

LEMMA TypeStep ==
  ASSUME TypeInv, [Next]_vars
  PROVE  TypeInv'
<1> USE DEF TypeInv, socketVars, bufferVars, inputVars, networkVars, epochVars,
            callerVars
<1>1. /\ TypeOK /\ LifeInv /\ InSize \in Nat \ {0} /\ closed \in Nat
      /\ <<>> \in Seq(Nat) /\ <<>> \in Seq(InUnit) /\ <<>> \in Seq(Nat \ {0})
  BY ClientAssumption DEF TypeInv, TypeOK
<1>2. CASE ServerSends
  <2>1. arrived + 1 \in Nat \ {0}
    BY <1>1 DEF TypeOK
  <2>2. inbox' \in Seq(InUnit)
    BY <1>1, <1>2, <2>1, InPacketType, ConcatProperties DEF ServerSends, TypeOK
  <2>3. TypeOK'
    BY <1>1, <1>2, <2>1, <2>2 DEF ServerSends, TypeOK
  <2>4. LifeInv'
    BY <1>1, <1>2 DEF ServerSends, LifeInv, ClosedBefore
  <2> QED
    BY <2>3, <2>4
<1>3. ASSUME NEW how \in {"eof", "reset"}, LinkFails(how)
      PROVE  TypeInv'
  <2>1. TypeOK'
    BY <1>1, <1>3 DEF LinkFails, TypeOK
  <2>2. LifeInv'
    BY <1>1, <1>3 DEF LinkFails, LifeInv, ClosedBefore
  <2> QED
    BY <2>1, <2>2
<1>4. CASE Connect
  <2>1. obuf \o next \in Seq(Nat)
    BY <1>1, ConcatProperties DEF TypeOK
  <2>2. TypeOK'
    <3>1. /\ conns' \in Nat /\ failed' \in {"no", "yes"}
          /\ madeIn' \in {"none", "sent", "inputFailed"}
          /\ staleIn' \in Seq(InUnit) /\ stale' \in Seq(Nat)
          /\ pending' \in SUBSET {"read", "write"}
      BY <1>1, <1>4, <2>1 DEF Connect, TypeOK
    <3>2. /\ conn' = "connected" /\ link' = "up" /\ wire' = <<>> /\ inbox' = <<>>
          /\ arrived' = 0 /\ got' = <<>> /\ accepted' = <<>> /\ closed' = 0
          /\ awaiting' = "no"
          /\ UNCHANGED <<mode, pinned, obuf, next, dser, handler, readBy, sends,
                         overtaken>>
      BY <1>4 DEF Connect
    <3>3. eof' \in BOOLEAN
      BY <1>4, Zenon DEF Connect
    <3> QED
      BY <1>1, <3>1, <3>2, <3>3 DEF TypeOK
  <2>3. LifeInv'
    BY <1>1, <1>4 DEF Connect, TypeOK, LifeInv, ClosedBefore
  <2> QED
    BY <2>2, <2>3
<1>5. ASSUME NEW size \in Sizes, SendAsync(size)
      PROVE  TypeInv'
  <2>1. /\ accepted' = accepted \o Packet(size)
        /\ sends' \in Nat
    BY <1>1, <1>5 DEF SendAsync, NewMessage, Packet, TypeOK
  <2>2. accepted' \in Seq(Nat) /\ obuf' \in Seq(Nat) /\ next' \in Seq(Nat)
    <3>1. Packet(size) \in Seq(Nat)
      BY <1>1, PacketType
    <3>2. /\ accepted \o Packet(size) \in Seq(Nat)
          /\ obuf \o Packet(size) \in Seq(Nat)
          /\ next \o Packet(size) \in Seq(Nat)
      BY <1>1, <3>1, ConcatProperties DEF TypeOK
    <3> QED
      BY <1>1, <1>5, <2>1, <3>2 DEF SendAsync, Store, TypeOK
  <2>3. pending' \in SUBSET {"read", "write"} /\ pinned' \in Seq(Nat)
    BY <1>1, <1>5, <2>2 DEF SendAsync, TypeOK
  <2>4. failed' \in {"no", "yes"} /\ overtaken' \in Nat
    BY <1>1, <1>5 DEF SendAsync, TypeOK
  <2>5. TypeOK'
    BY <1>1, <1>5, <2>1, <2>2, <2>3, <2>4 DEF SendAsync, TypeOK
  <2>6. "read" \in pending' <=> "read" \in pending
    BY <1>5 DEF SendAsync
  <2>7. LifeInv'
    BY <1>1, <1>5, <2>6 DEF SendAsync, LifeInv, ClosedBefore
  <2> QED
    BY <2>5, <2>7
<1>6. ASSUME NEW size \in Sizes, NEW k \in 0..(Len(obuf) + size), SendSync(size, k)
      PROVE  TypeInv'
  <2> DEFINE all == obuf \o Packet(size)
  <2>1. /\ accepted' = accepted \o Packet(size)
        /\ sends' \in Nat /\ k \in 0..Len(all)
        /\ wire' = wire \o SubSeq(all, 1, k)
        /\ obuf' = Rest(all, k)
        /\ WriteEnds(k, Len(all))
    <3>1. accepted' = accepted \o Packet(size) /\ sends' \in Nat
      BY <1>1, <1>6 DEF SendSync, NewMessage, Packet, TypeOK
    <3> QED
      BY <1>6, <3>1 DEF SendSync
  <2>2. all \in Seq(Nat) /\ accepted' \in Seq(Nat)
    BY <1>1, <2>1, PacketType, ConcatProperties DEF TypeOK
  <2> HIDE DEF all
  <2>3. obuf' \in Seq(Nat) /\ wire' \in Seq(Nat)
    <3>1. k \in Nat /\ wire \in Seq(Nat)
      BY <1>1, <2>1, <2>2 DEF TypeOK
    <3>2. SubSeq(all, 1, k) \in Seq(Nat)
      BY <2>1, <2>2, FirstOf
    <3> QED
      BY <2>1, <2>2, <3>1, <3>2, RestType, ConcatProperties
  <2>4. failed' \in {"no", "yes"} /\ overtaken' \in Nat
    BY <1>1, <1>6, <2>1 DEF SendSync, WriteEnds, TypeOK
  <2>5. TypeOK'
    <3>1. UNCHANGED <<mode, socketVars, next, inputVars, link, inbox, arrived,
                      epochVars, callerVars, closed>>
      BY <1>6 DEF SendSync
    <3>2. /\ accepted' \in Seq(Nat) /\ sends' \in Nat
          /\ obuf' \in Seq(Nat) /\ wire' \in Seq(Nat)
          /\ failed' \in {"no", "yes"} /\ overtaken' \in Nat
      BY <2>1, <2>2, <2>3, <2>4
    <3> QED
      BY <1>1, <3>1, <3>2 DEF TypeOK
  <2>6. LifeInv'
    BY <1>1, <1>6 DEF SendSync, LifeInv, ClosedBefore
  <2> QED
    BY <2>5, <2>6
<1>7. ASSUME NEW k \in 0..Len(obuf \o next), FlushCalled(k) \/ AutoSyncOn(k)
      PROVE  TypeInv'
  <2> DEFINE all == obuf \o next
  <2>1. /\ Flush(k) /\ mode' \in {"sync", "async"}
    BY <1>1, <1>7 DEF FlushCalled, AutoSyncOn, TypeOK
  <2>2. /\ k \in 0..Len(all)
        /\ WriteEnds(k, Len(all))
        /\ wire' = wire \o SubSeq(all, 1, k)
        /\ obuf' = Rest(obuf, k)
        /\ next' = IF k <= Len(obuf) THEN next ELSE Rest(next, k - Len(obuf))
    BY <2>1 DEF Flush
  <2>3. /\ all \in Seq(Nat) /\ obuf \in Seq(Nat) /\ next \in Seq(Nat)
        /\ SubSeq(all, 1, k) \in Seq(Nat)
        /\ k > Len(obuf) => k - Len(obuf) \in Nat
    <3>1. all \in Seq(Nat) /\ obuf \in Seq(Nat) /\ next \in Seq(Nat)
      BY <1>1, ConcatProperties DEF TypeOK
    <3>2. SubSeq(all, 1, k) \in Seq(Nat)
      BY <2>2, <3>1, FirstOf
    <3> QED
      BY <2>2, <3>1, <3>2
  <2> HIDE DEF all
  <2>4. obuf' \in Seq(Nat) /\ wire' \in Seq(Nat)
    <3>1. k \in Nat /\ wire \in Seq(Nat)
      BY <1>1, <2>2 DEF TypeOK
    <3> QED
      BY <2>2, <2>3, <3>1, RestType, ConcatProperties
  <2>5. next' \in Seq(Nat)
    BY <2>2, <2>3, RestType
  <2>6. failed' \in {"no", "yes"}
    BY <1>1, <2>2 DEF WriteEnds, TypeOK
  <2>7. TypeOK'
    <3>1. /\ pending' = pending \ {"write"} /\ pinned' = <<>>
          /\ awaiting' \in {"flushed", awaiting}
          /\ UNCHANGED <<conn, inputVars, link, inbox, arrived, epochVars, readBy,
                         sends, accepted, closed, overtaken>>
      BY <2>1 DEF Flush
    <3> QED
      BY <1>1, <2>1, <2>4, <2>5, <2>6, <3>1 DEF TypeOK
  <2>8. LifeInv'
    BY <1>1, <2>1 DEF Flush, LifeInv, ClosedBefore
  <2> QED
    BY <2>7, <2>8
<1>8. CASE AutoSyncOff \/ EndOutput \/ EndCallback \/ InputCorrupt
  <2>1. TypeOK'
    <3>1. /\ mode' \in {"sync", "async"}
          /\ handler' \in {"none", "input", "callback", "inputFailed", "sent",
                           "reading", "undefined"}
          /\ UNCHANGED <<socketVars, bufferVars, dser, got, networkVars, epochVars,
                         callerVars, sends, accepted, closed, failed, overtaken>>
      BY <1>1, <1>8 DEF AutoSyncOff, EndOutput, EndCallback, InputCorrupt, TypeOK
    <3> QED
      BY <1>1, <3>1 DEF TypeOK
  <2>2. LifeInv'
    BY <1>1, <1>8 DEF AutoSyncOff, EndOutput, EndCallback, InputCorrupt, LifeInv,
                      ClosedBefore
  <2> QED
    BY <2>1, <2>2
<1>9. CASE Close \/ SlotThrows \/ OnInputFails
  <2>1. LifeInv' /\ closed' \in 0..3
    <3>1. CASE Close
      BY <1>1, <3>1 DEF Close, ClosePeer, LifeInv, ClosedBefore, TypeOK
    <3>2. CASE SlotThrows
      BY <1>1, <3>2 DEF SlotThrows, ClosePeer, LifeInv, ClosedBefore, TypeOK
    <3>3. CASE OnInputFails
      BY <1>1, <3>3 DEF OnInputFails, ClosePeer, LifeInv, ClosedBefore, TypeOK
    <3> QED
      BY <1>9, <3>1, <3>2, <3>3
  <2>2. TypeOK'
    <3>1. /\ conn' = "closed" /\ pending' = {} /\ pinned' = <<>>
          /\ handler' \in {"none", "input", "callback", "inputFailed", "sent",
                           "reading", "undefined"}
          /\ failed' \in {"no", "yes"}
          /\ UNCHANGED <<mode, bufferVars, dser, got, networkVars, epochVars,
                         callerVars, sends, accepted, overtaken>>
      BY <1>1, <1>9 DEF Close, SlotThrows, OnInputFails, ClosePeer, TypeOK
    <3> QED
      BY <1>1, <2>1, <3>1 DEF TypeOK
  <2> QED
    BY <2>1, <2>2
<1>10. ASSUME NEW k \in 1..Len(pinned), OnOutput(k)
       PROVE  TypeInv'
  <2>1. SubSeq(pinned, 1, k) \in Seq(Nat) /\ Rest(obuf, k) \in Seq(Nat)
    <3>1. pinned \in Seq(Nat) /\ obuf \in Seq(Nat) /\ k \in 0..Len(pinned) /\ k \in Nat
      BY <1>1 DEF TypeOK
    <3> QED
      BY <3>1, RestType, FirstOf
  <2>2. wire' \in Seq(Nat) /\ obuf' \in Seq(Nat) /\ next' \in Seq(Nat)
    BY <1>1, <1>10, <2>1, ConcatProperties DEF OnOutput, Refill, TypeOK
  <2>3. TypeOK'
    BY <1>1, <1>10, <2>2 DEF OnOutput, TypeOK
  <2>4. LifeInv'
    BY <1>1, <1>10 DEF OnOutput, LifeInv, ClosedBefore
  <2> QED
    BY <2>3, <2>4
<1>11. ASSUME NEW k \in 0..Len(pinned), OnOutputFails(k)
       PROVE  TypeInv'
  <2>1. wire' \in Seq(Nat) /\ obuf' \in Seq(Nat) /\ next' \in Seq(Nat)
    <3>1. CASE UNCHANGED <<obuf, next, wire>>
      BY <1>1, <3>1 DEF TypeOK
    <3>2. CASE k \in 1..Len(pinned) /\ wire' = wire \o SubSeq(pinned, 1, k) /\ Refill(k)
      <4>1. SubSeq(pinned, 1, k) \in Seq(Nat) /\ Rest(obuf, k) \in Seq(Nat)
        <5>1. pinned \in Seq(Nat) /\ obuf \in Seq(Nat) /\ k \in 0..Len(pinned) /\ k \in Nat
          BY <1>1, <3>2 DEF TypeOK
        <5> QED
          BY <5>1, RestType, FirstOf
      <4> QED
        BY <1>1, <3>2, <4>1, ConcatProperties DEF Refill, TypeOK
    <3> QED
      BY <1>11, <3>1, <3>2 DEF OnOutputFails
  <2>2. LifeInv' /\ closed' \in 0..3
    BY <1>1, <1>11 DEF OnOutputFails, ClosePeer, LifeInv, ClosedBefore, TypeOK
  <2>3. TypeOK'
    BY <1>1, <1>11, <2>1, <2>2 DEF OnOutputFails, ClosePeer, TypeOK
  <2> QED
    BY <2>2, <2>3
<1>12. ASSUME NEW n \in 0..Len(inbox), OnInput(n)
       PROVE  TypeInv'
  <2>1. dser' \in Seq(InUnit) /\ inbox' \in Seq(InUnit)
    <3>1. n \in Nat /\ SubSeq(inbox, 1, n) \in Seq(InUnit)
      BY <1>1, FirstOf DEF TypeOK
    <3> QED
      BY <1>1, <1>12, <3>1, RestType, ConcatProperties DEF OnInput, Read, TypeOK
  <2>2. TypeOK'
    BY <1>1, <1>12, <2>1 DEF OnInput, Read, TypeOK
  <2>3. LifeInv'
    BY <1>1, <1>12 DEF OnInput, Read, LifeInv, ClosedBefore
  <2> QED
    BY <2>2, <2>3
<1>13. CASE Dispatch \/ ReadReturns
  <2>1. /\ dser' = Rest(dser, InSize) /\ got' = Append(got, dser[1].msg)
        /\ dser \in Seq(InUnit) /\ Len(dser) >= InSize
    BY <1>1, <1>13 DEF Dispatch, ReadReturns, TakeMessage, TypeOK
  <2>2. dser[1] \in InUnit
    <3>1. 1 \in 1..Len(dser)
      BY <1>1, <2>1
    <3> QED
      BY <2>1, <3>1, ElementOfSeq
  <2>3. dser' \in Seq(InUnit)
    BY <1>1, <2>1, RestType
  <2>4. got' \in Seq(Nat \ {0})
    <3>1. dser[1].msg \in Nat \ {0}
      BY <2>2 DEF InUnit
    <3> QED
      BY <1>1, <2>1, <3>1, AppendProperties DEF TypeOK
  <2>5. TypeOK'
    <3>1. /\ handler' \in {"none", "callback"}
          /\ UNCHANGED <<mode, socketVars, bufferVars, networkVars, epochVars,
                         callerVars, sends, accepted, closed, failed, overtaken>>
      BY <1>13 DEF Dispatch, ReadReturns
    <3> QED
      BY <1>1, <2>3, <2>4, <3>1 DEF TypeOK
  <2>6. LifeInv'
    BY <1>1, <1>13 DEF Dispatch, ReadReturns, LifeInv, ClosedBefore
  <2> QED
    BY <2>5, <2>6
<1>14. CASE EndInput
  <2>1. TypeOK'
    BY <1>1, <1>14 DEF EndInput, EndsInput, TypeOK
  <2>2. LifeInv'
    BY <1>1, <1>14 DEF EndInput, EndsInput, LifeInv, ClosedBefore
  <2> QED
    BY <2>1, <2>2
<1>15. CASE EndInputEof
  <2>1. LifeInv' /\ closed' \in 0..3
    BY <1>1, <1>15 DEF EndInputEof, EndsInput, LifeInv, ClosedBefore, TypeOK
  <2>2. TypeOK'
    BY <1>1, <1>15, <2>1 DEF EndInputEof, EndsInput, TypeOK
  <2> QED
    BY <2>1, <2>2
<1>16. CASE EndInputFails
  <2>1. LifeInv' /\ closed' \in 0..3
    <3>1. /\ closed' = closed + 1
          /\ handler = "inputFailed"
          /\ handler' = IF "write" \in pending THEN "undefined" ELSE "none"
          /\ UNCHANGED <<conn, pending, madeIn>>
      BY <1>16 DEF EndInputFails
    <3> QED
      BY <1>1, <3>1 DEF LifeInv, ClosedBefore, TypeOK
  <2>2. TypeOK'
    <3>1. /\ handler' \in {"undefined", "none"}
          /\ UNCHANGED <<mode, socketVars, dser, got, networkVars, staleIn, conns,
                         madeIn, eof, callerVars, sends, failed, overtaken>>
      BY <1>16 DEF EndInputFails
    <3>2. obuf' \in Seq(Nat) /\ next' \in Seq(Nat)
      BY <1>1, <1>16 DEF EndInputFails
    <3>3. stale' \in Seq(Nat) /\ accepted' \in Seq(Nat)
      <4>1. wire \in Seq(Nat) /\ stale \in Seq(Nat) /\ accepted \in Seq(Nat)
        BY <1>1 DEF TypeOK
      <4> QED
        BY <1>1, <1>16, <4>1 DEF EndInputFails
    <3> QED
      BY <1>1, <2>1, <3>1, <3>2, <3>3 DEF TypeOK
  <2> QED
    BY <2>1, <2>2
<1>17. CASE ReadMessage
  <2>1. TypeOK'
    BY <1>1, <1>17 DEF ReadMessage, TypeOK
  <2>2. LifeInv'
    BY <1>1, <1>17 DEF ReadMessage, LifeInv, ClosedBefore
  <2> QED
    BY <2>1, <2>2
<1>18. ASSUME NEW n \in 1..Len(inbox), ReadMore(n)
       PROVE  TypeInv'
  <2>1. dser' \in Seq(InUnit) /\ inbox' \in Seq(InUnit)
    <3>1. n \in Nat /\ SubSeq(inbox, 1, n) \in Seq(InUnit)
      BY <1>1, FirstOf DEF TypeOK
    <3> QED
      BY <1>1, <1>18, <3>1, RestType, ConcatProperties DEF ReadMore, TypeOK
  <2>2. TypeOK'
    BY <1>1, <1>18, <2>1 DEF ReadMore, TypeOK
  <2>3. LifeInv'
    BY <1>1, <1>18 DEF ReadMore, LifeInv, ClosedBefore
  <2> QED
    BY <2>2, <2>3
<1>19. CASE ReadThrows
  <2>1. TypeOK'
    <3>1. /\ pending' \in SUBSET {"read", "write"} /\ eof' \in BOOLEAN
          /\ readBy' \in {"loop", "call", "failed"}
      BY <1>1, <1>19 DEF ReadThrows, TypeOK
    <3>2. /\ handler' = "none"
          /\ UNCHANGED <<mode, conn, pinned, bufferVars, dser, got, networkVars, stale,
                         staleIn, conns, madeIn, awaiting, sends, accepted, closed,
                         failed, overtaken>>
      BY <1>19 DEF ReadThrows
    <3> QED
      BY <1>1, <3>1, <3>2 DEF TypeOK
  <2>2. LifeInv'
    BY <1>1, <1>19 DEF ReadThrows, LifeInv, ClosedBefore
  <2> QED
    BY <2>1, <2>2
<1>20. CASE UNCHANGED vars
  <2>1. TypeOK'
    BY <1>1, <1>20 DEF vars, TypeOK
  <2>2. LifeInv'
    BY <1>1, <1>20 DEF vars, LifeInv, ClosedBefore
  <2> QED
    BY <2>1, <2>2
<1> QED
  BY <1>2, <1>3, <1>4, <1>5, <1>6, <1>7, <1>8, <1>9, <1>10, <1>11, <1>12, <1>13,
     <1>14, <1>15, <1>16, <1>17, <1>18, <1>19, <1>20 DEF Next

LEMMA InitTypes == Init => TypeInv
<1> SUFFICES ASSUME Init
             PROVE  TypeOK /\ LifeInv
  BY DEF TypeInv
<1>1. <<>> \in Seq(Nat) /\ <<>> \in Seq(InUnit) /\ <<>> \in Seq(Nat \ {0})
  OBVIOUS
<1>2. TypeOK
  <2>1. eof \in BOOLEAN
    BY Zenon DEF Init
  <2> QED
    BY <1>1, <2>1 DEF Init, TypeOK
<1>3. LifeInv
  BY DEF Init, LifeInv, ClosedBefore
<1> QED
  BY <1>2, <1>3

LEMMA TypeInvariant == Spec => []TypeInv
<1>1. Init => TypeInv
  BY InitTypes
<1>2. TypeInv /\ [Next]_vars => TypeInv'
  BY TypeStep
<1> QED
  BY <1>1, <1>2, PTL DEF Spec

(* The client keeps its types; closed is signalled at most three times for *)
(* one connection, once of them for the one before it.                     *)
THEOREM TypeCorrect == Spec => []TypeOK
BY TypeInvariant, PTL DEF TypeInv

-----------------------------------------------------------------------------
(* The two output buffers.                                                 *)

(* A blocking client has no write pending; the socket was given what the   *)
(* first buffer holds, unless onInput has cleared it; and while nothing    *)
(* has failed, what no write will take is nothing.                         *)
BufferInv ==
  /\ mode = "sync" => "write" \notin pending
  /\ handler # "undefined" /\ "write" \in pending => pinned = obuf /\ pinned # <<>>
  /\ "write" \notin pending => pinned = <<>>
  /\ failed = "no" /\ conn = "connected" /\ "write" \notin pending =>
       obuf = <<>> /\ next = <<>>

OutputInv == TypeInv /\ BufferInv /\ WireExact

LEMMA RestEmpty ==
  ASSUME NEW S, NEW s \in Seq(S), NEW k \in Nat, k >= Len(s)
  PROVE  Rest(s, k) = <<>>
BY RestType

(* A packet appended to the second buffer, or to the first one while the   *)
(* second is empty.                                                        *)
LEMMA StoredInSecond ==
  ASSUME NEW w \in Seq(Nat), NEW o \in Seq(Nat), NEW n \in Seq(Nat),
         NEW p \in Seq(Nat)
  PROVE  w \o o \o (n \o p) = (w \o o \o n) \o p
<1>1. w \o o \in Seq(Nat)
  BY Joined
<1> QED
  BY <1>1, JoinedThree

LEMMA StoredInFirst ==
  ASSUME NEW w \in Seq(Nat), NEW o \in Seq(Nat), NEW p \in Seq(Nat)
  PROVE  w \o (o \o p) \o <<>> = (w \o o \o <<>>) \o p
<1>1. w \o o \in Seq(Nat) /\ o \o p \in Seq(Nat) /\ w \o (o \o p) \in Seq(Nat)
  BY Joined
<1>2. w \o (o \o p) \o <<>> = w \o (o \o p) /\ w \o o \o <<>> = w \o o
  BY <1>1, Joined
<1>3. (w \o o) \o p = w \o (o \o p)
  BY JoinedThree
<1> QED
  BY <1>2, <1>3

(* The first k units of both buffers move to the wire.                     *)
LEMMA Flushed ==
  ASSUME NEW w \in Seq(Nat), NEW o \in Seq(Nat), NEW n \in Seq(Nat),
         NEW k \in 0..Len(o \o n)
  PROVE  LET left == IF k <= Len(o) THEN n ELSE Rest(n, k - Len(o))
         IN  (w \o SubSeq(o \o n, 1, k)) \o Rest(o, k) \o left = w \o o \o n
<1> DEFINE f == SubSeq(o \o n, 1, k)
           r == Rest(n, k - Len(o))
           q == Rest(o, k)
<1>1. /\ Len(o) \in Nat /\ Len(n) \in Nat /\ k \in 0..(Len(o) + Len(n))
      /\ o \o n \in Seq(Nat)
  BY ConcatProperties
<1>2. f \in Seq(Nat) /\ q \in Seq(Nat)
  <2>1. f \in Seq(Nat)
    BY <1>1, FirstOf
  <2>2. k \in Nat
    BY <1>1
  <2> QED
    BY <2>1, <2>2, RestType
<1>3. CASE k <= Len(o)
  <2>1. f \o q = o
    <3>1. k \in 0..Len(o)
      BY <1>1, <1>3
    <3> QED
      BY <3>1, FirstOfFirst DEF Rest
  <2> HIDE DEF f, q
  <2>2. (w \o f) \o q = w \o (f \o q)
    BY <1>2, JoinedThree
  <2>3. (w \o f) \o q \o n = w \o o \o n
    BY <2>1, <2>2
  <2> QED
    BY <1>3, <2>3 DEF f, q
<1>4. CASE ~(k <= Len(o))
  <2>1. /\ k \in Len(o)..(Len(o) + Len(n)) /\ k - Len(o) \in Nat
        /\ k \in Nat /\ k >= Len(o)
    BY <1>1, <1>4
  <2>2. r \in Seq(Nat)
    BY <2>1, RestType
  <2>10. q = <<>>
    BY <2>1, RestEmpty
  <2>3. f \o r = o \o n
    BY <2>1, FirstOfBoth DEF Rest
  <2> HIDE DEF f, q, r
  <2>4. w \o f \in Seq(Nat)
    BY <1>2, Joined
  <2>5. (w \o f) \o <<>> = w \o f
    BY <2>4, Joined
  <2>6. (w \o f) \o r = w \o (f \o r)
    <3>1. \A x, y, z \in Seq(Nat) : (x \o y) \o z = x \o (y \o z)
      BY JoinedThree
    <3>2. w \in Seq(Nat) /\ f \in Seq(Nat)
      BY <1>2
    <3> QED
      BY <2>2, <3>1, <3>2, ZenonT(40)
  <2>7. w \o (o \o n) = w \o o \o n
    BY JoinedThree
  <2>8. (w \o f) \o q \o r = w \o o \o n
    BY <2>3, <2>5, <2>6, <2>7, <2>10
  <2> QED
    BY <1>4, <2>8 DEF f, q, r
<1> QED
  BY <1>3, <1>4

(* The first k units of one buffer move to the wire, and the other one is  *)
(* appended to what is left.                                               *)
LEMMA Refilled ==
  ASSUME NEW w \in Seq(Nat), NEW o \in Seq(Nat), NEW n \in Seq(Nat),
         NEW k \in 0..Len(o)
  PROVE  (w \o SubSeq(o, 1, k)) \o (Rest(o, k) \o n) \o <<>> = w \o o \o n
<1> DEFINE f == SubSeq(o, 1, k)
           r == Rest(o, k)
<1>1. f \in Seq(Nat) /\ r \in Seq(Nat)
  <2>1. k \in Nat
    OBVIOUS
  <2> QED
    BY <2>1, FirstOf, RestType
<1>2. f \o r = o
  BY FirstAndRest DEF Rest
<1> HIDE DEF f, r
<1>3. w \o f \in Seq(Nat)
  BY <1>1, Joined
<1>4. (w \o f) \o (r \o n) \in Seq(Nat)
  BY <1>1, <1>3, Joined
<1>5. (w \o f) \o (r \o n) \o <<>> = (w \o f) \o (r \o n)
  BY <1>4, Joined
<1>6. (w \o f) \o (r \o n) = ((w \o f) \o r) \o n
  BY <1>1, <1>3, JoinedThree, ZenonT(40)
<1>7. (w \o f) \o r = w \o (f \o r)
  BY <1>1, JoinedThree, ZenonT(40)
<1>8. ((w \o f) \o r) \o n = w \o o \o n
  BY <1>2, <1>7
<1> QED
  BY <1>5, <1>6, <1>8 DEF f, r

LEMMA BufferStep ==
  ASSUME TypeInv, BufferInv, [Next]_vars
  PROVE  BufferInv'
<1> USE DEF socketVars, bufferVars, inputVars, networkVars, epochVars, callerVars
<1>1. /\ TypeOK /\ LifeInv
      /\ pinned \in Seq(Nat) /\ obuf \in Seq(Nat) /\ next \in Seq(Nat)
  BY DEF TypeInv, TypeOK
<1>2. ASSUME NEW size \in Sizes, SendAsync(size)
      PROVE  BufferInv'
  <2>1. Packet(size) \in Seq(Nat) /\ Packet(size) # <<>>
    BY <1>1, PacketType
  <2>2. obuf \o Packet(size) # <<>>
    <3>1. /\ Len(obuf \o Packet(size)) = Len(obuf) + Len(Packet(size))
          /\ Len(obuf) \in Nat /\ Len(Packet(size)) \in Nat \ {0}
      BY <1>1, <2>1, ConcatProperties, EmptySeq
    <3> QED
      BY <3>1
  <2> QED
    BY <1>2, <2>2 DEF SendAsync, Store, AppRuns, BufferInv
<1>3. ASSUME NEW size \in Sizes, NEW k \in 0..(Len(obuf) + size), SendSync(size, k)
      PROVE  BufferInv'
  <2> DEFINE all == obuf \o Packet(size)
  <2>1. all \in Seq(Nat)
    BY <1>1, PacketType, ConcatProperties
  <2>2. k \in 0..Len(all) /\ obuf' = Rest(all, k) /\ WriteEnds(k, Len(all))
    BY <1>3 DEF SendSync
  <2> HIDE DEF all
  <2>3. failed' = "no" => failed = "no" /\ obuf' = <<>>
    BY <2>1, <2>2, RestEmpty DEF WriteEnds
  <2> QED
    BY <1>3, <2>3 DEF SendSync, BufferInv
<1>4. ASSUME NEW k \in 0..Len(obuf \o next), Flush(k)
      PROVE  BufferInv'
  <2>1. /\ k \in Nat /\ Len(obuf \o next) = Len(obuf) + Len(next)
        /\ Len(obuf) \in Nat /\ Len(next) \in Nat
    BY <1>1, ConcatProperties
  <2>2. /\ WriteEnds(k, Len(obuf \o next))
        /\ obuf' = Rest(obuf, k)
        /\ next' = IF k <= Len(obuf) THEN next ELSE Rest(next, k - Len(obuf))
        /\ "write" \notin pending' /\ pinned' = <<>>
    BY <1>4 DEF Flush
  <2>3. ASSUME failed' = "no"
        PROVE  obuf' = <<>> /\ next' = <<>>
    <3>1. k = Len(obuf) + Len(next)
      BY <2>1, <2>2, <2>3 DEF WriteEnds
    <3>2. obuf' = <<>>
      BY <1>1, <2>1, <2>2, <3>1, RestEmpty
    <3>3. next' = <<>>
      <4>1. CASE k <= Len(obuf)
        <5>1. Len(next) = 0
          BY <2>1, <3>1, <4>1
        <5> QED
          BY <1>1, <2>2, <4>1, <5>1, EmptySeq
      <4>2. CASE ~(k <= Len(obuf))
        <5>1. k - Len(obuf) = Len(next)
          BY <2>1, <3>1
        <5>2. Rest(next, Len(next)) = <<>>
          BY <1>1, <2>1, RestEmpty
        <5> QED
          BY <2>2, <4>2, <5>1, <5>2
      <4> QED
        BY <4>1, <4>2
    <3> QED
      BY <3>2, <3>3
  <2> QED
    BY <2>2, <2>3 DEF BufferInv
<1>5. ASSUME NEW k \in 1..Len(pinned), OnOutput(k)
      PROVE  BufferInv'
  BY <1>5 DEF OnOutput, Refill, BufferInv
<1>6. CASE Connect
  BY <1>1, <1>6 DEF Connect, LifeInv, BufferInv
<1>7. CASE Close \/ SlotThrows \/ OnInputFails
  BY <1>1, <1>7 DEF Close, SlotThrows, OnInputFails, ClosePeer, BufferInv
<1>8. ASSUME NEW k \in 0..Len(pinned), OnOutputFails(k)
      PROVE  BufferInv'
  BY <1>8 DEF OnOutputFails, ClosePeer, BufferInv
<1>9. CASE EndInputFails
  BY <1>9 DEF EndInputFails, BufferInv
<1>10. ASSUME NEW n \in 0..Len(inbox), OnInput(n)
       PROVE  BufferInv'
  BY <1>10 DEF OnInput, Read, BufferInv
<1>11. ASSUME NEW n \in 1..Len(inbox), ReadMore(n)
       PROVE  BufferInv'
  BY <1>11 DEF ReadMore, BufferInv
<1>12. ASSUME NEW how \in {"eof", "reset"}, LinkFails(how)
       PROVE  BufferInv'
  BY <1>12 DEF LinkFails, BufferInv
<1>13. CASE ServerSends \/ AutoSyncOff \/ EndOutput \/ Dispatch \/ EndCallback
  BY <1>13 DEF ServerSends, AutoSyncOff, EndOutput, Dispatch, EndCallback, BufferInv
<1>14. CASE InputCorrupt \/ EndInput \/ EndInputEof
  BY <1>14 DEF InputCorrupt, EndInput, EndInputEof, EndsInput, BufferInv
<1>15. CASE ReadMessage \/ ReadReturns \/ ReadThrows
  BY <1>15 DEF ReadMessage, ReadReturns, ReadThrows, BufferInv
<1>16. CASE UNCHANGED vars
  BY <1>16 DEF vars, BufferInv
<1> QED
  BY <1>2, <1>3, <1>4, <1>5, <1>6, <1>7, <1>8, <1>9, <1>10, <1>11, <1>12, <1>13,
     <1>14, <1>15, <1>16 DEF Next, FlushCalled, AutoSyncOn

LEMMA WireStep ==
  ASSUME OutputInv, [Next]_vars
  PROVE  WireExact'
<1> USE DEF socketVars, bufferVars, inputVars, networkVars, epochVars, callerVars
<1>1. /\ TypeOK /\ BufferInv /\ WireExact
      /\ wire \in Seq(Nat) /\ obuf \in Seq(Nat) /\ next \in Seq(Nat)
      /\ stale \in Seq(Nat) /\ accepted \in Seq(Nat) /\ pinned \in Seq(Nat)
      /\ overtaken \in Nat
  BY DEF OutputInv, TypeInv, TypeOK
<1>2. ASSUME NEW p \in Seq(Nat)
      PROVE  (stale \o accepted) \o p = stale \o (accepted \o p)
  <2>1. stale \in Seq(Nat) /\ accepted \in Seq(Nat)
    BY <1>1
  <2> QED
    BY <1>2, <2>1, JoinedThree
<1>3. ASSUME NEW size \in Sizes, SendAsync(size)
      PROVE  WireExact'
  <2>1. Packet(size) \in Seq(Nat)
    BY <1>1, PacketType
  <2>2. accepted' = accepted \o Packet(size)
    BY <1>3 DEF SendAsync, NewMessage, Packet
  <2>3. overtaken' = IF Overtakes THEN overtaken + 1 ELSE overtaken
    BY <1>3 DEF SendAsync
  <2>4. overtaken' > 0 => failed' = "yes"
    BY <1>1, <1>3, <2>3 DEF SendAsync, Overtakes, BufferInv, WireExact, TypeOK
  <2>5. ASSUME overtaken' = 0
        PROVE  wire' \o obuf' \o next' = stale' \o accepted'
    <3>1. overtaken = 0 /\ ~Overtakes
      BY <1>1, <2>3, <2>5
    <3>2. wire \o obuf \o next = stale \o accepted
      BY <1>1, <1>3, <3>1 DEF SendAsync, WireExact
    <3>3. /\ wire \o obuf \o (next \o Packet(size)) = stale' \o accepted'
          /\ next = <<>> => wire \o (obuf \o Packet(size)) \o next = stale' \o accepted'
      <4>1. stale' \o accepted' = (stale \o accepted) \o Packet(size)
        BY <1>2, <1>3, <2>1, <2>2 DEF SendAsync
      <4>2. wire \in Seq(Nat) /\ obuf \in Seq(Nat) /\ next \in Seq(Nat)
        BY <1>1
      <4>3. wire \o obuf \o (next \o Packet(size)) = (wire \o obuf \o next) \o Packet(size)
        BY <2>1, <4>2, StoredInSecond, SMTT(30)
      <4>4. wire \o (obuf \o Packet(size)) \o <<>> = (wire \o obuf \o <<>>) \o Packet(size)
        BY <2>1, <4>2, StoredInFirst, Zenon
      <4> QED
        BY <3>2, <4>1, <4>3, <4>4, Zenon
    <3> QED
      BY <1>3, <3>1, <3>3 DEF SendAsync, Store, Overtakes
  <2> QED
    BY <2>4, <2>5 DEF WireExact
<1>4. ASSUME NEW size \in Sizes, NEW k \in 0..(Len(obuf) + size), SendSync(size, k)
      PROVE  WireExact'
  <2> DEFINE p   == Packet(size)
             all == obuf \o p
  <2>1. p \in Seq(Nat) /\ all \in Seq(Nat)
    BY <1>1, PacketType, ConcatProperties
  <2>2. /\ accepted' = accepted \o p
        /\ overtaken' = IF Overtakes THEN overtaken + 1 ELSE overtaken
        /\ k \in 0..Len(all) /\ obuf' = Rest(all, k)
        /\ wire' = wire \o SubSeq(all, 1, k)
        /\ WriteEnds(k, Len(all))
        /\ UNCHANGED <<next, stale>>
    BY <1>4 DEF SendSync, NewMessage, Packet
  <2> HIDE DEF p, all
  <2>3. overtaken' > 0 => failed' = "yes"
    BY <1>1, <1>4, <2>2 DEF SendSync, Overtakes, BufferInv, WireExact, WriteEnds, TypeOK
  <2>4. ASSUME overtaken' = 0
        PROVE  wire' \o obuf' \o next' = stale' \o accepted'
    <3>1. overtaken = 0 /\ next = <<>>
      BY <1>1, <1>4, <2>2, <2>4 DEF SendSync, BufferInv, Overtakes
    <3>2. wire \o obuf \o next = stale \o accepted
      BY <1>1, <1>4, <3>1 DEF SendSync, WireExact
    <3>3. wire \o all \o next = stale' \o accepted'
      <4>1. stale' \o accepted' = (stale \o accepted) \o p
        BY <1>2, <2>1, <2>2
      <4>2. wire \o (obuf \o p) \o <<>> = (wire \o obuf \o <<>>) \o p
        <5>1. wire \in Seq(Nat) /\ obuf \in Seq(Nat)
          BY <1>1
        <5> QED
          BY <2>1, <5>1, StoredInFirst, Zenon
      <4> QED
        BY <3>1, <3>2, <4>1, <4>2, Zenon DEF all
    <3>4. wire' \o obuf' = wire \o all
      <4>1. SubSeq(all, 1, k) \in Seq(Nat) /\ Rest(all, k) \in Seq(Nat)
        <5>1. k \in 0..Len(all) /\ k \in Nat
          BY <2>1, <2>2
        <5> QED
          BY <2>1, <5>1, FirstOf, RestType
      <4>2. SubSeq(all, 1, k) \o Rest(all, k) = all
        BY <2>1, <2>2, FirstAndRest DEF Rest
      <4> QED
        <5>1. wire \in Seq(Nat)
          BY <1>1
        <5>2. (wire \o SubSeq(all, 1, k)) \o Rest(all, k) = wire \o all
          <6>1. (wire \o SubSeq(all, 1, k)) \o Rest(all, k)
                  = wire \o (SubSeq(all, 1, k) \o Rest(all, k))
            BY <4>1, <5>1, JoinedThree, Zenon
          <6> QED
            BY <4>2, <6>1
        <5> QED
          BY <2>2, <5>2
    <3> QED
      BY <2>2, <3>3, <3>4
  <2> QED
    BY <2>3, <2>4 DEF WireExact
<1>5. ASSUME NEW k \in 0..Len(obuf \o next), Flush(k)
      PROVE  WireExact'
  <2>1. wire' \o obuf' \o next' = wire \o obuf \o next
    <3>1. wire \in Seq(Nat) /\ obuf \in Seq(Nat) /\ next \in Seq(Nat)
      BY <1>1
    <3>2. /\ wire' = wire \o SubSeq(obuf \o next, 1, k)
          /\ obuf' = Rest(obuf, k)
          /\ next' = IF k <= Len(obuf) THEN next ELSE Rest(next, k - Len(obuf))
      BY <1>5 DEF Flush
    <3> QED
      BY <3>1, <3>2, Flushed, Zenon
  <2> QED
    BY <1>1, <1>5, <2>1 DEF Flush, WriteEnds, WireExact, TypeOK
<1>6. ASSUME NEW k \in 1..Len(pinned), OnOutput(k)
      PROVE  WireExact'
  <2>1. pinned = obuf /\ k \in 0..Len(obuf)
    BY <1>1, <1>6 DEF OnOutput, BufferInv
  <2>2. wire' \o obuf' \o next' = wire \o obuf \o next
    <3>1. wire \in Seq(Nat) /\ obuf \in Seq(Nat) /\ next \in Seq(Nat)
      BY <1>1
    <3>2. wire' = wire \o SubSeq(obuf, 1, k) /\ obuf' = Rest(obuf, k) \o next /\ next' = <<>>
      BY <1>6, <2>1 DEF OnOutput, Refill
    <3> QED
      BY <2>1, <3>1, <3>2, Refilled, ZenonT(40)
  <2> QED
    BY <1>1, <1>6, <2>2 DEF OnOutput, WireExact
<1>7. CASE Connect
  <2>1. obuf \o next \in Seq(Nat) /\ <<>> \in Seq(Nat)
    BY <1>1, ConcatProperties
  <2>2. <<>> \o obuf = obuf /\ (obuf \o next) \o <<>> = obuf \o next
    BY <1>1, <2>1, ConcatEmptySeq
  <2>3. wire' \o obuf' \o next' = stale' \o accepted'
    BY <1>7, <2>2 DEF Connect
  <2>4. overtaken' > 0 => failed' = "yes"
    BY <1>1, <1>7 DEF Connect, WireExact
  <2> QED
    BY <2>3, <2>4 DEF WireExact
<1>8. CASE Close \/ SlotThrows \/ OnInputFails
  BY <1>1, <1>8 DEF Close, SlotThrows, OnInputFails, ClosePeer, WireExact
<1>9. ASSUME NEW k \in 0..Len(pinned), OnOutputFails(k)
      PROVE  WireExact'
  BY <1>1, <1>9 DEF OnOutputFails, ClosePeer, WireExact
<1>10. CASE EndInputFails
  <2>1. wire \o <<>> \o <<>> = wire \o <<>>
    <3>1. wire \o <<>> = wire
      BY <1>1, ConcatEmptySeq
    <3> QED
      BY <3>1
  <2>2. conn = "connected" =>
          /\ wire' = wire /\ obuf' = <<>> /\ next' = <<>>
          /\ stale' = wire /\ accepted' = <<>>
    BY <1>10 DEF EndInputFails
  <2> QED
    BY <1>1, <1>10, <2>1, <2>2 DEF EndInputFails, WireExact
<1>11. ASSUME NEW n \in 0..Len(inbox), OnInput(n)
       PROVE  WireExact'
  BY <1>1, <1>11 DEF OnInput, Read, WireExact
<1>12. ASSUME NEW n \in 1..Len(inbox), ReadMore(n)
       PROVE  WireExact'
  BY <1>1, <1>12 DEF ReadMore, WireExact
<1>13. ASSUME NEW how \in {"eof", "reset"}, LinkFails(how)
       PROVE  WireExact'
  BY <1>1, <1>13 DEF LinkFails, WireExact
<1>14. CASE ServerSends \/ AutoSyncOff \/ EndOutput \/ Dispatch \/ EndCallback
  BY <1>1, <1>14 DEF ServerSends, AutoSyncOff, EndOutput, Dispatch, EndCallback,
                     WireExact
<1>15. CASE InputCorrupt \/ EndInput \/ EndInputEof
  BY <1>1, <1>15 DEF InputCorrupt, EndInput, EndInputEof, EndsInput, WireExact
<1>16. CASE ReadMessage \/ ReadReturns \/ ReadThrows
  BY <1>1, <1>16 DEF ReadMessage, ReadReturns, ReadThrows, WireExact
<1>17. CASE UNCHANGED vars
  BY <1>1, <1>17 DEF vars, WireExact
<1> QED
  BY <1>3, <1>4, <1>5, <1>6, <1>7, <1>8, <1>9, <1>10, <1>11, <1>12, <1>13,
     <1>14, <1>15, <1>16, <1>17 DEF Next, FlushCalled, AutoSyncOn

LEMMA OutputInvariant == Spec => []OutputInv
<1>1. Init => BufferInv /\ WireExact
  BY DEF Init, BufferInv, WireExact
<1>2. OutputInv /\ [Next]_vars => OutputInv'
  BY TypeStep, BufferStep, WireStep DEF OutputInv
<1>3. TypeInv /\ BufferInv /\ WireExact => OutputInv
  BY DEF OutputInv
<1>4. OutputInv => TypeInv
  BY DEF OutputInv
<1> QED
  <2>1. Init => TypeInv
    BY InitTypes
  <2> QED
    BY <1>1, <1>2, <1>3, <2>1, PTL DEF Spec

(* doSendMessage, onOutput, flush and close leave the buffer of a pending  *)
(* write alone; only a client that has connected and sent in the slot of   *)
(* closed loses it, in onInput.                                            *)
THEOREM PinnedLeftAlone == Spec => []PinnedUntouched
<1>1. OutputInv => PinnedUntouched
  BY DEF OutputInv, TypeInv, LifeInv, BufferInv, PinnedUntouched, TypeOK
<1> QED
  BY <1>1, OutputInvariant, PTL

(* The wire carries the messages in the order in which they were sent,     *)
(* whatever their sizes and however much of a buffer a write takes, until  *)
(* something fails.                                                        *)
THEOREM WireCarriesAll == Spec => []WireExact
BY OutputInvariant, PTL DEF OutputInv

-----------------------------------------------------------------------------
(* The messages that arrive.                                               *)

(* The units received over this connection and not yet dispatched, if the  *)
(* deserializer held nothing when it was made.                             *)
Coming == dser \o inbox

(* The units of the messages behind the first g and before message m.      *)
Between(g, m) == (m - g - 1) * InSize

(* The messages dispatched are the first ones, and what is coming are the  *)
(* units of the others, each at its place.                                 *)
InboundInv ==
  staleIn = <<>> =>
    /\ Len(got) <= arrived
    /\ \A i \in 1..Len(got) : got[i] = i
    /\ Len(Coming) = Between(Len(got), arrived + 1)
    /\ \A i \in 1..Len(Coming) :
         /\ Coming[i].msg > Len(got)
         /\ i = Between(Len(got), Coming[i].msg) + Coming[i].pos

LEMMA BetweenFacts ==
  ASSUME NEW g \in Nat, NEW m \in Nat, m > g
  PROVE  /\ Between(g, m) \in Nat
         /\ Between(g, m + 1) = Between(g, m) + InSize
         /\ m > g + 1 => Between(g, m) >= InSize
         /\ Between(g, m) = Between(g + 1, m) + InSize
         /\ Between(g, m) = 0 => m = g + 1
<1>1. InSize \in Nat \ {0}
  BY ClientAssumption
<1>2. ASSUME NEW a \in Int, NEW b \in Nat \ {0}
      PROVE  (a + 1) * b = a * b + b /\ a * b \in Int
  OBVIOUS
<1>3. ASSUME NEW a \in Nat, NEW b \in Nat \ {0}
      PROVE  a * b \in Nat /\ (a # 0 => a * b >= b) /\ 0 * b = 0
  OBVIOUS
<1> DEFINE a == m - g - 1
<1>4. a \in Nat /\ a - 1 \in Int /\ m - (g + 1) - 1 = a - 1 /\ (m + 1) - g - 1 = a + 1
  OBVIOUS
<1>5. Between(g, m) = a * InSize
  BY DEF Between
<1>6. Between(g, m + 1) = (a + 1) * InSize /\ Between(g + 1, m) = (a - 1) * InSize
  BY <1>4 DEF Between
<1> HIDE DEF a
<1>7. a * InSize \in Nat /\ (a # 0 => a * InSize >= InSize)
  BY <1>1, <1>3, <1>4
<1>8. (a + 1) * InSize = a * InSize + InSize
  BY <1>1, <1>2, <1>4
<1>9. a * InSize = (a - 1) * InSize + InSize
  <2>1. ((a - 1) + 1) * InSize = (a - 1) * InSize + InSize
    BY <1>1, <1>2, <1>4
  <2>2. (a - 1) + 1 = a
    BY <1>4
  <2> QED
    BY <2>1, <2>2
<1>10. (m > g + 1 <=> a # 0) /\ (m = g + 1 <=> a = 0)
  BY <1>4 DEF a
<1> QED
  BY <1>1, <1>5, <1>6, <1>7, <1>8, <1>9, <1>10

LEMMA ComingType ==
  ASSUME TypeInv
  PROVE  /\ Coming \in Seq(InUnit) /\ Len(Coming) \in Nat
         /\ \A i \in 1..Len(Coming) : /\ Coming[i].msg \in Nat \ {0}
                                      /\ Coming[i].pos \in 1..InSize
<1>1. Coming \in Seq(InUnit)
  BY ConcatProperties DEF TypeInv, TypeOK, Coming
<1>2. \A i \in 1..Len(Coming) : Coming[i] \in InUnit
  BY <1>1, ElementOfSeq
<1> QED
  BY <1>1, <1>2 DEF InUnit

(* A step that leaves what has been dispatched and what is coming alone.   *)
LEMMA InboundUnchanged ==
  ASSUME InboundInv, Coming' = Coming, UNCHANGED <<staleIn, got, arrived>>
  PROVE  InboundInv'
BY DEF InboundInv

LEMMA InboundArrives ==
  ASSUME TypeInv, InboundInv, ServerSends
  PROVE  InboundInv'
<1> DEFINE g == Len(got)
           p == InPacket(arrived + 1)
<1>1. /\ dser \in Seq(InUnit) /\ inbox \in Seq(InUnit) /\ arrived \in Nat /\ g \in Nat
      /\ InSize \in Nat \ {0}
  BY ClientAssumption DEF TypeInv, TypeOK
<1>2. /\ inbox' = inbox \o p /\ arrived' = arrived + 1
      /\ UNCHANGED <<dser, got, staleIn>>
  BY DEF ServerSends, inputVars, epochVars
<1>3. /\ p \in Seq(InUnit) /\ Len(p) = InSize
      /\ \A i \in 1..InSize : p[i] = [msg |-> arrived + 1, pos |-> i]
  <2>1. arrived + 1 \in Nat \ {0}
    BY <1>1
  <2> QED
    BY <2>1, InPacketType
<1> HIDE DEF p
<1>4. Coming' = Coming \o p
  <2>1. dser \o (inbox \o p) = (dser \o inbox) \o p
    BY <1>1, <1>3, SMTT(20)
  <2> QED
    BY <1>2, <2>1 DEF Coming
<1> SUFFICES ASSUME staleIn = <<>>
             PROVE  InboundInv'
  BY <1>2 DEF InboundInv
<1>5. /\ g <= arrived
      /\ Len(Coming) = Between(g, arrived + 1)
      /\ \A i \in 1..Len(Coming) : /\ Coming[i].msg > g
                                   /\ i = Between(g, Coming[i].msg) + Coming[i].pos
  BY DEF InboundInv
<1>6. /\ Len(Coming') = Len(Coming) + InSize
      /\ \A i \in 1..(Len(Coming) + InSize) :
           Coming'[i] = IF i <= Len(Coming) THEN Coming[i] ELSE p[i - Len(Coming)]
  <2>1. Coming \in Seq(InUnit)
    BY ComingType
  <2> QED
    BY <1>3, <1>4, <2>1, ConcatProperties
<1> HIDE DEF g
<1>7. Len(Coming') = Between(g, arrived' + 1)
  BY <1>1, <1>2, <1>5, <1>6, BetweenFacts
<1>8. ASSUME NEW i \in 1..(Len(Coming) + InSize)
      PROVE  /\ Coming'[i].msg > g
             /\ i = Between(g, Coming'[i].msg) + Coming'[i].pos
  <2>1. Len(Coming) \in Nat /\ i \in Nat
    BY <1>1, ComingType
  <2>2. CASE i <= Len(Coming)
    <3>1. i \in 1..Len(Coming) /\ Coming'[i] = Coming[i]
      BY <1>6, <2>1, <2>2
    <3> QED
      BY <1>5, <3>1
  <2>3. CASE ~(i <= Len(Coming))
    <3>1. i - Len(Coming) \in 1..InSize
      BY <1>1, <2>1, <2>3
    <3>2. Coming'[i] = [msg |-> arrived + 1, pos |-> i - Len(Coming)]
      BY <1>3, <1>6, <2>3, <3>1
    <3> QED
      BY <1>1, <1>5, <2>1, <3>2
  <2> QED
    BY <2>2, <2>3
<1>9. /\ g <= arrived' /\ Len(got') = g
      /\ \A i \in 1..g : got'[i] = i
  BY <1>1, <1>2, <1>5 DEF InboundInv, g
<1> QED
  BY <1>6, <1>7, <1>8, <1>9 DEF InboundInv

(* The first message of the deserializer is the next one.                  *)
(* What is coming without the k units at the head of the deserializer.     *)
LEMMA RestOfComing ==
  ASSUME NEW s \in Seq(InUnit), NEW t \in Seq(InUnit), NEW k \in 0..Len(s)
  PROVE  /\ Len(SubSeq(s, k + 1, Len(s)) \o t) = Len(s \o t) - k
         /\ \A i \in 1..Len(SubSeq(s, k + 1, Len(s)) \o t) :
              /\ k + i \in 1..Len(s \o t)
              /\ (SubSeq(s, k + 1, Len(s)) \o t)[i] = (s \o t)[k + i]
BY RestOfTwo, SMTT(20)

LEMMA InboundTaken ==
  ASSUME TypeInv, InboundInv, TakeMessage, UNCHANGED <<inbox, staleIn, arrived>>
  PROVE  InboundInv'
<1> DEFINE g == Len(got)
<1>1. /\ dser \in Seq(InUnit) /\ inbox \in Seq(InUnit) /\ arrived \in Nat /\ g \in Nat
      /\ InSize \in Nat \ {0} /\ got \in Seq(Nat \ {0})
  BY ClientAssumption DEF TypeInv, TypeOK
<1>2. /\ Framed /\ Len(dser) >= InSize
      /\ got' = Append(got, dser[1].msg)
      /\ dser' = Rest(dser, InSize)
  BY DEF TakeMessage
<1>3. /\ Len(Coming') = Len(Coming) - InSize
      /\ \A i \in 1..Len(Coming') : /\ InSize + i \in 1..Len(Coming)
                                    /\ Coming'[i] = Coming[InSize + i]
  <2>1. InSize \in 0..Len(dser)
    BY <1>1, <1>2
  <2>2. Coming' = SubSeq(dser, InSize + 1, Len(dser)) \o inbox
    BY <1>2 DEF Coming, Rest
  <2> DEFINE u == dser \o inbox
             v == SubSeq(dser, InSize + 1, Len(dser)) \o inbox
  <2>3. /\ Len(v) = Len(u) - InSize
        /\ \A i \in 1..Len(v) : InSize + i \in 1..Len(u) /\ v[i] = u[InSize + i]
    <3>1. dser \in Seq(InUnit) /\ inbox \in Seq(InUnit)
      BY <1>1
    <3> QED
      BY <2>1, <3>1, RestOfComing
  <2>4. Coming' = v /\ Coming = u
    BY <2>2 DEF Coming
  <2> HIDE DEF u, v
  <2> QED
    BY <2>3, <2>4
<1>4. 1 \in 1..Len(Coming) /\ Coming[1] = dser[1] /\ Coming[1].pos = 1
  <2>1. 1 \in 1..Len(dser) /\ dser # <<>>
    BY <1>1, <1>2
  <2>2. 1 \in 1..Len(Coming) /\ Coming[1] = dser[1]
    BY <1>1, <2>1, ConcatProperties DEF Coming
  <2> QED
    BY <1>2, <2>1, <2>2 DEF Framed
<1> SUFFICES ASSUME staleIn = <<>>
             PROVE  InboundInv'
  BY DEF InboundInv
<1>5. /\ g <= arrived
      /\ Len(Coming) = Between(g, arrived + 1)
      /\ \A i \in 1..Len(Coming) : /\ Coming[i].msg > g
                                   /\ i = Between(g, Coming[i].msg) + Coming[i].pos
  BY DEF InboundInv
<1>6. \A i \in 1..Len(Coming) : /\ Coming[i].msg \in Nat \ {0}
                                /\ Coming[i].pos \in 1..InSize
  BY ComingType
<1> HIDE DEF g
<1>7. dser[1].msg = g + 1
  <2> DEFINE m == Coming[1].msg
  <2>1. m \in Nat /\ m > g
    BY <1>4, <1>5, <1>6
  <2>2. 1 = Between(g, m) + 1
    BY <1>4, <1>5
  <2>3. m = dser[1].msg
    BY <1>4
  <2> HIDE DEF m
  <2>4. Between(g, m) \in Nat /\ (Between(g, m) = 0 => m = g + 1)
    BY <1>1, <2>1, BetweenFacts
  <2> QED
    BY <2>2, <2>3, <2>4
<1>8. Len(got') = g + 1 /\ \A i \in 1..(g + 1) : got'[i] = i
  <2>1. got' = Append(got, g + 1) /\ g + 1 \in Nat \ {0}
    BY <1>1, <1>2, <1>7
  <2>2. \A i \in 1..g : got[i] = i
    BY DEF InboundInv, g
  <2> QED
    BY <1>1, <2>1, <2>2, AppendProperties DEF g
<1>9. g + 1 <= arrived
  <2>1. CASE g = arrived
    <3>1. Len(Coming) = 0
      BY <1>1, <1>5, <2>1 DEF Between
    <3> QED
      BY <1>4, <3>1
  <2> QED
    BY <1>1, <1>5, <2>1
<1>10. Len(Coming') = Between(g + 1, arrived + 1)
  <2> DEFINE m == arrived + 1
  <2>1. m \in Nat /\ m > g /\ g + 1 \in Nat /\ m > g + 1
    BY <1>1, <1>9
  <2>2. Len(Coming) = Between(g, m)
    BY <1>5
  <2> HIDE DEF m
  <2>3. Between(g, m) = Between(g + 1, m) + InSize /\ Between(g + 1, m) \in Nat
    BY <1>1, <2>1, BetweenFacts
  <2>4. Len(Coming) - InSize = Between(g + 1, m)
    BY <1>1, <2>2, <2>3
  <2> QED
    BY <1>3, <2>4 DEF m
<1>11. ASSUME NEW i \in 1..Len(Coming')
       PROVE  /\ Coming'[i].msg > g + 1
              /\ i = Between(g + 1, Coming'[i].msg) + Coming'[i].pos
  <2> DEFINE m == Coming[InSize + i].msg
             q == Coming[InSize + i].pos
  <2>1. /\ InSize + i \in 1..Len(Coming) /\ Coming'[i] = Coming[InSize + i]
        /\ i \in Nat \ {0}
    BY <1>3
  <2>2. m \in Nat /\ q \in 1..InSize /\ m > g /\ InSize + i = Between(g, m) + q
    BY <1>5, <1>6, <2>1
  <2> HIDE DEF m, q
  <2>3. Between(g, m) \in Nat /\ Between(g, m) = Between(g + 1, m) + InSize
    BY <1>1, <2>2, BetweenFacts
  <2>4. m # g + 1
    <3>1. Between(g, g + 1) = 0
      BY <1>1 DEF Between
    <3> QED
      BY <1>1, <2>1, <2>2, <3>1
  <2>5. m > g + 1
    BY <1>1, <2>2, <2>4
  <2>6. Between(g + 1, m) \in Nat
    <3>1. g + 1 \in Nat
      BY <1>1
    <3> QED
      BY <2>2, <2>5, <3>1, BetweenFacts
  <2>7. i = Between(g + 1, m) + q
    <3>1. InSize \in Nat /\ i \in Nat /\ q \in Nat
      BY <1>1, <2>1, <2>2
    <3>2. InSize + i = (Between(g + 1, m) + InSize) + q
      BY <2>2, <2>3
    <3> QED
      BY <2>6, <3>1, <3>2
  <2> QED
    BY <2>1, <2>5, <2>7 DEF m, q
<1> QED
  BY <1>8, <1>9, <1>10, <1>11 DEF InboundInv

(* Units move from the network into the deserializer.                      *)
LEMMA InboundRead ==
  ASSUME TypeInv, InboundInv, NEW n \in 0..Len(inbox),
         dser' = dser \o SubSeq(inbox, 1, n), inbox' = Rest(inbox, n),
         UNCHANGED <<staleIn, got, arrived>>
  PROVE  InboundInv'
<1> DEFINE f == SubSeq(inbox, 1, n)
           r == Rest(inbox, n)
<1>1. dser \in Seq(InUnit) /\ inbox \in Seq(InUnit) /\ n \in Nat
  BY DEF TypeInv, TypeOK
<1>2. f \in Seq(InUnit) /\ r \in Seq(InUnit)
  BY <1>1, FirstOf, RestType
<1>3. f \o r = inbox
  BY <1>1, FirstAndRest DEF Rest
<1> HIDE DEF f, r
<1>4. (dser \o f) \o r = dser \o (f \o r)
  BY <1>1, <1>2, SMTT(20)
<1>5. Coming' = Coming
  BY <1>3, <1>4 DEF Coming, f, r
<1> QED
  BY <1>5, InboundUnchanged

LEMMA InboundStep ==
  ASSUME TypeInv, InboundInv, [Next]_vars
  PROVE  InboundInv'
<1> USE DEF socketVars, bufferVars, inputVars, networkVars, epochVars, callerVars
<1>1. CASE ServerSends
  BY <1>1, InboundArrives
<1>2. CASE Dispatch \/ ReadReturns
  BY <1>2, InboundTaken DEF Dispatch, ReadReturns
<1>3. ASSUME NEW n \in 0..Len(inbox), OnInput(n)
      PROVE  InboundInv'
  BY <1>3, InboundRead DEF OnInput, Read
<1>4. ASSUME NEW n \in 1..Len(inbox), ReadMore(n)
      PROVE  InboundInv'
  <2>1. n \in 0..Len(inbox)
    BY DEF TypeInv, TypeOK
  <2> QED
    BY <1>4, <2>1, InboundRead DEF ReadMore
<1>5. CASE Connect
  <2> SUFFICES ASSUME staleIn' = <<>>
               PROVE  InboundInv'
    BY DEF InboundInv
  <2>1. dser' = <<>> /\ inbox' = <<>> /\ got' = <<>> /\ arrived' = 0
    BY <1>5 DEF Connect
  <2>2. Coming' = <<>>
    BY <2>1 DEF Coming
  <2>3. Between(0, 0 + 1) = 0
    BY ClientAssumption DEF Between
  <2> QED
    BY <2>1, <2>2, <2>3 DEF InboundInv
<1>6. ASSUME UNCHANGED <<dser, inbox, staleIn, got, arrived>>
      PROVE  InboundInv'
  BY <1>6, InboundUnchanged DEF Coming
<1>7. CASE \/ \E how \in {"eof", "reset"} : LinkFails(how)
           \/ \E size \in Sizes : SendAsync(size)
           \/ \E size \in Sizes : \E k \in 0..(Len(obuf) + size) : SendSync(size, k)
           \/ \E k \in 0..Len(obuf \o next) : Flush(k)
           \/ \E k \in 1..Len(pinned) : OnOutput(k)
           \/ \E k \in 0..Len(pinned) : OnOutputFails(k)
  BY <1>6, <1>7 DEF LinkFails, SendAsync, SendSync, Flush, OnOutput, OnOutputFails
<1>8. CASE AutoSyncOff \/ Close \/ EndOutput \/ SlotThrows \/ EndCallback \/ InputCorrupt
  BY <1>6, <1>8 DEF AutoSyncOff, Close, EndOutput, SlotThrows, EndCallback, InputCorrupt
<1>9. CASE EndInput \/ EndInputEof \/ OnInputFails \/ EndInputFails
  BY <1>6, <1>9 DEF EndInput, EndInputEof, EndsInput, OnInputFails, EndInputFails
<1>10. CASE ReadMessage \/ ReadThrows \/ UNCHANGED vars
  BY <1>6, <1>10 DEF ReadMessage, ReadThrows, vars
<1> QED
  BY <1>1, <1>2, <1>3, <1>4, <1>5, <1>7, <1>8, <1>9, <1>10
     DEF Next, FlushCalled, AutoSyncOn

LEMMA InboundInvariant == Spec => [](TypeInv /\ InboundInv)
<1>1. Init => InboundInv
  <2> SUFFICES ASSUME Init
               PROVE  InboundInv
    OBVIOUS
  <2>1. dser = <<>> /\ inbox = <<>> /\ got = <<>> /\ arrived = 0
    BY DEF Init
  <2>2. Coming = <<>>
    BY <2>1 DEF Coming
  <2>3. Between(0, 0 + 1) = 0
    BY ClientAssumption DEF Between
  <2> QED
    BY <2>1, <2>2, <2>3 DEF InboundInv
<1>2. TypeInv /\ InboundInv /\ [Next]_vars => InboundInv'
  BY InboundStep
<1> QED
  BY <1>1, <1>2, TypeInvariant, PTL DEF Spec

(* However the messages of a connection are cut by the network, and        *)
(* whether the loop or readMessage takes them, they are dispatched once    *)
(* each and in order, and none of their bytes is lost.                     *)
THEOREM InboundDispatchedOnce == Spec => []InboundExact
<1>1. TypeInv /\ InboundInv => InboundExact
  <2> SUFFICES ASSUME TypeInv, InboundInv, staleIn = <<>>
               PROVE  /\ got = [i \in 1..Len(got) |-> i]
                      /\ Framed
                      /\ Len(got) * InSize + Len(dser) + Len(inbox) = arrived * InSize
    BY DEF InboundExact
  <2> DEFINE g == Len(got)
  <2>1. /\ dser \in Seq(InUnit) /\ inbox \in Seq(InUnit) /\ arrived \in Nat /\ g \in Nat
        /\ InSize \in Nat \ {0} /\ got \in Seq(Nat \ {0})
    BY ClientAssumption DEF TypeInv, TypeOK
  <2>2. /\ g <= arrived
        /\ \A i \in 1..g : got[i] = i
        /\ Len(Coming) = Between(g, arrived + 1)
        /\ \A i \in 1..Len(Coming) : /\ Coming[i].msg > g
                                     /\ i = Between(g, Coming[i].msg) + Coming[i].pos
    BY DEF InboundInv
  <2>3. Len(Coming) = Len(dser) + Len(inbox) /\ Len(dser) \in Nat /\ Len(inbox) \in Nat
    BY <2>1, ConcatProperties DEF Coming
  <2>4. got = [i \in 1..g |-> i]
    BY <2>1, <2>2
  <2>5. Framed
    <3> SUFFICES ASSUME dser # <<>>
                 PROVE  dser[1].pos = 1
      BY DEF Framed
    <3> DEFINE m == Coming[1].msg
               q == Coming[1].pos
    <3>1. 1 \in 1..Len(Coming) /\ Coming[1] = dser[1]
      BY <2>1, <2>3, ConcatProperties DEF Coming
    <3>2. m \in Nat /\ q \in 1..InSize /\ m > g /\ 1 = Between(g, m) + q
      BY <2>2, <3>1, ComingType
    <3> HIDE DEF m, q
    <3>3. Between(g, m) \in Nat
      BY <2>1, <3>2, BetweenFacts
    <3>4. q = 1
      BY <2>1, <3>2, <3>3
    <3> QED
      BY <3>1, <3>4 DEF q
  <2>6. g * InSize + Len(Coming) = arrived * InSize
    <3>1. ASSUME NEW a \in Nat, NEW b \in Nat, NEW c \in Nat
          PROVE  b * c + (a - b) * c = a * c
      OBVIOUS
    <3>2. (arrived + 1) - g - 1 = arrived - g
      BY <2>1
    <3> QED
      BY <2>1, <2>2, <3>1, <3>2 DEF Between
  <2>7. g * InSize \in Nat
    BY <2>1
  <2> QED
    BY <2>3, <2>4, <2>5, <2>6, <2>7
<1> QED
  BY <1>1, InboundInvariant, PTL

-----------------------------------------------------------------------------
(* What the application is told.                                           *)

(* A client that can read is reading, or has been told; an application     *)
(* whose connection is gone has been told; and between two handlers the    *)
(* loop leaves no message behind.                                          *)
NoticeInv ==
  /\ handler \in {"none", "sent", "inputFailed"} /\ readBy = "loop" /\ failed = "no" =>
       ~(Framed /\ Len(dser) >= InSize)
  /\ CloseSignals /\ conn = "closed" /\ conns > 0 => closed > 0
  /\ conn = "connected" /\ link = "up" /\ closed > 0 => madeIn = "inputFailed"
  /\ conn = "connected" /\ handler \in {"none", "sent"} =>
       "read" \in pending \/ closed > 0 \/ ~Framed \/ readBy = "failed"
  /\ eof => link # "up"

LEMMA NoticeStep ==
  ASSUME TypeInv, NoticeInv, [Next]_vars
  PROVE  NoticeInv'
<1> USE DEF socketVars, bufferVars, inputVars, networkVars, epochVars, callerVars
<1>1. /\ TypeOK /\ LifeInv /\ closed \in Nat
      /\ Len(dser) \in Nat /\ InSize \in Nat
  BY ClientAssumption DEF TypeInv, TypeOK
<1>2. dser' = dser => Framed' = Framed
  BY DEF Framed
<1>3. CASE ServerSends
  BY <1>1, <1>2, <1>3 DEF ServerSends, NoticeInv
<1>4. ASSUME NEW how \in {"eof", "reset"}, LinkFails(how)
      PROVE  NoticeInv'
  BY <1>1, <1>2, <1>4 DEF LinkFails, NoticeInv
<1>5. CASE Connect
  BY <1>1, <1>2, <1>5 DEF Connect, NoticeInv
<1>6. ASSUME NEW size \in Sizes, SendAsync(size)
      PROVE  NoticeInv'
  BY <1>1, <1>2, <1>6 DEF SendAsync, NoticeInv
<1>7. ASSUME NEW size \in Sizes, NEW k \in 0..(Len(obuf) + size), SendSync(size, k)
      PROVE  NoticeInv'
  BY <1>1, <1>2, <1>7 DEF SendSync, WriteEnds, NoticeInv
<1>8. ASSUME NEW k \in 0..Len(obuf \o next), Flush(k)
      PROVE  NoticeInv'
  BY <1>1, <1>2, <1>8 DEF Flush, WriteEnds, NoticeInv
<1>9. ASSUME NEW k \in 1..Len(pinned), OnOutput(k)
      PROVE  NoticeInv'
  BY <1>1, <1>2, <1>9 DEF OnOutput, NoticeInv
<1>10. ASSUME NEW k \in 0..Len(pinned), OnOutputFails(k)
       PROVE  NoticeInv'
  BY <1>1, <1>2, <1>10 DEF OnOutputFails, ClosePeer, NoticeInv
<1>11. CASE Close
  BY <1>1, <1>2, <1>11 DEF Close, ClosePeer, NoticeInv
<1>12. CASE SlotThrows
  BY <1>1, <1>2, <1>12 DEF SlotThrows, ClosePeer, NoticeInv
<1>13. CASE OnInputFails
  BY <1>1, <1>2, <1>13 DEF OnInputFails, ClosePeer, NoticeInv
<1>14. CASE EndInputFails
  BY <1>1, <1>2, <1>14 DEF EndInputFails, LifeInv, NoticeInv
<1>15. ASSUME NEW n \in 0..Len(inbox), OnInput(n)
       PROVE  NoticeInv'
  BY <1>1, <1>15 DEF OnInput, Read, NoticeInv
<1>16. CASE Dispatch
  BY <1>1, <1>16 DEF Dispatch, NoticeInv
<1>17. CASE ReadReturns
  BY <1>1, <1>17 DEF ReadReturns, LifeInv, NoticeInv
<1>18. ASSUME NEW n \in 1..Len(inbox), ReadMore(n)
       PROVE  NoticeInv'
  BY <1>1, <1>18 DEF ReadMore, NoticeInv
<1>19. CASE EndInput
  BY <1>1, <1>2, <1>19 DEF EndInput, EndsInput, NoticeInv
<1>20. CASE EndInputEof
  BY <1>1, <1>2, <1>20 DEF EndInputEof, EndsInput, NoticeInv
<1>21. CASE InputCorrupt
  BY <1>1, <1>2, <1>21 DEF InputCorrupt, NoticeInv
<1>22. CASE ReadMessage
  BY <1>1, <1>2, <1>22 DEF ReadMessage, NoticeInv
<1>23. CASE ReadThrows
  BY <1>1, <1>2, <1>23 DEF ReadThrows, LifeInv, NoticeInv
<1>24. CASE AutoSyncOff \/ EndOutput \/ EndCallback
  BY <1>1, <1>2, <1>24 DEF AutoSyncOff, EndOutput, EndCallback, NoticeInv
<1>25. CASE UNCHANGED vars
  BY <1>1, <1>2, <1>25 DEF vars, NoticeInv
<1> QED
  BY <1>3, <1>4, <1>5, <1>6, <1>7, <1>8, <1>9, <1>10, <1>11, <1>12, <1>13, <1>14,
     <1>15, <1>16, <1>17, <1>18, <1>19, <1>20, <1>21, <1>22, <1>23, <1>24, <1>25
     DEF Next, FlushCalled, AutoSyncOn

LEMMA NoticeInvariant == Spec => [](TypeInv /\ NoticeInv)
<1>1. Init => NoticeInv
  BY ClientAssumption DEF Init, Framed, NoticeInv
<1>2. TypeInv /\ NoticeInv /\ [Next]_vars => NoticeInv'
  BY NoticeStep
<1> QED
  BY <1>1, <1>2, TypeInvariant, PTL DEF Spec

(* The event loop dispatches every whole message it holds before it waits. *)
THEOREM LoopLeavesNone == Spec => []NoneLeftBehind
<1>1. TypeInv /\ NoticeInv => NoneLeftBehind
  BY DEF TypeInv, TypeOK, NoticeInv, NoneLeftBehind
<1> QED
  BY <1>1, NoticeInvariant, PTL

(* No connection ends silently if closing a socket signals it, and none is *)
(* reported closed while it is up, but for one made in the slot of closed. *)
THEOREM ClosedIsTold == Spec => []ClosedMeansGone
<1>1. TypeInv /\ NoticeInv => ClosedMeansGone
  BY DEF NoticeInv, ClosedMeansGone
<1> QED
  BY <1>1, NoticeInvariant, PTL

(* onInput always leaves a read pending, or has told why there is none.    *)
THEOREM KeepsReading == Spec => []StaysReading
<1>1. TypeInv /\ NoticeInv => StaysReading
  BY DEF NoticeInv, StaysReading
<1> QED
  BY <1>1, NoticeInvariant, PTL

=============================================================================
