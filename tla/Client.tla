------------------------------- MODULE Client -------------------------------
(***************************************************************************)
(* The tntpub client in an event loop: its two output buffers, blocking    *)
(* and non-blocking sending and the change between them, its input, the    *)
(* loss of the connection and reconnecting.  From src/tntpub/client.cpp    *)
(* and include/tntpub/client.h.                                            *)
(*                                                                         *)
(* One thread runs the application and the handlers; the network and the   *)
(* server go on by themselves.  beginWrite(buffer, n) hands the memory of  *)
(* the buffer to the socket until endWrite, which returns how much was     *)
(* written: pinned is what the socket was given.  An outgoing message is a *)
(* packet of units, each the number of the message; an incoming one has    *)
(* InSize units.                                                           *)
(***************************************************************************)
EXTENDS Naturals, Sequences

CONSTANTS
  Sizes,        \* the units an outgoing message may have
  InSize,       \* the units of an incoming message
  CloseSignals, \* TcpSocket::close emits the signal closed
  Timeouts,     \* a blocking write may time out
  MaxSends,     \* bound on the messages sent
  MaxIn,        \* bound on the messages received over a connection
  MaxConns      \* bound on the connections made

ASSUME ClientAssumption ==
  /\ Sizes \subseteq Nat \ {0}
  /\ InSize \in Nat \ {0}
  /\ CloseSignals \in BOOLEAN
  /\ Timeouts \in BOOLEAN
  /\ MaxSends \in Nat
  /\ MaxIn \in Nat
  /\ MaxConns \in Nat

VARIABLES
  mode,    \* "sync" if _autoSync, otherwise "async"
  conn,    \* _peer: "closed" or "connected"
  pending, \* the operations begun on _peer: "read", "write"
  pinned,  \* the units begun to write
  obuf,    \* _outputBuffer
  next,    \* _outputBufferNext
  dser,    \* what _deserializer holds
  handler, \* "none"; "input", "callback", "inputFailed": in onInput, in a slot
           \* of messageReceived or of closed; "sent": in a slot of
           \* messagesSent; "reading": in readMessage; or "undefined":
           \* onInput has cleared the buffer of a pending write
  eof,     \* _peer.eof(): a read has met the end of the stream
  link,    \* the connection as the kernel sees it: "up", "eof", "reset"
  wire,    \* the units the network has taken from this connection
  inbox,   \* the units received and not yet read
  sends,   \* the number of messages sent so far
  conns,   \* the number of connections made so far
  arrived, \* the number of messages received on this connection
  got,     \* history: the messages dispatched on this connection
  accepted, \* history: the units of the messages sent on this connection
  stale,    \* history: the units left from earlier connections
  staleIn,  \* history: what the deserializer held when this one was made
  closed,   \* history: how often closed was signalled for this connection
  madeIn,   \* history: the handler this connection was made in
  readBy,   \* history: "loop", or "call" once readMessage was called, or
            \* "failed" once it has raised an IOError
  awaiting, \* history: "yes" if messages were sent on this connection and
            \* messagesSent was not signalled since, "flushed" if a flush
            \* has written them
  failed,   \* history: "yes" if a send, a write or a flush has raised an
            \* exception or a connection was closed or made with messages
            \* unsent
  overtaken \* history: the number of messages sent ahead of older ones

socketVars  == <<conn, pending, pinned>>
bufferVars  == <<obuf, next>>
inputVars   == <<dser, handler, got>>
networkVars == <<link, wire, inbox, arrived>>
epochVars   == <<stale, staleIn, conns, madeIn, eof>>
callerVars  == <<readBy, awaiting>>
vars == <<mode, socketVars, bufferVars, inputVars, networkVars, epochVars,
          callerVars, sends, accepted, closed, failed, overtaken>>

InUnit == [msg : Nat \ {0}, pos : 1..InSize]

TypeOK ==
  /\ mode \in {"sync", "async"}
  /\ conn \in {"closed", "connected"}
  /\ pending \in SUBSET {"read", "write"}
  /\ pinned \in Seq(Nat)
  /\ obuf \in Seq(Nat)
  /\ next \in Seq(Nat)
  /\ dser \in Seq(InUnit)
  /\ handler \in {"none", "input", "callback", "inputFailed", "sent", "reading",
                   "undefined"}
  /\ eof \in BOOLEAN
  /\ link \in {"up", "eof", "reset"}
  /\ wire \in Seq(Nat)
  /\ inbox \in Seq(InUnit)
  /\ sends \in Nat
  /\ conns \in Nat
  /\ arrived \in Nat
  /\ got \in Seq(Nat \ {0})
  /\ accepted \in Seq(Nat)
  /\ stale \in Seq(Nat)
  /\ staleIn \in Seq(InUnit)
  /\ closed \in 0..3
  /\ madeIn \in {"none", "sent", "inputFailed"}
  /\ readBy \in {"loop", "call", "failed"}
  /\ awaiting \in {"no", "yes", "flushed"}
  /\ failed \in {"no", "yes"}
  /\ overtaken \in Nat

Init ==
  /\ mode \in {"sync", "async"}
  /\ conn = "closed"
  /\ pending = {}
  /\ pinned = <<>>
  /\ obuf = <<>>
  /\ next = <<>>
  /\ dser = <<>>
  /\ handler = "none"
  /\ eof = FALSE
  /\ link = "reset"
  /\ wire = <<>>
  /\ inbox = <<>>
  /\ sends = 0
  /\ conns = 0
  /\ arrived = 0
  /\ got = <<>>
  /\ accepted = <<>>
  /\ stale = <<>>
  /\ staleIn = <<>>
  /\ closed = 0
  /\ madeIn = "none"
  /\ readBy = "loop"
  /\ awaiting = "no"
  /\ failed = "no"
  /\ overtaken = 0

Rest(s, k) == SubSeq(s, k + 1, Len(s))

-----------------------------------------------------------------------------
(* The server and the network.                                             *)

InPacket(m) == [i \in 1..InSize |-> [msg |-> m, pos |-> i]]

ServerSends ==
  /\ conn = "connected"
  /\ link = "up"
  /\ arrived < MaxIn
  /\ arrived' = arrived + 1
  /\ inbox' = inbox \o InPacket(arrived')
  /\ UNCHANGED <<mode, socketVars, bufferVars, inputVars, link, wire,
                 epochVars, callerVars, sends, accepted, closed, failed, overtaken>>

LinkFails(how) ==
  /\ conn = "connected"
  /\ \/ how = "eof" /\ link = "up"
     \/ how = "reset" /\ link # "reset"
  /\ link' = how
  /\ UNCHANGED <<mode, socketVars, bufferVars, inputVars, wire, inbox, arrived,
                 epochVars, callerVars, sends, accepted, closed, failed, overtaken>>

-----------------------------------------------------------------------------
(* The application.                                                        *)

(* The application runs between two handlers and in its slots.             *)
AppRuns == handler \in {"none", "callback", "sent", "inputFailed"}

(* connect, or endConnect when connected is signalled: the buffers keep    *)
(* what they have.                                                         *)
Connect ==
  /\ handler \in {"none", "sent", "inputFailed"}
  /\ madeIn' = handler
  /\ conn = "closed"
  /\ conns < MaxConns
  /\ conns' = conns + 1
  /\ conn' = "connected"
  /\ pending' = {"read"}
  /\ eof' = FALSE
  /\ link' = "up"
  /\ wire' = <<>>
  /\ inbox' = <<>>
  /\ arrived' = 0
  /\ got' = <<>>
  /\ accepted' = <<>>
  /\ stale' = obuf \o next
  /\ staleIn' = dser
  /\ closed' = 0
  /\ failed' = IF bufferVars # <<<<>>, <<>>>> THEN "yes" ELSE failed
  /\ awaiting' = "no"
  /\ UNCHANGED <<mode, pinned, bufferVars, dser, handler, readBy, sends, overtaken>>

(* A new message of size units, appended to the history.                   *)
NewMessage(size) ==
  /\ sends < MaxSends
  /\ sends' = sends + 1
  /\ accepted' = accepted \o [i \in 1..size |-> sends']

Packet(size) == [i \in 1..size |-> sends + 1]

(* Messages wait in the second buffer, and nothing is being written.       *)
Overtakes == next # <<>> /\ "write" \notin pending

(* Fault: there is only one buffer.                                        *)
StoreInOne(size) == obuf' = obuf \o Packet(size) /\ UNCHANGED next

(* doSendMessage: the buffer a write is pending on is left alone.          *)
Store(size) ==
  \/ /\ "write" \in pending
     /\ next' = next \o Packet(size)
     /\ UNCHANGED obuf
  \/ /\ "write" \notin pending
     /\ obuf' = obuf \o Packet(size)
     /\ UNCHANGED next

(* doSendMessage, not _autoSync.  On a broken connection beginWrite may    *)
(* raise an exception; the message stays in the buffer.                    *)
SendAsync(size) ==
  /\ AppRuns
  /\ mode = "async"
  /\ conn = "connected"
  /\ NewMessage(size)
  /\ Store(size)
  /\ \/ /\ "write" \in pending
        /\ UNCHANGED <<pending, pinned, failed>>
     \/ /\ "write" \notin pending
        /\ pending' = pending \cup {"write"}
        /\ pinned' = obuf'
        /\ UNCHANGED failed
     \/ /\ "write" \notin pending
        /\ link = "reset"
        /\ failed' = "yes"
        /\ UNCHANGED <<pending, pinned>>
  /\ overtaken' = IF Overtakes THEN overtaken + 1 ELSE overtaken
  /\ awaiting' = "yes"
  /\ UNCHANGED <<mode, conn, inputVars, networkVars, epochVars, readBy, closed>>

(* A blocking write ends with everything written, or with an exception.    *)
WriteEnds(written, total) ==
  \/ /\ written = total
     /\ total = 0 \/ link # "reset"
     /\ UNCHANGED failed
  \/ /\ written < total
     /\ Timeouts \/ link = "reset"
     /\ failed' = "yes"

(* doSendMessage, _autoSync: writes until the buffer is empty.             *)
SendSync(size, k) ==
  /\ AppRuns
  /\ mode = "sync"
  /\ conn = "connected"
  /\ NewMessage(size)
  /\ LET all == obuf \o Packet(size)
     IN  /\ k \in 0..Len(all)
         /\ WriteEnds(k, Len(all))
         /\ wire' = wire \o SubSeq(all, 1, k)
         /\ obuf' = Rest(all, k)
  /\ overtaken' = IF Overtakes THEN overtaken + 1 ELSE overtaken
  /\ UNCHANGED <<mode, socketVars, next, inputVars, link, inbox, arrived,
                 epochVars, callerVars, closed>>

(* flush: completes the pending write and writes both buffers.             *)
Flush(k) ==
  LET all == obuf \o next IN
    /\ k \in 0..Len(all)
    /\ WriteEnds(k, Len(all))
    /\ pending' = pending \ {"write"}
    /\ pinned' = <<>>
    /\ wire' = wire \o SubSeq(all, 1, k)
    /\ obuf' = Rest(obuf, k)
    /\ next' = IF k <= Len(obuf) THEN next ELSE Rest(next, k - Len(obuf))
    /\ awaiting' = IF awaiting = "yes" THEN "flushed" ELSE awaiting
    /\ UNCHANGED <<conn, inputVars, link, inbox, arrived, epochVars, readBy,
                   sends, accepted, closed, overtaken>>

FlushCalled(k) ==
  /\ AppRuns
  /\ conn = "connected"
  /\ Flush(k)
  /\ UNCHANGED mode

(* autoSync(true) flushes, autoSync(false) does not.                       *)
AutoSyncOn(k) ==
  /\ AppRuns
  /\ mode = "async"
  /\ conn = "connected" \/ (obuf = <<>> /\ next = <<>>)
  /\ mode' = "sync"
  /\ Flush(k)

AutoSyncOff ==
  /\ AppRuns
  /\ mode = "sync"
  /\ mode' = "async"
  /\ UNCHANGED <<socketVars, bufferVars, inputVars, networkVars, epochVars,
                 callerVars, sends, accepted, closed, failed, overtaken>>

(* Fault: onClosed is not connected to the socket.                         *)
ClosePeerSilently ==
  /\ conn' = "closed"
  /\ pending' = {}
  /\ pinned' = <<>>
  /\ UNCHANGED closed

(* TcpSocket::close ends what is begun; onClosed passes on its signal.     *)
ClosePeer ==
  /\ conn' = "closed"
  /\ pending' = {}
  /\ pinned' = <<>>
  /\ closed' = IF CloseSignals THEN closed + 1 ELSE closed

(* Client::close                                                           *)
Close ==
  /\ handler \in {"none", "sent"}
  /\ conn = "connected"
  /\ ClosePeer
  /\ failed' = IF bufferVars # <<<<>>, <<>>>> THEN "yes" ELSE failed
  /\ UNCHANGED <<mode, bufferVars, inputVars, networkVars, epochVars,
                 callerVars, sends, accepted, overtaken>>

-----------------------------------------------------------------------------
(* onOutput                                                                *)

(* Faults: the second buffer comes first, or is forgotten.                 *)
RefillNextFirst(k) ==
  /\ obuf' = next \o Rest(obuf, k)
  /\ next' = <<>>

RefillFirstOnly(k) ==
  /\ obuf' = Rest(obuf, k)
  /\ UNCHANGED next

(* What the buffers hold after k units are written.                        *)
Refill(k) ==
  /\ obuf' = Rest(obuf, k) \o next
  /\ next' = <<>>

(* Fault: messagesSent is signalled with messages in the second buffer.    *)
FirstWritten(k) == Rest(obuf, k) = <<>>

AllWritten(k) == Rest(obuf, k) = <<>> /\ next = <<>>

(* k units were written; the write goes on with what else there is, or     *)
(* messagesSent is signalled.                                              *)
OnOutput(k) ==
  /\ handler = "none"
  /\ "write" \in pending
  /\ link # "reset"
  /\ k \in 1..Len(pinned)
  /\ wire' = wire \o SubSeq(pinned, 1, k)
  /\ Refill(k)
  /\ pending' = IF obuf' = <<>> THEN pending \ {"write"} ELSE pending
  /\ pinned' = obuf'
  /\ handler' = IF AllWritten(k) THEN "sent" ELSE handler
  /\ awaiting' = IF AllWritten(k) THEN "no" ELSE awaiting
  /\ UNCHANGED <<mode, conn, dser, got, link, inbox, arrived, epochVars, readBy,
                 sends, accepted, closed, failed, overtaken>>

EndOutput ==
  /\ handler = "sent"
  /\ handler' = "none"
  /\ UNCHANGED <<mode, socketVars, bufferVars, dser, got, networkVars, epochVars,
                 callerVars, sends, accepted, closed, failed, overtaken>>

(* endWrite raises an exception, and nothing is written, or the beginWrite *)
(* after it does.  The buffers are not cleared.                            *)
OnOutputFails(k) ==
  /\ handler = "none"
  /\ "write" \in pending
  /\ link = "reset"
  /\ \/ k = 0 /\ UNCHANGED <<bufferVars, wire>>
     \/ /\ k \in 1..Len(pinned)
        /\ wire' = wire \o SubSeq(pinned, 1, k)
        /\ Refill(k)
        /\ obuf' # <<>>
  /\ ClosePeer
  /\ failed' = "yes"
  /\ UNCHANGED <<mode, inputVars, link, inbox, arrived, epochVars, callerVars,
                 sends, accepted, overtaken>>

(* An IOError raised in the slot of messagesSent leaves onOutput the same  *)
(* way, one raised in a slot of messageReceived takes that of OnInputFails. *)
SlotThrows ==
  /\ failed = "yes"
  /\ link = "reset" \/ Timeouts
  /\ conn = "connected"
  /\ \/ handler = "sent" /\ handler' = "none"
     \/ handler = "callback" /\ handler' = "inputFailed"
  /\ ClosePeer
  /\ UNCHANGED <<mode, bufferVars, dser, got, networkVars, epochVars, callerVars,
                 sends, accepted, failed, overtaken>>

-----------------------------------------------------------------------------
(* onInput                                                                 *)

Read(n) ==
  /\ handler = "none"
  /\ "read" \in pending
  /\ dser' = dser \o SubSeq(inbox, 1, n)
  /\ inbox' = Rest(inbox, n)
  /\ eof' = (n = 0)
  /\ pending' = pending \ {"read"}
  /\ handler' = "input"
  /\ UNCHANGED <<mode, conn, pinned, bufferVars, got, link, wire, arrived,
                 stale, staleIn, conns, madeIn, callerVars, sends, accepted,
                 closed, failed, overtaken>>

(* No data is the end of the stream.                                       *)
OnInput(n) ==
  /\ n \in 0..Len(inbox)
  /\ n = 0 => link = "eof" /\ inbox = <<>>
  /\ Read(n)

(* What the deserializer holds begins with a header.                       *)
Framed == dser # <<>> => dser[1].pos = 1

(* The first message held is taken out and dispatched.                     *)
(* Fault: all that is held is erased with the first message.               *)
TakeMessageErasing ==
  /\ Framed
  /\ Len(dser) >= InSize
  /\ got' = Append(got, dser[1].msg)
  /\ dser' = <<>>

TakeMessage ==
  /\ Framed
  /\ Len(dser) >= InSize
  /\ got' = Append(got, dser[1].msg)
  /\ dser' = Rest(dser, InSize)

Dispatch ==
  /\ handler = "input"
  /\ TakeMessage
  /\ handler' = "callback"
  /\ UNCHANGED <<mode, socketVars, bufferVars, networkVars, epochVars,
                 callerVars, sends, accepted, closed, failed, overtaken>>

EndCallback ==
  /\ handler = "callback"
  /\ handler' = "input"
  /\ UNCHANGED <<mode, socketVars, bufferVars, dser, got, networkVars, epochVars,
                 callerVars, sends, accepted, closed, failed, overtaken>>

(* Only an IOError is caught: the deserializer's exception leaves onInput, *)
(* which neither reads on nor closes.                                      *)
InputCorrupt ==
  /\ handler = "input"
  /\ ~Framed
  /\ handler' = "none"
  /\ UNCHANGED <<mode, socketVars, bufferVars, dser, got, networkVars,
                 epochVars, callerVars, sends, accepted, closed, failed, overtaken>>

(* The loop ends when the deserializer holds no whole message.             *)
EndsInput ==
  /\ handler = "input"
  /\ Framed
  /\ Len(dser) < InSize
  /\ handler' = "none"
  /\ UNCHANGED <<mode, conn, pinned, bufferVars, dser, got, networkVars,
                 epochVars, callerVars, sends, accepted, failed, overtaken>>

(* Faults: the next read is not begun, or one message is taken only.       *)
EndInputDeaf == EndsInput /\ ~eof /\ UNCHANGED <<pending, closed>>

EndInputEarly ==
  /\ handler = "input"
  /\ Framed
  /\ ~eof
  /\ handler' = "none"
  /\ pending' = pending \cup {"read"}
  /\ UNCHANGED <<mode, conn, pinned, bufferVars, dser, got, networkVars,
                 epochVars, callerVars, sends, accepted, closed, failed, overtaken>>

EndInput ==
  /\ EndsInput
  /\ ~eof
  /\ pending' = pending \cup {"read"}
  /\ UNCHANGED closed

(* Faults: the end of the stream is not signalled, or reading goes on.     *)
EndInputEofSilent == EndsInput /\ eof /\ UNCHANGED <<pending, closed>>

EndInputEofReadsOn ==
  /\ EndsInput
  /\ eof
  /\ pending' = pending \cup {"read"}
  /\ closed' = closed + 1

(* The end of the stream is signalled; the socket stays open.              *)
EndInputEof ==
  /\ EndsInput
  /\ eof
  /\ closed' = closed + 1
  /\ UNCHANGED pending

(* endRead raises an IOError: the connection is closed, then the buffers   *)
(* are cleared and closed is signalled.  The deserializer is not cleared.  *)
OnInputFails ==
  /\ handler = "none"
  /\ "read" \in pending
  /\ link = "reset"
  /\ handler' = "inputFailed"
  /\ ClosePeer
  /\ UNCHANGED <<mode, bufferVars, dser, got, networkVars, epochVars, callerVars,
                 sends, accepted, failed, overtaken>>

(* A slot of closed may have connected and sent again in between: what is  *)
(* lost then leaves the history, and a pending write has lost its buffer.  *)
EndInputFails ==
  /\ handler = "inputFailed"
  /\ handler' = IF "write" \in pending THEN "undefined" ELSE "none"
  /\ obuf' = <<>>
  /\ next' = <<>>
  /\ closed' = closed + 1
  /\ IF conn = "connected"
       THEN stale' = wire /\ accepted' = <<>>
       ELSE UNCHANGED <<stale, accepted>>
  /\ UNCHANGED <<mode, socketVars, dser, got, networkVars, staleIn, conns, madeIn,
                 eof, callerVars, sends, failed, overtaken>>

-----------------------------------------------------------------------------
(* readMessage, called between two handlers, blocks the event loop.        *)

ReadMessage ==
  /\ handler = "none"
  /\ conn = "connected"
  /\ "read" \in pending
  /\ handler' = "reading"
  /\ readBy' = IF readBy = "loop" THEN "call" ELSE readBy
  /\ UNCHANGED <<mode, socketVars, bufferVars, dser, got, networkVars, epochVars,
                 awaiting, sends, accepted, closed, failed, overtaken>>

ReadReturns ==
  /\ handler = "reading"
  /\ TakeMessage
  /\ handler' = "none"
  /\ UNCHANGED <<mode, socketVars, bufferVars, networkVars, epochVars,
                 callerVars, sends, accepted, closed, failed, overtaken>>

(* endRead waits for data; the next read is begun at once.                 *)
ReadMore(n) ==
  /\ handler = "reading"
  /\ Framed
  /\ Len(dser) < InSize
  /\ n \in 1..Len(inbox)
  /\ dser' = dser \o SubSeq(inbox, 1, n)
  /\ inbox' = Rest(inbox, n)
  /\ UNCHANGED <<mode, socketVars, bufferVars, handler, got, link, wire, arrived,
                 epochVars, callerVars, sends, accepted, closed, failed, overtaken>>

(* The end of the stream and bytes that are no message leave the read      *)
(* begun, an IOError does not.                                             *)
ReadThrows ==
  /\ handler = "reading"
  /\ \/ ~Framed /\ UNCHANGED <<pending, readBy, eof>>
     \/ /\ Len(dser) < InSize /\ inbox = <<>> /\ link = "eof"
        /\ eof' = TRUE
        /\ UNCHANGED <<pending, readBy>>
     \/ /\ Len(dser) < InSize /\ link = "reset"
        /\ pending' = pending \ {"read"}
        /\ readBy' = "failed"
        /\ UNCHANGED eof
  /\ handler' = "none"
  /\ UNCHANGED <<mode, conn, pinned, bufferVars, dser, got, networkVars, stale,
                 staleIn, conns, madeIn, awaiting, sends, accepted, closed,
                 failed, overtaken>>

-----------------------------------------------------------------------------

Next ==
  \/ ServerSends
  \/ \E how \in {"eof", "reset"} : LinkFails(how)
  \/ Connect
  \/ \E size \in Sizes : SendAsync(size)
  \/ \E size \in Sizes : \E k \in 0..(Len(obuf) + size) : SendSync(size, k)
  \/ \E k \in 0..Len(obuf \o next) : FlushCalled(k) \/ AutoSyncOn(k)
  \/ AutoSyncOff
  \/ Close
  \/ \E k \in 1..Len(pinned) : OnOutput(k)
  \/ EndOutput
  \/ \E k \in 0..Len(pinned) : OnOutputFails(k)
  \/ SlotThrows
  \/ \E n \in 0..Len(inbox) : OnInput(n)
  \/ Dispatch
  \/ EndCallback
  \/ InputCorrupt
  \/ EndInput
  \/ EndInputEof
  \/ OnInputFails
  \/ EndInputFails
  \/ ReadMessage
  \/ ReadReturns
  \/ \E n \in 1..Len(inbox) : ReadMore(n)
  \/ ReadThrows

Spec == Init /\ [][Next]_vars

(* The event loop serves a socket that stays ready and runs handlers to    *)
(* their end.  Nothing is assumed of the application and the server.       *)
Fairness ==
  /\ SF_vars(\E k \in 1..Len(pinned) : OnOutput(k))
  /\ WF_vars(\E k \in 0..Len(pinned) : OnOutputFails(k))
  /\ SF_vars(\E n \in 0..Len(inbox) : OnInput(n))
  /\ WF_vars(\/ EndOutput
             \/ Dispatch \/ EndCallback \/ InputCorrupt \/ EndInput \/ EndInputEof
             \/ EndInputFails
             \/ ReadReturns \/ (\E n \in 1..Len(inbox) : ReadMore(n)) \/ ReadThrows)
  /\ SF_vars(OnInputFails)

FairSpec == Spec /\ Fairness

-----------------------------------------------------------------------------
(* Properties.                                                             *)

(* While a write is pending the buffer it was given is left alone; without *)
(* one the socket refers to no buffer and, unless something has failed,    *)
(* nothing waits in either buffer that no write will take.  But when the   *)
(* application connects and sends in the slot of closed that a failed read *)
(* has called, onInput clears the buffer of its pending write.             *)
(* (doSendMessage, onOutput, flush: why there are two buffers; onInput)    *)
PinnedUntouched ==
  IF handler = "undefined" THEN madeIn = "inputFailed"
  ELSE /\ "write" \in pending => pinned = obuf /\ pinned # <<>> /\ conn = "connected"
       /\ "write" \notin pending =>
            /\ pinned = <<>>
            /\ failed = "no" /\ conn = "connected" => obuf = <<>> /\ next = <<>>

(* What goes over the wire is what was left from before and the messages   *)
(* sent since, in order: the two buffers lose, double and reorder nothing, *)
(* unless a message was sent ahead of older ones.  That happens only after *)
(* a send, a write or a flush has failed, or a connection was closed or    *)
(* made with messages unsent.                                              *)
(* (doSendMessage, which looks at writing() only, onOutput, flush)         *)
WireExact ==
  /\ conn = "connected" /\ overtaken = 0 => wire \o obuf \o next = stale \o accepted
  /\ overtaken > 0 => failed = "yes"

(* The messages of a connection reach the application once each, in order, *)
(* if the deserializer held nothing when it was made, whether the event    *)
(* loop or readMessage takes them.  (onInput, readMessage, the             *)
(* deserializer is never reset)                                            *)
InboundExact ==
  staleIn = <<>> =>
    /\ got = [i \in 1..Len(got) |-> i]
    /\ Framed
    /\ Len(got) * InSize + Len(dser) + Len(inbox) = arrived * InSize

(* A whole message is left in the deserializer between two handlers only   *)
(* by readMessage, or by an IOError that leaves the slot of a message.     *)
(* (onInput, readMessage)                                                  *)
NoneLeftBehind ==
  (handler = "none" /\ Framed /\ Len(dser) >= InSize) =>
    readBy # "loop" \/ failed = "yes"

(* An application whose connection is closed has been told, if closing a   *)
(* socket signals it, and a connection that is up has not been reported    *)
(* closed; but one made in the slot of closed is reported at once, by the  *)
(* second signal of a failed read.                                         *)
(* (onOutput does not signal closed itself; onInput: close, then closed)   *)
ClosedMeansGone ==
  /\ CloseSignals /\ conn = "closed" /\ conns > 0 /\ handler = "none" => closed > 0
  /\ conn = "connected" /\ link = "up" /\ closed > 0 => madeIn = "inputFailed"

(* A client that can read keeps on reading: unless it met the end of the   *)
(* stream or bytes that are no message, or readMessage failed, a read is   *)
(* pending.  (onInput ends in beginRead, closed or close)                  *)
StaysReading ==
  (conn = "connected" /\ handler = "none") =>
    "read" \in pending \/ closed > 0 \/ ~Framed \/ readBy = "failed"

(* An application that has sent in the event loop is told when everything  *)
(* is written, unless a flush has written it, the connection or a send     *)
(* fails or readMessage blocks the loop.  (onOutput)                       *)
SentIsSignalled ==
  awaiting = "yes" ~>
    \/ awaiting # "yes" \/ handler \in {"reading", "undefined"}
    \/ link # "up" \/ conn = "closed" \/ failed = "yes"

(* The application is told that the server has gone, unless bytes left by  *)
(* an earlier connection have made its input unreadable or readMessage has *)
(* met the error: then no read is pending and nothing notices.             *)
(* (onInput, readMessage)                                                  *)
GoneIsSignalled ==
  (conn = "connected" /\ link # "up") ~>
    (closed > 0 \/ ~Framed \/ readBy = "failed" \/ handler = "undefined")

=============================================================================
