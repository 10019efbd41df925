------------------------------- MODULE Server -------------------------------
(***************************************************************************)
(* The tntpub server: Server, one Responder per accepted connection, and   *)
(* the dispatch of data messages to the subscribed responders.  From       *)
(* src/tntpub/server.cpp, src/tntpub/responder.cpp and messagesink.cpp.    *)
(*                                                                         *)
(* The server is one thread in an event loop.  A handler runs to its end   *)
(* before the next one starts, but the peers and the network do not wait   *)
(* for it, so Responder::onInput, which handles every message one read     *)
(* returned, is split at its messages: OnInput starts it, one Handle step  *)
(* runs the callback for one message, EndInput rearms the read.  Between   *)
(* these steps only the peers move.                                        *)
(*                                                                         *)
(* A message the server sends is a packet of MsgSize units, its bytes; the *)
(* network takes any number of units at a time.  A unit is the number of   *)
(* its message in the history variable log.                                *)
(***************************************************************************)
EXTENDS DataMessage, SequencesExt

CONSTANTS
  Responders,       \* the connections, each with the responder it gets
  NoResponder,      \* no handler is running
  Calls,            \* the client calls each peer makes
  MsgSize,          \* the units of a data message, by topic
  MaxOBuf,          \* Responder::_maxOBuf, 0: unlimited
  Refused,          \* topics Server::onDataMessageReceived turns down
  AppTopics,        \* topics the embedding application sends to
  Unreliable,       \* peers that may close or reset their connection
  Stalled,          \* peers that may stop reading what they are sent
  BeginWriteThrows, \* BufferedSocket::beginWrite throws on a reset peer
  MaxCalls          \* bound on the calls of all peers together

CallOps == {"subscribe", "subscribeWithObject", "unsubscribe", "publish",
            "system", "garbage"}

Call == [op : CallOps, topic : Topic, type : Types]

ASSUME ServerAssumption ==
  /\ NoResponder \notin Responders
  /\ Calls \in [Responders -> SUBSET Call]
  /\ MsgSize \in [Topic -> Nat \ {0}]
  /\ MaxOBuf \in Nat
  /\ Refused \subseteq Topic
  /\ AppTopics \subseteq Topic
  /\ Unreliable \subseteq Responders
  /\ Stalled \subseteq Responders
  /\ BeginWriteThrows \in BOOLEAN
  /\ MaxCalls \in Nat

VARIABLES
  conn,       \* "new", "open" or "closed": the responder is deleted
  slots,      \* responders in the order they connected to messageReceived
  subs,       \* Responder::_subscriptions
  obuf,       \* the units in the output buffers of the responder's socket
  pending,    \* the responders whose socket has a write pending
  reading,    \* the responders whose socket has a read pending
  active,     \* the responder whose onInput is running
  batch,      \* what is left of the messages this onInput has read
  lastSerial, \* DataMessage::_lastSerial
  dangling,   \* the deleted responders onInput went on with
  link,       \* the peer as the server's kernel sees it: "up", "eof", "reset"
  inbox,      \* messages received by the kernel and not yet read
  sent,       \* the units the network has taken from the responder
  calls,      \* the number of calls made so far
  log,        \* history: the data messages dispatched, by and to whom
  published,  \* history: the topics of the data messages a peer has sent
  view,       \* history: the subscriptions a peer believes it has
  offenders   \* history: the peers that broke the protocol

serverVars  == <<conn, slots, subs, obuf, pending, reading, active, batch,
                 lastSerial, dangling>>
peerVars    == <<link, inbox, sent, calls>>
historyVars == <<log, published, view, offenders>>
vars        == <<serverVars, peerVars, historyVars>>

Packet(id, topic) == [i \in 1..MsgSize[topic] |-> id]

LogEntry == [topic  : Topic,
             serial : Nat,
             from   : Responders \cup {NoResponder},
             to     : SUBSET Responders]

TypeOK ==
  /\ conn \in [Responders -> {"new", "open", "closed"}]
  /\ slots \in Seq(Responders)
  /\ subs \in [Responders -> Seq(Subscriptions)]
  /\ obuf \in [Responders -> Seq(Nat)]
  /\ pending \in SUBSET Responders
  /\ reading \in SUBSET Responders
  /\ active \in Responders \cup {NoResponder}
  /\ batch \in Seq(Message)
  /\ lastSerial \in Nat
  /\ dangling \in SUBSET Responders
  /\ link \in [Responders -> {"up", "eof", "reset"}]
  /\ inbox \in [Responders -> Seq(Message)]
  /\ sent \in [Responders -> Seq(Nat)]
  /\ calls \in Nat
  /\ log \in Seq(LogEntry)
  /\ published \in [Responders -> Seq(Topic)]
  /\ view \in [Responders -> Seq(Subscriptions)]
  /\ offenders \in SUBSET Responders

Init ==
  /\ conn = [r \in Responders |-> "new"]
  /\ slots = <<>>
  /\ subs = [r \in Responders |-> <<>>]
  /\ obuf = [r \in Responders |-> <<>>]
  /\ pending = {}
  /\ reading = {}
  /\ active = NoResponder
  /\ batch = <<>>
  /\ lastSerial = 0
  /\ dangling = {}
  /\ link = [r \in Responders |-> "up"]
  /\ inbox = [r \in Responders |-> <<>>]
  /\ sent = [r \in Responders |-> <<>>]
  /\ calls = 0
  /\ log = <<>>
  /\ published = [r \in Responders |-> <<>>]
  /\ view = [r \in Responders |-> <<>>]
  /\ offenders = {}

(* The event loop is about to call a handler.  Once a deleted responder    *)
(* has been used anything may happen; the server is not followed further.  *)
Idle == active = NoResponder /\ dangling = {}

-----------------------------------------------------------------------------
(* The peers and the network.                                              *)

(* What the client library puts on the wire for a call.                    *)
WireMessage(c) ==
  [topic |-> c.topic,
   type  |-> CASE c.op = "subscribe"           -> SubscribeType(c.type)
               [] c.op = "subscribeWithObject" -> SubscribeWithObjectType(c.type)
               [] c.op = "unsubscribe"         -> UnsubscribeType(c.type)
               [] c.op = "publish"             -> "Data"
               [] c.op = "system"              -> "System"
               [] c.op = "garbage"             -> "Garbage"]

(* The subscriptions a caller expects to have after the call.              *)
ViewAfter(v, c) ==
  LET s == [topic |-> c.topic, type |-> c.type]
  IN  CASE c.op \in {"subscribe", "subscribeWithObject"} -> Append(v, s)
        [] c.op = "unsubscribe"                          -> RemoveFirst(v, s)
        [] OTHER                                         -> v

(* Raw bytes that are no message, and patterns that do not compile.        *)
Offends(c) ==
  \/ c.op = "garbage"
  \/ /\ c.op \in {"subscribe", "subscribeWithObject"}
     /\ ~Compiles(c.topic, c.type)

PeerCall(r, c) ==
  /\ c \in Calls[r]
  /\ calls < MaxCalls
  /\ conn[r] = "open"
  /\ link[r] = "up"
  /\ inbox' = [inbox EXCEPT ![r] = Append(@, WireMessage(c))]
  /\ published' = IF c.op = "publish"
                     THEN [published EXCEPT ![r] = Append(@, c.topic)]
                     ELSE published
  /\ view' = [view EXCEPT ![r] = ViewAfter(@, c)]
  /\ offenders' = IF Offends(c) THEN offenders \cup {r} ELSE offenders
  /\ calls' = calls + 1
  /\ UNCHANGED <<serverVars, link, sent, log>>

PeerCloses(r) ==
  /\ r \in Unreliable
  /\ conn[r] = "open"
  /\ link[r] = "up"
  /\ link' = [link EXCEPT ![r] = "eof"]
  /\ UNCHANGED <<serverVars, inbox, sent, calls, historyVars>>

PeerResets(r) ==
  /\ r \in Unreliable
  /\ conn[r] = "open"
  /\ link[r] # "reset"
  /\ link' = [link EXCEPT ![r] = "reset"]
  /\ UNCHANGED <<serverVars, inbox, sent, calls, historyVars>>

-----------------------------------------------------------------------------
(* Dispatch: MessageSink::dispatchMessage emits messageReceived, which     *)
(* calls Responder::onDataMessageReceived of every responder in the order  *)
(* they connected; a deleted responder is no longer called.                *)

(* Fault: no subscription counts as all topics.                            *)
IsSubscribedOrNone(r, topic) ==
  subs[r] = <<>> \/ \E i \in DOMAIN subs[r] : Match(subs[r][i], topic)

IsSubscribed(r, topic) == \E i \in DOMAIN subs[r] : Match(subs[r][i], topic)

Subscribers(topic) ==
  {r \in Responders : conn[r] = "open" /\ IsSubscribed(r, topic)}

(* Faults: the size is compared before the message is appended, or the     *)
(* limit itself is too much.                                               *)
OverflowsBefore(r, topic) == MaxOBuf # 0 /\ Len(obuf[r]) > MaxOBuf

OverflowsAtLimit(r, topic) ==
  MaxOBuf # 0 /\ Len(obuf[r]) + MsgSize[topic] >= MaxOBuf

(* Responder::sendMessage appends the message first and compares the size  *)
(* of the output then.                                                     *)
Overflows(r, topic) ==
  MaxOBuf # 0 /\ Len(obuf[r]) + MsgSize[topic] > MaxOBuf

(* beginWrite does nothing while a write is pending; otherwise it tries to *)
(* write at once.                                                          *)
Throws(r, topic) ==
  /\ BeginWriteThrows
  /\ link[r] = "reset"
  /\ r \notin pending
  /\ ~Overflows(r, topic)

CalledBefore(q, r) ==
  \E i, j \in DOMAIN slots : i < j /\ slots[i] = q /\ slots[j] = r

Aborts(topic) == \E q \in Subscribers(topic) : Throws(q, topic)

(* Fault: a message is skipped while a write is pending.                   *)
ReachedUnlessWriting(topic) == Subscribers(topic) \ pending

(* An exception leaves the emission of the signal: the responders behind   *)
(* the one that raised it are not called.                                  *)
Reached(topic) ==
  {r \in Subscribers(topic) :
     ~\E q \in Subscribers(topic) : Throws(q, topic) /\ CalledBefore(q, r)}

Dropped(topic) == {r \in Reached(topic) : Overflows(r, topic)}

(* Fault: the subscriptions of a closed client stay.                       *)
CloseClientsOnly(R) ==
  /\ conn' = [r \in Responders |-> IF r \in R THEN "closed" ELSE conn[r]]
  /\ reading' = reading \ R
  /\ UNCHANGED subs

(* The responders and their subscriptions are deleted.                     *)
CloseClients(R) ==
  /\ conn' = [r \in Responders |-> IF r \in R THEN "closed" ELSE conn[r]]
  /\ subs' = [r \in Responders |-> IF r \in R THEN <<>> ELSE subs[r]]
  /\ reading' = reading \ R

(* One dispatch.  Closing is the set of responders deleted in its course   *)
(* or by the handler that called it.                                       *)
Dispatch(topic, serial, from, closing) ==
  /\ CloseClients(closing)
  /\ obuf' = [r \in Responders |->
                IF r \in closing THEN <<>>
                ELSE IF r \in Reached(topic)
                     THEN obuf[r] \o Packet(Len(log) + 1, topic)
                     ELSE obuf[r]]
  /\ pending' = (pending \cup {r \in Reached(topic) : ~Throws(r, topic)})
                  \ closing
  /\ log' = Append(log, [topic  |-> topic,
                         serial |-> serial,
                         from   |-> from,
                         to     |-> Subscribers(topic)])

-----------------------------------------------------------------------------
(* Responder::onInput.                                                     *)

(* Server::onConnectionPending: a peer connects and gets its responder,    *)
(* which begins to read at once.                                           *)
Accept(r) ==
  /\ Idle
  /\ conn[r] = "new"
  /\ conn' = [conn EXCEPT ![r] = "open"]
  /\ slots' = Append(slots, r)
  /\ reading' = reading \cup {r}
  /\ UNCHANGED <<subs, obuf, pending, active, batch, lastSerial, dangling,
                 peerVars, historyVars>>

(* Fault: the messages of a read are handled in the opposite order.        *)
OnInputReversed(r, n) ==
  /\ Idle
  /\ r \in reading
  /\ n \in 1..Len(inbox[r])
  /\ active' = r
  /\ reading' = reading \ {r}
  /\ batch' = Reverse(SubSeq(inbox[r], 1, n))
  /\ inbox' = [inbox EXCEPT ![r] = SubSeq(@, n + 1, Len(@))]
  /\ UNCHANGED <<conn, slots, subs, obuf, pending, lastSerial, dangling,
                 link, sent, calls, historyVars>>

(* The read that was begun ends: endRead returns the first messages of     *)
(* what the kernel has received.                                           *)
OnInput(r, n) ==
  /\ Idle
  /\ r \in reading
  /\ n \in 1..Len(inbox[r])
  /\ active' = r
  /\ reading' = reading \ {r}
  /\ batch' = SubSeq(inbox[r], 1, n)
  /\ inbox' = [inbox EXCEPT ![r] = SubSeq(@, n + 1, Len(@))]
  /\ UNCHANGED <<conn, slots, subs, obuf, pending, lastSerial, dangling,
                 link, sent, calls, historyVars>>

(* The handler ends with Responder::closeClient on its own client.         *)
CloseClient(r) ==
  /\ CloseClients({r})
  /\ obuf' = [obuf EXCEPT ![r] = <<>>]
  /\ pending' = pending \ {r}
  /\ active' = NoResponder
  /\ batch' = <<>>

(* Fault: the end of the stream is not looked for.                         *)
OnInputFailure(r) ==
  /\ Idle
  /\ r \in reading
  /\ link[r] = "reset"
  /\ CloseClient(r)
  /\ UNCHANGED <<slots, lastSerial, dangling, peerVars, historyVars>>

(* The read that was begun fails, or finds the end of the stream.          *)
OnInputEnd(r) ==
  /\ Idle
  /\ r \in reading
  /\ link[r] = "reset" \/ (link[r] = "eof" /\ inbox[r] = <<>>)
  /\ CloseClient(r)
  /\ UNCHANGED <<slots, lastSerial, dangling, peerVars, historyVars>>

(* The callback is about to be run for the next message of responder r.    *)
Handling(r) ==
  /\ active = r
  /\ dangling = {}
  /\ batch # <<>>

(* A data message gets the next serial number and is dispatched.  The      *)
(* sender may be among the responders this deletes; the return the code    *)
(* does then leaves the callback only, and onInput goes on with the        *)
(* deleted responder.  An exception ends onInput and closes the sender.    *)
HandleData(r) ==
  LET m == Head(batch) IN
    /\ Handling(r)
    /\ m.type = "Data"
    /\ m.topic \notin Refused
    /\ lastSerial' = lastSerial + 1
    /\ IF Aborts(m.topic)
         THEN /\ Dispatch(m.topic, lastSerial + 1, r, Dropped(m.topic) \cup {r})
              /\ active' = NoResponder
              /\ batch' = <<>>
              /\ UNCHANGED dangling
         ELSE /\ Dispatch(m.topic, lastSerial + 1, r, Dropped(m.topic))
              /\ active' = r
              /\ batch' = Tail(batch)
              /\ dangling' = {r} \cap Dropped(m.topic)
    /\ UNCHANGED <<slots, peerVars, published, view, offenders>>

(* Server::onDataMessageReceived returns false.                            *)
HandleRefused(r) ==
  LET m == Head(batch) IN
    /\ Handling(r)
    /\ m.type = "Data"
    /\ m.topic \in Refused
    /\ lastSerial' = lastSerial + 1
    /\ batch' = Tail(batch)
    /\ UNCHANGED <<conn, slots, subs, obuf, pending, reading, active,
                   dangling, peerVars, historyVars>>

(* Responder::subscribe                                                    *)
HandleSubscribe(r) ==
  LET m == Head(batch) IN
    /\ Handling(r)
    /\ IsValid(m)
    /\ IsSubscribe(m)
    /\ Compiles(m.topic, SubscriptionType(m))
    /\ subs' = [subs EXCEPT ![r] = Append(@, [topic |-> m.topic,
                                            type  |-> SubscriptionType(m)])]
    /\ batch' = Tail(batch)
    /\ UNCHANGED <<conn, slots, obuf, pending, reading, active, lastSerial,
                   dangling, peerVars, historyVars>>

(* The position of the subscription unsubscribeMessageReceived erases, the *)
(* first that equals the message's.                                        *)
IsFirstEqual(r, m, i) ==
  /\ i \in DOMAIN subs[r]
  /\ Equals(subs[r][i], m.topic, SubscriptionType(m))
  /\ \A j \in 1..(i - 1) : ~Equals(subs[r][j], m.topic, SubscriptionType(m))

HandleUnsubscribe(r) ==
  LET m == Head(batch) IN
    /\ Handling(r)
    /\ IsValid(m)
    /\ IsUnsubscribe(m)
    /\ \/ \E i \in DOMAIN subs[r] :
            /\ IsFirstEqual(r, m, i)
            /\ subs' = [subs EXCEPT ![r] = RemoveAt(@, i)]
       \/ /\ \A i \in DOMAIN subs[r] : ~IsFirstEqual(r, m, i)
          /\ UNCHANGED subs
    /\ batch' = Tail(batch)
    /\ UNCHANGED <<conn, slots, obuf, pending, reading, active, lastSerial,
                   dangling, peerVars, historyVars>>

(* A system message only signals that the peer is alive.                   *)
HandleSystem(r) ==
  LET m == Head(batch) IN
    /\ Handling(r)
    /\ m.type = "System"
    /\ batch' = Tail(batch)
    /\ UNCHANGED <<conn, slots, subs, obuf, pending, reading, active,
                   lastSerial, dangling, peerVars, historyVars>>

(* The deserializer rejects the message, or the subscription's pattern     *)
(* does not compile: the exception closes the client, and what else this   *)
(* read returned is lost with it.                                          *)
HandleFailure(r) ==
  LET m == Head(batch) IN
    /\ Handling(r)
    /\ \/ ~IsValid(m)
       \/ IsSubscribe(m) /\ ~Compiles(m.topic, SubscriptionType(m))
    /\ CloseClient(r)
    /\ UNCHANGED <<slots, lastSerial, dangling, peerVars, historyVars>>

(* Fault: the next read is not begun.                                      *)
EndInputDeaf(r) ==
  /\ active = r
  /\ dangling = {}
  /\ batch = <<>>
  /\ active' = NoResponder
  /\ UNCHANGED <<conn, slots, subs, obuf, pending, reading, batch, lastSerial,
                 dangling, peerVars, historyVars>>

(* All messages are handled: the next read is begun.                       *)
EndInput(r) ==
  /\ active = r
  /\ dangling = {}
  /\ batch = <<>>
  /\ active' = NoResponder
  /\ reading' = reading \cup {r}
  /\ UNCHANGED <<conn, slots, subs, obuf, pending, batch, lastSerial,
                 dangling, peerVars, historyVars>>

Handle(r) ==
  \/ HandleData(r)
  \/ HandleRefused(r)
  \/ HandleSubscribe(r)
  \/ HandleUnsubscribe(r)
  \/ HandleSystem(r)
  \/ HandleFailure(r)
  \/ EndInput(r)

-----------------------------------------------------------------------------
(* Output, and the messages of the embedding application.                  *)

(* Fault: the write is not continued after a part of it.                   *)
OnOutputOnce(r, k) ==
  /\ Idle
  /\ conn[r] = "open"
  /\ r \in pending
  /\ link[r] # "reset"
  /\ k \in 1..Len(obuf[r])
  /\ sent' = [sent EXCEPT ![r] = @ \o SubSeq(obuf[r], 1, k)]
  /\ obuf' = [obuf EXCEPT ![r] = SubSeq(@, k + 1, Len(@))]
  /\ pending' = pending \ {r}
  /\ UNCHANGED <<conn, slots, subs, reading, active, batch, lastSerial,
                 dangling, link, inbox, calls, historyVars>>

(* Fault: the whole output is dropped when a part of it has been written.  *)
OnOutputClears(r, k) ==
  /\ Idle
  /\ conn[r] = "open"
  /\ r \in pending
  /\ link[r] # "reset"
  /\ k \in 1..Len(obuf[r])
  /\ sent' = [sent EXCEPT ![r] = @ \o SubSeq(obuf[r], 1, k)]
  /\ obuf' = [obuf EXCEPT ![r] = <<>>]
  /\ pending' = pending \ {r}
  /\ UNCHANGED <<conn, slots, subs, reading, active, batch, lastSerial,
                 dangling, link, inbox, calls, historyVars>>

(* The network takes k units of the pending write.                         *)
OnOutput(r, k) ==
  /\ Idle
  /\ conn[r] = "open"
  /\ r \in pending
  /\ link[r] # "reset"
  /\ k \in 1..Len(obuf[r])
  /\ sent' = [sent EXCEPT ![r] = @ \o SubSeq(obuf[r], 1, k)]
  /\ obuf' = [obuf EXCEPT ![r] = SubSeq(@, k + 1, Len(@))]
  /\ pending' = IF k = Len(obuf[r]) THEN pending \ {r} ELSE pending
  /\ UNCHANGED <<conn, slots, subs, reading, active, batch, lastSerial,
                 dangling, link, inbox, calls, historyVars>>

(* Responder::onOutputError                                                *)
OnOutputError(r) ==
  /\ Idle
  /\ conn[r] = "open"
  /\ r \in pending
  /\ link[r] = "reset"
  /\ CloseClient(r)
  /\ UNCHANGED <<slots, lastSerial, dangling, peerVars, historyVars>>

(* Server::sendMessage, called by the application between two events: such *)
(* a message has no serial number.                                         *)
AppSend(topic) ==
  /\ Idle
  /\ calls < MaxCalls
  /\ calls' = calls + 1
  /\ Dispatch(topic, 0, NoResponder, Dropped(topic))
  /\ UNCHANGED <<slots, active, batch, lastSerial, dangling, link, inbox,
                 sent, published, view, offenders>>

-----------------------------------------------------------------------------

Next ==
  \/ \E r \in Responders :
       \/ \E c \in Calls[r] : PeerCall(r, c)
       \/ PeerCloses(r)
       \/ PeerResets(r)
       \/ Accept(r)
       \/ \E n \in 1..Len(inbox[r]) : OnInput(r, n)
       \/ OnInputEnd(r)
       \/ Handle(r)
       \/ \E k \in 1..Len(obuf[r]) : OnOutput(r, k)
       \/ OnOutputError(r)
  \/ \E topic \in AppTopics : AppSend(topic)

Spec == Init /\ [][Next]_vars

(* The event loop runs a handler to its end, and its poll serves every     *)
(* connection that stays ready however often others are served before; the *)
(* network takes what a peer that is not stalled is sent.  No fairness for *)
(* the calls, the peers' failures and the stalled peers.                   *)
Fairness ==
  \A r \in Responders :
    /\ WF_vars(Handle(r))
    /\ SF_vars(Accept(r))
    /\ SF_vars(\E n \in 1..Len(inbox[r]) : OnInput(r, n))
    /\ SF_vars(OnInputEnd(r))
    /\ SF_vars(OnOutputError(r))
    /\ r \notin Stalled =>
         SF_vars(\E k \in 1..Len(obuf[r]) : OnOutput(r, k))

FairSpec == Spec /\ Fairness

-----------------------------------------------------------------------------
(* Properties.                                                             *)

(* The units a subscriber is owed: the packets of the messages dispatched  *)
(* while it was subscribed, once each, in the order of their dispatch.     *)
Expected(r) ==
  FlattenSeq([i \in 1..Len(log) |->
                IF r \in log[i].to THEN Packet(i, log[i].topic) ELSE <<>>])

(* What a subscriber gets is exactly what it is owed: nothing is lost,     *)
(* duplicated, reordered or torn, however its subscriptions overlap and    *)
(* however the writes are split.  When its responder is closed it has got  *)
(* a prefix.  (sendMessage, onOutputBufferEmpty, closeClient)              *)
DeliveryExact ==
  \A r \in Responders :
    /\ conn[r] = "open" => sent[r] \o obuf[r] = Expected(r)
    /\ IsPrefix(sent[r], Expected(r))

(* Between two events no responder is both deleted and in use: a deleted   *)
(* one holds no output, no subscription and no read, and the one whose     *)
(* messages are being handled is alive, unless it has deleted itself in    *)
(* doing so.  A living one is never deaf: its messages are being handled   *)
(* or its next read has been begun.  (closeClient, onInput)                *)
ResponderLife ==
  \A r \in Responders :
    /\ conn[r] # "open" => obuf[r] = <<>> /\ subs[r] = <<>> /\ r \notin reading
    /\ active = r /\ dangling = {} => conn[r] = "open"
    /\ conn[r] = "open" /\ dangling = {} => (r \in reading <=> active # r)

(* The output of an open client never stays above the limit.               *)
(* (Responder::sendMessage)                                                *)
OutputBounded ==
  \A r \in Responders :
    MaxOBuf # 0 /\ conn[r] = "open" => Len(obuf[r]) <= MaxOBuf

(* The server closes a client only if the peer has gone, broken the        *)
(* protocol, or left more than MaxOBuf units unread; never for what        *)
(* another client did.  (every caller of closeClient)                      *)
NoUnprovokedClose ==
  \A r \in Responders :
    conn[r] = "closed" =>
      \/ link[r] # "up"
      \/ r \in offenders
      \/ MaxOBuf # 0 /\ Len(Expected(r)) - Len(sent[r]) > MaxOBuf

(* A responder that has handled all its peer sent is subscribed to exactly *)
(* the topics the peer expects from the calls it has made.                 *)
(* (subscribe, unsubscribeMessageReceived, isSubscribed)                   *)
SubscriptionAgreement ==
  \A r \in Responders :
    (conn[r] = "open" /\ active # r /\ inbox[r] = <<>>) =>
      \A t \in Topic :
        IsSubscribed(r, t) <=> \E i \in DOMAIN view[r] : Match(view[r][i], t)

(* onInput never goes on with a responder that was deleted in its course.  *)
(* (Responder::onInput, the destruction sentry)                            *)
NoUseAfterDelete == dangling = {}

(* The topics of the messages that are not turned down: of those r has     *)
(* published that were dispatched, of those that wait, and of all of them. *)
TopicIf(wanted, topic) == IF wanted THEN <<topic>> ELSE <<>>

Dispatched(r) ==
  FlattenSeq([i \in 1..Len(log) |-> TopicIf(log[i].from = r, log[i].topic)])

DataTopics(messages) ==
  FlattenSeq([i \in 1..Len(messages) |->
                TopicIf(messages[i].type = "Data" /\ messages[i].topic \notin Refused,
                        messages[i].topic)])

Waiting(r) == (IF active = r THEN batch ELSE <<>>) \o inbox[r]

Accepted(r) ==
  FlattenSeq([i \in 1..Len(published[r]) |->
                TopicIf(published[r][i] \notin Refused, published[r][i])])

(* Every message a peer publishes is dispatched once, in the order of its  *)
(* calls, however they are grouped in reads; those behind its own closing  *)
(* are lost.  (Responder::onInput, Server::processMessage)                 *)
PublishedInOrder ==
  \A r \in Responders :
    /\ IsPrefix(Dispatched(r), Accepted(r))
    /\ conn[r] = "open" => Dispatched(r) \o DataTopics(Waiting(r)) = Accepted(r)

(* Also when an exception cuts a dispatch short, the stream of a client is *)
(* made of whole packets of messages it subscribed, in dispatch order,     *)
(* none of them twice.  (sendMessage, catch in onInput)                    *)
StreamOrdered ==
  \A r \in Responders :
    conn[r] = "open" =>
      \E I \in SUBSET {i \in 1..Len(log) : r \in log[i].to} :
        sent[r] \o obuf[r] =
          FlattenSeq([i \in 1..Len(log) |->
                        IF i \in I THEN Packet(i, log[i].topic) ELSE <<>>])

(* What a peer has sent is handled, or the peer is closed, whatever the    *)
(* other peers do.  (onInput always ends in beginRead or closeClient)      *)
InputHandled ==
  \A r \in Responders :
    (conn[r] = "open" /\ inbox[r] # <<>>)
      ~> (conn[r] = "closed" \/ (inbox[r] = <<>> /\ active # r))

(* A client that reads gets all it is owed or is closed; one that stalls   *)
(* delays nobody else.  (sendMessage never waits)                          *)
EventuallyDelivered ==
  \A r \in Responders \ Stalled :
    (conn[r] = "open" /\ sent[r] # Expected(r))
      ~> (conn[r] = "closed" \/ sent[r] = Expected(r))

(* The responder of a peer that has gone is deleted.                       *)
(* (onInput, onOutputError)                                                *)
GoneIsClosed ==
  \A r \in Responders : (conn[r] = "open" /\ link[r] # "up") ~> conn[r] = "closed"

(* The server implements the abstract service: what clients are owed is    *)
(* put into their outboxes at once by every publication.                   *)
Abstract ==
  INSTANCE PubSub WITH
    Members <- Responders,
    Limit <- MaxOBuf,
    status <- conn,
    interest <- [r \in Responders |-> {t \in Topic : IsSubscribed(r, t)}],
    outbox <- obuf,
    delivered <- sent,
    count <- Len(log)

ImplementsPubSub == Abstract!Spec

=============================================================================
