------------------------------ MODULE Dispatch ------------------------------
(***************************************************************************)
(* One event of the tntpub server, call by call.  Server takes a dispatch  *)
(* as one step; here the slots and callbacks of an application may send    *)
(* messages, register callbacks and throw in the middle of it, so that     *)
(* dispatches nest and responders are deleted under the feet of those who  *)
(* called them.  From src/tntpub/messagesink.cpp, responder.cpp, server.cpp *)
(* and include/tntpub/serviceprocedure.h.                                  *)
(*                                                                         *)
(* The calls in progress are a stack of frames.  A frame says where the    *)
(* call is (at), whom it works on (pos: a responder, or the index of a     *)
(* callback) and which message it handles (msg, its place in log).  The    *)
(* output of a responder is counted in messages.                           *)
(***************************************************************************)
EXTENDS Naturals, SequencesExt

CONSTANTS
  Responders,   \* numbers, in the order they connected to messageReceived
  Topics,
  Farewell,     \* the topic the slot of clientDisconnected sends to
  Answer,       \* the topic a callback sends to
  Stored,       \* messages the slot of clientSubscribed has for a topic
  Applications, \* the applications: hooks, callbacks and output limit
  Interests,    \* what the responders may be subscribed to at the start
  Slow,         \* responders whose output is at the limit at the start
  Publications, \* the messages clients publish
  AppTopics,    \* the topics of the messages the application sends
  MaxEvents,    \* bound on the events
  MaxDepth      \* calls that fit on the stack

Kinds == {"counts", "mismatched", "throws", "answers", "registers"}

(* missed: the messages that were dispatched before it was registered.     *)
Callback == [topics : SUBSET Topics, kind : Kinds, missed : SUBSET Nat]

Application ==
  [hooks     : SUBSET {"farewell", "warning", "recovery"},
   callbacks : Seq(Callback),
   limit     : Nat]

MessageTypes == {"Data", "PlainData"}

ASSUME DispatchAssumption ==
  /\ Responders \subseteq Nat \ {0}
  /\ {Farewell, Answer} \subseteq Topics
  /\ Stored \in Nat
  /\ Applications \subseteq Application
  /\ \A app \in Applications : \A c \in ToSet(app.callbacks) : c.missed = {}
  /\ Interests \subseteq [Responders -> SUBSET Topics]
  /\ Slow \subseteq Responders
  /\ Publications \subseteq [from : Responders, topic : Topics, type : MessageTypes]
  /\ AppTopics \subseteq Topics
  /\ MaxEvents \in Nat
  /\ MaxDepth \in Nat /\ MaxDepth > Stored + 1

VARIABLES
  hooks,     \* the signals the application has slots for
  limit,     \* Responder::_maxOBuf
  callbacks, \* MessageSink::_callbacks
  wants,     \* the topics of Responder::_subscriptions
  alive,     \* "open", "closing": in closeClient, or "deleted"
  size,      \* Responder::_socket.outputSize()
  stack,     \* the calls in progress
  outcome,   \* "ok", or what has ended the server: "deletedUsed",
             \* "endless", "raised": an exception has left the event loop
  events,    \* the number of events so far
  log,       \* history: the messages sent
  got,       \* history: the messages each responder was given
  ran        \* history: the callbacks called, and for which message

appVars     == <<hooks, limit>>
historyVars == <<log, got, ran>>
vars == <<appVars, callbacks, wants, alive, size, stack, outcome, events,
          historyVars>>

Frame(at, pos, msg) == [at |-> at, pos |-> pos, msg |-> msg]

(* The first frame of an event: the call of the event loop or application. *)
Root(at, r) ==
  [at |-> at, pos |-> r, msg |-> 0, sent |-> Len(log), alive |-> alive, size |-> size]

TypeOK ==
  /\ callbacks \in Seq(Callback)
  /\ wants \in [Responders -> SUBSET Topics]
  /\ alive \in [Responders -> {"open", "closing", "deleted"}]
  /\ size \in [Responders -> Nat]
  /\ Len(stack) <= MaxDepth
  /\ \A i \in DOMAIN stack :
       stack[i].at = "callbacks" => stack[i].pos \in 1..(Len(callbacks) + 1)
  /\ outcome \in {"ok", "deletedUsed", "endless", "raised"}
  /\ log \in Seq([topic : Topics, type : MessageTypes,
                  to : SUBSET Responders, during : SUBSET Nat,
                  direct : BOOLEAN, cut : BOOLEAN])
  /\ got \in [Responders -> Seq(1..Len(log))]
  /\ ran \in Seq((1..Len(callbacks)) \X (1..Len(log)))

Init ==
  /\ \E app \in Applications :
       hooks = app.hooks /\ limit = app.limit /\ callbacks = app.callbacks
  /\ wants \in Interests
  /\ alive = [r \in Responders |-> "open"]
  /\ size = [r \in Responders |-> IF r \in Slow THEN limit ELSE 0]
  /\ stack = <<>>
  /\ outcome = "ok"
  /\ events = 0
  /\ log = <<>>
  /\ got = [r \in Responders |-> <<>>]
  /\ ran = <<>>

Top == Last(stack)
At(place) == outcome = "ok" /\ stack # <<>> /\ Top.at = place

(* The top frame is replaced by these, the last of which goes on.          *)
Continue(frames) ==
  IF Len(stack) - 1 + Len(frames) <= MaxDepth
    THEN stack' = Front(stack) \o frames /\ UNCHANGED outcome
    ELSE outcome' = "endless" /\ UNCHANGED stack

(* The messages whose dispatch is in progress.                             *)
InProgress == {stack[i].msg : i \in DOMAIN stack} \ {0}

NewId == Len(log) + 1

NewEntry(R, topic, type, direct) ==
  [topic |-> topic, type |-> type, to |-> R, during |-> InProgress,
   direct |-> direct, cut |-> FALSE]

(* Responder::sendMessage, called by a slot of the application.            *)
SendDirectly(r) == log' = Append(log, NewEntry({r}, Answer, "Data", TRUE))

Connected(r) == alive[r] # "deleted"

Subscribers(topic) == {r \in Responders : Connected(r) /\ topic \in wants[r]}

(* Server::sendMessage calls doSendMessage, that is dispatchMessage.       *)
NewMessage(topic, type) ==
  log' = Append(log, NewEntry(Subscribers(topic), topic, type, FALSE))

(* DataMessage::appendTo the output buffer of r.                           *)
AppendTo(r, id) ==
  /\ size' = [size EXCEPT ![r] = @ + 1]
  /\ got' = [got EXCEPT ![r] = Append(@, id)]

-----------------------------------------------------------------------------
(* Events.                                                                 *)

Event ==
  /\ stack = <<>>
  /\ outcome = "ok"
  /\ events < MaxEvents
  /\ events' = events + 1
  /\ UNCHANGED <<appVars, callbacks, outcome>>

(* onInput hands a data message to Server::processMessage.                 *)
Publish(p) ==
  /\ Event
  /\ alive[p.from] = "open"
  /\ NewMessage(p.topic, p.type)
  /\ stack' = <<Root("input", p.from), Frame("emit", 0, NewId)>>
  /\ UNCHANGED <<wants, alive, size, got, ran>>

(* onInput hands a message to Responder::subscribe; the application may    *)
(* have stored messages for the new subscriber.                            *)
Subscribe(r, topic) ==
  /\ Event
  /\ alive[r] = "open"
  /\ topic \notin wants[r]
  /\ wants' = [wants EXCEPT ![r] = @ \cup {topic}]
  /\ stack' = IF "recovery" \in hooks
                THEN <<Root("input", r)>> \o [i \in 1..Stored |-> Frame("recover", r, 0)]
                ELSE <<Root("input", r)>>
  /\ UNCHANGED <<alive, size, historyVars>>

(* Server::sendMessage                                                     *)
AppSend(topic) ==
  /\ Event
  /\ NewMessage(topic, "Data")
  /\ stack' = <<Root("app", 0), Frame("emit", 0, NewId)>>
  /\ UNCHANGED <<wants, alive, size, got, ran>>

(* Responder::onOutputError, or the end of the stream inside the try block *)
(* of onInput.                                                             *)
PeerGone(r) ==
  /\ Event
  /\ alive[r] = "open"
  /\ \/ stack' = <<Frame("close", r, 0)>>
     \/ stack' = <<Root("eof", r), Frame("close", r, 0)>>
  /\ UNCHANGED <<wants, alive, size, historyVars>>

(* The socket has written all its output.                                  *)
Written(r) ==
  /\ stack = <<>>
  /\ outcome = "ok"
  /\ alive[r] = "open"
  /\ size[r] > 0
  /\ size' = [size EXCEPT ![r] = 0]
  /\ UNCHANGED <<appVars, callbacks, wants, alive, stack, outcome, events,
                 historyVars>>

-----------------------------------------------------------------------------
(* MessageSink::dispatchMessage: the slots of messageReceived, then the    *)
(* callbacks.                                                              *)

(* The subscribers whose slots are still to be called; a deleted responder *)
(* is no longer connected, a closing one is.                               *)
Due == {r \in Subscribers(log[Top.msg].topic) : r > Top.pos}

(* Faults: the emission ends at a deleted responder, calls its slot, or    *)
(* calls the slots backwards.                                              *)
IsNextUntilDeleted(r) ==
  /\ r \in Due
  /\ \A q \in Responders : Top.pos < q /\ q < r => Connected(q) /\ q \notin Due

IsNextDeletedToo(r) ==
  LET called == {q \in Responders : q > Top.pos /\ log[Top.msg].topic \in wants[q]}
  IN  r \in called /\ \A q \in called : r <= q

IsNextBackwards(r) ==
  LET due == {q \in Subscribers(log[Top.msg].topic) : Top.msg \notin ToSet(got[q])}
  IN  r \in due /\ \A q \in due : q <= r

IsNext(r) == r \in Due /\ \A q \in Due : r <= q

EmitTo(r) ==
  /\ At("emit")
  /\ IsNext(r)
  /\ AppendTo(r, Top.msg)
  /\ Continue(<<Frame("emit", r, Top.msg), Frame("full", r, Top.msg)>>)
  /\ UNCHANGED <<appVars, callbacks, wants, alive, events, log, ran>>

EmitEnds ==
  /\ At("emit")
  /\ \A r \in Responders : ~IsNext(r)
  /\ Continue(IF log[Top.msg].type = "Data"
                THEN <<Frame("callbacks", 1, Top.msg)>> ELSE <<>>)
  /\ UNCHANGED <<appVars, callbacks, wants, alive, size, events, historyVars>>

(* The callback at the loop's index is called with the message if its      *)
(* topic matches.                                                          *)
Invoked ==
  /\ At("callbacks")
  /\ Top.pos <= Len(callbacks)
  /\ log[Top.msg].topic \in callbacks[Top.pos].topics

(* Fault: the index is incremented twice.                                  *)
CallbackAfterNext == Frame("callbacks", Top.pos + 2, Top.msg)

NextCallback == Frame("callbacks", Top.pos + 1, Top.msg)

CallbacksEnd ==
  /\ At("callbacks")
  /\ Top.pos > Len(callbacks)
  /\ Continue(<<>>)
  /\ UNCHANGED <<appVars, callbacks, wants, alive, size, events, historyVars>>

(* Another topic, or SerializationError: the message has no such argument. *)
Skip(frames) ==
  /\ At("callbacks")
  /\ Top.pos <= Len(callbacks)
  /\ Invoked => callbacks[Top.pos].kind = "mismatched"
  /\ Continue(frames)
  /\ UNCHANGED <<appVars, callbacks, wants, alive, size, events, historyVars>>

(* Fault: SerializationError is caught outside the loop.                   *)
SkipRemaining == Skip(IF Invoked THEN <<>> ELSE <<NextCallback>>)

SkipCallback == Skip(<<NextCallback>>)

Run(kind) ==
  /\ Invoked
  /\ callbacks[Top.pos].kind = kind
  /\ ran' = Append(ran, <<Top.pos, Top.msg>>)
  /\ UNCHANGED <<appVars, wants, size, events, got>>

CallbackCounts ==
  /\ Run("counts")
  /\ Continue(<<NextCallback>>)
  /\ UNCHANGED <<callbacks, alive, log>>

(* registerFunction in a callback: the loop goes on to what was registered. *)
CallbackRegisters ==
  /\ Run("registers")
  /\ callbacks' = Append(callbacks,
       [callbacks[Top.pos] EXCEPT !.kind = "counts", !.missed = DOMAIN log \ InProgress])
  /\ Continue(<<NextCallback>>)
  /\ UNCHANGED <<alive, log>>

CallbackAnswers ==
  /\ Run("answers")
  /\ NewMessage(Answer, "Data")
  /\ Continue(<<NextCallback, Frame("emit", 0, NewId)>>)
  /\ UNCHANGED <<callbacks, alive>>

(* Fault: onInput has no catch.                                            *)
CaughtByCaller(root) == root.at = "app"

Caught(root) == root.at \in {"input", "eof", "app"}

(* An exception that is no SerializationError ends all calls up to the     *)
(* catch of onInput, which closes its client if that is not deleted.       *)
CallbackThrows ==
  LET root == Head(stack) IN
    /\ Run("throws")
    /\ log' = [i \in DOMAIN log |->
                 IF i \in InProgress THEN [log[i] EXCEPT !.cut = TRUE] ELSE log[i]]
    /\ IF ~Caught(root)
         THEN outcome' = "raised" /\ UNCHANGED stack
         ELSE /\ stack' = IF root.at \in {"input", "eof"} /\ Connected(root.pos)
                            THEN <<Frame("close", root.pos, 0)>> ELSE <<>>
              /\ UNCHANGED outcome
    /\ UNCHANGED <<callbacks, alive>>

-----------------------------------------------------------------------------
(* Responder::sendMessage behind appendTo, and closeClient.                *)

(* Faults: no limit is one of 0, or a full buffer already is too much.     *)
OverflowsZero(r) == size[r] > limit

OverflowsAtLimit(r) == limit # 0 /\ size[r] >= limit

Overflows(r) == limit # 0 /\ size[r] > limit

(* The slot of outputBufferFull may send the client a warning.             *)
OutputFull ==
  LET r == Top.pos IN
    /\ At("full")
    /\ IF Overflows(r) /\ "warning" \in hooks
         THEN /\ SendDirectly(r)
              /\ AppendTo(r, NewId)
              /\ Continue(<<Frame("stillFull", r, Top.msg), Frame("full", r, NewId)>>)
         ELSE /\ Continue(<<Frame("stillFull", r, Top.msg)>>)
              /\ UNCHANGED <<size, log, got>>
    /\ UNCHANGED <<appVars, callbacks, wants, alive, events, ran>>

(* The second comparison; the responder may be gone by now.                *)
StillFull ==
  LET r == Top.pos IN
    /\ At("stillFull")
    /\ IF ~Connected(r) THEN outcome' = "deletedUsed" /\ UNCHANGED stack
       ELSE Continue(IF Overflows(r) THEN <<Frame("close", r, Top.msg)>> ELSE <<>>)
    /\ UNCHANGED <<appVars, callbacks, wants, alive, size, events, historyVars>>

(* closeClient emits clientDisconnected while the responder is connected.  *)
CloseClient ==
  LET r == Top.pos IN
    /\ At("close")
    /\ alive' = [alive EXCEPT ![r] = "closing"]
    /\ IF "farewell" \in hooks
         THEN /\ NewMessage(Farewell, "Data")
              /\ Continue(<<Frame("delete", r, Top.msg), Frame("emit", 0, NewId)>>)
         ELSE /\ Continue(<<Frame("delete", r, Top.msg)>>)
              /\ UNCHANGED log
    /\ UNCHANGED <<appVars, callbacks, wants, size, events, got, ran>>

DeleteThis ==
  LET r == Top.pos IN
    /\ At("delete")
    /\ IF ~Connected(r) THEN outcome' = "deletedUsed" /\ UNCHANGED <<stack, alive, size>>
       ELSE /\ alive' = [alive EXCEPT ![r] = "deleted"]
            /\ size' = [size EXCEPT ![r] = 0]
            /\ Continue(<<>>)
    /\ UNCHANGED <<appVars, callbacks, wants, events, historyVars>>

(* The slot of clientSubscribed sends what it has stored, one by one.      *)
Recover ==
  LET r == Top.pos IN
    /\ At("recover")
    /\ IF ~Connected(r)
         THEN outcome' = "deletedUsed" /\ UNCHANGED <<stack, size, log, got>>
         ELSE /\ SendDirectly(r)
              /\ AppendTo(r, NewId)
              /\ Continue(<<Frame("full", r, NewId)>>)
    /\ UNCHANGED <<appVars, callbacks, wants, alive, events, ran>>

(* onDataMessageProcessed and onInput go on with the responder; the check  *)
(* of the sentry leaves the callback of the deserializer only.             *)
EndInput ==
  /\ At("input")
  /\ IF Connected(Top.pos) THEN Continue(<<>>)
     ELSE outcome' = "deletedUsed" /\ UNCHANGED stack
  /\ UNCHANGED <<appVars, callbacks, wants, alive, size, events, historyVars>>

(* Neither sendMessage nor the end of the stream goes on with anything.    *)
EndEvent ==
  /\ At("app") \/ At("eof")
  /\ Continue(<<>>)
  /\ UNCHANGED <<appVars, callbacks, wants, alive, size, events, historyVars>>

-----------------------------------------------------------------------------

Next ==
  \/ \E r \in Responders :
       \/ \E topic \in Topics : Subscribe(r, topic)
       \/ PeerGone(r)
       \/ Written(r)
       \/ EmitTo(r)
  \/ \E p \in Publications : Publish(p)
  \/ \E topic \in AppTopics : AppSend(topic)
  \/ EmitEnds
  \/ CallbacksEnd
  \/ SkipCallback
  \/ CallbackCounts
  \/ CallbackRegisters
  \/ CallbackAnswers
  \/ CallbackThrows
  \/ OutputFull
  \/ StillFull
  \/ CloseClient
  \/ DeleteThis
  \/ Recover
  \/ EndInput
  \/ EndEvent

Spec == Init /\ [][Next]_vars

-----------------------------------------------------------------------------
(* Properties.                                                             *)

Times(r, i) == Cardinality({k \in DOMAIN got[r] : got[r][k] = i})

(* However dispatches nest and whoever is deleted in between, no responder *)
(* gets a message twice or one that is not for it, and those still open    *)
(* have got all theirs, unless an exception cut the dispatch.              *)
(* (dispatchMessage, onDataMessageReceived, closeClient)                   *)
ExactlyOnce ==
  \A r \in Responders, i \in DOMAIN log :
    /\ Times(r, i) <= IF r \in log[i].to THEN 1 ELSE 0
    /\ (stack = <<>> /\ outcome = "ok" /\ alive[r] = "open"
         /\ r \in log[i].to /\ ~log[i].cut) => Times(r, i) = 1

(* Two clients get two messages in different orders only if one was sent  *)
(* in the dispatch of the other, by what the slot of a responder between   *)
(* them did: the one behind it gets the inner message first.               *)
(* (dispatchMessage called from a slot of messageReceived)                 *)
OrderAgreement ==
  \A q, r \in Responders : \A k, l \in DOMAIN got[q], m, n \in DOMAIN got[r] :
    LET i == got[q][k]
        j == got[q][l]
    IN  k < l /\ m < n /\ got[r][m] = j /\ got[r][n] = i =>
          \/ i \in log[j].during /\ q < r
          \/ j \in log[i].during /\ r < q

(* A dispatched data message that no exception cuts runs every callback    *)
(* that matches, once: those in the list when it is sent and those         *)
(* registered while its dispatch is in progress; none runs for any other   *)
(* message, such as those a slot sends to one client.                      *)
(* (dispatchMessage, ServiceFunction::invoke)                              *)
CallbacksOnce ==
  LET Runs(n, i) == Cardinality({k \in DOMAIN ran : ran[k] = <<n, i>>})
      Matches(n, i) ==
        LET c == callbacks[n]
        IN  /\ ~log[i].direct
            /\ log[i].type = "Data"
            /\ log[i].topic \in c.topics
            /\ c.kind # "mismatched"
            /\ i \notin c.missed
  IN  \A n \in DOMAIN callbacks, i \in DOMAIN log :
        /\ Runs(n, i) <= IF Matches(n, i) THEN 1 ELSE 0
        /\ (stack = <<>> /\ outcome = "ok" /\ ~log[i].cut /\ Matches(n, i)) =>
             Runs(n, i) = 1

(* Without hooks, throwing or answering callbacks a dispatch is the one    *)
(* step Server takes it for: when it returns to onInput or the application *)
(* every subscriber has the message or, if that is too much, is deleted.   *)
(* (Server!Dispatch)                                                       *)
AsOneStep ==
  LET root == Head(stack)
      topic == log[Len(log)].topic
      Reached(r) == root.alive[r] = "open" /\ topic \in wants[r]
      Dropped(r) == Reached(r) /\ limit # 0 /\ root.size[r] + 1 > limit
  IN  (/\ Len(stack) = 1 /\ root.at \in {"input", "app"} /\ root.sent < Len(log)
       /\ hooks = {}
       /\ \A n \in DOMAIN callbacks : callbacks[n].kind \notin {"throws", "answers"}) =>
        \A r \in Responders :
          /\ alive[r] = IF Dropped(r) THEN "deleted" ELSE root.alive[r]
          /\ size[r] = IF Dropped(r) THEN 0
                       ELSE root.size[r] + (IF Reached(r) THEN 1 ELSE 0)

AnswersTo(topic) ==
  \E n \in DOMAIN callbacks : callbacks[n].kind = "answers" /\ topic \in callbacks[n].topics

(* What the slot of clientDisconnected sends goes to these topics: its own *)
(* and that of a callback which answers it.                                *)
OfFarewell(topic) == topic = Farewell \/ (topic = Answer /\ AnswersTo(Farewell))

(* A callback that throws when it gets any of that.                        *)
ThrowsInClose ==
  /\ "farewell" \in hooks
  /\ \E n \in DOMAIN callbacks :
       callbacks[n].kind = "throws" /\ \E topic \in callbacks[n].topics : OfFarewell(topic)

(* A responder that closeClient was called for is deleted, and exceptions  *)
(* are caught before they reach the event loop, unless one is raised while *)
(* clientDisconnected is emitted.  (closeClient, catch in onInput)         *)
ClosedIsDeleted ==
  \/ ThrowsInClose
  \/ /\ outcome # "raised"
     /\ stack = <<>> => \A r \in Responders : alive[r] # "closing"

(* No call goes on with a deleted responder if the output is unlimited, or *)
(* if new subscribers are sent nothing by the application and the message  *)
(* being handled is not of a client that has subscribed something.         *)
(* (onInput, sendMessage, closeClient)                                     *)
DeletedIsNotUsed ==
  outcome = "deletedUsed" =>
    /\ limit # 0
    /\ \/ "recovery" \in hooks
       \/ stack[1].at = "input" /\ wants[stack[1].pos] # {}

HearsFarewell(r) == \E topic \in wants[r] : OfFarewell(topic)

(* The calls do not nest without end, unless a callback answers the topic  *)
(* it is called for, or a client over the limit is sent still more: by the *)
(* slot of outputBufferFull, or by that of clientDisconnected and those    *)
(* who answer it.  (dispatchMessage, sendMessage, closeClient)             *)
Unwinds ==
  outcome = "endless" =>
    \/ AnswersTo(Answer)
    \/ /\ limit # 0
       /\ \/ "warning" \in hooks
          \/ "farewell" \in hooks /\ \E r \in Responders : HearsFarewell(r)

=============================================================================
