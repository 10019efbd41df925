# A TLA+ verification of tntpub

tntpub is a publish/subscribe library on top of the cxxtools event loop: a
server to which clients connect over TCP, subscribe to topics and publish
messages. This directory models it in TLA+, checks the models with TLC and
proves theorems about them with TLAPS.

    tlc -config MCFanout.cfg MCServer.tla     # one run, see "Runs"
    tlapm ServerProofs.tla                    # the proofs of one module, see "Proofs"

## The system

### Components

| Component | Source | State | Operations |
| --- | --- | --- | --- |
| Topic, Subscription | `topic.h`, `subscription.*` | main and sub topic, type | `match`, `equals` |
| DataMessage | `datamessage.*` | type, topic, source, serial, data; the static `_lastSerial` | `subscribe`, `unsubscribe`, `create`..., `isValidType`, `subscriptionType`, `setNextSerial`, `appendTo` |
| DataMessageDeserializer | `datamessage.*` | `_inputData` | `addData`, `processMessage` (two), `advance` |
| Server | `server.*`, `messagesink.cpp` | the slots of `messageReceived`, `_maxOBuf` | `onConnectionPending`, `processMessage`, `doSendMessage`, `dispatchMessage` |
| Responder (one per connection) | `responder.*` | `_subscriptions`, socket with output buffer, deserializer, destruction sentry | `onInput`, `onOutputBufferEmpty`, `onOutputError`, `onDataMessageReceived`, `sendMessage`, `closeClient` |
| Client | `client.*` | `_outputBuffer`, `_outputBufferNext`, `_deserializer`, `_autoSync`, socket | `connect`..., `close`, `subscribe`..., `sendMessage`, `flush`, `autoSync`, `readMessage`, `onOutput`, `onInput` |
| Message sink callbacks | `messagesink.*`, `serviceprocedure.h` | `_callbacks` | `registerFunction`, `registerMethod`, `invoke` |
| Programs | `tntpubserver.cpp`, `xsimu/`, `tools/`, `demo/` | counters and timers of the generators | |

Sockets, signals, the event loop, regular expressions and serialization come
from cxxtools, which is not part of the repository. They are modelled from the
way tntpub uses them, and marked as external in `PROJECT.json`.

### Interaction

A client call becomes a message in the client's output buffer; the socket's
`outputReady` signal drives `Client::onOutput`. The server's event loop calls
`Responder::onInput` when bytes arrive. It gives what it read to the
deserializer, whose callback runs for each complete message. A data message
goes through `Server::processMessage` to `MessageSink::dispatchMessage`, which
emits `messageReceived`; every responder is a slot of that signal, so one
responder's input handler calls `sendMessage` of all others, its own included.
A responder that cannot send, or whose output buffer grows over the limit, is
deleted in the middle of this by `closeClient` (`delete this`).

### What is hard

* Deletion inside a handler: `closeClient` may delete the responder whose
  `onInput` is further up on the stack.
* Exceptions across components: what `sendMessage` of one responder throws is
  caught in the `onInput` of another.
* Input cut into reads anywhere; a handler that works on several messages of
  one read, between which the peers go on.
* Slots of the application in the middle of a handler, which send messages,
  register callbacks, throw, or close and reconnect.
* Two output buffers in the client, one of which belongs to the socket while a
  write is pending; blocking and non-blocking sending on the same buffers.
* Connections that end, are reset or stall at any moment; reconnecting.
* Progress: every handler has to start the next read or write, or close.
* Lengths and serial numbers that the header of a message cuts.

tntpub has one thread and keeps nothing on disk: there are no data races and no
recovery. `PROJECT.json` lists each hazard with its line and the properties
about it.

### What makes each component correct

* Subscription, Responder: a client is subscribed to exactly what its calls say.
* Server: each message reaches each subscriber once, whole, in order; a client
  is closed only for its own failure; memory per client is bounded; nobody
  waits for a slow client; what is deleted is not used.
* Deserializer: the outcome does not depend on how the stream is cut.
* Message sink: however dispatches nest, each responder and each callback gets a
  message once, and the order is the same for all but where nesting changes it.
* Message encoding: a message that fits its header arrives as it was sent, and
  one that does not leaves the others alone.
* Client: what is sent goes over the wire once and in order; what arrives is
  dispatched once and in order; the application learns of a lost connection and
  of messages written.
* Programs: what a generator counts was written, it ends, and a copy is made of
  every message.

## Modules

| Module | Contents |
| --- | --- |
| `Subscription` | topics, types of subscription, `Match`, `Equals` |
| `DataMessage` | EXTENDS `Subscription`; type byte of each call, validity, subscription type |
| `Server` | EXTENDS `DataMessage`; server and responders, peers and network |
| `PubSub` | the abstract service; `Server` implements it (`INSTANCE PubSub WITH ...`) |
| `MCServer` | topics, patterns, calls and peers for TLC |
| `ServerProofs` | theorems about `Server`: types, limits, deletion, the refinement of `PubSub` |
| `DeliveryProofs` | theorems about `Server`: who is sent what, who is closed, and who is subscribed to what |
| `Dispatch` | one event of the server call by call, with slots and callbacks that call back |
| `MCDispatch` | interests, hooks and callbacks for TLC |
| `DispatchProofs` | theorems about `Dispatch` |
| `WireFormat` | header, `appendTo` and `processMessage` on the bytes of a message |
| `MCWireFormat` | messages below, at and above what the header can say |
| `WireFormatProofs` | theorems about `WireFormat` |
| `Deserializer` | `DataMessageDeserializer` under its three callers |
| `MCDeserializer` | all streams of a few frames |
| `DeserializerProofs` | theorems about `Deserializer` |
| `Client` | the client in an event loop |
| `ClientProofs` | theorems about `Client` |
| `Programs` | EXTENDS `Client`; the programs of `xsimu` and the demo reader on top of it |
| `ProgramsProofs` | theorems about `Programs` |
| `SequenceLemmas` | lemmas about `SubSeq`, concatenation, `RemoveFirst` and `FlattenSeq` |

Definitions whose comment begins with *Fault* are not used by any model. Each
is a plausible error in the definition behind it, and the entry `mutants` of
`PROJECT.json` names the property that finds it when it takes that
definition's place.

### Server

`conn`, `subs`, `obuf` and `pending` are the life, the subscriptions, the
output buffers and the pending write of each responder, `slots` the order in
which the responders connected to `messageReceived`, `lastSerial` the static
counter. `reading` holds the responders whose socket has a read begun: the
constructor and the end of `onInput` begin one (`Accept`, `EndInput`), `onInput`
is called only when one ends (`OnInput`, `OnInputEnd`), and a responder for
which none is begun is deaf. `active` and `batch` are the responder whose
`onInput` is running and the messages it has yet to handle. `link`, `inbox` and `sent` are the peer and
the network; `log`, `published`, `view` and `offenders` are history variables
for the properties.

A handler runs to its end before the next starts. `onInput` is nevertheless
split into `OnInput` (the read), one step for each message (`HandleData`,
`HandleRefused`, `HandleSubscribe`, `HandleUnsubscribe`, `HandleSystem`,
`HandleFailure`) and `EndInput`: the server itself does nothing else
between them (`Idle`), but peers call, close and are reset.

A dispatch is one step, `Dispatch`. It computes who is reached (`Reached`: an
exception stops the emission of the signal at the responder that raised it),
who is dropped for its output (`Dropped`), and appends the packet to the
others. The module `Dispatch` runs the loop over the slots call by call, and
its property `AsOneStep` says that this gives the same as long as no slot calls
back. When the sender itself is dropped, `dangling` records that `onInput` goes
on with a deleted object; the model stops there, because nothing defined can
follow.

A message on its way to a client is a packet of `MsgSize` units and the network
takes any number of units at a time, so that a write can stop inside a message.
Messages on their way to the server arrive whole in `inbox`; that this is what
the callback sees for every cutting of the bytes is the subject of
`Deserializer`. `EndInput` and `OnInputEnd` split the test for the end of the
stream, which `onInput` makes after the read that meets it.

`BeginWriteThrows` is a constant because it depends on cxxtools whether
`beginWrite` on a reset connection raises an exception at once or reports it
through `outputFailed`.

### PubSub

The service without input, messages and exceptions: `Publish` puts the
publication into the outboxes of all interested members and drops those that
are overdue. `status` is `conn`, `interest` what the subscriptions match,
`outbox` the output buffers and `delivered` what was sent.

### Dispatch

What `Server` leaves out: slots of `clientSubscribed` (which sends stored
messages to the new subscriber), `clientDisconnected` (which sends a farewell)
and `outputBufferFull` (which sends a warning), and the callbacks of
`MessageSink` (which count, cannot take their argument, throw, send an answer
or register another callback). `stack` is the stack of calls: an event puts an
`onInput`, a `closeClient` or a `sendMessage` of the application on it, and each
step takes the top frame on by one call. `emit` is the emission of
`messageReceived` (`IsNext` is the next slot), `callbacks` the loop over
`_callbacks`, `full` and `stillFull` the two comparisons in
`Responder::sendMessage`, `close` and `delete` the two halves of `closeClient`.
A responder is `closing` while `clientDisconnected` is emitted: it is then still
connected to `messageReceived`. A frame that finds its responder deleted ends
the run with `deletedUsed`, a stack of more than `MaxDepth` frames with
`endless`, an exception nobody catches with `raised`. A client that has gone is
closed by `onOutputError`, which nothing surrounds, or at the end of the stream
inside the `try` of `onInput` (a frame `eof`), whose `catch` closes it again if
the first attempt threw. The output is counted in
messages and the peers do nothing: that is the part of `Server`.

### WireFormat

A buffer is a sequence of units that know which field they come from; the
header is `HeaderSize` units and its numbers. `Encode` is `appendTo` (the
lengths cut to 16 bits, the buffer sized by the uncut ones, and the copies to
the offsets of the header, in order), `Decode`, `Readable`, `Rejected` and
`Behind` are `processMessage`, which rejects a foreign magic number when
`Header1Size` units are there and a corrupt header when `HeaderSize` are. A client sends, the server numbers and forwards,
a subscriber reads. `ReadOld` is `createFromBuffer` with the old format.

### Deserializer

A byte is a record that knows its frame, its place in it, the length of the
frame and whether it is good, corrupt or foreign. `Advance`, `DirectMessage`,
`DirectEnd`, `BufferedMessage` and `BufferedEnd` are `advance` with its two
loops; `AddData`, `BufferedMessage` and `BufferedEnd` are the loop of
`Client::onInput`; `ReadMessage`, `AddData` and `BufferedMessage` are
`Client::readMessage`. The variable `caller` says which of the three uses the
connection makes of it.

### Client

`obuf` and `next` are `_outputBuffer` and `_outputBufferNext`, `pinned` what the
last `beginWrite` was given, `dser` the deserializer's data. `conn` and
`pending` belong to the socket. A blocking write is one step that writes any
number of units and, when that is not all, raises an exception. `onInput` is
split at its slots, and so are `onOutput` at `messagesSent` and the end of a
failed read at `closed`. `handler` says which of them is in progress. In all of
them the application may send, flush and change the mode; it may connect
between two handlers and in the slots of `messagesSent` and `closed`, and close
in the former. `readMessage` takes the place of the event loop from
`ReadMessage` to `ReadReturns` or `ReadThrows`. The application sends on a
connected client only, and `TcpSocket::close` is taken to emit `closed`
(`CloseSignals`), which is what `Client::onClosed` is there for.

A failed read closes the socket, which signals `closed`, and then clears the
buffers and signals `closed` again. An application that connects and sends in
the first of these slots has the buffer of its pending write cleared: the model
goes on with the handler `undefined`, in which nothing is promised.
`PinnedUntouched` and `ClosedMeansGone` say that this happens in no other way.

Closing does not reset the deserializer. A connection that begins with a part
of a message from the one before (`staleIn`) may find bytes that are no message;
the exception then leaves `onInput` without a read pending, and the client
neither receives anything nor learns that the server has gone. `InboundExact`,
`StaysReading` and `GoneIsSignalled` name this case as their exception.

### Programs

Each behaviour has one `kind` of program. `any` is the application of `Client`;
the others connect once and do the rest in their slots. What a slot sends is
sent one message after the other in `burst`. `num`, `bulk`, `sentBulk` and
`total` are `_num`, `_bulk`, `_countPending` and `_totalCount` of `PubGen`;
`_num` is unsigned, of the range `NumWrap`. `pubGenT` sends at every timeout
and looks at `_num` afterwards; `SendsAsAsked` compares the two. All programs end when `closed` is signalled.

## Runs

All runs use at most three clients and a bound on the number of calls. No run
checks for deadlock: the peers may stop calling, the calls are bounded, an idle
server or client is not an error, and a program that has ended does nothing.
Progress is checked by the liveness properties instead.

| Run | Configuration | Shows |
| --- | --- | --- |
| `fanout` | 2 clients, 4 calls of every type that survives the wire, overlapping subscriptions, garbage and a bad pattern, packets of 1 and 2 units, a limit of 3, messages of the application, an unreliable subscriber | `DeliveryExact`: nothing lost, doubled, torn or reordered; `NoUnprovokedClose`; `SubscriptionAgreement`; `ImplementsPubSub` |
| `abort` | 3 clients, 5 calls, 2 topics with packets of 1 and 2 units, a limit of 3, messages of the application, `beginWrite` throws on a reset peer | `StreamOrdered`, `PublishedInOrder`, `OutputBounded`, `NoUseAfterDelete`, `ResponderLife` |
| `live` | 2 clients, 3 calls, a refused topic; one of the clients stalls, closes or is reset | `InputHandled`, `EventuallyDelivered`, `GoneIsClosed` |
| `dispatch` | 3 responders, 2 events, all sets of hooks without callbacks, seven lists of callbacks with at most one hook, limits of 0 to 2, different topics for farewells and answers, a stack of 12 frames | `ExactlyOnce`, `OrderAgreement`, `CallbacksOnce`, `AsOneStep`, `ClosedIsDeleted`, `DeletedIsNotUsed`, `Unwinds` |
| `wire` | 2 messages with fields up to twice what the header can say, one larger than the message length can say; lengths are cut at 4, the message length at 20, serial numbers at 4 | `FramingKept`, `RoundTrip`, `Forwarded` |
| `deserializer` | the three callers, all streams of up to 3 frames, headers of 2 bytes (old) and 3 bytes, frames of up to 5, cut off at the end or not | `InSync`, `CuttingInvisible`, `DeliveredInOrder`, `EverythingParsed` |
| `client_output` | every program; 3 messages of 1 or 2 units, 2 connections, timeouts; generators of 2 messages in bulks of 0 to 3, 2 messages to copy | `PinnedUntouched`, `WireExact`, `CountedIsWritten`, `CopiesEach`, `GeneratorEnds` |
| `client_input` | 2 messages of 2 units for each of 2 connections, messages out, reading by the loop or by `readMessage` | `InboundExact`, `NoneLeftBehind`, `ClosedMeansGone`, `StaysReading`, `SentIsSignalled`, `GoneIsSignalled` |

Why the bounds are enough: an overlap needs two subscriptions and one
publication; a message overtaken or torn needs two messages, one of them of two
units; the limit is crossed by the second packet while part of the first is
unwritten; an aborted dispatch needs a publisher, a reset subscriber and one
behind it, and because it closes the publisher, the application sends what
follows the gap; publications out of order need two topics. In the deserializer three frames give one before, at and behind each
cut, and the two header lengths differ. In the client the third message meets
both buffers in use. Two connections are needed for one to leave something to
the next. A dispatch nested in another needs two responders and a slot between
them; a third shows that those behind are still served, and a stack of 12 holds
every nesting that does not repeat itself (`MaxDepth`). Two events (`MaxEvents`)
let the first delete, register or fill what the second meets. Lengths of up to
six with `LengthWrap` 4 are below, at and above the cut in every field.
`MaxAnyIn` is 0 in `client_output` because that application's input is the
subject of `client_input`, and `NumWrap` only has to be larger than `Num`.

Four runs show that the code does not do what its documents or tests say:

| Run | What happens |
| --- | --- |
| `self_subscriber` | with an output limit, a client that is subscribed to what it publishes is deleted by its own message while `onInput` is running |
| `sub_topics` | unsubscribing compares main topic and type only: it ends the only subscription of a client that has named another sub topic, or the wrong one of two |
| `reversed` | `DataMessage::subscribe` turns `RegexReversed` into a full subscription, and `isValidType` rejects what `subscribeWithObject` makes of it, so that the client is closed |
| `timer_generator` | `pubGenT` sends one message more than its option `-n` asks for |

`NoUseAfterDelete`, `SubscriptionAgreement` and `NoUnprovokedClose` therefore
hold in `abort` and `fanout` under conditions that their configurations name:
publishers do not subscribe, a client has no two subscriptions with the same
main topic and type, and does not use `RegexReversed`.

Other properties say in what case the code does not do what one would expect,
and are checked to hold in all others. None of these is contradicted by a
document of the repository:

* `Unwinds`: a warning sent by a slot of `outputBufferFull` calls that slot
  again; a callback that answers its own topic calls itself; a farewell to a
  topic that a client over the limit has subscribed, or a callback's answer to
  the farewell, closes that client again and again.
* `ClosedIsDeleted`: a callback that throws on what a slot of
  `clientDisconnected` sends keeps the responder from being deleted.
* `DeletedIsNotUsed`: besides the client that publishes to what it has
  subscribed (`self_subscriber`), any subscriber that publishes may be deleted by
  what slots and callbacks send while its message is handled, and so may a new
  one that is sent stored messages over its limit. One of the interests of
  `dispatch` has a publisher without subscriptions, for which the property
  forbids it.
* `RoundTrip`: of a topic of 65536 bytes or more a prefix arrives, and the data
  grows by the rest; a message in the old format is read eight bytes too late.
* `ClosedMeansGone`, `PinnedUntouched`: reconnecting in the slot of `closed`.
* `NoneLeftBehind`: `readMessage` leaves whole messages for the next read.
* `SentIsSignalled`: `flush` writes without a signal of `messagesSent`.

### Fairness

`Server` assumes that the event loop runs a handler to its end (weak fairness of
`Handle`) and that a connection that is ready again and again is served in the
end (strong fairness of `Accept`, `OnInput`, `OnInputEnd`, `OnOutputError` and,
for peers that read, `OnOutput`). The poll reports a connection only for what was
begun on it: without a read or a write begun none of these is enabled. Strong fairness is needed because each of
these waits for `Idle`, which other connections take away; it is justified
because `poll` reports all ready connections and the loop handles each of them
before it polls again. Nothing is assumed of the peers: they may stop calling,
never close, and those in `Stalled` may stop reading for ever.

`Client` assumes the same of its own loop. Strong fairness of `OnOutput` and
`OnInput` is needed because the application runs in between and may take the
pending write away with a flush. Nothing is assumed of the application, but a
`readMessage` that has data or an error returns. `Programs` adds that timers
fire and that a connection begun comes about; the network stays free to fail.
`Dispatch` and `WireFormat` have no liveness properties and no fairness. In `Deserializer` weak fairness of `Next` says
that a loop that can go on does, and that what the peer sends is read.

## Proofs

TLC checks the instances above; the theorems hold for all values of the
constants that satisfy the assumptions their modules declare. Most of these only
give the constants their types. The others: in `Client` and `Server` every
message has a length, in `Programs` some message has length one and the counter
does not wrap below the number asked for, in `Deserializer` the frames of the
stream are as long as their headers say, in `Dispatch` a callback that is
registered before the first event has missed no message and the stack holds the
frames that one event starts with. A theorem that needs more names it in an
`ASSUME` of its own.

### ServerProofs

* `TypeCorrect`: `[]TypeOK`.
* `OutputIsBounded` and `DeletedIsUnused`: `[]OutputBounded`, `[]ResponderLife`,
  from the inductive `LifeInv`, which adds the type invariant to them:
  `ResponderLife` says that a responder's handler runs only if it is open, without
  which a dispatch could append to the output of a deleted responder, and that an
  open responder has a read begun exactly while its handler does not run. `DispatchLife` is the common
  part of all actions that dispatch.
* `SafeWithoutLimitOrWithRoles`: `[]NoUseAfterDelete` if `MaxOBuf = 0` or no
  client both publishes and subscribes. The run `self_subscriber` shows that
  the condition cannot be dropped. The proof needs `RoleInv`, which says that
  what is in a client's inbox and batch comes from its calls, and that a client
  whose calls do not subscribe has no subscription.
* `ServerImplementsPubSub`: `ImplementsPubSub` if `beginWrite` does not
  throw. Each action maps to one action of `PubSub` or to a stutter; with
  exceptions a dispatch may leave out subscribers, and the abstract `Publish`
  has no such step.

### DeliveryProofs

* `DeliversExactly`: `[]DeliveryExact` if `beginWrite` does not throw. `OwedInv`
  says that what a client is owed begins with what it was sent, and is what it
  was sent and what its output holds while it is connected. Each dispatch adds
  the same packets to both sides (`OwedGrows`).
* `StreamsAreWhole`: `[]StreamOrdered` without that condition: output and sent
  data together consist of whole packets of subscribed messages in the order of
  the log.
* `PublishesInOrder`: `[]PublishedInOrder`, with exceptions too. `PublishInv`
  says that what was accepted from a client is what was dispatched for it and
  what waits in its batch and inbox.
* `ClosesWithReason`: `[]NoUnprovokedClose` if `beginWrite` does not throw and
  no client uses `RegexReversed`. `BlameInv` says that whatever waits for the
  handler of a blameless client is one of the `Harmless` messages.

* `SubscribesAsCalled`: `[]SubscriptionAgreement` if the calls name every
  subscription they mean (`CallsUnambiguous`: none uses `RegexReversed`, whose
  type the wire loses, and no two subscriptions differ in the sub topic only,
  which `Equals` overlooks). The calls of `fanout` do; those of `sub_topics` and
  `reversed` do not, and there TLC shows what happens. What a client expects is a
  fold over its calls. `AgreeInv` instead says that there is a series of
  subscription lists, one for each message that waits, that leads from those of
  the responder to those the client expects (`Leads`): a call adds a list at its
  end, a handled message takes one off its front, and when nothing waits both ends
  are the same list.

The first three are statements about `FlattenSeq`, which chooses a recursive
function. `SequenceLemmas` proves that the choice exists, is unique and goes on
with what is appended; in place of an induction each of these proofs takes the
least number for which its claim fails (`LeastNatural`). The module also has the
facts about `SubSeq`, concatenation and what is taken off the front.

### DispatchProofs

* `TypeCorrect`: `[]TypeOK`, from `TypeInv`, which also says of each frame what it
  may be about (`Fits`). The lemmas `...Shape` say what each action does to the
  stack: it returns, goes on, or calls.
* `GivenExactlyOnce`: `[]ExactlyOnce`. `EmitInv` has a message emitted by at most
  one frame (`OneEmission`), to those who were subscribed when it was sent
  (`SameSubscribers`), with nobody served who is behind the frame's position
  (`NoneAhead`) and everybody who is not (`AllGiven`). It needs `CloseInv`: a
  frame `close` is on top and its responder connected.
* `CalledOnce`: `[]CallbacksOnce`. `CallInv` does the same for the loop over the
  callbacks, which grows while it runs: a callback registered in the middle of
  a dispatch has not missed its message.
* `InAgreedOrder`: `[]OrderAgreement`. Two messages split the responders
  (`Split`): those up to some position have the outer message first, those
  behind it the inner one, and the frame of the outer emission stands at that
  position while the inner one is emitted (`SplitFrames`).
* `ClosesToTheEnd`: `[]ClosedIsDeleted`. `ClosedInv` has a frame `delete` for each
  responder that is being closed, and every dispatch above that is one of the
  farewell or of the answer to it, so that nothing else can throw it away.
* `CallsEnd`: `[]Unwinds` if the stack holds seven frames more than there are stored
  messages. `Height` is the number of frames that a frame can still lead to, and
  `DepthInv` says that each has that room above it.
* `DeletedIsLeftAlone`: `[]DeletedIsNotUsed`. The condition is about the event in
  progress (the limit, and what the client whose message is handled has
  subscribed), so that `SafeInv` only speaks of events that meet it. It says whose
  calls may be in progress at once. A responder is closed above another of its own calls only
  while it is being closed already, and only if it hears the farewell, or the
  answer to it, that this emits. It is then over the limit, and `Unfinished` says
  that the emission has still to come to it and will close it once more. Such
  calls nest until the stack is full (see `Unwinds`); the inner one never
  returns to delete what the outer one is to delete.

* `PlainDispatchIsOneStep`: `[]AsOneStep`, so that what `Server` takes for one
  step is one in every application without hooks, throwing or answering
  callbacks. The frame of the caller remembers `alive` and `size`. `OneInv`
  compares with them: whoever the emission has passed is as the one step leaves
  him (`Handled`), whoever it has not come to is as before (`AsBefore`), and the
  frame on top says how far the one whose turn it is has come (`InTurn`). It needs
  `ClosedInv`: nobody is being closed when an event begins.

### WireFormatProofs

* `FramingIsKept` and `ArrivesAsSent`: `[]FramingKept` and `[]RoundTrip`.
  `FramingInv` says that, while no message is oversize, the server's buffer is
  `Framed` (the encodings of the messages it has not read yet, one behind the
  other) and that each message read is what `Decode` makes of the one sent.
  `EncodeUnits` says where `appendTo` puts each unit, `ReadEncoded` what is read
  from a buffer that begins with an encoded message. `OldInv` does the same for
  the old format.
* `ForwardsAsRead`: `[]Forwarded`, without that condition. What the server
  reads, from whatever bytes, is never too large for the header it is sent on
  with (`Small`), and `ForwardInv` says that the subscriber's buffer is framed.

### DeserializerProofs

* `TypeCorrect`, `StaysInSync` and `DeliversInOrder`: `[]TypeOK`, `[]InSync` and
  `[]DeliveredInOrder` for every stream, every length of header and frames and
  every way of cutting. `OneHolder` says that bytes are held either by
  `_inputData` or by the caller's buffer; together they are inductive.
  `FrameAhead` says what a complete buffer that begins with a header tells of
  the stream.
* `CutsAreInvisible`: `[]CuttingInvisible`, from `FramesInv` (the frames of the
  consumed bytes are those delivered, to their last byte) and `PhaseInv` (a
  handler that has ended has left no whole frame).

### ClientProofs

* `TypeCorrect`: `[]TypeOK`. The bound on how often `closed` is signalled needs
  `LifeInv`: which handler may be running on a connection in which state.
* `PinnedLeftAlone` and `WireCarriesAll`: `[]PinnedUntouched`, `[]WireExact`.
  `BufferInv` says that a pending write has been given the whole of
  `_outputBuffer`, and that without one both buffers are empty.
* `InboundDispatchedOnce`: `[]InboundExact`. `InboundInv` places each unit that is
  in the deserializer or on its way: `Between` counts the units of the messages
  between the last one dispatched and the unit's own.
* `LoopLeavesNone`, `ClosedIsTold`, `KeepsReading`: `[]NoneLeftBehind`,
  `[]ClosedMeansGone`, `[]StaysReading`, from `NoticeInv`.

### ProgramsProofs

* `ProgramsAreClients`: a program on top of the client is an application that
  `Client` allows, so that all theorems about `Client` hold for the programs.
* `CountsWhatIsWritten`: `[]CountedIsWritten`. `GeneratorInv` balances the numbers
  of `pubGen`: what is left to do, what was sent and what waits is what was asked for.
* `CopiesEveryMessage`: `[]CopiesEach`, from `CopyInv`.

### Only model-checked

* The liveness properties (`InputHandled`, `EventuallyDelivered`, `GoneIsClosed`,
  `EverythingParsed`, `GeneratorEnds`, `SentIsSignalled`, `GoneIsSignalled`):
  temporal reasoning under fairness is beyond the prover.

Every invariant that a passing run checks, and the refinement, is also a theorem,
six of them under the condition named with it.

## Not modelled

Not modelled because they have no logic the models could test: wording, logging,
`si()` and the other accessors, `checksum`, the host name, dates, the statistics
of the simulation programs, the server application, the tools and build files.

Not modelled because it is a matter of memory: a client that is deleted in its
own slots, `readMessage` called in the slot of a message (both overwrite or free
the message that `dispatchMessage` still refers to), and the leak in the move
assignment of `Subscription`.

Left out because nothing in the repository does it: a slot of `outputBufferFull`
that empties the output of its responder, and closing or connecting in the slot
of a message. `Client` and `Server` are not composed: each is checked against a
network that may do all the other side can do.
