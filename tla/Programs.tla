------------------------------ MODULE Programs ------------------------------
(***************************************************************************)
(* Programs on top of Client, one of them in a run: "any", an application  *)
(* that calls Client as it likes; "pubGen" and "pubGenT", the generators   *)
(* that send in bulks and by a timer; "pubCopy", which sends on what it    *)
(* receives; "reader", which only receives, as pubDelay and the demo       *)
(* tntpubAsyncRead do.  From src/xsimu and src/demo.                       *)
(*                                                                         *)
(* What a slot sends is sent one message after the other in burst; the     *)
(* event loop runs nothing else in the meantime, the network goes on.      *)
(***************************************************************************)
EXTENDS Client

CONSTANTS
  Kinds,   \* the programs
  Num,     \* the messages a generator is to send
  Bulks,   \* the messages pubGen may send at once
  NumWrap, \* the range of unsigned
  MaxAnyIn \* bound on the messages "any" receives

ASSUME ProgramsAssumption ==
  /\ Kinds \subseteq {"any", "pubGen", "pubGenT", "pubCopy", "reader"}
  /\ 1 \in Sizes
  /\ Num \in Nat
  /\ Bulks \subseteq Nat
  /\ NumWrap \in Nat /\ NumWrap > Num
  /\ MaxAnyIn \in Nat

VARIABLES
  kind,    \* the program
  running, \* EventLoop::exit has not been called, and no exception has left it
  burst,   \* the messages the slot in progress has still to send
  num,     \* _num
  bulk,    \* _bulk
  sentBulk, \* _countPending
  total,   \* _totalCount
  finished \* history: the program ended because it was through

generatorVars == <<kind, num, bulk, sentBulk, total, finished>>
programVars == <<running, burst, generatorVars>>
allVars == <<vars, programVars>>

ProgramsInit ==
  /\ Init
  /\ kind \in Kinds
  /\ kind # "any" => mode = "async"
  /\ running = TRUE
  /\ burst = 0
  /\ num = Num
  /\ bulk \in IF kind = "pubGen" THEN Bulks ELSE {0}
  /\ sentBulk = 0
  /\ total = 0
  /\ finished = FALSE

(* onClosed of every program ends its event loop.                          *)
ExitIfClosed == running' = (running /\ closed' = closed) /\ UNCHANGED <<burst, generatorVars>>

-----------------------------------------------------------------------------
(* pubGen                                                                  *)

(* Fault: the generator goes on when there is nothing left to send.        *)
SendBulkForever ==
  LET count == IF num < bulk THEN num ELSE bulk IN
    /\ num' = num - count
    /\ burst' = count
    /\ sentBulk' = count
    /\ UNCHANGED <<running, finished>>

(* send: the next bulk, or the end when num or bulk is 0.                  *)
SendBulk ==
  LET count == IF num < bulk THEN num ELSE bulk IN
    /\ num' = num - count
    /\ burst' = count
    /\ sentBulk' = count
    /\ running' = (running /\ count > 0)
    /\ finished' = (count = 0)

MessagesSent ==
  /\ total' = total + sentBulk
  /\ SendBulk
  /\ UNCHANGED <<kind, bulk>>

-----------------------------------------------------------------------------
(* Handlers.                                                               *)

Network ==
  /\ \/ kind \in {"pubCopy", "reader"} /\ ServerSends
     \/ \E how \in {"eof", "reset"} : LinkFails(how)
  /\ UNCHANGED programVars

(* onConnected: endConnect, then the first bulk or the subscription.       *)
OnConnected ==
  /\ running
  /\ conns = 0
  /\ Connect
  /\ \/ kind = "pubGen" /\ SendBulk /\ UNCHANGED <<kind, bulk, total>>
     \/ kind = "pubGenT" /\ UNCHANGED programVars
     \/ /\ kind \in {"pubCopy", "reader"}
        /\ burst' = 1
        /\ UNCHANGED <<running, generatorVars>>

(* An exception ends the slot; in onConnected it ends the program.         *)
SendInSlot ==
  /\ burst > 0
  /\ SendAsync(1)
  /\ IF failed' = failed
       THEN burst' = burst - 1 /\ UNCHANGED running
       ELSE burst' = 0 /\ running' = (running /\ handler # "none")
  /\ UNCHANGED generatorVars

IsLast == num = 0

(* pubGenT: onThrottleTimeout                                              *)
OnThrottleTimeout ==
  /\ kind = "pubGenT"
  /\ running
  /\ handler = "none"
  /\ SendAsync(1)
  /\ num' = (num + NumWrap - 1) % NumWrap
  /\ finished' = (failed' = failed /\ IsLast)
  /\ running' = (failed' = failed /\ ~IsLast)
  /\ UNCHANGED <<kind, burst, bulk, sentBulk, total>>

Output(k) ==
  /\ running
  /\ burst = 0
  /\ OnOutput(k)
  /\ IF kind = "pubGen" /\ handler' = "sent" THEN MessagesSent
                                             ELSE UNCHANGED programVars

OutputFails(k) ==
  /\ running
  /\ burst = 0
  /\ OnOutputFails(k)
  /\ ExitIfClosed

(* A slot ends with the exception of its last send, or without one.        *)
EndSlot ==
  /\ burst = 0
  /\ IF failed = "yes" THEN SlotThrows /\ ExitIfClosed
     ELSE (EndOutput \/ EndCallback) /\ UNCHANGED programVars

Input(n) ==
  /\ running
  /\ burst = 0
  /\ OnInput(n)
  /\ UNCHANGED programVars

(* Fault: a message is sent on only if no write is pending.                *)
CopiesIfIdle == IF "write" \in pending THEN 0 ELSE 1

(* pubCopy: onMessageReceived sends what it gets to the other topic.       *)
Copies == 1

MessageReceived ==
  /\ kind \in {"pubCopy", "reader"}
  /\ Dispatch
  /\ burst' = IF kind = "pubCopy" THEN Copies ELSE 0
  /\ UNCHANGED <<running, generatorVars>>

InputEnds ==
  /\ burst = 0
  /\ \/ EndInput
     \/ EndInputEof
     \/ EndInputFails
     \/ running /\ OnInputFails
  /\ ExitIfClosed

ProgramStep ==
  /\ kind # "any"
  /\ \/ Network
     \/ OnConnected
     \/ SendInSlot
     \/ OnThrottleTimeout
     \/ \E k \in 1..Len(pinned) : Output(k)
     \/ \E k \in 0..Len(pinned) : OutputFails(k)
     \/ EndSlot
     \/ \E n \in 0..Len(inbox) : Input(n)
     \/ MessageReceived
     \/ InputEnds

AnyStep == kind = "any" /\ Next /\ arrived' <= MaxAnyIn /\ UNCHANGED programVars

ProgramsNext == AnyStep \/ ProgramStep

(* The event loop runs slots and handlers to their end, serves a socket    *)
(* that stays ready, and fires timers; the connection comes about.         *)
ProgramsFairness ==
  LET Loop == \/ OnConnected \/ SendInSlot \/ OnThrottleTimeout
              \/ EndSlot \/ MessageReceived \/ InputEnds
              \/ \E n \in 0..Len(inbox) : Input(n)
  IN  /\ WF_allVars(kind # "any" /\ Loop)
      /\ SF_allVars(kind # "any" /\ \E k \in 1..Len(pinned) : Output(k))

ProgramsSpec == ProgramsInit /\ [][ProgramsNext]_allVars /\ ProgramsFairness

-----------------------------------------------------------------------------
(* Properties.                                                             *)

(* What pubGen has counted when messagesSent was signalled has been        *)
(* written, to the last message; when it ends because it is through, all   *)
(* it was to send is counted, unless its bulks are empty.                  *)
(* (PubGen::send, onMessagesSent, Client::onOutput)                        *)
CountedIsWritten ==
  kind = "pubGen" =>
    /\ total <= Len(wire)
    /\ finished /\ bulk > 0 => total = Num /\ Len(wire) = Num

(* pubGenT sends no more messages than its option -n, "number of records   *)
(* to write", asks for.  (src/xsimu/pubGenT.cpp, onThrottleTimeout)        *)
SendsAsAsked == kind = "pubGenT" => sends <= Num

(* pubCopy answers every message of its server by one of its own, however  *)
(* many come in one read while earlier ones are being written, until it    *)
(* loses its connection.  (PubCopy::onMessageReceived, Client::onInput)    *)
CopiesEach ==
  (kind = "pubCopy" /\ conn = "connected" /\ burst = 0 /\ failed = "no") =>
    wire \o obuf \o next = [i \in 1..(1 + Len(got)) |-> i]

(* A generator ends, when it is through or has lost its server.            *)
(* (PubGen::send, onClosed; run)                                           *)
GeneratorEnds == kind \in {"pubGen", "pubGenT"} ~> ~running

=============================================================================
