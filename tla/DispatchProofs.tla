--------------------------- MODULE DispatchProofs ---------------------------
(***************************************************************************)
(* Theorems about Dispatch: what responders and callbacks get when         *)
(* dispatches nest, responders are deleted in the middle of them and       *)
(* exceptions cut them short.                                              *)
(***************************************************************************)
EXTENDS Dispatch, SequenceLemmas, FiniteSetTheorems

-----------------------------------------------------------------------------
(* The stack.                                                              *)

Places ==
  {"input", "app", "eof", "emit", "callbacks", "full", "stillFull", "close",
   "delete", "recover"}

AnyFrame ==
  [at : Places, pos : Nat, msg : Nat]
  \cup [at : Places, pos : Nat, msg : Nat, sent : Nat,
        alive : [Responders -> {"open", "closing", "deleted"}],
        size : [Responders -> Nat]]

(* What a frame may be about when m messages have been sent and n          *)
(* callbacks are registered.                                               *)
Fits(f, m, n) ==
  /\ f \in AnyFrame
  /\ f.msg \in 0..m
  /\ f.at \in {"emit", "callbacks", "full", "stillFull"} => f.msg # 0
  /\ f.at \in {"input", "eof", "close", "delete", "recover", "full", "stillFull"} =>
       f.pos \in Responders
  /\ f.at = "callbacks" => f.pos \in 1..(n + 1)

StackOK ==
  /\ stack \in Seq(AnyFrame)
  /\ Len(stack) <= MaxDepth
  /\ \A k \in 1..Len(stack) : Fits(stack[k], Len(log), Len(callbacks))

(* The frame on top, and the number of it.                                 *)
LEMMA TopFrame ==
  ASSUME StackOK, stack # <<>>
  PROVE  /\ Len(stack) \in Nat /\ Len(stack) > 0
         /\ Len(stack) \in 1..Len(stack)
         /\ Top = stack[Len(stack)]
         /\ Fits(Top, Len(log), Len(callbacks))
         /\ Top.at \in Places /\ Top.pos \in Nat /\ Top.msg \in Nat
<1>1. Len(stack) \in Nat /\ Len(stack) > 0
  BY EmptySeq DEF StackOK
<1>2. Top = stack[Len(stack)]
  BY DEF Top, Last
<1>3. Len(stack) \in 1..Len(stack)
  BY <1>1
<1>4. Fits(Top, Len(log), Len(callbacks))
  BY <1>2, <1>3 DEF StackOK
<1>5. Top \in AnyFrame
  BY <1>4 DEF Fits
<1>6. Top.at \in Places /\ Top.pos \in Nat /\ Top.msg \in Nat
  BY <1>5 DEF AnyFrame
<1> QED
  BY <1>1, <1>2, <1>3, <1>4, <1>6

LEMMA FrameType ==
  ASSUME NEW at \in Places, NEW pos \in Nat, NEW msg \in Nat
  PROVE  /\ Frame(at, pos, msg) \in AnyFrame
         /\ Frame(at, pos, msg).at = at
         /\ Frame(at, pos, msg).pos = pos
         /\ Frame(at, pos, msg).msg = msg
BY DEF Frame, AnyFrame

(* The frames below the top.                                               *)
LEMMA BelowTop ==
  ASSUME StackOK, stack # <<>>
  PROVE  /\ Front(stack) \in Seq(AnyFrame)
         /\ Len(Front(stack)) = Len(stack) - 1
         /\ \A k \in 1..(Len(stack) - 1) : Front(stack)[k] = stack[k]
         /\ Len(stack) <= MaxDepth /\ MaxDepth \in Nat
<1>1. Len(stack) - 1 \in 0..Len(stack)
  BY TopFrame
<1> QED
  BY <1>1, FirstOf, DispatchAssumption DEF StackOK, Front

(* A call ends, goes on, or goes on after another call.                    *)
Returns ==
  /\ outcome' = outcome
  /\ stack' \in Seq(AnyFrame)
  /\ Len(stack') = Len(stack) - 1
  /\ \A k \in 1..(Len(stack) - 1) : stack'[k] = stack[k]

GoesOn(f) ==
  /\ outcome' = outcome
  /\ stack' \in Seq(AnyFrame)
  /\ Len(stack') = Len(stack)
  /\ \A k \in 1..(Len(stack) - 1) : stack'[k] = stack[k]
  /\ stack'[Len(stack)] = f

CallsFrom(f, g) ==
  /\ outcome' = outcome
  /\ stack' \in Seq(AnyFrame)
  /\ Len(stack') = Len(stack) + 1
  /\ Len(stack') <= MaxDepth
  /\ \A k \in 1..(Len(stack) - 1) : stack'[k] = stack[k]
  /\ stack'[Len(stack)] = f
  /\ stack'[Len(stack) + 1] = g

LEMMA ContinueNone ==
  ASSUME StackOK, stack # <<>>, Continue(<<>>)
  PROVE  Returns
<1>1. <<>> \in Seq(AnyFrame) /\ Len(<<>>) = 0
  OBVIOUS
<1>2. Len(stack) \in Nat /\ Len(stack) > 0
  BY TopFrame
<1>3. Len(stack) - 1 + Len(<<>>) <= MaxDepth
  BY <1>1, <1>2, BelowTop
<1>4. stack' = Front(stack) \o <<>> /\ outcome' = outcome
  BY <1>3 DEF Continue
<1>5. stack' = Front(stack)
  BY <1>4, BelowTop, ConcatEmptySeq
<1> QED
  BY <1>4, <1>5, BelowTop DEF Returns

LEMMA ContinueOne ==
  ASSUME StackOK, stack # <<>>, NEW f \in AnyFrame, Continue(<<f>>)
  PROVE  GoesOn(f)
<1>1. <<f>> \in Seq(AnyFrame) /\ Len(<<f>>) = 1 /\ <<f>>[1] = f
  OBVIOUS
<1>2. Len(stack) \in Nat /\ Len(stack) > 0
  BY TopFrame
<1>3. Len(stack) - 1 + Len(<<f>>) <= MaxDepth
  BY <1>1, <1>2, BelowTop
<1>4. stack' = Front(stack) \o <<f>> /\ outcome' = outcome
  BY <1>3 DEF Continue
<1>5. stack' \in Seq(AnyFrame) /\ Len(stack') = Len(stack)
  BY <1>1, <1>2, <1>4, BelowTop, ConcatProperties
<1>6. \A k \in 1..Len(stack) :
        stack'[k] = IF k <= Len(stack) - 1 THEN Front(stack)[k]
                    ELSE <<f>>[k - (Len(stack) - 1)]
  BY <1>1, <1>2, <1>4, BelowTop, ConcatProperties
<1> QED
  BY <1>1, <1>2, <1>4, <1>5, <1>6, BelowTop DEF GoesOn

LEMMA ContinueTwo ==
  ASSUME StackOK, stack # <<>>, NEW f \in AnyFrame, NEW g \in AnyFrame,
         Continue(<<f, g>>)
  PROVE  CallsFrom(f, g) \/ (outcome' = "endless" /\ stack' = stack)
<1>1. <<f, g>> \in Seq(AnyFrame) /\ Len(<<f, g>>) = 2
      /\ <<f, g>>[1] = f /\ <<f, g>>[2] = g
  OBVIOUS
<1>2. Len(stack) \in Nat /\ Len(stack) > 0
  BY TopFrame
<1>3. CASE ~(Len(stack) - 1 + Len(<<f, g>>) <= MaxDepth)
  BY <1>3 DEF Continue
<1>4. CASE Len(stack) - 1 + Len(<<f, g>>) <= MaxDepth
  <2>1. stack' = Front(stack) \o <<f, g>> /\ outcome' = outcome
    BY <1>4 DEF Continue
  <2>2. stack' \in Seq(AnyFrame) /\ Len(stack') = Len(stack) + 1
    BY <1>1, <1>2, <2>1, BelowTop, ConcatProperties
  <2>3. \A k \in 1..(Len(stack) + 1) :
          stack'[k] = IF k <= Len(stack) - 1 THEN Front(stack)[k]
                      ELSE <<f, g>>[k - (Len(stack) - 1)]
    BY <1>1, <1>2, <2>1, BelowTop, ConcatProperties
  <2>4. Len(stack') <= MaxDepth
    BY <1>1, <1>2, <1>4, <2>2
  <2>5. \A k \in 1..(Len(stack) - 1) : stack'[k] = stack[k]
    BY <1>2, <2>3, BelowTop
  <2>6. stack'[Len(stack)] = f
    BY <1>1, <1>2, <2>3
  <2>7. stack'[Len(stack) + 1] = g
    <3>1. (Len(stack) + 1) - (Len(stack) - 1) = 2
      BY <1>2
    <3>2. Len(stack) + 1 \in 1..(Len(stack) + 1) /\ ~(Len(stack) + 1 <= Len(stack) - 1)
      BY <1>2
    <3> QED
      BY <1>1, <2>3, <3>1, <3>2
  <2> QED
    BY <2>1, <2>2, <2>4, <2>5, <2>6, <2>7 DEF CallsFrom
<1> QED
  BY <1>3, <1>4

-----------------------------------------------------------------------------
(* Types.                                                                  *)

(* Messages and callbacks only become more.                                *)
Grows ==
  /\ Len(log) \in Nat /\ Len(log') \in Nat /\ Len(log) <= Len(log')
  /\ Len(callbacks) \in Nat /\ Len(callbacks') \in Nat
  /\ Len(callbacks) <= Len(callbacks')

LEMMA StillFits ==
  ASSUME Grows, NEW f, Fits(f, Len(log), Len(callbacks))
  PROVE  Fits(f, Len(log'), Len(callbacks'))
BY DEF Grows, Fits

LEMMA StackStays ==
  ASSUME StackOK, Grows, stack' = stack
  PROVE  StackOK'
BY StillFits DEF StackOK

LEMMA StackReturns ==
  ASSUME StackOK, stack # <<>>, Grows, Returns
  PROVE  StackOK'
<1>1. Len(stack) \in Nat /\ Len(stack) > 0 /\ Len(stack) <= MaxDepth /\ MaxDepth \in Nat
  BY TopFrame, BelowTop
<1> QED
  BY <1>1, StillFits DEF StackOK, Returns

LEMMA StackGoesOn ==
  ASSUME StackOK, stack # <<>>, Grows, NEW f, GoesOn(f),
         Fits(f, Len(log'), Len(callbacks'))
  PROVE  StackOK'
<1>1. Len(stack) \in Nat /\ Len(stack) > 0 /\ Len(stack) <= MaxDepth /\ MaxDepth \in Nat
  BY TopFrame, BelowTop
<1>2. \A k \in 1..(Len(stack) - 1) : Fits(stack'[k], Len(log'), Len(callbacks'))
  BY <1>1, StillFits DEF StackOK, GoesOn
<1>3. \A k \in 1..Len(stack) : Fits(stack'[k], Len(log'), Len(callbacks'))
  BY <1>1, <1>2 DEF GoesOn
<1> QED
  BY <1>1, <1>3 DEF StackOK, GoesOn

LEMMA StackCalls ==
  ASSUME StackOK, stack # <<>>, Grows, NEW f, NEW g,
         CallsFrom(f, g) \/ stack' = stack,
         Fits(f, Len(log'), Len(callbacks')), Fits(g, Len(log'), Len(callbacks'))
  PROVE  StackOK'
<1>1. Len(stack) \in Nat /\ Len(stack) > 0 /\ Len(stack) <= MaxDepth /\ MaxDepth \in Nat
  BY TopFrame, BelowTop
<1>2. ASSUME CallsFrom(f, g)
      PROVE  StackOK'
  <2>1. \A k \in 1..(Len(stack) - 1) : Fits(stack'[k], Len(log'), Len(callbacks'))
    BY <1>1, <1>2, StillFits DEF StackOK, CallsFrom
  <2>2. \A k \in 1..(Len(stack) + 1) : Fits(stack'[k], Len(log'), Len(callbacks'))
    BY <1>1, <1>2, <2>1 DEF CallsFrom
  <2> QED
    BY <1>1, <1>2, <2>2 DEF StackOK, CallsFrom
<1> QED
  BY <1>2, StackStays

(* The variables but the stack.                                            *)
Entry == [topic : Topics, type : MessageTypes, to : SUBSET Responders,
          during : SUBSET Nat, direct : BOOLEAN, cut : BOOLEAN]

DataOK ==
  /\ callbacks \in Seq(Callback)
  /\ wants \in [Responders -> SUBSET Topics]
  /\ alive \in [Responders -> {"open", "closing", "deleted"}]
  /\ size \in [Responders -> Nat]
  /\ outcome \in {"ok", "deletedUsed", "endless", "raised"}
  /\ log \in Seq(Entry)
  /\ got \in [Responders -> Seq(1..Len(log))]
  /\ ran \in Seq((1..Len(callbacks)) \X (1..Len(log)))

TypeInv == DataOK /\ StackOK

LEMMA TypesOK == TypeInv => TypeOK
<1> SUFFICES ASSUME DataOK, StackOK
             PROVE  TypeOK
  BY DEF TypeInv
<1>1. DOMAIN stack = 1..Len(stack)
  BY DEF StackOK
<1>2. \A i \in DOMAIN stack :
        stack[i].at = "callbacks" => stack[i].pos \in 1..(Len(callbacks) + 1)
  BY <1>1 DEF StackOK, Fits
<1> QED
  BY <1>2 DEF DataOK, StackOK, TypeOK, Entry

LEMMA GotSeq ==
  ASSUME DataOK, Grows, NEW r \in Responders
  PROVE  got[r] \in Seq(1..Len(log')) /\ got[r] \in Seq(1..Len(log))
<1>1. 1..Len(log) \subseteq 1..Len(log')
  BY DEF Grows
<1>2. got[r] \in Seq(1..Len(log))
  BY DEF DataOK
<1> QED
  BY <1>1, <1>2, SeqMonotonic

LEMMA GotStays ==
  ASSUME DataOK, Grows, got' = got
  PROVE  got' \in [Responders -> Seq(1..Len(log'))]
BY GotSeq DEF DataOK

LEMMA RanStays ==
  ASSUME DataOK, Grows, ran' = ran
  PROVE  ran' \in Seq((1..Len(callbacks')) \X (1..Len(log')))
<1>1. (1..Len(callbacks)) \X (1..Len(log)) \subseteq (1..Len(callbacks')) \X (1..Len(log'))
  BY DEF Grows
<1> QED
  BY <1>1, SeqMonotonic DEF DataOK

(* A message is appended to what a responder is given.                     *)
LEMMA GotMore ==
  ASSUME DataOK, Grows, NEW r \in Responders, NEW i \in 1..Len(log'),
         got' = [got EXCEPT ![r] = Append(@, i)]
  PROVE  /\ got' \in [Responders -> Seq(1..Len(log'))]
         /\ got'[r] = Append(got[r], i)
         /\ \A q \in Responders : q # r => got'[q] = got[q]
<1>1. \A q \in Responders : got[q] \in Seq(1..Len(log'))
  BY GotSeq
<1>2. Append(got[r], i) \in Seq(1..Len(log'))
  BY <1>1, AppendProperties
<1>3. got \in [Responders -> Seq(1..Len(log))]
  BY DEF DataOK
<1> QED
  BY <1>1, <1>2, <1>3

LEMMA NewEntryType ==
  ASSUME StackOK, NEW R \in SUBSET Responders, NEW topic \in Topics,
         NEW type \in MessageTypes, NEW direct \in BOOLEAN
  PROVE  NewEntry(R, topic, type, direct) \in Entry
<1>1. InProgress \in SUBSET Nat
  <2>1. \A k \in DOMAIN stack : stack[k].msg \in Nat
    <3>1. DOMAIN stack = 1..Len(stack)
      BY DEF StackOK
    <3>2. \A k \in 1..Len(stack) : stack[k].msg \in 0..Len(log)
      BY DEF StackOK, Fits
    <3> QED
      BY <3>1, <3>2
  <2> QED
    BY <2>1 DEF InProgress
<1> QED
  BY <1>1 DEF NewEntry, Entry

(* A message more.                                                         *)
LEMMA LogGrows ==
  ASSUME DataOK, NEW e \in Entry, log' = Append(log, e)
  PROVE  /\ log' \in Seq(Entry)
         /\ Len(log) \in Nat /\ Len(log') = Len(log) + 1
         /\ \A i \in 1..Len(log) : log'[i] = log[i]
         /\ log'[Len(log) + 1] = e
BY AppendProperties DEF DataOK

-----------------------------------------------------------------------------
(* Every step keeps the types.                                             *)

LEMMA InitTypes == Init => TypeInv
<1> SUFFICES ASSUME Init
             PROVE  TypeInv
  OBVIOUS
<1>1. PICK app \in Applications : limit = app.limit /\ callbacks = app.callbacks
  BY DEF Init
<1>2. limit \in Nat /\ callbacks \in Seq(Callback)
  BY <1>1, DispatchAssumption DEF Application
<1>3. StackOK
  BY EmptySeq, DispatchAssumption DEF Init, StackOK
<1>4. DataOK
  <2>1. /\ wants \in [Responders -> SUBSET Topics]
        /\ alive \in [Responders -> {"open", "closing", "deleted"}]
        /\ outcome \in {"ok", "deletedUsed", "endless", "raised"}
    BY DispatchAssumption DEF Init
  <2>2. size \in [Responders -> Nat]
    BY <1>2 DEF Init
  <2>3. log \in Seq(Entry)
    BY DEF Init
  <2>4. <<>> \in Seq(1..Len(log)) /\ ran \in Seq((1..Len(callbacks)) \X (1..Len(log)))
    BY EmptySeq DEF Init
  <2>5. got \in [Responders -> Seq(1..Len(log))]
    BY <2>4 DEF Init
  <2> QED
    BY <1>2, <2>1, <2>2, <2>3, <2>4, <2>5 DEF DataOK
<1> QED
  BY <1>3, <1>4 DEF TypeInv

LEMMA NothingSent ==
  ASSUME DataOK, UNCHANGED <<log, callbacks>>
  PROVE  Grows
BY DEF DataOK, Grows

LEMMA OneSent ==
  ASSUME DataOK, NEW e \in Entry, log' = Append(log, e), UNCHANGED callbacks
  PROVE  Grows
BY LogGrows DEF DataOK, Grows

LEMMA HistoryStays ==
  ASSUME DataOK, UNCHANGED <<log, callbacks, got, ran>>
  PROVE  /\ callbacks' \in Seq(Callback)
         /\ log' \in Seq(Entry)
         /\ got' \in [Responders -> Seq(1..Len(log'))]
         /\ ran' \in Seq((1..Len(callbacks')) \X (1..Len(log')))
BY DEF DataOK

LEMMA HistoryGrows ==
  ASSUME DataOK, NEW e \in Entry, log' = Append(log, e), UNCHANGED <<callbacks, ran>>,
         \/ UNCHANGED got
         \/ \E r \in Responders : got' = [got EXCEPT ![r] = Append(@, NewId)]
  PROVE  /\ callbacks' \in Seq(Callback)
         /\ log' \in Seq(Entry)
         /\ got' \in [Responders -> Seq(1..Len(log'))]
         /\ ran' \in Seq((1..Len(callbacks')) \X (1..Len(log')))
<1>1. Grows
  BY OneSent
<1>2. NewId \in 1..Len(log')
  BY LogGrows DEF NewId
<1> QED
  BY <1>1, <1>2, LogGrows, GotStays, RanStays, GotMore DEF DataOK

(* What the end of a client puts on the stack.                             *)
LEMMA GoneFrames ==
  ASSUME NEW r \in Responders, PeerGone(r)
  PROVE  \/ /\ stack' = <<Frame("close", r, 0)>>
            /\ Len(stack') = 1 /\ stack'[1] = Frame("close", r, 0)
         \/ /\ stack' = <<Root("eof", r), Frame("close", r, 0)>>
            /\ Len(stack') = 2
            /\ stack'[1] = Root("eof", r) /\ stack'[2] = Frame("close", r, 0)
BY DEF PeerGone

LEMMA GoneFields ==
  ASSUME NEW r \in Responders, PeerGone(r)
  PROVE  /\ Len(stack') \in 1..2
         /\ stack'[1].at = "eof" \/ (Len(stack') = 1 /\ stack'[1].at = "close")
         /\ \A k \in 1..Len(stack') :
              /\ stack'[k].at \in {"eof", "close"} /\ (k = 2 => stack'[k].at = "close")
              /\ stack'[k].at = "close" => k = 1 \/ (k = 2 /\ stack'[1].at = "eof")
              /\ stack'[k].pos = r /\ stack'[k].msg = 0
<1> DEFINE e == Root("eof", r)
           f == Frame("close", r, 0)
<1>1. e.at = "eof" /\ e.pos = r /\ e.msg = 0 /\ f.at = "close" /\ f.pos = r /\ f.msg = 0
  BY DEF Root, Frame
<1> HIDE DEF e, f
<1>2. \/ Len(stack') = 1 /\ stack'[1] = f
      \/ Len(stack') = 2 /\ stack'[1] = e /\ stack'[2] = f
  BY GoneFrames DEF e, f
<1>3. CASE Len(stack') = 1 /\ stack'[1] = f
  <2>1. ASSUME NEW k \in 1..Len(stack')
        PROVE  k = 1 /\ stack'[k] = f
    BY <1>3
  <2>2. Len(stack') \in 1..2 /\ stack'[1].at = "close" /\ 1 # 2
    BY <1>1, <1>3
  <2> QED
    BY <1>1, <1>3, <2>1, <2>2, Zenon
<1>4. CASE Len(stack') = 2 /\ stack'[1] = e /\ stack'[2] = f
  <2>1. ASSUME NEW k \in 1..Len(stack')
        PROVE  (k = 1 /\ stack'[k] = e) \/ (k = 2 /\ stack'[k] = f)
    BY <1>4
  <2>2. Len(stack') \in 1..2 /\ stack'[1].at = "eof" /\ "eof" # "close" /\ 1 # 2
    BY <1>1, <1>4
  <2>3. ASSUME NEW k \in 1..Len(stack')
        PROVE  /\ stack'[k].at \in {"eof", "close"}
               /\ stack'[k].at = "close" <=> k = 2
               /\ stack'[k].pos = r /\ stack'[k].msg = 0
    BY <1>1, <2>1, <2>2, Zenon
  <2> QED
    BY <2>2, <2>3, Zenon
<1> QED
  BY <1>2, <1>3, <1>4

LEMMA EventTypes ==
  ASSUME TypeInv, stack = <<>>, outcome = "ok",
         \/ \E p \in Publications : Publish(p)
         \/ \E topic \in AppTopics : AppSend(topic)
         \/ \E r \in Responders : \/ \E topic \in Topics : Subscribe(r, topic)
                                  \/ PeerGone(r) \/ Written(r)
  PROVE  TypeInv'
<1>1. DataOK /\ StackOK /\ Len(log) \in Nat
  BY DEF TypeInv, DataOK
<1>2. /\ Stored \in Nat /\ MaxDepth \in Nat /\ MaxDepth > Stored + 1
      /\ Responders \subseteq Nat
  BY DispatchAssumption
<1>3. ASSUME NEW from \in Responders \cup {0}, NEW at \in {"input", "app"},
             NEW topic \in Topics, NEW type \in MessageTypes,
             at = "input" => from \in Responders,
             NewMessage(topic, type),
             stack' = <<Root(at, from), Frame("emit", 0, NewId)>>,
             UNCHANGED <<callbacks, outcome, wants, alive, size, got, ran>>
      PROVE  TypeInv'
  <2> DEFINE e == NewEntry(Subscribers(topic), topic, type, FALSE)
  <2>1. e \in Entry
    BY <1>1, <1>3, NewEntryType DEF Subscribers
  <2>2. log' = Append(log, e)
    BY <1>3 DEF NewMessage
  <2> HIDE DEF e
  <2>3. Grows /\ Len(log') = Len(log) + 1
    BY <1>1, <1>3, <2>1, <2>2, OneSent, LogGrows
  <2>4. DataOK'
    BY <1>1, <1>3, <2>1, <2>2, HistoryGrows DEF DataOK
  <2>5. Root(at, from) \in AnyFrame
    <3>1. /\ alive \in [Responders -> {"open", "closing", "deleted"}]
          /\ size \in [Responders -> Nat]
      BY <1>1 DEF DataOK
    <3>2. at \in Places /\ from \in Nat
      BY <1>2 DEF Places
    <3> QED
      BY <1>1, <3>1, <3>2 DEF Root, AnyFrame
  <2>6. Fits(Root(at, from), Len(log'), Len(callbacks'))
    BY <1>1, <1>3, <2>3, <2>5 DEF Fits, Root, Grows
  <2>7. Frame("emit", 0, NewId) \in AnyFrame
    BY <1>1, FrameType DEF NewId, Places
  <2>8. Fits(Frame("emit", 0, NewId), Len(log'), Len(callbacks'))
    BY <1>1, <2>3, <2>7 DEF Fits, Frame, NewId
  <2> DEFINE f == Root(at, from)
             g == Frame("emit", 0, NewId)
  <2> HIDE DEF f, g
  <2>9. stack' = <<f, g>>
    BY <1>3 DEF f, g
  <2>10. stack' \in Seq(AnyFrame) /\ Len(stack') = 2 /\ stack'[1] = f /\ stack'[2] = g
    BY <2>5, <2>7, <2>9 DEF f, g
  <2>11. StackOK'
    BY <1>2, <2>6, <2>8, <2>10 DEF StackOK, f, g
  <2> QED
    BY <2>4, <2>11 DEF TypeInv
<1>4. ASSUME NEW p \in Publications, Publish(p)
      PROVE  TypeInv'
  <2>1. p.from \in Responders /\ p.topic \in Topics /\ p.type \in MessageTypes
    BY DispatchAssumption
  <2> QED
    BY <1>3, <1>4, <2>1 DEF Publish, Event, appVars
<1>5. ASSUME NEW topic \in AppTopics, AppSend(topic)
      PROVE  TypeInv'
  <2>1. topic \in Topics /\ "Data" \in MessageTypes
    BY DispatchAssumption DEF MessageTypes
  <2> QED
    BY <1>3, <1>5, <2>1 DEF AppSend, Event, appVars
<1>6. ASSUME NEW r \in Responders,
             \/ \E topic \in Topics : Subscribe(r, topic)
             \/ PeerGone(r) \/ Written(r)
      PROVE  TypeInv'
  <2>1. UNCHANGED <<log, callbacks, got, ran, outcome>> /\ Grows
    BY <1>1, <1>6, NothingSent DEF Subscribe, PeerGone, Written, Event, historyVars
  <2>2. DataOK'
    <3>1. alive' = alive
      BY <1>6 DEF Subscribe, PeerGone, Written
    <3>2. size' = size \/ size' = [size EXCEPT ![r] = 0]
      BY <1>6 DEF Subscribe, PeerGone, Written
    <3>3. wants' = wants \/ \E topic \in Topics : wants' = [wants EXCEPT ![r] = @ \cup {topic}]
      BY <1>6 DEF Subscribe, PeerGone, Written
    <3>4. size' \in [Responders -> Nat]
      <4>1. size \in [Responders -> Nat]
        BY <1>1 DEF DataOK
      <4> QED
        BY <3>2, <4>1
    <3>5. wants' \in [Responders -> SUBSET Topics]
      <4>1. wants \in [Responders -> SUBSET Topics]
        BY <1>1 DEF DataOK
      <4>2. ASSUME NEW topic \in Topics, wants' = [wants EXCEPT ![r] = @ \cup {topic}]
            PROVE  wants' \in [Responders -> SUBSET Topics]
        BY <4>1, <4>2
      <4> QED
        BY <3>3, <4>1, <4>2
    <3> QED
      BY <1>1, <2>1, <3>1, <3>4, <3>5, HistoryStays DEF DataOK
  <2>3. Root("input", r) \in AnyFrame
    BY <1>1, <1>2 DEF Root, AnyFrame, DataOK, Places
  <2>4. Fits(Root("input", r), Len(log'), Len(callbacks'))
    BY <2>1, <2>3 DEF Fits, Root, Grows
  <2>5. /\ Frame("recover", r, 0) \in AnyFrame /\ Frame("close", r, 0) \in AnyFrame
        /\ Fits(Frame("recover", r, 0), Len(log'), Len(callbacks'))
        /\ Fits(Frame("close", r, 0), Len(log'), Len(callbacks'))
    BY <1>2, <2>1, FrameType DEF Places, Frame, Fits, Grows
  <2>6. CASE \E topic \in Topics : Subscribe(r, topic)
    <3> DEFINE f == Root("input", r)
               g == Frame("recover", r, 0)
               s == [i \in 1..Stored |-> g]
    <3>1. stack' = <<f>> \/ stack' = <<f>> \o s
      BY <2>6 DEF Subscribe
    <3>2. f \in AnyFrame /\ g \in AnyFrame
      BY <2>3, <2>5
    <3> HIDE DEF f, g
    <3>3. s \in Seq(AnyFrame) /\ Len(s) = Stored /\ \A i \in 1..Stored : s[i] = g
      BY <1>2, <3>2
    <3> HIDE DEF s
    <3>4. <<f>> \in Seq(AnyFrame) /\ Len(<<f>>) = 1 /\ <<f>>[1] = f
      BY <3>2
    <3>5. <<f>> \o s \in Seq(AnyFrame) /\ Len(<<f>> \o s) = 1 + Stored
      BY <3>3, <3>4, ConcatProperties
    <3>6. \A k \in 1..(1 + Stored) : (<<f>> \o s)[k] = IF k <= 1 THEN <<f>>[k] ELSE s[k - 1]
      BY <3>3, <3>4, ConcatProperties
    <3>7. \A k \in 1..(1 + Stored) : (<<f>> \o s)[k] \in {f, g}
      BY <1>2, <3>3, <3>4, <3>6
    <3>8. Len(stack') <= MaxDepth /\ stack' \in Seq(AnyFrame)
      <4>1. Len(stack') = 1 \/ Len(stack') = 1 + Stored
        BY <3>1, <3>4, <3>5
      <4>2. stack' \in Seq(AnyFrame)
        BY <3>1, <3>4, <3>5
      <4>3. 1 <= MaxDepth /\ 1 + Stored <= MaxDepth
        BY <1>2
      <4> QED
        BY <4>1, <4>2, <4>3
    <3>9. \A k \in 1..Len(stack') : stack'[k] \in {f, g}
      BY <3>1, <3>4, <3>5, <3>7
    <3>10. StackOK'
      BY <2>4, <2>5, <3>8, <3>9 DEF StackOK, f, g
    <3> QED
      BY <2>2, <3>10 DEF TypeInv
  <2>7. CASE PeerGone(r)
    <3> DEFINE e == Root("eof", r)
               f == Frame("close", r, 0)
    <3>1. e \in AnyFrame /\ f \in AnyFrame
      BY <1>1, <1>2, <2>5 DEF Root, AnyFrame, DataOK, Places
    <3>2. Fits(e, Len(log'), Len(callbacks')) /\ Fits(f, Len(log'), Len(callbacks'))
      BY <2>1, <2>5, <3>1 DEF Fits, Root, Grows
    <3> HIDE DEF e, f
    <3>3. \/ stack' = <<f>> /\ Len(stack') = 1 /\ stack'[1] = f
          \/ stack' = <<e, f>> /\ Len(stack') = 2 /\ stack'[1] = e /\ stack'[2] = f
      BY <2>7, GoneFrames DEF e, f
    <3>4. <<f>> \in Seq(AnyFrame) /\ <<e, f>> \in Seq(AnyFrame)
      BY <3>1
    <3>5. Len(stack') \in {1, 2} /\ stack' \in Seq(AnyFrame)
      BY <3>3, <3>4
    <3>8. 1 <= MaxDepth /\ 2 <= MaxDepth
      BY <1>2
    <3>9. Len(stack') <= MaxDepth
      BY <3>5, <3>8
    <3>6. \A k \in 1..Len(stack') : stack'[k] \in {e, f}
      BY <3>3
    <3>7. StackOK'
      BY <3>2, <3>5, <3>6, <3>9 DEF StackOK
    <3> QED
      BY <2>2, <3>7 DEF TypeInv
  <2>8. CASE Written(r)
    BY <1>1, <2>1, <2>2, <2>8, StackStays DEF TypeInv, Written
  <2> QED
    BY <1>6, <2>6, <2>7, <2>8
<1> QED
  BY <1>4, <1>5, <1>6

-----------------------------------------------------------------------------
(* What a step of a call does to the stack.                                *)

Enters(f, g) == CallsFrom(f, g) \/ (outcome' = "endless" /\ stack' = stack)

Fails == outcome' \in {"deletedUsed", "endless", "raised"} /\ stack' = stack

LEMMA NewFrames ==
  ASSUME TypeInv, stack # <<>>, NEW at \in Places
  PROVE  /\ Frame(at, Top.pos, Top.msg) \in AnyFrame
         /\ Frame(at, Top.pos + 1, Top.msg) \in AnyFrame
         /\ Frame(at, 1, Top.msg) \in AnyFrame
         /\ Frame(at, Top.pos, NewId) \in AnyFrame
         /\ Frame(at, 0, NewId) \in AnyFrame
         /\ \A r \in Responders : Frame(at, r, Top.msg) \in AnyFrame
<1>1. Top.pos \in Nat /\ Top.pos + 1 \in Nat /\ Top.msg \in Nat
  BY TopFrame DEF TypeInv
<1>2. NewId \in Nat
  BY DEF TypeInv, DataOK, NewId
<1>3. Responders \subseteq Nat
  BY DispatchAssumption
<1> QED
  BY <1>1, <1>2, <1>3, FrameType

LEMMA EmitToShape ==
  ASSUME TypeInv, NEW r \in Responders, EmitTo(r)
  PROVE  /\ At("emit") /\ stack # <<>>
         /\ Enters(Frame("emit", r, Top.msg), Frame("full", r, Top.msg))
<1>1. At("emit") /\ stack # <<>>
  BY DEF EmitTo, At
<1>2. Frame("emit", r, Top.msg) \in AnyFrame /\ Frame("full", r, Top.msg) \in AnyFrame
  BY <1>1, NewFrames DEF Places
<1> QED
  BY <1>1, <1>2, ContinueTwo DEF EmitTo, Enters, TypeInv

LEMMA EmitEndsShape ==
  ASSUME TypeInv, EmitEnds
  PROVE  /\ At("emit") /\ stack # <<>>
         /\ log[Top.msg].type = "Data" => GoesOn(Frame("callbacks", 1, Top.msg))
         /\ log[Top.msg].type # "Data" => Returns
<1>1. At("emit") /\ stack # <<>>
  BY DEF EmitEnds, At
<1>2. Frame("callbacks", 1, Top.msg) \in AnyFrame
  BY <1>1, NewFrames DEF Places
<1> QED
  BY <1>1, <1>2, ContinueNone, ContinueOne DEF EmitEnds, TypeInv

LEMMA CallbacksEndShape ==
  ASSUME TypeInv, CallbacksEnd
  PROVE  At("callbacks") /\ stack # <<>> /\ Returns
BY ContinueNone DEF CallbacksEnd, At, TypeInv

LEMMA NextCallbackShape ==
  ASSUME TypeInv, SkipCallback \/ CallbackCounts \/ CallbackRegisters
  PROVE  At("callbacks") /\ stack # <<>> /\ GoesOn(NextCallback)
<1>1. At("callbacks") /\ stack # <<>> /\ Continue(<<NextCallback>>)
  BY DEF SkipCallback, Skip, CallbackCounts, CallbackRegisters, Run, Invoked, At
<1>2. NextCallback \in AnyFrame
  BY <1>1, NewFrames DEF Places, NextCallback
<1> QED
  BY <1>1, <1>2, ContinueOne DEF TypeInv

LEMMA CallbackAnswersShape ==
  ASSUME TypeInv, CallbackAnswers
  PROVE  /\ At("callbacks") /\ stack # <<>>
         /\ Enters(NextCallback, Frame("emit", 0, NewId))
<1>1. At("callbacks") /\ stack # <<>> /\ Continue(<<NextCallback, Frame("emit", 0, NewId)>>)
  BY DEF CallbackAnswers, Run, Invoked, At
<1>2. NextCallback \in AnyFrame /\ Frame("emit", 0, NewId) \in AnyFrame
  BY <1>1, NewFrames DEF Places, NextCallback
<1> QED
  BY <1>1, <1>2, ContinueTwo DEF Enters, TypeInv

LEMMA OutputFullShape ==
  ASSUME TypeInv, OutputFull
  PROVE  /\ At("full") /\ stack # <<>>
         /\ \/ /\ SendDirectly(Top.pos) /\ AppendTo(Top.pos, NewId)
               /\ Enters(Frame("stillFull", Top.pos, Top.msg), Frame("full", Top.pos, NewId))
            \/ /\ UNCHANGED <<size, log, got>>
               /\ GoesOn(Frame("stillFull", Top.pos, Top.msg))
<1>1. At("full") /\ stack # <<>>
  BY DEF OutputFull, At
<1>2. /\ Frame("stillFull", Top.pos, Top.msg) \in AnyFrame
      /\ Frame("full", Top.pos, NewId) \in AnyFrame
  BY <1>1, NewFrames DEF Places
<1>3. \/ /\ SendDirectly(Top.pos) /\ AppendTo(Top.pos, NewId)
         /\ Continue(<<Frame("stillFull", Top.pos, Top.msg), Frame("full", Top.pos, NewId)>>)
      \/ /\ UNCHANGED <<size, log, got>>
         /\ Continue(<<Frame("stillFull", Top.pos, Top.msg)>>)
  BY DEF OutputFull
<1> QED
  BY <1>1, <1>2, <1>3, ContinueOne, ContinueTwo DEF Enters, TypeInv

LEMMA StillFullShape ==
  ASSUME TypeInv, StillFull
  PROVE  /\ At("stillFull") /\ stack # <<>>
         /\ \/ Fails
            \/ Connected(Top.pos) /\ GoesOn(Frame("close", Top.pos, Top.msg))
            \/ Returns
<1>1. At("stillFull") /\ stack # <<>>
  BY DEF StillFull, At
<1>2. Frame("close", Top.pos, Top.msg) \in AnyFrame
  BY <1>1, NewFrames DEF Places
<1>3. \/ Fails
      \/ Connected(Top.pos) /\ Continue(<<Frame("close", Top.pos, Top.msg)>>)
      \/ Continue(<<>>)
  BY DEF StillFull, Fails
<1> QED
  BY <1>1, <1>2, <1>3, ContinueNone, ContinueOne DEF TypeInv

LEMMA CloseClientShape ==
  ASSUME TypeInv, CloseClient
  PROVE  /\ At("close") /\ stack # <<>>
         /\ \/ /\ NewMessage(Farewell, "Data")
               /\ Enters(Frame("delete", Top.pos, Top.msg), Frame("emit", 0, NewId))
            \/ /\ UNCHANGED log
               /\ GoesOn(Frame("delete", Top.pos, Top.msg))
<1>1. At("close") /\ stack # <<>>
  BY DEF CloseClient, At
<1>2. Frame("delete", Top.pos, Top.msg) \in AnyFrame /\ Frame("emit", 0, NewId) \in AnyFrame
  BY <1>1, NewFrames DEF Places
<1>3. \/ /\ NewMessage(Farewell, "Data")
         /\ Continue(<<Frame("delete", Top.pos, Top.msg), Frame("emit", 0, NewId)>>)
      \/ /\ UNCHANGED log
         /\ Continue(<<Frame("delete", Top.pos, Top.msg)>>)
  BY DEF CloseClient
<1> QED
  BY <1>1, <1>2, <1>3, ContinueOne, ContinueTwo DEF Enters, TypeInv

LEMMA DeleteThisShape ==
  ASSUME TypeInv, DeleteThis
  PROVE  /\ At("delete") /\ stack # <<>>
         /\ \/ Fails /\ UNCHANGED <<alive, size>>
            \/ /\ alive' = [alive EXCEPT ![Top.pos] = "deleted"]
               /\ size' = [size EXCEPT ![Top.pos] = 0]
               /\ Returns
<1>1. At("delete") /\ stack # <<>>
  BY DEF DeleteThis, At
<1>2. \/ Fails /\ UNCHANGED <<alive, size>>
      \/ /\ alive' = [alive EXCEPT ![Top.pos] = "deleted"]
         /\ size' = [size EXCEPT ![Top.pos] = 0]
         /\ Continue(<<>>)
  BY DEF DeleteThis, Fails
<1> QED
  BY <1>1, <1>2, ContinueNone DEF TypeInv

LEMMA RecoverShape ==
  ASSUME TypeInv, Recover
  PROVE  /\ At("recover") /\ stack # <<>>
         /\ \/ Fails /\ UNCHANGED <<size, log, got>>
            \/ /\ SendDirectly(Top.pos) /\ AppendTo(Top.pos, NewId)
               /\ GoesOn(Frame("full", Top.pos, NewId))
<1>1. At("recover") /\ stack # <<>>
  BY DEF Recover, At
<1>2. Frame("full", Top.pos, NewId) \in AnyFrame
  BY <1>1, NewFrames DEF Places
<1>3. \/ Fails /\ UNCHANGED <<size, log, got>>
      \/ /\ SendDirectly(Top.pos) /\ AppendTo(Top.pos, NewId)
         /\ Continue(<<Frame("full", Top.pos, NewId)>>)
  BY DEF Recover, Fails
<1> QED
  BY <1>1, <1>2, <1>3, ContinueOne DEF TypeInv

LEMMA EndShape ==
  ASSUME TypeInv, EndInput \/ EndEvent
  PROVE  /\ At("input") \/ At("app") \/ At("eof")
         /\ stack # <<>>
         /\ Fails \/ Returns
<1>1. (At("input") \/ At("app") \/ At("eof")) /\ stack # <<>>
  BY DEF EndInput, EndEvent, At
<1>2. Fails \/ Continue(<<>>)
  BY DEF EndInput, EndEvent, Fails
<1> QED
  BY <1>1, <1>2, ContinueNone DEF TypeInv

LEMMA ThrowsShape ==
  ASSUME TypeInv, CallbackThrows
  PROVE  /\ At("callbacks") /\ stack # <<>>
         /\ \/ Fails
            \/ outcome' = "ok" /\ stack' = <<>>
            \/ /\ outcome' = "ok" /\ stack' = <<Frame("close", stack[1].pos, 0)>>
               /\ stack[1].at \in {"input", "eof"} /\ Connected(stack[1].pos)
<1>1. At("callbacks") /\ stack # <<>> /\ outcome = "ok"
  BY DEF CallbackThrows, Run, Invoked, At
<1>2. Head(stack) = stack[1]
  BY <1>1 DEF TypeInv, StackOK
<1> QED
  BY <1>1, <1>2 DEF CallbackThrows, Fails

(* The steps that leave the messages as they are.                          *)
RunsOne ==
  \/ UNCHANGED ran
  \/ ran' = Append(ran, <<Top.pos, Top.msg>>) /\ Invoked

SendsNone ==
  /\ UNCHANGED <<callbacks, wants, log, got>>
  /\ RunsOne
  /\ \/ UNCHANGED <<alive, size>>
     \/ /\ alive' = [alive EXCEPT ![Top.pos] = "deleted"]
        /\ size' = [size EXCEPT ![Top.pos] = 0]
  /\ outcome' \in {"ok", "deletedUsed", "endless", "raised"}

LEMMA TypesQuiet ==
  ASSUME TypeInv, SendsNone
  PROVE  DataOK' /\ Grows
<1> USE DEF SendsNone, RunsOne
<1>1. DataOK /\ StackOK
  BY DEF TypeInv
<1>2. Grows
  BY <1>1, NothingSent
<1>3. ASSUME Invoked
      PROVE  <<Top.pos, Top.msg>> \in (1..Len(callbacks)) \X (1..Len(log))
  <2>1. stack # <<>> /\ Top.at = "callbacks" /\ Top.pos <= Len(callbacks)
    BY <1>3 DEF Invoked, At
  <2>2. Fits(Top, Len(log), Len(callbacks)) /\ Len(callbacks) \in Nat /\ Len(log) \in Nat
    BY <1>1, <2>1, TopFrame DEF DataOK
  <2>3. Top.pos \in 1..Len(callbacks) /\ Top.msg \in 1..Len(log)
    BY <2>1, <2>2 DEF Fits
  <2> QED
    BY <2>3
<1>4. ran' \in Seq((1..Len(callbacks')) \X (1..Len(log')))
  <2> DEFINE S == (1..Len(callbacks)) \X (1..Len(log))
             e == <<Top.pos, Top.msg>>
  <2>1. ran \in Seq(S)
    BY <1>1 DEF DataOK
  <2>2. Invoked => e \in S
    BY <1>3
  <2> HIDE DEF S, e
  <2>3. Invoked => Append(ran, e) \in Seq(S)
    BY <2>1, <2>2, AppendProperties
  <2>4. ran' \in Seq(S)
    BY <2>1, <2>3 DEF e
  <2> QED
    BY <2>4 DEF S
<1>5. alive' \in [Responders -> {"open", "closing", "deleted"}]
  <2>1. alive \in [Responders -> {"open", "closing", "deleted"}]
    BY <1>1 DEF DataOK
  <2> QED
    BY <2>1
<1>6. size' \in [Responders -> Nat]
  <2>1. size \in [Responders -> Nat]
    BY <1>1 DEF DataOK
  <2> QED
    BY <2>1
<1>7. got' \in [Responders -> Seq(1..Len(log'))]
  BY <1>1, <1>2, GotStays
<1> QED
  BY <1>1, <1>2, <1>4, <1>5, <1>6, <1>7 DEF DataOK

(* The steps that send a message.                                          *)
SendsOne ==
  /\ UNCHANGED <<callbacks, wants>>
  /\ \E e \in Entry : log' = Append(log, e)
  /\ RunsOne
  /\ UNCHANGED <<size, got>> \/ \E r \in Responders : AppendTo(r, NewId)
  /\ UNCHANGED alive \/ alive' = [alive EXCEPT ![Top.pos] = "closing"]
  /\ outcome' \in {"ok", "deletedUsed", "endless", "raised"}

LEMMA TypesSent ==
  ASSUME TypeInv, SendsOne
  PROVE  DataOK' /\ Grows /\ Len(log') = Len(log) + 1
<1> USE DEF SendsOne, RunsOne
<1>1. DataOK /\ StackOK
  BY DEF TypeInv
<1>2. PICK e \in Entry : log' = Append(log, e)
  OBVIOUS
<1>2a. Grows /\ Len(log') = Len(log) + 1 /\ log' \in Seq(Entry)
  BY <1>1, <1>2, OneSent, LogGrows
<1>3. Invoked => <<Top.pos, Top.msg>> \in (1..Len(callbacks')) \X (1..Len(log'))
  <2> SUFFICES ASSUME Invoked
               PROVE  <<Top.pos, Top.msg>> \in (1..Len(callbacks')) \X (1..Len(log'))
    OBVIOUS
  <2>1. stack # <<>> /\ Top.at = "callbacks" /\ Top.pos <= Len(callbacks)
    BY DEF Invoked, At
  <2>2. Fits(Top, Len(log), Len(callbacks)) /\ Len(callbacks) \in Nat /\ Len(log) \in Nat
    BY <1>1, <2>1, TopFrame DEF DataOK
  <2>3. Top.pos \in 1..Len(callbacks) /\ Top.msg \in 1..(Len(log) + 1)
    BY <2>1, <2>2 DEF Fits
  <2> QED
    BY <1>2a, <2>3
<1>4. ran' \in Seq((1..Len(callbacks')) \X (1..Len(log')))
  <2> DEFINE S == (1..Len(callbacks')) \X (1..Len(log'))
             x == <<Top.pos, Top.msg>>
  <2>1. ran \in Seq(S)
    <3>1. (1..Len(callbacks)) \X (1..Len(log)) \subseteq (1..Len(callbacks')) \X (1..Len(log'))
      BY <1>2a DEF Grows
    <3> QED
      BY <1>1, <3>1, SeqMonotonic DEF DataOK
  <2>2. Invoked => x \in S
    BY <1>3
  <2> HIDE DEF S, x
  <2>3. Invoked => Append(ran, x) \in Seq(S)
    BY <2>1, <2>2, AppendProperties
  <2>4. ran' \in Seq(S)
    BY <2>1, <2>3 DEF x
  <2> QED
    BY <2>4 DEF S
<1>5. alive' \in [Responders -> {"open", "closing", "deleted"}]
  <2>1. alive \in [Responders -> {"open", "closing", "deleted"}]
    BY <1>1 DEF DataOK
  <2> QED
    BY <2>1
<1>6. size' \in [Responders -> Nat]
  <2>1. size \in [Responders -> Nat]
    BY <1>1 DEF DataOK
  <2>2. UNCHANGED size \/ \E r \in Responders : size' = [size EXCEPT ![r] = @ + 1]
    BY DEF AppendTo
  <2> QED
    BY <2>1, <2>2
<1>7. got' \in [Responders -> Seq(1..Len(log'))]
  <2>1. NewId \in 1..Len(log')
    BY <1>1, <1>2a DEF DataOK, NewId
  <2>2. UNCHANGED got \/ \E r \in Responders : got' = [got EXCEPT ![r] = Append(@, NewId)]
    BY DEF AppendTo
  <2> QED
    BY <1>1, <1>2a, <2>1, <2>2, GotStays, GotMore
<1> QED
  BY <1>1, <1>2a, <1>4, <1>5, <1>6, <1>7 DEF DataOK

LEMMA StepTypes == TypeInv /\ [Next]_vars => TypeInv'
<1> SUFFICES ASSUME TypeInv, [Next]_vars
             PROVE  TypeInv'
  OBVIOUS
<1>1. DataOK /\ StackOK /\ Len(log) \in Nat /\ Len(callbacks) \in Nat
  BY DEF TypeInv, DataOK
<1>2. /\ Responders \subseteq Nat /\ {Farewell, Answer} \subseteq Topics
      /\ "Data" \in MessageTypes
  BY DispatchAssumption DEF MessageTypes
<1> USE DEF appVars, historyVars
<1>3. ASSUME UNCHANGED vars
      PROVE  TypeInv'
  BY <1>1, <1>3, NothingSent, HistoryStays, StackStays DEF TypeInv, DataOK, vars
<1>4. ASSUME DataOK' /\ Grows, stack # <<>> /\ Returns
      PROVE  TypeInv'
  BY <1>1, <1>4, StackReturns DEF TypeInv
<1>5. ASSUME DataOK' /\ Grows, stack' = stack
      PROVE  TypeInv'
  BY <1>1, <1>5, StackStays DEF TypeInv
<1>6. ASSUME DataOK' /\ Grows, NEW f, stack # <<>> /\ GoesOn(f),
             Fits(f, Len(log'), Len(callbacks'))
      PROVE  TypeInv'
  BY <1>1, <1>6, StackGoesOn DEF TypeInv
<1>7. ASSUME DataOK' /\ Grows, NEW f, NEW g, stack # <<>> /\ Enters(f, g),
             Fits(f, Len(log'), Len(callbacks')), Fits(g, Len(log'), Len(callbacks'))
      PROVE  TypeInv'
  BY <1>1, <1>7, StackCalls DEF TypeInv, Enters
<1>8. ASSUME NEW r \in Responders, EmitTo(r)
      PROVE  TypeInv'
  <2>1. At("emit") /\ stack # <<>> /\ Enters(Frame("emit", r, Top.msg), Frame("full", r, Top.msg))
    BY <1>8, EmitToShape
  <2>2. Fits(Top, Len(log), Len(callbacks)) /\ Top.at = "emit"
    BY <1>1, <2>1, TopFrame DEF At
  <2>3. UNCHANGED <<callbacks, wants, alive, log, ran>> /\ AppendTo(r, Top.msg)
    BY <1>8 DEF EmitTo
  <2>4. Grows
    BY <1>1, <2>3, NothingSent
  <2>5. Top.msg \in 1..Len(log)
    BY <1>1, <2>2 DEF Fits
  <2>6. DataOK'
    <3>1. got' \in [Responders -> Seq(1..Len(log'))]
      BY <1>1, <2>3, <2>4, <2>5, GotMore DEF AppendTo
    <3>2. size' \in [Responders -> Nat]
      BY <1>1, <2>3 DEF DataOK, AppendTo
    <3>3. outcome' \in {"ok", "deletedUsed", "endless", "raised"}
      BY <1>1, <2>1 DEF DataOK, Enters, CallsFrom
    <3> QED
      BY <1>1, <2>3, <3>1, <3>2, <3>3 DEF DataOK
  <2>7. /\ Fits(Frame("emit", r, Top.msg), Len(log'), Len(callbacks'))
        /\ Fits(Frame("full", r, Top.msg), Len(log'), Len(callbacks'))
    BY <2>1, <2>3, <2>5, NewFrames DEF Fits, Frame, Places
  <2> QED
    BY <1>7, <2>1, <2>4, <2>6, <2>7
<1>9. ASSUME EmitEnds
      PROVE  TypeInv'
  <2>1. /\ At("emit") /\ stack # <<>>
        /\ GoesOn(Frame("callbacks", 1, Top.msg)) \/ Returns
    BY <1>9, EmitEndsShape
  <2>2. Fits(Top, Len(log), Len(callbacks)) /\ Top.at = "emit"
    BY <1>1, <2>1, TopFrame DEF At
  <2>3. DataOK' /\ Grows
    <3>1. SendsNone
      BY <1>9, <2>1 DEF SendsNone, EmitEnds, GoesOn, Returns, At, RunsOne
    <3> QED
      BY <3>1, TypesQuiet
  <2>4. Top.msg \in 1..Len(log) /\ UNCHANGED <<log, callbacks>>
    BY <1>1, <1>9, <2>2 DEF Fits, EmitEnds
  <2>5. Fits(Frame("callbacks", 1, Top.msg), Len(log'), Len(callbacks'))
    BY <1>1, <2>1, <2>4, NewFrames DEF Fits, Frame, Places
  <2> QED
    BY <1>4, <1>6, <2>1, <2>3, <2>5
<1>10. ASSUME CallbacksEnd
       PROVE  TypeInv'
  <2>1. stack # <<>> /\ Returns /\ outcome' = "ok"
    BY <1>10, CallbacksEndShape DEF At, Returns
  <2>2. SendsNone
    BY <1>10, <2>1 DEF CallbacksEnd, SendsNone, RunsOne
  <2> QED
    BY <1>4, <2>1, <2>2, TypesQuiet
<1>11. ASSUME SkipCallback \/ CallbackCounts \/ CallbackRegisters \/ CallbackAnswers
       PROVE  /\ At("callbacks") /\ stack # <<>>
              /\ Top.msg \in 1..Len(log) /\ Top.pos \in 1..Len(callbacks)
              /\ \A m, n \in Nat : m >= Len(log) /\ n >= Len(callbacks) => Fits(NextCallback, m, n)
  <2>1. At("callbacks") /\ stack # <<>>
    BY <1>11, NextCallbackShape, CallbackAnswersShape
  <2>2. Top.pos <= Len(callbacks)
    BY <1>11 DEF SkipCallback, Skip, CallbackCounts, CallbackRegisters, CallbackAnswers,
                 Run, Invoked
  <2>3. Fits(Top, Len(log), Len(callbacks)) /\ Top.at = "callbacks"
    BY <1>1, <2>1, TopFrame DEF At
  <2>4. Top.msg \in 1..Len(log) /\ Top.pos \in 1..Len(callbacks)
    BY <1>1, <2>2, <2>3 DEF Fits
  <2>5. NextCallback \in AnyFrame
    BY <2>1, NewFrames DEF Places, NextCallback
  <2>6. NextCallback.at = "callbacks" /\ NextCallback.pos = Top.pos + 1 /\ NextCallback.msg = Top.msg
    BY DEF NextCallback, Frame
  <2>7. \A m, n \in Nat : m >= Len(log) /\ n >= Len(callbacks) => Fits(NextCallback, m, n)
    BY <1>1, <2>4, <2>5, <2>6 DEF Fits
  <2> QED
    BY <2>1, <2>4, <2>7
<1>12. ASSUME SkipCallback \/ CallbackCounts
       PROVE  TypeInv'
  <2>1. stack # <<>> /\ GoesOn(NextCallback) /\ outcome' = "ok"
    BY <1>12, NextCallbackShape DEF GoesOn, At
  <2>2. DataOK' /\ Grows
    <3>1. SendsNone
      BY <1>12, <2>1 DEF SendsNone, SkipCallback, Skip, CallbackCounts, Run, RunsOne
    <3> QED
      BY <3>1, TypesQuiet
  <2> QED
    BY <1>6, <1>11, <1>12, <2>1, <2>2 DEF Grows
<1>13. ASSUME CallbackRegisters
       PROVE  TypeInv'
  <2>1. stack # <<>> /\ GoesOn(NextCallback) /\ outcome' = "ok"
    BY <1>13, NextCallbackShape DEF GoesOn, At
  <2> DEFINE c == [callbacks[Top.pos] EXCEPT !.kind = "counts",
                                             !.missed = DOMAIN log \ InProgress]
  <2>2. callbacks' = Append(callbacks, c) /\ UNCHANGED <<wants, alive, size, log, got>>
    BY <1>13 DEF CallbackRegisters, Run
  <2>3. c \in Callback
    <3>1. callbacks[Top.pos] \in Callback
      BY <1>1, <1>11, <1>13 DEF DataOK
    <3>2. DOMAIN log \in SUBSET Nat
      BY <1>1 DEF DataOK
    <3> QED
      BY <3>1, <3>2 DEF Callback, Kinds
  <2> HIDE DEF c
  <2>4. callbacks' \in Seq(Callback) /\ Len(callbacks') = Len(callbacks) + 1
    BY <1>1, <2>2, <2>3, AppendProperties DEF DataOK
  <2>5. Grows
    BY <1>1, <2>2, <2>4 DEF Grows
  <2>6. got' \in [Responders -> Seq(1..Len(log'))]
    BY <1>1, <2>2, <2>5, GotStays
  <2>7. ran' \in Seq((1..Len(callbacks')) \X (1..Len(log')))
    <3> DEFINE S == (1..Len(callbacks')) \X (1..Len(log'))
               e == <<Top.pos, Top.msg>>
    <3>1. ran \in Seq(S)
      <4>1. (1..Len(callbacks)) \X (1..Len(log)) \subseteq S
        BY <2>5 DEF Grows
      <4> QED
        BY <1>1, <4>1, SeqMonotonic DEF DataOK
    <3>2. e \in S
      BY <1>1, <1>11, <1>13, <2>2, <2>4
    <3>3. ran' = Append(ran, e)
      BY <1>13 DEF CallbackRegisters, Run
    <3> HIDE DEF S, e
    <3>4. ran' \in Seq(S)
      BY <3>1, <3>2, <3>3, AppendProperties
    <3> QED
      BY <3>4 DEF S
  <2>8. DataOK'
    BY <1>1, <2>1, <2>2, <2>4, <2>6, <2>7 DEF DataOK
  <2>9. Fits(NextCallback, Len(log'), Len(callbacks'))
    BY <1>1, <1>11, <1>13, <2>2, <2>4
  <2> QED
    BY <1>6, <2>1, <2>5, <2>8, <2>9
<1>14. ASSUME NEW topic \in Topics, NewMessage(topic, "Data")
       PROVE  \E e \in Entry : log' = Append(log, e)
  BY <1>1, <1>2, <1>14, NewEntryType DEF NewMessage, Subscribers
<1>15. ASSUME CallbackAnswers
       PROVE  TypeInv'
  <2>1. stack # <<>> /\ Enters(NextCallback, Frame("emit", 0, NewId))
    BY <1>15, CallbackAnswersShape
  <2>2. outcome' \in {"ok", "endless"}
    BY <1>15, <2>1 DEF Enters, CallsFrom, CallbackAnswers, Run, Invoked, At
  <2>3. PICK e \in Entry : log' = Append(log, e)
    BY <1>2, <1>14, <1>15 DEF CallbackAnswers
  <2>4. DataOK' /\ Grows /\ Len(log') = Len(log) + 1
    <3>1. SendsOne
      BY <1>15, <2>2, <2>3 DEF SendsOne, CallbackAnswers, Run, RunsOne
    <3> QED
      BY <3>1, TypesSent
  <2>5. Fits(Frame("emit", 0, NewId), Len(log'), Len(callbacks'))
    BY <1>1, <2>1, <2>4, NewFrames DEF Fits, Frame, NewId, Places
  <2>6. Fits(NextCallback, Len(log'), Len(callbacks'))
    BY <1>11, <1>15, <2>4 DEF Grows
  <2> QED
    BY <1>7, <2>1, <2>4, <2>5, <2>6
<1>16. ASSUME OutputFull \/ StillFull \/ CloseClient \/ DeleteThis \/ Recover
       PROVE  /\ stack # <<>> /\ outcome = "ok"
              /\ Top.pos \in Responders
              /\ Top.msg \in 0..Len(log)
              /\ Top.at \in {"full", "stillFull"} => Top.msg \in 1..Len(log)
  <2>1. /\ stack # <<>> /\ outcome = "ok"
        /\ Top.at \in {"full", "stillFull", "close", "delete", "recover"}
    BY <1>16 DEF OutputFull, StillFull, CloseClient, DeleteThis, Recover, At
  <2>2. Fits(Top, Len(log), Len(callbacks))
    BY <1>1, <2>1, TopFrame
  <2> QED
    BY <1>1, <2>1, <2>2 DEF Fits
<1>17. ASSUME SendDirectly(Top.pos), Top.pos \in Responders
       PROVE  \E e \in Entry : log' = Append(log, e)
  <2>1. {Top.pos} \in SUBSET Responders
    BY <1>17
  <2> QED
    BY <1>1, <1>2, <1>17, <2>1, NewEntryType DEF SendDirectly
<1>18. ASSUME OutputFull
       PROVE  TypeInv'
  <2>1. /\ At("full")
        /\ \/ /\ SendDirectly(Top.pos) /\ AppendTo(Top.pos, NewId)
              /\ Enters(Frame("stillFull", Top.pos, Top.msg), Frame("full", Top.pos, NewId))
           \/ /\ UNCHANGED <<size, log, got>>
              /\ GoesOn(Frame("stillFull", Top.pos, Top.msg))
    BY <1>18, OutputFullShape
  <2>2. /\ stack # <<>> /\ outcome = "ok" /\ Top.pos \in Responders
        /\ Top.msg \in 1..Len(log)
    BY <1>16, <1>18, <2>1 DEF At
  <2>3. UNCHANGED <<callbacks, wants, alive, ran>>
    BY <1>18 DEF OutputFull
  <2>4. ASSUME Grows
        PROVE  /\ Fits(Frame("stillFull", Top.pos, Top.msg), Len(log'), Len(callbacks'))
    BY <1>1, <2>2, <2>4, NewFrames DEF Fits, Frame, Places, Grows
  <2>5. CASE /\ SendDirectly(Top.pos) /\ AppendTo(Top.pos, NewId)
             /\ Enters(Frame("stillFull", Top.pos, Top.msg), Frame("full", Top.pos, NewId))
    <3>1. PICK e \in Entry : log' = Append(log, e)
      BY <1>17, <2>2, <2>5
    <3>2. outcome' \in {"ok", "endless"}
      BY <2>2, <2>5 DEF Enters, CallsFrom
    <3>3. DataOK' /\ Grows /\ Len(log') = Len(log) + 1
      <4>1. SendsOne
        BY <2>2, <2>3, <2>5, <3>1, <3>2 DEF SendsOne, RunsOne
      <4> QED
        BY <4>1, TypesSent
    <3>4. Fits(Frame("full", Top.pos, NewId), Len(log'), Len(callbacks'))
      BY <1>1, <2>2, <3>3, NewFrames DEF Fits, Frame, NewId, Places
    <3> QED
      BY <1>7, <2>2, <2>4, <2>5, <3>3, <3>4
  <2>6. CASE /\ UNCHANGED <<size, log, got>>
             /\ GoesOn(Frame("stillFull", Top.pos, Top.msg))
    <3>1. DataOK' /\ Grows
      <4>1. SendsNone
        BY <2>2, <2>3, <2>6 DEF SendsNone, GoesOn, RunsOne
      <4> QED
        BY <4>1, TypesQuiet
    <3> QED
      BY <1>6, <2>2, <2>4, <2>6, <3>1
  <2> QED
    BY <2>1, <2>5, <2>6
<1>19. ASSUME StillFull
       PROVE  TypeInv'
  <2>1. \/ Fails
        \/ GoesOn(Frame("close", Top.pos, Top.msg))
        \/ Returns
    BY <1>19, StillFullShape
  <2>2. stack # <<>> /\ outcome = "ok" /\ Top.pos \in Responders /\ Top.msg \in 0..Len(log)
    BY <1>16, <1>19
  <2>3. DataOK' /\ Grows
    <3>1. SendsNone
      BY <1>19, <2>1, <2>2 DEF SendsNone, StillFull, Fails, GoesOn, Returns, RunsOne
    <3> QED
      BY <3>1, TypesQuiet
  <2>4. Fits(Frame("close", Top.pos, Top.msg), Len(log'), Len(callbacks'))
    BY <1>1, <2>2, <2>3, NewFrames DEF Fits, Frame, Places, Grows
  <2> QED
    BY <1>4, <1>5, <1>6, <2>1, <2>2, <2>3, <2>4 DEF Fails
<1>20. ASSUME CloseClient
       PROVE  TypeInv'
  <2>1. /\ At("close")
        /\ \/ /\ NewMessage(Farewell, "Data")
              /\ Enters(Frame("delete", Top.pos, Top.msg), Frame("emit", 0, NewId))
           \/ /\ UNCHANGED log
              /\ GoesOn(Frame("delete", Top.pos, Top.msg))
    BY <1>20, CloseClientShape
  <2>2. stack # <<>> /\ outcome = "ok" /\ Top.pos \in Responders /\ Top.msg \in 0..Len(log)
    BY <1>16, <1>20
  <2>3. /\ UNCHANGED <<callbacks, wants, size, got, ran>>
        /\ alive' = [alive EXCEPT ![Top.pos] = "closing"]
    BY <1>20 DEF CloseClient
  <2>4. ASSUME Grows
        PROVE  Fits(Frame("delete", Top.pos, Top.msg), Len(log'), Len(callbacks'))
    BY <1>1, <2>2, <2>4, NewFrames DEF Fits, Frame, Places, Grows
  <2>5. CASE /\ NewMessage(Farewell, "Data")
             /\ Enters(Frame("delete", Top.pos, Top.msg), Frame("emit", 0, NewId))
    <3>1. PICK e \in Entry : log' = Append(log, e)
      BY <1>2, <1>14, <2>5
    <3>2. outcome' \in {"ok", "endless"}
      BY <2>2, <2>5 DEF Enters, CallsFrom
    <3>3. DataOK' /\ Grows /\ Len(log') = Len(log) + 1
      <4>1. SendsOne
        BY <2>2, <2>3, <3>1, <3>2 DEF SendsOne, RunsOne
      <4> QED
        BY <4>1, TypesSent
    <3>4. Fits(Frame("emit", 0, NewId), Len(log'), Len(callbacks'))
      BY <1>1, <2>2, <3>3, NewFrames DEF Fits, Frame, NewId, Places
    <3> QED
      BY <1>7, <2>2, <2>4, <2>5, <3>3, <3>4
  <2>6. CASE UNCHANGED log /\ GoesOn(Frame("delete", Top.pos, Top.msg))
    <3>1. Grows /\ got' \in [Responders -> Seq(1..Len(log'))]
      BY <1>1, <2>3, <2>6, NothingSent, GotStays
    <3>2. alive' \in [Responders -> {"open", "closing", "deleted"}]
      <4>1. alive \in [Responders -> {"open", "closing", "deleted"}]
        BY <1>1 DEF DataOK
      <4> QED
        BY <2>3, <4>1
    <3>3. DataOK'
      BY <1>1, <2>2, <2>3, <2>6, <3>1, <3>2 DEF DataOK, GoesOn
    <3> QED
      BY <1>6, <2>2, <2>4, <2>6, <3>1, <3>3
  <2> QED
    BY <2>1, <2>5, <2>6
<1>21. ASSUME DeleteThis
       PROVE  TypeInv'
  <2>1. /\ At("delete") /\ stack # <<>>
        /\ \/ Fails /\ UNCHANGED <<alive, size>>
           \/ /\ alive' = [alive EXCEPT ![Top.pos] = "deleted"]
              /\ size' = [size EXCEPT ![Top.pos] = 0]
              /\ Returns
    BY <1>21, DeleteThisShape
  <2>2. DataOK' /\ Grows
    <3>1. SendsNone
      BY <1>21, <2>1 DEF SendsNone, DeleteThis, Fails, Returns, At, RunsOne
    <3> QED
      BY <3>1, TypesQuiet
  <2> QED
    BY <1>4, <1>5, <2>1, <2>2 DEF Fails
<1>22. ASSUME Recover
       PROVE  TypeInv'
  <2>1. \/ Fails /\ UNCHANGED <<size, log, got>>
        \/ /\ SendDirectly(Top.pos) /\ AppendTo(Top.pos, NewId)
           /\ GoesOn(Frame("full", Top.pos, NewId))
    BY <1>22, RecoverShape
  <2>2. stack # <<>> /\ outcome = "ok" /\ Top.pos \in Responders
    BY <1>16, <1>22
  <2>3. UNCHANGED <<callbacks, wants, alive, ran>>
    BY <1>22 DEF Recover
  <2>4. CASE Fails /\ UNCHANGED <<size, log, got>>
    <3>1. SendsNone
      BY <2>3, <2>4 DEF Fails, SendsNone, RunsOne
    <3> QED
      BY <1>5, <2>4, <3>1, TypesQuiet DEF Fails
  <2>5. CASE /\ SendDirectly(Top.pos) /\ AppendTo(Top.pos, NewId)
             /\ GoesOn(Frame("full", Top.pos, NewId))
    <3>1. PICK e \in Entry : log' = Append(log, e)
      BY <1>17, <2>2, <2>5
    <3>2. DataOK' /\ Grows /\ Len(log') = Len(log) + 1
      <4>1. SendsOne
        BY <2>2, <2>3, <2>5, <3>1 DEF SendsOne, GoesOn, RunsOne
      <4> QED
        BY <4>1, TypesSent
    <3>3. Fits(Frame("full", Top.pos, NewId), Len(log'), Len(callbacks'))
      BY <1>1, <2>2, <3>2, NewFrames DEF Fits, Frame, NewId, Places
    <3> QED
      BY <1>6, <2>2, <2>5, <3>2, <3>3
  <2> QED
    BY <2>1, <2>4, <2>5
<1>23. ASSUME EndInput \/ EndEvent
       PROVE  TypeInv'
  <2>1. stack # <<>> /\ (Fails \/ Returns) /\ outcome = "ok"
    BY <1>23, EndShape DEF At
  <2>2. DataOK' /\ Grows
    <3>1. SendsNone
      BY <1>23, <2>1 DEF SendsNone, EndInput, EndEvent, Fails, Returns, RunsOne
    <3> QED
      BY <3>1, TypesQuiet
  <2> QED
    BY <1>4, <1>5, <2>1, <2>2 DEF Fails
<1>24. ASSUME CallbackThrows
       PROVE  TypeInv'
  <2>1. /\ At("callbacks") /\ stack # <<>>
        /\ \/ Fails
           \/ outcome' = "ok" /\ stack' = <<>>
           \/ /\ outcome' = "ok" /\ stack' = <<Frame("close", stack[1].pos, 0)>>
              /\ stack[1].at \in {"input", "eof"}
    BY <1>24, ThrowsShape
  <2>2. log' = [i \in DOMAIN log |->
                  IF i \in InProgress THEN [log[i] EXCEPT !.cut = TRUE] ELSE log[i]]
    BY <1>24 DEF CallbackThrows
  <2>3. log' \in Seq(Entry) /\ Len(log') = Len(log)
    <3>1. DOMAIN log = 1..Len(log) /\ \A i \in 1..Len(log) : log[i] \in Entry
      BY <1>1 DEF DataOK
    <3>2. \A i \in 1..Len(log) : [log[i] EXCEPT !.cut = TRUE] \in Entry
      BY <3>1 DEF Entry
    <3>3. \A i \in DOMAIN log :
            (IF i \in InProgress THEN [log[i] EXCEPT !.cut = TRUE] ELSE log[i]) \in Entry
      BY <3>1, <3>2
    <3> QED
      BY <1>1, <2>2, <3>1, <3>3
  <2>4. UNCHANGED <<callbacks, wants, alive, size, got>> /\ Invoked
        /\ ran' = Append(ran, <<Top.pos, Top.msg>>)
    BY <1>24 DEF CallbackThrows, Run
  <2>5. Grows
    BY <1>1, <2>3, <2>4 DEF Grows
  <2>6. DataOK'
    <3> DEFINE S == (1..Len(callbacks)) \X (1..Len(log))
               e == <<Top.pos, Top.msg>>
    <3>1. ran \in Seq(S)
      BY <1>1 DEF DataOK
    <3>2. e \in S
      <4>1. Fits(Top, Len(log), Len(callbacks)) /\ Top.at = "callbacks"
        BY <1>1, <2>1, TopFrame DEF At
      <4>2. Top.pos <= Len(callbacks)
        BY <2>4 DEF Invoked
      <4> QED
        BY <1>1, <4>1, <4>2 DEF Fits
    <3> HIDE DEF S, e
    <3>3. ran' \in Seq(S)
      BY <2>4, <3>1, <3>2, AppendProperties DEF e
    <3>4. ran' \in Seq((1..Len(callbacks')) \X (1..Len(log')))
      BY <2>3, <2>4, <3>3 DEF S
    <3>5. got' \in [Responders -> Seq(1..Len(log'))]
      BY <1>1, <2>4, <2>5, GotStays
    <3>6. outcome' \in {"ok", "deletedUsed", "endless", "raised"}
      BY <2>1 DEF Fails
    <3> QED
      BY <1>1, <2>3, <2>4, <3>4, <3>5, <3>6 DEF DataOK
  <2>7. CASE Fails
    BY <1>5, <2>5, <2>6, <2>7 DEF Fails
  <2>8. CASE stack' = <<>>
    BY <1>1, <2>6, <2>8, EmptySeq, DispatchAssumption DEF StackOK, TypeInv
  <2>9. CASE /\ stack' = <<Frame("close", stack[1].pos, 0)>>
             /\ stack[1].at \in {"input", "eof"}
    <3> DEFINE f == Frame("close", stack[1].pos, 0)
    <3>1. stack[1].pos \in Responders
      <4>1. Fits(stack[1], Len(log), Len(callbacks))
        BY <1>1, <2>1, TopFrame DEF StackOK
      <4> QED
        BY <2>9, <4>1 DEF Fits
    <3>2. f \in AnyFrame
      BY <1>2, <3>1, FrameType DEF Places
    <3>3. Fits(f, Len(log'), Len(callbacks'))
      BY <1>1, <2>5, <3>1, <3>2 DEF Fits, Frame, Grows
    <3> HIDE DEF f
    <3>4. stack' = <<f>>
      BY <2>9 DEF f
    <3>5. stack' \in Seq(AnyFrame) /\ Len(stack') = 1 /\ stack'[1] = f
      BY <3>2, <3>4
    <3>6. 1 <= MaxDepth
      BY DispatchAssumption
    <3> QED
      BY <2>6, <3>3, <3>5, <3>6 DEF StackOK, TypeInv
  <2> QED
    BY <2>1, <2>7, <2>8, <2>9
<1>25. ASSUME \/ \E p \in Publications : Publish(p)
              \/ \E topic \in AppTopics : AppSend(topic)
              \/ \E r \in Responders : \/ \E topic \in Topics : Subscribe(r, topic)
                                       \/ PeerGone(r) \/ Written(r)
       PROVE  TypeInv'
  <2>1. stack = <<>> /\ outcome = "ok"
    BY <1>25 DEF Publish, AppSend, Subscribe, PeerGone, Written, Event
  <2> QED
    BY <1>25, <2>1, EventTypes
<1> QED
  BY <1>3, <1>8, <1>9, <1>10, <1>12, <1>13, <1>15, <1>18, <1>19, <1>20, <1>21, <1>22,
     <1>23, <1>24, <1>25 DEF Next

(* Every variable keeps its type, whatever the slots and callbacks of the  *)
(* application do.                                                         *)
THEOREM TypeCorrect == Spec => []TypeOK
<1>1. Spec => []TypeInv
  BY InitTypes, StepTypes, PTL DEF Spec
<1> QED
  BY <1>1, TypesOK, PTL

LEMMA TypeInvariant == Spec => []TypeInv
BY InitTypes, StepTypes, PTL DEF Spec

-----------------------------------------------------------------------------
(* A responder is not closed twice.                                        *)

CloseInv ==
  outcome = "ok" =>
    \A k \in 1..Len(stack) :
      stack[k].at = "close" => k = Len(stack) /\ Connected(stack[k].pos)

LEMMA CloseStep == TypeInv /\ CloseInv /\ [Next]_vars => CloseInv'
<1> SUFFICES ASSUME TypeInv, CloseInv, [Next]_vars, outcome' = "ok"
             PROVE  CloseInv'
  BY DEF CloseInv
<1>1. StackOK
  BY DEF TypeInv
<1>2. stack # <<>> => Len(stack) \in Nat /\ Len(stack) > 0 /\ Top = stack[Len(stack)]
  BY <1>1, TopFrame
<1> USE DEF Fails, Enters
<1>3. ASSUME UNCHANGED <<alive, stack, outcome>>
      PROVE  CloseInv'
  BY <1>3 DEF CloseInv, Connected
<1>4. ASSUME stack # <<>>, outcome = "ok",
             \/ Returns
             \/ \E f : GoesOn(f) /\ (f.at = "close" => Connected(f.pos)')
             \/ \E f, g : CallsFrom(f, g) /\ f.at # "close" /\ g.at # "close"
      PROVE  CloseInv'
  <2>1. \A k \in 1..(Len(stack) - 1) : stack[k].at # "close"
    BY <1>2, <1>4 DEF CloseInv
  <2>2. CASE Returns
    BY <1>2, <1>4, <2>1, <2>2 DEF CloseInv, Returns
  <2>3. ASSUME NEW f, GoesOn(f), f.at = "close" => Connected(f.pos)'
        PROVE  CloseInv'
    BY <1>2, <1>4, <2>1, <2>3 DEF CloseInv, GoesOn, Connected
  <2>4. ASSUME NEW f, NEW g, CallsFrom(f, g), f.at # "close" /\ g.at # "close"
        PROVE  CloseInv'
    BY <1>2, <1>4, <2>1, <2>4 DEF CloseInv, CallsFrom
  <2> QED
    BY <1>4, <2>2, <2>3, <2>4
<1>5. ASSUME NEW r \in Responders, EmitTo(r)
      PROVE  CloseInv'
  <2> DEFINE f == Frame("emit", r, Top.msg)
             g == Frame("full", r, Top.msg)
  <2>1. At("emit") /\ stack # <<>> /\ CallsFrom(f, g)
    BY <1>5, EmitToShape
  <2>2. f.at # "close" /\ g.at # "close"
    BY DEF Frame
  <2> HIDE DEF f, g
  <2> QED
    BY <1>4, <2>1, <2>2 DEF At
<1>6. ASSUME EmitEnds
      PROVE  CloseInv'
  <2>1. At("emit") /\ stack # <<>> /\ (GoesOn(Frame("callbacks", 1, Top.msg)) \/ Returns)
    BY <1>6, EmitEndsShape
  <2> QED
    BY <1>4, <2>1 DEF At, Frame
<1>7. ASSUME CallbacksEnd
      PROVE  CloseInv'
  BY <1>4, <1>7, CallbacksEndShape DEF At
<1>8. ASSUME SkipCallback \/ CallbackCounts \/ CallbackRegisters
      PROVE  CloseInv'
  BY <1>4, <1>8, NextCallbackShape DEF At, NextCallback, Frame
<1>9. ASSUME CallbackAnswers
      PROVE  CloseInv'
  BY <1>4, <1>9, CallbackAnswersShape DEF At, NextCallback, Frame
<1>10. ASSUME OutputFull
       PROVE  CloseInv'
  BY <1>4, <1>10, OutputFullShape DEF At, Frame
<1>11. ASSUME StillFull
       PROVE  CloseInv'
  <2>1. /\ At("stillFull") /\ stack # <<>> /\ UNCHANGED alive
        /\ (Connected(Top.pos) /\ GoesOn(Frame("close", Top.pos, Top.msg))) \/ Returns
    BY <1>11, StillFullShape DEF StillFull
  <2> QED
    BY <1>4, <2>1 DEF At, Frame, Connected
<1>12. ASSUME CloseClient
       PROVE  CloseInv'
  BY <1>4, <1>12, CloseClientShape DEF At, Frame
<1>13. ASSUME DeleteThis
       PROVE  CloseInv'
  BY <1>4, <1>13, DeleteThisShape DEF At
<1>14. ASSUME Recover
       PROVE  CloseInv'
  BY <1>4, <1>14, RecoverShape DEF At, Frame
<1>15. ASSUME EndInput \/ EndEvent
       PROVE  CloseInv'
  BY <1>4, <1>15, EndShape DEF At
<1>16. ASSUME NEW r \in Responders, Connected(r)', stack' = <<Frame("close", r, 0)>>
       PROVE  CloseInv'
  <2>1. Len(stack') = 1 /\ stack'[1].pos = r
    BY <1>16 DEF Frame
  <2> QED
    BY <1>16, <2>1 DEF CloseInv
<1>17. ASSUME CallbackThrows
       PROVE  CloseInv'
  <2>1. /\ At("callbacks") /\ stack # <<>> /\ UNCHANGED alive
        /\ \/ stack' = <<>>
           \/ /\ stack' = <<Frame("close", stack[1].pos, 0)>>
              /\ stack[1].at \in {"input", "eof"} /\ Connected(stack[1].pos)
    BY <1>17, ThrowsShape DEF CallbackThrows
  <2>2. Fits(stack[1], Len(log), Len(callbacks))
    BY <1>1, <1>2, <2>1 DEF StackOK
  <2>3. CASE stack' = <<>>
    BY <2>3 DEF CloseInv
  <2> QED
    BY <1>16, <2>1, <2>2, <2>3 DEF Fits, Connected
<1>18. ASSUME NEW r \in Responders, PeerGone(r)
       PROVE  CloseInv'
  <2>1. Connected(r)'
    BY <1>18 DEF PeerGone, Connected
  <2>2. CASE stack' = <<Frame("close", r, 0)>>
    BY <1>16, <2>1, <2>2
  <2>3. CASE /\ Len(stack') = 2 /\ stack'[1] = Root("eof", r)
             /\ stack'[2] = Frame("close", r, 0)
    <3>1. stack'[1].at = "eof" /\ stack'[2].pos = r
      BY <2>3 DEF Root, Frame
    <3> QED
      BY <2>1, <2>3, <3>1 DEF CloseInv
  <2> QED
    BY <1>18, <2>2, <2>3, GoneFrames
<1>19. ASSUME \A k \in 1..Len(stack') : stack'[k].at # "close"
       PROVE  CloseInv'
  BY <1>19 DEF CloseInv
<1>20. ASSUME NEW r \in Responders, NEW topic \in Topics, Subscribe(r, topic)
       PROVE  CloseInv'
  <2> DEFINE f == Root("input", r)
             s == [i \in 1..Stored |-> Frame("recover", r, 0)]
  <2>1. stack' = <<f>> \/ stack' = <<f>> \o s
    BY <1>20 DEF Subscribe
  <2>2. f.at # "close" /\ \A i \in 1..Stored : s[i].at # "close"
    BY DEF Root, Frame
  <2>3. Len(s) = Stored
    BY DispatchAssumption
  <2> HIDE DEF f, s
  <2>4. \A k \in 1..(1 + Stored) : (<<f>> \o s)[k] = IF k <= 1 THEN f ELSE s[k - 1]
    BY <2>3, DispatchAssumption
  <2> QED
    BY <1>19, <2>1, <2>2, <2>3, <2>4, DispatchAssumption
<1>21. ASSUME NEW at \in {"input", "app"}, NEW r, NEW f, f.at # "close",
              stack' = <<Root(at, r), f>>
       PROVE  CloseInv'
  <2>1. Root(at, r).at # "close"
    BY DEF Root
  <2> DEFINE g == Root(at, r)
  <2> HIDE DEF g
  <2>2. stack' = <<g, f>>
    BY <1>21 DEF g
  <2> QED
    BY <1>19, <1>21, <2>1, <2>2 DEF g
<1>22. ASSUME \/ \E p \in Publications : Publish(p)
              \/ \E topic \in AppTopics : AppSend(topic)
       PROVE  CloseInv'
  <2>1. Frame("emit", 0, NewId).at # "close"
    BY DEF Frame
  <2> QED
    BY <1>21, <1>22, <2>1 DEF Publish, AppSend
<1>23. CASE UNCHANGED vars
  BY <1>3, <1>23 DEF vars
<1>24. ASSUME NEW r \in Responders, Written(r)
       PROVE  CloseInv'
  BY <1>3, <1>24 DEF Written
<1> QED
  BY <1>5, <1>6, <1>7, <1>8, <1>9, <1>10, <1>11, <1>12, <1>13, <1>14, <1>15, <1>17,
     <1>18, <1>20, <1>22, <1>23, <1>24 DEF Next

LEMMA CloseInvariant == Spec => []CloseInv
<1>1. Init => CloseInv
  BY DEF Init, CloseInv
<1> QED
  BY <1>1, CloseStep, TypeInvariant, PTL DEF Spec

-----------------------------------------------------------------------------
(* The steps as the responders see them.                                   *)

(* The emissions in progress stay as they are.                             *)
EmitsKept ==
  /\ \A k \in 1..Len(stack) :
       stack[k].at = "emit" => k \in 1..Len(stack') /\ stack'[k] = stack[k]
  /\ \A k \in 1..Len(stack') :
       stack'[k].at = "emit" => k \in 1..Len(stack) /\ stack'[k] = stack[k]

(* One more begins.                                                        *)
EmitBegins ==
  \E m \in 1..Len(stack') :
    /\ stack'[m] = Frame("emit", 0, NewId)
    /\ \A k \in 1..Len(stack) :
         stack[k].at = "emit" => k < m /\ stack'[k] = stack[k]
    /\ \A k \in 1..Len(stack') :
         stack'[k].at = "emit" /\ k # m => k \in 1..Len(stack) /\ stack'[k] = stack[k]

(* The last one goes on to responder r.                                    *)
EmitReaches(r) ==
  /\ Len(stack) \in 1..Len(stack')
  /\ stack'[Len(stack)] = Frame("emit", r, Top.msg)
  /\ \A k \in 1..(Len(stack) - 1) : stack'[k] = stack[k]
  /\ \A k \in 1..Len(stack') : stack'[k].at = "emit" => k <= Len(stack)

(* The last one is through.                                                *)
EmitThrough ==
  /\ Len(stack) - 1 <= Len(stack')
  /\ \A k \in 1..(Len(stack) - 1) : stack'[k] = stack[k]
  /\ \A k \in 1..Len(stack') : stack'[k].at = "emit" => k < Len(stack)

Goes == outcome' = "ok"

IsQuiet ==
  /\ UNCHANGED <<log, got>>
  /\ UNCHANGED wants \/ stack = <<>>
  /\ Goes => EmitsKept

Sends ==
  /\ \E topic \in Topics, type \in MessageTypes :
       log' = Append(log, NewEntry(Subscribers(topic), topic, type, FALSE))
  /\ UNCHANGED <<got, wants>>
  /\ Goes => EmitBegins

SendsTo(r) ==
  /\ SendDirectly(r)
  /\ got' = [got EXCEPT ![r] = Append(@, NewId)]
  /\ UNCHANGED wants
  /\ Goes => EmitsKept

Gives(r) ==
  /\ stack # <<>> /\ Top.at = "emit" /\ IsNext(r)
  /\ got' = [got EXCEPT ![r] = Append(@, Top.msg)]
  /\ UNCHANGED <<log, wants>>
  /\ Goes => EmitReaches(r)

Ends ==
  /\ stack # <<>> /\ Top.at = "emit" /\ \A r \in Responders : ~IsNext(r)
  /\ UNCHANGED <<log, got, wants>>
  /\ Goes => EmitThrough

Cuts ==
  /\ log' = [i \in DOMAIN log |->
               IF i \in InProgress THEN [log[i] EXCEPT !.cut = TRUE] ELSE log[i]]
  /\ UNCHANGED <<got, wants>>
  /\ Goes => \A k \in 1..Len(stack') : stack'[k].at # "emit"

LEMMA KeptReturning ==
  ASSUME StackOK, stack # <<>>, Returns, Top.at # "emit"
  PROVE  EmitsKept
BY TopFrame DEF Returns, EmitsKept, StackOK

LEMMA KeptGoingOn ==
  ASSUME StackOK, stack # <<>>, NEW f, GoesOn(f), Top.at # "emit", f.at # "emit"
  PROVE  EmitsKept
BY TopFrame DEF GoesOn, EmitsKept, StackOK

LEMMA KeptCalling ==
  ASSUME StackOK, stack # <<>>, NEW f, NEW g, CallsFrom(f, g), Top.at # "emit",
         f.at # "emit", g.at # "emit"
  PROVE  EmitsKept
<1>1. Len(stack) \in Nat /\ Len(stack) > 0 /\ Top = stack[Len(stack)]
  BY TopFrame
<1> QED
  BY <1>1 DEF CallsFrom, EmitsKept

LEMMA BeginsCalling ==
  ASSUME StackOK, stack # <<>>, NEW f, CallsFrom(f, Frame("emit", 0, NewId)),
         Top.at # "emit", f.at # "emit"
  PROVE  EmitBegins
<1> DEFINE m == Len(stack) + 1
<1>1. Len(stack) \in Nat /\ Len(stack) > 0 /\ Top = stack[Len(stack)]
  BY TopFrame
<1>2. m \in 1..Len(stack') /\ stack'[m] = Frame("emit", 0, NewId)
  BY <1>1 DEF CallsFrom
<1>3. \A k \in 1..Len(stack) :
        stack[k].at = "emit" => k < m /\ stack'[k] = stack[k]
  BY <1>1 DEF CallsFrom
<1>4. \A k \in 1..Len(stack') :
        stack'[k].at = "emit" /\ k # m => k \in 1..Len(stack) /\ stack'[k] = stack[k]
  BY <1>1 DEF CallsFrom
<1> HIDE DEF m
<1> QED
  BY <1>2, <1>3, <1>4 DEF EmitBegins

(* Every step is one of these.                                             *)
LEMMA StepKinds ==
  ASSUME TypeInv, [Next]_vars
  PROVE  \/ IsQuiet
         \/ Sends
         \/ \E r \in Responders : SendsTo(r) \/ Gives(r)
         \/ Ends
         \/ Cuts
<1>1. StackOK
  BY DEF TypeInv
<1> USE DEF Fails, Enters, Goes, At
<1>2. ASSUME UNCHANGED <<log, got, wants>>, stack # <<>>, Top.at # "emit",
             \/ Fails
             \/ Returns
             \/ \E f : GoesOn(f) /\ f.at # "emit"
      PROVE  IsQuiet
  BY <1>1, <1>2, KeptReturning, KeptGoingOn DEF IsQuiet
<1>3. ASSUME NEW r \in Responders, EmitTo(r)
      PROVE  Gives(r)
  <2> DEFINE f == Frame("emit", r, Top.msg)
             g == Frame("full", r, Top.msg)
  <2>1. At("emit") /\ stack # <<>> /\ Enters(f, g)
    BY <1>3, EmitToShape
  <2>2. /\ IsNext(r) /\ UNCHANGED <<log, wants>>
        /\ got' = [got EXCEPT ![r] = Append(@, Top.msg)]
    BY <1>3 DEF EmitTo, AppendTo
  <2>3. g.at # "emit"
    BY DEF Frame
  <2> HIDE DEF g
  <2>4. CallsFrom(f, g) => EmitReaches(r)
    BY <1>1, <2>1, <2>3, TopFrame DEF CallsFrom, EmitReaches
  <2> QED
    BY <2>1, <2>2, <2>4 DEF Gives
<1>4. ASSUME EmitEnds
      PROVE  Ends
  <2> DEFINE f == Frame("callbacks", 1, Top.msg)
  <2>1. At("emit") /\ stack # <<>> /\ (GoesOn(f) \/ Returns)
    BY <1>4, EmitEndsShape
  <2>2. UNCHANGED <<log, got, wants>> /\ \A r \in Responders : ~IsNext(r)
    BY <1>4 DEF EmitEnds, historyVars
  <2>3. f.at # "emit"
    BY DEF Frame
  <2> HIDE DEF f
  <2>4. GoesOn(f) \/ Returns => EmitThrough
    BY <1>1, <2>1, <2>3, TopFrame DEF GoesOn, Returns, EmitThrough
  <2> QED
    BY <2>1, <2>2, <2>4 DEF Ends
<1>5. ASSUME CallbacksEnd
      PROVE  IsQuiet
  BY <1>2, <1>5, CallbacksEndShape DEF CallbacksEnd, historyVars
<1>6. ASSUME SkipCallback \/ CallbackCounts \/ CallbackRegisters
      PROVE  IsQuiet
  <2>1. At("callbacks") /\ stack # <<>> /\ GoesOn(NextCallback)
    BY <1>6, NextCallbackShape
  <2>2. UNCHANGED <<log, got, wants>>
    BY <1>6 DEF SkipCallback, Skip, CallbackCounts, CallbackRegisters, Run, historyVars
  <2>3. NextCallback.at # "emit"
    BY DEF NextCallback, Frame
  <2> QED
    BY <1>2, <2>1, <2>2, <2>3
<1>7. ASSUME NEW topic \in Topics, NEW type \in MessageTypes,
             NewMessage(topic, type), UNCHANGED <<got, wants>>, Goes => EmitBegins
      PROVE  Sends
  BY <1>7 DEF NewMessage, Sends
<1>8. "Data" \in MessageTypes /\ {Farewell, Answer} \subseteq Topics
  BY DispatchAssumption DEF MessageTypes
<1>9. ASSUME CallbackAnswers
      PROVE  Sends
  <2>1. At("callbacks") /\ stack # <<>> /\ Enters(NextCallback, Frame("emit", 0, NewId))
    BY <1>9, CallbackAnswersShape
  <2>2. NewMessage(Answer, "Data") /\ UNCHANGED <<got, wants>>
    BY <1>9 DEF CallbackAnswers, Run
  <2>3. NextCallback.at # "emit"
    BY DEF NextCallback, Frame
  <2> QED
    BY <1>1, <1>7, <1>8, <2>1, <2>2, <2>3, BeginsCalling
<1>10. ASSUME OutputFull \/ Recover
       PROVE  Top.pos \in Responders
  <2>1. stack # <<>> /\ Top.at \in {"full", "recover"}
    BY <1>10 DEF OutputFull, Recover
  <2> QED
    BY <1>1, <2>1, TopFrame DEF Fits
<1>11. ASSUME OutputFull
       PROVE  IsQuiet \/ SendsTo(Top.pos)
  <2> DEFINE f == Frame("stillFull", Top.pos, Top.msg)
             g == Frame("full", Top.pos, NewId)
  <2>1. /\ At("full") /\ stack # <<>>
        /\ \/ SendDirectly(Top.pos) /\ AppendTo(Top.pos, NewId) /\ Enters(f, g)
           \/ UNCHANGED <<size, log, got>> /\ GoesOn(f)
    BY <1>11, OutputFullShape
  <2>2. UNCHANGED wants
    BY <1>11 DEF OutputFull
  <2>3. f.at # "emit" /\ g.at # "emit"
    BY DEF Frame
  <2> HIDE DEF f, g
  <2>4. CASE SendDirectly(Top.pos) /\ AppendTo(Top.pos, NewId) /\ Enters(f, g)
    BY <1>1, <2>1, <2>2, <2>3, <2>4, KeptCalling DEF SendsTo, AppendTo
  <2>5. CASE UNCHANGED <<size, log, got>> /\ GoesOn(f)
    BY <1>2, <2>1, <2>2, <2>3, <2>5
  <2> QED
    BY <2>1, <2>4, <2>5
<1>12. ASSUME StillFull
       PROVE  IsQuiet
  <2> DEFINE f == Frame("close", Top.pos, Top.msg)
  <2>1. /\ At("stillFull") /\ stack # <<>>
        /\ Fails \/ GoesOn(f) \/ Returns
    BY <1>12, StillFullShape
  <2>2. UNCHANGED <<log, got, wants>>
    BY <1>12 DEF StillFull, historyVars
  <2>3. f.at # "emit"
    BY DEF Frame
  <2> HIDE DEF f
  <2> QED
    BY <1>2, <2>1, <2>2, <2>3
<1>13. ASSUME CloseClient
       PROVE  IsQuiet \/ Sends
  <2> DEFINE f == Frame("delete", Top.pos, Top.msg)
  <2>1. /\ At("close") /\ stack # <<>>
        /\ \/ NewMessage(Farewell, "Data") /\ Enters(f, Frame("emit", 0, NewId))
           \/ UNCHANGED log /\ GoesOn(f)
    BY <1>13, CloseClientShape
  <2>2. UNCHANGED <<got, wants>>
    BY <1>13 DEF CloseClient
  <2>3. f.at # "emit"
    BY DEF Frame
  <2> HIDE DEF f
  <2>4. CASE NewMessage(Farewell, "Data") /\ Enters(f, Frame("emit", 0, NewId))
    BY <1>1, <1>7, <1>8, <2>1, <2>2, <2>3, <2>4, BeginsCalling
  <2>5. CASE UNCHANGED log /\ GoesOn(f)
    BY <1>2, <2>1, <2>2, <2>3, <2>5
  <2> QED
    BY <2>1, <2>4, <2>5
<1>14. ASSUME DeleteThis
       PROVE  IsQuiet
  BY <1>2, <1>14, DeleteThisShape DEF DeleteThis, historyVars
<1>15. ASSUME Recover
       PROVE  IsQuiet \/ SendsTo(Top.pos)
  <2> DEFINE f == Frame("full", Top.pos, NewId)
  <2>1. /\ At("recover") /\ stack # <<>>
        /\ \/ Fails /\ UNCHANGED <<size, log, got>>
           \/ SendDirectly(Top.pos) /\ AppendTo(Top.pos, NewId) /\ GoesOn(f)
    BY <1>15, RecoverShape
  <2>2. UNCHANGED wants
    BY <1>15 DEF Recover
  <2>3. f.at # "emit"
    BY DEF Frame
  <2> HIDE DEF f
  <2>4. CASE Fails /\ UNCHANGED <<size, log, got>>
    BY <1>2, <2>1, <2>2, <2>4
  <2>5. CASE SendDirectly(Top.pos) /\ AppendTo(Top.pos, NewId) /\ GoesOn(f)
    BY <1>1, <2>1, <2>2, <2>3, <2>5, KeptGoingOn DEF SendsTo, AppendTo
  <2> QED
    BY <2>1, <2>4, <2>5
<1>16. ASSUME EndInput \/ EndEvent
       PROVE  IsQuiet
  <2>1. UNCHANGED <<log, got, wants>>
    BY <1>16 DEF EndInput, EndEvent, historyVars
  <2> QED
    BY <1>2, <1>16, <2>1, EndShape
<1>17. ASSUME CallbackThrows
       PROVE  Cuts
  <2>1. \/ Fails
        \/ stack' = <<>>
        \/ stack' = <<Frame("close", stack[1].pos, 0)>>
    BY <1>17, ThrowsShape
  <2> DEFINE f == Frame("close", stack[1].pos, 0)
  <2>2. f.at # "emit"
    BY DEF Frame
  <2> HIDE DEF f
  <2>3. Goes => \A k \in 1..Len(stack') : stack'[k].at # "emit"
    BY <2>1, <2>2 DEF f
  <2> QED
    BY <1>17, <2>3 DEF Cuts, CallbackThrows, Run
<1>18. ASSUME stack = <<>>, UNCHANGED <<log, got>>,
              \A k \in 1..Len(stack') : stack'[k].at # "emit"
       PROVE  IsQuiet
  BY <1>18 DEF IsQuiet, EmitsKept
<1>19. ASSUME NEW r \in Responders, PeerGone(r)
       PROVE  IsQuiet
  <2>1. stack = <<>> /\ UNCHANGED <<log, got>>
    BY <1>19 DEF PeerGone, Event, historyVars
  <2>2. \A k \in 1..Len(stack') : stack'[k].at # "emit"
    BY <1>19, GoneFields
  <2> QED
    BY <1>18, <2>1, <2>2
<1>20. ASSUME NEW r \in Responders, NEW topic \in Topics, Subscribe(r, topic)
       PROVE  IsQuiet
  <2> DEFINE f == Root("input", r)
             s == [i \in 1..Stored |-> Frame("recover", r, 0)]
  <2>1. stack' = <<f>> \/ stack' = <<f>> \o s
    BY <1>20 DEF Subscribe
  <2>2. f.at # "emit" /\ \A i \in 1..Stored : s[i].at # "emit"
    BY DEF Root, Frame
  <2>3. Len(s) = Stored
    BY DispatchAssumption
  <2> HIDE DEF f, s
  <2>4. \A k \in 1..(1 + Stored) : (<<f>> \o s)[k] = IF k <= 1 THEN f ELSE s[k - 1]
    BY <2>3, DispatchAssumption
  <2>5. \A k \in 1..Len(stack') : stack'[k].at # "emit"
    BY <2>1, <2>2, <2>3, <2>4, DispatchAssumption
  <2> QED
    BY <1>18, <1>20, <2>5 DEF Subscribe, Event, historyVars
<1>21. ASSUME NEW at \in {"input", "app"}, NEW from, stack = <<>>,
              NEW topic \in Topics, NEW type \in MessageTypes, NewMessage(topic, type),
              stack' = <<Root(at, from), Frame("emit", 0, NewId)>>,
              UNCHANGED <<wants, got>>
       PROVE  Sends
  <2> DEFINE f == Root(at, from)
             g == Frame("emit", 0, NewId)
  <2>1. f.at # "emit"
    BY DEF Root
  <2> HIDE DEF f, g
  <2>2. Len(stack) = 0
    BY <1>21
  <2>3. stack' = <<f, g>>
    BY <1>21 DEF f, g
  <2>4. Len(stack') = 2 /\ stack'[1] = f /\ stack'[2] = g
    BY <2>3
  <2>5. EmitBegins
    BY <2>1, <2>2, <2>4 DEF EmitBegins, g
  <2> QED
    BY <1>7, <1>21, <2>5
<1>22. ASSUME NEW p \in Publications, Publish(p)
       PROVE  Sends
  <2>1. p.topic \in Topics /\ p.type \in MessageTypes
    BY DispatchAssumption
  <2> QED
    BY <1>21, <1>22, <2>1 DEF Publish, Event
<1>23. ASSUME NEW topic \in AppTopics, AppSend(topic)
       PROVE  Sends
  <2>1. topic \in Topics
    BY DispatchAssumption
  <2> QED
    BY <1>8, <1>21, <1>23, <2>1 DEF AppSend, Event
<1>24. ASSUME UNCHANGED <<log, got, wants, stack>>
       PROVE  IsQuiet
  BY <1>24 DEF IsQuiet, EmitsKept
<1>25. ASSUME NEW r \in Responders, Written(r)
       PROVE  IsQuiet
  BY <1>24, <1>25 DEF Written, historyVars
<1>26. CASE UNCHANGED vars
  BY <1>24, <1>26 DEF vars, historyVars
<1> QED
  BY <1>3, <1>4, <1>5, <1>6, <1>9, <1>10, <1>11, <1>12, <1>13, <1>14, <1>15, <1>16,
     <1>17, <1>19, <1>20, <1>22, <1>23, <1>25, <1>26 DEF Next

LEMMA DeletedStays ==
  ASSUME TypeInv, CloseInv, [Next]_vars, NEW r \in Responders, Connected(r)'
  PROVE  Connected(r)
<1>1. ASSUME UNCHANGED alive
      PROVE  Connected(r)
  BY <1>1 DEF Connected
<1>2. CASE CloseClient
  <2>1. stack # <<>> /\ outcome = "ok" /\ Top.at = "close"
    BY <1>2 DEF CloseClient, At
  <2>2. Connected(Top.pos)
    BY <2>1, TopFrame DEF CloseInv, TypeInv
  <2>3. r # Top.pos => alive'[r] = alive[r]
    BY <1>2 DEF CloseClient, TypeInv, DataOK
  <2> QED
    BY <2>2, <2>3 DEF Connected
<1>3. CASE DeleteThis
  BY <1>3 DEF DeleteThis, TypeInv, DataOK, Connected
<1> QED
  BY <1>1, <1>2, <1>3
     DEF Next, Subscribe, PeerGone, Written, EmitTo, Publish, AppSend, EmitEnds, CallbacksEnd,
         SkipCallback, Skip, CallbackCounts, CallbackRegisters, CallbackAnswers,
         CallbackThrows, OutputFull, StillFull, Recover, EndInput, EndEvent, vars

(* A server that has ended does nothing.                                   *)
LEMMA EndedStays ==
  ASSUME [Next]_vars, outcome # "ok"
  PROVE  UNCHANGED vars
BY DEF Next, Subscribe, PeerGone, Written, EmitTo, Publish, AppSend, EmitEnds, CallbacksEnd,
       SkipCallback, Skip, CallbackCounts, CallbackRegisters, CallbackAnswers, Invoked,
       CallbackThrows, Run, OutputFull, StillFull, CloseClient, DeleteThis, Recover,
       EndInput, EndEvent, Event, At

-----------------------------------------------------------------------------
(* What responders get.                                                    *)

Has(r, i) == \E l \in 1..Len(got[r]) : got[r][l] = i

(* Nobody is given a message twice, or one that is not for it.             *)
GotOnce ==
  \A r \in Responders :
    /\ \A k, l \in 1..Len(got[r]) : got[r][k] = got[r][l] => k = l
    /\ \A k \in 1..Len(got[r]) : r \in log[got[r][k]].to

(* A message is emitted once.                                              *)
OneEmission ==
  \A j, k \in 1..Len(stack) :
    stack[j].at = "emit" /\ stack[k].at = "emit" /\ stack[j].msg = stack[k].msg => j = k

(* Meanwhile nobody subscribes or unsubscribes.                            *)
SameSubscribers ==
  \A k \in 1..Len(stack) : stack[k].at = "emit" =>
    \A r \in Responders : Connected(r) =>
      (r \in log[stack[k].msg].to <=> log[stack[k].msg].topic \in wants[r])

(* The responders an emission has not reached have not got the message.    *)
NoneAhead ==
  \A k \in 1..Len(stack) : stack[k].at = "emit" =>
    \A r \in Responders : r > stack[k].pos => ~Has(r, stack[k].msg)

(* The others have, unless they are deleted.                               *)
AllGiven ==
  \A i \in 1..Len(log) : \A r \in Responders :
    (r \in log[i].to /\ Connected(r) /\ ~log[i].cut) =>
      \/ Has(r, i)
      \/ \E k \in 1..Len(stack) :
           stack[k].at = "emit" /\ stack[k].msg = i /\ stack[k].pos < r

EmitInv ==
  /\ GotOnce
  /\ outcome = "ok" => OneEmission /\ SameSubscribers /\ NoneAhead /\ AllGiven

LEMMA EmitQuiet ==
  ASSUME TypeInv, EmitInv, outcome = "ok", IsQuiet,
         \A r \in Responders : Connected(r)' => Connected(r)
  PROVE  EmitInv'
<1>1. GotOnce'
  BY DEF EmitInv, GotOnce, IsQuiet
<1>2. ASSUME Goes
      PROVE  /\ EmitsKept /\ UNCHANGED <<log, got>>
             /\ UNCHANGED wants \/ \A k \in 1..Len(stack') : stack'[k].at # "emit"
             /\ OneEmission /\ SameSubscribers /\ NoneAhead /\ AllGiven
  BY <1>2 DEF IsQuiet, EmitsKept, EmitInv
<1>3. Goes => OneEmission'
  BY <1>2 DEF OneEmission, EmitsKept
<1>4. Goes => SameSubscribers'
  BY <1>2 DEF SameSubscribers, EmitsKept
<1>5. Goes => NoneAhead'
  BY <1>2 DEF NoneAhead, EmitsKept, Has
<1>6. Goes => AllGiven'
  <2> SUFFICES ASSUME Goes, NEW i \in 1..Len(log'), NEW r \in Responders,
                      r \in log'[i].to, Connected(r)', ~log'[i].cut
               PROVE  \/ Has(r, i)'
                      \/ \E k \in 1..Len(stack') :
                           stack'[k].at = "emit" /\ stack'[k].msg = i /\ stack'[k].pos < r
    BY DEF AllGiven
  <2>1. \/ Has(r, i)
        \/ \E k \in 1..Len(stack) :
             stack[k].at = "emit" /\ stack[k].msg = i /\ stack[k].pos < r
    BY <1>2 DEF AllGiven
  <2>2. Has(r, i) => Has(r, i)'
    BY <1>2 DEF Has
  <2> QED
    BY <1>2, <2>1, <2>2 DEF EmitsKept
<1> QED
  BY <1>1, <1>3, <1>4, <1>5, <1>6 DEF EmitInv, Goes

LEMMA EmitMessages ==
  ASSUME TypeInv
  PROVE  /\ Len(log) \in Nat /\ NewId = Len(log) + 1
         /\ \A k \in 1..Len(stack) : stack[k].at = "emit" => stack[k].msg \in 1..Len(log)
         /\ \A r \in Responders :
              /\ Len(got[r]) \in Nat
              /\ \A k \in 1..Len(got[r]) : got[r][k] \in 1..Len(log)
<1>1. \A k \in 1..Len(stack) : stack[k].at = "emit" => stack[k].msg \in 1..Len(log)
  BY DEF TypeInv, StackOK, Fits
<1>2. \A r \in Responders : got[r] \in Seq(1..Len(log))
  BY DEF TypeInv, DataOK
<1>3. \A r \in Responders :
        Len(got[r]) \in Nat /\ \A k \in 1..Len(got[r]) : got[r][k] \in 1..Len(log)
  BY <1>2
<1>4. log \in Seq(Entry)
  BY DEF TypeInv, DataOK
<1>5. Len(log) \in Nat
  BY <1>4
<1> QED
  BY <1>1, <1>3, <1>5 DEF NewId

LEMMA EmitSends ==
  ASSUME TypeInv, EmitInv, outcome = "ok", Sends,
         \A r \in Responders : Connected(r)' => Connected(r)
  PROVE  EmitInv'
<1>1. /\ Len(log) \in Nat /\ NewId = Len(log) + 1
      /\ \A k \in 1..Len(stack) : stack[k].at = "emit" => stack[k].msg \in 1..Len(log)
      /\ \A r \in Responders : \A k \in 1..Len(got[r]) : got[r][k] \in 1..Len(log)
  BY EmitMessages
<1>2. PICK topic \in Topics, type \in MessageTypes :
        log' = Append(log, NewEntry(Subscribers(topic), topic, type, FALSE))
  BY DEF Sends
<1> DEFINE e == NewEntry(Subscribers(topic), topic, type, FALSE)
<1>3. e.topic = topic /\ e.to = Subscribers(topic)
  BY DEF NewEntry
<1>4. e \in Entry
  BY NewEntryType DEF TypeInv, Subscribers
<1> HIDE DEF e
<1>5. log' = Append(log, e)
  BY <1>2 DEF e
<1>6. /\ Len(log') = Len(log) + 1
      /\ \A i \in 1..Len(log) : log'[i] = log[i]
      /\ log'[NewId] = e
  BY <1>1, <1>4, <1>5, LogGrows DEF TypeInv
<1>7. GotOnce'
  BY <1>1, <1>6 DEF EmitInv, GotOnce, Sends
<1>8. ASSUME Goes
      PROVE  OneEmission' /\ SameSubscribers' /\ NoneAhead' /\ AllGiven'
  <2>1. /\ UNCHANGED <<got, wants>>
        /\ OneEmission /\ SameSubscribers /\ NoneAhead /\ AllGiven
    BY <1>8 DEF Sends, EmitInv
  <2>2. PICK m \in 1..Len(stack') :
          /\ stack'[m] = Frame("emit", 0, NewId)
          /\ \A k \in 1..Len(stack) :
               stack[k].at = "emit" => k < m /\ stack'[k] = stack[k]
          /\ \A k \in 1..Len(stack') :
               stack'[k].at = "emit" /\ k # m => k \in 1..Len(stack) /\ stack'[k] = stack[k]
    BY <1>8 DEF Sends, EmitBegins
  <2>3. stack'[m].at = "emit" /\ stack'[m].pos = 0 /\ stack'[m].msg = NewId
    BY <2>2 DEF Frame
  <2>4. \A k \in 1..Len(stack') :
          stack'[k].at = "emit" /\ k # m =>
            /\ k \in 1..Len(stack) /\ stack'[k] = stack[k] /\ stack[k].at = "emit"
            /\ stack[k].msg \in 1..Len(log)
    BY <1>1, <2>2
  <2>5. OneEmission'
    <3> SUFFICES ASSUME NEW j \in 1..Len(stack'), NEW k \in 1..Len(stack'),
                        stack'[j].at = "emit", stack'[k].at = "emit",
                        stack'[j].msg = stack'[k].msg
                 PROVE  j = k
      BY DEF OneEmission
    <3>1. CASE j # m /\ k # m
      BY <2>1, <2>4, <3>1 DEF OneEmission
    <3>2. CASE j = m \/ k = m
      BY <1>1, <2>3, <2>4, <3>2
    <3> QED
      BY <3>1, <3>2
  <2>6. SameSubscribers'
    <3> SUFFICES ASSUME NEW k \in 1..Len(stack'), stack'[k].at = "emit",
                        NEW r \in Responders, Connected(r)'
                 PROVE  r \in log'[stack'[k].msg].to
                          <=> log'[stack'[k].msg].topic \in wants'[r]
      BY DEF SameSubscribers
    <3>1. Connected(r)
      OBVIOUS
    <3>2. CASE k = m
      BY <1>3, <1>6, <2>1, <2>3, <3>1, <3>2 DEF Subscribers
    <3>3. CASE k # m
      BY <1>6, <2>1, <2>4, <3>1, <3>3 DEF SameSubscribers
    <3> QED
      BY <3>2, <3>3
  <2>7. NoneAhead'
    <3> SUFFICES ASSUME NEW k \in 1..Len(stack'), stack'[k].at = "emit",
                        NEW r \in Responders, r > stack'[k].pos,
                        NEW l \in 1..Len(got'[r])
                 PROVE  got'[r][l] # stack'[k].msg
      BY DEF NoneAhead, Has
    <3>1. CASE k = m
      BY <1>1, <2>1, <2>3, <3>1
    <3>2. CASE k # m
      BY <2>1, <2>4, <3>2 DEF Has, NoneAhead
    <3> QED
      BY <3>1, <3>2
  <2>8. AllGiven'
    <3> SUFFICES ASSUME NEW i \in 1..Len(log'), NEW r \in Responders,
                        r \in log'[i].to, Connected(r)', ~log'[i].cut
                 PROVE  \/ Has(r, i)'
                        \/ \E k \in 1..Len(stack') :
                             stack'[k].at = "emit" /\ stack'[k].msg = i /\ stack'[k].pos < r
      BY DEF AllGiven
    <3>1. CASE i = NewId
      BY <2>3, <3>1, DispatchAssumption
    <3>2. CASE i # NewId
      <4>1. i \in 1..Len(log) /\ log'[i] = log[i]
        BY <1>1, <1>6, <3>2
      <4>2. \/ Has(r, i)
            \/ \E k \in 1..Len(stack) :
                 stack[k].at = "emit" /\ stack[k].msg = i /\ stack[k].pos < r
        BY <2>1, <4>1 DEF AllGiven
      <4>3. Has(r, i) => Has(r, i)'
        BY <2>1 DEF Has
      <4>4. ASSUME NEW k \in 1..Len(stack),
                   stack[k].at = "emit" /\ stack[k].msg = i /\ stack[k].pos < r
            PROVE  k \in 1..Len(stack') /\ stack'[k] = stack[k]
        <5>1. k < m /\ stack'[k] = stack[k]
          BY <2>2, <4>4
        <5> QED
          BY <5>1
      <4> QED
        BY <4>2, <4>3, <4>4
    <3> QED
      BY <3>1, <3>2
  <2> QED
    BY <2>5, <2>6, <2>7, <2>8
<1> QED
  BY <1>7, <1>8 DEF EmitInv, Goes

(* What a responder has when it gets another message.                      *)
LEMMA GotAppended ==
  ASSUME TypeInv, NEW r \in Responders, NEW i \in Nat,
         got' = [got EXCEPT ![r] = Append(@, i)]
  PROVE  /\ \A q \in Responders : q # r => got'[q] = got[q]
         /\ Len(got[r]) \in Nat
         /\ Len(got'[r]) = Len(got[r]) + 1
         /\ \A k \in 1..Len(got[r]) : got'[r][k] = got[r][k]
         /\ got'[r][Len(got[r]) + 1] = i
         /\ \A q \in Responders, j \in Nat :
              Has(q, j)' <=> Has(q, j) \/ (q = r /\ j = i)
<1>1. got \in [Responders -> Seq(1..Len(log))]
  BY DEF TypeInv, DataOK
<1>2. \A q \in Responders : q # r => got'[q] = got[q]
  BY <1>1
<1>3. got'[r] = Append(got[r], i)
  BY <1>1
<1>4. 1..Len(log) \subseteq Nat
  OBVIOUS
<1>5. got[r] \in Seq(Nat)
  BY <1>1, <1>4, SeqMonotonic
<1>6. /\ Len(got[r]) \in Nat
      /\ Len(got'[r]) = Len(got[r]) + 1
      /\ \A k \in 1..Len(got[r]) : got'[r][k] = got[r][k]
      /\ got'[r][Len(got[r]) + 1] = i
  BY <1>3, <1>5, AppendProperties
<1>7. ASSUME NEW q \in Responders, NEW j \in Nat
      PROVE  Has(q, j)' <=> Has(q, j) \/ (q = r /\ j = i)
  <2>1. CASE q # r
    BY <1>2, <2>1 DEF Has
  <2>2. CASE q = r
    BY <1>6, <2>2 DEF Has
  <2> QED
    BY <2>1, <2>2
<1> QED
  BY <1>2, <1>6, <1>7

LEMMA EmitSendsTo ==
  ASSUME TypeInv, EmitInv, outcome = "ok", NEW r \in Responders, SendsTo(r),
         \A q \in Responders : Connected(q)' => Connected(q)
  PROVE  EmitInv'
<1>1. /\ Len(log) \in Nat /\ NewId = Len(log) + 1 /\ NewId \in Nat
      /\ \A k \in 1..Len(stack) : stack[k].at = "emit" => stack[k].msg \in 1..Len(log)
      /\ \A q \in Responders :
           /\ Len(got[q]) \in Nat
           /\ \A k \in 1..Len(got[q]) : got[q][k] \in 1..Len(log)
  BY EmitMessages
<1> DEFINE e == NewEntry({r}, Answer, "Data", TRUE)
<1>2. e.to = {r}
  BY DEF NewEntry
<1>3. e \in Entry
  BY NewEntryType, DispatchAssumption DEF TypeInv, MessageTypes
<1> HIDE DEF e
<1>4. log' = Append(log, e)
  BY DEF SendsTo, SendDirectly, e
<1>5. /\ Len(log') = Len(log) + 1
      /\ \A i \in 1..Len(log) : log'[i] = log[i]
      /\ log'[NewId] = e
  BY <1>1, <1>3, <1>4, LogGrows DEF TypeInv
<1>6. got' = [got EXCEPT ![r] = Append(@, NewId)]
  BY DEF SendsTo
<1>7. /\ \A q \in Responders : q # r => got'[q] = got[q]
      /\ Len(got'[r]) = Len(got[r]) + 1
      /\ \A k \in 1..Len(got[r]) : got'[r][k] = got[r][k]
      /\ got'[r][Len(got[r]) + 1] = NewId
      /\ \A q \in Responders, j \in Nat :
           Has(q, j)' <=> Has(q, j) \/ (q = r /\ j = NewId)
  BY <1>1, <1>6, GotAppended
<1>8. GotOnce'
  <2>1. GotOnce
    BY DEF EmitInv
  <2>2. ASSUME NEW q \in Responders, q # r
        PROVE  /\ \A k, l \in 1..Len(got'[q]) : got'[q][k] = got'[q][l] => k = l
               /\ \A k \in 1..Len(got'[q]) : q \in log'[got'[q][k]].to
    <3>1. got'[q] = got[q]
      BY <1>7, <2>2
    <3>2. \A k \in 1..Len(got[q]) : log'[got[q][k]] = log[got[q][k]]
      BY <1>1, <1>5
    <3>3. /\ \A k, l \in 1..Len(got[q]) : got[q][k] = got[q][l] => k = l
          /\ \A k \in 1..Len(got[q]) : q \in log[got[q][k]].to
      BY <2>1 DEF GotOnce
    <3> QED
      BY <3>1, <3>2, <3>3
  <2>3. \A k \in 1..Len(got'[r]) :
          \/ k \in 1..Len(got[r]) /\ got'[r][k] = got[r][k] /\ got[r][k] \in 1..Len(log)
          \/ k = Len(got[r]) + 1 /\ got'[r][k] = NewId
    <3>1. /\ Len(got[r]) \in Nat /\ Len(got'[r]) = Len(got[r]) + 1
          /\ \A k \in 1..Len(got[r]) : /\ got'[r][k] = got[r][k]
                                        /\ got[r][k] \in 1..Len(log)
          /\ got'[r][Len(got[r]) + 1] = NewId
      BY <1>1, <1>7
    <3> QED
      BY <3>1
  <2>4. NewId \notin 1..Len(log)
    BY <1>1
  <2>5. \A k, l \in 1..Len(got'[r]) : got'[r][k] = got'[r][l] => k = l
    <3>1. \A k, l \in 1..Len(got[r]) : got[r][k] = got[r][l] => k = l
      BY <2>1 DEF GotOnce
    <3> QED
      BY <2>3, <2>4, <3>1
  <2>6. \A k \in 1..Len(got'[r]) : r \in log'[got'[r][k]].to
    BY <1>2, <1>5, <2>1, <2>3 DEF GotOnce
  <2> QED
    BY <2>2, <2>5, <2>6 DEF GotOnce
<1>9. ASSUME Goes
      PROVE  OneEmission' /\ SameSubscribers' /\ NoneAhead' /\ AllGiven'
  <2>1. /\ UNCHANGED wants /\ EmitsKept
        /\ OneEmission /\ SameSubscribers /\ NoneAhead /\ AllGiven
    BY <1>9 DEF SendsTo, EmitInv
  <2>2. \A k \in 1..Len(stack') : stack'[k].at = "emit" =>
          /\ k \in 1..Len(stack) /\ stack'[k] = stack[k] /\ stack[k].at = "emit"
          /\ stack[k].msg \in 1..Len(log)
    BY <1>1, <2>1 DEF EmitsKept
  <2>3. OneEmission'
    BY <2>1, <2>2 DEF OneEmission
  <2>4. SameSubscribers'
    BY <1>5, <2>1, <2>2 DEF SameSubscribers
  <2>5. NoneAhead'
    <3> SUFFICES ASSUME NEW k \in 1..Len(stack'), stack'[k].at = "emit",
                        NEW q \in Responders, q > stack'[k].pos,
                        NEW i, i = stack'[k].msg
                 PROVE  ~Has(q, i)'
      BY DEF NoneAhead, Has
    <3>1. i \in 1..Len(log) /\ i \in Nat /\ i # NewId
      BY <1>1, <2>2
    <3>2. ~Has(q, i)
      BY <2>1, <2>2 DEF NoneAhead
    <3> QED
      BY <1>7, <3>1, <3>2
  <2>6. AllGiven'
    <3> SUFFICES ASSUME NEW i \in 1..Len(log'), NEW q \in Responders,
                        q \in log'[i].to, Connected(q)', ~log'[i].cut
                 PROVE  \/ Has(q, i)'
                        \/ \E k \in 1..Len(stack') :
                             stack'[k].at = "emit" /\ stack'[k].msg = i /\ stack'[k].pos < q
      BY DEF AllGiven
    <3>1. CASE i = NewId
      BY <1>1, <1>2, <1>5, <1>7, <3>1
    <3>2. CASE i # NewId
      <4>1. i \in 1..Len(log) /\ log'[i] = log[i] /\ i \in Nat
        BY <1>1, <1>5, <3>2
      <4>2. \/ Has(q, i)
            \/ \E k \in 1..Len(stack) :
                 stack[k].at = "emit" /\ stack[k].msg = i /\ stack[k].pos < q
        BY <2>1, <4>1 DEF AllGiven
      <4>3. Has(q, i) => Has(q, i)'
        BY <1>7, <4>1
      <4> QED
        BY <2>1, <4>2, <4>3 DEF EmitsKept
    <3> QED
      BY <3>1, <3>2
  <2> QED
    BY <2>3, <2>4, <2>5, <2>6
<1> QED
  BY <1>8, <1>9 DEF EmitInv, Goes

(* The last emission.                                                      *)
LEMMA LastEmission ==
  ASSUME TypeInv, stack # <<>>, Top.at = "emit"
  PROVE  /\ Len(stack) \in Nat /\ Len(stack) \in 1..Len(stack)
         /\ Top = stack[Len(stack)]
         /\ Top.msg \in 1..Len(log) /\ Top.pos \in Nat
         /\ SameSubscribers => Due = {q \in Responders : /\ Connected(q)
                                                         /\ q \in log[Top.msg].to
                                                         /\ q > Top.pos}
<1>1. StackOK
  BY DEF TypeInv
<1>2. /\ Len(stack) \in Nat /\ Len(stack) \in 1..Len(stack) /\ Top = stack[Len(stack)]
      /\ Top.msg \in 1..Len(log) /\ Top.pos \in Nat
  BY <1>1, TopFrame DEF Fits
<1>3. SameSubscribers => \A q \in Responders :
        Connected(q) => (q \in log[Top.msg].to <=> log[Top.msg].topic \in wants[q])
  BY <1>2 DEF SameSubscribers
<1> QED
  BY <1>2, <1>3 DEF Due, Subscribers

LEMMA EmitGives ==
  ASSUME TypeInv, EmitInv, outcome = "ok", NEW r \in Responders, Gives(r),
         \A q \in Responders : Connected(q)' => Connected(q)
  PROVE  EmitInv'
<1> DEFINE n == Len(stack)
           i == Top.msg
<1>1. /\ stack # <<>> /\ Top.at = "emit" /\ IsNext(r)
      /\ got' = [got EXCEPT ![r] = Append(@, i)]
      /\ UNCHANGED <<log, wants>>
  BY DEF Gives
<1>2. GotOnce /\ OneEmission /\ SameSubscribers /\ NoneAhead /\ AllGiven
  BY DEF EmitInv
<1>3. /\ n \in Nat /\ n \in 1..n /\ Top = stack[n]
      /\ i \in 1..Len(log) /\ Top.pos \in Nat
      /\ Due = {q \in Responders : Connected(q) /\ q \in log[i].to /\ q > Top.pos}
  BY <1>1, <1>2, LastEmission
<1>4. /\ r \in log[i].to /\ r > Top.pos
      /\ \A q \in Responders :
           Connected(q) /\ q \in log[i].to /\ q > Top.pos => r <= q
  BY <1>1, <1>3 DEF IsNext
<1>5. Responders \subseteq Nat /\ i \in Nat
  BY <1>3, DispatchAssumption
<1>6. stack[n].at = "emit" /\ stack[n].msg = i /\ stack[n].pos = Top.pos
  BY <1>1, <1>3
<1> HIDE DEF n, i
<1>7. /\ \A q \in Responders : q # r => got'[q] = got[q]
      /\ Len(got[r]) \in Nat
      /\ Len(got'[r]) = Len(got[r]) + 1
      /\ \A k \in 1..Len(got[r]) : got'[r][k] = got[r][k]
      /\ got'[r][Len(got[r]) + 1] = i
      /\ \A q \in Responders, j \in Nat :
           Has(q, j)' <=> Has(q, j) \/ (q = r /\ j = i)
  BY <1>1, <1>5, GotAppended
<1>8. \A k \in 1..Len(got[r]) : got[r][k] # i
  BY <1>2, <1>3, <1>4, <1>6 DEF NoneAhead, Has, n
<1>9. GotOnce'
  BY <1>1, <1>2, <1>4, <1>7, <1>8 DEF GotOnce
<1>10. ASSUME Goes
       PROVE  OneEmission' /\ SameSubscribers' /\ NoneAhead' /\ AllGiven'
  <2>1. /\ n \in 1..Len(stack')
        /\ stack'[n] = Frame("emit", r, i)
        /\ \A k \in 1..(n - 1) : stack'[k] = stack[k]
        /\ \A k \in 1..Len(stack') : stack'[k].at = "emit" => k <= n
    BY <1>10 DEF Gives, EmitReaches, n, i
  <2>2. stack'[n].at = "emit" /\ stack'[n].pos = r /\ stack'[n].msg = i
    BY <2>1 DEF Frame
  <2>3. \A k \in 1..Len(stack') : stack'[k].at = "emit" =>
          /\ k \in 1..n /\ stack[k].at = "emit" /\ stack'[k].msg = stack[k].msg
          /\ k # n => stack'[k] = stack[k]
    BY <1>3, <1>6, <2>1, <2>2
  <2>4. OneEmission'
    BY <1>2, <2>3 DEF OneEmission, n
  <2>5. SameSubscribers'
    <3> SUFFICES ASSUME NEW k \in 1..Len(stack'), stack'[k].at = "emit",
                        NEW q \in Responders, Connected(q)'
                 PROVE  q \in log'[stack'[k].msg].to
                          <=> log'[stack'[k].msg].topic \in wants'[q]
      BY DEF SameSubscribers
    <3> QED
      BY <1>1, <1>2, <2>3 DEF SameSubscribers, n
  <2>6. NoneAhead'
    <3> SUFFICES ASSUME NEW k \in 1..Len(stack'), stack'[k].at = "emit",
                        NEW q \in Responders, q > stack'[k].pos,
                        NEW j, j = stack'[k].msg
                 PROVE  ~Has(q, j)'
      BY DEF NoneAhead, Has
    <3>1. CASE k = n
      <4>1. q > r /\ q > Top.pos /\ j = i
        BY <1>3, <1>4, <1>5, <2>2, <3>1
      <4>2. ~Has(q, i)
        BY <1>2, <1>3, <1>6, <4>1 DEF NoneAhead, n
      <4> QED
        BY <1>5, <1>7, <4>1, <4>2
    <3>2. CASE k # n
      <4>1. /\ k \in 1..n /\ stack[k].at = "emit" /\ stack'[k] = stack[k]
        BY <2>3, <3>2
      <4>2. stack[k].msg # i
        BY <1>2, <1>3, <1>6, <3>2, <4>1 DEF OneEmission, n
      <4>3. ~Has(q, j)
        BY <1>2, <4>1 DEF NoneAhead, n
      <4>4. j \in Nat
        BY <4>1, EmitMessages DEF n
      <4> QED
        BY <1>7, <4>1, <4>2, <4>3, <4>4
    <3> QED
      BY <3>1, <3>2
  <2>7. AllGiven'
    <3> SUFFICES ASSUME NEW j \in 1..Len(log'), NEW q \in Responders,
                        q \in log'[j].to, Connected(q)', ~log'[j].cut
                 PROVE  \/ Has(q, j)'
                        \/ \E k \in 1..Len(stack') :
                             stack'[k].at = "emit" /\ stack'[k].msg = j /\ stack'[k].pos < q
      BY DEF AllGiven
    <3>1. j \in 1..Len(log) /\ j \in Nat /\ Connected(q)
      BY <1>1
    <3>2. CASE Has(q, j)
      BY <1>7, <3>1, <3>2
    <3>3. ASSUME NEW k \in 1..Len(stack),
                 stack[k].at = "emit", stack[k].msg = j, stack[k].pos < q
          PROVE  \/ Has(q, j)'
                 \/ \E x \in 1..Len(stack') :
                      stack'[x].at = "emit" /\ stack'[x].msg = j /\ stack'[x].pos < q
      <4>1. CASE k # n
        <5>1. k \in 1..(n - 1) /\ k \in 1..Len(stack')
          BY <1>3, <2>1, <4>1 DEF n
        <5>2. stack'[k] = stack[k]
          BY <2>1, <5>1
        <5> QED
          BY <3>3, <5>1, <5>2
      <4>2. CASE k = n
        <5>1. j = i /\ q > Top.pos
          BY <1>3, <1>5, <1>6, <3>3, <4>2
        <5>2. r <= q
          BY <1>1, <1>4, <3>1, <5>1
        <5>3. CASE q = r
          BY <1>5, <1>7, <5>1, <5>3
        <5>4. CASE q # r
          <6>1. r < q
            BY <1>5, <5>2, <5>4
          <6> QED
            BY <2>1, <2>2, <5>1, <6>1
        <5> QED
          BY <5>3, <5>4
      <4> QED
        BY <4>1, <4>2
    <3>4. Has(q, j) \/ \E k \in 1..Len(stack) :
            stack[k].at = "emit" /\ stack[k].msg = j /\ stack[k].pos < q
      BY <1>1, <1>2, <3>1 DEF AllGiven
    <3> QED
      BY <3>2, <3>3, <3>4
  <2> QED
    BY <2>4, <2>5, <2>6, <2>7
<1> QED
  BY <1>9, <1>10 DEF EmitInv, Goes

LEMMA EmitLast ==
  ASSUME TypeInv, TypeInv', EmitInv, outcome = "ok", Ends,
         \A q \in Responders : Connected(q)' => Connected(q)
  PROVE  EmitInv'
<1> DEFINE n == Len(stack)
           i == Top.msg
<1>1. /\ stack # <<>> /\ Top.at = "emit" /\ \A r \in Responders : ~IsNext(r)
      /\ UNCHANGED <<log, got, wants>>
  BY DEF Ends
<1>2. GotOnce /\ OneEmission /\ SameSubscribers /\ NoneAhead /\ AllGiven
  BY DEF EmitInv
<1>3. /\ n \in Nat /\ n \in 1..n /\ Top = stack[n]
      /\ Due = {q \in Responders : Connected(q) /\ q \in log[i].to /\ q > Top.pos}
  BY <1>1, <1>2, LastEmission
<1>4. Due = {}
  <2> SUFFICES ASSUME Due # {}
               PROVE  FALSE
    OBVIOUS
  <2>1. Due \in SUBSET Nat
    BY <1>3, DispatchAssumption
  <2>2. PICK x \in Due : \A y \in Due : x <= y
    BY <2>1, LeastNatural
  <2>3. x \in Responders /\ IsNext(x)
    BY <1>3, <2>2 DEF IsNext
  <2> QED
    BY <1>1, <2>3
<1>5. stack[n].msg = i /\ stack[n].pos = Top.pos /\ Top.pos \in Nat
      /\ Responders \subseteq Nat
  BY <1>1, <1>3, LastEmission, DispatchAssumption
<1>6. \A q \in Responders : ~(Connected(q) /\ q \in log[i].to /\ stack[n].pos < q)
  BY <1>3, <1>4, <1>5
<1> HIDE DEF n, i
<1>7. GotOnce'
  BY <1>1, <1>2 DEF GotOnce
<1>8. ASSUME Goes
      PROVE  OneEmission' /\ SameSubscribers' /\ NoneAhead' /\ AllGiven'
  <2>1. /\ n - 1 <= Len(stack')
        /\ \A k \in 1..(n - 1) : stack'[k] = stack[k]
        /\ \A k \in 1..Len(stack') : stack'[k].at = "emit" => k < n
    BY <1>8 DEF Ends, EmitThrough, n
  <2>2. \A k \in 1..Len(stack') : stack'[k].at = "emit" =>
          k \in 1..n /\ stack'[k] = stack[k]
    BY <1>3, <2>1
  <2>3. OneEmission'
    BY <1>2, <2>2 DEF OneEmission, n
  <2>4. SameSubscribers'
    BY <1>1, <1>2, <2>2 DEF SameSubscribers, n
  <2>5. NoneAhead'
    <3> SUFFICES ASSUME NEW k \in 1..Len(stack'), stack'[k].at = "emit",
                        NEW q \in Responders, q > stack'[k].pos,
                        NEW l \in 1..Len(got'[q])
                 PROVE  got'[q][l] # stack'[k].msg
      BY DEF NoneAhead, Has
    <3> QED
      BY <1>1, <1>2, <2>2 DEF NoneAhead, Has, n
  <2>6. AllGiven'
    <3> SUFFICES ASSUME NEW j \in 1..Len(log'), NEW q \in Responders,
                        q \in log'[j].to, Connected(q)', ~log'[j].cut
                 PROVE  \/ Has(q, j)'
                        \/ \E k \in 1..Len(stack') :
                             stack'[k].at = "emit" /\ stack'[k].msg = j /\ stack'[k].pos < q
      BY DEF AllGiven
    <3>1. j \in 1..Len(log) /\ Connected(q) /\ q \in log[j].to
      BY <1>1
    <3>2. Has(q, j) => Has(q, j)'
      BY <1>1 DEF Has
    <3>3. ASSUME NEW k \in 1..Len(stack),
                 stack[k].at = "emit", stack[k].msg = j, stack[k].pos < q
          PROVE  k \in 1..Len(stack') /\ stack'[k] = stack[k]
      <4>1. k # n
        BY <1>5, <1>6, <3>1, <3>3
      <4>2. Len(stack') \in Nat
        BY DEF TypeInv, StackOK
      <4> QED
        BY <1>3, <2>1, <4>1, <4>2 DEF n
    <3>4. Has(q, j) \/ \E k \in 1..Len(stack) :
            stack[k].at = "emit" /\ stack[k].msg = j /\ stack[k].pos < q
      BY <1>1, <1>2, <3>1 DEF AllGiven
    <3> QED
      BY <3>2, <3>3, <3>4
  <2> QED
    BY <2>3, <2>4, <2>5, <2>6
<1> QED
  BY <1>7, <1>8 DEF EmitInv, Goes

LEMMA EmitCuts ==
  ASSUME TypeInv, EmitInv, outcome = "ok", Cuts,
         \A q \in Responders : Connected(q)' => Connected(q)
  PROVE  EmitInv'
<1>1. /\ log' = [j \in DOMAIN log |->
                  IF j \in InProgress THEN [log[j] EXCEPT !.cut = TRUE] ELSE log[j]]
      /\ UNCHANGED got
  BY DEF Cuts
<1>2. DOMAIN log = 1..Len(log) /\ \A j \in 1..Len(log) : log[j] \in Entry
  BY DEF TypeInv, DataOK
<1>3. \A j \in 1..Len(log) : /\ log'[j].to = log[j].to
                             /\ ~log'[j].cut => ~log[j].cut /\ j \notin InProgress
  BY <1>1, <1>2 DEF Entry
<1>4. DOMAIN log' = 1..Len(log)
  BY <1>1, <1>2
<1>5. log' \in Seq(Entry)
  <2>1. \A j \in 1..Len(log) : log'[j] \in Entry
    BY <1>1, <1>2 DEF Entry
  <2> QED
    BY <1>1, <1>2, <2>1 DEF TypeInv, DataOK
<1>6. Len(log') = Len(log)
  BY <1>4, <1>5 DEF TypeInv, DataOK
<1>7. GotOnce'
  <2>1. \A q \in Responders : \A k \in 1..Len(got[q]) : got[q][k] \in 1..Len(log)
    BY EmitMessages
  <2> QED
    BY <1>1, <1>3, <2>1 DEF EmitInv, GotOnce
<1>8. ASSUME Goes
      PROVE  OneEmission' /\ SameSubscribers' /\ NoneAhead' /\ AllGiven'
  <2>1. \A k \in 1..Len(stack') : stack'[k].at # "emit"
    BY <1>8 DEF Cuts
  <2>2. OneEmission' /\ SameSubscribers' /\ NoneAhead'
    BY <2>1 DEF OneEmission, SameSubscribers, NoneAhead
  <2>3. AllGiven'
    <3> SUFFICES ASSUME NEW j \in 1..Len(log'), NEW q \in Responders,
                        q \in log'[j].to, Connected(q)', ~log'[j].cut
                 PROVE  Has(q, j)'
      BY DEF AllGiven
    <3>1. /\ j \in 1..Len(log) /\ Connected(q) /\ q \in log[j].to /\ ~log[j].cut
          /\ j \notin InProgress
      BY <1>3, <1>6
    <3>2. Has(q, j) \/ \E k \in 1..Len(stack) : stack[k].msg = j
      BY <3>1 DEF EmitInv, AllGiven
    <3>3. DOMAIN stack = 1..Len(stack) /\ j # 0
      BY <3>1 DEF TypeInv, StackOK
    <3>4. \A k \in 1..Len(stack) : stack[k].msg # j
      BY <3>1, <3>3 DEF InProgress
    <3>5. Has(q, j)
      BY <3>2, <3>4
    <3> QED
      BY <1>1, <3>5 DEF Has
  <2> QED
    BY <2>2, <2>3
<1> QED
  BY <1>7, <1>8 DEF EmitInv, Goes

LEMMA EmitStep == TypeInv /\ TypeInv' /\ CloseInv /\ EmitInv /\ [Next]_vars => EmitInv'
<1> SUFFICES ASSUME TypeInv, TypeInv', CloseInv, EmitInv, [Next]_vars
             PROVE  EmitInv'
  OBVIOUS
<1>1. CASE outcome # "ok"
  <2>1. UNCHANGED vars
    BY <1>1, EndedStays
  <2>2. GotOnce' /\ outcome' # "ok"
    BY <1>1, <2>1 DEF vars, historyVars, EmitInv, GotOnce
  <2> QED
    BY <2>2 DEF EmitInv
<1>2. CASE outcome = "ok"
  <2>1. \A r \in Responders : Connected(r)' => Connected(r)
    BY DeletedStays
  <2> QED
    BY <1>2, <2>1, StepKinds, EmitQuiet, EmitSends, EmitSendsTo, EmitGives, EmitLast, EmitCuts
<1> QED
  BY <1>1, <1>2

LEMMA EmitInvariant == Spec => []EmitInv
<1>1. Init => EmitInv
  <2> SUFFICES ASSUME Init
               PROVE  EmitInv
    OBVIOUS
  <2>1. Len(stack) = 0 /\ Len(log) = 0 /\ \A r \in Responders : Len(got[r]) = 0
    BY DEF Init
  <2> QED
    BY <2>1 DEF EmitInv, GotOnce, OneEmission, SameSubscribers, NoneAhead, AllGiven
<1> QED
  BY <1>1, EmitStep, TypeInvariant, CloseInvariant, PTL DEF Spec

(* However dispatches nest, whoever is deleted in between and wherever an  *)
(* exception cuts them, nobody is given a message twice or one that is not *)
(* for it, and those still open have all theirs.                           *)
THEOREM GivenExactlyOnce == Spec => []ExactlyOnce
<1>1. TypeInv /\ EmitInv => ExactlyOnce
  <2> SUFFICES ASSUME TypeInv, EmitInv, NEW r \in Responders, NEW i \in DOMAIN log
               PROVE  /\ Times(r, i) <= IF r \in log[i].to THEN 1 ELSE 0
                      /\ (stack = <<>> /\ outcome = "ok" /\ alive[r] = "open"
                           /\ r \in log[i].to /\ ~log[i].cut) => Times(r, i) = 1
    BY DEF ExactlyOnce
  <2> DEFINE K == {k \in DOMAIN got[r] : got[r][k] = i}
  <2>1. Times(r, i) = Cardinality(K)
    BY DEF Times
  <2>2. DOMAIN got[r] = 1..Len(got[r]) /\ DOMAIN log = 1..Len(log)
    BY DEF TypeInv, DataOK
  <2>3. CASE K = {}
    <3>1. Times(r, i) = 0
      BY <2>1, <2>3, FS_EmptySet
    <3>2. ~Has(r, i)
      BY <2>2, <2>3 DEF Has
    <3>3. (stack = <<>> /\ outcome = "ok" /\ alive[r] = "open"
            /\ r \in log[i].to /\ ~log[i].cut) => FALSE
      <4> SUFFICES ASSUME stack = <<>>, outcome = "ok", alive[r] = "open",
                          r \in log[i].to, ~log[i].cut
                   PROVE  FALSE
        OBVIOUS
      <4>1. AllGiven /\ Connected(r) /\ Len(stack) = 0
        BY DEF EmitInv, Connected
      <4> QED
        BY <2>2, <3>2, <4>1 DEF AllGiven
    <3> QED
      BY <3>1, <3>3
  <2>4. CASE K # {}
    <3>1. PICK k \in K : TRUE
      BY <2>4
    <3>2. K = {k}
      BY <2>2, <3>1 DEF EmitInv, GotOnce
    <3>3. Times(r, i) = 1
      <4> HIDE DEF K
      <4> QED
        BY <2>1, <3>2, FS_Singleton
    <3>4. r \in log[i].to
      BY <2>2, <3>1 DEF EmitInv, GotOnce
    <3> QED
      BY <3>3, <3>4
  <2> QED
    BY <2>3, <2>4
<1> QED
  BY <1>1, TypeInvariant, EmitInvariant, PTL

-----------------------------------------------------------------------------
(* What callbacks get.                                                     *)

(* What is said of a message when it is sent stays so.                     *)
SameMessage(i) ==
  /\ log'[i].topic = log[i].topic
  /\ log'[i].type = log[i].type
  /\ log'[i].to = log[i].to
  /\ log'[i].during = log[i].during
  /\ log'[i].direct = log[i].direct
  /\ log[i].cut => log'[i].cut

LEMMA MessagesStay ==
  ASSUME TypeInv, [Next]_vars
  PROVE  /\ Len(log) \in Nat /\ Len(log') \in Nat /\ Len(log) <= Len(log')
         /\ \A i \in 1..Len(log) : SameMessage(i)
<1>1. DataOK /\ StackOK /\ Len(log) \in Nat
  BY DEF TypeInv, DataOK
<1>2. ASSUME UNCHANGED log
      PROVE  /\ Len(log') \in Nat /\ Len(log) <= Len(log')
             /\ \A i \in 1..Len(log) : SameMessage(i)
  BY <1>1, <1>2 DEF SameMessage
<1>3. ASSUME NEW e \in Entry, log' = Append(log, e)
      PROVE  /\ Len(log') \in Nat /\ Len(log) <= Len(log')
             /\ \A i \in 1..Len(log) : SameMessage(i)
  BY <1>1, <1>3, LogGrows DEF SameMessage
<1>4. CASE Sends
  <2>1. PICK topic \in Topics, type \in MessageTypes :
          log' = Append(log, NewEntry(Subscribers(topic), topic, type, FALSE))
    BY <1>4 DEF Sends
  <2>2. NewEntry(Subscribers(topic), topic, type, FALSE) \in Entry
    BY <1>1, NewEntryType DEF Subscribers
  <2> QED
    BY <1>1, <1>3, <2>1, <2>2
<1>5. ASSUME NEW r \in Responders, SendsTo(r)
      PROVE  /\ Len(log') \in Nat /\ Len(log) <= Len(log')
             /\ \A i \in 1..Len(log) : SameMessage(i)
  <2>1. NewEntry({r}, Answer, "Data", TRUE) \in Entry
    BY <1>1, NewEntryType, DispatchAssumption DEF MessageTypes
  <2> QED
    BY <1>3, <1>5, <2>1 DEF SendsTo, SendDirectly
<1>6. CASE Cuts
  <2>1. log' = [j \in DOMAIN log |->
                  IF j \in InProgress THEN [log[j] EXCEPT !.cut = TRUE] ELSE log[j]]
    BY <1>6 DEF Cuts
  <2>2. DOMAIN log = 1..Len(log) /\ \A j \in 1..Len(log) : log[j] \in Entry
    BY <1>1 DEF DataOK
  <2>3. \A i \in 1..Len(log) : SameMessage(i)
    BY <2>1, <2>2 DEF Entry, SameMessage
  <2>4. \A j \in 1..Len(log) : log'[j] \in Entry
    BY <2>1, <2>2 DEF Entry
  <2>5. log' \in Seq(Entry) /\ Len(log') = Len(log)
    BY <1>1, <2>1, <2>2, <2>4
  <2> QED
    BY <1>1, <2>3, <2>5
<1> QED
  BY <1>1, <1>2, <1>4, <1>5, <1>6, StepKinds DEF IsQuiet, Gives, Ends

InDispatch(f) == f.at \in {"emit", "callbacks"}

(* The dispatch that a frame is part of has not come to callback n.        *)
Unreached(f, n) == f.at = "emit" \/ f.pos <= n

HasRun(n, i) == \E l \in 1..Len(ran) : ran[l] = <<n, i>>

Wanted(n, i) ==
  /\ ~log[i].direct
  /\ log[i].type = "Data"
  /\ log[i].topic \in callbacks[n].topics
  /\ callbacks[n].kind # "mismatched"
  /\ i \notin callbacks[n].missed

(* No callback runs twice for a message, or for one that is not for it.    *)
RanOnce == \A k, l \in 1..Len(ran) : ran[k] = ran[l] => k = l

RanWanted ==
  \A n \in 1..Len(callbacks), i \in 1..Len(log) : HasRun(n, i) => Wanted(n, i)

MissedSent == \A n \in 1..Len(callbacks) : callbacks[n].missed \subseteq 1..Len(log)

(* A message is dispatched once.                                           *)
OneDispatch ==
  \A j, k \in 1..Len(stack) :
    InDispatch(stack[j]) /\ InDispatch(stack[k]) /\ stack[j].msg = stack[k].msg => j = k

(* The callbacks a dispatch has not come to have not run for its message.  *)
Ahead ==
  \A k \in 1..Len(stack) : InDispatch(stack[k]) =>
    /\ ~log[stack[k].msg].direct
    /\ stack[k].at = "callbacks" => log[stack[k].msg].type = "Data"
    /\ \A n \in 1..Len(callbacks) :
         /\ stack[k].msg \notin callbacks[n].missed
         /\ Unreached(stack[k], n) =>
              \A l \in 1..Len(ran) : ran[l] # <<n, stack[k].msg>>

(* The other calls about a message are made by its emission.               *)
Outside(f, L) == f.msg # 0 /\ ~L[f.msg].direct /\ ~InDispatch(f)

Within ==
  \A k \in 1..Len(stack) : Outside(stack[k], log) =>
    \E j \in 1..(k - 1) : stack[j].at = "emit" /\ stack[j].msg = stack[k].msg

(* The callbacks a dispatch has come to have run.                          *)
AllRun ==
  \A n \in 1..Len(callbacks), i \in 1..Len(log) :
    Wanted(n, i) /\ ~log[i].cut =>
      \/ HasRun(n, i)
      \/ \E k \in 1..Len(stack) :
           InDispatch(stack[k]) /\ stack[k].msg = i /\ Unreached(stack[k], n)

CallInv ==
  /\ RanOnce /\ RanWanted /\ MissedSent
  /\ outcome = "ok" => OneDispatch /\ Ahead /\ Within /\ AllRun

LEMMA StillOutside ==
  ASSUME TypeInv, [Next]_vars, NEW k \in 1..Len(stack), Outside(stack[k], log')
  PROVE  Outside(stack[k], log)
<1>1. stack[k].msg \in 0..Len(log)
  BY DEF TypeInv, StackOK, Fits
<1> QED
  BY <1>1, MessagesStay DEF Outside, SameMessage

(* The frames that a call on top may go on with or make.                   *)
LEMMA WithinReturns ==
  ASSUME TypeInv, [Next]_vars, Within, stack # <<>>, Returns
  PROVE  Within'
<1>1. Len(stack) \in Nat /\ Len(stack) > 0
  BY TopFrame DEF TypeInv
<1> SUFFICES ASSUME NEW k \in 1..Len(stack'), Outside(stack'[k], log')
             PROVE  \E j \in 1..(k - 1) :
                      stack'[j].at = "emit" /\ stack'[j].msg = stack'[k].msg
  BY DEF Within
<1>2. k \in 1..Len(stack) /\ Outside(stack[k], log) /\ stack'[k] = stack[k]
  BY <1>1, StillOutside DEF Returns
<1>3. PICK j \in 1..(k - 1) : stack[j].at = "emit" /\ stack[j].msg = stack[k].msg
  BY <1>2 DEF Within
<1> QED
  BY <1>1, <1>2, <1>3 DEF Returns

LEMMA WithinGoesOn ==
  ASSUME TypeInv, [Next]_vars, Within, stack # <<>>, NEW f, GoesOn(f),
         Outside(f, log') => Outside(Top, log') /\ f.msg = Top.msg
  PROVE  Within'
<1>1. /\ Len(stack) \in Nat /\ Len(stack) > 0 /\ Len(stack) \in 1..Len(stack)
      /\ Top = stack[Len(stack)]
  BY TopFrame DEF TypeInv
<1> SUFFICES ASSUME NEW k \in 1..Len(stack'), Outside(stack'[k], log')
             PROVE  \E j \in 1..(k - 1) :
                      stack'[j].at = "emit" /\ stack'[j].msg = stack'[k].msg
  BY DEF Within
<1>2. k \in 1..Len(stack) /\ Outside(stack[k], log) /\ stack'[k].msg = stack[k].msg
  BY <1>1, StillOutside DEF GoesOn
<1>3. PICK j \in 1..(k - 1) : stack[j].at = "emit" /\ stack[j].msg = stack[k].msg
  BY <1>2 DEF Within
<1> QED
  BY <1>1, <1>2, <1>3 DEF GoesOn

LEMMA WithinCalls ==
  ASSUME TypeInv, [Next]_vars, Within, stack # <<>>, NEW f, NEW g, CallsFrom(f, g),
         Outside(f, log') => Outside(Top, log') /\ f.msg = Top.msg,
         Outside(g, log') => f.at = "emit" /\ g.msg = f.msg
  PROVE  Within'
<1>1. /\ Len(stack) \in Nat /\ Len(stack) > 0 /\ Len(stack) \in 1..Len(stack)
      /\ Top = stack[Len(stack)]
  BY TopFrame DEF TypeInv
<1> SUFFICES ASSUME NEW k \in 1..Len(stack'), Outside(stack'[k], log')
             PROVE  \E j \in 1..(k - 1) :
                      stack'[j].at = "emit" /\ stack'[j].msg = stack'[k].msg
  BY DEF Within
<1>2. CASE k = Len(stack) + 1
  BY <1>1, <1>2 DEF CallsFrom
<1>3. CASE k # Len(stack) + 1
  <2>1. k \in 1..Len(stack) /\ Outside(stack[k], log) /\ stack'[k].msg = stack[k].msg
    BY <1>1, <1>3, StillOutside DEF CallsFrom
  <2>2. PICK j \in 1..(k - 1) : stack[j].at = "emit" /\ stack[j].msg = stack[k].msg
    BY <2>1 DEF Within
  <2> QED
    BY <1>1, <2>1, <2>2 DEF CallsFrom
<1> QED
  BY <1>2, <1>3

LEMMA WithinStep ==
  ASSUME TypeInv, [Next]_vars, Within, outcome = "ok", outcome' = "ok"
  PROVE  Within'
<1>1. StackOK /\ Len(log) \in Nat /\ NewId = Len(log) + 1 /\ NewId # 0
  BY DEF TypeInv, DataOK, NewId
<1> USE DEF Fails, Enters, At
<1>2. ASSUME \A k \in 1..Len(stack') : ~Outside(stack'[k], log')
      PROVE  Within'
  BY <1>2 DEF Within
<1>3. ASSUME UNCHANGED <<stack, log>>
      PROVE  Within'
  BY <1>3 DEF Within
<1>4. ASSUME stack # <<>>, Top.at \notin {"emit", "callbacks"}, NEW at,
             GoesOn(Frame(at, Top.pos, Top.msg))
      PROVE  Within'
  <2> DEFINE f == Frame(at, Top.pos, Top.msg)
  <2>1. f.msg = Top.msg /\ (Outside(f, log') => Outside(Top, log'))
    BY <1>4 DEF Frame, Outside, InDispatch
  <2> HIDE DEF f
  <2>2. GoesOn(f)
    BY <1>4 DEF f
  <2> QED
    BY <1>4, <2>1, <2>2, WithinGoesOn
<1>5. ASSUME NEW r, SendDirectly(r), TypeInv'
      PROVE  log'[NewId].direct
  <2>1. NewEntry({r}, Answer, "Data", TRUE).direct
    BY DEF NewEntry
  <2> DEFINE e == NewEntry({r}, Answer, "Data", TRUE)
  <2> HIDE DEF e
  <2>2. log' = Append(log, e) /\ e.direct
    BY <1>5, <2>1 DEF SendDirectly, e
  <2>3. log'[Len(log) + 1] = e
    BY <1>1, <2>2 DEF TypeInv, DataOK
  <2> QED
    BY <1>1, <2>2, <2>3
<1>6. TypeInv'
  BY StepTypes
<1>7. ASSUME NEW r \in Responders, EmitTo(r)
      PROVE  Within'
  <2> DEFINE f == Frame("emit", r, Top.msg)
             g == Frame("full", r, Top.msg)
  <2>1. stack # <<>> /\ CallsFrom(f, g)
    BY <1>7, EmitToShape
  <2>2. f.at = "emit" /\ ~Outside(f, log') /\ g.msg = f.msg
    BY DEF Frame, Outside, InDispatch
  <2> HIDE DEF f, g
  <2> QED
    BY <2>1, <2>2, WithinCalls
<1>8. ASSUME EmitEnds
      PROVE  Within'
  <2> DEFINE f == Frame("callbacks", 1, Top.msg)
  <2>1. stack # <<>> /\ (GoesOn(f) \/ Returns)
    BY <1>8, EmitEndsShape
  <2>2. ~Outside(f, log')
    BY DEF Frame, Outside, InDispatch
  <2> HIDE DEF f
  <2> QED
    BY <2>1, <2>2, WithinGoesOn, WithinReturns
<1>9. ASSUME CallbacksEnd
      PROVE  Within'
  BY <1>9, CallbacksEndShape, WithinReturns
<1>10. ~Outside(NextCallback, log') /\ ~Outside(Frame("emit", 0, NewId), log')
  BY DEF NextCallback, Frame, Outside, InDispatch
<1>11. ASSUME SkipCallback \/ CallbackCounts \/ CallbackRegisters
       PROVE  Within'
  BY <1>10, <1>11, NextCallbackShape, WithinGoesOn
<1>12. ASSUME CallbackAnswers
       PROVE  Within'
  <2> DEFINE g == Frame("emit", 0, NewId)
  <2>1. stack # <<>> /\ CallsFrom(NextCallback, g)
    BY <1>12, CallbackAnswersShape
  <2>2. ~Outside(g, log')
    BY <1>10
  <2> HIDE DEF g
  <2> QED
    BY <1>10, <2>1, <2>2, WithinCalls
<1>13. ASSUME OutputFull
       PROVE  Within'
  <2> DEFINE f == Frame("stillFull", Top.pos, Top.msg)
             g == Frame("full", Top.pos, NewId)
  <2>1. /\ Top.at = "full" /\ stack # <<>>
        /\ \/ SendDirectly(Top.pos) /\ CallsFrom(f, g)
           \/ GoesOn(f)
    BY <1>13, OutputFullShape
  <2>2. f.msg = Top.msg /\ (Outside(f, log') => Outside(Top, log'))
    BY <2>1 DEF Frame, Outside, InDispatch
  <2>3. SendDirectly(Top.pos) => ~Outside(g, log')
    BY <1>5, <1>6 DEF Frame, Outside
  <2> HIDE DEF f, g
  <2>4. CASE SendDirectly(Top.pos) /\ CallsFrom(f, g)
    BY <2>1, <2>2, <2>3, <2>4, WithinCalls
  <2>5. CASE GoesOn(f)
    BY <2>1, <2>2, <2>5, WithinGoesOn
  <2> QED
    BY <2>1, <2>4, <2>5
<1>14. ASSUME StillFull
       PROVE  Within'
  BY <1>4, <1>14, StillFullShape, WithinReturns
<1>15. ASSUME CloseClient
       PROVE  Within'
  <2> DEFINE f == Frame("delete", Top.pos, Top.msg)
             g == Frame("emit", 0, NewId)
  <2>1. /\ Top.at = "close" /\ stack # <<>>
        /\ CallsFrom(f, g) \/ GoesOn(f)
    BY <1>15, CloseClientShape
  <2>2. /\ f.msg = Top.msg /\ (Outside(f, log') => Outside(Top, log'))
        /\ ~Outside(g, log')
    BY <1>10, <2>1 DEF Frame, Outside, InDispatch
  <2> HIDE DEF f, g
  <2>4. CASE CallsFrom(f, g)
    BY <2>1, <2>2, <2>4, WithinCalls
  <2>5. CASE GoesOn(f)
    BY <2>1, <2>2, <2>5, WithinGoesOn
  <2> QED
    BY <2>1, <2>4, <2>5
<1>16. ASSUME DeleteThis
       PROVE  Within'
  BY <1>16, DeleteThisShape, WithinReturns
<1>17. ASSUME Recover
       PROVE  Within'
  <2> DEFINE f == Frame("full", Top.pos, NewId)
  <2>1. stack # <<>> /\ SendDirectly(Top.pos) /\ GoesOn(f)
    BY <1>17, RecoverShape
  <2>2. ~Outside(f, log')
    BY <1>5, <1>6, <2>1 DEF Frame, Outside
  <2> HIDE DEF f
  <2> QED
    BY <2>1, <2>2, WithinGoesOn
<1>18. ASSUME EndInput \/ EndEvent
       PROVE  Within'
  BY <1>18, EndShape, WithinReturns
<1>19. ASSUME NEW r, stack' = <<Frame("close", r, 0)>>
       PROVE  Within'
  <2> DEFINE f == Frame("close", r, 0)
  <2>1. ~Outside(f, log')
    BY DEF Frame, Outside
  <2> HIDE DEF f
  <2>2. stack' = <<f>>
    BY <1>19 DEF f
  <2> QED
    BY <1>2, <2>1, <2>2
<1>20. ASSUME CallbackThrows
       PROVE  Within'
  <2>1. stack' = <<>> \/ stack' = <<Frame("close", stack[1].pos, 0)>>
    BY <1>20, ThrowsShape
  <2> QED
    BY <1>2, <1>19, <2>1
<1>21. ASSUME NEW r \in Responders, PeerGone(r)
       PROVE  Within'
  <2>1. \A k \in 1..Len(stack') : stack'[k].msg = 0
    BY <1>21, GoneFields
  <2> QED
    BY <1>2, <2>1 DEF Outside
<1>22. ASSUME NEW r \in Responders, NEW topic \in Topics, Subscribe(r, topic)
       PROVE  Within'
  <2> DEFINE f == Root("input", r)
             s == [i \in 1..Stored |-> Frame("recover", r, 0)]
  <2>1. stack' = <<f>> \/ stack' = <<f>> \o s
    BY <1>22 DEF Subscribe
  <2>2. f.msg = 0 /\ \A i \in 1..Stored : s[i].msg = 0
    BY DEF Root, Frame
  <2>3. Len(s) = Stored
    BY DispatchAssumption
  <2> HIDE DEF f, s
  <2>4. \A k \in 1..(1 + Stored) : (<<f>> \o s)[k] = IF k <= 1 THEN f ELSE s[k - 1]
    BY <2>3, DispatchAssumption
  <2>5. \A k \in 1..Len(stack') : stack'[k].msg = 0
    BY <2>1, <2>2, <2>3, <2>4, DispatchAssumption
  <2> QED
    BY <1>2, <2>5 DEF Outside
<1>23. ASSUME NEW at, NEW from, stack' = <<Root(at, from), Frame("emit", 0, NewId)>>
       PROVE  Within'
  <2> DEFINE f == Root(at, from)
             g == Frame("emit", 0, NewId)
  <2>1. f.msg = 0 /\ g.at = "emit"
    BY DEF Root, Frame
  <2> HIDE DEF f, g
  <2>2. stack' = <<f, g>>
    BY <1>23 DEF f, g
  <2>3. \A k \in 1..Len(stack') : ~Outside(stack'[k], log')
    BY <2>1, <2>2 DEF Outside, InDispatch
  <2> QED
    BY <1>2, <2>3
<1>24. ASSUME \/ \E p \in Publications : Publish(p)
              \/ \E topic \in AppTopics : AppSend(topic)
       PROVE  Within'
  BY <1>23, <1>24 DEF Publish, AppSend
<1>25. ASSUME NEW r \in Responders, Written(r)
       PROVE  Within'
  BY <1>3, <1>25 DEF Written, historyVars
<1>26. CASE UNCHANGED vars
  BY <1>3, <1>26 DEF vars, historyVars
<1> QED
  BY <1>7, <1>8, <1>9, <1>11, <1>12, <1>13, <1>14, <1>15, <1>16, <1>17, <1>18, <1>20,
     <1>21, <1>22, <1>24, <1>25, <1>26 DEF Next

(* The steps as the callbacks see them.  The dispatches in progress stay   *)
(* as they are, or one more begins.                                        *)
SameDispatch(f, g) ==
  g.at = f.at /\ g.msg = f.msg /\ (f.at = "callbacks" => g.pos = f.pos)

DispatchesKept ==
  /\ \A k \in 1..Len(stack) : InDispatch(stack[k]) =>
       k \in 1..Len(stack') /\ SameDispatch(stack[k], stack'[k])
  /\ \A k \in 1..Len(stack') : InDispatch(stack'[k]) =>
       k \in 1..Len(stack) /\ SameDispatch(stack[k], stack'[k])

DispatchBegins ==
  \E m \in 1..Len(stack') :
    /\ stack'[m] = Frame("emit", 0, NewId)
    /\ \A k \in 1..Len(stack) :
         InDispatch(stack[k]) => k < m /\ stack'[k] = stack[k]
    /\ \A k \in 1..Len(stack') :
         InDispatch(stack'[k]) /\ k # m => k \in 1..Len(stack) /\ stack'[k] = stack[k]

Aside ==
  /\ UNCHANGED <<callbacks, ran>>
  /\ UNCHANGED log \/ \E r \in Responders : SendDirectly(r)
  /\ Goes => DispatchesKept

Begins ==
  /\ UNCHANGED <<callbacks, ran>>
  /\ \E topic \in Topics, type \in MessageTypes : NewMessage(topic, type)
  /\ Goes => DispatchBegins

(* The dispatch on top has come to its next callback.                      *)
CallsBack ==
  /\ stack # <<>> /\ Top.at = "callbacks" /\ Top.pos <= Len(callbacks)
  /\ \/ UNCHANGED ran /\ (Invoked => callbacks[Top.pos].kind = "mismatched")
     \/ /\ ran' = Append(ran, <<Top.pos, Top.msg>>)
        /\ Invoked /\ callbacks[Top.pos].kind # "mismatched"

Advances ==
  /\ CallsBack
  /\ \/ UNCHANGED <<callbacks, log>> /\ GoesOn(NextCallback)
     \/ /\ callbacks' = Append(callbacks,
             [callbacks[Top.pos] EXCEPT !.kind = "counts",
                                        !.missed = DOMAIN log \ InProgress])
        /\ UNCHANGED log /\ GoesOn(NextCallback)
     \/ /\ UNCHANGED callbacks /\ NewMessage(Answer, "Data")
        /\ Enters(NextCallback, Frame("emit", 0, NewId))

LEMMA DispatchKeptReturning ==
  ASSUME StackOK, stack # <<>>, Returns, ~InDispatch(Top)
  PROVE  DispatchesKept
BY TopFrame DEF Returns, DispatchesKept, SameDispatch, StackOK

LEMMA DispatchKeptGoingOn ==
  ASSUME StackOK, stack # <<>>, NEW f, GoesOn(f), ~InDispatch(Top), ~InDispatch(f)
  PROVE  DispatchesKept
<1>1. Len(stack) \in Nat /\ Len(stack) > 0 /\ Top = stack[Len(stack)]
  BY TopFrame
<1> QED
  BY <1>1 DEF GoesOn, DispatchesKept, SameDispatch

LEMMA DispatchKeptCalling ==
  ASSUME StackOK, stack # <<>>, NEW f, NEW g, CallsFrom(f, g), ~InDispatch(g),
         \/ ~InDispatch(Top) /\ ~InDispatch(f)
         \/ InDispatch(Top) /\ SameDispatch(Top, f)
  PROVE  DispatchesKept
<1>1. /\ Len(stack) \in Nat /\ Len(stack) > 0 /\ Len(stack) \in 1..Len(stack)
      /\ Top = stack[Len(stack)]
  BY TopFrame
<1>2. InDispatch(f) <=> InDispatch(Top)
  BY DEF InDispatch, SameDispatch
<1>3. InDispatch(Top) => SameDispatch(Top, f)
  OBVIOUS
<1>4. \A k \in 1..Len(stack) : InDispatch(stack[k]) =>
        k \in 1..Len(stack') /\ SameDispatch(stack[k], stack'[k])
  BY <1>1, <1>3 DEF CallsFrom, SameDispatch
<1>5. \A k \in 1..Len(stack') : InDispatch(stack'[k]) =>
        k \in 1..Len(stack) /\ SameDispatch(stack[k], stack'[k])
  BY <1>1, <1>2, <1>3 DEF CallsFrom, SameDispatch
<1> QED
  BY <1>4, <1>5 DEF DispatchesKept

LEMMA DispatchBeginsCalling ==
  ASSUME StackOK, stack # <<>>, NEW f, CallsFrom(f, Frame("emit", 0, NewId)),
         ~InDispatch(Top), ~InDispatch(f)
  PROVE  DispatchBegins
<1> DEFINE m == Len(stack) + 1
<1>1. Len(stack) \in Nat /\ Len(stack) > 0 /\ Top = stack[Len(stack)]
  BY TopFrame
<1>2. m \in 1..Len(stack') /\ stack'[m] = Frame("emit", 0, NewId)
  BY <1>1 DEF CallsFrom
<1>3. \A k \in 1..Len(stack) :
        InDispatch(stack[k]) => k < m /\ stack'[k] = stack[k]
  BY <1>1 DEF CallsFrom
<1>4. \A k \in 1..Len(stack') :
        InDispatch(stack'[k]) /\ k # m => k \in 1..Len(stack) /\ stack'[k] = stack[k]
  BY <1>1 DEF CallsFrom
<1> HIDE DEF m
<1> QED
  BY <1>2, <1>3, <1>4 DEF DispatchBegins

LEMMA CallKinds ==
  ASSUME TypeInv, [Next]_vars
  PROVE  \/ Aside
         \/ Begins
         \/ EmitEnds
         \/ CallbacksEnd
         \/ Advances
         \/ CallbackThrows
<1>1. StackOK
  BY DEF TypeInv
<1> USE DEF Fails, Enters, Goes, At
<1>2. ASSUME UNCHANGED <<callbacks, ran, log>>, stack # <<>>, ~InDispatch(Top),
             \/ Fails
             \/ Returns
             \/ \E f : GoesOn(f) /\ ~InDispatch(f)
      PROVE  Aside
  BY <1>1, <1>2, DispatchKeptReturning, DispatchKeptGoingOn DEF Aside
<1>3. ASSUME NEW r \in Responders, EmitTo(r)
      PROVE  Aside
  <2> DEFINE f == Frame("emit", r, Top.msg)
             g == Frame("full", r, Top.msg)
  <2>1. Top.at = "emit" /\ stack # <<>> /\ Enters(f, g)
    BY <1>3, EmitToShape
  <2>2. UNCHANGED <<callbacks, ran, log>>
    BY <1>3 DEF EmitTo
  <2>3. ~InDispatch(g) /\ InDispatch(Top) /\ SameDispatch(Top, f)
    BY <2>1 DEF Frame, InDispatch, SameDispatch
  <2> HIDE DEF f, g
  <2> QED
    BY <1>1, <2>1, <2>2, <2>3, DispatchKeptCalling DEF Aside
<1>4. ASSUME SkipCallback
      PROVE  Advances
  <2>1. /\ Top.at = "callbacks" /\ stack # <<>> /\ GoesOn(NextCallback)
    BY <1>4, NextCallbackShape
  <2> QED
    BY <1>4, <2>1 DEF Advances, CallsBack, SkipCallback, Skip, historyVars
<1>5. ASSUME NEW kind, Run(kind), kind # "mismatched"
      PROVE  CallsBack
  BY <1>5 DEF CallsBack, Run, Invoked
<1>6. ASSUME CallbackCounts \/ CallbackRegisters
      PROVE  Advances
  <2>1. CallsBack
    BY <1>5, <1>6 DEF CallbackCounts, CallbackRegisters
  <2>2. GoesOn(NextCallback)
    BY <1>6, NextCallbackShape
  <2>3. CASE CallbackCounts
    BY <2>1, <2>2, <2>3 DEF Advances, CallbackCounts
  <2>4. CASE CallbackRegisters
    BY <2>1, <2>2, <2>4 DEF Advances, CallbackRegisters
  <2> QED
    BY <1>6, <2>3, <2>4
<1>7. ASSUME CallbackAnswers
      PROVE  Advances
  <2>1. CallsBack
    BY <1>5, <1>7 DEF CallbackAnswers
  <2>2. Enters(NextCallback, Frame("emit", 0, NewId))
    BY <1>7, CallbackAnswersShape
  <2>3. UNCHANGED callbacks /\ NewMessage(Answer, "Data")
    BY <1>7 DEF CallbackAnswers
  <2> QED
    BY <2>1, <2>2, <2>3 DEF Advances
<1>8. "Data" \in MessageTypes /\ {Farewell, Answer} \subseteq Topics
  BY DispatchAssumption DEF MessageTypes
<1>9. ASSUME OutputFull \/ Recover
      PROVE  Top.pos \in Responders
  <2>1. stack # <<>> /\ Top.at \in {"full", "recover"}
    BY <1>9 DEF OutputFull, Recover
  <2> QED
    BY <1>1, <2>1, TopFrame DEF Fits
<1>10. ASSUME OutputFull
       PROVE  Aside
  <2> DEFINE f == Frame("stillFull", Top.pos, Top.msg)
             g == Frame("full", Top.pos, NewId)
  <2>1. /\ Top.at = "full" /\ stack # <<>>
        /\ \/ SendDirectly(Top.pos) /\ AppendTo(Top.pos, NewId) /\ Enters(f, g)
           \/ UNCHANGED <<size, log, got>> /\ GoesOn(f)
    BY <1>10, OutputFullShape
  <2>2. UNCHANGED <<callbacks, ran>>
    BY <1>10 DEF OutputFull
  <2>3. ~InDispatch(f) /\ ~InDispatch(g) /\ ~InDispatch(Top)
    BY <2>1 DEF Frame, InDispatch
  <2> HIDE DEF f, g
  <2>4. CASE SendDirectly(Top.pos) /\ Enters(f, g)
    BY <1>1, <1>9, <1>10, <2>1, <2>2, <2>3, <2>4, DispatchKeptCalling DEF Aside
  <2>5. CASE UNCHANGED log /\ GoesOn(f)
    BY <1>2, <2>1, <2>2, <2>3, <2>5
  <2> QED
    BY <2>1, <2>4, <2>5
<1>11. ASSUME StillFull
       PROVE  Aside
  <2> DEFINE f == Frame("close", Top.pos, Top.msg)
  <2>1. Top.at = "stillFull" /\ stack # <<>> /\ (Fails \/ GoesOn(f) \/ Returns)
    BY <1>11, StillFullShape
  <2>2. UNCHANGED <<callbacks, ran, log>>
    BY <1>11 DEF StillFull, historyVars
  <2>3. ~InDispatch(f) /\ ~InDispatch(Top)
    BY <2>1 DEF Frame, InDispatch
  <2> HIDE DEF f
  <2> QED
    BY <1>2, <2>1, <2>2, <2>3
<1>12. ASSUME CloseClient
       PROVE  Aside \/ Begins
  <2> DEFINE f == Frame("delete", Top.pos, Top.msg)
  <2>1. /\ Top.at = "close" /\ stack # <<>>
        /\ \/ NewMessage(Farewell, "Data") /\ Enters(f, Frame("emit", 0, NewId))
           \/ UNCHANGED log /\ GoesOn(f)
    BY <1>12, CloseClientShape
  <2>2. UNCHANGED <<callbacks, ran>>
    BY <1>12 DEF CloseClient
  <2>3. ~InDispatch(f) /\ ~InDispatch(Top)
    BY <2>1 DEF Frame, InDispatch
  <2> HIDE DEF f
  <2>4. CASE NewMessage(Farewell, "Data") /\ Enters(f, Frame("emit", 0, NewId))
    BY <1>1, <1>8, <2>1, <2>2, <2>3, <2>4, DispatchBeginsCalling DEF Begins
  <2>5. CASE UNCHANGED log /\ GoesOn(f)
    BY <1>2, <2>1, <2>2, <2>3, <2>5
  <2> QED
    BY <2>1, <2>4, <2>5
<1>13. ASSUME DeleteThis
       PROVE  Aside
  <2>1. Top.at = "delete" /\ stack # <<>> /\ (Fails \/ Returns)
    BY <1>13, DeleteThisShape
  <2>2. UNCHANGED <<callbacks, ran, log>> /\ ~InDispatch(Top)
    BY <1>13, <2>1 DEF DeleteThis, historyVars, InDispatch
  <2> QED
    BY <1>2, <2>1, <2>2
<1>14. ASSUME Recover
       PROVE  Aside
  <2> DEFINE f == Frame("full", Top.pos, NewId)
  <2>1. /\ Top.at = "recover" /\ stack # <<>>
        /\ \/ Fails /\ UNCHANGED <<size, log, got>>
           \/ SendDirectly(Top.pos) /\ AppendTo(Top.pos, NewId) /\ GoesOn(f)
    BY <1>14, RecoverShape
  <2>2. UNCHANGED <<callbacks, ran>>
    BY <1>14 DEF Recover
  <2>3. ~InDispatch(f) /\ ~InDispatch(Top)
    BY <2>1 DEF Frame, InDispatch
  <2> HIDE DEF f
  <2>4. CASE Fails /\ UNCHANGED <<size, log, got>>
    BY <1>2, <2>1, <2>2, <2>3, <2>4
  <2>5. CASE SendDirectly(Top.pos) /\ GoesOn(f)
    BY <1>1, <1>9, <1>14, <2>1, <2>2, <2>3, <2>5, DispatchKeptGoingOn DEF Aside
  <2> QED
    BY <2>1, <2>4, <2>5
<1>15. ASSUME EndInput \/ EndEvent
       PROVE  Aside
  <2>1. Top.at \in {"input", "app", "eof"} /\ stack # <<>> /\ (Fails \/ Returns)
    BY <1>15, EndShape
  <2>2. UNCHANGED <<callbacks, ran, log>> /\ ~InDispatch(Top)
    BY <1>15, <2>1 DEF EndInput, EndEvent, historyVars, InDispatch
  <2> QED
    BY <1>2, <2>1, <2>2
<1>16. ASSUME stack = <<>>, UNCHANGED <<callbacks, ran, log>>,
              \A k \in 1..Len(stack') : ~InDispatch(stack'[k])
       PROVE  Aside
  BY <1>16 DEF Aside, DispatchesKept
<1>17. ASSUME NEW r \in Responders, PeerGone(r)
       PROVE  Aside
  <2>1. /\ stack = <<>> /\ UNCHANGED <<callbacks, ran, log>>
    BY <1>17 DEF PeerGone, Event, historyVars
  <2>2. \A k \in 1..Len(stack') : ~InDispatch(stack'[k])
    BY <1>17, GoneFields DEF InDispatch
  <2> QED
    BY <1>16, <2>1, <2>2
<1>18. ASSUME NEW r \in Responders, NEW topic \in Topics, Subscribe(r, topic)
       PROVE  Aside
  <2> DEFINE f == Root("input", r)
             s == [i \in 1..Stored |-> Frame("recover", r, 0)]
  <2>1. stack' = <<f>> \/ stack' = <<f>> \o s
    BY <1>18 DEF Subscribe
  <2>2. ~InDispatch(f) /\ \A i \in 1..Stored : ~InDispatch(s[i])
    BY DEF Root, Frame, InDispatch
  <2>3. Len(s) = Stored
    BY DispatchAssumption
  <2> HIDE DEF f, s
  <2>4. \A k \in 1..(1 + Stored) : (<<f>> \o s)[k] = IF k <= 1 THEN f ELSE s[k - 1]
    BY <2>3, DispatchAssumption
  <2>5. \A k \in 1..Len(stack') : ~InDispatch(stack'[k])
    BY <2>1, <2>2, <2>3, <2>4, DispatchAssumption
  <2> QED
    BY <1>16, <1>18, <2>5 DEF Subscribe, Event, historyVars
<1>19. ASSUME NEW at \in {"input", "app"}, NEW from, stack = <<>>,
              NEW topic \in Topics, NEW type \in MessageTypes, NewMessage(topic, type),
              stack' = <<Root(at, from), Frame("emit", 0, NewId)>>,
              UNCHANGED <<callbacks, ran>>
       PROVE  Begins
  <2> DEFINE f == Root(at, from)
             g == Frame("emit", 0, NewId)
  <2>1. ~InDispatch(f)
    BY DEF Root, InDispatch
  <2> HIDE DEF f, g
  <2>2. Len(stack) = 0
    BY <1>19
  <2>3. stack' = <<f, g>>
    BY <1>19 DEF f, g
  <2>4. Len(stack') = 2 /\ stack'[1] = f /\ stack'[2] = g
    BY <2>3
  <2>5. DispatchBegins
    BY <2>1, <2>2, <2>4 DEF DispatchBegins, g
  <2> QED
    BY <1>19, <2>5 DEF Begins
<1>20. ASSUME NEW p \in Publications, Publish(p)
       PROVE  Begins
  <2>1. p.topic \in Topics /\ p.type \in MessageTypes
    BY DispatchAssumption
  <2> QED
    BY <1>19, <1>20, <2>1 DEF Publish, Event
<1>21. ASSUME NEW topic \in AppTopics, AppSend(topic)
       PROVE  Begins
  <2>1. topic \in Topics
    BY DispatchAssumption
  <2> QED
    BY <1>8, <1>19, <1>21, <2>1 DEF AppSend, Event
<1>22. ASSUME UNCHANGED <<callbacks, ran, log, stack>>
       PROVE  Aside
  BY <1>22 DEF Aside, DispatchesKept, SameDispatch
<1>23. ASSUME NEW r \in Responders, Written(r)
       PROVE  Aside
  BY <1>22, <1>23 DEF Written, historyVars
<1>24. CASE UNCHANGED vars
  BY <1>22, <1>24 DEF vars, historyVars
<1> QED
  BY <1>3, <1>4, <1>6, <1>7, <1>10, <1>11, <1>12, <1>13, <1>14, <1>15, <1>17, <1>18,
     <1>20, <1>21, <1>23, <1>24 DEF Next

LEMMA CallFacts ==
  ASSUME TypeInv
  PROVE  /\ Len(log) \in Nat /\ Len(callbacks) \in Nat /\ Len(ran) \in Nat
         /\ NewId = Len(log) + 1 /\ NewId \notin 1..Len(log)
         /\ \A n, i : HasRun(n, i) => n \in 1..Len(callbacks) /\ i \in 1..Len(log)
         /\ \A k \in 1..Len(stack) : InDispatch(stack[k]) =>
              /\ stack[k].msg \in 1..Len(log)
              /\ stack[k].pos \in Nat
              /\ stack[k].at = "callbacks" => stack[k].pos \in 1..(Len(callbacks) + 1)
<1>1. DataOK /\ StackOK
  BY DEF TypeInv
<1>2. Len(log) \in Nat /\ Len(callbacks) \in Nat /\ Len(ran) \in Nat
  BY <1>1 DEF DataOK
<1>3. NewId = Len(log) + 1 /\ NewId \notin 1..Len(log)
  BY <1>2 DEF NewId
<1>4. ASSUME NEW n, NEW i, HasRun(n, i)
      PROVE  n \in 1..Len(callbacks) /\ i \in 1..Len(log)
  <2>1. PICK l \in 1..Len(ran) : ran[l] = <<n, i>>
    BY <1>4 DEF HasRun
  <2>2. ran[l] \in (1..Len(callbacks)) \X (1..Len(log))
    BY <1>1, <2>1, ElementOfSeq DEF DataOK
  <2> QED
    BY <2>1, <2>2
<1>5. ASSUME NEW k \in 1..Len(stack), InDispatch(stack[k])
      PROVE  /\ stack[k].msg \in 1..Len(log)
             /\ stack[k].pos \in Nat
             /\ stack[k].at = "callbacks" => stack[k].pos \in 1..(Len(callbacks) + 1)
  <2>1. Fits(stack[k], Len(log), Len(callbacks)) /\ stack[k] \in AnyFrame
    BY <1>1, <1>5 DEF StackOK, Fits
  <2>2. stack[k].pos \in Nat
    BY <2>1 DEF AnyFrame
  <2> QED
    BY <1>2, <1>5, <2>1, <2>2 DEF Fits, InDispatch
<1> QED
  BY <1>2, <1>3, <1>4, <1>5

LEMMA WantedStays ==
  ASSUME TypeInv, [Next]_vars, NEW n, NEW i \in 1..Len(log),
         callbacks'[n] = callbacks[n]
  PROVE  Wanted(n, i)' <=> Wanted(n, i)
BY MessagesStay DEF Wanted, SameMessage

LEMMA SentDirectly ==
  ASSUME TypeInv, NEW r \in Responders, SendDirectly(r)
  PROVE  Len(log') = Len(log) + 1 /\ log'[NewId].direct
<1> DEFINE e == NewEntry({r}, Answer, "Data", TRUE)
<1>1. e.direct
  BY DEF NewEntry
<1>2. e \in Entry
  BY NewEntryType, DispatchAssumption DEF TypeInv, MessageTypes
<1> HIDE DEF e
<1>3. log' = Append(log, e)
  BY DEF SendDirectly, e
<1> QED
  BY <1>1, <1>2, <1>3, LogGrows DEF TypeInv, NewId

LEMMA SentToAll ==
  ASSUME TypeInv, NEW topic \in Topics, NEW type \in MessageTypes, NewMessage(topic, type)
  PROVE  /\ Len(log') = Len(log) + 1
         /\ ~log'[NewId].direct
         /\ log'[NewId].during = InProgress
<1> DEFINE e == NewEntry(Subscribers(topic), topic, type, FALSE)
<1>1. ~e.direct /\ e.during = InProgress
  BY DEF NewEntry
<1>2. e \in Entry
  BY NewEntryType DEF TypeInv, Subscribers
<1> HIDE DEF e
<1>3. log' = Append(log, e)
  BY DEF NewMessage, e
<1> QED
  BY <1>1, <1>2, <1>3, LogGrows DEF TypeInv, NewId

(* Nothing is run, and what is sent is not in the way of it.               *)
LEMMA RanStaysWanted ==
  ASSUME TypeInv, [Next]_vars, RanOnce, RanWanted, MissedSent,
         UNCHANGED <<callbacks, ran>>
  PROVE  RanOnce' /\ RanWanted' /\ MissedSent'
<1>1. RanOnce'
  BY DEF RanOnce
<1>2. RanWanted'
  <2> SUFFICES ASSUME NEW n \in 1..Len(callbacks'), NEW i \in 1..Len(log'), HasRun(n, i)'
               PROVE  Wanted(n, i)'
    BY DEF RanWanted
  <2>1. HasRun(n, i)
    BY DEF HasRun
  <2>2. n \in 1..Len(callbacks) /\ i \in 1..Len(log)
    BY <2>1, CallFacts
  <2> QED
    BY <2>1, <2>2, WantedStays DEF RanWanted
<1>3. MissedSent'
  BY MessagesStay DEF MissedSent
<1> QED
  BY <1>1, <1>2, <1>3

LEMMA CallAside ==
  ASSUME TypeInv, [Next]_vars, CallInv, outcome = "ok", Aside
  PROVE  CallInv'
<1>1. UNCHANGED <<callbacks, ran>> /\ (UNCHANGED log \/ \E r \in Responders : SendDirectly(r))
  BY DEF Aside
<1>2. RanOnce /\ RanWanted /\ MissedSent /\ OneDispatch /\ Ahead /\ Within /\ AllRun
  BY DEF CallInv
<1>3. RanOnce' /\ RanWanted' /\ MissedSent'
  BY <1>1, <1>2, RanStaysWanted
<1>4. ASSUME Goes
      PROVE  OneDispatch' /\ Ahead' /\ Within' /\ AllRun'
  <2>1. DispatchesKept
    BY <1>4 DEF Aside
  <2>2. Within'
    BY <1>2, <1>4, WithinStep DEF Goes
  <2>3. OneDispatch'
    BY <1>2, <2>1 DEF OneDispatch, DispatchesKept, SameDispatch, InDispatch
  <2>4. Ahead'
    <3> SUFFICES ASSUME NEW k \in 1..Len(stack'), InDispatch(stack'[k])
                 PROVE  /\ ~log'[stack'[k].msg].direct
                        /\ stack'[k].at = "callbacks" => log'[stack'[k].msg].type = "Data"
                        /\ \A n \in 1..Len(callbacks') :
                             /\ stack'[k].msg \notin callbacks'[n].missed
                             /\ Unreached(stack'[k], n) =>
                                  \A l \in 1..Len(ran') : ran'[l] # <<n, stack'[k].msg>>
      BY DEF Ahead
    <3>1. k \in 1..Len(stack) /\ SameDispatch(stack[k], stack'[k]) /\ InDispatch(stack[k])
      BY <2>1 DEF DispatchesKept, SameDispatch, InDispatch
    <3>2. /\ stack'[k].msg = stack[k].msg /\ stack'[k].at = stack[k].at
          /\ \A n : Unreached(stack'[k], n) => Unreached(stack[k], n)
      BY <3>1 DEF SameDispatch, InDispatch, Unreached
    <3>3. SameMessage(stack[k].msg)
      BY <3>1, CallFacts, MessagesStay
    <3> QED
      BY <1>1, <1>2, <3>1, <3>2, <3>3 DEF Ahead, SameMessage
  <2>5. AllRun'
    <3> SUFFICES ASSUME NEW n \in 1..Len(callbacks'), NEW i \in 1..Len(log'),
                        Wanted(n, i)', ~log'[i].cut
                 PROVE  \/ HasRun(n, i)'
                        \/ \E k \in 1..Len(stack') : /\ InDispatch(stack'[k])
                                                     /\ stack'[k].msg = i
                                                     /\ Unreached(stack'[k], n)
      BY DEF AllRun
    <3>1. i \in 1..Len(log)
      <4>1. CASE UNCHANGED log
        BY <4>1
      <4>2. ASSUME NEW r \in Responders, SendDirectly(r)
            PROVE  i \in 1..Len(log)
        BY <4>2, SentDirectly, CallFacts DEF Wanted
      <4> QED
        BY <1>1, <4>1, <4>2
    <3>2. n \in 1..Len(callbacks) /\ Wanted(n, i) /\ ~log[i].cut
      BY <1>1, <3>1, WantedStays, MessagesStay DEF SameMessage
    <3>3. \/ HasRun(n, i)
          \/ \E k \in 1..Len(stack) :
               InDispatch(stack[k]) /\ stack[k].msg = i /\ Unreached(stack[k], n)
      BY <1>2, <3>1, <3>2 DEF AllRun
    <3>4. HasRun(n, i) => HasRun(n, i)'
      BY <1>1 DEF HasRun
    <3>5. ASSUME NEW k \in 1..Len(stack),
                 InDispatch(stack[k]), stack[k].msg = i, Unreached(stack[k], n)
          PROVE  /\ k \in 1..Len(stack') /\ InDispatch(stack'[k])
                 /\ stack'[k].msg = i /\ Unreached(stack'[k], n)
      BY <2>1, <3>5 DEF DispatchesKept, SameDispatch, InDispatch, Unreached
    <3> QED
      BY <3>3, <3>4, <3>5
  <2> QED
    BY <2>2, <2>3, <2>4, <2>5
<1> QED
  BY <1>3, <1>4 DEF CallInv, Goes

LEMMA CallBegins ==
  ASSUME TypeInv, [Next]_vars, CallInv, outcome = "ok", Begins
  PROVE  CallInv'
<1>1. UNCHANGED <<callbacks, ran>>
  BY DEF Begins
<1>2. RanOnce /\ RanWanted /\ MissedSent /\ OneDispatch /\ Ahead /\ Within /\ AllRun
  BY DEF CallInv
<1>3. RanOnce' /\ RanWanted' /\ MissedSent'
  BY <1>1, <1>2, RanStaysWanted
<1>4. Len(log') = Len(log) + 1 /\ ~log'[NewId].direct
  BY SentToAll DEF Begins
<1>5. ASSUME Goes
      PROVE  OneDispatch' /\ Ahead' /\ Within' /\ AllRun'
  <2>1. PICK m \in 1..Len(stack') :
          /\ stack'[m] = Frame("emit", 0, NewId)
          /\ \A k \in 1..Len(stack) :
               InDispatch(stack[k]) => k < m /\ stack'[k] = stack[k]
          /\ \A k \in 1..Len(stack') :
               InDispatch(stack'[k]) /\ k # m => k \in 1..Len(stack) /\ stack'[k] = stack[k]
    BY <1>5 DEF Begins, DispatchBegins
  <2>2. stack'[m].at = "emit" /\ stack'[m].msg = NewId
    BY <2>1 DEF Frame
  <2>3. \A k \in 1..Len(stack') : InDispatch(stack'[k]) /\ k # m =>
          /\ k \in 1..Len(stack) /\ stack'[k] = stack[k] /\ InDispatch(stack[k])
          /\ stack[k].msg \in 1..Len(log)
    BY <2>1, CallFacts
  <2>4. Within'
    BY <1>2, <1>5, WithinStep DEF Goes
  <2>5. OneDispatch'
    <3> SUFFICES ASSUME NEW j \in 1..Len(stack'), NEW k \in 1..Len(stack'),
                        InDispatch(stack'[j]), InDispatch(stack'[k]),
                        stack'[j].msg = stack'[k].msg
                 PROVE  j = k
      BY DEF OneDispatch
    <3>1. CASE j # m /\ k # m
      BY <1>2, <2>3, <3>1 DEF OneDispatch
    <3>2. CASE j = m \/ k = m
      BY <2>2, <2>3, <3>2, CallFacts
    <3> QED
      BY <3>1, <3>2
  <2>6. Ahead'
    <3> SUFFICES ASSUME NEW k \in 1..Len(stack'), InDispatch(stack'[k])
                 PROVE  /\ ~log'[stack'[k].msg].direct
                        /\ stack'[k].at = "callbacks" => log'[stack'[k].msg].type = "Data"
                        /\ \A n \in 1..Len(callbacks') :
                             /\ stack'[k].msg \notin callbacks'[n].missed
                             /\ Unreached(stack'[k], n) =>
                                  \A l \in 1..Len(ran') : ran'[l] # <<n, stack'[k].msg>>
      BY DEF Ahead
    <3>1. CASE k = m
      <4>1. \A n \in 1..Len(callbacks') : NewId \notin callbacks'[n].missed
        BY <1>1, <1>2, CallFacts DEF MissedSent
      <4>2. \A n, l : l \in 1..Len(ran') => ran'[l] # <<n, NewId>>
        BY <1>1, CallFacts DEF HasRun
      <4> QED
        BY <1>4, <2>2, <3>1, <4>1, <4>2
    <3>2. CASE k # m
      <4>1. /\ k \in 1..Len(stack) /\ stack'[k] = stack[k] /\ InDispatch(stack[k])
            /\ SameMessage(stack[k].msg)
        BY <2>3, <3>2, MessagesStay
      <4> QED
        BY <1>1, <1>2, <4>1 DEF Ahead, SameMessage
    <3> QED
      BY <3>1, <3>2
  <2>7. AllRun'
    <3> SUFFICES ASSUME NEW n \in 1..Len(callbacks'), NEW i \in 1..Len(log'),
                        Wanted(n, i)', ~log'[i].cut
                 PROVE  \/ HasRun(n, i)'
                        \/ \E k \in 1..Len(stack') : /\ InDispatch(stack'[k])
                                                     /\ stack'[k].msg = i
                                                     /\ Unreached(stack'[k], n)
      BY DEF AllRun
    <3>1. CASE i = NewId
      BY <2>2, <3>1 DEF InDispatch, Unreached
    <3>2. CASE i # NewId
      <4>1. i \in 1..Len(log)
        BY <1>4, <3>2, CallFacts
      <4>2. n \in 1..Len(callbacks) /\ Wanted(n, i) /\ ~log[i].cut
        BY <1>1, <4>1, WantedStays, MessagesStay DEF SameMessage
      <4>3. \/ HasRun(n, i)
            \/ \E k \in 1..Len(stack) :
                 InDispatch(stack[k]) /\ stack[k].msg = i /\ Unreached(stack[k], n)
        BY <1>2, <4>1, <4>2 DEF AllRun
      <4>4. HasRun(n, i) => HasRun(n, i)'
        BY <1>1 DEF HasRun
      <4>5. ASSUME NEW k \in 1..Len(stack), InDispatch(stack[k])
            PROVE  k \in 1..Len(stack') /\ stack'[k] = stack[k]
        <5>1. k < m /\ stack'[k] = stack[k]
          BY <2>1, <4>5
        <5> QED
          BY <5>1
      <4> QED
        BY <4>3, <4>4, <4>5
    <3> QED
      BY <3>1, <3>2
  <2> QED
    BY <2>4, <2>5, <2>6, <2>7
<1> QED
  BY <1>3, <1>5 DEF CallInv, Goes

(* The dispatch on top.                                                    *)
LEMMA LastDispatch ==
  ASSUME TypeInv, stack # <<>>, InDispatch(Top)
  PROVE  /\ Len(stack) \in Nat /\ Len(stack) > 0 /\ Len(stack) \in 1..Len(stack)
         /\ Top = stack[Len(stack)]
         /\ Top.msg \in 1..Len(log) /\ Top.pos \in Nat
         /\ Top.at = "callbacks" => Top.pos \in 1..(Len(callbacks) + 1)
<1>1. /\ Len(stack) \in Nat /\ Len(stack) > 0 /\ Len(stack) \in 1..Len(stack)
      /\ Top = stack[Len(stack)]
  BY TopFrame DEF TypeInv
<1> QED
  BY <1>1, CallFacts

(* The emission on top gives way to the callbacks, or the dispatch ends.   *)
LEMMA CallEnds ==
  ASSUME TypeInv, [Next]_vars, CallInv, outcome = "ok", EmitEnds \/ CallbacksEnd
  PROVE  CallInv'
<1> DEFINE n == Len(stack)
           i == Top.msg
           f == Frame("callbacks", 1, i)
<1>1. /\ UNCHANGED <<callbacks, ran, log>> /\ stack # <<>> /\ InDispatch(Top)
      /\ \/ Top.at = "callbacks" /\ Top.pos > Len(callbacks) /\ Returns
         \/ Top.at = "emit" /\ log[i].type = "Data" /\ GoesOn(f)
         \/ Top.at = "emit" /\ log[i].type # "Data" /\ Returns
  <2>1. CASE EmitEnds
    BY <2>1, EmitEndsShape DEF EmitEnds, historyVars, At, InDispatch
  <2>2. CASE CallbacksEnd
    BY <2>2, CallbacksEndShape DEF CallbacksEnd, historyVars, At, InDispatch
  <2> QED
    BY <2>1, <2>2
<1>2. RanOnce /\ RanWanted /\ MissedSent /\ OneDispatch /\ Ahead /\ Within /\ AllRun
  BY DEF CallInv
<1>3. RanOnce' /\ RanWanted' /\ MissedSent'
  BY <1>1, <1>2, RanStaysWanted
<1>4. /\ n \in Nat /\ n > 0 /\ n \in 1..n /\ Top = stack[n]
      /\ i \in 1..Len(log) /\ stack[n].msg = i
  BY <1>1, LastDispatch
<1>5. f.at = "callbacks" /\ f.pos = 1 /\ f.msg = i
  BY DEF Frame
<1>6. outcome' = "ok"
  BY <1>1 DEF Returns, GoesOn
<1>7. Within'
  BY <1>2, <1>6, WithinStep
<1> HIDE DEF f, i
<1>8. /\ \A k \in 1..(n - 1) : k \in 1..Len(stack') /\ stack'[k] = stack[k]
      /\ \A k \in 1..Len(stack') :
           \/ k \in 1..(n - 1) /\ stack'[k] = stack[k]
           \/ k = n /\ stack'[n] = f /\ log[i].type = "Data" /\ Top.at = "emit"
  BY <1>1, <1>4 DEF Returns, GoesOn
<1>9. \A k \in 1..Len(stack') : InDispatch(stack'[k]) =>
        k \in 1..n /\ InDispatch(stack[k]) /\ stack'[k].msg = stack[k].msg
  BY <1>1, <1>4, <1>5, <1>8
<1>10. OneDispatch'
  BY <1>2, <1>9 DEF OneDispatch
<1>11. Ahead'
  <2> SUFFICES ASSUME NEW k \in 1..Len(stack'), InDispatch(stack'[k])
               PROVE  /\ ~log'[stack'[k].msg].direct
                      /\ stack'[k].at = "callbacks" => log'[stack'[k].msg].type = "Data"
                      /\ \A m \in 1..Len(callbacks') :
                           /\ stack'[k].msg \notin callbacks'[m].missed
                           /\ Unreached(stack'[k], m) =>
                                \A l \in 1..Len(ran') : ran'[l] # <<m, stack'[k].msg>>
    BY DEF Ahead
  <2>1. CASE k \in 1..(n - 1) /\ stack'[k] = stack[k]
    BY <1>1, <1>2, <1>9, <2>1 DEF Ahead
  <2>2. CASE k = n /\ stack'[n] = f /\ log[i].type = "Data" /\ Top.at = "emit"
    <3>1. \A m : Unreached(stack[n], m)
      BY <1>4, <2>2 DEF Unreached
    <3> QED
      BY <1>1, <1>2, <1>4, <1>5, <1>9, <2>2, <3>1 DEF Ahead
  <2> QED
    BY <1>8, <2>1, <2>2
<1>12. AllRun'
  <2> SUFFICES ASSUME NEW m \in 1..Len(callbacks'), NEW j \in 1..Len(log'),
                      Wanted(m, j)', ~log'[j].cut
               PROVE  \/ HasRun(m, j)'
                      \/ \E k \in 1..Len(stack') : /\ InDispatch(stack'[k])
                                                   /\ stack'[k].msg = j
                                                   /\ Unreached(stack'[k], m)
    BY DEF AllRun
  <2>1. /\ m \in 1..Len(callbacks) /\ j \in 1..Len(log) /\ ~log[j].cut
        /\ Wanted(m, j)
    BY <1>1, WantedStays
  <2>2. \/ HasRun(m, j)
        \/ \E k \in 1..Len(stack) :
             InDispatch(stack[k]) /\ stack[k].msg = j /\ Unreached(stack[k], m)
    BY <1>2, <2>1 DEF AllRun
  <2>3. HasRun(m, j) => HasRun(m, j)'
    BY <1>1 DEF HasRun
  <2>4. ASSUME NEW k \in 1..Len(stack),
               InDispatch(stack[k]), stack[k].msg = j, Unreached(stack[k], m)
        PROVE  \E x \in 1..Len(stack') :
                 InDispatch(stack'[x]) /\ stack'[x].msg = j /\ Unreached(stack'[x], m)
    <3>1. CASE k # n
      <4>1. k \in 1..(n - 1)
        BY <1>4, <3>1
      <4> QED
        BY <1>8, <2>4, <4>1
    <3>2. CASE k = n
      <4>1. j = i /\ log[i].type = "Data"
        BY <1>4, <2>1, <2>4, <3>2 DEF Wanted
      <4>2. Top.at = "emit"
        BY <1>1, <1>4, <2>1, <2>4, <3>2, CallFacts DEF Unreached
      <4>3. GoesOn(f)
        BY <1>1, <4>1, <4>2
      <4>4. n \in 1..Len(stack') /\ stack'[n] = f
        BY <1>4, <4>3 DEF GoesOn
      <4>5. Unreached(f, m) /\ InDispatch(f)
        BY <1>5, <2>1 DEF Unreached, InDispatch
      <4> QED
        BY <1>5, <4>1, <4>4, <4>5
    <3> QED
      BY <3>1, <3>2
  <2> QED
    BY <2>2, <2>3, <2>4
<1> QED
  BY <1>3, <1>7, <1>10, <1>11, <1>12 DEF CallInv

(* A callback runs for a message.                                          *)
LEMMA RanAppended ==
  ASSUME TypeInv, NEW p, NEW i, p \in 1..Len(callbacks), i \in 1..Len(log),
         ran' = Append(ran, <<p, i>>)
  PROVE  /\ Len(ran) \in Nat /\ Len(ran') = Len(ran) + 1
         /\ \A l \in 1..Len(ran) : ran'[l] = ran[l]
         /\ ran'[Len(ran) + 1] = <<p, i>>
         /\ \A m, j : HasRun(m, j)' <=> HasRun(m, j) \/ (m = p /\ j = i)
<1> DEFINE S == (1..Len(callbacks)) \X (1..Len(log))
           e == <<p, i>>
<1>1. ran \in Seq(S)
  BY DEF TypeInv, DataOK
<1>2. e \in S
  OBVIOUS
<1> HIDE DEF S, e
<1>3. /\ Len(ran) \in Nat /\ Len(ran') = Len(ran) + 1
      /\ \A l \in 1..Len(ran) : ran'[l] = ran[l]
      /\ ran'[Len(ran) + 1] = e
  BY <1>1, <1>2, AppendProperties DEF e
<1>4. ASSUME NEW m, NEW j
      PROVE  HasRun(m, j)' <=> HasRun(m, j) \/ (m = p /\ j = i)
  <2>1. (<<m, j>> = e) <=> (m = p /\ j = i)
    BY DEF e
  <2> DEFINE d == <<m, j>>
  <2> HIDE DEF d
  <2>2. HasRun(m, j)' <=> \E l \in 1..Len(ran') : ran'[l] = d
    BY DEF HasRun, d
  <2>3. HasRun(m, j) <=> \E l \in 1..Len(ran) : ran[l] = d
    BY DEF HasRun, d
  <2>4. (\E l \in 1..Len(ran') : ran'[l] = d) <=> (\E l \in 1..Len(ran) : ran[l] = d) \/ d = e
    BY <1>3
  <2> QED
    BY <2>1, <2>2, <2>3, <2>4 DEF d
<1> QED
  BY <1>3, <1>4 DEF e

(* A message that calls wait for is in progress.                           *)
LEMMA MessagesInProgress ==
  ASSUME TypeInv, NEW i \in 1..Len(log)
  PROVE  i \in InProgress <=> \E k \in 1..Len(stack) : stack[k].msg = i
<1>1. DOMAIN stack = 1..Len(stack) /\ i # 0
  BY DEF TypeInv, StackOK
<1> QED
  BY <1>1 DEF InProgress

LEMMA CallThrows ==
  ASSUME TypeInv, [Next]_vars, CallInv, outcome = "ok", CallbackThrows
  PROVE  CallInv'
<1> DEFINE n == Len(stack)
           i == Top.msg
           p == Top.pos
<1>1. /\ UNCHANGED callbacks /\ Invoked /\ callbacks[p].kind = "throws"
      /\ ran' = Append(ran, <<p, i>>)
      /\ stack # <<>> /\ Top.at = "callbacks" /\ p <= Len(callbacks)
      /\ log[i].topic \in callbacks[p].topics
  BY DEF CallbackThrows, Run, Invoked, At
<1>2. RanOnce /\ RanWanted /\ MissedSent /\ OneDispatch /\ Ahead /\ Within /\ AllRun
  BY DEF CallInv
<1>3. /\ n \in Nat /\ n \in 1..n /\ Top = stack[n]
      /\ i \in 1..Len(log) /\ p \in 1..Len(callbacks)
  BY <1>1, LastDispatch DEF InDispatch
<1>4. /\ Wanted(p, i)
      /\ \A l \in 1..Len(ran) : ran[l] # <<p, i>>
  <2>1. InDispatch(stack[n]) /\ Unreached(stack[n], p)
    BY <1>1, <1>3 DEF InDispatch, Unreached
  <2> QED
    BY <1>1, <1>2, <1>3, <2>1 DEF Ahead, Wanted
<1> HIDE DEF n, i, p
<1>5. /\ Len(ran) \in Nat /\ Len(ran') = Len(ran) + 1
      /\ \A l \in 1..Len(ran) : ran'[l] = ran[l]
      /\ ran'[Len(ran) + 1] = <<p, i>>
      /\ \A m, j : HasRun(m, j)' <=> HasRun(m, j) \/ (m = p /\ j = i)
  BY <1>1, <1>3, RanAppended
<1>6. RanOnce'
  BY <1>2, <1>4, <1>5 DEF RanOnce
<1>7. Len(log') = Len(log)
  <2>1. DOMAIN log' = 1..Len(log)
    BY DEF CallbackThrows, TypeInv, DataOK
  <2>2. DOMAIN log' = 1..Len(log')
    BY StepTypes DEF TypeInv, DataOK
  <2> QED
    BY <2>1, <2>2, MessagesStay
<1>8. RanWanted'
  <2> SUFFICES ASSUME NEW m \in 1..Len(callbacks'), NEW j \in 1..Len(log'), HasRun(m, j)'
               PROVE  Wanted(m, j)'
    BY DEF RanWanted
  <2>1. m \in 1..Len(callbacks) /\ j \in 1..Len(log) /\ callbacks'[m] = callbacks[m]
    BY <1>1, <1>7
  <2>2. Wanted(m, j)
    BY <1>2, <1>4, <1>5, <2>1 DEF RanWanted
  <2> QED
    BY <2>1, <2>2, WantedStays
<1>9. MissedSent'
  BY <1>1, <1>2, <1>7 DEF MissedSent
<1>10. ASSUME outcome' = "ok"
       PROVE  OneDispatch' /\ Ahead' /\ Within' /\ AllRun'
  <2>1. \A k \in 1..Len(stack') : ~InDispatch(stack'[k])
    <3> DEFINE f == Frame("close", stack[1].pos, 0)
    <3>1. stack' = <<>> \/ stack' = <<f>>
      BY <1>10, ThrowsShape DEF Fails
    <3>2. ~InDispatch(f)
      BY DEF Frame, InDispatch
    <3> HIDE DEF f
    <3> QED
      BY <3>1, <3>2
  <2>2. OneDispatch' /\ Ahead'
    BY <2>1 DEF OneDispatch, Ahead
  <2>3. Within'
    BY <1>2, <1>10, WithinStep
  <2>4. AllRun'
    <3> SUFFICES ASSUME NEW m \in 1..Len(callbacks'), NEW j \in 1..Len(log'),
                        Wanted(m, j)', ~log'[j].cut
                 PROVE  HasRun(m, j)'
      BY DEF AllRun
    <3>1. /\ m \in 1..Len(callbacks) /\ j \in 1..Len(log) /\ Wanted(m, j)
      BY <1>1, <1>7, WantedStays
    <3>2. ~log[j].cut /\ j \notin InProgress
      <4>1. DOMAIN log = 1..Len(log) /\ log[j] \in Entry
        BY <3>1 DEF TypeInv, DataOK
      <4>2. log'[j] = IF j \in InProgress THEN [log[j] EXCEPT !.cut = TRUE] ELSE log[j]
        BY <3>1, <4>1 DEF CallbackThrows
      <4>3. [log[j] EXCEPT !.cut = TRUE].cut
        BY <4>1 DEF Entry
      <4> QED
        BY <4>2, <4>3
    <3>3. HasRun(m, j)
      BY <1>2, <3>1, <3>2, MessagesInProgress DEF AllRun
    <3> QED
      BY <1>5, <3>3
  <2> QED
    BY <2>2, <2>3, <2>4
<1> QED
  BY <1>6, <1>8, <1>9, <1>10 DEF CallInv

LEMMA CallAdvances ==
  ASSUME TypeInv, [Next]_vars, CallInv, outcome = "ok", Advances
  PROVE  CallInv'
<1> DEFINE n == Len(stack)
           i == Top.msg
           p == Top.pos
           f == NextCallback
           g == Frame("emit", 0, NewId)
           c == [callbacks[p] EXCEPT !.kind = "counts", !.missed = DOMAIN log \ InProgress]
<1>1. /\ stack # <<>> /\ Top.at = "callbacks" /\ p <= Len(callbacks) /\ InDispatch(Top)
      /\ \/ UNCHANGED ran /\ (Invoked => callbacks[p].kind = "mismatched")
         \/ /\ ran' = Append(ran, <<p, i>>)
            /\ Invoked /\ callbacks[p].kind # "mismatched"
  BY DEF Advances, CallsBack, InDispatch
<1>2. RanOnce /\ RanWanted /\ MissedSent /\ OneDispatch /\ Ahead /\ Within /\ AllRun
  BY DEF CallInv
<1>3. /\ n \in Nat /\ n > 0 /\ n \in 1..n /\ Top = stack[n]
      /\ i \in 1..Len(log) /\ p \in 1..Len(callbacks) /\ p \in Nat
      /\ stack[n].msg = i /\ stack[n].pos = p /\ InDispatch(stack[n])
      /\ stack[n].at = "callbacks"
  BY <1>1, LastDispatch
<1>4. /\ Len(log) \in Nat /\ Len(callbacks) \in Nat /\ NewId = Len(log) + 1
      /\ NewId \notin 1..Len(log)
  BY CallFacts
<1>5. Len(log) <= Len(log') /\ \A j \in 1..Len(log) : SameMessage(j)
  BY MessagesStay
<1>6. /\ f.at = "callbacks" /\ f.pos = p + 1 /\ f.msg = i
      /\ g.at = "emit" /\ g.msg = NewId
  BY DEF NextCallback, Frame
<1>7. c.missed = DOMAIN log \ InProgress /\ DOMAIN log = 1..Len(log) /\ c \in Callback
  <2>1. callbacks[p] \in Callback
    BY <1>3 DEF TypeInv, DataOK
  <2>2. DOMAIN log = 1..Len(log)
    BY DEF TypeInv, DataOK
  <2>3. DOMAIN log \ InProgress \in SUBSET Nat /\ "counts" \in Kinds
    BY <2>2 DEF Kinds
  <2> QED
    BY <2>1, <2>2, <2>3 DEF Callback
(* The callbacks, the messages and the calls.                              *)
<1>8. \/ UNCHANGED <<callbacks, log>> /\ GoesOn(f)
      \/ callbacks' = Append(callbacks, c) /\ UNCHANGED log /\ GoesOn(f)
      \/ UNCHANGED callbacks /\ NewMessage(Answer, "Data") /\ Enters(f, g)
  BY DEF Advances
<1> HIDE DEF i, p, f, g, c
<1>9. /\ \A m \in 1..Len(callbacks) : callbacks'[m] = callbacks[m] /\ m \in 1..Len(callbacks')
      /\ \A m \in 1..Len(callbacks') :
           \/ m \in 1..Len(callbacks)
           \/ m = Len(callbacks) + 1 /\ callbacks'[m] = c
  <2>1. CASE UNCHANGED callbacks
    BY <2>1
  <2>2. CASE callbacks' = Append(callbacks, c)
    <3>1. callbacks \in Seq(Callback)
      BY DEF TypeInv, DataOK
    <3>2. /\ Len(callbacks') = Len(callbacks) + 1
          /\ \A m \in 1..Len(callbacks) : callbacks'[m] = callbacks[m]
          /\ callbacks'[Len(callbacks) + 1] = c
      BY <1>7, <2>2, <3>1, AppendProperties
    <3> QED
      BY <1>4, <3>2
  <2> QED
    BY <1>8, <2>1, <2>2
<1>10. \A j \in 1..Len(log') :
         \/ j \in 1..Len(log)
         \/ /\ j = NewId /\ Len(callbacks') = Len(callbacks)
            /\ ~log'[NewId].direct
            /\ Enters(f, g)
  <2>1. Answer \in Topics /\ "Data" \in MessageTypes
    BY DispatchAssumption DEF MessageTypes
  <2>2. CASE UNCHANGED log
    BY <2>2
  <2>3. CASE UNCHANGED callbacks /\ NewMessage(Answer, "Data") /\ Enters(f, g)
    <3>1. Len(log') = Len(log) + 1 /\ ~log'[NewId].direct
      BY <2>1, <2>3, SentToAll
    <3> QED
      BY <1>4, <2>3, <3>1
  <2> QED
    BY <1>8, <2>2, <2>3
<1>11. ASSUME NEW m \in 1..Len(callbacks), NEW j \in 1..Len(log)
       PROVE  Wanted(m, j)' <=> Wanted(m, j)
  BY <1>9, WantedStays
<1>12. \A l \in 1..Len(ran) : ran[l] # <<p, i>>
  <2>1. Unreached(stack[n], p)
    BY <1>3 DEF Unreached
  <2> QED
    BY <1>2, <1>3, <2>1 DEF Ahead
<1>13. \/ ran' = ran /\ ~Wanted(p, i)
       \/ ran' = Append(ran, <<p, i>>) /\ Wanted(p, i)
  <2>1. Invoked <=> log[i].topic \in callbacks[p].topics
    BY <1>1 DEF Invoked, At, i, p
  <2>2. ~log[i].direct /\ log[i].type = "Data" /\ i \notin callbacks[p].missed
    BY <1>2, <1>3 DEF Ahead
  <2> QED
    BY <1>1, <2>1, <2>2 DEF Wanted
<1>14. /\ RanOnce'
       /\ \A m, j : HasRun(m, j)' => HasRun(m, j) \/ (m = p /\ j = i /\ Wanted(p, i))
       /\ \A m, j : HasRun(m, j) => HasRun(m, j)'
       /\ \A m, j : m = p /\ j = i /\ Wanted(p, i) => HasRun(m, j)'
  <2>1. CASE ran' = ran /\ ~Wanted(p, i)
    BY <1>2, <2>1 DEF RanOnce, HasRun
  <2>2. CASE ran' = Append(ran, <<p, i>>) /\ Wanted(p, i)
    <3>1. /\ Len(ran) \in Nat /\ Len(ran') = Len(ran) + 1
          /\ \A l \in 1..Len(ran) : ran'[l] = ran[l]
          /\ ran'[Len(ran) + 1] = <<p, i>>
          /\ \A m, j : HasRun(m, j)' <=> HasRun(m, j) \/ (m = p /\ j = i)
      BY <1>3, <2>2, RanAppended
    <3>2. RanOnce'
      BY <1>2, <1>12, <3>1 DEF RanOnce
    <3>3. ASSUME NEW m, NEW j
          PROVE  /\ HasRun(m, j)' => HasRun(m, j) \/ (m = p /\ j = i /\ Wanted(p, i))
                 /\ HasRun(m, j) => HasRun(m, j)'
                 /\ m = p /\ j = i /\ Wanted(p, i) => HasRun(m, j)'
      <4>1. HasRun(m, j)' <=> HasRun(m, j) \/ (m = p /\ j = i)
        BY <3>1
      <4> QED
        BY <2>2, <4>1
    <3> QED
      BY <3>2, <3>3
  <2> QED
    BY <1>13, <2>1, <2>2
<1>15. RanWanted'
  <2> SUFFICES ASSUME NEW m \in 1..Len(callbacks'), NEW j \in 1..Len(log'), HasRun(m, j)'
               PROVE  Wanted(m, j)'
    BY DEF RanWanted
  <2>1. HasRun(m, j) \/ (m = p /\ j = i /\ Wanted(p, i))
    BY <1>14
  <2>2. m \in 1..Len(callbacks) /\ j \in 1..Len(log)
    BY <1>3, <2>1, CallFacts
  <2>3. Wanted(m, j)
    BY <1>2, <2>1, <2>2 DEF RanWanted
  <2> QED
    BY <1>11, <2>2, <2>3
<1>16. MissedSent'
  <2> SUFFICES ASSUME NEW m \in 1..Len(callbacks')
               PROVE  callbacks'[m].missed \subseteq 1..Len(log)
    BY <1>4, <1>5, MessagesStay DEF MissedSent
  <2> QED
    BY <1>2, <1>7, <1>9 DEF MissedSent
<1>17. ASSUME outcome' = "ok"
       PROVE  OneDispatch' /\ Ahead' /\ Within' /\ AllRun'
  <2>1. Within'
    BY <1>2, <1>17, WithinStep
  <2>2. GoesOn(f) \/ CallsFrom(f, g)
    BY <1>8, <1>17 DEF Enters
  <2>3. /\ \A k \in 1..(n - 1) : k \in 1..Len(stack') /\ stack'[k] = stack[k]
        /\ n \in 1..Len(stack') /\ stack'[n] = f
        /\ \A k \in 1..Len(stack') :
             \/ k \in 1..(n - 1) /\ stack'[k] = stack[k]
             \/ k = n /\ stack'[k] = f
             \/ k = n + 1 /\ stack'[k] = g /\ ~GoesOn(f)
    BY <1>3, <2>2 DEF GoesOn, CallsFrom
  <2>4. \A k \in 1..Len(stack') : InDispatch(stack'[k]) =>
          \/ k \in 1..(n - 1) /\ stack'[k] = stack[k] /\ stack[k].msg \in 1..Len(log)
          \/ k = n /\ stack'[k] = f
          \/ k = n + 1 /\ stack'[k] = g /\ ~GoesOn(f)
    BY <1>3, <2>3, CallFacts
  <2>5. OneDispatch'
    <3> SUFFICES ASSUME NEW j \in 1..Len(stack'), NEW k \in 1..Len(stack'),
                        InDispatch(stack'[j]), InDispatch(stack'[k]),
                        stack'[j].msg = stack'[k].msg
                 PROVE  j = k
      BY DEF OneDispatch
    <3>1. ASSUME NEW x \in 1..Len(stack'), InDispatch(stack'[x])
          PROVE  \/ x \in 1..n /\ InDispatch(stack[x]) /\ stack[x].msg = stack'[x].msg
                    /\ stack'[x].msg \in 1..Len(log)
                 \/ x = n + 1 /\ stack'[x].msg = NewId
      <4>1. CASE x \in 1..(n - 1) /\ stack'[x] = stack[x] /\ stack[x].msg \in 1..Len(log)
        BY <1>3, <3>1, <4>1
      <4>2. CASE x = n /\ stack'[x] = f
        BY <1>3, <1>6, <4>2
      <4>3. CASE x = n + 1 /\ stack'[x] = g
        BY <1>6, <4>3
      <4> QED
        BY <2>4, <3>1, <4>1, <4>2, <4>3
    <3>2. CASE j \in 1..n /\ k \in 1..n
      BY <1>2, <1>3, <3>1, <3>2 DEF OneDispatch
    <3>3. CASE ~(j \in 1..n /\ k \in 1..n)
      BY <1>3, <1>4, <3>1, <3>3
    <3> QED
      BY <3>2, <3>3
  <2>6. Ahead'
    <3> SUFFICES ASSUME NEW k \in 1..Len(stack'), InDispatch(stack'[k])
                 PROVE  /\ ~log'[stack'[k].msg].direct
                        /\ stack'[k].at = "callbacks" => log'[stack'[k].msg].type = "Data"
                        /\ \A m \in 1..Len(callbacks') :
                             /\ stack'[k].msg \notin callbacks'[m].missed
                             /\ Unreached(stack'[k], m) =>
                                  \A l \in 1..Len(ran') : ran'[l] # <<m, stack'[k].msg>>
      BY DEF Ahead
    <3>1. ASSUME NEW j \in 1..Len(log), NEW x \in 1..n,
                 stack[x].msg = j, InDispatch(stack[x]), stack'[k].msg = j,
                 stack'[k].at = stack[x].at,
                 \A m \in 1..Len(callbacks) : Unreached(stack'[k], m) =>
                   Unreached(stack[x], m) /\ ~(m = p /\ j = i)
          PROVE  /\ ~log'[stack'[k].msg].direct
                 /\ stack'[k].at = "callbacks" => log'[stack'[k].msg].type = "Data"
                 /\ \A m \in 1..Len(callbacks') :
                      /\ stack'[k].msg \notin callbacks'[m].missed
                      /\ Unreached(stack'[k], m) =>
                           \A l \in 1..Len(ran') : ran'[l] # <<m, stack'[k].msg>>
      <4>1. x \in 1..Len(stack) /\ SameMessage(j)
        BY <1>5, <3>1
      <4>2. /\ ~log[j].direct
            /\ stack[x].at = "callbacks" => log[j].type = "Data"
            /\ \A m \in 1..Len(callbacks) :
                 /\ j \notin callbacks[m].missed
                 /\ Unreached(stack[x], m) => \A l \in 1..Len(ran) : ran[l] # <<m, j>>
        BY <1>2, <3>1, <4>1 DEF Ahead
      <4>3. j \notin c.missed
        BY <1>7, <3>1, <4>1, MessagesInProgress
      <4>4. ASSUME NEW m \in 1..Len(callbacks'), Unreached(stack'[k], m)
            PROVE  ~HasRun(m, j)'
        <5>1. CASE m \in 1..Len(callbacks)
          <6>1. Unreached(stack[x], m) /\ ~(m = p /\ j = i)
            BY <3>1, <4>4, <5>1
          <6>2. ~HasRun(m, j)
            BY <4>2, <5>1, <6>1 DEF HasRun
          <6> QED
            BY <1>14, <6>1, <6>2
        <5>2. CASE m \notin 1..Len(callbacks)
          BY <1>3, <1>14, <5>2, CallFacts
        <5> QED
          BY <5>1, <5>2
      <4>5. \A m \in 1..Len(callbacks') : j \notin callbacks'[m].missed
        BY <1>9, <4>2, <4>3
      <4> QED
        BY <3>1, <4>1, <4>2, <4>4, <4>5 DEF SameMessage, HasRun
    <3>2. CASE k \in 1..(n - 1) /\ stack'[k] = stack[k]
      <4>1. k \in 1..n /\ k # n /\ stack[k].msg \in 1..Len(log) /\ InDispatch(stack[k])
        BY <1>3, <3>2, CallFacts
      <4>2. stack[k].msg # i
        BY <1>2, <1>3, <4>1 DEF OneDispatch
      <4> QED
        BY <3>1, <3>2, <4>1, <4>2
    <3>3. CASE k = n /\ stack'[k] = f
      <4>1. \A m \in 1..Len(callbacks) : Unreached(f, m) => Unreached(stack[n], m) /\ m # p
        BY <1>3, <1>4, <1>6 DEF Unreached
      <4> QED
        BY <1>3, <1>6, <3>1, <3>3, <4>1
    <3>4. CASE k = n + 1 /\ stack'[k] = g /\ ~GoesOn(f)
      <4>1. UNCHANGED callbacks /\ NewMessage(Answer, "Data")
        BY <1>8, <3>4
      <4>2. ~log'[NewId].direct
        BY <4>1, SentToAll, DispatchAssumption DEF MessageTypes
      <4>3. \A m, j : j = NewId => ~HasRun(m, j)'
        <5> SUFFICES ASSUME NEW m, NEW j, j = NewId, HasRun(m, j)'
                     PROVE  FALSE
          OBVIOUS
        <5>1. HasRun(m, j) \/ j = i
          BY <1>14
        <5> QED
          BY <1>3, <1>4, <5>1, CallFacts
      <4>4. \A m \in 1..Len(callbacks') : NewId \notin callbacks'[m].missed
        BY <1>2, <1>4, <4>1 DEF MissedSent
      <4>5. \A m : \A l \in 1..Len(ran') : ran'[l] # <<m, NewId>>
        BY <4>3 DEF HasRun
      <4> QED
        BY <1>6, <3>4, <4>2, <4>4, <4>5
    <3> QED
      BY <2>3, <3>2, <3>3, <3>4
  <2>7. AllRun'
    <3> SUFFICES ASSUME NEW m \in 1..Len(callbacks'), NEW j \in 1..Len(log'),
                        Wanted(m, j)', ~log'[j].cut
                 PROVE  \/ HasRun(m, j)'
                        \/ \E k \in 1..Len(stack') : /\ InDispatch(stack'[k])
                                                     /\ stack'[k].msg = j
                                                     /\ Unreached(stack'[k], m)
      BY DEF AllRun
    <3>1. ASSUME NEW k \in 1..Len(stack), InDispatch(stack[k]), stack[k].msg = j,
                 Unreached(stack[k], m), ~(k = n /\ m = p)
          PROVE  \E x \in 1..Len(stack') : /\ InDispatch(stack'[x])
                                           /\ stack'[x].msg = j
                                           /\ Unreached(stack'[x], m)
      <4>1. CASE k # n
        <5>1. k \in 1..(n - 1)
          BY <1>3, <4>1
        <5> QED
          BY <2>3, <3>1, <5>1
      <4>2. CASE k = n
        <5>1. j = i /\ p <= m /\ m # p
          BY <1>3, <3>1, <4>2 DEF Unreached
        <5>2. InDispatch(f) /\ Unreached(f, m)
          BY <1>3, <1>6, <5>1 DEF InDispatch, Unreached
        <5> QED
          BY <1>6, <2>3, <5>1, <5>2
      <4> QED
        BY <4>1, <4>2
    <3>2. CASE j \in 1..Len(log) /\ m \in 1..Len(callbacks)
      <4>1. Wanted(m, j) /\ ~log[j].cut
        BY <1>5, <1>11, <3>2 DEF SameMessage
      <4>2. \/ HasRun(m, j)
            \/ \E k \in 1..Len(stack) :
                 InDispatch(stack[k]) /\ stack[k].msg = j /\ Unreached(stack[k], m)
        BY <1>2, <3>2, <4>1 DEF AllRun
      <4>3. m = p /\ j = i => HasRun(m, j)'
        BY <1>14, <4>1
      <4> QED
        BY <1>3, <1>14, <3>1, <4>2, <4>3
    <3>3. CASE j \in 1..Len(log) /\ m \notin 1..Len(callbacks)
      <4>1. m = Len(callbacks) + 1 /\ callbacks'[m] = c
        BY <1>9, <3>3
      <4>2. j \notin c.missed /\ ~log[j].direct
        BY <1>5, <3>3, <4>1 DEF Wanted, SameMessage
      <4>3. PICK k \in 1..Len(stack) : stack[k].msg = j
        BY <1>7, <3>3, <4>2, MessagesInProgress
      <4>4. CASE InDispatch(stack[k])
        <5>1. Unreached(stack[k], m)
          BY <1>4, <4>1, <4>4, CallFacts DEF Unreached, InDispatch
        <5>2. m # p
          BY <1>3, <1>4, <4>1
        <5> QED
          BY <3>1, <4>3, <4>4, <5>1, <5>2
      <4>5. CASE ~InDispatch(stack[k])
        <5>1. Outside(stack[k], log)
          BY <3>3, <4>2, <4>3, <4>5 DEF Outside
        <5>2. PICK x \in 1..(k - 1) : stack[x].at = "emit" /\ stack[x].msg = j
          BY <1>2, <4>3, <5>1 DEF Within
        <5>3. x \in 1..Len(stack) /\ m # p
          BY <1>3, <1>4, <4>1
        <5>4. InDispatch(stack[x]) /\ Unreached(stack[x], m)
          BY <5>2 DEF InDispatch, Unreached
        <5> QED
          BY <3>1, <5>2, <5>3, <5>4
      <4> QED
        BY <4>4, <4>5
    <3>4. CASE j \notin 1..Len(log)
      <4>1. j = NewId /\ Enters(f, g)
        BY <1>10, <3>4
      <4>2. n + 1 \in 1..Len(stack') /\ stack'[n + 1] = g
        BY <1>3, <1>17, <4>1 DEF Enters, CallsFrom
      <4>3. InDispatch(g) /\ Unreached(g, m)
        BY <1>6 DEF InDispatch, Unreached
      <4> QED
        BY <1>6, <4>1, <4>2, <4>3
    <3> QED
      BY <3>2, <3>3, <3>4
  <2> QED
    BY <2>1, <2>5, <2>6, <2>7
<1> QED
  BY <1>14, <1>15, <1>16, <1>17 DEF CallInv

LEMMA CallStep == TypeInv /\ CallInv /\ [Next]_vars => CallInv'
<1> SUFFICES ASSUME TypeInv, CallInv, [Next]_vars
             PROVE  CallInv'
  OBVIOUS
<1>1. CASE outcome # "ok"
  <2>1. UNCHANGED vars
    BY <1>1, EndedStays
  <2>2. UNCHANGED <<callbacks, ran>> /\ outcome' # "ok"
    BY <1>1, <2>1 DEF vars, historyVars
  <2> QED
    BY <2>2, RanStaysWanted DEF CallInv
<1>2. CASE outcome = "ok"
  BY <1>2, CallKinds, CallAside, CallBegins, CallEnds, CallAdvances, CallThrows
<1> QED
  BY <1>1, <1>2

LEMMA CallInvariant == Spec => []CallInv
<1>1. Init => CallInv
  <2> SUFFICES ASSUME Init
               PROVE  CallInv
    OBVIOUS
  <2>1. Len(stack) = 0 /\ Len(log) = 0 /\ Len(ran) = 0
    BY DEF Init
  <2>2. \A n \in 1..Len(callbacks) : callbacks[n].missed = {}
    <3>1. PICK app \in Applications : callbacks = app.callbacks
      BY DEF Init
    <3>2. callbacks \in Seq(Callback)
      BY <3>1, DispatchAssumption DEF Application
    <3>3. \A n \in 1..Len(callbacks) : callbacks[n] \in ToSet(app.callbacks)
      BY <3>1, <3>2 DEF ToSet
    <3> QED
      BY <3>1, <3>3, DispatchAssumption
  <2> QED
    BY <2>1, <2>2 DEF CallInv, RanOnce, RanWanted, HasRun, MissedSent, OneDispatch,
                      Ahead, Within, AllRun
<1> QED
  BY <1>1, CallStep, TypeInvariant, PTL DEF Spec

(* Whatever callbacks register, answer and throw, a message runs those     *)
(* that match it once, and no other.                                       *)
THEOREM CalledOnce == Spec => []CallbacksOnce
<1>1. TypeInv /\ CallInv => CallbacksOnce
  <2> SUFFICES ASSUME TypeInv, CallInv, NEW n \in DOMAIN callbacks, NEW i \in DOMAIN log
               PROVE  LET K == {k \in DOMAIN ran : ran[k] = <<n, i>>}
                      IN  /\ Cardinality(K) <= IF Wanted(n, i) THEN 1 ELSE 0
                          /\ (stack = <<>> /\ outcome = "ok" /\ ~log[i].cut /\ Wanted(n, i))
                               => Cardinality(K) = 1
    BY DEF CallbacksOnce, Wanted
  <2> DEFINE K == {k \in DOMAIN ran : ran[k] = <<n, i>>}
  <2>1. /\ DOMAIN ran = 1..Len(ran) /\ DOMAIN log = 1..Len(log)
        /\ DOMAIN callbacks = 1..Len(callbacks)
    BY DEF TypeInv, DataOK
  <2>2. CASE K = {}
    <3>1. Cardinality(K) = 0
      BY <2>2, FS_EmptySet
    <3>2. ~HasRun(n, i)
      BY <2>1, <2>2 DEF HasRun
    <3>3. (stack = <<>> /\ outcome = "ok" /\ ~log[i].cut /\ Wanted(n, i)) => FALSE
      <4> SUFFICES ASSUME stack = <<>>, outcome = "ok", ~log[i].cut, Wanted(n, i)
                   PROVE  FALSE
        OBVIOUS
      <4>1. AllRun /\ Len(stack) = 0
        BY DEF CallInv
      <4> QED
        BY <2>1, <3>2, <4>1 DEF AllRun
    <3> QED
      BY <3>1, <3>3
  <2>3. CASE K # {}
    <3>1. PICK k \in K : TRUE
      BY <2>3
    <3>2. K = {k}
      BY <2>1, <3>1 DEF CallInv, RanOnce
    <3>3. Cardinality(K) = 1
      <4> HIDE DEF K
      <4> QED
        BY <3>2, FS_Singleton
    <3>4. Wanted(n, i)
      BY <2>1, <3>1 DEF CallInv, RanWanted, HasRun
    <3> QED
      BY <3>3, <3>4
  <2> QED
    BY <2>2, <2>3
<1> QED
  BY <1>1, TypeInvariant, CallInvariant, PTL

-----------------------------------------------------------------------------
(* In which order responders get messages.                                 *)

(* Responder r has got message i, and j behind it.                         *)
Before(r, i, j) ==
  \E k, l \in 1..Len(got[r]) : k < l /\ got[r][k] = i /\ got[r][l] = j

Emits(x, i) == x \in 1..Len(stack) /\ stack[x].at = "emit" /\ stack[x].msg = i

(* Message j was sent when the emission of i had come to p.                *)
Split(i, j, p) ==
  /\ i \in log[j].during
  /\ \A r \in Responders : /\ Before(r, i, j) => r <= p
                           /\ Before(r, j, i) => r > p

SplitFrames(i, j, p) ==
  /\ \A x \in 1..Len(stack) : Emits(x, i) => stack[x].pos >= p
  /\ \A y \in 1..Len(stack) : Emits(y, j) =>
       \E x \in 1..(y - 1) : Emits(x, i) /\ stack[x].pos = p

(* Message i was sent before j.  It is through, and no responder has got   *)
(* it behind j, or j was sent during its emission.                         *)
OrderPair(i, j) ==
  \/ /\ \A r \in Responders : ~Before(r, j, i)
     /\ outcome = "ok" => \A x \in 1..Len(stack) : ~Emits(x, i)
  \/ \E p \in Nat : Split(i, j, p) /\ (outcome = "ok" => SplitFrames(i, j, p))

OrderInv == \A i, j \in 1..Len(log) : i < j => OrderPair(i, j)

(* The emissions of a that are still in progress, and those they were      *)
(* called from, are where they were.                                       *)
FramesFollow(a) ==
  \A y \in 1..Len(stack') : (stack'[y].at = "emit" /\ stack'[y].msg = a) =>
    /\ Emits(y, a) /\ stack'[y] = stack[y]
    /\ \A x \in 1..(y - 1) :
         stack[x].at = "emit" => x \in 1..Len(stack') /\ stack'[x] = stack[x]

LEMMA PairKept ==
  ASSUME TypeInv, TypeInv', NEW i, NEW j, OrderPair(i, j), outcome = "ok",
         \A r \in Responders : /\ Before(r, i, j)' => Before(r, i, j)
                               /\ Before(r, j, i)' => Before(r, j, i),
         log'[j].during = log[j].during,
         Goes => FramesFollow(i) /\ FramesFollow(j)
  PROVE  OrderPair(i, j)'
<1>1. CASE /\ \A r \in Responders : ~Before(r, j, i)
           /\ \A x \in 1..Len(stack) : ~Emits(x, i)
  <2>1. Goes => \A x \in 1..Len(stack') : ~(stack'[x].at = "emit" /\ stack'[x].msg = i)
    BY <1>1 DEF FramesFollow, Emits
  <2> QED
    BY <1>1, <2>1 DEF OrderPair, Emits, Goes
<1>2. ASSUME NEW p \in Nat, Split(i, j, p), SplitFrames(i, j, p)
      PROVE  OrderPair(i, j)'
  <2>1. Split(i, j, p)'
    BY <1>2 DEF Split
  <2>2. ASSUME Goes
        PROVE  SplitFrames(i, j, p)'
    <3>1. ASSUME NEW x \in 1..Len(stack'), stack'[x].at = "emit" /\ stack'[x].msg = i
          PROVE  stack'[x].pos >= p
      BY <1>2, <2>2, <3>1 DEF FramesFollow, Emits, SplitFrames
    <3>2. ASSUME NEW y \in 1..Len(stack'), stack'[y].at = "emit" /\ stack'[y].msg = j
          PROVE  \E x \in 1..(y - 1) : Emits(x, i)' /\ stack'[x].pos = p
      <4>1. /\ y \in 1..Len(stack) /\ Emits(y, j)
            /\ \A x \in 1..(y - 1) :
                 stack[x].at = "emit" => x \in 1..Len(stack') /\ stack'[x] = stack[x]
        BY <2>2, <3>2 DEF FramesFollow, Emits
      <4>2. PICK x \in 1..(y - 1) : Emits(x, i) /\ stack[x].pos = p
        BY <1>2, <4>1 DEF SplitFrames
      <4> QED
        BY <4>1, <4>2 DEF Emits
    <3> QED
      BY <3>1, <3>2 DEF SplitFrames, Emits
  <2> QED
    BY <2>1, <2>2 DEF OrderPair, Goes
<1> QED
  BY <1>1, <1>2 DEF OrderPair

LEMMA BeforeAppended ==
  ASSUME TypeInv, NEW r \in Responders, NEW i \in Nat,
         got' = [got EXCEPT ![r] = Append(@, i)]
  PROVE  \A q \in Responders, a, b \in Nat :
           Before(q, a, b)' <=> Before(q, a, b) \/ (q = r /\ b = i /\ Has(r, a))
<1>1. /\ \A q \in Responders : q # r => got'[q] = got[q]
      /\ Len(got[r]) \in Nat
      /\ Len(got'[r]) = Len(got[r]) + 1
      /\ \A k \in 1..Len(got[r]) : got'[r][k] = got[r][k]
      /\ got'[r][Len(got[r]) + 1] = i
  BY GotAppended
<1>2. ASSUME NEW q \in Responders, NEW a \in Nat, NEW b \in Nat
      PROVE  Before(q, a, b)' <=> Before(q, a, b) \/ (q = r /\ b = i /\ Has(r, a))
  <2>1. CASE q # r
    BY <1>1, <2>1 DEF Before
  <2>2. CASE q = r
    <3>1. ASSUME NEW k \in 1..Len(got'[r]), NEW l \in 1..Len(got'[r]),
                 k < l, got'[r][k] = a, got'[r][l] = b
          PROVE  Before(r, a, b) \/ (b = i /\ Has(r, a))
      <4>1. k \in 1..Len(got[r]) /\ got[r][k] = a
        BY <1>1, <3>1
      <4>2. CASE l = Len(got[r]) + 1
        BY <1>1, <3>1, <4>1, <4>2 DEF Has
      <4>3. CASE l # Len(got[r]) + 1
        BY <1>1, <3>1, <4>1, <4>3 DEF Before
      <4> QED
        BY <4>2, <4>3
    <3>2. ASSUME NEW k \in 1..Len(got[r]), NEW l \in 1..Len(got[r]),
                 k < l, got[r][k] = a, got[r][l] = b
          PROVE  \E x, y \in 1..Len(got'[r]) : x < y /\ got'[r][x] = a /\ got'[r][y] = b
      BY <1>1, <3>2
    <3>3. ASSUME NEW k \in 1..Len(got[r]), got[r][k] = a, b = i
          PROVE  \E x, y \in 1..Len(got'[r]) : x < y /\ got'[r][x] = a /\ got'[r][y] = b
      <4>1. /\ k \in 1..Len(got'[r]) /\ Len(got[r]) + 1 \in 1..Len(got'[r])
            /\ k < Len(got[r]) + 1
        BY <1>1
      <4> QED
        BY <1>1, <3>3, <4>1
    <3>4. Before(r, a, b) => \E x, y \in 1..Len(got'[r]) :
                               x < y /\ got'[r][x] = a /\ got'[r][y] = b
      BY <3>2 DEF Before
    <3>5. b = i /\ Has(r, a) => \E x, y \in 1..Len(got'[r]) :
                                  x < y /\ got'[r][x] = a /\ got'[r][y] = b
      BY <3>3 DEF Has
    <3>6. (\E x, y \in 1..Len(got'[r]) : x < y /\ got'[r][x] = a /\ got'[r][y] = b)
            => Before(r, a, b) \/ (b = i /\ Has(r, a))
      BY <3>1
    <3>7. (\E x, y \in 1..Len(got'[r]) : x < y /\ got'[r][x] = a /\ got'[r][y] = b)
            <=> Before(q, a, b)'
      BY <2>2 DEF Before
    <3> QED
      BY <2>2, <3>4, <3>5, <3>6, <3>7
  <2> QED
    BY <2>1, <2>2
<1> QED
  BY <1>2

LEMMA FollowKept ==
  ASSUME TypeInv, EmitsKept, NEW a
  PROVE  FramesFollow(a)
<1> SUFFICES ASSUME NEW y \in 1..Len(stack'), stack'[y].at = "emit", stack'[y].msg = a
             PROVE  /\ Emits(y, a) /\ stack'[y] = stack[y]
                    /\ \A x \in 1..(y - 1) :
                         stack[x].at = "emit" => x \in 1..Len(stack') /\ stack'[x] = stack[x]
  BY DEF FramesFollow
<1>1. y \in 1..Len(stack) /\ stack'[y] = stack[y]
  BY DEF EmitsKept
<1>2. \A x \in 1..(y - 1) : x \in 1..Len(stack)
  BY <1>1 DEF TypeInv, StackOK
<1> QED
  BY <1>1, <1>2 DEF EmitsKept, Emits

LEMMA OrderQuiet ==
  ASSUME TypeInv, TypeInv', OrderInv, outcome = "ok", IsQuiet \/ Ends \/ Cuts, [Next]_vars
  PROVE  OrderInv'
<1> SUFFICES ASSUME NEW i \in 1..Len(log'), NEW j \in 1..Len(log'), i < j
             PROVE  OrderPair(i, j)'
  BY DEF OrderInv
<1>1. UNCHANGED got
  BY DEF IsQuiet, Ends, Cuts
<1>2. i \in 1..Len(log) /\ j \in 1..Len(log)
  <2>1. CASE UNCHANGED log
    BY <2>1
  <2>2. CASE Cuts
    <3>1. DOMAIN log' = DOMAIN log
      BY <2>2 DEF Cuts
    <3> QED
      BY <3>1 DEF TypeInv, DataOK
  <2> QED
    BY <2>1, <2>2 DEF IsQuiet, Ends
<1>3. log'[j].during = log[j].during
  BY <1>2, MessagesStay DEF SameMessage
<1>4. ASSUME Goes, NEW a
      PROVE  FramesFollow(a)
  <2>1. CASE IsQuiet
    BY <1>4, <2>1, FollowKept DEF IsQuiet
  <2>2. CASE Ends
    <3>1. /\ Len(stack) - 1 <= Len(stack')
          /\ \A k \in 1..(Len(stack) - 1) : stack'[k] = stack[k]
          /\ \A k \in 1..Len(stack') : stack'[k].at = "emit" => k < Len(stack)
          /\ Len(stack) \in Nat /\ Len(stack') \in Nat
      BY <1>4, <2>2 DEF Ends, EmitThrough, TypeInv, StackOK
    <3> QED
      BY <3>1 DEF FramesFollow, Emits
  <2>3. CASE Cuts
    BY <1>4, <2>3 DEF Cuts, FramesFollow
  <2> QED
    BY <2>1, <2>2, <2>3
<1>5. \A r \in Responders : /\ Before(r, i, j)' => Before(r, i, j)
                            /\ Before(r, j, i)' => Before(r, j, i)
  BY <1>1 DEF Before
<1>6. OrderPair(i, j)
  BY <1>2 DEF OrderInv
<1> QED
  BY <1>3, <1>4, <1>5, <1>6, PairKept

(* A message is sent after those that were sent before it, or during their *)
(* emission.                                                               *)
LEMMA PairNew ==
  ASSUME TypeInv, TypeInv', EmitInv, outcome = "ok",
         NEW i \in 1..Len(log), NEW j, j = NewId,
         log'[j].during = InProgress,
         \A r \in Responders : ~Before(r, j, i)' /\ (Before(r, i, j)' => Has(r, i)),
         Goes => FramesFollow(i),
         Goes => \A y \in 1..Len(stack') : stack'[y].at = "emit" /\ stack'[y].msg = j =>
                   \A x \in 1..Len(stack) :
                     stack[x].at = "emit" => x \in 1..(y - 1) /\ stack'[x] = stack[x]
  PROVE  OrderPair(i, j)'
<1>1. OneEmission /\ NoneAhead
  BY DEF EmitInv
<1>2. CASE \A x \in 1..Len(stack) : ~Emits(x, i)
  <2>1. Goes => \A x \in 1..Len(stack') : ~(stack'[x].at = "emit" /\ stack'[x].msg = i)
    BY <1>2 DEF FramesFollow, Emits
  <2> QED
    BY <2>1 DEF OrderPair, Emits, Goes
<1>3. ASSUME NEW x \in 1..Len(stack), Emits(x, i)
      PROVE  OrderPair(i, j)'
  <2> DEFINE p == stack[x].pos
  <2>1. /\ stack[x].at = "emit" /\ stack[x].msg = i /\ p \in Nat
    <3>1. stack[x] \in AnyFrame
      BY DEF TypeInv, StackOK
    <3> QED
      BY <1>3, <3>1 DEF Emits, AnyFrame
  <2>2. i \in InProgress
    BY <2>1, MessagesInProgress
  <2>3. ASSUME NEW r \in Responders, Has(r, i)
        PROVE  r <= p
    <3>1. r \in Nat
      BY DispatchAssumption
    <3>2. ~(r > p)
      BY <1>1, <2>1, <2>3 DEF NoneAhead
    <3> QED
      BY <2>1, <3>1, <3>2
  <2> HIDE DEF p
  <2>4. ASSUME Goes
        PROVE  /\ \A z \in 1..Len(stack') : Emits(z, i)' => stack'[z].pos >= p
               /\ \A y \in 1..Len(stack') : Emits(y, j)' =>
                    \E z \in 1..(y - 1) : Emits(z, i)' /\ stack'[z].pos = p
    <3>1. ASSUME NEW z \in 1..Len(stack'), stack'[z].at = "emit" /\ stack'[z].msg = i
          PROVE  stack'[z].pos >= p
      <4>1. Emits(z, i) /\ stack'[z] = stack[z]
        BY <2>4, <3>1 DEF FramesFollow
      <4>2. z = x
        BY <1>1, <2>1, <4>1 DEF OneEmission, Emits
      <4> QED
        BY <2>1, <4>1, <4>2 DEF p
    <3>2. ASSUME NEW y \in 1..Len(stack'), stack'[y].at = "emit" /\ stack'[y].msg = j
          PROVE  \E z \in 1..(y - 1) : Emits(z, i)' /\ stack'[z].pos = p
      <4>1. x \in 1..(y - 1) /\ stack'[x] = stack[x]
        BY <2>1, <2>4, <3>2
      <4>2. x \in 1..Len(stack')
        BY <3>2, <4>1 DEF TypeInv, StackOK
      <4>3. Emits(x, i)' /\ stack'[x].pos = p
        BY <2>1, <4>1, <4>2 DEF Emits, p
      <4> QED
        BY <4>1, <4>3
    <3> QED
      BY <3>1, <3>2 DEF Emits
  <2>5. /\ i \in log'[j].during
        /\ \A r \in Responders : /\ Before(r, i, j)' => r <= p
                                 /\ Before(r, j, i)' => r > p
    BY <2>2, <2>3
  <2> DEFINE P(q) == Split(i, j, q)' /\ (Goes => SplitFrames(i, j, q)')
  <2>6. \A q \in Nat : q = p => P(q)
    BY <2>4, <2>5 DEF Split, SplitFrames
  <2> HIDE DEF P
  <2>7. \E q \in Nat : P(q)
    BY <2>1, <2>6
  <2> QED
    BY <2>7 DEF OrderPair, Goes, P
<1> QED
  BY <1>2, <1>3

LEMMA NoneBefore ==
  ASSUME TypeInv, NEW r \in Responders, NEW i, NEW j, i = NewId \/ j = NewId
  PROVE  ~Before(r, i, j)
<1>1. NewId \notin 1..Len(log) /\ \A k \in 1..Len(got[r]) : got[r][k] \in 1..Len(log)
  BY EmitMessages
<1> QED
  BY <1>1 DEF Before

LEMMA OrderSends ==
  ASSUME TypeInv, TypeInv', EmitInv, OrderInv, outcome = "ok", [Next]_vars,
         Sends \/ \E r \in Responders : SendsTo(r)
  PROVE  OrderInv'
<1> SUFFICES ASSUME NEW i \in 1..Len(log'), NEW j \in 1..Len(log'), i < j
             PROVE  OrderPair(i, j)'
  BY DEF OrderInv
<1>1. Len(log) \in Nat /\ NewId = Len(log) + 1 /\ NewId \notin 1..Len(log) /\ NewId \in Nat
  BY EmitMessages
<1>2. Len(log') = Len(log) + 1 /\ log'[NewId].during = InProgress
  <2>1. CASE Sends
    BY <2>1, SentToAll DEF Sends, NewMessage
  <2>2. ASSUME NEW r \in Responders, SendsTo(r)
        PROVE  Len(log') = Len(log) + 1 /\ log'[NewId].during = InProgress
    <3> DEFINE e == NewEntry({r}, Answer, "Data", TRUE)
    <3>1. e.during = InProgress
      BY DEF NewEntry
    <3>2. e \in Entry
      BY NewEntryType, DispatchAssumption DEF TypeInv, MessageTypes
    <3> HIDE DEF e
    <3>3. log' = Append(log, e)
      BY <2>2 DEF SendsTo, SendDirectly, e
    <3> QED
      BY <3>1, <3>2, <3>3, LogGrows DEF TypeInv, NewId
  <2> QED
    BY <2>1, <2>2
(* Only the new message may get behind others.                             *)
<1>3. ASSUME NEW r \in Responders, NEW a \in Nat, NEW b \in Nat, Before(r, a, b)'
      PROVE  Before(r, a, b) \/ (b = NewId /\ Has(r, a))
  <2>1. CASE Sends
    BY <1>3, <2>1 DEF Sends, Before
  <2>2. ASSUME NEW q \in Responders, SendsTo(q)
        PROVE  Before(r, a, b) \/ (b = NewId /\ Has(r, a))
    <3>1. got' = [got EXCEPT ![q] = Append(@, NewId)]
      BY <2>2 DEF SendsTo
    <3>2. \A x \in Responders, c, d \in Nat :
            Before(x, c, d)' <=> Before(x, c, d) \/ (x = q /\ d = NewId /\ Has(q, c))
      <4> DEFINE h == NewId
      <4>1. h \in Nat
        BY <1>1
      <4>2. got' = [got EXCEPT ![q] = Append(@, h)]
        BY <3>1
      <4> HIDE DEF h
      <4>3. \A x \in Responders, c, d \in Nat :
              Before(x, c, d)' <=> Before(x, c, d) \/ (x = q /\ d = h /\ Has(q, c))
        BY <4>1, <4>2, BeforeAppended
      <4> QED
        BY <4>3 DEF h
    <3> QED
      BY <1>3, <3>2
  <2> QED
    BY <2>1, <2>2
<1>4. ASSUME Goes, NEW a \in 1..Len(log)
      PROVE  FramesFollow(a)
  <2>1. CASE Sends
    <3>1. PICK m \in 1..Len(stack') :
            /\ stack'[m] = Frame("emit", 0, NewId)
            /\ \A k \in 1..Len(stack) :
                 stack[k].at = "emit" => k < m /\ stack'[k] = stack[k]
            /\ \A k \in 1..Len(stack') :
                 stack'[k].at = "emit" /\ k # m => k \in 1..Len(stack) /\ stack'[k] = stack[k]
      BY <1>4, <2>1 DEF Sends, EmitBegins
    <3>2. stack'[m].msg = NewId
      BY <3>1 DEF Frame
    <3> SUFFICES ASSUME NEW y \in 1..Len(stack'), stack'[y].at = "emit", stack'[y].msg = a
                 PROVE  /\ Emits(y, a) /\ stack'[y] = stack[y]
                        /\ \A x \in 1..(y - 1) :
                             stack[x].at = "emit" => x \in 1..Len(stack') /\ stack'[x] = stack[x]
      BY DEF FramesFollow
    <3>3. y \in 1..Len(stack) /\ stack'[y] = stack[y]
      BY <1>1, <1>4, <3>1, <3>2
    <3>4. Len(stack) \in Nat /\ Len(stack') \in Nat
      BY DEF TypeInv, StackOK
    <3>5. \A x \in 1..(y - 1) : x \in 1..Len(stack) /\ x \in 1..Len(stack')
      BY <3>3, <3>4
    <3> QED
      BY <3>1, <3>3, <3>5 DEF Emits
  <2>2. ASSUME NEW r \in Responders, SendsTo(r)
        PROVE  FramesFollow(a)
    BY <1>4, <2>2, FollowKept DEF SendsTo
  <2> QED
    BY <2>1, <2>2
<1>5. CASE j = NewId
  <2>1. i \in 1..Len(log) /\ i \in Nat /\ j \in Nat
    BY <1>1, <1>2, <1>5
  <2>2. \A r \in Responders : ~Before(r, j, i)' /\ (Before(r, i, j)' => Has(r, i))
    BY <1>1, <1>3, <1>5, <2>1, NoneBefore
  <2>3. ASSUME Goes, NEW y \in 1..Len(stack'), stack'[y].at = "emit", stack'[y].msg = j,
               NEW x \in 1..Len(stack), stack[x].at = "emit"
        PROVE  x \in 1..(y - 1) /\ stack'[x] = stack[x]
    <3>1. CASE Sends
      <4>1. PICK m \in 1..Len(stack') :
              /\ stack'[m] = Frame("emit", 0, NewId)
              /\ \A k \in 1..Len(stack) :
                   stack[k].at = "emit" => k < m /\ stack'[k] = stack[k]
              /\ \A k \in 1..Len(stack') :
                   stack'[k].at = "emit" /\ k # m => k \in 1..Len(stack) /\ stack'[k] = stack[k]
        BY <2>3, <3>1 DEF Sends, EmitBegins
      <4>2. y = m
        <5> SUFFICES ASSUME y # m
                     PROVE  FALSE
          OBVIOUS
        <5>1. y \in 1..Len(stack) /\ stack[y].at = "emit" /\ stack[y].msg = j
          BY <2>3, <4>1
        <5> QED
          BY <1>1, <1>5, <5>1, EmitMessages
      <4> QED
        BY <2>3, <4>1, <4>2
    <3>2. ASSUME NEW r \in Responders, SendsTo(r)
          PROVE  FALSE
      <4>1. y \in 1..Len(stack) /\ stack[y].at = "emit" /\ stack[y].msg = j
        BY <2>3, <3>2 DEF SendsTo, EmitsKept
      <4> QED
        BY <1>1, <1>5, <4>1, EmitMessages
    <3> QED
      BY <3>1, <3>2
  <2>4. log'[j].during = InProgress
    BY <1>2, <1>5
  <2>5. Goes => \A y \in 1..Len(stack') : stack'[y].at = "emit" /\ stack'[y].msg = j =>
                  \A x \in 1..Len(stack) :
                    stack[x].at = "emit" => x \in 1..(y - 1) /\ stack'[x] = stack[x]
    BY <2>3
  <2>6. Goes => FramesFollow(i)
    BY <1>4, <2>1
  <2> QED
    BY <1>5, <2>1, <2>2, <2>4, <2>5, <2>6, PairNew
<1>6. CASE j # NewId
  <2>1. i \in 1..Len(log) /\ j \in 1..Len(log) /\ i \in Nat /\ j \in Nat /\ i # NewId
    BY <1>1, <1>2, <1>6
  <2>2. \A r \in Responders : /\ Before(r, i, j)' => Before(r, i, j)
                              /\ Before(r, j, i)' => Before(r, j, i)
    BY <1>3, <1>6, <2>1
  <2>3. log'[j].during = log[j].during
    BY <2>1, MessagesStay DEF SameMessage
  <2>4. OrderPair(i, j)
    BY <2>1 DEF OrderInv
  <2> QED
    BY <1>4, <2>1, <2>2, <2>3, <2>4, PairKept
<1> QED
  BY <1>5, <1>6

LEMMA OrderGives ==
  ASSUME TypeInv, TypeInv', EmitInv, OrderInv, outcome = "ok", [Next]_vars,
         NEW r \in Responders, Gives(r)
  PROVE  OrderInv'
<1> DEFINE n == Len(stack)
           k == Top.msg
<1>1. /\ stack # <<>> /\ Top.at = "emit" /\ IsNext(r)
      /\ got' = [got EXCEPT ![r] = Append(@, k)]
      /\ UNCHANGED log
  BY DEF Gives
<1>2. OneEmission /\ NoneAhead /\ SameSubscribers
  BY DEF EmitInv
<1>3. /\ n \in Nat /\ n \in 1..n /\ Top = stack[n] /\ Top.pos \in Nat
      /\ k \in 1..Len(log) /\ k \in Nat
      /\ stack[n].at = "emit" /\ stack[n].msg = k /\ stack[n].pos = Top.pos
      /\ r \in Nat /\ r > Top.pos
  BY <1>1, <1>2, LastEmission, DispatchAssumption DEF IsNext
<1> HIDE DEF n, k
<1>4. \A q \in Responders, a, b \in Nat :
        Before(q, a, b)' <=> Before(q, a, b) \/ (q = r /\ b = k /\ Has(r, a))
  <2>1. k \in Nat /\ got' = [got EXCEPT ![r] = Append(@, k)]
    BY <1>1, <1>3
  <2> QED
    BY <2>1, BeforeAppended
<1>5. ASSUME Goes
      PROVE  /\ n \in 1..Len(stack')
             /\ stack'[n].at = "emit" /\ stack'[n].pos = r /\ stack'[n].msg = k
             /\ \A x \in 1..(n - 1) : stack'[x] = stack[x]
             /\ \A x \in 1..Len(stack') : stack'[x].at = "emit" => x <= n
    <2>1. /\ n \in 1..Len(stack')
          /\ stack'[n] = Frame("emit", r, k)
          /\ \A x \in 1..(n - 1) : stack'[x] = stack[x]
          /\ \A x \in 1..Len(stack') : stack'[x].at = "emit" => x <= n
      BY <1>5 DEF Gives, EmitReaches, n, k
    <2> QED
      BY <2>1 DEF Frame
<1>6. ASSUME Goes, NEW a, a # k
      PROVE  FramesFollow(a)
  <2> SUFFICES ASSUME NEW y \in 1..Len(stack'), stack'[y].at = "emit", stack'[y].msg = a
               PROVE  /\ Emits(y, a) /\ stack'[y] = stack[y]
                      /\ \A x \in 1..(y - 1) :
                           stack[x].at = "emit" => x \in 1..Len(stack') /\ stack'[x] = stack[x]
    BY DEF FramesFollow
  <2>1. y \in 1..(n - 1)
    BY <1>3, <1>5, <1>6
  <2>2. Len(stack') \in Nat /\ n \in 1..Len(stack')
    BY <1>5, <1>6 DEF TypeInv, StackOK
  <2>3. stack'[y] = stack[y] /\ y \in 1..Len(stack)
    BY <1>3, <1>5, <1>6, <2>1 DEF n
  <2>4. Emits(y, a)
    BY <2>3 DEF Emits
  <2>5. \A x \in 1..(y - 1) : x \in 1..(n - 1) /\ x \in 1..Len(stack')
    BY <1>3, <2>1, <2>2
  <2> QED
    BY <1>5, <1>6, <2>3, <2>4, <2>5
<1> SUFFICES ASSUME NEW i \in 1..Len(log'), NEW j \in 1..Len(log'), i < j
             PROVE  OrderPair(i, j)'
  BY DEF OrderInv
<1>7. /\ i \in 1..Len(log) /\ j \in 1..Len(log) /\ i \in Nat /\ j \in Nat
      /\ log'[j].during = log[j].during /\ OrderPair(i, j) /\ i # j
  BY <1>1 DEF OrderInv
<1>8. CASE i # k /\ j # k
  <2>1. \A q \in Responders : /\ Before(q, i, j)' => Before(q, i, j)
                              /\ Before(q, j, i)' => Before(q, j, i)
    BY <1>4, <1>7, <1>8
  <2> QED
    BY <1>6, <1>7, <1>8, <2>1, PairKept
(* The responder gets the message that was sent later.                     *)
<1>9. CASE j = k
  <2>1. \A q \in Responders : /\ Before(q, j, i)' => Before(q, j, i)
                              /\ Before(q, i, j)' => Before(q, i, j) \/ (q = r /\ Has(r, i))
    BY <1>4, <1>7, <1>9
  <2>2. Goes => FramesFollow(i)
    BY <1>6, <1>7, <1>9
  <2>3. CASE /\ \A q \in Responders : ~Before(q, j, i)
             /\ \A x \in 1..Len(stack) : ~Emits(x, i)
    <3>1. Goes => \A x \in 1..Len(stack') : ~(stack'[x].at = "emit" /\ stack'[x].msg = i)
      BY <2>2, <2>3 DEF FramesFollow, Emits
    <3> QED
      BY <2>1, <2>3, <3>1 DEF OrderPair, Emits, Goes
  <2>4. ASSUME NEW p \in Nat, Split(i, j, p), SplitFrames(i, j, p)
        PROVE  OrderPair(i, j)'
    <3>1. PICK x \in 1..(n - 1) : Emits(x, i) /\ stack[x].pos = p
      BY <1>3, <1>9, <2>4 DEF SplitFrames, Emits, n
    <3>2. Has(r, i) => r <= p
      BY <1>2, <1>3, <2>4, <3>1 DEF NoneAhead, Emits
    <3>3. Split(i, j, p)'
      <4>1. i \in log'[j].during
        BY <1>7, <2>4 DEF Split
      <4>2. ASSUME NEW q \in Responders
            PROVE  /\ Before(q, i, j)' => q <= p
                   /\ Before(q, j, i)' => q > p
        BY <2>1, <2>4, <3>2 DEF Split
      <4> QED
        BY <4>1, <4>2 DEF Split
    <3>4. ASSUME Goes
          PROVE  SplitFrames(i, j, p)'
      <4>1. ASSUME NEW z \in 1..Len(stack'), stack'[z].at = "emit", stack'[z].msg = i
            PROVE  stack'[z].pos >= p
        BY <2>2, <2>4, <3>4, <4>1 DEF FramesFollow, Emits, SplitFrames
      <4>2. ASSUME NEW y \in 1..Len(stack'), stack'[y].at = "emit", stack'[y].msg = j
            PROVE  \E z \in 1..(y - 1) : Emits(z, i)' /\ stack'[z].pos = p
        <5>1. y \in 1..n
          BY <1>3, <1>5, <3>4, <4>2
        <5>2. stack[y].at = "emit" /\ stack[y].msg = k
          BY <1>3, <1>5, <1>9, <3>4, <4>2, <5>1
        <5>3. y = n
          BY <1>2, <1>3, <5>1, <5>2 DEF OneEmission, n
        <5>4. x \in 1..Len(stack') /\ stack'[x] = stack[x]
          BY <1>3, <1>5, <3>4 DEF TypeInv, StackOK
        <5> QED
          BY <3>1, <5>3, <5>4 DEF Emits
      <4> QED
        BY <4>1, <4>2 DEF SplitFrames, Emits
    <3> QED
      BY <3>3, <3>4 DEF OrderPair, Goes
  <2> QED
    BY <1>7, <2>3, <2>4 DEF OrderPair
(* The responder gets the message that was sent first.                     *)
<1>10. CASE i = k
  <2>1. Emits(n, i)
    BY <1>3, <1>10 DEF Emits, n
  <2>2. PICK p \in Nat : Split(i, j, p) /\ SplitFrames(i, j, p)
    BY <1>3, <1>7, <2>1 DEF OrderPair, n
  <2>3. p <= Top.pos /\ p < r
    BY <1>3, <2>1, <2>2 DEF SplitFrames, n
  <2>4. \A q \in Responders : /\ Before(q, i, j)' => Before(q, i, j)
                              /\ Before(q, j, i)' => Before(q, j, i) \/ q = r
    BY <1>4, <1>7, <1>10
  <2>5. Split(i, j, p)'
    <3>1. i \in log'[j].during
      BY <1>7, <2>2 DEF Split
    <3>2. ASSUME NEW q \in Responders
          PROVE  /\ Before(q, i, j)' => q <= p
                 /\ Before(q, j, i)' => q > p
      BY <1>3, <2>2, <2>3, <2>4 DEF Split
    <3> QED
      BY <3>1, <3>2 DEF Split
  <2>6. ASSUME Goes
        PROVE  SplitFrames(i, j, p)'
    <3>1. ASSUME NEW z \in 1..Len(stack'), stack'[z].at = "emit", stack'[z].msg = i
          PROVE  stack'[z].pos >= p
      <4>1. z \in 1..n
        BY <1>3, <1>5, <2>6, <3>1
      <4>2. stack[z].at = "emit" /\ stack[z].msg = i
        BY <1>3, <1>5, <1>10, <2>6, <3>1, <4>1
      <4>3. z = n
        BY <1>2, <1>3, <1>10, <4>1, <4>2 DEF OneEmission, n
      <4> QED
        BY <1>3, <1>5, <2>3, <2>6, <4>3
    <3>2. ASSUME NEW y \in 1..Len(stack'), stack'[y].at = "emit", stack'[y].msg = j
          PROVE  FALSE
      <4>1. y \in 1..(n - 1) /\ stack[y].at = "emit" /\ stack[y].msg = j
        BY <1>3, <1>5, <1>7, <1>10, <2>6, <3>2
      <4>2. y \in 1..Len(stack)
        BY <1>3, <4>1 DEF n
      <4>3. PICK x \in 1..(y - 1) : Emits(x, i) /\ stack[x].pos = p
        BY <2>2, <4>1, <4>2 DEF SplitFrames, Emits
      <4>4. x = n
        BY <1>2, <1>3, <1>10, <4>3 DEF OneEmission, Emits, n
      <4> QED
        BY <1>3, <4>1, <4>3, <4>4
    <3> QED
      BY <3>1, <3>2 DEF SplitFrames, Emits
  <2> QED
    BY <2>5, <2>6 DEF OrderPair, Goes
<1> QED
  BY <1>8, <1>9, <1>10

LEMMA OrderStep ==
  TypeInv /\ TypeInv' /\ EmitInv /\ OrderInv /\ [Next]_vars => OrderInv'
<1> SUFFICES ASSUME TypeInv, TypeInv', EmitInv, OrderInv, [Next]_vars
             PROVE  OrderInv'
  OBVIOUS
<1>1. CASE outcome # "ok"
  <2>1. UNCHANGED <<log, got, outcome>>
    BY <1>1, EndedStays DEF vars, historyVars
  <2> SUFFICES ASSUME NEW i \in 1..Len(log), NEW j \in 1..Len(log), i < j
               PROVE  OrderPair(i, j)'
    BY <2>1 DEF OrderInv
  <2>2. OrderPair(i, j)
    BY DEF OrderInv
  <2>3. \A r, a, b : Before(r, a, b)' <=> Before(r, a, b)
    BY <2>1 DEF Before
  <2>4. CASE \A r \in Responders : ~Before(r, j, i)
    BY <1>1, <2>1, <2>3, <2>4 DEF OrderPair
  <2>5. ASSUME NEW p \in Nat, Split(i, j, p)
        PROVE  OrderPair(i, j)'
    <3>1. Split(i, j, p)'
      BY <2>1, <2>3, <2>5 DEF Split
    <3> QED
      BY <1>1, <2>1, <3>1 DEF OrderPair
  <2> QED
    BY <2>2, <2>4, <2>5 DEF OrderPair
<1>2. CASE outcome = "ok"
  BY <1>2, StepKinds, OrderQuiet, OrderSends, OrderGives
<1> QED
  BY <1>1, <1>2

LEMMA OrderInvariant == Spec => []OrderInv
<1>1. Init => OrderInv
  BY DEF Init, OrderInv
<1> QED
  BY <1>1, OrderStep, TypeInvariant, EmitInvariant, PTL DEF Spec

(* Two responders get two messages in different orders only if one was     *)
(* sent while the other was emitted, when that had come to a responder     *)
(* between them.                                                           *)
THEOREM InAgreedOrder == Spec => []OrderAgreement
<1>1. TypeInv /\ EmitInv /\ OrderInv => OrderAgreement
  <2> SUFFICES ASSUME TypeInv, EmitInv, OrderInv,
                      NEW q \in Responders, NEW r \in Responders,
                      NEW k \in DOMAIN got[q], NEW l \in DOMAIN got[q],
                      NEW m \in DOMAIN got[r], NEW n \in DOMAIN got[r],
                      k < l, m < n, got[r][m] = got[q][l], got[r][n] = got[q][k]
               PROVE  \/ got[q][k] \in log[got[q][l]].during /\ q < r
                      \/ got[q][l] \in log[got[q][k]].during /\ r < q
    BY DEF OrderAgreement
  <2> DEFINE i == got[q][k]
             j == got[q][l]
  <2>1. /\ DOMAIN got[q] = 1..Len(got[q]) /\ DOMAIN got[r] = 1..Len(got[r])
        /\ q \in Nat /\ r \in Nat
    BY DispatchAssumption DEF TypeInv, DataOK
  <2>2. i \in 1..Len(log) /\ j \in 1..Len(log)
    BY <2>1, EmitMessages
  <2>3. Before(q, i, j) /\ Before(r, j, i)
    BY <2>1 DEF Before
  <2>4. i # j
    BY <2>1 DEF EmitInv, GotOnce
  <2> HIDE DEF i, j
  <2>5. CASE i < j
    <3>1. PICK p \in Nat : Split(i, j, p)
      BY <2>2, <2>3, <2>5 DEF OrderInv, OrderPair
    <3>2. i \in log[j].during /\ q <= p /\ r > p
      BY <2>3, <3>1 DEF Split
    <3> QED
      BY <2>1, <3>2 DEF i, j
  <2>6. CASE j < i
    <3>1. PICK p \in Nat : Split(j, i, p)
      BY <2>2, <2>3, <2>6 DEF OrderInv, OrderPair
    <3>2. j \in log[i].during /\ r <= p /\ q > p
      BY <2>3, <3>1 DEF Split
    <3> QED
      BY <2>1, <3>2 DEF i, j
  <2> QED
    BY <2>2, <2>4, <2>5, <2>6
<1> QED
  BY <1>1, TypeInvariant, EmitInvariant, OrderInvariant, PTL

-----------------------------------------------------------------------------
(* How calls end: what stays as it is meanwhile.                           *)

(* Those who subscribe do so between two events, and the callbacks that    *)
(* are registered only count.                                              *)
LEMMA ApplicationStays ==
  ASSUME TypeInv, [Next]_vars
  PROVE  /\ UNCHANGED <<hooks, limit>>
         /\ stack # <<>> => UNCHANGED wants
         /\ \A r \in Responders : wants[r] \subseteq wants'[r]
         /\ Len(callbacks) \in Nat /\ Len(callbacks') \in Nat
         /\ \A n \in 1..Len(callbacks) :
              n \in 1..Len(callbacks') /\ callbacks'[n] = callbacks[n]
         /\ \A n \in 1..Len(callbacks') :
              n \in 1..Len(callbacks) \/ callbacks'[n].kind = "counts"
<1>1. DataOK /\ Len(callbacks) \in Nat
  BY DEF TypeInv, DataOK
<1>2. UNCHANGED <<hooks, limit>>
  BY DEF Next, vars, appVars, Subscribe, PeerGone, Written, EmitTo, Publish, AppSend,
         EmitEnds, CallbacksEnd, SkipCallback, Skip, CallbackCounts, CallbackRegisters,
         CallbackAnswers, CallbackThrows, Run, OutputFull, StillFull, CloseClient,
         DeleteThis, Recover, EndInput, EndEvent, Event
<1>3. \/ UNCHANGED wants
      \/ \E r \in Responders, topic \in Topics : Subscribe(r, topic)
  BY DEF Next, vars, PeerGone, Written, EmitTo, Publish, AppSend,
         EmitEnds, CallbacksEnd, SkipCallback, Skip, CallbackCounts, CallbackRegisters,
         CallbackAnswers, CallbackThrows, Run, OutputFull, StillFull, CloseClient,
         DeleteThis, Recover, EndInput, EndEvent
<1>4. ASSUME NEW r \in Responders, NEW topic \in Topics, Subscribe(r, topic)
      PROVE  stack = <<>> /\ \A q \in Responders : wants[q] \subseteq wants'[q]
  <2>1. stack = <<>> /\ wants' = [wants EXCEPT ![r] = @ \cup {topic}]
    BY <1>4 DEF Subscribe, Event
  <2> QED
    BY <1>1, <2>1 DEF DataOK
<1>5. UNCHANGED callbacks \/ CallbackRegisters
  BY DEF Next, vars, Subscribe, PeerGone, Written, EmitTo, Publish, AppSend,
         EmitEnds, CallbacksEnd, SkipCallback, Skip, CallbackCounts,
         CallbackAnswers, CallbackThrows, OutputFull, StillFull, CloseClient,
         DeleteThis, Recover, EndInput, EndEvent, Event
<1>6. ASSUME CallbackRegisters
      PROVE  /\ Len(callbacks') \in Nat
             /\ \A n \in 1..Len(callbacks) :
                  n \in 1..Len(callbacks') /\ callbacks'[n] = callbacks[n]
             /\ \A n \in 1..Len(callbacks') :
                  n \in 1..Len(callbacks) \/ callbacks'[n].kind = "counts"
  <2> DEFINE c == [callbacks[Top.pos] EXCEPT !.kind = "counts",
                                             !.missed = DOMAIN log \ InProgress]
  <2>1. callbacks' = Append(callbacks, c)
    BY <1>6 DEF CallbackRegisters
  <2>2. Top.pos \in 1..Len(callbacks)
    <3>1. stack # <<>> /\ Top.at = "callbacks" /\ Top.pos <= Len(callbacks)
      BY <1>6 DEF CallbackRegisters, Run, Invoked, At
    <3> QED
      BY <1>1, <3>1, TopFrame DEF TypeInv, Fits
  <2>3. callbacks \in Seq(Callback) /\ callbacks[Top.pos] \in Callback
    BY <1>1, <2>2 DEF DataOK
  <2>4. c.kind = "counts"
    BY <2>3 DEF Callback
  <2> HIDE DEF c
  <2>5. /\ Len(callbacks') = Len(callbacks) + 1
        /\ callbacks'[Len(callbacks) + 1] = c
        /\ \A n \in 1..Len(callbacks) : callbacks'[n] = callbacks[n]
    BY <1>1, <2>1, <2>3
  <2> QED
    BY <1>1, <2>4, <2>5
<1> QED
  BY <1>1, <1>2, <1>3, <1>4, <1>5, <1>6

LEMMA AnswersStay ==
  ASSUME TypeInv, [Next]_vars, NEW topic
  PROVE  /\ AnswersTo(topic)' <=> AnswersTo(topic)
         /\ OfFarewell(topic)' <=> OfFarewell(topic)
<1>1. DOMAIN callbacks = 1..Len(callbacks)
  BY DEF TypeInv, DataOK
<1>2. DOMAIN callbacks' = 1..Len(callbacks')
  BY StepTypes DEF TypeInv, DataOK
<1>3. \A t : AnswersTo(t)' <=> AnswersTo(t)
  BY <1>1, <1>2, ApplicationStays DEF AnswersTo
<1> QED
  BY <1>3 DEF OfFarewell

LEMMA ThrowingStays ==
  ASSUME TypeInv, [Next]_vars, ThrowsInClose
  PROVE  ThrowsInClose'
<1>1. DOMAIN callbacks = 1..Len(callbacks)
  BY DEF TypeInv, DataOK
<1>2. DOMAIN callbacks' = 1..Len(callbacks')
  BY StepTypes DEF TypeInv, DataOK
<1> QED
  BY <1>1, <1>2, ApplicationStays, AnswersStay DEF ThrowsInClose

-----------------------------------------------------------------------------
(* A responder that closeClient was called for.                            *)

Roots == {"input", "app", "eof", "close"}

RootsInv == stack # <<>> => stack[1].at \in Roots \cup {"delete"}

(* A dispatch in progress while a responder is being closed is that of a   *)
(* farewell, or of an answer to one.                                       *)
Follows(f) == InDispatch(f) => "farewell" \in hooks /\ OfFarewell(log[f.msg].topic)

AfterFarewell ==
  \A j, k \in 1..Len(stack) : j < k /\ stack[j].at = "delete" => Follows(stack[k])

ClosingHeld ==
  \A r \in Responders : alive[r] = "closing" =>
    \E k \in 1..Len(stack) : stack[k].at = "delete" /\ stack[k].pos = r

ClosedInv ==
  /\ outcome = "ok" => RootsInv /\ AfterFarewell /\ (ThrowsInClose \/ ClosingHeld)
  /\ outcome # "ok" => stack # <<>>
  /\ outcome = "raised" => ThrowsInClose

LEMMA FollowsStays ==
  ASSUME TypeInv, [Next]_vars, NEW k \in 1..Len(stack), NEW f,
         InDispatch(f) => InDispatch(stack[k]) /\ f.msg = stack[k].msg,
         Follows(stack[k])
  PROVE  Follows(f)'
<1> SUFFICES ASSUME InDispatch(f)
             PROVE  "farewell" \in hooks' /\ OfFarewell(log[f.msg].topic)'
  BY DEF Follows
<1>1. InDispatch(stack[k]) /\ f.msg = stack[k].msg
  OBVIOUS
<1>2. f.msg \in 1..Len(log)
  BY <1>1, CallFacts
<1>3. "farewell" \in hooks /\ OfFarewell(log[f.msg].topic)
  BY <1>1 DEF Follows
<1>4. log'[f.msg].topic = log[f.msg].topic /\ hooks' = hooks
  BY <1>2, MessagesStay, ApplicationStays DEF SameMessage
<1> QED
  BY <1>3, <1>4, AnswersStay

ClosedOK == RootsInv /\ AfterFarewell /\ (ThrowsInClose \/ ClosingHeld)

(* The responder a frame is about may be set to closing or deleted.        *)
Becomes(r, life) == alive' = [alive EXCEPT ![r] = life]

LEMMA ClosedReturns ==
  ASSUME TypeInv, [Next]_vars, ClosedOK, stack # <<>>, Returns,
         (Top.at # "delete" /\ UNCHANGED alive) \/ Becomes(Top.pos, "deleted")
  PROVE  ClosedOK'
<1>1. /\ Len(stack) \in Nat /\ Len(stack) > 0
      /\ Top = stack[Len(stack)] /\ alive \in [Responders -> {"open", "closing", "deleted"}]
  BY TopFrame DEF TypeInv, DataOK
<1>2. \A k \in 1..Len(stack') : k \in 1..Len(stack) /\ stack'[k] = stack[k]
  BY <1>1 DEF Returns
<1>3. RootsInv'
  <2>1. stack' # <<>> => 1 \in 1..Len(stack')
    BY EmptySeq DEF Returns
  <2> QED
    BY <1>1, <1>2, <2>1 DEF ClosedOK, RootsInv
<1>4. AfterFarewell'
  BY <1>2, FollowsStays DEF ClosedOK, AfterFarewell
<1>5. ASSUME ClosingHeld
      PROVE  ClosingHeld'
  <2> SUFFICES ASSUME NEW r \in Responders, alive'[r] = "closing"
               PROVE  \E k \in 1..Len(stack') : stack'[k].at = "delete" /\ stack'[k].pos = r
    BY DEF ClosingHeld
  <2>1. alive[r] = "closing" /\ (Top.at = "delete" => r # Top.pos)
    BY <1>1 DEF Becomes
  <2>2. PICK k \in 1..Len(stack) : stack[k].at = "delete" /\ stack[k].pos = r
    BY <1>5, <2>1 DEF ClosingHeld
  <2>3. k # Len(stack)
    BY <1>1, <2>1, <2>2
  <2> QED
    BY <1>1, <2>2, <2>3 DEF Returns
<1> QED
  BY <1>3, <1>4, <1>5, ThrowingStays DEF ClosedOK

LEMMA ClosedGoesOn ==
  ASSUME TypeInv, [Next]_vars, ClosedOK, stack # <<>>, NEW f,
         /\ Len(stack') \in Nat /\ Len(stack') >= Len(stack)
         /\ \A k \in 1..(Len(stack) - 1) : stack'[k] = stack[k]
         /\ stack'[Len(stack)] = f,
         InDispatch(f) => InDispatch(Top) /\ f.msg = Top.msg,
         Top.at # "delete",
         Top.at \in Roots => f.at \in Roots \cup {"delete"},
         UNCHANGED alive \/ (Becomes(f.pos, "closing") /\ f.at = "delete"),
         \A k \in 1..Len(stack') : k > Len(stack) =>
           \A j \in 1..Len(stack) : stack'[j].at = "delete" => Follows(stack[k])',
         \A k \in 1..Len(stack') : k > Len(stack) => k = Len(stack) + 1 /\ stack'[k].at # "delete"
  PROVE  ClosedOK'
<1>1. /\ Len(stack) \in Nat /\ Len(stack) > 0 /\ Len(stack) \in 1..Len(stack)
      /\ Top = stack[Len(stack)] /\ alive \in [Responders -> {"open", "closing", "deleted"}]
  BY TopFrame DEF TypeInv, DataOK
<1>2. RootsInv'
  <2>1. stack'[1].at \in Roots \cup {"delete"}
    BY <1>1 DEF ClosedOK, RootsInv
  <2> QED
    BY <2>1 DEF RootsInv
<1>3. AfterFarewell'
  <2> SUFFICES ASSUME NEW j \in 1..Len(stack'), NEW k \in 1..Len(stack'), j < k,
                      stack'[j].at = "delete"
               PROVE  Follows(stack[k])'
    BY DEF AfterFarewell
  <2>1. j \in 1..Len(stack)
    BY <1>1
  <2>2. CASE k > Len(stack)
    BY <2>1, <2>2
  <2>3. CASE k <= Len(stack)
    <3>1. k \in 1..Len(stack) /\ j \in 1..(Len(stack) - 1) /\ stack[j].at = "delete"
      BY <1>1, <2>3
    <3>2. Follows(stack[k])
      BY <2>1, <3>1 DEF ClosedOK, AfterFarewell
    <3>3. InDispatch(stack'[k]) => InDispatch(stack[k]) /\ stack'[k].msg = stack[k].msg
      BY <1>1, <3>1
    <3> QED
      BY <3>1, <3>2, <3>3, FollowsStays DEF Follows
  <2> QED
    BY <1>1, <2>1, <2>2, <2>3
<1>4. ASSUME ClosingHeld
      PROVE  ClosingHeld'
  <2> SUFFICES ASSUME NEW r \in Responders, alive'[r] = "closing"
               PROVE  \E k \in 1..Len(stack') : stack'[k].at = "delete" /\ stack'[k].pos = r
    BY DEF ClosingHeld
  <2>1. alive[r] = "closing" \/ (f.at = "delete" /\ f.pos = r)
    BY <1>1 DEF Becomes
  <2>2. CASE f.at = "delete" /\ f.pos = r
    BY <1>1, <2>2
  <2>3. CASE alive[r] = "closing"
    <3>1. PICK k \in 1..Len(stack) : stack[k].at = "delete" /\ stack[k].pos = r
      BY <1>4, <2>3 DEF ClosingHeld
    <3>2. k # Len(stack)
      BY <1>1, <3>1
    <3> QED
      BY <1>1, <3>1, <3>2
  <2> QED
    BY <2>1, <2>2, <2>3
<1> QED
  BY <1>2, <1>3, <1>4, ThrowingStays DEF ClosedOK

LEMMA NewMessageEntry ==
  ASSUME TypeInv, NEW topic \in Topics, NewMessage(topic, "Data")
  PROVE  /\ Len(log') = Len(log) + 1
         /\ log'[NewId].topic = topic /\ log'[NewId].type = "Data"
<1> DEFINE e == NewEntry(Subscribers(topic), topic, "Data", FALSE)
<1>1. e.topic = topic /\ e.type = "Data"
  BY DEF NewEntry
<1>2. e \in Entry
  BY NewEntryType DEF TypeInv, Subscribers, MessageTypes
<1> HIDE DEF e
<1> QED
  BY <1>1, <1>2, LogGrows DEF TypeInv, NewMessage, NewId, e

LEMMA ClosedStep ==
  ASSUME TypeInv, CloseInv, ClosedInv, [Next]_vars
  PROVE  ClosedInv'
<1> SUFFICES ASSUME outcome = "ok"
             PROVE  ClosedInv'
  <2>1. CASE outcome # "ok"
    BY <2>1, EndedStays, ThrowingStays DEF vars, ClosedInv
  <2> QED
    BY <2>1
<1>1. StackOK /\ ClosedOK
  BY DEF TypeInv, ClosedInv, ClosedOK
<1>2. stack # <<>> => /\ Len(stack) \in Nat /\ Len(stack) > 0 /\ Len(stack) \in 1..Len(stack)
                      /\ Top = stack[Len(stack)]
  BY <1>1, TopFrame
<1>3. ASSUME ClosedOK', outcome' = "ok"
      PROVE  ClosedInv'
  BY <1>3 DEF ClosedInv, ClosedOK
<1>4. ASSUME outcome' \in {"deletedUsed", "endless", "raised"}, stack' = stack, stack # <<>>,
             outcome' = "raised" => ThrowsInClose
      PROVE  ClosedInv'
  BY <1>4, ThrowingStays DEF ClosedInv
<1> USE DEF Enters, At, Roots
<1>5. ASSUME stack # <<>>, Returns,
             (Top.at # "delete" /\ UNCHANGED alive) \/ Becomes(Top.pos, "deleted")
      PROVE  ClosedInv'
  BY <1>1, <1>3, <1>5, ClosedReturns DEF Returns
<1>6. ASSUME stack # <<>>, NEW f, GoesOn(f), Top.at # "delete",
             InDispatch(f) => InDispatch(Top) /\ f.msg = Top.msg,
             Top.at \in Roots => f.at \in Roots \cup {"delete"},
             UNCHANGED alive \/ (Becomes(f.pos, "closing") /\ f.at = "delete")
      PROVE  ClosedInv'
  BY <1>1, <1>2, <1>3, <1>6, ClosedGoesOn DEF GoesOn
<1>7. ASSUME stack # <<>>, NEW f, NEW g, Enters(f, g), Top.at # "delete",
             InDispatch(f) => InDispatch(Top) /\ f.msg = Top.msg,
             Top.at \in Roots => f.at \in Roots \cup {"delete"},
             UNCHANGED alive \/ (Becomes(f.pos, "closing") /\ f.at = "delete"),
             \/ ~InDispatch(g)
             \/ f.at # "delete" /\ \A k \in 1..(Len(stack) - 1) : stack[k].at # "delete"
             \/ Follows(g)',
             g.at # "delete"
      PROVE  ClosedInv'
  <2>1. CASE outcome' = "endless" /\ stack' = stack
    BY <1>4, <1>7, <2>1
  <2>2. CASE CallsFrom(f, g)
    <3>1. \A k \in 1..Len(stack') : k > Len(stack) => k = Len(stack) + 1 /\ stack'[k] = g
      BY <1>2, <1>7, <2>2 DEF CallsFrom
    <3>2. \/ Follows(g)'
          \/ \A j \in 1..Len(stack) : stack'[j].at # "delete"
      <4>1. ~InDispatch(g) => Follows(g)'
        BY DEF Follows
      <4> QED
        BY <1>2, <1>7, <2>2, <4>1 DEF CallsFrom
    <3>3. \A k \in 1..Len(stack') : k > Len(stack) =>
            \A j \in 1..Len(stack) : stack'[j].at = "delete" => Follows(stack[k])'
      BY <3>1, <3>2 DEF Follows
    <3> QED
      BY <1>1, <1>2, <1>3, <1>7, <2>2, <3>1, <3>3, ClosedGoesOn DEF CallsFrom
  <2> QED
    BY <1>7, <2>1, <2>2
<1>8. ASSUME NEW r \in Responders, EmitTo(r)
      PROVE  ClosedInv'
  <2> DEFINE f == Frame("emit", r, Top.msg)
             g == Frame("full", r, Top.msg)
  <2>1. At("emit") /\ stack # <<>> /\ Enters(f, g) /\ UNCHANGED alive
    BY <1>8, EmitToShape DEF EmitTo
  <2>2. f.at = "emit" /\ f.msg = Top.msg /\ g.at = "full"
    BY DEF Frame
  <2> HIDE DEF f, g
  <2> QED
    BY <1>7, <2>1, <2>2 DEF InDispatch
<1>9. ASSUME EmitEnds
      PROVE  ClosedInv'
  <2> DEFINE f == Frame("callbacks", 1, Top.msg)
  <2>1. At("emit") /\ stack # <<>> /\ (GoesOn(f) \/ Returns) /\ UNCHANGED alive
    BY <1>9, EmitEndsShape DEF EmitEnds
  <2>2. f.at = "callbacks" /\ f.msg = Top.msg
    BY DEF Frame
  <2> HIDE DEF f
  <2> QED
    BY <1>5, <1>6, <2>1, <2>2 DEF InDispatch
<1>10. ASSUME CallbacksEnd
       PROVE  ClosedInv'
  <2>1. UNCHANGED alive
    BY <1>10 DEF CallbacksEnd
  <2> QED
    BY <1>5, <1>10, <2>1, CallbacksEndShape
<1>11. NextCallback.at = "callbacks" /\ NextCallback.msg = Top.msg
  BY DEF NextCallback, Frame
<1>12. ASSUME SkipCallback \/ CallbackCounts \/ CallbackRegisters
       PROVE  ClosedInv'
  <2>1. UNCHANGED alive
    BY <1>12 DEF SkipCallback, Skip, CallbackCounts, CallbackRegisters
  <2> QED
    BY <1>6, <1>11, <1>12, <2>1, NextCallbackShape DEF InDispatch
<1>13. Farewell \in Topics /\ Answer \in Topics
  BY DispatchAssumption
<1>14. ASSUME CallbackAnswers
       PROVE  ClosedInv'
  <2>0. PICK g : g = Frame("emit", 0, NewId)
    OBVIOUS
  <2>1. At("callbacks") /\ stack # <<>> /\ Enters(NextCallback, g) /\ UNCHANGED alive
    BY <1>14, <2>0, CallbackAnswersShape DEF CallbackAnswers
  <2>2. g.at = "emit" /\ g.msg = NewId
    BY <2>0 DEF Frame
  <2>3. ASSUME NEW k \in 1..(Len(stack) - 1), stack[k].at = "delete"
        PROVE  Follows(g)'
    <3>1. "farewell" \in hooks /\ OfFarewell(log[Top.msg].topic)
      BY <1>1, <1>2, <2>1, <2>3 DEF ClosedOK, AfterFarewell, Follows, InDispatch
    <3>2. /\ Top.pos \in DOMAIN callbacks /\ callbacks[Top.pos].kind = "answers"
          /\ log[Top.msg].topic \in callbacks[Top.pos].topics
      <4>1. /\ Top.pos <= Len(callbacks) /\ callbacks[Top.pos].kind = "answers"
            /\ log[Top.msg].topic \in callbacks[Top.pos].topics
        BY <1>14 DEF CallbackAnswers, Run, Invoked
      <4>2. Top.pos \in 1..(Len(callbacks) + 1) /\ Len(callbacks) \in Nat
        BY <1>2, <2>1, CallFacts DEF InDispatch
      <4>3. DOMAIN callbacks = 1..Len(callbacks)
        BY DEF TypeInv, DataOK
      <4> QED
        BY <4>1, <4>2, <4>3
    <3>3. AnswersTo(log[Top.msg].topic)
      BY <3>2 DEF AnswersTo
    <3>4. AnswersTo(Farewell)
      BY <3>1, <3>3 DEF OfFarewell
    <3>5. OfFarewell(Answer)
      BY <3>4 DEF OfFarewell
    <3>6. log'[NewId].topic = Answer
      BY <1>13, <1>14, NewMessageEntry DEF CallbackAnswers
    <3>7. OfFarewell(Answer)' /\ "farewell" \in hooks'
      BY <3>1, <3>5, AnswersStay, ApplicationStays
    <3> QED
      BY <2>2, <3>6, <3>7 DEF Follows
  <2> QED
    BY <1>7, <1>11, <2>1, <2>2, <2>3 DEF InDispatch
<1>15. ASSUME OutputFull
       PROVE  ClosedInv'
  <2> DEFINE f == Frame("stillFull", Top.pos, Top.msg)
             g == Frame("full", Top.pos, NewId)
  <2>1. At("full") /\ stack # <<>> /\ (Enters(f, g) \/ GoesOn(f)) /\ UNCHANGED alive
    BY <1>15, OutputFullShape DEF OutputFull
  <2>2. f.at = "stillFull" /\ g.at = "full"
    BY DEF Frame
  <2> HIDE DEF f, g
  <2> QED
    BY <1>6, <1>7, <2>1, <2>2 DEF InDispatch
<1>16. ASSUME StillFull
       PROVE  ClosedInv'
  <2> DEFINE f == Frame("close", Top.pos, Top.msg)
  <2>1. /\ At("stillFull") /\ stack # <<>> /\ UNCHANGED alive
        /\ (outcome' = "deletedUsed" /\ stack' = stack) \/ GoesOn(f) \/ Returns
    <3>1. UNCHANGED alive
      BY <1>16 DEF StillFull
    <3>2. CASE ~Connected(Top.pos)
      BY <1>16, <3>1, <3>2 DEF StillFull
    <3>3. CASE Connected(Top.pos)
      <4>1. outcome' = outcome \/ outcome' = "endless"
        BY <1>16, <3>3 DEF StillFull, Continue
      <4>2. f \in AnyFrame
        BY <1>16, NewFrames DEF Places, StillFull
      <4>3. Continue(<<f>>) \/ Continue(<<>>)
        BY <1>16, <3>3 DEF StillFull
      <4> QED
        BY <1>1, <1>16, <3>1, <4>2, <4>3, ContinueOne, ContinueNone DEF StillFull
    <3> QED
      BY <3>2, <3>3
  <2>2. f.at = "close"
    BY DEF Frame
  <2> HIDE DEF f
  <2> QED
    BY <1>4, <1>5, <1>6, <2>1, <2>2 DEF InDispatch
<1>17. ASSUME CloseClient
       PROVE  ClosedInv'
  <2> DEFINE f == Frame("delete", Top.pos, Top.msg)
  <2>0. PICK g : g = Frame("emit", 0, NewId)
    OBVIOUS
  <2>1. /\ At("close") /\ stack # <<>> /\ Becomes(Top.pos, "closing")
        /\ \/ NewMessage(Farewell, "Data") /\ "farewell" \in hooks /\ Enters(f, g)
           \/ GoesOn(f)
    <3>1. At("close") /\ stack # <<>> /\ Becomes(Top.pos, "closing")
      BY <1>17 DEF CloseClient, Becomes
    <3>2. f \in AnyFrame /\ g \in AnyFrame
      BY <2>0, <3>1, NewFrames DEF Places
    <3>3. \/ /\ NewMessage(Farewell, "Data") /\ "farewell" \in hooks
             /\ Continue(<<f, g>>)
          \/ Continue(<<f>>)
      BY <1>17, <2>0 DEF CloseClient
    <3> QED
      BY <1>1, <3>1, <3>2, <3>3, ContinueOne, ContinueTwo
  <2>2. f.at = "delete" /\ f.pos = Top.pos /\ g.at = "emit" /\ g.msg = NewId
    BY <2>0 DEF Frame
  <2> HIDE DEF f
  <2>3. ASSUME NewMessage(Farewell, "Data"), "farewell" \in hooks
        PROVE  Follows(g)'
    <3>1. log'[NewId].topic = Farewell
      BY <1>13, <2>3, NewMessageEntry
    <3>2. OfFarewell(Farewell)'
      BY DEF OfFarewell
    <3> QED
      BY <2>2, <2>3, <3>1, <3>2, ApplicationStays DEF Follows
  <2> QED
    BY <1>6, <1>7, <2>1, <2>2, <2>3 DEF InDispatch
<1>18. ASSUME DeleteThis
       PROVE  ClosedInv'
  <2>1. At("delete") /\ stack # <<>>
    BY <1>18 DEF DeleteThis
  <2>2. \/ outcome' = "deletedUsed" /\ stack' = stack
        \/ Becomes(Top.pos, "deleted") /\ Continue(<<>>)
    BY <1>18 DEF DeleteThis, Becomes
  <2> QED
    BY <1>1, <1>4, <1>5, <2>1, <2>2, ContinueNone
<1>19. ASSUME Recover
       PROVE  ClosedInv'
  <2> DEFINE f == Frame("full", Top.pos, NewId)
  <2>1. At("recover") /\ stack # <<>> /\ UNCHANGED alive
    BY <1>19 DEF Recover
  <2>2. (outcome' = "deletedUsed" /\ stack' = stack) \/ Continue(<<f>>)
    BY <1>19 DEF Recover
  <2>3. f \in AnyFrame
    BY <2>1, NewFrames DEF Places
  <2>4. f.at = "full"
    BY DEF Frame
  <2> HIDE DEF f
  <2> QED
    BY <1>1, <1>4, <1>6, <2>1, <2>2, <2>3, <2>4, ContinueOne DEF InDispatch
<1>20. ASSUME EndInput \/ EndEvent
       PROVE  ClosedInv'
  <2>1. /\ At("input") \/ At("app") \/ At("eof")
        /\ stack # <<>> /\ UNCHANGED alive
    BY <1>20 DEF EndInput, EndEvent
  <2>2. (outcome' = "deletedUsed" /\ stack' = stack) \/ Continue(<<>>)
    BY <1>20 DEF EndInput, EndEvent
  <2> QED
    BY <1>1, <1>4, <1>5, <2>1, <2>2, ContinueNone
<1>21. ASSUME outcome' = "ok", UNCHANGED alive,
              ThrowsInClose \/ \A k \in 1..Len(stack) : stack[k].at # "delete",
              \A k \in 1..Len(stack') : stack'[k].at # "delete",
              stack' # <<>> => stack'[1].at \in Roots
       PROVE  ClosedInv'
  <2>1. RootsInv' /\ AfterFarewell'
    BY <1>21 DEF RootsInv, AfterFarewell
  <2>2. ThrowsInClose' \/ ClosingHeld'
    BY <1>1, <1>21, ThrowingStays DEF ClosedOK, ClosingHeld
  <2> QED
    BY <1>3, <1>21, <2>1, <2>2 DEF ClosedOK
<1>22. ASSUME CallbackThrows
       PROVE  ClosedInv'
  <2>1. /\ At("callbacks") /\ stack # <<>> /\ UNCHANGED alive
        /\ Top.pos <= Len(callbacks) /\ callbacks[Top.pos].kind = "throws"
        /\ log[Top.msg].topic \in callbacks[Top.pos].topics
    BY <1>22 DEF CallbackThrows, Run, Invoked
  <2>2. Top.pos \in DOMAIN callbacks
    <3>1. Top.pos \in 1..(Len(callbacks) + 1) /\ Len(callbacks) \in Nat
      BY <1>2, <2>1, CallFacts DEF InDispatch
    <3>2. DOMAIN callbacks = 1..Len(callbacks)
      BY DEF TypeInv, DataOK
    <3> QED
      BY <2>1, <3>1, <3>2
  <2>3. ASSUME NEW k \in 1..Len(stack), stack[k].at = "delete"
        PROVE  ThrowsInClose
    <3>1. "farewell" \in hooks /\ OfFarewell(log[Top.msg].topic)
      BY <1>1, <1>2, <2>1, <2>3 DEF ClosedOK, AfterFarewell, Follows, InDispatch
    <3> QED
      BY <2>1, <2>2, <3>1 DEF ThrowsInClose
  <2>4. Head(stack) = stack[1]
    BY <1>1, <2>1 DEF StackOK
  <2>5. CASE ~Caught(Head(stack))
    <3>1. stack[1].at \in {"close", "delete"}
      BY <1>1, <2>1, <2>4, <2>5 DEF ClosedOK, RootsInv, Caught
    <3>2. stack[1].at # "close"
      BY <1>2, <2>1 DEF CloseInv
    <3>3. ThrowsInClose
      BY <1>2, <2>1, <2>3, <3>1, <3>2
    <3> QED
      BY <1>4, <1>22, <2>1, <2>5, <3>3 DEF CallbackThrows
  <2>6. CASE Caught(Head(stack))
    <3> DEFINE f == Frame("close", Head(stack).pos, 0)
    <3>1. outcome' = "ok" /\ (stack' = <<f>> \/ stack' = <<>>)
      BY <1>22, <2>6 DEF CallbackThrows
    <3>2. f.at = "close"
      BY DEF Frame
    <3> HIDE DEF f
    <3>3. /\ \A k \in 1..Len(stack') : stack'[k].at # "delete"
          /\ stack' # <<>> => stack'[1].at \in Roots
      BY <3>1, <3>2
    <3> QED
      BY <1>21, <2>1, <2>3, <3>1, <3>3
  <2> QED
    BY <2>5, <2>6
<1>23. ASSUME NEW r \in Responders, PeerGone(r)
       PROVE  ClosedInv'
  <2>1. stack = <<>> /\ outcome' = "ok" /\ UNCHANGED alive
    BY <1>23 DEF PeerGone, Event
  <2>2. \A k \in 1..Len(stack) : stack[k].at # "delete"
    BY <2>1
  <2>3. /\ \A k \in 1..Len(stack') : stack'[k].at # "delete"
        /\ stack'[1].at \in {"eof", "close"}
    BY <1>23, GoneFields
  <2> QED
    BY <1>21, <2>1, <2>2, <2>3
<1>24. ASSUME NEW r \in Responders, NEW topic \in Topics, Subscribe(r, topic)
       PROVE  ClosedInv'
  <2> DEFINE f == Root("input", r)
             s == [i \in 1..Stored |-> Frame("recover", r, 0)]
  <2>1. /\ stack = <<>> /\ outcome' = "ok" /\ UNCHANGED alive
        /\ stack' = <<f>> \/ stack' = <<f>> \o s
    BY <1>24 DEF Subscribe, Event
  <2>2. f.at = "input" /\ \A i \in 1..Stored : s[i].at = "recover"
    BY DEF Root, Frame
  <2>3. Len(s) = Stored
    BY DispatchAssumption
  <2> HIDE DEF f, s
  <2>4. \A k \in 1..(1 + Stored) : (<<f>> \o s)[k] = IF k <= 1 THEN f ELSE s[k - 1]
    BY <2>3, DispatchAssumption
  <2>5. \A k \in 1..Len(stack') : stack'[k].at # "delete" /\ (k = 1 => stack'[k].at = "input")
    BY <2>1, <2>2, <2>3, <2>4, DispatchAssumption
  <2>6. stack'[1].at = "input"
    BY <2>1, <2>2, <2>3, <2>4, DispatchAssumption
  <2> QED
    BY <1>21, <2>1, <2>5, <2>6
<1>25. ASSUME NEW at \in {"input", "app"}, NEW from,
              stack = <<>>, outcome' = "ok", UNCHANGED alive,
              stack' = <<Root(at, from), Frame("emit", 0, NewId)>>
       PROVE  ClosedInv'
  <2> DEFINE f == Root(at, from)
             g == Frame("emit", 0, NewId)
  <2>1. f.at = at /\ g.at = "emit" /\ stack' = <<f, g>>
    BY <1>25 DEF Root, Frame
  <2> HIDE DEF f, g
  <2> QED
    BY <1>21, <1>25, <2>1
<1>26. ASSUME \/ \E p \in Publications : Publish(p)
              \/ \E topic \in AppTopics : AppSend(topic)
       PROVE  ClosedInv'
  BY <1>25, <1>26 DEF Publish, AppSend, Event
<1>27. ASSUME UNCHANGED <<alive, stack, outcome, log>>
       PROVE  ClosedInv'
  <2>1. RootsInv' /\ ClosingHeld' = ClosingHeld
    BY <1>1, <1>27 DEF ClosedOK, RootsInv, ClosingHeld
  <2>2. AfterFarewell'
    <3>1. \A k \in 1..Len(stack) : Follows(stack[k]) => Follows(stack[k])'
      BY <1>27, FollowsStays DEF Follows
    <3> QED
      BY <1>1, <1>27, <3>1 DEF ClosedOK, AfterFarewell
  <2>3. ThrowsInClose' \/ ClosingHeld'
    BY <1>1, <2>1, ThrowingStays DEF ClosedOK
  <2> QED
    BY <1>3, <1>27, <2>1, <2>2, <2>3 DEF ClosedOK
<1>28. ASSUME NEW r \in Responders, Written(r)
       PROVE  ClosedInv'
  BY <1>27, <1>28 DEF Written, historyVars
<1>29. CASE UNCHANGED vars
  BY <1>27, <1>29 DEF vars, historyVars
<1> QED
  BY <1>8, <1>9, <1>10, <1>12, <1>14, <1>15, <1>16, <1>17, <1>18, <1>19, <1>20, <1>22,
     <1>23, <1>24, <1>26, <1>28, <1>29 DEF Next

LEMMA ClosedInvariant == Spec => []ClosedInv
<1>1. Init => ClosedInv
  BY DEF Init, ClosedInv, RootsInv, AfterFarewell, ClosingHeld
<1> QED
  BY <1>1, ClosedStep, TypeInvariant, CloseInvariant, PTL DEF Spec

(* A responder that is to be closed is deleted, and no exception reaches   *)
(* the event loop, unless a callback throws while the application says     *)
(* farewell.                                                               *)
THEOREM ClosesToTheEnd == Spec => []ClosedIsDeleted
<1>1. ClosedInv => ClosedIsDeleted
  BY DEF ClosedInv, ClosedIsDeleted, ClosingHeld
<1> QED
  BY <1>1, ClosedInvariant, PTL


-----------------------------------------------------------------------------
(* How deep calls nest.                                                    *)

Loops ==
  \/ AnswersTo(Answer)
  \/ /\ limit # 0
     /\ \/ "warning" \in hooks
        \/ "farewell" \in hooks /\ \E r \in Responders : HearsFarewell(r)

(* The calls a frame may lead to, itself included: a dispatch calls a      *)
(* responder or a callback that answers, a responder is closed with a      *)
(* farewell, a callback answers that, and nobody hears the answer.  With   *)
(* no limit a responder is closed in the first call of onInput only.       *)
Height(f) ==
  LET topic == log[f.msg].topic
  IN  IF ~InDispatch(f) THEN 3
      ELSE IF topic = Answer THEN IF \E r \in Responders : Answer \in wants[r] THEN 4 ELSE 1
      ELSE IF topic = Farewell /\ limit # 0 /\ "farewell" \in hooks THEN 2
      ELSE 5

Room(k, f) ==
  /\ k + Height(f) <= Stored + 8
  /\ f.at \notin {"input", "app", "eof"}
  /\ f.at \in {"close", "delete"} => limit # 0 \/ k = 2

DepthOK == \A k \in 2..Len(stack) : Room(k, stack[k])

DepthInv == Loops \/ (outcome # "endless" /\ (outcome = "ok" => DepthOK))

LEMMA LoopsStay ==
  ASSUME TypeInv, [Next]_vars, Loops
  PROVE  Loops'
BY AnswersStay, ApplicationStays DEF Loops, HearsFarewell

LEMMA HeightRange ==
  ASSUME NEW f
  PROVE  Height(f) \in 1..5
BY DEF Height

LEMMA RoomStays ==
  ASSUME TypeInv, [Next]_vars, stack # <<>>, NEW k \in Nat, NEW j \in 1..Len(stack), NEW f,
         InDispatch(f) => InDispatch(stack[j]) /\ f.msg = stack[j].msg,
         f.at \notin {"input", "app", "eof"},
         f.at \in {"close", "delete"} => limit # 0 \/ k = 2,
         k + Height(stack[j]) <= Stored + 8,
         InDispatch(stack[j]) => InDispatch(f)
  PROVE  Room(k, f)'
<1>1. UNCHANGED <<hooks, limit, wants>>
  BY ApplicationStays
<1>2. CASE ~InDispatch(f)
  BY <1>1, <1>2 DEF Room, Height
<1>3. CASE InDispatch(f)
  <2>1. InDispatch(stack[j]) /\ f.msg = stack[j].msg /\ f.msg \in 1..Len(log)
    BY <1>3, CallFacts
  <2>2. log'[f.msg].topic = log[f.msg].topic
    BY <2>1, MessagesStay DEF SameMessage
  <2> QED
    BY <1>1, <1>3, <2>1, <2>2 DEF Room, Height
<1> QED
  BY <1>2, <1>3

(* The frames below the one on top keep their room.                        *)
LEMMA RoomBelow ==
  ASSUME TypeInv, [Next]_vars, stack # <<>>, DepthOK,
         Len(stack') \in Nat,
         \A k \in 1..(Len(stack) - 1) : stack'[k] = stack[k],
         \A k \in 2..Len(stack') : k >= Len(stack) => Room(k, stack[k])'
  PROVE  DepthOK'
<1>1. Len(stack) \in Nat /\ Len(stack) > 0
  BY TopFrame DEF TypeInv
<1> SUFFICES ASSUME NEW k \in 2..Len(stack'), k < Len(stack)
             PROVE  Room(k, stack[k])'
  BY <1>1 DEF DepthOK
<1>2. k \in 1..Len(stack) /\ stack'[k] = stack[k] /\ Room(k, stack[k])
  BY <1>1 DEF DepthOK
<1>3. \A f : f = stack[k] => Room(k, f)'
  BY <1>2, RoomStays DEF Room
<1> QED
  BY <1>2, <1>3 DEF Room

LEMMA EntersFits ==
  ASSUME StackOK, stack # <<>>, NEW f \in AnyFrame, NEW g \in AnyFrame, Continue(<<f, g>>),
         Len(stack) + 1 <= MaxDepth
  PROVE  CallsFrom(f, g)
<1>1. Len(stack) \in Nat /\ Len(<<f, g>>) = 2
  BY TopFrame
<1>2. Len(stack) - 1 + Len(<<f, g>>) <= MaxDepth
  BY <1>1
<1>3. outcome' = outcome /\ stack' = Front(stack) \o <<f, g>>
  BY <1>2 DEF Continue
<1>4. Len(Front(stack) \o <<f, g>>) # Len(stack)
  BY <1>1, BelowTop
<1> QED
  BY <1>3, <1>4, ContinueTwo

LEMMA DepthStep ==
  ASSUME MaxDepth >= Stored + 7,
         TypeInv, CloseInv, ClosedInv, DepthInv, [Next]_vars
  PROVE  DepthInv'
<1> SUFFICES ASSUME outcome = "ok", ~Loops
             PROVE  DepthInv'
  <2>1. CASE Loops
    BY <2>1, LoopsStay DEF DepthInv
  <2>2. CASE ~Loops /\ outcome # "ok"
    <3>1. UNCHANGED vars
      BY <2>2, EndedStays
    <3> QED
      BY <2>2, <3>1 DEF DepthInv, vars
  <2> QED
    BY <2>1, <2>2
<1>1. StackOK /\ RootsInv /\ DepthOK /\ Stored \in Nat /\ MaxDepth \in Nat
  BY DispatchAssumption DEF TypeInv, ClosedInv, DepthInv
<1>2. stack # <<>> => /\ Len(stack) \in Nat /\ Len(stack) > 0 /\ Len(stack) \in 1..Len(stack)
                      /\ Top = stack[Len(stack)]
  BY <1>1, TopFrame
<1>3. ASSUME outcome' \in {"deletedUsed", "raised"}
      PROVE  DepthInv'
  BY <1>3 DEF DepthInv
<1>4. ASSUME outcome' = "ok", DepthOK'
      PROVE  DepthInv'
  BY <1>4 DEF DepthInv
<1> USE DEF At, Roots
<1>5. ASSUME stack # <<>>, Returns
      PROVE  DepthInv'
  <2>1. \A k \in 2..Len(stack') : ~(k >= Len(stack))
    BY <1>2, <1>5 DEF Returns
  <2>2. Len(stack') \in Nat
    BY <1>5 DEF Returns
  <2>3. DepthOK'
    BY <1>1, <1>5, <2>1, <2>2, RoomBelow DEF Returns
  <2> QED
    BY <1>4, <1>5, <2>3 DEF Returns
<1>6. ASSUME stack # <<>>, NEW f, GoesOn(f),
             /\ InDispatch(f) => InDispatch(Top) /\ f.msg = Top.msg
             /\ InDispatch(Top) => InDispatch(f)
             /\ f.at \notin {"input", "app", "eof"}
             /\ f.at \in {"close", "delete"} /\ Len(stack) > 2 => limit # 0
      PROVE  DepthInv'
  <2>1. Len(stack') = Len(stack) /\ stack'[Len(stack)] = f
    BY <1>6 DEF GoesOn
  <2>2. ASSUME NEW k \in 2..Len(stack'), k >= Len(stack)
        PROVE  Room(k, f)'
    <3>1. k = Len(stack) /\ k \in 2..Len(stack) /\ k \in Nat
      BY <1>2, <1>6, <2>1, <2>2
    <3>2. Room(k, stack[k])
      BY <1>1, <3>1 DEF DepthOK
    <3> QED
      BY <1>2, <1>6, <3>1, <3>2, RoomStays DEF Room
  <2>3. DepthOK'
    <3>1. \A k \in 2..Len(stack') : k >= Len(stack) => Room(k, stack[k])'
      <4> SUFFICES ASSUME NEW k \in 2..Len(stack'), k >= Len(stack)
                   PROVE  Room(k, stack[k])'
        OBVIOUS
      <4>1. stack'[k] = f
        BY <1>2, <1>6, <2>1
      <4> QED
        BY <2>2, <4>1 DEF Room
    <3> QED
      BY <1>1, <1>2, <1>6, <2>1, <3>1, RoomBelow DEF GoesOn
  <2> QED
    BY <1>4, <1>6, <2>3 DEF GoesOn
<1>7. ASSUME stack # <<>>, NEW f \in AnyFrame, NEW g \in AnyFrame, Continue(<<f, g>>),
             /\ InDispatch(f) => InDispatch(Top) /\ f.msg = Top.msg
             /\ InDispatch(Top) => InDispatch(f)
             /\ f.at \notin {"input", "app", "eof"}
             /\ f.at \in {"close", "delete"} /\ Len(stack) > 2 => limit # 0,
             NEW n, n = Len(stack), Room(n + 1, g)'
      PROVE  DepthInv'
  <2>1. n + 1 <= MaxDepth
    <3>1. (n + 1) + Height(g)' <= Stored + 8
      BY <1>7 DEF Room
    <3>2. Height(g)' \in 1..5
      BY DEF Height
    <3> QED
      BY <1>1, <1>2, <1>7, <3>1, <3>2
  <2>2. CallsFrom(f, g)
    BY <1>1, <1>7, <2>1, EntersFits
  <2>3. ASSUME NEW k \in 2..Len(stack'), k >= Len(stack)
        PROVE  Room(k, stack[k])'
    <3>1. CASE k = n
      <4>1. k \in 2..Len(stack) /\ k \in Nat /\ stack'[k] = f
        BY <1>2, <1>7, <2>2, <3>1 DEF CallsFrom
      <4>2. Room(k, stack[k])
        BY <1>1, <4>1 DEF DepthOK
      <4>3. Room(k, f)'
        BY <1>2, <1>7, <3>1, <4>1, <4>2, RoomStays DEF Room
      <4> QED
        BY <4>1, <4>3 DEF Room
    <3>2. CASE k # n
      <4>1. k = n + 1 /\ stack'[k] = g
        BY <1>2, <1>7, <2>2, <2>3, <3>2 DEF CallsFrom
      <4> QED
        BY <1>7, <4>1 DEF Room
    <3> QED
      BY <3>1, <3>2
  <2>4. DepthOK'
    BY <1>1, <1>2, <1>7, <2>2, <2>3, RoomBelow DEF CallsFrom
  <2> QED
    BY <1>4, <2>2, <2>4 DEF CallsFrom
<1>8. ASSUME stack # <<>>, Top.at \notin Roots \cup {"delete"}
      PROVE  /\ Len(stack) \in 2..Len(stack) /\ Room(Len(stack), Top)
             /\ Len(stack) + Height(Top) <= Stored + 8
  BY <1>1, <1>2, <1>8 DEF RootsInv, DepthOK, Room
<1>9. ASSUME NEW n, NEW g, n = Len(stack), stack # <<>>, n + 1 + Height(g)' <= Stored + 8,
             g.at \in {"emit", "full"}
      PROVE  Room(n + 1, g)'
  BY <1>9 DEF Room
<1>10. ASSUME NEW r \in Responders, EmitTo(r)
       PROVE  DepthInv'
  <2>0. PICK f, g, n : /\ f = Frame("emit", r, Top.msg) /\ g = Frame("full", r, Top.msg)
                       /\ n = Len(stack)
    OBVIOUS
  <2>1. /\ Top.at = "emit" /\ stack # <<>> /\ Continue(<<f, g>>)
        /\ log[Top.msg].topic \in wants[r]
    BY <1>10, <2>0 DEF EmitTo, IsNext, Due, Subscribers
  <2>2. f \in AnyFrame /\ g \in AnyFrame
    BY <2>0, <2>1, NewFrames DEF Places
  <2>3. f.at = "emit" /\ f.msg = Top.msg /\ g.at = "full"
    BY <2>0 DEF Frame
  <2>4. Height(Top) \in 4..5
    BY <1>1, <2>1 DEF Height, InDispatch, Loops, HearsFarewell, OfFarewell
  <2>5. Height(g)' = 3
    BY <2>3 DEF Height, InDispatch
  <2>6. n + 1 + Height(g)' <= Stored + 8
    BY <1>1, <1>2, <1>8, <2>0, <2>1, <2>4, <2>5
  <2>7. Room(n + 1, g)'
    BY <1>9, <2>0, <2>1, <2>3, <2>6
  <2> QED
    BY <1>7, <2>0, <2>1, <2>2, <2>3, <2>7 DEF InDispatch
<1>11. ASSUME EmitEnds
       PROVE  DepthInv'
  <2> DEFINE f == Frame("callbacks", 1, Top.msg)
  <2>1. At("emit") /\ stack # <<>> /\ (GoesOn(f) \/ Returns)
    BY <1>11, EmitEndsShape
  <2>2. f.at = "callbacks" /\ f.msg = Top.msg
    BY DEF Frame
  <2> HIDE DEF f
  <2> QED
    BY <1>5, <1>6, <2>1, <2>2 DEF InDispatch
<1>12. ASSUME CallbacksEnd
       PROVE  DepthInv'
  BY <1>5, <1>12, CallbacksEndShape
<1>13. NextCallback.at = "callbacks" /\ NextCallback.msg = Top.msg
  BY DEF NextCallback, Frame
<1>14. ASSUME SkipCallback \/ CallbackCounts \/ CallbackRegisters
       PROVE  DepthInv'
  BY <1>6, <1>13, <1>14, NextCallbackShape DEF InDispatch
<1>15. Farewell \in Topics /\ Answer \in Topics
  BY DispatchAssumption
<1>16. ASSUME CallbackAnswers
       PROVE  DepthInv'
  <2>0. PICK f, g, n : f = NextCallback /\ g = Frame("emit", 0, NewId) /\ n = Len(stack)
    OBVIOUS
  <2>1. /\ Top.at = "callbacks" /\ stack # <<>> /\ Continue(<<f, g>>)
        /\ Top.pos <= Len(callbacks) /\ callbacks[Top.pos].kind = "answers"
        /\ log[Top.msg].topic \in callbacks[Top.pos].topics
    BY <1>16, <2>0 DEF CallbackAnswers, Run, Invoked
  <2>2. f \in AnyFrame /\ g \in AnyFrame
    BY <2>0, <2>1, NewFrames DEF Places, NextCallback
  <2>3. f.at = "callbacks" /\ f.msg = Top.msg /\ g.at = "emit" /\ g.msg = NewId
    BY <1>13, <2>0 DEF Frame
  <2>4. AnswersTo(log[Top.msg].topic)
    <3>1. Top.pos \in 1..(Len(callbacks) + 1) /\ Len(callbacks) \in Nat
      BY <1>2, <2>1, CallFacts DEF InDispatch
    <3>2. DOMAIN callbacks = 1..Len(callbacks)
      BY DEF TypeInv, DataOK
    <3>3. Top.pos \in DOMAIN callbacks
      BY <2>1, <3>1, <3>2
    <3> QED
      BY <2>1, <3>3 DEF AnswersTo
  <2>5. log[Top.msg].topic # Answer
    BY <2>4 DEF Loops
  <2>6. log'[g.msg].topic = Answer
    BY <1>15, <1>16, <2>3, NewMessageEntry DEF CallbackAnswers
  <2>7. UNCHANGED wants
    BY <2>1, ApplicationStays
  <2>8. Height(g)' = IF \E r \in Responders : Answer \in wants[r] THEN 4 ELSE 1
    BY <2>3, <2>6, <2>7 DEF Height, InDispatch
  <2>9. CASE log[Top.msg].topic = Farewell /\ limit # 0 /\ "farewell" \in hooks
    <3>1. \A r \in Responders : Answer \notin wants[r]
      BY <2>4, <2>9 DEF Loops, HearsFarewell, OfFarewell
    <3>2. Height(g)' = 1 /\ Height(Top) = 2
      BY <2>1, <2>5, <2>8, <2>9, <3>1 DEF Height, InDispatch
    <3>3. n + 1 + Height(g)' <= Stored + 8
      BY <1>1, <1>2, <1>8, <2>0, <2>1, <3>2
    <3> QED
      BY <1>7, <1>9, <2>0, <2>1, <2>2, <2>3, <3>3 DEF InDispatch
  <2>10. CASE ~(log[Top.msg].topic = Farewell /\ limit # 0 /\ "farewell" \in hooks)
    <3>1. Height(g)' \in {1, 4} /\ Height(Top) = 5
      BY <2>1, <2>5, <2>8, <2>10 DEF Height, InDispatch
    <3>2. n + 1 + Height(g)' <= Stored + 8
      BY <1>1, <1>2, <1>8, <2>0, <2>1, <3>1
    <3> QED
      BY <1>7, <1>9, <2>0, <2>1, <2>2, <2>3, <3>2 DEF InDispatch
  <2> QED
    BY <2>9, <2>10
<1>17. ASSUME OutputFull
       PROVE  DepthInv'
  <2> DEFINE f == Frame("stillFull", Top.pos, Top.msg)
  <2>1. Top.at = "full" /\ stack # <<>>
    BY <1>17 DEF OutputFull
  <2>2. f \in AnyFrame
    BY <2>1, NewFrames DEF Places
  <2>3. ~(Overflows(Top.pos) /\ "warning" \in hooks)
    BY DEF Overflows, Loops
  <2>4. Continue(<<f>>)
    BY <1>17, <2>3 DEF OutputFull
  <2>5. f.at = "stillFull"
    BY DEF Frame
  <2> HIDE DEF f
  <2>6. GoesOn(f)
    BY <1>1, <2>1, <2>2, <2>4, ContinueOne
  <2> QED
    BY <1>6, <2>1, <2>5, <2>6 DEF InDispatch
<1>18. ASSUME StillFull
       PROVE  DepthInv'
  <2> DEFINE f == Frame("close", Top.pos, Top.msg)
  <2>1. Top.at = "stillFull" /\ stack # <<>>
    BY <1>18 DEF StillFull
  <2>2. f \in AnyFrame
    BY <2>1, NewFrames DEF Places
  <2>3. \/ outcome' = "deletedUsed"
        \/ Overflows(Top.pos) /\ Continue(<<f>>)
        \/ Continue(<<>>)
    BY <1>18 DEF StillFull
  <2>4. f.at = "close"
    BY DEF Frame
  <2> HIDE DEF f
  <2> QED
    BY <1>1, <1>3, <1>5, <1>6, <2>1, <2>2, <2>3, <2>4, ContinueOne, ContinueNone
       DEF InDispatch, Overflows
<1>19. ASSUME CloseClient
       PROVE  DepthInv'
  <2>0. PICK f, g, n : /\ f = Frame("delete", Top.pos, Top.msg) /\ g = Frame("emit", 0, NewId)
                       /\ n = Len(stack)
    OBVIOUS
  <2>1. Top.at = "close" /\ stack # <<>>
    BY <1>19 DEF CloseClient
  <2>2. f \in AnyFrame /\ g \in AnyFrame
    BY <2>0, <2>1, NewFrames DEF Places
  <2>3. f.at = "delete" /\ g.at = "emit" /\ g.msg = NewId
    BY <2>0 DEF Frame
  <2>4. n > 1 => (limit # 0 \/ n = 2) /\ n + 3 <= Stored + 8
    <3>1. n > 1 => Room(n, Top)
      BY <1>1, <1>2, <2>0, <2>1 DEF DepthOK
    <3> QED
      BY <2>1, <3>1 DEF Room, Height, InDispatch
  <2>5. CASE "farewell" \notin hooks
    <3>1. Continue(<<f>>)
      BY <1>19, <2>0, <2>5 DEF CloseClient
    <3> QED
      BY <1>1, <1>6, <2>0, <2>1, <2>2, <2>3, <2>4, <3>1, ContinueOne DEF InDispatch
  <2>6. CASE "farewell" \in hooks
    <3>1. Continue(<<f, g>>) /\ NewMessage(Farewell, "Data")
      BY <1>19, <2>0, <2>6 DEF CloseClient
    <3>2. log'[g.msg].topic = Farewell
      BY <1>15, <2>3, <3>1, NewMessageEntry
    <3>3. UNCHANGED <<wants, hooks, limit>>
      BY <2>1, ApplicationStays
    <3>4. Height(g)' \in 1..5
      BY DEF Height
    <3>5. n > 1 /\ limit # 0 => Height(g)' <= 2
      <4> SUFFICES ASSUME n > 1, limit # 0
                   PROVE  Height(g)' <= 2
        OBVIOUS
      <4>1. \A r \in Responders : Farewell \notin wants[r]
        BY <2>4, <2>6 DEF Loops, HearsFarewell, OfFarewell
      <4> QED
        BY <2>3, <2>4, <2>6, <3>2, <3>3, <4>1 DEF Height, InDispatch
    <3>6. n + 1 + Height(g)' <= Stored + 8
      <4>1. n \in Nat /\ n >= 1
        BY <1>2, <2>0, <2>1
      <4> QED
        BY <1>1, <2>4, <3>4, <3>5, <4>1
    <3> QED
      BY <1>7, <1>9, <2>0, <2>1, <2>2, <2>3, <2>4, <3>1, <3>6 DEF InDispatch
  <2> QED
    BY <2>5, <2>6
<1>20. ASSUME DeleteThis
       PROVE  DepthInv'
  <2>1. stack # <<>> /\ (outcome' = "deletedUsed" \/ Continue(<<>>))
    BY <1>20 DEF DeleteThis
  <2> QED
    BY <1>1, <1>3, <1>5, <2>1, ContinueNone
<1>21. ASSUME Recover
       PROVE  DepthInv'
  <2> DEFINE f == Frame("full", Top.pos, NewId)
  <2>1. Top.at = "recover" /\ stack # <<>>
    BY <1>21 DEF Recover
  <2>2. outcome' = "deletedUsed" \/ Continue(<<f>>)
    BY <1>21 DEF Recover
  <2>3. f \in AnyFrame
    BY <2>1, NewFrames DEF Places
  <2>4. f.at = "full"
    BY DEF Frame
  <2> HIDE DEF f
  <2> QED
    BY <1>1, <1>3, <1>6, <2>1, <2>2, <2>3, <2>4, ContinueOne DEF InDispatch
<1>22. ASSUME EndInput \/ EndEvent
       PROVE  DepthInv'
  <2>1. stack # <<>> /\ (outcome' = "deletedUsed" \/ Continue(<<>>))
    BY <1>22 DEF EndInput, EndEvent
  <2> QED
    BY <1>1, <1>3, <1>5, <2>1, ContinueNone
<1>23. ASSUME outcome' = "ok", Len(stack') \in Nat, Len(stack') < 2
       PROVE  DepthInv'
  <2>1. DepthOK'
    BY <1>23 DEF DepthOK
  <2> QED
    BY <1>4, <1>23, <2>1
<1>24. ASSUME CallbackThrows
       PROVE  DepthInv'
  <2>1. PICK f : f = Frame("close", Head(stack).pos, 0)
    OBVIOUS
  <2>2. outcome' = "raised" \/ (outcome' = "ok" /\ (stack' = <<f>> \/ stack' = <<>>))
    BY <1>24, <2>1 DEF CallbackThrows
  <2>3. CASE stack' = <<f>>
    BY <1>3, <1>23, <2>2, <2>3
  <2>4. CASE stack' = <<>>
    <3>1. Len(stack') = 0
      BY <2>4
    <3> QED
      BY <1>3, <1>23, <2>2, <3>1
  <2> QED
    BY <1>3, <2>2, <2>3, <2>4
<1>25. ASSUME NEW r \in Responders, PeerGone(r)
       PROVE  DepthInv'
  <2>1. outcome' = "ok"
    BY <1>25 DEF PeerGone, Event
  <2>2. \A k \in 2..Len(stack') : k + 3 <= Stored + 8 /\ k = 2 /\ stack'[k].at = "close"
    <3>1. Len(stack') \in 1..2 /\ \A k \in 1..Len(stack') : k = 2 => stack'[k].at = "close"
      BY <1>25, GoneFields
    <3>2. \A n \in 1..2 : \A k \in 2..n : k = 2 /\ k \in 1..n
      OBVIOUS
    <3>3. \A k \in 2..Len(stack') : k = 2 /\ k \in 1..Len(stack')
      BY <3>1, <3>2, Zenon
    <3> QED
      BY <1>1, <3>1, <3>3
  <2>3. DepthOK'
    BY <2>2 DEF DepthOK, Room, Height, InDispatch
  <2> QED
    BY <1>4, <2>1, <2>3
<1>26. ASSUME NEW r \in Responders, NEW topic \in Topics, Subscribe(r, topic)
       PROVE  DepthInv'
  <2> DEFINE f == Root("input", r)
             s == [i \in 1..Stored |-> Frame("recover", r, 0)]
  <2>1. outcome' = "ok" /\ (stack' = <<f>> \/ stack' = <<f>> \o s)
    BY <1>26 DEF Subscribe, Event
  <2>2. \A i \in 1..Stored : s[i].at = "recover"
    BY DEF Frame
  <2>3. Len(s) = Stored
    BY DispatchAssumption
  <2> HIDE DEF f, s
  <2>4. \A k \in 1..(1 + Stored) : (<<f>> \o s)[k] = IF k <= 1 THEN f ELSE s[k - 1]
    BY <2>3, DispatchAssumption
  <2>5. \A k \in 2..Len(stack') : k + 3 <= Stored + 8 /\ stack'[k].at = "recover"
    BY <2>1, <2>2, <2>3, <2>4, DispatchAssumption
  <2>6. DepthOK'
    BY <2>5 DEF DepthOK, Room, Height, InDispatch
  <2> QED
    BY <1>4, <2>1, <2>6
<1>27. ASSUME NEW at \in {"input", "app"}, NEW from, outcome' = "ok",
              stack' = <<Root(at, from), Frame("emit", 0, NewId)>>
       PROVE  DepthInv'
  <2>1. PICK f, g : f = Root(at, from) /\ g = Frame("emit", 0, NewId)
    OBVIOUS
  <2>2. g.at = "emit" /\ stack' = <<f, g>>
    BY <1>27, <2>1 DEF Frame
  <2>3. Height(g)' \in 1..5
    BY DEF Height
  <2>4. 2 + Height(g)' <= Stored + 8
    BY <1>1, <2>3
  <2>5. Room(2, g)'
    BY <2>2, <2>4 DEF Room
  <2>6. \A k \in 2..Len(stack') : k = 2 /\ stack'[k] = g
    BY <2>2
  <2>7. DepthOK'
    <3> SUFFICES ASSUME NEW k \in 2..Len(stack')
                 PROVE  Room(k, stack[k])'
      BY DEF DepthOK
    <3> QED
      BY <2>5, <2>6 DEF Room
  <2> QED
    BY <1>4, <1>27, <2>7
<1>28. ASSUME \/ \E p \in Publications : Publish(p)
              \/ \E topic \in AppTopics : AppSend(topic)
       PROVE  DepthInv'
  BY <1>27, <1>28 DEF Publish, AppSend, Event
<1>29. ASSUME NEW r \in Responders, Written(r)
       PROVE  DepthInv'
  BY <1>23, <1>29 DEF Written
<1>30. CASE UNCHANGED vars
  <2>1. DepthOK'
    BY <1>1, <1>30 DEF vars, appVars, historyVars, DepthOK, Room, Height
  <2> QED
    BY <1>4, <1>30, <2>1 DEF vars
<1> QED
  BY <1>10, <1>11, <1>12, <1>14, <1>16, <1>17, <1>18, <1>19, <1>20, <1>21, <1>22,
     <1>24, <1>25, <1>26, <1>28, <1>29, <1>30 DEF Next

(* With room on the stack for what an event can need, calls that do not    *)
(* lead back to themselves come to an end, whoever subscribes to what.     *)
THEOREM CallsEnd ==
  ASSUME MaxDepth >= Stored + 7
  PROVE  Spec => []Unwinds
<1>1. Init => DepthInv
  BY DEF Init, DepthInv, DepthOK
<1>2. TypeInv /\ CloseInv /\ ClosedInv /\ DepthInv /\ [Next]_vars => DepthInv'
  BY DepthStep
<1>3. DepthInv => Unwinds
  BY DEF DepthInv, Loops, Unwinds
<1> QED
  BY <1>1, <1>2, <1>3, TypeInvariant, CloseInvariant, ClosedInvariant, PTL DEF Spec

-----------------------------------------------------------------------------
(* Who is used after it has been deleted.                                  *)

Sending(f) == f.at \in {"full", "stillFull", "close", "delete"}

OfOne(f) == Sending(f) \/ f.at \in {"input", "recover"}

Risk ==
  /\ limit # 0
  /\ \/ "recovery" \in hooks
     \/ stack # <<>> /\ stack[1].at = "input" /\ wants[stack[1].pos] # {}

(* The responder of a call is there, over the limit if it is closed for a  *)
(* message, and then a subscriber.                                         *)
Served(k, f) ==
  /\ OfOne(f) => Connected(f.pos)
  /\ f.msg # 0 /\ f.at \in {"close", "delete"} => Overflows(f.pos)
  /\ limit # 0 =>
       /\ f.at # "recover"
       /\ k > 1 => f.at # "input"
       /\ Sending(f) /\ f.msg # 0 => wants[f.pos] # {}

AllServed == \A k \in 1..Len(stack) : Served(k, stack[k])

(* A client that is closed for no message is closed by the event itself.   *)
ClosedFirst(k, f) ==
  f.at \in {"close", "delete"} /\ f.msg = 0 => k = 2 /\ stack[1].at = "eof"

EndsApart == \A k \in 2..Len(stack) : ClosedFirst(k, stack[k])

(* The client whose message is handled is no subscriber.                   *)
InputApart ==
  stack # <<>> /\ stack[1].at = "input" => Len(stack) = 1 \/ wants[stack[1].pos] = {}

(* A call that has sent a warning waits for the end of warnings.           *)
Warned ==
  \A j, k \in 1..Len(stack) : j < k =>
    /\ stack[j].at # "full"
    /\ stack[j].at = "stillFull" =>
         /\ "warning" \in hooks
         /\ Overflows(stack[j].pos)
         /\ stack[k].pos = stack[j].pos
         /\ stack[k].at = IF k = Len(stack) THEN "full" ELSE "stillFull"

(* Who is closed while it is closed hears farewells.                       *)
ClosedAgain ==
  \A j, k \in 1..Len(stack) :
    j < k /\ stack[j].at = "delete" /\ Sending(stack[k]) /\ stack[k].pos = stack[j].pos =>
      "farewell" \in hooks /\ HearsFarewell(stack[k].pos)

(* An emission that goes to r, but is not through with it.                 *)
EmitAhead(l, r) ==
  /\ l \in 1..Len(stack)
  /\ stack[l].at = "emit"
  /\ log[stack[l].msg].topic \in wants[r]
  /\ \/ stack[l].pos < r
     \/ l + 1 \in 1..Len(stack) /\ Sending(stack[l + 1]) /\ stack[l + 1].pos = r

(* The dispatch of a farewell which callback m answers, the answer going   *)
(* to r, that is not through with it.                                      *)
AnswerAhead(l, m, r) ==
  /\ l \in 1..Len(stack)
  /\ InDispatch(stack[l])
  /\ log[stack[l].msg].topic = Farewell
  /\ log[stack[l].msg].type = "Data"
  /\ Answer \in wants[r]
  /\ m \in 1..Len(callbacks)
  /\ callbacks[m].kind = "answers"
  /\ Farewell \in callbacks[m].topics
  /\ \/ Unreached(stack[l], m)
     \/ stack[l].pos = m + 1 /\ EmitAhead(l + 1, r)

(* Who hears farewells and is over the limit is closed again and again.    *)
Unfinished ==
  \A k \in 2..Len(stack) :
    (/\ stack[k].at = "delete" /\ stack[k].msg # 0
     /\ "farewell" \in hooks /\ HearsFarewell(stack[k].pos)) =>
      \/ EmitAhead(k + 1, stack[k].pos)
      \/ \E m \in 1..Len(callbacks) : AnswerAhead(k + 1, m, stack[k].pos)

SafeOK ==
  /\ AllServed
  /\ EndsApart
  /\ limit # 0 => InputApart /\ Warned /\ ClosedAgain /\ Unfinished

SafeInv ==
  /\ limit \in Nat
  /\ Risk \/ (outcome # "deletedUsed" /\ (outcome = "ok" => SafeOK))

(* A step of a call that is not cut short.                                 *)
InCall == stack # <<>> /\ Next /\ outcome' = "ok" /\ ~CallbackThrows

(* It leaves the frames below as they are.                                 *)
LEMMA StepBelow ==
  ASSUME TypeInv, InCall
  PROVE  /\ Len(stack') \in Nat /\ Len(stack') >= Len(stack) - 1
         /\ \A k \in 1..(Len(stack) - 1) : stack'[k] = stack[k]
         /\ \A k \in 1..Len(stack') :
              k >= Len(stack) /\ stack'[k].at = "delete" => k = Len(stack) /\ CloseClient
         /\ \A k \in 1..Len(stack') :
              k >= Len(stack) /\ stack'[k].at \in {"close", "delete"} /\ stack'[k].msg = 0 =>
                k = Len(stack) /\ Top.at = "close" /\ Top.msg = 0
<1>1. StackOK /\ stack # <<>> /\ outcome' = "ok"
  BY DEF TypeInv, InCall
<1>2. Len(stack) \in Nat /\ Len(stack) > 0
  BY <1>1, TopFrame
<1> USE DEF Enters, Fails
<1> DEFINE First(f) == f.at \in {"close", "delete"} /\ f.msg = 0
<1> DEFINE P == /\ Len(stack') \in Nat /\ Len(stack') >= Len(stack) - 1
                /\ \A k \in 1..(Len(stack) - 1) : stack'[k] = stack[k]
                /\ \A k \in 1..Len(stack') :
                     k >= Len(stack) /\ stack'[k].at = "delete" => k = Len(stack) /\ CloseClient
                /\ \A k \in 1..Len(stack') : k >= Len(stack) /\ First(stack'[k]) =>
                     k = Len(stack) /\ First(Top) /\ Top.at = "close"
<1>3. Returns => P
  BY <1>2 DEF Returns
<1>4. ASSUME NEW f, GoesOn(f), f.at # "delete" \/ CloseClient,
             First(f) => First(Top) /\ Top.at = "close"
      PROVE  P
  BY <1>2, <1>4 DEF GoesOn
<1>5. ASSUME NEW f, NEW g, CallsFrom(f, g), f.at # "delete" \/ CloseClient, g.at # "delete",
             First(f) => First(Top) /\ Top.at = "close", ~First(g)
      PROVE  P
  <2>1. /\ Len(stack') = Len(stack) + 1
        /\ stack'[Len(stack)] = f /\ stack'[Len(stack) + 1] = g
        /\ \A k \in 1..(Len(stack) - 1) : stack'[k] = stack[k]
    BY <1>5 DEF CallsFrom
  <2>2. \A k \in 1..Len(stack') : k >= Len(stack) => k = Len(stack) \/ k = Len(stack) + 1
    BY <1>2, <2>1
  <2> QED
    BY <1>2, <1>5, <2>1, <2>2
<1> HIDE DEF P
<1>6. ASSUME NEW r \in Responders, EmitTo(r)
      PROVE  P
  <2>1. CallsFrom(Frame("emit", r, Top.msg), Frame("full", r, Top.msg))
    BY <1>1, <1>6, EmitToShape
  <2> QED
    BY <1>5, <2>1 DEF Frame
<1>7. ASSUME EmitEnds
      PROVE  P
  BY <1>1, <1>3, <1>4, <1>7, EmitEndsShape DEF Frame
<1>8. ASSUME CallbacksEnd
      PROVE  P
  BY <1>3, <1>8, CallbacksEndShape
<1>9. NextCallback.at = "callbacks"
  BY DEF NextCallback, Frame
<1>10. ASSUME SkipCallback \/ CallbackCounts \/ CallbackRegisters
       PROVE  P
  BY <1>4, <1>9, <1>10, NextCallbackShape
<1>11. ASSUME CallbackAnswers
       PROVE  P
  <2>1. CallsFrom(NextCallback, Frame("emit", 0, NewId))
    BY <1>1, <1>11, CallbackAnswersShape
  <2>2. Frame("emit", 0, NewId).at = "emit"
    BY DEF Frame
  <2> QED
    BY <1>5, <1>9, <2>1, <2>2
<1>12. ASSUME OutputFull
       PROVE  P
  <2>1. \/ CallsFrom(Frame("stillFull", Top.pos, Top.msg), Frame("full", Top.pos, NewId))
        \/ GoesOn(Frame("stillFull", Top.pos, Top.msg))
    BY <1>1, <1>12, OutputFullShape
  <2>2. /\ Frame("stillFull", Top.pos, Top.msg).at = "stillFull"
        /\ Frame("full", Top.pos, NewId).at = "full"
    BY DEF Frame
  <2> QED
    BY <1>4, <1>5, <2>1, <2>2
<1>13. ASSUME StillFull
       PROVE  P
  <2>1. GoesOn(Frame("close", Top.pos, Top.msg)) \/ Returns
    BY <1>1, <1>13, StillFullShape
  <2>2. Top.msg # 0
    BY <1>1, <1>13, StillFullShape, TopFrame DEF Fits, At
  <2>3. PICK f : f = Frame("close", Top.pos, Top.msg)
    OBVIOUS
  <2>4. f.at # "delete" /\ f.msg # 0
    BY <2>2, <2>3 DEF Frame
  <2> QED
    BY <1>3, <1>4, <2>1, <2>3, <2>4
<1>14. ASSUME CloseClient
       PROVE  P
  <2>1. PICK f, g : f = Frame("delete", Top.pos, Top.msg) /\ g = Frame("emit", 0, NewId)
    OBVIOUS
  <2>2. CallsFrom(f, g) \/ GoesOn(f)
    BY <1>1, <1>14, <2>1, CloseClientShape
  <2>3. Top.at = "close" /\ f.msg = Top.msg /\ g.at = "emit"
    BY <1>14, <2>1 DEF CloseClient, At, Frame
  <2> QED
    BY <1>4, <1>5, <1>14, <2>2, <2>3
<1>15. ASSUME DeleteThis
       PROVE  P
  BY <1>1, <1>3, <1>15, DeleteThisShape
<1>16. ASSUME Recover
       PROVE  P
  <2>1. GoesOn(Frame("full", Top.pos, NewId))
    BY <1>1, <1>16, RecoverShape
  <2>2. Frame("full", Top.pos, NewId).at = "full"
    BY DEF Frame
  <2> QED
    BY <1>4, <2>1, <2>2
<1>17. ASSUME EndInput \/ EndEvent
       PROVE  P
  BY <1>1, <1>3, <1>17, EndShape
<1>18. P
  BY <1>1, <1>6, <1>7, <1>8, <1>10, <1>11, <1>12, <1>13, <1>14, <1>15, <1>16, <1>17
     DEF InCall, Next, Subscribe, PeerGone, Written, Publish, AppSend, Event
<1> QED
  BY <1>18 DEF P

(* What may come next.                                                     *)
LEMMA StepAt ==
  ASSUME InCall
  PROVE  /\ Top.at = "emit" => EmitEnds \/ \E q \in Responders : EmitTo(q)
         /\ Top.at = "callbacks" =>
              \/ CallbacksEnd \/ SkipCallback \/ CallbackCounts \/ CallbackRegisters
              \/ CallbackAnswers
         /\ Top.at = "full" => OutputFull
         /\ Top.at = "stillFull" => StillFull
         /\ Top.at = "close" => CloseClient
         /\ Top.at = "delete" => DeleteThis
         /\ Top.at = "recover" => Recover
         /\ Top.at \in {"input", "app", "eof"} => EndInput \/ EndEvent
<1>1. stack # <<>> /\ Next /\ ~CallbackThrows
  BY DEF InCall
<1>2. \/ \E q \in Responders : EmitTo(q)
      \/ EmitEnds \/ CallbacksEnd \/ SkipCallback \/ CallbackCounts \/ CallbackRegisters
      \/ CallbackAnswers \/ OutputFull \/ StillFull \/ CloseClient \/ DeleteThis
      \/ Recover \/ EndInput \/ EndEvent
  BY <1>1 DEF Next, Subscribe, PeerGone, Written, Publish, AppSend, Event
<1>3. /\ (\E q \in Responders : EmitTo(q)) \/ EmitEnds => Top.at = "emit"
      /\ CallbacksEnd \/ SkipCallback => Top.at = "callbacks"
      /\ CallbackCounts \/ CallbackRegisters \/ CallbackAnswers => Top.at = "callbacks"
      /\ OutputFull => Top.at = "full"
      /\ StillFull => Top.at = "stillFull"
      /\ CloseClient => Top.at = "close"
      /\ DeleteThis => Top.at = "delete"
      /\ Recover => Top.at = "recover"
      /\ EndInput => Top.at = "input"
      /\ EndEvent => Top.at \in {"app", "eof"}
  BY DEF EmitTo, EmitEnds, CallbacksEnd, SkipCallback, Skip, CallbackCounts,
         CallbackRegisters, CallbackAnswers, Run, Invoked, OutputFull, StillFull,
         CloseClient, DeleteThis, Recover, EndInput, EndEvent, At
<1> QED
  BY <1>2, <1>3

(* Nobody is deleted or gets less output but by its own deletion.          *)
LEMMA LifeKept ==
  ASSUME TypeInv, limit \in Nat, InCall
  PROVE  /\ UNCHANGED <<hooks, limit, wants>>
         /\ \A r \in Responders : ~(DeleteThis /\ Top.pos = r) =>
              /\ Connected(r) => Connected(r)'
              /\ Overflows(r) => Overflows(r)'
<1>1. stack # <<>> /\ Next /\ ~CallbackThrows
  BY DEF InCall
<1>2. UNCHANGED <<hooks, limit, wants>>
  BY <1>1, ApplicationStays
<1>3. \/ UNCHANGED alive
      \/ alive' = [alive EXCEPT ![Top.pos] = "closing"]
      \/ DeleteThis /\ alive' = [alive EXCEPT ![Top.pos] = "deleted"]
  BY <1>1 DEF Next, Subscribe, PeerGone, Written, Publish, AppSend, Event, EmitTo, EmitEnds,
     CallbacksEnd, SkipCallback, Skip, CallbackCounts, CallbackRegisters, CallbackAnswers,
     Run, OutputFull, StillFull, CloseClient, DeleteThis, Recover, EndInput, EndEvent
<1>4. \/ UNCHANGED size
      \/ \E q, i : AppendTo(q, i)
      \/ DeleteThis /\ size' = [size EXCEPT ![Top.pos] = 0]
  BY <1>1 DEF Next, Subscribe, PeerGone, Written, Publish, AppSend, Event, EmitTo, EmitEnds,
     CallbacksEnd, SkipCallback, Skip, CallbackCounts, CallbackRegisters, CallbackAnswers,
     Run, OutputFull, StillFull, CloseClient, DeleteThis, Recover, EndInput, EndEvent
<1> SUFFICES ASSUME NEW r \in Responders, ~(DeleteThis /\ Top.pos = r)
             PROVE  /\ Connected(r) => Connected(r)'
                    /\ Overflows(r) => Overflows(r)'
  BY <1>2
<1>5. alive \in [Responders -> {"open", "closing", "deleted"}] /\ size \in [Responders -> Nat]
  BY DEF TypeInv, DataOK
<1>6. Connected(r) => Connected(r)'
  BY <1>3, <1>5 DEF Connected
<1>7. size'[r] \in Nat /\ size'[r] >= size[r]
  <2>1. ASSUME NEW q, NEW i, AppendTo(q, i)
        PROVE  size'[r] \in Nat /\ size'[r] >= size[r]
    BY <1>5, <2>1 DEF AppendTo
  <2> QED
    BY <1>4, <1>5, <2>1
<1> QED
  BY <1>2, <1>5, <1>6, <1>7 DEF Overflows

(* Whoever is deleted has no other call in progress.                       *)
LEMMA DeletedAlone ==
  ASSUME TypeInv, CloseInv, SafeOK, outcome = "ok", stack # <<>>, Top.at = "delete",
         NEW j \in 1..(Len(stack) - 1), OfOne(stack[j])
  PROVE  stack[j].pos # Top.pos
<1> SUFFICES ASSUME stack[j].pos = Top.pos
             PROVE  FALSE
  OBVIOUS
<1> DEFINE n == Len(stack)
<1>1. n \in 2..n /\ n \in Nat /\ n \in 1..n /\ Top = stack[n] /\ j \in 1..n /\ j < n /\ n > 1
  BY TopFrame DEF TypeInv
<1>2. Served(n, stack[n]) /\ Served(j, stack[j])
  BY <1>1 DEF SafeOK, AllServed
<1>3. Top.msg # 0
  <2>1. ClosedFirst(n, stack[n])
    BY <1>1 DEF SafeOK, EndsApart
  <2>2. Top.msg = 0 => n = 2 /\ stack[1].at = "eof"
    BY <1>1, <2>1 DEF ClosedFirst
  <2>3. n = 2 => j = 1
    BY <1>1
  <2> QED
    BY <2>2, <2>3 DEF OfOne, Sending
<1>4. limit # 0
  BY <1>3, <1>1, <1>2 DEF Served, Overflows
<1>5. wants[Top.pos] # {}
  BY <1>3, <1>1, <1>2, <1>4 DEF Served, Sending
<1>6. CASE stack[j].at \in {"full", "stillFull"}
  BY <1>1, <1>4, <1>6 DEF SafeOK, Warned
<1>7. CASE stack[j].at = "close"
  BY <1>1, <1>7 DEF CloseInv
<1>8. CASE stack[j].at = "delete"
  <2>1. "farewell" \in hooks /\ HearsFarewell(Top.pos)
    BY <1>1, <1>4, <1>8 DEF SafeOK, ClosedAgain, Sending
  <2>2. n + 1 \notin 1..n
    BY <1>1
  <2> QED
    BY <1>3, <1>1, <1>4, <2>1, <2>2 DEF SafeOK, Unfinished, EmitAhead, AnswerAhead
<1>9. CASE stack[j].at = "input"
  <2>1. j = 1
    BY <1>1, <1>2, <1>4, <1>9 DEF Served
  <2> QED
    BY <1>1, <1>4, <1>5, <1>9, <2>1 DEF SafeOK, InputApart
<1>10. CASE stack[j].at = "recover"
  BY <1>2, <1>4, <1>10 DEF Served
<1> QED
  BY <1>6, <1>7, <1>8, <1>9, <1>10 DEF OfOne, Sending

(* An emission that is to come to r, who is over the limit, does not pass  *)
(* it by, and does not get through with it: it closes r again.             *)
LEMMA EmitAheadKept ==
  ASSUME TypeInv, limit \in Nat, SafeOK, limit # 0, outcome = "ok", InCall,
         NEW l \in Nat, NEW r \in Responders, Connected(r), Overflows(r),
         "farewell" \in hooks, HearsFarewell(r), EmitAhead(l, r)
  PROVE  EmitAhead(l, r)'
<1> DEFINE n == Len(stack)
<1>1. /\ n \in Nat /\ n \in 1..n /\ Top = stack[n] /\ stack # <<>> /\ outcome' = "ok"
      /\ l \in 1..n /\ stack[l].at = "emit" /\ log[stack[l].msg].topic \in wants[r]
      /\ \/ stack[l].pos < r
         \/ l + 1 \in 1..n /\ Sending(stack[l + 1]) /\ stack[l + 1].pos = r
  BY TopFrame DEF TypeInv, InCall, EmitAhead
<1>2. UNCHANGED wants
  BY LifeKept
<1>3. /\ Len(stack') \in Nat /\ Len(stack') >= n - 1
      /\ \A k \in 1..(n - 1) : stack'[k] = stack[k]
  BY StepBelow
<1>4. log'[stack[l].msg].topic = log[stack[l].msg].topic
  BY <1>1, CallFacts, MessagesStay DEF InCall, SameMessage, InDispatch
<1>5. ASSUME l < n, stack[l].pos < r
      PROVE  EmitAhead(l, r)'
  BY <1>1, <1>2, <1>3, <1>4, <1>5 DEF EmitAhead
<1>6. ASSUME l < n, ~(stack[l].pos < r), NEW f, Sending(f), f.pos = r,
             l + 1 \in 1..Len(stack'), stack'[l + 1] = f
      PROVE  EmitAhead(l, r)'
  BY <1>1, <1>2, <1>3, <1>4, <1>6 DEF EmitAhead, Sending
<1>7. CASE l + 1 < n
  <2>1. CASE stack[l].pos < r
    BY <1>1, <1>5, <1>7, <2>1
  <2>2. CASE ~(stack[l].pos < r)
    BY <1>1, <1>3, <1>6, <1>7, <2>2
  <2> QED
    BY <2>1, <2>2
<1>8. CASE l + 1 = n
  <2>1. CASE stack[l].pos < r
    BY <1>1, <1>5, <1>8, <2>1
  <2>2. CASE ~(stack[l].pos < r)
    <3>1. Sending(Top) /\ Top.pos = r /\ l < n /\ n >= 2
      BY <1>1, <1>8, <2>2
    <3>2. ASSUME NEW f, NEW g, Sending(f), f.pos = r, GoesOn(f) \/ CallsFrom(f, g)
          PROVE  EmitAhead(l, r)'
      BY <1>1, <1>6, <1>8, <2>2, <3>1, <3>2 DEF GoesOn, CallsFrom
    <3>3. CASE Top.at = "full"
      <4>1. OutputFull
        BY <3>3, StepAt
      <4>2. PICK f, g : /\ f = Frame("stillFull", Top.pos, Top.msg)
                        /\ g = Frame("full", Top.pos, NewId)
        OBVIOUS
      <4>3. GoesOn(f) \/ CallsFrom(f, g)
        BY <1>1, <4>1, <4>2, OutputFullShape DEF Enters
      <4>4. Sending(f) /\ f.pos = r
        BY <3>1, <4>2 DEF Sending, Frame
      <4> QED
        BY <3>2, <4>3, <4>4
    <3>4. CASE Top.at = "stillFull"
      <4>1. StillFull
        BY <3>4, StepAt
      <4>2. PICK f : f = Frame("close", Top.pos, Top.msg)
        OBVIOUS
      <4>3. Continue(<<f>>)
        BY <3>1, <4>1, <4>2 DEF StillFull
      <4>4. GoesOn(f)
        BY <1>1, <4>2, <4>3, NewFrames, ContinueOne DEF Places, TypeInv
      <4>5. Sending(f) /\ f.pos = r
        BY <3>1, <4>2 DEF Sending, Frame
      <4> QED
        BY <3>2, <4>4, <4>5
    <3>5. CASE Top.at = "close"
      <4>1. CloseClient
        BY <3>5, StepAt
      <4>2. PICK f, g : /\ f = Frame("delete", Top.pos, Top.msg)
                        /\ g = Frame("emit", 0, NewId)
        OBVIOUS
      <4>3. GoesOn(f) \/ CallsFrom(f, g)
        BY <1>1, <4>1, <4>2, CloseClientShape DEF Enters
      <4>4. Sending(f) /\ f.pos = r
        BY <3>1, <4>2 DEF Sending, Frame
      <4> QED
        BY <3>2, <4>3, <4>4
    <3>6. CASE Top.at = "delete"
      <4>1. n \in 2..n /\ n + 1 \notin 1..n
        BY <1>1, <3>1
      <4>2. ClosedFirst(n, stack[n])
        BY <4>1 DEF SafeOK, EndsApart
      <4>3. Top.msg # 0
        BY <1>1, <3>1, <3>6, <4>2 DEF ClosedFirst
      <4> QED
        BY <1>1, <3>1, <3>6, <4>1, <4>3 DEF SafeOK, Unfinished, EmitAhead, AnswerAhead
    <3> QED
      BY <3>1, <3>3, <3>4, <3>5, <3>6 DEF Sending
  <2> QED
    BY <2>1, <2>2
<1>9. CASE l = n
  <2>1. Top.at = "emit" /\ Top.pos < r /\ log[Top.msg].topic \in wants[r]
    BY <1>1, <1>9
  <2>2. r \in Due
    <3>1. r \in Subscribers(log[Top.msg].topic)
      BY <2>1 DEF Subscribers
    <3>2. r \in Nat /\ Top.pos \in Nat
      BY <1>1, DispatchAssumption, TopFrame DEF TypeInv
    <3> QED
      BY <2>1, <3>1, <3>2 DEF Due
  <2>3. ASSUME NEW q \in Responders, EmitTo(q)
        PROVE  EmitAhead(l, r)'
    <3>1. PICK f, g : f = Frame("emit", q, Top.msg) /\ g = Frame("full", q, Top.msg)
      OBVIOUS
    <3>2. CallsFrom(f, g)
      BY <1>1, <2>3, <3>1, EmitToShape DEF Enters
    <3>3. q <= r /\ q \in Nat /\ r \in Nat
      BY <2>2, <2>3, DispatchAssumption DEF EmitTo, IsNext
    <3>4. /\ f.at = "emit" /\ f.pos = q /\ f.msg = Top.msg
          /\ g.at = "full" /\ g.pos = q
      BY <3>1 DEF Frame
    <3>5. /\ Len(stack') = n + 1 /\ stack'[l] = f /\ stack'[l + 1] = g
      BY <1>9, <3>2 DEF CallsFrom
    <3>6. l \in 1..Len(stack') /\ l + 1 \in 1..Len(stack')
      BY <1>1, <1>9, <3>5
    <3>7. log'[f.msg].topic \in wants'[r]
      BY <1>1, <1>2, <1>4, <1>9, <3>4
    <3>8. f.pos < r \/ (Sending(g) /\ g.pos = r)
      BY <3>3, <3>4 DEF Sending
    <3> QED
      BY <3>4, <3>5, <3>6, <3>7, <3>8 DEF EmitAhead, Sending
  <2>4. ASSUME EmitEnds
        PROVE  FALSE
    <3>1. Due \subseteq Nat
      BY DispatchAssumption DEF Due, Subscribers
    <3>2. PICK q \in Due : \A x \in Due : q <= x
      BY <2>2, <3>1, LeastNatural
    <3>3. q \in Responders /\ IsNext(q)
      BY <3>2 DEF IsNext, Due, Subscribers
    <3> QED
      BY <2>4, <3>3 DEF EmitEnds
  <2> QED
    BY <2>1, <2>3, <2>4, StepAt
<1> QED
  BY <1>1, <1>7, <1>8, <1>9

(* A callback that is to answer the farewell to r does so, and the answer  *)
(* goes to r.                                                              *)
LEMMA AnswerAheadKept ==
  ASSUME TypeInv, limit \in Nat, SafeOK, limit # 0, outcome = "ok", InCall,
         NEW l \in Nat, NEW m, NEW r \in Responders, Connected(r), Overflows(r),
         "farewell" \in hooks, HearsFarewell(r), AnswerAhead(l, m, r)
  PROVE  AnswerAhead(l, m, r)'
<1> DEFINE n == Len(stack)
<1>1. /\ n \in Nat /\ n \in 1..n /\ Top = stack[n] /\ stack # <<>> /\ outcome' = "ok"
      /\ l \in 1..n /\ InDispatch(stack[l]) /\ log[stack[l].msg].topic = Farewell
      /\ log[stack[l].msg].type = "Data" /\ Answer \in wants[r]
      /\ m \in 1..Len(callbacks) /\ callbacks[m].kind = "answers"
      /\ Farewell \in callbacks[m].topics
      /\ Unreached(stack[l], m) \/ (stack[l].pos = m + 1 /\ EmitAhead(l + 1, r))
  BY TopFrame DEF TypeInv, InCall, AnswerAhead
<1>2. UNCHANGED wants
  BY LifeKept
<1>3. /\ Len(stack') \in Nat /\ Len(stack') >= n - 1
      /\ \A k \in 1..(n - 1) : stack'[k] = stack[k]
  BY StepBelow
<1>4. /\ log'[stack[l].msg].topic = Farewell /\ log'[stack[l].msg].type = "Data"
  BY <1>1, CallFacts, MessagesStay DEF InCall, SameMessage
<1>5. /\ m \in 1..Len(callbacks') /\ callbacks'[m] = callbacks[m]
      /\ Len(callbacks) \in Nat /\ m \in Nat
  BY <1>1, ApplicationStays DEF InCall
<1>6. ASSUME NEW f, l \in 1..Len(stack'), stack'[l] = f, InDispatch(f), f.msg = stack[l].msg,
             Unreached(f, m) \/ (f.pos = m + 1 /\ EmitAhead(l + 1, r)')
      PROVE  AnswerAhead(l, m, r)'
  BY <1>1, <1>2, <1>4, <1>5, <1>6 DEF AnswerAhead, InDispatch, Unreached
<1>7. CASE l < n
  <2>1. l \in 1..Len(stack') /\ stack'[l] = stack[l] /\ l + 1 \in Nat
    BY <1>1, <1>3, <1>7
  <2>2. EmitAhead(l + 1, r) => EmitAhead(l + 1, r)'
    BY <2>1, EmitAheadKept
  <2> QED
    BY <1>1, <1>6, <2>1, <2>2
<1>8. CASE l = n
  <2>1. /\ InDispatch(Top) /\ log[Top.msg].topic = Farewell /\ log[Top.msg].type = "Data"
        /\ Unreached(Top, m)
    BY <1>1, <1>8 DEF EmitAhead
  <2>2. ASSUME NEW f, NEW g, GoesOn(f) \/ CallsFrom(f, g), InDispatch(f), f.msg = Top.msg,
               Unreached(f, m)
        PROVE  AnswerAhead(l, m, r)'
    BY <1>1, <1>6, <1>8, <2>2 DEF GoesOn, CallsFrom
  <2>3. ASSUME NEW q \in Responders, EmitTo(q)
        PROVE  AnswerAhead(l, m, r)'
    <3>1. PICK f, g : f = Frame("emit", q, Top.msg) /\ g = Frame("full", q, Top.msg)
      OBVIOUS
    <3>2. CallsFrom(f, g)
      BY <1>1, <2>3, <3>1, EmitToShape DEF Enters
    <3>3. f.at = "emit" /\ f.msg = Top.msg
      BY <3>1 DEF Frame
    <3> QED
      BY <2>2, <3>2, <3>3 DEF InDispatch, Unreached
  <2>4. ASSUME EmitEnds
        PROVE  AnswerAhead(l, m, r)'
    <3>1. PICK f : f = Frame("callbacks", 1, Top.msg)
      OBVIOUS
    <3>2. GoesOn(f)
      BY <2>1, <2>4, <3>1, EmitEndsShape
    <3>3. f.at = "callbacks" /\ f.pos = 1 /\ f.msg = Top.msg /\ 1 <= m
      BY <1>1, <3>1 DEF Frame
    <3> QED
      BY <2>2, <3>2, <3>3 DEF InDispatch, Unreached
  <2>5. CASE Top.at = "callbacks"
    <3>1. /\ Top.pos <= m /\ Top.pos \in Nat /\ Top.pos <= Len(callbacks)
      BY <1>1, <1>5, <2>1, <2>5, TopFrame DEF Unreached, TypeInv
    <3>2. /\ NextCallback.at = "callbacks" /\ NextCallback.msg = Top.msg
          /\ NextCallback.pos = Top.pos + 1
      BY DEF NextCallback, Frame
    <3>3. ~CallbacksEnd
      BY <3>1 DEF CallbacksEnd
    <3>4. CASE Top.pos # m
      <4>1. InDispatch(NextCallback) /\ Unreached(NextCallback, m)
        BY <1>5, <3>1, <3>2, <3>4 DEF InDispatch, Unreached
      <4>2. ASSUME SkipCallback \/ CallbackCounts \/ CallbackRegisters
            PROVE  AnswerAhead(l, m, r)'
        BY <2>2, <3>2, <4>1, <4>2, NextCallbackShape
      <4>3. ASSUME CallbackAnswers
            PROVE  AnswerAhead(l, m, r)'
        <5>1. PICK g : g = Frame("emit", 0, NewId)
          OBVIOUS
        <5>2. CallsFrom(NextCallback, g)
          BY <1>1, <4>3, <5>1, CallbackAnswersShape DEF Enters
        <5> QED
          BY <2>2, <3>2, <4>1, <5>2
      <4> QED
        BY <2>5, <3>3, <4>2, <4>3, StepAt
    <3>5. CASE Top.pos = m
      <4>1. Invoked /\ callbacks[Top.pos].kind = "answers"
        BY <1>1, <2>1, <2>5, <3>1, <3>5 DEF Invoked, At
      <4>2. CallbackAnswers
        BY <2>5, <3>3, <4>1, StepAt
           DEF SkipCallback, Skip, CallbackCounts, CallbackRegisters, Run
      <4>3. PICK f, g : f = NextCallback /\ g = Frame("emit", 0, NewId)
        OBVIOUS
      <4>4. CallsFrom(f, g)
        BY <1>1, <4>2, <4>3, CallbackAnswersShape DEF Enters
      <4>5. log'[NewId].topic = Answer
        BY <4>2, NewMessageEntry, DispatchAssumption DEF CallbackAnswers
      <4>6. g.at = "emit" /\ g.pos = 0 /\ g.msg = NewId /\ 0 < r
        BY <4>3, DispatchAssumption DEF Frame
      <4>7. /\ Len(stack') = n + 1 /\ stack'[l] = f /\ stack'[l + 1] = g
            /\ l \in 1..Len(stack') /\ l + 1 \in 1..Len(stack')
        BY <1>1, <1>8, <4>4 DEF CallsFrom
      <4>8. log'[g.msg].topic \in wants'[r]
        BY <1>1, <1>2, <4>5, <4>6
      <4>9. EmitAhead(l + 1, r)'
        BY <4>6, <4>7, <4>8 DEF EmitAhead
      <4>10. InDispatch(f) /\ f.msg = stack[l].msg /\ f.pos = m + 1
        BY <1>1, <1>8, <3>2, <3>5, <4>3 DEF InDispatch
      <4> QED
        BY <1>6, <4>7, <4>9, <4>10
    <3> QED
      BY <3>4, <3>5
  <2> QED
    BY <2>1, <2>3, <2>4, <2>5, StepAt DEF InDispatch
<1> QED
  BY <1>1, <1>7, <1>8

LEMMA UnfinishedStep ==
  ASSUME TypeInv, limit \in Nat, CloseInv, SafeOK, limit # 0, outcome = "ok", InCall
  PROVE  Unfinished'
<1> SUFFICES ASSUME NEW k \in 2..Len(stack'), NEW r, r = stack'[k].pos,
                    stack'[k].at = "delete", stack'[k].msg # 0,
                    "farewell" \in hooks, HearsFarewell(r)'
             PROVE  \/ EmitAhead(k + 1, r)'
                    \/ \E m \in 1..Len(callbacks') : AnswerAhead(k + 1, m, r)'
  <2>1. UNCHANGED hooks
    BY LifeKept
  <2> QED
    BY <2>1 DEF Unfinished
<1> DEFINE n == Len(stack)
<1>1. /\ n \in Nat /\ n \in 1..n /\ Top = stack[n] /\ stack # <<>> /\ outcome' = "ok"
      /\ [Next]_vars
  BY TopFrame DEF TypeInv, InCall
<1>2. UNCHANGED wants
  BY LifeKept
<1>3. /\ Len(stack') \in Nat /\ Len(stack') >= n - 1
      /\ \A j \in 1..(n - 1) : stack'[j] = stack[j]
      /\ \A j \in 1..Len(stack') :
           j >= n /\ stack'[j].at = "delete" => j = n /\ CloseClient
  BY StepBelow
<1>4. HearsFarewell(r)
  BY <1>1, <1>2, AnswersStay DEF HearsFarewell
<1>5. CASE k < n
  <2>1. /\ k \in 2..n /\ stack[k].at = "delete" /\ r = stack[k].pos
        /\ stack[k].msg # 0
    BY <1>1, <1>3, <1>5
  <2>2. r \in Responders /\ Connected(r) /\ Overflows(r)
    <3>1. Served(k, stack[k]) /\ Fits(stack[k], Len(log), Len(callbacks))
      BY <1>1, <2>1 DEF SafeOK, AllServed, TypeInv, StackOK
    <3> QED
      BY <2>1, <3>1 DEF Served, OfOne, Sending, Fits
  <2>3. \/ EmitAhead(k + 1, r)
        \/ \E m \in 1..Len(callbacks) : AnswerAhead(k + 1, m, r)
    BY <1>4, <2>1 DEF SafeOK, Unfinished
  <2>4. k + 1 \in Nat
    BY <1>1, <2>1
  <2>5. CASE EmitAhead(k + 1, r)
    BY <1>4, <2>2, <2>4, <2>5, EmitAheadKept
  <2>6. ASSUME NEW m \in 1..Len(callbacks), AnswerAhead(k + 1, m, r)
        PROVE  \E x \in 1..Len(callbacks') : AnswerAhead(k + 1, x, r)'
    <3>1. AnswerAhead(k + 1, m, r)'
      BY <1>4, <2>2, <2>4, <2>6, AnswerAheadKept
    <3>2. m \in 1..Len(callbacks')
      BY <1>1, ApplicationStays
    <3> QED
      BY <3>1, <3>2
  <2> QED
    BY <2>3, <2>5, <2>6
<1>6. CASE k >= n
  <2>1. k = n /\ CloseClient
    BY <1>1, <1>3, <1>6
  <2>2. PICK f, g : f = Frame("delete", Top.pos, Top.msg) /\ g = Frame("emit", 0, NewId)
    OBVIOUS
  <2>3. NewMessage(Farewell, "Data") /\ CallsFrom(f, g)
    <3>1. At("close") /\ NewMessage(Farewell, "Data") /\ Continue(<<f, g>>)
      BY <2>1, <2>2 DEF CloseClient
    <3>2. f \in AnyFrame /\ g \in AnyFrame
      BY <1>1, <2>2, NewFrames DEF Places
    <3> QED
      BY <1>1, <3>1, <3>2, ContinueTwo DEF TypeInv
  <2>4. /\ g.at = "emit" /\ g.pos = 0 /\ g.msg = NewId
        /\ f.pos = Top.pos /\ f.at = "delete"
    BY <2>2 DEF Frame
  <2>5. /\ Len(stack') = n + 1 /\ stack'[k + 1] = g /\ k + 1 \in 1..Len(stack')
        /\ stack'[k] = f
    BY <1>1, <2>1, <2>3 DEF CallsFrom
  <2>6. log'[NewId].topic = Farewell /\ log'[NewId].type = "Data"
    BY <2>3, NewMessageEntry, DispatchAssumption
  <2>7. r \in Responders /\ 0 < r
    <3>1. Top.pos \in Responders
      BY <1>1, <2>1, TopFrame DEF CloseClient, At, Fits, TypeInv
    <3>2. r = Top.pos
      BY <2>4, <2>5
    <3>3. \A x \in Responders : 0 < x
      BY DispatchAssumption
    <3> QED
      BY <3>1, <3>2, <3>3
  <2>8. CASE Farewell \in wants[r]
    <3>1. log'[g.msg].topic \in wants'[r]
      BY <1>2, <2>4, <2>6, <2>8
    <3>2. EmitAhead(k + 1, r)'
      BY <2>4, <2>5, <2>7, <3>1 DEF EmitAhead
    <3> QED
      BY <3>2
  <2>9. CASE Answer \in wants[r] /\ AnswersTo(Farewell)
    <3>1. DOMAIN callbacks = 1..Len(callbacks)
      BY DEF TypeInv, DataOK
    <3>2. PICK m \in 1..Len(callbacks) :
            callbacks[m].kind = "answers" /\ Farewell \in callbacks[m].topics
      BY <2>9, <3>1 DEF AnswersTo
    <3>3. m \in 1..Len(callbacks') /\ callbacks'[m] = callbacks[m]
      BY <1>1, ApplicationStays
    <3>4. AnswerAhead(k + 1, m, r)'
      BY <1>2, <2>4, <2>5, <2>6, <2>9, <3>2, <3>3 DEF AnswerAhead, InDispatch, Unreached
    <3> QED
      BY <3>3, <3>4
  <2> QED
    BY <1>4, <2>8, <2>9 DEF HearsFarewell, OfFarewell
<1> QED
  BY <1>1, <1>5, <1>6

SafeCall ==
  /\ TypeInv /\ CloseInv /\ ClosedInv
  /\ limit \in Nat /\ SafeOK
  /\ outcome = "ok" /\ InCall

LEMMA CallIsSafe ==
  ASSUME SafeCall
  PROVE  /\ TypeInv /\ CloseInv /\ SafeOK /\ AllServed /\ InCall /\ [Next]_vars
         /\ limit \in Nat /\ limit' = limit /\ hooks' = hooks /\ wants' = wants
         /\ limit # 0 => InputApart /\ Warned /\ ClosedAgain
         /\ RootsInv /\ AfterFarewell
         /\ outcome = "ok" /\ outcome' = "ok" /\ stack # <<>>
         /\ Len(stack) \in Nat /\ Len(stack) > 0 /\ Len(stack) \in 1..Len(stack)
         /\ Top = stack[Len(stack)]
         /\ \A p : HearsFarewell(p)' <=> HearsFarewell(p)
<1>1. TypeInv /\ InCall /\ limit \in Nat
  BY DEF SafeCall
<1>2. stack # <<>> /\ [Next]_vars
  BY <1>1 DEF InCall
<1>3. \A p : HearsFarewell(p)' <=> HearsFarewell(p)
  BY <1>1, <1>2, LifeKept, AnswersStay DEF HearsFarewell
<1>4. limit' = limit /\ hooks' = hooks /\ wants' = wants
  BY <1>1, LifeKept
<1>5. /\ Len(stack) \in Nat /\ Len(stack) > 0 /\ Len(stack) \in 1..Len(stack)
      /\ Top = stack[Len(stack)]
  BY <1>1, <1>2, TopFrame DEF TypeInv
<1> QED
  BY <1>1, <1>2, <1>3, <1>4, <1>5 DEF SafeCall, SafeOK, InCall, ClosedInv

(* The responders of the frames below the one on top.                      *)
LEMMA ServedBelow ==
  ASSUME SafeCall, NEW k \in 1..(Len(stack) - 1), NEW f, f = stack[k]
  PROVE  Served(k, f)'
<1>1. /\ TypeInv /\ CloseInv /\ SafeOK /\ InCall /\ limit \in Nat /\ limit' = limit
      /\ wants' = wants /\ outcome = "ok" /\ stack # <<>> /\ Len(stack) \in Nat
  BY CallIsSafe
<1>2. k \in 1..Len(stack) /\ Served(k, f)
  BY <1>1 DEF SafeOK, AllServed
<1>3. OfOne(f) => f.pos \in Responders
  BY <1>1, <1>2 DEF TypeInv, StackOK, Fits, OfOne, Sending
<1>4. OfOne(f) => ~(DeleteThis /\ Top.pos = f.pos)
  BY <1>1, DeletedAlone DEF DeleteThis, At
<1>5. OfOne(f) => /\ Connected(f.pos) => Connected(f.pos)'
                  /\ Overflows(f.pos) => Overflows(f.pos)'
  BY <1>1, <1>3, <1>4, LifeKept
<1> QED
  BY <1>1, <1>2, <1>5 DEF Served, OfOne, Sending

(* The rest of the invariant, one part after the other.                    *)
StaysSafe ==
  /\ AllServed'
  /\ limit # 0 => InputApart' /\ Warned' /\ ClosedAgain'

(* A warning has been sent below: the call on top is for the same          *)
(* responder and about to warn again.                                      *)
LEMMA WarnedTop ==
  ASSUME SafeCall, limit # 0, NEW j \in 1..(Len(stack) - 1), stack[j].at = "stillFull"
  PROVE  /\ "warning" \in hooks /\ Overflows(stack[j].pos)
         /\ Top.at = "full" /\ Top.pos = stack[j].pos
BY CallIsSafe DEF Warned

LEMMA SafeReturns ==
  ASSUME SafeCall, Returns, Top.at # "full"
  PROVE  StaysSafe
<1> DEFINE n == Len(stack)
<1>1. n \in Nat /\ n > 0
  BY CallIsSafe
<1>2. Len(stack') = n - 1 /\ \A k \in 1..(n - 1) : stack'[k] = stack[k] /\ k \in 1..n
  BY <1>1 DEF Returns
<1>3. AllServed'
  <2> SUFFICES ASSUME NEW k \in 1..Len(stack')
               PROVE  Served(k, stack[k])'
    BY DEF AllServed
  <2>1. PICK f : f = stack[k]
    OBVIOUS
  <2>2. Served(k, f)' /\ stack'[k] = f
    BY <1>2, <2>1, ServedBelow
  <2> QED
    BY <2>2
<1>4. ASSUME limit # 0
      PROVE  InputApart'
  <2>1. InputApart /\ wants' = wants
    BY <1>4, CallIsSafe
  <2>2. stack' # <<>> => 1 \in 1..(n - 1)
    BY <1>1, <1>2, EmptySeq DEF Returns
  <2> SUFFICES ASSUME stack' # <<>>, stack'[1].at = "input", NEW p, p = stack'[1].pos
               PROVE  wants'[p] = {}
    BY DEF InputApart
  <2>3. stack # <<>> /\ n # 1 /\ stack[1].at = "input" /\ stack[1].pos = p
    BY <1>1, <1>2, <2>2, CallIsSafe
  <2> QED
    BY <2>1, <2>3 DEF InputApart
<1>5. ASSUME limit # 0
      PROVE  Warned'
  <2>1. Warned
    BY <1>5, CallIsSafe
  <2>2. \A j \in 1..(n - 1) : stack[j].at # "stillFull"
    BY <1>5, WarnedTop
  <2>3. \A j, k \in 1..(n - 1) : j < k => stack[j].at # "full"
    BY <1>2, <2>1 DEF Warned
  <2> QED
    BY <1>2, <2>2, <2>3 DEF Warned
<1>6. ASSUME limit # 0
      PROVE  ClosedAgain'
  <2>1. ClosedAgain /\ hooks' = hooks
    BY <1>6, CallIsSafe
  <2> SUFFICES ASSUME NEW j \in 1..Len(stack'), NEW k \in 1..Len(stack'), j < k,
                      stack'[j].at = "delete", Sending(stack'[k]),
                      NEW p, p = stack'[k].pos, stack'[j].pos = p
               PROVE  "farewell" \in hooks /\ HearsFarewell(p)'
    BY <2>1 DEF ClosedAgain, Sending
  <2>2. "farewell" \in hooks /\ HearsFarewell(p)
    BY <1>2, <2>1 DEF ClosedAgain
  <2> QED
    BY <2>2, CallIsSafe
<1> QED
  BY <1>3, <1>4, <1>5, <1>6 DEF StaysSafe

LEMMA SafeGoesOn ==
  ASSUME SafeCall, NEW f, GoesOn(f), NEW n, n = Len(stack), Served(n, f)',
         f.at # "input",
         limit # 0 /\ Sending(f) => Sending(Top) /\ f.pos = Top.pos,
         limit # 0 /\ Top.at = "full" => ~("warning" \in hooks /\ Overflows(Top.pos))
  PROVE  StaysSafe
<1>1. n \in Nat /\ n > 0 /\ n \in 1..n /\ Top = stack[n]
  BY CallIsSafe
<1>2. /\ Len(stack') = n /\ stack'[n] = f
      /\ \A k \in 1..(n - 1) : stack'[k] = stack[k] /\ k \in 1..n
      /\ \A k \in 1..n : k = n \/ k \in 1..(n - 1)
  BY <1>1 DEF GoesOn
<1>3. AllServed'
  <2> SUFFICES ASSUME NEW k \in 1..Len(stack')
               PROVE  Served(k, stack[k])'
    BY DEF AllServed
  <2>1. CASE k = n
    BY <1>2, <2>1
  <2>2. CASE k \in 1..(n - 1)
    <3>1. PICK g : g = stack[k]
      OBVIOUS
    <3>2. Served(k, g)' /\ stack'[k] = g
      BY <1>2, <2>2, <3>1, ServedBelow
    <3> QED
      BY <3>2
  <2> QED
    BY <1>2, <2>1, <2>2
<1>4. ASSUME limit # 0
      PROVE  InputApart'
  <2>1. InputApart /\ wants' = wants
    BY <1>4, CallIsSafe
  <2>2. CASE n = 1
    BY <1>2, <2>2 DEF InputApart
  <2>3. CASE n # 1
    <3> SUFFICES ASSUME stack'[1].at = "input", NEW p, p = stack'[1].pos
                 PROVE  wants'[p] = {}
      BY DEF InputApart
    <3>1. stack # <<>> /\ stack[1].at = "input" /\ stack[1].pos = p
      BY <1>1, <1>2, <2>3, CallIsSafe
    <3> QED
      BY <2>1, <2>3, <3>1 DEF InputApart
  <2> QED
    BY <2>2, <2>3
<1>5. ASSUME limit # 0
      PROVE  Warned'
  <2>1. Warned
    BY <1>5, CallIsSafe
  <2>2. \A j \in 1..(n - 1) : stack[j].at # "stillFull"
    BY <1>5, WarnedTop
  <2>3. \A j, k \in 1..n : j < k => j \in 1..(n - 1) /\ stack[j].at # "full"
    BY <1>1, <2>1 DEF Warned
  <2> QED
    BY <1>2, <2>2, <2>3 DEF Warned
<1>6. ASSUME limit # 0
      PROVE  ClosedAgain'
  <2>1. ClosedAgain /\ hooks' = hooks
    BY <1>6, CallIsSafe
  <2> SUFFICES ASSUME NEW j \in 1..Len(stack'), NEW k \in 1..Len(stack'), j < k,
                      stack'[j].at = "delete", Sending(stack'[k]),
                      NEW p, p = stack'[k].pos, stack'[j].pos = p
               PROVE  "farewell" \in hooks /\ HearsFarewell(p)'
    BY <2>1 DEF ClosedAgain, Sending
  <2>2. j \in 1..(n - 1) /\ j \in 1..n /\ k \in 1..n /\ stack[j].at = "delete" /\ stack[j].pos = p
    BY <1>1, <1>2
  <2>3. Sending(stack[k]) /\ stack[k].pos = p
    BY <1>1, <1>2, <1>6
  <2>4. "farewell" \in hooks /\ HearsFarewell(p)
    BY <2>1, <2>2, <2>3 DEF ClosedAgain
  <2> QED
    BY <2>4, CallIsSafe
<1> QED
  BY <1>3, <1>4, <1>5, <1>6 DEF StaysSafe

LEMMA SafeCalls ==
  ASSUME SafeCall, NEW f, NEW g, CallsFrom(f, g), NEW n, n = Len(stack),
         Served(n, f)', Served(n + 1, g)',
         f.at \notin {"input", "full"},
         limit # 0 =>
           /\ Sending(f) => Sending(Top) /\ f.pos = Top.pos
           /\ Top.at = "full" => f.at = "stillFull"
           /\ f.at = "stillFull" =>
                "warning" \in hooks /\ Overflows(f.pos)' /\ g.at = "full" /\ g.pos = f.pos
           /\ f.at = "delete" => ~Sending(g)
           /\ Sending(g) => \/ Sending(Top) /\ g.pos = Top.pos
                            \/ InDispatch(Top) /\ log[Top.msg].topic \in wants[g.pos]
  PROVE  StaysSafe
<1>1. n \in Nat /\ n > 0 /\ n \in 1..n /\ Top = stack[n]
  BY CallIsSafe
<1>2. /\ Len(stack') = n + 1 /\ stack'[n] = f /\ stack'[n + 1] = g
      /\ \A k \in 1..(n - 1) : stack'[k] = stack[k] /\ k \in 1..n
      /\ \A k \in 1..(n + 1) : k = n + 1 \/ k = n \/ k \in 1..(n - 1)
  BY <1>1 DEF CallsFrom
<1>3. AllServed'
  <2> SUFFICES ASSUME NEW k \in 1..Len(stack')
               PROVE  Served(k, stack[k])'
    BY DEF AllServed
  <2>1. CASE k = n
    BY <1>2, <2>1
  <2>2. CASE k \in 1..(n - 1)
    <3>1. PICK h : h = stack[k]
      OBVIOUS
    <3>2. Served(k, h)' /\ stack'[k] = h
      BY <1>2, <2>2, <3>1, ServedBelow
    <3> QED
      BY <3>2
  <2>3. CASE k = n + 1
    BY <1>2, <2>3
  <2> QED
    BY <1>2, <2>1, <2>2, <2>3
<1>4. ASSUME limit # 0
      PROVE  InputApart'
  <2>1. InputApart /\ wants' = wants
    BY <1>4, CallIsSafe
  <2>2. CASE n = 1
    BY <1>2, <2>2 DEF InputApart
  <2>3. CASE n # 1
    <3> SUFFICES ASSUME stack'[1].at = "input", NEW p, p = stack'[1].pos
                 PROVE  wants'[p] = {}
      BY DEF InputApart
    <3>1. stack # <<>> /\ stack[1].at = "input" /\ stack[1].pos = p
      BY <1>1, <1>2, <2>3, CallIsSafe
    <3> QED
      BY <2>1, <2>3, <3>1 DEF InputApart
  <2> QED
    BY <2>2, <2>3
<1>5. ASSUME limit # 0
      PROVE  Warned'
  <2>1. Warned /\ hooks' = hooks
    BY <1>5, CallIsSafe
  <2> SUFFICES ASSUME NEW j \in 1..Len(stack'), NEW k \in 1..Len(stack'), j < k,
                      NEW p, p = stack'[j].pos
               PROVE  /\ stack'[j].at # "full"
                      /\ stack'[j].at = "stillFull" =>
                           /\ "warning" \in hooks
                           /\ Overflows(p)'
                           /\ stack'[k].pos = p
                           /\ stack'[k].at = IF k = Len(stack') THEN "full" ELSE "stillFull"
    BY <2>1 DEF Warned, Overflows
  <2>2. CASE j = n
    <3>1. k = n + 1
      BY <1>1, <1>2, <2>2
    <3> QED
      BY <1>2, <1>5, <2>2, <3>1
  <2>3. CASE j \in 1..(n - 1)
    <3>1. stack'[j] = stack[j] /\ j \in 1..n /\ j < n
      BY <1>1, <1>2, <2>3
    <3>2. stack'[j].at # "full"
      BY <1>1, <2>1, <3>1 DEF Warned
    <3>3. ASSUME stack'[j].at = "stillFull"
          PROVE  /\ "warning" \in hooks
                 /\ Overflows(p)'
                 /\ stack'[k].pos = p
                 /\ stack'[k].at = IF k = Len(stack') THEN "full" ELSE "stillFull"
      <4>1. "warning" \in hooks /\ Overflows(p) /\ Top.at = "full" /\ Top.pos = p
        BY <1>5, <2>3, <3>1, <3>3, WarnedTop
      <4>2. /\ f.at = "stillFull" /\ f.pos = p /\ g.at = "full" /\ g.pos = p
            /\ Overflows(p)'
        BY <1>5, <4>1 DEF Sending
      <4>3. CASE k \in 1..(n - 1)
        <5>1. stack[k].pos = p /\ stack[k].at = "stillFull"
          BY <1>1, <2>1, <3>1, <3>3, <4>3 DEF Warned
        <5> QED
          BY <1>1, <1>2, <4>1, <4>2, <4>3, <5>1
      <4>4. CASE k = n
        BY <1>1, <1>2, <4>1, <4>2, <4>4
      <4>5. CASE k = n + 1
        BY <1>1, <1>2, <4>1, <4>2, <4>5
      <4> QED
        BY <1>2, <4>3, <4>4, <4>5
    <3> QED
      BY <3>2, <3>3
  <2>4. j # n + 1
    BY <1>1, <1>2
  <2> QED
    BY <1>2, <2>2, <2>3, <2>4
<1>6. ASSUME limit # 0
      PROVE  ClosedAgain'
  <2>1. ClosedAgain /\ AfterFarewell /\ hooks' = hooks
    BY <1>6, CallIsSafe
  <2> SUFFICES ASSUME NEW j \in 1..Len(stack'), NEW k \in 1..Len(stack'), j < k,
                      stack'[j].at = "delete", Sending(stack'[k]),
                      NEW p, p = stack'[k].pos, stack'[j].pos = p
               PROVE  "farewell" \in hooks /\ HearsFarewell(p)'
    BY <2>1 DEF ClosedAgain, Sending
  <2>2. CASE j = n
    <3>1. k = n + 1
      BY <1>1, <1>2, <2>2
    <3> QED
      BY <1>2, <1>6, <2>2, <3>1
  <2>3. CASE j \in 1..(n - 1)
    <3>1. /\ stack[j].at = "delete" /\ stack[j].pos = p /\ j \in 1..n /\ j < n
      BY <1>1, <1>2, <2>3
    <3>2. ASSUME NEW x \in 1..n, j < x, Sending(stack[x]), stack[x].pos = p
          PROVE  "farewell" \in hooks /\ HearsFarewell(p)
      BY <2>1, <3>1, <3>2 DEF ClosedAgain
    <3>3. CASE k \in 1..(n - 1)
      BY <1>2, <3>2, <3>3, CallIsSafe
    <3>4. CASE k = n
      BY <1>1, <1>2, <1>6, <3>1, <3>2, <3>4, CallIsSafe
    <3>5. CASE k = n + 1
      <4>1. Sending(g) /\ g.pos = p
        BY <1>2, <3>5
      <4>2. CASE Sending(Top) /\ g.pos = Top.pos
        BY <1>1, <3>1, <3>2, <4>1, <4>2, CallIsSafe
      <4>3. CASE InDispatch(Top) /\ log[Top.msg].topic \in wants[g.pos]
        <5>1. "farewell" \in hooks /\ OfFarewell(log[Top.msg].topic)
          BY <1>1, <2>1, <3>1, <4>3 DEF AfterFarewell, Follows
        <5>2. HearsFarewell(p)
          BY <4>1, <4>3, <5>1 DEF HearsFarewell
        <5> QED
          BY <5>1, <5>2, CallIsSafe
      <4> QED
        BY <1>6, <4>1, <4>2, <4>3
    <3> QED
      BY <1>2, <3>3, <3>4, <3>5
  <2>4. j # n + 1
    BY <1>1, <1>2
  <2> QED
    BY <1>2, <2>2, <2>3, <2>4
<1> QED
  BY <1>3, <1>4, <1>5, <1>6 DEF StaysSafe

LEMMA CallStaysSafe ==
  ASSUME SafeCall
  PROVE  StaysSafe
<1> PICK n : n = Len(stack)
  OBVIOUS
<1>1. /\ TypeInv /\ StackOK /\ InCall /\ limit \in Nat /\ limit' = limit /\ hooks' = hooks
      /\ wants' = wants /\ outcome = "ok" /\ outcome' = "ok" /\ stack # <<>>
      /\ n \in Nat /\ n > 0 /\ n \in 1..n /\ Top = stack[n]
  BY CallIsSafe DEF TypeInv
<1>2. Served(n, Top) /\ Fits(Top, Len(log), Len(callbacks))
  BY <1>1, CallIsSafe, TopFrame DEF AllServed
<1>3. OfOne(Top) => Top.pos \in Responders /\ Connected(Top.pos)
  BY <1>2 DEF Served, Fits, OfOne, Sending
<1>4. \A r \in Responders : ~DeleteThis => /\ Connected(r) => Connected(r)'
                                           /\ Overflows(r) => Overflows(r)'
  BY <1>1, LifeKept
<1>5. limit # 0 /\ Sending(Top) /\ Top.msg # 0 => wants[Top.pos] # {}
  BY <1>2 DEF Served
<1>6. limit # 0 /\ n = 1 => Top.at \in {"input", "app", "eof", "close", "delete"}
  BY <1>1, CallIsSafe DEF RootsInv, Roots
<1>7. ASSUME NEW f, f.at \in {"emit", "callbacks", "app"}, NEW k
      PROVE  Served(k, f)' /\ ~Sending(f) /\ f.at \notin {"input", "full", "stillFull", "delete"}
  BY <1>7 DEF Served, OfOne, Sending
<1>8. ASSUME NEW f, Sending(f), NEW k, Connected(f.pos)',
             limit # 0 /\ f.msg # 0 => wants[f.pos] # {},
             f.msg # 0 /\ f.at \in {"close", "delete"} => Overflows(f.pos)'
      PROVE  Served(k, f)'
  BY <1>1, <1>8 DEF Served, OfOne, Sending
<1>9. CASE Top.at = "emit"
  <2>1. ~DeleteThis
    BY <1>9 DEF DeleteThis, At
  <2>2. ASSUME NEW r \in Responders, EmitTo(r)
        PROVE  StaysSafe
    <3>1. PICK f, g : f = Frame("emit", r, Top.msg) /\ g = Frame("full", r, Top.msg)
      OBVIOUS
    <3>2. CallsFrom(f, g)
      BY <1>1, <2>2, <3>1, EmitToShape DEF Enters
    <3>3. /\ f.at = "emit" /\ g.at = "full" /\ g.pos = r /\ Sending(g)
      BY <3>1 DEF Frame, Sending
    <3>4. Connected(r) /\ log[Top.msg].topic \in wants[r]
      BY <2>2 DEF EmitTo, IsNext, Due, Subscribers
    <3>5. Served(n, f)'
      BY <1>7, <3>3
    <3>6. Connected(g.pos)' /\ wants[g.pos] # {}
      BY <1>4, <2>1, <3>3, <3>4 DEF Connected
    <3>7. Served(n + 1, g)'
      BY <1>8, <3>3, <3>6
    <3> QED
      BY <1>7, <1>9, <3>2, <3>3, <3>4, <3>5, <3>7, SafeCalls DEF InDispatch
  <2>3. ASSUME EmitEnds
        PROVE  StaysSafe
    <3>1. PICK f : f = Frame("callbacks", 1, Top.msg)
      OBVIOUS
    <3>2. f.at = "callbacks"
      BY <3>1 DEF Frame
    <3>3. GoesOn(f) \/ Returns
      BY <1>1, <2>3, <3>1, EmitEndsShape
    <3>4. Served(n, f)'
      BY <1>7, <3>2
    <3> QED
      BY <1>7, <1>9, <3>2, <3>3, <3>4, SafeGoesOn, SafeReturns
  <2> QED
    BY <1>1, <1>9, <2>2, <2>3, StepAt
<1>10. CASE Top.at = "callbacks"
  <2>1. NextCallback.at = "callbacks"
    BY DEF NextCallback, Frame
  <2>2. PICK f, g : f = NextCallback /\ g = Frame("emit", 0, NewId)
    OBVIOUS
  <2>3. g.at = "emit" /\ f.at = "callbacks"
    BY <2>1, <2>2 DEF Frame
  <2>4. Served(n, f)' /\ Served(n + 1, g)'
    BY <1>7, <2>3
  <2>5. ASSUME CallbacksEnd
        PROVE  StaysSafe
    BY <1>1, <1>10, <2>5, CallbacksEndShape, SafeReturns
  <2>6. ASSUME SkipCallback \/ CallbackCounts \/ CallbackRegisters
        PROVE  StaysSafe
    <3>1. GoesOn(f)
      BY <1>1, <2>2, <2>6, NextCallbackShape
    <3> QED
      BY <1>7, <1>10, <2>3, <2>4, <3>1, SafeGoesOn
  <2>7. ASSUME CallbackAnswers
        PROVE  StaysSafe
    <3>1. CallsFrom(f, g)
      BY <1>1, <2>2, <2>7, CallbackAnswersShape DEF Enters
    <3> QED
      BY <1>7, <1>10, <2>3, <2>4, <3>1, SafeCalls
  <2> QED
    BY <1>1, <1>10, <2>5, <2>6, <2>7, StepAt
<1>11. CASE Top.at = "full"
  <2>1. OutputFull /\ ~DeleteThis
    BY <1>1, <1>11, StepAt DEF DeleteThis, At
  <2>2. Sending(Top) /\ (limit # 0 => n > 1) /\ Top.msg # 0
    BY <1>1, <1>2, <1>6, <1>11 DEF Sending, Fits
  <2>3. PICK f, g : /\ f = Frame("stillFull", Top.pos, Top.msg)
                    /\ g = Frame("full", Top.pos, NewId)
    OBVIOUS
  <2>4. /\ f.at = "stillFull" /\ f.pos = Top.pos /\ Sending(f)
        /\ g.at = "full" /\ g.pos = Top.pos /\ Sending(g)
    BY <2>3 DEF Frame, Sending
  <2>5. Served(n, f)' /\ Served(n + 1, g)'
    BY <1>3, <1>4, <1>5, <1>8, <2>1, <2>2, <2>4 DEF OfOne
  <2>6. f \in AnyFrame /\ g \in AnyFrame
    BY <1>1, <2>3, NewFrames DEF Places
  <2>7. CASE Overflows(Top.pos) /\ "warning" \in hooks
    <3>1. Continue(<<f, g>>)
      BY <2>1, <2>3, <2>7 DEF OutputFull
    <3>2. CallsFrom(f, g)
      BY <1>1, <2>6, <3>1, ContinueTwo
    <3>3. Overflows(f.pos)'
      BY <1>3, <1>4, <2>1, <2>2, <2>4, <2>7 DEF OfOne
    <3> QED
      BY <2>2, <2>4, <2>5, <2>7, <3>2, <3>3, SafeCalls
  <2>8. CASE ~(Overflows(Top.pos) /\ "warning" \in hooks)
    <3>1. Continue(<<f>>)
      BY <2>1, <2>3, <2>8 DEF OutputFull
    <3>2. GoesOn(f)
      BY <1>1, <2>6, <3>1, ContinueOne
    <3> QED
      BY <2>2, <2>4, <2>5, <2>8, <3>2, SafeGoesOn
  <2> QED
    BY <2>7, <2>8
<1>12. CASE Top.at = "stillFull"
  <2>1. StillFull /\ ~DeleteThis /\ Sending(Top)
    BY <1>1, <1>12, StepAt DEF DeleteThis, At, Sending
  <2>2. PICK f : f = Frame("close", Top.pos, Top.msg)
    OBVIOUS
  <2>3. f.at = "close" /\ f.pos = Top.pos /\ f.msg = Top.msg /\ Sending(f)
    BY <2>2 DEF Frame, Sending
  <2>4. f \in AnyFrame
    BY <1>1, <2>2, NewFrames DEF Places
  <2>5. Continue(IF Overflows(Top.pos) THEN <<f>> ELSE <<>>)
    BY <1>3, <2>1, <2>2 DEF StillFull, OfOne
  <2>6. CASE Overflows(Top.pos)
    <3>1. GoesOn(f)
      BY <1>1, <2>4, <2>5, <2>6, ContinueOne
    <3>2. Served(n, f)'
      BY <1>3, <1>4, <1>5, <1>8, <2>1, <2>3, <2>6 DEF OfOne
    <3> QED
      BY <1>12, <2>1, <2>3, <3>1, <3>2, SafeGoesOn
  <2>7. CASE ~Overflows(Top.pos)
    <3>1. Returns
      BY <1>1, <2>5, <2>7, ContinueNone
    <3> QED
      BY <1>12, <3>1, SafeReturns
  <2> QED
    BY <2>6, <2>7
<1>13. CASE Top.at = "close"
  <2>1. CloseClient /\ ~DeleteThis /\ Sending(Top)
    BY <1>1, <1>13, StepAt DEF DeleteThis, At, Sending
  <2>2. PICK f, g : /\ f = Frame("delete", Top.pos, Top.msg)
                    /\ g = Frame("emit", 0, NewId)
    OBVIOUS
  <2>3. /\ f.at = "delete" /\ f.pos = Top.pos /\ f.msg = Top.msg /\ Sending(f)
        /\ g.at = "emit"
    BY <2>2 DEF Frame, Sending
  <2>4. Top.msg # 0 => Overflows(Top.pos)
    BY <1>2, <1>13 DEF Served
  <2>5. Served(n, f)'
    BY <1>3, <1>4, <1>5, <1>8, <2>1, <2>3, <2>4 DEF OfOne
  <2>6. Served(n + 1, g)'
    BY <1>7, <2>3
  <2>7. GoesOn(f) \/ CallsFrom(f, g)
    BY <1>1, <2>1, <2>2, CloseClientShape DEF Enters
  <2> QED
    BY <1>7, <1>13, <2>1, <2>3, <2>5, <2>6, <2>7, SafeGoesOn, SafeCalls
<1>14. CASE Top.at = "delete"
  <2>1. DeleteThis
    BY <1>1, <1>14, StepAt
  <2>2. Returns
    BY <1>1, <2>1, DeleteThisShape DEF Fails
  <2> QED
    BY <1>14, <2>2, SafeReturns
<1>15. CASE Top.at = "recover"
  <2>1. Recover /\ ~DeleteThis
    BY <1>1, <1>15, StepAt DEF DeleteThis, At
  <2>2. limit = 0
    BY <1>2, <1>15 DEF Served
  <2>3. PICK f : f = Frame("full", Top.pos, NewId)
    OBVIOUS
  <2>4. f.at = "full" /\ f.pos = Top.pos /\ Sending(f)
    BY <2>3 DEF Frame, Sending
  <2>5. Served(n, f)'
    BY <1>3, <1>4, <1>8, <1>15, <2>1, <2>2, <2>4 DEF OfOne
  <2>6. GoesOn(f)
    BY <1>1, <2>1, <2>3, RecoverShape DEF Fails
  <2> QED
    BY <1>15, <2>2, <2>4, <2>5, <2>6, SafeGoesOn
<1>16. CASE Top.at \in {"input", "app", "eof"}
  <2>1. EndInput \/ EndEvent
    BY <1>1, <1>16, StepAt
  <2>2. Returns
    BY <1>1, <2>1, EndShape DEF Fails
  <2> QED
    BY <1>16, <2>2, SafeReturns
<1> QED
  BY <1>1, <1>9, <1>10, <1>11, <1>12, <1>13, <1>14, <1>15, <1>16, TopFrame DEF Places

(* Only the event itself closes a client for no message.                   *)
LEMMA EndsApartStep ==
  ASSUME TypeInv, EndsApart, InCall
  PROVE  EndsApart'
<1> DEFINE n == Len(stack)
<1>1. n \in Nat /\ n > 0 /\ n \in 1..n /\ Top = stack[n]
  BY TopFrame DEF TypeInv, InCall
<1>2. /\ Len(stack') \in Nat
      /\ \A k \in 1..(n - 1) : stack'[k] = stack[k]
      /\ \A k \in 1..Len(stack') :
           k >= n /\ stack'[k].at \in {"close", "delete"} /\ stack'[k].msg = 0 =>
             k = n /\ Top.at = "close" /\ Top.msg = 0
  BY StepBelow
<1> SUFFICES ASSUME NEW k \in 2..Len(stack'), NEW f, f = stack'[k],
                    f.at \in {"close", "delete"}, f.msg = 0
             PROVE  k = 2 /\ stack'[1].at = "eof"
  BY DEF EndsApart, ClosedFirst
<1>3. k \in 2..n /\ stack[k].at \in {"close", "delete"} /\ stack[k].msg = 0
  BY <1>1, <1>2
<1>4. k = 2 /\ stack[1].at = "eof"
  BY <1>3 DEF EndsApart, ClosedFirst
<1> QED
  BY <1>1, <1>2, <1>3, <1>4

LEMMA SafeStep ==
  ASSUME TypeInv, CloseInv, ClosedInv, SafeInv, [Next]_vars
  PROVE  SafeInv'
<1>1. limit \in Nat /\ limit' = limit /\ hooks' = hooks
  BY ApplicationStays DEF SafeInv
<1>2. CASE Risk'
  BY <1>1, <1>2 DEF SafeInv
<1>3. CASE outcome # "ok"
  <2>1. UNCHANGED vars
    BY <1>3, EndedStays
  <2> QED
    BY <1>1, <1>3, <2>1 DEF SafeInv, Risk, vars, appVars
<1> SUFFICES ASSUME ~Risk', outcome = "ok"
             PROVE  SafeInv'
  BY <1>2, <1>3
<1>4. ~Risk => SafeOK
  BY DEF SafeInv
<1>5. ASSUME outcome' = "ok", SafeOK'
      PROVE  SafeInv'
  BY <1>1, <1>5 DEF SafeInv
<1>6. ASSUME outcome' \in {"endless", "raised"}
      PROVE  SafeInv'
  BY <1>1, <1>6 DEF SafeInv
(* The event loop.                                                         *)
<1>7. ASSUME outcome' = "ok",
             \A k \in 1..Len(stack') :
               /\ stack'[k].at \in {"input", "app", "eof", "emit", "recover", "close"}
               /\ stack'[k].at = "close" => /\ k = 1 \/ (k = 2 /\ stack'[1].at = "eof")
                                            /\ stack'[k].msg = 0
                                            /\ alive'[stack'[k].pos] # "deleted"
               /\ stack'[k].at \in {"input", "recover"} => alive'[stack'[k].pos] # "deleted"
               /\ limit # 0 => /\ stack'[k].at # "recover"
                               /\ k > 1 => stack'[k].at # "input",
             limit # 0 /\ stack' # <<>> /\ stack'[1].at = "input" =>
               Len(stack') = 1 \/ wants'[stack'[1].pos] = {}
      PROVE  SafeInv'
  <2>1. AllServed'
    <3> SUFFICES ASSUME NEW k \in 1..Len(stack'), NEW f, f = stack'[k]
                 PROVE  Served(k, f)'
      BY DEF AllServed, Served, OfOne, Sending, Connected, Overflows
    <3>1. /\ f.at \in {"input", "app", "eof", "emit", "recover", "close"}
          /\ f.at = "close" => f.msg = 0 /\ Connected(f.pos)'
          /\ f.at \in {"input", "recover"} => Connected(f.pos)'
          /\ limit # 0 => f.at # "recover" /\ (k > 1 => f.at # "input")
      BY <1>7 DEF Connected
    <3> QED
      BY <1>1, <3>1 DEF Served, OfOne, Sending
  <2>2. limit # 0 => InputApart'
    BY <1>7 DEF InputApart
  <2>3. EndsApart' /\ Warned' /\ ClosedAgain' /\ Unfinished'
    <3>1. \A k \in 1..Len(stack') : stack'[k].at \notin {"full", "stillFull", "delete"}
      BY <1>7
    <3>2. \A k \in 2..Len(stack') : k \in 1..Len(stack')
      <4>1. Len(stack') \in Nat
        BY StepTypes, EmptySeq DEF TypeInv, StackOK
      <4> QED
        BY <4>1
    <3>3. EndsApart'
      BY <1>7, <3>1, <3>2 DEF EndsApart, ClosedFirst
    <3> QED
      BY <3>1, <3>2, <3>3 DEF Warned, ClosedAgain, Unfinished
  <2> QED
    BY <1>1, <1>5, <1>7, <2>1, <2>2, <2>3 DEF SafeOK
<1>8. ASSUME outcome' = "ok", NEW f, stack' = <<f>> \/ stack' = <<>>,
             f.at \in {"input", "close"}, f.msg = 0, Connected(f.pos)'
      PROVE  SafeInv'
  <2>1. \A k \in 1..Len(stack') : k = 1 /\ stack'[k] = f
    <3>1. CASE stack' = <<f>>
      BY <3>1
    <3>2. CASE stack' = <<>>
      <4>1. Len(stack') = 0
        BY <3>2
      <4> QED
        BY <4>1
    <3> QED
      BY <1>8, <3>1, <3>2
  <2>2. stack' # <<>> => Len(stack') = 1
    BY <1>8
  <2>3. alive'[f.pos] # "deleted"
    BY <1>8 DEF Connected
  <2>4. ASSUME NEW k \in 1..Len(stack')
        PROVE  /\ stack'[k].at \in {"input", "close"} /\ k = 1 /\ stack'[k].msg = 0
               /\ alive'[stack'[k].pos] # "deleted"
    BY <1>8, <2>1, <2>3
  <2>5. \A k \in 1..Len(stack') : ~(k > 1)
    BY <2>4
  <2>6. \A k \in 1..Len(stack') : limit # 0 =>
          stack'[k].at # "recover" /\ (k > 1 => stack'[k].at # "input")
    BY <2>4, <2>5
  <2> QED
    BY <1>7, <1>8, <2>2, <2>4, <2>6
<1>9. ASSUME NEW r \in Responders, PeerGone(r)
      PROVE  SafeInv'
  <2>1. outcome' = "ok" /\ alive'[r] # "deleted"
    BY <1>9 DEF PeerGone, Event
  <2>2. \A k \in 1..Len(stack') :
          /\ stack'[k].at \in {"eof", "close"} /\ stack'[k].pos = r /\ stack'[k].msg = 0
          /\ stack'[k].at = "close" => k = 1 \/ (k = 2 /\ stack'[1].at = "eof")
    BY <1>9, GoneFields
  <2>3. stack'[1].at # "input"
    BY <1>9, GoneFields
  <2> QED
    BY <1>7, <2>1, <2>2, <2>3
<1>10. ASSUME NEW r \in Responders, NEW topic \in Topics, Subscribe(r, topic)
       PROVE  SafeInv'
  <2> DEFINE f == Root("input", r)
             s == [i \in 1..Stored |-> Frame("recover", r, 0)]
  <2>1. /\ outcome' = "ok" /\ Connected(r)'
        /\ IF "recovery" \in hooks THEN stack' = <<f>> \o s ELSE stack' = <<f>>
    BY <1>10 DEF Subscribe, Event, Connected
  <2>2. /\ f.at = "input" /\ f.pos = r /\ f.msg = 0
        /\ \A i \in 1..Stored : s[i].at = "recover" /\ s[i].pos = r
    BY DEF Root, Frame
  <2>3. Len(s) = Stored
    BY DispatchAssumption
  <2> HIDE DEF f, s
  <2>4. CASE "recovery" \notin hooks
    BY <1>8, <2>1, <2>2, <2>4
  <2>5. CASE "recovery" \in hooks
    <3>1. limit = 0
      BY <1>1, <2>5 DEF Risk
    <3>2. \A k \in 1..(1 + Stored) : (<<f>> \o s)[k] = IF k <= 1 THEN f ELSE s[k - 1]
      BY <2>3, DispatchAssumption
    <3>3. \A k \in 1..Len(stack') : stack'[k].at \in {"input", "recover"} /\ stack'[k].pos = r
      BY <2>1, <2>2, <2>3, <2>5, <3>2, DispatchAssumption
    <3> QED
      BY <1>7, <2>1, <3>1, <3>3 DEF Connected
  <2> QED
    BY <2>4, <2>5
<1>11. ASSUME NEW p \in Publications, Publish(p)
       PROVE  SafeInv'
  <2> PICK f, g : f = Root("input", p.from) /\ g = Frame("emit", 0, NewId)
    OBVIOUS
  <2>1. outcome' = "ok" /\ stack' = <<f, g>> /\ Connected(p.from)' /\ wants' = wants
    BY <1>11 DEF Publish, Event, Connected
  <2>2. f.at = "input" /\ f.pos = p.from /\ g.at = "emit"
    BY DEF Root, Frame
  <2>3. \A k \in 1..Len(stack') : (k = 1 /\ stack'[k] = f) \/ (k = 2 /\ stack'[k] = g)
    BY <2>1
  <2>4. stack'[1] = f /\ stack' # <<>>
    BY <2>1
  <2>5. limit # 0 => wants[p.from] = {}
    BY <1>1, <2>1, <2>2, <2>4 DEF Risk
  <2> QED
    BY <1>7, <2>1, <2>2, <2>5, <2>3, <2>4 DEF Connected
<1>12. ASSUME NEW topic \in AppTopics, AppSend(topic)
       PROVE  SafeInv'
  <2> PICK f, g : f = Root("app", 0) /\ g = Frame("emit", 0, NewId)
    OBVIOUS
  <2>1. outcome' = "ok" /\ stack' = <<f, g>>
    BY <1>12 DEF AppSend, Event
  <2>2. f.at = "app" /\ g.at = "emit"
    BY DEF Root, Frame
  <2>3. \A k \in 1..Len(stack') : (k = 1 /\ stack'[k] = f) \/ (k = 2 /\ stack'[k] = g)
    BY <2>1
  <2>4. stack'[1] = f
    BY <2>1
  <2> QED
    BY <1>7, <2>1, <2>2, <2>3, <2>4
<1>13. ASSUME NEW r \in Responders, Written(r)
       PROVE  SafeInv'
  <2>1. outcome' = "ok" /\ stack' = <<>>
    BY <1>13 DEF Written
  <2>2. \A k \in 1..Len(stack') : FALSE
    BY <2>1
  <2> QED
    BY <1>7, <2>1, <2>2
<1>14. CASE UNCHANGED vars
  <2>1. ~Risk
    BY <1>14 DEF vars, appVars, Risk
  <2>2. SafeOK' <=> SafeOK
    BY <1>14 DEF vars, appVars, historyVars, SafeOK, EndsApart, ClosedFirst,
       AllServed, Served, OfOne, Sending, Connected, Overflows, InputApart, Warned,
       ClosedAgain, Unfinished, EmitAhead,
       AnswerAhead, HearsFarewell, OfFarewell, AnswersTo, InDispatch, Unreached
  <2> QED
    BY <1>4, <1>5, <1>14, <2>1, <2>2 DEF vars
(* An exception.                                                           *)
<1>15. ASSUME CallbackThrows
       PROVE  SafeInv'
  <2>1. /\ stack # <<>> /\ UNCHANGED alive
        /\ \/ outcome' = "raised"
           \/ /\ outcome' = "ok"
              /\ \/ stack' = <<>>
                 \/ /\ Connected(Head(stack).pos)
                    /\ stack' = <<Frame("close", Head(stack).pos, 0)>>
    BY <1>15 DEF CallbackThrows, Run, Invoked, At
  <2>2. CASE outcome' = "raised"
    BY <1>6, <2>2
  <2>3. CASE outcome' = "ok" /\ stack' = <<>>
    <3>1. \A k \in 1..Len(stack') : FALSE
      BY <2>3
    <3> QED
      BY <1>7, <2>3, <3>1
  <2>4. CASE /\ outcome' = "ok"
             /\ Connected(Head(stack).pos)
             /\ stack' = <<Frame("close", Head(stack).pos, 0)>>
    <3>1. PICK f : f = Frame("close", Head(stack).pos, 0)
      OBVIOUS
    <3>2. f.at = "close" /\ f.msg = 0 /\ Connected(f.pos)'
      BY <2>1, <2>4, <3>1 DEF Frame, Connected
    <3> QED
      BY <1>8, <2>4, <3>1, <3>2
  <2> QED
    BY <2>1, <2>2, <2>3, <2>4
(* A call.                                                                 *)
<1>16. ASSUME InCall, ~Risk
       PROVE  SafeInv'
  <2>1. SafeCall
    BY <1>1, <1>4, <1>16 DEF SafeCall
  <2>2. StaysSafe
    BY <2>1, CallStaysSafe
  <2>3. limit # 0 => Unfinished'
    BY <1>1, <1>4, <1>16, UnfinishedStep
  <2>4. EndsApart'
    BY <1>1, <1>4, <1>16, EndsApartStep DEF SafeOK
  <2> QED
    BY <1>1, <1>5, <1>16, <2>2, <2>3, <2>4 DEF StaysSafe, SafeOK, InCall
(* The call of onInput ends with its client.                               *)
<1>17. ASSUME InCall, Risk
       PROVE  SafeInv'
  <2>1. /\ Len(stack) \in Nat /\ Len(stack) > 0 /\ stack # <<>> /\ Top = stack[Len(stack)]
        /\ outcome' = "ok"
    BY <1>17, TopFrame DEF TypeInv, InCall
  <2>2. wants' = wants
    BY <1>1, <1>17, LifeKept
  <2>3. stack[1].at = "input" /\ wants[stack[1].pos] # {} /\ limit # 0
    BY <1>1, <1>17 DEF Risk
  <2>4. Len(stack) = 1
    <3>1. ASSUME Len(stack) > 1
          PROVE  FALSE
      <4>1. 1 \in 1..(Len(stack) - 1)
        BY <2>1, <3>1
      <4>2. stack'[1] = stack[1] /\ Len(stack') \in Nat /\ Len(stack') >= Len(stack) - 1
        BY <1>17, <4>1, StepBelow
      <4>3. Len(stack') > 0
        BY <2>1, <3>1, <4>2
      <4>4. stack' # <<>>
        BY <4>3
      <4> QED
        BY <1>1, <2>2, <2>3, <4>2, <4>4 DEF Risk
    <3>2. \A n \in Nat : n > 0 /\ ~(n > 1) => n = 1
      OBVIOUS
    <3> QED
      BY <2>1, <3>1, <3>2, Zenon
  <2>5. EndInput \/ EndEvent
    BY <1>17, <2>1, <2>3, <2>4, StepAt
  <2>6. Returns
    BY <2>1, <2>5, EndShape DEF Fails
  <2>7. stack' = <<>>
    BY <2>4, <2>6, EmptySeq DEF Returns
  <2>8. \A k \in 1..Len(stack') : FALSE
    BY <2>7
  <2> QED
    BY <1>7, <2>1, <2>7, <2>8
<1>18. ASSUME stack # <<>>, Next, outcome' = "deletedUsed"
       PROVE  FALSE
  <2>1. Len(stack) \in 1..Len(stack) /\ Top = stack[Len(stack)]
    BY <1>18, TopFrame DEF TypeInv
  <2>2. ~Risk
    <3>1. UNCHANGED <<hooks, limit, wants>>
      BY <1>18, ApplicationStays
    <3>2. stack' = stack
      BY <1>18 DEF Next, Subscribe, PeerGone, Written, Publish, AppSend, Event, EmitTo,
         EmitEnds, CallbacksEnd, SkipCallback, Skip, CallbackCounts, CallbackRegisters,
         CallbackAnswers, Run, CallbackThrows, OutputFull, StillFull, CloseClient, DeleteThis,
         Recover, EndInput, EndEvent, Continue, At
    <3> QED
      BY <3>1, <3>2 DEF Risk
  <2>3. OfOne(Top) => Connected(Top.pos)
    BY <1>4, <2>2, <2>1 DEF SafeOK, AllServed, Served
  <2>4. ~StillFull /\ ~DeleteThis /\ ~Recover /\ ~EndInput
    BY <1>18, <2>3 DEF StillFull, DeleteThis, Recover, EndInput, At, Continue, OfOne, Sending
  <2> QED
    BY <1>18, <2>4 DEF Next, Subscribe, PeerGone, Written, Publish, AppSend, Event, EmitTo,
       EmitEnds, CallbacksEnd, SkipCallback, Skip, CallbackCounts, CallbackRegisters,
       CallbackAnswers, CallbackThrows, OutputFull, CloseClient, EndEvent, Continue
<1>19. CASE stack # <<>> /\ Next
  <2>1. outcome' \in {"ok", "deletedUsed", "endless", "raised"}
    BY StepTypes DEF TypeInv, DataOK
  <2> QED
    BY <1>6, <1>15, <1>16, <1>18, <1>19, <1>17, <2>1 DEF InCall
<1>20. CASE stack = <<>> /\ Next
  BY <1>9, <1>10, <1>11, <1>12, <1>13, <1>20
     DEF Next, EmitTo, EmitEnds, CallbacksEnd, SkipCallback, Skip, CallbackCounts,
         CallbackRegisters, CallbackAnswers, CallbackThrows, Run, Invoked, OutputFull,
         StillFull, CloseClient, DeleteThis, Recover, EndInput, EndEvent, At
<1> QED
  BY <1>14, <1>19, <1>20

(* No call goes on with a deleted responder if the output is unlimited, or *)
(* if new subscribers are sent nothing by the application and the message  *)
(* being handled is not of a client that has subscribed something, however *)
(* calls nest.                                                             *)
THEOREM DeletedIsLeftAlone == Spec => []DeletedIsNotUsed
<1>1. Init => SafeInv
  <2> SUFFICES ASSUME Init
               PROVE  SafeInv
    OBVIOUS
  <2>1. PICK app \in Applications : limit = app.limit
    BY DEF Init
  <2>2. limit \in Nat
    BY <2>1, DispatchAssumption DEF Application
  <2>3. stack = <<>> /\ outcome = "ok"
    BY DEF Init
  <2>4. /\ \A k \in 1..Len(stack) : FALSE
        /\ \A k \in 2..Len(stack) : FALSE
    BY <2>3
  <2>5. SafeOK
    BY <2>3, <2>4 DEF SafeOK, AllServed, EndsApart, InputApart, Warned, ClosedAgain,
       Unfinished
  <2> QED
    BY <2>2, <2>3, <2>5 DEF SafeInv
<1>2. SafeInv => DeletedIsNotUsed
  BY DEF SafeInv, Risk, DeletedIsNotUsed
<1> QED
  BY <1>1, <1>2, SafeStep, TypeInvariant, CloseInvariant, ClosedInvariant, PTL DEF Spec

-----------------------------------------------------------------------------
(* A dispatch without hooks, throwing or answering callbacks.              *)

Plain ==
  /\ hooks = {}
  /\ \A n \in 1..Len(callbacks) : callbacks[n].kind \notin {"throws", "answers"}

(* The frame of onInput or of the application remembers the responders as  *)
(* they were before the dispatch: who is reached by the message, for whom  *)
(* it is too much, who has been through it and who is still as before.     *)
Reaches(r) == stack[1].alive[r] = "open" /\ log[Len(log)].topic \in wants[r]

Drops(r) == Reaches(r) /\ limit # 0 /\ stack[1].size[r] + 1 > limit

Handled(r) ==
  /\ alive[r] = IF Drops(r) THEN "deleted" ELSE stack[1].alive[r]
  /\ size[r] = IF Drops(r) THEN 0
               ELSE stack[1].size[r] + (IF Reaches(r) THEN 1 ELSE 0)

AsBefore(r) == alive[r] = stack[1].alive[r] /\ size[r] = stack[1].size[r]

(* The emission has come to p, who may be in its turn.                     *)
EmittedTo(p) ==
  \A r \in Responders : (r < p => Handled(r)) /\ (r > p => AsBefore(r))

(* Its slot is running: f is the frame of what it calls.                   *)
InTurn(f) ==
  /\ Reaches(f.pos)
  /\ size[f.pos] = stack[1].size[f.pos] + 1
  /\ \/ f.at \in {"full", "stillFull"} /\ alive[f.pos] = "open"
     \/ f.at = "close" /\ alive[f.pos] = "open" /\ Drops(f.pos)
     \/ f.at = "delete" /\ alive[f.pos] = "closing" /\ Drops(f.pos)

(* What the frames above that of the caller are doing.                     *)
EmitsOne(f) == f.at = "emit" /\ f.msg = Len(log) /\ EmittedTo(f.pos)

Progress ==
  \/ Len(stack) = 1 /\ \A r \in Responders : Handled(r)
  \/ Len(stack) = 2 /\ stack[2].at = "callbacks" /\ \A r \in Responders : Handled(r)
  \/ /\ Len(stack) = 2 /\ EmitsOne(stack[2])
     /\ stack[2].pos \in Responders => Handled(stack[2].pos)
  \/ Len(stack) = 3 /\ EmitsOne(stack[2]) /\ stack[3].pos = stack[2].pos /\ InTurn(stack[3])

OneOK ==
  /\ stack[1].alive \in [Responders -> {"open", "deleted"}]
  /\ stack[1].size \in [Responders -> Nat]
  /\ IF stack[1].sent < Len(log) THEN Progress ELSE Len(stack) = 1

OneInv ==
  (/\ Plain /\ stack # <<>> /\ stack[1].at \in {"input", "app"}
   /\ outcome = "ok" \/ Len(stack) = 1) => OneOK

LEMMA PlainBefore ==
  ASSUME TypeInv, [Next]_vars, Plain'
  PROVE  Plain
<1>1. /\ hooks' = hooks
      /\ \A n \in 1..Len(callbacks) : n \in 1..Len(callbacks') /\ callbacks'[n] = callbacks[n]
  BY ApplicationStays
<1> QED
  BY <1>1 DEF Plain

(* The root and the message stay: who is to be reached and dropped is the  *)
(* same as before.                                                         *)
SameDuty == stack'[1] = stack[1] /\ UNCHANGED <<log, wants, limit>>

LEMMA DutyKept ==
  ASSUME SameDuty, NEW r
  PROVE  /\ Reaches(r)' <=> Reaches(r)
         /\ Drops(r)' <=> Drops(r)
         /\ alive'[r] = alive[r] /\ size'[r] = size[r] =>
              (Handled(r)' <=> Handled(r)) /\ (AsBefore(r)' <=> AsBefore(r))
<1>1. Reaches(r)' <=> Reaches(r)
  BY DEF SameDuty, Reaches
<1>2. Drops(r)' <=> Drops(r)
  BY <1>1 DEF SameDuty, Drops
<1> QED
  BY <1>1, <1>2 DEF SameDuty, Handled, AsBefore

(* Nobody else is touched while p is in its turn.                          *)
LEMMA EmittedKept ==
  ASSUME SameDuty, NEW p, EmittedTo(p),
         \A q \in Responders : q # p => alive'[q] = alive[q] /\ size'[q] = size[q],
         p \in Nat
  PROVE  EmittedTo(p)'
<1> SUFFICES ASSUME NEW q \in Responders
             PROVE  (q < p => Handled(q)') /\ (q > p => AsBefore(q)')
  BY DEF EmittedTo
<1>1. q \in Nat
  BY DispatchAssumption
<1>2. (q < p => Handled(q)) /\ (q > p => AsBefore(q))
  BY DEF EmittedTo
<1>3. q < p \/ q > p => q # p
  BY <1>1
<1> QED
  BY <1>2, <1>3, DutyKept

(* Behind the position of the emission those are due whom the message      *)
(* reaches; with the others there is nothing to do.                        *)
LEMMA DueReached ==
  ASSUME TypeInv, OneOK, stack # <<>>, Top = stack[2], EmitsOne(stack[2]),
         NEW r \in Responders
  PROVE  /\ r \in Due => r > stack[2].pos /\ Reaches(r) /\ AsBefore(r)
         /\ r \notin Due /\ r > stack[2].pos => Handled(r)
<1>1. stack[2].msg = Len(log) /\ EmittedTo(stack[2].pos)
  BY DEF EmitsOne
<1>2. r > stack[2].pos => AsBefore(r)
  BY <1>1 DEF EmittedTo
<1>3. /\ stack[1].alive[r] \in {"open", "deleted"}
      /\ stack[1].size[r] \in Nat
  BY DEF OneOK
<1>4. r \in Due <=> /\ r > stack[2].pos
                    /\ alive[r] # "deleted" /\ log[Len(log)].topic \in wants[r]
  BY <1>1 DEF Due, Subscribers, Connected
<1>5. r > stack[2].pos => (r \in Due <=> Reaches(r))
  BY <1>2, <1>3, <1>4 DEF AsBefore, Reaches
<1>6. ASSUME AsBefore(r), ~Reaches(r)
      PROVE  Handled(r)
  <2>1. ~Drops(r)
    BY <1>6 DEF Drops
  <2> QED
    BY <1>3, <1>6, <2>1 DEF AsBefore, Handled
<1> QED
  BY <1>2, <1>4, <1>5, <1>6

LEMMA NoneDue ==
  ASSUME \A r \in Responders : ~IsNext(r)
  PROVE  Due = {}
<1> SUFFICES ASSUME Due # {}
             PROVE  FALSE
  OBVIOUS
<1>1. Due \subseteq Responders
  BY DEF Due, Subscribers
<1>2. Due \in SUBSET Nat
  BY <1>1, DispatchAssumption
<1>3. PICK x \in Due : \A y \in Due : x <= y
  BY <1>2, LeastNatural
<1>4. x \in Responders /\ IsNext(x)
  BY <1>1, <1>3 DEF IsNext
<1> QED
  BY <1>4

(* Who calls back is not called in a plain dispatch.                       *)
LEMMA PlainCallbacks ==
  ASSUME TypeInv, Plain
  PROVE  ~CallbackAnswers /\ ~CallbackThrows
<1> SUFFICES ASSUME CallbackAnswers \/ CallbackThrows
             PROVE  FALSE
  OBVIOUS
<1>1. /\ stack # <<>> /\ Top.at = "callbacks" /\ Top.pos <= Len(callbacks)
      /\ callbacks[Top.pos].kind \in {"answers", "throws"}
  BY DEF CallbackAnswers, CallbackThrows, Run, Invoked, At
<1>2. Top.pos \in 1..(Len(callbacks) + 1) /\ Len(callbacks) \in Nat
  BY <1>1, TopFrame DEF TypeInv, DataOK, Fits
<1>3. Top.pos \in 1..Len(callbacks)
  BY <1>1, <1>2
<1> QED
  BY <1>1, <1>3 DEF Plain

(* A step of a plain dispatch: n frames, the call on top is within it.     *)
OneCall(n) ==
  /\ TypeInv /\ InCall /\ Plain /\ OneOK /\ Progress
  /\ Len(stack) = n /\ n > 1 /\ stack[1].sent < Len(log)

LEMMA OneTop ==
  ASSUME NEW n \in 2..3, OneCall(n)
  PROVE  /\ stack # <<>> /\ outcome' = "ok" /\ Top = stack[n]
         /\ TypeInv /\ OneOK /\ hooks = {} /\ ~CallbackAnswers
         /\ UNCHANGED <<wants, limit>>
         /\ stack'[1] = stack[1]
<1>1. TypeInv /\ InCall /\ Plain /\ Len(stack) = n
  BY DEF OneCall
<1>2. stack # <<>> /\ outcome' = "ok" /\ Next
  BY <1>1 DEF InCall
<1>3. stack'[1] = stack[1]
  <2>1. \A k \in 1..(n - 1) : stack'[k] = stack[k]
    BY <1>1, StepBelow
  <2> QED
    BY <2>1
<1> QED
  BY <1>1, <1>2, <1>3, TopFrame, PlainCallbacks, ApplicationStays DEF TypeInv, OneCall, Plain

(* What is left to show of a step that leaves the log alone.               *)
LEMMA OneGoesOn ==
  ASSUME NEW n \in 2..3, OneCall(n), UNCHANGED log, Progress'
  PROVE  OneOK'
<1>1. stack'[1] = stack[1]
  BY OneTop
<1> QED
  BY <1>1 DEF OneOK, OneCall

LEMMA OneCallbacks ==
  ASSUME OneCall(2), stack[2].at = "callbacks"
  PROVE  OneOK'
<1>1. /\ stack # <<>> /\ Top = stack[2] /\ TypeInv /\ ~CallbackAnswers
      /\ UNCHANGED <<wants, limit>> /\ stack'[1] = stack[1]
  BY OneTop
<1>2. InCall /\ Len(stack) = 2 /\ \A r \in Responders : Handled(r)
  BY DEF OneCall, Progress, EmitsOne
<1>3. CallbacksEnd \/ SkipCallback \/ CallbackCounts \/ CallbackRegisters
  BY <1>1, <1>2, StepAt
<1>4. UNCHANGED <<alive, size, log>>
  BY <1>3 DEF CallbacksEnd, SkipCallback, Skip, CallbackCounts, CallbackRegisters, Run,
     historyVars
<1>5. \A r \in Responders : Handled(r)'
  BY <1>1, <1>2, <1>4, DutyKept DEF SameDuty
<1>6. CASE CallbacksEnd
  <2>1. Len(stack') = 1
    BY <1>1, <1>2, <1>6, CallbacksEndShape DEF Returns
  <2> QED
    BY <1>4, <1>5, <2>1, OneGoesOn DEF Progress
<1>7. CASE SkipCallback \/ CallbackCounts \/ CallbackRegisters
  <2>1. GoesOn(NextCallback)
    BY <1>1, <1>7, NextCallbackShape
  <2>2. Len(stack') = 2 /\ stack'[2].at = "callbacks"
    BY <1>2, <2>1 DEF GoesOn, NextCallback, Frame
  <2> QED
    BY <1>4, <1>5, <2>2, OneGoesOn DEF Progress
<1> QED
  BY <1>3, <1>6, <1>7

LEMMA OneEmits ==
  ASSUME OneCall(2), stack[2].at = "emit"
  PROVE  OneOK'
<1>1. /\ stack # <<>> /\ Top = stack[2] /\ TypeInv /\ OneOK /\ outcome' = "ok"
      /\ UNCHANGED <<wants, limit>> /\ stack'[1] = stack[1]
  BY OneTop
<1>2. /\ InCall /\ Len(stack) = 2 /\ EmitsOne(stack[2])
      /\ stack[2].pos \in Responders => Handled(stack[2].pos)
  BY DEF OneCall, Progress
<1>3. EmitEnds \/ \E r \in Responders : EmitTo(r)
  BY <1>1, <1>2, StepAt
<1>4. UNCHANGED <<alive, log>>
  BY <1>3 DEF EmitEnds, EmitTo, historyVars
<1>5. SameDuty
  BY <1>1, <1>4 DEF SameDuty
<1>6. stack[2].pos \in Nat /\ Responders \subseteq Nat
  BY <1>1, TopFrame, DispatchAssumption DEF TypeInv
<1>7. /\ stack[2].msg = Len(log)
      /\ \A q \in Responders : q <= stack[2].pos => Handled(q)
  BY <1>2, <1>6 DEF EmitsOne, EmittedTo
<1>8. CASE EmitEnds
  <2>1. UNCHANGED size /\ \A r \in Responders : ~IsNext(r)
    BY <1>8 DEF EmitEnds
  <2>2. Due = {}
    BY <2>1, NoneDue
  <2>3. \A q \in Responders : Handled(q)
    BY <1>1, <1>2, <1>6, <1>7, <2>2, DueReached
  <2>4. \A q \in Responders : Handled(q)'
    BY <1>4, <1>5, <2>1, <2>3, DutyKept
  <2>5. Returns \/ GoesOn(Frame("callbacks", 1, Top.msg))
    BY <1>1, <1>8, EmitEndsShape
  <2>6. Len(stack') = 1 \/ (Len(stack') = 2 /\ stack'[2].at = "callbacks")
    BY <1>2, <2>5 DEF Returns, GoesOn, Frame
  <2> QED
    BY <1>4, <2>4, <2>6, OneGoesOn DEF Progress
<1>9. ASSUME NEW r \in Responders, EmitTo(r)
      PROVE  OneOK'
  <2>1. IsNext(r) /\ size' = [size EXCEPT ![r] = @ + 1]
    BY <1>9 DEF EmitTo, AppendTo
  <2>2. r \in Due /\ \A q \in Responders : q < r => q \notin Due
    BY <1>6, <2>1 DEF IsNext
  <2>3. r > stack[2].pos /\ Reaches(r) /\ AsBefore(r)
    BY <1>1, <1>2, <2>2, DueReached
  <2>4. size \in [Responders -> Nat]
    BY <1>1 DEF TypeInv, DataOK
  <2>5. size'[r] = size[r] + 1 /\ \A q \in Responders : q # r => size'[q] = size[q]
    BY <2>1, <2>4
  <2>6. EmittedTo(r)
    <3> SUFFICES ASSUME NEW q \in Responders
                 PROVE  (q < r => Handled(q)) /\ (q > r => AsBefore(q))
      BY DEF EmittedTo
    <3>1. q > stack[2].pos => AsBefore(q)
      BY <1>2 DEF EmitsOne, EmittedTo
    <3>2. q < r => Handled(q)
      BY <1>1, <1>2, <1>6, <1>7, <2>2, DueReached
    <3> QED
      BY <1>6, <2>3, <3>1, <3>2
  <2>7. EmittedTo(r)'
    BY <1>4, <1>5, <1>6, <2>5, <2>6, EmittedKept
  <2>8. CallsFrom(Frame("emit", r, Top.msg), Frame("full", r, Top.msg))
    BY <1>1, <1>9, EmitToShape DEF Enters
  <2>9. /\ Len(stack') = 3
        /\ stack'[2] = Frame("emit", r, Len(log)) /\ stack'[3] = Frame("full", r, Len(log))
    BY <1>1, <1>2, <1>7, <2>8 DEF CallsFrom
  <2>10. EmitsOne(stack[2])'
    BY <1>4, <2>7, <2>9 DEF EmitsOne, Frame
  <2>11. Reaches(r)' /\ size'[r] = stack'[1].size[r] + 1 /\ alive'[r] = "open"
    BY <1>1, <1>4, <1>5, <2>3, <2>5, DutyKept DEF AsBefore, Reaches
  <2>12. InTurn(stack[3])'
    BY <2>9, <2>11 DEF InTurn, Frame
  <2>13. stack'[3].pos = stack'[2].pos
    BY <2>9 DEF Frame
  <2> QED
    BY <1>4, <2>9, <2>10, <2>12, <2>13, OneGoesOn DEF Progress
<1> QED
  BY <1>3, <1>8, <1>9

(* What a slot in its turn has to keep.                                    *)
LEMMA OneTurnKept ==
  ASSUME OneCall(3), UNCHANGED log, NEW p, stack[3].pos = p,
         \A q \in Responders : q # p => alive'[q] = alive[q] /\ size'[q] = size[q],
         \/ Len(stack') = 3 /\ stack'[3].pos = p /\ InTurn(stack[3])'
         \/ Len(stack') = 2 /\ Handled(p)'
  PROVE  OneOK'
<1>1. /\ stack # <<>> /\ Top = stack[3] /\ TypeInv
      /\ UNCHANGED <<wants, limit>> /\ stack'[1] = stack[1]
  BY OneTop
<1>2. InCall /\ Len(stack) = 3 /\ EmitsOne(stack[2]) /\ stack[3].pos = stack[2].pos
  BY DEF OneCall, Progress
<1>3. SameDuty
  BY <1>1 DEF SameDuty
<1>4. stack'[2] = stack[2]
  <2>1. \A k \in 1..(3 - 1) : stack'[k] = stack[k]
    BY <1>1, <1>2, StepBelow
  <2> QED
    BY <2>1
<1>5. stack[3].pos \in Nat
  BY <1>1, TopFrame DEF TypeInv
<1>6. EmitsOne(stack[2])'
  BY <1>2, <1>3, <1>4, <1>5, EmittedKept DEF EmitsOne
<1> QED
  BY <1>2, <1>4, <1>6, OneGoesOn DEF Progress

LEMMA OneTurn ==
  ASSUME OneCall(3)
  PROVE  OneOK'
<1> PICK p : stack[3].pos = p
  OBVIOUS
<1>1. /\ stack # <<>> /\ Top = stack[3] /\ TypeInv /\ hooks = {} /\ outcome' = "ok"
      /\ UNCHANGED <<wants, limit>> /\ stack'[1] = stack[1]
  BY OneTop
<1>2. InCall /\ Len(stack) = 3 /\ InTurn(stack[3])
  BY DEF OneCall, Progress
<1>3. /\ Reaches(p) /\ size[p] = stack[1].size[p] + 1
      /\ \/ stack[3].at \in {"full", "stillFull"} /\ alive[p] = "open"
         \/ stack[3].at = "close" /\ alive[p] = "open" /\ Drops(p)
         \/ stack[3].at = "delete" /\ alive[p] = "closing" /\ Drops(p)
  BY <1>2 DEF InTurn
<1>4. p \in Responders
  <2>1. Fits(stack[3], Len(log), Len(callbacks))
    BY <1>1, TopFrame DEF TypeInv
  <2> QED
    BY <1>3, <2>1 DEF Fits
<1>5. /\ alive \in [Responders -> {"open", "closing", "deleted"}]
      /\ size \in [Responders -> Nat]
  BY <1>1 DEF TypeInv, DataOK
<1>6. \A at \in Places : Frame(at, p, Top.msg) \in AnyFrame
  BY <1>1, NewFrames
<1>7. UNCHANGED log =>
        /\ Reaches(p)' /\ (Drops(p)' <=> Drops(p))
        /\ stack'[1].size[p] = stack[1].size[p]
  BY <1>1, <1>3, DutyKept DEF SameDuty
<1>8. CASE stack[3].at = "full"
  <2>1. OutputFull
    BY <1>1, <1>2, <1>8, StepAt
  <2>2. UNCHANGED <<size, log, alive>> /\ Continue(<<Frame("stillFull", p, Top.msg)>>)
    BY <1>1, <2>1 DEF OutputFull
  <2>3. GoesOn(Frame("stillFull", p, Top.msg))
    BY <1>1, <1>6, <2>2, ContinueOne DEF TypeInv, Places
  <2>4. Len(stack') = 3 /\ stack'[3].at = "stillFull" /\ stack'[3].pos = p
    BY <1>2, <2>3 DEF GoesOn, Frame
  <2>5. InTurn(stack[3])'
    BY <1>3, <1>7, <1>8, <2>2, <2>4 DEF InTurn
  <2> QED
    BY <2>2, <2>4, <2>5, OneTurnKept
<1>9. CASE stack[3].at = "stillFull"
  <2>1. StillFull
    BY <1>1, <1>2, <1>9, StepAt
  <2>2. /\ UNCHANGED <<size, log, alive>>
        /\ Continue(IF Overflows(p) THEN <<Frame("close", p, Top.msg)>> ELSE <<>>)
    BY <1>1, <1>3, <1>9, <2>1 DEF StillFull, Connected, historyVars
  <2>3. Overflows(p) <=> Drops(p)
    BY <1>3 DEF Overflows, Drops
  <2>4. CASE Drops(p)
    <3>1. GoesOn(Frame("close", p, Top.msg))
      BY <1>1, <1>6, <2>2, <2>3, <2>4, ContinueOne DEF TypeInv, Places
    <3>2. Len(stack') = 3 /\ stack'[3].at = "close" /\ stack'[3].pos = p
      BY <1>2, <3>1 DEF GoesOn, Frame
    <3>3. InTurn(stack[3])'
      BY <1>3, <1>7, <1>9, <2>2, <2>4, <3>2 DEF InTurn
    <3> QED
      BY <2>2, <3>2, <3>3, OneTurnKept
  <2>5. CASE ~Drops(p)
    <3>1. Returns
      BY <1>1, <2>2, <2>3, <2>5, ContinueNone DEF TypeInv
    <3>2. Len(stack') = 2
      BY <1>2, <3>1 DEF Returns
    <3>3. alive'[p] = stack'[1].alive[p]
      BY <1>1, <1>3, <1>9, <2>2 DEF Reaches
    <3>4. Handled(p)'
      BY <1>3, <1>7, <2>2, <2>5, <3>3 DEF Handled
    <3> QED
      BY <2>2, <3>2, <3>4, OneTurnKept
  <2> QED
    BY <2>4, <2>5
<1>10. CASE stack[3].at = "close"
  <2>1. CloseClient
    BY <1>1, <1>2, <1>10, StepAt
  <2>2. /\ UNCHANGED <<size, log>> /\ alive' = [alive EXCEPT ![p] = "closing"]
        /\ Continue(<<Frame("delete", p, Top.msg)>>)
    BY <1>1, <2>1 DEF CloseClient
  <2>3. GoesOn(Frame("delete", p, Top.msg))
    BY <1>1, <1>6, <2>2, ContinueOne DEF TypeInv, Places
  <2>4. Len(stack') = 3 /\ stack'[3].at = "delete" /\ stack'[3].pos = p
    BY <1>2, <2>3 DEF GoesOn, Frame
  <2>5. alive'[p] = "closing" /\ \A q \in Responders : q # p => alive'[q] = alive[q]
    BY <1>4, <1>5, <2>2
  <2>6. InTurn(stack[3])'
    BY <1>3, <1>7, <1>10, <2>2, <2>4, <2>5 DEF InTurn
  <2> QED
    BY <2>2, <2>4, <2>5, <2>6, OneTurnKept
<1>11. CASE stack[3].at = "delete"
  <2>1. DeleteThis
    BY <1>1, <1>2, <1>11, StepAt
  <2>2. /\ UNCHANGED log /\ Continue(<<>>)
        /\ alive' = [alive EXCEPT ![p] = "deleted"] /\ size' = [size EXCEPT ![p] = 0]
    BY <1>1, <1>3, <1>11, <2>1 DEF DeleteThis, Connected, historyVars
  <2>3. Returns
    BY <1>1, <2>2, ContinueNone DEF TypeInv
  <2>4. Len(stack') = 2
    BY <1>2, <2>3 DEF Returns
  <2>5. /\ alive'[p] = "deleted" /\ size'[p] = 0
        /\ \A q \in Responders : q # p => alive'[q] = alive[q] /\ size'[q] = size[q]
    BY <1>4, <1>5, <2>2
  <2>6. Handled(p)'
    BY <1>3, <1>7, <1>11, <2>2, <2>5 DEF Handled
  <2> QED
    BY <2>2, <2>4, <2>5, <2>6, OneTurnKept
<1> QED
  BY <1>3, <1>8, <1>9, <1>10, <1>11

(* A dispatch begins with everybody as the root frame remembers.           *)
LEMMA OneBegins ==
  ASSUME TypeInv, ClosedInv, Plain, stack = <<>>, outcome = "ok",
         NEW at, NEW from, NEW topic, NEW type,
         NewMessage(topic, type), UNCHANGED <<wants, alive, size>>,
         stack' = <<Root(at, from), Frame("emit", 0, NewId)>>
  PROVE  OneOK'
<1> DEFINE root == Root(at, from)
<1>1. root.sent = Len(log) /\ root.alive = alive /\ root.size = size
  BY DEF Root
<1>2. /\ alive \in [Responders -> {"open", "closing", "deleted"}]
      /\ size \in [Responders -> Nat] /\ log \in Seq(Entry) /\ Len(log) \in Nat
  BY DEF TypeInv, DataOK
<1>3. \A r \in Responders : alive[r] # "closing"
  BY DEF ClosedInv, ClosingHeld, ThrowsInClose, Plain
<1>4. alive \in [Responders -> {"open", "deleted"}]
  BY <1>2, <1>3
<1>5. Len(log') = Len(log) + 1
  BY <1>2 DEF NewMessage
<1> HIDE DEF root
<1>6. Len(stack') = 2 /\ stack'[1] = root /\ stack'[2] = Frame("emit", 0, NewId)
  BY DEF root
<1>7. stack'[2].at = "emit" /\ stack'[2].pos = 0 /\ stack'[2].msg = Len(log')
  BY <1>5, <1>6 DEF Frame, NewId
<1>8. \A r \in Responders : r > 0 /\ ~(r < 0) /\ r # 0 /\ AsBefore(r)'
  BY <1>1, <1>6, DispatchAssumption DEF AsBefore
<1>9. EmittedTo(0)'
  BY <1>8 DEF EmittedTo
<1>10. Progress'
  BY <1>6, <1>7, <1>8, <1>9 DEF Progress, EmitsOne
<1> QED
  BY <1>1, <1>2, <1>4, <1>5, <1>6, <1>10 DEF OneOK

LEMMA OneEvent ==
  ASSUME TypeInv, ClosedInv, Plain, stack = <<>>, Next
  PROVE  OneInv'
<1> USE DEF OneInv
<1>1. ASSUME NEW r \in Responders, PeerGone(r)
      PROVE  OneInv'
  BY <1>1, GoneFields
<1>2. stack' = <<>> => OneInv'
  OBVIOUS
<1>3. ASSUME NEW p \in Publications, Publish(p)
      PROVE  OneInv'
  BY <1>3, OneBegins DEF Publish, Event
<1>4. ASSUME NEW topic, AppSend(topic)
      PROVE  OneInv'
  BY <1>4, OneBegins DEF AppSend, Event
<1>5. ASSUME NEW r, NEW topic, Subscribe(r, topic)
      PROVE  OneInv'
  <2>1. /\ outcome = "ok" /\ stack' = <<Root("input", r)>>
        /\ UNCHANGED <<alive, size, log>>
    BY <1>5 DEF Subscribe, Event, Plain, historyVars
  <2>2. /\ alive \in [Responders -> {"open", "closing", "deleted"}]
        /\ size \in [Responders -> Nat] /\ Len(log) \in Nat
    BY DEF TypeInv, DataOK
  <2>3. \A q \in Responders : alive[q] # "closing"
    BY <2>1 DEF ClosedInv, ClosingHeld, ThrowsInClose, Plain
  <2>4. alive \in [Responders -> {"open", "deleted"}]
    BY <2>2, <2>3
  <2>5. /\ Len(stack') = 1 /\ stack'[1].sent = Len(log)
        /\ stack'[1].alive = alive /\ stack'[1].size = size
    BY <2>1 DEF Root
  <2> QED
    BY <2>1, <2>2, <2>4, <2>5 DEF OneOK
<1>6. ~At("emit") /\ ~At("callbacks") /\ ~At("full") /\ ~At("stillFull") /\ ~At("close")
      /\ ~At("delete") /\ ~At("recover") /\ ~At("input") /\ ~At("app") /\ ~At("eof")
  BY DEF At
<1>7. \/ \E p \in Publications : Publish(p)
      \/ \E topic \in AppTopics : AppSend(topic)
      \/ \E r \in Responders : \/ \E topic \in Topics : Subscribe(r, topic)
                               \/ PeerGone(r) \/ Written(r)
  BY <1>6 DEF Next, EmitTo, EmitEnds, CallbacksEnd, SkipCallback, Skip, CallbackCounts,
     CallbackRegisters, CallbackAnswers, CallbackThrows, Run, Invoked, OutputFull,
     StillFull, CloseClient, DeleteThis, Recover, EndInput, EndEvent
<1> QED
  BY <1>1, <1>2, <1>3, <1>4, <1>5, <1>7 DEF Written

(* The frame of the caller is not made again; when it goes wrong, all is   *)
(* as it was.                                                              *)
LEMMA OneRoot ==
  ASSUME TypeInv, ClosedInv, Plain, stack # <<>>, outcome = "ok", Next,
         stack' # <<>>, stack'[1].at \in {"input", "app"},
         outcome' = "ok" \/ Len(stack') = 1
  PROVE  \/ UNCHANGED <<stack, wants, limit, alive, size, log>> /\ Len(stack) = 1
         \/ Len(stack) > 1 /\ outcome' = "ok" /\ InCall
<1>1. /\ Len(stack) \in Nat /\ Len(stack) > 0 /\ Len(stack) \in 1..Len(stack)
      /\ Top = stack[Len(stack)] /\ StackOK
  BY TopFrame DEF TypeInv
<1>2. ~CallbackAnswers /\ ~CallbackThrows
  BY PlainCallbacks
<1>3. stack[1].at \in {"input", "app", "eof", "close", "delete"}
  BY DEF ClosedInv, RootsInv, Roots
<1>4. outcome' = "ok" => InCall
  BY <1>2 DEF InCall
<1>5. CASE outcome' # "ok"
  <2>1. stack' = stack
    BY <1>2, <1>5, EmitToShape, EmitEndsShape, CallbacksEndShape, NextCallbackShape,
       OutputFullShape, StillFullShape, CloseClientShape, DeleteThisShape, RecoverShape,
       EndShape
       DEF Next, Subscribe, PeerGone, Written, Publish, AppSend, Event, Enters, Fails,
           Returns, GoesOn, CallsFrom
  <2>2. Len(stack) = 1 /\ Top.at \in {"input", "app"}
    BY <1>1, <1>5, <2>1
  <2>3. EndInput \/ EndEvent
    BY <2>2 DEF Next, Subscribe, PeerGone, Written, Publish, AppSend, Event, At, EmitTo,
       EmitEnds, CallbacksEnd, SkipCallback, Skip, CallbackCounts, CallbackRegisters,
       CallbackAnswers, CallbackThrows, Run, Invoked, OutputFull, StillFull, CloseClient,
       DeleteThis, Recover
  <2> QED
    BY <2>1, <2>2, <2>3 DEF EndInput, EndEvent, appVars, historyVars
<1>6. CASE outcome' = "ok" /\ Len(stack) = 1
  <2>1. CASE stack[1].at \in {"input", "app", "eof"}
    <3>1. Returns
      BY <1>1, <1>4, <1>6, <2>1, StepAt, EndShape DEF Fails
    <3>2. Len(stack') = 0 /\ stack' \in Seq(AnyFrame)
      BY <1>6, <3>1 DEF Returns
    <3> QED
      BY <3>2, EmptySeq
  <2>2. CASE stack[1].at = "close"
    <3>1. GoesOn(Frame("delete", Top.pos, Top.msg))
      <4>1. CloseClient
        BY <1>1, <1>4, <1>6, <2>2, StepAt
      <4>2. Continue(<<Frame("delete", Top.pos, Top.msg)>>)
        BY <4>1 DEF CloseClient, Plain
      <4>3. Frame("delete", Top.pos, Top.msg) \in AnyFrame
        BY NewFrames DEF Places
      <4> QED
        BY <1>1, <4>2, <4>3, ContinueOne
    <3> QED
      BY <1>6, <3>1 DEF GoesOn, Frame
  <2>3. CASE stack[1].at = "delete"
    <3>1. Returns
      BY <1>1, <1>4, <1>6, <2>3, StepAt, DeleteThisShape DEF Fails
    <3>2. Len(stack') = 0 /\ stack' \in Seq(AnyFrame)
      BY <1>6, <3>1 DEF Returns
    <3> QED
      BY <3>2, EmptySeq
  <2> QED
    BY <1>3, <2>1, <2>2, <2>3
<1>7. CASE outcome' = "ok" /\ Len(stack) # 1
  <2>1. \A n \in Nat : n > 0 /\ n # 1 => n > 1
    OBVIOUS
  <2>2. Len(stack) > 1
    BY <1>1, <1>7, <2>1, Zenon
  <2> QED
    BY <1>4, <1>7, <2>2
<1> QED
  BY <1>5, <1>6, <1>7

LEMMA OneStep == TypeInv /\ ClosedInv /\ OneInv /\ [Next]_vars => OneInv'
<1> SUFFICES ASSUME TypeInv, ClosedInv, OneInv, [Next]_vars,
                    Plain', stack' # <<>>, stack'[1].at \in {"input", "app"},
                    outcome' = "ok" \/ Len(stack') = 1
             PROVE  OneOK'
  BY DEF OneInv
<1> USE DEF Reaches, Drops, Handled, AsBefore, EmittedTo, InTurn, EmitsOne, Progress, OneOK
<1>1. ASSUME UNCHANGED <<stack, wants, limit, alive, size, log>>,
             outcome = "ok" \/ Len(stack) = 1
      PROVE  OneOK'
  BY <1>1, PlainBefore DEF OneInv
<1> HIDE DEF Reaches, Drops, Handled, AsBefore, EmittedTo, InTurn, EmitsOne, Progress, OneOK
<1>2. CASE UNCHANGED vars
  BY <1>1, <1>2 DEF vars, appVars, historyVars
<1>3. ASSUME ~UNCHANGED vars
      PROVE  OneOK'
  <2>1. Next /\ outcome = "ok" /\ Plain
    BY <1>3, EndedStays, PlainBefore
  <2>2. CASE stack = <<>>
    BY <2>1, <2>2, OneEvent DEF OneInv
  <2>3. CASE stack # <<>>
    <3>1. \/ UNCHANGED <<stack, wants, limit, alive, size, log>> /\ Len(stack) = 1
          \/ Len(stack) > 1 /\ outcome' = "ok" /\ InCall
      BY <2>1, <2>3, OneRoot
    <3>2. CASE Len(stack) > 1 /\ InCall
      <4>1. stack'[1] = stack[1] /\ Len(stack) \in Nat
        <5>1. 1 \in 1..(Len(stack) - 1) /\ Len(stack) \in Nat
          BY <3>2, <2>3, TopFrame DEF TypeInv
        <5> QED
          BY <3>2, <5>1, StepBelow
      <4>2. OneOK
        BY <2>1, <2>3, <4>1 DEF OneInv
      <4>3. stack[1].sent < Len(log) /\ Progress
        <5>1. \A n \in Nat : n > 1 => n # 1
          OBVIOUS
        <5>2. Len(stack) # 1
          BY <3>2, <4>1, <5>1, Zenon
        <5> QED
          BY <4>2, <5>2 DEF OneOK
      <4>4. \/ Len(stack) = 2 /\ stack[2].at \in {"emit", "callbacks"}
            \/ Len(stack) = 3
        BY <3>2, <4>3 DEF Progress, EmitsOne
      <4>5. Len(stack) = 2 => OneCall(2)
        BY <2>1, <3>2, <4>2, <4>3 DEF OneCall
      <4>6. Len(stack) = 3 => OneCall(3)
        BY <2>1, <3>2, <4>2, <4>3 DEF OneCall
      <4> QED
        BY <4>4, <4>5, <4>6, OneEmits, OneCallbacks, OneTurn
    <3> QED
      BY <1>1, <3>1, <3>2
  <2> QED
    BY <2>2, <2>3
<1> QED
  BY <1>2, <1>3

(* Without hooks, throwing or answering callbacks a dispatch is one step,  *)
(* whatever the limit, the subscriptions and the callbacks are: when it    *)
(* returns, everybody whom the message reaches has it or is deleted, and   *)
(* nobody else has changed.                                                *)
THEOREM PlainDispatchIsOneStep == Spec => []AsOneStep
<1>1. Init => OneInv
  BY DEF Init, OneInv
<1>2. TypeInv /\ OneInv => AsOneStep
  <2> SUFFICES ASSUME TypeInv, OneInv
               PROVE  AsOneStep
    OBVIOUS
  <2>1. DOMAIN callbacks = 1..Len(callbacks) /\ stack \in Seq(AnyFrame)
    BY DEF TypeInv, DataOK, StackOK
  <2>2. stack # <<>> => Head(stack) = stack[1]
    BY <2>1
  <2>3. ASSUME Plain, Len(stack) = 1, stack[1].at \in {"input", "app"},
               stack[1].sent < Len(log)
        PROVE  \A r \in Responders : Handled(r)
    <3>1. stack # <<>>
      BY <2>3
    <3> QED
      BY <2>3, <3>1 DEF OneInv, OneOK, Progress
  <2>4. Len(stack) = 1 => stack # <<>>
    OBVIOUS
  <2> QED
    BY <2>1, <2>2, <2>3, <2>4 DEF AsOneStep, Plain, Handled, Drops, Reaches
<1> QED
  BY <1>1, <1>2, OneStep, TypeInvariant, ClosedInvariant, PTL DEF Spec

=============================================================================
