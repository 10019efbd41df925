---------------------------- MODULE ServerProofs ----------------------------
(***************************************************************************)
(* Theorems about Server, for every number of clients, every set of calls, *)
(* every message size and every limit of the output.                       *)
(***************************************************************************)
EXTENDS Server, SequenceLemmas

-----------------------------------------------------------------------------
(* Lemmas about sequences and about the operators of the model.            *)

LEMMA SubSeqType ==
  ASSUME NEW S, NEW e \in Seq(S), NEW m \in 1..(Len(e) + 1), NEW n \in 0..Len(e)
  PROVE  /\ SubSeq(e, m, n) \in Seq(S)
         /\ Len(SubSeq(e, m, n)) <= Len(e)
<1>1. \A i \in m..n : e[i] \in S
  BY ElementOfSeq
<1> QED
  BY <1>1, SubSeqProperties

LEMMA RemoveAtType ==
  ASSUME NEW S, NEW e \in Seq(S), NEW i \in DOMAIN e
  PROVE  RemoveAt(e, i) \in Seq(S)
<1>1. i \in 1..Len(e)
  OBVIOUS
<1>2. SubSeq(e, 1, i - 1) \in Seq(S)
  BY <1>1, SubSeqType
<1>3. SubSeq(e, i + 1, Len(e)) \in Seq(S)
  BY <1>1, SubSeqType
<1> QED
  BY <1>2, <1>3, ConcatProperties DEF RemoveAt

LEMMA WireMessageType ==
  ASSUME NEW c \in Call
  PROVE  WireMessage(c) \in Message
BY DEF Call, CallOps, Types, WireMessage, Message, MessageTypes, SubscribeType,
       SubscribeWithObjectType, UnsubscribeType

LEMMA ViewAfterType ==
  ASSUME NEW c \in Call, NEW v \in Seq(Subscriptions)
  PROVE  ViewAfter(v, c) \in Seq(Subscriptions)
<1> DEFINE s == [topic |-> c.topic, type |-> c.type]
<1>1. s \in Subscriptions
  BY DEF Call, Subscriptions
<1>2. Append(v, s) \in Seq(Subscriptions)
  BY <1>1
<1>3. RemoveFirst(v, s) \in Seq(Subscriptions)
  <2>1. CASE RemoveFirst(v, s) = v
    BY <2>1
  <2>2. ASSUME NEW i \in 1..Len(v), RemoveFirst(v, s) = RemoveAt(v, i)
        PROVE  RemoveFirst(v, s) \in Seq(Subscriptions)
    BY <2>2, RemoveAtType
  <2>3. Len(v) \in Nat
    OBVIOUS
  <2>4. \/ RemoveFirst(v, s) = v
        \/ \E i \in 1..Len(v) : RemoveFirst(v, s) = RemoveAt(v, i)
    <3> HIDE DEF s
    <3> QED
      BY <2>3, RemoveFirstIs
  <2> QED
    BY <2>1, <2>2, <2>4
<1>4. CASE c.op \in {"subscribe", "subscribeWithObject"}
  BY <1>2, <1>4 DEF ViewAfter
<1>5. CASE c.op = "unsubscribe"
  BY <1>3, <1>5 DEF ViewAfter
<1>6. CASE c.op \notin {"subscribe", "subscribeWithObject", "unsubscribe"}
  BY <1>6 DEF ViewAfter
<1> QED
  BY <1>4, <1>5, <1>6

(* The message about to be handled, and those behind it.                   *)
LEMMA HeadMessage ==
  ASSUME TypeOK, NEW r, Handling(r)
  PROVE  /\ Head(batch) \in Message
         /\ Head(batch).topic \in Topic
         /\ Tail(batch) \in Seq(Message)
<1>1. batch \in Seq(Message) /\ batch # <<>>
  BY DEF TypeOK, Handling
<1>2. Head(batch) \in Message /\ Tail(batch) \in Seq(Message)
  BY <1>1, HeadTailProperties
<1> QED
  BY <1>2 DEF Message

LEMMA SubscriptionTypeType ==
  ASSUME NEW m \in Message
  PROVE  [topic |-> m.topic, type |-> SubscriptionType(m)] \in Subscriptions
BY DEF Message, SubscriptionType, Subscriptions, Types

LEMMA PacketType ==
  ASSUME NEW id \in Nat, NEW topic \in Topic
  PROVE  /\ Packet(id, topic) \in Seq(Nat)
         /\ Len(Packet(id, topic)) = MsgSize[topic]
<1>1. MsgSize[topic] \in Nat
  BY ServerAssumption
<1> QED
  BY <1>1 DEF Packet

(* A dispatch closes some open clients and extends the output of others.   *)
LEMMA DispatchType ==
  ASSUME TypeOK, NEW topic \in Topic, NEW serial \in Nat,
         NEW from \in Responders \cup {NoResponder},
         NEW closing, Dispatch(topic, serial, from, closing)
  PROVE  /\ conn' \in [Responders -> {"new", "open", "closed"}]
         /\ subs' \in [Responders -> Seq(Subscriptions)]
         /\ obuf' \in [Responders -> Seq(Nat)]
         /\ pending' \in SUBSET Responders
         /\ reading' \in SUBSET Responders
         /\ log' \in Seq(LogEntry)
<1>1. /\ conn' \in [Responders -> {"new", "open", "closed"}]
      /\ subs' \in [Responders -> Seq(Subscriptions)]
  <2>1. /\ conn' = [r \in Responders |-> IF r \in closing THEN "closed" ELSE conn[r]]
        /\ subs' = [r \in Responders |-> IF r \in closing THEN <<>> ELSE subs[r]]
    BY DEF Dispatch, CloseClients
  <2>2. \A r \in Responders : /\ conn[r] \in {"new", "open", "closed"}
                              /\ subs[r] \in Seq(Subscriptions)
    BY DEF TypeOK
  <2>3. <<>> \in Seq(Subscriptions)
    OBVIOUS
  <2> QED
    BY <2>1, <2>2, <2>3
<1>2. Packet(Len(log) + 1, topic) \in Seq(Nat)
  <2>1. Len(log) + 1 \in Nat
    BY DEF TypeOK
  <2> QED
    BY <2>1, PacketType
<1>3. obuf' \in [Responders -> Seq(Nat)]
  BY <1>2 DEF TypeOK, Dispatch
<1>4. pending' \in SUBSET Responders
  BY DEF TypeOK, Dispatch, Reached, Subscribers
<1>6. reading' \in SUBSET Responders
  BY DEF TypeOK, Dispatch, CloseClients
<1>5. log' \in Seq(LogEntry)
  BY DEF TypeOK, Dispatch, LogEntry, Subscribers
<1> QED
  BY <1>1, <1>3, <1>4, <1>5, <1>6

-----------------------------------------------------------------------------

(* Every variable keeps its type.                                          *)
THEOREM TypeCorrect == Spec => []TypeOK
<1>1. Init => TypeOK
  BY DEF Init, TypeOK
<1>2. TypeOK /\ [Next]_vars => TypeOK'
  <2> SUFFICES ASSUME TypeOK, [Next]_vars
               PROVE  TypeOK'
    OBVIOUS
  <2> USE DEF serverVars, peerVars, historyVars
  <2>1. ASSUME NEW r \in Responders, NEW c \in Calls[r], PeerCall(r, c)
        PROVE  TypeOK'
    <3>1. c \in Call
      BY ServerAssumption
    <3>2. inbox' \in [Responders -> Seq(Message)]
      BY <2>1, <3>1, WireMessageType DEF PeerCall, TypeOK
    <3>3. view' \in [Responders -> Seq(Subscriptions)]
      BY <2>1, <3>1, ViewAfterType DEF PeerCall, TypeOK
    <3>4. published' \in [Responders -> Seq(Topic)]
      BY <2>1, <3>1 DEF PeerCall, TypeOK, Call
    <3>5. calls' \in Nat
      BY <2>1 DEF PeerCall, TypeOK
    <3>6. offenders' \in SUBSET Responders
      BY <2>1, Zenon DEF PeerCall, TypeOK
    <3>7. UNCHANGED <<serverVars, link, sent, log>>
      BY <2>1 DEF PeerCall
    <3> QED
      BY <3>2, <3>3, <3>4, <3>5, <3>6, <3>7 DEF TypeOK
  <2>2. ASSUME NEW r \in Responders, PeerCloses(r) \/ PeerResets(r)
        PROVE  TypeOK'
    BY <2>2 DEF PeerCloses, PeerResets, TypeOK
  <2>3. ASSUME NEW r \in Responders, Accept(r)
        PROVE  TypeOK'
    <3>1. slots' \in Seq(Responders)
      BY <2>3 DEF Accept, TypeOK
    <3>2. conn' \in [Responders -> {"new", "open", "closed"}]
      BY <2>3 DEF Accept, TypeOK
    <3> QED
      BY <2>3, <3>1, <3>2 DEF Accept, TypeOK
  <2>4. ASSUME NEW r \in Responders, NEW n \in 1..Len(inbox[r]), OnInput(r, n)
        PROVE  TypeOK'
    <3>1. inbox[r] \in Seq(Message)
      BY DEF TypeOK
    <3>2. SubSeq(inbox[r], 1, n) \in Seq(Message)
      BY <3>1, SubSeqType
    <3>3. SubSeq(inbox[r], n + 1, Len(inbox[r])) \in Seq(Message)
      BY <3>1, SubSeqType
    <3> QED
      BY <2>4, <3>2, <3>3 DEF OnInput, TypeOK
  <2>5. ASSUME NEW r \in Responders, CloseClient(r),
               UNCHANGED <<slots, lastSerial, dangling, peerVars, historyVars>>
        PROVE  TypeOK'
    BY <2>5 DEF CloseClient, CloseClients, TypeOK
  <2>6. ASSUME NEW r \in Responders, HandleData(r)
        PROVE  TypeOK'
    <3> DEFINE topic == Head(batch).topic
    <3>1. topic \in Topic /\ Tail(batch) \in Seq(Message)
      BY <2>6, HeadMessage DEF HandleData
    <3>2. lastSerial + 1 \in Nat
      BY DEF TypeOK
    <3>3. PICK closing : Dispatch(topic, lastSerial + 1, r, closing)
      BY <2>6 DEF HandleData
    <3>4. /\ conn' \in [Responders -> {"new", "open", "closed"}]
          /\ subs' \in [Responders -> Seq(Subscriptions)]
          /\ obuf' \in [Responders -> Seq(Nat)]
          /\ pending' \in SUBSET Responders
          /\ reading' \in SUBSET Responders
          /\ log' \in Seq(LogEntry)
      BY <3>1, <3>2, <3>3, DispatchType
    <3>5. /\ active' \in Responders \cup {NoResponder}
          /\ batch' \in Seq(Message)
          /\ dangling' \in SUBSET Responders
      <4>1. CASE Aborts(topic)
        BY <2>6, <4>1 DEF HandleData, TypeOK
      <4>2. CASE ~Aborts(topic)
        BY <2>6, <3>1, <4>2 DEF HandleData
      <4> QED
        BY <4>1, <4>2
    <3>6. /\ lastSerial' = lastSerial + 1
          /\ UNCHANGED <<slots, peerVars, published, view, offenders>>
      BY <2>6 DEF HandleData
    <3> QED
      BY <3>2, <3>4, <3>5, <3>6 DEF TypeOK
  <2>7. ASSUME NEW r \in Responders, HandleRefused(r) \/ HandleSystem(r)
        PROVE  TypeOK'
    <3>1. Tail(batch) \in Seq(Message)
      BY <2>7, HeadMessage DEF HandleRefused, HandleSystem
    <3>2. batch' = Tail(batch) /\ lastSerial' \in Nat
      <4>1. lastSerial \in Nat
        BY DEF TypeOK
      <4>2. batch' = Tail(batch) /\ lastSerial' \in {lastSerial, lastSerial + 1}
        BY <2>7 DEF HandleRefused, HandleSystem
      <4> QED
        BY <4>1, <4>2
    <3>3. UNCHANGED <<conn, slots, subs, obuf, pending, reading, active,
                      dangling, peerVars, historyVars>>
      BY <2>7 DEF HandleRefused, HandleSystem
    <3> QED
      BY <2>7, <3>1, <3>2, <3>3 DEF TypeOK
  <2>8. ASSUME NEW r \in Responders, HandleSubscribe(r)
        PROVE  TypeOK'
    <3>1. Head(batch) \in Message /\ Tail(batch) \in Seq(Message)
      BY <2>8, HeadMessage DEF HandleSubscribe
    <3>2. subs' \in [Responders -> Seq(Subscriptions)]
      <4> DEFINE s == [topic |-> Head(batch).topic,
                       type  |-> SubscriptionType(Head(batch))]
      <4>1. subs' = [subs EXCEPT ![r] = Append(@, s)]
        BY <2>8 DEF HandleSubscribe
      <4>2. s \in Subscriptions
        BY <3>1, SubscriptionTypeType
      <4> HIDE DEF s
      <4>3. subs[r] \in Seq(Subscriptions)
        BY DEF TypeOK
      <4> QED
        BY <4>1, <4>2, <4>3 DEF TypeOK
    <3>3. /\ batch' = Tail(batch)
          /\ UNCHANGED <<conn, slots, obuf, pending, reading, active, lastSerial,
                         dangling, peerVars, historyVars>>
      BY <2>8 DEF HandleSubscribe
    <3> QED
      BY <3>1, <3>2, <3>3 DEF TypeOK
  <2>9. ASSUME NEW r \in Responders, HandleUnsubscribe(r)
        PROVE  TypeOK'
    <3>1. Tail(batch) \in Seq(Message)
      BY <2>9, HeadMessage DEF HandleUnsubscribe
    <3>2. \A i \in DOMAIN subs[r] : RemoveAt(subs[r], i) \in Seq(Subscriptions)
      BY RemoveAtType DEF TypeOK
    <3>3. \/ \E i \in DOMAIN subs[r] :
               subs' = [subs EXCEPT ![r] = RemoveAt(@, i)]
          \/ subs' = subs
      BY <2>9, Zenon DEF HandleUnsubscribe
    <3>4. subs' \in [Responders -> Seq(Subscriptions)]
      <4>1. subs \in [Responders -> Seq(Subscriptions)]
        BY DEF TypeOK
      <4>2. ASSUME NEW e \in Seq(Subscriptions), subs' = [subs EXCEPT ![r] = e]
            PROVE  subs' \in [Responders -> Seq(Subscriptions)]
        BY <4>1, <4>2
      <4> QED
        BY <3>2, <3>3, <4>1, <4>2, Zenon
    <3>5. /\ batch' = Tail(batch)
          /\ UNCHANGED <<conn, slots, obuf, pending, reading, active, lastSerial,
                         dangling, peerVars, historyVars>>
      BY <2>9 DEF HandleUnsubscribe
    <3> QED
      BY <3>1, <3>4, <3>5 DEF TypeOK
  <2>10. ASSUME NEW r \in Responders, EndInput(r)
         PROVE  TypeOK'
    BY <2>10 DEF EndInput, TypeOK
  <2>11. ASSUME NEW r \in Responders, NEW k \in 1..Len(obuf[r]), OnOutput(r, k)
         PROVE  TypeOK'
    <3>1. obuf[r] \in Seq(Nat) /\ sent[r] \in Seq(Nat)
      BY DEF TypeOK
    <3>2. SubSeq(obuf[r], 1, k) \in Seq(Nat)
      BY <3>1, SubSeqType
    <3>3. SubSeq(obuf[r], k + 1, Len(obuf[r])) \in Seq(Nat)
      BY <3>1, SubSeqType
    <3>4. sent[r] \o SubSeq(obuf[r], 1, k) \in Seq(Nat)
      BY <3>1, <3>2
    <3> QED
      BY <2>11, <3>3, <3>4 DEF OnOutput, TypeOK
  <2>12. ASSUME NEW topic \in AppTopics, AppSend(topic)
         PROVE  TypeOK'
    <3>1. topic \in Topic
      BY ServerAssumption
    <3>2. /\ conn' \in [Responders -> {"new", "open", "closed"}]
          /\ subs' \in [Responders -> Seq(Subscriptions)]
          /\ obuf' \in [Responders -> Seq(Nat)]
          /\ pending' \in SUBSET Responders
          /\ reading' \in SUBSET Responders
          /\ log' \in Seq(LogEntry)
      BY <2>12, <3>1, DispatchType DEF AppSend
    <3>3. /\ calls' = calls + 1
          /\ UNCHANGED <<slots, active, batch, lastSerial, dangling, link, inbox,
                         sent, published, view, offenders>>
      BY <2>12 DEF AppSend
    <3> QED
      BY <3>2, <3>3 DEF TypeOK
  <2>13. CASE UNCHANGED vars
    BY <2>13 DEF vars, TypeOK
  <2> QED
    BY <2>1, <2>2, <2>3, <2>4, <2>5, <2>6, <2>7, <2>8, <2>9, <2>10, <2>11,
       <2>12, <2>13
       DEF Next, Handle, HandleFailure, OnInputEnd, OnOutputError
<1> QED
  BY <1>1, <1>2, PTL DEF Spec

-----------------------------------------------------------------------------
(* Deleted responders and the limit of the output.                         *)

LifeInv == TypeOK /\ ResponderLife /\ OutputBounded

(* A dispatch that deletes at least the clients over the limit keeps the   *)
(* others within it, and leaves nothing behind of those it deletes.        *)
LEMMA DispatchLife ==
  ASSUME LifeInv, NEW topic \in Topic, NEW serial, NEW from, NEW closing,
         Dropped(topic) \subseteq closing,
         Dispatch(topic, serial, from, closing)
  PROVE  /\ OutputBounded'
         /\ \A r \in Responders :
              /\ conn'[r] # "open" =>
                   obuf'[r] = <<>> /\ subs'[r] = <<>> /\ r \notin reading'
              /\ conn'[r] = IF r \in closing THEN "closed" ELSE conn[r]
              /\ r \in reading' <=> r \in reading /\ r \notin closing
<1> SUFFICES ASSUME NEW r \in Responders
             PROVE  /\ MaxOBuf # 0 /\ conn'[r] = "open" => Len(obuf'[r]) <= MaxOBuf
                    /\ conn'[r] # "open" =>
                         obuf'[r] = <<>> /\ subs'[r] = <<>> /\ r \notin reading'
                    /\ conn'[r] = IF r \in closing THEN "closed" ELSE conn[r]
                    /\ r \in reading' <=> r \in reading /\ r \notin closing
  BY DEF OutputBounded
<1>1. /\ conn'[r] = IF r \in closing THEN "closed" ELSE conn[r]
      /\ subs'[r] = IF r \in closing THEN <<>> ELSE subs[r]
      /\ reading' = reading \ closing
  BY DEF Dispatch, CloseClients
<1>2. obuf'[r] = IF r \in closing THEN <<>>
                 ELSE IF r \in Reached(topic)
                      THEN obuf[r] \o Packet(Len(log) + 1, topic)
                      ELSE obuf[r]
  BY DEF Dispatch
<1>3. CASE r \in closing
  BY <1>1, <1>2, <1>3
<1>4. CASE r \notin closing /\ r \notin Reached(topic)
  BY <1>1, <1>2, <1>4 DEF LifeInv, ResponderLife, OutputBounded
<1>5. CASE r \notin closing /\ r \in Reached(topic)
  <2>1. conn[r] = "open"
    BY <1>5 DEF Reached, Subscribers
  <2>2. ~Overflows(r, topic)
    BY <1>5 DEF Dropped
  <2>3. Len(log) + 1 \in Nat /\ obuf[r] \in Seq(Nat)
    BY DEF LifeInv, TypeOK
  <2>4. Len(obuf'[r]) = Len(obuf[r]) + MsgSize[topic]
    <3>1. /\ Packet(Len(log) + 1, topic) \in Seq(Nat)
          /\ Len(Packet(Len(log) + 1, topic)) = MsgSize[topic]
      BY <2>3, PacketType
    <3>2. obuf'[r] = obuf[r] \o Packet(Len(log) + 1, topic)
      BY <1>2, <1>5
    <3>3. \A e \in Seq(Nat) : Len(obuf[r] \o e) = Len(obuf[r]) + Len(e)
      BY <2>3, ConcatProperties
    <3> QED
      BY <3>1, <3>2, <3>3
  <2>5. MaxOBuf # 0 => Len(obuf'[r]) <= MaxOBuf
    <3>1. MsgSize[topic] \in Nat /\ MaxOBuf \in Nat /\ Len(obuf[r]) \in Nat
      BY <2>3, ServerAssumption
    <3> QED
      BY <2>2, <2>4, <3>1 DEF Overflows
  <2> QED
    BY <1>1, <1>5, <2>1, <2>5
<1> QED
  BY <1>3, <1>4, <1>5

(* The output of an open client is within the limit, and a deleted         *)
(* responder is not in use.                                                *)
LEMMA LifeInvariant == Spec => []LifeInv
<1>1. Init => LifeInv
  <2>1. Init => TypeOK
    BY DEF Init, TypeOK
  <2> QED
    BY <2>1, ServerAssumption DEF Init, LifeInv, ResponderLife, OutputBounded
<1>2. LifeInv /\ TypeOK' /\ [Next]_vars => LifeInv'
  <2> SUFFICES ASSUME LifeInv, TypeOK', [Next]_vars
               PROVE  ResponderLife' /\ OutputBounded'
    BY DEF LifeInv
  <2>1. ASSUME UNCHANGED <<conn, obuf, subs, reading, active, dangling>>
        PROVE  ResponderLife' /\ OutputBounded'
    BY <2>1 DEF LifeInv, ResponderLife, OutputBounded
  <2>2. ASSUME NEW r \in Responders, PeerCloses(r) \/ PeerResets(r)
                                     \/ \E c \in Calls[r] : PeerCall(r, c)
        PROVE  ResponderLife' /\ OutputBounded'
    BY <2>1, <2>2 DEF PeerCloses, PeerResets, PeerCall, serverVars
  <2>3. ASSUME NEW r \in Responders, Accept(r)
        PROVE  ResponderLife' /\ OutputBounded'
    <3>1. Len(obuf[r]) = 0 /\ MaxOBuf \in Nat
      BY <2>3, ServerAssumption DEF Accept, LifeInv, ResponderLife
    <3>2. /\ conn'[r] = "open"
          /\ \A x \in Responders : x # r => conn'[x] = conn[x]
          /\ reading' = reading \cup {r}
          /\ UNCHANGED <<obuf, subs, active, dangling>>
          /\ active = NoResponder
      BY <2>3 DEF Accept, Idle, LifeInv, TypeOK
    <3> QED
      BY <3>1, <3>2, ServerAssumption DEF LifeInv, ResponderLife, OutputBounded
  <2>4. ASSUME NEW r \in Responders, NEW n \in 1..Len(inbox[r]), OnInput(r, n)
        PROVE  ResponderLife' /\ OutputBounded'
    <3>1. /\ active = NoResponder /\ dangling = {} /\ active' = r
          /\ reading' = reading \ {r} /\ r \in reading
          /\ UNCHANGED <<conn, obuf, subs, dangling>>
      BY <2>4 DEF OnInput, Idle
    <3> QED
      BY <3>1, ServerAssumption DEF LifeInv, ResponderLife, OutputBounded
  <2>5. ASSUME NEW r \in Responders, CloseClient(r), UNCHANGED dangling,
               active \in {r, NoResponder}
        PROVE  ResponderLife' /\ OutputBounded'
    <3>1. active' = NoResponder /\ NoResponder \notin Responders
      BY <2>5, ServerAssumption DEF CloseClient
    <3>2. /\ conn'[r] = "closed" /\ obuf'[r] = <<>> /\ subs'[r] = <<>>
          /\ reading' = reading \ {r}
          /\ \A x \in Responders : x # r => /\ conn'[x] = conn[x]
                                          /\ obuf'[x] = obuf[x]
                                          /\ subs'[x] = subs[x]
      BY <2>5 DEF CloseClient, CloseClients, LifeInv, TypeOK
    <3> QED
      BY <2>5, <3>1, <3>2 DEF LifeInv, ResponderLife, OutputBounded
  <2>6. ASSUME NEW r \in Responders, HandleData(r)
        PROVE  ResponderLife' /\ OutputBounded'
    <3> DEFINE topic == Head(batch).topic
    <3>1. topic \in Topic
      BY <2>6, HeadMessage DEF HandleData, LifeInv
    <3>2. active = r /\ dangling = {} /\ conn[r] = "open"
      BY <2>6 DEF HandleData, Handling, LifeInv, ResponderLife
    <3>3. PICK closing : /\ Dropped(topic) \subseteq closing
                         /\ Dispatch(topic, lastSerial + 1, r, closing)
                         /\ \/ active' = NoResponder /\ r \in closing
                            \/ /\ closing = Dropped(topic)
                               /\ active' = r
                               /\ dangling' = {r} \cap Dropped(topic)
      BY <2>6 DEF HandleData
    <3>4. /\ OutputBounded'
          /\ \A x \in Responders :
               /\ conn'[x] # "open" =>
                    obuf'[x] = <<>> /\ subs'[x] = <<>> /\ x \notin reading'
               /\ conn'[x] = IF x \in closing THEN "closed" ELSE conn[x]
               /\ x \in reading' <=> x \in reading /\ x \notin closing
      BY <3>1, <3>3, DispatchLife
    <3>5. active' = r /\ dangling' = {} => conn'[r] = "open"
      <4>1. CASE active' = NoResponder
        BY <4>1, ServerAssumption
      <4>2. CASE active' = r
        BY <4>2, <3>2, <3>3, <3>4, ServerAssumption
      <4> QED
        BY <4>1, <4>2, <3>3
    <3> QED
      BY <3>2, <3>3, <3>4, <3>5, ServerAssumption DEF LifeInv, ResponderLife
  <2>7. ASSUME NEW r \in Responders, HandleRefused(r) \/ HandleSystem(r)
        PROVE  ResponderLife' /\ OutputBounded'
    BY <2>1, <2>7 DEF HandleRefused, HandleSystem
  <2>8. ASSUME NEW r \in Responders, HandleSubscribe(r) \/ HandleUnsubscribe(r)
        PROVE  ResponderLife' /\ OutputBounded'
    <3>1. conn[r] = "open"
      BY <2>8 DEF HandleSubscribe, HandleUnsubscribe, Handling, LifeInv,
                  ResponderLife
    <3>2. \A x \in Responders : x # r => subs'[x] = subs[x]
      BY <2>8 DEF HandleSubscribe, HandleUnsubscribe, LifeInv, TypeOK
    <3>3. UNCHANGED <<conn, obuf, reading, active, dangling>>
      BY <2>8 DEF HandleSubscribe, HandleUnsubscribe
    <3> QED
      BY <3>1, <3>2, <3>3 DEF LifeInv, ResponderLife, OutputBounded
  <2>9. ASSUME NEW r \in Responders, EndInput(r)
        PROVE  ResponderLife' /\ OutputBounded'
    BY <2>9, ServerAssumption DEF EndInput, LifeInv, ResponderLife, OutputBounded
  <2>10. ASSUME NEW r \in Responders, NEW k \in 1..Len(obuf[r]), OnOutput(r, k)
         PROVE  ResponderLife' /\ OutputBounded'
    <3>1. obuf[r] \in Seq(Nat) /\ MaxOBuf \in Nat
      BY ServerAssumption DEF LifeInv, TypeOK
    <3>2. Len(SubSeq(obuf[r], k + 1, Len(obuf[r]))) <= Len(obuf[r])
      BY <3>1, SubSeqType
    <3>3. /\ conn[r] = "open"
          /\ obuf' = [obuf EXCEPT ![r] = SubSeq(obuf[r], k + 1, Len(obuf[r]))]
          /\ UNCHANGED <<conn, subs, reading, active, dangling>>
      BY <2>10 DEF OnOutput
    <3>4. OutputBounded'
      <4>1. ASSUME NEW x \in Responders, MaxOBuf # 0, conn[x] = "open"
            PROVE  Len(obuf'[x]) <= MaxOBuf
        <5>1. Len(obuf[x]) <= MaxOBuf
          BY <4>1 DEF LifeInv, OutputBounded
        <5>2. obuf' \in [Responders -> Seq(Nat)]
          BY DEF TypeOK
        <5>3. CASE x = r
          <6>1. /\ Len(obuf[r]) \in Nat
                /\ obuf'[r] = SubSeq(obuf[r], k + 1, Len(obuf[r]))
                /\ Len(obuf'[r]) \in Nat
            <7>1. obuf'[r] = SubSeq(obuf[r], k + 1, Len(obuf[r]))
              BY <3>3 DEF LifeInv, TypeOK
            <7>2. obuf'[r] \in Seq(Nat)
              BY <5>2
            <7> QED
              BY <3>1, <7>1, <7>2
          <6> QED
            BY <3>1, <3>2, <5>1, <5>3, <6>1
        <5>4. CASE x # r
          BY <3>3, <5>1, <5>4 DEF LifeInv, TypeOK
        <5> QED
          BY <5>3, <5>4
      <4> QED
        BY <3>3, <4>1 DEF OutputBounded
    <3>5. ResponderLife'
      BY <3>3 DEF LifeInv, ResponderLife, TypeOK
    <3> QED
      BY <3>4, <3>5
  <2>11. ASSUME NEW topic \in AppTopics, AppSend(topic)
         PROVE  ResponderLife' /\ OutputBounded'
    <3>1. topic \in Topic
      BY ServerAssumption
    <3>2. /\ OutputBounded'
          /\ \A x \in Responders :
               /\ conn'[x] # "open" =>
                    obuf'[x] = <<>> /\ subs'[x] = <<>> /\ x \notin reading'
               /\ conn'[x] = IF x \in Dropped(topic) THEN "closed" ELSE conn[x]
               /\ x \in reading' <=> x \in reading /\ x \notin Dropped(topic)
      <4>1. Dispatch(topic, 0, NoResponder, Dropped(topic))
        BY <2>11 DEF AppSend
      <4> QED
        BY <3>1, <4>1, DispatchLife
    <3>3. active = NoResponder /\ UNCHANGED <<active, dangling>>
      BY <2>11 DEF AppSend, Idle
    <3> QED
      BY <3>2, <3>3, ServerAssumption DEF LifeInv, ResponderLife
  <2>12. CASE UNCHANGED vars
    BY <2>1, <2>12 DEF vars, serverVars
  <2> QED
    BY <2>2, <2>3, <2>4, <2>5, <2>6, <2>7, <2>8, <2>9, <2>10, <2>11, <2>12
       DEF Next, Handle, HandleFailure, Handling, OnInputEnd, OnOutputError, Idle
<1> QED
  BY <1>1, <1>2, TypeCorrect, PTL DEF Spec

(* A client that does not read never holds more than MaxOBuf units of      *)
(* memory between two events.                                              *)
THEOREM OutputIsBounded == Spec => []OutputBounded
BY LifeInvariant, PTL DEF LifeInv

(* The server never works on a deleted responder's buffers or              *)
(* subscriptions outside the handler that deleted it.                      *)
THEOREM DeletedIsUnused == Spec => []ResponderLife
BY LifeInvariant, PTL DEF LifeInv

-----------------------------------------------------------------------------
(* The use of a deleted responder.                                         *)

Publishes(r) == \E c \in Calls[r] : c.op = "publish"

Subscribes(r) == \E c \in Calls[r] : c.op \in {"subscribe", "subscribeWithObject"}

(* No client publishes and subscribes over the same connection.            *)
RolesSeparate == \A r \in Responders : ~(Publishes(r) /\ Subscribes(r))

Sendable(r) == {WireMessage(c) : c \in Calls[r]}

(* What the server has of a client comes from the calls the client makes.  *)
RoleInv ==
  \A r \in Responders :
    /\ inbox[r] \in Seq(Sendable(r))
    /\ active = r => batch \in Seq(Sendable(r))
    /\ subs[r] # <<>> => Subscribes(r)

LEMMA SendableType ==
  ASSUME NEW r \in Responders, NEW m \in Sendable(r)
  PROVE  /\ m.type = "Data" => Publishes(r)
         /\ IsSubscribe(m) => Subscribes(r)
<1>1. PICK c \in Calls[r] : m = WireMessage(c)
  BY DEF Sendable
<1>2. c \in Call
  BY ServerAssumption
<1>3. m.type = "Data" => c.op = "publish"
  BY <1>1, <1>2 DEF Call, CallOps, WireMessage, SubscribeType,
                    SubscribeWithObjectType, UnsubscribeType
<1>4. IsSubscribe(m) => c.op \in {"subscribe", "subscribeWithObject"}
  BY <1>1, <1>2 DEF Call, CallOps, WireMessage, SubscribeType, IsSubscribe,
                    SubscribeWithObjectType, UnsubscribeType
<1> QED
  BY <1>3, <1>4 DEF Publishes, Subscribes

LEMMA HeadSendable ==
  ASSUME RoleInv, NEW r \in Responders, Handling(r)
  PROVE  /\ Head(batch) \in Sendable(r)
         /\ Tail(batch) \in Seq(Sendable(r))
<1>1. batch \in Seq(Sendable(r)) /\ batch # <<>>
  BY DEF RoleInv, Handling
<1> QED
  BY <1>1, HeadTailProperties

LEMMA RoleInvariant == Spec => []RoleInv
<1>1. Init => RoleInv
  BY ServerAssumption DEF Init, RoleInv
<1>2. TypeOK /\ RoleInv /\ [Next]_vars => RoleInv'
  <2> SUFFICES ASSUME TypeOK, RoleInv, [Next]_vars
               PROVE  RoleInv'
    OBVIOUS
  <2>1. ASSUME NEW r \in Responders, NEW c \in Calls[r], PeerCall(r, c)
        PROVE  RoleInv'
    <3>1. Append(inbox[r], WireMessage(c)) \in Seq(Sendable(r))
      BY AppendProperties DEF RoleInv, Sendable
    <3>2. /\ inbox'[r] = Append(inbox[r], WireMessage(c))
          /\ \A x \in Responders : x # r => inbox'[x] = inbox[x]
      BY <2>1 DEF PeerCall, TypeOK
    <3> QED
      BY <2>1, <3>1, <3>2 DEF PeerCall, serverVars, RoleInv
  <2>2. ASSUME UNCHANGED <<inbox, subs, active, batch>>
        PROVE  RoleInv'
    BY <2>2 DEF RoleInv
  <2>3. ASSUME NEW r \in Responders, NEW n \in 1..Len(inbox[r]), OnInput(r, n)
        PROVE  RoleInv'
    <3>1. inbox[r] \in Seq(Sendable(r))
      BY DEF RoleInv
    <3>2. /\ SubSeq(inbox[r], 1, n) \in Seq(Sendable(r))
          /\ SubSeq(inbox[r], n + 1, Len(inbox[r])) \in Seq(Sendable(r))
      BY <3>1, SubSeqType
    <3>3. /\ inbox'[r] = SubSeq(inbox[r], n + 1, Len(inbox[r]))
          /\ \A x \in Responders : x # r => inbox'[x] = inbox[x]
          /\ active' = r
          /\ batch' = SubSeq(inbox[r], 1, n)
          /\ UNCHANGED subs
      BY <2>3 DEF OnInput, TypeOK
    <3> QED
      BY <3>2, <3>3 DEF RoleInv
  <2>4. ASSUME NEW r \in Responders, CloseClient(r), UNCHANGED inbox
        PROVE  RoleInv'
    BY <2>4, ServerAssumption DEF CloseClient, CloseClients, RoleInv
  <2>5. ASSUME NEW R, CloseClients(R)
        PROVE  \A x \in Responders : subs'[x] # <<>> => Subscribes(x)
    BY <2>5 DEF CloseClients, RoleInv
  <2>6. ASSUME NEW r \in Responders, HandleData(r)
        PROVE  RoleInv'
    <3>1. Tail(batch) \in Seq(Sendable(r))
      BY <2>6, HeadSendable DEF HandleData
    <3>2. \A x \in Responders : subs'[x] # <<>> => Subscribes(x)
      BY <2>6, <2>5 DEF HandleData, Dispatch
    <3>3. /\ UNCHANGED inbox
          /\ \/ active' = NoResponder
             \/ active' = r /\ batch' = Tail(batch)
      BY <2>6 DEF HandleData, peerVars
    <3> QED
      BY <3>1, <3>2, <3>3, ServerAssumption DEF RoleInv
  <2>7. ASSUME NEW r \in Responders, Handling(r), batch' = Tail(batch),
               UNCHANGED <<inbox, active>>,
               \A x \in Responders : subs'[x] # <<>> => Subscribes(x)
        PROVE  RoleInv'
    <3>1. Tail(batch) \in Seq(Sendable(r)) /\ active = r
      BY <2>7, HeadSendable DEF Handling
    <3> QED
      BY <2>7, <3>1 DEF RoleInv
  <2>8. ASSUME NEW r \in Responders, HandleRefused(r) \/ HandleSystem(r)
        PROVE  RoleInv'
    BY <2>7, <2>8 DEF HandleRefused, HandleSystem, peerVars, RoleInv
  <2>9. ASSUME NEW r \in Responders, HandleSubscribe(r)
        PROVE  RoleInv'
    <3>1. Subscribes(r)
      BY <2>9, HeadSendable, SendableType DEF HandleSubscribe
    <3>2. \A x \in Responders : x # r => subs'[x] = subs[x]
      BY <2>9 DEF HandleSubscribe, TypeOK
    <3>3. \A x \in Responders : subs'[x] # <<>> => Subscribes(x)
      BY <3>1, <3>2 DEF RoleInv
    <3> QED
      BY <2>7, <2>9, <3>3 DEF HandleSubscribe, peerVars
  <2>10. ASSUME NEW r \in Responders, HandleUnsubscribe(r)
         PROVE  RoleInv'
    <3>1. subs[r] = <<>> => subs'[r] = <<>>
      BY <2>10 DEF HandleUnsubscribe, IsFirstEqual
    <3>2. \A x \in Responders : x # r => subs'[x] = subs[x]
      BY <2>10 DEF HandleUnsubscribe, TypeOK
    <3>3. \A x \in Responders : subs'[x] # <<>> => Subscribes(x)
      BY <3>1, <3>2 DEF RoleInv
    <3> QED
      BY <2>7, <2>10, <3>3 DEF HandleUnsubscribe, peerVars
  <2>11. ASSUME NEW r \in Responders, EndInput(r)
         PROVE  RoleInv'
    BY <2>11, ServerAssumption DEF EndInput, peerVars, RoleInv
  <2>12. ASSUME NEW topic \in AppTopics, AppSend(topic)
         PROVE  RoleInv'
    BY <2>12, <2>5 DEF AppSend, Dispatch, RoleInv
  <2> QED
    BY <2>1, <2>2, <2>3, <2>4, <2>6, <2>8, <2>9, <2>10, <2>11, <2>12
       DEF Next, Handle, HandleFailure, OnInputEnd, OnOutputError, PeerCloses,
           PeerResets, Accept, OnOutput, vars, serverVars, peerVars
<1> QED
  BY <1>1, <1>2, TypeCorrect, PTL DEF Spec

(* onInput uses a deleted responder only if the output is limited and a    *)
(* client publishes over a connection it has subscribed on: an application *)
(* that sets no limit, or keeps the two roles on two connections, is safe. *)
THEOREM SafeWithoutLimitOrWithRoles ==
  ASSUME MaxOBuf = 0 \/ RolesSeparate
  PROVE  Spec => []NoUseAfterDelete
<1>1. Init => NoUseAfterDelete
  BY DEF Init, NoUseAfterDelete
<1>2. RoleInv /\ NoUseAfterDelete /\ [Next]_vars => NoUseAfterDelete'
  <2> SUFFICES ASSUME RoleInv, NoUseAfterDelete, [Next]_vars
               PROVE  NoUseAfterDelete'
    OBVIOUS
  <2>1. ASSUME NEW r \in Responders, HandleData(r)
        PROVE  NoUseAfterDelete'
    <3> DEFINE m == Head(batch)
    <3>1. r \notin Dropped(m.topic)
      <4>1. CASE MaxOBuf = 0
        BY <4>1 DEF Dropped, Overflows
      <4>2. CASE RolesSeparate
        <5>1. m \in Sendable(r) /\ m.type = "Data"
          BY <2>1, HeadSendable DEF HandleData
        <5>2. ~Subscribes(r)
          BY <4>2, <5>1, SendableType DEF RolesSeparate
        <5>3. subs[r] = <<>>
          BY <5>2 DEF RoleInv
        <5> QED
          BY <5>3 DEF Dropped, Reached, Subscribers, IsSubscribed
      <4> QED
        BY <4>1, <4>2
    <3>2. dangling' = dangling \/ dangling' = {r} \cap Dropped(m.topic)
      BY <2>1 DEF HandleData
    <3> QED
      BY <3>1, <3>2 DEF NoUseAfterDelete
  <2>2. ASSUME NEW r \in Responders, Handle(r), ~HandleData(r)
        PROVE  NoUseAfterDelete'
    BY <2>2 DEF Handle, HandleRefused, HandleSubscribe, HandleUnsubscribe,
                HandleSystem, HandleFailure, EndInput, NoUseAfterDelete
  <2>3. CASE UNCHANGED dangling
    BY <2>3 DEF NoUseAfterDelete
  <2> QED
    BY <2>1, <2>2, <2>3
       DEF Next, PeerCall, PeerCloses, PeerResets, Accept, OnInput, OnInputEnd,
           OnOutput, OnOutputError, AppSend, vars, serverVars
<1> QED
  BY <1>1, <1>2, RoleInvariant, PTL DEF Spec

-----------------------------------------------------------------------------
(* The server implements the abstract service.                             *)

Interest == [r \in Responders |-> {t \in Topic : IsSubscribed(r, t)}]

LEMMA InterestUnchanged ==
  ASSUME NEW r \in Responders, subs'[r] = subs[r]
  PROVE  Interest'[r] = Interest[r]
BY DEF Interest, IsSubscribed

LEMMA InterestOfDeleted ==
  ASSUME NEW r \in Responders
  PROVE  /\ subs[r] = <<>> => Interest[r] = {}
         /\ subs'[r] = <<>> => Interest'[r] = {}
BY DEF Interest, IsSubscribed

(* A change of the subscriptions of an open client.                        *)
LEMMA SubscriptionsChange ==
  ASSUME NEW r \in Responders, conn[r] = "open",
         \A x \in Responders : x # r => subs'[x] = subs[x],
         UNCHANGED <<conn, obuf, sent, log>>
  PROVE  Abstract!Next
<1>1. \A x \in Responders : x # r => Interest'[x] = Interest[x]
  BY InterestUnchanged
<1>2. Interest' = [Interest EXCEPT ![r] = Interest'[r]]
  BY <1>1 DEF Interest
<1>3. Interest'[r] \in SUBSET Topic
  BY DEF Interest
<1>4. Abstract!ChangeInterest(r)
  BY <1>2, <1>3 DEF Abstract!ChangeInterest, Interest
<1> QED
  BY <1>4 DEF Abstract!Next

(* The end of a client.                                                    *)
LEMMA CloseClientLeaves ==
  ASSUME TypeOK, NEW r \in Responders, conn[r] = "open", CloseClient(r),
         UNCHANGED <<sent, log>>
  PROVE  Abstract!Next
<1>1. conn' = [conn EXCEPT ![r] = "closed"] /\ obuf' = [obuf EXCEPT ![r] = <<>>]
  BY DEF CloseClient, CloseClients, TypeOK
<1>2. \A x \in Responders : x # r => Interest'[x] = Interest[x]
  BY InterestUnchanged DEF CloseClient, CloseClients
<1>3. Interest'[r] = {}
  BY InterestOfDeleted DEF CloseClient, CloseClients
<1>4. Interest' = [Interest EXCEPT ![r] = {}]
  BY <1>2, <1>3 DEF Interest
<1>5. Abstract!Leave(r)
  BY <1>1, <1>4 DEF Abstract!Leave, Interest
<1> QED
  BY <1>5 DEF Abstract!Next

(* A dispatch that no exception cuts short is one publication.             *)
LEMMA DispatchPublishes ==
  ASSUME TypeOK, BeginWriteThrows = FALSE, NEW topic \in Topic, NEW serial,
         NEW from, Dispatch(topic, serial, from, Dropped(topic)),
         UNCHANGED sent
  PROVE  Abstract!Next
<1>1. Reached(topic) = Subscribers(topic)
  BY DEF Reached, Throws
<1>2. Abstract!Audience(topic) = Subscribers(topic)
  BY DEF Abstract!Audience, Subscribers
<1>3. Abstract!Overdue(topic) = Dropped(topic)
  BY <1>1, <1>2 DEF Abstract!Overdue, Dropped, Overflows
<1>4. Len(log') = Len(log) + 1
  BY DEF Dispatch, TypeOK
<1>5. conn' = [r \in Responders |->
                 IF r \in Dropped(topic) THEN "closed" ELSE conn[r]]
  BY DEF Dispatch, CloseClients
<1>6. Interest' = [r \in Responders |->
                     IF r \in Dropped(topic) THEN {} ELSE Interest[r]]
  <2>1. \A r \in Responders : Interest'[r] =
                 IF r \in Dropped(topic) THEN {} ELSE Interest[r]
    BY InterestUnchanged, InterestOfDeleted DEF Dispatch, CloseClients
  <2> QED
    BY <2>1 DEF Interest
<1>7. obuf' = [r \in Responders |->
                 IF r \in Dropped(topic) THEN <<>>
                 ELSE IF r \in Subscribers(topic)
                   THEN obuf[r] \o [i \in 1..MsgSize[topic] |-> Len(log')]
                   ELSE obuf[r]]
  BY <1>1, <1>4 DEF Dispatch, Packet
<1>8. Abstract!Publish(topic)
  BY <1>2, <1>3, <1>4, <1>5, <1>6, <1>7 DEF Abstract!Publish, Interest
<1> QED
  BY <1>8 DEF Abstract!Next

(* Where writing to a reset connection does not raise an exception in the  *)
(* dispatch, every message reaches the output of exactly the clients       *)
(* subscribed when it is handled, in one atomic step, and only the clients *)
(* it puts over the limit are dropped.                                     *)
THEOREM ServerImplementsPubSub ==
  ASSUME BeginWriteThrows = FALSE
  PROVE  Spec => ImplementsPubSub
<1>1. Init => Abstract!Init
  <2> SUFFICES ASSUME Init
               PROVE  Abstract!Init
    OBVIOUS
  <2>1. \A r \in Responders : {t \in Topic : IsSubscribed(r, t)} = {}
    BY DEF Init, IsSubscribed
  <2> QED
    BY <2>1 DEF Init, Abstract!Init
<1>2. LifeInv /\ [Next]_vars => [Abstract!Next]_(Abstract!vars)
  <2> SUFFICES ASSUME LifeInv, [Next]_vars
               PROVE  Abstract!Next \/ UNCHANGED Abstract!vars
    OBVIOUS
  <2>1. TypeOK /\ ResponderLife
    BY DEF LifeInv
  <2>2. ASSUME UNCHANGED <<conn, subs, obuf, sent, log>>
        PROVE  UNCHANGED Abstract!vars
    BY <2>2 DEF Abstract!vars, IsSubscribed
  <2>3. ASSUME NEW r \in Responders, Accept(r)
        PROVE  Abstract!Next
    <3>1. UNCHANGED <<subs, obuf, sent, log>>
      BY <2>3 DEF Accept, peerVars, historyVars
    <3>2. Abstract!Join(r)
      BY <2>3, <3>1 DEF Accept, Abstract!Join, IsSubscribed
    <3> QED
      BY <3>2 DEF Abstract!Next
  <2>4. ASSUME NEW r \in Responders, conn[r] = "open", CloseClient(r),
               UNCHANGED <<slots, lastSerial, dangling, peerVars, historyVars>>
        PROVE  Abstract!Next
    BY <2>1, <2>4, CloseClientLeaves DEF peerVars, historyVars
  <2>5. ASSUME NEW r \in Responders, Handling(r)
        PROVE  conn[r] = "open"
    BY <2>1, <2>5 DEF Handling, ResponderLife
  <2>6. ASSUME NEW r \in Responders, HandleData(r)
        PROVE  Abstract!Next
    <3> DEFINE topic == Head(batch).topic
    <3>1. topic \in Topic
      BY <2>1, <2>6, HeadMessage DEF HandleData
    <3>2. ~Aborts(topic)
      BY DEF Aborts, Throws
    <3>3. Dispatch(topic, lastSerial + 1, r, Dropped(topic)) /\ UNCHANGED sent
      BY <2>6, <3>2 DEF HandleData, peerVars
    <3> QED
      BY <2>1, <3>1, <3>3, DispatchPublishes
  <2>7. ASSUME NEW r \in Responders, HandleSubscribe(r) \/ HandleUnsubscribe(r)
        PROVE  Abstract!Next
    <3>1. conn[r] = "open"
      BY <2>5, <2>7 DEF HandleSubscribe, HandleUnsubscribe
    <3>2. \A x \in Responders : x # r => subs'[x] = subs[x]
      BY <2>1, <2>7 DEF HandleSubscribe, HandleUnsubscribe, TypeOK
    <3>3. UNCHANGED <<conn, obuf, sent, log>>
      BY <2>7 DEF HandleSubscribe, HandleUnsubscribe, peerVars, historyVars
    <3> QED
      BY <3>1, <3>2, <3>3, SubscriptionsChange
  <2>8. ASSUME NEW r \in Responders, HandleFailure(r)
        PROVE  Abstract!Next
    BY <2>4, <2>5, <2>8 DEF HandleFailure
  <2>9. ASSUME NEW r \in Responders, NEW k \in 1..Len(obuf[r]), OnOutput(r, k)
        PROVE  Abstract!Next
    <3>1. UNCHANGED <<conn, subs, log>>
      BY <2>9 DEF OnOutput, historyVars
    <3>2. Abstract!Collect(r, k)
      BY <2>9, <3>1 DEF OnOutput, Abstract!Collect, IsSubscribed
    <3> QED
      BY <3>2 DEF Abstract!Next
  <2>10. ASSUME NEW topic \in AppTopics, AppSend(topic)
         PROVE  Abstract!Next
    <3>1. topic \in Topic
      BY ServerAssumption
    <3> QED
      BY <2>1, <2>10, <3>1, DispatchPublishes DEF AppSend
  <2>11. ASSUME NEW r \in Responders, OnInputEnd(r) \/ OnOutputError(r)
         PROVE  Abstract!Next
    BY <2>1, <2>4, <2>11 DEF OnInputEnd, OnOutputError, ResponderLife
  <2> QED
    BY <2>2, <2>3, <2>6, <2>7, <2>8, <2>9, <2>10, <2>11
       DEF Next, Handle, PeerCall, PeerCloses, PeerResets, OnInput,
           HandleRefused, HandleSystem, EndInput, vars, serverVars, peerVars,
           historyVars
<1> QED
  BY <1>1, <1>2, LifeInvariant, PTL DEF Spec, ImplementsPubSub, Abstract!Spec

=============================================================================
