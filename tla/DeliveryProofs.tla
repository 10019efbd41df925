--------------------------- MODULE DeliveryProofs ---------------------------
(***************************************************************************)
(* Theorems about what the server delivers: the stream each client gets,   *)
(* message by message, and the reasons a client is closed for.             *)
(***************************************************************************)
EXTENDS ServerProofs

-----------------------------------------------------------------------------
(* The stream made of the messages of the log l whose numbers are in I.    *)

Pieces(l, I) ==
  [i \in 1..Len(l) |-> IF i \in I THEN Packet(i, l[i].topic) ELSE <<>>]

Stream(l, I) == FlattenSeq(Pieces(l, I))

Owed(l, r) == {i \in 1..Len(l) : r \in l[i].to}

(* What a new message number id to topic adds to a stream that has it.     *)
PacketIf(has, id, topic) == IF has THEN Packet(id, topic) ELSE <<>>

LEMMA PacketIfType ==
  ASSUME NEW has, NEW id \in Nat, NEW topic \in Topic
  PROVE  PacketIf(has, id, topic) \in Seq(Nat)
<1>1. <<>> \in Seq(Nat)
  OBVIOUS
<1> QED
  BY <1>1, PacketType DEF PacketIf

LEMMA StreamExtended ==
  ASSUME NEW l \in Seq(LogEntry), NEW e \in LogEntry, NEW I
  PROVE  Stream(Append(l, e), I)
           = Stream(l, I) \o PacketIf(Len(l) + 1 \in I, Len(l) + 1, e.topic)
<1> DEFINE n == Len(l)
           s == Pieces(l, I)
           t == Pieces(Append(l, e), I)
<1>1. n \in Nat /\ Len(Append(l, e)) = n + 1
  BY AppendProperties
<1>2. \A i \in 1..n : Append(l, e)[i] = l[i]
  BY AppendProperties
<1>3. Append(l, e)[n + 1] = e
  BY AppendProperties
<1>4. Len(s) = n /\ (n = 0 => s = <<>>)
  BY <1>1 DEF Pieces
<1>5. Len(t) = n + 1
  BY <1>1 DEF Pieces
<1>6. Agree(s, t, n)
  BY <1>1, <1>2 DEF Pieces, Agree
<1>7. t[n + 1] = PacketIf(n + 1 \in I, n + 1, e.topic)
  BY <1>1, <1>3 DEF Pieces, PacketIf
<1>8. t[n + 1] \in Seq(Nat)
  <2>1. n + 1 \in Nat /\ e.topic \in Topic
    BY <1>1 DEF LogEntry
  <2>2. PacketIf(n + 1 \in I, n + 1, e.topic) \in Seq(Nat)
    BY <2>1, PacketIfType
  <2> QED
    BY <1>7, <2>2
<1> HIDE DEF n, s, t
<1>9. FlattenSeq(t) = FlattenSeq(s) \o t[n + 1]
  BY <1>1, <1>4, <1>5, <1>6, <1>8, FlattenOneMore
<1> QED
  BY <1>7, <1>9 DEF Stream, s, t, n

LEMMA StreamSame ==
  ASSUME NEW l, NEW I, NEW J, \A i \in 1..Len(l) : i \in I <=> i \in J
  PROVE  Stream(l, I) = Stream(l, J)
<1>1. Pieces(l, I) = Pieces(l, J)
  BY DEF Pieces
<1> QED
  BY <1>1 DEF Stream

LEMMA ExpectedIsStream ==
  ASSUME NEW r
  PROVE  /\ Expected(r) = Stream(log, Owed(log, r))
         /\ Expected(r)' = Stream(log', Owed(log', r))
<1>1. Pieces(log, Owed(log, r)) =
        [i \in 1..Len(log) |-> IF r \in log[i].to THEN Packet(i, log[i].topic) ELSE <<>>]
  BY DEF Pieces, Owed
<1>2. Pieces(log', Owed(log', r)) =
        [i \in 1..Len(log') |->
           IF r \in log'[i].to THEN Packet(i, log'[i].topic) ELSE <<>>]
  BY DEF Pieces, Owed
<1> QED
  BY <1>1, <1>2 DEF Expected, Stream, Packet

(* What a dispatch adds to a stream, and to what a client is owed.         *)
LEMMA DispatchExtends ==
  ASSUME TypeOK, NEW topic \in Topic, NEW serial \in Nat,
         NEW from \in Responders \cup {NoResponder},
         NEW closing, Dispatch(topic, serial, from, closing)
  PROVE  /\ \A I : Stream(log', I) =
                     Stream(log, I) \o PacketIf(Len(log) + 1 \in I, Len(log) + 1, topic)
         /\ Len(log') = Len(log) + 1
         /\ \A r \in Responders :
              /\ \A i \in 1..Len(log) : i \in Owed(log', r) <=> i \in Owed(log, r)
              /\ Len(log) + 1 \in Owed(log', r) <=> r \in Subscribers(topic)
              /\ Expected(r)' =
                   Expected(r) \o PacketIf(r \in Subscribers(topic), Len(log) + 1, topic)
<1> DEFINE e == [topic |-> topic, serial |-> serial, from |-> from,
                 to |-> Subscribers(topic)]
           n == Len(log)
<1>1. e \in LogEntry /\ e.topic = topic /\ e.to = Subscribers(topic)
  BY DEF LogEntry, Subscribers
<1>2. log \in Seq(LogEntry) /\ n \in Nat
  BY DEF TypeOK
<1>3. log' = Append(log, e)
  BY DEF Dispatch
<1> HIDE DEF e
<1>4. /\ Len(log') = n + 1 /\ log'[n + 1] = e
      /\ \A i \in 1..n : log'[i] = log[i]
  BY <1>1, <1>2, <1>3, AppendProperties
<1>5. \A I : Stream(log', I) = Stream(log, I) \o PacketIf(n + 1 \in I, n + 1, topic)
  BY <1>1, <1>2, <1>3, StreamExtended
<1>6. ASSUME NEW r \in Responders
      PROVE  /\ \A i \in 1..n : i \in Owed(log', r) <=> i \in Owed(log, r)
             /\ n + 1 \in Owed(log', r) <=> r \in Subscribers(topic)
             /\ Expected(r)' =
                  Expected(r) \o PacketIf(r \in Subscribers(topic), n + 1, topic)
  <2>1. \A i \in 1..n : i \in Owed(log', r) <=> i \in Owed(log, r)
    BY <1>2, <1>4 DEF Owed
  <2>2. n + 1 \in Owed(log', r) <=> r \in Subscribers(topic)
    BY <1>1, <1>2, <1>4 DEF Owed
  <2>3. Stream(log, Owed(log', r)) = Stream(log, Owed(log, r))
    BY <2>1, StreamSame
  <2>4. PacketIf(n + 1 \in Owed(log', r), n + 1, topic)
          = PacketIf(r \in Subscribers(topic), n + 1, topic)
    BY <2>2 DEF PacketIf
  <2> QED
    BY <1>5, <2>1, <2>2, <2>3, <2>4, ExpectedIsStream
<1> QED
  BY <1>4, <1>5, <1>6

-----------------------------------------------------------------------------
(* A step that dispatches nothing leaves the stream of a client as it is,  *)
(* sent or waiting, or closes the client.                                  *)

QuietFor(r) ==
  \/ /\ sent'[r] = sent[r] /\ obuf'[r] = obuf[r]
     /\ conn'[r] = "closed" <=> conn[r] = "closed"
  \/ sent'[r] = sent[r] /\ conn'[r] = "closed"
  \/ /\ conn[r] # "closed" /\ conn'[r] # "closed"
     /\ sent'[r] \o obuf'[r] = sent[r] \o obuf[r]

Quiet == log' = log /\ \A r \in Responders : QuietFor(r)

(* A dispatch, and the clients it closes.                                  *)
Dispatches(topic, closing) ==
  /\ \E serial \in Nat, from \in Responders \cup {NoResponder} :
       Dispatch(topic, serial, from, closing)
  /\ Dropped(topic) \subseteq closing
  /\ BeginWriteThrows = FALSE => closing = Dropped(topic)
  /\ UNCHANGED <<sent, link, offenders>>

LEMMA ClosingIsQuiet ==
  ASSUME TypeOK, NEW r \in Responders, CloseClient(r), UNCHANGED <<sent, log>>
  PROVE  Quiet
BY DEF TypeOK, CloseClient, CloseClients, Quiet, QuietFor

LEMMA OutputIsQuiet ==
  ASSUME TypeOK, NEW r \in Responders, NEW k \in 1..Len(obuf[r]), OnOutput(r, k)
  PROVE  Quiet
<1> DEFINE s == sent[r]
           o == obuf[r]
           f == SubSeq(o, 1, k)
           g == SubSeq(o, k + 1, Len(o))
<1>1. s \in Seq(Nat) /\ o \in Seq(Nat) /\ k \in 0..Len(o) /\ k \in Nat
  BY DEF TypeOK
<1>2. f \in Seq(Nat) /\ g \in Seq(Nat)
  BY <1>1, FirstOf, RestOf
<1>3. f \o g = o
  BY <1>1, FirstAndRest
<1>4. (s \o f) \o g = s \o (f \o g)
  BY <1>1, <1>2, JoinedThree
<1>5. /\ sent'[r] = s \o f /\ obuf'[r] = g
      /\ conn[r] = "open" /\ UNCHANGED <<conn, log>>
      /\ \A x \in Responders : x # r => sent'[x] = sent[x] /\ obuf'[x] = obuf[x]
  BY DEF OnOutput, TypeOK, historyVars
<1>6. sent'[r] \o obuf'[r] = sent[r] \o obuf[r]
  BY <1>3, <1>4, <1>5
<1> QED
  BY <1>5, <1>6 DEF Quiet, QuietFor

LEMMA StepsDeliver ==
  ASSUME TypeOK, [Next]_vars
  PROVE  Quiet \/ \E topic \in Topic, closing \in SUBSET Responders :
                    Dispatches(topic, closing)
<1> USE DEF serverVars, peerVars, historyVars
<1>1. ASSUME UNCHANGED <<sent, obuf, conn, log>>
      PROVE  Quiet
  BY <1>1 DEF Quiet, QuietFor
<1>2. ASSUME NEW r \in Responders, Accept(r)
      PROVE  Quiet
  BY <1>2 DEF Accept, Quiet, QuietFor, TypeOK
<1>3. ASSUME NEW r \in Responders, HandleData(r)
      PROVE  \E topic \in Topic, closing \in SUBSET Responders : Dispatches(topic, closing)
  <2> DEFINE topic == Head(batch).topic
  <2>1. topic \in Topic
    BY <1>3, HeadMessage DEF HandleData
  <2>2. lastSerial + 1 \in Nat /\ r \in Responders \cup {NoResponder}
    BY DEF TypeOK
  <2>3. UNCHANGED <<sent, link, offenders>>
    BY <1>3 DEF HandleData
  <2>4. Dropped(topic) \in SUBSET Responders
    BY DEF Dropped, Reached, Subscribers
  <2>5. BeginWriteThrows = FALSE => ~Aborts(topic)
    BY DEF Aborts, Throws
  <2>6. \/ Aborts(topic) /\ Dispatch(topic, lastSerial + 1, r, Dropped(topic) \cup {r})
        \/ Dispatch(topic, lastSerial + 1, r, Dropped(topic))
    BY <1>3 DEF HandleData
  <2> HIDE DEF topic
  <2>7. Dispatches(topic, Dropped(topic) \cup {r}) \/ Dispatches(topic, Dropped(topic))
    BY <2>2, <2>3, <2>5, <2>6 DEF Dispatches
  <2> QED
    BY <2>1, <2>4, <2>7
<1>4. ASSUME NEW topic \in AppTopics, AppSend(topic)
      PROVE  \E closing \in SUBSET Responders : topic \in Topic /\ Dispatches(topic, closing)
  <2>1. topic \in Topic /\ 0 \in Nat
    BY ServerAssumption
  <2>2. Dropped(topic) \in SUBSET Responders
    BY DEF Dropped, Reached, Subscribers
  <2>3. Dispatch(topic, 0, NoResponder, Dropped(topic)) /\ UNCHANGED <<sent, link, offenders>>
    BY <1>4 DEF AppSend
  <2> QED
    BY <2>1, <2>2, <2>3 DEF Dispatches
<1> QED
  BY <1>1, <1>2, <1>3, <1>4, ClosingIsQuiet, OutputIsQuiet
     DEF Next, Handle, PeerCall, PeerCloses, PeerResets, OnInput, OnInputEnd,
         OnOutputError, HandleRefused, HandleSubscribe, HandleUnsubscribe,
         HandleSystem, HandleFailure, EndInput, vars

(* What a dispatch does to the clients it does not close.                  *)
LEMMA DispatchAppends ==
  ASSUME TypeOK, NEW topic \in Topic, NEW closing, Dispatches(topic, closing),
         NEW r \in Responders
  PROVE  /\ r \in closing => conn'[r] = "closed"
         /\ r \notin closing =>
              /\ conn'[r] = conn[r]
              /\ obuf'[r] = obuf[r] \o PacketIf(r \in Reached(topic), Len(log) + 1, topic)
         /\ sent'[r] = sent[r]
<1>1. PICK serial, from : Dispatch(topic, serial, from, closing)
  BY DEF Dispatches
<1>2. obuf[r] \in Seq(Nat)
  BY DEF TypeOK
<1>3. obuf[r] \o <<>> = obuf[r]
  BY <1>2, Joined
<1> QED
  BY <1>1, <1>3 DEF Dispatch, Dispatches, CloseClients, PacketIf

-----------------------------------------------------------------------------
(* Delivery where no exception cuts a dispatch short.                      *)

(* Every client is owed what it has got and something more; a client that  *)
(* is not closed is owed what waits for it.                                *)
OwedInv ==
  \A r \in Responders :
    /\ \E rest \in Seq(Nat) : Expected(r) = sent[r] \o rest
    /\ conn[r] # "closed" => Expected(r) = sent[r] \o obuf[r]

LEMMA OwedDispatch ==
  ASSUME BeginWriteThrows = FALSE, TypeOK, OwedInv,
         NEW topic \in Topic, NEW closing, Dispatches(topic, closing)
  PROVE  OwedInv'
<1> SUFFICES ASSUME NEW r \in Responders
             PROVE  /\ \E rest \in Seq(Nat) : Expected(r)' = sent'[r] \o rest
                    /\ conn'[r] # "closed" => Expected(r)' = sent'[r] \o obuf'[r]
  BY DEF OwedInv
<1> DEFINE p == PacketIf(r \in Subscribers(topic), Len(log) + 1, topic)
<1>1. sent[r] \in Seq(Nat) /\ obuf[r] \in Seq(Nat) /\ Len(log) + 1 \in Nat
  BY DEF TypeOK
<1>2. p \in Seq(Nat)
  BY <1>1, PacketIfType
<1>3. PICK rest \in Seq(Nat) : Expected(r) = sent[r] \o rest
  BY DEF OwedInv
<1>4. Expected(r)' = Expected(r) \o p
  BY DispatchExtends DEF Dispatches
<1>5. /\ r \in closing => conn'[r] = "closed"
      /\ r \notin closing => conn'[r] = conn[r] /\ obuf'[r] = obuf[r] \o p
      /\ sent'[r] = sent[r]
  <2>1. Reached(topic) = Subscribers(topic)
    BY DEF Reached, Throws
  <2> QED
    BY <2>1, DispatchAppends
<1> HIDE DEF p
<1>6. /\ (sent[r] \o rest) \o p = sent[r] \o (rest \o p)
      /\ (sent[r] \o obuf[r]) \o p = sent[r] \o (obuf[r] \o p)
      /\ rest \o p \in Seq(Nat)
  <2>1. (sent[r] \o rest) \o p = sent[r] \o (rest \o p)
    BY <1>1, <1>2, JoinedThree
  <2>2. (sent[r] \o obuf[r]) \o p = sent[r] \o (obuf[r] \o p)
    BY <1>1, <1>2, JoinedThree
  <2>3. rest \o p \in Seq(Nat)
    BY <1>2, Joined
  <2> QED
    BY <2>1, <2>2, <2>3
<1>7. conn[r] # "closed" => Expected(r) = sent[r] \o obuf[r]
  BY DEF OwedInv
<1>8. Expected(r)' = sent'[r] \o (rest \o p)
  BY <1>3, <1>4, <1>5, <1>6
<1>9. conn'[r] # "closed" => Expected(r)' = sent'[r] \o obuf'[r]
  BY <1>4, <1>5, <1>6, <1>7
<1> QED
  BY <1>6, <1>8, <1>9

LEMMA OwedQuiet ==
  ASSUME TypeOK', OwedInv, Quiet
  PROVE  OwedInv'
<1> SUFFICES ASSUME NEW r \in Responders
             PROVE  /\ \E rest \in Seq(Nat) : Expected(r)' = sent'[r] \o rest
                    /\ conn'[r] # "closed" => Expected(r)' = sent'[r] \o obuf'[r]
  BY DEF OwedInv
<1>1. Expected(r)' = Expected(r)
  BY DEF Quiet, Expected
<1>2. obuf'[r] \in Seq(Nat)
  BY DEF TypeOK
<1>3. /\ \E rest \in Seq(Nat) : Expected(r) = sent[r] \o rest
      /\ conn[r] # "closed" => Expected(r) = sent[r] \o obuf[r]
  BY DEF OwedInv
<1>4. QuietFor(r)
  BY DEF Quiet
<1> QED
  BY <1>1, <1>2, <1>3, <1>4 DEF QuietFor

LEMMA OwedInvariant ==
  ASSUME BeginWriteThrows = FALSE
  PROVE  Spec => []OwedInv
<1>1. Init => OwedInv
  <2> SUFFICES ASSUME Init
               PROVE  OwedInv
    OBVIOUS
  <2>1. \A r \in Responders : Expected(r) = <<>>
    BY DEF Init, Expected, FlattenSeq
  <2>2. <<>> \in Seq(Nat) /\ <<>> \o <<>> = <<>>
    BY Joined
  <2> QED
    BY <2>1, <2>2 DEF Init, OwedInv
<1>2. TypeOK /\ TypeOK' /\ OwedInv /\ [Next]_vars => OwedInv'
  BY StepsDeliver, OwedDispatch, OwedQuiet
<1> QED
  BY <1>1, <1>2, TypeCorrect, PTL DEF Spec

LEMMA PrefixOfJoined ==
  ASSUME NEW S, NEW s \in Seq(S), NEW t \in Seq(S)
  PROVE  IsPrefix(s, s \o t)
<1> DEFINE u == s \o t
           f == SubSeq(s, 1, Len(s))
           g == SubSeq(u, 1, Len(s))
<1>1. /\ u \in Seq(S) /\ Len(u) = Len(s) + Len(t)
      /\ \A i \in 1..Len(s) : u[i] = s[i]
      /\ Len(s) \in Nat /\ Len(t) \in Nat
  BY ConcatProperties
<1>2. Len(s) \in 0..Len(s) /\ Len(s) \in 0..Len(u) /\ Len(s) <= Len(u)
  BY <1>1
<1>3. /\ f \in Seq(S) /\ Len(f) = Len(s)
      /\ \A i \in 1..Len(s) : f[i] = s[i]
  BY <1>2, FirstOf
<1>4. /\ g \in Seq(S) /\ Len(g) = Len(s)
      /\ \A i \in 1..Len(s) : g[i] = u[i]
  BY <1>1, <1>2, FirstOf
<1> HIDE DEF f, g, u
<1>5. f = g
  BY <1>1, <1>3, <1>4, SeqEqual
<1> QED
  BY <1>2, <1>5 DEF IsPrefix, f, g, u

(* A subscriber gets exactly the packets of the messages dispatched while  *)
(* it is subscribed, once each and in order, however writes are split and  *)
(* whoever else is closed.                                                 *)
THEOREM DeliversExactly ==
  ASSUME BeginWriteThrows = FALSE
  PROVE  Spec => []DeliveryExact
<1>1. TypeOK /\ OwedInv => DeliveryExact
  <2> SUFFICES ASSUME TypeOK, OwedInv, NEW r \in Responders
               PROVE  /\ conn[r] = "open" => sent[r] \o obuf[r] = Expected(r)
                      /\ IsPrefix(sent[r], Expected(r))
    BY DEF DeliveryExact
  <2>1. PICK rest \in Seq(Nat) : Expected(r) = sent[r] \o rest
    BY DEF OwedInv
  <2>2. IsPrefix(sent[r], sent[r] \o rest)
    BY PrefixOfJoined DEF TypeOK
  <2> QED
    BY <2>1, <2>2 DEF OwedInv
<1> QED
  BY <1>1, TypeCorrect, OwedInvariant, PTL

-----------------------------------------------------------------------------
(* Delivery when exceptions may cut a dispatch short.                      *)

WholePackets ==
  \A r \in Responders :
    conn[r] # "closed" =>
      \E I \in SUBSET Owed(log, r) : sent[r] \o obuf[r] = Stream(log, I)

LEMMA PacketsDispatch ==
  ASSUME TypeOK, WholePackets,
         NEW topic \in Topic, NEW closing, Dispatches(topic, closing)
  PROVE  WholePackets'
<1> SUFFICES ASSUME NEW r \in Responders, conn'[r] # "closed"
             PROVE  \E J \in SUBSET Owed(log', r) : sent'[r] \o obuf'[r] = Stream(log', J)
  BY DEF WholePackets
<1> DEFINE n == Len(log)
           p == PacketIf(r \in Reached(topic), n + 1, topic)
<1>1. sent[r] \in Seq(Nat) /\ obuf[r] \in Seq(Nat) /\ n \in Nat /\ n + 1 \in Nat
  BY DEF TypeOK
<1>2. p \in Seq(Nat)
  BY <1>1, PacketIfType
<1>3. conn[r] # "closed" /\ obuf'[r] = obuf[r] \o p /\ sent'[r] = sent[r]
  BY DispatchAppends
<1>4. PICK I \in SUBSET Owed(log, r) : sent[r] \o obuf[r] = Stream(log, I)
  BY <1>3 DEF WholePackets
<1> DEFINE J == IF r \in Reached(topic) THEN I \cup {n + 1} ELSE I
<1>5. n + 1 \in J <=> r \in Reached(topic)
  BY <1>1 DEF Owed
<1>6. \A i \in 1..n : i \in J <=> i \in I
  BY <1>1
<1>7. J \in SUBSET Owed(log', r)
  <2>1. /\ \A i \in 1..n : i \in Owed(log', r) <=> i \in Owed(log, r)
        /\ n + 1 \in Owed(log', r) <=> r \in Subscribers(topic)
    BY DispatchExtends DEF Dispatches
  <2>2. r \in Reached(topic) => r \in Subscribers(topic)
    BY DEF Reached
  <2>3. \A i \in I : i \in 1..n /\ i \in Owed(log, r)
    BY DEF Owed
  <2> HIDE DEF n
  <2> QED
    BY <2>1, <2>2, <2>3
<1> HIDE DEF J
<1>8. Stream(log', J) = Stream(log, J) \o PacketIf(n + 1 \in J, n + 1, topic)
  BY DispatchExtends DEF Dispatches
<1>9. Stream(log, J) = Stream(log, I)
  BY <1>6, StreamSame
<1>10. PacketIf(n + 1 \in J, n + 1, topic) = p
  BY <1>5 DEF PacketIf
<1> HIDE DEF p
<1>11. (sent[r] \o obuf[r]) \o p = sent[r] \o (obuf[r] \o p)
  BY <1>1, <1>2, JoinedThree
<1>12. sent'[r] \o obuf'[r] = Stream(log', J)
  BY <1>3, <1>4, <1>8, <1>9, <1>10, <1>11
<1> QED
  BY <1>7, <1>12

LEMMA PacketsQuiet ==
  ASSUME WholePackets, Quiet
  PROVE  WholePackets'
<1> SUFFICES ASSUME NEW r \in Responders, conn'[r] # "closed"
             PROVE  \E I \in SUBSET Owed(log', r) : sent'[r] \o obuf'[r] = Stream(log', I)
  BY DEF WholePackets
<1>1. log' = log /\ conn[r] # "closed" /\ sent'[r] \o obuf'[r] = sent[r] \o obuf[r]
  BY DEF Quiet, QuietFor
<1> QED
  BY <1>1 DEF WholePackets

(* Also when an exception leaves a dispatch in the middle, the stream of a *)
(* client consists of whole packets of messages it has subscribed, in the  *)
(* order of their dispatch.                                                *)
THEOREM StreamsAreWhole == Spec => []StreamOrdered
<1>1. Init => WholePackets
  <2> SUFFICES ASSUME Init, NEW r \in Responders
               PROVE  \E I \in SUBSET Owed(log, r) : sent[r] \o obuf[r] = Stream(log, I)
    BY DEF WholePackets
  <2>1. Stream(log, {}) = <<>>
    BY DEF Init, Stream, Pieces, FlattenSeq
  <2>2. <<>> \o <<>> = <<>>
    BY Joined
  <2> QED
    BY <2>1, <2>2 DEF Init
<1>2. TypeOK /\ WholePackets /\ [Next]_vars => WholePackets'
  BY StepsDeliver, PacketsDispatch, PacketsQuiet
<1>3. WholePackets => StreamOrdered
  BY DEF WholePackets, StreamOrdered, Owed, Stream, Pieces
<1> QED
  BY <1>1, <1>2, <1>3, TypeCorrect, PTL DEF Spec

-----------------------------------------------------------------------------
(* Why clients are closed.                                                 *)

(* No client asks by subscribeWithObject for the type that the server does *)
(* not understand.                                                         *)
NoneReversed ==
  \A r \in Responders : \A c \in Calls[r] :
    ~(c.op = "subscribeWithObject" /\ c.type = "RegexReversed")

(* The messages that close no client.                                      *)
Harmless ==
  {m \in Message : /\ IsValid(m)
                   /\ IsSubscribe(m) => Compiles(m.topic, SubscriptionType(m))}

(* The server has no other message of a client that has done nothing wrong. *)
BlameInv ==
  \A r \in Responders :
    r \notin offenders => /\ inbox[r] \in Seq(Harmless)
                          /\ active = r => batch \in Seq(Harmless)

LEMMA CallHarmless ==
  ASSUME NoneReversed, NEW r \in Responders, NEW c \in Calls[r], ~Offends(c)
  PROVE  WireMessage(c) \in Harmless
<1>1. c \in Call /\ WireMessage(c) \in Message
  BY WireMessageType, ServerAssumption
<1>2. /\ c.op \in CallOps /\ c.op # "garbage" /\ c.type \in Types
      /\ c.op \in {"subscribe", "subscribeWithObject"} => Compiles(c.topic, c.type)
      /\ ~(c.op = "subscribeWithObject" /\ c.type = "RegexReversed")
  BY <1>1 DEF Offends, Call, NoneReversed
<1>3. IsValid(WireMessage(c))
  BY <1>2 DEF CallOps, Types, WireMessage, SubscribeType, SubscribeWithObjectType,
              UnsubscribeType, IsValid
<1>4. ASSUME IsSubscribe(WireMessage(c))
      PROVE  Compiles(WireMessage(c).topic, SubscriptionType(WireMessage(c)))
  <2>1. c.op \in {"subscribe", "subscribeWithObject"}
    BY <1>2, <1>4 DEF CallOps, Types, WireMessage, UnsubscribeType, IsSubscribe
  <2>2. SubscriptionType(WireMessage(c)) \in {"Full", c.type}
    BY <1>2, <2>1 DEF Types, WireMessage, SubscribeType, SubscribeWithObjectType,
                      SubscriptionType
  <2>3. WireMessage(c).topic = c.topic
    BY DEF WireMessage
  <2> QED
    BY <1>2, <2>1, <2>2, <2>3 DEF Compiles
<1> QED
  BY <1>1, <1>3, <1>4 DEF Harmless

LEMMA BlameInvariant ==
  ASSUME NoneReversed
  PROVE  Spec => []BlameInv
<1>1. Init => BlameInv
  BY ServerAssumption DEF Init, BlameInv
<1>2. TypeOK /\ BlameInv /\ [Next]_vars => BlameInv'
  <2> SUFFICES ASSUME TypeOK, BlameInv, [Next]_vars
               PROVE  BlameInv'
    OBVIOUS
  <2>1. ASSUME NEW r \in Responders, NEW c \in Calls[r], PeerCall(r, c)
        PROVE  BlameInv'
    <3>1. offenders \subseteq offenders' /\ UNCHANGED <<active, batch>>
      BY <2>1 DEF PeerCall, serverVars
    <3>2. /\ inbox'[r] = Append(inbox[r], WireMessage(c))
          /\ \A x \in Responders : x # r => inbox'[x] = inbox[x]
      BY <2>1 DEF PeerCall, TypeOK
    <3>3. r \notin offenders' => inbox'[r] \in Seq(Harmless)
      <4> SUFFICES ASSUME r \notin offenders'
                   PROVE  inbox'[r] \in Seq(Harmless)
        OBVIOUS
      <4>1. ~Offends(c) /\ r \notin offenders
        BY <2>1 DEF PeerCall
      <4>2. WireMessage(c) \in Harmless
        BY <4>1, CallHarmless
      <4>3. inbox[r] \in Seq(Harmless)
        BY <4>1 DEF BlameInv
      <4> QED
        BY <3>2, <4>2, <4>3, AppendProperties
    <3> QED
      BY <3>1, <3>2, <3>3 DEF BlameInv
  <2>2. ASSUME UNCHANGED <<inbox, offenders>>,
               \/ UNCHANGED <<active, batch>>
               \/ active' = NoResponder
               \/ active' = active /\ batch # <<>> /\ batch' = Tail(batch)
        PROVE  BlameInv'
    <3>1. batch # <<>> /\ batch \in Seq(Harmless) => Tail(batch) \in Seq(Harmless)
      BY HeadTailProperties
    <3> QED
      BY <2>2, <3>1, ServerAssumption DEF BlameInv
  <2>3. ASSUME NEW r \in Responders, NEW n \in 1..Len(inbox[r]), OnInput(r, n)
        PROVE  BlameInv'
    <3>1. inbox[r] \in Seq(Harmless) =>
            /\ SubSeq(inbox[r], 1, n) \in Seq(Harmless)
            /\ SubSeq(inbox[r], n + 1, Len(inbox[r])) \in Seq(Harmless)
      BY SubSeqType
    <3>2. /\ inbox'[r] = SubSeq(inbox[r], n + 1, Len(inbox[r]))
          /\ \A x \in Responders : x # r => inbox'[x] = inbox[x]
          /\ active' = r
          /\ batch' = SubSeq(inbox[r], 1, n)
          /\ UNCHANGED offenders
      BY <2>3 DEF OnInput, TypeOK, historyVars
    <3>3. ASSUME NEW x \in Responders, x \notin offenders'
          PROVE  /\ inbox'[x] \in Seq(Harmless)
                 /\ active' = x => batch' \in Seq(Harmless)
      <4>1. inbox[x] \in Seq(Harmless)
        BY <3>2, <3>3 DEF BlameInv
      <4> QED
        BY <3>1, <3>2, <4>1
    <3> QED
      BY <3>3 DEF BlameInv
  <2>4. ASSUME NEW r \in Responders, Handle(r)
        PROVE  BlameInv'
    BY <2>2, <2>4 DEF Handle, HandleData, HandleRefused, HandleSubscribe, HandleUnsubscribe,
           HandleSystem, HandleFailure, EndInput, Handling, CloseClient, peerVars,
           historyVars
  <2> QED
    BY <2>1, <2>2, <2>3, <2>4
       DEF Next, PeerCloses, PeerResets, Accept, OnInputEnd, OnOutput, OnOutputError,
           AppSend, CloseClient, vars, serverVars, peerVars, historyVars
<1> QED
  BY <1>1, <1>2, TypeCorrect, PTL DEF Spec

(* What justifies that the client is closed.                               *)
Reason(r) ==
  \/ link[r] # "up"
  \/ r \in offenders
  \/ MaxOBuf # 0 /\ Len(Expected(r)) - Len(sent[r]) > MaxOBuf

(* The reasons of a step that dispatches nothing.                          *)
LEMMA QuietCloses ==
  ASSUME LifeInv, BlameInv, Quiet, [Next]_vars, NEW r \in Responders,
         conn[r] # "closed", conn'[r] = "closed"
  PROVE  link'[r] # "up" \/ r \in offenders'
<1>1. TypeOK
  BY DEF LifeInv
<1>2. ASSUME UNCHANGED conn
      PROVE  FALSE
  BY <1>2
<1>3. ASSUME NEW q \in Responders, CloseClient(q)
      PROVE  q = r
  BY <1>3 DEF CloseClient, CloseClients
<1>4. ASSUME NEW q \in Responders, HandleFailure(q)
      PROVE  r \in offenders'
  <2>1. q = r
    BY <1>3, <1>4 DEF HandleFailure
  <2>2. Head(batch) \notin Harmless /\ batch # <<>> /\ active = r
    BY <1>4, <2>1 DEF HandleFailure, Handling, Harmless
  <2>3. batch \notin Seq(Harmless)
    BY <2>2, HeadTailProperties
  <2>4. r \in offenders
    BY <2>2, <2>3 DEF BlameInv
  <2>5. offenders' = offenders
    BY <1>4 DEF HandleFailure, historyVars
  <2> QED
    BY <2>4, <2>5
<1>5. ASSUME NEW q \in Responders, OnInputEnd(q) \/ OnOutputError(q)
      PROVE  link'[r] # "up"
  <2>1. q = r
    BY <1>3, <1>5 DEF OnInputEnd, OnOutputError
  <2> QED
    BY <1>5, <2>1 DEF OnInputEnd, OnOutputError, peerVars
<1>6. ASSUME NEW topic, NEW serial, NEW from, NEW closing, Dispatch(topic, serial, from, closing)
      PROVE  FALSE
  BY <1>1, <1>6 DEF Dispatch, Quiet, TypeOK
<1>7. ASSUME NEW q \in Responders, Accept(q)
      PROVE  FALSE
  BY <1>1, <1>7 DEF Accept, TypeOK
<1> QED
  BY <1>2, <1>4, <1>5, <1>6, <1>7
     DEF Next, Handle, HandleData, PeerCall, PeerCloses, PeerResets, OnInput, OnOutput,
         HandleRefused, HandleSubscribe, HandleUnsubscribe, HandleSystem, EndInput,
         AppSend, vars, serverVars

(* A reason does not go away, and a closed client is sent nothing.         *)
LEMMA ReasonStays ==
  ASSUME TypeOK, [Next]_vars, NEW r \in Responders
  PROVE  /\ link[r] # "up" => link'[r] # "up"
         /\ r \in offenders => r \in offenders'
         /\ conn[r] = "closed" => sent'[r] = sent[r]
<1> USE DEF serverVars, peerVars, historyVars
<1>1. ASSUME UNCHANGED <<link, offenders, sent>>
      PROVE  /\ link[r] # "up" => link'[r] # "up"
             /\ r \in offenders => r \in offenders'
             /\ conn[r] = "closed" => sent'[r] = sent[r]
  BY <1>1
<1>2. ASSUME NEW q \in Responders, PeerCloses(q) \/ PeerResets(q)
      PROVE  /\ link[r] # "up" => link'[r] # "up"
             /\ UNCHANGED <<offenders, sent>>
  BY <1>2 DEF PeerCloses, PeerResets, TypeOK
<1>3. ASSUME NEW q \in Responders, NEW c \in Calls[q], PeerCall(q, c)
      PROVE  UNCHANGED <<link, sent>> /\ (r \in offenders => r \in offenders')
  BY <1>3 DEF PeerCall
<1>4. ASSUME NEW q \in Responders, NEW k \in 1..Len(obuf[q]), OnOutput(q, k)
      PROVE  /\ UNCHANGED <<link, offenders>>
             /\ conn[r] = "closed" => sent'[r] = sent[r]
  BY <1>4 DEF OnOutput, TypeOK
<1> QED
  BY <1>1, <1>2, <1>3, <1>4
     DEF Next, Handle, HandleData, Accept, OnInput, OnInputEnd, OnOutputError,
         HandleRefused, HandleSubscribe, HandleUnsubscribe, HandleSystem,
         HandleFailure, EndInput, AppSend, vars

(* What a client is owed does not become less.                             *)
LEMMA OwedGrows ==
  ASSUME TypeOK, OwedInv, [Next]_vars, NEW r \in Responders
  PROVE  /\ Len(Expected(r)) \in Nat /\ Len(Expected(r)') \in Nat
         /\ Len(Expected(r)) <= Len(Expected(r)')
<1>1. Expected(r) \in Seq(Nat)
  <2>1. PICK rest \in Seq(Nat) : Expected(r) = sent[r] \o rest
    BY DEF OwedInv
  <2>2. sent[r] \in Seq(Nat)
    BY DEF TypeOK
  <2> QED
    BY <2>1, <2>2, Joined
<1>2. CASE Quiet
  BY <1>1, <1>2 DEF Quiet, Expected
<1>3. ASSUME NEW topic \in Topic, NEW closing \in SUBSET Responders,
             Dispatches(topic, closing)
      PROVE  /\ Len(Expected(r)) \in Nat /\ Len(Expected(r)') \in Nat
             /\ Len(Expected(r)) <= Len(Expected(r)')
  <2> DEFINE p == PacketIf(r \in Subscribers(topic), Len(log) + 1, topic)
  <2>1. Len(log) + 1 \in Nat
    BY DEF TypeOK
  <2>2. p \in Seq(Nat)
    BY <2>1, PacketIfType
  <2>3. Expected(r)' = Expected(r) \o p
    BY <1>3, DispatchExtends DEF Dispatches
  <2> HIDE DEF p
  <2>4. /\ Len(Expected(r) \o p) = Len(Expected(r)) + Len(p)
        /\ Len(Expected(r)) \in Nat /\ Len(p) \in Nat
    BY <1>1, <2>2, ConcatProperties
  <2> QED
    BY <2>3, <2>4
<1> QED
  BY <1>2, <1>3, StepsDeliver

(* A dispatch closes those only that are owed too much.                    *)
LEMMA OverLimit ==
  ASSUME BeginWriteThrows = FALSE, TypeOK, OwedInv,
         NEW topic \in Topic, NEW closing, Dispatches(topic, closing),
         NEW r \in Responders, conn[r] # "closed", conn'[r] = "closed"
  PROVE  MaxOBuf # 0 /\ Len(Expected(r)') - Len(sent'[r]) > MaxOBuf
<1> DEFINE p == PacketIf(r \in Subscribers(topic), Len(log) + 1, topic)
<1>1. r \in Dropped(topic) /\ sent'[r] = sent[r]
  <2>1. closing = Dropped(topic)
    BY DEF Dispatches
  <2> QED
    BY <2>1, DispatchAppends
<1>2. r \in Subscribers(topic) /\ Overflows(r, topic)
  BY <1>1 DEF Dropped, Reached
<1>3. sent[r] \in Seq(Nat) /\ obuf[r] \in Seq(Nat) /\ Len(log) + 1 \in Nat
  BY DEF TypeOK
<1>4. p \in Seq(Nat) /\ Len(p) = MsgSize[topic]
  BY <1>2, <1>3, PacketType DEF PacketIf
<1>5. Expected(r)' = (sent[r] \o obuf[r]) \o p
  BY DispatchExtends DEF Dispatches, OwedInv
<1> HIDE DEF p
<1>6. sent[r] \o obuf[r] \in Seq(Nat)
  BY <1>3, Joined
<1>7. Len((sent[r] \o obuf[r]) \o p) = Len(sent[r] \o obuf[r]) + Len(p)
  BY <1>4, <1>6, ConcatProperties
<1>8. Len(sent[r] \o obuf[r]) = Len(sent[r]) + Len(obuf[r])
  BY <1>3, ConcatProperties
<1>9. Len(sent[r]) \in Nat /\ Len(obuf[r]) \in Nat /\ MsgSize[topic] \in Nat
  BY <1>3, ServerAssumption
<1>10. MaxOBuf # 0 /\ Len(obuf[r]) + MsgSize[topic] > MaxOBuf /\ MaxOBuf \in Nat
  BY <1>2, ServerAssumption DEF Overflows
<1>11. Len(Expected(r)') = (Len(sent[r]) + Len(obuf[r])) + MsgSize[topic]
  BY <1>4, <1>5, <1>7, <1>8
<1>12. Len(sent'[r]) = Len(sent[r])
  BY <1>1
<1> DEFINE a == Len(sent[r])
           b == Len(obuf[r])
           c == MsgSize[topic]
<1>13. a \in Nat /\ b \in Nat /\ c \in Nat
  BY <1>9
<1>14. Len(Expected(r)') - Len(sent'[r]) = ((a + b) + c) - a
  BY <1>11, <1>12
<1>15. b + c > MaxOBuf /\ MaxOBuf \in Nat
  BY <1>10
<1> HIDE DEF a, b, c
<1>16. ((a + b) + c) - a > MaxOBuf
  BY <1>13, <1>15
<1> QED
  BY <1>10, <1>14, <1>16

(* A client is closed only if its peer has gone, it has sent something     *)
(* that is no message or no pattern, or it reads too slowly for its limit. *)
THEOREM ClosesWithReason ==
  ASSUME BeginWriteThrows = FALSE, NoneReversed
  PROVE  Spec => []NoUnprovokedClose
<1>1. Init => NoUnprovokedClose
  BY DEF Init, NoUnprovokedClose
<1>2. /\ LifeInv /\ OwedInv /\ BlameInv /\ TypeOK' /\ NoUnprovokedClose /\ [Next]_vars
      => NoUnprovokedClose'
  <2> SUFFICES ASSUME LifeInv, OwedInv, BlameInv, TypeOK', NoUnprovokedClose, [Next]_vars,
                      NEW r \in Responders, conn'[r] = "closed"
               PROVE  \/ link'[r] # "up"
                      \/ r \in offenders'
                      \/ MaxOBuf # 0 /\ Len(Expected(r)') - Len(sent'[r]) > MaxOBuf
    BY DEF NoUnprovokedClose
  <2>1. TypeOK
    BY DEF LifeInv
  <2>2. CASE conn[r] = "closed"
    <3>1. Reason(r)
      BY <2>2 DEF NoUnprovokedClose, Reason
    <3>2. /\ link[r] # "up" => link'[r] # "up"
          /\ r \in offenders => r \in offenders'
          /\ sent'[r] = sent[r]
      BY <2>1, <2>2, ReasonStays
    <3>3. /\ Len(Expected(r)) \in Nat /\ Len(Expected(r)') \in Nat
          /\ Len(Expected(r)) <= Len(Expected(r)')
      BY <2>1, OwedGrows
    <3>4. Len(sent[r]) \in Nat /\ MaxOBuf \in Nat
      BY <2>1, ServerAssumption DEF TypeOK
    <3> QED
      BY <3>1, <3>2, <3>3, <3>4 DEF Reason
  <2>3. CASE conn[r] # "closed"
    BY <2>1, <2>3, QuietCloses, OverLimit, StepsDeliver
  <2> QED
    BY <2>2, <2>3
<1> QED
  BY <1>1, <1>2, TypeCorrect, LifeInvariant, OwedInvariant, BlameInvariant, PTL DEF Spec

-----------------------------------------------------------------------------
(* What clients publish.  The topics the three operators of Server collect *)
(* come from a log, from messages and from publications.                   *)

OwnTopics(l, r) == [i \in 1..Len(l) |-> TopicIf(l[i].from = r, l[i].topic)]

IsWanted(m) == m.type = "Data" /\ m.topic \notin Refused

MessageTopics(ms) ==
  [i \in 1..Len(ms) |->
     TopicIf(ms[i].type = "Data" /\ ms[i].topic \notin Refused, ms[i].topic)]

WantedTopics(ts) == [i \in 1..Len(ts) |-> TopicIf(ts[i] \notin Refused, ts[i])]

LEMMA TopicsJoined ==
  ASSUME NEW s \in Seq(Topic), NEW t \in Seq(Topic), NEW u \in Seq(Topic)
  PROVE  (s \o t) \o u = s \o (t \o u)
<1>1. Associative(Topic)
  BY ConcatIsAssociative
<1> QED
  BY <1>1, Zenon DEF Associative

LEMMA MessagesJoined ==
  ASSUME NEW s \in Seq(Message), NEW t \in Seq(Message), NEW u \in Seq(Message)
  PROVE  (s \o t) \o u = s \o (t \o u)
<1>1. Associative(Message)
  BY ConcatIsAssociative
<1> QED
  BY <1>1, Zenon DEF Associative

LEMMA TopicIfType ==
  ASSUME NEW wanted, NEW topic \in Topic
  PROVE  TopicIf(wanted, topic) \in Seq(Topic)
BY DEF TopicIf

LEMMA OwnTopicsMore ==
  ASSUME NEW l \in Seq(LogEntry), NEW e \in LogEntry, NEW r,
         NEW x, x = TopicIf(e.from = r, e.topic)
  PROVE  FlattenSeq(OwnTopics(Append(l, e), r)) = FlattenSeq(OwnTopics(l, r)) \o x
<1>1. x \in Seq(Topic)
  BY TopicIfType DEF LogEntry
<1>2. ASSUME NEW i \in 1..Len(l)
      PROVE  TopicIf(l[i].from = r, l[i].topic) \in Seq(Topic)
  <2>1. l[i] \in LogEntry
    BY ElementOfSeq
  <2>2. l[i].topic \in Topic
    BY <2>1 DEF LogEntry
  <2> QED
    BY <2>2, TopicIfType
<1>3. OwnTopics(l, r) \in Seq(Seq(Topic))
  BY <1>2 DEF OwnTopics
<1>4. OwnTopics(Append(l, e), r) = Append(OwnTopics(l, r), x)
  BY AppendProperties DEF OwnTopics
<1>5. FlattenSeq(Append(OwnTopics(l, r), x)) = FlattenSeq(OwnTopics(l, r)) \o x
  BY <1>1, <1>3, FlattenAppended
<1> QED
  BY <1>4, <1>5

LEMMA DispatchedType ==
  ASSUME TypeOK, NEW r
  PROVE  Dispatched(r) \in Seq(Topic)
<1>1. log \in Seq(LogEntry)
  BY DEF TypeOK
<1>2. ASSUME NEW i \in 1..Len(log)
      PROVE  TopicIf(log[i].from = r, log[i].topic) \in Seq(Topic)
  <2>1. log[i] \in LogEntry
    BY <1>1, ElementOfSeq
  <2>2. log[i].topic \in Topic
    BY <2>1 DEF LogEntry
  <2> QED
    BY <2>2, TopicIfType
<1>3. OwnTopics(log, r) \in Seq(Seq(Topic))
  BY <1>1, <1>2 DEF OwnTopics
<1>4. FlattenSeq(OwnTopics(log, r)) \in Seq(Topic)
  BY <1>3, FlattenType
<1> QED
  BY <1>4 DEF OwnTopics, Dispatched, TopicIf

LEMMA WantedTopicsMore ==
  ASSUME NEW ts \in Seq(Topic), NEW t \in Topic
  PROVE  FlattenSeq(WantedTopics(Append(ts, t)))
           = FlattenSeq(WantedTopics(ts)) \o TopicIf(t \notin Refused, t)
<1> DEFINE x == TopicIf(t \notin Refused, t)
<1>1. x \in Seq(Topic)
  BY TopicIfType
<1>2. \A i \in 1..Len(ts) : TopicIf(ts[i] \notin Refused, ts[i]) \in Seq(Topic)
  BY TopicIfType, ElementOfSeq
<1>3. WantedTopics(ts) \in Seq(Seq(Topic))
  BY <1>2 DEF WantedTopics
<1>4. WantedTopics(Append(ts, t)) = Append(WantedTopics(ts), x)
  BY AppendProperties DEF WantedTopics
<1> HIDE DEF x
<1>5. FlattenSeq(Append(WantedTopics(ts), x)) = FlattenSeq(WantedTopics(ts)) \o x
  BY <1>1, <1>3, FlattenAppended
<1> QED
  BY <1>4, <1>5 DEF x

LEMMA MessageTopicsType ==
  ASSUME NEW ms \in Seq(Message)
  PROVE  MessageTopics(ms) \in Seq(Seq(Topic)) /\ DataTopics(ms) \in Seq(Topic)
<1>1. ASSUME NEW i \in 1..Len(ms)
      PROVE  TopicIf(IsWanted(ms[i]), ms[i].topic) \in Seq(Topic)
  <2>1. ms[i] \in Message
    BY ElementOfSeq
  <2>2. ms[i].topic \in Topic
    BY <2>1 DEF Message
  <2> QED
    BY <2>2, TopicIfType
<1>2. MessageTopics(ms) \in Seq(Seq(Topic))
  BY <1>1 DEF MessageTopics, IsWanted
<1>3. FlattenSeq(MessageTopics(ms)) \in Seq(Topic)
  BY <1>2, FlattenType
<1> QED
  BY <1>2, <1>3 DEF DataTopics, MessageTopics

LEMMA DataTopicsBoth ==
  ASSUME NEW a \in Seq(Message), NEW b \in Seq(Message)
  PROVE  DataTopics(a \o b) = DataTopics(a) \o DataTopics(b)
<1>1. MessageTopics(a) \in Seq(Seq(Topic)) /\ MessageTopics(b) \in Seq(Seq(Topic))
  BY MessageTopicsType
<1>2. MessageTopics(a \o b) = MessageTopics(a) \o MessageTopics(b)
  BY ConcatProperties DEF MessageTopics
<1>3. FlattenSeq(MessageTopics(a) \o MessageTopics(b))
        = FlattenSeq(MessageTopics(a)) \o FlattenSeq(MessageTopics(b))
  BY <1>1, FlattenBoth
<1> QED
  BY <1>2, <1>3 DEF DataTopics, MessageTopics

LEMMA DataTopicsOne ==
  ASSUME NEW m \in Message
  PROVE  DataTopics(<<m>>) = TopicIf(IsWanted(m), m.topic)
<1> DEFINE x == TopicIf(IsWanted(m), m.topic)
           s == <<>>
<1>1. x \in Seq(Topic) /\ s \in Seq(Seq(Topic))
  BY TopicIfType DEF Message
<1>2. MessageTopics(<<m>>) = Append(s, x)
  BY DEF MessageTopics, IsWanted
<1>3. FlattenSeq(s) = <<>>
  BY DEF FlattenSeq
<1> HIDE DEF x, s
<1>4. FlattenSeq(Append(s, x)) = FlattenSeq(s) \o x
  BY <1>1, FlattenAppended
<1>5. <<>> \o x = x
  BY <1>1, ConcatEmptySeq
<1> QED
  BY <1>2, <1>3, <1>4, <1>5 DEF DataTopics, MessageTopics, x

(* What r still has to be asked of: the topics of its waiting messages.    *)
Left(r) == DataTopics(Waiting(r))

LEMMA LeftIsWhole ==
  ASSUME TypeOK, NEW r \in Responders
  PROVE  /\ Waiting(r) \in Seq(Message)
         /\ Left(r) \in Seq(Topic)
<1>1. inbox[r] \in Seq(Message) /\ batch \in Seq(Message) /\ <<>> \in Seq(Message)
  BY DEF TypeOK
<1>2. (IF active = r THEN batch ELSE <<>>) \in Seq(Message)
  BY <1>1
<1>3. Waiting(r) \in Seq(Message)
  BY <1>1, <1>2, ConcatProperties DEF Waiting
<1> QED
  BY <1>3, MessageTopicsType DEF Left

(* All that r has published was dispatched for it and something more; that *)
(* is what waits, unless the client is closed.                             *)
PublishInv ==
  \A r \in Responders :
    /\ Dispatched(r) \in Seq(Topic)
    /\ \E rest \in Seq(Topic) : Accepted(r) = Dispatched(r) \o rest
    /\ conn[r] # "closed" => Accepted(r) = Dispatched(r) \o Left(r)

(* The steps as a client sees them: nothing it has published changes,      *)
(* something is published, or the first that waits is dispatched.          *)
Stays(r) ==
  /\ Accepted(r)' = Accepted(r) /\ Dispatched(r)' = Dispatched(r)
  /\ conn'[r] # "closed" => conn[r] # "closed" /\ Left(r)' = Left(r)

Adds(r) ==
  \E x \in Seq(Topic) :
    /\ Accepted(r)' = Accepted(r) \o x /\ Dispatched(r)' = Dispatched(r)
    /\ conn'[r] = conn[r] /\ Left(r)' = Left(r) \o x

Takes(r) ==
  \E x, y \in Seq(Topic) :
    /\ Accepted(r)' = Accepted(r) /\ Dispatched(r)' = Dispatched(r) \o x
    /\ conn[r] # "closed" /\ Left(r) = x \o y
    /\ conn'[r] # "closed" => Left(r)' = y

LEMMA PublishStep ==
  ASSUME TypeOK, PublishInv,
         \A r \in Responders : Stays(r) \/ Adds(r) \/ Takes(r)
  PROVE  PublishInv'
<1> SUFFICES ASSUME NEW r \in Responders
             PROVE  /\ Dispatched(r)' \in Seq(Topic)
                    /\ \E rest \in Seq(Topic) : Accepted(r)' = Dispatched(r)' \o rest
                    /\ conn'[r] # "closed" => Accepted(r)' = Dispatched(r)' \o Left(r)'
  BY DEF PublishInv
<1> DEFINE d == Dispatched(r)
           l == Left(r)
<1>1. PICK rest \in Seq(Topic) : Accepted(r) = d \o rest
  BY DEF PublishInv
<1>2. d \in Seq(Topic) /\ l \in Seq(Topic) /\ (conn[r] # "closed" => Accepted(r) = d \o l)
  BY LeftIsWhole DEF PublishInv
<1>3. CASE Stays(r)
  BY <1>1, <1>2, <1>3 DEF Stays
<1>4. CASE Adds(r)
  <2>1. PICK x \in Seq(Topic) :
          /\ Accepted(r)' = Accepted(r) \o x /\ Dispatched(r)' = d
          /\ conn'[r] = conn[r] /\ Left(r)' = l \o x
    BY <1>4 DEF Adds
  <2> HIDE DEF d, l
  <2>2. (d \o rest) \o x = d \o (rest \o x)
    BY <1>2, TopicsJoined, Zenon
  <2>3. (d \o l) \o x = d \o (l \o x)
    BY <1>2, TopicsJoined, Zenon
  <2>4. rest \o x \in Seq(Topic)
    BY ConcatProperties
  <2> QED
    BY <1>1, <1>2, <2>1, <2>2, <2>3, <2>4
<1>5. CASE Takes(r)
  <2>1. PICK x \in Seq(Topic), y \in Seq(Topic) :
          /\ Accepted(r)' = Accepted(r) /\ Dispatched(r)' = d \o x
          /\ conn[r] # "closed" /\ l = x \o y
          /\ conn'[r] # "closed" => Left(r)' = y
    BY <1>5 DEF Takes
  <2> HIDE DEF d, l
  <2>2. (d \o x) \o y = d \o (x \o y)
    BY <1>2, TopicsJoined, Zenon
  <2>3. Accepted(r)' = (d \o x) \o y
    BY <1>2, <2>1, <2>2
  <2>4. d \o x \in Seq(Topic)
    BY <1>2, ConcatProperties
  <2> QED
    BY <2>1, <2>3, <2>4
<1> QED
  BY <1>3, <1>4, <1>5

(* The messages of the client being handled.                               *)
LEMMA HeadWaits ==
  ASSUME TypeOK, NEW r \in Responders, Handling(r)
  PROVE  /\ Head(batch) \in Message
         /\ Tail(batch) \o inbox[r] \in Seq(Message)
         /\ Waiting(r) = <<Head(batch)>> \o (Tail(batch) \o inbox[r])
<1> DEFINE m == Head(batch)
           t == Tail(batch)
           i == inbox[r]
           h == <<m>>
<1>1. batch \in Seq(Message) /\ batch # <<>> /\ active = r /\ i \in Seq(Message)
  BY DEF TypeOK, Handling
<1>2. m \in Message /\ t \in Seq(Message) /\ h \in Seq(Message)
  BY <1>1, HeadTailProperties
<1>4. batch = h \o t
  <2> DEFINE u == h \o t
  <2>1. /\ Len(t) = Len(batch) - 1 /\ Len(batch) \in Nat
        /\ \A k \in 1..Len(t) : t[k] = batch[k + 1]
    BY <1>1, HeadTailProperties
  <2>2. m = batch[1] /\ h[1] = m /\ Len(h) = 1
    BY <1>1
  <2> HIDE DEF m, h, t
  <2>3. /\ u \in Seq(Message) /\ Len(u) = Len(h) + Len(t)
        /\ \A k \in 1..(Len(h) + Len(t)) : u[k] = IF k <= Len(h) THEN h[k] ELSE t[k - Len(h)]
    BY <1>2, ConcatProperties
  <2> HIDE DEF u
  <2>4. Len(u) = Len(batch) /\ \A k \in 1..Len(batch) : u[k] = batch[k]
    BY <2>1, <2>2, <2>3
  <2>5. u = batch
    BY <1>1, <2>3, <2>4, SeqEqual
  <2> QED
    BY <2>5 DEF u
<1> HIDE DEF m, t, i, h
<1>5. t \o i \in Seq(Message)
  BY <1>1, <1>2, ConcatProperties
<1>6. (h \o t) \o i = h \o (t \o i)
  BY <1>1, <1>2, MessagesJoined, Zenon
<1>7. Waiting(r) = h \o (t \o i)
  BY <1>1, <1>4, <1>6 DEF Waiting, i
<1> QED
  BY <1>2, <1>5, <1>7 DEF m, t, i, h

LEMMA HeadLeft ==
  ASSUME TypeOK, NEW r \in Responders, Handling(r)
  PROVE  LET m == Head(batch)
         IN  /\ m \in Message /\ Tail(batch) \in Seq(Message)
             /\ DataTopics(Tail(batch) \o inbox[r]) \in Seq(Topic)
             /\ TopicIf(IsWanted(m), m.topic) \in Seq(Topic)
             /\ Left(r) = TopicIf(IsWanted(m), m.topic)
                            \o DataTopics(Tail(batch) \o inbox[r])
<1> DEFINE m == Head(batch)
           w == Tail(batch) \o inbox[r]
           h == <<m>>
<1>1. batch \in Seq(Message) /\ batch # <<>>
  BY DEF TypeOK, Handling
<1>2. Tail(batch) \in Seq(Message)
  BY <1>1, HeadTailProperties
<1>3. m \in Message /\ w \in Seq(Message) /\ Waiting(r) = h \o w
  BY HeadWaits
<1>4. m.topic \in Topic /\ h \in Seq(Message)
  <2> HIDE DEF m, w
  <2> QED
    BY <1>3 DEF Message, h
<1> HIDE DEF m, w
<1>5. DataTopics(h \o w) = DataTopics(h) \o DataTopics(w)
  BY <1>3, <1>4, DataTopicsBoth
<1>6. DataTopics(h) = TopicIf(IsWanted(m), m.topic)
  BY <1>3, DataTopicsOne DEF h
<1>7. TopicIf(IsWanted(m), m.topic) \in Seq(Topic)
  BY <1>4, TopicIfType
<1>8. DataTopics(w) \in Seq(Topic)
  BY <1>3, MessageTopicsType
<1> QED
  BY <1>2, <1>3, <1>5, <1>6, <1>7, <1>8 DEF Left, m, w

(* What a dispatch adds to the topics of its sender.                       *)
LEMMA DispatchOwn ==
  ASSUME TypeOK, NEW topic \in Topic, NEW serial \in Nat,
         NEW from \in Responders \cup {NoResponder},
         NEW closing, Dispatch(topic, serial, from, closing), NEW r,
         NEW x, x = TopicIf(from = r, topic)
  PROVE  Dispatched(r)' = Dispatched(r) \o x
<1> DEFINE e == [topic |-> topic, serial |-> serial, from |-> from,
                 to |-> Subscribers(topic)]
<1>1. e \in LogEntry /\ x = TopicIf(e.from = r, e.topic)
  BY DEF LogEntry, Subscribers
<1>2. log' = Append(log, e)
  BY DEF Dispatch
<1>3. log \in Seq(LogEntry)
  BY DEF TypeOK
<1> HIDE DEF e
<1>4. FlattenSeq(OwnTopics(Append(log, e), r)) = FlattenSeq(OwnTopics(log, r)) \o x
  BY <1>1, <1>3, OwnTopicsMore
<1>5. /\ Dispatched(r) = FlattenSeq(OwnTopics(log, r))
      /\ Dispatched(r)' = FlattenSeq(OwnTopics(log', r))
  BY DEF Dispatched, OwnTopics, TopicIf
<1> QED
  BY <1>2, <1>4, <1>5

(* The steps of Next, client by client.                                    *)
LEMMA NothingMoves ==
  ASSUME UNCHANGED <<log, published>>, NEW r \in Responders,
         conn'[r] # "closed" => conn[r] # "closed" /\ Waiting(r)' = Waiting(r)
  PROVE  Stays(r)
BY DEF Stays, Dispatched, Accepted, Left, DataTopics, TopicIf

Moves(r) == Stays(r) \/ Adds(r) \/ Takes(r)

LEMMA CallMoves ==
  ASSUME TypeOK, NEW q \in Responders, NEW c \in Calls[q], PeerCall(q, c),
         NEW r \in Responders
  PROVE  Moves(r)
<1>1. UNCHANGED <<log, conn, active, batch>>
  BY DEF PeerCall, serverVars
<1>2. CASE r # q
  <2>1. inbox'[r] = inbox[r] /\ published'[r] = published[r]
    BY <1>2 DEF PeerCall, TypeOK
  <2>2. Stays(r)
    BY <1>1, <2>1 DEF Stays, Dispatched, Accepted, Left, Waiting, DataTopics, TopicIf
  <2> QED
    BY <2>2 DEF Moves
<1>3. CASE r = q
  <2> DEFINE m == WireMessage(c)
             x == TopicIf(IsWanted(m), m.topic)
             b == IF active = r THEN batch ELSE <<>>
  <2>1. m \in Message /\ c.topic \in Topic /\ m.topic = c.topic
        /\ (m.type = "Data" <=> c.op = "publish")
    <3>1. c \in Call
      BY ServerAssumption
    <3>2. c.op \in CallOps /\ c.type \in Types /\ c.topic \in Topic
      BY <3>1 DEF Call
    <3>3. m.type = "Data" <=> c.op = "publish"
      BY <3>2 DEF WireMessage, CallOps, Types, SubscribeType, SubscribeWithObjectType,
                  UnsubscribeType
    <3>4. m.topic = c.topic
      BY DEF WireMessage
    <3> QED
      BY <3>1, <3>2, <3>3, <3>4, WireMessageType
  <2>2. x \in Seq(Topic)
    BY <2>1, TopicIfType
  <2>3. inbox'[r] = Append(inbox[r], m)
    BY <1>3 DEF PeerCall, TypeOK
  <2>4. Left(r)' = Left(r) \o x
    <3> DEFINE h == <<m>>
    <3>1. inbox[r] \in Seq(Message) /\ b \in Seq(Message) /\ h \in Seq(Message)
      BY <2>1 DEF TypeOK
    <3>2. Append(inbox[r], m) = inbox[r] \o h
      BY <2>1, <3>1
    <3>3. DataTopics(h) = x
      BY <2>1, DataTopicsOne
    <3> HIDE DEF b, h, m, x
    <3>4. (b \o inbox[r]) \o h = b \o (inbox[r] \o h)
      BY <3>1, MessagesJoined, Zenon
    <3>5. Waiting(r) = b \o inbox[r] /\ Waiting(r)' = b \o (inbox[r] \o h)
      BY <1>1, <2>3, <3>2 DEF Waiting, b
    <3>6. DataTopics(Waiting(r) \o h) = DataTopics(Waiting(r)) \o DataTopics(h)
      BY <3>1, LeftIsWhole, DataTopicsBoth
    <3>7. Left(r)' = DataTopics(Waiting(r) \o h)
      BY <3>4, <3>5 DEF Left
    <3> QED
      BY <3>3, <3>6, <3>7 DEF Left
  <2>5. Accepted(r)' = Accepted(r) \o x
    <3>1. CASE c.op = "publish"
      <4>1. published'[r] = Append(published[r], c.topic)
        BY <1>3, <3>1 DEF PeerCall, TypeOK
      <4>2. published[r] \in Seq(Topic)
        BY DEF TypeOK
      <4>3. FlattenSeq(WantedTopics(Append(published[r], c.topic)))
              = FlattenSeq(WantedTopics(published[r])) \o TopicIf(c.topic \notin Refused, c.topic)
        BY <2>1, <4>2, WantedTopicsMore
      <4>4. x = TopicIf(c.topic \notin Refused, c.topic)
        BY <2>1, <3>1 DEF TopicIf, IsWanted
      <4> QED
        BY <4>1, <4>3, <4>4 DEF Accepted, WantedTopics, TopicIf
    <3>2. CASE c.op # "publish"
      <4>1. published' = published
        BY <3>2 DEF PeerCall
      <4>2. x = <<>>
        BY <2>1, <3>2 DEF TopicIf, IsWanted
      <4>3. Accepted(r) \in Seq(Topic)
        <5> DEFINE ts == published[r]
        <5>1. ts \in Seq(Topic)
          BY DEF TypeOK
        <5>2. WantedTopics(ts) \in Seq(Seq(Topic))
          <6>1. \A i \in 1..Len(ts) : ts[i] \in Topic
            BY <5>1, ElementOfSeq
          <6>2. \A i \in 1..Len(ts) : TopicIf(ts[i] \notin Refused, ts[i]) \in Seq(Topic)
            BY <6>1, TopicIfType
          <6> QED
            BY <5>1, <6>2 DEF WantedTopics
        <5>3. Accepted(r) = FlattenSeq(WantedTopics(ts))
          BY DEF Accepted, WantedTopics, TopicIf
        <5> HIDE DEF ts
        <5> QED
          BY <5>2, <5>3, FlattenType
      <4>4. Accepted(r)' = Accepted(r)
        BY <4>1 DEF Accepted, TopicIf
      <4> QED
        BY <4>2, <4>3, <4>4, ConcatEmptySeq
    <3> QED
      BY <3>1, <3>2
  <2>6. Dispatched(r)' = Dispatched(r)
    BY <1>1 DEF Dispatched, TopicIf
  <2> HIDE DEF x
  <2> QED
    BY <1>1, <2>2, <2>4, <2>5, <2>6 DEF Moves, Adds
<1> QED
  BY <1>2, <1>3

(* How many messages a read returns does not matter.                       *)
LEMMA InputWaits ==
  ASSUME TypeOK, NEW q \in Responders, NEW n \in 1..Len(inbox[q]), OnInput(q, n),
         NEW r \in Responders
  PROVE  Waiting(r)' = Waiting(r)
<1>1. active = NoResponder /\ active' = q
  BY DEF OnInput, Idle
<1>2. CASE r # q
  BY <1>1, <1>2, ServerAssumption DEF OnInput, TypeOK, Waiting
<1>3. CASE r = q
  <2>1. inbox[q] \in Seq(Message) /\ n \in 0..Len(inbox[q])
    BY DEF TypeOK
  <2>2. SubSeq(inbox[q], 1, n) \o SubSeq(inbox[q], n + 1, Len(inbox[q])) = inbox[q]
    BY <2>1, FirstAndRest
  <2>3. <<>> \o inbox[q] = inbox[q]
    BY <2>1, ConcatEmptySeq
  <2>4. batch' = SubSeq(inbox[q], 1, n)
        /\ inbox'[q] = SubSeq(inbox[q], n + 1, Len(inbox[q]))
    BY DEF OnInput, TypeOK
  <2> QED
    BY <1>1, <1>3, <2>2, <2>3, <2>4, ServerAssumption DEF Waiting
<1> QED
  BY <1>2, <1>3

LEMMA InputMoves ==
  ASSUME TypeOK, NEW q \in Responders, NEW n \in 1..Len(inbox[q]), OnInput(q, n),
         NEW r \in Responders
  PROVE  Moves(r)
<1>1. UNCHANGED <<log, published, conn>>
  BY DEF OnInput, historyVars
<1>2. Waiting(r)' = Waiting(r)
  BY InputWaits
<1> QED
  BY <1>1, <1>2, NothingMoves DEF Moves

(* A message that is not to be dispatched is taken from the batch.         *)
LEMMA SkipMoves ==
  ASSUME TypeOK, NEW q \in Responders, Handling(q), ~IsWanted(Head(batch)),
         batch' = Tail(batch), UNCHANGED <<log, published, conn, inbox, active>>,
         NEW r \in Responders
  PROVE  Moves(r)
<1>1. CASE r # q
  <2>1. active # r
    BY <1>1 DEF Handling
  <2>2. Waiting(r)' = Waiting(r)
    BY <2>1 DEF Waiting
  <2> QED
    BY <2>2, NothingMoves DEF Moves
<1>2. CASE r = q
  <2> DEFINE y == DataTopics(Tail(batch) \o inbox[q])
  <2>1. TopicIf(IsWanted(Head(batch)), Head(batch).topic) = <<>>
    BY DEF TopicIf
  <2>2. y \in Seq(Topic) /\ Left(q) = <<>> \o y
    BY <2>1, HeadLeft
  <2>3. <<>> \o y = y
    BY <2>2, ConcatEmptySeq
  <2>4. Waiting(q)' = Tail(batch) \o inbox[q]
    BY DEF Waiting, Handling
  <2>5. Left(q)' = y
    BY <2>4 DEF Left
  <2>6. Stays(q)
    BY <2>2, <2>3, <2>5 DEF Stays, Dispatched, Accepted, TopicIf
  <2> QED
    BY <1>2, <2>6 DEF Moves
<1> QED
  BY <1>1, <1>2

(* A client is closed, and its handler ends.                               *)
LEMMA CloseMoves ==
  ASSUME TypeOK, NEW q \in Responders, CloseClient(q), active \in {q, NoResponder},
         UNCHANGED <<log, published, inbox>>, NEW r \in Responders
  PROVE  Moves(r)
<1>1. CASE r # q
  <2>1. conn'[r] = conn[r] /\ active # r /\ active' # r
    BY <1>1, ServerAssumption DEF CloseClient, CloseClients
  <2>2. Waiting(r)' = Waiting(r)
    BY <2>1 DEF Waiting
  <2> QED
    BY <2>1, <2>2, NothingMoves DEF Moves
<1>2. CASE r = q
  <2>1. conn'[r] = "closed"
    BY <1>2 DEF CloseClient, CloseClients
  <2> QED
    BY <2>1, NothingMoves DEF Moves
<1> QED
  BY <1>1, <1>2

LEMMA DataMoves ==
  ASSUME LifeInv, NEW q \in Responders, HandleData(q), NEW r \in Responders
  PROVE  Moves(r)
<1> DEFINE m == Head(batch)
           topic == m.topic
<1>1. Handling(q) /\ IsWanted(m)
  BY DEF HandleData, IsWanted
<1>2. TypeOK /\ m \in Message /\ topic \in Topic
  BY <1>1, HeadMessage DEF LifeInv
<1>3. PICK closing : Dispatch(topic, lastSerial + 1, q, closing)
  BY DEF HandleData
<1>4. Dispatched(r)' = Dispatched(r) \o TopicIf(q = r, topic)
  <2>1. lastSerial + 1 \in Nat /\ q \in Responders \cup {NoResponder}
    BY <1>2 DEF TypeOK
  <2> HIDE DEF m
  <2> QED
    BY <1>2, <1>3, <2>1, DispatchOwn
<1>5. UNCHANGED <<inbox, published>> /\ Accepted(r)' = Accepted(r)
  BY DEF HandleData, peerVars, Accepted, TopicIf
<1>6. conn'[r] # "closed" => conn[r] # "closed"
  BY <1>3 DEF Dispatch, CloseClients
<1>7. CASE r # q
  <2>1. active # r /\ active' # r
    BY <1>1, <1>7, ServerAssumption DEF HandleData, Handling
  <2>2. Left(r)' = Left(r)
    BY <1>5, <2>1 DEF Left, Waiting
  <2>3. TypeOK /\ Dispatched(r)' = Dispatched(r) \o <<>>
    BY <1>2, <1>4, <1>7 DEF TopicIf
  <2>4. Dispatched(r) \o <<>> = Dispatched(r)
    BY <1>2, DispatchedType, ConcatEmptySeq
  <2>5. Stays(r)
    BY <1>5, <1>6, <2>2, <2>3, <2>4 DEF Stays
  <2> QED
    BY <2>5 DEF Moves
<1>8. CASE r = q
  <2> DEFINE x == TopicIf(IsWanted(m), m.topic)
             y == DataTopics(Tail(batch) \o inbox[q])
  <2>1. x \in Seq(Topic) /\ y \in Seq(Topic) /\ Left(r) = x \o y
    BY <1>1, <1>2, <1>8, HeadLeft
  <2>2. TopicIf(q = r, topic) = x
    BY <1>1, <1>8 DEF TopicIf
  <2>3. conn[r] = "open"
    BY <1>1, <1>8 DEF LifeInv, ResponderLife, Handling
  <2>4. conn'[r] # "closed" => Left(r)' = y
    <3>1. CASE Aborts(topic)
      <4>1. conn'[r] = "closed"
        BY <1>8, <3>1 DEF HandleData, Dispatch, CloseClients
      <4> QED
        BY <4>1
    <3>2. CASE ~Aborts(topic)
      <4>1. active' = q /\ batch' = Tail(batch)
        BY <3>2 DEF HandleData
      <4>2. Waiting(q)' = Tail(batch) \o inbox[q]
        BY <1>5, <4>1 DEF Waiting
      <4> QED
        BY <1>8, <4>2 DEF Left
    <3> QED
      BY <3>1, <3>2
  <2> HIDE DEF x, y
  <2>5. Takes(r)
    BY <1>4, <1>5, <2>1, <2>2, <2>3, <2>4 DEF Takes
  <2> QED
    BY <2>5 DEF Moves
<1> QED
  BY <1>7, <1>8

LEMMA AppMoves ==
  ASSUME TypeOK, NEW topic \in AppTopics, AppSend(topic), NEW r \in Responders
  PROVE  Moves(r)
<1>1. /\ topic \in Topic /\ 0 \in Nat /\ NoResponder # r
      /\ NoResponder \in Responders \cup {NoResponder}
  BY ServerAssumption
<1>2. PICK closing : Dispatch(topic, 0, NoResponder, closing)
  BY DEF AppSend
<1>3. Dispatched(r)' = Dispatched(r) \o TopicIf(NoResponder = r, topic)
  BY <1>1, <1>2, DispatchOwn
<1>4. TopicIf(NoResponder = r, topic) = <<>>
  BY <1>1 DEF TopicIf
<1>5. Dispatched(r) \o <<>> = Dispatched(r)
  BY DispatchedType, ConcatEmptySeq
<1>6. UNCHANGED <<published, inbox, active, batch>>
  BY DEF AppSend
<1>7. conn'[r] # "closed" => conn[r] # "closed"
  BY <1>2 DEF Dispatch, CloseClients
<1>8. Left(r)' = Left(r) /\ Accepted(r)' = Accepted(r)
  BY <1>6 DEF Left, Waiting, Accepted, TopicIf
<1>9. Stays(r)
  BY <1>3, <1>4, <1>5, <1>7, <1>8 DEF Stays
<1> QED
  BY <1>9 DEF Moves

LEMMA StepsMove ==
  ASSUME LifeInv, [Next]_vars, NEW r \in Responders
  PROVE  Moves(r)
<1> USE DEF serverVars, peerVars, historyVars
<1>1. TypeOK
  BY DEF LifeInv
<1>2. ASSUME UNCHANGED <<log, published, inbox, active, batch>>,
             conn'[r] # "closed" => conn[r] # "closed"
      PROVE  Moves(r)
  <2>1. Waiting(r)' = Waiting(r)
    BY <1>2 DEF Waiting
  <2> QED
    BY <1>2, <2>1, NothingMoves DEF Moves
<1>3. ASSUME NEW q \in Responders, PeerCloses(q) \/ PeerResets(q) \/ Accept(q)
      PROVE  Moves(r)
  <2>1. conn'[r] # "closed" => conn[r] # "closed"
    BY <1>1, <1>3 DEF PeerCloses, PeerResets, Accept, TypeOK
  <2> QED
    BY <1>2, <1>3, <2>1 DEF PeerCloses, PeerResets, Accept
<1>4. ASSUME NEW q \in Responders, NEW k \in 1..Len(obuf[q]), OnOutput(q, k)
      PROVE  Moves(r)
  BY <1>2, <1>4 DEF OnOutput
<1>5. ASSUME NEW q \in Responders, OnInputEnd(q) \/ OnOutputError(q) \/ HandleFailure(q)
      PROVE  Moves(r)
  <2>1. CloseClient(q) /\ active \in {q, NoResponder} /\ UNCHANGED <<log, published, inbox>>
    BY <1>5 DEF OnInputEnd, OnOutputError, HandleFailure, Idle, Handling
  <2> QED
    BY <1>1, <2>1, CloseMoves
<1>6. ASSUME NEW q \in Responders, HandleRefused(q)
      PROVE  Moves(r)
  BY <1>1, <1>6, SkipMoves DEF HandleRefused, IsWanted
<1>7. ASSUME NEW q \in Responders,
             HandleSubscribe(q) \/ HandleUnsubscribe(q) \/ HandleSystem(q)
      PROVE  Moves(r)
  <2>1. Head(batch).type # "Data"
    BY <1>7 DEF HandleSubscribe, HandleUnsubscribe, HandleSystem, IsSubscribe, IsUnsubscribe
  <2>2. Handling(q) /\ batch' = Tail(batch)
        /\ UNCHANGED <<log, published, conn, inbox, active>>
    BY <1>7 DEF HandleSubscribe, HandleUnsubscribe, HandleSystem
  <2> QED
    BY <1>1, <2>1, <2>2, SkipMoves DEF IsWanted
<1>8. ASSUME NEW q \in Responders, EndInput(q)
      PROVE  Moves(r)
  <2>1. Waiting(r)' = Waiting(r)
    BY <1>8, ServerAssumption DEF EndInput, Waiting
  <2> QED
    BY <1>8, <2>1, NothingMoves DEF EndInput, Moves
<1> QED
  BY <1>1, <1>2, <1>3, <1>4, <1>5, <1>6, <1>7, <1>8, CallMoves, InputMoves, DataMoves, AppMoves
     DEF Next, Handle, vars

(* Every message a client publishes is dispatched once and in the order of *)
(* its calls, however reads group them and whoever is closed meanwhile;    *)
(* what a closed client has left is lost, and only that.                   *)
THEOREM PublishesInOrder == Spec => []PublishedInOrder
<1>1. Init => PublishInv
  <2> SUFFICES ASSUME Init, NEW r \in Responders
               PROVE  /\ Dispatched(r) \in Seq(Topic)
                      /\ \E rest \in Seq(Topic) : Accepted(r) = Dispatched(r) \o rest
                      /\ Accepted(r) = Dispatched(r) \o Left(r)
    BY DEF PublishInv
  <2>1. Dispatched(r) = <<>> /\ Accepted(r) = <<>>
    BY DEF Init, Dispatched, Accepted, FlattenSeq
  <2>2. Waiting(r) = <<>>
    BY ServerAssumption DEF Init, Waiting
  <2>3. Left(r) = <<>>
    BY <2>2 DEF Left, DataTopics, FlattenSeq
  <2>4. <<>> \in Seq(Topic) /\ <<>> \o <<>> = <<>>
    BY ConcatEmptySeq
  <2> QED
    BY <2>1, <2>3, <2>4
<1>2. LifeInv /\ PublishInv /\ [Next]_vars => PublishInv'
  BY StepsMove, PublishStep DEF LifeInv, Moves
<1>3. TypeOK /\ PublishInv => PublishedInOrder
  <2> SUFFICES ASSUME TypeOK, PublishInv, NEW r \in Responders
               PROVE  /\ IsPrefix(Dispatched(r), Accepted(r))
                      /\ conn[r] = "open" =>
                           Dispatched(r) \o DataTopics(Waiting(r)) = Accepted(r)
    BY DEF PublishedInOrder
  <2>1. PICK rest \in Seq(Topic) : Accepted(r) = Dispatched(r) \o rest
    BY DEF PublishInv
  <2>2. Dispatched(r) \in Seq(Topic)
    BY DEF PublishInv
  <2>3. IsPrefix(Dispatched(r), Dispatched(r) \o rest)
    BY <2>2, PrefixOfJoined
  <2> QED
    BY <2>1, <2>3 DEF PublishInv, Left
<1> QED
  BY <1>1, <1>2, <1>3, TypeCorrect, LifeInvariant, PTL DEF Spec

-----------------------------------------------------------------------------
(* What a client is subscribed to.                                         *)

SubscriptionOps == {"subscribe", "subscribeWithObject", "unsubscribe"}

(* The calls of a client name every subscription they mean: its type       *)
(* survives the wire, and no two subscriptions differ in the sub topic     *)
(* only.  Without it the server does not do what is asked of it.           *)
CallsUnambiguous ==
  \A r \in Responders : \A c, d \in Calls[r] :
    /\ c.op \in {"subscribe", "unsubscribe"} => c.type # "RegexReversed"
    /\ /\ c.op \in SubscriptionOps /\ d.op \in SubscriptionOps
       /\ c.type = d.type /\ c.topic.main = d.topic.main
       => c.topic = d.topic

(* The subscription a message names, and what a message makes of the       *)
(* subscriptions of its sender.                                            *)
Named(m) == [topic |-> m.topic, type |-> SubscriptionType(m)]

Effect(v, m) ==
  IF IsSubscribe(m) THEN Append(v, Named(m))
  ELSE IF IsUnsubscribe(m) THEN RemoveFirst(v, Named(m))
  ELSE v

Naming(m) == IsSubscribe(m) \/ IsUnsubscribe(m)

(* The subscriptions the calls of r name.                                  *)
Own(r) == {Named(m) : m \in {n \in Sendable(r) : Naming(n)}}

LEMMA NamedByCall ==
  ASSUME CallsUnambiguous, NEW r \in Responders, NEW c \in Calls[r]
  PROVE  LET m == WireMessage(c)
         IN  /\ m \in Message /\ m \in Sendable(r) /\ c \in Call
             /\ IsSubscribe(m) <=> c.op \in {"subscribe", "subscribeWithObject"}
             /\ IsUnsubscribe(m) <=> c.op = "unsubscribe"
             /\ Naming(m) => Named(m) = [topic |-> c.topic, type |-> c.type]
<1> DEFINE m == WireMessage(c)
<1>1. c \in Call
  BY ServerAssumption
<1>2. c.op \in CallOps /\ c.type \in Types /\ c.topic \in Topic
  BY <1>1 DEF Call
<1>3. c.op \in {"subscribe", "unsubscribe"} => c.type # "RegexReversed"
  BY DEF CallsUnambiguous
<1>4. m \in Message /\ m \in Sendable(r) /\ m.topic = c.topic
  BY <1>1, WireMessageType DEF Sendable, WireMessage
<1>5. CASE c.op = "subscribe"
  <2>1. m.type = SubscribeType(c.type)
    BY <1>5 DEF WireMessage
  <2> QED
    BY <1>1, <1>2, <1>3, <1>4, <1>5, <2>1
       DEF Types, SubscribeType, IsSubscribe, IsUnsubscribe, Named, SubscriptionType
<1>6. CASE c.op = "subscribeWithObject"
  <2>1. m.type = SubscribeWithObjectType(c.type)
    BY <1>6 DEF WireMessage
  <2> QED
    BY <1>1, <1>2, <1>3, <1>4, <1>6, <2>1
       DEF Types, SubscribeWithObjectType, IsSubscribe, IsUnsubscribe, Named, SubscriptionType
<1>7. CASE c.op = "unsubscribe"
  <2>1. m.type = UnsubscribeType(c.type)
    BY <1>7 DEF WireMessage
  <2> QED
    BY <1>1, <1>2, <1>3, <1>4, <1>7, <2>1
       DEF Types, UnsubscribeType, IsSubscribe, IsUnsubscribe, Named, SubscriptionType
<1>8. CASE c.op \in {"publish", "system", "garbage"}
  <2>1. m.type \in {"Data", "System", "Garbage"}
    BY <1>8 DEF WireMessage
  <2> QED
    BY <1>1, <1>2, <1>4, <1>8, <2>1 DEF IsSubscribe, IsUnsubscribe, Naming
<1> QED
  BY <1>2, <1>5, <1>6, <1>7, <1>8 DEF CallOps

(* The caller expects of a call what the message does.                     *)
LEMMA ViewIsEffect ==
  ASSUME CallsUnambiguous, NEW r \in Responders, NEW c \in Calls[r], NEW v
  PROVE  ViewAfter(v, c) = Effect(v, WireMessage(c))
<1> DEFINE m == WireMessage(c)
<1>1. /\ IsSubscribe(m) <=> c.op \in {"subscribe", "subscribeWithObject"}
      /\ IsUnsubscribe(m) <=> c.op = "unsubscribe"
      /\ Naming(m) => Named(m) = [topic |-> c.topic, type |-> c.type]
  BY NamedByCall
<1> HIDE DEF m
<1>2. CASE c.op \in {"subscribe", "subscribeWithObject"}
  BY <1>1, <1>2 DEF ViewAfter, Effect, Naming, m
<1>3. CASE c.op = "unsubscribe"
  BY <1>1, <1>3 DEF ViewAfter, Effect, Naming, m
<1>4. CASE c.op \notin {"subscribe", "subscribeWithObject", "unsubscribe"}
  BY <1>1, <1>4 DEF ViewAfter, Effect, m
<1> QED
  BY <1>2, <1>3, <1>4

(* Type and main topic tell the subscriptions of a client apart.           *)
LEMMA OwnApart ==
  ASSUME CallsUnambiguous, NEW r \in Responders, NEW s \in Own(r), NEW t \in Own(r),
         s.type = t.type, s.topic.main = t.topic.main
  PROVE  s = t
<1>1. PICK c \in Calls[r] : Naming(WireMessage(c)) /\ s = Named(WireMessage(c))
  BY DEF Own, Sendable
<1>2. PICK d \in Calls[r] : Naming(WireMessage(d)) /\ t = Named(WireMessage(d))
  BY DEF Own, Sendable
<1>3. /\ s = [topic |-> c.topic, type |-> c.type] /\ c.op \in SubscriptionOps
      /\ t = [topic |-> d.topic, type |-> d.type] /\ d.op \in SubscriptionOps
  BY <1>1, <1>2, NamedByCall DEF Naming, SubscriptionOps
<1> QED
  BY <1>3 DEF CallsUnambiguous

LEMMA EffectType ==
  ASSUME NEW r \in Responders, NEW m \in Sendable(r), NEW v \in Seq(Own(r))
  PROVE  Effect(v, m) \in Seq(Own(r))
<1>1. CASE IsSubscribe(m)
  <2>1. Named(m) \in Own(r)
    BY <1>1 DEF Own, Naming
  <2> QED
    BY <1>1, <2>1, AppendProperties DEF Effect
<1>2. CASE ~IsSubscribe(m) /\ IsUnsubscribe(m)
  <2>1. Effect(v, m) = RemoveFirst(v, Named(m))
    BY <1>2 DEF Effect
  <2>2. \A i \in DOMAIN v : RemoveAt(v, i) \in Seq(Own(r))
    BY RemoveAtType
  <2>3. Len(v) \in Nat /\ DOMAIN v = 1..Len(v)
    OBVIOUS
  <2> QED
    BY <2>1, <2>2, <2>3, RemoveFirstIs
<1>3. CASE ~IsSubscribe(m) /\ ~IsUnsubscribe(m)
  BY <1>3 DEF Effect
<1> QED
  BY <1>1, <1>2, <1>3

(* What the server removes is what the message names.                      *)
LEMMA UnsubscribeIsEffect ==
  ASSUME CallsUnambiguous, TypeOK, NEW r \in Responders, HandleUnsubscribe(r),
         Head(batch) \in Sendable(r), subs[r] \in Seq(Own(r))
  PROVE  subs' = [subs EXCEPT ![r] = Effect(@, Head(batch))]
<1> DEFINE m == Head(batch)
           v == subs[r]
           e == Named(m)
<1>1. IsUnsubscribe(m) /\ ~IsSubscribe(m)
  BY DEF HandleUnsubscribe, IsUnsubscribe, IsSubscribe
<1>2. e \in Own(r) /\ m \in Sendable(r)
  BY <1>1 DEF Own, Naming
<1>3. Effect(v, m) = RemoveFirst(v, e)
  BY <1>1 DEF Effect
<1>4. \A i \in 1..Len(v) : v[i] \in Own(r)
  BY ElementOfSeq
<1>5. \A i \in 1..Len(v) : Equals(v[i], m.topic, SubscriptionType(m)) <=> v[i] = e
  <2> SUFFICES ASSUME NEW i \in 1..Len(v)
               PROVE  Equals(v[i], m.topic, SubscriptionType(m)) <=> v[i] = e
    OBVIOUS
  <2>1. e.type = SubscriptionType(m) /\ e.topic = m.topic
    BY DEF Named
  <2>2. v[i] \in Own(r)
    BY <1>4
  <2> HIDE DEF e, v, m
  <2>3. v[i].type = e.type /\ v[i].topic.main = e.topic.main => v[i] = e
    BY <1>2, <2>2, OwnApart
  <2> QED
    BY <2>1, <2>3 DEF Equals
<1>6. Len(v) \in Nat /\ DOMAIN v = 1..Len(v)
  OBVIOUS
<1>7. \A i \in 1..Len(v) : \A j \in 1..(i - 1) : j \in 1..Len(v)
  BY <1>6
<1>8. \A i : IsFirstEqual(r, m, i) <=>
        i \in 1..Len(v) /\ v[i] = e /\ \A j \in 1..(i - 1) : v[j] # e
  BY <1>5, <1>6, <1>7, Zenon DEF IsFirstEqual
<1>9. \/ \E i : IsFirstEqual(r, m, i) /\ subs' = [subs EXCEPT ![r] = RemoveAt(@, i)]
      \/ (\A i \in DOMAIN v : ~IsFirstEqual(r, m, i)) /\ subs' = subs
  BY Zenon DEF HandleUnsubscribe
<1>10. \/ (\A i \in 1..Len(v) : v[i] # e) /\ RemoveFirst(v, e) = v
       \/ \E i \in 1..Len(v) : /\ v[i] = e /\ \A j \in 1..(i - 1) : v[j] # e
                               /\ RemoveFirst(v, e) = RemoveAt(v, i)
  BY <1>6, RemoveFirstIs
<1> HIDE DEF e, m
<1>11. CASE \A i \in 1..Len(v) : v[i] # e
  <2>1. subs' = subs
    BY <1>8, <1>9, <1>11
  <2>2. RemoveFirst(v, e) = v
    BY <1>10, <1>11
  <2> QED
    BY <1>3, <2>1, <2>2 DEF TypeOK, m
<1>12. CASE \E i \in 1..Len(v) : v[i] = e
  <2>1. PICK i \in 1..Len(v) : /\ v[i] = e /\ \A j \in 1..(i - 1) : v[j] # e
                               /\ RemoveFirst(v, e) = RemoveAt(v, i)
    BY <1>10, <1>12
  <2>2. IsFirstEqual(r, m, i)
    BY <1>8, <2>1
  <2>3. PICK k : IsFirstEqual(r, m, k) /\ subs' = [subs EXCEPT ![r] = RemoveAt(@, k)]
    BY <1>6, <1>9, <2>2
  <2>4. k \in 1..Len(v) /\ v[k] = e /\ \A j \in 1..(k - 1) : v[j] # e
    BY <1>8, <2>3
  <2>5. k = i
    BY <2>1, <2>4
  <2> QED
    BY <1>3, <2>1, <2>3, <2>5 DEF m
<1> QED
  BY <1>11, <1>12

(* The messages w lead from the subscriptions s to v, by way of the        *)
(* subscriptions h.                                                        *)
LeadsBy(h, s, w, v) ==
  /\ h[0] = s /\ h[Len(w)] = v
  /\ \A i \in 1..Len(w) : h[i] = Effect(h[i - 1], w[i])

Leads(S, s, w, v) == \E h \in [0..Len(w) -> Seq(S)] : LeadsBy(h, s, w, v)

LEMMA LeadsNowhere ==
  ASSUME NEW S, NEW s, NEW v
  PROVE  /\ Leads(S, s, <<>>, v) => s = v
         /\ s \in Seq(S) => Leads(S, s, <<>>, s)
<1>1. Leads(S, s, <<>>, v) => s = v
  BY DEF Leads, LeadsBy
<1>2. ASSUME s \in Seq(S)
      PROVE  Leads(S, s, <<>>, s)
  <2> DEFINE h == [i \in 0..0 |-> s]
  <2>1. h \in [0..Len(<<>>) -> Seq(S)] /\ LeadsBy(h, s, <<>>, s)
    BY <1>2 DEF LeadsBy
  <2> QED
    BY <2>1 DEF Leads
<1> QED
  BY <1>1, <1>2

LEMMA LeadsMore ==
  ASSUME NEW S, NEW s, NEW w \in Seq(Message), NEW v, NEW m \in Message,
         Leads(S, s, w, v), Effect(v, m) \in Seq(S)
  PROVE  Leads(S, s, Append(w, m), Effect(v, m))
<1> DEFINE n == Len(w)
           u == Append(w, m)
           e == Effect(v, m)
<1>1. PICK h \in [0..n -> Seq(S)] : LeadsBy(h, s, w, v)
  BY DEF Leads
<1>2. n \in Nat /\ Len(u) = n + 1 /\ u[n + 1] = m /\ \A i \in 1..n : u[i] = w[i]
  BY AppendProperties
<1> DEFINE g == [i \in 0..(n + 1) |-> IF i <= n THEN h[i] ELSE e]
<1>3. g \in [0..(n + 1) -> Seq(S)]
  <2>1. \A i \in 0..(n + 1) : i <= n => i \in 0..n
    BY <1>2
  <2> HIDE DEF e, n
  <2> QED
    BY <2>1 DEF e
<1>4. g[n + 1] = e /\ \A i \in 0..n : g[i] = h[i]
  BY <1>2
<1>5. h[0] = s /\ h[n] = v /\ \A i \in 1..n : h[i] = Effect(h[i - 1], w[i])
  BY <1>1 DEF LeadsBy
<1> HIDE DEF g, u, n, e
<1>6. g[0] = s /\ g[n] = v
  BY <1>2, <1>4, <1>5
<1>7. \A i \in 1..(n + 1) : g[i] = Effect(g[i - 1], u[i])
  <2> SUFFICES ASSUME NEW i \in 1..(n + 1)
               PROVE  g[i] = Effect(g[i - 1], u[i])
    OBVIOUS
  <2>1. CASE i = n + 1
    <3>1. i - 1 = n
      BY <1>2, <2>1
    <3> QED
      BY <1>2, <1>4, <1>6, <2>1, <3>1 DEF e
  <2>2. CASE i \in 1..n
    <3>1. i - 1 \in 0..n /\ i \in 0..n
      BY <1>2, <2>2
    <3> QED
      BY <1>2, <1>4, <1>5, <2>2, <3>1
  <2> QED
    BY <1>2, <2>1, <2>2
<1>8. LeadsBy(g, s, u, e)
  BY <1>2, <1>4, <1>6, <1>7 DEF LeadsBy
<1> QED
  BY <1>2, <1>3, <1>8 DEF Leads, u, e

LEMMA LeadsOn ==
  ASSUME NEW S, NEW s, NEW w \in Seq(Message), NEW v, NEW m \in Message,
         Leads(S, s, <<m>> \o w, v)
  PROVE  Leads(S, Effect(s, m), w, v)
<1> DEFINE n == Len(w)
           u == <<m>> \o w
<1>1. n \in Nat /\ Len(u) = n + 1 /\ u[1] = m /\ \A i \in 1..n : u[i + 1] = w[i]
  OBVIOUS
<1>2. PICK h \in [0..(n + 1) -> Seq(S)] : LeadsBy(h, s, u, v)
  BY <1>1 DEF Leads
<1> DEFINE g == [i \in 0..n |-> h[i + 1]]
<1>3. \A i \in 0..n : i + 1 \in 0..(n + 1) /\ i + 1 \in 1..(n + 1) /\ (i + 1) - 1 = i
  BY <1>1
<1>4. g \in [0..n -> Seq(S)]
  BY <1>3
<1>5. \A i \in 0..n : g[i] = h[i + 1]
  OBVIOUS
<1>6. h[0] = s /\ h[n + 1] = v /\ \A i \in 1..(n + 1) : h[i] = Effect(h[i - 1], u[i])
  BY <1>1, <1>2 DEF LeadsBy
<1> HIDE DEF g, u, n
<1>7. g[0] = Effect(s, m)
  <2>1. 0 \in 0..n /\ 1 \in 1..(n + 1) /\ 0 + 1 = 1 /\ 1 - 1 = 0
    BY <1>1
  <2> QED
    BY <1>1, <1>5, <1>6, <2>1
<1>8. g[n] = v
  BY <1>1, <1>5, <1>6
<1>9. ASSUME NEW i \in 1..n
      PROVE  g[i] = Effect(g[i - 1], w[i])
  <2>1. i \in 0..n /\ i - 1 \in 0..n /\ (i - 1) + 1 = i
    BY <1>1
  <2>2. g[i] = h[i + 1] /\ g[i - 1] = h[i]
    BY <1>5, <2>1
  <2>3. h[i + 1] = Effect(h[i], u[i + 1])
    BY <1>3, <1>6, <2>1
  <2> QED
    BY <1>1, <2>2, <2>3
<1>10. LeadsBy(g, Effect(s, m), w, v)
  BY <1>7, <1>8, <1>9 DEF LeadsBy, n
<1> QED
  BY <1>4, <1>10 DEF Leads, n

-----------------------------------------------------------------------------

(* The waiting messages of a client lead from what it is subscribed to, to *)
(* what it expects.                                                        *)
Agrees(r) ==
  conn[r] # "closed" => Leads(Own(r), subs[r], Waiting(r), view[r])

AgreeInv == \A r \in Responders : Agrees(r)

(* Nothing happens to a client, or it is closed.                           *)
LEMMA AgreesStill ==
  ASSUME NEW r \in Responders, Agrees(r),
         conn'[r] # "closed" =>
           /\ conn[r] # "closed" /\ subs'[r] = subs[r]
           /\ Waiting(r)' = Waiting(r) /\ view'[r] = view[r]
  PROVE  Agrees(r)'
BY Zenon DEF Agrees

(* The client makes a call.                                                *)
LEMMA AgreesMore ==
  ASSUME CallsUnambiguous, TypeOK, NEW r \in Responders, NEW c \in Calls[r],
         PeerCall(r, c), Agrees(r)
  PROVE  Agrees(r)'
<1> DEFINE m == WireMessage(c)
           e == Effect(view[r], m)
<1>1. m \in Message /\ m \in Sendable(r)
  BY NamedByCall
<1>2. /\ conn[r] = "open" /\ conn' = conn /\ subs' = subs
      /\ active' = active /\ batch' = batch
  BY DEF PeerCall, serverVars
<1>3. inbox'[r] = Append(inbox[r], m) /\ view'[r] = e
  BY ViewIsEffect DEF PeerCall, TypeOK
<1>4. Waiting(r) \in Seq(Message) /\ Waiting(r)' = Append(Waiting(r), m)
  <2> DEFINE b == IF active = r THEN batch ELSE <<>>
             h == <<m>>
  <2>1. inbox[r] \in Seq(Message) /\ b \in Seq(Message) /\ h \in Seq(Message)
    BY <1>1 DEF TypeOK
  <2>2. Append(inbox[r], m) = inbox[r] \o h
    BY <1>1, <2>1
  <2>3. \A q \in Seq(Message) : Append(q, m) = q \o h
    BY <1>1
  <2> HIDE DEF b, h, m
  <2>4. (b \o inbox[r]) \o h = b \o (inbox[r] \o h)
    BY <2>1, MessagesJoined, Zenon
  <2>5. Waiting(r) = b \o inbox[r] /\ Waiting(r)' = b \o (inbox[r] \o h)
    BY <1>2, <1>3, <2>2 DEF Waiting, b
  <2>6. Waiting(r) \in Seq(Message)
    BY <2>1, <2>5, ConcatProperties
  <2> QED
    BY <2>3, <2>4, <2>5, <2>6
<1>5. Leads(Own(r), subs[r], Waiting(r), view[r])
  BY <1>2 DEF Agrees
<1>6. view[r] \in Seq(Own(r))
  <2>1. PICK h \in [0..Len(Waiting(r)) -> Seq(Own(r))] : LeadsBy(h, subs[r], Waiting(r), view[r])
    BY <1>5 DEF Leads
  <2>2. Len(Waiting(r)) \in 0..Len(Waiting(r))
    BY <1>4
  <2> QED
    BY <2>1, <2>2 DEF LeadsBy
<1>7. e \in Seq(Own(r))
  BY <1>1, <1>6, EffectType
<1> HIDE DEF m
<1>8. Leads(Own(r), subs[r], Append(Waiting(r), m), e)
  BY <1>1, <1>4, <1>5, <1>7, LeadsMore
<1> HIDE DEF e
<1>9. Leads(Own(r), subs'[r], Waiting(r)', view'[r])
  BY <1>2, <1>3, <1>4, <1>8
<1> QED
  BY <1>9 DEF Agrees

(* The server handles a message of the client.                             *)
LEMMA AgreesHandled ==
  ASSUME TypeOK, NEW r \in Responders, Handling(r), Agrees(r),
         conn'[r] # "closed" =>
           /\ conn[r] # "closed" /\ subs'[r] = Effect(subs[r], Head(batch))
           /\ active' = r /\ batch' = Tail(batch)
           /\ inbox'[r] = inbox[r] /\ view'[r] = view[r]
  PROVE  Agrees(r)'
<1> SUFFICES ASSUME conn'[r] # "closed"
             PROVE  Leads(Own(r), subs'[r], Waiting(r)', view'[r])
  BY DEF Agrees
<1> DEFINE m == Head(batch)
           w == Tail(batch) \o inbox[r]
<1>1. m \in Message /\ w \in Seq(Message) /\ Waiting(r) = <<m>> \o w
  BY HeadWaits
<1>2. Leads(Own(r), subs[r], Waiting(r), view[r])
  BY DEF Agrees
<1>3. Waiting(r)' = w
  BY DEF Waiting
<1>4. subs'[r] = Effect(subs[r], m) /\ view'[r] = view[r]
  OBVIOUS
<1> HIDE DEF m, w
<1>5. Leads(Own(r), Effect(subs[r], m), w, view[r])
  BY <1>1, <1>2, LeadsOn
<1> QED
  BY <1>3, <1>4, <1>5

(* A client whose messages nobody handles.                                 *)
LEMMA AgreesElsewhere ==
  ASSUME NEW r \in Responders, Agrees(r), active # r, active' # r,
         inbox'[r] = inbox[r], view'[r] = view[r],
         conn'[r] # "closed" => conn[r] # "closed" /\ subs'[r] = subs[r]
  PROVE  Agrees(r)'
<1>1. Waiting(r)' = Waiting(r)
  BY DEF Waiting
<1> QED
  BY <1>1, AgreesStill

(* A dispatch closes clients and leaves the subscriptions of others alone. *)
LEMMA DispatchSubscriptions ==
  ASSUME NEW topic, NEW serial, NEW from, NEW closing,
         Dispatch(topic, serial, from, closing), NEW r \in Responders, conn'[r] # "closed"
  PROVE  conn[r] # "closed" /\ subs'[r] = subs[r] /\ r \notin closing
BY DEF Dispatch, CloseClients

LEMMA HandlersAgree ==
  ASSUME CallsUnambiguous, LifeInv, RoleInv, NEW q \in Responders, Handle(q),
         NEW r \in Responders, Agrees(r)
  PROVE  Agrees(r)'
<1> DEFINE m == Head(batch)
<1>1. TypeOK /\ active \in {q, NoResponder} /\ NoResponder \notin Responders
  BY ServerAssumption
     DEF LifeInv, Handle, HandleData, HandleRefused, HandleSubscribe, HandleUnsubscribe,
         HandleSystem, HandleFailure, EndInput, Handling
<1>2. /\ inbox' = inbox /\ view' = view /\ active' \in {q, NoResponder}
  BY <1>1
     DEF Handle, HandleData, HandleRefused, HandleSubscribe, HandleUnsubscribe,
         HandleSystem, HandleFailure, CloseClient, EndInput, Handling, peerVars, historyVars
<1>3. CASE HandleData(q)
  <2>1. PICK closing : /\ Dispatch(m.topic, lastSerial + 1, q, closing)
                       /\ \/ active' = q /\ batch' = Tail(batch)
                          \/ q \in closing
    BY <1>3 DEF HandleData
  <2>2. conn'[r] # "closed" =>
          conn[r] # "closed" /\ subs'[r] = subs[r] /\ r \notin closing
    BY <2>1, DispatchSubscriptions
  <2>3. Handling(q) /\ Effect(subs[r], m) = subs[r]
    BY <1>3 DEF HandleData, Effect, IsSubscribe, IsUnsubscribe
  <2>4. CASE r = q
    BY <1>1, <1>2, <2>1, <2>2, <2>3, <2>4, AgreesHandled
  <2>5. CASE r # q
    BY <1>1, <1>2, <2>2, <2>5, AgreesElsewhere
  <2> QED
    BY <2>4, <2>5
<1>4. ASSUME Handling(q), conn' = conn, active' = q, batch' = Tail(batch),
             subs' = [subs EXCEPT ![q] = Effect(@, m)]
      PROVE  Agrees(r)'
  <2>1. subs'[q] = Effect(subs[q], m) /\ (r # q => subs'[r] = subs[r])
    BY <1>1, <1>4 DEF TypeOK
  <2>2. CASE r = q
    BY <1>1, <1>2, <1>4, <2>1, <2>2, AgreesHandled
  <2>3. CASE r # q
    BY <1>1, <1>2, <1>4, <2>1, <2>3, AgreesElsewhere
  <2> QED
    BY <2>2, <2>3
<1>5. CASE HandleRefused(q) \/ HandleSystem(q)
  <2>1. \A v : Effect(v, m) = v
    BY <1>5 DEF HandleRefused, HandleSystem, Effect, IsSubscribe, IsUnsubscribe
  <2>2. subs' = [subs EXCEPT ![q] = Effect(@, m)]
    BY <1>1, <1>5, <2>1 DEF HandleRefused, HandleSystem, TypeOK
  <2> QED
    BY <1>4, <1>5, <2>2 DEF HandleRefused, HandleSystem, Handling
<1>6. CASE HandleSubscribe(q)
  <2>1. subs' = [subs EXCEPT ![q] = Effect(@, m)]
    BY <1>6 DEF HandleSubscribe, Effect, Named
  <2> QED
    BY <1>4, <1>6, <2>1 DEF HandleSubscribe, Handling
<1>7. CASE HandleUnsubscribe(q)
  <2>1. Handling(q) /\ conn' = conn /\ active' = q /\ batch' = Tail(batch)
    BY <1>7 DEF HandleUnsubscribe, Handling
  <2>2. m \in Sendable(q)
    BY <2>1, HeadSendable
  <2>3. CASE r = q /\ conn[r] # "closed"
    <3>1. Leads(Own(r), subs[r], Waiting(r), view[r])
      BY <2>3 DEF Agrees
    <3>2. PICK h \in [0..Len(Waiting(r)) -> Seq(Own(r))] :
            LeadsBy(h, subs[r], Waiting(r), view[r])
      BY <3>1 DEF Leads
    <3>3. 0 \in 0..Len(Waiting(r))
      BY <1>1, LeftIsWhole
    <3>4. subs[q] \in Seq(Own(q))
      BY <2>3, <3>2, <3>3 DEF LeadsBy
    <3>5. subs' = [subs EXCEPT ![q] = Effect(@, m)]
      BY <1>1, <1>7, <2>2, <3>4, UnsubscribeIsEffect
    <3> QED
      BY <1>4, <2>1, <3>5
  <2>4. CASE r = q /\ conn[r] = "closed"
    BY <2>1, <2>4 DEF Agrees
  <2>5. CASE r # q
    <3>1. subs'[r] = subs[r]
      BY <1>1, <1>7, <2>5 DEF HandleUnsubscribe, TypeOK
    <3> QED
      BY <1>1, <1>2, <2>1, <2>5, <3>1, AgreesElsewhere
  <2> QED
    BY <2>3, <2>4, <2>5
<1>8. CASE HandleFailure(q)
  <2>1. conn'[q] = "closed" /\ (r # q => conn'[r] = conn[r] /\ subs'[r] = subs[r])
    BY <1>8 DEF HandleFailure, CloseClient, CloseClients
  <2>2. CASE r = q
    BY <2>1, <2>2, AgreesStill
  <2>3. CASE r # q
    BY <1>1, <1>2, <2>1, <2>3, AgreesElsewhere
  <2> QED
    BY <2>2, <2>3
<1>9. CASE EndInput(q)
  <2>1. Waiting(r)' = Waiting(r)
    BY <1>1, <1>9 DEF EndInput, Waiting, peerVars
  <2> QED
    BY <1>2, <1>9, <2>1, AgreesStill DEF EndInput
<1> QED
  BY <1>3, <1>5, <1>6, <1>7, <1>8, <1>9 DEF Handle

LEMMA StepsAgree ==
  ASSUME CallsUnambiguous, LifeInv, RoleInv, [Next]_vars,
         NEW r \in Responders, Agrees(r)
  PROVE  Agrees(r)'
<1> USE DEF serverVars, peerVars, historyVars
<1>1. TypeOK /\ NoResponder \notin Responders
  BY ServerAssumption DEF LifeInv
<1>2. ASSUME UNCHANGED <<subs, view, inbox, active, batch>>,
             conn'[r] # "closed" => conn[r] # "closed"
      PROVE  Agrees(r)'
  <2>1. Waiting(r)' = Waiting(r)
    BY <1>2 DEF Waiting
  <2> QED
    BY <1>2, <2>1, AgreesStill
<1>3. ASSUME NEW q \in Responders, PeerCloses(q) \/ PeerResets(q) \/ Accept(q)
      PROVE  Agrees(r)'
  <2>1. conn'[r] # "closed" => conn[r] # "closed"
    BY <1>1, <1>3 DEF PeerCloses, PeerResets, Accept, TypeOK
  <2> QED
    BY <1>2, <1>3, <2>1 DEF PeerCloses, PeerResets, Accept
<1>4. ASSUME NEW q \in Responders, NEW k \in 1..Len(obuf[q]), OnOutput(q, k)
      PROVE  Agrees(r)'
  BY <1>2, <1>4 DEF OnOutput
<1>5. ASSUME NEW q \in Responders, NEW c \in Calls[q], PeerCall(q, c)
      PROVE  Agrees(r)'
  <2>1. CASE r = q
    BY <1>1, <1>5, <2>1, AgreesMore
  <2>2. CASE r # q
    <3>1. inbox'[r] = inbox[r] /\ view'[r] = view[r]
      BY <1>1, <1>5, <2>2 DEF PeerCall, TypeOK
    <3>2. UNCHANGED <<conn, subs, active, batch>>
      BY <1>5 DEF PeerCall
    <3>3. Waiting(r)' = Waiting(r)
      BY <3>1, <3>2 DEF Waiting
    <3> QED
      BY <3>1, <3>2, <3>3, AgreesStill
  <2> QED
    BY <2>1, <2>2
<1>6. ASSUME NEW q \in Responders, NEW n \in 1..Len(inbox[q]), OnInput(q, n)
      PROVE  Agrees(r)'
  <2>1. Waiting(r)' = Waiting(r)
    BY <1>1, <1>6, InputWaits
  <2> QED
    BY <1>6, <2>1, AgreesStill DEF OnInput
<1>7. ASSUME NEW q \in Responders, OnInputEnd(q) \/ OnOutputError(q)
      PROVE  Agrees(r)'
  <2>1. /\ conn'[q] = "closed" /\ (r # q => conn'[r] = conn[r] /\ subs'[r] = subs[r])
        /\ active = NoResponder /\ active' = NoResponder /\ UNCHANGED <<inbox, view>>
    BY <1>7 DEF OnInputEnd, OnOutputError, CloseClient, CloseClients, Idle
  <2>2. CASE r = q
    BY <2>1, <2>2, AgreesStill
  <2>3. CASE r # q
    BY <1>1, <2>1, <2>3, AgreesElsewhere
  <2> QED
    BY <2>2, <2>3
<1>8. ASSUME NEW topic \in AppTopics, AppSend(topic)
      PROVE  Agrees(r)'
  <2>1. PICK closing : Dispatch(topic, 0, NoResponder, closing)
    BY <1>8 DEF AppSend
  <2>2. conn'[r] # "closed" => conn[r] # "closed" /\ subs'[r] = subs[r]
    BY <2>1, DispatchSubscriptions
  <2>3. Waiting(r)' = Waiting(r) /\ view' = view
    BY <1>8 DEF AppSend, Waiting
  <2> QED
    BY <2>2, <2>3, AgreesStill
<1> QED
  BY <1>2, <1>3, <1>4, <1>5, <1>6, <1>7, <1>8, HandlersAgree DEF Next, vars

(* A client whose calls are unambiguous is subscribed to exactly what it   *)
(* has asked for once the server has handled its messages, whatever is     *)
(* dispatched and whoever is closed in between.                            *)
THEOREM SubscribesAsCalled ==
  ASSUME CallsUnambiguous
  PROVE  Spec => []SubscriptionAgreement
<1>1. Init => AgreeInv
  <2> SUFFICES ASSUME Init, NEW r \in Responders
               PROVE  Leads(Own(r), subs[r], Waiting(r), view[r])
    BY DEF AgreeInv, Agrees
  <2>1. subs[r] = <<>> /\ view[r] = <<>>
    BY DEF Init
  <2>2. Waiting(r) = <<>>
    BY ServerAssumption DEF Init, Waiting
  <2>3. <<>> \in Seq(Own(r))
    OBVIOUS
  <2>4. Leads(Own(r), <<>>, <<>>, <<>>)
    BY <2>3, LeadsNowhere, Zenon
  <2> QED
    BY <2>1, <2>2, <2>4
<1>2. LifeInv /\ RoleInv /\ AgreeInv /\ [Next]_vars => AgreeInv'
  BY StepsAgree DEF AgreeInv, Agrees
<1>3. AgreeInv => SubscriptionAgreement
  <2> SUFFICES ASSUME AgreeInv, NEW r \in Responders,
                      conn[r] = "open", active # r, inbox[r] = <<>>
               PROVE  subs[r] = view[r]
    BY DEF SubscriptionAgreement, IsSubscribed
  <2>1. Waiting(r) = <<>>
    BY ConcatEmptySeq DEF Waiting
  <2>2. Leads(Own(r), subs[r], Waiting(r), view[r])
    BY DEF AgreeInv, Agrees
  <2> QED
    BY <2>1, <2>2, LeadsNowhere
<1> QED
  BY <1>1, <1>2, <1>3, LifeInvariant, RoleInvariant, PTL DEF Spec

=============================================================================
