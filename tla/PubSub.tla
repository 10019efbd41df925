------------------------------- MODULE PubSub -------------------------------
(***************************************************************************)
(* What the tntpub server promises its clients, without messages, reads,   *)
(* writes and exceptions: a publication goes, in one step, to the outbox   *)
(* of every member interested in its topic, and a member that does not     *)
(* collect what it is sent is dropped.  Server.tla implements it.          *)
(***************************************************************************)
EXTENDS Naturals, Sequences

CONSTANTS
  Members,
  Topic,
  MsgSize, \* the units of a publication, by topic
  Limit    \* the units a member may leave uncollected, 0: any number

VARIABLES
  status,    \* "new", "open" or "closed"
  interest,  \* the topics a member wants
  outbox,    \* the units waiting for a member
  delivered, \* the units a member has collected
  count      \* the number of publications

vars == <<status, interest, outbox, delivered, count>>

Init ==
  /\ status = [m \in Members |-> "new"]
  /\ interest = [m \in Members |-> {}]
  /\ outbox = [m \in Members |-> <<>>]
  /\ delivered = [m \in Members |-> <<>>]
  /\ count = 0

Join(m) ==
  /\ status[m] = "new"
  /\ status' = [status EXCEPT ![m] = "open"]
  /\ UNCHANGED <<interest, outbox, delivered, count>>

Leave(m) ==
  /\ status[m] = "open"
  /\ status' = [status EXCEPT ![m] = "closed"]
  /\ interest' = [interest EXCEPT ![m] = {}]
  /\ outbox' = [outbox EXCEPT ![m] = <<>>]
  /\ UNCHANGED <<delivered, count>>

ChangeInterest(m) ==
  /\ status[m] = "open"
  /\ \E T \in SUBSET Topic : interest' = [interest EXCEPT ![m] = T]
  /\ UNCHANGED <<status, outbox, delivered, count>>

Audience(topic) ==
  {m \in Members : status[m] = "open" /\ topic \in interest[m]}

Overdue(topic) ==
  {m \in Audience(topic) :
     Limit # 0 /\ Len(outbox[m]) + MsgSize[topic] > Limit}

Publish(topic) ==
  /\ count' = count + 1
  /\ status' = [m \in Members |->
                  IF m \in Overdue(topic) THEN "closed" ELSE status[m]]
  /\ interest' = [m \in Members |->
                    IF m \in Overdue(topic) THEN {} ELSE interest[m]]
  /\ outbox' = [m \in Members |->
                  IF m \in Overdue(topic) THEN <<>>
                  ELSE IF m \in Audience(topic)
                    THEN outbox[m] \o [i \in 1..MsgSize[topic] |-> count']
                    ELSE outbox[m]]
  /\ UNCHANGED delivered

Collect(m, k) ==
  /\ status[m] = "open"
  /\ k \in 1..Len(outbox[m])
  /\ delivered' = [delivered EXCEPT ![m] = @ \o SubSeq(outbox[m], 1, k)]
  /\ outbox' = [outbox EXCEPT ![m] = SubSeq(@, k + 1, Len(@))]
  /\ UNCHANGED <<status, interest, count>>

Next ==
  \/ \E m \in Members :
       \/ Join(m)
       \/ Leave(m)
       \/ ChangeInterest(m)
       \/ \E k \in 1..Len(outbox[m]) : Collect(m, k)
  \/ \E topic \in Topic : Publish(topic)

Spec == Init /\ [][Next]_vars

=============================================================================
