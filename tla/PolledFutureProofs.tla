--------------------------- MODULE PolledFutureProofs ------------------------
(****************************************************************************)
(* What a procedure can be pending on. The stream of a subscription: the    *)
(* guest releases what it subscribed to and implements NotificationStream,  *)
(* for any set of streams and number of messages. Futures of its own: their *)
(* calls run one after the other, for every number of futures, calls,       *)
(* sleeps and yields.                                                       *)
(****************************************************************************)
EXTENDS SubscriptionStream, JoinedCalls, TLAPS

------------------------------------------------------------------------------
(* Subscription streams.                                                    *)

\* What the host queues are the last messages published, in order.
QueueInv ==
  \A s \in Streams :
    /\ Len(queue[s]) <= published[s]
    /\ \A k \in 1..Len(queue[s]) : queue[s][k].number = published[s] - Len(queue[s]) + k

\* What was yielded was published and is not queued any more.
GotInv ==
  \A s \in Streams :
    got[s] # <<>> => got[s][Len(got[s])] <= published[s] - Len(queue[s])

\* Until None was answered, nothing but the queue is missing.
NothingMissing ==
  \A s \in Streams :
    (handle[s] = "held" /\ ~ended[s]) =>
      Service!LastReceived(s) = published[s] - Len(queue[s])

\* A stream that is not opened has no past, and recv is called on streams held.
LifeInv ==
  /\ \A s \in Streams :
       handle[s] = "none" => published[s] = 0 /\ queue[s] = <<>> /\ got[s] = <<>>
  /\ \A s \in blocked : handle[s] = "held"

IInv == TypeOK /\ NoOrphan /\ QueueInv /\ GotInv /\ NothingMissing /\ LifeInv

------------------------------------------------------------------------------

\* A message taken from a queue leaves the messages behind it.
LEMMA TailOfQueue ==
  ASSUME NEW S, NEW q \in Seq(S), q # <<>>
  PROVE  /\ Head(q) = q[1] /\ Head(q) \in S /\ Tail(q) \in Seq(S)
         /\ Len(Tail(q)) = Len(q) - 1 /\ Len(q) \in Nat \ {0}
         /\ \A k \in 1..Len(Tail(q)) : Tail(q)[k] = q[k + 1]
OBVIOUS

\* The last item of a sequence.
LEMMA LastIn ==
  ASSUME NEW S, NEW q \in Seq(S), q # <<>>
  PROVE  q[Len(q)] \in S
OBVIOUS

\* Nothing is opened, queued or yielded at first.
LEMMA InitIInv == Init => IInv
BY SubscriptionAssumption DEF SubscriptionAssumption, Init, IInv, TypeOK, NoOrphan, QueueInv,
   GotInv, NothingMissing, LifeInv, Service!LastReceived

\* A message published goes to the end of the queue.
LEMMA PublishKeeps ==
  ASSUME IInv, NEW s \in Streams, Publish(s)
  PROVE  IInv'
<1> USE SubscriptionAssumption DEF SubscriptionAssumption, IInv
<1>1. PICK body \in Bytes \ {"absent"} :
        /\ open[s] /\ published[s] < MaxMessages
        /\ published' = [published EXCEPT ![s] = @ + 1]
        /\ queue' = [queue EXCEPT ![s] = Append(@, [number |-> published[s] + 1, body |-> body])]
        /\ UNCHANGED <<guestVars, open, closed>>
  BY DEF Publish, TypeOK
<1> DEFINE message == [number |-> published[s] + 1, body |-> body]
<1>2. message \in Messages /\ published[s] \in Nat
  BY <1>1 DEF Messages, TypeOK
<1>3. /\ queue[s] \in Seq(Messages) /\ queue'[s] = Append(queue[s], message)
      /\ published'[s] = published[s] + 1
  BY <1>1 DEF TypeOK
<1>4. /\ Len(queue'[s]) = Len(queue[s]) + 1 /\ Len(queue[s]) \in Nat
      /\ queue'[s] \in Seq(Messages)
      /\ \A k \in 1..Len(queue[s]) : queue'[s][k] = queue[s][k]
      /\ queue'[s][Len(queue[s]) + 1] = message
  BY <1>2, <1>3
<1>5. \A t \in Streams \ {s} : queue'[t] = queue[t] /\ published'[t] = published[t]
  BY <1>1 DEF TypeOK
<1> HIDE DEF message
<1>6. TypeOK'
  <2>1. published' \in [Streams -> 0..MaxMessages]
    BY <1>1 DEF TypeOK
  <2>2. queue' \in [Streams -> Seq(Messages)]
    BY <1>1, <1>4, <1>5 DEF TypeOK
  <2> QED
    BY <1>1, <2>1, <2>2 DEF TypeOK, guestVars
<1>7. QueueInv'
  <2> SUFFICES ASSUME NEW t \in Streams
               PROVE  /\ Len(queue'[t]) <= published'[t]
                      /\ \A k \in 1..Len(queue'[t]) :
                           queue'[t][k].number = published'[t] - Len(queue'[t]) + k
      BY DEF QueueInv
  <2>1. CASE t # s
    BY <1>5, <2>1 DEF QueueInv
  <2>2. CASE t = s
    <3>1. message.number = published[s] + 1
      BY DEF message
    <3>2. Len(queue[s]) <= published[s]
          /\ \A k \in 1..Len(queue[s]) : queue[s][k].number = published[s] - Len(queue[s]) + k
      BY DEF QueueInv
    <3>3. ASSUME NEW k \in 1..Len(queue'[s])
          PROVE  queue'[s][k].number = published'[s] - Len(queue'[s]) + k
      <4>1. CASE k = Len(queue[s]) + 1
        BY <1>2, <1>3, <1>4, <3>1, <4>1
      <4>2. CASE k \in 1..Len(queue[s])
        BY <1>2, <1>3, <1>4, <3>2, <4>2
      <4> QED
        BY <1>4, <4>1, <4>2
    <3>4. Len(queue'[s]) <= published'[s]
      BY <1>2, <1>3, <1>4, <3>2
    <3> QED
      BY <2>2, <3>3, <3>4
  <2> QED
    BY <2>1, <2>2
<1>8. \A t \in Streams : published'[t] - Len(queue'[t]) = published[t] - Len(queue[t])
  <2>1. published'[s] - Len(queue'[s]) = published[s] - Len(queue[s])
    BY <1>2, <1>3, <1>4
  <2> QED
    BY <1>5, <2>1
<1>9. GotInv' /\ NothingMissing' /\ NoOrphan'
  BY <1>1, <1>8 DEF GotInv, NothingMissing, NoOrphan, guestVars, Service!LastReceived
<1>10. LifeInv'
  BY <1>1, <1>5 DEF LifeInv, NoOrphan, guestVars, TypeOK
<1> QED
  BY <1>6, <1>7, <1>9, <1>10

\* The last of a sequence to which an item was appended.
LEMMA LastOfAppend ==
  ASSUME NEW S, NEW q \in Seq(S), NEW e \in S
  PROVE  /\ Append(q, e) # <<>> /\ Append(q, e) \in Seq(S)
         /\ Append(q, e)[Len(Append(q, e))] = e
OBVIOUS

\* What taking the next message does to the queue of a stream.
LEMMA RecvTakesNext ==
  ASSUME IInv, NEW s \in Streams, RecvMessage(s)
  PROVE  /\ handle[s] = "held" /\ published[s] \in Nat
         /\ Head(queue[s]).number = published[s] - Len(queue[s]) + 1
         /\ Head(queue[s]).number \in 1..published[s]
         /\ Head(queue[s]).number \in 1..MaxMessages
         /\ queue'[s] = Tail(queue[s]) /\ queue'[s] \in Seq(Messages)
         /\ Len(queue[s]) \in Nat \ {0} /\ Len(queue'[s]) = Len(queue[s]) - 1
         /\ \A t \in Streams \ {s} : queue'[t] = queue[t]
<1> USE SubscriptionAssumption DEF SubscriptionAssumption, IInv
<1>1. s \in blocked /\ queue[s] # <<>> /\ queue' = [queue EXCEPT ![s] = Tail(@)]
  BY DEF RecvMessage
<1>2. queue[s] \in Seq(Messages) /\ published[s] \in 0..MaxMessages
  BY DEF TypeOK
<1>3. queue'[s] = Tail(queue[s]) /\ \A t \in Streams \ {s} : queue'[t] = queue[t]
  BY <1>1 DEF TypeOK
<1>4. /\ Head(queue[s]) = queue[s][1] /\ Head(queue[s]) \in Messages
      /\ Len(queue[s]) \in Nat \ {0} /\ Len(Tail(queue[s])) = Len(queue[s]) - 1
      /\ Tail(queue[s]) \in Seq(Messages)
  BY <1>1, <1>2, TailOfQueue
<1>5. queue[s][1].number = published[s] - Len(queue[s]) + 1 /\ Len(queue[s]) <= published[s]
  BY <1>4 DEF QueueInv
<1>6. handle[s] = "held"
  BY <1>1 DEF LifeInv
<1> QED
  BY <1>2, <1>3, <1>4, <1>5, <1>6

\* recv takes the next message, which becomes an item or a None.
LEMMA RecvKeeps ==
  ASSUME IInv, NEW s \in Streams, RecvMessage(s)
  PROVE  IInv'
<1> USE SubscriptionAssumption DEF SubscriptionAssumption, IInv
<1> DEFINE number == Head(queue[s]).number
<1>1. /\ handle[s] = "held" /\ published[s] \in Nat
      /\ number = published[s] - Len(queue[s]) + 1
      /\ number \in 1..MaxMessages
      /\ queue'[s] = Tail(queue[s]) /\ queue'[s] \in Seq(Messages)
      /\ Len(queue[s]) \in Nat \ {0} /\ Len(queue'[s]) = Len(queue[s]) - 1
      /\ \A t \in Streams \ {s} : queue'[t] = queue[t]
  BY RecvTakesNext
<1>2. /\ UNCHANGED <<handle, open, closed, published>> /\ blocked' = {}
      /\ \/ got' = [got EXCEPT ![s] = Append(@, number)] /\ UNCHANGED ended
         \/ got' = got /\ ended' = [ended EXCEPT ![s] = TRUE]
  BY DEF RecvMessage, NextMessage, Item, AfterError
<1> HIDE DEF number
<1>3. \A t \in Streams \ {s} : got'[t] = got[t] /\ ended'[t] = ended[t]
  BY <1>2 DEF TypeOK
<1>4. \/ /\ got'[s] = Append(got[s], number) /\ ended'[s] = ended[s]
         /\ got'[s] # <<>> /\ got'[s][Len(got'[s])] = number
      \/ got'[s] = got[s] /\ ended'[s] = TRUE
  <2>1. CASE got' = [got EXCEPT ![s] = Append(@, number)] /\ UNCHANGED ended
    <3>1. got'[s] = Append(got[s], number) /\ got[s] \in Seq(1..MaxMessages)
      BY <2>1 DEF TypeOK
    <3>2. got'[s] # <<>> /\ got'[s][Len(got'[s])] = number
      BY <1>1, <3>1, LastOfAppend
    <3> QED
      BY <2>1, <3>1, <3>2
  <2>2. CASE got' = got /\ ended' = [ended EXCEPT ![s] = TRUE]
    BY <2>2 DEF TypeOK
  <2> QED
    BY <1>2, <2>1, <2>2
<1>5. TypeOK'
  <2>1. got' \in [Streams -> Seq(1..MaxMessages)] /\ ended' \in [Streams -> BOOLEAN]
    <3>1. got[s] \in Seq(1..MaxMessages) /\ got \in [Streams -> Seq(1..MaxMessages)]
      BY DEF TypeOK
    <3>2. Append(got[s], number) \in Seq(1..MaxMessages)
      BY <1>1, <3>1
    <3>3. got' \in [Streams -> Seq(1..MaxMessages)]
      BY <1>2, <3>1, <3>2
    <3>4. ended' \in [Streams -> BOOLEAN]
      BY <1>2 DEF TypeOK
    <3> QED
      BY <3>3, <3>4
  <2>2. queue' \in [Streams -> Seq(Messages)]
    BY <1>1 DEF RecvMessage, TypeOK
  <2> QED
    BY <1>2, <2>1, <2>2 DEF TypeOK
<1>6. QueueInv'
  <2>1. queue[s] \in Seq(Messages) /\ queue[s] # <<>>
    BY DEF TypeOK, RecvMessage
  <2>2. \A k \in 1..Len(queue'[s]) : queue'[s][k] = queue[s][k + 1]
    BY <1>1, <2>1, TailOfQueue
  <2>3. \A k \in 1..Len(queue'[s]) : queue'[s][k].number = published[s] - Len(queue'[s]) + k
    <3> SUFFICES ASSUME NEW k \in 1..Len(queue'[s])
                 PROVE  queue'[s][k].number = published[s] - Len(queue'[s]) + k
      OBVIOUS
    <3>1. k \in Nat /\ k + 1 \in 1..Len(queue[s])
      BY <1>1
    <3>2. queue[s][k + 1].number = published[s] - Len(queue[s]) + (k + 1)
      BY <3>1 DEF QueueInv
    <3>3. published[s] - Len(queue[s]) + (k + 1) = published[s] - Len(queue'[s]) + k
      BY <1>1, <3>1
    <3> QED
      BY <2>2, <3>2, <3>3
  <2>4. Len(queue'[s]) <= published[s]
    BY <1>1 DEF QueueInv
  <2> QED
    BY <1>1, <1>2, <2>3, <2>4 DEF QueueInv
<1>7. GotInv'
  <2>1. \A t \in Streams \ {s} :
          got'[t] # <<>> => got'[t][Len(got'[t])] <= published'[t] - Len(queue'[t])
    BY <1>1, <1>2, <1>3 DEF GotInv
  <2>2. got'[s] # <<>> => got'[s][Len(got'[s])] <= published'[s] - Len(queue'[s])
    <3>1. CASE got'[s] = got[s]
      <4>1. got[s] # <<>> => got[s][Len(got[s])] \in Nat
        BY DEF TypeOK
      <4>2. got[s] # <<>> => got[s][Len(got[s])] <= published[s] - Len(queue[s])
        BY DEF GotInv
      <4> QED
        BY <1>1, <1>2, <3>1, <4>1, <4>2
    <3>2. CASE got'[s] # <<>> /\ got'[s][Len(got'[s])] = number
      BY <1>1, <1>2, <3>2
    <3> QED
      BY <1>4, <3>1, <3>2
  <2> QED
    BY <2>1, <2>2 DEF GotInv
<1>8. NothingMissing'
  <2>1. \A t \in Streams \ {s} :
          (handle'[t] = "held" /\ ~ended'[t]) => Service!LastReceived(t)' = published'[t] - Len(queue'[t])
    BY <1>1, <1>2, <1>3 DEF NothingMissing, Service!LastReceived
  <2>2. ~ended'[s] => Service!LastReceived(s)' = published'[s] - Len(queue'[s])
    <3>1. ~ended'[s] => Service!LastReceived(s)' = number
      BY <1>4 DEF Service!LastReceived
    <3> QED
      BY <1>1, <1>2, <3>1
  <2> QED
    BY <2>1, <2>2 DEF NothingMissing
<1>9. NoOrphan' /\ LifeInv'
  BY <1>1, <1>2, <1>3 DEF NoOrphan, LifeInv
<1> QED
  BY <1>5, <1>6, <1>7, <1>8, <1>9

\* The steps that leave the items alone.
LEMMA QuietKeeps ==
  ASSUME IInv, NEW s \in Streams,
         Close(s) \/ Subscribe(s) \/ PollNext(s) \/ RecvError(s) \/ Drop(s)
  PROVE  IInv'
<1> USE SubscriptionAssumption DEF SubscriptionAssumption, IInv, hostVars, guestVars
<1>1. CASE Close(s)
  BY <1>1 DEF Close, TypeOK, NoOrphan, QueueInv, GotInv, NothingMissing, LifeInv, Service!LastReceived
<1>2. CASE Subscribe(s)
  <2>1. PICK created \in BOOLEAN :
          /\ handle[s] = "none" /\ blocked = {}
          /\ handle' = [handle EXCEPT ![s] = IF created THEN "held" ELSE "failed"]
          /\ open' = [open EXCEPT ![s] = created]
          /\ UNCHANGED <<blocked, got, ended, closed, queue, published>>
    BY <1>2 DEF Subscribe
  <2>2. TypeOK' /\ NoOrphan' /\ QueueInv' /\ GotInv' /\ LifeInv'
    BY <2>1 DEF TypeOK, NoOrphan, QueueInv, GotInv, LifeInv
  <2>3. published[s] = 0 /\ Len(queue[s]) = 0 /\ got[s] = <<>>
    BY <2>1 DEF LifeInv
  <2>4. NothingMissing'
    BY <2>1, <2>3 DEF NothingMissing, TypeOK, Service!LastReceived
  <2> QED
    BY <2>2, <2>4
<1>3. CASE PollNext(s)
  BY <1>3 DEF PollNext, TypeOK, NoOrphan, QueueInv, GotInv, NothingMissing, LifeInv, Service!LastReceived
<1>4. CASE RecvError(s)
  BY <1>4 DEF RecvError, AfterError, TypeOK, NoOrphan, QueueInv, GotInv, NothingMissing, LifeInv,
     Service!LastReceived
<1>5. CASE Drop(s)
  <2>1. /\ handle[s] = "held" /\ blocked = {}
        /\ handle' = [handle EXCEPT ![s] = "dropped"] /\ open' = [open EXCEPT ![s] = FALSE]
        /\ queue' = [queue EXCEPT ![s] = <<>>]
        /\ UNCHANGED <<blocked, got, ended, closed, published>>
    BY <1>5 DEF Drop, CancelOnDrop
  <2>2. queue'[s] = <<>> /\ Len(queue'[s]) = 0 /\ \A t \in Streams \ {s} : queue'[t] = queue[t]
    BY <2>1 DEF TypeOK
  <2>3. TypeOK' /\ NoOrphan' /\ LifeInv'
    BY <2>1, <2>2 DEF TypeOK, NoOrphan, LifeInv
  <2>4. QueueInv'
    BY <2>1, <2>2 DEF QueueInv, TypeOK
  <2>5. GotInv'
    <3>1. got[s] # <<>> => got[s][Len(got[s])] <= published[s]
      <4>1. got[s] # <<>> => got[s][Len(got[s])] \in Nat /\ got[s][Len(got[s])] <= published[s] - Len(queue[s])
        BY DEF GotInv, TypeOK
      <4>2. Len(queue[s]) \in Nat /\ published[s] \in Nat
        BY DEF TypeOK
      <4> QED
        BY <4>1, <4>2
    <3>2. published[s] \in Nat
      BY DEF TypeOK
    <3> QED
      BY <2>1, <2>2, <3>1, <3>2 DEF GotInv
  <2>6. NothingMissing'
    BY <2>1, <2>2 DEF NothingMissing, TypeOK, Service!LastReceived
  <2> QED
    BY <2>3, <2>4, <2>5, <2>6
<1> QED
  BY <1>1, <1>2, <1>3, <1>4, <1>5

\* The inductive invariant holds in every state.
THEOREM Invariance == Spec => []IInv
<1>1. ASSUME IInv, [Next]_vars PROVE IInv'
  <2>1. CASE UNCHANGED vars
    BY <1>1, <2>1 DEF vars, guestVars, hostVars, IInv, TypeOK, NoOrphan, QueueInv, GotInv,
       NothingMissing, LifeInv, Service!LastReceived
  <2>2. CASE Next
    BY <1>1, <2>2, PublishKeeps, RecvKeeps, QuietKeeps DEF Next
  <2> QED
    BY <1>1, <2>1, <2>2
<1> QED
  BY <1>1, InitIInv, PTL DEF Spec

\* Every variable keeps its type.
THEOREM TypeCorrect == Spec => []TypeOK
BY Invariance, PTL DEF IInv

\* The host holds a subscription exactly while the guest owns the stream.
THEOREM ReleasedByOwner == Spec => []NoOrphan
BY Invariance, PTL DEF IInv

------------------------------------------------------------------------------

\* A step of the guest or the host is a step of the abstract streams, or none.
LEMMA StepRefines ==
  ASSUME IInv, NEW s \in Streams,
         \/ Publish(s) \/ Close(s) \/ Subscribe(s) \/ PollNext(s)
         \/ RecvMessage(s) \/ RecvError(s) \/ Drop(s)
  PROVE  Service!StreamNext \/ UNCHANGED <<phaseOf, open, published, got, ended>>
<1> USE DEF IInv, hostVars, guestVars
<1>0. phaseOf[s] = IF handle[s] = "none" THEN "unopened" ELSE IF handle[s] = "held" THEN "open" ELSE "over"
  BY DEF phaseOf
<1>1. CASE Publish(s)
  <2>1. handle[s] = "held" /\ UNCHANGED <<handle, open, got, ended>>
        /\ published' = [published EXCEPT ![s] = @ + 1]
    BY <1>1 DEF Publish, NoOrphan
  <2> QED
    BY <1>0, <2>1 DEF Service!StreamNext, Service!Send, phaseOf
<1>2. CASE Close(s) \/ PollNext(s)
  BY <1>2 DEF Close, PollNext, phaseOf
<1>3. CASE Subscribe(s)
  <2>1. PICK next \in {"open", "over"} :
          /\ handle[s] = "none"
          /\ handle' = [handle EXCEPT ![s] = IF next = "open" THEN "held" ELSE "failed"]
          /\ open' = [open EXCEPT ![s] = next = "open"]
          /\ UNCHANGED <<published, got, ended>>
    <3>1. PICK reply \in HostReply :
            LET created == call_rpc(reply, Bytes, JsonValue) = "Ok" IN
            /\ handle' = [handle EXCEPT ![s] = IF created THEN "held" ELSE "failed"]
            /\ open' = [open EXCEPT ![s] = created]
      BY <1>3 DEF Subscribe
    <3>2. CASE call_rpc(reply, Bytes, JsonValue) = "Ok"
      BY <1>3, <3>1, <3>2 DEF Subscribe
    <3>3. CASE call_rpc(reply, Bytes, JsonValue) # "Ok"
      BY <1>3, <3>1, <3>3 DEF Subscribe
    <3> QED
      BY <3>2, <3>3
  <2>2. phaseOf' = [phaseOf EXCEPT ![s] = next]
    BY <2>1 DEF phaseOf, TypeOK
  <2> QED
    BY <1>0, <2>1, <2>2 DEF Service!StreamNext, Service!Open
<1>4. CASE RecvMessage(s)
  <2> DEFINE number == Head(queue[s]).number
  <2>1. /\ handle[s] = "held" /\ published[s] \in Nat
        /\ number = published[s] - Len(queue[s]) + 1 /\ number \in 1..published[s]
        /\ Len(queue[s]) \in Nat \ {0}
    BY <1>4, RecvTakesNext
  <2>2. /\ UNCHANGED <<handle, open, published>>
        /\ \/ got' = [got EXCEPT ![s] = Append(@, number)] /\ UNCHANGED ended
           \/ got' = got /\ ended' = [ended EXCEPT ![s] = TRUE]
    BY <1>4 DEF RecvMessage, NextMessage, Item, AfterError
  <2> HIDE DEF number
  <2>3. UNCHANGED phaseOf /\ phaseOf[s] = "open"
    BY <1>0, <2>1, <2>2 DEF phaseOf
  <2>4. CASE got' = got /\ ended' = [ended EXCEPT ![s] = TRUE]
    BY <2>2, <2>3, <2>4 DEF Service!StreamNext, Service!End
  <2>5. CASE got' = [got EXCEPT ![s] = Append(@, number)] /\ UNCHANGED ended
    <3>1. Service!LastReceived(s) \in Nat /\ Service!LastReceived(s) <= published[s] - Len(queue[s])
      <4>1. got[s] \in Seq(1..MaxMessages) /\ Len(queue[s]) <= published[s]
        BY DEF TypeOK, QueueInv
      <4>2. CASE got[s] = <<>>
        BY <2>1, <4>1, <4>2 DEF Service!LastReceived
      <4>3. CASE got[s] # <<>>
        <5>1. got[s][Len(got[s])] \in 1..MaxMessages
          BY <4>1, <4>3, LastIn
        <5>2. got[s][Len(got[s])] <= published[s] - Len(queue[s])
          BY <4>3 DEF GotInv
        <5> QED
          <6>1. Service!LastReceived(s) = got[s][Len(got[s])]
            BY <4>3 DEF Service!LastReceived
          <6> QED
            BY <5>1, <5>2, <6>1
      <4> QED
        BY <4>2, <4>3
    <3>2. ~ended[s] => number = Service!LastReceived(s) + 1
      BY <2>1 DEF NothingMissing
    <3>3. number \in (Service!LastReceived(s) + 1)..published[s]
      BY <2>1, <3>1
    <3>4. ended[s] \/ number = Service!LastReceived(s) + 1
      BY <3>2
    <3>5. Service!Deliver(s)
      BY <2>2, <2>3, <2>5, <3>3, <3>4 DEF Service!Deliver
    <3> QED
      BY <3>5 DEF Service!StreamNext
  <2> QED
    BY <2>2, <2>4, <2>5
<1>5. CASE RecvError(s)
  <2>1. handle[s] = "held" /\ ended' = [ended EXCEPT ![s] = TRUE]
        /\ UNCHANGED <<handle, open, published, got>>
    BY <1>5 DEF RecvError, AfterError, LifeInv
  <2> QED
    BY <1>0, <2>1 DEF Service!StreamNext, Service!End, phaseOf
<1>6. CASE Drop(s)
  <2>1. /\ handle[s] = "held" /\ handle' = [handle EXCEPT ![s] = "dropped"]
        /\ open' = [open EXCEPT ![s] = FALSE] /\ UNCHANGED <<published, got, ended>>
    BY <1>6 DEF Drop, CancelOnDrop
  <2>2. phaseOf' = [phaseOf EXCEPT ![s] = "over"]
    BY <2>1 DEF phaseOf, TypeOK
  <2> QED
    BY <1>0, <2>1, <2>2 DEF Service!StreamNext, Service!Release
<1> QED
  BY <1>1, <1>2, <1>3, <1>4, <1>5, <1>6

\* The guest implements the abstract streams.
THEOREM Refinement == Spec => ImplementsStreams
<1>1. Init => Service!StreamInit
  BY DEF Init, Service!StreamInit, phaseOf
<1>2. ASSUME IInv, [Next]_vars
      PROVE  [Service!StreamNext]_(Service!streamVars)
  <2>1. CASE UNCHANGED vars
    BY <2>1 DEF vars, guestVars, hostVars, Service!streamVars, phaseOf
  <2>2. CASE Next
    BY <1>2, <2>2, StepRefines DEF Next, Service!streamVars
  <2> QED
    BY <1>2, <2>1, <2>2
<1> QED
  BY <1>1, <1>2, Invariance, PTL DEF Spec, ImplementsStreams, Service!StreamSpec

------------------------------------------------------------------------------
(* Futures in a join or a select.                                           *)

\* Only the future that is being polled can be in a call; its clock counts its own
\* sleeps, of which there are no more than the bound.
CallInv ==
  \A i \in Futures : at[i] # "between" =>
    /\ polled = i /\ state[i] = "running"
    /\ elapsed[i] = slept[i]
    /\ at[i] = "sleep" => slept[i] < MaxSleeps

JoinInv == JoinTypeOK /\ CallInv

LEMMA JoinInitInv == JoinInit => JoinInv
<1> SUFFICES ASSUME JoinInit PROVE JoinInv
    OBVIOUS
<1> USE JoinedCallsAssumption DEF JoinedCallsAssumption, JoinInit, Futures
<1>1. done \in BOOLEAN
  OBVIOUS
<1>2. polled \in 0..(Children + 1) /\ combinator \in {"join", "select"}
  OBVIOUS
<1>3. /\ state \in [Futures -> {"running", "ready", "dropped"}]
      /\ at \in [Futures -> {"between", "request", "sleep"}]
      /\ calls \in [Futures -> 0..MaxCalls] /\ yields \in [Futures -> 0..MaxYields]
      /\ slept \in [Futures -> 0..MaxSleeps] /\ elapsed \in [Futures -> Nat]
  OBVIOUS
<1> QED
  BY <1>1, <1>2, <1>3 DEF JoinInv, JoinTypeOK, CallInv

\* What the executor and the combinator do between two futures.
LEMMA PollStep == JoinInv /\ (Poll \/ Skip \/ EndOfPoll) => JoinInv'
<1> SUFFICES ASSUME JoinInv, Poll \/ Skip \/ EndOfPoll PROVE JoinInv'
    OBVIOUS
<1> USE JoinedCallsAssumption DEF JoinedCallsAssumption, Futures, pollVars
<1>1. /\ UNCHANGED pollVars
      /\ polled' \in 0..(Children + 1) /\ done' \in BOOLEAN
  <2>1. UNCHANGED pollVars /\ done' \in BOOLEAN
    BY DEF Poll, Skip, EndOfPoll, JoinInv, JoinTypeOK
  <2>2. polled' \in 0..(Children + 1)
    <3>1. polled \in 0..(Children + 1)
      BY DEF JoinInv, JoinTypeOK
    <3>2. CASE Poll
      BY <3>2 DEF Poll
    <3>3. CASE Skip
      BY <3>1, <3>3 DEF Skip
    <3>4. CASE EndOfPoll
      BY <3>1, <3>4 DEF EndOfPoll, AfterPending
    <3> QED
      BY <3>2, <3>3, <3>4
  <2> QED
    BY <2>1, <2>2
<1>2. \A i \in Futures : at[i] = "between"
  <2>1. SUFFICES ASSUME NEW i \in Futures, at[i] # "between" PROVE FALSE
    OBVIOUS
  <2>2. polled = i /\ state[i] = "running"
    BY <2>1 DEF JoinInv, CallInv
  <2> QED
    BY <2>2 DEF Poll, Skip, EndOfPoll
<1>3. JoinTypeOK'
  BY <1>1 DEF JoinInv, JoinTypeOK
<1>4. CallInv'
  BY <1>1, <1>2 DEF CallInv
<1> QED
  BY <1>3, <1>4 DEF JoinInv

\* What a future does when it is polled.
LEMMA FutureStep ==
  ASSUME NEW i \in Futures, JoinInv, ~done,
         Yield(i) \/ StartCall(i) \/ Request(i) \/ Sleep(i) \/ Finish(i)
  PROVE  JoinInv'
<1> USE JoinedCallsAssumption DEF JoinedCallsAssumption, Futures, Running
<1>0. \A j \in Futures : j # i => at[j] = "between"
  BY DEF JoinInv, CallInv, Yield, StartCall, Request, Sleep, Finish
<1>1. CASE Yield(i)
  <2>1. JoinTypeOK'
    <3>1. yields' \in [Futures -> 0..MaxYields]
      <4>1. /\ yields \in [Futures -> 0..MaxYields] /\ yields[i] < MaxYields
            /\ yields' = [yields EXCEPT ![i] = @ + 1]
        BY <1>1 DEF Yield, JoinInv, JoinTypeOK
      <4> QED
        BY <4>1
    <3>2. polled' \in 0..(Children + 1)
      BY <1>1 DEF Yield, Pending
    <3> QED
      BY <1>1, <3>1, <3>2 DEF Yield, JoinInv, JoinTypeOK
  <2>2. CallInv'
    BY <1>0, <1>1 DEF Yield, CallInv
  <2> QED
    BY <2>1, <2>2 DEF JoinInv
<1>2. CASE StartCall(i)
  <2>1. JoinTypeOK'
    <3>1. calls' \in [Futures -> 0..MaxCalls]
      <4>1. /\ calls \in [Futures -> 0..MaxCalls] /\ calls[i] < MaxCalls
            /\ calls' = [calls EXCEPT ![i] = @ + 1]
        BY <1>2 DEF StartCall, JoinInv, JoinTypeOK
      <4> QED
        BY <4>1
    <3>2. slept' \in [Futures -> 0..MaxSleeps] /\ elapsed' \in [Futures -> Nat]
      <4>1. /\ slept \in [Futures -> 0..MaxSleeps] /\ elapsed \in [Futures -> Nat]
            /\ slept' = [slept EXCEPT ![i] = 0] /\ elapsed' = [elapsed EXCEPT ![i] = 0]
        BY <1>2 DEF StartCall, JoinInv, JoinTypeOK
      <4> QED
        BY <4>1
    <3> QED
      BY <1>2, <3>1, <3>2 DEF StartCall, JoinInv, JoinTypeOK
  <2>2. CallInv'
    BY <1>0, <1>2 DEF StartCall, CallInv, JoinInv, JoinTypeOK
  <2> QED
    BY <2>1, <2>2 DEF JoinInv
<1>3. CASE Request(i)
  <2>1. JoinTypeOK'
    BY <1>3 DEF Request, AfterRequest, JoinInv, JoinTypeOK
  <2>2. CallInv'
    BY <1>0, <1>3 DEF Request, AfterRequest, CallInv, JoinInv, JoinTypeOK
  <2> QED
    BY <2>1, <2>2 DEF JoinInv
<1>4. CASE Sleep(i)
  <2>1. slept[i] < MaxSleeps /\ elapsed[i] = slept[i]
    BY <1>4 DEF Sleep, JoinInv, CallInv
  <2>2. elapsed'[i] = slept'[i]
    BY <1>4, <2>1 DEF Sleep, JoinInv, JoinTypeOK
  <2>3. JoinTypeOK'
    <3>1. slept' \in [Futures -> 0..MaxSleeps]
      <4>1. /\ slept \in [Futures -> 0..MaxSleeps]
            /\ slept' = [slept EXCEPT ![i] = @ + 1]
        BY <1>4 DEF Sleep, JoinInv, JoinTypeOK
      <4> QED
        BY <2>1, <4>1
    <3>2. elapsed' \in [Futures -> Nat]
      <4>1. /\ elapsed \in [Futures -> Nat]
            /\ elapsed' = [j \in Futures |->
                 IF state[j] = "running" /\ at[j] # "between" THEN elapsed[j] + 1 ELSE elapsed[j]]
        BY <1>4 DEF Sleep, JoinInv, JoinTypeOK
      <4> QED
        BY <4>1
    <3> QED
      BY <1>4, <3>1, <3>2 DEF Sleep, AfterSleep, JoinInv, JoinTypeOK
  <2>4. CallInv'
    BY <1>0, <1>4, <2>2 DEF Sleep, AfterSleep, CallInv, JoinInv, JoinTypeOK
  <2> QED
    BY <2>3, <2>4 DEF JoinInv
<1>5. CASE Finish(i)
  <2>1. \A j \in Futures : at'[j] = "between"
    BY <1>0, <1>5 DEF Finish
  <2>2. state' \in [Futures -> {"running", "ready", "dropped"}]
    BY <1>5 DEF Finish, JoinInv, JoinTypeOK
  <2>3. polled' \in 0..(Children + 1) /\ done' \in BOOLEAN
    <3>1. done' \in BOOLEAN
      BY <1>5 DEF Finish, JoinInv, JoinTypeOK
    <3>2. polled' \in 0..(Children + 1)
      <4>1. polled' \in {polled, i + 1}
        BY <1>5 DEF Finish
      <4>2. polled \in 0..(Children + 1)
        BY DEF JoinInv, JoinTypeOK
      <4> QED
        BY <4>1, <4>2
    <3> QED
      BY <3>1, <3>2
  <2>4. JoinTypeOK'
    BY <1>5, <2>2, <2>3 DEF Finish, JoinInv, JoinTypeOK
  <2>5. CallInv'
    BY <2>1 DEF CallInv
  <2> QED
    BY <2>4, <2>5 DEF JoinInv
<1> QED
  BY <1>1, <1>2, <1>3, <1>4, <1>5

LEMMA JoinInvariance == JoinSpec => []JoinInv
<1>1. JoinInv /\ JoinNext => JoinInv'
  BY PollStep, FutureStep DEF JoinNext, Guest
<1>2. JoinInv /\ UNCHANGED joinVars => JoinInv'
  BY DEF joinVars, JoinInv, JoinTypeOK, CallInv
<1> QED
  BY <1>1, <1>2, JoinInitInv, PTL DEF JoinSpec

\* Every variable keeps its type (lib.rs:11-28).
THEOREM JoinTypeCorrect == JoinSpec => []JoinTypeOK
BY JoinInvariance, PTL DEF JoinInv

\* The calls of a procedure never overlap and their clocks count no time but their
\* own, however many futures are joined: each call can be studied alone
\* (lib.rs:11-28, client.rs:35-37).
THEOREM CallsAreSequential == JoinSpec => []CallsDoNotOverlap
<1>1. JoinInv => CallsDoNotOverlap
  BY DEF JoinInv, CallInv, CallsDoNotOverlap, UnderWay
<1> QED
  BY <1>1, JoinInvariance, PTL

\* A call that was begun is never dropped before it returns (client.rs:35-37).
THEOREM CancellationIsSafe == JoinSpec => []NothingCancelledHalfway
<1>1. JoinInv => NothingCancelledHalfway
  BY DEF JoinInv, CallInv, NothingCancelledHalfway
<1> QED
  BY <1>1, JoinInvariance, PTL
==============================================================================
