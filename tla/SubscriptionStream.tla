-------------------------- MODULE SubscriptionStream -------------------------
(****************************************************************************)
(* Subscriptions: Subscription (src/lib.rs) over the host's rpc-subscription *)
(* resource, and PubsubClientStream (src/rpc_client/pubsub.rs) over that.   *)
(* poll_next blocks in recv, so a guest that reads several streams waits on *)
(* one of them at a time while the host queues messages for all.  A message *)
(* is its number in the stream.                                             *)
(****************************************************************************)
EXTENDS RpcCall, Naturals, Sequences

CONSTANTS
  Streams,
  MaxMessages    \* bound: messages the host publishes on a stream

ASSUME SubscriptionAssumption == MaxMessages \in Nat

VARIABLES
  handle,        \* guest: "none", "held", "failed" (never created) or "dropped"
  blocked,       \* guest: the set with the stream whose recv it is in, or {}
  got,           \* guest: items poll_next returned
  ended,         \* guest: poll_next returned None at some time
  open,          \* host: the subscription exists
  closed,        \* host: its connection is gone, no message comes any more
  queue,         \* host: messages not received yet
  published      \* host: number of messages so far

guestVars == <<handle, blocked, got, ended>>
hostVars == <<open, closed, queue, published>>
vars == <<guestVars, hostVars>>

Messages == [number : 1..MaxMessages, body : Bytes \ {"absent"}]

TypeOK ==
  /\ handle \in [Streams -> {"none", "held", "failed", "dropped"}]
  /\ blocked \in SUBSET Streams
  /\ got \in [Streams -> Seq(1..MaxMessages)]
  /\ ended \in [Streams -> BOOLEAN]
  /\ open \in [Streams -> BOOLEAN]
  /\ closed \in [Streams -> BOOLEAN]
  /\ queue \in [Streams -> Seq(Messages)]
  /\ published \in [Streams -> 0..MaxMessages]

Init ==
  /\ handle = [s \in Streams |-> "none"]
  /\ blocked = {}
  /\ got = [s \in Streams |-> <<>>]
  /\ ended = [s \in Streams |-> FALSE]
  /\ open = [s \in Streams |-> FALSE]
  /\ closed = [s \in Streams |-> FALSE]
  /\ queue = [s \in Streams |-> <<>>]
  /\ published = [s \in Streams |-> 0]

------------------------------------------------------------------------------
(* The host.                                                                *)

Publish(s) ==
  /\ open[s] /\ ~closed[s] /\ published[s] < MaxMessages
  /\ published' = [published EXCEPT ![s] = @ + 1]
  /\ \E body \in Bytes \ {"absent"} :
       queue' = [queue EXCEPT ![s] = Append(@, [number |-> published'[s], body |-> body])]
  /\ UNCHANGED <<guestVars, open, closed>>

\* The connection ends; what was queued is still received first.
Close(s) ==
  /\ open[s] /\ ~closed[s]
  /\ closed' = [closed EXCEPT ![s] = TRUE]
  /\ UNCHANGED <<guestVars, open, queue, published>>

------------------------------------------------------------------------------
(* The guest.                                                               *)

\* PubsubClient::subscribe: a handle comes only with Ok(Ok(_)), whose body is
\* not JSON; a failure is SubscribeFailed or Io, and leaves nothing behind.
Subscribe(s) ==
  /\ blocked = {} /\ handle[s] = "none"
  /\ \E reply \in HostReply :
       LET created == call_rpc(reply, Bytes, JsonValue) = "Ok" IN
       /\ handle' = [handle EXCEPT ![s] = IF created THEN "held" ELSE "failed"]
       /\ open' = [open EXCEPT ![s] = created]
  /\ UNCHANGED <<blocked, got, ended, closed, queue, published>>

\* poll_next calls recv, which blocks the whole guest.
PollNext(s) ==
  /\ blocked = {} /\ handle[s] = "held"
  /\ blocked' = {s}
  /\ UNCHANGED <<handle, got, ended, hostVars>>

\* Not the code: a message that does not decode is skipped.
AfterError_Skip(s) == UNCHANGED <<blocked, ended>>

\* poll_next answers None on every error of recv.
AfterError(s) == blocked' = {} /\ ended' = [ended EXCEPT ![s] = TRUE]

NextMessage(s) == Head(queue[s])

\* The item a message decodes to.
Item(message) == message.number

\* Subscription::recv returns the next message, and poll_next an item or None.
RecvMessage(s) ==
  /\ s \in blocked /\ queue[s] # <<>>
  /\ LET message == NextMessage(s) IN
     IF message.body = "typed"
     THEN /\ got' = [got EXCEPT ![s] = Append(@, Item(message))]
          /\ blocked' = {} /\ UNCHANGED ended
     ELSE AfterError(s) /\ UNCHANGED got
  /\ queue' = [queue EXCEPT ![s] = Tail(@)]
  /\ UNCHANGED <<handle, open, closed, published>>

\* recv fails with an errno: the host may give one at any time.
RecvError(s) ==
  /\ s \in blocked
  /\ AfterError(s)
  /\ UNCHANGED <<handle, got, hostVars>>

\* Not the code: the resource outlives its owner.
CancelOnDrop_Forget(s) == UNCHANGED <<open, queue>>

\* "This subscription is cancelled on drop."
CancelOnDrop(s) ==
  /\ open' = [open EXCEPT ![s] = FALSE]
  /\ queue' = [queue EXCEPT ![s] = <<>>]

\* The owner drops the stream, at its end or earlier.
Drop(s) ==
  /\ blocked = {} /\ handle[s] = "held"
  /\ handle' = [handle EXCEPT ![s] = "dropped"]
  /\ CancelOnDrop(s)
  /\ UNCHANGED <<blocked, got, ended, closed, published>>

Next ==
  \E s \in Streams :
    \/ Publish(s) \/ Close(s)
    \/ Subscribe(s) \/ PollNext(s) \/ RecvMessage(s) \/ RecvError(s) \/ Drop(s)

\* recv returns once there is a message, or the connection is gone ("Waits for the
\* next message").  Nothing makes a connection end, a message come or the procedure
\* poll or drop a stream.
Fairness ==
  \A s \in Streams : WF_vars(RecvMessage(s)) /\ WF_vars(closed[s] /\ RecvError(s))

Spec == Init /\ [][Next]_vars /\ Fairness

------------------------------------------------------------------------------
(* Properties.                                                              *)

\* What the procedure sees of its streams.
phaseOf ==
  [s \in Streams |-> IF handle[s] = "none" THEN "unopened"
                     ELSE IF handle[s] = "held" THEN "open" ELSE "over"]

Service == INSTANCE NotificationStream
  WITH phase <- phaseOf, resource <- open, sent <- published, received <- got, sawEnd <- ended

\* The guest implements the abstract streams: until a stream has answered None, its
\* items are the messages published, in order and without a gap (an undecodable
\* message is never passed over in silence, pubsub.rs:36-42); polled again after
\* None it may go on, with gaps, but never backwards and never twice.
ImplementsStreams == Service!StreamSpec

\* The host holds a subscription only for a stream the guest still owns, also
\* when subscribing failed half way.
NoOrphan == \A s \in Streams : open[s] <=> handle[s] = "held"

\* A stream holds up the guest, and with it every other stream, only while it is
\* quiet: a poll ends with the first message of any kind, also one that does not
\* decode, and with the end of the connection.  One that is quiet and open for ever
\* blocks the guest for ever (pubsub.rs:36-42).
HoldsUpOnlyWhileQuiet ==
  \A s \in Streams :
    (s \in blocked /\ (queue[s] # <<>> \/ closed[s])) ~> s \notin blocked
==============================================================================
