-------------------------- MODULE NotificationStream -------------------------
(****************************************************************************)
(* What a subscription promises to the procedure that opened it             *)
(* (PubsubClientStream in src/rpc_client/pubsub.rs, the resource            *)
(* rpc-subscription in src/zela.wit), for each of several streams: the      *)
(* items it yields are what was sent, in order and without a gap, until it  *)
(* answers None; a gap can only be behind a None; and the host keeps a      *)
(* resource for a stream only while the procedure owns the stream.          *)
(****************************************************************************)
EXTENDS Naturals, Sequences

CONSTANT Streams

VARIABLES
  phase,       \* of each stream: "unopened", "open", "over"
  resource,    \* the host keeps something for it
  sent,        \* number of messages so far
  received,    \* items yielded, each the number of its message
  sawEnd       \* None was answered

streamVars == <<phase, resource, sent, received, sawEnd>>

StreamInit ==
  /\ phase = [s \in Streams |-> "unopened"]
  /\ resource = [s \in Streams |-> FALSE]
  /\ sent = [s \in Streams |-> 0]
  /\ received = [s \in Streams |-> <<>>]
  /\ sawEnd = [s \in Streams |-> FALSE]

\* Subscribing succeeds, or is over at once.
Open(s) ==
  /\ phase[s] = "unopened"
  /\ \E next \in {"open", "over"} :
       /\ phase' = [phase EXCEPT ![s] = next]
       /\ resource' = [resource EXCEPT ![s] = next = "open"]
  /\ UNCHANGED <<sent, received, sawEnd>>

Send(s) ==
  /\ phase[s] = "open"
  /\ sent' = [sent EXCEPT ![s] = @ + 1]
  /\ UNCHANGED <<phase, resource, received, sawEnd>>

LastReceived(s) == IF received[s] = <<>> THEN 0 ELSE received[s][Len(received[s])]

\* The next message, or, behind a None, some later one.
Deliver(s) ==
  /\ phase[s] = "open"
  /\ \E number \in (LastReceived(s) + 1)..sent[s] :
       /\ sawEnd[s] \/ number = LastReceived(s) + 1
       /\ received' = [received EXCEPT ![s] = Append(@, number)]
  /\ UNCHANGED <<phase, resource, sent, sawEnd>>

End(s) ==
  /\ phase[s] = "open"
  /\ sawEnd' = [sawEnd EXCEPT ![s] = TRUE]
  /\ UNCHANGED <<phase, resource, sent, received>>

Release(s) ==
  /\ phase[s] = "open"
  /\ phase' = [phase EXCEPT ![s] = "over"]
  /\ resource' = [resource EXCEPT ![s] = FALSE]
  /\ UNCHANGED <<sent, received, sawEnd>>

StreamNext == \E s \in Streams : Open(s) \/ Send(s) \/ Deliver(s) \/ End(s) \/ Release(s)

StreamSpec == StreamInit /\ [][StreamNext]_streamVars
==============================================================================
