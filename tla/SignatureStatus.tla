---------------------------- MODULE SignatureStatus --------------------------
(****************************************************************************)
(* Everything a procedure can ask about one signature without waiting for   *)
(* it: confirm_transaction*, get_signature_status*, get_signature_statuses* *)
(* (src/rpc_client/client.rs) and the notifications of signature_subscribe  *)
(* (src/rpc_client/pubsub.rs), called in any order and by one procedure     *)
(* after the other.  The node answers from a cache of recent statuses,      *)
(* which forgets, and from its history when asked to.                       *)
(****************************************************************************)
EXTENDS Ledger, RpcCall, Sequences

VARIABLES
  remembered,   \* node: the transaction, if it landed, is in the cache
  watch,        \* the signature subscription: at which commitment, whether a received
                \* notification is still due, whether the node still serves it
  notices,      \* notifications not received yet
  last,         \* the answer the procedure looks at
  told          \* history: verdicts given so far, with their commitment

vars == <<ledgerVars, remembered, watch, notices, last, told>>

Verdicts == [verdict : {"Ok", "Err"}, commitment : Commitments]

NoWatch == [commitment |-> "none", received |-> FALSE, live |-> FALSE]

\* RpcSignatureResult: ProcessedSignature with or without an error, ReceivedSignature.
Notices == [kind : {"processed"}, verdict : {"Ok", "Err"}] \cup [kind : {"received"}]

NoAnswer == [result |-> "none", commitment |-> "none", search |-> FALSE]

TypeOK ==
  /\ LedgerTypeOK /\ remembered \in BOOLEAN
  /\ watch \in [commitment : Commitments \cup {"none"}, received : BOOLEAN, live : BOOLEAN]
  /\ notices \in Seq(Notices)
  /\ last \in [result : SendError \cup {"none", "Ok", "Err", "None", "false", "Received", "Trap"},
               commitment : Commitments \cup {"none"}, search : BOOLEAN]
  /\ told \in SUBSET Verdicts

Init ==
  /\ InitLedger /\ submitted = TRUE /\ durable = FALSE
  /\ remembered = TRUE /\ watch = NoWatch /\ notices = <<>>
  /\ last = NoAnswer /\ told = {}

------------------------------------------------------------------------------
(* The node.                                                                *)

Verdict == IF txOk THEN "Ok" ELSE "Err"

\* The status list has the transaction: from the cache, or, when asked to search the
\* history, from the finalized blocks.
Listed(search) == landed # 0 /\ (remembered \/ (search /\ landed <= root))

\* The confirmationStatus of a status.
Level ==
  IF landed <= root THEN "finalized" ELSE IF landed <= conf THEN "confirmed" ELSE "processed"

\* The cache keeps a transaction at least until its block is finalized.
Forget ==
  /\ remembered /\ landed \in 1..root
  /\ remembered' = FALSE
  /\ UNCHANGED <<ledgerVars, watch, notices>>

NotifyReceived ==
  /\ watch.live /\ watch.received
  /\ watch' = [watch EXCEPT !.received = FALSE]
  /\ notices' = Append(notices, [kind |-> "received"])
  /\ UNCHANGED <<ledgerVars, remembered>>

\* Once the transaction reached the commitment, also if it had before the
\* subscription; it is the last notification.
NotifyProcessed ==
  /\ watch.live /\ Listed(FALSE) /\ landed <= Frontier(watch.commitment)
  /\ watch' = [watch EXCEPT !.received = FALSE, !.live = FALSE]
  /\ notices' = Append(notices, [kind |-> "processed", verdict |-> Verdict])
  /\ UNCHANGED <<ledgerVars, remembered>>

\* The ledger and the node move between two calls.
Cluster ==
  /\ last = NoAnswer
  /\ \/ LedgerNext /\ UNCHANGED <<remembered, watch, notices>>
     \/ Forget \/ NotifyReceived \/ NotifyProcessed
  /\ UNCHANGED <<last, told>>

------------------------------------------------------------------------------
(* The client.                                                              *)

\* The caller is given an answer, and keeps in mind what it says.
Answered(result, commitment, search) ==
  /\ last' = [result |-> result, commitment |-> commitment, search |-> search]
  /\ told' = IF result \in {"Ok", "Err"}
             THEN told \cup {[verdict |-> result, commitment |-> commitment]} ELSE told

\* A request that fails.
Fails(commitment, search) ==
  /\ \E error \in {send(reply) : reply \in HostReply} \ {"Ok"} : Answered(error, commitment, search)
  /\ UNCHANGED <<watch, notices>>

\* value[0] of a list without elements: the instance and what it held are gone.
Panics(commitment, search) ==
  /\ Answered("Trap", commitment, search)
  /\ watch' = NoWatch /\ notices' = <<>>

\* Not the code: a status of any commitment.
status_Unfiltered(commitment, listed) == IF listed THEN Verdict ELSE "None"

\* The status of the list, when it satisfies the commitment.
status(commitment, listed) ==
  IF listed /\ landed <= Frontier(commitment) THEN Verdict ELSE "None"

\* confirm_transaction*: false for a failed transaction as well as for none.
confirm_transaction(commitment) ==
  IF status(commitment, Listed(FALSE)) = "Ok" THEN "Ok" ELSE "false"

ConfirmTransaction(commitment) ==
  \/ Answered(confirm_transaction(commitment), commitment, FALSE) /\ UNCHANGED <<watch, notices>>
  \/ Panics(commitment, FALSE)
  \/ Fails(commitment, FALSE)

\* Not the code: the config that asks for the history is left out.
Searches_Never(search) == FALSE

\* searchTransactionHistory, as the request has it.
Searches(search) == search

\* get_signature_status, get_signature_status_with_commitment,
\* get_signature_status_with_commitment_and_history.
GetSignatureStatus(commitment, search) ==
  \/ /\ Answered(status(commitment, Listed(Searches(search))), commitment, search)
     /\ UNCHANGED <<watch, notices>>
  \/ Panics(commitment, search)
  \/ Fails(commitment, search)

\* get_signature_statuses, get_signature_statuses_with_history: the caller reads
\* the confirmation status itself; without one it asked for any.
GetSignatureStatuses(search) ==
  \/ /\ IF Listed(Searches(search))
        THEN Answered(Verdict, Level, search)
        ELSE Answered("None", "processed", search)
     /\ UNCHANGED <<watch, notices>>
  \/ Fails("processed", search)

\* signature_subscribe: without a commitment the node takes its default.
SignatureSubscribe(option, received) ==
  /\ watch = NoWatch
  /\ \E accepted \in {call_rpc(reply, Bytes, JsonValue) = "Ok" : reply \in HostReply} :
       IF accepted
       THEN watch' = [commitment |-> IF option = "None" THEN "finalized" ELSE option,
                      received |-> received, live |-> TRUE]
       ELSE UNCHANGED watch
  /\ UNCHANGED <<notices, last, told>>

\* Not the code: any notification taken for a ProcessedSignature, one without an err.
RpcSignatureResult_Lenient(notice) == IF notice.kind = "processed" THEN notice.verdict ELSE "Ok"

\* The variants of the untagged enum are told apart.
RpcSignatureResult(notice) == IF notice.kind = "processed" THEN notice.verdict ELSE "Received"

\* poll_next on the stream.
TakeNotice ==
  /\ notices # <<>>
  /\ notices' = Tail(notices)
  /\ Answered(RpcSignatureResult(Head(notices)), watch.commitment, FALSE)
  /\ UNCHANGED watch

\* The stream is dropped; the host cancels the subscription.
Unsubscribe ==
  /\ watch # NoWatch
  /\ watch' = NoWatch /\ notices' = <<>> /\ UNCHANGED <<last, told>>

Client ==
  /\ last = NoAnswer
  /\ \/ \E commitment \in Commitments :
          \/ ConfirmTransaction(commitment)
          \/ \E search \in BOOLEAN : GetSignatureStatus(commitment, search)
     \/ \E search \in BOOLEAN : GetSignatureStatuses(search)
     \/ \E option \in Commitments \cup {"None"}, received \in BOOLEAN :
          SignatureSubscribe(option, received)
     \/ TakeNotice \/ Unsubscribe
  /\ UNCHANGED <<ledgerVars, remembered>>

\* The procedure goes on to its next call.
Continue ==
  /\ last # NoAnswer /\ last' = NoAnswer
  /\ UNCHANGED <<ledgerVars, remembered, watch, notices, told>>

Next == Cluster \/ Client \/ Continue

Spec == Init /\ [][Next]_vars

------------------------------------------------------------------------------
(* Properties.                                                              *)

\* A verdict stands: undone by nothing but a fork, and that only at "processed".
Stands(v) == v.commitment # "processed" \/ reorgs = 0

\* What the caller was told of the transaction holds and goes on to hold, whichever of
\* the methods said so and however long ago: it is in a block of the commitment
\* asked for, and executed with the outcome reported.  So no two of the methods
\* ever contradict each other, and a notification that the node has received the
\* transaction is never read as one that it was processed (client.rs:221-343,
\* response.rs:236-241).
ToldStands ==
  \A v \in told : Stands(v) =>
    landed \in 1..Frontier(v.commitment) /\ v.verdict = Verdict

\* Where a finalized block and a confirmed one count.
AtLeast(commitment) ==
  IF commitment = "finalized" THEN {"finalized"}
  ELSE IF commitment = "confirmed" THEN {"confirmed", "finalized"} ELSE Commitments

\* A query that searches the history never denies what an earlier answer reported at
\* its commitment or a stronger one, although the cache forgets: "None" after a
\* verdict can be had from the other queries only (client.rs:294-306, 325-343).
HistoryRemembers ==
  (last.result = "None" /\ last.search) =>
    \A v \in told : v.commitment \in AtLeast(last.commitment) => ~Stands(v)
==============================================================================
