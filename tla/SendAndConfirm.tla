---------------------------- MODULE SendAndConfirm ---------------------------
(****************************************************************************)
(* RpcClient::send_and_confirm_transaction (src/rpc_client/client.rs): send *)
(* a transaction once, then alternate getSignatureStatuses and              *)
(* isBlockhashValid until the cluster has a verdict or the blockhash has    *)
(* expired.  SEND_RETRIES is 1 and GET_STATUS_RETRIES is usize::MAX, so the *)
(* outer loop runs once and the inner one ends only through its body; there *)
(* is no counter to model.  Every request sees the ledger at a later moment *)
(* than the one before it, and any request may fail.                        *)
(****************************************************************************)
EXTENDS Ledger, RpcCall

CONSTANTS
  Commitment,  \* self.commitment(), the level a status must satisfy
  MaxEarly     \* bound: blocks before the client knows which blockhash to watch

ASSUME SendAndConfirmAssumption ==
  /\ Commitment \in Commitments
  /\ MaxEarly \in Nat
  /\ MaxHeight > MaxEarly + Lifetime   \* the chain outlives the blockhash

VARIABLES
  pc,          \* the request the client makes next
  hash,        \* recent_blockhash
  result,      \* "none" until the call returns
  polled,      \* history: what the last status without a verdict covered
  sentAt       \* history: the tip when the node accepted the transaction

clientVars == <<pc, hash, result, polled, sentAt>>
vars == <<ledgerVars, clientVars>>

Requests == {"send", "hash", "status", "validity", "sleep"}
Errors == SendError \cup {"ParseError", "RpcRequestError"}
Results == {"Ok", "TransactionError", "Unable", "Trap"} \cup Errors

TypeOK ==
  /\ LedgerTypeOK
  /\ pc \in Requests \cup {"done"}
  /\ hash \in [fork : 0..MaxReorgs, last : Nat]
  /\ result \in Results \cup {"none"}
  /\ polled \in Nat /\ sentAt \in Nat

------------------------------------------------------------------------------
(* What the methods it awaits return.  The operators with a suffix          *)
(* (send_transaction_Unchecked and so on) are not the code: each is a change *)
(* of it that the properties below must notice.                             *)

send_transaction_Unchecked(reply, echo) ==
  IF send(reply) # "Ok" THEN send(reply)
  ELSE IF echo = "unparsable" THEN "ParseError"
  ELSE "Ok"

\* The node answers a signature: that of the transaction, another one, or text
\* that is no signature.
send_transaction(reply, echo) ==
  IF send(reply) # "Ok" THEN send(reply)
  ELSE IF echo = "unparsable" THEN "ParseError"
  ELSE IF echo = "other" THEN "RpcRequestError"
  ELSE "Ok"

get_latest_blockhash(reply, parses) ==
  IF send(reply) = "Ok" /\ ~parses THEN "ParseError" ELSE send(reply)

get_signature_status_Unfiltered(reply, listed) ==
  IF send(reply) # "Ok" THEN send(reply)
  ELSE IF ~listed THEN "Trap"
  ELSE StatusAt("processed")

get_signature_status_ErrIsNone(reply, listed) ==
  IF send(reply) # "Ok" THEN send(reply)
  ELSE IF ~listed THEN "Trap"
  ELSE IF StatusAt(Commitment) = "Err" THEN "None" ELSE StatusAt(Commitment)

\* value[0] of an empty list panics, which traps the guest.
get_signature_status(reply, listed) ==
  IF send(reply) # "Ok" THEN send(reply)
  ELSE IF ~listed THEN "Trap"
  ELSE StatusAt(Commitment)

is_blockhash_valid_Lenient(reply, valid) ==
  IF send(reply) # "Ok" \/ ~valid THEN "Invalid"
  ELSE "Valid"

is_blockhash_valid_Ignored(reply, valid) ==
  IF send(reply) # "Ok" THEN send(reply)
  ELSE "Valid"

is_blockhash_valid(reply, valid) ==
  IF send(reply) # "Ok" THEN send(reply)
  ELSE IF valid THEN "Valid"
  ELSE "Invalid"

------------------------------------------------------------------------------

Init ==
  /\ InitLedger
  /\ submitted = FALSE
  /\ pc = "send" /\ hash = OwnHash /\ result = "none"
  /\ polled = 0 /\ sentAt = 0

Return(r) == pc' = "done" /\ result' = r

Continue(next) == pc' = next /\ UNCHANGED result

\* The transaction cannot be serialized: nothing was sent.
EncodeFails ==
  /\ pc = "send"
  /\ Return("Custom")
  /\ UNCHANGED <<ledgerVars, hash, polled, sentAt>>

\* A durable nonce keeps the transaction alive past its own blockhash.
AfterSend_OwnHash == "status"

AfterSend == IF durable THEN "hash" ELSE "status"

\* Unless the node says it has this transaction, it may have it or not.
SendTransaction ==
  /\ pc = "send"
  /\ \E reply \in HostReply, echo \in {"own", "other", "unparsable"} :
       LET outcome == send_transaction(reply, echo) IN
       /\ submitted' \in IF send(reply) = "Ok" /\ echo = "own" THEN {TRUE} ELSE BOOLEAN
       /\ IF outcome = "Ok"
          THEN Continue(AfterSend) /\ sentAt' = tip
          ELSE Return(outcome) /\ UNCHANGED sentAt
  /\ UNCHANGED <<tip, conf, root, landed, txOk, durable, reorgs, hash, polled>>

\* get_latest_blockhash_with_commitment(processed), for a durable nonce only.
GetLatestBlockhash ==
  /\ pc = "hash"
  /\ \E reply \in HostReply, parses \in BOOLEAN :
       LET outcome == get_latest_blockhash(reply, parses) IN
       IF outcome = "Ok"
       THEN Continue("status") /\ hash' = FreshHash
       ELSE Return(outcome) /\ UNCHANGED hash
  /\ UNCHANGED <<ledgerVars, polled, sentAt>>

GetSignatureStatus ==
  /\ pc = "status"
  /\ \E reply \in HostReply, listed \in BOOLEAN :
       LET outcome == get_signature_status(reply, listed) IN
       IF outcome = "None"
       THEN Continue("validity") /\ polled' = Frontier(Commitment)
       ELSE /\ Return(IF outcome = "Err" THEN "TransactionError" ELSE outcome)
            /\ UNCHANGED polled
  /\ UNCHANGED <<ledgerVars, hash, sentAt>>

IsBlockhashValid ==
  /\ pc = "validity"
  /\ \E reply \in HostReply, valid \in ValidityAnswers(hash) :
       LET outcome == is_blockhash_valid(reply, valid) IN
       CASE outcome = "Valid" -> Continue("sleep")
         [] outcome = "Invalid" -> Return("Unable")   \* break 'sending
         [] OTHER -> Return(outcome)
  /\ UNCHANGED <<ledgerVars, hash, polled, sentAt>>

Sleep ==
  /\ pc = "sleep"
  /\ Continue("status")
  /\ UNCHANGED <<ledgerVars, hash, polled, sentAt>>

Client ==
  EncodeFails \/ SendTransaction \/ GetLatestBlockhash \/ GetSignatureStatus
  \/ IsBlockhashValid \/ Sleep

\* The ledger moves between any two steps of the client.
Cluster(step) ==
  /\ step
  /\ pc \in {"send", "hash"} => tip' <= MaxEarly
  /\ UNCHANGED clientVars

Next == Client \/ Cluster(LedgerNext)

\* The host answers every call and the guest is scheduled; the cluster keeps
\* producing blocks.  Nothing else is assumed: blocks need not be confirmed.
Fairness == WF_vars(Client) /\ WF_vars(Cluster(NewBlock))

Spec == Init /\ [][Next]_vars /\ Fairness

------------------------------------------------------------------------------
(* Properties.                                                              *)

\* A processed block can be abandoned, and then nothing holds of what was seen.
Forked == Commitment = "processed" /\ reorgs > 0

\* "Ok" and a transaction error are returned only for a transaction whose
\* verdict, the same one, holds in the ledger at the client's commitment, and
\* they keep being true after the call returned: get_signature_status filters by
\* satisfies_commitment(self.commitment()).
VerdictSound ==
  (result \in {"Ok", "TransactionError"} /\ ~Forked) =>
    /\ landed \in 1..Frontier(Commitment)
    /\ txOk = (result = "Ok")

\* The loop polls only for a transaction the node acknowledged: a reply with
\* another signature "should not be passed along to confirmation methods"
\* (client.rs:198-200).
PollsOnlyAccepted == pc \in {"hash", "status", "validity", "sleep"} => submitted

\* "unable to confirm" is wrong about a transaction that landed only when it
\* reached the commitment after the last status poll: the block holding it lies
\* above what that poll covered.  A transaction the loop could have seen is
\* never reported as unconfirmed.
MissedOnlyInWindow ==
  (result = "Unable" /\ ~Forked) => (landed = 0 \/ landed > polled)

\* Without forks, "unable to confirm" is final for an ordinary transaction that
\* has not landed: its blockhash has expired, it can never land.  The caller may
\* sign and send it again without paying twice.
UnableSettles ==
  [][(result = "Unable" /\ ~durable /\ reorgs' = 0 /\ landed = 0) => landed' = 0]_vars

\* A durable-nonce transaction is watched for the whole lifetime of a blockhash
\* taken after it was accepted, not for what is left of the one it was signed with.
DurableWaitsFullLifetime ==
  (result = "Unable" /\ durable /\ reorgs = 0) => tip > sentAt + Lifetime

\* The call returns although the inner loop has no practical limit: every round
\* checks a blockhash that expires.
Termination == <>(pc = "done")
==============================================================================
