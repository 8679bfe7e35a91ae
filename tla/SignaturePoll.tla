---------------------------- MODULE SignaturePoll ----------------------------
(****************************************************************************)
(* The two loops that wait for a signature in src/rpc_client/client.rs:     *)
(* poll_for_signature_with_commitment and poll_for_signature_confirmation.  *)
(* Both ask for the status, look at a clock, sleep a quarter of a second    *)
(* and ask again; every failed request counts as "not yet".  The second one *)
(* restarts its clock whenever the number of confirmations changes.  Time   *)
(* is counted in sleeps ("ticks"); a request may take several.              *)
(****************************************************************************)
EXTENDS Ledger, RpcCall

CONSTANTS
  Commitment,           \* commitment_config of poll_for_signature
  MinConfirmed,         \* min_confirmed_blocks
  RootedCount,          \* MAX_LOCKOUT_HISTORY + 1, the count of a rooted block
  TicksPerSecond,       \* 4 in the code
  SignatureLimit,       \* seconds, 15 in the code
  ConfirmationLimit,    \* seconds, 20 in the code
  MaxCall               \* bound: ticks a request takes

ASSUME SignaturePollAssumption ==
  /\ Commitment \in Commitments /\ MinConfirmed \in Nat
  /\ RootedCount \in Nat /\ RootedCount > MaxHeight
  /\ TicksPerSecond \in Nat \ {0} /\ MaxCall \in Nat
  /\ SignatureLimit \in Nat /\ ConfirmationLimit \in Nat

VARIABLES
  op,          \* which of the two loops
  pc,
  elapsed,     \* now.elapsed(), in ticks
  confirmed,   \* confirmed_blocks
  result,      \* "none" until the loop ends
  seen,        \* history: a reply listed the signature
  quiet        \* history: ticks since a reply changed the count, up to Stall

pollVars == <<op, pc, elapsed, confirmed, result, seen, quiet>>
vars == <<ledgerVars, pollVars>>

Operations == {"signature", "confirmation"}
Limit == IF op = "signature" THEN SignatureLimit ELSE ConfirmationLimit

\* The highest reading of the clock: one tick short of the limit, a sleep and a
\* request later.
MaxElapsed == (Limit + 1) * TicksPerSecond + MaxCall

\* So long a count must have stood still for the loop to give up on it.
Stall == (ConfirmationLimit + 1) * TicksPerSecond

TypeOK ==
  /\ LedgerTypeOK
  /\ op \in Operations
  /\ pc \in {"request", "clock", "sleep", "done"}
  /\ elapsed \in Nat /\ quiet \in 0..Stall
  /\ confirmed \in 0..RootedCount
  /\ result \in {"none", "Found", "Count", "NotFound", "Trap"}
  /\ seen \in BOOLEAN

------------------------------------------------------------------------------
(* Replies to getSignatureStatuses.                                         *)

\* TransactionStatus::confirmations, None (a count of RootedCount here) once the
\* block is rooted.
Confirmations == IF landed <= root THEN RootedCount ELSE tip - landed

\* Not the code: a missing status taken for a rooted one.
get_num_blocks_NoneIsRooted(listed) == IF listed THEN {Confirmations} ELSE {RootedCount}

\* get_num_blocks_since_signature_confirmation, for a reply that decodes: the
\* set of the one count it returns, empty for its "signature not found".
get_num_blocks(listed) == IF listed THEN {Confirmations} ELSE {}

\* Not the code: a status of any commitment.
get_signature_status_Unfiltered(listed) == listed

\* get_signature_status_with_commitment(..) is Ok(Some(_)), with or without a
\* transaction error.
get_signature_status(listed) == listed /\ landed <= Frontier(Commitment)

------------------------------------------------------------------------------

Init ==
  /\ InitLedger
  /\ submitted = TRUE /\ durable = FALSE
  /\ op \in Operations
  /\ pc = "request" /\ elapsed = 0 /\ confirmed = 0 /\ result = "none"
  /\ seen = FALSE /\ quiet = 0

Return(r) == pc' = "done" /\ result' = r

Continue(next) == pc' = next /\ UNCHANGED result

\* The request takes d ticks; what it answers is the ledger of that moment.
Quieter(d) == IF quiet + d < Stall THEN quiet + d ELSE Stall

Elapse(d) == elapsed' = elapsed + d /\ quiet' = Quieter(d)

\* The request fails, or its reply has a list without elements: value[0] panics.
RequestFails ==
  /\ pc = "request"
  /\ \E reply \in HostReply, d \in 0..MaxCall :
       /\ Elapse(d)
       /\ IF send(reply) = "Ok" THEN Return("Trap") ELSE Continue("clock")
  /\ UNCHANGED <<ledgerVars, op, confirmed, seen>>

\* poll_for_signature_with_commitment: one status.
PollSignature ==
  /\ op = "signature" /\ pc = "request"
  /\ \E reply \in HostReply, d \in 0..MaxCall :
       /\ send(reply) = "Ok"
       /\ Elapse(d)
  /\ LET listed == landed # 0 IN
     /\ seen' = (seen \/ listed)
     /\ IF get_signature_status(listed) THEN Return("Found") ELSE Continue("clock")
  /\ UNCHANGED <<ledgerVars, op, confirmed>>

\* Not the code: the clock is restarted by every count.
Restart_Always(changed, d) == elapsed' = 0

\* Not the code: the clock is never restarted.
Restart_Never(changed, d) == elapsed' = elapsed + d

\* now = Instant::now() when the count changed.
Restart(changed, d) == elapsed' = IF changed THEN 0 ELSE elapsed + d

Enough(count) == count >= MinConfirmed

\* poll_for_signature_confirmation: one count, or none.
PollConfirmation ==
  /\ op = "confirmation" /\ pc = "request"
  /\ LET listed == landed # 0
         counts == get_num_blocks(listed)
     IN
     /\ seen' = (seen \/ listed)
     /\ \E reply \in HostReply, d \in 0..MaxCall :
          /\ send(reply) = "Ok"
          /\ \/ counts = {} /\ Elapse(d) /\ Continue("clock") /\ UNCHANGED confirmed
             \/ \E count \in counts :
                  /\ Restart(count # confirmed, d)
                  /\ quiet' = IF count # confirmed THEN 0 ELSE Quieter(d)
                  /\ confirmed' = count
                  /\ IF Enough(count) THEN Return("Count") ELSE Continue("clock")
  /\ UNCHANGED <<ledgerVars, op>>

\* now.elapsed().as_secs() > limit: whole seconds, rounded down.
Expired == elapsed \div TicksPerSecond > Limit

\* poll_for_signature_confirmation settles for fewer blocks than it was asked for.
CheckClock ==
  /\ pc = "clock"
  /\ IF Expired
     THEN Return(IF op = "confirmation" /\ confirmed > 0 THEN "Count" ELSE "NotFound")
     ELSE Continue("sleep")
  /\ UNCHANGED <<ledgerVars, op, elapsed, confirmed, seen, quiet>>

Sleep ==
  /\ pc = "sleep"
  /\ Continue("request")
  /\ Elapse(1)
  /\ UNCHANGED <<ledgerVars, op, confirmed, seen>>

Client == RequestFails \/ PollSignature \/ PollConfirmation \/ CheckClock \/ Sleep

Cluster == LedgerNext /\ UNCHANGED pollVars

Next == Client \/ Cluster

\* Requests return and sleeps end; nothing is assumed of the cluster.
Spec == Init /\ [][Next]_vars /\ WF_vars(Client)

------------------------------------------------------------------------------
(* Properties.                                                              *)

\* poll_for_signature succeeds only when the transaction is in a block that
\* satisfies the commitment; forks can only undo that at "processed".
FoundMeansLanded ==
  (result = "Found" /\ ~(Commitment = "processed" /\ reorgs > 0)) =>
    landed \in 1..Frontier(Commitment)

\* The number of confirmations returned never overstates the depth of the block
\* while there is one fork, even though it is that of an earlier poll.
CountNotOverstated ==
  (result = "Count" /\ reorgs = 0) => landed # 0 /\ confirmed <= Confirmations

\* A count below min_confirmed_blocks is returned only after it stood still for
\* more than the limit: a transaction that keeps gaining confirmations is waited
\* for, however long that takes in all.
ShortOnlyAfterStall ==
  (result = "Count" /\ confirmed < MinConfirmed) =>
    quiet = Stall

\* Neither loop outlives its limit by more than a sleep and a request, counted
\* from the last change: a node that only fails cannot hold them.
GivesUpInTime == elapsed <= MaxElapsed

\* Both loops end: the first in bounded time, the second because the count of a
\* block changes finitely often before the block is rooted.
Termination == <>(pc = "done")

\* What the error of poll_for_signature_confirmation says (client.rs:1447): the
\* signature was not found.
NotFoundMeansUnseen == (result = "NotFound" /\ op = "confirmation") => ~seen
==============================================================================
