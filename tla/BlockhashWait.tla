----------------------------- MODULE BlockhashWait ---------------------------
(****************************************************************************)
(* get_new_latest_blockhash in src/rpc_client/client.rs: given a blockhash, *)
(* ask for the latest one, twice a slot, until it is another one.  "New" is *)
(* decided by inequality alone, so what the call returns depends on where   *)
(* the given hash came from.  A blockhash is the block it belongs to, and a *)
(* block is its number in the order of production.  Time is counted in the  *)
(* sleeps between two requests.                                             *)
(****************************************************************************)
EXTENDS Ledger, RpcCall

CONSTANTS
  Commitment,       \* the commitment of the client
  TicksPerSecond,   \* 5 in the code (half a slot of 400 ms)
  Limit,            \* seconds, 5 in the code
  MaxCall           \* bound: ticks a request takes

ASSUME BlockhashWaitAssumption ==
  /\ Commitment \in Commitments
  /\ TicksPerSecond \in Nat \ {0} /\ Limit \in Nat /\ MaxCall \in Nat

VARIABLES
  block,       \* the block at each height of the processed fork
  produced,    \* blocks produced, on any fork
  pc,
  blockhash,   \* the argument
  takenAt,     \* history: the commitment at which the caller got it
  elapsed,     \* start.elapsed(), in ticks
  result,      \* "none", "Ok" or "Unable"
  latest       \* the hash of the last reply that decoded

worldVars == <<ledgerVars, block, produced>>
argVars == <<blockhash, takenAt>>
callVars == <<pc, elapsed, result, latest>>
vars == <<worldVars, argVars, callVars>>

\* The highest reading of the clock: one tick short of the limit, a request and a
\* sleep later.
MaxElapsed == Limit * TicksPerSecond + MaxCall

TypeOK ==
  /\ LedgerTypeOK
  /\ produced \in Nat /\ block \in [0..tip -> 0..produced]
  /\ pc \in {"start", "clock", "request", "sleep", "done"}
  /\ blockhash \in 0..produced /\ latest \in 0..produced
  /\ takenAt \in Commitments
  /\ elapsed \in 0..MaxElapsed
  /\ result \in {"none", "Ok", "Unable"}

Init ==
  /\ InitLedger /\ submitted = FALSE
  /\ block = [height \in 0..0 |-> 0] /\ produced = 0
  /\ pc = "start" /\ blockhash = 0 /\ takenAt = Commitment
  /\ elapsed = 0 /\ result = "none" /\ latest = 0

------------------------------------------------------------------------------
(* The cluster, and the caller before the call.                             *)

Cluster ==
  /\ LedgerNext
  /\ produced' = IF tip' > tip THEN produced + 1 ELSE produced
  /\ block' = [height \in 0..tip' |-> IF height <= tip THEN block[height] ELSE produced']
  /\ UNCHANGED <<argVars, callVars>>

\* The caller takes the latest blockhash at some commitment: get_latest_blockhash or
\* get_latest_blockhash_with_commitment, answered.
Take(commitment) ==
  /\ pc = "start"
  /\ takenAt' = commitment
  /\ blockhash' = block[Frontier(commitment)]
  /\ UNCHANGED <<worldVars, callVars>>

\* The call begins, at once or later.
Call ==
  /\ pc = "start"
  /\ latest' = blockhash /\ pc' = "clock"
  /\ UNCHANGED <<worldVars, argVars, elapsed, result>>

Caller == Call \/ \E commitment \in Commitments : Take(commitment)

------------------------------------------------------------------------------
(* The call.                                                                *)

\* Not the code: <= for <.
InTime_OneMore == elapsed \div TicksPerSecond <= Limit

\* start.elapsed().as_secs() < limit.
InTime == elapsed \div TicksPerSecond < Limit

CheckClock ==
  /\ pc = "clock"
  /\ IF InTime
     THEN pc' = "request" /\ UNCHANGED result
     ELSE pc' = "done" /\ result' = "Unable"
  /\ UNCHANGED <<worldVars, argVars, elapsed, latest>>

\* Not the code: the latest blockhash at the default commitment.
LatestBlockhash_Default == block[Frontier("finalized")]

\* get_latest_blockhash: at the client's own commitment.
LatestBlockhash == block[Frontier(Commitment)]

\* new_blockhash != *blockhash.
IsNew(hash) == hash # blockhash

\* Not the code: a failed request ends the call.
AfterFailure_Aborts == pc' = "done" /\ result' = "Unable"

\* if let Ok(..): a failed request, or a hash that does not parse, is passed over.
AfterFailure == pc' = "sleep" /\ UNCHANGED result

Request ==
  /\ pc = "request"
  /\ \E d \in 0..MaxCall : elapsed' = elapsed + d
  /\ \/ /\ AfterFailure
        /\ UNCHANGED latest
     \/ /\ \E reply \in HostReply : send(reply) = "Ok"
        /\ latest' = LatestBlockhash
        /\ IF IsNew(latest')
           THEN pc' = "done" /\ result' = "Ok"
           ELSE pc' = "sleep" /\ UNCHANGED result
  /\ UNCHANGED <<worldVars, argVars>>

\* Not the code: every round has a clock of its own.
AfterSleep_NewClock == elapsed' = 0

AfterSleep == elapsed' = elapsed + 1

Sleep ==
  /\ pc = "sleep"
  /\ AfterSleep
  /\ pc' = "clock"
  /\ UNCHANGED <<worldVars, argVars, result, latest>>

Client == CheckClock \/ Request \/ Sleep

Next == Cluster \/ Caller \/ Client

Spec == Init /\ [][Next]_vars /\ WF_vars(Client)

------------------------------------------------------------------------------
(* Properties.                                                              *)

\* Inequality means newer if the argument was taken at the client's commitment and, at
\* "processed", there was no fork. A hash taken at a weaker commitment may be
\* answered with an older one: the code only compares for equality (client.rs:1544).
Comparable == takenAt = Commitment /\ ~(Commitment = "processed" /\ reorgs > 0)

\* What the call says of the chain is so: a hash it returns is newer than the one it
\* was given, where they compare; and it gives up only after the whole limit, all
\* replies having named the given hash. A request that failed, or was slow, is
\* followed by another one and never stands for a chain that does not move
\* (client.rs:1539-1561).
AnswerMeansProgressOrStall ==
  /\ (result = "Ok" /\ Comparable) => latest > blockhash
  /\ result = "Unable" => latest = blockhash /\ elapsed >= Limit * TicksPerSecond

\* Once called it returns, whatever the node and the chain do (client.rs:1542).
Termination == (pc = "clock") ~> (pc = "done")
==============================================================================
