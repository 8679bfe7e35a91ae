------------------------------ MODULE BalanceWait ----------------------------
(****************************************************************************)
(* Waiting for a balance in src/rpc_client/client.rs.  One loop inside the  *)
(* other: poll_balance_with_timeout_and_commitment asks until the node      *)
(* answers or a clock runs out, and wait_for_balance_with_commitment polls  *)
(* until the answer is the expected balance.  The inner loop sleeps and     *)
(* looks at its clock only after a failed request, the outer one counts its *)
(* polls but looks at the count only when a poll failed.  Time is counted   *)
(* in sleeps of polling_frequency; the balance changes on its own.          *)
(****************************************************************************)
EXTENDS RpcCall, Naturals

CONSTANTS
  Balances,      \* the balances the account can have
  NoBalance,     \* expected_balance of a call that does not wait for one
  Timeout,       \* ticks, 10 in poll_get_balance_with_commitment
  Last,          \* LAST, 30 in the code
  MaxCall        \* bound: ticks a request takes

ASSUME BalanceWaitAssumption ==
  /\ NoBalance \notin Balances
  /\ Balances \cap (SendError \cup {"none"}) = {}
  /\ Timeout \in Nat /\ Last \in Nat /\ MaxCall \in Nat

VARIABLES
  expected,      \* expected_balance: a balance, or NoBalance for None
  balance,       \* ledger: the balance at the commitment asked for
  up,            \* node: it answers requests with a balance
  pc,
  elapsed,       \* now.elapsed() of the poll, in ticks
  run,           \* polls finished, Last + 1 standing for all above Last
  answer,        \* balance_result: "none", or the balance or error of a poll;
                 \* when pc is "done" the call returned it
  unanswered,    \* history: ticks since the last balance was answered, up to Outage
  reached        \* history: the balances the account has had during the call

worldVars == <<expected, balance, up>>
callVars == <<pc, elapsed, run, answer, unanswered>>
vars == <<worldVars, callVars, reached>>

Outage == Timeout + 1

\* The highest reading of the clock: at the limit, a request and a sleep later.
MaxElapsed == Timeout + 1 + MaxCall

TypeOK ==
  /\ expected \in Balances \cup {NoBalance}
  /\ balance \in Balances /\ up \in BOOLEAN
  /\ pc \in {"request", "sleep", "clock", "polled", "done"}
  /\ elapsed \in Nat
  /\ run \in 0..(Last + 1)
  /\ answer \in Balances \cup {"none"} \cup SendError
  /\ unanswered \in 0..Outage
  /\ reached \in SUBSET Balances

Init ==
  /\ expected \in Balances \cup {NoBalance}
  /\ balance \in Balances /\ up \in BOOLEAN
  /\ pc = "request" /\ elapsed = 0 /\ run = 0
  /\ answer = "none"
  /\ unanswered = 0 /\ reached = {balance}

------------------------------------------------------------------------------
(* The ledger and the node.                                                 *)

Transfer ==
  /\ balance' \in Balances \ {balance}
  /\ reached' = reached \cup {balance'}
  /\ UNCHANGED <<expected, up, callVars>>

NodeToggles ==
  /\ up' = ~up
  /\ UNCHANGED <<expected, balance, callVars, reached>>

------------------------------------------------------------------------------
(* poll_balance_with_timeout_and_commitment.                                *)

Elapse(d) ==
  /\ elapsed' = elapsed + d
  /\ unanswered' = IF unanswered + d < Outage THEN unanswered + d ELSE Outage

\* Not the code: a failed request is not waited for.
AfterFailure_GivesUp == "polled"

\* Err(e): sleep, then look at the clock.
AfterFailure == "sleep"

\* The request takes d ticks, and is answered from the ledger of that moment.  Ok
\* leaves the inner loop without a look at the clock.
Request ==
  /\ pc = "request"
  /\ \E reply \in HostReply, d \in 0..MaxCall :
       \/ /\ send(reply) = "Ok" /\ up
          /\ elapsed' = elapsed + d /\ unanswered' = 0
          /\ answer' = balance /\ pc' = "polled"
       \/ /\ send(reply) # "Ok" /\ ~up
          /\ Elapse(d)
          /\ answer' = send(reply) /\ pc' = AfterFailure
  /\ UNCHANGED <<worldVars, run, reached>>

Sleep ==
  /\ pc = "sleep"
  /\ Elapse(1)
  /\ pc' = "clock"
  /\ UNCHANGED <<worldVars, run, answer, reached>>

\* now.elapsed() > *timeout.
TimedOut == elapsed > Timeout

CheckClock ==
  /\ pc = "clock"
  /\ pc' = IF TimedOut THEN "polled" ELSE "request"
  /\ UNCHANGED <<worldVars, elapsed, run, answer, unanswered, reached>>

------------------------------------------------------------------------------
(* wait_for_balance_with_commitment.                                        *)

\* Not the code: the last poll is returned whatever it answered.
Settles_AtLast == expected = NoBalance \/ run = Last

\* expected_balance.is_none() || (balance_result.is_err() && run == LAST).
Settles == expected = NoBalance \/ (answer \notin Balances /\ run = Last)

\* Not the code: the balance counts in the first runs only.
Arrived_FirstRuns == answer = expected /\ run <= Last

\* Ok(balance_result) with expected_balance == balance_result.
Arrived == answer = expected

\* Not the code: one poll is one run of the loop whether it is over or not.
NextRun_Stuck == run

\* run += 1.
NextRun == IF run > Last THEN run ELSE run + 1

\* What the loop does with the result of a poll.  It polls again at once, with a
\* new clock and without a sleep.
Polled ==
  /\ pc = "polled"
  /\ IF Settles \/ Arrived
     THEN /\ pc' = "done"
          /\ UNCHANGED <<elapsed, run, answer>>
     ELSE /\ pc' = "request" /\ elapsed' = 0 /\ run' = NextRun
          /\ answer' = "none"
  /\ UNCHANGED <<worldVars, unanswered, reached>>

Client == Request \/ Sleep \/ CheckClock \/ Polled

Next == Transfer \/ NodeToggles \/ Client

Spec == Init /\ [][Next]_vars /\ WF_vars(Client)

------------------------------------------------------------------------------
(* Properties.                                                              *)

\* An error is returned only when no balance has been answered for longer than the
\* timeout: single failed requests, also in the last poll of wait_for_balance,
\* are retried (client.rs:1321-1326).
ErrorMeansOutage == (pc = "done" /\ answer \notin Balances) => unanswered = Outage

\* A call that waits for a balance succeeds only if the account has had that
\* balance during the call, however many polls it took (client.rs:1357-1368).
SuccessMeansReached ==
  (pc = "done" /\ answer \in Balances) =>
    answer \in reached /\ (expected # NoBalance => answer = expected)

\* What the call returns is what happened: an error is an outage and a success a
\* balance the account has had, so no result of one poll is taken for the other
\* however the polls follow each other (client.rs:1316-1371).
AnswerIsHonest == ErrorMeansOutage /\ SuccessMeansReached

\* No poll outlives its timeout by more than a sleep and a request, whatever the
\* node does (client.rs:1321-1326).
PollBounded == elapsed <= MaxElapsed

\* A wait ends, or it goes on past its last run for ever: run == LAST is looked
\* at once only, and only if that poll fails.  Until then a balance that does
\* not come, or a node that does not answer, ends nothing (client.rs:1357).
EndsOrRunsPastLast == <>(pc = "done") \/ <>[](run > Last)

\* When the balance arrives for good and the node answers from some time on, the
\* wait ends, also past its last run.
ArrivalEndsWait ==
  <>[](up /\ (expected # NoBalance => balance = expected)) => <>(pc = "done")
==============================================================================
