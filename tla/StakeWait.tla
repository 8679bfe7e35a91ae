------------------------------- MODULE StakeWait -----------------------------
(****************************************************************************)
(* wait_for_max_stake_below_threshold_with_timeout_helper in                *)
(* src/rpc_client/client.rs: ask for the vote accounts, compute the largest *)
(* share of the stake, and return once it is below a threshold.  Here a     *)
(* failed request ends the call, unlike in the other waits.  Shares are     *)
(* compared as fractions; the code divides in f32.  Time is counted in      *)
(* sleeps of five seconds.                                                  *)
(****************************************************************************)
EXTENDS RpcCall, Integers, FiniteSetsExt

CONSTANTS
  Validators,
  MaxStake,         \* bound: stake of a validator
  Threshold,        \* max_stake_percent
  Timeout,          \* ticks
  MaxCall           \* bound: ticks a request takes

VARIABLES
  stake,            \* ledger: activated_stake of each vote account
  delinquent,       \* ledger: the accounts listed as delinquent
  timed,            \* the caller gave a timeout
  pc,
  elapsed,          \* start.elapsed(), in ticks, up to MaxElapsed + 1
  reply,            \* the vote accounts of the last reply, none at first
  result            \* "none", "Ok", "TimedOut" or the error of a request

ledgerVars == <<stake, delinquent>>
vars == <<stake, delinquent, timed, pc, elapsed, reply, result>>

\* The highest reading of the clock of a call with a timeout: at the limit, a
\* sleep and a request later.
MaxElapsed == Timeout + 1 + MaxCall

VoteAccounts == [stake : [Validators -> 0..MaxStake], delinquent : SUBSET Validators]

TypeOK ==
  /\ stake \in [Validators -> 0..MaxStake] /\ delinquent \in SUBSET Validators
  /\ timed \in BOOLEAN
  /\ pc \in {"request", "compare", "sleep", "done"}
  /\ elapsed \in 0..(MaxElapsed + 1)
  /\ reply \in VoteAccounts
  /\ result \in {"none", "Ok", "TimedOut"} \cup SendError

Init ==
  /\ stake \in [Validators -> 0..MaxStake] /\ delinquent = {}
  /\ timed \in BOOLEAN
  /\ pc = "request" /\ elapsed = 0 /\ result = "none"
  /\ reply = [stake |-> [v \in Validators |-> 0], delinquent |-> {}]

------------------------------------------------------------------------------
(* The ledger: stake moves, and validators stop and resume voting.          *)

Delegate ==
  /\ \E v \in Validators, amount \in 0..MaxStake :
       amount # stake[v] /\ stake' = [stake EXCEPT ![v] = amount]
  /\ UNCHANGED <<delinquent, timed, pc, elapsed, reply, result>>

VotingChanges ==
  /\ delinquent' \in SUBSET Validators \ {delinquent}
  /\ UNCHANGED <<stake, timed, pc, elapsed, reply, result>>

------------------------------------------------------------------------------
(* The share of the largest vote account.                                   *)

\* vote_accounts.current.iter().chain(vote_accounts.delinquent.iter()).
Counted(accounts) == Validators

TotalActiveStake(accounts) ==
  MapThenSumSet(LAMBDA v : accounts.stake[v], Counted(accounts))

\* Not the code: the largest share is taken among the voting accounts only.
MaxActiveStake_CurrentOnly(accounts) ==
  Max({0} \cup {accounts.stake[v] : v \in Validators \ accounts.delinquent})

MaxActiveStake(accounts) ==
  Max({0} \cup {accounts.stake[v] : v \in Counted(accounts)})

\* current_percent < max_stake_percent.  Without any stake the percentage is NaN,
\* which is below nothing.
BelowThreshold(accounts) ==
  LET total == TotalActiveStake(accounts) IN
  total # 0 /\ 100 * MaxActiveStake(accounts) < Threshold * total

------------------------------------------------------------------------------
(* The call.                                                                *)

Elapse(d) ==
  elapsed' = IF elapsed + d <= MaxElapsed THEN elapsed + d ELSE MaxElapsed + 1

Return(r) == pc' = "done" /\ result' = r

\* get_vote_accounts_with_commitment(..).await?
Request ==
  /\ pc = "request"
  /\ \E hostReply \in HostReply, d \in 0..MaxCall :
       /\ Elapse(d)
       /\ IF send(hostReply) = "Ok"
          THEN /\ reply' = [stake |-> stake, delinquent |-> delinquent]
               /\ pc' = "compare" /\ UNCHANGED result
          ELSE Return(send(hostReply)) /\ UNCHANGED reply
  /\ UNCHANGED <<ledgerVars, timed>>

\* Not the code: the clock is looked at first.
Compare_ClockFirst ==
  IF timed /\ elapsed > Timeout THEN Return("TimedOut")
  ELSE IF BelowThreshold(reply) THEN Return("Ok") ELSE pc' = "sleep" /\ UNCHANGED result

\* Not the code: the timeout does not end the call.
Compare_NoTimeout ==
  IF BelowThreshold(reply) THEN Return("Ok") ELSE pc' = "sleep" /\ UNCHANGED result

\* break below the threshold, else give up when start.elapsed() > timeout.
Compare ==
  IF BelowThreshold(reply) THEN Return("Ok")
  ELSE IF timed /\ elapsed > Timeout THEN Return("TimedOut")
  ELSE pc' = "sleep" /\ UNCHANGED result

Look ==
  /\ pc = "compare"
  /\ Compare
  /\ UNCHANGED <<ledgerVars, timed, elapsed, reply>>

Sleep ==
  /\ pc = "sleep"
  /\ Elapse(1)
  /\ pc' = "request"
  /\ UNCHANGED <<ledgerVars, timed, reply, result>>

Client == Request \/ Look \/ Sleep

Next == Delegate \/ VotingChanges \/ Client

Spec == Init /\ [][Next]_vars /\ WF_vars(Client)

------------------------------------------------------------------------------
(* Properties.                                                              *)

\* The share of some validator, voting or delinquent, of the stake of all of them is
\* at the threshold or above it, or there is no stake at all.
TooConcentrated(accounts) ==
  \/ \A v \in Validators : accounts.stake[v] = 0
  \/ \E v \in Validators :
       100 * accounts.stake[v] >= Threshold * MapThenSumSet(LAMBDA w : accounts.stake[w], Validators)

\* The verdict is about the last reply, all of it. Ok means that everyone was below
\* the threshold: a validator that drops out does not make the others look small.
\* The call times out only with a timeout, after it, and if someone still was not:
\* what was measured last is not thrown away (client.rs:487-508).
VerdictFitsLastReply ==
  /\ result = "Ok" => ~TooConcentrated(reply)
  /\ result = "TimedOut" => timed /\ elapsed > Timeout /\ TooConcentrated(reply)

\* With a timeout the call ends; without one it ends if the stake falls below the
\* threshold for good (client.rs:479-515).
Termination ==
  <>(pc = "done") \/ (~timed /\ []<>~BelowThreshold([stake |-> stake, delinquent |-> delinquent]))
==============================================================================
