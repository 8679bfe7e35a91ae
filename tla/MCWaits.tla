------------------------------- MODULE MCWaits -------------------------------
(****************************************************************************)
(* A procedure that waits for a balance (BalanceWait) or for the stake to   *)
(* spread (StakeWait): one instance for both waits, which differ in what a  *)
(* failed request does to them.  What is not called stays where it is.      *)
(****************************************************************************)
EXTENDS BalanceWait, FiniteSets

CONSTANTS Validators, MaxStake, Threshold, StakeTimeout

ASSUME WaitsAssumption ==
  /\ IsFiniteSet(Validators)
  /\ MaxStake \in Nat /\ Threshold \in Nat /\ StakeTimeout \in Nat

VARIABLES
  call,          \* the wait the procedure calls
  stake, delinquent, timed, stakePc, stakeElapsed, reply, result

S == INSTANCE StakeWait WITH pc <- stakePc, elapsed <- stakeElapsed, Timeout <- StakeTimeout

stakeVars == <<stake, delinquent, timed, stakePc, stakeElapsed, reply, result>>

\* What is not called has one initial state.
IdleBalance == expected = NoBalance /\ ~up /\ balance = CHOOSE b \in Balances : TRUE
IdleStake == stake = [v \in Validators |-> 0] /\ ~timed

MCInit ==
  /\ Init /\ S!Init
  /\ \/ call = "balance" /\ IdleStake
     \/ call = "stake" /\ IdleBalance

BalanceStep == call = "balance" /\ Next /\ UNCHANGED <<call, stakeVars>>
StakeStep == call = "stake" /\ S!Next /\ UNCHANGED <<call, vars>>

MCNext == BalanceStep \/ StakeStep

MCSpec ==
  /\ MCInit /\ [][MCNext]_<<call, vars, stakeVars>>
  /\ WF_vars(call = "balance" /\ Client)
  /\ WF_stakeVars(call = "stake" /\ S!Client)

------------------------------------------------------------------------------
(* The properties of the two modules, each of its own call.                 *)

\* The clock, the reply and the result of a stake wait keep their types: a failed
\* request ends it with the error that send made of it (client.rs:478-517).
StakeTypeOK == S!TypeOK

\* Ok and a timeout of the stake wait are both about the whole of the last reply,
\* delinquent validators included (client.rs:487-508).
VerdictFitsLastReply == S!VerdictFitsLastReply

\* A wait for a balance ends, or polls past its last run for ever
\* (client.rs:1353-1370).
BalanceWaitEnds == call = "balance" => EndsOrRunsPastLast

\* A balance that has arrived for good ends the wait for it, also past its last run
\* (client.rs:1363-1368).
ArrivalEnds == call = "balance" => ArrivalEndsWait

\* A wait for the stake ends with its timeout, or when the stake has spread for good
\* (client.rs:479-515).
StakeWaitEnds == call = "stake" => S!Termination
==============================================================================
