------------------------------ MODULE JoinedCalls ----------------------------
(****************************************************************************)
(* A procedure that does several things at once: it joins or selects over   *)
(* futures of its own, each of which calls methods of RpcClient one after   *)
(* the other and may yield in between.  poll_await (src/lib.rs) polls the   *)
(* whole until it is ready, without a waker; the client's requests are      *)
(* blocking host calls and its sleep (src/rpc_client/client.rs) blocks the  *)
(* thread, so no method of the client is ever Pending.                      *)
(****************************************************************************)
EXTENDS Naturals

CONSTANTS
  Children,      \* the futures, 1..Children, in the order in which they are polled
  MaxCalls,      \* bound: calls a future makes
  MaxSleeps,     \* bound: sleeps in one call
  MaxYields      \* bound: times a future yields between calls

ASSUME JoinedCallsAssumption ==
  Children \in Nat \ {0} /\ MaxCalls \in Nat /\ MaxSleeps \in Nat /\ MaxYields \in Nat

VARIABLES
  combinator,    \* "join" waits for all futures, "select" for the first
  polled,        \* the future that is being polled, 0 between two polls of the
                 \* whole, Children + 1 at the end of one
  state,         \* of each future: "running", "ready", "dropped"
  at,            \* where a future is: "between" two calls, at a "request", at a "sleep"
  calls, yields, \* of each future, so far
  slept,         \* sleeps in the call of each future
  elapsed,       \* start.elapsed() in the call of each future
  done           \* the procedure's future is ready

joinVars == <<combinator, polled, state, at, calls, yields, slept, elapsed, done>>

Futures == 1..Children

JoinTypeOK ==
  /\ combinator \in {"join", "select"} /\ polled \in 0..(Children + 1)
  /\ state \in [Futures -> {"running", "ready", "dropped"}]
  /\ at \in [Futures -> {"between", "request", "sleep"}]
  /\ calls \in [Futures -> 0..MaxCalls] /\ yields \in [Futures -> 0..MaxYields]
  /\ slept \in [Futures -> 0..MaxSleeps] /\ elapsed \in [Futures -> Nat]
  /\ done \in BOOLEAN

JoinInit ==
  /\ combinator \in {"join", "select"} /\ polled = 0 /\ done = FALSE
  /\ state = [i \in Futures |-> "running"]
  /\ at = [i \in Futures |-> "between"]
  /\ calls = [i \in Futures |-> 0] /\ yields = [i \in Futures |-> 0]
  /\ slept = [i \in Futures |-> 0] /\ elapsed = [i \in Futures |-> 0]

------------------------------------------------------------------------------
(* The executor, and the combinator of the procedure.                       *)

pollVars == <<combinator, state, at, calls, yields, slept, elapsed>>

\* One round of the loop in poll_await begins.
Poll ==
  /\ polled = 0 /\ ~done
  /\ polled' = 1
  /\ UNCHANGED <<pollVars, done>>

\* A future that is ready is not polled again.
Skip ==
  /\ polled \in Futures /\ state[polled] # "running"
  /\ polled' = polled + 1
  /\ UNCHANGED <<pollVars, done>>

\* Poll::Pending => (): the loop goes on.
AfterPending == polled' = 0

\* All futures have been polled; the whole is ready when they are.
EndOfPoll ==
  /\ polled = Children + 1 /\ ~done
  /\ IF \A i \in Futures : state[i] = "ready"
     THEN done' = TRUE /\ UNCHANGED polled
     ELSE AfterPending /\ UNCHANGED done
  /\ UNCHANGED pollVars

------------------------------------------------------------------------------
(* A future of the procedure.                                               *)

Running(i) == polled = i /\ state[i] = "running"

Pending(i) == polled' = i + 1

\* The procedure's own Pending, between two calls.
Yield(i) ==
  /\ Running(i) /\ at[i] = "between" /\ yields[i] < MaxYields
  /\ yields' = [yields EXCEPT ![i] = @ + 1]
  /\ Pending(i)
  /\ UNCHANGED <<combinator, state, at, calls, slept, elapsed, done>>

\* A method starts, and with it its clock, when its future is polled first.
StartCall(i) ==
  /\ Running(i) /\ at[i] = "between" /\ calls[i] < MaxCalls
  /\ calls' = [calls EXCEPT ![i] = @ + 1]
  /\ at' = [at EXCEPT ![i] = "request"]
  /\ slept' = [slept EXCEPT ![i] = 0] /\ elapsed' = [elapsed EXCEPT ![i] = 0]
  /\ UNCHANGED <<combinator, polled, state, yields, done>>

\* Not the code: a request that returns Pending.
AfterRequest_Pending(i) == Pending(i)

\* zela_host::call_rpc blocks the thread.
AfterRequest(i) == UNCHANGED polled

\* A request is answered: the method returns, or goes on to sleep.
Request(i) ==
  /\ Running(i) /\ at[i] = "request"
  /\ \E next \in {"between"} \cup (IF slept[i] < MaxSleeps THEN {"sleep"} ELSE {}) :
       at' = [at EXCEPT ![i] = next]
  /\ AfterRequest(i)
  /\ UNCHANGED <<combinator, state, calls, yields, slept, elapsed, done>>

\* Not the code: a sleep that returns Pending.
AfterSleep_Pending(i) == Pending(i)

\* std::thread::sleep.
AfterSleep(i) == UNCHANGED polled

\* Time passes for every call that has been started and has not returned.
Sleep(i) ==
  /\ Running(i) /\ at[i] = "sleep"
  /\ at' = [at EXCEPT ![i] = "request"]
  /\ slept' = [slept EXCEPT ![i] = @ + 1]
  /\ elapsed' = [j \in Futures |->
       IF state[j] = "running" /\ at[j] # "between" THEN elapsed[j] + 1 ELSE elapsed[j]]
  /\ AfterSleep(i)
  /\ UNCHANGED <<combinator, state, calls, yields, done>>

\* The future is ready. A select is, too, and drops the others.
Finish(i) ==
  /\ Running(i) /\ at[i] = "between"
  /\ IF combinator = "join"
     THEN /\ state' = [state EXCEPT ![i] = "ready"]
          /\ polled' = i + 1 /\ UNCHANGED done
     ELSE /\ state' = [j \in Futures |->
               IF j = i THEN "ready" ELSE IF state[j] = "running" THEN "dropped" ELSE state[j]]
          /\ done' = TRUE /\ UNCHANGED polled
  /\ UNCHANGED <<combinator, at, calls, yields, slept, elapsed>>

Guest ==
  \/ Poll \/ Skip \/ EndOfPoll
  \/ \E i \in Futures : ~done /\
       (Yield(i) \/ StartCall(i) \/ Request(i) \/ Sleep(i) \/ Finish(i))

\* After its end the procedure does nothing. The methods' own loops are the subject of
\* the other modules; here each ends after MaxSleeps. That a procedure ends at all is
\* a property of ProcedureRun.
JoinNext == Guest

JoinSpec == JoinInit /\ [][JoinNext]_joinVars

------------------------------------------------------------------------------
(* Properties.                                                              *)

\* A call is under way.
UnderWay(i) == state[i] = "running" /\ at[i] # "between"

\* The calls of one procedure never overlap, however it combines them, and the clock
\* of a call counts the sleeps of no other: the limits of the waiting loops mean the
\* same in a join as alone (lib.rs:11-28, client.rs:35-37).
CallsDoNotOverlap ==
  \A i \in Futures : UnderWay(i) =>
    elapsed[i] = slept[i] /\ \A j \in Futures : UnderWay(j) => j = i

\* Dropping the loser of a select never abandons a call half way, a transaction
\* sent but not confirmed, say: it had not begun or had returned (client.rs:35-37).
NothingCancelledHalfway ==
  \A i \in Futures : state[i] = "dropped" => at[i] = "between"
==============================================================================
