----------------------------- MODULE ProcedureRun ----------------------------
(****************************************************************************)
(* The guest side of a procedure (src/lib.rs): sys::Guest::run, the Once    *)
(* that installs the logger, poll_await, and the conversion of what the     *)
(* procedure returns.  The host (external) gives each request to an idle    *)
(* wasm instance; an instance keeps its memory between requests, runs one   *)
(* request at a time, and is thrown away after a trap.                      *)
(****************************************************************************)
EXTENDS RpcCall, Naturals

CONSTANTS
  Requests, Instances,
  LogMaxLevel,   \* T::LOG_MAX_LEVEL, 0 is Off
  MaxLevel,      \* the most verbose level (Trace)
  MaxSteps,      \* bound: what the user's future does before it is ready
  NoRequest

ASSUME ProcedureRunAssumption ==
  /\ MaxLevel \in Nat /\ LogMaxLevel \in 0..MaxLevel /\ MaxSteps \in Nat
  /\ NoRequest \notin Requests

VARIABLES
  params,        \* what the bytes of each request are
  answer,        \* what the caller of each request got
  returned,      \* history: what the procedure returned for the request
  effects,       \* history: host calls made for the request
  lost,          \* history: requests with a log record that went missing
  pc, serving,   \* of each instance: where it is, and for which request
  steps,         \* of each instance: steps of the future so far
  initCalled,    \* INIT_CALLED
  logger,        \* log::set_logger was called
  level          \* log::max_level()

requestVars == <<params, answer, returned, effects, lost>>
memory == <<initCalled, logger, level>>
vars == <<requestVars, pc, serving, steps, memory>>

\* What CustomProcedure::run returns: a code (Ok has one of its own) and data
\* that serializes ("good"), that does not ("bad"), or None.
UserReturn == [code : {"Ok", "own", "500"}, data : {"none", "good", "bad"}]

\* RpcError::from(ClientError), the `?` on a call of RpcClient.
FromClientError == [code |-> "500", data |-> "none"]

\* The answers Guest::run makes up itself: 400, and 500 without data.
Rejected == [code |-> "400", data |-> "none", by |-> "runtime"]
Unencodable == [code |-> "500", data |-> "none", by |-> "runtime"]
Trapped == [code |-> "trap", data |-> "none", by |-> "host"]
Pending == [code |-> "pending", data |-> "none", by |-> "host"]
Delivered(ret) == [code |-> ret.code, data |-> ret.data, by |-> "user"]
Answers == {Rejected, Unencodable, Trapped} \cup {Delivered(ret) : ret \in UserReturn}

NotYet == [code |-> "none", data |-> "none"]

TypeOK ==
  /\ params \in [Requests -> Bytes \ {"absent"}]
  /\ answer \in [Requests -> Answers \cup {Pending}]
  /\ returned \in [Requests -> UserReturn \cup {NotYet}]
  /\ effects \in [Requests -> Nat]
  /\ lost \in SUBSET Requests
  /\ pc \in [Instances -> {"idle", "enter", "decode", "poll", "encode", "trapped"}]
  /\ serving \in [Instances -> Requests \cup {NoRequest}]
  /\ steps \in [Instances -> 0..MaxSteps]
  /\ initCalled \in [Instances -> BOOLEAN]
  /\ logger \in [Instances -> BOOLEAN]
  /\ level \in [Instances -> 0..MaxLevel]

Init ==
  /\ params \in [Requests -> Bytes \ {"absent"}]
  /\ answer = [r \in Requests |-> Pending]
  /\ returned = [r \in Requests |-> NotYet]
  /\ effects = [r \in Requests |-> 0]
  /\ lost = {}
  /\ pc = [i \in Instances |-> "idle"]
  /\ serving = [i \in Instances |-> NoRequest]
  /\ steps = [i \in Instances |-> 0]
  /\ initCalled = [i \in Instances |-> FALSE]
  /\ logger = [i \in Instances |-> FALSE]
  /\ level = [i \in Instances |-> 0]

------------------------------------------------------------------------------
(* The host: which instance serves which request.                           *)

Dispatch(i, r) ==
  /\ pc[i] = "idle"
  /\ answer[r] = Pending /\ \A j \in Instances : serving[j] # r
  /\ pc' = [pc EXCEPT ![i] = "enter"]
  /\ serving' = [serving EXCEPT ![i] = r]
  /\ UNCHANGED <<requestVars, steps, memory>>

\* A trapped instance is replaced, and an idle one may be recycled.
Replace(i) ==
  /\ pc[i] \in {"idle", "trapped"}
  /\ pc' = [pc EXCEPT ![i] = "idle"]
  /\ initCalled' = [initCalled EXCEPT ![i] = FALSE]
  /\ logger' = [logger EXCEPT ![i] = FALSE]
  /\ level' = [level EXCEPT ![i] = 0]
  /\ UNCHANGED <<requestVars, serving, steps>>

------------------------------------------------------------------------------
(* Guest::run.                                                              *)

Goto(i, next) == pc' = [pc EXCEPT ![i] = next] /\ UNCHANGED <<serving, steps>>

\* The instance leaves the request with an answer.
Leave(i, next, a) ==
  /\ answer' = [answer EXCEPT ![serving[i]] = a]
  /\ pc' = [pc EXCEPT ![i] = next]
  /\ serving' = [serving EXCEPT ![i] = NoRequest]
  /\ steps' = [steps EXCEPT ![i] = 0]
  /\ UNCHANGED <<params, effects, lost>>

\* Not the code: initialising on every call.
NeedsInit_Always(i) == TRUE

NeedsInit(i) == ~initCalled[i]

\* Not the code: the maximum level left at the log crate's Off.
LevelAfterInit_Off == 0

LevelAfterInit == LogMaxLevel

\* INIT_CALLED.call_once; set_logger(..).unwrap() panics when there is a logger.
CallOnce(i) ==
  /\ pc[i] = "enter"
  /\ \/ /\ ~NeedsInit(i)
        /\ Goto(i, "decode")
        /\ UNCHANGED <<requestVars, memory>>
     \/ /\ NeedsInit(i) /\ ~logger[i]
        /\ initCalled' = [initCalled EXCEPT ![i] = TRUE]
        /\ logger' = [logger EXCEPT ![i] = TRUE]
        /\ level' = [level EXCEPT ![i] = LevelAfterInit]
        /\ Goto(i, "decode")
        /\ UNCHANGED requestVars
     \/ /\ NeedsInit(i) /\ logger[i]
        /\ Leave(i, "trapped", Trapped)
        /\ UNCHANGED <<returned, memory>>

DecodeParams(i) ==
  /\ pc[i] = "decode"
  /\ IF params[serving[i]] = "typed"
     THEN Goto(i, "poll") /\ UNCHANGED requestVars
     ELSE Leave(i, "idle", Rejected) /\ UNCHANGED returned
  /\ UNCHANGED memory

\* One step of the future that does not complete it.
UserStep(i) ==
  /\ pc[i] = "poll" /\ steps[i] < MaxSteps
  /\ steps' = [steps EXCEPT ![i] = @ + 1]
  /\ UNCHANGED <<params, answer, serving, memory>>

Resolve(i, ret) ==
  /\ returned' = [returned EXCEPT ![serving[i]] = ret]
  /\ pc' = [pc EXCEPT ![i] = "encode"]

\* A record reaches zela_host::log when the level lets it and there is a logger.
Log(i) ==
  /\ UserStep(i)
  /\ \E l \in 1..MaxLevel :
       lost' = IF l <= LogMaxLevel /\ ~(logger[i] /\ l <= level[i])
               THEN lost \cup {serving[i]} ELSE lost
  /\ UNCHANGED <<pc, returned, effects>>

\* A call through RpcClient: its error is handled, or returned with `?`.
CallHost(i) ==
  /\ UserStep(i)
  /\ effects' = [effects EXCEPT ![serving[i]] = @ + 1]
  /\ \/ UNCHANGED <<pc, returned>>
     \/ \E hostReply \in HostReply : send(hostReply) # "Ok" /\ Resolve(i, FromClientError)
  /\ UNCHANGED lost

\* Not the code: waiting for the waker, which never wakes anything.
AfterPending_Park == "parked"

AfterPending == "poll"

\* poll returned Pending: poll_await polls again at once.
PollAgain(i) ==
  /\ UserStep(i)
  /\ pc' = [pc EXCEPT ![i] = AfterPending]
  /\ UNCHANGED <<returned, effects, lost>>

PollReady(i) ==
  /\ pc[i] = "poll"
  /\ \E ret \in UserReturn : (ret.code = "Ok" => ret.data # "none") /\ Resolve(i, ret)
  /\ UNCHANGED <<params, answer, effects, lost, serving, steps, memory>>

Panic(i) ==
  /\ pc[i] = "poll"
  /\ Leave(i, "trapped", Trapped)
  /\ UNCHANGED <<returned, memory>>

\* Not the code: an error whose data does not serialize sent without its data.
encode_DropsData(ret) ==
  IF ret.data # "bad" THEN Delivered(ret)
  ELSE IF ret.code = "Ok" THEN Unencodable
  ELSE Delivered([ret EXCEPT !.data = "none"])

encode(ret) == IF ret.data = "bad" THEN Unencodable ELSE Delivered(ret)

EncodeReturn(i) ==
  /\ pc[i] = "encode"
  /\ Leave(i, "idle", encode(returned[serving[i]]))
  /\ UNCHANGED <<returned, memory>>

Run(i) ==
  CallOnce(i) \/ DecodeParams(i) \/ Log(i) \/ CallHost(i) \/ PollAgain(i)
  \/ PollReady(i) \/ Panic(i) \/ EncodeReturn(i)

Next == \E i \in Instances : Run(i) \/ Replace(i) \/ \E r \in Requests : Dispatch(i, r)

\* A wasm instance that was entered runs (its blocking calls return), and the
\* host finds an instance for every request.
Fairness ==
  /\ \A i \in Instances : WF_vars(Run(i)) /\ WF_vars(pc[i] = "trapped" /\ Replace(i))
  /\ \A r \in Requests : WF_vars(\E i \in Instances : Dispatch(i, r))

Spec == Init /\ [][Next]_vars /\ Fairness

------------------------------------------------------------------------------
(* Properties.                                                              *)

\* No record the procedure logs at or below its LOG_MAX_LEVEL goes missing, on
\* whichever instance it runs and however often that instance was used before:
\* the logger and the level are set before user code first runs.
NoRecordLost == lost = {}

\* The caller gets what the procedure returned for that very request, and the
\* runtime's own 500 stands for nothing but data that did not serialize.
FaithfulReply ==
  \A r \in Requests :
    /\ answer[r].by = "user" => returned[r] \in UserReturn /\ answer[r] = Delivered(returned[r])
    /\ answer[r] = Unencodable => returned[r].data = "bad"

\* How the requests look from outside.
Running(r) == \E i \in Instances : serving[i] = r /\ pc[i] \in {"poll", "encode"}

statusOf ==
  [r \in Requests |-> IF answer[r] # Pending THEN "answered"
                      ELSE IF Running(r) THEN "running" ELSE "waiting"]

kindOf(a) ==
  IF a = Pending THEN "none"
  ELSE IF a = Rejected THEN "rejected"
  ELSE IF a.by = "user" THEN "returned"
  ELSE "failed"

replyOf == [r \in Requests |-> kindOf(answer[r])]

Service == INSTANCE ProcedureService WITH status <- statusOf, reply <- replyOf

\* The guest implements the service: a request is rejected only before its code
\* ran, answered once, and fails only after its code was started, so a panic can
\* only be the procedure's own (never that of init) and a rejected request has
\* had no effect.
ImplementsService == Service!ServiceSpec

\* Every request is answered: poll_await gets through every Pending.
EveryRequestAnswered == \A r \in Requests : <>(answer[r] # Pending)
==============================================================================
