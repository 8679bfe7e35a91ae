-------------------------- MODULE ProcedureRunProofs -------------------------
(****************************************************************************)
(* The guest keeps its logger, answers faithfully and implements            *)
(* ProcedureService, for any number of instances and requests and any       *)
(* behaviour of the procedure.                                              *)
(****************************************************************************)
EXTENDS ProcedureRun, TLAPS

\* INIT_CALLED, the logger and the level change together, and user code runs
\* only on an instance that was initialised.
MemoryInv ==
  \A i \in Instances :
    /\ initCalled[i] <=> logger[i]
    /\ initCalled[i] => level[i] = LogMaxLevel
    /\ pc[i] \in {"decode", "poll", "encode"} => initCalled[i]

\* An instance that is running serves one unanswered request, no two the same.
ServingInv ==
  /\ \A i \in Instances :
       /\ pc[i] \in {"idle", "trapped"} <=> serving[i] = NoRequest
       /\ serving[i] # NoRequest => answer[serving[i]] = Pending
  /\ \A i, j \in Instances : serving[i] = serving[j] /\ i # j => serving[i] = NoRequest

\* encode has something to encode.
ReturnedInv ==
  \A i \in Instances : pc[i] = "encode" => returned[serving[i]] \in UserReturn

IInv ==
  /\ TypeOK /\ MemoryInv /\ ServingInv /\ ReturnedInv
  /\ NoRecordLost /\ FaithfulReply

------------------------------------------------------------------------------

\* The answers of the runtime and of the host are none of those of the procedure,
\* and all of them differ.
LEMMA AnswersDiffer ==
  /\ Rejected # Pending /\ Unencodable # Pending /\ Trapped # Pending
  /\ Rejected # Unencodable /\ Trapped # Unencodable /\ Trapped # Rejected
  /\ \A ret : Delivered(ret) \notin {Pending, Rejected, Unencodable, Trapped}
  /\ \A ret : Delivered(ret).by = "user"
  /\ \A a \in {Pending, Rejected, Unencodable, Trapped} : a.by # "user"
BY DEF Rejected, Unencodable, Trapped, Pending, Delivered

\* NotYet is no return value.
LEMMA NotYetIsNoReturn == NotYet \notin UserReturn /\ NotYet.data # "bad"
BY DEF NotYet, UserReturn

LEMMA InitIInv == Init => IInv
<1> SUFFICES ASSUME Init PROVE IInv
    OBVIOUS
<1> USE ProcedureRunAssumption DEF ProcedureRunAssumption, Init
<1>1. TypeOK
  BY DEF TypeOK
<1>2. MemoryInv /\ ServingInv /\ ReturnedInv /\ NoRecordLost
  BY DEF MemoryInv, ServingInv, ReturnedInv, NoRecordLost
<1>3. FaithfulReply
  BY AnswersDiffer DEF FaithfulReply
<1> QED
  BY <1>1, <1>2, <1>3 DEF IInv

\* Leaving a request answers it and keeps every part of the invariant.
LEMMA LeaveKeeps ==
  ASSUME IInv, NEW i \in Instances, NEW next \in {"idle", "trapped"}, NEW a \in Answers,
         pc[i] \in {"enter", "decode", "poll", "encode"},
         a.by = "user" => returned[serving[i]] \in UserReturn /\ a = Delivered(returned[serving[i]]),
         a = Unencodable => returned[serving[i]].data = "bad",
         Leave(i, next, a), UNCHANGED <<returned, memory>>
  PROVE  IInv'
<1> USE ProcedureRunAssumption DEF ProcedureRunAssumption, IInv, Leave, memory
<1>1. serving[i] \in Requests
  BY DEF ServingInv, TypeOK
<1>2. TypeOK'
  BY <1>1 DEF TypeOK
<1>3. MemoryInv'
  BY DEF MemoryInv, TypeOK
<1>4. ServingInv'
  BY <1>1 DEF ServingInv, TypeOK
<1>5. ReturnedInv'
  BY <1>1 DEF ReturnedInv, ServingInv, TypeOK
<1>6. FaithfulReply'
  BY <1>1 DEF FaithfulReply, TypeOK
<1> QED
  BY <1>2, <1>3, <1>4, <1>5, <1>6 DEF NoRecordLost

\* The future that becomes ready leaves its value for encode.
LEMMA ResolveKeeps ==
  ASSUME IInv, NEW i \in Instances, NEW ret \in UserReturn,
         pc[i] = "poll", Resolve(i, ret),
         effects' \in [Requests -> Nat], steps' \in [Instances -> 0..MaxSteps],
         UNCHANGED <<params, answer, lost, serving, memory>>
  PROVE  IInv'
<1> USE DEF IInv, Resolve, memory
<1>1. serving[i] \in Requests /\ answer[serving[i]] = Pending
  BY DEF ServingInv, TypeOK
<1>2. TypeOK'
  BY <1>1 DEF TypeOK
<1>3. MemoryInv' /\ ServingInv' /\ NoRecordLost'
  BY <1>1 DEF MemoryInv, ServingInv, TypeOK, NoRecordLost
<1>4. ReturnedInv'
  BY <1>1 DEF ReturnedInv, ServingInv, TypeOK
<1>5. FaithfulReply'
  BY <1>1, AnswersDiffer DEF FaithfulReply, TypeOK
<1> QED
  BY <1>2, <1>3, <1>4, <1>5

\* Every step of an instance or of the host keeps the invariant.
LEMMA NextKeepsIInv == IInv /\ Next => IInv'
<1> SUFFICES ASSUME IInv, NEW i \in Instances,
                    Run(i) \/ Replace(i) \/ \E r \in Requests : Dispatch(i, r)
             PROVE  IInv'
    BY DEF Next
<1> USE ProcedureRunAssumption DEF ProcedureRunAssumption, memory, requestVars
<1>1. ASSUME NEW r \in Requests, Dispatch(i, r) PROVE IInv'
  BY <1>1 DEF IInv, Dispatch, TypeOK, MemoryInv, ServingInv, ReturnedInv, NoRecordLost, FaithfulReply
<1>2. CASE Replace(i)
  BY <1>2 DEF IInv, Replace, TypeOK, MemoryInv, ServingInv, ReturnedInv, NoRecordLost, FaithfulReply
<1>3. CASE CallOnce(i)
  <2>0. pc[i] = "enter" /\ serving[i] \in Requests
    BY <1>3 DEF IInv, CallOnce, ServingInv, TypeOK
  <2>1. CASE ~NeedsInit(i)
    <3>1. Goto(i, "decode") /\ UNCHANGED <<requestVars, memory>>
      BY <1>3, <2>1 DEF CallOnce
    <3> QED
      BY <2>0, <2>1, <3>1 DEF IInv, NeedsInit, Goto, TypeOK, MemoryInv, ServingInv, ReturnedInv,
         NoRecordLost, FaithfulReply
  <2>2. CASE NeedsInit(i)
    <3>1. ~logger[i]
      BY <2>2 DEF IInv, NeedsInit, MemoryInv
    <3>2. /\ initCalled' = [initCalled EXCEPT ![i] = TRUE]
          /\ logger' = [logger EXCEPT ![i] = TRUE]
          /\ level' = [level EXCEPT ![i] = LogMaxLevel]
          /\ Goto(i, "decode")
          /\ UNCHANGED requestVars
      BY <1>3, <2>2, <3>1 DEF CallOnce, LevelAfterInit
    <3>3. TypeOK'
      BY <3>2 DEF IInv, TypeOK, Goto
    <3>4. MemoryInv'
      BY <3>2 DEF IInv, TypeOK, Goto, MemoryInv
    <3>5. ServingInv' /\ ReturnedInv' /\ NoRecordLost' /\ FaithfulReply'
      BY <2>0, <3>2 DEF IInv, TypeOK, Goto, ServingInv, ReturnedInv, NoRecordLost, FaithfulReply
    <3> QED
      BY <3>3, <3>4, <3>5 DEF IInv
  <2> QED
    BY <2>1, <2>2
<1>4. CASE DecodeParams(i)
  <2>0. pc[i] = "decode" /\ UNCHANGED memory
    BY <1>4 DEF DecodeParams
  <2>1. CASE params[serving[i]] = "typed"
    <3>1. Goto(i, "poll") /\ UNCHANGED requestVars
      BY <1>4, <2>1 DEF DecodeParams
    <3> QED
      BY <2>0, <3>1 DEF IInv, Goto, TypeOK, MemoryInv, ServingInv, ReturnedInv, NoRecordLost, FaithfulReply
  <2>2. CASE params[serving[i]] # "typed"
    <3>1. Leave(i, "idle", Rejected) /\ UNCHANGED returned
      BY <1>4, <2>2 DEF DecodeParams
    <3> QED
      BY <2>0, <3>1, LeaveKeeps, AnswersDiffer DEF IInv, Answers
  <2> QED
    BY <2>1, <2>2
<1>5. CASE Log(i)
  BY <1>5 DEF IInv, Log, UserStep, TypeOK, MemoryInv, ServingInv, ReturnedInv, NoRecordLost, FaithfulReply
<1>6. CASE CallHost(i)
  <2>0. /\ pc[i] = "poll" /\ serving[i] \in Requests
        /\ effects' \in [Requests -> Nat] /\ steps' \in [Instances -> 0..MaxSteps]
        /\ UserStep(i) /\ UNCHANGED lost
        /\ effects' = [effects EXCEPT ![serving[i]] = @ + 1]
    BY <1>6 DEF IInv, CallHost, UserStep, ServingInv, TypeOK
  <2>1. CASE UNCHANGED <<pc, returned>>
    BY <2>0, <2>1 DEF IInv, UserStep, TypeOK, MemoryInv, ServingInv, ReturnedInv, NoRecordLost, FaithfulReply
  <2>2. CASE Resolve(i, FromClientError)
    <3>1. FromClientError \in UserReturn
      BY DEF FromClientError, UserReturn
    <3> HIDE DEF FromClientError
    <3> QED
      BY <2>0, <2>2, <3>1, ResolveKeeps DEF UserStep
  <2> QED
    BY <1>6, <2>1, <2>2 DEF CallHost
<1>7. CASE PollAgain(i)
  BY <1>7 DEF IInv, PollAgain, AfterPending, UserStep, TypeOK, MemoryInv, ServingInv, ReturnedInv, NoRecordLost, FaithfulReply
<1>8. CASE PollReady(i)
  <2>0. effects' \in [Requests -> Nat] /\ steps' \in [Instances -> 0..MaxSteps]
    BY <1>8 DEF PollReady, IInv, TypeOK
  <2>1. PICK ret \in UserReturn : Resolve(i, ret)
    BY <1>8 DEF PollReady
  <2> QED
    BY <1>8, <2>0, <2>1, ResolveKeeps DEF PollReady
<1>9. CASE Panic(i)
  BY <1>9, LeaveKeeps, AnswersDiffer DEF IInv, Panic, Answers
<1>10. CASE EncodeReturn(i)
  BY <1>10, LeaveKeeps, AnswersDiffer DEF IInv, EncodeReturn, encode, Answers, ReturnedInv
<1> QED
  BY <1>1, <1>2, <1>3, <1>4, <1>5, <1>6, <1>7, <1>8, <1>9, <1>10 DEF Run

\* The invariant holds in every reachable state.
THEOREM Invariance == Spec => []IInv
<1>1. IInv /\ UNCHANGED vars => IInv'
  BY DEF vars, requestVars, memory, IInv, TypeOK, MemoryInv, ServingInv, ReturnedInv,
     NoRecordLost, FaithfulReply
<1> QED
  BY InitIInv, NextKeepsIInv, <1>1, PTL DEF Spec

\* Every variable keeps its type.
THEOREM TypeCorrect == Spec => []TypeOK
BY Invariance, PTL DEF IInv

\* No log record of user code is lost, however often an instance is reused: the
\* Once of Guest::run installs logger and level before the first poll.
THEOREM LogsReachHost == Spec => []NoRecordLost
BY Invariance, PTL DEF IInv

\* A caller gets what the procedure returned for its own request (Guest::run,
\* lib.rs:115-148).
THEOREM RepliesAreFaithful == Spec => []FaithfulReply
BY Invariance, PTL DEF IInv
------------------------------------------------------------------------------
(* The guest implements the service.                                        *)

\* How the service sees each answer.
LEMMA Kinds ==
  /\ kindOf(Pending) = "none" /\ kindOf(Rejected) = "rejected"
  /\ kindOf(Unencodable) = "failed" /\ kindOf(Trapped) = "failed"
  /\ \A ret : kindOf(Delivered(ret)) = "returned"
<1>1. /\ Unencodable.by # "user" /\ Trapped.by # "user"
      /\ Trapped # Rejected
  BY DEF Unencodable, Trapped, Rejected
<1> QED
  BY <1>1, AnswersDiffer DEF kindOf

\* A request that is served and not yet decoded is waiting, one whose future is
\* polled is running.
LEMMA StatusOfServed ==
  ASSUME IInv, NEW i \in Instances, serving[i] \in Requests
  PROVE  statusOf[serving[i]] = IF pc[i] \in {"poll", "encode"} THEN "running" ELSE "waiting"
<1>1. answer[serving[i]] = Pending
  BY ProcedureRunAssumption DEF IInv, ServingInv, TypeOK, ProcedureRunAssumption
<1>2. ASSUME NEW j \in Instances, serving[j] = serving[i] PROVE j = i
  BY <1>2, ProcedureRunAssumption DEF IInv, ServingInv, ProcedureRunAssumption
<1>3. Running(serving[i]) <=> pc[i] \in {"poll", "encode"}
  BY <1>2 DEF Running
<1> QED
  BY <1>1, <1>3 DEF statusOf

\* Leaving a request is the step Answer of the service.
LEMMA LeaveIsAnswer ==
  ASSUME IInv, NEW i \in Instances, NEW next \in {"idle", "trapped"}, NEW a \in Answers,
         pc[i] \in {"enter", "decode", "poll", "encode"}, Leave(i, next, a)
  PROVE  Service!Answer(serving[i], kindOf(a))
<1> DEFINE r == serving[i]
<1>0. r \in Requests
  BY DEF IInv, ServingInv, TypeOK
<1>1. a # Pending
  BY AnswersDiffer DEF Answers
<1>2. answer' = [answer EXCEPT ![r] = a] /\ UNCHANGED effects
  BY DEF Leave
<1>3. ASSUME NEW q \in Requests, q # r PROVE Running(q)' <=> Running(q)
  BY <1>0, <1>3, ProcedureRunAssumption
  DEF Running, Leave, IInv, TypeOK, ServingInv, ProcedureRunAssumption
<1>4. statusOf' = [statusOf EXCEPT ![r] = "answered"]
  BY <1>0, <1>1, <1>2, <1>3 DEF statusOf, IInv, TypeOK
<1>5. replyOf' = [replyOf EXCEPT ![r] = kindOf(a)]
  BY <1>0, <1>1, <1>2 DEF replyOf, IInv, TypeOK
<1> QED
  BY <1>2, <1>4, <1>5 DEF Service!Answer

\* A step that answers nobody and starts no future is invisible, except for the
\* effects it has.
LEMMA QuietStep ==
  ASSUME UNCHANGED answer, \A r \in Requests : Running(r)' <=> Running(r)
  PROVE  UNCHANGED <<statusOf, replyOf>>
BY DEF statusOf, replyOf

\* Every behaviour of the guest, seen through statusOf and replyOf, is one of
\* ProcedureService: rejected before any effect, or run once and answered once.
THEOREM Refinement == Spec => ImplementsService
<1>1. Init => Service!ServiceInit
  <2> SUFFICES ASSUME Init PROVE Service!ServiceInit
      OBVIOUS
  <2>1. \A r \in Requests : ~Running(r)
    BY DEF Init, Running
  <2> QED
    BY <2>1, Kinds DEF Init, Service!ServiceInit, statusOf, replyOf
<1>2. IInv /\ [Next]_vars => [Service!ServiceNext]_(Service!serviceVars)
  <2> SUFFICES ASSUME IInv, [Next]_vars
               PROVE  Service!ServiceNext \/ UNCHANGED <<statusOf, replyOf, effects>>
      BY DEF Service!serviceVars
  <2>1. CASE UNCHANGED vars
    BY <2>1 DEF vars, requestVars, statusOf, replyOf, Running
  <2>2. ASSUME NEW i \in Instances, NEW r \in Requests, Dispatch(i, r)
        PROVE  UNCHANGED <<statusOf, replyOf, effects>>
    <3>1. \A q \in Requests : Running(q)' <=> Running(q)
      BY <2>2 DEF Dispatch, Running, IInv, TypeOK
    <3> QED
      BY <2>2, <3>1, QuietStep DEF Dispatch, requestVars
  <2>3. ASSUME NEW i \in Instances, Replace(i)
        PROVE  UNCHANGED <<statusOf, replyOf, effects>>
    <3>1. \A q \in Requests : Running(q)' <=> Running(q)
      BY <2>3 DEF Replace, Running, IInv, TypeOK
    <3> QED
      BY <2>3, <3>1, QuietStep DEF Replace, requestVars
  <2>4. ASSUME NEW i \in Instances, Run(i)
        PROVE  Service!ServiceNext \/ UNCHANGED <<statusOf, replyOf, effects>>
    <3>0. serving[i] \in Requests
      BY <2>4 DEF IInv, TypeOK, ServingInv, Run, CallOnce, DecodeParams, Log, CallHost, PollAgain,
         UserStep, PollReady, Panic, EncodeReturn
    <3> PICK r \in Requests : r = serving[i]
      BY <3>0
    <3>1. CASE CallOnce(i)
      <4>1. UNCHANGED answer /\ UNCHANGED effects /\ Goto(i, "decode") /\ pc[i] = "enter"
        BY <3>1 DEF CallOnce, NeedsInit, requestVars, IInv, MemoryInv
      <4>2. \A q \in Requests : Running(q)' <=> Running(q)
        BY <4>1 DEF Goto, Running, IInv, TypeOK
      <4> QED
        BY <4>1, <4>2, QuietStep
    <3>2. CASE DecodeParams(i) /\ params[r] = "typed"
      <4>1. pc[i] = "decode" /\ Goto(i, "poll") /\ UNCHANGED requestVars
        BY <3>2 DEF DecodeParams
      <4>2. Running(r)'
        BY <4>1 DEF Goto, Running, IInv, TypeOK
      <4>3. \A q \in Requests : q # r => (Running(q)' <=> Running(q))
        BY <4>1 DEF Goto, Running, IInv, TypeOK
      <4>4. answer[r] = Pending
        BY <3>0, ProcedureRunAssumption DEF IInv, ServingInv, ProcedureRunAssumption
      <4>5. statusOf[r] = "waiting"
        BY <3>0, <4>1, StatusOfServed
      <4>6. statusOf' = [statusOf EXCEPT ![r] = "running"] /\ UNCHANGED <<replyOf, effects>>
        BY <3>0, <4>1, <4>2, <4>3, <4>4 DEF statusOf, replyOf, requestVars
      <4> QED
        BY <3>0, <4>5, <4>6 DEF Service!ServiceNext, Service!Start
    <3>3. CASE DecodeParams(i) /\ params[r] # "typed"
      <4>1. pc[i] = "decode" /\ Leave(i, "idle", Rejected)
        BY <3>3 DEF DecodeParams
      <4>2. statusOf[r] = "waiting"
        BY <3>0, <4>1, StatusOfServed
      <4>3. Service!Answer(r, "rejected")
        BY <4>1, LeaveIsAnswer, Kinds DEF Answers
      <4> QED
        BY <3>0, <4>2, <4>3 DEF Service!ServiceNext, Service!Reject
    <3>4. CASE Log(i) \/ PollAgain(i)
      <4>1. \A q \in Requests : Running(q)' <=> Running(q)
        BY <3>4 DEF Log, PollAgain, AfterPending, UserStep, Running, IInv, TypeOK
      <4> QED
        BY <3>4, <4>1, QuietStep DEF Log, PollAgain, UserStep
    <3>5. CASE CallHost(i)
      <4>1. /\ pc[i] = "poll" /\ effects' = [effects EXCEPT ![r] = @ + 1]
            /\ UNCHANGED <<answer, serving>>
            /\ pc' = pc \/ pc' = [pc EXCEPT ![i] = "encode"]
        BY <3>5 DEF CallHost, UserStep, Resolve
      <4>2. \A q \in Requests : Running(q)' <=> Running(q)
        BY <4>1 DEF Running, IInv, TypeOK
      <4>3. statusOf[r] = "running"
        BY <3>0, <4>1, StatusOfServed
      <4> QED
        BY <3>0, <4>1, <4>2, <4>3, QuietStep DEF Service!ServiceNext, Service!Effect
    <3>6. CASE PollReady(i)
      <4>1. pc[i] = "poll" /\ pc' = [pc EXCEPT ![i] = "encode"] /\ UNCHANGED <<answer, effects, serving>>
        BY <3>6 DEF PollReady, Resolve
      <4>2. \A q \in Requests : Running(q)' <=> Running(q)
        BY <4>1 DEF Running, IInv, TypeOK
      <4> QED
        BY <4>1, <4>2, QuietStep
    <3>7. CASE Panic(i) \/ EncodeReturn(i)
      <4>1. PICK next \in {"idle", "trapped"}, a \in Answers \ {Rejected} :
              pc[i] \in {"poll", "encode"} /\ Leave(i, next, a)
        <5>1. CASE Panic(i)
          BY <5>1, AnswersDiffer DEF Panic, Answers
        <5>2. CASE EncodeReturn(i)
          <6>1. encode(returned[r]) \in Answers \ {Rejected}
            BY <5>2, AnswersDiffer DEF EncodeReturn, encode, Answers, IInv, ReturnedInv
          <6> QED
            BY <5>2, <6>1 DEF EncodeReturn
        <5> QED
          BY <3>7, <5>1, <5>2
      <4>2. statusOf[r] = "running"
        BY <3>0, <4>1, StatusOfServed
      <4>3. \E kind \in {"returned", "failed"} : Service!Answer(r, kind)
        BY <4>1, LeaveIsAnswer, Kinds DEF Answers
      <4> QED
        BY <3>0, <4>2, <4>3 DEF Service!ServiceNext, Service!Finish
    <3> QED
      BY <2>4, <3>1, <3>2, <3>3, <3>4, <3>5, <3>6, <3>7 DEF Run
  <2> QED
    BY <2>1, <2>2, <2>3, <2>4 DEF Next
<1> QED
  BY <1>1, <1>2, Invariance, PTL DEF Spec, ImplementsService, Service!ServiceSpec
==============================================================================
