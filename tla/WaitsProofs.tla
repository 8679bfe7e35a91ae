------------------------------ MODULE WaitsProofs ----------------------------
(****************************************************************************)
(* Proofs about the two waits of MCWaits. BalanceWait: for all balances,    *)
(* timeouts and lengths of a request, and any node and ledger. StakeWait:   *)
(* for any finite set of validators, any stakes, threshold and timeout; the *)
(* stake of all of them is a fold over the set, which is reasoned about     *)
(* here from its defining equation.                                         *)
(****************************************************************************)
EXTENDS MCWaits, FiniteSetTheorems, WellFoundedInduction, TLAPS

------------------------------------------------------------------------------
(* The wait for a balance.                                                  *)

\* Where the clock of a poll can stand: requests are only made in time.
ClockInv ==
  /\ pc = "request" => elapsed <= Timeout
  /\ pc = "sleep" => elapsed <= Timeout + MaxCall
  /\ elapsed <= MaxElapsed

\* Until it is answered, a poll is part of an outage as long as its clock says.
OutageInv ==
  /\ pc \in {"request", "sleep", "clock"} => elapsed <= unanswered \/ unanswered = Outage
  /\ pc \in {"polled", "done"} => answer \in Balances \/ unanswered = Outage

\* A balance that was answered is one that the account had.
ReachedInv ==
  /\ balance \in reached
  /\ answer \in Balances => answer \in reached
  /\ pc = "done" => expected = NoBalance \/ answer \notin Balances \/ answer = expected

IInv == TypeOK /\ ClockInv /\ OutageInv /\ ReachedInv

\* Nothing was asked at first.
LEMMA Initially == Init => IInv
  BY BalanceWaitAssumption
  DEF Init, IInv, TypeOK, ClockInv, OutageInv, ReachedInv, Outage, MaxElapsed

\* What send returns, for every reply.
LEMMA SendTyped == ASSUME NEW r PROVE send(r) \in SendError \cup {"Ok"}
  BY DEF send, SendError

\* Every step keeps the invariant.
LEMMA StepKeeps == IInv /\ [Next]_vars => IInv'
<1> USE BalanceWaitAssumption
<1> SUFFICES ASSUME IInv, [Next]_vars PROVE IInv'
  OBVIOUS
<1>1. CASE Transfer
  BY <1>1 DEF Transfer, callVars, IInv, TypeOK, ClockInv, OutageInv, ReachedInv,
              Outage, MaxElapsed
<1>2. CASE NodeToggles
  BY <1>2 DEF NodeToggles, callVars, IInv, TypeOK, ClockInv, OutageInv, ReachedInv,
              Outage, MaxElapsed
<1>3. CASE Request
  <2> PICK r \in HostReply, d \in 0..MaxCall :
        \/ /\ send(r) = "Ok" /\ up
           /\ elapsed' = elapsed + d /\ unanswered' = 0
           /\ answer' = balance /\ pc' = "polled"
        \/ /\ send(r) # "Ok" /\ ~up
           /\ Elapse(d)
           /\ answer' = send(r) /\ pc' = AfterFailure
    BY <1>3 DEF Request
  <2>1. pc = "request" /\ UNCHANGED <<expected, balance, up, run, reached>>
    BY <1>3 DEF Request, worldVars
  <2>2. CASE send(r) = "Ok"
    BY <1>3, <2>1, <2>2
    DEF Elapse, IInv, TypeOK, ClockInv, OutageInv, ReachedInv, Outage, MaxElapsed
  <2>3. CASE send(r) # "Ok"
    <3>1. send(r) \in SendError /\ send(r) \notin Balances
      BY <2>3, SendTyped
    <3> QED
      BY <2>1, <2>3, <3>1
      DEF Elapse, AfterFailure, IInv, TypeOK, ClockInv, OutageInv, ReachedInv,
          Outage, MaxElapsed
  <2> QED
    BY <2>2, <2>3
<1>4. CASE Sleep
  BY <1>4 DEF Sleep, Elapse, worldVars, IInv, TypeOK, ClockInv, OutageInv, ReachedInv,
              Outage, MaxElapsed
<1>5. CASE CheckClock
  BY <1>5 DEF CheckClock, TimedOut, worldVars, IInv, TypeOK, ClockInv, OutageInv,
              ReachedInv, Outage, MaxElapsed
<1>6. CASE Polled
  BY <1>6 DEF Polled, Settles, Arrived, NextRun, worldVars, IInv, TypeOK, ClockInv,
              OutageInv, ReachedInv, Outage, MaxElapsed
<1>7. CASE UNCHANGED vars
  BY <1>7 DEF vars, callVars, worldVars, IInv, TypeOK, ClockInv, OutageInv, ReachedInv,
              Outage, MaxElapsed
<1> QED
  BY <1>1, <1>2, <1>3, <1>4, <1>5, <1>6, <1>7 DEF Next, Client

\* The invariant holds in every reachable state.
LEMMA Invariance == Spec => []IInv
BY StepKeeps, Initially, PTL DEF Spec

------------------------------------------------------------------------------

\* Every variable keeps its type; a failed request is an error of a known kind.
THEOREM TypeCorrect == Spec => []TypeOK
<1>1. IInv => TypeOK
  BY DEF IInv
<1> QED
  BY <1>1, Invariance, PTL

\* What a call returns is what happened: an error only after an outage longer than
\* the timeout, a balance only if the account has had it and the wait was for it
\* (client.rs:1316-1371).
THEOREM AnswersAreHonest == Spec => []AnswerIsHonest
<1>1. IInv => ErrorMeansOutage
  BY DEF IInv, OutageInv, ErrorMeansOutage
<1>2. IInv => SuccessMeansReached
  BY DEF IInv, ReachedInv, SuccessMeansReached
<1>3. IInv => AnswerIsHonest
  BY <1>1, <1>2 DEF AnswerIsHonest
<1> QED
  BY <1>3, Invariance, PTL

\* No poll outlives its timeout by more than a sleep and a request
\* (client.rs:1321-1326).
THEOREM PollIsBounded == Spec => []PollBounded
<1>1. IInv => PollBounded
  BY DEF IInv, ClockInv, PollBounded
<1> QED
  BY <1>1, Invariance, PTL

------------------------------------------------------------------------------
(* Numbers: the least and the greatest of a set.                            *)

\* A set of numbers has a least one.
LEMMA Least ==
  ASSUME NEW T \in SUBSET Nat, T # {}
  PROVE  \E n \in T : \A m \in T : n <= m
<1>1. PICK n \in T : \A m \in T : <<m, n>> \notin OpToRel(<, Nat)
  BY WFMin, NatLessThanWellFounded, Zenon
<1>2. \A m \in T : ~(m < n)
  BY <1>1, Zenon DEF OpToRel
<1> QED
  BY <1>2

\* Max gives the greatest number of a set that has a bound.
LEMMA Greatest ==
  ASSUME NEW T \in SUBSET Nat, T # {}, NEW b \in Nat, \A n \in T : n <= b
  PROVE  S!Max(T) \in T /\ \A m \in T : m <= S!Max(T)
<1> DEFINE U == {b - n : n \in T}
<1>1. U \in SUBSET Nat /\ U # {}
  <2>1. \A n \in T : n \in Nat /\ n <= b
    OBVIOUS
  <2>2. \A n \in T : b - n \in Nat
    BY <2>1
  <2> QED
    BY <2>2
<1>2. PICK u \in U : \A m \in U : u <= m
  <2> HIDE DEF U
  <2> QED
    BY <1>1, Least
<1>3. PICK n \in T : u = b - n
  OBVIOUS
<1>4. \A m \in T : n >= m
  BY <1>2, <1>3
<1>5. S!Max(T) \in T /\ \A m \in T : S!Max(T) >= m
  BY <1>4 DEF S!Max
<1> QED
  BY <1>5

------------------------------------------------------------------------------
(* Sums over a finite set.                                                  *)

\* The element that a fold takes next.
AnyOf(s) == CHOOSE x \in s : TRUE

\* One step of the sum: an element, and what g says of the others.
SumStep(f, g, s) == IF s = {} THEN 0 ELSE f[AnyOf(s)] + g[s \ {AnyOf(s)}]

\* What is left without one element is smaller.
LEMMA Without ==
  ASSUME NEW R, IsFiniteSet(R), NEW s \in SUBSET R, s # {}
  PROVE  /\ AnyOf(s) \in s /\ AnyOf(s) \in R /\ s \ {AnyOf(s)} \in SUBSET R
         /\ Cardinality(s) \in Nat /\ Cardinality(s) > 0
         /\ Cardinality(s \ {AnyOf(s)}) = Cardinality(s) - 1
<1>1. AnyOf(s) \in s
  BY DEF AnyOf
<1>2. IsFiniteSet(s)
  BY FS_Subset
<1>3. Cardinality(s) \in Nat /\ Cardinality(s) # 0
  BY <1>2, FS_CardinalityType, FS_EmptySet
<1>4. Cardinality(s \ {AnyOf(s)}) = Cardinality(s) - 1
  BY <1>1, <1>2, FS_RemoveElement
<1> QED
  BY <1>1, <1>3, <1>4

\* There is a function that sums: the equation of the fold has a solution.
LEMMA SumExists ==
  ASSUME NEW R, IsFiniteSet(R), NEW f \in [R -> Nat]
  PROVE  \E g : g = [s \in SUBSET R |-> SumStep(f, g, s)]
<1> DEFINE Solves(g, n) ==
             \A s \in SUBSET R : Cardinality(s) <= n => g[s] = SumStep(f, g, s)
           T == {n \in Nat : ~ \E g \in [SUBSET R -> Nat] : Solves(g, n)}
<1>1. T = {}
  <2> SUFFICES ASSUME T # {} PROVE FALSE
    OBVIOUS
  <2>1. PICK n \in T : \A m \in T : n <= m
    <3>1. T \in SUBSET Nat
      OBVIOUS
    <3> HIDE DEF T
    <3> QED
      BY <3>1, Least
  <2>2. n \in Nat /\ ~ \E g \in [SUBSET R -> Nat] : Solves(g, n)
    OBVIOUS
  <2>3. CASE n = 0
    <3> DEFINE g == [s \in SUBSET R |-> 0]
    <3>1. ASSUME NEW s \in SUBSET R, Cardinality(s) <= 0
          PROVE  g[s] = SumStep(f, g, s)
      <4>1. s # {} => Cardinality(s) \in Nat /\ Cardinality(s) > 0
        BY Without
      <4>2. s = {}
        BY <3>1, <4>1
      <4> QED
        BY <4>2 DEF SumStep
    <3>2. g \in [SUBSET R -> Nat]
      OBVIOUS
    <3> HIDE DEF g
    <3> QED
      BY <2>2, <2>3, <3>1, <3>2
  <2>4. CASE n # 0
    <3>1. n - 1 \in Nat /\ n - 1 \notin T
      <4> HIDE DEF T
      <4> QED
        BY <2>1, <2>2, <2>4
    <3>2. PICK g \in [SUBSET R -> Nat] : Solves(g, n - 1)
      BY <3>1
    <3> DEFINE h == [s \in SUBSET R |-> IF Cardinality(s) = n THEN SumStep(f, g, s) ELSE g[s]]
    <3>3. ASSUME NEW s \in SUBSET R PROVE SumStep(f, g, s) \in Nat
      <4>1. s # {} => f[AnyOf(s)] \in Nat /\ g[s \ {AnyOf(s)}] \in Nat
        BY Without
      <4> QED
        BY <4>1 DEF SumStep
    <3>4. h \in [SUBSET R -> Nat]
      BY <3>3
    <3>5. ASSUME NEW s \in SUBSET R, Cardinality(s) <= n
          PROVE  h[s] = SumStep(f, h, s)
      <4>1. SumStep(f, h, s) = SumStep(f, g, s)
        <5>1. CASE s = {}
          BY <5>1 DEF SumStep
        <5>2. CASE s # {}
          <6> DEFINE r == s \ {AnyOf(s)}
          <6>1. r \in SUBSET R /\ Cardinality(r) # n
            BY <2>2, <3>5, <5>2, Without
          <6>2. h[r] = g[r]
            BY <6>1
          <6> QED
            BY <5>2, <6>2 DEF SumStep
        <5> QED
          BY <5>1, <5>2
      <4>2. Cardinality(s) # n => Cardinality(s) <= n - 1
        <5>1. Cardinality(s) \in Nat
          BY FS_Subset, FS_CardinalityType
        <5> QED
          BY <2>2, <3>5, <5>1
      <4>3. h[s] = SumStep(f, g, s)
        BY <3>2, <4>2
      <4> QED
        BY <4>1, <4>3
    <3>6. Solves(h, n)
      BY <3>5
    <3> HIDE DEF h
    <3> QED
      BY <2>2, <3>4, <3>6
  <2> QED
    BY <2>3, <2>4
<1>2. Cardinality(R) \in Nat /\ \A s \in SUBSET R : Cardinality(s) <= Cardinality(R)
  BY FS_CardinalityType, FS_Subset
<1>3. PICK g \in [SUBSET R -> Nat] : Solves(g, Cardinality(R))
  BY <1>1, <1>2
<1>4. \A s \in SUBSET R : g[s] = SumStep(f, g, s)
  BY <1>2, <1>3
<1>5. g = [s \in SUBSET R |-> SumStep(f, g, s)]
  BY <1>4
<1> QED
  BY <1>5

\* What any such function gives: a number, and 0 when there is nothing but zeros.
LEMMA SumValue ==
  ASSUME NEW R, IsFiniteSet(R), NEW f \in [R -> Nat],
         NEW g, \A s \in SUBSET R : g[s] = SumStep(f, g, s)
  PROVE  g[R] \in Nat /\ ((\A v \in R : f[v] = 0) => g[R] = 0)
<1> DEFINE Good(s) == g[s] \in Nat /\ ((\A v \in R : f[v] = 0) => g[s] = 0)
           T == {n \in Nat : \E s \in SUBSET R : Cardinality(s) = n /\ ~Good(s)}
<1>1. T = {}
  <2> SUFFICES ASSUME T # {} PROVE FALSE
    OBVIOUS
  <2>1. PICK n \in T : \A m \in T : n <= m
    <3>1. T \in SUBSET Nat
      OBVIOUS
    <3> HIDE DEF T
    <3> QED
      BY <3>1, Least
  <2>2. PICK s \in SUBSET R : Cardinality(s) = n /\ ~Good(s)
    OBVIOUS
  <2>3. s # {}
    BY <2>2 DEF SumStep
  <2> DEFINE r == s \ {AnyOf(s)}
  <2>4. r \in SUBSET R /\ AnyOf(s) \in R /\ Cardinality(r) = n - 1 /\ n \in Nat /\ n - 1 \in Nat
    BY <2>2, <2>3, Without
  <2>5. Good(r)
    <3>1. n - 1 \notin T
      <4> HIDE DEF T
      <4> QED
        BY <2>1, <2>4
    <3> QED
      BY <2>4, <3>1
  <2>6. g[s] = f[AnyOf(s)] + g[r]
    BY <2>3 DEF SumStep
  <2>7. Good(s)
    BY <2>4, <2>5, <2>6
  <2> QED
    BY <2>2, <2>7
<1>2. Cardinality(R) \in Nat
  BY FS_CardinalityType
<1>3. Good(R)
  BY <1>1, <1>2
<1> QED
  BY <1>3

\* So does MapThenSumSet.
LEMMA SumOfSet ==
  ASSUME NEW R, IsFiniteSet(R), NEW f \in [R -> Nat]
  PROVE  /\ S!MapThenSumSet(LAMBDA v : f[v], R) \in Nat
         /\ (\A v \in R : f[v] = 0) => S!MapThenSumSet(LAMBDA v : f[v], R) = 0
<1> DEFINE iter == CHOOSE g : g = [s \in SUBSET R |-> SumStep(f, g, s)]
<1>1. S!MapThenSumSet(LAMBDA v : f[v], R) = iter[R]
  BY DEF S!MapThenSumSet, S!MapThenFoldSet, SumStep, AnyOf
<1>2. iter = [s \in SUBSET R |-> SumStep(f, iter, s)]
  BY SumExists
<1> HIDE DEF iter
<1>3. \A s \in SUBSET R : iter[s] = SumStep(f, iter, s)
  BY <1>2
<1> QED
  BY <1>1, <1>3, SumValue

------------------------------------------------------------------------------
(* The wait for the stake.                                                  *)

\* The largest stake is that of a validator, or 0 if there is none, and nobody has more.
LEMMA MaxActiveStakeIs ==
  ASSUME NEW accounts \in S!VoteAccounts
  PROVE  LET max == S!MaxActiveStake(accounts) IN
         /\ max \in Nat
         /\ max = 0 \/ \E v \in Validators : max = accounts.stake[v]
         /\ \A v \in Validators : accounts.stake[v] <= max
<1> DEFINE T == {0} \cup {accounts.stake[v] : v \in Validators}
<1>1. MaxStake \in Nat /\ \A v \in Validators : accounts.stake[v] \in 0..MaxStake
  BY WaitsAssumption DEF WaitsAssumption, S!VoteAccounts
<1>2. T \in SUBSET Nat /\ T # {} /\ \A n \in T : n <= MaxStake
  BY <1>1
<1>3. S!MaxActiveStake(accounts) = S!Max(T)
  BY DEF S!MaxActiveStake, S!Counted
<1>4. S!Max(T) \in T /\ \A m \in T : m <= S!Max(T)
  <2> HIDE DEF T
  <2> QED
    BY <1>1, <1>2, Greatest
<1> QED
  BY <1>2, <1>3, <1>4

\* The comparison of the largest stake with the total is one of every stake with it:
\* BelowThreshold is false exactly when someone is at the threshold or above it,
\* or there is no stake.
LEMMA BelowMeansEveryone ==
  ASSUME NEW accounts \in S!VoteAccounts
  PROVE  S!BelowThreshold(accounts) <=> ~S!TooConcentrated(accounts)
<1> DEFINE total == S!MapThenSumSet(LAMBDA v : accounts.stake[v], Validators)
           max == S!MaxActiveStake(accounts)
           least == Threshold * total
<1>1. IsFiniteSet(Validators) /\ Threshold \in Nat /\ accounts.stake \in [Validators -> Nat]
  BY WaitsAssumption DEF WaitsAssumption, S!VoteAccounts
<1>2. total \in Nat /\ ((\A v \in Validators : accounts.stake[v] = 0) => total = 0)
  BY <1>1, SumOfSet
<1>3. /\ max \in Nat
      /\ max = 0 \/ \E v \in Validators : max = accounts.stake[v]
      /\ \A v \in Validators : accounts.stake[v] <= max
  BY MaxActiveStakeIs
<1>4. S!BelowThreshold(accounts) <=> total # 0 /\ 100 * max < least
  BY DEF S!BelowThreshold, S!TotalActiveStake, S!Counted
<1>5. S!TooConcentrated(accounts) <=>
        \/ \A v \in Validators : accounts.stake[v] = 0
        \/ \E v \in Validators : 100 * accounts.stake[v] >= least
  BY DEF S!TooConcentrated
<1>6. least \in Nat /\ (total = 0 => least = 0)
  <2> HIDE DEF total
  <2> QED
    BY <1>1, <1>2
<1> HIDE DEF total, max, least
<1>7. ASSUME total # 0, 100 * max < least
      PROVE  ~S!TooConcentrated(accounts)
  BY <1>1, <1>2, <1>3, <1>5, <1>6, <1>7
<1>8. ASSUME total = 0 \/ 100 * max >= least
      PROVE  S!TooConcentrated(accounts)
  <2>1. 100 * max >= least
    BY <1>3, <1>6, <1>8
  <2>2. CASE \E v \in Validators : max = accounts.stake[v]
    BY <1>5, <2>1, <2>2
  <2>3. CASE max = 0
    BY <1>1, <1>3, <1>5, <2>3
  <2> QED
    BY <1>3, <2>2, <2>3
<1> QED
  BY <1>3, <1>4, <1>6, <1>7, <1>8

\* The call has a result exactly when it has returned.
StakeReturnedInv == (stakePc = "done") <=> (result # "none")

StakeInv == StakeTypeOK /\ StakeReturnedInv /\ VerdictFitsLastReply

\* The waits start with all stakes in range, and no result.
LEMMA StakeInitially == S!Init => StakeInv
BY WaitsAssumption, BalanceWaitAssumption
DEF WaitsAssumption, BalanceWaitAssumption, S!Init, StakeInv, StakeTypeOK, StakeReturnedInv,
    VerdictFitsLastReply, S!VerdictFitsLastReply, S!TypeOK, S!MaxElapsed, S!VoteAccounts

\* The clock stays in range.
LEMMA ElapseInRange ==
  ASSUME NEW d \in Nat, stakeElapsed \in 0..(S!MaxElapsed + 1), S!Elapse(d)
  PROVE  stakeElapsed' \in 0..(S!MaxElapsed + 1)
<1>1. S!MaxElapsed \in Nat
  BY WaitsAssumption, BalanceWaitAssumption DEF WaitsAssumption, BalanceWaitAssumption, S!MaxElapsed
<1> QED
  BY <1>1 DEF S!Elapse

\* Every step of the wait keeps the invariant: the verdict is about the reply that was
\* compared, and the reply stays.
LEMMA StakeStepKeeps == StakeInv /\ [S!Next]_stakeVars => StakeInv'
<1> SUFFICES ASSUME StakeInv, [S!Next]_stakeVars PROVE StakeInv'
  OBVIOUS
<1> USE DEF StakeInv, StakeTypeOK, StakeReturnedInv, VerdictFitsLastReply, S!VerdictFitsLastReply
<1>1. CASE S!Delegate
  <2>1. stake' \in [Validators -> 0..MaxStake]
    BY <1>1 DEF S!Delegate, S!TypeOK
  <2> QED
    BY <1>1, <2>1 DEF S!Delegate, S!TypeOK
<1>2. CASE S!VotingChanges
  BY <1>2 DEF S!VotingChanges, S!TypeOK
<1>3. CASE S!Request
  <2> PICK hostReply \in S!HostReply, d \in 0..MaxCall :
        /\ S!Elapse(d)
        /\ IF S!send(hostReply) = "Ok"
           THEN /\ reply' = [stake |-> stake, delinquent |-> delinquent]
                /\ stakePc' = "compare" /\ UNCHANGED result
           ELSE S!Return(S!send(hostReply)) /\ UNCHANGED reply
    BY <1>3 DEF S!Request
  <2>1. stakePc = "request" /\ UNCHANGED <<stake, delinquent, timed>> /\ result = "none"
    BY <1>3 DEF S!Request, S!ledgerVars
  <2>2. stakeElapsed' \in 0..(S!MaxElapsed + 1)
    BY BalanceWaitAssumption, ElapseInRange DEF BalanceWaitAssumption, S!TypeOK
  <2>3. CASE S!send(hostReply) = "Ok"
    <3>1. reply' \in S!VoteAccounts
      BY <2>3 DEF S!VoteAccounts, S!TypeOK
    <3> QED
      BY <2>1, <2>2, <2>3, <3>1 DEF S!TypeOK
  <2>4. CASE S!send(hostReply) # "Ok"
    <3>1. S!send(hostReply) \in S!SendError
      BY <2>4 DEF S!send, S!SendError
    <3>2. stakePc' = "done" /\ result' \in S!SendError /\ reply' = reply
      BY <2>4, <3>1 DEF S!Return
    <3> QED
      BY <2>1, <2>2, <3>2 DEF S!TypeOK, S!SendError
  <2> QED
    BY <2>3, <2>4
<1>4. CASE S!Look
  <2>1. /\ stakePc = "compare" /\ result = "none"
        /\ UNCHANGED <<stake, delinquent, timed, stakeElapsed, reply>>
        /\ reply \in S!VoteAccounts
    BY <1>4 DEF S!Look, S!ledgerVars, S!TypeOK
  <2>2. S!BelowThreshold(reply) <=> ~S!TooConcentrated(reply)
    BY <2>1, BelowMeansEveryone
  <2>3. S!TooConcentrated(reply)' <=> S!TooConcentrated(reply)
    BY <2>1, Zenon
  <2>4. S!TypeOK'
    BY <1>4, <2>1 DEF S!Look, S!Compare, S!Return, S!TypeOK
  <2>5. (stakePc' = "done") <=> (result' # "none")
    BY <1>4, <2>1 DEF S!Look, S!Compare, S!Return
  <2>6. /\ result' = "Ok" => S!BelowThreshold(reply)
        /\ result' = "TimedOut" => ~S!BelowThreshold(reply) /\ timed /\ stakeElapsed > StakeTimeout
    BY <1>4, <2>1 DEF S!Look, S!Compare, S!Return
  <2> QED
    BY <2>1, <2>2, <2>3, <2>4, <2>5, <2>6
<1>5. CASE S!Sleep
  <2>1. stakeElapsed' \in 0..(S!MaxElapsed + 1)
    BY <1>5, ElapseInRange DEF S!Sleep, S!TypeOK
  <2> QED
    BY <1>5, <2>1 DEF S!Sleep, S!ledgerVars, S!TypeOK
<1>6. CASE UNCHANGED stakeVars
  BY <1>6 DEF stakeVars, S!TypeOK
<1> QED
  BY <1>1, <1>2, <1>3, <1>4, <1>5, <1>6 DEF S!Next, S!Client

\* The invariants of both waits, whichever the procedure calls.
THEOREM WaitsInvariance == MCSpec => [](IInv /\ StakeInv)
<1>1. MCInit => IInv /\ StakeInv
  BY Initially, StakeInitially DEF MCInit
<1>2. [MCNext]_<<call, vars, stakeVars>> => [Next]_vars /\ [S!Next]_stakeVars
  BY DEF MCNext, BalanceStep, StakeStep
<1> QED
  BY <1>1, <1>2, StepKeeps, StakeStepKeeps, PTL DEF MCSpec

\* Also where a procedure has the choice of the waits, the answer of a wait for a balance
\* is what happened (client.rs:1316-1371).
THEOREM AnswersStayHonest == MCSpec => []AnswerIsHonest
<1>1. IInv => AnswerIsHonest
  BY DEF IInv, OutageInv, ReachedInv, ErrorMeansOutage, SuccessMeansReached, AnswerIsHonest
<1> QED
  BY <1>1, WaitsInvariance, PTL

\* Every variable of a wait for the stake keeps its type, and a failed request ends it
\* with one of the errors of send (client.rs:478-517).
THEOREM StakeTypeCorrect == MCSpec => []StakeTypeOK
<1>1. StakeInv => StakeTypeOK
  BY DEF StakeInv
<1> QED
  BY <1>1, WaitsInvariance, PTL

\* For any number of validators, Ok means that in the last reply everyone was below
\* the threshold, and a timeout that someone was not, or nobody had stake
\* (client.rs:487-508).
THEOREM VerdictsFit == MCSpec => []VerdictFitsLastReply
<1>1. StakeInv => VerdictFitsLastReply
  BY DEF StakeInv
<1> QED
  BY <1>1, WaitsInvariance, PTL
==============================================================================
