-------------------------- MODULE SignaturePollProofs ------------------------
(****************************************************************************)
(* Safety of the two signature loops for every limit, clock resolution,     *)
(* duration of a request, commitment and chain.                             *)
(****************************************************************************)
EXTENDS SignaturePoll, TLAPS

\* The loop has a result exactly when it has ended, and which results belong to
\* which loop.
ResultInv ==
  /\ pc = "done" <=> result # "none"
  /\ result = "Found" => op = "signature"
  /\ result = "Count" => op = "confirmation"
  /\ op = "signature" => confirmed = 0

\* How far the clock can be at each point of the loop.
ClockInv ==
  /\ pc \in {"clock", "done"} => elapsed <= MaxElapsed
  /\ pc = "request" => elapsed <= (Limit + 1) * TicksPerSecond
  /\ pc = "sleep" => elapsed < (Limit + 1) * TicksPerSecond

\* The clock of the second loop is the time since the last change.
QuietInv == op = "confirmation" => quiet = IF elapsed < Stall THEN elapsed ELSE Stall

\* On one fork a count that was seen stays reached.
DepthInv ==
  (confirmed > 0 \/ result = "Count") /\ reorgs = 0 => landed # 0 /\ confirmed <= Confirmations

IInv ==
  /\ TypeOK /\ tip <= MaxHeight
  /\ ResultInv /\ ClockInv /\ QuietInv /\ DepthInv
  /\ FoundMeansLanded /\ ShortOnlyAfterStall

------------------------------------------------------------------------------
(* Arithmetic of the clock.                                                 *)

\* as_secs() > limit fires exactly from limit + 1 full seconds on.
LEMMA ExpiredFrom ==
  ASSUME elapsed \in Nat, op \in Operations
  PROVE  Expired <=> elapsed >= (Limit + 1) * TicksPerSecond
<1> DEFINE q == elapsed \div TicksPerSecond
           m == elapsed % TicksPerSecond
<1>1. Limit \in Nat /\ TicksPerSecond \in Nat /\ TicksPerSecond > 0
  BY SignaturePollAssumption DEF SignaturePollAssumption, Limit
<1>2. q \in Nat /\ m \in 0..(TicksPerSecond - 1) /\ elapsed = q * TicksPerSecond + m
  BY <1>1
<1> HIDE DEF q, m
<1>3. CASE q > Limit
  <2>1. q >= Limit + 1
    BY <1>1, <1>2, <1>3
  <2>2. q * TicksPerSecond >= (Limit + 1) * TicksPerSecond
    BY <1>1, <1>2, <2>1
  <2>3. Expired
    BY <1>3 DEF q, Expired
  <2> QED
    BY <1>1, <1>2, <2>2, <2>3
<1>4. CASE ~(q > Limit)
  <2>1. q <= Limit
    BY <1>1, <1>2, <1>4
  <2>2. q * TicksPerSecond <= Limit * TicksPerSecond
    BY <1>1, <1>2, <2>1
  <2>3. elapsed < Limit * TicksPerSecond + TicksPerSecond
    BY <1>1, <1>2, <2>2
  <2>4. Limit * TicksPerSecond + TicksPerSecond = (Limit + 1) * TicksPerSecond
    BY <1>1
  <2>5. ~Expired
    BY <1>4 DEF q, Expired
  <2> QED
    BY <1>1, <2>3, <2>4, <2>5
<1> QED
  BY <1>3, <1>4

\* The bounds are natural numbers, and the second loop's limit is Stall.
LEMMA Bounds ==
  ASSUME op \in Operations
  PROVE  /\ Stall \in Nat /\ (Limit + 1) * TicksPerSecond \in Nat /\ MaxElapsed \in Nat
         /\ Stall > 0
         /\ MaxElapsed = (Limit + 1) * TicksPerSecond + MaxCall
         /\ op = "confirmation" => Stall = (Limit + 1) * TicksPerSecond
<1>1. /\ Limit \in Nat /\ TicksPerSecond \in Nat /\ TicksPerSecond > 0 /\ MaxCall \in Nat
      /\ ConfirmationLimit \in Nat
  BY SignaturePollAssumption DEF SignaturePollAssumption, Limit
<1>2. (Limit + 1) * TicksPerSecond \in Nat /\ (ConfirmationLimit + 1) * TicksPerSecond > 0
  BY <1>1
<1> QED
  BY <1>1, <1>2 DEF Stall, MaxElapsed, Limit

------------------------------------------------------------------------------
(* The invariant.                                                           *)

LEMMA InitIInv == Init => IInv
<1> SUFFICES ASSUME Init PROVE IInv
    OBVIOUS
<1> USE LedgerAssumption, SignaturePollAssumption, Bounds
    DEF LedgerAssumption, SignaturePollAssumption, Init, InitLedger, Operations
<1>1. TypeOK
  <2>1. txOk \in BOOLEAN /\ submitted \in BOOLEAN /\ durable \in BOOLEAN /\ seen \in BOOLEAN
    OBVIOUS
  <2>2. /\ tip \in Nat /\ conf \in 0..tip /\ root \in 0..conf
        /\ landed \in 0..tip /\ reorgs \in 0..MaxReorgs
    OBVIOUS
  <2> QED
    BY <2>1, <2>2 DEF TypeOK, LedgerTypeOK
<1>2. tip <= MaxHeight /\ ResultInv /\ ClockInv /\ QuietInv /\ DepthInv
  BY DEF ResultInv, ClockInv, QuietInv, DepthInv
<1>3. FoundMeansLanded /\ ShortOnlyAfterStall
  BY DEF FoundMeansLanded, ShortOnlyAfterStall
<1> QED
  BY <1>1, <1>2, <1>3 DEF IInv

\* The cluster deepens a block or, by a fork, makes the promises void.
LEMMA ClusterStep == IInv /\ Cluster => IInv'
<1> SUFFICES ASSUME IInv, Cluster PROVE IInv'
    OBVIOUS
<1> USE LedgerAssumption, SignaturePollAssumption
    DEF LedgerAssumption, SignaturePollAssumption, IInv, TypeOK, LedgerTypeOK,
    Commitments, Cluster, pollVars
<1>1. ResultInv' /\ ClockInv' /\ QuietInv' /\ ShortOnlyAfterStall'
  BY DEF ResultInv, ClockInv, QuietInv, ShortOnlyAfterStall, Limit, Stall, MaxElapsed
<1>2. CASE NewBlock
  BY <1>1, <1>2 DEF NewBlock, CanLand, DepthInv, Confirmations, FoundMeansLanded, Frontier, ResultInv
<1>3. CASE Confirm
  BY <1>1, <1>3 DEF Confirm, DepthInv, Confirmations, FoundMeansLanded, Frontier
<1>4. CASE Finalize
  BY <1>1, <1>4 DEF Finalize, DepthInv, Confirmations, FoundMeansLanded, Frontier
<1>5. CASE Reorg
  BY <1>1, <1>5 DEF Reorg, DepthInv, FoundMeansLanded, Frontier
<1> QED
  BY <1>2, <1>3, <1>4, <1>5 DEF LedgerNext

\* A request that leads nowhere, or a sleep, moves both clocks alike.
LEMMA ClocksAgree ==
  ASSUME IInv, NEW d \in Nat, Elapse(d), UNCHANGED op
  PROVE  elapsed' \in Nat /\ quiet' \in 0..Stall /\ QuietInv'
BY Bounds DEF Elapse, Quieter, QuietInv, IInv, TypeOK, Stall

LEMMA ClientStep == IInv /\ Client => IInv'
<1> SUFFICES ASSUME IInv, Client PROVE IInv'
    OBVIOUS
<1> USE LedgerAssumption, SignaturePollAssumption
    DEF LedgerAssumption, SignaturePollAssumption, IInv, TypeOK, LedgerTypeOK,
    Commitments, ledgerVars, Operations, Continue, Return
<1>b. /\ Stall \in Nat /\ MaxElapsed \in Nat /\ (Limit + 1) * TicksPerSecond \in Nat
      /\ MaxElapsed = (Limit + 1) * TicksPerSecond + MaxCall
      /\ op = "confirmation" => Stall = (Limit + 1) * TicksPerSecond
  BY Bounds
<1>p. UNCHANGED op /\ UNCHANGED ledgerVars => UNCHANGED <<Limit, MaxElapsed, Stall>>
  BY DEF Limit, MaxElapsed, Stall
<1>1. CASE RequestFails
  <2> PICK d \in 0..MaxCall :
        /\ Elapse(d) /\ UNCHANGED <<ledgerVars, op, confirmed, seen>>
        /\ pc = "request"
        /\ \/ pc' = "done" /\ result' = "Trap"
           \/ pc' = "clock" /\ UNCHANGED result
    BY <1>1 DEF RequestFails
  <2>1. elapsed' = elapsed + d
    BY DEF Elapse
  <2>2. elapsed' \in Nat /\ quiet' \in 0..Stall /\ QuietInv'
    BY ClocksAgree
  <2>3. ClockInv'
    BY <2>1, <1>b, <1>p DEF ClockInv, Limit
  <2>4. ResultInv' /\ DepthInv' /\ FoundMeansLanded' /\ ShortOnlyAfterStall' /\ result' # "Count"
    BY DEF ResultInv, DepthInv, FoundMeansLanded, ShortOnlyAfterStall, Confirmations, Frontier
  <2> QED
    BY <2>2, <2>3, <2>4, <1>p DEF Stall
<1>2. CASE PollSignature
  <2> PICK d \in 0..MaxCall :
        /\ Elapse(d) /\ UNCHANGED <<ledgerVars, op, confirmed>>
        /\ op = "signature" /\ pc = "request" /\ seen' \in BOOLEAN
        /\ \/ pc' = "done" /\ result' = "Found" /\ landed # 0 /\ landed <= Frontier(Commitment)
           \/ pc' = "clock" /\ UNCHANGED result
    BY <1>2 DEF PollSignature, get_signature_status
  <2>1. elapsed' = elapsed + d
    BY DEF Elapse
  <2>2. elapsed' \in Nat /\ quiet' \in 0..Stall /\ QuietInv'
    BY ClocksAgree
  <2>3. ClockInv'
    BY <2>1, <1>b, <1>p DEF ClockInv
  <2>4. ResultInv' /\ DepthInv' /\ FoundMeansLanded' /\ ShortOnlyAfterStall'
    BY DEF ResultInv, DepthInv, FoundMeansLanded, ShortOnlyAfterStall, Confirmations, Frontier
  <2> QED
    BY <2>2, <2>3, <2>4, <1>p DEF Stall
<1>3. CASE PollConfirmation
  <2>0. /\ op = "confirmation" /\ pc = "request"
        /\ UNCHANGED <<ledgerVars, op>>
        /\ seen' \in BOOLEAN
    BY <1>3 DEF PollConfirmation
  <2>1. PICK d \in 0..MaxCall :
          \/ get_num_blocks(landed # 0) = {} /\ Elapse(d) /\ Continue("clock") /\ UNCHANGED confirmed
          \/ \E count \in get_num_blocks(landed # 0) :
               /\ Restart(count # confirmed, d)
               /\ quiet' = IF count # confirmed THEN 0 ELSE Quieter(d)
               /\ confirmed' = count
               /\ IF Enough(count) THEN Return("Count") ELSE Continue("clock")
    BY <1>3 DEF PollConfirmation
  <2>2. CASE Elapse(d) /\ Continue("clock") /\ UNCHANGED confirmed
    <3>1. elapsed' = elapsed + d
      BY <2>2 DEF Elapse
    <3>2. elapsed' \in Nat /\ quiet' \in 0..Stall /\ QuietInv'
      BY <2>0, <2>2, ClocksAgree
    <3>3. ClockInv'
      BY <2>0, <2>2, <3>1, <1>b, <1>p DEF ClockInv
    <3>4. ResultInv' /\ DepthInv' /\ FoundMeansLanded' /\ ShortOnlyAfterStall'
      BY <2>0, <2>2 DEF ResultInv, DepthInv, FoundMeansLanded, ShortOnlyAfterStall, Confirmations, Frontier
    <3> QED
      BY <2>0, <2>2, <3>2, <3>3, <3>4, <1>p DEF Stall
  <2>3. CASE \E count \in get_num_blocks(landed # 0) :
               /\ Restart(count # confirmed, d)
               /\ quiet' = IF count # confirmed THEN 0 ELSE Quieter(d)
               /\ confirmed' = count
               /\ IF Enough(count) THEN Return("Count") ELSE Continue("clock")
    <3> PICK count \in get_num_blocks(landed # 0) :
               /\ Restart(count # confirmed, d)
               /\ quiet' = IF count # confirmed THEN 0 ELSE Quieter(d)
               /\ confirmed' = count
               /\ IF Enough(count) THEN Return("Count") ELSE Continue("clock")
      BY <2>3
    <3>1. landed # 0 /\ count = Confirmations
      BY DEF get_num_blocks
    <3>2. count \in 0..RootedCount
      BY <3>1 DEF Confirmations
    <3>3. elapsed' = IF count # confirmed THEN 0 ELSE elapsed + d
      BY DEF Restart
    <3>4. elapsed' \in Nat /\ quiet' \in 0..Stall /\ QuietInv'
      BY <2>0, <3>3, <1>b, <1>p DEF QuietInv, Quieter, Stall
    <3>5. ClockInv'
      BY <2>0, <3>3, <1>b, <1>p DEF ClockInv
    <3>6. DepthInv' /\ ResultInv' /\ FoundMeansLanded'
      BY <2>0, <3>1 DEF DepthInv, Confirmations, ResultInv, FoundMeansLanded, Frontier
    <3>7. ShortOnlyAfterStall'
      BY <2>0, <3>2 DEF ShortOnlyAfterStall, Enough, ResultInv
    <3> QED
      BY <2>0, <3>2, <3>4, <3>5, <3>6, <3>7, <1>p DEF Stall
  <2> QED
    BY <2>1, <2>2, <2>3
<1>4. CASE CheckClock
  <2>0. /\ pc = "clock" /\ UNCHANGED <<ledgerVars, op, elapsed, confirmed, seen, quiet>>
        /\ IF Expired
           THEN Return(IF op = "confirmation" /\ confirmed > 0 THEN "Count" ELSE "NotFound")
           ELSE Continue("sleep")
    BY <1>4 DEF CheckClock
  <2>1. ClockInv'
    BY <2>0, ExpiredFrom, <1>b, <1>p DEF ClockInv
  <2>2. QuietInv' /\ ResultInv' /\ FoundMeansLanded'
    BY <2>0, <1>p DEF QuietInv, ResultInv, FoundMeansLanded, Frontier, Stall
  <2>3. DepthInv'
    BY <2>0 DEF DepthInv, Confirmations, ResultInv
  <2>4. ShortOnlyAfterStall'
    <3>1. Expired /\ op = "confirmation" => quiet = Stall
      BY ExpiredFrom, <1>b DEF QuietInv
    <3> QED
      BY <2>0, <3>1, <1>p DEF ShortOnlyAfterStall, ResultInv
  <2> QED
    BY <2>0, <2>1, <2>2, <2>3, <2>4, <1>p
<1>5. CASE Sleep
  <2>0. /\ pc = "sleep" /\ Continue("request") /\ Elapse(1)
        /\ UNCHANGED <<ledgerVars, op, confirmed, seen>>
    BY <1>5 DEF Sleep
  <2>1. elapsed' = elapsed + 1
    BY <2>0 DEF Elapse
  <2>2. elapsed' \in Nat /\ quiet' \in 0..Stall /\ QuietInv'
    BY <2>0, ClocksAgree
  <2>3. ClockInv'
    BY <2>0, <2>1, <1>b, <1>p DEF ClockInv
  <2>4. ResultInv' /\ DepthInv' /\ FoundMeansLanded' /\ ShortOnlyAfterStall'
    BY <2>0 DEF ResultInv, DepthInv, FoundMeansLanded, ShortOnlyAfterStall, Confirmations, Frontier
  <2> QED
    BY <2>0, <2>2, <2>3, <2>4, <1>p DEF Stall
<1> QED
  BY <1>1, <1>2, <1>3, <1>4, <1>5 DEF Client

\* The invariant holds in every reachable state.
THEOREM Invariance == Spec => []IInv
<1>1. IInv /\ UNCHANGED vars => IInv'
  BY DEF vars, ledgerVars, pollVars, IInv, TypeOK, LedgerTypeOK, ResultInv, ClockInv, QuietInv,
     DepthInv, FoundMeansLanded, ShortOnlyAfterStall, Limit, Stall, MaxElapsed, Confirmations, Frontier
<1> QED
  BY InitIInv, ClusterStep, ClientStep, <1>1, PTL DEF Spec, Next

------------------------------------------------------------------------------
(* The theorems.                                                            *)

\* Every variable keeps its type.
THEOREM TypeCorrect == Spec => []TypeOK
BY Invariance, PTL DEF IInv

\* A signature that was found is in a block of the commitment asked for.
THEOREM FoundIsLanded == Spec => []FoundMeansLanded
BY Invariance, PTL DEF IInv

\* Fewer blocks than min_confirmed_blocks are reported only after the count stood
\* still for longer than the limit (client.rs:1416-1429, 1443-1451).
THEOREM ShortIsStalled == Spec => []ShortOnlyAfterStall
BY Invariance, PTL DEF IInv

\* On one fork the count returned is at most the depth the block has.
THEOREM CountIsReached == Spec => []CountNotOverstated
<1>1. IInv => CountNotOverstated
  BY DEF IInv, DepthInv, CountNotOverstated
<1> QED
  BY <1>1, Invariance, PTL

\* The clock never reads more than its limit, a sleep and a request.
THEOREM StopsInTime == Spec => []GivesUpInTime
<1>1. IInv => GivesUpInTime
  BY Bounds, SignaturePollAssumption
  DEF IInv, TypeOK, ClockInv, GivesUpInTime, SignaturePollAssumption
<1> QED
  BY <1>1, Invariance, PTL
==============================================================================
