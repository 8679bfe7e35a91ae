-------------------------- MODULE BlockhashUseProofs -------------------------
(****************************************************************************)
(* What a procedure can rely on about a blockhash, for every chain length,  *)
(* number of forks, blockhash lifetime, commitment, clock and limit.        *)
(****************************************************************************)
EXTENDS BlockhashUse, TLAPS

\* At "processed", a fork may have taken back what was seen.
NoFork == ~(Commitment = "processed" /\ reorgs > 0)

\* Later blocks of the fork were produced later, so no block is there twice.
ChainInv ==
  \A g \in 0..tip, h \in 0..tip : g < h => block[g] < block[h]

\* Where the call is tells how far its clock can be and whether it has a result.
ClockInv ==
  /\ pc = "start" => elapsed = 0
  /\ pc = "request" => elapsed < Limit * TicksPerSecond
  /\ pc = "sleep" => elapsed < Limit * TicksPerSecond + MaxCall
  /\ (pc = "done") <=> (result # "none")

\* The hash of a block on the fork that was taken at a commitment is of a block that
\* satisfies it, and so is the hash that replaces it.
Within(hash, commitment) ==
  \A h \in HeightsOf(hash) : h <= Frontier(commitment)

TakenInv ==
  /\ Within(blockhash, takenAt)
  /\ result = "Ok" => Within(latest, Commitment)

\* A hash of the client's commitment is no newer than the newest block of it.
NoNewer(hash) == hash <= block[Frontier(Commitment)]

NewestInv ==
  NoFork =>
    /\ takenAt = Commitment => NoNewer(blockhash)
    /\ result = "Ok" => NoNewer(latest)

\* The replies of a call that goes on named the hash it was given.
SameInv == pc \in {"clock", "request", "sleep"} => latest = blockhash

\* The airdrops that were signed are those with the hash in hand.
AirdropInv == airdrops \subseteq {blockhash}

IInv ==
  /\ UseTypeOK /\ ChainInv /\ ClockInv /\ TakenInv /\ NewestInv /\ SameInv /\ AirdropInv
  /\ AnswerMeansProgressOrStall /\ HashStaysUsable

------------------------------------------------------------------------------
(* What the operators return.                                               *)

\* send gives "Ok" or one of its error kinds.
LEMMA SendReturns ==
  ASSUME NEW reply
  PROVE  send(reply) \in {"Ok"} \cup SendError
BY DEF send, SendError

\* The newest block of a commitment is on the fork.
LEMMA FrontierOnFork ==
  ASSUME LedgerTypeOK, NEW c \in Commitments
  PROVE  Frontier(c) \in 0..tip
BY DEF LedgerTypeOK, Frontier, Commitments

\* A weaker commitment reaches as far as a stronger one.
LEMMA FrontierOrder ==
  ASSUME LedgerTypeOK, NEW c \in Commitments, NEW weaker \in NoStrongerThan(c)
  PROVE  Frontier(c) <= Frontier(weaker)
BY DEF LedgerTypeOK, Frontier, Commitments, NoStrongerThan

\* The clock is in time as long as whole seconds are below the limit.
LEMMA InTimeUpTo ==
  ASSUME elapsed \in Nat
  PROVE  InTime <=> elapsed < Limit * TicksPerSecond
<1> DEFINE q == elapsed \div TicksPerSecond
           m == elapsed % TicksPerSecond
<1>1. Limit \in Nat /\ TicksPerSecond \in Nat /\ TicksPerSecond > 0
  BY BlockhashWaitAssumption DEF BlockhashWaitAssumption
<1>2. q \in Nat /\ m \in 0..(TicksPerSecond - 1) /\ elapsed = q * TicksPerSecond + m
  BY <1>1
<1>3. InTime <=> q < Limit
  BY DEF InTime
<1> HIDE DEF q, m
<1>4. CASE q < Limit
  <2>1. q + 1 <= Limit
    BY <1>1, <1>2, <1>4
  <2>2. (q + 1) * TicksPerSecond <= Limit * TicksPerSecond
    BY <1>1, <1>2, <2>1
  <2>3. (q + 1) * TicksPerSecond = q * TicksPerSecond + TicksPerSecond
    BY <1>1, <1>2
  <2> QED
    BY <1>1, <1>2, <1>3, <1>4, <2>2, <2>3
<1>5. CASE ~(q < Limit)
  <2>1. Limit * TicksPerSecond <= q * TicksPerSecond
    BY <1>1, <1>2, <1>5
  <2> QED
    BY <1>1, <1>2, <1>3, <1>5, <2>1
<1> QED
  BY <1>4, <1>5

------------------------------------------------------------------------------
(* The cluster.                                                             *)

\* The ledger keeps its type; what is confirmed stays, and the tip moves by one block or
\* back to a block above the confirmed ones.
LEMMA LedgerMoves ==
  ASSUME LedgerTypeOK, LedgerNext
  PROVE  /\ LedgerTypeOK'
         /\ conf <= conf' /\ root <= root' /\ reorgs <= reorgs' /\ tip' <= tip + 1
         /\ tip <= tip' \/ (reorgs < reorgs' /\ conf' = conf)
<1> USE LedgerAssumption DEF LedgerAssumption, LedgerTypeOK
<1>1. CASE NewBlock
  BY <1>1 DEF NewBlock
<1>2. CASE Confirm
  BY <1>2 DEF Confirm
<1>3. CASE Finalize
  BY <1>3 DEF Finalize
<1>4. CASE Reorg
  <2>1. landed' \in 0..tip'
    BY <1>4 DEF Reorg
  <2> QED
    BY <1>4, <2>1 DEF Reorg
<1> QED
  BY <1>1, <1>2, <1>3, <1>4 DEF LedgerNext

\* A commitment's newest block never becomes an older one, unless it is the tip
\* of a fork that is abandoned.
LEMMA FrontierAdvances ==
  ASSUME LedgerTypeOK, LedgerNext, NEW c \in Commitments
  PROVE  /\ c = "processed" => Frontier(c)' = tip'
         /\ ~(c = "processed" /\ reorgs' > 0) => Frontier(c) <= Frontier(c)'
BY LedgerMoves DEF Frontier, Commitments, LedgerTypeOK

\* The blocks that stay on the fork are the same, and a new one is on top of them.
LEMMA ChainMoves ==
  ASSUME TypeOK, ChainInv, Cluster
  PROVE  /\ block' \in [0..tip' -> 0..produced'] /\ produced' \in Nat /\ produced <= produced'
         /\ \A h \in 0..tip' : h <= tip => block'[h] = block[h]
         /\ \A h \in 0..tip' : h > tip => block'[h] > produced
         /\ ChainInv'
<1> USE DEF TypeOK
<1>1. /\ LedgerTypeOK /\ LedgerTypeOK'
      /\ tip \in Nat /\ tip' \in Nat /\ tip' <= tip + 1
  BY LedgerMoves DEF Cluster, LedgerTypeOK
<1>2. /\ produced' = IF tip' > tip THEN produced + 1 ELSE produced
      /\ block' = [h \in 0..tip' |-> IF h <= tip THEN block[h] ELSE produced']
  BY DEF Cluster
<1>3. /\ produced \in Nat /\ produced' \in Nat /\ produced <= produced'
      /\ tip' > tip => produced' = produced + 1
  BY <1>2
<1>4. \A h \in 0..tip : block[h] \in 0..produced
  OBVIOUS
<1>5. \A h \in 0..tip' : h <= tip => h \in 0..tip /\ block'[h] = block[h]
  BY <1>1, <1>2
<1>6. \A h \in 0..tip' : h > tip => tip' > tip /\ h = tip' /\ block'[h] = produced + 1
  BY <1>1, <1>2, <1>3
<1>7. \A h \in 0..tip' : block'[h] \in 0..produced'
  BY <1>1, <1>3, <1>4, <1>5, <1>6
<1>8. block' \in [0..tip' -> 0..produced']
  BY <1>2, <1>7
<1>9. ChainInv'
  <2> SUFFICES ASSUME NEW g \in 0..tip', NEW h \in 0..tip', g < h PROVE block'[g] < block'[h]
    BY DEF ChainInv
  <2>1. CASE h <= tip
    <3>1. g <= tip
      BY <1>1, <2>1
    <3> QED
      BY <1>5, <2>1, <3>1 DEF ChainInv
  <2>2. CASE h > tip
    <3>1. g <= tip
      BY <1>1, <1>6, <2>2
    <3>2. block'[g] \in 0..produced /\ block'[h] = produced + 1
      BY <1>4, <1>5, <1>6, <2>2, <3>1
    <3> QED
      BY <1>3, <3>2
  <2> QED
    BY <1>1, <2>1, <2>2
<1>10. \A h \in 0..tip' : h > tip => block'[h] > produced
  BY <1>3, <1>6
<1> QED
  BY <1>3, <1>5, <1>8, <1>9, <1>10

\* A hash that satisfied a commitment still does, if its block is there at all.
LEMMA WithinStays ==
  ASSUME TypeOK, ChainInv, Cluster, NEW hash \in 0..produced, NEW c \in Commitments,
         Within(hash, c)
  PROVE  Within(hash, c)'
<1> SUFFICES ASSUME NEW h \in 0..tip', block'[h] = hash PROVE h <= Frontier(c)'
  BY DEF Within, HeightsOf
<1>1. LedgerTypeOK /\ LedgerNext /\ tip \in Nat /\ reorgs \in Nat /\ produced \in Nat
  BY DEF TypeOK, LedgerTypeOK, Cluster
<1>2. LedgerTypeOK'
  BY <1>1, LedgerMoves
<1>3. h <= tip
  BY <1>1, ChainMoves
<1>4. h \in 0..tip /\ block[h] = hash
  BY <1>3, ChainMoves
<1>5. h <= Frontier(c)
  BY <1>4 DEF Within, HeightsOf
<1>6. CASE c = "processed"
  BY <1>1, <1>6, FrontierAdvances
<1>7. CASE c # "processed"
  <2>1. Frontier(c) <= Frontier(c)'
    BY <1>1, <1>7, FrontierAdvances
  <2>2. Frontier(c) \in Nat /\ Frontier(c)' \in Nat
    BY <1>1, <1>2, FrontierOnFork DEF Frontier, LedgerTypeOK
  <2> QED
    BY <1>5, <2>1, <2>2
<1> QED
  BY <1>6, <1>7

\* The newest block of the client's commitment is replaced by newer ones.
LEMMA NewestGrows ==
  ASSUME TypeOK, ChainInv, Cluster, NoFork'
  PROVE  block[Frontier(Commitment)] <= block'[Frontier(Commitment)']
<1>0. Commitment \in Commitments
  BY BlockhashWaitAssumption DEF BlockhashWaitAssumption
<1> DEFINE F == Frontier(Commitment)
           G == Frontier(Commitment)'
<1>1. LedgerTypeOK /\ LedgerNext /\ tip \in Nat /\ produced \in Nat
  BY DEF TypeOK, LedgerTypeOK, Cluster
<1>2. LedgerTypeOK' /\ tip' \in Nat
  BY <1>1, LedgerMoves DEF LedgerTypeOK
<1>3. F \in 0..tip /\ G \in 0..tip'
  BY <1>0, <1>1, <1>2, FrontierOnFork DEF Frontier, LedgerTypeOK, Commitments
<1>4. F <= G
  BY <1>0, <1>1, FrontierAdvances DEF NoFork
<1> HIDE DEF F, G
<1>5. F \in 0..tip' /\ block'[F] = block[F]
  BY <1>1, <1>2, <1>3, <1>4, ChainMoves
<1>6. block'[F] <= block'[G]
  <2>1. block' \in [0..tip' -> 0..produced'] /\ produced' \in Nat /\ ChainInv'
    BY ChainMoves
  <2>2. block'[F] \in Nat /\ block'[G] \in Nat
    BY <1>3, <1>5, <2>1
  <2>3. CASE F = G
    BY <2>2, <2>3
  <2>4. CASE F < G
    BY <1>3, <1>5, <2>1, <2>2, <2>4 DEF ChainInv
  <2> QED
    BY <1>2, <1>3, <1>4, <2>3, <2>4
<1> QED
  BY <1>5, <1>6 DEF F, G

------------------------------------------------------------------------------
(* The invariant.                                                           *)

LEMMA InitIInv == UseInit => IInv
<1> SUFFICES ASSUME UseInit PROVE IInv
    OBVIOUS
<1> USE LedgerAssumption, BlockhashWaitAssumption
    DEF LedgerAssumption, BlockhashWaitAssumption, UseInit, Init, InitLedger
<1>0. MaxElapsed \in Nat
  BY DEF MaxElapsed
<1>1. TypeOK
  <2>1. LedgerTypeOK
    <3>1. txOk \in BOOLEAN /\ submitted \in BOOLEAN /\ durable \in BOOLEAN
      OBVIOUS
    <3> QED
      BY <3>1 DEF LedgerTypeOK
  <2>2. produced \in Nat /\ block \in [0..tip -> 0..produced]
    OBVIOUS
  <2> QED
    BY <1>0, <2>1, <2>2 DEF TypeOK
<1>2. UseTypeOK
  BY <1>1 DEF UseTypeOK, NoUse, Results
<1>3. ChainInv /\ ClockInv /\ SameInv /\ AirdropInv
  BY DEF ChainInv, ClockInv, SameInv, AirdropInv
<1>4. TakenInv
  BY DEF TakenInv, Within, HeightsOf, Frontier
<1>5. NewestInv
  BY DEF NewestInv, NoNewer, Frontier
<1>6. AnswerMeansProgressOrStall
  BY DEF AnswerMeansProgressOrStall
<1>7. HashStaysUsable
  BY DEF HashStaysUsable, NoUse
<1> QED
  BY <1>2, <1>3, <1>4, <1>5, <1>6, <1>7 DEF IInv

\* The ledger moves while the procedure is in no method that uses the hash.
LEMMA ClusterKeeps ==
  ASSUME IInv, last = NoUse, Cluster, UNCHANGED useVars
  PROVE  IInv'
<1> USE DEF IInv, UseTypeOK
<1>0. /\ UNCHANGED <<pc, blockhash, takenAt, elapsed, result, latest, airdrops, last>>
      /\ LedgerTypeOK /\ LedgerNext
  BY DEF Cluster, argVars, callVars, useVars, TypeOK
<1>1. /\ LedgerTypeOK' /\ reorgs \in Nat /\ reorgs' \in Nat /\ reorgs <= reorgs'
  BY <1>0, LedgerMoves DEF LedgerTypeOK
<1>2. TypeOK'
  <2>1. /\ produced \in Nat /\ produced' \in Nat /\ produced <= produced'
        /\ block' \in [0..tip' -> 0..produced']
    BY ChainMoves DEF TypeOK
  <2>2. blockhash \in 0..produced' /\ latest \in 0..produced'
    BY <2>1 DEF TypeOK
  <2> QED
    BY <1>0, <1>1, <2>1, <2>2 DEF TypeOK
<1>3. UseTypeOK'
  <2>1. airdrops \subseteq 0..produced'
    BY ChainMoves DEF TypeOK
  <2> QED
    BY <1>0, <1>2, <2>1
<1>4. ChainInv'
  BY ChainMoves
<1>5. ClockInv' /\ SameInv' /\ AirdropInv'
  BY <1>0 DEF ClockInv, SameInv, AirdropInv
<1>6. TakenInv'
  <2>1. Within(blockhash, takenAt)'
    <3>1. \A h \in 0..produced, c \in Commitments : Within(h, c) => Within(h, c)'
      BY WithinStays
    <3>2. \A h \in 0..tip' : block'[h] = blockhash => h <= Frontier(takenAt)'
      BY <1>0, <3>1 DEF Within, HeightsOf, TypeOK, TakenInv, Frontier
    <3> QED
      BY <1>0, <3>2 DEF Within, HeightsOf
  <2>2. result = "Ok" => Within(latest, Commitment)'
    <3>1. Commitment \in Commitments
      BY BlockhashWaitAssumption DEF BlockhashWaitAssumption
    <3>2. \A h \in 0..produced, c \in Commitments : Within(h, c) => Within(h, c)'
      BY WithinStays
    <3>3. result = "Ok" => \A h \in 0..tip' : block'[h] = latest => h <= Frontier(Commitment)'
      BY <3>1, <3>2 DEF Within, HeightsOf, TypeOK, TakenInv
    <3> QED
      BY <1>0, <3>3 DEF Within, HeightsOf
  <2> QED
    BY <1>0, <2>1, <2>2 DEF TakenInv
<1>7. NewestInv'
  <2> SUFFICES ASSUME NoFork'
               PROVE  /\ takenAt = Commitment => NoNewer(blockhash)'
                      /\ result = "Ok" => NoNewer(latest)'
    BY <1>0 DEF NewestInv
  <2>1. NoFork
    BY <1>1 DEF NoFork
  <2>2. block[Frontier(Commitment)] <= block'[Frontier(Commitment)']
    BY NewestGrows
  <2>3. block[Frontier(Commitment)] \in Nat /\ block'[Frontier(Commitment)'] \in Nat
    <3>1. Frontier(Commitment) \in 0..tip
      BY <1>0, FrontierOnFork, BlockhashWaitAssumption DEF BlockhashWaitAssumption
    <3>2. Frontier(Commitment)' \in 0..tip'
      BY <1>1, BlockhashWaitAssumption
      DEF BlockhashWaitAssumption, Frontier, LedgerTypeOK, Commitments
    <3> QED
      BY <1>2, <3>1, <3>2 DEF TypeOK
  <2>4. blockhash \in Nat /\ latest \in Nat
    BY DEF TypeOK
  <2> QED
    BY <1>0, <2>1, <2>2, <2>3, <2>4 DEF NewestInv, NoNewer
<1>8. AnswerMeansProgressOrStall'
  BY <1>0, <1>1 DEF AnswerMeansProgressOrStall, Comparable
<1>9. HashStaysUsable'
  BY <1>0 DEF HashStaysUsable, NoUse
<1> QED
  BY <1>3, <1>4, <1>5, <1>6, <1>7, <1>8, <1>9

\* The step of a wait: the clock and the hashes stay in bounds, and a new hash
\* is newer where it can be compared.
LEMMA WaitKeeps ==
  ASSUME IInv, Call \/ Client, UNCHANGED useVars
  PROVE  IInv'
<1> USE DEF IInv, UseTypeOK
<1>0. /\ UNCHANGED <<worldVars, blockhash, takenAt, airdrops, last>>
      /\ UNCHANGED <<tip, conf, root, reorgs, block, produced>>
  BY DEF Call, Client, CheckClock, Request, Sleep, argVars, useVars, worldVars, ledgerVars
<1>1. /\ Limit \in Nat /\ TicksPerSecond \in Nat /\ MaxCall \in Nat
      /\ Limit * TicksPerSecond \in Nat /\ MaxElapsed \in Nat
      /\ MaxElapsed = Limit * TicksPerSecond + MaxCall
      /\ Commitment \in Commitments
  BY BlockhashWaitAssumption DEF BlockhashWaitAssumption, MaxElapsed
<1> DEFINE L == Limit * TicksPerSecond
<1>2. ChainInv' /\ AirdropInv' /\ HashStaysUsable'
  BY <1>0 DEF ChainInv, AirdropInv, HashStaysUsable, HeightsOf, Frontier
<1>3. LedgerTypeOK'
  BY <1>0 DEF TypeOK, LedgerTypeOK, worldVars, ledgerVars
<1>4. SUFFICES /\ pc' \in {"start", "clock", "request", "sleep", "done"}
               /\ elapsed' \in 0..MaxElapsed /\ latest' \in 0..produced
               /\ result' \in {"none", "Ok", "Unable"}
               /\ ClockInv' /\ SameInv' /\ AnswerMeansProgressOrStall'
               /\ result' = "Ok" => /\ Within(latest', Commitment)
                                    /\ NoFork => NoNewer(latest')
  <2>1. TypeOK'
    BY <1>0, <1>3, <1>4 DEF TypeOK
  <2>2. TakenInv'
    BY <1>0, <1>4 DEF TakenInv, Within, HeightsOf, Frontier
  <2>3. NewestInv'
    BY <1>0, <1>4 DEF NewestInv, NoFork, NoNewer, Frontier
  <2> QED
    BY <1>0, <1>2, <1>4, <2>1, <2>2, <2>3
<1>5. /\ elapsed \in 0..MaxElapsed /\ elapsed \in Nat /\ latest \in 0..produced
      /\ blockhash \in 0..produced /\ produced \in Nat /\ LedgerTypeOK
      /\ result = "Ok" => /\ Within(latest, Commitment)
                          /\ NoFork => NoNewer(latest)
  <2>1. elapsed \in 0..MaxElapsed /\ LedgerTypeOK
        /\ latest \in 0..produced /\ blockhash \in 0..produced /\ produced \in Nat
    BY DEF TypeOK
  <2> QED
    BY <1>1, <2>1 DEF TakenInv, NewestInv
<1>6. CASE Call
  BY <1>0, <1>5, <1>6 DEF Call, ClockInv, SameInv, AnswerMeansProgressOrStall, Comparable
<1>7. CASE CheckClock
  <2>1. CASE InTime
    <3>1. elapsed < L
      BY <1>5, <2>1, InTimeUpTo
    <3>2. pc' = "request" /\ pc = "clock" /\ UNCHANGED <<elapsed, latest, result>>
      BY <1>7, <2>1 DEF CheckClock
    <3> QED
      BY <1>0, <1>5, <3>1, <3>2 DEF ClockInv, SameInv, AnswerMeansProgressOrStall, Comparable
  <2>2. CASE ~InTime
    <3>1. elapsed >= L
      BY <1>1, <1>5, <2>2, InTimeUpTo
    <3>2. pc' = "done" /\ result' = "Unable" /\ pc = "clock" /\ UNCHANGED <<elapsed, latest>>
      BY <1>7, <2>2 DEF CheckClock
    <3> QED
      BY <1>0, <1>5, <3>1, <3>2 DEF ClockInv, SameInv, AnswerMeansProgressOrStall, Comparable
  <2> QED
    BY <2>1, <2>2
<1>8. CASE Sleep
  <2>1. pc = "sleep" /\ elapsed' = elapsed + 1 /\ pc' = "clock" /\ UNCHANGED <<result, latest>>
    BY <1>8 DEF Sleep, AfterSleep
  <2>2. elapsed' \in 0..MaxElapsed
    BY <1>1, <1>5, <2>1 DEF ClockInv
  <2> QED
    BY <1>0, <1>5, <2>1, <2>2 DEF ClockInv, SameInv, AnswerMeansProgressOrStall, Comparable
<1>9. CASE Request
  <2>1. pc = "request" /\ latest = blockhash /\ result = "none" /\ elapsed < L
    BY <1>9 DEF Request, ClockInv, SameInv
  <2>2. PICK d \in 0..MaxCall : elapsed' = elapsed + d
    BY <1>9 DEF Request
  <2>3. elapsed' \in 0..MaxElapsed /\ elapsed' < L + MaxCall
    BY <1>1, <1>5, <2>1, <2>2
  <2>4. CASE pc' = "sleep" /\ UNCHANGED <<result, latest>>
    BY <1>0, <1>5, <2>1, <2>3, <2>4
    DEF ClockInv, SameInv, AnswerMeansProgressOrStall, Comparable
  <2>5. CASE latest' = LatestBlockhash /\ latest' = blockhash /\ pc' = "sleep" /\ UNCHANGED result
    BY <2>1, <2>4, <2>5
  <2>6. CASE latest' = LatestBlockhash /\ latest' # blockhash /\ pc' = "done" /\ result' = "Ok"
    <3> DEFINE F == Frontier(Commitment)
    <3>1. F \in 0..tip /\ latest' = block[F]
      BY <1>1, <1>5, <2>6, FrontierOnFork DEF LatestBlockhash
    <3>2. tip \in Nat /\ \A h \in 0..tip : block[h] \in 0..produced
      BY <1>5 DEF TypeOK, LedgerTypeOK
    <3>3. latest' \in 0..produced
      BY <3>1, <3>2
    <3>4. Within(latest', Commitment)
      <4> SUFFICES ASSUME NEW h \in 0..tip, block[h] = block[F] PROVE h <= F
        BY <3>1 DEF Within, HeightsOf
      <4>1. ~(F < h)
        BY <3>1, <3>2, <1>5 DEF ChainInv
      <4> QED
        BY <3>1, <3>2, <4>1
    <3>5. NoNewer(latest')
      BY <1>5, <3>1, <3>3 DEF NoNewer
    <3>6. Comparable' => latest' > blockhash
      <4> SUFFICES ASSUME Comparable' PROVE latest' > blockhash
        OBVIOUS
      <4>1. NoFork /\ takenAt = Commitment
        BY <1>0 DEF Comparable, NoFork
      <4>2. blockhash <= block[F]
        BY <4>1 DEF NewestInv, NoNewer
      <4> QED
        BY <1>5, <2>6, <3>1, <3>3, <4>2
    <3> HIDE DEF F
    <3>7. AnswerMeansProgressOrStall'
      BY <1>0, <2>6, <3>6 DEF AnswerMeansProgressOrStall
    <3> QED
      BY <2>3, <2>6, <3>3, <3>4, <3>5, <3>7 DEF ClockInv, SameInv
  <2> QED
    BY <1>9, <2>4, <2>5, <2>6 DEF Request, AfterFailure, IsNew
<1> QED
  BY <1>6, <1>7, <1>8, <1>9 DEF Client

\* The procedure takes the newest hash of some commitment.
LEMMA GetKeeps ==
  ASSUME IInv, last = NoUse, GetLatestBlockhash
  PROVE  IInv'
<1> USE DEF IInv, UseTypeOK
<1> PICK c \in Commitments : Take(c)
  BY DEF GetLatestBlockhash
<1>0. /\ pc = "start" /\ takenAt' = c /\ blockhash' = block[Frontier(c)]
      /\ UNCHANGED <<worldVars, callVars, last>>
      /\ UNCHANGED <<tip, conf, root, reorgs, block, produced, pc, elapsed, result, latest>>
      /\ airdrops' = IF blockhash' = blockhash THEN airdrops ELSE {}
  BY DEF GetLatestBlockhash, Take, worldVars, ledgerVars, callVars
<1>1. /\ LedgerTypeOK /\ tip \in Nat /\ produced \in Nat
      /\ \A h \in 0..tip : block[h] \in 0..produced
  BY DEF TypeOK, LedgerTypeOK
<1>2. Frontier(c) \in 0..tip /\ blockhash' \in 0..produced
  BY <1>0, <1>1, FrontierOnFork
<1>3. UseTypeOK'
  <2>1. LedgerTypeOK'
    BY <1>0 DEF TypeOK, LedgerTypeOK, worldVars, ledgerVars
  <2>2. TypeOK'
    BY <1>0, <1>2, <2>1 DEF TypeOK
  <2> QED
    BY <1>0, <2>2
<1>4. ChainInv' /\ ClockInv' /\ SameInv' /\ AnswerMeansProgressOrStall' /\ AirdropInv'
  BY <1>0 DEF ChainInv, ClockInv, SameInv, AnswerMeansProgressOrStall, AirdropInv
<1>5. result = "none"
  BY <1>0 DEF ClockInv
<1>6. TakenInv'
  <2> SUFFICES ASSUME NEW h \in 0..tip, block[h] = block[Frontier(c)] PROVE h <= Frontier(c)
    BY <1>0, <1>5 DEF TakenInv, Within, HeightsOf, Frontier
  <2>1. ~(Frontier(c) < h)
    BY <1>1, <1>2 DEF ChainInv
  <2> QED
    BY <1>1, <1>2, <2>1
<1>7. NewestInv'
  <2>1. takenAt' = Commitment => blockhash' <= block[Frontier(Commitment)]
    BY <1>0, <1>1, <1>2
  <2> QED
    BY <1>0, <1>5, <2>1 DEF NewestInv, NoFork, NoNewer, Frontier
<1>8. HashStaysUsable'
  BY <1>0 DEF HashStaysUsable, NoUse
<1> QED
  BY <1>3, <1>4, <1>6, <1>7, <1>8

\* A wait has returned, and the procedure goes on with the new hash, if it got one.
LEMMA TakeNewKeeps ==
  ASSUME IInv, last = NoUse, TakeNew
  PROVE  IInv'
<1> USE DEF IInv, UseTypeOK
<1>0. /\ pc = "done" /\ pc' = "start" /\ elapsed' = 0 /\ result' = "none"
      /\ IF result = "Ok"
         THEN blockhash' = latest /\ takenAt' = Commitment /\ airdrops' = {}
         ELSE UNCHANGED <<blockhash, takenAt, airdrops>>
      /\ UNCHANGED <<worldVars, latest, last>>
      /\ UNCHANGED <<tip, conf, root, reorgs, block, produced>>
  BY DEF TakeNew, worldVars, ledgerVars
<1>1. Commitment \in Commitments /\ MaxElapsed \in Nat
  BY BlockhashWaitAssumption DEF BlockhashWaitAssumption, MaxElapsed
<1>2. UseTypeOK'
  <2>1. LedgerTypeOK'
    BY <1>0 DEF TypeOK, LedgerTypeOK, worldVars, ledgerVars
  <2>2. blockhash' \in 0..produced /\ takenAt' \in Commitments /\ airdrops' \subseteq 0..produced
    BY <1>0, <1>1 DEF TypeOK
  <2>3. elapsed' \in 0..MaxElapsed
    BY <1>0, <1>1
  <2>4. TypeOK'
    BY <1>0, <2>1, <2>2, <2>3 DEF TypeOK
  <2> QED
    BY <1>0, <2>2, <2>4
<1>3. ChainInv' /\ ClockInv' /\ SameInv' /\ AnswerMeansProgressOrStall' /\ AirdropInv'
  BY <1>0, BlockhashWaitAssumption
  DEF BlockhashWaitAssumption, ChainInv, ClockInv, SameInv, AnswerMeansProgressOrStall, AirdropInv
<1>4. TakenInv'
  BY <1>0 DEF TakenInv, Within, HeightsOf, Frontier
<1>5. NewestInv'
  BY <1>0 DEF NewestInv, NoFork, NoNewer, Frontier
<1>6. HashStaysUsable'
  BY <1>0 DEF HashStaysUsable, NoUse
<1> QED
  BY <1>2, <1>3, <1>4, <1>5, <1>6

\* What a use leaves alone, and the two things it must not break.
LEMMA UsedKeeps ==
  ASSUME IInv, UNCHANGED <<worldVars, argVars, callVars>>,
         airdrops' \subseteq {blockhash},
         last' \in [promised : Commitments \cup {"none"}, missed : BOOLEAN, result : Results],
         (last'.missed /\ last'.promised \in NoStrongerThan(takenAt)) =>
           \A h \in HeightsOf(blockhash) : Frontier(last'.promised) > h + Lifetime
  PROVE  IInv'
<1> USE DEF IInv, UseTypeOK
<1>0. UNCHANGED <<tip, conf, root, reorgs, block, produced, pc, blockhash, takenAt, elapsed,
                  result, latest>>
  BY DEF worldVars, ledgerVars, argVars, callVars
<1>1. TypeOK'
  <2>1. LedgerTypeOK'
    BY DEF TypeOK, LedgerTypeOK, worldVars, ledgerVars
  <2> QED
    BY <1>0, <2>1 DEF TypeOK
<1>2. UseTypeOK'
  BY <1>0, <1>1 DEF TypeOK
<1>3. ChainInv' /\ ClockInv' /\ SameInv' /\ AirdropInv'
  BY <1>0 DEF ChainInv, ClockInv, SameInv, AirdropInv
<1>4. TakenInv' /\ NewestInv' /\ AnswerMeansProgressOrStall'
  BY <1>0 DEF TakenInv, Within, HeightsOf, Frontier, NewestInv, NoFork, NoNewer,
     AnswerMeansProgressOrStall, Comparable
<1>5. HashStaysUsable'
  BY <1>0 DEF HashStaysUsable, HeightsOf, Frontier
<1> QED
  BY <1>2, <1>3, <1>4, <1>5

\* A method that asks for what it promises misses a usable hash only when it is too old:
\* its block satisfies the promised commitment already.
LEMMA UseKeeps ==
  ASSUME IInv, NEW c \in Commitments, NEW found \in Results, NEW missing \in Results,
         Use(c, c, found, missing), UNCHANGED <<worldVars, argVars, callVars>>
  PROVE  IInv'
<1> USE DEF IInv, UseTypeOK
<1>1. PICK reply \in HostReply :
        last' = IF send(reply) # "Ok"
                THEN [promised |-> c, missed |-> FALSE, result |-> send(reply)]
                ELSE [promised |-> c, missed |-> ~Known(blockhash, c),
                      result |-> IF Known(blockhash, c) THEN found ELSE missing]
  BY DEF Use
<1>2. send(reply) \in Results
  BY SendReturns DEF Results
<1>3. Known(blockhash, c) \in BOOLEAN
  BY DEF Known
<1>4. CASE send(reply) # "Ok"
  <2>1. last' = [promised |-> c, missed |-> FALSE, result |-> send(reply)]
    BY <1>1, <1>4
  <2> QED
    BY <1>2, <2>1, UsedKeeps DEF AirdropInv, Use
<1>5. CASE send(reply) = "Ok"
  <2>1. last' = [promised |-> c, missed |-> ~Known(blockhash, c),
                 result |-> IF Known(blockhash, c) THEN found ELSE missing]
    BY <1>1, <1>5
  <2>2. last' \in [promised : Commitments \cup {"none"}, missed : BOOLEAN, result : Results]
    BY <1>3, <2>1
  <2>3. ASSUME ~Known(blockhash, c), c \in NoStrongerThan(takenAt), NEW h \in HeightsOf(blockhash)
        PROVE  Frontier(c) > h + Lifetime
    <3>1. LedgerTypeOK /\ takenAt \in Commitments /\ tip \in Nat /\ h \in 0..tip
      BY DEF TypeOK, LedgerTypeOK, HeightsOf
    <3>2. Frontier(takenAt) <= Frontier(c)
      BY <2>3, <3>1, FrontierOrder
    <3>3. Frontier(takenAt) \in 0..tip /\ Frontier(c) \in 0..tip
      BY <3>1, FrontierOnFork
    <3>4. h <= Frontier(takenAt)
      BY DEF TakenInv, Within
    <3>5. h <= Frontier(c)
      BY <3>1, <3>2, <3>3, <3>4
    <3>6. ~(Frontier(c) <= h + Lifetime)
      BY <2>3, <3>5 DEF Known
    <3> QED
      BY <3>1, <3>3, <3>6, LedgerAssumption DEF LedgerAssumption
  <2>4. (last'.missed /\ last'.promised \in NoStrongerThan(takenAt)) =>
          \A h \in HeightsOf(blockhash) : Frontier(last'.promised) > h + Lifetime
    BY <2>1, <2>3
  <2> QED
    BY <2>2, <2>4, UsedKeeps DEF AirdropInv, Use
<1> QED
  BY <1>4, <1>5

\* An airdrop that is asked for with the hash is signed with it.
LEMMA AirdropKeeps ==
  ASSUME IInv, Airdrop, UNCHANGED <<worldVars, argVars, callVars>>
  PROVE  IInv'
<1>1. PICK named \in {{}, {blockhash}}, c \in {Commitment} \cup {OrDefault(o) : o \in Options} :
        RequestAirdrop(c, named)
  BY DEF Airdrop
<1>2. PICK signed \in BOOLEAN, answered \in {send(reply) = "Ok" : reply \in HostReply} :
        /\ airdrops' = IF ~signed \/ named = {} THEN airdrops
                       ELSE airdrops \cup (IF named # {} THEN named ELSE {block[Frontier(c)]})
        /\ last' = [promised |-> "none", missed |-> FALSE,
                    result |-> IF answered THEN "Ok" ELSE "RpcError"]
  BY <1>1 DEF RequestAirdrop, recent_blockhash
<1>3. airdrops' \subseteq {blockhash}
  BY <1>1, <1>2 DEF IInv, AirdropInv
<1>4. /\ last' \in [promised : Commitments \cup {"none"}, missed : BOOLEAN, result : Results]
      /\ ~last'.missed
  BY <1>2 DEF Results
<1> QED
  BY <1>3, <1>4, UsedKeeps

\* Every use of the hash asks for the commitment that it promises.
LEMMA UsesKeep ==
  ASSUME IInv, Uses
  PROVE  IInv'
<1>0. UNCHANGED <<worldVars, argVars, callVars>>
  BY DEF Uses
<1>1. Commitment \in Commitments
  BY BlockhashWaitAssumption DEF BlockhashWaitAssumption
<1>2. \A option \in Options : OrDefault(option) \in Commitments
  BY DEF Options, OrDefault, Default, Commitments
<1>3. {"Ok", "false", "Custom", "Err", "RpcResponseError"} \subseteq Results
  BY DEF Results, SendError
<1>4. CASE IsBlockhashValid
  BY <1>0, <1>3, <1>4, UseKeeps DEF IsBlockhashValid
<1>5. CASE GetFeeForMessage
  BY <1>0, <1>1, <1>3, <1>5, UseKeeps DEF GetFeeForMessage
<1>6. CASE SimulateTransaction
  BY <1>0, <1>1, <1>3, <1>6, UseKeeps DEF SimulateTransaction
<1>7. CASE SimulateTransactionWithConfig
  BY <1>0, <1>2, <1>3, <1>7, UseKeeps DEF SimulateTransactionWithConfig
<1>8. CASE SendTransaction
  BY <1>0, <1>1, <1>3, <1>8, UseKeeps DEF SendTransaction, preflight_commitment
<1>9. CASE SendTransactionWithConfig
  BY <1>0, <1>2, <1>3, <1>9, UseKeeps DEF SendTransactionWithConfig
<1>10. CASE Airdrop
  BY <1>0, <1>10, AirdropKeeps
<1> QED
  BY <1>4, <1>5, <1>6, <1>7, <1>8, <1>9, <1>10 DEF Uses

\* The procedure goes on: nothing is in its hands but the hash.
LEMMA ContinueKeeps ==
  ASSUME IInv, Continue
  PROVE  IInv'
<1>1. /\ last' = NoUse /\ airdrops' \subseteq {blockhash}
      /\ UNCHANGED <<worldVars, argVars, callVars>>
  BY DEF Continue, IInv, AirdropInv
<1>2. /\ last' \in [promised : Commitments \cup {"none"}, missed : BOOLEAN, result : Results]
      /\ ~last'.missed
  BY <1>1 DEF NoUse, Results
<1> QED
  BY <1>1, <1>2, UsedKeeps

\* The invariant holds in every reachable state.
THEOREM Invariance == UseSpec => []IInv
<1>1. ASSUME IInv, [UseNext]_<<vars, useVars>> PROVE IInv'
  <2>1. CASE last = NoUse /\ (Cluster \/ Call \/ Client) /\ UNCHANGED useVars
    BY <1>1, <2>1, ClusterKeeps, WaitKeeps
  <2>2. CASE last = NoUse /\ (GetLatestBlockhash \/ TakeNew)
    BY <1>1, <2>2, GetKeeps, TakeNewKeeps
  <2>3. CASE Uses
    BY <1>1, <2>3, UsesKeep
  <2>4. CASE Continue
    BY <1>1, <2>4, ContinueKeeps
  <2>5. CASE UNCHANGED <<vars, useVars>>
    <3>1. /\ UNCHANGED <<worldVars, argVars, callVars>> /\ airdrops' \subseteq {blockhash}
          /\ last' = last
      BY <1>1, <2>5 DEF vars, useVars, IInv, AirdropInv
    <3> QED
      BY <1>1, <3>1, UsedKeeps DEF IInv, UseTypeOK, HashStaysUsable
  <2> QED
    BY <1>1, <2>1, <2>2, <2>3, <2>4, <2>5 DEF UseNext
<1> QED
  BY <1>1, InitIInv, PTL DEF UseSpec

------------------------------------------------------------------------------
(* The theorems.                                                            *)

\* Every variable keeps its type: the clock of a wait passes its limit by no more than a
\* request and a sleep, and a use ends with a result that its method can return.
THEOREM TypeCorrect == UseSpec => []UseTypeOK
<1>1. IInv => UseTypeOK
  BY DEF IInv
<1> QED
  BY <1>1, Invariance, PTL

\* get_new_latest_blockhash returns a newer hash, where the argument was taken at
\* the client's commitment, and gives up only after the whole limit, the chain
\* having stood still in every reply (client.rs:1539-1561).
THEOREM AnswersAreTrue == UseSpec => []AnswerMeansProgressOrStall
<1>1. IInv => AnswerMeansProgressOrStall
  BY DEF IInv
<1> QED
  BY <1>1, Invariance, PTL

\* A hash is good wherever the promised commitment is that of the hash or a weaker one,
\* for as long as blockhashes are (client.rs:137-162, 238-270, 1482-1561).
THEOREM HashesStayUsable == UseSpec => []HashStaysUsable
<1>1. IInv => HashStaysUsable
  BY DEF IInv
<1> QED
  BY <1>1, Invariance, PTL

\* All airdrops that were signed for one hash are the same transaction
\* (client.rs:1258-1303).
THEOREM RetriesAreSafe == UseSpec => []RetriedAirdropIsTheSame
<1>1. IInv => RetriedAirdropIsTheSame
  BY DEF IInv, AirdropInv, RetriedAirdropIsTheSame
<1> QED
  BY <1>1, Invariance, PTL
==============================================================================
