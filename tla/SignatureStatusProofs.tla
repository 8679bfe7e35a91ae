------------------------ MODULE SignatureStatusProofs ------------------------
(****************************************************************************)
(* What the caller learns about a signature is true and stays true, for     *)
(* every length of the chain and every number of forks.                     *)
(****************************************************************************)
EXTENDS SignatureStatus, TLAPS

\* What is out of the cache is finalized.
CacheInv == ~remembered => landed # 0 /\ landed <= root

\* A verdict that is true and cannot be taken back.
Holds(v) == Stands(v) => landed \in 1..Frontier(v.commitment) /\ v.verdict = Verdict

\* The verdict a notification carries to the subscriber.
Carried(notice) == [verdict |-> notice.verdict, commitment |-> watch.commitment]

\* A notification on its way says what is true at the commitment of its subscription.
NoticesInv ==
  \A i \in DOMAIN notices : notices[i].kind = "processed" => Holds(Carried(notices[i]))

\* No notification without a subscription.
WatchInv == watch.commitment = "none" => notices = <<>> /\ ~watch.live

IInv == TypeOK /\ CacheInv /\ NoticesInv /\ WatchInv /\ ToldStands /\ HistoryRemembers

------------------------------------------------------------------------------
(* The ledger.                                                              *)

\* What stands before a step of the ledger stands after it.
LEMMA LedgerKeeps ==
  ASSUME LedgerTypeOK, LedgerNext, NEW v \in Verdicts, Holds(v)
  PROVE  Holds(v)'
<1> USE LedgerAssumption DEF LedgerAssumption, LedgerTypeOK, Holds, Stands, Verdicts, Commitments,
        Frontier, Verdict
<1>1. CASE NewBlock
  BY <1>1 DEF NewBlock, CanLand
<1>2. CASE Confirm
  BY <1>2 DEF Confirm
<1>3. CASE Finalize
  BY <1>3 DEF Finalize
<1>4. CASE Reorg
  <2>1. CASE v.commitment = "processed"
    BY <1>4, <2>1 DEF Reorg
  <2>2. CASE v.commitment # "processed"
    <3>1. v.commitment \in {"confirmed", "finalized"} /\ Stands(v) /\ Stands(v)'
      BY <2>2
    <3>2. landed \in 1..conf /\ landed' = landed
      BY <1>4, <3>1 DEF Reorg
    <3> QED
      BY <1>4, <3>1, <3>2 DEF Reorg
  <2> QED
    BY <2>1, <2>2
<1> QED
  BY <1>1, <1>2, <1>3, <1>4 DEF LedgerNext

LEMMA LedgerTyped == LedgerTypeOK /\ LedgerNext => LedgerTypeOK' /\ root <= root'
<1> SUFFICES ASSUME LedgerTypeOK, LedgerNext PROVE LedgerTypeOK' /\ root <= root'
    OBVIOUS
<1> USE LedgerAssumption DEF LedgerAssumption, LedgerTypeOK
<1>1. CASE NewBlock
  BY <1>1 DEF NewBlock, CanLand
<1>2. CASE Confirm
  BY <1>2 DEF Confirm
<1>3. CASE Finalize
  BY <1>3 DEF Finalize
<1>4. CASE Reorg
  BY <1>4 DEF Reorg
<1> QED
  BY <1>1, <1>2, <1>3, <1>4 DEF LedgerNext

\* A finalized transaction stays where it is.
LEMMA LedgerRoots ==
  ASSUME LedgerTypeOK, LedgerNext, landed # 0, landed <= root
  PROVE  landed' = landed /\ landed' <= root'
<1> USE LedgerAssumption DEF LedgerAssumption, LedgerTypeOK
<1>1. CASE NewBlock
  BY <1>1 DEF NewBlock, CanLand
<1>2. CASE Confirm
  BY <1>2 DEF Confirm
<1>3. CASE Finalize
  BY <1>3 DEF Finalize
<1>4. CASE Reorg
  BY <1>4 DEF Reorg
<1> QED
  BY <1>1, <1>2, <1>3, <1>4 DEF LedgerNext

\* Without a step of the ledger nothing changes about a verdict.
LEMMA HoldsUnchanged ==
  ASSUME UNCHANGED ledgerVars, NEW v, Holds(v)
  PROVE  Holds(v)'
BY DEF ledgerVars, Holds, Stands, Frontier, Verdict

------------------------------------------------------------------------------
(* The invariant.                                                           *)

LEMMA InitIInv == Init => IInv
<1> SUFFICES ASSUME Init PROVE IInv
    OBVIOUS
<1> USE LedgerAssumption DEF LedgerAssumption, Init, InitLedger
<1>1. TypeOK
  <2>1. LedgerTypeOK
    <3>1. txOk \in BOOLEAN /\ submitted \in BOOLEAN /\ durable \in BOOLEAN
      OBVIOUS
    <3>2. /\ tip \in Nat /\ conf \in 0..tip /\ root \in 0..conf
          /\ landed \in 0..tip /\ reorgs \in 0..MaxReorgs
      OBVIOUS
    <3> QED
      BY <3>1, <3>2 DEF LedgerTypeOK
  <2>2. remembered \in BOOLEAN
    OBVIOUS
  <2>3. watch \in [commitment : Commitments \cup {"none"}, received : BOOLEAN, live : BOOLEAN]
    BY DEF NoWatch
  <2>4. notices \in Seq(Notices) /\ told \in SUBSET Verdicts
    OBVIOUS
  <2>5. last \in [result : SendError \cup {"none", "Ok", "Err", "None", "false", "Received", "Trap"},
                  commitment : Commitments \cup {"none"}, search : BOOLEAN]
    BY DEF NoAnswer
  <2> QED
    BY <2>1, <2>2, <2>3, <2>4, <2>5 DEF TypeOK
<1>2. CacheInv /\ NoticesInv /\ ToldStands /\ HistoryRemembers
  BY DEF CacheInv, NoticesInv, ToldStands, HistoryRemembers, NoAnswer
<1>3. WatchInv
  BY DEF WatchInv, NoWatch
<1> QED
  BY <1>1, <1>2, <1>3 DEF IInv

\* A step of the client that appends to what was told.
LEMMA AnswerKeeps ==
  ASSUME IInv, UNCHANGED ledgerVars, UNCHANGED remembered,
         NEW result, NEW commitment, NEW search, Answered(result, commitment, search),
         result \in {"Ok", "Err"} =>
           Holds([verdict |-> result, commitment |-> commitment]),
         result = "None" /\ search =>
           \A v \in told : v.commitment \in AtLeast(commitment) => ~Stands(v)
  PROVE  ToldStands' /\ HistoryRemembers'
<1>1. \A v \in told : Holds(v)
  BY DEF IInv, ToldStands, Holds
<1>2. \A v \in told' : Holds(v)
  BY <1>1 DEF Answered
<1>3. \A v \in told' : Holds(v)'
  BY <1>2, HoldsUnchanged
<1>4. ToldStands'
  BY <1>3 DEF ToldStands, Holds
<1>5. HistoryRemembers'
  <2>1. SUFFICES ASSUME result = "None", search,
                        NEW v \in told, v.commitment \in AtLeast(commitment)
                 PROVE  ~Stands(v)'
    BY DEF HistoryRemembers, Answered
  <2> QED
    BY <2>1 DEF Stands, ledgerVars
<1> QED
  BY <1>4, <1>5

\* A stronger commitment is reached by fewer blocks.
LEMMA FrontierOrder ==
  ASSUME LedgerTypeOK, NEW c \in Commitments, NEW d \in AtLeast(c)
  PROVE  d \in Commitments /\ Frontier(d) <= Frontier(c)
BY DEF LedgerTypeOK, Commitments, AtLeast, Frontier

\* What the status list says, filtered by the commitment, may be told.
LEMMA StatusHolds ==
  ASSUME IInv, NEW c \in Commitments, NEW search,
         status(c, Listed(search)) \in {"Ok", "Err"}
  PROVE  Holds([verdict |-> status(c, Listed(search)), commitment |-> c])
BY DEF status, Listed, Holds, IInv, TypeOK, LedgerTypeOK, Frontier, Commitments

\* A search of the history that finds nothing contradicts no earlier answer.
LEMMA NoneIsConsistent ==
  ASSUME IInv, NEW c \in Commitments,
         ~Listed(TRUE) \/ ~(landed <= Frontier(c))
  PROVE  \A v \in told : v.commitment \in AtLeast(c) => ~Stands(v)
<1> SUFFICES ASSUME NEW v \in told, v.commitment \in AtLeast(c), Stands(v) PROVE FALSE
    OBVIOUS
<1>1. landed \in 1..Frontier(v.commitment)
  BY DEF IInv, ToldStands
<1>2. Frontier(v.commitment) <= Frontier(c) /\ LedgerTypeOK
  BY FrontierOrder DEF IInv, TypeOK
<1>3. Frontier(c) \in Nat /\ Frontier(v.commitment) \in Nat /\ landed \in Nat
  BY <1>2 DEF LedgerTypeOK, Frontier
<1>4. landed # 0 /\ landed <= Frontier(c)
  BY <1>1, <1>2, <1>3
<1> QED
  BY <1>4 DEF Listed, IInv, CacheInv

LEMMA ClusterStep == IInv /\ Cluster => IInv'
<1> SUFFICES ASSUME IInv, Cluster PROVE IInv'
    OBVIOUS
<1>0. /\ last = NoAnswer /\ last' = NoAnswer /\ told' = told
      /\ LedgerTypeOK /\ \A v \in told : v \in Verdicts /\ Holds(v)
  BY DEF Cluster, IInv, TypeOK, ToldStands, Holds
<1>h. HistoryRemembers'
  BY <1>0 DEF HistoryRemembers, NoAnswer
<1>1. CASE LedgerNext /\ UNCHANGED <<remembered, watch, notices>>
  <2>1. LedgerTypeOK' /\ root <= root'
    BY <1>0, <1>1, LedgerTyped
  <2>2. TypeOK'
    BY <1>0, <1>1, <2>1 DEF IInv, TypeOK
  <2>3. CacheInv'
    BY <1>0, <1>1, LedgerRoots DEF IInv, CacheInv
  <2>4. ToldStands'
    <3>1. \A v \in told : Holds(v)'
      BY <1>0, <1>1, LedgerKeeps
    <3> QED
      BY <1>0, <3>1 DEF ToldStands, Holds
  <2>5. NoticesInv'
    <3>1. SUFFICES ASSUME NEW i \in DOMAIN notices, notices[i].kind = "processed"
                   PROVE  Holds(Carried(notices[i]))'
      BY <1>1 DEF NoticesInv
    <3>2. PICK v \in Verdicts : v = Carried(notices[i])
      <4>1. notices[i] \in Notices
        BY DEF IInv, TypeOK
      <4>2. notices # <<>>
        OBVIOUS
      <4>3. watch.commitment \in Commitments
        BY <4>2 DEF IInv, TypeOK, WatchInv
      <4> QED
        BY <3>1, <4>1, <4>3 DEF Notices, Carried, Verdicts
    <3>3. Carried(notices[i])' = v
      BY <1>1, <3>2 DEF Carried
    <3>4. Holds(v)
      BY <3>1, <3>2 DEF IInv, NoticesInv
    <3>5. Holds(v)'
      BY <1>0, <1>1, <3>4, LedgerKeeps
    <3> QED
      BY <3>3, <3>5 DEF Holds, Stands
  <2>6. WatchInv'
    BY <1>1 DEF IInv, WatchInv
  <2> QED
    BY <1>h, <2>2, <2>3, <2>4, <2>5, <2>6 DEF IInv
<1>2. CASE Forget \/ NotifyReceived \/ NotifyProcessed
  <2>1. UNCHANGED ledgerVars
    BY <1>2 DEF Forget, NotifyReceived, NotifyProcessed
  <2>2. ToldStands'
    <3>1. \A v \in told : Holds(v)'
      BY <1>0, <2>1, HoldsUnchanged
    <3> QED
      BY <1>0, <3>1 DEF ToldStands, Holds
  <2>3. LedgerTypeOK'
    BY <1>0, <2>1 DEF LedgerTypeOK, ledgerVars
  <2>4. CASE Forget
    <3>1. TypeOK' /\ WatchInv'
      BY <1>0, <2>3, <2>4 DEF Forget, IInv, TypeOK, WatchInv
    <3>2. CacheInv'
      BY <1>0, <2>4 DEF Forget, IInv, CacheInv, ledgerVars, LedgerTypeOK
    <3>3. NoticesInv'
      BY <2>4, HoldsUnchanged DEF Forget, IInv, NoticesInv, Carried, ledgerVars, Holds, Stands, Frontier, Verdict
    <3> QED
      BY <1>h, <2>2, <3>1, <3>2, <3>3 DEF IInv
  <2>5. CASE NotifyReceived \/ NotifyProcessed
    <3>1. PICK n \in Notices :
            /\ notices' = Append(notices, n)
            /\ n.kind = "processed" => Holds(Carried(n))
      <4>1. CASE NotifyReceived
        BY <4>1 DEF NotifyReceived, Notices
      <4>2. CASE NotifyProcessed
        <5> DEFINE n == [kind |-> "processed", verdict |-> Verdict]
        <5>1. n \in Notices /\ notices' = Append(notices, n)
          BY <4>2 DEF NotifyProcessed, Notices, Verdict
        <5>2. landed \in 1..Frontier(watch.commitment)
          BY <1>0, <4>2 DEF NotifyProcessed, Listed, LedgerTypeOK, Frontier
        <5>3. Holds(Carried(n))
          BY <5>2 DEF Holds, Carried
        <5> QED
          BY <5>1, <5>3
      <4> QED
        BY <2>5, <4>1, <4>2
    <3>2. /\ watch' \in [commitment : Commitments \cup {"none"}, received : BOOLEAN, live : BOOLEAN]
          /\ watch'.commitment = watch.commitment /\ watch.commitment # "none"
      BY <2>5 DEF NotifyReceived, NotifyProcessed, IInv, TypeOK, WatchInv
    <3>3. notices \in Seq(Notices) /\ remembered' = remembered
      BY <2>5 DEF NotifyReceived, NotifyProcessed, IInv, TypeOK
    <3>4. TypeOK'
      BY <1>0, <2>3, <3>1, <3>2, <3>3 DEF IInv, TypeOK
    <3>5. CacheInv' /\ WatchInv'
      BY <2>1, <3>2, <3>3 DEF IInv, CacheInv, WatchInv, ledgerVars
    <3>6. NoticesInv'
      <4>1. SUFFICES ASSUME NEW i \in DOMAIN notices', notices'[i].kind = "processed"
                     PROVE  Holds(Carried(notices[i]))'
        BY DEF NoticesInv
      <4>2. notices'[i] \in Notices
        BY <3>1, <3>3
      <4>3. PICK v \in Verdicts : v = [verdict |-> notices'[i].verdict, commitment |-> watch.commitment]
        BY <3>2, <4>1, <4>2 DEF Notices, Verdicts, IInv, TypeOK
      <4>4. Holds(v)
        <5>1. (i \in DOMAIN notices /\ notices'[i] = notices[i]) \/ notices'[i] = n
          BY <3>1, <3>3
        <5>2. CASE notices'[i] = n
          BY <3>1, <4>1, <4>3, <5>2 DEF Carried
        <5>3. CASE i \in DOMAIN notices /\ notices'[i] = notices[i]
          BY <4>1, <4>3, <5>3 DEF IInv, NoticesInv, Carried
        <5> QED
          BY <5>1, <5>2, <5>3
      <4>5. Holds(v)'
        BY <2>1, <4>4, HoldsUnchanged
      <4>6. Carried(notices[i])' = v
        BY <3>2, <4>3 DEF Carried
      <4> QED
        BY <4>5, <4>6 DEF Holds, Stands
    <3> QED
      BY <1>h, <2>2, <3>4, <3>5, <3>6 DEF IInv
  <2> QED
    BY <1>2, <2>4, <2>5
<1> QED
  BY <1>1, <1>2 DEF Cluster

LEMMA ClientStep == IInv /\ Client => IInv'
<1> SUFFICES ASSUME IInv, Client PROVE IInv'
    OBVIOUS
<1>0. /\ UNCHANGED ledgerVars /\ UNCHANGED remembered
      /\ last = NoAnswer /\ \A v \in told : Holds(v)
      /\ watch \in [commitment : Commitments \cup {"none"}, received : BOOLEAN, live : BOOLEAN]
      /\ notices \in Seq(Notices) /\ remembered \in BOOLEAN /\ told \subseteq Verdicts
  BY DEF Client, IInv, TypeOK, ToldStands, Holds
<1>1. LedgerTypeOK' /\ CacheInv'
  BY <1>0 DEF IInv, TypeOK, LedgerTypeOK, CacheInv, ledgerVars
\* What a call may answer, and what it leaves.
<1>2. ASSUME NEW result \in SendError \cup {"Ok", "Err", "None", "false", "Received", "Trap"},
             NEW c \in Commitments, NEW search \in BOOLEAN,
             Answered(result, c, search),
             result \in {"Ok", "Err"} => Holds([verdict |-> result, commitment |-> c]),
             result = "None" /\ search =>
               \A v \in told : v.commitment \in AtLeast(c) => ~Stands(v),
             UNCHANGED <<watch, notices>> \/ (watch' = NoWatch /\ notices' = <<>>)
      PROVE  IInv'
  <2>1. ToldStands' /\ HistoryRemembers'
    BY <1>0, <1>2, AnswerKeeps
  <2>2. last' \in [result : SendError \cup {"none", "Ok", "Err", "None", "false", "Received", "Trap"},
                    commitment : Commitments \cup {"none"}, search : BOOLEAN]
    BY <1>2 DEF Answered
  <2>3. told' \in SUBSET Verdicts
    BY <1>0, <1>2 DEF Answered, Verdicts
  <2>4. /\ watch' \in [commitment : Commitments \cup {"none"}, received : BOOLEAN, live : BOOLEAN]
        /\ notices' \in Seq(Notices)
    <3>1. NoWatch \in [commitment : Commitments \cup {"none"}, received : BOOLEAN, live : BOOLEAN]
      BY DEF NoWatch
    <3>2. CASE UNCHANGED <<watch, notices>>
      BY <1>0, <3>2
    <3>3. CASE watch' = NoWatch /\ notices' = <<>>
      BY <3>1, <3>3
    <3> QED
      BY <1>2, <3>2, <3>3
  <2>5. WatchInv'
    BY <1>2 DEF IInv, WatchInv, NoWatch
  <2>6. NoticesInv'
    BY <1>0, <1>2, HoldsUnchanged
       DEF IInv, NoticesInv, Carried, ledgerVars, Holds, Stands, Frontier, Verdict
  <2> QED
    BY <1>0, <1>1, <2>1, <2>2, <2>3, <2>4, <2>5, <2>6 DEF IInv, TypeOK
<1>3. ASSUME NEW c \in Commitments, NEW search \in BOOLEAN, Fails(c, search) PROVE IInv'
  <2>1. PICK error \in {send(reply) : reply \in HostReply} \ {"Ok"} : Answered(error, c, search)
    BY <1>3 DEF Fails
  <2>2. error \in SendError
    BY <2>1 DEF send, SendError
  <2>3. error \notin {"Ok", "Err", "None"}
    BY <2>2 DEF SendError
  <2> QED
    BY <1>2, <1>3, <2>1, <2>2, <2>3 DEF Fails
<1>4. ASSUME NEW c \in Commitments, NEW search \in BOOLEAN, Panics(c, search) PROVE IInv'
  BY <1>2, <1>4 DEF Panics
<1>5. ASSUME NEW c \in Commitments, ConfirmTransaction(c) PROVE IInv'
  <2>1. confirm_transaction(c) \in {"Ok", "false"}
    BY DEF confirm_transaction
  <2>2. confirm_transaction(c) = "Ok" => Holds([verdict |-> "Ok", commitment |-> c])
    <3>1. SUFFICES ASSUME confirm_transaction(c) = "Ok"
                   PROVE  Holds([verdict |-> "Ok", commitment |-> c])
      OBVIOUS
    <3>2. status(c, Listed(FALSE)) = "Ok"
      BY <3>1 DEF confirm_transaction
    <3> QED
      BY <3>2 DEF status, Listed, Holds, IInv, TypeOK, LedgerTypeOK, Frontier, Commitments
  <2>3. CASE Answered(confirm_transaction(c), c, FALSE) /\ UNCHANGED <<watch, notices>>
    <3>1. CASE confirm_transaction(c) = "Ok"
      BY <1>2, <2>2, <2>3, <3>1
    <3>2. CASE confirm_transaction(c) = "false"
      BY <1>2, <2>3, <3>2
    <3> QED
      BY <2>1, <3>1, <3>2
  <2> QED
    BY <1>3, <1>4, <1>5, <2>3 DEF ConfirmTransaction
<1>6. ASSUME NEW c \in Commitments, NEW search \in BOOLEAN, GetSignatureStatus(c, search) PROVE IInv'
  <2> DEFINE r == status(c, Listed(search))
  <2>1. r \in {"Ok", "Err", "None"}
    BY DEF status, Verdict
  <2>2. r \in {"Ok", "Err"} => Holds([verdict |-> r, commitment |-> c])
    BY StatusHolds
  <2>3. r = "None" /\ search => \A v \in told : v.commitment \in AtLeast(c) => ~Stands(v)
    <3>1. SUFFICES ASSUME r = "None", search
                   PROVE  \A v \in told : v.commitment \in AtLeast(c) => ~Stands(v)
      OBVIOUS
    <3>2. ~Listed(TRUE) \/ ~(landed <= Frontier(c))
      BY <3>1 DEF status, Verdict
    <3> QED
      BY <3>2, NoneIsConsistent
  <2>4. CASE Answered(status(c, Listed(Searches(search))), c, search) /\ UNCHANGED <<watch, notices>>
    <3>1. Answered(r, c, search)
      BY <2>4 DEF Searches
    <3> HIDE DEF r
    <3> QED
      BY <1>2, <2>1, <2>2, <2>3, <2>4, <3>1
  <2> QED
    BY <1>3, <1>4, <1>6, <2>4 DEF GetSignatureStatus
<1>7. ASSUME NEW search \in BOOLEAN, GetSignatureStatuses(search) PROVE IInv'
  <2>1. "processed" \in Commitments /\ Level \in Commitments
    BY DEF Commitments, Level
  <2>2. CASE Listed(search) /\ Answered(Verdict, Level, search) /\ UNCHANGED <<watch, notices>>
    <3>1. Verdict \in {"Ok", "Err"}
      BY DEF Verdict
    <3>2. Holds([verdict |-> Verdict, commitment |-> Level])
      BY <2>2 DEF Holds, Listed, Level, Frontier, IInv, TypeOK, LedgerTypeOK
    <3> QED
      BY <1>2, <2>1, <2>2, <3>1, <3>2
  <2>3. CASE ~Listed(search) /\ Answered("None", "processed", search) /\ UNCHANGED <<watch, notices>>
    <3>1. search => \A v \in told : v.commitment \in AtLeast("processed") => ~Stands(v)
      BY <2>1, <2>3, NoneIsConsistent
    <3> QED
      BY <1>2, <2>1, <2>3, <3>1
  <2> QED
    BY <1>3, <1>7, <2>1, <2>2, <2>3 DEF GetSignatureStatuses, Searches
<1>8. ASSUME NEW option \in Commitments \cup {"None"}, NEW received \in BOOLEAN,
             SignatureSubscribe(option, received)
      PROVE  IInv'
  <2>1. notices = <<>> /\ notices' = <<>> /\ told' = told /\ last' = NoAnswer
    BY <1>0, <1>8 DEF SignatureSubscribe, IInv, WatchInv, NoWatch
  <2>2. /\ watch' \in [commitment : Commitments \cup {"none"}, received : BOOLEAN, live : BOOLEAN]
        /\ watch'.commitment = "none" => ~watch'.live
    <3>1. /\ NoWatch \in [commitment : Commitments \cup {"none"}, received : BOOLEAN, live : BOOLEAN]
          /\ NoWatch.commitment = "none" /\ ~NoWatch.live
      BY DEF NoWatch
    <3>2. CASE UNCHANGED watch
      BY <1>0, <1>8, <3>1, <3>2 DEF SignatureSubscribe
    <3>3. CASE watch' = [commitment |-> IF option = "None" THEN "finalized" ELSE option,
                         received |-> received, live |-> TRUE]
      <4>1. (IF option = "None" THEN "finalized" ELSE option) \in Commitments
        BY DEF Commitments
      <4>2. "none" \notin Commitments
        BY DEF Commitments
      <4> DEFINE c == IF option = "None" THEN "finalized" ELSE option
      <4> HIDE DEF c
      <4>3. watch' = [commitment |-> c, received |-> received, live |-> TRUE]
        BY <3>3 DEF c
      <4>4. c \in Commitments
        BY <4>1 DEF c
      <4>5. watch' \in [commitment : Commitments \cup {"none"}, received : BOOLEAN, live : BOOLEAN]
        BY <4>3, <4>4
      <4>6. watch'.commitment # "none"
        BY <4>2, <4>3, <4>4
      <4> QED
        BY <4>5, <4>6
    <3> QED
      BY <1>8, <3>2, <3>3 DEF SignatureSubscribe
  <2>3. ToldStands' /\ HistoryRemembers'
    <3>1. \A v \in told : Holds(v)'
      BY <1>0, HoldsUnchanged
    <3> QED
      BY <2>1, <3>1 DEF ToldStands, Holds, HistoryRemembers, NoAnswer
  <2>4. TypeOK'
    BY <1>0, <1>1, <2>1, <2>2 DEF TypeOK, IInv
  <2>5. NoticesInv' /\ WatchInv'
    BY <2>1, <2>2 DEF NoticesInv, WatchInv
  <2> QED
    BY <1>1, <2>3, <2>4, <2>5 DEF IInv
<1>9. ASSUME TakeNotice PROVE IInv'
  <2> DEFINE n == Head(notices)
             r == RpcSignatureResult(n)
  <2>1. /\ notices # <<>> /\ n \in Notices /\ notices' = Tail(notices)
        /\ notices' \in Seq(Notices) /\ watch' = watch
        /\ watch.commitment \in Commitments
        /\ Answered(r, watch.commitment, FALSE)
    <3>1. /\ notices # <<>> /\ notices' = Tail(notices) /\ watch' = watch
          /\ Answered(r, watch.commitment, FALSE)
      BY <1>9 DEF TakeNotice
    <3>2. watch.commitment # "none"
      BY <3>1 DEF IInv, WatchInv
    <3>3. watch.commitment \in Commitments
      BY <1>0, <3>2
    <3>4. n \in Notices /\ Tail(notices) \in Seq(Notices)
      BY <1>0, <3>1
    <3> QED
      BY <3>1, <3>3, <3>4
  <2>2. r \in {"Ok", "Err", "Received"}
    BY <2>1 DEF RpcSignatureResult, Notices
  <2>3. r \in {"Ok", "Err"} => Holds([verdict |-> r, commitment |-> watch.commitment])
    <3>1. SUFFICES ASSUME r \in {"Ok", "Err"}
                   PROVE  Holds([verdict |-> r, commitment |-> watch.commitment])
      OBVIOUS
    <3>2. n.kind = "processed" /\ r = n.verdict
      BY <3>1 DEF RpcSignatureResult
    <3>3. 1 \in DOMAIN notices /\ n = notices[1]
      BY <1>0, <2>1
    <3> QED
      BY <3>2, <3>3 DEF IInv, NoticesInv, Carried
  <2>4. ToldStands' /\ HistoryRemembers'
    <3> HIDE DEF r
    <3> QED
      BY <1>0, <2>1, <2>2, <2>3, AnswerKeeps
  <2>5. last' \in [result : SendError \cup {"none", "Ok", "Err", "None", "false", "Received", "Trap"},
                    commitment : Commitments \cup {"none"}, search : BOOLEAN]
    <3> HIDE DEF r
    <3> QED
      BY <2>1, <2>2 DEF Answered
  <2>6. told' \in SUBSET Verdicts
    <3> HIDE DEF r
    <3> QED
      BY <1>0, <2>1, <2>2 DEF Answered, Verdicts
  <2>7. NoticesInv'
    <3>1. SUFFICES ASSUME NEW i \in DOMAIN notices', notices'[i].kind = "processed"
                   PROVE  Holds(Carried(notices[i]))'
      BY DEF NoticesInv
    <3>2. i + 1 \in DOMAIN notices /\ notices'[i] = notices[i + 1]
      BY <1>0, <2>1, <3>1
    <3>3. Holds(Carried(notices[i + 1]))
      BY <3>1, <3>2 DEF IInv, NoticesInv
    <3> QED
      BY <1>0, <2>1, <3>2, <3>3 DEF Carried, ledgerVars, Holds, Stands, Frontier, Verdict
  <2>8. WatchInv'
    BY <2>1 DEF WatchInv, Commitments
  <2> QED
    BY <1>0, <1>1, <2>1, <2>4, <2>5, <2>6, <2>7, <2>8 DEF IInv, TypeOK
<1>10. ASSUME Unsubscribe PROVE IInv'
  <2>1. watch' = NoWatch /\ notices' = <<>> /\ told' = told /\ last' = NoAnswer
    BY <1>0, <1>10 DEF Unsubscribe
  <2>2. ToldStands' /\ HistoryRemembers'
    <3>1. \A v \in told : Holds(v)'
      BY <1>0, HoldsUnchanged
    <3> QED
      BY <2>1, <3>1 DEF ToldStands, Holds, HistoryRemembers, NoAnswer
  <2>3. TypeOK' /\ NoticesInv' /\ WatchInv'
    BY <1>0, <1>1, <2>1 DEF TypeOK, IInv, NoticesInv, WatchInv, NoWatch
  <2> QED
    BY <1>1, <2>2, <2>3 DEF IInv
<1> QED
  BY <1>5, <1>6, <1>7, <1>8, <1>9, <1>10 DEF Client

LEMMA RestStep == IInv /\ (Continue \/ UNCHANGED vars) => IInv'
<1> SUFFICES ASSUME IInv, Continue \/ UNCHANGED vars PROVE IInv'
    OBVIOUS
<1>1. /\ UNCHANGED <<ledgerVars, remembered, watch, notices, told>>
      /\ last' = last \/ last' = NoAnswer
  BY DEF Continue, vars
<1>2. TypeOK'
  <2>1. LedgerTypeOK'
    BY <1>1 DEF IInv, TypeOK, LedgerTypeOK, ledgerVars
  <2>2. NoAnswer \in [result : SendError \cup {"none", "Ok", "Err", "None", "false", "Received", "Trap"},
                      commitment : Commitments \cup {"none"}, search : BOOLEAN]
    BY DEF NoAnswer
  <2> QED
    BY <1>1, <2>1, <2>2 DEF IInv, TypeOK
<1>3. CacheInv' /\ WatchInv'
  BY <1>1 DEF IInv, CacheInv, WatchInv, ledgerVars
<1>4. ToldStands' /\ NoticesInv'
  BY <1>1 DEF IInv, ToldStands, NoticesInv, Carried, Holds, Stands, Frontier, Verdict, ledgerVars
<1>5. HistoryRemembers'
  BY <1>1 DEF IInv, HistoryRemembers, Stands, AtLeast, NoAnswer, ledgerVars
<1> QED
  BY <1>2, <1>3, <1>4, <1>5 DEF IInv

LEMMA Invariance == Spec => []IInv
<1>1. IInv /\ [Next]_vars => IInv'
  BY ClusterStep, ClientStep, RestStep DEF Next
<1> QED
  BY <1>1, InitIInv, PTL DEF Spec

------------------------------------------------------------------------------
(* Theorems.                                                                *)

\* Every variable keeps its type: a query ends in a verdict, an error of a known
\* kind, or a trap (client.rs:214-343).
THEOREM TypeCorrect == Spec => []TypeOK
BY Invariance, PTL DEF IInv

\* Whatever the methods and the notifications told of the transaction is so and
\* stays so, at any commitment and for any number of forks (client.rs:214-343,
\* response.rs:236-262).
THEOREM VerdictsStand == Spec => []ToldStands
BY Invariance, PTL DEF IInv

\* A search of the history never denies an earlier verdict, however much of its
\* cache the node has forgotten (client.rs:325-343).
THEOREM HistoryNeverDenies == Spec => []HistoryRemembers
BY Invariance, PTL DEF IInv
==============================================================================
