------------------------- MODULE SendAndConfirmProofs ------------------------
(****************************************************************************)
(* Safety of send_and_confirm_transaction for every chain length, every     *)
(* blockhash lifetime, every number of forks and every commitment, and of   *)
(* what a procedure makes of its error (ConfirmErrors).                     *)
(****************************************************************************)
EXTENDS ConfirmErrors, TLAPS

\* The call has a result exactly when it has returned.
ReturnedInv == (pc = "done") <=> (result # "none")

\* An ordinary transaction is watched through its own blockhash, and the hash
\* comes from the current fork as long as there was only one.
HashInv ==
  /\ ~durable => hash = OwnHash /\ pc # "hash"
  /\ hash.fork <= reorgs

\* The last poll covered no more than the ledger covers now, and what it did not
\* see is still not there.
PolledInv ==
  ~Forked =>
    /\ polled <= Frontier(Commitment)
    /\ (pc \in {"validity", "sleep"} \/ result = "Unable") =>
         (landed = 0 \/ landed > polled)

\* On one fork, giving up means the watched hash has expired.
ExpiredInv == (result = "Unable" /\ reorgs = 0) => tip > hash.last

\* On one fork, the hash of a durable transaction outlives its acceptance by a
\* whole lifetime.
DurableInv ==
  (durable /\ reorgs = 0) =>
    /\ sentAt <= tip
    /\ (pc \in {"status", "validity", "sleep"} \/ result = "Unable") =>
         hash.last >= sentAt + Lifetime

IInv ==
  /\ TypeOK /\ ReturnedInv /\ HashInv /\ PolledInv /\ ExpiredInv /\ DurableInv
  /\ VerdictSound /\ PollsOnlyAccepted

------------------------------------------------------------------------------
(* What the operators return.                                               *)

\* send, whatever the host answers, gives "Ok" or one of its error kinds.
LEMMA SendReturns ==
  ASSUME NEW reply \in HostReply
  PROVE  send(reply) \in {"Ok"} \cup SendError
BY DEF send, SendError

\* The frontier of a commitment is a height of the chain.
LEMMA FrontierHeight ==
  ASSUME LedgerTypeOK
  PROVE  Frontier(Commitment) \in 0..tip
BY DEF LedgerTypeOK, Frontier

\* On one fork isBlockhashValid tells whether the tip is within the lifetime.
LEMMA ValidityOnOneFork ==
  ASSUME NEW h, h.fork \in Nat, h.last \in Nat, tip \in Nat, reorgs = 0,
         h.fork <= reorgs,
         NEW valid \in ValidityAnswers(h), ~valid
  PROVE  tip > h.last
<1>1. ~(h.fork < reorgs)
  OBVIOUS
<1>2. valid \in {tip <= h.last}
  BY <1>1 DEF ValidityAnswers
<1>3. ~(tip <= h.last)
  BY <1>2
<1> QED
  BY <1>3

------------------------------------------------------------------------------
(* The invariant.                                                           *)

LEMMA InitIInv == Init => IInv
<1> SUFFICES ASSUME Init PROVE IInv
    OBVIOUS
<1> USE LedgerAssumption DEF LedgerAssumption, Init, InitLedger
<1>1. TypeOK
  <2>1. LedgerTypeOK
    <3>1. txOk \in BOOLEAN /\ submitted \in BOOLEAN /\ durable \in BOOLEAN
      OBVIOUS
    <3>2. /\ tip \in Nat /\ conf \in 0..tip /\ root \in 0..conf
          /\ landed \in 0..tip /\ reorgs \in 0..MaxReorgs
      OBVIOUS
    <3> QED
      BY <3>1, <3>2 DEF LedgerTypeOK
  <2>2. hash \in [fork : 0..MaxReorgs, last : Nat]
    BY DEF OwnHash
  <2> QED
    BY <2>1, <2>2 DEF TypeOK, Requests
<1>2. ReturnedInv /\ HashInv /\ ExpiredInv /\ DurableInv
  BY DEF ReturnedInv, HashInv, ExpiredInv, DurableInv, OwnHash
<1>3. PolledInv
  BY DEF PolledInv, Frontier
<1>4. VerdictSound /\ PollsOnlyAccepted
  BY DEF VerdictSound, PollsOnlyAccepted
<1> QED
  BY <1>1, <1>2, <1>3, <1>4 DEF IInv

\* A step of the cluster keeps the invariant.
LEMMA ClusterStep == IInv /\ Cluster(LedgerNext) => IInv'
<1> SUFFICES ASSUME IInv, Cluster(LedgerNext) PROVE IInv'
    OBVIOUS
<1> USE LedgerAssumption, SendAndConfirmAssumption
    DEF LedgerAssumption, SendAndConfirmAssumption, Commitments, IInv, TypeOK, LedgerTypeOK, Cluster, clientVars
<1>1. CASE NewBlock
  BY <1>1 DEF NewBlock, CanLand, ReturnedInv, HashInv, PolledInv, ExpiredInv,
     DurableInv, VerdictSound, PollsOnlyAccepted, Forked, Frontier, OwnHash
<1>2. CASE Confirm
  BY <1>2 DEF Confirm, ReturnedInv, HashInv, PolledInv, ExpiredInv,
     DurableInv, VerdictSound, PollsOnlyAccepted, Forked, Frontier, OwnHash
<1>3. CASE Finalize
  BY <1>3 DEF Finalize, ReturnedInv, HashInv, PolledInv, ExpiredInv,
     DurableInv, VerdictSound, PollsOnlyAccepted, Forked, Frontier, OwnHash
<1>4. CASE Reorg
  BY <1>4 DEF Reorg, ReturnedInv, HashInv, PolledInv, ExpiredInv,
     DurableInv, VerdictSound, PollsOnlyAccepted, Forked, Frontier, OwnHash
<1> QED
  BY <1>1, <1>2, <1>3, <1>4 DEF LedgerNext

\* A step of the client keeps the invariant.
LEMMA ClientStep == IInv /\ Client => IInv'
<1> SUFFICES ASSUME IInv, Client PROVE IInv'
    OBVIOUS
<1> USE LedgerAssumption, SendAndConfirmAssumption
    DEF LedgerAssumption, SendAndConfirmAssumption, Commitments, IInv, TypeOK,
    LedgerTypeOK, Return, Continue, Requests, ledgerVars
<1>1. CASE EncodeFails
  BY <1>1 DEF EncodeFails, ReturnedInv, HashInv, PolledInv, ExpiredInv, Results,
     Errors, SendError,
     DurableInv, VerdictSound, PollsOnlyAccepted, Forked, Frontier, OwnHash
<1>6. CASE Sleep
  BY <1>6 DEF Sleep, ReturnedInv, HashInv, PolledInv, ExpiredInv,
     DurableInv, VerdictSound, PollsOnlyAccepted, Forked, Frontier, OwnHash
<1>2. CASE SendTransaction
  <2> PICK reply \in HostReply, echo \in {"own", "other", "unparsable"} :
        /\ submitted' \in IF send(reply) = "Ok" /\ echo = "own" THEN {TRUE} ELSE BOOLEAN
        /\ IF send_transaction(reply, echo) = "Ok"
           THEN Continue(AfterSend) /\ sentAt' = tip
           ELSE Return(send_transaction(reply, echo)) /\ UNCHANGED sentAt
    BY <1>2 DEF SendTransaction
  <2>0. pc = "send" /\ UNCHANGED <<tip, conf, root, landed, txOk, durable, reorgs, hash, polled>>
    BY <1>2 DEF SendTransaction
  <2>1. send_transaction(reply, echo) \in {"Ok"} \cup Errors
    BY SendReturns DEF send_transaction, Errors
  <2>2. CASE send_transaction(reply, echo) = "Ok"
    <3>1. send(reply) = "Ok" /\ echo = "own"
      BY <2>1, <2>2, SendReturns DEF send_transaction, SendError
    <3>2. submitted' = TRUE
      BY <3>1
    <3>3. pc' = AfterSend /\ result' = "none" /\ sentAt' = tip
      BY <2>0, <2>2 DEF ReturnedInv
    <3> QED
      BY <2>0, <3>2, <3>3 DEF AfterSend, ReturnedInv, HashInv, PolledInv, ExpiredInv, DurableInv,
         VerdictSound, PollsOnlyAccepted, Forked, Frontier, OwnHash
  <2>3. CASE send_transaction(reply, echo) # "Ok"
    <3>1. submitted' \in BOOLEAN
      OBVIOUS
    <3>2. pc' = "done" /\ result' \in Errors /\ UNCHANGED sentAt
      BY <2>1, <2>3
    <3> QED
      BY <2>0, <3>1, <3>2 DEF ReturnedInv, HashInv, PolledInv, ExpiredInv, DurableInv,
         VerdictSound, PollsOnlyAccepted, Forked, Frontier, OwnHash, Errors, Results, SendError
  <2> QED
    BY <2>2, <2>3
<1>3. CASE GetLatestBlockhash
  <2> PICK reply \in HostReply, parses \in BOOLEAN :
        IF get_latest_blockhash(reply, parses) = "Ok"
        THEN Continue("status") /\ hash' = FreshHash
        ELSE Return(get_latest_blockhash(reply, parses)) /\ UNCHANGED hash
    BY <1>3 DEF GetLatestBlockhash
  <2>0. pc = "hash" /\ UNCHANGED <<ledgerVars, polled, sentAt>>
    BY <1>3 DEF GetLatestBlockhash
  <2>1. get_latest_blockhash(reply, parses) \in {"Ok"} \cup Errors
    BY SendReturns DEF get_latest_blockhash, Errors
  <2>2. CASE get_latest_blockhash(reply, parses) = "Ok"
    BY <2>0, <2>2 DEF FreshHash, ReturnedInv, HashInv, PolledInv, ExpiredInv, DurableInv,
       VerdictSound, PollsOnlyAccepted, Forked, Frontier, OwnHash
  <2>3. CASE get_latest_blockhash(reply, parses) # "Ok"
    <3>1. pc' = "done" /\ result' \in Errors /\ UNCHANGED hash
      BY <2>1, <2>3
    <3> QED
      BY <2>0, <3>1 DEF ReturnedInv, HashInv, PolledInv, ExpiredInv, DurableInv,
         VerdictSound, PollsOnlyAccepted, Forked, Frontier, OwnHash, Errors, Results, SendError
  <2> QED
    BY <2>2, <2>3
<1>4. CASE GetSignatureStatus
  <2> PICK reply \in HostReply, listed \in BOOLEAN :
        LET outcome == get_signature_status(reply, listed) IN
        IF outcome = "None"
        THEN Continue("validity") /\ polled' = Frontier(Commitment)
        ELSE /\ Return(IF outcome = "Err" THEN "TransactionError" ELSE outcome)
             /\ UNCHANGED polled
    BY <1>4 DEF GetSignatureStatus
  <2> DEFINE outcome == get_signature_status(reply, listed)
  <2>0. pc = "status" /\ UNCHANGED <<ledgerVars, hash, sentAt>>
    BY <1>4 DEF GetSignatureStatus
  <2>1. /\ outcome \in {"Ok", "Err", "None", "Trap"} \cup SendError
        /\ outcome \in {"Ok", "Err", "None"} => outcome = StatusAt(Commitment)
    BY SendReturns DEF get_signature_status, StatusAt, SendError
  <2>2. CASE outcome = "None"
    <3>1. landed = 0 \/ landed > Frontier(Commitment)
      BY <2>1, <2>2, FrontierHeight DEF StatusAt
    <3>2. pc' = "validity" /\ result' = "none" /\ polled' = Frontier(Commitment)
      BY <2>0, <2>2 DEF ReturnedInv
    <3> QED
      BY <2>0, <3>1, <3>2, FrontierHeight DEF ReturnedInv, HashInv, PolledInv, ExpiredInv,
         DurableInv, VerdictSound, PollsOnlyAccepted, Forked, Frontier, OwnHash
  <2>3. CASE outcome \in {"Ok", "Err"}
    <3>1. landed \in 1..Frontier(Commitment) /\ txOk = (outcome = "Ok")
      BY <2>1, <2>3, FrontierHeight DEF StatusAt
    <3>2. /\ pc' = "done" /\ UNCHANGED polled
          /\ result' \in {"Ok", "TransactionError"} /\ (result' = "Ok" <=> outcome = "Ok")
      BY <2>3
    <3> QED
      BY <2>0, <3>1, <3>2 DEF ReturnedInv, HashInv, PolledInv, ExpiredInv, Results,
         DurableInv, VerdictSound, PollsOnlyAccepted, Forked, Frontier, OwnHash
  <2>4. CASE outcome \in {"Trap"} \cup SendError
    <3>1. pc' = "done" /\ result' \in {"Trap"} \cup SendError /\ UNCHANGED polled
      BY <2>4 DEF SendError
    <3> QED
      BY <2>0, <3>1 DEF ReturnedInv, HashInv, PolledInv, ExpiredInv, DurableInv,
         VerdictSound, PollsOnlyAccepted, Forked, Frontier, OwnHash, Errors, Results, SendError
  <2> HIDE DEF outcome
  <2> QED
    BY <2>1, <2>2, <2>3, <2>4
<1>5. CASE IsBlockhashValid
  <2> PICK reply \in HostReply, valid \in ValidityAnswers(hash) :
        CASE is_blockhash_valid(reply, valid) = "Valid" -> Continue("sleep")
          [] is_blockhash_valid(reply, valid) = "Invalid" -> Return("Unable")
          [] OTHER -> Return(is_blockhash_valid(reply, valid))
    BY <1>5 DEF IsBlockhashValid
  <2> DEFINE outcome == is_blockhash_valid(reply, valid)
  <2>0. pc = "validity" /\ UNCHANGED <<ledgerVars, hash, polled, sentAt>>
    BY <1>5 DEF IsBlockhashValid
  <2>1. /\ outcome \in {"Valid", "Invalid"} \cup SendError
        /\ outcome = "Invalid" => ~valid
    BY SendReturns DEF is_blockhash_valid, SendError
  <2>2. CASE outcome = "Valid"
    BY <2>0, <2>2 DEF ReturnedInv, HashInv, PolledInv, ExpiredInv, DurableInv,
       VerdictSound, PollsOnlyAccepted, Forked, Frontier, OwnHash
  <2>3. CASE outcome = "Invalid"
    <3>1. reorgs = 0 => tip > hash.last
      BY <2>1, <2>3, ValidityOnOneFork DEF HashInv
    <3>2. pc' = "done" /\ result' = "Unable"
      BY <2>3
    <3> QED
      BY <2>0, <3>1, <3>2 DEF ReturnedInv, HashInv, PolledInv, ExpiredInv, DurableInv,
         VerdictSound, PollsOnlyAccepted, Forked, Frontier, OwnHash, Results
  <2>4. CASE outcome \in SendError
    <3>1. pc' = "done" /\ result' \in SendError
      BY <2>4 DEF SendError
    <3> QED
      BY <2>0, <3>1 DEF ReturnedInv, HashInv, PolledInv, ExpiredInv, DurableInv,
         VerdictSound, PollsOnlyAccepted, Forked, Frontier, OwnHash, Errors, Results, SendError
  <2> HIDE DEF outcome
  <2> QED
    BY <2>1, <2>2, <2>3, <2>4
<1> QED
  BY <1>1, <1>2, <1>3, <1>4, <1>5, <1>6 DEF Client

\* A step that leaves the call and the ledger alone keeps the invariant.
LEMMA Stutter == IInv /\ UNCHANGED vars => IInv'
BY DEF vars, ledgerVars, clientVars, IInv, TypeOK, LedgerTypeOK, ReturnedInv, HashInv,
   PolledInv, ExpiredInv, DurableInv, VerdictSound, PollsOnlyAccepted, Forked, Frontier

\* The invariant holds in every reachable state.
THEOREM Invariance == Spec => []IInv
BY InitIInv, ClusterStep, ClientStep, Stutter, PTL DEF Spec, Next

------------------------------------------------------------------------------
(* The theorems.                                                            *)

\* Every variable keeps its type; a call returns one of the results the code
\* can build, each error wrapped in its ClientErrorKind.
THEOREM TypeCorrect == Spec => []TypeOK
BY Invariance, PTL DEF IInv

\* A verdict is true in the ledger at the client's commitment when it is
\* returned, and stays true (get_signature_status and satisfies_commitment).
THEOREM VerdictIsSound == Spec => []VerdictSound
BY Invariance, PTL DEF IInv

\* Only a transaction the node acknowledged with its own signature is polled for
\* (send_transaction_with_config, client.rs:195-208).
THEOREM OnlyAcceptedPolled == Spec => []PollsOnlyAccepted
BY Invariance, PTL DEF IInv

\* "unable to confirm" misses a landed transaction only if its block satisfied
\* the commitment after the last poll.
THEOREM MissesOnlyInWindow == Spec => []MissedOnlyInWindow
<1>1. IInv => MissedOnlyInWindow
  BY DEF IInv, PolledInv, MissedOnlyInWindow
<1> QED
  BY <1>1, Invariance, PTL

\* A durable transaction is watched for a whole blockhash lifetime after the
\* node took it.
THEOREM DurableIsWatched == Spec => []DurableWaitsFullLifetime
<1>1. IInv => DurableWaitsFullLifetime
  BY LedgerAssumption DEF LedgerAssumption, IInv, TypeOK, LedgerTypeOK, ExpiredInv,
     DurableInv, DurableWaitsFullLifetime
<1> QED
  BY <1>1, Invariance, PTL

\* After "unable to confirm" on one fork, an ordinary transaction that has not
\* landed never will: resending is safe.
THEOREM UnableIsFinal == Spec => UnableSettles
<1> DEFINE Settles == (result = "Unable" /\ ~durable /\ reorgs' = 0 /\ landed = 0) => landed' = 0
<1>1. IInv /\ [Next]_vars => Settles
  <2> SUFFICES ASSUME IInv, [Next]_vars,
                      result = "Unable", ~durable, reorgs' = 0, landed = 0
               PROVE  landed' = 0
    OBVIOUS
  <2> USE LedgerAssumption DEF LedgerAssumption, IInv, TypeOK, LedgerTypeOK
  <2>1. pc = "done"
    BY DEF ReturnedInv
  <2>2. ~Client
    BY <2>1 DEF Client, EncodeFails, SendTransaction, GetLatestBlockhash,
       GetSignatureStatus, IsBlockhashValid, Sleep
  <2>3. CASE UNCHANGED vars
    BY <2>3 DEF vars, ledgerVars
  <2>4. CASE NewBlock
    <3>1. reorgs = 0
      BY <2>4 DEF NewBlock
    <3>2. tip > OwnHash.last
      BY <3>1 DEF ExpiredInv, HashInv, OwnHash
    <3> QED
      BY <2>4, <3>2 DEF NewBlock, CanLand, OwnHash
  <2>5. CASE Confirm \/ Finalize \/ Reorg
    BY <2>5 DEF Confirm, Finalize, Reorg
  <2> QED
    BY <2>2, <2>3, <2>4, <2>5 DEF Next, Cluster, LedgerNext
<1> QED
  BY <1>1, Invariance, PTL DEF Spec, UnableSettles

------------------------------------------------------------------------------
(* The error of the call and its conversions.                               *)

\* An error exists only once the call has failed. As long as a conversion can give
\* back an Error or an ErrorKind, its kind still tells a transaction that was
\* executed from everything else, and no conversion makes up a request.
ErrorInv ==
  /\ E!ErrorTypeOK
  /\ error # E!NoError =>
       /\ pc = "done" /\ result \notin {"Ok", "Trap", "none"}
       /\ error.form \in {"Error", "ErrorKind", "TransportError"} =>
            /\ error.kind = "TransactionError" <=> result = "TransactionError"
            /\ error.request \in {"none", cause}

ConfirmInv == IInv /\ ErrorInv

\* Only a transaction that was executed gives an error of the kind TransactionError.
LEMMA KindOfResult ==
  ASSUME result \in Results
  PROVE  KindOf(result) = "TransactionError" <=> result = "TransactionError"
BY DEF KindOf, Results, Errors, SendError

\* The error of a call that has just failed: the kind is that of the result, and
\* the request is the one that failed, or left out.
LEMMA CatchStep == ConfirmInv /\ Catch => ErrorInv'
<1> SUFFICES ASSUME ConfirmInv, Catch PROVE ErrorInv'
    OBVIOUS
<1> DEFINE kind == KindOf(result)
<1>1. /\ pc' = "done" /\ result' = result
      /\ result \in Results /\ result \notin {"Ok", "Trap", "none"}
  BY DEF Catch, vars, clientVars, ConfirmInv, IInv, ReturnedInv, TypeOK
<1>2. kind = "TransactionError" <=> result = "TransactionError"
  BY <1>1, KindOfResult
<1>3. PICK named, request :
        /\ named \in E!Names /\ request \in E!Names /\ named \in {"none", request}
        /\ kind \in E!Kinds
        /\ E!Fails(kind, named, request)
  BY DEF Catch, E!Arises, E!SendFails, E!new_with_request, E!MadeUp, E!BeforeRequest,
     E!TransactionFails, E!Names, E!Kinds, E!SendError
<1> HIDE DEF kind
<1>4. error' = [form |-> "Error", kind |-> kind, request |-> named] /\ cause' = request
  BY <1>3 DEF E!Fails
<1> QED
  BY <1>1, <1>2, <1>3, <1>4 DEF ErrorInv, E!ErrorTypeOK, E!Forms

\* Every conversion keeps it: the three kinds of TransportError have their
\* counterparts, and what becomes text was no TransactionError.
LEMMA ConvertStep == ConfirmInv /\ Convert => ErrorInv'
<1> SUFFICES ASSUME ConfirmInv, Convert PROVE ErrorInv'
    OBVIOUS
<1> USE DEF ErrorInv, E!ErrorTypeOK
<1>1. pc' = pc /\ result' = result /\ cause' = cause
  BY DEF Convert, E!Convert, vars, clientVars
<1>2. error # E!NoError
  BY DEF Convert, E!Convert, E!NoError
<1>3. /\ error \in [form : E!Forms, kind : E!Kinds \cup {"Internal"}, request : E!Names]
      /\ cause \in E!Names
      /\ pc = "done" /\ result \notin {"Ok", "Trap", "none"}
  BY <1>2 DEF ConfirmInv
<1>4. SUFFICES
        /\ error' \in [form : E!Forms, kind : E!Kinds \cup {"Internal"}, request : E!Names]
        /\ error'.form \in {"Error", "ErrorKind", "TransportError"} =>
             /\ error'.kind = "TransactionError" <=> result = "TransactionError"
             /\ error'.request \in {"none", cause}
  BY <1>1, <1>3
<1>5. error.form \in {"Error", "ErrorKind", "TransportError"} =>
        /\ error.kind = "TransactionError" <=> result = "TransactionError"
        /\ error.request \in {"none", cause}
  BY <1>2 DEF ConfirmInv
<1> HIDE DEF ErrorInv, E!ErrorTypeOK
<1> USE <1>3, <1>5 DEF E!Forms, E!Kinds, E!Names
<1>a. CASE error.form \in {"Error", "ErrorKind"} /\ error' = E!ToTransport(error)
  BY <1>a DEF E!ToTransport
<1>b. CASE error.form = "TransportError"
           /\ \E form \in {"Error", "ErrorKind"} : error' = E!FromTransport(error, form)
  BY <1>b DEF E!FromTransport
<1>c. CASE error.form = "Error" /\ error' = E!ToKind(error)
  BY <1>c DEF E!ToKind
<1>d. CASE error.form = "ErrorKind" /\ error' = E!FromKind(error)
  BY <1>d DEF E!FromKind
<1>e. CASE error.form = "Error" /\ error' = E!into_with_request(error, cause)
  BY <1>e DEF E!into_with_request
<1>f. CASE error.form = "Error" /\ error' = E!ToProcedure(error)
  BY <1>f DEF E!ToProcedure
<1> QED
  BY <1>a, <1>b, <1>c, <1>d, <1>e, <1>f DEF Convert, E!Convert

\* A step of the chain after the call has returned leaves the error as true as it was.
LEMMA CallStep == ConfirmInv /\ Next /\ UNCHANGED <<error, cause>> => ErrorInv'
<1> SUFFICES ASSUME ConfirmInv, Next, UNCHANGED <<error, cause>> PROVE ErrorInv'
    OBVIOUS
<1>1. CASE pc = "done"
  <2>1. ~Client
    BY <1>1 DEF Client, EncodeFails, SendTransaction, GetLatestBlockhash,
       GetSignatureStatus, IsBlockhashValid, Sleep
  <2>2. UNCHANGED <<pc, result>>
    BY <2>1 DEF Next, Cluster, clientVars
  <2> QED
    BY <2>2 DEF ConfirmInv, ErrorInv, E!ErrorTypeOK
<1>2. CASE pc # "done"
  BY <1>2 DEF ConfirmInv, ErrorInv, E!ErrorTypeOK
<1> QED
  BY <1>1, <1>2

\* The invariant of the call together with its error.
THEOREM ConfirmInvariance == ConfirmSpec => []ConfirmInv
<1>1. ConfirmInit => ConfirmInv
  BY InitIInv DEF ConfirmInit, ConfirmInv, ErrorInv, E!ErrorInit, E!ErrorTypeOK, E!Names
<1>2. ConfirmInv /\ [ConfirmNext]_<<vars, error, cause>> => ConfirmInv'
  <2> SUFFICES ASSUME ConfirmInv, [ConfirmNext]_<<vars, error, cause>> PROVE ConfirmInv'
      OBVIOUS
  <2>1. CASE Next /\ UNCHANGED <<error, cause>>
    BY <2>1, CallStep, ClusterStep, ClientStep DEF ConfirmInv, Next
  <2>2. CASE Catch
    BY <2>2, CatchStep, Stutter DEF ConfirmInv, Catch
  <2>3. CASE Convert
    BY <2>3, ConvertStep, Stutter DEF ConfirmInv, Convert
  <2>4. CASE UNCHANGED <<vars, error, cause>>
    <3>1. IInv'
      BY <2>4, Stutter DEF ConfirmInv
    <3>2. ErrorInv'
      BY <2>4 DEF ConfirmInv, ErrorInv, E!ErrorTypeOK, vars, clientVars
    <3> QED
      BY <3>1, <3>2 DEF ConfirmInv
  <2> QED
    BY <2>1, <2>2, <2>3, <2>4 DEF ConfirmNext
<1> QED
  BY <1>1, <1>2, PTL DEF ConfirmSpec

\* However an error was converted, get_transaction_error finds a TransactionError in
\* it exactly when the transaction was executed and failed, and request() names the
\* request that failed or none (error.rs).
THEOREM ErrorIsTrue == ConfirmSpec => []ErrorTellsTheTruth
<1>1. ConfirmInv => ErrorTellsTheTruth
  <2> SUFFICES ASSUME ConfirmInv, error.form \in {"Error", "ErrorKind"}
               PROVE  /\ result = "TransactionError" => E!get_transaction_error(error) = "Some"
                      /\ (E!get_transaction_error(error) = "Some" /\ ~Forked) =>
                           landed \in 1..Frontier(Commitment) /\ ~txOk
                      /\ error.request \in {"none", cause}
    BY DEF ErrorTellsTheTruth
  <2>1. /\ error.kind = "TransactionError" <=> result = "TransactionError"
        /\ error.request \in {"none", cause}
    BY DEF ConfirmInv, ErrorInv, E!NoError
  <2>2. E!get_transaction_error(error) = "Some" <=> result = "TransactionError"
    BY <2>1 DEF E!get_transaction_error
  <2>3. (result = "TransactionError" /\ ~Forked) =>
          landed \in 1..Frontier(Commitment) /\ ~txOk
    BY DEF ConfirmInv, IInv, VerdictSound
  <2> QED
    BY <2>1, <2>2, <2>3
<1> QED
  BY <1>1, ConfirmInvariance, PTL

\* A procedure that handles the error of the call leaves the call what it is: each
\* behaviour with the error hidden is one of Spec, and what is proved of Spec holds
\* for the procedure.
THEOREM ErrorsAreObservers == ConfirmSpec => Spec
<1>1. ConfirmInit => Init
  BY DEF ConfirmInit
<1>2. [ConfirmNext]_<<vars, error, cause>> => [Next]_vars
  BY DEF ConfirmNext, Catch, Convert
<1> QED
  BY <1>1, <1>2, PTL DEF ConfirmSpec, Spec
==============================================================================
