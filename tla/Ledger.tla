-------------------------------- MODULE Ledger -------------------------------
(****************************************************************************)
(* The cluster behind the proxy, as far as RpcClient observes it: block     *)
(* heights, one transaction, and the validity of a blockhash.  None of this *)
(* is code of the repository; it is modelled from the requests that         *)
(* src/rpc_client/client.rs makes and from what it does with the answers.   *)
(* The ledger moves on its own between any two requests.                    *)
(****************************************************************************)
EXTENDS Naturals

CONSTANTS
  MaxHeight,   \* bound: blocks produced
  MaxReorgs,   \* bound: times the processed fork is abandoned
  Lifetime     \* blocks for which a blockhash stays valid (150 in the cluster)

ASSUME LedgerAssumption ==
  MaxHeight \in Nat /\ MaxReorgs \in Nat /\ Lifetime \in Nat

VARIABLES
  tip,         \* height of the processed fork
  conf,        \* height of the last optimistically confirmed block
  root,        \* height of the last finalized block
  landed,      \* height of the block that holds the transaction, 0 if none does
  txOk,        \* the transaction executed without an error
  submitted,   \* the cluster has the transaction
  durable,     \* the transaction uses a durable nonce: it does not expire
  reorgs       \* number of abandoned forks so far

ledgerVars == <<tip, conf, root, landed, txOk, submitted, durable, reorgs>>

LedgerTypeOK ==
  /\ tip \in Nat /\ conf \in 0..tip /\ root \in 0..conf
  /\ landed \in 0..tip
  /\ txOk \in BOOLEAN /\ submitted \in BOOLEAN /\ durable \in BOOLEAN
  /\ reorgs \in 0..MaxReorgs

Commitments == {"processed", "confirmed", "finalized"}

\* The highest block that satisfies a commitment.
Frontier(commitment) ==
  CASE commitment = "processed" -> tip
    [] commitment = "confirmed" -> conf
    [] OTHER -> root

\* A blockhash: the block it was taken from (its fork, given by the number of
\* reorgs before it) and the last height at which it is valid.
FreshHash == [fork |-> reorgs, last |-> tip + Lifetime]

\* The recent blockhash inside the transaction.
OwnHash == [fork |-> 0, last |-> Lifetime]

\* What isBlockhashValid may answer at the processed commitment: a hash from a
\* fork that was abandoned since may have become unknown.
ValidityAnswers(hash) ==
  {tip <= hash.last} \cup (IF hash.fork < reorgs THEN {FALSE} ELSE {})

\* What getSignatureStatuses holds for the transaction, seen at a commitment:
\* the TransactionStatus passes satisfies_commitment, or the client drops it.
StatusAt(commitment) ==
  IF landed # 0 /\ landed <= Frontier(commitment)
  THEN IF txOk THEN "Ok" ELSE "Err"
  ELSE "None"

------------------------------------------------------------------------------

InitLedger ==
  /\ tip = 0 /\ conf = 0 /\ root = 0 /\ landed = 0 /\ reorgs = 0
  /\ txOk = FALSE
  /\ durable \in BOOLEAN

CanLand == submitted /\ landed = 0 /\ (durable \/ tip <= OwnHash.last)

\* A leader extends the processed fork, with or without the transaction.
NewBlock ==
  /\ tip < MaxHeight
  /\ tip' = tip + 1
  /\ \/ UNCHANGED <<landed, txOk>>
     \/ CanLand /\ landed' = tip' /\ txOk' \in BOOLEAN
  /\ UNCHANGED <<conf, root, submitted, durable, reorgs>>

Confirm ==
  /\ conf < tip
  /\ conf' = conf + 1
  /\ UNCHANGED <<tip, root, landed, txOk, submitted, durable, reorgs>>

Finalize ==
  /\ root < conf
  /\ root' = root + 1
  /\ UNCHANGED <<tip, conf, landed, txOk, submitted, durable, reorgs>>

\* The node switches to another fork: unconfirmed blocks are gone, with the
\* transaction if it was in one of them.
Reorg ==
  /\ reorgs < MaxReorgs
  /\ reorgs' = reorgs + 1
  /\ \E height \in conf..(tip - 1) :
       /\ tip' = height
       /\ landed' = IF landed > height THEN 0 ELSE landed
  /\ UNCHANGED <<conf, root, txOk, submitted, durable>>

LedgerNext == NewBlock \/ Confirm \/ Finalize \/ Reorg
==============================================================================
