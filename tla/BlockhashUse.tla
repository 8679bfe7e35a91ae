----------------------------- MODULE BlockhashUse ----------------------------
(****************************************************************************)
(* A blockhash from the moment RpcClient (src/rpc_client/client.rs) hands   *)
(* it out until its last use.  get_latest_blockhash* takes it from the      *)
(* newest block of some commitment, and get_new_latest_blockhash            *)
(* (BlockhashWait) replaces it.  is_blockhash_valid, get_fee_for_message,   *)
(* simulate_transaction*, send_transaction* and request_airdrop* give it    *)
(* back to a node, which looks for it among the recent blocks of the        *)
(* commitment that the method sends along.                                  *)
(****************************************************************************)
EXTENDS BlockhashWait

VARIABLES
  airdrops,  \* history: the blockhashes of the airdrop transactions that were signed for
             \* requests which named the hash in the procedure's hands
  last       \* the use whose result the procedure looks at: the commitment the method
             \* promises, (history) whether the node missed the hash, the result

useVars == <<airdrops, last>>

NoUse == [promised |-> "none", missed |-> FALSE, result |-> "none"]

Results == SendError \cup {"none", "Ok", "Err", "false", "RpcError"}

UseTypeOK ==
  /\ TypeOK
  /\ airdrops \subseteq 0..produced
  /\ last \in [promised : Commitments \cup {"none"}, missed : BOOLEAN, result : Results]

\* The procedure begins with the hash of the first block.
UseInit == Init /\ durable = FALSE /\ airdrops = {} /\ last = NoUse

------------------------------------------------------------------------------
(* The node.                                                                *)

\* Where the block of a hash is on the fork, if it is there.
HeightsOf(hash) == {height \in 0..tip : block[height] = hash}

\* The hash is one of those that are valid in the newest block of the commitment.
Known(hash, commitment) ==
  \E height \in HeightsOf(hash) :
    height <= Frontier(commitment) /\ Frontier(commitment) <= height + Lifetime

------------------------------------------------------------------------------
(* The hash in the procedure's hands.                                       *)

\* A hash that does not parse is an error like a failed request: the caller keeps what
\* it has.
GetLatestBlockhash ==
  /\ \E commitment \in Commitments : Take(commitment)
  /\ airdrops' = IF blockhash' = blockhash THEN airdrops ELSE {}
  /\ UNCHANGED last

\* get_new_latest_blockhash has returned, and the caller goes on with the new hash.
TakeNew ==
  /\ pc = "done" /\ pc' = "start"
  /\ elapsed' = 0 /\ result' = "none"
  /\ IF result = "Ok"
     THEN blockhash' = latest /\ takenAt' = Commitment /\ airdrops' = {}
     ELSE UNCHANGED <<blockhash, takenAt, airdrops>>
  /\ UNCHANGED <<worldVars, latest, last>>

------------------------------------------------------------------------------
(* Its uses.                                                                *)

\* The commitment a caller puts in a config.
Options == Commitments \cup {"None"}

\* CommitmentConfig::default().
Default == "finalized"

\* A config's commitment, unwrap_or_default().
OrDefault(option) == IF option = "None" THEN Default ELSE option

\* A use of the hash: the method promises one commitment and sends "asked"; the
\* request fails, or the node answers it.
Use(promised, asked, found, missing) ==
  /\ \E outcome \in {send(reply) : reply \in HostReply} :
       last' = IF outcome # "Ok"
               THEN [promised |-> promised, missed |-> FALSE, result |-> outcome]
               ELSE [promised |-> promised, missed |-> ~Known(blockhash, asked),
                     result |-> IF Known(blockhash, asked) THEN found ELSE missing]
  /\ UNCHANGED airdrops

\* is_blockhash_valid has no variant without a commitment.
IsBlockhashValid == \E c \in Commitments : Use(c, c, "Ok", "false")

\* None for an unknown hash becomes an error.
GetFeeForMessage == Use(Commitment, Commitment, "Ok", "Custom")

\* The simulation of a transaction with an unknown hash succeeds; what it reports is
\* an error.
SimulateTransaction == Use(Commitment, Commitment, "Ok", "Err")

SimulateTransactionWithConfig ==
  \E option \in Options : Use(OrDefault(option), OrDefault(option), "Ok", "Err")

\* Not the code: the preflight check of send_transaction runs at the default commitment.
preflight_commitment_Default == Default

\* preflight_commitment: Some(self.commitment().commitment)
preflight_commitment == Commitment

\* The node simulates the transaction before it accepts it.
SendTransaction == Use(Commitment, preflight_commitment, "Ok", "RpcResponseError")

SendTransactionWithConfig ==
  \E option \in Options : Use(OrDefault(option), OrDefault(option), "Ok", "RpcResponseError")

\* Not the code: the config of request_airdrop_with_blockhash without the hash.
recent_blockhash_Dropped(named) == {}

\* recent_blockhash: Some(recent_blockhash.to_string()), here the set with it.
recent_blockhash(named) == named

\* request_airdrop_with_config: the node signs a transaction with the hash it is given,
\* or with its newest, and whatever goes wrong then or before is "rate limit" to the
\* caller. A reply that is no signature is such an error, too.
RequestAirdrop(commitment, named) ==
  \E signed \in BOOLEAN, answered \in {send(reply) = "Ok" : reply \in HostReply} :
    /\ answered => signed
    /\ airdrops' = IF ~signed \/ named = {} THEN airdrops
                   ELSE airdrops \cup (IF recent_blockhash(named) # {} THEN recent_blockhash(named)
                                       ELSE {block[Frontier(commitment)]})
    /\ last' = [promised |-> "none", missed |-> FALSE,
                result |-> IF answered THEN "Ok" ELSE "RpcError"]

\* request_airdrop, request_airdrop_with_blockhash and a caller's own config.
Airdrop ==
  \E named \in {{}, {blockhash}}, option \in Options :
    RequestAirdrop(Commitment, named) \/ RequestAirdrop(OrDefault(option), named)

Uses ==
  /\ pc = "start" /\ last = NoUse
  /\ \/ IsBlockhashValid \/ GetFeeForMessage
     \/ SimulateTransaction \/ SimulateTransactionWithConfig
     \/ SendTransaction \/ SendTransactionWithConfig
     \/ Airdrop
  /\ UNCHANGED <<worldVars, argVars, callVars>>

\* The procedure goes on to its next call.
Continue ==
  /\ last # NoUse /\ last' = NoUse
  /\ UNCHANGED <<worldVars, argVars, callVars, airdrops>>

\* Between two calls, and in the one that waits, the ledger moves.
UseNext ==
  \/ last = NoUse /\ (Cluster \/ Call \/ Client) /\ UNCHANGED useVars
  \/ last = NoUse /\ (GetLatestBlockhash \/ TakeNew)
  \/ Uses
  \/ Continue

UseSpec == UseInit /\ [][UseNext]_<<vars, useVars>> /\ WF_vars(Client)

------------------------------------------------------------------------------
(* Properties.                                                              *)

\* What is newer than, or as new as, a block of the commitment.
NoStrongerThan(commitment) ==
  IF commitment = "finalized" THEN Commitments
  ELSE IF commitment = "confirmed" THEN {"processed", "confirmed"} ELSE {"processed"}

\* A hash that was taken at some commitment, or got by waiting for a new one, is good
\* for a fee, a simulation, a check or a transaction wherever the promised
\* commitment is that one or a weaker one, until Lifetime more blocks have passed it
\* or its block was abandoned. In particular the methods without a config, which
\* all promise the client's own commitment, agree about the hash that
\* get_latest_blockhash and get_new_latest_blockhash returned (client.rs:137-162,
\* 238-270, 1482-1561).
HashStaysUsable ==
  (last.missed /\ last.promised \in NoStrongerThan(takenAt)) =>
    \A height \in HeightsOf(blockhash) : Frontier(last.promised) > height + Lifetime

\* Asking again for an airdrop with the same hash, as a caller must who is told
\* "rate limit" whatever happened, cannot pay twice: the node is made to sign the
\* same transaction (client.rs:1258-1303).
RetriedAirdropIsTheSame ==
  \A a, b \in airdrops : a = b
==============================================================================
