----------------------------- MODULE AccountReads ----------------------------
(****************************************************************************)
(* The methods of RpcClient (src/rpc_client/client.rs) that read the        *)
(* ledger, called one after the other by a procedure while the ledger       *)
(* moves.  Which block a call reads depends on the commitment the method    *)
(* sends, and what the caller learns about an account on the encoding it    *)
(* asks for and on what the method makes of missing, undecodable and failed *)
(* replies.                                                                 *)
(****************************************************************************)
EXTENDS Ledger, RpcCall

CONSTANTS
  Keys,          \* accounts
  Commitment     \* the commitment of the client

ASSUME AccountReadsAssumption == Commitment \in Commitments

VARIABLES
  content,       \* ledger: what each account is at each height of the fork
  last,          \* the call whose result the procedure looks at: its method, commitment and encoding arguments, the
                 \* height it read, its result, and (history) the accounts there
                 \* and those of them whose entry in the reply no client can decode
  seen           \* history: the highest block read by a method in FollowsClient

readVars == <<ledgerVars, content, last, seen>>

\* What an account is: nothing, data no node can parse, or an account the node
\* does parse: a mint, a stake account, a token account (with owner and delegate).
Contents == {"missing", "plain", "mint", "stake", "token"}
Parsed == {"mint", "stake", "token"}

\* Owner and delegate of every token account.
Wallets == {"owner", "delegate"}

------------------------------------------------------------------------------
(* The commitment a method reads at.                                        *)

\* Methods with a _with_commitment variant (get_vote_accounts and get_leader_schedule
\* build a config from it).
SlotReads == {"get_slot", "get_block_height"}
SupplyReads == {"supply", "get_vote_accounts"}
EpochReads == {"get_epoch_info", "get_leader_schedule"}
BalanceReads == {"get_balance", "get_token_account_balance"}
CountReads == {"get_stake_minimum_delegation", "get_transaction_count"}
MintReads == {"get_token_largest_accounts", "get_token_supply"}
HashReads == {"get_latest_blockhash"}

\* Methods that leave the caller no choice: self.commitment().
FixedReads == {"simulate_transaction", "get_inflation_reward", "get_fee_for_message"}

\* No commitment is sent unless one is given.
BlockReads == {"get_block", "get_blocks", "get_blocks_with_limit"}
HistoryReads == {"get_signatures_for_address", "get_transaction"}

\* A config's commitment, or CommitmentConfig::default().
ConfigOrDefault == {"simulate_transaction_with_config", "get_largest_accounts_with_config"}

\* A config is passed on as it is.
ConfigOnly == {"get_vote_accounts_with_config", "get_leader_schedule_with_config",
               "get_block_with_config", "get_transaction_with_config",
               "get_account_with_config"}

OwnCommitment == SlotReads \cup SupplyReads \cup EpochReads \cup BalanceReads
                 \cup CountReads \cup MintReads \cup HashReads \cup FixedReads
OpenCommitment == BlockReads \cup HistoryReads \cup ConfigOrDefault \cup ConfigOnly

Scalar == OwnCommitment \cup (OpenCommitment \ {"get_account_with_config"})

\* No variant of these takes a commitment.
NoOption == FixedReads \cup {"get_block", "get_transaction"}

\* The commitment given to a method, to its _with_commitment variant or in a config;
\* "None" where none is given.
Options == Commitments \cup {"None"}

\* What a node takes for a request without a commitment, and the default of
\* CommitmentConfig.
Default == "finalized"

\* Not the code: get_multiple_accounts_with_config reads at the default commitment.
Asked_MultipleDefault(method, option) ==
  IF option # "None" THEN option
  ELSE IF method \in OpenCommitment \cup {"get_multiple_accounts"} THEN Default
  ELSE Commitment

\* The commitment at which the node answers a method: that of the argument or the
\* config, or else self.commitment(), where the method sends it.
Asked(method, option) ==
  IF option # "None" THEN option
  ELSE IF method \in OpenCommitment THEN Default
  ELSE Commitment

------------------------------------------------------------------------------
(* What the methods make of a reply.                                        *)

Result(kind, value) == [kind |-> kind, value |-> value]
Failed(kind) == Result(kind, <<>>)

\* UiAccount::decode: None when the node sent parsed JSON instead of bytes, or an
\* entry that is not readable: its data is not in the encoding it names, or its owner
\* is no pubkey.
Decoded(account, encoding, readable) ==
  IF account = "missing" \/ ~readable \/ (encoding = "jsonParsed" /\ account \in Parsed)
  THEN "None" ELSE account

\* Not the code: accounts are asked for as parsed JSON.
OwnEncoding_JsonParsed == "jsonParsed"

\* The encoding get_account_with_commitment and get_multiple_accounts_with_commitment
\* ask for (base64 and zstd).
OwnEncoding == "binary"

\* send::<Value> succeeded; what follows decodes the reply.
IsValue(reply) == call_rpc(reply, JsonValue, JsonValue) = "Ok"

\* The ClientErrorKind of send::<Value>.
ValueError(reply) == IF send(reply) = "RpcResponseError" THEN send(reply) ELSE "Custom"

\* Not the code: a failed request reads as no account.
get_account_with_config_NoneOnFailure(reply, key, account, encoding, readable) ==
  IF ~IsValue(reply) THEN {Result("Ok", [k \in {key} |-> "None"])}
  ELSE IF reply.body = "untyped" THEN {Failed("AccountNotFound"), Failed("SerdeJson")}
  ELSE {Result("Ok", [k \in {key} |-> Decoded(account, encoding, readable)])}

\* get_account_with_config: every failed request is "AccountNotFound", and so is
\* a reply that is null; an entry that does not decode is no account.
get_account_with_config(reply, key, account, encoding, readable) ==
  IF ~IsValue(reply) THEN {Failed("AccountNotFound")}
  ELSE IF reply.body = "untyped" THEN {Failed("AccountNotFound"), Failed("SerdeJson")}
  ELSE {Result("Ok", [k \in {key} |-> Decoded(account, encoding, readable)])}

\* get_account: None becomes an error.
get_account(results, key) ==
  {IF r.kind = "Ok" /\ r.value[key] = "None" THEN Failed("AccountNotFound") ELSE r : r \in results}

\* get_multiple_accounts_with_config, for all keys.
get_multiple_accounts(reply, accounts, encoding, undecodable) ==
  IF ~IsValue(reply) THEN {Failed(ValueError(reply))}
  ELSE IF reply.body = "untyped" THEN {Failed("SerdeJson")}
  ELSE {Result("Ok", [k \in Keys |-> Decoded(accounts[k], encoding, k \notin undecodable)])}

\* get_token_account_with_commitment: parsed JSON of a token account, or an error.
get_token_account(reply, key, account) ==
  IF ~IsValue(reply) THEN {Failed("AccountNotFound")}
  ELSE IF reply.body = "untyped" THEN {Failed("AccountNotFound"), Failed("SerdeJson")}
  ELSE IF account = "token" THEN {Result("Ok", [k \in {key} |-> account])}
  ELSE IF account = "stake" THEN {Failed("SerdeJson")}
  ELSE {Failed("NotTokenAccount")}

\* Not the code: accounts that do not decode are left out.
parse_keyed_accounts_Skips(accounts, encoding, undecodable) ==
  LET listed == {k \in Keys : accounts[k] \in Parsed}
      decoded == {k \in listed : Decoded(accounts[k], encoding, k \notin undecodable) # "None"} IN
  Result("Ok", [k \in decoded |-> accounts[k]])

\* parse_keyed_accounts: one account that does not decode fails the whole list.
\* The program owns the accounts that nodes parse.
parse_keyed_accounts(accounts, encoding, undecodable) ==
  LET listed == {k \in Keys : accounts[k] \in Parsed} IN
  IF \E k \in listed : Decoded(accounts[k], encoding, k \notin undecodable) = "None"
  THEN Failed("ParseError")
  ELSE Result("Ok", [k \in listed |-> accounts[k]])

\* get_program_accounts_with_config; a key that is no pubkey fails the list as well.
get_program_accounts(reply, accounts, encoding, undecodable) ==
  IF send(reply) # "Ok" THEN {Failed(send(reply))}
  ELSE {parse_keyed_accounts(accounts, encoding, undecodable), Failed("ParseError")}

\* Which wallet the request compares: both methods send GetTokenAccountsByOwner.
RequestBy(method) == "owner"

\* get_token_accounts_by_owner, get_token_accounts_by_delegate.
get_token_accounts(method, reply, accounts, wallet) ==
  IF send(reply) # "Ok" THEN {Failed(send(reply))}
  ELSE LET listed == {k \in Keys : accounts[k] = "token" /\ wallet = RequestBy(method)} IN
       {Result("Ok", [k \in listed |-> accounts[k]])}

------------------------------------------------------------------------------

\* No result in hand.
NoCall == [method |-> "none", option |-> "None", encoding |-> "binary",
           height |-> 0, result |-> Failed("none"), accounts |-> <<>>, undecodable |-> {}]

Methods == Scalar \cup
  {"get_account", "get_account_with_commitment", "get_account_with_config",
   "get_multiple_accounts", "get_program_accounts", "get_token_account",
   "get_token_accounts_by_owner", "get_token_accounts_by_delegate"}

Kinds == SendError \cup {"Ok", "AccountNotFound", "NotTokenAccount", "ParseError"}

ReadTypeOK ==
  /\ LedgerTypeOK
  /\ content \in [0..tip -> [Keys -> Contents]]
  /\ last = NoCall \/
       /\ last.method \in Methods /\ last.option \in Options
       /\ last.encoding \in {"binary", "jsonParsed"}
       /\ last.height \in 0..MaxHeight
       /\ last.result.kind \in Kinds
       /\ last.accounts \in [Keys -> Contents]
       /\ last.undecodable \subseteq Keys
  /\ seen \in 0..MaxHeight

ReadInit ==
  /\ InitLedger /\ durable = FALSE /\ submitted = FALSE
  /\ content = [height \in 0..0 |-> [k \in Keys |-> "missing"]]
  /\ last = NoCall /\ seen = 0

\* The ledger moves between two calls; each block may change one account.
Cluster ==
  /\ last = NoCall
  /\ LedgerNext
  /\ \/ tip' <= tip /\ content' = [height \in 0..tip' |-> content[height]]
     \/ /\ tip' > tip
        /\ \E k \in Keys, c \in Contents :
             content' = [height \in 0..tip' |->
               IF height <= tip THEN content[height] ELSE [content[tip] EXCEPT ![k] = c]]
  /\ UNCHANGED <<last, seen>>

\* The methods that promise the client's own commitment: those that take none and
\* read the ledger, get_block and its like excepted, and the two methods whose
\* config leaves it open.
FollowsClient(method, option) == option = "None" /\ method \in Methods \ OpenCommitment

\* One call: the node answers from the block it takes for the commitment. Of the
\* entries that the method decodes, any may be undecodable.
Call(method, option, encoding, entries, Outcomes(_, _)) ==
  LET height == Frontier(Asked(method, option)) IN
  /\ last = NoCall
  /\ \E undecodable \in SUBSET {k \in entries : content[height][k] # "missing"} :
       \E result \in Outcomes(content[height], undecodable) :
         last' = [method |-> method, option |-> option, encoding |-> encoding,
                  height |-> height, result |-> result,
                  accounts |-> content[height], undecodable |-> undecodable]
  /\ seen' = IF FollowsClient(method, option) /\ height > seen THEN height ELSE seen
  /\ UNCHANGED <<ledgerVars, content>>

\* Methods whose result is left out.
ReadScalar ==
  \E method \in Scalar, option \in Options :
    /\ method \in NoOption => option = "None"
    /\ Call(method, option, "binary", {}, LAMBDA accounts, undecodable : {Result("Ok", <<>>)})

\* get_account, get_account_with_commitment: bytes at the own or the given commitment.
GetAccount ==
  \E key \in Keys, reply \in HostReply, option \in Options :
    LET read(accounts, undecodable) ==
          get_account_with_config(reply, key, accounts[key], OwnEncoding, key \notin undecodable) IN
    IF option = "None"
    THEN Call("get_account", option, "binary", {key},
              LAMBDA accounts, undecodable : get_account(read(accounts, undecodable), key))
    ELSE Call("get_account_with_commitment", option, "binary", {key}, read)

GetAccountWithConfig ==
  \E key \in Keys, reply \in HostReply, option \in Options, encoding \in {"binary", "jsonParsed"} :
    Call("get_account_with_config", option, encoding, {key}, LAMBDA accounts, undecodable :
         get_account_with_config(reply, key, accounts[key], encoding, key \notin undecodable))

GetMultipleAccounts ==
  \E reply \in HostReply, option \in Options, encoding \in {"binary", "jsonParsed"} :
    Call("get_multiple_accounts", option, encoding, Keys, LAMBDA accounts, undecodable :
         get_multiple_accounts(reply, accounts, encoding, undecodable))

GetProgramAccounts ==
  \E reply \in HostReply, option \in Options, encoding \in {"binary", "jsonParsed"} :
    Call("get_program_accounts", option, encoding, Keys, LAMBDA accounts, undecodable :
         get_program_accounts(reply, accounts, encoding, undecodable))

GetTokenAccount ==
  \E key \in Keys, reply \in HostReply, option \in Options :
    Call("get_token_account", option, "jsonParsed", {}, LAMBDA accounts, undecodable :
         get_token_account(reply, key, accounts[key]))

\* The owner's accounts, or the delegate's.
GetTokenAccounts ==
  \E reply \in HostReply, option \in Options :
    \/ Call("get_token_accounts_by_owner", option, "jsonParsed", {}, LAMBDA accounts, undecodable :
            get_token_accounts("get_token_accounts_by_owner", reply, accounts, "owner"))
    \/ Call("get_token_accounts_by_delegate", option, "jsonParsed", {}, LAMBDA accounts, undecodable :
            get_token_accounts("get_token_accounts_by_delegate", reply, accounts, "delegate"))

\* The procedure goes on to its next call.
Continue ==
  /\ last # NoCall /\ last' = NoCall
  /\ UNCHANGED <<ledgerVars, content, seen>>

Client ==
  \/ ReadScalar \/ GetAccount \/ GetAccountWithConfig \/ GetMultipleAccounts
  \/ GetProgramAccounts \/ GetTokenAccount \/ GetTokenAccounts

ReadNext == Cluster \/ Client \/ Continue

ReadSpec == ReadInit /\ [][ReadNext]_readVars

------------------------------------------------------------------------------
(* Properties.                                                              *)

\* What a procedure reads through methods that follow the client's commitment
\* never goes back in time, whichever of them it calls and however the ledger
\* moves between two calls ("processed" excepted once a fork was abandoned): they
\* all send the same commitment (client.rs:82, 342-449, 782-950).
ReadsNeverGoBack ==
  [][(FollowsClient(last'.method, last'.option)
        /\ ~(Commitment = "processed" /\ reorgs > 0))
     => last'.height >= seen]_<<last>>

\* An account that is reported absent was absent, unless decode() gave it up. In an
\* answer that is Ok each account is that of its key, in the block that was read; an
\* existing one becomes None only where its entry could not be decoded or the caller
\* asked for parsed JSON (client.rs:831, 900), and never because a request failed
\* (client.rs:837-841, 893). A program's list is complete or an
\* error (client.rs:1615-1638). get_account alone leaves the caller in doubt: its
\* "AccountNotFound" stands for an outage and for an undecodable account as well
\* (client.rs:784-789).
AbsentUnlessUndecodable ==
  LET answer == last.result.value IN
  last.result.kind = "Ok" =>
    /\ \A k \in DOMAIN answer :
         \/ answer[k] = last.accounts[k]
         \/ /\ answer[k] = "None"
            /\ \/ last.accounts[k] = "missing" \/ k \in last.undecodable
               \/ last.encoding = "jsonParsed" /\ last.accounts[k] \in Parsed
    /\ last.method = "get_program_accounts" =>
         DOMAIN answer = {k \in Keys : last.accounts[k] \in Parsed}

\* get_token_accounts_by_delegate lists the accounts delegated to its argument: that
\* is its name, and request.rs:121 has the request for it (client.rs:1135-1160).
DelegateListsDelegated ==
  (last.method = "get_token_accounts_by_delegate" /\ last.result.kind = "Ok") =>
    DOMAIN last.result.value = {k \in Keys : last.accounts[k] = "token"}
==============================================================================
