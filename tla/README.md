# zela-std: specifications, model checks and proofs

`zela-std` is the guest-side library of the Zela platform: a Solana RPC
procedure is a wasm component that exports `run`, and everything it does to the
outside goes through four imports of the host (`src/src/zela.wit`): `log`,
`call-rpc`, and `subscribe`/`recv` of a `rpc-subscription`.  The library wraps
the export (`src/src/lib.rs`) and puts an almost complete copy of the Solana
`RpcClient` and `PubsubClient` on top of the imports (`src/src/rpc_client/`).

This directory holds TLA+ modules of that library, TLC configurations, and
TLAPS proofs.  `PROJECT.json` maps every definition to the lines it models.

## Inventory

| Component | State | Operations | Interacts with |
|---|---|---|---|
| Procedure runtime (`lib.rs` 16-151) | `INIT_CALLED`, the global logger and `log::max_level` of the instance; the future being polled | `Guest::run`: initialise once, decode params, `poll_await`, encode | entered by the host once per request; runs user code; user code calls everything below |
| Host call boundary (`lib.rs` 153-183, `client.rs` 1563-1594) | none | `call_rpc`, `RpcClient::send` | the host's `call-rpc`; every client method |
| Subscriptions (`lib.rs` 185-221, `pubsub.rs`) | the host's resource handle | `Subscription::new`, `recv`, `PubsubClient::subscribe`, `poll_next`, drop | the host's queue of notifications |
| Confirmation (`client.rs` 85-212) | the call's own: signature, blockhash | `send_and_confirm_transaction` | three methods of the client, the cluster |
| Signature polling (`client.rs` 1373-1480) | a clock, `confirmed_blocks` | `poll_for_signature*`, `poll_for_signature_confirmation` | the cluster, time |
| Balance, blockhash and stake waits (`client.rs` 451-517, 1305-1371, 1539-1561) | a clock, a counter | `poll_balance_*`, `wait_for_balance_*`, `get_new_latest_blockhash`, `wait_for_max_stake*` | the cluster, time |
| Query methods (`client.rs` 238-449, 519-1303, 1482-1537) | none | about 80 requests and the decoding of their replies | `send` |
| Account filters (`filter.rs`) | the bytes of a `Memcmp` and their encoding | `verify`, `allows`, `convert_to_raw_bytes`, `bytes_match`, serde | used by `get_program_accounts*` |
| Errors (`error.rs`, `request.rs` 140-195) | none | conversions between `ClientError`, `TransportError`, `RpcError` | every caller |
| Request names, configs, responses (`request.rs`, `config.rs`, `response.rs`) | none | serde derive, `Display` | the wire format |
| Bindings (`sys.rs`) | none | generated by wit-bindgen | the host |

What is hard here:

* **The world moves between two requests.**  A guest is single-threaded and every
  call blocks, but the cluster produces, confirms, finalizes and abandons blocks
  between any two calls, so each loop of the client works with answers that are
  old when it uses them.
* **Every call can fail in several ways**, and the methods differ in what a failure
  means: abort (`?`), "not yet" (the polling loops), "not found" (accounts).
* **Time**: clocks that restart, limits in whole seconds, sleeps that block.
* **Reuse of instances**: the memory of one request is there for the next.
* **Blocking in async**: `poll_await` has no waker, and `poll_next` blocks the
  guest, so one stream can hold up another.

## Modules

| Module | Models | Role |
|---|---|---|
| `RpcCall` | what becomes of one reply of the host | operators, used by all |
| `Ledger` | the cluster (external): heights, one transaction, forks | extended by `SendAndConfirm`, `SignaturePoll`, `SignatureStatus`, `BlockhashWait`, `AccountReads` |
| `SendAndConfirm` | `send_and_confirm_transaction` | state machine |
| `ErrorConversions` | where errors come from and the conversions of `error.rs` | operators and actions, composed below |
| `ConfirmErrors` | what becomes of the error of `send_and_confirm_transaction` | `SendAndConfirm` with `ErrorConversions` |
| `SendAndConfirmProofs` | both of the above | invariants and eight theorems |
| `SignaturePoll` | `poll_for_signature*`, `poll_for_signature_confirmation` | state machine |
| `SignaturePollProofs` | | invariant and five theorems |
| `SignatureStatus` | `confirm_transaction*`, `get_signature_status*`, `get_signature_statuses*`, `signature_subscribe` | state machine |
| `SignatureStatusProofs` | | invariant and three theorems |
| `ProcedureService` | what a deployed procedure promises | abstract specification |
| `ProcedureRun` | `Guest::run` on instances of a host | state machine, implements `ProcedureService` |
| `ProcedureRunProofs` | | invariant, three theorems, the refinement |
| `JoinedCalls` | `poll_await` and `sleep` under futures that are joined or selected | state machine |
| `NotificationStream` | what a subscription promises | abstract specification |
| `SubscriptionStream` | `Subscription`, `PubsubClientStream` | state machine, implements `NotificationStream` |
| `PolledFutureProofs` | `JoinedCalls` and `SubscriptionStream`: what is polled | two invariants, five theorems, the refinement |
| `BalanceWait` | `poll_get_balance_*`, `wait_for_balance_*` | state machine |
| `StakeWait` | `wait_for_max_stake*` | state machine |
| `MCWaits` | either of the two waits above, for TLC | instance |
| `WaitsProofs` | the two waits, and the choice between them | two invariants, six theorems |
| `BlockhashWait` | `get_new_latest_blockhash` | state machine |
| `BlockhashUse` | the methods that take a blockhash or give it back, around `BlockhashWait` | state machine |
| `BlockhashUseProofs` | | invariant and four theorems |
| `MemcmpFilter`, `MCMemcmpFilter` | `Memcmp`, `RpcFilterType::verify`, serde of both | algorithms and a small state machine; byte sequences for TLC |
| `AccountReads` | the methods that read the ledger | state machine |
| `AccountProofs` | `MemcmpFilter` and `AccountReads` | two invariants, eight theorems |

Operators whose name has a suffix (`send_transaction_Unchecked`, `Restart_Never`)
are not the code.  Each is a plausible mistake in the definition that follows it;
replacing that definition by it must make TLC find the property violated that
`PROJECT.json` names under `mutants`.

The type invariant of every state machine is proved, those of the modules it is made
of (`LedgerTypeOK`, `ErrorTypeOK`) with it.  Runs check three of them (`UseTypeOK`,
`StakeTypeOK`, `ReadTypeOK`), because these say which errors a failed call may end with
and how far a clock may go.

How the modules fit together.  A procedure (`ProcedureRun`) is one thread; all it
does outside goes through `RpcCall`, whose operators every other module uses for
every request.  The methods of the client share nothing but the cluster, so each
is a module over `Ledger` of its own, in which the cluster moves between any two
requests.  That a method may be modelled alone, although a procedure can put
several into a join or a select, is what `JoinedCalls` shows: calls never overlap.
Where the result of one method is the input of another they are composed:
`BlockhashUse` gives the hash that `BlockhashWait` and `get_latest_blockhash*` returned
to six other methods, `ConfirmErrors` sends the error of `SendAndConfirm` through
the conversions, and `SignatureStatus` sets the answers of all queries about a
signature against each other.

### RpcCall

A reply of the host is a result, a JSON-RPC error with or without data, or an
errno; its bytes are JSON of the type asked for, other JSON, or no JSON.
`call_rpc` and `send` classify it as the code does.  Two consequences are worth
knowing: undecodable error data hides the code of the error (`InvalidInput`), and
`send` never builds `RpcResponseErrorData` other than `Empty`, so the arms of
`send_transaction_with_config` (client.rs:182) and of `get_transaction_error`
(error.rs:26) that look for a preflight failure cannot be taken.

### Ledger (external)

Three heights `root <= conf <= tip`, the block that holds the transaction
(`landed`), and the validity of a blockhash: it is valid up to a height, and one
from an abandoned fork may be unknown.  `Reorg` abandons unconfirmed blocks, with
the transaction if it was in them.  One node answers; nodes that lag behind each
other are not modelled.  The status cache of the node lasts as long as a call of
one method; between calls it may forget, which `SignatureStatus` models.

### SendAndConfirm

`pc` is the request made next: send, (for a durable nonce) hash, then status,
validity, sleep in turn.  `SEND_RETRIES` is 1 and `GET_STATUS_RETRIES` is
`usize::MAX`, so the loops need no counter: the outer body runs once, the inner
one ends through its exits only.  Each action is one request with every reply it
can get, and the early return of every `?`.  `polled` and `sentAt` are history
variables.

| Property | Says | Mutant that breaks it |
|---|---|---|
| `VerdictSound` | `Ok` and a transaction error are true at the client's commitment and stay so | the commitment filter dropped |
| `PollsOnlyAccepted` | only a transaction acknowledged by its own signature is polled for | the comparison of signatures dropped |
| `MissedOnlyInWindow` | "unable to confirm" misses only a block that satisfied the commitment after the last poll | a transaction error read as "no status" |
| `UnableSettles` | on one fork it is final for an ordinary transaction: resending is safe | a failed `isBlockhashValid` read as "invalid" |
| `DurableWaitsFullLifetime` | a durable transaction is watched for a full blockhash lifetime | its own blockhash watched instead |
| `Termination` | the call returns | the blockhash check ignored |
| `ErrorTellsTheTruth` | (`ConfirmErrors`) see below | transaction errors become text on the way |

`MissedOnlyInWindow` is as strong as the code allows.  At the default commitment
(finalized) a transaction that lands late in the lifetime of its blockhash *is*
reported as unconfirmed, since the blockhash is checked at processed: TLC reaches
such states, and the property says how far that can go.

Run `send_and_confirm` (`ConfirmErrors`, finalized; chain of 5 blocks, lifetime 2,
one fork; both kinds of transaction).  The bounds are enough for every interesting
order: send, landing, expiry, confirmation and a fork before or after each other.
`MaxHeight > MaxEarly + Lifetime` lets every blockhash expire, otherwise the loop
would go on only because the model ran out of blocks.  The other commitments, and
any number of forks, are covered by the theorems.

Fairness: weak fairness of the client (the host answers, sleeps end, `poll_await`
polls on) and of `NewBlock` (the chain grows).  Nothing makes blocks confirmed.
Deadlock is not checked: the call returns and the chain is bounded.

### ErrorConversions and ConfirmErrors

A failed method returns an `Error` that names a request or none; `From`
implementations turn it into an `ErrorKind`, a `TransportError` and back, and at last
into the error of the procedure.  `TransportError` has three variants: an I/O error
and a transaction error survive, the rest becomes text.  `Arises` has every place
where the client makes an error, `Convert` every conversion, applied in any order.

In `ConfirmErrors` the error is that of a confirmation.  `ErrorTellsTheTruth`:
`get_transaction_error` is `Some` exactly for a transaction that was executed and
failed, which is then in a block of the client's commitment, whatever conversions
lie between (a caller decides by it whether to sign and send again), and `request()`
names the request that failed or none.

### SignaturePoll

Time is counted in sleeps of 250 ms; a request takes `0..MaxCall` of them.
`elapsed` is the code's clock, restarted as in the code; `quiet` is a history
variable, the true time since the last change, capped at `Stall`.

| Property | Says | Mutant |
|---|---|---|
| `FoundMeansLanded` | success means the transaction is in a block of the commitment | filter dropped |
| `CountNotOverstated` | on one fork the count returned is not above the depth | a missing status counted as rooted |
| `ShortOnlyAfterStall` | fewer blocks than asked for only after a stall longer than the limit | clock not restarted |
| `Termination` | both loops end | clock restarted by every reply |

`GivesUpInTime`, that the clock never exceeds limit + sleep + request, is proved and
not in a run.

Run `signature_poll`: limits of 1 second, 2 ticks per second (in the code 15 and 20
seconds, 4 ticks), requests of up to 2 ticks, 4 blocks, one fork.  The numbers in
the code differ only in size; the theorems hold for all of them.  No fairness of the
cluster is assumed; the second loop ends because a count changes finitely often
before the block is rooted (here: because the chain is bounded).

Run `signature_poll_not_found` shows a divergence: the error "signature not found
after {} seconds" (client.rs:1447) is returned for a signature that the replies
listed, with 0 confirmations.

### SignatureStatus

All that can be asked about a signature without waiting for it, in any order, by one
procedure: the boolean of `confirm_transaction*`, the filtered status of
`get_signature_status*` with and without a search of the history, the unfiltered list
of `get_signature_statuses*`, and the notifications of `signature_subscribe`.  The node
keeps recent statuses in a cache (`remembered`) and forgets finalized ones; it
notifies at most once that it has received the transaction and once that it was
processed.  `told` is a history variable: every verdict given so far, with the
commitment it was given for.

| Property | Says | Mutants |
|---|---|---|
| `ToldStands` | every verdict holds, and goes on to hold, at its commitment, so no two methods contradict each other | the commitment filter dropped; a "received" notification decoded as "processed" |
| `HistoryRemembers` | a query that searches the history never says `None` after a verdict | the option not sent |

The second is not true of the queries without a search: a status is `None` again
once the cache forgot it.  At `processed` both hold as long as no fork happened.
Run `signature_status`: three blocks, one fork, one subscription at a time.
No fairness, nothing has to happen.  A panic on an empty list ends the instance and
its subscription.

### ProcedureService and ProcedureRun

The service promises: a request is rejected before the procedure did anything, or
run once and answered once; a failure after the start is possible.
`ProcedureRun` has several instances, each with its memory (`initCalled`, `logger`,
`level`) and at most one request.  The host (external) enters idle instances in
any order, replaces trapped ones and may recycle idle ones.  User code is any
sequence of log records, client calls whose error is handled or returned with `?`,
Pendings, then a result or a panic; `MaxSteps` bounds it.

`ImplementsService` is the refinement: `statusOf` and `replyOf` compute the
abstract state, `effects` is shared.  In it a trap is a failure of a *started*
request, so a panic of `init` would violate it.  `NoRecordLost` and
`FaithfulReply` are invariants, `EveryRequestAnswered` needs weak fairness of
every entered instance (blocking calls return), of the replacement of trapped
instances and of the host's choice of an instance for every request.

Run `procedure_run`: two requests on two instances, two steps of user code: an
instance is reused with its memory, recycled, and replaced after a trap while
the other one works.

### JoinedCalls

A procedure's futures may call the client in a `join` or a `select`.  `poll_await` polls
the whole in a loop; a future may yield between its calls, but a method never does:
requests block in the host, and `sleep` (client.rs:35) blocks the thread.  `elapsed`
is the clock of a call's loop, which runs while other futures sleep, too; `slept` is a
history variable, the call's own sleeps.

`CallsDoNotOverlap`: at most one call is under way, and its clock counts its own
sleeps only, so the time limits of the waits are those of the code however calls are
combined.  A `sleep` that returned `Pending`, as an async one would, breaks it.
`NothingCancelledHalfway`: a select drops futures only between two calls, so it never
abandons a method between sending a transaction and its verdict; what the procedure
makes of the verdict is its own affair.  A request that returned `Pending` breaks it.
Run `joined_calls`: three futures, two calls each, one sleep a call, one yield.

### NotificationStream and SubscriptionStream

The abstract stream promises: until it has answered `None`, its items are the messages
sent, in order and without a gap; polled again after `None` it may go on with gaps, never
backwards and never twice; and the host keeps a resource for it exactly while the
procedure owns it.

In `SubscriptionStream` the host queues messages per stream; `blocked` is the stream
whose `recv` the guest is in, and while it is there nothing else of the guest moves.
A message that does not decode is a `None`.  Creation fails in every way a reply can.

`ImplementsStreams` is the refinement (`phaseOf` is the only state it computes);
mutants that break it: the resource kept after a drop, an undecodable message passed over.
`HoldsUpOnlyWhileQuiet`: a poll ends with the first message of any kind, or with the
connection; the mutant waits on after a message that does not decode.  It is all the code
gives: a stream that stays quiet and open blocks the guest, every other stream and the
request for ever.  Fairness is that of `recv` alone, which returns when there is a message
or the connection is gone.  Nothing is assumed of the rest: connections need not end,
messages need not come, the procedure need not poll or drop anything.  An errno may come
at any time, also on an open stream with messages waiting.  Run `subscription_stream`:
two streams, two messages each, in three kinds of bodies.

### BalanceWait

`poll_balance_with_timeout_and_commitment` inside `wait_for_balance_with_commitment`.
The balance changes and the node fails and recovers at any time.  `elapsed` is the
clock of the poll, `run` the counter of the outer loop; `unanswered` (ticks since
the last answer) and `reached` (the balances there were) are history variables.

| Property | Says | Mutants |
|---|---|---|
| `AnswerIsHonest` | an error is returned only after an outage longer than the timeout, a success only if the account had the balance waited for | no retry after a failure; the last poll returned whatever it says |
| `EndsOrRunsPastLast` | the call ends, or goes on past its last run for ever | `run` not counted |
| `ArrivalEndsWait` | a balance that arrives for good ends it, also past the last run | the balance looked at in the first runs only |

`EndsOrRunsPastLast` is what the code gives: `run == LAST` is an equality that is
looked at only if that very poll failed, so a wait whose 31st poll is answered
with another balance never ends by itself.  `run` saturates at `Last + 1` (the
`usize` wraps after 2^32 polls).

### StakeWait

Stake moves between validators and validators become delinquent while the call
polls.  `VerdictFitsLastReply`: `Ok` is about all validators of the last reply,
delinquent ones too, and a timeout is returned only when one was given, after it, and
never in place of a reply that met the threshold (mutants: only voting accounts
looked at; the clock looked at first).  `Termination`: with a timeout the call ends;
without one it ends if the stake spreads for good (without any stake the share is
NaN and it does not).  Shares are compared as fractions; rounding of `f32` and the
overflow of a `u64` sum are left out.

Run `waits` (`MCWaits`) has both waits; a procedure calls one of them, and what it
does not call stays put.  `LAST` is 2 instead of 30, the timeout of the balance 2 ticks
instead of 10, requests take up to 2 ticks: long enough to exceed the timeout in one
request, in two, and in the last run or after it.  Two validators with up to two units
of stake, a threshold of 60 %, so that exactly one half is below it and everything else
above, and a timeout of one tick.  Fairness: the client goes on (requests are
answered or fail, sleeps end).

### BlockhashWait and BlockhashUse

A blockhash is the block it names; blocks are numbered as they are produced, so
"newer" can be said although the code compares for equality only.  In `BlockhashUse` a
procedure takes a hash at any commitment, replaces it with
`get_new_latest_blockhash` (`BlockhashWait`), and gives it back, at any later time, to
the methods that use one: a fee, a simulation, a check, a transaction with its preflight
and an airdrop.  Each looks for the hash at a commitment of its own: the client's, a
config's, or the default.

| Property | Says | Mutants |
|---|---|---|
| `AnswerMeansProgressOrStall` | waiting for a new hash ends with a newer one, or after the full limit in which every reply named the old one | the hash of the default commitment; a failed request ends the wait |
| `HashStaysUsable` | a use at the hash's commitment or a weaker one misses it only when it is too old or its block is gone | the preflight check at the default commitment |
| `RetriedAirdropIsTheSame` | an airdrop asked for again with the same hash is the same transaction | the hash left out of the request |
| `Termination` | the wait ends | a new clock after each sleep |

`RetriedAirdropIsTheSame` covers `request_airdrop_with_blockhash` and a config that names a
hash.  `request_airdrop` names none: the node signs with a hash of its own, and asking
again after "rate limit" may pay twice.

`AnswerMeansProgressOrStall` has a premise for "newer": the hash was taken at the
client's own commitment (and there was no fork, at processed).  Without it TLC returns
an older hash.  The premise of `HashStaysUsable` is the mirror image: a use at a
stronger commitment than the hash was taken at does miss it, until that commitment has
caught up.

Run `blockhash_use`: two ticks a second (5 in the code), a limit of one second (5),
requests of up to one tick, four blocks, one fork, a lifetime of two blocks, commitment
confirmed.  Fairness: the client goes on.  Two abstractions: a procedure that uses a hash
is not also in `get_new_latest_blockhash` (see `JoinedCalls`), and the ledger does not
move between an answer and the look at it.

### MemcmpFilter

A text is the bytes it stands for and the alphabet it was written in, so decoding
in the wrong encoding fails and decoding in the right one gives the bytes back.
The length of a text is computed from the bytes: exact for base64, and for base58
the length of the worst case after the leading zeros, which are one digit each.
`Convert` and `Transmit` are `convert_to_raw_bytes` and a round trip through JSON;
`origin` remembers the filter as it was.

| Property | Says | Mutant |
|---|---|---|
| `VerifyMeasuresBytes` | `verify` accepts exactly what decodes to at most 128 bytes | decoded bytes not measured again |
| `VerdictStands` | neither conversion nor transmission changes the verdict | the label left out of the JSON |
| `SelectsSameAccounts` | nor which accounts are selected | the offset lost in a conversion |

Initially a filter is one that a constructor makes or that is read from any document, also
a mislabelled one: a string labelled `bytes`, or not at all, is taken for base58, an array
is raw bytes whatever its label.  What the sender of such a document meant is not known,
so the properties compare a filter with what was read, not with that.

Run `memcmp_filter`: contents of up to two bytes for what matches, and contents of
126 to 176 bytes, all zero or all 255, for the limits: 128 bytes of 255 are the 175
digits of `MAX_DATA_BASE58_SIZE`, and 129 zeros are a text of 129 digits that passes
the first check and not the second.

### AccountReads

A procedure calls the methods one after the other while blocks are produced,
confirmed, finalized and abandoned, each block changing one account.  `Asked` is the
commitment at which the node answers: most methods send
`self.commitment()`, some send none unless it is given, two fill in
`CommitmentConfig::default()`, and `get_account_with_config` passes on what it gets
while `get_multiple_accounts_with_config` fills in the client's.  The other half of
the module is what the account methods make of a reply.

| Property | Says | Mutant |
|---|---|---|
| `ReadsNeverGoBack` | what follows the client's commitment never reads an older block than before | `get_multiple_accounts` at the default commitment |
| `AbsentUnlessUndecodable` | an answer gives every account as it was in the block read; `None` stands for one that was not there, whose entry did not decode, or that was asked for as parsed JSON; a list of a program's accounts is complete or an error | a failed request read as no account; accounts asked for as parsed JSON; undecodable accounts skipped |

`undecodable` is the node's part in it: in any reply the entries of any accounts may be
such that `UiAccount::decode` gives up (data that is not in the encoding it names, an
owner that is no pubkey).  `get_account_with_config` and `get_multiple_accounts*` then say
`Ok(None)` of an account that exists, which a caller cannot tell from one that does not;
`get_program_accounts*` fail.  The property says that nothing else makes an account
disappear, a failed request least of all.

Run `account_reads`: two accounts, three heights, one fork.  Run
`account_reads_delegate` shows a bug: `get_token_accounts_by_delegate_with_commitment`
(client.rs:1156) sends the request for the accounts *owned* by the delegate.

## What is proved

Every safety property that a passing run checks is also a theorem, for every value of
the constants.  Each proof follows the same line: an inductive invariant, made of the
type invariant, properties and the parts named below; the initial states have it; every
action keeps it; the properties follow.  TLC checked each invariant on the bounds of its
run before it was proved.  Where a property needs more than itself to be inductive, the
part that was missing is named.

* `SendAndConfirmProofs`, for every chain length, lifetime, number of forks and
  commitment (`LedgerAssumption`, `SendAndConfirmAssumption`): `TypeOK`,
  `VerdictSound`, `PollsOnlyAccepted`, `MissedOnlyInWindow`,
  `DurableWaitsFullLifetime`, and the action property `UnableSettles`.  The
  strengthening says that the last poll covers no more than the ledger does now
  (`PolledInv`), that on one fork giving up means that the watched hash expired
  (`ExpiredInv`), which hash that is (`HashInv`), and how long it lasts
  (`DurableInv`).  `ErrorsAreObservers`: every behaviour of `ConfirmSpec` is one of
  `Spec`, since what becomes of an error never changes the call, so these theorems
  hold of the specification that the run checks.  `ErrorTellsTheTruth` needs `ErrorInv`:
  in every form but the text of a procedure's error, the kind is "transaction error"
  exactly when that was the result, and there is no error before the call ended.
* `SignaturePollProofs`, for every limit, tick, request duration, commitment and
  chain (`RootedCount > MaxHeight`, as 32 is above the 31 confirmations a block
  that is not rooted can have): all of its safety properties.  The strengthening
  bounds the clock at each point of the loop (`ClockInv`), identifies the clock
  with the history variable (`QuietInv`), and keeps counts reached (`DepthInv`).
  The lemma `ExpiredFrom` does the arithmetic of `as_secs() > limit`.
* `ProcedureRunProofs`, for any sets of requests and instances: `NoRecordLost`,
  `FaithfulReply`, and the refinement `Spec => ImplementsService`.  The
  strengthening ties the Once, the logger and the level together (`MemoryInv`)
  and gives each running instance a request of its own (`ServingInv`).
* `SignatureStatusProofs`, for every chain, lifetime and number of forks: `TypeOK`,
  `ToldStands` and `HistoryRemembers`.  The strengthening says that what the cache forgot
  is finalized (`CacheInv`), that a notification under way is true at the
  subscription's commitment (`NoticesInv`), and that there is none without a subscription
  (`WatchInv`).  The lemma `LedgerKeeps` is the heart: no step of the ledger takes a
  verdict back, except a fork at `processed`.
* `PolledFutureProofs`.  For any number of futures, calls, sleeps and yields: `JoinTypeOK`
  and both properties of `JoinedCalls`.  The strengthening (`CallInv`) says that only the
  future being polled is inside a call and that its clock equals its sleeps.  For any
  set of streams and any number of messages: `TypeOK`,
  `NoOrphan` and the refinement `Spec => ImplementsStreams`.  The strengthening says what
  is queued (`QueueInv`: consecutive, up to the last one published) and received
  (`GotInv`: increasing, before the queue), that before a `None` the two join
  without a gap (`NothingMissing`), and what a handle implies (`LifeInv`).
* `WaitsProofs`.  For any balances, timeout, number of runs and length of a
  request: `TypeOK`, `AnswerIsHonest`, and `PollBounded`: a poll
  outlives its timeout by at most a request and a sleep.  The strengthening places
  the clock (`ClockInv`) and says that until a poll is answered the outage lasts at
  least as long as its clock reads (`OutageInv`).  For any finite set of validators and
  any stakes, threshold and timeout: `StakeTypeOK` and `VerdictFitsLastReply`.  The code
  looks at the largest share, the property at every share; `BelowMeansEveryone` joins
  them from two facts: the largest is that of a validator or 0 (`MaxActiveStakeIs`), and
  the sum of any finite set is a number, 0 when every stake is (`SumOfSet`).  These,
  and `AnswerIsHonest` once more, are theorems about `MCSpec`, which the run checks.
* `BlockhashUseProofs`, for every chain, lifetime, number of forks, commitment, clock
  resolution, limit and length of a request: `UseTypeOK`, `AnswerMeansProgressOrStall`,
  `HashStaysUsable` and `RetriedAirdropIsTheSame`.  The strengthening says that blocks
  higher up were produced later (`ChainInv`), so that no block is on a fork twice and
  height and age agree; that a hash, if its block is still there, satisfies the commitment
  it was taken at (`TakenInv`) and, at the client's commitment, is no newer than the newest
  block of it (`NewestInv`); that every reply of a wait that goes on named the hash it was
  given (`SameInv`); where the clock is (`ClockInv`); and that airdrops were signed for
  the hash in hand only (`AirdropInv`).
* `AccountProofs`.  For any sets of byte sequences and offsets: all properties
  of the run `memcmp_filter`, and `MatchIsOccurrence`: `bytes_match` is occurrence at the
  offset and never looks outside of the data.
  The strengthening is `SameContent`, that the filter decodes to the bytes of
  `origin` or, like it, to nothing.  Lemmas bound the lengths of base58
  and base64 text, which is what makes the limits 175 and 172 the right ones, and
  say what a slice holds.  For any set of accounts, chain, number of forks and
  commitment: `ReadTypeOK`, `AbsentUnlessUndecodable` and the action property `ReadsNeverGoBack`.
  The strengthening is `SeenInv`: without a fork at processed, nothing was read above the
  frontier of the client's commitment, which only a fork moves back.

A constant is assumed to be what it stands for: a number, a commitment, a finite set of
validators (`WaitsAssumption`), byte sequences, and limits in the order the code has them.
TLC evaluates each assumption in the runs.

Induction over data is out of reach where the library states it with an operator as a
parameter.  The sum of the stakes is a fold, so its value cannot be computed for every
set that way; `SumExists` and `SumValue` get it from the fold's defining equation and
from well-foundedness of the numbers instead, by a least counterexample (a set of least
cardinality), which is first-order.

Only model-checked: liveness (`Termination`, `EveryRequestAnswered`,
`HoldsUpOnlyWhileQuiet`, `BalanceWaitEnds`, `ArrivalEnds`, `StakeWaitEnds`), which is out
of the prover's reach.  The two runs that expect a violation have no theorem.

## Not modelled

* Requests without ledger context (`get_version`, `get_health`, `get_cluster_nodes`,
  `get_block_time`, `get_epoch_schedule`, rent and the like): one request and the decoding
  of one reply each.  They keep no state, and `RpcCall` has what can become of the reply.
* The `*_subscribe` wrappers but `signature_subscribe`: a name and parameters; their
  streams are those of `SubscriptionStream`.
* `request.rs`, `config.rs`, most of `response.rs`: names, parameters and types, which
  no property tells apart.  Whether they decode is a choice of `RpcCall`.
* The branches for a failed preflight (client.rs:182, error.rs:26): `send` never builds
  the data they look for, so they cannot be reached.
* Wording: logs, messages, `Display`.
* Several nodes behind the proxy that lag behind each other, and a host that loses or
  repeats a notification: the library does nothing about either.
* One hazard no property covers: error data that does not decode hides the code of an
  RPC error (lib.rs:177).  `RpcCall` states it; nothing the library promises forbids it.

## Plan

Written in this order: `RpcCall` and `Ledger`, which the others extend; the
confirmation of transactions, where a wrong answer costs most; signature polling; the
runtime with its abstract service; the three other waits; filters; reads;
subscriptions as a refinement; the queries about a signature; the life of a blockhash;
futures that are combined; the life of an error.  What would add most from here:

1. An abstract specification of "confirm a signature" that `SendAndConfirm`,
   `SignaturePoll` and `SignatureStatus` implement.
2. The whole guest: `ProcedureRun` whose user code is one of the client's loops, to
   show that a trap in a loop (an empty list of statuses) fails that request only.
