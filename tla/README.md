# TLA+ models of the blackhole blockchain

This directory holds TLA+ specifications of the relay-chain node, of the token services that run in
it, of the bridge SDK and of the wallet service, the TLC configurations that check them on small
instances, and theorems about them that TLAPS checks for every value of their constants. Paths are relative to `src/`; `chain/…`,
`escrow/…` and so on stand for `core/relay-chain/chain/…`, `core/relay-chain/escrow/…`.

Run a configuration with `tlc -workers 2 -config <run>.cfg MC<Module>.tla`, and a proof with
`tlapm <Module>Proofs.tla`. `PROJECT.json` maps every definition to the lines it stands for.

## 1. The system

A **relay-chain node** (`cmd/relay/main.go`) is one process:

| part | state | operations | meets |
|---|---|---|---|
| Chain (`chain/blockchain.go`, `chain/block.go`) | `Blocks`, `PendingTxs`, `pendingBlocks`, under `bc.mu` | `ProcessTransaction`, `MineBlock`, `AddBlock` with fork choice (`handleFork`, `reorganizeToFork`) and the queue of future blocks, `GetBlock…` | consensus, P2P, ledger, slashing |
| P2P (`chain/p2p.go`) | the peers it has dialled, counts of bad blocks | `Broadcast`, `handleStream` (tx, block, sync request, sync response), `SyncChain` every 5 s | the chain of the other nodes |
| Mining loop (`cmd/relay/main.go`) | one goroutine | select validator, `MineBlock`, `ValidateBlock`, broadcast, wait 0.5 s, `AddBlock`, mint the reward, add it to the stake | chain, token, stakes |
| Accounts (`chain/blockchain.go`) | `GlobalState` (copied to LevelDB), BHX in memory | `applyRegularTransfer`, `applyTokenTransfer`, `applyStakeDeposit`, `applyStakeWithdraw`, `AddTokenBalance`, `loadGlobalState` | token, stakes, LevelDB |
| Stake ledger (`chain/stakeledger.go`) | stake per address | `AddStake`, `SetStake`, `GetStake` | accounts, mining loop, slashing |
| Slashing manager (`chain/slashing_manager.go`) | events, strikes, jailed validators | `ReportViolation`, `ExecuteSlashing`, `AutoSlash` | stakes, API, `AddBlock`, monitor |
| Token (`token/*.go`) | balances, allowances, supply | `Mint`, `Burn`, `Transfer`, `Approve`, `TransferFrom` | everything that moves BHX |
| Escrow (`escrow/escrow.go`) | contracts | create, confirm, release, cancel, dispute, process expired | token, API |
| OTC desk (`otc/otc.go`) | orders and their trades | create, match, sign, cancel, clean up | token |
| Multi-signature wallets (`multisig/multisig.go`) | wallets, pending transactions | create, propose, sign, execute, clean up | token |
| Bridge (`bridge/bridge.go`) | transfers | initiate; two goroutines confirm and complete | token, relay of the SDK |
| Governance (`governance/governance_simulator.go`) | proposals, votes, validators with their power | submit, vote, tally, execute; a ticker, simulated voters, the operator's command line | – |
| DEX (`dex/`) | pools, cross-chain swaps | see section 6 | bridge |
| Consensus (`consensus/*.go`) | – | stake-weighted random selection, reward strategies | stakes |
| API (`api/server.go`) | the OTC orders it simulates | HTTP handlers | all of the above |

The **bridge SDK** (`bridge-sdk/`, `bridge/core/`) is a second process:

| part | state | operations | meets |
|---|---|---|---|
| Listeners (`listeners.go`) | a channel and two goroutines per chain | `Start`, `Stop`, detect, `handleEvent` | replay protection, recovery, relay |
| Replay protection (`replay_protection.go`) | BoltDB, a cache with a limit | `IsEventProcessed`, `RecordEvent`, eviction, reload, clean-up | listeners |
| Event recovery (`event_recovery.go`) | failed events, a queue | add, worker, sweep | listeners, relay |
| Relay (`relay.go`, `sdk.go`) | relay transactions | `CreateTransaction`, `RelayTransaction`, `RelayToChain` | breaker, bridge |
| Error handler (`error_handler.go`) | circuit breakers, retry and dead-letter queue, health | `WithRetry`, `WithCircuitBreaker`, `AddToRetryQueue`, workers, `GracefulShutdown` | all of the SDK |
| The SDK itself (`sdk.go`) | flags, its parts, channels that end goroutines | `Initialize`, `Start…Listener`, `RelayToChain`, `Shutdown` | all of the above |
| Transfer manager (`bridge/core/transfer.go`) | transfers, responses, a monitor | `InitiateTransfer`, `executeTransfer`, `checkPendingTransfers`, `Start`, `Stop` | handlers, validators |
| Logger and log streamer (`logger.go`, `log_streamer.go`) | a buffer, subscriptions, web clients | log, subscribe, distribute, recent logs, filters, clean-up | everything that logs |

The **wallet service** (`services/wallet/`) is a third: users, wallets and a history in MongoDB, a cache of keys
and a map of sessions in memory, a command line and a web server whose handlers open a wallet and then
transfer, stake, trade with the node's over-the-counter handlers or call its escrow API. Monitoring,
validators of end-to-end behaviour and load testers simulate or observe.

What is hard in this code, and what makes each part correct:

- *Chain.* Every node mines, receives and syncs concurrently; the mining loop gives up the lock
  between every two of its steps and broadcasts a block before it adds it; streams are
  independent, so blocks overtake their parents; sends fail silently; a restart keeps the accounts
  and forgets the blocks. It is right when blocks stay linked, the tip only improves, a block is
  executed once and in order, a dialled node gives up the worse of two sibling tips (who dialled it need not, nor need three
  nodes, section 5), and a follower catches up over its own connection.
- *Accounts and stakes.* A withdrawal is three critical sections, a native transfer two writes to
  LevelDB, a reward two steps outside the chain's lock. They are right when nothing underflows, no
  money comes from anywhere but the genesis state, rewards, admins and `"system"`, and stake is backed by something.
- *Locks.* Six `sync.RWMutex`es nest in calls of four kinds of goroutines. They are right when no
  circle of goroutines waits for one another.
- *Token.* Unsigned words of 64 bits: right when the reported supply is the sum of the balances.
- *Escrow.* Parties, arbitrator and clock race; errors of refunds are ignored; a settled escrow can
  be disputed. Right when an amount is paid out once, in full, to one of the two parties.
- *Desk and multi-signature wallets.* A trade has two legs of which the second may fail; wallets share addresses. Right
  when the desk can pay both sides of every order, and a wallet pays only what its owners signed.
- *Bridge.* A transfer is three steps of different goroutines. Right when what one side locks covers what the other has paid out.
- *Bridge SDK.* Crash between effect and record, eviction, limits of queues, nested retries around a breaker
  others open. Right when an event takes effect once but for known failures, and a relay settles as one transfer or by the breaker's refusal.
- *Start and shutdown.* Flags are checked and set apart, channels are closed by one goroutine and used by others, a
  shutdown waits for goroutines that others go on starting. Right when a shutdown ends, a listener is not doubled, and
  nothing sends on a channel somebody has closed.
- *Transfer manager.* Three goroutines write the response of one transfer. Right when what a client sees never goes back.
- *Wallet service.* Record, send and status are separate calls which may fail; the node may have done what was answered
  with an error. Right when the history agrees with what was sent, and answers with what was done.
- *Users and sessions.* Counting and inserting a name are two calls; a session is named by a second. Right when a
  user who registered can log in, and requests act for the user who made them.
- *Governance.* Votes, openings and tallies come from goroutines in any order. Right when a verdict is that of valid
  votes and no proposal stays open.

`PROJECT.json` lists the hazards line by line with the properties aimed at each.

## 2. Modules

| module | models |
|---|---|
| `Chain` | chain, P2P and mining loop of any number of nodes |
| `Ledger` | accounts, stakes and rewards of one node |
| `NodeLocks` | the locks of one node and the calls that take them |
| `Token` | one token on words of any width |
| `Custody` | abstract: what a user may expect of an escrow |
| `Escrow` | the escrow manager; implements `Custody` |
| `EscrowClient` | the wallet library's escrow calls and the API's handlers, around `Escrow` |
| `Registry` | balances of many tokens, as the services see them |
| `OTC`, `MultiSig` | the over-the-counter desk and the multi-signature wallets, each over `Registry` |
| `Swap` | abstract: what both sides of an order may expect |
| `Services` | desk, wallets and users together; implements `Swap` |
| `Bridge` | the relay chain's bridge |
| `EventIntake` | listeners, replay protection and event recovery of the bridge SDK |
| `BridgeRelay` | the SDK's relay with retries and circuit breaker, over `Bridge` |
| `ErrorHandler` | the SDK's retry and dead-letter queues and their graceful shutdown |
| `Lifecycle` | initialization, start and shutdown of the SDK and its listeners |
| `LogStreamer` | the SDK's logger and its web clients |
| `TransferManager` | the manager of transfers in `bridge/core` |
| `WalletService` | requests of the wallet service, with the node's over-the-counter handlers |
| `Accounts` | users, sessions and wallets of the wallet service |
| `Governance` | the governance simulator and its callers in a node |
| `Totals` | the sum of a function's values, as the number of units its keys hold |
| `MC*` | constants for TLC; `MCNodeParts`, `MCSdkProcess`, `MCWalletService` and `MCEscrow` put modules that share no state side by side, and TLC explores one or the other |
| `*Proofs` | the theorems and the lemmas they rest on: `ChainProofs` (also `Token` and `Governance`), `LedgerProofs` (also `NodeLocks`), `EscrowProofs` (also `EscrowClient`), `ServicesProofs`, `EventIntakeProofs` (also `TransferManager`), `BridgeSdkProofs` (`BridgeRelay`, `Lifecycle`, `ErrorHandler`, `LogStreamer`), `WalletServiceProofs` (also `Accounts`), `TotalsProofs` (sums) |

An operator whose name starts with `Faulty` is a wrong version of the definition after it, the way
a plausible bug in that code would have it. Put in its place it makes the property `PROJECT.json`
names with it fail; nothing else uses it.

### Chain

State per node: `peers` (those it has dialled: the dialled node does not take the dialler for a peer, so that any graph without a circle
is an initial state, and what is broadcast goes one way along it), `chain` (`bc.Blocks`), `pendingTxs`, `pendingBlocks`, `stuck` (a goroutine waits for
`bc.mu` that it holds itself), `minerPc` and `mined` (where the mining loop is, and the block in its
local variable), `applied` and `stored` (the blocks executed on the accounts in memory, and on those
in LevelDB), `reported` (validators reported for a mostly refused block). `net` is the set of messages
in flight: messages overtake one another, a broadcast reaches any subset of the peers when `Lossy`. `broadcast` is history: the
blocks each node has sent out as its own.

`AddBlock` is five cases in the order of the code: `IgnoreBlock`, `reorganizeToFork` (a better sibling
becomes the *whole* chain), `handleFork` (a block at the tip's height on another parent: `stuck`),
`QueueBlock` with its requests for what is missing, `AppendBlock` with the drain loop: the longest run of
queued blocks that link up is appended *without being executed*, and the entry that stops it is deleted.
The mining loop is `MiningTick`, `MineBlock`, `BroadcastBlock` or `DropMined`, `AddMined`: one action for each stretch with
the lock. `ReceiveBlock`, `SyncChain`, `AnswerSyncReq` are the messages; `Restart` is a stop and a new
`NewBlockchain` at any moment, with a new identity: the node dials whom it wants, and nobody else reaches it any more.

Abstractions: hashes are numbers because `AddBlock` compares them, and no two mined blocks share one; a
block's stake is what its header records; transactions are names. Blocks are those nodes mine: forged
headers are not considered. `ValidateBlock`'s "too early" check is left out (it only drops blocks
the next tick mines again). A request or block the network delivers twice is not a separate case: a
request may be repeated by `SyncChain` and a block by its answer. When the mined block turns out to be the
tip already or to win a fork, `AddBlock` also returns true and the reward is paid; `Ledger` covers rewards.
A node that no client submits to never mines, because the loop wants pending transactions (`Gateway`).

### Ledger

`native` and `db` (`GlobalState` and LevelDB), `tokens`, `stake`; `tx` is the transaction `AddBlock` is
in the middle of and `reward` the reward the mining loop is in the middle of, so that the two
interleave as the code lets them. A deposit is `DepositTokens`, `DepositStake`; a withdrawal `WithdrawCheck`,
`WithdrawTokens`, `WithdrawStake`, which writes what the first of the three has read. `Restart` happens between
any two writes: LevelDB has the native balances, tokens and stakes start anew. `added` and `deposits`
are history, of one start of the process, and so is `overflow` (a mint has made the supply reach 2^64); `granted` is the native money that `"system"` has given.
Which node's block it is does not matter: the rewards of other nodes' blocks are transfers from `"system"`, which is an account of BHX like
others. Of native money it is neither checked nor debited (`CreditFromSystem`), and any client may send in its name. Balances and stakes are words of any width
and sums wrap. `AddTokenBalance` takes any amount. The other senders are `User`; nobody sends in the
name of `"staking_contract"`, which no part of the code does, though a node, which verifies no signature, would take the deposits out for whoever did.

### NodeLocks

A call is the sequence of lock operations it performs, one sequence for each path through it, and the
lock is Go's `sync.RWMutex`: an announced writer holds off new readers, which is what makes a second
read lock dangerous. Locks: chain, slashing manager, stakes, BHX token, peers, bad-block counts. The
constants `Forks`, `Executing` and `Reporting` switch on the three calls that lock twice; in the run all are on.
One goroutine makes the calls of the mining loop and of a stream, another those of the API, a third the monitor's.
Left out: the locks of the escrow, DEX, OTC and bridge managers, which nest only with the token's.

### Token

`Mint`, `Burn`, `Transfer`, `Approve` and `TransferFrom`, one action each (each holds the token's lock
throughout), with arithmetic modulo `Word`. `Mint` compares the wrapped sum with the maximum, computes the
supply anew from the balances, and fails if the receiver would overflow; a transfer lets the receiver wrap.

### Escrow and Custody

`Escrow` has one action per operation; a call that returns an error before it has changed anything is
no action. Refunds ignore the error of their transfer, `DisputeEscrow` looks at no status, a
confirmation after the expiry refunds. `settled` is history: whether the amount is out. Other users move
BHX at any time (`Pay`). `Custody` says what all this should come to: a deposit is settled at most once,
with its exact amount, to its sender or its receiver. The refinement maps a contract to a deposit that is
held or settled according to `settled`, and `IsCustody` is checked and proved. The pool account is
nobody's address. A restart is left out: contracts and tokens are both in memory and both gone.

### EscrowClient

A call of the library checks the balance, twice for a new escrow, then posts its request to one connected peer after the other
until one answers with success (`sendEscrowRequest`). `Handle…` are the node's handlers, each an operation of `Escrow`
whose answer may be lost (`Answer`); `NotDone` is a request that does not get there or is answered with an error. Other users'
calls are `Escrow!Next`. `made`, `unheard` and `paidBy` are history. Other nodes have escrow managers of their own, so that only
peers that lead to this node count.

### Registry, OTC, MultiSig, Swap, Services

`Services` is the composition: desk, wallets and users move the same balances. Every operation of the two managers holds its
lock and is one action. `OTC` keeps the branches in which the second leg of a trade fails after the first, or a refund's error is
ignored; that they are never taken is what `DeskBacked` shows and what makes the desk implement `Swap`. `SignedDebits` relates every
debit of a wallet's address to a transaction with enough signatures of owners, though several wallets may have the address.
No node creates either manager; what a node does for a trade is in `WalletService`.

### EventIntake

`Detect` (an event is seen in some second, and again in another), `Take` (which asks for its age, the cache and the database), `RecordEvent` (which may fail,
for one event as often as for many), `HandleEvent` (one attempt of `WithRetry`), the cache with its eviction and its partial reload, the clean-up, `failed` with its queue, worker and sweep, and `Restart`, which
keeps only the database. `handled` counts the listeners' calls of the handler, `refused` those of them that failed, `missed` the failed writes; `recovered` is the set of events the recovery's worker has
given to the handler, some of them more than once. The Ethereum and the Solana listener are alike. Left out: the retry and dead-letter queue, which are in `ErrorHandler` and hand
nothing to a handler.

### Bridge, BridgeRelay

A transfer is locked by its caller, confirmed and completed by goroutines of their own; a completed one mints, moves or
does nothing, as the code does for the token and chain. `BridgeRelay` has relay transactions made from events, with a goroutine each, and
calls of `RelayToChain`; both run two nested retries around the breaker's check, the transfer, and the breaker's record,
each a step. The breaker has the states and counters of the code, among them that a success while it is closed
does not reset the failures.

### ErrorHandler, Lifecycle, LogStreamer

Three parts of one process. `ErrorHandler`: who adds to a queue has looked at the flag before (`MayAdd`), workers take and finish, and the graceful
shutdown sets the flag, cancels, waits and drains. `Lifecycle`: `sdk.mu` as a reader-writer lock, callers that initialize, start,
stop and relay while `Shutdown` runs, the fields and goroutines of every listener that was ever made, the recovery, the database, and
panics, which end the process unless they are recovered. `LogStreamer`: the logger's subscription with its capacity, the map of
clients and each client's channel, with the four goroutines that use it (distribution, recent logs, writer, clean-up) and the page that connects, asks for
recent logs, sets filters and goes away. Entries are their numbers.

### TransferManager

A submission is a call and the goroutine it starts; its request's ID is the caller's choice and may repeat. The two responses a
submission creates, the maps and the monitor's round over what it has collected are kept apart, as each is
under a lock of its own. The fees are left out: nothing charges them.

### WalletService, Accounts

A request opens a wallet (`Opens`: cached keys, keys sealed with the password, keys sealed with a derived key) and goes through the steps of its
handler: records, checks, sending or marking as failed, or one call to the node's desk, which locks the BHX of an order and does nothing else: a match asks for a token no node
has registered, and is refused (`MatchOrder`). A request may name such a token too (`Token`); its transfers and stakes fail, its order is stored with nothing locked. Each call may fail or be answered too late, `Crash` forgets the
cache and every request. `Accounts` has registration as a count and an insertion, sessions by second and name, requests that look the user up anew by name, the command line
beside the web server, and wallets of the same name. The password's hash stands for itself.

### Governance

Proposals by second of submission, the delayed opening, votes of the simulation and of the operator, the ticker's rounds, and the tallies they start as
goroutines, which may run late or twice and look at neither the status nor the end of voting.

## 3. Runs

| run | question | bounds |
|---|---|---|
| `chain_forks` | Do forks, queueing and reorganization keep blocks linked, execution in order, the tip improving, and a dialled node off the worse of two sibling tips? | 2 mining nodes, either or neither of which has dialled the other, 3 blocks, stakes 1 and 2, heights to 2, 2 messages in flight |
| `chain_catchup` | Does the follower only ever have and execute the miner's blocks, and end up with its chain, though sends are lost and it restarts? | 1 miner, 1 follower, either or neither of which has dialled the other, 3 blocks, 1 restart, 2 requests in flight, messages otherwise unbounded |
| `ledger_accounts` | Do transfers, stakes, rewards, mints and restarts, interleaved, keep balances and stakes sound? | a validator and `"system"`, amounts 1 and 2, words of 3 bits, 1 own block, 1 unit given by `"system"`, 1 mint of any amount, 1 restart, maximum supply 3 |
| `locks` | Does every circle of waiting goroutines contain one that asks for a lock it holds, and every call return unless one does? | one goroutine for miner and stream, one for the API, the monitor; every call and path |
| `node_parts` | Is the reported supply the circulating one, whatever wraps? Is every proposal decided, and by valid votes? | 2 addresses, words of 2 bits, maximum 2; 2 validators with power 20 and 6, delay and voting period 1, time to 4, 2 late tallies |
| `escrow_custody` | Is the pool good for what it owes, is the manager a custody, and is what a caller is told so? | 2 escrows; the manager alone with 2 parties, an arbitrator and 2 units, the library with one call at a time, 2 peers, 1 unit, no arbitrator or dispute |
| `services` | Can the desk pay both sides of its orders, is it a swap, and do wallets pay only what is signed? | 2 users, 2 orders, 2 wallets, 2 addresses, 2 tokens, 2 transactions, amount 1, lists of 2 signers or owners, few calls at once |
| `bridge_intake` | Is the handler called with an event again only after a failed write or a failed call, by listeners and recovery, and does every failed event leave the recovery? | 2 listeners, a transaction each, cache, channels and queue of one place, 3 detections, 1 retry, 2 failures (of writes or calls), 1 restart |
| `bridge_relay` | Does a relay make one transfer, backed on both sides, and fail only by the breaker? Does it settle? | 2 relay transactions, 1 call of the SDK, 1 direct transfer, 1 retry, threshold 2, 3 failures, an address that is too short |
| `bridge_transfers` | Does what a client sees of a transfer only go forward, and is it completed while the manager monitors? | 3 submissions, 2 IDs, 3 chains, one of them unsupported |
| `wallet_service` | Does the history agree with what was sent? Can who registered log in, and do wallets go to who asked? | 2 requests, 3 wallets, 2 of them legacy, amounts 1, 2 tokens, 1 of them registered; 2 names, 2 passwords, 2 registrations, 2 browsers, 2 seconds, 1 wallet |
| `sdk_process` | Do the shutdowns end, is a listener doubled only by overlapping starts, what stays in the queues, and do log clients that are listed have an open channel and no gap but known ones? | 2 callers, 1 listener, 2 initializations, 2 starts; 3 events, queues of one place; 1 client, 2 filters, 3 entries, channels of one place |

Why the bounds are enough for what is asked. Three blocks and heights to 2 are the least with which a
block can be queued behind a wrong parent, a chain can be replaced by a sibling while its successor is queued, and
a block at the tip's height can have another parent; two nodes that both mine make every kind of fork. With
two escrows one can be paid with the other's money, which one escrow could not show; so with two orders. Two-bit words make
every sum wrap. One own block lets a reward meet the transactions of another block, half-way through a withdrawal; words of 3 bits are the least that leave room
for the genesis stakes, the reward and an amount, and an admin's mint of any amount wraps them; two failures let the write of one event fail twice, or its handling be given up. A cache and queues of one place are full all the time,
and three detections fill, evict and find again. Two relays can open a breaker for each other. Two registrations and two log-ins in one second are all that a
race for a name or a session takes. Two callers make a start overlap with a start, a stop or the shutdown; the second
initialization is the one that loses sight of the first one's listeners. A wallet the service has made never opens once it is out of the cache (section 5),
so that only legacy wallets, and ones that are cached, make requests.

Deadlock is checked except where everything may stop: `chain_forks` (both nodes may be stuck), `ledger_accounts` and `services`
(everything may be used up), `locks` (goroutines are expected to block), `bridge_intake` and `bridge_relay` (all events or relays are
done), `node_parts` (the operator may stop the node, all words may be spent), `wallet_service` (all requests are done) and `sdk_process` (the process may
have panicked or ended).

`chain_forks` has no losses, so that `ForkChoiceSettles` can be asked; a message that is never received stands for a
lost one. With lossy sends the same safety properties are theorems. Type invariants and `QueueAhead` are proved rather than run where
there are proofs.

Fairness. *Chain*: the mining loop and the stream handlers are goroutines that always run again (weak
fairness per loop and per height of a block). `SyncChain` repeats its broadcast every five seconds and every answer is
another try, so those sends are strongly fair in the form in which nothing is lost: a network that
loses every single message for ever is excluded, nothing else is. *NodeLocks*: a goroutine that can go on does, and the
mutex hands itself to every queued writer eventually (Go's mutex has a starvation mode), hence strong fairness of
`Announce`. *EventIntake*: the recovery's worker and sweep (weak, of `RelayFailedEvent`, `removeFailedEvent` and `QueueAgain`); nothing is
assumed of listeners. *BridgeRelay*: each relaying goroutine and the bridge's goroutines; not that a breaker cools down. *TransferManager*: every executing
goroutine and the monitor's ticker. *Governance*: the clock, the rounds of the ticker and the tallies they start, while the node runs. *Lifecycle* and *ErrorHandler*: the steps of
the shutdown and of each goroutine, while the process does. The other specifications assume none.

## 4. Proofs

TLAPS proves, for every set of nodes, users, addresses, parties, listeners, requests and every amount, width, capacity and bound:

| theorem | states |
|---|---|
| `ChainTyped`, `ChainIsLinked`, `QueueIsAhead`, `ExecutionInOrder`, `TipOnlyImproves`, `ForksSettle`, `OneMinerAgrees` | `TypeOK`, `ChainLinked`, `QueueAhead`, `AppliedInOrder`, `TipImproves`, `ForkChoiceSettles`, `ReplicasAgree` of `Chain` |
| `TokenTyped`, `SupplyReported` | `TokenTypeOK` and `SupplyIsCirculating` of `Token` |
| `GovernanceTyped`, `DecisionsFollowVotes` | `GovTypeOK` and `DecidedByVotes` of `Governance` |
| `LedgerTyped`, `NativeIsConserved`, `StakeIsBacked`, `StakeIsExplained`, `MaxSupplyKept` | `TypeOK` and the four properties of `ledger_accounts` |
| `LocksTyped`, `NoOtherDeadlock` | `LocksTypeOK` and `DeadlockNeedsRelock` of `NodeLocks` |
| `EscrowTyped`, `PoolBacked`, `StatusIsMoney`, `EscrowIsCustody` | `TypeOK`, `Backed`, `StatusTellsSettled`, `IsCustody` of `Escrow` |
| `AnswersAreTrue`, `LibraryIsCustody` | `AnswersHold` and `IsCustody` of `EscrowClient`: with the library's calls among all the others |
| `ServicesTyped`, `DeskIsBacked`, `DebitsAreSigned`, `ServicesIsSwap` | `TypeOK` and the three properties of `services` |
| `IntakeTyped`, `EventsHandledOnce` | `TypeOK` and `HandledOnce` of `EventIntake` |
| `TransfersTyped`, `TransfersGoForward` | `TransferTypeOK` and the action property `SeenForward` of `TransferManager` |
| `RelayTyped`, `BridgeIsBacked`, `EveryRelayOnce`, `GivenUpByBreaker` | `TypeOK`, `BridgeBacked`, `RelayedOnce`, `FailedByBreaker` of `BridgeRelay` |
| `OneIntakeEach`, `ShutdownLeavesOnlyLate`, `StreamerServes` | `OneIntake` of `Lifecycle`, `OnlyLateLeft` of `ErrorHandler`, `ClientsServed` of `LogStreamer` |
| `WalletServiceTyped`, `FailedIsUnsent`, `SentIsRecorded` | `TypeOK`, `FailedNeverSent`, `SentWasRecorded` of `WalletService` |
| `RegisteredCanLogIn`, `WalletsOwned` | `RegisteredLogsIn` and `OwnWallets` of `Accounts` |

So every invariant and action property that a run checks is a theorem.

They rest on the assumptions named in the modules, which say that bounds are numbers, that sets which are summed over are finite, that what
stands for "nothing" is not something, and that actors of different kinds are different: `ChainAssumption` and `NoBlockAssumption`, `TokenAssumption`,
`GovernanceAssumption`, `LedgerAssumption` and `NothingAssumption`, `LocksAssumption`, `EscrowAssumption` and `EscrowClientAssumption`,
`RegistryAssumption`, `OTCAssumption` and `MultiSigAssumption`, `IntakeAssumption`, `TransferAssumption`, `BridgeAssumption` and `RelayAssumption`,
`LifecycleAssumption`, `HandlerAssumption`, `StreamAssumption`, `WalletServiceAssumption`, and the `NoneAssumption`s of `Governance` and `TransferManager`.
TLC evaluates each on the run of its module. Three say more about the configuration: `LedgerAssumption` that a word has room for the maximum supply, genesis stakes, rewards and an amount, `IntakeAssumption` that records are kept as long as
an event may be old (`MaxAge >= Window`; the example server allows less, section 5), `HandlerAssumption` that the error handler's queues have a capacity.

- *Chain.* `ChainLinked` and `AppliedInOrder` are not inductive alone. The invariant adds that a queued
  block is under its own index and beyond the next height (so what is drained continues the chain), and
  that nothing executed is above the tip. `AddBlockInv` is one lemma per case of `AddBlock`,
  used by both its callers; `TipImproves` follows from the same invariant.
- *Fork choice.* `ForksSettle` says of two nodes without losses that one which the other has dialled, and so hears its blocks, does not stay on the worse of two sibling tips. What makes it hard is what `MineBlock` does after a node has
  taken a better sibling for its whole chain: it numbers blocks by the length of that chain, so they are numbered too low, are sent all the same, and may take a good
  block's place in the other node's queue. A block is `Good` when its number is one above its parent's. `ForkState` holds for any number of nodes, with losses, up to
  the first restart. It says that a hash names one block and who sent it (`HashesUnique`, `Parented`, `Circulating`), what the blocks
  a node has sent tell of its tip (`Own`: the tip has got past the parent, and past the block too, or the loop is about to add it), that a node sends one good block per height (`OneGood`),
  and that after a bad block that could do harm its tip is never its own again (`BadBlocks`). `Heard`, for two nodes without losses, says what a good block does
  that the dialled node has received from the other: it is the tip or has lost to it, waits in the queue, or was turned down for good. Had the dialler the better of two sibling tips, the dialled
  node would have to have it as well (`ForkSettled`). TLC checked `ForkInv` on the instance of `chain_forks` before it was proved.
- *One miner.* `OneMinerAgrees` is the safety beside `CatchUp`, for any number of nodes. The broadcast blocks have one block for each height (`OneLine`); all that a node holds,
  queues, has executed or is sent is among them, each at its height (`HeldLine`); nobody else mines (`OthersIdle`); and the line is ahead of the miner
  only by the block it has sent and not yet added, which may come back to it from another node before it adds it (`MinerLeads`). Then `AddBlock` finds no sibling and no block on another
  parent. That the miner itself is not restarted is needed: it would mine a second block for each height.
- *Ledger.* `TypeOK` needs that a withdrawal in progress takes no more than the stake it has seen, and `StakeBacked` that there is no less now (`SeenStake`: only
  the mining loop meets it, and only adds); conservation over a restart needs that memory and LevelDB agree (`MemoryIsStored`). `StakeBacked` is
  strengthened by what a deposit has moved and not yet added (`StakeCovered`), and needs that no stake wraps: this follows from the rewards of the
  blocks so far (`AddedBounded`) and the supply (lemma `Room`), because `LedgerAssumption` leaves room in a word for the maximum supply, genesis stakes, rewards and an amount, far
  below 2^64 in the code. `StakeExplained` needs none of that: what a withdrawal has seen is explained too (`SeenExplained`). That a transfer or a reward that wraps does not take the true supply past
  its maximum is the second part of `SupplyWithinMax`.
- *Token.* `TypeOK /\ SupplyIsCirculating` is inductive once it is known that a transfer changes the sum of
  the balances by a multiple of the word.
- *Governance.* `DecidedByVotes` is inductive with two facts: goroutines tally, and decide, after the end of voting only, when no vote is accepted any more
  (`TalliedLate`), so that a late or repeated tally counts what the deciding one has counted; and the sample's goroutine knows its ID (`SampleKnown`).
- *NodeLocks.* The locks have an order (`Rank`), and every call asks only for locks above those its goroutine is inside of, or for one of these
  (`Allowed`). `Ordered` says this of the operations a goroutine has still to do; it is proved once for each of the helpers the calls are made of and
  composed for the calls (`CallableIn`), and a step removes an operation from its front. In a circle of waiting goroutines the locks they wait for
  cannot all rise: whoever is inside of the highest of them asks for a higher one.
- *Escrow.* `Backed` needs types and `StatusTellsSettled`: only a status that means "not settled" leads
  to a payment. The refinement has one lemma per action, each step being a step of `Custody` or a stutter.
- *EscrowClient.* Every step of a call leaves the manager alone or is one of its operations, so that all that is proved of `Escrow` holds of it. What a caller
  was told stays true because it is of the kind that lasts (`Lasting`: escrows stay, signatures are only added, what is settled stays settled) whatever others do; `Paid`
  says that an escrow paid for by a call is settled, and so is not paid for again when the request is repeated.
- *Services.* The payments that fail after others are in the code and in the model; `DeskBacked` (the desk has at least what all orders are
  due, a sum over orders) rules them out, and only then every step is a step of `Swap`. `SignedDebits` needs that a pending
  transaction asks for as many signatures as its wallet and has those of owners only (`Signed`).
- *EventIntake.* An event is settled when the database has it or it is too old. The clean-up deletes only records of events that are too old,
  because a record is not younger than its event (`Placed`) and `MaxAge >= Window`; what is in the cache is in the database. `Counted` then bounds how often the
  handler has taken an event, before and while a listener works on it: the calls that have not failed (`Outcomes`) and the hand-over to the recovery, of which a listener makes one or the other for a job (`Given`), are one for each failed record and
  one more once the event is settled. `Calls` bounds the attempts of a job by the retries. What the recovery has, or gave to the handler, is an event a listener has given up.
- *TransferManager.* The response an ID has belongs to a submission stored under that ID, one of a handler to a submission whose handler has returned
  (`Submitted`, `Answer`), and what the monitor's round has collected is of such responses. So a late round can only complete what is already confirmed.
- *BridgeRelay.* `LocksBacked` and `MintsBacked` are sums over transfers; each step adds one or changes the state of one. `RelayedOnce` needs where a job is in its two nested
  retries: it makes no attempt after a transfer of its own (`TransferEnds`), it has succeeded with one only (`SuccessTransfers`), and no attempt of a
  relay transaction fails by itself, so that none is given up unless the breaker has opened (`GivesUp`).
- *Lifecycle.* `OneStart` is about a listener never stopped and never started by two calls at once: it has goroutines only if it runs, and a call that has
  looked at `isRunning` finds it as it was.
- *ErrorHandler.* Whoever comes after the flag is set is turned away (`LateAdders`), so that the drained queues get only what was on its way in
  (`RetriesDrained`, `DeadDrained`).
- *LogStreamer.* What a listed client is promised starts with its first copy or its last change of the filter: every entry since then that it wants
  has reached it, is on its way in its channel, its copy or the subscription, or found that one full (`Covered`). Lemma `StillCovered` carries this through every step that logs,
  distributes or delivers.
- *WalletService.* The invariant says where a request is: one that has reached the node, or is called failed, is done (`Sent`, `Failed`); one past its first record has
  it or has missed it (`Recorded`).
- *Accounts.* A name stands for the first account that has it. A registration is good when no other account of its name was inserted since it counted (`Counted`); what a
  browser holds or is about to do is of the account whose password it has shown (`CookieOwned`, `TaskOwned`), because the account a name stands for never
  changes once there is one. That there is a first one comes from the library's theorem on well-founded relations (`Least`).
- *Totals.* `TotalUpdate`, `TotalChange` and `TotalExtend` say what changing or adding one value does to a sum; `Total`
  counts a finite set of units, so they are proved from the theorems on cardinality, without recursion.

Model-checked only is what is live (`CatchUp`, `CallsReturn`, `ProposalsDecided`, `FailedRelayed`, `RelaysSettle`, `MonitoredCompletes`, `ShutdownEnds`, `HandlerEnds`): liveness under
  fairness is beyond this prover.

## 5. Behaviour of the code that the documentation does not tell

All of it was met in writing the models, which include it unless the text says otherwise.

**Chain.** A better sibling replaces the whole chain by one block (`chain/blockchain.go:252`), against
"Longest chain rule" (`docs/MODULE_FUNCTIONALITY.md:100`); `MineBlock` numbers blocks by the length of the chain, so
every block the node mines from then on is stale. A transaction that two nodes got is executed by both their blocks
(`chain/blockchain.go:1112`), against "Nonce checking for replay protection". After a restart synced blocks are executed again on the
stored accounts (`chain/blockchain.go:859`), against "State persistence with LevelDB". `handleFork` waits for the lock its caller holds
(`chain/blockchain.go:513`), and `ExecuteSlashing` likewise for a validator with stake (`chain/slashing_manager.go:142`); the monitor and
`AddBlock` wait for each other for ever when a writer comes between its two read locks (`chain/blockchain.go:1193`), against "Validator Monitoring: Working correctly". Drained
blocks are never executed (`chain/blockchain.go:349`); transactions that arrive between `MineBlock` and `AddBlock` are
dropped (`chain/blockchain.go:338`).

A connection serves who made it (`chain/p2p.go:72`): the dialled node answers over the dialler's streams, but broadcasts nothing to it and asks it for nothing. Of two nodes one never hears
the other's blocks, and as `SyncChain` asks for blocks above the tip only, siblings of its tip stay unknown to it for ever; the node that was only dialled has what the other
broadcasts, and a block it misses cuts it off. After a restart nobody reaches the node's new identity until it is dialled again.
`ForkChoiceSettles` and `CatchUp` are about the direction in which the code does listen.

Three nodes can stay on sibling tips though nothing is lost (not in a run; the model finds it with three mining nodes, four blocks and heights to 2): a next block that overtakes
its parent is thrown away while the node's tip is a sibling of that parent (`chain/blockchain.go:272`), the parent then replaces the tip, a third node builds another
successor, and since `SyncChain` asks for blocks above the tip only, nobody ever compares the two successors again. `ForkChoiceSettles`
is therefore about networks of two.

**Accounts and token.** Stake that was never deposited is withdrawn from other users' deposits
(`chain/blockchain.go:812`), against "Tokens are locked in `staking_contract`". A reward is paid twice, by the block's first transaction and by the mint
(`cmd/relay/main.go:213`); a reward added in the middle of a withdrawal is lost (`chain/blockchain.go:819`); a stop between the two
writes of a native transfer loses the amount (`chain/blockchain.go:739`); a native transfer from `"system"` is queued unverified (`chain/blockchain.go:636`, `chain/p2p.go:188`) and credited without a debit
(`chain/blockchain.go:731`), so that whoever sends one makes money; the wrapped sum is compared with the maximum
supply (`token/mint.go:33`), and the admin's endpoint takes any amount (`api/server.go:419`), so that the true supply can pass it; `NewToken` takes the initial supply for the maximum (`token/token.go:24`).

**Escrow.** Nothing calls `ProcessExpiredEscrows` (`escrow/escrow.go:302`); the empty address signs for a missing arbitrator
(`escrow/escrow.go:153`). The library repeats a request at the next peer when an answer was lost: a second escrow is made, or a call is reported
as failed although it was done (`services/wallet/wallet/blockchain_client.go:978`). It takes any peer on port 3000 for the node at `localhost:8080`. The handlers put what
they found under `data`, and the library looks beside it: `GetEscrowDetails` panics on every escrow there is, `GetUserEscrows` finds none. A confirmation
of an expired escrow refunds and answers with an error. The service itself calls none of this, and ignores the page's box "Use Escrow".

**Desk and wallets of the node.** No node creates an `OTCManager` or a `MultiSigManager`. Wallets made within 17 minutes share an address; an order whose list names
a signer twice never completes. The live handlers instead look at no order: a match asks for 5000 USDT, which no node registers (`chain/blockchain.go:100`), so that each one
ends with "requested token not found" (`api/server.go:1828`) before the two transfers written for it (`api/server.go:1808`); an order that offers an unregistered token is stored with nothing locked (`api/server.go:1557`);
and a cancellation does nothing, so that locked tokens stay locked.

**Bridge and relay.** A sender's address that is too short panics (`bridge/bridge.go:122`) and the relay, whose panic is recovered, is called completed. A transfer to the
relay chain of a token it does not know is completed without a mint. Amounts become 64-bit units of 10^-18 coins, which overflow above 18.4 coins
(`bridge-sdk/relay.go:87`; not modelled). A breaker's failures are not reset by successes while it is closed, failures while it is half open
do not open it, and it half-opens under a read lock. `RelayToChain` works on a copy of the transaction and holds the SDK's lock through all retries.

**Listeners and recovery.** The same transaction seen in another second is another event and is handled again (`bridge-sdk/listeners.go:276`). An event that was recorded and not yet handled is
lost in a crash. An event whose record cannot be written is handled again whenever it is reported, as often as the write fails (`bridge-sdk/listeners.go:323`). The recovery gives a failed event to the relay, which is the SDK's own
handler (`bridge-sdk/event_recovery.go:128`), and its sweep queues events that are queued or being relayed already (`bridge-sdk/event_recovery.go:197`): nothing bounds how often one event is relayed, and `HandledOnce` does not say so. The example server's clean-up may be asked for one hour, while an event is accepted for 24 (`bridge-sdk/example/main.go:2294`). An error of the
Ethereum subscription ends the listener (`bridge-sdk/listeners.go:178`); a closed RPC client delivers none, and the call of its `Error` panics, which recovers to the same end. `stopChan` is never made anew: a listener that is started after a stop is deaf and its next stop panics. `Initialize` does not look at the
shutdown flag, and the listeners it replaces are out of reach of `Shutdown`. The retry queue "forces success" without doing anything (`bridge-sdk/error_handler.go:206`);
`AddToRetryQueue` cuts hashes to eight characters and panics on shorter ones (not modelled). The example server's configuration, which sets little of all this, has no panic recovery, unbuffered queues, no retries and no
grace time.

**Log streaming.** A client that is silent for five minutes is dropped by the clean-up, after which its own reader closes its channel again and panics; the page asks for the recent logs it was already
sent; a pong is written beside the writer goroutine and filters are written without a lock (neither is modelled as a race); a client that wants debug entries and is slow feeds
itself the entries about its own full channel; nothing calls `Stop`.

**Transfers between chains.** The SDK never calls the manager's `Start`, so its transfers stay confirmed; `Stop` cancels the context for good. A request with a used ID executes again and its status can go back. The estimated fee is never charged.
The handlers send nothing. An amount that is no number is a nil `big.Int` (not modelled).

**Governance.** In a node no vote is ever accepted: the simulation votes two seconds after the submission, before the window opens, and the operator votes as
`cli-validator`, who has no power. `TallyVotes` looks at neither the status nor the end of voting. Two proposals of one second share an ID. `SimulateVoting` reads maps without their lock (not modelled as a race).

**Wallet service.** A key is encrypted with a key derived from the master key and itself, which neither of the ways to decrypt it uses
(`services/wallet/wallet/wallet.go:254`): a wallet the service has made never opens again once its key has left the cache (`WalletsOpen` says it would; it is in the module and no run
claims it), against "Private keys encrypted with user password" (`docs/PROJECT_WORKFLOW.md:66`). A cached key is returned whatever the password. A transaction's
record has another hash than the transaction that is sent, its status is only ever `pending` or `failed`, and of a transfer's two records
only the first is updated. Success is reported although no peer was reached, and a match, a cancellation or an order although the node
was not; an order whose answer is lost is made up anew while the node has locked the tokens. Stakes are sent without a look at the balance. Two registrations of one name
both succeed and the second can never log in: the index that would refuse it is made by `InitMongo`, which nothing calls. Two log-ins of a user in one second
share a session, and one log-out ends both; sessions never end at the server. Wallet names may repeat, and only the first is found. The maps of keys and
sessions are read and written without a lock (not modelled as a race). Nothing calls the subscriptions to the bridge's events, and nothing sends on the channel that rotates keys.

## 6. Plan, and what is not modelled

Done, in the order of importance: what every node runs for every block (`Chain`, `Ledger`, `NodeLocks`, `Token`), what clients call (`Escrow`, `Services`, `WalletService`, `EscrowClient`, `Accounts`),
what moves value between chains (`EventIntake`, `BridgeRelay`, `TransferManager`), and what starts, stops and watches it (`Lifecycle`, `ErrorHandler`,
`LogStreamer`, `Governance`).

Worth doing next: a composition of `Chain` and `Ledger`, to state and prove what the ledgers of several nodes share although only the mining node mints; an abstract specification of a relay (one event, one transfer, or the breaker's refusal) that `EventIntake` and `BridgeRelay`
implement together; type theorems for `Lifecycle`, `ErrorHandler`, `LogStreamer` and `Accounts` by name (the invariants above contain
what is needed of their types); strikes and jail of validators without stake.

Not modelled:

- *Pages.* Some 6000 lines of Go are HTML, style sheets and scripts in string literals (`serveDashboard`, `dashboardHandler`, `logsHandler`, `relayHandler`, `serveDevMode`, `serveUI`,
  `serveLogin`, `serveRegister` and `dashboard_components.go`), and more is console output. Only what the log page does with its connection has a bearing on a property. This, the test
  drivers and the simulators are most of the code no definition stands for.
- *Consensus arithmetic* (the selection is a free choice in `Chain` and `Ledger`), reward strategies the mining loop does not call, account nonces (no code path enforces them),
  `StakeTokens` and `InitializeDefaultStakes` (not called after the start), connecting and dropping peers, strikes and severity.
- *The DEX* and its pools: no node has one, and `ExecuteSwap` and `InitiateCrossChainSwap` lock a mutex twice. Only the bridge transfer of a cross-chain swap is in `BridgeRelay`.
- *Cryptography* (a node never verifies a signature), the drivers of MongoDB, BoltDB, LevelDB and Ethereum (what they promise is in the guards), HTTP parsing.
- *Monitoring*, the gRPC queries and the state logs, which only read; the end-to-end validator and the load tester, which simulate; prototypes nothing calls.
- Health checks and metrics of the error handler, fees of transfers, the lists of token and governance events: nothing that is modelled reads them.
