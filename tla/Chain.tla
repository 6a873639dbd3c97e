------------------------------- MODULE Chain -------------------------------
(***************************************************************************)
(* The replicated chain of a relay-chain network: every node's mining loop *)
(* (cmd/relay/main.go), its AddBlock with fork choice and queue of future  *)
(* blocks (chain/blockchain.go) and the P2P messages between the nodes     *)
(* (chain/p2p.go).                                                         *)
(*                                                                         *)
(* A block is its header with its hash; two mined blocks never share a     *)
(* hash, and hashes are numbers only because AddBlock compares them.  The  *)
(* contents of a transaction are abstracted (module Ledger interprets      *)
(* them): "applied" records which blocks' transactions a node has executed *)
(* on its in-memory state, "stored" which ones on the accounts it keeps in *)
(* LevelDB.                                                                *)
(***************************************************************************)
EXTENDS Integers, Sequences, FiniteSets

CONSTANTS
  Node,         \* the nodes of the network
  Gateway,      \* the nodes clients submit to, so the only ones that ever mine
  Tx,           \* transactions clients submit
  Suspicious,   \* those validateTransactionSecurity refuses
  Hash,         \* hashes a mined block may get: bounds the number of blocks
  Stake,        \* values of the validator's stake a block header may record
  Restarting,   \* the nodes that may stop and start again
  MaxIndex,     \* bound on a block's index
  MaxRestarts,  \* bound on the number of node restarts
  MaxRequests,  \* bound on the sync requests in flight
  Lossy,        \* TRUE when a send may fail (Broadcast skips the peer)
  NoBlock       \* no block

ASSUME ChainAssumption ==
  /\ Hash \subseteq Nat \ {0}
  /\ Gateway \subseteq Node
  /\ Restarting \subseteq Node
  /\ Suspicious \subseteq Tx
  /\ Stake \subseteq Nat
  /\ MaxIndex \in Nat
  /\ MaxRestarts \in Nat
  /\ MaxRequests \in Nat
  /\ Lossy \in BOOLEAN

Index == 0 .. MaxIndex

Block == [hash : Hash \cup {0}, index : Index, prev : Hash \cup {0},
          stake : Stake \cup {0}, txs : Seq(Tx)]

ASSUME NoBlockAssumption == NoBlock \notin Block

\* The genesis block is the same on every node: createGenesisBlock fixes its
\* timestamp.  Its own previous hash is no block's hash.
Genesis == [hash |-> 0, index |-> 0, prev |-> 0, stake |-> 0, txs |-> <<>>]

VARIABLES
  peers,         \* the peers of each node: those it dialled when it started
  chain,         \* bc.Blocks of each node
  pendingTxs,    \* bc.PendingTxs of each node
  pendingBlocks, \* bc.pendingBlocks of each node, NoBlock where the map has none
  stuck,         \* TRUE once a goroutine of the node waits for bc.mu while holding it
  minerPc,       \* where the node's mining loop is
  mined,         \* the block the mining loop holds, between MineBlock and AddBlock
  applied,       \* blocks whose transactions were executed on the in-memory state
  stored,        \* blocks whose transactions were executed on the stored accounts
  reported,      \* blocks whose validator was reported for suspicious transactions
  received,      \* transactions that have reached each node
  used,          \* hashes of the blocks mined so far
  broadcast,     \* history: the blocks each node has broadcast as its own
  restarts,      \* number of restarts so far
  net            \* messages in flight

nodeVars == <<chain, pendingTxs, pendingBlocks, stuck, applied, stored, reported>>
minerVars == <<minerPc, mined>>
vars == <<peers, nodeVars, minerVars, received, used, broadcast, restarts, net>>

\* A node dials the addresses it is started with (Connect), and an address names an
\* identity the dialled node made up when it started: of any nodes the one that
\* started first has dialled none of the others.  The dialled node does not take the
\* dialler for a peer of its own (handleStream), so that what goes to peers goes one
\* way along each connection.
Acyclic(d) == \A S \in SUBSET Node : S # {} => \E n \in S : d[n] \cap S = {}

\* The sets of peers a broadcast may reach: Broadcast logs a failed send and
\* goes on with the next peer.
Reached(n) == IF Lossy THEN SUBSET peers[n] ELSE {peers[n]}

\* The messages M are in flight now.  A request that is one too many waits, or is
\* among those a broadcast loses.
InFlight(M) ==
  /\ net' = M
  /\ Cardinality({m \in M : m.type = "syncReq"}) <= MaxRequests

BlockMsg(to, b) == [type |-> "block", to |-> to, block |-> b]
SyncReq(from, to, lo, hi) ==
  [type |-> "syncReq", from |-> from, to |-> to, lo |-> lo, hi |-> hi]

Message ==
  [type : {"block"}, to : Node, block : Block]
    \cup [type : {"syncReq"}, from : Node, to : Node, lo : Nat, hi : Nat]

Tip(n) == chain[n][Len(chain[n])]

Init ==
  /\ peers \in {d \in [Node -> SUBSET Node] : Acyclic(d)}
  /\ chain = [n \in Node |-> <<Genesis>>]
  /\ pendingTxs = [n \in Node |-> <<>>]
  /\ pendingBlocks = [n \in Node |-> [i \in Index |-> NoBlock]]
  /\ stuck = [n \in Node |-> FALSE]
  /\ minerPc = [n \in Node |-> "idle"]
  /\ mined = [n \in Node |-> NoBlock]
  /\ applied = [n \in Node |-> <<>>]
  /\ stored = [n \in Node |-> <<>>]
  /\ reported = [n \in Node |-> {}]
  /\ received = [n \in Node |-> {}]
  /\ used = {}
  /\ broadcast = [n \in Node |-> {}]
  /\ restarts = 0
  /\ net = {}
-----------------------------------------------------------------------------
(***************************************************************************)
(* AddBlock, case by case in the order of the code.  Each case constrains  *)
(* nodeVars; the callers say what becomes of the network and the miner.    *)
(*                                                                         *)
(* An operator whose name starts with Faulty is a wrong version of the one *)
(* that follows it; the mutation runs put it in its place.                 *)
(***************************************************************************)

\* The block loses to the chain as it is: behind the tip, the tip itself, a
\* next block on another parent, or a sibling of the tip that is not better.
FaultyBetterNoTie(b, tip) == b.stake > tip.stake
FaultyBetterNoOrder(b, tip) == b.stake >= tip.stake

Better(b, tip) ==
  \/ b.stake > tip.stake
  \/ b.stake = tip.stake /\ b.hash < tip.hash

Sibling(b, tip) ==
  b.index = tip.index /\ b.hash # tip.hash /\ b.prev = tip.prev

IgnoreBlock(n, b) ==
  LET tip == Tip(n) IN
  /\ \/ b.index < tip.index
     \/ b.index = tip.index /\ b.hash = tip.hash
     \/ b.index = tip.index + 1 /\ b.prev # tip.hash
     \/ Sibling(b, tip) /\ ~Better(b, tip)
  /\ UNCHANGED nodeVars

FaultyReorgExecutes(n, b) ==
  /\ Sibling(b, Tip(n)) /\ Better(b, Tip(n))
  /\ chain' = [chain EXCEPT ![n] = <<b>>]
  /\ pendingTxs' = [pendingTxs EXCEPT ![n] = <<>>]
  /\ applied' = [applied EXCEPT ![n] = Append(@, b)]
  /\ UNCHANGED <<pendingBlocks, stuck, stored, reported>>

\* A better sibling of the tip: reorganizeToFork is handed that one block and
\* makes it the whole chain.  No state is rolled back or applied.
reorganizeToFork(n, b) ==
  /\ Sibling(b, Tip(n)) /\ Better(b, Tip(n))
  /\ chain' = [chain EXCEPT ![n] = <<b>>]
  /\ pendingTxs' = [pendingTxs EXCEPT ![n] = <<>>]
  /\ UNCHANGED <<pendingBlocks, stuck, applied, stored, reported>>

\* A block at the tip's height on another parent: reconstructChain looks the
\* parent up with GetBlockByPreviousHash, which read-locks the mutex AddBlock
\* holds for writing, so the call never returns and nobody else gets the lock.
handleFork(n, b) ==
  /\ b.index = Tip(n).index /\ b.hash # Tip(n).hash /\ b.prev # Tip(n).prev
  /\ stuck' = [stuck EXCEPT ![n] = TRUE]
  /\ UNCHANGED <<chain, pendingTxs, pendingBlocks, applied, stored, reported>>

\* A block from further ahead waits in pendingBlocks; requestMissingBlocks is
\* the part of this case that RequestsFor below sends.
QueueBlock(n, b) ==
  /\ b.index > Tip(n).index + 1
  /\ pendingBlocks' = [pendingBlocks EXCEPT ![n][b.index] = b]
  /\ UNCHANGED <<chain, pendingTxs, stuck, applied, stored, reported>>

FaultyRunUnlinked(n, b, k) ==
  /\ b.index + k \in Index
  /\ \A i \in 1 .. k : pendingBlocks[n][b.index + i] # NoBlock

\* The k blocks queued right behind b link up with it one after the other.
LinkedRun(n, b, k) ==
  /\ b.index + k \in Index
  /\ \A i \in 1 .. k :
       /\ pendingBlocks[n][b.index + i] # NoBlock
       /\ pendingBlocks[n][b.index + i].prev =
            IF i = 1 THEN b.hash ELSE pendingBlocks[n][b.index + i - 1].hash

\* The entries the drain loop deletes: the k it appends and the one that stops it.
Dequeued(b, k) == b.index + 1 .. b.index + k + 1

SuspiciousCount(b) == Cardinality({i \in DOMAIN b.txs : b.txs[i] \in Suspicious})

\* More than half of a block's transactions, the reward included, refused.
MostlySuspicious(b) == 2 * SuspiciousCount(b) > Len(b.txs) + 1

\* The next block: its transactions are executed, it is appended, and so are
\* the queued blocks that follow it, whose transactions are not executed.  The
\* queued block that stops the run is thrown away.
AppendBlock(n, b) ==
  /\ b.index = Tip(n).index + 1 /\ b.prev = Tip(n).hash
  /\ \E k \in 0 .. MaxIndex :
       /\ LinkedRun(n, b, k) /\ ~LinkedRun(n, b, k + 1)
       /\ chain' = [chain EXCEPT ![n] =
            Append(@, b) \o [i \in 1 .. k |-> pendingBlocks[n][b.index + i]]]
       /\ pendingBlocks' = [pendingBlocks EXCEPT ![n] =
            [i \in Index |-> IF i \in Dequeued(b, k) THEN NoBlock ELSE @[i]]]
  /\ pendingTxs' = [pendingTxs EXCEPT ![n] = <<>>]
  /\ applied' = [applied EXCEPT ![n] = Append(@, b)]
  /\ stored' = [stored EXCEPT ![n] = Append(@, b)]
  /\ reported' = [reported EXCEPT ![n] =
       IF MostlySuspicious(b) THEN @ \cup {b.hash} ELSE @]
  /\ UNCHANGED stuck

AddBlock(n, b) ==
  \/ IgnoreBlock(n, b)
  \/ reorganizeToFork(n, b)
  \/ handleFork(n, b)
  \/ QueueBlock(n, b)
  \/ AppendBlock(n, b)

\* Requests for the blocks between the tip and a queued block, to peers R.
RequestsFor(n, b, R) ==
  IF b.index > Tip(n).index + 1
  THEN {SyncReq(n, p, Tip(n).index + 1, b.index - 1) : p \in R}
  ELSE {}
-----------------------------------------------------------------------------
(***************************************************************************)
(* Clients and the mining loop.                                            *)
(***************************************************************************)

\* A transaction arrives, by the API (ProcessTransaction) or from the wallet's
\* P2P client (MessageTypeTx); the wallet sends it to a node once.
ReceiveTx(n, t) ==
  /\ n \in Gateway
  /\ ~stuck[n]
  /\ t \notin received[n]
  /\ received' = [received EXCEPT ![n] = @ \cup {t}]
  /\ pendingTxs' = [pendingTxs EXCEPT ![n] = Append(@, t)]
  /\ UNCHANGED <<peers, chain, pendingBlocks, stuck, applied, stored, reported,
                 minerVars, used, broadcast, restarts, net>>

\* The ticker fires and GetPendingTransactions finds something to mine.
MiningTick(n) ==
  /\ ~stuck[n]
  /\ minerPc[n] = "idle"
  /\ pendingTxs[n] # <<>>
  /\ minerPc' = [minerPc EXCEPT ![n] = "tick"]
  /\ UNCHANGED <<peers, nodeVars, mined, received, used, broadcast, restarts, net>>

\* MineBlock numbers the block by the length of the chain and takes a copy of
\* the pending transactions, which stay pending.
MineBlock(n) ==
  /\ ~stuck[n]
  /\ minerPc[n] = "tick"
  /\ Len(chain[n]) <= MaxIndex
  /\ \E h \in Hash \ used, s \in Stake :
       /\ used' = used \cup {h}
       /\ mined' = [mined EXCEPT ![n] =
            [hash |-> h, index |-> Len(chain[n]), prev |-> Tip(n).hash,
             stake |-> s, txs |-> pendingTxs[n]]]
  /\ minerPc' = [minerPc EXCEPT ![n] = "mined"]
  /\ UNCHANGED <<peers, nodeVars, received, broadcast, restarts, net>>

\* ValidateBlock accepts a block that extends the current tip, and the block is
\* broadcast before the node adds it itself.
BroadcastBlock(n) ==
  /\ ~stuck[n]
  /\ minerPc[n] = "mined"
  /\ mined[n].prev = Tip(n).hash
  /\ \E R \in Reached(n) : InFlight(net \cup {BlockMsg(p, mined[n]) : p \in R})
  /\ broadcast' = [broadcast EXCEPT ![n] = @ \cup {mined[n]}]
  /\ minerPc' = [minerPc EXCEPT ![n] = "sent"]
  /\ UNCHANGED <<peers, nodeVars, mined, received, used, restarts>>

\* Otherwise it looks for a longer chain ending in the block; the walk back
\* never finds its end (no block has an empty previous hash), and the block is
\* dropped.
DropMined(n) ==
  /\ ~stuck[n]
  /\ minerPc[n] = "mined"
  /\ mined[n].prev # Tip(n).hash
  /\ minerPc' = [minerPc EXCEPT ![n] = "idle"]
  /\ mined' = [mined EXCEPT ![n] = NoBlock]
  /\ UNCHANGED <<peers, nodeVars, received, used, broadcast, restarts, net>>

FaultyAddMined(n) ==
  /\ ~stuck[n]
  /\ minerPc[n] = "sent"
  /\ minerPc' = [minerPc EXCEPT ![n] = "idle"]
  /\ mined' = [mined EXCEPT ![n] = NoBlock]
  /\ UNCHANGED <<peers, nodeVars, received, used, broadcast, restarts, net>>

\* Half a second later the mining loop adds its block.
AddMined(n) ==
  /\ ~stuck[n]
  /\ minerPc[n] = "sent"
  /\ AddBlock(n, mined[n])
  /\ \E R \in Reached(n) : InFlight(net \cup RequestsFor(n, mined[n], R))
  /\ minerPc' = [minerPc EXCEPT ![n] = "idle"]
  /\ mined' = [mined EXCEPT ![n] = NoBlock]
  /\ UNCHANGED <<peers, received, used, broadcast, restarts>>
-----------------------------------------------------------------------------
(***************************************************************************)
(* Messages.  Streams are independent, so messages overtake one another.   *)
(***************************************************************************)

\* MessageTypeBlock and MessageTypeSyncResp: a block, of index i, goes to
\* AddBlock.
ReceiveBlock(n, i) ==
  \E m \in net :
    /\ m.type = "block" /\ m.to = n /\ m.block.index = i
    /\ ~stuck[n]
    /\ AddBlock(n, m.block)
    /\ \E R \in Reached(n) :
         InFlight((net \ {m}) \cup RequestsFor(n, m.block, R))
    /\ UNCHANGED <<peers, minerVars, received, used, broadcast, restarts>>

\* SyncChain asks every five seconds for the hundred blocks after the tip.
SyncChain(n) ==
  /\ ~stuck[n]
  /\ \E R \in Reached(n) :
       InFlight(net \cup
         {SyncReq(n, p, Tip(n).index + 1, Tip(n).index + 100) : p \in R})
  /\ UNCHANGED <<peers, nodeVars, minerVars, received, used, broadcast, restarts>>

BlocksOf(n) == {chain[n][i] : i \in DOMAIN chain[n]}

FaultyInRange(n, lo, hi) == {b \in BlocksOf(n) : b.index > lo /\ b.index <= hi}

InRange(n, lo, hi) ==
  {b \in BlocksOf(n) : b.index \in lo .. hi}

\* MessageTypeSyncReq: the blocks in the range go back one by one to the node that
\* asks, over its connection, each of them possibly lost.
AnswerSyncReq(n) ==
  \E m \in net :
    /\ m.type = "syncReq" /\ m.to = n
    /\ ~stuck[n]
    /\ \E S \in (IF Lossy THEN SUBSET InRange(n, m.lo, m.hi)
                          ELSE {InRange(n, m.lo, m.hi)}) :
         InFlight((net \ {m}) \cup {BlockMsg(m.from, b) : b \in S})
    /\ UNCHANGED <<peers, nodeVars, minerVars, received, used, broadcast, restarts>>

\* The process is restarted: NewBlockchain starts again from the genesis block
\* and only the accounts stored in LevelDB come back (loadGlobalState).  Its identity
\* is new (NewNode): it dials whom it can, the others do not reach it any more, and
\* what is still on its way to it, or would be answered to it, is lost.
Restart(n) ==
  /\ n \in Restarting
  /\ restarts < MaxRestarts
  /\ restarts' = restarts + 1
  /\ \E D \in SUBSET (Node \ {n}) :
       peers' = [m \in Node |-> IF m = n THEN D ELSE peers[m] \ {n}]
  /\ net' = {m \in net : m.to # n /\ (m.type = "syncReq" => m.from # n)}
  /\ chain' = [chain EXCEPT ![n] = <<Genesis>>]
  /\ pendingTxs' = [pendingTxs EXCEPT ![n] = <<>>]
  /\ pendingBlocks' = [pendingBlocks EXCEPT ![n] = [i \in Index |-> NoBlock]]
  /\ stuck' = [stuck EXCEPT ![n] = FALSE]
  /\ applied' = [applied EXCEPT ![n] = <<>>]
  /\ reported' = [reported EXCEPT ![n] = {}]
  /\ minerPc' = [minerPc EXCEPT ![n] = "idle"]
  /\ mined' = [mined EXCEPT ![n] = NoBlock]
  /\ UNCHANGED <<stored, received, used, broadcast>>

Next ==
  \E n \in Node :
    \/ \E t \in Tx : ReceiveTx(n, t)
    \/ MiningTick(n)
    \/ MineBlock(n)
    \/ BroadcastBlock(n)
    \/ DropMined(n)
    \/ AddMined(n)
    \/ \E i \in Index : ReceiveBlock(n, i)
    \/ SyncChain(n)
    \/ AnswerSyncReq(n)
    \/ Restart(n)

Spec == Init /\ [][Next]_vars

\* The mining loop is a goroutine that always runs again, and every stream is
\* served by a goroutine of its own, hence one condition per index.  A ticker
\* repeats the sync request for ever and every answer is one more try, so the
\* steps that send are strongly fair in the form where nothing is lost.  The
\* genesis block is never asked for.
MiningStep(n) ==
  MiningTick(n) \/ MineBlock(n) \/ BroadcastBlock(n) \/ DropMined(n) \/ AddMined(n)

SyncChainReaches(n) ==
  SyncChain(n) /\ \A p \in peers[n] :
    SyncReq(n, p, Tip(n).index + 1, Tip(n).index + 100) \in net'

AnswerReaches(n, p) ==
  /\ AnswerSyncReq(n)
  /\ \E m \in net \ net' :
       /\ m.type = "syncReq" /\ m.to = n /\ m.from = p
       /\ \A b \in InRange(n, m.lo, m.hi) : BlockMsg(p, b) \in net'

Fairness ==
  /\ \A n \in Gateway : WF_vars(MiningStep(n))
  /\ \A n \in Node :
       /\ \A i \in Index \ {0} : WF_vars(ReceiveBlock(n, i))
       /\ SF_vars(SyncChainReaches(n))
       /\ \A p \in Node \ {n} : SF_vars(AnswerReaches(n, p))

FairSpec == Spec /\ Fairness
-----------------------------------------------------------------------------
(***************************************************************************)
(* Properties.                                                             *)
(***************************************************************************)

\* The types of the state of a node, and of the whole system.
NodeTypeOK ==
  /\ chain \in [Node -> Seq(Block) \ {<<>>}]
  /\ pendingTxs \in [Node -> Seq(Tx)]
  /\ pendingBlocks \in [Node -> [Index -> Block \cup {NoBlock}]]
  /\ stuck \in [Node -> BOOLEAN]
  /\ applied \in [Node -> Seq(Block)]
  /\ stored \in [Node -> Seq(Block)]
  /\ reported \in [Node -> SUBSET (Hash \cup {0})]

\* Type invariant; the mining loop holds a block from MineBlock to AddBlock.
TypeOK ==
  /\ NodeTypeOK
  /\ peers \in [Node -> SUBSET Node]
  /\ minerPc \in [Node -> {"idle", "tick", "mined", "sent"}]
  /\ mined \in [Node -> Block \cup {NoBlock}]
  /\ \A n \in Node : minerPc[n] \in {"mined", "sent"} => mined[n] # NoBlock
  /\ received \in [Node -> SUBSET Tx]
  /\ used \subseteq Hash
  /\ broadcast \in [Node -> SUBSET Block]
  /\ restarts \in 0 .. MaxRestarts
  /\ net \subseteq Message

\* Whatever AddBlock appends, drains from its queue or switches to, the blocks a
\* node holds form one chain: each names the hash of the one before it and has
\* the next index (blockchain.go, AddBlock and reorganizeToFork).
ChainLinked ==
  \A n \in Node : \A i \in 1 .. Len(chain[n]) - 1 :
    /\ chain[n][i + 1].prev = chain[n][i].hash
    /\ chain[n][i + 1].index = chain[n][i].index + 1

\* A queued block is always beyond the next index: the drain loop of AddBlock
\* leaves no entry behind that the chain has reached.
QueueAhead ==
  \A n \in Node : \A i \in Index :
    pendingBlocks[n][i] # NoBlock =>
      pendingBlocks[n][i].index = i /\ i > Tip(n).index + 1

\* A node executes the transactions of at most one block per height and never
\* goes back to a lower height, across forks, queued blocks and its own blocks.
AppliedInOrder ==
  \A n \in Node : \A i, j \in 1 .. Len(applied[n]) :
    i < j => applied[n][i].index < applied[n][j].index

\* What is to decide between siblings: more stake, or as much and a smaller hash.
Outranks(b, other) ==
  b.stake > other.stake \/ (b.stake = other.stake /\ b.hash < other.hash)

\* The tip of n does not get worse: it stays, moves up, or is swapped for a better
\* sibling.
TipStep(n) ==
  \/ Tip(n)' = Tip(n)
  \/ Tip(n)'.index > Tip(n).index
  \/ Sibling(Tip(n)', Tip(n)) /\ Outranks(Tip(n)', Tip(n))

\* No step of a node makes its tip worse, whatever AddBlock is handed and in
\* whatever order; only a restart does.
TipImproves == [][restarts' = restarts => \A n \in Node : TipStep(n)]_vars

\* One node mines and is never restarted.
OneMiner == \E g \in Node : Gateway = {g} /\ g \notin Restarting

\* Then the nodes never disagree, though messages are lost or overtaken and the others
\* start anew from the genesis block: all chains are beginnings of one, nobody is ahead
\* of the miner but by the block on its way, what a node has executed is on its chain,
\* and nobody meets the fork that makes handleFork wait for the lock its caller holds.
ReplicasAgree ==
  OneMiner => \A n \in Node :
    /\ \A m \in Node : \A i \in 1 .. Len(chain[n]) :
         i <= Len(chain[m]) => chain[n][i] = chain[m][i]
    /\ \A g \in Gateway : Len(chain[n]) <= Len(chain[g]) + 1
    /\ \A i \in 1 .. Len(applied[n]) :
         \E j \in 1 .. Len(chain[n]) : chain[n][j] = applied[n][i]
    /\ ~stuck[n]

\* With one mining node that keeps running every node that stays connected to it by a
\* connection of its own ends up with that node's chain, whatever is lost or overtaken
\* on the way and though it may have started anew from the genesis block: SyncChain,
\* the queue of future blocks and its drain loop close every gap.  A node the miner
\* dialled asks nobody, and what it misses once it misses for ever.
CatchUp ==
  \A n \in Node, g \in Gateway : <>[](g \in peers[n]) => <>[](chain[n] = chain[g])

\* When no send is lost and no node was restarted, a node that the only other one has
\* dialled does not stay on the worse of two sibling tips: once no block is on its way
\* and both mining loops are idle, the stake and hash comparison of AddBlock has moved
\* it to the better one (unless one is stuck).  The node that dialled it may stay on the
\* worse one for ever, as it hears of no sibling of its tip; and with a third node so
\* may the dialled one, as AddBlock throws away a next block that overtook its parent.
ForkChoiceSettles ==
  \A n, m \in Node :
    /\ Node = {n, m} /\ m \in peers[n]
    /\ ~Lossy /\ restarts = 0
    /\ \A msg \in net : msg.type # "block"
    /\ minerPc[n] = "idle" /\ minerPc[m] = "idle"
    /\ ~stuck[n] /\ ~stuck[m]
    => ~(Sibling(Tip(n), Tip(m)) /\ Outranks(Tip(n), Tip(m)))
=============================================================================
