----------------------------- MODULE NodeLocks -----------------------------
(***************************************************************************)
(* The locks of one node and the goroutines that take them: the mining     *)
(* loop, the P2P stream handlers, the HTTP handlers and the monitor of     *)
(* validator performance.  What a call reads and writes is abstracted      *)
(* away; a call is the sequence of lock operations it performs, and one    *)
(* sequence per path through it.                                           *)
(*                                                                         *)
(* A lock is a sync.RWMutex.  Writers queue on its inner mutex; the one    *)
(* that gets it announces itself, and from then on new readers wait, while *)
(* the writer waits for the readers that are inside.  When the writer      *)
(* unlocks, all the waiting readers are inside at once.                    *)
(***************************************************************************)
EXTENDS Integers, Sequences, FiniteSets

CONSTANTS
  Miner,       \* goroutines of the mining loop
  Stream,      \* goroutines of the P2P stream handlers
  Api,         \* goroutines of the HTTP handlers
  Monitor,     \* goroutines of MonitorValidatorPerformance
  Forks,       \* TRUE when blocks on another parent arrive (handleFork)
  Executing,   \* TRUE when slashing events of validators with stake are executed
  Reporting,   \* TRUE when the monitor finds a validator down long enough
  NoThread     \* no goroutine

Thread == Miner \cup Stream \cup Api \cup Monitor

\* bc: Blockchain.mu, slashing: SlashingManager.mu, stakes: StakeLedger.mu,
\* token: Token.mu of BHX, peers and bad: the two locks of the P2P node.
Lock == {"bc", "slashing", "stakes", "token", "peers", "bad"}

ASSUME LocksAssumption ==
  /\ NoThread \notin Thread
  /\ {Forks, Executing, Reporting} \subseteq BOOLEAN

Op == [do : {"RLock", "RUnlock", "Lock", "Unlock"}, lock : Lock]

Reading(l, body) ==
  <<[do |-> "RLock", lock |-> l]>> \o body \o <<[do |-> "RUnlock", lock |-> l]>>

Writing(l, body) ==
  <<[do |-> "Lock", lock |-> l]>> \o body \o <<[do |-> "Unlock", lock |-> l]>>
-----------------------------------------------------------------------------
(***************************************************************************)
(* The calls.                                                              *)
(***************************************************************************)
GetStake == Reading("stakes", <<>>)
SetStake == Writing("stakes", <<>>)
BalanceOf == Reading("token", <<>>)
Transfer == Writing("token", <<>>)

IsValidatorJailed == Reading("slashing", <<>>)

FaultyReportReadsTip == {Writing("slashing", GetStake \o Reading("bc", <<>>))}

FaultyEarlyReturn == {<<[do |-> "Lock", lock |-> "slashing"]>> \o GetStake}

\* With or without an event at the end, both ways out run the deferred unlock.
ReportViolation == {Writing("slashing", GetStake)}

\* Of a validator with stake countActiveValidators asks IsValidatorJailed, which
\* read-locks the mutex ExecuteSlashing holds.
countActiveValidators == GetStake \o IsValidatorJailed

ExecuteSlashing ==
  {Writing("slashing", <<>>), Writing("slashing", GetStake)}
    \cup IF Executing
         THEN {Writing("slashing",
                 GetStake \o countActiveValidators \o SetStake \o Transfer)}
         ELSE {}

\* The only condition a node reports by itself in this way is InvalidBlock,
\* which is never critical: nothing is executed.
AutoSlash == ReportViolation

GetLatestBlock == Reading("bc", <<>>)

\* One validator: skipped when jailed or up, or reported with the height of the
\* latest block, which is read under the lock the loop already holds.
checkValidatorDowntime ==
  {Reading("bc", GetStake \o IsValidatorJailed)}
    \cup IF Reporting
         THEN {Reading("bc", GetStake \o IsValidatorJailed \o GetLatestBlock \o r)
                 : r \in ReportViolation}
         ELSE {}

\* What executing the transactions of a block may lock: nothing, a transfer, a
\* deposit, a withdrawal.
ApplyTransaction ==
  {<<>>, Transfer, Transfer \o SetStake, GetStake \o Transfer \o SetStake}

\* requestMissingBlocks broadcasts with the chain locked.
Broadcast == Reading("peers", <<>>)

handleFork == Writing("bc", GetLatestBlock)

AddBlock ==
  {Writing("bc", <<>>), Writing("bc", Broadcast)}
    \cup {Writing("bc", r) : r \in AutoSlash}
    \cup {Writing("bc", a) : a \in ApplyTransaction}
    \cup {Writing("bc", a \o r) : a \in ApplyTransaction, r \in ReportViolation}
    \cup IF Forks THEN {handleFork} ELSE {}

\* A peer that sends three bad blocks is dropped while its count is locked.
DropPeer == Writing("bad", Writing("peers", <<>>))

handleStream ==
  AddBlock \cup {GetLatestBlock, Writing("bc", <<>>), Writing("bad", <<>>), DropPeer}

\* SelectValidator, MineBlock, ValidateBlock, the broadcast, AddBlock and then
\* the reward, each with the lock of its own.
miningLoop ==
  AddBlock \cup {GetLatestBlock, GetStake, Reading("bc", GetStake), Broadcast,
                 Transfer, SetStake}

\* ProcessTransaction, AddTokenBalance, GetBlockchainInfo and the slashing API.
ApiCalls ==
  {Writing("bc", BalanceOf), Writing("bc", Transfer), IsValidatorJailed,
   Reading("bc", BalanceOf \o GetStake)} \cup ReportViolation \cup ExecuteSlashing

Calls(t) ==
  UNION {IF t \in Miner THEN miningLoop ELSE {},
         IF t \in Stream THEN handleStream ELSE {},
         IF t \in Api THEN ApiCalls ELSE {},
         IF t \in Monitor THEN checkValidatorDowntime ELSE {}}
-----------------------------------------------------------------------------
VARIABLES
  todo,      \* the lock operations left of each goroutine's call
  announced, \* the writer that has the inner mutex of each lock
  writing,   \* the writer that is inside
  reading,   \* how often each goroutine is inside as a reader
  waiting    \* readers queued behind the announced writer

locksVars == <<todo, announced, writing, reading, waiting>>

LocksInit ==
  /\ todo = [t \in Thread |-> <<>>]
  /\ announced = [l \in Lock |-> NoThread]
  /\ writing = [l \in Lock |-> NoThread]
  /\ reading = [l \in Lock |-> [t \in Thread |-> 0]]
  /\ waiting = [l \in Lock |-> {}]

\* The next operation of t is to do d on lock l.
At(t, d, l) == todo[t] # <<>> /\ Head(todo[t]) = [do |-> d, lock |-> l]

\* todo when the goroutines of T have done their next operation.
Done(T) == [t \in Thread |-> IF t \in T THEN Tail(todo[t]) ELSE todo[t]]

Call(t) ==
  /\ todo[t] = <<>>
  /\ \E c \in Calls(t) : todo' = [todo EXCEPT ![t] = c]
  /\ UNCHANGED <<announced, writing, reading, waiting>>

RLock(t, l) ==
  /\ At(t, "RLock", l)
  /\ announced[l] = NoThread
  /\ todo' = Done({t})
  /\ reading' = [reading EXCEPT ![l][t] = @ + 1]
  /\ UNCHANGED <<announced, writing, waiting>>

RWait(t, l) ==
  /\ At(t, "RLock", l)
  /\ announced[l] # NoThread
  /\ t \notin waiting[l]
  /\ waiting' = [waiting EXCEPT ![l] = @ \cup {t}]
  /\ UNCHANGED <<todo, announced, writing, reading>>

RUnlock(t, l) ==
  /\ At(t, "RUnlock", l)
  /\ todo' = Done({t})
  /\ reading' = [reading EXCEPT ![l][t] = @ - 1]
  /\ UNCHANGED <<announced, writing, waiting>>

Announce(t, l) ==
  /\ At(t, "Lock", l)
  /\ announced[l] = NoThread
  /\ announced' = [announced EXCEPT ![l] = t]
  /\ UNCHANGED <<todo, writing, reading, waiting>>

WLock(t, l) ==
  /\ At(t, "Lock", l)
  /\ announced[l] = t /\ writing[l] = NoThread
  /\ \A r \in Thread : reading[l][r] = 0
  /\ todo' = Done({t})
  /\ writing' = [writing EXCEPT ![l] = t]
  /\ UNCHANGED <<announced, reading, waiting>>

Unlock(t, l) ==
  /\ At(t, "Unlock", l)
  /\ writing' = [writing EXCEPT ![l] = NoThread]
  /\ announced' = [announced EXCEPT ![l] = NoThread]
  /\ todo' = Done({t} \cup waiting[l])
  /\ reading' = [reading EXCEPT ![l] =
       [r \in Thread |-> @[r] + (IF r \in waiting[l] THEN 1 ELSE 0)]]
  /\ waiting' = [waiting EXCEPT ![l] = {}]

Step(t) ==
  /\ todo[t] # <<>>
  /\ LET l == Head(todo[t]).lock IN
       \/ RLock(t, l) \/ RWait(t, l) \/ RUnlock(t, l)
       \/ Announce(t, l) \/ WLock(t, l) \/ Unlock(t, l)

LocksNext == \E t \in Thread : Call(t) \/ Step(t)

LocksSpec == LocksInit /\ [][LocksNext]_locksVars

\* A goroutine that can go on does, and the inner mutex does not starve the
\* writers queued on it.
LocksFairness ==
  \A t \in Thread :
    WF_locksVars(Step(t)) /\ SF_locksVars(\E l \in Lock : Announce(t, l))

LocksFairSpec == LocksSpec /\ LocksFairness
-----------------------------------------------------------------------------
(***************************************************************************)
(* Properties.                                                             *)
(***************************************************************************)

\* Type invariant; readers wait only behind a writer, and a writer is inside
\* alone.
LocksTypeOK ==
  /\ todo \in [Thread -> Seq(Op)]
  /\ announced \in [Lock -> Thread \cup {NoThread}]
  /\ \A l \in Lock : writing[l] \in {announced[l], NoThread}
  /\ reading \in [Lock -> [Thread -> Nat]]
  /\ waiting \in [Lock -> SUBSET Thread]
  /\ \A l \in Lock : announced[l] = NoThread => waiting[l] = {}
  /\ \A l \in Lock : writing[l] # NoThread => \A t \in Thread : reading[l][t] = 0

\* The goroutines that keep t from its next operation.
WaitsFor(t) ==
  IF todo[t] = <<>> THEN {}
  ELSE LET d == Head(todo[t]).do
           l == Head(todo[t]).lock
       IN  IF d \notin {"RLock", "Lock"} THEN {}
           ELSE IF announced[l] # t THEN {announced[l]} \ {NoThread}
           ELSE ({writing[l]} \ {NoThread}) \cup {r \in Thread : reading[l][r] > 0}

\* t asks for a lock it is already inside of.
Relocks(t) ==
  \E l \in Lock : (At(t, "RLock", l) \/ At(t, "Lock", l))
                    /\ (reading[l][t] > 0 \/ writing[l] = t)

\* Whenever goroutines wait for one another in a circle, one of them asks for a
\* lock it already holds: the calls take Blockchain.mu, SlashingManager.mu and
\* the others in one order, and no two of them lock each other out.
DeadlockNeedsRelock ==
  LET waits == [t \in Thread |-> WaitsFor(t)] IN
  \A T \in (SUBSET {t \in Thread : waits[t] # {}}) \ {{}} :
    (\A t \in T : waits[t] \cap T # {}) => \E t \in T : Relocks(t)

\* Every call comes to its end, unless some goroutine waits in a lock it already
\* holds: handleFork, ExecuteSlashing of a validator with stake, or
\* checkValidatorDowntime with something to report and a block to be added.
\* Nothing else in blockchain.go, slashing_manager.go and p2p.go keeps a caller
\* waiting for ever.
CallsReturn ==
  \A t \in Thread :
    todo[t] # <<>> ~> \/ todo[t] = <<>>
                      \/ \E r \in Thread : Relocks(r) /\ WaitsFor(r) # {}
=============================================================================
