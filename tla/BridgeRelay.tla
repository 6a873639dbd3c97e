---------------------------- MODULE BridgeRelay ----------------------------
(***************************************************************************)
(* The relay of the bridge SDK (relay.go) on top of the bridge: relay      *)
(* transactions made from events and relayed by a goroutine each, relays   *)
(* asked for through the SDK, the retries of both and the circuit breaker  *)
(* they share (error_handler.go).                                          *)
(*                                                                         *)
(* A panic is recovered, as in DefaultConfig.  Every critical section is a *)
(* step: the breaker's check, the relay's body, the breaker's record.      *)
(***************************************************************************)
EXTENDS Bridge

CONSTANTS
  Relay,         \* relay transactions
  Events,        \* events: source chain and sender
  Manual,        \* calls of BridgeSDK.RelayToChain
  Targets,       \* the chains these calls relay to
  Local,         \* transfers that other callers of the bridge ask for
  MaxLocal,      \* bound: they ask while there are fewer transfers than this
  MaxRetries,    \* retries after the first attempt, 5
  Threshold,     \* failures that open the breaker, 20
  Successes,     \* successes that close it when half open, 3
  MaxFailures    \* bound on the failures counted

ASSUME RelayAssumption ==
  /\ MaxRetries \in Nat /\ Threshold \in Nat \ {0} /\ Successes \in Nat \ {0}
  /\ MaxFailures \in Nat /\ MaxLocal \in Nat /\ Targets \subseteq Chains
  /\ Events \subseteq [source : {"ethereum", "solana"}, from : User]
  /\ Local \subseteq [source : Chains, dest : Chains, from : User, to : User, amount : Nat]
  /\ Relay \cap Manual = {}
  /\ "local" \in Requester /\ Relay \cup Manual \subseteq Requester \ {"local"}

VARIABLES
  relays,    \* br.transactions
  job,       \* the goroutine of a relay transaction, or a caller of the SDK
  breaker,   \* the breaker of "bridge-relay-operation"
  opened     \* history: whether the breaker has ever opened

vars == <<bridge, relays, job, breaker, opened>>

Job == Relay \cup Manual

Status == {"none", "pending", "relaying", "failed", "confirmed", "completed"}

RelayTransaction ==
  [status : Status, source : {"ethereum", "solana"}, from : User]

NoTransaction == [status |-> "none"]

Closed == [state |-> "closed", failures |-> 0, successes |-> 0, cool |-> FALSE]

Init ==
  /\ BridgeInit
  /\ relays = [r \in Relay |-> NoTransaction]
  /\ job = [j \in Job |-> [pc |-> "idle"]]
  /\ breaker = Closed
  /\ opened = FALSE

Working(r, dest) == [pc |-> "check", relay |-> r, dest |-> dest, attempt |-> 0, round |-> 0]

\* HandleEvent; the destination is Blackhole.  Nobody is paid there in the end
\* (bETH and bSOL are unknown), so the receiver is left out.
HandleEvent(r, e) ==
  /\ relays[r] = NoTransaction
  /\ relays' = [relays EXCEPT ![r] =
       [status |-> "pending", source |-> e.source, from |-> e.from]]
  /\ job' = [job EXCEPT ![r] = Working(r, "blackhole")]
  /\ UNCHANGED <<bridge, breaker, opened>>

\* BridgeSDK.RelayToChain: works on a copy of the relay transaction.
RelayToChain(m, r, dest) ==
  /\ job[m].pc = "idle" /\ relays[r] # NoTransaction
  /\ job' = [job EXCEPT ![m] = Working(r, dest)]
  /\ UNCHANGED <<bridge, relays, breaker, opened>>

FaultySetStatus(j, status) == relays' = [relays EXCEPT ![job[j].relay].status = status]

\* The status of the stored transaction: a caller of the SDK has a copy.
SetStatus(j, status) ==
  relays' = IF j \in Relay THEN [relays EXCEPT ![j].status = status] ELSE relays

FaultyRoundFails(j) == job' = [job EXCEPT ![j].pc = "done"]

\* All attempts of WithRetry("bridge-relay-operation") have failed, or the
\* breaker is open.  processRelay has its own WithRetry around it.
RoundFails(j) ==
  IF j \in Relay /\ job[j].round < MaxRetries
    THEN job' = [job EXCEPT ![j].pc = "check", ![j].attempt = 0, ![j].round = @ + 1]
    ELSE job' = [job EXCEPT ![j].pc = IF j \in Relay THEN "give up" ELSE "done"]

\* isCircuitOpen.
CheckBreaker(j) ==
  /\ job[j].pc = "check"
  /\ \/ /\ breaker.state # "open"
        /\ job' = [job EXCEPT ![j].pc = "attempt"]
        /\ breaker' = breaker
     \/ /\ breaker.state = "open" /\ breaker.cool
        /\ job' = [job EXCEPT ![j].pc = "attempt"]
        /\ breaker' = [breaker EXCEPT !.state = "half-open", !.successes = 0]
     \/ /\ breaker.state = "open" /\ ~breaker.cool
        /\ RoundFails(j)
        /\ breaker' = breaker
  /\ UNCHANGED <<bridge, relays, opened>>

\* The ten seconds after the breaker has opened are over.
CoolDown ==
  /\ breaker.state = "open" /\ ~breaker.cool
  /\ breaker' = [breaker EXCEPT !.cool = TRUE]
  /\ UNCHANGED <<bridge, relays, job, opened>>

TokenOf(r) == IF relays[r].source = "ethereum" THEN "ETH" ELSE "SOL"

\* The body of RelayToChain, under the relay's lock.  A transaction of Solana
\* is confirmed without the bridge; a panic ends WithRetry without a record and
\* RelayToChain without an error.
Attempt(j) ==
  LET r == job[j].relay
      tx == relays[r]
      outcome(pc, status) == job' = [job EXCEPT ![j].pc = pc] /\ SetStatus(j, status)
  IN
  /\ job[j].pc = "attempt"
  /\ \/ /\ tx.source = "solana"
        /\ outcome("succeeded", "confirmed")
        /\ UNCHANGED bridge
     \/ /\ tx.source # "solana"
        /\ InitiateBridgeTransfer(tx.source, job[j].dest, tx.from, tx.from, TokenOf(r), 1, j)
        /\ outcome("succeeded", "confirmed")
     \/ /\ tx.source # "solana"
        /\ Panics(tx.source, job[j].dest, tx.from, TokenOf(r))
        /\ outcome(IF j \in Relay THEN "complete" ELSE "done", "relaying")
        /\ UNCHANGED bridge
     \/ /\ tx.source # "solana"
        /\ ~Supported(tx.source, job[j].dest, TokenOf(r))
        /\ outcome("failed", "failed")
        /\ UNCHANGED bridge
  /\ UNCHANGED <<breaker, opened>>

FaultyRecordSuccess(j) ==
  /\ job[j].pc = "succeeded"
  /\ breaker' = breaker
  /\ RoundFails(j)
  /\ UNCHANGED <<bridge, relays, opened>>

\* A success closes an open breaker at once and a half-open one in the end.
Closes == breaker.state = "open" \/ breaker.successes + 1 >= Successes

\* recordSuccess.  A closed breaker keeps its count of failures.
RecordSuccess(j) ==
  /\ job[j].pc = "succeeded"
  /\ breaker' =
       IF breaker.state = "closed" THEN breaker
       ELSE IF Closes THEN Closed ELSE [breaker EXCEPT !.successes = @ + 1]
  /\ job' = [job EXCEPT ![j].pc = IF j \in Relay THEN "complete" ELSE "done"]
  /\ UNCHANGED <<bridge, relays, opened>>

\* Opens a closed breaker at the threshold; a half-open one stays half open.
Opens == breaker.failures + 1 >= Threshold /\ breaker.state = "closed"

\* recordFailure and the next turn of WithRetry.
RecordFailure(j) ==
  /\ job[j].pc = "failed"
  /\ breaker.failures < MaxFailures
  /\ breaker' = [breaker EXCEPT !.failures = @ + 1,
                                !.state = IF Opens THEN "open" ELSE @,
                                !.cool = IF Opens THEN FALSE ELSE @]
  /\ opened' = (opened \/ Opens)
  /\ IF job[j].attempt < MaxRetries
       THEN job' = [job EXCEPT ![j].pc = "check", ![j].attempt = @ + 1]
       ELSE RoundFails(j)
  /\ UNCHANGED <<bridge, relays>>

\* The two ends of processRelay.
processRelay(j) ==
  /\ \/ job[j].pc = "complete" /\ SetStatus(j, "completed")
     \/ job[j].pc = "give up" /\ SetStatus(j, "failed")
  /\ job' = [job EXCEPT ![j].pc = "done"]
  /\ UNCHANGED <<bridge, breaker, opened>>

JobStep(j) ==
  \/ CheckBreaker(j) \/ Attempt(j) \/ RecordSuccess(j) \/ RecordFailure(j)
  \/ processRelay(j)

\* Another caller of the bridge, such as the cross-chain DEX.
LocalCall(c) ==
  /\ Len(transfers) < MaxLocal
  /\ InitiateBridgeTransfer(c.source, c.dest, c.from, c.to, "BHX", c.amount, "local")
  /\ UNCHANGED <<relays, job, breaker, opened>>

Next ==
  \/ \E r \in Relay, e \in Events : HandleEvent(r, e)
  \/ \E m \in Manual, r \in Relay, dest \in Targets : RelayToChain(m, r, dest)
  \/ \E j \in Job : JobStep(j)
  \/ CoolDown
  \/ BridgeStep /\ UNCHANGED <<relays, job, breaker, opened>>
  \/ \E c \in Local : LocalCall(c)

Spec == Init /\ [][Next]_vars

\* Goroutines go on; the ten seconds of an open breaker may never end.
FairSpec ==
  /\ Spec
  /\ \A j \in Job : WF_vars(JobStep(j))
  /\ WF_vars(BridgeStep /\ UNCHANGED <<relays, job, breaker, opened>>)

-----------------------------------------------------------------------------
JobState ==
  [pc : {"idle"}]
    \cup [pc : {"check", "attempt", "succeeded", "failed", "complete", "give up", "done"},
          relay : Relay, dest : Chains, attempt : 0 .. MaxRetries, round : 0 .. MaxRetries]

TypeOK ==
  /\ balances \in [Account -> Nat] /\ transfers \in Seq(Transfer)
  /\ relays \in [Relay -> RelayTransaction \cup {NoTransaction}]
  /\ job \in [Job -> JobState]
  /\ \A j \in Job : job[j].pc # "idle" => relays[job[j].relay] # NoTransaction
  /\ breaker \in [state : {"closed", "open", "half-open"}, failures : Nat,
                  successes : 0 .. Successes - 1, cool : BOOLEAN]
  /\ opened \in BOOLEAN

TransfersBy(j) == {i \in DOMAIN transfers : transfers[i].by = j}

\* Two nested retries, a breaker and other callers: still every relay
\* transaction and every call makes at most one bridge transfer, and a relay
\* transaction from Ethereum is completed only if it made one, its sender's
\* address being long enough not to panic.
RelayedOnce ==
  /\ \A j \in Job : Cardinality(TransfersBy(j)) <= 1
  /\ \A r \in Relay :
       /\ relays[r].status = "completed" /\ relays[r].source = "ethereum"
       /\ relays[r].from \notin Short
       => TransfersBy(r) # {}

\* A relay transaction that processRelay has given up failed through no fault
\* of its own: others had opened the breaker.  One with a transfer never fails.
FailedByBreaker ==
  \A r \in Relay :
    relays[r].status = "failed" => opened /\ TransfersBy(r) = {}

\* Every relay transaction ends as completed or failed.
RelaysSettle ==
  \A r \in Relay :
    relays[r].status = "pending" ~> relays[r].status \in {"completed", "failed"}
=============================================================================
