---------------------------- MODULE EventIntake ----------------------------
(***************************************************************************)
(* How the bridge SDK takes in events of other chains: the two listeners   *)
(* with their channels (listeners.go), the replay protection with its      *)
(* BoltDB, its cache and its clean-up (replay_protection.go), and the      *)
(* recovery of events whose handler failed (event_recovery.go).            *)
(*                                                                         *)
(* A transaction is seen on one chain only and an event is a transaction   *)
(* with the second it was detected in: GenerateEventHash covers both, and  *)
(* the other fields follow from the transaction.  Each listener handles    *)
(* its events in one goroutine; the recovery has a worker and a sweep.     *)
(* All but the database is lost when the process stops.                    *)
(*                                                                         *)
(* The retry queue and the dead letter queue are left out: their workers   *)
(* take an event, write a line of log and forget it.                       *)
(***************************************************************************)
EXTENDS Integers, Sequences, FiniteSets, Totals

CONSTANTS
  Listener,      \* the Ethereum and the Solana listener
  Tx,            \* transactions of the other chains
  ListenerOf,    \* the listener that sees a transaction
  Window,        \* the age an event may have: 24 hours
  MaxAge,        \* the age from which the clean-up deletes records
  MaxCache,      \* maxCacheSize, 10 000
  ChanCap,       \* capacity of a listener's channel, 100
  RecoveryCap,   \* capacity of the recovery queue, 1000
  NoTx,          \* the event of an idle goroutine and of an empty map entry
  MaxRetries,    \* retries after the first call of the handler, 5
  MaxTime,       \* bound on the clock
  MaxDetections, \* bound on detections
  MaxFaults,     \* bound on failed writes to the database and failed calls of the handler
  MaxRestarts    \* bound on restarts

\* Nothing in the code compares the age given to CleanupOldEvents with the
\* 24 hours of ValidateEventIntegrity; the example's default is seven days.
ASSUME IntakeAssumption ==
  /\ ListenerOf \in [Tx -> Listener]
  /\ Window \in Nat /\ MaxAge \in Nat /\ MaxAge >= Window
  /\ MaxCache \in Nat \ {0} /\ ChanCap \in Nat \ {0} /\ RecoveryCap \in Nat \ {0}
  /\ MaxRetries \in Nat /\ MaxTime \in Nat /\ MaxDetections \in Nat /\ MaxFaults \in Nat /\ MaxRestarts \in Nat
  /\ NoTx \notin Tx

Event == [tx : Tx, ts : Nat]
NoEvent == [tx |-> NoTx, ts |-> 0]
EventRecord == [event : Event, at : Nat]

VARIABLES
  now,        \* the clock
  detections, \* history: detections so far
  eventChan,  \* eventChan of each listener
  job,        \* what processEvents of each listener does with which event
  db,         \* the events bucket
  cache,      \* rp.cache
  failed,     \* ers.failedEvents, which has one place per transaction
  queue,      \* ers.recoveryQueue
  worker,     \* the event recoveryWorker has relayed but not yet removed
  handled,    \* history: how often the listener called the handler with an event
  refused,    \* history: how often the handler failed
  missed,     \* history: how often an event could not be recorded
  recovered,  \* history: events the recovery gave to the handler, however often
  restarts    \* history: restarts so far

history == <<handled, refused, missed>>
intake == <<now, detections, eventChan, job, db, cache, history>>
recovery == <<failed, queue, worker, recovered>>
vars == <<intake, recovery, restarts>>

Idle == [pc |-> "idle", event |-> NoEvent, tries |-> 0]
Never == [t \in Tx |-> [s \in 0 .. MaxTime |-> 0]]
Faults == Total([t \in Tx |-> Total(missed[t]) + Total(refused[t])])

Init ==
  /\ now = 0 /\ detections = 0
  /\ eventChan = [l \in Listener |-> <<>>]
  /\ job = [l \in Listener |-> Idle]
  /\ db = {} /\ cache = {}
  /\ failed = [t \in Tx |-> NoEvent]
  /\ queue = <<>> /\ worker = NoEvent
  /\ handled = Never /\ refused = Never /\ missed = Never
  /\ recovered = {} /\ restarts = 0

Tick ==
  /\ now < MaxTime
  /\ now' = now + 1
  /\ UNCHANGED <<detections, eventChan, job, db, cache, history, recovery, restarts>>

\* handleTransaction: the node of the other chain may report a transaction
\* more than once, also within one second.  An event that finds the channel
\* full is dropped.
Detect(t) ==
  LET l == ListenerOf[t] IN
  /\ detections < MaxDetections
  /\ detections' = detections + 1
  /\ Len(eventChan[l]) < ChanCap
  /\ eventChan' = [eventChan EXCEPT ![l] = Append(@, [tx |-> t, ts |-> now])]
  /\ UNCHANGED <<now, job, db, cache, history, recovery, restarts>>

\* ValidateEventIntegrity.  Timestamps come from this clock, none is ahead.
TooOld(e) == e.ts < now - Window

RecordsOf(set, e) == {r \in set : r.event = e}

\* evictOldestFromCache: what may be left of a full cache when a quarter of it
\* has gone, the entries recorded first; at least one goes.
Kept ==
  IF Cardinality(cache) < MaxCache THEN {cache}
  ELSE LET n == Cardinality(cache) \div 4
           gone == {s \in SUBSET cache :
                      /\ Cardinality(s) = IF n < 1 THEN 1 ELSE n
                      /\ \A r \in s, q \in cache \ s : r.at <= q.at}
       IN  {cache \ s : s \in gone}

addToCache(r) ==
  \E kept \in Kept : cache' = {q \in kept : q.event # r.event} \cup {r}

FaultyIsEventProcessed(e) == RecordsOf(cache, e) # {}

IsEventProcessed(e) == RecordsOf(cache \cup db, e) # {}

\* processEvents takes an event, validates it and looks it up.  What the
\* database knows and the cache does not goes into the cache.
Take(l) ==
  LET e == Head(eventChan[l]) IN
  /\ job[l].pc = "idle" /\ eventChan[l] # <<>>
  /\ eventChan' = [eventChan EXCEPT ![l] = Tail(@)]
  /\ IF TooOld(e) \/ IsEventProcessed(e)
       THEN job' = job
       ELSE job' = [job EXCEPT ![l] = [pc |-> "record", event |-> e, tries |-> 0]]
  /\ IF ~TooOld(e) /\ RecordsOf(cache, e) = {} /\ RecordsOf(db, e) # {}
       THEN \E r \in RecordsOf(db, e) : addToCache(r)
       ELSE cache' = cache
  /\ UNCHANGED <<now, detections, db, history, recovery, restarts>>

\* RecordEvent looks the event up again and writes the record and both indexes
\* in one database transaction.  When that fails, processEvents goes on with
\* the event all the same, however often it failed for this event before.
RecordEvent(l) ==
  LET e == job[l].event
      r == [event |-> e, at |-> now]
  IN
  /\ job[l].pc = "record"
  /\ job' = [job EXCEPT ![l].pc = "handle"]
  /\ \/ /\ ~IsEventProcessed(e)
        /\ db' = db \cup {r}
        /\ addToCache(r)
        /\ missed' = missed
     \/ /\ Faults < MaxFaults
        /\ missed' = [missed EXCEPT ![e.tx][e.ts] = @ + 1]
        /\ UNCHANGED <<db, cache>>
  /\ UNCHANGED <<now, detections, eventChan, handled, refused, recovery, restarts>>

AddFailedEvent(e) ==
  /\ failed' = [failed EXCEPT ![e.tx] = e]
  /\ queue' = IF Len(queue) < RecoveryCap THEN Append(queue, e) ELSE queue

\* An attempt of WithRetry: the handler takes the event or fails.  The relay's
\* own HandleEvent never fails; the exported constructors take any EventHandler.
\* The wait for the next attempt ends early when a shutdown has cancelled the
\* error handler's context.  No breaker opens for this operation.
HandleEvent(l) ==
  LET e == job[l].event IN
  /\ job[l].pc = "handle"
  /\ handled' = [handled EXCEPT ![e.tx][e.ts] = @ + 1]
  /\ \/ /\ job' = [job EXCEPT ![l] = Idle]
        /\ UNCHANGED <<refused, failed, queue>>
     \/ /\ Faults < MaxFaults
        /\ refused' = [refused EXCEPT ![e.tx][e.ts] = @ + 1]
        /\ \/ /\ job[l].tries < MaxRetries
              /\ job' = [job EXCEPT ![l].tries = @ + 1]
              /\ UNCHANGED <<failed, queue>>
           \/ /\ job' = [job EXCEPT ![l] = Idle]
              /\ AddFailedEvent(e)
  /\ UNCHANGED <<now, detections, eventChan, db, cache, missed, worker, recovered, restarts>>

\* processRecoveryEvent: directRelayStrategy gives the event to the relay, the
\* handler the SDK's listeners have, which takes it at the first attempt.
RelayFailedEvent ==
  /\ worker = NoEvent /\ queue # <<>>
  /\ worker' = Head(queue)
  /\ queue' = Tail(queue)
  /\ recovered' = recovered \cup {Head(queue)}
  /\ UNCHANGED <<intake, failed, restarts>>

\* removeFailedEvent: by transaction, whichever event of it is in the map.
removeFailedEvent ==
  /\ worker # NoEvent
  /\ failed' = [failed EXCEPT ![worker.tx] = NoEvent]
  /\ worker' = NoEvent
  /\ UNCHANGED <<intake, queue, recovered, restarts>>

FaultyQueueAgain(t) ==
  /\ failed[t] # NoEvent
  /\ Len(queue) < RecoveryCap - 1
  /\ queue' = Append(queue, failed[t])
  /\ UNCHANGED <<intake, failed, worker, recovered, restarts>>

\* runPeriodicRecovery queues the failed events again for which there is room,
\* be they queued already or in the hands of the worker; one it finds younger
\* than ten seconds waits for the next round.
QueueAgain(t) ==
  /\ failed[t] # NoEvent
  /\ Len(queue) < RecoveryCap
  /\ queue' = Append(queue, failed[t])
  /\ UNCHANGED <<intake, failed, worker, recovered, restarts>>

\* ForceRecoveryAll removes the events of the map one by one and relays none.
ForceRecovery(t) ==
  /\ failed[t] # NoEvent
  /\ failed' = [failed EXCEPT ![t] = NoEvent]
  /\ UNCHANGED <<intake, queue, worker, recovered, restarts>>

Expired == {r \in db : r.at < now - MaxAge}

CleanupOldEvents ==
  /\ Expired # {}
  /\ db' = db \ Expired
  /\ cache' = {r \in cache : RecordsOf(Expired, r.event) = {}}
  /\ UNCHANGED <<now, detections, eventChan, job, history, recovery, restarts>>

\* loadRecentEventsToCache: in the order of the hashes, until the cache is full.
Loadable ==
  LET recent == {r \in db : r.at > now - Window}
  IN  {s \in SUBSET recent : Cardinality(s) <= MaxCache
                              /\ (Cardinality(s) = MaxCache \/ s = recent)}

\* The process stops, at any point of its goroutines, and starts anew.
Restart ==
  /\ restarts < MaxRestarts
  /\ restarts' = restarts + 1
  /\ eventChan' = [l \in Listener |-> <<>>]
  /\ job' = [l \in Listener |-> Idle]
  /\ cache' \in Loadable
  /\ failed' = [t \in Tx |-> NoEvent]
  /\ queue' = <<>> /\ worker' = NoEvent
  /\ UNCHANGED <<now, detections, db, history, recovered>>

Next ==
  \/ Tick
  \/ \E t \in Tx : Detect(t) \/ QueueAgain(t) \/ ForceRecovery(t)
  \/ \E l \in Listener : Take(l) \/ RecordEvent(l) \/ HandleEvent(l)
  \/ RelayFailedEvent \/ removeFailedEvent
  \/ CleanupOldEvents
  \/ Restart

Spec == Init /\ [][Next]_vars

\* The recovery's worker and its ticker run for as long as the process does.
FairSpec ==
  /\ Spec
  /\ WF_vars(RelayFailedEvent) /\ WF_vars(removeFailedEvent)
  /\ \A t \in Tx : WF_vars(QueueAgain(t))

-----------------------------------------------------------------------------
\* Events, records and counters are well formed, and neither the cache nor a
\* queue ever holds more than its capacity, though two listeners fill the cache.
TypeOK ==
  /\ now \in 0 .. MaxTime /\ detections \in Nat
  /\ \A l \in Listener : eventChan[l] \in Seq(Event) /\ Len(eventChan[l]) <= ChanCap
  /\ \A l \in Listener : \/ job[l] = Idle
                         \/ job[l] \in [pc : {"record", "handle"}, event : Event, tries : 0 .. MaxRetries]
  /\ db \subseteq EventRecord /\ cache \subseteq EventRecord
  /\ Cardinality(cache) <= MaxCache
  /\ failed \in [Tx -> Event \cup {NoEvent}]
  /\ queue \in Seq(Event) /\ Len(queue) <= RecoveryCap
  /\ worker \in Event \cup {NoEvent}
  /\ \A count \in {handled, refused, missed} : count \in [Tx -> [0 .. MaxTime -> Nat]]
  /\ recovered \subseteq Event

\* Replay protection: an event is handled once, whatever is evicted, deleted or
\* forgotten in a restart, and once more for each time the database failed to
\* record it.  To handle it once takes as many calls as the retries allow, all
\* but the last of which fail.  The recovery gives the handler only what the
\* handler failed with and, unless a record failed, has never taken.
HandledOnce ==
  \A t \in Tx, s \in 0 .. MaxTime :
    /\ handled[t][s] <= 1 + missed[t][s] + refused[t][s]
    /\ handled[t][s] <= (MaxRetries + 1) * (1 + missed[t][s])
    /\ [tx |-> t, ts |-> s] \in recovered =>
         0 < refused[t][s] /\ handled[t][s] <= missed[t][s] + refused[t][s]

\* Recovery: no failed event stays in the map of failed events for ever, though
\* the queue was full when it came, or a later event of its transaction took
\* its place.
FailedRelayed ==
  \A t \in Tx : failed[t] # NoEvent ~> failed[t] = NoEvent
=============================================================================
