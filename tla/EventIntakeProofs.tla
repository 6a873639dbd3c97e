------------------------- MODULE EventIntakeProofs -------------------------
(***************************************************************************)
(* Replay protection for any number of listeners and transactions, any     *)
(* capacities, and a clean-up that keeps records at least as long as an    *)
(* event may be old; then what a client sees of its transfers.             *)
(*                                                                         *)
(* An event is settled when the database has it or it is too old: then no  *)
(* listener takes it any more. The clean-up only deletes the records of    *)
(* events that are too old, because a record is never younger than its     *)
(* event (Placed). Counted then says how often the handler may have been   *)
(* called with an event, before and while its listener works on it: once   *)
(* per failed record and once when it is settled, each time with retries.  *)
(* A listener ends with an event that was taken or handed to the recovery. *)
(***************************************************************************)
EXTENDS EventIntake, TransferManager, FiniteSetTheorems, TLAPS

BusyJob == [pc : {"record", "handle"}, event : Event, tries : 0 .. MaxRetries]

Typed ==
  /\ now \in 0 .. MaxTime /\ detections \in Nat
  /\ eventChan \in [Listener -> Seq(Event)]
  /\ job \in [Listener -> BusyJob \cup {Idle}]
  /\ db \subseteq EventRecord /\ cache \subseteq db
  /\ failed \in [Tx -> Event \cup {NoEvent}]
  /\ queue \in Seq(Event)
  /\ worker \in Event \cup {NoEvent}
  /\ handled \in [Tx -> [0 .. MaxTime -> Nat]]
  /\ refused \in [Tx -> [0 .. MaxTime -> Nat]]
  /\ missed \in [Tx -> [0 .. MaxTime -> Nat]]
  /\ recovered \subseteq Event

Bounded ==
  /\ \A l \in Listener : Len(eventChan[l]) <= ChanCap
  /\ Len(queue) <= RecoveryCap
  /\ IsFiniteSet(db)
  /\ Cardinality(cache) <= MaxCache

\* Events are where their listener is, and no event or record is from the future.
Placed ==
  /\ \A l \in Listener : \A i \in 1 .. Len(eventChan[l]) :
       /\ ListenerOf[eventChan[l][i].tx] = l
       /\ eventChan[l][i].ts <= now
  /\ \A l \in Listener : job[l].pc # "idle" =>
       /\ ListenerOf[job[l].event.tx] = l
       /\ job[l].event.ts <= now
  /\ \A r \in db : r.event.ts <= r.at /\ r.at <= now

Settled(e) == RecordsOf(db, e) # {} \/ TooOld(e)

Handled(e) == handled[e.tx][e.ts]
Refused(e) == refused[e.tx][e.ts]
Missed(e) == missed[e.tx][e.ts]

\* A listener has handed the event to the recovery.
Given(e) ==
  \/ worker = e \/ e \in recovered
  \/ \E t \in Tx : failed[t] = e
  \/ \E i \in 1 .. Len(queue) : queue[i] = e

Outcomes(e) == Handled(e) - Refused(e) + IF Given(e) THEN 1 ELSE 0
Allowed(e) == Missed(e) + IF Settled(e) THEN 1 ELSE 0
Calls(n) == (MaxRetries + 1) * n

CountedOf(e) ==
  /\ Refused(e) <= Handled(e)
  /\ Given(e) => 0 < Refused(e)
  /\ Outcomes(e) <= Allowed(e) /\ Handled(e) <= Calls(Allowed(e))
  /\ \A l \in Listener : job[l].event = e =>
       /\ job[l].pc = "record" => Outcomes(e) <= Missed(e) /\ Handled(e) <= Calls(Missed(e))
       /\ job[l].pc = "handle" =>
            /\ Outcomes(e) + 1 <= Allowed(e)
            /\ Handled(e) + MaxRetries + 1 - job[l].tries <= Calls(Allowed(e))

SeenEvent == [tx : Tx, ts : 0 .. MaxTime]

Counted == \A e \in SeenEvent : CountedOf(e)

Inv == Typed /\ Bounded /\ Placed /\ Counted

LEMMA NoEventFacts == NoEvent \notin Event /\ Idle \notin BusyJob
BY IntakeAssumption DEF NoEvent, Event, Idle, BusyJob

LEMMA JobFacts ==
  ASSUME Typed, NEW l \in Listener, job[l].pc # "idle"
  PROVE  /\ job[l] \in BusyJob /\ job[l].pc \in {"record", "handle"} /\ job[l].event \in Event
         /\ job[l].tries \in 0 .. MaxRetries
BY DEF Typed, BusyJob, Idle

LEMMA CountType ==
  ASSUME Typed, NEW e \in SeenEvent
  PROVE  /\ Handled(e) \in Nat /\ Refused(e) \in Nat /\ Missed(e) \in Nat
         /\ Allowed(e) = IF Settled(e) THEN Missed(e) + 1 ELSE Missed(e)
         /\ Allowed(e) \in Nat /\ Missed(e) <= Allowed(e)
         /\ Outcomes(e) = IF Given(e) THEN Handled(e) - Refused(e) + 1 ELSE Handled(e) - Refused(e)
<1>1. e.tx \in Tx /\ e.ts \in 0 .. MaxTime
  BY DEF SeenEvent
<1>2. Handled(e) \in Nat /\ Refused(e) \in Nat /\ Missed(e) \in Nat
  BY <1>1 DEF Typed, Handled, Refused, Missed
<1> HIDE DEF Handled, Refused, Missed
<1>3. Allowed(e) = IF Settled(e) THEN Missed(e) + 1 ELSE Missed(e)
  BY <1>2 DEF Allowed
<1>4. Outcomes(e) = IF Given(e) THEN Handled(e) - Refused(e) + 1 ELSE Handled(e) - Refused(e)
  BY <1>2 DEF Outcomes
<1> QED
  BY <1>2, <1>3, <1>4

\* An intake more allows as many calls more as there are attempts.
LEMMA CallsFacts ==
  ASSUME NEW m \in Nat
  PROVE  /\ Calls(m) \in Nat /\ Calls(m + 1) = Calls(m) + MaxRetries + 1
         /\ \A n \in Nat : m <= n => Calls(m) <= Calls(n)
<1>1. MaxRetries \in Nat
  BY IntakeAssumption
<1>2. Calls(m) \in Nat /\ Calls(m + 1) = Calls(m) + MaxRetries + 1
  BY <1>1 DEF Calls
<1>3. ASSUME NEW n \in Nat, m <= n PROVE Calls(m) <= Calls(n)
  <2> DEFINE d == n - m
  <2>1. d \in Nat /\ n = m + d
    BY <1>3
  <2> HIDE DEF d
  <2>2. (MaxRetries + 1) * d \in Nat
    BY <1>1, <2>1
  <2>3. Calls(n) = Calls(m) + (MaxRetries + 1) * d
    BY <1>1, <2>1 DEF Calls
  <2> QED
    BY <1>2, <2>2, <2>3
<1> QED
  BY <1>2, <1>3

\* What has been seen is of the past or the present.
LEMMA SeenFacts ==
  ASSUME Typed, Placed, NEW l \in Listener, job[l].pc # "idle"
  PROVE  job[l].event \in SeenEvent
<1>1. job[l].event \in Event
  BY JobFacts
<1> QED
  BY <1>1, IntakeAssumption DEF Placed, Typed, Event, SeenEvent

LEMMA InitInv == Init => Inv
<1> SUFFICES ASSUME Init PROVE Inv
  OBVIOUS
<1> USE DEF Init
<1>1. Typed
  <2>1. job \in [Listener -> BusyJob \cup {Idle}] /\ Never \in [Tx -> [0 .. MaxTime -> Nat]]
    BY DEF Never
  <2>2. <<>> \in Seq(Event)
    OBVIOUS
  <2> QED
    BY <2>1, <2>2, IntakeAssumption DEF Typed
<1>2. Bounded
  BY FS_EmptySet, IntakeAssumption DEF Bounded
<1>3. Placed
  BY DEF Placed, Idle
<1>4. Counted
  <2>1. ASSUME NEW e \in SeenEvent PROVE CountedOf(e)
    <3>1. Handled(e) = 0 /\ Refused(e) = 0 /\ Missed(e) = 0
      BY DEF SeenEvent, Handled, Refused, Missed, Never
    <3>2. ~Given(e)
      BY IntakeAssumption DEF Given, SeenEvent, NoEvent
    <3>3. Allowed(e) \in Nat /\ Outcomes(e) = 0 /\ Calls(Allowed(e)) \in Nat
      BY <1>1, <3>1, <3>2, CountType, CallsFacts
    <3>4. \A l \in Listener : job[l].pc = "idle"
      BY DEF Idle
    <3> QED
      BY <3>1, <3>2, <3>3, <3>4 DEF CountedOf
  <2> QED
    BY <2>1 DEF Counted
<1> QED
  BY <1>1, <1>2, <1>3, <1>4 DEF Inv

\* A cache to which a record is added still has room for it.
LEMMA CacheFacts ==
  ASSUME Typed, Bounded, NEW r, addToCache(r)
  PROVE  /\ cache' \subseteq cache \cup {r}
         /\ Cardinality(cache') <= MaxCache
<1>1. PICK kept \in Kept : cache' = {q \in kept : q.event # r.event} \cup {r}
  BY DEF addToCache
<1>2. IsFiniteSet(cache) /\ Cardinality(cache) \in Nat /\ MaxCache \in Nat \ {0}
  BY FS_Subset, FS_CardinalityType, IntakeAssumption DEF Typed, Bounded
<1>3. kept \subseteq cache /\ Cardinality(kept) <= MaxCache - 1
  <2>1. CASE Cardinality(cache) < MaxCache
    BY <1>2, <2>1 DEF Kept
  <2>2. CASE ~(Cardinality(cache) < MaxCache)
    <3> DEFINE n == Cardinality(cache) \div 4
    <3>1. PICK s \in SUBSET cache :
            kept = cache \ s /\ Cardinality(s) = IF n < 1 THEN 1 ELSE n
      BY <2>2 DEF Kept
    <3>2. n \in Int
      BY <1>2
    <3> HIDE DEF n
    <3>3. Cardinality(s) >= 1
      BY <3>1, <3>2
    <3>4. Cardinality(cache \ s) = Cardinality(cache) - Cardinality(cache \cap s)
      BY <1>2, FS_Difference
    <3>5. cache \cap s = s /\ Cardinality(cache) <= MaxCache
      BY DEF Bounded
    <3>6. IsFiniteSet(s) /\ Cardinality(s) \in Nat
      BY <1>2, FS_Subset, FS_CardinalityType
    <3> QED
      BY <1>2, <3>1, <3>3, <3>4, <3>5, <3>6
  <2> QED
    BY <2>1, <2>2
<1> DEFINE rest == {q \in kept : q.event # r.event}
<1>4. /\ rest \subseteq kept /\ IsFiniteSet(kept) /\ IsFiniteSet(rest)
      /\ Cardinality(rest) <= Cardinality(kept)
      /\ Cardinality(rest) \in Nat /\ Cardinality(kept) \in Nat
  <2>1. IsFiniteSet(kept) /\ rest \subseteq kept
    BY <1>2, <1>3, FS_Subset
  <2> QED
    BY <2>1, FS_Subset, FS_CardinalityType
<1> HIDE DEF rest
<1>5. Cardinality(rest \cup {r}) <= Cardinality(rest) + 1
  <2>1. Cardinality(rest \cup {r}) = IF r \in rest THEN Cardinality(rest)
                                     ELSE Cardinality(rest) + 1
    BY <1>4, FS_AddElement
  <2> QED
    BY <1>4, <2>1
<1>6. cache' = rest \cup {r}
  BY <1>1 DEF rest
<1>7. Cardinality(rest \cup {r}) \in Nat
  BY <1>4, FS_AddElement, FS_CardinalityType
<1> QED
  BY <1>2, <1>3, <1>4, <1>5, <1>6, <1>7

\* An event is processed when the database has it, whatever the cache has lost.
LEMMA ProcessedIs ==
  ASSUME Typed, NEW e
  PROVE  IsEventProcessed(e) <=> RecordsOf(db, e) # {}
BY DEF Typed, IsEventProcessed, RecordsOf

\* When no event becomes unsettled or is handed to the recovery and no listener
\* begins or ends with one, counts stay allowed.
LEMMA CountedStays ==
  ASSUME Inv, Typed', UNCHANGED history,
         \A e \in SeenEvent : (Settled(e) => Settled(e)') /\ (Given(e)' => Given(e)),
         \A l \in Listener : job'[l] = job[l] \/ job'[l].pc = "idle"
  PROVE  Counted'
<1>1. ASSUME NEW e \in SeenEvent PROVE CountedOf(e)'
  <2>1. /\ Handled(e) \in Nat /\ Refused(e) \in Nat /\ Missed(e) \in Nat
        /\ Allowed(e) = IF Settled(e) THEN Missed(e) + 1 ELSE Missed(e)
        /\ Allowed(e) \in Nat /\ Missed(e) <= Allowed(e)
        /\ Outcomes(e) = IF Given(e) THEN Handled(e) - Refused(e) + 1 ELSE Handled(e) - Refused(e)
    BY CountType DEF Inv
  <2>2. Handled(e)' = Handled(e) /\ Refused(e)' = Refused(e) /\ Missed(e)' = Missed(e)
    BY DEF history, Handled, Refused, Missed
  <2>3. /\ Allowed(e)' = IF Settled(e)' THEN Missed(e)' + 1 ELSE Missed(e)'
        /\ Outcomes(e)' = IF Given(e)' THEN Handled(e)' - Refused(e)' + 1 ELSE Handled(e)' - Refused(e)'
    BY <2>1, <2>2 DEF Allowed, Outcomes
  <2> HIDE DEF Allowed, Outcomes, Handled, Refused, Missed, Calls
  <2>4. Allowed(e)' >= Allowed(e) /\ Allowed(e)' \in Nat /\ Outcomes(e)' <= Outcomes(e)
    BY <2>1, <2>2, <2>3
  <2>5. Calls(Allowed(e)') >= Calls(Allowed(e)) /\ Calls(Allowed(e)') \in Nat /\ Calls(Allowed(e)) \in Nat
    BY <2>1, <2>4, CallsFacts
  <2>6. CountedOf(e)
    BY DEF Inv, Counted
  <2>7. Refused(e)' <= Handled(e)' /\ (Given(e)' => 0 < Refused(e)')
    BY <2>2, <2>6 DEF CountedOf
  <2>8. Outcomes(e) \in Int /\ Outcomes(e)' \in Int
    BY <2>1, <2>2, <2>3
  <2>9. Outcomes(e)' <= Allowed(e)' /\ Handled(e)' <= Calls(Allowed(e)')
    BY <2>1, <2>2, <2>4, <2>5, <2>6, <2>8 DEF CountedOf
  <2>10. ASSUME NEW l \in Listener, job'[l].event = e, job'[l].pc = "record"
         PROVE  Outcomes(e)' <= Missed(e)' /\ Handled(e)' <= Calls(Missed(e)')
    <3>1. job'[l] = job[l]
      BY <2>10
    <3>2. Outcomes(e) <= Missed(e) /\ Handled(e) <= Calls(Missed(e))
      BY <2>6, <2>10, <3>1 DEF CountedOf
    <3> QED
      BY <2>1, <2>2, <2>4, <2>8, <3>2
  <2>11. ASSUME NEW l \in Listener, job'[l].event = e, job'[l].pc = "handle"
         PROVE  /\ Outcomes(e)' + 1 <= Allowed(e)'
                /\ Handled(e)' + MaxRetries + 1 - job'[l].tries <= Calls(Allowed(e)')
    <3>1. job'[l] = job[l] /\ job[l].tries \in 0 .. MaxRetries
      BY <2>11, JobFacts DEF Inv
    <3>2. Outcomes(e) + 1 <= Allowed(e) /\ Handled(e) + MaxRetries + 1 - job[l].tries <= Calls(Allowed(e))
      BY <2>6, <2>11, <3>1 DEF CountedOf
    <3> QED
      BY <2>1, <2>2, <2>4, <2>5, <2>8, <3>1, <3>2, IntakeAssumption
  <2> QED
    BY <2>7, <2>9, <2>10, <2>11 DEF CountedOf, Calls
<1> QED
  BY <1>1 DEF Counted
-----------------------------------------------------------------------------
LEMMA TickInv ==
  ASSUME Inv, Tick
  PROVE  Inv'
<1>1. /\ now' = now + 1 /\ now \in Nat /\ now' \in 0 .. MaxTime
      /\ UNCHANGED <<detections, eventChan, job, db, cache, history, recovery>>
  BY IntakeAssumption DEF Inv, Typed, Tick
<1>2. Typed'
  BY <1>1 DEF Inv, Typed, recovery, history
<1>3. Bounded'
  BY <1>1 DEF Inv, Bounded, recovery
<1>4. Placed'
  <2>1. \A l \in Listener : \A i \in 1 .. Len(eventChan[l]) : eventChan[l][i].ts \in Nat
    <3>1. \A l \in Listener : \A i \in 1 .. Len(eventChan[l]) : eventChan[l][i] \in Event
      BY DEF Inv, Typed
    <3> QED
      BY <3>1 DEF Event
  <2>2. \A l \in Listener : job[l].pc # "idle" => job[l].event.ts \in Nat
    BY JobFacts DEF Inv, Event
  <2>3. \A r \in db : r.at \in Nat
    BY DEF Inv, Typed, EventRecord
  <2> QED
    BY <1>1, <2>1, <2>2, <2>3 DEF Inv, Placed
<1>5. \A e \in SeenEvent : (Settled(e) => Settled(e)') /\ (Given(e)' => Given(e))
  <2>1. ASSUME NEW e \in SeenEvent, TooOld(e) PROVE TooOld(e)'
    <3>1. e.ts \in Int /\ Window \in Nat
      BY IntakeAssumption DEF SeenEvent
    <3> QED
      BY <1>1, <2>1, <3>1 DEF TooOld
  <2> QED
    BY <1>1, <2>1 DEF Settled, RecordsOf, Given, recovery
<1>6. Counted'
  BY <1>1, <1>2, <1>5, CountedStays
<1> QED
  BY <1>2, <1>3, <1>4, <1>6 DEF Inv

\* Steps that leave the clock, the listeners' work and the records alone.
LEMMA CountedKept ==
  ASSUME Inv, Typed', UNCHANGED <<now, job, db, history>>,
         \A e \in SeenEvent : Given(e)' => Given(e)
  PROVE  Counted'
<1>1. \A e \in SeenEvent : Settled(e) => Settled(e)'
  BY DEF Settled, RecordsOf, TooOld
<1> QED
  BY <1>1, CountedStays

LEMMA DetectInv ==
  ASSUME Inv, NEW t \in Tx, Detect(t)
  PROVE  Inv'
<1> DEFINE l == ListenerOf[t]
           e == [tx |-> t, ts |-> now]
<1>1. /\ l \in Listener /\ e \in Event /\ e.tx = t /\ e.ts = now
      /\ eventChan \in [Listener -> Seq(Event)] /\ now \in Nat
      /\ eventChan[l] \in Seq(Event) /\ Append(eventChan[l], e) \in Seq(Event)
  <2>1. now \in Nat /\ eventChan \in [Listener -> Seq(Event)] /\ l \in Listener
    BY IntakeAssumption DEF Inv, Typed
  <2>2. e \in Event
    BY <2>1 DEF Event
  <2> QED
    BY <2>1, <2>2
<1>2. /\ detections' = detections + 1
      /\ Len(eventChan[l]) < ChanCap
      /\ eventChan' = [eventChan EXCEPT ![l] = Append(@, e)]
      /\ UNCHANGED <<now, job, db, cache, history, recovery>>
  BY DEF Detect
<1>3. ListenerOf[e.tx] = l
  BY <1>1
<1> HIDE DEF e, l
<1>4. Typed'
  BY <1>1, <1>2 DEF Inv, Typed, recovery, history
<1>5. Len(Append(eventChan[l], e)) = Len(eventChan[l]) + 1 /\ Len(eventChan[l]) \in Nat
  BY <1>1
<1>6. Bounded'
  BY <1>1, <1>2, <1>5, IntakeAssumption DEF Inv, Bounded, recovery
<1>7. Placed'
  <2>1. ASSUME NEW k \in Listener, NEW i \in 1 .. Len(eventChan'[k])
        PROVE  ListenerOf[eventChan'[k][i].tx] = k /\ eventChan'[k][i].ts <= now
    <3>1. CASE k # l
      BY <1>1, <1>2, <2>1, <3>1 DEF Inv, Placed
    <3>2. CASE k = l /\ i <= Len(eventChan[l])
      <4>1. eventChan'[k][i] = eventChan[l][i]
        BY <1>1, <1>2, <2>1, <3>2
      <4>2. i \in 1 .. Len(eventChan[l])
        BY <2>1, <3>2, <1>5
      <4> QED
        BY <1>1, <3>2, <4>1, <4>2 DEF Inv, Placed
    <3>3. CASE k = l /\ ~(i <= Len(eventChan[l]))
      <4>1. eventChan'[k] = Append(eventChan[l], e)
        BY <1>1, <1>2, <3>3
      <4>2. i = Len(eventChan[l]) + 1
        BY <1>5, <2>1, <3>3, <4>1
      <4>3. eventChan'[k][i] = e
        BY <1>1, <4>1, <4>2
      <4> QED
        BY <1>1, <1>3, <3>3, <4>3
    <3> QED
      BY <3>1, <3>2, <3>3
  <2> QED
    BY <1>2, <2>1 DEF Inv, Placed
<1>8. Counted'
  BY <1>2, <1>4, CountedKept DEF Given, recovery
<1> QED
  BY <1>4, <1>6, <1>7, <1>8 DEF Inv

LEMMA TakeInv ==
  ASSUME Inv, NEW l \in Listener, Take(l)
  PROVE  Inv'
<1> DEFINE e == Head(eventChan[l])
           rest == Tail(eventChan[l])
           taken == [pc |-> "record", event |-> e, tries |-> 0]
<1>1. /\ eventChan \in [Listener -> Seq(Event)] /\ eventChan[l] \in Seq(Event)
      /\ eventChan[l] # <<>>
  BY DEF Inv, Typed, Take
<1>2. /\ e \in Event /\ e = eventChan[l][1] /\ 1 \in 1 .. Len(eventChan[l])
      /\ rest \in Seq(Event) /\ Len(rest) = Len(eventChan[l]) - 1
      /\ Len(eventChan[l]) \in Nat
      /\ \A i \in 1 .. Len(rest) : rest[i] = eventChan[l][i + 1]
                                   /\ i + 1 \in 1 .. Len(eventChan[l])
  BY <1>1
<1>3. ListenerOf[e.tx] = l /\ e.ts <= now
  BY <1>2 DEF Inv, Placed
<1>4. taken \in BusyJob /\ taken.pc = "record" /\ taken.event = e
  BY <1>2, IntakeAssumption DEF BusyJob
<1>5. /\ job[l].pc = "idle"
      /\ eventChan' = [eventChan EXCEPT ![l] = rest]
      /\ \/ job' = job
         \/ ~TooOld(e) /\ ~IsEventProcessed(e) /\ job' = [job EXCEPT ![l] = taken]
      /\ \/ cache' = cache
         \/ \E r \in RecordsOf(db, e) : addToCache(r)
      /\ UNCHANGED <<now, detections, db, history, recovery>>
  BY DEF Take
<1> HIDE DEF e, rest, taken
<1>6. cache' \subseteq db /\ Cardinality(cache') <= MaxCache
  BY <1>5, CacheFacts DEF Inv, Typed, Bounded, RecordsOf
<1>7. Typed'
  BY <1>1, <1>2, <1>4, <1>5, <1>6 DEF Inv, Typed, recovery, history
<1>8. Bounded'
  BY <1>1, <1>2, <1>5, <1>6, IntakeAssumption DEF Inv, Bounded, recovery
<1>9. Placed'
  <2>1. ASSUME NEW k \in Listener, NEW i \in 1 .. Len(eventChan'[k])
        PROVE  ListenerOf[eventChan'[k][i].tx] = k /\ eventChan'[k][i].ts <= now
    <3>1. CASE k # l
      BY <1>1, <1>5, <2>1, <3>1 DEF Inv, Placed
    <3>2. CASE k = l
      <4>1. eventChan'[k] = rest
        BY <1>1, <1>5, <3>2
      <4>2. eventChan'[k][i] = eventChan[l][i + 1] /\ i + 1 \in 1 .. Len(eventChan[l])
        BY <1>2, <2>1, <4>1
      <4> QED
        BY <3>2, <4>2 DEF Inv, Placed
    <3> QED
      BY <3>1, <3>2
  <2>2. ASSUME NEW k \in Listener, job'[k].pc # "idle"
        PROVE  ListenerOf[job'[k].event.tx] = k /\ job'[k].event.ts <= now
    <3>1. job \in [Listener -> BusyJob \cup {Idle}]
      BY DEF Inv, Typed
    <3>2. CASE job'[k] = job[k]
      BY <2>2, <3>2 DEF Inv, Placed
    <3>3. CASE job'[k] # job[k]
      <4>1. k = l /\ job'[k] = taken
        BY <1>5, <3>1, <3>3
      <4> QED
        BY <1>3, <1>4, <4>1
    <3> QED
      BY <3>2, <3>3
  <2> QED
    BY <1>5, <2>1, <2>2 DEF Inv, Placed
<1>10. Counted'
  <2>1. CASE job' = job
    BY <1>5, <1>7, <2>1, CountedKept DEF Given, recovery
  <2>2. CASE ~TooOld(e) /\ ~IsEventProcessed(e) /\ job' = [job EXCEPT ![l] = taken]
    <3>1. ~Settled(e)
      BY <2>2, ProcessedIs DEF Inv, Settled
    <3>2. ASSUME NEW d \in SeenEvent PROVE CountedOf(d)'
      <4>1. CountedOf(d)
        BY DEF Inv, Counted
      <4>2. /\ Handled(d)' = Handled(d) /\ Refused(d)' = Refused(d) /\ Missed(d)' = Missed(d)
            /\ (Settled(d)' <=> Settled(d)) /\ (Given(d)' <=> Given(d))
        BY <1>5 DEF history, recovery, Handled, Refused, Missed, Settled, Given, RecordsOf, TooOld
      <4>3. Allowed(d)' = Allowed(d) /\ Outcomes(d)' = Outcomes(d)
        BY <4>2 DEF Allowed, Outcomes
      <4>4. ASSUME NEW k \in Listener, job'[k].event = d, job'[k].pc = "record"
            PROVE  Outcomes(d) <= Missed(d) /\ Handled(d) <= Calls(Missed(d))
        <5>1. CASE k = l
          <6>1. d = e
            BY <1>4, <2>2, <4>4, <5>1 DEF Inv, Typed
          <6>2. Allowed(d) = Missed(d)
            BY <3>1, <6>1, CountType DEF Inv
          <6> QED
            BY <4>1, <6>2 DEF CountedOf
        <5>2. CASE k # l
          BY <2>2, <4>1, <4>4, <5>2 DEF CountedOf, Inv, Typed
        <5> QED
          BY <5>1, <5>2
      <4>5. ASSUME NEW k \in Listener, job'[k].event = d, job'[k].pc = "handle"
            PROVE  /\ Outcomes(d) + 1 <= Allowed(d)
                   /\ Handled(d) + MaxRetries + 1 - job'[k].tries <= Calls(Allowed(d))
        <5>1. k # l
          BY <1>4, <2>2, <4>5 DEF Inv, Typed
        <5> QED
          BY <2>2, <4>1, <4>5, <5>1 DEF CountedOf, Inv, Typed
      <4> HIDE DEF Allowed, Outcomes, Handled, Refused, Missed, Calls
      <4> QED
        BY <4>1, <4>2, <4>3, <4>4, <4>5 DEF CountedOf, Calls
    <3> QED
      BY <3>2 DEF Counted
  <2> QED
    BY <1>5, <2>1, <2>2
<1> QED
  BY <1>7, <1>8, <1>9, <1>10 DEF Inv

\* A history counts one more for one event.
OneMore(f, t, s) == [f EXCEPT ![t][s] = @ + 1]

LEMMA CountUp ==
  ASSUME NEW f \in [Tx -> [0 .. MaxTime -> Nat]], NEW t \in Tx, NEW s \in 0 .. MaxTime
  PROVE  /\ OneMore(f, t, s) \in [Tx -> [0 .. MaxTime -> Nat]]
         /\ \A u \in Tx : \A r \in 0 .. MaxTime :
              /\ u = t /\ r = s => OneMore(f, t, s)[u][r] = f[u][r] + 1
              /\ ~(u = t /\ r = s) => OneMore(f, t, s)[u][r] = f[u][r]
<1> DEFINE g == [f[t] EXCEPT ![s] = @ + 1]
<1>1. f[t] \in [0 .. MaxTime -> Nat]
  OBVIOUS
<1>2. f[t][s] \in Nat
  BY <1>1
<1>3. g \in [0 .. MaxTime -> Nat]
  BY <1>1, <1>2
<1>4. \A r \in 0 .. MaxTime : g[r] = IF r = s THEN f[t][r] + 1 ELSE f[t][r]
  BY <1>1
<1>5. OneMore(f, t, s) = [f EXCEPT ![t] = g]
  BY DEF OneMore
<1> HIDE DEF g
<1>6. [f EXCEPT ![t] = g] \in [Tx -> [0 .. MaxTime -> Nat]]
  BY <1>3
<1> QED
  BY <1>4, <1>5, <1>6

LEMMA RecordInv ==
  ASSUME Inv, NEW l \in Listener, RecordEvent(l)
  PROVE  Inv'
<1> PICK e \in SeenEvent : job[l].event = e
  BY SeenFacts DEF Inv, RecordEvent
<1> DEFINE r == [event |-> e, at |-> now]
           next == [job[l] EXCEPT !.pc = "handle"]
<1>1. /\ job[l].pc = "record" /\ job[l] \in BusyJob /\ e \in Event /\ e \in SeenEvent
      /\ job \in [Listener -> BusyJob \cup {Idle}]
      /\ ListenerOf[e.tx] = l /\ e.ts <= now
  BY JobFacts DEF Inv, RecordEvent, Placed, Typed
<1>2. next \in BusyJob /\ next.pc = "handle" /\ next.event = e /\ next.tries = job[l].tries
  BY <1>1 DEF BusyJob
<1>3. r \in EventRecord /\ r.event = e /\ r.at = now /\ now \in Nat
  <2>1. now \in Nat
    BY IntakeAssumption DEF Inv, Typed
  <2> QED
    BY <1>1, <2>1 DEF EventRecord
<1>4. /\ job' = [job EXCEPT ![l] = next]
      /\ \/ db' = db \cup {r} /\ addToCache(r) /\ missed' = missed
         \/ missed' = OneMore(missed, e.tx, e.ts) /\ UNCHANGED <<db, cache>>
      /\ UNCHANGED <<now, detections, eventChan, handled, refused, recovery>>
  BY DEF RecordEvent, OneMore
<1> HIDE DEF r, next
<1>5. db \subseteq db' /\ db' \subseteq db \cup {r}
  BY <1>4
<1>6. cache' \subseteq db' /\ Cardinality(cache') <= MaxCache
  BY <1>4, CacheFacts DEF Inv, Typed, Bounded
<1>7. missed' \in [Tx -> [0 .. MaxTime -> Nat]]
  <2>1. missed \in [Tx -> [0 .. MaxTime -> Nat]] /\ e.tx \in Tx /\ e.ts \in 0 .. MaxTime
    BY <1>1 DEF Inv, Typed, SeenEvent
  <2>2. OneMore(missed, e.tx, e.ts) \in [Tx -> [0 .. MaxTime -> Nat]]
    BY <2>1, CountUp
  <2> QED
    BY <1>4, <2>1, <2>2
<1>8. Typed'
  BY <1>1, <1>2, <1>3, <1>4, <1>5, <1>6, <1>7 DEF Inv, Typed, recovery, history
<1>9. Bounded'
  <2>1. IsFiniteSet(db')
    BY <1>4, FS_AddElement DEF Inv, Bounded
  <2> QED
    BY <1>4, <1>6, <2>1 DEF Inv, Bounded, recovery
<1>10. Placed'
  <2>1. ASSUME NEW k \in Listener, job'[k].pc # "idle"
        PROVE  ListenerOf[job'[k].event.tx] = k /\ job'[k].event.ts <= now
    <3>1. CASE k = l
      BY <1>1, <1>2, <1>4, <3>1
    <3>2. CASE k # l
      BY <1>1, <1>4, <2>1, <3>2 DEF Inv, Placed
    <3> QED
      BY <3>1, <3>2
  <2>2. r.event.ts <= r.at /\ r.at <= now
    BY <1>1, <1>3
  <2> QED
    BY <1>4, <1>5, <2>1, <2>2 DEF Inv, Placed
<1>11. ASSUME NEW d \in SeenEvent
       PROVE  /\ Handled(d)' = Handled(d) /\ Refused(d)' = Refused(d) /\ (Given(d)' <=> Given(d))
              /\ Outcomes(d)' = Outcomes(d)
              /\ Missed(d)' \in Nat /\ Missed(d) <= Missed(d)'
              /\ Allowed(d)' \in Nat /\ Allowed(d) <= Allowed(d)'
              /\ d = e => Missed(d) + 1 <= Allowed(d)'
  <2>1. /\ Missed(d) \in Nat /\ Allowed(d) = IF Settled(d) THEN Missed(d) + 1 ELSE Missed(d)
        /\ d.tx \in Tx /\ d.ts \in 0 .. MaxTime /\ e.tx \in Tx /\ e.ts \in 0 .. MaxTime
        /\ missed \in [Tx -> [0 .. MaxTime -> Nat]]
    BY <1>1, CountType DEF Inv, Typed, SeenEvent
  <2>2. Handled(d)' = Handled(d) /\ Refused(d)' = Refused(d) /\ (Given(d)' <=> Given(d))
    BY <1>4 DEF Handled, Refused, Given, recovery
  <2>3. Outcomes(d)' = Outcomes(d)
    BY <2>2 DEF Outcomes
  <2>4. Settled(d) => Settled(d)'
    BY <1>4, <1>5 DEF Settled, RecordsOf, TooOld
  <2>5. CASE db' = db \cup {r} /\ missed' = missed
    <3>1. Missed(d)' = Missed(d)
      BY <2>5 DEF Missed
    <3>2. d = e => Settled(d)'
      BY <1>3, <2>5 DEF Settled, RecordsOf
    <3>3. Allowed(d)' = IF Settled(d)' THEN Missed(d) + 1 ELSE Missed(d)
      BY <2>1, <3>1 DEF Allowed
    <3> QED
      BY <2>1, <2>2, <2>3, <2>4, <3>1, <3>2, <3>3
  <2>6. CASE missed' = OneMore(missed, e.tx, e.ts)
    <3>1. Missed(d)' = IF d.tx = e.tx /\ d.ts = e.ts THEN Missed(d) + 1 ELSE Missed(d)
      <4>1. \A u \in Tx : \A q \in 0 .. MaxTime :
              /\ u = e.tx /\ q = e.ts => OneMore(missed, e.tx, e.ts)[u][q] = missed[u][q] + 1
              /\ ~(u = e.tx /\ q = e.ts) => OneMore(missed, e.tx, e.ts)[u][q] = missed[u][q]
        BY <2>1, CountUp
      <4> QED
        BY <2>1, <2>6, <4>1 DEF Missed
    <3>2. Missed(d)' \in Nat
      BY <2>1, <3>1
    <3>3. Allowed(d)' = IF Settled(d)' THEN Missed(d)' + 1 ELSE Missed(d)'
      BY <3>2 DEF Allowed
    <3> QED
      BY <2>1, <2>2, <2>3, <2>4, <3>1, <3>2, <3>3
  <2> QED
    BY <1>4, <2>5, <2>6
<1>12. Counted'
  <2>1. ASSUME NEW d \in SeenEvent PROVE CountedOf(d)'
    <3>1. /\ CountedOf(d) /\ Handled(d) \in Nat /\ Refused(d) \in Nat /\ Missed(d) \in Nat
          /\ Allowed(d) \in Nat /\ Outcomes(d) \in Int
      BY CountType DEF Inv, Counted
    <3> HIDE DEF Allowed, Outcomes, Handled, Refused, Missed, Calls
    <3>2. /\ Calls(Allowed(d)) \in Nat /\ Calls(Allowed(d)') \in Nat
          /\ Calls(Missed(d)) \in Nat /\ Calls(Missed(d)') \in Nat
          /\ Calls(Allowed(d)) <= Calls(Allowed(d)') /\ Calls(Missed(d)) <= Calls(Missed(d)')
      BY <1>11, <3>1, CallsFacts
    <3>3. ASSUME NEW k \in Listener, job'[k].event = d, job'[k].pc = "record"
          PROVE  Outcomes(d) <= Missed(d)' /\ Handled(d) <= Calls(Missed(d)')
      <4>1. k # l
        BY <1>1, <1>2, <1>4, <3>3
      <4>2. Outcomes(d) <= Missed(d) /\ Handled(d) <= Calls(Missed(d))
        BY <1>1, <1>4, <3>1, <3>3, <4>1 DEF CountedOf
      <4> QED
        BY <1>11, <3>1, <3>2, <4>2
    <3>4. ASSUME NEW k \in Listener, job'[k].event = d, job'[k].pc = "handle"
          PROVE  /\ Outcomes(d) + 1 <= Allowed(d)'
                 /\ Handled(d) + MaxRetries + 1 - job'[k].tries <= Calls(Allowed(d)')
      <4>1. CASE k = l
        <5>1. d = e /\ job'[k].tries = job[l].tries /\ job[l].tries \in Nat
          BY <1>1, <1>2, <1>4, <3>4, <4>1, IntakeAssumption DEF BusyJob
        <5>2. Outcomes(d) <= Missed(d) /\ Handled(d) <= Calls(Missed(d))
          BY <1>1, <3>1, <5>1 DEF CountedOf
        <5>3. /\ Calls(Missed(d) + 1) = Calls(Missed(d)) + MaxRetries + 1
              /\ Calls(Missed(d) + 1) <= Calls(Allowed(d)')
          BY <1>11, <3>1, <5>1, CallsFacts
        <5>4. Missed(d) + 1 <= Allowed(d)' /\ Allowed(d)' \in Nat
          BY <1>11, <5>1
        <5> QED
          BY <3>1, <3>2, <5>1, <5>2, <5>3, <5>4, IntakeAssumption
      <4>2. CASE k # l
        <5>1. job'[k] = job[k]
          BY <1>1, <1>4, <4>2
        <5>2. job[k].tries \in Nat
          BY <3>4, <5>1, JobFacts, IntakeAssumption DEF Inv
        <5>3. /\ Outcomes(d) + 1 <= Allowed(d)
              /\ Handled(d) + MaxRetries + 1 - job[k].tries <= Calls(Allowed(d))
          BY <3>1, <3>4, <5>1 DEF CountedOf
        <5> QED
          BY <1>11, <3>1, <3>2, <5>1, <5>2, <5>3, IntakeAssumption
      <4> QED
        BY <4>1, <4>2
    <3>5. Outcomes(d) <= Allowed(d)' /\ Handled(d) <= Calls(Allowed(d)')
      <4>1. Outcomes(d) <= Allowed(d) /\ Handled(d) <= Calls(Allowed(d))
        BY <3>1 DEF CountedOf
      <4> QED
        BY <1>11, <3>1, <3>2, <4>1
    <3>6. Refused(d) <= Handled(d) /\ (Given(d) => 0 < Refused(d))
      BY <3>1 DEF CountedOf
    <3> QED
      BY <1>11, <3>3, <3>4, <3>5, <3>6 DEF CountedOf, Calls
  <2> QED
    BY <2>1 DEF Counted
<1> QED
  BY <1>8, <1>9, <1>10, <1>12 DEF Inv

LEMMA HandleInv ==
  ASSUME Inv, NEW l \in Listener, HandleEvent(l)
  PROVE  Inv'
<1> PICK e \in SeenEvent : job[l].event = e
  BY SeenFacts DEF Inv, HandleEvent
<1>1. /\ job[l].pc = "handle" /\ job[l] \in BusyJob /\ e \in Event /\ e \in SeenEvent
      /\ job \in [Listener -> BusyJob \cup {Idle}]
      /\ ListenerOf[e.tx] = l /\ e.tx \in Tx /\ e.ts \in 0 .. MaxTime
      /\ job[l].tries \in 0 .. MaxRetries
  BY JobFacts DEF Inv, HandleEvent, Placed, Typed, SeenEvent
<1> DEFINE again == [job[l] EXCEPT !.tries = @ + 1]
           Again == /\ job[l].tries < MaxRetries /\ job' = [job EXCEPT ![l] = again]
                    /\ refused' = OneMore(refused, e.tx, e.ts)
                    /\ UNCHANGED <<failed, queue>>
           Taken == /\ job' = [job EXCEPT ![l] = Idle]
                    /\ UNCHANGED <<refused, failed, queue>>
           Failed == /\ job' = [job EXCEPT ![l] = Idle]
                     /\ refused' = OneMore(refused, e.tx, e.ts)
                     /\ AddFailedEvent(e)
<1>2. /\ handled' = OneMore(handled, e.tx, e.ts)
      /\ Taken \/ Again \/ Failed
      /\ UNCHANGED <<now, detections, eventChan, db, cache, missed, worker, recovered>>
  BY DEF HandleEvent, OneMore
<1>3. job[l].tries < MaxRetries =>
        again \in BusyJob /\ again.pc = "handle" /\ again.event = e /\ again.tries = job[l].tries + 1
  BY <1>1, IntakeAssumption DEF BusyJob
<1> HIDE DEF again
<1>4. \/ job' = [job EXCEPT ![l] = Idle]
      \/ job[l].tries < MaxRetries /\ job' = [job EXCEPT ![l] = again]
  BY <1>2
<1>5. /\ handled' \in [Tx -> [0 .. MaxTime -> Nat]]
      /\ refused' \in [Tx -> [0 .. MaxTime -> Nat]]
  <2>1. /\ handled \in [Tx -> [0 .. MaxTime -> Nat]]
        /\ refused \in [Tx -> [0 .. MaxTime -> Nat]]
    BY DEF Inv, Typed
  <2>2. /\ OneMore(handled, e.tx, e.ts) \in [Tx -> [0 .. MaxTime -> Nat]]
        /\ OneMore(refused, e.tx, e.ts) \in [Tx -> [0 .. MaxTime -> Nat]]
    BY <1>1, <2>1, CountUp
  <2> QED
    BY <1>2, <2>1, <2>2
<1>6. /\ failed' \in [Tx -> Event \cup {NoEvent}]
      /\ queue' \in Seq(Event) /\ Len(queue') <= RecoveryCap
      /\ \A d \in SeenEvent : Given(d)' => Given(d) \/ d = e
      /\ UNCHANGED <<failed, queue>> => \A d \in SeenEvent : Given(d)' => Given(d)
  <2>1. CASE UNCHANGED <<failed, queue>>
    BY <1>2, <2>1 DEF Inv, Typed, Bounded, Given
  <2>2. CASE Failed
    <3>1. queue \in Seq(Event) /\ Len(queue) \in Nat /\ RecoveryCap \in Nat
          /\ Append(queue, e) \in Seq(Event) /\ Len(Append(queue, e)) = Len(queue) + 1
          /\ \A i \in 1 .. Len(queue) + 1 :
               Append(queue, e)[i] = IF i = Len(queue) + 1 THEN e ELSE queue[i]
      <4>1. queue \in Seq(Event) /\ e \in Event /\ RecoveryCap \in Nat
        BY <1>1, IntakeAssumption DEF Inv, Typed
      <4> QED
        BY <4>1
    <3>2. failed \in [Tx -> Event \cup {NoEvent}] /\ failed' = [failed EXCEPT ![e.tx] = e]
      BY <2>2 DEF Inv, Typed, AddFailedEvent
    <3>3. \/ queue' = queue
          \/ Len(queue) < RecoveryCap /\ queue' = Append(queue, e)
      BY <2>2 DEF AddFailedEvent
    <3>4. \A d \in SeenEvent : Given(d)' => Given(d) \/ d = e
      <4>1. ASSUME NEW d \in SeenEvent, NEW t \in Tx, failed'[t] = d, d # e PROVE failed[t] = d
        BY <1>1, <3>2, <4>1
      <4>2. ASSUME NEW d \in SeenEvent, NEW i \in 1 .. Len(queue'), queue'[i] = d, d # e
            PROVE  \E j \in 1 .. Len(queue) : queue[j] = d
        BY <3>1, <3>3, <4>2
      <4> QED
        BY <1>2, <4>1, <4>2 DEF Given
    <3>5. failed' \in [Tx -> Event \cup {NoEvent}]
      BY <1>1, <3>2
    <3>6. queue' \in Seq(Event) /\ Len(queue') <= RecoveryCap
      BY <3>1, <3>3 DEF Inv, Bounded
    <3> QED
      BY <1>2, <3>4, <3>5, <3>6 DEF Given
  <2> QED
    BY <1>2, <2>1, <2>2
<1>7. Typed'
  <2>1. job' \in [Listener -> BusyJob \cup {Idle}]
    BY <1>1, <1>3, <1>4
  <2> QED
    BY <1>2, <1>5, <1>6, <2>1 DEF Inv, Typed
<1>8. Bounded'
  BY <1>2, <1>6 DEF Inv, Bounded
<1>9. Placed'
  <2>1. ASSUME NEW k \in Listener, job'[k].pc # "idle"
        PROVE  job[k].pc # "idle" /\ job'[k].event = job[k].event
    BY <1>1, <1>3, <1>4, <2>1 DEF Idle
  <2> QED
    BY <1>2, <2>1 DEF Inv, Placed
<1>10. Counted'
  <2>1. ASSUME NEW d \in SeenEvent PROVE CountedOf(d)'
    <3>1. /\ CountedOf(d) /\ Handled(d) \in Nat /\ Refused(d) \in Nat /\ Missed(d) \in Nat
          /\ Allowed(d) \in Nat /\ d.tx \in Tx /\ d.ts \in 0 .. MaxTime
          /\ Outcomes(d) = IF Given(d) THEN Handled(d) - Refused(d) + 1 ELSE Handled(d) - Refused(d)
      BY CountType DEF Inv, Counted, SeenEvent
    <3>2. Missed(d)' = Missed(d) /\ Allowed(d)' = Allowed(d)
      BY <1>2 DEF Missed, Allowed, Settled, RecordsOf, TooOld
    <3>3. handled \in [Tx -> [0 .. MaxTime -> Nat]] /\ refused \in [Tx -> [0 .. MaxTime -> Nat]]
      BY DEF Inv, Typed
    <3>4. d = e <=> d.tx = e.tx /\ d.ts = e.ts
      BY <1>1 DEF SeenEvent
    <3>5. Handled(d)' = IF d = e THEN Handled(d) + 1 ELSE Handled(d)
      <4>1. \A u \in Tx : \A r \in 0 .. MaxTime :
              /\ u = e.tx /\ r = e.ts => OneMore(handled, e.tx, e.ts)[u][r] = handled[u][r] + 1
              /\ ~(u = e.tx /\ r = e.ts) => OneMore(handled, e.tx, e.ts)[u][r] = handled[u][r]
        BY <1>1, <3>3, CountUp
      <4> QED
        BY <1>2, <3>1, <3>4, <4>1 DEF Handled
    <3>6. /\ d # e => Refused(d)' = Refused(d)
          /\ d = e => \/ /\ Refused(d)' = Refused(d) /\ (Given(d)' => Given(d))
                         /\ job' = [job EXCEPT ![l] = Idle]
                      \/ /\ Refused(d)' = Refused(d) + 1
                         /\ job' = [job EXCEPT ![l] = Idle]
                      \/ /\ Refused(d)' = Refused(d) + 1 /\ (Given(d)' => Given(d))
                         /\ job[l].tries < MaxRetries /\ job' = [job EXCEPT ![l] = again]
      <4>1. CASE Taken
        BY <1>6, <4>1 DEF Refused
      <4>2. ASSUME refused' = OneMore(refused, e.tx, e.ts)
            PROVE  Refused(d)' = IF d = e THEN Refused(d) + 1 ELSE Refused(d)
        <5>1. \A u \in Tx : \A r \in 0 .. MaxTime :
                /\ u = e.tx /\ r = e.ts => OneMore(refused, e.tx, e.ts)[u][r] = refused[u][r] + 1
                /\ ~(u = e.tx /\ r = e.ts) => OneMore(refused, e.tx, e.ts)[u][r] = refused[u][r]
          BY <1>1, <3>3, CountUp
        <5> QED
          BY <3>1, <3>4, <4>2, <5>1 DEF Refused
      <4>3. CASE Again
        BY <1>6, <4>2, <4>3
      <4>4. CASE Failed
        BY <4>2, <4>4
      <4> QED
        BY <1>2, <4>1, <4>3, <4>4
    <3>7. /\ Calls(Allowed(d)) \in Nat
          /\ Outcomes(d)' = IF Given(d)' THEN Handled(d)' - Refused(d)' + 1 ELSE Handled(d)' - Refused(d)'
      <4>1. Handled(d)' \in Int /\ Refused(d)' \in Int
        BY <3>1, <3>5, <3>6
      <4> QED
        BY <3>1, <4>1, CallsFacts DEF Outcomes
    <3> HIDE DEF Allowed, Outcomes, Handled, Refused, Missed, Calls, Again, Taken, Failed
    <3>8. CASE d # e
      <4>1. /\ Handled(d)' = Handled(d) /\ Refused(d)' = Refused(d) /\ (Given(d)' => Given(d))
        BY <1>6, <3>5, <3>6, <3>8
      <4>2. Outcomes(d)' <= Outcomes(d) /\ Outcomes(d)' \in Int /\ Outcomes(d) \in Int
        BY <3>1, <3>7, <4>1
      <4>3. ASSUME NEW k \in Listener, job'[k].event = d, job'[k].pc \in {"record", "handle"}
            PROVE  job'[k] = job[k] /\ job[k].tries \in Nat
        <5>1. k # l
          BY <1>1, <1>3, <1>4, <3>8, <4>3 DEF Idle
        <5>2. job'[k] = job[k]
          BY <1>1, <1>4, <5>1
        <5> QED
          BY <4>3, <5>2, JobFacts, IntakeAssumption DEF Inv
      <4>4. Refused(d)' <= Handled(d)' /\ (Given(d)' => 0 < Refused(d)')
        BY <3>1, <4>1 DEF CountedOf
      <4>5. Outcomes(d)' <= Allowed(d)' /\ Handled(d)' <= Calls(Allowed(d)')
        <5>1. Outcomes(d) <= Allowed(d) /\ Handled(d) <= Calls(Allowed(d))
          BY <3>1 DEF CountedOf
        <5> QED
          BY <3>1, <3>2, <3>7, <4>1, <4>2, <5>1
      <4>6. ASSUME NEW k \in Listener, job'[k].event = d, job'[k].pc = "record"
            PROVE  Outcomes(d)' <= Missed(d)' /\ Handled(d)' <= Calls(Missed(d)')
        <5>1. Outcomes(d) <= Missed(d) /\ Handled(d) <= Calls(Missed(d))
          BY <3>1, <4>3, <4>6 DEF CountedOf
        <5> QED
          BY <3>1, <3>2, <4>1, <4>2, <5>1
      <4>7. ASSUME NEW k \in Listener, job'[k].event = d, job'[k].pc = "handle"
            PROVE  /\ Outcomes(d)' + 1 <= Allowed(d)'
                   /\ Handled(d)' + MaxRetries + 1 - job'[k].tries <= Calls(Allowed(d)')
        <5>1. /\ Outcomes(d) + 1 <= Allowed(d)
              /\ Handled(d) + MaxRetries + 1 - job[k].tries <= Calls(Allowed(d))
          BY <3>1, <4>3, <4>7 DEF CountedOf
        <5> QED
          BY <3>1, <3>2, <3>7, <4>1, <4>2, <4>3, <4>7, <5>1
      <4> QED
        BY <4>4, <4>5, <4>6, <4>7 DEF CountedOf, Calls
    <3>9. CASE d = e
      <4>1. /\ Refused(d) <= Handled(d) /\ (Given(d) => 0 < Refused(d))
            /\ Outcomes(d) + 1 <= Allowed(d)
            /\ Handled(d) + MaxRetries + 1 - job[l].tries <= Calls(Allowed(d))
        BY <1>1, <3>1, <3>9 DEF CountedOf
      <4>2. Handled(d)' = Handled(d) + 1
        BY <3>5, <3>9
      <4>3. job[l].tries \in Nat /\ job[l].tries <= MaxRetries /\ MaxRetries \in Nat
        BY <1>1, IntakeAssumption
      <4>4. Refused(d)' <= Handled(d)' /\ (Given(d)' => 0 < Refused(d)')
        BY <3>1, <3>6, <3>9, <4>1, <4>2
      <4>5. Outcomes(d)' <= Allowed(d)' /\ Handled(d)' <= Calls(Allowed(d)')
        BY <3>1, <3>2, <3>6, <3>7, <3>9, <4>1, <4>2, <4>3
      <4>6. ASSUME NEW k \in Listener, job'[k].event = d, job'[k].pc \in {"record", "handle"}
            PROVE  /\ job'[k].pc = "handle" /\ job'[k].tries = job[l].tries + 1
                   /\ Refused(d)' = Refused(d) + 1 /\ (Given(d)' => Given(d))
        <5>1. k = l
          <6>1. job'[k].event = e /\ ListenerOf[e.tx] = k
            BY <1>9, <3>9, <4>6 DEF Placed
          <6> QED
            BY <1>1, <6>1
        <5>2. job'[l] # Idle
          BY <4>6, <5>1 DEF Idle
        <5>3. /\ Refused(d)' = Refused(d) + 1 /\ (Given(d)' => Given(d))
              /\ job[l].tries < MaxRetries /\ job' = [job EXCEPT ![l] = again]
          BY <1>1, <3>6, <3>9, <5>2
        <5> QED
          BY <1>1, <1>3, <5>1, <5>3
      <4>7. ASSUME NEW k \in Listener, job'[k].event = d, job'[k].pc = "handle"
            PROVE  /\ Outcomes(d)' + 1 <= Allowed(d)'
                   /\ Handled(d)' + MaxRetries + 1 - job'[k].tries <= Calls(Allowed(d)')
        BY <3>1, <3>2, <3>7, <4>1, <4>2, <4>3, <4>6, <4>7
      <4> QED
        BY <4>4, <4>5, <4>6, <4>7 DEF CountedOf, Calls
    <3> QED
      BY <3>8, <3>9
  <2> QED
    BY <2>1 DEF Counted
<1> QED
  BY <1>7, <1>8, <1>9, <1>10 DEF Inv

LEMMA RecoveryInv ==
  ASSUME Inv,
         \/ RelayFailedEvent \/ removeFailedEvent
         \/ \E t \in Tx : QueueAgain(t) \/ ForceRecovery(t)
  PROVE  Inv'
<1>1. UNCHANGED intake
  BY DEF RelayFailedEvent, removeFailedEvent, QueueAgain, ForceRecovery
<1>2. /\ failed \in [Tx -> Event \cup {NoEvent}] /\ queue \in Seq(Event)
      /\ worker \in Event \cup {NoEvent} /\ Len(queue) <= RecoveryCap
      /\ RecoveryCap \in Nat /\ Len(queue) \in Nat
  BY IntakeAssumption DEF Inv, Typed, Bounded
<1>3. /\ failed' \in [Tx -> Event \cup {NoEvent}] /\ queue' \in Seq(Event)
      /\ worker' \in Event \cup {NoEvent} /\ Len(queue') <= RecoveryCap
  <2>1. CASE RelayFailedEvent
    <3>1. Head(queue) \in Event /\ Tail(queue) \in Seq(Event)
          /\ Len(Tail(queue)) = Len(queue) - 1
      BY <1>2, <2>1 DEF RelayFailedEvent
    <3> QED
      BY <1>2, <2>1, <3>1 DEF RelayFailedEvent
  <2>2. CASE removeFailedEvent
    BY <1>2, <2>2 DEF removeFailedEvent
  <2>3. ASSUME NEW t \in Tx, QueueAgain(t)
        PROVE  /\ failed' \in [Tx -> Event \cup {NoEvent}] /\ queue' \in Seq(Event)
               /\ worker' \in Event \cup {NoEvent} /\ Len(queue') <= RecoveryCap
    <3>1. failed[t] \in Event
      BY <1>2, <2>3 DEF QueueAgain
    <3>2. /\ Append(queue, failed[t]) \in Seq(Event)
          /\ Len(Append(queue, failed[t])) = Len(queue) + 1
      BY <1>2, <3>1
    <3> QED
      BY <1>2, <2>3, <3>2 DEF QueueAgain
  <2>4. ASSUME NEW t \in Tx, ForceRecovery(t)
        PROVE  /\ failed' \in [Tx -> Event \cup {NoEvent}] /\ queue' \in Seq(Event)
               /\ worker' \in Event \cup {NoEvent} /\ Len(queue') <= RecoveryCap
    BY <1>2, <2>4 DEF ForceRecovery
  <2> QED
    BY <2>1, <2>2, <2>3, <2>4
<1>4. /\ recovered' \subseteq Event
      /\ \A e \in SeenEvent : Given(e)' => Given(e)
  <2>1. CASE RelayFailedEvent
    <3>1. /\ Head(queue) \in Event /\ Head(queue) = queue[1] /\ 1 \in 1 .. Len(queue)
          /\ \A i \in 1 .. Len(Tail(queue)) : Tail(queue)[i] = queue[i + 1] /\ i + 1 \in 1 .. Len(queue)
      BY <1>2, <2>1 DEF RelayFailedEvent
    <3>2. /\ failed' = failed /\ worker' = Head(queue) /\ queue' = Tail(queue)
          /\ recovered' = recovered \cup {Head(queue)}
      BY <2>1 DEF RelayFailedEvent
    <3>3. recovered' \subseteq Event
      BY <3>1, <3>2 DEF Inv, Typed
    <3>4. ASSUME NEW e \in SeenEvent, Given(e)' PROVE Given(e)
      <4>1. CASE e \in recovered \/ \E t \in Tx : failed'[t] = e
        BY <3>2, <4>1 DEF Given
      <4>2. CASE e = Head(queue)
        BY <3>1, <4>2 DEF Given
      <4>3. ASSUME NEW i \in 1 .. Len(queue'), queue'[i] = e PROVE Given(e)
        BY <3>1, <3>2, <4>3 DEF Given
      <4> QED
        BY <3>2, <3>4, <4>1, <4>2, <4>3 DEF Given
    <3> QED
      BY <3>3, <3>4
  <2>2. CASE removeFailedEvent
    <3>1. /\ failed' = [failed EXCEPT ![worker.tx] = NoEvent] /\ worker' = NoEvent
          /\ UNCHANGED <<queue, recovered>>
      BY <2>2 DEF removeFailedEvent
    <3>2. \A e \in SeenEvent : e # NoEvent
      BY IntakeAssumption DEF SeenEvent, NoEvent
    <3> QED
      BY <1>2, <3>1, <3>2 DEF Given, Inv, Typed, SeenEvent
  <2>3. ASSUME NEW t \in Tx, QueueAgain(t)
        PROVE  recovered' \subseteq Event /\ \A e \in SeenEvent : Given(e)' => Given(e)
    <3>1. failed[t] \in Event /\ UNCHANGED <<failed, worker, recovered>>
      BY <1>2, <2>3 DEF QueueAgain
    <3>2. /\ queue' = Append(queue, failed[t]) /\ Len(queue') = Len(queue) + 1
          /\ \A i \in 1 .. Len(queue') : queue'[i] = IF i = Len(queue) + 1 THEN failed[t] ELSE queue[i]
      BY <1>2, <2>3, <3>1 DEF QueueAgain
    <3>3. ASSUME NEW e \in SeenEvent, NEW i \in 1 .. Len(queue'), queue'[i] = e
          PROVE  Given(e)
      <4>1. CASE i = Len(queue) + 1
        BY <3>2, <3>3, <4>1 DEF Given
      <4>2. CASE i # Len(queue) + 1
        BY <1>2, <3>2, <3>3, <4>2 DEF Given
      <4> QED
        BY <4>1, <4>2
    <3> QED
      BY <3>1, <3>3 DEF Given, Inv, Typed
  <2>4. ASSUME NEW t \in Tx, ForceRecovery(t)
        PROVE  recovered' \subseteq Event /\ \A e \in SeenEvent : Given(e)' => Given(e)
    <3>1. failed' = [failed EXCEPT ![t] = NoEvent] /\ UNCHANGED <<queue, worker, recovered>>
      BY <2>4 DEF ForceRecovery
    <3>2. \A e \in SeenEvent : e # NoEvent
      BY IntakeAssumption DEF SeenEvent, NoEvent
    <3> QED
      BY <1>2, <3>1, <3>2 DEF Given, Inv, Typed, SeenEvent
  <2> QED
    BY <2>1, <2>2, <2>3, <2>4
<1>5. Typed' /\ Bounded'
  BY <1>1, <1>3, <1>4 DEF Inv, Typed, Bounded, intake, history
<1>6. Placed'
  BY <1>1, <1>3 DEF Inv, Placed, intake
<1>7. Counted'
  BY <1>1, <1>4, <1>5, CountedKept DEF intake
<1> QED
  BY <1>5, <1>6, <1>7 DEF Inv

LEMMA CleanupInv ==
  ASSUME Inv, CleanupOldEvents
  PROVE  Inv'
<1>1. /\ db' = db \ Expired
      /\ cache' = {r \in cache : RecordsOf(Expired, r.event) = {}}
      /\ UNCHANGED <<now, detections, eventChan, job, history, recovery>>
  BY DEF CleanupOldEvents
<1>2. cache' \subseteq db' /\ cache' \subseteq cache
  BY <1>1 DEF Inv, Typed, RecordsOf
<1>3. Typed'
  BY <1>1, <1>2 DEF Inv, Typed, recovery, history
<1>4. Bounded'
  <2>1. IsFiniteSet(db') /\ IsFiniteSet(cache)
    BY <1>1, FS_Subset, FS_Difference DEF Inv, Typed, Bounded
  <2>2. /\ Cardinality(cache') <= Cardinality(cache)
        /\ Cardinality(cache) \in Nat /\ IsFiniteSet(cache')
    BY <1>2, <2>1, FS_Subset, FS_CardinalityType
  <2>3. Cardinality(cache') \in Nat /\ MaxCache \in Nat
    BY <2>2, FS_CardinalityType, IntakeAssumption
  <2> QED
    BY <1>1, <2>1, <2>2, <2>3 DEF Inv, Bounded, recovery
<1>5. Placed'
  BY <1>1 DEF Inv, Placed
<1>6. ASSUME NEW e \in SeenEvent, Settled(e) PROVE Settled(e)'
  <2>1. CASE TooOld(e)
    BY <1>1, <2>1 DEF Settled, TooOld
  <2>2. CASE ~TooOld(e)
    <3>1. PICK r \in db : r.event = e
      BY <1>6, <2>2 DEF Settled, RecordsOf
    <3>2. e.ts <= r.at /\ r.at \in Nat /\ e.ts \in Nat /\ now \in Nat
      BY <3>1, IntakeAssumption DEF Inv, Placed, Typed, EventRecord, SeenEvent
    <3>3. ~(r.at < now - MaxAge)
      BY <2>2, <3>2, IntakeAssumption DEF TooOld
    <3>4. r \in db'
      BY <1>1, <3>3 DEF Expired
    <3> QED
      BY <3>1, <3>4 DEF Settled, RecordsOf
  <2> QED
    BY <2>1, <2>2
<1>7. \A e \in SeenEvent : Given(e)' => Given(e)
  BY <1>1 DEF Given, recovery
<1>8. Counted'
  BY <1>1, <1>3, <1>6, <1>7, CountedStays
<1> QED
  BY <1>3, <1>4, <1>5, <1>8 DEF Inv

LEMMA RestartInv ==
  ASSUME Inv, Restart
  PROVE  Inv'
<1>1. /\ eventChan' = [l \in Listener |-> <<>>]
      /\ job' = [l \in Listener |-> Idle]
      /\ failed' = [t \in Tx |-> NoEvent] /\ queue' = <<>> /\ worker' = NoEvent
      /\ UNCHANGED <<now, detections, db, history, recovered>>
  BY DEF Restart
<1>2. cache' \subseteq db /\ Cardinality(cache') <= MaxCache
  <2>1. PICK s \in SUBSET {r \in db : r.at > now - Window} :
          cache' = s /\ Cardinality(s) <= MaxCache
    BY DEF Restart, Loadable
  <2> QED
    BY <2>1
<1>3. Typed'
  BY <1>1, <1>2 DEF Inv, Typed, history
<1>4. Bounded'
  BY <1>1, <1>2, IntakeAssumption DEF Inv, Bounded
<1>5. Placed'
  BY <1>1 DEF Inv, Placed, Idle
<1>6. \A e \in SeenEvent : (Settled(e) => Settled(e)') /\ (Given(e)' => Given(e))
  <2>1. \A e \in SeenEvent : e # NoEvent
    BY IntakeAssumption DEF SeenEvent, NoEvent
  <2> QED
    BY <1>1, <2>1 DEF Settled, RecordsOf, TooOld, Given
<1>7. \A l \in Listener : job'[l].pc = "idle"
  BY <1>1 DEF Idle
<1>8. Counted'
  BY <1>1, <1>3, <1>6, <1>7, CountedStays
<1> QED
  BY <1>3, <1>4, <1>5, <1>8 DEF Inv

LEMMA NextInv == Inv /\ [Next]_vars => Inv'
<1> SUFFICES ASSUME Inv, [Next]_vars PROVE Inv'
  OBVIOUS
<1>1. CASE UNCHANGED vars
  <2>1. Typed' /\ Bounded' /\ Placed'
    BY <1>1 DEF vars, intake, history, recovery, Inv, Typed, Bounded, Placed
  <2>2. Counted'
    BY <1>1, <2>1, CountedKept DEF vars, intake, recovery, Given
  <2> QED
    BY <2>1, <2>2 DEF Inv
<1> QED
  BY <1>1, TickInv, DetectInv, TakeInv, RecordInv, HandleInv, RecoveryInv, CleanupInv,
     RestartInv DEF Next
-----------------------------------------------------------------------------
\* Types are kept, and with them the capacities of the cache and of the queues.
THEOREM IntakeTyped == Spec => []TypeOK
<1>1. Inv => TypeOK
  <2> SUFFICES ASSUME Inv PROVE TypeOK
    OBVIOUS
  <2>1. \A l \in Listener : job[l] = Idle \/ job[l] \in BusyJob
    BY DEF Inv, Typed
  <2> QED
    BY <2>1 DEF Inv, Typed, Bounded, TypeOK, Idle, BusyJob
<1> QED
  BY <1>1, InitInv, NextInv, PTL DEF Spec

\* The listeners handle an event once and once more for each failed record, with
\* as many calls as the retries allow, all but the last of which fail; and the
\* recovery hands over only events the handler failed with and never took
\* unless a record failed.
THEOREM EventsHandledOnce == Spec => []HandledOnce
<1>1. Inv => HandledOnce
  <2> SUFFICES ASSUME Inv, NEW t \in Tx, NEW s \in 0 .. MaxTime
               PROVE  /\ handled[t][s] <= 1 + missed[t][s] + refused[t][s]
                      /\ handled[t][s] <= (MaxRetries + 1) * (1 + missed[t][s])
                      /\ [tx |-> t, ts |-> s] \in recovered =>
                           0 < refused[t][s] /\ handled[t][s] <= missed[t][s] + refused[t][s]
    BY DEF HandledOnce
  <2> DEFINE e == [tx |-> t, ts |-> s]
  <2>1. /\ e \in SeenEvent
        /\ Handled(e) = handled[t][s] /\ Refused(e) = refused[t][s] /\ Missed(e) = missed[t][s]
    BY DEF SeenEvent, Handled, Refused, Missed
  <2> HIDE DEF e
  <2>2. /\ Handled(e) \in Nat /\ Refused(e) \in Nat /\ Missed(e) \in Nat
        /\ Allowed(e) = IF Settled(e) THEN Missed(e) + 1 ELSE Missed(e)
        /\ Outcomes(e) = IF Given(e) THEN Handled(e) - Refused(e) + 1 ELSE Handled(e) - Refused(e)
    BY <2>1, CountType DEF Inv
  <2>3. /\ Outcomes(e) <= Allowed(e) /\ Handled(e) <= Calls(Allowed(e))
        /\ Given(e) => 0 < Refused(e)
    BY <2>1 DEF Inv, Counted, CountedOf
  <2> HIDE DEF Allowed, Outcomes, Handled, Refused, Missed
  <2>4. Allowed(e) \in Nat /\ Missed(e) + 1 \in Nat /\ Allowed(e) <= Missed(e) + 1
    BY <2>2
  <2>5. /\ Calls(Allowed(e)) <= Calls(Missed(e) + 1)
        /\ Calls(Allowed(e)) \in Nat /\ Calls(Missed(e) + 1) \in Nat
    BY <2>4, CallsFacts
  <2>6. Handled(e) <= Calls(Missed(e) + 1)
    BY <2>2, <2>3, <2>5
  <2>7. Handled(e) <= 1 + Missed(e) + Refused(e)
    BY <2>2, <2>3, <2>4
  <2>8. ASSUME e \in recovered
        PROVE  0 < Refused(e) /\ Handled(e) <= Missed(e) + Refused(e)
    <3>1. Given(e)
      BY <2>8 DEF Given
    <3> QED
      BY <2>2, <2>3, <2>4, <3>1
  <2>9. Calls(Missed(e) + 1) = (MaxRetries + 1) * (1 + Missed(e))
    <3>1. Missed(e) + 1 = 1 + Missed(e)
      BY <2>2
    <3> QED
      BY <3>1 DEF Calls
  <2> QED
    BY <2>1, <2>6, <2>7, <2>8, <2>9 DEF e
<1> QED
  BY <1>1, InitInv, NextInv, PTL DEF Spec
-----------------------------------------------------------------------------
(***************************************************************************)
(* The transfer manager, for any submissions and requests. The response an *)
(* ID has is of a submission stored under that ID, and one of a handler    *)
(* belongs to a submission whose handler has returned (Answer); what a     *)
(* round of the monitor still looks at is of such submissions too. So a    *)
(* late round can only complete what is already confirmed.                 *)
(***************************************************************************)

\* The submission has passed validation.
Stored(s) == request[s] # None

\* What an ID has comes from a submission of that ID, and its handler's response from
\* one whose handler has returned.
Answer(i) ==
  LET resp == responses[i]
  IN resp # None =>
       /\ Stored(resp.by) /\ request[resp.by].id = i
       /\ resp.kind = "initial" => pc[resp.by] \notin {"new", "stored"}
       /\ resp.kind = "final" => pc[resp.by] = "done"

\* A submission is stored as soon as it is not new, and has a final state when its
\* handler has returned.
Submitted(s) ==
  /\ pc[s] = "new" <=> request[s] = None
  /\ pc[s] = "done" => final[s] \in {"confirmed", "completed"}
  /\ pc[s] # "done" => final[s] = None

TransferInv ==
  /\ TransferTypeOK
  /\ isRunning \/ cancelled \/ monitor = "off"
  /\ \A s \in Submission : Submitted(s)
  /\ \A i \in ID : Answer(i) /\ IsFiniteSet(Users(i))
  /\ \A resp \in round : resp.kind = "final" => pc[resp.by] = "done"
-----------------------------------------------------------------------------
\* The only submission of its ID.
LEMMA OnlyUser ==
  ASSUME NEW S, IsFiniteSet(S), Cardinality(S) <= 1, NEW s \in S, NEW t \in S
  PROVE  s = t
<1> SUFFICES ASSUME s # t PROVE FALSE
  OBVIOUS
<1> DEFINE one == {s}
           two == one \cup {t}
<1>1. IsFiniteSet(one) /\ Cardinality(one) = 1 /\ t \notin one
  BY FS_Singleton
<1>2. two \subseteq S
  OBVIOUS
<1> HIDE DEF one
<1>3. IsFiniteSet(two) /\ Cardinality(two) = 2
  BY <1>1, FS_AddElement
<1> HIDE DEF two
<1>4. Cardinality(two) <= Cardinality(S) /\ Cardinality(S) \in Nat
  BY <1>2, FS_Subset, FS_CardinalityType
<1> QED
  BY <1>3, <1>4

\* The users of an ID after a submission with that ID, or with another.
LEMMA UsersFinite ==
  ASSUME NEW i \in ID, IsFiniteSet(Users(i)), NEW s \in Submission,
         \A t \in Submission \ {s} : request'[t] = request[t]
  PROVE  IsFiniteSet(Users(i)')
<1>1. IsFiniteSet(Users(i) \cup {s})
  BY FS_AddElement
<1>2. Users(i)' \subseteq Users(i) \cup {s}
  BY DEF Users
<1> QED
  BY <1>1, <1>2, FS_Subset

LEMMA ResponseTypes ==
  \A s \in Submission :
    /\ Initial(s) \in Response /\ Initial(s).by = s /\ Initial(s).kind = "initial"
    /\ Final(s) \in Response /\ Final(s).by = s /\ Final(s).kind = "final"
    /\ Initial(s) # None /\ Final(s) # None
BY NoneAssumption DEF Initial, Final, Response

LEMMA TransferInitInv ==
  ASSUME TransferInit
  PROVE  TransferInv
<1>1. \A i \in ID : Users(i) = {}
  BY DEF TransferInit, Users
<1>2. \A i \in ID : IsFiniteSet(Users(i))
  BY <1>1, FS_EmptySet
<1> QED
  BY <1>2 DEF TransferInit, TransferInv, TransferTypeOK, Submitted, Answer

LEMMA StoreRequestInv ==
  ASSUME TransferInv, NEW s \in Submission, NEW req \in Requests, StoreRequest(s, req)
  PROVE  TransferInv'
<1>1. req \in Request /\ req # None /\ req.id \in ID
  BY TransferAssumption, NoneAssumption DEF Request
<1>2. TransferTypeOK
  BY DEF TransferInv
<1>3. TransferTypeOK'
  BY <1>1, <1>2 DEF TransferTypeOK, StoreRequest, monitorVars
<1>4. ASSUME NEW t \in Submission
      PROVE  Submitted(t)'
  <2>1. Submitted(t)
    BY DEF TransferInv
  <2> QED
    BY <1>1, <1>2, <2>1 DEF TransferTypeOK, StoreRequest, Submitted
<1>5. ASSUME NEW i \in ID
      PROVE  Answer(i)' /\ IsFiniteSet(Users(i)')
  <2>1. Answer(i) /\ IsFiniteSet(Users(i)) /\ Submitted(s)
    BY DEF TransferInv
  <2>2. \A t \in Submission \ {s} : request'[t] = request[t]
    BY <1>2 DEF StoreRequest, TransferTypeOK
  <2>3. IsFiniteSet(Users(i)')
    BY <2>1, <2>2, UsersFinite
  <2>4. ASSUME responses[i] # None
        PROVE  responses[i].by \in Submission /\ responses[i].by # s
    BY <1>2, <2>1, <2>4 DEF TransferTypeOK, Response, Answer, Stored, Submitted, StoreRequest
  <2>5. Answer(i)'
    BY <1>2, <2>1, <2>4 DEF Answer, Stored, StoreRequest, TransferTypeOK
  <2> QED
    BY <2>3, <2>5
<1>6. ASSUME NEW resp \in round', resp.kind = "final"
      PROVE  pc'[resp.by] = "done"
  <2>1. resp \in Response /\ pc[resp.by] = "done"
    BY <1>2, <1>6 DEF TransferInv, TransferTypeOK, StoreRequest, monitorVars
  <2> QED
    BY <1>2, <2>1 DEF TransferTypeOK, StoreRequest, Response
<1>7. isRunning' \/ cancelled' \/ monitor' = "off"
  BY DEF TransferInv, StoreRequest, monitorVars
<1> QED
  BY <1>3, <1>4, <1>5, <1>6, <1>7 DEF TransferInv

\* A step of one submission that leaves its request alone, and moves it on, but not to
\* or from what the others are judged by.
LEMMA ExecuteInv ==
  ASSUME TransferInv, NEW s \in Submission, Execute(s)
  PROVE  TransferInv'
<1>1. TransferTypeOK /\ Submitted(s)
  BY DEF TransferInv
<1>2. pc[s] \in {"stored", "responded", "executing"} /\ request[s] # None /\ final[s] = None
  BY <1>1 DEF Execute, StoreResponse, StartExecution, executeTransfer, Submitted
<1>3. request[s] \in Request /\ request[s].id \in ID
  BY <1>1, <1>2 DEF TransferTypeOK, Request
<1> DEFINE i0 == request[s].id
<1>4. /\ pc' \in [Submission -> {"new", "stored", "responded", "executing", "done", "failed"}]
      /\ final' \in [Submission -> State \cup {None}]
      /\ responses' \in [ID -> Response \cup {None}]
      /\ UNCHANGED <<request, transfers, monitorVars>>
  BY <1>1, <1>3, ResponseTypes
  DEF TransferTypeOK, Execute, StoreResponse, StartExecution, executeTransfer, State
<1>5. TransferTypeOK'
  BY <1>1, <1>4 DEF TransferTypeOK, monitorVars
<1>6. /\ \A t \in Submission \ {s} : pc'[t] = pc[t] /\ final'[t] = final[t]
      /\ pc'[s] \notin {"new", "stored"}
      /\ pc'[s] = "done" => final'[s] = "confirmed"
      /\ pc'[s] # "done" => final'[s] = None
      /\ \A i \in ID \ {i0} : responses'[i] = responses[i]
      /\ \/ responses'[i0] = responses[i0]
         \/ responses'[i0] = Initial(s)
         \/ responses'[i0] = Final(s) /\ pc'[s] = "done"
  <2>1. CASE StoreResponse(s)
    BY <1>1, <1>2, <1>3, <2>1 DEF TransferTypeOK, StoreResponse
  <2>2. CASE StartExecution(s)
    BY <1>1, <1>2, <1>3, <2>2 DEF TransferTypeOK, StartExecution
  <2>3. CASE executeTransfer(s)
    BY <1>1, <1>2, <1>3, <2>3 DEF TransferTypeOK, executeTransfer
  <2> QED
    BY <2>1, <2>2, <2>3 DEF Execute
<1>7. ASSUME NEW t \in Submission
      PROVE  Submitted(t)'
  <2>1. Submitted(t)
    BY DEF TransferInv
  <2> QED
    BY <1>2, <1>4, <1>6, <2>1 DEF Submitted
<1>8. ASSUME NEW resp \in Response, NEW i \in ID,
             Stored(resp.by), request[resp.by].id = i,
             resp.kind = "initial" => pc[resp.by] \notin {"new", "stored"},
             resp.kind = "final" => pc[resp.by] = "done"
      PROVE  /\ Stored(resp.by)' /\ request'[resp.by].id = i
             /\ resp.kind = "initial" => pc'[resp.by] \notin {"new", "stored"}
             /\ resp.kind = "final" => pc'[resp.by] = "done"
  <2>1. resp.by \in Submission
    BY DEF Response
  <2>2. CASE resp.by = s
    BY <1>2, <1>4, <1>6, <1>8, <2>2 DEF Stored
  <2>3. CASE resp.by # s
    BY <1>4, <1>6, <1>8, <2>1, <2>3 DEF Stored
  <2> QED
    BY <2>2, <2>3
<1>9. ASSUME NEW i \in ID
      PROVE  Answer(i)' /\ IsFiniteSet(Users(i)')
  <2>1. Answer(i) /\ IsFiniteSet(Users(i))
    BY DEF TransferInv
  <2>2. Users(i)' = Users(i)
    BY <1>4 DEF Users
  <2>3. CASE responses'[i] = responses[i]
    <3>1. responses[i] # None => responses[i] \in Response
      BY <1>1 DEF TransferTypeOK
    <3> QED
      BY <1>8, <2>1, <2>2, <2>3, <3>1 DEF Answer
  <2>4. CASE i = i0 /\ (responses'[i] = Initial(s) \/ (responses'[i] = Final(s) /\ pc'[s] = "done"))
    BY <1>2, <1>4, <1>6, <2>1, <2>2, <2>4, ResponseTypes DEF Answer, Stored
  <2>5. \/ responses'[i] = responses[i]
        \/ i = i0 /\ (responses'[i] = Initial(s) \/ (responses'[i] = Final(s) /\ pc'[s] = "done"))
    BY <1>6
  <2> QED
    BY <2>3, <2>4, <2>5
<1>10. ASSUME NEW resp \in round', resp.kind = "final"
       PROVE  pc'[resp.by] = "done"
  <2>1. resp \in Response /\ pc[resp.by] = "done"
    BY <1>1, <1>4, <1>10 DEF TransferInv, TransferTypeOK, monitorVars
  <2> QED
    BY <1>2, <1>6, <2>1 DEF Response
<1>11. isRunning' \/ cancelled' \/ monitor' = "off"
  BY <1>4 DEF TransferInv, monitorVars
<1> QED
  BY <1>5, <1>7, <1>9, <1>10, <1>11 DEF TransferInv

LEMMA MonitorInv ==
  ASSUME TransferInv, Start \/ Stop \/ Monitor
  PROVE  TransferInv'
<1>1. TransferTypeOK
  BY DEF TransferInv
<1>2. UNCHANGED <<pc, request, transfers, responses>>
  BY DEF Start, Stop, Monitor, EndMonitor, checkPendingTransfers, updateTransferStatus, callVars
<1>3. ASSUME NEW resp \in round, updateTransferStatus(resp)
      PROVE  /\ resp \in Response
             /\ \/ final' = final
                \/ /\ final' = [final EXCEPT ![resp.by] = "completed"]
                   /\ pc[resp.by] = "done"
  BY <1>1, <1>3 DEF TransferInv, TransferTypeOK, updateTransferStatus, Checkable
<1>4. \/ final' = final
      \/ \E s \in Submission :
           /\ final' = [final EXCEPT ![s] = "completed"]
           /\ pc[s] = "done"
  BY <1>3 DEF Start, Stop, Monitor, EndMonitor, checkPendingTransfers, Response
<1>5. \A s \in Submission : Submitted(s)'
  BY <1>1, <1>2, <1>4 DEF TransferInv, Submitted, TransferTypeOK
<1>6. \A i \in ID : Answer(i)' /\ IsFiniteSet(Users(i)')
  <2>1. \A i \in ID : Users(i)' = Users(i)
    BY <1>2 DEF Users
  <2>2. \A i \in ID : Answer(i)' = Answer(i)
    BY <1>2 DEF Answer, Stored
  <2> QED
    BY <2>1, <2>2 DEF TransferInv
<1>7. \/ round' \subseteq round
      \/ round' = {responses[i] : i \in {i \in ID : Seen(i) \in {"pending", "confirmed"}}}
  BY DEF Start, Stop, Monitor, EndMonitor, checkPendingTransfers, updateTransferStatus
<1>8. ASSUME NEW resp \in round'
      PROVE  resp \in Response /\ (resp.kind = "final" => pc'[resp.by] = "done")
  <2>1. CASE resp \in round
    BY <1>1, <1>2, <2>1 DEF TransferInv, TransferTypeOK
  <2>2. ASSUME NEW i \in ID, resp = responses[i], Seen(i) \in {"pending", "confirmed"}
        PROVE  resp \in Response /\ (resp.kind = "final" => pc'[resp.by] = "done")
    <3>1. resp # None
      BY <2>2, NoneAssumption DEF Seen, StateOf, State
    <3> QED
      BY <1>1, <1>2, <2>2, <3>1 DEF TransferInv, TransferTypeOK, Answer
  <2> QED
    BY <1>7, <1>8, <2>1, <2>2
<1>9. TransferTypeOK'
  <2>1. final' \in [Submission -> State \cup {None}]
    BY <1>1, <1>4 DEF TransferTypeOK, State
  <2>2. isRunning' \in BOOLEAN /\ cancelled' \in BOOLEAN /\ monitor' \in {"off", "waiting", "round"}
    BY <1>1 DEF TransferTypeOK, Start, Stop, Monitor, EndMonitor, checkPendingTransfers, updateTransferStatus
  <2>3. monitor' = "round" <=> round' # {}
    BY <1>1 DEF TransferInv, TransferTypeOK, Start, Stop, Monitor, EndMonitor, checkPendingTransfers, updateTransferStatus
  <2>4. round' \subseteq Response
    BY <1>8
  <2> QED
    BY <1>1, <1>2, <2>1, <2>2, <2>3, <2>4 DEF TransferTypeOK
<1>10. isRunning' \/ cancelled' \/ monitor' = "off"
  BY <1>1 DEF TransferInv, TransferTypeOK, Start, Stop, Monitor, EndMonitor, checkPendingTransfers,
              updateTransferStatus
<1> QED
  BY <1>5, <1>6, <1>8, <1>9, <1>10 DEF TransferInv

LEMMA TransferNextInv ==
  ASSUME TransferInv, [TransferNext]_transferVars
  PROVE  TransferInv'
<1>1. CASE UNCHANGED transferVars
  <2>1. TransferTypeOK' = TransferTypeOK
    BY <1>1 DEF transferVars, callVars, monitorVars, TransferTypeOK
  <2>2. \A s \in Submission : Submitted(s)' = Submitted(s)
    BY <1>1 DEF transferVars, callVars, Submitted
  <2>3. \A i \in ID : Answer(i)' = Answer(i) /\ Users(i)' = Users(i)
    BY <1>1 DEF transferVars, callVars, Answer, Stored, Users
  <2> QED
    BY <1>1, <2>1, <2>2, <2>3 DEF transferVars, callVars, monitorVars, TransferInv
<1> QED
  BY <1>1, StoreRequestInv, ExecuteInv, MonitorInv DEF TransferNext
-----------------------------------------------------------------------------
LEMMA Ranks ==
  /\ Rank(None) = 0 /\ Rank("pending") = 1 /\ Rank("confirmed") = 2
  /\ Rank("completed") = 3 /\ Rank("failed") = 3
BY NoneAssumption DEF Rank, State

\* What the submissions of an ID see of it is one of the states.
LEMMA SeenRank ==
  ASSUME TransferInv, NEW i \in ID
  PROVE  Rank(Seen(i)) \in 0 .. 3
<1>1. responses[i] # None =>
        responses[i].by \in Submission /\ responses[i].kind \in {"initial", "final"}
  BY DEF TransferInv, TransferTypeOK, Response
<1>2. ASSUME responses[i] # None, responses[i].kind = "final"
      PROVE  final[responses[i].by] \in {"confirmed", "completed"}
  BY <1>1, <1>2 DEF TransferInv, Answer, Submitted
<1> QED
  BY <1>1, <1>2, Ranks DEF Seen, StateOf

\* A step that leaves an ID's response alone.
LEMMA SameAnswer ==
  ASSUME TransferInv, NEW i \in ID, responses'[i] = responses[i],
         \A s \in Submission :
           /\ pc[s] = "failed" => pc'[s] = "failed"
           /\ pc[s] = "done" => final'[s] = final[s] \/ final'[s] = "completed"
  PROVE  Rank(Seen(i)') >= Rank(Seen(i))
<1>1. Rank(Seen(i)) \in 0 .. 3
  BY SeenRank
<1>2. CASE responses[i] = None
  BY <1>1, <1>2 DEF Seen, StateOf
<1>3. CASE responses[i] # None
  <2> DEFINE s == responses[i].by
  <2>1. s \in Submission /\ responses[i].kind \in {"initial", "final"}
    BY <1>3 DEF TransferInv, TransferTypeOK, Response
  <2>2. CASE responses[i].kind = "final"
    <3>1. pc[s] = "done" /\ final[s] \in {"confirmed", "completed"}
      BY <1>3, <2>1, <2>2 DEF TransferInv, Answer, Submitted
    <3>2. Seen(i) = final[s] /\ Seen(i)' = final'[s]
      BY <1>3, <2>2 DEF Seen, StateOf
    <3> QED
      BY <2>1, <3>1, <3>2, Ranks
  <2>3. CASE responses[i].kind = "initial"
    <3>1. /\ Seen(i) = IF pc[s] = "failed" THEN "failed" ELSE "pending"
          /\ Seen(i)' = IF pc'[s] = "failed" THEN "failed" ELSE "pending"
      BY <1>3, <2>3 DEF Seen, StateOf
    <3> QED
      BY <2>1, <3>1, Ranks
  <2> QED
    BY <2>1, <2>2, <2>3
<1> QED
  BY <1>2, <1>3

\* The steps of a call, when no other submission has its ID.
LEMMA ExecuteForward ==
  ASSUME TransferInv, NEW s \in Submission, Execute(s), NEW i \in ID,
         Cardinality(Users(i)') <= 1
  PROVE  Rank(Seen(i)') >= Rank(Seen(i))
<1>1. TransferTypeOK /\ Submitted(s) /\ Answer(i) /\ IsFiniteSet(Users(i))
  BY DEF TransferInv
<1>2. pc[s] \in {"stored", "responded", "executing"} /\ request[s] # None
  BY <1>1 DEF Execute, StoreResponse, StartExecution, executeTransfer, Submitted
<1>3. request[s] \in Request /\ request[s].id \in ID
  BY <1>1, <1>2 DEF TransferTypeOK, Request
<1>4. \A t \in Submission : pc[t] \in {"failed", "done"} => pc'[t] = pc[t] /\ final'[t] = final[t]
  BY <1>1, <1>2 DEF TransferTypeOK, Execute, StoreResponse, StartExecution, executeTransfer
<1>5. CASE StartExecution(s) \/ request[s].id # i
  <2>1. responses'[i] = responses[i]
    BY <1>1, <1>3, <1>5 DEF TransferTypeOK, Execute, StoreResponse, StartExecution, executeTransfer
  <2> QED
    BY <1>4, <2>1, SameAnswer
<1>6. CASE ~StartExecution(s) /\ request[s].id = i
  <2>1. Users(i)' = Users(i) /\ s \in Users(i)
    BY <1>2, <1>6 DEF Users, Execute, StoreResponse, executeTransfer
  <2>2. ASSUME responses[i] # None
        PROVE  responses[i].by = s /\ responses[i].kind \in {"initial", "final"}
    <3>1. responses[i].by \in Users(i) /\ responses[i].kind \in {"initial", "final"}
      BY <1>1, <2>2 DEF TransferTypeOK, Response, Answer, Stored, Users
    <3> QED
      BY <1>1, <2>1, <3>1, OnlyUser
  <2>3. CASE StoreResponse(s)
    <3>1. responses[i] = None
      BY <1>1, <2>2, <2>3 DEF Answer, StoreResponse
    <3>2. responses'[i] = Initial(s) /\ pc'[s] = "responded"
      BY <1>1, <1>3, <1>6, <2>3 DEF TransferTypeOK, StoreResponse
    <3>3. Seen(i) = None /\ Seen(i)' = "pending"
      BY <3>1, <3>2, ResponseTypes DEF Seen, StateOf
    <3> QED
      BY <3>3, Ranks
  <2>4. CASE executeTransfer(s)
    <3>1. Seen(i) \in {None, "pending"}
      BY <1>1, <2>2, <2>4 DEF Answer, executeTransfer, Seen, StateOf
    <3>2. responses'[i] = Final(s) /\ final'[s] = "confirmed"
      BY <1>1, <1>3, <1>6, <2>4 DEF TransferTypeOK, executeTransfer
    <3>3. Seen(i)' = "confirmed"
      BY <3>2, ResponseTypes DEF Seen, StateOf
    <3> QED
      BY <3>1, <3>3, Ranks
  <2> QED
    BY <1>6, <2>3, <2>4 DEF Execute
<1> QED
  BY <1>5, <1>6

LEMMA StepForward ==
  ASSUME TransferInv, [TransferNext]_transferVars, NEW i \in ID, Cardinality(Users(i)') <= 1
  PROVE  Rank(Seen(i)') >= Rank(Seen(i))
<1>1. TransferTypeOK
  BY DEF TransferInv
<1>2. CASE UNCHANGED transferVars
  BY <1>2, SameAnswer DEF transferVars, callVars
<1>3. ASSUME NEW s \in Submission, NEW req \in Requests, StoreRequest(s, req)
      PROVE  Rank(Seen(i)') >= Rank(Seen(i))
  <2>1. /\ responses' = responses /\ final' = final
        /\ \A t \in Submission : pc[t] = "failed" => pc'[t] = "failed"
    BY <1>1, <1>3 DEF TransferTypeOK, StoreRequest
  <2> QED
    BY <2>1, SameAnswer
<1>4. ASSUME NEW s \in Submission, Execute(s)
      PROVE  Rank(Seen(i)') >= Rank(Seen(i))
  BY <1>4, ExecuteForward
<1>5. CASE Start \/ Stop \/ Monitor
  <2>1. UNCHANGED <<pc, responses>>
    BY <1>5 DEF Start, Stop, Monitor, EndMonitor, checkPendingTransfers, updateTransferStatus, callVars
  <2>2. \A t \in Submission : final'[t] = final[t] \/ final'[t] = "completed"
    <3>1. CASE final' = final
      BY <3>1
    <3>2. ASSUME NEW resp \in round, updateTransferStatus(resp)
          PROVE  \A t \in Submission : final'[t] = final[t] \/ final'[t] = "completed"
      BY <1>1, <3>2 DEF updateTransferStatus, TransferTypeOK
    <3> QED
      BY <1>5, <3>1, <3>2 DEF Start, Stop, Monitor, EndMonitor, checkPendingTransfers
  <2> QED
    BY <2>1, <2>2, SameAnswer
<1> QED
  BY <1>2, <1>3, <1>4, <1>5 DEF TransferNext

\* Calls, responses and rounds keep their types, and a round is the monitor's.
THEOREM TransfersTyped == TransferSpec => []TransferTypeOK
BY TransferInitInv, TransferNextInv, PTL DEF TransferSpec, TransferInv

\* What a client sees of its transfer only goes forward, whatever the monitor does with
\* responses it collected before, as long as the ID is not submitted twice.
THEOREM TransfersGoForward == TransferSpec => SeenForward
<1>1. TransferInv /\ [TransferNext]_transferVars =>
        [\A i \in ID : Cardinality(Users(i)') <= 1 => Rank(Seen(i)') >= Rank(Seen(i))]_transferVars
  BY StepForward
<1> QED
  BY <1>1, TransferInitInv, TransferNextInv, PTL DEF TransferSpec, SeenForward
=============================================================================
