----------------------------- MODULE Lifecycle -----------------------------
(***************************************************************************)
(* Starting, stopping and shutting down the bridge SDK: sdk.go with the    *)
(* goroutines of the listeners (listeners.go) and of the event recovery    *)
(* (event_recovery.go); ErrorHandler has those of the error handler.       *)
(* Clients of the SDK call it from goroutines of their own.  sdk.mu is     *)
(* held for reading as long as a call of theirs is under way, and a writer *)
(* that waits keeps new readers out.  A listener is named by its chain and *)
(* by the Initialize that made it.  Events are counted; what becomes of    *)
(* them is in EventIntake and BridgeRelay.                                 *)
(***************************************************************************)
EXTENDS Naturals, FiniteSets, Sequences, SequencesExt

CONSTANTS
  Caller,          \* goroutines of the SDK's clients
  Stopper,         \* the goroutine of Shutdown that stops the listeners
  Listener,        \* "eth" and "sol"
  PanicRecovery,   \* EnablePanicRecovery
  ChanCap,         \* capacity of a listener's channel: 100
  MaxInits,        \* bound: calls of Initialize
  MaxStarts        \* bound: starts of a listener

ASSUME LifecycleAssumption ==
  /\ Stopper \notin Caller
  /\ Listener \subseteq {"eth", "sol"}
  /\ PanicRecovery \in BOOLEAN
  /\ MaxInits \in Nat /\ MaxStarts \in Nat

Obj == Listener \X (1 .. MaxInits)
Thread == Caller \cup {Stopper}

VARIABLES
  inits,            \* Initialize has been called so often: the listeners the SDK has
  isInitialized, isShuttingDown,
  call,             \* what each goroutine does under sdk.mu's read lock
  listener,         \* the listeners' fields and goroutines
  shutdown,         \* where Shutdown is
  toStop,           \* the listeners its goroutine has yet to stop
  recovery,         \* the event recovery: isRunning, stopChan, goroutines
  dbOpen,           \* the replay protection's database
  crashed           \* a goroutine panicked and nothing recovered

sdkVars == <<inits, isInitialized, isShuttingDown>>
lifeVars == <<sdkVars, call, listener, shutdown, toStop, recovery, dbOpen, crashed>>

Idle == [op |-> "none"]
SourceState == {"connecting", "subscribed", "simulating"}

\* How many goroutines that produce events are in each of their states, and how many
\* that process events wait for one or handle one; overlapped is history: two starts
\* were under way at once.
NewListener ==
  [isRunning |-> FALSE, stopClosed |-> FALSE, starts |-> 0, queued |-> 0,
   source |-> [s \in SourceState |-> 0], waiting |-> 0, handling |-> 0,
   overlapped |-> FALSE]

LifeInit ==
  /\ inits = 0 /\ isInitialized = FALSE /\ isShuttingDown = FALSE
  /\ call = [k \in Thread |-> Idle]
  /\ listener = [o \in Obj |-> NewListener]
  /\ shutdown = "no" /\ toStop = <<>>
  /\ recovery = [isRunning |-> FALSE, stopClosed |-> FALSE, workers |-> 0]
  /\ dbOpen = TRUE
  /\ crashed = FALSE

Reading == {k \in Thread : call[k].op # "none"}
WriterWaits == shutdown \in {"locking", "relocking"}
MayRead(k) == call[k].op = "none" /\ ~WriterWaits

Current(l) == <<l, inits>>
-----------------------------------------------------------------------------
\* New listeners in place of the old ones, whether or not those were stopped, and
\* whether or not a shutdown is under way.
Initialize ==
  /\ Reading = {} /\ ~WriterWaits
  /\ ~isInitialized
  /\ inits < MaxInits
  /\ inits' = inits + 1
  /\ isInitialized' = TRUE
  /\ recovery' = IF recovery.isRunning THEN recovery
                 ELSE [recovery EXCEPT !.isRunning = TRUE, !.workers = @ + 2]
  /\ UNCHANGED <<isShuttingDown, call, listener, shutdown, toStop, dbOpen, crashed>>

\* Whether StartEthListener and StartSolanaListener go on to Start.
MayStart(o) ==
  /\ ~isShuttingDown
  /\ isInitialized
  /\ ~listener[o].isRunning

Starting(o) == {j \in Thread : call[j].op \in {"start", "set"} /\ call[j].of = o}

\* isRunning is read without a lock of the listener.  Bound: MaxStarts.
StartListener(k, l) ==
  LET o == Current(l)
  IN /\ MayRead(k) /\ inits > 0
     /\ MayStart(o)
     /\ listener[o].starts + Cardinality(Starting(o)) < MaxStarts
     /\ call' = [call EXCEPT ![k] = [op |-> "start", of |-> o]]
     /\ listener' = [listener EXCEPT ![o].overlapped = @ \/ Starting(o) # {}]
     /\ UNCHANGED <<sdkVars, shutdown, toStop, recovery, dbOpen, crashed>>

\* Start looks at isRunning once more, then sets it.
StartAgain(k) ==
  /\ call[k].op = "start"
  /\ call' = [call EXCEPT ![k] = IF listener[@.of].isRunning THEN Idle ELSE [@ EXCEPT !.op = "set"]]
  /\ UNCHANGED <<sdkVars, listener, shutdown, toStop, recovery, dbOpen, crashed>>

\* Ethereum's source connects first.
FirstSource(l) == IF l = "eth" THEN "connecting" ELSE "simulating"

Start(k) ==
  /\ call[k].op = "set"
  /\ LET o == call[k].of
     IN listener' = [listener EXCEPT ![o].isRunning = TRUE, ![o].starts = @ + 1,
                       ![o].source[FirstSource(o[1])] = @ + 1, ![o].waiting = @ + 1]
  /\ call' = [call EXCEPT ![k] = Idle]
  /\ UNCHANGED <<sdkVars, shutdown, toStop, recovery, dbOpen, crashed>>

StopListener(k, l) ==
  LET o == Current(l)
  IN /\ MayRead(k) /\ inits > 0
     /\ listener[o].isRunning
     /\ call' = [call EXCEPT ![k] = [op |-> "stop", of |-> o]]
     /\ UNCHANGED <<sdkVars, listener, shutdown, toStop, recovery, dbOpen, crashed>>

FaultyStop(k) ==
  /\ call[k].op = "stop"
  /\ listener' = [listener EXCEPT ![call[k].of].isRunning = FALSE]
  /\ call' = [call EXCEPT ![k] = Idle]
  /\ UNCHANGED <<sdkVars, shutdown, toStop, recovery, dbOpen, crashed>>

\* The channel may have been closed by another call, or before the listener was
\* started again: it is never made anew.
Stop(k) ==
  /\ call[k].op = "stop"
  /\ LET o == call[k].of
     IN IF listener[o].stopClosed
        THEN crashed' = ~PanicRecovery /\ UNCHANGED listener
        ELSE /\ listener' = [listener EXCEPT ![o].stopClosed = TRUE, ![o].isRunning = FALSE]
             /\ UNCHANGED crashed
  /\ call' = [call EXCEPT ![k] = Idle]
  /\ UNCHANGED <<sdkVars, shutdown, toStop, recovery, dbOpen>>

\* RelayBegins holds the lock through all its retries.
RelayBegins(k) ==
  /\ MayRead(k)
  /\ isInitialized
  /\ call' = [call EXCEPT ![k] = [op |-> "relay"]]
  /\ UNCHANGED <<sdkVars, listener, shutdown, toStop, recovery, dbOpen, crashed>>

RelayEnds(k) ==
  /\ call[k].op = "relay"
  /\ call' = [call EXCEPT ![k] = Idle]
  /\ UNCHANGED <<sdkVars, listener, shutdown, toStop, recovery, dbOpen, crashed>>
-----------------------------------------------------------------------------
\* WithRetry subscribes, or fails and the listener simulates.
Connect(o) ==
  /\ listener[o].source["connecting"] > 0
  /\ \E s \in {"subscribed", "simulating"} :
       listener' = [listener EXCEPT ![o].source["connecting"] = @ - 1, ![o].source[s] = @ + 1]
  /\ UNCHANGED <<sdkVars, call, shutdown, toStop, recovery, dbOpen, crashed>>

\* An event, unless the channel is full.
NewEvent(o) ==
  /\ listener[o].source["subscribed"] + listener[o].source["simulating"] > 0
  /\ listener[o].queued < ChanCap
  /\ listener' = [listener EXCEPT ![o].queued = @ + 1]
  /\ UNCHANGED <<sdkVars, call, shutdown, toStop, recovery, dbOpen, crashed>>

\* A subscription also ends when the connection does, and nothing renews it.
SourceEnds(o, s) ==
  /\ listener[o].source[s] > 0
  /\ s = "subscribed" \/ (s = "simulating" /\ listener[o].stopClosed)
  /\ listener' = [listener EXCEPT ![o].source[s] = @ - 1]
  /\ UNCHANGED <<sdkVars, call, shutdown, toStop, recovery, dbOpen, crashed>>

\* processEvents takes an event, and drops it when the database says so or is closed.
ProcessEvent(o) ==
  /\ listener[o].waiting > 0
  /\ listener[o].queued > 0
  /\ \/ listener' = [listener EXCEPT ![o].queued = @ - 1]
     \/ /\ dbOpen
        /\ listener' = [listener EXCEPT ![o].queued = @ - 1, ![o].waiting = @ - 1,
                          ![o].handling = @ + 1]
  /\ UNCHANGED <<sdkVars, call, shutdown, toStop, recovery, dbOpen, crashed>>

\* It is handled, or handed to the retry queue and the recovery.
EventHandled(o) ==
  /\ listener[o].handling > 0
  /\ listener' = [listener EXCEPT ![o].handling = @ - 1, ![o].waiting = @ + 1]
  /\ UNCHANGED <<sdkVars, call, shutdown, toStop, recovery, dbOpen, crashed>>

EventsEnd(o) ==
  /\ listener[o].waiting > 0
  /\ listener[o].stopClosed
  /\ listener' = [listener EXCEPT ![o].waiting = @ - 1]
  /\ UNCHANGED <<sdkVars, call, shutdown, toStop, recovery, dbOpen, crashed>>
-----------------------------------------------------------------------------
RecoveryEnds ==
  /\ recovery.workers > 0 /\ recovery.stopClosed
  /\ recovery' = [recovery EXCEPT !.workers = @ - 1]
  /\ UNCHANGED <<sdkVars, call, listener, shutdown, toStop, dbOpen, crashed>>
-----------------------------------------------------------------------------
\* Shutdown asks for the lock, and gets it when the calls under way have ended.
Shutdown ==
  /\ shutdown = "no"
  /\ shutdown' = "locking"
  /\ UNCHANGED <<sdkVars, call, listener, toStop, recovery, dbOpen, crashed>>

FaultySignalShutdown ==
  /\ shutdown = "locking"
  /\ isShuttingDown' = TRUE
  /\ shutdown' = "stopping"
  /\ toStop' = SelectSeq(<<"eth", "sol">>, LAMBDA l : l \in Listener)
  /\ UNCHANGED <<inits, isInitialized, call, listener, recovery, dbOpen, crashed>>

\* A goroutine is to stop the listeners, Ethereum's first.
SignalShutdown ==
  /\ shutdown = "locking" /\ Reading = {}
  /\ isShuttingDown' = TRUE
  /\ shutdown' = "stopping"
  /\ toStop' = SelectSeq(<<"eth", "sol">>, LAMBDA l : l \in Listener)
  /\ UNCHANGED <<inits, isInitialized, call, listener, recovery, dbOpen, crashed>>

\* It finds one that does not run, or calls its Stop.
StopNext ==
  /\ toStop # <<>> /\ MayRead(Stopper)
  /\ toStop' = Tail(toStop)
  /\ call' = IF inits > 0 /\ listener[Current(Head(toStop))].isRunning
             THEN [call EXCEPT ![Stopper] = [op |-> "stop", of |-> Current(Head(toStop))]]
             ELSE call
  /\ UNCHANGED <<sdkVars, listener, shutdown, recovery, dbOpen, crashed>>

\* They are stopped, or half of GracefulShutdownTime is over: then the event recovery
\* is stopped.
StopRecovery ==
  /\ shutdown = "stopping"
  /\ shutdown' = "closing"
  /\ recovery' = IF recovery.isRunning
                 THEN [recovery EXCEPT !.isRunning = FALSE, !.stopClosed = TRUE] ELSE recovery
  /\ UNCHANGED <<sdkVars, call, listener, toStop, dbOpen, crashed>>

CloseDatabase ==
  /\ shutdown = "closing"
  /\ shutdown' = "handler"
  /\ dbOpen' = FALSE
  /\ UNCHANGED <<sdkVars, call, listener, toStop, recovery, crashed>>

\* ErrorHandler has its steps, and that it returns.
ShutDownHandler ==
  /\ shutdown = "handler"
  /\ shutdown' = "relocking"
  /\ UNCHANGED <<sdkVars, call, listener, toStop, recovery, dbOpen, crashed>>

FinishShutdown ==
  /\ shutdown = "relocking" /\ Reading = {}
  /\ isInitialized' = FALSE
  /\ shutdown' = "done"
  /\ UNCHANGED <<inits, isShuttingDown, call, listener, toStop, recovery, dbOpen, crashed>>

ShutdownStep ==
  \/ SignalShutdown \/ StopRecovery \/ CloseDatabase
  \/ ShutDownHandler \/ FinishShutdown
-----------------------------------------------------------------------------
\* What a goroutine that has begun goes on to do.
CallStep(k) == StartAgain(k) \/ Start(k) \/ Stop(k) \/ RelayEnds(k)

SourceStep(o) ==
  Connect(o) \/ (listener[o].stopClosed /\ \E s \in SourceState : SourceEnds(o, s))

EventStep(o) == EventHandled(o) \/ EventsEnd(o)

LifeNext ==
  /\ ~crashed
  /\ \/ Initialize \/ Shutdown \/ ShutdownStep \/ StopNext
     \/ \E k \in Caller :
          \/ RelayBegins(k)
          \/ \E l \in Listener : StartListener(k, l) \/ StopListener(k, l)
     \/ \E k \in Thread : CallStep(k)
     \/ \E o \in Obj :
          \/ Connect(o) \/ NewEvent(o) \/ (\E s \in SourceState : SourceEnds(o, s))
          \/ ProcessEvent(o) \/ EventHandled(o) \/ EventsEnd(o)
     \/ RecoveryEnds

LifeSpec == LifeInit /\ [][LifeNext]_lifeVars

\* Goroutines run on while the process does; retries are limited in number, waits in
\* time, and a closed stopChan or a done context is noticed.
LifeFairness ==
  /\ WF_lifeVars(~crashed /\ ShutdownStep)
  /\ WF_lifeVars(~crashed /\ StopNext)
  /\ \A k \in Thread : WF_lifeVars(~crashed /\ CallStep(k))
  /\ \A o \in Obj :
       WF_lifeVars(~crashed /\ SourceStep(o)) /\ WF_lifeVars(~crashed /\ EventStep(o))
  /\ WF_lifeVars(~crashed /\ RecoveryEnds)
-----------------------------------------------------------------------------
Processors(o) == listener[o].waiting + listener[o].handling
Ended(o) == Processors(o) = 0 /\ \A s \in SourceState : listener[o].source[s] = 0

\* A shutdown of an initialized SDK comes to its end, whatever calls are under way when
\* it begins and whether or not its wait for the listeners times out, and leaves none of
\* their goroutines or the recovery's behind; unless the SDK is initialized again, as
\* then the listeners it had are out of reach.
ShutdownEnds ==
  shutdown \in {"locking", "stopping"} /\ isInitialized ~>
    \/ crashed \/ inits > 1
    \/ shutdown = "done" /\ (\A o \in Obj : Ended(o)) /\ recovery.workers = 0

\* A listener has two goroutines processing its events only if two calls to start it
\* were under way at once, or none that would last.
OneIntake ==
  \A o \in Obj :
    Processors(o) > 1 => listener[o].overlapped \/ listener[o].stopClosed
=============================================================================
