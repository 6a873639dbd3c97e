---------------------------- MODULE ErrorHandler ----------------------------
(***************************************************************************)
(* The retry queue and the dead letters of the bridge SDK's error handler  *)
(* (bridge-sdk/error_handler.go), its workers and its GracefulShutdown.    *)
(* Listeners add events from goroutines of their own.  What a worker does  *)
(* with an event changes nothing: a "retry" is a success without doing     *)
(* anything, and a dead letter is logged.  The metrics, the health states  *)
(* and the circuit breakers are not here (the breakers are in BridgeRelay).*)
(***************************************************************************)
EXTENDS Naturals, Sequences, FiniteSets, SequencesExt

CONSTANTS
  Event,       \* events that could not be handled
  RetryCap,    \* RetryQueueSize
  DeadCap      \* DeadLetterQueueSize

\* Channels without a buffer are another matter.
ASSUME HandlerAssumption == RetryCap \in Nat \ {0} /\ DeadCap \in Nat \ {0}

\* The two others wait for tickers.
Worker == {"retry", "dead", "health", "cleanup"}

VARIABLES
  retryQueue, deadLetterQueue,
  workers,         \* the goroutines of startWorkers that have not ended
  working,         \* the event a worker has taken, if any
  ehDown, cancelled,   \* the handler's isShuttingDown, and ctx is done
  phase,           \* where GracefulShutdown is
  adding,          \* events in AddToRetryQueue, past the check of the flag
  late             \* history: those in it when the flag was set

queueVars == <<retryQueue, deadLetterQueue>>
workerVars == <<workers, working>>
stopVars == <<ehDown, cancelled, phase>>
addVars == <<adding, late>>
handlerVars == <<queueVars, workerVars, stopVars, addVars>>

HandlerInit ==
  /\ retryQueue = <<>> /\ deadLetterQueue = <<>>
  /\ workers = Worker
  /\ working = [w \in Worker |-> {}]
  /\ ehDown = FALSE /\ cancelled = FALSE
  /\ phase = "up"
  /\ adding = {} /\ late = {}

\* Bound: an event is not added again while it is here.
Held == adding \cup Range(retryQueue) \cup Range(deadLetterQueue) \cup UNION Range(working)

FaultyMayAdd == TRUE

\* The flag is read without the lock.
MayAdd == ~ehDown

AddToRetryQueue(e) ==
  /\ e \notin Held
  /\ MayAdd
  /\ adding' = adding \cup {e}
  /\ UNCHANGED <<queueVars, workerVars, stopVars, late>>

\* An event goes to the dead letters, or is dropped.
moveToDeadLetterQueue(e) ==
  deadLetterQueue' = IF Len(deadLetterQueue) < DeadCap
                     THEN Append(deadLetterQueue, e) ELSE deadLetterQueue

Enqueue(e) ==
  /\ e \in adding
  /\ adding' = adding \ {e}
  /\ IF Len(retryQueue) < RetryCap
     THEN retryQueue' = Append(retryQueue, e) /\ UNCHANGED deadLetterQueue
     ELSE moveToDeadLetterQueue(e) /\ UNCHANGED retryQueue
  /\ UNCHANGED <<workerVars, stopVars, late>>

\* The workers go on taking events as long as the context is not done, and may when it
\* is: select chooses at random.
processRetryQueue ==
  /\ "retry" \in workers /\ working["retry"] = {}
  /\ retryQueue # <<>>
  /\ working' = [working EXCEPT !["retry"] = {Head(retryQueue)}]
  /\ retryQueue' = Tail(retryQueue)
  /\ UNCHANGED <<workers, deadLetterQueue, stopVars, addVars>>

processDeadLetterQueue ==
  /\ "dead" \in workers /\ working["dead"] = {}
  /\ deadLetterQueue # <<>>
  /\ working' = [working EXCEPT !["dead"] = {Head(deadLetterQueue)}]
  /\ deadLetterQueue' = Tail(deadLetterQueue)
  /\ UNCHANGED <<workers, retryQueue, stopVars, addVars>>

\* processRetryEvent has slept until NextRetry; RetryCount is 0 for every event.
Processed(w) ==
  /\ working[w] # {}
  /\ working' = [working EXCEPT ![w] = {}]
  /\ UNCHANGED <<workers, queueVars, stopVars, addVars>>

WorkerEnds(w) ==
  /\ w \in workers /\ working[w] = {}
  /\ cancelled
  /\ workers' = workers \ {w}
  /\ UNCHANGED <<working, queueVars, stopVars, addVars>>

GracefulShutdown ==
  /\ phase = "up"
  /\ ehDown' = TRUE
  /\ late' = adding
  /\ phase' = "cancelling"
  /\ UNCHANGED <<cancelled, queueVars, workerVars, adding>>

Cancel ==
  /\ phase = "cancelling"
  /\ cancelled' = TRUE
  /\ phase' = "waiting"
  /\ UNCHANGED <<ehDown, queueVars, workerVars, addVars>>

\* All workers have ended, or GracefulShutdownTime is over.
Waited ==
  /\ phase = "waiting"
  /\ phase' = "draining"
  /\ UNCHANGED <<ehDown, cancelled, queueVars, workerVars, addVars>>

\* drainQueues takes and logs what the retry queue holds, then the dead letters, each
\* until it finds the queue empty.
drainQueues ==
  /\ phase \in {"draining", "dead letters"}
  /\ IF phase = "draining"
     THEN /\ retryQueue' = IF retryQueue = <<>> THEN <<>> ELSE Tail(retryQueue)
          /\ phase' = IF retryQueue = <<>> THEN "dead letters" ELSE phase
          /\ UNCHANGED deadLetterQueue
     ELSE /\ deadLetterQueue' = IF deadLetterQueue = <<>> THEN <<>> ELSE Tail(deadLetterQueue)
          /\ phase' = IF deadLetterQueue = <<>> THEN "down" ELSE phase
          /\ UNCHANGED retryQueue
  /\ UNCHANGED <<ehDown, cancelled, workerVars, addVars>>

HandlerShutdownStep == Cancel \/ Waited \/ drainQueues

HandlerNext ==
  \/ \E e \in Event : AddToRetryQueue(e) \/ Enqueue(e)
  \/ processRetryQueue \/ processDeadLetterQueue
  \/ \E w \in Worker : Processed(w) \/ WorkerEnds(w)
  \/ GracefulShutdown \/ HandlerShutdownStep

HandlerSpec == HandlerInit /\ [][HandlerNext]_handlerVars

\* The goroutine of the shutdown runs on, as do the workers; one that finds its queue
\* filled and ctx done ends in the end, as select chooses at random.
HandlerFairness ==
  /\ WF_handlerVars(HandlerShutdownStep)
  /\ \A w \in Worker : WF_handlerVars(Processed(w) \/ WorkerEnds(w))
-----------------------------------------------------------------------------
\* A graceful shutdown comes to its end and ends every worker, whatever is added to the
\* queues while it goes on.
HandlerEnds == phase # "up" ~> phase = "down" /\ workers = {}

\* What a finished shutdown and its workers leave in the queues was on its way into them
\* when the flag was set: nobody handles or logs it any more.
OnlyLateLeft ==
  phase = "down" /\ workers = {} =>
    Range(retryQueue) \cup Range(deadLetterQueue) \subseteq late
=============================================================================
