-------------------------- MODULE TransferManager --------------------------
(***************************************************************************)
(* The manager of token transfers between chains (bridge/core) behind the  *)
(* SDK's InitiateTokenTransfer and GetTokenTransferStatus.  A submission   *)
(* is one call of InitiateTransfer and the goroutine it starts; a submitter*)
(* chooses the request's ID, and nothing keeps two submissions from using  *)
(* the same one.  The maps hold pointers: a response is named here by the  *)
(* submission that created it, which creates two, the initial one and the  *)
(* one its handler returns.  The handlers send nothing: InitiateTransfer   *)
(* of each makes up a hash and GetTransferStatus calls it completed.       *)
(***************************************************************************)
EXTENDS Integers, FiniteSets

CONSTANTS
  Submission,   \* calls of InitiateTransfer
  ID,           \* request IDs
  Chain,        \* chain names, the unsupported ones included
  Supported,    \* chains with a validator, a fee calculator and a handler
  Form,         \* forms of an address
  FormOf,       \* the form an address of a supported chain must have
  Requests,     \* bound of the runs: the requests that are submitted
  None          \* no request, response or state

\* A request; inTime says whether its deadline is still to come.
Request ==
  [id : ID, from : Chain, to : Chain, fromForm : Form, toForm : Form,
   positive : BOOLEAN, inTime : BOOLEAN]

ASSUME TransferAssumption ==
  /\ Supported \subseteq Chain
  /\ FormOf \in [Supported -> Form]
  /\ Requests \subseteq Request

State == {"pending", "confirmed", "completed", "failed"}

Response == [by : Submission, kind : {"initial", "final"}]

ASSUME NoneAssumption == None \notin Request /\ None \notin Response /\ None \notin State

VARIABLES
  pc,          \* where each submission is
  request,     \* the request it was made with
  final,       \* state of the response its handler returned
  transfers,   \* ttm.transfers: the submission whose request an ID has
  responses,   \* ttm.responses: the response an ID has
  isRunning, cancelled,    \* ttm.isRunning, and ctx is done
  monitor,     \* the monitoring goroutine: "off", "waiting" or "round"
  round        \* the responses its round has yet to look at

callVars == <<pc, request>>
monitorVars == <<isRunning, cancelled, monitor, round>>
transferVars == <<pc, request, final, transfers, responses, monitorVars>>

TransferInit ==
  /\ pc = [s \in Submission |-> "new"]
  /\ request = [s \in Submission |-> None]
  /\ final = [s \in Submission |-> None]
  /\ transfers = [i \in ID |-> None]
  /\ responses = [i \in ID |-> None]
  /\ isRunning = FALSE /\ cancelled = FALSE
  /\ monitor = "off" /\ round = {}

Initial(s) == [by |-> s, kind |-> "initial"]
Final(s) == [by |-> s, kind |-> "final"]

\* The handler's response is an object of its own: the initial one stays pending,
\* or is marked as failed when there is no handler.
StateOf(resp) ==
  IF resp = None THEN None
  ELSE IF resp.kind = "final" THEN final[resp.by]
  ELSE IF pc[resp.by] = "failed" THEN "failed" ELSE "pending"

\* GetTransferStatus.
Seen(i) == StateOf(responses[i])

\* ValidateAddress of the chain's validator; a chain without one takes any
\* address.
ValidAddress(chain, form) == chain \in Supported => form = FormOf[chain]

\* ValidateTransferRequest.  A request whose amount is no number makes the fee
\* calculator panic, which ends the call as well.
ValidateTransferRequest(req) ==
  /\ req.from # req.to
  /\ req.positive
  /\ req.inTime
  /\ ValidAddress(req.from, req.fromForm)
  /\ ValidAddress(req.to, req.toForm)

\* A valid request is stored; one that is refused changes nothing.
StoreRequest(s, req) ==
  /\ pc[s] = "new"
  /\ ValidateTransferRequest(req)
  /\ pc' = [pc EXCEPT ![s] = "stored"]
  /\ request' = [request EXCEPT ![s] = req]
  /\ transfers' = [transfers EXCEPT ![req.id] = s]
  /\ UNCHANGED <<final, responses, monitorVars>>

FaultyStoreResponse(s) ==
  /\ pc[s] \in {"stored", "done"}
  /\ responses' = [responses EXCEPT ![request[s].id] = Initial(s)]
  /\ pc' = [pc EXCEPT ![s] = IF @ = "stored" THEN "responded" ELSE @]
  /\ UNCHANGED <<request, final, transfers, monitorVars>>

\* The lock is taken again for the first response.
StoreResponse(s) ==
  /\ pc[s] = "stored"
  /\ responses' = [responses EXCEPT ![request[s].id] = Initial(s)]
  /\ pc' = [pc EXCEPT ![s] = "responded"]
  /\ UNCHANGED <<request, final, transfers, monitorVars>>

\* The handler is looked up: the transfer runs in a goroutine, or has failed.
StartExecution(s) ==
  /\ pc[s] = "responded"
  /\ pc' = [pc EXCEPT ![s] =
       IF request[s].from \in Supported THEN "executing" ELSE "failed"]
  /\ UNCHANGED <<request, final, transfers, responses, monitorVars>>

FaultyExecuteTransfer(s) ==
  /\ pc[s] = "executing"
  /\ pc' = [pc EXCEPT ![s] = "done"]
  /\ final' = [final EXCEPT ![s] = "confirmed"]
  /\ UNCHANGED <<request, transfers, responses, monitorVars>>

\* The handler returns a confirmed response, which replaces whatever the ID has by
\* now.
executeTransfer(s) ==
  /\ pc[s] = "executing"
  /\ pc' = [pc EXCEPT ![s] = "done"]
  /\ final' = [final EXCEPT ![s] = "confirmed"]
  /\ responses' = [responses EXCEPT ![request[s].id] = Final(s)]
  /\ UNCHANGED <<request, transfers, monitorVars>>
-----------------------------------------------------------------------------
\* The context is cancelled for good by the first Stop: a monitor started after it
\* ends at once.
Start ==
  /\ ~isRunning
  /\ isRunning' = TRUE
  /\ monitor' = IF cancelled THEN monitor ELSE "waiting"
  /\ UNCHANGED <<callVars, final, transfers, responses, cancelled, round>>

Stop ==
  /\ isRunning
  /\ isRunning' = FALSE
  /\ cancelled' = TRUE
  /\ UNCHANGED <<callVars, final, transfers, responses, monitor, round>>

EndMonitor ==
  /\ monitor = "waiting"
  /\ cancelled
  /\ monitor' = "off"
  /\ UNCHANGED <<callVars, final, transfers, responses, isRunning, cancelled, round>>

\* A tick of the ticker, which the select may prefer to a context that is done:
\* the pending and confirmed responses are collected under the lock.
checkPendingTransfers ==
  /\ monitor = "waiting"
  /\ round' = {responses[i] : i \in {i \in ID : Seen(i) \in {"pending", "confirmed"}}}
  /\ monitor' = IF round' = {} THEN "waiting" ELSE "round"
  /\ UNCHANGED <<callVars, final, transfers, responses, isRunning, cancelled>>

\* A response without a hash is left alone, and so is one whose ID has meanwhile
\* been taken by a request from a chain without a handler.
Checkable(resp) ==
  /\ resp.kind = "final"
  /\ request[transfers[request[resp.by].id]].from \in Supported

\* The response may no longer be the one its ID has.
updateTransferStatus(resp) ==
  /\ monitor = "round"
  /\ resp \in round
  /\ final' = IF Checkable(resp) THEN [final EXCEPT ![resp.by] = "completed"] ELSE final
  /\ round' = round \ {resp}
  /\ monitor' = IF round' = {} THEN "waiting" ELSE "round"
  /\ UNCHANGED <<callVars, transfers, responses, isRunning, cancelled>>

Execute(s) == StoreResponse(s) \/ StartExecution(s) \/ executeTransfer(s)

Monitor ==
  \/ EndMonitor
  \/ checkPendingTransfers
  \/ \E resp \in round : updateTransferStatus(resp)

TransferNext ==
  \/ \E s \in Submission, req \in Requests : StoreRequest(s, req)
  \/ \E s \in Submission : Execute(s)
  \/ Start
  \/ Stop
  \/ Monitor

TransferSpec == TransferInit /\ [][TransferNext]_transferVars

\* Calls and goroutines that have begun go on, and the ticker ticks.
TransferFairSpec ==
  /\ TransferSpec
  /\ \A s \in Submission : WF_transferVars(Execute(s))
  /\ WF_transferVars(Monitor)
-----------------------------------------------------------------------------
\* Types, and that a round is the monitor's.
TransferTypeOK ==
  /\ pc \in [Submission -> {"new", "stored", "responded", "executing", "done", "failed"}]
  /\ request \in [Submission -> Request \cup {None}]
  /\ final \in [Submission -> State \cup {None}]
  /\ transfers \in [ID -> Submission \cup {None}]
  /\ responses \in [ID -> Response \cup {None}]
  /\ isRunning \in BOOLEAN /\ cancelled \in BOOLEAN
  /\ monitor \in {"off", "waiting", "round"}
  /\ round \subseteq Response
  /\ monitor = "round" <=> round # {}

\* The submissions stored under an ID.
Users(i) == {s \in Submission : request[s] # None /\ request[s].id = i}

Rank(state) ==
  IF state = None THEN 0
  ELSE CASE state = "pending" -> 1
         [] state = "confirmed" -> 2
         [] state \in {"completed", "failed"} -> 3

\* What a client sees of its transfer only goes forward, whatever the monitor does
\* with responses it collected earlier, as long as the ID is not submitted twice.
SeenForward ==
  [][\A i \in ID :
       Cardinality(Users(i)') <= 1 => Rank(Seen(i)') >= Rank(Seen(i))]_transferVars

\* While a monitor is kept running, every transfer from a supported chain is seen
\* completed at last, unless its ID is submitted again.
MonitoredCompletes ==
  <>[](monitor # "off") =>
    \A s \in Submission, i \in ID :
      (Users(i) = {s} /\ request[s].from \in Supported)
        ~> (Seen(i) = "completed" \/ Users(i) # {s})
=============================================================================
