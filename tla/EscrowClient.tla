---------------------------- MODULE EscrowClient ----------------------------
(***************************************************************************)
(* The escrow calls of the wallet library (services/wallet/wallet) and the *)
(* node's handler of /api/escrow/request, around the manager of module     *)
(* Escrow: balances are checked first, by calls of their own, and the      *)
(* request is posted to one connected peer after the other until one       *)
(* answers with success.  A request may not get there, and an answer may   *)
(* be lost when the manager has done what it was asked.                    *)
(*                                                                         *)
(* The peers are those whose API is this node's; another node has a        *)
(* manager of its own.  The wallet is open (module WalletService), and     *)
(* other users call the same API meanwhile: their calls are Escrow's Next. *)
(***************************************************************************)
EXTENDS Escrow

CONSTANTS
  Request,   \* calls of the library
  Asked,     \* amounts in them
  Peers      \* how many of the connected peers lead to this node

ASSUME EscrowClientAssumption == Asked \subseteq Nat /\ Peers \in Nat

Op == {"create", "confirm", "release", "cancel", "details", "list"}

NoCall == [step |-> "idle"]

CreateCall ==
  [step : {"check", "recheck", "send", "failed"}, op : {"create"}, who : Party,
   receiver : Party, arbitrator : Signer, amount : Nat, left : 0 .. Peers]

OtherCall ==
  [step : {"send", "told", "failed", "panicked"}, op : Op \ {"create"}, who : Party,
   escrow : Id, left : 0 .. Peers]

Answered == [step : {"told"}, op : Op, who : Party, escrow : Id]

VARIABLES
  calls,     \* the calls of the library
  made,      \* history: the escrows made for a call of CreateEscrow
  unheard,   \* history: calls of which an answer was lost
  paidBy     \* history: releases and cancellations done for calls, by escrow

clientVars == <<calls, made, unheard, paidBy>>

ClientInit ==
  /\ Init
  /\ calls = [r \in Request |-> NoCall]
  /\ made = [r \in Request |-> {}]
  /\ unheard = {}
  /\ paidBy = [d \in Id |-> 0]

At(r, step) == calls[r].step = step
GoTo(r, step) == calls' = [calls EXCEPT ![r].step = step]
-----------------------------------------------------------------------------
\* CreateEscrowTransfer.  With no peer connected a call ends before it posts.
CreateEscrowTransfer(r, sender, receiver, arbitrator, amount) ==
  /\ At(r, "idle")
  /\ calls' = [calls EXCEPT ![r] =
       [step |-> "check", op |-> "create", who |-> sender, receiver |-> receiver,
        arbitrator |-> arbitrator, amount |-> amount, left |-> Peers]]
  /\ UNCHANGED <<made, unheard, paidBy, vars>>

\* TransferTokensWithEscrow is the same for an amount that is not 0.
TransferTokensWithEscrow(r, sender, receiver, arbitrator, amount) ==
  /\ Peers > 0 /\ amount > 0
  /\ CreateEscrowTransfer(r, sender, receiver, arbitrator, amount)

\* The handler of /api/balance/query reads the token's balance.
Covered(r) == balances[calls[r].who] >= calls[r].amount

\* GetTokenBalance asks the node; without an answer, or with too small a balance,
\* the call fails.  Both the caller of CreateEscrow and CreateEscrow check.
CheckBalance(r) ==
  /\ calls[r].step \in {"check", "recheck"}
  /\ \/ /\ Covered(r)
        /\ GoTo(r, IF At(r, "check") THEN "recheck" ELSE "send")
     \/ GoTo(r, "failed")
  /\ UNCHANGED <<made, unheard, paidBy, vars>>

\* ConfirmEscrow, ReleaseEscrow and CancelEscrow of the library, GetEscrowDetails
\* and GetUserEscrows: any escrow's ID, in the name of the wallet's address.
Call(r, op, who, d) ==
  /\ At(r, "idle")
  /\ calls' = [calls EXCEPT ![r] =
       [step |-> "send", op |-> op, who |-> who, escrow |-> d, left |-> Peers]]
  /\ UNCHANGED <<made, unheard, paidBy, vars>>

Posts(r, op) == At(r, "send") /\ calls[r].op = op /\ calls[r].left > 0

FaultyAnswer(r, d) ==
  /\ calls' = [calls EXCEPT ![r].left = @ - 1]
  /\ UNCHANGED unheard

\* The node has done what it was asked: the caller hears of it, or the loop of
\* sendEscrowRequest goes on to the next peer.
Answer(r, d) ==
  \/ /\ calls' = [calls EXCEPT ![r] =
          [step |-> "told", op |-> @.op, who |-> @.who, escrow |-> d]]
     /\ UNCHANGED unheard
  \/ /\ calls' = [calls EXCEPT ![r].left = @ - 1]
     /\ unheard' = unheard \cup {r}

\* The request does not get there, or is answered with an error.
NotDone(r) ==
  /\ At(r, "send") /\ calls[r].left > 0
  /\ calls' = [calls EXCEPT ![r].left = @ - 1]
  /\ UNCHANGED <<made, unheard, paidBy, vars>>

\* Every peer has been tried, or there is none.
GiveUp(r) ==
  /\ At(r, "send") /\ calls[r].left = 0
  /\ GoTo(r, "failed")
  /\ UNCHANGED <<made, unheard, paidBy, vars>>

HandleCreate(r, d) ==
  /\ Posts(r, "create")
  /\ CreateEscrow(d, calls[r].who, calls[r].receiver, calls[r].arbitrator, calls[r].amount)
  /\ made' = [made EXCEPT ![r] = @ \cup {d}]
  /\ Answer(r, d)
  /\ UNCHANGED paidBy

\* An expired escrow is refunded and the answer is an error.
HandleConfirm(r) ==
  LET d == calls[r].escrow IN
  /\ Posts(r, "confirm")
  /\ ConfirmEscrow(d, calls[r].who)
  /\ IF contracts[d].expired
     THEN calls' = [calls EXCEPT ![r].left = @ - 1] /\ UNCHANGED unheard
     ELSE Answer(r, d)
  /\ UNCHANGED <<made, paidBy>>

HandleRelease(r) ==
  LET d == calls[r].escrow IN
  /\ Posts(r, "release")
  /\ ReleaseEscrow(d, calls[r].who)
  /\ paidBy' = [paidBy EXCEPT ![d] = @ + 1]
  /\ Answer(r, d)
  /\ UNCHANGED made

HandleCancel(r) ==
  LET d == calls[r].escrow IN
  /\ Posts(r, "cancel")
  /\ CancelEscrow(d, calls[r].who)
  /\ paidBy' = [paidBy EXCEPT ![d] = @ + 1]
  /\ Answer(r, d)
  /\ UNCHANGED made

\* The handler of get_escrow.
Found(d) == contracts[d] # NoContract

\* The handlers put what they found under "data" and the library looks beside it:
\* GetEscrowDetails panics on every escrow there is, GetUserEscrows never finds one.
GetEscrowDetails(r) ==
  /\ Posts(r, "details")
  /\ Found(calls[r].escrow)
  /\ GoTo(r, "panicked")
  /\ UNCHANGED <<made, unheard, paidBy, vars>>

GetUserEscrows(r) ==
  /\ Posts(r, "list")
  /\ GoTo(r, "told")
  /\ UNCHANGED <<made, unheard, paidBy, vars>>

\* The caller takes note of the result and may call again.
Return(r) ==
  /\ calls[r].step \in {"told", "failed", "panicked"}
  /\ calls' = [calls EXCEPT ![r] = NoCall]
  /\ made' = [made EXCEPT ![r] = {}]
  /\ unheard' = unheard \ {r}
  /\ UNCHANGED <<paidBy, vars>>

ClientStep(r) ==
  \/ /\ At(r, "idle")
     /\ \/ \E s, to \in Party, a \in Signer, amount \in Asked :
             \/ CreateEscrowTransfer(r, s, to, a, amount)
             \/ TransferTokensWithEscrow(r, s, to, a, amount)
        \/ \E op \in Op \ {"create"}, who \in Party, d \in Id : Call(r, op, who, d)
  \/ CheckBalance(r)
  \/ \E d \in Id : HandleCreate(r, d)
  \/ HandleConfirm(r)
  \/ HandleRelease(r)
  \/ HandleCancel(r)
  \/ GetEscrowDetails(r)
  \/ GetUserEscrows(r)
  \/ NotDone(r)
  \/ GiveUp(r)
  \/ Return(r)

ClientNext ==
  \/ \E r \in Request : ClientStep(r)
  \/ Next /\ UNCHANGED clientVars

ClientSpec == ClientInit /\ [][ClientNext]_<<clientVars, vars>>
-----------------------------------------------------------------------------
\* Types of the calls and of their history.
ClientTypeOK ==
  /\ calls \in [Request -> {NoCall} \cup CreateCall \cup OtherCall \cup Answered]
  /\ made \in [Request -> SUBSET Id]
  /\ unheard \subseteq Request
  /\ paidBy \in [Id -> Nat]

\* What a caller is told is so, though others call meanwhile and requests are
\* posted again when an answer was lost: the money of an escrow it released or
\* cancelled is out, it has signed the escrow it confirmed, the escrow it created
\* is there with its money taken from the caller, and is the only one made for
\* the call unless an answer was lost.
ToldIsDone ==
  \A r \in Request : At(r, "told") /\ calls[r].op # "list" =>
    LET d == calls[r].escrow IN
    /\ calls[r].op \in {"release", "cancel"} => settled[d]
    /\ calls[r].op = "confirm" => calls[r].who \in contracts[d].signatures
    /\ calls[r].op = "create" => d \in made[r] /\ contracts[d].sender = calls[r].who

\* A call that is answered with an error, or not at all, has made no escrow, and
\* no call more than one, unless an answer was lost.
MadeAsTold ==
  \A r \in Request \ unheard :
    made[r] = IF At(r, "told") /\ calls[r].op = "create" THEN {calls[r].escrow} ELSE {}

\* Posting a release or a cancellation again never pays again.
RepeatsRefused == \A d \in Id : paidBy[d] <= 1

AnswersHold == ToldIsDone /\ MadeAsTold /\ RepeatsRefused
=============================================================================
