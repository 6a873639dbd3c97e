--------------------------- MODULE WalletService ---------------------------
(***************************************************************************)
(* The wallet service (services/wallet): requests that open a wallet and   *)
(* then transfer, stake or trade, each of them in steps that interleave    *)
(* with those of other requests, with blocks of the node and with crashes  *)
(* of the service.  The node's part of over-the-counter trading, in        *)
(* core/relay-chain/api/server.go, is here too: the live desk locks the    *)
(* BHX of an order, matches none and cancels none; it has nothing to do    *)
(* with module OTC, whose manager no node creates.                         *)
(*                                                                         *)
(* BHX is the only token a node registers: a request may name another, of  *)
(* which nobody has a balance.                                             *)
(*                                                                         *)
(* A request comes from a user who is logged in and owns the wallet.  Each *)
(* call to the database, to the node's API and to its peer may fail.       *)
(***************************************************************************)
EXTENDS Integers, FiniteSets

CONSTANTS
  Wallet,        \* wallets, and their addresses
  Legacy,        \* wallets stored before the key manager was introduced
  Desk,          \* the account "otc_contract"
  Staking,       \* "staking_contract"
  Token,         \* tokens in requests
  BHX,           \* the one the node has registered
  Amount,        \* amounts in requests
  Request,       \* requests
  Funds          \* what every account owns of BHX at the start

Account == Wallet \cup {Desk, Staking}

ASSUME WalletServiceAssumption ==
  /\ Legacy \subseteq Wallet
  /\ Desk # Staking /\ {Desk, Staking} \cap Wallet = {}
  /\ BHX \in Token
  /\ Amount \subseteq Nat
  /\ Funds \in [Account -> Nat]

Kind == {"transfer", "stake", "create", "match", "cancel"}

Step ==
  {"idle", "record", "recordReceive", "check", "send", "fail",   \* transfers, stakes
   "post",                                                       \* orders
   "done", "dead"}

Job ==
  [step : Step, kind : Kind, wallet : Wallet, to : Account, token : Token, amount : Nat]

Idle == [step |-> "idle"]

VARIABLES
  sealed,     \* what a stored private key is encrypted with
  cached,     \* wallets whose key is in the key manager's cache
  job,        \* the requests
  records,    \* records[r][type]: status of the history records with r's hash
  missed,     \* history: requests whose first record could not be inserted
  pool,       \* requests whose transaction waits at the node
  reached,    \* history: requests whose transaction has reached the node
  balances    \* balances of BHX at the node

service == <<sealed, cached, job>>
history == <<records, missed>>
network == <<pool, reached>>
vars == <<service, history, network, balances>>

Init ==
  /\ sealed = [w \in Wallet |-> IF w \in Legacy THEN "password" ELSE "none"]
  /\ cached = {}
  /\ job = [r \in Request |-> Idle]
  /\ records = [r \in Request |-> [type \in {"send", "receive"} |-> "none"]]
  /\ missed = {} /\ pool = {} /\ reached = {}
  /\ balances = Funds

At(r, step) == job[r].step = step
GoTo(r, step) == job' = [job EXCEPT ![r].step = step]

\* Token.Transfer at the node, of a token that is registered.
Transfer(t, from, to, amount) ==
  LET less == [balances EXCEPT ![from] = @ - amount] IN
  /\ t = BHX /\ balances[from] >= amount
  /\ balances' = [less EXCEPT ![to] = @ + amount]
-----------------------------------------------------------------------------
\* The key manager is there whenever a wallet is created: the key is encrypted
\* with one derived from the master key and the key itself.
CreateWallet(w) ==
  /\ sealed[w] = "none"
  /\ sealed' = [sealed EXCEPT ![w] = "derived"]
  /\ UNCHANGED <<cached, job, history, network, balances>>

\* GetWalletDetails: a cached key is returned whatever the password.  Otherwise
\* a key sealed with the password needs the right one, and a derived key is
\* decrypted with the master key, then with the password's: neither is its key.
Opens(w, rightPassword) ==
  \/ w \in cached
  \/ sealed[w] = "password" /\ rightPassword

\* Every handler first opens the wallet; a request that cannot is answered with an
\* error.
Start(r, kind, w, to, t, amount, rightPassword) ==
  /\ At(r, "idle")
  /\ Opens(w, rightPassword)
  /\ cached' = cached \cup {w}
  /\ job' = [job EXCEPT ![r] =
       [step |-> IF kind \in {"transfer", "stake"} THEN "record" ELSE "post",
        kind |-> kind, wallet |-> w, to |-> to, token |-> t, amount |-> amount]]
  /\ UNCHANGED <<sealed, history, network, balances>>

handleTransfer(r, w, to, t, amount, right) == Start(r, "transfer", w, to, t, amount, right)
handleStakeTokens(r, w, t, amount, right) == Start(r, "stake", w, w, t, amount, right)
handleCreateOTCOrder(r, w, t, amount, right) == Start(r, "create", w, w, t, amount, right)

\* What is matched or cancelled makes no difference to the node.
handleMatchOTCOrder(r, w, right) == Start(r, "match", w, w, BHX, 0, right)
handleCancelOTCOrder(r, w, right) == Start(r, "cancel", w, w, BHX, 0, right)

\* cleanExpiredKeys and GetCachedKey drop keys of more than seven days.
ExpireKey(w) ==
  /\ w \in cached
  /\ cached' = cached \ {w}
  /\ UNCHANGED <<sealed, job, history, network, balances>>

FaultyRecordTransaction(r) ==
  /\ At(r, "record")
  /\ GoTo(r, "check")
  /\ UNCHANGED <<sealed, cached, history, network, balances>>

\* The sender's record; the request goes on without it when the insert fails.
RecordTransaction(r) ==
  /\ At(r, "record")
  /\ \/ /\ records' = [records EXCEPT ![r]["send"] = "pending"]
        /\ UNCHANGED missed
     \/ /\ missed' = missed \cup {r}
        /\ UNCHANGED records
  /\ GoTo(r, IF job[r].kind = "transfer" THEN "recordReceive" ELSE "check")
  /\ UNCHANGED <<sealed, cached, network, balances>>

\* The receiver's record, of the same hash, whether or not the receiver is a
\* wallet of the service.
RecordReceive(r) ==
  /\ At(r, "recordReceive")
  /\ \/ records' = [records EXCEPT ![r]["receive"] = "pending"]
     \/ UNCHANGED records
  /\ GoTo(r, "check")
  /\ UNCHANGED <<sealed, cached, missed, network, balances>>

\* BlockchainClient.TransferTokens looks for a peer, asks the node's API for the
\* balance, which is an error for a token that is not registered, and checks the
\* amount.
CheckTransfer(r) ==
  /\ At(r, "check") /\ job[r].kind = "transfer"
  /\ \/ /\ job[r].token = BHX
        /\ job[r].amount \in 1 .. balances[job[r].wallet]
        /\ GoTo(r, "send")
     \/ GoTo(r, "fail")
  /\ UNCHANGED <<sealed, cached, history, network, balances>>

\* BlockchainClient.StakeTokens only looks for a peer.
CheckStake(r) ==
  /\ At(r, "check") /\ job[r].kind = "stake"
  /\ GoTo(r, "send") \/ GoTo(r, "fail")
  /\ UNCHANGED <<sealed, cached, history, network, balances>>

FaultySendTransaction(r) ==
  /\ At(r, "send")
  /\ \/ pool' = pool \cup {r} /\ reached' = reached \cup {r}
     \/ UNCHANGED network
  /\ \/ GoTo(r, "done")
     \/ GoTo(r, "fail")
  /\ UNCHANGED <<sealed, cached, history, balances>>

\* sendTransactionToNetwork reports success even when no peer got it.  The
\* transaction it sends is another one than the one that was recorded.
SendTransaction(r) ==
  /\ At(r, "send")
  /\ \/ pool' = pool \cup {r} /\ reached' = reached \cup {r}
     \/ UNCHANGED network
  /\ GoTo(r, "done")
  /\ UNCHANGED <<sealed, cached, history, balances>>

FirstRecord(r) ==
  IF records[r]["send"] # "none" THEN "send" ELSE "receive"

\* UpdateTransactionStatus updates one record with the hash, the first; its
\* errors are ignored.
UpdateTransactionStatus(r) ==
  /\ At(r, "fail")
  /\ \/ /\ records[r][FirstRecord(r)] # "none"
        /\ records' = [records EXCEPT ![r][FirstRecord(r)] = "failed"]
     \/ UNCHANGED records
  /\ GoTo(r, "done")
  /\ UNCHANGED <<sealed, cached, missed, network, balances>>

\* A block with the transaction.  One the sender cannot pay, or of a token that is
\* not registered, changes nothing.
ExecuteTransaction(r) ==
  LET from == job[r].wallet
      to == IF job[r].kind = "stake" THEN Staking ELSE job[r].to
  IN  /\ r \in pool
      /\ pool' = pool \ {r}
      /\ \/ Transfer(job[r].token, from, to, job[r].amount)
         \/ /\ job[r].token # BHX \/ balances[from] < job[r].amount
            /\ UNCHANGED balances
      /\ UNCHANGED <<service, history, reached>>
-----------------------------------------------------------------------------
\* The node's handler locks the tokens and stores the order; one that offers a
\* token the node does not know is stored all the same, with nothing locked.
LockOrder(r) == Transfer(job[r].token, job[r].wallet, Desk, job[r].amount)

\* handleOTCCreate.  An order whose creator has too little is refused.  When the
\* request or its answer is lost, the service makes up an order of its own, which
\* nobody has and nothing is locked for; when only the answer is lost, the tokens
\* are locked all the same.
CreateOrder(r) ==
  /\ At(r, "post") /\ job[r].kind = "create"
  /\ \/ LockOrder(r)
     \/ UNCHANGED balances
  /\ GoTo(r, "done")
  /\ UNCHANGED <<sealed, cached, history, network>>

\* handleOTCCancel answers with success and does nothing, and so does the service
\* when the node cannot be reached: what an order has locked stays locked.
CancelOrder(r) ==
  /\ At(r, "post") /\ job[r].kind = "cancel"
  /\ GoTo(r, "done")
  /\ UNCHANGED <<sealed, cached, history, network, balances>>

\* executeOTCOrderMatch looks at no order and asks for USDT, which is not
\* registered: the node refuses every match before its first transfer.  When the
\* node cannot be reached, the service reports a match.
MatchOrder(r) ==
  /\ At(r, "post") /\ job[r].kind = "match"
  /\ GoTo(r, "done")
  /\ UNCHANGED <<sealed, cached, history, network, balances>>

\* The service's process dies, and with it the cache and every request it is
\* working on.
Crash ==
  /\ cached' = {}
  /\ job' = [r \in Request |->
       IF job[r].step \in {"record", "recordReceive", "check", "send", "fail", "post"}
       THEN [job[r] EXCEPT !.step = "dead"] ELSE job[r]]
  /\ UNCHANGED <<sealed, history, network, balances>>

Next ==
  \/ \E w \in Wallet : CreateWallet(w) \/ ExpireKey(w)
  \/ \E r \in Request :
       \/ \E w \in Wallet, right \in BOOLEAN :
            \/ \E t \in Token, amount \in Amount :
                 \/ \E to \in Wallet : handleTransfer(r, w, to, t, amount, right)
                 \/ handleStakeTokens(r, w, t, amount, right)
                 \/ handleCreateOTCOrder(r, w, t, amount, right)
            \/ handleMatchOTCOrder(r, w, right)
            \/ handleCancelOTCOrder(r, w, right)
       \/ RecordTransaction(r)
       \/ RecordReceive(r)
       \/ CheckTransfer(r)
       \/ CheckStake(r)
       \/ SendTransaction(r)
       \/ UpdateTransactionStatus(r)
       \/ ExecuteTransaction(r)
       \/ CreateOrder(r)
       \/ CancelOrder(r)
       \/ MatchOrder(r)
  \/ Crash

Spec == Init /\ [][Next]_vars
-----------------------------------------------------------------------------
\* Types of the service's state, of the node's and of the history.
TypeOK ==
  /\ sealed \in [Wallet -> {"none", "password", "derived"}]
  /\ cached \subseteq Wallet
  /\ job \in [Request -> Job \cup {Idle}]
  /\ records \in [Request -> [{"send", "receive"} -> {"none", "pending", "failed"}]]
  /\ missed \subseteq Request
  /\ pool \subseteq reached /\ reached \subseteq Request
  /\ balances \in [Account -> Nat]

\* A transaction whose record says that it failed has never reached the node,
\* and never will: who reads "failed" may pay again.
FailedNeverSent ==
  \A r \in reached : \A type \in {"send", "receive"} : records[r][type] # "failed"

\* A transaction that has reached the node is in its sender's history, whenever
\* the service crashed, unless the database refused it.
SentWasRecorded == \A r \in reached \ missed : records[r]["send"] # "none"

\* A stored wallet can be opened with the password it was made with.
WalletsOpen == \A w \in Wallet : sealed[w] # "none" => Opens(w, TRUE)
=============================================================================
