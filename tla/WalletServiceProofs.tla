------------------------ MODULE WalletServiceProofs ------------------------
(***************************************************************************)
(* What the wallet service guarantees for any number of requests, wallets  *)
(* and amounts, wherever it crashes; then what its accounts do for any     *)
(* names, browsers and registrations (AccInv).                             *)
(*                                                                         *)
(* Inv adds to the checked invariants where a request is: one whose        *)
(* transaction has reached the node, or whose record says failed, is done  *)
(* (Sent, Failed); one past its first record has it or missed it           *)
(* (Recorded).                                                             *)
(***************************************************************************)
EXTENDS WalletService, Accounts, SequenceTheorems, WellFoundedInduction, TLAPS

Types == {"send", "receive"}

Sent == \A r \in reached : At(r, "done")

Failed ==
  \A r \in Request : \A type \in Types :
    records[r][type] = "failed" => At(r, "done") /\ r \notin reached

Recorded ==
  \A r \in Request \ missed :
    r \in reached \/ job[r].step \in {"recordReceive", "check", "send"}
      => records[r]["send"] # "none"

Inv == TypeOK /\ Sent /\ Failed /\ Recorded

LEMMA Accounts ==
  /\ Wallet \subseteq Account /\ {Desk, Staking} \subseteq Account
  /\ BHX \in Token /\ Amount \subseteq Nat
BY WalletServiceAssumption DEF Account

\* A request that has started is a job.
LEMMA JobType ==
  ASSUME TypeOK, NEW r \in Request, job[r].step # "idle"
  PROVE  /\ job[r] \in Job
         /\ job[r].wallet \in Wallet /\ job[r].to \in Account
         /\ job[r].token \in Token /\ job[r].amount \in Nat
<1>1. job[r] # Idle
  BY DEF Idle
<1> QED
  BY <1>1 DEF TypeOK, Job

LEMMA GoToFacts ==
  ASSUME TypeOK, NEW r \in Request, NEW step \in Step, job[r].step # "idle", GoTo(r, step)
  PROVE  /\ job' \in [Request -> Job \cup {Idle}]
         /\ job'[r].step = step /\ job'[r].wallet = job[r].wallet
         /\ \A q \in Request \ {r} : job'[q] = job[q]
<1>1. job[r] \in Job
  BY JobType
<1>2. [job[r] EXCEPT !.step = step] \in Job
  BY <1>1 DEF Job
<1>3. job' = [job EXCEPT ![r] = [job[r] EXCEPT !.step = step]]
  BY DEF GoTo
<1> HIDE DEF GoTo
<1> QED
  BY <1>1, <1>2, <1>3 DEF TypeOK, Job

LEMMA InitInv == Init => Inv
<1> SUFFICES ASSUME Init PROVE Inv
  OBVIOUS
<1>1. \A r \in Request : job[r].step = "idle"
  BY DEF Init, Idle
<1>2. TypeOK
  BY WalletServiceAssumption DEF Init, TypeOK
<1> QED
  BY <1>1, <1>2 DEF Init, Inv, Sent, Failed, Recorded, At, Types

\* A transfer keeps the balances typed.
LEMMA TransferTyped ==
  ASSUME TypeOK, NEW t, NEW from \in Account, NEW to \in Account,
         NEW amount \in Nat, Transfer(t, from, to, amount)
  PROVE  balances' \in [Account -> Nat]
<1> DEFINE less == [balances EXCEPT ![from] = @ - amount]
<1>1. less \in [Account -> Nat]
  BY DEF Transfer, TypeOK
<1>2. balances' = [less EXCEPT ![to] = @ + amount]
  BY DEF Transfer
<1> HIDE DEF less
<1> QED
  BY <1>1, <1>2
-----------------------------------------------------------------------------
\* Actions of the history: they change records, and move one request on.
LEMMA RecordInv ==
  ASSUME Inv, NEW r \in Request, RecordTransaction(r) \/ RecordReceive(r)
  PROVE  Inv'
<1>1. TypeOK /\ job[r].step \in {"record", "recordReceive"} /\ job[r].step # "idle"
  BY DEF Inv, RecordTransaction, RecordReceive, At
<1>2. PICK step \in {"recordReceive", "check"} : GoTo(r, step)
  BY DEF RecordTransaction, RecordReceive
<1>3. /\ job' \in [Request -> Job \cup {Idle}] /\ job'[r].step = step
      /\ \A q \in Request \ {r} : job'[q] = job[q]
  BY <1>1, <1>2, GoToFacts DEF Step
<1>4. UNCHANGED <<sealed, cached, network, balances>>
  BY DEF RecordTransaction, RecordReceive
<1>5. TypeOK'
  BY <1>1, <1>3, <1>4 DEF TypeOK, network, RecordTransaction, RecordReceive
<1>6. r \notin reached /\ \A type \in Types : records[r][type] # "failed"
  BY <1>1 DEF Inv, Sent, Failed, At
<1>7. \A q \in Request, type \in Types :
        records'[q][type] = records[q][type] \/ (q = r /\ records'[q][type] = "pending")
  BY <1>1 DEF TypeOK, Types, RecordTransaction, RecordReceive
<1>8. Sent' /\ Failed'
  BY <1>3, <1>4, <1>6, <1>7 DEF Inv, Sent, Failed, At, network, TypeOK, Types
<1>9. r \in missed' \/ records'[r]["send"] # "none"
  <2>1. CASE RecordTransaction(r)
    BY <1>1, <2>1 DEF TypeOK, RecordTransaction
  <2>2. CASE RecordReceive(r)
    <3>1. r \in missed \/ records[r]["send"] # "none"
      BY <2>2 DEF Inv, Recorded, RecordReceive, At
    <3> QED
      BY <2>2, <3>1, <1>7 DEF RecordReceive, Types
  <2> QED
    BY <2>1, <2>2
<1>10. missed \subseteq missed'
  BY DEF RecordTransaction, RecordReceive
<1>11. Recorded'
  BY <1>3, <1>4, <1>7, <1>9, <1>10 DEF Inv, Recorded, network, Types
<1> QED
  BY <1>5, <1>8, <1>11 DEF Inv

LEMMA CheckInv ==
  ASSUME Inv, NEW r \in Request, CheckTransfer(r) \/ CheckStake(r)
  PROVE  Inv'
<1>1. TypeOK /\ job[r].step = "check" /\ job[r].step # "idle"
  BY DEF Inv, CheckTransfer, CheckStake, At
<1>2. PICK step \in {"send", "fail"} : GoTo(r, step)
  BY DEF CheckTransfer, CheckStake
<1>3. /\ job' \in [Request -> Job \cup {Idle}] /\ job'[r].step = step
      /\ \A q \in Request \ {r} : job'[q] = job[q]
  BY <1>1, <1>2, GoToFacts DEF Step
<1>4. UNCHANGED <<sealed, cached, history, network, balances>>
  BY DEF CheckTransfer, CheckStake
<1>5. TypeOK'
  BY <1>1, <1>3, <1>4 DEF TypeOK, history, network
<1>6. Sent' /\ Failed' /\ Recorded'
  BY <1>1, <1>2, <1>3, <1>4 DEF Inv, Sent, Failed, Recorded, At, history, network, TypeOK
<1> QED
  BY <1>5, <1>6 DEF Inv

LEMMA SendInv ==
  ASSUME Inv, NEW r \in Request, SendTransaction(r)
  PROVE  Inv'
<1>1. TypeOK /\ job[r].step = "send" /\ job[r].step # "idle" /\ GoTo(r, "done")
  BY DEF Inv, SendTransaction, At
<1>2. /\ job' \in [Request -> Job \cup {Idle}] /\ job'[r].step = "done"
      /\ \A q \in Request \ {r} : job'[q] = job[q]
  BY <1>1, GoToFacts DEF Step
<1>3. UNCHANGED <<sealed, cached, history, balances>>
  BY DEF SendTransaction
<1>4. /\ pool' \subseteq reached' /\ reached' \subseteq Request
      /\ reached \subseteq reached' /\ reached' \subseteq reached \cup {r}
  BY <1>1 DEF TypeOK, SendTransaction, network
<1>5. TypeOK'
  BY <1>1, <1>2, <1>3, <1>4 DEF TypeOK, history
<1>6. Sent'
  BY <1>2, <1>4 DEF Inv, Sent, At, TypeOK
<1>7. \A type \in Types : records[r][type] # "failed"
  BY <1>1 DEF Inv, Failed, At
<1>8. Failed'
  BY <1>2, <1>3, <1>4, <1>7 DEF Inv, Failed, At, history
<1>9. Recorded'
  BY <1>1, <1>2, <1>3, <1>4 DEF Inv, Recorded, history
<1> QED
  BY <1>5, <1>6, <1>8, <1>9 DEF Inv

LEMMA UpdateInv ==
  ASSUME Inv, NEW r \in Request, UpdateTransactionStatus(r)
  PROVE  Inv'
<1>1. TypeOK /\ job[r].step = "fail" /\ job[r].step # "idle" /\ GoTo(r, "done")
  BY DEF Inv, UpdateTransactionStatus, At
<1>2. /\ job' \in [Request -> Job \cup {Idle}] /\ job'[r].step = "done"
      /\ \A q \in Request \ {r} : job'[q] = job[q]
  BY <1>1, GoToFacts DEF Step
<1>3. UNCHANGED <<sealed, cached, missed, network, balances>>
  BY DEF UpdateTransactionStatus
<1>4. FirstRecord(r) \in Types
  BY DEF FirstRecord, Types
<1>5. /\ records' \in [Request -> [Types -> {"none", "pending", "failed"}]]
      /\ \A q \in Request, type \in Types :
           records'[q][type] = records[q][type] \/ (q = r /\ records'[q][type] = "failed")
  <2> DEFINE first == FirstRecord(r)
  <2>1. first \in Types
    BY <1>4
  <2>2. records' = records \/ records' = [records EXCEPT ![r][first] = "failed"]
    BY DEF UpdateTransactionStatus
  <2> HIDE DEF first
  <2>3. records \in [Request -> [Types -> {"none", "pending", "failed"}]]
    BY <1>1 DEF TypeOK, Types
  <2> QED
    BY <2>1, <2>2, <2>3
<1>6. TypeOK'
  BY <1>1, <1>2, <1>3, <1>5 DEF TypeOK, network, Types
<1>7. r \notin reached
  BY <1>1 DEF Inv, Sent, At
<1>8. Sent'
  BY <1>2, <1>3, <1>7 DEF Inv, Sent, At, network, TypeOK
<1>9. Failed'
  BY <1>2, <1>3, <1>5, <1>7 DEF Inv, Failed, At, network
<1>10. Recorded'
  <2>1. ASSUME NEW q \in Request \ missed,
               q \in reached \/ job'[q].step \in {"recordReceive", "check", "send"}
        PROVE  records'[q]["send"] # "none"
    <3>1. q # r
      BY <1>2, <1>7, <2>1
    <3>2. records'[q]["send"] = records[q]["send"]
      BY <1>5, <3>1 DEF Types
    <3> QED
      BY <1>2, <2>1, <3>1, <3>2 DEF Inv, Recorded
  <2> QED
    BY <1>3, <2>1 DEF Recorded, network
<1> QED
  BY <1>6, <1>8, <1>9, <1>10 DEF Inv

\* Requests that are done stay where they are when balances move.
LEMMA ExecuteInv ==
  ASSUME Inv, NEW r \in Request, ExecuteTransaction(r)
  PROVE  Inv'
<1> DEFINE to == IF job[r].kind = "stake" THEN Staking ELSE job[r].to
<1>1. TypeOK /\ job[r].step # "idle"
  BY DEF Inv, Sent, At, TypeOK, ExecuteTransaction
<1>2. job[r].wallet \in Account /\ job[r].amount \in Nat /\ to \in Account
  BY <1>1, JobType, Accounts
<1>3. /\ \/ Transfer(job[r].token, job[r].wallet, to, job[r].amount)
         \/ UNCHANGED balances
      /\ pool' = pool \ {r}
      /\ UNCHANGED <<service, history, reached>>
  BY DEF ExecuteTransaction
<1> HIDE DEF to
<1>4. balances' \in [Account -> Nat]
  BY <1>1, <1>2, <1>3, TransferTyped DEF TypeOK
<1>5. TypeOK'
  BY <1>1, <1>3, <1>4 DEF TypeOK, service, history
<1>6. Sent' /\ Failed' /\ Recorded'
  BY <1>3 DEF Inv, Sent, Failed, Recorded, At, service, history
<1> QED
  BY <1>5, <1>6 DEF Inv
-----------------------------------------------------------------------------
\* Requests of the desk: they end, and may have moved balances.
LEMMA DeskInv ==
  ASSUME Inv, NEW r \in Request, CreateOrder(r) \/ CancelOrder(r) \/ MatchOrder(r)
  PROVE  Inv'
<1>1. /\ TypeOK /\ job[r].step = "post" /\ job[r].step # "idle"
      /\ GoTo(r, "done") /\ "done" \in Step
      /\ UNCHANGED <<sealed, cached, history, network>>
  BY DEF Inv, CreateOrder, CancelOrder, MatchOrder, At, Step
<1>2. balances' \in [Account -> Nat]
  <2>1. CASE UNCHANGED balances
    BY <1>1, <2>1 DEF TypeOK
  <2>2. CASE LockOrder(r)
    <3>1. job[r].wallet \in Account /\ job[r].amount \in Nat /\ Desk \in Account
      BY <1>1, JobType, Accounts
    <3> QED
      BY <1>1, <2>2, <3>1, TransferTyped DEF LockOrder
  <2> QED
    BY <2>1, <2>2 DEF CreateOrder, CancelOrder, MatchOrder
<1>3. /\ job' \in [Request -> Job \cup {Idle}] /\ job'[r].step = "done"
      /\ \A q \in Request \ {r} : job'[q] = job[q]
  BY <1>1, GoToFacts
<1>4. TypeOK'
  BY <1>1, <1>2, <1>3 DEF TypeOK, history, network
<1>5. r \notin reached /\ \A type \in Types : records[r][type] # "failed"
  BY <1>1 DEF Inv, Sent, Failed, At
<1>6. Sent' /\ Failed' /\ Recorded'
  BY <1>1, <1>3, <1>5 DEF Inv, Sent, Failed, Recorded, At, history, network, TypeOK
<1> QED
  BY <1>4, <1>6 DEF Inv
-----------------------------------------------------------------------------
LEMMA KeyInv ==
  ASSUME Inv, NEW w \in Wallet, CreateWallet(w) \/ ExpireKey(w)
  PROVE  Inv'
<1>1. UNCHANGED <<job, history, network, balances>>
  BY DEF CreateWallet, ExpireKey
<1>2. /\ sealed' \in [Wallet -> {"none", "password", "derived"}]
      /\ cached' \subseteq Wallet
  BY DEF CreateWallet, ExpireKey, Inv, TypeOK
<1> QED
  BY <1>1, <1>2
  DEF Inv, TypeOK, Sent, Failed, Recorded, At, history, network

LEMMA StartInv ==
  ASSUME Inv, NEW r \in Request, NEW kind \in Kind, NEW w \in Wallet, NEW to \in Wallet,
         NEW t \in Token, NEW amount \in Nat, NEW right \in BOOLEAN,
         Start(r, kind, w, to, t, amount, right)
  PROVE  Inv'
<1> DEFINE step == IF kind \in {"transfer", "stake"} THEN "record" ELSE "post"
           started == [step |-> step, kind |-> kind, wallet |-> w, to |-> to,
                       token |-> t, amount |-> amount]
<1>1. /\ TypeOK /\ job[r].step = "idle"
      /\ job' = [job EXCEPT ![r] = started] /\ cached' = cached \cup {w}
      /\ UNCHANGED <<sealed, history, network, balances>>
  BY DEF Inv, Start, At
<1>2. started \in Job /\ started.step \in {"record", "post"}
  BY Accounts DEF Job, Step
<1> HIDE DEF started
<1>3. /\ job' \in [Request -> Job \cup {Idle}] /\ job'[r].step \in {"record", "post"}
      /\ \A q \in Request \ {r} : job'[q] = job[q]
  BY <1>1, <1>2 DEF TypeOK
<1>4. TypeOK'
  BY <1>1, <1>3 DEF TypeOK, history, network
<1>5. r \notin reached /\ \A type \in Types : records[r][type] # "failed"
  BY <1>1 DEF Inv, Sent, Failed, At
<1>6. Sent' /\ Failed' /\ Recorded'
  BY <1>1, <1>3, <1>5 DEF Inv, Sent, Failed, Recorded, At, history, network, TypeOK
<1> QED
  BY <1>4, <1>6 DEF Inv

LEMMA HandlerInv ==
  ASSUME Inv, NEW r \in Request, NEW w \in Wallet, NEW right \in BOOLEAN,
         \/ \E t \in Token, amount \in Amount :
              \/ \E to \in Wallet : handleTransfer(r, w, to, t, amount, right)
              \/ handleStakeTokens(r, w, t, amount, right)
              \/ handleCreateOTCOrder(r, w, t, amount, right)
         \/ handleMatchOTCOrder(r, w, right)
         \/ handleCancelOTCOrder(r, w, right)
  PROVE  Inv'
<1>1. PICK kind \in Kind, to \in Wallet, t \in Token, amount \in Nat :
        Start(r, kind, w, to, t, amount, right)
  BY Accounts
  DEF Kind, handleTransfer, handleStakeTokens, handleCreateOTCOrder, handleMatchOTCOrder,
      handleCancelOTCOrder
<1> QED
  BY <1>1, StartInv

LEMMA CrashInv ==
  ASSUME Inv, Crash
  PROVE  Inv'
<1> DEFINE Lost == {"record", "recordReceive", "check", "send", "fail", "post"}
<1>1. /\ TypeOK /\ cached' = {}
      /\ UNCHANGED <<sealed, history, network, balances>>
  BY DEF Inv, Crash
<1>2. \A r \in Request :
        job'[r] = IF job[r].step \in Lost THEN [job[r] EXCEPT !.step = "dead"] ELSE job[r]
  BY DEF Crash
<1>3. \A r \in Request : job[r].step \in Lost =>
        /\ [job[r] EXCEPT !.step = "dead"] \in Job
        /\ [job[r] EXCEPT !.step = "dead"].step = "dead"
  BY <1>1, JobType DEF Job, Step
<1>4. \A r \in Request :
        /\ job'[r] \in Job \cup {Idle}
        /\ job[r].step \notin Lost => job'[r] = job[r]
        /\ job[r].step \in Lost => job'[r].step = "dead"
  BY <1>1, <1>2, <1>3 DEF TypeOK
<1>5. job' \in [Request -> Job \cup {Idle}]
  <2>1. job' = [r \in Request |-> job'[r]]
    BY Zenon DEF Crash
  <2> QED
    BY <1>4, <2>1
<1>6. TypeOK'
  BY <1>1, <1>5 DEF TypeOK, history, network
<1>7. Sent' /\ Failed' /\ Recorded'
  <2>1. \A r \in Request : At(r, "done") => At(r, "done")'
    BY <1>4 DEF At
  <2>2. \A r \in Request : job'[r].step \in {"recordReceive", "check", "send"}
                           => job'[r].step = job[r].step
    BY <1>4
  <2> QED
    BY <1>1, <2>1, <2>2 DEF Inv, Sent, Failed, Recorded, history, network, TypeOK, At
<1> QED
  BY <1>6, <1>7 DEF Inv

LEMMA NextInv == Inv /\ [Next]_vars => Inv'
<1> SUFFICES ASSUME Inv, [Next]_vars PROVE Inv'
  OBVIOUS
<1>1. CASE UNCHANGED vars
  BY <1>1
  DEF vars, service, history, network, Inv, TypeOK, Sent, Failed, Recorded, At
<1>2. ASSUME NEW r \in Request,
             \/ RecordTransaction(r) \/ RecordReceive(r)
             \/ CheckTransfer(r) \/ CheckStake(r) \/ SendTransaction(r)
             \/ UpdateTransactionStatus(r) \/ ExecuteTransaction(r)
             \/ CreateOrder(r) \/ CancelOrder(r) \/ MatchOrder(r)
      PROVE  Inv'
  BY <1>2, RecordInv, CheckInv, SendInv, UpdateInv, ExecuteInv, DeskInv
<1> QED
  BY <1>1, <1>2, KeyInv, HandlerInv, CrashInv DEF Next
-----------------------------------------------------------------------------
\* Types are kept.
THEOREM WalletServiceTyped == Spec => []TypeOK
<1>1. Inv => TypeOK
  BY DEF Inv
<1> QED
  BY <1>1, InitInv, NextInv, PTL DEF Spec

\* A transaction the history calls failed has never reached the node.
THEOREM FailedIsUnsent == Spec => []FailedNeverSent
<1>1. Inv => FailedNeverSent
  BY DEF Inv, TypeOK, Failed, FailedNeverSent, Types
<1> QED
  BY <1>1, InitInv, NextInv, PTL DEF Spec

\* A transaction that has reached the node is in its sender's history, unless
\* the database refused it.
THEOREM SentIsRecorded == Spec => []SentWasRecorded
<1>1. Inv => SentWasRecorded
  BY DEF Inv, TypeOK, Recorded, SentWasRecorded
<1> QED
  BY <1>1, InitInv, NextInv, PTL DEF Spec

-----------------------------------------------------------------------------
(***************************************************************************)
(* Accounts, sessions and wallets. A name stands for the first account     *)
(* that has it, so a registration is good when no other account of its     *)
(* name was inserted since it counted the users (Counted); and what a      *)
(* browser holds, or is about to do, is of the account whose password it   *)
(* has shown (CookieOwned, TaskOwned), because the account a name stands   *)
(* for never changes once there is one.                                    *)
(***************************************************************************)

User == [name : Name, password : Password]

\* What a session is stored under.
Cookie == Nat \X Name

\* A wallet of the account that asked for it.
OwnWallet == {w \in [owner : Nat, by : Nat] : w.owner = w.by}

Task ==
  {NoTask} \cup [step : {"login"}, name : Name, user : Nat]
    \cup [step : {"auth"}, cookie : Cookie, by : Nat]
    \cup [step : {"make"}, owner : Nat, by : Nat]

Registration ==
  {NoTask} \cup [step : {"refused"}]
    \cup [step : {"insert"}, name : Name, password : Password, counted : Nat]
    \cup [step : {"registered"}, name : Name, counted : Nat, user : Nat]

AccTyped ==
  /\ users \in Seq(User)
  /\ wallets \in Seq(OwnWallet)
  /\ regs \in [Registrant -> Registration]
  /\ DOMAIN sessions \subseteq Cookie
  /\ cookies \in [Browser -> Cookie \cup {NoSession}]
  /\ tasks \in [Browser -> Task]
  /\ account \in [Browser -> Nat]
  /\ cli \in Nat
  /\ now \in Nat

\* The account a name stands for, once there is one.
Means(n, u) == Named(n) # {} /\ FindUser(n) = u

\* Nobody had the name when the users were counted.
Counted(g) ==
  regs[g].step \in {"insert", "registered"} =>
    /\ regs[g].counted <= Len(users)
    /\ \A u \in Named(regs[g].name) : u > regs[g].counted

InsertedUser(g) == regs[g].step = "registered" => regs[g].user \in Named(regs[g].name)

\* A session is of the name in its ID, and the name has an account.
SessionsNamed == \A id \in DOMAIN sessions : sessions[id] = id[2] /\ Named(id[2]) # {}

\* What a browser holds, and is doing, is of the account whose password it has shown.
CookieOwned(b) == cookies[b] # NoSession => Means(cookies[b][2], account[b])

TaskOwned(b) ==
  /\ tasks[b].step = "login" => Means(tasks[b].name, tasks[b].user)
  /\ tasks[b].step = "auth" => Means(tasks[b].cookie[2], tasks[b].by)
  /\ tasks[b].step = "make" => tasks[b].owner = tasks[b].by

AccInv ==
  /\ AccTyped
  /\ \A g \in Registrant : Counted(g) /\ InsertedUser(g)
  /\ SessionsNamed
  /\ \A b \in Browser : CookieOwned(b) /\ TaskOwned(b)
-----------------------------------------------------------------------------
\* A set of numbers has a least one.
LEMMA Least ==
  ASSUME NEW S \in SUBSET Nat, S # {}
  PROVE  \E m \in S : \A n \in S : m <= n
<1> DEFINE R == OpToRel(<, Nat)
<1>1. IsWellFoundedOn(R, Nat)
  BY NatLessThanWellFounded
<1>2. \A m, n \in Nat : m < n => <<m, n>> \in R
  BY DEF OpToRel
<1> HIDE DEF R
<1>3. PICK m \in S : \A n \in S : ~(<<n, m>> \in R)
  BY <1>1, WFMin
<1>4. ASSUME NEW n \in S PROVE m <= n
  <2>1. n \in Nat /\ m \in Nat /\ ~(n < m)
    BY <1>2, <1>3
  <2> QED
    BY <2>1
<1> QED
  BY <1>4

\* FindUser is the first user of the name.
LEMMA FindUserFirst ==
  ASSUME users \in Seq(User), NEW n
  PROVE  /\ Named(n) \subseteq 1 .. Len(users) /\ Len(users) \in Nat
         /\ Named(n) = {} => FindUser(n) = 0
         /\ Named(n) # {} => /\ FindUser(n) \in Named(n)
                             /\ \A v \in Named(n) : FindUser(n) <= v
         /\ FindUser(n) \in Nat
<1>1. Named(n) \subseteq 1 .. Len(users) /\ Len(users) \in Nat
  BY LenProperties DEF Named
<1>2. ASSUME Named(n) # {}
      PROVE  FindUser(n) \in Named(n) /\ \A v \in Named(n) : FindUser(n) <= v
  <2>1. Named(n) \in SUBSET Nat
    BY <1>1
  <2>2. \E m \in Named(n) : \A v \in Named(n) : m <= v
    BY <1>2, <2>1, Least
  <2> QED
    BY <1>2, <2>2 DEF FindUser
<1>3. Named(n) = {} => FindUser(n) = 0
  BY DEF FindUser
<1> QED
  BY <1>1, <1>2, <1>3

\* Users are only added, at the end: a name that stands for an account stands for it
\* for ever.
LEMMA UserAdded ==
  ASSUME users \in Seq(User), NEW u \in User, users' = Append(users, u)
  PROVE  /\ users' \in Seq(User) /\ Len(users') = Len(users) + 1
         /\ \A n : Named(n)' = Named(n) \cup (IF u.name = n THEN {Len(users) + 1} ELSE {})
         /\ \A n, v : Means(n, v) => Means(n, v)'
<1>1. /\ users' \in Seq(User) /\ Len(users') = Len(users) + 1 /\ Len(users) \in Nat
      /\ DOMAIN users' = DOMAIN users \cup {Len(users) + 1}
      /\ \A i \in DOMAIN users : users'[i] = users[i]
      /\ users'[Len(users) + 1] = u
  BY AppendProperties, LenProperties
<1>2. ASSUME NEW n
      PROVE  Named(n)' = Named(n) \cup (IF u.name = n THEN {Len(users) + 1} ELSE {})
  <2>1. Named(n)' = {i \in DOMAIN users' : users'[i].name = n}
    BY DEF Named
  <2>2. Named(n) = {i \in DOMAIN users : users[i].name = n}
    BY DEF Named
  <2> QED
    BY <1>1, <2>1, <2>2
<1>3. ASSUME NEW n, NEW v, Means(n, v)
      PROVE  Means(n, v)'
  <2>1. /\ Named(n) \subseteq 1 .. Len(users) /\ v \in Named(n)
        /\ \A w \in Named(n) : v <= w
    BY <1>3, FindUserFirst DEF Means
  <2>2. v \in Named(n)' /\ \A w \in Named(n)' : v <= w /\ w \in Nat
    BY <1>1, <1>2, <2>1
  <2>3. FindUser(n)' = CHOOSE w \in Named(n)' : \A x \in Named(n)' : w <= x
    BY <2>2 DEF FindUser
  <2> DEFINE f == CHOOSE w \in Named(n)' : \A x \in Named(n)' : w <= x
  <2>4. f \in Named(n)' /\ \A x \in Named(n)' : f <= x
    BY <2>2
  <2>5. f = v
    <3> HIDE DEF f
    <3>1. f <= v /\ v <= f /\ f \in Nat /\ v \in Nat
      BY <2>2, <2>4
    <3> QED
      BY <3>1
  <2> QED
    BY <2>2, <2>3, <2>5 DEF Means
<1> QED
  BY <1>1, <1>2, <1>3

LEMMA AccInitInv == AccInit => AccInv
<1> SUFFICES ASSUME AccInit PROVE AccInv
  OBVIOUS
<1> USE DEF AccInit
<1>1. AccTyped
  BY DEF AccTyped, Registration, Task, NoTask
<1> QED
  BY <1>1 DEF AccInv, Counted, InsertedUser, SessionsNamed, CookieOwned, TaskOwned, NoTask

\* Users as they are; a registration goes on, or a browser, a session or a wallet.
LEMMA RegsInv ==
  ASSUME AccInv, UNCHANGED <<users, wallets, sessions, cookies, tasks, account, cli, now>>,
         regs' \in [Registrant -> Registration],
         \A g \in Registrant : Counted(g)' /\ InsertedUser(g)'
  PROVE  AccInv'
<1>1. \A n : Named(n)' = Named(n) /\ FindUser(n)' = FindUser(n)
  BY DEF Named, FindUser
<1>2. AccTyped'
  BY DEF AccInv, AccTyped
<1>3. SessionsNamed' /\ \A b \in Browser : CookieOwned(b)' /\ TaskOwned(b)'
  BY <1>1 DEF AccInv, SessionsNamed, CookieOwned, TaskOwned, Means
<1> QED
  BY <1>2, <1>3 DEF AccInv

LEMMA BrowserInv ==
  ASSUME AccInv, UNCHANGED <<users, regs>>,
         AccTyped', SessionsNamed', \A b \in Browser : CookieOwned(b)' /\ TaskOwned(b)'
  PROVE  AccInv'
<1>1. \A n : Named(n)' = Named(n) /\ FindUser(n)' = FindUser(n)
  BY DEF Named, FindUser
<1>2. \A g \in Registrant : Counted(g)' /\ InsertedUser(g)'
  BY <1>1 DEF AccInv, Counted, InsertedUser
<1> QED
  BY <1>2 DEF AccInv

\* One browser's cookie, account and task change.
LEMMA TaskInv ==
  ASSUME AccInv, UNCHANGED <<users, regs, sessions, cookies, account>>,
         wallets' \in Seq(OwnWallet), cli' \in Nat, now' \in Nat,
         NEW b \in Browser, NEW t \in Task, tasks' = [tasks EXCEPT ![b] = t],
         t.step = "login" => Means(t.name, t.user),
         t.step = "auth" => Means(t.cookie[2], t.by),
         t.step = "make" => t.owner = t.by
  PROVE  AccInv'
<1>1. AccTyped /\ SessionsNamed /\ \A c \in Browser : CookieOwned(c) /\ TaskOwned(c)
  BY DEF AccInv
<1>2. \A n : Named(n)' = Named(n) /\ FindUser(n)' = FindUser(n)
  BY DEF Named, FindUser
<1>3. tasks' \in [Browser -> Task] /\ tasks'[b] = t /\ \A c \in Browser \ {b} : tasks'[c] = tasks[c]
  BY <1>1 DEF AccTyped
<1>4. AccTyped'
  BY <1>1, <1>3 DEF AccTyped
<1>5. SessionsNamed' /\ \A c \in Browser : CookieOwned(c)'
  BY <1>1, <1>2 DEF SessionsNamed, CookieOwned, Means
<1>6. ASSUME NEW c \in Browser PROVE TaskOwned(c)'
  BY <1>1, <1>2, <1>3 DEF TaskOwned, Means
<1> QED
  BY <1>4, <1>5, <1>6, BrowserInv

\* Nothing but wallets, the command line and time.
LEMMA OthersInv ==
  ASSUME AccInv, UNCHANGED <<users, regs, sessions, cookies, tasks, account>>,
         wallets' \in Seq(OwnWallet), cli' \in Nat, now' \in Nat
  PROVE  AccInv'
<1>1. AccTyped /\ SessionsNamed /\ \A c \in Browser : CookieOwned(c) /\ TaskOwned(c)
  BY DEF AccInv
<1>2. \A n : Named(n)' = Named(n) /\ FindUser(n)' = FindUser(n)
  BY DEF Named, FindUser
<1>3. AccTyped'
  BY <1>1 DEF AccTyped
<1>4. SessionsNamed' /\ \A c \in Browser : CookieOwned(c)' /\ TaskOwned(c)'
  BY <1>1, <1>2 DEF SessionsNamed, CookieOwned, TaskOwned, Means
<1> QED
  BY <1>3, <1>4, BrowserInv

LEMMA VerifiedMeans ==
  ASSUME users \in Seq(User), NEW n, NEW p, Verified(n, p)
  PROVE  Means(n, FindUser(n)) /\ FindUser(n) \in Nat
BY FindUserFirst DEF Verified, Means
-----------------------------------------------------------------------------
LEMMA CountUsersInv ==
  ASSUME AccInv, NEW g \in Registrant, NEW n \in Name, NEW p \in Password, CountUsers(g, n, p)
  PROVE  AccInv'
<1>1. AccTyped /\ \A h \in Registrant : Counted(h) /\ InsertedUser(h)
  BY DEF AccInv
<1>2. Len(users) \in Nat /\ \A m : Named(m)' = Named(m)
  BY <1>1, LenProperties DEF AccTyped, CountUsers, Named
<1>3. PICK r \in Registration :
        /\ regs' = [regs EXCEPT ![g] = r]
        /\ r.step \in {"insert", "refused"}
        /\ r.step = "insert" => r.counted = Len(users) /\ r.name = n /\ Named(n) = {}
  <2>1. CASE regs' = [regs EXCEPT ![g] = [step |-> "refused"]]
    <3> DEFINE r == [step |-> "refused"]
    <3>1. r \in Registration /\ r.step = "refused"
      BY DEF Registration
    <3> HIDE DEF r
    <3> QED
      BY <2>1, <3>1 DEF r
  <2>2. CASE /\ Named(n) = {}
             /\ regs' = [regs EXCEPT ![g] =
                  [step |-> "insert", name |-> n, password |-> p, counted |-> Len(users)]]
    <3> DEFINE r == [step |-> "insert", name |-> n, password |-> p, counted |-> Len(users)]
    <3>1. r \in Registration
      BY <1>2 DEF Registration
    <3> QED
      BY <2>2, <3>1
  <2> QED
    BY <2>1, <2>2 DEF CountUsers
<1>4. /\ regs' \in [Registrant -> Registration] /\ regs'[g] = r
      /\ \A h \in Registrant \ {g} : regs'[h] = regs[h]
  BY <1>1, <1>3 DEF AccTyped
<1>5. UNCHANGED <<users, wallets, sessions, cookies, tasks, account, cli, now>>
  BY DEF CountUsers
<1>6. ASSUME NEW h \in Registrant PROVE Counted(h)' /\ InsertedUser(h)'
  BY <1>1, <1>2, <1>3, <1>4, <1>5 DEF Counted, InsertedUser
<1> QED
  BY <1>4, <1>5, <1>6, RegsInv

LEMMA InsertUserInv ==
  ASSUME AccInv, NEW g \in Registrant, InsertUser(g)
  PROVE  AccInv'
<1>1. /\ AccTyped /\ SessionsNamed
      /\ \A h \in Registrant : Counted(h) /\ InsertedUser(h)
      /\ \A b \in Browser : CookieOwned(b) /\ TaskOwned(b)
  BY DEF AccInv
<1>2. UNCHANGED <<wallets, sessions, cookies, tasks, account, cli, now>> /\ regs[g].step = "insert"
  BY DEF InsertUser
<1>3. CASE users' = users /\ regs' = [regs EXCEPT ![g] = [step |-> "refused"]]
  <2>1. /\ regs' \in [Registrant -> Registration]
        /\ \A h \in Registrant : regs'[h] = regs[h] \/ regs'[h].step = "refused"
    BY <1>1, <1>3 DEF AccTyped, Registration
  <2>2. \A m : Named(m)' = Named(m)
    BY <1>3 DEF Named
  <2>3. ASSUME NEW h \in Registrant PROVE Counted(h)' /\ InsertedUser(h)'
    BY <1>1, <1>3, <2>1, <2>2 DEF Counted, InsertedUser
  <2> QED
    BY <1>2, <1>3, <2>1, <2>3, RegsInv
<1>4. CASE /\ users' = Append(users, [name |-> regs[g].name, password |-> regs[g].password])
           /\ regs' = [regs EXCEPT ![g] =
                [step |-> "registered", name |-> @.name, counted |-> @.counted,
                 user |-> Len(users) + 1]]
  <2> DEFINE u == [name |-> regs[g].name, password |-> regs[g].password]
             k == Len(users) + 1
             r == [step |-> "registered", name |-> regs[g].name, counted |-> regs[g].counted,
                   user |-> k]
  <2>1. u \in User /\ regs[g].counted \in Nat /\ regs[g].name \in Name
    BY <1>1, <1>2 DEF AccTyped, Registration, NoTask, User
  <2>2. users \in Seq(User) /\ Len(users) \in Nat /\ k \in Nat
    BY <1>1, LenProperties DEF AccTyped
  <2>3. r \in Registration /\ users' = Append(users, u) /\ regs' = [regs EXCEPT ![g] = r]
    <3>1. regs' = [regs EXCEPT ![g] = r]
      BY <1>4
    <3> HIDE DEF k
    <3> QED
      BY <1>4, <2>1, <2>2, <3>1 DEF Registration
  <2>4. /\ users' \in Seq(User) /\ Len(users') = k
        /\ \A n : Named(n)' = Named(n) \cup (IF u.name = n THEN {k} ELSE {})
        /\ \A n, v : Means(n, v) => Means(n, v)'
    BY <2>1, <2>2, <2>3, UserAdded
  <2>5. /\ r.step = "registered" /\ r.counted = regs[g].counted /\ r.name = regs[g].name
        /\ r.user = k /\ u.name = regs[g].name /\ k = Len(users) + 1
    OBVIOUS
  <2> HIDE DEF u, r, k
  <2>6. /\ regs' \in [Registrant -> Registration] /\ regs'[g] = r
        /\ \A h \in Registrant \ {g} : regs'[h] = regs[h]
    BY <1>1, <2>3 DEF AccTyped
  <2>7. AccTyped'
    BY <1>1, <1>2, <2>4, <2>6 DEF AccTyped
  <2>8. ASSUME NEW h \in Registrant PROVE Counted(h)' /\ InsertedUser(h)'
    <3>1. CASE h = g
      <4>1. regs[g].counted <= Len(users) /\ \A v \in Named(regs[g].name) : v > regs[g].counted
        BY <1>1, <1>2 DEF Counted
      <4> QED
        BY <2>1, <2>2, <2>4, <2>5, <2>6, <3>1, <4>1 DEF Counted, InsertedUser
    <3>2. CASE h # g
      <4>1. regs'[h] = regs[h]
        BY <2>6, <3>2
      <4>2. CASE regs[h].step \in {"insert", "registered"}
        <5>1. /\ regs[h].counted \in Nat /\ regs[h].counted <= Len(users)
              /\ \A v \in Named(regs[h].name) : v > regs[h].counted
          BY <1>1, <4>2 DEF Counted, AccTyped, Registration, NoTask
        <5> QED
          BY <1>1, <2>2, <2>4, <2>5, <4>1, <5>1 DEF Counted, InsertedUser
      <4>3. CASE regs[h].step \notin {"insert", "registered"}
        BY <4>1, <4>3 DEF Counted, InsertedUser
      <4> QED
        BY <4>2, <4>3
    <3> QED
      BY <3>1, <3>2
  <2>9. SessionsNamed'
    BY <1>1, <1>2, <2>4 DEF SessionsNamed
  <2>10. ASSUME NEW b \in Browser PROVE CookieOwned(b)' /\ TaskOwned(b)'
    <3>1. CookieOwned(b)'
      <4> SUFFICES ASSUME cookies[b] # NoSession PROVE Means(cookies[b][2], account[b])'
        BY <1>2 DEF CookieOwned
      <4>1. Means(cookies[b][2], account[b])
        BY <1>1 DEF CookieOwned
      <4> DEFINE n == cookies[b][2]
                 a == account[b]
      <4>2. n' = n /\ a' = a
        BY <1>2
      <4> QED
        BY <2>4, <4>1, <4>2 DEF Means
    <3>2. TaskOwned(b)'
      BY <1>1, <1>2, <2>4 DEF TaskOwned, Means
    <3> QED
      BY <3>1, <3>2
  <2> QED
    BY <2>7, <2>8, <2>9, <2>10 DEF AccInv
<1> QED
  BY <1>3, <1>4 DEF InsertUser
-----------------------------------------------------------------------------
LEMMA AuthenticateUserInv ==
  ASSUME AccInv, NEW b \in Browser, NEW n \in Name, NEW p \in Password, AuthenticateUser(b, n, p)
  PROVE  AccInv'
<1>1. users \in Seq(User) /\ wallets \in Seq(OwnWallet) /\ cli \in Nat /\ now \in Nat
  BY DEF AccInv, AccTyped
<1> DEFINE t == [step |-> "login", name |-> n, user |-> FindUser(n)]
<1>2. Means(n, FindUser(n)) /\ FindUser(n) \in Nat
  BY <1>1, VerifiedMeans DEF AuthenticateUser
<1>3. t \in Task /\ t.step = "login" /\ t.name = n /\ t.user = FindUser(n)
  BY <1>2 DEF Task
<1>4. /\ tasks' = [tasks EXCEPT ![b] = t]
      /\ UNCHANGED <<users, wallets, regs, sessions, cookies, account, cli, now>>
  BY DEF AuthenticateUser
<1> HIDE DEF t
<1> QED
  BY <1>1, <1>2, <1>3, <1>4, TaskInv

LEMMA HandleLoginInv ==
  ASSUME AccInv, NEW b \in Browser, HandleLogin(b)
  PROVE  AccInv'
<1> DEFINE n == tasks[b].name
           id == SessionId(now, n)
<1>1. /\ AccTyped /\ SessionsNamed /\ \A c \in Browser : CookieOwned(c) /\ TaskOwned(c)
  BY DEF AccInv
<1>2. /\ tasks[b].step = "login" /\ UNCHANGED <<users, wallets, regs, cli, now>>
      /\ sessions' = [i \in DOMAIN sessions \cup {id} |-> IF i = id THEN n ELSE sessions[i]]
      /\ cookies' = [cookies EXCEPT ![b] = id]
      /\ account' = [account EXCEPT ![b] = tasks[b].user]
      /\ tasks' = [tasks EXCEPT ![b] = NoTask]
  BY DEF HandleLogin
<1>3. n \in Name /\ tasks[b].user \in Nat /\ Means(n, tasks[b].user)
  BY <1>1, <1>2 DEF AccTyped, Task, NoTask, TaskOwned
<1>4. id \in Cookie /\ id[2] = n
  BY <1>1, <1>3 DEF SessionId, Cookie, AccTyped
<1>5. \A m : Named(m)' = Named(m) /\ FindUser(m)' = FindUser(m)
  BY <1>2 DEF Named, FindUser
<1>6. PICK u \in Nat : u = tasks[b].user
  BY <1>3
<1>7. PICK i \in Cookie : i = id
  BY <1>4
<1>8. NoTask \in Task /\ NoTask.step = "idle"
  BY DEF Task, NoTask
<1> HIDE DEF n, id
<1>9. /\ cookies' \in [Browser -> Cookie \cup {NoSession}] /\ cookies'[b] = i
      /\ account' \in [Browser -> Nat] /\ account'[b] = u
      /\ tasks' \in [Browser -> Task] /\ tasks'[b] = NoTask
      /\ \A c \in Browser \ {b} :
           cookies'[c] = cookies[c] /\ account'[c] = account[c] /\ tasks'[c] = tasks[c]
  BY <1>1, <1>2, <1>6, <1>7, <1>8 DEF AccTyped
<1>10. AccTyped'
  BY <1>1, <1>2, <1>7, <1>9 DEF AccTyped
<1>11. SessionsNamed'
  BY <1>1, <1>2, <1>3, <1>4, <1>5, <1>7 DEF SessionsNamed, Means
<1>12. ASSUME NEW c \in Browser PROVE CookieOwned(c)' /\ TaskOwned(c)'
  <2>1. CASE c = b
    BY <1>3, <1>4, <1>5, <1>6, <1>7, <1>8, <1>9, <2>1 DEF CookieOwned, TaskOwned, Means
  <2>2. CASE c # b
    BY <1>1, <1>5, <1>9, <2>2 DEF CookieOwned, TaskOwned, Means
  <2> QED
    BY <2>1, <2>2
<1> QED
  BY <1>2, <1>10, <1>11, <1>12, BrowserInv

LEMMA HandleLogoutInv ==
  ASSUME AccInv, NEW b \in Browser, HandleLogout(b)
  PROVE  AccInv'
<1>1. /\ AccTyped /\ SessionsNamed /\ \A c \in Browser : CookieOwned(c) /\ TaskOwned(c)
  BY DEF AccInv
<1>2. /\ UNCHANGED <<users, wallets, regs, tasks, account, cli, now>>
      /\ sessions' = [i \in DOMAIN sessions \ {cookies[b]} |-> sessions[i]]
      /\ cookies' = [cookies EXCEPT ![b] = NoSession]
  BY DEF HandleLogout
<1>3. \A m : Named(m)' = Named(m) /\ FindUser(m)' = FindUser(m)
  BY <1>2 DEF Named, FindUser
<1>4. /\ cookies' \in [Browser -> Cookie \cup {NoSession}]
      /\ \A c \in Browser : cookies'[c] \in {cookies[c], NoSession}
  BY <1>1, <1>2 DEF AccTyped
<1>5. AccTyped'
  BY <1>1, <1>2, <1>4 DEF AccTyped
<1>6. SessionsNamed'
  BY <1>1, <1>2, <1>3 DEF SessionsNamed
<1>7. ASSUME NEW c \in Browser PROVE CookieOwned(c)' /\ TaskOwned(c)'
  BY <1>1, <1>2, <1>3, <1>4 DEF CookieOwned, TaskOwned, Means
<1> QED
  BY <1>2, <1>5, <1>6, <1>7, BrowserInv

LEMMA RequireAuthInv ==
  ASSUME AccInv, NEW b \in Browser, RequireAuth(b)
  PROVE  AccInv'
<1>1. /\ AccTyped /\ SessionsNamed /\ CookieOwned(b)
  BY DEF AccInv
<1>2. cookies[b] \in Cookie /\ NoSession \notin Cookie /\ account[b] \in Nat
  BY <1>1 DEF AccTyped, RequireAuth, Cookie, NoSession
<1> DEFINE t == [step |-> "auth", cookie |-> cookies[b], by |-> account[b]]
<1>3. t \in Task /\ t.step = "auth" /\ t.cookie = cookies[b] /\ t.by = account[b]
  BY <1>2 DEF Task
<1>4. Means(cookies[b][2], account[b])
  BY <1>1, <1>2 DEF CookieOwned
<1>5. /\ tasks' = [tasks EXCEPT ![b] = t]
      /\ UNCHANGED <<users, wallets, regs, sessions, cookies, account, cli, now>>
      /\ wallets \in Seq(OwnWallet) /\ cli \in Nat /\ now \in Nat
  BY <1>1 DEF RequireAuth, AccTyped
<1> HIDE DEF t
<1> QED
  BY <1>3, <1>4, <1>5, TaskInv

LEMMA NoTaskInv ==
  ASSUME AccInv, NEW b \in Browser, tasks' = [tasks EXCEPT ![b] = NoTask],
         UNCHANGED <<users, regs, sessions, cookies, account, cli, now>>,
         wallets' \in Seq(OwnWallet)
  PROVE  AccInv'
<1>1. NoTask \in Task /\ NoTask.step = "idle" /\ cli \in Nat /\ now \in Nat
  BY DEF Task, NoTask, AccInv, AccTyped
<1> QED
  BY <1>1, TaskInv

LEMMA GetUserFromSessionInv ==
  ASSUME AccInv, NEW b \in Browser, GetUserFromSession(b)
  PROVE  AccInv'
<1>1. /\ AccTyped /\ SessionsNamed /\ TaskOwned(b)
  BY DEF AccInv
<1>2. /\ tasks[b].step = "auth" /\ UNCHANGED <<users, wallets, regs, sessions, cookies, account, cli, now>>
      /\ wallets \in Seq(OwnWallet) /\ cli \in Nat /\ now \in Nat
  BY <1>1 DEF GetUserFromSession, AccTyped
<1>3. CASE tasks' = [tasks EXCEPT ![b] = NoTask]
  BY <1>2, <1>3, NoTaskInv
<1> DEFINE u == FindUser(sessions[tasks[b].cookie])
           t == [step |-> "make", owner |-> u, by |-> tasks[b].by]
<1>4. CASE /\ tasks[b].cookie \in DOMAIN sessions
           /\ tasks' = [tasks EXCEPT ![b] =
                [step |-> "make", owner |-> FindUser(sessions[@.cookie]), by |-> @.by]]
  <2>1. tasks' = [tasks EXCEPT ![b] = t]
    BY <1>4
  <2>2. u = tasks[b].by /\ tasks[b].by \in Nat
    BY <1>1, <1>2, <1>4 DEF SessionsNamed, TaskOwned, Means, AccTyped, Task, NoTask
  <2>3. t \in Task /\ t.step = "make" /\ t.owner = t.by
    BY <2>2 DEF Task
  <2> HIDE DEF t
  <2> QED
    BY <1>2, <2>1, <2>3, TaskInv
<1> QED
  BY <1>3, <1>4 DEF GetUserFromSession

LEMMA WalletStored ==
  ASSUME wallets \in Seq(OwnWallet), NEW u \in Nat, StoreWallet(u, u)
  PROVE  wallets' \in Seq(OwnWallet)
<1>1. [owner |-> u, by |-> u] \in OwnWallet
  BY DEF OwnWallet
<1> QED
  BY <1>1, AppendProperties DEF StoreWallet

LEMMA HandleWalletInv ==
  ASSUME AccInv, NEW b \in Browser, HandleWallet(b)
  PROVE  AccInv'
<1>1. /\ AccTyped /\ TaskOwned(b) /\ tasks[b].step = "make" /\ wallets \in Seq(OwnWallet)
  BY DEF AccInv, HandleWallet, AccTyped
<1>2. tasks[b].owner = tasks[b].by /\ tasks[b].by \in Nat
  BY <1>1 DEF TaskOwned, AccTyped, Task, NoTask
<1>3. wallets' \in Seq(OwnWallet)
  BY <1>1, <1>2, WalletStored DEF HandleWallet
<1> QED
  BY <1>3, NoTaskInv DEF HandleWallet

LEMMA RestartServerInv == AccInv /\ RestartServer => AccInv'
<1> SUFFICES ASSUME AccInv, RestartServer PROVE AccInv'
  OBVIOUS
<1>1. /\ AccTyped /\ \A h \in Registrant : Counted(h) /\ InsertedUser(h)
      /\ \A b \in Browser : CookieOwned(b)
      /\ UNCHANGED <<users, wallets, cookies, account, cli, now>>
      /\ DOMAIN sessions' = {} /\ tasks' = [b \in Browser |-> NoTask]
  BY DEF AccInv, RestartServer
<1>2. /\ regs' \in [Registrant -> Registration]
      /\ \A h \in Registrant : regs'[h] = regs[h] \/ regs'[h].step = "refused"
  BY <1>1 DEF AccTyped, Registration, RestartServer
<1>3. \A n : Named(n)' = Named(n) /\ FindUser(n)' = FindUser(n)
  BY <1>1 DEF Named, FindUser
<1>4. AccTyped'
  BY <1>1, <1>2 DEF AccTyped, Task
<1>5. ASSUME NEW h \in Registrant PROVE Counted(h)' /\ InsertedUser(h)'
  BY <1>1, <1>2, <1>3 DEF Counted, InsertedUser
<1>6. SessionsNamed'
  BY <1>1 DEF SessionsNamed
<1>7. ASSUME NEW b \in Browser PROVE CookieOwned(b)' /\ TaskOwned(b)'
  BY <1>1, <1>3 DEF CookieOwned, TaskOwned, Means, NoTask
<1> QED
  BY <1>4, <1>5, <1>6, <1>7 DEF AccInv

LEMMA AccNextInv == AccInv /\ [AccNext]_accVars => AccInv'
<1> SUFFICES ASSUME AccInv, [AccNext]_accVars PROVE AccInv'
  OBVIOUS
<1>1. users \in Seq(User) /\ wallets \in Seq(OwnWallet) /\ cli \in Nat /\ now \in Nat
  BY DEF AccInv, AccTyped
<1>2. ASSUME NEW n \in Name, NEW p \in Password, CliLogin(n, p) PROVE AccInv'
  <2>1. cli' \in Nat
    BY <1>1, <1>2, VerifiedMeans DEF CliLogin
  <2> QED
    BY <1>1, <1>2, <2>1, OthersInv DEF CliLogin
<1>3. CASE CliWallet
  BY <1>1, <1>3, WalletStored, OthersInv DEF CliWallet
<1>4. CASE CliLogout
  BY <1>1, <1>4, OthersInv DEF CliLogout
<1>5. CASE Tick
  BY <1>1, <1>5, OthersInv DEF Tick
<1>6. CASE UNCHANGED accVars
  BY <1>1, <1>6, OthersInv DEF accVars
<1> QED
  BY <1>2, <1>3, <1>4, <1>5, <1>6, CountUsersInv, InsertUserInv, AuthenticateUserInv,
     HandleLoginInv, HandleLogoutInv, RequireAuthInv, GetUserFromSessionInv, HandleWalletInv,
     RestartServerInv
  DEF AccNext

LEMMA AccInvariant == AccSpec => []AccInv
BY AccInitInv, AccNextInv, PTL DEF AccSpec

\* However registrations, logins, logouts, restarts and requests interleave: a user who
\* is told that he is registered can log in with his password, unless somebody else
\* registered the name between his count and his insertion.
THEOREM RegisteredCanLogIn == AccSpec => []RegisteredLogsIn
<1>1. AccInv => RegisteredLogsIn
  <2> SUFFICES ASSUME AccInv, NEW g \in Registrant, regs[g].step = "registered"
               PROVE  FindUser(regs[g].name) > regs[g].counted
    BY DEF RegisteredLogsIn
  <2>1. users \in Seq(User) /\ Counted(g) /\ InsertedUser(g)
    BY DEF AccInv, AccTyped
  <2>2. FindUser(regs[g].name) \in Named(regs[g].name)
    BY <2>1, FindUserFirst DEF InsertedUser
  <2> QED
    BY <2>1, <2>2 DEF Counted
<1> QED
  BY <1>1, AccInvariant, PTL

\* A wallet belongs to the account whose password was shown where it was asked for,
\* for any number of accounts, names and browsers.
THEOREM WalletsOwned == AccSpec => []OwnWallets
<1>1. AccInv => OwnWallets
  <2> SUFFICES ASSUME AccInv, NEW w \in DOMAIN wallets
               PROVE  wallets[w].owner = wallets[w].by
    BY DEF OwnWallets
  <2>1. wallets[w] \in OwnWallet
    BY ElementOfSeq, LenProperties DEF AccInv, AccTyped
  <2> QED
    BY <2>1 DEF OwnWallet
<1> QED
  BY <1>1, AccInvariant, PTL
=============================================================================
