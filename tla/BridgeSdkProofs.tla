-------------------------- MODULE BridgeSdkProofs --------------------------
(***************************************************************************)
(* The process of the bridge SDK: its relays over the bridge of the relay  *)
(* chain, for any transactions, calls, funds and retries; then starting    *)
(* and stopping it (LifeInv), its error handler (HandlerInv) and the       *)
(* streaming of its logs (StreamInv).                                      *)
(*                                                                         *)
(* RelayInv adds to the checked properties that a job makes no attempt     *)
(* after a transfer of its own (TransferEnds), that it succeeds with one   *)
(* only (SuccessTransfers), and that no attempt of a relay transaction     *)
(* fails, so that none is given up unless the breaker has opened           *)
(* (GivesUp).                                                              *)
(***************************************************************************)
EXTENDS BridgeRelay, Lifecycle, ErrorHandler, LogStreamer, TotalsProofs,
        SequenceTheorems, FiniteSetTheorems, TLAPS

\* The goroutine of a relay transaction works on that transaction, to Blackhole.
OwnTransaction ==
  \A r \in Relay : job[r].pc # "idle" => job[r].relay = r /\ job[r].dest = "blackhole"

\* Only a breaker that has opened is not closed.
OpenedBefore == breaker.state # "closed" => opened

\* A job has made one transfer at most, and does not attempt one after it.
TransferEnds ==
  \A j \in Job :
    /\ \A i, k \in TransfersBy(j) : i = k
    /\ TransfersBy(j) # {} => job[j].pc \in {"succeeded", "complete", "done"}

\* Whether a relay transaction is one that the bridge can transfer.
Payable(r) == relays[r].source = "ethereum" /\ relays[r].from \notin Short

\* What has succeeded or is completed has a transfer, if it needs one.
SuccessTransfers ==
  \A r \in Relay :
    /\ job[r].pc \in {"succeeded", "complete"} \/ relays[r].status = "completed"
    /\ Payable(r)
    => TransfersBy(r) # {}

\* No attempt of a relay transaction fails: the breaker alone makes it give up.
GivesUp ==
  \A r \in Relay :
    /\ job[r].pc # "failed"
    /\ job[r].pc = "give up" => opened
    /\ relays[r].status = "failed"
       => opened /\ TransfersBy(r) = {} /\ job[r].pc = "done"

RelayInv ==
  /\ TypeOK /\ BridgeBacked
  /\ OwnTransaction /\ OpenedBefore /\ TransferEnds /\ SuccessTransfers /\ GivesUp
-----------------------------------------------------------------------------
LEMMA BridgeFacts ==
  /\ IsFiniteSet(Account) /\ Pool \notin User /\ User \subseteq Account /\ Pool \in Account
  /\ Funds \in [Account -> Nat] /\ Total(Funds) \in Nat
<1>1. IsFiniteSet(Account) /\ Funds \in [Account -> Nat]
  BY BridgeAssumption, FS_AddElement DEF Account
<1> QED
  BY <1>1, BridgeAssumption, TotalType DEF Account

\* Sets of indices are finite, and what they index has a sum.
LEMMA AmountsType ==
  ASSUME NEW s \in Seq(Transfer), NEW T, T \subseteq DOMAIN s
  PROVE  IsFiniteSet(T) /\ [i \in T |-> s[i].amount] \in [T -> Nat]
<1>1. DOMAIN s = 1 .. Len(s) /\ Len(s) \in Nat /\ \A i \in DOMAIN s : s[i] \in Transfer
  BY LenProperties, ElementOfSeq
<1>2. IsFiniteSet(1 .. Len(s))
  BY <1>1, FS_Interval
<1>3. IsFiniteSet(T)
  BY <1>1, <1>2, FS_Subset
<1>4. \A i \in T : s[i].amount \in Nat
  BY <1>1 DEF Transfer
<1> QED
  BY <1>3, <1>4

\* BHX that is locked moves from its owner to the bridge.
LEMMA LockMoves ==
  ASSUME balances \in [Account -> Nat], NEW from \in User, NEW amount \in Nat,
         balances[from] >= amount, Lock(from, amount)
  PROVE  /\ balances' \in [Account -> Nat] /\ Total(balances') = Total(balances)
         /\ balances'[Pool] = balances[Pool] + amount
<1> DEFINE less == [balances EXCEPT ![from] = @ - amount]
           more == [less EXCEPT ![Pool] = @ + amount]
<1>1. /\ balances[from] \in Nat /\ balances[from] - amount \in Nat /\ balances[Pool] \in Nat
      /\ from \in Account /\ Pool \in Account /\ from # Pool /\ IsFiniteSet(Account)
  BY BridgeFacts
<1>2. /\ less \in [Account -> Nat] /\ less[from] = balances[from] - amount
      /\ less[Pool] = balances[Pool]
      /\ \A a \in Account \ {from} : less[a] = balances[a]
  BY <1>1
<1>3. /\ more \in [Account -> Nat] /\ more[Pool] = less[Pool] + amount
      /\ \A a \in Account \ {Pool} : more[a] = less[a]
  BY <1>1, <1>2
<1>4. balances' = more
  BY <1>1 DEF Lock
<1> HIDE DEF less, more
<1>5. /\ Total(balances) \in Nat /\ Total(less) \in Nat
      /\ Total(less) = Total(balances) - balances[from] + less[from]
  BY <1>1, <1>2, TotalChange
<1>6. /\ Total(more) \in Nat /\ Total(more) = Total(less) - less[Pool] + more[Pool]
  BY <1>1, <1>2, <1>3, TotalChange
<1>7. Total(more) = Total(balances)
  BY <1>1, <1>2, <1>3, <1>5, <1>6
<1> QED
  BY <1>2, <1>3, <1>4, <1>7

BridgeTyped == balances \in [Account -> Nat] /\ transfers \in Seq(Transfer)

\* A new transfer locks what it takes from Blackhole, and mints nothing yet.
LEMMA InitiateBacked ==
  ASSUME BridgeTyped, BridgeBacked,
         NEW source \in Chains, NEW dest \in Chains, NEW from \in User, NEW to \in User,
         NEW token \in {"BHX", "ETH", "SOL"}, NEW amount \in Nat, NEW by \in Requester,
         InitiateBridgeTransfer(source, dest, from, to, token, amount, by)
  PROVE  BridgeTyped' /\ BridgeBacked'
<1> DEFINE n == Len(transfers)
           t == [source |-> source, dest |-> dest, to |-> to, token |-> token,
                 amount |-> amount, status |-> "pending", minted |-> FALSE, by |-> by]
<1>1. t \in Transfer /\ t.source = source /\ t.amount = amount /\ t.status = "pending"
  BY DEF Transfer
<1>2. transfers' = Append(transfers, t)
  BY DEF InitiateBridgeTransfer
<1> HIDE DEF t
<1>3. /\ transfers' \in Seq(Transfer) /\ n \in Nat
      /\ DOMAIN transfers = 1 .. n /\ DOMAIN transfers' = 1 .. n + 1
      /\ \A i \in 1 .. n : transfers'[i] = transfers[i]
      /\ transfers'[n + 1] = t
  BY <1>1, <1>2, AppendProperties, LenProperties DEF BridgeTyped
<1>4. Arrived' = Arrived
  BY <1>1, <1>3 DEF Arrived
<1>5. Amounts(Arrived)' = Amounts(Arrived)
  <2>1. \A i \in Arrived : transfers'[i] = transfers[i]
    BY <1>3 DEF Arrived
  <2> QED
    BY <1>4, <2>1 DEF Amounts
<1>6. CASE source = "blackhole"
  <2>1. /\ balances' \in [Account -> Nat] /\ Total(balances') = Total(balances)
        /\ balances'[Pool] = balances[Pool] + amount
    <3>1. balances[from] >= amount /\ Lock(from, amount)
      BY <1>6 DEF InitiateBridgeTransfer, CanInitiate, Lockable
    <3> QED
      BY <3>1, LockMoves DEF BridgeTyped
  <2>2. Left' = Left \cup {n + 1} /\ n + 1 \notin Left
    BY <1>1, <1>3, <1>6 DEF Left
  <2>3. /\ IsFiniteSet(Left) /\ Amounts(Left) \in [Left -> Nat]
        /\ Amounts(Left)' \in [Left \cup {n + 1} -> Nat]
    <3>1. IsFiniteSet(Left) /\ Amounts(Left) \in [Left -> Nat]
      BY AmountsType DEF Left, Amounts, BridgeTyped
    <3>2. Amounts(Left)' \in [Left' -> Nat]
      BY <1>3, AmountsType DEF Left, Amounts
    <3> QED
      BY <3>1, <3>2, <2>2
  <2>4. /\ \A i \in Left : Amounts(Left)'[i] = Amounts(Left)[i]
        /\ Amounts(Left)'[n + 1] = amount
    BY <1>1, <1>3, <2>2 DEF Amounts, Left
  <2>5. Total(Amounts(Left)') = Total(Amounts(Left)) + amount /\ Total(Amounts(Left)) \in Nat
    <3> DEFINE S == Left
               f == Amounts(Left)
               g == Amounts(Left)'
    <3>1. /\ IsFiniteSet(S) /\ n + 1 \notin S /\ f \in [S -> Nat] /\ g \in [S \cup {n + 1} -> Nat]
          /\ \A i \in S : g[i] = f[i]
          /\ g[n + 1] = amount
      BY <2>2, <2>3, <2>4
    <3> HIDE DEF S, f, g, n
    <3>2. Total(g) = Total(f) + g[n + 1] /\ Total(f) \in Nat
      BY <3>1, TotalExtend
    <3> QED
      BY <3>1, <3>2 DEF f, g
  <2>6. balances[Pool] \in Nat /\ Funds[Pool] \in Nat
    BY BridgeFacts DEF BridgeTyped
  <2> QED
    BY <1>3, <1>5, <2>1, <2>5, <2>6 DEF BridgeBacked, LocksBacked, MintsBacked, BridgeTyped
<1>7. CASE source # "blackhole"
  <2>1. balances' = balances
    BY <1>7 DEF InitiateBridgeTransfer
  <2>2. Left' = Left /\ \A i \in Left : transfers'[i] = transfers[i]
    BY <1>1, <1>3, <1>7 DEF Left
  <2>3. Amounts(Left)' = Amounts(Left)
    BY <2>2 DEF Amounts
  <2> QED
    BY <1>3, <1>5, <2>1, <2>3 DEF BridgeBacked, LocksBacked, MintsBacked, BridgeTyped
<1> QED
  BY <1>6, <1>7

\* What a goroutine of a transfer changes in it.
LEMMA StepFacts ==
  ASSUME BridgeTyped, NEW i \in DOMAIN transfers,
         NEW v \in Transfer, transfers' = [transfers EXCEPT ![i] = v],
         v.source = transfers[i].source, v.amount = transfers[i].amount
  PROVE  /\ transfers' \in Seq(Transfer) /\ DOMAIN transfers' = DOMAIN transfers
         /\ transfers'[i] = v /\ \A k \in DOMAIN transfers \ {i} : transfers'[k] = transfers[k]
         /\ Left' = Left /\ Amounts(Left)' = Amounts(Left)
<1>1. DOMAIN transfers = 1 .. Len(transfers) /\ Len(transfers) \in Nat
  BY LenProperties DEF BridgeTyped
<1>2. /\ transfers' \in Seq(Transfer) /\ Len(transfers') = Len(transfers)
      /\ \A k \in 1 .. Len(transfers) : transfers'[k] = IF k = i THEN v ELSE transfers[k]
  BY <1>1, ExceptSeq DEF BridgeTyped
<1>3. DOMAIN transfers' = DOMAIN transfers
  BY <1>1, <1>2, LenProperties
<1>4. Left' = Left
  BY <1>1, <1>2, <1>3 DEF Left
<1>5. \A k \in Left : transfers'[k].amount = transfers[k].amount
  BY <1>1, <1>2 DEF Left
<1> QED
  BY <1>1, <1>2, <1>3, <1>4, <1>5 DEF Amounts

LEMMA TransferTyped ==
  ASSUME BridgeTyped, NEW i \in DOMAIN transfers
  PROVE  /\ transfers[i] \in Transfer /\ transfers[i].to \in User /\ transfers[i].amount \in Nat
         /\ transfers[i].status \in {"pending", "confirmed", "completed"}
<1>1. transfers[i] \in Transfer
  BY LenProperties, ElementOfSeq DEF BridgeTyped
<1> QED
  BY <1>1 DEF Transfer

LEMMA ConfirmationBacked ==
  ASSUME BridgeTyped, BridgeBacked, NEW i \in DOMAIN transfers, processRelayConfirmation(i)
  PROVE  BridgeTyped' /\ BridgeBacked'
<1> DEFINE t == transfers[i]
           v == [t EXCEPT !.status = "confirmed"]
<1>1. /\ v \in Transfer /\ v.source = t.source /\ v.amount = t.amount
      /\ v.status = "confirmed" /\ t.status = "pending"
  BY TransferTyped DEF Transfer, processRelayConfirmation
<1>2. transfers' = [transfers EXCEPT ![i] = v] /\ balances' = balances
  BY DEF processRelayConfirmation
<1> HIDE DEF v
<1>3. /\ transfers' \in Seq(Transfer) /\ DOMAIN transfers' = DOMAIN transfers
      /\ transfers'[i] = v /\ \A k \in DOMAIN transfers \ {i} : transfers'[k] = transfers[k]
      /\ Amounts(Left)' = Amounts(Left)
  BY <1>1, <1>2, StepFacts
<1>4. Arrived' = Arrived /\ \A k \in Arrived : transfers'[k] = transfers[k]
  BY <1>1, <1>3 DEF Arrived
<1>5. Amounts(Arrived)' = Amounts(Arrived)
  BY <1>4 DEF Amounts
<1> QED
  BY <1>2, <1>3, <1>5 DEF BridgeTyped, BridgeBacked, LocksBacked, MintsBacked

LEMMA DestinationBacked ==
  ASSUME BridgeTyped, BridgeBacked, NEW i \in DOMAIN transfers, processDestinationTransfer(i)
  PROVE  BridgeTyped' /\ BridgeBacked'
<1> DEFINE t == transfers[i]
           v == [t EXCEPT !.status = "completed", !.minted = Mints(t)]
<1>1. /\ v \in Transfer /\ v.source = t.source /\ v.amount = t.amount /\ v.dest = t.dest
      /\ v.status = "completed" /\ v.minted = Mints(t) /\ t.status = "confirmed"
      /\ t.to \in User /\ t.amount \in Nat
  <2>1. t \in Transfer /\ t.status = "confirmed" /\ t.to \in User /\ t.amount \in Nat
    BY TransferTyped DEF processDestinationTransfer
  <2>2. Mints(t) \in BOOLEAN
    BY DEF Mints
  <2> QED
    BY <2>1, <2>2 DEF Transfer
<1>2. /\ transfers' = [transfers EXCEPT ![i] = v]
      /\ balances' = IF Mints(t) THEN [balances EXCEPT ![t.to] = @ + t.amount] ELSE balances
  BY DEF processDestinationTransfer
<1>3. Mints(t) => t.dest = "blackhole"
  BY DEF Mints
<1> HIDE DEF v
<1>4. /\ transfers' \in Seq(Transfer) /\ DOMAIN transfers' = DOMAIN transfers
      /\ transfers'[i] = v /\ \A k \in DOMAIN transfers \ {i} : transfers'[k] = transfers[k]
      /\ Amounts(Left)' = Amounts(Left)
  BY <1>1, <1>2, StepFacts
<1>5. i \notin Arrived /\ \A k \in Arrived : transfers'[k] = transfers[k]
  BY <1>1, <1>4 DEF Arrived
<1>6. CASE Mints(t)
  <2> DEFINE b == balances[t.to] + t.amount
  <2>1. t.to \in Account /\ t.to # Pool /\ Pool \in Account /\ IsFiniteSet(Account)
    BY <1>1, BridgeFacts
  <2>2. balances[t.to] \in Nat /\ b \in Nat /\ balances' = [balances EXCEPT ![t.to] = b]
    BY <1>1, <1>2, <1>6, <2>1 DEF BridgeTyped
  <2>3. /\ balances' \in [Account -> Nat] /\ balances'[Pool] = balances[Pool]
        /\ balances'[t.to] = b
        /\ \A a \in Account \ {t.to} : balances'[a] = balances[a]
    BY <2>1, <2>2 DEF BridgeTyped
  <2>4. /\ Total(balances) \in Nat /\ Total(balances') \in Nat
        /\ Total(balances') = Total(balances) - balances[t.to] + balances'[t.to]
    BY <2>1, <2>3, TotalChange DEF BridgeTyped
  <2>5. Total(balances') = Total(balances) + t.amount
    BY <2>2, <2>3, <2>4, <1>1
  <2>6. Arrived' = Arrived \cup {i}
    BY <1>1, <1>3, <1>4, <1>6 DEF Arrived
  <2>7. Total(Amounts(Arrived)') = Total(Amounts(Arrived)) + t.amount
        /\ Total(Amounts(Arrived)) \in Nat
    <3> DEFINE S == Arrived
               f == Amounts(Arrived)
               g == Amounts(Arrived)'
    <3>1. IsFiniteSet(S) /\ f \in [S -> Nat]
      BY AmountsType DEF Arrived, Amounts, BridgeTyped
    <3>2. g \in [S \cup {i} -> Nat]
      <4>1. g \in [Arrived' -> Nat]
        BY <1>4, AmountsType DEF Arrived, Amounts
      <4> QED
        BY <4>1, <2>6
    <3>3. i \notin S /\ (\A k \in S : g[k] = f[k]) /\ g[i] = t.amount
      BY <1>1, <1>4, <1>5, <2>6 DEF Amounts
    <3> HIDE DEF S, f, g
    <3>4. Total(g) = Total(f) + g[i] /\ Total(f) \in Nat
      BY <3>1, <3>2, <3>3, TotalExtend
    <3> QED
      BY <3>3, <3>4 DEF f, g
  <2>8. LocksBacked'
    BY <1>4, <2>3 DEF BridgeBacked, LocksBacked
  <2>9. MintsBacked'
    BY <1>1, <2>4, <2>5, <2>7, BridgeFacts DEF BridgeBacked, MintsBacked
  <2> QED
    BY <1>4, <2>3, <2>8, <2>9 DEF BridgeTyped, BridgeBacked
<1>7. CASE ~Mints(t)
  <2>1. balances' = balances
    BY <1>2, <1>7
  <2>2. Arrived' = Arrived
    BY <1>1, <1>4, <1>7 DEF Arrived
  <2>3. Amounts(Arrived)' = Amounts(Arrived)
    BY <1>5, <2>2 DEF Amounts
  <2> QED
    BY <1>4, <2>1, <2>3 DEF BridgeTyped, BridgeBacked, LocksBacked, MintsBacked
<1> QED
  BY <1>6, <1>7
-----------------------------------------------------------------------------
\* A job that runs, as a record.
Running ==
  [pc : {"check", "attempt", "succeeded", "failed", "complete", "give up", "done"},
   relay : Relay, dest : Chains, attempt : 0 .. MaxRetries, round : 0 .. MaxRetries]

LEMMA RunningJob ==
  ASSUME TypeOK, NEW j \in Job, job[j].pc # "idle"
  PROVE  /\ job[j] \in Running /\ relays[job[j].relay] \in RelayTransaction
         /\ job[j].relay \in Relay
<1>1. job[j] \in JobState
  BY DEF TypeOK
<1>2. job[j] \in Running
  BY <1>1 DEF JobState, Running
<1>3. job[j].relay \in Relay
  BY <1>2 DEF Running
<1> QED
  BY <1>2, <1>3 DEF TypeOK

\* One job goes on and the others stay.
LEMMA OneJob ==
  ASSUME TypeOK, NEW j \in Job, NEW s \in Running, job' = [job EXCEPT ![j] = s]
  PROVE  /\ job' \in [Job -> JobState] /\ job'[j] = s /\ job'[j].pc # "idle"
         /\ \A k \in Job \ {j} : job'[k] = job[k]
<1>1. s \in JobState /\ s.pc # "idle"
  BY DEF Running, JobState
<1> QED
  BY <1>1 DEF TypeOK

\* Which transfers a job has made: goroutines of transfers leave that alone,
\* and a new transfer is its caller's.
LEMMA StepKeepsBy ==
  ASSUME BridgeTyped, BridgeStep
  PROVE  \A j : TransfersBy(j)' = TransfersBy(j)
<1>1. PICK i \in DOMAIN transfers : processRelayConfirmation(i) \/ processDestinationTransfer(i)
  BY DEF BridgeStep
<1>2. /\ DOMAIN transfers' = DOMAIN transfers
      /\ \A k \in DOMAIN transfers : transfers'[k].by = transfers[k].by
  <2> DEFINE t == transfers[i]
  <2>1. t \in Transfer
    BY TransferTyped
  <2>2. CASE processRelayConfirmation(i)
    <3>1. transfers' = [transfers EXCEPT ![i] = [t EXCEPT !.status = "confirmed"]]
      BY <2>2 DEF processRelayConfirmation
    <3>2. [t EXCEPT !.status = "confirmed"].by = t.by
      BY <2>1 DEF Transfer
    <3> QED
      BY <3>1, <3>2
  <2>3. CASE processDestinationTransfer(i)
    <3>1. transfers' = [transfers EXCEPT ![i] =
                          [t EXCEPT !.status = "completed", !.minted = Mints(t)]]
      BY <2>3 DEF processDestinationTransfer
    <3>2. [t EXCEPT !.status = "completed", !.minted = Mints(t)].by = t.by
      BY <2>1 DEF Transfer
    <3> QED
      BY <3>1, <3>2
  <2> QED
    BY <1>1, <2>2, <2>3
<1> QED
  BY <1>2 DEF TransfersBy

LEMMA InitiateBy ==
  ASSUME BridgeTyped,
         NEW source \in Chains, NEW dest \in Chains, NEW from \in User, NEW to \in User,
         NEW token \in {"BHX", "ETH", "SOL"}, NEW amount \in Nat, NEW by \in Requester,
         InitiateBridgeTransfer(source, dest, from, to, token, amount, by)
  PROVE  \A j : TransfersBy(j)' = IF j = by THEN TransfersBy(j) \cup {Len(transfers) + 1}
                                            ELSE TransfersBy(j)
<1> DEFINE n == Len(transfers)
           t == [source |-> source, dest |-> dest, to |-> to, token |-> token,
                 amount |-> amount, status |-> "pending", minted |-> FALSE, by |-> by]
<1>1. t \in Transfer /\ t.by = by
  BY DEF Transfer
<1>2. transfers' = Append(transfers, t)
  BY DEF InitiateBridgeTransfer
<1> HIDE DEF t
<1>3. /\ n \in Nat /\ DOMAIN transfers = 1 .. n /\ DOMAIN transfers' = 1 .. n + 1
      /\ \A i \in 1 .. n : transfers'[i] = transfers[i]
      /\ transfers'[n + 1] = t
  BY <1>1, <1>2, AppendProperties, LenProperties DEF BridgeTyped
<1> QED
  BY <1>1, <1>3 DEF TransfersBy

\* A round that fails starts another or ends the job.
LEMMA RoundFailsFacts ==
  ASSUME TypeOK, NEW j \in Job, job[j].pc # "idle", RoundFails(j)
  PROVE  \E s \in Running :
           /\ job' = [job EXCEPT ![j] = s]
           /\ s.relay = job[j].relay /\ s.dest = job[j].dest
           /\ s.pc \in {"check", "give up", "done"} /\ (j \in Relay => s.pc # "done")
<1>1. job[j] \in Running /\ MaxRetries \in Nat
  BY RunningJob, RelayAssumption
<1>2. CASE j \in Relay /\ job[j].round < MaxRetries
  <2> DEFINE s == [job[j] EXCEPT !.pc = "check", !.attempt = 0, !.round = @ + 1]
  <2>1. job' = [job EXCEPT ![j] = s]
    BY <1>2 DEF RoundFails
  <2>2. job[j].round + 1 \in 0 .. MaxRetries /\ 0 \in 0 .. MaxRetries
    <3>1. job[j].round \in 0 .. MaxRetries
      BY <1>1 DEF Running
    <3> QED
      BY <1>1, <1>2, <3>1
  <2>3. s \in Running /\ s.relay = job[j].relay /\ s.dest = job[j].dest /\ s.pc = "check"
    <3> DEFINE n == job[j].round + 1
    <3> HIDE DEF n
    <3> QED
      BY <1>1, <2>2 DEF Running, n
  <2> HIDE DEF s
  <2> QED
    BY <2>1, <2>3
<1>3. CASE ~(j \in Relay /\ job[j].round < MaxRetries)
  <2> DEFINE s == [job[j] EXCEPT !.pc = IF j \in Relay THEN "give up" ELSE "done"]
  <2>1. job' = [job EXCEPT ![j] = s]
    BY <1>3 DEF RoundFails
  <2>2. /\ s \in Running /\ s.relay = job[j].relay /\ s.dest = job[j].dest
        /\ s.pc = IF j \in Relay THEN "give up" ELSE "done"
    BY <1>1 DEF Running
  <2> HIDE DEF s
  <2> QED
    BY <1>1, <2>1, <2>2
<1> QED
  BY <1>2, <1>3

\* A step of one job that leaves the bridge and the relay transactions alone.
LEMMA JobGoesOn ==
  ASSUME RelayInv, NEW j \in Job, job[j].pc # "idle", job[j].pc # "done",
         NEW s \in Running, job' = [job EXCEPT ![j] = s],
         s.relay = job[j].relay, s.dest = job[j].dest,
         UNCHANGED <<bridge, relays>>,
         breaker' \in [state : {"closed", "open", "half-open"}, failures : Nat,
                       successes : 0 .. Successes - 1, cool : BOOLEAN],
         opened' \in BOOLEAN, opened => opened', OpenedBefore',
         job[j].pc \in {"succeeded", "complete"} => s.pc \in {"succeeded", "complete", "done"},
         j \in Relay =>
           /\ s.pc \notin {"failed", "done"} /\ (s.pc = "give up" => opened')
           /\ (s.pc \in {"succeeded", "complete"} => job[j].pc \in {"succeeded", "complete"})
  PROVE  RelayInv'
<1>1. /\ TypeOK /\ BridgeBacked /\ OwnTransaction /\ TransferEnds /\ SuccessTransfers /\ GivesUp
      /\ balances' = balances /\ transfers' = transfers /\ relays' = relays
      /\ Relay \subseteq Job
  BY DEF RelayInv, bridge, Job
<1>2. /\ job' \in [Job -> JobState] /\ job'[j] = s /\ job'[j].pc # "idle"
      /\ \A k \in Job \ {j} : job'[k] = job[k]
  BY <1>1, OneJob
<1>3. TypeOK'
  BY <1>1, <1>2 DEF TypeOK
<1>4. BridgeBacked'
  BY <1>1 DEF BridgeBacked, LocksBacked, MintsBacked, Left, Arrived, Amounts
<1>5. OwnTransaction'
  BY <1>1, <1>2 DEF OwnTransaction
<1>6. \A k : TransfersBy(k)' = TransfersBy(k)
  BY <1>1 DEF TransfersBy
<1>7. TransferEnds'
  <2> SUFFICES ASSUME NEW k \in Job
               PROVE  /\ \A a, b \in TransfersBy(k)' : a = b
                      /\ TransfersBy(k)' # {} => job'[k].pc \in {"succeeded", "complete", "done"}
    BY DEF TransferEnds
  <2>1. /\ \A a, b \in TransfersBy(k) : a = b
        /\ TransfersBy(k) # {} => job[k].pc \in {"succeeded", "complete", "done"}
    BY <1>1 DEF TransferEnds
  <2>2. CASE k = j
    BY <1>2, <1>6, <2>1, <2>2
  <2>3. CASE k # j
    BY <1>2, <1>6, <2>1, <2>3
  <2> QED
    BY <2>2, <2>3
<1>8. SuccessTransfers'
  BY <1>1, <1>2, <1>6 DEF SuccessTransfers, Payable
<1>9. GivesUp'
  BY <1>1, <1>2, <1>6 DEF GivesUp
<1> QED
  BY <1>3, <1>4, <1>5, <1>7, <1>8, <1>9 DEF RelayInv
-----------------------------------------------------------------------------
(***************************************************************************)
(* One lemma for each action.                                              *)
(***************************************************************************)
LEMMA InitInv == Init => RelayInv
<1> SUFFICES ASSUME Init PROVE RelayInv
  OBVIOUS
<1> USE DEF Init, BridgeInit
<1>1. Successes - 1 \in Nat /\ 0 \in 0 .. Successes - 1
  BY RelayAssumption
<1>2. \A j \in Job : job[j].pc = "idle" /\ job[j] \in JobState
  BY DEF JobState
<1>3. DOMAIN transfers = {} /\ transfers \in Seq(Transfer)
  OBVIOUS
<1>4. TypeOK
  BY <1>1, <1>2, <1>3, BridgeFacts DEF TypeOK, Closed
<1>5. BridgeBacked
  <2>1. Left = {} /\ Arrived = {}
    BY <1>3 DEF Left, Arrived
  <2>2. Total(Amounts({})) = 0
    <3>1. Amounts({}) \in [{} -> Nat] /\ \A i \in {} : Amounts({})[i] = 0
      BY DEF Amounts
    <3> QED
      BY <3>1, TotalZero
  <2>3. Funds[Pool] \in Nat
    BY BridgeFacts
  <2> QED
    BY <2>1, <2>2, <2>3, BridgeFacts DEF BridgeBacked, LocksBacked, MintsBacked
<1>6. \A j : TransfersBy(j) = {}
  BY <1>3 DEF TransfersBy
<1>7. \A r \in Relay : r \in Job /\ relays[r] = NoTransaction /\ relays[r].status = "none"
  BY DEF Job, NoTransaction
<1> QED
  BY <1>2, <1>4, <1>5, <1>6, <1>7
  DEF RelayInv, OwnTransaction, OpenedBefore, TransferEnds, SuccessTransfers, GivesUp, Closed

\* The breaker, in a state of the right type.
BreakerState ==
  [state : {"closed", "open", "half-open"}, failures : Nat,
   successes : 0 .. Successes - 1, cool : BOOLEAN]

LEMMA CheckBreakerInv ==
  ASSUME RelayInv, NEW j \in Job, CheckBreaker(j)
  PROVE  RelayInv'
<1>1. TypeOK /\ OpenedBefore /\ breaker \in BreakerState /\ opened \in BOOLEAN
  BY DEF RelayInv, TypeOK, BreakerState
<1>2. job[j].pc = "check" /\ UNCHANGED <<bridge, relays>> /\ opened' = opened
  BY DEF CheckBreaker
<1>3. job[j] \in Running
  BY <1>1, <1>2, RunningJob
<1>4. breaker' \in BreakerState /\ OpenedBefore'
  <2>1. 0 \in 0 .. Successes - 1
    BY RelayAssumption
  <2>2. CASE breaker' = breaker
    BY <1>1, <1>2, <2>2 DEF OpenedBefore
  <2>3. CASE /\ breaker.state = "open"
             /\ breaker' = [breaker EXCEPT !.state = "half-open", !.successes = 0]
    BY <1>1, <1>2, <2>1, <2>3 DEF OpenedBefore, BreakerState
  <2> QED
    BY <2>2, <2>3 DEF CheckBreaker
<1>5. CASE job' = [job EXCEPT ![j].pc = "attempt"]
  <2> DEFINE s == [job[j] EXCEPT !.pc = "attempt"]
  <2>1. job' = [job EXCEPT ![j] = s]
    BY <1>5
  <2>2. s \in Running /\ s.relay = job[j].relay /\ s.dest = job[j].dest /\ s.pc = "attempt"
    BY <1>3 DEF Running
  <2> HIDE DEF s
  <2> QED
    BY <1>1, <1>2, <1>4, <2>1, <2>2, JobGoesOn DEF BreakerState
<1>6. CASE breaker.state = "open" /\ RoundFails(j)
  <2>1. PICK s \in Running :
           /\ job' = [job EXCEPT ![j] = s]
           /\ s.relay = job[j].relay /\ s.dest = job[j].dest
           /\ s.pc \in {"check", "give up", "done"} /\ (j \in Relay => s.pc # "done")
    BY <1>1, <1>2, <1>6, RoundFailsFacts
  <2>2. opened
    BY <1>1, <1>6 DEF OpenedBefore
  <2> QED
    BY <1>1, <1>2, <1>4, <2>1, <2>2, JobGoesOn DEF BreakerState
<1> QED
  BY <1>5, <1>6 DEF CheckBreaker

LEMMA RecordSuccessInv ==
  ASSUME RelayInv, NEW j \in Job, RecordSuccess(j)
  PROVE  RelayInv'
<1>1. TypeOK /\ OpenedBefore /\ breaker \in BreakerState /\ opened \in BOOLEAN
  BY DEF RelayInv, TypeOK, BreakerState
<1>2. job[j].pc = "succeeded" /\ UNCHANGED <<bridge, relays>> /\ opened' = opened
  BY DEF RecordSuccess
<1>3. job[j] \in Running
  BY <1>1, <1>2, RunningJob
<1>4. breaker' \in BreakerState /\ OpenedBefore'
  <2>1. 0 \in 0 .. Successes - 1 /\ Successes \in Nat
    BY RelayAssumption
  <2>2. CASE breaker.state = "closed"
    BY <1>1, <1>2, <2>2 DEF RecordSuccess, OpenedBefore
  <2>3. CASE breaker.state # "closed" /\ Closes
    <3>1. breaker' = Closed
      BY <2>3 DEF RecordSuccess
    <3> QED
      BY <2>1, <3>1 DEF Closed, BreakerState, OpenedBefore
  <2>4. CASE breaker.state # "closed" /\ ~Closes
    <3>1. breaker' = [breaker EXCEPT !.successes = @ + 1]
      BY <2>4 DEF RecordSuccess
    <3>2. breaker.successes + 1 \in 0 .. Successes - 1
      <4>1. breaker.successes \in 0 .. Successes - 1
        BY <1>1 DEF BreakerState
      <4> QED
        BY <2>1, <2>4, <4>1 DEF Closes
    <3> QED
      BY <1>1, <1>2, <3>1, <3>2 DEF BreakerState, OpenedBefore
  <2> QED
    BY <2>2, <2>3, <2>4
<1> DEFINE s == [job[j] EXCEPT !.pc = IF j \in Relay THEN "complete" ELSE "done"]
<1>5. job' = [job EXCEPT ![j] = s]
  BY DEF RecordSuccess
<1>6. /\ s \in Running /\ s.relay = job[j].relay /\ s.dest = job[j].dest
      /\ s.pc = IF j \in Relay THEN "complete" ELSE "done"
  BY <1>3 DEF Running
<1> HIDE DEF s
<1> QED
  BY <1>1, <1>2, <1>4, <1>5, <1>6, JobGoesOn DEF BreakerState

LEMMA RecordFailureInv ==
  ASSUME RelayInv, NEW j \in Job, RecordFailure(j)
  PROVE  RelayInv'
<1>1. /\ TypeOK /\ OpenedBefore /\ GivesUp /\ breaker \in BreakerState /\ opened \in BOOLEAN
  BY DEF RelayInv, TypeOK, BreakerState
<1>2. job[j].pc = "failed" /\ UNCHANGED <<bridge, relays>> /\ opened' = (opened \/ Opens)
  BY DEF RecordFailure
<1>3. job[j] \in Running /\ j \notin Relay
  BY <1>1, <1>2, RunningJob DEF GivesUp
<1>4. breaker' \in BreakerState /\ OpenedBefore'
  <2>1. breaker' = [breaker EXCEPT !.failures = @ + 1, !.state = IF Opens THEN "open" ELSE @,
                                   !.cool = IF Opens THEN FALSE ELSE @]
    BY DEF RecordFailure
  <2>2. Opens \in BOOLEAN
    BY DEF Opens
  <2>3. breaker.failures + 1 \in Nat
    BY <1>1 DEF BreakerState
  <2>4. breaker' \in BreakerState /\ breaker'.state = IF Opens THEN "open" ELSE breaker.state
    <3> DEFINE n == breaker.failures + 1
    <3> HIDE DEF n
    <3>1. breaker' = [breaker EXCEPT !.failures = n, !.state = IF Opens THEN "open" ELSE @,
                                     !.cool = IF Opens THEN FALSE ELSE @]
      BY <2>1 DEF n
    <3> QED
      BY <1>1, <2>2, <2>3, <3>1 DEF BreakerState, n
  <2> QED
    BY <1>1, <1>2, <2>4 DEF OpenedBefore
<1>5. CASE job[j].attempt < MaxRetries
  <2> DEFINE s == [job[j] EXCEPT !.pc = "check", !.attempt = @ + 1]
  <2>1. job' = [job EXCEPT ![j] = s]
    BY <1>5 DEF RecordFailure
  <2>2. job[j].attempt + 1 \in 0 .. MaxRetries
    <3>1. job[j].attempt \in 0 .. MaxRetries /\ MaxRetries \in Nat
      BY <1>3, RelayAssumption DEF Running
    <3> QED
      BY <1>5, <3>1
  <2>3. s \in Running /\ s.relay = job[j].relay /\ s.dest = job[j].dest /\ s.pc = "check"
    <3> DEFINE n == job[j].attempt + 1
    <3> HIDE DEF n
    <3> QED
      BY <1>3, <2>2 DEF Running, n
  <2> HIDE DEF s
  <2> QED
    BY <1>1, <1>2, <1>3, <1>4, <2>1, <2>3, JobGoesOn DEF BreakerState
<1>6. CASE ~(job[j].attempt < MaxRetries)
  <2>1. RoundFails(j)
    BY <1>6 DEF RecordFailure
  <2>2. PICK s \in Running :
           /\ job' = [job EXCEPT ![j] = s]
           /\ s.relay = job[j].relay /\ s.dest = job[j].dest
           /\ s.pc \in {"check", "give up", "done"}
    BY <1>1, <1>2, <2>1, RoundFailsFacts
  <2> QED
    BY <1>1, <1>2, <1>3, <1>4, <2>2, JobGoesOn DEF BreakerState
<1> QED
  BY <1>5, <1>6

\* What a job that runs does to itself and to the transaction it may set.
LEMMA OutcomeFacts ==
  ASSUME RelayInv, NEW j \in Job, job[j].pc # "idle",
         NEW p \in {"succeeded", "failed", "complete", "done"},
         NEW status \in {"relaying", "failed", "confirmed", "completed"},
         job' = [job EXCEPT ![j].pc = p], SetStatus(j, status),
         BridgeTyped', UNCHANGED <<breaker, opened>>
  PROVE  /\ TypeOK' /\ OwnTransaction' /\ OpenedBefore'
         /\ job'[j].pc = p /\ \A k \in Job \ {j} : job'[k] = job[k]
         /\ \A r \in Relay \ {j} : relays'[r] = relays[r]
         /\ j \in Relay => /\ relays'[j].status = status
                           /\ relays'[j].source = relays[j].source
                           /\ relays'[j].from = relays[j].from
<1>1. /\ TypeOK /\ OwnTransaction /\ OpenedBefore
      /\ job[j] \in Running /\ (j \in Relay => job[j].relay = j)
  BY RunningJob DEF RelayInv, OwnTransaction
<1> DEFINE s == [job[j] EXCEPT !.pc = p]
<1>2. s \in Running /\ s.relay = job[j].relay /\ s.dest = job[j].dest /\ s.pc = p
  BY <1>1 DEF Running
<1>3. job' = [job EXCEPT ![j] = s]
  OBVIOUS
<1> HIDE DEF s
<1>4. /\ job' \in [Job -> JobState] /\ job'[j] = s
      /\ \A k \in Job \ {j} : job'[k] = job[k]
  BY <1>1, <1>2, <1>3, OneJob
<1>5. /\ relays' \in [Relay -> RelayTransaction \cup {NoTransaction}]
      /\ \A r \in Relay \ {j} : relays'[r] = relays[r]
      /\ j \in Relay => /\ relays'[j].status = status /\ relays'[j] \in RelayTransaction
                        /\ relays'[j].source = relays[j].source
                        /\ relays'[j].from = relays[j].from
  <2>1. CASE j \in Relay
    <3> DEFINE t == [relays[j] EXCEPT !.status = status]
    <3>1. relays[j] \in RelayTransaction
      BY <1>1, <2>1, RunningJob
    <3>2. /\ t \in RelayTransaction /\ t.status = status
          /\ t.source = relays[j].source /\ t.from = relays[j].from
      BY <3>1 DEF RelayTransaction, Status
    <3>3. relays' = [relays EXCEPT ![j] = t]
      BY <2>1 DEF SetStatus
    <3> HIDE DEF t
    <3>4. relays \in [Relay -> RelayTransaction \cup {NoTransaction}]
      BY <1>1 DEF TypeOK
    <3> QED
      BY <2>1, <3>2, <3>3, <3>4
  <2>2. CASE j \notin Relay
    BY <1>1, <2>2 DEF SetStatus, TypeOK
  <2> QED
    BY <2>1, <2>2
<1>6. \A r \in Relay : relays[r] # NoTransaction => relays'[r] # NoTransaction
  <2>1. \A t \in RelayTransaction : t # NoTransaction
    BY DEF RelayTransaction, NoTransaction
  <2> QED
    BY <1>5, <2>1
<1>7. \A k \in Job : job'[k].pc # "idle" => relays'[job'[k].relay] # NoTransaction
  <2> SUFFICES ASSUME NEW k \in Job, job'[k].pc # "idle"
               PROVE  relays'[job'[k].relay] # NoTransaction
    OBVIOUS
  <2>1. job[k].pc # "idle" /\ job'[k].relay = job[k].relay
    BY <1>2, <1>4
  <2>2. job[k].relay \in Relay /\ relays[job[k].relay] # NoTransaction
    BY <1>1, <2>1, RunningJob DEF TypeOK
  <2> QED
    BY <1>6, <2>1, <2>2
<1>8. TypeOK'
  BY <1>1, <1>4, <1>5, <1>7 DEF TypeOK, BridgeTyped
<1>9. OwnTransaction' /\ OpenedBefore'
  BY <1>1, <1>2, <1>4 DEF OwnTransaction, OpenedBefore
<1> QED
  BY <1>2, <1>4, <1>5, <1>8, <1>9

\* A relay transaction is always for a token and a chain that the bridge knows.
LEMMA RelaySupported == \A token \in {"ETH", "SOL"} : Supported("ethereum", "blackhole", token)
BY DEF Supported, SupportedChains, TokenMappings

LEMMA AttemptInv ==
  ASSUME RelayInv, NEW j \in Job, Attempt(j)
  PROVE  RelayInv'
<1> DEFINE r == job[j].relay
           tx == relays[r]
<1>1. /\ TypeOK /\ BridgeBacked /\ BridgeTyped /\ OwnTransaction /\ TransferEnds
      /\ SuccessTransfers /\ GivesUp /\ UNCHANGED <<breaker, opened>>
      /\ Relay \subseteq Job /\ Job \subseteq Requester
  BY RelayAssumption DEF RelayInv, TypeOK, BridgeTyped, Attempt, Job
<1>2. job[j].pc = "attempt"
  BY DEF Attempt
<1>3. /\ tx \in RelayTransaction /\ tx.source \in {"ethereum", "solana"} /\ tx.from \in User
      /\ job[j].dest \in Chains /\ TokenOf(r) \in {"ETH", "SOL"}
  <2>1. tx \in RelayTransaction /\ job[j] \in Running
    BY <1>1, <1>2, RunningJob
  <2> QED
    BY <2>1 DEF RelayTransaction, Running, TokenOf
<1>4. j \in Relay => r = j /\ job[j].dest = "blackhole"
  BY <1>1, <1>2 DEF OwnTransaction
<1>5. TransfersBy(j) = {}
  BY <1>1, <1>2 DEF TransferEnds
<1> HIDE DEF r
<1>6. ASSUME NEW p \in {"succeeded", "complete", "done"}, NEW status \in {"relaying", "confirmed"},
             job' = [job EXCEPT ![j].pc = p], SetStatus(j, status), UNCHANGED bridge,
             p = "succeeded" => tx.source = "solana",
             p = "complete" => tx.from \in Short
      PROVE  RelayInv'
  <2>1. BridgeTyped' /\ BridgeBacked'
    BY <1>1, <1>6 DEF BridgeTyped, BridgeBacked, LocksBacked, MintsBacked, Left, Arrived,
                      Amounts, bridge
  <2>2. /\ TypeOK' /\ OwnTransaction' /\ OpenedBefore'
        /\ job'[j].pc = p /\ \A k \in Job \ {j} : job'[k] = job[k]
        /\ \A k \in Relay \ {j} : relays'[k] = relays[k]
        /\ j \in Relay => /\ relays'[j].status = status
                          /\ relays'[j].source = relays[j].source
                          /\ relays'[j].from = relays[j].from
    BY <1>1, <1>2, <1>6, <2>1, OutcomeFacts
  <2>3. \A k : TransfersBy(k)' = TransfersBy(k)
    BY <1>6 DEF TransfersBy, bridge
  <2>4. TransferEnds'
    BY <1>1, <1>5, <2>2, <2>3 DEF TransferEnds
  <2>5. SuccessTransfers'
    BY <1>1, <1>4, <1>6, <2>2, <2>3 DEF SuccessTransfers, Payable
  <2>6. GivesUp'
    BY <1>1, <1>2, <1>6, <2>2, <2>3 DEF GivesUp
  <2> QED
    BY <2>1, <2>2, <2>4, <2>5, <2>6 DEF RelayInv
<1>7. CASE /\ tx.source = "solana" /\ UNCHANGED bridge
           /\ job' = [job EXCEPT ![j].pc = "succeeded"] /\ SetStatus(j, "confirmed")
  BY <1>6, <1>7
<1>8. CASE /\ InitiateBridgeTransfer(tx.source, job[j].dest, tx.from, tx.from, TokenOf(r), 1, j)
           /\ job' = [job EXCEPT ![j].pc = "succeeded"] /\ SetStatus(j, "confirmed")
  <2> DEFINE n == Len(transfers) + 1
  <2>1. /\ tx.source \in Chains /\ TokenOf(r) \in {"BHX", "ETH", "SOL"} /\ 1 \in Nat
        /\ j \in Requester
    BY <1>1, <1>3 DEF Chains
  <2>2. BridgeTyped' /\ BridgeBacked'
    BY <1>1, <1>3, <1>8, <2>1, InitiateBacked
  <2>3. \A k : TransfersBy(k)' = IF k = j THEN TransfersBy(k) \cup {n} ELSE TransfersBy(k)
    <3> DEFINE token == TokenOf(r)
               source == tx.source
               dest == job[j].dest
               from == tx.from
    <3>1. /\ InitiateBridgeTransfer(source, dest, from, from, token, 1, j)
          /\ source \in Chains /\ dest \in Chains /\ from \in User
          /\ token \in {"BHX", "ETH", "SOL"} /\ 1 \in Nat /\ j \in Requester
      BY <1>3, <1>8, <2>1
    <3> HIDE DEF token, source, dest, from
    <3> QED
      BY <1>1, <3>1, InitiateBy
  <2>4. /\ TypeOK' /\ OwnTransaction' /\ OpenedBefore'
        /\ job'[j].pc = "succeeded" /\ \A k \in Job \ {j} : job'[k] = job[k]
        /\ \A k \in Relay \ {j} : relays'[k] = relays[k]
        /\ j \in Relay => relays'[j].status = "confirmed"
    BY <1>1, <1>2, <1>8, <2>2, OutcomeFacts
  <2> HIDE DEF n
  <2>5. TransferEnds'
    BY <1>1, <1>5, <2>3, <2>4 DEF TransferEnds
  <2>6. SuccessTransfers'
    BY <1>1, <2>3, <2>4 DEF SuccessTransfers, Payable
  <2>7. GivesUp'
    BY <1>1, <2>3, <2>4 DEF GivesUp
  <2> QED
    BY <2>2, <2>4, <2>5, <2>6, <2>7 DEF RelayInv
<1>9. CASE /\ Panics(tx.source, job[j].dest, tx.from, TokenOf(r)) /\ UNCHANGED bridge
           /\ job' = [job EXCEPT ![j].pc = IF j \in Relay THEN "complete" ELSE "done"]
           /\ SetStatus(j, "relaying")
  <2>1. tx.from \in Short
    BY <1>9 DEF Panics
  <2> DEFINE p == IF j \in Relay THEN "complete" ELSE "done"
  <2>2. p \in {"succeeded", "complete", "done"} /\ p # "succeeded"
    OBVIOUS
  <2>3. job' = [job EXCEPT ![j].pc = p]
    BY <1>9
  <2> HIDE DEF p
  <2> QED
    BY <1>6, <1>9, <2>1, <2>2, <2>3
<1>10. CASE /\ tx.source # "solana" /\ ~Supported(tx.source, job[j].dest, TokenOf(r))
            /\ UNCHANGED bridge
            /\ job' = [job EXCEPT ![j].pc = "failed"] /\ SetStatus(j, "failed")
  <2>1. j \notin Relay
    BY <1>3, <1>4, <1>10, RelaySupported
  <2> DEFINE s == [job[j] EXCEPT !.pc = "failed"]
  <2>2. job[j] \in Running
    BY <1>1, <1>2, RunningJob
  <2>3. job' = [job EXCEPT ![j] = s] /\ relays' = relays
    BY <1>10, <2>1 DEF SetStatus
  <2>4. s \in Running /\ s.relay = job[j].relay /\ s.dest = job[j].dest /\ s.pc = "failed"
    BY <2>2 DEF Running
  <2>5. /\ breaker' \in BreakerState /\ opened' \in BOOLEAN /\ (opened => opened')
        /\ OpenedBefore'
    BY <1>1 DEF TypeOK, BreakerState, OpenedBefore, RelayInv
  <2> HIDE DEF s
  <2> QED
    BY <1>2, <1>10, <2>1, <2>3, <2>4, <2>5, JobGoesOn DEF BreakerState
<1> QED
  BY <1>7, <1>8, <1>9, <1>10 DEF Attempt, r

LEMMA ProcessRelayInv ==
  ASSUME RelayInv, NEW j \in Job, processRelay(j)
  PROVE  RelayInv'
<1>1. /\ TypeOK /\ BridgeBacked /\ BridgeTyped /\ OwnTransaction /\ TransferEnds
      /\ SuccessTransfers /\ GivesUp /\ UNCHANGED <<breaker, opened>> /\ Relay \subseteq Job
  BY DEF RelayInv, TypeOK, BridgeTyped, processRelay, Job
<1>2. UNCHANGED bridge /\ job' = [job EXCEPT ![j].pc = "done"]
  BY DEF processRelay
<1>3. BridgeTyped' /\ BridgeBacked' /\ \A k : TransfersBy(k)' = TransfersBy(k)
  BY <1>1, <1>2 DEF BridgeTyped, BridgeBacked, LocksBacked, MintsBacked, Left, Arrived,
                    Amounts, TransfersBy, bridge
<1>4. ASSUME NEW status \in {"completed", "failed"}, SetStatus(j, status), job[j].pc # "idle",
             status = "completed" => job[j].pc = "complete",
             status = "failed" => job[j].pc = "give up"
      PROVE  RelayInv'
  <2>1. /\ TypeOK' /\ OwnTransaction' /\ OpenedBefore'
        /\ job'[j].pc = "done" /\ \A k \in Job \ {j} : job'[k] = job[k]
        /\ \A k \in Relay \ {j} : relays'[k] = relays[k]
        /\ j \in Relay => /\ relays'[j].status = status
                          /\ relays'[j].source = relays[j].source
                          /\ relays'[j].from = relays[j].from
    BY <1>1, <1>2, <1>3, <1>4, OutcomeFacts
  <2>2. TransferEnds'
    BY <1>1, <1>3, <2>1 DEF TransferEnds
  <2>3. SuccessTransfers'
    BY <1>1, <1>3, <1>4, <2>1 DEF SuccessTransfers, Payable
  <2>4. GivesUp'
    <3>1. TransfersBy(j) # {} => job[j].pc # "give up"
      BY <1>1 DEF TransferEnds
    <3> QED
      BY <1>1, <1>3, <1>4, <2>1, <3>1 DEF GivesUp
  <2> QED
    BY <1>3, <2>1, <2>2, <2>3, <2>4 DEF RelayInv
<1>5. CASE job[j].pc = "complete" /\ SetStatus(j, "completed")
  BY <1>4, <1>5
<1>6. CASE job[j].pc = "give up" /\ SetStatus(j, "failed")
  BY <1>4, <1>6
<1> QED
  BY <1>5, <1>6 DEF processRelay

LEMMA WorkingRuns ==
  ASSUME NEW r \in Relay, NEW dest \in Chains
  PROVE  /\ Working(r, dest) \in Running /\ Working(r, dest).pc = "check"
         /\ Working(r, dest).relay = r /\ Working(r, dest).dest = dest
<1>1. 0 \in 0 .. MaxRetries
  BY RelayAssumption
<1> QED
  BY <1>1 DEF Working, Running

LEMMA HandleEventInv ==
  ASSUME RelayInv, NEW r \in Relay, NEW e \in Events, HandleEvent(r, e)
  PROVE  RelayInv'
<1> DEFINE s == Working(r, "blackhole")
           t == [status |-> "pending", source |-> e.source, from |-> e.from]
<1>1. /\ TypeOK /\ BridgeBacked /\ OwnTransaction /\ TransferEnds
      /\ SuccessTransfers /\ GivesUp /\ OpenedBefore /\ UNCHANGED <<bridge, breaker, opened>>
      /\ Relay \subseteq Job /\ r \in Job
  BY DEF RelayInv, HandleEvent, Job
<1>2. t \in RelayTransaction /\ t.status = "pending"
  BY RelayAssumption DEF RelayTransaction, Status
<1>3. /\ s \in Running /\ s.pc = "check" /\ s.relay = r /\ s.dest = "blackhole"
  BY WorkingRuns DEF Chains
<1>4. relays[r] = NoTransaction /\ relays' = [relays EXCEPT ![r] = t] /\ job' = [job EXCEPT ![r] = s]
  BY DEF HandleEvent
<1> HIDE DEF s, t
<1>5. job[r].pc = "idle" /\ TransfersBy(r) = {}
  <2>1. job[r].pc = "idle"
    BY <1>1, <1>4 DEF OwnTransaction, TypeOK
  <2> QED
    BY <1>1, <2>1 DEF TransferEnds
<1>6. /\ job' \in [Job -> JobState] /\ job'[r] = s
      /\ \A k \in Job \ {r} : job'[k] = job[k]
  BY <1>1, <1>3, <1>4, OneJob
<1>7. /\ relays' \in [Relay -> RelayTransaction \cup {NoTransaction}] /\ relays'[r] = t
      /\ \A k \in Relay \ {r} : relays'[k] = relays[k]
  BY <1>1, <1>2, <1>4 DEF TypeOK
<1>8. \A k \in Relay : relays[k] # NoTransaction => relays'[k] # NoTransaction
  BY <1>4, <1>7
<1>9. relays'[r] # NoTransaction
  BY <1>2, <1>7 DEF NoTransaction
<1>10. TypeOK'
  <2>1. \A k \in Job : job'[k].pc # "idle" => relays'[job'[k].relay] # NoTransaction
    <3> SUFFICES ASSUME NEW k \in Job, job'[k].pc # "idle"
                 PROVE  relays'[job'[k].relay] # NoTransaction
      OBVIOUS
    <3>1. CASE k = r
      BY <1>3, <1>6, <1>9, <3>1
    <3>2. CASE k # r
      <4>1. job'[k] = job[k] /\ job[k].relay \in Relay /\ relays[job[k].relay] # NoTransaction
        BY <1>1, <1>6, <3>2, RunningJob DEF TypeOK
      <4> QED
        BY <1>8, <4>1
    <3> QED
      BY <3>1, <3>2
  <2> QED
    BY <1>1, <1>6, <1>7, <2>1 DEF TypeOK, bridge
<1>11. BridgeBacked' /\ \A k : TransfersBy(k)' = TransfersBy(k)
  BY <1>1 DEF BridgeBacked, LocksBacked, MintsBacked, Left, Arrived, Amounts, TransfersBy, bridge
<1>12. OwnTransaction' /\ OpenedBefore'
  BY <1>1, <1>3, <1>6 DEF OwnTransaction, OpenedBefore
<1>13. TransferEnds'
  BY <1>1, <1>5, <1>6, <1>11 DEF TransferEnds
<1>14. SuccessTransfers'
  BY <1>1, <1>2, <1>3, <1>6, <1>7, <1>11 DEF SuccessTransfers, Payable
<1>15. GivesUp'
  BY <1>1, <1>2, <1>3, <1>6, <1>7, <1>11 DEF GivesUp
<1> QED
  BY <1>10, <1>11, <1>12, <1>13, <1>14, <1>15 DEF RelayInv

LEMMA RelayToChainInv ==
  ASSUME RelayInv, NEW m \in Manual, NEW r \in Relay, NEW dest \in Targets, RelayToChain(m, r, dest)
  PROVE  RelayInv'
<1> DEFINE s == Working(r, dest)
<1>1. /\ TypeOK /\ BridgeBacked /\ OwnTransaction /\ TransferEnds
      /\ SuccessTransfers /\ GivesUp /\ OpenedBefore /\ UNCHANGED <<bridge, relays, breaker, opened>>
      /\ Relay \subseteq Job /\ m \in Job /\ m \notin Relay
  BY RelayAssumption DEF RelayInv, RelayToChain, Job
<1>2. s \in Running /\ s.pc = "check" /\ s.relay = r
  BY WorkingRuns, RelayAssumption
<1>3. job[m].pc = "idle" /\ relays[r] # NoTransaction /\ job' = [job EXCEPT ![m] = s]
  BY DEF RelayToChain
<1> HIDE DEF s
<1>4. TransfersBy(m) = {}
  BY <1>1, <1>3 DEF TransferEnds
<1>5. /\ job' \in [Job -> JobState] /\ job'[m] = s
      /\ \A k \in Job \ {m} : job'[k] = job[k]
  BY <1>1, <1>2, <1>3, OneJob
<1>6. TypeOK'
  BY <1>1, <1>2, <1>3, <1>5 DEF TypeOK, bridge
<1>7. BridgeBacked' /\ \A k : TransfersBy(k)' = TransfersBy(k)
  BY <1>1 DEF BridgeBacked, LocksBacked, MintsBacked, Left, Arrived, Amounts, TransfersBy, bridge
<1>8. OwnTransaction' /\ OpenedBefore'
  BY <1>1, <1>5 DEF OwnTransaction, OpenedBefore
<1>9. TransferEnds'
  BY <1>1, <1>4, <1>5, <1>7 DEF TransferEnds
<1>10. SuccessTransfers' /\ GivesUp'
  BY <1>1, <1>5, <1>7 DEF SuccessTransfers, Payable, GivesUp
<1> QED
  BY <1>6, <1>7, <1>8, <1>9, <1>10 DEF RelayInv

\* What others do on the bridge is no transfer of a job.
LEMMA OthersInv ==
  ASSUME RelayInv, BridgeTyped', BridgeBacked', UNCHANGED <<relays, job, breaker, opened>>,
         \A j \in Job : TransfersBy(j)' = TransfersBy(j)
  PROVE  RelayInv'
<1>1. /\ TypeOK /\ OwnTransaction /\ TransferEnds /\ SuccessTransfers /\ GivesUp /\ OpenedBefore
      /\ Relay \subseteq Job
  BY DEF RelayInv, Job
<1>2. TypeOK' /\ OwnTransaction' /\ OpenedBefore'
  BY <1>1 DEF TypeOK, BridgeTyped, OwnTransaction, OpenedBefore
<1>3. TransferEnds'
  BY <1>1 DEF TransferEnds
<1>4. SuccessTransfers' /\ GivesUp'
  BY <1>1 DEF SuccessTransfers, Payable, GivesUp
<1> QED
  BY <1>2, <1>3, <1>4 DEF RelayInv

LEMMA BridgeStepInv ==
  ASSUME RelayInv, BridgeStep, UNCHANGED <<relays, job, breaker, opened>>
  PROVE  RelayInv'
<1>1. BridgeTyped /\ BridgeBacked
  BY DEF RelayInv, TypeOK, BridgeTyped
<1>2. \A j : TransfersBy(j)' = TransfersBy(j)
  BY <1>1, StepKeepsBy
<1>3. BridgeTyped' /\ BridgeBacked'
  BY <1>1, ConfirmationBacked, DestinationBacked DEF BridgeStep
<1> QED
  BY <1>2, <1>3, OthersInv

LEMMA LocalCallInv ==
  ASSUME RelayInv, NEW c \in Local, LocalCall(c)
  PROVE  RelayInv'
<1>1. BridgeTyped /\ BridgeBacked
  BY DEF RelayInv, TypeOK, BridgeTyped
<1>2. /\ c.source \in Chains /\ c.dest \in Chains /\ c.from \in User /\ c.to \in User
      /\ c.amount \in Nat /\ "local" \in Requester /\ "BHX" \in {"BHX", "ETH", "SOL"}
      /\ "local" \notin Job
  <2>1. c \in [source : Chains, dest : Chains, from : User, to : User, amount : Nat]
    BY RelayAssumption
  <2>2. "local" \notin Job /\ "local" \in Requester
    BY RelayAssumption DEF Job
  <2>3. "BHX" \in {"BHX", "ETH", "SOL"}
    OBVIOUS
  <2> QED
    BY <2>1, <2>2, <2>3
<1>3. /\ InitiateBridgeTransfer(c.source, c.dest, c.from, c.to, "BHX", c.amount, "local")
      /\ UNCHANGED <<relays, job, breaker, opened>>
  BY DEF LocalCall
<1>4. BridgeTyped' /\ BridgeBacked'
  BY <1>1, <1>2, <1>3, InitiateBacked
<1>5. \A j : TransfersBy(j)' = IF j = "local" THEN TransfersBy(j) \cup {Len(transfers) + 1}
                                              ELSE TransfersBy(j)
  BY <1>1, <1>2, <1>3, InitiateBy
<1>6. \A j \in Job : TransfersBy(j)' = TransfersBy(j)
  BY <1>2, <1>5
<1> QED
  BY <1>3, <1>4, <1>6, OthersInv

LEMMA CoolDownInv ==
  ASSUME RelayInv, CoolDown
  PROVE  RelayInv'
<1>1. /\ TypeOK /\ OpenedBefore /\ breaker \in BreakerState
      /\ UNCHANGED <<bridge, relays, job, opened>> /\ breaker' = [breaker EXCEPT !.cool = TRUE]
  BY DEF RelayInv, TypeOK, BreakerState, CoolDown
<1>2. breaker' \in BreakerState /\ breaker'.state = breaker.state
  BY <1>1 DEF BreakerState
<1>3. TypeOK' /\ OpenedBefore'
  BY <1>1, <1>2 DEF TypeOK, OpenedBefore, BreakerState, bridge
<1>4. BridgeBacked' /\ \A k : TransfersBy(k)' = TransfersBy(k)
  BY <1>1 DEF RelayInv, BridgeBacked, LocksBacked, MintsBacked, Left, Arrived, Amounts,
              TransfersBy, bridge
<1> QED
  BY <1>1, <1>3, <1>4
  DEF RelayInv, OwnTransaction, TransferEnds, SuccessTransfers, Payable, GivesUp
-----------------------------------------------------------------------------
LEMMA NextInv == RelayInv /\ [Next]_vars => RelayInv'
<1> SUFFICES ASSUME RelayInv, [Next]_vars PROVE RelayInv'
  OBVIOUS
<1>1. ASSUME NEW j \in Job, JobStep(j) PROVE RelayInv'
  BY <1>1, CheckBreakerInv, AttemptInv, RecordSuccessInv, RecordFailureInv, ProcessRelayInv
  DEF JobStep
<1>2. CASE UNCHANGED vars
  <2>1. /\ balances' = balances /\ transfers' = transfers
        /\ UNCHANGED <<relays, job, breaker, opened>>
    BY <1>2 DEF vars, bridge
  <2>2. BridgeTyped' /\ BridgeBacked'
    BY <2>1 DEF RelayInv, TypeOK, BridgeTyped, BridgeBacked, LocksBacked, MintsBacked, Left,
                Arrived, Amounts
  <2>3. \A j \in Job : TransfersBy(j)' = TransfersBy(j)
    BY <2>1 DEF TransfersBy
  <2> QED
    BY <2>1, <2>2, <2>3, OthersInv
<1> QED
  BY <1>1, <1>2, HandleEventInv, RelayToChainInv, BridgeStepInv, LocalCallInv, CoolDownInv DEF Next

LEMMA Invariant == Spec => []RelayInv
BY InitInv, NextInv, PTL DEF Spec

\* Relay transactions, jobs, the breaker and transfers have the types of TypeOK.
THEOREM RelayTyped == Spec => []TypeOK
<1>1. RelayInv => TypeOK
  BY DEF RelayInv
<1> QED
  BY <1>1, Invariant, PTL

\* What left Blackhole is locked and what arrived was minted once, for any jobs,
\* calls and funds.
THEOREM BridgeIsBacked == Spec => []BridgeBacked
<1>1. RelayInv => BridgeBacked
  BY DEF RelayInv
<1> QED
  BY <1>1, Invariant, PTL

\* However many retries and rounds there are, and whatever the breaker does: one
\* transfer for each relay transaction and call, and none is completed without.
THEOREM EveryRelayOnce == Spec => []RelayedOnce
<1>1. RelayInv => RelayedOnce
  <2> SUFFICES ASSUME RelayInv PROVE RelayedOnce
    OBVIOUS
  <2>1. ASSUME NEW j \in Job PROVE Cardinality(TransfersBy(j)) <= 1
    <3>1. \A i, k \in TransfersBy(j) : i = k
      BY DEF RelayInv, TransferEnds
    <3>2. CASE TransfersBy(j) = {}
      BY <3>2, FS_EmptySet
    <3>3. CASE TransfersBy(j) # {}
      <4>1. PICK i : TransfersBy(j) = {i}
        BY <3>1, <3>3
      <4>2. Cardinality({i}) = 1
        BY FS_Singleton
      <4> QED
        BY <4>1, <4>2
    <3> QED
      BY <3>2, <3>3
  <2>2. \A r \in Relay :
          relays[r].status = "completed" /\ relays[r].source = "ethereum"
            /\ relays[r].from \notin Short => TransfersBy(r) # {}
    BY DEF RelayInv, SuccessTransfers, Payable
  <2> QED
    BY <2>1, <2>2 DEF RelayedOnce
<1> QED
  BY <1>1, Invariant, PTL

\* A relay transaction is given up only when the breaker has opened, and never
\* after it has made its transfer.
THEOREM GivenUpByBreaker == Spec => []FailedByBreaker
<1>1. RelayInv => FailedByBreaker
  BY DEF RelayInv, GivesUp, FailedByBreaker
<1> QED
  BY <1>1, Invariant, PTL
-----------------------------------------------------------------------------
(***************************************************************************)
(* Starting and stopping. OneStart is about a listener that was never      *)
(* stopped nor started by two calls at once: its goroutines are there only *)
(* if it runs, and a call that has looked at isRunning finds it as it was. *)
(***************************************************************************)

\* What a listener keeps.
ListenerState ==
  [isRunning : BOOLEAN, stopClosed : BOOLEAN, starts : Nat, queued : Nat,
   source : [SourceState -> Nat], waiting : Nat, handling : Nat, overlapped : BOOLEAN]

LifeTyped ==
  /\ inits \in 0 .. MaxInits
  /\ listener \in [Obj -> ListenerState]
  /\ call = [k \in Thread |-> call[k]]
  /\ \A k \in Thread : call[k].op \in {"start", "set"} => call[k].of \in Obj

\* The calls that are past their last look at isRunning.
Setting(o) == {k \in Thread : call[k].op = "set" /\ call[k].of = o}

\* A listener that two calls have not started at once, and none has stopped, is being
\* started by one call, has goroutines only if it runs, and does not run when a call
\* is past its last look at isRunning.
OneStart(o) ==
  ~listener[o].overlapped /\ ~listener[o].stopClosed =>
    /\ \A j, k \in Starting(o) : j = k
    /\ Processors(o) <= 1
    /\ ~listener[o].isRunning => Processors(o) = 0
    /\ Setting(o) # {} => ~listener[o].isRunning

LifeInv == LifeTyped /\ \A o \in Obj : OneStart(o)
-----------------------------------------------------------------------------
LEMMA LifeInitInv == LifeInit => LifeInv
<1> SUFFICES ASSUME LifeInit PROVE LifeInv
  OBVIOUS
<1>1. /\ inits = 0 /\ listener = [o \in Obj |-> NewListener]
      /\ call = [k \in Thread |-> Idle]
  BY DEF LifeInit
<1>2. NewListener \in ListenerState
  BY DEF NewListener, ListenerState
<1>3. LifeTyped
  BY <1>1, <1>2, LifecycleAssumption DEF LifeTyped, Idle
<1>4. \A o \in Obj : Starting(o) = {} /\ Setting(o) = {} /\ Processors(o) = 0
  BY <1>1 DEF Starting, Setting, Processors, Idle, NewListener
<1> QED
  BY <1>3, <1>4 DEF LifeInv, OneStart

\* What does not start a listener leaves it started by at most one call.
LEMMA OneStartKept ==
  ASSUME NEW o \in Obj, OneStart(o),
         listener[o] \in ListenerState, listener'[o] \in ListenerState,
         listener[o].overlapped => listener'[o].overlapped,
         listener[o].stopClosed => listener'[o].stopClosed,
         \/ listener'[o].stopClosed
         \/ /\ listener'[o].isRunning = listener[o].isRunning
            /\ listener'[o].waiting + listener'[o].handling
                 <= listener[o].waiting + listener[o].handling,
         \A k \in Thread :
           call'[k] = call[k] \/ call'[k].op \notin {"start", "set"}
  PROVE  OneStart(o)'
<1>1. Starting(o)' \subseteq Starting(o) /\ Setting(o)' \subseteq Setting(o)
  BY DEF Starting, Setting
<1>2. /\ listener[o].waiting \in Nat /\ listener[o].handling \in Nat
      /\ listener'[o].waiting \in Nat /\ listener'[o].handling \in Nat
      /\ listener[o].overlapped \in BOOLEAN /\ listener'[o].overlapped \in BOOLEAN
      /\ listener[o].stopClosed \in BOOLEAN /\ listener'[o].stopClosed \in BOOLEAN
  BY DEF ListenerState
<1> QED
  BY <1>1, <1>2 DEF OneStart, Processors

\* A goroutine goes on to something that is no start, and the listeners stay.
LEMMA CallInv ==
  ASSUME LifeInv, inits' \in 0 .. MaxInits, UNCHANGED listener,
         \/ UNCHANGED call
         \/ \E k \in Thread : \E c : c.op \notin {"start", "set"} /\ call' = [call EXCEPT ![k] = c]
  PROVE  LifeInv'
<1>1. LifeTyped /\ \A o \in Obj : OneStart(o)
  BY DEF LifeInv
<1>2. /\ call' = [k \in Thread |-> call'[k]]
      /\ \A k \in Thread : call'[k] = call[k] \/ call'[k].op \notin {"start", "set"}
  <2>1. CASE UNCHANGED call
    BY <1>1, <2>1 DEF LifeTyped
  <2>2. ASSUME NEW k \in Thread, NEW c, c.op \notin {"start", "set"},
               call' = [call EXCEPT ![k] = c]
        PROVE  <1>2
    BY <1>1, <2>2 DEF LifeTyped
  <2> QED
    BY <2>1, <2>2
<1>3. LifeTyped'
  BY <1>1, <1>2 DEF LifeTyped
<1>4. ASSUME NEW o \in Obj PROVE OneStart(o)'
  <2>1. listener[o] \in ListenerState
    BY <1>1 DEF LifeTyped
  <2>2. listener[o].waiting \in Nat /\ listener[o].handling \in Nat
    BY <2>1 DEF ListenerState
  <2> QED
    BY <1>1, <1>2, <2>1, <2>2, OneStartKept
<1> QED
  BY <1>3, <1>4 DEF LifeInv

\* The goroutines of a listener work and end; calls to start go on as before.
LEMMA WorkInv ==
  ASSUME LifeInv, UNCHANGED <<inits, call>>, NEW o \in Obj, NEW s \in ListenerState,
         listener' = [listener EXCEPT ![o] = s],
         s.overlapped = listener[o].overlapped, s.stopClosed = listener[o].stopClosed,
         s.isRunning = listener[o].isRunning,
         \/ s.stopClosed
         \/ s.waiting + s.handling <= listener[o].waiting + listener[o].handling
  PROVE  LifeInv'
<1>1. LifeTyped /\ \A p \in Obj : OneStart(p)
  BY DEF LifeInv
<1>2. /\ listener' \in [Obj -> ListenerState] /\ listener'[o] = s
      /\ \A p \in Obj \ {o} : listener'[p] = listener[p]
  BY <1>1 DEF LifeTyped
<1>3. LifeTyped'
  BY <1>1, <1>2 DEF LifeTyped
<1>4. ASSUME NEW p \in Obj PROVE OneStart(p)'
  <2>1. listener[p] \in ListenerState /\ listener'[p] \in ListenerState
    BY <1>1, <1>2 DEF LifeTyped
  <2>2. listener[p].waiting \in Nat /\ listener[p].handling \in Nat
    BY <2>1 DEF ListenerState
  <2>3. CASE p = o
    BY <1>1, <1>2, <2>1, <2>3, OneStartKept
  <2>4. CASE p # o
    BY <1>1, <1>2, <2>1, <2>2, <2>4, OneStartKept
  <2> QED
    BY <2>3, <2>4
<1> QED
  BY <1>3, <1>4 DEF LifeInv

LEMMA WorkersInv ==
  ASSUME LifeInv, NEW o \in Obj,
         \/ Connect(o) \/ NewEvent(o) \/ (\E s \in SourceState : SourceEnds(o, s))
         \/ ProcessEvent(o) \/ EventHandled(o) \/ EventsEnd(o)
  PROVE  LifeInv'
<1>1. /\ listener[o] \in ListenerState /\ listener \in [Obj -> ListenerState]
      /\ UNCHANGED <<inits, call>>
  BY DEF LifeInv, LifeTyped, Connect, NewEvent, SourceEnds, ProcessEvent, EventHandled, EventsEnd,
     sdkVars
<1> DEFINE l == listener[o]
<1>2. /\ l.source \in [SourceState -> Nat] /\ l.waiting \in Nat /\ l.handling \in Nat
      /\ l.queued \in Nat
  BY <1>1 DEF ListenerState
<1> HIDE DEF l
<1>3. ASSUME NEW q \in Nat, NEW f \in [SourceState -> Nat], NEW w \in Nat, NEW h \in Nat,
             l.stopClosed \/ w + h <= l.waiting + l.handling,
             listener' = [listener EXCEPT ![o] =
               [l EXCEPT !.queued = q, !.source = f, !.waiting = w, !.handling = h]]
      PROVE  LifeInv'
  <2> DEFINE s == [l EXCEPT !.queued = q, !.source = f, !.waiting = w, !.handling = h]
  <2>1. /\ s \in ListenerState /\ s.waiting = w /\ s.handling = h
        /\ s.overlapped = l.overlapped /\ s.stopClosed = l.stopClosed /\ s.isRunning = l.isRunning
    BY <1>1 DEF ListenerState, l
  <2>2. listener' = [listener EXCEPT ![o] = s]
    BY <1>3
  <2> HIDE DEF s
  <2> QED
    BY <1>1, <1>3, <2>1, <2>2, WorkInv DEF l
<1>5. CASE Connect(o)
  <2>s. PICK s \in {"subscribed", "simulating"} :
          listener' = [listener EXCEPT ![o].source["connecting"] = @ - 1, ![o].source[s] = @ + 1]
    BY <1>5 DEF Connect
  <2> DEFINE q == l.queued
             f == [l.source EXCEPT !["connecting"] = @ - 1, ![s] = @ + 1]
             w == l.waiting
             h == l.handling
  <2>1. /\ q \in Nat /\ f \in [SourceState -> Nat] /\ w \in Nat /\ h \in Nat
        /\ l.stopClosed \/ w + h <= l.waiting + l.handling
    BY <1>2, <1>5, <2>s DEF Connect, SourceState, l
  <2>2. listener' = [listener EXCEPT ![o] =
          [l EXCEPT !.queued = q, !.source = f, !.waiting = w, !.handling = h]]
    BY <1>1, <1>5, <2>s DEF Connect, ListenerState, l
  <2> HIDE DEF q, f, w, h
  <2> QED
    BY <2>1, <2>2, <1>3
<1>6. CASE NewEvent(o)
  <2> DEFINE q == l.queued + 1
             f == l.source
             w == l.waiting
             h == l.handling
  <2>1. /\ q \in Nat /\ f \in [SourceState -> Nat] /\ w \in Nat /\ h \in Nat
        /\ l.stopClosed \/ w + h <= l.waiting + l.handling
    BY <1>2, <1>6 DEF NewEvent, SourceState, l
  <2>2. listener' = [listener EXCEPT ![o] =
          [l EXCEPT !.queued = q, !.source = f, !.waiting = w, !.handling = h]]
    BY <1>1, <1>6 DEF NewEvent, ListenerState, l
  <2> HIDE DEF q, f, w, h
  <2> QED
    BY <2>1, <2>2, <1>3
<1>7. ASSUME NEW t \in SourceState, SourceEnds(o, t) PROVE LifeInv'
  <2> DEFINE q == l.queued
             f == [l.source EXCEPT ![t] = @ - 1]
             w == l.waiting
             h == l.handling
  <2>1. /\ q \in Nat /\ f \in [SourceState -> Nat] /\ w \in Nat /\ h \in Nat
        /\ l.stopClosed \/ w + h <= l.waiting + l.handling
    BY <1>2, <1>7 DEF SourceEnds, SourceState, l
  <2>2. listener' = [listener EXCEPT ![o] =
          [l EXCEPT !.queued = q, !.source = f, !.waiting = w, !.handling = h]]
    BY <1>1, <1>7 DEF SourceEnds, ListenerState, l
  <2> HIDE DEF q, f, w, h
  <2> QED
    BY <2>1, <2>2, <1>3
<1>8. CASE ProcessEvent(o) /\ listener' = [listener EXCEPT ![o].queued = @ - 1]
  <2> DEFINE q == l.queued - 1
             f == l.source
             w == l.waiting
             h == l.handling
  <2>1. /\ q \in Nat /\ f \in [SourceState -> Nat] /\ w \in Nat /\ h \in Nat
        /\ l.stopClosed \/ w + h <= l.waiting + l.handling
    BY <1>2, <1>8 DEF ProcessEvent, SourceState, l
  <2>2. listener' = [listener EXCEPT ![o] =
          [l EXCEPT !.queued = q, !.source = f, !.waiting = w, !.handling = h]]
    BY <1>1, <1>8 DEF ProcessEvent, ListenerState, l
  <2> HIDE DEF q, f, w, h
  <2> QED
    BY <2>1, <2>2, <1>3
<1>9. CASE ProcessEvent(o) /\ listener' = [listener EXCEPT ![o].queued = @ - 1,
                                ![o].waiting = @ - 1, ![o].handling = @ + 1]
  <2> DEFINE q == l.queued - 1
             f == l.source
             w == l.waiting - 1
             h == l.handling + 1
  <2>1. /\ q \in Nat /\ f \in [SourceState -> Nat] /\ w \in Nat /\ h \in Nat
        /\ l.stopClosed \/ w + h <= l.waiting + l.handling
    BY <1>2, <1>9 DEF ProcessEvent, SourceState, l
  <2>2. listener' = [listener EXCEPT ![o] =
          [l EXCEPT !.queued = q, !.source = f, !.waiting = w, !.handling = h]]
    BY <1>1, <1>9 DEF ProcessEvent, ListenerState, l
  <2> HIDE DEF q, f, w, h
  <2> QED
    BY <2>1, <2>2, <1>3
<1>10. CASE EventHandled(o)
  <2> DEFINE q == l.queued
             f == l.source
             w == l.waiting + 1
             h == l.handling - 1
  <2>1. /\ q \in Nat /\ f \in [SourceState -> Nat] /\ w \in Nat /\ h \in Nat
        /\ l.stopClosed \/ w + h <= l.waiting + l.handling
    BY <1>2, <1>10 DEF EventHandled, SourceState, l
  <2>2. listener' = [listener EXCEPT ![o] =
          [l EXCEPT !.queued = q, !.source = f, !.waiting = w, !.handling = h]]
    BY <1>1, <1>10 DEF EventHandled, ListenerState, l
  <2> HIDE DEF q, f, w, h
  <2> QED
    BY <2>1, <2>2, <1>3
<1>11. CASE EventsEnd(o)
  <2> DEFINE q == l.queued
             f == l.source
             w == l.waiting - 1
             h == l.handling
  <2>1. /\ q \in Nat /\ f \in [SourceState -> Nat] /\ w \in Nat /\ h \in Nat
        /\ l.stopClosed \/ w + h <= l.waiting + l.handling
    BY <1>2, <1>11 DEF EventsEnd, SourceState, l
  <2>2. listener' = [listener EXCEPT ![o] =
          [l EXCEPT !.queued = q, !.source = f, !.waiting = w, !.handling = h]]
    BY <1>1, <1>11 DEF EventsEnd, ListenerState, l
  <2> HIDE DEF q, f, w, h
  <2> QED
    BY <2>1, <2>2, <1>3
<1> QED
  BY <1>5, <1>6, <1>7, <1>8, <1>9, <1>10, <1>11 DEF ProcessEvent

\* The three steps of a start.
LEMMA StartListenerInv ==
  ASSUME LifeInv, NEW k \in Caller, NEW l \in Listener, StartListener(k, l)
  PROVE  LifeInv'
<1>1. LifeTyped /\ \A p \in Obj : OneStart(p)
  BY DEF LifeInv
<1>o. PICK o \in Obj : o = Current(l)
  BY <1>1, LifecycleAssumption DEF StartListener, Current, Obj, LifeTyped
<1>2. o \in Obj /\ k \in Thread
  BY DEF Thread
<1> DEFINE s == [listener[o] EXCEPT !.overlapped = listener[o].overlapped \/ Starting(o) # {}]
<1>3. listener[o] \in ListenerState
  BY <1>1, <1>2 DEF LifeTyped
<1>4. /\ call' = [call EXCEPT ![k] = [op |-> "start", of |-> o]]
      /\ listener' = [listener EXCEPT ![o] = s] /\ inits' = inits
      /\ ~listener[o].isRunning /\ call[k].op = "none"
  BY <1>3, <1>o DEF StartListener, MayStart, MayRead, sdkVars, ListenerState
<1>5. /\ s \in ListenerState /\ s.stopClosed = listener[o].stopClosed
      /\ s.waiting = listener[o].waiting /\ s.handling = listener[o].handling
      /\ s.isRunning = listener[o].isRunning
      /\ s.overlapped = (listener[o].overlapped \/ Starting(o) # {})
  BY <1>3 DEF ListenerState
<1> HIDE DEF s
<1>6. /\ listener' \in [Obj -> ListenerState] /\ listener'[o] = s
      /\ \A p \in Obj \ {o} : listener'[p] = listener[p]
  BY <1>1, <1>2, <1>4, <1>5 DEF LifeTyped
<1>7. /\ call'[k] = [op |-> "start", of |-> o]
      /\ \A j \in Thread \ {k} : call'[j] = call[j]
  BY <1>1, <1>2, <1>4 DEF LifeTyped
<1>8. LifeTyped'
  BY <1>1, <1>2, <1>4, <1>6, <1>7 DEF LifeTyped
<1>9. \A p \in Obj : /\ Starting(p)' \subseteq Starting(p) \cup (IF p = o THEN {k} ELSE {})
                     /\ Setting(p)' \subseteq Setting(p)
  BY <1>7 DEF Starting, Setting
<1>10. ASSUME NEW p \in Obj PROVE OneStart(p)'
  <2>1. CASE p = o
    <3>1. SUFFICES ASSUME ~s.overlapped, ~s.stopClosed
                   PROVE  OneStart(o)'
      BY <1>6, <2>1 DEF OneStart
    <3>2. ~listener[o].overlapped /\ ~listener[o].stopClosed /\ Starting(o) = {}
      <4>1. Starting(o) # {} => s.overlapped
        BY <1>5
      <4>2. listener[o].overlapped => s.overlapped
        BY <1>5
      <4>3. listener[o].stopClosed => s.stopClosed
        BY <1>5
      <4> QED
        BY <3>1, <4>1, <4>2, <4>3
    <3>3. Processors(o)' = Processors(o) /\ ~listener'[o].isRunning
      BY <1>4, <1>5, <1>6 DEF Processors
    <3>4. Processors(o) = 0
      BY <1>1, <1>2, <1>4, <3>2 DEF OneStart
    <3>5. \A i, j \in Starting(o)' : i = j
      BY <1>2, <1>9, <3>2
    <3> QED
      BY <3>3, <3>4, <3>5 DEF OneStart
  <2>2. CASE p # o
    BY <1>1, <1>6, <1>9, <2>2 DEF OneStart, Processors
  <2> QED
    BY <2>1, <2>2
<1> QED
  BY <1>8, <1>10 DEF LifeInv

LEMMA StartAgainInv ==
  ASSUME LifeInv, NEW k \in Thread, StartAgain(k)
  PROVE  LifeInv'
<1>1. LifeTyped /\ \A p \in Obj : OneStart(p)
  BY DEF LifeInv
<1>2. call[k].op = "start" /\ call[k].of \in Obj /\ inits' = inits /\ listener' = listener
  BY <1>1 DEF StartAgain, LifeTyped, sdkVars
<1> DEFINE o == call[k].of
<1>3. CASE listener[o].isRunning
  <2>1. call' = [call EXCEPT ![k] = Idle] /\ Idle.op \notin {"start", "set"}
    BY <1>3 DEF StartAgain, Idle
  <2> QED
    BY <1>1, <1>2, <2>1, CallInv DEF LifeTyped
<1>4. CASE ~listener[o].isRunning
  <2>1. call' = [call EXCEPT ![k] = [call[k] EXCEPT !.op = "set"]]
    BY <1>4 DEF StartAgain
  <2>2. /\ call'[k] = [call[k] EXCEPT !.op = "set"]
        /\ \A j \in Thread \ {k} : call'[j] = call[j]
        /\ call' = [j \in Thread |-> call'[j]]
    BY <1>1, <2>1 DEF LifeTyped
  <2>3. call[k].op = "start" /\ call'[k].of = o /\ call'[k].op = "set"
    BY <1>2, <2>2
  <2>4. LifeTyped'
    BY <1>1, <1>2, <2>2, <2>3 DEF LifeTyped
  <2>5. \A p \in Obj : /\ Starting(p)' \subseteq Starting(p)
                       /\ p # o => Setting(p)' \subseteq Setting(p)
    BY <1>2, <2>2, <2>3 DEF Starting, Setting
  <2>6. ASSUME NEW p \in Obj PROVE OneStart(p)'
    <3>1. CASE p = o
      BY <1>1, <1>2, <1>4, <2>5, <3>1 DEF OneStart, Processors
    <3>2. CASE p # o
      BY <1>1, <1>2, <2>5, <3>2 DEF OneStart, Processors
    <3> QED
      BY <3>1, <3>2
  <2> QED
    BY <2>4, <2>6 DEF LifeInv
<1> QED
  BY <1>3, <1>4

LEMMA StartInv ==
  ASSUME LifeInv, NEW k \in Thread, Start(k)
  PROVE  LifeInv'
<1>1. LifeTyped /\ \A p \in Obj : OneStart(p)
  BY DEF LifeInv
<1>o. PICK o \in Obj : o = call[k].of
  BY <1>1 DEF Start, LifeTyped
<1>2. /\ call[k].op = "set" /\ o \in Obj /\ inits' = inits
      /\ call' = [call EXCEPT ![k] = Idle]
  BY <1>1 DEF Start, LifeTyped, sdkVars
<1>l. PICK l \in ListenerState : l = listener[o]
  BY <1>1 DEF LifeTyped
<1> DEFINE first == FirstSource(o[1])
           f == [l.source EXCEPT ![first] = @ + 1]
           s == [l EXCEPT !.isRunning = TRUE, !.starts = l.starts + 1, !.source = f,
                          !.waiting = l.waiting + 1]
<1>3. l \in ListenerState /\ listener \in [Obj -> ListenerState] /\ l = listener[o]
  BY <1>1, <1>l DEF LifeTyped
<1>4. /\ l.source \in [SourceState -> Nat] /\ l.waiting \in Nat /\ l.handling \in Nat
      /\ l.starts \in Nat
  BY <1>3 DEF ListenerState
<1>5. f \in [SourceState -> Nat]
  BY <1>4 DEF FirstSource, SourceState
<1>6. listener' = [listener EXCEPT ![o] = s]
  BY <1>3, <1>o DEF Start, ListenerState
<1>7. /\ s \in ListenerState /\ s.waiting = l.waiting + 1 /\ s.handling = l.handling
      /\ s.isRunning = TRUE /\ s.overlapped = l.overlapped /\ s.stopClosed = l.stopClosed
  <2> DEFINE n == l.starts + 1
             w == l.waiting + 1
             t == [l EXCEPT !.isRunning = TRUE, !.starts = n, !.source = f, !.waiting = w]
  <2>1. n \in Nat /\ w \in Nat
    BY <1>4
  <2> HIDE DEF f, n, w
  <2>2. /\ t \in ListenerState /\ t.waiting = w /\ t.handling = l.handling
        /\ t.isRunning = TRUE /\ t.overlapped = l.overlapped /\ t.stopClosed = l.stopClosed
    BY <1>3, <1>5, <2>1 DEF ListenerState
  <2> QED
    BY <2>2 DEF n, w
<1> HIDE DEF f, s, first
<1>8. /\ listener' \in [Obj -> ListenerState] /\ listener'[o] = s
      /\ \A p \in Obj \ {o} : listener'[p] = listener[p]
  BY <1>1, <1>2, <1>6, <1>7 DEF LifeTyped
<1>9. /\ call'[k].op = "none" /\ \A j \in Thread \ {k} : call'[j] = call[j]
      /\ call' = [j \in Thread |-> call'[j]]
  BY <1>1, <1>2 DEF LifeTyped, Idle
<1>10. LifeTyped'
  BY <1>1, <1>2, <1>8, <1>9 DEF LifeTyped
<1>11. \A p \in Obj : /\ Starting(p)' \subseteq Starting(p) \ {k}
                      /\ Setting(p)' \subseteq Setting(p) \ {k}
  BY <1>9 DEF Starting, Setting
<1>12. k \in Starting(o) /\ k \in Setting(o) /\ Setting(o) \subseteq Starting(o)
  BY <1>2, <1>o DEF Starting, Setting
<1>13. ASSUME NEW p \in Obj PROVE OneStart(p)'
  <2>1. CASE p = o
    <3>1. SUFFICES ASSUME ~l.overlapped, ~l.stopClosed
                   PROVE  OneStart(o)'
      BY <1>7, <1>8, <2>1 DEF OneStart
    <3>2. /\ \A i, j \in Starting(o) : i = j
          /\ Processors(o) = 0
      BY <1>1, <1>2, <1>3, <1>12, <3>1 DEF OneStart
    <3>3. Processors(o)' = 1 /\ listener'[o].isRunning
      BY <1>3, <1>4, <1>7, <1>8, <3>2 DEF Processors
    <3>4. Starting(o)' = {} /\ Setting(o)' = {}
      BY <1>11, <1>12, <3>2
    <3> QED
      BY <3>3, <3>4 DEF OneStart
  <2>2. CASE p # o
    BY <1>1, <1>8, <1>11, <2>2 DEF OneStart, Processors
  <2> QED
    BY <2>1, <2>2
<1> QED
  BY <1>10, <1>13 DEF LifeInv

LEMMA StopInv ==
  ASSUME LifeInv, NEW k \in Thread, Stop(k)
  PROVE  LifeInv'
<1>1. LifeTyped /\ \A p \in Obj : OneStart(p)
  BY DEF LifeInv
<1>2. call' = [call EXCEPT ![k] = Idle] /\ Idle.op \notin {"start", "set"} /\ inits' = inits
  BY DEF Stop, Idle, sdkVars
<1>3. CASE listener' = listener
  BY <1>1, <1>2, <1>3, CallInv DEF LifeTyped
<1>4. CASE listener' # listener
  <2>o. /\ listener' = [listener EXCEPT ![call[k].of].stopClosed = TRUE, ![call[k].of].isRunning = FALSE]
        /\ call[k].of \in Obj
    BY <1>1, <1>4 DEF Stop, LifeTyped
  <2>1. PICK o \in Obj :
          listener' = [listener EXCEPT ![o].stopClosed = TRUE, ![o].isRunning = FALSE]
    BY <2>o
  <2>2. o \in Obj
    OBVIOUS
  <2> DEFINE s == [listener[o] EXCEPT !.stopClosed = TRUE, !.isRunning = FALSE]
  <2>3. /\ listener' = [listener EXCEPT ![o] = s] /\ s \in ListenerState
        /\ s.overlapped = listener[o].overlapped /\ s.stopClosed
    BY <1>1, <2>1, <2>2 DEF LifeTyped, ListenerState
  <2> HIDE DEF s
  <2>4. /\ listener' \in [Obj -> ListenerState] /\ listener'[o] = s
        /\ \A p \in Obj \ {o} : listener'[p] = listener[p]
    BY <1>1, <2>2, <2>3 DEF LifeTyped
  <2>5. /\ call' = [j \in Thread |-> call'[j]]
        /\ \A j \in Thread : call'[j] = call[j] \/ call'[j].op \notin {"start", "set"}
    BY <1>1, <1>2 DEF LifeTyped
  <2>6. LifeTyped'
    BY <1>1, <1>2, <2>4, <2>5 DEF LifeTyped
  <2>7. ASSUME NEW p \in Obj PROVE OneStart(p)'
    <3>1. listener[p] \in ListenerState /\ listener'[p] \in ListenerState
      BY <1>1, <2>4 DEF LifeTyped
    <3>2. listener[p].waiting \in Nat /\ listener[p].handling \in Nat
      BY <3>1 DEF ListenerState
    <3>3. CASE p = o
      BY <1>1, <2>3, <2>4, <2>5, <3>1, <3>3, OneStartKept
    <3>4. CASE p # o
      BY <1>1, <2>4, <2>5, <3>1, <3>2, <3>4, OneStartKept
    <3> QED
      BY <3>3, <3>4
  <2> QED
    BY <2>6, <2>7 DEF LifeInv
<1> QED
  BY <1>3, <1>4

LEMMA LifeNextInv == LifeInv /\ [LifeNext]_lifeVars => LifeInv'
<1> SUFFICES ASSUME LifeInv, [LifeNext]_lifeVars PROVE LifeInv'
  OBVIOUS
<1>1. inits \in 0 .. MaxInits /\ MaxInits \in Nat /\ Stopper \in Thread /\ Caller \subseteq Thread
  BY LifecycleAssumption DEF LifeInv, LifeTyped, Thread
<1>2. CASE Initialize
  <2>1. inits' \in 0 .. MaxInits
    BY <1>1, <1>2 DEF Initialize
  <2> QED
    BY <2>1, <1>2, CallInv DEF Initialize
<1>3. CASE Shutdown \/ ShutdownStep \/ RecoveryEnds
  BY <1>1, <1>3, CallInv
     DEF Shutdown, ShutdownStep, SignalShutdown, StopRecovery, CloseDatabase, ShutDownHandler,
         FinishShutdown, RecoveryEnds, sdkVars
<1>4. CASE StopNext
  <2> DEFINE c == [op |-> "stop", of |-> Current(Head(toStop))]
  <2>1. c.op \notin {"start", "set"} /\ UNCHANGED <<inits, listener>>
    BY <1>4 DEF StopNext, sdkVars
  <2>2. UNCHANGED call \/ call' = [call EXCEPT ![Stopper] = c]
    BY <1>4 DEF StopNext
  <2> HIDE DEF c
  <2> QED
    BY <1>1, <2>1, <2>2, CallInv
<1>5. ASSUME NEW k \in Caller, RelayBegins(k) PROVE LifeInv'
  <2> DEFINE c == [op |-> "relay"]
  <2>1. /\ c.op \notin {"start", "set"} /\ UNCHANGED <<inits, listener>>
        /\ call' = [call EXCEPT ![k] = c]
    BY <1>5 DEF RelayBegins, sdkVars
  <2> HIDE DEF c
  <2> QED
    BY <1>1, <2>1, CallInv
<1>6. ASSUME NEW k \in Caller, NEW l \in Listener, StopListener(k, l) PROVE LifeInv'
  <2> DEFINE c == [op |-> "stop", of |-> Current(l)]
  <2>1. /\ c.op \notin {"start", "set"} /\ UNCHANGED <<inits, listener>>
        /\ call' = [call EXCEPT ![k] = c]
    BY <1>6 DEF StopListener, sdkVars
  <2> HIDE DEF c
  <2> QED
    BY <1>1, <2>1, CallInv
<1>7. ASSUME NEW k \in Thread, RelayEnds(k) PROVE LifeInv'
  <2>1. /\ Idle.op \notin {"start", "set"} /\ UNCHANGED <<inits, listener>>
        /\ call' = [call EXCEPT ![k] = Idle]
    BY <1>7 DEF RelayEnds, sdkVars, Idle
  <2> QED
    BY <1>1, <2>1, CallInv
<1>8. CASE UNCHANGED lifeVars
  BY <1>1, <1>8, CallInv DEF lifeVars, sdkVars
<1> QED
  BY <1>2, <1>3, <1>4, <1>5, <1>6, <1>7, <1>8, WorkersInv, StartListenerInv, StartAgainInv,
     StartInv, StopInv
  DEF LifeNext, CallStep

\* However calls to start, stop and shut down interleave: two goroutines process a
\* listener's events only if two starts were under way at once, or the listener has
\* been stopped.
THEOREM OneIntakeEach == LifeSpec => []OneIntake
<1>1. LifeInv => OneIntake
  <2> SUFFICES ASSUME LifeInv, NEW o \in Obj, Processors(o) > 1,
                      ~listener[o].overlapped, ~listener[o].stopClosed
               PROVE  FALSE
    BY DEF OneIntake
  <2>1. OneStart(o) /\ listener[o] \in ListenerState
    BY DEF LifeInv, LifeTyped
  <2>2. Processors(o) <= 1 /\ Processors(o) \in Nat
    BY <2>1 DEF OneStart, ListenerState, Processors
  <2> QED
    BY <2>2
<1> QED
  BY <1>1, LifeInitInv, LifeNextInv, PTL DEF LifeSpec
-----------------------------------------------------------------------------
(***************************************************************************)
(* The shutdown of the error handler. Whoever comes after the flag is set  *)
(* is turned away (LateAdders), so that the drained queues hold only what  *)
(* was on its way in (RetriesDrained, DeadDrained).                        *)
(***************************************************************************)

\* Events are in the queues in some order.
QueuesTyped == retryQueue \in Seq(Event) /\ deadLetterQueue \in Seq(Event)

\* Nobody new adds events when the flag is set.
LateAdders == phase # "up" => ehDown /\ adding \subseteq late

\* What is left in a queue behind the drain.
RetriesDrained == phase \in {"dead letters", "down"} => Range(retryQueue) \subseteq late

DeadDrained == phase = "down" => Range(deadLetterQueue) \subseteq late

HandlerInv == QueuesTyped /\ LateAdders /\ RetriesDrained /\ DeadDrained
-----------------------------------------------------------------------------
\* Taking from a queue and putting into it.
LEMMA QueueRange ==
  ASSUME NEW S, NEW s \in Seq(S)
  PROVE  /\ \A e \in S : Append(s, e) \in Seq(S) /\ Range(Append(s, e)) = Range(s) \cup {e}
         /\ s # <<>> => Tail(s) \in Seq(S) /\ Range(Tail(s)) \subseteq Range(s)
<1>1. ASSUME NEW e \in S
      PROVE  Append(s, e) \in Seq(S) /\ Range(Append(s, e)) = Range(s) \cup {e}
  <2>1. /\ Append(s, e) \in Seq(S) /\ DOMAIN Append(s, e) = DOMAIN s \cup {Len(s) + 1}
        /\ \A i \in DOMAIN s : Append(s, e)[i] = s[i]
        /\ Append(s, e)[Len(s) + 1] = e
    BY AppendProperties, LenProperties
  <2> QED
    BY <2>1 DEF Range
<1>2. ASSUME s # <<>>
      PROVE  Tail(s) \in Seq(S) /\ Range(Tail(s)) \subseteq Range(s)
  <2>1. /\ Tail(s) \in Seq(S) /\ Len(Tail(s)) = Len(s) - 1
        /\ \A i \in 1 .. Len(Tail(s)) : Tail(s)[i] = s[i + 1]
    BY <1>2, HeadTailProperties
  <2>2. DOMAIN Tail(s) = 1 .. Len(s) - 1 /\ DOMAIN s = 1 .. Len(s) /\ Len(s) \in Nat
    BY <2>1, LenProperties
  <2> QED
    BY <2>1, <2>2 DEF Range
<1> QED
  BY <1>1, <1>2

LEMMA EmptyRange == Range(<<>>) = {}
BY DEF Range

LEMMA HandlerInitInv == HandlerInit => HandlerInv
BY EmptyRange
   DEF HandlerInit, HandlerInv, QueuesTyped, LateAdders, RetriesDrained, DeadDrained

\* An event that was on its way in goes to one of the queues, or is dropped.
LEMMA EnqueueInv ==
  ASSUME HandlerInv, NEW e \in Event, Enqueue(e)
  PROVE  HandlerInv'
<1>1. /\ QueuesTyped /\ LateAdders /\ RetriesDrained /\ DeadDrained
      /\ e \in adding /\ adding' = adding \ {e} /\ UNCHANGED <<phase, ehDown, late>>
  BY DEF HandlerInv, Enqueue, stopVars
<1>2. /\ retryQueue' \in {retryQueue, Append(retryQueue, e)}
      /\ deadLetterQueue' \in {deadLetterQueue, Append(deadLetterQueue, e)}
  BY DEF Enqueue, moveToDeadLetterQueue
<1>3. /\ retryQueue' \in Seq(Event) /\ Range(retryQueue') \subseteq Range(retryQueue) \cup {e}
      /\ deadLetterQueue' \in Seq(Event)
      /\ Range(deadLetterQueue') \subseteq Range(deadLetterQueue) \cup {e}
  <2>1. \A s \in Seq(Event) : /\ Append(s, e) \in Seq(Event)
                              /\ Range(Append(s, e)) = Range(s) \cup {e}
    BY QueueRange
  <2> QED
    BY <1>1, <1>2, <2>1 DEF QueuesTyped
<1> QED
  BY <1>1, <1>3 DEF HandlerInv, QueuesTyped, LateAdders, RetriesDrained, DeadDrained

\* The workers and the drain take from a queue.
LEMMA TakenInv ==
  ASSUME HandlerInv, UNCHANGED <<adding, late, ehDown>>,
         \/ retryQueue' = retryQueue
         \/ retryQueue # <<>> /\ retryQueue' = Tail(retryQueue),
         \/ deadLetterQueue' = deadLetterQueue
         \/ deadLetterQueue # <<>> /\ deadLetterQueue' = Tail(deadLetterQueue),
         \/ phase' = phase
         \/ phase = "cancelling" /\ phase' = "waiting"
         \/ phase = "waiting" /\ phase' = "draining"
         \/ phase = "draining" /\ phase' = "dead letters" /\ retryQueue' = <<>>
         \/ phase = "dead letters" /\ phase' = "down" /\ deadLetterQueue' = <<>>
  PROVE  HandlerInv'
<1>1. QueuesTyped /\ LateAdders /\ RetriesDrained /\ DeadDrained
  BY DEF HandlerInv
<1> DEFINE Taken(s) == Tail(s) \in Seq(Event) /\ Range(Tail(s)) \subseteq Range(s)
<1>t. \A s \in Seq(Event) : s # <<>> => Taken(s)
  BY QueueRange
<1>2. retryQueue' \in Seq(Event) /\ Range(retryQueue') \subseteq Range(retryQueue)
  BY <1>1, <1>t DEF QueuesTyped
<1>3. deadLetterQueue' \in Seq(Event) /\ Range(deadLetterQueue') \subseteq Range(deadLetterQueue)
  BY <1>1, <1>t DEF QueuesTyped
<1>4. RetriesDrained'
  BY <1>1, <1>2, EmptyRange DEF RetriesDrained
<1>5. DeadDrained'
  BY <1>1, <1>3, EmptyRange DEF DeadDrained
<1> QED
  BY <1>1, <1>2, <1>3, <1>4, <1>5 DEF HandlerInv, QueuesTyped, LateAdders

LEMMA HandlerNextInv == HandlerInv /\ [HandlerNext]_handlerVars => HandlerInv'
<1> SUFFICES ASSUME HandlerInv, [HandlerNext]_handlerVars PROVE HandlerInv'
  OBVIOUS
<1> USE DEF handlerVars, queueVars, workerVars, stopVars, addVars
<1>1. ASSUME NEW e \in Event, AddToRetryQueue(e) PROVE HandlerInv'
  BY <1>1 DEF AddToRetryQueue, MayAdd, HandlerInv, QueuesTyped, LateAdders, RetriesDrained,
     DeadDrained
<1>2. ASSUME NEW e \in Event, Enqueue(e) PROVE HandlerInv'
  BY <1>2, EnqueueInv
<1>3. CASE processRetryQueue
  BY <1>3, TakenInv DEF processRetryQueue
<1>4. CASE processDeadLetterQueue
  BY <1>4, TakenInv DEF processDeadLetterQueue
<1>5. ASSUME NEW w \in Worker, Processed(w) \/ WorkerEnds(w) PROVE HandlerInv'
  BY <1>5, TakenInv DEF Processed, WorkerEnds
<1>6. CASE GracefulShutdown
  BY <1>6 DEF GracefulShutdown, HandlerInv, QueuesTyped, LateAdders, RetriesDrained, DeadDrained
<1>7. CASE Cancel \/ Waited
  BY <1>7, TakenInv DEF Cancel, Waited
<1>8. CASE drainQueues
  BY <1>8, TakenInv DEF drainQueues
<1>9. CASE UNCHANGED handlerVars
  BY <1>9, TakenInv
<1> QED
  BY <1>1, <1>2, <1>3, <1>4, <1>5, <1>6, <1>7, <1>8, <1>9 DEF HandlerNext, HandlerShutdownStep

\* What a graceful shutdown of the error handler leaves in the queues was on its way
\* into them when the flag was set: everything else has been handled or logged.
THEOREM ShutdownLeavesOnlyLate == HandlerSpec => []OnlyLateLeft
<1>1. HandlerInv => OnlyLateLeft
  BY DEF HandlerInv, RetriesDrained, DeadDrained, OnlyLateLeft
<1> QED
  BY <1>1, HandlerInitInv, HandlerNextInv, PTL DEF HandlerSpec
-----------------------------------------------------------------------------
(***************************************************************************)
(* The streaming of logs. What a listed client is promised starts with its *)
(* first copy, or with its last change of the filter (since): every entry  *)
(* from there on that it wants has reached it, waits in its channel or its *)
(* copy, or in the subscription, or found that one full (Covered). A step  *)
(* that logs or distributes keeps this for every client (StillCovered).    *)
(***************************************************************************)

\* What a place for a connection keeps.
Connection ==
  [reader : {"free", "reading", "leaving", "gone"}, up : BOOLEAN, open : BOOLEAN,
   send : Seq(Nat), writer : BOOLEAN, filter : SUBSET Kind,
   recents : {"none", "starting", "sending"}, recent : Seq(Nat),
   had : SUBSET Nat, since : Nat]

StreamTyped ==
  /\ logged \in Seq(Kind)
  /\ logChannel \in Seq(Nat)
  /\ cl \in [Client -> Connection]
  /\ clients \subseteq Client /\ IsFiniteSet(clients)

\* What a client has had, or still gets from its own channel and the first copy.
Kept(c) ==
  cl[c].had \cup Range(cl[c].send)
    \cup (IF cl[c].recents = "sending" THEN Range(cl[c].recent) ELSE {})

\* Nothing since is missed, whether or not the copy has been sent.
Covered(c) ==
  cl[c].since # 0 =>
    \A e \in cl[c].since .. Len(logged) :
      Wants(c, e) => e \in Kept(c) \cup Range(logChannel) \cup lost

\* A listed client is read from and can be sent to; it has been promised something as
\* soon as the first copy is made.
Listed(c) ==
  /\ cl[c].open /\ cl[c].reader = "reading"
  /\ cl[c].since = 0 => cl[c].recents = "starting"
  /\ Covered(c)

StreamInv == StreamTyped /\ \A c \in clients : Listed(c)
-----------------------------------------------------------------------------
\* The ranges of sequences.
LEMMA AppendRange ==
  ASSUME NEW S, NEW s \in Seq(S), NEW e \in S
  PROVE  Append(s, e) \in Seq(S) /\ Range(Append(s, e)) = Range(s) \cup {e}
<1>1. /\ Append(s, e) \in Seq(S) /\ DOMAIN Append(s, e) = DOMAIN s \cup {Len(s) + 1}
      /\ \A i \in DOMAIN s : Append(s, e)[i] = s[i]
      /\ Append(s, e)[Len(s) + 1] = e
  BY AppendProperties, LenProperties
<1> QED
  BY <1>1 DEF Range

LEMMA TailRange ==
  ASSUME NEW S, NEW s \in Seq(S), s # <<>>
  PROVE  /\ Head(s) \in S /\ Tail(s) \in Seq(S)
         /\ Range(s) = {Head(s)} \cup Range(Tail(s))
<1>1. /\ Head(s) \in S /\ Head(s) = s[1] /\ Tail(s) \in Seq(S) /\ Len(Tail(s)) = Len(s) - 1
      /\ \A i \in 1 .. Len(Tail(s)) : Tail(s)[i] = s[i + 1]
  BY HeadTailProperties
<1>2. DOMAIN s = 1 .. Len(s) /\ DOMAIN Tail(s) = 1 .. Len(s) - 1 /\ Len(s) \in Nat /\ Len(s) > 0
  BY <1>1, LenProperties, EmptySeq
<1>3. ASSUME NEW i \in DOMAIN s PROVE s[i] \in {Head(s)} \cup Range(Tail(s))
  <2>1. CASE i = 1
    BY <1>1, <2>1
  <2>2. CASE i # 1
    <3>1. i - 1 \in DOMAIN Tail(s) /\ Tail(s)[i - 1] = s[i]
      BY <1>1, <1>2, <2>2
    <3> QED
      BY <3>1 DEF Range
  <2> QED
    BY <2>1, <2>2
<1>4. Range(Tail(s)) \subseteq Range(s)
  BY <1>1, <1>2 DEF Range
<1>5. Head(s) \in Range(s)
  BY <1>1, <1>2 DEF Range
<1> QED
  BY <1>1, <1>3, <1>4, <1>5 DEF Range

LEMMA ConcatRange ==
  ASSUME NEW S, NEW s \in Seq(S), NEW t \in Seq(S)
  PROVE  s \o t \in Seq(S) /\ Range(s \o t) = Range(s) \cup Range(t)
<1>1. /\ s \o t \in Seq(S) /\ DOMAIN (s \o t) = 1 .. Len(s) + Len(t)
      /\ DOMAIN s = 1 .. Len(s) /\ DOMAIN t = 1 .. Len(t) /\ Len(s) \in Nat /\ Len(t) \in Nat
      /\ \A i \in 1 .. Len(s) + Len(t) :
           (s \o t)[i] = IF i <= Len(s) THEN s[i] ELSE t[i - Len(s)]
  BY ConcatProperties, LenProperties
<1>2. Range(s \o t) \subseteq Range(s) \cup Range(t)
  <2> SUFFICES ASSUME NEW i \in 1 .. Len(s) + Len(t)
               PROVE  (s \o t)[i] \in Range(s) \cup Range(t)
    BY <1>1 DEF Range
  <2>1. CASE i <= Len(s)
    BY <1>1, <2>1 DEF Range
  <2>2. CASE ~(i <= Len(s))
    <3>1. i - Len(s) \in 1 .. Len(t)
      BY <1>1, <2>2
    <3> QED
      BY <1>1, <2>2, <3>1 DEF Range
  <2> QED
    BY <2>1, <2>2
<1>3. Range(s) \subseteq Range(s \o t)
  BY <1>1 DEF Range
<1>4. Range(t) \subseteq Range(s \o t)
  <2> SUFFICES ASSUME NEW i \in 1 .. Len(t) PROVE t[i] \in Range(s \o t)
    BY <1>1 DEF Range
  <2>1. /\ i + Len(s) \in 1 .. Len(s) + Len(t) /\ ~(i + Len(s) <= Len(s))
        /\ (i + Len(s)) - Len(s) = i
    BY <1>1
  <2>2. (s \o t)[i + Len(s)] = t[i]
    BY <1>1, <2>1
  <2> QED
    BY <1>1, <2>1, <2>2 DEF Range
<1> QED
  BY <1>1, <1>2, <1>3, <1>4
-----------------------------------------------------------------------------
\* Entries are added to the log, each for the subscription or lost; ch is what the
\* subscription held before.
Grows(ch) ==
  /\ logged' \in Seq(Kind) /\ logChannel' \in Seq(Nat)
  /\ Len(logged') \in Nat /\ Len(logged') >= Len(logged)
  /\ \A e \in 1 .. Len(logged) : logged'[e] = logged[e]
  /\ \A e \in Len(logged) + 1 .. Len(logged') : e \in Range(logChannel') \cup lost'
  /\ Range(ch) \subseteq Range(logChannel') /\ lost \subseteq lost'

LEMMA LoggingGrows ==
  ASSUME StreamTyped, NEW kinds \in Seq(Kind), NEW ch \in Seq(Nat), Logging(kinds, ch)
  PROVE  Grows(ch)
<1> DEFINE n == Len(logged)
           k == Len(kinds)
           room == IF subscribed THEN LogCap - Len(ch) ELSE 0
           taken == IF k < room THEN k ELSE room
           new == [i \in 1 .. taken |-> n + i]
<1>1. /\ logged' = logged \o kinds /\ logChannel' = ch \o new
      /\ lost' = lost \cup {n + i : i \in taken + 1 .. k}
  BY DEF Logging
<1>2. n \in Nat /\ k \in Nat /\ logged \in Seq(Kind) /\ Len(ch) \in Nat /\ LogCap \in Nat
  BY LenProperties, StreamAssumption DEF StreamTyped
<1>3. taken \in Int /\ taken <= k
  BY <1>2
<1> HIDE DEF n, k, room, taken
<1>4. \A i \in 1 .. taken : n + i \in Nat
  BY <1>2, <1>3
<1>5. DOMAIN new = 1 .. taken /\ \A i \in 1 .. taken : new[i] = n + i
  OBVIOUS
<1>6. new \in Seq(Nat)
  <2>1. CASE taken \in Nat
    <3> DEFINE m == taken
    <3>1. new \in [1 .. m -> Nat]
      BY <1>4
    <3> QED
      BY <2>1, <3>1, SeqDef
  <2>2. CASE taken \notin Nat
    <3> DEFINE m == 0
    <3>1. 1 .. taken = 1 .. m /\ m \in Nat
      BY <1>3, <2>2
    <3>2. new \in [1 .. m -> Nat]
      BY <3>1
    <3> HIDE DEF new, m
    <3> QED
      BY <3>1, <3>2, SeqDef
  <2> QED
    BY <2>1, <2>2
<1>7. \A i \in 1 .. taken : n + i \in Range(new)
  BY <1>5 DEF Range
<1> HIDE DEF new
<1>8. logChannel' \in Seq(Nat) /\ Range(logChannel') = Range(ch) \cup Range(new)
  BY <1>1, <1>6, ConcatRange
<1>9. /\ logged' \in Seq(Kind) /\ Len(logged') = n + k
      /\ \A e \in 1 .. n : logged'[e] = logged[e]
  BY <1>1, <1>2, ConcatProperties DEF n, k
<1>10. ASSUME NEW e \in n + 1 .. n + k
       PROVE  e \in Range(logChannel') \cup lost'
  <2>1. PICK i \in 1 .. k : e = n + i
    <3>1. e - n \in 1 .. k /\ e = n + (e - n)
      BY <1>2
    <3> QED
      BY <3>1
  <2>2. CASE i <= taken
    BY <1>3, <1>7, <1>8, <2>1, <2>2
  <2>3. CASE ~(i <= taken)
    <3>1. i \in taken + 1 .. k
      BY <1>2, <1>3, <2>3
    <3> QED
      BY <1>1, <2>1, <3>1
  <2> QED
    BY <2>2, <2>3
<1> QED
  BY <1>1, <1>2, <1>8, <1>9, <1>10 DEF Grows, n

LEMMA SameGrows ==
  ASSUME StreamTyped, UNCHANGED logVars
  PROVE  Grows(logChannel)
<1>1. Len(logged) \in Nat
  BY LenProperties DEF StreamTyped
<1>2. \A e : e \notin Len(logged) + 1 .. Len(logged)
  BY <1>1
<1> QED
  BY <1>1, <1>2 DEF StreamTyped, logVars, Grows
-----------------------------------------------------------------------------
\* An entry the client wants is not dropped by a step: it is kept, still in the
\* subscription, or lost for all; and the promise reaches the new entries.
LEMMA StillCovered ==
  ASSUME StreamTyped, NEW c \in Client, NEW ch, Grows(ch), Covered(c),
         cl[c].since \in Nat,
         cl'[c].since = cl[c].since, cl'[c].filter = cl[c].filter,
         \A e \in 1 .. Len(logged) :
           Wants(c, e) /\ e \in Kept(c) \cup Range(logChannel) =>
             e \in Kept(c)' \cup Range(logChannel') \cup lost'
  PROVE  Covered(c)'
<1> SUFFICES ASSUME cl'[c].since # 0, NEW e \in cl'[c].since .. Len(logged'), Wants(c, e)'
             PROVE  e \in Kept(c)' \cup Range(logChannel') \cup lost'
  BY DEF Covered
<1>1. Len(logged) \in Nat /\ Len(logged') \in Nat /\ cl'[c].since \in Nat /\ e \in Nat /\ e > 0
  BY LenProperties DEF StreamTyped, Grows
<1>2. CASE e <= Len(logged)
  <2>1. e \in 1 .. Len(logged) /\ e \in cl[c].since .. Len(logged)
    BY <1>1, <1>2
  <2>2. Wants(c, e)
    BY <2>1 DEF Wants, Grows
  <2>3. e \in Kept(c) \cup Range(logChannel) \cup lost
    BY <2>1, <2>2 DEF Covered
  <2> QED
    BY <2>1, <2>2, <2>3 DEF Grows
<1>3. CASE ~(e <= Len(logged))
  <2>1. e \in Len(logged) + 1 .. Len(logged')
    BY <1>1, <1>3
  <2> QED
    BY <2>1 DEF Grows
<1> QED
  BY <1>2, <1>3

\* A step that leaves a client's connection alone, and takes nothing from the
\* subscription.
LEMMA Untouched ==
  ASSUME StreamTyped, NEW c \in Client, Listed(c), cl'[c] = cl[c], Grows(logChannel)
  PROVE  Listed(c)'
<1>1. cl[c] \in Connection
  BY DEF StreamTyped
<1>2. Kept(c)' = Kept(c)
  BY DEF Kept
<1>3. Covered(c)'
  BY <1>1, <1>2, StillCovered DEF Listed, Connection, Grows
<1> QED
  BY <1>3 DEF Listed

\* The step of one connection.
LEMMA OneConnection ==
  ASSUME StreamInv, NEW c \in Client, NEW r \in Connection, cl' = [cl EXCEPT ![c] = r],
         Grows(logChannel), clients' \subseteq clients \cup {c},
         c \in clients' => Listed(c)'
  PROVE  StreamInv'
<1>1. StreamTyped'
  <2>1. IsFiniteSet(clients \cup {c})
    BY FS_AddElement DEF StreamInv, StreamTyped
  <2>2. IsFiniteSet(clients')
    BY <2>1, FS_Subset
  <2> QED
    BY <2>2 DEF StreamInv, StreamTyped, Grows
<1>2. ASSUME NEW d \in clients', d # c
      PROVE  Listed(d)'
  <2>1. d \in clients /\ d \in Client /\ cl'[d] = cl[d]
    BY <1>2 DEF StreamInv, StreamTyped
  <2> QED
    BY <2>1, Untouched DEF StreamInv
<1> QED
  BY <1>1, <1>2 DEF StreamInv

\* The step of no connection.
LEMMA NoConnection ==
  ASSUME StreamInv, UNCHANGED <<clients, cl>>, Grows(logChannel)
  PROVE  StreamInv'
<1>1. StreamTyped'
  BY DEF StreamInv, StreamTyped, Grows
<1>2. ASSUME NEW d \in clients'
      PROVE  Listed(d)'
  BY <1>2, Untouched DEF StreamInv, StreamTyped
<1> QED
  BY <1>1, <1>2 DEF StreamInv

\* What an action logs with a message of its own.
LEMMA LoggingOne ==
  ASSUME StreamTyped, NEW kind \in Kind, Logging(<<kind>>, logChannel)
  PROVE  Grows(logChannel)
<1>1. <<kind>> \in Seq(Kind)
  OBVIOUS
<1> QED
  BY <1>1, LoggingGrows DEF StreamTyped

LEMMA StreamInitInv ==
  ASSUME StreamInit
  PROVE  StreamInv
<1>1. Free \in Connection
  BY DEF Free, Connection, Kind, InfoFilter
<1>2. IsFiniteSet({})
  BY FS_EmptySet
<1> QED
  BY <1>1, <1>2 DEF StreamInit, StreamInv, StreamTyped

LEMMA PanicInv ==
  ASSUME StreamInv, Panic
  PROVE  StreamInv'
BY NoConnection, SameGrows DEF StreamInv, Panic

LEMMA HandleWebSocketInv ==
  ASSUME StreamInv, NEW c \in Client, HandleWebSocket(c)
  PROVE  StreamInv'
<1> DEFINE r == [Free EXCEPT !.reader = "reading", !.up = TRUE,
                   !.open = TRUE, !.writer = TRUE, !.recents = "starting"]
<1>1. r \in Connection
  <2>1. Free \in Connection
    BY DEF Free, Connection, Kind, InfoFilter
  <2> QED
    BY <2>1 DEF Connection
<1>2. r.open /\ r.reader = "reading" /\ r.since = 0 /\ r.recents = "starting"
  BY DEF Free
<1> HIDE DEF r
<1>3. cl' = [cl EXCEPT ![c] = r] /\ clients' = clients \cup {c} /\ Logging(<<"info">>, logChannel)
  BY DEF HandleWebSocket, r
<1>4. cl'[c] = r
  BY <1>3 DEF StreamInv, StreamTyped
<1>5. Grows(logChannel)
  BY <1>3, LoggingOne DEF StreamInv, Kind
<1>6. Listed(c)'
  BY <1>2, <1>4 DEF Listed, Covered
<1> QED
  BY <1>1, <1>3, <1>5, <1>6, OneConnection

\* The first copy holds the end of the log.
LEMMA RecentEnds ==
  ASSUME StreamTyped
  PROVE  /\ Recent \in Seq(Nat)
         /\ LET first == IF Len(logged) > RecentLimit THEN Len(logged) - RecentLimit + 1 ELSE 1
            IN first \in Nat /\ first # 0 /\ first .. Len(logged) \subseteq Range(Recent)
<1> DEFINE n == Len(logged)
           first == IF n > RecentLimit THEN n - RecentLimit + 1 ELSE 1
           m == n - first + 1
           s == [i \in 1 .. m |-> first + i - 1]
<1>1. n \in Nat /\ RecentLimit \in Nat /\ RecentLimit > 0
  BY LenProperties, StreamAssumption DEF StreamTyped
<1>2. first \in Nat /\ first > 0 /\ m \in Nat /\ m = n - first + 1
  BY <1>1
<1>3. Recent = s
  BY DEF Recent
<1> HIDE DEF first, n, m
<1>4. s \in [1 .. m -> Nat]
  BY <1>2
<1>5. s \in Seq(Nat)
  BY <1>2, <1>4, SeqDef
<1>6. ASSUME NEW e \in first .. n
      PROVE  e \in Range(s)
  <2>1. e - first + 1 \in 1 .. m /\ first + (e - first + 1) - 1 = e
    BY <1>1, <1>2
  <2>2. s[e - first + 1] = e
    BY <2>1
  <2> QED
    BY <2>1, <2>2 DEF Range
<1> QED
  BY <1>2, <1>3, <1>5, <1>6 DEF first, n

LEMMA CopyRecentInv ==
  ASSUME StreamInv, NEW c \in Client, CopyRecent(c)
  PROVE  StreamInv'
<1> DEFINE first == IF Len(logged) > RecentLimit THEN Len(logged) - RecentLimit + 1 ELSE 1
           since == IF cl[c].since # 0 THEN cl[c].since ELSE first
           r == [cl[c] EXCEPT !.recents = "sending", !.recent = Recent, !.since = since]
<1>1. cl[c] \in Connection /\ cl \in [Client -> Connection] /\ StreamTyped
  BY DEF StreamInv, StreamTyped
<1>2. Recent \in Seq(Nat) /\ first \in Nat /\ first # 0 /\ first .. Len(logged) \subseteq Range(Recent)
  BY <1>1, RecentEnds
<1> HIDE DEF first
<1>3. since \in Nat /\ since # 0 /\ (cl[c].since = 0 => since = first)
      /\ (cl[c].since # 0 => since = cl[c].since)
  BY <1>1, <1>2 DEF Connection
<1>4. cl' = [cl EXCEPT ![c] = r] /\ UNCHANGED <<logVars, clients>>
  BY <1>1 DEF CopyRecent, Connection, first
<1> HIDE DEF since
<1>5. r \in Connection
  BY <1>1, <1>2, <1>3 DEF Connection
<1>6. /\ r.open = cl[c].open /\ r.reader = cl[c].reader /\ r.since = since
      /\ r.recents = "sending" /\ r.recent = Recent /\ r.had = cl[c].had /\ r.send = cl[c].send
      /\ r.filter = cl[c].filter
  BY <1>1 DEF Connection
<1> HIDE DEF r
<1>7. Grows(logChannel)
  BY <1>1, <1>4, SameGrows
<1>8. cl'[c] = r
  BY <1>1, <1>4
<1>9. Kept(c)' = cl[c].had \cup Range(cl[c].send) \cup Range(Recent)
  BY <1>6, <1>8 DEF Kept
<1>10. ASSUME c \in clients'
       PROVE  Listed(c)'
  <2>1. Listed(c) /\ cl[c].recents = "starting"
    BY <1>4, <1>10 DEF StreamInv, CopyRecent
  <2>2. CASE cl[c].since = 0
    <3>1. Covered(c)'
      BY <1>2, <1>3, <1>4, <1>6, <1>8, <1>9, <2>2 DEF Covered, logVars
    <3> QED
      BY <1>3, <1>6, <1>8, <2>1, <3>1 DEF Listed
  <2>3. CASE cl[c].since # 0
    <3>1. Kept(c) \subseteq Kept(c)'
      BY <1>9, <2>1 DEF Kept
    <3>2. Covered(c)'
      BY <1>1, <1>3, <1>4, <1>6, <1>7, <1>8, <2>1, <2>3, <3>1, StillCovered DEF Listed, logVars
    <3> QED
      BY <1>3, <1>6, <1>8, <2>1, <3>2 DEF Listed
  <2> QED
    BY <2>2, <2>3
<1> QED
  BY <1>4, <1>5, <1>7, <1>10, OneConnection

\* The step of a connection that still holds all it held, and is promised the same.
LEMMA HeldConnection ==
  ASSUME StreamInv, NEW c \in Client, NEW r \in Connection, cl' = [cl EXCEPT ![c] = r],
         Grows(logChannel), clients' \subseteq clients,
         c \in clients' =>
           /\ r.open /\ r.reader = cl[c].reader
           /\ r.filter = cl[c].filter /\ r.since = cl[c].since
           /\ cl[c].recents = "starting" => r.recents = "starting"
           /\ Kept(c) \subseteq Kept(c)'
  PROVE  StreamInv'
<1>1. cl[c] \in Connection /\ cl'[c] = r /\ StreamTyped
  BY DEF StreamInv, StreamTyped
<1>2. ASSUME c \in clients'
      PROVE  Listed(c)'
  <2>1. Listed(c)
    BY <1>2 DEF StreamInv
  <2>2. Covered(c)'
    BY <1>1, <1>2, <2>1, StillCovered DEF Listed, Connection, Grows
  <2> QED
    BY <1>1, <1>2, <2>1, <2>2 DEF Listed
<1> QED
  BY <1>2, OneConnection

LEMMA SendRecentInv ==
  ASSUME StreamInv, NEW c \in Client, SendRecent(c)
  PROVE  StreamInv'
<1> DEFINE rest == cl[c].recent
           more == [cl[c] EXCEPT !.recent = Tail(rest),
                      !.send = IF Wants(c, Head(rest)) THEN Append(@, Head(rest)) ELSE @]
           done == [cl[c] EXCEPT !.recents = "none", !.recent = <<>>, !.had = @ \cup Range(rest)]
<1>1. cl[c] \in Connection /\ cl \in [Client -> Connection] /\ StreamTyped
  BY DEF StreamInv, StreamTyped
<1>2. rest \in Seq(Nat) /\ cl[c].send \in Seq(Nat) /\ cl[c].had \in SUBSET Nat
      /\ cl[c].recents = "sending"
  BY <1>1 DEF Connection, SendRecent
<1>3. c \in clients => cl[c].open
  BY DEF StreamInv, Listed
<1>4. CASE Panic
  BY <1>4, PanicInv
<1>5. CASE /\ rest # <<>>
           /\ Wants(c, Head(rest)) => cl[c].open /\ ~Full(c)
           /\ cl' = [cl EXCEPT ![c] = more]
           /\ UNCHANGED <<logVars, clients>>
  <2>1. Head(rest) \in Nat /\ Tail(rest) \in Seq(Nat) /\ Range(rest) = {Head(rest)} \cup Range(Tail(rest))
    BY <1>2, <1>5, TailRange
  <2>2. Append(cl[c].send, Head(rest)) \in Seq(Nat)
        /\ Range(Append(cl[c].send, Head(rest))) = Range(cl[c].send) \cup {Head(rest)}
    BY <1>2, <2>1, AppendRange
  <2>3. CASE Wants(c, Head(rest))
    <3> DEFINE r == [cl[c] EXCEPT !.recent = Tail(rest), !.send = Append(cl[c].send, Head(rest))]
    <3>1. more = r
      BY <2>3
    <3>2. r \in Connection /\ r.open = cl[c].open /\ r.reader = cl[c].reader
          /\ r.filter = cl[c].filter /\ r.since = cl[c].since /\ r.recents = cl[c].recents
          /\ r.had = cl[c].had /\ r.recent = Tail(rest) /\ r.send = Append(cl[c].send, Head(rest))
      BY <1>1, <2>1, <2>2 DEF Connection
    <3>3. cl' = [cl EXCEPT ![c] = r]
      BY <1>5, <3>1
    <3> HIDE DEF r, more
    <3>4. cl'[c] = r
      BY <1>1, <3>3
    <3>5. Kept(c) \subseteq Kept(c)'
      BY <1>2, <2>1, <2>2, <3>2, <3>4 DEF Kept
    <3>6. Grows(logChannel) /\ clients' \subseteq clients
      BY <1>1, <1>5, SameGrows
    <3>7. c \in clients => r.open
      BY <1>3, <3>2
    <3> QED
      BY <1>2, <3>2, <3>3, <3>5, <3>6, <3>7, HeldConnection
  <2>4. CASE ~Wants(c, Head(rest))
    <3> DEFINE r == [cl[c] EXCEPT !.recent = Tail(rest)]
    <3>1. more = r
      BY <1>1, <2>4 DEF Connection
    <3>2. r \in Connection /\ r.open = cl[c].open /\ r.reader = cl[c].reader
          /\ r.filter = cl[c].filter /\ r.since = cl[c].since /\ r.recents = cl[c].recents
      BY <1>1, <2>1 DEF Connection
    <3>3. cl' = [cl EXCEPT ![c] = r] /\ r.had = cl[c].had /\ r.recent = Tail(rest) /\ r.send = cl[c].send
      BY <1>1, <1>5, <3>1 DEF Connection
    <3> HIDE DEF r, more
    <3>4. cl'[c] = r
      BY <1>1, <3>3
    <3> DEFINE e == Head(rest)
    <3>5. Listed(c)' \/ c \notin clients'
      <4> SUFFICES ASSUME c \in clients PROVE Listed(c)'
        BY <1>5
      <4>1. Listed(c)
        BY DEF StreamInv
      <4>2. ASSUME NEW x \in 1 .. Len(logged), Wants(c, x), x \in Kept(c) \cup Range(logChannel)
            PROVE  x \in Kept(c)' \cup Range(logChannel') \cup lost'
        BY <1>2, <1>5, <2>1, <2>4, <3>2, <3>3, <3>4, <4>2 DEF Kept, logVars
      <4>3. Grows(logChannel)
        BY <1>1, <1>5, SameGrows
      <4>4. Covered(c)'
        BY <1>1, <3>2, <3>4, <4>1, <4>2, <4>3, StillCovered DEF Listed, Connection
      <4> QED
        BY <1>2, <3>2, <3>4, <4>1, <4>4 DEF Listed
    <3> QED
      BY <1>1, <1>5, <3>2, <3>3, <3>5, SameGrows, OneConnection
  <2> QED
    BY <2>3, <2>4
<1>6. CASE cl' = [cl EXCEPT ![c] = done] /\ UNCHANGED <<logVars, clients>>
  <2>1. Range(rest) \subseteq Nat
    BY <1>2, LenProperties, ElementOfSeq DEF Range
  <2> DEFINE had == cl[c].had \cup Range(rest)
             r == [cl[c] EXCEPT !.recents = "none", !.recent = <<>>, !.had = had]
  <2>2. had \in SUBSET Nat /\ done = r
    BY <1>1, <1>2, <2>1 DEF Connection
  <2> HIDE DEF had
  <2> DEFINE empty == <<>>
  <2>6. empty \in Seq(Nat)
    OBVIOUS
  <2>3. r \in Connection /\ r.open = cl[c].open /\ r.reader = cl[c].reader
        /\ r.filter = cl[c].filter /\ r.since = cl[c].since /\ r.recents = "none"
        /\ r.had = had /\ r.send = cl[c].send
    BY <1>1, <2>2, <2>6 DEF Connection
  <2> HIDE DEF r, done
  <2>4. cl' = [cl EXCEPT ![c] = r] /\ cl'[c] = r
    BY <1>1, <1>6, <2>2
  <2>5. Kept(c) \subseteq Kept(c)'
    BY <1>2, <2>3, <2>4 DEF Kept, had
  <2> QED
    BY <1>1, <1>2, <1>3, <1>6, <2>3, <2>4, <2>5, SameGrows, HeldConnection
<1>7. cl' = [cl EXCEPT ![c].recent = Tail(rest),
              ![c].send = IF Wants(c, Head(rest)) THEN Append(@, Head(rest)) ELSE @]
      => cl' = [cl EXCEPT ![c] = more]
  BY <1>1 DEF Connection
<1>8. cl' = [cl EXCEPT ![c].recents = "none", ![c].recent = <<>>, ![c].had = @ \cup Range(rest)]
      => cl' = [cl EXCEPT ![c] = done]
  BY <1>1 DEF Connection
<1> HIDE DEF more, done
<1> QED
  BY <1>4, <1>5, <1>6, <1>7, <1>8 DEF SendRecent

LEMMA WriteLogInv ==
  ASSUME StreamInv, NEW c \in Client, WriteLog(c)
  PROVE  StreamInv'
<1> DEFINE send == cl[c].send
           e == Head(send)
<1>1. cl[c] \in Connection /\ cl \in [Client -> Connection] /\ StreamTyped
  BY DEF StreamInv, StreamTyped
<1>2. send \in Seq(Nat) /\ cl[c].had \in SUBSET Nat /\ send # <<>>
  BY <1>1 DEF Connection, WriteLog
<1>3. e \in Nat /\ Tail(send) \in Seq(Nat) /\ Range(send) = {e} \cup Range(Tail(send))
  BY <1>2, TailRange
<1>4. c \in clients => cl[c].open
  BY DEF StreamInv, Listed
<1>5. PICK w \in BOOLEAN :
        /\ cl' = [cl EXCEPT ![c] = [cl[c] EXCEPT !.send = Tail(send), !.had = cl[c].had \cup {e}, !.writer = w]]
        /\ UNCHANGED logVars \/ Logging(<<"info">>, logChannel)
  <2>1. CASE cl[c].up
    <3> DEFINE q == [cl[c] EXCEPT !.send = Tail(send), !.had = cl[c].had \cup {e}]
    <3>1. cl' = [cl EXCEPT ![c] = q]
      BY <1>1, <2>1 DEF WriteLog, Connection
    <3>2. cl[c].writer \in BOOLEAN
      BY <1>1 DEF Connection
    <3>3. q = [cl[c] EXCEPT !.send = Tail(send), !.had = cl[c].had \cup {e}, !.writer = cl[c].writer]
      BY <1>1 DEF Connection
    <3> HIDE DEF q
    <3>4. UNCHANGED logVars
      BY <2>1 DEF WriteLog
    <3> QED
      BY <3>1, <3>2, <3>3, <3>4
  <2>2. CASE ~cl[c].up
    <3>1. cl' = [cl EXCEPT ![c] = [cl[c] EXCEPT !.send = Tail(send), !.had = cl[c].had \cup {e}, !.writer = FALSE]]
      BY <1>1, <2>2 DEF WriteLog, Connection
    <3> QED
      BY <2>2, <3>1 DEF WriteLog
  <2> QED
    BY <2>1, <2>2
<1> DEFINE had == cl[c].had \cup {e}
           r == [cl[c] EXCEPT !.send = Tail(send), !.had = had, !.writer = w]
<1>6. had \in SUBSET Nat
  BY <1>2, <1>3
<1>7. cl' = [cl EXCEPT ![c] = r]
  BY <1>5
<1> HIDE DEF had
<1>8. r \in Connection /\ r.open = cl[c].open /\ r.reader = cl[c].reader
      /\ r.filter = cl[c].filter /\ r.since = cl[c].since /\ r.recents = cl[c].recents
      /\ r.had = had /\ r.send = Tail(send) /\ r.recent = cl[c].recent
  BY <1>1, <1>3, <1>6 DEF Connection
<1> HIDE DEF r
<1>9. cl'[c] = r
  BY <1>1, <1>7
<1>10. Kept(c) \subseteq Kept(c)'
  BY <1>3, <1>8, <1>9 DEF Kept, had
<1>11. Grows(logChannel) /\ clients' = clients
  BY <1>1, <1>5, SameGrows, LoggingOne DEF WriteLog, Kind
<1> QED
  BY <1>4, <1>7, <1>8, <1>10, <1>11, HeldConnection

LEMMA ConnectionSteps ==
  ASSUME StreamInv, NEW c \in Client,
         WriterEnds(c) \/ RequestRecentLogs(c) \/ Disconnect(c)
  PROVE  StreamInv'
<1>1. cl[c] \in Connection /\ cl \in [Client -> Connection] /\ StreamTyped
  BY DEF StreamInv, StreamTyped
<1>2. PICK writer \in BOOLEAN, up \in BOOLEAN, recents \in {"none", "starting", "sending"} :
        /\ cl' = [cl EXCEPT ![c] = [cl[c] EXCEPT !.writer = writer, !.up = up, !.recents = recents]]
        /\ recents = cl[c].recents \/ (cl[c].recents = "none" /\ recents = "starting")
  <2>1. cl[c].writer \in BOOLEAN /\ cl[c].up \in BOOLEAN
        /\ cl[c].recents \in {"none", "starting", "sending"}
    BY <1>1 DEF Connection
  <2>2. CASE WriterEnds(c)
    <3> DEFINE q == [cl[c] EXCEPT !.writer = FALSE]
    <3>1. q = [cl[c] EXCEPT !.writer = FALSE, !.up = cl[c].up, !.recents = cl[c].recents]
      BY <1>1 DEF Connection
    <3>2. cl' = [cl EXCEPT ![c] = q]
      BY <2>2 DEF WriterEnds
    <3> HIDE DEF q
    <3> QED
      BY <2>1, <3>1, <3>2
  <2>3. CASE RequestRecentLogs(c)
    <3> DEFINE q == [cl[c] EXCEPT !.recents = "starting"]
    <3>1. q = [cl[c] EXCEPT !.writer = cl[c].writer, !.up = cl[c].up, !.recents = "starting"]
      BY <1>1 DEF Connection
    <3>2. cl' = [cl EXCEPT ![c] = q] /\ cl[c].recents = "none"
      BY <2>3 DEF RequestRecentLogs
    <3> HIDE DEF q
    <3> QED
      BY <2>1, <3>1, <3>2
  <2>4. CASE Disconnect(c)
    <3> DEFINE q == [cl[c] EXCEPT !.up = FALSE]
    <3>1. q = [cl[c] EXCEPT !.writer = cl[c].writer, !.up = FALSE, !.recents = cl[c].recents]
      BY <1>1 DEF Connection
    <3>2. cl' = [cl EXCEPT ![c] = q]
      BY <2>4 DEF Disconnect
    <3> HIDE DEF q
    <3> QED
      BY <2>1, <3>1, <3>2
  <2> QED
    BY <2>2, <2>3, <2>4
<1> DEFINE r == [cl[c] EXCEPT !.writer = writer, !.up = up, !.recents = recents]
<1>3. r \in Connection /\ r.reader = cl[c].reader /\ r.filter = cl[c].filter
      /\ r.since = cl[c].since /\ r.recents = recents
      /\ r.had = cl[c].had /\ r.send = cl[c].send /\ r.recent = cl[c].recent
  BY <1>1 DEF Connection
<1>4. c \in clients => r.open
  BY <1>1 DEF StreamInv, Listed, Connection
<1>5. cl' = [cl EXCEPT ![c] = r]
  BY <1>2
<1> HIDE DEF r
<1>6. cl'[c] = r
  BY <1>1, <1>5
<1>7. Kept(c) \subseteq Kept(c)'
  BY <1>2, <1>3, <1>6 DEF Kept
<1>8. Grows(logChannel) /\ clients' \subseteq clients
  BY <1>1, SameGrows DEF WriterEnds, RequestRecentLogs, Disconnect
<1> QED
  BY <1>2, <1>3, <1>4, <1>5, <1>7, <1>8, HeldConnection

LEMMA UpdateFiltersInv ==
  ASSUME StreamInv, NEW c \in Client, updateClientFilters(c)
  PROVE  StreamInv'
<1>1. cl[c] \in Connection /\ cl \in [Client -> Connection] /\ StreamTyped
      /\ Len(logged) \in Nat
  BY LenProperties DEF StreamInv, StreamTyped
<1>2. PICK f \in Filter : cl' = [cl EXCEPT ![c].filter = f, ![c].since = Len(logged) + 1]
  BY DEF updateClientFilters
<1> DEFINE since == Len(logged) + 1
           r == [cl[c] EXCEPT !.filter = f, !.since = since]
<1>3. f \in SUBSET Kind /\ since \in Nat /\ since # 0
  BY <1>1, StreamAssumption
<1>4. cl' = [cl EXCEPT ![c] = r]
  BY <1>1, <1>2 DEF Connection
<1> HIDE DEF since
<1>5. r \in Connection /\ r.reader = cl[c].reader /\ r.since = since /\ (cl[c].open => r.open)
  BY <1>1, <1>3 DEF Connection
<1> HIDE DEF r
<1>6. Grows(logChannel) /\ clients' \subseteq clients
  BY <1>1, LoggingOne DEF updateClientFilters, Kind
<1>7. cl'[c] = r
  BY <1>1, <1>4
<1>8. Covered(c)'
  BY <1>5, <1>6, <1>7 DEF Covered, Grows, since
<1>9. c \in clients' => Listed(c)'
  BY <1>3, <1>5, <1>6, <1>7, <1>8 DEF StreamInv, Listed
<1> QED
  BY <1>4, <1>5, <1>6, <1>9, OneConnection

LEMMA LeaveInv ==
  ASSUME StreamInv, NEW c \in Client, Leave(c) \/ CloseSend(c)
  PROVE  StreamInv'
<1>1. cl[c] \in Connection /\ cl \in [Client -> Connection] /\ StreamTyped
  BY DEF StreamInv, StreamTyped
<1>2. CASE Leave(c)
  <2> DEFINE r == [cl[c] EXCEPT !.reader = "leaving"]
  <2>1. r \in Connection
    BY <1>1 DEF Connection
  <2>2. cl' = [cl EXCEPT ![c] = r] /\ clients' = clients \ {c} /\ UNCHANGED logVars
    BY <1>2 DEF Leave
  <2> HIDE DEF r
  <2>3. Grows(logChannel)
    BY <1>1, <2>2, SameGrows
  <2> QED
    BY <2>1, <2>2, <2>3, OneConnection
<1>3. CASE CloseSend(c)
  <2>1. c \notin clients
    BY <1>3 DEF CloseSend, StreamInv, Listed
  <2>2. CASE ~cl[c].open
    BY <1>3, <2>2, PanicInv DEF CloseSend
  <2>3. CASE cl[c].open
    <3> DEFINE r == [cl[c] EXCEPT !.reader = "gone", !.open = FALSE]
    <3>1. r \in Connection
      BY <1>1 DEF Connection
    <3>2. cl' = [cl EXCEPT ![c] = r] /\ clients' = clients /\ Logging(<<"info">>, logChannel)
      BY <1>1, <1>3, <2>3 DEF CloseSend, Connection
    <3> HIDE DEF r
    <3>3. Grows(logChannel)
      BY <1>1, <3>2, LoggingOne DEF Kind
    <3> QED
      BY <2>1, <3>1, <3>2, <3>3, OneConnection
  <2> QED
    BY <2>2, <2>3
<1> QED
  BY <1>2, <1>3

\* Closing the connections of all clients, or of some.
LEMMA ClosingInv ==
  ASSUME StreamInv, NEW S \in SUBSET clients, cl' = Closing(S), clients' = clients \ S,
         Grows(logChannel)
  PROVE  StreamInv'
<1>1. cl \in [Client -> Connection] /\ StreamTyped
  BY DEF StreamInv, StreamTyped
<1>2. ASSUME NEW c \in Client
      PROVE  /\ cl'[c] \in Connection
             /\ c \notin S => cl'[c] = cl[c]
  <2>1. cl[c] \in Connection
    BY <1>1
  <2>2. cl'[c] = IF c \in S THEN [cl[c] EXCEPT !.open = FALSE, !.up = FALSE] ELSE cl[c]
    BY DEF Closing
  <2> QED
    BY <2>1, <2>2 DEF Connection
<1>3. cl' \in [Client -> Connection]
  <2>1. cl' = [c \in Client |-> cl'[c]]
    BY DEF Closing
  <2> QED
    BY <1>2, <2>1
<1>4. IsFiniteSet(clients') /\ clients' \subseteq Client
  BY FS_Subset DEF StreamInv, StreamTyped
<1>5. StreamTyped'
  BY <1>3, <1>4 DEF StreamTyped, Grows
<1>6. ASSUME NEW c \in clients'
      PROVE  Listed(c)'
  <2>1. c \in clients /\ c \in Client /\ cl'[c] = cl[c]
    BY <1>2, <1>6 DEF StreamInv, StreamTyped
  <2> QED
    BY <1>1, <2>1, Untouched DEF StreamInv
<1> QED
  BY <1>5, <1>6 DEF StreamInv

\* As many entries as a set has members, all of one kind.
LEMMA LoggingMany ==
  ASSUME StreamTyped, NEW S \in SUBSET clients, NEW kind \in Kind, NEW ch \in Seq(Nat),
         Logging([i \in 1 .. Cardinality(S) |-> kind], ch)
  PROVE  Grows(ch)
<1> DEFINE n == Cardinality(S)
           kinds == [i \in 1 .. n |-> kind]
<1>1. n \in Nat
  BY FS_Subset, FS_CardinalityType DEF StreamTyped
<1> HIDE DEF n
<1>2. kinds \in [1 .. n -> Kind]
  OBVIOUS
<1>3. kinds \in Seq(Kind)
  BY <1>1, <1>2, SeqDef
<1>4. Logging(kinds, ch)
  BY DEF n
<1> HIDE DEF kinds
<1> QED
  BY <1>3, <1>4, LoggingGrows

LEMMA CleanupInv ==
  ASSUME StreamInv, cleanupInactiveClients \/ StopStreaming
  PROVE  StreamInv'
<1>1. StreamTyped
  BY DEF StreamInv
<1>2. CASE Panic
  BY <1>2, PanicInv
<1>3. CASE cleanupInactiveClients /\ ~Panic
  <2>1. PICK S \in SUBSET clients :
          /\ cl' = Closing(S) /\ clients' = clients \ S
          /\ Logging([i \in 1 .. Cardinality(S) |-> "info"], logChannel)
    BY <1>3 DEF cleanupInactiveClients
  <2>2. Grows(logChannel)
    BY <1>1, <2>1, LoggingMany DEF StreamTyped, Kind
  <2> QED
    BY <2>1, <2>2, ClosingInv
<1>4. CASE StopStreaming /\ ~Panic
  <2>1. cl' = Closing(clients) /\ clients' = {} /\ UNCHANGED logVars
    BY <1>4 DEF StopStreaming
  <2>2. Grows(logChannel) /\ clients' = clients \ clients /\ clients \in SUBSET clients
    BY <1>1, <2>1, SameGrows
  <2> QED
    BY <2>1, <2>2, ClosingInv
<1> QED
  BY <1>2, <1>3, <1>4

LEMMA DistributeInv ==
  ASSUME StreamInv, distributeLogEntry
  PROVE  StreamInv'
<1> DEFINE e == Head(logChannel)
           wanting == {c \in clients : Wants(c, e)}
           full == {c \in wanting : Full(c)}
<1>1. cl \in [Client -> Connection] /\ StreamTyped /\ logChannel \in Seq(Nat) /\ logChannel # <<>>
  BY DEF StreamInv, StreamTyped, distributeLogEntry
<1>2. e \in Nat /\ Tail(logChannel) \in Seq(Nat)
      /\ Range(logChannel) = {e} \cup Range(Tail(logChannel))
  BY <1>1, TailRange
<1>3. CASE Panic
  BY <1>3, PanicInv
<1>4. CASE ~Panic
  <2>1. /\ cl' = [c \in Client |->
               IF c \in full THEN [cl[c] EXCEPT !.had = @ \cup {e}]
               ELSE IF c \in wanting THEN [cl[c] EXCEPT !.send = Append(@, e)]
               ELSE cl[c]]
        /\ Logging([i \in 1 .. Cardinality(full) |-> "debug"], Tail(logChannel))
        /\ clients' = clients
    BY <1>4 DEF distributeLogEntry
  <2>2. \A c \in clients : Wants(c, e) => c \in wanting
    OBVIOUS
  <2>3. full \in SUBSET clients
    OBVIOUS
  <2> HIDE DEF wanting, full, e
  <2>4. Grows(Tail(logChannel))
    BY <1>1, <1>2, <2>1, <2>3, LoggingMany DEF Kind
  <2>5. ASSUME NEW c \in Client
        PROVE  /\ cl'[c] \in Connection
               /\ cl'[c].open = cl[c].open /\ cl'[c].reader = cl[c].reader
               /\ cl'[c].filter = cl[c].filter /\ cl'[c].since = cl[c].since
               /\ cl'[c].recents = cl[c].recents
               /\ Kept(c) \subseteq Kept(c)'
               /\ c \in wanting => e \in Kept(c)'
    <3>1. cl[c] \in Connection
      BY <1>1
    <3>2. CASE c \in full
      <4> DEFINE had == cl[c].had \cup {e}
                 r == [cl[c] EXCEPT !.had = had]
      <4>1. had \in SUBSET Nat
        BY <1>2, <3>1 DEF Connection
      <4>2. cl'[c] = r
        BY <2>1, <3>2
      <4> HIDE DEF had
      <4>3. /\ r \in Connection /\ r.open = cl[c].open /\ r.reader = cl[c].reader
            /\ r.filter = cl[c].filter /\ r.since = cl[c].since /\ r.recents = cl[c].recents
            /\ r.had = had /\ r.send = cl[c].send /\ r.recent = cl[c].recent
        BY <3>1, <4>1 DEF Connection
      <4> HIDE DEF r
      <4>4. Kept(c) \cup {e} \subseteq Kept(c)'
        BY <4>2, <4>3 DEF Kept, had
      <4> QED
        BY <4>2, <4>3, <4>4
    <3>3. CASE c \notin full /\ c \in wanting
      <4> DEFINE send == Append(cl[c].send, e)
                 r == [cl[c] EXCEPT !.send = send]
      <4>1. send \in Seq(Nat) /\ Range(send) = Range(cl[c].send) \cup {e}
        <5>1. cl[c].send \in Seq(Nat)
          BY <3>1 DEF Connection
        <5> QED
          BY <1>2, <5>1, AppendRange
      <4>2. cl'[c] = r
        BY <2>1, <3>3
      <4> HIDE DEF send
      <4>3. /\ r \in Connection /\ r.open = cl[c].open /\ r.reader = cl[c].reader
            /\ r.filter = cl[c].filter /\ r.since = cl[c].since /\ r.recents = cl[c].recents
            /\ r.had = cl[c].had /\ r.send = send /\ r.recent = cl[c].recent
        BY <3>1, <4>1 DEF Connection
      <4> HIDE DEF r
      <4>4. Kept(c) \cup {e} \subseteq Kept(c)'
        BY <4>1, <4>2, <4>3 DEF Kept
      <4> QED
        BY <4>2, <4>3, <4>4
    <3>4. CASE c \notin full /\ c \notin wanting
      <4>1. cl'[c] = cl[c]
        BY <2>1, <3>4
      <4> QED
        BY <3>1, <3>4, <4>1 DEF Kept
    <3> QED
      BY <3>2, <3>3, <3>4
  <2>6. cl' \in [Client -> Connection]
    <3>1. cl' = [c \in Client |-> cl'[c]]
      BY <2>1
    <3> QED
      BY <2>5, <3>1
  <2>7. StreamTyped'
    BY <1>1, <2>1, <2>4, <2>6 DEF StreamTyped, Grows
  <2>8. ASSUME NEW c \in clients'
        PROVE  Listed(c)'
    <3>1. c \in clients /\ c \in Client /\ Listed(c) /\ cl[c] \in Connection
      BY <1>1, <2>1, <2>8 DEF StreamInv, StreamTyped
    <3>2. ASSUME NEW x \in 1 .. Len(logged), Wants(c, x), x \in Kept(c) \cup Range(logChannel)
          PROVE  x \in Kept(c)' \cup Range(logChannel') \cup lost'
      <4>1. CASE x = e
        BY <2>2, <2>5, <3>1, <3>2, <4>1
      <4>2. CASE x # e /\ x \in Range(logChannel)
        BY <1>2, <2>4, <4>2 DEF Grows
      <4>3. CASE x \in Kept(c)
        BY <2>5, <3>1, <4>3
      <4> QED
        BY <3>2, <4>1, <4>2, <4>3
    <3>3. Covered(c)'
      <4>1. cl[c].since \in Nat /\ Covered(c)
        BY <3>1 DEF Connection, Listed
      <4>2. cl'[c].since = cl[c].since /\ cl'[c].filter = cl[c].filter
        BY <2>5, <3>1
      <4> DEFINE ch == Tail(logChannel)
      <4>3. Grows(ch)
        BY <2>4
      <4> HIDE DEF ch
      <4> QED
        BY <1>1, <3>1, <3>2, <4>1, <4>2, <4>3, StillCovered
    <3> QED
      BY <2>5, <3>1, <3>3 DEF Listed
  <2> QED
    BY <2>7, <2>8 DEF StreamInv
<1> QED
  BY <1>3, <1>4

LEMMA StreamNextInv ==
  ASSUME StreamInv, [StreamNext]_streamVars
  PROVE  StreamInv'
<1>1. CASE LogEntry
  <2>1. Grows(logChannel)
    BY <1>1, LoggingOne DEF LogEntry, StreamInv
  <2> QED
    BY <1>1, <2>1, NoConnection DEF LogEntry
<1>2. CASE StartStreaming
  <2>1. Grows(logChannel)
    BY <1>2, LoggingOne DEF StartStreaming, StreamInv, Kind
  <2> QED
    BY <1>2, <2>1, NoConnection DEF StartStreaming
<1>3. CASE StopStreaming \/ cleanupInactiveClients
  BY <1>3, CleanupInv
<1>4. CASE distributeLogEntry
  BY <1>4, DistributeInv
<1>5. ASSUME NEW c \in Client,
             \/ HandleWebSocket(c) \/ CopyRecent(c) \/ SendRecent(c)
             \/ WriteLog(c) \/ WriterEnds(c)
             \/ RequestRecentLogs(c) \/ updateClientFilters(c)
             \/ Disconnect(c) \/ Leave(c) \/ CloseSend(c)
      PROVE  StreamInv'
  BY <1>5, HandleWebSocketInv, CopyRecentInv, SendRecentInv, WriteLogInv, ConnectionSteps,
     UpdateFiltersInv, LeaveInv
<1>6. CASE UNCHANGED streamVars
  BY <1>6, NoConnection, SameGrows DEF streamVars, logVars, StreamInv
<1> QED
  BY <1>1, <1>2, <1>3, <1>4, <1>5, <1>6 DEF StreamNext

\* The streamer can send to every client in its map, whoever closes channels, and such
\* a client misses nothing it wants but what found a channel full or its connection down.
THEOREM StreamerServes == StreamSpec => []ClientsServed
<1>1. StreamInv => ClientsServed
  <2> SUFFICES ASSUME StreamInv, NEW c \in clients
               PROVE  /\ cl[c].open
                      /\ cl[c].recents = "none" /\ cl[c].since # 0 =>
                           \A e \in cl[c].since .. Len(logged) : Wants(c, e) =>
                             e \in cl[c].had \cup Range(cl[c].send) \cup Range(logChannel) \cup lost
    BY DEF ClientsServed, ListedOpen, NothingMissed
  <2>1. Listed(c)
    BY DEF StreamInv
  <2> QED
    BY <2>1 DEF Listed, Covered, Kept
<1> QED
  BY <1>1, StreamInitInv, StreamNextInv, PTL DEF StreamSpec
=============================================================================
