---------------------------- MODULE ChainProofs ----------------------------
(***************************************************************************)
(* The parts of a node that others see: the replicated chain, for any      *)
(* number of nodes, transactions, blocks and restarts, with messages lost, *)
(* delayed and reordered at will; then a token (TokenInv) and the          *)
(* governance simulator (GovInv).                                          *)
(*                                                                         *)
(* ChainInv is the inductive invariant over the nodes' state: to know that *)
(* the drained queue entries continue the chain one needs to know where    *)
(* they are queued (QueueAhead), and to know that a block about to be      *)
(* executed is higher than all those executed before one needs to know     *)
(* that none of them is above the tip (AppliedBelowTip), which a fork may  *)
(* have replaced since.                                                    *)
(*                                                                         *)
(* Two more invariants rest on it: ForkInv, for what two nodes that both   *)
(* mine agree on, and LineInv, for any number of nodes of which one mines. *)
(***************************************************************************)
EXTENDS Chain, Token, Governance, TotalsProofs, SequenceTheorems

\* Nothing above the tip has been executed.
AppliedBelowTip ==
  \A n \in Node : \A i \in 1 .. Len(applied[n]) : applied[n][i].index <= Tip(n).index

ChainInv ==
  /\ NodeTypeOK
  /\ ChainLinked
  /\ QueueAhead
  /\ AppliedInOrder
  /\ AppliedBelowTip

LEMMA BlockType ==
  ASSUME NEW b \in Block
  PROVE  /\ b.hash \in Nat /\ b.index \in Nat /\ b.index \in Index
         /\ b.prev \in Nat /\ b.stake \in Nat /\ b.txs \in Seq(Tx)
         /\ b.hash \in Hash \cup {0}
         /\ b # NoBlock
<1>1. /\ b.hash \in Hash \cup {0} /\ b.index \in Index /\ b.prev \in Hash \cup {0}
      /\ b.stake \in Stake \cup {0} /\ b.txs \in Seq(Tx)
  BY DEF Block
<1>2. /\ \A x \in Hash \cup {0} : x \in Nat
      /\ \A x \in Stake \cup {0} : x \in Nat
      /\ \A x \in Index : x \in Nat
  BY ChainAssumption DEF Index
<1>3. b # NoBlock
  BY NoBlockAssumption
<1>4. b.hash \in Nat /\ b.prev \in Nat /\ b.stake \in Nat
  BY <1>1, <1>2
<1>5. b.index \in Nat
  BY <1>1, <1>2
<1> QED
  BY <1>1, <1>3, <1>4, <1>5

LEMMA GenesisType == Genesis \in Block /\ Genesis.index = 0
<1>1. <<>> \in Seq(Tx)
  OBVIOUS
<1> QED
  BY <1>1, ChainAssumption DEF Genesis, Block, Index

LEMMA TipType ==
  ASSUME NodeTypeOK, NEW n \in Node
  PROVE  /\ Tip(n) \in Block
         /\ chain[n] \in Seq(Block) /\ Len(chain[n]) \in Nat /\ Len(chain[n]) >= 1
BY DEF NodeTypeOK, Tip

\* What AppendBlock makes of the chain: the old blocks, then the new one, then
\* the k drained ones.
LEMMA ConcatIndex ==
  ASSUME NEW S, NEW c \in Seq(S), NEW b \in S, NEW k \in Nat,
         NEW q \in [1 .. k -> S]
  PROVE  LET r == Append(c, b) \o q IN
         /\ r \in Seq(S)
         /\ Len(r) = Len(c) + 1 + k
         /\ \A i \in 1 .. Len(c) : r[i] = c[i]
         /\ r[Len(c) + 1] = b
         /\ \A i \in 1 .. k : r[Len(c) + 1 + i] = q[i]
<1> DEFINE r == Append(c, b) \o q
<1>1. q \in Seq(S) /\ Len(q) = k
  OBVIOUS
<1>2. Append(c, b) \in Seq(S) /\ Len(Append(c, b)) = Len(c) + 1
  OBVIOUS
<1>3. \A i \in 1 .. Len(c) : Append(c, b)[i] = c[i]
  OBVIOUS
<1>4. Append(c, b)[Len(c) + 1] = b
  OBVIOUS
<1>5. r \in Seq(S) /\ Len(r) = Len(c) + 1 + k
  BY <1>1, <1>2, ConcatProperties
<1>6. \A i \in 1 .. Len(c) : r[i] = c[i]
  BY <1>1, <1>2, <1>3
<1>7. r[Len(c) + 1] = b
  BY <1>1, <1>2, <1>4
<1>8. \A i \in 1 .. k : r[Len(c) + 1 + i] = q[i]
  BY <1>1, <1>2
<1> QED
  BY <1>5, <1>6, <1>7, <1>8

LEMMA Shift ==
  ASSUME NEW x \in Nat, NEW y \in Nat
  PROVE  /\ x = y + 1 + (x - y - 1)
         /\ x + 1 = y + 1 + ((x - y - 1) + 1)
         /\ x + (y + 1) = (x + y) + 1
OBVIOUS

LEMMA ReorganizeInv ==
  ASSUME ChainInv, NEW n \in Node, NEW b \in Block, reorganizeToFork(n, b)
  PROVE  ChainInv'
<1> USE DEF reorganizeToFork
<1>1. NodeTypeOK'
  <2>1. <<b>> \in Seq(Block) \ {<<>>} /\ <<>> \in Seq(Tx)
    OBVIOUS
  <2> QED
    BY <2>1 DEF ChainInv, NodeTypeOK
<1>2. chain'[n] = <<b>> /\ Tip(n)' = b /\ b.index = Tip(n).index
  BY DEF ChainInv, NodeTypeOK, Tip, Sibling
<1>3. \A m \in Node \ {n} : chain'[m] = chain[m] /\ Tip(m)' = Tip(m)
  BY DEF ChainInv, NodeTypeOK, Tip
<1>4. ChainLinked'
  <2> SUFFICES ASSUME NEW m \in Node, NEW i \in 1 .. Len(chain'[m]) - 1
               PROVE  /\ chain'[m][i + 1].prev = chain'[m][i].hash
                      /\ chain'[m][i + 1].index = chain'[m][i].index + 1
    BY DEF ChainLinked
  <2>1. CASE m = n
    <3>1. Len(<<b>>) = 1
      OBVIOUS
    <3>2. Len(chain'[m]) = 1
      BY <2>1, <3>1, <1>2
    <3>3. Len(chain'[m]) - 1 = 0
      BY <3>2
    <3>4. i \in 1 .. Len(chain'[m]) - 1
      OBVIOUS
    <3>5. i \in 1 .. 0
      BY <3>3, <3>4
    <3> QED
      BY <3>5
  <2>2. CASE m # n
    BY <2>2, <1>3 DEF ChainInv, ChainLinked
  <2> QED
    BY <2>1, <2>2
<1>5. QueueAhead'
  BY <1>2, <1>3 DEF ChainInv, QueueAhead
<1>6. AppliedInOrder'
  BY DEF ChainInv, AppliedInOrder
<1>7. AppliedBelowTip'
  BY <1>2, <1>3 DEF ChainInv, AppliedBelowTip
<1> QED
  BY <1>1, <1>4, <1>5, <1>6, <1>7 DEF ChainInv

LEMMA QueueInv ==
  ASSUME ChainInv, NEW n \in Node, NEW b \in Block, QueueBlock(n, b)
  PROVE  ChainInv'
<1> USE DEF QueueBlock
<1>1. b.index \in Index /\ b # NoBlock
  BY BlockType
<1>2. NodeTypeOK'
  BY <1>1 DEF ChainInv, NodeTypeOK
<1>3. chain' = chain /\ applied' = applied /\ \A m \in Node : Tip(m)' = Tip(m)
  BY DEF Tip
<1>4. QueueAhead'
  <2> SUFFICES ASSUME NEW m \in Node, NEW i \in Index, pendingBlocks'[m][i] # NoBlock
               PROVE  pendingBlocks'[m][i].index = i /\ i > Tip(m).index + 1
    BY <1>3 DEF QueueAhead
  <2>1. CASE m = n /\ i = b.index
    BY <2>1, <1>1 DEF ChainInv, NodeTypeOK
  <2>2. CASE ~(m = n /\ i = b.index)
    <3>1. pendingBlocks'[m][i] = pendingBlocks[m][i]
      BY <2>2 DEF ChainInv, NodeTypeOK
    <3> QED
      BY <3>1 DEF ChainInv, QueueAhead
  <2> QED
    BY <2>1, <2>2
<1>5. ChainLinked' /\ AppliedInOrder' /\ AppliedBelowTip'
  BY <1>3 DEF ChainInv, ChainLinked, AppliedInOrder, AppliedBelowTip
<1> QED
  BY <1>2, <1>4, <1>5 DEF ChainInv

\* How appending b and draining k queued blocks leaves the chain, the queue and
\* the tip of node n.
Appended(n, b, k) ==
  /\ LinkedRun(n, b, k) /\ ~LinkedRun(n, b, k + 1)
  /\ \A i \in 1 .. k :
       /\ pendingBlocks[n][b.index + i] \in Block
       /\ pendingBlocks[n][b.index + i].index = b.index + i
       /\ pendingBlocks[n][b.index + i].prev =
            IF i = 1 THEN b.hash ELSE pendingBlocks[n][b.index + i - 1].hash
  /\ chain' = [chain EXCEPT ![n] = chain'[n]]
  /\ chain'[n] \in Seq(Block)
  /\ Len(chain'[n]) = Len(chain[n]) + 1 + k
  /\ \A i \in 1 .. Len(chain[n]) : chain'[n][i] = chain[n][i]
  /\ chain'[n][Len(chain[n]) + 1] = b
  /\ \A i \in 1 .. k : chain'[n][Len(chain[n]) + 1 + i] = pendingBlocks[n][b.index + i]
  /\ pendingBlocks' = [pendingBlocks EXCEPT ![n] =
       [i \in Index |-> IF i \in Dequeued(b, k) THEN NoBlock ELSE @[i]]]
  /\ Tip(n)' = chain'[n][Len(chain'[n])]
  /\ Tip(n)'.index = b.index + k

LEMMA AppendShape ==
  ASSUME ChainInv, NEW n \in Node, NEW b \in Block, AppendBlock(n, b)
  PROVE  \E k \in 0 .. MaxIndex : Appended(n, b, k)
<1> DEFINE c == chain[n]
           queue == pendingBlocks[n]
           drained(k) == [i \in 1 .. k |-> queue[b.index + i]]
<1>1. PICK k \in 0 .. MaxIndex :
        /\ LinkedRun(n, b, k) /\ ~LinkedRun(n, b, k + 1)
        /\ chain' = [chain EXCEPT ![n] = Append(@, b) \o drained(k)]
        /\ pendingBlocks' = [pendingBlocks EXCEPT ![n] =
             [i \in Index |-> IF i \in Dequeued(b, k) THEN NoBlock ELSE @[i]]]
  BY DEF AppendBlock
<1> DEFINE r == Append(c, b) \o drained(k)
<1>2. /\ k \in Nat /\ b.index \in Nat
      /\ b.index = Tip(n).index + 1 /\ b.prev = Tip(n).hash
      /\ Tip(n) \in Block /\ Tip(n).index \in Nat
      /\ c \in Seq(Block) /\ Len(c) \in Nat /\ Len(c) >= 1 /\ Tip(n) = c[Len(c)]
  BY BlockType, TipType, ChainAssumption DEF ChainInv, AppendBlock, Tip
<1>3. \A i \in 1 .. k :
        /\ queue[b.index + i] \in Block
        /\ queue[b.index + i].index = b.index + i
        /\ queue[b.index + i].prev =
             IF i = 1 THEN b.hash ELSE queue[b.index + i - 1].hash
  <2> SUFFICES ASSUME NEW i \in 1 .. k
               PROVE  /\ queue[b.index + i] \in Block
                      /\ queue[b.index + i].index = b.index + i
                      /\ queue[b.index + i].prev =
                           IF i = 1 THEN b.hash ELSE queue[b.index + i - 1].hash
    OBVIOUS
  <2>1. b.index + i \in Index
    <3>1. b.index + k \in 0 .. MaxIndex
      BY <1>1 DEF LinkedRun, Index
    <3>2. MaxIndex \in Nat /\ b.index \in Nat
      BY <1>2, ChainAssumption
    <3> QED
      BY <3>1, <3>2 DEF Index
  <2>2. queue[b.index + i] # NoBlock
    BY <1>1 DEF LinkedRun
  <2>3. queue[b.index + i] \in Block
    BY <2>1, <2>2 DEF ChainInv, NodeTypeOK
  <2>4. queue[b.index + i].index = b.index + i
    BY <2>1, <2>2 DEF ChainInv, QueueAhead
  <2> QED
    BY <1>1, <2>3, <2>4 DEF LinkedRun
<1>4. /\ r \in Seq(Block) /\ Len(r) = Len(c) + 1 + k
      /\ \A i \in 1 .. Len(c) : r[i] = c[i]
      /\ r[Len(c) + 1] = b
      /\ \A i \in 1 .. k : r[Len(c) + 1 + i] = queue[b.index + i]
  <2>1. drained(k) \in [1 .. k -> Block]
    BY <1>3
  <2> HIDE DEF drained
  <2>2. /\ r \in Seq(Block) /\ Len(r) = Len(c) + 1 + k
        /\ \A i \in 1 .. Len(c) : r[i] = c[i]
        /\ r[Len(c) + 1] = b
        /\ \A i \in 1 .. k : r[Len(c) + 1 + i] = drained(k)[i]
    BY <2>1, <1>2, ConcatIndex
  <2> QED
    BY <2>2 DEF drained
<1>5. chain'[n] = r /\ \A m \in Node \ {n} : chain'[m] = chain[m]
  BY <1>1 DEF ChainInv, NodeTypeOK
<1> HIDE DEF r, drained
<1>6. Tip(n)' = r[Len(r)] /\ Tip(n)'.index = b.index + k
  <2>1. Tip(n)' = r[Len(r)]
    BY <1>5 DEF Tip
  <2>2. CASE k = 0
    BY <2>1, <2>2, <1>2, <1>4
  <2>3. CASE k # 0
    <3>1. k \in 1 .. k
      BY <2>3, <1>2
    <3>2. r[Len(r)] = queue[b.index + k]
      BY <3>1, <1>2, <1>4
    <3> QED
      BY <2>1, <3>1, <3>2, <1>3
  <2> QED
    BY <2>1, <2>2, <2>3
<1>7. chain' = [chain EXCEPT ![n] = r]
  BY <1>1 DEF r, drained
<1>8. /\ chain' = [chain EXCEPT ![n] = chain'[n]]
      /\ chain'[n] \in Seq(Block)
      /\ Len(chain'[n]) = Len(chain[n]) + 1 + k
      /\ \A i \in 1 .. Len(chain[n]) : chain'[n][i] = chain[n][i]
      /\ chain'[n][Len(chain[n]) + 1] = b
      /\ \A i \in 1 .. k : chain'[n][Len(chain[n]) + 1 + i] = pendingBlocks[n][b.index + i]
      /\ Tip(n)' = chain'[n][Len(chain'[n])]
  BY <1>4, <1>5, <1>6, <1>7
<1>9. Appended(n, b, k)
  BY ONLY <1>1, <1>3, <1>6, <1>8 DEF Appended
<1> QED
  BY <1>9

LEMMA AppendInv ==
  ASSUME ChainInv, NEW n \in Node, NEW b \in Block, AppendBlock(n, b)
  PROVE  /\ ChainInv'
         /\ Tip(n)'.index > Tip(n).index
         /\ \A m \in Node \ {n} : Tip(m)' = Tip(m)
<1> DEFINE c == chain[n]
           queue == pendingBlocks[n]
           r == chain'[n]
<1>1. PICK k \in 0 .. MaxIndex : Appended(n, b, k)
  BY AppendShape
<1>2. /\ k \in Nat /\ b.index \in Nat
      /\ b.index = Tip(n).index + 1 /\ b.prev = Tip(n).hash
      /\ Tip(n) \in Block /\ Tip(n).index \in Nat
      /\ c \in Seq(Block) /\ Len(c) \in Nat /\ Len(c) >= 1 /\ Tip(n) = c[Len(c)]
  BY BlockType, TipType, ChainAssumption DEF ChainInv, AppendBlock, Tip
<1>3. \A i \in 1 .. k :
        /\ queue[b.index + i] \in Block
        /\ queue[b.index + i].index = b.index + i
        /\ queue[b.index + i].prev =
             IF i = 1 THEN b.hash ELSE queue[b.index + i - 1].hash
  BY <1>1 DEF Appended
<1>4. /\ r \in Seq(Block) /\ Len(r) = Len(c) + 1 + k
      /\ \A i \in 1 .. Len(c) : r[i] = c[i]
      /\ r[Len(c) + 1] = b
      /\ \A i \in 1 .. k : r[Len(c) + 1 + i] = queue[b.index + i]
  BY <1>1 DEF Appended
<1>5. chain'[n] = r /\ \A m \in Node \ {n} : chain'[m] = chain[m]
  BY <1>1 DEF Appended, ChainInv, NodeTypeOK
<1> HIDE DEF r
<1>6. Tip(n)' = r[Len(r)] /\ Tip(n)'.index = b.index + k
  BY <1>1 DEF Appended, r
<1>7. \A m \in Node \ {n} : Tip(m)' = Tip(m)
  BY <1>5 DEF Tip
<1>8. NodeTypeOK'
  <2>1. chain' \in [Node -> Seq(Block) \ {<<>>}]
    <3>1. r # <<>>
      BY <1>2, <1>4
    <3>2. chain' = [chain EXCEPT ![n] = r]
      BY <1>1 DEF Appended, r
    <3> QED
      BY <1>4, <3>1, <3>2 DEF ChainInv, NodeTypeOK
  <2>2. pendingTxs' \in [Node -> Seq(Tx)]
    <3>1. <<>> \in Seq(Tx)
      OBVIOUS
    <3> QED
      BY <3>1 DEF ChainInv, NodeTypeOK, AppendBlock
  <2>3. pendingBlocks' \in [Node -> [Index -> Block \cup {NoBlock}]]
    <3>1. queue \in [Index -> Block \cup {NoBlock}]
      BY DEF ChainInv, NodeTypeOK
    <3> QED
      BY <3>1, <1>1 DEF Appended, ChainInv, NodeTypeOK
  <2>4. applied' \in [Node -> Seq(Block)] /\ stored' \in [Node -> Seq(Block)]
    BY DEF ChainInv, NodeTypeOK, AppendBlock
  <2>5. stuck' \in [Node -> BOOLEAN]
    BY DEF ChainInv, NodeTypeOK, AppendBlock
  <2>6. reported' \in [Node -> SUBSET (Hash \cup {0})]
    BY BlockType DEF ChainInv, NodeTypeOK, AppendBlock
  <2> QED
    BY <2>1, <2>2, <2>3, <2>4, <2>5, <2>6 DEF NodeTypeOK
<1>9. ChainLinked'
  <2> SUFFICES ASSUME NEW m \in Node, NEW i \in 1 .. Len(chain'[m]) - 1
               PROVE  /\ chain'[m][i + 1].prev = chain'[m][i].hash
                      /\ chain'[m][i + 1].index = chain'[m][i].index + 1
    BY DEF ChainLinked
  <2>0. i \in Nat /\ i >= 1 /\ (m = n => i <= Len(c) + k)
    <3>1. Len(chain'[m]) \in Nat
      BY <1>8 DEF NodeTypeOK
    <3>2. i \in Nat /\ i >= 1 /\ i <= Len(chain'[m]) - 1
      BY <3>1
    <3>3. m = n => Len(chain'[m]) = Len(c) + 1 + k
      BY <1>4, <1>5
    <3>4. Len(c) \in Nat /\ k \in Nat
      BY <1>2
    <3> QED
      BY <3>2, <3>3, <3>4
  <2>1. CASE m # n
    BY <2>1, <1>5 DEF ChainInv, ChainLinked
  <2>2. CASE m = n /\ i < Len(c)
    <3>1. i \in 1 .. Len(c) - 1 /\ i \in 1 .. Len(c) /\ i + 1 \in 1 .. Len(c)
      BY <2>0, <2>2, <1>2
    <3>2. r[i] = c[i] /\ r[i + 1] = c[i + 1]
      BY <3>1, <1>4
    <3> QED
      BY <2>2, <3>1, <3>2, <1>5 DEF ChainInv, ChainLinked
  <2>3. CASE m = n /\ i = Len(c)
    <3>1. i \in 1 .. Len(c)
      BY <2>0, <2>3
    <3>2. r[i] = c[Len(c)] /\ r[i + 1] = b
      BY <2>3, <3>1, <1>4
    <3> QED
      BY <2>3, <3>2, <1>2, <1>5
  <2>4. CASE m = n /\ i = Len(c) + 1
    <3>1. 1 \in 1 .. k
      BY <2>4, <1>2, <1>4, <1>5
    <3>2. r[i] = b /\ r[i + 1] = queue[b.index + 1]
      BY <2>4, <3>1, <1>2, <1>4
    <3> QED
      BY <2>4, <3>1, <3>2, <1>3, <1>5
  <2>5. CASE m = n /\ i > Len(c) + 1
    <3> DEFINE j == i - Len(c) - 1
    <3>1. j \in 1 .. k /\ j + 1 \in 1 .. k /\ j + 1 # 1
      BY <2>0, <2>5, <1>2
    <3>2. i = Len(c) + 1 + j /\ i + 1 = Len(c) + 1 + (j + 1)
      <4>1. i \in Nat /\ Len(c) \in Nat
        BY <2>0, <1>2
      <4> QED
        BY <4>1, Shift
    <3> HIDE DEF j
    <3>3. r[i] = queue[b.index + j] /\ r[i + 1] = queue[b.index + (j + 1)]
      BY <3>1, <3>2, <1>4
    <3>4. b.index + (j + 1) - 1 = b.index + j
      BY <3>1, <1>2
    <3>5. /\ queue[b.index + (j + 1)].index = b.index + (j + 1)
          /\ queue[b.index + j].index = b.index + j
          /\ queue[b.index + (j + 1)].prev = queue[b.index + j].hash
      BY <3>1, <3>4, <1>3
    <3>6. b.index + (j + 1) = (b.index + j) + 1
      <4>1. j \in Nat /\ b.index \in Nat
        BY <3>1, <1>2
      <4> QED
        BY <4>1, Shift
    <3>7. r[i + 1].prev = r[i].hash /\ r[i + 1].index = r[i].index + 1
      BY <3>3, <3>5, <3>6
    <3> QED
      BY <2>5, <3>7, <1>5
  <2> QED
    BY <2>0, <2>1, <2>2, <2>3, <2>4, <2>5, <1>2
<1>10. QueueAhead'
  <2> SUFFICES ASSUME NEW m \in Node, NEW i \in Index, pendingBlocks'[m][i] # NoBlock
               PROVE  pendingBlocks'[m][i].index = i /\ i > Tip(m)'.index + 1
    BY DEF QueueAhead
  <2>1. CASE m # n
    <3>1. pendingBlocks'[m] = pendingBlocks[m]
      BY <2>1, <1>1 DEF Appended, ChainInv, NodeTypeOK
    <3> QED
      BY <2>1, <3>1, <1>7 DEF ChainInv, QueueAhead
  <2>2. CASE m = n
    <3>1. pendingBlocks'[n] = [j \in Index |->
            IF j \in Dequeued(b, k) THEN NoBlock ELSE queue[j]]
      BY <1>1 DEF Appended, ChainInv, NodeTypeOK
    <3>2. i \notin Dequeued(b, k) /\ pendingBlocks'[n][i] = queue[i]
      BY <2>2, <3>1
    <3>3. queue[i].index = i /\ i > b.index
      BY <2>2, <3>2, <1>2 DEF ChainInv, QueueAhead
    <3>4. i \in Nat
      BY ChainAssumption DEF Index
    <3> QED
      BY <2>2, <3>2, <3>3, <3>4, <1>2, <1>6 DEF Dequeued
  <2> QED
    BY <2>1, <2>2
<1>11. AppliedInOrder' /\ AppliedBelowTip'
  <2>1. applied'[n] = Append(applied[n], b) /\ \A m \in Node \ {n} : applied'[m] = applied[m]
    BY DEF AppendBlock, ChainInv, NodeTypeOK
  <2>2. applied[n] \in Seq(Block)
    BY DEF ChainInv, NodeTypeOK
  <2>3. /\ Len(applied'[n]) = Len(applied[n]) + 1
        /\ \A i \in 1 .. Len(applied[n]) : applied'[n][i] = applied[n][i]
        /\ applied'[n][Len(applied[n]) + 1] = b
    BY <2>1, <2>2, AppendProperties
  <2>4. \A i \in 1 .. Len(applied[n]) :
          applied[n][i].index \in Nat /\ applied[n][i].index < b.index
    <3>1. \A i \in 1 .. Len(applied[n]) : applied[n][i] \in Block
      BY <2>2
    <3>2. \A i \in 1 .. Len(applied[n]) : applied[n][i].index \in Nat
      BY <3>1, BlockType
    <3>3. \A i \in 1 .. Len(applied[n]) : applied[n][i].index <= Tip(n).index
      BY DEF ChainInv, AppliedBelowTip
    <3> QED
      BY <3>2, <3>3, <1>2
  <2>5. Len(applied[n]) \in Nat
    BY <2>2
  <2>6. \A i, j \in 1 .. Len(applied'[n]) :
          i < j => applied'[n][i].index < applied'[n][j].index
    <3> SUFFICES ASSUME NEW i \in 1 .. Len(applied'[n]), NEW j \in 1 .. Len(applied'[n]),
                        i < j
                 PROVE  applied'[n][i].index < applied'[n][j].index
      OBVIOUS
    <3>1. i \in 1 .. Len(applied[n]) /\ applied'[n][i] = applied[n][i]
      BY <2>3, <2>5
    <3>2. CASE j \in 1 .. Len(applied[n])
      BY <2>3, <3>1, <3>2 DEF ChainInv, AppliedInOrder
    <3>3. CASE j = Len(applied[n]) + 1
      BY <2>3, <2>4, <3>1, <3>3
    <3> QED
      BY <2>3, <2>5, <3>2, <3>3
  <2>7. AppliedInOrder'
    BY <2>1, <2>6 DEF ChainInv, AppliedInOrder
  <2>8. \A i \in 1 .. Len(applied'[n]) : applied'[n][i].index <= Tip(n)'.index
    <3> SUFFICES ASSUME NEW i \in 1 .. Len(applied'[n])
                 PROVE  applied'[n][i].index <= b.index + k
      BY <1>6
    <3>1. CASE i \in 1 .. Len(applied[n])
      <4>1. applied'[n][i] = applied[n][i]
        BY <2>3, <3>1
      <4>2. applied[n][i].index \in Nat /\ applied[n][i].index < b.index
        BY <2>4, <3>1
      <4>3. b.index \in Nat /\ k \in Nat
        BY <1>2
      <4> QED
        BY <4>1, <4>2, <4>3
    <3>2. CASE i = Len(applied[n]) + 1
      BY <2>3, <3>2, <1>2
    <3> QED
      BY <2>3, <2>5, <3>1, <3>2
  <2>9. AppliedBelowTip'
    BY <2>1, <2>8, <1>7 DEF ChainInv, AppliedBelowTip
  <2> QED
    BY <2>7, <2>9
<1>12. Tip(n)'.index > Tip(n).index
  BY <1>2, <1>6
<1> QED
  BY <1>7, <1>8, <1>9, <1>10, <1>11, <1>12 DEF ChainInv

LEMMA AddBlockInv ==
  ASSUME ChainInv, NEW n \in Node, NEW b \in Block, AddBlock(n, b)
  PROVE  ChainInv'
<1>1. CASE IgnoreBlock(n, b) \/ handleFork(n, b)
  <2>1. /\ UNCHANGED <<chain, pendingTxs, pendingBlocks, applied, stored, reported>>
        /\ stuck' \in [Node -> BOOLEAN]
    BY <1>1 DEF IgnoreBlock, handleFork, nodeVars, ChainInv, NodeTypeOK
  <2> QED
    BY <2>1 DEF ChainInv, NodeTypeOK, ChainLinked, QueueAhead, AppliedInOrder,
                AppliedBelowTip, Tip
<1>2. CASE reorganizeToFork(n, b)
  BY <1>2, ReorganizeInv
<1>3. CASE QueueBlock(n, b)
  BY <1>3, QueueInv
<1>4. CASE AppendBlock(n, b)
  BY <1>4, AppendInv
<1> QED
  BY <1>1, <1>2, <1>3, <1>4 DEF AddBlock

LEMMA RestartInv ==
  ASSUME ChainInv, NEW n \in Node, Restart(n)
  PROVE  ChainInv'
<1> USE DEF Restart
<1>1. NodeTypeOK'
  <2>1. <<Genesis>> \in Seq(Block) \ {<<>>} /\ <<>> \in Seq(Block) /\ <<>> \in Seq(Tx)
    BY GenesisType
  <2> QED
    BY <2>1 DEF ChainInv, NodeTypeOK
<1>2. \A m \in Node \ {n} : chain'[m] = chain[m] /\ applied'[m] = applied[m]
                              /\ pendingBlocks'[m] = pendingBlocks[m] /\ Tip(m)' = Tip(m)
  BY DEF ChainInv, NodeTypeOK, Tip
<1>3. /\ Len(chain'[n]) = 1 /\ Len(applied'[n]) = 0
      /\ \A i \in Index : pendingBlocks'[n][i] = NoBlock
  BY DEF ChainInv, NodeTypeOK
<1>4. ChainLinked'
  <2> SUFFICES ASSUME NEW m \in Node, NEW i \in 1 .. Len(chain'[m]) - 1
               PROVE  /\ chain'[m][i + 1].prev = chain'[m][i].hash
                      /\ chain'[m][i + 1].index = chain'[m][i].index + 1
    BY DEF ChainLinked
  <2>1. m # n
    <3>1. 1 .. 1 - 1 = {}
      OBVIOUS
    <3> QED
      BY <1>3, <3>1
  <2> QED
    BY <1>2, <2>1 DEF ChainInv, ChainLinked
<1>5. QueueAhead'
  BY <1>2, <1>3 DEF ChainInv, QueueAhead
<1>6. AppliedInOrder' /\ AppliedBelowTip'
  BY <1>2, <1>3 DEF ChainInv, AppliedInOrder, AppliedBelowTip
<1> QED
  BY <1>1, <1>4, <1>5, <1>6 DEF ChainInv

\* A step that leaves the chain, the queue and the executed blocks alone.
LEMMA ChainUntouched ==
  ASSUME ChainInv, UNCHANGED <<chain, pendingBlocks, stuck, applied, stored, reported>>,
         pendingTxs' \in [Node -> Seq(Tx)]
  PROVE  ChainInv'
BY DEF ChainInv, NodeTypeOK, ChainLinked, QueueAhead, AppliedInOrder, AppliedBelowTip, Tip

LEMMA RequestsType ==
  ASSUME NodeTypeOK, NEW n \in Node, NEW b \in Block, NEW R \in SUBSET Node
  PROVE  RequestsFor(n, b, R) \subseteq Message
<1>1. Tip(n).index \in Nat /\ b.index \in Nat
  BY TipType, BlockType
<1>2. CASE b.index > Tip(n).index + 1
  <2>1. Tip(n).index + 1 \in Nat /\ b.index - 1 \in Nat
    BY <1>1, <1>2
  <2> QED
    BY <2>1, <1>2 DEF RequestsFor, SyncReq, Message
<1>3. CASE ~(b.index > Tip(n).index + 1)
  BY <1>3 DEF RequestsFor
<1> QED
  BY <1>2, <1>3

LEMMA ReachedType == TypeOK => \A n \in Node : \A R \in Reached(n) : R \in SUBSET Node
BY DEF Reached, TypeOK

LEMMA BlockMsgType ==
  ASSUME NEW to \in Node, NEW b \in Block
  PROVE  BlockMsg(to, b) \in Message
BY DEF BlockMsg, Message

Inv == TypeOK /\ ChainInv

LEMMA InitInv == Init => Inv
<1> SUFFICES ASSUME Init PROVE Inv
  OBVIOUS
<1> USE DEF Init
<1>1. <<Genesis>> \in Seq(Block) \ {<<>>} /\ <<>> \in Seq(Block) /\ <<>> \in Seq(Tx)
  BY GenesisType
<1>2. NodeTypeOK
  BY <1>1 DEF NodeTypeOK
<1>3. TypeOK
  BY <1>2, ChainAssumption DEF TypeOK
<1>4. Len(<<Genesis>>) = 1
  OBVIOUS
<1> QED
  BY <1>2, <1>3, <1>4 DEF Inv, ChainInv, ChainLinked, QueueAhead, AppliedInOrder, AppliedBelowTip

\* The mining loop's block, once there is one, is a block of the model.
LEMMA MinedType ==
  ASSUME TypeOK, NEW n \in Node, minerPc[n] \in {"mined", "sent"}
  PROVE  mined[n] \in Block
BY DEF TypeOK

LEMMA NextInv == Inv /\ [Next]_vars => Inv'
<1> SUFFICES ASSUME Inv, [Next]_vars PROVE Inv'
  OBVIOUS
<1>0. ChainInv /\ NodeTypeOK /\ TypeOK
  BY DEF Inv, ChainInv
<1>1. ASSUME NEW n \in Node, NEW t \in Tx, ReceiveTx(n, t)
      PROVE  Inv'
  <2>1. pendingTxs' \in [Node -> Seq(Tx)] /\ received' \in [Node -> SUBSET Tx]
    BY <1>0, <1>1 DEF ReceiveTx, TypeOK, NodeTypeOK
  <2>2. ChainInv'
    BY <1>0, <1>1, <2>1, ChainUntouched DEF ReceiveTx
  <2> QED
    BY <1>0, <1>1, <2>1, <2>2 DEF ReceiveTx, Inv, ChainInv, TypeOK, minerVars
<1>2. ASSUME NEW n \in Node, MiningTick(n) \/ DropMined(n)
      PROVE  Inv'
  <2>1. UNCHANGED nodeVars
    BY <1>2 DEF MiningTick, DropMined
  <2>2. ChainInv'
    BY <1>0, <2>1, ChainUntouched DEF nodeVars, NodeTypeOK
  <2>3. TypeOK'
    BY <1>0, <1>2, <2>2 DEF MiningTick, DropMined, TypeOK, ChainInv
  <2> QED
    BY <2>2, <2>3 DEF Inv
<1>3. ASSUME NEW n \in Node, MineBlock(n)
      PROVE  Inv'
  <2>1. ChainInv'
    BY <1>0, <1>3, ChainUntouched DEF MineBlock, nodeVars, NodeTypeOK
  <2>2. PICK h \in Hash \ used, s \in Stake :
          /\ used' = used \cup {h}
          /\ mined' = [mined EXCEPT ![n] =
               [hash |-> h, index |-> Len(chain[n]), prev |-> Tip(n).hash,
                stake |-> s, txs |-> pendingTxs[n]]]
    BY <1>3 DEF MineBlock
  <2> DEFINE b == [hash |-> h, index |-> Len(chain[n]), prev |-> Tip(n).hash,
                   stake |-> s, txs |-> pendingTxs[n]]
  <2>3. b \in Block
    <3>1. Len(chain[n]) \in Index
      BY <1>0, <1>3, TipType, ChainAssumption DEF MineBlock, Index
    <3>2. Tip(n).hash \in Hash \cup {0}
      BY <1>0, TipType, BlockType
    <3>3. pendingTxs[n] \in Seq(Tx)
      BY <1>0 DEF NodeTypeOK
    <3> QED
      BY <3>1, <3>2, <3>3 DEF Block
  <2>4. b # NoBlock
    BY <2>3, NoBlockAssumption
  <2> HIDE DEF b
  <2>5. /\ mined' = [mined EXCEPT ![n] = b]
        /\ minerPc' = [minerPc EXCEPT ![n] = "mined"]
        /\ UNCHANGED <<peers, received, broadcast, restarts, net>>
    BY <1>3, <2>2 DEF MineBlock, b
  <2>6. TypeOK'
    BY <1>0, <2>1, <2>2, <2>3, <2>4, <2>5 DEF TypeOK, ChainInv
  <2> QED
    BY <2>1, <2>6 DEF Inv
<1>4. ASSUME NEW n \in Node, BroadcastBlock(n)
      PROVE  Inv'
  <2>1. ChainInv'
    BY <1>0, <1>4, ChainUntouched DEF BroadcastBlock, nodeVars, NodeTypeOK
  <2>2. mined[n] \in Block
    BY <1>0, <1>4, MinedType DEF BroadcastBlock
  <2>3. net' \subseteq Message
    BY <1>0, <1>4, <2>2, ReachedType, BlockMsgType DEF BroadcastBlock, TypeOK, InFlight
  <2>4. TypeOK'
    BY <1>0, <1>4, <2>1, <2>3 DEF BroadcastBlock, TypeOK, ChainInv
  <2> QED
    BY <2>1, <2>4 DEF Inv
<1>5. ASSUME NEW n \in Node, AddMined(n)
      PROVE  Inv'
  <2>1. mined[n] \in Block
    BY <1>0, <1>5, MinedType DEF AddMined
  <2>2. ChainInv'
    BY <1>0, <1>5, <2>1, AddBlockInv DEF AddMined
  <2>3. net' \subseteq Message
    BY <1>0, <1>5, <2>1, ReachedType, RequestsType DEF AddMined, TypeOK, InFlight
  <2>4. TypeOK'
    BY <1>0, <1>5, <2>2, <2>3 DEF AddMined, TypeOK, ChainInv
  <2> QED
    BY <2>2, <2>4 DEF Inv
<1>6. ASSUME NEW n \in Node, NEW i \in Index, ReceiveBlock(n, i)
      PROVE  Inv'
  <2>1. PICK msg \in net :
          /\ msg.type = "block"
          /\ AddBlock(n, msg.block)
          /\ \E R \in Reached(n) : net' = (net \ {msg}) \cup RequestsFor(n, msg.block, R)
          /\ UNCHANGED <<peers, minerVars, received, used, broadcast, restarts>>
    BY <1>6 DEF ReceiveBlock, InFlight
  <2>2. msg.block \in Block
    BY <1>0, <2>1 DEF TypeOK, Message
  <2>3. ChainInv'
    BY <1>0, <2>1, <2>2, AddBlockInv
  <2>4. net' \subseteq Message
    BY <1>0, <2>1, <2>2, ReachedType, RequestsType DEF TypeOK
  <2>5. TypeOK'
    BY <1>0, <2>1, <2>3, <2>4 DEF TypeOK, ChainInv, minerVars
  <2> QED
    BY <2>3, <2>5 DEF Inv
<1>7. ASSUME NEW n \in Node, SyncChain(n)
      PROVE  Inv'
  <2>1. ChainInv'
    BY <1>0, <1>7, ChainUntouched DEF SyncChain, nodeVars, NodeTypeOK
  <2>2. Tip(n).index + 1 \in Nat /\ Tip(n).index + 100 \in Nat
    BY <1>0, TipType, BlockType
  <2>3. net' \subseteq Message
    <3>1. PICK R \in Reached(n) : net' = net \cup
            {SyncReq(n, p, Tip(n).index + 1, Tip(n).index + 100) : p \in R}
      BY <1>7 DEF SyncChain, InFlight
    <3>2. R \subseteq Node
      BY <1>0, ReachedType
    <3> QED
      BY <1>0, <3>1, <3>2, <2>2 DEF TypeOK, SyncReq, Message
  <2>4. TypeOK'
    BY <1>0, <1>7, <2>1, <2>3 DEF SyncChain, TypeOK, ChainInv, minerVars
  <2> QED
    BY <2>1, <2>4 DEF Inv
<1>8. ASSUME NEW n \in Node, AnswerSyncReq(n)
      PROVE  Inv'
  <2>1. ChainInv'
    BY <1>0, <1>8, ChainUntouched DEF AnswerSyncReq, nodeVars, NodeTypeOK
  <2>2. PICK msg \in net : \E S \in SUBSET InRange(n, msg.lo, msg.hi) :
          /\ msg.type = "syncReq"
          /\ net' = (net \ {msg}) \cup {BlockMsg(msg.from, b) : b \in S}
    BY <1>8 DEF AnswerSyncReq, InFlight
  <2>3. msg.from \in Node
    BY <1>0, <2>2 DEF TypeOK, Message
  <2>4. InRange(n, msg.lo, msg.hi) \subseteq Block
    <3>1. chain[n] \in Seq(Block)
      BY <1>0 DEF NodeTypeOK
    <3> QED
      BY <3>1 DEF InRange, BlocksOf
  <2>5. net' \subseteq Message
    BY <1>0, <2>2, <2>3, <2>4, BlockMsgType DEF TypeOK
  <2>6. TypeOK'
    BY <1>0, <1>8, <2>1, <2>5 DEF AnswerSyncReq, TypeOK, ChainInv, minerVars
  <2> QED
    BY <2>1, <2>6 DEF Inv
<1>9. ASSUME NEW n \in Node, Restart(n)
      PROVE  Inv'
  <2>1. ChainInv'
    BY <1>0, <1>9, RestartInv
  <2>2. restarts' \in 0 .. MaxRestarts
    BY <1>0, <1>9, ChainAssumption DEF Restart, TypeOK
  <2>3. peers' \in [Node -> SUBSET Node] /\ net' \subseteq Message
    BY <1>0, <1>9 DEF Restart, TypeOK
  <2>4. TypeOK'
    BY <1>0, <1>9, <2>1, <2>2, <2>3 DEF Restart, TypeOK, ChainInv
  <2> QED
    BY <2>1, <2>4 DEF Inv
<1>10. CASE UNCHANGED vars
  <2>1. ChainInv'
    BY <1>0, <1>10, ChainUntouched DEF vars, nodeVars, NodeTypeOK
  <2> QED
    BY <1>0, <1>10, <2>1 DEF Inv, ChainInv, TypeOK, vars, minerVars
<1> QED
  BY <1>1, <1>2, <1>3, <1>4, <1>5, <1>6, <1>7, <1>8, <1>9, <1>10 DEF Next
-----------------------------------------------------------------------------
\* Every node's state, and every message, keeps its type.
THEOREM ChainTyped == Spec => []TypeOK
<1>1. Inv => TypeOK
  BY DEF Inv
<1> QED
  BY <1>1, InitInv, NextInv, PTL DEF Spec

\* Whatever a node appends, drains or switches to, it holds one linked run of
\* blocks: AddBlock needs no check of its own to guarantee it.
THEOREM ChainIsLinked == Spec => []ChainLinked
<1>1. Inv => ChainLinked
  BY DEF Inv, ChainInv
<1> QED
  BY <1>1, InitInv, NextInv, PTL DEF Spec

\* The queue of future blocks holds nothing the chain has reached.
THEOREM QueueIsAhead == Spec => []QueueAhead
<1>1. Inv => QueueAhead
  BY DEF Inv, ChainInv
<1> QED
  BY <1>1, InitInv, NextInv, PTL DEF Spec

\* At most one block per height is executed, in order of height.
THEOREM ExecutionInOrder == Spec => []AppliedInOrder
<1>1. Inv => AppliedInOrder
  BY DEF Inv, ChainInv
<1> QED
  BY <1>1, InitInv, NextInv, PTL DEF Spec

LEMMA AddBlockImproves ==
  ASSUME ChainInv, NEW n \in Node, NEW b \in Block, AddBlock(n, b)
  PROVE  \A m \in Node : TipStep(m)
<1>1. CASE AppendBlock(n, b)
  BY <1>1, AppendInv DEF TipStep
<1>2. CASE reorganizeToFork(n, b)
  <2>1. Tip(n)' = b
    BY <1>2 DEF reorganizeToFork, ChainInv, NodeTypeOK, Tip
  <2>2. \A m \in Node \ {n} : Tip(m)' = Tip(m)
    BY <1>2 DEF reorganizeToFork, ChainInv, NodeTypeOK, Tip
  <2>3. Sibling(b, Tip(n)) /\ Better(b, Tip(n))
    BY <1>2 DEF reorganizeToFork
  <2> QED
    BY <2>1, <2>2, <2>3 DEF TipStep, Better, Outranks
<1>3. CASE IgnoreBlock(n, b) \/ handleFork(n, b) \/ QueueBlock(n, b)
  <2>1. chain' = chain
    BY <1>3 DEF IgnoreBlock, handleFork, QueueBlock, nodeVars
  <2> QED
    BY <2>1 DEF Tip, TipStep
<1> QED
  BY <1>1, <1>2, <1>3 DEF AddBlock

\* No step but a restart makes a node's tip worse: higher, or a sibling with
\* more stake or as much stake and a smaller hash.
THEOREM TipOnlyImproves == Spec => TipImproves
<1>1. ASSUME Inv, [Next]_vars, restarts' = restarts
      PROVE  \A m \in Node : TipStep(m)
  <2>1. ChainInv /\ TypeOK
    BY <1>1 DEF Inv
  <2>2. CASE chain' = chain
    BY <2>2 DEF TipStep, Tip
  <2>3. ASSUME NEW n \in Node, Restart(n)
        PROVE  FALSE
    <3>1. restarts \in Nat
      BY <2>1, ChainAssumption DEF TypeOK
    <3> QED
      BY <2>3, <3>1, <1>1 DEF Restart
  <2>4. ASSUME NEW n \in Node, AddMined(n)
        PROVE  \A m \in Node : TipStep(m)
    BY <2>1, <2>4, MinedType, AddBlockImproves DEF AddMined
  <2>5. ASSUME NEW n \in Node, NEW i \in Index, ReceiveBlock(n, i)
        PROVE  \A m \in Node : TipStep(m)
    <3>1. PICK msg \in net : msg.type = "block" /\ AddBlock(n, msg.block)
      BY <2>5 DEF ReceiveBlock
    <3>2. msg.block \in Block
      BY <2>1, <3>1 DEF TypeOK, Message
    <3> QED
      BY <2>1, <3>1, <3>2, AddBlockImproves
  <2>6. chain' = chain \/ (\E n \in Node : Restart(n) \/ AddMined(n)
                             \/ \E i \in Index : ReceiveBlock(n, i))
    BY <1>1 DEF Next, vars, nodeVars, ReceiveTx, MiningTick, MineBlock, BroadcastBlock,
                DropMined, SyncChain, AnswerSyncReq
  <2> QED
    BY <2>2, <2>3, <2>4, <2>5, <2>6
<1>2. Inv /\ [Next]_vars => [restarts' = restarts => \A n \in Node : TipStep(n)]_vars
  BY <1>1
<1> QED
  BY <1>2, InitInv, NextInv, PTL DEF Spec, TipImproves
-----------------------------------------------------------------------------
(***************************************************************************)
(* That the fork choice settles. The history variable "broadcast" says     *)
(* whose block a block is; ForkState says what a node's own blocks tell of *)
(* its tip, and Heard what a block of the other node does.                 *)
(*                                                                         *)
(* The difficulty is that a node that takes a better sibling for its whole *)
(* chain numbers its next blocks by the length of that chain: they are     *)
(* numbered too low, go out all the same, and can push a good block of the *)
(* same number out of the other node's queue. A block is good when it is   *)
(* numbered one above its parent. A node makes good blocks until it        *)
(* reorganises and bad ones ever after, so it makes one good block per     *)
(* height (OneGood), and once it has made a bad one that could do harm its *)
(* tip is never again a block of its own (BadBlocks): of two sibling tips  *)
(* the better one is then always a block that the other node must have     *)
(* kept, beaten or turned down for good (HeardOf).                         *)
(***************************************************************************)

\* The blocks known to the network: the genesis block and what was broadcast.
Known == {Genesis} \cup UNION {broadcast[n] : n \in Node}

Making(n) == minerPc[n] \in {"mined", "sent"}

\* A block numbered one above its parent, as MineBlock does until the node has
\* taken a single block for its whole chain.
Good(x) == \E p \in Known : p.hash = x.prev /\ x.index = p.index + 1

Reorged(n) == chain[n][1] # Genesis

\* t is p, or what a tip at p may have become.
Beats(t, p) ==
  \/ t = p
  \/ t.index > p.index
  \/ Sibling(t, p) /\ Better(t, p)

HashesUnique ==
  /\ \A x, y \in Known : x.hash = y.hash => x = y
  /\ \A x \in Known : x.hash \in used \cup {0}
  /\ \A n \in Node : \A x \in broadcast[n] : x.hash # 0 /\ x.index >= 1
  /\ \A n, m \in Node : n # m => broadcast[n] \cap broadcast[m] = {}
  /\ \A n \in Node : Making(n) => mined[n].hash \in used
  /\ \A n \in Node : minerPc[n] = "mined" =>
       /\ \A x \in Known : x.hash # mined[n].hash
       /\ \A m \in Node \ {n} : Making(m) => mined[m].hash # mined[n].hash
  /\ \A n \in Node : minerPc[n] = "sent" => mined[n] \in broadcast[n]

Parented ==
  /\ \A n \in Node : \A x \in broadcast[n] : \E p \in Known : p.hash = x.prev
  /\ \A n \in Node : Making(n) =>
       mined[n].index >= 1 /\ \E p \in Known : p.hash = mined[n].prev

Circulating ==
  /\ \A n \in Node : \A i \in 1 .. Len(chain[n]) : chain[n][i] \in Known
  /\ \A n \in Node : \A i \in Index : pendingBlocks[n][i] \in Known \cup {NoBlock}
  /\ \A msg \in net : msg.type = "block" => msg.block \in Known

Numbered ==
  \A n \in Node :
    /\ Tip(n).index = chain[n][1].index + Len(chain[n]) - 1
    /\ Reorged(n) => chain[n][1].index >= 1

TipGood == \A n \in Node : Tip(n) = Genesis \/ Good(Tip(n))

\* The block n is making on the parent p.
MinerOf(n, p) ==
  /\ Beats(Tip(n), p)
  /\ mined[n].index <= p.index + 1
  /\ mined[n].index = p.index + 1 =>
       /\ Tip(n) = p => ~Reorged(n)
       /\ Tip(n).index = p.index /\ Tip(n) # p => Reorged(n)
  /\ mined[n].index <= p.index =>
       /\ Reorged(n)
       /\ minerPc[n] = "mined" /\ mined[n].index > 1 /\ Tip(n) = p => p \notin broadcast[n]

MinerInv ==
  \A n \in Node : \A p \in Known : Making(n) /\ p.hash = mined[n].prev => MinerOf(n, p)

\* The block x that n broadcast, on the parent p.
OwnOf(n, x, p) ==
  /\ Beats(Tip(n), p)
  /\ x.index <= p.index + 1
  /\ x.index = p.index + 1 =>
       /\ Tip(n) = p => ~Reorged(n) /\ minerPc[n] = "sent" /\ mined[n] = x
       /\ Tip(n).index = p.index /\ Tip(n) # p => Reorged(n)
       /\ Tip(n).index = x.index /\ Tip(n).prev = x.prev =>
            Tip(n) = x \/ Better(Tip(n), x) \/ (minerPc[n] = "sent" /\ mined[n] = x)

Own ==
  \A n \in Node : \A x \in broadcast[n] : \A p \in Known : p.hash = x.prev => OwnOf(n, x, p)

OneGood ==
  \A n \in Node : \A x, y \in broadcast[n] :
    Good(x) /\ Good(y) /\ x.index = y.index => x = y

OwnTipAlone ==
  \A n \in Node : Reorged(n) /\ Tip(n) \in broadcast[n] => Len(chain[n]) = 1

BadOf(n, z) ==
  /\ Reorged(n)
  /\ z.index > 1 => Tip(n) \notin broadcast[n]
  /\ minerPc[n] = "sent" => ~Good(mined[n])

BadBlocks == \A n \in Node : \A z \in broadcast[n] : ~Good(z) => BadOf(n, z)

HeardOf(m, x, p) ==
  \/ Tip(m).index > x.index
  \/ Tip(m).index = x.index /\ (Tip(m).prev = x.prev => Tip(m) = x \/ Better(Tip(m), x))
  \/ Tip(m).index = p.index /\ (Tip(m) = p => Reorged(m))
  \/ Tip(m).index < p.index /\ pendingBlocks[m][x.index] = x

Delivered(n, m, x) ==
  /\ BlockMsg(m, x) \notin net
  /\ ~stuck[m]
  /\ \A z \in broadcast[n] : z.index = x.index /\ x.index > 1 => Good(z)

Heard ==
  \A n, m \in Node : \A x \in broadcast[n] : \A p \in Known :
    /\ n # m /\ m \in peers[n] /\ p.hash = x.prev /\ x.index = p.index + 1
    /\ Delivered(n, m, x)
    => HeardOf(m, x, p)

ForkState ==
  /\ HashesUnique /\ Parented /\ Circulating
  /\ Numbered /\ TipGood
  /\ MinerInv /\ Own /\ OneGood /\ OwnTipAlone /\ BadBlocks

TwoNodes == ~Lossy /\ \A n, m \in Node : n # m => Node = {n, m}

ForkInv == restarts = 0 => ForkState /\ (TwoNodes => Heard)
-----------------------------------------------------------------------------
LEMMA KnownType ==
  ASSUME TypeOK
  PROVE  /\ Known \subseteq Block
         /\ Genesis \in Known
         /\ \A n \in Node : broadcast[n] \subseteq Known
BY GenesisType DEF TypeOK, Known

LEMMA KnownCases ==
  ASSUME NEW x \in Known, x # Genesis
  PROVE  \E n \in Node : x \in broadcast[n]
BY DEF Known

LEMMA KnownMember ==
  ASSUME TypeOK, NEW x \in Known
  PROVE  /\ x \in Block /\ x.hash \in Nat /\ x.index \in Nat /\ x.index \in Index
         /\ x.prev \in Nat /\ x.stake \in Nat /\ x # NoBlock
BY KnownType, BlockType

LEMMA KnownIndex ==
  ASSUME TypeOK, HashesUnique, NEW x \in Known, x # Genesis
  PROVE  x.hash # 0 /\ x.index >= 1
BY KnownCases DEF HashesUnique

LEMMA TipKnown ==
  ASSUME TypeOK, Circulating, NEW n \in Node
  PROVE  /\ Tip(n) \in Known /\ Tip(n) \in Block
         /\ Tip(n).hash \in Nat /\ Tip(n).index \in Nat /\ Tip(n).stake \in Nat
         /\ chain[n][1] \in Known /\ chain[n][1].index \in Nat
         /\ chain[n] \in Seq(Block) /\ Len(chain[n]) \in Nat /\ Len(chain[n]) >= 1
<1>1. /\ chain[n] \in Seq(Block) /\ Len(chain[n]) \in Nat /\ Len(chain[n]) >= 1
  BY TipType DEF TypeOK
<1>2. 1 \in 1 .. Len(chain[n]) /\ Len(chain[n]) \in 1 .. Len(chain[n])
  BY <1>1
<1>3. Tip(n) \in Known /\ chain[n][1] \in Known
  BY <1>2 DEF Circulating, Tip
<1> QED
  BY <1>1, <1>3, KnownMember

LEMMA BetterFacts ==
  ASSUME NEW a \in Block, NEW b \in Block, NEW c \in Block
  PROVE  /\ Better(a, b) /\ Better(b, c) => Better(a, c)
         /\ ~(Better(a, b) /\ Better(b, a))
         /\ Sibling(a, b) => Better(a, b) \/ Better(b, a)
<1>1. /\ a.stake \in Nat /\ b.stake \in Nat /\ c.stake \in Nat
      /\ a.hash \in Nat /\ b.hash \in Nat /\ c.hash \in Nat
  BY BlockType
<1> QED
  BY <1>1 DEF Better, Sibling

LEMMA BeatsFacts ==
  ASSUME NEW a \in Block, NEW b \in Block, NEW c \in Block, a.hash = c.hash => a = c
  PROVE  /\ Beats(a, b) /\ Beats(b, c) => Beats(a, c)
         /\ Beats(a, b) /\ Beats(b, a) => a = b
         /\ Beats(a, b) => a.index >= b.index
         /\ Beats(a, b) /\ a.index = b.index => a = b \/ (Sibling(a, b) /\ Better(a, b))
<1>1. /\ a.stake \in Nat /\ b.stake \in Nat /\ c.stake \in Nat
      /\ a.hash \in Nat /\ b.hash \in Nat /\ c.hash \in Nat
      /\ a.index \in Nat /\ b.index \in Nat /\ c.index \in Nat
  BY BlockType
<1> QED
  BY <1>1 DEF Better, Sibling, Beats

\* Nothing that AddBlock reads of a node's state changes but at node n.
LEMMA AddBlockElsewhere ==
  ASSUME ChainInv, NEW n \in Node, NEW b \in Block, AddBlock(n, b), NEW m \in Node, m # n
  PROVE  /\ chain'[m] = chain[m] /\ pendingBlocks'[m] = pendingBlocks[m]
         /\ stuck'[m] = stuck[m] /\ Tip(m)' = Tip(m) /\ Reorged(m)' = Reorged(m)
<1>1. /\ chain'[m] = chain[m] /\ pendingBlocks'[m] = pendingBlocks[m]
      /\ stuck'[m] = stuck[m]
  <2>1. CASE IgnoreBlock(n, b)
    BY <2>1 DEF IgnoreBlock, nodeVars
  <2>2. CASE reorganizeToFork(n, b)
    BY <2>2 DEF reorganizeToFork, ChainInv, NodeTypeOK
  <2>3. CASE handleFork(n, b)
    BY <2>3 DEF handleFork, ChainInv, NodeTypeOK
  <2>4. CASE QueueBlock(n, b)
    BY <2>4 DEF QueueBlock, ChainInv, NodeTypeOK
  <2>5. CASE AppendBlock(n, b)
    <3>1. PICK k \in 0 .. MaxIndex : Appended(n, b, k)
      BY <2>5, AppendShape
    <3> QED
      BY <2>5, <3>1 DEF Appended, AppendBlock, ChainInv, NodeTypeOK
  <2> QED
    BY <2>1, <2>2, <2>3, <2>4, <2>5 DEF AddBlock
<1> QED
  BY <1>1 DEF Tip, Reorged

\* What the fork choice sees of a block appended at node n.
Grows(n, b) ==
  /\ b.index = Tip(n).index + 1 /\ b.prev = Tip(n).hash
  /\ chain'[n][1] = chain[n][1]
  /\ Len(chain'[n]) = Len(chain[n]) + (Tip(n)'.index - Tip(n).index)
  /\ Tip(n)'.index \in Nat /\ Tip(n)'.index >= b.index
  /\ Tip(n)'.index = b.index => Tip(n)' = b
  /\ Tip(n)'.index > b.index =>
       Tip(n)'.index \in Index /\ Tip(n)' = pendingBlocks[n][Tip(n)'.index]
  /\ \A i \in Index :
       /\ pendingBlocks'[n][i] \in {pendingBlocks[n][i], NoBlock}
       /\ i > Tip(n)'.index + 1 => pendingBlocks'[n][i] = pendingBlocks[n][i]
       /\ i = Tip(n)'.index + 1 =>
            pendingBlocks[n][i] = NoBlock \/ pendingBlocks[n][i].prev # Tip(n)'.hash

LEMMA AppendGrows ==
  ASSUME ChainInv, NEW n \in Node, NEW b \in Block, AppendBlock(n, b)
  PROVE  Grows(n, b)
<1> DEFINE c == chain[n]
           queue == pendingBlocks[n]
<1>1. PICK k \in 0 .. MaxIndex : Appended(n, b, k)
  BY AppendShape
<1>2. /\ k \in Nat /\ b.index \in Nat /\ MaxIndex \in Nat
      /\ b.index = Tip(n).index + 1 /\ b.prev = Tip(n).hash
      /\ Tip(n).index \in Nat
      /\ Len(c) \in Nat /\ Len(c) >= 1 /\ Tip(n) = c[Len(c)]
  BY BlockType, TipType, ChainAssumption DEF ChainInv, AppendBlock, Tip
<1>3. Tip(n)'.index = b.index + k
  BY <1>1 DEF Appended
<1>4. Len(chain'[n]) = Len(c) + 1 + k /\ chain'[n][1] = c[1]
  <2>1. 1 \in 1 .. Len(c)
    BY <1>2
  <2> QED
    BY <1>1, <2>1 DEF Appended
<1>5. Tip(n)' = chain'[n][Len(chain'[n])]
  BY <1>1 DEF Appended
<1>6. k = 0 => Tip(n)' = b
  BY <1>1, <1>2, <1>4, <1>5 DEF Appended
<1>7. k > 0 => Tip(n)' = queue[b.index + k]
  <2>1. k > 0 => k \in 1 .. k
    BY <1>2
  <2> QED
    BY <1>1, <1>2, <1>4, <1>5, <2>1 DEF Appended
<1>8. b.index + k \in Index
  BY <1>1 DEF Appended, LinkedRun
<1>9. pendingBlocks'[n] = [i \in Index |-> IF i \in Dequeued(b, k) THEN NoBlock ELSE queue[i]]
  BY <1>1 DEF Appended, ChainInv, NodeTypeOK
<1>10. \A i \in Index :
        /\ pendingBlocks'[n][i] \in {queue[i], NoBlock}
        /\ i > b.index + k + 1 => pendingBlocks'[n][i] = queue[i]
  BY <1>2, <1>9 DEF Dequeued, Index
<1>11. ASSUME b.index + k + 1 \in Index
       PROVE  queue[b.index + k + 1] = NoBlock \/ queue[b.index + k + 1].prev # Tip(n)'.hash
  <2>1. /\ LinkedRun(n, b, k) /\ ~LinkedRun(n, b, k + 1)
    BY <1>1 DEF Appended
  <2>2. b.index + (k + 1) = b.index + k + 1
    <3>1. b.index \in Nat /\ k \in Nat
      BY <1>2
    <3> QED
      BY <3>1
  <2>3. PICK i \in 1 .. k + 1 :
          ~(/\ queue[b.index + i] # NoBlock
            /\ queue[b.index + i].prev = IF i = 1 THEN b.hash ELSE queue[b.index + i - 1].hash)
    BY <1>11, <2>1, <2>2 DEF LinkedRun
  <2>4. i = k + 1
    <3>1. i \notin 1 .. k
      BY <2>1, <2>3 DEF LinkedRun
    <3> QED
      BY <3>1, <1>2
  <2>5. b.index + i - 1 = b.index + k /\ (i = 1 <=> k = 0)
    BY <2>4, <1>2
  <2>6. Tip(n)'.hash = IF i = 1 THEN b.hash ELSE queue[b.index + i - 1].hash
    <3>1. k = 0 \/ k > 0
      BY <1>2
    <3> QED
      BY <3>1, <2>5, <1>6, <1>7
  <2>7. b.index + i = b.index + k + 1
    BY <2>2, <2>4
  <2> QED
    BY <2>3, <2>6, <2>7
<1>12. ASSUME NEW i \in Index
       PROVE  /\ pendingBlocks'[n][i] \in {queue[i], NoBlock}
              /\ i > Tip(n)'.index + 1 => pendingBlocks'[n][i] = queue[i]
              /\ i = Tip(n)'.index + 1 => queue[i] = NoBlock \/ queue[i].prev # Tip(n)'.hash
  BY <1>3, <1>10, <1>11
<1>13. /\ Len(chain'[n]) = Len(c) + (Tip(n)'.index - Tip(n).index)
       /\ Tip(n)'.index \in Nat /\ Tip(n)'.index >= b.index
       /\ Tip(n)'.index = b.index => Tip(n)' = b
       /\ Tip(n)'.index > b.index => Tip(n)'.index \in Index /\ Tip(n)' = queue[Tip(n)'.index]
  BY <1>2, <1>3, <1>4, <1>6, <1>7, <1>8
<1> QED
  BY <1>2, <1>4, <1>12, <1>13 DEF Grows
-----------------------------------------------------------------------------
\* The tip of n becomes b, a better sibling of it, and b is the whole chain.
Swaps(n, b) ==
  /\ Sibling(b, Tip(n)) /\ Better(b, Tip(n))
  /\ chain'[n] = <<b>> /\ Tip(n)' = b
  /\ pendingBlocks' = pendingBlocks /\ stuck' = stuck

Stays(n) == chain' = chain /\ Tip(n)' = Tip(n)

LEMMA AddBlockCases ==
  ASSUME ChainInv, NEW n \in Node, NEW b \in Block, AddBlock(n, b)
  PROVE  Stays(n) \/ Swaps(n, b) \/ Grows(n, b)
<1>1. CASE IgnoreBlock(n, b) \/ handleFork(n, b) \/ QueueBlock(n, b)
  BY <1>1 DEF IgnoreBlock, handleFork, QueueBlock, nodeVars, Stays, Tip
<1>2. CASE reorganizeToFork(n, b)
  <2>1. chain'[n] = <<b>>
    BY <1>2 DEF reorganizeToFork, ChainInv, NodeTypeOK
  <2>2. Tip(n)' = b
    BY <2>1 DEF Tip
  <2> QED
    BY <1>2, <2>1, <2>2 DEF reorganizeToFork, Swaps
<1>3. CASE AppendBlock(n, b)
  BY <1>3, AppendGrows
<1> QED
  BY <1>1, <1>2, <1>3 DEF AddBlock

LEMMA KnownSame ==
  ASSUME broadcast' = broadcast
  PROVE  Known' = Known /\ \A x : Good(x)' = Good(x)
BY DEF Known, Good

LEMMA PastTip ==
  ASSUME NEW i \in Nat, NEW l \in Nat, NEW k \in Nat, i > l + 1, i <= l + 1 + k
  PROVE  i - l - 1 \in 1 .. k /\ i = l + 1 + (i - l - 1)
OBVIOUS

LEMMA HigherTip ==
  ASSUME NEW f \in Nat, NEW l \in Nat, NEW t \in Nat, NEW u \in Nat, t = f + l - 1
  PROVE  u = f + (l + (u - t)) - 1
OBVIOUS

\* AddBlock moves blocks between the message, the queue and the chain.
LEMMA AddCirculates ==
  ASSUME ChainInv, TypeOK, Circulating, NEW n \in Node, NEW b \in Known, AddBlock(n, b),
         broadcast' = broadcast, NEW m \in Node
  PROVE  /\ \A i \in 1 .. Len(chain'[m]) : chain'[m][i] \in Known
         /\ \A i \in Index : pendingBlocks'[m][i] \in Known \cup {NoBlock}
<1>0. b \in Block
  BY KnownMember
<1>1. CASE m # n
  BY <1>0, <1>1, AddBlockElsewhere DEF Circulating
<1>2. CASE m = n /\ (IgnoreBlock(n, b) \/ handleFork(n, b))
  BY <1>2 DEF IgnoreBlock, handleFork, nodeVars, Circulating
<1>3. CASE m = n /\ reorganizeToFork(n, b)
  <2>1. chain'[n] = <<b>> /\ Len(<<b>>) = 1
    BY <1>3 DEF reorganizeToFork, ChainInv, NodeTypeOK
  <2>2. \A i \in 1 .. 1 : <<b>>[i] = b
    OBVIOUS
  <2> QED
    BY <1>3, <2>1, <2>2 DEF reorganizeToFork, Circulating
<1>4. CASE m = n /\ QueueBlock(n, b)
  <2>1. \A i \in Index : pendingBlocks'[n][i] \in {pendingBlocks[n][i], b}
    BY <1>4 DEF QueueBlock, ChainInv, NodeTypeOK
  <2> QED
    BY <1>4, <2>1 DEF QueueBlock, Circulating
<1>5. CASE m = n /\ AppendBlock(n, b)
  <2>1. PICK k \in 0 .. MaxIndex : Appended(n, b, k)
    BY <1>0, <1>5, AppendShape
  <2>2. k \in Nat /\ b.index \in Nat /\ MaxIndex \in Nat /\ Len(chain[n]) \in Nat
    BY KnownMember, TipKnown, ChainAssumption
  <2>3. ASSUME NEW i \in 1 .. Len(chain'[n])
        PROVE  chain'[n][i] \in Known
    <3>1. CASE i \in 1 .. Len(chain[n])
      BY <2>1, <3>1 DEF Appended, Circulating
    <3>2. CASE i = Len(chain[n]) + 1
      BY <2>1, <3>2 DEF Appended
    <3>3. CASE i > Len(chain[n]) + 1
      <4> DEFINE j == i - Len(chain[n]) - 1
      <4>0. Len(chain'[n]) = Len(chain[n]) + 1 + k
        BY <2>1 DEF Appended
      <4>5. i \in Nat /\ i <= Len(chain[n]) + 1 + k
        BY <2>2, <4>0
      <4>1. j \in 1 .. k /\ i = Len(chain[n]) + 1 + j
        BY <2>2, <3>3, <4>5, PastTip
      <4> HIDE DEF j
      <4>2. chain'[n][i] = pendingBlocks[n][b.index + j] /\ pendingBlocks[n][b.index + j] # NoBlock
        BY <2>1, <4>1, BlockType DEF Appended
      <4>3. b.index + k \in Index
        BY <2>1 DEF Appended, LinkedRun
      <4>4. b.index + j \in Index
        BY <2>2, <4>1, <4>3 DEF Index
      <4> QED
        BY <4>2, <4>4 DEF Circulating
    <3> QED
      BY <2>1, <2>2, <3>1, <3>2, <3>3 DEF Appended
  <2>4. \A i \in Index : pendingBlocks'[n][i] \in {pendingBlocks[n][i], NoBlock}
    BY <1>0, <1>5, AppendGrows DEF Grows
  <2> QED
    BY <1>5, <2>3, <2>4 DEF Circulating
<1> QED
  BY <1>1, <1>2, <1>3, <1>4, <1>5 DEF AddBlock

\* A block of its own never waits in a node's queue: it is at most one above the
\* tip.
LEMMA OwnNotAhead ==
  ASSUME TypeOK, ForkState, NEW n \in Node, NEW x \in broadcast[n]
  PROVE  /\ x.index <= Tip(n).index + 1
         /\ x.index = Tip(n).index + 1 /\ x.prev = Tip(n).hash =>
              ~Reorged(n) /\ minerPc[n] = "sent" /\ mined[n] = x
<1>1. PICK p \in Known : p.hash = x.prev
  BY DEF ForkState, Parented
<1>2. x \in Known /\ x \in Block /\ x.index \in Nat /\ p \in Block /\ p.index \in Nat
  BY KnownType, KnownMember
<1>3. Tip(n) \in Known /\ Tip(n).index \in Nat /\ Tip(n) \in Block
  BY TipKnown DEF ForkState
<1>4. OwnOf(n, x, p)
  BY <1>1 DEF ForkState, Own
<1>5. Tip(n).index >= p.index
  BY <1>2, <1>3, <1>4, BeatsFacts DEF OwnOf, Beats, Sibling
<1>6. Tip(n).hash = x.prev => Tip(n) = p
  BY <1>1, <1>3 DEF ForkState, HashesUnique
<1> QED
  BY <1>2, <1>3, <1>4, <1>5, <1>6 DEF OwnOf

\* A node that has reorganised does not append a block of its own any more.
LEMMA GrowsForeign ==
  ASSUME ChainInv, TypeOK, ForkState, NEW n \in Node, NEW b \in Known, Grows(n, b), Reorged(n)
  PROVE  Tip(n)' \notin broadcast[n]
<1> SUFFICES ASSUME Tip(n)' \in broadcast[n] PROVE FALSE
  OBVIOUS
<1>1. Tip(n).index \in Nat /\ b.index = Tip(n).index + 1 /\ b.prev = Tip(n).hash
  BY TipKnown DEF ForkState, Grows
<1>2. CASE Tip(n)'.index = b.index
  <2>1. Tip(n)' = b
    BY <1>2 DEF Grows
  <2> QED
    BY <1>1, <2>1, OwnNotAhead
<1>3. CASE Tip(n)'.index > b.index
  <2> DEFINE x == Tip(n)'
  <2>1. x.index \in Index /\ x = pendingBlocks[n][x.index]
    BY <1>3 DEF Grows
  <2>2. x.index <= Tip(n).index + 1 /\ x.index \in Nat
    BY OwnNotAhead, KnownType, KnownMember
  <2> QED
    BY <1>1, <1>3, <2>2
<1> QED
  BY <1>1, <1>2, <1>3 DEF Grows
-----------------------------------------------------------------------------
\* The tip only moves to what beats it; a parent p that the tip beat before it
\* still beats, and it is p only if it has not moved.
LEMMA AddTip ==
  ASSUME ChainInv, TypeOK, ForkState, NEW n \in Node, NEW b \in Known, AddBlock(n, b),
         broadcast' = broadcast
  PROVE  /\ Tip(n)' \in Known /\ Tip(n)' \in Block /\ Tip(n)'.index \in Nat
         /\ Beats(Tip(n)', Tip(n))
         /\ Reorged(n) => Reorged(n)'
         /\ Swaps(n, b) => Reorged(n)'
         /\ \A p \in Known : Beats(Tip(n), p) =>
              /\ Beats(Tip(n)', p)
              /\ Tip(n)' = p => Tip(n) = p /\ Reorged(n)' = Reorged(n) /\ Stays(n)
              /\ Tip(n)'.index = p.index /\ Tip(n)' # p =>
                   Tip(n).index = p.index /\ (Tip(n) # p \/ Reorged(n)')
<1>0. b \in Block /\ Tip(n) \in Known /\ Tip(n) \in Block /\ Tip(n).index \in Nat
      /\ b.index \in Nat
  BY KnownMember, TipKnown DEF ForkState
<1>1. Tip(n)' \in Known
  <2>1. ChainInv'
    BY <1>0, AddBlockInv
  <2>2. Len(chain'[n]) \in 1 .. Len(chain'[n])
    <3>1. chain'[n] \in Seq(Block) \ {<<>>}
      BY <2>1 DEF ChainInv, NodeTypeOK
    <3> QED
      BY <3>1
  <2> QED
    BY <2>2, AddCirculates DEF Tip, ForkState
<1>2. Tip(n)' \in Block /\ Tip(n)'.index \in Nat
  BY <1>1, KnownMember
<1>3. Stays(n) \/ Swaps(n, b) \/ Grows(n, b)
  BY <1>0, AddBlockCases
<1>4. Beats(Tip(n)', Tip(n))
  BY <1>0, <1>2, <1>3 DEF Stays, Swaps, Grows, Beats
<1>5. Swaps(n, b) => Reorged(n)'
  <2> SUFFICES ASSUME Swaps(n, b) PROVE b # Genesis
    BY DEF Swaps, Reorged
  <2>1. b.index = Tip(n).index /\ b.hash # Tip(n).hash
    BY DEF Swaps, Sibling
  <2>2. CASE Tip(n) = Genesis
    BY <2>1, <2>2
  <2>3. CASE Tip(n) # Genesis
    BY <1>0, <2>1, <2>3, KnownIndex, GenesisType DEF ForkState
  <2> QED
    BY <2>2, <2>3
<1>6. Reorged(n) => Reorged(n)'
  BY <1>3, <1>5 DEF Stays, Grows, Reorged
<1>7. \A x, y \in Known : x.hash = y.hash => x = y
  BY DEF ForkState, HashesUnique
<1>8. ASSUME NEW p \in Known, Beats(Tip(n), p)
      PROVE  /\ Beats(Tip(n)', p)
             /\ Tip(n)' = p => Tip(n) = p /\ Reorged(n)' = Reorged(n) /\ Stays(n)
             /\ Tip(n)'.index = p.index /\ Tip(n)' # p =>
                  Tip(n).index = p.index /\ (Tip(n) # p \/ Reorged(n)')
  <2>1. p \in Block /\ p.index \in Nat
    BY KnownMember
  <2>2. Beats(Tip(n)', p)
    BY <1>0, <1>1, <1>2, <1>4, <1>7, <1>8, <2>1, BeatsFacts
  <2>3. ASSUME Tip(n)' = p
        PROVE  Tip(n) = p /\ Reorged(n)' = Reorged(n) /\ Stays(n)
    <3>1. Tip(n) = p
      BY <1>0, <1>4, <1>8, <2>1, <2>3, BeatsFacts
    <3>2. Stays(n)
      BY <1>0, <1>3, <2>3, <3>1 DEF Swaps, Grows, Sibling
    <3> QED
      BY <3>1, <3>2 DEF Stays, Reorged
  <2>4. ASSUME Tip(n)'.index = p.index, Tip(n)' # p
        PROVE  Tip(n).index = p.index /\ (Tip(n) # p \/ Reorged(n)')
    <3>1. Tip(n).index = p.index
      <4>1. Tip(n)'.index >= Tip(n).index
        BY <1>0, <1>2, <1>4 DEF Beats, Sibling
      <4>2. Tip(n).index >= p.index
        BY <1>0, <1>8, <2>1 DEF Beats, Sibling
      <4> QED
        BY <1>0, <1>2, <2>1, <2>4, <4>1, <4>2
    <3>2. ASSUME Tip(n) = p
          PROVE  Swaps(n, b)
      BY <1>0, <1>2, <1>3, <2>4, <3>1, <3>2 DEF Stays, Grows
    <3> QED
      BY <3>1, <3>2, <1>5
  <2> QED
    BY <2>2, <2>3, <2>4
<1> QED
  BY <1>1, <1>2, <1>4, <1>5, <1>6, <1>8

\* A node's own good block on the parent p, after the node has added a block.
LEMMA AddOwn ==
  ASSUME ChainInv, TypeOK, ForkState, NEW n \in Node, NEW b \in Known, AddBlock(n, b),
         broadcast' = broadcast, NEW x \in broadcast[n], NEW p \in Known, p.hash = x.prev,
         \/ minerPc'[n] = minerPc[n] /\ mined'[n] = mined[n]
         \/ minerPc'[n] = "idle" /\ b = mined[n]
  PROVE  OwnOf(n, x, p)'
<1>0. /\ b \in Block /\ Tip(n) \in Known /\ Tip(n) \in Block /\ Tip(n).index \in Nat
      /\ b.index \in Nat /\ x \in Known /\ x \in Block /\ x.index \in Nat
      /\ p \in Block /\ p.index \in Nat
  BY KnownMember, TipKnown, KnownType DEF ForkState
<1>1. OwnOf(n, x, p)
  BY DEF ForkState, Own
<1>2. Beats(Tip(n), p) /\ x.index <= p.index + 1
  BY <1>1 DEF OwnOf
<1>3. Stays(n) \/ Swaps(n, b) \/ Grows(n, b)
  BY <1>0, AddBlockCases
<1>4. Beats(Tip(n)', p)
  BY <1>2, AddTip
<1>5. ASSUME x.index = p.index + 1, Tip(n)' = p
      PROVE  ~Reorged(n)' /\ minerPc'[n] = "sent" /\ mined'[n] = x
  <2>1. Tip(n) = p /\ Reorged(n)' = Reorged(n) /\ Stays(n)
    BY <1>2, <1>5, AddTip
  <2>2. ~Reorged(n) /\ minerPc[n] = "sent" /\ mined[n] = x
    BY <1>1, <1>5, <2>1 DEF OwnOf
  <2>3. b # x
    <3> SUFFICES ASSUME b = x PROVE FALSE
      OBVIOUS
    <3>1. b.index = Tip(n).index + 1 /\ b.prev = Tip(n).hash
      BY <1>5, <2>1
    <3>2. AppendBlock(n, b)
      BY <1>0, <3>1 DEF AddBlock, IgnoreBlock, reorganizeToFork, handleFork, QueueBlock, Sibling
    <3>3. Grows(n, b)
      BY <1>0, <3>2, AppendGrows
    <3> QED
      BY <1>0, <2>1, <3>3 DEF Stays, Grows
  <2> QED
    BY <2>1, <2>2, <2>3
<1>6. ASSUME x.index = p.index + 1, Tip(n)'.index = p.index, Tip(n)' # p
      PROVE  Reorged(n)'
  <2>1. Tip(n).index = p.index /\ (Tip(n) # p \/ Reorged(n)')
    BY <1>2, <1>6, AddTip
  <2>2. Tip(n) # p => Reorged(n)
    BY <1>1, <1>6, <2>1 DEF OwnOf
  <2> QED
    BY <2>1, <2>2, AddTip
<1>7. ASSUME x.index = p.index + 1, Tip(n)'.index = x.index, Tip(n)'.prev = x.prev
      PROVE  \/ Tip(n)' = x \/ Better(Tip(n)', x)
             \/ minerPc'[n] = "sent" /\ mined'[n] = x
  <2>1. CASE Stays(n) \/ Swaps(n, b)
    <3>1. Tip(n).index = x.index /\ Tip(n).prev = x.prev
      BY <1>7, <2>1 DEF Stays, Swaps, Sibling
    <3>2. Tip(n) = x \/ Better(Tip(n), x) \/ (minerPc[n] = "sent" /\ mined[n] = x)
      BY <1>1, <1>7, <3>1 DEF OwnOf
    <3>3. Tip(n) = x \/ Better(Tip(n), x) => Tip(n)' = x \/ Better(Tip(n)', x)
      BY <1>0, <2>1, BetterFacts DEF Stays, Swaps
    <3>4. CASE minerPc[n] = "sent" /\ mined[n] = x /\ b = x /\ Stays(n)
      <4>1. \/ b.hash = Tip(n).hash
            \/ Sibling(b, Tip(n)) /\ ~Better(b, Tip(n))
        <5>1. b.index = Tip(n).index /\ b.prev = Tip(n).prev
          BY <3>1, <3>4
        <5>2. ~handleFork(n, b) /\ ~QueueBlock(n, b) /\ ~AppendBlock(n, b)
          BY <1>0, <5>1 DEF handleFork, QueueBlock, AppendBlock
        <5>3. ~reorganizeToFork(n, b)
          <6> SUFFICES ASSUME reorganizeToFork(n, b) PROVE FALSE
            OBVIOUS
          <6>1. Tip(n)' = b /\ b.hash # Tip(n).hash
            BY DEF reorganizeToFork, ChainInv, NodeTypeOK, Tip, Sibling
          <6> QED
            BY <3>4, <6>1 DEF Stays
        <5> QED
          BY <1>0, <5>1, <5>2, <5>3 DEF AddBlock, IgnoreBlock, Sibling
      <4>2. Tip(n) = x \/ Better(Tip(n), x)
        BY <1>0, <3>4, <4>1, BetterFacts DEF ForkState, HashesUnique
      <4> QED
        BY <3>3, <4>2
    <3>5. CASE minerPc[n] = "sent" /\ mined[n] = x /\ b = x /\ Swaps(n, b)
      BY <3>5 DEF Swaps
    <3> QED
      BY <2>1, <3>2, <3>3, <3>4, <3>5
  <2>2. CASE Grows(n, b)
    <3>1. Tip(n).index >= p.index
      BY <1>0, <1>2 DEF Beats, Sibling
    <3>2. Tip(n).index = p.index /\ Tip(n)' = b
      BY <1>0, <1>7, <2>2, <3>1 DEF Grows
    <3>3. Tip(n) = p
      BY <1>0, <1>7, <2>2, <3>2 DEF Grows, ForkState, HashesUnique
    <3>4. minerPc[n] = "sent" /\ mined[n] = x
      BY <1>1, <1>7, <3>3 DEF OwnOf
    <3> QED
      BY <3>2, <3>4
  <2> QED
    BY <1>3, <2>1, <2>2
<1> QED
  BY <1>2, <1>4, <1>5, <1>6, <1>7 DEF OwnOf

\* The block a node makes, after the node has added another one.
LEMMA AddMiner ==
  ASSUME ChainInv, TypeOK, ForkState, NEW n \in Node, NEW b \in Known, AddBlock(n, b),
         broadcast' = broadcast, NEW p \in Known, p.hash = mined[n].prev, Making(n),
         minerPc' = minerPc, mined' = mined
  PROVE  MinerOf(n, p)'
<1>1. MinerOf(n, p)
  BY DEF ForkState, MinerInv
<1>2. Beats(Tip(n), p)
  BY <1>1 DEF MinerOf
<1>3. Beats(Tip(n)', p)
  BY <1>2, AddTip
<1>4. Tip(n)' = p => Tip(n) = p /\ Reorged(n)' = Reorged(n)
  BY <1>2, AddTip
<1>5. Tip(n)'.index = p.index /\ Tip(n)' # p =>
        Tip(n).index = p.index /\ (Tip(n) # p \/ Reorged(n)')
  BY <1>2, AddTip
<1>6. Reorged(n) => Reorged(n)'
  BY AddTip
<1> QED
  BY <1>1, <1>3, <1>4, <1>5, <1>6 DEF MinerOf

\* A bad block of a node, after the node has added a block.
LEMMA AddBad ==
  ASSUME ChainInv, TypeOK, ForkState, NEW n \in Node, NEW b \in Known, AddBlock(n, b),
         broadcast' = broadcast, NEW z \in broadcast[n], ~Good(z),
         \/ minerPc'[n] = minerPc[n] /\ mined'[n] = mined[n]
         \/ minerPc'[n] = "idle"
  PROVE  BadOf(n, z)'
<1>0. /\ b \in Block /\ Tip(n) \in Known /\ Tip(n) \in Block /\ Tip(n).index \in Nat
  BY KnownMember, TipKnown DEF ForkState
<1>1. BadOf(n, z)
  BY DEF ForkState, BadBlocks
<1>2. Reorged(n)'
  BY <1>1, AddTip DEF BadOf
<1>3. ASSUME z.index > 1
      PROVE  Tip(n)' \notin broadcast[n]
  <2>1. Tip(n) \notin broadcast[n] /\ Reorged(n)
    BY <1>1, <1>3 DEF BadOf
  <2>2. CASE Stays(n)
    BY <2>1, <2>2 DEF Stays
  <2>3. CASE Grows(n, b)
    BY <2>1, <2>3, GrowsForeign
  <2>4. CASE Swaps(n, b)
    <3> SUFFICES ASSUME b \in broadcast[n] PROVE FALSE
      BY <2>4 DEF Swaps
    <3>1. Sibling(b, Tip(n)) /\ Better(b, Tip(n))
      BY <2>4 DEF Swaps
    <3>2. Good(Tip(n))
      <4>1. Tip(n) # Genesis
        <5>1. b.index >= 1
          BY DEF ForkState, HashesUnique
        <5> QED
          BY <3>1, <5>1, GenesisType DEF Sibling
      <4> QED
        BY <4>1 DEF ForkState, TipGood
    <3>3. PICK p \in Known : p.hash = b.prev /\ b.index = p.index + 1
      BY <3>1, <3>2 DEF Good, Sibling
    <3>4. OwnOf(n, b, p)
      BY <3>3 DEF ForkState, Own
    <3>5. Tip(n) = b \/ Better(Tip(n), b) \/ (minerPc[n] = "sent" /\ mined[n] = b)
      BY <3>1, <3>3, <3>4 DEF OwnOf, Sibling
    <3>6. minerPc[n] = "sent" /\ mined[n] = b
      BY <1>0, <3>1, <3>5, BetterFacts DEF Sibling
    <3>7. Good(b)
      BY <3>3 DEF Good
    <3> QED
      BY <1>1, <3>6, <3>7 DEF BadOf
  <2> QED
    BY <1>0, <2>2, <2>3, <2>4, AddBlockCases
<1>4. minerPc'[n] = "sent" => ~Good(mined[n]) /\ mined'[n] = mined[n]
  BY <1>1 DEF BadOf
<1>5. minerPc'[n] = "sent" => ~Good(mined[n])'
  BY <1>4, KnownSame
<1> QED
  BY <1>2, <1>3, <1>5 DEF BadOf

\* All that ForkState says, after a node has added a block.
LEMMA AddForkState ==
  ASSUME ChainInv, TypeOK, ForkState, NEW n \in Node, NEW b \in Known, AddBlock(n, b),
         UNCHANGED <<broadcast, used>>,
         \/ UNCHANGED minerVars
         \/ /\ minerPc[n] = "sent" /\ b = mined[n]
            /\ minerPc' = [minerPc EXCEPT ![n] = "idle"]
            /\ mined' = [mined EXCEPT ![n] = NoBlock],
         \A msg \in net' : msg.type = "block" => msg \in net
  PROVE  ForkState'
<1>0. b \in Block /\ ChainInv' /\ Known' = Known /\ \A x : Good(x)' = Good(x)
  BY KnownMember, AddBlockInv, KnownSame
<1>1. /\ minerPc \in [Node -> {"idle", "tick", "mined", "sent"}]
      /\ mined \in [Node -> Block \cup {NoBlock}]
  BY DEF TypeOK
<1>2. ASSUME NEW m \in Node
      PROVE  /\ m # n => minerPc'[m] = minerPc[m] /\ mined'[m] = mined[m]
             /\ \/ minerPc'[m] = minerPc[m] /\ mined'[m] = mined[m]
                \/ minerPc'[m] = "idle" /\ m = n /\ b = mined[n]
             /\ minerPc'[m] # "idle" => minerPc'[m] = minerPc[m] /\ mined'[m] = mined[m]
  BY <1>1 DEF minerVars
<1>3. HashesUnique'
  <2>1. /\ \A x, y \in Known : x.hash = y.hash => x = y
        /\ \A x \in Known : x.hash \in used \cup {0}
        /\ \A m \in Node : \A x \in broadcast[m] : x.hash # 0 /\ x.index >= 1
        /\ \A m, k \in Node : m # k => broadcast[m] \cap broadcast[k] = {}
    BY DEF ForkState, HashesUnique
  <2>2. ASSUME NEW m \in Node, Making(m)'
        PROVE  Making(m) /\ mined'[m] = mined[m] /\ minerPc'[m] = minerPc[m]
    BY <1>2, <2>2 DEF Making
  <2>3. \A m \in Node : Making(m)' => mined'[m].hash \in used
    BY <2>2 DEF ForkState, HashesUnique
  <2>4. ASSUME NEW m \in Node, minerPc'[m] = "mined"
        PROVE  /\ \A x \in Known : x.hash # mined'[m].hash
               /\ \A k \in Node \ {m} : Making(k)' => mined'[k].hash # mined'[m].hash
    <3>1. minerPc[m] = "mined" /\ mined'[m] = mined[m]
      BY <1>2, <2>4
    <3> QED
      BY <2>2, <3>1 DEF ForkState, HashesUnique
  <2>5. \A m \in Node : minerPc'[m] = "sent" => mined'[m] \in broadcast[m]
    BY <1>2 DEF ForkState, HashesUnique
  <2> QED
    BY <1>0, <2>1, <2>3, <2>4, <2>5 DEF HashesUnique
<1>4. Parented'
  <2>1. \A m \in Node : Making(m)' => Making(m) /\ mined'[m] = mined[m]
    BY <1>2 DEF Making
  <2> QED
    BY <1>0, <2>1 DEF ForkState, Parented
<1>5. Circulating'
  <2>1. \A msg \in net' : msg.type = "block" => msg.block \in Known
    BY DEF ForkState, Circulating
  <2> QED
    BY <1>0, <2>1, AddCirculates DEF ForkState, Circulating
<1>6. ASSUME NEW m \in Node, m # n
      PROVE  /\ chain'[m] = chain[m] /\ Tip(m)' = Tip(m) /\ Reorged(m)' = Reorged(m)
  BY <1>0, <1>6, AddBlockElsewhere
<1>7. Numbered'
  <2> SUFFICES ASSUME NEW m \in Node
               PROVE  /\ Tip(m)'.index = chain'[m][1].index + Len(chain'[m]) - 1
                      /\ Reorged(m)' => chain'[m][1].index >= 1
    BY DEF Numbered
  <2>0. /\ Tip(m).index = chain[m][1].index + Len(chain[m]) - 1
        /\ Reorged(m) => chain[m][1].index >= 1
    BY DEF ForkState, Numbered
  <2>1. CASE m # n
    BY <1>6, <2>0, <2>1
  <2>2. CASE m = n /\ Stays(n)
    BY <2>0, <2>2 DEF Stays, Reorged
  <2>3. CASE m = n /\ Swaps(n, b)
    <3>1. chain'[n] = <<b>> /\ Tip(n)' = b /\ Reorged(n)'
      BY <2>3, AddTip DEF Swaps
    <3>2. b.index >= 1
      BY <3>1, KnownIndex DEF ForkState, Reorged
    <3>3. Len(<<b>>) = 1 /\ <<b>>[1] = b /\ b.index \in Nat
      BY KnownMember
    <3>4. Tip(n)'.index = chain'[n][1].index + Len(chain'[n]) - 1
      BY <3>1, <3>3
    <3> QED
      BY <2>3, <3>1, <3>2, <3>3, <3>4
  <2>4. CASE m = n /\ Grows(n, b)
    <3>1. /\ chain'[n][1] = chain[n][1]
          /\ Len(chain'[n]) = Len(chain[n]) + (Tip(n)'.index - Tip(n).index)
          /\ Tip(n)'.index \in Nat
      BY <2>4 DEF Grows
    <3>2. Tip(n).index \in Nat /\ Len(chain[n]) \in Nat /\ chain[n][1].index \in Nat
      BY TipKnown DEF ForkState
    <3>3. Tip(n)'.index = chain'[n][1].index + Len(chain'[n]) - 1
      <4>1. Tip(n).index = chain[n][1].index + Len(chain[n]) - 1
        BY <2>0, <2>4
      <4> DEFINE f == chain[n][1].index
                 l == Len(chain[n])
                 t == Tip(n).index
                 u == Tip(n)'.index
                 l2 == Len(chain'[n])
      <4>2. f \in Nat /\ l \in Nat /\ t \in Nat /\ u \in Nat
        BY <3>1, <3>2
      <4>3. t = f + l - 1 /\ l2 = l + (u - t)
        BY <3>1, <4>1
      <4> HIDE DEF f, l, t, u, l2
      <4>4. u = f + l2 - 1
        BY <4>2, <4>3, HigherTip
      <4> QED
        BY <3>1, <4>4 DEF f, u, l2
    <3> QED
      BY <2>0, <2>4, <3>1, <3>3 DEF Reorged
  <2> QED
    BY <1>0, <2>1, <2>2, <2>3, <2>4, AddBlockCases
<1>8. TipGood'
  <2> SUFFICES ASSUME NEW m \in Node PROVE Tip(m)' = Genesis \/ Good(Tip(m)')
    BY <1>0 DEF TipGood
  <2>0. Tip(m) = Genesis \/ Good(Tip(m))
    BY DEF ForkState, TipGood
  <2>1. CASE m # n
    BY <1>6, <2>0, <2>1
  <2>2. CASE m = n /\ Stays(n)
    BY <2>0, <2>2 DEF Stays
  <2>3. CASE m = n /\ Swaps(n, b)
    <3>1. Tip(n)' = b /\ Sibling(b, Tip(n)) /\ Reorged(n)'
      BY <2>3, AddTip DEF Swaps
    <3>2. Tip(n) # Genesis
      <4>1. b # Genesis
        BY <2>3, <3>1 DEF Swaps, Reorged
      <4>2. b.index >= 1
        BY <4>1, KnownIndex DEF ForkState
      <4> QED
        BY <3>1, <4>2, GenesisType DEF Sibling
    <3>3. Good(b)
      BY <2>0, <2>3, <3>1, <3>2 DEF Good, Sibling
    <3> QED
      BY <2>3, <3>1, <3>3
  <2>4. CASE m = n /\ Grows(n, b)
    <3> DEFINE i == Len(chain'[n]) - 1
    <3>1. Len(chain'[n]) \in Nat /\ i \in 1 .. Len(chain'[n]) - 1 /\ i \in 1 .. Len(chain'[n])
      <4>1. Tip(n).index \in Nat /\ Len(chain[n]) \in Nat /\ Len(chain[n]) >= 1
        BY TipKnown DEF ForkState
      <4>2. /\ Len(chain'[n]) = Len(chain[n]) + (Tip(n)'.index - Tip(n).index)
            /\ Tip(n)'.index \in Nat /\ Tip(n)'.index >= Tip(n).index + 1
        BY <2>4 DEF Grows
      <4> QED
        BY <4>1, <4>2
    <3>2. chain'[n][i] \in Known
      BY <3>1, AddCirculates DEF ForkState
    <3>3. /\ chain'[n][i + 1].prev = chain'[n][i].hash
          /\ chain'[n][i + 1].index = chain'[n][i].index + 1
      BY <1>0, <3>1 DEF ChainInv, ChainLinked
    <3>4. Tip(n)' = chain'[n][i + 1]
      <4>1. i + 1 = Len(chain'[n])
        BY <3>1
      <4> QED
        BY <4>1 DEF Tip
    <3> HIDE DEF i
    <3>5. Good(Tip(n)')
      BY <3>2, <3>3, <3>4 DEF Good
    <3> QED
      BY <2>4, <3>5
  <2> QED
    BY <1>0, <2>1, <2>2, <2>3, <2>4, AddBlockCases
<1>9. MinerInv'
  <2> SUFFICES ASSUME NEW m \in Node, NEW p \in Known, Making(m)', p.hash = mined'[m].prev
               PROVE  MinerOf(m, p)'
    BY <1>0 DEF MinerInv
  <2>1. minerPc'[m] = minerPc[m] /\ mined'[m] = mined[m] /\ Making(m)
    BY <1>2 DEF Making
  <2>2. CASE m # n
    <3>1. MinerOf(m, p)
      BY <2>1 DEF ForkState, MinerInv
    <3> QED
      BY <1>6, <2>1, <2>2, <3>1 DEF MinerOf
  <2>3. CASE m = n
    <3>1. minerPc' = minerPc /\ mined' = mined
      BY <1>1, <2>1, <2>3 DEF minerVars, Making
    <3> QED
      BY <2>1, <2>3, <3>1, AddMiner
  <2> QED
    BY <2>2, <2>3
<1>10. Own'
  <2> SUFFICES ASSUME NEW m \in Node, NEW x \in broadcast[m], NEW p \in Known, p.hash = x.prev
               PROVE  OwnOf(m, x, p)'
    BY <1>0 DEF Own
  <2>1. CASE m # n
    <3>1. OwnOf(m, x, p)
      BY DEF ForkState, Own
    <3> QED
      BY <1>2, <1>6, <2>1, <3>1 DEF OwnOf
  <2>2. CASE m = n
    BY <1>2, <2>2, AddOwn
  <2> QED
    BY <2>1, <2>2
<1>11. OneGood'
  BY <1>0 DEF ForkState, OneGood
<1>12. OwnTipAlone'
  <2> SUFFICES ASSUME NEW m \in Node, Reorged(m)', Tip(m)' \in broadcast[m]
               PROVE  Len(chain'[m]) = 1
    BY DEF OwnTipAlone
  <2>1. CASE m # n
    BY <1>6, <2>1 DEF ForkState, OwnTipAlone
  <2>2. CASE m = n /\ Stays(n)
    BY <2>2 DEF Stays, ForkState, OwnTipAlone, Reorged
  <2>3. CASE m = n /\ Swaps(n, b)
    BY <2>3 DEF Swaps
  <2>4. CASE m = n /\ Grows(n, b)
    BY <2>4, GrowsForeign DEF Grows, Reorged
  <2> QED
    BY <1>0, <2>1, <2>2, <2>3, <2>4, AddBlockCases
<1>13. BadBlocks'
  <2> SUFFICES ASSUME NEW m \in Node, NEW z \in broadcast[m], ~Good(z)
               PROVE  BadOf(m, z)'
    BY <1>0 DEF BadBlocks
  <2>1. CASE m # n
    <3>1. BadOf(m, z)
      BY DEF ForkState, BadBlocks
    <3> QED
      BY <1>0, <1>2, <1>6, <2>1, <3>1 DEF BadOf
  <2>2. CASE m = n
    BY <1>2, <2>2, AddBad
  <2> QED
    BY <2>1, <2>2
<1> QED
  BY <1>3, <1>4, <1>5, <1>7, <1>8, <1>9, <1>10, <1>11, <1>12, <1>13 DEF ForkState
-----------------------------------------------------------------------------
\* The steps that leave chains, queues and the blocks being made alone.
LEMMA QuietForkState ==
  ASSUME ForkState, TypeOK,
         UNCHANGED <<chain, pendingBlocks, broadcast, used, mined>>,
         \A n \in Node : \/ minerPc'[n] = minerPc[n]
                         \/ minerPc[n] = "idle" /\ minerPc'[n] = "tick",
         \A msg \in net' : msg.type = "block" => msg.block \in Known
  PROVE  ForkState'
<1>0. Known' = Known /\ \A x : Good(x)' = Good(x)
  BY KnownSame
<1>1. \A n \in Node : /\ Tip(n)' = Tip(n) /\ Reorged(n)' = Reorged(n) /\ Making(n)' = Making(n)
                      /\ (minerPc'[n] = "mined" <=> minerPc[n] = "mined")
                      /\ (minerPc'[n] = "sent" <=> minerPc[n] = "sent")
  BY DEF Tip, Reorged, Making
<1>2. HashesUnique' /\ Parented' /\ Circulating' /\ Numbered' /\ TipGood'
  <2>1. HashesUnique'
    BY <1>0, <1>1 DEF ForkState, HashesUnique
  <2>2. Parented'
    BY <1>0, <1>1 DEF ForkState, Parented
  <2>3. Circulating'
    BY <1>0 DEF ForkState, Circulating
  <2>4. Numbered'
    BY <1>1 DEF ForkState, Numbered
  <2>5. TipGood'
    BY <1>0, <1>1 DEF ForkState, TipGood
  <2> QED
    BY <2>1, <2>2, <2>3, <2>4, <2>5
<1>3. MinerInv'
  <2> SUFFICES ASSUME NEW n \in Node, NEW p \in Known, Making(n), p.hash = mined[n].prev
               PROVE  MinerOf(n, p)'
    BY <1>0, <1>1 DEF MinerInv
  <2>1. MinerOf(n, p)
    BY DEF ForkState, MinerInv
  <2> QED
    BY <1>1, <2>1 DEF MinerOf
<1>4. Own'
  <2> SUFFICES ASSUME NEW n \in Node, NEW x \in broadcast[n], NEW p \in Known, p.hash = x.prev
               PROVE  OwnOf(n, x, p)'
    BY <1>0 DEF Own
  <2>1. OwnOf(n, x, p)
    BY DEF ForkState, Own
  <2> QED
    BY <1>1, <2>1 DEF OwnOf
<1>5. OneGood' /\ OwnTipAlone'
  BY <1>0, <1>1 DEF ForkState, OneGood, OwnTipAlone
<1>6. BadBlocks'
  BY <1>0, <1>1 DEF ForkState, BadBlocks, BadOf
<1> QED
  BY <1>2, <1>3, <1>4, <1>5, <1>6 DEF ForkState

\* MineBlock: the new block is good as long as the node has not reorganised, and
\* numbered too low afterwards.
LEMMA MineForkState ==
  ASSUME TypeOK, ForkState, NEW n \in Node, MineBlock(n)
  PROVE  ForkState'
<1> DEFINE b == mined'[n]
<1>0. Known' = Known /\ \A x : Good(x)' = Good(x)
  BY KnownSame DEF MineBlock
<1>1. /\ minerPc \in [Node -> {"idle", "tick", "mined", "sent"}]
      /\ mined \in [Node -> Block \cup {NoBlock}]
  BY DEF TypeOK
<1>2. PICK h \in Hash \ used : used' = used \cup {h} /\ b.hash = h
  BY <1>1 DEF MineBlock
<1>3. /\ minerPc[n] = "tick" /\ minerPc'[n] = "mined"
      /\ b.index = Len(chain[n]) /\ b.prev = Tip(n).hash
      /\ \A m \in Node : m # n => minerPc'[m] = minerPc[m] /\ mined'[m] = mined[m]
      /\ UNCHANGED <<chain, pendingBlocks, broadcast, net, stuck>>
  BY <1>1 DEF MineBlock, nodeVars
<1>4. h # 0
  BY ChainAssumption
<1> HIDE DEF b
<1>5. \A m \in Node : Tip(m)' = Tip(m) /\ Reorged(m)' = Reorged(m)
  BY <1>3 DEF Tip, Reorged
<1>6. \A m \in Node : Making(m)' => m = n \/ Making(m)
  BY <1>3 DEF Making
<1>7. \A m \in Node : (minerPc'[m] = "sent" <=> minerPc[m] = "sent")
  BY <1>3
<1>8. Tip(n) \in Known /\ Tip(n).index \in Nat /\ Len(chain[n]) \in Nat /\ Len(chain[n]) >= 1
  BY TipKnown DEF ForkState
<1>9. HashesUnique'
  <2>0. \A m \in Node : Making(m) => mined[m].hash \in used
    BY DEF ForkState, HashesUnique
  <2>1. /\ \A x, y \in Known : x.hash = y.hash => x = y
        /\ \A x \in Known : x.hash \in used'  \cup {0}
        /\ \A m \in Node : \A x \in broadcast[m] : x.hash # 0 /\ x.index >= 1
        /\ \A m, k \in Node : m # k => broadcast[m] \cap broadcast[k] = {}
    BY <1>2 DEF ForkState, HashesUnique
  <2>2. \A m \in Node : Making(m)' => mined'[m].hash \in used'
    BY <1>2, <1>3, <1>6, <2>0 DEF b
  <2>3. ASSUME NEW m \in Node, minerPc'[m] = "mined"
        PROVE  /\ \A x \in Known : x.hash # mined'[m].hash
               /\ \A k \in Node \ {m} : Making(k)' => mined'[k].hash # mined'[m].hash
    <3>1. CASE m = n
      <4>1. \A x \in Known : x.hash # h
        BY <1>2, <1>4 DEF ForkState, HashesUnique
      <4>2. \A k \in Node \ {n} : Making(k)' => mined'[k].hash # h
        BY <1>3, <1>6, <2>0
      <4> QED
        BY <1>2, <3>1, <4>1, <4>2 DEF b
    <3>2. CASE m # n
      <4>1. minerPc[m] = "mined" /\ mined'[m] = mined[m]
        BY <1>3, <2>3, <3>2
      <4>2. mined[m].hash # h
        BY <2>0, <4>1 DEF Making
      <4> QED
        BY <1>2, <1>3, <1>6, <4>1, <4>2 DEF ForkState, HashesUnique, b
    <3> QED
      BY <3>1, <3>2
  <2>4. \A m \in Node : minerPc'[m] = "sent" => mined'[m] \in broadcast[m]
    BY <1>3 DEF ForkState, HashesUnique
  <2> QED
    BY <1>0, <1>3, <2>1, <2>2, <2>3, <2>4 DEF HashesUnique
<1>10. Parented'
  <2>1. b.index >= 1 /\ \E p \in Known : p.hash = b.prev
    BY <1>3, <1>8
  <2>2. ASSUME NEW m \in Node, Making(m)'
        PROVE  mined'[m].index >= 1 /\ \E p \in Known : p.hash = mined'[m].prev
    <3>1. CASE m = n
      BY <2>1, <3>1 DEF b
    <3>2. CASE m # n
      BY <1>3, <1>6, <2>2, <3>2 DEF ForkState, Parented
    <3> QED
      BY <3>1, <3>2
  <2> QED
    BY <1>0, <1>3, <2>2 DEF ForkState, Parented
<1>11. Circulating' /\ Numbered' /\ TipGood' /\ OneGood' /\ OwnTipAlone'
  <2>1. Circulating'
    BY <1>0, <1>3 DEF ForkState, Circulating
  <2>2. Numbered' /\ OwnTipAlone'
    BY <1>3, <1>5 DEF ForkState, Numbered, OwnTipAlone
  <2>3. TipGood' /\ OneGood'
    BY <1>0, <1>3, <1>5 DEF ForkState, TipGood, OneGood
  <2> QED
    BY <2>1, <2>2, <2>3
<1>12. MinerInv'
  <2> SUFFICES ASSUME NEW m \in Node, NEW p \in Known, Making(m)', p.hash = mined'[m].prev
               PROVE  MinerOf(m, p)'
    BY <1>0 DEF MinerInv
  <2>1. CASE m # n
    <3>1. MinerOf(m, p)
      BY <1>3, <1>6, <2>1 DEF ForkState, MinerInv
    <3> QED
      BY <1>3, <1>5, <2>1, <3>1 DEF MinerOf
  <2>2. CASE m = n
    <3>1. p = Tip(n)
      BY <1>3, <1>8, <2>2 DEF ForkState, HashesUnique, b
    <3>2. /\ Tip(n).index = chain[n][1].index + Len(chain[n]) - 1
          /\ Reorged(n) => chain[n][1].index >= 1
          /\ ~Reorged(n) => chain[n][1].index = 0
          /\ chain[n][1].index \in Nat
      BY GenesisType, TipKnown DEF ForkState, Numbered, Reorged
    <3>3. b.index <= p.index + 1
      BY <1>3, <1>8, <3>1, <3>2
    <3>4. b.index = p.index + 1 => ~Reorged(n)
      BY <1>3, <1>8, <3>1, <3>2
    <3>5. b.index <= p.index => Reorged(n)
      BY <1>3, <1>8, <3>1, <3>2
    <3>6. b.index > 1 /\ Reorged(n) => Tip(n) \notin broadcast[n]
      <4>1. Reorged(n) /\ Tip(n) \in broadcast[n] => Len(chain[n]) = 1
        BY DEF ForkState, OwnTipAlone
      <4>2. b.index = Len(chain[n])
        BY <1>3
      <4>3. ~(1 > 1)
        OBVIOUS
      <4> QED
        BY <4>1, <4>2, <4>3, Zenon
    <3>7. Beats(Tip(n), p)
      BY <3>1 DEF Beats
    <3> QED
      BY <1>3, <1>5, <2>2, <3>1, <3>3, <3>4, <3>5, <3>6, <3>7 DEF MinerOf, b
  <2> QED
    BY <2>1, <2>2
<1>13. Own'
  <2> SUFFICES ASSUME NEW m \in Node, NEW x \in broadcast[m], NEW p \in Known, p.hash = x.prev
               PROVE  OwnOf(m, x, p)'
    BY <1>0, <1>3 DEF Own
  <2>1. OwnOf(m, x, p)
    BY DEF ForkState, Own
  <2>2. minerPc[m] = "sent" => minerPc'[m] = "sent" /\ mined'[m] = mined[m]
    BY <1>3
  <2> QED
    BY <1>5, <2>1, <2>2 DEF OwnOf
<1>14. BadBlocks'
  <2> SUFFICES ASSUME NEW m \in Node, NEW z \in broadcast[m], ~Good(z)
               PROVE  BadOf(m, z)'
    BY <1>0, <1>3 DEF BadBlocks
  <2>1. BadOf(m, z)
    BY DEF ForkState, BadBlocks
  <2>2. minerPc'[m] = "sent" => minerPc[m] = "sent" /\ mined'[m] = mined[m]
    BY <1>3
  <2> QED
    BY <1>0, <1>3, <1>5, <2>1, <2>2 DEF BadOf
<1> QED
  BY <1>9, <1>10, <1>11, <1>12, <1>13, <1>14 DEF ForkState

LEMMA DropForkState ==
  ASSUME TypeOK, ForkState, NEW n \in Node, DropMined(n)
  PROVE  ForkState'
<1>0. Known' = Known /\ \A x : Good(x)' = Good(x)
  BY KnownSame DEF DropMined
<1>1. /\ minerPc \in [Node -> {"idle", "tick", "mined", "sent"}]
      /\ mined \in [Node -> Block \cup {NoBlock}]
  BY DEF TypeOK
<1>2. /\ minerPc[n] = "mined" /\ minerPc'[n] = "idle"
      /\ \A m \in Node : m # n => minerPc'[m] = minerPc[m] /\ mined'[m] = mined[m]
      /\ UNCHANGED <<chain, pendingBlocks, broadcast, used, net, stuck>>
  BY <1>1 DEF DropMined, nodeVars
<1>3. \A m \in Node : Tip(m)' = Tip(m) /\ Reorged(m)' = Reorged(m)
  BY <1>2 DEF Tip, Reorged
<1>4. \A m \in Node : Making(m)' => m # n /\ Making(m) /\ mined'[m] = mined[m]
                                      /\ minerPc'[m] = minerPc[m]
  BY <1>2 DEF Making
<1>5. \A m \in Node : /\ minerPc'[m] = "sent" => minerPc[m] = "sent" /\ mined'[m] = mined[m]
                      /\ minerPc[m] = "sent" => minerPc'[m] = "sent" /\ mined'[m] = mined[m]
                      /\ minerPc'[m] = "mined" => minerPc[m] = "mined" /\ mined'[m] = mined[m]
  BY <1>2
<1>6. HashesUnique'
  BY <1>0, <1>2, <1>4, <1>5 DEF ForkState, HashesUnique
<1>7. Parented' /\ Circulating'
  BY <1>0, <1>2, <1>4 DEF ForkState, Parented, Circulating
<1>8. Numbered' /\ OwnTipAlone' /\ TipGood' /\ OneGood'
  BY <1>0, <1>2, <1>3 DEF ForkState, Numbered, OwnTipAlone, TipGood, OneGood
<1>9. MinerInv'
  BY <1>0, <1>2, <1>3, <1>4 DEF ForkState, MinerInv, MinerOf
<1>10. Own'
  <2> SUFFICES ASSUME NEW m \in Node, NEW x \in broadcast[m], NEW p \in Known, p.hash = x.prev
               PROVE  OwnOf(m, x, p)'
    BY <1>0, <1>2 DEF Own
  <2>1. OwnOf(m, x, p)
    BY DEF ForkState, Own
  <2> QED
    BY <1>3, <1>5, <2>1 DEF OwnOf
<1>11. BadBlocks'
  BY <1>0, <1>2, <1>3, <1>5 DEF ForkState, BadBlocks, BadOf
<1> QED
  BY <1>6, <1>7, <1>8, <1>9, <1>10, <1>11 DEF ForkState

\* BroadcastBlock: the tip is the parent of the block.  A good one is the only
\* good block of the node at its height, since an earlier one on the same parent
\* would have moved the tip; a bad one comes from a node that has reorganised.
LEMMA BroadcastForkState ==
  ASSUME TypeOK, ForkState, NEW n \in Node, BroadcastBlock(n)
  PROVE  /\ ForkState'
         /\ \A y \in Known : (Good(y)' <=> Good(y))
         /\ \A m \in Node : \A x \in broadcast[m] : \A p \in Known' : p.hash = x.prev => p \in Known
<1> DEFINE b == mined[n]
<1>1. /\ minerPc \in [Node -> {"idle", "tick", "mined", "sent"}]
      /\ mined \in [Node -> Block \cup {NoBlock}]
      /\ broadcast \in [Node -> SUBSET Block]
  BY DEF TypeOK
<1>2. /\ minerPc[n] = "mined" /\ minerPc'[n] = "sent" /\ Making(n)
      /\ b.prev = Tip(n).hash
      /\ \A m \in Node : m # n => minerPc'[m] = minerPc[m] /\ broadcast'[m] = broadcast[m]
      /\ broadcast'[n] = broadcast[n] \cup {b}
      /\ UNCHANGED <<mined, chain, pendingBlocks, used, stuck>>
  BY <1>1 DEF BroadcastBlock, nodeVars, Making
<1>3. b \in Block /\ b.index \in Nat
  BY <1>2, MinedType, BlockType DEF Making
<1>4. /\ \A x \in Known : x.hash # b.hash
      /\ \A m \in Node \ {n} : Making(m) => mined[m].hash # b.hash
      /\ b.hash \in used /\ b.hash # 0
      /\ b.index >= 1 /\ \E p \in Known : p.hash = b.prev
  <2>1. used \subseteq Hash /\ 0 \notin Hash
    BY ChainAssumption DEF TypeOK
  <2> QED
    BY <1>2, <2>1 DEF ForkState, HashesUnique, Parented
<1>5. Known' = Known \cup {b}
  BY <1>2 DEF Known
<1> HIDE DEF b
<1>6. \A m \in Node : Tip(m)' = Tip(m) /\ Reorged(m)' = Reorged(m)
  BY <1>2 DEF Tip, Reorged
<1>7. \A m \in Node : /\ Making(m)' = Making(m)
                      /\ minerPc'[m] = "mined" => m # n /\ minerPc[m] = "mined"
                      /\ minerPc[m] = "sent" => m # n /\ minerPc'[m] = "sent"
                      /\ minerPc'[m] = "sent" => m = n \/ minerPc[m] = "sent"
  BY <1>2 DEF Making
<1>8. /\ \A y \in Known : y.prev # b.hash
      /\ \A m \in Node : Making(m) => mined[m].prev # b.hash
  <2>1. \A m \in Node : \A y \in broadcast[m] : y.prev # b.hash
    BY <1>4 DEF ForkState, Parented
  <2>2. Genesis.prev # b.hash
    BY <1>4 DEF Genesis
  <2>3. \A m \in Node : Making(m) => mined[m].prev # b.hash
    BY <1>4 DEF ForkState, Parented
  <2> QED
    BY <2>1, <2>2, <2>3, KnownCases
<1>9. /\ \A y \in Known : (Good(y)' <=> Good(y))
      /\ \A m \in Node : Making(m) => (Good(mined[m])' <=> Good(mined[m]))
  <2>1. ASSUME NEW y, y.prev # b.hash
        PROVE  (\E p \in Known' : p.hash = y.prev /\ y.index = p.index + 1) <=>
               (\E p \in Known : p.hash = y.prev /\ y.index = p.index + 1)
    BY <1>5, <2>1
  <2>2. ASSUME NEW m \in Node, Making(m)
        PROVE  Good(mined[m])' <=> Good(mined[m])
    <3>1. mined'[m].prev = mined[m].prev /\ mined'[m].index = mined[m].index
      BY <1>2
    <3>2. mined[m].prev # b.hash
      BY <1>8, <2>2
    <3> QED
      BY <2>1, <3>1, <3>2 DEF Good
  <2> QED
    BY <1>8, <2>1, <2>2 DEF Good
<1>10. ASSUME NEW y, (y \in Known) \/ (\E m \in Node : Making(m) /\ y = mined[m]),
              NEW p \in Known', p.hash = y.prev
       PROVE  p \in Known
  BY <1>5, <1>8, <1>10
<1>11. /\ Tip(n) \in Known /\ Tip(n) \in Block /\ Tip(n).index \in Nat
       /\ \A p \in Known : p.hash = b.prev => p = Tip(n)
  BY <1>2, TipKnown DEF ForkState, HashesUnique
<1>12. MinerOf(n, Tip(n))
  BY <1>2, <1>11 DEF ForkState, MinerInv, b
<1>13. Good(b) <=> b.index = Tip(n).index + 1
  BY <1>2, <1>11 DEF Good
<1>14. /\ Good(b) => ~Reorged(n)
       /\ ~Good(b) => Reorged(n) /\ (b.index > 1 => Tip(n) \notin broadcast[n])
       /\ b.index <= Tip(n).index + 1
  BY <1>2, <1>3, <1>11, <1>12, <1>13 DEF MinerOf, b
<1>15. b \notin Known
  BY <1>4
<1>16. HashesUnique'
  <2>1. \A x, y \in Known' : x.hash = y.hash => x = y
    BY <1>4, <1>5 DEF ForkState, HashesUnique
  <2>2. \A x \in Known' : x.hash \in used' \cup {0}
    BY <1>2, <1>4, <1>5 DEF ForkState, HashesUnique
  <2>3. \A m \in Node : \A x \in broadcast'[m] : x.hash # 0 /\ x.index >= 1
    BY <1>2, <1>4 DEF ForkState, HashesUnique
  <2>4. \A m, k \in Node : m # k => broadcast'[m] \cap broadcast'[k] = {}
    <3>1. \A m \in Node : b \notin broadcast[m]
      BY <1>15 DEF Known
    <3> QED
      BY <1>2, <3>1 DEF ForkState, HashesUnique
  <2>5. \A m \in Node : Making(m)' => mined'[m].hash \in used'
    BY <1>2, <1>7 DEF ForkState, HashesUnique
  <2>6. ASSUME NEW m \in Node, minerPc'[m] = "mined"
        PROVE  /\ \A x \in Known' : x.hash # mined'[m].hash
               /\ \A k \in Node \ {m} : Making(k)' => mined'[k].hash # mined'[m].hash
    <3>1. m # n /\ minerPc[m] = "mined" /\ Making(m)
      BY <1>7, <2>6 DEF Making
    <3>2. b.hash # mined[m].hash
      BY <1>4, <3>1
    <3> QED
      BY <1>2, <1>5, <1>7, <3>1, <3>2 DEF ForkState, HashesUnique
  <2>7. \A m \in Node : minerPc'[m] = "sent" => mined'[m] \in broadcast'[m]
    BY <1>2, <1>7 DEF ForkState, HashesUnique, b
  <2> QED
    BY <2>1, <2>2, <2>3, <2>4, <2>5, <2>6, <2>7 DEF HashesUnique
<1>17. Parented'
  <2>1. \A m \in Node : \A x \in broadcast'[m] : \E p \in Known' : p.hash = x.prev
    BY <1>2, <1>4, <1>5 DEF ForkState, Parented
  <2>2. \A m \in Node : Making(m)' =>
          mined'[m].index >= 1 /\ \E p \in Known' : p.hash = mined'[m].prev
    BY <1>2, <1>5, <1>7 DEF ForkState, Parented
  <2> QED
    BY <2>1, <2>2 DEF Parented
<1>18. Circulating'
  <2>1. ASSUME NEW msg \in net', msg.type = "block"
        PROVE  msg.block \in Known'
    <3>1. msg \in net \/ msg.block = b
      BY DEF BroadcastBlock, InFlight, BlockMsg, b
    <3> QED
      BY <1>5, <2>1, <3>1 DEF ForkState, Circulating
  <2> QED
    BY <1>2, <1>5, <2>1 DEF ForkState, Circulating
<1>19. Numbered'
  BY <1>2, <1>6 DEF ForkState, Numbered
<1>20. TipGood'
  <2> SUFFICES ASSUME NEW m \in Node PROVE Tip(m)' = Genesis \/ Good(Tip(m))'
    BY DEF TipGood
  <2>1. Tip(m) = Genesis \/ Good(Tip(m))
    BY DEF ForkState, TipGood
  <2>2. Good(Tip(m)) => Good(Tip(m))'
    BY <1>5, <1>6 DEF Good
  <2> QED
    BY <1>6, <2>1, <2>2
<1>21. MinerInv'
  <2> SUFFICES ASSUME NEW m \in Node, NEW p \in Known', Making(m)', p.hash = mined'[m].prev
               PROVE  MinerOf(m, p)'
    BY DEF MinerInv
  <2>1. p \in Known /\ MinerOf(m, p)
    BY <1>2, <1>7, <1>10 DEF ForkState, MinerInv
  <2>2. minerPc'[m] = "mined" => minerPc[m] = "mined" /\ broadcast'[m] = broadcast[m]
    BY <1>2, <1>7
  <2> QED
    BY <1>2, <1>6, <2>1, <2>2 DEF MinerOf
<1>22. Own'
  <2> SUFFICES ASSUME NEW m \in Node, NEW x \in broadcast'[m], NEW p \in Known', p.hash = x.prev
               PROVE  OwnOf(m, x, p)'
    BY DEF Own
  <2>1. CASE x \in broadcast[m]
    <3>1. p \in Known
      BY <1>10, <2>1, KnownType
    <3>2. OwnOf(m, x, p)
      BY <2>1, <3>1 DEF ForkState, Own
    <3> QED
      BY <1>2, <1>6, <1>7, <3>2 DEF OwnOf
  <2>2. CASE m = n /\ x = b
    <3>1. p = Tip(n)
      BY <1>2, <1>10, <1>11, <2>2 DEF b
    <3>2. Beats(Tip(n), p)
      BY <3>1 DEF Beats
    <3>3. minerPc'[n] = "sent" /\ mined'[n] = x
      BY <1>2, <2>2 DEF b
    <3>4. x.index = p.index + 1 => ~Reorged(n)
      BY <1>13, <1>14, <2>2, <3>1
    <3> QED
      BY <1>6, <1>14, <2>2, <3>1, <3>2, <3>3, <3>4 DEF OwnOf
  <2> QED
    BY <1>2, <2>1, <2>2
<1>23. ASSUME NEW y \in broadcast[n], Good(y), Good(b), y.index = b.index
       PROVE  FALSE
  <2>1. PICK q \in Known : q.hash = y.prev /\ y.index = q.index + 1
    BY <1>23 DEF Good
  <2>2. OwnOf(n, y, q)
    BY <2>1 DEF ForkState, Own
  <2>3. q.index = Tip(n).index
    <3>1. q.index \in Nat
      BY <2>1, KnownMember
    <3> QED
      BY <1>11, <1>13, <1>23, <2>1, <3>1
  <2>4. Tip(n) = q => minerPc[n] = "sent"
    BY <2>1, <2>2 DEF OwnOf
  <2>5. Tip(n) # q => Reorged(n)
    BY <2>1, <2>2, <2>3 DEF OwnOf
  <2> QED
    BY <1>2, <1>14, <1>23, <2>4, <2>5
<1>24. OneGood'
  <2> SUFFICES ASSUME NEW m \in Node, NEW x \in broadcast'[m], NEW y \in broadcast'[m],
                      Good(x)', Good(y)', x.index = y.index
               PROVE  x = y
    BY DEF OneGood
  <2>1. \A z \in broadcast'[m] : z \in Known \/ (m = n /\ z = b)
    BY <1>2, KnownType
  <2>2. \A z \in broadcast'[m] : z \in broadcast[m] \/ (m = n /\ z = b)
    BY <1>2
  <2>3. \A z \in broadcast'[m] : Good(z)' => Good(z)
    BY <1>2, <1>9, <2>1 DEF b
  <2> QED
    BY <1>23, <2>2, <2>3 DEF ForkState, OneGood
<1>25. \A m \in Node : Tip(m) \in broadcast'[m] => Tip(m) \in broadcast[m]
  <2>1. \A m \in Node : Tip(m) \in Known
    BY TipKnown DEF ForkState
  <2> QED
    BY <1>2, <1>15, <2>1
<1>26. OwnTipAlone'
  BY <1>2, <1>6, <1>25 DEF ForkState, OwnTipAlone
<1>27. BadBlocks'
  <2> SUFFICES ASSUME NEW m \in Node, NEW z \in broadcast'[m], ~Good(z)'
               PROVE  BadOf(m, z)'
    BY DEF BadBlocks
  <2>1. CASE z \in broadcast[m]
    <3>1. ~Good(z)
      BY <1>9, <2>1, KnownType
    <3>2. BadOf(m, z)
      BY <2>1, <3>1 DEF ForkState, BadBlocks
    <3>3. minerPc'[m] = "sent" => ~Good(mined[m])
      BY <1>7, <1>14, <3>2 DEF BadOf, b
    <3>4. minerPc'[m] = "sent" => ~Good(mined[m])'
      BY <1>7, <1>9, <3>3 DEF Making
    <3> QED
      BY <1>6, <1>25, <3>2, <3>4 DEF BadOf
  <2>2. CASE m = n /\ z = b
    <3>1. ~Good(b)
      BY <1>2, <1>9, <2>2 DEF b
    <3>2. ~Good(mined[n])'
      BY <1>2, <1>9, <3>1 DEF b
    <3> QED
      BY <1>6, <1>14, <1>25, <2>2, <3>1, <3>2 DEF BadOf
  <2> QED
    BY <1>2, <2>1, <2>2
<1>28. \A m \in Node : \A x \in broadcast[m] : \A p \in Known' : p.hash = x.prev => p \in Known
  BY <1>10, KnownType
<1> QED
  BY <1>9, <1>16, <1>17, <1>18, <1>19, <1>20, <1>21, <1>22, <1>24, <1>26, <1>27, <1>28
  DEF ForkState
-----------------------------------------------------------------------------
LEMMA StaysQueue ==
  ASSUME ChainInv, NEW n \in Node, NEW b \in Block, AddBlock(n, b), Stays(n), NEW i \in Index
  PROVE  \/ pendingBlocks'[n][i] = pendingBlocks[n][i]
         \/ i = b.index /\ b.index > Tip(n).index + 1 /\ pendingBlocks'[n][i] = b
<1>1. CASE IgnoreBlock(n, b) \/ reorganizeToFork(n, b) \/ handleFork(n, b)
  BY <1>1 DEF IgnoreBlock, reorganizeToFork, handleFork, nodeVars
<1>2. CASE QueueBlock(n, b)
  BY <1>2 DEF QueueBlock, ChainInv, NodeTypeOK
<1>3. CASE AppendBlock(n, b)
  <2>1. Tip(n)'.index > Tip(n).index /\ Tip(n).index \in Nat
    BY <1>3, AppendInv, TipType, BlockType DEF ChainInv
  <2> QED
    BY <2>1 DEF Stays
<1> QED
  BY <1>1, <1>2, <1>3 DEF AddBlock

\* A good block that AddBlock has just been handed, unless the node got stuck on it.
LEMMA HeardNow ==
  ASSUME ChainInv, TypeOK, ForkState, NEW m \in Node, NEW x \in Known, NEW p \in Known,
         p.hash = x.prev, x.index = p.index + 1, AddBlock(m, x), ~stuck'[m]
  PROVE  HeardOf(m, x, p)'
<1>0. /\ x \in Block /\ x.index \in Nat /\ x.index \in Index /\ p.index \in Nat
      /\ Tip(m) \in Known /\ Tip(m) \in Block /\ Tip(m).index \in Nat
      /\ \A y \in Known : y.hash = x.hash => y = x
  BY KnownMember, TipKnown DEF ForkState, HashesUnique
<1>1. CASE IgnoreBlock(m, x)
  <2>1. Tip(m)' = Tip(m) /\ Reorged(m)' = Reorged(m)
    BY <1>1 DEF IgnoreBlock, nodeVars, Tip, Reorged
  <2>2. CASE x.index < Tip(m).index
    BY <2>1, <2>2 DEF HeardOf
  <2>3. CASE x.index = Tip(m).index /\ x.hash = Tip(m).hash
    BY <1>0, <2>1, <2>3 DEF HeardOf
  <2>4. CASE x.index = Tip(m).index + 1 /\ x.prev # Tip(m).hash
    BY <1>0, <2>1, <2>4 DEF HeardOf
  <2>5. CASE Sibling(x, Tip(m)) /\ ~Better(x, Tip(m))
    <3>1. Better(Tip(m), x) /\ x.index = Tip(m).index
      BY <1>0, <2>5, BetterFacts DEF Sibling
    <3> QED
      BY <2>1, <3>1 DEF HeardOf
  <2> QED
    BY <1>1, <2>2, <2>3, <2>4, <2>5 DEF IgnoreBlock
<1>2. CASE reorganizeToFork(m, x)
  <2>1. Tip(m)' = x
    BY <1>2 DEF reorganizeToFork, ChainInv, NodeTypeOK, Tip
  <2> QED
    BY <2>1 DEF HeardOf
<1>3. CASE handleFork(m, x)
  BY <1>3 DEF handleFork, ChainInv, NodeTypeOK
<1>4. CASE QueueBlock(m, x)
  <2>1. Tip(m)' = Tip(m) /\ pendingBlocks'[m][x.index] = x
    BY <1>0, <1>4 DEF QueueBlock, Tip, ChainInv, NodeTypeOK
  <2>2. Tip(m).index < p.index
    BY <1>0, <1>4 DEF QueueBlock
  <2> QED
    BY <2>1, <2>2 DEF HeardOf
<1>5. CASE AppendBlock(m, x)
  <2>1. Grows(m, x)
    BY <1>0, <1>5, AppendGrows
  <2> QED
    BY <1>0, <2>1 DEF Grows, HeardOf
<1> QED
  BY <1>1, <1>2, <1>3, <1>4, <1>5 DEF AddBlock

\* m has heard of n's good block x: it knows a tip that does not lose to x, has turned x
\* down, or keeps it queued; the next block it adds does not change that.  Only
\* n's blocks are news to m, so a block that could take x's place is x.
LEMMA HeardKeeps ==
  ASSUME ChainInv, TypeOK, ForkState, NEW n \in Node, NEW m \in Node, n # m, Node = {n, m},
         NEW x \in broadcast[n], NEW p \in Known, p.hash = x.prev, x.index = p.index + 1,
         \A z \in broadcast[n] : z.index = x.index /\ x.index > 1 => Good(z),
         NEW b \in Known, AddBlock(m, b), broadcast' = broadcast, HeardOf(m, x, p)
  PROVE  HeardOf(m, x, p)'
<1>0. /\ b \in Block /\ b.index \in Nat /\ b.index \in Index
      /\ x \in Known /\ x \in Block /\ x.index \in Nat /\ x.index \in Index
      /\ p \in Block /\ p.index \in Nat
      /\ Tip(m) \in Known /\ Tip(m) \in Block /\ Tip(m).index \in Nat
  BY KnownMember, KnownType, TipKnown DEF ForkState
<1>1. /\ Tip(m)' \in Block /\ Tip(m)'.index \in Nat
      /\ Reorged(m) => Reorged(m)'
      /\ Swaps(m, b) => Reorged(m)'
  BY AddTip
<1>2. Stays(m) \/ Swaps(m, b) \/ Grows(m, b)
  BY <1>0, AddBlockCases
<1>3. Good(x)
  BY DEF Good
<1>4. ASSUME NEW y \in Known, y.index = x.index, y.prev = x.prev,
             y \in broadcast[n] \/ (Tip(m) = p /\ Reorged(m))
      PROVE  y = x
  <2>1. Good(y)
    BY <1>4 DEF Good
  <2>2. CASE y \in broadcast[n]
    BY <1>3, <1>4, <2>1, <2>2 DEF ForkState, OneGood
  <2>3. CASE y \in broadcast[m] /\ Tip(m) = p /\ Reorged(m)
    <3>1. OwnOf(m, y, p)
      BY <1>4, <2>3 DEF ForkState, Own
    <3> QED
      BY <1>4, <2>3, <3>1 DEF OwnOf
  <2>4. y # Genesis
    BY <1>0, <1>4, GenesisType
  <2> QED
    BY <1>4, <2>2, <2>3, <2>4, KnownCases
<1>5. CASE Tip(m).index > x.index
  <2>1. Tip(m)'.index > x.index
    BY <1>0, <1>1, <1>2, <1>5 DEF Stays, Swaps, Sibling, Grows
  <2> QED
    BY <2>1 DEF HeardOf
<1>6. CASE Tip(m).index = x.index /\ (Tip(m).prev = x.prev => Tip(m) = x \/ Better(Tip(m), x))
  <2>1. CASE Stays(m)
    BY <1>6, <2>1 DEF Stays, HeardOf
  <2>2. CASE Swaps(m, b)
    <3>1. /\ Tip(m)' = b /\ b.index = Tip(m).index /\ b.prev = Tip(m).prev
          /\ Better(b, Tip(m))
      BY <2>2 DEF Swaps, Sibling
    <3>2. b.prev = x.prev => Better(b, x)
      BY <1>0, <1>6, <3>1, BetterFacts
    <3> QED
      BY <1>6, <3>1, <3>2 DEF HeardOf
  <2>3. CASE Grows(m, b)
    <3>1. Tip(m)'.index > x.index
      BY <1>0, <1>1, <1>6, <2>3 DEF Grows
    <3> QED
      BY <3>1 DEF HeardOf
  <2> QED
    BY <1>2, <2>1, <2>2, <2>3
<1>7. CASE Tip(m).index = p.index /\ (Tip(m) = p => Reorged(m))
  <2>1. CASE Stays(m)
    BY <1>7, <2>1 DEF Stays, HeardOf, Reorged
  <2>2. CASE Swaps(m, b)
    <3>1. Tip(m)'.index = p.index
      BY <1>7, <2>2 DEF Swaps, Sibling
    <3> QED
      BY <1>1, <2>2, <3>1 DEF HeardOf
  <2>3. CASE Grows(m, b)
    <3>1. b.index = x.index /\ b.prev = Tip(m).hash /\ Tip(m)'.index >= x.index
      BY <1>0, <1>7, <2>3 DEF Grows
    <3>2. CASE Tip(m)'.index > x.index
      BY <3>2 DEF HeardOf
    <3>3. CASE Tip(m)'.index = x.index
      <4>1. Tip(m)' = b
        BY <2>3, <3>1, <3>3 DEF Grows
      <4>2. b.prev = x.prev => Tip(m) = p
        BY <1>0, <3>1 DEF ForkState, HashesUnique
      <4>3. b.prev = x.prev => b = x
        BY <1>4, <1>7, <3>1, <4>2
      <4> QED
        BY <3>1, <4>1, <4>3 DEF HeardOf
    <3> QED
      BY <1>0, <1>1, <3>1, <3>2, <3>3
  <2> QED
    BY <1>2, <2>1, <2>2, <2>3
<1>8. CASE Tip(m).index < p.index /\ pendingBlocks[m][x.index] = x
  <2>1. CASE Stays(m)
    <3>1. CASE pendingBlocks'[m][x.index] = pendingBlocks[m][x.index]
      BY <1>8, <2>1, <3>1 DEF Stays, HeardOf
    <3>2. CASE x.index = b.index /\ b.index > Tip(m).index + 1 /\ pendingBlocks'[m][x.index] = b
      <4>1. b \notin broadcast[m]
        BY <1>0, <3>2, OwnNotAhead
      <4>2. b # Genesis
        BY <1>0, <3>2, GenesisType
      <4>3. b \in broadcast[n]
        BY <4>1, <4>2, KnownCases
      <4>4. Good(b)
        BY <1>0, <3>2, <4>3
      <4>5. b = x
        BY <1>3, <3>2, <4>3, <4>4 DEF ForkState, OneGood
      <4> QED
        BY <1>8, <2>1, <3>2, <4>5 DEF Stays, HeardOf
    <3> QED
      BY <1>0, <2>1, <3>1, <3>2, StaysQueue
  <2>2. CASE Swaps(m, b)
    <3>1. Tip(m)'.index = Tip(m).index /\ pendingBlocks' = pendingBlocks
      BY <2>2 DEF Swaps, Sibling
    <3> QED
      BY <1>8, <3>1 DEF HeardOf
  <2>3. CASE Grows(m, b)
    <3>1. CASE Tip(m)'.index > x.index
      BY <3>1 DEF HeardOf
    <3>2. CASE Tip(m)'.index = x.index
      <4>1. b.index < x.index
        BY <1>0, <1>8, <2>3 DEF Grows
      <4>2. Tip(m)' = x
        BY <1>0, <1>8, <2>3, <3>2, <4>1 DEF Grows
      <4> QED
        BY <4>2 DEF HeardOf
    <3>3. CASE Tip(m)'.index = p.index
      <4>1. x.prev # Tip(m)'.hash
        <5>1. x.index = Tip(m)'.index + 1 /\ x # NoBlock
          BY <1>0, <3>3, BlockType
        <5> QED
          BY <1>0, <1>8, <2>3, <5>1 DEF Grows
      <4> QED
        BY <3>3, <4>1 DEF HeardOf
    <3>4. CASE Tip(m)'.index < p.index
      <4>1. x.index > Tip(m)'.index + 1
        BY <1>0, <1>1, <3>4
      <4>2. pendingBlocks'[m][x.index] = x
        BY <1>0, <1>8, <2>3, <4>1 DEF Grows
      <4> QED
        BY <3>4, <4>2 DEF HeardOf
    <3> QED
      BY <1>0, <1>1, <3>1, <3>2, <3>3, <3>4
  <2> QED
    BY <1>2, <2>1, <2>2, <2>3
<1> QED
  BY <1>5, <1>6, <1>7, <1>8 DEF HeardOf

\* When a node has added a block, a message of the network or its own.
LEMMA AddHeard ==
  ASSUME ChainInv, TypeOK, ForkState, Heard, TwoNodes, NEW k \in Node, NEW b \in Known,
         AddBlock(k, b), UNCHANGED <<peers, broadcast>>,
         \A msg \in net \ net' : msg = BlockMsg(k, b)
  PROVE  Heard'
<1> SUFFICES ASSUME NEW n \in Node, NEW m \in Node, NEW x \in broadcast[n], NEW p \in Known,
                    n # m, m \in peers[n], p.hash = x.prev, x.index = p.index + 1,
                    Delivered(n, m, x)'
             PROVE  HeardOf(m, x, p)'
  BY KnownSame DEF Heard
<1>0. Node = {n, m}
  BY DEF TwoNodes
<1>1. b \in Block /\ x \in Known
  BY KnownMember, KnownType
<1>2. /\ BlockMsg(m, x) \notin net' /\ ~stuck'[m]
      /\ \A z \in broadcast[n] : z.index = x.index /\ x.index > 1 => Good(z)
  BY KnownSame DEF Delivered
<1>3. ~stuck[m]
  <2>1. stuck[k] => stuck'[k]
    BY DEF AddBlock, IgnoreBlock, reorganizeToFork, handleFork, QueueBlock, AppendBlock,
           nodeVars, ChainInv, NodeTypeOK
  <2> QED
    BY <1>1, <1>2, <2>1, AddBlockElsewhere
<1>4. CASE BlockMsg(m, x) \in net
  <2>1. k = m /\ b = x
    BY <1>2, <1>4 DEF BlockMsg
  <2> QED
    BY <1>1, <1>2, <2>1, HeardNow
<1>5. CASE BlockMsg(m, x) \notin net
  <2>1. HeardOf(m, x, p)
    BY <1>2, <1>3, <1>5 DEF Heard, Delivered
  <2>2. CASE k = m
    BY <1>0, <1>2, <2>1, <2>2, HeardKeeps
  <2>3. CASE k # m
    <3>1. /\ Tip(m)' = Tip(m) /\ pendingBlocks'[m] = pendingBlocks[m]
          /\ Reorged(m)' = Reorged(m)
      BY <1>1, <2>3, AddBlockElsewhere
    <3> QED
      BY <2>1, <3>1 DEF HeardOf
  <2> QED
    BY <2>2, <2>3
<1> QED
  BY <1>4, <1>5

LEMMA QuietHeard ==
  ASSUME Heard, UNCHANGED <<peers, chain, pendingBlocks, broadcast, stuck>>,
         \A msg \in net \ net' : msg.type # "block"
  PROVE  Heard'
<1> SUFFICES ASSUME NEW n \in Node, NEW m \in Node, NEW x \in broadcast[n], NEW p \in Known,
                    n # m, m \in peers[n], p.hash = x.prev, x.index = p.index + 1,
                    Delivered(n, m, x)'
             PROVE  HeardOf(m, x, p)'
  BY KnownSame DEF Heard
<1>1. Delivered(n, m, x)
  BY KnownSame DEF Delivered, BlockMsg
<1>2. HeardOf(m, x, p)
  BY <1>1 DEF Heard
<1> QED
  BY <1>2 DEF HeardOf, Tip, Reorged

LEMMA BroadcastHeard ==
  ASSUME TypeOK, ForkState, Heard, TwoNodes, NEW k \in Node, BroadcastBlock(k)
  PROVE  Heard'
<1>1. /\ broadcast'[k] = broadcast[k] \cup {mined[k]}
      /\ \A n \in Node : n # k => broadcast'[n] = broadcast[n]
      /\ UNCHANGED <<peers, chain, pendingBlocks, stuck>>
      /\ net \subseteq net'
      /\ \A m \in peers[k] : BlockMsg(m, mined[k]) \in net'
  BY DEF BroadcastBlock, nodeVars, TypeOK, TwoNodes, Reached, InFlight
<1>2. /\ \A y \in Known : (Good(y)' <=> Good(y))
      /\ \A m \in Node : \A x \in broadcast[m] : \A p \in Known' : p.hash = x.prev => p \in Known
  BY BroadcastForkState
<1> SUFFICES ASSUME NEW n \in Node, NEW m \in Node, NEW x \in broadcast'[n], NEW p \in Known',
                    n # m, m \in peers'[n], p.hash = x.prev, x.index = p.index + 1,
                    Delivered(n, m, x)'
             PROVE  HeardOf(m, x, p)'
  BY DEF Heard
<1>3. BlockMsg(m, x) \notin net'
  BY DEF Delivered
<1>4. x \in broadcast[n] /\ p \in Known
  BY <1>1, <1>2, <1>3
<1>5. Delivered(n, m, x)
  <2>1. BlockMsg(m, x) \notin net /\ ~stuck[m]
    BY <1>1 DEF Delivered
  <2>2. ASSUME NEW z \in broadcast[n], z.index = x.index, x.index > 1
        PROVE  Good(z)
    <3>1. z \in broadcast'[n]
      BY <1>1
    <3>2. Good(z)'
      BY <2>2, <3>1 DEF Delivered
    <3> QED
      BY <1>2, <3>2, KnownType
  <2> QED
    BY <2>1, <2>2 DEF Delivered
<1>6. HeardOf(m, x, p)
  BY <1>1, <1>4, <1>5 DEF Heard
<1> QED
  BY <1>1, <1>6 DEF HeardOf, Tip, Reorged
-----------------------------------------------------------------------------
LEMMA ForkInit == Init => ForkInv
<1> SUFFICES ASSUME Init PROVE ForkState /\ Heard
  BY DEF ForkInv
<1> USE DEF Init
<1>1. Known = {Genesis} /\ \A n \in Node : broadcast[n] = {}
  BY DEF Known
<1>2. \A n \in Node : ~Making(n) /\ minerPc[n] = "idle"
  BY DEF Making
<1>3. \A n \in Node : Len(chain[n]) = 1 /\ chain[n][1] = Genesis /\ Tip(n) = Genesis /\ ~Reorged(n)
  BY DEF Tip, Reorged
<1>4. HashesUnique /\ Parented /\ Circulating
  <2>1. HashesUnique
    BY <1>1, <1>2 DEF HashesUnique, Genesis
  <2>2. Parented
    BY <1>1, <1>2 DEF Parented
  <2>3. Circulating
    BY <1>1, <1>3 DEF Circulating
  <2> QED
    BY <2>1, <2>2, <2>3
<1>5. Numbered
  <2>1. Genesis.index = 0 /\ 0 = 0 + 1 - 1
    BY GenesisType
  <2> QED
    BY <1>3, <2>1 DEF Numbered
<1>6. TipGood /\ MinerInv /\ Own /\ OneGood /\ OwnTipAlone /\ BadBlocks /\ Heard
  BY <1>1, <1>2, <1>3 DEF TipGood, MinerInv, Own, OneGood, OwnTipAlone, BadBlocks, Heard
<1> QED
  BY <1>4, <1>5, <1>6 DEF ForkState

LEMMA ForkNext == Inv /\ ForkInv /\ [Next]_vars => ForkInv'
<1> SUFFICES ASSUME Inv, ForkInv, [Next]_vars, restarts' = 0
             PROVE  ForkState' /\ (TwoNodes => Heard')
  BY DEF ForkInv, TwoNodes
<1>0. ChainInv /\ TypeOK /\ restarts \in Nat
  BY ChainAssumption DEF Inv, TypeOK
<1>1. restarts = 0 /\ \A n \in Node : ~Restart(n)
  <2>1. \A n \in Node : ~Restart(n)
    BY <1>0 DEF Restart
  <2> QED
    BY <2>1 DEF Next, ReceiveTx, MiningTick, MineBlock, BroadcastBlock, DropMined, AddMined,
                ReceiveBlock, SyncChain, AnswerSyncReq, vars
<1>2. ForkState /\ (TwoNodes => Heard)
  BY <1>1 DEF ForkInv
<1>3. \A msg \in net : msg.type = "block" => msg.block \in Known
  BY <1>2 DEF ForkState, Circulating
<1>4. ASSUME UNCHANGED <<peers, chain, pendingBlocks, stuck, broadcast, used, mined, minerPc, net>>
      PROVE  ForkState' /\ (TwoNodes => Heard')
  BY <1>0, <1>2, <1>3, <1>4, QuietForkState, QuietHeard
<1>5. ASSUME NEW n \in Node, NEW t \in Tx, ReceiveTx(n, t)
      PROVE  ForkState' /\ (TwoNodes => Heard')
  BY <1>4, <1>5 DEF ReceiveTx, minerVars
<1>6. ASSUME NEW n \in Node, MiningTick(n)
      PROVE  ForkState' /\ (TwoNodes => Heard')
  <2>1. \A m \in Node : \/ minerPc'[m] = minerPc[m]
                        \/ minerPc[m] = "idle" /\ minerPc'[m] = "tick"
    BY <1>0, <1>6 DEF MiningTick, TypeOK
  <2> QED
    BY <1>0, <1>2, <1>3, <1>6, <2>1, QuietForkState, QuietHeard DEF MiningTick, nodeVars
<1>7. ASSUME NEW n \in Node, MineBlock(n)
      PROVE  ForkState' /\ (TwoNodes => Heard')
  <2>1. UNCHANGED <<peers, chain, pendingBlocks, broadcast, stuck, net>>
    BY <1>7 DEF MineBlock, nodeVars
  <2> QED
    BY <1>0, <1>2, <1>7, <2>1, MineForkState, QuietHeard
<1>8. ASSUME NEW n \in Node, DropMined(n)
      PROVE  ForkState' /\ (TwoNodes => Heard')
  <2>1. UNCHANGED <<peers, chain, pendingBlocks, broadcast, stuck, net>>
    BY <1>8 DEF DropMined, nodeVars
  <2> QED
    BY <1>0, <1>2, <1>8, <2>1, DropForkState, QuietHeard
<1>9. ASSUME NEW n \in Node, BroadcastBlock(n)
      PROVE  ForkState' /\ (TwoNodes => Heard')
  BY <1>0, <1>2, <1>9, BroadcastForkState, BroadcastHeard
<1>10. ASSUME NEW n \in Node, NEW b, NEW R
       PROVE  \A msg \in RequestsFor(n, b, R) : msg.type # "block"
  BY DEF RequestsFor, SyncReq
<1>11. ASSUME NEW n \in Node, AddMined(n)
       PROVE  ForkState' /\ (TwoNodes => Heard')
  <2> DEFINE b == mined[n]
  <2>1. /\ minerPc[n] = "sent" /\ AddBlock(n, b) /\ UNCHANGED <<peers, broadcast, used>>
        /\ minerPc' = [minerPc EXCEPT ![n] = "idle"]
        /\ mined' = [mined EXCEPT ![n] = NoBlock]
    BY <1>11 DEF AddMined
  <2>2. b \in Known
    BY <1>0, <1>2, <2>1, KnownType DEF ForkState, HashesUnique
  <2>3. PICK R \in Reached(n) : net' = net \cup RequestsFor(n, b, R)
    BY <1>11 DEF AddMined, InFlight
  <2>4. /\ \A msg \in net' : msg.type = "block" => msg \in net
        /\ net \ net' = {}
    BY <1>10, <2>3
  <2> HIDE DEF b
  <2>5. ForkState'
    BY <1>0, <1>2, <2>1, <2>2, <2>4, AddForkState DEF b
  <2>6. TwoNodes => Heard'
    BY <1>0, <1>2, <2>1, <2>2, <2>4, AddHeard
  <2> QED
    BY <2>5, <2>6
<1>12. ASSUME NEW n \in Node, NEW i \in Index, ReceiveBlock(n, i)
       PROVE  ForkState' /\ (TwoNodes => Heard')
  <2>1. PICK msg \in net :
          /\ msg.type = "block" /\ msg.to = n /\ AddBlock(n, msg.block)
          /\ \E R \in Reached(n) : net' = (net \ {msg}) \cup RequestsFor(n, msg.block, R)
          /\ UNCHANGED <<peers, minerVars, broadcast, used>>
    BY <1>12 DEF ReceiveBlock, InFlight
  <2> DEFINE b == msg.block
  <2>2. b \in Known
    BY <1>3, <2>1
  <2>3. msg = BlockMsg(n, b)
    <3>1. msg \in [type : {"block"}, to : Node, block : Block]
      BY <1>0, <2>1 DEF TypeOK, Message
    <3> QED
      BY <2>1, <3>1 DEF BlockMsg
  <2>4. /\ \A other \in net' : other.type = "block" => other \in net
        /\ \A other \in net \ net' : other = BlockMsg(n, b)
    BY <1>10, <2>1, <2>3
  <2> HIDE DEF b
  <2>5. ForkState'
    BY <1>0, <1>2, <2>1, <2>2, <2>4, AddForkState DEF b
  <2>6. TwoNodes => Heard'
    BY <1>0, <1>2, <2>1, <2>2, <2>4, AddHeard DEF b
  <2> QED
    BY <2>5, <2>6
<1>13. ASSUME NEW n \in Node, SyncChain(n)
       PROVE  ForkState' /\ (TwoNodes => Heard')
  <2>1. UNCHANGED <<peers, chain, pendingBlocks, stuck, broadcast, used, mined, minerPc>>
    BY <1>13 DEF SyncChain, nodeVars, minerVars
  <2>2. PICK R \in Reached(n) : net' = net \cup
          {SyncReq(n, p, Tip(n).index + 1, Tip(n).index + 100) : p \in R}
    BY <1>13 DEF SyncChain, InFlight
  <2>3. /\ \A msg \in net' : msg.type = "block" => msg \in net
        /\ net \ net' = {}
    BY <2>2 DEF SyncReq
  <2> QED
    BY <1>0, <1>2, <1>3, <2>1, <2>3, QuietForkState, QuietHeard
<1>14. ASSUME NEW n \in Node, AnswerSyncReq(n)
       PROVE  ForkState' /\ (TwoNodes => Heard')
  <2>1. UNCHANGED <<peers, chain, pendingBlocks, stuck, broadcast, used, mined, minerPc>>
    BY <1>14 DEF AnswerSyncReq, nodeVars, minerVars
  <2>2. PICK req \in net : \E S \in SUBSET InRange(n, req.lo, req.hi) :
          /\ req.type = "syncReq"
          /\ net' = (net \ {req}) \cup {BlockMsg(req.from, b) : b \in S}
    BY <1>14 DEF AnswerSyncReq, InFlight
  <2>3. InRange(n, req.lo, req.hi) \subseteq Known
    <3>1. \A j \in DOMAIN chain[n] : chain[n][j] \in Known
      BY <1>0, <1>2, TipKnown DEF ForkState, Circulating
    <3> QED
      BY <3>1 DEF InRange, BlocksOf
  <2>4. \A msg \in net' : msg.type = "block" => msg.block \in Known
    BY <1>3, <2>2, <2>3 DEF BlockMsg
  <2>5. \A msg \in net \ net' : msg.type # "block"
    BY <2>2
  <2> QED
    BY <1>0, <1>2, <2>1, <2>4, <2>5, QuietForkState, QuietHeard
<1>15. CASE UNCHANGED vars
  BY <1>4, <1>15 DEF vars, nodeVars, minerVars
<1> QED
  BY <1>1, <1>5, <1>6, <1>7, <1>8, <1>9, <1>11, <1>12, <1>13, <1>14, <1>15 DEF Next

\* Of two sibling tips the better one was broadcast by the node that holds it, and
\* then the other node, having been dialled by it and so heard of it, does not hold the
\* worse one; or by the other node, which then has added it.
LEMMA ForkSettled ==
  ASSUME TypeOK, ForkState, Heard, TwoNodes, NEW n \in Node, NEW m \in Node,
         Sibling(Tip(n), Tip(m)), Better(Tip(n), Tip(m)), Node = {n, m}, m \in peers[n],
         \A msg \in net : msg.type # "block", minerPc[m] = "idle", ~stuck[m]
  PROVE  FALSE
<1> DEFINE x == Tip(n)
           y == Tip(m)
<1>1. /\ x \in Known /\ x \in Block /\ x.index \in Nat /\ y \in Known /\ y \in Block
      /\ y.index \in Nat
  BY TipKnown DEF ForkState
<1>2. x.index = y.index /\ x.hash # y.hash /\ x.prev = y.prev
  BY DEF Sibling
<1>3. x # Genesis
  BY <1>1, <1>2, KnownIndex, GenesisType DEF ForkState
<1>4. PICK p \in Known : p.hash = x.prev /\ x.index = p.index + 1
  BY <1>3 DEF ForkState, TipGood, Good
<1>5. p.index \in Nat /\ n # m
  BY <1>2, <1>4, KnownMember
<1>6. ~(y = x \/ Better(y, x))
  BY <1>1, <1>2, BetterFacts
<1>7. CASE x \in broadcast[n]
  <2>1. Delivered(n, m, x)
    <3>1. BlockMsg(m, x) \notin net
      BY DEF BlockMsg
    <3>2. \A z \in broadcast[n] : z.index = x.index /\ x.index > 1 => Good(z)
      BY <1>7 DEF ForkState, BadBlocks, BadOf
    <3> QED
      BY <3>1, <3>2 DEF Delivered
  <2>2. HeardOf(m, x, p)
    BY <1>4, <1>5, <1>7, <2>1 DEF Heard
  <2> QED
    BY <1>1, <1>2, <1>4, <1>5, <1>6, <2>2 DEF HeardOf
<1>8. CASE x \in broadcast[m]
  <2>1. OwnOf(m, x, p)
    BY <1>4, <1>8 DEF ForkState, Own
  <2> QED
    BY <1>2, <1>4, <1>6, <2>1 DEF OwnOf
<1> QED
  BY <1>1, <1>3, <1>7, <1>8, KnownCases

\* Once no block is on its way and both mining loops are idle, in a network of two that
\* loses nothing the node that was dialled is not left on the worse of two sibling tips:
\* the comparison of stake and hash in AddBlock has moved it, whatever the order in
\* which blocks, answers and its own blocks reached it.
THEOREM ForksSettle == Spec => []ForkChoiceSettles
<1>1. Inv /\ ForkInv => ForkChoiceSettles
  <2> SUFFICES ASSUME Inv, ForkInv, NEW n \in Node, NEW m \in Node, Node = {n, m},
                      m \in peers[n], ~Lossy, restarts = 0,
                      \A msg \in net : msg.type # "block",
                      minerPc[n] = "idle", minerPc[m] = "idle", ~stuck[n], ~stuck[m],
                      Sibling(Tip(n), Tip(m)), Outranks(Tip(n), Tip(m))
               PROVE  FALSE
    BY DEF ForkChoiceSettles
  <2>1. TwoNodes
    BY DEF TwoNodes
  <2>2. TypeOK /\ ForkState /\ Heard
    BY <2>1 DEF Inv, ForkInv
  <2>3. Better(Tip(n), Tip(m))
    BY DEF Better, Outranks
  <2> QED
    BY <2>1, <2>2, <2>3, ForkSettled
<1> QED
  BY <1>1, InitInv, NextInv, ForkInit, ForkNext, PTL DEF Spec
-----------------------------------------------------------------------------
(***************************************************************************)
(* A network in which one node mines and keeps running, as in              *)
(* chain_catchup: the others may restart and messages be lost. Its blocks  *)
(* form one line, one block for each height. Whatever a node holds, queues *)
(* or is sent is of that line, so that there is no sibling to switch to    *)
(* and no block that could make handleFork wait for its own lock.          *)
(***************************************************************************)

\* One block for each height.
OneLine == \A x, y \in Known : x.index = y.index => x = y

\* All that node n holds is of the line, and its chain starts at the genesis block.
Holds(n) ==
  /\ ~stuck[n]
  /\ \A i \in 1 .. Len(chain[n]) : chain[n][i] \in Known /\ chain[n][i].index = i - 1
  /\ \A i \in Index : pendingBlocks[n][i] \in Known \cup {NoBlock}
  /\ \A i \in 1 .. Len(applied[n]) : applied[n][i] \in Known

HeldLine ==
  /\ \A n \in Node : Holds(n)
  /\ \A msg \in net : msg.type = "block" => msg.block \in Known

OthersIdle == \A n \in Node \ Gateway : pendingTxs[n] = <<>> /\ minerPc[n] = "idle"

Extends(b, t) == b.index = t.index + 1 /\ b.prev = t.hash

\* The miner is behind the line only by the block it has sent and not yet added, which
\* may have come back to it from another node.
MinerLeads ==
  \A g \in Gateway :
    /\ \A x \in Known : x.index <= Tip(g).index \/ (minerPc[g] = "sent" /\ x = mined[g])
    /\ minerPc[g] = "mined" => Extends(mined[g], Tip(g))
    /\ minerPc[g] = "sent" =>
         mined[g] \in Known /\ (mined[g] = Tip(g) \/ Extends(mined[g], Tip(g)))

LineState == OneLine /\ HeldLine /\ OthersIdle /\ MinerLeads

LineInv == OneMiner => LineState

\* What a node makes of a block of the line: nothing, or it is queued, or the chain
\* grows by blocks of the line.
LEMMA LineAdd ==
  ASSUME TypeOK, ChainInv, OneLine, NEW n \in Node, Holds(n), NEW b \in Known, AddBlock(n, b),
         broadcast' = broadcast
  PROVE  /\ Holds(n)'
         /\ \/ Stays(n)
            \/ Extends(b, Tip(n)) /\ Tip(n)'.index >= b.index
         /\ Extends(b, Tip(n)) => Tip(n)'.index >= b.index
<1>0. Known' = Known /\ b \in Block /\ b.index \in Nat /\ Tip(n) \in Block /\ Tip(n).index \in Nat
  <2>1. Tip(n) \in Block
    BY TipType DEF TypeOK
  <2> QED
    BY <2>1, KnownSame, KnownMember, BlockType
<1>1. Tip(n) \in Known /\ Tip(n).index = Len(chain[n]) - 1 /\ Len(chain[n]) \in Nat
  <2>1. Len(chain[n]) \in Nat /\ Len(chain[n]) >= 1
    BY TipType DEF TypeOK
  <2>2. Len(chain[n]) \in 1 .. Len(chain[n])
    BY <2>1
  <2> QED
    BY <2>1, <2>2 DEF Holds, Tip
<1>2. b.index = Tip(n).index => b = Tip(n)
  BY <1>1 DEF OneLine
<1>3. CASE IgnoreBlock(n, b)
  <2>1. Holds(n)'
    BY <1>0, <1>3 DEF IgnoreBlock, nodeVars, Holds
  <2>2. Stays(n) /\ ~Extends(b, Tip(n))
    BY <1>0, <1>3 DEF IgnoreBlock, nodeVars, Stays, Tip, Extends, Sibling
  <2> QED
    BY <2>1, <2>2
<1>4. CASE reorganizeToFork(n, b)
  BY <1>2, <1>4 DEF reorganizeToFork, Sibling
<1>5. CASE handleFork(n, b)
  BY <1>2, <1>5 DEF handleFork
<1>6. CASE QueueBlock(n, b)
  <2>1. \A i \in Index : pendingBlocks'[n][i] \in {pendingBlocks[n][i], b}
    BY <1>6 DEF QueueBlock, TypeOK, NodeTypeOK
  <2>2. Holds(n)'
    BY <1>0, <1>6, <2>1 DEF QueueBlock, Holds
  <2>3. Stays(n) /\ ~Extends(b, Tip(n))
    BY <1>0, <1>6 DEF QueueBlock, Stays, Tip, Extends
  <2> QED
    BY <2>2, <2>3
<1>7. CASE AppendBlock(n, b)
  <2>1. PICK k \in 0 .. MaxIndex : Appended(n, b, k)
    BY <1>0, <1>7, AppendShape
  <2>2. /\ Extends(b, Tip(n)) /\ ~stuck'[n]
        /\ applied' = [applied EXCEPT ![n] = Append(applied[n], b)]
    BY <1>7 DEF AppendBlock, Extends, Holds
  <2>3. k \in Nat /\ MaxIndex \in Nat
    BY ChainAssumption
  <2>4. \A i \in 1 .. k : pendingBlocks[n][b.index + i] \in Known
    <3> SUFFICES ASSUME NEW i \in 1 .. k
                 PROVE  pendingBlocks[n][b.index + i] \in Known
      OBVIOUS
    <3>1. b.index + k \in Index /\ pendingBlocks[n][b.index + i] # NoBlock
      BY <2>1 DEF Appended, LinkedRun
    <3>2. b.index + i \in Index
      BY <1>0, <2>3, <3>1 DEF Index
    <3> QED
      BY <3>1, <3>2 DEF Holds
  <2>5. \A i \in 1 .. Len(chain'[n]) : chain'[n][i] \in Known /\ chain'[n][i].index = i - 1
    <3> SUFFICES ASSUME NEW i \in 1 .. Len(chain[n]) + 1 + k
                 PROVE  chain'[n][i] \in Known /\ chain'[n][i].index = i - 1
      BY <2>1 DEF Appended
    <3>1. CASE i \in 1 .. Len(chain[n])
      BY <2>1, <3>1 DEF Appended, Holds
    <3>2. CASE i = Len(chain[n]) + 1
      <4>1. chain'[n][i] = b
        BY <2>1, <3>2 DEF Appended
      <4> QED
        BY <1>0, <1>1, <2>2, <3>2, <4>1 DEF Extends
    <3>3. CASE i > Len(chain[n]) + 1
      <4> DEFINE j == i - Len(chain[n]) - 1
      <4>0. i \in Nat /\ i <= Len(chain[n]) + 1 + k
        BY <1>1, <2>3
      <4>1. j \in 1 .. k /\ i = Len(chain[n]) + 1 + j
        BY <1>1, <2>3, <3>3, <4>0, PastTip
      <4> HIDE DEF j
      <4>2. chain'[n][i] = pendingBlocks[n][b.index + j] /\ chain'[n][i].index = b.index + j
        BY <2>1, <4>1 DEF Appended
      <4> QED
        BY <1>0, <1>1, <2>2, <2>4, <4>1, <4>2 DEF Extends
    <3> QED
      BY <1>1, <2>3, <3>1, <3>2, <3>3
  <2>6. \A i \in Index : pendingBlocks'[n][i] \in {pendingBlocks[n][i], NoBlock}
    <3>1. pendingBlocks'[n] = [i \in Index |-> IF i \in Dequeued(b, k) THEN NoBlock ELSE pendingBlocks[n][i]]
      BY <2>1 DEF Appended, TypeOK, NodeTypeOK
    <3> QED
      BY <3>1
  <2>7. \A i \in 1 .. Len(applied'[n]) : applied'[n][i] \in Known
    <3>1. applied'[n] = Append(applied[n], b) /\ applied[n] \in Seq(Block)
      BY <2>2 DEF TypeOK, NodeTypeOK
    <3> QED
      BY <1>0, <3>1 DEF Holds
  <2>8. Holds(n)'
    BY <1>0, <2>2, <2>5, <2>6, <2>7 DEF Holds
  <2>9. Tip(n)'.index >= b.index
    BY <1>0, <2>1, <2>3 DEF Appended
  <2> QED
    BY <2>2, <2>8, <2>9
<1> QED
  BY <1>3, <1>4, <1>5, <1>6, <1>7 DEF AddBlock

\* AddBlock leaves what the other nodes hold.
LEMMA LineElsewhere ==
  ASSUME TypeOK, ChainInv, NEW n \in Node, NEW b \in Block, AddBlock(n, b), broadcast' = broadcast,
         NEW m \in Node, m # n, Holds(m)
  PROVE  Holds(m)'
<1>1. applied'[m] = applied[m]
  BY DEF AddBlock, IgnoreBlock, reorganizeToFork, handleFork, QueueBlock, AppendBlock, nodeVars,
         TypeOK, NodeTypeOK
<1> QED
  BY <1>1, AddBlockElsewhere, KnownSame DEF Holds

LEMMA OthersAdd ==
  ASSUME TypeOK, NEW n \in Node, NEW b, AddBlock(n, b), OthersIdle,
         \A m \in Node \ Gateway : minerPc'[m] \in {minerPc[m], "idle"}
  PROVE  OthersIdle'
<1>1. \A m \in Node : pendingTxs'[m] \in {pendingTxs[m], <<>>}
  BY DEF AddBlock, IgnoreBlock, reorganizeToFork, handleFork, QueueBlock, AppendBlock, nodeVars,
         TypeOK, NodeTypeOK
<1> QED
  BY <1>1 DEF OthersIdle

LEMMA LineInit == Init => LineInv
<1> SUFFICES ASSUME Init
             PROVE  LineState
  BY DEF LineInv
<1>1. Known = {Genesis} /\ \A n \in Node : Tip(n) = Genesis
  BY DEF Init, Known, Tip
<1>2. OneLine
  BY <1>1 DEF OneLine
<1>3. HeldLine
  BY <1>1, GenesisType DEF Init, HeldLine, Holds
<1>4. OthersIdle
  BY DEF Init, OthersIdle
<1>5. MinerLeads
  BY <1>1, GenesisType, ChainAssumption DEF Init, MinerLeads
<1> QED
  BY <1>2, <1>3, <1>4, <1>5 DEF LineState

\* Steps that change neither what a node holds nor what the miner is doing.
LEMMA QuietLine ==
  ASSUME LineState, UNCHANGED <<chain, pendingBlocks, stuck, applied, broadcast>>,
         \A g \in Gateway : minerPc'[g] \in {"mined", "sent"} => minerPc'[g] = minerPc[g] /\ mined'[g] = mined[g],
         \A g \in Gateway : minerPc[g] = "sent" => minerPc'[g] = "sent",
         OthersIdle', \A msg \in net' : msg.type = "block" => msg.block \in Known
  PROVE  LineState'
<1>1. Known' = Known /\ \A n \in Node : Tip(n)' = Tip(n)
  BY KnownSame DEF Tip
<1>2. OneLine' /\ HeldLine'
  BY <1>1 DEF LineState, OneLine, HeldLine, Holds
<1>3. MinerLeads'
  <2> SUFFICES ASSUME NEW g \in Gateway
               PROVE  /\ \A x \in Known : x.index <= Tip(g).index \/ (minerPc'[g] = "sent" /\ x = mined'[g])
                      /\ minerPc'[g] = "mined" => Extends(mined'[g], Tip(g))
                      /\ minerPc'[g] = "sent" =>
                           mined'[g] \in Known /\ (mined'[g] = Tip(g) \/ Extends(mined'[g], Tip(g)))
    BY <1>1, ChainAssumption DEF MinerLeads, Extends
  <2> QED
    BY DEF LineState, MinerLeads
<1> QED
  BY <1>2, <1>3 DEF LineState

LEMMA RequestsOnly ==
  ASSUME NEW n \in Node, NEW b, NEW R
  PROVE  \A msg \in RequestsFor(n, b, R) : msg.type # "block"
BY DEF RequestsFor, SyncReq

\* A block that is received, by the miner or another node.
LEMMA ReceivedLine ==
  ASSUME TypeOK, ChainInv, OneMiner, LineState, NEW n \in Node, NEW b \in Known, AddBlock(n, b),
         UNCHANGED <<broadcast, minerPc, mined>>,
         \A msg \in net' : msg.type = "block" => msg \in net
  PROVE  LineState'
<1>0. /\ OneLine /\ HeldLine /\ OthersIdle /\ MinerLeads /\ Holds(n) /\ b \in Block
      /\ Known' = Known
  BY KnownMember, KnownSame DEF LineState, HeldLine
<1>1. OneLine' /\ OthersIdle'
  <2>1. OthersIdle'
    BY <1>0, OthersAdd
  <2> QED
    BY <1>0, <2>1 DEF OneLine
<1>2. /\ Holds(n)'
      /\ Stays(n) \/ (Extends(b, Tip(n)) /\ Tip(n)'.index >= b.index)
  BY <1>0, LineAdd
<1>3. HeldLine'
  <2>1. \A m \in Node \ {n} : Holds(m)'
    BY <1>0, LineElsewhere DEF HeldLine
  <2> QED
    BY <1>0, <1>2, <2>1 DEF HeldLine
<1>4. MinerLeads'
  <2> SUFFICES ASSUME NEW g \in Gateway
               PROVE  /\ \A x \in Known : x.index <= Tip(g)'.index \/ (minerPc[g] = "sent" /\ x = mined[g])
                      /\ minerPc[g] = "mined" => Extends(mined[g], Tip(g)')
                      /\ minerPc[g] = "sent" =>
                           mined[g] \in Known /\ (mined[g] = Tip(g)' \/ Extends(mined[g], Tip(g)'))
    BY <1>0 DEF MinerLeads, Extends
  <2>0. g \in Node
    BY ChainAssumption
  <2>1. /\ \A x \in Known : x.index <= Tip(g).index \/ (minerPc[g] = "sent" /\ x = mined[g])
        /\ minerPc[g] = "mined" => Extends(mined[g], Tip(g))
        /\ minerPc[g] = "sent" =>
             mined[g] \in Known /\ (mined[g] = Tip(g) \/ Extends(mined[g], Tip(g)))
    BY <1>0 DEF MinerLeads
  <2>2. CASE Tip(g)' = Tip(g)
    BY <2>1, <2>2
  <2>3. CASE Tip(g)' # Tip(g)
    <3>1. g = n
      BY <1>0, <2>0, <2>3, AddBlockElsewhere
    <3>2. Extends(b, Tip(g)) /\ Tip(g)'.index >= b.index
      BY <1>2, <2>3, <3>1 DEF Stays
    <3>3. Tip(g)' \in Known /\ Tip(g)'.index \in Nat /\ Tip(g).index \in Nat /\ b.index \in Nat
      <4>1. Len(chain'[g]) \in 1 .. Len(chain'[g])
        <5>1. ChainInv'
          BY <1>0, AddBlockInv
        <5>2. chain'[g] \in Seq(Block) \ {<<>>}
          BY <2>0, <5>1 DEF ChainInv, NodeTypeOK
        <5> QED
          BY <5>2
      <4>2. Tip(g)' \in Known
        BY <1>0, <1>2, <3>1, <4>1 DEF Holds, Tip
      <4>3. Tip(g) \in Block
        BY <2>0, TipType DEF TypeOK
      <4> QED
        BY <1>0, <4>2, <4>3, KnownMember, BlockType
    <3>4. \A x \in Known : x.index \in Nat
      BY KnownMember
    <3>5. minerPc[g] = "sent" /\ Tip(g)' = mined[g]
      BY <2>1, <3>2, <3>3 DEF Extends
    <3> QED
      BY <2>1, <3>2, <3>3, <3>4, <3>5 DEF Extends
  <2> QED
    BY <2>2, <2>3
<1> QED
  BY <1>1, <1>3, <1>4 DEF LineState

\* The miner adds its own block, unless it has got it back before.
LEMMA AddMinedLine ==
  ASSUME TypeOK, ChainInv, OneMiner, LineState, NEW n \in Node, AddMined(n)
  PROVE  LineState'
<1> DEFINE b == mined[n]
<1>0. /\ OneLine /\ HeldLine /\ OthersIdle /\ MinerLeads /\ Holds(n) /\ n \in Gateway
      /\ Known' = Known /\ broadcast' = broadcast /\ AddBlock(n, b) /\ minerPc[n] = "sent"
      /\ minerPc' = [minerPc EXCEPT ![n] = "idle"]
  BY KnownSame DEF LineState, HeldLine, OthersIdle, AddMined
<1>1. b \in Known /\ b \in Block /\ (b = Tip(n) \/ Extends(b, Tip(n)))
  <2>1. b \in Known /\ (b = Tip(n) \/ Extends(b, Tip(n)))
    BY <1>0 DEF MinerLeads
  <2> QED
    BY <2>1, KnownMember
<1>2. \A msg \in net' : msg.type = "block" => msg \in net
  <2>1. PICK R \in Reached(n) : net' = net \cup RequestsFor(n, b, R)
    BY DEF AddMined, InFlight
  <2> QED
    BY <2>1, RequestsOnly
<1> HIDE DEF b
<1>3. OneLine' /\ OthersIdle'
  <2>1. \A m \in Node \ Gateway : minerPc'[m] \in {minerPc[m], "idle"}
    BY <1>0 DEF TypeOK
  <2>2. OthersIdle'
    BY <1>0, <2>1, OthersAdd
  <2> QED
    BY <1>0, <2>2 DEF OneLine
<1>4. /\ Holds(n)'
      /\ Stays(n) \/ (Extends(b, Tip(n)) /\ Tip(n)'.index >= b.index)
      /\ Extends(b, Tip(n)) => Tip(n)'.index >= b.index
  BY <1>0, <1>1, LineAdd
<1>5. HeldLine'
  <2>1. \A m \in Node \ {n} : Holds(m)'
    BY <1>0, <1>1, LineElsewhere DEF HeldLine
  <2> QED
    BY <1>0, <1>2, <1>4, <2>1 DEF HeldLine
<1>6. \A x \in Known : x.index <= Tip(n)'.index
  <2> SUFFICES ASSUME NEW x \in Known
               PROVE  x.index <= Tip(n)'.index
    OBVIOUS
  <2>1. x.index \in Nat /\ b.index \in Nat /\ Tip(n).index \in Nat
    BY <1>1, KnownMember, TipType, BlockType DEF TypeOK
  <2>2. Tip(n)'.index \in Nat
    <3>1. ChainInv'
      BY <1>0, <1>1, AddBlockInv
    <3>2. Tip(n)' \in Block
      <4>1. chain'[n] \in Seq(Block) \ {<<>>}
        BY <3>1 DEF ChainInv, NodeTypeOK
      <4> QED
        BY <4>1 DEF Tip
    <3> QED
      BY <3>2, BlockType
  <2>3. x.index <= Tip(n).index \/ x = b
    BY <1>0 DEF MinerLeads, b
  <2>4. Tip(n)'.index >= Tip(n).index /\ Tip(n)'.index >= b.index
    BY <1>1, <1>4, <2>1, <2>2 DEF Stays, Extends
  <2> QED
    BY <2>1, <2>2, <2>3, <2>4
<1>7. MinerLeads'
  <2>1. \A g \in Gateway : g = n
    BY <1>0 DEF OneMiner
  <2>2. minerPc'[n] = "idle"
    BY <1>0 DEF TypeOK
  <2> QED
    BY <1>0, <1>6, <2>1, <2>2 DEF MinerLeads
<1> QED
  BY <1>3, <1>5, <1>7 DEF LineState

\* The block of the miner is the first of its height.
LEMMA BroadcastLine ==
  ASSUME TypeOK, ChainInv, OneMiner, LineState, NEW n \in Node, BroadcastBlock(n)
  PROVE  LineState'
<1> DEFINE b == mined[n]
<1>0. /\ OneLine /\ HeldLine /\ OthersIdle /\ MinerLeads /\ n \in Gateway
      /\ minerPc[n] = "mined" /\ minerPc' = [minerPc EXCEPT ![n] = "sent"]
      /\ broadcast' = [broadcast EXCEPT ![n] = @ \cup {b}]
      /\ UNCHANGED <<chain, pendingTxs, pendingBlocks, stuck, applied, mined>>
  BY DEF LineState, OthersIdle, BroadcastBlock, nodeVars
<1>1. Known' = Known \cup {b}
  BY <1>0 DEF Known, TypeOK
<1>2. /\ Extends(b, Tip(n)) /\ Tip(n).index \in Nat /\ b.index = Tip(n).index + 1
      /\ \A x \in Known : x.index <= Tip(n).index /\ x.index \in Nat
  <2>1. Extends(b, Tip(n)) /\ \A x \in Known : x.index <= Tip(n).index
    BY <1>0 DEF MinerLeads
  <2> QED
    BY <2>1, TipType, BlockType, KnownMember DEF TypeOK, Extends
<1>3. OneLine'
  BY <1>0, <1>1, <1>2 DEF OneLine
<1>4. HeldLine'
  <2>1. \A m \in Node : Holds(m)'
    BY <1>0, <1>1 DEF HeldLine, Holds
  <2>2. PICK R \in Reached(n) : net' = net \cup {BlockMsg(p, b) : p \in R}
    BY DEF BroadcastBlock, InFlight
  <2>3. \A msg \in net' : msg.type = "block" => msg.block \in Known \cup {b}
    BY <1>0, <2>2 DEF HeldLine, BlockMsg
  <2> QED
    BY <1>1, <2>1, <2>3 DEF HeldLine
<1>5. OthersIdle'
  <2>1. \A m \in Node \ Gateway : minerPc'[m] = minerPc[m]
    BY <1>0 DEF TypeOK
  <2> QED
    BY <1>0, <2>1 DEF OthersIdle
<1>6. MinerLeads'
  <2>1. \A g \in Gateway : g = n
    BY <1>0 DEF OneMiner
  <2>2. minerPc'[n] = "sent" /\ mined'[n] = b /\ Tip(n)' = Tip(n)
    BY <1>0 DEF TypeOK, Tip
  <2> QED
    BY <1>0, <1>1, <1>2, <2>1, <2>2 DEF MinerLeads, Extends
<1> QED
  BY <1>3, <1>4, <1>5, <1>6 DEF LineState

LEMMA MineLine ==
  ASSUME TypeOK, ChainInv, OneMiner, LineState, NEW n \in Node, MineBlock(n)
  PROVE  LineState'
<1>0. /\ OneLine /\ HeldLine /\ OthersIdle /\ MinerLeads /\ n \in Gateway
      /\ minerPc[n] = "tick" /\ minerPc' = [minerPc EXCEPT ![n] = "mined"]
      /\ UNCHANGED <<chain, pendingTxs, pendingBlocks, stuck, applied, broadcast, net>>
  BY DEF LineState, OthersIdle, MineBlock, nodeVars
<1>1. Known' = Known /\ Tip(n)' = Tip(n)
  BY <1>0, KnownSame DEF Tip
<1>2. Extends(mined'[n], Tip(n))
  <2>1. Len(chain[n]) = Tip(n).index + 1
    <3>1. Len(chain[n]) \in Nat /\ Len(chain[n]) \in 1 .. Len(chain[n])
      BY TipType DEF TypeOK
    <3>2. Tip(n).index = Len(chain[n]) - 1
      BY <1>0, <3>1 DEF HeldLine, Holds, Tip
    <3> QED
      BY <3>1, <3>2
  <2>2. mined'[n].index = Len(chain[n]) /\ mined'[n].prev = Tip(n).hash
    BY DEF MineBlock, TypeOK
  <2> QED
    BY <2>1, <2>2 DEF Extends
<1>3. OneLine' /\ HeldLine'
  BY <1>0, <1>1 DEF OneLine, HeldLine, Holds
<1>4. OthersIdle'
  <2>1. \A m \in Node \ Gateway : minerPc'[m] = minerPc[m]
    BY <1>0 DEF TypeOK
  <2> QED
    BY <1>0, <2>1 DEF OthersIdle
<1>5. MinerLeads'
  <2>1. \A g \in Gateway : g = n
    BY <1>0 DEF OneMiner
  <2>2. minerPc'[n] = "mined"
    BY <1>0 DEF TypeOK
  <2> QED
    BY <1>0, <1>1, <1>2, <2>1, <2>2 DEF MinerLeads, Extends
<1> QED
  BY <1>3, <1>4, <1>5 DEF LineState

\* Only another node restarts; it starts again from the genesis block.
LEMMA RestartLine ==
  ASSUME TypeOK, OneMiner, LineState, NEW n \in Node, Restart(n)
  PROVE  LineState'
<1>0. /\ OneLine /\ HeldLine /\ OthersIdle /\ MinerLeads /\ n \notin Gateway
      /\ Known' = Known /\ \A msg \in net' : msg \in net
  BY KnownSame DEF LineState, OneMiner, Restart
<1>1. OneLine' /\ HeldLine'
  <2>1. Holds(n)'
    <3>1. /\ chain'[n] = <<Genesis>> /\ ~stuck'[n] /\ applied'[n] = <<>>
          /\ \A i \in Index : pendingBlocks'[n][i] = NoBlock
      BY DEF Restart, TypeOK, NodeTypeOK
    <3>2. Len(chain'[n]) = 1 /\ chain'[n][1] = Genesis /\ Genesis \in Known /\ Genesis.index = 0
      BY <3>1, GenesisType DEF Known
    <3> QED
      BY <1>0, <3>1, <3>2 DEF Holds
  <2>2. \A m \in Node \ {n} : Holds(m)'
    <3> SUFFICES ASSUME NEW m \in Node \ {n}
                 PROVE  Holds(m)'
      OBVIOUS
    <3>1. /\ chain'[m] = chain[m] /\ stuck'[m] = stuck[m] /\ applied'[m] = applied[m]
          /\ pendingBlocks'[m] = pendingBlocks[m]
      BY DEF Restart, TypeOK, NodeTypeOK
    <3> QED
      BY <1>0, <3>1 DEF HeldLine, Holds
  <2> QED
    BY <1>0, <2>1, <2>2 DEF OneLine, HeldLine
<1>2. OthersIdle'
  BY <1>0 DEF OthersIdle, Restart, TypeOK, NodeTypeOK
<1>3. MinerLeads'
  <2>1. \A g \in Gateway : minerPc'[g] = minerPc[g] /\ mined'[g] = mined[g] /\ Tip(g)' = Tip(g)
    BY <1>0, ChainAssumption DEF Restart, TypeOK, NodeTypeOK, Tip
  <2> QED
    BY <1>0, <2>1 DEF MinerLeads, Extends
<1> QED
  BY <1>1, <1>2, <1>3 DEF LineState

LEMMA LineNext == Inv /\ LineInv /\ [Next]_vars => LineInv'
<1> SUFFICES ASSUME Inv, LineState, OneMiner, [Next]_vars
             PROVE  LineState'
  BY DEF LineInv, OneMiner
<1>0. /\ ChainInv /\ TypeOK /\ OthersIdle
      /\ \A msg \in net : msg.type = "block" => msg.block \in Known
  BY DEF Inv, LineState, HeldLine
<1>1. ASSUME UNCHANGED <<chain, pendingTxs, pendingBlocks, stuck, applied, broadcast, minerPc, mined>>,
             \A msg \in net' : msg.type = "block" => msg.block \in Known
      PROVE  LineState'
  <2>1. OthersIdle'
    BY <1>0, <1>1 DEF OthersIdle
  <2> QED
    BY <1>1, <2>1, QuietLine
<1>2. ASSUME NEW n \in Node, NEW t \in Tx, ReceiveTx(n, t)
      PROVE  LineState'
  <2>1. OthersIdle'
    BY <1>0, <1>2 DEF OthersIdle, ReceiveTx, minerVars, TypeOK, NodeTypeOK
  <2>2. UNCHANGED <<chain, pendingBlocks, stuck, applied, broadcast, minerPc, mined, net>>
    BY <1>2 DEF ReceiveTx, minerVars
  <2> QED
    BY <1>0, <2>1, <2>2, QuietLine
<1>3. ASSUME NEW n \in Node, MiningTick(n)
      PROVE  LineState'
  <2>1. /\ UNCHANGED <<chain, pendingTxs, pendingBlocks, stuck, applied, broadcast, mined, net>>
        /\ minerPc[n] = "idle" /\ minerPc' = [minerPc EXCEPT ![n] = "tick"]
        /\ pendingTxs[n] # <<>>
    BY <1>3 DEF MiningTick, nodeVars
  <2>2. OthersIdle'
    BY <1>0, <2>1 DEF OthersIdle, TypeOK
  <2>3. \A g \in Node : /\ minerPc'[g] \in {"mined", "sent"} => minerPc'[g] = minerPc[g] /\ mined'[g] = mined[g]
                        /\ minerPc[g] = "sent" => minerPc'[g] = "sent"
    BY <1>0, <2>1 DEF TypeOK
  <2> QED
    BY <1>0, <2>1, <2>2, <2>3, QuietLine, ChainAssumption
<1>4. ASSUME NEW n \in Node, MineBlock(n)
      PROVE  LineState'
  BY <1>0, <1>4, MineLine
<1>5. ASSUME NEW n \in Node, BroadcastBlock(n)
      PROVE  LineState'
  BY <1>0, <1>5, BroadcastLine
<1>6. ASSUME NEW n \in Node, DropMined(n)
      PROVE  LineState'
  <2>1. /\ UNCHANGED <<chain, pendingTxs, pendingBlocks, stuck, applied, broadcast, net>>
        /\ minerPc[n] = "mined" /\ minerPc' = [minerPc EXCEPT ![n] = "idle"]
        /\ mined' = [mined EXCEPT ![n] = NoBlock]
    BY <1>6 DEF DropMined, nodeVars
  <2>2. OthersIdle'
    BY <1>0, <2>1 DEF OthersIdle, TypeOK
  <2>3. \A g \in Node : /\ minerPc'[g] \in {"mined", "sent"} => minerPc'[g] = minerPc[g] /\ mined'[g] = mined[g]
                        /\ minerPc[g] = "sent" => minerPc'[g] = "sent"
    BY <1>0, <2>1 DEF TypeOK
  <2> QED
    BY <1>0, <2>1, <2>2, <2>3, QuietLine, ChainAssumption
<1>7. ASSUME NEW n \in Node, AddMined(n)
      PROVE  LineState'
  BY <1>0, <1>7, AddMinedLine
<1>8. ASSUME NEW n \in Node, NEW i \in Index, ReceiveBlock(n, i)
      PROVE  LineState'
  <2>1. PICK msg \in net :
          /\ msg.type = "block" /\ AddBlock(n, msg.block)
          /\ \E R \in Reached(n) : net' = (net \ {msg}) \cup RequestsFor(n, msg.block, R)
          /\ UNCHANGED <<minerVars, broadcast>>
    BY <1>8 DEF ReceiveBlock, InFlight
  <2>2. msg.block \in Known
    BY <1>0, <2>1
  <2>3. \A other \in net' : other.type = "block" => other \in net
    BY <2>1, RequestsOnly
  <2> QED
    BY <1>0, <2>1, <2>2, <2>3, ReceivedLine DEF minerVars
<1>9. ASSUME NEW n \in Node, SyncChain(n)
      PROVE  LineState'
  <2>1. PICK R \in Reached(n) : net' = net \cup
          {SyncReq(n, p, Tip(n).index + 1, Tip(n).index + 100) : p \in R}
    BY <1>9 DEF SyncChain, InFlight
  <2>2. \A msg \in net' : msg.type = "block" => msg.block \in Known
    BY <1>0, <2>1 DEF SyncReq
  <2> QED
    BY <1>1, <1>9, <2>2 DEF SyncChain, nodeVars, minerVars
<1>10. ASSUME NEW n \in Node, AnswerSyncReq(n)
       PROVE  LineState'
  <2>1. PICK req \in net : \E S \in SUBSET InRange(n, req.lo, req.hi) :
          net' = (net \ {req}) \cup {BlockMsg(req.from, b) : b \in S}
    BY <1>10 DEF AnswerSyncReq, InFlight
  <2>2. InRange(n, req.lo, req.hi) \subseteq Known
    <3>1. Holds(n) /\ DOMAIN chain[n] = 1 .. Len(chain[n])
      BY <1>0, TipType DEF LineState, HeldLine, TypeOK
    <3> QED
      BY <3>1 DEF InRange, BlocksOf, Holds
  <2>3. \A msg \in net' : msg.type = "block" => msg.block \in Known
    BY <1>0, <2>1, <2>2 DEF BlockMsg
  <2> QED
    BY <1>1, <1>10, <2>3 DEF AnswerSyncReq, nodeVars, minerVars
<1>11. ASSUME NEW n \in Node, Restart(n)
       PROVE  LineState'
  BY <1>0, <1>11, RestartLine
<1>12. CASE UNCHANGED vars
  BY <1>0, <1>1, <1>12 DEF vars, nodeVars, minerVars
<1> QED
  BY <1>2, <1>3, <1>4, <1>5, <1>6, <1>7, <1>8, <1>9, <1>10, <1>11, <1>12 DEF Next

LEMMA HeightPosition ==
  ASSUME NEW h \in Nat, NEW l \in Nat, NEW t, t = l - 1, h <= t
  PROVE  h + 1 \in 1 .. l
OBVIOUS

\* With one mining node that is not restarted the nodes never disagree, though messages are
\* lost and the others start anew: the safety beside CatchUp. It is what lets a network
\* live with a fork choice that throws chains away and a handleFork that waits for its
\* own lock.
THEOREM OneMinerAgrees == Spec => []ReplicasAgree
<1>1. Inv /\ LineInv => ReplicasAgree
  <2> SUFFICES ASSUME Inv, LineState, OneMiner, NEW n \in Node
               PROVE  /\ \A m \in Node : \A i \in 1 .. Len(chain[n]) :
                           i <= Len(chain[m]) => chain[n][i] = chain[m][i]
                      /\ \A g \in Gateway : Len(chain[n]) <= Len(chain[g]) + 1
                      /\ \A i \in 1 .. Len(applied[n]) :
                           \E j \in 1 .. Len(chain[n]) : chain[n][j] = applied[n][i]
                      /\ ~stuck[n]
    BY DEF LineInv, ReplicasAgree
  <2>1. TypeOK /\ AppliedBelowTip /\ OneLine /\ MinerLeads /\ \A m \in Node : Holds(m)
    BY DEF Inv, ChainInv, LineState, HeldLine
  <2>2. \A m \in Node : /\ Len(chain[m]) \in Nat /\ Len(chain[m]) >= 1
                        /\ Tip(m) \in Known /\ Tip(m).index = Len(chain[m]) - 1
    <3> SUFFICES ASSUME NEW m \in Node
                 PROVE  /\ Len(chain[m]) \in Nat /\ Len(chain[m]) >= 1
                        /\ Tip(m) \in Known /\ Tip(m).index = Len(chain[m]) - 1
      OBVIOUS
    <3>1. Len(chain[m]) \in Nat /\ Len(chain[m]) >= 1
      BY <2>1, TipType DEF TypeOK
    <3>2. Len(chain[m]) \in 1 .. Len(chain[m])
      BY <3>1
    <3> QED
      BY <2>1, <3>1, <3>2 DEF Holds, Tip
  <2>3. ASSUME NEW m \in Node, NEW i \in 1 .. Len(chain[n]), i <= Len(chain[m])
        PROVE  chain[n][i] = chain[m][i]
    <3>1. i \in 1 .. Len(chain[m])
      BY <2>2, <2>3
    <3>2. /\ chain[n][i] \in Known /\ chain[n][i].index = i - 1
          /\ chain[m][i] \in Known /\ chain[m][i].index = i - 1
      BY <2>1, <3>1 DEF Holds
    <3> QED
      BY <2>1, <3>2 DEF OneLine
  <2>4. ASSUME NEW g \in Gateway
        PROVE  Len(chain[n]) <= Len(chain[g]) + 1
    <3>1. /\ g \in Node
          /\ \A x \in Known : x.index <= Tip(g).index \/ (minerPc[g] = "sent" /\ x = mined[g])
          /\ minerPc[g] = "sent" => mined[g] = Tip(g) \/ mined[g].index = Tip(g).index + 1
      BY <2>1, ChainAssumption DEF MinerLeads, Extends
    <3>2. Tip(n).index <= Tip(g).index + 1
      BY <2>2, <3>1
    <3> QED
      BY <2>2, <3>1, <3>2
  <2>5. ASSUME NEW i \in 1 .. Len(applied[n])
        PROVE  \E j \in 1 .. Len(chain[n]) : chain[n][j] = applied[n][i]
    <3>1. applied[n][i] \in Known /\ applied[n][i].index <= Tip(n).index
      BY <2>1 DEF Holds, AppliedBelowTip
    <3>2. applied[n][i].index \in Nat
      BY <2>1, <3>1, KnownMember
    <3>3. applied[n][i].index + 1 \in 1 .. Len(chain[n])
      BY <2>2, <3>1, <3>2, HeightPosition
    <3>4. /\ chain[n][applied[n][i].index + 1] \in Known
          /\ chain[n][applied[n][i].index + 1].index = applied[n][i].index
      BY <2>1, <3>2, <3>3 DEF Holds
    <3>5. chain[n][applied[n][i].index + 1] = applied[n][i]
      BY <2>1, <3>1, <3>4 DEF OneLine
    <3> QED
      BY <3>3, <3>5
  <2> QED
    BY <2>1, <2>3, <2>4, <2>5 DEF Holds
<1> QED
  BY <1>1, InitInv, NextInv, LineInit, LineNext, PTL DEF Spec
-----------------------------------------------------------------------------
(***************************************************************************)
(* What a token guarantees for any set of addresses and any word size: the *)
(* supply it reports is the sum of its balances, in one word, although     *)
(* mints recompute it, burns subtract from it and transfers may wrap.      *)
(***************************************************************************)

TokenInv == TokenTypeOK /\ SupplyIsCirculating

LEMMA WordFacts ==
  ASSUME TokenTypeOK
  PROVE  /\ balances \in [Addr -> Nat] /\ Total(balances) \in Nat
         /\ Word \in Nat \ {0} /\ Amount \subseteq Nat
         /\ \A a \in Addr : balances[a] \in Amount
         /\ \A x \in Nat : x % Word \in Amount
<1>1. Word \in Nat \ {0} /\ Amount \subseteq Nat /\ IsFiniteSet(Addr)
  BY TokenAssumption DEF Amount
<1>2. balances \in [Addr -> Nat] /\ \A a \in Addr : balances[a] \in Amount
  BY <1>1 DEF TokenTypeOK
<1>3. \A x \in Nat : x % Word \in Amount
  BY <1>1, RemainderSpec DEF Amount
<1> QED
  BY <1>1, <1>2, <1>3, TotalType

LEMMA TokenInitInv == TokenInit => TokenInv
<1> SUFFICES ASSUME TokenInit PROVE TokenInv
  OBVIOUS
<1> USE DEF TokenInit
<1>1. 0 \in Amount /\ Word \in Nat \ {0}
  BY TokenAssumption DEF Amount
<1>2. TokenTypeOK
  BY <1>1 DEF TokenTypeOK
<1>3. Total(balances) = 0
  <2>1. balances \in [Addr -> Nat] /\ \A a \in Addr : balances[a] = 0
    OBVIOUS
  <2> QED
    BY <2>1, TotalZero
<1>4. 0 % Word = 0
  BY <1>1, RemainderSmall DEF Amount
<1> QED
  BY <1>2, <1>3, <1>4 DEF TokenInv, SupplyIsCirculating, CirculatingSupply

\* What is left of a word after less than it is taken off.
LEMMA WordDifference ==
  ASSUME NEW w \in Nat \ {0}, NEW x \in 0 .. w - 1, NEW y \in 0 .. w - 1, x >= y
  PROVE  x - y \in 0 .. w - 1
OBVIOUS

\* A transfer keeps the sum, or loses one word of it when the receiver wraps.
LEMMA MovedTotal ==
  ASSUME TokenTypeOK, NEW from \in Addr, NEW to \in Addr, NEW amount \in Amount,
         balances[from] >= amount
  PROVE  /\ Moved(from, to, amount) \in [Addr -> Amount]
         /\ Total(Moved(from, to, amount)) \in Nat
         /\ Total(Moved(from, to, amount)) % Word = Total(balances) % Word
<1> DEFINE left == balances[from] - amount
           paid == [balances EXCEPT ![from] = left]
           v == (paid[to] + amount) % Word
           moved == [paid EXCEPT ![to] = v]
<1>0. /\ balances \in [Addr -> Nat] /\ Total(balances) \in Nat
      /\ Word \in Nat \ {0} /\ amount \in 0 .. Word - 1 /\ IsFiniteSet(Addr)
      /\ balances[from] \in 0 .. Word - 1
  BY WordFacts, TokenAssumption DEF Amount
<1>1. Moved(from, to, amount) = moved
  BY <1>0 DEF Moved
<1>2. left \in 0 .. Word - 1 /\ left \in Nat /\ left + amount = balances[from]
  BY <1>0
<1> HIDE DEF left
<1>3. paid \in [Addr -> 0 .. Word - 1] /\ paid \in [Addr -> Nat]
  BY <1>2 DEF TokenTypeOK, Amount
<1>4. Total(paid) = Total(balances) - amount
  <2>1. Total(paid) = Total(balances) - balances[from] + left
    BY <1>0, <1>2, TotalUpdate
  <2> QED
    BY <2>1, <1>0, <1>2
<1>5. Total(paid) \in Nat
  BY <1>0, <1>3, TotalType
<1> HIDE DEF paid
<1>6. paid[to] \in 0 .. Word - 1
  BY <1>3
<1>7. v = IF paid[to] + amount < Word THEN paid[to] + amount ELSE paid[to] + amount - Word
  BY <1>0, <1>6, WordSum
<1> HIDE DEF v
<1>8. v \in 0 .. Word - 1 /\ v \in Nat
  BY <1>0, <1>6, <1>7
<1>9. Total(moved) = Total(paid) - paid[to] + v
  BY <1>0, <1>3, <1>8, TotalUpdate
<1>10. moved \in [Addr -> 0 .. Word - 1] /\ moved \in [Addr -> Nat]
  BY <1>3, <1>8
<1>11. Total(moved) \in Nat
  BY <1>0, <1>10, TotalType
<1> HIDE DEF moved
<1>12. CASE paid[to] + amount < Word
  <2>1. Total(moved) = Total(balances)
    BY <1>0, <1>4, <1>5, <1>6, <1>7, <1>9, <1>12
  <2> QED
    BY <2>1, <1>1, <1>10, <1>11 DEF Amount
<1>13. CASE ~(paid[to] + amount < Word)
  <2>1. Total(balances) = Total(moved) + Word
    BY <1>0, <1>4, <1>5, <1>6, <1>7, <1>9, <1>11, <1>13
  <2>2. (Total(moved) + Word) % Word = Total(moved) % Word
    BY <1>0, <1>11, RemainderWrap
  <2> QED
    BY <2>1, <2>2, <1>1, <1>10, <1>11 DEF Amount
<1> QED
  BY <1>12, <1>13

LEMMA TokenNextInv == TokenInv /\ [TokenNext]_tokenVars => TokenInv'
<1> SUFFICES ASSUME TokenInv, [TokenNext]_tokenVars PROVE TokenInv'
  OBVIOUS
<1>0. /\ TokenTypeOK /\ totalSupply = Total(balances) % Word
      /\ balances \in [Addr -> Nat] /\ Total(balances) \in Nat /\ IsFiniteSet(Addr)
      /\ Word \in Nat \ {0} /\ Amount \subseteq Nat
      /\ \A a \in Addr : balances[a] \in Nat
      /\ \A x \in Nat : x % Word \in Amount
  BY WordFacts, TokenAssumption DEF TokenInv, SupplyIsCirculating, CirculatingSupply
<1>1. ASSUME NEW to \in Addr, NEW amount \in Amount, Mint(to, amount)
      PROVE  TokenInv'
  <2> DEFINE more == balances[to] + amount
  <2>1. more \in Amount /\ amount \in Nat /\ more \in Nat /\ balances[to] \in Nat
    <3>1. balances[to] \in 0 .. Word - 1 /\ amount \in 0 .. Word - 1 /\ Word \in Nat
      BY <1>0, <1>1 DEF TokenTypeOK, Amount
    <3>2. balances[to] <= Word - 1 - amount
      BY <1>1 DEF Mint
    <3> QED
      BY <3>1, <3>2 DEF Amount
  <2>2. Total(balances') = Total(balances) + amount
    <3> HIDE DEF more
    <3>0. IsFiniteSet(Addr) /\ balances \in [Addr -> Nat] /\ more \in Nat
      BY <1>0, <2>1
    <3>1. Total([balances EXCEPT ![to] = more]) = Total(balances) - balances[to] + more
      BY <3>0, <1>1, TotalUpdate
    <3>2. balances' = [balances EXCEPT ![to] = more] /\ more = balances[to] + amount
      BY <1>0, <1>1 DEF Mint, more
    <3> QED
      BY <3>1, <3>2, <1>0, <2>1
  <2>3. totalSupply' = (Total(balances) + amount) % Word
    BY <1>0, <1>1, <2>1, RemainderAdd DEF Mint, CirculatingSupply
  <2>4. totalSupply' \in Amount
    BY <1>0, <2>1, <2>3
  <2> QED
    BY <1>0, <1>1, <2>1, <2>2, <2>3, <2>4
       DEF Mint, TokenInv, TokenTypeOK, SupplyIsCirculating, CirculatingSupply
<1>2. ASSUME NEW from \in Addr, NEW amount \in Amount, Burn(from, amount)
      PROVE  TokenInv'
  <2> DEFINE left == balances[from] - amount
  <2>1. /\ left \in Amount /\ left \in Nat /\ balances[from] \in Nat
        /\ amount \in Nat /\ Word - amount \in Nat
    <3>1. balances[from] \in 0 .. Word - 1 /\ amount \in 0 .. Word - 1 /\ Word \in Nat
      BY <1>0, <1>2 DEF TokenTypeOK, Amount
    <3>2. balances[from] >= amount
      BY <1>2 DEF Burn
    <3> QED
      BY <3>1, <3>2 DEF Amount
  <2>2. Total(balances') = Total(balances) - amount
    <3> HIDE DEF left
    <3>0. IsFiniteSet(Addr) /\ balances \in [Addr -> Nat] /\ left \in Nat
      BY <1>0, <2>1
    <3>1. Total([balances EXCEPT ![from] = left]) = Total(balances) - balances[from] + left
      BY <3>0, <1>2, TotalUpdate
    <3>2. balances' = [balances EXCEPT ![from] = left] /\ left = balances[from] - amount
      BY <1>0, <1>2 DEF Burn, left
    <3> QED
      BY <3>1, <3>2, <1>0, <2>1
  <2>3. balances' \in [Addr -> Amount] /\ balances' \in [Addr -> Nat]
    BY <1>0, <1>2, <2>1 DEF Burn, TokenTypeOK
  <2>4. Total(balances') \in Nat
    BY <1>0, <2>3, TotalType
  <2>5. totalSupply' = Total(balances') % Word
    <3>1. totalSupply' = ((Total(balances) % Word) + (Word - amount)) % Word
      BY <1>0, <1>2, <2>1 DEF Burn
    <3>2. ((Total(balances) % Word) + (Word - amount)) % Word
            = (Total(balances) + (Word - amount)) % Word
      BY <1>0, <2>1, RemainderAdd
    <3>3. Total(balances) + (Word - amount) = Total(balances') + Word
      BY <1>0, <2>1, <2>2
    <3>4. (Total(balances') + Word) % Word = Total(balances') % Word
      BY <1>0, <2>4, RemainderWrap
    <3> QED
      BY <3>1, <3>2, <3>3, <3>4
  <2>6. totalSupply' \in Amount
    BY <1>0, <2>4, <2>5
  <2> QED
    BY <1>0, <1>2, <2>3, <2>5, <2>6
       DEF Burn, TokenInv, TokenTypeOK, SupplyIsCirculating, CirculatingSupply
<1>3. ASSUME NEW from \in Addr, NEW to \in Addr, NEW amount \in Amount,
             Transfer(from, to, amount)
      PROVE  TokenInv'
  <2>1. /\ balances' \in [Addr -> Amount]
        /\ Total(balances') % Word = Total(balances) % Word
    BY <1>0, <1>3, MovedTotal DEF Transfer
  <2> QED
    BY <1>0, <1>3, <2>1 DEF Transfer, TokenInv, TokenTypeOK, SupplyIsCirculating, CirculatingSupply
<1>4. ASSUME NEW owner \in Addr, NEW spender \in Addr, NEW amount \in Amount,
             Approve(owner, spender, amount)
      PROVE  TokenInv'
  BY <1>0, <1>4 DEF Approve, TokenInv, TokenTypeOK, SupplyIsCirculating, CirculatingSupply
<1>5. ASSUME NEW owner \in Addr, NEW spender \in Addr, NEW to \in Addr, NEW amount \in Amount,
             TransferFrom(owner, spender, to, amount)
      PROVE  TokenInv'
  <2>1. /\ balances' \in [Addr -> Amount]
        /\ Total(balances') % Word = Total(balances) % Word
    BY <1>0, <1>5, MovedTotal DEF TransferFrom
  <2>2. allowances[owner][spender] - amount \in Amount
    <3>1. allowances[owner][spender] \in 0 .. Word - 1 /\ amount \in 0 .. Word - 1
      BY <1>0, <1>5 DEF TokenTypeOK, Amount
    <3>2. allowances[owner][spender] >= amount
      BY <1>5 DEF TransferFrom
    <3>3. Word \in Nat \ {0}
      BY <1>0
    <3> QED
      BY ONLY <3>1, <3>2, <3>3, WordDifference DEF Amount
  <2>3. allowances' \in [Addr -> [Addr -> Amount]]
    BY <1>0, <1>5, <2>2 DEF TransferFrom, TokenTypeOK
  <2> QED
    BY <1>0, <1>5, <2>1, <2>3
       DEF TransferFrom, TokenInv, TokenTypeOK, SupplyIsCirculating, CirculatingSupply
<1>6. CASE UNCHANGED tokenVars
  BY <1>0, <1>6 DEF tokenVars, TokenInv, TokenTypeOK, SupplyIsCirculating, CirculatingSupply
<1> QED
  BY <1>1, <1>2, <1>3, <1>4, <1>5, <1>6 DEF TokenNext

\* Balances, allowances and the supply stay words.
THEOREM TokenTyped == TokenSpec => []TokenTypeOK
<1>1. TokenInv => TokenTypeOK
  BY DEF TokenInv
<1> QED
  BY <1>1, TokenInitInv, TokenNextInv, PTL DEF TokenSpec

\* The reported supply is the circulating supply in every reachable state.
THEOREM SupplyReported == TokenSpec => []SupplyIsCirculating
<1>1. TokenInv => SupplyIsCirculating
  BY DEF TokenInv
<1> QED
  BY <1>1, TokenInitInv, TokenNextInv, PTL DEF TokenSpec
-----------------------------------------------------------------------------
(***************************************************************************)
(* What the governance simulator decides, for any validators, powers and   *)
(* periods. The checked property is inductive with two facts: goroutines   *)
(* tally, and decide, after the end of voting only, when no vote changes   *)
(* any more (TalliedLate), so that a late or a repeated tally counts what  *)
(* the deciding one has counted; and the goroutine of the sample proposal  *)
(* knows its ID (SampleKnown).                                             *)
(***************************************************************************)

\* The sample's goroutine works on a proposal that is there.
SampleKnown == sample # "asleep" => proposals[ballot.id] # None

\* Goroutines that tally, and decisions, come after the end of voting.
TalliedLate ==
  \A id \in ID :
    tallies[id] > 0 \/ IsDecided(id) => now > VotingEnd(id) /\ proposals[id] # None

GovInv == GovTypeOK /\ SampleKnown /\ TalliedLate /\ DecidedByVotes
-----------------------------------------------------------------------------
LEMMA TimeFacts ==
  /\ ID \subseteq Nat /\ 0 \in Time /\ Time \subseteq Nat
  /\ \A id \in ID : VotingEnd(id) \in Nat /\ VotingEnd(id) >= id
BY GovernanceAssumption DEF ID, Time, VotingEnd, VotingStart

\* One proposal is put in its place, decided by its votes if at all.
LEMMA ProposalPut ==
  ASSUME GovInv, NEW id \in ID, NEW p \in Proposal, proposals' = [proposals EXCEPT ![id] = p],
         p.status \in Decided => now > VotingEnd(id) /\ p.status = Outcome(p.votes),
         now' = now, running' \in BOOLEAN, choice' \in ID \cup {None},
         tallies' \in [ID -> 0 .. MaxTallies],
         \A k \in ID : tallies'[k] > 0 => tallies[k] > 0,
         sample' \in {"asleep", "waiting", "voting", "done"},
         sample' # "asleep" => ballot' \in Ballot,
         sample' # "asleep" => ballot'.id = id \/ (sample # "asleep" /\ ballot'.id = ballot.id)
  PROVE  GovInv'
<1>1. GovTypeOK /\ SampleKnown /\ TalliedLate /\ DecidedByVotes /\ p # None
  BY NoneAssumption DEF GovInv
<1>2. /\ proposals' \in [ID -> Proposal \cup {None}] /\ proposals'[id] = p
      /\ \A k \in ID \ {id} : proposals'[k] = proposals[k]
  BY <1>1 DEF GovTypeOK
<1>3. GovTypeOK'
  BY <1>1, <1>2 DEF GovTypeOK
<1>4. SampleKnown'
  <2>1. sample # "asleep" => ballot.id \in ID
    BY <1>1 DEF GovTypeOK, Ballot
  <2> QED
    BY <1>1, <1>2, <2>1 DEF SampleKnown
<1>5. \A k \in ID \ {id} : IsDecided(k)' <=> IsDecided(k)
  BY <1>2 DEF IsDecided
<1>6. IsDecided(id)' <=> p.status \in Decided
  BY <1>1, <1>2 DEF IsDecided
<1>7. TalliedLate'
  <2> SUFFICES ASSUME NEW k \in ID, tallies'[k] > 0 \/ IsDecided(k)'
               PROVE  now > VotingEnd(k) /\ proposals'[k] # None
    BY DEF TalliedLate, VotingEnd, VotingStart
  <2>1. CASE k # id
    BY <1>1, <1>2, <1>5, <2>1 DEF TalliedLate
  <2>2. CASE k = id
    BY <1>1, <1>2, <1>6, <2>2 DEF TalliedLate
  <2> QED
    BY <2>1, <2>2
<1>8. DecidedByVotes'
  <2> SUFFICES ASSUME NEW k \in ID, IsDecided(k)'
               PROVE  proposals'[k].status = Outcome(proposals'[k].votes)
    BY DEF DecidedByVotes, Outcome, PowerOf, TotalPower
  <2>1. CASE k # id
    BY <1>1, <1>2, <1>5, <2>1 DEF DecidedByVotes
  <2>2. CASE k = id
    BY <1>2, <1>6, <2>2
  <2> QED
    BY <2>1, <2>2
<1> QED
  BY <1>3, <1>4, <1>7, <1>8 DEF GovInv

\* Nothing is put: time may pass, and tallies start for what is due.
LEMMA ProposalsKept ==
  ASSUME GovInv, proposals' = proposals, now' \in Time, now' >= now,
         running' \in BOOLEAN, choice' \in ID \cup {None},
         tallies' \in [ID -> 0 .. MaxTallies],
         \A k \in ID : tallies'[k] > 0 =>
           tallies[k] > 0 \/ (now > VotingEnd(k) /\ proposals[k] # None),
         sample' \in {"asleep", "waiting", "voting", "done"},
         sample' # "asleep" => /\ ballot' \in Ballot
                              /\ sample # "asleep" /\ ballot'.id = ballot.id
  PROVE  GovInv'
<1>1. GovTypeOK /\ SampleKnown /\ TalliedLate /\ DecidedByVotes /\ now \in Nat /\ now' \in Nat
  BY TimeFacts DEF GovInv, GovTypeOK
<1>2. GovTypeOK'
  BY <1>1 DEF GovTypeOK
<1>3. SampleKnown'
  BY <1>1 DEF SampleKnown
<1>4. \A k \in ID : IsDecided(k)' <=> IsDecided(k)
  BY DEF IsDecided
<1>5. TalliedLate'
  <2> SUFFICES ASSUME NEW k \in ID, tallies'[k] > 0 \/ IsDecided(k)'
               PROVE  now' > VotingEnd(k) /\ proposals'[k] # None
    BY DEF TalliedLate, VotingEnd, VotingStart
  <2>1. now > VotingEnd(k) /\ proposals[k] # None
    BY <1>1, <1>4 DEF TalliedLate
  <2>2. VotingEnd(k) \in Nat
    BY TimeFacts
  <2> QED
    BY <1>1, <2>1, <2>2
<1>6. DecidedByVotes'
  <2> SUFFICES ASSUME NEW k \in ID, IsDecided(k)'
               PROVE  proposals'[k].status = Outcome(proposals'[k].votes)
    BY DEF DecidedByVotes, Outcome, PowerOf, TotalPower
  <2> QED
    BY <1>1, <1>4 DEF DecidedByVotes
<1> QED
  BY <1>2, <1>3, <1>5, <1>6 DEF GovInv

LEMMA GovInitInv == GovInit => GovInv
<1> SUFFICES ASSUME GovInit PROVE GovInv
  OBVIOUS
<1> USE DEF GovInit
<1>1. 0 \in 0 .. MaxTallies
  BY GovernanceAssumption
<1>2. GovTypeOK
  BY <1>1, TimeFacts DEF GovTypeOK
<1>3. \A id \in ID : ~IsDecided(id) /\ ~(tallies[id] > 0)
  BY DEF IsDecided
<1> QED
  BY <1>2, <1>3 DEF GovInv, SampleKnown, TalliedLate, DecidedByVotes

\* What a proposal is, where there is one.
LEMMA ProposalTyped ==
  ASSUME GovTypeOK, NEW id \in ID, proposals[id] # None
  PROVE  /\ proposals[id] \in Proposal /\ proposals[id].type \in ProposalType
         /\ proposals[id].votes \in [Validator -> VoteOption \cup {None}]
         /\ proposals[id].status \in {"pending", "active"} \cup Decided
<1>1. proposals[id] \in Proposal
  BY DEF GovTypeOK
<1> QED
  BY <1>1 DEF Proposal

\* A proposal of this second is new, and has not been tallied.
LEMMA SubmitInv ==
  ASSUME GovInv, NEW type \in ProposalType, SubmitProposal(type), UNCHANGED <<now, running, tallies, choice>>,
         \/ UNCHANGED <<sample, ballot>>
         \/ /\ sample' = "waiting"
            /\ ballot' = [id |-> now, type |-> "parameter_change", left |-> {}]
  PROVE  GovInv'
<1> DEFINE p == [type |-> type, status |-> "pending", votes |-> [v \in Validator |-> None]]
<1>1. p \in Proposal /\ p.status \notin Decided
  BY DEF Proposal, Decided
<1>2. now \in ID /\ proposals' = [proposals EXCEPT ![now] = p]
  BY DEF SubmitProposal
<1> HIDE DEF p
<1>3. GovTypeOK
  BY DEF GovInv
<1>4. /\ running' \in BOOLEAN /\ choice' \in ID \cup {None} /\ tallies' \in [ID -> 0 .. MaxTallies]
      /\ \A k \in ID : tallies'[k] > 0 => tallies[k] > 0
  BY <1>3 DEF GovTypeOK
<1>5. CASE UNCHANGED <<sample, ballot>>
  BY <1>1, <1>2, <1>3, <1>4, <1>5, ProposalPut DEF GovTypeOK
<1>6. CASE /\ sample' = "waiting"
           /\ ballot' = [id |-> now, type |-> "parameter_change", left |-> {}]
  <2>1. ballot' \in Ballot /\ ballot'.id = now
    BY <1>2, <1>6 DEF Ballot, ProposalType
  <2> QED
    BY <1>1, <1>2, <1>4, <1>6, <2>1, ProposalPut
<1> QED
  BY <1>5, <1>6

\* A vote that is accepted comes before the end of voting, and so before a tally.
LEMMA CastVoteInv ==
  ASSUME GovInv, NEW id \in ID, NEW voter, NEW option \in VoteOption, CastVote(id, voter, option),
         UNCHANGED <<now, running, tallies>>, choice' \in ID \cup {None},
         sample' \in {"asleep", "waiting", "voting", "done"},
         sample' # "asleep" => /\ ballot' \in Ballot
                              /\ sample # "asleep" /\ ballot'.id = ballot.id
  PROVE  GovInv'
<1>1. GovTypeOK /\ TalliedLate
  BY DEF GovInv
<1>2. /\ running' \in BOOLEAN /\ tallies' \in [ID -> 0 .. MaxTallies]
      /\ \A k \in ID : tallies'[k] > 0 => tallies[k] > 0
      /\ now' \in Time /\ now \in Nat
  BY <1>1, TimeFacts DEF GovTypeOK
<1>3. CASE MayVote(id, voter)
  <2> DEFINE p == [proposals[id] EXCEPT !.votes[voter] = option]
  <2>1. proposals[id] # None /\ voter \in Validator /\ now <= VotingEnd(id)
    BY <1>3 DEF MayVote
  <2>2. proposals' = [proposals EXCEPT ![id] = p]
    BY <1>3 DEF CastVote
  <2>3. p \in Proposal /\ p.status = proposals[id].status
    BY <1>1, <2>1, ProposalTyped DEF Proposal
  <2>4. proposals[id].status \notin Decided
    <3>1. VotingEnd(id) \in Nat
      BY TimeFacts
    <3> QED
      BY <1>1, <1>2, <2>1, <3>1 DEF TalliedLate, IsDecided
  <2> HIDE DEF p
  <2> QED
    BY <1>2, <2>2, <2>3, <2>4, ProposalPut
<1>4. CASE ~MayVote(id, voter)
  <2>1. proposals' = proposals /\ now' >= now
    BY <1>2, <1>4 DEF CastVote
  <2> QED
    BY <1>2, <2>1, ProposalsKept
<1> QED
  BY <1>3, <1>4

LEMMA ChoicesAreOptions == \A type \in ProposalType : Choices(type) \subseteq VoteOption
BY DEF ProposalType, Choices, VoteOption

LEMMA SimulateVoteInv == GovInv /\ SimulateVote => GovInv'
<1> SUFFICES ASSUME GovInv, SimulateVote PROVE GovInv'
  OBVIOUS
<1>1. GovTypeOK /\ sample = "voting" /\ UNCHANGED <<now, running, tallies, choice>>
  BY DEF GovInv, SimulateVote
<1>2. ballot \in Ballot /\ ballot.id \in ID /\ ballot.type \in ProposalType
  BY <1>1 DEF GovTypeOK, Ballot
<1>3. PICK v \in ballot.left :
        /\ ballot' = [ballot EXCEPT !.left = @ \ {v}]
        /\ \/ UNCHANGED proposals
           \/ \E option \in Choices(ballot.type) : CastVote(ballot.id, v, option)
        /\ sample' = IF ballot.left = {v} THEN "done" ELSE "voting"
  BY DEF SimulateVote
<1>4. ballot' \in Ballot /\ ballot'.id = ballot.id
  BY <1>2, <1>3 DEF Ballot
<1>5. sample' \in {"asleep", "waiting", "voting", "done"} /\ choice' \in ID \cup {None}
  BY <1>1, <1>3 DEF GovTypeOK
<1>6. CASE UNCHANGED proposals
  <2>1. /\ now' \in Time /\ now' >= now /\ running' \in BOOLEAN /\ tallies' \in [ID -> 0 .. MaxTallies]
        /\ \A k \in ID : tallies'[k] > 0 => tallies[k] > 0
    BY <1>1, TimeFacts DEF GovTypeOK
  <2> QED
    BY <1>1, <1>4, <1>5, <1>6, <2>1, ProposalsKept
<1>7. CASE \E option \in Choices(ballot.type) : CastVote(ballot.id, v, option)
  <2>1. PICK option \in VoteOption : CastVote(ballot.id, v, option)
    BY <1>2, <1>7, ChoicesAreOptions
  <2> QED
    BY <1>1, <1>2, <1>4, <1>5, <2>1, CastVoteInv
<1> QED
  BY <1>3, <1>6, <1>7

\* The minute's round leaves votes and decisions alone, and tallies what is due.
LEMMA RoundInv == GovInv /\ processProposals => GovInv'
<1> SUFFICES ASSUME GovInv, processProposals PROVE GovInv'
  OBVIOUS
<1>1. /\ GovTypeOK /\ SampleKnown /\ TalliedLate /\ DecidedByVotes
      /\ UNCHANGED <<now, running, sample, ballot, choice>>
      /\ \A id \in ID : proposals'[id] = Opened(id)
      /\ proposals' = [id \in ID |-> Opened(id)]
  BY DEF GovInv, processProposals, sampleVars
<1>2. \A id \in ID :
        /\ proposals[id] = None => proposals'[id] = None
        /\ proposals[id] # None =>
             /\ proposals'[id] \in Proposal /\ proposals'[id] # None
             /\ proposals'[id].votes = proposals[id].votes
             /\ \/ proposals'[id].status = proposals[id].status
                \/ proposals'[id].status = "active"
  <2> SUFFICES ASSUME NEW id \in ID, proposals[id] # None
               PROVE  /\ Opened(id) \in Proposal /\ Opened(id).votes = proposals[id].votes
                      /\ Opened(id).status \in {proposals[id].status, "active"}
    BY <1>1, NoneAssumption DEF Opened
  <2>1. proposals[id] \in Proposal
    BY <1>1, ProposalTyped
  <2> QED
    BY <2>1 DEF Opened, Proposal
<1>3. \A id \in ID :
        /\ tallies'[id] \in 0 .. MaxTallies
        /\ tallies'[id] > 0 => tallies[id] > 0 \/ Due(id)
  <2>1. \A id \in ID : tallies[id] \in 0 .. MaxTallies
    BY <1>1 DEF GovTypeOK
  <2> QED
    BY <2>1, GovernanceAssumption DEF processProposals
<1>4. tallies' \in [ID -> 0 .. MaxTallies]
  BY <1>3 DEF processProposals
<1>5. proposals' \in [ID -> Proposal \cup {None}]
  BY <1>1, <1>2
<1>6. GovTypeOK'
  BY <1>1, <1>4, <1>5 DEF GovTypeOK
<1>7. SampleKnown'
  BY <1>1, <1>2 DEF SampleKnown, GovTypeOK, Ballot
<1>8. \A id \in ID : IsDecided(id)' => /\ IsDecided(id)
                                       /\ proposals'[id].status = proposals[id].status
                                       /\ proposals'[id].votes = proposals[id].votes
  <2>1. "active" \notin Decided
    BY DEF Decided
  <2> QED
    BY <1>2, <2>1 DEF IsDecided
<1>9. TalliedLate'
  <2> SUFFICES ASSUME NEW id \in ID, tallies'[id] > 0 \/ IsDecided(id)'
               PROVE  now > VotingEnd(id) /\ proposals'[id] # None
    BY <1>1 DEF TalliedLate, VotingEnd, VotingStart
  <2>1. now > VotingEnd(id) /\ proposals[id] # None
    BY <1>1, <1>3, <1>8 DEF TalliedLate, Due
  <2> QED
    BY <1>2, <2>1
<1>10. DecidedByVotes'
  <2> SUFFICES ASSUME NEW k \in ID, IsDecided(k)'
               PROVE  proposals'[k].status = Outcome(proposals'[k].votes)
    BY DEF DecidedByVotes, Outcome, PowerOf, TotalPower
  <2> QED
    BY <1>1, <1>8 DEF DecidedByVotes
<1> QED
  BY <1>6, <1>7, <1>9, <1>10 DEF GovInv

LEMMA TallyInv ==
  ASSUME GovInv, NEW id \in ID, TallyVotes(id)
  PROVE  GovInv'
<1> DEFINE p == [proposals[id] EXCEPT !.status = Outcome(proposals[id].votes)]
<1>1. /\ GovTypeOK /\ tallies[id] > 0 /\ UNCHANGED <<now, running, sample, ballot, choice>>
      /\ now > VotingEnd(id) /\ proposals[id] # None
  BY DEF GovInv, TallyVotes, TalliedLate, sampleVars
<1>2. Outcome(proposals[id].votes) \in Decided
  BY DEF Outcome, Decided
<1>3. p \in Proposal /\ p.status = Outcome(p.votes)
  BY <1>1, <1>2, ProposalTyped DEF Proposal
<1>4. proposals' = [proposals EXCEPT ![id] = p]
  BY DEF TallyVotes
<1> HIDE DEF p
<1>5. /\ tallies' \in [ID -> 0 .. MaxTallies]
      /\ \A k \in ID : tallies'[k] > 0 => tallies[k] > 0
  <2>1. tallies \in [ID -> 0 .. MaxTallies] /\ tallies[id] \in 0 .. MaxTallies
    BY <1>1 DEF GovTypeOK
  <2>2. tallies[id] - 1 \in 0 .. MaxTallies /\ tallies' = [tallies EXCEPT ![id] = @ - 1]
    BY <1>1, <2>1, GovernanceAssumption DEF TallyVotes
  <2> QED
    BY <1>1, <2>1, <2>2
<1>6. /\ running' \in BOOLEAN /\ choice' \in ID \cup {None}
      /\ sample' \in {"asleep", "waiting", "voting", "done"}
      /\ sample' # "asleep" => ballot' \in Ballot
  BY <1>1 DEF GovTypeOK
<1> QED
  BY <1>1, <1>3, <1>4, <1>5, <1>6, ProposalPut

LEMMA GovNextInv == GovInv /\ [GovNext]_govVars => GovInv'
<1> SUFFICES ASSUME GovInv, [GovNext]_govVars PROVE GovInv'
  OBVIOUS
<1>1. /\ GovTypeOK /\ now \in Time /\ now \in Nat /\ running \in BOOLEAN /\ choice \in ID \cup {None}
      /\ tallies \in [ID -> 0 .. MaxTallies]
      /\ sample \in {"asleep", "waiting", "voting", "done"}
      /\ sample # "asleep" => ballot \in Ballot
  BY TimeFacts DEF GovInv, GovTypeOK
<1>2. CASE SubmitSample
  BY <1>2, SubmitInv DEF SubmitSample, ProposalType
<1>3. CASE SimulateVoting
  <2>1. /\ proposals' = proposals /\ UNCHANGED <<now, running, tallies, choice>>
        /\ sample = "waiting" /\ sample' = "voting"
        /\ ballot' = [ballot EXCEPT !.type = proposals[ballot.id].type, !.left = Validator]
    BY <1>3 DEF SimulateVoting
  <2>2. proposals[ballot.id].type \in ProposalType
    BY <1>1, <2>1, ProposalTyped DEF GovInv, SampleKnown, Ballot
  <2>3. ballot' \in Ballot /\ ballot'.id = ballot.id
    BY <1>1, <2>1, <2>2 DEF Ballot
  <2> QED
    BY <1>1, <2>1, <2>3, ProposalsKept
<1>4. CASE SimulateVote
  BY <1>4, SimulateVoteInv
<1>5. CASE CLIProposal
  BY <1>5, SubmitInv DEF CLIProposal, sampleVars
<1>6. CASE CLIPick
  <2>1. /\ UNCHANGED <<now, proposals, running, tallies, sample, ballot>> /\ choice' \in ID
    BY <1>6 DEF CLIPick, sampleVars
  <2> QED
    BY <1>1, <2>1, ProposalsKept
<1>7. CASE CLIVote
  <2>1. /\ UNCHANGED <<now, running, tallies, sample, ballot>> /\ choice \in ID /\ choice' = None
    BY <1>1, <1>7 DEF CLIVote, sampleVars
  <2>2. PICK option \in VoteOption : CastVote(choice, CLIVoter, option)
    BY <1>7 DEF CLIVote
  <2> QED
    BY <1>1, <2>1, <2>2, CastVoteInv
<1>8. CASE CLIExit
  <2>1. UNCHANGED <<now, proposals, tallies, sample, ballot, choice>> /\ running' \in BOOLEAN
    BY <1>8 DEF CLIExit, sampleVars
  <2> QED
    BY <1>1, <2>1, ProposalsKept
<1>9. CASE processProposals
  BY <1>9, RoundInv
<1>10. CASE Tick
  <2>1. /\ UNCHANGED <<proposals, running, tallies, sample, ballot, choice>>
        /\ now' \in Time /\ now' >= now
    BY <1>1, <1>10, GovernanceAssumption DEF Tick, Time, sampleVars
  <2> QED
    BY <1>1, <2>1, ProposalsKept
<1>11. CASE \E id \in ID : TallyVotes(id)
  BY <1>11, TallyInv
<1>12. CASE UNCHANGED govVars
  <2>1. UNCHANGED <<now, proposals, running, tallies, sample, ballot, choice>>
    BY <1>12 DEF govVars, sampleVars, cliVars
  <2> QED
    BY <1>1, <2>1, ProposalsKept
<1> QED
  BY <1>2, <1>3, <1>4, <1>5, <1>6, <1>7, <1>8, <1>9, <1>10, <1>11, <1>12 DEF GovNext

LEMMA GovInvariant == GovSpec => []GovInv
BY GovInitInv, GovNextInv, PTL DEF GovSpec

\* Proposals, their votes and the goroutines about them have the types of GovTypeOK.
THEOREM GovernanceTyped == GovSpec => []GovTypeOK
<1>1. GovInv => GovTypeOK
  BY DEF GovInv
<1> QED
  BY <1>1, GovInvariant, PTL

\* A decision is the one its votes call for, whatever the powers, the periods and the
\* number of late or repeated tallies.
THEOREM DecisionsFollowVotes == GovSpec => []DecidedByVotes
<1>1. GovInv => DecidedByVotes
  BY DEF GovInv
<1> QED
  BY <1>1, GovInvariant, PTL
=============================================================================
