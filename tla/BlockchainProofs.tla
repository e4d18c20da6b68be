-------------------------- MODULE BlockchainProofs --------------------------
(***************************************************************************)
(* Proofs about Consensus and Blockchain, for any set of blocks, any hash  *)
(* range, any clock and, unless a theorem says otherwise, crashes at any   *)
(* point.                                                                  *)
(***************************************************************************)
EXTENDS Blockchain, CommonFacts

-----------------------------------------------------------------------------
(* Consensus *)

\* What integer division promises the retargeting of the difficulty.
LEMMA DivisionBounds ==
  ASSUME NEW a \in Nat, NEW k \in Nat \ {0}
  PROVE  /\ a \div k \in 0..a
         /\ k * (a \div k) <= a
<1>1. a \div k \in Int /\ k * (a \div k) <= a /\ a < k * (a \div k) + k
  BY SMT
<1>2. a \div k >= 0
  BY SMT
<1>3. a \div k <= a
  BY SMT
<1> QED
  BY <1>1, <1>2, <1>3

\* A smaller factor gives a smaller product.
LEMMA ProductMonotonic ==
  ASSUME NEW c \in Nat, NEW m \in Nat, NEW n \in Nat, m <= n
  PROVE  c * m \in Nat /\ c * m <= c * n
  BY SMT

\* std::round of the quotient of two times is a natural number.
LEMMA RoundedQuotientType ==
  ASSUME NEW a \in Nat, NEW b \in Nat \ {0}
  PROVE  RoundedQuotient(a, b) \in Nat
<1>1. 2 * a + b \in Nat /\ 2 * b \in Nat \ {0}
  OBVIOUS
<1> QED
  BY <1>1, DivisionBounds DEF RoundedQuotient

\* Dividing the complexity keeps it in 256 bits.
LEMMA HarderType ==
  ASSUME NEW c \in 0..MaxDensed, NEW e \in Nat \ {0}
  PROVE  Harder(c, e) \in 0..MaxDensed
<1> DEFINE m == MaxOf(1, MinOf(RoundedQuotient(TargetElapsed, e), RecalculationRate))
<1>1. m \in Nat \ {0}
  BY RoundedQuotientType, ConsensusAssumption DEF MaxOf, MinOf
<1>2. c \div m \in 0..c
  BY <1>1, DivisionBounds, ConsensusAssumption
<1> QED
  BY <1>2, ConsensusAssumption DEF Harder

\* The limit of Consensus::applyBlock is the right one: the product of the
\* complexity and its factor never exceeds 256 bits.
LEMMA EasierType ==
  ASSUME NEW c \in 1..MaxDensed, NEW e \in Nat
  PROVE  Easier(c, e) \in 0..MaxDensed
<1> DEFINE limit == MinOf(MaxDensed \div c, RecalculationRate)
           m == MinOf(MinOf(RoundedQuotient(e, TargetElapsed), RecalculationRate), limit)
<1>1. MaxDensed \div c \in Nat /\ c * (MaxDensed \div c) <= MaxDensed
  BY DivisionBounds, ConsensusAssumption
<1>2. m \in Nat /\ m <= MaxDensed \div c
  BY <1>1, RoundedQuotientType, ConsensusAssumption DEF MinOf
<1>3. c * m \in Nat /\ c * m <= c * (MaxDensed \div c)
  <2> HIDE DEF m
  <2> QED BY <1>1, <1>2, ProductMonotonic
<1>4. c * m \in 0..MaxDensed
  <2> HIDE DEF m
  <2>1. c * (MaxDensed \div c) \in Nat
    BY <1>1, ProductMonotonic
  <2> QED BY <1>1, <1>3, <2>1, ConsensusAssumption
<1> QED
  BY <1>4 DEF Easier

\* Whatever was measured, the new complexity is a 256-bit number.
LEMMA RetargetType ==
  ASSUME NEW c \in 1..MaxDensed, NEW e \in Nat \ {0}
  PROVE  Retarget(c, e) \in 0..MaxDensed
  BY HarderType, EasierType, ConsensusAssumption DEF Retarget

\* The queue of the consensus after a push: never empty, never above its limit.
LEMMA PushLastType ==
  ASSUME NEW last \in Seq(Block), NEW b \in Block
  PROVE  PushLast(last, b) \in Seq(Block) /\ PushLast(last, b) # <<>>
<1> DEFINE pushed == Append(last, b)
<1>1. /\ pushed \in Seq(Block) /\ pushed # <<>>
      /\ Len(pushed) = Len(last) + 1 /\ Len(last) \in Nat
  BY AppendProperties, LenProperties
<1> HIDE DEF pushed
<1>2. CASE Len(pushed) > RecalculationRate
  <2>1. Tail(pushed) \in Seq(Block) /\ Len(Tail(pushed)) = Len(pushed) - 1
    BY <1>1, HeadTailProperties
  <2>2. Tail(pushed) # <<>>
    BY <1>1, <1>2, <2>1, ConsensusAssumption
  <2> QED BY <1>2, <2>1, <2>2 DEF PushLast, pushed
<1>3. CASE ~(Len(pushed) > RecalculationRate)
  BY <1>1, <1>3 DEF PushLast, pushed
<1> QED
  BY <1>2, <1>3

ConsensusStates == [last : Seq(Block), complexity : 0..MaxDensed]

\* Consensus::applyBlock on a block that passed checkBlock: the complexity is not
\* zero then, so the division by it is defined.
LEMMA ApplyBlockType ==
  ASSUME NEW c \in ConsensusStates, NEW b \in Block, CheckBlock(c, b)
  PROVE  /\ ApplyBlock(c, b) \in ConsensusStates
         /\ ApplyBlock(c, b).last = PushLast(c.last, b)
<1> DEFINE last == PushLast(c.last, b)
           elapsed == MaxOf(1, Timestamp[b] - Timestamp[Head(last)])
<1>0. c.last \in Seq(Block) /\ c.complexity \in 0..MaxDensed
  BY DEF ConsensusStates
<1>1. last \in Seq(Block) /\ Head(last) \in Block
  BY <1>0, PushLastType, HeadTailProperties
<1>2. c.complexity \in 1..MaxDensed
  BY <1>0, BlockAssumption, ConsensusAssumption DEF CheckBlock
<1>3. elapsed \in Nat \ {0}
  <2>1. Timestamp[b] \in Nat /\ Timestamp[Head(last)] \in Nat
    BY <1>1, BlockAssumption
  <2> QED BY <2>1 DEF MaxOf
<1>4. Retarget(c.complexity, elapsed) \in 0..MaxDensed
  BY <1>2, <1>3, RetargetType
<1> HIDE DEF last, elapsed
<1>5. ApplyBlock(c, b) =
        [last |-> last,
         complexity |-> IF IsRecalculation(last, b) THEN Retarget(c.complexity, elapsed)
                        ELSE c.complexity]
  BY DEF ApplyBlock, last, elapsed
<1> QED
  BY <1>0, <1>1, <1>4, <1>5 DEF ConsensusStates, last

-----------------------------------------------------------------------------
(* Types *)

\* The index by depth after an insertion.
LEMMA InsertedType ==
  ASSUME TypeOK, NEW d \in Nat, NEW b \in Block
  PROVE  LET map == Inserted(byDepth, d, b) IN
         /\ DOMAIN map \subseteq Nat
         /\ \A k \in DOMAIN map : map[k] \in Block
  BY DEF TypeOK, Inserted

\* The accepting end of tryAddBlock keeps the types.
LEMMA AddToMemoryType ==
  ASSUME TypeOK, NEW b \in Block, Acceptable(b), AddToMemory(b)
  PROVE  /\ blocks' \subseteq Block /\ IsFiniteSet(blocks')
         /\ DOMAIN byDepth' \subseteq Nat
         /\ \A d \in DOMAIN byDepth' : byDepth'[d] \in Block
         /\ top' \in Block
         /\ consensus' \in ConsensusStates
         /\ pushNext' \in PushSteps /\ pushBlock' \in Block \cup {NoHash}
         /\ (pushNext' = "idle") = (pushBlock' = NoHash)
<1>1. blocks' \subseteq Block /\ IsFiniteSet(blocks')
  BY FS_AddElement DEF AddToMemory, TypeOK
<1>2. DOMAIN byDepth' \subseteq Nat /\ \A d \in DOMAIN byDepth' : byDepth'[d] \in Block
  <2>1. Depth[b] \in Nat
    BY BlockAssumption
  <2> QED BY <2>1, InsertedType DEF AddToMemory
<1>3. consensus' \in ConsensusStates
  BY ApplyBlockType DEF AddToMemory, Acceptable, TypeOK, ConsensusStates
<1>4. /\ top' \in Block
      /\ pushNext' \in PushSteps /\ pushBlock' \in Block \cup {NoHash}
      /\ (pushNext' = "idle") = (pushBlock' = NoHash)
  BY BlockAssumption DEF AddToMemory, PushSteps
<1> QED
  BY <1>1, <1>2, <1>3, <1>4

\* The memory of a new Blockchain object has its types.
LEMMA FreshTypes ==
  /\ {Genesis} \subseteq Block /\ IsFiniteSet({Genesis}) /\ Cardinality({Genesis}) = 1
  /\ DOMAIN GenesisChain = {0} /\ GenesisChain[0] = Genesis
  /\ InitialConsensus \in ConsensusStates
<1>1. {Genesis} \subseteq Block /\ IsFiniteSet({Genesis}) /\ Cardinality({Genesis}) = 1
  BY FS_Singleton, BlockAssumption
<1>2. DOMAIN GenesisChain = {0} /\ GenesisChain[0] = Genesis
  BY DEF GenesisChain
<1>3. InitialConsensus \in ConsensusStates
  BY EmptySeq, ConsensusAssumption DEF InitialConsensus, ConsensusStates
<1> QED
  BY <1>1, <1>2, <1>3

\* The constructor of Blockchain establishes the types.
LEMMA FreshMemoryType ==
  ASSUME FreshMemory
  PROVE  /\ blocks' \subseteq Block /\ IsFiniteSet(blocks')
         /\ DOMAIN byDepth' \subseteq Nat
         /\ \A d \in DOMAIN byDepth' : byDepth'[d] \in Block
         /\ top' \in Block
         /\ consensus' \in ConsensusStates
  BY FreshTypes, BlockAssumption DEF FreshMemory

\* TypeOK is inductive as it stands.
LEMMA TypeStep == TypeOK /\ [Next]_vars => TypeOK'
<1> SUFFICES ASSUME TypeOK, [Next]_vars PROVE TypeOK'
  OBVIOUS
<1>1. ASSUME NEW b \in Block, TryAddBlock(b) PROVE TypeOK'
  BY <1>1, AddToMemoryType
     DEF TryAddBlock, TypeOK, ConsensusStates, disk, startup
<1>2. CASE PutBlock
  BY <1>2, BlockAssumption DEF PutBlock, TypeOK, PushSteps, memory, startup
<1>3. CASE PutPrev
  BY <1>3, BlockAssumption DEF PutPrev, TypeOK, PushSteps, memory, startup
<1>4. CASE PutLast
  BY <1>4, BlockAssumption DEF PutLast, TypeOK, PushSteps, memory, startup
<1>5. CASE Crash
  <2>1. /\ mode' = "down" /\ pushNext' = "idle" /\ pushBlock' = NoHash
        /\ cursor' = NoHash /\ toLoad' = <<>>
        /\ UNCHANGED <<blocks, byDepth, top, consensus, dbBlock, dbPrev, dbLast, now>>
    BY <1>5 DEF Crash, memory, disk
  <2> QED
    BY <2>1, EmptySeq DEF TypeOK, PushSteps, Modes
<1>6. CASE Restart
  BY <1>6, FreshMemoryType, BlockAssumption
     DEF Restart, TypeOK, Modes, ConsensusStates, disk, push
<1>7. CASE WalkBack
  <2>1. CASE cursor \in dbPrev
    <3>1. cursor \in Block /\ PrevHash[cursor] \in Block \cup {NoHash}
      BY <2>1, BlockAssumption DEF TypeOK
    <3>2. <<cursor>> \o toLoad \in Seq(Block)
      BY <3>1 DEF TypeOK
    <3> QED
      BY <1>7, <2>1, <3>1, <3>2 DEF WalkBack, TypeOK, memory, disk, push
  <2>2. CASE cursor \notin dbPrev
    BY <1>7, <2>2 DEF WalkBack, TypeOK, Modes, memory, disk, push
  <2> QED BY <2>1, <2>2
<1>8. CASE WalkDone
  BY <1>8 DEF WalkDone, TypeOK, Modes, memory, disk, push
<1>9. CASE LoadBlock
  <2>1. Head(toLoad) \in Block /\ Tail(toLoad) \in Seq(Block)
    BY <1>9, HeadTailProperties DEF LoadBlock, TypeOK
  <2>2. CASE Head(toLoad) \in dbBlock /\ Acceptable(Head(toLoad))
    <3>1. AddToMemory(Head(toLoad)) /\ toLoad' = Tail(toLoad)
          /\ UNCHANGED <<disk, cursor, now, mode>>
      BY <1>9, <2>2 DEF LoadBlock
    <3> QED
      BY <2>1, <2>2, <3>1, AddToMemoryType DEF TypeOK, ConsensusStates, disk
  <2>3. CASE Head(toLoad) \in dbBlock /\ ~Acceptable(Head(toLoad))
    BY <1>9, <2>1, <2>3 DEF LoadBlock, TypeOK, memory, disk, push
  <2>4. CASE Head(toLoad) \notin dbBlock
    BY <1>9, <2>4 DEF LoadBlock, TypeOK, Modes, memory, disk, push
  <2> QED BY <2>2, <2>3, <2>4
<1>10. CASE LoadDone
  BY <1>10 DEF LoadDone, TypeOK, Modes, memory, disk, push
<1>11. CASE SetClock
  BY <1>11 DEF SetClock, TypeOK, memory, disk, push, startup
<1>12. CASE UNCHANGED vars
  BY <1>12 DEF TypeOK, vars, memory, disk, push, startup
<1> QED
  BY <1>1, <1>2, <1>3, <1>4, <1>5, <1>6, <1>7, <1>8, <1>9, <1>10, <1>11, <1>12 DEF Next

\* The types hold in every reachable state; the complexity in particular never
\* leaves 256 bits, however the blocks are timed.
THEOREM ChainTypes == Spec => []TypeOK
<1>1. Init => TypeOK
  BY FreshTypes, EmptySeq, BlockAssumption
     DEF Init, TypeOK, ConsensusStates, PushSteps, Modes
<1> QED
  BY <1>1, TypeStep, PTL DEF Spec
-----------------------------------------------------------------------------
(* The chain in memory *)

\* What any step can do to the chain in memory: nothing, start afresh, or accept
\* one block.
LEMMA MemoryStep ==
  ASSUME TypeOK, [Next]_vars
  PROVE  \/ UNCHANGED memory
         \/ FreshMemory
         \/ \E b \in Block : Acceptable(b) /\ AddToMemory(b)
<1>1. CASE LoadBlock
  <2>1. Head(toLoad) \in Block
    BY <1>1, HeadTailProperties DEF LoadBlock, TypeOK
  <2>2. UNCHANGED memory \/ (Acceptable(Head(toLoad)) /\ AddToMemory(Head(toLoad)))
    BY <1>1 DEF LoadBlock
  <2> QED BY <2>1, <2>2
<1>2. CASE \E b \in Block : TryAddBlock(b)
  BY <1>2 DEF TryAddBlock
<1>3. CASE Restart
  BY <1>3 DEF Restart
<1>4. CASE \/ PutBlock \/ PutPrev \/ PutLast \/ Crash \/ WalkBack \/ WalkDone \/ LoadDone
           \/ SetClock \/ UNCHANGED vars
  BY <1>4 DEF PutBlock, PutPrev, PutLast, Crash, WalkBack, WalkDone, LoadDone, SetClock, vars
<1> QED
  BY <1>1, <1>2, <1>3, <1>4 DEF Next

\* ChainIntact says nothing about an empty chain; that there is none is the part
\* to add to make it inductive.
ChainInv == TypeOK /\ Genesis \in blocks /\ ChainIntact

\* The number of blocks is positive.
LEMMA SizeType == ASSUME ChainInv PROVE Size \in Nat \ {0}
<1>1. Size \in Nat
  BY FS_CardinalityType DEF ChainInv, TypeOK, Size
<1>2. Size # 0
  BY FS_EmptySet DEF ChainInv, TypeOK, Size
<1> QED
  BY <1>1, <1>2

\* Accepting a block puts it on top of the chain and leaves the rest in place.
LEMMA AddToMemoryGrows ==
  ASSUME ChainInv, NEW b \in Block, Acceptable(b), AddToMemory(b)
  PROVE  /\ Size' = Size + 1
         /\ DOMAIN byDepth' = 0..Size
         /\ \A d \in 0..(Size - 1) : byDepth'[d] = byDepth[d]
         /\ byDepth'[Size] = b
<1>1. Size' = Size + 1
  BY FS_AddElement DEF ChainInv, TypeOK, Acceptable, AddToMemory, Size
<1>2. Size \in Nat \ {0} /\ DOMAIN byDepth = 0..(Size - 1) /\ Depth[b] = Size
  BY SizeType DEF ChainInv, ChainIntact, Acceptable
<1>3. byDepth' = [k \in DOMAIN byDepth \cup {Size} |-> IF k \in DOMAIN byDepth THEN byDepth[k] ELSE b]
  BY <1>2 DEF AddToMemory, Inserted
<1>4. DOMAIN byDepth' = 0..Size
  BY <1>2, <1>3
<1> QED
  BY <1>1, <1>2, <1>3, <1>4

\* The chain stays one chain when a block is accepted.
LEMMA ChainIntactAdd ==
  ASSUME ChainInv, NEW b \in Block, Acceptable(b), AddToMemory(b)
  PROVE  ChainIntact'
<1> USE SizeType, AddToMemoryGrows
<1>1. Size \in Nat \ {0} /\ Size' = Size + 1 /\ DOMAIN byDepth' = 0..(Size' - 1)
  OBVIOUS
<1>2. blocks' = {byDepth'[d] : d \in DOMAIN byDepth'}
  <2>1. {byDepth'[d] : d \in 0..Size} = {byDepth[d] : d \in 0..(Size - 1)} \cup {b}
    BY <1>1
  <2>2. blocks' = blocks \cup {b} /\ blocks = {byDepth[d] : d \in 0..(Size - 1)}
    BY DEF AddToMemory, ChainInv, ChainIntact
  <2> QED BY <1>1, <2>1, <2>2
<1>3. byDepth'[0] = Genesis
  BY <1>1 DEF ChainInv, ChainIntact
<1>4. top' = byDepth'[Size' - 1]
  BY <1>1 DEF AddToMemory
<1>5. ASSUME NEW d \in 1..(Size' - 1)
      PROVE  /\ PrevHash[byDepth'[d]] = byDepth'[d - 1]
             /\ Depth[byDepth'[d]] = d
             /\ Timestamp[byDepth'[d - 1]] < Timestamp[byDepth'[d]]
             /\ TxCount[byDepth'[d]] \in 1..MaxTxInBlock
  <2>1. CASE d = Size
    <3>1. byDepth'[d] = b /\ byDepth'[d - 1] = byDepth[Size - 1] /\ byDepth[Size - 1] = top
      BY <1>1, <2>1 DEF ChainInv, ChainIntact
    <3> QED BY <2>1, <3>1 DEF Acceptable
  <2>2. CASE d # Size
    <3>1. d \in 1..(Size - 1) /\ byDepth'[d] = byDepth[d] /\ byDepth'[d - 1] = byDepth[d - 1]
      BY <1>1, <1>5, <2>2
    <3> QED BY <3>1 DEF ChainInv, ChainIntact
  <2> QED BY <2>1, <2>2
<1> QED
  BY <1>1, <1>2, <1>3, <1>4, <1>5 DEF ChainIntact

\* The constructor of Blockchain leaves the chain of the genesis block.
LEMMA ChainIntactFresh ==
  /\ FreshMemory => ChainIntact' /\ (Genesis \in blocks)' /\ Size' = 1
  /\ Init => ChainIntact /\ Genesis \in blocks /\ Size = 1
<1>1. ASSUME FreshMemory PROVE ChainIntact' /\ (Genesis \in blocks)' /\ Size' = 1
  <2>1. Size' = 1 /\ DOMAIN byDepth' = {0} /\ byDepth'[0] = Genesis
        /\ blocks' = {Genesis} /\ top' = Genesis
    BY <1>1, FreshTypes DEF FreshMemory, Size
  <2>2. 0..(1 - 1) = {0} /\ 1..(1 - 1) = {}
    OBVIOUS
  <2> QED BY <2>1, <2>2 DEF ChainIntact
<1>2. ASSUME Init PROVE ChainIntact /\ Genesis \in blocks /\ Size = 1
  <2>1. Size = 1 /\ DOMAIN byDepth = {0} /\ byDepth[0] = Genesis
        /\ blocks = {Genesis} /\ top = Genesis
    BY <1>2, FreshTypes DEF Init, Size
  <2>2. 0..(1 - 1) = {0} /\ 1..(1 - 1) = {}
    OBVIOUS
  <2> QED BY <2>1, <2>2 DEF ChainIntact
<1> QED
  BY <1>1, <1>2

\* ChainInv is inductive.
LEMMA ChainStep == ChainInv /\ [Next]_vars => ChainInv'
<1> SUFFICES ASSUME ChainInv, [Next]_vars PROVE ChainInv'
  OBVIOUS
<1>1. TypeOK'
  BY TypeStep DEF ChainInv
<1>2. CASE UNCHANGED memory
  BY <1>1, <1>2 DEF memory, ChainInv, ChainIntact, Size
<1>3. CASE FreshMemory
  BY <1>1, <1>3, ChainIntactFresh DEF ChainInv
<1>4. ASSUME NEW b \in Block, Acceptable(b), AddToMemory(b) PROVE ChainInv'
  BY <1>1, <1>4, ChainIntactAdd DEF ChainInv, AddToMemory
<1> QED
  BY <1>2, <1>3, <1>4, MemoryStep DEF ChainInv

\* The invariant of the chain in memory, with what makes it inductive.
LEMMA ChainInvariant == Spec => []ChainInv
<1>1. Init => ChainInv
  BY ChainIntactFresh, FreshTypes, EmptySeq, BlockAssumption
     DEF Init, ChainInv, TypeOK, ConsensusStates, PushSteps, Modes
<1> QED
  BY <1>1, ChainStep, PTL DEF Spec

\* The chain in memory is one chain from the genesis block to the top in every
\* reachable state, through every crash, restart and clock change.
THEOREM ChainIsIntact == Spec => []ChainIntact
  BY ChainInvariant, PTL DEF ChainInv
-----------------------------------------------------------------------------
(* The queue of the consensus *)

Window(map, size) ==
  LET n == MinOf(RecalculationRate, size - 1) IN [i \in 1..n |-> map[size - 1 - n + i]]

\* Pushing the new top to the queue moves the window over the chain by one block.
LEMMA WindowMoves ==
  ASSUME ChainInv, NEW b \in Block, Acceptable(b), AddToMemory(b),
         consensus.last = Window(byDepth, Size)
  PROVE  PushLast(consensus.last, b) = Window(byDepth', Size')
<1> DEFINE last == consensus.last
           n == MinOf(RecalculationRate, Size - 1)
           pushed == Append(last, b)
<1>1. /\ Size \in Nat \ {0} /\ Size' = Size + 1
      /\ \A d \in 0..(Size - 1) : byDepth'[d] = byDepth[d]
      /\ byDepth'[Size] = b
  BY SizeType, AddToMemoryGrows
<1>2. n \in Nat /\ n <= Size - 1 /\ n <= RecalculationRate
  BY <1>1, ConsensusAssumption DEF MinOf
<1>3. last \in Seq(Block)
  BY DEF ChainInv, TypeOK
<1>4. Len(last) = n /\ \A i \in 1..n : last[i] = byDepth'[Size - 1 - n + i]
  <2>1. last = [i \in 1..n |-> byDepth[Size - 1 - n + i]]
    BY DEF Window
  <2>2. DOMAIN last = 1..n
    BY <2>1
  <2>3. Len(last) = n
    BY <1>2, <1>3, <2>2, LenProperties
  <2>4. ASSUME NEW i \in 1..n PROVE last[i] = byDepth'[Size - 1 - n + i]
    <3>1. Size - 1 - n + i \in 0..(Size - 1)
      BY <1>1, <1>2
    <3>2. last[i] = byDepth[Size - 1 - n + i]
      BY <2>1
    <3> QED BY <1>1, <3>1, <3>2
  <2> QED BY <2>3, <2>4
<1> HIDE DEF last, n
<1>5. /\ pushed \in Seq(Block) /\ pushed # <<>> /\ Len(pushed) = n + 1
      /\ \A i \in 1..(n + 1) : pushed[i] = byDepth'[Size - 1 - n + i]
  <2>1. /\ pushed \in Seq(Block) /\ pushed # <<>> /\ Len(pushed) = n + 1
        /\ \A i \in 1..n : pushed[i] = last[i]
        /\ pushed[n + 1] = b
    BY <1>3, <1>4, AppendProperties
  <2>2. byDepth'[Size - 1 - n + (n + 1)] = b
    <3>1. Size - 1 - n + (n + 1) = Size
      BY <1>1, <1>2
    <3> QED BY <1>1, <3>1
  <2>3. ASSUME NEW i \in 1..(n + 1) PROVE pushed[i] = byDepth'[Size - 1 - n + i]
    <3>1. CASE i = n + 1
      BY <2>1, <2>2, <3>1
    <3>2. CASE i # n + 1
      <4>1. i \in 1..n
        BY <1>2, <3>2
      <4> QED BY <1>4, <2>1, <4>1
    <3> QED BY <3>1, <3>2
  <2> QED BY <2>1, <2>3
<1> HIDE DEF pushed
<1>6. CASE n + 1 > RecalculationRate
  <2>1. n = RecalculationRate /\ MinOf(RecalculationRate, Size' - 1) = n
    BY <1>1, <1>2, <1>6, ConsensusAssumption DEF MinOf
  <2>2. /\ Tail(pushed) \in Seq(Block) /\ Len(Tail(pushed)) = n
        /\ \A i \in 1..n : Tail(pushed)[i] = pushed[i + 1]
    BY <1>2, <1>5, HeadTailProperties
  <2>3. ASSUME NEW i \in 1..n PROVE Tail(pushed)[i] = byDepth'[Size' - 1 - n + i]
    <3>1. i + 1 \in 1..(n + 1) /\ Size - 1 - n + (i + 1) = Size' - 1 - n + i
      BY <1>1, <1>2
    <3> QED BY <1>5, <2>2, <3>1
  <2>4. Tail(pushed) = [i \in 1..n |-> byDepth'[Size' - 1 - n + i]]
    <3>1. Tail(pushed) \in [1..n -> Block]
      BY <2>2, LenProperties
    <3> QED BY <2>3, <3>1
  <2>5. PushLast(last, b) = Tail(pushed)
    BY <1>5, <1>6 DEF PushLast, pushed
  <2> QED
    BY <2>1, <2>4, <2>5 DEF Window, last
<1>7. CASE ~(n + 1 > RecalculationRate)
  <2>1. MinOf(RecalculationRate, Size' - 1) = n + 1
    BY <1>1, <1>2, <1>7, ConsensusAssumption DEF MinOf, n
  <2>2. ASSUME NEW i \in 1..(n + 1) PROVE pushed[i] = byDepth'[Size' - 1 - (n + 1) + i]
    <3>1. Size - 1 - n + i = Size' - 1 - (n + 1) + i
      BY <1>1, <1>2
    <3> QED BY <1>5, <3>1
  <2>3. pushed = [i \in 1..(n + 1) |-> byDepth'[Size' - 1 - (n + 1) + i]]
    <3>1. pushed \in [1..(n + 1) -> Block]
      BY <1>5, LenProperties
    <3> QED BY <2>2, <3>1
  <2>4. PushLast(last, b) = pushed
    BY <1>5, <1>7 DEF PushLast, pushed
  <2> QED
    BY <2>1, <2>3, <2>4 DEF Window, last
<1> QED
  BY <1>6, <1>7, <1>2, ConsensusAssumption

\* A fresh chain has an empty queue.
LEMMA WindowFresh == ASSUME NEW map PROVE Window(map, 1) = <<>>
<1>1. MinOf(RecalculationRate, 1 - 1) = 0
  BY ConsensusAssumption DEF MinOf
<1> QED
  BY <1>1 DEF Window

\* The queue follows the chain in every step.
LEMMA ConsensusStep ==
  ChainInv /\ ConsensusTracksChain /\ [Next]_vars => ConsensusTracksChain'
<1> SUFFICES ASSUME ChainInv, ConsensusTracksChain, [Next]_vars
             PROVE  consensus'.last = Window(byDepth', Size')
  BY DEF ConsensusTracksChain, Window
<1>0. consensus.last = Window(byDepth, Size)
  BY DEF ConsensusTracksChain, Window
<1>1. CASE UNCHANGED memory
  <2>1. consensus' = consensus /\ byDepth' = byDepth /\ Size' = Size
    BY <1>1 DEF memory, Size
  <2> QED BY <1>0, <2>1
<1>2. CASE FreshMemory
  <2>1. consensus'.last = <<>> /\ Size' = 1
    BY <1>2, ChainIntactFresh DEF FreshMemory, InitialConsensus
  <2> QED BY <2>1, WindowFresh
<1>3. ASSUME NEW b \in Block, Acceptable(b), AddToMemory(b)
      PROVE  consensus'.last = Window(byDepth', Size')
  <2>1. consensus'.last = PushLast(consensus.last, b)
    BY <1>3, ApplyBlockType DEF ChainInv, TypeOK, ConsensusStates, Acceptable, AddToMemory
  <2> QED BY <1>0, <1>3, <2>1, WindowMoves
<1> QED
  BY <1>1, <1>2, <1>3, MemoryStep DEF ChainInv

\* The difficulty is always computed from the newest blocks of this chain, also
\* right after a restart and after a reload that stopped half way.
THEOREM ConsensusFollowsChain == Spec => []ConsensusTracksChain
<1>1. Init => ConsensusTracksChain
  <2> SUFFICES ASSUME Init PROVE consensus.last = Window(byDepth, Size)
    BY DEF ConsensusTracksChain, Window
  <2>1. consensus.last = <<>> /\ Size = 1
    BY ChainIntactFresh DEF Init, InitialConsensus
  <2> QED BY <2>1, WindowFresh
<1> QED
  BY <1>1, ChainInvariant, ConsensusStep, PTL DEF Spec
-----------------------------------------------------------------------------
(* The difficulty as a function of the chain *)

\* g[i] is the consensus after block i of a chain, every block of which passed
\* checkBlock in its turn.
IsHistory(g, chain, n) ==
  /\ g \in [0..n -> ConsensusStates]
  /\ g[0] = InitialConsensus
  /\ \A i \in 1..n : CheckBlock(g[i - 1], chain[i]) /\ g[i] = ApplyBlock(g[i - 1], chain[i])

\* One more block continues the history.
LEMMA HistoryGrows ==
  ASSUME NEW n \in Nat, NEW chain, NEW g, IsHistory(g, chain, n), NEW b \in Block,
         CheckBlock(g[n], b), NEW longer, \A d \in 1..n : longer[d] = chain[d], longer[n + 1] = b
  PROVE  \E h : /\ IsHistory(h, longer, n + 1)
                /\ h[n + 1] = ApplyBlock(g[n], b)
                /\ \A i \in 0..n : h[i] = g[i]
<1>1. g \in [0..n -> ConsensusStates] /\ g[n] \in ConsensusStates
  BY DEF IsHistory
<1>2. ApplyBlock(g[n], b) \in ConsensusStates
  BY <1>1, ApplyBlockType
<1> DEFINE h == [i \in 0..(n + 1) |-> IF i = n + 1 THEN ApplyBlock(g[n], b) ELSE g[i]]
<1>3. h \in [0..(n + 1) -> ConsensusStates]
  BY <1>1, <1>2
<1>4. h[n + 1] = ApplyBlock(g[n], b) /\ \A i \in 0..n : h[i] = g[i]
  OBVIOUS
<1> HIDE DEF h
<1>5. ASSUME NEW i \in 1..(n + 1)
      PROVE  CheckBlock(h[i - 1], longer[i]) /\ h[i] = ApplyBlock(h[i - 1], longer[i])
  <2>1. CASE i = n + 1
    BY <1>4, <2>1
  <2>2. CASE i # n + 1
    <3>1. i \in 1..n /\ i \in 0..n /\ i - 1 \in 0..n
      BY <2>2
    <3> QED
      BY <1>4, <3>1 DEF IsHistory
  <2> QED
    BY <2>1, <2>2
<1>6. h[0] = InitialConsensus
  BY <1>4 DEF IsHistory
<1>7. IsHistory(h, longer, n + 1)
  BY <1>3, <1>5, <1>6 DEF IsHistory
<1> QED
  BY <1>4, <1>7

\* The function that Replay is defined by exists for a chain with a history, and is that history.
LEMMA ReplayIsHistory ==
  ASSUME NEW n \in Nat, NEW chain, DOMAIN chain = 0..n, NEW g, IsHistory(g, chain, n)
  PROVE  Replay(chain) = g[n]
<1> DEFINE Step(f) == [d \in DOMAIN chain |->
                         IF d = 0 THEN InitialConsensus ELSE ApplyBlock(f[d - 1], chain[d])]
           after == CHOOSE f : f = Step(f)
<1>1. g = Step(g)
  BY DEF IsHistory
<1>2. after = Step(after)
  <2> HIDE DEF Step
  <2> QED
    BY <1>1
<1> HIDE DEF after
<1> DEFINE X == {i \in 0..n : after[i] = g[i]}
<1>3. 0..n \subseteq X
  <2>1. 0 \in X
    BY <1>2 DEF IsHistory
  <2>2. ASSUME NEW i \in 0..(n - 1), i \in X PROVE i + 1 \in X
    <3>1. i + 1 \in 1..n /\ i + 1 \in 0..n /\ i + 1 # 0 /\ (i + 1) - 1 = i /\ after[i] = g[i]
      BY <2>2
    <3>2. after[i + 1] = ApplyBlock(after[i], chain[i + 1])
      BY <1>2, <3>1
    <3>3. g[i + 1] = ApplyBlock(g[i], chain[i + 1])
      BY <3>1 DEF IsHistory
    <3> QED
      BY <3>1, <3>2, <3>3
  <2> HIDE DEF X
  <2> QED
    BY <2>1, <2>2, SetInduction
<1>4. Cardinality(DOMAIN chain) - 1 = n
  <2>1. Cardinality(0..n) = n + 1
    BY FS_Interval
  <2> QED
    BY <2>1
<1>5. Replay(chain) = after[n]
  BY <1>4 DEF Replay, after
<1> QED
  BY <1>3, <1>5

\* The consensus of the node ends the history of its chain.
HistoryInv == \E g : IsHistory(g, byDepth, Size - 1) /\ g[Size - 1] = consensus

\* The initial consensus is the history of the genesis block.
LEMMA FreshHistory ==
  ASSUME NEW chain
  PROVE  \E g : IsHistory(g, chain, 0) /\ g[0] = InitialConsensus
<1> DEFINE g == [i \in 0..0 |-> InitialConsensus]
<1>1. g \in [0..0 -> ConsensusStates] /\ g[0] = InitialConsensus
  BY FreshTypes
<1>2. 1..0 = {}
  OBVIOUS
<1> HIDE DEF g
<1>3. IsHistory(g, chain, 0)
  BY <1>1, <1>2 DEF IsHistory
<1> QED
  BY <1>1, <1>3

\* Accepting a block continues the history.
LEMMA HistoryAdd ==
  ASSUME ChainInv, HistoryInv, NEW b \in Block, Acceptable(b), AddToMemory(b)
  PROVE  HistoryInv'
<1>1. PICK g : IsHistory(g, byDepth, Size - 1) /\ g[Size - 1] = consensus
  BY DEF HistoryInv
<1>2. /\ Size \in Nat \ {0} /\ Size' = Size + 1
      /\ \A d \in 0..(Size - 1) : byDepth'[d] = byDepth[d]
      /\ byDepth'[Size] = b
  BY SizeType, AddToMemoryGrows
<1>3. CheckBlock(g[Size - 1], b) /\ consensus' = ApplyBlock(g[Size - 1], b)
  BY <1>1 DEF Acceptable, AddToMemory
<1> DEFINE n == Size - 1
<1>4. n \in Nat /\ Size' - 1 = n + 1 /\ byDepth'[n + 1] = b /\ \A d \in 1..n : byDepth'[d] = byDepth[d]
  BY <1>2
<1>5. IsHistory(g, byDepth, n) /\ CheckBlock(g[n], b) /\ consensus' = ApplyBlock(g[n], b)
  BY <1>1, <1>3
<1> HIDE DEF n
<1>6. PICK h : IsHistory(h, byDepth', n + 1) /\ h[n + 1] = ApplyBlock(g[n], b)
  BY <1>4, <1>5, HistoryGrows
<1> QED
  BY <1>4, <1>5, <1>6 DEF HistoryInv

\* HistoryInv is kept by every step.
LEMMA HistoryStep == ChainInv /\ HistoryInv /\ [Next]_vars => HistoryInv'
<1> SUFFICES ASSUME ChainInv, HistoryInv, [Next]_vars PROVE HistoryInv'
  OBVIOUS
<1>1. CASE UNCHANGED memory
  <2>1. byDepth' = byDepth /\ Size' = Size /\ consensus' = consensus
    BY <1>1 DEF memory, Size
  <2> QED
    BY <2>1 DEF HistoryInv
<1>2. CASE FreshMemory
  <2>1. Size' - 1 = 0 /\ consensus' = InitialConsensus
    BY <1>2, ChainIntactFresh DEF FreshMemory
  <2> QED
    BY <2>1, FreshHistory DEF HistoryInv
<1>3. ASSUME NEW b \in Block, Acceptable(b), AddToMemory(b) PROVE HistoryInv'
  BY <1>3, HistoryAdd
<1> QED
  BY <1>1, <1>2, <1>3, MemoryStep DEF ChainInv

\* Every block of the chain in memory was checked against the difficulty that the blocks
\* below it give.
LEMMA HistoryInvariant == Spec => []HistoryInv
<1>1. Init => HistoryInv
  <2> SUFFICES ASSUME Init PROVE HistoryInv
    OBVIOUS
  <2>1. Size - 1 = 0 /\ consensus = InitialConsensus
    BY ChainIntactFresh DEF Init
  <2> QED
    BY <2>1, FreshHistory DEF HistoryInv
<1> QED
  BY <1>1, HistoryStep, ChainInvariant, PTL DEF Spec

\* The difficulty is what Consensus::applyBlock gives when it is applied to the chain from the
\* genesis block on: crashes, reloads and reloads that refuse blocks leave no trace in it.
THEOREM DifficultyIsFromChain == Spec => []DifficultyFromChain
<1>1. ChainInv /\ HistoryInv => DifficultyFromChain
  <2> SUFFICES ASSUME ChainInv, HistoryInv PROVE consensus = Replay(byDepth)
    BY DEF DifficultyFromChain
  <2>1. Size - 1 \in Nat /\ DOMAIN byDepth = 0..(Size - 1)
    BY SizeType DEF ChainInv, ChainIntact
  <2>2. PICK g : IsHistory(g, byDepth, Size - 1) /\ g[Size - 1] = consensus
    BY DEF HistoryInv
  <2> QED
    BY <2>1, <2>2, ReplayIsHistory
<1> QED
  BY <1>1, HistoryInvariant, ChainInvariant, PTL
-----------------------------------------------------------------------------
(* The database *)

\* What is on disk while no crash falls between the first two puts: only the block
\* being put may lack its PREVIOUS_BLOCK_HASH key, and in a live process every
\* block of the chain but that one is completely stored.
StorageInv ==
  /\ dbPrev \subseteq dbBlock
  /\ dbBlock \subseteq dbPrev \cup (IF pushNext = "prev" THEN {pushBlock} ELSE {})
  /\ \A b \in dbPrev : PrevHash[b] \in dbPrev \cup {Genesis}
  /\ dbLast \in dbPrev \cup {NoHash}
  /\ pushNext # "idle" => /\ mode \in {"running", "loading"}
                          /\ pushBlock \in Block
                          /\ PrevHash[pushBlock] \in dbPrev \cup {Genesis}
  /\ pushNext = "prev" => pushBlock \in dbBlock
  /\ pushNext = "last" => pushBlock \in dbPrev
  /\ mode \in {"running", "walking", "loading"} =>
       blocks \subseteq dbPrev \cup {Genesis, pushBlock}
  /\ mode = "walking" => cursor \in dbPrev \cup {Genesis}
  /\ toLoad \in Seq(dbPrev)
  /\ StartsAgain

\* Accepting a block starts a push whose parent is stored.
LEMMA StorageAdd ==
  ASSUME ChainInv, StorageInv, NEW b \in Block, Acceptable(b), AddToMemory(b),
         mode \in {"running", "loading"}, pushNext = "idle", UNCHANGED disk
  PROVE  /\ blocks' \subseteq dbPrev' \cup {Genesis, pushBlock'}
         /\ pushBlock' \in Block
         /\ PrevHash[pushBlock'] \in dbPrev' \cup {Genesis}
<1>1. pushBlock = NoHash /\ NoHash \notin blocks
  BY BlockAssumption DEF ChainInv, TypeOK
<1>2. blocks \subseteq dbPrev \cup {Genesis}
  BY <1>1 DEF StorageInv
<1>3. top \in blocks
  <2>1. Size - 1 \in 0..(Size - 1)
    BY SizeType
  <2> QED BY <2>1 DEF ChainInv, ChainIntact
<1> QED
  BY <1>2, <1>3 DEF AddToMemory, Acceptable, disk

\* StorageInv is inductive when no crash falls between the puts of BLOCK and
\* PREVIOUS_BLOCK_HASH.
LEMMA StorageStep ==
  ASSUME "prev" \notin CrashPoints, ChainInv, StorageInv, [Next]_vars
  PROVE  StorageInv'
<1> USE DEF StartsAgain
<1>1. ASSUME NEW b \in Block, TryAddBlock(b) PROVE StorageInv'
  <2>1. /\ Acceptable(b) /\ AddToMemory(b) /\ UNCHANGED disk
        /\ mode = "running" /\ mode' = mode /\ pushNext = "idle" /\ pushNext' = "block"
        /\ UNCHANGED <<cursor, toLoad, dbBlock, dbPrev, dbLast>>
    BY <1>1 DEF TryAddBlock, AddToMemory, startup, disk
  <2>2. /\ blocks' \subseteq dbPrev' \cup {Genesis, pushBlock'}
        /\ pushBlock' \in Block /\ PrevHash[pushBlock'] \in dbPrev' \cup {Genesis}
    BY <2>1, StorageAdd
  <2> QED BY <2>1, <2>2 DEF StorageInv
<1>2. CASE PutBlock
  <2>1. UNCHANGED <<blocks, dbPrev, dbLast, mode, cursor, toLoad>> /\ pushNext = "block"
    BY <1>2 DEF PutBlock, memory, startup
  <2>2. CASE pushBlock \in dbBlock
    BY <1>2, <2>1, <2>2 DEF PutBlock, StorageInv
  <2>3. CASE pushBlock \notin dbBlock
    BY <1>2, <2>1, <2>3 DEF PutBlock, StorageInv
  <2> QED BY <2>2, <2>3
<1>3. CASE PutPrev
  <2>1. UNCHANGED <<blocks, dbBlock, dbLast, pushBlock, mode, cursor, toLoad>>
        /\ pushNext = "prev" /\ pushNext' = "last" /\ dbPrev' = dbPrev \cup {pushBlock}
    BY <1>3 DEF PutPrev, memory, startup
  <2>2. toLoad' \in Seq(dbPrev')
    BY <2>1, SeqMonotonic DEF StorageInv
  <2> QED BY <2>1, <2>2 DEF StorageInv
<1>4. CASE PutLast
  BY <1>4 DEF PutLast, StorageInv, memory, startup
<1>5. CASE Crash
  <2>1. /\ pushNext # "prev" /\ mode' = "down" /\ pushNext' = "idle" /\ toLoad' = <<>>
        /\ UNCHANGED <<blocks, dbBlock, dbPrev, dbLast>>
    BY <1>5 DEF Crash, memory, disk
  <2> QED BY <2>1, EmptySeq DEF StorageInv
<1>6. CASE Restart
  <2>1. /\ blocks' = {Genesis} /\ cursor' = dbLast
        /\ mode' = IF dbLast = NoHash THEN "running" ELSE "walking"
        /\ UNCHANGED <<dbBlock, dbPrev, dbLast, pushBlock, pushNext, toLoad>>
    BY <1>6 DEF Restart, FreshMemory, disk, push
  <2>2. pushNext = "idle"
    BY <1>6 DEF Restart, StorageInv
  <2> QED BY <2>1, <2>2 DEF StorageInv
<1>7. CASE WalkBack
  <2>1. cursor \in dbPrev
    BY <1>7 DEF WalkBack, StorageInv
  <2>2. /\ toLoad' = <<cursor>> \o toLoad /\ cursor' = PrevHash[cursor] /\ mode' = mode
        /\ UNCHANGED <<blocks, dbBlock, dbPrev, dbLast, pushBlock, pushNext>>
    BY <1>7, <2>1 DEF WalkBack, memory, disk, push
  <2>3. toLoad' \in Seq(dbPrev)
    BY <2>1, <2>2 DEF StorageInv
  <2> QED BY <2>1, <2>2, <2>3 DEF StorageInv
<1>8. CASE WalkDone
  BY <1>8 DEF WalkDone, StorageInv, memory, disk, push
<1>9. CASE LoadBlock
  <2>1. /\ mode = "loading" /\ pushNext = "idle"
        /\ Head(toLoad) \in dbPrev /\ Tail(toLoad) \in Seq(dbPrev)
    BY <1>9, HeadTailProperties DEF LoadBlock, StorageInv
  <2>2. Head(toLoad) \in dbBlock /\ Head(toLoad) \in Block
    BY <2>1 DEF StorageInv, ChainInv, TypeOK
  <2>3. /\ toLoad' = Tail(toLoad) /\ mode' = mode
        /\ UNCHANGED <<disk, cursor, dbBlock, dbPrev, dbLast>>
    BY <1>9, <2>2 DEF LoadBlock, disk
  <2>4. CASE Acceptable(Head(toLoad))
    <3>1. AddToMemory(Head(toLoad)) /\ pushNext' = "block"
      BY <1>9, <2>2, <2>4 DEF LoadBlock, AddToMemory
    <3>2. /\ blocks' \subseteq dbPrev' \cup {Genesis, pushBlock'}
          /\ pushBlock' \in Block /\ PrevHash[pushBlock'] \in dbPrev' \cup {Genesis}
      BY <2>1, <2>2, <2>3, <2>4, <3>1, StorageAdd
    <3> QED BY <2>1, <2>3, <3>1, <3>2 DEF StorageInv
  <2>5. CASE ~Acceptable(Head(toLoad))
    <3>1. UNCHANGED <<blocks, pushBlock, pushNext>>
      BY <1>9, <2>2, <2>5 DEF LoadBlock, memory, push
    <3> QED BY <2>1, <2>3, <3>1 DEF StorageInv
  <2> QED BY <2>4, <2>5
<1>10. CASE LoadDone
  BY <1>10 DEF LoadDone, StorageInv, memory, disk, push
<1>11. CASE SetClock
  BY <1>11 DEF SetClock, StorageInv, memory, disk, push, startup
<1>12. CASE UNCHANGED vars
  BY <1>12 DEF StorageInv, vars, memory, disk, push, startup
<1> QED
  BY <1>1, <1>2, <1>3, <1>4, <1>5, <1>6, <1>7, <1>8, <1>9, <1>10, <1>11, <1>12 DEF Next

\* The storage invariant of a node that never stops between those two puts.
LEMMA StorageInvariant ==
  ASSUME "prev" \notin CrashPoints
  PROVE  Spec => []StorageInv
<1>1. Init => StorageInv
  BY EmptySeq DEF Init, StorageInv, StartsAgain
<1>2. ChainInv /\ StorageInv /\ [Next]_vars => StorageInv'
  BY StorageStep
<1> QED
  BY <1>1, <1>2, ChainInvariant, PTL DEF Spec

\* If no crash falls between the puts of BLOCK and PREVIOUS_BLOCK_HASH the stored
\* blocks are always closed under "previous": the walk of load() finds every key.
THEOREM StorageIsClosed ==
  ASSUME "prev" \notin CrashPoints
  PROVE  Spec => []StorageClosed
<1>1. StorageInv => StorageClosed
  BY DEF StorageInv, StorageClosed
<1> QED
  BY <1>1, StorageInvariant, PTL

\* Then load() never fails an ASSERT: that one window is the only place where a
\* crash can make the node unable to start again.
THEOREM NodeStartsAgain ==
  ASSUME "prev" \notin CrashPoints
  PROVE  Spec => []StartsAgain
  BY StorageInvariant, PTL DEF StorageInv
-----------------------------------------------------------------------------
(* The refinement of ChainLog *)

\* The chain that ChainLog is about.
TheLog == IF mode = "running" THEN byDepth ELSE saved

\* A chain of blocks that tryAddBlock accepts one after the other at time t, with the states of
\* the consensus in between.
Reloadable(c, n, g, t) ==
  /\ c = [d \in 0..n |-> c[d]] /\ c[0] = Genesis
  /\ \A d \in 1..n :
       /\ c[d] \in Block /\ c[d] # Genesis
       /\ PrevHash[c[d]] = c[d - 1] /\ Depth[c[d]] = d
       /\ Timestamp[c[d - 1]] < Timestamp[c[d]] /\ Timestamp[c[d]] <= t + SecondsInDay
       /\ TxCount[c[d]] \in 1..MaxTxInBlock
  /\ IsHistory(g, c, n)

\* The blocks up to depth n without the genesis block, which is never stored, the last of them,
\* and the ones after depth k.
Upto(c, n) == {c[d] : d \in 1..n}
TipOf(c, n) == IF n = 0 THEN NoHash ELSE c[n]
After(c, k, n) == [i \in 1..(n - k) |-> c[k + i]]

\* The keys of the database: BLOCK up to depth b, PREVIOUS_BLOCK_HASH up to p, and LAST_BLOCK_HASH
\* for the block at l.
OnDisk(c, b, p, l) == dbBlock = Upto(c, b) /\ dbPrev = Upto(c, p) /\ dbLast = TipOf(c, l)

\* The database lags behind the chain by the puts that are still to come.
RunningAt(n, g) ==
  /\ pushNext # "idle" => n > 0 /\ pushBlock = byDepth[n]
  /\ OnDisk(byDepth, IF pushNext = "block" THEN n - 1 ELSE n,
                     IF pushNext \in {"block", "prev"} THEN n - 1 ELSE n,
                     IF pushNext = "idle" THEN n ELSE n - 1)
  /\ consensus = g[n]

\* Everything that is to be found again is on disk, and nothing else.
DownAt(n) == pushNext = "idle" /\ toLoad = <<>> /\ OnDisk(saved, n, n, n)

\* The walk has come down to depth k.
WalkingAt(n, k) ==
  /\ pushNext = "idle" /\ OnDisk(saved, n, n, n)
  /\ byDepth = GenesisChain /\ consensus = InitialConsensus
  /\ cursor = saved[k] /\ toLoad = After(saved, k, n)

\* The reload has come up to depth k.
LoadingAt(n, g, k) ==
  /\ pushNext \in {"idle", "block"} /\ OnDisk(saved, n, n, n)
  /\ pushNext = "block" => pushBlock \in dbBlock
  /\ byDepth = [d \in 0..k |-> saved[d]] /\ consensus = g[k]
  /\ toLoad = After(saved, k, n)

\* Where the node is with respect to a log of depth n with history g.
Situation(n, g) ==
  /\ Reloadable(TheLog, n, g, now)
  /\ mode \in {"running", "down", "walking", "loading"}
  /\ mode = "running" => RunningAt(n, g)
  /\ mode = "down" => DownAt(n)
  /\ mode = "walking" => \E k \in 0..n : WalkingAt(n, k)
  /\ mode = "loading" => \E k \in 0..n : LoadingAt(n, g, k)

\* Wherever a crash finds the node, the log comes back.
LogInv == \E n \in Nat : \E g : Situation(n, g)

\* The conditions under which an acknowledged block is never lost: no crash after the first put
\* of a push, and a clock that is not set back.
Durable == CrashPoints \cap {"prev", "last"} = {} /\ ~ClockStepsBack

\* A chain that can be reloaded now can be reloaded later.
LEMMA ReloadableLater ==
  ASSUME NEW n \in Nat, NEW c, NEW g, NEW t \in Nat, NEW u \in Nat, t <= u, Reloadable(c, n, g, t)
  PROVE  Reloadable(c, n, g, u)
<1>1. ASSUME NEW d \in 1..n PROVE Timestamp[c[d]] <= u + SecondsInDay
  <2>1. Timestamp[c[d]] \in Nat /\ Timestamp[c[d]] <= t + SecondsInDay /\ SecondsInDay \in Nat
    BY BlockAssumption, BlockchainAssumption DEF Reloadable
  <2> QED
    BY <2>1
<1> QED
  BY <1>1 DEF Reloadable

\* The blocks of such a chain are distinct from each other and from the genesis block.
LEMMA ReloadableDistinct ==
  ASSUME NEW n \in Nat, NEW c, NEW g, NEW t, Reloadable(c, n, g, t)
  PROVE  /\ DOMAIN c = 0..n /\ \A d \in 0..n : c[d] \in Block
         /\ \A d \in 0..n : c[d] = Genesis <=> d = 0
         /\ \A d, e \in 0..n : c[d] = c[e] => d = e
<1>1. DOMAIN c = 0..n /\ c[0] = Genesis
  BY DEF Reloadable
<1>2. \A d \in 1..n : c[d] \in Block /\ c[d] # Genesis /\ Depth[c[d]] = d
  BY DEF Reloadable
<1>3. \A d \in 0..n : d = 0 \/ d \in 1..n
  OBVIOUS
<1> QED
  BY <1>1, <1>2, <1>3, BlockAssumption

\* Without its last block the chain can be reloaded too.
LEMMA ReloadableShorter ==
  ASSUME NEW n \in Nat, n > 0, NEW c, NEW g, NEW t, Reloadable(c, n, g, t)
  PROVE  Reloadable([d \in 0..(n - 1) |-> c[d]], n - 1, [i \in 0..(n - 1) |-> g[i]], t)
<1> DEFINE e == [d \in 0..(n - 1) |-> c[d]]
           h == [i \in 0..(n - 1) |-> g[i]]
<1>1. e = [d \in 0..(n - 1) |-> e[d]] /\ \A d \in 0..(n - 1) : e[d] = c[d] /\ h[d] = g[d]
  OBVIOUS
<1>2. g \in [0..n -> ConsensusStates]
  BY DEF Reloadable, IsHistory
<1>3. h \in [0..(n - 1) -> ConsensusStates]
  BY <1>2
<1> HIDE DEF e, h
<1>4. \A d \in 1..(n - 1) : d \in 1..n /\ d \in 0..(n - 1) /\ d - 1 \in 0..(n - 1)
  OBVIOUS
<1>5. 0 \in 0..(n - 1)
  OBVIOUS
<1>6. IsHistory(h, e, n - 1)
  BY <1>1, <1>3, <1>4, <1>5 DEF Reloadable, IsHistory
<1>7. \A d \in 1..(n - 1) :
       /\ e[d] \in Block /\ e[d] # Genesis
       /\ PrevHash[e[d]] = e[d - 1] /\ Depth[e[d]] = d
       /\ Timestamp[e[d - 1]] < Timestamp[e[d]] /\ Timestamp[e[d]] <= t + SecondsInDay
       /\ TxCount[e[d]] \in 1..MaxTxInBlock
  BY <1>1, <1>4 DEF Reloadable
<1>8. e[0] = Genesis
  BY <1>1, <1>5 DEF Reloadable
<1>9. Reloadable(e, n - 1, h, t)
  BY <1>1, <1>6, <1>7, <1>8 DEF Reloadable
<1> QED
  BY <1>9 DEF e, h

\* What is on disk of a chain is on disk of a longer one.
LEMMA SameDisk ==
  ASSUME NEW n \in Nat, NEW c, NEW e, \A d \in 0..n : c[d] = e[d]
  PROVE  Upto(c, n) = Upto(e, n) /\ TipOf(c, n) = TipOf(e, n)
<1>1. \A d \in 1..n : d \in 0..n
  OBVIOUS
<1> QED
  BY <1>1 DEF Upto, TipOf

\* One more block on disk.
LEMMA UptoNext ==
  ASSUME NEW n \in Nat, n > 0, NEW c
  PROVE  Upto(c, n) = Upto(c, n - 1) \cup {c[n]}
<1>1. \A d \in 1..n : d \in 1..(n - 1) \/ d = n
  OBVIOUS
<1>2. n \in 1..n /\ \A d \in 1..(n - 1) : d \in 1..n
  OBVIOUS
<1> QED
  BY <1>1, <1>2 DEF Upto

\* What is left to load.
LEMMA AfterFacts ==
  ASSUME NEW n \in Nat, NEW k \in 0..n, NEW c, \A d \in 0..n : c[d] \in Block
  PROVE  /\ After(c, k, n) \in Seq(Block) /\ Len(After(c, k, n)) = n - k
         /\ After(c, k, n) = <<>> <=> k = n
         /\ k < n => Head(After(c, k, n)) = c[k + 1] /\ Tail(After(c, k, n)) = After(c, k + 1, n)
         /\ k > 0 => <<c[k]>> \o After(c, k, n) = After(c, k - 1, n)
<1>1. ASSUME NEW j \in 0..n
      PROVE  /\ After(c, j, n) \in Seq(Block) /\ Len(After(c, j, n)) = n - j
             /\ \A i \in 1..(n - j) : After(c, j, n)[i] = c[j + i]
  <2>1. n - j \in Nat /\ \A i \in 1..(n - j) : c[j + i] \in Block
    BY <1>1
  <2>2. After(c, j, n) \in [1..(n - j) -> Block]
    BY <2>1 DEF After
  <2>3. After(c, j, n) \in Seq(Block)
    BY <2>1, <2>2, SeqDef
  <2>4. DOMAIN After(c, j, n) = 1..(n - j)
    BY DEF After
  <2>5. Len(After(c, j, n)) = n - j
    BY <2>1, <2>3, <2>4, LenProperties
  <2> QED
    BY <2>3, <2>5 DEF After
<1>2. /\ After(c, k, n) \in Seq(Block) /\ Len(After(c, k, n)) = n - k
      /\ \A i \in 1..(n - k) : After(c, k, n)[i] = c[k + i]
  BY <1>1
<1>3. After(c, k, n) = <<>> <=> k = n
  <2>1. After(c, k, n) = <<>> => n - k = 0
    BY <1>2, EmptySeq
  <2>2. After(c, k, n) # <<>> => n - k # 0
    BY <1>2, EmptySeq
  <2> QED
    BY <2>1, <2>2
<1>4. ASSUME k < n PROVE Head(After(c, k, n)) = c[k + 1] /\ Tail(After(c, k, n)) = After(c, k + 1, n)
  <2> DEFINE s == After(c, k, n)
             t == After(c, k + 1, n)
  <2>1. k + 1 \in 0..n
    BY <1>4
  <2>2. /\ t \in Seq(Block) /\ Len(t) = n - (k + 1)
        /\ \A i \in 1..(n - (k + 1)) : t[i] = c[(k + 1) + i]
    BY <1>1, <2>1
  <2>3. s \in Seq(Block) /\ s # <<>> /\ Len(s) = n - k /\ \A i \in 1..(n - k) : s[i] = c[k + i]
    BY <1>2, <1>3, <1>4
  <2> HIDE DEF s, t
  <2>4. /\ Head(s) = s[1] /\ Tail(s) \in Seq(Block) /\ Len(Tail(s)) = Len(s) - 1
        /\ \A i \in 1..Len(Tail(s)) : Tail(s)[i] = s[i + 1]
    BY <2>3, HeadTailProperties
  <2>5. Len(Tail(s)) = n - (k + 1)
    BY <2>3, <2>4
  <2>6. ASSUME NEW i \in 1..(n - (k + 1)) PROVE Tail(s)[i] = t[i]
    <3>1. i + 1 \in 1..(n - k) /\ k + (i + 1) = (k + 1) + i
      BY <1>4
    <3> QED
      BY <2>2, <2>3, <2>4, <2>5, <3>1
  <2>7. Tail(s) = t
    BY <2>2, <2>4, <2>5, <2>6, SeqEqual
  <2>8. 1 \in 1..(n - k)
    BY <1>4
  <2> QED
    BY <2>3, <2>4, <2>7, <2>8 DEF s, t
<1>5. ASSUME k > 0 PROVE <<c[k]>> \o After(c, k, n) = After(c, k - 1, n)
  <2> DEFINE one == <<c[k]>>
             u == After(c, k, n)
             s == one \o u
             t == After(c, k - 1, n)
  <2>1. c[k] \in Block /\ k - 1 \in 0..n
    BY <1>5
  <2>2. one \in Seq(Block) /\ Len(one) = 1 /\ one[1] = c[k]
    BY <2>1
  <2>3. u \in Seq(Block) /\ Len(u) = n - k /\ \A i \in 1..(n - k) : u[i] = c[k + i]
    BY <1>2
  <2>4. /\ t \in Seq(Block) /\ Len(t) = n - (k - 1)
        /\ \A i \in 1..(n - (k - 1)) : t[i] = c[(k - 1) + i]
    BY <1>1, <2>1
  <2> HIDE DEF one, u, t
  <2>5. /\ s \in Seq(Block) /\ Len(s) = Len(one) + Len(u)
        /\ \A i \in 1..(Len(one) + Len(u)) : s[i] = IF i <= Len(one) THEN one[i] ELSE u[i - Len(one)]
    BY <2>2, <2>3, ConcatProperties
  <2> HIDE DEF s
  <2>6. Len(s) = n - (k - 1)
    BY <2>2, <2>3, <2>5
  <2>7. ASSUME NEW i \in 1..(n - (k - 1)) PROVE s[i] = t[i]
    <3>1. CASE i = 1
      <4>1. (k - 1) + i = k /\ i \in 1..(Len(one) + Len(u))
        BY <2>2, <2>3, <3>1
      <4>2. t[i] = c[k] /\ s[i] = one[1]
        BY <2>2, <2>4, <2>5, <3>1, <4>1
      <4> QED
        BY <2>2, <4>2
    <3>2. CASE i # 1
      <4>1. /\ i - 1 \in 1..(n - k) /\ k + (i - 1) = (k - 1) + i
            /\ i \in 1..(Len(one) + Len(u)) /\ ~(i <= Len(one))
        BY <2>2, <2>3, <3>2
      <4>2. s[i] = u[i - 1]
        BY <2>2, <2>5, <4>1
      <4> QED
        BY <2>3, <2>4, <4>1, <4>2
    <3> QED
      BY <3>1, <3>2
  <2>8. s = t
    BY <2>4, <2>5, <2>6, <2>7, SeqEqual
  <2> QED
    BY <2>8 DEF s, t, one, u
<1> QED
  BY <1>2, <1>3, <1>4, <1>5

InFlight == mode = "running" /\ pushNext # "idle"

\* A step that ChainLog does not see.
LEMMA LogStutter ==
  ASSUME TheLog' = TheLog, InFlight' = InFlight, (mode = "running")' = (mode = "running")
  PROVE  UNCHANGED Log!vars
  BY DEF TheLog, InFlight, Log!vars

\* The depth of the last block of a log.
LEMMA LogLast ==
  ASSUME NEW n \in Nat, NEW c, DOMAIN c = 0..n
  PROVE  Log!Last(c) = n
<1>1. n \in DOMAIN c /\ \A e \in DOMAIN c : e <= n
  OBVIOUS
<1>2. ASSUME NEW d \in 0..n, \A e \in 0..n : e <= d PROVE d = n
  <2>1. n <= d /\ d <= n
    BY <1>2
  <2> QED
    BY <2>1
<1> QED
  BY <1>1, <1>2 DEF Log!Last

\* While the node runs, the log is the chain in memory.
LEMMA RunningFacts ==
  ASSUME ChainInv, NEW n \in Nat, NEW g, Situation(n, g), mode = "running"
  PROVE  /\ TheLog = byDepth /\ Reloadable(byDepth, n, g, now) /\ RunningAt(n, g)
         /\ Size = n + 1 /\ DOMAIN byDepth = 0..n /\ top = byDepth[n]
         /\ blocks = {byDepth[d] : d \in 0..n}
<1>1. TheLog = byDepth /\ Reloadable(byDepth, n, g, now) /\ RunningAt(n, g)
  BY DEF TheLog, Situation
<1>2. DOMAIN byDepth = 0..n
  BY <1>1, ReloadableDistinct
<1>3. Size - 1 \in Nat /\ DOMAIN byDepth = 0..(Size - 1) /\ top = byDepth[Size - 1]
      /\ blocks = {byDepth[d] : d \in DOMAIN byDepth}
  BY SizeType DEF ChainInv, ChainIntact
<1>4. Size - 1 = n
  <2>1. Size - 1 \in 0..n /\ n \in 0..(Size - 1)
    BY <1>2, <1>3
  <2> QED
    BY <1>3, <2>1
<1>5. Size = n + 1
  BY <1>4, SizeType
<1> QED
  BY <1>1, <1>2, <1>3, <1>4, <1>5

\* An accepted block begins an addition.
LEMMA LogTryAddBlock ==
  ASSUME ChainInv, NEW n \in Nat, NEW g, Situation(n, g), NEW b \in Block, TryAddBlock(b)
  PROVE  LogInv' /\ Log!Next
<1>1. /\ mode = "running" /\ mode' = "running" /\ pushNext = "idle" /\ pushNext' = "block"
      /\ pushBlock' = b /\ consensus' = ApplyBlock(consensus, b) /\ now' = now
      /\ UNCHANGED <<dbBlock, dbPrev, dbLast>> /\ Acceptable(b) /\ AddToMemory(b)
  BY DEF TryAddBlock, AddToMemory, disk, startup
<1>2. /\ TheLog = byDepth /\ Reloadable(byDepth, n, g, now) /\ RunningAt(n, g)
      /\ Size = n + 1 /\ DOMAIN byDepth = 0..n /\ top = byDepth[n]
      /\ blocks = {byDepth[d] : d \in 0..n}
  BY <1>1, RunningFacts
<1>3. /\ byDepth' = [d \in 0..(n + 1) |-> IF d \in 0..n THEN byDepth[d] ELSE b]
  <2>1. byDepth' = [d \in 0..n \cup {n + 1} |-> IF d \in 0..n THEN byDepth[d] ELSE b]
    BY <1>1, <1>2 DEF AddToMemory, Inserted, Acceptable
  <2>2. 0..n \cup {n + 1} = 0..(n + 1)
    OBVIOUS
  <2> QED
    BY <2>1, <2>2
<1>4. (\A d \in 0..n : byDepth'[d] = byDepth[d]) /\ byDepth'[n + 1] = b
  <2>1. \A d \in 0..n : d \in 0..(n + 1)
    OBVIOUS
  <2>2. n + 1 \in 0..(n + 1) /\ n + 1 \notin 0..n
    OBVIOUS
  <2> QED
    BY <1>3, <2>1, <2>2
<1>5. byDepth' = [d \in 0..(n + 1) |-> byDepth'[d]]
  BY <1>3
<1>6. /\ b # Genesis /\ PrevHash[b] = byDepth[n] /\ Depth[b] = n + 1
      /\ Timestamp[byDepth[n]] < Timestamp[b] /\ Timestamp[b] <= now + SecondsInDay
      /\ TxCount[b] \in 1..MaxTxInBlock /\ CheckBlock(g[n], b) /\ b \notin blocks
  BY <1>1, <1>2 DEF Acceptable, RunningAt, ChainInv
<1>7. PICK h : IsHistory(h, byDepth', n + 1) /\ h[n + 1] = ApplyBlock(g[n], b)
  <2>1. IsHistory(g, byDepth, n)
    BY <1>2 DEF Reloadable
  <2>2. \A d \in 1..n : byDepth'[d] = byDepth[d]
    BY <1>4
  <2> QED
    BY <1>4, <1>6, <2>1, <2>2, HistoryGrows
<1>8. ASSUME NEW d \in 1..(n + 1)
      PROVE  /\ byDepth'[d] \in Block /\ byDepth'[d] # Genesis
             /\ PrevHash[byDepth'[d]] = byDepth'[d - 1] /\ Depth[byDepth'[d]] = d
             /\ Timestamp[byDepth'[d - 1]] < Timestamp[byDepth'[d]]
             /\ Timestamp[byDepth'[d]] <= now + SecondsInDay
             /\ TxCount[byDepth'[d]] \in 1..MaxTxInBlock
  <2>1. CASE d = n + 1
    <3>1. byDepth'[d] = b /\ byDepth'[d - 1] = byDepth[n]
      BY <1>4, <2>1
    <3> QED
      BY <1>6, <2>1, <3>1
  <2>2. CASE d # n + 1
    <3>1. d \in 1..n /\ byDepth'[d] = byDepth[d] /\ byDepth'[d - 1] = byDepth[d - 1]
      BY <1>4, <2>2
    <3> QED
      BY <1>2, <3>1 DEF Reloadable
  <2> QED
    BY <2>1, <2>2
<1>9. byDepth'[0] = Genesis
  BY <1>2, <1>4 DEF Reloadable
<1>10. Reloadable(byDepth', n + 1, h, now)
  BY <1>5, <1>7, <1>8, <1>9 DEF Reloadable
<1>11. dbBlock = Upto(byDepth', n) /\ dbPrev = Upto(byDepth', n) /\ dbLast = TipOf(byDepth', n)
  BY <1>1, <1>2, <1>4, SameDisk DEF RunningAt, OnDisk
<1>12. RunningAt(n + 1, h)'
  <2>1. (n + 1) - 1 = n /\ n + 1 > 0
    OBVIOUS
  <2>2. consensus' = h[n + 1]
    BY <1>1, <1>2, <1>7 DEF RunningAt
  <2> QED
    BY <1>1, <1>4, <1>11, <2>1, <2>2 DEF RunningAt, OnDisk
<1>13. Situation(n + 1, h)'
  BY <1>1, <1>10, <1>12 DEF Situation, TheLog
<1>14. LogInv'
  BY <1>13 DEF LogInv
<1>15. Log!Begin(b)
  <2>1. Log!Last(byDepth) = n
    BY <1>2, LogLast
  <2>2. byDepth' = Log!Extended(byDepth, b)
    <3>1. 0..n \cup {n + 1} = 0..(n + 1)
      OBVIOUS
    <3> QED
      BY <1>2, <1>3, <2>1, <3>1 DEF Log!Extended
  <2>3. \A d \in DOMAIN byDepth : byDepth[d] # b
    BY <1>2, <1>6
  <2> QED
    BY <1>1, <1>6, <2>1, <2>2, <2>3 DEF Log!Begin
<1> QED
  BY <1>14, <1>15 DEF Log!Next

\* The puts of a push; a block that is loaded is stored already.
LEMMA LogPuts ==
  ASSUME ChainInv, NEW n \in Nat, NEW g, Situation(n, g), PutBlock \/ PutPrev \/ PutLast
  PROVE  LogInv' /\ [Log!Next]_(Log!vars)
<1>1. /\ mode' = mode /\ now' = now /\ pushNext # "idle"
      /\ UNCHANGED <<byDepth, consensus, saved, toLoad, cursor, Size>>
  BY DEF PutBlock, PutPrev, PutLast, memory, startup, Size
<1>2. TheLog' = TheLog
  BY <1>1 DEF TheLog
<1>3. CASE mode = "running"
  <2>1. /\ TheLog = byDepth /\ Reloadable(byDepth, n, g, now) /\ RunningAt(n, g)
        /\ DOMAIN byDepth = 0..n
    BY <1>3, RunningFacts
  <2>2. n > 0 /\ n - 1 \in Nat /\ pushBlock = byDepth[n] /\ consensus = g[n]
    BY <1>1, <2>1 DEF RunningAt
  <2>3. Upto(byDepth, n) = Upto(byDepth, n - 1) \cup {byDepth[n]}
    BY <2>2, UptoNext
  <2>4. CASE PutBlock
    <3>1. pushBlock \notin dbBlock
      <4>1. dbBlock = Upto(byDepth, n - 1)
        BY <2>1, <2>4 DEF PutBlock, RunningAt, OnDisk
      <4>2. \A d \in 1..(n - 1) : d \in 0..n /\ n \in 0..n /\ d # n
        OBVIOUS
      <4>3. \A d \in 1..(n - 1) : byDepth[d] # byDepth[n]
        BY <2>1, <4>2, ReloadableDistinct
      <4> QED
        BY <2>2, <4>1, <4>3 DEF Upto
    <3>2. /\ pushNext = "block" /\ pushNext' = "prev" /\ dbBlock' = dbBlock \cup {pushBlock}
          /\ UNCHANGED <<pushBlock, dbPrev, dbLast>>
      BY <2>4, <3>1 DEF PutBlock
    <3>3. RunningAt(n, g)'
      BY <1>1, <2>1, <2>2, <2>3, <3>2 DEF RunningAt, OnDisk
    <3>4. Situation(n, g)'
      BY <1>1, <1>2, <1>3, <3>3 DEF Situation
    <3>5. InFlight' = InFlight
      BY <1>1, <3>2 DEF InFlight
    <3> QED
      BY <1>1, <1>2, <3>4, <3>5, LogStutter DEF LogInv
  <2>5. CASE PutPrev
    <3>1. /\ pushNext = "prev" /\ pushNext' = "last" /\ dbPrev' = dbPrev \cup {pushBlock}
          /\ UNCHANGED <<pushBlock, dbBlock, dbLast>>
      BY <2>5 DEF PutPrev
    <3>2. RunningAt(n, g)'
      BY <1>1, <2>1, <2>2, <2>3, <3>1 DEF RunningAt, OnDisk
    <3>3. Situation(n, g)'
      BY <1>1, <1>2, <1>3, <3>2 DEF Situation
    <3>4. InFlight' = InFlight
      BY <1>1, <3>1 DEF InFlight
    <3> QED
      BY <1>1, <1>2, <3>3, <3>4, LogStutter DEF LogInv
  <2>6. CASE PutLast
    <3>1. /\ pushNext = "last" /\ pushNext' = "idle" /\ dbLast' = pushBlock
          /\ UNCHANGED <<dbBlock, dbPrev>>
      BY <2>6 DEF PutLast
    <3>2. RunningAt(n, g)'
      BY <1>1, <2>1, <2>2, <3>1 DEF RunningAt, OnDisk, TipOf
    <3>3. Situation(n, g)'
      BY <1>1, <1>2, <1>3, <3>2 DEF Situation
    <3>4. Log!Acknowledge
      BY <1>1, <1>3, <3>1 DEF Log!Acknowledge
    <3> QED
      BY <3>3, <3>4 DEF LogInv, Log!Next
  <2> QED
    BY <2>4, <2>5, <2>6
<1>4. CASE mode # "running"
  <2>1. mode = "loading"
    BY <1>1, <1>4 DEF Situation, DownAt, WalkingAt
  <2>2. PICK k \in 0..n : LoadingAt(n, g, k)
    BY <2>1 DEF Situation
  <2>3. pushNext = "block" /\ pushBlock \in dbBlock
    BY <1>1, <2>2 DEF LoadingAt
  <2>4. pushNext' = "idle" /\ UNCHANGED <<dbBlock, dbPrev, dbLast>>
    BY <2>3 DEF PutBlock, PutPrev, PutLast
  <2>5. LoadingAt(n, g, k)'
    BY <1>1, <2>2, <2>4 DEF LoadingAt, OnDisk
  <2>6. Situation(n, g)'
    BY <1>1, <1>2, <2>1, <2>5 DEF Situation
  <2>7. InFlight' = InFlight
    BY <1>1, <1>4 DEF InFlight
  <2> QED
    BY <1>1, <1>2, <2>6, <2>7, LogStutter DEF LogInv
<1> QED
  BY <1>3, <1>4

\* A crash loses at most the block whose first put has not been made.
LEMMA LogCrash ==
  ASSUME Durable, ChainInv, NEW n \in Nat, NEW g, Situation(n, g), Crash
  PROVE  LogInv' /\ [Log!Next]_(Log!vars)
<1>1. /\ mode \in {"running", "walking", "loading"} /\ mode' = "down" /\ now' = now
      /\ pushNext \in CrashPoints /\ pushNext' = "idle" /\ toLoad' = <<>>
      /\ UNCHANGED <<byDepth, dbBlock, dbPrev, dbLast>>
  BY DEF Crash, memory, disk
<1>2. pushNext \in {"idle", "block"}
  BY <1>1, BlockchainAssumption DEF Durable, PushSteps
<1>3. TheLog' = saved'
  BY <1>1 DEF TheLog
<1>4. CASE mode # "running"
  <2>1. saved' = saved /\ TheLog = saved
    BY <1>4 DEF Crash, TheLog
  <2>2. OnDisk(saved, n, n, n)
    BY <1>1, <1>4 DEF Situation, WalkingAt, LoadingAt
  <2>3. DownAt(n)'
    BY <1>1, <2>1, <2>2 DEF DownAt, OnDisk
  <2>4. Situation(n, g)'
    BY <1>1, <1>3, <2>1, <2>3 DEF Situation
  <2>5. InFlight' = InFlight /\ (mode = "running")' = (mode = "running")
    BY <1>1, <1>4 DEF InFlight
  <2> QED
    BY <1>3, <2>1, <2>4, <2>5, LogStutter DEF LogInv
<1>5. CASE mode = "running" /\ pushNext = "idle"
  <2>1. TheLog = byDepth /\ Reloadable(byDepth, n, g, now) /\ RunningAt(n, g)
    BY <1>5, RunningFacts
  <2>2. saved' = byDepth
    BY <1>5 DEF Crash
  <2>3. DownAt(n)'
    BY <1>1, <1>5, <2>1, <2>2 DEF RunningAt, DownAt, OnDisk
  <2>4. Situation(n, g)'
    BY <1>1, <1>3, <2>1, <2>2, <2>3 DEF Situation
  <2>5. Log!Crash
    BY <1>1, <1>5, <2>2 DEF Log!Crash
  <2> QED
    BY <2>4, <2>5 DEF LogInv, Log!Next
<1>6. CASE mode = "running" /\ pushNext = "block"
  <2>1. /\ TheLog = byDepth /\ Reloadable(byDepth, n, g, now) /\ RunningAt(n, g)
        /\ Size = n + 1 /\ DOMAIN byDepth = 0..n
    BY <1>6, RunningFacts
  <2>2. /\ n > 0 /\ n - 1 \in Nat /\ pushBlock = byDepth[n]
        /\ OnDisk(byDepth, n - 1, n - 1, n - 1)
    BY <1>6, <2>1 DEF RunningAt
  <2>3. pushBlock \notin dbBlock
    <3>1. \A d \in 1..(n - 1) : d \in 0..n /\ n \in 0..n /\ d # n
      OBVIOUS
    <3>2. \A d \in 1..(n - 1) : byDepth[d] # byDepth[n]
      BY <2>1, <3>1, ReloadableDistinct
    <3> QED
      BY <2>2, <3>2 DEF OnDisk, Upto
  <2> DEFINE h == [i \in 0..(n - 1) |-> g[i]]
             e == [d \in 0..(n - 1) |-> byDepth[d]]
  <2>4. Size - 2 = n - 1
    BY <2>1
  <2>5. saved' = e
    BY <1>6, <2>3, <2>4 DEF Crash
  <2>6. Reloadable(e, n - 1, h, now)
    BY <2>1, <2>2, ReloadableShorter
  <2>7. \A d \in 0..(n - 1) : byDepth[d] = e[d]
    OBVIOUS
  <2> HIDE DEF h, e
  <2>8. Upto(byDepth, n - 1) = Upto(e, n - 1) /\ TipOf(byDepth, n - 1) = TipOf(e, n - 1)
    BY <2>2, <2>7, SameDisk
  <2>9. DownAt(n - 1)'
    BY <1>1, <2>2, <2>5, <2>8 DEF DownAt, OnDisk
  <2>10. Situation(n - 1, h)'
    BY <1>1, <1>3, <2>5, <2>6, <2>9 DEF Situation
  <2>11. Log!Crash
    <3>1. Log!Last(byDepth) = n
      BY <2>1, LogLast
    <3>2. 0..n \ {n} = 0..(n - 1)
      OBVIOUS
    <3>3. Log!Shortened(byDepth) = e
      BY <2>1, <3>1, <3>2 DEF Log!Shortened, e
    <3> QED
      BY <1>1, <1>6, <2>5, <3>3 DEF Log!Crash
  <2> QED
    BY <2>2, <2>10, <2>11 DEF LogInv, Log!Next
<1> QED
  BY <1>1, <1>2, <1>4, <1>5, <1>6

\* A start finds the last block of the log, or the log is the genesis block alone.
LEMMA LogRestart ==
  ASSUME NEW n \in Nat, NEW g, Situation(n, g), Restart
  PROVE  LogInv' /\ [Log!Next]_(Log!vars)
<1>1. mode = "down" /\ DownAt(n) /\ TheLog = saved /\ Reloadable(saved, n, g, now)
  BY DEF Restart, Situation, TheLog
<1>2. /\ byDepth' = GenesisChain /\ consensus' = InitialConsensus /\ cursor' = dbLast
      /\ mode' = IF dbLast = NoHash THEN "running" ELSE "walking"
      /\ UNCHANGED <<dbBlock, dbPrev, dbLast, pushBlock, pushNext, toLoad, now, saved>>
  BY DEF Restart, FreshMemory, disk, push
<1>3. DOMAIN saved = 0..n /\ saved[0] = Genesis /\ \A d \in 0..n : saved[d] \in Block
  BY <1>1, ReloadableDistinct DEF Reloadable
<1>4. g[0] = InitialConsensus
  BY <1>1 DEF Reloadable, IsHistory
<1>5. dbLast = TipOf(saved, n)
  BY <1>1 DEF DownAt, OnDisk
<1>6. CASE n = 0
  <2>1. dbLast = NoHash /\ mode' = "running"
    BY <1>2, <1>5, <1>6 DEF TipOf
  <2>2. byDepth' = saved
    <3>1. saved = [d \in 0..0 |-> saved[d]]
      BY <1>1, <1>6 DEF Reloadable
    <3>2. 0..0 = {0}
      OBVIOUS
    <3> QED
      BY <1>2, <1>3, <3>1, <3>2 DEF GenesisChain
  <2>3. RunningAt(n, g)'
    BY <1>1, <1>2, <1>4, <1>6, <2>2 DEF DownAt, RunningAt, OnDisk
  <2>4. Situation(n, g)'
    BY <1>1, <1>2, <2>1, <2>2, <2>3 DEF Situation, TheLog
  <2>5. Log!Recover
    BY <1>1, <1>2, <2>1, <2>2 DEF Log!Recover, DownAt
  <2> QED
    BY <2>4, <2>5 DEF LogInv, Log!Next
<1>7. CASE n # 0
  <2>1. dbLast = saved[n] /\ saved[n] \in Block /\ n \in 0..n
    BY <1>3, <1>5, <1>7 DEF TipOf
  <2>2. mode' = "walking"
    BY <1>2, <2>1, BlockAssumption
  <2>3. After(saved, n, n) = <<>>
    <3>1. n - n = 0 /\ 1..0 = {}
      OBVIOUS
    <3> QED
      BY <3>1 DEF After
  <2>4. WalkingAt(n, n)'
    BY <1>1, <1>2, <2>1, <2>3 DEF DownAt, WalkingAt, OnDisk
  <2>5. Situation(n, g)'
    BY <1>1, <1>2, <2>1, <2>2, <2>4 DEF Situation, TheLog
  <2>6. TheLog' = TheLog /\ InFlight' = InFlight /\ (mode = "running")' = (mode = "running")
    BY <1>1, <1>2, <2>2 DEF TheLog, InFlight
  <2> QED
    BY <2>5, <2>6, LogStutter DEF LogInv
<1> QED
  BY <1>6, <1>7

\* The walk takes the log up from its end, block by block.
LEMMA LogWalk ==
  ASSUME NEW n \in Nat, NEW g, Situation(n, g), WalkBack \/ WalkDone
  PROVE  LogInv' /\ UNCHANGED Log!vars
<1>1. mode = "walking" /\ TheLog = saved /\ Reloadable(saved, n, g, now)
  BY DEF WalkBack, WalkDone, Situation, TheLog
<1>2. PICK k \in 0..n : WalkingAt(n, k)
  BY <1>1 DEF Situation
<1>3. UNCHANGED <<byDepth, consensus, dbBlock, dbPrev, dbLast, pushBlock, pushNext, now, saved>>
  BY DEF WalkBack, WalkDone, memory, disk, push
<1>4. /\ \A d \in 0..n : saved[d] \in Block
      /\ \A d \in 0..n : saved[d] = Genesis <=> d = 0
  BY <1>1, ReloadableDistinct
<1>5. CASE WalkBack
  <2>1. k > 0 /\ k \in 1..n /\ k - 1 \in 0..n
    BY <1>2, <1>4, <1>5 DEF WalkBack, WalkingAt
  <2>2. cursor \in dbPrev
    BY <1>2, <2>1 DEF WalkingAt, OnDisk, Upto
  <2>3. toLoad' = <<cursor>> \o toLoad /\ cursor' = PrevHash[cursor] /\ mode' = mode
    BY <1>5, <2>2 DEF WalkBack
  <2>4. cursor' = saved[k - 1]
    BY <1>1, <1>2, <2>1, <2>3 DEF WalkingAt, Reloadable
  <2>5. toLoad' = After(saved, k - 1, n)
    BY <1>2, <1>4, <2>1, <2>3, AfterFacts DEF WalkingAt
  <2>6. WalkingAt(n, k - 1)'
    BY <1>2, <1>3, <2>4, <2>5 DEF WalkingAt, OnDisk
  <2>7. Situation(n, g)'
    BY <1>1, <1>3, <2>1, <2>3, <2>6 DEF Situation, TheLog
  <2>8. TheLog' = TheLog /\ InFlight' = InFlight /\ (mode = "running")' = (mode = "running")
    BY <1>1, <1>3, <2>3 DEF TheLog, InFlight
  <2> QED
    BY <2>7, <2>8, LogStutter DEF LogInv
<1>6. CASE WalkDone
  <2>1. k = 0 /\ mode' = "loading" /\ toLoad' = toLoad
    BY <1>2, <1>4, <1>6 DEF WalkDone, WalkingAt
  <2>2. byDepth' = [d \in 0..0 |-> saved'[d]]
    <3>1. 0..0 = {0} /\ saved[0] = Genesis
      BY <1>4
    <3> QED
      BY <1>2, <1>3, <3>1 DEF WalkingAt, GenesisChain
  <2>3. consensus' = g[0]
    BY <1>1, <1>2, <1>3 DEF WalkingAt, Reloadable, IsHistory
  <2>4. LoadingAt(n, g, 0)'
    BY <1>2, <1>3, <2>1, <2>2, <2>3 DEF WalkingAt, LoadingAt, OnDisk
  <2>5. Situation(n, g)'
    BY <1>1, <1>3, <2>1, <2>4 DEF Situation, TheLog
  <2>6. TheLog' = TheLog /\ InFlight' = InFlight /\ (mode = "running")' = (mode = "running")
    BY <1>1, <1>3, <2>1 DEF TheLog, InFlight
  <2> QED
    BY <2>5, <2>6, LogStutter DEF LogInv
<1> QED
  BY <1>5, <1>6

\* Every block of the log passes all checks of tryAddBlock again, in the state of the consensus in
\* which it passed them the first time, and is found in the database.
LEMMA LogLoadBlock ==
  ASSUME ChainInv, NEW n \in Nat, NEW g, Situation(n, g), LoadBlock
  PROVE  LogInv' /\ UNCHANGED Log!vars
<1>1. /\ mode = "loading" /\ pushNext = "idle" /\ toLoad # <<>>
      /\ TheLog = saved /\ Reloadable(saved, n, g, now)
  BY DEF LoadBlock, Situation, TheLog
<1>2. PICK k \in 0..n : LoadingAt(n, g, k)
  BY <1>1 DEF Situation
<1>3. /\ \A d \in 0..n : saved[d] \in Block
      /\ \A d, e \in 0..n : saved[d] = saved[e] => d = e
  BY <1>1, ReloadableDistinct
<1> DEFINE b == saved[k + 1]
<1>4. k < n /\ Head(toLoad) = b /\ Tail(toLoad) = After(saved, k + 1, n)
  <2>1. toLoad = After(saved, k, n)
    BY <1>2 DEF LoadingAt
  <2>2. \A d \in 0..n : saved[d] \in Block
    BY <1>3
  <2>3. /\ After(saved, k, n) = <<>> <=> k = n
        /\ k < n => /\ Head(After(saved, k, n)) = saved[k + 1]
                    /\ Tail(After(saved, k, n)) = After(saved, k + 1, n)
    BY <2>2, AfterFacts
  <2>4. k < n
    BY <1>1, <2>1, <2>3
  <2> QED
    BY <2>1, <2>3, <2>4
<1>5. k + 1 \in 1..n /\ k + 1 \in 0..n /\ (k + 1) - 1 = k /\ k \in Nat
  BY <1>4
<1>6. /\ b \in Block /\ PrevHash[b] = saved[k] /\ Depth[b] = k + 1
      /\ Timestamp[saved[k]] < Timestamp[b] /\ Timestamp[b] <= now + SecondsInDay
      /\ TxCount[b] \in 1..MaxTxInBlock
      /\ CheckBlock(g[k], b) /\ g[k + 1] = ApplyBlock(g[k], b)
  BY <1>1, <1>5 DEF Reloadable, IsHistory
<1>7. b \in dbBlock
  BY <1>2, <1>5 DEF LoadingAt, OnDisk, Upto
<1> HIDE DEF b
<1>8. byDepth = [d \in 0..k |-> saved[d]] /\ consensus = g[k]
  BY <1>2 DEF LoadingAt
<1>9. Size = k + 1
  <2>1. Size - 1 \in Nat /\ DOMAIN byDepth = 0..(Size - 1) /\ DOMAIN byDepth = 0..k
    BY <1>8, SizeType DEF ChainInv, ChainIntact
  <2>2. Size - 1 \in 0..k /\ k \in 0..(Size - 1)
    BY <1>5, <2>1
  <2> QED
    BY <2>1, <2>2, SizeType
<1>10. top = saved[k]
  <2>1. Size - 1 = k /\ k \in 0..k
    BY <1>5, <1>9
  <2> QED
    BY <1>8, <2>1 DEF ChainInv, ChainIntact
<1>11. b \notin blocks
  <2>1. blocks = {byDepth[d] : d \in 0..k}
    BY <1>8 DEF ChainInv, ChainIntact
  <2>2. \A d \in 0..k : d \in 0..n /\ d # k + 1 /\ byDepth[d] = saved[d]
    BY <1>8
  <2>3. \A d \in 0..k : byDepth[d] # saved[k + 1]
    BY <1>3, <1>5, <2>2
  <2> QED
    BY <2>1, <2>3 DEF b
<1>12. Acceptable(b)
  BY <1>6, <1>8, <1>9, <1>10, <1>11 DEF Acceptable
<1>13. /\ AddToMemory(b) /\ toLoad' = Tail(toLoad) /\ mode' = mode
       /\ UNCHANGED <<dbBlock, dbPrev, dbLast, now, saved>>
  BY <1>4, <1>7, <1>12 DEF LoadBlock, disk
<1>14. byDepth' = [d \in 0..(k + 1) |-> saved[d]]
  <2>1. byDepth' = [d \in 0..k \cup {k + 1} |-> IF d \in 0..k THEN saved[d] ELSE b]
    BY <1>6, <1>8, <1>13 DEF AddToMemory, Inserted
  <2>2. 0..k \cup {k + 1} = 0..(k + 1) /\ k + 1 \notin 0..k
    BY <1>5
  <2>3. \A d \in 0..(k + 1) : d \in 0..k \/ d = k + 1
    BY <1>5
  <2> QED
    BY <2>1, <2>2, <2>3 DEF b
<1>15. LoadingAt(n, g, k + 1)'
  <2>1. consensus' = g[k + 1] /\ pushNext' = "block" /\ pushBlock' = b
    BY <1>6, <1>8, <1>13 DEF AddToMemory
  <2> QED
    BY <1>2, <1>4, <1>7, <1>13, <1>14, <2>1 DEF LoadingAt, OnDisk
<1>16. Situation(n, g)'
  BY <1>1, <1>5, <1>13, <1>15 DEF Situation, TheLog
<1>17. TheLog' = TheLog /\ InFlight' = InFlight /\ (mode = "running")' = (mode = "running")
  BY <1>1, <1>13 DEF TheLog, InFlight
<1> QED
  BY <1>16, <1>17, LogStutter DEF LogInv

\* When nothing is left to load, the chain in memory is the log.
LEMMA LogLoadDone ==
  ASSUME NEW n \in Nat, NEW g, Situation(n, g), LoadDone
  PROVE  LogInv' /\ Log!Next
<1>1. /\ mode = "loading" /\ mode' = "running" /\ pushNext = "idle" /\ toLoad = <<>>
      /\ TheLog = saved /\ Reloadable(saved, n, g, now)
  BY DEF LoadDone, Situation, TheLog
<1>2. PICK k \in 0..n : LoadingAt(n, g, k)
  BY <1>1 DEF Situation
<1>3. UNCHANGED <<byDepth, consensus, dbBlock, dbPrev, dbLast, pushBlock, pushNext, now, saved>>
  BY DEF LoadDone, memory, disk, push
<1>4. \A d \in 0..n : saved[d] \in Block
  BY <1>1, ReloadableDistinct
<1>5. k = n
  BY <1>1, <1>2, <1>4, AfterFacts DEF LoadingAt
<1>6. byDepth = saved
  BY <1>1, <1>2, <1>5 DEF LoadingAt, Reloadable
<1>7. RunningAt(n, g)'
  BY <1>1, <1>2, <1>3, <1>5, <1>6 DEF LoadingAt, RunningAt, OnDisk
<1>8. Situation(n, g)'
  BY <1>1, <1>3, <1>6, <1>7 DEF Situation, TheLog
<1>9. Log!Recover
  BY <1>1, <1>3, <1>6 DEF Log!Recover
<1> QED
  BY <1>8, <1>9 DEF LogInv, Log!Next

\* Time passes.
LEMMA LogSetClock ==
  ASSUME Durable, ChainInv, NEW n \in Nat, NEW g, Situation(n, g), SetClock \/ UNCHANGED vars
  PROVE  LogInv' /\ UNCHANGED Log!vars
<1>1. /\ UNCHANGED <<byDepth, consensus, dbBlock, dbPrev, dbLast, pushBlock, pushNext, saved>>
      /\ UNCHANGED <<mode, cursor, toLoad>>
  BY DEF SetClock, vars, memory, disk, push, startup
<1>2. now \in Nat /\ now' \in Nat /\ now <= now'
  <2>1. now \in Nat
    BY BlockchainAssumption DEF ChainInv, TypeOK
  <2>2. CASE SetClock
    BY <2>1, <2>2, BlockchainAssumption DEF SetClock, Durable
  <2>3. CASE UNCHANGED vars
    BY <2>1, <2>3 DEF vars
  <2> QED
    BY <2>2, <2>3
<1>3. TheLog' = TheLog /\ InFlight' = InFlight /\ (mode = "running")' = (mode = "running")
  BY <1>1 DEF TheLog, InFlight
<1>4. Reloadable(TheLog, n, g, now)
  BY DEF Situation
<1>5. Reloadable(TheLog', n, g, now')
  BY <1>2, <1>3, <1>4, ReloadableLater
<1>6. mode = "running" => RunningAt(n, g)'
  BY <1>1 DEF Situation, RunningAt, OnDisk
<1>7. mode = "down" => DownAt(n)'
  BY <1>1 DEF Situation, DownAt, OnDisk
<1>8. mode = "walking" => \E k \in 0..n : WalkingAt(n, k)'
  BY <1>1 DEF Situation, WalkingAt, OnDisk
<1>9. mode = "loading" => \E k \in 0..n : LoadingAt(n, g, k)'
  BY <1>1 DEF Situation, LoadingAt, OnDisk
<1>10. Situation(n, g)'
  BY <1>1, <1>5, <1>6, <1>7, <1>8, <1>9 DEF Situation
<1> QED
  BY <1>3, <1>10, LogStutter DEF LogInv

\* Every step of the node is a step of the log or none, and the log can still be found again.
LEMMA LogStep ==
  ASSUME Durable, ChainInv, LogInv, [Next]_vars
  PROVE  LogInv' /\ [Log!Next]_(Log!vars)
<1>1. PICK n \in Nat : \E g : Situation(n, g)
  BY DEF LogInv
<1>2. PICK g : Situation(n, g)
  BY <1>1
<1>3. CASE \E b \in Block : TryAddBlock(b)
  BY <1>2, <1>3, LogTryAddBlock
<1>4. CASE PutBlock \/ PutPrev \/ PutLast
  BY <1>2, <1>4, LogPuts
<1>5. CASE Crash
  BY <1>2, <1>5, LogCrash
<1>6. CASE Restart
  BY <1>2, <1>6, LogRestart
<1>7. CASE WalkBack \/ WalkDone
  BY <1>2, <1>7, LogWalk
<1>8. CASE LoadBlock
  BY <1>2, <1>8, LogLoadBlock
<1>9. CASE LoadDone
  BY <1>2, <1>9, LogLoadDone
<1>10. CASE SetClock \/ UNCHANGED vars
  BY <1>2, <1>10, LogSetClock
<1> QED
  BY <1>3, <1>4, <1>5, <1>6, <1>7, <1>8, <1>9, <1>10 DEF Next

\* The initial states are initial states of the log.
LEMMA LogInit == Init => LogInv /\ Log!Init
<1> SUFFICES ASSUME Init PROVE LogInv /\ Log!Init
  OBVIOUS
<1>1. /\ mode = "running" /\ pushNext = "idle" /\ byDepth = GenesisChain
      /\ consensus = InitialConsensus /\ dbBlock = {} /\ dbPrev = {} /\ dbLast = NoHash
  BY DEF Init
<1>2. Log!Init
  BY <1>1 DEF Log!Init, GenesisChain
<1>3. PICK g : IsHistory(g, byDepth, 0) /\ g[0] = InitialConsensus
  BY FreshHistory
<1>4. 0..0 = {0} /\ 1..0 = {}
  OBVIOUS
<1>5. byDepth = [d \in 0..0 |-> byDepth[d]] /\ byDepth[0] = Genesis
  BY <1>1, <1>4 DEF GenesisChain
<1>6. Reloadable(byDepth, 0, g, now)
  BY <1>3, <1>4, <1>5 DEF Reloadable
<1>7. RunningAt(0, g)
  BY <1>1, <1>3, <1>4 DEF RunningAt, OnDisk, Upto, TipOf
<1>8. Situation(0, g)
  BY <1>1, <1>6, <1>7 DEF Situation, TheLog
<1> QED
  BY <1>2, <1>8 DEF LogInv

\* PersistentBlockchain implements the append-only log of ChainLog, for any blocks, any number of
\* crashes before the first put of a push or outside of one, and a clock that is not set back: an
\* acknowledged block is never lost, moved or replaced, and a restart brings back exactly what the
\* disk held, since every check of the reload gives the answer it gave the first time.
THEOREM ChainImplementsLog ==
  ASSUME Durable
  PROVE  Spec => ImplementsLog
<1>1. ChainInv /\ LogInv /\ [Next]_vars => LogInv' /\ [Log!Next]_(Log!vars)
  BY LogStep
<1> QED
  BY <1>1, LogInit, ChainInvariant, PTL DEF Spec, ImplementsLog, Log!Spec
=============================================================================
