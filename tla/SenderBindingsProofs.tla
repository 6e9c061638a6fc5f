------------------------ MODULE SenderBindingsProofs ------------------------
(***************************************************************************)
(* Theorems about SenderSession behind any host of SenderBindings, for any *)
(* layouts, number of blocks and symbols, and size of the ESI space.       *)
(***************************************************************************)
EXTENDS SenderBindings, FiniteSetTheorems, SequenceTheorems, TLAPS

----------------------------------------------------------------------------
(* The source plan lists every source symbol, each in one place. *)

\* The number of symbols of S that the plan puts before id.
Rank(S, id) == Cardinality({other \in S : Before(other, id)})

\* Ranks are different, and below the number of symbols.
LEMMA RankType ==
  ASSUME NEW S \in SUBSET (Nat \X Nat), IsFiniteSet(S)
  PROVE  /\ \A id \in S : Rank(S, id) \in 0..(Cardinality(S) - 1)
         /\ \A x, y \in S : x # y => Rank(S, x) # Rank(S, y)
<1> DEFINE Below(id) == {other \in S : Before(other, id)}
<1>1. \A id \in S : /\ IsFiniteSet(Below(id)) /\ Below(id) \subseteq S
                    /\ Cardinality(Below(id)) \in Nat
  BY FS_Subset, FS_CardinalityType
<1>2. Cardinality(S) \in Nat
  BY FS_CardinalityType
<1>3. ASSUME NEW id \in S PROVE Cardinality(Below(id)) < Cardinality(S)
  <2>1. id \notin Below(id)
    BY DEF Before
  <2>2. Cardinality(Below(id)) <= Cardinality(S) /\ (Cardinality(S) = Cardinality(Below(id)) => S = Below(id))
    BY <1>1, FS_Subset
  <2>. HIDE DEF Below
  <2>. QED  BY <1>1, <1>2, <2>1, <2>2
<1>4. ASSUME NEW x \in S, NEW y \in S, Before(x, y)
      PROVE  Cardinality(Below(x)) # Cardinality(Below(y))
  <2>1. Below(x) \subseteq Below(y)
    BY <1>4 DEF Before
  <2>2. x \in Below(y) /\ x \notin Below(x)
    BY <1>4 DEF Before
  <2>. HIDE DEF Below
  <2>3. Below(x) \in SUBSET Below(y) /\ Below(y) # Below(x)
    BY <2>1, <2>2
  <2>. QED  BY <1>1, <2>3, FS_Subset
<1>5. \A x, y \in S : x # y => Before(x, y) \/ Before(y, x)
  BY DEF Before
<1>6. \A id \in S : Rank(S, id) = Cardinality(Below(id))
  BY DEF Rank
<1>. HIDE DEF Below
<1>7. \A id \in S : Rank(S, id) \in 0..(Cardinality(S) - 1)
  BY <1>1, <1>2, <1>3, <1>6
<1>. QED  BY <1>4, <1>5, <1>6, <1>7

\* Every place of the plan is taken.
LEMMA RankOnto ==
  ASSUME NEW S \in SUBSET (Nat \X Nat), IsFiniteSet(S), NEW i \in 0..(Cardinality(S) - 1)
  PROVE  \E id \in S : Rank(S, id) = i
<1>1. SUFFICES ASSUME \A id \in S : Rank(S, id) # i PROVE FALSE
  OBVIOUS
<1> DEFINE N == 0..(Cardinality(S) - 1)
           T == N \ {i}
           f == [id \in S |-> Rank(S, id)]
<1>2. Cardinality(S) \in Nat
  BY FS_CardinalityType
<1>3. IsFiniteSet(N) /\ Cardinality(N) = Cardinality(S)
  BY <1>2, FS_Interval
<1>4. IsFiniteSet(T) /\ Cardinality(T) = Cardinality(S) - 1
  <2>. HIDE DEF N
  <2>1. i \in N
    BY DEF N
  <2>. QED  BY <1>3, <2>1, FS_RemoveElement
<1>5. f \in [S -> T]
  BY <1>1, RankType
<1>. HIDE DEF T, N
<1>6. \E x, y \in S : x # y /\ f[x] = f[y]
  <2>. HIDE DEF f
  <2>. QED  BY <1>2, <1>4, <1>5, FS_PigeonHole
<1>. QED  BY <1>6, RankType

\* Ranks follow the order of the plan.
LEMMA RankOrder ==
  ASSUME NEW S \in SUBSET (Nat \X Nat), IsFiniteSet(S), NEW x \in S, NEW y \in S,
         Before(x, y)
  PROVE  Rank(S, x) < Rank(S, y)
<1> DEFINE Below(id) == {other \in S : Before(other, id)}
<1>1. /\ IsFiniteSet(Below(x)) /\ IsFiniteSet(Below(y))
      /\ Cardinality(Below(x)) \in Nat /\ Cardinality(Below(y)) \in Nat
  BY FS_Subset, FS_CardinalityType
<1>2. Below(x) \in SUBSET Below(y) /\ x \in Below(y) /\ x \notin Below(x)
  BY DEF Before
<1>3. Rank(S, x) = Cardinality(Below(x)) /\ Rank(S, y) = Cardinality(Below(y))
  BY DEF Rank
<1>. HIDE DEF Below
<1>. QED  BY <1>1, <1>2, <1>3, FS_Subset

\* A finite set of numbers has a largest and a smallest one: the last and the
\* first of a plan that has one symbol of every esi in the set.
LEMMA MaxMin ==
  ASSUME NEW N \in SUBSET Nat, IsFiniteSet(N), N # {}
  PROVE  /\ Max(N) \in N /\ \A n \in N : n <= Max(N)
         /\ Min(N) \in N /\ \A n \in N : Min(N) <= n
<1> DEFINE S == {0} \X N
           low == 0
           high == Cardinality(S) - 1
<1>1. S \in SUBSET (Nat \X Nat) /\ S # {} /\ IsFiniteSet(S)
  <2>1. IsFiniteSet({0})
    BY FS_Singleton
  <2>2. IsFiniteSet({0} \X N)
    BY <2>1, FS_Product
  <2>3. PICK n \in N : TRUE
    OBVIOUS
  <2>4. <<0, n>> \in S
    BY <2>3
  <2>5. ASSUME NEW id \in S PROVE id \in Nat \X Nat
    <3>1. id = <<id[1], id[2]>> /\ id[1] \in {0} /\ id[2] \in N
      OBVIOUS
    <3>. HIDE DEF S
    <3>2. id[1] \in Nat /\ id[2] \in Nat
      BY <3>1
    <3>. QED  BY <3>1, <3>2
  <2>6. IsFiniteSet(S)
    BY <2>2
  <2>. HIDE DEF S
  <2>. QED  BY <2>4, <2>5, <2>6
<1>2. \A n \in N : <<0, n>> \in S
  OBVIOUS
<1>3. \A id \in S : id[2] \in N /\ id = <<0, id[2]>>
  OBVIOUS
<1>. HIDE DEF S
<1>4. Cardinality(S) \in Nat \ {0}
  BY <1>1, FS_EmptySet, FS_CardinalityType
<1>5. \E x \in N : \A n \in N : x >= n
  <2>1. high \in 0..(Cardinality(S) - 1)
    BY <1>4
  <2>. HIDE DEF high
  <2>2. PICK id \in S : Rank(S, id) = high
    BY <1>1, <2>1, RankOnto
  <2>3. ASSUME NEW n \in N, n > id[2] PROVE FALSE
    <3>1. Before(id, <<0, n>>)
      BY <1>3, <2>3 DEF Before
    <3>2. Rank(S, id) < Rank(S, <<0, n>>)
      BY <1>1, <1>2, <3>1, RankOrder
    <3>3. Rank(S, <<0, n>>) \in 0..(Cardinality(S) - 1)
      BY <1>1, <1>2, RankType
    <3>. QED  BY <1>4, <2>2, <3>2, <3>3 DEF high
  <2> DEFINE x == id[2]
  <2>4. x \in N /\ \A n \in N : ~(n > x)
    BY <1>3, <2>3
  <2>. HIDE DEF x
  <2>. QED  BY <2>4
<1>6. \E x \in N : \A n \in N : x =< n
  <2>1. low \in 0..(Cardinality(S) - 1)
    BY <1>4
  <2>. HIDE DEF low
  <2>2. PICK id \in S : Rank(S, id) = low
    BY <1>1, <2>1, RankOnto
  <2>3. ASSUME NEW n \in N, n < id[2] PROVE FALSE
    <3>1. Before(<<0, n>>, id)
      BY <1>3, <2>3 DEF Before
    <3>2. Rank(S, <<0, n>>) < Rank(S, id)
      BY <1>1, <1>2, <3>1, RankOrder
    <3>3. Rank(S, <<0, n>>) \in 0..(Cardinality(S) - 1)
      BY <1>1, <1>2, RankType
    <3>. QED  BY <1>4, <2>2, <3>2, <3>3 DEF low
  <2> DEFINE x == id[2]
  <2>4. x \in N /\ \A n \in N : ~(n < x)
    BY <1>3, <2>3
  <2>. HIDE DEF x
  <2>. QED  BY <2>4
<1>7. Max(N) \in N /\ \A n \in N : Max(N) >= n
  BY <1>5 DEF Max
<1>8. Min(N) \in N /\ \A n \in N : Min(N) =< n
  BY <1>6 DEF Min
<1>. QED  BY <1>7, <1>8

LEMMA SourceType ==
  ASSUME blocks \in Layouts
  PROVE  /\ SourceIds \in SUBSET (Nat \X Nat) /\ IsFiniteSet(SourceIds)
         /\ Cardinality(SourceIds) \in Nat
         /\ Cardinality(Blocks) \in Nat \ {0}
         /\ Blocks = 0..(Cardinality(Blocks) - 1)
         /\ \A sbn \in Blocks : blocks[sbn] \in 1..EsiLimit
         /\ \A id \in SourceIds : id[1] \in Blocks /\ id[2] < blocks[id[1]]
<1>1. /\ IsFiniteSet(Blocks) /\ Blocks # {}
      /\ Blocks = 0..(Cardinality(Blocks) - 1)
      /\ \A sbn \in Blocks : blocks[sbn] \in 1..EsiLimit
  BY SenderAssumption DEF IsLayout, Blocks
<1>2. Cardinality(Blocks) \in Nat \ {0}
  BY <1>1, FS_CardinalityType, FS_EmptySet
<1>3. Blocks \subseteq Nat
  BY <1>1, <1>2
<1>4. EsiLimit \in Nat
  BY SenderAssumption
<1>5. /\ SourceIds \in SUBSET (Nat \X Nat)
      /\ \A id \in SourceIds : id[1] \in Blocks /\ id[2] < blocks[id[1]]
  BY <1>1, <1>3, <1>4 DEF SourceIds
<1>6. IsFiniteSet(SourceIds)
  <2> DEFINE part == [sbn \in Blocks |-> {sbn} \X (0..(blocks[sbn] - 1))]
             parts == {{sbn} \X (0..(blocks[sbn] - 1)) : sbn \in Blocks}
  <2>1. IsFiniteSet(parts)
    <3>1. part \in Surjection(Blocks, parts)
      BY DEF Surjection
    <3>. HIDE DEF part, parts
    <3>. QED  BY <1>1, <3>1, FS_Surjection
  <2>2. \A p \in parts : IsFiniteSet(p)
    <3>1. ASSUME NEW sbn \in Blocks PROVE IsFiniteSet({sbn} \X (0..(blocks[sbn] - 1)))
      <4>1. IsFiniteSet(0..(blocks[sbn] - 1))
        BY <1>1, <1>4, FS_Interval
      <4>2. IsFiniteSet({sbn})
        BY FS_Singleton
      <4>. QED  BY <4>1, <4>2, FS_Product
    <3>. QED  BY <3>1
  <2>3. SourceIds = UNION parts
    BY DEF SourceIds
  <2>. HIDE DEF parts
  <2>. QED  BY <2>1, <2>2, <2>3, FS_UNION
<1>. QED  BY <1>1, <1>2, <1>5, <1>6, FS_CardinalityType

\* The plan is a list of the source symbols without repetition.
LEMMA Plan ==
  ASSUME blocks \in Layouts
  PROVE  /\ \A i \in 0..(Cardinality(SourceIds) - 1) :
              PlanEntry(i) \in SourceIds /\ Rank(SourceIds, PlanEntry(i)) = i
         /\ \A id \in SourceIds :
              \E i \in 0..(Cardinality(SourceIds) - 1) : PlanEntry(i) = id
<1>1. SourceIds \in SUBSET (Nat \X Nat) /\ IsFiniteSet(SourceIds)
  BY SourceType
<1>2. ASSUME NEW i \in 0..(Cardinality(SourceIds) - 1)
      PROVE  PlanEntry(i) \in SourceIds /\ Rank(SourceIds, PlanEntry(i)) = i
  <2>1. \E id \in SourceIds : Rank(SourceIds, id) = i
    BY <1>1, RankOnto
  <2>2. PlanEntry(i) = CHOOSE id \in SourceIds : Rank(SourceIds, id) = i
    BY DEF PlanEntry, Rank
  <2>. QED  BY <2>1, <2>2
<1>3. ASSUME NEW id \in SourceIds
      PROVE  \E i \in 0..(Cardinality(SourceIds) - 1) : PlanEntry(i) = id
  <2> DEFINE i == Rank(SourceIds, id)
  <2>1. i \in 0..(Cardinality(SourceIds) - 1)
    BY <1>1, RankType
  <2>2. PlanEntry(i) \in SourceIds /\ Rank(SourceIds, PlanEntry(i)) = i
    BY <1>2, <2>1
  <2>3. PlanEntry(i) = id
    BY <1>1, <2>2, RankType
  <2>. QED  BY <2>1, <2>3
<1>. QED  BY <1>2, <1>3

LEMMA Division ==
  ASSUME NEW n \in Nat \ {0}, NEW c \in Nat
  PROVE  c % n \in 0..(n - 1) /\ c \div n \in Nat /\ c = n * (c \div n) + (c % n)
OBVIOUS

\* Repair symbols are no source symbols, and each is new.
LEMMA Repair ==
  ASSUME blocks \in Layouts, NEW c \in Nat
  PROVE  /\ RepairId(c)[1] \in Blocks /\ RepairId(c)[2] \in Nat
         /\ RepairId(c)[2] >= blocks[RepairId(c)[1]]
         /\ RepairId(c) \notin SourceIds
         /\ \A d \in Nat : RepairId(d) = RepairId(c) => d = c
<1> DEFINE n == Cardinality(Blocks)
<1>1. /\ n \in Nat \ {0} /\ Blocks = 0..(n - 1)
      /\ \A sbn \in Blocks : blocks[sbn] \in 1..EsiLimit
      /\ \A id \in SourceIds : id[1] \in Blocks /\ id[2] < blocks[id[1]]
  BY SourceType
<1>2. \A d \in Nat : RepairId(d) = <<d % n, blocks[d % n] + (d \div n)>>
  BY DEF RepairId
<1>. HIDE DEF n
<1>3. \A d \in Nat : d % n \in Blocks /\ d \div n \in Nat /\ d = n * (d \div n) + (d % n)
  BY <1>1, Division
<1>4. EsiLimit \in Nat
  BY SenderAssumption
<1>5. \A d \in Nat : blocks[d % n] \in Nat
  <2>1. \A sbn \in Blocks : blocks[sbn] \in Nat
    BY <1>1, <1>4
  <2>. QED  BY <1>3, <2>1
<1>6. /\ RepairId(c)[1] \in Blocks /\ RepairId(c)[2] \in Nat
      /\ RepairId(c)[2] >= blocks[RepairId(c)[1]]
  BY <1>2, <1>3, <1>5
<1>7. RepairId(c) \notin SourceIds
  <2>1. blocks[RepairId(c)[1]] \in Nat
    BY <1>1, <1>4, <1>6
  <2>. QED  BY <1>1, <1>6, <2>1
<1>8. ASSUME NEW d \in Nat, RepairId(d) = RepairId(c) PROVE d = c
  <2>1. d % n = c % n /\ blocks[d % n] + (d \div n) = blocks[c % n] + (c \div n)
    BY <1>2, <1>8
  <2>2. d \div n = c \div n
    <3>1. blocks[c % n] \in Nat /\ d \div n \in Nat /\ c \div n \in Nat
      BY <1>3, <1>5
    <3>. QED  BY <2>1, <3>1
  <2>. QED  BY <1>3, <2>1, <2>2
<1>. QED  BY <1>6, <1>7, <1>8

----------------------------------------------------------------------------
(* The stream. *)

FrameSet == [kind : {"descriptor", "data"}, sbn : Blocks, esi : 0..(EsiLimit - 1)]

CursorsInv ==
  /\ blocks \in Layouts
  /\ source_cursor \in 0..Cardinality(SourceIds) /\ repair_cursor \in Nat
  /\ repair_cursor > 0 => source_cursor = Cardinality(SourceIds)
  /\ emitted \in Seq(FrameSet)

\* What was sent is what the cursors have passed, and all of it.
OriginInv ==
  /\ \A i \in Data :
       \/ \E c \in 0..(source_cursor - 1) : emitted[i] = DataFrame(PlanEntry(c))
       \/ \E c \in 0..(repair_cursor - 1) : emitted[i] = DataFrame(RepairId(c))
  /\ \A c \in 0..(source_cursor - 1) :
       \E i \in Data : emitted[i] = DataFrame(PlanEntry(c))

StreamInv == CursorsInv /\ OriginInv /\ FreshSymbols /\ SourceBeforeRepair

LEMMA InitStream ==
  ASSUME blocks \in Layouts, source_cursor = 0, repair_cursor = 0, emitted = <<>>
  PROVE  StreamInv
<1>1. Data = {}
  BY DEF Data
<1>2. Cardinality(SourceIds) \in Nat
  BY SourceType
<1>. QED  BY <1>1, <1>2 DEF StreamInv, CursorsInv, OriginInv, FreshSymbols, SourceBeforeRepair

\* A frame is added to the stream.
LEMMA Added ==
  ASSUME CursorsInv, NEW frame \in FrameSet, emitted' = Append(emitted, frame),
         blocks' = blocks
  PROVE  /\ emitted' \in Seq(FrameSet) /\ Len(emitted) \in Nat
         /\ Data \subseteq 1..Len(emitted)
         /\ Data' = IF frame.kind = "data" THEN Data \cup {Len(emitted) + 1} ELSE Data
         /\ \A i \in Data : emitted'[i] = emitted[i]
         /\ emitted'[Len(emitted) + 1] = frame
         /\ SourceIds' = SourceIds /\ Blocks' = Blocks
<1>1. emitted \in Seq(FrameSet) /\ Len(emitted) \in Nat /\ DOMAIN emitted = 1..Len(emitted)
  BY DEF CursorsInv
<1>. HIDE DEF FrameSet
<1>2. /\ emitted' \in Seq(FrameSet) /\ DOMAIN emitted' = 1..(Len(emitted) + 1)
      /\ \A i \in 1..Len(emitted) : emitted'[i] = emitted[i]
      /\ emitted'[Len(emitted) + 1] = frame
  BY <1>1
<1>3. Data = {i \in 1..Len(emitted) : emitted[i].kind = "data"}
  BY <1>1 DEF Data
<1>4. Data' = {i \in 1..(Len(emitted) + 1) : emitted'[i].kind = "data"}
  BY <1>2 DEF Data
<1>5. Data' = IF frame.kind = "data" THEN Data \cup {Len(emitted) + 1} ELSE Data
  <2>1. 1..(Len(emitted) + 1) = 1..Len(emitted) \cup {Len(emitted) + 1}
    BY <1>1
  <2>. QED  BY <1>2, <1>3, <1>4, <2>1
<1>6. SourceIds' = SourceIds /\ Blocks' = Blocks
  BY DEF SourceIds, Blocks
<1>. QED  BY <1>1, <1>2, <1>3, <1>5, <1>6

LEMMA SamePlan ==
  ASSUME blocks' = blocks
  PROVE  /\ SourceIds' = SourceIds /\ Blocks' = Blocks /\ FrameSet' = FrameSet
         /\ \A c : PlanEntry(c)' = PlanEntry(c) /\ RepairId(c)' = RepairId(c)
<1>1. SourceIds' = SourceIds /\ Blocks' = Blocks
  BY DEF SourceIds, Blocks
<1>2. FrameSet' = FrameSet
  BY <1>1 DEF FrameSet
<1>3. \A c : PlanEntry(c)' = PlanEntry(c)
  BY <1>1 DEF PlanEntry
<1>4. \A c : RepairId(c)' = RepairId(c)
  BY <1>1 DEF RepairId
<1>. QED  BY <1>1, <1>2, <1>3, <1>4

\* A data frame tells its symbol.
LEMMA FrameOfSymbol ==
  ASSUME NEW x \in Nat \X Nat, NEW y \in Nat \X Nat, DataFrame(x) = DataFrame(y)
  PROVE  x = y
<1>1. DataFrame(x).sbn = DataFrame(y).sbn /\ DataFrame(x).esi = DataFrame(y).esi
  OBVIOUS
<1>. QED  BY <1>1 DEF DataFrame

\* The symbols of the plan and of the repair phase.
LEMMA SymbolType ==
  ASSUME blocks \in Layouts
  PROVE  /\ \A c \in 0..(Cardinality(SourceIds) - 1) :
              /\ PlanEntry(c) \in SourceIds /\ PlanEntry(c) \in Nat \X Nat
              /\ DataFrame(PlanEntry(c)) \in FrameSet
         /\ \A c \in Nat :
              /\ RepairId(c) \in Nat \X Nat
              /\ InEsiSpace(RepairId(c)) => DataFrame(RepairId(c)) \in FrameSet
         /\ DescriptorFrame \in FrameSet
<1>1. /\ SourceIds \in SUBSET (Nat \X Nat) /\ EsiLimit \in Nat \ {0}
      /\ Cardinality(Blocks) \in Nat \ {0} /\ Blocks = 0..(Cardinality(Blocks) - 1)
      /\ \A sbn \in Blocks : blocks[sbn] \in 1..EsiLimit
      /\ \A id \in SourceIds : id[1] \in Blocks /\ id[2] < blocks[id[1]]
  BY SourceType, SenderAssumption
<1>2. ASSUME NEW id \in SourceIds
      PROVE  id \in Nat \X Nat /\ DataFrame(id) \in FrameSet
  <2>1. id[1] \in Blocks /\ id[2] \in 0..(EsiLimit - 1)
    BY <1>1
  <2>. QED  BY <1>1, <2>1 DEF DataFrame, FrameSet
<1>3. ASSUME NEW c \in Nat
      PROVE  /\ RepairId(c) \in Nat \X Nat
             /\ InEsiSpace(RepairId(c)) => DataFrame(RepairId(c)) \in FrameSet
  <2>1. RepairId(c)[1] \in Blocks /\ RepairId(c)[2] \in Nat /\ RepairId(c)[1] \in Nat
    BY <1>1, Repair
  <2>2. RepairId(c) = <<RepairId(c)[1], RepairId(c)[2]>>
    BY DEF RepairId
  <2>3. InEsiSpace(RepairId(c)) => RepairId(c)[2] \in 0..(EsiLimit - 1)
    BY <1>1, <2>1 DEF InEsiSpace
  <2>. QED  BY <2>1, <2>2, <2>3 DEF DataFrame, FrameSet
<1>4. DescriptorFrame \in FrameSet
  <2>1. 0 \in Blocks /\ 0 \in 0..(EsiLimit - 1)
    BY <1>1
  <2>. QED  BY <2>1 DEF DescriptorFrame, FrameSet
<1>. QED  BY <1>2, <1>3, <1>4, Plan

\* A frame that is no repair symbol changes nothing in the order.
LEMMA SameOrder ==
  ASSUME SourceBeforeRepair, UNCHANGED blocks, SourceIds' = SourceIds, Data \subseteq Data',
         \A i \in Data : emitted'[i] = emitted[i],
         \A i \in Data' \ Data : IsSource(i)'
  PROVE  SourceBeforeRepair'
<1> SUFFICES ASSUME NEW i \in Data', ~IsSource(i)', NEW id \in SourceIds
             PROVE  \E j \in Data' : j < i /\ emitted'[j] = DataFrame(id)
  BY DEF SourceBeforeRepair, DataFrame
<1>1. i \in Data /\ ~IsSource(i)
  BY DEF IsSource
<1>. QED  BY <1>1 DEF SourceBeforeRepair

LEMMA StepDescriptor == StreamInv /\ NextDescriptor => StreamInv'
<1> SUFFICES ASSUME StreamInv, NextDescriptor PROVE StreamInv'
  OBVIOUS
<1>1. /\ emitted' = Append(emitted, DescriptorFrame)
      /\ UNCHANGED <<blocks, source_cursor, repair_cursor>>
  BY DEF NextDescriptor, Return
<1>2. blocks \in Layouts
  BY DEF StreamInv, CursorsInv
<1>3. /\ emitted' \in Seq(FrameSet) /\ Data' = Data
      /\ \A i \in Data : emitted'[i] = emitted[i]
  <2>1. DescriptorFrame \in FrameSet /\ DescriptorFrame.kind # "data"
    BY <1>2, SymbolType DEF DescriptorFrame
  <2>. QED  BY <1>1, <2>1, Added DEF StreamInv
<1>4. /\ SourceIds' = SourceIds /\ FrameSet' = FrameSet
      /\ \A c : PlanEntry(c)' = PlanEntry(c) /\ RepairId(c)' = RepairId(c)
  BY <1>1, SamePlan
<1>5. CursorsInv'
  BY <1>1, <1>3, <1>4 DEF StreamInv, CursorsInv
<1>6. OriginInv'
  BY <1>1, <1>3, <1>4 DEF StreamInv, OriginInv, DataFrame
<1>7. FreshSymbols'
  BY <1>3 DEF StreamInv, FreshSymbols
<1>8. SourceBeforeRepair'
  BY <1>1, <1>3, <1>4, SameOrder DEF StreamInv
<1>. QED  BY <1>5, <1>6, <1>7, <1>8 DEF StreamInv

LEMMA StepSource == StreamInv /\ NextSource => StreamInv'
<1> SUFFICES ASSUME StreamInv, NextSource PROVE StreamInv'
  OBVIOUS
<1> DEFINE id == PlanEntry(source_cursor)
           new == Len(emitted) + 1
<1>1. /\ emitted' = Append(emitted, DataFrame(id))
      /\ UNCHANGED <<blocks, repair_cursor>>
      /\ source_cursor' = source_cursor + 1
      /\ source_cursor < Cardinality(SourceIds)
  <2>1. Cardinality(SourceIds) \in Nat /\ source_cursor \in Nat
    BY SourceType DEF StreamInv, CursorsInv
  <2>. QED  BY <2>1 DEF NextSource, Return, SourcePassOver
<1>2. /\ blocks \in Layouts /\ Cardinality(SourceIds) \in Nat
      /\ source_cursor \in 0..(Cardinality(SourceIds) - 1)
      /\ repair_cursor = 0
  <2>1. /\ blocks \in Layouts /\ source_cursor \in Nat /\ repair_cursor \in Nat
        /\ repair_cursor > 0 => source_cursor = Cardinality(SourceIds)
    BY DEF StreamInv, CursorsInv
  <2>2. Cardinality(SourceIds) \in Nat
    BY <2>1, SourceType
  <2>. QED  BY <1>1, <2>1, <2>2
<1>3. id \in SourceIds /\ id \in Nat \X Nat /\ DataFrame(id) \in FrameSet
  BY <1>2, SymbolType
<1>4. /\ SourceIds' = SourceIds /\ FrameSet' = FrameSet
      /\ \A c : PlanEntry(c)' = PlanEntry(c) /\ RepairId(c)' = RepairId(c)
  BY <1>1, SamePlan
<1>5. \A c \in 0..(source_cursor - 1) :
        PlanEntry(c) \in Nat \X Nat /\ PlanEntry(c) # id
  BY <1>2, Plan, SymbolType
<1>. HIDE DEF id
<1>6. /\ emitted' \in Seq(FrameSet) /\ Len(emitted) \in Nat
      /\ Data \subseteq 1..Len(emitted) /\ Data' = Data \cup {new}
      /\ \A i \in Data : emitted'[i] = emitted[i]
      /\ emitted'[new] = DataFrame(id)
  <2>1. DataFrame(id).kind = "data"
    BY DEF DataFrame
  <2>. QED  BY <1>1, <1>3, <2>1, Added DEF StreamInv
<1>7. CursorsInv'
  BY <1>1, <1>2, <1>4, <1>6 DEF StreamInv, CursorsInv
<1>8. \A i \in Data : \E c \in 0..(source_cursor - 1) : emitted[i] = DataFrame(PlanEntry(c))
  BY <1>2 DEF StreamInv, OriginInv
<1>9. 0..(source_cursor' - 1) = 0..(source_cursor - 1) \cup {source_cursor}
  BY <1>1, <1>2
<1>10. OriginInv'
  <2>1. \A i \in Data' : \E c \in 0..(source_cursor' - 1) : emitted'[i] = DataFrame(PlanEntry(c))
    BY <1>6, <1>8, <1>9 DEF id
  <2>2. \A c \in 0..(source_cursor' - 1) : \E i \in Data' : emitted'[i] = DataFrame(PlanEntry(c))
    <3>1. \A c \in 0..(source_cursor - 1) : \E i \in Data : emitted[i] = DataFrame(PlanEntry(c))
      BY DEF StreamInv, OriginInv
    <3>. QED  BY <1>6, <1>9, <3>1 DEF id
  <2>. QED  BY <1>4, <2>1, <2>2 DEF OriginInv, DataFrame
<1>11. FreshSymbols'
  <2>1. \A i \in Data : emitted[i] # DataFrame(id)
    BY <1>3, <1>5, <1>8, FrameOfSymbol
  <2>2. \A i, j \in Data : i # j => emitted[i] # emitted[j]
    BY DEF StreamInv, FreshSymbols
  <2>. QED  BY <1>6, <2>1, <2>2 DEF FreshSymbols
<1>12. SourceBeforeRepair'
  <2>1. id[1] \in Blocks /\ id[2] < blocks[id[1]]
    BY <1>2, <1>3, SourceType
  <2>2. ASSUME NEW i \in Data' \ Data PROVE IsSource(i)'
    <3>1. emitted'[i] = DataFrame(id)
      BY <1>6
    <3>2. emitted'[i].sbn = id[1] /\ emitted'[i].esi = id[2]
      BY <3>1 DEF DataFrame
    <3>3. blocks' = blocks
      BY <1>1
    <3>. QED  BY <2>1, <3>2, <3>3 DEF IsSource
  <2>3. Data \subseteq Data'
    BY <1>6
  <2>. QED  BY <1>1, <1>4, <1>6, <2>2, <2>3, SameOrder DEF StreamInv
<1>. QED  BY <1>7, <1>10, <1>11, <1>12 DEF StreamInv

LEMMA StepRepair == StreamInv /\ NextRepair => StreamInv'
<1> SUFFICES ASSUME StreamInv, NextRepair PROVE StreamInv'
  OBVIOUS
<1> DEFINE id == RepairId(repair_cursor)
           new == Len(emitted) + 1
<1>1. /\ emitted' = Append(emitted, DataFrame(id))
      /\ UNCHANGED <<blocks, source_cursor>>
      /\ repair_cursor' = repair_cursor + 1
      /\ InEsiSpace(id)
      /\ source_cursor >= Cardinality(SourceIds)
  BY DEF NextRepair, Return, SourcePassOver
<1>2. /\ blocks \in Layouts /\ Cardinality(SourceIds) \in Nat
      /\ source_cursor = Cardinality(SourceIds)
      /\ repair_cursor \in Nat
  <2>1. /\ blocks \in Layouts /\ repair_cursor \in Nat
        /\ source_cursor \in 0..Cardinality(SourceIds)
    BY DEF StreamInv, CursorsInv
  <2>2. Cardinality(SourceIds) \in Nat
    BY <2>1, SourceType
  <2>. QED  BY <1>1, <2>1, <2>2
<1>3. id \notin SourceIds /\ id \in Nat \X Nat /\ DataFrame(id) \in FrameSet
  BY <1>1, <1>2, SymbolType, Repair
<1>4. /\ SourceIds' = SourceIds /\ FrameSet' = FrameSet
      /\ \A c : PlanEntry(c)' = PlanEntry(c) /\ RepairId(c)' = RepairId(c)
  BY <1>1, SamePlan
<1>5. /\ \A c \in 0..(source_cursor - 1) : PlanEntry(c) \in Nat \X Nat /\ PlanEntry(c) # id
      /\ \A c \in 0..(repair_cursor - 1) : RepairId(c) \in Nat \X Nat /\ RepairId(c) # id
  <2>1. \A c \in 0..(source_cursor - 1) : PlanEntry(c) \in Nat \X Nat /\ PlanEntry(c) \in SourceIds
    BY <1>2, SymbolType
  <2>2. \A c \in 0..(repair_cursor - 1) : c \in Nat /\ c # repair_cursor
    BY <1>2
  <2>3. \A c \in 0..(repair_cursor - 1) : RepairId(c) \in Nat \X Nat /\ RepairId(c) # id
    BY <1>2, <2>2, SymbolType, Repair
  <2>. QED  BY <1>3, <2>1, <2>3
<1>. HIDE DEF id
<1>6. /\ emitted' \in Seq(FrameSet) /\ Len(emitted) \in Nat
      /\ Data \subseteq 1..Len(emitted) /\ Data' = Data \cup {new}
      /\ \A i \in Data : emitted'[i] = emitted[i]
      /\ emitted'[new] = DataFrame(id)
  <2>1. DataFrame(id).kind = "data"
    BY DEF DataFrame
  <2>. QED  BY <1>1, <1>3, <2>1, Added DEF StreamInv
<1>7. CursorsInv'
  BY <1>1, <1>2, <1>4, <1>6 DEF StreamInv, CursorsInv
<1>8. /\ \A i \in Data :
           \/ \E c \in 0..(source_cursor - 1) : emitted[i] = DataFrame(PlanEntry(c))
           \/ \E c \in 0..(repair_cursor - 1) : emitted[i] = DataFrame(RepairId(c))
      /\ \A c \in 0..(source_cursor - 1) :
           \E i \in Data : emitted[i] = DataFrame(PlanEntry(c))
  BY DEF StreamInv, OriginInv
<1>9. 0..(repair_cursor' - 1) = 0..(repair_cursor - 1) \cup {repair_cursor}
  BY <1>1, <1>2
<1>10. OriginInv'
  <2>1. \A i \in Data' :
          \/ \E c \in 0..(source_cursor - 1) : emitted'[i] = DataFrame(PlanEntry(c))
          \/ \E c \in 0..(repair_cursor' - 1) : emitted'[i] = DataFrame(RepairId(c))
    BY <1>6, <1>8, <1>9 DEF id
  <2>2. \A c \in 0..(source_cursor - 1) : \E i \in Data' : emitted'[i] = DataFrame(PlanEntry(c))
    BY <1>6, <1>8
  <2>. QED  BY <1>1, <1>4, <2>1, <2>2 DEF OriginInv, DataFrame
<1>11. FreshSymbols'
  <2>1. \A i \in Data : emitted[i] # DataFrame(id)
    BY <1>3, <1>5, <1>8, FrameOfSymbol
  <2>2. \A i, j \in Data : i # j => emitted[i] # emitted[j]
    BY DEF StreamInv, FreshSymbols
  <2>. QED  BY <1>6, <2>1, <2>2 DEF FreshSymbols
<1>12. SourceBeforeRepair'
  <2> SUFFICES ASSUME NEW i \in Data', ~IsSource(i)', NEW symbol \in SourceIds
               PROVE  \E j \in Data' : j < i /\ emitted'[j] = DataFrame(symbol)
    BY <1>4 DEF SourceBeforeRepair, DataFrame
  <2>1. CASE i = new
    <3>1. PICK c \in 0..(source_cursor - 1) : PlanEntry(c) = symbol
      BY <1>2, Plan
    <3>2. PICK j \in Data : emitted[j] = DataFrame(symbol)
      BY <1>8, <3>1
    <3>. QED  BY <1>6, <2>1, <3>2
  <2>2. CASE i # new
    <3>1. i \in Data /\ ~IsSource(i)
      BY <1>1, <1>6, <2>2 DEF IsSource
    <3>2. PICK j \in Data : j < i /\ emitted[j] = DataFrame(symbol)
      BY <3>1 DEF StreamInv, SourceBeforeRepair
    <3>. QED  BY <1>6, <3>2
  <2>. QED  BY <2>1, <2>2
<1>. QED  BY <1>7, <1>10, <1>11, <1>12 DEF StreamInv

----------------------------------------------------------------------------
(* Behind a host. *)

IInv ==
  /\ StreamInv
  /\ host \in Hosts
  /\ frame_index \in 0..MaxFrames
  /\ descriptor_interval \in Nat \ {0}
  /\ exhausted \in BOOLEAN

LEMMA InvType == IInv => TypeOK
<1> SUFFICES ASSUME IInv PROVE TypeOK
  OBVIOUS
<1>1. Cardinality(SourceIds) \in Nat
  BY SourceType DEF IInv, StreamInv, CursorsInv
<1>2. source_cursor \in Nat
  BY <1>1 DEF IInv, StreamInv, CursorsInv
<1>. QED  BY <1>2 DEF IInv, StreamInv, CursorsInv, FrameSet, TypeOK

LEMMA InitInv == BInit => IInv
<1> SUFFICES ASSUME BInit PROVE IInv
  OBVIOUS
<1>1. StreamInv
  BY InitStream DEF BInit, Init
<1>2. 0 \in 0..MaxFrames
  BY SenderAssumption
<1>. QED  BY <1>1, <1>2, SenderAssumption DEF BInit, Init, IInv

\* A frame of the session.
LEMMA StepFrame ==
  ASSUME StreamInv, NextDescriptor \/ NextSource \/ NextRepair
  PROVE  StreamInv'
BY StepDescriptor, StepSource, StepRepair

\* The stream is left as it is.
LEMMA SameStream ==
  ASSUME StreamInv, UNCHANGED <<blocks, source_cursor, repair_cursor, emitted>>
  PROVE  StreamInv'
<1>1. /\ SourceIds' = SourceIds /\ FrameSet' = FrameSet /\ Data' = Data
      /\ \A c : PlanEntry(c)' = PlanEntry(c) /\ RepairId(c)' = RepairId(c)
  BY SamePlan DEF Data
<1>2. CursorsInv'
  BY <1>1 DEF StreamInv, CursorsInv
<1>3. OriginInv'
  BY <1>1 DEF StreamInv, OriginInv, DataFrame
<1>4. FreshSymbols'
  BY <1>1 DEF StreamInv, FreshSymbols
<1>5. SourceBeforeRepair'
  BY <1>1, SameOrder DEF StreamInv
<1>. QED  BY <1>2, <1>3, <1>4, <1>5 DEF StreamInv

LEMMA StepInv == IInv /\ [BNext]_bindingVars => IInv'
<1> SUFFICES ASSUME IInv, [BNext]_bindingVars PROVE IInv'
  OBVIOUS
<1>1. /\ StreamInv /\ host \in Hosts /\ frame_index \in 0..MaxFrames
      /\ descriptor_interval \in Nat \ {0} /\ exhausted \in BOOLEAN
      /\ MaxFrames \in Nat
  BY SenderAssumption DEF IInv
<1>2. CASE UNCHANGED <<vars, host>>
  BY <1>1, <1>2, SameStream DEF vars, IInv
<1>3. CASE Draw
  <2>1. StreamInv'
    BY <1>1, <1>3, StepFrame DEF Draw
  <2>2. /\ frame_index < MaxFrames /\ frame_index' = frame_index + 1
        /\ exhausted' = FALSE /\ UNCHANGED <<descriptor_interval, host>>
    BY <1>3 DEF Draw, NextDescriptor, NextSource, NextRepair, Return
  <2>3. frame_index' \in 0..MaxFrames
    BY <1>1, <2>2
  <2>. QED  BY <1>1, <2>1, <2>2, <2>3 DEF IInv
<1>4. CASE RunsOut
  <2>1. /\ exhausted' = TRUE
        /\ UNCHANGED <<blocks, source_cursor, repair_cursor, frame_index,
                       descriptor_interval, emitted, host>>
    BY <1>4 DEF RunsOut, NextExhausted
  <2>. QED  BY <1>1, <2>1, SameStream DEF IInv
<1>5. ASSUME NEW index \in 0..SegmentCount, SelectSegment(index) PROVE IInv'
  <2>1. /\ index < SegmentCount /\ blocks' = host.file[index + 1]
        /\ source_cursor' = 0 /\ repair_cursor' = 0 /\ frame_index' = 0
        /\ descriptor_interval' = DefaultInterval /\ exhausted' = FALSE
        /\ emitted' = <<>> /\ host' = host
    BY <1>5 DEF SelectSegment
  <2>2. host.file \in Seq(Layouts)
    BY <1>1, BindingsAssumption DEF IsHost
  <2>3. blocks' \in Layouts
    BY <2>1, <2>2 DEF SegmentCount
  <2>4. StreamInv'
    <3>1. (blocks \in Layouts /\ source_cursor = 0 /\ repair_cursor = 0 /\ emitted = <<>>)'
      BY <2>1, <2>3
    <3>2. (blocks \in Layouts /\ source_cursor = 0 /\ repair_cursor = 0 /\ emitted = <<>>
             => StreamInv)'
      BY InitStream, PTL
    <3>. QED  BY <3>1, <3>2
  <2>5. 0 \in 0..MaxFrames
    BY <1>1
  <2>. QED  BY <1>1, <2>1, <2>4, <2>5, SenderAssumption DEF IInv
<1>6. ASSUME NEW interval \in Intervals, SetInterval(interval) PROVE IInv'
  <2>1. /\ descriptor_interval' = IF interval = 0 THEN 1 ELSE interval
        /\ UNCHANGED <<blocks, source_cursor, repair_cursor, frame_index, exhausted,
                       emitted, host>>
    BY <1>6 DEF SetInterval, SetDescriptorInterval
  <2>2. descriptor_interval' \in Nat \ {0}
    BY <2>1, SenderAssumption
  <2>. QED  BY <1>1, <2>1, <2>2, SameStream DEF IInv
<1>7. CASE \/ \E count \in Counts, room \in Rooms, slot \in BOOLEAN : Call(count, room, slot)
           \/ Finish
           \/ UNCHANGED bindingVars
  BY <1>2, <1>7 DEF Call, Finish, bindingVars, sessionVars
<1>8. ASSUME HandOver \/ EncodeFails \/ Overflows PROVE Draw
  BY <1>8 DEF HandOver, EncodeFails, Overflows
<1>. QED  BY <1>3, <1>4, <1>5, <1>6, <1>7, <1>8 DEF BNext

LEMMA Invariant == BSpec => []IInv
BY InitInv, StepInv, PTL DEF BSpec

\* No symbol leaves the 24-bit space, whatever the host asks for.
THEOREM SymbolsInRange == BSpec => []TypeOK
BY Invariant, InvType, PTL

\* No data frame is ever shown twice.
THEOREM NeverRepeats == BSpec => []FreshSymbols
<1>1. IInv => FreshSymbols
  BY DEF IInv, StreamInv
<1>. QED  BY <1>1, Invariant, PTL

\* Every source symbol has been shown before the first repair symbol is.
THEOREM SourceFirst == BSpec => []SourceBeforeRepair
<1>1. IInv => SourceBeforeRepair
  BY DEF IInv, StreamInv
<1>. QED  BY <1>1, Invariant, PTL

----------------------------------------------------------------------------
(* The rates. *)

\* A part of a sequence, element by element.
LEMMA Part ==
  ASSUME NEW S, NEW s \in Seq(S), NEW m \in 1..(Len(s) + 1)
  PROVE  /\ SubSeq(s, m, Len(s)) \in Seq(S)
         /\ Len(SubSeq(s, m, Len(s))) = Len(s) - m + 1
         /\ \A i \in 1..(Len(s) - m + 1) : SubSeq(s, m, Len(s))[i] = s[m + i - 1]
<1>1. Len(s) \in Nat /\ m \in Int /\ Len(s) \in Int /\ m <= Len(s) + 1
  BY LenProperties
<1>2. \A i \in m..Len(s) : s[i] \in S
  BY <1>1, ElementOfSeq
<1>. QED  BY <1>1, <1>2, SubSeqProperties

\* The samples when one is added, before the old ones are evicted.
Sampled(samples, t) == Append(samples, t)

\* kept is the end of all.
Ending(kept, all) ==
  \A j \in 1..Len(kept) : kept[j] = all[(Len(all) - Len(kept)) + j]

\* What push_sample_at evicts is stale, or is followed by STATS_MAX_SAMPLES
\* samples; what it keeps stays in order and ends with the new sample.
LEMMA PushKeeps ==
  ASSUME NEW samples \in Seq(Nat), NEW t \in Nat, NEW all, all = Sampled(samples, t),
         NEW kept, kept = Push(samples, t)
  PROVE  /\ kept \in Seq(Nat) /\ Len(kept) \in 1..Len(all) /\ Len(kept) <= MaxSamples
         /\ Ending(kept, all)
         /\ \A i \in 1..(Len(all) - Len(kept)) : Stale(all[i], t) \/ Len(all) - i >= MaxSamples
<1> DEFINE cut     == Len(all) - Len(kept)
           dropped == {d \in 0..Len(all) : d + 2 <= Len(all) /\ \A i \in 1..d : Stale(all[i], t)}
           D       == Max(dropped \cup {0})
           fresh   == SubSeq(all, D + 1, Len(all))
           first   == IF Len(fresh) > MaxSamples THEN Len(fresh) - MaxSamples + 1 ELSE 1
<1>1. all \in Seq(Nat) /\ Len(all) \in Nat \ {0} /\ MaxSamples \in Nat \ {0}
  BY BindingsAssumption DEF Sampled
<1>2. kept = SubSeq(fresh, first, Len(fresh))
  BY DEF Push, Sampled
<1>3. /\ D \in 0..(Len(all) - 1)
      /\ \A i \in 1..D : Stale(all[i], t)
  <2> DEFINE N == dropped \cup {0}
  <2>1. N \in SUBSET Nat /\ N # {} /\ N \subseteq 0..Len(all) /\ Len(all) \in Int
    BY <1>1
  <2>2. IsFiniteSet(N)
    <3>. HIDE DEF N
    <3>1. IsFiniteSet(0..Len(all))
      BY <2>1, FS_Interval
    <3>. QED  BY <2>1, <3>1, FS_Subset
  <2>3. \A d \in N : d \in 0..(Len(all) - 1) /\ \A i \in 1..d : Stale(all[i], t)
    BY <1>1
  <2>4. D = Max(N)
    OBVIOUS
  <2>. HIDE DEF N, D
  <2>5. D \in N
    BY <2>1, <2>2, <2>4, MaxMin
  <2>. QED  BY <2>3, <2>5
<1>. HIDE DEF D
<1>4. /\ fresh \in Seq(Nat) /\ Len(fresh) = Len(all) - D
      /\ \A i \in 1..(Len(all) - D) : fresh[i] = all[D + i]
  <2>1. D + 1 \in 1..(Len(all) + 1)
    BY <1>1, <1>3
  <2>. QED  BY <1>1, <1>3, <2>1, Part
<1>. HIDE DEF fresh
<1>5. /\ first \in 1..Len(fresh) /\ Len(fresh) - first + 1 <= MaxSamples
      /\ Len(fresh) \in Nat
      /\ (first = 1 \/ first = Len(fresh) - MaxSamples + 1)
  BY <1>1, <1>3, <1>4
<1>. HIDE DEF first
<1>6. first \in 1..(Len(fresh) + 1)
  BY <1>5
<1>7. /\ kept \in Seq(Nat) /\ Len(kept) = Len(fresh) - first + 1
      /\ \A i \in 1..(Len(fresh) - first + 1) : kept[i] = fresh[first + i - 1]
  BY <1>2, <1>4, <1>6, Part
<1>8. cut = D + first - 1 /\ Len(kept) \in 1..Len(all) /\ Len(kept) <= MaxSamples
  BY <1>1, <1>3, <1>4, <1>5, <1>7
<1>9. ASSUME NEW j \in 1..Len(kept) PROVE kept[j] = all[cut + j]
  <2>1. kept[j] = fresh[first + j - 1]
    BY <1>7
  <2>2. first + j - 1 \in 1..(Len(all) - D)
    BY <1>1, <1>3, <1>4, <1>5, <1>7
  <2>3. fresh[first + j - 1] = all[D + (first + j - 1)]
    BY <1>4, <2>2
  <2>4. D + (first + j - 1) = cut + j
    <3>1. D \in Int /\ first \in Int /\ j \in Int
      BY <1>3, <1>5, <1>8
    <3>. QED  BY <1>8, <3>1
  <2>. QED  BY <2>1, <2>3, <2>4
<1>10. ASSUME NEW i \in 1..cut, ~(i \in 1..D) PROVE Len(all) - i >= MaxSamples
  <2>1. i \in Int /\ D \in Int /\ first \in Int /\ cut \in Int /\ Len(fresh) \in Int
          /\ Len(all) \in Int /\ MaxSamples \in Int
    BY <1>1, <1>3, <1>5, <1>8
  <2>2. Len(fresh) = Len(all) - D /\ cut = D + first - 1
    BY <1>4, <1>8
  <2>3. i <= cut /\ 1 <= i /\ ~(i <= D)
    BY <1>3, <1>10, <2>1
  <2>. HIDE DEF cut
  <2>4. first = Len(fresh) - MaxSamples + 1
    BY <1>5, <2>1, <2>2, <2>3
  <2>. QED  BY <2>1, <2>2, <2>3, <2>4
<1>11. Ending(kept, all)
  BY <1>9 DEF Ending
<1>. QED  BY <1>3, <1>7, <1>8, <1>10, <1>11

\* The times of the frames of a session.
Clock(clock) ==
  /\ clock \in [1..MaxFrames -> Nat]
  /\ \A i, j \in 1..MaxFrames : i <= j => clock[i] <= clock[j]

\* The samples kept after n frames are the last ones, and of those that were
\* evicted each is stale or followed by STATS_MAX_SAMPLES others.
WindowOf(samples, clock, n) ==
  /\ samples \in Seq(Nat) /\ Len(samples) <= MaxSamples /\ Len(samples) <= n
  /\ \A j \in 1..Len(samples) : samples[j] = clock[(n - Len(samples)) + j]
  /\ \A i \in 1..(n - Len(samples)) :
       clock[i] + Window < clock[n] \/ n - i >= MaxSamples

LEMMA PushWindow ==
  ASSUME NEW clock, Clock(clock), NEW n \in Nat, n < MaxFrames,
         NEW samples, WindowOf(samples, clock, n)
  PROVE  WindowOf(Push(samples, clock[n + 1]), clock, n + 1)
<1> DEFINE t    == clock[n + 1]
           all  == Append(samples, t)
           kept == Push(samples, t)
           cut  == Len(all) - Len(kept)
           d    == n - Len(samples)
<1>1. /\ samples \in Seq(Nat) /\ Len(samples) \in Nat /\ Len(samples) <= n
      /\ \A j \in 1..Len(samples) : samples[j] = clock[d + j]
      /\ \A i \in 1..d : clock[i] + Window < clock[n] \/ n - i >= MaxSamples
  BY LenProperties DEF WindowOf
<1>2. MaxFrames \in Nat /\ Window \in Nat /\ MaxSamples \in Nat
  BY SenderAssumption, BindingsAssumption
<1>3. t \in Nat /\ \A i \in 1..n : clock[i] \in Nat /\ clock[i] <= t
  BY <1>2 DEF Clock
<1>4. /\ Len(all) = Len(samples) + 1 /\ all[Len(samples) + 1] = t
      /\ \A j \in 1..Len(samples) : all[j] = samples[j]
  BY <1>1, <1>3
<1>5. /\ kept \in Seq(Nat) /\ Len(kept) \in 1..Len(all) /\ Len(kept) <= MaxSamples
      /\ \A j \in 1..Len(kept) : kept[j] = all[cut + j]
      /\ \A i \in 1..cut : Stale(all[i], t) \/ Len(all) - i >= MaxSamples
  <2>. HIDE DEF t, all, kept, cut
  <2>1. all = Sampled(samples, t) /\ kept = Push(samples, t)
    BY DEF all, kept, Sampled
  <2>2. samples \in Seq(Nat) /\ t \in Nat
    BY <1>1, <1>3
  <2>3. /\ kept \in Seq(Nat) /\ Len(kept) \in 1..Len(all) /\ Len(kept) <= MaxSamples
        /\ Ending(kept, all)
        /\ \A i \in 1..(Len(all) - Len(kept)) : Stale(all[i], t) \/ Len(all) - i >= MaxSamples
    BY <2>1, <2>2, PushKeeps
  <2>. QED  BY <2>3 DEF cut, Ending
<1>. HIDE DEF kept, all
<1>6. (n + 1) - Len(kept) = d + cut /\ d \in Nat /\ cut \in Nat
  BY <1>1, <1>4, <1>5
<1>7. ASSUME NEW j \in 1..Len(all) PROVE all[j] = clock[d + j]
  <2>1. CASE j \in 1..Len(samples)
    BY <1>1, <1>4, <2>1
  <2>2. CASE j = Len(samples) + 1
    <3>1. d + j = n + 1
      BY <1>1, <2>2
    <3>. QED  BY <1>4, <2>2, <3>1
  <2>. QED  BY <1>1, <1>4, <2>1, <2>2
<1>8. ASSUME NEW j \in 1..Len(kept) PROVE kept[j] = clock[((n + 1) - Len(kept)) + j]
  <2>1. cut + j \in 1..Len(all) /\ d + (cut + j) = ((n + 1) - Len(kept)) + j
    BY <1>1, <1>4, <1>5, <1>6
  <2>. QED  BY <1>5, <1>7, <2>1
<1>9. ASSUME NEW i \in 1..((n + 1) - Len(kept))
      PROVE  clock[i] + Window < clock[n + 1] \/ (n + 1) - i >= MaxSamples
  <2>1. CASE i \in 1..d
    <3>1. n \in 1..n /\ i \in 1..n
      BY <1>1, <1>6, <2>1
    <3>2. clock[i] \in Nat /\ clock[n] \in Nat /\ clock[n] <= t
      BY <1>3, <3>1
    <3>. QED  BY <1>1, <1>2, <1>3, <2>1, <3>2
  <2>2. CASE i \notin 1..d
    <3>1. i - d \in 1..cut /\ i - d \in 1..Len(all) /\ d + (i - d) = i
      BY <1>1, <1>4, <1>5, <1>6, <2>2
    <3>2. Stale(all[i - d], t) \/ Len(all) - (i - d) >= MaxSamples
      BY <1>5, <3>1
    <3>3. all[i - d] = clock[i]
      BY <1>7, <3>1
    <3>4. Len(all) - (i - d) = (n + 1) - i
      BY <1>1, <1>4
    <3>5. clock[i] \in Nat
      <4>1. i \in 1..MaxFrames
        BY <1>2, <1>5, <1>6
      <4>. QED  BY <4>1 DEF Clock
    <3>6. Stale(clock[i], t) => clock[i] + Window < t
      BY <1>2, <1>3, <3>5 DEF Stale
    <3>. QED  BY <3>2, <3>3, <3>4, <3>6
  <2>. QED  BY <2>1, <2>2
<1>10. Len(kept) <= n + 1
  BY <1>1, <1>4, <1>5
<1>11. WindowOf(kept, clock, n + 1)
  BY <1>5, <1>8, <1>9, <1>10 DEF WindowOf
<1>. QED  BY <1>11 DEF kept, t

\* window_rates yields what a count over all frames of the session would.
LEMMA RatesOfWindow ==
  ASSUME NEW clock, Clock(clock), NEW n \in 0..MaxFrames,
         NEW samples, WindowOf(samples, clock, n),
         NEW now \in Nat, n > 0 => clock[n] <= now,
         NEW recent, recent = {i \in 1..n : now <= clock[i] + Window},
         Cardinality(recent) <= MaxSamples
  PROVE  Rates(samples, now) =
           [frames |-> Cardinality(recent),
            span   |-> IF recent = {} THEN 0 ELSE clock[n] - clock[Min(recent)]]
<1> DEFINE d     == n - Len(samples)
           fresh == {j \in DOMAIN samples : ~Stale(samples[j], now)}
           times == {samples[i] : i \in fresh}
<1>1. /\ samples \in Seq(Nat) /\ Len(samples) \in Nat /\ Len(samples) <= n
      /\ DOMAIN samples = 1..Len(samples)
      /\ \A j \in 1..Len(samples) : samples[j] = clock[d + j]
      /\ \A i \in 1..d : clock[i] + Window < clock[n] \/ n - i >= MaxSamples
  BY LenProperties DEF WindowOf
<1>2. MaxFrames \in Nat /\ Window \in Nat /\ MaxSamples \in Nat /\ n \in Nat /\ n <= MaxFrames
  BY SenderAssumption, BindingsAssumption
<1>3. /\ \A i \in 1..n : clock[i] \in Nat
      /\ \A i, j \in 1..n : i <= j => clock[i] <= clock[j]
  BY <1>2 DEF Clock
<1>4. recent \in SUBSET Nat /\ recent \subseteq 1..n /\ IsFiniteSet(recent)
      /\ Cardinality(recent) \in Nat
  <2>1. IsFiniteSet(1..n)
    BY <1>2, FS_Interval
  <2>2. recent \in SUBSET (1..n)
    OBVIOUS
  <2>3. IsFiniteSet(recent)
    BY <2>1, <2>2, FS_Subset
  <2>. QED  BY <2>2, <2>3, FS_CardinalityType
\* A recent sample was not evicted.
<1>5. ASSUME NEW i \in recent PROVE i \in (d + 1)..n
  <2>1. i \in 1..n /\ now <= clock[i] + Window /\ n \in 1..n
    BY <1>2
  <2>2. SUFFICES ASSUME i \in 1..d PROVE FALSE
    BY <1>1, <1>2, <2>1
  <2>3. ~(clock[i] + Window < clock[n])
    BY <1>2, <1>3, <2>1
  <2>4. n - i >= MaxSamples
    BY <1>1, <2>2, <2>3
  <2>5. i..n \subseteq recent
    <3>1. ASSUME NEW j \in i..n PROVE j \in recent
      <4>1. j \in 1..n /\ i <= j
        BY <1>2, <2>1
      <4>2. clock[i] \in Nat /\ clock[j] \in Nat /\ clock[i] <= clock[j]
        BY <1>3, <2>1, <4>1
      <4>. QED  BY <1>2, <2>1, <4>1, <4>2
    <3>. QED  BY <3>1
  <2>6. IsFiniteSet(i..n) /\ Cardinality(i..n) = n - i + 1
    <3>1. i \in Int /\ n \in Int /\ ~(i > n)
      BY <1>2, <2>1
    <3>. QED  BY <3>1, FS_Interval
  <2>7. Cardinality(i..n) <= Cardinality(recent)
    BY <1>4, <2>5, FS_Subset
  <2>. QED  BY <1>2, <1>4, <2>1, <2>4, <2>6, <2>7
<1>6. \A j \in 1..Len(samples) : j \in fresh <=> d + j \in recent
  <2> SUFFICES ASSUME NEW j \in 1..Len(samples) PROVE j \in fresh <=> d + j \in recent
    OBVIOUS
  <2>1. d + j \in 1..n
    BY <1>1, <1>2
  <2>2. samples[j] = clock[d + j] /\ clock[d + j] \in Nat
    BY <1>1, <1>3, <2>1
  <2>. QED  BY <1>1, <1>2, <2>1, <2>2 DEF Stale
<1>. HIDE DEF fresh
<1>7. fresh \subseteq 1..Len(samples)
  BY <1>1 DEF fresh
<1>8. \A i \in recent : i - d \in fresh /\ d + (i - d) = i
  <2> SUFFICES ASSUME NEW i \in recent PROVE i - d \in fresh /\ d + (i - d) = i
    OBVIOUS
  <2>1. i - d \in 1..Len(samples) /\ d + (i - d) = i
    BY <1>1, <1>2, <1>5
  <2>. QED  BY <1>6, <2>1
<1>9. Cardinality(fresh) = Cardinality(recent)
  <2> DEFINE f == [i \in recent |-> i - d]
  <2>1. f \in [recent -> fresh]
    BY <1>8
  <2>2. \A i, j \in recent : f[i] = f[j] => i = j
    BY <1>8
  <2>3. \A j \in fresh : \E i \in recent : f[i] = j
    <3> SUFFICES ASSUME NEW j \in fresh PROVE f[d + j] = j /\ d + j \in recent
      OBVIOUS
    <3>. QED  BY <1>1, <1>2, <1>6, <1>7
  <2>4. f \in Bijection(recent, fresh)
    <3>. HIDE DEF f
    <3>. QED  BY <2>1, <2>2, <2>3 DEF Bijection, Injection, Surjection, IsInjective
  <2>. QED  BY <1>4, <2>4, FS_Bijection DEF ExistsBijection
<1>10. times = {clock[i] : i \in recent}
  <2>1. ASSUME NEW j \in fresh PROVE \E i \in recent : samples[j] = clock[i]
    BY <1>1, <1>6, <1>7
  <2>2. ASSUME NEW i \in recent PROVE \E j \in fresh : clock[i] = samples[j]
    <3>1. i - d \in 1..Len(samples)
      BY <1>7, <1>8
    <3>. QED  BY <1>1, <1>8, <3>1
  <2>. QED  BY <2>1, <2>2
<1>11. Rates(samples, now) =
         [frames |-> Cardinality(fresh),
          span   |-> IF times = {} THEN 0 ELSE Max(times) - Min(times)]
  BY DEF Rates, fresh
<1>. HIDE DEF times
<1>12. times = {} <=> recent = {}
  BY <1>10
<1>13. ASSUME recent # {}
       PROVE  Max(times) = clock[n] /\ Min(times) = clock[Min(recent)]
  <2>1. /\ Min(recent) \in recent /\ \A i \in recent : Min(recent) <= i
    BY <1>4, <1>13, MaxMin
  <2>2. n \in recent
    <3>1. PICK i \in recent : TRUE
      BY <1>13
    <3>2. i \in 1..n /\ n \in 1..n /\ now <= clock[i] + Window
      BY <1>2
    <3>3. clock[i] \in Nat /\ clock[n] \in Nat /\ clock[i] <= clock[n]
      BY <1>3, <3>2
    <3>. QED  BY <1>2, <3>2, <3>3
  <2>3. \A i \in recent : /\ clock[i] \in Nat /\ clock[i] <= clock[n]
                          /\ clock[Min(recent)] <= clock[i]
    BY <1>2, <1>3, <1>4, <2>1, <2>2
  <2>4. times \in SUBSET Nat /\ times # {}
    BY <1>10, <1>13, <2>3
  <2>5. IsFiniteSet(times)
    <3>1. [i \in recent |-> clock[i]] \in Surjection(recent, times)
      BY <1>10 DEF Surjection
    <3>. QED  BY <1>4, <3>1, FS_Surjection
  <2>6. /\ Max(times) \in times /\ \A t \in times : t <= Max(times)
        /\ Min(times) \in times /\ \A t \in times : Min(times) <= t
    BY <2>4, <2>5, MaxMin
  <2>7. clock[n] \in times /\ clock[Min(recent)] \in times
    BY <1>10, <2>1, <2>2
  <2>8. \A t \in times : t \in Nat /\ t <= clock[n] /\ clock[Min(recent)] <= t
    BY <1>10, <2>3
  <2>. QED  BY <2>6, <2>7, <2>8
<1>. QED  BY <1>9, <1>11, <1>12, <1>13

----------------------------------------------------------------------------
(* What the host finds. *)

AnyFrame == [kind : {"descriptor", "data"}, sbn : Nat, esi : Nat]

\* The segment named is the one that plays, and the frames are counted.
SegmentInv ==
  /\ segment_index \in 0..(SegmentCount - 1)
  /\ blocks = host.file[segment_index + 1]
  /\ frame_index = Len(emitted)

\* While a call runs it holds what it took.
CallInv ==
  /\ call \in [state : {"open", "ok", "failed"}, want : Nat, room : Nat, slot : BOOLEAN,
               start : Nat, got : Seq(AnyFrame)]
  /\ call.start <= Len(emitted)
  /\ Len(call.got) <= call.want
  /\ host.api = "c" => call.want <= 1 /\ (Running => call.room # 0)
  /\ Renders /\ ~host.fits_qr => call.got = <<>>
  /\ Running => call.got = Taken

\* The scratch begins with the codes of the call that fills it.
ScratchInv ==
  /\ qr_scratch \in [count : 0..ScratchCodes, codes : Seq(AnyFrame)]
  /\ Len(qr_scratch.codes) <= ScratchCodes
  /\ host.api = "scratch" => call.want <= ScratchCodes
  /\ host.api = "scratch" /\ Running =>
       /\ Len(call.got) <= Len(qr_scratch.codes)
       /\ \A i \in 1..Len(call.got) : qr_scratch.codes[i] = call.got[i]

BindingsInv ==
  /\ IInv /\ SegmentInv /\ CallInv /\ ScratchInv
  /\ WindowOf(window, host.clock, Len(emitted))
  /\ HandsOutWhatItTakes

LEMMA BindingsType == BindingsInv => BindingsTypeOK
BY InvType DEF BindingsInv, IInv, SegmentInv, CallInv, ScratchInv, WindowOf, BindingsTypeOK

\* The fields of a host.
LEMMA HostType ==
  ASSUME NEW h \in Hosts
  PROVE  /\ h.api \in {"c", "frame", "qr", "qr_into", "multi", "multi_into", "scratch"}
         /\ h.file \in Seq(Layouts) /\ Len(h.file) \in Nat \ {0}
         /\ Clock(h.clock)
<1>1. IsHost(h)
  BY BindingsAssumption
<1>2. h.file \in Seq(Layouts) /\ h.file # <<>>
  BY <1>1 DEF IsHost
<1>. QED  BY <1>1, <1>2, EmptySeq DEF IsHost, Clock

LEMMA EmptyWindow ==
  ASSUME NEW clock
  PROVE  WindowOf(<<>>, clock, 0)
<1>1. MaxSamples \in Nat
  BY BindingsAssumption
<1>. QED  BY <1>1, EmptySeq DEF WindowOf

LEMMA InitBindings == BInit => BindingsInv
<1> SUFFICES ASSUME BInit PROVE BindingsInv
  OBVIOUS
<1>1. /\ IInv /\ host \in Hosts
  BY InitInv DEF BInit
<1>2. /\ emitted = <<>> /\ frame_index = 0 /\ segment_index = 0 /\ window = <<>>
      /\ blocks = host.file[1]
      /\ qr_scratch = [count |-> 0, codes |-> <<>>] /\ call = NoCall
  BY DEF BInit, Init
<1>3. Len(emitted) = 0 /\ <<>> \in Seq(AnyFrame) /\ Len(<<>>) = 0
  BY <1>2, EmptySeq
<1>4. SegmentInv
  BY <1>1, <1>2, <1>3, HostType DEF SegmentInv, SegmentCount
<1>5. CallInv
  <2>1. call.state = "ok" /\ call.got = <<>> /\ call.want = 0 /\ call.start = 0 /\ ~Running
    BY <1>2 DEF NoCall, Running
  <2>. QED  BY <1>2, <1>3, <2>1 DEF CallInv, NoCall
<1>6. ScratchInv
  <2>1. ScratchCodes \in Nat /\ call.want = 0 /\ ~Running
    BY <1>2, BindingsAssumption DEF NoCall, Running
  <2>. QED  BY <1>2, <1>3, <2>1 DEF ScratchInv
<1>7. HandsOutWhatItTakes
  <2>1. Taken = <<>>
    <3>1. call.start = 0 /\ Len(emitted) \in Int /\ Len(emitted) < call.start + 1
      BY <1>2, <1>3 DEF NoCall
    <3>2. call.start + 1 \in Int
      BY <3>1
    <3>. QED  BY <3>1, <3>2, SubSeqEmpty DEF Taken
  <2>2. call.got = <<>>
    BY <1>2 DEF NoCall
  <2>3. host.api = "c" => Found = call.got
    BY DEF Found
  <2>. QED  BY <2>1, <2>2, <2>3 DEF HandsOutWhatItTakes
<1>8. WindowOf(window, host.clock, Len(emitted))
  BY <1>2, <1>3, EmptyWindow
<1>. QED  BY <1>1, <1>4, <1>5, <1>6, <1>7, <1>8 DEF BindingsInv

\* One more element at the end of a part.
LEMMA PartGrows ==
  ASSUME NEW S, NEW s \in Seq(S), NEW e \in S, NEW start \in Nat, start <= Len(s)
  PROVE  SubSeq(Append(s, e), start + 1, Len(Append(s, e)))
           = Append(SubSeq(s, start + 1, Len(s)), e)
<1> DEFINE t == Append(s, e)
           a == SubSeq(t, start + 1, Len(t))
           b == SubSeq(s, start + 1, Len(s))
<1>1. /\ Len(s) \in Nat /\ t \in Seq(S) /\ Len(t) = Len(s) + 1 /\ t[Len(s) + 1] = e
      /\ \A i \in 1..Len(s) : t[i] = s[i]
  BY AppendProperties, LenProperties
<1>. HIDE DEF t
<1>2. start + 1 \in 1..(Len(s) + 1) /\ start + 1 \in 1..(Len(t) + 1)
  BY <1>1
<1>3. /\ a \in Seq(S) /\ Len(a) = Len(s) + 1 - start
      /\ \A i \in 1..(Len(s) + 1 - start) : a[i] = t[start + i]
  <2>1. /\ a \in Seq(S) /\ Len(a) = Len(t) - (start + 1) + 1
        /\ \A i \in 1..(Len(t) - (start + 1) + 1) : a[i] = t[(start + 1) + i - 1]
    BY <1>1, <1>2, Part
  <2>2. Len(t) - (start + 1) + 1 = Len(s) + 1 - start
    BY <1>1
  <2>3. \A i \in Int : (start + 1) + i - 1 = start + i
    OBVIOUS
  <2>. HIDE DEF a
  <2>. QED  BY <2>1, <2>2, <2>3
<1>4. /\ b \in Seq(S) /\ Len(b) = Len(s) - start
      /\ \A i \in 1..(Len(s) - start) : b[i] = s[start + i]
  <2>1. /\ b \in Seq(S) /\ Len(b) = Len(s) - (start + 1) + 1
        /\ \A i \in 1..(Len(s) - (start + 1) + 1) : b[i] = s[(start + 1) + i - 1]
    BY <1>1, <1>2, Part
  <2>2. Len(s) - (start + 1) + 1 = Len(s) - start
    BY <1>1
  <2>3. \A i \in Int : (start + 1) + i - 1 = start + i
    OBVIOUS
  <2>. HIDE DEF b
  <2>. QED  BY <2>1, <2>2, <2>3
<1>. HIDE DEF a, b
<1> DEFINE c == Append(b, e)
<1>5. /\ c \in Seq(S) /\ Len(c) = Len(s) - start + 1 /\ c[Len(s) - start + 1] = e
      /\ \A i \in 1..(Len(s) - start) : c[i] = b[i]
  BY <1>4, AppendProperties
<1>. HIDE DEF c
<1>6. Len(a) = Len(c)
  BY <1>1, <1>3, <1>5
<1>7. ASSUME NEW i \in 1..Len(a) PROVE a[i] = c[i]
  <2>1. a[i] = t[start + i]
    BY <1>3
  <2>2. CASE i = Len(s) - start + 1
    <3>1. start + i = Len(s) + 1
      BY <1>1, <2>2
    <3>. QED  BY <1>1, <1>5, <2>1, <2>2, <3>1
  <2>3. CASE i # Len(s) - start + 1
    <3>1. i \in Int /\ 1 <= i /\ i <= Len(s) + 1 - start
      BY <1>1, <1>3
    <3>2. i \in 1..(Len(s) - start) /\ start + i \in 1..Len(s)
      BY <1>1, <2>3, <3>1
    <3>. QED  BY <1>1, <1>4, <1>5, <2>1, <3>2
  <2>. QED  BY <2>2, <2>3
<1>8. a = c
  BY <1>3, <1>5, <1>6, <1>7, SeqEqual
<1>. QED  BY <1>8 DEF a, b, c, t

\* A part that has not begun yet is empty.
LEMMA PartEmpty ==
  ASSUME NEW S, NEW s \in Seq(S)
  PROVE  SubSeq(s, Len(s) + 1, Len(s)) = <<>>
<1>1. Len(s) \in Int /\ Len(s) + 1 \in Int /\ Len(s) < Len(s) + 1
  BY LenProperties
<1>. QED  BY <1>1, SubSeqEmpty

LEMMA StreamFrames ==
  ASSUME StreamInv
  PROVE  emitted \in Seq(AnyFrame) /\ Len(emitted) \in Nat /\ FrameSet \subseteq AnyFrame
<1>1. emitted \in Seq(FrameSet) /\ blocks \in Layouts
  BY DEF StreamInv, CursorsInv
<1>2. FrameSet \subseteq AnyFrame
  <2>1. Cardinality(Blocks) \in Nat /\ Blocks = 0..(Cardinality(Blocks) - 1) /\ EsiLimit \in Nat
    BY <1>1, SourceType, SenderAssumption
  <2>2. Blocks \subseteq Nat /\ 0..(EsiLimit - 1) \subseteq Nat
    BY <2>1
  <2>. QED  BY <2>2 DEF FrameSet, AnyFrame
<1>3. Len(emitted) \in Nat
  BY <1>1, LenProperties
<1>4. emitted \in Seq(AnyFrame)
  BY <1>1, <1>2, SeqMonotonic
<1>. QED  BY <1>2, <1>3, <1>4

\* A frame is drawn: it is the next of the stream, and it is sampled.
LEMMA DrawStep ==
  ASSUME BindingsInv, Draw
  PROVE  /\ Drawn \in AnyFrame /\ emitted' = Append(emitted, Drawn)
         /\ Len(emitted') = Len(emitted) + 1
         /\ SegmentInv' /\ WindowOf(window, host.clock, Len(emitted))'
         /\ host' = host
         /\ SubSeq(emitted', call.start + 1, Len(emitted')) = Append(Taken, Drawn)
<1>1. /\ StreamInv /\ host \in Hosts /\ SegmentInv
      /\ WindowOf(window, host.clock, Len(emitted))
      /\ call.start \in Nat /\ call.start <= Len(emitted)
  BY DEF BindingsInv, IInv, CallInv
<1>2. emitted \in Seq(AnyFrame) /\ Len(emitted) \in Nat /\ FrameSet \subseteq AnyFrame
  BY <1>1, StreamFrames
<1>3. \E frame \in FrameSet :
        emitted' = Append(emitted, frame) /\ frame_index < MaxFrames
          /\ frame_index' = frame_index + 1 /\ blocks' = blocks
  <2>1. /\ blocks \in Layouts /\ source_cursor \in 0..Cardinality(SourceIds)
        /\ repair_cursor \in Nat /\ Cardinality(SourceIds) \in Nat
    BY <1>1, SourceType DEF StreamInv, CursorsInv
  <2>2. CASE NextDescriptor
    BY <2>1, <2>2, SymbolType DEF NextDescriptor, Return
  <2>3. CASE NextSource
    <3>1. source_cursor \in 0..(Cardinality(SourceIds) - 1)
      BY <2>1, <2>3 DEF NextSource, SourcePassOver
    <3>2. DataFrame(PlanEntry(source_cursor)) \in FrameSet
      BY <2>1, <3>1, SymbolType
    <3>. QED  BY <2>3, <3>2 DEF NextSource, Return
  <2>4. CASE NextRepair
    <3>1. DataFrame(RepairId(repair_cursor)) \in FrameSet
      BY <2>1, <2>4, SymbolType DEF NextRepair
    <3>. QED  BY <2>4, <3>1 DEF NextRepair, Return
  <2>. QED  BY <2>2, <2>3, <2>4 DEF Draw
<1>4. PICK frame \in AnyFrame :
        emitted' = Append(emitted, frame) /\ frame_index < MaxFrames
          /\ frame_index' = frame_index + 1 /\ blocks' = blocks
  BY <1>2, <1>3
<1>5. Len(emitted') = Len(emitted) + 1 /\ Drawn = frame
  BY <1>2, <1>4, AppendProperties DEF Drawn
<1>6. host' = host /\ segment_index' = segment_index
      /\ window' = Push(window, host.clock[frame_index + 1])
  BY DEF Draw
<1>7. SegmentInv'
  BY <1>1, <1>2, <1>4, <1>5, <1>6 DEF SegmentInv, SegmentCount
<1>8. WindowOf(window, host.clock, Len(emitted))'
  <2>1. frame_index = Len(emitted) /\ Clock(host.clock)
    BY <1>1, HostType DEF SegmentInv
  <2>2. WindowOf(Push(window, host.clock[Len(emitted) + 1]), host.clock, Len(emitted) + 1)
    BY <1>1, <1>2, <1>4, <2>1, PushWindow
  <2>. QED  BY <1>5, <1>6, <2>1, <2>2
<1>9. SubSeq(emitted', call.start + 1, Len(emitted')) = Append(Taken, Drawn)
  BY <1>1, <1>2, <1>4, <1>5, PartGrows DEF Taken
<1>. QED  BY <1>4, <1>5, <1>6, <1>7, <1>8, <1>9

\* A code put into the scratch: over an old one, or behind them.
Puts(S, new, codes, place, code) ==
  /\ new \in Seq(S) /\ new[place] = code
  /\ Len(new) = IF place > Len(codes) THEN place ELSE Len(codes)
  /\ \A i \in 1..Len(codes) : i # place => new[i] = codes[i]

LEMMA WrittenType ==
  ASSUME NEW S, NEW codes \in Seq(S), NEW place \in 1..(Len(codes) + 1), NEW code \in S
  PROVE  Puts(S, Written(codes, place, code), codes, place, code)
<1> DEFINE n == IF place > Len(codes) THEN place ELSE Len(codes)
<1>1. Len(codes) \in Nat /\ \A i \in 1..Len(codes) : codes[i] \in S
  BY LenProperties, ElementOfSeq
<1>2. n \in Nat /\ place \in 1..n /\ \A i \in 1..Len(codes) : i \in 1..n
  BY <1>1
<1>3. \A i \in 1..n : i # place => i \in 1..Len(codes)
  BY <1>1
<1>4. Written(codes, place, code) = [i \in 1..n |-> IF i = place THEN code ELSE codes[i]]
  BY DEF Written
<1>. HIDE DEF n
<1>5. Written(codes, place, code) \in [1..n -> S]
  BY <1>1, <1>3, <1>4
<1>6. Written(codes, place, code) \in Seq(S) /\ Len(Written(codes, place, code)) = n
  BY <1>2, <1>5
<1>7. Written(codes, place, code)[place] = code
  BY <1>2, <1>4
<1>8. \A i \in 1..Len(codes) : i # place => Written(codes, place, code)[i] = codes[i]
  BY <1>2, <1>4
<1>. QED  BY <1>6, <1>7, <1>8 DEF n, Puts

\* The parts of the invariant that concern calls only.
CallParts ==
  /\ SegmentInv /\ CallInv /\ ScratchInv
  /\ WindowOf(window, host.clock, Len(emitted))
  /\ HandsOutWhatItTakes

LEMMA StepHandOver == BindingsInv /\ HandOver => CallParts'
<1> SUFFICES ASSUME BindingsInv, HandOver PROVE CallParts'
  OBVIOUS
<1>1. /\ Drawn \in AnyFrame /\ emitted' = Append(emitted, Drawn)
      /\ Len(emitted') = Len(emitted) + 1 /\ Len(emitted) \in Nat
      /\ SegmentInv' /\ WindowOf(window, host.clock, Len(emitted))'
      /\ host' = host
      /\ SubSeq(emitted', call.start + 1, Len(emitted')) = Append(Taken, Drawn)
  BY DrawStep, StreamFrames DEF HandOver, BindingsInv, IInv
<1>2. /\ call.state = "open" /\ Len(call.got) < call.want
      /\ Renders => host.fits_qr
      /\ call' = [call EXCEPT !.got = Append(@, Drawn)]
      /\ qr_scratch' = IF host.api = "scratch"
                       THEN [qr_scratch EXCEPT !.codes = Written(@, Slot, Drawn)]
                       ELSE qr_scratch
  BY DEF HandOver, Draw, Running
<1>3. CallInv /\ ScratchInv
  BY DEF BindingsInv
<1>. HIDE DEF Drawn
<1>4. /\ call.got \in Seq(AnyFrame) /\ Len(call.got) \in Nat /\ call.want \in Nat
      /\ call.start \in Nat /\ call.start <= Len(emitted) /\ call.got = Taken
  BY <1>2, <1>3, LenProperties DEF CallInv, Running
<1>5. /\ Append(call.got, Drawn) \in Seq(AnyFrame)
      /\ Len(Append(call.got, Drawn)) = Len(call.got) + 1
      /\ Append(call.got, Drawn)[Len(call.got) + 1] = Drawn
      /\ \A i \in 1..Len(call.got) : Append(call.got, Drawn)[i] = call.got[i]
  BY <1>1, <1>4, AppendProperties
<1>6. /\ call'.got = Append(call.got, Drawn) /\ call'.start = call.start
      /\ call'.want = call.want /\ call'.room = call.room /\ call'.state = "open"
      /\ call' \in [state : {"open", "ok", "failed"}, want : Nat, room : Nat, slot : BOOLEAN,
                    start : Nat, got : Seq(AnyFrame)]
  BY <1>2, <1>3, <1>5 DEF CallInv
<1>7. CallInv'
  <2>1. Taken' = call'.got
    BY <1>1, <1>4, <1>6 DEF Taken
  <2>2. Len(call'.got) <= call'.want /\ call'.start <= Len(emitted')
    BY <1>1, <1>2, <1>4, <1>5, <1>6
  <2>3. host.api = "c" => call'.want <= 1 /\ call'.room # 0
    BY <1>2, <1>3, <1>6 DEF CallInv, Running
  <2>4. ~(Renders /\ ~host.fits_qr)'
    BY <1>1, <1>2 DEF Renders
  <2>. QED  BY <1>1, <1>6, <2>1, <2>2, <2>3, <2>4 DEF CallInv
<1>8. ScratchInv'
  <2>1. CASE host.api # "scratch"
    BY <1>1, <1>2, <1>3, <2>1 DEF ScratchInv
  <2>2. CASE host.api = "scratch"
    <3> DEFINE codes == qr_scratch.codes
               new   == Written(codes, Slot, Drawn)
    <3>1. /\ codes \in Seq(AnyFrame) /\ Len(codes) \in Nat /\ Len(codes) <= ScratchCodes
          /\ Len(call.got) <= Len(codes)
          /\ \A i \in 1..Len(call.got) : codes[i] = call.got[i]
          /\ call.want <= ScratchCodes /\ ScratchCodes \in Nat
      BY <1>2, <1>3, <2>2, LenProperties, BindingsAssumption DEF ScratchInv, Running
    <3>2. Slot \in 1..(Len(codes) + 1) /\ Slot = Len(call.got) + 1 /\ Slot <= ScratchCodes
      BY <1>2, <1>4, <3>1 DEF Slot
    <3>. HIDE DEF Slot
    <3>3. qr_scratch' = [qr_scratch EXCEPT !.codes = new]
      BY <1>2, <2>2
    <3>. HIDE DEF codes
    <3>4. /\ new \in Seq(AnyFrame) /\ new[Slot] = Drawn
          /\ Len(new) = IF Slot > Len(codes) THEN Slot ELSE Len(codes)
          /\ \A i \in 1..Len(codes) : i # Slot => new[i] = codes[i]
      <4>1. Puts(AnyFrame, new, codes, Slot, Drawn)
        BY <1>1, <3>1, <3>2, WrittenType
      <4>. HIDE DEF new
      <4>. QED  BY <4>1 DEF Puts
    <3>. HIDE DEF new
    <3>5. /\ qr_scratch'.codes = new
          /\ qr_scratch' \in [count : 0..ScratchCodes, codes : Seq(AnyFrame)]
      BY <1>3, <3>3, <3>4 DEF ScratchInv
    <3>6. Len(new) <= ScratchCodes /\ Len(call'.got) <= Len(new)
      BY <1>4, <1>5, <1>6, <3>1, <3>2, <3>4
    <3>7. ASSUME NEW i \in 1..Len(call'.got) PROVE new[i] = call'.got[i]
      <4>1. CASE i = Slot
        BY <1>5, <1>6, <3>2, <3>4, <4>1
      <4>2. CASE i # Slot
        <5>1. i \in 1..Len(call.got) /\ i \in 1..Len(codes)
          BY <1>4, <1>5, <1>6, <3>1, <3>2, <4>2
        <5>. QED  BY <1>5, <1>6, <3>1, <3>4, <4>2, <5>1
      <4>. QED  BY <4>1, <4>2
    <3>. QED  BY <1>1, <1>6, <3>1, <3>5, <3>6, <3>7 DEF ScratchInv
  <2>. QED  BY <2>1, <2>2
<1>9. HandsOutWhatItTakes'
  BY <1>6 DEF HandsOutWhatItTakes
<1>. QED  BY <1>1, <1>7, <1>8, <1>9 DEF CallParts

\* A call that fails in the middle: what it took last is lost.
LEMMA StepLost == BindingsInv /\ (EncodeFails \/ Overflows) => CallParts'
<1> SUFFICES ASSUME BindingsInv, EncodeFails \/ Overflows PROVE CallParts'
  OBVIOUS
<1>1. /\ Len(emitted') = Len(emitted) + 1 /\ Len(emitted) \in Nat
      /\ SegmentInv' /\ WindowOf(window, host.clock, Len(emitted))'
      /\ host' = host /\ qr_scratch' = qr_scratch
  BY DrawStep, StreamFrames DEF EncodeFails, Overflows, BindingsInv, IInv
<1>2. call.state = "open" /\ Len(call.got) < call.want
  BY DEF EncodeFails, Overflows, Draw, Running
<1>3. CallInv /\ ScratchInv
  BY DEF BindingsInv
<1>4. /\ call.got \in Seq(AnyFrame) /\ Len(call.got) \in Nat /\ call.want \in Nat
      /\ call.start \in Nat /\ call.start <= Len(emitted) /\ call.room \in Nat
  BY <1>2, <1>3, LenProperties DEF CallInv
<1>5. \/ /\ call' = [call EXCEPT !.state = "ok"] \/ call' = [call EXCEPT !.state = "failed"]
         /\ host.api # "c" /\ call.got = <<>>
      \/ /\ call' = [call EXCEPT !.state = "failed"]
         /\ host.api # "c"
  <2>1. CASE EncodeFails
    BY <1>3, <2>1 DEF EncodeFails, Cut, Renders, CallInv
  <2>2. CASE Overflows
    <3>1. IntoBuffer /\ ~(Len(call.got) < call.room)
      BY <2>2 DEF Overflows, HasRoom
    <3>2. host.api # "c"
      BY <1>2, <1>3, <1>4, <3>1 DEF CallInv, Running
    <3>. QED  BY <2>2, <3>2 DEF Overflows
  <2>. QED  BY <2>1, <2>2
<1>6. /\ call'.state \in {"ok", "failed"} /\ call'.got = call.got /\ call'.want = call.want
      /\ call'.start = call.start /\ host.api # "c"
      /\ call'.state = "failed" \/ call.got = <<>>
      /\ call' \in [state : {"open", "ok", "failed"}, want : Nat, room : Nat, slot : BOOLEAN,
                    start : Nat, got : Seq(AnyFrame)]
  BY <1>3, <1>5 DEF CallInv
<1>7. CallInv'
  <2>1. call'.start <= Len(emitted') /\ Len(call'.got) <= call'.want
    BY <1>1, <1>2, <1>4, <1>6
  <2>2. (Renders /\ ~host.fits_qr => call.got = <<>>)'
    BY <1>1, <1>3, <1>6 DEF CallInv, Renders
  <2>. QED  BY <1>1, <1>6, <2>1, <2>2 DEF CallInv, Running
<1>8. ScratchInv'
  BY <1>1, <1>3, <1>6 DEF ScratchInv, Running
<1>9. HandsOutWhatItTakes'
  BY <1>1, <1>6 DEF HandsOutWhatItTakes
<1>. QED  BY <1>1, <1>7, <1>8, <1>9 DEF CallParts

\* A call begins; a C call without room ends at once.
LEMMA StepCall ==
  ASSUME BindingsInv, NEW count \in Counts, NEW room \in Rooms, NEW slot \in BOOLEAN,
         Call(count, room, slot)
  PROVE  CallParts'
<1>1. /\ emitted' = emitted /\ blocks' = blocks /\ frame_index' = frame_index /\ host' = host
      /\ segment_index' = segment_index /\ window' = window /\ qr_scratch' = qr_scratch
  BY DEF Call, sessionVars, vars
<1>2. /\ StreamInv /\ host \in Hosts /\ SegmentInv /\ ScratchInv
      /\ WindowOf(window, host.clock, Len(emitted))
  BY DEF BindingsInv, IInv
<1>3. emitted \in Seq(AnyFrame) /\ Len(emitted) \in Nat /\ <<>> \in Seq(AnyFrame)
      /\ Len(<<>>) = 0
  BY <1>2, StreamFrames, EmptySeq
<1>5. /\ Wanted(count) \in Nat /\ (host.api = "c" => Wanted(count) = 1)
      /\ (host.api = "scratch" => Wanted(count) <= ScratchCodes)
  BY BindingsAssumption DEF Wanted, Clamp
<1>6. room \in Nat
  BY BindingsAssumption
<1>7. /\ call' \in [state : {"open", "ok", "failed"}, want : Nat, room : Nat, slot : BOOLEAN,
                    start : Nat, got : Seq(AnyFrame)]
      /\ call'.want = Wanted(count) /\ call'.room = room /\ call'.start = Len(emitted)
      /\ call'.got = <<>>
      /\ call'.state = IF Refused(room, slot) THEN "failed" ELSE "open"
  BY <1>3, <1>5, <1>6 DEF Call
<1>8. Taken' = <<>>
  BY <1>1, <1>3, <1>7, PartEmpty DEF Taken
<1>9. SegmentInv'
  BY <1>1, <1>2 DEF SegmentInv, SegmentCount
<1>10. CallInv'
  <2>1. host.api = "c" /\ Running' => room # 0
    BY <1>7 DEF Refused, Running
  <2>. QED  BY <1>1, <1>3, <1>5, <1>7, <1>8, <2>1 DEF CallInv
<1>11. ScratchInv'
  <2>1. ScratchCodes \in Nat /\ Len(qr_scratch.codes) \in Nat
    BY <1>2, BindingsAssumption, LenProperties DEF ScratchInv
  <2>2. Len(call'.got) = 0
    BY <1>3, <1>7
  <2>. QED  BY <1>1, <1>2, <1>5, <1>7, <2>1, <2>2 DEF ScratchInv
<1>12. HandsOutWhatItTakes'
  <2>1. host.api = "c" => Found' = call'.got
    BY <1>1 DEF Found
  <2>. QED  BY <1>1, <1>7, <1>8, <2>1 DEF HandsOutWhatItTakes
<1>. QED  BY <1>1, <1>2, <1>9, <1>10, <1>11, <1>12 DEF CallParts

\* The symbols run out in the middle of a call: what it holds is what it took.
LEMMA StepRunsOut == BindingsInv /\ RunsOut => CallParts'
<1> SUFFICES ASSUME BindingsInv, RunsOut PROVE CallParts'
  OBVIOUS
<1>1. /\ emitted' = emitted /\ blocks' = blocks /\ frame_index' = frame_index /\ host' = host
      /\ segment_index' = segment_index /\ window' = window /\ qr_scratch' = qr_scratch
      /\ call.state = "open"
  BY DEF RunsOut, NextExhausted, Running
<1>2. /\ CallInv /\ SegmentInv /\ ScratchInv
      /\ WindowOf(window, host.clock, Len(emitted))
  BY DEF BindingsInv
<1>3. call' = [call EXCEPT !.state = IF host.api \in {"multi", "multi_into"}
                                     THEN "ok" ELSE "failed"]
      /\ Len(call.got) < call.want /\ call.got = Taken
  BY <1>1, <1>2 DEF RunsOut, Cut, CallInv, Running
<1>4. /\ call'.state = IF host.api \in {"multi", "multi_into"} THEN "ok" ELSE "failed"
      /\ call'.got = call.got /\ call'.want = call.want /\ call'.start = call.start
      /\ call' \in [state : {"open", "ok", "failed"}, want : Nat, room : Nat, slot : BOOLEAN,
                    start : Nat, got : Seq(AnyFrame)]
  BY <1>2, <1>3 DEF CallInv
<1>5. Taken' = Taken
  BY <1>1, <1>4 DEF Taken
<1>6. SegmentInv'
  BY <1>1, <1>2 DEF SegmentInv, SegmentCount
<1>7. CallInv'
  BY <1>1, <1>2, <1>4 DEF CallInv, Running, Renders
<1>8. ScratchInv'
  BY <1>1, <1>2, <1>4 DEF ScratchInv, Running
<1>9. HandsOutWhatItTakes'
  <2>1. host.api # "scratch" => Found' = call'.got
    BY <1>1 DEF Found
  <2>. QED  BY <1>1, <1>3, <1>4, <1>5, <2>1 DEF HandsOutWhatItTakes
<1>. QED  BY <1>1, <1>2, <1>6, <1>7, <1>8, <1>9 DEF CallParts

\* The first codes of the scratch are those of the call, if they agree there.
LEMMA FirstCodes ==
  ASSUME NEW S, NEW codes \in Seq(S), NEW got \in Seq(S), Len(got) <= Len(codes),
         \A i \in 1..Len(got) : codes[i] = got[i]
  PROVE  SubSeq(codes, 1, Len(got)) = got
<1> DEFINE n    == Len(got)
           part == SubSeq(codes, 1, n)
<1>1. Len(codes) \in Nat /\ n \in Nat /\ n <= Len(codes) /\ 1 \in Int
  BY LenProperties
<1>. HIDE DEF n
<1>2. \A i \in 1..n : codes[i] \in S
  BY <1>1, ElementOfSeq
<1>3. /\ part \in Seq(S) /\ Len(part) = IF 1 <= n THEN n - 1 + 1 ELSE 0
      /\ \A i \in 1..(n - 1 + 1) : part[i] = codes[1 + i - 1]
  BY <1>1, <1>2, SubSeqProperties
<1>. HIDE DEF part
<1>4. Len(part) = n /\ n - 1 + 1 = n /\ \A i \in 1..n : 1 + i - 1 = i
  BY <1>1, <1>3
<1>5. \A i \in 1..n : part[i] = codes[i]
  BY <1>3, <1>4
<1>6. part = got
  BY <1>3, <1>4, <1>5, SeqEqual DEF n
<1>. QED  BY <1>6 DEF part, n

\* A call ends with all it was asked for.
LEMMA StepFinish == BindingsInv /\ Finish => CallParts'
<1> SUFFICES ASSUME BindingsInv, Finish PROVE CallParts'
  OBVIOUS
<1>1. /\ emitted' = emitted /\ blocks' = blocks /\ frame_index' = frame_index /\ host' = host
      /\ segment_index' = segment_index /\ window' = window
      /\ call.state = "open" /\ Running
  BY DEF Finish, Running, sessionVars, vars
<1>2. /\ CallInv /\ SegmentInv /\ ScratchInv
      /\ WindowOf(window, host.clock, Len(emitted))
  BY DEF BindingsInv
<1>3. /\ call' = [call EXCEPT !.state = "ok"] /\ Len(call.got) = call.want
      /\ call.got = Taken
      /\ qr_scratch' = IF host.api = "scratch"
                       THEN [qr_scratch EXCEPT !.count = Len(call.got)] ELSE qr_scratch
  BY <1>1, <1>2 DEF Finish, CallInv
<1>4. /\ call'.state = "ok" /\ call'.got = call.got /\ call'.want = call.want
      /\ call'.start = call.start
      /\ call' \in [state : {"open", "ok", "failed"}, want : Nat, room : Nat, slot : BOOLEAN,
                    start : Nat, got : Seq(AnyFrame)]
  BY <1>2, <1>3 DEF CallInv
<1>5. Taken' = Taken
  BY <1>1, <1>4 DEF Taken
<1>6. SegmentInv'
  BY <1>1, <1>2 DEF SegmentInv, SegmentCount
<1>7. CallInv'
  BY <1>1, <1>2, <1>4 DEF CallInv, Running, Renders
<1>8. CASE host.api # "scratch"
  <2>1. ScratchInv'
    BY <1>1, <1>2, <1>3, <1>4, <1>8 DEF ScratchInv, Running
  <2>2. HandsOutWhatItTakes'
    BY <1>1, <1>3, <1>4, <1>5, <1>8 DEF HandsOutWhatItTakes, Found
  <2>. QED  BY <1>1, <1>2, <1>6, <1>7, <2>1, <2>2 DEF CallParts
<1>9. CASE host.api = "scratch"
  <2>1. /\ call.got \in Seq(AnyFrame) /\ Len(call.got) \in Nat
        /\ call.want <= ScratchCodes /\ ScratchCodes \in Nat
        /\ qr_scratch.codes \in Seq(AnyFrame) /\ Len(call.got) <= Len(qr_scratch.codes)
        /\ \A i \in 1..Len(call.got) : qr_scratch.codes[i] = call.got[i]
    BY <1>1, <1>2, <1>9, BindingsAssumption, LenProperties DEF CallInv, ScratchInv
  <2>2. /\ qr_scratch'.count = Len(call.got) /\ qr_scratch'.codes = qr_scratch.codes
        /\ qr_scratch' \in [count : 0..ScratchCodes, codes : Seq(AnyFrame)]
    BY <1>2, <1>3, <1>9, <2>1 DEF ScratchInv
  <2>3. ScratchInv'
    BY <1>1, <1>2, <1>4, <2>1, <2>2 DEF ScratchInv, Running
  <2>4. SubSeq(qr_scratch.codes, 1, Len(call.got)) = call.got
    BY <2>1, FirstCodes
  <2>5. HandsOutWhatItTakes'
    BY <1>1, <1>3, <1>5, <1>9, <2>2, <2>4 DEF HandsOutWhatItTakes, Found
  <2>. QED  BY <1>1, <1>2, <1>6, <1>7, <2>3, <2>5 DEF CallParts
<1>. QED  BY <1>8, <1>9

\* Another segment plays: nothing was taken from its session yet.
LEMMA StepSelect ==
  ASSUME BindingsInv, NEW index \in 0..SegmentCount, SelectSegment(index)
  PROVE  CallParts'
<1>1. /\ emitted' = <<>> /\ blocks' = host.file[index + 1] /\ frame_index' = 0
      /\ host' = host /\ segment_index' = index /\ window' = <<>>
      /\ qr_scratch' = qr_scratch /\ host.api = "c" /\ index < SegmentCount /\ call' = NoCall
  BY DEF SelectSegment
<1>2. host \in Hosts /\ ScratchInv
  BY DEF BindingsInv, IInv
<1>3. Len(emitted') = 0 /\ <<>> \in Seq(AnyFrame) /\ Len(<<>>) = 0
  BY <1>1, EmptySeq
<1>4. /\ call'.state = "ok" /\ call'.got = <<>> /\ call'.want = 0 /\ call'.start = 0
      /\ ~Running'
      /\ call' \in [state : {"open", "ok", "failed"}, want : Nat, room : Nat, slot : BOOLEAN,
                    start : Nat, got : Seq(AnyFrame)]
  BY <1>1, <1>3 DEF NoCall, Running
<1>5. SegmentInv'
  BY <1>1, <1>2, <1>3, HostType DEF SegmentInv, SegmentCount
<1>6. CallInv'
  BY <1>1, <1>3, <1>4 DEF CallInv
<1>7. ScratchInv'
  BY <1>1, <1>2, <1>4 DEF ScratchInv
<1>8. WindowOf(window, host.clock, Len(emitted))'
  BY <1>1, <1>3, EmptyWindow
<1>9. HandsOutWhatItTakes'
  <2>1. Taken' = <<>>
    BY <1>1, <1>3, <1>4, SubSeqEmpty DEF Taken
  <2>. QED  BY <1>1, <1>4, <2>1 DEF HandsOutWhatItTakes, Found
<1>. QED  BY <1>5, <1>6, <1>7, <1>8, <1>9 DEF CallParts

\* A step of the cadence only, or none.
LEMMA StepElsewhere ==
  ASSUME BindingsInv, emitted' = emitted, blocks' = blocks, frame_index' = frame_index,
         host' = host, segment_index' = segment_index, window' = window,
         qr_scratch' = qr_scratch, call' = call
  PROVE  CallParts'
<1>1. /\ CallInv /\ SegmentInv /\ ScratchInv /\ HandsOutWhatItTakes
      /\ WindowOf(window, host.clock, Len(emitted))
  BY DEF BindingsInv
<1>2. Taken' = Taken /\ Found' = Found
  BY DEF Taken, Found
<1>3. SegmentInv' /\ ScratchInv'
  BY <1>1 DEF SegmentInv, SegmentCount, ScratchInv, Running
<1>4. CallInv'
  BY <1>1, <1>2 DEF CallInv, Running, Renders
<1>5. HandsOutWhatItTakes'
  BY <1>1, <1>2 DEF HandsOutWhatItTakes
<1>. QED  BY <1>1, <1>3, <1>4, <1>5 DEF CallParts

LEMMA StepBindings == BindingsInv /\ [BNext]_bindingVars => BindingsInv'
<1> SUFFICES ASSUME BindingsInv, [BNext]_bindingVars PROVE CallParts'
  BY StepInv DEF BindingsInv, CallParts
<1>1. ASSUME NEW count \in Counts, NEW room \in Rooms, NEW slot \in BOOLEAN,
             Call(count, room, slot)
      PROVE  CallParts'
  BY <1>1, StepCall
<1>2. CASE HandOver
  BY <1>2, StepHandOver
<1>3. CASE EncodeFails \/ Overflows
  BY <1>3, StepLost
<1>4. CASE RunsOut
  BY <1>4, StepRunsOut
<1>5. CASE Finish
  BY <1>5, StepFinish
<1>6. ASSUME NEW index \in 0..SegmentCount, SelectSegment(index) PROVE CallParts'
  BY <1>6, StepSelect
<1>7. ASSUME NEW interval \in Intervals, SetInterval(interval) PROVE CallParts'
  <2>1. UNCHANGED <<emitted, blocks, frame_index, host, segment_index, window, qr_scratch, call>>
    BY <1>7 DEF SetInterval, SetDescriptorInterval
  <2>. QED  BY <2>1, StepElsewhere
<1>8. CASE UNCHANGED bindingVars
  <2>1. UNCHANGED <<emitted, blocks, frame_index, host, segment_index, window, qr_scratch, call>>
    BY <1>8 DEF bindingVars, vars
  <2>. QED  BY <2>1, StepElsewhere
<1>. QED  BY <1>1, <1>2, <1>3, <1>4, <1>5, <1>6, <1>7, <1>8 DEF BNext

LEMMA BindingsInvariant == BSpec => []BindingsInv
BY InitBindings, StepBindings, PTL DEF BSpec

\* Each variable keeps its type, the scratch is never written behind the last of
\* its codes, and the segment the handle names is the one whose session plays,
\* also after any number of airferry_sender_select_segment, in range or not.
THEOREM BindingsTyped == BSpec => []BindingsTypeOK
BY BindingsInvariant, BindingsType, PTL

\* No binding loses or repeats a symbol in silence: a call that hands out codes
\* hands out every frame it took from next_frame, in the order of the stream,
\* and the reused scratch shows that batch alone, for any batch size and buffer.
THEOREM NoSilentLoss == BSpec => []HandsOutWhatItTakes
<1>1. BindingsInv => HandsOutWhatItTakes
  BY DEF BindingsInv
<1>. QED  BY <1>1, BindingsInvariant, PTL

LEMMA LiveRates == BindingsInv => RateIsLive
<1> SUFFICES ASSUME BindingsInv PROVE RateIsLive
  OBVIOUS
<1> DEFINE n     == Len(emitted)
           clock == host.clock
           time  == [i \in 1..n |-> clock[i]]
           last  == IF emitted = <<>> THEN 0 ELSE time[n]
<1>1. /\ host \in Hosts /\ frame_index = n /\ frame_index \in 0..MaxFrames
      /\ MaxFrames \in Nat /\ Window \in Nat /\ StreamInv /\ WindowOf(window, clock, n)
  BY SenderAssumption, BindingsAssumption DEF BindingsInv, IInv, SegmentInv
<1>2. Clock(clock) /\ n \in 0..MaxFrames
  BY <1>1, HostType
<1>3. n > 0 => clock[n] \in Nat /\ last = clock[n]
  <2> SUFFICES ASSUME n > 0 PROVE clock[n] \in Nat /\ last = clock[n]
    OBVIOUS
  <2>1. n \in 1..n /\ n \in 1..MaxFrames
    BY <1>1, <1>2
  <2>2. emitted # <<>>
    BY <1>1, <2>1, StreamFrames, EmptySeq
  <2>. QED  BY <1>2, <2>1, <2>2 DEF Clock
<1>4. n = 0 => last = 0
  BY <1>1, StreamFrames, EmptySeq
<1>5. last \in Nat /\ (n > 0 => clock[n] <= last)
  BY <1>2, <1>3, <1>4
<1>6. Len(window) <= MaxSamples
  BY <1>1 DEF WindowOf
<1>7. ASSUME NEW now \in last..(last + Window + 1),
             Cardinality({i \in DOMAIN time : now <= time[i] + Window}) <= MaxSamples
      PROVE  Shown(window, now) =
               IF /\ {i \in DOMAIN time : now <= time[i] + Window} # {}
                  /\ time[Min({i \in DOMAIN time : now <= time[i] + Window})] < last
               THEN [frames |-> Cardinality({i \in DOMAIN time : now <= time[i] + Window}),
                     span |-> last - time[Min({i \in DOMAIN time : now <= time[i] + Window})]]
               ELSE [frames |-> n, span |-> Elapsed(now)]
  <2> DEFINE recent == {i \in 1..n : now <= clock[i] + Window}
             first  == Min(recent)
  <2>1. {i \in DOMAIN time : now <= time[i] + Window} = recent
    OBVIOUS
  <2>2. now \in Nat /\ (n > 0 => clock[n] <= now)
    BY <1>1, <1>5
  <2>3. Cardinality(recent) <= MaxSamples
    BY <1>7, <2>1
  <2>4. IsFiniteSet(recent) /\ recent \in SUBSET Nat
    <3>1. 1 \in Int /\ n \in Int
      BY <1>1, <1>2
    <3>2. IsFiniteSet(1..n)
      BY <3>1, FS_Interval
    <3>3. recent \in SUBSET (1..n)
      OBVIOUS
    <3>4. recent \in SUBSET Nat
      BY <1>1, <1>2
    <3>. HIDE DEF n, recent
    <3>. QED  BY <3>2, <3>3, <3>4, FS_Subset
  <2>5. recent # {} =>
          /\ last = clock[n] /\ first \in recent /\ first \in 1..n
          /\ time[first] = clock[first] /\ clock[first] \in Nat /\ clock[first] <= last
          /\ n \in recent /\ clock[n] \in Nat
    <3> SUFFICES ASSUME recent # {}
                 PROVE  /\ last = clock[n] /\ first \in recent /\ first \in 1..n
                        /\ time[first] = clock[first] /\ clock[first] \in Nat
                        /\ clock[first] <= last
                        /\ n \in recent /\ clock[n] \in Nat
      OBVIOUS
    <3>1. first \in recent
      <4>. HIDE DEF recent
      <4>. QED  BY <2>4, MaxMin
    <3>2. first \in 1..n /\ now <= clock[first] + Window
      BY <3>1
    <3>3. n > 0 /\ n \in 1..n /\ first <= n
      BY <1>2, <3>2
    <3>4. clock[first] \in Nat /\ clock[n] \in Nat /\ clock[first] <= clock[n]
      <4>1. first \in 1..MaxFrames /\ n \in 1..MaxFrames
        BY <1>1, <1>2, <3>2, <3>3
      <4>. HIDE DEF first, n, clock
      <4>. QED  BY <1>2, <3>3, <4>1 DEF Clock
    <3>5. last = clock[n]
      BY <1>3, <3>3
    <3>6. time[first] = clock[first]
      BY <3>2
    <3>7. n \in recent
      <4>. HIDE DEF first, last
      <4>. QED  BY <1>1, <2>2, <3>2, <3>3, <3>4
    <3>. HIDE DEF first, last, time, clock, n, recent
    <3>. QED  BY <3>1, <3>2, <3>4, <3>5, <3>6, <3>7
  <2>6. Rates(window, now) =
          [frames |-> Cardinality(recent),
           span   |-> IF recent = {} THEN 0 ELSE clock[n] - clock[first]]
    <3>. HIDE DEF clock, n
    <3> DEFINE given == recent
    <3>1. given = {i \in 1..n : now <= clock[i] + Window} /\ Cardinality(given) <= MaxSamples
      BY <2>3
    <3>. HIDE DEF given
    <3>2. Rates(window, now) =
            [frames |-> Cardinality(given),
             span   |-> IF given = {} THEN 0 ELSE clock[n] - clock[Min(given)]]
      BY <1>1, <1>2, <2>2, <3>1, RatesOfWindow
    <3>. QED  BY <3>2 DEF given
  <2>. HIDE DEF recent, first, last, time, clock, n
  <2>7. CASE recent # {} /\ time[first] < last
    <3>1. first # n
      BY <2>5, <2>7
    <3>2. Cardinality({first, n}) = 2
      <4>1. IsFiniteSet({n}) /\ Cardinality({n}) = 1
        BY FS_Singleton
      <4>2. first \notin {n}
        BY <3>1
      <4>3. Cardinality({n} \cup {first}) = 2
        BY <4>1, <4>2, FS_AddElement
      <4>4. {first, n} = {n} \cup {first}
        OBVIOUS
      <4>. QED  BY <4>3, <4>4
    <3>3. {first, n} \in SUBSET recent
      BY <2>5, <2>7
    <3>4. Cardinality(recent) >= 2
      BY <2>4, <3>2, <3>3, FS_Subset
    <3>5. Cardinality(recent) \in Nat /\ clock[n] - clock[first] > 0
      BY <2>4, <2>5, <2>7, FS_CardinalityType
    <3>6. ~FallsBack(window, now)
      BY <2>6, <2>7, <3>4, <3>5 DEF FallsBack
    <3>. QED  BY <2>1, <2>5, <2>6, <2>7, <3>6 DEF Shown, first
  <2>8. CASE ~(recent # {} /\ time[first] < last)
    <3>1. Rates(window, now).span = 0
      BY <2>5, <2>6, <2>8
    <3>. QED  BY <1>1, <2>1, <2>8, <3>1 DEF FallsBack, Shown, first
  <2>. QED  BY <2>7, <2>8
<1>. QED  BY <1>6, <1>7 DEF RateIsLive

\* For any times of the frames, window and limit of samples: where the window has
\* two frames of different times the rates shown are theirs, and otherwise those of
\* the session; push_sample_at evicts no sample that a later window_rates counts,
\* unless there are more than the limit of them.
THEOREM RatesOfRecent == BSpec => []RateIsLive
BY BindingsInvariant, LiveRates, PTL

----------------------------------------------------------------------------
(* No block is left behind. *)

\* Quotient and remainder are those of one division only.
LEMMA OneDivision ==
  ASSUME NEW n \in Nat \ {0}, NEW p \in Nat, NEW q \in Nat,
         NEW r \in 0..(n - 1), NEW s \in 0..(n - 1), n * p + r = n * q + s
  PROVE  p = q /\ r = s
<1>1. ASSUME NEW x \in Nat, NEW y \in Nat, x < y PROVE n * x + n <= n * y
  <2>1. x + 1 <= y /\ y - (x + 1) \in Nat
    BY <1>1
  <2>2. n * (y - (x + 1)) \in Nat
    BY <2>1
  <2>3. n * y = n * (x + 1) + n * (y - (x + 1)) /\ n * (x + 1) = n * x + n
    BY <2>1
  <2>4. n * x \in Nat /\ n * y \in Nat /\ n * (x + 1) \in Nat
    OBVIOUS
  <2>. QED  BY <2>2, <2>3, <2>4
<1>2. n * p \in Nat /\ n * q \in Nat
  OBVIOUS
<1>3. ~(p < q) /\ ~(q < p)
  BY <1>1, <1>2
<1>4. p = q
  BY <1>3
<1>. QED  BY <1>2, <1>4

\* The repair symbols block b has after c of them, round robin over n blocks.
Turns(c, n, b) == (c \div n) + (IF b < (c % n) THEN 1 ELSE 0)

LEMMA NextTurn ==
  ASSUME NEW n \in Nat \ {0}, NEW c \in Nat, NEW b \in 0..(n - 1)
  PROVE  /\ Turns(c, n, b) \in Nat
         /\ Turns(c + 1, n, b) = Turns(c, n, b) + (IF b = c % n THEN 1 ELSE 0)
<1> DEFINE q == c \div n
           r == c % n
           p == (c + 1) \div n
           t == (c + 1) % n
<1>1. r \in 0..(n - 1) /\ q \in Nat /\ c = n * q + r
  BY Division
<1>2. t \in 0..(n - 1) /\ p \in Nat /\ c + 1 = n * p + t
  <2>1. c + 1 \in Nat
    OBVIOUS
  <2>. QED  BY <2>1, Division
<1>3. /\ Turns(c, n, b) = q + (IF b < r THEN 1 ELSE 0)
      /\ Turns(c + 1, n, b) = p + (IF b < t THEN 1 ELSE 0)
  BY DEF Turns
<1>. HIDE DEF q, r, p, t
<1>4. CASE r = n - 1
  <2>1. n * (q + 1) = n * q + n /\ n * q \in Nat
    BY <1>1
  <2>2. n * p + t = n * (q + 1) + 0 /\ q + 1 \in Nat /\ 0 \in 0..(n - 1)
    BY <1>1, <1>2, <1>4, <2>1
  <2>3. p = q + 1 /\ t = 0
    BY <1>2, <2>2, OneDivision
  <2>. QED  BY <1>1, <1>3, <1>4, <2>3 DEF r
<1>5. CASE r # n - 1
  <2>1. n * p + t = n * q + (r + 1) /\ r + 1 \in 0..(n - 1)
    BY <1>1, <1>2, <1>5
  <2>2. p = q /\ t = r + 1
    BY <1>1, <1>2, <2>1, OneDivision
  <2>3. Turns(c, n, b) = q + (IF b < r THEN 1 ELSE 0)
        /\ Turns(c + 1, n, b) = q + (IF b < r + 1 THEN 1 ELSE 0)
    BY <1>3, <2>2
  <2>4. b < r + 1 <=> b < r \/ b = r
    BY <1>1
  <2>5. ~(b < r /\ b = r)
    BY <1>1
  <2>6. Turns(c, n, b) \in Nat
    BY <1>1, <2>3
  <2>7. Turns(c + 1, n, b) = Turns(c, n, b) + (IF b = r THEN 1 ELSE 0)
    BY <1>1, <2>3, <2>4, <2>5
  <2>. QED  BY <2>6, <2>7 DEF r
<1>. QED  BY <1>4, <1>5

\* One more symbol of one block.
LEMMA OneMoreSent ==
  ASSUME CursorsInv, NEW id \in Nat \X Nat, DataFrame(id) \in FrameSet,
         emitted' = Append(emitted, DataFrame(id)), blocks' = blocks
  PROVE  \A b : Sent(b) \in Nat /\ Sent(b)' = Sent(b) + (IF b = id[1] THEN 1 ELSE 0)
<1> SUFFICES ASSUME NEW b
             PROVE  Sent(b) \in Nat /\ Sent(b)' = Sent(b) + (IF b = id[1] THEN 1 ELSE 0)
  OBVIOUS
<1> DEFINE of  == {i \in Data : emitted[i].sbn = b}
           new == Len(emitted) + 1
<1>1. /\ Len(emitted) \in Nat /\ Data \subseteq 1..Len(emitted) /\ Data' = Data \cup {new}
      /\ \A i \in Data : emitted'[i] = emitted[i]
      /\ emitted'[new] = DataFrame(id)
  <2>1. DataFrame(id).kind = "data"
    BY DEF DataFrame
  <2>. QED  BY <2>1, Added
<1>2. new \notin Data /\ DataFrame(id).sbn = id[1]
  BY <1>1 DEF DataFrame
<1>3. of' = IF b = id[1] THEN of \cup {new} ELSE of
  <2>1. of' = {i \in Data \cup {new} : emitted'[i].sbn = b}
    BY <1>1
  <2>. QED  BY <1>1, <1>2, <2>1
<1>4. IsFiniteSet(of)
  <2>1. 1 \in Int /\ Len(emitted) \in Int
    BY <1>1
  <2>2. IsFiniteSet(1..Len(emitted)) /\ of \in SUBSET (1..Len(emitted))
    BY <1>1, <2>1, FS_Interval
  <2>. QED  BY <2>2, FS_Subset
<1>5. new \notin of
  BY <1>2
<1>6. Sent(b) = Cardinality(of) /\ Sent(b)' = Cardinality(of')
  BY DEF Sent
<1>. HIDE DEF of, new
<1>7. Cardinality(of) \in Nat
  BY <1>4, FS_CardinalityType
<1>8. Cardinality(of \cup {new}) = Cardinality(of) + 1
  BY <1>4, <1>5, FS_AddElement
<1>. QED  BY <1>3, <1>6, <1>7, <1>8

LEMMA TurnsRange ==
  ASSUME NEW n \in Nat \ {0}, NEW c \in Nat, NEW b \in 0..(n - 1)
  PROVE  /\ c \div n \in Nat /\ c % n \in 0..(n - 1)
         /\ Turns(c, n, b) \in {c \div n, (c \div n) + 1}
<1>1. c \div n \in Nat /\ c % n \in 0..(n - 1)
  BY Division
<1> DEFINE q == c \div n
           t == IF b < (c % n) THEN 1 ELSE 0
<1>2. Turns(c, n, b) = q + t /\ t \in {0, 1}
  BY DEF Turns
<1>. HIDE DEF q, t
<1>3. q + t \in {q, q + 1}
  BY <1>1, <1>2 DEF q
<1>. QED  BY <1>1, <1>2, <1>3 DEF q

LEMMA FirstTurn ==
  ASSUME NEW n \in Nat \ {0}, NEW b \in Nat
  PROVE  Turns(0, n, b) = 0
<1>1. 0 % n \in 0..(n - 1) /\ 0 \div n \in Nat /\ 0 = n * (0 \div n) + (0 % n)
  BY Division
<1>2. n * 0 + 0 = n * (0 \div n) + (0 % n) /\ 0 \in 0..(n - 1)
  BY <1>1
<1>3. 0 \div n = 0 /\ 0 % n = 0
  BY <1>1, <1>2, OneDivision
<1>. QED  BY <1>3 DEF Turns

\* During the source pass a block has sent its symbols up to the cursor, after
\* it all of them and its turns of the repair phase.  The sender gives up only
\* after the source pass, when a block has no repair symbol left.
SentInv ==
  /\ \A b \in Blocks : Sent(b) \in Nat
  /\ repair_cursor = 0 =>
       \A b \in Blocks :
         /\ Sent(b) <= blocks[b]
         /\ \A e \in 0..(blocks[b] - 1) :
              Rank(SourceIds, <<b, e>>) < source_cursor <=> e < Sent(b)
  /\ source_cursor = Cardinality(SourceIds) =>
       \A b \in Blocks : Sent(b) = blocks[b] + Turns(repair_cursor, Cardinality(Blocks), b)
  /\ exhausted => SourcePassOver /\ ~InEsiSpace(RepairId(repair_cursor))

\* The symbols of a layout, by block.
LEMMA SourceMember ==
  ASSUME blocks \in Layouts, NEW b \in Blocks, NEW e \in 0..(blocks[b] - 1)
  PROVE  /\ <<b, e>> \in SourceIds
         /\ Rank(SourceIds, <<b, e>>) \in 0..(Cardinality(SourceIds) - 1)
<1>1. SourceIds \in SUBSET (Nat \X Nat) /\ IsFiniteSet(SourceIds)
  BY SourceType
<1>2. <<b, e>> \in SourceIds
  BY DEF SourceIds
<1>. QED  BY <1>1, <1>2, RankType

LEMMA SourceNotEmpty ==
  ASSUME blocks \in Layouts
  PROVE  Cardinality(SourceIds) \in Nat \ {0}
<1>1. /\ Cardinality(SourceIds) \in Nat /\ Cardinality(Blocks) \in Nat \ {0}
      /\ Blocks = 0..(Cardinality(Blocks) - 1)
      /\ \A sbn \in Blocks : blocks[sbn] \in 1..EsiLimit
  BY SourceType
<1>2. EsiLimit \in Nat
  BY SenderAssumption
<1>3. 0 \in Blocks
  BY <1>1
<1>4. 0 \in 0..(blocks[0] - 1)
  BY <1>1, <1>2, <1>3
<1>5. Rank(SourceIds, <<0, 0>>) \in 0..(Cardinality(SourceIds) - 1)
  BY <1>3, <1>4, SourceMember
<1>. QED  BY <1>1, <1>5

LEMMA InitSent ==
  ASSUME blocks \in Layouts, source_cursor = 0, repair_cursor = 0, emitted = <<>>,
         exhausted = FALSE
  PROVE  SentInv
<1>1. \A b : Sent(b) = 0
  <2>1. Data = {}
    BY DEF Data
  <2>. QED  BY <2>1, FS_EmptySet DEF Sent
<1>2. ASSUME NEW b \in Blocks
      PROVE  /\ blocks[b] \in Nat
             /\ \A e \in 0..(blocks[b] - 1) : ~(Rank(SourceIds, <<b, e>>) < 0) /\ ~(e < 0)
  <2>1. blocks[b] \in Nat /\ Cardinality(SourceIds) \in Nat
    BY SourceType, SenderAssumption
  <2>2. \A e \in 0..(blocks[b] - 1) :
          Rank(SourceIds, <<b, e>>) \in 0..(Cardinality(SourceIds) - 1)
    BY SourceMember
  <2>. QED  BY <2>1, <2>2
<1>3. source_cursor # Cardinality(SourceIds)
  BY SourceNotEmpty
<1>. QED  BY <1>1, <1>2, <1>3 DEF SentInv

\* Nothing of the session but its cadence changes, or a descriptor is shown.
LEMMA SameSent ==
  ASSUME SentInv, UNCHANGED <<blocks, source_cursor, repair_cursor>>,
         \A b : Sent(b)' = Sent(b), exhausted' => exhausted
  PROVE  SentInv'
<1>1. /\ SourceIds' = SourceIds /\ Blocks' = Blocks
      /\ RepairId(repair_cursor)' = RepairId(repair_cursor)
  BY SamePlan
<1>2. SourcePassOver' = SourcePassOver
      /\ InEsiSpace(RepairId(repair_cursor))' = InEsiSpace(RepairId(repair_cursor))
  BY <1>1 DEF SourcePassOver, InEsiSpace
<1>3. (\A b \in Blocks : Sent(b) \in Nat)'
  BY <1>1 DEF SentInv
<1>4. (repair_cursor = 0 =>
         \A b \in Blocks :
           /\ Sent(b) <= blocks[b]
           /\ \A e \in 0..(blocks[b] - 1) :
                Rank(SourceIds, <<b, e>>) < source_cursor <=> e < Sent(b))'
  BY <1>1 DEF SentInv, Rank, Before
<1>5. (source_cursor = Cardinality(SourceIds) =>
         \A b \in Blocks : Sent(b) = blocks[b] + Turns(repair_cursor, Cardinality(Blocks), b))'
  BY <1>1 DEF SentInv, Turns
<1>6. (exhausted => SourcePassOver /\ ~InEsiSpace(RepairId(repair_cursor)))'
  BY <1>2 DEF SentInv
<1>. QED  BY <1>3, <1>4, <1>5, <1>6 DEF SentInv

LEMMA SentDescriptor == StreamInv /\ SentInv /\ NextDescriptor => SentInv'
<1> SUFFICES ASSUME StreamInv, SentInv, NextDescriptor PROVE SentInv'
  OBVIOUS
<1>1. /\ emitted' = Append(emitted, DescriptorFrame) /\ exhausted' = FALSE
      /\ UNCHANGED <<blocks, source_cursor, repair_cursor>>
  BY DEF NextDescriptor, Return
<1>2. DescriptorFrame \in FrameSet /\ DescriptorFrame.kind # "data"
  BY SymbolType DEF StreamInv, CursorsInv, DescriptorFrame
<1>3. Data' = Data /\ \A i \in Data : emitted'[i] = emitted[i]
  BY <1>1, <1>2, Added DEF StreamInv
<1>4. \A b : Sent(b)' = Sent(b)
  BY <1>3 DEF Sent
<1>. QED  BY <1>1, <1>4, SameSent

\* The symbol shown next in the source pass is the next one of its block.
LEMMA SentSource == StreamInv /\ SentInv /\ NextSource => SentInv'
<1> SUFFICES ASSUME StreamInv, SentInv, NextSource PROVE SentInv'
  OBVIOUS
<1> DEFINE id   == PlanEntry(source_cursor)
           rank == [x \in SourceIds |-> Rank(SourceIds, x)]
           all  == Cardinality(SourceIds)
<1>1. /\ emitted' = Append(emitted, DataFrame(id)) /\ exhausted' = FALSE
      /\ blocks' = blocks /\ repair_cursor' = repair_cursor
      /\ source_cursor' = source_cursor + 1 /\ ~SourcePassOver
  BY DEF NextSource, Return
<1>2. /\ blocks \in Layouts /\ all \in Nat /\ source_cursor \in 0..(all - 1)
      /\ repair_cursor = 0 /\ CursorsInv
  <2>1. /\ blocks \in Layouts /\ source_cursor \in 0..all /\ repair_cursor \in Nat
        /\ repair_cursor > 0 => source_cursor = all
    BY DEF StreamInv, CursorsInv
  <2>2. all \in Nat
    BY <2>1, SourceType
  <2>. QED  BY <1>1, <2>1, <2>2 DEF StreamInv, SourcePassOver
<1>3. /\ id \in SourceIds /\ id \in Nat \X Nat /\ DataFrame(id) \in FrameSet
      /\ Rank(SourceIds, id) = source_cursor
  BY <1>2, SymbolType, Plan
<1>. HIDE DEF id
<1>4. /\ SourceIds \in SUBSET (Nat \X Nat) /\ IsFiniteSet(SourceIds)
      /\ id[1] \in Blocks /\ id[2] < blocks[id[1]] /\ id[1] \in Nat /\ id[2] \in Nat
      /\ id = <<id[1], id[2]>>
      /\ \A b \in Blocks : b \in Nat /\ blocks[b] \in Nat
  <2>1. /\ Blocks = 0..(Cardinality(Blocks) - 1) /\ Cardinality(Blocks) \in Nat
        /\ \A b \in Blocks : blocks[b] \in 1..EsiLimit
        /\ EsiLimit \in Nat
    BY <1>2, SourceType, SenderAssumption
  <2>2. \A b \in Blocks : b \in Nat /\ blocks[b] \in Nat
    BY <2>1
  <2>. QED  BY <1>2, <1>3, <2>2, SourceType
<1>5. \A b : Sent(b) \in Nat /\ Sent(b)' = Sent(b) + (IF b = id[1] THEN 1 ELSE 0)
  BY <1>1, <1>2, <1>3, OneMoreSent
<1>6. \A b \in Blocks :
        /\ Sent(b) <= blocks[b]
        /\ \A e \in 0..(blocks[b] - 1) :
             Rank(SourceIds, <<b, e>>) < source_cursor <=> e < Sent(b)
  BY <1>2 DEF SentInv
<1>7. \A b \in Blocks : \A e \in 0..(blocks[b] - 1) :
        /\ <<b, e>> \in SourceIds
        /\ Rank(SourceIds, <<b, e>>) \in 0..(all - 1)
        /\ Rank(SourceIds, <<b, e>>) = source_cursor => <<b, e>> = id
  <2> SUFFICES ASSUME NEW b \in Blocks, NEW e \in 0..(blocks[b] - 1)
               PROVE  /\ <<b, e>> \in SourceIds
                      /\ Rank(SourceIds, <<b, e>>) \in 0..(all - 1)
                      /\ Rank(SourceIds, <<b, e>>) = source_cursor => <<b, e>> = id
    OBVIOUS
  <2>1. <<b, e>> \in SourceIds /\ Rank(SourceIds, <<b, e>>) \in 0..(all - 1)
    BY <1>2, SourceMember
  <2>. QED  BY <1>3, <1>4, <2>1, RankType
<1>8. Sent(id[1]) = id[2]
  <2>1. id[2] \in 0..(blocks[id[1]] - 1)
    BY <1>4
  <2>2. ~(id[2] < Sent(id[1]))
    BY <1>2, <1>3, <1>4, <1>6, <2>1
  <2>3. ASSUME id[2] > Sent(id[1]) PROVE FALSE
    <3> DEFINE e == Sent(id[1])
    <3>1. e \in 0..(blocks[id[1]] - 1) /\ e < id[2]
      BY <1>4, <1>5, <2>3
    <3>. HIDE DEF e
    <3>2. <<id[1], e>> \in SourceIds
      BY <1>4, <1>7, <3>1
    <3>3. Before(<<id[1], e>>, id)
      BY <3>1 DEF Before
    <3>4. Rank(SourceIds, <<id[1], e>>) < source_cursor
      BY <1>3, <1>4, <3>2, <3>3, RankOrder
    <3>5. e < Sent(id[1])
      BY <1>4, <1>6, <3>1, <3>4
    <3>. QED  BY <1>5, <3>5 DEF e
  <2>. QED  BY <1>4, <1>5, <2>2, <2>3
<1>9. /\ SourceIds' = SourceIds /\ Blocks' = Blocks
  BY <1>1, SamePlan
<1>10. ASSUME NEW b \in Blocks
       PROVE  /\ Sent(b)' \in Nat /\ Sent(b)' <= blocks[b]
              /\ \A e \in 0..(blocks[b] - 1) :
                   Rank(SourceIds, <<b, e>>) < source_cursor + 1 <=> e < Sent(b)'
  <2>1. CASE b = id[1]
    <3>1. Sent(b)' = id[2] + 1 /\ Sent(b) = id[2]
      BY <1>4, <1>5, <1>8, <2>1
    <3>2. ASSUME NEW e \in 0..(blocks[b] - 1)
          PROVE  Rank(SourceIds, <<b, e>>) < source_cursor + 1 <=> e < Sent(b)'
      <4>1. Rank(SourceIds, <<b, e>>) < source_cursor <=> e < id[2]
        BY <1>6, <3>1, <3>2
      <4>2. Rank(SourceIds, <<b, e>>) = source_cursor <=> e = id[2]
        BY <1>3, <1>4, <1>7, <2>1
      <4>3. Rank(SourceIds, <<b, e>>) \in Nat /\ source_cursor \in Nat /\ e \in Nat
        BY <1>2, <1>4, <1>7
      <4>. QED  BY <1>4, <3>1, <4>1, <4>2, <4>3
    <3>. QED  BY <1>4, <2>1, <3>1, <3>2
  <2>2. CASE b # id[1]
    <3>1. Sent(b)' = Sent(b) /\ Sent(b) \in Nat
      BY <1>5, <2>2
    <3>2. ASSUME NEW e \in 0..(blocks[b] - 1)
          PROVE  Rank(SourceIds, <<b, e>>) < source_cursor + 1 <=> e < Sent(b)'
      <4>1. Rank(SourceIds, <<b, e>>) # source_cursor
        BY <1>7, <2>2
      <4>2. Rank(SourceIds, <<b, e>>) \in Nat /\ source_cursor \in Nat
        BY <1>2, <1>7
      <4>3. Rank(SourceIds, <<b, e>>) < source_cursor <=> e < Sent(b)
        BY <1>6
      <4>. QED  BY <3>1, <4>1, <4>2, <4>3
    <3>. QED  BY <1>6, <3>1, <3>2
  <2>. QED  BY <2>1, <2>2
<1>11. ASSUME source_cursor + 1 = all, NEW b \in Blocks
       PROVE  Sent(b)' = blocks[b] + Turns(repair_cursor, Cardinality(Blocks), b)
  <2>1. blocks[b] \in 1..EsiLimit /\ EsiLimit \in Nat /\ Cardinality(Blocks) \in Nat \ {0}
    BY <1>2, SourceType, SenderAssumption
  <2>2. blocks[b] - 1 \in 0..(blocks[b] - 1)
    BY <2>1
  <2>3. Rank(SourceIds, <<b, blocks[b] - 1>>) \in 0..(all - 1)
    BY <1>7, <2>2
  <2>4. Rank(SourceIds, <<b, blocks[b] - 1>>) < source_cursor + 1
    BY <1>2, <1>11, <2>3
  <2>5. blocks[b] - 1 < Sent(b)' /\ Sent(b)' \in Nat /\ Sent(b)' <= blocks[b]
    BY <1>10, <2>2, <2>4
  <2>6. Sent(b)' = blocks[b]
    BY <1>4, <2>5
  <2>7. Turns(repair_cursor, Cardinality(Blocks), b) = 0
    BY <1>2, <1>4, <2>1, FirstTurn
  <2>. QED  BY <1>4, <2>6, <2>7
<1>. HIDE DEF all
<1>12. (\A b \in Blocks : Sent(b) \in Nat)'
  BY <1>9, <1>10
<1>13. (repair_cursor = 0 =>
         \A b \in Blocks :
           /\ Sent(b) <= blocks[b]
           /\ \A e \in 0..(blocks[b] - 1) :
                Rank(SourceIds, <<b, e>>) < source_cursor <=> e < Sent(b))'
  BY <1>1, <1>9, <1>10 DEF Rank, Before
<1>14. (source_cursor = Cardinality(SourceIds) =>
         \A b \in Blocks : Sent(b) = blocks[b] + Turns(repair_cursor, Cardinality(Blocks), b))'
  BY <1>1, <1>9, <1>11 DEF Turns, all
<1>. QED  BY <1>1, <1>12, <1>13, <1>14 DEF SentInv

\* A repair symbol is the next turn of its block.
LEMMA SentRepair == StreamInv /\ SentInv /\ NextRepair => SentInv'
<1> SUFFICES ASSUME StreamInv, SentInv, NextRepair PROVE SentInv'
  OBVIOUS
<1> DEFINE n  == Cardinality(Blocks)
           id == RepairId(repair_cursor)
<1>1. /\ emitted' = Append(emitted, DataFrame(id)) /\ exhausted' = FALSE
      /\ blocks' = blocks /\ source_cursor' = source_cursor
      /\ repair_cursor' = repair_cursor + 1 /\ SourcePassOver /\ InEsiSpace(id)
  BY DEF NextRepair, Return
<1>2. /\ blocks \in Layouts /\ source_cursor = Cardinality(SourceIds)
      /\ repair_cursor \in Nat /\ CursorsInv
  <2>1. Cardinality(SourceIds) \in Nat
    BY SourceType DEF StreamInv, CursorsInv
  <2>. QED  BY <1>1, <2>1 DEF StreamInv, CursorsInv, SourcePassOver
<1>3. id \in Nat \X Nat /\ DataFrame(id) \in FrameSet /\ id[1] = repair_cursor % n
  BY <1>1, <1>2, SymbolType DEF RepairId
<1>. HIDE DEF id
<1>4. \A b : Sent(b) \in Nat /\ Sent(b)' = Sent(b) + (IF b = id[1] THEN 1 ELSE 0)
  BY <1>1, <1>2, <1>3, OneMoreSent
<1>5. /\ n \in Nat \ {0} /\ Blocks = 0..(n - 1) /\ EsiLimit \in Nat
      /\ \A b \in Blocks : blocks[b] \in 1..EsiLimit
  BY <1>2, SourceType, SenderAssumption
<1>6. SourceIds' = SourceIds /\ Blocks' = Blocks
  BY <1>1, SamePlan
<1>7. ASSUME NEW b \in Blocks
      PROVE  /\ Sent(b)' \in Nat
             /\ Sent(b)' = blocks[b] + Turns(repair_cursor + 1, n, b)
  <2>. HIDE DEF n
  <2>1. b \in 0..(n - 1)
    BY <1>5
  <2>2. /\ Turns(repair_cursor, n, b) \in Nat
        /\ Turns(repair_cursor + 1, n, b) =
             Turns(repair_cursor, n, b) + (IF b = repair_cursor % n THEN 1 ELSE 0)
    BY <1>2, <1>5, <2>1, NextTurn
  <2>3. Sent(b) = blocks[b] + Turns(repair_cursor, n, b)
    BY <1>2 DEF SentInv, n
  <2>4. blocks[b] \in Nat
    BY <1>5
  <2>5. Sent(b)' = Sent(b) + (IF b = repair_cursor % n THEN 1 ELSE 0) /\ Sent(b) \in Nat
    BY <1>3, <1>4
  <2>. QED  BY <2>2, <2>3, <2>4, <2>5
<1>. HIDE DEF n
<1>8. (\A b \in Blocks : Sent(b) \in Nat)'
  BY <1>6, <1>7
<1>9. repair_cursor' # 0
  BY <1>1, <1>2
<1>10. (source_cursor = Cardinality(SourceIds) =>
         \A b \in Blocks : Sent(b) = blocks[b] + Turns(repair_cursor, Cardinality(Blocks), b))'
  BY <1>1, <1>6, <1>7 DEF Turns, n
<1>. QED  BY <1>1, <1>8, <1>9, <1>10 DEF SentInv

LEMMA StepSent == IInv /\ SentInv /\ [BNext]_bindingVars => SentInv'
<1> SUFFICES ASSUME IInv, SentInv, [BNext]_bindingVars PROVE SentInv'
  OBVIOUS
<1>1. StreamInv /\ host \in Hosts
  BY DEF IInv
<1>2. ASSUME UNCHANGED <<blocks, source_cursor, repair_cursor, emitted, exhausted>>
      PROVE  SentInv'
  <2>1. \A b : Sent(b)' = Sent(b)
    BY <1>2 DEF Sent, Data
  <2>. QED  BY <1>2, <2>1, SameSent
<1>3. CASE Draw
  BY <1>1, <1>3, SentDescriptor, SentSource, SentRepair DEF Draw
<1>4. CASE RunsOut
  <2>1. /\ SourcePassOver /\ ~InEsiSpace(RepairId(repair_cursor))
        /\ UNCHANGED <<blocks, source_cursor, repair_cursor, emitted>>
    BY <1>4 DEF RunsOut, NextExhausted
  <2>2. \A b : Sent(b)' = Sent(b)
    BY <2>1 DEF Sent, Data
  <2>3. SentInv /\ exhausted => SourcePassOver /\ ~InEsiSpace(RepairId(repair_cursor))
    BY DEF SentInv
  <2>4. /\ SourceIds' = SourceIds /\ Blocks' = Blocks
        /\ RepairId(repair_cursor)' = RepairId(repair_cursor)
    BY <2>1, SamePlan
  <2>5. (SourcePassOver /\ ~InEsiSpace(RepairId(repair_cursor)))'
    BY <2>1, <2>4 DEF SourcePassOver, InEsiSpace
  <2>. QED  BY <2>1, <2>2, <2>4, <2>5 DEF SentInv, Rank, Before, Turns
<1>5. ASSUME NEW index \in 0..SegmentCount, SelectSegment(index) PROVE SentInv'
  <2>1. /\ index < SegmentCount /\ blocks' = host.file[index + 1]
        /\ source_cursor' = 0 /\ repair_cursor' = 0 /\ exhausted' = FALSE /\ emitted' = <<>>
    BY <1>5 DEF SelectSegment
  <2>2. index + 1 \in 1..Len(host.file) /\ host.file \in Seq(Layouts)
    BY <1>1, <2>1, HostType DEF SegmentCount
  <2>3. blocks' \in Layouts
    BY <2>1, <2>2, ElementOfSeq
  <2>4. (blocks \in Layouts /\ source_cursor = 0 /\ repair_cursor = 0 /\ emitted = <<>>
           /\ exhausted = FALSE => SentInv)'
    BY InitSent, PTL
  <2>. QED  BY <2>1, <2>3, <2>4
<1>6. ASSUME NEW interval \in Intervals, SetInterval(interval) PROVE SentInv'
  BY <1>2, <1>6 DEF SetInterval, SetDescriptorInterval
<1>7. CASE \/ \E count \in Counts, room \in Rooms, slot \in BOOLEAN : Call(count, room, slot)
           \/ Finish
           \/ UNCHANGED bindingVars
  BY <1>2, <1>7 DEF Call, Finish, bindingVars, sessionVars, vars
<1>8. ASSUME HandOver \/ EncodeFails \/ Overflows PROVE Draw
  BY <1>8 DEF HandOver, EncodeFails, Overflows
<1>. QED  BY <1>3, <1>4, <1>5, <1>6, <1>7, <1>8 DEF BNext

LEMMA SentInvariant == BSpec => [](IInv /\ SentInv)
<1>1. BInit => SentInv
  BY InitSent DEF BInit, Init
<1>. QED  BY <1>1, InitInv, StepInv, StepSent, PTL DEF BSpec

\* RFC 6330 partitioning (raptorq::partition, for the chunker): the blocks of an
\* object have the same number of symbols, up to one.
EvenLayouts ==
  \A k \in Layouts : \A b, c \in DOMAIN k : k[b] <= k[c] + 1

LEMMA SentLockstep ==
  ASSUME EvenLayouts, IInv, SentInv
  PROVE  Lockstep
<1> DEFINE n == Cardinality(Blocks)
<1>1. /\ blocks \in Layouts /\ source_cursor \in 0..Cardinality(SourceIds)
      /\ repair_cursor \in Nat
      /\ repair_cursor > 0 => source_cursor = Cardinality(SourceIds)
  BY DEF IInv, StreamInv, CursorsInv
<1>2. /\ n \in Nat \ {0} /\ Blocks = 0..(n - 1) /\ EsiLimit \in Nat \ {0}
      /\ SourceIds \in SUBSET (Nat \X Nat) /\ IsFiniteSet(SourceIds)
      /\ Cardinality(SourceIds) \in Nat
      /\ \A b \in Blocks : blocks[b] \in 1..EsiLimit
  BY <1>1, SourceType, SenderAssumption
<1>. HIDE DEF n
<1>3. \A b \in Blocks : b \in Nat /\ blocks[b] \in Nat
  BY <1>2
<1>4. \A b \in Blocks : Sent(b) \in Nat
  BY DEF SentInv
<1>5. ASSUME NEW b \in Blocks, NEW c \in Blocks
      PROVE  Sent(b) <= Sent(c) + 1 + (IF blocks[b] > blocks[c]
                                       THEN blocks[b] - blocks[c] ELSE 0)
  <2>1. CASE repair_cursor = 0
    <3>1. \A x \in Blocks :
            /\ Sent(x) <= blocks[x]
            /\ \A e \in 0..(blocks[x] - 1) :
                 Rank(SourceIds, <<x, e>>) < source_cursor <=> e < Sent(x)
      BY <2>1 DEF SentInv
    <3>2. CASE Sent(c) = blocks[c]
      BY <1>3, <1>4, <3>1, <3>2
    <3>3. CASE Sent(c) # blocks[c]
      <4> DEFINE e == Sent(c)
      <4>1. ASSUME Sent(b) > e + 1 PROVE FALSE
        <5>1. e \in 0..(blocks[c] - 1) /\ e + 1 \in 0..(blocks[b] - 1)
          BY <1>3, <1>4, <3>1, <3>3, <4>1
        <5>2. ~(Rank(SourceIds, <<c, e>>) < source_cursor)
          BY <1>4, <3>1, <5>1
        <5>3. Rank(SourceIds, <<b, e + 1>>) < source_cursor
          BY <3>1, <4>1, <5>1
        <5>. HIDE DEF e
        <5>4. <<c, e>> \in SourceIds /\ <<b, e + 1>> \in SourceIds
          BY <1>1, <5>1, SourceMember
        <5>5. Before(<<c, e>>, <<b, e + 1>>)
          BY <5>1 DEF Before
        <5>6. Rank(SourceIds, <<c, e>>) < Rank(SourceIds, <<b, e + 1>>)
          BY <1>2, <5>4, <5>5, RankOrder
        <5>7. /\ Rank(SourceIds, <<c, e>>) \in Int
              /\ Rank(SourceIds, <<b, e + 1>>) \in Int
          BY <1>2, <5>4, RankType
        <5>. QED  BY <1>1, <1>2, <5>2, <5>3, <5>6, <5>7
      <4>. QED  BY <1>3, <1>4, <4>1
    <3>. QED  BY <3>2, <3>3
  <2>2. CASE repair_cursor # 0
    <3>1. /\ Sent(b) = blocks[b] + Turns(repair_cursor, n, b)
          /\ Sent(c) = blocks[c] + Turns(repair_cursor, n, c)
      BY <1>1, <2>2 DEF SentInv, n
    <3>2. /\ repair_cursor \div n \in Nat
          /\ Turns(repair_cursor, n, b) \in {repair_cursor \div n, (repair_cursor \div n) + 1}
          /\ Turns(repair_cursor, n, c) \in {repair_cursor \div n, (repair_cursor \div n) + 1}
      BY <1>1, <1>2, TurnsRange
    <3>. QED  BY <1>3, <3>1, <3>2
  <2>. QED  BY <2>1, <2>2
<1>6. ASSUME exhausted, NEW b \in Blocks PROVE Sent(b) >= EsiLimit - 1
  <2>1. SourcePassOver /\ ~InEsiSpace(RepairId(repair_cursor))
    BY <1>6 DEF SentInv
  <2>2. source_cursor = Cardinality(SourceIds)
    BY <1>1, <1>2, <2>1 DEF SourcePassOver
  <2>3. Sent(b) = blocks[b] + Turns(repair_cursor, n, b)
    BY <2>2 DEF SentInv, n
  <2> DEFINE last == repair_cursor % n
             q    == repair_cursor \div n
  <2>4. last \in Blocks /\ q \in Nat /\ Turns(repair_cursor, n, b) \in {q, q + 1}
    BY <1>1, <1>2, TurnsRange
  <2>5. ~(blocks[last] + q < EsiLimit)
    BY <2>1 DEF InEsiSpace, RepairId, n
  <2>6. blocks[last] <= blocks[b] + 1
    BY <1>1, <2>4 DEF EvenLayouts, Blocks
  <2>. HIDE DEF last, q
  <2>. QED  BY <1>2, <1>3, <2>3, <2>4, <2>5, <2>6
<1>. QED  BY <1>5, <1>6 DEF Lockstep

\* A burst of lost frames is spread over all blocks: whatever the blocks and
\* their symbols, no block is ever more than one symbol ahead of another beyond
\* the difference of their K; and SymbolIdSpaceExhausted is returned only when
\* every block has used up its symbols, up to one (build_source_plan and
\* repair_symbol_id), if the layouts are those of the partitioning.
THEOREM BlocksInStep == ASSUME EvenLayouts PROVE BSpec => []Lockstep
<1>1. IInv /\ SentInv => Lockstep
  BY SentLockstep
<1>. QED  BY <1>1, SentInvariant, PTL

----------------------------------------------------------------------------
(* The descriptor comes to every position of the screen. *)

LEMMA Multiple ==
  ASSUME NEW a \in Nat \ {0}, NEW b \in Nat
  PROVE  b % a = 0 <=> \E k \in Nat : b = a * k
<1>1. b % a \in 0..(a - 1) /\ b \div a \in Nat /\ b = a * (b \div a) + (b % a)
  BY Division
<1>2. ASSUME b % a = 0 PROVE \E k \in Nat : b = a * k
  <2>1. b = a * (b \div a) + 0
    BY <1>1, <1>2
  <2>2. a * (b \div a) \in Nat
    BY <1>1
  <2>. QED  BY <1>1, <2>1, <2>2
<1>3. ASSUME NEW k \in Nat, b = a * k PROVE b % a = 0
  <2>1. a * (b \div a) + (b % a) = a * k + 0 /\ 0 \in 0..(a - 1)
    <3>1. a * k \in Nat /\ a * k + 0 = a * k
      OBVIOUS
    <3>. QED  BY <1>1, <1>3, <3>1
  <2>. QED  BY <1>1, <2>1, OneDivision
<1>. QED  BY <1>2, <1>3

\* Euclid's lemma: a multiple of d below d * n is none of n, if d and n are coprime.
LEMMA NoCommonMultiple ==
  ASSUME NEW d \in Nat \ {0}, NEW n \in Nat \ {0}, Coprime(d, n), NEW x \in 1..(n - 1)
  PROVE  (d * x) % n # 0
<1> DEFINE X == {y \in 1..n : (d * y) % n = 0}
<1>1. \A y \in Nat : d * y \in Nat /\ ((d * y) % n = 0 <=> \E k \in Nat : d * y = n * k)
  <2> SUFFICES ASSUME NEW y \in Nat
               PROVE  d * y \in Nat /\ ((d * y) % n = 0 <=> \E k \in Nat : d * y = n * k)
    OBVIOUS
  <2>1. d * y \in Nat
    OBVIOUS
  <2>. QED  BY <2>1, Multiple
<1>2. n \in X
  <2>1. d * n = n * d /\ d \in Nat /\ n \in 1..n
    OBVIOUS
  <2>. QED  BY <1>1, <2>1
<1>3. X \in SUBSET Nat /\ IsFiniteSet(X)
  <2>1. 1 \in Int /\ n \in Int
    OBVIOUS
  <2>2. IsFiniteSet(1..n) /\ X \in SUBSET (1..n)
    BY <2>1, FS_Interval
  <2>3. IsFiniteSet(X)
    BY <2>2, FS_Subset
  <2>. QED  BY <2>3
<1>4. PICK least \in X : \A y \in X : least <= y
  <2>. HIDE DEF X
  <2>1. Min(X) \in X /\ \A y \in X : Min(X) <= y
    BY <1>2, <1>3, MaxMin
  <2>. QED  BY <2>1
<1>5. least \in 1..n /\ \E k \in Nat : d * least = n * k
  <2>1. least \in 1..n /\ least \in Nat /\ (d * least) % n = 0
    BY <1>4
  <2>. HIDE DEF X
  <2>. QED  BY <1>1, <2>1
<1>6. PICK k \in Nat : d * least = n * k
  BY <1>5
<1>7. n % least = 0
  <2> DEFINE q == n \div least
             r == n % least
  <2>1. r \in 0..(least - 1) /\ q \in Nat /\ n = least * q + r
    <3>1. least \in Nat \ {0} /\ n \in Nat
      BY <1>5
    <3>. QED  BY <3>1, Division
  <2>. HIDE DEF q, r
  <2>2. d * r = d * (least * q + r) - (d * least) * q
    BY <1>5, <2>1
  <2>3. d * r = d * n - (n * k) * q
    BY <1>6, <2>1, <2>2
  <2>4. d * n - (n * k) * q = n * (d - k * q)
    BY <1>6, <2>1
  <2>5. d * r = n * (d - k * q) /\ d - k * q \in Int
    BY <1>6, <2>1, <2>3, <2>4
  <2>6. d - k * q \in Nat
    <3> DEFINE z == d - k * q
    <3>1. z \in Int /\ d * r = n * z /\ d * r \in Nat
      BY <2>1, <2>5
    <3>. HIDE DEF z
    <3>2. ASSUME z < 0 PROVE FALSE
      <4>1. n * z < 0
        BY <3>1, <3>2
      <4>. QED  BY <3>1, <4>1
    <3>3. z \in Nat
      BY <3>1, <3>2
    <3>. QED  BY <3>3 DEF z
  <2>7. r # 0 => r \in X
    <3>1. r \in Nat /\ (d * r) % n = 0
      BY <1>1, <2>1, <2>5, <2>6
    <3>. QED  BY <1>5, <2>1, <3>1
  <2>8. r = 0
    BY <1>4, <1>5, <2>1, <2>7
  <2>. QED  BY <2>8 DEF r
<1>8. PICK e \in Nat : n = least * e
  <2>1. least \in Nat \ {0} /\ n \in Nat
    BY <1>5
  <2>2. \E e \in Nat : n = least * e
    BY <1>7, <2>1, Multiple
  <2>. QED  BY <2>2
<1>9. d = e * k /\ e \in 1..n
  <2>1. least * d = least * (e * k)
    BY <1>5, <1>6, <1>8
  <2>2. d = e * k
    <3> DEFINE y == e * k
    <3>1. least * d = least * y /\ y \in Nat /\ least \in Nat \ {0}
      BY <1>5, <1>6, <1>8, <2>1
    <3>. HIDE DEF y
    <3>2. least * d + 0 = least * y + 0 /\ 0 \in 0..(least - 1)
      BY <3>1
    <3>3. d = y
      BY <3>1, <3>2, OneDivision
    <3>. QED  BY <3>3 DEF y
  <2>3. e # 0
    BY <1>5, <1>8
  <2>4. e <= n
    <3>1. least * e = e + (least - 1) * e /\ (least - 1) * e \in Nat
      BY <1>5, <1>8
    <3>. QED  BY <1>8, <3>1
  <2>. QED  BY <1>8, <2>2, <2>3, <2>4
<1>10. e = 1
  <2>1. SUFFICES ASSUME e \in 2..n PROVE FALSE
    BY <1>9
  <2>2. e \in Nat \ {0} /\ d = e * k /\ n = e * least /\ least \in Nat
    BY <1>5, <1>8, <1>9
  <2>3. d % e = 0
    BY <1>6, <2>2, Multiple
  <2>4. n % e = 0
    BY <2>2, Multiple
  <2>. QED  BY <2>1, <2>3, <2>4 DEF Coprime
<1>11. least = n
  BY <1>5, <1>8, <1>10
<1>12. x \notin X
  BY <1>4, <1>11
<1>. QED  BY <1>12

\* Every remainder of n is that of a place of a descriptor, one in d.
PlaceOf(d, n, first, slot) ==
  \E i \in first..(first + d * n - 1) : i % n = slot /\ (i - 1) % d = 0

LEMMA EverySlot ==
  ASSUME NEW d \in Nat \ {0}, NEW n \in Nat \ {0}, Coprime(d, n),
         NEW first \in Nat \ {0}, NEW slot \in 0..(n - 1)
  PROVE  PlaceOf(d, n, first, slot)
<1>1. PICK j \in Nat : first <= 1 + d * j /\ 1 + d * j <= first + d - 1
  <2> DEFINE c == first + d - 2
             q == c \div d
             r == c % d
  <2>1. r \in 0..(d - 1) /\ q \in Nat /\ c = d * q + r
    <3>1. c \in Nat
      OBVIOUS
    <3>. HIDE DEF c
    <3>. QED  BY <3>1, Division
  <2>. HIDE DEF q, r
  <2>2. d * q \in Nat
    BY <2>1
  <2>3. first <= 1 + d * q /\ 1 + d * q <= first + d - 1
    BY <2>1, <2>2
  <2>. QED  BY <2>1, <2>3
<1> DEFINE at(t) == 1 + d * (j + t)
           g == [t \in 0..(n - 1) |-> at(t) % n]
           T == (0..(n - 1)) \ {slot}
<1>2. \A t \in 0..(n - 1) : at(t) \in Nat /\ at(t) % n \in 0..(n - 1)
  <2> SUFFICES ASSUME NEW t \in 0..(n - 1) PROVE at(t) \in Nat /\ at(t) % n \in 0..(n - 1)
    OBVIOUS
  <2>1. at(t) \in Nat
    BY <1>1
  <2>. QED  BY <2>1, Division
<1>3. ASSUME NEW t \in 0..(n - 1), NEW u \in 0..(n - 1), t < u PROVE at(t) % n # at(u) % n
  <2> DEFINE a == at(t) \div n
             b == at(u) \div n
             r == at(t) % n
             x == u - t
  <2>1. SUFFICES ASSUME at(t) % n = at(u) % n PROVE FALSE
    OBVIOUS
  <2>2. at(t) = n * a + r /\ at(u) = n * b + r /\ a \in Nat /\ b \in Nat /\ r \in Nat
    <3>1. at(t) \in Nat /\ at(u) \in Nat
      BY <1>2
    <3>. HIDE DEF at
    <3>2. \A v \in Nat : v = n * (v \div n) + (v % n) /\ v \div n \in Nat /\ v % n \in Nat
      <4> SUFFICES ASSUME NEW v \in Nat
                   PROVE  v = n * (v \div n) + (v % n) /\ v \div n \in Nat /\ v % n \in Nat
        OBVIOUS
      <4>1. v = n * (v \div n) + (v % n) /\ v \div n \in Nat /\ v % n \in 0..(n - 1)
        BY Division
      <4>2. \A w \in 0..(n - 1) : w \in Nat
        OBVIOUS
      <4>. QED  BY <4>1, <4>2, Zenon
    <3>3. at(t) = n * a + r /\ a \in Nat /\ r \in Nat
      BY <3>1, <3>2
    <3>4. at(u) = n * b + (at(u) % n) /\ b \in Nat
      BY <3>1, <3>2
    <3>. QED  BY <2>1, <3>3, <3>4
  <2>3. at(u) = at(t) + d * x /\ x \in 1..(n - 1)
    BY <1>1, <1>3
  <2>4. (d * x) % n # 0
    <3>. HIDE DEF x
    <3>. QED  BY <2>3, NoCommonMultiple
  <2>. HIDE DEF a, b, r, x, at
  <2>5. d * x \in Nat /\ n * a \in Nat /\ n * b \in Nat
    BY <2>2, <2>3
  <2>6. d * x = n * b - n * a
    BY <2>2, <2>3, <2>5
  <2>7. d * x = n * (b - a)
    BY <2>2, <2>6
  <2>8. b - a \in Nat
    <3>1. ASSUME b - a < 0 PROVE FALSE
      <4>1. n * (b - a) < 0
        BY <2>2, <3>1
      <4>. QED  BY <2>5, <2>7, <4>1
    <3>. QED  BY <2>2, <3>1
  <2>9. (d * x) % n = 0
    BY <2>5, <2>7, <2>8, Multiple
  <2>. QED  BY <2>4, <2>9
<1>4. PICK t \in 0..(n - 1) : at(t) % n = slot
  <2>1. SUFFICES ASSUME \A t \in 0..(n - 1) : at(t) % n # slot PROVE FALSE
    OBVIOUS
  <2>2. g \in [0..(n - 1) -> T]
    BY <1>2, <2>1
  <2>3. IsFiniteSet(0..(n - 1)) /\ Cardinality(0..(n - 1)) = n
    <3>1. 0 \in Int /\ n - 1 \in Int /\ (n - 1) - 0 + 1 = n /\ ~(0 > n - 1)
      OBVIOUS
    <3>. QED  BY <3>1, FS_Interval
  <2>4. IsFiniteSet(T) /\ Cardinality(T) = n - 1
    <3> DEFINE N == 0..(n - 1)
    <3>1. IsFiniteSet(N) /\ Cardinality(N) = n /\ slot \in N
      BY <2>3
    <3>. HIDE DEF N
    <3>2. IsFiniteSet(N \ {slot}) /\ Cardinality(N \ {slot}) = n - 1
      BY <3>1, FS_RemoveElement
    <3>. QED  BY <3>2 DEF N
  <2>5. \E t, u \in 0..(n - 1) : t # u /\ g[t] = g[u]
    <3>. HIDE DEF g, T
    <3>1. Cardinality(0..(n - 1)) > Cardinality(T)
      BY <2>3, <2>4
    <3>. QED  BY <2>2, <2>3, <2>4, <3>1, FS_PigeonHole
  <2>6. PICK t \in 0..(n - 1), u \in 0..(n - 1) : t # u /\ at(t) % n = at(u) % n
    BY <2>5
  <2>7. t < u \/ u < t
    BY <2>6
  <2>. HIDE DEF at
  <2>. QED  BY <1>3, <2>6, <2>7
<1>5. at(t) \in first..(first + d * n - 1)
  <2>1. d * (j + t) = d * j + d * t /\ d * n = d * t + d * (n - 1 - t) + d
    BY <1>1
  <2>2. d * j \in Nat /\ d * t \in Nat /\ d * (n - 1 - t) \in Nat /\ d * n \in Nat
        /\ d * (j + t) \in Nat
    BY <1>1
  <2>. QED  BY <1>1, <2>1, <2>2
<1>6. (at(t) - 1) % d = 0
  <2> DEFINE y == d * (j + t)
  <2>1. at(t) - 1 = y /\ y \in Nat /\ j + t \in Nat
    BY <1>1
  <2>2. y % d = 0
    BY <2>1, Multiple
  <2>. QED  BY <2>1, <2>2
<1>. HIDE DEF at
<1>. QED  BY <1>4, <1>5, <1>6 DEF PlaceOf

\* The descriptors stand at the multiples of the interval, which is set before
\* the first frame only.
CadenceInv ==
  \A i \in 1..Len(emitted) :
    emitted[i].kind = "descriptor" <=> (i - 1) % descriptor_interval = 0

LEMMA StepCadence == BindingsInv /\ CadenceInv /\ [BNext]_bindingVars => CadenceInv'
<1> SUFFICES ASSUME BindingsInv, CadenceInv, [BNext]_bindingVars PROVE CadenceInv'
  OBVIOUS
<1>1. frame_index = Len(emitted) /\ StreamInv
  BY DEF BindingsInv, IInv, SegmentInv
<1>2. emitted \in Seq(AnyFrame) /\ Len(emitted) \in Nat /\ FrameSet \subseteq AnyFrame
  BY <1>1, StreamFrames
<1>3. CASE UNCHANGED <<emitted, descriptor_interval>>
  BY <1>3 DEF CadenceInv
<1>4. CASE emitted' = <<>>
  <2>1. Len(emitted') = 0
    BY <1>4, EmptySeq
  <2>. QED  BY <2>1 DEF CadenceInv
<1>5. CASE Draw
  <2>1. Drawn \in AnyFrame /\ emitted' = Append(emitted, Drawn)
    BY <1>5, DrawStep
  <2>2. /\ Len(emitted') = Len(emitted) + 1 /\ emitted'[Len(emitted) + 1] = Drawn
        /\ \A i \in 1..Len(emitted) : emitted'[i] = emitted[i]
    BY <1>2, <2>1, AppendProperties
  <2>3. descriptor_interval' = descriptor_interval
    BY <1>5 DEF Draw, NextDescriptor, NextSource, NextRepair, Return
  <2>4. emitted'[Len(emitted) + 1].kind = "descriptor" <=> DescriptorDue
    <3>1. CASE NextDescriptor
      BY <1>2, <3>1, AppendProperties DEF NextDescriptor, Return, DescriptorFrame, AnyFrame
    <3>2. CASE NextSource \/ NextRepair
      <4>1. \E id : emitted' = Append(emitted, DataFrame(id)) /\ ~DescriptorDue
        BY <3>2 DEF NextSource, NextRepair, Return
      <4>2. PICK id : emitted' = Append(emitted, DataFrame(id)) /\ ~DescriptorDue
        BY <4>1
      <4>3. emitted'[Len(emitted) + 1] = DataFrame(id)
        BY <1>2, <4>2
      <4>. QED  BY <4>2, <4>3 DEF DataFrame
    <3>. QED  BY <1>5, <3>1, <3>2 DEF Draw
  <2>5. DescriptorDue <=> ((Len(emitted) + 1) - 1) % descriptor_interval = 0
    BY <1>1, <1>2 DEF DescriptorDue
  <2>6. \A i \in 1..(Len(emitted) + 1) : i \in 1..Len(emitted) \/ i = Len(emitted) + 1
    BY <1>2
  <2>. QED  BY <2>2, <2>3, <2>4, <2>5, <2>6 DEF CadenceInv
<1>6. ASSUME NEW index \in 0..SegmentCount, SelectSegment(index) PROVE emitted' = <<>>
  BY <1>6 DEF SelectSegment
<1>7. ASSUME NEW interval \in Intervals, SetInterval(interval) PROVE CadenceInv'
  <2>1. Len(emitted) = 0 /\ emitted' = emitted
    BY <1>1, <1>7 DEF SetInterval, SetDescriptorInterval
  <2>. QED  BY <2>1 DEF CadenceInv
<1>8. CASE \/ \E count \in Counts, room \in Rooms, slot \in BOOLEAN : Call(count, room, slot)
           \/ RunsOut
           \/ Finish
           \/ UNCHANGED bindingVars
  BY <1>3, <1>8 DEF Call, RunsOut, NextExhausted, Finish, bindingVars, sessionVars, vars
<1>9. ASSUME HandOver \/ EncodeFails \/ Overflows PROVE Draw
  BY <1>9 DEF HandOver, EncodeFails, Overflows
<1>. QED  BY <1>4, <1>5, <1>6, <1>7, <1>8, <1>9 DEF BNext

LEMMA CadenceInvariant == BSpec => [](BindingsInv /\ CadenceInv)
<1>1. BInit => CadenceInv
  <2> SUFFICES ASSUME BInit PROVE CadenceInv
    OBVIOUS
  <2>1. Len(emitted) = 0
    BY EmptySeq DEF BInit, Init
  <2>. QED  BY <2>1 DEF CadenceInv
<1>. QED  BY <1>1, InitBindings, StepBindings, StepCadence, PTL DEF BSpec

LEMMA Rotates ==
  ASSUME BindingsInv, CadenceInv, NEW codes \in Nat \ {0}
  PROVE  RotatesOver(codes)
<1> DEFINE d == descriptor_interval
<1>1. d \in Nat \ {0} /\ StreamInv
  BY DEF BindingsInv, IInv
<1>2. Len(emitted) \in Nat
  BY <1>1, StreamFrames
<1> SUFFICES ASSUME Coprime(d, codes),
                    NEW first \in 1..(Len(emitted) + 1 - d * codes),
                    NEW slot \in 0..(codes - 1)
             PROVE  \E i \in first..(first + d * codes - 1) :
                      i % codes = slot /\ emitted[i].kind = "descriptor"
  BY DEF RotatesOver
<1>. HIDE DEF d
<1>3. d * codes \in Nat
  BY <1>1
<1>4. first \in Nat \ {0} /\ first + d * codes - 1 <= Len(emitted)
  BY <1>2, <1>3
<1>5. PICK i \in first..(first + d * codes - 1) : i % codes = slot /\ (i - 1) % d = 0
  <2>1. PlaceOf(d, codes, first, slot)
    BY <1>1, <1>4, EverySlot
  <2>. QED  BY <2>1 DEF PlaceOf
<1>6. i \in 1..Len(emitted)
  BY <1>2, <1>3, <1>4
<1>7. emitted[i].kind = "descriptor"
  BY <1>5, <1>6 DEF CadenceInv, d
<1>. QED  BY <1>5, <1>7

\* The reason for the odd cadence: on a screen of any number of codes to which
\* the descriptor_interval is coprime, and so on those of one, two and four, a
\* descriptor comes to every position within interval * codes frames.
THEOREM DescriptorsEverywhere ==
  BSpec => [](DescriptorRotation /\ \A codes \in Nat \ {0} : RotatesOver(codes))
<1>1. BindingsInv /\ CadenceInv => \A codes \in Nat \ {0} : RotatesOver(codes)
  BY Rotates
<1>2. (\A codes \in Nat \ {0} : RotatesOver(codes)) => DescriptorRotation
  <2>1. {1, 2, 4} \subseteq Nat \ {0}
    OBVIOUS
  <2>. QED  BY <2>1 DEF DescriptorRotation
<1>. QED  BY <1>1, <1>2, CadenceInvariant, PTL

=============================================================================
