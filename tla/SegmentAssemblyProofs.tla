------------------------ MODULE SegmentAssemblyProofs ------------------------
(***************************************************************************)
(* Theorems about SegmentAssembly, for files and revisions of any number   *)
(* and size, symbols of any size and descriptors in any order.             *)
(***************************************************************************)
EXTENDS SegmentAssembly, FiniteSetTheorems, WellFoundedInduction, TLAPS

----------------------------------------------------------------------------
(* Sizes. *)

\* A full segment leaves room for its padding: whatever the symbol size, the
\* object that is sent stays within the limit of the receiver (segment.rs:24-31).
THEOREM PaddingFits ==
  ASSUME NEW n \in Nat, n <= SegmentRawBytes, NEW t, ValidSymbolSize(t)
  PROVE  Padded(n, t) \in n..MaxObjectBytes
<1>1. /\ t \in Nat \ {0} /\ t <= MaxSymbolSize
      /\ MaxSymbolSize \in Nat /\ MaxObjectBytes \in Nat
  BY DescriptorAssumption DEF ValidSymbolSize
<1>2. n % t \in 0..(t - 1)
  BY <1>1
<1>3. n + MaxSymbolSize <= MaxObjectBytes
  BY <1>1 DEF SegmentRawBytes
<1>. QED  BY <1>1, <1>2, <1>3 DEF Padded

\* SEGMENT_RAW_BYTES is the length of something.
LEMMA RawBytesType == SegmentRawBytes \in Nat \ {0}
<1>1. /\ MaxSymbolSize \in Nat /\ MaxObjectBytes \in Nat
      /\ MaxSymbolSize < MaxObjectBytes
  BY DescriptorAssumption
<1>. QED  BY <1>1 DEF SegmentRawBytes

\* A file has a segment at least.
LEMMA CountType ==
  ASSUME NEW size \in Nat \ {0}
  PROVE  SegmentCount(size) \in Nat \ {0}
<1>1. (size - 1) \div SegmentRawBytes \in Nat
  BY RawBytesType
<1>. QED  BY <1>1 DEF SegmentCount

\* The canonical length of a segment leaves room for the padding.
LEMMA RawLenBound ==
  ASSUME NEW size \in Nat, NEW index \in Nat
  PROVE  RawLen(size, index) \in Nat /\ RawLen(size, index) <= SegmentRawBytes
<1>1. index * SegmentRawBytes \in Nat /\ SegmentRawBytes \in Nat
  BY RawBytesType
<1>. QED  BY <1>1 DEF RawLen, AtMost

----------------------------------------------------------------------------
(* What is played. *)

\* The segment that a sender announces is a piece of its file.
PlayedInv ==
  sending # NoSender =>
    /\ sending.file \in Files
    /\ sending.symbol_size \in SymbolSizes
    /\ sending.index \in Segments(sending.file)
    /\ sending.frame.payload.segment # Nothing =>
         \E len \in Nat : sending.frame.payload.segment = SegmentMeta(sending.file, sending.index, len)

\* A frame that could be built carries the segment it was built for.
LEMMA WholeHasNone ==
  ASSUME NEW f, NEW t, NEW compression, WholeFrame(f, t, compression) # Nothing
  PROVE  /\ WholeFrame(f, t, compression).payload.segment = Nothing
         /\ \A v : [WholeFrame(f, t, compression)
                     EXCEPT !.payload.version = v].payload.segment = Nothing
<1> DEFINE p == Payload(MetaOf(Padded(f.size, t), t), FileMeta(f, f.size, compression), Nothing)
<1>1. p # Nothing /\ WholeFrame(f, t, compression) = Frame(f.root, p)
  BY DEF WholeFrame
<1>2. p.segment = Nothing /\ \A v : [p EXCEPT !.version = v].segment = Nothing
  BY <1>1 DEF Payload
<1>. HIDE DEF p
<1>3. Frame(f.root, p).payload = p
  BY DEF Frame
<1>4. ASSUME NEW v
      PROVE  [WholeFrame(f, t, compression) EXCEPT !.payload.version = v].payload.segment = Nothing
  <2> DEFINE w == WholeFrame(f, t, compression)
  <2>1. w = [session_id |-> f.root, symbol_size |-> p.meta.symbol_size,
             total_blocks |-> Blocks(p.meta), total_symbols |-> TotalSymbols(p.meta),
             payload |-> p]
    BY <1>1 DEF Frame
  <2>. HIDE DEF w
  <2>2. [w EXCEPT !.payload.version = v].payload = [p EXCEPT !.version = v]
    BY <2>1
  <2>3. [w EXCEPT !.payload.version = v].payload.segment = Nothing
    BY <1>2, <2>2
  <2>. QED  BY <2>3 DEF w
<1>. QED  BY <1>1, <1>2, <1>3, <1>4

LEMMA SegmentHasOwn ==
  ASSUME NEW f, NEW t, NEW index, NEW len, NEW compression,
         SegmentFrame(f, t, index, len, compression) # Nothing
  PROVE  SegmentFrame(f, t, index, len, compression).payload.segment = SegmentMeta(f, index, len)
<1> DEFINE p == Payload(MetaOf(Padded(len, t), t), FileMeta(f, len, compression),
                        SegmentMeta(f, index, len))
<1>1. p # Nothing /\ SegmentFrame(f, t, index, len, compression) = Frame(ChildId(f.root, index), p)
  BY DEF SegmentFrame
<1>2. p.segment = SegmentMeta(f, index, len)
  BY <1>1 DEF Payload
<1>. HIDE DEF p
<1>. QED  BY <1>1, <1>2 DEF Frame

\* What the assumption says of a file.
LEMMA FileType ==
  ASSUME NEW f \in Files
  PROVE  /\ f.size \in Nat \ {0}
         /\ SegmentCount(f.size) \in Nat \ {0}
         /\ Segments(f) \subseteq Nat
         /\ \A index \in Segments(f) : index < SegmentCount(f.size)
         /\ 0 \in Segments(f)
<1>1. f.size \in Nat \ {0}
  BY AssemblyAssumption
<1>2. SegmentCount(f.size) \in Nat \ {0}
  BY <1>1, CountType
<1>. QED  BY <1>1, <1>2 DEF Segments

LEMMA SessionSegment ==
  ASSUME NEW f \in Files, NEW t, NEW index \in Segments(f), Session(f, t, index) # Nothing,
         Session(f, t, index).payload.segment # Nothing
  PROVE  \E len \in Nat : Session(f, t, index).payload.segment = SegmentMeta(f, index, len)
<1>1. CASE SegmentCount(f.size) <= 1
  BY <1>1, WholeHasNone DEF Session
<1>2. CASE ~(SegmentCount(f.size) <= 1)
  <2>1. Session(f, t, index) = SegmentFrame(f, t, index, RawLen(f.size, index), "none")
    BY <1>2 DEF Session
  <2>2. RawLen(f.size, index) \in Nat
    BY FileType, RawLenBound
  <2>. QED  BY <2>1, <2>2, SegmentHasOwn
<1>. QED  BY <1>1, <1>2

\* Whatever the sender is, and whichever segment the user selects.
LEMMA StepPlayed == PlayedInv /\ [Next]_vars => PlayedInv'
<1> SUFFICES ASSUME PlayedInv, [Next]_vars PROVE PlayedInv'
  OBVIOUS
<1>1. CASE UNCHANGED sending
  BY <1>1 DEF PlayedInv
<1>2. ASSUME NEW f \in Files, NEW t \in SymbolSizes, Create(f, t)
      PROVE  PlayedInv'
  <2>1. 0 \in Segments(f) /\ Session(f, t, 0) # Nothing
    BY <1>2, FileType DEF Create
  <2>2. sending' = Sending("native", f, t, 0, Session(f, t, 0))
    BY <1>2 DEF Create
  <2>. QED  BY <2>1, <2>2, SessionSegment DEF PlayedInv, Sending
<1>3. ASSUME NEW f \in Files, NEW t \in SymbolSizes, NEW v \in OldVersions,
             OldSender(f, t, v)
      PROVE  PlayedInv'
  <2>1. /\ 0 \in Segments(f)
        /\ [WholeFrame(f, t, "none") EXCEPT !.payload.version = v].payload.segment = Nothing
    BY <1>3, FileType, WholeHasNone DEF OldSender
  <2>2. sending' = Sending("old", f, t, 0, [WholeFrame(f, t, "none") EXCEPT !.payload.version = v])
    BY <1>3 DEF OldSender
  <2>3. sending'.frame.payload.segment = Nothing
    BY <2>1, <2>2 DEF Sending
  <2>. QED  BY <2>1, <2>2, <2>3 DEF PlayedInv, Sending
<1>4. ASSUME NEW f \in Files, NEW t \in SymbolSizes, NEW i \in Segments(f),
             NEW len \in Lengths(f, i), NewSegment(f, t, i, len)
      PROVE  PlayedInv'
  <2>1. len \in Nat
    <3>1. RawLen(f.size, i) \in Nat
      BY FileType, RawLenBound
    <3>. QED  BY <3>1 DEF Lengths
  <2>2. /\ SegmentFrame(f, t, i, len, "zstd") # Nothing
        /\ sending' = Sending("browser", f, t, i, SegmentFrame(f, t, i, len, "zstd"))
    BY <1>4 DEF NewSegment
  <2>. QED  BY <2>1, <2>2, SegmentHasOwn DEF PlayedInv, Sending
<1>5. ASSUME sending # NoSender, NEW i \in Segments(sending.file), SelectSegment(i)
      PROVE  PlayedInv'
  <2> DEFINE frame == Session(sending.file, sending.symbol_size, i)
  <2>1. CASE frame = Nothing
    BY <1>5, <2>1 DEF SelectSegment, PlayedInv
  <2>2. CASE frame # Nothing
    <3>1. sending' = [sending EXCEPT !.index = i, !.frame = frame]
      BY <1>5, <2>2 DEF SelectSegment
    <3>2. sending.file \in Files /\ sending.symbol_size \in SymbolSizes
      BY <1>5 DEF PlayedInv
    <3>. QED  BY <1>5, <2>2, <3>1, <3>2, SessionSegment DEF PlayedInv
  <2>. QED  BY <2>1, <2>2
<1>6. CASE Close
  BY <1>6 DEF Close, PlayedInv
<1>7. ASSUME NEW r \in Recovered,
             Open(r.m, r.fm) \/ Add(r.m, r.fm, r.bytes) \/ Refuse(r.m, r.fm, r.bytes)
      PROVE  PlayedInv'
  BY <1>1, <1>7 DEF Open, Add, Refuse
<1>8. CASE Drop
  BY <1>1, <1>8 DEF Drop
<1>9. ASSUME NEW f \in Files, NEW t \in SymbolSizes, CreateFails(f, t)
      PROVE  PlayedInv'
  BY <1>1, <1>9 DEF CreateFails, vars
<1>. QED
  BY <1>1, <1>2, <1>3, <1>4, <1>5, <1>6, <1>7, <1>8, <1>9 DEF Next, vars

\* What can be recovered is a piece of a file with the root id of the file that
\* is played, under the descriptor of that file.
LEMMA RecoveredType ==
  ASSUME PlayedInv, NEW r \in Recovered
  PROVE  \E f, g \in Files : \E index \in Segments(f), len \in Nat :
           /\ r.m = SegmentMeta(f, index, len)
           /\ g.root = f.root
           /\ r.bytes = Piece(g, index, r.fm.compressed_size)
<1> DEFINE info == Received(sending.frame)
<1>1. /\ sending # NoSender /\ info # Nothing /\ info.segment # Nothing
      /\ r.m = info.segment /\ r.fm = info.file_meta
      /\ r.bytes \in Recoverable(info.segment, info.file_meta.compressed_size)
  BY DEF Recovered
<1>2. info.segment = sending.frame.payload.segment
  BY <1>1 DEF Received, Parse
<1>. HIDE DEF info
<1>3. PICK len \in Nat : info.segment = SegmentMeta(sending.file, sending.index, len)
  BY <1>1, <1>2 DEF PlayedInv
<1>4. info.segment.index = sending.index /\ info.segment.root = sending.file.root
  BY <1>3 DEF SegmentMeta
<1>5. PICK g \in Files :
        g.root = sending.file.root
          /\ r.bytes = Piece(g, sending.index, info.file_meta.compressed_size)
  BY <1>1, <1>4 DEF Recoverable
<1>. QED  BY <1>1, <1>3, <1>5 DEF PlayedInv

----------------------------------------------------------------------------
(* What is stored. *)

\* f is the file, or a revision of it, that the first descriptor was about, and
\* what is stored are pieces of it.
PiecesOf(f) ==
  /\ f.root = root.id /\ f.data = root.sha
  /\ root.size = f.size /\ root.count = SegmentCount(f.size)
  /\ Stored \cup arrived \subseteq Segments(f)
  /\ \A i \in Stored : segments[i] = Piece(f, i, segments[i].len)

AssembledInv ==
  /\ IsFiniteSet(Stored) /\ DOMAIN meta = Stored
  /\ received_count = Cardinality(Stored)
  /\ root = NoRoot => Stored = {} /\ arrived = {}
  /\ root # NoRoot => \E f \in Files : PiecesOf(f)

\* Nothing is played or stored at first.
LEMMA InitAssembled == Init => PlayedInv /\ AssembledInv
<1>1. DOMAIN NoSegments = {}
  BY DEF NoSegments
<1>. QED  BY <1>1, FS_EmptySet DEF Init, PlayedInv, AssembledInv, Stored

\* A segment arrives for the file of the assembler, or does not count.
LEMMA ArrivedInPlace ==
  ASSUME PlayedInv, root # NoRoot, NEW f \in Files, PiecesOf(f),
         NEW r \in Recovered, Arrives(r.m, r.bytes)
  PROVE  arrived' \subseteq Segments(f)
<1>0. PICK f1 \in Files :
        \E index \in Segments(f1), len \in Nat : r.m = SegmentMeta(f1, index, len)
  BY RecoveredType
<1>1. PICK index \in Segments(f1), len \in Nat : r.m = SegmentMeta(f1, index, len)
  BY <1>0
<1>2. r.m.root = root.id => index \in Segments(f)
  BY <1>1, AssemblyAssumption DEF SegmentMeta, PiecesOf, Segments
<1>3. r.m.index = index
  BY <1>1 DEF SegmentMeta
<1>. QED  BY <1>2, <1>3 DEF Arrives, Genuine, PiecesOf

\* What add_segment stores is of the file of the first descriptor.
LEMMA AddedIsPiece ==
  ASSUME PlayedInv, root # NoRoot, NEW f \in Files, PiecesOf(f),
         NEW r \in Recovered, Add(r.m, r.fm, r.bytes)
  PROVE  PiecesOf(f)'
<1>0. PICK f1 \in Files :
        \E index \in Segments(f1), len \in Nat : r.m = SegmentMeta(f1, index, len)
  BY RecoveredType
<1>1. PICK index \in Segments(f1), len \in Nat : r.m = SegmentMeta(f1, index, len)
  BY <1>0
<1>2. /\ r.m.root = root.id /\ r.m.root_sha = root.sha /\ r.bytes = r.m.raw_sha
      /\ Arrives(r.m, r.bytes) /\ root' = root
  BY DEF Add, Acceptable
<1>3. f1.root = f.root /\ f1.data = f.data /\ r.m.index = index
  BY <1>1, <1>2 DEF SegmentMeta, PiecesOf
<1>4. index \in Segments(f)
  BY <1>3, AssemblyAssumption DEF Segments
<1>5. r.bytes = Piece(f, index, len) /\ r.bytes.len = len
  BY <1>1, <1>2, <1>3 DEF SegmentMeta, Piece
<1>6. segments' = [i \in Stored \cup {index} |-> IF i = index THEN r.bytes ELSE segments[i]]
  BY <1>3 DEF Add
<1>7. Stored' = Stored \cup {index}
  BY <1>6 DEF Stored
<1>8. \A i \in Stored' : segments'[i] = Piece(f, i, segments'[i].len)
  BY <1>5, <1>6, <1>7 DEF PiecesOf
<1>9. arrived' \subseteq Segments(f)
  BY <1>2, ArrivedInPlace
<1>. QED  BY <1>2, <1>4, <1>7, <1>8, <1>9 DEF PiecesOf

LEMMA StepAssembled == PlayedInv /\ AssembledInv /\ [Next]_vars => AssembledInv'
<1> SUFFICES ASSUME PlayedInv, AssembledInv, [Next]_vars PROVE AssembledInv'
  OBVIOUS
<1>1. CASE UNCHANGED assembler
  BY <1>1 DEF assembler, AssembledInv, PiecesOf, Stored
<1>2. ASSUME NEW r \in Recovered, Open(r.m, r.fm)
      PROVE  AssembledInv'
  <2>0. PICK f \in Files :
          \E index \in Segments(f), len \in Nat : r.m = SegmentMeta(f, index, len)
    BY RecoveredType
  <2>1. PICK index \in Segments(f), len \in Nat : r.m = SegmentMeta(f, index, len)
    BY <2>0
  <2>2. /\ root = NoRoot /\ root' = RootOf(r.m, r.fm)
        /\ UNCHANGED <<segments, meta, received_count, arrived>>
    BY <1>2 DEF Open
  <2>3. Stored = {} /\ arrived = {}
    BY <2>2 DEF AssembledInv
  <2>4. PiecesOf(f)'
    BY <2>1, <2>2, <2>3 DEF PiecesOf, RootOf, SegmentMeta, Stored
  <2>. QED  BY <2>2, <2>3, <2>4 DEF AssembledInv, Stored
<1>3. ASSUME NEW r \in Recovered, Add(r.m, r.fm, r.bytes)
      PROVE  AssembledInv'
  <2>1. root # NoRoot /\ root' = root
    BY <1>3 DEF Add
  <2>2. PICK f \in Files : PiecesOf(f)
    BY <2>1 DEF AssembledInv
  <2>3. PiecesOf(f)'
    BY <1>3, <2>1, <2>2, AddedIsPiece
  <2>4. /\ r.m.index \notin Stored
        /\ Stored' = Stored \cup {r.m.index} /\ DOMAIN meta' = Stored'
        /\ received_count' = received_count + 1
    BY <1>3 DEF Add, Stored
  <2>5. IsFiniteSet(Stored') /\ Cardinality(Stored') = Cardinality(Stored) + 1
    <3>1. IsFiniteSet(Stored)
      BY DEF AssembledInv
    <3>2. IsFiniteSet(Stored \cup {r.m.index})
            /\ Cardinality(Stored \cup {r.m.index}) = Cardinality(Stored) + 1
      BY <2>4, <3>1, FS_AddElement
    <3>. QED  BY <2>4, <3>2
  <2>. QED  BY <2>1, <2>3, <2>4, <2>5 DEF AssembledInv
<1>4. ASSUME NEW r \in Recovered, Refuse(r.m, r.fm, r.bytes)
      PROVE  AssembledInv'
  <2>1. /\ root # NoRoot /\ Arrives(r.m, r.bytes)
        /\ UNCHANGED <<root, segments, meta, received_count>>
    BY <1>4 DEF Refuse
  <2>2. PICK f \in Files : PiecesOf(f)
    BY <2>1 DEF AssembledInv
  <2>3. arrived' \subseteq Segments(f)
    BY <2>1, <2>2, ArrivedInPlace
  <2>. QED  BY <2>1, <2>2, <2>3 DEF AssembledInv, PiecesOf, Stored
<1>5. CASE Drop
  <2>1. /\ root' = NoRoot /\ arrived' = {} /\ received_count' = 0
        /\ segments' = NoSegments /\ meta' = NoSegments /\ DOMAIN NoSegments = {}
    BY <1>5 DEF Drop, NoSegments
  <2>2. Stored' = {}
    BY <2>1 DEF Stored
  <2>. QED  BY <2>1, <2>2, FS_EmptySet DEF AssembledInv
<1>6. Next => \/ UNCHANGED assembler
              \/ \E r \in Recovered :
                   Open(r.m, r.fm) \/ Add(r.m, r.fm, r.bytes) \/ Refuse(r.m, r.fm, r.bytes)
              \/ Drop
  BY DEF Next, Create, CreateFails, OldSender, NewSegment, SelectSegment, Close, vars
<1>. QED  BY <1>1, <1>2, <1>3, <1>4, <1>5, <1>6 DEF vars

\* The invariant holds throughout.
LEMMA Assembled == Spec => [](PlayedInv /\ AssembledInv)
BY InitAssembled, StepPlayed, StepAssembled, PTL DEF Spec

----------------------------------------------------------------------------
(* Theorems. *)

\* The variables keep their types; received_count counts the segments stored.
THEOREM TypeCorrect == Spec => []TypeOK
<1>1. PlayedInv /\ AssembledInv => TypeOK
  BY DEF PlayedInv, AssembledInv, PiecesOf, Segments, TypeOK
<1>. QED  BY <1>1, Assembled, PTL

\* Nothing but pieces of the file of the first descriptor is stored.
THEOREM NoOtherRevision == Spec => []OneRevision
<1>1. AssembledInv => OneRevision
  BY DEF AssembledInv, PiecesOf, OneRevision
<1>. QED  BY <1>1, Assembled, PTL

\* Whatever pieces there are, what reassemble returns is that file or nothing.
THEOREM OnlyTheFile ==
  Spec => [](Reassemble \in {NoStream} \cup (IF root = NoRoot THEN {} ELSE {root.sha}))
<1>1. ASSUME AssembledInv, Reassemble # NoStream
      PROVE  root # NoRoot /\ Reassemble = root.sha
  <2>1. Complete /\ Reassemble = [i \in Stored |-> segments[i].data]
    BY <1>1 DEF Reassemble
  <2>2. PICK f \in Files : PiecesOf(f)
    BY <1>1, <2>1 DEF AssembledInv, Complete
  <2>3. IsFiniteSet(Segments(f)) /\ Cardinality(Segments(f)) = SegmentCount(f.size)
    <3>1. SegmentCount(f.size) \in Nat \ {0}
      BY FileType
    <3>. QED  BY <3>1, FS_Interval DEF Segments
  <2>4. Stored \subseteq Segments(f) /\ Cardinality(Stored) = SegmentCount(f.size)
    BY <1>1, <2>1, <2>2 DEF AssembledInv, PiecesOf, Complete
  <2>5. Stored = Segments(f)
    BY <2>3, <2>4, FS_Subset
  <2>6. ASSUME NEW i \in Stored PROVE segments[i].data = f.data[i]
    <3>1. segments[i] = Piece(f, i, segments[i].len)
      BY <2>2 DEF PiecesOf
    <3>2. Piece(f, i, segments[i].len).data = f.data[i]
      BY DEF Piece
    <3>. QED  BY <3>1, <3>2
  <2>7. f.data = [i \in Segments(f) |-> f.data[i]] /\ f.data = root.sha
    BY <2>2, AssemblyAssumption DEF PiecesOf
  <2>. QED  BY <2>1, <2>5, <2>6, <2>7 DEF Complete
<1>2. AssembledInv => Reassemble \in {NoStream} \cup (IF root = NoRoot THEN {} ELSE {root.sha})
  BY <1>1
<1>. QED  BY <1>2, Assembled, PTL

\* A stored segment is never replaced.
THEOREM SegmentsStay == Spec => StoredStays
<1>1. [Next]_vars =>
        [root # NoRoot /\ root' # NoRoot =>
           /\ root' = root
           /\ Stored \subseteq DOMAIN segments'
           /\ \A i \in Stored : segments'[i] = segments[i] /\ meta'[i] = meta[i]]_vars
  <2> SUFFICES ASSUME Next, root # NoRoot, root' # NoRoot
               PROVE  /\ root' = root
                      /\ Stored \subseteq DOMAIN segments'
                      /\ \A i \in Stored : segments'[i] = segments[i] /\ meta'[i] = meta[i]
    OBVIOUS
  <2>1. CASE UNCHANGED assembler
    BY <2>1 DEF assembler, Stored
  <2>2. CASE \E r \in Recovered : Add(r.m, r.fm, r.bytes)
    BY <2>2 DEF Add, Stored
  <2>3. CASE \E r \in Recovered : Refuse(r.m, r.fm, r.bytes)
    BY <2>3 DEF Refuse, Stored
  <2>4. CASE \E r \in Recovered : Open(r.m, r.fm)
    BY <2>4 DEF Open
  <2>5. CASE Drop
    BY <2>5 DEF Drop
  <2>. QED
    BY <2>1, <2>2, <2>3, <2>4, <2>5
       DEF Next, Create, CreateFails, OldSender, NewSegment, SelectSegment, Close, vars
<1>. QED  BY <1>1, PTL DEF Spec, StoredStays

----------------------------------------------------------------------------
(* Sums. *)

\* A set of numbers that is not empty has a least one.
LEMMA LeastNumber ==
  ASSUME NEW T \in SUBSET Nat, T # {}
  PROVE  \E n \in T : \A m \in T : n <= m
<1> DEFINE R == {p \in Nat \X Nat : p[1] < p[2]}
<1>1. IsWellFoundedOn(R, Nat)
  BY NatLessThanWellFounded DEF OpToRel
<1>. HIDE DEF R
<1>2. PICK n \in T : \A m \in T : ~(<<m, n>> \in R)
  BY <1>1, WFMin
<1>3. ASSUME NEW m \in T PROVE n <= m
  <2>1. m \in Nat /\ n \in Nat /\ ~(<<m, n>> \in R)
    BY <1>2
  <2>2. <<m, n>> \in Nat \X Nat /\ <<m, n>>[1] = m /\ <<m, n>>[2] = n
    BY <2>1
  <2>3. ~(m < n)
    BY <2>1, <2>2 DEF R
  <2>. QED  BY <2>1, <2>3
<1>. QED  BY <1>2, <1>3

\* The element that a sum takes first.
Chosen(s) == CHOOSE x \in s : TRUE

LEMMA ChosenIn == \A s : s # {} => Chosen(s) \in s
BY DEF Chosen

\* it adds up the values of d over the sets of the family F, one element after
\* another.
AddsUp(d, F, it) ==
  it = [s \in F |-> IF s = {} THEN 0
                    ELSE d[Chosen(s)] + it[s \ {Chosen(s)}]]

LEMMA SumUnfolds ==
  ASSUME NEW d
  PROVE  SumFunction(d) = (CHOOSE it : AddsUp(d, SUBSET DOMAIN d, it))[DOMAIN d]
BY DEF SumFunction, SumFunctionOnSet, FoldFunctionOnSet, MapThenFoldSet, AddsUp, Chosen

\* There is such a function for the subsets of a finite set: one for the subsets
\* of n elements extends to those of n + 1.
LEMMA SumExists ==
  ASSUME NEW d, NEW S, IsFiniteSet(S)
  PROVE  \E it : AddsUp(d, SUBSET S, it)
<1> DEFINE Small(n) == {s \in SUBSET S : Cardinality(s) <= n}
           T        == {n \in Nat : ~ \E it : AddsUp(d, Small(n), it)}
<1>1. \A s \in SUBSET S : IsFiniteSet(s) /\ Cardinality(s) \in Nat /\ Cardinality(s) <= Cardinality(S)
  <2> SUFFICES ASSUME NEW s \in SUBSET S
               PROVE  IsFiniteSet(s) /\ Cardinality(s) \in Nat /\ Cardinality(s) <= Cardinality(S)
    OBVIOUS
  <2>1. IsFiniteSet(s) /\ Cardinality(s) <= Cardinality(S)
    BY FS_Subset
  <2>. QED  BY <2>1, FS_CardinalityType
<1>2. Cardinality(S) \in Nat
  BY FS_CardinalityType
<1>3. \E it : AddsUp(d, Small(0), it)
  <2> DEFINE zero == [s \in Small(0) |-> 0]
  <2>1. \A s \in Small(0) : s = {}
    <3> SUFFICES ASSUME NEW s \in SUBSET S, Cardinality(s) <= 0 PROVE s = {}
      OBVIOUS
    <3>1. IsFiniteSet(s) /\ Cardinality(s) = 0
      BY <1>1
    <3>. QED  BY <3>1, FS_EmptySet
  <2>. HIDE DEF Small
  <2>2. zero = [s \in Small(0) |-> IF s = {} THEN 0
                  ELSE d[Chosen(s)] + zero[s \ {Chosen(s)}]]
    BY <2>1
  <2>. QED  BY <2>2 DEF AddsUp
<1>4. ASSUME NEW n \in Nat \ {0}, \E it : AddsUp(d, Small(n - 1), it)
      PROVE  \E it : AddsUp(d, Small(n), it)
  <2>1. PICK f : AddsUp(d, Small(n - 1), f)
    BY <1>4
  <2> DEFINE g == [s \in Small(n) |-> IF s = {} THEN 0
                     ELSE d[Chosen(s)] + f[s \ {Chosen(s)}]]
  <2>2. ASSUME NEW s \in Small(n - 1) PROVE g[s] = f[s]
    <3>1. s \in Small(n)
      BY <1>1
    <3>. HIDE DEF Small
    <3>. QED  BY <2>1, <3>1 DEF AddsUp
  <2>3. ASSUME NEW s \in Small(n), s # {}
        PROVE  s \ {Chosen(s)} \in Small(n - 1)
    <3> DEFINE c == Chosen(s)
    <3>1. c \in s
      BY <2>3, ChosenIn
    <3>. HIDE DEF c
    <3>2. IsFiniteSet(s) /\ Cardinality(s) \in Nat /\ Cardinality(s) <= n
      BY <1>1
    <3>3. Cardinality(s \ {c}) = Cardinality(s) - 1
      BY <3>1, <3>2, FS_RemoveElement
    <3>. QED  BY <3>2, <3>3 DEF c
  <2>. HIDE DEF Small
  <2>4. \A s \in Small(n) : s # {} =>
          g[s \ {Chosen(s)}] = f[s \ {Chosen(s)}]
    <3>. HIDE DEF g
    <3>. QED  BY <2>2, <2>3
  <2> DEFINE h == [s \in Small(n) |-> IF s = {} THEN 0
                     ELSE d[Chosen(s)] + g[s \ {Chosen(s)}]]
  <2>5. \A s \in Small(n) : g[s] = h[s]
    <3>1. \A s \in Small(n) : g[s] = IF s = {} THEN 0 ELSE d[Chosen(s)] + f[s \ {Chosen(s)}]
      OBVIOUS
    <3>2. \A s \in Small(n) : h[s] = IF s = {} THEN 0 ELSE d[Chosen(s)] + g[s \ {Chosen(s)}]
      OBVIOUS
    <3>. HIDE DEF g, h
    <3>. QED  BY <2>4, <3>1, <3>2
  <2>6. g = h
    BY <2>5
  <2>7. AddsUp(d, Small(n), g)
    BY <2>6 DEF AddsUp
  <2>. QED  BY <2>7
<1>5. T = {}
  <2> SUFFICES ASSUME T # {} PROVE FALSE
    OBVIOUS
  <2>1. PICK n \in T : \A m \in T : n <= m
    BY LeastNumber
  <2>2. n \in Nat /\ n # 0
    BY <1>3
  <2>3. n - 1 \in Nat /\ ~(n <= n - 1)
    BY <2>2
  <2>4. n - 1 \notin T
    BY <2>1, <2>3
  <2>. QED  BY <1>4, <2>2, <2>3, <2>4
<1>6. \E it : AddsUp(d, Small(Cardinality(S)), it)
  BY <1>2, <1>5
<1>7. Small(Cardinality(S)) = SUBSET S
  BY <1>1
<1>. QED  BY <1>6, <1>7

\* A sum over a set is one over the rest of it and an element.
SumsUp(d, S, it) ==
  \A s \in SUBSET S : it[s] \in Nat /\ \A x \in s : it[s] = d[x] + it[s \ {x}]

\* The order in which the elements are taken makes no difference.
LEMMA SumAnyOrder ==
  ASSUME NEW d, NEW S, IsFiniteSet(S), \A x \in S : d[x] \in Nat,
         NEW it, AddsUp(d, SUBSET S, it)
  PROVE  SumsUp(d, S, it)
<1> DEFINE P(s) == it[s] \in Nat /\ \A x \in s : it[s] = d[x] + it[s \ {x}]
           T    == {n \in Nat : \E s \in SUBSET S : Cardinality(s) = n /\ ~P(s)}
<1>1. \A s \in SUBSET S : IsFiniteSet(s) /\ Cardinality(s) \in Nat
  BY FS_Subset, FS_CardinalityType
<1>2. \A s \in SUBSET S : it[s] = IF s = {} THEN 0
        ELSE d[Chosen(s)] + it[s \ {Chosen(s)}]
  BY DEF AddsUp
<1>3. ASSUME NEW s \in SUBSET S,
             \A r \in SUBSET S : Cardinality(r) < Cardinality(s) => P(r)
      PROVE  P(s)
  <2>1. CASE s = {}
    <3>1. it[s] = 0
      BY <1>2, <2>1
    <3>. QED  BY <2>1, <3>1
  <2>2. CASE s # {}
    <3> DEFINE c == Chosen(s)
    <3>1. c \in s
      BY <2>2, ChosenIn
    <3>2. it[s] = d[c] + it[s \ {c}]
      BY <1>2, <2>2
    <3>. HIDE DEF c
    <3>3. ASSUME NEW x \in s PROVE s \ {x} \in SUBSET S /\ P(s \ {x})
      <4>1. IsFiniteSet(s) /\ Cardinality(s) \in Nat
        BY <1>1
      <4>2. Cardinality(s \ {x}) = Cardinality(s) - 1
        BY <4>1, FS_RemoveElement
      <4>3. Cardinality(s \ {x}) < Cardinality(s) /\ s \ {x} \in SUBSET S
        BY <4>1, <4>2
      <4>. HIDE DEF P
      <4>. QED  BY <1>3, <4>3
    <3>4. it[s] \in Nat
      <4>1. it[s \ {c}] \in Nat /\ d[c] \in Nat
        BY <3>1, <3>3
      <4>. QED  BY <3>2, <4>1
    <3>5. ASSUME NEW x \in s, x # c PROVE it[s] = d[x] + it[s \ {x}]
      <4> DEFINE rest == (s \ {c}) \ {x}
      <4>1. it[s \ {c}] = d[x] + it[rest]
        BY <3>1, <3>3, <3>5
      <4>2. (s \ {x}) \ {c} = rest
        OBVIOUS
      <4>3. it[s \ {x}] = d[c] + it[rest]
        <5>1. c \in s \ {x} /\ P(s \ {x})
          BY <3>1, <3>3, <3>5
        <5>2. it[s \ {x}] = d[c] + it[(s \ {x}) \ {c}]
          BY <5>1
        <5>. QED  BY <4>2, <5>2
      <4>4. rest \in SUBSET S /\ Cardinality(rest) < Cardinality(s)
        <5>1. IsFiniteSet(s) /\ Cardinality(s) \in Nat
          BY <1>1
        <5>2. IsFiniteSet(s \ {c}) /\ Cardinality(s \ {c}) = Cardinality(s) - 1
          BY <3>1, <5>1, FS_RemoveElement
        <5>3. x \in s \ {c}
          BY <3>5
        <5>4. Cardinality(rest) = Cardinality(s \ {c}) - 1
          BY <5>2, <5>3, FS_RemoveElement
        <5>. QED  BY <5>1, <5>2, <5>4
      <4>5. it[rest] \in Nat /\ d[x] \in Nat /\ d[c] \in Nat
        BY <1>3, <3>1, <4>4
      <4>. HIDE DEF rest
      <4>. QED  BY <3>2, <4>1, <4>3, <4>5
    <3>. QED  BY <3>2, <3>4, <3>5
  <2>. QED  BY <2>1, <2>2
<1>4. T = {}
  <2> SUFFICES ASSUME T # {} PROVE FALSE
    OBVIOUS
  <2>1. PICK n \in T : \A m \in T : n <= m
    BY LeastNumber
  <2>2. PICK s \in SUBSET S : Cardinality(s) = n /\ ~P(s)
    BY <2>1
  <2>. HIDE DEF P
  <2>3. ASSUME NEW r \in SUBSET S, Cardinality(r) < Cardinality(s) PROVE P(r)
    <3>1. Cardinality(r) \in Nat /\ n \in Nat
      BY <1>1
    <3>2. Cardinality(r) \notin T
      BY <2>1, <2>2, <2>3, <3>1
    <3>. QED  BY <3>1, <3>2
  <2>. QED  BY <1>3, <2>2, <2>3
<1>5. ASSUME NEW s \in SUBSET S PROVE P(s)
  <2>1. Cardinality(s) \in Nat
    BY <1>1
  <2>. HIDE DEF P
  <2>. QED  BY <1>4, <2>1
<1>. QED  BY <1>5 DEF SumsUp

\* A sum over 0..n-1, by its partial sums.
LEMMA SumOfRange ==
  ASSUME NEW n \in Nat, NEW d, DOMAIN d = 0..(n - 1), \A i \in 0..(n - 1) : d[i] \in Nat,
         NEW partial \in [0..n -> Nat], partial[0] = 0,
         \A i \in 0..(n - 1) : partial[i + 1] = partial[i] + d[i]
  PROVE  SumFunction(d) = partial[n]
<1> DEFINE S  == 0..(n - 1)
           it == CHOOSE f : AddsUp(d, SUBSET S, f)
           T  == {m \in 0..n : it[0..(m - 1)] # partial[m]}
<1>1. IsFiniteSet(S)
  <2>1. 0 \in Int /\ n - 1 \in Int
    OBVIOUS
  <2>. QED  BY <2>1, FS_Interval
<1>2. SumFunction(d) = it[S]
  BY SumUnfolds
<1>3. AddsUp(d, SUBSET S, it)
  BY <1>1, SumExists
<1>. HIDE DEF it
<1>4. SumsUp(d, S, it)
  <2>1. \A x \in S : d[x] \in Nat
    OBVIOUS
  <2>. HIDE DEF S
  <2>. QED  BY <1>1, <1>3, <2>1, SumAnyOrder
<1>5. T = {}
  <2> SUFFICES ASSUME T # {} PROVE FALSE
    OBVIOUS
  <2>0. T \in SUBSET Nat
    OBVIOUS
  <2>1. PICK m \in T : \A k \in T : m <= k
    <3>. HIDE DEF T
    <3>. QED  BY <2>0, LeastNumber
  <2>2. m # 0
    <3>1. 0..(0 - 1) = {} /\ {} \in SUBSET S
      OBVIOUS
    <3>2. it[{}] = 0
      BY <1>3, <3>1 DEF AddsUp
    <3>. QED  BY <3>1, <3>2
  <2>3. m - 1 \in S /\ m \in Nat /\ m - 1 \in 0..n /\ ~(m <= m - 1)
    BY <2>2
  <2>4. it[0..((m - 1) - 1)] = partial[m - 1]
    BY <2>1, <2>3
  <2>5. (0..(m - 1)) \ {m - 1} = 0..((m - 1) - 1)
    <3>1. \A i \in (0..(m - 1)) \ {m - 1} : i \in 0..((m - 1) - 1)
      BY <2>3
    <3>2. \A i \in 0..((m - 1) - 1) : i \in (0..(m - 1)) \ {m - 1}
      BY <2>3
    <3>. QED  BY <3>1, <3>2
  <2>6. 0..(m - 1) \in SUBSET S /\ m - 1 \in 0..(m - 1)
    BY <2>3
  <2>7. it[0..(m - 1)] = d[m - 1] + it[0..((m - 1) - 1)]
    <3>1. it[0..(m - 1)] = d[m - 1] + it[(0..(m - 1)) \ {m - 1}]
      BY <1>4, <2>6 DEF SumsUp
    <3>. QED  BY <2>5, <3>1
  <2>8. partial[(m - 1) + 1] = partial[m - 1] + d[m - 1] /\ (m - 1) + 1 = m
    BY <2>3
  <2>9. partial[m - 1] \in Nat /\ d[m - 1] \in Nat
    BY <2>3
  <2>. QED  BY <2>1, <2>4, <2>7, <2>8, <2>9
<1>6. it[0..(n - 1)] = partial[n]
  BY <1>5
<1>. QED  BY <1>2, <1>6

----------------------------------------------------------------------------
(* What is on the screen. *)

\* The frame of a sender is one that the code builds for its file.
Native(s) == /\ s.by = "native" /\ s.frame # Nothing
             /\ s.frame = Session(s.file, s.symbol_size, s.index)

Browser(s) == /\ s.by = "browser" /\ s.frame # Nothing
              /\ \E len \in Lengths(s.file, s.index) :
                   s.frame = SegmentFrame(s.file, s.symbol_size, s.index, len, "zstd")

Old(s) == /\ s.by = "old" /\ SegmentCount(s.file.size) = 1
          /\ WholeFrame(s.file, s.symbol_size, "none") # Nothing
          /\ \E v \in OldVersions :
               s.frame = [WholeFrame(s.file, s.symbol_size, "none") EXCEPT !.payload.version = v]

FrameInv ==
  sending # NoSender =>
    /\ sending = Sending(sending.by, sending.file, sending.symbol_size, sending.index,
                         sending.frame)
    /\ sending.file \in Files
    /\ sending.symbol_size \in SymbolSizes /\ ValidSymbolSize(sending.symbol_size)
    /\ sending.index \in Segments(sending.file)
    /\ Native(sending) \/ Browser(sending) \/ Old(sending)

LEMMA StepFrame == FrameInv /\ [Next]_vars => FrameInv'
<1> SUFFICES ASSUME FrameInv, [Next]_vars PROVE FrameInv'
  OBVIOUS
<1>1. CASE UNCHANGED sending
  BY <1>1 DEF FrameInv
<1>2. ASSUME NEW f \in Files, NEW t \in SymbolSizes, Create(f, t)
      PROVE  FrameInv'
  <2>1. 0 \in Segments(f) /\ Session(f, t, 0) # Nothing /\ ValidSymbolSize(t)
    BY <1>2, FileType DEF Create
  <2>2. sending' = Sending("native", f, t, 0, Session(f, t, 0))
    BY <1>2 DEF Create
  <2>3. Native(sending')
    BY <2>1, <2>2 DEF Native, Sending
  <2>. QED  BY <2>1, <2>2, <2>3 DEF FrameInv, Sending
<1>3. ASSUME NEW f \in Files, NEW t \in SymbolSizes, NEW v \in OldVersions,
             OldSender(f, t, v)
      PROVE  FrameInv'
  <2>1. /\ 0 \in Segments(f) /\ ValidSymbolSize(t)
        /\ SegmentCount(f.size) = 1 /\ WholeFrame(f, t, "none") # Nothing
    BY <1>3, FileType DEF OldSender
  <2>2. sending' = Sending("old", f, t, 0, [WholeFrame(f, t, "none") EXCEPT !.payload.version = v])
    BY <1>3 DEF OldSender
  <2>3. Old(sending')
    BY <2>1, <2>2 DEF Old, Sending
  <2>. QED  BY <2>1, <2>2, <2>3 DEF FrameInv, Sending
<1>4. ASSUME NEW f \in Files, NEW t \in SymbolSizes, NEW i \in Segments(f),
             NEW len \in Lengths(f, i), NewSegment(f, t, i, len)
      PROVE  FrameInv'
  <2>1. /\ SegmentFrame(f, t, i, len, "zstd") # Nothing /\ ValidSymbolSize(t)
        /\ sending' = Sending("browser", f, t, i, SegmentFrame(f, t, i, len, "zstd"))
    BY <1>4 DEF NewSegment
  <2>2. Browser(sending')
    BY <2>1 DEF Browser, Sending
  <2>. QED  BY <2>1, <2>2 DEF FrameInv, Sending
<1>5. ASSUME sending # NoSender, NEW i \in Segments(sending.file), SelectSegment(i)
      PROVE  FrameInv'
  <2> DEFINE frame == Session(sending.file, sending.symbol_size, i)
  <2>1. CASE frame = Nothing
    BY <1>1, <1>5, <2>1 DEF SelectSegment
  <2>2. CASE frame # Nothing
    <3>1. sending.by = "native" /\ sending' = [sending EXCEPT !.index = i, !.frame = frame]
      BY <1>5, <2>2 DEF SelectSegment
    <3>2. Native(sending)
      BY <1>5, <3>1 DEF FrameInv, Browser, Old
    <3>. HIDE DEF frame
    <3>3. sending' = Sending("native", sending.file, sending.symbol_size, i, frame)
      <4>1. sending = Sending("native", sending.file, sending.symbol_size, sending.index,
                              sending.frame)
        BY <1>5, <3>1 DEF FrameInv
      <4>2. [sending EXCEPT !.index = i, !.frame = frame] =
              Sending("native", sending.file, sending.symbol_size, i, frame)
        <5>1. sending = [by |-> "native", file |-> sending.file,
                         symbol_size |-> sending.symbol_size, index |-> sending.index,
                         frame |-> sending.frame]
          BY <4>1 DEF Sending
        <5>2. [sending EXCEPT !.index = i, !.frame = frame] =
                [by |-> "native", file |-> sending.file,
                 symbol_size |-> sending.symbol_size, index |-> i, frame |-> frame]
          <6> DEFINE u == [sending EXCEPT !.index = i]
          <6>1. [sending EXCEPT !.index = i, !.frame = frame] = [u EXCEPT !.frame = frame]
            OBVIOUS
          <6>2. u = [by |-> "native", file |-> sending.file,
                     symbol_size |-> sending.symbol_size, index |-> i,
                     frame |-> sending.frame]
            BY <5>1
          <6>. HIDE DEF u
          <6>. QED  BY <6>1, <6>2
        <5>3. Sending("native", sending.file, sending.symbol_size, i, frame) =
                [by |-> "native", file |-> sending.file,
                 symbol_size |-> sending.symbol_size, index |-> i, frame |-> frame]
          BY DEF Sending
        <5>. QED  BY <5>2, <5>3
      <4>. QED  BY <3>1, <4>2
    <3>4. Native(sending')
      BY <2>2, <3>3 DEF Native, Sending, frame
    <3>. QED  BY <1>5, <3>3, <3>4 DEF FrameInv, Sending
  <2>. QED  BY <2>1, <2>2
<1>6. CASE Close
  BY <1>6 DEF Close, FrameInv
<1>7. ASSUME NEW r \in Recovered,
             Open(r.m, r.fm) \/ Add(r.m, r.fm, r.bytes) \/ Refuse(r.m, r.fm, r.bytes)
      PROVE  FrameInv'
  BY <1>1, <1>7 DEF Open, Add, Refuse
<1>8. CASE Drop
  BY <1>1, <1>8 DEF Drop
<1>9. ASSUME NEW f \in Files, NEW t \in SymbolSizes, CreateFails(f, t)
      PROVE  FrameInv'
  BY <1>1, <1>9 DEF CreateFails, vars
<1>. QED
  BY <1>1, <1>2, <1>3, <1>4, <1>5, <1>6, <1>7, <1>8, <1>9 DEF Next, vars

----------------------------------------------------------------------------
(* Every segment that is handed over gets in. *)

\* r was recovered under a descriptor that a sender built for so many bytes of a
\* segment of f.
FromFrame(r, f, t, index, len, compression) ==
  LET frame == SegmentFrame(f, t, index, len, compression)
  IN  /\ ValidSymbolSize(t) /\ frame # Nothing
      /\ r.m = SegmentMeta(f, index, len)
      /\ ValidSegment(r.m, ChildId(f.root, index), FileMeta(f, len, compression))
      /\ r.fm = frame.payload.file_meta
      /\ r.fm.compressed_size = len /\ r.bytes.len = len
      /\ r.fm.name = [text |-> f.name.text, len |-> r.fm.name.len]

\* A descriptor of a segment keeps the length and a part of the name.
FrameFields(frame, f, index, len, compression) ==
  /\ ValidSegment(SegmentMeta(f, index, len), ChildId(f.root, index),
                  FileMeta(f, len, compression))
  /\ frame.payload.version = Segmented
  /\ frame.payload.segment = SegmentMeta(f, index, len)
  /\ frame.payload.file_meta.compressed_size = len
  /\ frame.payload.file_meta.name =
       [text |-> f.name.text, len |-> frame.payload.file_meta.name.len]

LEMMA SegmentFrameFields ==
  ASSUME NEW f, NEW t, NEW index, NEW len, NEW compression,
         SegmentFrame(f, t, index, len, compression) # Nothing,
         SegmentMeta(f, index, len) # Nothing
  PROVE  FrameFields(SegmentFrame(f, t, index, len, compression), f, index, len, compression)
<1> DEFINE layout == MetaOf(Padded(len, t), t)
           fm     == FileMeta(f, len, compression)
           p      == Payload(layout, fm, SegmentMeta(f, index, len))
           name   == NameFitting(fm.name, Segmented, Blocks(layout), layout.symbol_size)
           frame  == SegmentFrame(f, t, index, len, compression)
<1>1. /\ p # Nothing /\ frame = Frame(ChildId(f.root, index), p)
      /\ ValidSegment(SegmentMeta(f, index, len), ChildId(f.root, index), fm)
  BY DEF SegmentFrame
<1>2. fm.compressed_size = len /\ fm.name = f.name
  BY DEF FileMeta
<1>3. /\ p.version = Segmented /\ p.segment = SegmentMeta(f, index, len)
      /\ p.file_meta = [fm EXCEPT !.name = name]
  BY <1>1 DEF Payload
<1>4. [fm EXCEPT !.name = name].compressed_size = len /\ [fm EXCEPT !.name = name].name = name
  BY <1>2 DEF FileMeta
<1>5. name = [text |-> f.name.text, len |-> name.len]
  BY <1>2 DEF NameFitting
<1>. HIDE DEF p, name, fm, frame
<1>6. frame.payload = p
  BY <1>1 DEF Frame
<1>. QED  BY <1>1, <1>3, <1>4, <1>5, <1>6 DEF FrameFields, fm, frame

\* Only a sender that played a segment can have had it recovered.
LEMMA RecoveredFrame ==
  ASSUME FrameInv, NEW r \in Recovered
  PROVE  \E f \in Files, t \in SymbolSizes :
           \E index \in Segments(f), compression \in {"none", "zstd"} :
             \E len \in Lengths(f, index) : FromFrame(r, f, t, index, len, compression)
<1> DEFINE info == Received(sending.frame)
           f    == sending.file
           t    == sending.symbol_size
<1>1. /\ sending # NoSender /\ info # Nothing /\ info.segment # Nothing
      /\ r.m = info.segment /\ r.fm = info.file_meta
      /\ r.bytes \in Recoverable(info.segment, info.file_meta.compressed_size)
  BY DEF Recovered
<1>2. /\ info.segment = sending.frame.payload.segment
      /\ info.file_meta = FileMetaOf(sending.frame.payload)
  BY <1>1 DEF Received, Parse
<1>. HIDE DEF info
<1>3. r.bytes.len = info.file_meta.compressed_size
  BY <1>1 DEF Recoverable, Piece
<1>4. /\ f \in Files /\ t \in SymbolSizes /\ ValidSymbolSize(t)
      /\ sending.index \in Segments(f)
  BY <1>1 DEF FrameInv
<1>5. ASSUME NEW compression \in {"none", "zstd"}, NEW len \in Lengths(f, sending.index),
             sending.frame = SegmentFrame(f, t, sending.index, len, compression),
             sending.frame # Nothing
      PROVE  FromFrame(r, f, t, sending.index, len, compression)
  <2>1. sending.frame.payload.segment = SegmentMeta(f, sending.index, len)
    BY <1>5, SegmentHasOwn
  <2>2. SegmentMeta(f, sending.index, len) # Nothing
    BY <1>1, <1>2, <2>1
  <2>3. FrameFields(sending.frame, f, sending.index, len, compression)
    BY <1>5, <2>2, SegmentFrameFields
  <2>4. FileMetaOf(sending.frame.payload) = sending.frame.payload.file_meta
    BY <2>3 DEF FrameFields, FileMetaOf, Segmented, Single
  <2>. QED  BY <1>1, <1>2, <1>3, <1>4, <1>5, <2>3, <2>4 DEF FrameFields, FromFrame
<1>6. CASE Native(sending)
  <2>1. SegmentCount(f.size) \in Nat
    BY <1>4, FileType
  <2>2. ~(SegmentCount(f.size) <= 1)
    BY <1>1, <1>2, <1>6, WholeHasNone DEF Native, Session
  <2>3. sending.frame = SegmentFrame(f, t, sending.index, RawLen(f.size, sending.index), "none")
          /\ sending.frame # Nothing
    BY <1>6, <2>2 DEF Native, Session
  <2>4. RawLen(f.size, sending.index) \in Lengths(f, sending.index)
    BY DEF Lengths
  <2>. QED  BY <1>4, <1>5, <2>3, <2>4
<1>7. CASE Browser(sending)
  BY <1>4, <1>5, <1>7 DEF Browser
<1>8. CASE Old(sending)
  BY <1>1, <1>2, <1>8, WholeHasNone DEF Old
<1>. QED  BY <1>1, <1>6, <1>7, <1>8 DEF FrameInv

\* No descriptor of a segment cuts the name of the file.
NamesFit == root # NoRoot /\ \A f \in Files : f.root = root.id => NameFits(f)

\* The assembler has the name of the file, and what was handed over in full.
NamedInv ==
  NamesFit =>
    /\ \A f \in Files : f.root = root.id => root.name = [text |-> f.name.text, len |-> f.name.len]
    /\ arrived \subseteq Stored

\* A descriptor with the whole name.
LEMMA WholeName ==
  ASSUME NEW r, NEW f \in Files, NEW t \in SymbolSizes, NEW index \in Segments(f),
         NEW compression \in {"none", "zstd"}, NEW len \in Lengths(f, index),
         FromFrame(r, f, t, index, len, compression), NameFits(f)
  PROVE  r.fm.name = [text |-> f.name.text, len |-> f.name.len]
<1>1. r.fm.name.len = f.name.len
  BY DEF NameFits, FromFrame
<1>2. r.fm.name = [text |-> f.name.text, len |-> r.fm.name.len]
  BY DEF FromFrame
<1>. QED  BY <1>1, <1>2

\* add_segment has no reason to refuse a segment of the file in full.
LEMMA GenuineAccepted ==
  ASSUME FrameInv, AssembledInv, NamesFit, NamedInv, NEW r \in Recovered,
         Genuine(r.m, r.bytes)
  PROVE  Acceptable(r.m, r.fm, r.bytes)
<1>1. PICK f \in Files, t \in SymbolSizes :
        \E index \in Segments(f), compression \in {"none", "zstd"} :
          \E len \in Lengths(f, index) : FromFrame(r, f, t, index, len, compression)
  BY RecoveredFrame
<1>2. PICK index \in Segments(f), compression \in {"none", "zstd"} :
        \E len \in Lengths(f, index) : FromFrame(r, f, t, index, len, compression)
  BY <1>1
<1>3. PICK len \in Lengths(f, index) : FromFrame(r, f, t, index, len, compression)
  BY <1>2
<1>4. PICK g \in Files : PiecesOf(g)
  BY DEF AssembledInv, NamesFit
<1>5. /\ r.m.root = f.root /\ r.m.index = index /\ r.m.count = SegmentCount(f.size)
      /\ r.m.offset = index * SegmentRawBytes /\ r.m.root_size = f.size
  BY <1>3 DEF FromFrame, SegmentMeta
<1>6. /\ f.root = root.id /\ f.size = g.size /\ f.name = g.name
      /\ root.size = f.size /\ root.count = SegmentCount(f.size)
  BY <1>4, <1>5, AssemblyAssumption DEF Genuine, PiecesOf
<1>7. r.fm.name = root.name
  <2>1. r.fm.name = [text |-> f.name.text, len |-> f.name.len]
    BY <1>3, <1>6, WholeName DEF NamesFit
  <2>. QED  BY <1>6, <2>1 DEF NamedInv
<1>8. /\ r.m.count \in 1..MaxSegmentCount /\ r.m.index < r.m.count
      /\ len \in 1..RawLen(f.size, index) /\ r.fm.compressed_size = len /\ r.bytes.len = len
  BY <1>3, <1>5 DEF FromFrame, ValidSegment, FileMeta
<1>9. len <= RawLen(f.size, index)
  <2>1. RawLen(f.size, index) \in Nat
    BY FileType, RawLenBound
  <2>. QED  BY <1>8, <2>1
<1>10. r.m.root = root.id /\ r.m.root_sha = root.sha /\ r.bytes = r.m.raw_sha
  BY DEF Genuine
<1>11. ValidRange(r.m, r.fm.compressed_size, root.size)
  BY <1>5, <1>6, <1>8, <1>9 DEF ValidRange
<1>. QED  BY <1>5, <1>6, <1>7, <1>8, <1>9, <1>10, <1>11 DEF Acceptable

LEMMA StepNamed == FrameInv /\ AssembledInv /\ NamedInv /\ [Next]_vars => NamedInv'
<1> SUFFICES ASSUME FrameInv, AssembledInv, NamedInv, [Next]_vars PROVE NamedInv'
  OBVIOUS
<1>1. CASE UNCHANGED assembler
  BY <1>1 DEF assembler, NamedInv, NamesFit, Stored
<1>2. ASSUME NEW r \in Recovered, Open(r.m, r.fm)
      PROVE  NamedInv'
  <2> SUFFICES ASSUME NamesFit'
               PROVE  /\ \A f \in Files : f.root = root'.id =>
                           root'.name = [text |-> f.name.text, len |-> f.name.len]
                      /\ arrived' \subseteq Stored'
    BY DEF NamedInv
  <2>1. /\ root = NoRoot /\ root' = RootOf(r.m, r.fm)
        /\ UNCHANGED <<segments, meta, received_count, arrived>>
    BY <1>2 DEF Open
  <2>2. arrived' = {}
    BY <2>1 DEF AssembledInv
  <2>3. PICK f \in Files, t \in SymbolSizes :
          \E index \in Segments(f), compression \in {"none", "zstd"} :
            \E len \in Lengths(f, index) : FromFrame(r, f, t, index, len, compression)
    BY RecoveredFrame
  <2>4. PICK index \in Segments(f), compression \in {"none", "zstd"} :
          \E len \in Lengths(f, index) : FromFrame(r, f, t, index, len, compression)
    BY <2>3
  <2>5. PICK len \in Lengths(f, index) : FromFrame(r, f, t, index, len, compression)
    BY <2>4
  <2>6. root'.id = f.root /\ root'.name = r.fm.name
    BY <2>1, <2>5 DEF RootOf, FromFrame, SegmentMeta
  <2>7. NameFits(f)
    BY <2>6 DEF NamesFit
  <2>8. root'.name = [text |-> f.name.text, len |-> f.name.len]
    BY <2>5, <2>6, <2>7, WholeName
  <2>. QED  BY <2>2, <2>6, <2>8, AssemblyAssumption
<1>3. ASSUME NEW r \in Recovered, Add(r.m, r.fm, r.bytes)
      PROVE  NamedInv'
  <2>1. root' = root /\ Arrives(r.m, r.bytes) /\ Stored' = Stored \cup {r.m.index}
    BY <1>3 DEF Add, Stored
  <2>. QED  BY <2>1 DEF NamedInv, NamesFit, Arrives
<1>4. ASSUME NEW r \in Recovered, Refuse(r.m, r.fm, r.bytes)
      PROVE  NamedInv'
  <2>1. /\ root' = root /\ Arrives(r.m, r.bytes) /\ Stored' = Stored
        /\ ~Acceptable(r.m, r.fm, r.bytes) \/ r.m.index \in Stored
    BY <1>4 DEF Refuse, Stored
  <2>2. NamesFit /\ Genuine(r.m, r.bytes) => r.m.index \in Stored
    BY <2>1, GenuineAccepted
  <2>. QED  BY <2>1, <2>2 DEF NamedInv, NamesFit, Arrives
<1>5. CASE Drop
  BY <1>5 DEF Drop, NamedInv, NamesFit
<1>6. Next => \/ UNCHANGED assembler
              \/ \E r \in Recovered :
                   Open(r.m, r.fm) \/ Add(r.m, r.fm, r.bytes) \/ Refuse(r.m, r.fm, r.bytes)
              \/ Drop
  BY DEF Next, Create, CreateFails, OldSender, NewSegment, SelectSegment, Close, vars
<1>. QED  BY <1>1, <1>2, <1>3, <1>4, <1>5, <1>6 DEF vars

----------------------------------------------------------------------------
(* The file comes back. *)

\* The canonical lengths of the segments of a file add up to its size.
LEMMA LengthsAddUp ==
  ASSUME NEW size \in Nat \ {0}, NEW d, DOMAIN d = 0..(SegmentCount(size) - 1),
         \A i \in 0..(SegmentCount(size) - 1) : d[i] = RawLen(size, i)
  PROVE  SumFunction(d) = size
<1> DEFINE n       == SegmentCount(size)
           c       == SegmentRawBytes
           partial == [i \in 0..n |-> AtMost(i * c, size)]
<1>1. n \in Nat \ {0} /\ c \in Nat \ {0}
  BY CountType, RawBytesType
<1>2. n * c >= size
  <2> DEFINE q == (size - 1) \div c
             m == (size - 1) % c
  <2>1. q \in Nat /\ m \in 0..(c - 1) /\ size - 1 = c * q + m
    BY <1>1
  <2>2. n = q + 1
    BY DEF SegmentCount
  <2>. HIDE DEF q, m, c, n
  <2>3. n * c = c * q + c /\ c * q \in Nat
    BY <1>1, <2>1, <2>2
  <2>. QED  BY <1>1, <2>1, <2>3
<1>3. \A i \in 0..n : i * c \in Nat
  BY <1>1
<1>4. partial \in [0..n -> Nat]
  BY <1>1, <1>3 DEF AtMost
<1>5. partial[0] = 0
  BY <1>1 DEF AtMost
<1>6. partial[n] = size
  BY <1>1, <1>2, <1>3 DEF AtMost
<1>7. ASSUME NEW i \in 0..(n - 1) PROVE partial[i + 1] = partial[i] + d[i]
  <2>1. i \in 0..n /\ i + 1 \in 0..n
    BY <1>1
  <2>2. partial[i + 1] = AtMost((i + 1) * c, size) /\ partial[i] = AtMost(i * c, size)
    BY <2>1
  <2>3. (i + 1) * c = i * c + c /\ i * c \in Nat
    BY <1>1
  <2>4. d[i] = RawLen(size, i)
    OBVIOUS
  <2> DEFINE x == i * c
  <2>5. d[i] = IF size <= x THEN 0 ELSE AtMost(size - x, c)
    BY <2>4 DEF RawLen
  <2>6. AtMost(x + c, size) = AtMost(x, size) + (IF size <= x THEN 0 ELSE AtMost(size - x, c))
    <3>. HIDE DEF x, c
    <3>1. x \in Nat
      BY <2>3 DEF x
    <3>. QED  BY <1>1, <3>1 DEF AtMost
  <2>. HIDE DEF partial, c
  <2>. QED  BY <2>2, <2>3, <2>5, <2>6 DEF x
<1>8. \A i \in 0..(n - 1) : d[i] \in Nat
  BY <1>1, RawLenBound
<1>. HIDE DEF n, partial, c
<1>. QED  BY <1>1, <1>4, <1>5, <1>6, <1>7, <1>8, SumOfRange DEF n

\* Once every segment was handed over in full, reassemble has something to say.
LEMMA NothingIsMissing ==
  ASSUME AssembledInv, NamedInv, NamesFit, arrived = 0..(root.count - 1),
         root.size <= MaxInMemory, \A i \in Stored : segments[i].len = RawLen(root.size, i)
  PROVE  Reassemble # NoStream
<1>1. PICK f \in Files : PiecesOf(f)
  BY DEF AssembledInv, NamesFit
<1>2. root.size = f.size /\ root.count = SegmentCount(f.size) /\ root.size \in Nat \ {0}
        /\ root.count \in Nat \ {0}
  BY <1>1, FileType DEF PiecesOf
<1>3. Stored = 0..(root.count - 1)
  BY <1>1, <1>2 DEF NamedInv, PiecesOf, Segments
<1>4. Complete
  <2>1. 0 \in Int /\ root.count - 1 \in Int /\ 0 <= root.count - 1
    BY <1>2
  <2>2. Cardinality(0..(root.count - 1)) = (root.count - 1) - 0 + 1
    BY <2>1, FS_Interval
  <2>3. received_count = root.count
    BY <1>2, <1>3, <2>2 DEF AssembledInv
  <2>. QED  BY <2>3 DEF Complete, NamesFit
<1>5. SumFunction([i \in Stored |-> segments[i].len]) = root.size
  <2> DEFINE d == [i \in Stored |-> segments[i].len]
  <2>1. DOMAIN d = 0..(SegmentCount(root.size) - 1)
    BY <1>2, <1>3
  <2>2. \A i \in 0..(SegmentCount(root.size) - 1) : d[i] = RawLen(root.size, i)
    BY <1>2, <1>3
  <2>. HIDE DEF d
  <2>3. SumFunction(d) = root.size
    BY <1>2, <2>1, <2>2, LengthsAddUp
  <2>. QED  BY <2>3 DEF d
<1>6. Reassemble = [i \in Stored |-> segments[i].data]
  BY <1>4, <1>5 DEF Reassemble
<1>7. DOMAIN Reassemble = Stored /\ DOMAIN NoStream = {} /\ 0 \in Stored
  BY <1>2, <1>3, <1>6 DEF NoStream
<1>. QED  BY <1>7

\* What reassemble returns is the file that the first descriptor was about, and it
\* returns it as soon as every segment has been handed over, in whatever order and
\* however often, provided that no shorter piece took the place of one, that no
\* descriptor cuts the name and that the file is small enough to be put together
\* in memory (assembler.rs:177-252).
THEOREM FileComesBack == Spec => []ReassembledIsFile
<1>1. Init => FrameInv /\ NamedInv
  BY DEF Init, FrameInv, NamedInv, NamesFit
<1>2. Spec => [](PlayedInv /\ AssembledInv)
  <2>1. PlayedInv /\ AssembledInv /\ [Next]_vars => (PlayedInv /\ AssembledInv)'
    BY StepPlayed, StepAssembled
  <2>. QED  BY <2>1, InitAssembled, PTL DEF Spec
<1>3. Spec => []FrameInv
  BY <1>1, StepFrame, PTL DEF Spec
<1>4. Spec => []NamedInv
  BY <1>1, <1>2, <1>3, StepNamed, PTL DEF Spec
<1>5. ASSUME AssembledInv, NamedInv, NamesFit, arrived = 0..(root.count - 1),
             root.size <= MaxInMemory,
             \A i \in Stored : segments[i].len = RawLen(root.size, i)
      PROVE  Reassemble # NoStream
  BY <1>5, NothingIsMissing
<1>6. Spec => [](Reassemble \in {NoStream} \cup (IF root = NoRoot THEN {} ELSE {root.sha}))
  BY OnlyTheFile
<1>7. AssembledInv /\ NamedInv
      /\ Reassemble \in {NoStream} \cup (IF root = NoRoot THEN {} ELSE {root.sha})
        => ReassembledIsFile
  BY <1>5 DEF ReassembledIsFile, NamesFit
<1>. QED  BY <1>2, <1>4, <1>6, <1>7, PTL

----------------------------------------------------------------------------
(* What a sender announces is understood. *)

LEMMA Quotient ==
  ASSUME NEW t \in Nat \ {0}, NEW q \in Nat, NEW m \in 0..(t - 1)
  PROVE  (t * q + m) \div t = q /\ ((t * q + m) % t) = m
<1> DEFINE c == t * q + m
           s == c \div t
           r == c % t
<1>1. c \in Nat
  OBVIOUS
<1>2. s \in Nat /\ r \in 0..(t - 1) /\ c = t * s + r
  BY <1>1
<1>3. t * q + m = t * s + r
  BY <1>2
<1>. HIDE DEF c, s, r
<1>4. ~(s + 1 <= q)
  <2> SUFFICES ASSUME s + 1 <= q PROVE FALSE
    OBVIOUS
  <2>1. PICK e \in Nat : q = s + 1 + e
    <3>1. q - s - 1 \in Nat /\ q = s + 1 + (q - s - 1)
      BY <1>2
    <3>. QED  BY <3>1
  <2>2. t * q = t * s + t + t * e /\ t * e \in Nat /\ t * s \in Nat
    BY <1>2, <2>1
  <2>. QED  BY <1>2, <1>3, <2>2
<1>5. ~(q + 1 <= s)
  <2> SUFFICES ASSUME q + 1 <= s PROVE FALSE
    OBVIOUS
  <2>1. PICK e \in Nat : s = q + 1 + e
    <3>1. s - q - 1 \in Nat /\ s = q + 1 + (s - q - 1)
      BY <1>2
    <3>. QED  BY <3>1
  <2>2. t * s = t * q + t + t * e /\ t * e \in Nat /\ t * q \in Nat
    BY <2>1
  <2>. QED  BY <1>2, <1>3, <2>2
<1>6. s = q
  BY <1>2, <1>4, <1>5
<1>7. t * s = t * q /\ t * q \in Nat
  BY <1>6
<1>8. r = m
  BY <1>2, <1>3, <1>7
<1>. QED  BY <1>6, <1>8 DEF c, s, r

\* Padding adds less than a symbol.
LEMMA PaddedSymbols ==
  ASSUME NEW n \in Nat \ {0}, NEW t \in Nat \ {0}
  PROVE  /\ n <= Padded(n, t) /\ Padded(n, t) - t < n
         /\ \E s \in Nat \ {0} : Padded(n, t) = t * s /\ Padded(n, t) \div t = s
<1> DEFINE q == n \div t
           r == n % t
<1>1. q \in Nat /\ r \in 0..(t - 1) /\ n = t * q + r /\ t * q \in Nat
  OBVIOUS
<1>2. Padded(n, t) = IF r = 0 THEN n ELSE n + (t - r)
  BY DEF Padded
<1>. HIDE DEF q, r
<1>3. CASE r = 0
  <2>1. Padded(n, t) = t * q + 0
    BY <1>1, <1>2, <1>3
  <2>2. 0 \in 0..(t - 1)
    OBVIOUS
  <2>3. (t * q + 0) \div t = q
    BY <1>1, <2>2, Quotient
  <2>4. q # 0
    <3>1. q = 0 => t * q = 0
      OBVIOUS
    <3>. QED  BY <1>1, <1>3, <3>1
  <2>5. t * q + 0 = t * q
    BY <1>1
  <2>. QED  BY <1>1, <1>2, <1>3, <2>1, <2>3, <2>4, <2>5
<1>4. CASE r # 0
  <2>1. t * (q + 1) = t * q + t /\ t * (q + 1) \in Nat /\ q + 1 \in Nat \ {0}
    BY <1>1
  <2>2. Padded(n, t) = t * (q + 1) + 0
    BY <1>1, <1>2, <1>4, <2>1
  <2>3. 0 \in 0..(t - 1)
    OBVIOUS
  <2>4. (t * (q + 1) + 0) \div t = q + 1
    BY <2>1, <2>3, Quotient
  <2>5. t * (q + 1) + 0 = t * (q + 1)
    BY <2>1
  <2>. QED  BY <1>1, <1>2, <1>4, <2>1, <2>2, <2>4, <2>5
<1>. QED  BY <1>1, <1>3, <1>4

\* RaptorQ makes no more blocks than allowed, none of them empty or too large, and
\* puts every symbol into one.
GoodPartition(symbols) ==
  LET k == Partition(symbols)
  IN  \E z \in 1..255 :
        /\ DOMAIN k = 0..(z - 1)
        /\ \A sbn \in 0..(z - 1) : k[sbn] \in 1..MaxBlockSymbols
        /\ SumFunction(k) = symbols

LEMMA PartitionFits ==
  ASSUME NEW symbols \in Nat \ {0}, symbols <= MaxTotalSymbols
  PROVE  GoodPartition(symbols)
<1> DEFINE c == MaxBlockSymbols
           z == (symbols + c - 1) \div c
           q == symbols \div z
           r == symbols % z
           k == Partition(symbols)
<1>1. c \in Nat \ {0} /\ MaxTotalSymbols \in Nat /\ MaxTotalSymbols <= 255 * c
  BY DescriptorAssumption, LimitsAssumption
<1>2. z \in Nat /\ c * z <= symbols + c - 1 /\ symbols <= c * z
  <2> DEFINE m == (symbols + c - 1) % c
  <2>1. symbols + c - 1 \in Nat
    BY <1>1
  <2>2. z \in Nat /\ m \in 0..(c - 1) /\ symbols + c - 1 = c * z + m
    BY <1>1, <2>1
  <2>. HIDE DEF z, m, c
  <2>3. c * z \in Nat
    BY <1>1, <2>2
  <2>. QED  BY <1>1, <2>2, <2>3
<1>. HIDE DEF z, c
<1>3. z # 0
  <2>1. z = 0 => c * z = 0
    BY <1>1
  <2>. QED  BY <1>2, <2>1
<1>4. z <= 255
  <2> SUFFICES ASSUME ~(z <= 255) PROVE FALSE
    OBVIOUS
  <2>1. PICK e \in Nat : z = 256 + e
    <3>1. z - 256 \in Nat /\ z = 256 + (z - 256)
      BY <1>2
    <3>. QED  BY <3>1
  <2>2. c * z = 256 * c + c * e /\ c * e \in Nat
    <3>1. \A x, y \in Nat : x * (256 + y) = 256 * x + x * y /\ x * y \in Nat
      OBVIOUS
    <3>. QED  BY <1>1, <2>1, <3>1
  <2>. QED  BY <1>1, <1>2, <2>2
<1>5. z <= symbols
  <2> SUFFICES ASSUME ~(z <= symbols) PROVE FALSE
    OBVIOUS
  <2>1. z - symbols - 1 \in Nat /\ z = symbols + 1 + (z - symbols - 1)
    BY <1>2
  <2>2. c * z = c * symbols + c + c * (z - symbols - 1) /\ c * (z - symbols - 1) \in Nat
    BY <1>1, <2>1
  <2>3. symbols <= c * symbols /\ c * symbols \in Nat
    <3>1. c - 1 \in Nat /\ c * symbols = symbols + (c - 1) * symbols
            /\ (c - 1) * symbols \in Nat
      BY <1>1
    <3>. QED  BY <3>1
  <2>. QED  BY <1>1, <1>2, <2>2, <2>3
<1>6. q \in Nat /\ r \in 0..(z - 1) /\ symbols = z * q + r /\ z * q \in Nat
  BY <1>2, <1>3
<1>7. k = [sbn \in 0..(z - 1) |-> q + (IF sbn < r THEN 1 ELSE 0)]
  BY DEF Partition, z, c
<1>. HIDE DEF q, r, k
<1>8. q # 0
  <2>1. q = 0 => z * q = 0
    BY <1>2
  <2>. QED  BY <1>2, <1>5, <1>6, <2>1
<1>9. q <= c /\ (r # 0 => q + 1 <= c)
  <2>1. c * z = z * c /\ z * c \in Nat
    BY <1>1, <1>2
  <2>2. ASSUME q > c PROVE FALSE
    <3>1. q - c - 1 \in Nat /\ q = c + 1 + (q - c - 1)
      BY <1>1, <1>6, <2>2
    <3>2. z * q = z * c + z + z * (q - c - 1) /\ z * (q - c - 1) \in Nat
      BY <1>1, <1>2, <3>1
    <3>. QED  BY <1>2, <1>3, <1>6, <2>1, <3>2
  <2>3. ASSUME r # 0, q = c PROVE FALSE
    <3>1. z * q = z * c
      BY <2>3
    <3>. QED  BY <1>2, <1>6, <2>1, <2>3, <3>1
  <2>. QED  BY <1>1, <1>6, <2>2, <2>3
<1>10. DOMAIN k = 0..(z - 1)
         /\ \A sbn \in 0..(z - 1) : k[sbn] = q + (IF sbn < r THEN 1 ELSE 0)
  BY <1>7
<1>11. \A sbn \in 0..(z - 1) : k[sbn] \in 1..c
  BY <1>1, <1>2, <1>6, <1>8, <1>9, <1>10
<1>12. SumFunction(k) = symbols
  <2> DEFINE partial == [i \in 0..z |-> i * q + AtMost(i, r)]
  <2>1. partial \in [0..z -> Nat]
    BY <1>2, <1>6 DEF AtMost
  <2>2. partial[0] = 0
    BY <1>2, <1>6 DEF AtMost
  <2>3. partial[z] = symbols
    <3>1. partial[z] = z * q + AtMost(z, r)
      BY <1>2
    <3>. QED  BY <1>2, <1>6, <3>1 DEF AtMost
  <2>4. ASSUME NEW i \in 0..(z - 1) PROVE partial[i + 1] = partial[i] + k[i]
    <3>1. i \in Nat /\ i + 1 \in 0..z /\ i \in 0..z
      BY <1>2
    <3>2. partial[i + 1] = (i + 1) * q + AtMost(i + 1, r) /\ partial[i] = i * q + AtMost(i, r)
      BY <3>1
    <3>3. (i + 1) * q = i * q + q /\ i * q \in Nat
      BY <1>6, <3>1
    <3>4. AtMost(i + 1, r) = AtMost(i, r) + (IF i < r THEN 1 ELSE 0)
            /\ AtMost(i, r) \in Nat
      BY <1>6, <3>1 DEF AtMost
    <3>5. k[i] = q + (IF i < r THEN 1 ELSE 0)
      BY <1>10
    <3>. HIDE DEF partial
    <3>. QED  BY <1>6, <3>2, <3>3, <3>4, <3>5
  <2>5. \A i \in 0..(z - 1) : k[i] \in Nat
    BY <1>1, <1>11
  <2>. HIDE DEF partial
  <2>. QED  BY <1>2, <1>10, <2>1, <2>2, <2>3, <2>4, <2>5, SumOfRange
<1>13. z \in 1..255
  BY <1>2, <1>3, <1>4
<1>. QED  BY <1>10, <1>11, <1>12, <1>13 DEF GoodPartition, k, c

\* A piece of a file, up to a full segment, in symbols of any size.
LEMMA LayoutValid ==
  ASSUME NEW n \in 1..SegmentRawBytes, NEW t, ValidSymbolSize(t)
  PROVE  /\ ValidMeta(MetaOf(Padded(n, t), t))
         /\ n <= Padded(n, t) /\ Padded(n, t) - t < n
         /\ Blocks(MetaOf(Padded(n, t), t)) \in Nat
<1> DEFINE len    == Padded(n, t)
           layout == MetaOf(len, t)
<1>1. /\ t \in Nat \ {0} /\ MinSymbolSize <= t /\ MinSymbolSize \in Nat \ {0}
      /\ MaxObjectBytes \in Nat /\ MaxTotalSymbols \in Nat
      /\ SegmentRawBytes \in Nat /\ n \in Nat \ {0} /\ n <= SegmentRawBytes
  BY DescriptorAssumption, RawBytesType DEF ValidSymbolSize
<1>2. len \in n..MaxObjectBytes
  BY <1>1, PaddingFits
<1>3. n <= len /\ len - t < n
  BY <1>1, PaddedSymbols
<1>4. PICK s \in Nat \ {0} : len = t * s /\ len \div t = s
  BY <1>1, PaddedSymbols
<1>. HIDE DEF len
<1>5. s <= MaxTotalSymbols
  <2> SUFFICES ASSUME ~(s <= MaxTotalSymbols) PROVE FALSE
    OBVIOUS
  <2>1. PICK a \in Nat : t = MinSymbolSize + a
    <3>1. t - MinSymbolSize \in Nat /\ t = MinSymbolSize + (t - MinSymbolSize)
      BY <1>1
    <3>. QED  BY <3>1
  <2>2. PICK b \in Nat : s = MaxTotalSymbols + 1 + b
    <3>1. s - MaxTotalSymbols - 1 \in Nat
            /\ s = MaxTotalSymbols + 1 + (s - MaxTotalSymbols - 1)
      BY <1>1
    <3>. QED  BY <3>1
  <2>3. \A x, y, u, v \in Nat :
          (x + u) * (y + 1 + v) = y * x + x + x * v + u * (y + 1 + v)
            /\ x * v \in Nat /\ u * (y + 1 + v) \in Nat /\ y * x \in Nat
    OBVIOUS
  <2>4. t * s = MaxTotalSymbols * MinSymbolSize + MinSymbolSize + MinSymbolSize * b
                  + a * (MaxTotalSymbols + 1 + b)
          /\ MinSymbolSize * b \in Nat /\ a * (MaxTotalSymbols + 1 + b) \in Nat
          /\ MaxTotalSymbols * MinSymbolSize \in Nat
    BY <1>1, <2>1, <2>2, <2>3
  <2>5. MaxObjectBytes <= MaxTotalSymbols * MinSymbolSize /\ len <= MaxObjectBytes
    BY <1>1, <1>2, LimitsAssumption
  <2>. QED  BY <1>1, <1>4, <2>4, <2>5
<1>6. GoodPartition(s)
  BY <1>5, PartitionFits
<1>7. PICK z \in 1..255 :
        /\ DOMAIN Partition(s) = 0..(z - 1)
        /\ \A sbn \in 0..(z - 1) : Partition(s)[sbn] \in 1..MaxBlockSymbols
        /\ SumFunction(Partition(s)) = s
  BY <1>6 DEF GoodPartition
<1>8. /\ layout.k = Partition(s) /\ layout.transfer_length = len /\ layout.symbol_size = t
      /\ layout.oti = Oti(len, t, Partition(s))
  BY <1>4 DEF MetaOf
<1>. HIDE DEF layout
<1>9. Blocks(layout) = z
  <2>1. 0 \in Int /\ z - 1 \in Int /\ 0 <= z - 1
    OBVIOUS
  <2>2. Cardinality(0..(z - 1)) = (z - 1) - 0 + 1
    BY <2>1, FS_Interval
  <2>3. (z - 1) - 0 + 1 = z
    OBVIOUS
  <2>4. DOMAIN layout.k = 0..(z - 1)
    BY <1>7, <1>8
  <2>5. Blocks(layout) = Cardinality(0..(z - 1))
    BY <2>4 DEF Blocks
  <2>. QED  BY <2>2, <2>3, <2>5
<1>10. TotalSymbols(layout) = s
  BY <1>7, <1>8 DEF TotalSymbols
<1>11. s * t = t * s /\ t * z \in Nat
  BY <1>1
<1>12. ValidMeta(layout)
  <2>1. ValidSymbolSize(layout.symbol_size)
          /\ layout.oti = Oti(layout.transfer_length, layout.symbol_size, layout.k)
    BY <1>8
  <2>2. layout.transfer_length \in 1..MaxObjectBytes
    BY <1>1, <1>2, <1>8
  <2>3. /\ Blocks(layout) \in 1..255
        /\ \A sbn \in DOMAIN layout.k : layout.k[sbn] \in 1..MaxBlockSymbols
    BY <1>7, <1>8, <1>9
  <2>4. TotalSymbols(layout) <= MaxTotalSymbols
    BY <1>5, <1>10
  <2> DEFINE bytes == TotalSymbols(layout) * layout.symbol_size
  <2>5. bytes = len
    BY <1>4, <1>8, <1>10, <1>11
  <2>6. layout.symbol_size * Blocks(layout) \in Nat
    BY <1>8, <1>9, <1>11
  <2>7. len \in Nat /\ len <= MaxObjectBytes
    BY <1>1, <1>2
  <2>8. layout.transfer_length <= bytes
    BY <1>8, <2>5, <2>7
  <2>. HIDE DEF bytes
  <2>9. bytes <= MaxObjectBytes + layout.symbol_size * Blocks(layout)
    <3> DEFINE w == layout.symbol_size * Blocks(layout)
    <3>1. w \in Nat
      BY <2>6
    <3>. HIDE DEF w
    <3>2. bytes <= MaxObjectBytes + w
      BY <1>1, <2>5, <2>7, <3>1
    <3>. QED  BY <3>2 DEF w
  <2>. QED  BY <2>1, <2>2, <2>3, <2>4, <2>8, <2>9 DEF ValidMeta, bytes
<1>. QED  BY <1>3, <1>9, <1>12 DEF len, layout

\* The part of the name that fits is no longer than the name.
LEMMA NameShortened ==
  ASSUME NEW f \in Files, NEW version \in 1..Segmented, NEW blocks \in Nat, NEW t \in Nat
  PROVE  NameFitting(f.name, version, blocks, t).text = f.name.text
         /\ NameFitting(f.name, version, blocks, t).len \in 0..f.name.len
<1> DEFINE others == BodyLength(version, blocks, 0)
           room   == AtMost(255, IF t < others THEN 0 ELSE t - others)
           bytes  == AtMost(f.name.len, room)
<1>1. f.name.len \in Nat \ {0} /\ f.name.width \in Nat \ {0}
  BY AssemblyAssumption
<1>2. others \in Nat
  BY DEF BodyLength, Fixed, NameTail, CodecTail, SegmentTail, Segmented
<1>. HIDE DEF others
<1>3. room \in Nat
  BY <1>2 DEF AtMost
<1>. HIDE DEF room
<1>4. bytes \in 0..f.name.len
  BY <1>1, <1>3 DEF AtMost
<1>5. NameFitting(f.name, version, blocks, t) =
        [text |-> f.name.text, len |-> bytes - (bytes % f.name.width)]
  BY DEF NameFitting, others, room
<1>. HIDE DEF bytes
<1>6. (bytes % f.name.width) \in 0..bytes
  <2>1. /\ bytes \div f.name.width \in Nat
        /\ bytes % f.name.width \in 0..(f.name.width - 1)
        /\ bytes = f.name.width * (bytes \div f.name.width) + (bytes % f.name.width)
    BY <1>1, <1>4
  <2>2. f.name.width * (bytes \div f.name.width) \in Nat
    BY <1>1, <2>1
  <2>. QED  BY <1>4, <2>1, <2>2
<1>. QED  BY <1>1, <1>4, <1>5, <1>6

\* A descriptor with the layout of n bytes in symbols of t, for a file.
Announced(frame, f, n, t, version, compression, segment) ==
  LET layout == MetaOf(Padded(n, t), t)
      p      == frame.payload
  IN  /\ frame.symbol_size = t
      /\ frame.total_blocks = Blocks(layout) /\ frame.total_symbols = TotalSymbols(layout)
      /\ p = [len |-> t, version |-> version, meta |-> layout, file_meta |-> p.file_meta,
              segment |-> segment]
      /\ p.file_meta.name.text = f.name.text /\ p.file_meta.name.len \in 0..f.name.len
      /\ p.file_meta = [name |-> p.file_meta.name, original_size |-> f.size, crc |-> f.data,
                        compression |-> compression, compressed_size |-> n, known |-> TRUE]
      /\ BodyLength(version, Blocks(layout), p.file_meta.name.len) <= t

\* What build_frame and build_segment_frame put into it.
LEMMA FrameAnnounces ==
  ASSUME NEW f \in Files, NEW n \in 1..SegmentRawBytes, NEW t, ValidSymbolSize(t),
         NEW compression, NEW segment, NEW sid,
         Payload(MetaOf(Padded(n, t), t), FileMeta(f, n, compression), segment) # Nothing
  PROVE  Announced(Frame(sid, Payload(MetaOf(Padded(n, t), t), FileMeta(f, n, compression), segment)),
                   f, n, t, IF segment = Nothing THEN Single ELSE Segmented, compression, segment)
<1> DEFINE layout  == MetaOf(Padded(n, t), t)
           fm      == FileMeta(f, n, compression)
           p       == Payload(layout, fm, segment)
           version == IF segment = Nothing THEN Single ELSE Segmented
           name    == NameFitting(f.name, version, Blocks(layout), t)
           frame   == Frame(sid, p)
<1>1. Blocks(layout) \in Nat /\ layout.symbol_size = t
  BY LayoutValid DEF MetaOf
<1>2. version \in 1..Segmented /\ t \in Nat
  BY DescriptorAssumption DEF Single, Segmented, ValidSymbolSize
<1>3. fm = [name |-> f.name, original_size |-> f.size, crc |-> f.data,
            compression |-> compression, compressed_size |-> n, known |-> TRUE]
  BY DEF FileMeta
<1>4. name.text = f.name.text /\ name.len \in 0..f.name.len
  <2>. HIDE DEF version, layout
  <2>. QED  BY <1>1, <1>2, NameShortened
<1>. HIDE DEF layout, fm, name
<1>5. /\ ~(BodyLength(version, Blocks(layout), name.len) > t)
      /\ p = [len |-> t, version |-> version, meta |-> layout,
              file_meta |-> [fm EXCEPT !.name = name], segment |-> segment]
  <2>1. fm.name = f.name
    BY <1>3
  <2>2. p # Nothing
    BY DEF layout, fm
  <2>. QED  BY <1>1, <2>1, <2>2 DEF Payload, name
<1>6. [fm EXCEPT !.name = name] =
        [name |-> name, original_size |-> f.size, crc |-> f.data,
         compression |-> compression, compressed_size |-> n, known |-> TRUE]
  <2>1. fm = [name |-> f.name, original_size |-> f.size, crc |-> f.data,
              compression |-> compression, compressed_size |-> n, known |-> fm.known]
    BY <1>3
  <2>2. [fm EXCEPT !.name = name] =
          [name |-> name, original_size |-> f.size, crc |-> f.data,
           compression |-> compression, compressed_size |-> n, known |-> fm.known]
    BY <2>1
  <2>3. fm.known = TRUE
    BY <1>3
  <2>. QED  BY <2>2, <2>3
<1>7. BodyLength(version, Blocks(layout), name.len) \in Nat
  <2>1. name.len \in Nat
    BY <1>4, AssemblyAssumption
  <2>. QED  BY <1>1, <2>1 DEF BodyLength, Fixed, NameTail, CodecTail, SegmentTail, Segmented
<1>8. BodyLength(version, Blocks(layout), name.len) <= t
  BY <1>2, <1>5, <1>7
<1>. HIDE DEF p, version
<1>9. /\ p = [len |-> t, version |-> version, meta |-> layout, file_meta |-> p.file_meta,
              segment |-> segment]
      /\ p.file_meta = [name |-> name, original_size |-> f.size, crc |-> f.data,
                        compression |-> compression, compressed_size |-> n, known |-> TRUE]
  BY <1>5, <1>6
<1>10. /\ frame.payload = p /\ frame.symbol_size = t
       /\ frame.total_blocks = Blocks(layout) /\ frame.total_symbols = TotalSymbols(layout)
  BY <1>1, <1>9 DEF Frame
<1>. HIDE DEF frame
<1>11. p.file_meta.name = name
  BY <1>9
<1>12. Announced(frame, f, n, t, version, compression, segment)
  BY <1>4, <1>8, <1>9, <1>10, <1>11 DEF Announced, layout
<1>. QED  BY <1>12 DEF frame, p, layout, fm, version

\* An earlier version of the payload takes no more room.
LEMMA OlderAnnounces ==
  ASSUME NEW f \in Files, NEW n \in 1..SegmentRawBytes, NEW t, ValidSymbolSize(t),
         NEW compression, NEW sid, NEW p, NEW v \in {1, 2},
         Announced(Frame(sid, p), f, n, t, Single, compression, Nothing)
  PROVE  Announced([Frame(sid, p) EXCEPT !.payload.version = v], f, n, t, v, compression, Nothing)
<1> DEFINE layout == MetaOf(Padded(n, t), t)
           w      == Frame(sid, p)
           q      == [p EXCEPT !.version = v]
           old    == [w EXCEPT !.payload.version = v]
<1>1. w = [session_id |-> sid, symbol_size |-> p.meta.symbol_size,
           total_blocks |-> Blocks(p.meta), total_symbols |-> TotalSymbols(p.meta), payload |-> p]
  BY DEF Frame
<1>2. w.payload = p
  BY <1>1
<1>3. p = [len |-> t, version |-> Single, meta |-> layout, file_meta |-> p.file_meta,
           segment |-> Nothing]
  BY <1>2 DEF Announced
<1>4. /\ p.file_meta.name.text = f.name.text /\ p.file_meta.name.len \in 0..f.name.len
      /\ p.file_meta = [name |-> p.file_meta.name, original_size |-> f.size, crc |-> f.data,
                        compression |-> compression, compressed_size |-> n, known |-> TRUE]
      /\ BodyLength(Single, Blocks(layout), p.file_meta.name.len) <= t
      /\ w.symbol_size = t
      /\ w.total_blocks = Blocks(layout) /\ w.total_symbols = TotalSymbols(layout)
  BY <1>2 DEF Announced
<1>5. BodyLength(v, Blocks(layout), p.file_meta.name.len) <= t
  <2>1. Blocks(layout) \in Nat
    BY LayoutValid
  <2>2. p.file_meta.name.len \in Nat /\ t \in Nat
    BY <1>4, DescriptorAssumption, AssemblyAssumption DEF ValidSymbolSize
  <2>. HIDE DEF layout
  <2>. QED  BY <1>4, <2>1, <2>2 DEF BodyLength, Fixed, NameTail, CodecTail, SegmentTail, Segmented, Single
<1>. HIDE DEF w, layout
<1>6. old.payload = q /\ old.symbol_size = w.symbol_size
        /\ old.total_blocks = w.total_blocks /\ old.total_symbols = w.total_symbols
  BY <1>1, <1>2
<1>7. q = [len |-> t, version |-> v, meta |-> layout, file_meta |-> p.file_meta,
           segment |-> Nothing]
  BY <1>3
<1>. HIDE DEF q, old
<1>8. q.file_meta = p.file_meta
  BY <1>7
<1>9. Announced(old, f, n, t, v, compression, Nothing)
  BY <1>4, <1>5, <1>6, <1>7, <1>8 DEF Announced, layout
<1>. QED  BY <1>9 DEF old, w

\* A parsed descriptor, or a segment, is not None.
NothingIsNone ==
  /\ \A m, fm, s : [meta |-> m, file_meta |-> fm, segment |-> s] # Nothing
  /\ \A f, index, len : SegmentMeta(f, index, len) # Nothing

\* What the receiver reads.
Reads(frame, f, n, t, version, segment) ==
  LET info == Received(frame)
  IN  /\ info # Nothing
      /\ info.meta = MetaOf(Padded(n, t), t)
      /\ info.segment = IF version = Segmented THEN segment ELSE Nothing
      /\ version = 1 => ~info.file_meta.known
      /\ version # 1 => /\ info.file_meta.known
                        /\ info.file_meta.original_size = f.size
                        /\ info.file_meta.name.text = f.name.text
                        /\ info.file_meta.name.len <= f.name.len
                        /\ info.file_meta.compressed_size = n

LEMMA Understood ==
  ASSUME NothingIsNone, NEW f \in Files, NEW n \in 1..SegmentRawBytes, NEW t, ValidSymbolSize(t),
         NEW version \in {1, 2, Single, Segmented}, NEW compression \in {"none", "zstd"},
         NEW frame, NEW segment,
         Announced(frame, f, n, t, version, compression, segment),
         version # Segmented => compression = "none" /\ n = f.size,
         version = Segmented => segment # Nothing,
         version = Segmented => ValidSegment(segment, frame.session_id, FileMeta(f, n, compression))
  PROVE  Reads(frame, f, n, t, version, segment)
<1> DEFINE layout == MetaOf(Padded(n, t), t)
           p      == frame.payload
           fm     == p.file_meta
           seg    == IF version = Segmented THEN segment ELSE Nothing
           read   == FileMetaOf(p)
           info   == [meta |-> layout, file_meta |-> read, segment |-> seg]
<1>1. /\ p.len = t /\ p.version = version /\ p.meta = layout /\ p.segment = segment
      /\ frame.symbol_size = t
      /\ frame.total_blocks = Blocks(layout) /\ frame.total_symbols = TotalSymbols(layout)
      /\ fm.name.text = f.name.text /\ fm.name.len \in 0..f.name.len
      /\ fm = [name |-> fm.name, original_size |-> f.size, crc |-> f.data,
               compression |-> compression, compressed_size |-> n, known |-> TRUE]
      /\ BodyLength(version, Blocks(layout), fm.name.len) <= t
  BY DEF Announced
<1>2. /\ ValidMeta(layout) /\ n <= layout.transfer_length
      /\ layout.transfer_length - t < n /\ Blocks(layout) \in Nat
      /\ layout.symbol_size = t
  BY LayoutValid DEF MetaOf
<1>3. f.name.len \in Nat \ {0} /\ f.size \in Nat \ {0} /\ t \in Nat \ {0}
        /\ n \in Nat \ {0}
  <2>1. f.name.len \in Nat \ {0} /\ f.size \in Nat \ {0}
    BY AssemblyAssumption
  <2>2. t \in Nat \ {0}
    BY DescriptorAssumption DEF ValidSymbolSize
  <2>3. n \in Nat \ {0}
    BY RawBytesType
  <2>. QED  BY <2>1, <2>2, <2>3
<1>. HIDE DEF layout
<1>4. BodyLength(version, Blocks(layout), fm.name.len) \in Nat
  <2>1. fm.name.len \in Nat
    BY <1>1, <1>3
  <2>. QED  BY <1>2, <2>1 DEF BodyLength, Fixed, NameTail, CodecTail, SegmentTail, Segmented, Single
<1>5. Parse(p) = info
  <2>1. version \in 1..Segmented /\ version # LegacyV4
    BY DEF Single, Segmented, LegacyV4
  <2>2. ~(p.len < BodyLength(version, Blocks(layout), fm.name.len))
    BY <1>1, <1>3, <1>4
  <2>. QED  BY <1>1, <2>1, <2>2 DEF Parse
<1>6. version = 1 => read = NoFileMeta
  BY <1>1 DEF FileMetaOf
<1>7. version = 2 =>
        read = [name |-> fm.name, original_size |-> f.size, crc |-> f.data,
                compression |-> "none", compressed_size |-> f.size, known |-> fm.known]
  <2> SUFFICES ASSUME version = 2
               PROVE  read = [name |-> fm.name, original_size |-> f.size, crc |-> f.data,
                              compression |-> "none", compressed_size |-> f.size,
                              known |-> fm.known]
    OBVIOUS
  <2>1. read = [fm EXCEPT !.compression = "none", !.compressed_size = f.size]
    <3>1. FileMetaOf(p) = [fm EXCEPT !.compression = "none", !.compressed_size = fm.original_size]
      <4>1. p.version = 2
        BY <1>1
      <4>. QED  BY <4>1 DEF FileMetaOf, Single
    <3>2. fm.original_size = f.size
      BY <1>1
    <3>. QED  BY <3>1, <3>2
  <2> DEFINE u == [fm EXCEPT !.compression = "none"]
  <2>2. [fm EXCEPT !.compression = "none", !.compressed_size = f.size] =
          [u EXCEPT !.compressed_size = f.size]
    OBVIOUS
  <2>3. fm = [name |-> fm.name, original_size |-> f.size, crc |-> f.data,
              compression |-> compression, compressed_size |-> n, known |-> fm.known]
    BY <1>1
  <2>. HIDE DEF fm
  <2>4. u = [name |-> fm.name, original_size |-> f.size, crc |-> f.data,
             compression |-> "none", compressed_size |-> n, known |-> fm.known]
    BY <2>3
  <2>. HIDE DEF u
  <2>5. [u EXCEPT !.compressed_size = f.size] =
          [name |-> fm.name, original_size |-> f.size, crc |-> f.data,
           compression |-> "none", compressed_size |-> f.size, known |-> fm.known]
    BY <2>4
  <2>. QED  BY <2>1, <2>2, <2>5
<1>8. version \in {Single, Segmented} => read = fm
  BY <1>1 DEF FileMetaOf, Single, Segmented
<1>9. fm.known = TRUE
  BY <1>1
<1>. HIDE DEF read, fm
<1>10. /\ version = 1 => /\ ~read.known /\ read.compression = "none"
                         /\ read.original_size = 0
       /\ version # 1 => /\ read.known /\ read.original_size = f.size
                         /\ read.name = fm.name /\ read.compressed_size = n
                         /\ read.compression \in {"none", "zstd"}
                         /\ version # Segmented => read.compression = "none"
  <2>1. CASE version = 1
    <3>1. read = NoFileMeta
      BY <1>6, <2>1
    <3>2. NoFileMeta.known = FALSE
      BY DEF NoFileMeta
    <3>3. NoFileMeta.compression = "none" /\ NoFileMeta.original_size = 0
      BY DEF NoFileMeta
    <3>. QED  BY <2>1, <3>1, <3>2, <3>3
  <2>2. CASE version = 2
    BY <1>7, <1>9, <2>2 DEF Segmented
  <2>3. CASE version \in {Single, Segmented}
    BY <1>1, <1>8, <2>3 DEF Single, Segmented
  <2>. QED  BY <2>1, <2>2, <2>3
<1>. HIDE DEF p
<1>11. info # Nothing
  BY DEF NothingIsNone
<1>12. info.meta = layout /\ info.file_meta = read /\ info.segment = seg
  OBVIOUS
<1>. HIDE DEF info
<1>13. Admissible(frame, info)
  <2>1. version # Segmented => f.size <= MaxOriginalBytes
    BY <1>3, RawBytesType, DescriptorAssumption, LimitsAssumption DEF SegmentRawBytes
  <2>2. info.segment = Nothing => read.original_size <= MaxOriginalBytes
    <3>1. 0 <= MaxOriginalBytes
      BY DescriptorAssumption
    <3>. QED  BY <1>10, <1>12, <2>1, <3>1
  <2>3. read.compression \in {"none", "zstd", "xz"}
    BY <1>10
  <2>4. read.known => read.compressed_size <= layout.transfer_length
    BY <1>2, <1>10
  <2>5. read.compression # "none" => read.original_size # 0
    BY <1>3, <1>10
  <2>6. info.segment # Nothing => ValidSegment(info.segment, frame.session_id, read)
    <3> SUFFICES ASSUME info.segment # Nothing
                 PROVE  ValidSegment(segment, frame.session_id, read)
      BY <1>12
    <3>1. version = Segmented
      BY <1>12
    <3>2. ValidSegment(segment, frame.session_id, FileMeta(f, n, compression))
      BY <3>1
    <3>3. FileMeta(f, n, compression).compressed_size = n
      BY DEF FileMeta
    <3>4. read.compressed_size = n /\ read.known
      BY <1>10, <3>1 DEF Segmented
    <3>. QED  BY <3>2, <3>3, <3>4 DEF ValidSegment
  <2>. QED  BY <1>1, <1>2, <1>12, <2>2, <2>3, <2>4, <2>5, <2>6 DEF Admissible
<1>14. Received(frame) = info
  BY <1>5, <1>11, <1>13 DEF Received, p
<1>. QED  BY <1>1, <1>10, <1>11, <1>12, <1>14 DEF Reads, layout

\* What the sender meant is what the receiver reads.
LEMMA SaysWhatIsMeant ==
  ASSUME NothingIsNone, sending # NoSender,
         NEW n \in 1..SegmentRawBytes, NEW t, ValidSymbolSize(t),
         NEW version \in {1, 2, Single, Segmented}, NEW segment,
         sending.frame.payload.version = version,
         Reads(sending.frame, sending.file, n, t, version, segment),
         version = Segmented =>
           /\ segment = SegmentMeta(sending.file, sending.index, n)
           /\ sending.by = "native" => n = RawLen(sending.file.size, sending.index)
  PROVE  OfferUnderstood
<1> DEFINE info == Received(sending.frame)
           f    == sending.file
<1>1. version \in (1..Segmented) \ {LegacyV4}
  BY DEF Single, Segmented, LegacyV4
<1>2. /\ info # Nothing /\ info.meta = MetaOf(Padded(n, t), t)
      /\ info.segment = IF version = Segmented THEN segment ELSE Nothing
      /\ version = 1 => ~info.file_meta.known
      /\ version # 1 => /\ info.file_meta.known
                        /\ info.file_meta.original_size = f.size
                        /\ info.file_meta.name.text = f.name.text
                        /\ info.file_meta.name.len <= f.name.len
                        /\ info.file_meta.compressed_size = n
  BY DEF Reads
<1>. HIDE DEF info
<1>3. info.meta.transfer_length - info.meta.symbol_size < info.file_meta.compressed_size
        \/ ~info.file_meta.known
  <2>1. info.meta.transfer_length = Padded(n, t) /\ info.meta.symbol_size = t
    BY <1>2 DEF MetaOf
  <2>2. Padded(n, t) - t < n
    BY LayoutValid
  <2>. QED  BY <1>2, <2>1, <2>2
<1>4. (info.segment # Nothing) = (version = Segmented)
  BY <1>2 DEF NothingIsNone
<1>5. ASSUME version = Segmented
      PROVE  /\ info.segment.raw_sha = Piece(f, sending.index, info.file_meta.compressed_size)
             /\ sending.by = "native" => info.segment.raw_sha = Slice(f, sending.index)
  <2>1. info.segment = SegmentMeta(f, sending.index, n)
    BY <1>2, <1>5
  <2>2. info.segment.raw_sha = Piece(f, sending.index, n)
    BY <2>1 DEF SegmentMeta
  <2>3. info.file_meta.compressed_size = n
    BY <1>2, <1>5 DEF Segmented
  <2>. QED  BY <1>5, <2>2, <2>3 DEF Slice
<1>. HIDE DEF f
<1>. QED  BY <1>1, <1>2, <1>3, <1>4, <1>5 DEF OfferUnderstood, info, f

\* A file of one segment fits into it.
LEMMA SingleSegment ==
  ASSUME NEW f \in Files, SegmentCount(f.size) <= 1
  PROVE  f.size \in 1..SegmentRawBytes
<1> DEFINE c == SegmentRawBytes
           q == (f.size - 1) \div c
           m == (f.size - 1) % c
<1>1. f.size \in Nat \ {0} /\ c \in Nat \ {0}
  BY FileType, RawBytesType
<1>2. q \in Nat /\ m \in 0..(c - 1) /\ f.size - 1 = c * q + m
  BY <1>1
<1>3. q = 0
  BY <1>2 DEF SegmentCount
<1>. HIDE DEF q, m, c
<1>4. c * q = 0
  BY <1>1, <1>3
<1>. QED  BY <1>1, <1>2, <1>4 DEF c

\* A file that is sent as a whole, by a sender of this release or an earlier one.
ReadsWhole(frame, f, t) ==
  /\ f.size \in 1..SegmentRawBytes
  /\ frame.payload.version = Single
  /\ Reads(frame, f, f.size, t, Single, Nothing)
  /\ \A v : [frame EXCEPT !.payload.version = v].payload.version = v
  /\ \A v \in {1, 2} :
       Reads([frame EXCEPT !.payload.version = v], f, f.size, t, v, Nothing)

LEMMA WholeUnderstood ==
  ASSUME NothingIsNone, NEW f \in Files, NEW t, ValidSymbolSize(t),
         SegmentCount(f.size) <= 1, WholeFrame(f, t, "none") # Nothing
  PROVE  ReadsWhole(WholeFrame(f, t, "none"), f, t)
<1> DEFINE n     == f.size
           p     == Payload(MetaOf(Padded(n, t), t), FileMeta(f, n, "none"), Nothing)
           frame == WholeFrame(f, t, "none")
<1>1. n \in 1..SegmentRawBytes
  BY SingleSegment
<1>2. p # Nothing /\ frame = Frame(f.root, p)
  BY DEF WholeFrame
<1>3. Announced(Frame(f.root, p), f, n, t, Single, "none", Nothing)
  BY <1>1, <1>2, FrameAnnounces
<1>. HIDE DEF p, frame
<1>4. Single # Segmented /\ 1 # Segmented /\ 2 # Segmented
  BY DEF Single, Segmented
<1>5. Reads(frame, f, n, t, Single, Nothing)
  BY <1>1, <1>2, <1>3, <1>4, Understood
<1>6. frame = [session_id |-> f.root, symbol_size |-> p.meta.symbol_size,
               total_blocks |-> Blocks(p.meta), total_symbols |-> TotalSymbols(p.meta),
               payload |-> p]
  BY <1>2 DEF Frame
<1>7. p = [len |-> p.len, version |-> Single, meta |-> p.meta, file_meta |-> p.file_meta,
           segment |-> Nothing]
  <2>1. Frame(f.root, p).payload = p
    BY DEF Frame
  <2>. QED  BY <1>3, <2>1 DEF Announced
<1>8. frame.payload.version = Single
        /\ \A v : [frame EXCEPT !.payload.version = v].payload.version = v
  <2>1. frame.payload = p
    BY <1>6
  <2>2. \A v : [frame EXCEPT !.payload.version = v].payload = [p EXCEPT !.version = v]
    BY <1>6
  <2>3. p.version = Single /\ \A v : [p EXCEPT !.version = v].version = v
    BY <1>7
  <2>. QED  BY <2>1, <2>2, <2>3
<1>9. ASSUME NEW v \in {1, 2}
      PROVE  Reads([frame EXCEPT !.payload.version = v], f, n, t, v, Nothing)
  <2> DEFINE old == [frame EXCEPT !.payload.version = v]
  <2>1. Announced([Frame(f.root, p) EXCEPT !.payload.version = v], f, n, t, v, "none", Nothing)
    BY <1>1, <1>3, OlderAnnounces
  <2>2. Announced(old, f, n, t, v, "none", Nothing)
    BY <1>2, <2>1
  <2>. HIDE DEF old
  <2>3. Reads(old, f, n, t, v, Nothing)
    BY <1>1, <1>4, <2>2, Understood
  <2>. QED  BY <2>3 DEF old
<1>10. ReadsWhole(frame, f, t)
  BY <1>1, <1>5, <1>8, <1>9 DEF ReadsWhole
<1>. QED  BY <1>10 DEF frame

\* A segment of a file.
LEMMA SegmentUnderstood ==
  ASSUME NothingIsNone, NEW f \in Files, NEW t, ValidSymbolSize(t), NEW index \in Segments(f),
         NEW n, NEW compression \in {"none", "zstd"},
         SegmentFrame(f, t, index, n, compression) # Nothing
  PROVE  LET frame == SegmentFrame(f, t, index, n, compression)
         IN  /\ n \in 1..SegmentRawBytes
             /\ frame.payload.version = Segmented
             /\ Reads(frame, f, n, t, Segmented, SegmentMeta(f, index, n))
<1> DEFINE fm    == FileMeta(f, n, compression)
           sid   == ChildId(f.root, index)
           seg   == SegmentMeta(f, index, n)
           p     == Payload(MetaOf(Padded(n, t), t), fm, seg)
           frame == SegmentFrame(f, t, index, n, compression)
<1>1. p # Nothing /\ frame = Frame(sid, p) /\ ValidSegment(seg, sid, fm)
  BY DEF SegmentFrame
<1>2. seg # Nothing
  BY DEF NothingIsNone
<1>3. n \in 1..SegmentRawBytes
  <2>1. fm.compressed_size = n /\ seg.root_size = f.size /\ seg.index = index
    BY DEF FileMeta, SegmentMeta
  <2>2. n \in 1..RawLen(f.size, index)
    BY <1>1, <2>1 DEF ValidSegment
  <2>3. RawLen(f.size, index) \in Nat /\ RawLen(f.size, index) <= SegmentRawBytes
    BY FileType, RawLenBound
  <2>. QED  BY <2>2, <2>3, RawBytesType
<1>. HIDE DEF p, seg, frame
<1>4. Announced(Frame(sid, p), f, n, t, IF seg = Nothing THEN Single ELSE Segmented, compression, seg)
  BY <1>1, <1>3, FrameAnnounces DEF p
<1>5. Announced(frame, f, n, t, Segmented, compression, seg)
  BY <1>1, <1>2, <1>4
<1>6. frame.session_id = sid
  BY <1>1 DEF Frame
<1>7. Reads(frame, f, n, t, Segmented, seg)
  BY <1>1, <1>2, <1>3, <1>5, <1>6, Understood
<1>8. frame.payload.version = Segmented
  BY <1>5 DEF Announced
<1>. QED  BY <1>3, <1>7, <1>8 DEF frame, seg

LEMMA FrameUnderstood == NothingIsNone /\ FrameInv => OfferUnderstood
<1> SUFFICES ASSUME NothingIsNone, FrameInv, sending # NoSender PROVE OfferUnderstood
  BY DEF OfferUnderstood
<1> DEFINE f == sending.file
           t == sending.symbol_size
           i == sending.index
<1>1. f \in Files /\ ValidSymbolSize(t) /\ i \in Segments(f)
  BY DEF FrameInv
<1>2. CASE Native(sending) /\ SegmentCount(f.size) <= 1
  <2>1. sending.frame = WholeFrame(f, t, "none") /\ WholeFrame(f, t, "none") # Nothing
    BY <1>2 DEF Native, Session
  <2>2. /\ f.size \in 1..SegmentRawBytes /\ sending.frame.payload.version = Single
        /\ Reads(sending.frame, f, f.size, t, Single, Nothing)
    <3>1. ReadsWhole(WholeFrame(f, t, "none"), f, t)
      BY <1>1, <1>2, <2>1, WholeUnderstood
    <3>. QED  BY <2>1, <3>1 DEF ReadsWhole
  <2>3. Single # Segmented
    BY DEF Single, Segmented
  <2>. QED  BY <1>1, <2>2, <2>3, SaysWhatIsMeant
<1>3. CASE Native(sending) /\ ~(SegmentCount(f.size) <= 1)
  <2> DEFINE n == RawLen(f.size, i)
  <2>1. sending.frame = SegmentFrame(f, t, i, n, "none") /\ sending.frame # Nothing
    BY <1>3 DEF Native, Session
  <2>. HIDE DEF n
  <2>2. /\ n \in 1..SegmentRawBytes /\ sending.frame.payload.version = Segmented
        /\ Reads(sending.frame, f, n, t, Segmented, SegmentMeta(f, i, n))
    BY <1>1, <2>1, SegmentUnderstood
  <2>. QED  BY <1>1, <2>2, SaysWhatIsMeant DEF n
<1>4. CASE Browser(sending)
  <2>1. PICK n \in Lengths(f, i) : sending.frame = SegmentFrame(f, t, i, n, "zstd")
    BY <1>4 DEF Browser
  <2>2. sending.frame # Nothing /\ sending.by # "native"
    BY <1>4 DEF Browser
  <2>3. /\ n \in 1..SegmentRawBytes /\ sending.frame.payload.version = Segmented
        /\ Reads(sending.frame, f, n, t, Segmented, SegmentMeta(f, i, n))
    BY <1>1, <2>1, <2>2, SegmentUnderstood
  <2>. QED  BY <1>1, <2>2, <2>3, SaysWhatIsMeant
<1>5. CASE Old(sending)
  <2>1. PICK v \in OldVersions :
          sending.frame = [WholeFrame(f, t, "none") EXCEPT !.payload.version = v]
    BY <1>5 DEF Old
  <2>2. SegmentCount(f.size) <= 1 /\ WholeFrame(f, t, "none") # Nothing
    BY <1>5 DEF Old
  <2>3. ReadsWhole(WholeFrame(f, t, "none"), f, t)
    BY <1>1, <2>2, WholeUnderstood
  <2>4. f.size \in 1..SegmentRawBytes /\ sending.frame.payload.version = v
    BY <2>1, <2>3 DEF ReadsWhole
  <2>5. CASE v \in {1, 2}
    <3>1. Reads(sending.frame, f, f.size, t, v, Nothing)
      BY <2>1, <2>3, <2>5 DEF ReadsWhole
    <3>2. v # Segmented
      BY <2>5 DEF Segmented
    <3>. QED  BY <1>1, <2>4, <2>5, <3>1, <3>2, SaysWhatIsMeant
  <2>6. CASE v \notin {1, 2}
    <3>1. v \notin (1..Segmented) \ {LegacyV4}
      BY <2>6 DEF OldVersions, Segmented, LegacyV4
    <3>2. Parse(sending.frame.payload) = Nothing
      BY <2>4, <3>1 DEF Parse
    <3>3. Received(sending.frame) = Nothing
      BY <3>2 DEF Received
    <3>. QED  BY <2>4, <3>1, <3>3 DEF OfferUnderstood
  <2>. QED  BY <2>5, <2>6
<1>. QED  BY <1>2, <1>3, <1>4, <1>5 DEF FrameInv

\* Every descriptor that a sender can build, for files of any length, symbols of
\* any size and names of any length, passes the checks of the receiver and says
\* there what was meant; those of earlier releases are read without what they
\* lack, or refused (descriptor.rs:154-405, meta.rs:116-198, receiver.rs:257-303).
THEOREM EveryOfferUnderstood == ASSUME NothingIsNone PROVE Spec => []OfferUnderstood
<1>1. Init => FrameInv
  BY DEF Init, FrameInv
<1>2. FrameInv => OfferUnderstood
  BY FrameUnderstood
<1>. QED  BY <1>1, <1>2, StepFrame, PTL DEF Spec

=============================================================================
