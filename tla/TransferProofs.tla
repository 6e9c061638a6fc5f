--------------------------- MODULE TransferProofs ---------------------------
(***************************************************************************)
(* Three results about Transfer, for any file and any number of streams,   *)
(* blocks and codes on the screen: whatever is lost, repeated, re-sent or  *)
(* restarted, it implements the safety half of ObjectTransfer; a first     *)
(* pass of which nothing is missed needs no repair symbol; and the         *)
(* receiver in it is the one of ReceiverSession.                           *)
(***************************************************************************)
EXTENDS Transfer, FiniteSetTheorems, TLAPS

\* A set of frames of the file.
OfFile(F) == \A f \in F : f.stream \in Streams

ScreenInv ==
  /\ stream \in Streams
  /\ \E F : OfFile(F) /\ batch \in Seq(F) /\ screen \in Seq(F)

LayoutInv ==
  /\ meta \in R!Metas \cup {NoMeta}
  /\ meta_confirmed \in BOOLEAN
  /\ meta_confirmed <=> meta # NoMeta
  /\ meta # NoMeta =>
       /\ decoded \in [DOMAIN meta.k -> BOOLEAN]
       /\ symbol_cache = R!NoBlocks

\* A checkpoint is only written once the layout is known, and holds no symbol.
CheckpointInv ==
  checkpoint # NoCheckpoint =>
    meta # NoMeta /\ checkpoint.meta \in R!Metas /\ checkpoint.symbols = R!NoBlocks

IInv == ScreenInv /\ LayoutInv /\ CheckpointInv

LEMMA InitInv == Init => IInv
<1> SUFFICES ASSUME Init PROVE IInv
  OBVIOUS
<1>1. ScreenInv
  <2>1. OfFile({}) /\ batch \in Seq({}) /\ screen \in Seq({})
    BY DEF Init, OfFile
  <2>. QED  BY <2>1, TransferAssumption DEF Init, ScreenInv
<1>2. LayoutInv /\ CheckpointInv
  BY DEF Init, R!Init, LayoutInv, CheckpointInv
<1>. QED  BY <1>1, <1>2 DEF IInv

\* What is read off the screen belongs to the file.
LEMMA ReadStream ==
  ASSUME ScreenInv, NEW i \in DOMAIN screen
  PROVE  screen[i].stream \in Streams
<1>1. PICK F : OfFile(F) /\ screen \in Seq(F)
  BY DEF ScreenInv
<1>2. screen[i] \in F
  BY <1>1
<1>. QED  BY <1>1, <1>2 DEF OfFile

LEMMA StepScreen == IInv /\ [Next]_vars => ScreenInv'
<1> SUFFICES ASSUME IInv, [Next]_vars PROVE ScreenInv'
  OBVIOUS
<1>. USE DEF IInv, screenVars
<1>1. PICK F : OfFile(F) /\ batch \in Seq(F) /\ screen \in Seq(F)
  BY DEF ScreenInv
<1>2. CASE UNCHANGED <<stream, batch, screen>>
  BY <1>2 DEF ScreenInv
<1>3. CASE Produce
  <2> DEFINE w == Wire(emitted'[Len(emitted')])
             G == F \cup {w}
  <2>1. /\ batch' = Append(batch, w) /\ UNCHANGED <<stream, screen>>
        /\ stream \in Streams
    BY <1>3 DEF Produce, ScreenInv
  <2>2. w.stream \in Streams
    BY <2>1 DEF Wire
  <2>. HIDE DEF w
  <2>3. OfFile(G)
    BY <1>1, <2>2 DEF OfFile
  <2>4. batch \in Seq(G) /\ screen \in Seq(G)
    BY <1>1
  <2>5. batch' \in Seq(G) /\ screen' \in Seq(G)
    BY <2>1, <2>4
  <2>. QED  BY <2>1, <2>3, <2>5 DEF ScreenInv, OfFile
<1>4. CASE Show
  <2>1. screen' = batch /\ batch' = <<>> /\ stream' = stream
    BY <1>4 DEF Show
  <2>2. batch' \in Seq(F) /\ screen' \in Seq(F)
    BY <1>1, <2>1
  <2>. QED  BY <1>1, <2>1, <2>2 DEF ScreenInv, OfFile
<1>5. ASSUME NEW s \in Streams, Resend(s) PROVE ScreenInv'
  <2>1. screen' = <<>> /\ batch' = <<>> /\ stream' = s
    BY <1>5 DEF Resend
  <2>2. batch' \in Seq(F) /\ screen' \in Seq(F)
    BY <2>1
  <2>. QED  BY <1>1, <2>1, <2>2 DEF ScreenInv, OfFile
<1>6. CASE (\E i \in DOMAIN screen : Read(i)) \/ Checkpoint \/ Restart
  BY <1>2, <1>6 DEF Read, Checkpoint, Restart
<1>. QED  BY <1>2, <1>3, <1>4, <1>5, <1>6 DEF Next, vars

----------------------------------------------------------------------------
(* The receiver's steps. *)

LEMMA LayoutType ==
  ASSUME NEW m \in R!Metas
  PROVE  /\ m # NoMeta
         /\ \A b \in DOMAIN m.k : m.k[b] \in Nat \ {0}
         /\ \E s \in Streams : DOMAIN m.k = DOMAIN s.k
<1>1. PICK s \in Streams : m = R!MetaOf(s)
  BY DEF R!Metas
<1>2. R!StreamRecord(s) /\ m.k = s.k /\ m # NoMeta
  BY <1>1, StreamAssumption DEF R!MetaOf
<1>. QED  BY <1>2 DEF R!StreamRecord

\* A fresh decoder has recovered nothing but what the cache completes.
LEMMA ReplayMap ==
  ASSUME NEW m \in R!Metas, NEW cache, R!Replay(m, cache)
  PROVE  /\ meta' = m
         /\ decoded' \in [DOMAIN m.k -> BOOLEAN]
         /\ cache = R!NoBlocks => \A b \in DOMAIN m.k : decoded'[b] = FALSE
<1>1. meta' = m /\ decoded' \in [DOMAIN m.k -> BOOLEAN]
  BY DEF R!Replay
<1>2. ASSUME cache = R!NoBlocks, NEW b \in DOMAIN m.k PROVE decoded'[b] = FALSE
  <2>1. received'[b] = {}
    BY <1>2 DEF R!Replay, R!Replayable, R!NoBlocks
  <2>2. decoded'[b] \in R!Outcomes(m.k[b], {})
    BY <1>2, <2>1 DEF R!Replay
  <2>3. Cardinality({}) = 0
    BY FS_EmptySet
  <2>4. m.k[b] \in Nat \ {0}
    BY <1>2, LayoutType
  <2>5. decoded'[b] => Cardinality({}) >= m.k[b]
    <3>1. R!Cardinality({}) = Cardinality({})
      BY DEF R!Cardinality, Cardinality
    <3>. QED  BY <2>2, <3>1 DEF R!Outcomes
  <2>6. decoded'[b] \in BOOLEAN
    BY <1>1, <1>2
  <2>7. ~(0 >= m.k[b])
    BY <2>4
  <2>. QED  BY <2>3, <2>5, <2>6, <2>7
<1>. QED  BY <1>1, <1>2

\* What a frame does to the layout and the decoder.
Adopts(f) ==
  /\ f.stream \in Streams
  /\ meta = NoMeta
  /\ meta_confirmed' = TRUE
  /\ R!Replay(R!MetaOf(f.stream), symbol_cache)
  /\ symbol_cache' = R!NoBlocks

Feeds(f) ==
  /\ meta # NoMeta
  /\ UNCHANGED <<meta, meta_confirmed, symbol_cache>>
  /\ f.sbn \in DOMAIN meta.k
  /\ \E recovered \in BOOLEAN : decoded' = [decoded EXCEPT ![f.sbn] = @ \/ recovered]

LEMMA IngestEffects ==
  ASSUME LayoutInv, NEW f, f.stream \in Streams, R!Ingest(f)
  PROVE  /\ checkpoint' = checkpoint
         /\ \/ UNCHANGED <<meta, meta_confirmed, decoded, symbol_cache>>
            \/ meta = NoMeta /\ UNCHANGED <<meta, meta_confirmed, decoded>>
            \/ Adopts(f)
            \/ Feeds(f)
<1>. USE DEF R!Seen, R!layoutVars, R!decoderVars, R!counterVars
<1>1. CASE R!SessionMismatch(f) \/ R!RejectDescriptor(f) \/ R!RepeatedDescriptor(f)
  BY <1>1 DEF R!SessionMismatch, R!RejectDescriptor, R!RepeatedDescriptor
<1>2. CASE R!ConfirmRestored(f) \/ R!RejectSymbol(f) \/ R!UselessSymbol(f)
  BY <1>2 DEF R!ConfirmRestored, R!RejectSymbol, R!UselessSymbol
<1>3. CASE R!AdoptDescriptor(f)
  BY <1>3 DEF R!AdoptDescriptor, Adopts
<1>4. CASE R!CacheSymbol(f)
  BY <1>4 DEF R!CacheSymbol, LayoutInv
<1>5. CASE R!NewSymbol(f)
  <2>1. PICK recovered \in R!Outcomes(meta.k[f.sbn], received'[f.sbn]) :
          decoded' = [decoded EXCEPT ![f.sbn] = @ \/ recovered]
    BY <1>5 DEF R!NewSymbol
  <2>2. recovered \in BOOLEAN
    BY <2>1 DEF R!Outcomes
  <2>. QED  BY <1>5, <2>1, <2>2 DEF R!NewSymbol, R!Fits, LayoutInv, Feeds
<1>. QED  BY <1>1, <1>2, <1>3, <1>4, <1>5 DEF R!Ingest

\* A step of the transfer, as far as the object is concerned.
LEMMA Steps ==
  ASSUME IInv, [Next]_vars
  PROVE  \/ UNCHANGED <<meta, meta_confirmed, decoded, symbol_cache, checkpoint, restarts>>
         \/ Checkpoint
         \/ Restart
         \/ \E f : /\ f.stream \in Streams /\ R!Ingest(f)
                   /\ UNCHANGED restarts
<1>. USE DEF receiverVars
<1>1. CASE UNCHANGED vars
  BY <1>1 DEF vars
<1>2. CASE Produce \/ Show
  BY <1>2 DEF Produce, Show
<1>3. ASSUME NEW s \in Streams, Resend(s)
      PROVE UNCHANGED <<meta, meta_confirmed, decoded, symbol_cache, checkpoint, restarts>>
  BY <1>3 DEF Resend
<1>4. ASSUME NEW i \in DOMAIN screen, Read(i)
      PROVE  \E f : f.stream \in Streams /\ R!Ingest(f) /\ UNCHANGED restarts
  BY <1>4, ReadStream DEF Read, IInv
<1>. QED  BY <1>1, <1>2, <1>3, <1>4 DEF Next

LEMMA StepLayout == IInv /\ [Next]_vars => LayoutInv' /\ CheckpointInv'
<1> SUFFICES ASSUME IInv, [Next]_vars PROVE LayoutInv' /\ CheckpointInv'
  OBVIOUS
<1>. USE DEF IInv
<1>1. CASE UNCHANGED <<meta, meta_confirmed, decoded, symbol_cache, checkpoint, restarts>>
  BY <1>1 DEF LayoutInv, CheckpointInv
<1>2. CASE Checkpoint
  <2>1. /\ meta # NoMeta
        /\ checkpoint' = [sid |-> sid, meta |-> meta, symbols |-> symbol_cache]
        /\ UNCHANGED <<meta, meta_confirmed, decoded, symbol_cache>>
    BY <1>2 DEF Checkpoint, R!SaveState, R!layoutVars, R!decoderVars
  <2>. QED  BY <2>1 DEF LayoutInv, CheckpointInv
<1>3. CASE Restart
  <2>1. /\ checkpoint # NoCheckpoint /\ checkpoint' = checkpoint
        /\ R!Replay(checkpoint.meta, checkpoint.symbols)
        /\ meta_confirmed' = TRUE /\ symbol_cache' = R!NoBlocks
    BY <1>3 DEF Restart, R!Restore
  <2>2. checkpoint.meta \in R!Metas /\ checkpoint.symbols = R!NoBlocks
    BY <2>1 DEF CheckpointInv
  <2>3. meta' = checkpoint.meta /\ decoded' \in [DOMAIN meta'.k -> BOOLEAN]
    BY <2>1, <2>2, ReplayMap
  <2>4. meta' # NoMeta
    BY <2>2, <2>3, LayoutType
  <2>. QED  BY <2>1, <2>2, <2>3, <2>4 DEF LayoutInv, CheckpointInv
<1>4. ASSUME NEW f, f.stream \in Streams, R!Ingest(f) PROVE LayoutInv' /\ CheckpointInv'
  <2>1. checkpoint' = checkpoint
    BY <1>4, IngestEffects
  <2>2. CASE UNCHANGED <<meta, meta_confirmed, decoded, symbol_cache>>
    BY <2>1, <2>2 DEF LayoutInv, CheckpointInv
  <2>3. CASE meta = NoMeta /\ UNCHANGED <<meta, meta_confirmed, decoded>>
    BY <2>1, <2>3 DEF LayoutInv, CheckpointInv
  <2>4. CASE Adopts(f)
    <3>1. R!MetaOf(f.stream) \in R!Metas
      BY <1>4 DEF R!Metas
    <3>2. meta' = R!MetaOf(f.stream) /\ decoded' \in [DOMAIN meta'.k -> BOOLEAN]
      BY <2>4, <3>1, ReplayMap DEF Adopts
    <3>3. meta' # NoMeta
      BY <3>1, <3>2, LayoutType
    <3>. QED  BY <2>1, <2>4, <3>1, <3>2, <3>3 DEF Adopts, LayoutInv, CheckpointInv
  <2>5. CASE Feeds(f)
    <3>1. decoded \in [DOMAIN meta.k -> BOOLEAN] /\ f.sbn \in DOMAIN meta.k
      BY <2>5 DEF Feeds, LayoutInv
    <3>2. decoded' \in [DOMAIN meta.k -> BOOLEAN]
      BY <2>5, <3>1 DEF Feeds
    <3>. QED  BY <2>1, <2>5, <3>2 DEF Feeds, LayoutInv, CheckpointInv
  <2>. QED  BY <1>4, <2>2, <2>3, <2>4, <2>5, IngestEffects
<1>. QED  BY <1>1, <1>2, <1>3, <1>4, Steps

----------------------------------------------------------------------------
(* The refinement. *)

\* The sender that is used first has all the blocks that the others have.
FirstHasAllBlocks == \A s \in Streams : DOMAIN s.k \subseteq DOMAIN First.k

LEMMA KnownRecovered ==
  ASSUME LayoutInv, meta # NoMeta
  PROVE  Recovered = {b \in DOMAIN meta.k : decoded[b]}
BY DEF Recovered

LEMMA InitMaps == Init => Object!Init
<1> SUFFICES ASSUME Init PROVE Object!Init
  OBVIOUS
<1>. QED  BY DEF Init, R!Init, Object!Init, Recovered

LEMMA StepMaps ==
  ASSUME FirstHasAllBlocks, IInv, IInv', [Next]_vars
  PROVE  [Object!Next]_(Object!vars)
<1>. USE DEF IInv, Object!vars
<1>1. CASE UNCHANGED <<meta, meta_confirmed, decoded, restarts>>
  BY <1>1 DEF Recovered
<1>2. CASE Checkpoint
  <2>1. UNCHANGED <<meta, meta_confirmed, decoded, restarts>>
    BY <1>2 DEF Checkpoint, R!SaveState, R!layoutVars, R!decoderVars
  <2>. QED  BY <1>1, <2>1
<1>3. CASE Restart
  <2>1. /\ checkpoint # NoCheckpoint
        /\ R!Replay(checkpoint.meta, checkpoint.symbols)
        /\ meta_confirmed' = TRUE
        /\ restarts < MaxRestarts /\ restarts' = restarts + 1
    BY <1>3 DEF Restart, R!Restore
  <2>2. /\ checkpoint.meta \in R!Metas /\ checkpoint.symbols = R!NoBlocks
        /\ meta_confirmed = TRUE
    BY <2>1 DEF CheckpointInv, LayoutInv
  <2>3. meta' = checkpoint.meta /\ \A b \in DOMAIN meta'.k : decoded'[b] = FALSE
    BY <2>1, <2>2, ReplayMap
  <2>4. Recovered' = {}
    BY <2>3 DEF Recovered
  <2>. QED  BY <2>1, <2>2, <2>4 DEF Object!Next, Object!Restart
<1>4. ASSUME NEW f, f.stream \in Streams, R!Ingest(f), UNCHANGED restarts
      PROVE  [Object!Next]_(Object!vars)
  <2>1. CASE Adopts(f)
    <3>1. R!MetaOf(f.stream) \in R!Metas
      BY <1>4 DEF R!Metas
    <3>2. meta' = R!MetaOf(f.stream) /\ meta'.k = f.stream.k
      <4>1. meta' = R!MetaOf(f.stream)
        BY <2>1, <3>1, ReplayMap DEF Adopts
      <4>2. R!MetaOf(f.stream).k = f.stream.k
        BY DEF R!MetaOf
      <4>. QED  BY <4>1, <4>2
    <3>3. Recovered' \in SUBSET DOMAIN First.k
      BY <1>4, <3>2 DEF Recovered, FirstHasAllBlocks
    <3>4. meta_confirmed = FALSE /\ meta_confirmed' = TRUE
      BY <2>1 DEF Adopts, LayoutInv
    <3>. QED  BY <1>4, <3>3, <3>4 DEF Object!Next, Object!Learn
  <2>2. CASE Feeds(f)
    <3>1. PICK recovered \in BOOLEAN :
            decoded' = [decoded EXCEPT ![f.sbn] = @ \/ recovered]
      BY <2>2 DEF Feeds
    <3>2. /\ decoded \in [DOMAIN meta.k -> BOOLEAN] /\ f.sbn \in DOMAIN meta.k
          /\ meta' = meta /\ meta # NoMeta
          /\ meta_confirmed = TRUE /\ meta_confirmed' = TRUE
      BY <2>2 DEF Feeds, LayoutInv
    <3>3. f.sbn \in DOMAIN First.k
      <4>1. meta \in R!Metas
        BY <3>2 DEF LayoutInv
      <4>2. PICK s \in Streams : DOMAIN meta.k = DOMAIN s.k
        BY <4>1, LayoutType
      <4>. QED  BY <3>2, <4>2 DEF FirstHasAllBlocks
    <3>4. /\ Recovered = {b \in DOMAIN meta.k : decoded[b]}
          /\ Recovered' = {b \in DOMAIN meta.k : decoded'[b]}
      BY <3>2 DEF Recovered
    <3>5. CASE decoded[f.sbn] \/ ~recovered
      <4>1. decoded' = decoded
        BY <3>1, <3>2, <3>5
      <4>. QED  BY <1>1, <1>4, <3>2, <4>1
    <3>6. CASE ~decoded[f.sbn] /\ recovered
      <4>1. f.sbn \notin Recovered /\ Recovered' = Recovered \cup {f.sbn}
        BY <3>1, <3>2, <3>4, <3>6
      <4>. QED  BY <1>4, <3>2, <3>3, <4>1 DEF Object!Next, Object!Recover
    <3>. QED  BY <3>5, <3>6
  <2>3. CASE UNCHANGED <<meta, meta_confirmed, decoded>>
    BY <1>1, <1>4, <2>3
  <2>. QED  BY <1>4, <2>1, <2>2, <2>3, IngestEffects
<1>. QED  BY <1>1, <1>2, <1>3, <1>4, Steps

\* Whatever is lost, repeated, reordered and restarted, a receiver recovers no
\* block before it knows the layout, each block once, and loses one only by a
\* restart: Transfer implements the safety of ObjectTransfer.
THEOREM KeepsPromise ==
  ASSUME FirstHasAllBlocks
  PROVE  Spec => Object!Init /\ [][Object!Next]_(Object!vars)
<1>1. IInv /\ [Next]_vars => IInv'
  BY StepScreen, StepLayout DEF IInv
<1>2. IInv /\ IInv' /\ [Next]_vars => [Object!Next]_(Object!vars)
  BY StepMaps
<1>. QED  BY InitInv, InitMaps, <1>1, <1>2, PTL DEF Spec

----------------------------------------------------------------------------
(* A first pass of which nothing is missed. *)

\* The streams are of one file, the receiver understands the first one, and what
\* fits on the screen beside a descriptor fits in the cache.
OneSession == \A s \in Streams : s.sid = First.sid
FirstIsRead == First.desc = "valid"
ScreenFitsCache == Codes - 1 <= R!CacheMax(First.size)

Quiet == missed = 0 /\ resends = 0 /\ restarts = 0

\* The frame that carries a source symbol.
Source(id) == [kind |-> "data", stream |-> First, sbn |-> id[1], esi |-> id[2]]

\* On its way from the sender to the receiver.
Awaited(f) ==
  \/ \E i \in DOMAIN batch : batch[i] = f
  \/ \E i \in Unread : screen[i] = f

Taken(id) ==
  IF meta = NoMeta THEN id \in DOMAIN symbol_cache
  ELSE R!Complete \/ id[2] \in received[id[1]]

Place(id) == Cardinality({other \in S!SourceIds : S!Before(other, id)})

\* What is written about the first stream, and nothing but that is on its way.
FirstOnly ==
  /\ stream = First /\ blocks = First.k /\ descriptor_interval = DefaultInterval
  /\ sid = First.sid
  /\ \A i \in DOMAIN batch : batch[i].stream = First
  /\ \A i \in DOMAIN screen : screen[i].stream = First
  /\ meta # NoMeta => meta = R!MetaOf(First)
  /\ descriptor_seen => meta # NoMeta
  /\ \A key \in DOMAIN symbol_cache : symbol_cache[key].size = First.size

\* The first frame of all is a descriptor, and it is on the first screen. As long
\* as it is not read, the cache holds what is beside it.
Begins(frames) == frames # <<>> => frames[1].kind = "descriptor"

Beside == {<<screen[i].sbn, screen[i].esi>> : i \in 2..Codes}

Early ==
  meta = NoMeta =>
    \/ /\ screen = <<>> /\ Begins(batch)
       /\ DOMAIN symbol_cache = {}
       /\ batch = <<>> => frame_index = 0 /\ source_cursor = 0
    \/ /\ screen # <<>> /\ Begins(screen) /\ Len(screen) = Codes
       /\ 1 \in Unread
       /\ DOMAIN symbol_cache \subseteq Beside

\* Every source symbol sent so far is on its way or was taken.
Followed ==
  \A id \in S!SourceIds : Place(id) < source_cursor => Awaited(Source(id)) \/ Taken(id)

\* A block of which all source symbols were received is recovered.
SolvedInv ==
  meta # NoMeta =>
    /\ DOMAIN received = DOMAIN meta.k
    /\ \A b \in DOMAIN meta.k : 0..(meta.k[b] - 1) \subseteq received[b] => decoded[b]

PassInv == Quiet => FirstOnly /\ Early /\ Followed

\* The types that the bookkeeping needs.
CountInv ==
  /\ missed \in Nat /\ resends \in Nat /\ restarts \in Nat
  /\ source_cursor \in Nat
  /\ \E E : emitted \in Seq(E)
  /\ \E F : batch \in Seq(F) /\ screen \in Seq(F)
  /\ scans \in [DOMAIN screen -> Nat]

LEMMA InstanceSets ==
  ASSUME NEW T
  PROVE  /\ S!Cardinality(T) = Cardinality(T) /\ R!Cardinality(T) = Cardinality(T)
         /\ S!IsFiniteSet(T) <=> IsFiniteSet(T)
<1>1. S!Cardinality(T) = Cardinality(T) /\ R!Cardinality(T) = Cardinality(T)
  BY DEF S!Cardinality, R!Cardinality, Cardinality
<1>2. S!IsFiniteSet(T) <=> IsFiniteSet(T)
  BY DEF S!IsFiniteSet, IsFiniteSet
<1>. QED  BY <1>1, <1>2

\* The source symbols of a stream.
LEMMA SourcesOf ==
  ASSUME NEW s \in Streams, blocks = s.k
  PROVE  /\ S!SourceIds \in SUBSET (Nat \X Nat) /\ IsFiniteSet(S!SourceIds)
         /\ S!SourceIds # {}
         /\ \A id \in S!SourceIds :
              /\ id = <<id[1], id[2]>> /\ id[1] \in DOMAIN s.k
              /\ id[2] \in 0..(s.k[id[1]] - 1) /\ id[2] < EsiLimit
         /\ \A b \in DOMAIN s.k : \A e \in 0..(s.k[b] - 1) : <<b, e>> \in S!SourceIds
<1> DEFINE B == DOMAIN s.k
           k == s.k
<1>1. S!IsLayout(k) /\ EsiLimit \in Nat \ {0}
  BY StreamAssumption
<1>2. /\ IsFiniteSet(B) /\ B # {} /\ B = 0..(Cardinality(B) - 1)
      /\ \A b \in B : k[b] \in 1..EsiLimit
  <2>1. /\ S!IsFiniteSet(B) /\ B # {} /\ B = 0..(S!Cardinality(B) - 1)
        /\ \A b \in B : k[b] \in 1..EsiLimit
    BY <1>1 DEF S!IsLayout
  <2>. HIDE DEF B, k
  <2>2. S!Cardinality(B) = Cardinality(B) /\ (S!IsFiniteSet(B) <=> IsFiniteSet(B))
    BY InstanceSets
  <2>. QED  BY <2>1, <2>2
<1>3. B \subseteq Nat
  <2>. HIDE DEF B
  <2>1. Cardinality(B) \in Nat
    BY <1>2, FS_CardinalityType
  <2>. QED  BY <1>2, <2>1
<1>4. S!SourceIds = UNION {{b} \X (0..(k[b] - 1)) : b \in B}
  BY DEF S!SourceIds, S!Blocks
<1>. HIDE DEF B, k
<1>5. \A b \in B : \A e \in 0..(k[b] - 1) : <<b, e>> \in S!SourceIds
  BY <1>4
<1>6. ASSUME NEW id \in S!SourceIds
      PROVE  /\ id = <<id[1], id[2]>> /\ id[1] \in B
             /\ id[2] \in 0..(k[id[1]] - 1) /\ id[2] < EsiLimit
             /\ id \in Nat \X Nat
  <2>1. PICK b \in B : id \in {b} \X (0..(k[b] - 1))
    BY <1>4, <1>6
  <2>2. id = <<id[1], id[2]>> /\ id[1] = b /\ id[2] \in 0..(k[b] - 1)
    BY <2>1
  <2>3. k[b] \in 1..EsiLimit /\ b \in Nat
    BY <1>2, <1>3, <2>1
  <2>4. id[2] \in Nat /\ id[2] < EsiLimit
    BY <1>1, <2>2, <2>3
  <2>. QED  BY <2>1, <2>2, <2>3, <2>4
<1>7. S!SourceIds # {}
  <2>1. PICK b \in B : TRUE
    BY <1>2
  <2>2. 0 \in 0..(k[b] - 1)
    BY <1>1, <1>2
  <2>. QED  BY <1>5, <2>2
<1>8. IsFiniteSet(S!SourceIds)
  <2> DEFINE part == [b \in B |-> {b} \X (0..(k[b] - 1))]
             parts == {{b} \X (0..(k[b] - 1)) : b \in B}
  <2>1. IsFiniteSet(parts)
    <3>1. part \in Surjection(B, parts)
      BY DEF Surjection
    <3>. HIDE DEF part, parts
    <3>. QED  BY <1>2, <3>1, FS_Surjection
  <2>2. \A p \in parts : IsFiniteSet(p)
    <3>1. ASSUME NEW b \in B PROVE IsFiniteSet({b} \X (0..(k[b] - 1)))
      <4>1. IsFiniteSet(0..(k[b] - 1))
        <5>1. 0 \in Int /\ k[b] - 1 \in Int
          BY <1>1, <1>2
        <5>. QED  BY <5>1, FS_Interval
      <4>2. IsFiniteSet({b})
        BY FS_Singleton
      <4>. QED  BY <4>1, <4>2, FS_Product
    <3>. QED  BY <3>1
  <2>. HIDE DEF parts
  <2>. QED  BY <1>4, <2>1, <2>2, FS_UNION DEF parts
<1>. QED  BY <1>5, <1>6, <1>7, <1>8 DEF B, k

\* Each source symbol has a place of its own in the plan, below their number.
LEMMA PlacesOf ==
  ASSUME NEW s \in Streams, blocks = s.k
  PROVE  /\ \A id \in S!SourceIds : Place(id) \in 0..(Cardinality(S!SourceIds) - 1)
         /\ \A x, y \in S!SourceIds : x # y => Place(x) # Place(y)
<1> DEFINE T == S!SourceIds
           Below(id) == {other \in T : S!Before(other, id)}
<1>0. T \in SUBSET (Nat \X Nat) /\ IsFiniteSet(T)
  BY SourcesOf
<1>. HIDE DEF T
<1>1. \A id \in T : /\ IsFiniteSet(Below(id)) /\ Below(id) \subseteq T
                    /\ Cardinality(Below(id)) \in Nat
  BY <1>0, FS_Subset, FS_CardinalityType
<1>2. Cardinality(T) \in Nat
  BY <1>0, FS_CardinalityType
<1>3. ASSUME NEW id \in T PROVE Cardinality(Below(id)) < Cardinality(T)
  <2>1. id \notin Below(id)
    BY <1>0 DEF S!Before
  <2>2. /\ Cardinality(Below(id)) <= Cardinality(T)
        /\ Cardinality(T) = Cardinality(Below(id)) => T = Below(id)
    BY <1>0, <1>1, FS_Subset
  <2>. HIDE DEF Below
  <2>. QED  BY <1>1, <1>2, <2>1, <2>2
<1>4. ASSUME NEW x \in T, NEW y \in T, S!Before(x, y)
      PROVE  Cardinality(Below(x)) # Cardinality(Below(y))
  <2>1. Below(x) \subseteq Below(y)
    BY <1>0, <1>4 DEF S!Before
  <2>2. x \in Below(y) /\ x \notin Below(x)
    BY <1>0, <1>4 DEF S!Before
  <2>. HIDE DEF Below
  <2>3. Below(x) \in SUBSET Below(y) /\ Below(y) # Below(x)
    BY <2>1, <2>2
  <2>. QED  BY <1>1, <2>3, FS_Subset
<1>5. \A x, y \in T : x # y => S!Before(x, y) \/ S!Before(y, x)
  BY <1>0 DEF S!Before
<1>6. \A id \in T : Place(id) = Cardinality(Below(id))
  BY DEF Place, T
<1>. HIDE DEF Below
<1>7. \A id \in T : Place(id) \in 0..(Cardinality(T) - 1)
  BY <1>1, <1>2, <1>3, <1>6
<1>8. \A x, y \in T : x # y => Place(x) # Place(y)
  BY <1>4, <1>5, <1>6
<1>. QED  BY <1>7, <1>8 DEF T

\* Every place of the plan is taken: the sender's next entry is a source symbol.
LEMMA EntryIsSource ==
  ASSUME NEW s \in Streams, blocks = s.k, NEW i \in 0..(Cardinality(S!SourceIds) - 1)
  PROVE  S!PlanEntry(i) \in S!SourceIds
<1> DEFINE T == S!SourceIds
           At(x) == S!Cardinality({other \in S!SourceIds : S!Before(other, x)})
<1>1. \A x : At(x) = Place(x)
  BY InstanceSets DEF Place
<1>2. S!PlanEntry(i) = CHOOSE x \in T : At(x) = i
  BY DEF S!PlanEntry
<1>3. /\ IsFiniteSet(T) /\ Cardinality(T) \in Nat
      /\ \A id \in T : Place(id) \in 0..(Cardinality(T) - 1)
      /\ \A x, y \in T : x # y => Place(x) # Place(y)
  BY SourcesOf, PlacesOf, FS_CardinalityType
<1>. HIDE DEF At, T
<1>4. \E x \in T : Place(x) = i
  <2> SUFFICES ASSUME \A x \in T : Place(x) # i PROVE FALSE
    OBVIOUS
  <2> DEFINE N == 0..(Cardinality(T) - 1)
             U == N \ {i}
             f == [x \in T |-> Place(x)]
  <2>1. IsFiniteSet(N) /\ Cardinality(N) = Cardinality(T)
    <3>1. 0 \in Int /\ Cardinality(T) - 1 \in Int /\ 0 <= Cardinality(T) - 1
      BY <1>3 DEF T
    <3>. QED  BY <1>3, <3>1, FS_Interval
  <2>2. i \in N
    BY DEF T
  <2>3. IsFiniteSet(U) /\ Cardinality(U) = Cardinality(T) - 1
    <3>. HIDE DEF N
    <3>. QED  BY <2>1, <2>2, FS_RemoveElement
  <2>4. f \in [T -> U]
    BY <1>3
  <2>. HIDE DEF U, N
  <2>5. \E x, y \in T : x # y /\ f[x] = f[y]
    <3>. HIDE DEF f
    <3>. QED  BY <1>3, <2>3, <2>4, FS_PigeonHole
  <2>. QED  BY <1>3, <2>5
<1>. QED  BY <1>1, <1>2, <1>4 DEF T

\* So it is for the first stream.
LEMMA SourceType ==
  ASSUME blocks = First.k
  PROVE  /\ S!SourceIds \in SUBSET (Nat \X Nat) /\ IsFiniteSet(S!SourceIds)
         /\ S!SourceIds # {}
         /\ \A id \in S!SourceIds :
              /\ id = <<id[1], id[2]>> /\ id[1] \in DOMAIN First.k
              /\ id[2] \in 0..(First.k[id[1]] - 1) /\ id[2] < EsiLimit
         /\ \A b \in DOMAIN First.k : \A e \in 0..(First.k[b] - 1) : <<b, e>> \in S!SourceIds
BY TransferAssumption, SourcesOf

LEMMA PlaceType ==
  ASSUME blocks = First.k
  PROVE  /\ \A id \in S!SourceIds : Place(id) \in 0..(Cardinality(S!SourceIds) - 1)
         /\ \A x, y \in S!SourceIds : x # y => Place(x) # Place(y)
BY TransferAssumption, PlacesOf

\* The symbol that the sender takes next is the one whose turn it is.
LEMMA NextPlace ==
  ASSUME blocks = First.k, NEW id \in S!SourceIds
  PROVE  S!PlanEntry(Place(id)) = id
<1> DEFINE i == Place(id)
           At(x) == S!Cardinality({other \in S!SourceIds : S!Before(other, x)})
<1>1. \A x : At(x) = Place(x)
  BY InstanceSets DEF Place
<1>2. S!PlanEntry(i) = CHOOSE x \in S!SourceIds : At(x) = i
  BY DEF S!PlanEntry
<1>. HIDE DEF At
<1>3. \E x \in S!SourceIds : At(x) = i
  BY <1>1
<1>. HIDE DEF i
<1>4. S!PlanEntry(i) \in S!SourceIds /\ At(S!PlanEntry(i)) = i
  BY <1>2, <1>3
<1>. QED  BY <1>1, <1>4, PlaceType DEF i

LEMMA InitCount == Init => CountInv
<1> SUFFICES ASSUME Init PROVE CountInv
  OBVIOUS
<1>1. emitted \in Seq({}) /\ batch \in Seq({}) /\ screen \in Seq({}) /\ DOMAIN screen = {}
  BY DEF Init, S!Init
<1>2. scans \in [DOMAIN screen -> Nat]
  BY <1>1 DEF Init
<1>3. missed \in Nat /\ resends \in Nat /\ restarts \in Nat /\ source_cursor \in Nat
  BY DEF Init, S!Init
<1>. QED  BY <1>1, <1>2, <1>3 DEF CountInv

\* The frame that the sender's loop takes.
LEMMA Taking ==
  ASSUME CountInv, Produce
  PROVE  \E frame :
           /\ \E E : emitted' \in Seq(E)
           /\ batch' = Append(batch, Wire(frame))
           /\ UNCHANGED <<blocks, descriptor_interval>>
           /\ \/ frame = S!DescriptorFrame /\ UNCHANGED source_cursor
              \/ /\ ~S!DescriptorDue /\ source_cursor' = source_cursor + 1
                 /\ frame = S!DataFrame(S!PlanEntry(source_cursor))
              \/ /\ ~S!DescriptorDue /\ UNCHANGED source_cursor
                 /\ S!SourcePassOver
<1>1. PICK E : emitted \in Seq(E)
  BY DEF CountInv
<1>2. \A frame : emitted' = Append(emitted, frame) =>
        (\E G : emitted' \in Seq(G)) /\ emitted'[Len(emitted')] = frame
  <2> TAKE frame
  <2> HAVE emitted' = Append(emitted, frame)
  <2>1. emitted \in Seq(E \cup {frame})
    BY <1>1
  <2>. QED  BY <2>1
<1>3. S!NextFrame /\ emitted' # emitted
        /\ batch' = Append(batch, Wire(emitted'[Len(emitted')]))
  BY DEF Produce
<1>4. CASE S!NextDescriptor
  BY <1>2, <1>3, <1>4 DEF S!NextDescriptor, S!Return
<1>5. CASE S!NextSource
  BY <1>2, <1>3, <1>5 DEF S!NextSource, S!Return
<1>6. CASE S!NextRepair
  BY <1>2, <1>3, <1>6 DEF S!NextRepair, S!Return
<1>7. CASE S!NextExhausted
  BY <1>3, <1>7 DEF S!NextExhausted
<1>. QED  BY <1>3, <1>4, <1>5, <1>6, <1>7 DEF S!NextFrame

LEMMA StepCount == CountInv /\ [Next]_vars => CountInv'
<1> SUFFICES ASSUME CountInv, [Next]_vars PROVE CountInv'
  OBVIOUS
<1>1. PICK E : emitted \in Seq(E)
  BY DEF CountInv
<1>2. PICK F : batch \in Seq(F) /\ screen \in Seq(F)
  BY DEF CountInv
<1>3. /\ missed \in Nat /\ resends \in Nat /\ restarts \in Nat /\ source_cursor \in Nat
      /\ scans \in [DOMAIN screen -> Nat]
  BY DEF CountInv
<1>4. CASE UNCHANGED vars
  BY <1>1, <1>2, <1>3, <1>4 DEF CountInv, vars, senderVars, screenVars
<1>5. CASE Produce
  <2>1. PICK frame :
          /\ \E G : emitted' \in Seq(G)
          /\ batch' = Append(batch, Wire(frame))
          /\ source_cursor' = source_cursor \/ source_cursor' = source_cursor + 1
    BY <1>5, Taking
  <2>2. UNCHANGED <<screen, scans, missed, resends, restarts>>
    BY <1>5 DEF Produce, screenVars
  <2> DEFINE w == Wire(frame)
             H == F \cup {w}
  <2>. HIDE DEF w
  <2>3. batch \in Seq(H) /\ screen \in Seq(H) /\ w \in H
    BY <1>2
  <2>4. batch' \in Seq(H) /\ screen' \in Seq(H)
    <3>. HIDE DEF H
    <3>. QED  BY <2>1, <2>2, <2>3 DEF w
  <2>. HIDE DEF H
  <2>. QED  BY <1>3, <2>1, <2>2, <2>4 DEF CountInv
<1>6. CASE Show
  <2>1. /\ missed' = missed + Cardinality(Unread) /\ screen' = batch
        /\ scans' = [i \in DOMAIN batch |-> 0] /\ batch' = <<>>
        /\ UNCHANGED <<source_cursor, emitted, resends, restarts>>
    BY <1>6 DEF Show, senderVars
  <2>2. Cardinality(Unread) \in Nat
    <3>1. screen \in Seq(F) /\ Unread \subseteq 1..Len(screen) /\ Len(screen) \in Int
      BY <1>2 DEF Unread
    <3>2. IsFiniteSet(1..Len(screen))
      BY <3>1, FS_Interval
    <3>. QED  BY <3>1, <3>2, FS_Subset, FS_CardinalityType
  <2>3. batch' \in Seq(F) /\ screen' \in Seq(F)
    BY <1>2, <2>1
  <2>4. scans' \in [DOMAIN screen' -> Nat]
    BY <2>1
  <2>. QED  BY <1>1, <1>3, <2>1, <2>2, <2>3, <2>4 DEF CountInv
<1>7. ASSUME NEW i \in DOMAIN screen, Read(i) PROVE CountInv'
  <2>1. /\ scans' = [scans EXCEPT ![i] = @ + 1]
        /\ UNCHANGED <<batch, screen, source_cursor, emitted, missed, resends, restarts>>
    BY <1>7 DEF Read, senderVars
  <2>2. scans' \in [DOMAIN screen' -> Nat]
    BY <1>3, <1>7, <2>1
  <2>. QED  BY <1>1, <1>2, <1>3, <2>1, <2>2 DEF CountInv
<1>8. ASSUME NEW s \in Streams, Resend(s) PROVE CountInv'
  <2>1. /\ emitted' = <<>> /\ batch' = <<>> /\ screen' = <<>> /\ scans' = <<>>
        /\ source_cursor' = 0 /\ resends' = resends + 1 /\ UNCHANGED <<missed, restarts>>
    BY <1>8 DEF Resend
  <2>2. /\ emitted' \in Seq({}) /\ batch' \in Seq({}) /\ screen' \in Seq({})
        /\ scans' \in [DOMAIN screen' -> Nat]
    BY <2>1
  <2>. QED  BY <1>3, <2>1, <2>2 DEF CountInv
<1>9. CASE Checkpoint \/ Restart
  <2>1. /\ UNCHANGED <<source_cursor, emitted, batch, screen, scans, missed, resends>>
        /\ restarts' \in Nat
    BY <1>3, <1>9 DEF Checkpoint, Restart, senderVars, screenVars
  <2>. QED  BY <1>1, <1>2, <1>3, <2>1 DEF CountInv
<1>. QED  BY <1>4, <1>5, <1>6, <1>7, <1>8, <1>9 DEF Next

\* The steps of a pass of which nothing is missed.
LEMMA QuietSteps ==
  ASSUME CountInv, [Next]_vars, Quiet'
  PROVE  /\ Quiet
         /\ \/ UNCHANGED vars \/ Produce \/ Checkpoint
            \/ Show /\ Unread = {}
            \/ \E i \in DOMAIN screen : Read(i)
<1>1. missed \in Nat /\ resends \in Nat /\ restarts \in Nat
  BY DEF CountInv
<1>2. missed' = 0 /\ resends' = 0 /\ restarts' = 0
  BY DEF Quiet
<1>3. CASE UNCHANGED vars
  BY <1>2, <1>3 DEF vars, Quiet, screenVars
<1>4. CASE Produce \/ Checkpoint \/ \E i \in DOMAIN screen : Read(i)
  BY <1>2, <1>4 DEF Produce, Checkpoint, Read, Quiet, screenVars
<1>5. CASE Show
  <2>1. missed' = missed + Cardinality(Unread) /\ UNCHANGED <<resends, restarts>>
    BY <1>5 DEF Show
  <2>2. IsFiniteSet(Unread)
    <3>1. Unread \subseteq 1..Len(screen) /\ Len(screen) \in Int
      BY DEF Unread, CountInv
    <3>2. IsFiniteSet(1..Len(screen))
      BY <3>1, FS_Interval
    <3>. QED  BY <3>1, <3>2, FS_Subset
  <2>3. Cardinality(Unread) \in Nat
    BY <2>2, FS_CardinalityType
  <2>4. missed = 0 /\ Cardinality(Unread) = 0
    BY <1>1, <1>2, <2>1, <2>3
  <2>. QED  BY <1>2, <1>5, <2>1, <2>2, <2>4, FS_EmptySet DEF Quiet
<1>6. ASSUME NEW s \in Streams, Resend(s) PROVE FALSE
  BY <1>1, <1>2, <1>6 DEF Resend
<1>7. CASE Restart
  BY <1>1, <1>2, <1>7 DEF Restart
<1>. QED  BY <1>3, <1>4, <1>5, <1>6, <1>7 DEF Next

\* The solver recovers a block from all of its source symbols.
LEMMA ReplaySolved ==
  ASSUME NEW m, NEW cache, R!Replay(m, cache)
  PROVE  SolvedInv'
<1>1. /\ meta' = m /\ DOMAIN received' = DOMAIN m.k
      /\ \A b \in DOMAIN m.k : decoded'[b] \in R!Outcomes(m.k[b], received'[b])
  BY DEF R!Replay
<1>2. \A b \in DOMAIN m.k : 0..(m.k[b] - 1) \subseteq received'[b] => decoded'[b]
  BY <1>1 DEF R!Outcomes
<1>. QED  BY <1>1, <1>2 DEF SolvedInv

LEMMA IngestSolved ==
  ASSUME LayoutInv, SolvedInv, NEW f, R!Ingest(f)
  PROVE  SolvedInv'
<1>. USE DEF R!Seen, R!layoutVars, R!decoderVars
<1>1. CASE R!AdoptDescriptor(f)
  BY <1>1, ReplaySolved DEF R!AdoptDescriptor
<1>2. CASE R!NewSymbol(f)
  <2>1. /\ meta # NoMeta /\ meta' = meta /\ f.sbn \in DOMAIN meta.k
        /\ received' = [received EXCEPT ![f.sbn] = @ \cup {f.esi}]
    BY <1>2 DEF R!NewSymbol, R!Fits, LayoutInv
  <2>2. PICK recovered \in R!Outcomes(meta.k[f.sbn], received'[f.sbn]) :
          decoded' = [decoded EXCEPT ![f.sbn] = @ \/ recovered]
    BY <1>2 DEF R!NewSymbol
  <2>3. DOMAIN received = DOMAIN meta.k /\ decoded \in [DOMAIN meta.k -> BOOLEAN]
    BY <2>1 DEF SolvedInv, LayoutInv
  <2>4. ASSUME NEW b \in DOMAIN meta.k, 0..(meta.k[b] - 1) \subseteq received'[b]
        PROVE  decoded'[b]
    <3>1. CASE b = f.sbn
      <4>1. recovered = TRUE
        BY <2>2, <2>4, <3>1 DEF R!Outcomes
      <4>. QED  BY <2>2, <2>3, <3>1, <4>1
    <3>2. CASE b # f.sbn
      <4>1. received'[b] = received[b] /\ decoded'[b] = decoded[b]
        BY <2>1, <2>2, <2>3, <3>2
      <4>. QED  BY <2>1, <2>4, <4>1 DEF SolvedInv
    <3>. QED  BY <3>1, <3>2
  <2>5. DOMAIN received' = DOMAIN received
    BY <2>1
  <2>. QED  BY <2>1, <2>3, <2>4, <2>5 DEF SolvedInv
<1>3. CASE UNCHANGED <<meta, received, decoded>>
  BY <1>3 DEF SolvedInv
<1>4. CASE R!SessionMismatch(f) \/ R!RejectDescriptor(f) \/ R!RepeatedDescriptor(f)
  BY <1>3, <1>4 DEF R!SessionMismatch, R!RejectDescriptor, R!RepeatedDescriptor
<1>5. CASE R!ConfirmRestored(f) \/ R!RejectSymbol(f) \/ R!UselessSymbol(f)
  BY <1>3, <1>5 DEF R!ConfirmRestored, R!RejectSymbol, R!UselessSymbol
<1>6. CASE R!CacheSymbol(f)
  BY <1>3, <1>6 DEF R!CacheSymbol
<1>. QED  BY <1>1, <1>2, <1>4, <1>5, <1>6 DEF R!Ingest

LEMMA StepSolved == IInv /\ SolvedInv /\ [Next]_vars => SolvedInv'
<1> SUFFICES ASSUME IInv, SolvedInv, [Next]_vars PROVE SolvedInv'
  OBVIOUS
<1>1. CASE UNCHANGED <<meta, received, decoded>>
  BY <1>1 DEF SolvedInv
<1>2. CASE UNCHANGED vars \/ Produce \/ Show \/ \E s \in Streams : Resend(s)
  BY <1>1, <1>2 DEF vars, Produce, Show, Resend, receiverVars
<1>3. CASE Checkpoint
  BY <1>1, <1>3 DEF Checkpoint, R!SaveState, R!layoutVars, R!decoderVars
<1>4. CASE Restart
  BY <1>4, ReplaySolved DEF Restart, R!Restore
<1>5. ASSUME NEW i \in DOMAIN screen, Read(i) PROVE SolvedInv'
  BY <1>5, IngestSolved DEF Read, IInv
<1>. QED  BY <1>2, <1>3, <1>4, <1>5 DEF Next

\* What a frame of the first stream does for a receiver that is not done: a
\* descriptor tells it the layout, what was taken stays so, and a symbol is
\* taken if the cache has room for it.
Advances(f) ==
  /\ sid' = sid
  /\ meta # NoMeta => meta' = meta
  /\ meta' # NoMeta => meta' = R!MetaOf(First)
  /\ descriptor_seen' => meta' # NoMeta
  /\ \A key \in DOMAIN symbol_cache' : symbol_cache'[key].size = First.size
  /\ meta' = NoMeta =>
       /\ f.kind = "data"
       /\ DOMAIN symbol_cache' \subseteq DOMAIN symbol_cache \cup {<<f.sbn, f.esi>>}
  /\ \A id \in S!SourceIds : Taken(id) => Taken(id)'
  /\ \A id \in S!SourceIds :
       f = Source(id) /\ (meta = NoMeta /\ id \notin DOMAIN symbol_cache =>
                            R!CacheHasRoom(First.size)) => Taken(id)'

LEMMA Learning ==
  ASSUME LayoutInv, FirstOnly, NEW f, f.stream = First, R!AdoptDescriptor(f)
  PROVE  Advances(f)
<1> DEFINE m == R!MetaOf(First)
<1>1. /\ f.kind = "descriptor" /\ meta = NoMeta /\ sid' = sid
      /\ R!Replay(m, symbol_cache) /\ symbol_cache' = R!NoBlocks
  BY DEF R!AdoptDescriptor, R!Seen
<1>2. m \in R!Metas /\ m.k = First.k /\ m.size = First.size
  BY TransferAssumption DEF R!Metas, R!MetaOf
<1>. HIDE DEF m
<1>3. meta' = m /\ m # NoMeta
  BY <1>1, <1>2, LayoutType DEF R!Replay
<1>4. DOMAIN symbol_cache' = {}
  BY <1>1 DEF R!NoBlocks
<1>5. ASSUME NEW id \in S!SourceIds, id \in DOMAIN symbol_cache
      PROVE  id[2] \in received'[id[1]]
  <2>1. /\ id[1] \in DOMAIN m.k /\ id[2] < EsiLimit
        /\ symbol_cache[id].size = m.size
    BY <1>2, <1>5, SourceType DEF FirstOnly
  <2>2. id \in R!Replayable(m, symbol_cache)
    BY <1>5, <2>1 DEF R!Replayable, R!Fits
  <2>3. received'[id[1]] =
          {key[2] : key \in {x \in R!Replayable(m, symbol_cache) : x[1] = id[1]}}
    BY <1>1, <2>1 DEF R!Replay
  <2>. QED  BY <2>2, <2>3
<1>6. \A id \in S!SourceIds : Taken(id) => Taken(id)'
  BY <1>1, <1>3, <1>5 DEF Taken
<1>7. \A id : Source(id).kind = "data"
  BY DEF Source
<1>. QED  BY <1>1, <1>3, <1>4, <1>6, <1>7 DEF Advances, m

LEMMA Caching ==
  ASSUME LayoutInv, FirstOnly, NEW f, f.stream = First, R!CacheSymbol(f)
  PROVE  Advances(f)
<1> DEFINE key == <<f.sbn, f.esi>>
           new == [x \in DOMAIN symbol_cache \cup {key} |->
                     IF x = key THEN R!Symbol(f.stream, f.sbn, f.esi) ELSE symbol_cache[x]]
<1>1. /\ f.kind = "data" /\ meta = NoMeta /\ sid' = sid
      /\ UNCHANGED <<meta, descriptor_seen>>
  BY DEF R!CacheSymbol, R!Seen, R!layoutVars, LayoutInv
<1>2. \/ key \in DOMAIN symbol_cache /\ symbol_cache' = symbol_cache
      \/ key \notin DOMAIN symbol_cache /\ ~R!CacheHasRoom(First.size)
           /\ symbol_cache' = symbol_cache
      \/ symbol_cache' = new
  BY DEF R!CacheSymbol
<1>3. DOMAIN new = DOMAIN symbol_cache \cup {key}
      /\ \A x \in DOMAIN new : new[x].size = First.size
  BY DEF R!Symbol, FirstOnly
<1>. HIDE DEF new
<1>4. /\ DOMAIN symbol_cache \subseteq DOMAIN symbol_cache'
      /\ DOMAIN symbol_cache' \subseteq DOMAIN symbol_cache \cup {key}
      /\ \A x \in DOMAIN symbol_cache' : symbol_cache'[x].size = First.size
  BY <1>2, <1>3 DEF FirstOnly
<1>5. \A id \in S!SourceIds : Taken(id) => Taken(id)'
  BY <1>1, <1>4 DEF Taken
<1>6. ASSUME NEW id \in S!SourceIds, f = Source(id),
             id \notin DOMAIN symbol_cache => R!CacheHasRoom(First.size)
      PROVE  Taken(id)'
  <2>1. key = <<id[1], id[2]>>
    BY <1>6 DEF Source
  <2>2. key = id
    BY <2>1, SourceType DEF FirstOnly
  <2>. HIDE DEF key
  <2>3. id \in DOMAIN symbol_cache'
    BY <1>2, <1>3, <1>6, <2>2
  <2>. QED  BY <1>1, <2>3 DEF Taken
<1>7. descriptor_seen => meta # NoMeta
  BY DEF FirstOnly
<1>. QED  BY <1>1, <1>4, <1>5, <1>6, <1>7 DEF Advances

LEMMA Decoding ==
  ASSUME LayoutInv, FirstOnly, SolvedInv, ~R!Complete, NEW f, f.stream = First,
         R!NewSymbol(f)
  PROVE  Advances(f)
<1>1. /\ f.kind = "data" /\ meta # NoMeta /\ f.sbn \in DOMAIN meta.k
      /\ UNCHANGED <<sid, meta, descriptor_seen, symbol_cache>>
      /\ received' = [received EXCEPT ![f.sbn] = @ \cup {f.esi}]
  BY DEF R!NewSymbol, R!Seen, R!Fits, R!layoutVars, LayoutInv
<1>2. DOMAIN received = DOMAIN meta.k /\ meta = R!MetaOf(First) /\ meta.k = First.k
  <2>1. R!MetaOf(First).k = First.k
    BY DEF R!MetaOf
  <2>. QED  BY <1>1, <2>1 DEF SolvedInv, FirstOnly
<1>3. /\ f.esi \in received'[f.sbn]
      /\ \A b \in DOMAIN meta.k : received[b] \subseteq received'[b]
  BY <1>1, <1>2
<1>4. \A id \in S!SourceIds : id[1] \in DOMAIN meta.k
  BY <1>2, SourceType DEF FirstOnly
<1>5. \A id \in S!SourceIds : Taken(id) => Taken(id)'
  BY <1>1, <1>3, <1>4 DEF Taken
<1>6. \A id \in S!SourceIds : f = Source(id) => Taken(id)'
  <2>1. \A id : f = Source(id) => f.sbn = id[1] /\ f.esi = id[2]
    BY DEF Source
  <2>. QED  BY <1>1, <1>3, <2>1 DEF Taken
<1>. QED  BY <1>1, <1>2, <1>5, <1>6 DEF Advances, FirstOnly

LEMMA Ingesting ==
  ASSUME FirstIsRead, LayoutInv, FirstOnly, SolvedInv, ~R!Complete,
         NEW f, f.stream = First, R!Ingest(f)
  PROVE  Advances(f)
<1>1. f.stream.sid = sid /\ f.stream.desc = "valid"
  BY DEF FirstOnly, FirstIsRead
<1>2. ~R!SessionMismatch(f) /\ ~R!RejectDescriptor(f)
  BY <1>1 DEF R!SessionMismatch, R!RejectDescriptor
<1>3. CASE R!RepeatedDescriptor(f) \/ R!ConfirmRestored(f)
  <2>1. /\ f.kind = "descriptor" /\ meta # NoMeta
        /\ UNCHANGED <<sid, meta, received, decoded, symbol_cache>>
    BY <1>3 DEF R!RepeatedDescriptor, R!ConfirmRestored, R!Seen, R!layoutVars,
                R!decoderVars, FirstOnly
  <2>2. \A id : Taken(id) <=> Taken(id)'
    BY <2>1 DEF Taken, R!Complete
  <2>3. \A id : f # Source(id)
    BY <2>1 DEF Source
  <2>. QED  BY <2>1, <2>2, <2>3 DEF Advances, FirstOnly
<1>4. CASE R!RejectSymbol(f) \/ R!UselessSymbol(f)
  <2>1. /\ f.kind = "data" /\ meta # NoMeta
        /\ UNCHANGED <<sid, meta, descriptor_seen, received, decoded, symbol_cache>>
    BY <1>4 DEF R!RejectSymbol, R!UselessSymbol, R!Seen, R!layoutVars, R!decoderVars, LayoutInv
  <2>2. \A id : Taken(id) <=> Taken(id)'
    BY <2>1 DEF Taken, R!Complete
  <2>3. ASSUME NEW id \in S!SourceIds, f = Source(id) PROVE Taken(id)
    <3>1. /\ f.sbn = id[1] /\ f.esi = id[2] /\ meta.k = First.k /\ meta.size = First.size
      <4>1. f.sbn = id[1] /\ f.esi = id[2]
        BY <2>3 DEF Source
      <4>2. R!MetaOf(First).k = First.k /\ R!MetaOf(First).size = First.size
        BY DEF R!MetaOf
      <4>. QED  BY <2>1, <4>1, <4>2 DEF FirstOnly
    <3>2. id[1] \in DOMAIN First.k /\ id[2] < EsiLimit
      BY SourceType DEF FirstOnly
    <3>3. R!Fits(meta, f.sbn, f.esi, f.stream.size)
      BY <3>1, <3>2 DEF R!Fits
    <3>4. R!UselessSymbol(f)
      BY <1>4, <3>3 DEF R!RejectSymbol
    <3>. QED  BY <2>1, <3>1, <3>4 DEF R!UselessSymbol, Taken
  <2>. QED  BY <2>1, <2>2, <2>3 DEF Advances, FirstOnly
<1>. QED
  BY <1>2, <1>3, <1>4, Learning, Caching, Decoding DEF R!Ingest

\* Beside a descriptor that was not read yet there is room for the whole screen.
LEMMA Room ==
  ASSUME ScreenFitsCache, FirstOnly, Early, CountInv, meta = NoMeta,
         NEW i \in DOMAIN screen, NEW id \in S!SourceIds, screen[i] = Source(id),
         id \notin DOMAIN symbol_cache
  PROVE  R!CacheHasRoom(First.size)
<1>1. /\ Begins(screen) /\ Len(screen) = Codes /\ screen # <<>>
      /\ DOMAIN symbol_cache \subseteq Beside
      /\ DOMAIN screen = 1..Codes /\ Codes \in Nat \ {0}
  BY TransferAssumption DEF Early, CountInv
<1>2. i \in 2..Codes
  <2>1. screen[i].kind = "data" /\ screen[1].kind = "descriptor"
    BY <1>1 DEF Source, Begins
  <2>2. i # 1
    BY <2>1
  <2>. QED  BY <1>1, <2>2
<1>3. id \in Beside
  <2>1. id = <<screen[i].sbn, screen[i].esi>>
    BY SourceType DEF Source, FirstOnly
  <2>. QED  BY <1>2, <2>1 DEF Beside
<1>4. IsFiniteSet(Beside) /\ Cardinality(Beside) <= Codes - 1
  <2> DEFINE I == 2..Codes
             at == [j \in I |-> <<screen[j].sbn, screen[j].esi>>]
  <2>1. IsFiniteSet(I) /\ Cardinality(I) = Codes - 1
    <3>1. 2 \in Int /\ Codes \in Int /\ 2 <= Codes
      BY <1>1, <1>2
    <3>. QED  BY <3>1, FS_Interval
  <2>2. at \in Surjection(I, Beside)
    BY DEF Surjection, Beside
  <2>. HIDE DEF at, I
  <2>. QED  BY <2>1, <2>2, FS_Surjection
<1>5. /\ IsFiniteSet(DOMAIN symbol_cache)
      /\ Cardinality(DOMAIN symbol_cache) < Cardinality(Beside)
      /\ Cardinality(DOMAIN symbol_cache) \in Nat /\ Cardinality(Beside) \in Nat
  <2> DEFINE C == DOMAIN symbol_cache
  <2>1. C \in SUBSET Beside /\ C # Beside
    BY <1>1, <1>3
  <2>. HIDE DEF C
  <2>2. IsFiniteSet(C) /\ Cardinality(C) <= Cardinality(Beside)
          /\ Cardinality(C) # Cardinality(Beside)
    BY <1>4, <2>1, FS_Subset
  <2>3. Cardinality(C) \in Nat /\ Cardinality(Beside) \in Nat
    BY <1>4, <2>2, FS_CardinalityType
  <2>4. Cardinality(C) < Cardinality(Beside)
    BY <2>2, <2>3
  <2>. QED  BY <2>2, <2>3, <2>4 DEF C
<1>6. R!CacheMax(First.size) \in Nat /\ Codes - 1 <= R!CacheMax(First.size)
  <2>1. /\ CacheBudget \in Nat \ {0} /\ EntryFloor \in Nat \ {0}
        /\ First.size \in Nat \ {0}
    BY TransferAssumption, StreamAssumption DEF R!StreamRecord
  <2>2. R!PerEntry(First.size) \in Nat \ {0}
    BY <2>1 DEF R!PerEntry
  <2>3. R!CacheMax(First.size) \in Nat
    BY <2>1, <2>2 DEF R!CacheMax
  <2>. QED  BY <2>3 DEF ScreenFitsCache
<1>7. R!Cardinality(DOMAIN symbol_cache) = Cardinality(DOMAIN symbol_cache)
  BY InstanceSets
<1>8. Cardinality(DOMAIN symbol_cache) < R!CacheMax(First.size)
  BY <1>1, <1>4, <1>5, <1>6
<1>. QED  BY <1>7, <1>8 DEF R!CacheHasRoom

\* The source symbols and what was taken, where neither sender nor receiver move.
LEMMA SamePlan ==
  ASSUME UNCHANGED blocks
  PROVE  S!SourceIds' = S!SourceIds /\ \A id : Place(id)' = Place(id)
BY DEF Place, S!SourceIds, S!Blocks

LEMMA StillTaken ==
  ASSUME UNCHANGED <<meta, received, decoded, symbol_cache>>
  PROVE  \A id : Taken(id)' <=> Taken(id)
BY DEF Taken, R!Complete

LEMMA InitPass == OneSession /\ Init => PassInv /\ SolvedInv
<1> SUFFICES ASSUME OneSession, Init PROVE PassInv /\ SolvedInv
  OBVIOUS
<1>1. /\ blocks = First.k /\ stream = First /\ descriptor_interval = DefaultInterval
      /\ source_cursor = 0 /\ frame_index = 0
      /\ batch = <<>> /\ screen = <<>> /\ symbol_cache = R!NoBlocks
      /\ meta = NoMeta /\ descriptor_seen = FALSE /\ sid \in R!Sids
  BY DEF Init, S!Init, R!Init
<1>2. sid = First.sid
  BY <1>1, TransferAssumption DEF R!Sids, OneSession
<1>3. DOMAIN symbol_cache = {} /\ DOMAIN batch = {} /\ DOMAIN screen = {}
  BY <1>1 DEF R!NoBlocks
<1>4. FirstOnly
  BY <1>1, <1>2, <1>3 DEF FirstOnly
<1>5. Early
  BY <1>1, <1>3 DEF Early, Begins
<1>6. Followed
  <2>1. \A id \in S!SourceIds : ~(Place(id) < source_cursor)
    BY <1>1, PlaceType
  <2>. QED  BY <2>1 DEF Followed
<1>. QED  BY <1>1, <1>4, <1>5, <1>6 DEF PassInv, SolvedInv

\* A read: what left the screen was taken.
LEMMA ReadPass ==
  ASSUME FirstIsRead, ScreenFitsCache, LayoutInv, SolvedInv, CountInv,
         FirstOnly, Early, Followed, NEW i \in DOMAIN screen, Read(i)
  PROVE  FirstOnly' /\ Early' /\ Followed'
<1> DEFINE f == screen[i]
<1>1. /\ R!Ingest(f) /\ ~R!Complete /\ scans' = [scans EXCEPT ![i] = @ + 1]
      /\ UNCHANGED <<blocks, source_cursor, frame_index, descriptor_interval,
                     stream, batch, screen>>
  BY DEF Read, senderVars
<1>2. f.stream = First
  BY DEF FirstOnly
<1>3. Advances(f)
  BY <1>1, <1>2, Ingesting
<1>. HIDE DEF f
<1>4. \A j \in DOMAIN screen : j # i /\ j \in Unread => j \in Unread'
  BY <1>1 DEF Unread, CountInv
<1>5. FirstOnly'
  BY <1>1, <1>3 DEF FirstOnly, Advances
<1>6. Early'
  <2> SUFFICES ASSUME meta' = NoMeta PROVE Early'
    BY DEF Early
  <2>1. /\ meta = NoMeta /\ f.kind = "data"
        /\ DOMAIN symbol_cache' \subseteq DOMAIN symbol_cache \cup {<<f.sbn, f.esi>>}
    BY <1>3 DEF Advances
  <2>2. /\ screen # <<>> /\ Begins(screen) /\ Len(screen) = Codes /\ 1 \in Unread
        /\ DOMAIN symbol_cache \subseteq Beside
    BY <2>1 DEF Early
  <2>3. i # 1 /\ i \in 1..Codes /\ Codes \in Nat
    <3>1. f.kind # "descriptor" /\ screen[1].kind = "descriptor"
      BY <2>1, <2>2 DEF Begins
    <3>2. DOMAIN screen = 1..Codes
      BY <2>2 DEF CountInv
    <3>. QED  BY <3>1, <3>2, TransferAssumption DEF f
  <2>4. <<f.sbn, f.esi>> \in Beside
    BY <2>3 DEF Beside, f
  <2>5. Beside' = Beside
    BY <1>1 DEF Beside
  <2>6. 1 \in Unread'
    BY <1>4, <2>2, <2>3 DEF Unread
  <2>7. DOMAIN symbol_cache' \subseteq Beside'
    BY <2>1, <2>2, <2>4, <2>5
  <2>. QED  BY <1>1, <2>2, <2>6, <2>7 DEF Early, Begins
<1>7. Followed'
  <2>1. S!SourceIds' = S!SourceIds /\ \A id : Place(id)' = Place(id)
    BY <1>1, SamePlan
  <2>2. ASSUME NEW id \in S!SourceIds, Place(id) < source_cursor
        PROVE  Awaited(Source(id))' \/ Taken(id)'
    <3>1. CASE Taken(id)
      BY <1>3, <3>1 DEF Advances
    <3>2. CASE \E j \in DOMAIN batch : batch[j] = Source(id)
      BY <1>1, <3>2 DEF Awaited, Source
    <3>3. ASSUME NEW j \in Unread, screen[j] = Source(id), j # i
          PROVE  Awaited(Source(id))'
      <4>1. j \in Unread' /\ screen'[j] = Source(id)
        BY <1>1, <1>4, <3>3 DEF Unread
      <4>. QED  BY <4>1 DEF Awaited, Source
    <3>4. CASE screen[i] = Source(id)
      <4>1. meta = NoMeta /\ id \notin DOMAIN symbol_cache => R!CacheHasRoom(First.size)
        BY <3>4, Room
      <4>. QED  BY <1>3, <3>4, <4>1 DEF Advances, f
    <3>. QED  BY <2>2, <3>1, <3>2, <3>3, <3>4 DEF Followed, Awaited
  <2>. QED  BY <1>1, <2>1, <2>2 DEF Followed
<1>. QED  BY <1>5, <1>6, <1>7

\* A frame is taken: it is the next of the plan, or the descriptor that begins it.
LEMMA ProducePass ==
  ASSUME CountInv, FirstOnly, Early, Followed, Produce
  PROVE  FirstOnly' /\ Early' /\ Followed'
<1>1. PICK frame :
        /\ batch' = Append(batch, Wire(frame))
        /\ UNCHANGED <<blocks, descriptor_interval>>
        /\ \/ frame = S!DescriptorFrame /\ UNCHANGED source_cursor
           \/ /\ ~S!DescriptorDue /\ source_cursor' = source_cursor + 1
              /\ frame = S!DataFrame(S!PlanEntry(source_cursor))
           \/ /\ ~S!DescriptorDue /\ UNCHANGED source_cursor
              /\ S!SourcePassOver
  BY Taking
<1>2. UNCHANGED <<sid, meta, descriptor_seen, received, decoded, symbol_cache, stream,
                  screen, scans>>
  BY DEF Produce, receiverVars, screenVars
<1> DEFINE w == Wire(frame)
<1>3. w.stream = First /\ w.kind = frame.kind
        /\ w = [kind |-> frame.kind, stream |-> First, sbn |-> frame.sbn, esi |-> frame.esi]
  BY DEF Wire, FirstOnly
<1>. HIDE DEF w
<1>4. PICK F : batch \in Seq(F)
  BY DEF CountInv
<1>5. /\ DOMAIN batch' = DOMAIN batch \cup {Len(batch) + 1}
      /\ batch'[Len(batch) + 1] = w
      /\ \A i \in DOMAIN batch : batch'[i] = batch[i]
  <2> DEFINE G == F \cup {w}
  <2>1. batch \in Seq(G) /\ w \in G /\ batch' = Append(batch, w)
    BY <1>1, <1>4 DEF w
  <2>. HIDE DEF G
  <2>2. /\ batch' \in Seq(G) /\ Len(batch') = Len(batch) + 1
        /\ \A i \in 1..Len(batch) : batch'[i] = batch[i]
        /\ batch'[Len(batch) + 1] = w
    BY <2>1
  <2>3. DOMAIN batch = 1..Len(batch) /\ DOMAIN batch' = 1..Len(batch') /\ Len(batch) \in Nat
    BY <2>1, <2>2
  <2>. QED  BY <2>2, <2>3
<1>6. FirstOnly'
  BY <1>1, <1>2, <1>3, <1>5 DEF FirstOnly
<1>7. Early'
  <2> SUFFICES ASSUME meta = NoMeta PROVE Early'
    BY <1>2 DEF Early
  <2>1. CASE screen # <<>>
    <3>1. Unread' = Unread /\ Beside' = Beside
      BY <1>2 DEF Unread, Beside
    <3>. QED  BY <1>2, <2>1, <3>1 DEF Early, Begins
  <2>2. CASE screen = <<>>
    <3>1. /\ Begins(batch) /\ DOMAIN symbol_cache = {}
          /\ batch = <<>> => frame_index = 0
      BY <2>2 DEF Early
    <3>2. batch' # <<>> /\ batch'[1].kind = "descriptor"
      <4>1. CASE batch = <<>>
        <5>1. S!DescriptorDue
          <6>1. frame_index = 0 /\ descriptor_interval \in Nat \ {0}
            BY <3>1, <4>1, StreamAssumption DEF FirstOnly
          <6>. QED  BY <6>1 DEF S!DescriptorDue
        <5>2. w.kind = "descriptor"
          BY <1>1, <1>3, <5>1 DEF S!DescriptorFrame
        <5>. QED  BY <1>5, <4>1, <5>2
      <4>2. CASE batch # <<>>
        <5>1. 1 \in DOMAIN batch
          BY <1>4, <4>2
        <5>. QED  BY <1>5, <3>1, <4>2, <5>1 DEF Begins
      <4>. QED  BY <4>1, <4>2
    <3>. QED  BY <1>2, <2>2, <3>1, <3>2 DEF Early, Begins
  <2>. QED  BY <2>1, <2>2
<1>8. Followed'
  <2>1. S!SourceIds' = S!SourceIds /\ \A id : Place(id)' = Place(id)
    BY <1>1, SamePlan
  <2>2. ASSUME NEW id \in S!SourceIds, Place(id) < source_cursor'
        PROVE  Awaited(Source(id))' \/ Taken(id)'
    <3>1. CASE Place(id) < source_cursor
      <4>1. Unread' = Unread
        BY <1>2 DEF Unread
      <4>2. Awaited(Source(id)) => Awaited(Source(id))'
        BY <1>2, <1>5, <4>1 DEF Awaited, Source
      <4>3. Taken(id)' <=> Taken(id)
        BY <1>2, StillTaken
      <4>. QED  BY <3>1, <4>2, <4>3 DEF Followed
    <3>2. CASE ~(Place(id) < source_cursor)
      <4>1. blocks = First.k /\ Place(id) \in Nat /\ source_cursor \in Nat
        BY PlaceType DEF FirstOnly, CountInv
      <4>2. Place(id) = source_cursor /\ frame = S!DataFrame(S!PlanEntry(source_cursor))
        BY <1>1, <2>2, <3>2, <4>1
      <4>3. frame = S!DataFrame(id)
        BY <4>1, <4>2, NextPlace
      <4>4. w = Source(id)
        BY <1>3, <4>3 DEF S!DataFrame, Source
      <4>. QED  BY <1>5, <4>4 DEF Awaited, Source
    <3>. QED  BY <3>1, <3>2
  <2>. QED  BY <2>1, <2>2 DEF Followed
<1>. QED  BY <1>6, <1>7, <1>8

\* The next screen, when all of the last one was read.
LEMMA ShowPass ==
  ASSUME CountInv, FirstOnly, Early, Followed, Show, Unread = {}
  PROVE  FirstOnly' /\ Early' /\ Followed'
<1>1. /\ Len(batch) = Codes /\ screen' = batch /\ batch' = <<>>
      /\ scans' = [i \in DOMAIN batch |-> 0]
      /\ UNCHANGED <<blocks, source_cursor, frame_index, descriptor_interval, stream,
                     sid, meta, descriptor_seen, received, decoded, symbol_cache>>
  BY DEF Show, senderVars, receiverVars
<1>2. Unread' = DOMAIN batch
  BY <1>1 DEF Unread
<1>3. FirstOnly'
  BY <1>1 DEF FirstOnly
<1>4. Early'
  <2> SUFFICES ASSUME meta = NoMeta PROVE Early'
    BY <1>1 DEF Early
  <2>1. Begins(batch) /\ DOMAIN symbol_cache = {}
    BY DEF Early
  <2>2. batch # <<>> /\ 1 \in DOMAIN batch
    BY <1>1, TransferAssumption DEF CountInv
  <2>. QED  BY <1>1, <1>2, <2>1, <2>2 DEF Early, Begins
<1>5. Followed'
  <2>1. S!SourceIds' = S!SourceIds /\ \A id : Place(id)' = Place(id)
    BY <1>1, SamePlan
  <2>2. \A id : Taken(id)' <=> Taken(id)
    BY <1>1, StillTaken
  <2>3. \A id \in S!SourceIds : Awaited(Source(id)) => Awaited(Source(id))'
    BY <1>1, <1>2 DEF Awaited, Source
  <2>. QED  BY <1>1, <2>1, <2>2, <2>3 DEF Followed
<1>. QED  BY <1>3, <1>4, <1>5

LEMMA SamePass ==
  ASSUME FirstOnly, Early, Followed, UNCHANGED vars \/ Checkpoint
  PROVE  FirstOnly' /\ Early' /\ Followed'
<1>1. UNCHANGED <<blocks, source_cursor, frame_index, descriptor_interval, stream, batch,
                  screen, scans, sid, meta, descriptor_seen, received, decoded, symbol_cache>>
  BY DEF vars, senderVars, receiverVars, screenVars, Checkpoint, R!SaveState,
         R!layoutVars, R!decoderVars, R!arrivalVars
<1>2. S!SourceIds' = S!SourceIds /\ \A id : Place(id)' = Place(id)
  BY <1>1, SamePlan
<1>3. \A id : Taken(id)' <=> Taken(id)
  BY <1>1, StillTaken
<1>4. Unread' = Unread /\ Beside' = Beside
  BY <1>1 DEF Unread, Beside
<1>5. \A id : Awaited(Source(id))' <=> Awaited(Source(id))
  BY <1>1, <1>4 DEF Awaited, Source
<1>6. FirstOnly'
  BY <1>1 DEF FirstOnly
<1>7. Early'
  BY <1>1, <1>4 DEF Early, Begins
<1>8. Followed'
  BY <1>1, <1>2, <1>3, <1>5 DEF Followed
<1>. QED  BY <1>6, <1>7, <1>8

LEMMA StepPass ==
  ASSUME FirstIsRead, ScreenFitsCache, LayoutInv, SolvedInv, CountInv, PassInv, [Next]_vars
  PROVE  PassInv'
<1> SUFFICES ASSUME Quiet' PROVE FirstOnly' /\ Early' /\ Followed'
  BY DEF PassInv
<1>1. /\ Quiet
      /\ \/ UNCHANGED vars \/ Produce \/ Checkpoint
         \/ Show /\ Unread = {}
         \/ \E i \in DOMAIN screen : Read(i)
  BY QuietSteps
<1>2. FirstOnly /\ Early /\ Followed
  BY <1>1 DEF PassInv
<1>. QED  BY <1>1, <1>2, ReadPass, ProducePass, ShowPass, SamePass

LEMMA PassDone ==
  ASSUME LayoutInv, SolvedInv, CountInv, PassInv
  PROVE  NoRepairWithoutLoss
<1> SUFFICES ASSUME Quiet, Unread = {}, batch = <<>>,
                    source_cursor = Cardinality(S!SourceIds), ~R!Complete
             PROVE  FALSE
  BY DEF NoRepairWithoutLoss, Quiet, Done
<1>1. FirstOnly /\ Early /\ Followed
  BY DEF PassInv
<1>2. /\ blocks = First.k /\ IsFiniteSet(S!SourceIds) /\ S!SourceIds # {}
      /\ Cardinality(S!SourceIds) \in Nat
  BY <1>1, SourceType, FS_CardinalityType DEF FirstOnly
<1>3. \A id \in S!SourceIds : Taken(id)
  <2> TAKE id \in S!SourceIds
  <2>1. Place(id) < source_cursor
    BY <1>2, PlaceType
  <2>2. ~Awaited(Source(id))
    BY DEF Awaited
  <2>. QED  BY <1>1, <2>1, <2>2 DEF Followed
<1>4. meta # NoMeta
  <2> SUFFICES ASSUME meta = NoMeta PROVE FALSE
    OBVIOUS
  <2>1. source_cursor = 0
    BY <1>1 DEF Early
  <2>. QED  BY <1>2, <2>1, FS_EmptySet
<1>5. meta.k = First.k
  <2>1. R!MetaOf(First).k = First.k
    BY DEF R!MetaOf
  <2>. QED  BY <1>1, <1>4, <2>1 DEF FirstOnly
<1>6. ASSUME NEW b \in DOMAIN meta.k PROVE decoded[b]
  <2>1. \A e \in 0..(meta.k[b] - 1) : e \in received[b]
    <3> TAKE e \in 0..(meta.k[b] - 1)
    <3>1. <<b, e>> \in S!SourceIds
      BY <1>2, <1>5, SourceType
    <3>2. Taken(<<b, e>>)
      BY <1>3, <3>1
    <3>. QED  BY <1>4, <3>2 DEF Taken
  <2>. QED  BY <1>4, <2>1 DEF SolvedInv
<1>. QED  BY <1>4, <1>6 DEF R!Complete

\* A receiver that films a first pass without missing a frame is done when it
\* ends, without any repair symbol, in whatever order and however often it reads
\* what is on the screen, for any file, cadence and number of codes (sender.rs:
\* 299-301, receiver.rs:349-384, 452-475): the descriptor is on the first screen,
\* the cache holds what is read before it, and the source symbols suffice.
THEOREM NoRepairNeeded ==
  ASSUME OneSession, FirstIsRead, ScreenFitsCache
  PROVE  Spec => []NoRepairWithoutLoss
<1> DEFINE Inv == IInv /\ CountInv /\ SolvedInv /\ PassInv
<1>1. Init => Inv
  BY InitInv, InitCount, InitPass
<1>2. Inv /\ [Next]_vars => Inv'
  <2> SUFFICES ASSUME Inv, [Next]_vars PROVE Inv'
    OBVIOUS
  <2>1. IInv'
    BY StepScreen, StepLayout DEF IInv
  <2>2. CountInv' /\ SolvedInv'
    BY StepCount, StepSolved
  <2>3. PassInv'
    BY StepPass DEF IInv
  <2>. QED  BY <2>1, <2>2, <2>3
<1>3. Inv => NoRepairWithoutLoss
  BY PassDone DEF IInv
<1>. QED  BY <1>1, <1>2, <1>3, PTL DEF Spec

----------------------------------------------------------------------------
(* The receiver in a transfer is ReceiverSession: what the sender shows are *)
(* frames that its specification knows, so that the theorems about it hold. *)

FramesInv ==
  /\ stream \in Streams /\ blocks = stream.k
  /\ source_cursor \in Nat /\ repair_cursor \in Nat
  /\ \E E : emitted \in Seq(E)
  /\ batch \in Seq(R!Frames) /\ screen \in Seq(R!Frames)

\* What is on the wire is a frame of the stream.
LEMMA WireIsFrame ==
  ASSUME stream \in Streams
  PROVE  /\ Wire(S!DescriptorFrame) \in R!Frames
         /\ \A id : id[1] \in DOMAIN stream.k /\ id[2] \in 0..(EsiLimit - 1) =>
              Wire(S!DataFrame(id)) \in R!Frames
<1>1. Wire(S!DescriptorFrame) = R!Descriptor(stream)
  BY DEF Wire, S!DescriptorFrame, R!Descriptor
<1>2. \A id : Wire(S!DataFrame(id)) = R!DataFrame(stream, id[1], id[2])
  BY DEF Wire, S!DataFrame, R!DataFrame
<1>3. \A b \in DOMAIN stream.k, e \in 0..(EsiLimit - 1) : R!DataFrame(stream, b, e) \in R!Frames
  BY DEF R!Frames, R!Esis
<1>4. R!Descriptor(stream) \in R!Frames
  BY DEF R!Frames
<1>. QED  BY <1>1, <1>2, <1>3, <1>4

\* Each symbol that the sender takes is one of its stream.
LEMMA SourceIsFrame ==
  ASSUME FramesInv, ~S!SourcePassOver
  PROVE  Wire(S!DataFrame(S!PlanEntry(source_cursor))) \in R!Frames
<1> DEFINE id == S!PlanEntry(source_cursor)
<1>1. S!Cardinality(S!SourceIds) = Cardinality(S!SourceIds)
  BY InstanceSets
<1>2. Cardinality(S!SourceIds) \in Nat
  BY SourcesOf, FS_CardinalityType DEF FramesInv
<1>3. source_cursor \in 0..(Cardinality(S!SourceIds) - 1)
  BY <1>1, <1>2 DEF FramesInv, S!SourcePassOver
<1>4. id \in S!SourceIds
  BY <1>3, EntryIsSource DEF FramesInv
<1>. HIDE DEF id
<1>5. /\ id[1] \in DOMAIN stream.k /\ id[2] \in Nat /\ id[2] < EsiLimit
  <2>1. /\ id[1] \in DOMAIN stream.k /\ id[2] < EsiLimit
        /\ id \in Nat \X Nat
    BY <1>4, SourcesOf DEF FramesInv
  <2>. QED  BY <2>1
<1>6. id[2] \in 0..(EsiLimit - 1)
  BY <1>5, StreamAssumption
<1>. QED  BY <1>5, <1>6, WireIsFrame DEF FramesInv, id

LEMMA RepairIsFrame ==
  ASSUME FramesInv, S!InEsiSpace(S!RepairId(repair_cursor))
  PROVE  Wire(S!DataFrame(S!RepairId(repair_cursor))) \in R!Frames
<1> DEFINE B   == DOMAIN stream.k
           n   == Cardinality(B)
           sbn == repair_cursor % n
           q   == repair_cursor \div n
           id  == S!RepairId(repair_cursor)
<1>1. S!IsLayout(stream.k) /\ EsiLimit \in Nat \ {0}
  BY StreamAssumption DEF FramesInv
<1>2. /\ S!IsFiniteSet(B) /\ B # {} /\ B = 0..(S!Cardinality(B) - 1)
      /\ \A b \in B : stream.k[b] \in 1..EsiLimit
  BY <1>1 DEF S!IsLayout
<1>3. S!Cardinality(B) = n /\ IsFiniteSet(B)
  BY <1>2, InstanceSets
<1>4. id = <<sbn, stream.k[sbn] + q>>
  <2>1. S!Cardinality(S!Blocks) = n
    BY <1>3 DEF FramesInv, S!Blocks
  <2>. QED  BY <2>1 DEF S!RepairId, FramesInv
<1>5. n \in Nat \ {0}
  <2>. HIDE DEF B
  <2>. QED  BY <1>2, <1>3, FS_CardinalityType, FS_EmptySet
<1>6. repair_cursor \in Nat
  BY DEF FramesInv
<1>7. id[2] < EsiLimit
  BY DEF S!InEsiSpace
<1>. HIDE DEF id, B, n
<1>8. sbn \in 0..(n - 1) /\ q \in Nat
  BY <1>5, <1>6
<1>. HIDE DEF sbn, q
<1>9. sbn \in B
  BY <1>2, <1>3, <1>8
<1>10. stream.k[sbn] \in Nat
  BY <1>1, <1>2, <1>9
<1>11. id[1] = sbn /\ id[2] = stream.k[sbn] + q
  BY <1>4
<1>12. id[2] \in 0..(EsiLimit - 1)
  BY <1>1, <1>7, <1>8, <1>10, <1>11
<1>. QED  BY <1>9, <1>11, <1>12, WireIsFrame DEF FramesInv, B, id

LEMMA InitFrames == Init => FramesInv
<1> SUFFICES ASSUME Init PROVE FramesInv
  OBVIOUS
<1>1. /\ emitted \in Seq({}) /\ batch \in Seq(R!Frames) /\ screen \in Seq(R!Frames)
  BY DEF Init, S!Init
<1>2. /\ stream \in Streams /\ blocks = stream.k
      /\ source_cursor \in Nat /\ repair_cursor \in Nat
  BY TransferAssumption DEF Init, S!Init
<1>. QED  BY <1>1, <1>2 DEF FramesInv

LEMMA StepFrames == FramesInv /\ [Next]_vars => FramesInv'
<1> SUFFICES ASSUME FramesInv, [Next]_vars PROVE FramesInv'
  OBVIOUS
<1>. USE DEF FramesInv
<1>1. CASE UNCHANGED vars
  BY <1>1 DEF vars, senderVars, screenVars
<1>2. CASE Produce
  <2>1. PICK E : emitted \in Seq(E)
    OBVIOUS
  <2>2. ASSUME NEW frame, emitted' = Append(emitted, frame), Wire(frame) \in R!Frames
        PROVE  (\E G : emitted' \in Seq(G)) /\ batch' \in Seq(R!Frames)
    <3> DEFINE G == E \cup {frame}
    <3>1. emitted \in Seq(G) /\ frame \in G
      BY <2>1
    <3>. HIDE DEF G
    <3>2. emitted' \in Seq(G) /\ emitted'[Len(emitted')] = frame
      BY <2>2, <3>1
    <3>3. batch' = Append(batch, Wire(frame))
      BY <1>2, <3>2 DEF Produce
    <3>. QED  BY <2>2, <3>2, <3>3
  <2>3. UNCHANGED <<stream, screen>>
    BY <1>2 DEF Produce, screenVars
  <2>4. CASE S!NextDescriptor
    BY <2>2, <2>3, <2>4, WireIsFrame DEF S!NextDescriptor, S!Return
  <2>5. CASE S!NextSource
    BY <2>2, <2>3, <2>5, SourceIsFrame DEF S!NextSource, S!Return
  <2>6. CASE S!NextRepair
    BY <2>2, <2>3, <2>6, RepairIsFrame DEF S!NextRepair, S!Return
  <2>7. CASE S!NextExhausted
    BY <1>2, <2>7 DEF S!NextExhausted, Produce
  <2>. QED  BY <1>2, <2>4, <2>5, <2>6, <2>7 DEF Produce, S!NextFrame
<1>3. CASE Show
  BY <1>3 DEF Show, senderVars
<1>4. ASSUME NEW s \in Streams, Resend(s) PROVE FramesInv'
  <2>1. /\ stream' = s /\ blocks' = s.k /\ source_cursor' = 0 /\ repair_cursor' = 0
        /\ emitted' = <<>> /\ batch' = <<>> /\ screen' = <<>>
    BY <1>4 DEF Resend
  <2>2. emitted' \in Seq({}) /\ batch' \in Seq(R!Frames) /\ screen' \in Seq(R!Frames)
    BY <2>1
  <2>. QED  BY <2>1, <2>2
<1>5. CASE (\E i \in DOMAIN screen : Read(i)) \/ Checkpoint \/ Restart
  BY <1>5 DEF Read, Checkpoint, Restart, senderVars, screenVars
<1>. QED  BY <1>1, <1>2, <1>3, <1>4, <1>5 DEF Next

\* Whatever the sender shows, the camera reads and the user does, the receiver
\* in a transfer behaves as ReceiverSession does with any frames of the streams:
\* what is proved of that session holds in a transfer.
THEOREM RunsTheReceiver == Spec => R!Spec
<1>1. FramesInv /\ [Next]_vars => [R!Next]_(R!vars)
  <2> SUFFICES ASSUME FramesInv, [Next]_vars PROVE [R!Next]_(R!vars)
    OBVIOUS
  <2>1. CASE UNCHANGED receiverVars
    BY <2>1 DEF receiverVars, R!vars, R!layoutVars, R!decoderVars, R!counterVars, R!arrivalVars
  <2>2. CASE UNCHANGED vars \/ Produce \/ Show \/ \E s \in Streams : Resend(s)
    BY <2>1, <2>2 DEF vars, Produce, Show, Resend, receiverVars
  <2>3. ASSUME NEW i \in DOMAIN screen, Read(i) PROVE R!Next
    <3>1. screen[i] \in R!Frames
      BY DEF FramesInv
    <3>. QED  BY <2>3, <3>1 DEF Read, R!Next
  <2>4. CASE Checkpoint \/ Restart
    BY <2>4 DEF Checkpoint, Restart, R!Next
  <2>. QED  BY <2>2, <2>3, <2>4 DEF Next
<1>2. Init => R!Init
  BY DEF Init
<1>. QED  BY <1>1, <1>2, InitFrames, StepFrames, PTL DEF Spec, R!Spec
=============================================================================
