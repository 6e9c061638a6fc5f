----------------------- MODULE ReceiverSessionProofs -----------------------
(***************************************************************************)
(* Theorems about ReceiverSession, for any set of streams.                 *)
(***************************************************************************)
EXTENDS ReceiverSession, FiniteSetTheorems, TLAPS

----------------------------------------------------------------------------
(* Counting lemmas. *)

\* A finite family of finite sets, tagged with their index, is finite.
LEMMA TaggedUnionFinite ==
  ASSUME NEW D, IsFiniteSet(D), NEW f, \A b \in D : IsFiniteSet(f[b])
  PROVE  IsFiniteSet(UNION {{b} \X f[b] : b \in D})
<1> DEFINE g == [b \in D |-> {b} \X f[b]]
           T == {{b} \X f[b] : b \in D}
<1>1. IsFiniteSet(T)
  <2>1. g \in Surjection(D, T)
    BY DEF Surjection
  <2>. QED  BY <2>1, FS_Surjection
<1>2. ASSUME NEW b \in D
      PROVE  IsFiniteSet({b} \X f[b])
  <2>1. IsFiniteSet({b}) /\ IsFiniteSet(f[b])
    BY FS_Singleton
  <2>. QED  BY <2>1, FS_Product
<1>3. \A t \in T : IsFiniteSet(t)
  BY <1>2
<1>. HIDE DEF T
<1>4. IsFiniteSet(UNION T)
  BY <1>1, <1>3, FS_UNION
<1>. QED  BY <1>4 DEF T

\* The sum of a count kept per block (the total K, the decoded symbols) is a
\* number.
LEMMA UnitsCount ==
  ASSUME NEW D, IsFiniteSet(D), NEW count \in [D -> Nat]
  PROVE  IsFiniteSet(Units(count)) /\ Cardinality(Units(count)) \in Nat
<1> DEFINE f == [b \in D |-> 0..(count[b] - 1)]
<1>1. \A b \in D : IsFiniteSet(f[b])
  BY FS_Interval
<1>2. IsFiniteSet(UNION {{b} \X f[b] : b \in D})
  <2>. HIDE DEF f
  <2>. QED  BY <1>1, TaggedUnionFinite
<1>3. Units(count) = UNION {{b} \X f[b] : b \in D}
  BY DEF Units
<1>. QED  BY <1>2, <1>3, FS_CardinalityType

\* The number of ESIs received over all blocks is a number.
LEMMA EntriesCount ==
  ASSUME NEW D, IsFiniteSet(D), NEW sets, DOMAIN sets = D,
         \A b \in D : IsFiniteSet(sets[b])
  PROVE  IsFiniteSet(Entries(sets)) /\ Cardinality(Entries(sets)) \in Nat
<1>1. Entries(sets) = UNION {{b} \X sets[b] : b \in D}
  BY DEF Entries
<1>. QED  BY <1>1, TaggedUnionFinite, FS_CardinalityType

\* Only finitely many ESIs exist, so any set of them can be counted.
LEMMA EsisFinite ==
  ASSUME NEW S \in SUBSET Esis
  PROVE  IsFiniteSet(S) /\ Cardinality(S) \in Nat
<1>1. MaxEsi \in Int /\ 0 \in Int
  BY ReceiverAssumption
<1>2. IsFiniteSet(Esis)
  BY <1>1, FS_Interval DEF Esis
<1>. QED  BY <1>2, FS_Subset, FS_CardinalityType

\* The layout of every stream is a finite, non-empty sequence of positive K.
LEMMA LayoutType ==
  ASSUME NEW m \in Metas
  PROVE  /\ IsFiniteSet(DOMAIN m.k)
         /\ DOMAIN m.k # {}
         /\ m.k \in [DOMAIN m.k -> Nat \ {0}]
         /\ m.size \in Nat \ {0}
         /\ m # NoMeta
<1>1. PICK s \in Streams : m = [size |-> s.size, k |-> s.k]
  BY DEF Metas, MetaOf
<1>2. StreamRecord(s)
  BY ReceiverAssumption
<1>. QED  BY <1>1, <1>2, ReceiverAssumption DEF StreamRecord

\* The ESI of a symbol is one of the ESIs that frames carry.
LEMMA SymbolType ==
  ASSUME NEW p \in Symbols
  PROVE  p.esi \in Esis
BY DEF Symbols, Symbol

\* A frame of a stream carries a symbol of it.
LEMMA FrameType ==
  ASSUME NEW f \in Frames
  PROVE  /\ f.stream \in Streams
         /\ f.kind = "data" =>
              /\ f.esi \in Esis
              /\ f.sbn \in DOMAIN f.stream.k
              /\ Symbol(f.stream, f.sbn, f.esi) \in Symbols
BY DEF Frames, Descriptor, DataFrame, Symbols

\* refresh_decoded_counts yields a number.
LEMMA DecodedCountType ==
  ASSUME NEW m \in Metas, NEW src \in [DOMAIN m.k -> Nat], NEW dec
  PROVE  DecodedCount(m.k, src, dec) \in Nat
<1> DEFINE count == [b \in DOMAIN m.k |->
                       IF dec[b] \/ src[b] > m.k[b] THEN m.k[b] ELSE src[b]]
<1>1. count \in [DOMAIN m.k -> Nat]
  BY LayoutType
<1>2. DecodedCount(m.k, src, dec) = Cardinality(Units(count))
  BY DEF DecodedCount
<1>. HIDE DEF count
<1>. QED  BY <1>1, <1>2, LayoutType, UnitsCount

----------------------------------------------------------------------------
(* Type correctness. *)

\* What a cache must be for its replay to make sense.
Cached(cache) ==
  /\ IsFiniteSet(DOMAIN cache)
  /\ \A key \in DOMAIN cache :
       /\ cache[key] \in Symbols
       /\ key = <<cache[key].sbn, cache[key].esi>>

\* The replay of a cache into a fresh decoder.
LEMMA ReplayType ==
  ASSUME NEW m \in Metas, NEW cache, Cached(cache), Replay(m, cache)
  PROVE  /\ meta' = m
         /\ received' \in [DOMAIN m.k -> SUBSET Esis]
         /\ source_recv' \in [DOMAIN m.k -> Nat]
         /\ offered' \in [DOMAIN m.k -> SUBSET Symbols]
         /\ decoded' \in [DOMAIN m.k -> BOOLEAN]
         /\ received_symbols' \in Nat
         /\ decoded_symbols' \in Nat
<1> DEFINE R == Replayable(m, cache)
<1>1. \A key \in R : key \in DOMAIN cache /\ cache[key] \in Symbols /\ key[2] \in Esis
  BY SymbolType DEF Replayable, Cached
<1>2. meta' = m
  BY DEF Replay
<1>3. received' \in [DOMAIN m.k -> SUBSET Esis]
  <2>1. received' = [b \in DOMAIN m.k |-> {key[2] : key \in {x \in R : x[1] = b}}]
    BY DEF Replay
  <2>. QED  BY <1>1, <2>1
<1>4. offered' \in [DOMAIN m.k -> SUBSET Symbols]
  <2>1. offered' = [b \in DOMAIN m.k |-> {cache[key] : key \in {x \in R : x[1] = b}}]
    BY DEF Replay
  <2>. QED  BY <1>1, <2>1
<1>. HIDE DEF R
<1>5. source_recv' \in [DOMAIN m.k -> Nat]
  <2>1. source_recv' = [b \in DOMAIN m.k |->
                          Cardinality({esi \in received'[b] : esi < m.k[b]})]
    BY DEF Replay
  <2>2. \A b \in DOMAIN m.k : {esi \in received'[b] : esi < m.k[b]} \in SUBSET Esis
    BY <1>3
  <2>3. \A b \in DOMAIN m.k : Cardinality({esi \in received'[b] : esi < m.k[b]}) \in Nat
    BY <2>2, EsisFinite
  <2>. QED  BY <2>1, <2>3
<1>6. decoded' \in [DOMAIN m.k -> BOOLEAN]
  BY DEF Replay
<1>7. received_symbols' \in Nat
  <2>1. \A b \in DOMAIN m.k : IsFiniteSet(received'[b])
    BY <1>3, EsisFinite
  <2>2. DOMAIN received' = DOMAIN m.k
    BY <1>3
  <2>3. received_symbols' = Cardinality(Entries(received'))
    BY DEF Replay
  <2>. QED  BY <2>1, <2>2, <2>3, LayoutType, EntriesCount
<1>8. decoded_symbols' \in Nat
  <2>1. decoded_symbols' = DecodedCount(m.k, source_recv', decoded')
    BY DEF Replay
  <2>. QED  BY <1>5, <2>1, DecodedCountType
<1>. QED  BY <1>2, <1>3, <1>4, <1>5, <1>6, <1>7, <1>8

\* Type correctness needs to know that no symbol is cached once the layout is
\* known: that is why a checkpoint never carries one.
CacheDropped == meta_confirmed => symbol_cache = NoBlocks

IInv == TypeOK /\ CacheDropped

KnownBlocks == IF meta = NoMeta THEN {} ELSE DOMAIN meta.k

DecoderTyped ==
  /\ received \in [KnownBlocks -> SUBSET Esis]
  /\ source_recv \in [KnownBlocks -> Nat]
  /\ offered \in [KnownBlocks -> SUBSET Symbols]
  /\ decoded \in [KnownBlocks -> BOOLEAN]

LayoutTyped ==
  /\ sid \in Sids
  /\ meta \in Metas \cup {NoMeta}
  /\ meta_confirmed = (meta # NoMeta)
  /\ descriptor_seen \in BOOLEAN
  /\ descriptor_seen => meta_confirmed
  /\ file_meta \in {s.file : s \in Streams} \cup {NoFile}

CountersTyped ==
  /\ frames_seen \in Nat /\ frames_duplicate \in Nat /\ frames_corrupt \in Nat
  /\ received_symbols \in Nat /\ decoded_symbols \in Nat
  /\ session_mismatch_streak \in Nat /\ descriptors_used \in Nat

CheckpointTyped ==
  checkpoint = NoCheckpoint
    \/ checkpoint \in [sid : Sids, meta : Metas, symbols : {NoBlocks}]

\* The type invariant, taken apart by group of variables.
LEMMA TypeParts ==
  TypeOK <=> /\ LayoutTyped /\ DecoderTyped /\ Cached(symbol_cache)
             /\ CountersTyped /\ CheckpointTyped
BY DEF TypeOK, LayoutTyped, DecoderTyped, KnownBlocks, Cached, CountersTyped,
       CheckpointTyped

\* The same of the next state.
LEMMA TypePartsNext ==
  TypeOK' <=> /\ LayoutTyped' /\ DecoderTyped' /\ Cached(symbol_cache)'
              /\ CountersTyped' /\ CheckpointTyped'
BY DEF TypeOK, LayoutTyped, DecoderTyped, KnownBlocks, Cached, CountersTyped,
       CheckpointTyped

\* symbol_cache after a clear is a well-formed cache.
LEMMA EmptyCache == Cached(NoBlocks) /\ DOMAIN NoBlocks = {}
BY FS_EmptySet DEF Cached, NoBlocks

\* A new session is well typed and has an empty cache (build).
LEMMA InitIInv == Init => IInv
<1> SUFFICES ASSUME Init PROVE IInv
  OBVIOUS
<1>1. LayoutTyped /\ CountersTyped /\ CheckpointTyped
  BY DEF Init, LayoutTyped, CountersTyped, CheckpointTyped
<1>2. DecoderTyped
  <2>1. KnownBlocks = {}
    BY DEF Init, KnownBlocks
  <2>. QED  BY <2>1 DEF Init, DecoderTyped, NoBlocks
<1>3. Cached(symbol_cache) /\ CacheDropped
  BY EmptyCache DEF Init, CacheDropped
<1>. QED  BY <1>1, <1>2, <1>3, TypeParts DEF IInv

\* An action that leaves decoder, cache and checkpoint alone.
LEMMA QuietStep ==
  ASSUME IInv, LayoutTyped', CountersTyped',
         UNCHANGED <<meta, meta_confirmed, decoderVars, symbol_cache, checkpoint>>
  PROVE  IInv'
<1>1. DecoderTyped /\ Cached(symbol_cache) /\ CheckpointTyped /\ CacheDropped
  BY TypeParts DEF IInv
<1>2. DecoderTyped' /\ Cached(symbol_cache)' /\ CheckpointTyped' /\ CacheDropped'
  BY <1>1
     DEF DecoderTyped, KnownBlocks, decoderVars, Cached, CheckpointTyped, CacheDropped
<1>. QED  BY <1>2, TypePartsNext DEF IInv

\* A data frame before the layout is known keeps the types.
LEMMA CacheSymbolStep ==
  ASSUME IInv, NEW f \in Frames, CacheSymbol(f)
  PROVE  IInv'
<1> DEFINE key == <<f.sbn, f.esi>>
<1>. USE TypeParts DEF IInv
<1>1. LayoutTyped' /\ DecoderTyped' /\ CheckpointTyped'
  BY DEF CacheSymbol, Seen, layoutVars, decoderVars, LayoutTyped, DecoderTyped,
         KnownBlocks, CheckpointTyped
<1>2. Cached(symbol_cache)'
  <2>1. CASE symbol_cache' = symbol_cache
    BY <2>1 DEF Cached
  <2>2. CASE symbol_cache' =
               [x \in DOMAIN symbol_cache \cup {key} |->
                  IF x = key THEN Symbol(f.stream, f.sbn, f.esi) ELSE symbol_cache[x]]
    <3>1. IsFiniteSet(DOMAIN symbol_cache \cup {key})
      BY FS_AddElement DEF Cached
    <3>2. Symbol(f.stream, f.sbn, f.esi) \in Symbols
      BY FrameType DEF CacheSymbol, Seen
    <3>3. key = <<Symbol(f.stream, f.sbn, f.esi).sbn, Symbol(f.stream, f.sbn, f.esi).esi>>
      BY DEF Symbol
    <3>4. DOMAIN symbol_cache' = DOMAIN symbol_cache \cup {key}
      BY <2>2
    <3>5. ASSUME NEW x \in DOMAIN symbol_cache'
          PROVE  symbol_cache'[x] \in Symbols
                   /\ x = <<symbol_cache'[x].sbn, symbol_cache'[x].esi>>
      BY <2>2, <3>2, <3>3, <3>5 DEF Cached
    <3>. QED  BY <3>1, <3>4, <3>5 DEF Cached
  <2>. QED  BY <2>1, <2>2 DEF CacheSymbol
<1>3. CountersTyped'
  <2>1. received_symbols' \in Nat
    BY <1>2, FS_CardinalityType DEF CacheSymbol, Cached
  <2>. QED  BY <2>1 DEF CacheSymbol, Seen, CountersTyped
<1>4. CacheDropped'
  BY DEF CacheSymbol, CacheDropped, layoutVars
<1>. QED  BY <1>1, <1>2, <1>3, <1>4, TypePartsNext

\* A new symbol given to the decoder keeps the types.
LEMMA NewSymbolStep ==
  ASSUME IInv, NEW f \in Frames, NewSymbol(f)
  PROVE  IInv'
<1>. USE TypeParts DEF IInv
<1>1. LayoutTyped' /\ CheckpointTyped' /\ CacheDropped' /\ Cached(symbol_cache)'
  BY DEF NewSymbol, Seen, layoutVars, LayoutTyped, CheckpointTyped, CacheDropped, Cached
<1>2. /\ meta \in Metas /\ meta' = meta
      /\ KnownBlocks = DOMAIN meta.k /\ KnownBlocks' = DOMAIN meta.k
  BY LayoutType DEF NewSymbol, LayoutTyped, layoutVars, KnownBlocks
<1>3. /\ f.sbn \in DOMAIN meta.k /\ f.esi \in Esis
      /\ Symbol(f.stream, f.sbn, f.esi) \in Symbols
  BY FrameType DEF NewSymbol, Seen, Fits
<1>4. received' \in [DOMAIN meta.k -> SUBSET Esis]
  <2>1. received \in [DOMAIN meta.k -> SUBSET Esis]
    BY <1>2 DEF DecoderTyped
  <2>2. received' = [received EXCEPT ![f.sbn] = @ \cup {f.esi}]
    BY DEF NewSymbol
  <2>. QED  BY <1>3, <2>1, <2>2
<1>5. offered' \in [DOMAIN meta.k -> SUBSET Symbols]
  <2>1. offered \in [DOMAIN meta.k -> SUBSET Symbols]
    BY <1>2 DEF DecoderTyped
  <2>2. offered' = [offered EXCEPT ![f.sbn] = @ \cup {Symbol(f.stream, f.sbn, f.esi)}]
    BY DEF NewSymbol
  <2>. QED  BY <1>3, <2>1, <2>2
<1>6. source_recv' \in [DOMAIN meta.k -> Nat]
  <2>1. source_recv \in [DOMAIN meta.k -> Nat]
    BY <1>2 DEF DecoderTyped
  <2>. QED  BY <1>3, <2>1 DEF NewSymbol
<1>7. decoded' \in [DOMAIN meta.k -> BOOLEAN]
  <2>1. decoded \in [DOMAIN meta.k -> BOOLEAN]
    BY <1>2 DEF DecoderTyped
  <2>2. PICK recovered \in Outcomes(meta.k[f.sbn], received'[f.sbn]) :
          decoded' = [decoded EXCEPT ![f.sbn] = @ \/ recovered]
    BY DEF NewSymbol
  <2>3. recovered \in BOOLEAN
    BY DEF Outcomes
  <2>. QED  BY <1>3, <2>1, <2>2, <2>3
<1>8. DecoderTyped'
  BY <1>2, <1>4, <1>5, <1>6, <1>7 DEF DecoderTyped
<1>9. CountersTyped'
  <2>1. decoded_symbols' \in Nat
    BY <1>2, <1>6, DecodedCountType DEF NewSymbol
  <2>. QED  BY <2>1 DEF NewSymbol, Seen, CountersTyped
<1>. QED  BY <1>1, <1>8, <1>9, TypePartsNext

\* The two actions that install a fresh decoder.
LEMMA FreshDecoder ==
  ASSUME NEW m \in Metas, NEW cache, Cached(cache), Replay(m, cache)
  PROVE  DecoderTyped' /\ meta' \in Metas
<1>1. KnownBlocks' = DOMAIN m.k
  BY ReplayType, LayoutType DEF KnownBlocks
<1>. QED  BY <1>1, ReplayType DEF DecoderTyped

\* The first descriptor leaves a typed decoder and an empty cache.
LEMMA AdoptDescriptorStep ==
  ASSUME IInv, NEW f \in Frames, AdoptDescriptor(f)
  PROVE  IInv'
<1>. USE TypeParts DEF IInv
<1> DEFINE m == MetaOf(f.stream)
<1>1. m \in Metas /\ f.stream \in Streams
  BY FrameType DEF Metas
<1>2. Replay(m, symbol_cache) /\ Cached(symbol_cache)
  BY DEF AdoptDescriptor
<1>. HIDE DEF m
<1>3. DecoderTyped' /\ meta' \in Metas /\ received_symbols' \in Nat /\ decoded_symbols' \in Nat
  BY <1>1, <1>2, ReplayType, FreshDecoder
<1>4. LayoutTyped'
  BY <1>1, <1>3, LayoutType DEF AdoptDescriptor, Seen, LayoutTyped
<1>5. Dropped(m, symbol_cache) \in Nat
  BY <1>2, FS_Difference, FS_CardinalityType DEF Dropped, Cached
<1>6. CountersTyped'
  BY <1>3, <1>5 DEF AdoptDescriptor, Seen, CountersTyped, m
<1>7. CheckpointTyped' /\ Cached(symbol_cache)' /\ CacheDropped'
  BY EmptyCache DEF AdoptDescriptor, Seen, CheckpointTyped, CacheDropped
<1>. QED  BY <1>3, <1>4, <1>6, <1>7, TypePartsNext

\* restore leaves a typed decoder and an empty cache.
LEMMA RestoreStep ==
  ASSUME IInv, Restore
  PROVE  IInv'
<1>. USE TypeParts DEF IInv
<1>1. /\ checkpoint.meta \in Metas /\ checkpoint.sid \in Sids
      /\ Cached(checkpoint.symbols)
  BY EmptyCache DEF Restore, CheckpointTyped
<1>2. /\ DecoderTyped' /\ meta' \in Metas
      /\ received_symbols' \in Nat /\ decoded_symbols' \in Nat
  BY <1>1, ReplayType, FreshDecoder DEF Restore
<1>3. LayoutTyped'
  BY <1>1, <1>2, LayoutType DEF Restore, LayoutTyped
<1>4. CountersTyped'
  BY <1>2 DEF Restore, CountersTyped
<1>5. CheckpointTyped' /\ Cached(symbol_cache)' /\ CacheDropped'
  BY EmptyCache DEF Restore, CheckpointTyped, CacheDropped
<1>. QED  BY <1>2, <1>3, <1>4, <1>5, TypePartsNext

\* Every outcome of ingest, save_state and restore keep the inductive
\* invariant.
LEMMA StepIInv == IInv /\ [Next]_vars => IInv'
<1> SUFFICES ASSUME IInv, [Next]_vars PROVE IInv'
  OBVIOUS
<1>. USE TypeParts, TypePartsNext DEF IInv
<1>1. CASE UNCHANGED vars
  <2>1. LayoutTyped'
    BY <1>1 DEF vars, layoutVars, arrivalVars, LayoutTyped
  <2>2. CountersTyped'
    BY <1>1 DEF vars, counterVars, arrivalVars, CountersTyped
  <2>. QED
    BY <1>1, <2>1, <2>2, QuietStep DEF vars, layoutVars
<1>2. ASSUME NEW f \in Frames, SessionMismatch(f) PROVE IInv'
  <2>1. LayoutTyped'
    BY <1>2 DEF SessionMismatch, Seen, layoutVars, LayoutTyped
  <2>2. CountersTyped'
    BY <1>2 DEF SessionMismatch, Seen, counterVars, CountersTyped
  <2>. QED
    BY <1>2, <2>1, <2>2, QuietStep DEF SessionMismatch, Seen, layoutVars
<1>3. ASSUME NEW f \in Frames, RejectDescriptor(f) PROVE IInv'
  <2>1. LayoutTyped'
    BY <1>3 DEF RejectDescriptor, Seen, layoutVars, LayoutTyped
  <2>2. CountersTyped'
    BY <1>3 DEF RejectDescriptor, Seen, CountCorrupt, CountersTyped
  <2>. QED
    BY <1>3, <2>1, <2>2, QuietStep DEF RejectDescriptor, Seen, layoutVars
<1>4. ASSUME NEW f \in Frames, RepeatedDescriptor(f) PROVE IInv'
  <2>1. LayoutTyped'
    BY <1>4 DEF RepeatedDescriptor, Seen, layoutVars, LayoutTyped
  <2>2. CountersTyped'
    BY <1>4 DEF RepeatedDescriptor, Seen, CountCorrupt, CountDescriptor, CountersTyped
  <2>. QED
    BY <1>4, <2>1, <2>2, QuietStep DEF RepeatedDescriptor, Seen, layoutVars
<1>5. ASSUME NEW f \in Frames, AdoptDescriptor(f) PROVE IInv'
  BY <1>5, AdoptDescriptorStep
<1>6. ASSUME NEW f \in Frames, ConfirmRestored(f) PROVE IInv'
  <2>1. LayoutTyped'
    BY <1>6, FrameType DEF ConfirmRestored, Seen, LayoutTyped
  <2>2. CountersTyped'
    BY <1>6 DEF ConfirmRestored, Seen, CountCorrupt, CountDescriptor, CountersTyped
  <2>. QED
    BY <1>6, <2>1, <2>2, QuietStep DEF ConfirmRestored, Seen, layoutVars
<1>7. ASSUME NEW f \in Frames, CacheSymbol(f) PROVE IInv'
  BY <1>7, CacheSymbolStep
<1>8. ASSUME NEW f \in Frames, RejectSymbol(f) PROVE IInv'
  <2>1. LayoutTyped'
    BY <1>8 DEF RejectSymbol, Seen, layoutVars, LayoutTyped
  <2>2. CountersTyped'
    BY <1>8 DEF RejectSymbol, Seen, CountCorrupt, CountersTyped
  <2>. QED
    BY <1>8, <2>1, <2>2, QuietStep DEF RejectSymbol, Seen, layoutVars
<1>9. ASSUME NEW f \in Frames, UselessSymbol(f) PROVE IInv'
  <2>1. LayoutTyped'
    BY <1>9 DEF UselessSymbol, Seen, layoutVars, LayoutTyped
  <2>2. CountersTyped'
    BY <1>9 DEF UselessSymbol, Seen, CountDuplicate, CountersTyped
  <2>. QED
    BY <1>9, <2>1, <2>2, QuietStep DEF UselessSymbol, Seen, layoutVars
<1>10. ASSUME NEW f \in Frames, NewSymbol(f) PROVE IInv'
  BY <1>10, NewSymbolStep
<1>11. ASSUME SaveState PROVE IInv'
  <2>1. LayoutTyped' /\ CountersTyped' /\ CacheDropped'
    BY <1>11
       DEF SaveState, layoutVars, counterVars, arrivalVars, LayoutTyped,
           CountersTyped, CacheDropped
  <2>2. DecoderTyped' /\ Cached(symbol_cache)'
    BY <1>11 DEF SaveState, layoutVars, decoderVars, DecoderTyped, KnownBlocks, Cached
  <2>3. CheckpointTyped'
    BY <1>11 DEF SaveState, LayoutTyped, CheckpointTyped, CacheDropped
  <2>. QED  BY <2>1, <2>2, <2>3
<1>12. ASSUME Restore PROVE IInv'
  BY <1>12, RestoreStep
<1>. QED
  BY <1>1, <1>2, <1>3, <1>4, <1>5, <1>6, <1>7, <1>8, <1>9, <1>10, <1>11, <1>12
     DEF Next, Ingest

\* Each variable keeps its type, and the pre-descriptor cache is empty from the
\* moment the layout is known (receiver.rs:325-332).
THEOREM TypeCorrect == Spec => [](TypeOK /\ CacheDropped)
<1>. QED  BY InitIInv, StepIInv, PTL DEF Spec, IInv

----------------------------------------------------------------------------
(* What the decoder is fed with. *)

----------------------------------------------------------------------------
(* What the decoder is fed with. *)

OfSession(p) == \E t \in Streams : t.sid = sid /\ t.enc = p.enc /\ t.size = p.size

LayoutOfSession == meta # NoMeta => \E s \in Streams : s.sid = sid /\ MetaOf(s) = meta

CheckpointOfSession ==
  checkpoint # NoCheckpoint =>
    /\ checkpoint.sid = sid
    /\ \E s \in Streams : s.sid = sid /\ MetaOf(s) = checkpoint.meta

CacheOfSession == \A key \in DOMAIN symbol_cache : OfSession(symbol_cache[key])

FedOfSession ==
  meta # NoMeta =>
    \A b \in DOMAIN meta.k : \A p \in offered[b] :
      p.sbn = b /\ p.esi < EsiLimit /\ p.size = meta.size /\ OfSession(p)

\* What is in the cache must be tracked from the frame that brought it, and the
\* layout, live or saved, from the descriptor that did.
FeedInv ==
  /\ LayoutOfSession /\ CheckpointOfSession /\ CacheOfSession
  /\ FedOfSession /\ OfferedIsReceived

\* A new session has fed nothing to a decoder.
LEMMA InitFeedInv == Init => FeedInv
BY EmptyCache
   DEF Init, FeedInv, LayoutOfSession, CheckpointOfSession, CacheOfSession,
       FedOfSession, OfferedIsReceived

\* A replay marks as received exactly the ESIs whose payloads it feeds, and
\* feeds only payloads of the session (apply_meta).
LEMMA ReplayFeeds ==
  ASSUME NEW m \in Metas, NEW cache, Cached(cache), Replay(m, cache)
  PROVE  /\ OfferedIsReceived'
         /\ meta' = m
         /\ \A b \in DOMAIN m.k : \A p \in offered'[b] :
              /\ p.sbn = b
              /\ p.esi < EsiLimit
              /\ p.size = m.size
              /\ \E key \in DOMAIN cache : p = cache[key]
<1> DEFINE R == Replayable(m, cache)
<1>1. /\ received' = [b \in DOMAIN m.k |-> {key[2] : key \in {x \in R : x[1] = b}}]
      /\ offered' = [b \in DOMAIN m.k |-> {cache[key] : key \in {x \in R : x[1] = b}}]
      /\ meta' = m
  BY DEF Replay
<1>2. \A key \in R : /\ key \in DOMAIN cache
                     /\ key[1] = cache[key].sbn
                     /\ key[2] = cache[key].esi
                     /\ key[2] < EsiLimit
                     /\ cache[key].size = m.size
  <2>. SUFFICES ASSUME NEW key \in R
                PROVE  /\ key \in DOMAIN cache
                       /\ key[1] = cache[key].sbn
                       /\ key[2] = cache[key].esi
                       /\ key[2] < EsiLimit
                       /\ cache[key].size = m.size
    OBVIOUS
  <2>1. key \in DOMAIN cache /\ Fits(m, key[1], key[2], cache[key].size)
    BY DEF Replayable
  <2>2. key = <<cache[key].sbn, cache[key].esi>>
    BY <2>1 DEF Cached
  <2>3. key[1] = cache[key].sbn /\ key[2] = cache[key].esi
    BY <2>2
  <2>. QED  BY <2>1, <2>3 DEF Fits
<1>. HIDE DEF R
<1>3. ASSUME NEW b \in DOMAIN m.k
      PROVE  received'[b] = {p.esi : p \in offered'[b]}
  <2>1. /\ received'[b] = {key[2] : key \in {x \in R : x[1] = b}}
        /\ offered'[b] = {cache[key] : key \in {x \in R : x[1] = b}}
    BY <1>1
  <2>2. \A key \in R : cache[key].esi = key[2]
    BY <1>2
  <2>3. \A esi : esi \in received'[b] <=> \E key \in R : key[1] = b /\ esi = key[2]
    BY <2>1
  <2>4. \A p : p \in offered'[b] <=> \E key \in R : key[1] = b /\ p = cache[key]
    BY <2>1
  <2>5. \A esi : esi \in received'[b] <=> \E p \in offered'[b] : esi = p.esi
    BY <2>2, <2>3, <2>4
  <2>. QED  BY <2>5
<1>4. ASSUME NEW b \in DOMAIN m.k, NEW p \in offered'[b]
      PROVE  /\ p.sbn = b
             /\ p.esi < EsiLimit
             /\ p.size = m.size
             /\ \E key \in DOMAIN cache : p = cache[key]
  <2>1. PICK key \in R : key[1] = b /\ p = cache[key]
    BY <1>1
  <2>. QED  BY <1>2, <2>1
<1>. QED  BY <1>1, <1>3, <1>4 DEF OfferedIsReceived

\* An action that neither feeds the decoder nor fills the cache.
LEMMA QuietFeed ==
  ASSUME FeedInv, UNCHANGED <<sid, meta, decoderVars, symbol_cache, checkpoint>>
  PROVE  FeedInv'
BY DEF FeedInv, LayoutOfSession, CheckpointOfSession, CacheOfSession, FedOfSession,
       OfferedIsReceived, OfSession, decoderVars

\* What is cached before the layout is known comes from the session.
LEMMA CacheSymbolFeed ==
  ASSUME IInv, FeedInv, NEW f \in Frames, CacheSymbol(f)
  PROVE  FeedInv'
<1> DEFINE key == <<f.sbn, f.esi>>
           p   == Symbol(f.stream, f.sbn, f.esi)
<1>1. UNCHANGED <<sid, meta, received, offered, checkpoint>>
  BY DEF CacheSymbol, Seen, layoutVars, decoderVars
<1>2. LayoutOfSession' /\ CheckpointOfSession' /\ FedOfSession' /\ OfferedIsReceived'
  BY <1>1 DEF FeedInv, LayoutOfSession, CheckpointOfSession, FedOfSession,
              OfferedIsReceived, OfSession
<1>3. OfSession(p) /\ sid' = sid
  BY FrameType DEF CacheSymbol, Seen, OfSession, Symbol
<1>4. \/ symbol_cache' = symbol_cache
      \/ symbol_cache' = [x \in DOMAIN symbol_cache \cup {key} |->
                            IF x = key THEN p ELSE symbol_cache[x]]
  BY DEF CacheSymbol
<1>. HIDE DEF p, key
<1>5. \A x \in DOMAIN symbol_cache' : OfSession(symbol_cache'[x])
  <2>. SUFFICES ASSUME NEW x \in DOMAIN symbol_cache'
                PROVE  OfSession(symbol_cache'[x])
    OBVIOUS
  <2>1. symbol_cache'[x] = p \/ (x \in DOMAIN symbol_cache /\ symbol_cache'[x] = symbol_cache[x])
    BY <1>4
  <2>. QED  BY <1>3, <2>1 DEF FeedInv, CacheOfSession
<1>6. CacheOfSession'
  BY <1>3, <1>5 DEF CacheOfSession, OfSession
<1>. QED  BY <1>2, <1>6 DEF FeedInv

\* A symbol that reaches the decoder comes from the session and fits the
\* layout, and its ESI is marked as received with it.
LEMMA NewSymbolFeed ==
  ASSUME IInv, FeedInv, NEW f \in Frames, NewSymbol(f)
  PROVE  FeedInv'
<1> DEFINE p == Symbol(f.stream, f.sbn, f.esi)
<1>1. UNCHANGED <<sid, meta, symbol_cache, checkpoint>>
  BY DEF NewSymbol, Seen, layoutVars
<1>2. LayoutOfSession' /\ CheckpointOfSession' /\ CacheOfSession'
  BY <1>1 DEF FeedInv, LayoutOfSession, CheckpointOfSession, CacheOfSession, OfSession
<1>3. meta \in Metas /\ KnownBlocks = DOMAIN meta.k /\ meta # NoMeta
  BY TypeParts, LayoutType DEF IInv, NewSymbol, LayoutTyped, KnownBlocks
<1>4. /\ received \in [DOMAIN meta.k -> SUBSET Esis]
      /\ offered \in [DOMAIN meta.k -> SUBSET Symbols]
      /\ f.sbn \in DOMAIN meta.k
  BY <1>3, TypeParts DEF IInv, DecoderTyped, NewSymbol, Fits
<1>5. /\ p.sbn = f.sbn /\ p.esi = f.esi /\ p.esi < EsiLimit
      /\ p.size = meta.size /\ OfSession(p)
  BY FrameType DEF NewSymbol, Seen, Fits, OfSession, Symbol
<1>6. /\ received' = [received EXCEPT ![f.sbn] = @ \cup {f.esi}]
      /\ offered' = [offered EXCEPT ![f.sbn] = @ \cup {p}]
  BY DEF NewSymbol
<1>. HIDE DEF p
<1>7. ASSUME NEW b \in DOMAIN meta.k
      PROVE  /\ received'[b] = IF b = f.sbn THEN received[b] \cup {f.esi} ELSE received[b]
             /\ offered'[b] = IF b = f.sbn THEN offered[b] \cup {p} ELSE offered[b]
  BY <1>4, <1>6
<1>8. OfferedIsReceived'
  <2>1. ASSUME NEW b \in DOMAIN meta.k PROVE received'[b] = {q.esi : q \in offered'[b]}
    <3>1. received[b] = {q.esi : q \in offered[b]}
      BY <1>3 DEF FeedInv, OfferedIsReceived
    <3>2. \A esi : esi \in received'[b] <=> \E q \in offered'[b] : esi = q.esi
      <4>1. \A esi : esi \in received[b] <=> \E q \in offered[b] : esi = q.esi
        BY <3>1
      <4>2. CASE b = f.sbn
        <5>1. \A esi : esi \in received'[b] <=> (esi \in received[b] \/ esi = p.esi)
          BY <1>5, <1>7, <4>2
        <5>2. \A q : q \in offered'[b] <=> (q \in offered[b] \/ q = p)
          BY <1>7, <4>2
        <5>. QED  BY <4>1, <5>1, <5>2
      <4>3. CASE b # f.sbn
        BY <1>7, <4>1, <4>3
      <4>. QED  BY <4>2, <4>3
    <3>. QED  BY <3>2
  <2>. QED  BY <1>1, <2>1 DEF OfferedIsReceived
<1>9. FedOfSession'
  <2>1. ASSUME NEW b \in DOMAIN meta.k, NEW q \in offered'[b]
        PROVE  q.sbn = b /\ q.esi < EsiLimit /\ q.size = meta.size /\ OfSession(q)
    <3>1. q \in offered[b] \/ (b = f.sbn /\ q = p)
      BY <1>7
    <3>. QED  BY <1>3, <1>5, <3>1 DEF FeedInv, FedOfSession
  <2>. QED  BY <1>1, <2>1 DEF FedOfSession, OfSession
<1>. QED  BY <1>2, <1>8, <1>9 DEF FeedInv

\* The first descriptor replays a cache that comes from the session.
LEMMA AdoptDescriptorFeed ==
  ASSUME IInv, FeedInv, NEW f \in Frames, AdoptDescriptor(f)
  PROVE  FeedInv'
<1> DEFINE m == MetaOf(f.stream)
<1>1. m \in Metas /\ f.stream \in Streams /\ f.stream.sid = sid
  BY FrameType DEF Metas, AdoptDescriptor, Seen
<1>2. /\ UNCHANGED <<sid, checkpoint>>
      /\ symbol_cache' = NoBlocks
      /\ Cached(symbol_cache)
      /\ Replay(m, symbol_cache)
  BY TypeParts DEF AdoptDescriptor, Seen, IInv
<1>3. LayoutOfSession'
  BY <1>1, <1>2, ReplayFeeds DEF LayoutOfSession
<1>4. CheckpointOfSession' /\ CacheOfSession'
  BY <1>2, EmptyCache DEF FeedInv, CheckpointOfSession, CacheOfSession
<1>. HIDE DEF m
<1>5. FedOfSession' /\ OfferedIsReceived'
  <2>1. \A key \in DOMAIN symbol_cache : OfSession(symbol_cache[key])
    BY DEF FeedInv, CacheOfSession
  <2>2. OfferedIsReceived' /\ meta' = m
    BY <1>1, <1>2, ReplayFeeds
  <2>3. ASSUME NEW b \in DOMAIN m.k, NEW p \in offered'[b]
        PROVE  p.sbn = b /\ p.esi < EsiLimit /\ p.size = m.size /\ OfSession(p)
    BY <1>1, <1>2, <2>1, ReplayFeeds
  <2>. QED  BY <1>2, <2>2, <2>3 DEF FedOfSession, OfSession
<1>. QED  BY <1>3, <1>4, <1>5 DEF FeedInv

\* restore replays a checkpoint that comes from its session.
LEMMA RestoreFeed ==
  ASSUME IInv, FeedInv, Restore
  PROVE  FeedInv'
<1> DEFINE m == checkpoint.meta
<1>1. m \in Metas /\ checkpoint.symbols = NoBlocks
  BY TypeParts DEF IInv, Restore, CheckpointTyped
<1>2. sid' = sid /\ \E s \in Streams : s.sid = sid /\ MetaOf(s) = m
  BY DEF FeedInv, Restore, CheckpointOfSession
<1>3. /\ UNCHANGED checkpoint
      /\ symbol_cache' = NoBlocks
      /\ Replay(m, NoBlocks)
  BY <1>1 DEF Restore
<1>. HIDE DEF m
<1>4. LayoutOfSession'
  BY <1>1, <1>2, <1>3, EmptyCache, ReplayFeeds DEF LayoutOfSession
<1>5. CheckpointOfSession' /\ CacheOfSession'
  BY <1>2, <1>3, EmptyCache DEF FeedInv, CheckpointOfSession, CacheOfSession
<1>6. FedOfSession' /\ OfferedIsReceived'
  BY <1>1, <1>2, <1>3, EmptyCache, ReplayFeeds DEF FedOfSession, OfSession
<1>. QED  BY <1>4, <1>5, <1>6 DEF FeedInv

\* Every outcome of ingest, save_state and restore keep what the decoder was
\* fed consistent with what counts as received.
LEMMA StepFeedInv == IInv /\ FeedInv /\ [Next]_vars => FeedInv'
<1> SUFFICES ASSUME IInv, FeedInv, [Next]_vars PROVE FeedInv'
  OBVIOUS
<1>1. CASE UNCHANGED vars
  BY <1>1, QuietFeed DEF vars, layoutVars, arrivalVars
<1>2. ASSUME NEW f \in Frames, SessionMismatch(f) PROVE FeedInv'
  BY <1>2, QuietFeed DEF SessionMismatch, layoutVars
<1>3. ASSUME NEW f \in Frames, RejectDescriptor(f) PROVE FeedInv'
  BY <1>3, QuietFeed DEF RejectDescriptor, Seen, layoutVars
<1>4. ASSUME NEW f \in Frames, RepeatedDescriptor(f) PROVE FeedInv'
  BY <1>4, QuietFeed DEF RepeatedDescriptor, Seen, layoutVars
<1>5. ASSUME NEW f \in Frames, AdoptDescriptor(f) PROVE FeedInv'
  BY <1>5, AdoptDescriptorFeed
<1>6. ASSUME NEW f \in Frames, ConfirmRestored(f) PROVE FeedInv'
  BY <1>6, QuietFeed DEF ConfirmRestored, Seen
<1>7. ASSUME NEW f \in Frames, CacheSymbol(f) PROVE FeedInv'
  BY <1>7, CacheSymbolFeed
<1>8. ASSUME NEW f \in Frames, RejectSymbol(f) PROVE FeedInv'
  BY <1>8, QuietFeed DEF RejectSymbol, Seen, layoutVars
<1>9. ASSUME NEW f \in Frames, UselessSymbol(f) PROVE FeedInv'
  BY <1>9, QuietFeed DEF UselessSymbol, Seen, layoutVars
<1>10. ASSUME NEW f \in Frames, NewSymbol(f) PROVE FeedInv'
  BY <1>10, NewSymbolFeed
<1>11. ASSUME SaveState PROVE FeedInv'
  <2>1. /\ UNCHANGED <<sid, meta, received, offered, symbol_cache>>
        /\ checkpoint' = [sid |-> sid, meta |-> meta, symbols |-> symbol_cache]
        /\ meta # NoMeta
    BY <1>11 DEF SaveState, layoutVars, decoderVars, arrivalVars
  <2>2. CheckpointOfSession'
    BY <2>1 DEF FeedInv, LayoutOfSession, CheckpointOfSession
  <2>. QED
    BY <2>1, <2>2
       DEF FeedInv, LayoutOfSession, CacheOfSession, FedOfSession,
           OfferedIsReceived, OfSession
<1>12. ASSUME Restore PROVE FeedInv'
  BY <1>12, RestoreFeed
<1>. QED
  BY <1>1, <1>2, <1>3, <1>4, <1>5, <1>6, <1>7, <1>8, <1>9, <1>10, <1>11, <1>12
     DEF Next, Ingest

\* An ESI is marked as received only with its payload in the decoder, so that a
\* retransmission dropped as a duplicate never loses a symbol.
THEOREM NothingLost == Spec => []OfferedIsReceived
<1>1. FeedInv => OfferedIsReceived
  BY DEF FeedInv
<1>. QED
  BY <1>1, InitIInv, InitFeedInv, StepIInv, StepFeedInv, PTL DEF Spec

\* If a session id and a symbol size determine the bytes sent, the decoder never
\* mixes two encodings, whatever the camera sees and however often the receiver
\* restarts.
THEOREM DecoderPure == ASSUME SizeTellsEncoding PROVE Spec => []NoMixing
<1>1. FeedInv => NoMixing
  <2>. SUFFICES ASSUME FeedInv, meta # NoMeta,
                       NEW b \in DOMAIN meta.k, NEW p \in offered[b]
                PROVE  /\ p.sbn = b
                       /\ p.esi < EsiLimit
                       /\ \E s \in Streams : s.sid = sid /\ MetaOf(s) = meta /\ p.enc = s.enc
    BY DEF NoMixing
  <2>1. PICK s \in Streams : s.sid = sid /\ MetaOf(s) = meta
    BY DEF FeedInv, LayoutOfSession
  <2>2. PICK t \in Streams : t.sid = sid /\ t.enc = p.enc /\ t.size = p.size
    BY DEF FeedInv, FedOfSession, OfSession
  <2>3. p.sbn = b /\ p.esi < EsiLimit /\ p.size = meta.size
    BY DEF FeedInv, FedOfSession
  <2>4. s.size = t.size
    BY <2>1, <2>2, <2>3 DEF MetaOf
  <2>5. s.enc = t.enc
    BY <2>1, <2>2, <2>4, SizeTellsEncoding DEF SizeTellsEncoding
  <2>. QED  BY <2>1, <2>2, <2>3, <2>5
<1>. QED
  BY <1>1, InitIInv, InitFeedInv, StepIInv, StepFeedInv, PTL DEF Spec

----------------------------------------------------------------------------
(* The first descriptor stays. *)

\* Only a restart changes the layout or the metadata of a session that has
\* accepted a descriptor.
THEOREM FirstDescriptorStays == Spec => DescriptorImmutable
<1>1. IInv /\ [Next]_vars =>
        [descriptor_seen /\ ~Restore =>
           UNCHANGED <<sid, meta, descriptor_seen, file_meta>>]_vars
  <2>. SUFFICES ASSUME IInv, Next, descriptor_seen, ~Restore
                PROVE  UNCHANGED <<sid, meta, descriptor_seen, file_meta>>
    OBVIOUS
  <2>1. meta_confirmed
    BY TypeParts DEF IInv, LayoutTyped
  <2>2. CASE \E f \in Frames : SessionMismatch(f)
    BY <2>2 DEF SessionMismatch, layoutVars
  <2>3. CASE \E f \in Frames : RejectDescriptor(f)
    BY <2>3 DEF RejectDescriptor, Seen, layoutVars
  <2>4. CASE \E f \in Frames : RepeatedDescriptor(f)
    BY <2>4 DEF RepeatedDescriptor, Seen, layoutVars
  <2>5. CASE \E f \in Frames : AdoptDescriptor(f)
    BY <2>5 DEF AdoptDescriptor
  <2>6. CASE \E f \in Frames : ConfirmRestored(f)
    BY <2>6 DEF ConfirmRestored
  <2>7. CASE \E f \in Frames : CacheSymbol(f)
    BY <2>1, <2>7 DEF CacheSymbol
  <2>8. CASE \E f \in Frames : RejectSymbol(f)
    BY <2>8 DEF RejectSymbol, Seen, layoutVars
  <2>9. CASE \E f \in Frames : UselessSymbol(f)
    BY <2>9 DEF UselessSymbol, Seen, layoutVars
  <2>10. CASE \E f \in Frames : NewSymbol(f)
    BY <2>10 DEF NewSymbol, Seen, layoutVars
  <2>11. CASE SaveState
    BY <2>11 DEF SaveState, layoutVars, arrivalVars
  <2>. QED
    BY <2>2, <2>3, <2>4, <2>5, <2>6, <2>7, <2>8, <2>9, <2>10, <2>11 DEF Next, Ingest
<1>. QED
  BY <1>1, InitIInv, StepIInv, PTL DEF Spec, DescriptorImmutable

----------------------------------------------------------------------------
(* Frame accounting. *)

\* Before the layout is known the symbols held are those in the cache.
AccountInv ==
  /\ FrameAccounting
  /\ meta = NoMeta => received_symbols = Cardinality(DOMAIN symbol_cache)

\* No frame was seen and none counted in a new session.
LEMMA InitAccount == Init => AccountInv
BY EmptyCache, FS_EmptySet DEF Init, AccountInv, FrameAccounting

\* A replay keeps or drops each cached symbol once.
LEMMA ReplayPartition ==
  ASSUME NEW m \in Metas, NEW cache, Cached(cache), Replay(m, cache)
  PROVE  received_symbols' + Dropped(m, cache) = Cardinality(DOMAIN cache)
<1> DEFINE R == Replayable(m, cache)
<1>1. received' = [b \in DOMAIN m.k |-> {key[2] : key \in {x \in R : x[1] = b}}]
  BY DEF Replay
<1>2. R \subseteq DOMAIN cache
  BY DEF Replayable
<1>3. \A key \in R : key = <<key[1], key[2]>> /\ key[1] \in DOMAIN m.k
  BY DEF Replayable, Fits, Cached
<1>. HIDE DEF R
<1>4. Entries(received') = R
  <2>1. DOMAIN received' = DOMAIN m.k
    BY <1>1
  <2>2. Entries(received') = UNION {{b} \X received'[b] : b \in DOMAIN m.k}
    BY <2>1 DEF Entries
  <2>3. ASSUME NEW x \in Entries(received') PROVE x \in R
    <3>1. PICK b \in DOMAIN m.k : x \in {b} \X received'[b]
      BY <2>2
    <3>2. PICK key \in R : key[1] = b /\ x = <<b, key[2]>>
      BY <1>1, <3>1
    <3>. QED  BY <1>3, <3>2
  <2>4. ASSUME NEW x \in R PROVE x \in Entries(received')
    <3>1. x[1] \in DOMAIN m.k /\ x[2] \in received'[x[1]]
      BY <1>1, <1>3
    <3>2. x \in {x[1]} \X received'[x[1]]
      BY <1>3, <3>1
    <3>. QED  BY <2>2, <3>1, <3>2
  <2>. QED  BY <2>3, <2>4
<1>5. received_symbols' = Cardinality(R)
  BY <1>4 DEF Replay
<1>6. IsFiniteSet(DOMAIN cache) /\ IsFiniteSet(R)
  BY <1>2, FS_Subset DEF Cached
<1>7. Dropped(m, cache) = Cardinality(DOMAIN cache) - Cardinality(DOMAIN cache \cap R)
  BY <1>6, FS_Difference DEF Dropped, R
<1>8. DOMAIN cache \cap R = R
  BY <1>2
<1>9. Cardinality(DOMAIN cache) \in Nat /\ Cardinality(R) \in Nat
  BY <1>6, FS_CardinalityType
<1>10. Dropped(m, cache) = Cardinality(DOMAIN cache) - Cardinality(R)
  BY <1>7, <1>8
<1>11. \A c, r, d \in Int : d = c - r => r + d = c
  OBVIOUS
<1>. QED  BY <1>5, <1>9, <1>10, <1>11

\* Every outcome of ingest counts the frame once; restore starts over.
LEMMA StepAccount == IInv /\ AccountInv /\ [Next]_vars => AccountInv'
<1> SUFFICES ASSUME IInv, AccountInv, [Next]_vars PROVE AccountInv'
  OBVIOUS
<1>0. CountersTyped /\ LayoutTyped /\ Cached(symbol_cache)
  BY TypeParts DEF IInv
<1>. USE <1>0 DEF AccountInv, FrameAccounting, CountersTyped
<1>1. CASE UNCHANGED vars
  BY <1>1 DEF vars, layoutVars, counterVars, arrivalVars
<1>2. ASSUME NEW f \in Frames, SessionMismatch(f) PROVE AccountInv'
  BY <1>2 DEF SessionMismatch, layoutVars, counterVars
<1>3. ASSUME NEW f \in Frames, RejectDescriptor(f) PROVE AccountInv'
  BY <1>3 DEF RejectDescriptor, Seen, CountCorrupt, layoutVars
<1>4. ASSUME NEW f \in Frames, RepeatedDescriptor(f) PROVE AccountInv'
  BY <1>4 DEF RepeatedDescriptor, Seen, CountCorrupt, CountDescriptor, layoutVars
<1>5. ASSUME NEW f \in Frames, AdoptDescriptor(f) PROVE AccountInv'
  <2> DEFINE m == MetaOf(f.stream)
  <2>1. m \in Metas
    BY FrameType DEF Metas
  <2>2. Replay(m, symbol_cache) /\ meta = NoMeta
    BY <1>5 DEF AdoptDescriptor
  <2>. HIDE DEF m
  <2>3. /\ received_symbols' + Dropped(m, symbol_cache) = Cardinality(DOMAIN symbol_cache)
        /\ meta' \in Metas /\ received_symbols' \in Nat
    BY <2>1, <2>2, ReplayPartition, ReplayType
  <2>4. Dropped(m, symbol_cache) \in Nat
    BY FS_Difference, FS_CardinalityType DEF Dropped, Cached
  <2>5. meta' # NoMeta
    BY <2>3, LayoutType
  <2>6. /\ frames_seen' = frames_seen + 1
        /\ frames_corrupt' = frames_corrupt + Dropped(m, symbol_cache)
        /\ descriptors_used' = descriptors_used + 1
        /\ frames_duplicate' = frames_duplicate
    BY <1>5 DEF AdoptDescriptor, Seen, m
  <2>. QED  BY <2>2, <2>3, <2>4, <2>5, <2>6
<1>6. ASSUME NEW f \in Frames, ConfirmRestored(f) PROVE AccountInv'
  BY <1>6 DEF ConfirmRestored, Seen, CountCorrupt, CountDescriptor
<1>7. ASSUME NEW f \in Frames, CacheSymbol(f) PROVE AccountInv'
  <2> DEFINE key == <<f.sbn, f.esi>>
  <2>1. meta = NoMeta /\ meta' = meta
    BY <1>7 DEF CacheSymbol, LayoutTyped, layoutVars
  <2>2. /\ frames_seen' = frames_seen + 1
        /\ descriptors_used' = descriptors_used
        /\ received_symbols' = Cardinality(DOMAIN symbol_cache')
    BY <1>7 DEF CacheSymbol, Seen
  <2>3. \/ /\ frames_duplicate' = frames_duplicate + 1
           /\ UNCHANGED <<symbol_cache, frames_corrupt>>
        \/ /\ frames_corrupt' = frames_corrupt + 1
           /\ UNCHANGED <<symbol_cache, frames_duplicate>>
        \/ /\ key \notin DOMAIN symbol_cache
           /\ DOMAIN symbol_cache' = DOMAIN symbol_cache \cup {key}
           /\ UNCHANGED <<frames_duplicate, frames_corrupt>>
    BY <1>7 DEF CacheSymbol
  <2>4. key \notin DOMAIN symbol_cache =>
          Cardinality(DOMAIN symbol_cache \cup {key}) = Cardinality(DOMAIN symbol_cache) + 1
    BY FS_AddElement DEF Cached
  <2>. QED  BY <2>1, <2>2, <2>3, <2>4
<1>8. ASSUME NEW f \in Frames, RejectSymbol(f) PROVE AccountInv'
  BY <1>8 DEF RejectSymbol, Seen, CountCorrupt, layoutVars
<1>9. ASSUME NEW f \in Frames, UselessSymbol(f) PROVE AccountInv'
  BY <1>9 DEF UselessSymbol, Seen, CountDuplicate, layoutVars
<1>10. ASSUME NEW f \in Frames, NewSymbol(f) PROVE AccountInv'
  <2>1. meta # NoMeta /\ meta' = meta
    BY <1>10 DEF NewSymbol, LayoutTyped, layoutVars
  <2>. QED  BY <1>10, <2>1 DEF NewSymbol, Seen
<1>11. ASSUME SaveState PROVE AccountInv'
  BY <1>11 DEF SaveState, layoutVars, counterVars, arrivalVars
<1>12. ASSUME Restore PROVE AccountInv'
  <2>1. checkpoint.meta \in Metas /\ checkpoint.symbols = NoBlocks
    BY <1>12, TypeParts DEF IInv, Restore, CheckpointTyped
  <2>2. /\ received_symbols' + Dropped(checkpoint.meta, NoBlocks) = 0
        /\ received_symbols' \in Nat /\ meta' \in Metas
    BY <1>12, <2>1, EmptyCache, FS_EmptySet, ReplayPartition, ReplayType DEF Restore
  <2>3. Dropped(checkpoint.meta, NoBlocks) \in Nat
    BY EmptyCache, FS_Difference, FS_CardinalityType, FS_EmptySet DEF Dropped
  <2>4. meta' # NoMeta /\ received_symbols' = 0
    BY <2>2, <2>3, LayoutType
  <2>. QED  BY <1>12, <2>4 DEF Restore
<1>. QED
  BY <1>1, <1>2, <1>3, <1>4, <1>5, <1>6, <1>7, <1>8, <1>9, <1>10, <1>11, <1>12
     DEF Next, Ingest

\* The counters shown to the user account for every frame of the session.
THEOREM FramesAccounted == Spec => []FrameAccounting
<1>1. AccountInv => FrameAccounting
  BY DEF AccountInv
<1>. QED
  BY <1>1, InitIInv, InitAccount, StepIInv, StepAccount, PTL DEF Spec

----------------------------------------------------------------------------
(* Progress. *)

\* A count kept per block that nowhere exceeds another has no larger sum, and the
\* same sum only if it is the same count.
LEMMA UnitsMonotone ==
  ASSUME NEW D, IsFiniteSet(D), NEW c \in [D -> Nat], NEW d \in [D -> Nat],
         \A b \in D : c[b] <= d[b]
  PROVE  /\ Cardinality(Units(c)) <= Cardinality(Units(d))
         /\ Cardinality(Units(c)) = Cardinality(Units(d)) => c = d
<1>1. /\ \A b \in D : \A i : <<b, i>> \in Units(c) <=> i \in 0..(c[b] - 1)
      /\ \A b \in D : \A i : <<b, i>> \in Units(d) <=> i \in 0..(d[b] - 1)
  BY DEF Units
<1>2. Units(c) \subseteq Units(d)
  <2>1. \A b \in D : 0..(c[b] - 1) \subseteq 0..(d[b] - 1)
    OBVIOUS
  <2>. QED  BY <2>1 DEF Units
<1>3. IsFiniteSet(Units(d)) /\ IsFiniteSet(Units(c))
  BY UnitsCount
<1>4. /\ Cardinality(Units(c)) <= Cardinality(Units(d))
      /\ Cardinality(Units(d)) = Cardinality(Units(c)) => Units(d) = Units(c)
  BY <1>2, <1>3, FS_Subset
<1>5. ASSUME Units(d) = Units(c) PROVE c = d
  <2>1. ASSUME NEW b \in D, c[b] # d[b] PROVE FALSE
    <3>1. c[b] \in 0..(d[b] - 1) /\ c[b] \notin 0..(c[b] - 1)
      BY <2>1
    <3>. QED  BY <1>1, <1>5, <3>1
  <2>. QED  BY <2>1
<1>. QED  BY <1>4, <1>5

\* The symbols that refresh_decoded_counts counts of each block.
Shown(k, src, dec) ==
  [b \in DOMAIN k |-> IF dec[b] \/ src[b] > k[b] THEN k[b] ELSE src[b]]

LEMMA ShownType ==
  ASSUME NEW m \in Metas, NEW src \in [DOMAIN m.k -> Nat], NEW dec
  PROVE  /\ DecodedCount(m.k, src, dec) = Cardinality(Units(Shown(m.k, src, dec)))
         /\ Shown(m.k, src, dec) \in [DOMAIN m.k -> Nat]
         /\ m.k \in [DOMAIN m.k -> Nat]
         /\ \A b \in DOMAIN m.k : Shown(m.k, src, dec)[b] <= m.k[b]
BY LayoutType DEF DecodedCount, Shown

\* The source symbols received of a block of K are less than K as long as one of
\* them is missing.
LEMMA SourceCount ==
  ASSUME NEW esis \in SUBSET Esis, NEW k \in Nat
  PROVE  /\ Cardinality(esis \cap 0..(k - 1)) \in 0..k
         /\ Cardinality(esis \cap 0..(k - 1)) = k => 0..(k - 1) \subseteq esis
<1> DEFINE source == 0..(k - 1)
<1>1. IsFiniteSet(source) /\ Cardinality(source) = k
  BY FS_Interval
<1>. HIDE DEF source
<1>2. /\ Cardinality(esis \cap source) <= Cardinality(source)
      /\ Cardinality(source) = Cardinality(esis \cap source) => source = esis \cap source
      /\ IsFiniteSet(esis \cap source)
  BY <1>1, FS_Subset
<1>3. Cardinality(esis \cap source) \in Nat
  BY <1>2, FS_CardinalityType
<1>4. /\ Cardinality(esis \cap source) \in 0..k
      /\ Cardinality(esis \cap source) = k => source \subseteq esis
  BY <1>1, <1>2, <1>3
<1>. QED  BY <1>4 DEF source

\* What makes the progress true: the incremental count of source symbols is that
\* of the ESIs received, and the solver recovers a block from K symbols at
\* least, and from its K source symbols at the latest.
BlockHonest(k, esis, src, dec) ==
  /\ src = Cardinality(esis \cap 0..(k - 1))
  /\ dec => Cardinality(esis) >= k
  /\ 0..(k - 1) \subseteq esis => dec

ProgressInv ==
  meta # NoMeta =>
    /\ decoded_symbols = DecodedCount(meta.k, source_recv, decoded)
    /\ \A b \in DOMAIN meta.k :
         BlockHonest(meta.k[b], received[b], source_recv[b], decoded[b])

LEMMA ProgressImplied == IInv /\ ProgressInv => ProgressHonest
<1> SUFFICES ASSUME IInv, ProgressInv, meta # NoMeta
             PROVE  /\ decoded_symbols <= TotalSymbols
                    /\ decoded_symbols = TotalSymbols <=> Complete
                    /\ \A b \in DOMAIN meta.k :
                         /\ source_recv[b] = Cardinality(received[b] \cap 0..(meta.k[b] - 1))
                         /\ decoded[b] => Cardinality(received[b]) >= meta.k[b]
  BY DEF ProgressHonest
<1> DEFINE shown == Shown(meta.k, source_recv, decoded)
<1>1. /\ meta \in Metas /\ DecoderTyped /\ KnownBlocks = DOMAIN meta.k
  BY TypeParts DEF IInv, LayoutTyped, KnownBlocks
<1>2. /\ source_recv \in [DOMAIN meta.k -> Nat]
      /\ received \in [DOMAIN meta.k -> SUBSET Esis]
      /\ decoded \in [DOMAIN meta.k -> BOOLEAN]
  BY <1>1 DEF DecoderTyped
<1>3. /\ decoded_symbols = Cardinality(Units(shown))
      /\ shown \in [DOMAIN meta.k -> Nat] /\ meta.k \in [DOMAIN meta.k -> Nat]
      /\ \A b \in DOMAIN meta.k : shown[b] <= meta.k[b]
  BY <1>1, <1>2, ShownType DEF ProgressInv
<1>4. TotalSymbols = Cardinality(Units(meta.k)) /\ IsFiniteSet(DOMAIN meta.k)
  BY <1>1, LayoutType DEF TotalSymbols
<1>5. shown = meta.k <=> Complete
  <2>1. ASSUME NEW b \in DOMAIN meta.k PROVE shown[b] = meta.k[b] <=> decoded[b]
    <3>1. /\ source_recv[b] \in 0..meta.k[b]
          /\ source_recv[b] = meta.k[b] => decoded[b]
      <4>1. BlockHonest(meta.k[b], received[b], source_recv[b], decoded[b])
        BY DEF ProgressInv
      <4>2. received[b] \in SUBSET Esis /\ meta.k[b] \in Nat
        BY <1>2, <1>3
      <4>3. /\ Cardinality(received[b] \cap 0..(meta.k[b] - 1)) \in 0..meta.k[b]
            /\ Cardinality(received[b] \cap 0..(meta.k[b] - 1)) = meta.k[b]
                 => 0..(meta.k[b] - 1) \subseteq received[b]
        BY <4>2, SourceCount
      <4>. QED  BY <4>1, <4>3 DEF BlockHonest
    <3>2. shown[b] = IF decoded[b] \/ source_recv[b] > meta.k[b]
                     THEN meta.k[b] ELSE source_recv[b]
      BY DEF Shown
    <3>3. meta.k[b] \in Nat
      BY <1>3
    <3>. QED  BY <3>1, <3>2, <3>3
  <2>2. DOMAIN shown = DOMAIN meta.k
    BY <1>3
  <2>. HIDE DEF shown
  <2>3. shown = meta.k <=> \A b \in DOMAIN meta.k : shown[b] = meta.k[b]
    BY <1>3
  <2>. QED  BY <2>1, <2>3 DEF Complete
<1>. HIDE DEF shown
<1>6. /\ Cardinality(Units(shown)) <= Cardinality(Units(meta.k))
      /\ Cardinality(Units(shown)) = Cardinality(Units(meta.k)) => shown = meta.k
  BY <1>3, <1>4, UnitsMonotone
<1>7. \A b \in DOMAIN meta.k :
        /\ source_recv[b] = Cardinality(received[b] \cap 0..(meta.k[b] - 1))
        /\ decoded[b] => Cardinality(received[b]) >= meta.k[b]
  BY DEF ProgressInv, BlockHonest
<1>. QED  BY <1>3, <1>4, <1>5, <1>6, <1>7

LEMMA InitProgress == Init => ProgressInv
BY DEF Init, ProgressInv

\* A replay starts from a true count.
LEMMA ReplayProgress ==
  ASSUME NEW m \in Metas, NEW cache, Cached(cache), Replay(m, cache)
  PROVE  ProgressInv'
<1>1. /\ meta' = m /\ received' \in [DOMAIN m.k -> SUBSET Esis]
      /\ decoded' \in [DOMAIN m.k -> BOOLEAN]
      /\ m.k \in [DOMAIN m.k -> Nat]
  BY ReplayType, LayoutType
<1>2. decoded_symbols' = DecodedCount(m.k, source_recv', decoded')
  BY DEF Replay
<1>3. ASSUME NEW b \in DOMAIN m.k
      PROVE  BlockHonest(m.k[b], received'[b], source_recv'[b], decoded'[b])
  <2>1. received'[b] \in SUBSET Nat /\ m.k[b] \in Nat
    BY <1>1 DEF Esis
  <2>2. source_recv'[b] = Cardinality({esi \in received'[b] : esi < m.k[b]})
    BY DEF Replay
  <2>3. {esi \in received'[b] : esi < m.k[b]} = received'[b] \cap 0..(m.k[b] - 1)
    BY <2>1
  <2>4. decoded'[b] \in Outcomes(m.k[b], received'[b])
    BY DEF Replay
  <2>. QED  BY <2>2, <2>3, <2>4 DEF BlockHonest, Outcomes
<1>. QED  BY <1>1, <1>2, <1>3 DEF ProgressInv

\* One more symbol of a block.
LEMMA OneMore ==
  ASSUME NEW k \in Nat, NEW esis \in SUBSET Esis, NEW esi \in Esis \ esis,
         NEW src, NEW dec \in BOOLEAN, BlockHonest(k, esis, src, dec),
         NEW recovered \in Outcomes(k, esis \cup {esi})
  PROVE  BlockHonest(k, esis \cup {esi}, IF esi < k THEN src + 1 ELSE src,
                     dec \/ recovered)
<1> DEFINE all == esis \cup {esi}
           source == 0..(k - 1)
<1>1. /\ IsFiniteSet(esis) /\ Cardinality(esis) \in Nat
      /\ Cardinality(all) = Cardinality(esis) + 1
  BY EsisFinite, FS_AddElement
<1>2. /\ IsFiniteSet(esis \cap source) /\ esi \notin esis \cap source
  BY <1>1, FS_Subset
<1>3. esi \in source <=> esi < k
  BY DEF Esis
<1>. HIDE DEF source
<1>4. CASE esi < k
  <2>1. all \cap source = (esis \cap source) \cup {esi}
    BY <1>3, <1>4
  <2>2. Cardinality(all \cap source) = Cardinality(esis \cap source) + 1
    BY <1>2, <2>1, FS_AddElement
  <2>. QED  BY <1>1, <1>4, <2>2 DEF BlockHonest, Outcomes, source
<1>5. CASE ~(esi < k)
  <2>1. all \cap source = esis \cap source
    BY <1>3, <1>5
  <2>2. source \subseteq all => source \subseteq esis
    BY <1>3, <1>5
  <2>. QED  BY <1>1, <1>5, <2>1, <2>2 DEF BlockHonest, Outcomes, source
<1>. QED  BY <1>4, <1>5

LEMMA NewSymbolProgress ==
  ASSUME IInv, ProgressInv, NEW f \in Frames, NewSymbol(f)
  PROVE  ProgressInv'
<1>1. /\ meta \in Metas /\ meta' = meta /\ meta # NoMeta /\ KnownBlocks = DOMAIN meta.k
      /\ DecoderTyped
  BY TypeParts, LayoutType DEF IInv, NewSymbol, LayoutTyped, layoutVars, KnownBlocks
<1>2. /\ source_recv \in [DOMAIN meta.k -> Nat]
      /\ received \in [DOMAIN meta.k -> SUBSET Esis]
      /\ decoded \in [DOMAIN meta.k -> BOOLEAN]
      /\ meta.k \in [DOMAIN meta.k -> Nat]
  BY <1>1, LayoutType DEF DecoderTyped
<1>3. /\ f.sbn \in DOMAIN meta.k /\ f.esi \in Esis /\ f.esi \notin received[f.sbn]
      /\ received' = [received EXCEPT ![f.sbn] = @ \cup {f.esi}]
      /\ source_recv' = IF f.esi < meta.k[f.sbn]
                        THEN [source_recv EXCEPT ![f.sbn] = @ + 1] ELSE source_recv
      /\ decoded_symbols' = DecodedCount(meta.k, source_recv', decoded')
  BY FrameType DEF NewSymbol, Seen, Fits
<1>4. PICK recovered \in Outcomes(meta.k[f.sbn], received'[f.sbn]) :
        decoded' = [decoded EXCEPT ![f.sbn] = @ \/ recovered]
  BY DEF NewSymbol
<1>5. ASSUME NEW b \in DOMAIN meta.k
      PROVE  BlockHonest(meta.k[b], received'[b], source_recv'[b], decoded'[b])
  <2>1. BlockHonest(meta.k[b], received[b], source_recv[b], decoded[b])
    BY <1>1 DEF ProgressInv
  <2>2. CASE b = f.sbn
    <3>1. /\ received'[b] = received[b] \cup {f.esi}
          /\ source_recv'[b] = IF f.esi < meta.k[b] THEN source_recv[b] + 1 ELSE source_recv[b]
          /\ decoded'[b] = (decoded[b] \/ recovered)
      BY <1>2, <1>3, <1>4, <2>2
    <3>2. recovered \in Outcomes(meta.k[b], received[b] \cup {f.esi})
      BY <1>4, <2>2, <3>1
    <3>3. /\ meta.k[b] \in Nat /\ received[b] \in SUBSET Esis
          /\ f.esi \in Esis \ received[b] /\ decoded[b] \in BOOLEAN
      BY <1>2, <1>3, <2>2
    <3>4. BlockHonest(meta.k[b], received[b] \cup {f.esi},
                      IF f.esi < meta.k[b] THEN source_recv[b] + 1 ELSE source_recv[b],
                      decoded[b] \/ recovered)
      BY <2>1, <3>2, <3>3, OneMore
    <3>. QED  BY <3>1, <3>4
  <2>3. CASE b # f.sbn
    <3>1. /\ received'[b] = received[b] /\ source_recv'[b] = source_recv[b]
          /\ decoded'[b] = decoded[b]
      BY <1>2, <1>3, <1>4, <2>3
    <3>. QED  BY <2>1, <3>1
  <2>. QED  BY <2>2, <2>3
<1>. QED  BY <1>1, <1>3, <1>5 DEF ProgressInv

LEMMA StepProgress == IInv /\ ProgressInv /\ [Next]_vars => ProgressInv'
<1> SUFFICES ASSUME IInv, ProgressInv, [Next]_vars PROVE ProgressInv'
  OBVIOUS
<1>1. ASSUME UNCHANGED <<meta, decoderVars, decoded_symbols>> PROVE ProgressInv'
  BY <1>1 DEF ProgressInv, decoderVars
<1>2. CASE UNCHANGED vars
  BY <1>1, <1>2 DEF vars, layoutVars, counterVars
<1>3. ASSUME NEW f \in Frames,
             \/ SessionMismatch(f) \/ RejectDescriptor(f) \/ RepeatedDescriptor(f)
             \/ ConfirmRestored(f) \/ RejectSymbol(f) \/ UselessSymbol(f)
      PROVE  ProgressInv'
  BY <1>1, <1>3 DEF SessionMismatch, RejectDescriptor, RepeatedDescriptor, ConfirmRestored,
     RejectSymbol, UselessSymbol, CountCorrupt, CountDuplicate, CountDescriptor,
     layoutVars, counterVars
<1>4. ASSUME NEW f \in Frames, AdoptDescriptor(f) PROVE ProgressInv'
  <2> DEFINE m == MetaOf(f.stream)
  <2>1. m \in Metas /\ Replay(m, symbol_cache) /\ Cached(symbol_cache)
    BY <1>4, FrameType, TypeParts DEF Metas, AdoptDescriptor, IInv
  <2>. HIDE DEF m
  <2>. QED  BY <2>1, ReplayProgress
<1>5. ASSUME NEW f \in Frames, CacheSymbol(f) PROVE ProgressInv'
  <2>1. meta' = NoMeta
    BY <1>5, TypeParts DEF IInv, LayoutTyped, CacheSymbol, layoutVars
  <2>. QED  BY <2>1 DEF ProgressInv
<1>6. ASSUME NEW f \in Frames, NewSymbol(f) PROVE ProgressInv'
  BY <1>6, NewSymbolProgress
<1>7. CASE SaveState
  BY <1>1, <1>7 DEF SaveState, layoutVars, counterVars
<1>8. CASE Restore
  <2>1. /\ checkpoint.meta \in Metas /\ Cached(checkpoint.symbols)
        /\ Replay(checkpoint.meta, checkpoint.symbols)
    BY <1>8, TypeParts, EmptyCache DEF IInv, Restore, CheckpointTyped
  <2>. QED  BY <2>1, ReplayProgress
<1>. QED  BY <1>2, <1>3, <1>4, <1>5, <1>6, <1>7, <1>8 DEF Next, Ingest

\* The progress shown never exceeds the total, reaches it exactly when every
\* block is recovered, and no block is recovered from less than K symbols.
THEOREM ProgressIsHonest == Spec => []ProgressHonest
BY InitIInv, InitProgress, StepIInv, StepProgress, ProgressImplied, PTL DEF Spec

\* A new symbol adds to what is shown.
LEMMA NewSymbolAdds ==
  ASSUME IInv, ProgressInv, NEW f \in Frames, NewSymbol(f)
  PROVE  /\ DOMAIN received = DOMAIN received'
         /\ \A b \in DOMAIN received :
              received[b] \subseteq received'[b] /\ (decoded[b] => decoded'[b])
         /\ decoded_symbols <= decoded_symbols'
<1>1. /\ meta \in Metas /\ meta' = meta /\ meta # NoMeta
      /\ KnownBlocks = DOMAIN meta.k /\ KnownBlocks' = DOMAIN meta.k
      /\ DecoderTyped /\ DecoderTyped'
  <2>1. DecoderTyped'
    BY NewSymbolStep, TypePartsNext DEF IInv
  <2>. QED
    BY <2>1, TypeParts, LayoutType
       DEF IInv, NewSymbol, LayoutTyped, layoutVars, KnownBlocks
<1>2. /\ source_recv \in [DOMAIN meta.k -> Nat] /\ source_recv' \in [DOMAIN meta.k -> Nat]
      /\ received \in [DOMAIN meta.k -> SUBSET Esis]
      /\ decoded \in [DOMAIN meta.k -> BOOLEAN]
      /\ meta.k \in [DOMAIN meta.k -> Nat]
  BY <1>1, LayoutType DEF DecoderTyped
<1>3. /\ f.sbn \in DOMAIN meta.k
      /\ received' = [received EXCEPT ![f.sbn] = @ \cup {f.esi}]
      /\ source_recv' = IF f.esi < meta.k[f.sbn]
                        THEN [source_recv EXCEPT ![f.sbn] = @ + 1] ELSE source_recv
      /\ \E recovered \in Outcomes(meta.k[f.sbn], received'[f.sbn]) :
           decoded' = [decoded EXCEPT ![f.sbn] = @ \/ recovered]
  BY DEF NewSymbol, Fits
<1>4. \A b \in DOMAIN meta.k :
        /\ received[b] \subseteq received'[b] /\ (decoded[b] => decoded'[b])
        /\ source_recv[b] <= source_recv'[b]
  BY <1>2, <1>3
<1>5. decoded_symbols <= decoded_symbols'
  <2> DEFINE before == Shown(meta.k, source_recv, decoded)
             after == Shown(meta.k, source_recv', decoded')
  <2>1. /\ decoded_symbols = Cardinality(Units(before))
        /\ decoded_symbols' = Cardinality(Units(after))
        /\ before \in [DOMAIN meta.k -> Nat] /\ after \in [DOMAIN meta.k -> Nat]
    <3>1. decoded_symbols = DecodedCount(meta.k, source_recv, decoded)
      BY <1>1 DEF ProgressInv
    <3>2. decoded_symbols' = DecodedCount(meta.k, source_recv', decoded')
      BY DEF NewSymbol
    <3>. QED  BY <1>1, <1>2, <3>1, <3>2, ShownType
  <2>2. \A b \in DOMAIN meta.k : before[b] <= after[b]
    BY <1>2, <1>4 DEF Shown
  <2>3. IsFiniteSet(DOMAIN meta.k)
    BY <1>1, LayoutType
  <2>. HIDE DEF before, after
  <2>. QED  BY <2>1, <2>2, <2>3, UnitsMonotone
<1>6. DOMAIN received = DOMAIN meta.k /\ DOMAIN received' = DOMAIN meta.k
  BY <1>2, <1>3
<1>. QED  BY <1>4, <1>5, <1>6

\* Until a restart, whatever is ingested after the layout is known takes nothing
\* back of what was received, recovered or shown.
THEOREM NothingTakenBack == Spec => MonotoneProgress
<1>1. IInv /\ ProgressInv /\ [Next]_vars =>
        [meta_confirmed /\ ~Restore =>
           /\ DOMAIN received = DOMAIN received'
           /\ \A b \in DOMAIN received :
                received[b] \subseteq received'[b] /\ (decoded[b] => decoded'[b])
           /\ decoded_symbols <= decoded_symbols']_vars
  <2> SUFFICES ASSUME IInv, ProgressInv, Next, meta_confirmed, ~Restore
               PROVE  /\ DOMAIN received = DOMAIN received'
                      /\ \A b \in DOMAIN received :
                           received[b] \subseteq received'[b] /\ (decoded[b] => decoded'[b])
                      /\ decoded_symbols <= decoded_symbols'
    OBVIOUS
  <2>1. decoded_symbols \in Nat
    BY TypeParts DEF IInv, CountersTyped
  <2>2. CASE UNCHANGED <<received, decoded, decoded_symbols>>
    BY <2>1, <2>2
  <2>3. CASE \E f \in Frames : NewSymbol(f)
    BY <2>3, NewSymbolAdds
  <2>4. ASSUME NEW f \in Frames,
               \/ SessionMismatch(f) \/ RejectDescriptor(f) \/ RepeatedDescriptor(f)
               \/ ConfirmRestored(f) \/ RejectSymbol(f) \/ UselessSymbol(f)
        PROVE  UNCHANGED <<received, decoded, decoded_symbols>>
    BY <2>4 DEF SessionMismatch, RejectDescriptor, RepeatedDescriptor, ConfirmRestored,
       RejectSymbol, UselessSymbol, CountCorrupt, CountDuplicate, CountDescriptor,
       decoderVars, counterVars
  <2>5. SaveState => UNCHANGED <<received, decoded, decoded_symbols>>
    BY DEF SaveState, decoderVars, counterVars
  <2>6. ~(\E f \in Frames : AdoptDescriptor(f) \/ CacheSymbol(f))
    BY TypeParts DEF IInv, LayoutTyped, AdoptDescriptor, CacheSymbol
  <2>. QED  BY <2>2, <2>3, <2>4, <2>5, <2>6 DEF Next, Ingest
<1>. QED
  BY <1>1, InitIInv, InitProgress, StepIInv, StepProgress, PTL DEF Spec, MonotoneProgress
============================================================================
