----------------------- MODULE ReceiverBindingsProofs -----------------------
(***************************************************************************)
(* Theorems about ReceiverBindings: a session behind any of the bindings   *)
(* is a session of ReceiverSession, so that what is proved of those holds  *)
(* here, and what a host is told of it is true.                            *)
(***************************************************************************)
EXTENDS ReceiverBindings, ReceiverSessionProofs

----------------------------------------------------------------------------
(* The session behind a binding. *)

\* Every call of a host is one step of the session, or none.
LEMMA StepOfSession == [BNext]_bindingVars => [Next]_vars
<1> SUFFICES ASSUME [BNext]_bindingVars PROVE [Next]_vars
  OBVIOUS
<1>. USE DEF sessionVars
<1>1. CASE UNCHANGED bindingVars
  BY <1>1 DEF bindingVars
<1>2. CASE CreateC \/ CreateJava \/ CreateBrowser \/ \E f \in Frames : CreateFromFrame(f)
  BY <1>2 DEF CreateC, CreateJava, CreateBrowser, CreateFromFrame, Opened
<1>3. CASE DestroyC \/ DestroyJava \/ DestroyBrowser
  BY <1>3 DEF DestroyC, DestroyJava, DestroyBrowser, Closed
<1>4. CASE \E f \in Frames : FromDescriptor(f)
  BY <1>4 DEF FromDescriptor, Next, Ingest
<1>5. CASE \E f \in Frames : IngestC(f) \/ IngestJava(f) \/ IngestBrowser(f)
  BY <1>5 DEF IngestC, IngestJava, IngestBrowser, IngestWord, Next
<1>6. CASE IngestBad \/ IngestNull
  BY <1>6 DEF IngestBad, IngestNull
<1>7. CASE Direct
  BY <1>7 DEF Direct
<1>8. CASE AskName \/ FetchName
  BY <1>8 DEF AskName, FetchName
<1>9. CASE Assemble \/ AssembleRaw \/ DecompressBytes
  BY <1>9 DEF Assemble, AssembleRaw, DecompressBytes, Granted, Failed
<1>10. CASE BufferFree
  BY <1>10 DEF BufferFree
<1>. QED
  BY <1>1, <1>2, <1>3, <1>4, <1>5, <1>6, <1>7, <1>8, <1>9, <1>10 DEF BNext

\* A receiver behind C, Java or the browser, or used directly, behaves as a
\* session of ReceiverSession, whatever its host calls and in whatever order.
THEOREM RunsTheSession == BSpec => Spec
<1>1. BInit => Init
  BY DEF BInit
<1>. QED  BY <1>1, StepOfSession, PTL DEF BSpec, Spec

----------------------------------------------------------------------------
(* Buffers. *)

\* A call that returned hands out one buffer or none; between two calls there is
\* none, so that a pointer left over never meets a new buffer.
THEOREM BuffersFreedOnce == BSpec => []BuffersAccounted
<1>1. BInit => BuffersAccounted
  BY DEF BInit, BuffersAccounted
<1>2. BuffersAccounted /\ [BNext]_bindingVars => BuffersAccounted'
  <2> SUFFICES ASSUME BuffersAccounted, [BNext]_bindingVars PROVE BuffersAccounted'
    OBVIOUS
  <2>. USE DEF BuffersAccounted
  <2>1. CASE UNCHANGED bufferVars
    BY <2>1 DEF bufferVars
  <2>2. CASE Granted /\ ~pending /\ pending'
    BY <2>2, BindingsAssumption DEF Granted
  <2>3. CASE Failed /\ ~pending /\ pending'
    BY <2>3 DEF Failed
  <2>4. CASE BufferFree
    BY <2>4 DEF BufferFree
  <2>5. Assemble \/ AssembleRaw \/ DecompressBytes =>
          (Granted \/ Failed) /\ ~pending /\ pending'
    BY DEF Assemble, AssembleRaw, DecompressBytes
  <2>6. BNext => \/ UNCHANGED bufferVars
                 \/ BufferFree
                 \/ Assemble \/ AssembleRaw \/ DecompressBytes
    BY DEF BNext, CreateC, CreateJava, CreateBrowser, CreateFromFrame, Opened,
           DestroyC, DestroyJava, DestroyBrowser, Closed, FromDescriptor, IngestC,
           IngestJava, IngestBrowser, IngestWord, IngestBad, IngestNull, Direct,
           handleVars, AskName, FetchName, bufferVars
  <2>. QED  BY <2>1, <2>2, <2>3, <2>4, <2>5, <2>6 DEF bindingVars, handleVars
<1>. QED  BY <1>1, <1>2, PTL DEF BSpec

----------------------------------------------------------------------------
(* The word of a frame. *)

\* One frame: the count of symbols grows by one, or it does not grow and what it
\* loses was counted corrupt.
LEMMA SymbolsOfFrame ==
  ASSUME IInv, AccountInv, NEW f \in Frames, Ingest(f)
  PROVE  /\ received_symbols' \in Nat /\ frames_corrupt' \in Nat
         /\ \/ /\ received_symbols' = received_symbols + 1
               /\ frames_corrupt' = frames_corrupt
            \/ /\ received_symbols' <= received_symbols
               /\ received_symbols' + frames_corrupt' >= received_symbols + frames_corrupt
<1>0. CountersTyped /\ LayoutTyped /\ Cached(symbol_cache)
  BY TypeParts DEF IInv
<1>. USE <1>0 DEF CountersTyped
<1>1. CASE SessionMismatch(f)
  BY <1>1 DEF SessionMismatch, counterVars
<1>2. CASE RejectDescriptor(f)
  BY <1>2 DEF RejectDescriptor, CountCorrupt
<1>3. CASE RepeatedDescriptor(f)
  BY <1>3 DEF RepeatedDescriptor, CountCorrupt, CountDescriptor
<1>4. CASE AdoptDescriptor(f)
  <2> DEFINE m == MetaOf(f.stream)
  <2>1. m \in Metas
    BY FrameType DEF Metas
  <2>2. Replay(m, symbol_cache) /\ meta = NoMeta
    BY <1>4 DEF AdoptDescriptor
  <2>3. frames_corrupt' = frames_corrupt + Dropped(m, symbol_cache)
    BY <1>4 DEF AdoptDescriptor
  <2>4. received_symbols = Cardinality(DOMAIN symbol_cache)
    BY <2>2 DEF AccountInv
  <2>. HIDE DEF m
  <2>5. /\ received_symbols' + Dropped(m, symbol_cache) = Cardinality(DOMAIN symbol_cache)
        /\ received_symbols' \in Nat
    BY <2>1, <2>2, ReplayPartition, ReplayType
  <2>6. Dropped(m, symbol_cache) \in Nat
    BY FS_Difference, FS_CardinalityType DEF Dropped, Cached
  <2>. QED  BY <2>3, <2>4, <2>5, <2>6
<1>5. CASE ConfirmRestored(f)
  BY <1>5 DEF ConfirmRestored, CountCorrupt, CountDescriptor
<1>6. CASE CacheSymbol(f)
  <2> DEFINE key == <<f.sbn, f.esi>>
  <2>1. meta = NoMeta
    BY <1>6 DEF CacheSymbol, LayoutTyped
  <2>2. received_symbols = Cardinality(DOMAIN symbol_cache)
    BY <2>1 DEF AccountInv
  <2>3. received_symbols' = Cardinality(DOMAIN symbol_cache')
    BY <1>6 DEF CacheSymbol
  <2>4. \/ /\ frames_corrupt' \in {frames_corrupt, frames_corrupt + 1}
           /\ UNCHANGED symbol_cache
        \/ /\ key \notin DOMAIN symbol_cache
           /\ DOMAIN symbol_cache' = DOMAIN symbol_cache \cup {key}
           /\ UNCHANGED frames_corrupt
    BY <1>6 DEF CacheSymbol
  <2>5. key \notin DOMAIN symbol_cache =>
          Cardinality(DOMAIN symbol_cache \cup {key}) = Cardinality(DOMAIN symbol_cache) + 1
    BY FS_AddElement DEF Cached
  <2>. QED  BY <2>2, <2>3, <2>4, <2>5
<1>7. CASE RejectSymbol(f)
  BY <1>7 DEF RejectSymbol, CountCorrupt
<1>8. CASE UselessSymbol(f)
  BY <1>8 DEF UselessSymbol, CountDuplicate
<1>9. CASE NewSymbol(f)
  BY <1>9 DEF NewSymbol
<1>. QED
  BY <1>1, <1>2, <1>3, <1>4, <1>5, <1>6, <1>7, <1>8, <1>9 DEF Ingest

\* What the words of a binding add up to, with the type of the sum.
AnnouncedInv ==
  /\ tally \in Nat
  /\ AnnouncedOnce

\* The host's count t follows the r symbols held and the c frames counted corrupt.
LEMMA CountFollows ==
  ASSUME NEW t \in Nat, NEW r \in Nat, NEW c \in Nat, NEW r1 \in Nat, NEW c1 \in Nat,
         r <= t, t <= r + c,
         (r1 = r + 1 /\ c1 = c) \/ (r1 <= r /\ r1 + c1 >= r + c)
  PROVE  LET t1 == IF r1 > r THEN t + 1 ELSE t
         IN  t1 \in Nat /\ r1 <= t1 /\ t1 <= r1 + c1
OBVIOUS

\* The first descriptor may refuse cached symbols; it brings none.
LEMMA AdoptionBringsNone ==
  ASSUME IInv, AccountInv, NEW f \in Frames, AdoptDescriptor(f)
  PROVE  ~(received_symbols' > received_symbols)
<1> DEFINE m == MetaOf(f.stream)
<1>1. m \in Metas /\ meta = NoMeta /\ Replay(m, symbol_cache)
  BY FrameType DEF Metas, AdoptDescriptor
<1>2. Cached(symbol_cache) /\ received_symbols \in Nat
  BY TypeParts DEF IInv, CountersTyped
<1>. HIDE DEF m
<1>3. received_symbols' + Dropped(m, symbol_cache) = Cardinality(DOMAIN symbol_cache)
  BY <1>1, <1>2, ReplayPartition
<1>4. received_symbols' \in Nat
  BY <1>1, <1>2, ReplayType
<1>5. Dropped(m, symbol_cache) \in Nat
  BY <1>2, FS_Difference, FS_CardinalityType DEF Dropped, Cached
<1>6. received_symbols = Cardinality(DOMAIN symbol_cache)
  BY <1>1 DEF AccountInv
<1>. QED  BY <1>2, <1>3, <1>4, <1>5, <1>6

\* A word says accepted exactly when the count of symbols grew by one.
LEMMA StepAnnounced ==
  IInv /\ AccountInv /\ AnnouncedInv /\ [BNext]_bindingVars => AnnouncedInv'
<1> SUFFICES ASSUME IInv, AccountInv, AnnouncedInv, [BNext]_bindingVars
             PROVE  AnnouncedInv'
  OBVIOUS
<1>0. received_symbols \in Nat /\ frames_corrupt \in Nat /\ tally \in Nat
  BY TypeParts DEF IInv, CountersTyped, AnnouncedInv
<1>1. CASE UNCHANGED <<sessionVars, abi, tally>>
  BY <1>1 DEF AnnouncedInv, AnnouncedOnce, sessionVars, vars, counterVars
<1>2. CASE Direct
  <2>1. abi' = "rust" /\ tally' = tally
    BY <1>2 DEF Direct, handleVars
  <2>. QED  BY <1>0, <2>1 DEF AnnouncedInv, AnnouncedOnce
<1>3. ASSUME NEW f \in Frames, Ingest(f), abi' = abi,
             tally' = IF received_symbols' > received_symbols THEN tally + 1 ELSE tally
      PROVE  AnnouncedInv'
  <2>1. received_symbols' \in Nat /\ frames_corrupt' \in Nat
    BY <1>3, SymbolsOfFrame
  <2>2. \/ received_symbols' = received_symbols + 1 /\ frames_corrupt' = frames_corrupt
        \/ /\ received_symbols' <= received_symbols
           /\ received_symbols' + frames_corrupt' >= received_symbols + frames_corrupt
    BY <1>3, SymbolsOfFrame
  <2>3. CASE abi = "rust"
    BY <1>0, <1>3, <2>3 DEF AnnouncedInv, AnnouncedOnce
  <2>4. CASE abi # "rust"
    <3>1. received_symbols <= tally /\ tally <= received_symbols + frames_corrupt
      BY <2>4 DEF AnnouncedInv, AnnouncedOnce
    <3>2. /\ tally' \in Nat
          /\ received_symbols' <= tally'
          /\ tally' <= received_symbols' + frames_corrupt'
      BY <1>0, <1>3, <2>1, <2>2, <3>1, CountFollows
    <3>. QED  BY <3>2 DEF AnnouncedInv, AnnouncedOnce
  <2>. QED  BY <2>3, <2>4
<1>4. CASE \E f \in Frames : IngestC(f) \/ IngestJava(f) \/ IngestBrowser(f)
  <2>1. PICK f \in Frames : IngestWord(f)
    BY <1>4 DEF IngestC, IngestJava, IngestBrowser
  <2>. QED  BY <1>3, <2>1 DEF IngestWord, Pack
<1>5. CASE \E f \in Frames : FromDescriptor(f)
  <2>1. PICK f \in Frames : AdoptDescriptor(f) /\ abi' = abi /\ tally' = tally
    BY <1>5 DEF FromDescriptor
  <2>2. ~(received_symbols' > received_symbols)
    BY <2>1, AdoptionBringsNone
  <2>. QED  BY <1>3, <2>1, <2>2 DEF Ingest
<1>6. BNext => \/ UNCHANGED <<sessionVars, abi, tally>>
               \/ \E f \in Frames : \/ IngestC(f) \/ IngestJava(f) \/ IngestBrowser(f)
                                    \/ FromDescriptor(f)
               \/ Direct
  BY DEF BNext, CreateC, CreateJava, CreateBrowser, CreateFromFrame, Opened, DestroyC,
         DestroyJava, DestroyBrowser, Closed, IngestBad, IngestNull, AskName,
         FetchName, Assemble, AssembleRaw, DecompressBytes, Granted, Failed, BufferFree
<1>. QED  BY <1>1, <1>2, <1>4, <1>5, <1>6 DEF bindingVars, handleVars

\* The words that a host was given add up to the symbols of the session.
THEOREM SymbolsAnnouncedOnce == BSpec => []AnnouncedOnce
<1>1. BInit => AnnouncedInv
  BY DEF BInit, Init, AnnouncedInv, AnnouncedOnce
<1>2. AnnouncedInv => AnnouncedOnce
  BY DEF AnnouncedInv
<1>3. Spec => [](IInv /\ AccountInv)
  BY InitIInv, InitAccount, StepIInv, StepAccount, PTL DEF Spec
<1>. QED  BY <1>1, <1>2, <1>3, RunsTheSession, StepAnnounced, PTL DEF BSpec

----------------------------------------------------------------------------
(* The answers of a binding. *)

\* The layout and the file of the session are those of one descriptor.
LayoutOfStream ==
  IF descriptor_seen
  THEN \E s \in Streams :
         s.sid = sid /\ s.desc = "valid" /\ MetaOf(s) = meta /\ file_meta = s.file
  ELSE file_meta = NoFile /\ meta = NoMeta

\* What holds of a binding between two calls, the session having no restart.
UsableInv ==
  /\ abi \in Abis
  /\ abi = "rust" => asked = 0
  /\ abi # "rust" =>
       /\ LayoutOfStream
       /\ handle \in {"none", "live", "gone"}
       /\ word.complete \in BOOLEAN /\ (word.complete => word.good)
       /\ handle = "none" => meta = NoMeta /\ symbol_cache = NoBlocks /\ ~word.complete
       /\ handle = "live" /\ word.good => word.complete = Complete
       /\ asked > 1 => asked = Needed(file_meta.name)

\* As long as no checkpoint is restored, the layout has come with a descriptor.
LEMMA LayoutOfDescriptor ==
  ASSUME LayoutOfStream, NEW f \in Frames, Ingest(f)
  PROVE  LayoutOfStream' /\ (descriptor_seen => file_meta' = file_meta)
<1>. USE DEF LayoutOfStream, layoutVars
<1>1. CASE SessionMismatch(f)
  BY <1>1 DEF SessionMismatch
<1>2. CASE RejectDescriptor(f)
  BY <1>2 DEF RejectDescriptor, Seen
<1>3. CASE RepeatedDescriptor(f)
  BY <1>3 DEF RepeatedDescriptor, Seen
<1>4. CASE AdoptDescriptor(f)
  <2>1. f.stream \in Streams
    BY FrameType
  <2>. QED  BY <1>4, <2>1 DEF AdoptDescriptor, Seen, Replay
<1>5. CASE ConfirmRestored(f)
  BY <1>5 DEF ConfirmRestored
<1>6. CASE CacheSymbol(f)
  BY <1>6 DEF CacheSymbol, Seen
<1>7. CASE RejectSymbol(f)
  BY <1>7 DEF RejectSymbol, Seen
<1>8. CASE UselessSymbol(f)
  BY <1>8 DEF UselessSymbol, Seen
<1>9. CASE NewSymbol(f)
  BY <1>9 DEF NewSymbol, Seen
<1>. QED
  BY <1>1, <1>2, <1>3, <1>4, <1>5, <1>6, <1>7, <1>8, <1>9 DEF Ingest

\* Without cached symbols a new layout is not decoded at once.
LEMMA FreshIsIncomplete ==
  ASSUME NEW f \in Frames, AdoptDescriptor(f), symbol_cache = NoBlocks
  PROVE  ~Complete'
<1> DEFINE m == MetaOf(f.stream)
<1>1. m \in Metas /\ Replay(m, NoBlocks)
  BY FrameType DEF Metas, AdoptDescriptor
<1>. HIDE DEF m
<1>2. PICK b \in DOMAIN m.k : TRUE
  BY <1>1, LayoutType
<1>3. m.k[b] \in Nat \ {0} /\ meta' = m
  BY <1>1, <1>2, LayoutType DEF Replay
<1>4. received'[b] = {}
  BY <1>1, <1>2, EmptyCache DEF Replay, Replayable
<1>5. ~decoded'[b]
  <2>1. decoded'[b] \in Outcomes(m.k[b], {})
    BY <1>1, <1>2, <1>4 DEF Replay
  <2>2. decoded'[b] => Cardinality({}) >= m.k[b]
    BY <2>1 DEF Outcomes
  <2>. QED  BY <1>3, <2>2, FS_EmptySet
<1>. QED  BY <1>2, <1>3, <1>5 DEF Complete

\* Both notions of completion: every block decoded, and as many as there are.
LEMMA CompletionsAgree == IInv => SnapshotComplete = Complete
<1> SUFFICES ASSUME IInv PROVE SnapshotComplete = Complete
  OBVIOUS
<1>1. CASE meta = NoMeta
  BY <1>1 DEF SnapshotComplete, Snapshot, Complete
<1>2. CASE meta # NoMeta
  <2> DEFINE B == DOMAIN meta.k
             D == {b \in B : decoded[b]}
  <2>1. meta \in Metas
    BY <1>2, TypeParts DEF IInv, LayoutTyped
  <2>2. IsFiniteSet(B) /\ B # {}
    BY <2>1, LayoutType
  <2>3. /\ Snapshot.total_blocks = Cardinality(B)
        /\ Snapshot.decoded_blocks = Cardinality(D)
    BY <1>2 DEF Snapshot
  <2>4. Cardinality(B) \in Nat /\ Cardinality(B) # 0
    BY <2>2, FS_CardinalityType, FS_EmptySet
  <2>5. Cardinality(D) = Cardinality(B) <=> D = B
    BY <2>2, FS_Subset
  <2>6. SnapshotComplete <=> D = B
    BY <2>3, <2>4, <2>5 DEF SnapshotComplete
  <2>7. Complete <=> D = B
    BY <1>2 DEF Complete
  <2>. QED  BY <2>6, <2>7 DEF SnapshotComplete, Complete
<1>. QED  BY <1>1, <1>2

\* No word of a failed call says complete.
LEMMA EmptyWords ==
  /\ Zero.good /\ Zero.complete = FALSE
  /\ IngestError.complete = FALSE
BY DEF Zero, IngestError, Pack

\* Nothing is asked, told or received before there is a handle.
LEMMA InitUsable == BInit => UsableInv
<1> SUFFICES ASSUME BInit PROVE UsableInv
  OBVIOUS
<1>1. word = Zero /\ asked = 0 /\ abi \in Abis /\ handle \in {"none", "live"}
  BY DEF BInit
<1>2. LayoutOfStream /\ meta = NoMeta /\ symbol_cache = NoBlocks /\ Complete = FALSE
  BY DEF BInit, Init, LayoutOfStream, Complete
<1>3. ~(asked > 1)
  BY <1>1
<1>. QED  BY <1>1, <1>2, <1>3, EmptyWords DEF UsableInv

\* A length told for the name is that of the name, as long as there is no
\* descriptor 1 for none.
LEMMA AskedStays ==
  ASSUME FilesAnnounced, LayoutOfStream, NEW f \in Frames, Ingest(f),
         asked > 1 => asked = Needed(file_meta.name)
  PROVE  asked > 1 => asked = Needed(file_meta'.name)
<1>1. CASE descriptor_seen
  BY <1>1, LayoutOfDescriptor
<1>2. CASE ~descriptor_seen
  <2>1. Needed(file_meta.name) = 1
    BY <1>2 DEF LayoutOfStream, FilesAnnounced, Needed
  <2>. QED  BY <2>1
<1>. QED  BY <1>1, <1>2

\* The calls between two frames; a name asked for stays the name, as only the
\* first descriptor brings one.
LEMMA StepUsable ==
  ASSUME FilesAnnounced PROVE UsableInv /\ [BNext]_bindingVars => UsableInv'
<1> SUFFICES ASSUME UsableInv, [BNext]_bindingVars PROVE UsableInv'
  OBVIOUS
<1>1. CASE UNCHANGED <<sessionVars, abi, handle, word, asked>>
  BY <1>1 DEF sessionVars, vars, layoutVars, decoderVars, arrivalVars, UsableInv,
              LayoutOfStream, Complete
<1>2. CASE Direct
  BY <1>2 DEF Direct, handleVars, UsableInv
<1>3. ASSUME abi # "rust", Opened
      PROVE  UsableInv'
  BY <1>3 DEF Opened, sessionVars, vars, layoutVars, decoderVars, arrivalVars,
              UsableInv, LayoutOfStream, Complete
<1>4. ASSUME abi # "rust", Closed
      PROVE  UsableInv'
  BY <1>4 DEF Closed, sessionVars, vars, layoutVars, decoderVars, arrivalVars,
              UsableInv, LayoutOfStream, Complete
<1>5. ASSUME NEW f \in Frames, FromDescriptor(f)
      PROVE  UsableInv'
  <2>1. /\ abi = "wasm" /\ abi' = abi /\ handle = "none" /\ handle' = "live"
        /\ word' = word /\ asked' = asked /\ AdoptDescriptor(f)
    BY <1>5 DEF FromDescriptor
  <2>2. ~word.complete /\ symbol_cache = NoBlocks /\ LayoutOfStream
    BY <2>1 DEF UsableInv
  <2>3. Ingest(f)
    BY <2>1 DEF Ingest
  <2>4. ~Complete'
    BY <2>1, <2>2, FreshIsIncomplete
  <2>5. LayoutOfStream'
    BY <2>2, <2>3, LayoutOfDescriptor
  <2>6. asked > 1 => asked = Needed(file_meta'.name)
    BY <2>1, <2>2, <2>3, AskedStays DEF UsableInv
  <2>. QED  BY <2>1, <2>2, <2>4, <2>5, <2>6 DEF UsableInv, Complete
<1>6. ASSUME abi # "rust", NEW f \in Frames, IngestWord(f)
      PROVE  UsableInv'
  <2>1. /\ abi' = abi /\ handle = "live" /\ handle' = handle /\ asked' = asked
        /\ Ingest(f) /\ word'.good /\ word'.complete = Complete'
        /\ word'.complete \in BOOLEAN
    BY <1>6 DEF IngestWord, Pack, Complete
  <2>2. LayoutOfStream /\ LayoutOfStream'
    BY <1>6, <2>1, LayoutOfDescriptor DEF UsableInv
  <2>3. asked > 1 => asked = Needed(file_meta'.name)
    BY <1>6, <2>1, <2>2, AskedStays DEF UsableInv
  <2>. QED  BY <1>6, <2>1, <2>2, <2>3 DEF UsableInv
<1>7. CASE IngestBad \/ IngestNull
  <2>1. /\ UNCHANGED <<sessionVars, abi, handle, asked>>
        /\ word'.complete = FALSE
        /\ handle = "live" => ~word'.good
    BY <1>7, EmptyWords DEF IngestBad, IngestNull, IngestError, Zero, Pack
  <2>2. word'.complete => word'.good
    BY <2>1
  <2>. QED
    BY <2>1, <2>2 DEF sessionVars, vars, layoutVars, decoderVars, arrivalVars,
                      UsableInv, LayoutOfStream, Complete
<1>8. CASE AskName \/ FetchName
  <2>1. /\ UNCHANGED <<sessionVars, abi, handle, word>>
        /\ abi # "rust"
        /\ asked' = 0 \/ asked' = asked \/ asked' = Needed(file_meta.name)
    BY <1>8 DEF AskName, FetchName, UsableInv
  <2>. QED
    BY <2>1 DEF sessionVars, vars, layoutVars, decoderVars, arrivalVars, UsableInv,
                LayoutOfStream, Complete
<1>9. BNext =>
        \/ UNCHANGED <<sessionVars, abi, handle, word, asked>>
        \/ Direct
        \/ abi # "rust" /\ Opened
        \/ abi # "rust" /\ Closed
        \/ \E f \in Frames : FromDescriptor(f)
        \/ abi # "rust" /\ \E f \in Frames : IngestWord(f)
        \/ IngestBad \/ IngestNull
        \/ AskName \/ FetchName
  BY DEF BNext, CreateC, CreateJava, CreateBrowser, CreateFromFrame, DestroyC, DestroyJava,
         DestroyBrowser, IngestC, IngestJava, IngestBrowser, Assemble, AssembleRaw,
         DecompressBytes, Granted, Failed, BufferFree
<1>. QED
  BY <1>1, <1>2, <1>3, <1>4, <1>5, <1>6, <1>7, <1>8, <1>9 DEF bindingVars, handleVars

\* A complete object is answered for from its own descriptor, in every binding.
LEMMA AnswersOfDescriptor ==
  ASSUME FilesAnnounced, UsableInv, abi # "rust", handle = "live", Complete
  PROVE  \E s \in Streams :
           /\ s.sid = sid /\ s.desc = "valid" /\ MetaOf(s) = meta
           /\ Answers.file = [name |-> s.file.name, size |-> s.file.size,
                              crc |-> s.file.crc, crc_known |-> TRUE]
           /\ Answers.codec = CodecOf(s.file)
           /\ Answers.segment = SegmentOf(s.file)
           /\ Answers.raw = s.file.codec.len
<1>1. PICK s \in Streams :
        s.sid = sid /\ s.desc = "valid" /\ MetaOf(s) = meta /\ file_meta = s.file
  BY DEF UsableInv, LayoutOfStream, Complete
<1>2. /\ s.file.crc # Null /\ s.file.codec # Null
      /\ s.file.codec.len \in 0..(Cardinality(Units(s.k)) * s.size)
  BY <1>1 DEF FilesAnnounced
<1>3. abi \in {"c", "jni", "wasm"}
  BY BindingsAssumption DEF UsableInv
<1>4. meta # NoMeta /\ meta.k = s.k /\ meta.size = s.size
  BY <1>1 DEF Complete, MetaOf
<1>5. Raw = s.file.codec.len
  <2>1. Padded = Cardinality(Units(s.k)) * s.size
    BY <1>4 DEF Padded, TotalSymbols
  <2>2. Padded \in Nat
    <3>1. MetaOf(s) \in Metas
      BY DEF Metas
    <3>2. Cardinality(Units(s.k)) \in Nat /\ s.size \in Nat
      BY <3>1, LayoutType, UnitsCount DEF MetaOf
    <3>. QED  BY <2>1, <3>2
  <2>3. ~(s.file.codec.len > Padded)
    BY <1>2, <2>1, <2>2
  <2>. QED  BY <1>1, <1>2, <2>3 DEF Raw
<1>6. /\ Answers.file = [name |-> s.file.name, size |-> s.file.size,
                         crc |-> s.file.crc, crc_known |-> TRUE]
      /\ Answers.codec = CodecOf(s.file)
      /\ Answers.segment = SegmentOf(s.file)
      /\ Answers.raw = Raw
  BY <1>1, <1>2, <1>3 DEF Answers, FileC, FileJava, FileBrowser, OrZero, CodecC,
     CodecJava, CodecBrowser, SegmentC, SegmentJava, SegmentBrowser, RawJava, RawBrowser
<1>. QED  BY <1>1, <1>5, <1>6

\* What a host is told of a complete object is true of it, in every binding.
THEOREM ToldIsUsable ==
  ASSUME FilesAnnounced PROVE BSpec => []CompleteIsUsable
<1>1. IInv /\ UsableInv => CompleteIsUsable
  <2> SUFFICES ASSUME IInv, UsableInv PROVE CompleteIsUsable
    OBVIOUS
  <2>1. SnapshotComplete = Complete
    BY CompletionsAgree
  <2>2. ToldComplete = Complete
    BY <2>1 DEF ToldComplete
  <2>3. abi # "rust" /\ handle = "live" /\ word.good => word.complete = Complete
    BY DEF UsableInv
  <2>4. abi # "rust" /\ handle = "live" /\ word.complete => Complete
    BY DEF UsableInv
  <2>5. asked > 1 => asked = Needed(file_meta.name)
    BY DEF UsableInv
  <2>. QED  BY <2>1, <2>2, <2>3, <2>4, <2>5, AnswersOfDescriptor DEF CompleteIsUsable
<1>2. Spec => []IInv
  BY InitIInv, StepIInv, PTL DEF Spec
<1>. QED  BY <1>1, <1>2, RunsTheSession, InitUsable, StepUsable, PTL DEF BSpec
=============================================================================
