-------------------------- MODULE ReceiverSession --------------------------
(***************************************************************************)
(* The receiver half of the engine: ReceiverSession of                     *)
(* core/transfer-engine/src/receiver.rs, with the RaptorQ Decoder of       *)
(* core/raptorq-core/src/decoder.rs inside it.                             *)
(*                                                                         *)
(* A receiver is bound to one session id.  It is handed frames read off    *)
(* whatever screen the camera sees, in any order and any number of times,  *)
(* and recovers the object block by block: data frames wait in             *)
(* symbol_cache until a descriptor tells the layout of the object, and go  *)
(* to the decoder afterwards.                                              *)
(*                                                                         *)
(* A stream is what one sender session puts on its screen: the record      *)
(*   sid   session id, computed from the file's name, size, mtime and the  *)
(*         first and last KiB, but not from the symbol size                *)
(*   size  symbol size, the length of every payload of the stream          *)
(*   k     number of source symbols K of each block, indexed by sbn        *)
(*   enc   the bytes that are encoded: two streams with the same enc, size *)
(*         and k send the same symbols                                     *)
(*   file  file and segment metadata in its descriptors                    *)
(*   desc  what the receiver makes of its descriptors: "valid", "invalid"  *)
(*         (metadata outside the receiver's limits) or "unparseable"       *)
(*         (another descriptor version)                                    *)
(***************************************************************************)
EXTENDS Naturals, FiniteSets

CONSTANTS
  Streams,      (* the streams the camera may see                             *)
  EsiLimit,     (* 2^24 in the code                                           *)
  MaxEsi,       (* bound: largest ESI of a frame                              *)
  Overhead,     (* symbols beyond K with which the solver always succeeds     *)
  CacheBudget,  (* PRE_META_CACHE_BYTES_BUDGET                                *)
  EntryFloor,   (* PRE_META_CACHE_BYTES_PER_ENTRY                             *)
  NoMeta,       (* None of Option<ObjectMeta>                                 *)
  NoFile,       (* FileMeta::default()                                        *)
  NoCheckpoint, (* no ResumeState was saved                                   *)
  MaxFrames,    (* bound: frames ingested by one session                      *)
  MaxStreak     (* bound: consecutive frames of other sessions                *)

StreamRecord(s) ==
  /\ DOMAIN s = {"sid", "size", "k", "enc", "file", "desc"}
  /\ s.size \in Nat \ {0}
  /\ DOMAIN s.k # {}
  /\ IsFiniteSet(DOMAIN s.k)
  /\ DOMAIN s.k = 0..(Cardinality(DOMAIN s.k) - 1)
  /\ s.k \in [DOMAIN s.k -> Nat \ {0}]
  /\ s.desc \in {"valid", "invalid", "unparseable"}

\* ObjectMeta: equality of the code's struct is equality of size and layout.
MetaOf(s) == [size |-> s.size, k |-> s.k]
Metas     == {MetaOf(s) : s \in Streams}
Sids      == {s.sid : s \in Streams}
Esis      == 0..MaxEsi

ASSUME ReceiverAssumption ==
  /\ \A s \in Streams : StreamRecord(s)
  /\ NoMeta \notin Metas
  /\ EsiLimit \in Nat /\ MaxEsi \in Nat /\ Overhead \in Nat
  /\ MaxFrames \in Nat /\ MaxStreak \in Nat
  /\ CacheBudget \in Nat \ {0} /\ EntryFloor \in Nat \ {0}

\* The payload of a data frame: which symbol of which encoding it is.
Symbol(s, sbn, esi) == [enc |-> s.enc, size |-> s.size, sbn |-> sbn, esi |-> esi]
Symbols ==
  UNION {{Symbol(s, sbn, esi) : sbn \in DOMAIN s.k, esi \in Esis} : s \in Streams}

Descriptor(s)         == [kind |-> "descriptor", stream |-> s, sbn |-> 0, esi |-> 0]
DataFrame(s, sbn, esi) == [kind |-> "data", stream |-> s, sbn |-> sbn, esi |-> esi]
Frames ==
  {Descriptor(s) : s \in Streams}
    \cup UNION {{DataFrame(s, sbn, esi) : sbn \in DOMAIN s.k, esi \in Esis} :
                s \in Streams}

VARIABLES
  sid,               (* session_id the receiver was created for               *)
  meta,              (* meta: Option<ObjectMeta>                              *)
  meta_confirmed,
  descriptor_seen,
  file_meta,         (* file_meta and segment_meta                            *)
  received,          (* per block, the ESIs counted as received               *)
  source_recv,       (* per block, the incremental count of source symbols    *)
  offered,           (* per block, the symbols passed to Decoder::add_symbol  *)
  decoded,           (* per block, whether the decoder has recovered it       *)
  symbol_cache,      (* (sbn, esi) -> payload, before the layout is known     *)
  frames_seen, frames_duplicate, frames_corrupt,
  received_symbols, decoded_symbols, (* progress counters                     *)
  session_mismatch_streak,
  descriptors_used,  (* history: descriptors adopted or equal to the adopted  *)
  checkpoint         (* the last ResumeState saved                            *)

layoutVars == <<meta, meta_confirmed, descriptor_seen, file_meta>>
decoderVars == <<received, source_recv, offered, decoded>>
counterVars == <<frames_duplicate, frames_corrupt, received_symbols,
                 decoded_symbols, descriptors_used>>
arrivalVars == <<sid, frames_seen, session_mismatch_streak>>
vars == <<layoutVars, decoderVars, counterVars, arrivalVars, symbol_cache, checkpoint>>

----------------------------------------------------------------------------
(* Derived quantities. *)

\* One element per unit of a count kept per block: its cardinality is the sum.
Units(count) == UNION {{b} \X (0..(count[b] - 1)) : b \in DOMAIN count}

Entries(sets) == UNION {{b} \X sets[b] : b \in DOMAIN sets}

TotalSymbols == IF meta = NoMeta THEN 0 ELSE Cardinality(Units(meta.k))

Complete == meta # NoMeta /\ \A b \in DOMAIN meta.k : decoded[b]

\* Bug: a decoded block counts for what was received of it.
DecodedCountReceivedOnly(k, src, dec) ==
  Cardinality(Units([b \in DOMAIN k |-> src[b]]))

\* decoded_symbols of refresh_decoded_counts: all K of a decoded block, else
\* the source symbols received, at most K.
DecodedCount(k, src, dec) ==
  Cardinality(Units(
    [b \in DOMAIN k |-> IF dec[b] \/ src[b] > k[b] THEN k[b] ELSE src[b]]))

PerEntry(size) == IF size > EntryFloor THEN size ELSE EntryFloor

\* pre_meta_cache_max: budget / per-entry cost, rounded up.
CacheMax(size) == (CacheBudget + PerEntry(size) - 1) \div PerEntry(size)

NoBlocks == [b \in {} |-> {}]

\* The upstream solver, as Decoder::add_symbol uses it: fewer than K symbols of
\* a block never decode it; all its source symbols, or K + Overhead symbols,
\* always do; in between either may happen.
Outcomes(k, esis) ==
  {recovered \in BOOLEAN :
     /\ recovered => Cardinality(esis) >= k
     /\ ((0..(k - 1)) \subseteq esis \/ Cardinality(esis) >= k + Overhead) => recovered}

\* Bug: the length of a payload is not compared with the symbol size.
FitsAnyLength(m, sbn, esi, size) == sbn \in DOMAIN m.k /\ esi < EsiLimit

\* The checks that a symbol must pass to reach the decoder.
Fits(m, sbn, esi, size) == sbn \in DOMAIN m.k /\ esi < EsiLimit /\ size = m.size

----------------------------------------------------------------------------
(* The session's life before the first frame. *)

Init ==
  /\ sid \in Sids
  /\ meta = NoMeta
  /\ meta_confirmed = FALSE
  /\ descriptor_seen = FALSE
  /\ file_meta = NoFile
  /\ received = NoBlocks
  /\ source_recv = NoBlocks
  /\ offered = NoBlocks
  /\ decoded = NoBlocks
  /\ symbol_cache = NoBlocks
  /\ frames_seen = 0
  /\ frames_duplicate = 0
  /\ frames_corrupt = 0
  /\ received_symbols = 0
  /\ decoded_symbols = 0
  /\ session_mismatch_streak = 0
  /\ descriptors_used = 0
  /\ checkpoint = NoCheckpoint

----------------------------------------------------------------------------
(* ingest, one action per outcome. *)

\* A frame of another session changes nothing but the streak.
SessionMismatch(f) ==
  /\ f.stream.sid # sid
  /\ session_mismatch_streak < MaxStreak
  /\ session_mismatch_streak' = session_mismatch_streak + 1
  /\ UNCHANGED <<sid, frames_seen, layoutVars, decoderVars, counterVars,
                 symbol_cache, checkpoint>>

Seen(f, kind) ==
  /\ f.kind = kind
  /\ f.stream.sid = sid
  /\ frames_seen < MaxFrames
  /\ frames_seen' = frames_seen + 1
  /\ session_mismatch_streak' = 0
  /\ UNCHANGED <<sid, checkpoint>>

CountCorrupt ==
  /\ frames_corrupt' = frames_corrupt + 1
  /\ UNCHANGED <<frames_duplicate, received_symbols, decoded_symbols, descriptors_used>>

CountDuplicate ==
  /\ frames_duplicate' = frames_duplicate + 1
  /\ UNCHANGED <<frames_corrupt, received_symbols, decoded_symbols, descriptors_used>>

CountDescriptor ==
  /\ descriptors_used' = descriptors_used + 1
  /\ UNCHANGED <<frames_duplicate, frames_corrupt, received_symbols, decoded_symbols>>

RejectDescriptor(f) ==
  /\ Seen(f, "descriptor")
  /\ f.stream.desc # "valid"
  /\ CountCorrupt
  /\ UNCHANGED <<layoutVars, decoderVars, symbol_cache>>

SameDescriptor(s) == meta = MetaOf(s) /\ file_meta = s.file

\* Bug: a later descriptor of the same layout replaces the file metadata.
RepeatedDescriptorReplaces(f) ==
  /\ Seen(f, "descriptor")
  /\ f.stream.desc = "valid"
  /\ descriptor_seen
  /\ IF meta = MetaOf(f.stream)
     THEN file_meta' = f.stream.file /\ CountDescriptor
     ELSE UNCHANGED file_meta /\ CountCorrupt
  /\ UNCHANGED <<meta, meta_confirmed, descriptor_seen, decoderVars, symbol_cache>>

\* Bug: a descriptor of another layout restarts the decoder.
RepeatedDescriptorRestarts(f) ==
  /\ Seen(f, "descriptor")
  /\ f.stream.desc = "valid"
  /\ descriptor_seen
  /\ IF SameDescriptor(f.stream)
     THEN UNCHANGED <<meta, decoderVars>> /\ CountDescriptor
     ELSE /\ meta' = MetaOf(f.stream)
          /\ received' = [b \in DOMAIN f.stream.k |-> {}]
          /\ offered' = [b \in DOMAIN f.stream.k |-> {}]
          /\ source_recv' = [b \in DOMAIN f.stream.k |-> 0]
          /\ decoded' = [b \in DOMAIN f.stream.k |-> FALSE]
          /\ CountCorrupt
  /\ UNCHANGED <<meta_confirmed, descriptor_seen, file_meta, symbol_cache>>

\* Bug: every descriptor is applied again, with a fresh decoder.
RepeatedDescriptorReapplies(f) ==
  /\ Seen(f, "descriptor")
  /\ f.stream.desc = "valid"
  /\ descriptor_seen
  /\ CountDescriptor
  /\ received' = [b \in DOMAIN received |-> {}]
  /\ offered' = [b \in DOMAIN received |-> {}]
  /\ source_recv' = [b \in DOMAIN received |-> 0]
  /\ decoded' = [b \in DOMAIN received |-> FALSE]
  /\ UNCHANGED <<layoutVars, symbol_cache>>

\* Once a descriptor was accepted, another one is ignored, and counted corrupt
\* when it differs.
RepeatedDescriptor(f) ==
  /\ Seen(f, "descriptor")
  /\ f.stream.desc = "valid"
  /\ descriptor_seen
  /\ IF SameDescriptor(f.stream) THEN CountDescriptor ELSE CountCorrupt
  /\ UNCHANGED <<layoutVars, decoderVars, symbol_cache>>

\* Bug: the layout is adopted without the symbols cached before it.
ReplayableNone(m, cache) == {}

\* The cached symbols that fit the layout m.
Replayable(m, cache) == {key \in DOMAIN cache : Fits(m, key[1], key[2], cache[key].size)}

\* A fresh decoder for layout m, fed with the cached symbols that fit it.
Replay(m, cache) ==
  /\ meta' = m
  /\ received' = [b \in DOMAIN m.k |->
                    {key[2] : key \in {x \in Replayable(m, cache) : x[1] = b}}]
  /\ offered' = [b \in DOMAIN m.k |->
                   {cache[key] : key \in {x \in Replayable(m, cache) : x[1] = b}}]
  /\ source_recv' = [b \in DOMAIN m.k |->
                       Cardinality({esi \in received'[b] : esi < m.k[b]})]
  /\ decoded' \in [DOMAIN m.k -> BOOLEAN]
  /\ \A b \in DOMAIN m.k : decoded'[b] \in Outcomes(m.k[b], received'[b])
  /\ received_symbols' = Cardinality(Entries(received'))
  /\ decoded_symbols' = DecodedCount(m.k, source_recv', decoded')

\* Bug: symbols dropped during the replay are not counted.
DroppedUncounted(m, cache) == 0

\* The cached symbols that do not fit, each counted corrupt by apply_meta.
Dropped(m, cache) == Cardinality(DOMAIN cache \ Replayable(m, cache))

\* The first valid descriptor of a session created from a frame.
AdoptDescriptor(f) ==
  /\ Seen(f, "descriptor")
  /\ f.stream.desc = "valid"
  /\ ~descriptor_seen
  /\ meta = NoMeta
  /\ Replay(MetaOf(f.stream), symbol_cache)
  /\ frames_corrupt' = frames_corrupt + Dropped(MetaOf(f.stream), symbol_cache)
  /\ descriptors_used' = descriptors_used + 1
  /\ meta_confirmed' = TRUE
  /\ descriptor_seen' = TRUE
  /\ file_meta' = f.stream.file
  /\ symbol_cache' = NoBlocks
  /\ UNCHANGED frames_duplicate

\* The first valid descriptor of a restored session: it brings the file
\* metadata if its layout is the restored one.
ConfirmRestored(f) ==
  /\ Seen(f, "descriptor")
  /\ f.stream.desc = "valid"
  /\ ~descriptor_seen
  /\ meta # NoMeta
  /\ IF meta = MetaOf(f.stream)
     THEN /\ descriptor_seen' = TRUE
          /\ file_meta' = f.stream.file
          /\ CountDescriptor
     ELSE /\ CountCorrupt
          /\ UNCHANGED <<descriptor_seen, file_meta>>
  /\ UNCHANGED <<meta, meta_confirmed, decoderVars, symbol_cache>>

CacheHasRoom(size) == Cardinality(DOMAIN symbol_cache) < CacheMax(size)

\* A data frame before the layout is known: the first copy of a symbol is kept.
CacheSymbol(f) ==
  LET key == <<f.sbn, f.esi>>
  IN  /\ Seen(f, "data")
      /\ ~meta_confirmed
      /\ \/ /\ key \in DOMAIN symbol_cache
            /\ frames_duplicate' = frames_duplicate + 1
            /\ UNCHANGED <<symbol_cache, frames_corrupt>>
         \/ /\ key \notin DOMAIN symbol_cache
            /\ ~CacheHasRoom(f.stream.size)
            /\ frames_corrupt' = frames_corrupt + 1
            /\ UNCHANGED <<symbol_cache, frames_duplicate>>
         \/ /\ key \notin DOMAIN symbol_cache
            /\ CacheHasRoom(f.stream.size)
            /\ symbol_cache' =
                 [x \in DOMAIN symbol_cache \cup {key} |->
                    IF x = key THEN Symbol(f.stream, f.sbn, f.esi) ELSE symbol_cache[x]]
            /\ UNCHANGED <<frames_duplicate, frames_corrupt>>
      /\ received_symbols' = Cardinality(DOMAIN symbol_cache')
      /\ decoded_symbols' = 0
      /\ UNCHANGED <<layoutVars, decoderVars, descriptors_used>>

\* Bug: the ESI is recorded as received before the symbol is checked.
RejectSymbolTooLate(f) ==
  /\ Seen(f, "data")
  /\ meta_confirmed
  /\ ~Fits(meta, f.sbn, f.esi, f.stream.size)
  /\ CountCorrupt
  /\ received' = IF f.sbn \in DOMAIN meta.k
                 THEN [received EXCEPT ![f.sbn] = @ \cup {f.esi}] ELSE received
  /\ UNCHANGED <<layoutVars, source_recv, offered, decoded, symbol_cache>>

\* A symbol of another layout, or outside the ESI space.
RejectSymbol(f) ==
  /\ Seen(f, "data")
  /\ meta_confirmed
  /\ ~Fits(meta, f.sbn, f.esi, f.stream.size)
  /\ CountCorrupt
  /\ UNCHANGED <<layoutVars, decoderVars, symbol_cache>>

\* Nothing is recorded any more once the object is complete.
UselessSymbol(f) ==
  /\ Seen(f, "data")
  /\ meta_confirmed
  /\ Fits(meta, f.sbn, f.esi, f.stream.size)
  /\ Complete \/ f.esi \in received[f.sbn]
  /\ CountDuplicate
  /\ UNCHANGED <<layoutVars, decoderVars, symbol_cache>>

NewSymbol(f) ==
  /\ Seen(f, "data")
  /\ meta_confirmed
  /\ Fits(meta, f.sbn, f.esi, f.stream.size)
  /\ ~Complete
  /\ f.esi \notin received[f.sbn]
  /\ received' = [received EXCEPT ![f.sbn] = @ \cup {f.esi}]
  /\ source_recv' = IF f.esi < meta.k[f.sbn]
                    THEN [source_recv EXCEPT ![f.sbn] = @ + 1] ELSE source_recv
  /\ offered' = [offered EXCEPT ![f.sbn] = @ \cup {Symbol(f.stream, f.sbn, f.esi)}]
  /\ \E recovered \in Outcomes(meta.k[f.sbn], received'[f.sbn]) :
       decoded' = [decoded EXCEPT ![f.sbn] = @ \/ recovered]
  /\ received_symbols' = received_symbols + 1
  /\ decoded_symbols' = DecodedCount(meta.k, source_recv', decoded')
  /\ UNCHANGED <<layoutVars, symbol_cache, frames_duplicate, frames_corrupt,
                 descriptors_used>>

Ingest(f) ==
  \/ SessionMismatch(f)
  \/ RejectDescriptor(f)
  \/ RepeatedDescriptor(f)
  \/ AdoptDescriptor(f)
  \/ ConfirmRestored(f)
  \/ CacheSymbol(f)
  \/ RejectSymbol(f)
  \/ UselessSymbol(f)
  \/ NewSymbol(f)

----------------------------------------------------------------------------
(* Checkpoints. *)

\* Bug: a session that does not know its layout is saved too.
SaveStateUnknown ==
  /\ checkpoint' = [sid |-> sid, meta |-> meta, symbols |-> symbol_cache]
  /\ UNCHANGED <<layoutVars, decoderVars, counterVars, arrivalVars, symbol_cache>>

\* save_state: the layout, and the payloads still in symbol_cache.
SaveState ==
  /\ meta # NoMeta
  /\ checkpoint' = [sid |-> sid, meta |-> meta, symbols |-> symbol_cache]
  /\ UNCHANGED <<layoutVars, decoderVars, counterVars, arrivalVars, symbol_cache>>

\* The process ends and a new one calls restore on the saved state.
Restore ==
  /\ checkpoint # NoCheckpoint
  /\ sid' = checkpoint.sid
  /\ Replay(checkpoint.meta, checkpoint.symbols)
  /\ meta_confirmed' = TRUE
  /\ descriptor_seen' = FALSE
  /\ file_meta' = NoFile
  /\ symbol_cache' = NoBlocks
  /\ frames_seen' = 0
  /\ frames_duplicate' = 0
  /\ frames_corrupt' = 0
  /\ session_mismatch_streak' = 0
  /\ descriptors_used' = 0
  /\ UNCHANGED checkpoint

Next == (\E f \in Frames : Ingest(f)) \/ SaveState \/ Restore

Spec == Init /\ [][Next]_vars

----------------------------------------------------------------------------
(* Properties. *)

\* Each variable keeps its type.  In particular the layout is known exactly
\* when it is confirmed, so a checkpoint never holds a symbol (save_state).
TypeOK ==
  /\ sid \in Sids
  /\ meta \in Metas \cup {NoMeta}
  /\ meta_confirmed = (meta # NoMeta)
  /\ descriptor_seen \in BOOLEAN
  /\ descriptor_seen => meta_confirmed
  /\ file_meta \in {s.file : s \in Streams} \cup {NoFile}
  /\ LET B == IF meta = NoMeta THEN {} ELSE DOMAIN meta.k
     IN  /\ received \in [B -> SUBSET Esis]
         /\ source_recv \in [B -> Nat]
         /\ offered \in [B -> SUBSET Symbols]
         /\ decoded \in [B -> BOOLEAN]
  /\ IsFiniteSet(DOMAIN symbol_cache)
  /\ \A key \in DOMAIN symbol_cache :
       /\ symbol_cache[key] \in Symbols
       /\ key = <<symbol_cache[key].sbn, symbol_cache[key].esi>>
  /\ frames_seen \in Nat /\ frames_duplicate \in Nat /\ frames_corrupt \in Nat
  /\ received_symbols \in Nat /\ decoded_symbols \in Nat
  /\ session_mismatch_streak \in Nat /\ descriptors_used \in Nat
  /\ checkpoint = NoCheckpoint
       \/ checkpoint \in [sid : Sids, meta : Metas, symbols : {NoBlocks}]

\* What the session id is trusted with: it covers the bytes that are sent, but
\* for the symbol size.  (session::derive hashes the first and last KiB only,
\* so this is an assumption on the files, not something the code establishes.)
SizeTellsEncoding ==
  \A s, t \in Streams :
    s.sid = t.sid /\ s.size = t.size => s.enc = t.enc /\ s.k = t.k

\* The decoder is only ever given symbols of one encoding of the object whose
\* descriptor was adopted, each in its own block: not one cached before the
\* layout was known, nor one of a re-send at another symbol size, gets through
\* (receiver.rs:349-384, 452-475).
NoMixing ==
  meta # NoMeta =>
    \A b \in DOMAIN meta.k : \A p \in offered[b] :
      /\ p.sbn = b
      /\ p.esi < EsiLimit
      /\ \E s \in Streams : s.sid = sid /\ MetaOf(s) = meta /\ p.enc = s.enc

\* An ESI counts as received exactly when a payload for it reached the decoder:
\* otherwise its retransmission would be thrown away as a duplicate and the
\* symbol lost for good (receiver.rs:403-427, 645-650).
OfferedIsReceived ==
  meta # NoMeta =>
    \A b \in DOMAIN meta.k : received[b] = {p.esi : p \in offered[b]}

\* Every frame of the session is accounted for once: a descriptor that was
\* used, a duplicate, a corrupt one or a symbol held.  The user reads these
\* counters to tell a dead link from a wrong screen (progress.rs:30-58).
FrameAccounting ==
  frames_seen = descriptors_used + frames_duplicate + frames_corrupt + received_symbols

\* The progress shown to the user: it never exceeds the total, reaches it
\* exactly on completion, and a block is not recovered from less than K
\* symbols (refresh_decoded_counts).
ProgressHonest ==
  meta # NoMeta =>
    /\ decoded_symbols <= TotalSymbols
    /\ decoded_symbols = TotalSymbols <=> Complete
    /\ \A b \in DOMAIN meta.k :
         /\ source_recv[b] = Cardinality(received[b] \cap 0..(meta.k[b] - 1))
         /\ decoded[b] => Cardinality(received[b]) >= meta.k[b]

\* Until the process restarts: the first descriptor accepted stays.  No other
\* stream of the same id changes the layout, the file name or the checksum
\* that the object will be assembled with (receiver.rs:307-315).
DescriptorImmutable ==
  [][descriptor_seen /\ ~Restore =>
       UNCHANGED <<sid, meta, descriptor_seen, file_meta>>]_vars

\* Until the process restarts: what was received and recovered after the
\* layout is known is never lost, whatever the screen shows next.
MonotoneProgress ==
  [][meta_confirmed /\ ~Restore =>
       /\ DOMAIN received = DOMAIN received'
       /\ \A b \in DOMAIN received :
            received[b] \subseteq received'[b] /\ (decoded[b] => decoded'[b])
       /\ decoded_symbols <= decoded_symbols']_vars

\* Documented (receiver.rs:18-23, 56-59): the payloads kept before the layout
\* is known stay within the byte budget, up to the rounding of one entry.
CacheWithinBudget ==
  LET cost == [key \in DOMAIN symbol_cache |-> PerEntry(symbol_cache[key].size)]
  IN  \A key \in DOMAIN symbol_cache :
        Cardinality(Units([x \in DOMAIN cost \ {key} |-> cost[x]])) < CacheBudget
============================================================================
