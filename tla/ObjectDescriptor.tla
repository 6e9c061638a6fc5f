--------------------------- MODULE ObjectDescriptor ---------------------------
(***************************************************************************)
(* From the bytes of an object to the descriptor that announces it, and    *)
(* back: chunker.rs, config.rs, encoder.rs and meta.rs of the codec,       *)
(* descriptor.rs and segment.rs of core/transfer-engine, and the checks of *)
(* a descriptor in receiver.rs.                                            *)
(*                                                                         *)
(* Only what the sizes decide is kept.  Bytes are represented by their     *)
(* number, a digest by what it is computed from, and a payload by its      *)
(* length and the fields in it.  A name is a text of len bytes, all of     *)
(* whose characters take width bytes in UTF-8; on the wire it is the text  *)
(* and the number of bytes of it that are carried.                         *)
(***************************************************************************)
EXTENDS Naturals, FiniteSets, Functions

CONSTANTS
  MinSymbolSize, MaxSymbolSize,   (* MIN_SYMBOL_SIZE, MAX_SYMBOL_SIZE         *)
  MaxObjectBytes,                 (* MAX_OBJECT_BYTES                         *)
  MaxOriginalBytes,               (* MAX_ORIGINAL_BYTES                       *)
  MaxSegmentCount,                (* MAX_SEGMENT_COUNT                        *)
  MaxBlockSymbols,                (* MAX_SOURCE_SYMBOLS_PER_BLOCK             *)
  MaxTotalSymbols,                (* MAX_TOTAL_SOURCE_SYMBOLS                 *)
  Nothing                         (* no descriptor, no segment: None or Err   *)

ASSUME DescriptorAssumption ==
  /\ MinSymbolSize \in Nat \ {0} /\ MaxSymbolSize \in Nat
  /\ MinSymbolSize <= MaxSymbolSize /\ MaxSymbolSize < MaxObjectBytes
  /\ \A n \in {MaxObjectBytes, MaxOriginalBytes, MaxSegmentCount, MaxBlockSymbols,
               MaxTotalSymbols} : n \in Nat \ {0}

\* How the limits of the code relate: an object of symbols of any size has no more
\* symbols than allowed, they fit into the blocks that there may be, and an object
\* is no longer than a file may be (raptorq-core/src/meta.rs:6-27, config.rs:13).
ASSUME LimitsAssumption ==
  /\ MaxObjectBytes <= MaxTotalSymbols * MinSymbolSize
  /\ MaxTotalSymbols <= 255 * MaxBlockSymbols
  /\ MaxObjectBytes <= MaxOriginalBytes

AtMost(a, b) == IF a <= b THEN a ELSE b

----------------------------------------------------------------------------
(* Objects and their layout. *)

\* Config::new.
ValidSymbolSize(t) == t \in MinSymbolSize..MaxSymbolSize /\ (t % 8) = 0

\* pad_to_symbols: the length after padding.
Padded(n, t) == IF (n % t) = 0 THEN n ELSE n + (t - (n % t))

\* The block sizes that RaptorQ chooses (RFC 6330, section 4.4.1.2): as few
\* blocks as the limit on their size allows, the larger ones first.
Partition(symbols) ==
  LET z == (symbols + MaxBlockSymbols - 1) \div MaxBlockSymbols
  IN  [sbn \in 0..(z - 1) |-> symbols \div z + (IF sbn < (symbols % z) THEN 1 ELSE 0)]

Oti(n, t, k) == [transfer_length |-> n, symbol_size |-> t, source_blocks |-> Cardinality(DOMAIN k)]

\* Encoder::new and ObjectMeta::from_encoder, of n bytes in symbols of t.
MetaOf(n, t) ==
  LET k == Partition(n \div t)
  IN  [transfer_length |-> n, symbol_size |-> t, k |-> k, oti |-> Oti(n, t, k)]

Blocks(meta) == Cardinality(DOMAIN meta.k)
TotalSymbols(meta) == SumFunction(meta.k)

\* ObjectMeta::validate.  A block is K symbols long.
ValidMeta(meta) ==
  LET bytes == TotalSymbols(meta) * meta.symbol_size
  IN  /\ ValidSymbolSize(meta.symbol_size)
      /\ meta.oti = Oti(meta.transfer_length, meta.symbol_size, meta.k)
      /\ meta.transfer_length \in 1..MaxObjectBytes
      /\ Blocks(meta) \in 1..255
      /\ \A sbn \in DOMAIN meta.k : meta.k[sbn] \in 1..MaxBlockSymbols
      /\ TotalSymbols(meta) <= MaxTotalSymbols
      /\ bytes <= MaxObjectBytes + meta.symbol_size * Blocks(meta)
      /\ meta.transfer_length <= bytes

----------------------------------------------------------------------------
(* Segments of a large file. *)

\* Bug: no headroom is left for the padding of a full segment.
SegmentWithoutHeadroom == MaxObjectBytes

\* SEGMENT_RAW_BYTES.
SegmentRawBytes == MaxObjectBytes - MaxSymbolSize

\* expected_segment_count.
SegmentCount(size) == (size - 1) \div SegmentRawBytes + 1

\* segment_raw_len: the canonical length of a segment.
RawLen(size, index) ==
  LET offset == index * SegmentRawBytes
  IN  IF size <= offset THEN 0 ELSE AtMost(size - offset, SegmentRawBytes)

\* SessionId::derive_segment.
ChildId(root, index) == <<root, index>>

\* SegmentMeta::validate.
ValidSegment(segment, sid, file_meta) ==
  /\ segment.count \in 1..MaxSegmentCount
  /\ segment.index < segment.count
  /\ segment.root_size # 0
  /\ SegmentCount(segment.root_size) = segment.count
  /\ segment.offset = segment.index * SegmentRawBytes
  /\ segment.offset <= segment.root_size
  /\ file_meta.known
  /\ file_meta.compressed_size \in 1..RawLen(segment.root_size, segment.index)
  /\ sid = ChildId(segment.root, segment.index)

----------------------------------------------------------------------------
(* The payload of a descriptor. *)

\* DESC_FIXED_OVERHEAD, DESC_V2_TAIL_FIXED, DESC_V3_TAIL_FIXED and
\* DESC_SEGMENT_TAIL_FIXED.
Fixed       == 28
NameTail    == 13
CodecTail   == 9
SegmentTail == 104

\* Versions of the payload: without a segment, with the legacy one, and with one.
Single    == 3
LegacyV4  == 4
Segmented == 5

\* What a descriptor of some version takes, with so many blocks and bytes of name.
BodyLength(version, blocks, name_len) ==
  Fixed + 16 * blocks
    + (IF version >= 2 THEN NameTail + name_len ELSE 0)
    + (IF version >= Single THEN CodecTail ELSE 0)
    + (IF version = Segmented THEN SegmentTail ELSE 0)

\* The bytes of the name that fit: no character is split.
NameFitting(name, version, blocks, t) ==
  LET others == BodyLength(version, blocks, 0)
      room   == AtMost(255, IF t < others THEN 0 ELSE t - others)
      bytes  == AtMost(name.len, room)
  IN  [text |-> name.text, len |-> bytes - (bytes % name.width)]

\* build_payload_inner: Nothing if the descriptor does not fit into a symbol.
Payload(meta, file_meta, segment) ==
  LET version == IF segment = Nothing THEN Single ELSE Segmented
      name    == NameFitting(file_meta.name, version, Blocks(meta), meta.symbol_size)
  IN  IF BodyLength(version, Blocks(meta), name.len) > meta.symbol_size THEN Nothing
      ELSE [len |-> meta.symbol_size, version |-> version, meta |-> meta,
            file_meta |-> [file_meta EXCEPT !.name = name], segment |-> segment]

\* FileMeta::default.
NoFileMeta ==
  [name |-> [text |-> "", len |-> 0], original_size |-> 0, crc |-> Nothing,
   compression |-> "none", compressed_size |-> 0, known |-> FALSE]

\* Bug: the fields of the third version are read from the padding of the second.
FileMetaOfPadding(p) ==
  IF p.version = 1 THEN NoFileMeta
  ELSE IF p.version >= Single THEN p.file_meta
  ELSE [p.file_meta EXCEPT !.compression = "none", !.compressed_size = 0]

\* The file's part of a payload, in parse_payload.
FileMetaOf(p) ==
  IF p.version = 1 THEN NoFileMeta
  ELSE IF p.version >= Single THEN p.file_meta
  ELSE [p.file_meta EXCEPT !.compression = "none",
                           !.compressed_size = p.file_meta.original_size]

\* parse_payload.
Parse(p) ==
  IF \/ p.version \notin 1..Segmented \/ p.version = LegacyV4
     \/ p.len < BodyLength(p.version, Blocks(p.meta), p.file_meta.name.len)
  THEN Nothing
  ELSE [meta |-> p.meta, file_meta |-> FileMetaOf(p),
        segment |-> IF p.version = Segmented THEN p.segment ELSE Nothing]

\* build_frame, build_segment_frame: the header goes with the payload.
Frame(sid, p) ==
  [session_id |-> sid, symbol_size |-> p.meta.symbol_size,
   total_blocks |-> Blocks(p.meta), total_symbols |-> TotalSymbols(p.meta), payload |-> p]

\* The checks of a parsed descriptor in ReceiverSession::ingest.
Admissible(frame, info) ==
  /\ ValidMeta(info.meta)
  /\ frame.symbol_size = info.meta.symbol_size
  /\ frame.total_blocks = Blocks(info.meta)
  /\ frame.total_symbols = TotalSymbols(info.meta)
  /\ info.file_meta.compression \in {"none", "zstd", "xz"}
  /\ info.segment = Nothing => info.file_meta.original_size <= MaxOriginalBytes
  /\ info.file_meta.known => info.file_meta.compressed_size <= info.meta.transfer_length
  /\ ~(/\ info.segment = Nothing
       /\ info.file_meta.compression # "none" /\ info.file_meta.original_size = 0)
  /\ info.segment # Nothing => ValidSegment(info.segment, frame.session_id, info.file_meta)

\* What the receiver makes of a descriptor frame.
Received(frame) ==
  LET info == Parse(frame.payload)
  IN  IF info = Nothing THEN Nothing
      ELSE IF Admissible(frame, info) THEN info ELSE Nothing
=============================================================================
