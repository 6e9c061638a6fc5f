--------------------------- MODULE SegmentAssembly ---------------------------
(***************************************************************************)
(* Large files from end to end: senders cut them into segments and         *)
(* announce each with a descriptor (CffiSender of core/transfer-engine/src *)
(* /cffi.rs, SenderSessionWasm of wasm.rs; ObjectDescriptor.tla), and      *)
(* TransferAssembler (assembler.rs) puts them together again.              *)
(*                                                                         *)
(* Each segment travels as an object of its own (ReceiverSession.tla).     *)
(* The host hands what it recovered to the assembler, in the order in      *)
(* which it comes in, some of it twice.  The root id of a file covers its  *)
(* name, size, mtime and the first and last KiB, so that two revisions of  *)
(* a file may share it: the bytes recovered, those of whatever had the     *)
(* session id, need not be the ones that the descriptor is about.          *)
(*                                                                         *)
(* The data of a file is a function from the indices of its segments to    *)
(* what they contain.  A piece is the first len bytes of one of them.  A   *)
(* SHA-256 or CRC32 is modelled by what it is computed from.               *)
(***************************************************************************)
EXTENDS ObjectDescriptor

CONSTANTS
  Files,             (* files and revisions of files that may be sent         *)
  SymbolSizes,       (* the symbol sizes asked for                            *)
  MaxInMemory,       (* MAX_IN_MEMORY_ASSEMBLY_BYTES                          *)
  NoSender,          (* the user has no sender                                *)
  NoRoot             (* the host has no assembler yet                         *)

Segments(f) == 0..(SegmentCount(f.size) - 1)

ASSUME AssemblyAssumption ==
  /\ \A f \in Files :
       /\ DOMAIN f = {"root", "name", "size", "data"}
       /\ f.size \in Nat \ {0}
       /\ f.data = [index \in Segments(f) |-> f.data[index]]
       /\ f.name.len \in Nat \ {0} /\ f.name.width \in Nat \ {0}
  /\ \A f, g \in Files : f.root = g.root => f.size = g.size /\ f.name = g.name
  /\ MaxInMemory \in Nat

VARIABLES
  sending,         (* what the sender at the other end plays                  *)
  root,            (* what the assembler took from the first descriptor       *)
  segments,        (* the pieces stored, by index                             *)
  meta,            (* the segment descriptors they came with                  *)
  received_count,
  arrived          (* history: the segments of root that were handed over     *)

assembler == <<root, segments, meta, received_count, arrived>>
vars == <<sending, assembler>>

Piece(f, index, len) == [data |-> f.data[index], len |-> len]
Slice(f, index) == Piece(f, index, RawLen(f.size, index))

----------------------------------------------------------------------------
(* Senders. *)

FileMeta(f, len, compression) ==
  [name |-> f.name, original_size |-> f.size, crc |-> f.data,
   compression |-> compression, compressed_size |-> len, known |-> TRUE]

SegmentMeta(f, index, len) ==
  [root |-> f.root, index |-> index, count |-> SegmentCount(f.size),
   offset |-> index * SegmentRawBytes, root_size |-> f.size,
   root_sha |-> f.data, raw_sha |-> Piece(f, index, len)]

\* SenderSession::new and new_inner, as far as they can fail.
WholeFrame(f, t, compression) ==
  LET p == Payload(MetaOf(Padded(f.size, t), t), FileMeta(f, f.size, compression), Nothing)
  IN  IF p = Nothing THEN Nothing ELSE Frame(f.root, p)

\* SenderSession::new_segment.
SegmentFrame(f, t, index, len, compression) ==
  LET sid     == ChildId(f.root, index)
      fm      == FileMeta(f, len, compression)
      segment == SegmentMeta(f, index, len)
      p       == Payload(MetaOf(Padded(len, t), t), fm, segment)
  IN  IF ValidSegment(segment, sid, fm) /\ p # Nothing THEN Frame(sid, p) ELSE Nothing

\* build_session.
Session(f, t, index) ==
  IF SegmentCount(f.size) <= 1 THEN WholeFrame(f, t, "none")
  ELSE SegmentFrame(f, t, index, RawLen(f.size, index), "none")

Sending(by, f, t, index, frame) ==
  [by |-> by, file |-> f, symbol_size |-> t, index |-> index, frame |-> frame]

\* CffiSender::new, when it returns a sender.  Its config.validate() also
\* refuses a share of repair symbols out of range; the app asks for 5 percent, which
\* is within it, and nothing here depends on the share.
Create(f, t) ==
  /\ sending = NoSender
  /\ f.size <= MaxOriginalBytes
  /\ ValidSymbolSize(t)
  /\ Session(f, t, 0) # Nothing
  /\ sending' = Sending("native", f, t, 0, Session(f, t, 0))
  /\ UNCHANGED assembler

\* CffiSender::new, when it returns null.
CreateFails(f, t) ==
  /\ sending = NoSender
  /\ \/ f.size > MaxOriginalBytes
     \/ ~ValidSymbolSize(t)
     \/ Session(f, t, 0) = Nothing
  /\ UNCHANGED vars

\* CffiSender::select_segment.
SelectSegment(index) ==
  /\ sending # NoSender /\ sending.by = "native"
  /\ index \in Segments(sending.file)
  /\ LET frame == Session(sending.file, sending.symbol_size, index)
     IN  IF frame = Nothing THEN UNCHANGED sending
         ELSE sending' = [sending EXCEPT !.index = index, !.frame = frame]
  /\ UNCHANGED assembler

\* SenderSessionWasm::new_segment: a page may play a shorter piece, of a file of
\* any size, but one that was compressed.
NewSegment(f, t, index, len) ==
  /\ sending = NoSender
  /\ ValidSymbolSize(t)
  /\ LET frame == SegmentFrame(f, t, index, len, "zstd")
     IN  /\ frame # Nothing
         /\ sending' = Sending("browser", f, t, index, frame)
  /\ UNCHANGED assembler

\* A sender of an earlier release, without segments: what it puts into a payload
\* of its version.
OldSender(f, t, version) ==
  /\ sending = NoSender
  /\ SegmentCount(f.size) = 1
  /\ ValidSymbolSize(t)
  /\ WholeFrame(f, t, "none") # Nothing
  /\ sending' = Sending("old", f, t, 0,
                        [WholeFrame(f, t, "none") EXCEPT !.payload.version = version])
  /\ UNCHANGED assembler

\* The sender is closed.
Close ==
  /\ sending # NoSender
  /\ sending' = NoSender
  /\ UNCHANGED assembler

----------------------------------------------------------------------------
(* TransferAssembler. *)

\* What may have been recovered under a descriptor: its segment, or that of
\* another revision with the same root id.
Recoverable(m, len) == {Piece(g, m.index, len) : g \in {h \in Files : h.root = m.root}}

NoSegments == [index \in {} |-> Nothing]

Init ==
  /\ sending = NoSender
  /\ root = NoRoot
  /\ segments = NoSegments
  /\ meta = NoSegments
  /\ received_count = 0
  /\ arrived = {}

\* validate_segment_range.
ValidRange(m, len, root_size) ==
  /\ m.count \in 1..MaxSegmentCount
  /\ SegmentCount(root_size) = m.count
  /\ m.index < m.count
  /\ m.root_size = root_size
  /\ m.offset = m.index * SegmentRawBytes
  /\ len <= RawLen(root_size, m.index)

RootOf(m, fm) ==
  [id |-> m.root, name |-> fm.name, size |-> m.root_size, sha |-> m.root_sha, count |-> m.count]

\* TransferAssembler::new, from the descriptor of the first segment recovered.
Open(m, fm) ==
  /\ root = NoRoot
  /\ ValidRange(m, fm.compressed_size, m.root_size)
  /\ root' = RootOf(m, fm)
  /\ UNCHANGED <<sending, segments, meta, received_count, arrived>>

\* The host gives up the transfer.
Drop ==
  /\ root # NoRoot
  /\ root' = NoRoot
  /\ segments' = NoSegments
  /\ meta' = NoSegments
  /\ received_count' = 0
  /\ arrived' = {}
  /\ UNCHANGED sending

\* Bug: segments of any revision of the file are let in.
AcceptableOfAnyRevision(m, fm, bytes) ==
  /\ m.root = root.id
  /\ m.count = root.count
  /\ fm.name = root.name
  /\ ValidRange(m, fm.compressed_size, root.size)
  /\ bytes.len = fm.compressed_size
  /\ bytes = m.raw_sha

\* Bug: the bytes are not compared with the digest of the descriptor.
AcceptableUnhashed(m, fm, bytes) ==
  /\ m.root = root.id
  /\ m.count = root.count
  /\ m.root_sha = root.sha
  /\ fm.name = root.name
  /\ ValidRange(m, fm.compressed_size, root.size)
  /\ bytes.len = fm.compressed_size

\* Bug: the last segment must be as long as the others.
AcceptableFullOnly(m, fm, bytes) ==
  /\ m.root = root.id
  /\ m.count = root.count
  /\ m.root_sha = root.sha
  /\ fm.name = root.name
  /\ ValidRange(m, fm.compressed_size, root.size)
  /\ bytes.len = SegmentRawBytes
  /\ bytes = m.raw_sha

\* The checks of add_segment.
Acceptable(m, fm, bytes) ==
  /\ m.root = root.id
  /\ m.count = root.count
  /\ m.root_sha = root.sha
  /\ fm.name = root.name
  /\ ValidRange(m, fm.compressed_size, root.size)
  /\ bytes.len = fm.compressed_size
  /\ bytes.len <= RawLen(root.size, m.index)
  /\ bytes = m.raw_sha

Stored == DOMAIN segments

\* Of the file that the first descriptor was about, and in full.
Genuine(m, bytes) ==
  /\ m.root = root.id /\ m.root_sha = root.sha
  /\ bytes = [data |-> root.sha[m.index], len |-> RawLen(root.size, m.index)]
  /\ m.raw_sha = bytes

Arrives(m, bytes) ==
  arrived' = arrived \cup (IF Genuine(m, bytes) THEN {m.index} ELSE {})

\* Bug: a segment that is there already is stored and counted again.
AddAgain(m, fm, bytes) ==
  /\ root # NoRoot
  /\ Acceptable(m, fm, bytes)
  /\ segments' = [i \in Stored \cup {m.index} |-> IF i = m.index THEN bytes ELSE segments[i]]
  /\ meta' = [i \in Stored \cup {m.index} |-> IF i = m.index THEN m ELSE meta[i]]
  /\ received_count' = received_count + 1
  /\ Arrives(m, bytes)
  /\ UNCHANGED <<sending, root>>

\* add_segment, when it stores the segment.
Add(m, fm, bytes) ==
  /\ root # NoRoot
  /\ Acceptable(m, fm, bytes)
  /\ m.index \notin Stored
  /\ segments' = [i \in Stored \cup {m.index} |-> IF i = m.index THEN bytes ELSE segments[i]]
  /\ meta' = [i \in Stored \cup {m.index} |-> IF i = m.index THEN m ELSE meta[i]]
  /\ received_count' = received_count + 1
  /\ Arrives(m, bytes)
  /\ UNCHANGED <<sending, root>>

\* add_segment, when it returns false or an error.
Refuse(m, fm, bytes) ==
  /\ root # NoRoot
  /\ ~Acceptable(m, fm, bytes) \/ m.index \in Stored
  /\ Arrives(m, bytes)
  /\ UNCHANGED <<sending, root, segments, meta, received_count>>

\* What may be recovered now: a segment, under the descriptor that is played.
Recovered ==
  LET info == IF sending = NoSender THEN Nothing ELSE Received(sending.frame)
  IN  IF info = Nothing THEN {} ELSE IF info.segment = Nothing THEN {}
      ELSE {[m |-> info.segment, fm |-> info.file_meta, bytes |-> bytes] :
              bytes \in Recoverable(info.segment, info.file_meta.compressed_size)}

\* Lengths that a page may choose for a segment: the canonical one and a shorter.
Lengths(f, index) == {RawLen(f.size, index)} \cup (IF index = 0 THEN {1} ELSE {})

OldVersions == {1, 2, LegacyV4, 6}

Next ==
  \/ \E f \in Files, t \in SymbolSizes : Create(f, t) \/ CreateFails(f, t)
  \/ \E f \in Files, t \in SymbolSizes, v \in OldVersions : OldSender(f, t, v)
  \/ \E f \in Files, t \in SymbolSizes : \E i \in Segments(f) : \E len \in Lengths(f, i) :
       NewSegment(f, t, i, len)
  \/ sending # NoSender /\ \E i \in Segments(sending.file) : SelectSegment(i)
  \/ Close
  \/ \E r \in Recovered :
       \/ Open(r.m, r.fm)
       \/ Add(r.m, r.fm, r.bytes)
       \/ Refuse(r.m, r.fm, r.bytes)
  \/ Drop

Spec == Init /\ [][Next]_vars

Complete == root # NoRoot /\ received_count = root.count

\* None: no file is empty.
NoStream == [index \in {} |-> Nothing]

\* reassemble: what the stored pieces hold, in the order of their indices.
Reassemble ==
  IF /\ Complete
     /\ root.size <= MaxInMemory
     /\ SumFunction([i \in Stored |-> segments[i].len]) = root.size
  THEN [i \in Stored |-> segments[i].data]
  ELSE NoStream

----------------------------------------------------------------------------
(* Properties. *)

\* Each variable keeps its type, and received_count counts the segments.
TypeOK ==
  /\ sending = NoSender \/ (/\ sending.file \in Files
                            /\ sending.symbol_size \in SymbolSizes
                            /\ sending.index \in Segments(sending.file))
  /\ root = NoRoot => Stored = {} /\ arrived = {}
  /\ root # NoRoot => Stored \cup arrived \subseteq 0..(root.count - 1)
  /\ DOMAIN meta = Stored
  /\ received_count = Cardinality(Stored)

\* Whatever descriptor a sender was able to build, of a file of any length in
\* symbols of any size, gets past the receiver and says there what the sender
\* meant: the padding stays within the budget of a receiver, the blocks are the
\* ones RaptorQ made, and the name is a part of the file's.  A descriptor of an
\* earlier release is read without the fields that it did not have, or not at
\* all (descriptor.rs:154-405, meta.rs:116-198, receiver.rs:257-303,
\* segment.rs:24-31).
OfferUnderstood ==
  sending # NoSender =>
    LET info    == Received(sending.frame)
        version == sending.frame.payload.version
        f       == sending.file
    IN  IF version \notin 1..Segmented \ {LegacyV4} THEN info = Nothing
        ELSE /\ info # Nothing
             /\ info.meta.transfer_length - info.meta.symbol_size < info.file_meta.compressed_size
                  \/ ~info.file_meta.known
             /\ version = 1 \/ (/\ info.file_meta.known
                                /\ info.file_meta.original_size = f.size
                                /\ info.file_meta.name.text = f.name.text
                                /\ info.file_meta.name.len <= f.name.len)
             /\ (info.segment # Nothing) = (version = Segmented)
             /\ version = Segmented =>
                  /\ info.segment.raw_sha = Piece(f, sending.index, info.file_meta.compressed_size)
                  /\ sending.by = "native" => info.segment.raw_sha = Slice(f, sending.index)

\* Every segment stored is one of the file that the first descriptor was about,
\* in its place: no segment of another file or of another revision gets in,
\* though its root id, its index and its length may be the same
\* (assembler.rs:177-216).
OneRevision ==
  root # NoRoot =>
    \E f \in Files :
      /\ f.root = root.id /\ f.data = root.sha
      /\ \A i \in Stored : segments[i] = Piece(f, i, segments[i].len)

\* The whole name fits into every descriptor of a segment of the file, shorter
\* pieces included.
NameFits(f) ==
  \A t \in SymbolSizes, i \in Segments(f), compression \in {"none", "zstd"} :
    \A len \in Lengths(f, i) :
      LET frame == SegmentFrame(f, t, i, len, compression)
      IN  ValidSymbolSize(t) /\ frame # Nothing =>
            frame.payload.file_meta.name.len = f.name.len

\* What reassemble returns is the file, whatever the order in which the segments
\* came, and it returns something as soon as all of them have been handed over,
\* unless a shorter piece took the place of one, the file is too large for it,
\* or its name is cut: a descriptor with fewer blocks has room for more of the
\* name, and the last segment may be refused for that (assembler.rs:192-196,
\* 231-252, descriptor.rs:170-177).
ReassembledIsFile ==
  /\ Reassemble \in {NoStream} \cup (IF root = NoRoot THEN {} ELSE {root.sha})
  /\ (/\ root # NoRoot
      /\ arrived = 0..(root.count - 1)
      /\ root.size <= MaxInMemory
      /\ \A i \in Stored : segments[i].len = RawLen(root.size, i)
      /\ \A f \in Files : f.root = root.id => NameFits(f)) => Reassemble # NoStream

\* As long as the host keeps the assembler, a segment that is stored stays as it
\* is: neither a duplicate nor a conflicting copy replaces it (217-224).
StoredStays ==
  [][root # NoRoot /\ root' # NoRoot =>
       /\ root' = root
       /\ Stored \subseteq DOMAIN segments'
       /\ \A i \in Stored : segments'[i] = segments[i] /\ meta'[i] = meta[i]]_vars
=============================================================================
