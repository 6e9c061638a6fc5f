-------------------------- MODULE ReceiverBindings --------------------------
(***************************************************************************)
(* What a host sees of a receiver (ReceiverSession.tla): the C handle      *)
(* (core/transfer-engine/src/cffi.rs), the Java handle (jni.rs), the       *)
(* object of the browser (wasm.rs), or the session itself ("rust"), which  *)
(* alone has checkpoints.                                                  *)
(*                                                                         *)
(* A host ingests frame after frame and reads a packed word after each     *)
(* (ingest_status.rs); asks for the metadata field by field, between any   *)
(* two frames; and takes the object out, through C in a buffer that it     *)
(* must give back.                                                         *)
(***************************************************************************)
EXTENDS ReceiverSession, Sequences

CONSTANTS
  Abis,         (* the bindings in use: among "c", "jni", "wasm", "rust"       *)
  StreakLimit,  (* 2^16: the streak of the word has 16 bits                    *)
  Buffers,      (* addresses the allocator hands out                           *)
  Null          (* the null pointer                                            *)

ASSUME BindingsAssumption ==
  /\ Abis \subseteq {"c", "jni", "wasm", "rust"}
  /\ StreakLimit \in Nat \ {0}
  /\ Null \notin Buffers

VARIABLES
  abi,      (* the binding, one of Abis                                        *)
  handle,   (* "none" before it is created, "live", "gone" once destroyed      *)
  word,     (* the word of the last ingest                                     *)
  tally,    (* the host's count of words that said "accepted"                  *)
  asked,    (* the length the C host was told for the file name, 0 if none     *)
  out,      (* the C host's pointer, written by assemble and decompress_bytes  *)
  owned,    (* the buffers handed out and not given back                       *)
  pending   (* a call has returned and the host has not freed what it got      *)

sessionVars == vars
bufferVars  == <<out, owned, pending>>
handleVars  == <<abi, handle, word, tally, asked, bufferVars>>
bindingVars == <<sessionVars, handleVars>>

----------------------------------------------------------------------------
(* The word. *)

\* pack: the streak is masked.
Pack(complete, accepted, streak, symbols) ==
  [good |-> TRUE, complete |-> complete, accepted |-> accepted,
   streak |-> streak % StreakLimit, symbols |-> symbols]

\* All bits clear: what the Java call returns for a null handle.
Zero == Pack(FALSE, FALSE, 0, 0)

\* INGEST_ERROR, which the code keeps apart from every word of a session.
IngestError == [Zero EXCEPT !.good = FALSE]

----------------------------------------------------------------------------
(* The life of the handle. *)

BInit ==
  /\ Init
  /\ abi \in Abis
  /\ handle = IF abi = "rust" THEN "live" ELSE "none"
  /\ word = Zero
  /\ tally = 0
  /\ asked = 0
  /\ out = Null
  /\ owned = {}
  /\ pending = FALSE

\* There is a receiver now, for the session chosen by Init.
Opened ==
  /\ handle = "none"
  /\ handle' = "live"
  /\ UNCHANGED <<sessionVars, abi, word, tally, asked, bufferVars>>

\* airferry_receiver_create, receiverCreate and the constructor of the browser:
\* the id of a session, of whatever totals.
CreateC == abi = "c" /\ Opened
CreateJava == abi = "jni" /\ Opened
CreateBrowser == abi = "wasm" /\ Opened

\* airferry_receiver_create_from_frame: the id is that of a frame, which is not
\* ingested; null for bytes that are no frame.
CreateFromFrame(f) == abi = "c" /\ f.stream.sid = sid /\ Opened

\* from_descriptor of the browser: no object unless the descriptor confirms the
\* layout.
FromDescriptor(f) ==
  /\ abi = "wasm"
  /\ handle = "none"
  /\ AdoptDescriptor(f)
  /\ handle' = "live"
  /\ UNCHANGED <<abi, word, tally, asked, bufferVars>>

\* The session is dropped, and the host's pointer with it.
Closed ==
  /\ handle = "live"
  /\ handle' = "gone"
  /\ asked' = 0
  /\ UNCHANGED <<sessionVars, abi, word, tally, bufferVars>>

DestroyC == abi = "c" /\ Closed
DestroyJava == abi = "jni" /\ Closed
DestroyBrowser == abi = "wasm" /\ Closed

----------------------------------------------------------------------------
(* Frames. *)

\* Bug: the completion told is the one before the frame.
IngestWordEarly(f) ==
  /\ handle = "live"
  /\ Ingest(f)
  /\ word' = Pack(Complete, received_symbols' > received_symbols,
                  session_mismatch_streak', received_symbols')
  /\ tally' = IF word'.accepted THEN tally + 1 ELSE tally
  /\ UNCHANGED <<abi, handle, asked, bufferVars>>

\* Bug: a frame is told accepted whenever the count of symbols changed.
IngestWordChanged(f) ==
  /\ handle = "live"
  /\ Ingest(f)
  /\ word' = Pack(Complete', received_symbols' # received_symbols,
                  session_mismatch_streak', received_symbols')
  /\ tally' = IF word'.accepted THEN tally + 1 ELSE tally
  /\ UNCHANGED <<abi, handle, asked, bufferVars>>

\* A frame is ingested: the word is that of the session after the frame, also when
\* the session refused it (another session id).
IngestWord(f) ==
  /\ handle = "live"
  /\ Ingest(f)
  /\ word' = Pack(Complete', received_symbols' > received_symbols,
                  session_mismatch_streak', received_symbols')
  /\ tally' = IF word'.accepted THEN tally + 1 ELSE tally
  /\ UNCHANGED <<abi, handle, asked, bufferVars>>

\* Each binding builds its word itself.
IngestC(f) == abi = "c" /\ IngestWord(f)
IngestJava(f) == abi = "jni" /\ IngestWord(f)
IngestBrowser(f) == abi = "wasm" /\ IngestWord(f)

\* No frame, or bytes that fail the checks of the wire.
IngestBad ==
  /\ abi # "rust" /\ handle = "live"
  /\ word' = IngestError
  /\ UNCHANGED <<sessionVars, abi, handle, tally, asked, bufferVars>>

\* Through a null handle; the browser has no object to call.
IngestNull ==
  /\ abi \in {"c", "jni"} /\ handle # "live"
  /\ word' = IF abi = "c" THEN IngestError ELSE Zero
  /\ UNCHANGED <<sessionVars, abi, handle, tally, asked, bufferVars>>

\* The session without a binding.
Direct ==
  /\ abi = "rust"
  /\ Next
  /\ UNCHANGED handleVars

----------------------------------------------------------------------------
(* Metadata.  A file is the record                                          *)
(*   name     its name, a sequence of bytes                                 *)
(*   size     its original size                                             *)
(*   crc      its checksum, or Null if there was none                       *)
(*   codec    compression tag and length as sent, or Null if unknown        *)
(*   segment  Null, or the record of the segment: index, count, root,       *)
(*            root_size, offset, raw_sha and root_sha                       *)

\* Before the descriptor the getters read empty metadata; a descriptor that is
\* accepted has the checksum and the length of the object (all versions but the
\* first have them).
FilesAnnounced ==
  /\ NoFile.name = <<>>
  /\ \A s \in Streams :
       /\ s.file.name \in Seq(Nat)
       /\ s.desc = "valid" =>
            /\ s.file.crc # Null /\ s.file.codec # Null
            /\ s.file.codec.len \in 0..(Cardinality(Units(s.k)) * s.size)

OrZero(value) == IF value = Null THEN 0 ELSE value

\* receiverFileName and the getters after it; through a null handle all is zero,
\* and a string is null.
FileJava ==
  IF handle # "live" THEN [name |-> Null, size |-> 0, crc |-> 0, crc_known |-> FALSE]
  ELSE [name |-> file_meta.name, size |-> file_meta.size,
        crc |-> OrZero(file_meta.crc), crc_known |-> file_meta.crc # Null]

\* The same of the C interface: no name is written through a null handle.
FileC ==
  IF handle # "live" THEN [name |-> Null, size |-> 0, crc |-> 0, crc_known |-> FALSE]
  ELSE [name |-> file_meta.name, size |-> file_meta.size,
        crc |-> OrZero(file_meta.crc), crc_known |-> file_meta.crc # Null]

\* The browser has no null handle.
FileBrowser ==
  [name |-> file_meta.name, size |-> file_meta.size,
   crc |-> OrZero(file_meta.crc), crc_known |-> file_meta.crc # Null]

\* The getters of what was sent: compression, compressed_size and original_size.
NoCodec == [compression |-> 0, compressed_size |-> 0, original_size |-> 0]

CodecOf(file) ==
  IF file.codec = Null THEN [NoCodec EXCEPT !.original_size = file.size]
  ELSE [compression |-> file.codec.tag, compressed_size |-> file.codec.len,
        original_size |-> file.size]

CodecC == IF handle = "live" THEN CodecOf(file_meta) ELSE NoCodec
CodecJava == IF handle = "live" THEN CodecOf(file_meta) ELSE NoCodec
CodecBrowser == CodecOf(file_meta)

\* What the getters of a segment say of an object that is none.
Unsegmented ==
  [is_segmented |-> FALSE, index |-> 0, count |-> 1, root |-> 0, root_size |-> 0,
   offset |-> 0, raw_sha |-> Null, root_sha |-> Null]

SegmentOf(file) ==
  IF file.segment = Null THEN Unsegmented
  ELSE [is_segmented |-> TRUE, index |-> file.segment.index,
        count |-> file.segment.count, root |-> file.segment.root,
        root_size |-> file.segment.root_size, offset |-> file.segment.offset,
        raw_sha |-> file.segment.raw_sha, root_sha |-> file.segment.root_sha]

\* Through a null handle even the count of segments is 0.
SegmentC == IF handle = "live" THEN SegmentOf(file_meta) ELSE [Unsegmented EXCEPT !.count = 0]
SegmentJava == IF handle = "live" THEN SegmentOf(file_meta) ELSE [Unsegmented EXCEPT !.count = 0]
SegmentBrowser == SegmentOf(file_meta)

\* The bytes an object is padded to, and those that were sent: the padding is cut
\* off when the descriptor told the length.
Padded == TotalSymbols * meta.size
Raw ==
  IF ~Complete THEN Null
  ELSE IF file_meta.codec = Null \/ file_meta.codec.len > Padded THEN Padded
       ELSE file_meta.codec.len

\* The length of what assemble_raw returns; Null for no bytes.
RawJava == IF handle = "live" THEN Raw ELSE Null
RawBrowser == Raw

Answers ==
  CASE abi = "c"    -> [file |-> FileC, codec |-> CodecC, segment |-> SegmentC,
                      raw |-> Raw]
    [] abi = "jni"  -> [file |-> FileJava, codec |-> CodecJava, segment |-> SegmentJava,
                      raw |-> RawJava]
    [] abi = "wasm" -> [file |-> FileBrowser, codec |-> CodecBrowser, segment |-> SegmentBrowser,
                      raw |-> RawBrowser]

\* write_cstr: the bytes and a NUL.
Needed(name) == Len(name) + 1

\* The first call of the two-pass protocol, with no buffer: the length is told.
\* (Bound: a host asks before it has used buffers, and has the name before it
\* uses them; the calls have nothing in common.)
AskName ==
  /\ abi = "c" /\ handle = "live"
  /\ out = Null /\ ~pending
  /\ asked' = Needed(file_meta.name)
  /\ UNCHANGED <<sessionVars, abi, handle, word, tally, bufferVars>>

\* The second call, with a buffer of asked bytes: it writes the name, or nothing
\* when the name has become longer.
NameWritten == IF asked < Needed(file_meta.name) THEN Null ELSE file_meta.name

FetchName ==
  /\ abi = "c" /\ handle = "live"
  /\ asked > 0
  /\ asked' = IF NameWritten = Null THEN asked ELSE 0
  /\ UNCHANGED <<sessionVars, abi, handle, word, tally, bufferVars>>

\* progress(): the snapshot that progress_json prints.
Snapshot ==
  [decoded_symbols |-> decoded_symbols, total_symbols |-> TotalSymbols,
   received_symbols |-> received_symbols, frames_seen |-> frames_seen,
   frames_duplicate |-> frames_duplicate, frames_corrupt |-> frames_corrupt,
   decoded_blocks |-> IF meta = NoMeta THEN 0
                      ELSE Cardinality({b \in DOMAIN meta.k : decoded[b]}),
   total_blocks |-> IF meta = NoMeta THEN 0 ELSE Cardinality(DOMAIN meta.k),
   meta_confirmed |-> meta_confirmed,
   session_mismatch_streak |-> session_mismatch_streak]

\* Progress::is_complete
SnapshotComplete ==
  Snapshot.total_blocks > 0 /\ Snapshot.decoded_blocks = Snapshot.total_blocks

\* The flag "complete" of progress_json: of the progress in C and Java, of the
\* decoder in the browser.
ToldComplete == IF abi = "wasm" THEN Complete ELSE SnapshotComplete

----------------------------------------------------------------------------
(* Buffers of the C interface. *)

Granted ==
  /\ \E b \in Buffers \ owned : out' = b /\ owned' = owned \cup {b}
  /\ UNCHANGED <<sessionVars, abi, handle, word, tally, asked>>

\* Bug: the pointer is only written on success.
FailedUnwritten == UNCHANGED <<sessionVars, abi, handle, word, tally, asked, out, owned>>

\* The pointer is cleared before anything can fail.
Failed ==
  /\ out' = Null
  /\ UNCHANGED <<sessionVars, abi, handle, word, tally, asked, owned>>

\* airferry_receiver_assemble: nothing without a complete session; the object may
\* not decompress, or not have the size that was announced.
Assemble ==
  /\ abi = "c" /\ ~pending /\ asked = 0
  /\ pending' = TRUE
  /\ \/ handle = "live" /\ Complete /\ Granted
     \/ Failed

\* airferry_receiver_assemble_raw: the object as it was sent.
AssembleRaw ==
  /\ abi = "c" /\ ~pending /\ asked = 0
  /\ pending' = TRUE
  /\ IF handle = "live" /\ Complete THEN Granted ELSE Failed

\* airferry_decompress_bytes needs no receiver.
DecompressBytes ==
  /\ abi = "c" /\ ~pending /\ asked = 0
  /\ pending' = TRUE
  /\ Granted \/ Failed

\* airferry_buffer_free of what the call wrote; a null pointer is no buffer.
BufferFree ==
  /\ pending
  /\ pending' = FALSE
  /\ owned' = owned \ {out}
  /\ UNCHANGED <<sessionVars, abi, handle, word, tally, asked, out>>

BNext ==
  \/ CreateC \/ CreateJava \/ CreateBrowser
  \/ DestroyC \/ DestroyJava \/ DestroyBrowser
  \/ \E f \in Frames :
       \/ CreateFromFrame(f) \/ FromDescriptor(f)
       \/ IngestC(f) \/ IngestJava(f) \/ IngestBrowser(f)
  \/ IngestBad
  \/ IngestNull
  \/ Direct
  \/ AskName
  \/ FetchName
  \/ Assemble
  \/ AssembleRaw
  \/ DecompressBytes
  \/ BufferFree

BSpec == BInit /\ [][BNext]_bindingVars

----------------------------------------------------------------------------
(* Properties. *)

\* A frame that brought a symbol is told accepted once, and no other is: the
\* words add up to the symbols held, but for cached ones that the descriptor
\* refused.  Java, C and browser derive the flag from the counter, which the
\* first descriptor may decrease (cffi.rs:418-438, receiver.rs:457-478).
AnnouncedOnce ==
  abi # "rust" =>
    /\ received_symbols <= tally
    /\ tally <= received_symbols + frames_corrupt

\* A host that was told that the object is complete can take it out, and whatever
\* it asks then, in as many calls and with as many frames in between as it likes,
\* it is answered from the one descriptor that the object was decoded with, alike
\* in C, Java and the browser; the object is as long as that descriptor says; the
\* two notions of completion, of the decoder and of the progress, agree; and the
\* length asked for the name holds what the second call writes
\* (cffi.rs:402-440, progress.rs:218-220, wasm.rs:571-620).
CompleteIsUsable ==
  /\ abi # "rust" /\ handle = "live" /\ word.good => word.complete = ToldComplete
  /\ SnapshotComplete = Complete
  /\ abi # "rust" /\ handle = "live" /\ word.complete =>
       \E s \in Streams :
         /\ s.sid = sid /\ s.desc = "valid" /\ MetaOf(s) = meta
         /\ Answers.file = [name |-> s.file.name, size |-> s.file.size,
                            crc |-> s.file.crc, crc_known |-> TRUE]
         /\ Answers.codec = CodecOf(s.file)
         /\ Answers.segment = SegmentOf(s.file)
         /\ Answers.raw = s.file.codec.len
  /\ asked > 1 => asked = Needed(file_meta.name)

\* Whatever fails and in whatever order, a host that frees once what a call wrote
\* to its pointer frees every buffer once and nothing else: a pointer left from
\* an earlier call never looks like a new buffer (cffi.rs:441-500).
BuffersAccounted ==
  owned = IF pending /\ out # Null THEN {out} ELSE {}
============================================================================
