------------------------------ MODULE FileExport ------------------------------
(***************************************************************************)
(* The end of a transfer: what was recovered becomes a file in the user's  *)
(* directory of received files.                                            *)
(*                                                                         *)
(* A small file is assembled in memory (assemble_result of                 *)
(* core/transfer-engine/src/receiver.rs) and written atomically.  Of a     *)
(* large one each segment is written to the incoming directory; when all   *)
(* are there they are joined, and decompress_stream_to_file of             *)
(* core/qr-protocol/src/compress.rs writes the output piece by piece, to   *)
(* be verified when it is complete.  Every file operation may fail, the    *)
(* system may end the app between two of them, and the file may be edited  *)
(* and sent again under the same root id between two segments.             *)
(*                                                                         *)
(* A stream is a sequence of pieces, what one read of its decoder yields;  *)
(* the bytes of a piece are strings.  A compressed stream has a Magic and a *)
(* EndMark that yield nothing.  A CRC32 is modelled by the first byte, a      *)
(* SHA-256 by all of them.                                                 *)
(***************************************************************************)
EXTENDS Naturals, FiniteSets, Sequences

CONSTANTS
  Revisions,    (* the large file, as it is edited: a sequence of files       *)
  Small,        (* files that fit one object                                  *)
  MaxNames,     (* bound: names free for received files                       *)
  MaxFailures,  (* bound: failing file operations                             *)
  MaxCrashes    (* bound: times the system ends the app                       *)

Magic == <<"head">>
EndMark == <<"tail">>
Pad == <<"pad">>
NoFile == <<"absent">>

\* A file: the tag of its compression, what it decompresses to, whether its
\* CRC32 is in the descriptor, and the streams of its segments.
IsFile(f) ==
  /\ f.tag \in {"none", "zstd", "xz", "other"}
  /\ f.content \in Seq({"a", "b"})
  /\ f.crcKnown \in BOOLEAN
  /\ Len(f.parts) > 0

ASSUME FileExportAssumption ==
  /\ Len(Revisions) \in Nat \ {0} /\ DOMAIN Revisions = 1..Len(Revisions)
  /\ \A r \in DOMAIN Revisions :
       IsFile(Revisions[r]) /\ Len(Revisions[r].parts) = Len(Revisions[1].parts)
  /\ \A f \in Small : IsFile(f)
  /\ MaxNames \in Nat \ {0} /\ MaxFailures \in Nat /\ MaxCrashes \in Nat

Indices == 1..Len(Revisions[1].parts)
Names == 1..MaxNames
Keys == Indices \cup {f.key : f \in Small}

VARIABLES
  revision,      (* the revision on the sender's screen                       *)
  accumulator,   (* SegmentAccumulator: info and received; info is 0 for none *)
  incoming,      (* AirFerryIncoming/<rootKey>: the segments, empty if absent *)
  partial,       (* root-stream.partial                                       *)
  ignored,       (* ignoredSessionKeys                                        *)
  shelf,         (* the directory of received files                           *)
  step,          (* where finishAccumulator is                                *)
  output,        (* the name it writes to                                     *)
  at, written,   (* decompress_stream_to_file: pieces read, bytes hashed      *)
  completed,     (* completedFile, 0 for none                                 *)
  errorMessage,
  holds,         (* history: what each name was reported to hold              *)
  stray,         (* history: outputs left by a crash or a failed removal      *)
  failures, crashes

memoryVars == <<accumulator, ignored, completed, errorMessage>>
diskVars == <<incoming, partial>>
shelfVars == <<shelf, holds, stray>>
exportVars == <<step, output, at, written>>
vars == <<revision, memoryVars, diskVars, shelfVars, exportVars, failures, crashes>>

NoAccumulator == [info |-> 0, received |-> {}]
NoSegments == [i \in Indices |-> <<>>]

Init ==
  /\ revision = 1
  /\ accumulator = NoAccumulator
  /\ incoming = NoSegments
  /\ partial = <<>>
  /\ ignored = {}
  /\ shelf = [n \in Names |-> NoFile]
  /\ step = "collect" /\ output = 0 /\ at = 0 /\ written = <<>>
  /\ completed = 0
  /\ errorMessage = FALSE
  /\ holds = [n \in Names |-> NoFile]
  /\ stray = {}
  /\ failures = 0
  /\ crashes = 0

----------------------------------------------------------------------------
(* Streams. *)

\* The first n sequences of ss, joined.
Joined(ss) ==
  LET upTo[n \in 0..Len(ss)] == IF n = 0 THEN <<>> ELSE upTo[n - 1] \o ss[n]
  IN  upTo[Len(ss)]

\* Where the data of a compressed stream ends.
EndOf(stream) ==
  LET marks == {i \in 2..Len(stream) : stream[i] \in {Magic, EndMark, Pad}}
  IN  IF marks = {} THEN Len(stream) + 1
      ELSE CHOOSE i \in marks : \A j \in marks : i <= j

\* The decoder of a tag: what it yields, piece by piece, and whether it then
\* ends well.  zstd refuses what follows the end of a frame, xz ignores it.
Decoded(tag, stream) ==
  CASE tag = "none" -> [out |-> stream, ok |-> TRUE]
    [] tag = "other" -> [out |-> <<>>, ok |-> stream = <<>>]
    [] tag \in {"zstd", "xz"} ->
         IF stream = <<>> \/ stream[1] # Magic THEN [out |-> <<>>, ok |-> FALSE]
         ELSE LET end == EndOf(stream)
              IN  [out |-> SubSeq(stream, 2, end - 1),
                   ok  |-> /\ end <= Len(stream) /\ stream[end] = EndMark
                           /\ tag = "xz" \/ end = Len(stream)]

Crc(bytes) == IF bytes = <<>> THEN "" ELSE bytes[1]

----------------------------------------------------------------------------
(* Small files. *)

\* assemble_result trims what the decoder recovered, whole symbols, to the
\* compressed_size of the descriptor.
Trimmed(f) == SubSeq(Append(Joined(f.parts), Pad), 1, Len(Joined(f.parts)))

\* assemble_result: decompressed, capped at and compared with original_size;
\* what is not compressed is returned as it is.
Assembles(f) ==
  LET d == Decoded(f.tag, Trimmed(f))
  IN  f.tag = "none" \/ (d.ok /\ Len(Joined(d.out)) = Len(f.content))

Assembled(f) == Joined(Decoded(f.tag, Trimmed(f)).out)

\* What the decoder recovered of a small file is what was sent, so far as
\* assemble_result does not notice: ReceiverSession never feeds a decoder with
\* symbols of two encodings (NoMixing), if size and id tell encodings apart.
RecoveredIsSent == \A f \in Small : Assembles(f) => Assembled(f) = f.content

\* Bug: the name of the file is used as it is.
NameAsIs(n) == n = 1

\* uniqueOutputURL: the first name that is not taken.
Unused(n) == shelf[n] = NoFile /\ \A m \in 1..(n - 1) : shelf[m] # NoFile

\* Bug: the name that was chosen is kept.
ThrowNamed ==
  /\ step' = "collect" /\ at' = 0 /\ written' = <<>>
  /\ UNCHANGED output
  /\ errorMessage' = TRUE

\* A file operation, or a check, throws: the error is shown.
Throw ==
  /\ step' = "collect" /\ output' = 0 /\ at' = 0 /\ written' = <<>>
  /\ errorMessage' = TRUE

\* A file operation of the phone fails.
Fail ==
  /\ failures < MaxFailures
  /\ failures' = failures + 1
  /\ Throw

\* finish: the file is offered to the user.
Offer(n, content) ==
  /\ completed' = n
  /\ holds' = [holds EXCEPT ![n] = content]

\* A session of a small file completes: assemble, then an atomic write.  The
\* sender shows such files too until it comes to the last revision.
SaveSmall(f) ==
  /\ step = "collect"
  /\ revision < Len(Revisions)
  /\ f.key \notin ignored
  /\ ignored' = ignored \cup {f.key}
  /\ UNCHANGED <<revision, accumulator, diskVars, stray, crashes>>
  /\ \/ \E n \in Names :
          /\ Assembles(f)
          /\ Unused(n)
          /\ shelf' = [shelf EXCEPT ![n] = Assembled(f)]
          /\ Offer(n, f.content)
          /\ UNCHANGED <<exportVars, errorMessage, failures>>
     \/ /\ ~Assembles(f)
        /\ Throw
        /\ UNCHANGED <<completed, shelf, holds, failures>>
     \/ /\ Fail
        /\ UNCHANGED <<completed, shelf, holds>>

----------------------------------------------------------------------------
(* Large files: finishCurrentSession and finishAccumulator. *)

Info == Revisions[accumulator.info]

\* A session of segment i completes: it is written, atomically, over whatever
\* an earlier run left.  The descriptor of the first one is kept.
Store(i) ==
  LET received == accumulator.received \cup {i}
      info     == IF accumulator = NoAccumulator THEN revision ELSE accumulator.info
  IN  /\ step = "collect"
      /\ i \notin ignored
      /\ ignored' = ignored \cup {i}
      /\ incoming' = [incoming EXCEPT ![i] = Revisions[revision].parts[i]]
      /\ accumulator' = [info |-> info, received |-> received]
      /\ step' = IF received = Indices THEN "merge" ELSE "collect"
      /\ UNCHANGED <<revision, partial, shelfVars, output, at, written, completed,
                     errorMessage, failures, crashes>>

\* concatenate, into a file that is made anew, then uniqueOutputURL.
Merge ==
  /\ step = "merge"
  /\ UNCHANGED <<revision, accumulator, ignored, completed, incoming, shelfVars, crashes>>
  /\ \/ /\ partial' = Joined(incoming)
        /\ \E n \in Names : Unused(n) /\ output' = n
        /\ step' = "create"
        /\ UNCHANGED <<at, written, errorMessage, failures>>
     \/ \E i \in Indices :
          /\ partial' = Joined(SubSeq(incoming, 1, i - 1))
          /\ Fail

\* decompress_stream_to_file opens its input and creates its output.
Create ==
  /\ step = "create"
  /\ UNCHANGED <<revision, accumulator, ignored, completed, diskVars, holds, stray, crashes>>
  /\ \/ /\ shelf' = [shelf EXCEPT ![output] = <<>>]
        /\ step' = "write"
        /\ UNCHANGED <<output, at, written, errorMessage, failures>>
     \/ /\ Fail
        /\ UNCHANGED shelf

Stream == Decoded(Info.tag, partial)
Unread == at < Len(Stream.out)
Extended == written \o Stream.out[at + 1]

\* The next piece is hashed and written; it reaches the disk when the buffer
\* is full.
WritePiece ==
  /\ step = "write"
  /\ Unread
  /\ Len(Extended) <= Len(Info.content)
  /\ at' = at + 1
  /\ written' = Extended
  /\ shelf' \in {shelf, [shelf EXCEPT ![output] = Extended]}
  /\ UNCHANGED <<revision, memoryVars, diskVars, holds, stray, step, output,
                 failures, crashes>>

\* All is decoded: the rest of the buffer is flushed.
Flush ==
  /\ step = "write"
  /\ ~Unread
  /\ Stream.ok
  /\ shelf' = [shelf EXCEPT ![output] = written]
  /\ step' = "verify"
  /\ UNCHANGED <<revision, memoryVars, diskVars, holds, stray, output, at, written,
                 failures, crashes>>

\* More comes out than the descriptor promised, the stream is broken, or an
\* operation fails (failing says so).
CannotWrite(failing) ==
  /\ step = "write"
  /\ \/ failing
     \/ Unread /\ Len(Extended) > Len(Info.content)
     \/ ~Unread /\ ~Stream.ok

\* Bug: the checksums are left to the reader.
VerifiedSize == Len(written) = Len(Info.content)

\* airferry_decompress_stream_to_file compares size, CRC32 and SHA-256.
Verified ==
  /\ Len(written) = Len(Info.content)
  /\ Info.crcKnown => Crc(written) = Crc(Info.content)
  /\ written = Info.content

\* Bug: a broken output is left where it is.
NotRemoved == shelf' = shelf /\ UNCHANGED stray

\* The partial output is removed.
Removed == shelf' = [shelf EXCEPT ![output] = NoFile] /\ UNCHANGED stray

\* On any failure the output is removed, the error shown.  What came in is kept.
Abandon ==
  /\ UNCHANGED <<revision, accumulator, ignored, completed, diskVars, holds, crashes>>
  /\ \/ /\ CannotWrite(FALSE) \/ (step = "verify" /\ ~Verified)
        /\ Throw
        /\ Removed
        /\ UNCHANGED failures
     \/ /\ CannotWrite(TRUE)
        /\ Fail
        /\ Removed
     \/ /\ CannotWrite(FALSE) \/ (step = "verify" /\ ~Verified)   \* the removal fails
        /\ Fail
        /\ UNCHANGED shelf
        /\ stray' = stray \cup {output}

\* The file is whole: the incoming directory goes and the file is offered.
Complete ==
  /\ step = "verify"
  /\ Verified
  /\ Offer(output, Info.content)
  /\ accumulator' = NoAccumulator
  /\ step' = "collect" /\ output' = 0 /\ at' = 0 /\ written' = <<>>
  /\ UNCHANGED <<revision, ignored, errorMessage, shelf, stray, crashes>>
  /\ \/ incoming' = NoSegments /\ partial' = <<>> /\ UNCHANGED failures
     \/ /\ failures < MaxFailures                                 \* not removed
        /\ failures' = failures + 1
        /\ UNCHANGED diskVars

----------------------------------------------------------------------------
(* The user and the system. *)

\* Bug: the sessions seen before the user starts over stay ignored.
IgnoredAfterReset == ignored

\* ReceiverViewModel.reset empties ignoredSessionKeys.
IgnoredOnReset == {}

\* ReceiverViewModel.reset, from the alert or for the next file.
Reset ==
  /\ step = "collect"
  /\ errorMessage \/ completed # 0
  /\ incoming' = IF accumulator = NoAccumulator THEN incoming ELSE NoSegments
  /\ partial' = IF accumulator = NoAccumulator THEN partial ELSE <<>>
  /\ accumulator' = NoAccumulator
  /\ ignored' = IgnoredOnReset
  /\ completed' = 0
  /\ errorMessage' = FALSE
  /\ UNCHANGED <<revision, shelfVars, exportVars, failures, crashes>>

\* The system ends the app, which is opened again: what was in memory is gone.
Crash ==
  /\ crashes < MaxCrashes
  /\ crashes' = crashes + 1
  /\ accumulator' = NoAccumulator /\ ignored' = {}
  /\ completed' = 0 /\ errorMessage' = FALSE
  /\ step' = "collect" /\ output' = 0 /\ at' = 0 /\ written' = <<>>
  /\ stray' = IF step \in {"write", "verify"} THEN stray \cup {output} ELSE stray
  /\ UNCHANGED <<revision, diskVars, shelf, holds, failures>>

\* The user removes a file in the Files app.
Delete(n) ==
  /\ n # output
  /\ shelf[n] # NoFile
  /\ shelf' = [shelf EXCEPT ![n] = NoFile]
  /\ holds' = [holds EXCEPT ![n] = NoFile]
  /\ stray' = stray \ {n}
  /\ UNCHANGED <<revision, memoryVars, diskVars, exportVars, failures, crashes>>

\* The file is edited and sent again; its root id covers neither the middle of
\* its data nor its checksums.
Edit ==
  /\ revision < Len(Revisions)
  /\ revision' = revision + 1
  /\ UNCHANGED <<memoryVars, diskVars, shelfVars, exportVars, failures, crashes>>

\* One step of finishAccumulator.
Export == Merge \/ Create \/ WritePiece \/ Flush \/ Abandon \/ Complete

Next ==
  \/ \E i \in Indices : Store(i)
  \/ \E f \in Small : SaveSmall(f)
  \/ Export
  \/ Reset \/ Crash \/ Edit
  \/ \E n \in Names : Delete(n)

\* The app goes on; the sender shows every segment and comes to the last
\* revision, and the user answers the alert with "retry" and makes room when no
\* name is left, which the bound on names requires.
Spec ==
  /\ Init /\ [][Next]_vars
  /\ WF_vars(Export)
  /\ WF_vars(Edit)
  /\ \A i \in Indices : WF_vars(Store(i))
  /\ WF_vars(errorMessage /\ Reset)
  /\ WF_vars((\A n \in Names : shelf[n] # NoFile) /\ \E n \in Names : Delete(n))

----------------------------------------------------------------------------
(* Properties. *)

\* Each variable keeps its type; what is being written has a name.
TypeOK ==
  /\ revision \in DOMAIN Revisions
  /\ accumulator \in [info : 0..Len(Revisions), received : SUBSET Indices]
  /\ DOMAIN incoming = Indices
  /\ ignored \subseteq Keys
  /\ step \in {"collect", "merge", "create", "write", "verify"}
  /\ output \in IF step \in {"create", "write", "verify"} THEN Names ELSE {0}
  /\ accumulator.info = 0 => accumulator = NoAccumulator /\ step = "collect"
  /\ completed \in 0..MaxNames
  /\ stray \subseteq Names
  /\ failures \in 0..MaxFailures /\ crashes \in 0..MaxCrashes

\* A file that was reported as received holds what was sent: the content of one
\* revision, whatever mixture of segments came in, what an earlier run left in
\* the incoming directory and what failed before (receiver.rs:535-625,
\* cffi.rs:682-741).
HoldsWhatWasSent ==
  \A n \in Names : holds[n] # NoFile => shelf[n] = holds[n]

\* On any failure the partial output is removed, so that what is in the
\* directory was verified, is being written, or is what a crash or a failed
\* removal left (compress.rs:233-234, cffi.rs:718-739).
NoPartialOutput ==
  \A n \in Names :
    shelf[n] # NoFile /\ holds[n] = NoFile => n \in stray \/ n = output

\* A received file is never written over, whatever comes with the same name:
\* it goes only when the user removes it (ReceivedFile.swift:21-37).
NeverOverwritten ==
  [][\A n \in Names : holds[n] # NoFile => shelf'[n] \in {shelf[n], NoFile}]_vars

\* A failure is not final: when the user retries, a later attempt succeeds,
\* whatever the failed one left behind (ReceiverViewModel.swift:58-73, 131-134).
RetrySucceeds == errorMessage ~> completed # 0
=============================================================================
