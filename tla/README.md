# AirFerry in TLA+

AirFerry moves a file from one device to another with nothing but a screen and a
camera.  The sender cuts the file into segments, encodes each with a fountain
code (RaptorQ) and shows an endless stream of QR codes; the receiver films them,
recovers each segment from whatever symbols it happens to read and saves the
file.  There is no way back: the sender never learns what was received, frames
are lost, repeated and reordered at will, and everything that the two sides must
agree on travels in the frames.

This directory holds the TLA+ specifications of that program, the TLC
configurations that check them on small instances, and machine-checked proofs
that nearly everything checked holds for every instance.  Paths below are relative to
the repository; line numbers are those of the commit the specifications were written
from.

## 1. The system

| Part | Where | State it keeps | Operations | What makes it correct |
|---|---|---|---|---|
| Sender session | `core/transfer-engine/src/sender.rs` | two cursors, frame index, cadence | `new`, `set_descriptor_interval`, `next_frame` | a data frame is never repeated; source before repair; blocks advance together; descriptors reach every place of the screen; no early end |
| Receiver session with its decoder | `receiver.rs`, `core/raptorq-core/src/decoder.rs` | layout, received ESIs per block, decoded blocks, symbol cache, counters | `ingest`, `save_state`, `restore`, `assemble` | only symbols of the adopted object reach the decoder, each counted once; the first descriptor stays; progress is honest and never lost; the cache is bounded, which it is not (section 5) |
| Codecs | `descriptor.rs`, `meta.rs`, `qr-protocol/src/frame.rs`, `session.rs` | none | build, parse, validate | whatever a sender can build is accepted and says what was meant, older versions included |
| Segments | `cffi.rs` (`CffiSender`), `wasm.rs`, `segment.rs`, `assembler.rs` | stored segments and their descriptors | cut, `new`, `add_segment`, `reassemble` | only segments of one revision are put together, and they are the file |
| iOS receiver | `apps/ios/AirFerryIOS/Receiver`, `Core/AirFerryNative.swift` | native handle, accumulator, temporary directory, ignored sessions, camera | `ingest`, `finishCurrentSession`, `finishAccumulator`, `reset` | every file is saved once, nothing received is given up before it is stored, a merge finds what it counts |
| iOS sender | `apps/ios/AirFerryIOS/Sender` | phase, staged copy, engine, playing loop | `stage`, `begin`, `selectSegment`, `reset`, the loop | one loop at a time; the screen shows what the header names; going back stops it |
| Camera scanner | `Receiver/CameraScanner.swift` | capture session, authorisation state | `start`, `stop`, `retry`, `captureOutput` | runs while the view is there, says why if it does not, hands every code on |
| Saving a file | `receiver.rs` (`assemble_result`), `qr-protocol/src/compress.rs`, `cffi.rs`, `ReceivedFile.swift` | incoming directory, partial output, directory of received files | `assemble_result`, `decompress_stream_to_file`, verification, `uniqueOutputURL` | what is reported as received is what was sent; no partial output stays; nothing is written over; a retry can succeed |
| Encoder, chunker | `raptorq-core`, `qr-protocol` | none | bytes in, bytes out | the bytes come back |
| Progress and status | `progress.rs`, `ingest_status.rs` | sample window | `record_*`, `window_rates`, `pack` | the rate is that of the recent frames, where there are any; the word says of a frame what became of it |
| Sender bindings | `cffi.rs`, `wasm.rs` | handle, scratch of codes, segment index | `next_frame`, `next_qr*`, `select_segment` | no frame taken is lost in silence, none shown twice |
| Receiver bindings | `cffi.rs`, `jni.rs`, `wasm.rs` | handle, buffers handed out | create, destroy, `ingest`, getters, `assemble*`, `buffer_free` | what a host is told is true; every buffer is freed once |
| QR rendering | `qr_render.rs`, vendored `fast_qr`, `QRCodeRenderer.swift` | none | rendering | third party, pure |

How they interact.  `SenderViewModel.startLoop` calls the engine (an actor that
owns a `NativeSender`, hence a `CffiSender`, hence a `SenderSession`) for one or
more frames per tick, renders them and sleeps.  `CameraScanner` decodes codes on
its own queue and starts one main-actor task per code; `ReceiverViewModel.ingest`
feeds it to the `NativeReceiver`, whose session is created from the first frame
and stays bound to its id; when the session is complete the view model stores the
segment and resets the native side, or saves the file.

What is hard.  (a) *Order and loss*: descriptors and symbols in any order, some
never seen, some of another stream with the same session id, since the id covers
the file and not the symbol size.  (b) *State read before and used after*: the
symbol cache is filled without a layout and judged later; the Swift tasks await
while the user goes on.  (c) *Restarts*: a checkpoint after the descriptor holds
no symbols.  (d) *Failures half way*: storing or merging segments fails after
part of the state has changed.  (e) *Crashes while saving*:
the output is written under its final name.  (f) *Limits*: the 24-bit ESI space, the cache
budget, the last segment, the padding of a full one, the room left for a name.
(g) *Call protocols*: a host asks for one thing in several calls with frames in
between, hands in buffers that are too short, and frees what an earlier call left.  `PROJECT.json` lists each hazard at its line with the
properties that cover it, or why none does.

## 2. The modules

```
ObjectTransfer                the promise: layout, then blocks, never lost
     ^ implements
Transfer  ----INSTANCE---->  SenderSession  <--EXTENDS--  SenderBindings
     |                       sender.rs                    cffi.rs, wasm.rs, progress.rs
     +--------INSTANCE---->  ReceiverSession <--EXTENDS-- ReceiverBindings
                             receiver.rs, decoder.rs      cffi.rs, jni.rs, wasm.rs

ObjectDescriptor  <--EXTENDS--  SegmentAssembly
descriptor.rs, meta.rs          cffi.rs and wasm.rs (cut), segment.rs, assembler.rs

IosReceiver  <--EXTENDS--  CameraScanner
ReceiverViewModel,         CameraScanner.swift, ReceiverView
NativeReceiver

IosSender                     SenderViewModel, SenderView
FileExport                    compress.rs, assemble_result, cffi.rs, finishAccumulator

XProofs EXTENDS X             theorems and proofs, for X = SenderBindings,
                              ReceiverSession, ReceiverBindings, Transfer,
                              SegmentAssembly, IosReceiver, IosSender, FileExport
MC*                           instances for TLC
```

**SenderSession.**  `blocks` is the list of K per block, the two cursors and
`frame_index` are the fields of the struct, and `emitted` is a history of the
frames returned.  `next_frame` is four actions, one per way it can end:
descriptor, source symbol, repair symbol, exhausted.  `PlanEntry` is
`build_source_plan` and `RepairId` with `InEsiSpace` is `repair_symbol_id`.

**SenderBindings** puts that session behind a host's call: the C handle, or one of
six calls of the browser.  A call is a loop in the code and one action per
iteration here: `Call` checks the arguments, `HandOver` draws a frame and puts it
where the host finds it, `EncodeFails`, `Overflows`, `RunsOut` and `Finish` are
the ways it ends.  The order of checking and drawing is what matters: what is
drawn and not handed over is lost for the receiver.  `SelectSegment` replaces the
session, as the C handle does.  `window` is the sample window of `Stats`, under
a clock that belongs to the host; `Shown` is the frames and the span behind the rates
of a snapshot, which `fps_at` and `throughput_bps_at` take from the window (`Rates`)
or, where it has too little (`FallsBack`), from the whole session.

**ReceiverSession.**  A *stream* is what one sender session shows: session id,
symbol size, layout, the identity of the encoded bytes, file metadata, and what
the receiver makes of its descriptors.  `ingest` is nine actions, one per outcome
(another session, refused descriptor, repeated descriptor, first descriptor,
descriptor after a restore, symbol before the layout, misfit, useless, new).
Each makes every change of that outcome, including the counters and the replay
of the cache in `apply_meta`.  The RaptorQ solver is left open where it is open:
fewer than K symbols never decode a block, all source symbols or K + `Overhead`
symbols always do, anything between may.  `offered` records which payloads went
to the decoder, which the code does not keep but its correctness depends on.

**ReceiverBindings** puts it behind a C handle, a Java handle or the object of the
browser; `"rust"` is a program that uses the session itself, the only one with
checkpoints.  `word` is the packed result of the last ingest and `tally` the
host's count of the flag "accepted", which the bindings derive from a counter
before and after.  The getters are operators, one per binding (`FileC`,
`FileJava`, `FileBrowser`, ...), since the three were written separately and may
disagree.  The name is asked for twice, for its length and for its bytes, with
anything in between.  `out`, `owned` and `pending` are the pointer, the buffers
of the allocator and the host's duty to free.

**Transfer** composes the two sessions over a screen of `Codes` frames.  The
sender's loop fills a batch and shows it, the camera reads frames of the screen in
any order, some several times, and up to `MaxMissed` never.  A frame that fails
its CRC never reaches the session and so is a frame that was missed.  The user of
the sender may start the file again, and the receiver may be killed and restored.
`ObjectTransfer` says what all this amounts to; `Transfer!Implements` is the
refinement, with the blocks recovered and `meta_confirmed` as the mapping.

**ObjectDescriptor** follows an object from its length to the descriptor and back:
the symbol sizes that are accepted, the padding, the partition into blocks, the
descriptor's versions with the length of each tail, the name cut to the room that
is left, `parse_payload`, `ObjectMeta::validate` and the checks in `ingest`.  It
has no variables; bytes are represented by how many there are.

**SegmentAssembly** has two kinds of sender that cut a file and announce its
segments, a sender of an earlier release, and an assembler.  The native sender
sends each segment in full; `SenderSessionWasm::new_segment` takes the bytes that
the page gives it, which may be a shorter piece with a segment record of its own.
A segment's data is one value, a piece of it the first bytes; digests are what
they are computed from.  Two revisions of a file may share a root id (it covers
both ends of the file only), so the bytes recovered under a descriptor may be
another revision's (`Recoverable`).

**IosReceiver** sees the engine as the app does: bound to its first frame's
session, complete after `Need` frames of it.  A task is a frame waiting for the
main actor.  `ingest` and the `finish...` functions it calls run without an await
and are therefore one action per outcome, failures included; the flag `finishing`
is never seen set by another call and is not a variable.  All removals of temporary
data are `try? removeItem`: `Remove` may leave any of the segments, and the step goes
on as if they were gone.  `undeleted` records the files this happened to.  The camera is on or off
and may be switched at any time.

**CameraScanner** puts the camera of the code in front of it.  `start`, `stop` and
`retry` append jobs to `captureQueue`; `StopJob` and `RunJob` run them, `Post`
reports to `mainQueue` what a job found, `RunMain` runs what waits there.
`Answer` and `SessionError` come from the system, and `HandleRuntimeError` is the
notification's handler, on a thread of its own.  `camera` of `IosReceiver` is here
what was asked for last, `isRunning` what the session does.  `IngestFrame` and
`ReceiveNext` are `Ingest` and `Reset` with their calls of `stop` and `start`.

**IosSender** has one action per stretch between two awaits: `begin` is
`Begin`, `BeginRead`, `BeginBuilt`, `BeginPlay`, the loop is `LoopTake`,
`LoopShow`, `LoopSleep`.  Cancelling sets a flag that the loop sees at its next
check, as Swift tasks do.  Guards of the user's actions are the buttons that the
view shows in each phase.  `togglePlayback` is called by no view and left out.

**FileExport** takes up where `IosReceiver` is atomic: what finishing a file does
to the disk, one action per file operation, so that the system can end the app in
between.  A stream is a sequence of pieces, what one read of its decoder yields;
`Decoded` says what the decoders of each tag make of it, including the trailing
padding that zstd refuses and xz ignores.  The large file is edited while it is
sent (`Revisions`), under the same root id, so that segments of several revisions
meet in one accumulator.  `holds` records what a file was reported to be, `stray`
what a crash or a failed removal left.  The failure to store a segment and the
switch between two large files are in `IosReceiver` and left out here, as is
"cancel" on the alert, after which nothing tries again.  The user may delete
files, but does not put any under the name that was just chosen.

Definitions marked `Bug:` are deliberately wrong variants of the definition that
follows.  No specification uses them; they document which mistake a property
would catch (section 4).

## 3. Runs

| Run | Shows | States |
|---|---|---|
| `sender_session` | all layouts of 1-3 blocks of 1-3 symbols, ESI space 6, behind every call, with buffers of 0, 1 and 3 codes, segment changes, with a steady clock and, where one frame is shown a call, a fast one and one that stalls | 43,181 |
| `receiver_session` | five streams, six frames per process, behind four bindings, with checkpoints and restarts | 1,025,608 |
| `transfer` | two blocks, two codes per screen, one batch with a missed frame, one re-send, one restart: completion, no repair without loss, refinement | 181,866 |
| `ios_receiver` | two segmented files and a small one shown at will, a failure, a removal that the system refuses, a reset | 3,317,160 |
| `ios_camera` | a file of three segments, a view that goes away once, access granted late or never, two failures of the camera, users that follow the instructions: the file is saved | 1,023,513 |
| `ios_sender` | two imports, two starts, one segment change, one failure | 164,267 |
| `segment_assembly` | the constants of the code; files of 1, 2, 3 and 9 segments, two revisions, symbols of 64 to 65528 bytes | 492,648 |
| `file_export` | a file of two segments edited twice while sent, two small files, two names, a failure, a crash | 86,618 |
| `cache_budget`, `resend`, `ios_ignored`, `ios_stop` | the four disagreements of section 5 | - |

**Properties.**  Type invariants are checked, and most are proved too; that of
`IosReceiver` is proved only.  The others:

* Sender: `FreshSymbols` (no data frame twice), `SourceBeforeRepair`, `Lockstep`
  (how far one block can be ahead of another at *any* moment, which is what a
  burst of lost frames is spread by), `DescriptorRotation` (descriptors reach
  every place of a screen of 1, 2 and 4 codes; the premise that cadence and codes
  are coprime is the code's own reason for 17).
* Sender bindings: `HandsOutWhatItTakes` (what was drawn is what the host finds,
  or it is told otherwise) and `RateIsLive` (whenever they are asked for, the rates
  shown are those of all frames of the last three seconds where these have two at
  different times, and of the whole session otherwise: eviction, which runs only when
  a frame is sent, loses nothing that is needed).
* Receiver: `NoMixing`, `OfferedIsReceived`, `FrameAccounting`, `ProgressHonest`,
  and of steps `DescriptorImmutable` and `MonotoneProgress`.
* Receiver bindings: `AnnouncedOnce` (the flag "accepted" adds up to the symbols
  held), `CompleteIsUsable` (a host that was told "complete" gets the whole object
  and answers from one descriptor, alike in three bindings), `BuffersAccounted`
  (a host that frees what a call wrote frees each buffer once).
* Transfer: `EventuallyComplete`, `NoRepairWithoutLoss`, `Implements`.
* Segments: `OfferUnderstood` (whatever descriptor a sender can build is accepted
  by a receiver and says what was meant), `OneRevision`, `ReassembledIsFile`,
  `StoredStays`.
* iOS receiver: `MergeReadsFiles` (a merge finds, for each segment counted, a file
  that arrived, and whatever else is on the phone the system refused to remove), `IgnoredArrived`, `SavedOnce`,
  `NothingDropped`.
* Camera: `CameraFollowsView` (once everything asked for is done, the camera runs
  only if it was asked to, and if it does not run the view says so), `FileSaved`.
* iOS sender: `OneLoop`, `QuietWhenIdle`, `PlaysWhatItNames`.
* Saving: `HoldsWhatWasSent`, `NoPartialOutput`, `NeverOverwritten`,
  `RetrySucceeds`, which includes a retry that meets the segments of an earlier
  run, a stray output of the same name, and revisions that do not fit together.

**Bounds and why they suffice.**  *Sender*: two blocks of different K already make
round robin, lockstep and "one block done, the other not" happen; the run has
three.  An ESI space of 6 lets one block run out before another.  Batches of up to
three codes with a scratch of two make every clamp happen, and buffers of 0, 1 and
3 codes fail before, in the middle of and not in a batch.  The window is three
ticks and five samples, under a clock of one frame a tick, of three frames a tick
(more samples than are kept) and with a stall longer than the window; the last two
come with the simplest call only, since how a frame is handed over does not matter to
the window.
*Receiver*: K of 1 to 3, with one or two repair symbols, covers the block that
decodes from source, from repair and by luck.  The pair of streams with one id and
two sizes, the pair with two descriptors, refused descriptors and a foreign
session are each there once, because a receiver compares a frame only with its own
state.  Six frames per process allow a cache at its limit, the replay, completion
of one layout and a late conflict; they are counted again after a restart.  One
buffer address is enough, since the allocator may hand out the same one again.
*Transfer*: the sender may emit 22 frames, and disturbances end with frame 6
(`LastDisturbance`) because a bounded stream cannot make up for a loss at its
end; the real stream has 2^24 symbols per block.  *Segments*: the constants are
those of the code (32 MiB objects, 256 MiB in memory), so that headroom, padding,
number of blocks and room for the name are the real ones; the files are chosen at
the edges: 5 bytes, exactly one segment, one byte more than two, a name longer
than any symbol, a name that fits in one segment and not in another, a file too
large to assemble in memory.  *iOS*: two queued tasks suffice for "a frame of
another session between" and "a frame left over after a reset"; two imports and
two starts for every pair of pending tasks.  `MaxUndeleted` bounds the files whose
directory could not be removed: one in `ios_receiver`, where it is an accumulator's
predecessor, a merged file or one that was reset; none in `ios_camera` and
`ios_ignored`, which ask about other things.  *Camera*: one queued task, one leave
and two failures are enough for a stop queued behind a start, an error in each
position between two jobs, and a retry that fails.  *Saving*: the revisions are chosen so
that their mixtures come out too short, too long, and of the right length with a
wrong or an unknown CRC32; two names are one for a received or stray file and one
for the next.

**Deadlock.**  The bounded histories end (frames, tasks and imports are used up),
so deadlock is not checked; that the program does not get stuck is stated by the
liveness properties.  `file_export` does check it.

**Fairness.**  `Transfer`: weak fairness of `Produce` and `Show` (the sender's
loop runs on a timer) and of reading an unread frame (the camera keeps filming),
nothing for users, losses and restarts.  `CameraScanner!CSpec`: both queues and
the main actor go on, a session that runs delivers frames (weak), codes are found in
some of them (strong, since any frame may be unreadable), and users do as told: they
answer, come back, try again when offered to and go on to a segment that is missing.
`IosReceiver!Spec` has no fairness and users who do anything.
`FileExport`: the export goes on, the sender shows every segment and
arrives at its last revision, the user answers the alert with "retry"; nothing for
small files, crashes and edits before that, and the user makes room only because
the model's names are bounded.  `IosSender`: the main actor runs a ready task and each loop goes on; nothing for
the user or the photo library.  The bindings and the assembler have no fairness:
they do what a host asks, when it asks.

## 4. Mutants

For each property of a passing run `PROJECT.json` names a definition and one of
its `Bug:` variants; with the variant in its place the run reports the property
violated.  They are mistakes this code could have had: the cadence off by one, a
descriptor shown only once, repair offsets shared by the blocks, a symbol counted
before it is checked, a descriptor that replaces the name mid-way, a pointer not
cleared by a failing call, a call that draws frames before it looks at the buffer,
a sample taken for stale at the edge of the window, a directory left behind, a segment without headroom, the native
session reset before the segment is on disk.

## 5. Where code and documents disagree

* `cache_budget`: the cap of the pre-descriptor cache is a number of symbols at
  the size of the frame at hand.  Large symbols followed by small ones under one
  session id exceed the byte budget that the comments promise
  (`receiver.rs:355`).
* `resend`: the same file at another speed has the same session id, but a
  receiver that holds the first layout refuses every frame of the second, and
  never completes.  `session.rs:3-7` promises that it resumes.
* `ios_ignored`: a completed segment of another file discards the accumulated
  segments, while their sessions remain ignored; the file is then never merged,
  though all of its segments were stored (`ReceiverViewModel.swift:109`).
* `ios_stop`: a pending `begin` starts playing after the user went back
  (`SenderViewModel.swift:202`).

Other observations made while modelling; the properties are stated around them,
and those that a reader may run into are hazards with a note:

* A long name is cut to the room left in a symbol.  At 256 bytes per symbol a full
  segment has three blocks and leaves 54 bytes for the name, a short last one has
  one block and leaves 86.  With a name of 69 bytes the segments of one file
  announce different names, and `add_segment`, which compares them, refuses the
  last one for good.  A shorter first piece of the browser may do the same at another
  symbol size.  `ReassembledIsFile` promises a result for names that fit every
  descriptor of the file (`NameFits`).
* `next_qr_into` and `next_qr_multi_into` draw frames before they know that the
  buffer is long enough; what they drew is not shown again.
* A cadence of 1 shows descriptors only (`sender.rs:182`).
* After a pause longer than the window, the rate shown is the average of the whole
  session, the pause included, until two frames at different times were sent
  (`progress.rs:79`, `:90`).  The comment at `progress.rs:63-66` says that this happens
  in the first moments of a transfer only.  `RateIsLive` states the rates as the code
  has them: what it shows is that the fall-back is never taken, and no recent frame
  left out, because of a sample that was evicted.
* The mismatch streak is masked to 16 bits (`ingest_status.rs:49`), where line 37
  says that it is clamped.
* `jni.rs:161-163` says that a descriptor which brings no symbol counts as accepted
  too; the code below it does not, and agrees with C and the browser.
* `SenderSession::new` does not compare the object with `MAX_OBJECT_BYTES`; its
  receivers do.
* A second import forgets the staged copy of the first in the temporary directory
  (`SenderViewModel.swift:125`).
* A late answer to the question for access, or a restart of the media services,
  starts a camera that was stopped in the meantime (`CameraScanner.swift:57`, `:72`);
  and the report of an error may overtake that of an older success, so that the view
  shows a running camera that does not run.  `CameraFollowsView` names both.
* After a failed file operation the sessions ignored may include one whose data
  was not stored, and a cancelled loop that fails clears `playTask` of its
  successor: `IgnoredArrived`, `OneLoop` and `QuietWhenIdle` are stated for runs
  without failures.

## 6. Proofs

Eight modules hold theorems, checked by TLAPS.  They are for *every* value of the
constants: any streams, layouts, files, revisions, symbol sizes, hosts, numbers of
tasks, names, failures and restarts.

| Module | Theorem | States |
|---|---|---|
| `SenderBindingsProofs` | `NeverRepeats` | `BSpec => []FreshSymbols` |
| | `SourceFirst` | `BSpec => []SourceBeforeRepair` |
| | `SymbolsInRange` | `BSpec => []TypeOK` of the session |
| | `BlocksInStep` | `BSpec => []Lockstep`, from `EvenLayouts` |
| | `DescriptorsEverywhere` | `BSpec => []DescriptorRotation`, and the same for any number of codes |
| | `BindingsTyped` | `BSpec => []BindingsTypeOK` |
| | `NoSilentLoss` | `BSpec => []HandsOutWhatItTakes` |
| | `RatesOfRecent` | `BSpec => []RateIsLive` |
| `ReceiverSessionProofs` | `TypeCorrect` | `Spec => [](TypeOK /\ CacheDropped)` |
| | `NothingLost` | `Spec => []OfferedIsReceived` |
| | `DecoderPure` | `Spec => []NoMixing`, from `SizeTellsEncoding` |
| | `FirstDescriptorStays` | `Spec => DescriptorImmutable` |
| | `FramesAccounted` | `Spec => []FrameAccounting` |
| | `ProgressIsHonest` | `Spec => []ProgressHonest` |
| | `NothingTakenBack` | `Spec => MonotoneProgress` |
| `ReceiverBindingsProofs` | `RunsTheSession` | `BSpec => Spec` |
| | `BuffersFreedOnce` | `BSpec => []BuffersAccounted` |
| | `SymbolsAnnouncedOnce` | `BSpec => []AnnouncedOnce` |
| | `ToldIsUsable` | `BSpec => []CompleteIsUsable`, from `FilesAnnounced` |
| `TransferProofs` | `KeepsPromise` | `Spec` implements the safety of `ObjectTransfer`, from `FirstHasAllBlocks` |
| | `NoRepairNeeded` | `Spec => []NoRepairWithoutLoss`, from `OneSession`, `FirstIsRead`, `ScreenFitsCache` |
| | `RunsTheReceiver` | `Spec => R!Spec`: the theorems about the receiver session hold in a transfer |
| `SegmentAssemblyProofs` | `PaddingFits` | a padded segment stays within `MaxObjectBytes` for every symbol size |
| | `TypeCorrect` | `Spec => []TypeOK` |
| | `NoOtherRevision` | `Spec => []OneRevision` |
| | `OnlyTheFile` | what `Reassemble` returns is the file of the first descriptor |
| | `SegmentsStay` | `Spec => StoredStays` |
| | `FileComesBack` | `Spec => []ReassembledIsFile` |
| | `EveryOfferUnderstood` | `Spec => []OfferUnderstood`, from `NothingIsNone` |
| `IosReceiverProofs` | `TypeCorrect`, `MergeReads`, `SavesOnce`, `OnlyArrivedIgnored`, `ReceivedKept` | `TypeOK`, `MergeReadsFiles`, `SavedOnce`, `IgnoredArrived`, `NothingDropped` |
| | `CameraDoesAsAsked` | `CSpec => []CameraFollowsView` |
| | `LateFramesHarmless` | `CSpec => []` of `TypeOK`, `SavedOnce`, `MergeReadsFiles`, `IgnoredArrived` |
| `IosSenderProofs` | `TypeCorrect`, `OneLoopPlays`, `IdleIsQuiet` | `TypeOK`, `OneLoop`, `QuietWhenIdle` |
| `FileExportProofs` | `ExportTypeCorrect`, `SavedIsSent`, `OutputRemoved`, `FilesKept` | `TypeOK`, `HoldsWhatWasSent`, `NoPartialOutput`, `NeverOverwritten` |

*Assumptions.*  Each module's `...Assumption` gives the constants their types;
`ReceiverAssumption` says that a layout is a finite, non-empty sequence of positive
K, which `ObjectMeta::validate` enforces; `LimitsAssumption` is how the limits of the
code relate, and the configuration gives them the values of the code.  Some
statements are assumptions of the theorems that need them and of no other:

* `SizeTellsEncoding`: two streams with one id and one symbol size send the same
  symbols.  The code does not establish this, since the fingerprint covers both
  ends of the file only.
* `FilesAnnounced`: an accepted descriptor has a checksum and a compressed length,
  which is not more than its blocks hold.  `ingest` checks the latter
  (`receiver.rs:282`); the former leaves out descriptors of version 1.
* `RecoveredIsSent`: a small file that `assemble_result` accepts is the one sent;
  the code does not compare its checksum, so this rests on `NoMixing`.
* `FirstHasAllBlocks`: the stream shown first has every block number that another
  stream of the file has, because the promise is stated over the blocks of the
  first.
* `OneSession`, `FirstIsRead`, `ScreenFitsCache`: the streams of a file share their
  session id, which is the fingerprint of the file; the receiver understands the
  descriptor of the stream shown first; and the symbols beside a descriptor on one
  screen fit the cache of a receiver without a layout.  The app shows a few codes at
  a time and the cache holds megabytes.  With a smaller cache the property is false:
  a symbol refused before the descriptor is read (`receiver.rs:355`) has to be made up
  for by a repair symbol.
* `EvenLayouts`: the K of the blocks of an object differ by one at most.  This is the
  partition of RFC 6330 that the encoder takes its layouts from; the sender, given
  blocks of any other kind, would let the longer ones fall behind.
* `NothingIsNone`: the model value for Rust's `None` is not a descriptor.

*Arguments.*

* *Sender.*  That nothing is shown twice needs that the plan lists each source
  symbol in one place: `Rank` counts the symbols before one, ranks differ
  (`RankType`), and as many different ranks below N as there are symbols take every
  value (`RankOnto`).  `StreamInv` then relates the history to the cursors: what
  was shown is the plan up to `source_cursor` and the repair symbols up to
  `repair_cursor`.  `SelectSegment` starts a new history.  For `Lockstep` the symbols
  of a block are counted by the turns that it had in both phases; for the rotation,
  that multiples of the cadence meet every position is the pigeonhole principle on
  remainders.
* *Sender bindings.*  What a call has drawn and not handed over is the end of the
  history from where it began; the window keeps the end of the sequence of all times,
  and what was cut off is stale or followed by enough others; so the samples that count
  are the recent frames, and the fall-back is taken exactly when those are too few.
* *Receiver.*  `TypeOK` alone is not inductive: that a checkpoint holds no symbol,
  hence that `restore` replays nothing ill-typed, needs `CacheDropped` (the cache
  is empty once the layout is known).  What enters the decoder may have waited in
  the cache or come from a checkpoint; `FeedInv` therefore also says that layout,
  checkpoint, cached and offered symbols are of the receiver's session.  The
  counters balance only together with "before the layout is known
  `received_symbols` is the size of the cache" (`AccountInv`): the first descriptor
  turns each cached symbol into one received or one corrupt, which is the lemma on
  the replay.  Progress is a cardinality of units of each block; it equals the total
  exactly when no block lacks a unit, which is a subset argument and no sum.
* *Receiver bindings.*  Each call is a step of the session or none (`BSpec =>
  Spec`), so all of the above holds behind a handle.  `AnnouncedInv` bounds the
  tally by what was received or refused, `UsableInv` ties the last word and the
  length asked for to the descriptor.
* *Transfer.*  `ScreenInv` says that the frames under way are of streams of the
  file, `LayoutInv` that the layout is known exactly when it is confirmed, and
  `CheckpointInv` that a restart returns to no block.
  For `NoRepairNeeded`, `PassInv` follows each source symbol that the sender has taken:
  it is in the batch, on the screen and unread, or taken, which means in the cache or
  with the decoder.  The first frame is a descriptor, on the first screen, so before
  it is read the cache holds only what is beside it and nothing is refused.
  `CountInv` types the cursors, and the places of the plan are distinct, so at the end
  of the pass no symbol is left out; `SolvedInv` says that a block whose source symbols
  are all received is decoded.
  For `RunsTheReceiver`, `FramesInv` says that each frame under way is one of the
  stream shown: entries of the plan are source symbols, again by the pigeonhole
  principle, and repair symbols stay below `EsiLimit`.
* *Segments.*  Each stored piece is of the file that the first descriptor was
  about, by the digests that `add_segment` compares; what is stored is a finite
  set of indices below the count.
  `NamedInv` adds that names which fit were not cut, so that a genuine copy is
  always accepted (`GenuineAccepted`); with every index stored, the lengths add up to
  the size of the file.  That is a sum over a function of any size, by definition a
  recursive fold, and `SumOfRange` proves it without induction over an operator: if
  the sum of some prefix were wrong there would be a shortest one.  That a descriptor
  is understood is arithmetic: the partition of any number of symbols is valid
  (`PartitionFits`), padding adds less than a symbol, the name is cut to what is left
  (`FrameAnnounces`), and each check of the receiver follows (`Understood`).
* *iOS receiver.*  `SavedInv`: a file that was saved has its sessions ignored and
  what is accumulated is of sessions ignored; `FreshInv`: until something fails,
  no session stays complete and what is ignored has arrived.  A merge finds its files
  because only directories of files that the accumulator is *not* about are removed
  while it lives (`RemoveEffects`, `StoreMergeReads`); what a removal leaves is a part
  of what was there, hence of what arrived.
* *Camera.*  The view says what is wrong when the last job is done, although the jobs
  of two queues, the system's answer and errors meet in any order: `AccessInv` says
  what is possible before access is granted, `StoppedInv` that the last job stops a
  camera which nobody wants, `WantedInv` what will still set the view right for one
  that is wanted: a question, a job, a report or an error on its way.
* *iOS sender.*  `FilesInv`, `EnginesInv` and `LoopsInv` are the types of tasks and
  loops with what they refer to; `PlayInv`: until something fails, only the loop
  of `playTask` lives, and none while a file is being chosen.
* *Saving.*  The name an export writes to is nobody's file, and a flushed output
  holds what was hashed (`OutputInv`); a verified output is then what the
  descriptor promised.

*Only model-checked.*  Every safety invariant and safety action property that a
passing run checks is stated by a theorem.  Out of the prover's reach are liveness
under fairness and `ENABLED` (`EventuallyComplete`, `FileSaved`, `PlaysWhatItNames`,
`RetrySucceeds`, the fairness part of `Implements`), and what a recursive definition computes in general; where a sum was
needed, a least counterexample took the place of induction.

## 7. Not modelled

The bytes of symbols, frames and descriptors, hashes, compressors and rendering:
pure functions, or external code.  The partition of RaptorQ is external and given
by its definition.  `save_state` to JSON and back.  `segment_ranges` and `progress`
of the assembler, which are read-only.  The Java copy of the streaming
decompression, which repeats the C one, and the calls of Java that return arrays
of the virtual machine.  Presets, focus and the preview of the camera.  `assemble_result`
after a restore without a descriptor: no host in the repository restores.  Speed
and number of codes of the sending app are fixed when a loop starts.  A clock that
jumps back.  JNI and WASM hosts are not in the repository; the hosts of the
bindings' modules do whatever the interface permits.

## 8. Plan

All steps of the original plan have been taken.  What would come next: the theorems
of the receiver session restated over `Transfer`, by way of `RunsTheReceiver`; and a
host that restores a checkpoint, should the repository get one.
