----------------------------- MODULE IosReceiver -----------------------------
(***************************************************************************)
(* The receiving side of the iOS app: ReceiverViewModel with its           *)
(* SegmentAccumulator, the NativeReceiver it drives and the camera that    *)
(* feeds it (apps/ios/AirFerryIOS/Receiver, Core/AirFerryNative.swift).    *)
(*                                                                         *)
(* The camera decodes frames on its own queue and starts one task on the   *)
(* main actor for each; a task runs later, perhaps after the user has      *)
(* started over.  The view model hands the frame to the one native session *)
(* there is, and when that session is complete stores a segment, merges    *)
(* the segments or saves the file.                                         *)
(*                                                                         *)
(* A session is <<root, index>>: a large file is sent as Count[root]       *)
(* sessions, one per segment, a small one (Count[root] = 1) as one.  The   *)
(* engine is modelled by what the app sees of it: it is bound to the       *)
(* session of its first frame, ignores the frames of others, and completes *)
(* after Need frames of its own (ReceiverSession.tla says which).          *)
(***************************************************************************)
EXTENDS Naturals, FiniteSets

CONSTANTS
  Roots,        (* files that may be sent                                     *)
  Count,        (* segments of each                                           *)
  Need,         (* frames that complete a session                             *)
  None,
  MaxTasks,     (* bound: tasks waiting for the main actor                    *)
  MaxFailures,  (* bound: failing file operations                             *)
  MaxUndeleted, (* bound: files whose directory could not be removed          *)
  MaxResets     (* bound: times the user starts over                          *)

Indices(root) == 0..(Count[root] - 1)
Sessions == UNION {{root} \X Indices(root) : root \in Roots}
Segmented(root) == Count[root] > 1

\* NativeReceiver and SegmentAccumulator.
Receivers    == [session : Sessions, frames : 1..Need]
Accumulators == UNION {[root : {root}, received : SUBSET Indices(root)] : root \in Roots}

ASSUME IosReceiverAssumption ==
  /\ None \notin Roots /\ None \notin Receivers /\ None \notin Accumulators
  /\ Count \in [Roots -> Nat \ {0}]
  /\ Need \in Nat \ {0}
  /\ MaxTasks \in Nat /\ MaxFailures \in Nat /\ MaxUndeleted \in Nat /\ MaxResets \in Nat

VARIABLES
  showing,         (* the session on the sender's screen                      *)
  camera,          (* whether the capture session runs                        *)
  tasks,           (* tasks { ingest(payload) } waiting, per session          *)
  native,          (* NativeReceiver.handle: its session and frames so far    *)
  accumulator,     (* SegmentAccumulator?: root and received                  *)
  disk,            (* per root, the segments in AirFerryIncoming/<rootKey>    *)
  ignored,         (* ignoredSessionKeys                                      *)
  completedFile,
  errorMessage,    (* whether the error alert is up                           *)
  saved,           (* history: times each file was saved since the last reset *)
  arrived,         (* history: sessions stored or saved since the last reset  *)
  undeleted,       (* history: files whose directory could not be removed     *)
  failures, resets (* history: counts                                         *)

sessionVars == <<native, accumulator, disk, ignored, completedFile, errorMessage>>
historyVars == <<saved, arrived, undeleted, failures>>
vars == <<showing, camera, tasks, sessionVars, historyVars, resets>>

Init ==
  /\ showing \in Sessions
  /\ camera = TRUE
  /\ tasks = [s \in Sessions |-> 0]
  /\ native = None
  /\ accumulator = None
  /\ disk = [root \in Roots |-> {}]
  /\ ignored = {}
  /\ completedFile = None
  /\ errorMessage = FALSE
  /\ saved = [root \in Roots |-> 0]
  /\ arrived = {}
  /\ undeleted = {}
  /\ failures = 0
  /\ resets = 0

----------------------------------------------------------------------------
(* The camera and the sender's user. *)

Waiting == UNION {{s} \X (1..tasks[s]) : s \in Sessions}

\* onPayload: one more frame of the screen becomes a task.
Film ==
  /\ Cardinality(Waiting) < MaxTasks
  /\ tasks' = [tasks EXCEPT ![showing] = @ + 1]
  /\ UNCHANGED <<showing, camera, sessionVars, historyVars, resets>>

\* CameraScanner.tla says how the camera comes to run, and for how much longer.
Capture == camera /\ Film

\* The user of the sender shows another session.
ShowSession(s) ==
  /\ showing' = s
  /\ UNCHANGED <<camera, tasks, sessionVars, historyVars, resets>>

----------------------------------------------------------------------------
(* ReceiverViewModel.ingest, by outcome. *)

\* Bug: the session of a frame is not compared with the receiver's.
FedByAny(s) ==
  IF native = None THEN [session |-> s, frames |-> 1]
  ELSE IF native.frames < Need THEN [native EXCEPT !.frames = @ + 1] ELSE native

\* The native session after a frame of s.
Fed(s) ==
  IF native = None THEN [session |-> s, frames |-> 1]
  ELSE IF native.session = s /\ native.frames < Need
       THEN [native EXCEPT !.frames = @ + 1]
       ELSE native

Run(s) ==
  /\ tasks[s] > 0
  /\ tasks' = [tasks EXCEPT ![s] = @ - 1]
  /\ UNCHANGED <<showing, resets>>

IngestIgnored(s) ==
  /\ Run(s)
  /\ s \in ignored
  /\ UNCHANGED <<camera, sessionVars, historyVars>>

IngestPart(s) ==
  /\ Run(s)
  /\ s \notin ignored
  /\ Fed(s).frames < Need
  /\ native' = Fed(s)
  /\ UNCHANGED <<camera, accumulator, disk, ignored, completedFile, errorMessage,
                 historyVars>>

\* Bug: a finished session is not remembered.
Remembered(s) == ignored

\* The key added to ignoredSessionKeys: that of the frame at hand.
IgnoredWith(s) == ignored \cup {s}

\* After a frame of s the native session is complete.
Completing(s) ==
  /\ Run(s)
  /\ s \notin ignored
  /\ Fed(s).frames = Need
  /\ ignored' = IgnoredWith(s)

\* A file operation of the completion throws.
Throw ==
  /\ failures < MaxFailures
  /\ failures' = failures + 1
  /\ errorMessage' = TRUE
  /\ UNCHANGED <<camera, completedFile, saved>>

\* finish: the camera is stopped and the file offered to the user.
Finish(root) ==
  /\ camera' = FALSE
  /\ completedFile' = root
  /\ saved' = [saved EXCEPT ![root] = @ + 1]
  /\ UNCHANGED <<errorMessage, failures>>

\* A single object is assembled and saved.
SaveFile(s) ==
  LET done == Fed(s).session
  IN  /\ Completing(s)
      /\ ~Segmented(done[1])
      /\ UNCHANGED <<accumulator, disk, undeleted>>
      /\ \/ /\ Finish(done[1])
            /\ native' = None
            /\ arrived' = arrived \cup {done}
         \/ /\ Throw
            /\ native' = Fed(s)
            /\ UNCHANGED arrived

\* The bytes of a segment cannot be had from the native session, which stays
\* complete; nothing else was touched yet.
SegmentUnreadable(s) ==
  /\ Completing(s)
  /\ Segmented(Fed(s).session[1])
  /\ Throw
  /\ native' = Fed(s)
  /\ UNCHANGED <<accumulator, disk, arrived, undeleted>>

\* Bug: the accumulator of another file is kept.
AccumulatorStays(root) == IF accumulator = None THEN {} ELSE accumulator.received

\* Bug: every segment starts an accumulator of its own.
AccumulatedAlone(root) == {}

\* What the accumulator for root holds before the segment is stored: a segment
\* of another file starts a new one.
Accumulated(root) ==
  IF accumulator = None \/ accumulator.root # root THEN {} ELSE accumulator.received

\* The file that the accumulator is of, if there is one.
Held == IF accumulator = None THEN {} ELSE {accumulator.root}

\* Bug: the directory of the accumulator that is dropped is left behind.
LeftBehind(root) == {}

\* The file whose accumulator a segment of root replaces.
Dropped(root) == Held \ {root}

\* "try? removeItem" of the directory of a file: where the system refuses, any of
\* the segments stay and nobody is told.
Remove(gone, files) ==
  \E left \in SUBSET UNION {files[root] : root \in gone} :
    /\ disk' = [root \in Roots |-> IF root \in gone THEN left ELSE files[root]]
    /\ undeleted' = IF left = {} THEN undeleted \ gone ELSE undeleted \cup gone
    /\ Cardinality(undeleted') <= MaxUndeleted

Stored(root, index) == [disk EXCEPT ![root] = @ \cup {index}]

\* A segment is stored, the first steps of finishCurrentSession.
StoreSegment(s) ==
  LET root  == Fed(s).session[1]
      index == Fed(s).session[2]
  IN  /\ Completing(s)
      /\ Segmented(root)
      /\ Accumulated(root) \cup {index} # Indices(root)
      /\ native' = None
      /\ accumulator' = [root |-> root, received |-> Accumulated(root) \cup {index}]
      /\ Remove(Dropped(root), Stored(root, index))
      /\ arrived' = arrived \cup {Fed(s).session}
      /\ UNCHANGED <<camera, completedFile, errorMessage, saved, failures>>

\* Bug: the native session is reset before the segment is on disk.
StoreFailsAfterReset(s) ==
  LET root == Fed(s).session[1]
  IN  /\ Completing(s)
      /\ Segmented(root)
      /\ Throw
      /\ native' = None
      /\ accumulator' = [root |-> root, received |-> Accumulated(root)]
      /\ Remove(Dropped(root), disk)
      /\ UNCHANGED arrived

\* Writing the segment throws: the native session stays complete.
StoreFails(s) ==
  LET root == Fed(s).session[1]
  IN  /\ Completing(s)
      /\ Segmented(root)
      /\ Throw
      /\ native' = Fed(s)
      /\ accumulator' = [root |-> root, received |-> Accumulated(root)]
      /\ Remove(Dropped(root), disk)
      /\ UNCHANGED arrived

\* The last segment is stored and finishAccumulator merges all of them.  The
\* accumulator was of this file already, since there is more than one segment.
Merge(s) ==
  LET root  == Fed(s).session[1]
      index == Fed(s).session[2]
  IN  /\ Completing(s)
      /\ Segmented(root)
      /\ Accumulated(root) \cup {index} = Indices(root)
      /\ native' = None
      /\ arrived' = arrived \cup {Fed(s).session}
      /\ \/ /\ Finish(root)
            /\ accumulator' = None
            /\ Remove({root}, Stored(root, index))
         \/ /\ Throw
            /\ accumulator' = [root |-> root, received |-> Indices(root)]
            /\ disk' = Stored(root, index)
            /\ UNCHANGED undeleted

Ingest(s) ==
  \/ IngestIgnored(s)
  \/ IngestPart(s)
  \/ SaveFile(s)
  \/ SegmentUnreadable(s)
  \/ StoreSegment(s)
  \/ StoreFails(s)
  \/ Merge(s)

----------------------------------------------------------------------------
(* The receiver's user. *)

\* reset: "retry" on the error alert, "receive next" after a file.  Tasks that
\* wait are not cancelled.
Reset ==
  /\ errorMessage \/ completedFile # None
  /\ resets < MaxResets
  /\ resets' = resets + 1
  /\ native' = None
  /\ Remove(Held, disk)
  /\ accumulator' = None
  /\ ignored' = {}
  /\ completedFile' = None
  /\ errorMessage' = FALSE
  /\ camera' = TRUE
  /\ saved' = [root \in Roots |-> 0]
  /\ arrived' = {}
  /\ UNCHANGED <<showing, tasks, failures>>

\* "Cancel" on the error alert.
Dismiss ==
  /\ errorMessage
  /\ errorMessage' = FALSE
  /\ UNCHANGED <<showing, camera, tasks, native, accumulator, disk, ignored,
                 completedFile, historyVars, resets>>

\* The view goes away and comes back: the camera stops and starts.
Leave ==
  /\ camera' = ~camera
  /\ UNCHANGED <<showing, tasks, sessionVars, historyVars, resets>>

Next ==
  \/ Capture
  \/ \E s \in Sessions : ShowSession(s) \/ Ingest(s)
  \/ Reset \/ Dismiss \/ Leave

Spec == Init /\ [][Next]_vars

----------------------------------------------------------------------------
(* Properties. *)

\* Each variable keeps its type; in particular no task runs that was not queued,
\* and no segment is stored that its file has not.
TypeOK ==
  /\ showing \in Sessions
  /\ camera \in BOOLEAN
  /\ tasks \in [Sessions -> Nat]
  /\ native \in Receivers \cup {None}
  /\ accumulator \in Accumulators \cup {None}
  /\ DOMAIN disk = Roots
  /\ \A root \in Roots : disk[root] \subseteq Indices(root)
  /\ ignored \subseteq Sessions
  /\ completedFile \in Roots \cup {None}
  /\ errorMessage \in BOOLEAN
  /\ saved \in [Roots -> Nat]
  /\ arrived \subseteq Sessions
  /\ undeleted \subseteq Roots
  /\ failures \in 0..MaxFailures
  /\ resets \in 0..MaxResets

\* concatenate reads a file for every segment the accumulator counts: each of
\* them is in the directory and arrived since the user last started over, so that
\* what a refused removal left behind is not taken for one, across failures,
\* switches between two files and resets.  Temporary data of another file, or of
\* one that was saved or given up, is on the phone only where the system refused
\* to remove it (ReceiverViewModel.swift:18-29, 60, 109-113, 143).
MergeReadsFiles ==
  /\ accumulator # None =>
       \A index \in accumulator.received :
         index \in disk[accumulator.root] /\ <<accumulator.root, index>> \in arrived
  /\ \A root \in Roots : disk[root] # {} => root \in Held \cup undeleted

\* While no file operation fails, a session is put on the list of those to
\* ignore only if its data was stored: none is shut out by the frames of
\* another one (ReceiverViewModel.swift:76, 89-93).
IgnoredArrived == failures = 0 => ignored \subseteq arrived

\* A file is saved once, however long the sender goes on showing it and however
\* many of its frames are still waiting (ReceiverViewModel.swift:76, 91).
SavedOnce == \A root \in Roots : saved[root] <= 1

\* The symbols received of a session are given up only for what they were
\* collected for, or when the user starts over: neither a failing disk nor the
\* frames of another session discard them (ReceiverViewModel.swift:103-134).
NothingDropped ==
  [][native # None /\ native' = None /\ ~Reset => native.session \in arrived']_vars

\* Documented (docs/build-ios.md, receiving, 3): the segments of a large file
\* are written to a temporary directory first and merged when all are there.
AllArrivedMerged ==
  \A root \in Roots :
    failures = 0 /\ {root} \X Indices(root) \subseteq arrived => saved[root] = 1
=============================================================================
