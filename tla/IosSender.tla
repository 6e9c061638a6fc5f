------------------------------ MODULE IosSender ------------------------------
(***************************************************************************)
(* The sending side of the iOS app: SenderViewModel, its SenderEngine      *)
(* actor and the buttons of SenderView (apps/ios/AirFerryIOS/Sender).      *)
(*                                                                         *)
(* The view model runs on the main actor, but most of its operations are   *)
(* tasks that await something: reading the file, building the engine (a    *)
(* second or more for a large file), a call of the engine's actor, the     *)
(* rendering of the codes.  Between two awaits anything else may run: the  *)
(* user's taps, another task, and a photo that was picked a while ago and  *)
(* arrives only now.  Only the playing loop is ever cancelled.             *)
(*                                                                         *)
(* Imports are numbered: number n is the n-th file the user picked, and    *)
(* stands for its staged copy, its name and its modification time.  Every  *)
(* file has Segments segments.                                             *)
(***************************************************************************)
EXTENDS Naturals, FiniteSets, Sequences

CONSTANTS
  Segments,     (* segments of a file                                         *)
  None,
  MaxImports,   (* bound: files picked                                        *)
  MaxBegins,    (* bound: times sending is started                            *)
  MaxSelects,   (* bound: times another segment is selected                   *)
  MaxFailures   (* bound: failing operations                                  *)

ASSUME IosSenderAssumption ==
  /\ Segments \in Nat \ {0}
  /\ MaxImports \in Nat /\ MaxBegins \in Nat /\ MaxSelects \in Nat
  /\ MaxFailures \in Nat
  /\ None \notin Nat

VARIABLES
  phase,
  staged,        (* stagedURL, filename                                       *)
  modified,      (* modifiedMilliseconds: the import it belongs to            *)
  copies,        (* staged copies in the temporary directory                  *)
  engine,        (* the current SenderEngine                                  *)
  segmentIndex,
  images,        (* qrImages: engine and segment the codes come from          *)
  playTask,      (* the loop that playTask refers to                          *)
  photos,        (* imports from the photo library still loading              *)
  stages,        (* tasks of stage, per import                                *)
  begins,        (* tasks of begin that wait for the file or for the engine   *)
  selects,       (* tasks of selectSegment                                    *)
  loops,         (* every task of startLoop                                   *)
  engines,       (* every SenderEngine built: file, mtime and segment         *)
  started, selected, imports, failures, (* history: counts                    *)
  photoUsed,     (* history: a photo was picked                               *)
  stopped        (* history: reset was tapped after the last tap on "start"   *)

modelVars   == <<phase, staged, modified, copies, engine, segmentIndex, images, playTask>>
taskVars    == <<photos, stages, begins, selects, loops, engines>>
historyVars == <<started, selected, imports, failures, photoUsed, stopped>>
vars == <<modelVars, taskVars, historyVars>>

Phases == {"idle", "staging", "ready", "preparing", "playing", "failed"}

Init ==
  /\ phase = "idle"
  /\ staged = None /\ modified = None /\ copies = {}
  /\ engine = None /\ segmentIndex = 0 /\ images = None /\ playTask = None
  /\ photos = {} /\ stages = {} /\ begins = {} /\ selects = {}
  /\ loops = <<>> /\ engines = <<>>
  /\ started = 0 /\ selected = 0 /\ imports = 0 /\ failures = 0
  /\ photoUsed = FALSE /\ stopped = FALSE

Live(l) == loops[l].pc # "done" /\ ~loops[l].cancelled

\* The loops after playTask?.cancel().
CancelPlayTask ==
  IF playTask = None THEN loops ELSE [loops EXCEPT ![playTask].cancelled = TRUE]

\* Some operation throws.
Fails ==
  /\ failures < MaxFailures
  /\ failures' = failures + 1
  /\ UNCHANGED <<started, selected, imports, photoUsed, stopped>>

----------------------------------------------------------------------------
(* Choosing a file. *)

\* stage: the loop is cancelled, though playTask keeps it; the copying is a
\* task without an await.
Stage(n) ==
  /\ loops' = CancelPlayTask
  /\ phase' = "staging"
  /\ stages' = stages \cup {n}

PickFile ==
  /\ phase \in {"idle", "ready"}
  /\ imports < MaxImports
  /\ imports' = imports + 1
  /\ Stage(imports')
  /\ UNCHANGED <<staged, modified, copies, engine, segmentIndex, images, playTask,
                 photos, begins, selects, engines,
                 started, selected, failures, photoUsed, stopped>>

\* importPhoto: the task waits for the photo library, and the view stays.
PickPhoto ==
  /\ phase \in {"idle", "ready"}
  /\ imports < MaxImports
  /\ imports' = imports + 1
  /\ photos' = photos \cup {imports'}
  /\ photoUsed' = TRUE
  /\ UNCHANGED <<modelVars, stages, begins, selects, loops, engines,
                 started, selected, failures, stopped>>

PhotoArrives(n) ==
  /\ n \in photos
  /\ photos' = photos \ {n}
  /\ Stage(n)
  /\ UNCHANGED <<staged, modified, copies, engine, segmentIndex, images, playTask,
                 begins, selects, engines, historyVars>>

\* reportSelectionFailure.
PhotoFails(n) ==
  /\ n \in photos
  /\ photos' = photos \ {n}
  /\ phase' = "failed"
  /\ Fails
  /\ UNCHANGED <<staged, modified, copies, engine, segmentIndex, images, playTask,
                 stages, begins, selects, loops, engines>>

\* The copy staged before, if any, is not removed.
StageTask(n) ==
  /\ n \in stages
  /\ stages' = stages \ {n}
  /\ \/ /\ phase' = "ready"
        /\ staged' = n
        /\ modified' = n
        /\ copies' = copies \cup {n}
        /\ UNCHANGED historyVars
     \/ /\ phase' = "failed"
        /\ Fails
        /\ UNCHANGED <<staged, modified, copies>>
  /\ UNCHANGED <<engine, segmentIndex, images, playTask, photos, begins, selects,
                 loops, engines>>

----------------------------------------------------------------------------
(* Playing. *)

\* Bug: the loop that plays is not cancelled.
NewLoopUncancelled(e) ==
  IF e = None THEN UNCHANGED <<loops, playTask>>
  ELSE /\ loops' = Append(loops, [engine |-> e, pc |-> "take", frames |-> None,
                                  cancelled |-> FALSE])
       /\ playTask' = Len(loops) + 1

\* startLoop, with e the engine of the view model.
StartLoop(e) ==
  IF e = None THEN UNCHANGED <<loops, playTask>>
  ELSE /\ loops' = Append(CancelPlayTask,
                          [engine |-> e, pc |-> "take", frames |-> None,
                           cancelled |-> FALSE])
       /\ playTask' = Len(loops) + 1

GoTo(l, pc) == loops' = [loops EXCEPT ![l].pc = pc]

\* engine.nextFrames, after the cancellation check at the top of the loop.
LoopTake(l) ==
  /\ loops[l].pc = "take"
  /\ \/ /\ loops' = [loops EXCEPT ![l].pc = "show",
                       ![l].frames = [engine |-> loops[l].engine,
                                      segment |-> engines[loops[l].engine].segment]]
        /\ UNCHANGED <<phase, playTask, historyVars>>
     \/ /\ GoTo(l, "done")
        /\ phase' = "failed"
        /\ playTask' = None
        /\ Fails
  /\ UNCHANGED <<staged, modified, copies, engine, segmentIndex, images,
                 photos, stages, begins, selects, engines>>

\* The codes are rendered.
LoopShow(l) ==
  /\ loops[l].pc = "show"
  /\ IF loops[l].cancelled
     THEN GoTo(l, "done") /\ UNCHANGED images
     ELSE GoTo(l, "sleep") /\ images' = loops[l].frames
  /\ UNCHANGED <<phase, staged, modified, copies, engine, segmentIndex, playTask,
                 photos, stages, begins, selects, engines, historyVars>>

LoopSleep(l) ==
  /\ loops[l].pc = "sleep"
  /\ GoTo(l, IF loops[l].cancelled THEN "done" ELSE "take")
  /\ UNCHANGED <<modelVars, photos, stages, begins, selects, engines, historyVars>>

LoopStep(l) == LoopTake(l) \/ LoopShow(l) \/ LoopSleep(l)

\* begin, up to its first await.
Begin ==
  /\ phase = "ready"
  /\ staged # None
  /\ started < MaxBegins
  /\ started' = started + 1
  /\ phase' = "preparing"
  /\ images' = None
  /\ begins' = begins \cup {[id |-> started', file |-> staged, mtime |-> None,
                             engine |-> None, pc |-> "read"]}
  /\ stopped' = FALSE
  /\ UNCHANGED <<staged, modified, copies, engine, segmentIndex, playTask,
                 photos, stages, selects, loops, engines,
                 selected, imports, failures, photoUsed>>

BeginFails(t) ==
  /\ begins' = begins \ {t}
  /\ phase' = "failed"
  /\ UNCHANGED <<staged, modified, copies, engine, segmentIndex, images, playTask,
                 photos, stages, selects, loops, engines>>

\* The file was read, or is gone; the modification time is taken only now.
BeginRead(t) ==
  /\ t.pc = "read"
  /\ \/ /\ t.file \in copies
        /\ begins' = (begins \ {t}) \cup {[t EXCEPT !.pc = "build", !.mtime = modified]}
        /\ UNCHANGED <<modelVars, photos, stages, selects, loops, engines, historyVars>>
     \/ /\ t.file \notin copies
        /\ BeginFails(t)
        /\ UNCHANGED historyVars
     \/ /\ Fails
        /\ BeginFails(t)

\* The engine was built, on its first segment.
BeginBuilt(t) ==
  /\ t.pc = "build"
  /\ \/ /\ engines' = Append(engines, [file |-> t.file, mtime |-> t.mtime, segment |-> 0])
        /\ engine' = Len(engines')
        /\ begins' = (begins \ {t}) \cup {[t EXCEPT !.pc = "play", !.engine = engine']}
        /\ UNCHANGED <<phase, staged, modified, copies, segmentIndex, images, playTask,
                       photos, stages, selects, loops, historyVars>>
     \/ /\ Fails
        /\ BeginFails(t)

\* newEngine.info() has answered.
BeginPlay(t) ==
  /\ t.pc = "play"
  /\ begins' = begins \ {t}
  /\ segmentIndex' = engines[t.engine].segment
  /\ phase' = "playing"
  /\ StartLoop(engine)
  /\ UNCHANGED <<staged, modified, copies, engine, images,
                 photos, stages, selects, engines, historyVars>>

BeginTask(t) == BeginRead(t) \/ BeginBuilt(t) \/ BeginPlay(t)

\* Bug: the number shown to the user, which counts from 1, is passed on.
SelectSegmentFromOne(index) ==
  /\ phase = "playing"
  /\ engine # None
  /\ index + 1 = segmentIndex \/ index = segmentIndex + 1
  /\ selected < MaxSelects
  /\ selected' = selected + 1
  /\ loops' = CancelPlayTask
  /\ playTask' = None
  /\ phase' = "preparing"
  /\ selects' = selects \cup {[engine |-> engine, index |-> index + 1, pc |-> "call"]}
  /\ UNCHANGED <<staged, modified, copies, engine, segmentIndex, images,
                 photos, stages, begins, engines,
                 started, imports, failures, photoUsed, stopped>>

\* selectSegment, up to its await; the buttons offer the neighbouring segments.
SelectSegment(index) ==
  /\ phase = "playing"
  /\ engine # None
  /\ index \in 0..(Segments - 1)
  /\ index + 1 = segmentIndex \/ index = segmentIndex + 1
  /\ selected < MaxSelects
  /\ selected' = selected + 1
  /\ loops' = CancelPlayTask
  /\ playTask' = None
  /\ phase' = "preparing"
  /\ selects' = selects \cup {[engine |-> engine, index |-> index, pc |-> "call"]}
  /\ UNCHANGED <<staged, modified, copies, engine, segmentIndex, images,
                 photos, stages, begins, engines,
                 started, imports, failures, photoUsed, stopped>>

\* The engine's actor switches its session.
SelectCall(t) ==
  /\ t.pc = "call"
  /\ \/ /\ engines' = [engines EXCEPT ![t.engine].segment = t.index]
        /\ selects' = (selects \ {t}) \cup {[t EXCEPT !.pc = "play"]}
        /\ UNCHANGED <<phase, historyVars>>
     \/ /\ selects' = selects \ {t}
        /\ phase' = "failed"
        /\ UNCHANGED engines
        /\ Fails
  /\ UNCHANGED <<staged, modified, copies, engine, segmentIndex, images, playTask,
                 photos, stages, begins, loops>>

\* Bug: the segment shown in the header is not updated.
SelectPlayUnapplied(t) ==
  /\ t.pc = "play"
  /\ selects' = selects \ {t}
  /\ phase' = "playing"
  /\ StartLoop(engine)
  /\ UNCHANGED <<staged, modified, copies, engine, segmentIndex, images,
                 photos, stages, begins, engines, historyVars>>

SelectPlay(t) ==
  /\ t.pc = "play"
  /\ selects' = selects \ {t}
  /\ segmentIndex' = t.index
  /\ phase' = "playing"
  /\ StartLoop(engine)
  /\ UNCHANGED <<staged, modified, copies, engine, images,
                 photos, stages, begins, engines, historyVars>>

SelectTask(t) == SelectCall(t) \/ SelectPlay(t)

\* Bug: playTask is forgotten without being cancelled.
LoopsAfterResetRunning == loops

LoopsAfterReset == CancelPlayTask

\* reset, from the player or from the failure view.
Reset ==
  /\ phase \in {"playing", "failed"}
  /\ loops' = LoopsAfterReset
  /\ playTask' = None
  /\ engine' = None
  /\ copies' = copies \ {staged}
  /\ staged' = None
  /\ modified' = None
  /\ images' = None
  /\ segmentIndex' = 0
  /\ phase' = "idle"
  /\ stopped' = TRUE
  /\ UNCHANGED <<photos, stages, begins, selects, engines,
                 started, selected, imports, failures, photoUsed>>

UserStep ==
  \/ PickFile
  \/ PickPhoto
  \/ Begin
  \/ \E index \in 0..(Segments - 1) : SelectSegment(index)
  \/ Reset

TaskStep ==
  \/ \E n \in stages : StageTask(n)
  \/ \E t \in begins : BeginTask(t)
  \/ \E t \in selects : SelectTask(t)

Next ==
  \/ UserStep
  \/ TaskStep
  \/ \E n \in photos : PhotoArrives(n) \/ PhotoFails(n)
  \/ \E l \in DOMAIN loops : LoopStep(l)

\* The main actor and the engine's actor run every task that is ready.  The
\* user and the photo library owe nothing.
Fairness ==
  /\ WF_vars(TaskStep)
  /\ \A l \in 1..(MaxBegins + MaxSelects) : WF_vars(l \in DOMAIN loops /\ LoopStep(l))

Spec == Init /\ [][Next]_vars /\ Fairness

----------------------------------------------------------------------------
(* Properties. *)

\* Each variable keeps its type; every task and the view model refer to engines
\* and loops that exist.
TypeOK ==
  /\ phase \in Phases
  /\ staged \in 1..imports \cup {None} /\ modified \in 1..imports \cup {None}
  /\ copies \subseteq 1..imports
  /\ engine \in DOMAIN engines \cup {None}
  /\ segmentIndex \in 0..(Segments - 1)
  /\ images = None \/ images \in [engine : DOMAIN engines, segment : 0..(Segments - 1)]
  /\ playTask \in DOMAIN loops \cup {None}
  /\ photos \subseteq 1..imports /\ stages \subseteq 1..imports
  /\ \A t \in begins :
       t.pc \in {"read", "build"} \/ (t.pc = "play" /\ t.engine \in DOMAIN engines)
  /\ \A t \in selects : t.engine \in DOMAIN engines /\ t.pc \in {"call", "play"}
  /\ \A l \in DOMAIN loops :
       /\ loops[l].engine \in DOMAIN engines
       /\ loops[l].pc \in {"take", "show", "sleep", "done"}
  /\ \A e \in DOMAIN engines :
       engines[e].file \in 1..imports /\ engines[e].segment \in 0..(Segments - 1)

LiveLoops == {l \in DOMAIN loops : Live(l)}

\* The codes of two files, or of two segments, never take turns on the screen:
\* at most one loop is running, and playTask can stop it.  A loop that fails
\* after it was cancelled breaks this, for it forgets the playTask of its
\* successor (SenderViewModel.swift:219-244).
OneLoop == failures = 0 => LiveLoops \subseteq {playTask}

\* Back on the page where a file is chosen nothing is played any more, and no
\* late task brings a code of the old file back (SenderViewModel.swift:202-217).
QuietWhenIdle == failures = 0 /\ phase = "idle" => images = None /\ LiveLoops = {}

\* If files come from the file importer and nothing fails, then once the user
\* lets it play, the codes on the screen are those of the segment that the
\* header names.
PlaysWhatItNames ==
  <>[](phase = "playing" /\ ~photoUsed /\ failures = 0 =>
         images = [engine |-> engine, segment |-> segmentIndex])

\* Documented (docs/build-ios.md, sending, 4): going back stops the playing at
\* any time.  Nothing plays then until the user starts sending again.
StopMeansStop == stopped => phase # "playing"
=============================================================================
