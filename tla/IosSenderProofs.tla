--------------------------- MODULE IosSenderProofs ---------------------------
(***************************************************************************)
(* Theorems about IosSender, for any number of files, segments, taps,      *)
(* tasks that wait and failures.                                           *)
(***************************************************************************)
EXTENDS IosSender, TLAPS

Indices == 0..(Segments - 1)
Points  == {"take", "show", "sleep", "done"}
Numbers == Nat \cup {None}

Loops   == [engine : Nat, pc : Points,
            frames : [engine : Nat, segment : Indices] \cup {None}, cancelled : BOOLEAN]
Engines == [file : Nat, mtime : Numbers, segment : Indices]
Begins  == [id : Nat, file : Nat, mtime : Numbers, engine : Numbers,
            pc : {"read", "build", "play"}]
Selects == [engine : Nat, index : Indices, pc : {"call", "play"}]

\* The files: what is staged, loading or copied was picked.
FilesInv ==
  /\ imports \in Nat /\ started \in Nat
  /\ staged \in 1..imports \cup {None} /\ modified \in 1..imports \cup {None}
  /\ copies \subseteq 1..imports
  /\ photos \subseteq 1..imports /\ stages \subseteq 1..imports

\* The engines, and who refers to them.
EnginesInv ==
  /\ engines \in Seq(Engines)
  /\ \A e \in DOMAIN engines : engines[e].file \in 1..imports
  /\ engine \in DOMAIN engines \cup {None}
  /\ images = None \/ images \in [engine : DOMAIN engines, segment : Indices]
  /\ segmentIndex \in Indices
  /\ begins \subseteq Begins
  /\ \A t \in begins :
       t.file \in 1..imports /\ (t.pc = "play" => t.engine \in DOMAIN engines)
  /\ selects \subseteq Selects
  /\ \A t \in selects : t.engine \in DOMAIN engines

\* The loops.
LoopsInv ==
  /\ loops \in Seq(Loops)
  /\ playTask \in DOMAIN loops \cup {None}
  /\ \A l \in DOMAIN loops :
       /\ loops[l].engine \in DOMAIN engines
       /\ loops[l].pc = "show" =>
            loops[l].frames \in [engine : DOMAIN engines, segment : Indices]

IInv == phase \in Phases /\ FilesInv /\ EnginesInv /\ LoopsInv

\* An element of a sequence.
LEMMA Element ==
  ASSUME NEW S, NEW s \in Seq(S)
  PROVE  /\ DOMAIN s = 1..Len(s) /\ Len(s) \in Nat /\ DOMAIN s \subseteq Nat
         /\ \A i \in DOMAIN s : s[i] \in S
OBVIOUS

LEMMA InvType == IInv => TypeOK
<1> SUFFICES ASSUME IInv PROVE TypeOK
  OBVIOUS
<1>. USE DEF IInv
<1>1. \A t \in begins :
        t.pc \in {"read", "build"} \/ (t.pc = "play" /\ t.engine \in DOMAIN engines)
  BY DEF EnginesInv, Begins
<1>2. \A t \in selects : t.engine \in DOMAIN engines /\ t.pc \in {"call", "play"}
  BY DEF EnginesInv, Selects
<1>3. \A l \in DOMAIN loops : loops[l].engine \in DOMAIN engines /\ loops[l].pc \in Points
  <2>1. \A l \in DOMAIN loops : loops[l] \in Loops
    BY Element DEF LoopsInv
  <2>. QED  BY <2>1 DEF LoopsInv, Loops
<1>4. \A e \in DOMAIN engines : engines[e].file \in 1..imports /\ engines[e].segment \in Indices
  <2>1. \A e \in DOMAIN engines : engines[e] \in Engines
    BY Element DEF EnginesInv
  <2>. QED  BY <2>1 DEF EnginesInv, Engines
<1>. QED  BY <1>1, <1>2, <1>3, <1>4 DEF TypeOK, FilesInv, EnginesInv, LoopsInv, Indices, Points

LEMMA InitInv == Init => IInv
<1> SUFFICES ASSUME Init PROVE IInv
  OBVIOUS
<1>1. FilesInv
  BY DEF Init, FilesInv
<1>2. 0 \in Indices
  BY IosSenderAssumption DEF Indices
<1>3. EnginesInv /\ LoopsInv
  BY <1>2 DEF Init, EnginesInv, LoopsInv
<1>. QED  BY <1>1, <1>3 DEF Init, IInv, Phases

----------------------------------------------------------------------------
(* The loops. *)

\* The same loops, of which at most one has been cancelled.
LEMMA CancelType ==
  ASSUME LoopsInv
  PROVE  /\ CancelPlayTask \in Seq(Loops) /\ Len(CancelPlayTask) = Len(loops)
         /\ DOMAIN CancelPlayTask = DOMAIN loops
         /\ \A l \in DOMAIN loops :
              /\ CancelPlayTask[l].engine = loops[l].engine
              /\ CancelPlayTask[l].pc = loops[l].pc
              /\ CancelPlayTask[l].frames = loops[l].frames
              /\ CancelPlayTask[l].cancelled = (loops[l].cancelled \/ l = playTask)
<1>1. CASE playTask = None
  <2>1. \A l \in DOMAIN loops : l # playTask /\ loops[l].cancelled \in BOOLEAN
    <3>1. DOMAIN loops \subseteq Nat /\ \A l \in DOMAIN loops : loops[l] \in Loops
      BY Element DEF LoopsInv
    <3>. QED  BY <1>1, <3>1, IosSenderAssumption DEF Loops
  <2>. QED  BY <1>1, <2>1 DEF CancelPlayTask, LoopsInv
<1>2. CASE playTask # None
  <2>1. playTask \in DOMAIN loops /\ loops \in Seq(Loops)
    BY <1>2 DEF LoopsInv
  <2>2. loops[playTask] \in Loops
    BY <2>1
  <2>3. [loops[playTask] EXCEPT !.cancelled = TRUE] \in Loops
    BY <2>2 DEF Loops
  <2>4. CancelPlayTask = [loops EXCEPT ![playTask] = [loops[playTask] EXCEPT !.cancelled = TRUE]]
    BY <1>2 DEF CancelPlayTask
  <2>5. CancelPlayTask \in Seq(Loops) /\ Len(CancelPlayTask) = Len(loops)
    BY <2>1, <2>3, <2>4
  <2>6. \A l \in DOMAIN loops : loops[l] \in Loops
    BY <2>1
  <2>. QED  BY <2>1, <2>2, <2>4, <2>5, <2>6 DEF Loops
<1>. QED  BY <1>1, <1>2

\* startLoop: the old loop is cancelled, and playTask is the new one.
LEMMA StartType ==
  ASSUME LoopsInv, NEW e, e \in DOMAIN engines \cup {None}, DOMAIN engines \subseteq Nat,
         engines' = engines, StartLoop(e)
  PROVE  LoopsInv'
<1>1. CASE e = None
  BY <1>1 DEF StartLoop, LoopsInv
<1>2. CASE e # None
  <2> DEFINE new == [engine |-> e, pc |-> "take", frames |-> None, cancelled |-> FALSE]
  <2>1. loops' = Append(CancelPlayTask, new) /\ playTask' = Len(loops) + 1
    BY <1>2 DEF StartLoop
  <2>2. new \in Loops /\ new.engine \in DOMAIN engines /\ new.pc # "show"
    BY <1>2 DEF Loops, Points
  <2>. HIDE DEF new
  <2>3. /\ CancelPlayTask \in Seq(Loops) /\ Len(CancelPlayTask) = Len(loops)
        /\ DOMAIN CancelPlayTask = DOMAIN loops
        /\ \A l \in DOMAIN loops :
             /\ CancelPlayTask[l].engine = loops[l].engine
             /\ CancelPlayTask[l].pc = loops[l].pc
             /\ CancelPlayTask[l].frames = loops[l].frames
    BY CancelType
  <2>4. loops' \in Seq(Loops) /\ Len(loops') = Len(loops) + 1
    BY <2>1, <2>2, <2>3
  <2>5. DOMAIN loops' = 1..(Len(loops) + 1) /\ playTask' \in DOMAIN loops'
    BY <2>1, <2>3, <2>4, Element
  <2>6. \A l \in DOMAIN loops' :
          \/ l \in DOMAIN loops /\ loops'[l] = CancelPlayTask[l]
          \/ loops'[l] = new
    BY <2>1, <2>2, <2>3, <2>5
  <2>7. \A l \in DOMAIN loops :
          /\ loops[l].engine \in DOMAIN engines
          /\ loops[l].pc = "show" =>
               loops[l].frames \in [engine : DOMAIN engines, segment : Indices]
    BY DEF LoopsInv
  <2>8. \A l \in DOMAIN loops' :
          /\ loops'[l].engine \in DOMAIN engines'
          /\ loops'[l].pc = "show" =>
               loops'[l].frames \in [engine : DOMAIN engines', segment : Indices]
    BY <2>2, <2>3, <2>6, <2>7
  <2>. QED  BY <2>4, <2>5, <2>8 DEF LoopsInv
<1>. QED  BY <1>1, <1>2

\* The old loop is cancelled, or none is; and the engines may have grown.
LEMMA SameLoops ==
  ASSUME LoopsInv, loops' \in {loops, CancelPlayTask}, playTask' \in {playTask, None},
         DOMAIN engines \subseteq DOMAIN engines'
  PROVE  LoopsInv'
<1>1. /\ loops' \in Seq(Loops) /\ DOMAIN loops' = DOMAIN loops
      /\ \A l \in DOMAIN loops :
           /\ loops'[l].engine = loops[l].engine
           /\ loops'[l].pc = loops[l].pc
           /\ loops'[l].frames = loops[l].frames
  BY CancelType DEF LoopsInv
<1>2. [engine : DOMAIN engines, segment : Indices]
        \subseteq [engine : DOMAIN engines', segment : Indices]
  OBVIOUS
<1>. QED  BY <1>1, <1>2 DEF LoopsInv

\* A step of a loop changes only its place and its frames.
LEMMA LoopMoves ==
  ASSUME IInv, NEW l \in DOMAIN loops, LoopStep(l)
  PROVE  /\ loops' \in Seq(Loops) /\ DOMAIN loops' = DOMAIN loops
         /\ \A k \in DOMAIN loops :
              /\ loops'[k].engine = loops[k].engine
              /\ loops'[k].cancelled = loops[k].cancelled
              /\ loops[k].pc = "done" => loops'[k].pc = "done"
              /\ loops'[k].pc = "show" =>
                   loops'[k].frames \in [engine : DOMAIN engines, segment : Indices]
<1>1. /\ loops \in Seq(Loops) /\ DOMAIN loops = 1..Len(loops) /\ Len(loops) \in Nat
      /\ \A k \in DOMAIN loops : loops[k] \in Loops
  BY Element DEF IInv, LoopsInv
<1>2. \A k \in DOMAIN loops :
        /\ loops[k].engine \in DOMAIN engines
        /\ loops[k].pc = "show" =>
             loops[k].frames \in [engine : DOMAIN engines, segment : Indices]
  BY DEF IInv, LoopsInv
<1>3. /\ DOMAIN engines \subseteq Nat
      /\ \A e \in DOMAIN engines : engines[e].segment \in Indices
  <2>1. DOMAIN engines \subseteq Nat /\ \A e \in DOMAIN engines : engines[e] \in Engines
    BY Element DEF IInv, EnginesInv
  <2>. QED  BY <2>1 DEF Engines
<1>4. PICK new : /\ loops' = [loops EXCEPT ![l] = new]
                 /\ new \in Loops /\ new.engine = loops[l].engine
                 /\ new.cancelled = loops[l].cancelled
                 /\ loops[l].pc # "done"
                 /\ new.pc = "show" =>
                      new.frames \in [engine : DOMAIN engines, segment : Indices]
  <2>1. CASE \E pc \in Points \ {"show"} :
               loops[l].pc # "done" /\ loops' = [loops EXCEPT ![l].pc = pc]
    <3>1. PICK pc \in Points \ {"show"} :
            loops[l].pc # "done" /\ loops' = [loops EXCEPT ![l] = [loops[l] EXCEPT !.pc = pc]]
      BY <2>1
    <3> DEFINE new == [loops[l] EXCEPT !.pc = pc]
    <3>2. /\ new \in Loops /\ new.engine = loops[l].engine
          /\ new.cancelled = loops[l].cancelled /\ new.pc = pc
      BY <1>1 DEF Loops
    <3>. QED  BY <3>1, <3>2
  <2>2. CASE /\ loops[l].pc = "take"
             /\ loops' = [loops EXCEPT ![l].pc = "show",
                            ![l].frames = [engine |-> loops[l].engine,
                                           segment |-> engines[loops[l].engine].segment]]
    <3> DEFINE frames == [engine |-> loops[l].engine,
                          segment |-> engines[loops[l].engine].segment]
               new == [loops[l] EXCEPT !.pc = "show", !.frames = frames]
    <3>1. frames \in [engine : DOMAIN engines, segment : Indices]
      BY <1>2, <1>3
    <3>2. frames \in [engine : Nat, segment : Indices]
      BY <1>3, <3>1
    <3>. HIDE DEF frames
    <3>3. /\ new \in Loops /\ new.engine = loops[l].engine
          /\ new.cancelled = loops[l].cancelled /\ new.frames = frames
      BY <1>1, <3>2 DEF Loops, Points
    <3>4. loops' = [loops EXCEPT ![l] = new]
      BY <1>1, <2>2 DEF frames, Loops
    <3>. QED  BY <2>2, <3>1, <3>3, <3>4
  <2>. QED  BY <2>1, <2>2 DEF LoopStep, LoopTake, LoopShow, LoopSleep, GoTo, Points
<1>5. loops' \in Seq(Loops) /\ DOMAIN loops' = DOMAIN loops
  BY <1>1, <1>4
<1>6. \A k \in DOMAIN loops : loops'[k] = IF k = l THEN new ELSE loops[k]
  BY <1>1, <1>4
<1>. QED  BY <1>2, <1>4, <1>5, <1>6

----------------------------------------------------------------------------
(* Steps. *)

\* The actions, one by one.
Action ==
  \/ PickFile \/ PickPhoto \/ Begin \/ Reset
  \/ \E index \in Indices : SelectSegment(index)
  \/ \E n \in stages : StageTask(n)
  \/ \E t \in begins : BeginRead(t) \/ BeginBuilt(t) \/ BeginPlay(t)
  \/ \E t \in selects : SelectCall(t) \/ SelectPlay(t)
  \/ \E n \in photos : PhotoArrives(n) \/ PhotoFails(n)
  \/ \E l \in DOMAIN loops : LoopStep(l)

LEMMA Steps == Next => Action
BY DEF Next, Action, UserStep, TaskStep, BeginTask, SelectTask, Indices

LEMMA StepFiles == FilesInv /\ [Next]_vars => FilesInv' /\ 1..imports \subseteq 1..imports'
<1> SUFFICES ASSUME FilesInv, [Next]_vars
             PROVE  FilesInv' /\ 1..imports \subseteq 1..imports'
  OBVIOUS
<1>. USE DEF modelVars, taskVars, historyVars, Fails, Stage
<1>1. CASE UNCHANGED <<imports, started, staged, modified, copies, photos, stages>>
  BY <1>1 DEF FilesInv
<1>2. CASE PickFile
  <2>1. /\ imports' = imports + 1 /\ stages' = stages \cup {imports'}
        /\ UNCHANGED <<started, staged, modified, copies, photos>>
    BY <1>2 DEF PickFile
  <2>. QED  BY <2>1 DEF FilesInv
<1>3. CASE PickPhoto
  <2>1. /\ imports' = imports + 1 /\ photos' = photos \cup {imports'}
        /\ UNCHANGED <<started, staged, modified, copies, stages>>
    BY <1>3 DEF PickPhoto
  <2>. QED  BY <2>1 DEF FilesInv
<1>4. ASSUME NEW n \in photos, PhotoArrives(n) \/ PhotoFails(n)
      PROVE  FilesInv' /\ 1..imports \subseteq 1..imports'
  <2>1. /\ photos' \subseteq photos /\ stages' \subseteq stages \cup {n}
        /\ UNCHANGED <<imports, started, staged, modified, copies>>
    BY <1>4 DEF PhotoArrives, PhotoFails
  <2>. QED  BY <2>1 DEF FilesInv
<1>5. ASSUME NEW n \in stages, StageTask(n)
      PROVE  FilesInv' /\ 1..imports \subseteq 1..imports'
  <2>1. /\ stages' = stages \ {n} /\ UNCHANGED <<imports, started, photos>>
        /\ \/ staged' = n /\ modified' = n /\ copies' = copies \cup {n}
           \/ UNCHANGED <<staged, modified, copies>>
    BY <1>5 DEF StageTask
  <2>. QED  BY <2>1 DEF FilesInv
<1>6. CASE Begin
  <2>1. /\ started' = started + 1
        /\ UNCHANGED <<imports, staged, modified, copies, photos, stages>>
    BY <1>6 DEF Begin
  <2>. QED  BY <2>1 DEF FilesInv
<1>7. CASE Reset
  <2>1. /\ staged' = None /\ modified' = None /\ copies' \subseteq copies
        /\ UNCHANGED <<imports, started, photos, stages>>
    BY <1>7 DEF Reset
  <2>. QED  BY <2>1 DEF FilesInv
<1>8. ASSUME NEW t \in begins, BeginRead(t) \/ BeginBuilt(t) \/ BeginPlay(t)
      PROVE  UNCHANGED <<imports, started, staged, modified, copies, photos, stages>>
  BY <1>8 DEF BeginRead, BeginBuilt, BeginPlay, BeginFails
<1>9. ASSUME NEW t \in selects, SelectCall(t) \/ SelectPlay(t)
      PROVE  UNCHANGED <<imports, started, staged, modified, copies, photos, stages>>
  BY <1>9 DEF SelectCall, SelectPlay
<1>10. ASSUME NEW index \in Indices, SelectSegment(index)
       PROVE  UNCHANGED <<imports, started, staged, modified, copies, photos, stages>>
  BY <1>10 DEF SelectSegment
<1>11. ASSUME NEW l \in DOMAIN loops, LoopStep(l)
       PROVE  UNCHANGED <<imports, started, staged, modified, copies, photos, stages>>
  BY <1>11 DEF LoopStep, LoopTake, LoopShow, LoopSleep
<1>12. CASE UNCHANGED vars
  BY <1>1, <1>12 DEF vars
<1>. QED
  BY <1>1, <1>2, <1>3, <1>4, <1>5, <1>6, <1>7, <1>8, <1>9, <1>10, <1>11, <1>12,
     Steps DEF Action

LEMMA StepLoops == IInv /\ [Next]_vars => LoopsInv' /\ DOMAIN engines \subseteq DOMAIN engines'
<1> SUFFICES ASSUME IInv, [Next]_vars
             PROVE  LoopsInv' /\ DOMAIN engines \subseteq DOMAIN engines'
  OBVIOUS
<1>. USE DEF modelVars, taskVars, historyVars, Fails, Stage
<1>1. LoopsInv /\ EnginesInv /\ engines \in Seq(Engines) /\ DOMAIN engines \subseteq Nat
  BY Element DEF IInv, EnginesInv
<1>2. CASE loops' \in {loops, CancelPlayTask} /\ playTask' \in {playTask, None} /\ engines' = engines
  BY <1>1, <1>2, SameLoops
<1>3. CASE PickFile \/ PickPhoto \/ Begin \/ UNCHANGED vars
  BY <1>2, <1>3 DEF PickFile, PickPhoto, Begin, vars
<1>4. CASE Reset
  BY <1>2, <1>4 DEF Reset, LoopsAfterReset
<1>5. ASSUME NEW index \in Indices, SelectSegment(index)
      PROVE  LoopsInv' /\ DOMAIN engines \subseteq DOMAIN engines'
  BY <1>2, <1>5 DEF SelectSegment
<1>6. ASSUME NEW n \in stages, StageTask(n)
      PROVE  LoopsInv' /\ DOMAIN engines \subseteq DOMAIN engines'
  BY <1>2, <1>6 DEF StageTask
<1>7. ASSUME NEW n \in photos, PhotoArrives(n) \/ PhotoFails(n)
      PROVE  LoopsInv' /\ DOMAIN engines \subseteq DOMAIN engines'
  BY <1>2, <1>7 DEF PhotoArrives, PhotoFails
<1>8. ASSUME NEW t \in begins, BeginRead(t) \/ BeginBuilt(t)
      PROVE  LoopsInv' /\ DOMAIN engines \subseteq DOMAIN engines'
  <2>1. UNCHANGED <<loops, playTask>>
    BY <1>8 DEF BeginRead, BeginBuilt, BeginFails
  <2>2. engines' = engines \/ \E e : engines' = Append(engines, e)
    BY <1>8 DEF BeginRead, BeginBuilt, BeginFails
  <2>3. DOMAIN engines \subseteq DOMAIN engines'
    BY <1>1, <2>2
  <2>. QED  BY <1>1, <2>1, <2>3, SameLoops
<1>9. ASSUME NEW t \in begins, BeginPlay(t)
      PROVE  LoopsInv' /\ DOMAIN engines \subseteq DOMAIN engines'
  BY <1>1, <1>9, StartType DEF BeginPlay, EnginesInv
<1>10. ASSUME NEW t \in selects, SelectCall(t)
       PROVE  LoopsInv' /\ DOMAIN engines \subseteq DOMAIN engines'
  <2>1. UNCHANGED <<loops, playTask>>
    BY <1>10 DEF SelectCall
  <2>2. DOMAIN engines' = DOMAIN engines
    BY <1>10 DEF SelectCall
  <2>. QED  BY <1>1, <2>1, <2>2, SameLoops
<1>11. ASSUME NEW t \in selects, SelectPlay(t)
       PROVE  LoopsInv' /\ DOMAIN engines \subseteq DOMAIN engines'
  BY <1>1, <1>11, StartType DEF SelectPlay, EnginesInv
<1>12. ASSUME NEW l \in DOMAIN loops, LoopStep(l)
       PROVE  LoopsInv' /\ DOMAIN engines \subseteq DOMAIN engines'
  <2>1. engines' = engines /\ playTask' \in {playTask, None}
    BY <1>12 DEF LoopStep, LoopTake, LoopShow, LoopSleep
  <2>. QED  BY <1>1, <1>12, <2>1, LoopMoves DEF LoopsInv
<1>. QED
  BY <1>3, <1>4, <1>5, <1>6, <1>7, <1>8, <1>9, <1>10, <1>11, <1>12, Steps DEF Action

\* The tasks that refer to engines still do when these have grown.
LEMMA SameTasks ==
  ASSUME FilesInv, EnginesInv, 1..imports \subseteq 1..imports',
         DOMAIN engines \subseteq DOMAIN engines'
  PROVE  /\ \A t \in begins :
              t.file \in 1..imports' /\ (t.pc = "play" => t.engine \in DOMAIN engines')
         /\ \A t \in selects : t.engine \in DOMAIN engines'
         /\ images = None \/ images \in [engine : DOMAIN engines', segment : Indices]
         /\ engine \in DOMAIN engines' \cup {None}
         /\ \A e \in DOMAIN engines : engines[e].file \in 1..imports'
<1>1. [engine : DOMAIN engines, segment : Indices]
        \subseteq [engine : DOMAIN engines', segment : Indices]
  OBVIOUS
<1>. QED  BY <1>1 DEF EnginesInv

\* The task of begin once it has an engine.
LEMMA BuiltTask ==
  ASSUME NEW t \in Begins, NEW e \in Nat
  PROVE  /\ [t EXCEPT !.pc = "play", !.engine = e] \in Begins
         /\ [t EXCEPT !.pc = "play", !.engine = e].file = t.file
         /\ [t EXCEPT !.pc = "play", !.engine = e].engine = e
<1> DEFINE u == [t EXCEPT !.engine = e]
<1>1. u \in Begins /\ u.file = t.file /\ u.engine = e
  BY DEF Begins, Numbers
<1>2. [t EXCEPT !.pc = "play", !.engine = e] = [u EXCEPT !.pc = "play"]
  BY DEF Begins
<1>. HIDE DEF u
<1>3. [u EXCEPT !.pc = "play"] \in Begins
  BY <1>1 DEF Begins
<1>4. [u EXCEPT !.pc = "play"].file = u.file /\ [u EXCEPT !.pc = "play"].engine = u.engine
  BY <1>1 DEF Begins
<1>. QED  BY <1>1, <1>2, <1>3, <1>4

LEMMA StepEngines == IInv /\ [Next]_vars => phase' \in Phases /\ EnginesInv'
<1> SUFFICES ASSUME IInv, [Next]_vars PROVE phase' \in Phases /\ EnginesInv'
  OBVIOUS
<1>. USE DEF modelVars, taskVars, historyVars, Fails, Stage
<1>1. /\ FilesInv /\ EnginesInv /\ LoopsInv /\ phase \in Phases
      /\ engines \in Seq(Engines) /\ DOMAIN engines \subseteq Nat
      /\ DOMAIN engines = 1..Len(engines) /\ Len(engines) \in Nat
      /\ begins \subseteq Begins /\ selects \subseteq Selects
      /\ segmentIndex \in Indices
  BY Element DEF IInv, EnginesInv
<1>2. 1..imports \subseteq 1..imports' /\ FilesInv'
  BY <1>1, StepFiles
<1>3. DOMAIN engines \subseteq DOMAIN engines'
  BY StepLoops
<1>4. /\ \A t \in begins :
           t.file \in 1..imports' /\ (t.pc = "play" => t.engine \in DOMAIN engines')
      /\ \A t \in selects : t.engine \in DOMAIN engines'
      /\ images = None \/ images \in [engine : DOMAIN engines', segment : Indices]
      /\ engine \in DOMAIN engines' \cup {None}
      /\ \A e \in DOMAIN engines : engines[e].file \in 1..imports'
  BY <1>1, <1>2, <1>3, SameTasks
<1>5. phase' \in Phases
  BY <1>1, Steps
     DEF Phases, Action, PickFile, PickPhoto, Begin, Reset, SelectSegment, StageTask,
         BeginRead, BeginBuilt, BeginPlay, BeginFails, SelectCall, SelectPlay,
         PhotoArrives, PhotoFails, LoopStep, LoopTake, LoopShow, LoopSleep, vars
<1>6. CASE UNCHANGED <<engine, engines, images, segmentIndex, begins, selects>>
  BY <1>1, <1>4, <1>5, <1>6 DEF EnginesInv
<1>7. CASE Reset
  <2>1. 0 \in Indices
    BY IosSenderAssumption DEF Indices
  <2>2. /\ engine' = None /\ images' = None /\ segmentIndex' = 0
        /\ UNCHANGED <<engines, begins, selects>>
    BY <1>7 DEF Reset
  <2>. QED  BY <1>1, <1>4, <1>5, <2>1, <2>2 DEF EnginesInv
<1>8. CASE Begin
  <2> DEFINE t == [id |-> started', file |-> staged, mtime |-> None, engine |-> None,
                   pc |-> "read"]
  <2>1. /\ begins' = begins \cup {t} /\ images' = None
        /\ UNCHANGED <<engine, engines, segmentIndex, selects>>
    BY <1>8 DEF Begin
  <2>2. started' \in Nat /\ staged \in 1..imports /\ staged \in Nat
    BY <1>1, <1>2, <1>8 DEF Begin, FilesInv
  <2>3. t \in Begins /\ t.file \in 1..imports' /\ t.pc # "play"
    BY <1>2, <2>2 DEF Begins, Numbers
  <2>. HIDE DEF t
  <2>. QED  BY <1>1, <1>4, <1>5, <2>1, <2>3 DEF EnginesInv
<1>9. ASSUME NEW index \in Indices, SelectSegment(index) PROVE EnginesInv'
  <2> DEFINE t == [engine |-> engine, index |-> index, pc |-> "call"]
  <2>1. /\ selects' = selects \cup {t} /\ engine # None
        /\ UNCHANGED <<engine, engines, images, segmentIndex, begins>>
    BY <1>9 DEF SelectSegment
  <2>2. engine \in DOMAIN engines /\ engine \in Nat
    BY <1>1, <2>1 DEF EnginesInv
  <2>3. t \in Selects /\ t.engine \in DOMAIN engines'
    BY <1>3, <2>2 DEF Selects
  <2>. HIDE DEF t
  <2>. QED  BY <1>1, <1>4, <2>1, <2>3 DEF EnginesInv
<1>10. ASSUME NEW t \in begins, BeginRead(t) PROVE EnginesInv'
  <2> DEFINE u == [t EXCEPT !.pc = "build", !.mtime = modified]
  <2>1. /\ \/ begins' = (begins \ {t}) \cup {u}
           \/ begins' = begins \ {t}
        /\ UNCHANGED <<engine, engines, images, segmentIndex, selects>>
    BY <1>10 DEF BeginRead, BeginFails
  <2>2. modified \in Numbers
    BY <1>1 DEF FilesInv, Numbers
  <2>3. t \in Begins
    BY <1>1
  <2>4. u \in Begins /\ u.file = t.file /\ u.pc # "play"
    BY <2>2, <2>3 DEF Begins
  <2>. HIDE DEF u
  <2>. QED  BY <1>1, <1>4, <2>1, <2>4 DEF EnginesInv
<1>11. ASSUME NEW t \in begins, BeginBuilt(t) PROVE EnginesInv'
  <2> DEFINE new == [file |-> t.file, mtime |-> t.mtime, segment |-> 0]
             u == [t EXCEPT !.pc = "play", !.engine = Len(engines) + 1]
  <2>1. t \in Begins /\ t.file \in 1..imports'
    BY <1>1, <1>4
  <2>2. CASE BeginFails(t)
    BY <1>1, <1>4, <2>2 DEF EnginesInv, BeginFails
  <2>3. CASE ~BeginFails(t)
    <3>1. /\ engines' = Append(engines, new) /\ engine' = Len(engines')
          /\ begins' = (begins \ {t}) \cup {[t EXCEPT !.pc = "play", !.engine = engine']}
          /\ UNCHANGED <<images, segmentIndex, selects>>
      BY <1>11, <2>3 DEF BeginBuilt
    <3>2. new \in Engines /\ new.file \in 1..imports'
      BY <2>1, IosSenderAssumption DEF Engines, Begins, Indices
    <3>. HIDE DEF new
    <3>3. /\ engines' \in Seq(Engines) /\ Len(engines') = Len(engines) + 1
          /\ DOMAIN engines' = 1..(Len(engines) + 1)
          /\ \A e \in DOMAIN engines' :
               (e \in DOMAIN engines /\ engines'[e] = engines[e]) \/ engines'[e] = new
      BY <1>1, <3>1, <3>2
    <3>4. begins' = (begins \ {t}) \cup {u}
      BY <3>1, <3>3
    <3>5. u \in Begins /\ u.file = t.file /\ u.engine \in DOMAIN engines'
      <4>1. Len(engines) + 1 \in Nat /\ Len(engines) + 1 \in DOMAIN engines'
        BY <1>1, <3>3
      <4>. QED  BY <2>1, <4>1, BuiltTask
    <3>. HIDE DEF u
    <3>6. engine' \in DOMAIN engines'
      BY <1>1, <3>1, <3>3
    <3>7. \A e \in DOMAIN engines' : engines'[e].file \in 1..imports'
      BY <1>4, <3>2, <3>3
    <3>. QED  BY <1>1, <1>4, <2>1, <3>1, <3>3, <3>4, <3>5, <3>6, <3>7 DEF EnginesInv
  <2>. QED  BY <2>2, <2>3
<1>12. ASSUME NEW t \in begins, BeginPlay(t) PROVE EnginesInv'
  <2>1. /\ t.pc = "play" /\ begins' = begins \ {t}
        /\ segmentIndex' = engines[t.engine].segment
        /\ UNCHANGED <<engine, engines, images, selects>>
    BY <1>12 DEF BeginPlay
  <2>2. t.engine \in DOMAIN engines
    BY <1>1, <2>1 DEF EnginesInv
  <2>3. engines[t.engine] \in Engines
    BY <1>1, <2>2, Element
  <2>4. segmentIndex' \in Indices
    BY <2>1, <2>3 DEF Engines
  <2>. QED  BY <1>1, <1>4, <2>1, <2>4 DEF EnginesInv
<1>13. ASSUME NEW t \in selects, SelectCall(t) PROVE EnginesInv'
  <2> DEFINE u == [t EXCEPT !.pc = "play"]
  <2>1. /\ UNCHANGED <<engine, images, segmentIndex, begins>>
        /\ \/ /\ engines' = [engines EXCEPT ![t.engine].segment = t.index]
              /\ selects' = (selects \ {t}) \cup {u}
           \/ engines' = engines /\ selects' = selects \ {t}
    BY <1>13 DEF SelectCall
  <2>2. t \in Selects /\ t.engine \in DOMAIN engines
    BY <1>1 DEF EnginesInv
  <2>3. u \in Selects /\ u.engine = t.engine
    BY <2>2 DEF Selects
  <2>. HIDE DEF u
  <2>4. /\ engines' \in Seq(Engines) /\ DOMAIN engines' = DOMAIN engines
        /\ \A e \in DOMAIN engines' : engines'[e].file = engines[e].file
    <3> DEFINE new == [engines[t.engine] EXCEPT !.segment = t.index]
    <3>1. engines[t.engine] \in Engines
      BY <1>1, <2>2, Element
    <3>2. new \in Engines /\ new.file = engines[t.engine].file
      BY <2>2, <3>1 DEF Engines, Selects
    <3>3. engines' = engines \/ engines' = [engines EXCEPT ![t.engine] = new]
      BY <2>1
    <3>. HIDE DEF new
    <3>. QED  BY <1>1, <2>2, <3>2, <3>3
  <2>. QED  BY <1>1, <1>4, <2>1, <2>2, <2>3, <2>4 DEF EnginesInv
<1>14. ASSUME NEW t \in selects, SelectPlay(t) PROVE EnginesInv'
  <2>1. /\ selects' = selects \ {t} /\ segmentIndex' = t.index
        /\ UNCHANGED <<engine, engines, images, begins>>
    BY <1>14 DEF SelectPlay
  <2>2. t.index \in Indices
    BY <1>1 DEF Selects
  <2>. QED  BY <1>1, <1>4, <2>1, <2>2 DEF EnginesInv
<1>15. ASSUME NEW l \in DOMAIN loops, LoopStep(l) PROVE EnginesInv'
  <2>1. UNCHANGED <<engine, engines, segmentIndex, begins, selects>>
    BY <1>15 DEF LoopStep, LoopTake, LoopShow, LoopSleep
  <2>2. images' = images \/ (loops[l].pc = "show" /\ images' = loops[l].frames)
    BY <1>15 DEF LoopStep, LoopTake, LoopShow, LoopSleep
  <2>3. images' = None \/ images' \in [engine : DOMAIN engines', segment : Indices]
    BY <1>1, <1>4, <2>1, <2>2 DEF LoopsInv
  <2>. QED  BY <1>1, <1>4, <2>1, <2>3 DEF EnginesInv
<1>16. CASE \/ PickFile \/ PickPhoto \/ UNCHANGED vars
            \/ \E n \in stages : StageTask(n)
            \/ \E n \in photos : PhotoArrives(n) \/ PhotoFails(n)
  BY <1>6, <1>16 DEF PickFile, PickPhoto, StageTask, PhotoArrives, PhotoFails, vars
<1>. QED
  BY <1>5, <1>7, <1>8, <1>9, <1>10, <1>11, <1>12, <1>13, <1>14, <1>15, <1>16, Steps
     DEF Action

\* No task refers to an engine, a loop or a file that there is not.
THEOREM TypeCorrect == Spec => []TypeOK
<1>1. IInv /\ [Next]_vars => IInv'
  BY StepFiles, StepEngines, StepLoops DEF IInv
<1>. QED  BY <1>1, InitInv, InvType, PTL DEF Spec

----------------------------------------------------------------------------
(* What plays. *)

PlayInv ==
  /\ failures \in Nat
  /\ failures = 0 => LiveLoops \subseteq {playTask}
  /\ failures = 0 /\ phase = "idle" => images = None /\ LiveLoops = {}

\* Cancelling playTask leaves no loop alive.
LEMMA NoneLive ==
  ASSUME LoopsInv, LiveLoops \subseteq {playTask}
  PROVE  /\ loops' = CancelPlayTask => LiveLoops' = {}
         /\ \A l \in DOMAIN CancelPlayTask :
              CancelPlayTask[l].pc = "done" \/ CancelPlayTask[l].cancelled
<1>1. \A l \in DOMAIN loops : loops[l].pc = "done" \/ loops[l].cancelled \/ l = playTask
  BY DEF LiveLoops, Live
<1>2. \A l \in DOMAIN CancelPlayTask :
        CancelPlayTask[l].pc = "done" \/ CancelPlayTask[l].cancelled
  BY <1>1, CancelType
<1>. QED  BY <1>2 DEF LiveLoops, Live

\* startLoop leaves one, which playTask refers to.
LEMMA OneLive ==
  ASSUME LoopsInv, LiveLoops \subseteq {playTask}, NEW e, StartLoop(e)
  PROVE  LiveLoops' \subseteq {playTask'}
<1>1. CASE e = None
  BY <1>1 DEF StartLoop, LiveLoops, Live
<1>2. CASE e # None
  <2> DEFINE new == [engine |-> e, pc |-> "take", frames |-> None, cancelled |-> FALSE]
  <2>1. loops' = Append(CancelPlayTask, new) /\ playTask' = Len(loops) + 1
    BY <1>2 DEF StartLoop
  <2>. HIDE DEF new
  <2>2. /\ CancelPlayTask \in Seq(Loops) /\ Len(CancelPlayTask) = Len(loops)
        /\ DOMAIN CancelPlayTask = 1..Len(loops) /\ Len(loops) \in Nat
    BY CancelType, Element DEF LoopsInv
  <2>3. DOMAIN loops' = 1..(Len(loops) + 1)
    BY <2>1, <2>2
  <2>4. \A l \in DOMAIN loops' : l # playTask' =>
          l \in DOMAIN CancelPlayTask /\ loops'[l] = CancelPlayTask[l]
    BY <2>1, <2>2, <2>3
  <2>5. \A l \in DOMAIN loops' : l # playTask' => loops'[l].pc = "done" \/ loops'[l].cancelled
    BY <2>4, NoneLive
  <2>. QED  BY <2>5 DEF LiveLoops, Live
<1>. QED  BY <1>1, <1>2

LEMMA StepPlay == IInv /\ PlayInv /\ [Next]_vars => PlayInv'
<1> SUFFICES ASSUME IInv, PlayInv, [Next]_vars PROVE PlayInv'
  OBVIOUS
<1>. USE DEF modelVars, taskVars, historyVars
<1>1. LoopsInv
  BY DEF IInv
<1>2. /\ failures' = failures \/ failures' = failures + 1
      /\ failures' \in Nat
      /\ failures' = 0 => failures = 0 /\ failures' = failures
  <2>1. failures' = failures \/ failures' = failures + 1
    BY Steps
       DEF Action, PickFile, PickPhoto, Begin, Reset, SelectSegment, StageTask,
           BeginRead, BeginBuilt, BeginPlay, BeginFails, SelectCall, SelectPlay,
           PhotoArrives, PhotoFails, LoopStep, LoopTake, LoopShow, LoopSleep, vars, Fails
  <2>. QED  BY <2>1 DEF PlayInv
<1>3. SUFFICES ASSUME failures = 0, failures' = failures
               PROVE  /\ LiveLoops' \subseteq {playTask'}
                      /\ phase' = "idle" => images' = None /\ LiveLoops' = {}
  BY <1>2 DEF PlayInv
<1>4. LiveLoops \subseteq {playTask} /\ (phase = "idle" => images = None /\ LiveLoops = {})
  BY <1>3 DEF PlayInv
<1>5. ~Fails
  BY <1>3 DEF Fails
<1> DEFINE Goal == /\ LiveLoops' \subseteq {playTask'}
                   /\ phase' = "idle" => images' = None /\ LiveLoops' = {}
<1>6. CASE UNCHANGED <<loops, playTask, images>> /\ phase' \in {phase, "ready", "failed"}
  BY <1>4, <1>6 DEF LiveLoops, Live
<1>7. CASE \/ loops' = CancelPlayTask /\ phase' # "idle"
           \/ loops' = CancelPlayTask /\ images' = None
  BY <1>1, <1>4, <1>7, NoneLive
<1>8. CASE PickFile
  BY <1>7, <1>8 DEF PickFile, Stage
<1>9. CASE Begin
  BY <1>4, <1>9 DEF Begin, LiveLoops, Live
<1>10. CASE Reset
  BY <1>7, <1>10 DEF Reset, LoopsAfterReset
<1>11. ASSUME NEW index \in Indices, SelectSegment(index) PROVE Goal
  BY <1>7, <1>11 DEF SelectSegment
<1>12. ASSUME NEW n \in photos, PhotoArrives(n) \/ PhotoFails(n) PROVE Goal
  BY <1>5, <1>7, <1>12 DEF PhotoArrives, PhotoFails, Stage
<1>13. CASE PickPhoto \/ UNCHANGED vars \/ \E n \in stages : StageTask(n)
  BY <1>6, <1>13 DEF PickPhoto, StageTask, vars
<1>14. ASSUME NEW t \in begins, BeginRead(t) \/ BeginBuilt(t) PROVE Goal
  BY <1>6, <1>14 DEF BeginRead, BeginBuilt, BeginFails
<1>15. ASSUME NEW t \in selects, SelectCall(t) PROVE Goal
  BY <1>6, <1>15 DEF SelectCall
<1>16. CASE (\E t \in begins : BeginPlay(t)) \/ (\E t \in selects : SelectPlay(t))
  <2>1. StartLoop(engine) /\ phase' = "playing"
    BY <1>16 DEF BeginPlay, SelectPlay
  <2>. QED  BY <1>1, <1>4, <2>1, OneLive
<1>17. ASSUME NEW l \in DOMAIN loops, LoopStep(l) PROVE Goal
  <2>1. LiveLoops' \subseteq LiveLoops
    BY <1>17, LoopMoves DEF LiveLoops, Live
  <2>2. playTask' = playTask /\ phase' = phase
    BY <1>5, <1>17 DEF LoopStep, LoopTake, LoopShow, LoopSleep
  <2>3. images' = images \/ l \in LiveLoops
    BY <1>17 DEF LoopStep, LoopTake, LoopShow, LoopSleep, LiveLoops, Live
  <2>. QED  BY <1>4, <2>1, <2>2, <2>3
<1>. QED
  BY <1>8, <1>9, <1>10, <1>11, <1>12, <1>13, <1>14, <1>15, <1>16, <1>17, Steps DEF Action

LEMMA PlayInvariant == Spec => []PlayInv
<1>1. Init => PlayInv
  BY DEF Init, PlayInv, LiveLoops
<1>2. IInv /\ [Next]_vars => IInv'
  BY StepFiles, StepEngines, StepLoops DEF IInv
<1>. QED  BY <1>1, <1>2, InitInv, StepPlay, PTL DEF Spec

\* Whatever the user taps and whichever task comes late, two loops never play.
THEOREM OneLoopPlays == Spec => []OneLoop
<1>1. PlayInv => OneLoop
  BY DEF PlayInv, OneLoop
<1>. QED  BY <1>1, PlayInvariant, PTL

\* After the user has gone back, nothing is shown until a file is started.
THEOREM IdleIsQuiet == Spec => []QuietWhenIdle
<1>1. PlayInv => QuietWhenIdle
  BY DEF PlayInv, QuietWhenIdle
<1>. QED  BY <1>1, PlayInvariant, PTL
=============================================================================
