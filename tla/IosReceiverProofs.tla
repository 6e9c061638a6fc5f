-------------------------- MODULE IosReceiverProofs --------------------------
(***************************************************************************)
(* Theorems about IosReceiver, for any number of files, segments, frames   *)
(* waiting for the main actor, failures and restarts by the user, and      *)
(* about CameraScanner in front of it, for any number of jobs, closures,   *)
(* errors of the capture session and times the view goes away.             *)
(***************************************************************************)
EXTENDS CameraScanner, SequenceTheorems, TLAPS

----------------------------------------------------------------------------
(* Sessions and the native receiver. *)

\* A session is a file and an index.
LEMMA SessionType ==
  ASSUME NEW s \in Sessions
  PROVE  s[1] \in Roots /\ s[2] \in Indices(s[1]) /\ s = <<s[1], s[2]>>
BY DEF Sessions

\* The only session of a file of one segment.
LEMMA OnlySession ==
  ASSUME NEW s \in Sessions, ~Segmented(s[1]), NEW i \in Indices(s[1])
  PROVE  s = <<s[1], i>>
<1>1. s[1] \in Roots /\ s[2] \in Indices(s[1]) /\ s = <<s[1], s[2]>>
  BY SessionType
<1>2. Count[s[1]] \in Nat \ {0}
  BY <1>1, IosReceiverAssumption
<1>3. Indices(s[1]) \subseteq {0}
  BY <1>2 DEF Segmented, Indices
<1>. QED  BY <1>1, <1>3

\* Feeding a frame keeps the session; a frame of its own is counted, and
\* another one only makes a difference if there is no session yet.
LEMMA FedType ==
  ASSUME NEW s \in Sessions, native \in Receivers \cup {None}
  PROVE  /\ Fed(s) \in Receivers
         /\ native # None => Fed(s).session = native.session
         /\ native = None => Fed(s).session = s
         /\ Fed(s).frames = Need =>
              \/ Fed(s).session = s
              \/ native # None /\ native.frames = Need
<1>1. Need \in Nat \ {0}
  BY IosReceiverAssumption
<1>2. CASE native = None
  BY <1>1, <1>2 DEF Fed, Receivers
<1>3. CASE native # None
  <2>1. native \in Receivers
    BY <1>3
  <2>2. native.session \in Sessions /\ native.frames \in 1..Need
    BY <2>1 DEF Receivers
  <2>3. CASE native.session = s /\ native.frames < Need
    <3>1. Fed(s) = [native EXCEPT !.frames = native.frames + 1]
      BY <1>3, <2>3 DEF Fed
    <3>2. native.frames + 1 \in 1..Need
      BY <1>1, <2>2, <2>3
    <3>. QED  BY <1>3, <2>1, <2>2, <2>3, <3>1, <3>2 DEF Receivers
  <2>4. CASE ~(native.session = s /\ native.frames < Need)
    BY <1>3, <2>1, <2>2, <2>4 DEF Fed
  <2>. QED  BY <2>3, <2>4
<1>. QED  BY <1>2, <1>3

----------------------------------------------------------------------------
(* Type correctness. *)

\* There is one accumulator at most, and it is of a file.
LEMMA HeldType ==
  ASSUME TypeOK
  PROVE  /\ Held \subseteq Roots /\ \A a, b \in Held : a = b
         /\ \A root \in Roots :
              /\ Dropped(root) \subseteq Roots /\ root \notin Dropped(root)
              /\ Held \subseteq Dropped(root) \cup {root}
              /\ \A a, b \in Dropped(root) : a = b
<1>1. accumulator # None => accumulator.root \in Roots
  BY DEF TypeOK, Accumulators
<1>. QED  BY <1>1 DEF Held, Dropped

\* Files whose directory is removed may keep some of it, and are then remembered.
LEMMA RemoveEffects ==
  ASSUME NEW gone \in SUBSET Roots, \A a, b \in gone : a = b,
         NEW files, DOMAIN files = Roots, \A r \in Roots : files[r] \subseteq Indices(r),
         undeleted \subseteq Roots,
         Remove(gone, files)
  PROVE  /\ DOMAIN disk' = Roots
         /\ \A r \in Roots : disk'[r] \subseteq Indices(r)
         /\ \A r \in Roots \ gone : disk'[r] = files[r]
         /\ \A r \in gone : disk'[r] # {} => r \in undeleted'
         /\ undeleted' \subseteq Roots
         /\ undeleted \ gone \subseteq undeleted'
<1>1. PICK left \in SUBSET UNION {files[root] : root \in gone} :
        /\ disk' = [root \in Roots |-> IF root \in gone THEN left ELSE files[root]]
        /\ undeleted' = IF left = {} THEN undeleted \ gone ELSE undeleted \cup gone
  BY DEF Remove
<1>2. \A r \in gone : left \subseteq files[r]
  <2> SUFFICES ASSUME NEW r \in gone, NEW index \in left PROVE index \in files[r]
    OBVIOUS
  <2>1. PICK other \in gone : index \in files[other]
    BY <1>1
  <2>2. other = r
    OBVIOUS
  <2>. QED  BY <2>1, <2>2
<1>. QED  BY <1>1, <1>2

\* What is on the disk when a segment has been stored.
LEMMA StoredType ==
  ASSUME TypeOK, NEW root \in Roots, NEW index \in Indices(root)
  PROVE  /\ DOMAIN Stored(root, index) = Roots
         /\ \A r \in Roots : Stored(root, index)[r] \subseteq Indices(r)
         /\ Stored(root, index)[root] = disk[root] \cup {index}
         /\ \A r \in Roots \ {root} : Stored(root, index)[r] = disk[r]
BY DEF TypeOK, Stored

\* The files of the disk after each kind of removal.
LEMMA DiskType ==
  ASSUME TypeOK, NEW root \in Roots, NEW index \in Indices(root),
         \/ Remove(Dropped(root), Stored(root, index))
         \/ Remove(Dropped(root), disk)
         \/ Remove({root}, Stored(root, index))
         \/ disk' = Stored(root, index) /\ undeleted' = undeleted
  PROVE  /\ DOMAIN disk' = Roots /\ \A r \in Roots : disk'[r] \subseteq Indices(r)
         /\ undeleted' \subseteq Roots
<1>1. /\ DOMAIN disk = Roots /\ \A r \in Roots : disk[r] \subseteq Indices(r)
      /\ undeleted \subseteq Roots
  BY DEF TypeOK
<1>2. /\ DOMAIN Stored(root, index) = Roots
      /\ \A r \in Roots : Stored(root, index)[r] \subseteq Indices(r)
  BY StoredType
<1>3. Dropped(root) \in SUBSET Roots /\ \A a, b \in Dropped(root) : a = b
  BY HeldType
<1>4. {root} \in SUBSET Roots /\ \A a, b \in {root} : a = b
  OBVIOUS
<1>5. CASE Remove(Dropped(root), Stored(root, index))
  BY <1>1, <1>2, <1>3, <1>5, RemoveEffects
<1>6. CASE Remove(Dropped(root), disk)
  BY <1>1, <1>3, <1>6, RemoveEffects
<1>7. CASE Remove({root}, Stored(root, index))
  BY <1>1, <1>2, <1>4, <1>7, RemoveEffects
<1>. QED  BY <1>1, <1>2, <1>5, <1>6, <1>7

\* A session that completes: what each outcome of it has to build on.
LEMMA CompletingType ==
  ASSUME TypeOK, NEW s \in Sessions, Completing(s)
  PROVE  /\ Fed(s) \in Receivers /\ Fed(s) # None
         /\ Fed(s).session \in Sessions
         /\ Fed(s).session[1] \in Roots
         /\ Fed(s).session[2] \in Indices(Fed(s).session[1])
         /\ Accumulated(Fed(s).session[1]) \subseteq Indices(Fed(s).session[1])
         /\ ignored' \subseteq Sessions
         /\ tasks' \in [Sessions -> Nat]
<1>1. Fed(s) \in Receivers /\ Fed(s) # None
  BY FedType, IosReceiverAssumption DEF TypeOK
<1>2. Fed(s).session \in Sessions
  BY <1>1 DEF Receivers
<1>3. Fed(s).session[1] \in Roots /\ Fed(s).session[2] \in Indices(Fed(s).session[1])
  BY <1>2, SessionType
<1>4. \A root \in Roots : Accumulated(root) \subseteq Indices(root)
  BY DEF TypeOK, Accumulated, Accumulators
<1>5. ignored' \subseteq Sessions /\ tasks' \in [Sessions -> Nat]
  BY DEF TypeOK, Completing, Run, IgnoredWith
<1>. QED  BY <1>1, <1>2, <1>3, <1>4, <1>5

\* An accumulator of a file.
LEMMA AccumulatorType ==
  ASSUME NEW root \in Roots, NEW received \in SUBSET Indices(root)
  PROVE  /\ [root |-> root, received |-> received] \in Accumulators
         /\ [root |-> root, received |-> received] # None
<1>1. [root |-> root, received |-> received] \in Accumulators
  BY DEF Accumulators
<1>. QED  BY <1>1, IosReceiverAssumption

LEMMA InitType == Init => TypeOK
<1> SUFFICES ASSUME Init PROVE TypeOK
  OBVIOUS
<1>1. tasks \in [Sessions -> Nat] /\ saved \in [Roots -> Nat]
  BY DEF Init
<1>2. DOMAIN disk = Roots /\ \A root \in Roots : disk[root] = {}
  BY DEF Init
<1>3. failures \in 0..MaxFailures /\ resets \in 0..MaxResets
  BY IosReceiverAssumption DEF Init
<1>. QED  BY <1>1, <1>2, <1>3 DEF Init, TypeOK

LEMMA StepType == TypeOK /\ [Next]_vars => TypeOK'
<1> SUFFICES ASSUME TypeOK, [Next]_vars PROVE TypeOK'
  OBVIOUS
<1>. USE IosReceiverAssumption DEF sessionVars, historyVars
<1>1. CASE UNCHANGED vars
  BY <1>1 DEF vars, TypeOK
<1>2. CASE Capture
  BY <1>2 DEF Capture, Film, TypeOK
<1>3. ASSUME NEW s \in Sessions, ShowSession(s) PROVE TypeOK'
  BY <1>3 DEF ShowSession, TypeOK
<1>4. ASSUME NEW s \in Sessions, IngestIgnored(s) PROVE TypeOK'
  BY <1>4 DEF IngestIgnored, Run, TypeOK
<1>5. ASSUME NEW s \in Sessions, IngestPart(s) PROVE TypeOK'
  <2>1. Fed(s) \in Receivers
    BY FedType DEF TypeOK
  <2>. QED  BY <1>5, <2>1 DEF IngestPart, Run, TypeOK
<1>6. ASSUME NEW s \in Sessions, Completing(s),
             SaveFile(s) \/ SegmentUnreadable(s) \/ StoreSegment(s) \/ StoreFails(s) \/ Merge(s)
      PROVE  TypeOK'
  <2> DEFINE done == Fed(s).session
             root == done[1]
  <2>1. /\ Fed(s) \in Receivers /\ done \in Sessions
        /\ root \in Roots /\ done[2] \in Indices(root)
        /\ Accumulated(root) \subseteq Indices(root)
        /\ ignored' \subseteq Sessions
        /\ tasks' \in [Sessions -> Nat]
        /\ showing' = showing /\ resets' = resets
    BY <1>6, CompletingType DEF Completing, Run
  <2>2. \A received \in SUBSET Indices(root) :
          [root |-> root, received |-> received] \in Accumulators
    BY <2>1, AccumulatorType
  <2>3. \/ /\ camera' = FALSE /\ completedFile' = root
           /\ saved' = [saved EXCEPT ![root] = @ + 1]
           /\ UNCHANGED <<errorMessage, failures>>
        \/ /\ failures < MaxFailures /\ failures' = failures + 1
           /\ errorMessage' = TRUE
           /\ UNCHANGED <<camera, completedFile, saved>>
        \/ UNCHANGED <<camera, completedFile, errorMessage, saved, failures>>
    BY <1>6 DEF SaveFile, SegmentUnreadable, StoreSegment, StoreFails, Merge, Finish, Throw
  <2>4. /\ camera' \in BOOLEAN /\ completedFile' \in Roots \cup {None}
        /\ errorMessage' \in BOOLEAN /\ saved' \in [Roots -> Nat]
        /\ failures' \in 0..MaxFailures
    <3>1. /\ camera \in BOOLEAN /\ completedFile \in Roots \cup {None}
          /\ errorMessage \in BOOLEAN /\ saved \in [Roots -> Nat]
          /\ failures \in 0..MaxFailures
      BY DEF TypeOK
    <3>2. [saved EXCEPT ![root] = @ + 1] \in [Roots -> Nat]
      BY <2>1, <3>1
    <3>3. failures < MaxFailures => failures + 1 \in 0..MaxFailures
      BY <3>1
    <3>. QED  BY <2>1, <2>3, <3>1, <3>2, <3>3
  <2>5. native' \in Receivers \cup {None} /\ arrived' \subseteq Sessions
    BY <1>6, <2>1 DEF SaveFile, SegmentUnreadable, StoreSegment, StoreFails, Merge, TypeOK
  <2>6. CASE SaveFile(s) \/ SegmentUnreadable(s)
    BY <2>1, <2>4, <2>5, <2>6 DEF SaveFile, SegmentUnreadable, TypeOK
  <2>7. CASE StoreSegment(s)
    <3>1. /\ accumulator' = [root |-> root, received |-> Accumulated(root) \cup {done[2]}]
          /\ Remove(Dropped(root), Stored(root, done[2]))
      BY <2>7 DEF StoreSegment
    <3>2. accumulator' \in Accumulators
      BY <2>1, <2>2, <3>1
    <3>3. /\ DOMAIN disk' = Roots /\ \A r \in Roots : disk'[r] \subseteq Indices(r)
          /\ undeleted' \subseteq Roots
      BY <2>1, <3>1, DiskType
    <3>. QED  BY <2>1, <2>4, <2>5, <3>2, <3>3 DEF TypeOK
  <2>8. CASE StoreFails(s)
    <3>1. /\ accumulator' = [root |-> root, received |-> Accumulated(root)]
          /\ Remove(Dropped(root), disk)
      BY <2>8 DEF StoreFails
    <3>2. accumulator' \in Accumulators
      BY <2>1, <2>2, <3>1
    <3>3. /\ DOMAIN disk' = Roots /\ \A r \in Roots : disk'[r] \subseteq Indices(r)
          /\ undeleted' \subseteq Roots
      BY <2>1, <3>1, DiskType
    <3>. QED  BY <2>1, <2>4, <2>5, <3>2, <3>3 DEF TypeOK
  <2>9. CASE Merge(s)
    <3>1. \/ /\ accumulator' = None
             /\ Remove({root}, Stored(root, done[2]))
          \/ /\ accumulator' = [root |-> root, received |-> Indices(root)]
             /\ disk' = Stored(root, done[2]) /\ undeleted' = undeleted
      BY <2>9 DEF Merge
    <3>2. accumulator' \in Accumulators \cup {None}
      BY <2>2, <3>1
    <3>3. /\ DOMAIN disk' = Roots /\ \A r \in Roots : disk'[r] \subseteq Indices(r)
          /\ undeleted' \subseteq Roots
      BY <2>1, <3>1, DiskType
    <3>. QED  BY <2>1, <2>4, <2>5, <3>2, <3>3 DEF TypeOK
  <2>. QED  BY <1>6, <2>6, <2>7, <2>8, <2>9
<1>7. CASE Reset
  <2>1. /\ DOMAIN disk' = Roots /\ \A r \in Roots : disk'[r] \subseteq Indices(r)
        /\ undeleted' \subseteq Roots
    <3>1. Remove(Held, disk)
      BY <1>7 DEF Reset
    <3>2. /\ DOMAIN disk = Roots /\ \A r \in Roots : disk[r] \subseteq Indices(r)
          /\ undeleted \subseteq Roots
      BY DEF TypeOK
    <3>. QED  BY <3>1, <3>2, HeldType, RemoveEffects
  <2>2. saved' \in [Roots -> Nat] /\ resets' \in 0..MaxResets
    BY <1>7 DEF Reset, TypeOK
  <2>. QED  BY <1>7, <2>1, <2>2 DEF Reset, TypeOK
<1>8. CASE Dismiss
  BY <1>8 DEF Dismiss, TypeOK
<1>9. CASE Leave
  BY <1>9 DEF Leave, TypeOK
<1>10. ASSUME NEW s \in Sessions, Ingest(s)
       PROVE  \/ IngestIgnored(s) \/ IngestPart(s)
              \/ /\ Completing(s)
                 /\ SaveFile(s) \/ SegmentUnreadable(s) \/ StoreSegment(s) \/ StoreFails(s) \/ Merge(s)
  BY <1>10 DEF Ingest, SaveFile, SegmentUnreadable, StoreSegment, StoreFails, Merge
<1>. QED
  BY <1>1, <1>2, <1>3, <1>4, <1>5, <1>6, <1>7, <1>8, <1>9, <1>10 DEF Next

\* The variables keep their types, whatever is captured, stored and given up.
THEOREM TypeCorrect == Spec => []TypeOK
BY InitType, StepType, PTL DEF Spec

\* An outcome of a completed session, or a step that leaves the session alone.
Outcome(s) ==
  SaveFile(s) \/ SegmentUnreadable(s) \/ StoreSegment(s) \/ StoreFails(s) \/ Merge(s)

LEMMA Steps ==
  ASSUME [Next]_vars
  PROVE  \/ UNCHANGED <<sessionVars, historyVars>>
         \/ \E s \in Sessions :
              \/ IngestPart(s)
              \/ Completing(s) /\ Outcome(s)
         \/ Reset
         \/ UNCHANGED <<native, accumulator, disk, ignored, completedFile, historyVars>>
<1>. USE DEF sessionVars, historyVars
<1>1. CASE UNCHANGED vars
  BY <1>1 DEF vars
<1>2. CASE Capture \/ Dismiss \/ Leave
  BY <1>2 DEF Capture, Film, Dismiss, Leave
<1>3. ASSUME NEW s \in Sessions, ShowSession(s) \/ IngestIgnored(s)
      PROVE  UNCHANGED <<sessionVars, historyVars>>
  BY <1>3 DEF ShowSession, IngestIgnored
<1>4. ASSUME NEW s \in Sessions, Outcome(s)
      PROVE  Completing(s)
  BY <1>4 DEF Outcome, SaveFile, SegmentUnreadable, StoreSegment, StoreFails, Merge
<1>. QED  BY <1>1, <1>2, <1>3, <1>4 DEF Next, Ingest, Outcome

----------------------------------------------------------------------------
(* Temporary files. *)

\* The outcomes that store a segment, or fail to: the files of another accumulator
\* are removed, and those of this one stay.
LEMMA StoreMergeReads ==
  ASSUME TypeOK, MergeReadsFiles, NEW root \in Roots,
         NEW files, DOMAIN files = Roots, \A r \in Roots : files[r] \subseteq Indices(r),
         \A r \in Roots \ {root} : files[r] = disk[r],
         Remove(Dropped(root), files),
         NEW received \in SUBSET files[root],
         accumulator' = [root |-> root, received |-> received],
         \A index \in received : <<root, index>> \in arrived'
  PROVE  MergeReadsFiles'
<1>1. accumulator' # None
  BY AccumulatorType
<1>2. Held' = {root}
  BY <1>1 DEF Held
<1>3. undeleted \subseteq Roots
  BY DEF TypeOK
<1>4. /\ \A r \in Roots \ Dropped(root) : disk'[r] = files[r]
      /\ \A r \in Dropped(root) : disk'[r] # {} => r \in undeleted'
      /\ undeleted \ Dropped(root) \subseteq undeleted'
  <2>1. Dropped(root) \in SUBSET Roots /\ \A a, b \in Dropped(root) : a = b
    BY HeldType
  <2>. QED  BY <1>3, <2>1, RemoveEffects
<1>5. root \notin Dropped(root) /\ Held \subseteq Dropped(root) \cup {root}
  BY HeldType
<1>6. disk'[root] = files[root]
  BY <1>4, <1>5
<1>7. ASSUME NEW r \in Roots, disk'[r] # {} PROVE r \in Held' \cup undeleted'
  <2>1. CASE r = root
    BY <1>2, <2>1
  <2>2. CASE r # root /\ r \notin Dropped(root)
    <3>1. disk[r] # {}
      BY <1>4, <1>7, <2>2
    <3>. QED  BY <1>4, <1>5, <2>2, <3>1 DEF MergeReadsFiles
  <2>3. CASE r \in Dropped(root)
    BY <1>4, <1>7, <2>3
  <2>. QED  BY <2>1, <2>2, <2>3
<1>. QED  BY <1>6, <1>7 DEF MergeReadsFiles

\* What an accumulator counts is there; what is there and belongs to no
\* accumulator could not be removed.
LEMMA StepMergeReads == TypeOK /\ MergeReadsFiles /\ [Next]_vars => MergeReadsFiles'
<1> SUFFICES ASSUME TypeOK, MergeReadsFiles, [Next]_vars PROVE MergeReadsFiles'
  OBVIOUS
<1>0. /\ DOMAIN disk = Roots /\ \A r \in Roots : disk[r] \subseteq Indices(r)
      /\ undeleted \subseteq Roots
  BY DEF TypeOK
<1>1. CASE UNCHANGED <<accumulator, disk, undeleted>> /\ arrived \subseteq arrived'
  BY <1>1 DEF MergeReadsFiles, Held
<1>2. CASE Reset
  <2>1. accumulator' = None /\ Remove(Held, disk)
    BY <1>2 DEF Reset
  <2>2. /\ \A r \in Roots \ Held : disk'[r] = disk[r]
        /\ \A r \in Held : disk'[r] # {} => r \in undeleted'
        /\ undeleted \ Held \subseteq undeleted'
    BY <1>0, <2>1, HeldType, RemoveEffects
  <2>. QED  BY <2>1, <2>2 DEF MergeReadsFiles
<1>3. ASSUME NEW s \in Sessions, Completing(s), StoreSegment(s) \/ StoreFails(s) \/ Merge(s)
      PROVE  MergeReadsFiles'
  <2> DEFINE root == Fed(s).session[1]
             index == Fed(s).session[2]
  <2>1. /\ root \in Roots /\ index \in Indices(root)
        /\ Fed(s).session = <<root, index>>
    BY <1>3, CompletingType, SessionType
  <2>2. arrived \subseteq arrived' /\ (~StoreFails(s) => <<root, index>> \in arrived')
    BY <1>3, <2>1 DEF StoreSegment, StoreFails, Merge
  <2>3. /\ DOMAIN Stored(root, index) = Roots
        /\ \A r \in Roots : Stored(root, index)[r] \subseteq Indices(r)
        /\ Stored(root, index)[root] = disk[root] \cup {index}
        /\ \A r \in Roots \ {root} : Stored(root, index)[r] = disk[r]
    BY <2>1, StoredType
  <2>4. /\ Accumulated(root) \subseteq disk[root]
        /\ \A i \in Accumulated(root) : <<root, i>> \in arrived
    BY DEF MergeReadsFiles, Accumulated
  <2>5. CASE StoreSegment(s)
    <3>1. /\ accumulator' = [root |-> root, received |-> Accumulated(root) \cup {index}]
          /\ Remove(Dropped(root), Stored(root, index))
          /\ <<root, index>> \in arrived'
      BY <2>1, <2>5 DEF StoreSegment
    <3>2. Accumulated(root) \cup {index} \in SUBSET Stored(root, index)[root]
      BY <2>3, <2>4
    <3>3. \A i \in Accumulated(root) \cup {index} : <<root, i>> \in arrived'
      BY <2>2, <2>4, <3>1
    <3>. HIDE DEF root, index
    <3>. QED  BY <2>1, <2>3, <3>1, <3>2, <3>3, StoreMergeReads
  <2>6. CASE StoreFails(s)
    <3>1. /\ accumulator' = [root |-> root, received |-> Accumulated(root)]
          /\ Remove(Dropped(root), disk)
      BY <2>6 DEF StoreFails
    <3>2. \A i \in Accumulated(root) : <<root, i>> \in arrived'
      BY <2>2, <2>4
    <3>. HIDE DEF root, index
    <3>. QED  BY <1>0, <2>1, <2>4, <3>1, <3>2, StoreMergeReads
  <2>7. CASE Merge(s)
    <3>1. /\ Accumulated(root) \cup {index} = Indices(root)
          /\ Segmented(root) /\ <<root, index>> \in arrived'
      BY <2>1, <2>7 DEF Merge
    <3>2. \A i \in Indices(root) : <<root, i>> \in arrived'
      BY <2>2, <2>4, <3>1
    <3>3. Held = {root}
      <4>1. Count[root] \in Nat /\ Count[root] > 1
        BY <2>1, <3>1, IosReceiverAssumption DEF Segmented
      <4>2. 0 \in Indices(root) /\ 1 \in Indices(root)
        BY <4>1 DEF Indices
      <4>3. Accumulated(root) # {}
        <5>1. 0 # index \/ 1 # index
          OBVIOUS
        <5>. QED  BY <3>1, <4>2, <5>1
      <4>. QED  BY <4>3 DEF Accumulated, Held
    <3>4. CASE accumulator' = None /\ Remove({root}, Stored(root, index))
      <4>. HIDE DEF root, index
      <4>1. /\ \A r \in Roots \ {root} : disk'[r] = Stored(root, index)[r]
            /\ \A r \in {root} : disk'[r] # {} => r \in undeleted'
            /\ undeleted \ {root} \subseteq undeleted'
        <5>1. {root} \in SUBSET Roots /\ \A a, b \in {root} : a = b
          BY <2>1
        <5>. QED  BY <1>0, <2>3, <3>4, <5>1, RemoveEffects
      <4>. QED  BY <2>3, <3>3, <3>4, <4>1 DEF MergeReadsFiles
    <3>5. CASE /\ accumulator' = [root |-> root, received |-> Indices(root)]
               /\ disk' = Stored(root, index) /\ undeleted' = undeleted
      <4>. HIDE DEF root, index
      <4>1. accumulator' # None
        BY <2>1, <3>5, AccumulatorType
      <4>2. Held' = {root}
        BY <3>5, <4>1 DEF Held
      <4>3. Indices(root) \subseteq disk'[root]
        BY <2>3, <2>4, <3>1, <3>5
      <4>. QED  BY <2>3, <3>2, <3>3, <3>5, <4>2, <4>3 DEF MergeReadsFiles
    <3>. QED  BY <2>7, <3>4, <3>5 DEF Merge
  <2>. QED  BY <1>3, <2>5, <2>6, <2>7
<1>4. ASSUME NEW s \in Sessions, IngestPart(s) \/ SaveFile(s) \/ SegmentUnreadable(s)
      PROVE  UNCHANGED <<accumulator, disk, undeleted>> /\ arrived \subseteq arrived'
  BY <1>4 DEF IngestPart, SaveFile, SegmentUnreadable, historyVars
<1>. QED  BY <1>1, <1>2, <1>3, <1>4, Steps DEF Outcome, sessionVars, historyVars

\* Whatever fails, a merge reads only segments that arrived and are there, and
\* the phone keeps no others but what it could not remove.
THEOREM MergeReads == Spec => []MergeReadsFiles
<1>1. Init => MergeReadsFiles
  BY DEF Init, MergeReadsFiles
<1>. QED  BY <1>1, InitType, StepType, StepMergeReads, PTL DEF Spec

----------------------------------------------------------------------------
(* Every file once. *)

\* A file that was saved can no longer be received: its sessions are ignored,
\* and nothing of it is held.
Over(root) ==
  /\ \A index \in Indices(root) : <<root, index>> \in ignored
  /\ native # None => native.session[1] # root
  /\ accumulator # None => accumulator.root # root

SavedInv ==
  /\ native # None /\ native.frames = Need => native.session \in ignored
  /\ accumulator # None =>
       /\ Segmented(accumulator.root)
       /\ \A index \in accumulator.received : <<accumulator.root, index>> \in ignored
  /\ \A root \in Roots : saved[root] <= 1 /\ (saved[root] = 1 => Over(root))

\* A frame that is not ignored leads to no session of a file that was saved.
LEMMA FedIsNew ==
  ASSUME TypeOK, SavedInv, NEW s \in Sessions, s \notin ignored
  PROVE  /\ saved[Fed(s).session[1]] = 0
         /\ \A root \in Roots : saved[root] = 1 => Fed(s).session[1] # root
<1>1. native \in Receivers \cup {None} /\ saved \in [Roots -> Nat]
  BY DEF TypeOK
<1>2. s[1] \in Roots /\ s[2] \in Indices(s[1]) /\ s = <<s[1], s[2]>>
  BY SessionType
<1>3. ASSUME NEW root \in Roots, saved[root] = 1 PROVE Fed(s).session[1] # root
  <2>1. Over(root)
    BY <1>3 DEF SavedInv
  <2>2. CASE native = None
    BY <1>1, <1>2, <2>1, <2>2, FedType DEF Over
  <2>3. CASE native # None
    BY <1>1, <2>1, <2>3, FedType DEF Over
  <2>. QED  BY <2>2, <2>3
<1>4. Fed(s).session[1] \in Roots
  BY <1>1, FedType, SessionType DEF Receivers
<1>5. saved[Fed(s).session[1]] \in Nat /\ saved[Fed(s).session[1]] <= 1
  BY <1>1, <1>4 DEF SavedInv
<1>. QED  BY <1>3, <1>4, <1>5

\* A session that completes is ignored from then on.
LEMMA CompletedIsIgnored ==
  ASSUME TypeOK, SavedInv, NEW s \in Sessions, Completing(s)
  PROVE  /\ Fed(s).session \in ignored'
         /\ ignored \subseteq ignored'
         /\ s \notin ignored
<1>1. ignored' = ignored \cup {s} /\ Fed(s).frames = Need /\ s \notin ignored
  BY DEF Completing, IgnoredWith
<1>2. native \in Receivers \cup {None}
  BY DEF TypeOK
<1>3. Fed(s).session = s \/ (native # None /\ native.frames = Need)
  BY <1>1, <1>2, FedType
<1>4. native # None => Fed(s).session = native.session
  BY <1>2, FedType
<1>. QED  BY <1>1, <1>3, <1>4 DEF SavedInv

LEMMA InitSaved == Init => SavedInv
<1> SUFFICES ASSUME Init PROVE SavedInv
  OBVIOUS
<1>1. native = None /\ accumulator = None /\ \A root \in Roots : saved[root] = 0
  BY DEF Init
<1>. QED  BY <1>1 DEF SavedInv

\* The outcomes that save no file.
LEMMA UnsavedOutcome ==
  ASSUME TypeOK, SavedInv, NEW s \in Sessions, Completing(s), saved' = saved,
         native' \in {None, Fed(s)},
         \/ accumulator' = accumulator
         \/ /\ Segmented(Fed(s).session[1])
            /\ accumulator' # None
            /\ accumulator'.root = Fed(s).session[1]
            /\ accumulator'.received \subseteq
                 Accumulated(Fed(s).session[1]) \cup {Fed(s).session[2]}
  PROVE  SavedInv'
<1> DEFINE done == Fed(s).session
<1>1. /\ done \in ignored' /\ ignored \subseteq ignored' /\ s \notin ignored
      /\ done = <<done[1], done[2]>>
  BY CompletedIsIgnored, CompletingType, SessionType
<1>2. \A root \in Roots : saved[root] = 1 => done[1] # root
  BY <1>1, FedIsNew
<1>3. native' # None => native'.session = done
  OBVIOUS
<1>. HIDE DEF done
<1>4. accumulator' # None =>
        /\ Segmented(accumulator'.root)
        /\ \A index \in accumulator'.received : <<accumulator'.root, index>> \in ignored'
        /\ \/ accumulator # None /\ accumulator'.root = accumulator.root
           \/ accumulator'.root = done[1]
  <2>1. CASE accumulator' = accumulator
    BY <1>1, <2>1 DEF SavedInv
  <2>2. CASE accumulator' # accumulator
    <3>1. /\ Segmented(done[1])
          /\ accumulator'.root = done[1]
          /\ accumulator'.received \subseteq Accumulated(done[1]) \cup {done[2]}
      BY <2>2 DEF done
    <3>2. \A index \in Accumulated(done[1]) : <<done[1], index>> \in ignored
      BY DEF Accumulated, SavedInv
    <3>. QED  BY <1>1, <3>1, <3>2
  <2>. QED  BY <2>1, <2>2
<1>5. ASSUME NEW root \in Roots
      PROVE  saved'[root] <= 1 /\ (saved'[root] = 1 => Over(root)')
  <2>1. saved[root] <= 1 /\ (saved[root] = 1 => Over(root))
    BY DEF SavedInv
  <2>2. ASSUME saved[root] = 1 PROVE Over(root)'
    BY <1>1, <1>2, <1>3, <1>4, <2>1, <2>2 DEF Over
  <2>. QED  BY <2>1, <2>2
<1>. QED  BY <1>1, <1>3, <1>4, <1>5 DEF SavedInv

\* The outcomes that save one: every session of the file is ignored.
LEMMA SavedOutcome ==
  ASSUME TypeOK, SavedInv, NEW s \in Sessions, Completing(s), native' = None,
         Finish(Fed(s).session[1]),
         \/ accumulator' = accumulator /\ ~Segmented(Fed(s).session[1])
         \/ /\ accumulator' = None
            /\ Accumulated(Fed(s).session[1]) \cup {Fed(s).session[2]}
                 = Indices(Fed(s).session[1])
  PROVE  SavedInv'
<1> DEFINE done == Fed(s).session
<1>1. /\ done \in ignored' /\ ignored \subseteq ignored' /\ s \notin ignored
      /\ done \in Sessions /\ done[1] \in Roots /\ done = <<done[1], done[2]>>
  BY CompletedIsIgnored, CompletingType, SessionType
<1>2. saved[done[1]] = 0 /\ saved' = [saved EXCEPT ![done[1]] = @ + 1]
  BY <1>1, FedIsNew DEF Finish
<1>3. saved \in [Roots -> Nat]
  BY DEF TypeOK
<1>4. \A index \in Indices(done[1]) : <<done[1], index>> \in ignored'
  <2>1. CASE ~Segmented(done[1])
    BY <1>1, <2>1, OnlySession
  <2>2. CASE Accumulated(done[1]) \cup {done[2]} = Indices(done[1])
    <3>1. \A index \in Accumulated(done[1]) : <<done[1], index>> \in ignored
      BY DEF Accumulated, SavedInv
    <3>. QED  BY <1>1, <2>2, <3>1
  <2>. QED  BY <2>1, <2>2
<1>5. accumulator' # None => accumulator' = accumulator /\ ~Segmented(done[1])
  OBVIOUS
<1>. HIDE DEF done
<1>6. accumulator' # None =>
        /\ Segmented(accumulator'.root) /\ accumulator'.root # done[1]
        /\ \A index \in accumulator'.received : <<accumulator'.root, index>> \in ignored'
  BY <1>1, <1>5 DEF SavedInv
<1>7. ASSUME NEW root \in Roots
      PROVE  saved'[root] <= 1 /\ (saved'[root] = 1 => Over(root)')
  <2>1. CASE root = done[1]
    <3>1. saved'[root] = 1
      BY <1>1, <1>2, <1>3, <2>1
    <3>. QED  BY <1>4, <1>6, <2>1, <3>1 DEF Over
  <2>2. CASE root # done[1]
    <3>1. saved'[root] = saved[root]
      BY <1>2, <1>3, <2>2
    <3>2. saved[root] <= 1 /\ (saved[root] = 1 => Over(root))
      BY DEF SavedInv
    <3>. QED  BY <1>1, <1>5, <3>1, <3>2 DEF Over
  <2>. QED  BY <2>1, <2>2
<1>. QED  BY <1>6, <1>7 DEF SavedInv

LEMMA StepSaved == TypeOK /\ SavedInv /\ [Next]_vars => SavedInv'
<1> SUFFICES ASSUME TypeOK, SavedInv, [Next]_vars PROVE SavedInv'
  OBVIOUS
<1>1. CASE UNCHANGED <<native, accumulator, ignored, saved>>
  BY <1>1 DEF SavedInv, Over
<1>2. ASSUME NEW s \in Sessions, IngestPart(s) PROVE SavedInv'
  <2>1. /\ native' = Fed(s) /\ s \notin ignored /\ Fed(s).frames < Need
        /\ UNCHANGED <<accumulator, ignored, saved>>
    BY <1>2 DEF IngestPart, historyVars
  <2>2. \A root \in Roots : saved[root] = 1 => Fed(s).session[1] # root
    BY <2>1, FedIsNew
  <2>3. Fed(s).frames # Need
    BY <2>1, FedType, IosReceiverAssumption DEF TypeOK, Receivers
  <2>. QED  BY <2>1, <2>2, <2>3 DEF SavedInv, Over
<1>3. ASSUME NEW s \in Sessions, Completing(s), Outcome(s) PROVE SavedInv'
  <2> DEFINE root == Fed(s).session[1]
             index == Fed(s).session[2]
  <2>1. /\ root \in Roots /\ index \in Indices(root)
        /\ Accumulated(root) \subseteq Indices(root)
    BY <1>3, CompletingType
  <2>2. \A received \in SUBSET Indices(root) : [root |-> root, received |-> received] # None
    BY <2>1, AccumulatorType
  <2>3. CASE SaveFile(s)
    <3>1. CASE Finish(root) /\ native' = None
      BY <1>3, <2>3, <3>1, SavedOutcome DEF SaveFile
    <3>2. CASE Throw /\ native' = Fed(s)
      BY <1>3, <2>3, <3>2, UnsavedOutcome DEF SaveFile, Throw
    <3>. QED  BY <2>3, <3>1, <3>2 DEF SaveFile
  <2>4. CASE SegmentUnreadable(s)
    BY <1>3, <2>4, UnsavedOutcome DEF SegmentUnreadable, Throw
  <2>5. CASE StoreSegment(s) \/ StoreFails(s)
    <3>1. /\ Segmented(root) /\ saved' = saved /\ native' \in {None, Fed(s)}
          /\ \/ accumulator' = [root |-> root, received |-> Accumulated(root) \cup {index}]
             \/ accumulator' = [root |-> root, received |-> Accumulated(root)]
      BY <2>5 DEF StoreSegment, StoreFails, Throw
    <3>2. /\ accumulator' # None /\ accumulator'.root = root
          /\ accumulator'.received \subseteq Accumulated(root) \cup {index}
      <4>1. Accumulated(root) \cup {index} \in SUBSET Indices(root)
        BY <2>1
      <4>. HIDE DEF root, index
      <4>. QED  BY <2>1, <2>2, <3>1, <4>1
    <3>. QED  BY <1>3, <3>1, <3>2, UnsavedOutcome
  <2>6. CASE Merge(s)
    <3>1. Accumulated(root) \cup {index} = Indices(root) /\ Segmented(root) /\ native' = None
      BY <2>6 DEF Merge
    <3>2. CASE Finish(root) /\ accumulator' = None
      BY <1>3, <3>1, <3>2, SavedOutcome
    <3>3. CASE Throw /\ accumulator' = [root |-> root, received |-> Indices(root)]
      <4>1. accumulator' # None
        BY <2>2, <3>3
      <4>. QED  BY <1>3, <3>1, <3>3, <4>1, UnsavedOutcome DEF Throw
    <3>. QED  BY <2>6, <3>2, <3>3 DEF Merge
  <2>. QED  BY <1>3, <2>3, <2>4, <2>5, <2>6 DEF Outcome
<1>4. CASE Reset
  BY <1>4 DEF Reset, SavedInv
<1>. QED  BY <1>1, <1>2, <1>3, <1>4, Steps DEF sessionVars, historyVars

\* Tasks that wait, retries and restarts never save a file twice.
THEOREM SavesOnce == Spec => []SavedOnce
<1>1. SavedInv => SavedOnce
  BY DEF SavedInv, SavedOnce
<1>. QED  BY <1>1, InitType, StepType, InitSaved, StepSaved, PTL DEF Spec

----------------------------------------------------------------------------
(* What is given up. *)

\* Until a file operation fails, no session stays complete.
FreshInv ==
  failures = 0 =>
    /\ native # None => native.frames < Need
    /\ ignored \subseteq arrived

\* A completed session leaves the receiver as data that was stored, or stays
\* because of a failure.
LEMMA OutcomeKeeps ==
  ASSUME TypeOK, NEW s \in Sessions, Outcome(s)
  PROVE  \/ /\ native' = None /\ arrived' = arrived \cup {Fed(s).session}
         \/ /\ native' = Fed(s) /\ failures' = failures + 1
<1>1. CASE SaveFile(s)
  BY <1>1 DEF SaveFile, Throw
<1>2. CASE SegmentUnreadable(s) \/ StoreFails(s)
  BY <1>2 DEF SegmentUnreadable, StoreFails, Throw
<1>3. CASE StoreSegment(s) \/ Merge(s)
  BY <1>3 DEF StoreSegment, Merge
<1>. QED  BY <1>1, <1>2, <1>3 DEF Outcome

LEMMA StepFresh == TypeOK /\ FreshInv /\ [Next]_vars => FreshInv'
<1> SUFFICES ASSUME TypeOK, FreshInv, [Next]_vars, failures' = 0
             PROVE  /\ native' # None => native'.frames < Need
                    /\ ignored' \subseteq arrived'
  BY DEF FreshInv
<1>. USE DEF sessionVars, historyVars
<1>1. CASE UNCHANGED <<native, ignored, arrived, failures>>
  BY <1>1 DEF FreshInv
<1>2. ASSUME NEW s \in Sessions, IngestPart(s)
      PROVE  /\ native' # None => native'.frames < Need
             /\ ignored' \subseteq arrived'
  BY <1>2 DEF IngestPart, FreshInv
<1>3. ASSUME NEW s \in Sessions, Completing(s), Outcome(s)
      PROVE  /\ native' # None => native'.frames < Need
             /\ ignored' \subseteq arrived'
  <2>1. native' = None /\ arrived' = arrived \cup {Fed(s).session} /\ failures = 0
    <3>1. failures \in Nat
      BY DEF TypeOK
    <3>2. failures' = failures \/ failures' = failures + 1
      BY <1>3 DEF Outcome, SaveFile, SegmentUnreadable, StoreSegment, StoreFails, Merge, Finish, Throw
    <3>3. failures' # failures + 1
      BY <3>1
    <3>. QED  BY <1>3, <3>2, <3>3, OutcomeKeeps
  <2>2. ignored' = ignored \cup {s} /\ Fed(s).frames = Need
    BY <1>3 DEF Completing, IgnoredWith
  <2>3. ~(native # None /\ native.frames = Need)
    BY <2>1, IosReceiverAssumption DEF FreshInv
  <2>4. Fed(s).session = s
    BY <2>2, <2>3, FedType DEF TypeOK
  <2>. QED  BY <2>1, <2>2, <2>4 DEF FreshInv
<1>4. CASE Reset
  BY <1>4 DEF Reset
<1>. QED  BY <1>1, <1>2, <1>3, <1>4, Steps

\* Without a failing file operation only what arrived is ignored.
THEOREM OnlyArrivedIgnored == Spec => []IgnoredArrived
<1>1. Init => FreshInv
  BY DEF Init, FreshInv
<1>2. FreshInv => IgnoredArrived
  BY DEF FreshInv, IgnoredArrived
<1>. QED  BY <1>1, <1>2, InitType, StepType, StepFresh, PTL DEF Spec

\* What was received of a session is only given up once it is stored, or by the
\* user.
THEOREM ReceivedKept == Spec => NothingDropped
<1>1. TypeOK /\ [Next]_vars =>
        [native # None /\ native' = None /\ ~Reset => native.session \in arrived']_vars
  <2> SUFFICES ASSUME TypeOK, [Next]_vars, native # None, native' = None, ~Reset
               PROVE  native.session \in arrived'
    OBVIOUS
  <2>1. PICK s \in Sessions : IngestPart(s) \/ (Completing(s) /\ Outcome(s))
    BY Steps DEF sessionVars
  <2>2. Fed(s) # None /\ Fed(s).session = native.session
    BY FedType, IosReceiverAssumption DEF TypeOK
  <2>3. CASE IngestPart(s)
    BY <2>2, <2>3 DEF IngestPart
  <2>4. CASE Outcome(s)
    BY <2>2, <2>4, OutcomeKeeps
  <2>. QED  BY <2>1, <2>3, <2>4
<1>. QED  BY <1>1, InitType, StepType, PTL DEF Spec, NothingDropped

----------------------------------------------------------------------------
(* The queues of the camera. *)

\* What is in a queue, and what comes last.
Entries(q) == {q[i] : i \in 1..Len(q)}
LastOf(q)  == q[Len(q)]

LEMMA Appended ==
  ASSUME NEW S, NEW q \in Seq(S), NEW e \in S
  PROVE  /\ Append(q, e) \in Seq(S) /\ Append(q, e) # <<>>
         /\ LastOf(Append(q, e)) = e
         /\ Entries(Append(q, e)) = Entries(q) \cup {e}
<1> DEFINE t == Append(q, e)
<1>1. /\ Len(q) \in Nat /\ t \in Seq(S) /\ Len(t) = Len(q) + 1 /\ t[Len(q) + 1] = e
      /\ \A i \in 1..Len(q) : t[i] = q[i]
  BY AppendProperties, LenProperties
<1>. HIDE DEF t
<1>2. t # <<>>
  BY <1>1, EmptySeq
<1>3. 1..Len(t) = 1..Len(q) \cup {Len(q) + 1}
  BY <1>1
<1>4. Entries(t) = Entries(q) \cup {e}
  BY <1>1, <1>3 DEF Entries
<1>. QED  BY <1>1, <1>2, <1>4 DEF LastOf, t

LEMMA Popped ==
  ASSUME NEW S, NEW q \in Seq(S), q # <<>>
  PROVE  /\ Tail(q) \in Seq(S) /\ Head(q) \in S
         /\ Entries(q) = {Head(q)} \cup Entries(Tail(q))
         /\ Tail(q) # <<>> => LastOf(Tail(q)) = LastOf(q)
         /\ Tail(q) = <<>> => LastOf(q) = Head(q)
<1> DEFINE t == Tail(q)
<1>1. /\ Len(q) \in Nat /\ Len(q) >= 1 /\ Head(q) = q[1] /\ Head(q) \in S
      /\ t \in Seq(S) /\ Len(t) = Len(q) - 1
      /\ \A i \in 1..(Len(q) - 1) : t[i] = q[i + 1]
  <2>1. Len(q) \in Nat /\ Len(q) # 0
    BY EmptySeq, LenProperties
  <2>. QED  BY <2>1, HeadTailProperties
<1>. HIDE DEF t
<1>2. t = <<>> <=> Len(q) = 1
  BY <1>1, EmptySeq
<1>3. Entries(q) = {Head(q)} \cup Entries(t)
  <2>1. \A i \in 1..Len(q) : q[i] = Head(q) \/ \E j \in 1..Len(t) : q[i] = t[j]
    <3> SUFFICES ASSUME NEW i \in 1..Len(q), i # 1
                 PROVE  \E j \in 1..Len(t) : q[i] = t[j]
      BY <1>1
    <3>1. i - 1 \in 1..Len(t) /\ (i - 1) + 1 = i
      BY <1>1
    <3>. QED  BY <1>1, <3>1
  <2>2. \A j \in 1..Len(t) : \E i \in 1..Len(q) : t[j] = q[i]
    <3> SUFFICES ASSUME NEW j \in 1..Len(t) PROVE j + 1 \in 1..Len(q) /\ t[j] = q[j + 1]
      OBVIOUS
    <3>. QED  BY <1>1
  <2>3. 1 \in 1..Len(q)
    BY <1>1
  <2>4. \A x : x \in Entries(q) <=> \E i \in 1..Len(q) : x = q[i]
    BY DEF Entries
  <2>5. \A x : x \in Entries(t) <=> \E j \in 1..Len(t) : x = t[j]
    BY DEF Entries
  <2>6. Head(q) \in Entries(q)
    BY <1>1, <2>3, <2>4
  <2>7. \A x \in Entries(t) : x \in Entries(q)
    BY <2>2, <2>4, <2>5
  <2>8. \A x \in Entries(q) : x = Head(q) \/ x \in Entries(t)
    BY <2>1, <2>4, <2>5
  <2>. QED  BY <2>6, <2>7, <2>8
<1>4. t # <<>> => LastOf(t) = LastOf(q)
  <2> SUFFICES ASSUME t # <<>> PROVE t[Len(t)] = q[Len(q)]
    BY DEF LastOf
  <2>1. Len(t) \in 1..(Len(q) - 1) /\ Len(t) + 1 = Len(q)
    BY <1>1, <1>2
  <2>. QED  BY <1>1, <2>1
<1>5. t = <<>> => LastOf(q) = Head(q)
  BY <1>1, <1>2 DEF LastOf
<1>. QED  BY <1>1, <1>3, <1>4, <1>5 DEF t

\* What a queue is once e came to those of q.
Told(t, S, q, e) ==
  t \in Seq(S) /\ t # <<>> /\ LastOf(t) = e /\ Entries(t) = Entries(q) \cup {e}

\* Every call that waits for an answer gets it.
LEMMA AllTold ==
  ASSUME NEW S, NEW q \in Seq(S), NEW e \in S, NEW n \in Nat \ {0}
  PROVE  Told(q \o [i \in 1..n |-> e], S, q, e)
<1> DEFINE told == [i \in 1..n |-> e]
           t    == q \o told
<1>1. told \in Seq(S) /\ Len(told) = n /\ Len(q) \in Nat
  BY LenProperties
<1>2. /\ t \in Seq(S) /\ Len(t) = Len(q) + n
      /\ \A i \in 1..(Len(q) + n) : t[i] = IF i <= Len(q) THEN q[i] ELSE e
  <2>1. \A j \in 1..n : told[j] = e
    OBVIOUS
  <2>. HIDE DEF told
  <2>2. /\ t \in Seq(S) /\ Len(t) = Len(q) + Len(told)
        /\ \A i \in 1..(Len(q) + Len(told)) :
             t[i] = IF i <= Len(q) THEN q[i] ELSE told[i - Len(q)]
    BY <1>1, ConcatProperties
  <2>3. \A i \in 1..(Len(q) + n) : i <= Len(q) \/ i - Len(q) \in 1..n
    BY <1>1
  <2>. QED  BY <1>1, <2>1, <2>2, <2>3
<1>. HIDE DEF t
<1>3. t # <<>>
  BY <1>1, <1>2, EmptySeq
<1>4. LastOf(t) = e
  <2>1. Len(t) \in 1..(Len(q) + n) /\ ~(Len(t) <= Len(q))
    BY <1>1, <1>2
  <2>. QED  BY <1>2, <2>1 DEF LastOf
<1>5. Entries(t) = Entries(q) \cup {e}
  <2>1. \A i \in 1..Len(q) : i \in 1..Len(t) /\ t[i] = q[i]
    BY <1>1, <1>2
  <2>2. \A i \in 1..Len(t) : (i \in 1..Len(q) /\ t[i] = q[i]) \/ t[i] = e
    BY <1>1, <1>2
  <2>3. Len(t) \in 1..Len(t) /\ t[Len(t)] = e
    BY <1>1, <1>2, <1>4 DEF LastOf
  <2>. QED  BY <2>1, <2>2, <2>3 DEF Entries
<1>6. Told(t, S, q, e)
  BY <1>2, <1>3, <1>4, <1>5 DEF Told
<1>. QED  BY <1>6 DEF t

----------------------------------------------------------------------------
(* The camera and what was asked of it. *)

Jobs     == {"run", "reconfigure", "stop"}
Closures == {"allowed", "denied", "running", "failed"}

CameraType ==
  /\ access \in {"authorized", "notDetermined", "denied"}
  /\ requests \in Nat
  /\ captureQueue \in Seq(Jobs)
  /\ posting \in {None, "running", "failed"}
  /\ mainQueue \in Seq(Closures)

\* Without access nothing ever ran, and nothing is going to.
AccessInv ==
  /\ requests > 0 => access = "notDetermined"
  /\ access # "authorized" =>
       /\ Entries(captureQueue) \subseteq {"stop"} /\ Entries(mainQueue) \subseteq {"denied"}
       /\ posting = None /\ ~isRunning /\ notice = None /\ state \in {"idle", "denied"}

\* The last job decides: a camera nobody wants is stopped by it.
StoppedInv ==
  IF captureQueue = <<>> THEN isRunning => camera \/ awakened
  ELSE LastOf(captureQueue) # "stop" => camera \/ awakened

\* What the view is going to show in the end.
Final ==
  IF posting # None THEN posting ELSE IF mainQueue # <<>> THEN LastOf(mainQueue) ELSE state

\* A camera that is wanted is on its way, runs, or is known to have failed.
WantedInv ==
  camera =>
    \/ requests > 0 \/ "allowed" \in Entries(mainQueue)
    \/ captureQueue # <<>> /\ LastOf(captureQueue) # "stop"
    \/ access = "denied" /\ Final = "denied"
    \/ captureQueue = <<>> /\ (isRunning \/ notice # None \/ overtaken \/ Final = "failed")

CameraInv == CameraType /\ AccessInv /\ StoppedInv /\ WantedInv

LEMMA CameraIsSettled == CameraInv => CameraFollowsView
<1> SUFFICES ASSUME CameraInv, Settled PROVE
      /\ isRunning => camera \/ awakened
      /\ camera => isRunning \/ state \in {"denied", "failed"} \/ overtaken
  BY DEF CameraFollowsView
<1>1. /\ captureQueue = <<>> /\ posting = None /\ mainQueue = <<>> /\ requests = 0
      /\ notice = None
  BY DEF Settled
<1>2. Entries(mainQueue) = {} /\ Final = state
  BY <1>1, EmptySeq DEF Entries, Final
<1>. QED  BY <1>1, <1>2 DEF CameraInv, StoppedInv, WantedInv

LEMMA InitCamera == CInit => CameraInv
<1> SUFFICES ASSUME CInit PROVE CameraInv
  OBVIOUS
<1>1. /\ camera = TRUE /\ access \in {"authorized", "notDetermined"}
      /\ requests = (IF access = "notDetermined" THEN 1 ELSE 0)
      /\ captureQueue = (IF access = "authorized" THEN <<"run">> ELSE <<>>)
      /\ posting = None /\ mainQueue = <<>> /\ isRunning = FALSE /\ notice = None
      /\ state = "idle"
  BY DEF CInit, Init
<1>2. /\ captureQueue \in Seq(Jobs) /\ mainQueue \in Seq(Closures)
  BY <1>1 DEF Jobs
<1>3. Entries(<<>>) = {}
  BY EmptySeq DEF Entries
<1>4. access = "authorized" => captureQueue # <<>> /\ LastOf(captureQueue) = "run"
  BY <1>1 DEF LastOf
<1>5. CameraType
  BY <1>1, <1>2 DEF CameraType
<1>6. AccessInv
  BY <1>1, <1>3 DEF AccessInv
<1>7. StoppedInv
  BY <1>1 DEF StoppedInv
<1>8. WantedInv
  BY <1>1, <1>4 DEF WantedInv
<1>. QED  BY <1>5, <1>6, <1>7, <1>8 DEF CameraInv

\* What none of the queues, nor the session, is concerned by.
LEMMA QuietCamera ==
  ASSUME CameraInv,
         UNCHANGED <<camera, access, requests, captureQueue, posting, mainQueue, isRunning,
                     notice, state, awakened, overtaken>>
  PROVE  CameraInv'
BY DEF CameraInv, CameraType, AccessInv, StoppedInv, WantedInv, Final

\* start: onAppear, and the reset of the view model.
LEMMA StartCamera ==
  ASSUME CameraInv, camera' = TRUE, Start, UNCHANGED Rest
  PROVE  CameraInv'
<1>1. UNCHANGED <<access, posting, mainQueue, isRunning, notice, overtaken>>
  BY DEF Rest, captureVars
<1>2. CameraType /\ AccessInv
  BY DEF CameraInv
<1>3. StoppedInv'
  BY DEF StoppedInv
<1>4. CASE access = "authorized"
  <2>1. captureQueue' = Append(captureQueue, "run") /\ UNCHANGED <<requests, state>>
    BY <1>4 DEF Start, Enqueued
  <2>2. captureQueue' \in Seq(Jobs) /\ captureQueue' # <<>> /\ LastOf(captureQueue') = "run"
    BY <1>2, <2>1, Appended DEF CameraType, Jobs
  <2>. QED  BY <1>1, <1>2, <1>3, <1>4, <2>1, <2>2
             DEF CameraInv, CameraType, AccessInv, WantedInv
<1>5. CASE access = "notDetermined"
  <2>1. requests' = requests + 1 /\ UNCHANGED <<captureQueue, state>>
    BY <1>5 DEF Start
  <2>2. requests' \in Nat /\ requests' > 0
    BY <1>2, <2>1 DEF CameraType
  <2>. QED  BY <1>1, <1>2, <1>3, <1>5, <2>1, <2>2
             DEF CameraInv, CameraType, AccessInv, WantedInv
<1>6. CASE access = "denied"
  <2>1. state' = "denied" /\ UNCHANGED <<captureQueue, requests>>
    BY <1>6 DEF Start
  <2>2. posting = None /\ Entries(mainQueue) \subseteq {"denied"}
    BY <1>2, <1>6 DEF AccessInv
  <2>3. mainQueue # <<>> => LastOf(mainQueue) = "denied"
    <3>1. mainQueue # <<>> => LastOf(mainQueue) \in Entries(mainQueue)
      BY <1>2, EmptySeq, LenProperties DEF CameraType, LastOf, Entries
    <3>. QED  BY <2>2, <3>1
  <2>4. Final' = "denied"
    BY <1>1, <2>1, <2>2, <2>3 DEF Final
  <2>. QED  BY <1>1, <1>2, <1>3, <1>6, <2>1, <2>4
             DEF CameraInv, CameraType, AccessInv, WantedInv
<1>. QED  BY <1>2, <1>4, <1>5, <1>6 DEF CameraType

\* stop: onDisappear, and a file that is saved.
LEMMA StopCamera ==
  ASSUME CameraInv, camera' = FALSE, Stop, UNCHANGED Rest
  PROVE  CameraInv'
<1>1. UNCHANGED <<access, posting, mainQueue, isRunning, notice, overtaken, requests, state>>
  BY DEF Rest, captureVars, Stop
<1>2. CameraType /\ AccessInv
  BY DEF CameraInv
<1>3. captureQueue' = Append(captureQueue, "stop")
  BY DEF Stop, Enqueued
<1>4. /\ captureQueue' \in Seq(Jobs) /\ captureQueue' # <<>> /\ LastOf(captureQueue') = "stop"
      /\ Entries(captureQueue') = Entries(captureQueue) \cup {"stop"}
  BY <1>2, <1>3, Appended DEF CameraType, Jobs
<1>5. CameraType' /\ AccessInv'
  BY <1>1, <1>2, <1>4 DEF CameraType, AccessInv
<1>6. StoppedInv' /\ WantedInv'
  BY <1>4 DEF StoppedInv, WantedInv
<1>. QED  BY <1>5, <1>6 DEF CameraInv

\* A job for the session is queued while there is access.
LEMMA QueuedRun ==
  ASSUME CameraInv, access = "authorized", NEW job \in {"run", "reconfigure"},
         captureQueue' = Append(captureQueue, job), camera' \/ awakened',
         UNCHANGED <<access, requests, posting, isRunning>>, mainQueue' \in Seq(Closures)
  PROVE  CameraInv'
<1>1. CameraType /\ AccessInv
  BY DEF CameraInv
<1>2. /\ captureQueue' \in Seq(Jobs) /\ captureQueue' # <<>> /\ LastOf(captureQueue') = job
  BY <1>1, Appended DEF CameraType, Jobs
<1>3. CameraType' /\ AccessInv'
  BY <1>1, <1>2 DEF CameraType, AccessInv
<1>4. StoppedInv' /\ WantedInv'
  BY <1>2 DEF StoppedInv, WantedInv
<1>. QED  BY <1>3, <1>4 DEF CameraInv

LEMMA StepStopJob == CameraInv /\ StopJob => CameraInv'
<1> SUFFICES ASSUME CameraInv, StopJob PROVE CameraInv'
  OBVIOUS
<1>1. /\ captureQueue # <<>> /\ Head(captureQueue) = "stop" /\ captureQueue' = Tail(captureQueue)
      /\ isRunning' = FALSE
      /\ UNCHANGED <<camera, access, requests, posting, mainQueue, notice, state, awakened,
                     overtaken>>
  BY DEF StopJob, receiverVars, vars
<1>2. CameraType /\ AccessInv /\ StoppedInv /\ WantedInv
  BY DEF CameraInv
<1>3. /\ captureQueue' \in Seq(Jobs)
      /\ Entries(captureQueue') \subseteq Entries(captureQueue)
      /\ captureQueue' # <<>> => LastOf(captureQueue') = LastOf(captureQueue)
      /\ captureQueue' = <<>> => LastOf(captureQueue) = "stop"
  BY <1>1, <1>2, Popped DEF CameraType
<1>4. CameraType' /\ AccessInv'
  BY <1>1, <1>2, <1>3 DEF CameraType, AccessInv
<1>5. StoppedInv'
  BY <1>1, <1>2, <1>3 DEF StoppedInv
<1>6. WantedInv'
  BY <1>1, <1>2, <1>3 DEF WantedInv, Final
<1>. QED  BY <1>4, <1>5, <1>6 DEF CameraInv

LEMMA StepRunJob == CameraInv /\ RunJob => CameraInv'
<1> SUFFICES ASSUME CameraInv, RunJob PROVE CameraInv'
  OBVIOUS
<1>1. /\ captureQueue # <<>> /\ Head(captureQueue) # "stop" /\ captureQueue' = Tail(captureQueue)
      /\ \/ isRunning' = TRUE /\ posting' = "running"
         \/ isRunning' = FALSE /\ posting' = "failed"
      /\ UNCHANGED <<camera, access, requests, mainQueue, notice, state, awakened>>
  BY DEF RunJob, receiverVars, vars
<1>2. CameraType /\ AccessInv /\ StoppedInv /\ WantedInv
  BY DEF CameraInv
<1>3. /\ captureQueue' \in Seq(Jobs)
      /\ Head(captureQueue) \in Entries(captureQueue)
      /\ captureQueue' # <<>> => LastOf(captureQueue') = LastOf(captureQueue)
      /\ captureQueue' = <<>> => LastOf(captureQueue) # "stop"
  BY <1>1, <1>2, Popped DEF CameraType
<1>4. access = "authorized" /\ ~(requests > 0)
  BY <1>1, <1>2, <1>3 DEF AccessInv
<1>5. CameraType' /\ AccessInv'
  BY <1>1, <1>2, <1>3, <1>4 DEF CameraType, AccessInv
<1>6. StoppedInv'
  BY <1>1, <1>2, <1>3 DEF StoppedInv
<1>7. WantedInv'
  <2>1. isRunning' \/ Final' = "failed"
    BY <1>1, CameraAssumption DEF Final
  <2>. QED  BY <1>1, <1>2, <1>3, <1>4, <2>1 DEF WantedInv
<1>. QED  BY <1>5, <1>6, <1>7 DEF CameraInv

LEMMA StepPost == CameraInv /\ Post => CameraInv'
<1> SUFFICES ASSUME CameraInv, Post PROVE CameraInv'
  OBVIOUS
<1>1. /\ posting # None /\ posting' = None /\ mainQueue' = Append(mainQueue, posting)
      /\ UNCHANGED <<camera, access, requests, captureQueue, isRunning, notice, state, awakened,
                     overtaken>>
  BY DEF Post, receiverVars, vars, captureVars
<1>2. CameraType /\ AccessInv /\ StoppedInv /\ WantedInv
  BY DEF CameraInv
<1>3. posting \in Closures
  BY <1>1, <1>2 DEF CameraType, Closures
<1>4. /\ mainQueue' \in Seq(Closures) /\ mainQueue' # <<>> /\ LastOf(mainQueue') = posting
      /\ Entries(mainQueue') = Entries(mainQueue) \cup {posting}
  BY <1>1, <1>2, <1>3, Appended DEF CameraType
<1>5. access = "authorized"
  BY <1>1, <1>2 DEF AccessInv
<1>6. Final' = Final
  BY <1>1, <1>4 DEF Final
<1>7. CameraType' /\ AccessInv'
  BY <1>1, <1>2, <1>4, <1>5 DEF CameraType, AccessInv
<1>8. StoppedInv' /\ WantedInv'
  BY <1>1, <1>2, <1>4, <1>6 DEF StoppedInv, WantedInv
<1>. QED  BY <1>7, <1>8 DEF CameraInv

LEMMA StepRunMain == CameraInv /\ RunMain => CameraInv'
<1> SUFFICES ASSUME CameraInv, RunMain PROVE CameraInv'
  OBVIOUS
<1>1. /\ mainQueue # <<>> /\ mainQueue' = Tail(mainQueue)
      /\ UNCHANGED <<camera, access, requests, posting, isRunning, notice, overtaken>>
  BY DEF RunMain, receiverVars, vars, captureVars
<1>2. CameraType /\ AccessInv /\ StoppedInv /\ WantedInv
  BY DEF CameraInv
<1>3. /\ mainQueue' \in Seq(Closures) /\ Head(mainQueue) \in Closures
      /\ Entries(mainQueue) = {Head(mainQueue)} \cup Entries(mainQueue')
      /\ mainQueue' # <<>> => LastOf(mainQueue') = LastOf(mainQueue)
      /\ mainQueue' = <<>> => LastOf(mainQueue) = Head(mainQueue)
  BY <1>1, <1>2, Popped DEF CameraType
<1>4. CASE Head(mainQueue) = "allowed"
  <2>1. captureQueue' = Append(captureQueue, "run") /\ awakened' = ~camera
    BY <1>4 DEF RunMain, Enqueued
  <2>2. access = "authorized"
    BY <1>2, <1>3, <1>4 DEF AccessInv
  <2>3. camera' \/ awakened'
    BY <1>1, <2>1
  <2>. QED  BY <1>1, <1>3, <2>1, <2>2, <2>3, QueuedRun
<1>5. CASE Head(mainQueue) # "allowed"
  <2>1. state' = Head(mainQueue) /\ UNCHANGED <<captureQueue, awakened>>
    BY <1>5 DEF RunMain
  <2>2. Final' = Final
    BY <1>1, <1>3, <2>1 DEF Final
  <2>3. CameraType' /\ AccessInv'
    BY <1>1, <1>2, <1>3, <2>1 DEF CameraType, AccessInv
  <2>4. "allowed" \in Entries(mainQueue) => "allowed" \in Entries(mainQueue')
    BY <1>3, <1>5
  <2>5. StoppedInv' /\ WantedInv'
    BY <1>1, <1>2, <2>1, <2>2, <2>4 DEF StoppedInv, WantedInv
  <2>. QED  BY <2>3, <2>5 DEF CameraInv
<1>. QED  BY <1>4, <1>5

LEMMA StepAnswer ==
  ASSUME CameraInv, NEW allowed \in BOOLEAN, Answer(allowed)
  PROVE  CameraInv'
<1> DEFINE answer == IF allowed THEN "allowed" ELSE "denied"
<1>1. /\ requests > 0 /\ requests' = 0
      /\ access' = IF allowed THEN "authorized" ELSE "denied"
      /\ mainQueue' = mainQueue \o [i \in 1..requests |-> answer]
      /\ UNCHANGED <<camera, captureQueue, posting, isRunning, notice, state, awakened,
                     overtaken>>
  BY DEF Answer, receiverVars, vars, captureVars
<1>2. CameraType /\ AccessInv /\ StoppedInv
  BY DEF CameraInv
<1>3. requests \in Nat \ {0} /\ answer \in Closures /\ mainQueue \in Seq(Closures)
  BY <1>1, <1>2 DEF CameraType, Closures
<1>. HIDE DEF answer
<1>4. /\ mainQueue' \in Seq(Closures) /\ mainQueue' # <<>> /\ LastOf(mainQueue') = answer
      /\ Entries(mainQueue') = Entries(mainQueue) \cup {answer}
  <2>1. Told(mainQueue \o [i \in 1..requests |-> answer], Closures, mainQueue, answer)
    BY <1>3, AllTold
  <2>2. Told(mainQueue', Closures, mainQueue, answer)
    BY <1>1, <2>1
  <2>. QED  BY <2>2 DEF Told
<1>5. /\ access = "notDetermined" /\ Entries(captureQueue) \subseteq {"stop"}
      /\ Entries(mainQueue) \subseteq {"denied"} /\ posting = None /\ ~isRunning /\ notice = None
      /\ state \in {"idle", "denied"}
  BY <1>1, <1>2 DEF AccessInv
<1>6. CameraType'
  BY <1>1, <1>2, <1>4 DEF CameraType
<1>7. AccessInv'
  <2>1. ~(requests' > 0)
    BY <1>1
  <2>2. CASE allowed
    BY <1>1, <2>1, <2>2 DEF AccessInv
  <2>3. CASE ~allowed
    <3>1. Entries(mainQueue') \subseteq {"denied"}
      BY <1>4, <1>5, <2>3 DEF answer
    <3>. QED  BY <1>1, <1>5, <2>1, <3>1 DEF AccessInv
  <2>. QED  BY <2>2, <2>3
<1>8. StoppedInv'
  BY <1>1, <1>2 DEF StoppedInv
<1>9. WantedInv'
  <2>1. CASE allowed
    BY <1>4, <2>1 DEF WantedInv, answer
  <2>2. CASE ~allowed
    <3>1. Final' = "denied"
      BY <1>1, <1>4, <1>5, <2>2 DEF Final, answer
    <3>. QED  BY <1>1, <2>2, <3>1 DEF WantedInv
  <2>. QED  BY <2>1, <2>2
<1>. QED  BY <1>6, <1>7, <1>8, <1>9 DEF CameraInv

LEMMA StepSessionError ==
  ASSUME CameraInv, NEW kind \in {"mediaServicesWereReset", "other"}, SessionError(kind)
  PROVE  CameraInv'
<1>1. /\ isRunning /\ isRunning' = FALSE /\ notice' = kind
      /\ UNCHANGED <<camera, access, requests, captureQueue, posting, mainQueue, state,
                     awakened, overtaken>>
  BY DEF SessionError, receiverVars, vars, queueVars
<1>2. kind # None
  BY CameraAssumption
<1>3. access = "authorized"
  BY <1>1 DEF CameraInv, AccessInv
<1>4. CameraType' /\ AccessInv'
  BY <1>1, <1>3 DEF CameraInv, CameraType, AccessInv
<1>5. StoppedInv'
  BY <1>1 DEF CameraInv, StoppedInv
<1>6. WantedInv'
  BY <1>1, <1>2 DEF CameraInv, WantedInv, Final
<1>. QED  BY <1>4, <1>5, <1>6 DEF CameraInv

LEMMA StepRuntimeError == CameraInv /\ HandleRuntimeError => CameraInv'
<1> SUFFICES ASSUME CameraInv, HandleRuntimeError PROVE CameraInv'
  OBVIOUS
<1>1. /\ notice # None /\ notice' = None
      /\ UNCHANGED <<camera, access, requests, posting, isRunning, state>>
  BY DEF HandleRuntimeError, receiverVars, vars
<1>2. CameraType /\ AccessInv /\ StoppedInv /\ WantedInv
  BY DEF CameraInv
<1>3. access = "authorized"
  BY <1>1, <1>2 DEF AccessInv
<1>4. CASE notice = "mediaServicesWereReset"
  <2>1. /\ captureQueue' = Append(captureQueue, "reconfigure") /\ awakened' = ~camera
        /\ mainQueue' = mainQueue
    BY <1>4 DEF HandleRuntimeError, Enqueued
  <2>2. camera' \/ awakened'
    BY <1>1, <2>1
  <2>3. mainQueue' \in Seq(Closures)
    BY <1>2, <2>1 DEF CameraType
  <2>. QED  BY <1>1, <1>3, <2>1, <2>2, <2>3, QueuedRun
<1>5. CASE notice # "mediaServicesWereReset"
  <2>1. /\ mainQueue' = Append(mainQueue, "failed")
        /\ overtaken' = (posting = "running" /\ ~isRunning)
        /\ UNCHANGED <<captureQueue, awakened>>
    BY <1>5 DEF HandleRuntimeError
  <2>2. /\ mainQueue' \in Seq(Closures) /\ mainQueue' # <<>> /\ LastOf(mainQueue') = "failed"
        /\ Entries(mainQueue') = Entries(mainQueue) \cup {"failed"}
    BY <1>2, <2>1, Appended DEF CameraType, Closures
  <2>3. isRunning' \/ overtaken' \/ Final' = "failed"
    BY <1>1, <1>2, <2>1, <2>2 DEF CameraType, Final
  <2>4. CameraType' /\ AccessInv'
    BY <1>1, <1>2, <1>3, <2>1, <2>2 DEF CameraType, AccessInv
  <2>5. StoppedInv'
    BY <1>1, <1>2, <2>1 DEF StoppedInv
  <2>6. WantedInv'
    BY <1>1, <1>2, <1>3, <2>1, <2>2, <2>3 DEF WantedInv
  <2>. QED  BY <2>4, <2>5, <2>6 DEF CameraInv
<1>. QED  BY <1>4, <1>5

LEMMA StepCamera == TypeOK /\ CameraInv /\ [CNext]_allVars => CameraInv'
<1> SUFFICES ASSUME TypeOK, CameraInv, [CNext]_allVars PROVE CameraInv'
  OBVIOUS
<1>. USE DEF receiverVars, vars, cameraVars, queueVars, captureVars
<1>1. CASE Appear
  BY <1>1, StartCamera DEF Appear, Asked
<1>2. CASE Disappear
  BY <1>2, StopCamera DEF Disappear, Asked
<1>3. CASE Retry
  <2>1. /\ state = "failed" /\ camera' = TRUE
        /\ captureQueue' = Append(captureQueue, "reconfigure")
        /\ UNCHANGED <<requests, access, posting, mainQueue, isRunning>>
    BY <1>3 DEF Retry, Asked, Enqueued, Rest
  <2>2. access = "authorized" /\ mainQueue' \in Seq(Closures)
    BY <2>1 DEF CameraInv, CameraType, AccessInv
  <2>. QED  BY <2>1, <2>2, QueuedRun
<1>4. CASE ReceiveNext
  BY <1>4, StartCamera DEF ReceiveNext, Reset
<1>5. ASSUME NEW s \in Sessions, IngestFrame(s) PROVE CameraInv'
  <2>1. CASE saved' # saved
    <3>1. camera' = FALSE
      BY <1>5, <2>1 DEF IngestFrame, Ingest, IngestIgnored, IngestPart, SaveFile,
           SegmentUnreadable, StoreSegment, StoreFails, Merge, Finish, Throw, historyVars
    <3>. QED  BY <1>5, <2>1, <3>1, StopCamera DEF IngestFrame
  <2>2. CASE saved' = saved
    <3>1. UNCHANGED <<awakened, captureQueue, requests, state>> /\ UNCHANGED Rest
      BY <1>5, <2>2 DEF IngestFrame
    <3>2. Fed(s).session[1] \in Roots => ~Finish(Fed(s).session[1])
      BY <2>2 DEF Finish, TypeOK
    <3>3. Completing(s) => Fed(s).session[1] \in Roots
      BY CompletingType
    <3>4. camera' = camera
      BY <1>5, <3>2, <3>3 DEF IngestFrame, Ingest, IngestIgnored, IngestPart, SaveFile,
           SegmentUnreadable, StoreSegment, StoreFails, Merge, Throw
    <3>. QED  BY <3>1, <3>4, QuietCamera DEF Rest
  <2>. QED  BY <2>1, <2>2
<1>6. CASE StopJob \/ RunJob \/ Post \/ RunMain
  BY <1>6, StepStopJob, StepRunJob, StepPost, StepRunMain
<1>7. ASSUME NEW allowed \in BOOLEAN, Answer(allowed) PROVE CameraInv'
  BY <1>7, StepAnswer
<1>8. CASE SessionError("mediaServicesWereReset") \/ SessionError("other")
  BY <1>8, StepSessionError
<1>9. CASE HandleRuntimeError
  BY <1>9, StepRuntimeError
<1>10. CASE Deliver \/ ScanFails
  BY <1>10, QuietCamera DEF Deliver, ScanFails
<1>11. CASE Scan
  BY <1>11, QuietCamera DEF Scan, Film
<1>12. CASE ShowMissing
  BY <1>12, QuietCamera DEF ShowMissing, ShowSession
<1>13. CASE UNCHANGED allVars
  BY <1>13, QuietCamera DEF allVars
<1>. QED
  BY <1>1, <1>2, <1>3, <1>4, <1>5, <1>6, <1>7, <1>8, <1>9, <1>10, <1>11, <1>12, <1>13
  DEF CNext

\* To the view model, whatever the camera does is a step of its own: a frame may
\* come although the camera was stopped, and the view may go and come back.
LEMMA CameraSteps ==
  ASSUME TypeOK, [CNext]_allVars
  PROVE  [Next]_vars \/ Film
<1>. USE DEF receiverVars, allVars
<1>1. ASSUME NEW on \in BOOLEAN, Asked(on) PROVE [Next]_vars
  <2>1. camera' = camera \/ camera' = ~camera
    BY <1>1 DEF Asked, TypeOK
  <2>2. UNCHANGED <<showing, tasks, sessionVars, historyVars, resets>>
    BY <1>1 DEF Asked
  <2>3. CASE camera' = ~camera
    BY <2>2, <2>3 DEF Leave, Next
  <2>4. CASE camera' = camera
    BY <2>2, <2>4 DEF vars
  <2>. QED  BY <2>1, <2>3, <2>4
<1>2. CASE Appear \/ Disappear \/ Retry
  BY <1>1, <1>2 DEF Appear, Disappear, Retry
<1>3. CASE ReceiveNext
  BY <1>3 DEF ReceiveNext, Next
<1>4. ASSUME NEW s \in Sessions, IngestFrame(s) PROVE [Next]_vars
  BY <1>4 DEF IngestFrame, Next
<1>5. CASE StopJob \/ RunJob \/ Post \/ RunMain
  BY <1>5 DEF StopJob, RunJob, Post, RunMain
<1>6. ASSUME NEW allowed \in BOOLEAN, Answer(allowed) PROVE [Next]_vars
  BY <1>6 DEF Answer
<1>7. ASSUME NEW kind, SessionError(kind) PROVE [Next]_vars
  BY <1>7 DEF SessionError
<1>8. CASE HandleRuntimeError \/ Deliver \/ ScanFails
  BY <1>8 DEF HandleRuntimeError, Deliver, ScanFails
<1>9. CASE ShowMissing
  BY <1>9 DEF ShowMissing, Next
<1>10. CASE Scan
  BY <1>10 DEF Scan
<1>. QED
  BY <1>2, <1>3, <1>4, <1>5, <1>6, <1>7, <1>8, <1>9, <1>10 DEF CNext

LEMMA FilmQuiet ==
  ASSUME TypeOK, Film
  PROVE  TypeOK' /\ UNCHANGED <<native, accumulator, disk, ignored, saved, arrived, undeleted, failures>>
BY DEF Film, TypeOK, sessionVars, historyVars

LEMMA StepReceiver ==
  TypeOK /\ SavedInv /\ MergeReadsFiles /\ FreshInv /\ [CNext]_allVars
    => (TypeOK /\ SavedInv /\ MergeReadsFiles /\ FreshInv)'
<1> SUFFICES ASSUME TypeOK, SavedInv, MergeReadsFiles, FreshInv, [CNext]_allVars
             PROVE  TypeOK' /\ SavedInv' /\ MergeReadsFiles' /\ FreshInv'
  OBVIOUS
<1>1. CASE [Next]_vars
  BY <1>1, StepType, StepSaved, StepMergeReads, StepFresh
<1>2. CASE Film
  BY <1>2, FilmQuiet DEF SavedInv, Over, MergeReadsFiles, Held, FreshInv
<1>. QED  BY <1>1, <1>2, CameraSteps

LEMMA InitReceiver == CInit => TypeOK /\ SavedInv /\ MergeReadsFiles /\ FreshInv
<1>1. CInit => Init
  BY DEF CInit
<1>2. Init => MergeReadsFiles /\ FreshInv
  BY DEF Init, MergeReadsFiles, FreshInv
<1>. QED  BY <1>1, <1>2, InitType, InitSaved

\* However the view, the user's answer, the jobs of the two queues and the errors
\* of the capture session meet, and however many there are: when all is done the
\* camera runs only if it was asked for last (or was started late), and one that
\* is wanted runs or the view says why not.
THEOREM CameraDoesAsAsked == CSpec => []CameraFollowsView
BY InitReceiver, StepReceiver, InitCamera, StepCamera, CameraIsSettled, PTL DEF CSpec

\* What holds of the receiver holds with frames that are scanned after the
\* camera was stopped: they save no file twice, ignore no session that is still
\* wanted and leave a merge what it reads.
THEOREM LateFramesHarmless ==
  CSpec => [](TypeOK /\ SavedOnce /\ MergeReadsFiles /\ IgnoredArrived)
<1>1. SavedInv /\ FreshInv => SavedOnce /\ IgnoredArrived
  BY DEF SavedInv, SavedOnce, FreshInv, IgnoredArrived
<1>. QED  BY <1>1, InitReceiver, StepReceiver, PTL DEF CSpec
=============================================================================
