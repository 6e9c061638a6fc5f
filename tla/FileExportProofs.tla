--------------------------- MODULE FileExportProofs ---------------------------
(***************************************************************************)
(* What a received file may hold, for every list of revisions, every set   *)
(* of small files and every number of names, failures and crashes.         *)
(*                                                                         *)
(* The properties of the directory are not inductive as they stand: that   *)
(* the output of an export in progress is nobody else's file, and that a   *)
(* flushed output holds what was hashed, are the two facts they need.      *)
(***************************************************************************)
EXTENDS FileExport, TLAPS

\* The directory is a function on the names.
ShelfType ==
  /\ shelf = [n \in Names |-> shelf[n]]
  /\ holds = [n \in Names |-> holds[n]]

\* The name being written to is free, then the export's own.
OutputInv ==
  /\ step \in {"create", "write", "verify"} => holds[output] = NoFile
  /\ step = "create" => shelf[output] = NoFile
  /\ step = "verify" => shelf[output] = written

\* The inductive invariant for the directory.
DirectoryInv == ShelfType /\ OutputInv /\ HoldsWhatWasSent /\ NoPartialOutput

----------------------------------------------------------------------------
(* Lemmas. *)

\* A content is never taken for an absent file.
LEMMA ContentIsFile == \A c \in Seq({"a", "b"}) : c # NoFile
<1>1. SUFFICES ASSUME NEW c \in Seq({"a", "b"}), c = NoFile PROVE FALSE
  OBVIOUS
<1>2. Len(c) = 1 /\ c[1] = "absent"
  BY <1>1 DEF NoFile
<1>3. c[1] \in {"a", "b"}
  BY <1>2
<1> QED BY <1>2, <1>3

LEMMA RevisionContent ==
  \A r \in DOMAIN Revisions : Revisions[r].content # NoFile
BY FileExportAssumption, ContentIsFile DEF IsFile

LEMMA SmallContent == \A f \in Small : f.content # NoFile
BY FileExportAssumption, ContentIsFile DEF IsFile

\* While an export is under way there is an accumulator, hence a descriptor.
LEMMA InfoDefined ==
  ASSUME TypeOK, step # "collect"
  PROVE  accumulator.info \in DOMAIN Revisions /\ Info.content # NoFile
<1>1. accumulator.info \in 1..Len(Revisions)
  BY FileExportAssumption DEF TypeOK
<1>2. DOMAIN Revisions = 1..Len(Revisions)
  BY FileExportAssumption DEF TypeOK
<1> QED BY <1>1, <1>2, RevisionContent DEF Info

----------------------------------------------------------------------------
(* Types. *)

LEMMA InitTypeOK == Init => TypeOK
BY FileExportAssumption
   DEF Init, TypeOK, NoAccumulator, NoSegments, Names, Indices, Keys

\* Every step keeps the types; one case per action.
LEMMA StepTypeOK == TypeOK /\ [Next]_vars => TypeOK'
<1> SUFFICES ASSUME TypeOK, [Next]_vars PROVE TypeOK'
  OBVIOUS
<1>1. CASE \E i \in Indices : Store(i)
  <2>1. PICK i \in Indices : Store(i)
    BY <1>1
  <2>2. accumulator' \in [info : 1..Len(Revisions), received : SUBSET Indices]
    <3>1. (IF accumulator = NoAccumulator THEN revision ELSE accumulator.info)
             \in 1..Len(Revisions)
      BY FileExportAssumption DEF TypeOK
    <3>2. accumulator.received \cup {i} \in SUBSET Indices
      BY DEF TypeOK
    <3> QED BY <2>1, <3>1, <3>2 DEF Store
  <2>3. /\ DOMAIN incoming' = Indices
        /\ ignored' \subseteq Keys
        /\ step' \in {"collect", "merge"}
    BY <2>1 DEF TypeOK, Store, Keys
  <2>4. output' = 0 /\ revision' \in DOMAIN Revisions /\ completed' \in 0..MaxNames
    BY <2>1 DEF TypeOK, Store
  <2>5. /\ stray' \subseteq Names
        /\ failures' \in 0..MaxFailures /\ crashes' \in 0..MaxCrashes
    BY <2>1 DEF TypeOK, Store, shelfVars
  <2> QED BY <2>2, <2>3, <2>4, <2>5, FileExportAssumption DEF TypeOK
<1>2. CASE \E f \in Small : SaveSmall(f)
  BY <1>2, FileExportAssumption
     DEF TypeOK, SaveSmall, Throw, Fail, Offer, Keys, Names, diskVars, exportVars
<1>3. CASE Merge
  BY <1>3, FileExportAssumption DEF TypeOK, Merge, Throw, Fail, Names, shelfVars
<1>4. CASE Create
  BY <1>4, FileExportAssumption DEF TypeOK, Create, Throw, Fail, Names, diskVars
<1>5. CASE WritePiece
  BY <1>5 DEF TypeOK, WritePiece, memoryVars, diskVars
<1>6. CASE Flush
  BY <1>6 DEF TypeOK, Flush, memoryVars, diskVars
<1>7. CASE Abandon
  <2>1. step' = "collect" /\ output' = 0
    BY <1>7 DEF Abandon, Throw, Fail
  <2>2. step \in {"write", "verify"}
    BY <1>7 DEF Abandon, CannotWrite
  <2>3. output \in Names
    BY <2>2 DEF TypeOK
  <2>4. stray' \subseteq Names
    BY <1>7, <2>3 DEF Abandon, Removed, TypeOK
  <2>5. failures' \in 0..MaxFailures
    BY <1>7, FileExportAssumption DEF TypeOK, Abandon, CannotWrite, Fail
  <2>6. UNCHANGED <<revision, accumulator, ignored, completed, diskVars, crashes>>
    BY <1>7 DEF Abandon
  <2> QED BY <2>1, <2>4, <2>5, <2>6 DEF TypeOK, diskVars
<1>8. CASE Complete
  <2>1. output \in Names /\ completed' = output
    BY <1>8 DEF TypeOK, Complete, Offer
  <2>2. accumulator' = NoAccumulator /\ step' = "collect" /\ output' = 0
    BY <1>8 DEF Complete
  <2>3. DOMAIN incoming' = Indices /\ failures' \in 0..MaxFailures
    BY <1>8, FileExportAssumption DEF TypeOK, Complete, NoSegments, diskVars
  <2>4. /\ revision' = revision /\ ignored' = ignored /\ stray' = stray
        /\ crashes' = crashes
    BY <1>8 DEF Complete
  <2> QED
    BY <2>1, <2>2, <2>3, <2>4, FileExportAssumption DEF TypeOK, NoAccumulator, Names
<1>9. CASE Reset
  BY <1>9, FileExportAssumption
     DEF TypeOK, Reset, IgnoredOnReset, NoAccumulator, NoSegments, shelfVars, exportVars
<1>10. CASE Crash
  BY <1>10, FileExportAssumption DEF TypeOK, Crash, NoAccumulator, Names, diskVars
<1>11. CASE Edit
  BY <1>11, FileExportAssumption
     DEF TypeOK, Edit, memoryVars, diskVars, shelfVars, exportVars
<1>12. CASE \E n \in Names : Delete(n)
  BY <1>12 DEF TypeOK, Delete, memoryVars, diskVars, exportVars
<1>13. CASE UNCHANGED vars
  BY <1>13 DEF TypeOK, vars, memoryVars, diskVars, shelfVars, exportVars
<1> QED
  BY <1>1, <1>2, <1>3, <1>4, <1>5, <1>6, <1>7, <1>8, <1>9, <1>10, <1>11, <1>12, <1>13
     DEF Next, Export

\* The variables have their types and whatever is being written has a name, for
\* every list of revisions and every bound.
THEOREM ExportTypeCorrect == Spec => []TypeOK
BY InitTypeOK, StepTypeOK, PTL DEF Spec

----------------------------------------------------------------------------
(* The directory. *)

LEMMA InitDirectory == Init => DirectoryInv
BY DEF Init, DirectoryInv, ShelfType, OutputInv, HoldsWhatWasSent, NoPartialOutput

\* A step that touches neither the directory nor the export.
LEMMA DirectoryUntouched ==
  ASSUME DirectoryInv, UNCHANGED <<shelfVars, output, written>>,
         step' = step \/ step' \in {"collect", "merge"}
  PROVE  DirectoryInv'
BY DEF DirectoryInv, ShelfType, OutputInv, HoldsWhatWasSent, NoPartialOutput, shelfVars

\* A name that is not taken holds no received file.
LEMMA UnusedIsFree ==
  ASSUME DirectoryInv, NEW n \in Names, Unused(n)
  PROVE  shelf[n] = NoFile /\ holds[n] = NoFile
BY DEF DirectoryInv, HoldsWhatWasSent, Unused

\* What each action does to the directory; one case per action.
LEMMA StepDirectory ==
  ASSUME RecoveredIsSent, TypeOK, DirectoryInv, [Next]_vars
  PROVE  DirectoryInv'
<1> USE DEF DirectoryInv, ShelfType, OutputInv, HoldsWhatWasSent, NoPartialOutput
<1>1. CASE \E i \in Indices : Store(i)
  BY <1>1, DirectoryUntouched DEF Store, shelfVars
<1>2. CASE \E f \in Small : SaveSmall(f)
  <2>1. PICK f \in Small : SaveSmall(f)
    BY <1>2
  <2>2. output = 0 /\ output' = 0 /\ step' = "collect" /\ stray' = stray
    BY <2>1 DEF SaveSmall, TypeOK, Throw, Fail, exportVars
  <2>3. CASE UNCHANGED <<shelf, holds>>
    BY <2>2, <2>3
  <2>4. ASSUME NEW n \in Names, Assembles(f), Unused(n),
               shelf' = [shelf EXCEPT ![n] = Assembled(f)],
               holds' = [holds EXCEPT ![n] = f.content]
        PROVE  DirectoryInv'
    <3>1. Assembled(f) = f.content /\ f.content # NoFile
      BY <2>4, SmallContent DEF RecoveredIsSent
    <3> QED BY <2>2, <2>4, <3>1
  <2> QED BY <2>1, <2>3, <2>4 DEF SaveSmall, Offer
<1>3. CASE Merge
  <2>1. UNCHANGED shelfVars
    BY <1>3 DEF Merge
  <2>2. CASE \E n \in Names : Unused(n) /\ output' = n /\ step' = "create"
    <3>1. PICK n \in Names : Unused(n) /\ output' = n /\ step' = "create"
      BY <2>2
    <3>2. output = 0
      BY <1>3 DEF Merge, TypeOK
    <3> QED BY <2>1, <3>1, <3>2, UnusedIsFree DEF shelfVars, Names
  <2>3. CASE step' = "collect" /\ output' = 0
    BY <1>3, <2>1, <2>3 DEF Merge, TypeOK, shelfVars
  <2> QED BY <1>3, <2>2, <2>3 DEF Merge, Fail, Throw
<1>4. CASE Create
  <2>1. output \in Names /\ holds' = holds /\ stray' = stray
    BY <1>4 DEF Create, TypeOK
  <2>2. CASE shelf' = [shelf EXCEPT ![output] = <<>>] /\ step' = "write" /\ output' = output
    BY <1>4, <2>1, <2>2 DEF Create
  <2>3. CASE shelf' = shelf /\ step' = "collect" /\ output' = 0
    BY <1>4, <2>1, <2>3 DEF Create
  <2> QED BY <1>4, <2>2, <2>3 DEF Create, Fail, Throw
<1>5. CASE WritePiece
  <2>1. output \in Names /\ step = "write" /\ step' = "write" /\ output' = output
    BY <1>5 DEF WritePiece, TypeOK
  <2>2. UNCHANGED <<holds, stray>>
    BY <1>5 DEF WritePiece
  <2> QED BY <1>5, <2>1, <2>2 DEF WritePiece
<1>6. CASE Flush
  <2>1. output \in Names /\ step = "write" /\ output' = output
    BY <1>6 DEF Flush, TypeOK
  <2> QED BY <1>6, <2>1 DEF Flush
<1>7. CASE Abandon
  <2>1. step \in {"write", "verify"} /\ step' = "collect" /\ output' = 0 /\ holds' = holds
    BY <1>7 DEF Abandon, CannotWrite, Throw, Fail
  <2>2. output \in Names
    BY <2>1 DEF TypeOK
  <2>3. \/ shelf' = [shelf EXCEPT ![output] = NoFile] /\ stray' = stray
        \/ shelf' = shelf /\ stray' = stray \cup {output}
    BY <1>7 DEF Abandon, Removed
  <2> QED BY <2>1, <2>2, <2>3
<1>8. CASE Complete
  <2>1. output \in Names /\ step = "verify" /\ step' = "collect" /\ output' = 0
    BY <1>8 DEF Complete, TypeOK
  <2>2. written = Info.content /\ Info.content # NoFile
    BY <1>8, <2>1, InfoDefined DEF Complete, Verified
  <2>3. holds' = [holds EXCEPT ![output] = Info.content] /\ UNCHANGED <<shelf, stray>>
    BY <1>8 DEF Complete, Offer
  <2> QED BY <2>1, <2>2, <2>3
<1>9. CASE Reset
  BY <1>9, DirectoryUntouched DEF Reset, exportVars
<1>10. CASE Crash
  <2>1. step' = "collect" /\ output' = 0 /\ UNCHANGED <<shelf, holds>>
    BY <1>10 DEF Crash
  <2>2. step \in {"write", "verify"} => stray' = stray \cup {output}
    BY <1>10 DEF Crash
  <2>3. step \notin {"write", "verify"} => stray' = stray
    BY <1>10 DEF Crash
  <2>4. step \in {"collect", "merge"} => output = 0
    BY DEF TypeOK
  <2> QED BY <2>1, <2>2, <2>3, <2>4 DEF TypeOK, Names
<1>11. CASE Edit
  BY <1>11, DirectoryUntouched DEF Edit, exportVars
<1>12. CASE \E n \in Names : Delete(n)
  <2>1. PICK n \in Names : Delete(n)
    BY <1>12
  <2>2. UNCHANGED <<step, output, written>> /\ n # output
    BY <2>1 DEF Delete, exportVars
  <2>3. /\ shelf' = [shelf EXCEPT ![n] = NoFile]
        /\ holds' = [holds EXCEPT ![n] = NoFile]
        /\ stray' = stray \ {n}
    BY <2>1 DEF Delete
  <2>4. step \in {"create", "write", "verify"} => output \in Names
    BY DEF TypeOK
  <2> QED BY <2>2, <2>3, <2>4
<1>13. CASE UNCHANGED vars
  BY <1>13, DirectoryUntouched DEF vars, shelfVars, exportVars
<1> QED
  BY <1>1, <1>2, <1>3, <1>4, <1>5, <1>6, <1>7, <1>8, <1>9, <1>10, <1>11, <1>12, <1>13
     DEF Next, Export

\* A step changes what a received file holds only by removing it.
LEMMA StepKeepsFiles ==
  ASSUME TypeOK, DirectoryInv, [Next]_vars, NEW n \in Names, holds[n] # NoFile
  PROVE  shelf'[n] \in {shelf[n], NoFile}
<1>1. shelf = [m \in Names |-> shelf[m]] /\ shelf[n] # NoFile
  BY DEF DirectoryInv, ShelfType, HoldsWhatWasSent
<1>2. step \in {"create", "write", "verify"} => output # n
  BY DEF DirectoryInv, OutputInv
<1>3. CASE \E f \in Small : SaveSmall(f)
  <2>1. \/ shelf' = shelf
        \/ \E m \in Names, bytes \in {Assembled(f) : f \in Small} :
             Unused(m) /\ shelf' = [shelf EXCEPT ![m] = bytes]
    BY <1>3 DEF SaveSmall
  <2> QED BY <1>1, <2>1 DEF Unused
<1>4. CASE Create
  BY <1>1, <1>2, <1>4 DEF Create
<1>5. CASE WritePiece
  BY <1>1, <1>2, <1>5 DEF WritePiece
<1>6. CASE Flush
  BY <1>1, <1>2, <1>6 DEF Flush
<1>7. CASE Abandon
  <2>1. shelf' \in {shelf, [shelf EXCEPT ![output] = NoFile]}
    BY <1>7 DEF Abandon, Removed
  <2> QED BY <1>1, <2>1
<1>8. CASE \E m \in Names : Delete(m)
  BY <1>1, <1>8 DEF Delete
<1>9. CASE \/ \E i \in Indices : Store(i)
           \/ Merge \/ Complete \/ Reset \/ Crash \/ Edit \/ UNCHANGED vars
  <2>1. shelf' = shelf
    BY <1>9 DEF Store, Merge, Complete, Reset, Crash, Edit, vars, shelfVars
  <2> QED BY <2>1
<1> QED
  BY <1>3, <1>4, <1>5, <1>6, <1>7, <1>8, <1>9 DEF Next, Export

\* The types and the directory together are inductive.
LEMMA DirectoryInvariant ==
  ASSUME RecoveredIsSent
  PROVE  Spec => [](TypeOK /\ DirectoryInv)
<1>1. Init => TypeOK /\ DirectoryInv
  BY InitTypeOK, InitDirectory
<1>2. TypeOK /\ DirectoryInv /\ [Next]_vars => TypeOK' /\ DirectoryInv'
  BY StepTypeOK, StepDirectory, RecoveredIsSent
<1> QED BY <1>1, <1>2, PTL DEF Spec

\* Whatever segments of whatever revisions came in, and whatever failed, a file
\* that was reported as received holds the content that its descriptor promised
\* (airferry_decompress_stream_to_file, assemble_result).
THEOREM SavedIsSent == ASSUME RecoveredIsSent PROVE Spec => []HoldsWhatWasSent
BY DirectoryInvariant, RecoveredIsSent, PTL DEF DirectoryInv

\* A partial or unverified output never stays in the directory but by a crash or
\* a removal that fails (decompress_stream_to_file and its caller).
THEOREM OutputRemoved == ASSUME RecoveredIsSent PROVE Spec => []NoPartialOutput
BY DirectoryInvariant, RecoveredIsSent, PTL DEF DirectoryInv

\* Saving never writes over a received file (uniqueOutputURL).
THEOREM FilesKept == ASSUME RecoveredIsSent PROVE Spec => NeverOverwritten
<1>1. TypeOK /\ DirectoryInv /\ [Next]_vars
        => [\A n \in Names : holds[n] # NoFile => shelf'[n] \in {shelf[n], NoFile}]_vars
  BY StepKeepsFiles
<1> QED BY <1>1, DirectoryInvariant, RecoveredIsSent, PTL DEF Spec, NeverOverwritten
=============================================================================
