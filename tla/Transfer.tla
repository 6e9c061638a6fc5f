------------------------------ MODULE Transfer ------------------------------
(***************************************************************************)
(* A transfer: SenderSession on one device, ReceiverSession on another,    *)
(* and between them a screen filmed by a camera.                           *)
(*                                                                         *)
(* The sender's loop (SenderViewModel.startLoop) takes a few frames at a   *)
(* time from the session and shows them together.  The camera reads a      *)
(* frame of the screen any number of times, in any order, or not at all: a *)
(* frame that is blurred fails the CRC checks of Frame::from_bytes and     *)
(* never reaches the session, so it is lost like one that was not seen.    *)
(* There is no way back.  The user of the sender may start the same file   *)
(* again, and the receiver's process may be restarted from a checkpoint.   *)
(***************************************************************************)
EXTENDS Naturals, FiniteSets, Sequences

CONSTANTS
  Streams, First,   (* the ways to send the file, and the one used first      *)
  EsiLimit, Overhead, CacheBudget, EntryFloor, DefaultInterval,
  NoMeta, NoFile, NoCheckpoint,
  Codes,            (* frames shown together                                  *)
  MaxEmitted,       (* bound: frames of one sender session                    *)
  MaxMissed,        (* bound: frames shown but never read                     *)
  MaxScans,         (* bound: reads of a frame while it is shown              *)
  MaxResends,       (* bound: times the user starts the file again            *)
  MaxRestarts,      (* bound: restarts of the receiver                        *)
  LastDisturbance   (* bound: frame of a sender session after which neither   *)
                    (* happens, so that the bounded session can make up for it*)

ASSUME TransferAssumption ==
  /\ First \in Streams
  /\ Codes \in Nat \ {0} /\ MaxScans \in Nat \ {0}
  /\ MaxMissed \in Nat /\ MaxResends \in Nat /\ MaxRestarts \in Nat
  /\ LastDisturbance \in Nat

VARIABLES
  blocks, source_cursor, repair_cursor, frame_index, descriptor_interval,
  exhausted, emitted,
  sid, meta, meta_confirmed, descriptor_seen, file_meta, received, source_recv,
  offered, decoded, symbol_cache, frames_seen, frames_duplicate, frames_corrupt,
  received_symbols, decoded_symbols, session_mismatch_streak, descriptors_used,
  checkpoint,
  stream,      (* what the sender sends now                                   *)
  batch,       (* frames taken from the session, not shown yet                *)
  screen,      (* frames shown                                                *)
  scans,       (* how often each of them was read                             *)
  missed, resends, restarts

S == INSTANCE SenderSession
       WITH Layouts <- {s.k : s \in Streams}, Intervals <- {}, MaxFrames <- MaxEmitted

R == INSTANCE ReceiverSession
       WITH MaxEsi <- EsiLimit - 1, MaxStreak <- 1,
            MaxFrames <- (MaxResends + 1) * MaxEmitted * MaxScans

ASSUME StreamAssumption ==
  /\ \A s \in Streams : R!StreamRecord(s) /\ S!IsLayout(s.k)
  /\ NoMeta \notin R!Metas
  /\ DefaultInterval \in Nat \ {0} /\ EsiLimit \in Nat \ {0}
  /\ CacheBudget \in Nat \ {0} /\ EntryFloor \in Nat \ {0} /\ Overhead \in Nat

senderVars   == <<blocks, source_cursor, repair_cursor, frame_index,
                  descriptor_interval, exhausted, emitted>>
receiverVars == <<sid, meta, meta_confirmed, descriptor_seen, file_meta, received,
                  source_recv, offered, decoded, symbol_cache, frames_seen,
                  frames_duplicate, frames_corrupt, received_symbols,
                  decoded_symbols, session_mismatch_streak, descriptors_used,
                  checkpoint>>
screenVars   == <<screen, scans, missed>>
vars == <<senderVars, receiverVars, stream, batch, screenVars, resends, restarts>>

Init ==
  /\ S!Init
  /\ blocks = First.k
  /\ R!Init
  /\ stream = First
  /\ batch = <<>>
  /\ screen = <<>>
  /\ scans = <<>>
  /\ missed = 0
  /\ resends = 0
  /\ restarts = 0

\* The frame on the wire: the session's frame with the header of its stream.
Wire(frame) ==
  [kind |-> frame.kind, stream |-> stream, sbn |-> frame.sbn, esi |-> frame.esi]

\* The loop takes the next frame of the batch.
Produce ==
  /\ Len(batch) < Codes
  /\ S!NextFrame
  /\ emitted' # emitted
  /\ batch' = Append(batch, Wire(emitted'[Len(emitted')]))
  /\ UNCHANGED <<receiverVars, stream, screenVars, resends, restarts>>

Unread == {i \in DOMAIN screen : scans[i] = 0}

\* The batch replaces what is on the screen; what was not read is lost.
Show ==
  /\ Len(batch) = Codes
  /\ missed + Cardinality(Unread) <= MaxMissed
  /\ missed' = missed + Cardinality(Unread)
  /\ screen' = batch
  /\ scans' = [i \in DOMAIN batch |-> 0]
  /\ batch' = <<>>
  /\ UNCHANGED <<senderVars, receiverVars, stream, resends, restarts>>

\* The host hands no frame to a session that is complete: it assembles the
\* object instead.
Read(i) ==
  /\ ~R!Complete
  /\ scans[i] < MaxScans
  /\ scans' = [scans EXCEPT ![i] = @ + 1]
  /\ R!Ingest(screen[i])
  /\ UNCHANGED <<senderVars, stream, batch, screen, missed, resends, restarts>>

ReadUnread == \E i \in Unread : Read(i)

\* The user goes back and starts the file again, perhaps at another speed: the
\* old session is dropped with what it had on the screen.
Resend(s) ==
  /\ resends < MaxResends
  /\ frame_index <= LastDisturbance
  /\ resends' = resends + 1
  /\ stream' = s
  /\ blocks' = s.k
  /\ source_cursor' = 0
  /\ repair_cursor' = 0
  /\ frame_index' = 0
  /\ exhausted' = FALSE
  /\ emitted' = <<>>
  /\ batch' = <<>>
  /\ screen' = <<>>
  /\ scans' = <<>>
  /\ UNCHANGED <<descriptor_interval, receiverVars, missed, restarts>>

\* The receiver saves its state, once, and may be killed and restored from it.
Checkpoint ==
  /\ restarts < MaxRestarts
  /\ R!SaveState
  /\ UNCHANGED <<senderVars, stream, batch, screenVars, resends, restarts>>

Restart ==
  /\ restarts < MaxRestarts
  /\ frame_index <= LastDisturbance
  /\ R!Restore
  /\ restarts' = restarts + 1
  /\ UNCHANGED <<senderVars, stream, batch, screenVars, resends>>

Next ==
  \/ Produce
  \/ Show
  \/ \E i \in DOMAIN screen : Read(i)
  \/ \E s \in Streams : Resend(s)
  \/ Checkpoint
  \/ Restart

\* The sender's loop runs on a timer, and the camera keeps reading what is in
\* front of it.  Users and crashes owe nothing.
Fairness == WF_vars(Produce) /\ WF_vars(Show) /\ WF_vars(ReadUnread)

Spec == Init /\ [][Next]_vars /\ Fairness

----------------------------------------------------------------------------
(* Properties. *)

\* Every block of the layout the receiver knows has been recovered.
Done == R!Complete

\* Whatever frames are lost, repeated and reordered, and wherever in the stream
\* the receiver joins or restarts, the object is recovered in the end and
\* stays so.
EventuallyComplete == <>[]Done

\* A receiver that has missed nothing of a first pass is done with it: the
\* source symbols and one descriptor suffice, no repair symbol is needed.
NoRepairWithoutLoss ==
  (/\ missed = 0 /\ resends = 0 /\ restarts = 0
   /\ Unread = {} /\ batch = <<>>
   /\ source_cursor = Cardinality(S!SourceIds)) => Done

Recovered == IF meta = NoMeta THEN {} ELSE {b \in DOMAIN meta.k : decoded[b]}

Object == INSTANCE ObjectTransfer
            WITH Blocks <- DOMAIN First.k, known <- meta_confirmed,
                 recovered <- Recovered

\* The engine keeps the promise of ObjectTransfer: no block is recovered before
\* the layout is known, and none is lost but by a restart.
Implements == Object!Spec
=============================================================================
