--------------------------- MODULE SenderBindings ---------------------------
(***************************************************************************)
(* What a host sees of a sender: the C handle CffiSender                   *)
(* (core/transfer-engine/src/cffi.rs), SenderSessionWasm of the browser    *)
(* (core/transfer-engine/src/wasm.rs), and the rates of Stats              *)
(* (core/transfer-engine/src/progress.rs) they report.                     *)
(*                                                                         *)
(* A call of the host draws frames from the session (SenderSession.tla),   *)
(* one iteration of its loop a step, renders them as QR codes if it is one *)
(* of the browser's, and puts them where the host finds them: in memory of *)
(* its own, in a buffer of the host's, or in the scratch of the session.   *)
(* A frame that was drawn is never drawn again, so a call that takes a     *)
(* frame and does not hand it over has lost it for the receiver.           *)
(*                                                                         *)
(* Calls:                                                                  *)
(*   "c"           airferry_sender_next_frame                              *)
(*   "frame"       next_frame                                              *)
(*   "qr"          next_qr              "qr_into"     next_qr_into         *)
(*   "multi"       next_qr_multi        "multi_into"  next_qr_multi_into   *)
(*   "scratch"     next_qr_scratch, read by qr_scratch_view                *)
(***************************************************************************)
EXTENDS SenderSession, FiniteSetsExt

CONSTANTS
  Hosts,         (* records of a host: the call it uses, the layouts of the    *)
                 (* segments of its file, whether a frame of the chosen symbol *)
                 (* size fits a QR code, and the time of each frame            *)
  Counts,        (* number of codes a host asks for                            *)
  MaxBatch,      (* 8 in the code                                              *)
  ScratchCodes,  (* MAX_UI_QR_COUNT                                            *)
  Rooms,         (* number of codes a buffer of the host has room for          *)
  Window,        (* STATS_WINDOW_MS                                            *)
  MaxSamples     (* STATS_MAX_SAMPLES                                          *)

IsHost(h) ==
  /\ DOMAIN h = {"api", "file", "fits_qr", "clock"}
  /\ h.api \in {"c", "frame", "qr", "qr_into", "multi", "multi_into", "scratch"}
  /\ h.file \in Seq(Layouts) \ {<<>>}
  /\ h.fits_qr \in BOOLEAN
  /\ h.clock \in [1..MaxFrames -> Nat]
  /\ \A i, j \in 1..MaxFrames : i <= j => h.clock[i] <= h.clock[j]

ASSUME BindingsAssumption ==
  /\ \A h \in Hosts : IsHost(h)
  /\ Counts \subseteq Nat /\ Rooms \subseteq Nat
  /\ MaxBatch \in Nat \ {0} /\ ScratchCodes \in Nat \ {0}
  /\ Window \in Nat /\ MaxSamples \in Nat \ {0, 1}

VARIABLES
  host,           (* the host, one of Hosts                                    *)
  segment_index,  (* CffiSender::segment_index                                 *)
  window,         (* Stats::window: the times of the samples kept              *)
  qr_scratch,     (* the count slot and the codes behind it                    *)
  call            (* the call being executed, or how the last one ended        *)

sessionVars == vars
bindingVars == <<vars, host, segment_index, window, qr_scratch, call>>

SegmentCount == Len(host.file)

NoCall ==
  [state |-> "ok", want |-> 0, room |-> 0, slot |-> TRUE, start |-> 0, got |-> <<>>]

\* A sender was created: airferry_sender_create, SenderSessionWasm::new.
BInit ==
  /\ Init
  /\ host \in {h \in Hosts : h.file[1] = blocks}
  /\ segment_index = 0
  /\ window = <<>>
  /\ qr_scratch = [count |-> 0, codes |-> <<>>]
  /\ call = NoCall

----------------------------------------------------------------------------
(* Stats. *)

\* Bug: a sample at the edge of the window is evicted.
StaleAtEdge(t, now) == t <= now - Window

\* A sample before the cutoff (saturating at 0) of push_sample_at and
\* window_rates.
Stale(t, now) == t < now - Window

\* push_sample_at: the oldest samples are evicted while they are stale, but for
\* the last two, and while there are more than STATS_MAX_SAMPLES.
Push(samples, t) ==
  LET all     == Append(samples, t)
      dropped == {d \in 0..Len(all) : d + 2 <= Len(all) /\ \A i \in 1..d : Stale(all[i], t)}
      fresh   == SubSeq(all, Max(dropped \cup {0}) + 1, Len(all))
      first   == IF Len(fresh) > MaxSamples THEN Len(fresh) - MaxSamples + 1 ELSE 1
  IN  SubSeq(fresh, first, Len(fresh))

\* window_rates, over the times of samples; the bytes are frames * symbol size.
Rates(samples, now) ==
  LET times == {samples[i] : i \in {j \in DOMAIN samples : ~Stale(samples[j], now)}}
  IN  [frames |-> Cardinality({j \in DOMAIN samples : ~Stale(samples[j], now)}),
       span   |-> IF times = {} THEN 0 ELSE Max(times) - Min(times)]

\* elapsed_ms, from the first frame on; a rate over a span of 0 is 0.
Elapsed(now) == IF frame_index = 0 THEN 0 ELSE now - host.clock[1]

\* fps_at and throughput_bps_at take the whole session where the window has fewer
\* than two samples, no bytes or no span; since every frame of a sender carries
\* bytes, both do so at the same time.
FallsBack(samples, now) ==
  Rates(samples, now).frames < 2 \/ Rates(samples, now).span = 0

Shown(samples, now) ==
  IF FallsBack(samples, now) THEN [frames |-> frame_index, span |-> Elapsed(now)]
                             ELSE Rates(samples, now)

----------------------------------------------------------------------------
(* A call. *)

Running == call.state = "open"

Clamp(n, low, high) == IF n < low THEN low ELSE IF n > high THEN high ELSE n

\* The number of codes a call makes, when asked for count.
Wanted(count) ==
  CASE host.api \in {"multi", "multi_into"} -> Clamp(count, 0, MaxBatch)
    [] host.api = "scratch"                 -> Clamp(count, 1, ScratchCodes)
    [] OTHER                                -> 1

\* Bug: the C call looks at its buffer only when it has the frame.
RefusedInBrowser(room, slot) ==
  host.api \in {"qr", "qr_into", "multi_into"} /\ ~slot

\* The checks made before a frame is taken: the C call needs room for a frame,
\* the others the word that receives the side or the count.
Refused(room, slot) ==
  \/ host.api = "c" /\ room = 0
  \/ host.api \in {"qr", "qr_into", "multi_into"} /\ ~slot

Call(count, room, slot) ==
  /\ ~Running
  /\ call' = [state |-> IF Refused(room, slot) THEN "failed" ELSE "open",
              want |-> Wanted(count), room |-> room, slot |-> slot,
              start |-> Len(emitted), got |-> <<>>]
  /\ UNCHANGED <<sessionVars, host, segment_index, window, qr_scratch>>

\* The call ends; only the two kinds of next_qr_multi keep what they have when
\* a frame or its code cannot be made.
Cut == call' = [call EXCEPT !.state = IF host.api \in {"multi", "multi_into"}
                                      THEN "ok" ELSE "failed"]

\* The session yields a frame, recorded by record_sent.
Draw ==
  /\ Running
  /\ Len(call.got) < call.want
  /\ NextDescriptor \/ NextSource \/ NextRepair
  /\ window' = Push(window, host.clock[frame_index + 1])
  /\ UNCHANGED <<host, segment_index>>

Drawn == emitted'[Len(emitted')]

Renders == host.api \notin {"c", "frame"}
IntoBuffer == host.api \in {"c", "qr_into", "multi_into"}
HasRoom == IntoBuffer => Len(call.got) < call.room

\* Bug: the codes of a batch are put after those of the batch before.
SlotAfterOld == Len(qr_scratch.codes) + 1

\* The place of the next code in the scratch: all codes have the same size.
Slot == Len(call.got) + 1

\* The scratch keeps what it has behind the place written to.
Written(codes, place, code) ==
  [i \in 1..(IF place > Len(codes) THEN place ELSE Len(codes)) |->
     IF i = place THEN code ELSE codes[i]]

\* A frame is taken and its code put where the host will find it.
HandOver ==
  /\ Draw
  /\ Renders => host.fits_qr
  /\ HasRoom
  /\ call' = [call EXCEPT !.got = Append(@, Drawn)]
  /\ qr_scratch' = IF host.api = "scratch"
                   THEN [qr_scratch EXCEPT !.codes = Written(@, Slot, Drawn)]
                   ELSE qr_scratch

\* The frame is too long for a QR code: it is lost.
EncodeFails ==
  /\ Draw
  /\ Renders /\ ~host.fits_qr
  /\ Cut
  /\ UNCHANGED qr_scratch

\* The host's buffer is full when the code is there: the call fails, and with it
\* all codes it made are lost.
Overflows ==
  /\ Draw
  /\ Renders => host.fits_qr
  /\ ~HasRoom
  /\ call' = [call EXCEPT !.state = "failed"]
  /\ UNCHANGED qr_scratch

\* next_frame fails: SymbolIdSpaceExhausted.
RunsOut ==
  /\ Running
  /\ Len(call.got) < call.want
  /\ NextExhausted
  /\ Cut
  /\ UNCHANGED <<host, segment_index, window, qr_scratch>>

\* The loop is over: the count slot is filled in and the call returns.
Finish ==
  /\ Running
  /\ Len(call.got) = call.want
  /\ call' = [call EXCEPT !.state = "ok"]
  /\ qr_scratch' = IF host.api = "scratch"
                   THEN [qr_scratch EXCEPT !.count = Len(call.got)] ELSE qr_scratch
  /\ UNCHANGED <<sessionVars, host, segment_index, window>>

\* Bug: the index is set before it is checked.
SelectSegmentUnchecked(index) ==
  /\ ~Running
  /\ host.api = "c"
  /\ segment_index' = index
  /\ UNCHANGED <<sessionVars, host, window, qr_scratch, call>>

\* airferry_sender_select_segment: a new session, also for the same segment; an
\* index out of range leaves the old one playing.
SelectSegment(index) ==
  /\ ~Running
  /\ host.api = "c"
  /\ index < SegmentCount
  /\ segment_index' = index
  /\ blocks' = host.file[index + 1]
  /\ source_cursor' = 0
  /\ repair_cursor' = 0
  /\ frame_index' = 0
  /\ descriptor_interval' = DefaultInterval
  /\ exhausted' = FALSE
  /\ emitted' = <<>>
  /\ window' = <<>>
  /\ call' = NoCall
  /\ UNCHANGED <<host, qr_scratch>>

\* A Rust program sets the cadence; no binding offers it.
SetInterval(interval) ==
  /\ SetDescriptorInterval(interval)
  /\ ~Running
  /\ host.api = "frame"
  /\ UNCHANGED <<host, segment_index, window, qr_scratch, call>>

BNext ==
  \/ \E count \in Counts, room \in Rooms, slot \in BOOLEAN : Call(count, room, slot)
  \/ HandOver
  \/ EncodeFails
  \/ Overflows
  \/ RunsOut
  \/ Finish
  \/ \E index \in 0..SegmentCount : SelectSegment(index)
  \/ \E interval \in Intervals : SetInterval(interval)

BSpec == BInit /\ [][BNext]_bindingVars

----------------------------------------------------------------------------
(* Properties. *)

\* Each variable keeps its type; the segment named is the one that plays.
BindingsTypeOK ==
  /\ TypeOK
  /\ host \in Hosts
  /\ segment_index \in 0..(SegmentCount - 1)
  /\ blocks = host.file[segment_index + 1]
  /\ window \in Seq(Nat)
  /\ qr_scratch.count \in 0..ScratchCodes
  /\ Len(qr_scratch.codes) <= ScratchCodes
  /\ call.state \in {"open", "ok", "failed"}
  /\ Len(call.got) <= call.want

\* What the session was asked for since the call began.
Taken == SubSeq(emitted, call.start + 1, Len(emitted))

\* What the host finds when the call is over: what it was handed, or what the
\* view of the scratch shows.
Found == IF host.api = "scratch" THEN SubSeq(qr_scratch.codes, 1, qr_scratch.count)
                                 ELSE call.got

\* No binding loses or repeats a symbol in silence.  A call that hands out codes
\* hands out every frame it took, in the order of the stream, also when the
\* symbols run out in its middle; the scratch, which is reused and never
\* cleared, shows that batch and no code of an earlier or a failed one; and the
\* C call takes no frame that it does not hand out, a short buffer included
\* (cffi.rs:258-260, wasm.rs:229-234, 360-388).
HandsOutWhatItTakes ==
  \/ call.state = "open"
  \/ host.api # "c" /\ (call.state = "failed" \/ call.got = <<>>)
  \/ Found = Taken

\* The rotation over the screens of one, two and four codes the hosts offer.
DescriptorRotation == \A codes \in {1, 2, 4} : RotatesOver(codes)

\* Where the last three seconds have two frames of different times, the rates
\* shown are those of these seconds, and otherwise those of the whole session,
\* whenever they are asked for: eviction, which runs only when a frame is sent,
\* loses no sample that a later snapshot needs, as long as there are not more than
\* STATS_MAX_SAMPLES of them (progress.rs:76-94, 114-151).  That the session's rate
\* is shown only in its first moments, as lines 63-66 say, does not hold: a pause
\* longer than the window leaves too few frames as well.
RateIsLive ==
  LET time == [i \in 1..Len(emitted) |-> host.clock[i]]
      last == IF emitted = <<>> THEN 0 ELSE time[Len(emitted)]
  IN  \A now \in last..(last + Window + 1) :
        LET recent == {i \in DOMAIN time : now <= time[i] + Window}
        IN  /\ Cardinality(recent) <= MaxSamples =>
                 Shown(window, now) =
                   IF recent # {} /\ time[Min(recent)] < last
                   THEN [frames |-> Cardinality(recent), span |-> last - time[Min(recent)]]
                   ELSE [frames |-> Len(emitted), span |-> Elapsed(now)]
            /\ Len(window) <= MaxSamples

============================================================================
