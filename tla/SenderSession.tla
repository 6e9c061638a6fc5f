--------------------------- MODULE SenderSession ---------------------------
(***************************************************************************)
(* The sender half of the engine: SenderSession of                         *)
(* core/transfer-engine/src/sender.rs.  There is no way back from the      *)
(* receiver, so the sender is a generator: each call of next_frame returns *)
(* the next frame to put on the screen, a descriptor every                 *)
(* descriptor_interval frames and otherwise a symbol the session never     *)
(* sent before, first every source symbol, then repair symbols until one   *)
(* block's 24-bit ESI space runs out.                                      *)
(*                                                                         *)
(* A block is its sbn; what matters of the object metadata here is the     *)
(* number K of source symbols of each block.                               *)
(***************************************************************************)
EXTENDS Naturals, FiniteSets, Sequences

CONSTANTS
  Layouts,          (* object layouts: functions 0..n-1 -> K of the block     *)
  Intervals,        (* values passed to set_descriptor_interval               *)
  DefaultInterval,  (* 17 in the code                                         *)
  EsiLimit,         (* 2^24 in the code                                       *)
  MaxFrames         (* bound: frames emitted in a behaviour                   *)

IsLayout(k) ==
  /\ DOMAIN k # {} /\ IsFiniteSet(DOMAIN k)
  /\ DOMAIN k = 0..(Cardinality(DOMAIN k) - 1)
  /\ \A sbn \in DOMAIN k : k[sbn] \in 1..EsiLimit

ASSUME SenderAssumption ==
  /\ \A k \in Layouts : IsLayout(k)
  /\ Intervals \subseteq Nat
  /\ DefaultInterval \in Nat \ {0}
  /\ EsiLimit \in Nat \ {0}
  /\ MaxFrames \in Nat

VARIABLES
  blocks,              (* meta.blocks: K per sbn, fixed for the session        *)
  source_cursor,       (* position in the source pass                         *)
  repair_cursor,       (* position in the repair phase                        *)
  frame_index,         (* frames emitted so far                               *)
  descriptor_interval,
  exhausted,           (* the last next_frame returned SymbolIdSpaceExhausted  *)
  emitted              (* history: every frame returned, in order              *)

vars == <<blocks, source_cursor, repair_cursor, frame_index,
          descriptor_interval, exhausted, emitted>>

----------------------------------------------------------------------------
(* Symbol identifiers. *)

Blocks == DOMAIN blocks

SourceIds == UNION {{sbn} \X (0..(blocks[sbn] - 1)) : sbn \in Blocks}

\* Bug: block-major emission order.
BlockMajor(x, y) == x[1] < y[1] \/ (x[1] = y[1] /\ x[2] < y[2])

\* The order of build_source_plan: esi 0 of every block, then esi 1, ...
Before(x, y) == x[2] < y[2] \/ (x[2] = y[2] /\ x[1] < y[1])

\* Entry number i of the source plan: the id with i ids before it.
PlanEntry(i) ==
  CHOOSE id \in SourceIds :
    Cardinality({other \in SourceIds : Before(other, id)}) = i

\* Bug: repair symbols numbered from the block's last source symbol.
RepairFromLastSource(cursor) ==
  LET n   == Cardinality(Blocks)
      sbn == cursor % n
  IN  <<sbn, blocks[sbn] + (cursor \div n) - 1>>

\* repair_symbol_id before its range check: round robin over the blocks.
RepairId(cursor) ==
  LET n   == Cardinality(Blocks)
      sbn == cursor % n
  IN  <<sbn, blocks[sbn] + (cursor \div n)>>

\* Bug: the first ESI outside the 24-bit space is let through.
InEsiSpaceInclusive(id) == id[2] <= EsiLimit

InEsiSpace(id) == id[2] < EsiLimit

\* Bug: repair starts one symbol before the source pass has ended.
SourcePassOverEarly == source_cursor + 1 >= Cardinality(SourceIds)

SourcePassOver == source_cursor >= Cardinality(SourceIds)

----------------------------------------------------------------------------

DescriptorFrame == [kind |-> "descriptor", sbn |-> 0, esi |-> 0]
DataFrame(id)   == [kind |-> "data", sbn |-> id[1], esi |-> id[2]]

Init ==
  /\ blocks \in Layouts
  /\ source_cursor = 0
  /\ repair_cursor = 0
  /\ frame_index = 0
  /\ descriptor_interval = DefaultInterval
  /\ exhausted = FALSE
  /\ emitted = <<>>

\* set_descriptor_interval: 0 becomes 1.  Every caller in the repository
\* calls it between the constructor and the first frame.
SetDescriptorInterval(interval) ==
  /\ frame_index = 0
  /\ descriptor_interval' = IF interval = 0 THEN 1 ELSE interval
  /\ UNCHANGED <<blocks, source_cursor, repair_cursor, frame_index,
                 exhausted, emitted>>

\* Bug: the period of the cadence is off by one.
DescriptorDueLate == frame_index % (descriptor_interval + 1) = 0

\* Bug: the descriptor is shown once, at the start of the stream.
DescriptorOnlyFirst == frame_index = 0

DescriptorDue == frame_index % descriptor_interval = 0

\* The bookkeeping of a next_frame that returns a frame.
Return(frame) ==
  /\ frame_index < MaxFrames
  /\ frame_index' = frame_index + 1
  /\ emitted' = Append(emitted, frame)
  /\ exhausted' = FALSE
  /\ UNCHANGED <<blocks, descriptor_interval>>

NextDescriptor ==
  /\ DescriptorDue
  /\ Return(DescriptorFrame)
  /\ UNCHANGED <<source_cursor, repair_cursor>>

NextSource ==
  /\ ~DescriptorDue
  /\ ~SourcePassOver
  /\ Return(DataFrame(PlanEntry(source_cursor)))
  /\ source_cursor' = source_cursor + 1
  /\ UNCHANGED repair_cursor

NextRepair ==
  /\ ~DescriptorDue
  /\ SourcePassOver
  /\ InEsiSpace(RepairId(repair_cursor))
  /\ Return(DataFrame(RepairId(repair_cursor)))
  /\ repair_cursor' = repair_cursor + 1
  /\ UNCHANGED source_cursor

\* next_symbol_id fails: neither cursor nor frame_index moves, so every later
\* call fails too.
NextExhausted ==
  /\ ~DescriptorDue
  /\ SourcePassOver
  /\ ~InEsiSpace(RepairId(repair_cursor))
  /\ exhausted' = TRUE
  /\ UNCHANGED <<blocks, source_cursor, repair_cursor, frame_index,
                 descriptor_interval, emitted>>

NextFrame == NextDescriptor \/ NextSource \/ NextRepair \/ NextExhausted

Next ==
  \/ \E interval \in Intervals : SetDescriptorInterval(interval)
  \/ NextFrame

Spec == Init /\ [][Next]_vars

----------------------------------------------------------------------------
(* Properties. *)

\* Each variable keeps its type, and no emitted ESI leaves the 24-bit space.
TypeOK ==
  /\ blocks \in Layouts
  /\ source_cursor \in Nat
  /\ repair_cursor \in Nat
  /\ frame_index \in 0..MaxFrames
  /\ descriptor_interval \in Nat \ {0}
  /\ exhausted \in BOOLEAN
  /\ emitted \in Seq([kind : {"descriptor", "data"}, sbn : Blocks,
                      esi : 0..(EsiLimit - 1)])

Data == {i \in DOMAIN emitted : emitted[i].kind = "data"}

IsSource(i) == emitted[i].esi < blocks[emitted[i].sbn]

\* next_frame promises that a data frame is never repeated, across the source
\* pass, the repair phase and the switch between them (sender.rs:215, 299-306).
FreshSymbols == \A i, j \in Data : i # j => emitted[i] # emitted[j]

\* A receiver that misses nothing needs no repair symbol: when the first one
\* is emitted, every source symbol of every block has been (sender.rs:299-301).
SourceBeforeRepair ==
  \A i \in Data :
    ~IsSource(i) =>
      \A id \in SourceIds : \E j \in Data : j < i /\ emitted[j] = DataFrame(id)

Sent(sbn) == Cardinality({i \in Data : emitted[i].sbn = sbn})

\* A burst of lost frames is spread over all blocks: at any moment no block is
\* more than one symbol ahead of another, beyond the difference of their K
\* (build_source_plan and repair_symbol_id, sender.rs:338-343, 368-373).  And
\* the sender gives up only when its symbols are used up: since one exhausted
\* block stops all of them (314-320, 374-381), they run out together, up to the
\* one symbol by which their K differ.
Lockstep ==
  /\ \A b, c \in Blocks :
       Sent(b) <= Sent(c) + 1 + (IF blocks[b] > blocks[c]
                                 THEN blocks[b] - blocks[c] ELSE 0)
  /\ exhausted => \A sbn \in Blocks : Sent(sbn) >= EsiLimit - 1

Coprime(m, n) == \A d \in 2..n : ~(m % d = 0 /\ n % d = 0)

\* The reason for the odd cadence: on a screen that shows Codes frames at a
\* time, any descriptor_interval * Codes consecutive frames put a descriptor
\* in every position of the screen, if the two are coprime (sender.rs:162-168).
RotatesOver(codes) ==
  Coprime(descriptor_interval, codes) =>
    \A first \in 1..(Len(emitted) + 1 - descriptor_interval * codes) :
      \A slot \in 0..(codes - 1) :
        \E i \in first..(first + descriptor_interval * codes - 1) :
          i % codes = slot /\ emitted[i].kind = "descriptor"
============================================================================
