--------------------------- MODULE ObjectTransfer ---------------------------
(***************************************************************************)
(* What the engine promises of one object, without a word on frames: the   *)
(* receiver learns the layout, then recovers the blocks, each once and     *)
(* never losing one, except that a receiver process that is restarted from *)
(* a checkpoint starts over with the layout alone.  In the end the whole   *)
(* object is there.  Transfer.tla implements this module.                  *)
(***************************************************************************)
EXTENDS Naturals

CONSTANTS
  Blocks,      (* the source blocks of the object                             *)
  MaxRestarts  (* bound: restarts of the receiver                             *)

VARIABLES known, recovered, restarts

vars == <<known, recovered, restarts>>

Init == known = FALSE /\ recovered = {} /\ restarts = 0

\* The first descriptor: symbols that came before it may complete some blocks.
Learn ==
  /\ ~known
  /\ known' = TRUE
  /\ recovered' \in SUBSET Blocks
  /\ UNCHANGED restarts

Recover(b) ==
  /\ known
  /\ b \in Blocks \ recovered
  /\ recovered' = recovered \cup {b}
  /\ UNCHANGED <<known, restarts>>

Restart ==
  /\ known
  /\ restarts < MaxRestarts
  /\ restarts' = restarts + 1
  /\ recovered' = {}
  /\ UNCHANGED known

Next == Learn \/ (\E b \in Blocks : Recover(b)) \/ Restart

Spec == Init /\ [][Next]_vars /\ WF_vars(Learn) /\ WF_vars(\E b \in Blocks : Recover(b))

\* The object can be assembled.
Done == known /\ recovered = Blocks
=============================================================================
