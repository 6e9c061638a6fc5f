----------------------------- MODULE MCTransfer -----------------------------
(* Instances of Transfer for TLC. *)
EXTENDS Transfer

Stream(size, k, enc) ==
  [sid |-> "A", size |-> size, k |-> k, enc |-> enc, file |-> "f", desc |-> "valid"]

\* Two blocks of 2 and 1 symbols; the same file with larger symbols is one block.
Stable == Stream(1, [sbn \in {0, 1} |-> 2 - sbn], "stable")
Fast   == Stream(2, [sbn \in {0} |-> 2], "fast")

OneSpeed  == {Stable}
TwoSpeeds == {Stable, Fast}
=============================================================================
