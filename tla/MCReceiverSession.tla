------------------------- MODULE MCReceiverSession -------------------------
(* Instances of ReceiverSession for TLC. *)
EXTENDS ReceiverSession

TwoBlocks == [sbn \in {0, 1} |-> 2 - sbn]
OneBlock  == [sbn \in {0} |-> 3]

Stream(id, size, k, enc, file, desc) ==
  [sid |-> id, size |-> size, k |-> k, enc |-> enc, file |-> file, desc |-> desc]

\* Two speeds of one file and nothing else: what the byte budget must absorb.
TwoSpeeds ==
  {Stream("A", 2, TwoBlocks, "fast", "f1", "valid"),
   Stream("A", 1, OneBlock, "stable", "f1", "valid")}
============================================================================
