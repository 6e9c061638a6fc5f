------------------------- MODULE MCReceiverBindings -------------------------
(* Instances of ReceiverBindings for TLC. *)
EXTENDS ReceiverBindings

TwoBlocks == [sbn \in {0, 1} |-> 2 - sbn]
OneBlock  == [sbn \in {0} |-> 3]

Stream(id, size, k, enc, file, desc) ==
  [sid |-> id, size |-> size, k |-> k, enc |-> enc, file |-> file, desc |-> desc]

\* A segment of a file, the same under a longer name, and a file of one segment.
Whole   == [name |-> <<3>>, size |-> 4, crc |-> 5, codec |-> [tag |-> 1, len |-> 1],
            segment |-> Null]
Part    == [name |-> <<1>>, size |-> 6, crc |-> 7, codec |-> [tag |-> 0, len |-> 3],
            segment |-> [index |-> 1, count |-> 2, root |-> 8, root_size |-> 6,
                         offset |-> 3, raw_sha |-> "raw", root_sha |-> "root"]]
Renamed == [Part EXCEPT !.name = <<1, 2>>]

\* What the getters read before there is a descriptor.
Default == [name |-> <<>>, size |-> 0, crc |-> Null, codec |-> Null, segment |-> Null]

\* One file at one speed, in two versions of its descriptor; the same file at
\* another speed; a stream whose descriptors are refused; and another file.
MCStreams ==
  {Stream("A", 2, TwoBlocks, "fast", Part, "valid"),
   Stream("A", 2, TwoBlocks, "fast", Renamed, "valid"),
   Stream("A", 1, OneBlock, "stable", Part, "valid"),
   Stream("A", 3, [sbn \in {0} |-> 1], "huge", Part, "invalid"),
   Stream("B", 2, [sbn \in {0} |-> 1], "other", Whole, "valid")}

ASSUME SizeTellsEncoding /\ FilesAnnounced
============================================================================
