-------------------------- MODULE MCSegmentAssembly --------------------------
(* Instances of SegmentAssembly for TLC, with the sizes of the code. *)
EXTENDS SegmentAssembly

Name(text, len, width) == [text |-> text, len |-> len, width |-> width]
File(id, name, size, data) ==
  [root |-> id, name |-> name, size |-> size, data |-> data]

\* Two revisions of a file, alike at both ends, with a last segment of one byte;
\* a file whose name is cut in the first segment at 256 bytes, and not in the
\* last; one that fills a single object, with a name that is always cut; a small
\* one; and one that is too long for the assembler.
MCFiles ==
  {File("A", Name("a", 4, 1), 2 * SegmentRawBytes + 1, [i \in 0..2 |-> "x"]),
   File("A", Name("a", 4, 1), 2 * SegmentRawBytes + 1, [i \in 0..2 |-> IF i = 1 THEN "y" ELSE "x"]),
   File("B", Name("b", 69, 3), SegmentRawBytes + 5000, [i \in 0..1 |-> "x"]),
   File("C", Name("c", 400, 3), SegmentRawBytes, [i \in 0..0 |-> "x"]),
   File("D", Name("d", 5, 1), 5, [i \in 0..0 |-> "x"]),
   File("E", Name("e", 12, 1), 8 * SegmentRawBytes + 600000, [i \in 0..8 |-> "x"])}
=============================================================================
