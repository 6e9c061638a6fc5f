----------------------------- MODULE MCFileExport -----------------------------
(* An instance of FileExport for TLC. *)
EXTENDS FileExport

\* Three revisions of two bytes each whose segments, when mixed, yield one byte,
\* two wrong bytes or three.
MCRevisions ==
  <<[tag |-> "zstd", content |-> <<"a", "b">>, crcKnown |-> TRUE,
     parts |-> <<<<Magic, <<"a">>>>, <<<<"b">>, EndMark>>>>],
    [tag |-> "xz", content |-> <<"b", "a">>, crcKnown |-> FALSE,
     parts |-> <<<<Magic, <<"b">>>>, <<<<"a">>, EndMark>>>>],
    [tag |-> "zstd", content |-> <<"b", "b">>, crcKnown |-> TRUE,
     parts |-> <<<<Magic, <<"b", "b">>>>, <<EndMark>>>>]>>

\* A small file that is not compressed, and a compressed one whose object was
\* recovered from symbols of two files.
MCSmall ==
  {[key |-> 11, tag |-> "none", content |-> <<"a">>, crcKnown |-> TRUE,
    parts |-> <<<<<<"a">>>>>>],
   [key |-> 12, tag |-> "zstd", content |-> <<"a", "a">>, crcKnown |-> TRUE,
    parts |-> <<<<Magic, <<"a">>, Magic>>>>]}

ASSUME RecoveredIsSent
=============================================================================
