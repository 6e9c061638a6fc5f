---------------------------- MODULE MCIosReceiver ----------------------------
(* Instances of IosReceiver for TLC. *)
EXTENDS IosReceiver

CONSTANTS movie, photo, song

\* Two files of two segments each and a small one.
ThreeFiles == [root \in {movie, photo, song} |-> IF root = photo THEN 1 ELSE 2]
ThreeRoots == DOMAIN ThreeFiles
=============================================================================
