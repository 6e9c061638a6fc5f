--------------------------- MODULE MCCameraScanner ---------------------------
(* Instances of CameraScanner for TLC. *)
EXTENDS CameraScanner

CONSTANT movie

\* One file of three segments.
OneLarge == [root \in {movie} |-> 3]
OneRoot  == DOMAIN OneLarge
=============================================================================
