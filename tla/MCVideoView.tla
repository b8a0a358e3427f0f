---------------------------- MODULE MCVideoView ----------------------------
(* A small instance of VideoView for TLC. *)
EXTENDS VideoView

CONSTANTS s1, s2, s3
=============================================================================
