---------------------------- MODULE MCImageWrite ----------------------------
(* The instances of ImageWrite that TLC checks: a body of a few chunks, so *)
(* that a transfer can stop between them, and a second session, so that a  *)
(* retry runs over what a failed one left behind.                          *)
EXTENDS ImageWrite
=============================================================================
