---------------------------- MODULE MCCadence ----------------------------
(* Cadence for TLC, in half minutes.                                       *)
EXTENDS Cadence

CONSTANT m1

(* A monitor that is checked every minute, every one and a half, and one   *)
(* whose interval Core does not send.                                      *)
ShortAndNotSent == {0, Minute, Minute + 1}
NotSent == {0}
==========================================================================
