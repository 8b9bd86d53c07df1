------------------------------- MODULE MCPs2 -------------------------------
(* Two-bit bytes: each of the four is one of the bytes the driver tells    *)
(* apart.  A LED byte or a scan code may equal an answer: they never meet. *)
EXTENDS Ps2Board

MCCaps == <<FALSE, FALSE>>
MCSetLeds == <<TRUE, TRUE>>
MCAck == <<FALSE, TRUE>>
MCResend == <<TRUE, FALSE>>
MCLockMask == [on \in BOOLEAN |-> IF on THEN <<TRUE, FALSE>> ELSE <<FALSE, FALSE>>]
=============================================================================
