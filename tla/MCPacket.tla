------------------------------ MODULE MCPacket ------------------------------
(***************************************************************************)
(* Small instance of Packet: a byte counts to 3, names and values of up to *)
(* one element more than their maximum.                                    *)
(***************************************************************************)
EXTENDS Packet, SequencesExt

CONSTANTS a, b, nul

MCChars == {a, b}
MCNames == BoundedSeq(MCChars, NameMax + 1)
MCValues == BoundedSeq({a, nul}, ValueMax + 1)
=============================================================================
