---------------------------- MODULE MCBleUpdate ----------------------------
(***************************************************************************)
(* Small instance of BleUpdate.                                            *)
(***************************************************************************)
EXTENDS BleUpdate

CONSTANTS f1, f2

MCSockets == {f1, f2}
=============================================================================
