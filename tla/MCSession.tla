----------------------------- MODULE MCSession -----------------------------
(***************************************************************************)
(* Small instance of Session.  The device "compass" is reached over USB in *)
(* one table and over a custom backend in the other, so that registering   *)
(* the other table changes the backend of a device while a call looks it   *)
(* up; "engine" is emulated and only known to the second table.            *)
(***************************************************************************)
EXTENDS Session

CONSTANTS t1, t2

MCThreads == {t1, t2}
MCBackends == {"usb", "custom", "emulator"}
MCReconnecting == {"usb"}
MCFailingDisconnect == {"custom"}

MCDeviceTables ==
    { { [name |-> "compass", backend |-> "usb"] },
      { [name |-> "compass", backend |-> "custom"],
        [name |-> "engine", backend |-> "emulator"] } }
=============================================================================
