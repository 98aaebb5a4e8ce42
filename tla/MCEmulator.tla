----------------------------- MODULE MCEmulator -----------------------------
(***************************************************************************)
(* Small instance of Emulator: two sessions, so that connects reuse a      *)
(* slot, and two addresses, so that they reuse one of them too.  Variables *)
(* of all sensors and of two sizes; an integer is offered to both sensors  *)
(* that take one.                                                          *)
(***************************************************************************)
EXTENDS Emulator, TLC

CONSTANTS a1, a2

MCAddresses == {a1, a2}
MCValues == {1}

Get(n) == [op |-> "get", name |-> n, type |-> TypeOf(n), value |-> Untouched]
Set(n, v) == [op |-> "set", name |-> n, type |-> TypeOf(n), value |-> v]

MCAsked == {Get("direction"), Get("setpoint"), Get("ble_temp")}
    \cup {Set(n, v) : n \in {"setpoint", "pitch"}, v \in MCValues}

Symmetry == Permutations(MCAddresses)
=============================================================================
