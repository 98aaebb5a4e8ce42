----------------------------- MODULE MCPlugins -----------------------------
(***************************************************************************)
(* Small instance of Plugins.  Two plugins bring a backend of the same     *)
(* name, one has no backend, and one has no plugin_register.               *)
(***************************************************************************)
EXTENDS Plugins, TLC

CONSTANTS low, high, fixed

MCPlugins == {"usb", "alt", "bare", "bad"}
MCBackends == {"usb", "emulator"}
MCBackendOf == [p \in MCPlugins |-> IF p \in {"usb", "alt"} THEN "usb" ELSE NULL]
MCBroken == {"bad"}

\* Only the image of "usb" moves.
MCPlacesOf == [p \in MCPlugins |-> IF p = "usb" THEN {low, high} ELSE {fixed}]

\* Nothing tells nodes, threads or the places of "usb" apart.
MCSymmetry == Permutations(Nodes) \cup Permutations(Threads) \cup Permutations({low, high})
=============================================================================
