----------------------------- MODULE MCExchange -----------------------------
(***************************************************************************)
(* Small instances of Exchange: the ids wrap around within a behaviour.    *)
(* The sessions are interchangeable.                                       *)
(***************************************************************************)
EXTENDS Exchange, TLC

CONSTANTS s1, s2

OneSession == {s1}
TwoSessions == {s1, s2}

SessionSymmetry == Permutations(TwoSessions)
=============================================================================
