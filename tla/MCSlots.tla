------------------------------ MODULE MCSlots ------------------------------
(* Slots on small instances. *)
EXTENDS Slots, TLC

CONSTANTS h1, h2

MCAll == BOOLEAN \X BOOLEAN

MCCached == {<<TRUE, TRUE>>}

MCUncached == {<<TRUE, FALSE>>}

Symmetry == Permutations(Handlers)
=============================================================================
