---- MODULE MCFlashMeta ----
(* FlashMeta with two objects' worth of keys, which are interchangeable. *)
EXTENDS FlashMeta, TLC

CONSTANTS k1, k2

KeySymmetry == Permutations({k1, k2})
====
