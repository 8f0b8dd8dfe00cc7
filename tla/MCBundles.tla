----------------------------- MODULE MCBundles -----------------------------
EXTENDS BundleImport, TLC

CONSTANTS short, short2, long

(* Two contents of one length and one that is longer. *)
Sizes == [c \in Content |-> IF c = long THEN 2 ELSE 1]

Symmetry == Permutations(Path) \cup Permutations(Key) \cup Permutations({short, short2}) \cup Permutations(Uploader)
=============================================================================
