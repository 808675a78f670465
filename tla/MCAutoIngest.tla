---------------------------- MODULE MCAutoIngest ----------------------------
(* Small instances of AutoIngest: the constants are given by the             *)
(* configurations; the heads and the hooks are interchangeable.              *)
EXTENDS AutoIngest, TLC

Symmetry == Permutations(Hooks) \union Permutations(Heads)
=============================================================================
