------------------------------- MODULE MCKv -------------------------------
(* A small instance of the key-value store.                                  *)
EXTENDS KvStore, TLC

\* Keys and values are only compared, and all keys have the prefix.
Symmetry == Permutations(Keys) \cup Permutations(Vals)
=============================================================================
