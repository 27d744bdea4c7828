------------------------------- MODULE MCMVCC -------------------------------
(* MVCC for TLC: keys, transactions and readers are interchangeable.        *)
EXTENDS MVCC, TLC

Symmetry == Permutations(Keys) \cup Permutations(Txns) \cup Permutations(Readers)
=============================================================================
