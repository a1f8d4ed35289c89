------------------------ MODULE MCLoginTransactions -------------------------
(* Small instances of LoginTransactions for TLC. *)
EXTENDS LoginTransactions, TLC

CONSTANTS ann, tasks, energy, p1, p2, s1, s2, s3

Interchangeable == Permutations({p1, p2}) \cup Permutations({s1, s2, s3}) \cup Permutations({tasks, energy})
=============================================================================
