----------------------------- MODULE MCSessions -----------------------------
(* Small instances of Sessions for TLC. *)
EXTENDS Sessions, TLC

(* Workers and connections are interchangeable: safety only. *)
SessionsSymmetry == Permutations(Workers) \cup Permutations(Conns)
=============================================================================
