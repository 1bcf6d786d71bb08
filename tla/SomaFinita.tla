----------------------------- MODULE SomaFinita -----------------------------
(***************************************************************************)
(* Finite sums of naturals by counting: the units of a sum are the pairs   *)
(* <<s, u>>, the u-th unit of its term s.  A fold says the same, and what  *)
(* a fold computes can only be proved by induction; what a set counts can  *)
(* be proved from the cardinality of its slices.                           *)
(***************************************************************************)
EXTENDS Integers, FiniteSets

Parcelas(S, f) == UNION {{s} \X (1..f[s]) : s \in S}

Soma(S, f) == Cardinality(Parcelas(S, f))

=============================================================================
