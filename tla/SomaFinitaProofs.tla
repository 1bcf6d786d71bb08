-------------------------- MODULE SomaFinitaProofs --------------------------
(***************************************************************************)
(* What the sums of SomaFinita are: of one term more, of one term changed, *)
(* of two disjoint sets, of smaller terms.  None needs induction.          *)
(***************************************************************************)
EXTENDS SomaFinita, FiniteSetTheorems, FunctionTheorems, TLAPS

(* The units of a sum, one by one. *)
LEMMA ParcelasElementos ==
  ASSUME NEW S, NEW f, NEW x
  PROVE  x \in Parcelas(S, f) <=> \E s \in S : x \in {s} \X (1..f[s])
  BY DEF Parcelas

(* The units of one term are as many as the term. *)
LEMMA FatiaTipo ==
  ASSUME NEW s, NEW n \in Nat
  PROVE  IsFiniteSet({s} \X (1..n)) /\ Cardinality({s} \X (1..n)) = n
<1>1. IsFiniteSet({s}) /\ Cardinality({s}) = 1
  BY FS_Singleton
<1>2. IsFiniteSet(1..n) /\ Cardinality(1..n) = n
  BY FS_Interval
<1>3. /\ IsFiniteSet({s} \X (1..n))
      /\ Cardinality({s} \X (1..n)) = Cardinality({s}) * Cardinality(1..n)
  BY <1>1, <1>2, FS_Product, Zenon
<1>4. 1 * n = n
  OBVIOUS
<1>5. QED
  BY <1>1, <1>2, <1>3, <1>4, Zenon

(* A finite sum of naturals is a natural. *)
LEMMA SomaTipo ==
  ASSUME NEW S, IsFiniteSet(S), NEW f, \A s \in S : f[s] \in Nat
  PROVE  IsFiniteSet(Parcelas(S, f)) /\ Soma(S, f) \in Nat
<1> DEFINE Fatias == {{s} \X (1..f[s]) : s \in S}
           fatia == [s \in S |-> {s} \X (1..f[s])]
<1>1. fatia \in Surjection(S, Fatias)
  BY Zenon DEF Surjection
<1>2. IsFiniteSet(Fatias)
  BY <1>1, FS_Surjection
<1>3. ASSUME NEW s \in S PROVE IsFiniteSet({s} \X (1..f[s]))
  BY FatiaTipo
<1>4. IsFiniteSet(UNION Fatias)
  <2>1. \A T \in Fatias : IsFiniteSet(T)
    BY <1>3, Zenon
  <2>2. QED
    BY <1>2, <2>1, FS_UNION, Zenon
<1>5. IsFiniteSet(Parcelas(S, f))
  BY <1>4 DEF Parcelas
<1>6. QED
  BY <1>5, FS_CardinalityType DEF Soma

LEMMA SomaVazia ==
  ASSUME NEW f
  PROVE  Soma({}, f) = 0
<1>1. Parcelas({}, f) = {}
  BY DEF Parcelas
<1>2. QED
  BY <1>1, FS_EmptySet DEF Soma

(* Only the terms of the set count. *)
LEMMA SomaIgual ==
  ASSUME NEW S, NEW f, NEW g, \A s \in S : f[s] = g[s]
  PROVE  Soma(S, f) = Soma(S, g)
<1>1. Parcelas(S, f) = Parcelas(S, g)
  BY DEF Parcelas
<1>2. QED
  BY <1>1 DEF Soma

(* Two disjoint sets. *)
LEMMA SomaUniao ==
  ASSUME NEW S, IsFiniteSet(S), NEW T, IsFiniteSet(T), S \cap T = {},
         NEW f, \A s \in S \cup T : f[s] \in Nat
  PROVE  Soma(S \cup T, f) = Soma(S, f) + Soma(T, f)
<1>1. Parcelas(S \cup T, f) = Parcelas(S, f) \cup Parcelas(T, f)
  BY DEF Parcelas
<1>2. Parcelas(S, f) \cap Parcelas(T, f) = {}
  BY DEF Parcelas
<1>3. /\ IsFiniteSet(Parcelas(S, f)) /\ Soma(S, f) \in Nat
      /\ IsFiniteSet(Parcelas(T, f)) /\ Soma(T, f) \in Nat
  BY SomaTipo
<1>4. Cardinality(Parcelas(S, f) \cap Parcelas(T, f)) = 0
  BY <1>2, FS_EmptySet
<1>5. Soma(S \cup T, f) = Soma(S, f) + Soma(T, f)
         - Cardinality(Parcelas(S, f) \cap Parcelas(T, f))
  BY <1>1, <1>3, FS_Union, Zenon DEF Soma
<1>6. QED
  BY <1>3, <1>4, <1>5

(* A sum of one term. *)
LEMMA SomaUm ==
  ASSUME NEW s, NEW f, f[s] \in Nat
  PROVE  Soma({s}, f) = f[s]
<1>1. Parcelas({s}, f) = {s} \X (1..f[s])
  BY DEF Parcelas
<1>2. QED
  BY <1>1, FatiaTipo DEF Soma

(* One term and the others. *)
LEMMA SomaSepara ==
  ASSUME NEW S, IsFiniteSet(S), NEW s \in S, NEW f, \A x \in S : f[x] \in Nat
  PROVE  /\ Soma(S, f) = Soma(S \ {s}, f) + f[s]
         /\ Soma(S \ {s}, f) \in Nat
<1>1. IsFiniteSet(S \ {s}) /\ IsFiniteSet({s})
  BY FS_Difference, FS_Singleton
<1>2. (S \ {s}) \cup {s} = S /\ (S \ {s}) \cap {s} = {}
  OBVIOUS
<1>3. Soma((S \ {s}) \cup {s}, f) = Soma(S \ {s}, f) + Soma({s}, f)
  BY <1>1, <1>2, SomaUniao
<1>4. QED
  BY <1>1, <1>2, <1>3, SomaUm, SomaTipo

(* No term is more than the sum. *)
LEMMA SomaParcela ==
  ASSUME NEW S, IsFiniteSet(S), NEW s \in S, NEW f, \A x \in S : f[x] \in Nat
  PROVE  f[s] <= Soma(S, f)
<1>1. Soma(S, f) = Soma(S \ {s}, f) + f[s] /\ Soma(S \ {s}, f) \in Nat
  BY SomaSepara
<1>2. QED
  BY <1>1

(* One term changes: the sum changes by as much. *)
LEMMA SomaMuda ==
  ASSUME NEW S, IsFiniteSet(S), NEW s \in S,
         NEW f, \A x \in S : f[x] \in Nat,
         NEW g, \A x \in S : g[x] \in Nat,
         \A x \in S \ {s} : g[x] = f[x]
  PROVE  Soma(S, g) = Soma(S, f) - f[s] + g[s]
<1>1. Soma(S \ {s}, f) = Soma(S \ {s}, g)
  BY SomaIgual
<1>2. /\ Soma(S, f) = Soma(S \ {s}, f) + f[s]
      /\ Soma(S, g) = Soma(S \ {s}, g) + g[s]
      /\ Soma(S \ {s}, f) \in Nat
  BY SomaSepara
<1>3. QED
  BY <1>1, <1>2

(* Smaller terms, smaller sum. *)
LEMMA SomaMonotona ==
  ASSUME NEW S, IsFiniteSet(S),
         NEW f, \A s \in S : f[s] \in Nat,
         NEW g, \A s \in S : g[s] \in Nat,
         \A s \in S : f[s] <= g[s]
  PROVE  Soma(S, f) <= Soma(S, g)
<1>1. \A s \in S : 1..f[s] \subseteq 1..g[s]
  OBVIOUS
<1>2. Parcelas(S, f) \subseteq Parcelas(S, g)
  BY <1>1 DEF Parcelas
<1>3. IsFiniteSet(Parcelas(S, g))
  BY SomaTipo
<1>4. QED
  BY <1>2, <1>3, FS_Subset DEF Soma

(* Fewer terms, smaller sum. *)
LEMMA SomaSubconjunto ==
  ASSUME NEW S, IsFiniteSet(S), NEW T \in SUBSET S,
         NEW f, \A s \in S : f[s] \in Nat
  PROVE  IsFiniteSet(T) /\ Soma(T, f) <= Soma(S, f)
<1>1. Parcelas(T, f) \subseteq Parcelas(S, f)
  BY DEF Parcelas
<1>2. IsFiniteSet(Parcelas(S, f))
  BY SomaTipo
<1>3. QED
  BY <1>1, <1>2, FS_Subset DEF Soma

(* A sum of zeros. *)
LEMMA SomaZeros ==
  ASSUME NEW S, NEW f, \A s \in S : f[s] = 0
  PROVE  Soma(S, f) = 0
<1>1. \A s \in S : 1..f[s] = {}
  OBVIOUS
<1>2. Parcelas(S, f) = {}
  BY <1>1 DEF Parcelas
<1>3. QED
  BY <1>2, FS_EmptySet DEF Soma

(* Terms that are zero do not count. *)
LEMMA SomaSemZeros ==
  ASSUME NEW S, IsFiniteSet(S), NEW T \in SUBSET S,
         NEW f, \A s \in S : f[s] \in Nat, \A s \in S \ T : f[s] = 0
  PROVE  Soma(S, f) = Soma(T, f)
<1>1. IsFiniteSet(T) /\ IsFiniteSet(S \ T)
  BY FS_Subset
<1>2. T \cup (S \ T) = S /\ T \cap (S \ T) = {}
  OBVIOUS
<1>3. Soma(T \cup (S \ T), f) = Soma(T, f) + Soma(S \ T, f)
  BY <1>1, <1>2, SomaUniao
<1>4. Soma(S \ T, f) = 0
  BY SomaZeros
<1>5. Soma(T, f) \in Nat
  BY <1>1, SomaTipo
<1>6. Soma(T \cup (S \ T), f) = Soma(S, f)
  BY <1>2, Zenon
<1>7. QED
  BY <1>3, <1>4, <1>5, <1>6

(* Equal terms. *)
LEMMA SomaConstante ==
  ASSUME NEW S, IsFiniteSet(S), NEW v \in Nat, NEW f, \A s \in S : f[s] = v
  PROVE  Soma(S, f) = Cardinality(S) * v
<1>1. Parcelas(S, f) = S \X (1..v)
  BY DEF Parcelas
<1>2. IsFiniteSet(1..v) /\ Cardinality(1..v) = v
  BY FS_Interval
<1>3. Cardinality(S \X (1..v)) = Cardinality(S) * Cardinality(1..v)
  BY <1>2, FS_Product, Zenon
<1>4. QED
  BY <1>1, <1>2, <1>3, Zenon DEF Soma

(* Two sets that differ at most in one element. *)
LEMMA ContaTroca ==
  ASSUME NEW S, IsFiniteSet(S), NEW T, NEW a, S \ {a} = T \ {a}
  PROVE  /\ IsFiniteSet(T) /\ Cardinality(S) \in Nat /\ Cardinality(T) \in Nat
         /\ Cardinality(T) = Cardinality(S) + (IF a \in T THEN 1 ELSE 0)
                                            - (IF a \in S THEN 1 ELSE 0)
<1> DEFINE R == S \ {a}
<1>1. IsFiniteSet(R) /\ Cardinality(R) \in Nat
  BY FS_Difference, FS_CardinalityType
<1>2. ASSUME NEW X, X \ {a} = R
      PROVE  /\ IsFiniteSet(X)
             /\ Cardinality(X) = Cardinality(R) + (IF a \in X THEN 1 ELSE 0)
  <2>1. CASE a \in X
    <3>1. X = R \cup {a} /\ a \notin R
      BY <1>2, <2>1
    <3>2. QED
      BY <1>1, <2>1, <3>1, FS_AddElement
  <2>2. CASE a \notin X
    <3>1. X = R
      BY <1>2, <2>2
    <3>2. QED
      BY <1>1, <2>2, <3>1
  <2>3. QED
    BY <2>1, <2>2
<1>3. /\ IsFiniteSet(T)
      /\ Cardinality(T) = Cardinality(R) + (IF a \in T THEN 1 ELSE 0)
  BY <1>2
<1>4. Cardinality(S) = Cardinality(R) + (IF a \in S THEN 1 ELSE 0)
  BY <1>2
<1>5. QED
  BY <1>1, <1>3, <1>4

=============================================================================
