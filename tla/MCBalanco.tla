------------------------------ MODULE MCBalanco ------------------------------
(***************************************************************************)
(* Instances of Balanco for TLC.  Produto 1 is counted as stocked, produto *)
(* 2 is counted otherwise or not at all, produto 3 is a kit.               *)
(***************************************************************************)
EXTENDS Balanco, TLC

Conta(p, n) == [produto |-> p, quantidade |-> n]
Estoque(n, r) == [quantidade |-> n, quantidadeReservada |-> r]

DoisProdutos == {1, 2}
ComKit == {1, 2, 3}
MCLancados == [l \in {"a", "b"} |-> IF l = "a" THEN Conta(1, 2) ELSE Conta(2, 1)]
UmLancado == [l \in {"a"} |-> Conta(1, 1)]
LancadosComKit ==
  [l \in {"a", "b", "c"} |->
     CASE l = "a" -> Conta(1, 2) [] l = "b" -> Conta(1, -1) [] OTHER -> Conta(3, 1)]
MCEstoques == (1 :> Estoque(2, 1)) @@ (2 :> Estoque(3, 0))
EstoquesComKit ==
  (1 :> Estoque(2, 1)) @@ (2 :> Estoque(3, -1)) @@ (3 :> Nenhum)
Venda == {<<1, Estoque(-1, -1)>>}

Simetria == Permutations(Operadores) \cup Permutations(Tarefas)

=============================================================================
