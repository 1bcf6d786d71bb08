-------------------------- MODULE MCEstornoParcial --------------------------
(***************************************************************************)
(* EstoquePedido with a history variable, for one claim about a pedido's   *)
(* past that its present state does not tell.                              *)
(***************************************************************************)
EXTENDS MCEstoquePedido

(* History for one run: the pedidos that were finalizado and have since    *)
(* been at most partially refunded.                                        *)
VARIABLE entregues

HistInit == Init /\ entregues = {}

HistNext ==
  /\ Next
  /\ entregues' = {ped \in Pedidos :
       /\ pedidos'[ped] # Nenhum
       /\ \/ pedidos'[ped].estado = "finalizado"
          \/ ped \in entregues /\ pedidos'[ped].estado = "estornadoParcialmente"}

HistSpec == HistInit /\ [][HistNext]_<<vars, entregues>>

(* "A partial refund of a delivered order must NOT restock"                *)
(* (packages/schemas/src/pedido/pureLogic/estoque.ts): with every event    *)
(* handled, a delivered and partially refunded pedido keeps its removal.   *)
EstornoParcialNaoRepoe ==
  \A ped \in entregues :
    /\ pedidos[ped].estado = "estornadoParcialmente"
    /\ ~EventoPendente(ped) /\ ped \notin pendente
    => temMovimentoAplicado(pedidos[ped].estoqueAplicado)

=============================================================================
