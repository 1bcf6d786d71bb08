---------------------------- MODULE EstoquePlano ----------------------------
(***************************************************************************)
(* The pure half of the pedido -> estoque sync: the desired stock effect   *)
(* of a pedido, the expansion of its lines into stock units, and the diff  *)
(* between the desired and the applied effect.                             *)
(*                                                                         *)
(* A map produtoId -> quantity of the code is a total function here; a key *)
(* the map lacks is a zero (the code never stores a zero in such a map:    *)
(* item and component quantities are positive).  The lines of a pedido are *)
(* the total quantity sold per produto.                                    *)
(***************************************************************************)
EXTENDS Integers, FiniteSets

CONSTANTS Produtos, Depositos,
          Nenhum,   \* null: no document, no snapshot, no reference
          QtdMax    \* bound on an item quantity and on a kit component quantity

Qtds == [Produtos -> Nat]

Itens == [Produtos -> 0..QtdMax]

Vazio == [p \in Produtos |-> 0]

(* estoqueAplicado, without its audit fields (operacaoId, atualizadoEm). *)
EstoqueAplicado ==
  [depositoId: Depositos, reservado: Qtds, removido: Qtds, adicionado: Qtds]

(* The projection of a produto the sync reads: which produtos limit the    *)
(* kit (limitarEstoque) and how many units of each one kit consumes.       *)
ProdutoDoc ==
  [ehKit: BOOLEAN, componentesKit: Itens, limitarEstoque: SUBSET Produtos]

OperacaoDoc ==
  [tipo: {"saida", "entrada", "outro"}, movimentaEstoque: BOOLEAN,
   movimentaIndisponivelEstoque: BOOLEAN]

ASSUME PlanoAssumption ==
  /\ QtdMax \in Nat
  /\ IsFiniteSet(Produtos)
  /\ Nenhum \notin EstoqueAplicado
  /\ Nenhum \notin ProdutoDoc
  /\ Nenhum \notin OperacaoDoc
  /\ Nenhum \notin Depositos

-----------------------------------------------------------------------------
(* Estados and the desired effect (packages/schemas/.../pureLogic/estoque.ts) *)

ESTADOS_PEDIDO_RESERVA ==
  {"escolhendoFormaDePagamento", "aguardandoConfirmacaoDePagamento",
   "emAnalise", "emProcessamento", "pago"}

ESTADOS_PEDIDO_MOVIMENTACAO ==
  ESTADOS_PEDIDO_RESERVA \cup
  {"carrinho", "estornadoParcialmente", "processandoCancelamento", "finalizado"}

EstadoPedido ==
  ESTADOS_PEDIDO_MOVIMENTACAO \cup
  {"iniciado", "carrinhoAbandonado", "pagamentoNaoRealizado",
   "estornadoIntegralmente", "cancelado", "fraude", "error"}

ESTADOS_FRETE_REMOVE_ESTOQUE ==
  {"empacotado", "aguardandoPostagem", "checkFinalizado", "postado",
   "recebidoPelaTransportadora", "aCaminho", "tentandoRealizarEntrega",
   "entregue", "falhaNaEntrega", "suspenso", "enderecoNaoEncontrado",
   "aCaminhoDoRemetente", "devolvido", "objetoExtraviado", "aguardandoRetirada"}

EstadoFrete ==
  ESTADOS_FRETE_REMOVE_ESTOQUE \cup
  {"fulfillment", "iniciado", "aguardandoAutorizacao", "aguardandoNFe",
   "aguardandoValidacaoTransporadora", "despachoAutorizado",
   "aguardandoAgendamento", "despachoNegado", "emSeparacao", "cancelado",
   "desconhecido", "error"}

Efeito == [reservar: BOOLEAN, remover: BOOLEAN, adicionar: BOOLEAN]

EFEITO_ESTOQUE_NENHUM ==
  [reservar |-> FALSE, remover |-> FALSE, adicionar |-> FALSE]

(* The operacao decides the direction; one without a tipo leaves it to the *)
(* pedido.                                                                 *)
ehSaidaDaOperacao(op, ehSaidaPedido) ==
  op.tipo = "saida" \/ (op.tipo = "outro" /\ ehSaidaPedido)

(* A saida leaves the deposito when delivered or packed; an operacao that  *)
(* tracks no reservation removes already in the reserva phase.             *)
EntradaRemocao(estado, frete, op) ==
  \/ estado = "finalizado"
  \/ frete \in ESTADOS_FRETE_REMOVE_ESTOQUE
  \/ ~op.movimentaIndisponivelEstoque /\ estado \in ESTADOS_PEDIDO_RESERVA

EntradaAdicao(estado) == estado \in ESTADOS_PEDIDO_RESERVA \cup {"finalizado"}

(* Fault: a movement without hysteresis. *)
FalhaSemHisterese(op, jaMovimentado, estado, entrada) ==
  op.movimentaEstoque /\ entrada

(* A movement starts on the entry conditions, and once applied it is held  *)
(* in every estado of ESTADOS_PEDIDO_MOVIMENTACAO (hysteresis).            *)
Movimenta(op, jaMovimentado, estado, entrada) ==
  /\ op.movimentaEstoque
  /\ IF jaMovimentado THEN estado \in ESTADOS_PEDIDO_MOVIMENTACAO ELSE entrada

efeitoEstoquePedido(estado, frete, ehSaida, op, jaMovimentado) ==
  LET remover == /\ ehSaida
                 /\ Movimenta(op, jaMovimentado, estado,
                              EntradaRemocao(estado, frete, op))
  IN [reservar  |-> /\ ehSaida
                    /\ op.movimentaIndisponivelEstoque
                    /\ estado \in ESTADOS_PEDIDO_RESERVA
                    /\ ~remover,
      remover   |-> remover,
      adicionar |-> /\ ~ehSaida
                    /\ Movimenta(op, jaMovimentado, estado, EntradaAdicao(estado))]

-----------------------------------------------------------------------------
(* Expansion of the lines into stock units (estoquePlan.ts) *)

(* Units of p that one unit of line produto v moves: a kit moves its       *)
(* limiting components and not itself; a produto that does not exist moves *)
(* nothing; a component is not expanded again.                             *)
Consumo(produtos, v, p) ==
  LET doc == produtos[v]
  IN IF doc = Nenhum THEN 0
     ELSE IF doc.ehKit
          THEN IF p \in doc.limitarEstoque THEN doc.componentesKit[p] ELSE 0
          ELSE IF v = p THEN 1 ELSE 0

(* The units of p the lines move, one by one: unit x[2][1] of line produto *)
(* x[1] uses its x[2][2]-th unit of p.  Counting them is the code's sum.   *)
UnidadesMovidas(itens, produtos, p) ==
  {x \in Produtos \X ((1..QtdMax) \X (1..QtdMax)) :
     /\ x[2][1] <= itens[x[1]]
     /\ x[2][2] <= Consumo(produtos, x[1], p)}

calcularAlteracoesEstoque(itens, produtos) ==
  [p \in Produtos |-> Cardinality(UnidadesMovidas(itens, produtos, p))]

-----------------------------------------------------------------------------
(* Snapshot inspection and the diff planner (estoquePlan.ts) *)

temMovimentoAplicado(aplicado) ==
  aplicado # Nenhum /\ (aplicado.removido # Vazio \/ aplicado.adicionado # Vazio)

(* Fault: a reservation does not count as an effect. *)
FalhaEfeitoSoFisico(aplicado) == temMovimentoAplicado(aplicado)

temEfeitoAplicado(aplicado) ==
  aplicado # Nenhum /\ (aplicado.reservado # Vazio \/ temMovimentoAplicado(aplicado))

(* What a snapshot holds of produto p in deposito d: physical units (out   *)
(* is negative) and reserved units.                                        *)
Fisico(aplicado, p, d) ==
  IF aplicado # Nenhum /\ aplicado.depositoId = d
  THEN aplicado.adicionado[p] - aplicado.removido[p] ELSE 0

Reservado(aplicado, p, d) ==
  IF aplicado # Nenhum /\ aplicado.depositoId = d THEN aplicado.reservado[p] ELSE 0

(* planSincronizacaoEstoque: the snapshot to hold next, null when the      *)
(* effect holds nothing.                                                   *)
AplicadoAlvo(alteracoes, efeito, depositoId) ==
  IF alteracoes = Vazio \/ efeito = EFEITO_ESTOQUE_NENHUM THEN Nenhum
  ELSE [depositoId |-> depositoId,
        reservado  |-> IF efeito.reservar  THEN alteracoes ELSE Vazio,
        removido   |-> IF efeito.remover   THEN alteracoes ELSE Vazio,
        adicionado |-> IF efeito.adicionar THEN alteracoes ELSE Vazio]

(* ... and the delta of each estoque: new applications at the target's     *)
(* deposito, reversals at the deposito of the snapshot.                    *)
DeltaQuantidade(alvo, aplicado, p, d) == Fisico(alvo, p, d) - Fisico(aplicado, p, d)

DeltaReservada(alvo, aplicado, p, d) == Reservado(alvo, p, d) - Reservado(aplicado, p, d)

TemDelta(alvo, aplicado, p, d) ==
  \/ DeltaQuantidade(alvo, aplicado, p, d) # 0
  \/ DeltaReservada(alvo, aplicado, p, d) # 0

TemDeltas(alvo, aplicado) ==
  \E p \in Produtos, d \in Depositos : TemDelta(alvo, aplicado, p, d)

-----------------------------------------------------------------------------
(* Flutter-era pedidos: markers without a snapshot (sincronizarEstoquePedido.ts) *)

ehMarcadorLegado(doc) ==
  doc.estoqueAplicado = Nenhum /\ (doc.marcaReserva \/ doc.marcaRemocao)

(* The one legacy write the sync acts on: a pack merge, lines that only    *)
(* grow over a non-empty anchor.  Returns the anchor (the previous lines). *)
detectarCrescimentoLegado(before, after) ==
  IF /\ before # Nenhum
     /\ ehMarcadorLegado(before) /\ ehMarcadorLegado(after)
     /\ before.itens # Vazio
     /\ \A p \in Produtos : after.itens[p] >= before.itens[p]
     /\ after.itens # before.itens
  THEN before.itens ELSE Nenhum

sintetizarAplicadoLegado(doc, alteracoes, depositoId, ehSaida) ==
  LET movimento == doc.marcaRemocao
      reserva   == doc.marcaReserva /\ ~movimento
  IN IF alteracoes = Vazio \/ (~movimento /\ ~reserva) THEN Nenhum
     ELSE [depositoId |-> depositoId,
           reservado  |-> IF reserva THEN alteracoes ELSE Vazio,
           removido   |-> IF movimento /\ ehSaida THEN alteracoes ELSE Vazio,
           adicionado |-> IF movimento /\ ~ehSaida THEN alteracoes ELSE Vazio]

=============================================================================
