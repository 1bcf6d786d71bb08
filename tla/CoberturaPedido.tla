-------------------------- MODULE CoberturaPedido --------------------------
(***************************************************************************)
(* The pure half of the payment reconciliation: how much of a pedido its   *)
(* pagamentos and its returned items settle, the estado that implies, what *)
(* it does to the freight, and what the payment links of the pedido may    *)
(* still bring in.                                                         *)
(*                                                                         *)
(* Money is in centavos.  A null or absent value is Nenhum.                *)
(***************************************************************************)
EXTENDS Integers, FiniteSets, SomaFinita

CONSTANTS
  Docs,       \* ids of the pagamento documents of the pedido
  Links,      \* ids of its payment links
  ValorLink,  \* of each link, what one payment of it charges
  Cota,       \* of each link, the payments it accepts
  ValorMinimo,\* the least a link may charge
  Nenhum

(* pendente stands for the three statuses that may still be approved,      *)
(* recusado for the refusals, estornado for the refunds: a payment         *)
(* refunded in part pays nothing either.                                   *)
STATUS_EM_TRANSITO == {"pendente"}
StatusPagamento ==
  STATUS_EM_TRANSITO \cup {"aprovado", "em_disputa", "recusado", "estornado"}

ITENS_EDITAVEIS == {"iniciado", "carrinho", "carrinhoAbandonado",
                    "escolhendoFormaDePagamento", "error"}

PODE_GERAR_LINK_PAGAMENTO ==
  {"iniciado", "carrinho", "escolhendoFormaDePagamento",
   "aguardandoConfirmacaoDePagamento", "pagamentoNaoRealizado"}

AUTO_ESTADO_SOURCES ==
  PODE_GERAR_LINK_PAGAMENTO \cup {"emAnalise", "emProcessamento", "pago"}

EstadoPedido ==
  ITENS_EDITAVEIS \cup AUTO_ESTADO_SOURCES
    \cup {"estornadoParcialmente", "estornadoIntegralmente", "processandoCancelamento",
          "cancelado", "fraude", "finalizado"}

ESTADOS_FRETE_PRE_AUTORIZACAO ==
  {"iniciado", "aguardandoAutorizacao", "aguardandoNFe",
   "aguardandoValidacaoTransporadora"}

(* empacotado stands for every estado past the authorization.              *)
EstadoFrete == ESTADOS_FRETE_PRE_AUTORIZACAO \cup {"despachoAutorizado", "empacotado"}

(* marketplace: the sales channel owns the estado of the pedido.           *)
(* freteDoCanal: the marketplace owns its freight.                         *)
Pedido ==
  [estado: EstadoPedido, total: Nat, devolvido: Nat, frete: EstadoFrete \cup {Nenhum},
   marketplace: BOOLEAN, freteDoCanal: BOOLEAN]

(* relogio is lastProviderUpdate, aprovado a dataAprovacao that is set.    *)
Pagamento ==
  [valor: Nat, status: StatusPagamento \cup {Nenhum}, creditoLoja: BOOLEAN,
   relogio: Nat \cup {Nenhum}, link: Links \cup {Nenhum}, aprovado: BOOLEAN]

StatusLinkPagamento == {"aberto", "concluido", "cancelado"}

ASSUME CoberturaAssumption ==
  /\ IsFiniteSet(Docs) /\ IsFiniteSet(Links)
  /\ ValorLink \in [Links -> Nat \ {0}] /\ Cota \in [Links -> Nat \ {0}]
  /\ ValorMinimo \in Nat \ {0}
  /\ Nenhum \notin Links /\ Nenhum \notin Pagamento /\ Nenhum \notin Int
  /\ Nenhum \notin StatusPagamento /\ Nenhum \notin EstadoFrete

-----------------------------------------------------------------------------
(* The coverage of a pedido.                                               *)

Maximo(a, b) == IF a > b THEN a ELSE b
Minimo(a, b) == IF a < b THEN a ELSE b

isPagamentoPagante(status) == status \in {Nenhum, "aprovado", "em_disputa"}

Pagantes(pagamentos) ==
  {d \in Docs : pagamentos[d] # Nenhum /\ isPagamentoPagante(pagamentos[d].status)}

Somar(pagamentos, docs) == Soma(docs, [d \in docs |-> pagamentos[d].valor])

valorPago(pagamentos) == Somar(pagamentos, Pagantes(pagamentos))

creditoLojaPago(pagamentos) ==
  Somar(pagamentos, {d \in Pagantes(pagamentos) : pagamentos[d].creditoLoja})

(* The credit of a return counts once: a crédito loja payment registers it. *)
valorQuitado(p, pagamentos) ==
  Maximo(0, p.devolvido - creditoLojaPago(pagamentos)) + valorPago(pagamentos)

valorPagoAlemDaDevolucao(p, pagamentos) ==
  Maximo(0, valorPago(pagamentos) - Minimo(creditoLojaPago(pagamentos), p.devolvido))

restante(p, pagamentos) == Maximo(0, p.total - valorQuitado(p, pagamentos))

-----------------------------------------------------------------------------
(* The estado it implies.                                                  *)

travarInclusaoProduto(estado) == estado \notin ITENS_EDITAVEIS

(* The estado the payments give the pedido, its own when none applies.     *)
nextPedidoEstado(p, pagamentos) ==
  IF p.estado \notin AUTO_ESTADO_SOURCES \/ p.total = 0 THEN p.estado
  ELSE IF valorQuitado(p, pagamentos) >= p.total THEN "pago"
  ELSE IF p.estado = "pago" \/ valorPagoAlemDaDevolucao(p, pagamentos) > 0
    THEN "aguardandoConfirmacaoDePagamento"
  ELSE p.estado

freteComDespachoAutorizado(p) ==
  IF p.frete \in ESTADOS_FRETE_PRE_AUTORIZACAO /\ ~p.freteDoCanal
    THEN "despachoAutorizado" ELSE p.frete

(* The pedido after the reconciliation with a set of pagamentos.           *)
applyEstadoTransition(p, pagamentos) ==
  LET estado == nextPedidoEstado(p, pagamentos)
  IN [p EXCEPT !.estado = estado,
               !.frete = IF estado = "pago" /\ p.estado # "pago"
                           THEN freteComDespachoAutorizado(p) ELSE @]

-----------------------------------------------------------------------------
(* The links.  links[l] is the stored link or Nenhum, vencidos the links   *)
(* past their deadline.                                                    *)

(* The quota counts the payments ever approved.                            *)
AprovadosDoLink(pagamentos, l) ==
  Cardinality({d \in Docs : /\ pagamentos[d] # Nenhum
                            /\ pagamentos[d].link = l /\ pagamentos[d].aprovado})

linkAtingiuCotaComAprovados(l, aprovados) == aprovados >= Cota[l]

(* What is still to come counts the ones that pay now.                     *)
PagosDoLink(pagamentos, l) ==
  Cardinality({d \in Pagantes(pagamentos) : pagamentos[d].link = l})

linksEmAberto(links, pagamentos, vencidos) ==
  {l \in Links : /\ links[l] # Nenhum /\ links[l].status = "aberto"
                 /\ PagosDoLink(pagamentos, l) < Cota[l]
                 /\ l \notin vencidos}

valorEmAbertoEmLinks(links, pagamentos, vencidos) ==
  LET abertos == linksEmAberto(links, pagamentos, vencidos)
  IN Soma(abertos, [l \in abertos |-> ValorLink[l] * (Cota[l] - PagosDoLink(pagamentos, l))])

(* Payments on the way, of stored links that no longer count as open.      *)
EmTransito(links, pagamentos, vencidos) ==
  {d \in Docs : /\ pagamentos[d] # Nenhum /\ pagamentos[d].status \in STATUS_EM_TRANSITO
                /\ \E l \in Links \ linksEmAberto(links, pagamentos, vencidos) :
                     links[l] # Nenhum /\ pagamentos[d].link = l}

valorEmTransitoForaDeLinksAbertos(links, pagamentos, vencidos) ==
  Somar(pagamentos, EmTransito(links, pagamentos, vencidos))

(* What the pedido has, may still get through links, and has on its way.   *)
Exposicao(p, links, pagamentos, vencidos) ==
  valorQuitado(p, pagamentos) + valorEmAbertoEmLinks(links, pagamentos, vencidos)
    + valorEmTransitoForaDeLinksAbertos(links, pagamentos, vencidos)

(* Fault: money on the way through a link no longer open is forgotten.     *)
FalhaSemTransito(p, links, pagamentos, vencidos) ==
  Maximo(0, restante(p, pagamentos) - valorEmAbertoEmLinks(links, pagamentos, vencidos))

disponivelParaNovosLinks(p, links, pagamentos, vencidos) ==
  Maximo(0, restante(p, pagamentos)
              - valorEmAbertoEmLinks(links, pagamentos, vencidos)
              - valorEmTransitoForaDeLinksAbertos(links, pagamentos, vencidos))

(* Whether the links of a batch may be created; canal says whether the     *)
(* sales channel is asked, esperado is the total the operator split.       *)
avaliarElegibilidade(p, links, pagamentos, vencidos, lote, canal, esperado) ==
  /\ esperado = p.total
  /\ ~(canal /\ p.marketplace)
  /\ p.estado \in PODE_GERAR_LINK_PAGAMENTO
  /\ restante(p, pagamentos) >= ValorMinimo
  /\ Soma(lote, [l \in lote |-> ValorLink[l] * Cota[l]])
       <= disponivelParaNovosLinks(p, links, pagamentos, vencidos)

(* Fault: no transition is written as a null.                              *)
FalhaGravaNulo(p) ==
  IF p.estado = "iniciado" THEN "aguardandoConfirmacaoDePagamento" ELSE Nenhum

estadoAoGerarLinkPagamento(p) ==
  IF p.estado = "iniciado" THEN "aguardandoConfirmacaoDePagamento" ELSE p.estado

=============================================================================
