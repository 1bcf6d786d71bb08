--------------------------- MODULE MCEstoquePedido ---------------------------
(***************************************************************************)
(* Instances of EstoquePedido for TLC.  Produto "kit" is a kit of two      *)
(* "camisa"; the catalogue edit recomposes it.                             *)
(***************************************************************************)
EXTENDS EstoquePedido, TLC

MCProdutos == {"camisa", "kit"}
Simples == [ehKit |-> FALSE, componentesKit |-> Vazio, limitarEstoque |-> {}]
KitDe(n) ==
  [ehKit |-> TRUE, componentesKit |-> [Vazio EXCEPT !["camisa"] = n],
   limitarEstoque |-> {"camisa"}]
MCProdutosIniciais == [p \in MCProdutos |-> IF p = "kit" THEN KitDe(2) ELSE Simples]

ItensDe(n, k) == [p \in MCProdutos |-> IF p = "kit" THEN k ELSE n]

VendaComReserva ==
  [tipo |-> "saida", movimentaEstoque |-> TRUE, movimentaIndisponivelEstoque |-> TRUE]
VendaSemReserva == [VendaComReserva EXCEPT !.movimentaIndisponivelEstoque = FALSE]
SoReserva == [VendaComReserva EXCEPT !.movimentaEstoque = FALSE]
Devolucao == [VendaComReserva EXCEPT !.tipo = "entrada"]
SemTipo == [VendaComReserva EXCEPT !.tipo = "outro"]

MCIntegracoes == {"loja"}
MCOperacoes == {"venda", "devolucao"}
Loja(d) == [deposito |-> d, operacao |-> "venda", operacaoDevolucao |-> "devolucao"]
MCIntegracoesIniciais == [i \in MCIntegracoes |-> Loja("sp")]
MCOperacoesIniciais ==
  [o \in MCOperacoes |-> IF o = "venda" THEN VendaComReserva ELSE Devolucao]
MCEstoquesIniciais ==
  [k \in MCProdutos \X Depositos |-> [quantidade |-> 3, quantidadeReservada |-> 0]]

R(estado, frete, itens, saida) ==
  [estado |-> estado, frete |-> frete, itens |-> itens, ehSaida |-> saida,
   operacao |-> Nenhum, integracao |-> "loja"]

Simetria == Permutations(Pedidos)

SemPedidos == {[ped \in Pedidos |-> Nenhum]}

(* One pedido through every phase, direction and freight, with kit lines   *)
(* and with no line.                                                       *)
RascunhosVida ==
  {R(e, Nenhum, i, TRUE) :
     e \in {"carrinho", "pago", "estornadoParcialmente", "finalizado", "cancelado"},
     i \in {ItensDe(1, 0), ItensDe(1, 2)}}
  \cup {R(e, f, ItensDe(0, 0), TRUE) : e \in {"pago", "finalizado"},
                                       f \in {Nenhum, "postado"}}
  \cup {R("pago", f, ItensDe(1, 2), TRUE) : f \in {"emSeparacao", "postado"}}
  \cup {R(e, Nenhum, ItensDe(2, 0), FALSE) : e \in {"pago", "finalizado", "cancelado"}}

(* One pedido under a configuration that changes. *)
RascunhosConfig ==
  {R(e, Nenhum, i, TRUE) : e \in {"carrinho", "pago", "finalizado", "cancelado"},
                           i \in {ItensDe(1, 0), ItensDe(0, 1)}}
  \cup {[R("pago", Nenhum, ItensDe(1, 0), TRUE) EXCEPT !.operacao = "devolucao"],
        [R("pago", Nenhum, ItensDe(1, 0), TRUE) EXCEPT !.integracao = Nenhum]}

RascunhosEstorno ==
  {R(e, Nenhum, ItensDe(1, 0), TRUE) :
     e \in {"pago", "finalizado", "estornadoParcialmente"}}

(* Lines that grow and shrink. *)
RascunhosLegado ==
  {R(e, Nenhum, ItensDe(n, 0), TRUE) : e \in {"pago", "finalizado", "cancelado"},
                                       n \in {1, 2}}
  \cup {R(e, Nenhum, ItensDe(1, 1), TRUE) : e \in {"pago", "finalizado"}}

(* Two pedidos over one estoque. *)
RascunhosDisputa ==
  {R(e, Nenhum, ItensDe(n, 0), TRUE) : e \in {"pago", "finalizado", "cancelado"},
                                       n \in {1, 2}}

EdicoesDeConfig == {<<"loja", Loja("rj")>>, <<"loja", Loja("sp")>>, <<"loja", Nenhum>>,
                    <<"loja", Loja(Nenhum)>>}
EdicoesDeOperacao == {<<"venda", VendaSemReserva>>, <<"venda", SoReserva>>,
                      <<"venda", Nenhum>>, <<"venda", SemTipo>>}
EdicoesDeProduto == {<<"kit", KitDe(1)>>, <<"kit", Nenhum>>}

MovimentosManuais ==
  {[tipo |-> t, produto |-> "camisa", deposito |-> "sp",
    quantidade |-> q, quantidadeReservada |-> r] :
     t \in {"entrada", "saida", "balanco"}, q \in {0, 1}, r \in {0, 1}}

(* Flutter-era pedidos: markers and no snapshot. *)
Legado(estado, remocao) ==
  [estado |-> estado, frete |-> Nenhum, itens |-> ItensDe(1, 0), ehSaida |-> TRUE,
   operacao |-> Nenhum, integracao |-> "loja", estoqueAplicado |-> Nenhum,
   marcaReserva |-> ~remocao, marcaRemocao |-> remocao]

SemOuLegados ==
  SemPedidos \cup [Pedidos -> {Legado("pago", FALSE), Legado("finalizado", TRUE)}]

=============================================================================
