-------------------------- MODULE MCLinkPagamento --------------------------
(***************************************************************************)
(* A pedido of three, two links (the first one shared by two payers), two  *)
(* payments through the first link and one the former program had already  *)
(* written, two requests for both links and one for the second alone.      *)
(***************************************************************************)
EXTENDS LinkPagamento, TLC

CONSTANTS p1, p2, p3, g3, m1, l1, l2, r1, r2, r3, t1, t2

McDocs == {p1, p2, p3, g3, m1}
McLegadoDe == [p \in {p1, p2, p3} |-> IF p = p3 THEN g3 ELSE Nenhum]
McLinkDo == [p \in {p1, p2, p3} |-> IF p = p3 THEN Nenhum ELSE l1]
McValor == [p \in {p1, p2, p3} |-> 1]
McValorLink == [l \in {l1, l2} |-> 1]
McCota == [l \in {l1, l2} |-> IF l = l1 THEN 2 ELSE 1]
McLote == [r \in {r1, r2, r3} |-> IF r = r3 THEN {l2} ELSE {l1, l2}]

PedidoDe(estado, total, devolvido, frete, marketplace, freteDoCanal) ==
  [estado |-> estado, total |-> total, devolvido |-> devolvido, frete |-> frete,
   marketplace |-> marketplace, freteDoCanal |-> freteDoCanal]

McMovimentos == {<<"iniciado", "emProcessamento">>, <<"pago", "finalizado">>}

McEdicoes == {<<1, "aprovado", FALSE>>, <<1, Nenhum, TRUE>>}

Nada == [e \in Eventos |-> 0]

Venda == PedidoDe("iniciado", 2, 0, "iniciado", FALSE, FALSE)
Troca == PedidoDe("iniciado", 2, 1, "aguardandoNFe", FALSE, FALSE)
Canal == PedidoDe("carrinho", 1, 0, "iniciado", TRUE, TRUE)

ComLink(pedidoInicial, ls, eventos) ==
  [pedido |-> pedidoInicial, sobra |-> eventos, legados |-> {}, status |-> "pendente",
   links |-> ls]

(* The former program's payment; the payments of a link; operators; twin   *)
(* requests; a request once a link ended; a close that crosses a           *)
(* cancellation.                                                           *)
McInicios ==
  {[pedido |-> Troca, legados |-> {p3}, status |-> s, links |-> {},
    sobra |-> [Nada EXCEPT !["mudanca"] = 2, !["duplicata"] = 2, !["falha"] = 1,
                           !["edicao"] = 1]] : s \in {"pendente", "aprovado"}}
    \cup {ComLink(Venda, {l1}, [Nada EXCEPT !["pagamento"] = 2, !["mudanca"] = 2,
                                           !["duplicata"] = 1, !["falha"] = 1])}
    \cup {ComLink(p, {l1}, [Nada EXCEPT !["pagamento"] = 1, !["edicao"] = 2,
                                       !["salvar"] = 1, !["movimento"] = 1]) :
           p \in {Venda, Canal}}
    \cup {ComLink([Venda EXCEPT !.total = 3], {},
                  [Nada EXCEPT !["pedidoDeLink"] = 2, !["pagamento"] = 1]),
          ComLink(Venda, {l1},
                  [Nada EXCEPT !["pagamento"] = 2, !["pedidoDeLink"] = 1, !["prazo"] = 1]),
          ComLink(Venda, {l1}, [Nada EXCEPT !["pagamento"] = 2, !["cancelamento"] = 1,
                                            !["falha"] = 2])}

Simetria == Permutations({t1, t2}) \cup Permutations({p1, p2}) \cup Permutations({r1, r2})

=============================================================================
