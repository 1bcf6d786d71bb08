-------------------------- MODULE MCBloqueioPedido --------------------------
(***************************************************************************)
(* Instances of BloqueioPedido for TLC.  "mediacao" and "devolucao" are    *)
(* claims of the marketplace, "manual" is an operator's incidente of the   *)
(* schema's default tipo.                                                  *)
(***************************************************************************)
EXTENDS BloqueioPedido, TLC

MCOrigem == [i \in Incidentes |-> IF i = "manual" THEN "outros" ELSE Marketplace]
MCTipo == [i \in Incidentes |-> IF i = "mediacao" THEN "mediations" ELSE "returns"]
MCTimestamp == [i \in Incidentes |-> IF i = "mediacao" THEN 1 ELSE 2]
TresVersoes == [c \in Claims |-> 3]
DuasVersoes == [c \in Claims |-> 2]
MCVersoes == [c \in Claims |-> IF c = "mediacao" THEN 2 ELSE 1]
Despacho == {{}, {"despacho"}}
DespachoOuFinalizar == {{}, {"despacho"}, {"finalizar"}}

Nenhuma == {}
Postagem == {<<"despachoAutorizado", "postado">>, <<"checkFinalizado", "postado">>,
             <<"aguardandoRetirada", "entregue">>, <<"postado", "entregue">>}
Pagamento == {<<"pago", "emProcessamento">>, <<"emProcessamento", "pago">>}

=============================================================================
