-------------------------- MODULE PagamentoPedido --------------------------
(***************************************************************************)
(* The payments of one pedido.  The provider changes a payment and         *)
(* notifies; a task fetches the payment, writes its document and settles   *)
(* the estado in one transaction, and closes a link whose quota is spent;  *)
(* operators register, edit and delete payments and save the pedido, and   *)
(* each of those calls a server reconciliation that may never arrive.      *)
(*                                                                         *)
(* LinkPagamento adds the links and composes the two.                      *)
(***************************************************************************)
EXTENDS CoberturaPedido

CONSTANTS
  Pagamentos,  \* ids of the provider's payments: their documents' ids
  Legados,     \* documents the former program wrote, under ids of its own
  LegadoDe,    \* of a payment, its legacy document, or Nenhum
  Manuais,     \* documents operators create
  LinkDo,      \* of a payment, the link it came through, or Nenhum
  Valor,       \* of a payment, its amount
  Tarefas,     \* slots of notifications in flight
  Totais,      \* the totals an operator may save
  Devolvidos,  \* the returned values an operator may save
  Edicoes,     \* the <<amount, status, crédito loja>> an operator may type
  MovimentosDeEstado, \* <<from, to>>: the other writers of the estado
  PodeEmpatar, \* whether a payment may change without moving its clock
  Inicios      \* what the program may find, with the bounds of the instance

(* What the bounds count: things that happen outside the program.          *)
Eventos == {"pagamento", "mudanca", "duplicata", "falha", "edicao", "salvar",
            "movimento", "pedidoDeLink", "cancelamento", "prazo"}

(* The pedido, what is left of each bound, the payments the former program *)
(* wrote and their status there, and the links already open.               *)
Inicio == [pedido: Pedido, sobra: [Eventos -> Nat], legados: SUBSET Pagamentos,
           status: {"pendente", "aprovado"}, links: SUBSET Links]

CopiaDoProvedor ==
  [status: StatusPagamento, aprovado: BOOLEAN, relogio: Nat]

ASSUME PagamentoAssumption ==
  /\ Docs = Pagamentos \cup Legados \cup Manuais
  /\ Pagamentos \cap Legados = {} /\ Pagamentos \cap Manuais = {} /\ Legados \cap Manuais = {}
  /\ LegadoDe \in [Pagamentos -> Legados \cup {Nenhum}]
  /\ \A p, q \in Pagamentos : LegadoDe[p] = LegadoDe[q] /\ LegadoDe[p] # Nenhum => p = q
  /\ LinkDo \in [Pagamentos -> Links \cup {Nenhum}]
  /\ Valor \in [Pagamentos -> Nat]
  /\ Totais \subseteq Nat /\ Devolvidos \subseteq Nat
  /\ Edicoes \subseteq Nat \X (StatusPagamento \cup {Nenhum}) \X BOOLEAN
  /\ MovimentosDeEstado \subseteq EstadoPedido \X EstadoPedido
  /\ PodeEmpatar \in BOOLEAN
  /\ Inicios \subseteq Inicio
  /\ \A i \in Inicios, p \in Pagamentos : p \in i.legados => LegadoDe[p] # Nenhum
  /\ Nenhum \notin Docs /\ Nenhum \notin CopiaDoProvedor

VARIABLES
  provedor,    \* of each payment, its state at the provider, or Nenhum
  tarefas,     \* of each slot, where the handling of its notification stands
  pagamentos,  \* pedidos/{id}/pagamentos/{id}, or Nenhum
  pedido,      \* the pedido
  editor,      \* an operator has the pedido open and editable
  chamadas,    \* reconciliations on their way: after a payment, after a total
  sobra,       \* what is left of each bound
  \* What follows is bookkeeping for the properties.
  entregues,   \* payments whose current state has been reconciled
  mexidos,     \* payments whose document an operator edited or deleted since
  empatados,   \* payments whose last change did not move their clock
  pendente,    \* the estado may differ from the sum, and nothing will fix it
  surpresa     \* money moved that no link had announced

varsPagamento == <<provedor, tarefas, pagamentos, pedido, editor, chamadas, sobra,
                   entregues, mexidos, empatados, pendente, surpresa>>

(* A notification waits to be handled, or its handler fetched the payment, *)
(* read the quota of its link, is closing the link's preference, or is to  *)
(* mark the link; erro says Mercado Pago refused the close for good.       *)
Tarefa ==
  [fase: {"livre"}]
    \cup [fase: {"fila"}, pagamento: Pagamentos]
    \cup [fase: {"buscou"}, pagamento: Pagamentos, copia: CopiaDoProvedor]
    \cup [fase: {"fechar", "expirar"}, pagamento: Pagamentos, aprovados: Nat]
    \cup [fase: {"marcar"}, pagamento: Pagamentos, aprovados: Nat, erro: BOOLEAN]

Livre == [fase |-> "livre"]
NaFila(p) == [fase |-> "fila", pagamento |-> p]

TypeOKPagamento ==
  /\ provedor \in [Pagamentos -> CopiaDoProvedor \cup {Nenhum}]
  /\ tarefas \in [Tarefas -> Tarefa]
  /\ pagamentos \in [Docs -> Pagamento \cup {Nenhum}]
  /\ pedido \in Pedido
  /\ editor \in BOOLEAN
  /\ chamadas \subseteq {"pagamento", "total"}
  /\ sobra \in [Eventos -> Nat]
  /\ entregues \subseteq Pagamentos /\ mexidos \subseteq Pagamentos
  /\ empatados \subseteq Pagamentos
  /\ pendente \in BOOLEAN /\ surpresa \in BOOLEAN

(* The estado is not the one the payments give the pedido.                 *)
DivergeCom(p, docs) == nextPedidoEstado(p, docs) # p.estado
Diverge == DivergeCom(pedido, pagamentos)

(* The documents of payments that were there before this program: no       *)
(* clock, no link, and the payments approved meanwhile or before.          *)
DocLegado(p, status) ==
  [valor |-> Valor[p], status |-> status, creditoLoja |-> FALSE,
   relogio |-> Nenhum, link |-> Nenhum, aprovado |-> status = "aprovado"]

InitPagamento(i) ==
  /\ provedor = [p \in Pagamentos |->
       IF p \in i.legados
         THEN [status |-> "aprovado", aprovado |-> TRUE, relogio |-> 1] ELSE Nenhum]
  /\ pagamentos = [d \in Docs |->
       IF \E p \in i.legados : LegadoDe[p] = d
         THEN DocLegado(CHOOSE p \in i.legados : LegadoDe[p] = d, i.status) ELSE Nenhum]
  /\ pedido = i.pedido
  /\ tarefas = [t \in Tarefas |-> Livre]
  /\ editor = FALSE /\ chamadas = {}
  /\ sobra = i.sobra
  /\ entregues = {} /\ mexidos = {} /\ empatados = {}
  /\ pendente = Diverge

Gastar(evento) == sobra[evento] > 0 /\ sobra' = [sobra EXCEPT ![evento] = @ - 1]

-----------------------------------------------------------------------------
(* The provider.                                                           *)

ProximosStatus(status) ==
  CASE status = "pendente" -> {"aprovado", "recusado"}
    [] status = "aprovado" -> {"em_disputa", "estornado"}
    [] status = "em_disputa" -> {"aprovado", "estornado"}
    [] OTHER -> {}

(* A new notification takes a free slot.                                   *)
Notificar(p) ==
  \E t \in Tarefas : /\ tarefas[t] = Livre
                     /\ tarefas' = [tarefas EXCEPT ![t] = NaFila(p)]

(* A payment starts, approved at once or on its way.                       *)
Pagar(p) ==
  /\ provedor[p] = Nenhum /\ Gastar("pagamento")
  /\ \E status \in {"pendente", "aprovado"} :
       provedor' = [provedor EXCEPT ![p] =
         [status |-> status, aprovado |-> status = "aprovado", relogio |-> 1]]
  /\ Notificar(p)
  /\ UNCHANGED <<pagamentos, pedido, editor, chamadas, entregues, mexidos,
                 empatados, pendente, surpresa>>

(* A payment changes: its approval is never taken back, and its clock may  *)
(* stand still.                                                            *)
ProvedorMuda(p) ==
  /\ provedor[p] # Nenhum /\ Gastar("mudanca")
  /\ \E status \in ProximosStatus(provedor[p].status), passo \in {0, 1} :
       /\ passo = 0 => PodeEmpatar
       /\ provedor' = [provedor EXCEPT ![p] =
            [status |-> status, aprovado |-> @.aprovado \/ status = "aprovado",
             relogio |-> @.relogio + passo]]
       /\ empatados' = IF passo = 0 THEN empatados \cup {p} ELSE empatados \ {p}
  /\ entregues' = entregues \ {p}
  /\ Notificar(p)
  /\ UNCHANGED <<pagamentos, pedido, editor, chamadas, mexidos, pendente, surpresa>>

(* The provider delivers again, or an operator asks for the payments of    *)
(* the pedido, which goes through the same handler.                        *)
Reentregar(p) ==
  /\ provedor[p] # Nenhum /\ Gastar("duplicata")
  /\ Notificar(p)
  /\ UNCHANGED <<provedor, pagamentos, pedido, editor, chamadas, entregues, mexidos,
                 empatados, pendente, surpresa>>

-----------------------------------------------------------------------------
(* One notification.                                                       *)

(* The handler trusts only what it fetches.                                *)
fetchPayment(t) ==
  /\ tarefas[t].fase = "fila"
  /\ tarefas' = [tarefas EXCEPT ![t] =
       [fase |-> "buscou", pagamento |-> @.pagamento, copia |-> provedor[@.pagamento]]]
  /\ UNCHANGED <<provedor, pagamentos, pedido, editor, chamadas, sobra, entregues,
                 mexidos, empatados, pendente, surpresa>>

(* Fault: a payment is looked up by its own id alone.                      *)
FalhaSemLegado(p) == p

(* The document a payment is written to: its own, or the legacy document   *)
(* of the same payment.                                                    *)
alvo(p) ==
  IF pagamentos[p] = Nenhum /\ LegadoDe[p] # Nenhum /\ pagamentos[LegadoDe[p]] # Nenhum
    THEN LegadoDe[p] ELSE p

(* The stored document is at least as fresh.                               *)
Obsoleta(p, copia) ==
  /\ pagamentos[alvo(p)] # Nenhum /\ pagamentos[alvo(p)].relogio # Nenhum
  /\ pagamentos[alvo(p)].relogio >= copia.relogio

(* What the seller keeps: a refund is taken off.                           *)
ValorRetido(p, status) == IF status = "estornado" THEN 0 ELSE Valor[p]

(* The provider's fields overlay the stored document; the link is filled   *)
(* once.                                                                   *)
Escrito(p, copia) ==
  [valor |-> ValorRetido(p, copia.status), status |-> copia.status, creditoLoja |-> FALSE,
   relogio |-> copia.relogio,
   link |-> IF pagamentos[alvo(p)] # Nenhum /\ pagamentos[alvo(p)].link # Nenhum
              THEN pagamentos[alvo(p)].link ELSE LinkDo[p],
   aprovado |-> copia.aprovado]

(* A stale delivery reads its own document as of its link.                 *)
ComAtribuicao(p) ==
  IF pagamentos[alvo(p)] # Nenhum /\ pagamentos[alvo(p)].link = Nenhum
    THEN [pagamentos EXCEPT ![alvo(p)].link = LinkDo[p]] ELSE pagamentos

(* Fault: the sum is over what was stored before the write.                *)
FalhaSomaAntes(p, copia) == pagamentos

(* The payments the coverage and the quota are counted over.               *)
SomaDe(p, copia) == [pagamentos EXCEPT ![alvo(p)] = Escrito(p, copia)]

(* Once reconciled, a payment that came through a link goes on to close it.*)
Encaminhar(t, p, docs) ==
  tarefas' = [tarefas EXCEPT ![t] =
    IF LinkDo[p] = Nenhum THEN Livre
    ELSE [fase |-> "fechar", pagamento |-> p,
          aprovados |-> AprovadosDoLink(docs, LinkDo[p])]]

(* Fault: a stale delivery has nothing more to do.                         *)
FalhaParaNoObsoleto(t, p, copia) ==
  /\ Obsoleta(p, copia)
  /\ tarefas' = [tarefas EXCEPT ![t] = Livre]
  /\ UNCHANGED <<pagamentos, pedido, mexidos, pendente>>

reconcileObsoleta(t, p, copia) ==
  /\ Obsoleta(p, copia)
  /\ Encaminhar(t, p, ComAtribuicao(p))
  /\ UNCHANGED <<pagamentos, pedido, mexidos, pendente>>

reconcileGrava(t, p, copia) ==
  /\ ~Obsoleta(p, copia)
  /\ pagamentos' = [pagamentos EXCEPT ![alvo(p)] = Escrito(p, copia)]
  /\ pedido' = applyEstadoTransition(pedido, SomaDe(p, copia))
  /\ Encaminhar(t, p, pagamentos')
  /\ mexidos' = IF copia = provedor[p] THEN mexidos \ {p} ELSE mexidos
  /\ pendente' = FALSE

(* Whether link l had announced one more payment.                          *)
Anunciado(links, vencidos, l) ==
  /\ l \in linksEmAberto(links, pagamentos, vencidos)
  /\ Cardinality({d \in Docs : /\ pagamentos[d] # Nenhum /\ pagamentos[d].link = l
                               /\ \/ isPagamentoPagante(pagamentos[d].status)
                                  \/ pagamentos[d].status \in STATUS_EM_TRANSITO})
       < Cota[l]

(* The transaction of one delivery.                                        *)
reconcilePedidoFromPagamento(t, links, vencidos) ==
  /\ tarefas[t].fase = "buscou"
  /\ LET p == tarefas[t].pagamento
         copia == tarefas[t].copia
     IN /\ reconcileObsoleta(t, p, copia) \/ reconcileGrava(t, p, copia)
        /\ entregues' = IF copia = provedor[p] THEN entregues \cup {p} ELSE entregues
        /\ surpresa' = (surpresa \/
             /\ ~Obsoleta(p, copia)
             /\ copia.status # "recusado" /\ copia.status # "estornado"
             /\ pagamentos[alvo(p)] = Nenhum \/ pagamentos[alvo(p)].link = Nenhum
             /\ LinkDo[p] = Nenhum \/ ~Anunciado(links, vencidos, LinkDo[p]))
  /\ UNCHANGED <<provedor, editor, chamadas, sobra, empatados>>

-----------------------------------------------------------------------------
(* Operators.                                                              *)

(* What every operator's change of the payments does: the document is      *)
(* written, then the reconciliation is called.                             *)
Registrar(docs) ==
  /\ Gastar("edicao")
  /\ pagamentos' = docs
  /\ chamadas' = chamadas \cup {"pagamento"}
  /\ surpresa' = TRUE
  /\ UNCHANGED <<provedor, tarefas, pedido, editor, entregues, empatados, pendente>>

DoOperador(edicao) ==
  [valor |-> edicao[1], status |-> edicao[2], creditoLoja |-> edicao[3],
   relogio |-> Nenhum, link |-> Nenhum, aprovado |-> edicao[2] = "aprovado"]

(* One payment, or the parcels of a cheque in one commit.                  *)
CriarPagamentos ==
  /\ \E novos \in (SUBSET {d \in Manuais : pagamentos[d] = Nenhum}) \ {{}},
        edicao \in Edicoes :
       Registrar([d \in Docs |-> IF d \in novos THEN DoOperador(edicao) ELSE pagamentos[d]])
  /\ UNCHANGED mexidos

(* The payments whose document is d.                                       *)
DonosDe(d) == {p \in Pagamentos : d \in {p, LegadoDe[p]}}

(* An edit conflicts with any change of the fields it touches, a deletion  *)
(* with any change at all: both are on the current document.               *)
savePagamento(d) ==
  /\ pagamentos[d] # Nenhum
  /\ \E edicao \in Edicoes :
       /\ DoOperador(edicao) # pagamentos[d]
       /\ Registrar([pagamentos EXCEPT ![d].valor = edicao[1], ![d].status = edicao[2],
                                       ![d].creditoLoja = edicao[3]])
  /\ mexidos' = mexidos \cup DonosDe(d)

deletePagamento(d) ==
  /\ pagamentos[d] # Nenhum
  /\ Registrar([pagamentos EXCEPT ![d] = Nenhum])
  /\ mexidos' = mexidos \cup DonosDe(d)

(* The editor only lets the total move in an editable estado.              *)
AbrirEditor ==
  /\ ~editor /\ ~travarInclusaoProduto(pedido.estado) /\ Gastar("salvar")
  /\ editor' = TRUE
  /\ UNCHANGED <<provedor, tarefas, pagamentos, pedido, chamadas, entregues, mexidos,
                 empatados, pendente, surpresa>>

(* The save commits even if the estado was locked meanwhile; only then no  *)
(* reconciliation follows.                                                 *)
savePedido ==
  /\ editor /\ editor' = FALSE
  /\ \E total \in Totais, devolvido \in Devolvidos :
       /\ <<total, devolvido>> # <<pedido.total, pedido.devolvido>>
       /\ pedido' = [pedido EXCEPT !.total = total, !.devolvido = devolvido]
  /\ chamadas' = IF travarInclusaoProduto(pedido.estado)
                   THEN chamadas ELSE chamadas \cup {"total"}
  /\ pendente' = (pendente \/ (/\ travarInclusaoProduto(pedido.estado)
                              /\ DivergeCom(pedido', pagamentos)))
  /\ surpresa' = TRUE
  /\ UNCHANGED <<provedor, tarefas, pagamentos, sobra, entregues, mexidos, empatados>>

(* Another writer moves the estado: a person, an importer, the warehouse.  *)
MudarEstado ==
  /\ Gastar("movimento")
  /\ \E m \in MovimentosDeEstado :
       /\ m[1] = pedido.estado
       /\ pedido' = [pedido EXCEPT !.estado = m[2]]
  /\ pendente' = (pendente \/ DivergeCom(pedido', pagamentos))
  /\ UNCHANGED <<provedor, tarefas, pagamentos, editor, chamadas, entregues, mexidos,
                 empatados, surpresa>>

Embalar ==
  /\ pedido.frete = "despachoAutorizado" /\ Gastar("movimento")
  /\ pedido' = [pedido EXCEPT !.frete = "empacotado"]
  /\ UNCHANGED <<provedor, tarefas, pagamentos, editor, chamadas, entregues, mexidos,
                 empatados, pendente, surpresa>>

-----------------------------------------------------------------------------
(* The callable.                                                           *)

(* After a total moved, an estado that locked meanwhile and the estado of  *)
(* a marketplace are left alone.                                           *)
Ignorada(origem) ==
  origem = "total" /\ (travarInclusaoProduto(pedido.estado) \/ pedido.marketplace)

reconcilePedidoEstado(origem) ==
  /\ origem \in chamadas
  /\ chamadas' = chamadas \ {origem}
  /\ \/ /\ Ignorada(origem)
        /\ pendente' = (pendente \/ Diverge)
        /\ UNCHANGED pedido
     \/ /\ ~Ignorada(origem)
        /\ pedido' = applyEstadoTransition(pedido, pagamentos)
        /\ pendente' = FALSE
  /\ UNCHANGED <<provedor, tarefas, pagamentos, editor, sobra, entregues, mexidos,
                 empatados, surpresa>>

(* The browser closes, or every retry of the call fails.                   *)
PerderChamada(origem) ==
  /\ origem \in chamadas
  /\ chamadas' = chamadas \ {origem}
  /\ pendente' = (pendente \/ Diverge)
  /\ UNCHANGED <<provedor, tarefas, pagamentos, pedido, editor, sobra, entregues,
                 mexidos, empatados, surpresa>>

=============================================================================
