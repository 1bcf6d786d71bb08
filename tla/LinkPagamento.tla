--------------------------- MODULE LinkPagamento ---------------------------
(***************************************************************************)
(* The payment links of one pedido, composed with its payments.  A request *)
(* mints one Mercado Pago preference per link and stores the links in one  *)
(* transaction, whose outcome it may not learn; a link is closed, after    *)
(* its preference, by the payment that spends its quota or by an operator; *)
(* the payer pays whatever preference of a stored link is payable.         *)
(***************************************************************************)
EXTENDS PagamentoPedido

CONSTANTS
  Requisicoes, \* requests for links
  Lote         \* of a request, the links it asks for; a replay asks for the same

(* Each POST mints a preference of its own; Stored marks those of the      *)
(* links already open.  Every stored link carries its preference.          *)
Stored == "stored"
Preferencias == (Requisicoes \cup {Stored}) \X Links

(* erro says the preference could not be closed.                           *)
Link == [status: StatusLinkPagamento, preferencia: Preferencias, erro: BOOLEAN]

(* A payment the former program wrote came through a link already there.   *)
(* A payment through a link is of what the link charges: its preference    *)
(* has one item, of the link's value, and Mercado Pago sells no other.     *)
ASSUME LinkAssumption ==
  /\ Lote \in [Requisicoes -> (SUBSET Links) \ {{}}]
  /\ Stored \notin Requisicoes /\ Nenhum \notin Link
  /\ \A i \in Inicios : \A p \in i.legados : LinkDo[p] \in i.links \cup {Nenhum}
  /\ \A p \in Pagamentos : LinkDo[p] # Nenhum => Valor[p] = ValorLink[LinkDo[p]]

VARIABLES
  links,          \* pedidos/{id}/linkPgtoMercadoPago/{id}, or Nenhum
  vencidos,       \* links past their deadline
  pagaveis,       \* preferences Mercado Pago lets a payer pay
  criacoes,       \* of each request, where it stands
  cancelamentos,  \* of each link, where an operator's cancellation stands
  retirados,      \* bookkeeping: preferences a close or a cancellation expired
  abandonados     \* bookkeeping: links whose last notification was given up

varsLink == <<links, vencidos, pagaveis, criacoes, cancelamentos, retirados, abandonados>>
vars == <<varsPagamento, varsLink>>

Aberto(r, l) == [status |-> "aberto", preferencia |-> <<r, l>>, erro |-> FALSE]

(* criadas are the links whose preference was minted, sobras the           *)
(* preferences to expire, esperado the total the operator split.           *)
Criacao ==
  [fase: {"nada", "postar", "persistir", "reler", "limpar", "feita"},
   criadas: SUBSET Links, sobras: SUBSET Preferencias, esperado: Nat]

TypeOK ==
  /\ TypeOKPagamento
  /\ links \in [Links -> Link \cup {Nenhum}]
  /\ vencidos \subseteq Links
  /\ pagaveis \subseteq Preferencias
  /\ criacoes \in [Requisicoes -> Criacao]
  /\ cancelamentos \in [Links -> {"nada", "expirar", "marcar"}]
  /\ retirados \subseteq Preferencias
  /\ abandonados \subseteq Links

Init ==
  /\ \E i \in Inicios :
       /\ InitPagamento(i)
       /\ links = [l \in Links |-> IF l \in i.links THEN Aberto(Stored, l) ELSE Nenhum]
       /\ pagaveis = {<<Stored, l>> : l \in i.links}
  /\ vencidos = {}
  /\ surpresa = (Exposicao(pedido, links, pagamentos, vencidos) > pedido.total)
  /\ criacoes = [r \in Requisicoes |->
       [fase |-> "nada", criadas |-> {}, sobras |-> {}, esperado |-> 0]]
  /\ cancelamentos = [l \in Links |-> "nada"]
  /\ retirados = {} /\ abandonados = {}

Guardados == {l \in Links : links[l] # Nenhum}

-----------------------------------------------------------------------------
(* The payer and the clock.                                                *)

PagarLink(p) ==
  /\ LinkDo[p] # Nenhum =>
       /\ LinkDo[p] \in Guardados \ vencidos
       /\ links[LinkDo[p]].preferencia \in pagaveis
  /\ Pagar(p)
  /\ UNCHANGED varsLink

Vencer(l) ==
  /\ l \in Guardados \ vencidos /\ Gastar("prazo")
  /\ vencidos' = vencidos \cup {l}
  /\ UNCHANGED <<provedor, tarefas, pagamentos, pedido, editor, chamadas, entregues,
                 mexidos, empatados, pendente, surpresa>>
  /\ UNCHANGED <<links, pagaveis, criacoes, cancelamentos, retirados, abandonados>>

-----------------------------------------------------------------------------
(* Closing a link.                                                         *)

(* Only an open link is marked.                                            *)
marcarLinkTerminal(l, status, erro) ==
  links' = IF links[l].status = "aberto"
             THEN [links EXCEPT ![l].status = status, ![l].erro = erro] ELSE links

PagamentoParado ==
  UNCHANGED <<provedor, pagamentos, pedido, editor, chamadas, sobra, entregues,
              mexidos, empatados, pendente, surpresa>>

DemaisLinks == UNCHANGED <<vencidos, criacoes, cancelamentos, abandonados>>

LinkDaTarefa(t) == LinkDo[tarefas[t].pagamento]

(* The close reads the link; an open one whose quota is spent goes on.     *)
encerrarLinkSeCompleto(t) ==
  /\ tarefas[t].fase = "fechar"
  /\ LET l == LinkDaTarefa(t)
         fecha == /\ l \in Guardados /\ links[l].status = "aberto"
                  /\ linkAtingiuCotaComAprovados(l, tarefas[t].aprovados)
     IN tarefas' = [tarefas EXCEPT ![t] =
          IF fecha THEN [@ EXCEPT !.fase = "expirar"] ELSE Livre]
  /\ UNCHANGED <<links, pagaveis, retirados>>
  /\ PagamentoParado /\ DemaisLinks

Expirada(l) ==
  /\ pagaveis' = pagaveis \ {links[l].preferencia}
  /\ retirados' = retirados \cup {links[l].preferencia}

(* Fault: the refusal of Mercado Pago is not recorded.                     *)
FalhaSemErro(resposta) == FALSE

erroEncerramento(resposta) == resposta = "recusada"

(* Mercado Pago expires the preference, or refuses for good; any other     *)
(* answer throws.                                                          *)
ExpirarParaFechar(t) ==
  /\ tarefas[t].fase = "expirar"
  /\ \E resposta \in {"expirada", "recusada"} :
       /\ IF resposta = "expirada" THEN Expirada(LinkDaTarefa(t))
            ELSE UNCHANGED <<pagaveis, retirados>>
       /\ tarefas' = [tarefas EXCEPT ![t] =
            [fase |-> "marcar", pagamento |-> @.pagamento, aprovados |-> @.aprovados,
             erro |-> erroEncerramento(resposta)]]
  /\ UNCHANGED links
  /\ PagamentoParado /\ DemaisLinks

MarcarConcluido(t) ==
  /\ tarefas[t].fase = "marcar"
  /\ marcarLinkTerminal(LinkDaTarefa(t), "concluido", tarefas[t].erro)
  /\ tarefas' = [tarefas EXCEPT ![t] = Livre]
  /\ UNCHANGED <<pagaveis, retirados>>
  /\ PagamentoParado /\ DemaisLinks

(* A step fails: the notification waits for the queue or the sweep, or it  *)
(* is given up.  The answer of an expiry may be all that is lost.          *)
Falhar(t) ==
  /\ tarefas[t].fase # "livre" /\ Gastar("falha")
  /\ \/ /\ tarefas' = [tarefas EXCEPT ![t] = NaFila(@.pagamento)]
        /\ UNCHANGED abandonados
     \/ /\ tarefas' = [tarefas EXCEPT ![t] = Livre]
        /\ abandonados' = abandonados \cup ({LinkDaTarefa(t)} \ {Nenhum})
  /\ \/ UNCHANGED <<pagaveis, retirados>>
     \/ tarefas[t].fase = "expirar" /\ Expirada(LinkDaTarefa(t))
  /\ UNCHANGED <<provedor, pagamentos, pedido, editor, chamadas, entregues, mexidos,
                 empatados, pendente, surpresa>>
  /\ UNCHANGED <<links, vencidos, criacoes, cancelamentos>>

-----------------------------------------------------------------------------
(* An operator cancels a link.                                             *)

cancelarLink(l) ==
  /\ cancelamentos[l] = "nada" /\ l \in Guardados /\ Gastar("cancelamento")
  /\ links[l].status = "aberto"
  /\ cancelamentos' = [cancelamentos EXCEPT ![l] = "expirar"]
  /\ UNCHANGED <<provedor, tarefas, pagamentos, pedido, editor, chamadas, entregues,
                 mexidos, empatados, pendente, surpresa>>
  /\ UNCHANGED <<links, vencidos, pagaveis, criacoes, retirados, abandonados>>

CancelamentoSo ==
  /\ PagamentoParado
  /\ UNCHANGED <<tarefas, vencidos, criacoes, abandonados>>

(* The preference expires; or Mercado Pago refuses, the answer is lost or  *)
(* the route dies, and nothing is marked.                                  *)
ExpirarParaCancelar(l) ==
  /\ cancelamentos[l] = "expirar"
  /\ \/ /\ Expirada(l)
        /\ cancelamentos' = [cancelamentos EXCEPT ![l] = "marcar"]
     \/ /\ Expirada(l) \/ UNCHANGED <<pagaveis, retirados>>
        /\ cancelamentos' = [cancelamentos EXCEPT ![l] = "nada"]
  /\ UNCHANGED links
  /\ CancelamentoSo

MarcarCancelado(l) ==
  /\ cancelamentos[l] = "marcar"
  /\ marcarLinkTerminal(l, "cancelado", FALSE) \/ UNCHANGED links
  /\ cancelamentos' = [cancelamentos EXCEPT ![l] = "nada"]
  /\ UNCHANGED <<pagaveis, retirados>>
  /\ CancelamentoSo

-----------------------------------------------------------------------------
(* A request for links.                                                    *)

MinhasPreferencias(r) == {<<r, l>> : l \in criacoes[r].criadas}

Ir(r, fase, sobras) ==
  criacoes' = [criacoes EXCEPT ![r].fase = fase, ![r].sobras = sobras]

CriacaoSo ==
  /\ PagamentoParado
  /\ UNCHANGED <<tarefas, links, vencidos, cancelamentos, retirados, abandonados>>

(* The advisory check; a replay is answered from what is stored.           *)
criarLinks(r) ==
  /\ criacoes[r].fase = "nada" /\ Gastar("pedidoDeLink")
  /\ Lote[r] \cap Guardados = {}
  /\ avaliarElegibilidade(pedido, links, pagamentos, vencidos, Lote[r], FALSE, pedido.total)
  /\ criacoes' = [criacoes EXCEPT ![r].fase = "postar", ![r].esperado = pedido.total]
  /\ UNCHANGED <<provedor, tarefas, pagamentos, pedido, editor, chamadas, entregues,
                 mexidos, empatados, pendente, surpresa>>
  /\ UNCHANGED <<links, vencidos, pagaveis, cancelamentos, retirados, abandonados>>

createPreference(r) ==
  /\ criacoes[r].fase = "postar"
  /\ \E l \in Lote[r] \ criacoes[r].criadas :
       /\ pagaveis' = pagaveis \cup {<<r, l>>}
       /\ criacoes' = [criacoes EXCEPT ![r].criadas = @ \cup {l},
            ![r].fase = IF Lote[r] = criacoes[r].criadas \cup {l} THEN "persistir" ELSE @]
  /\ CriacaoSo

(* A POST fails: the preferences already minted are expired.               *)
createPreferenceFalha(r) ==
  /\ criacoes[r].fase = "postar"
  /\ Ir(r, "limpar", MinhasPreferencias(r))
  /\ UNCHANGED pagaveis
  /\ CriacaoSo

(* Fault: what was minted is expired, stored or not.                       *)
FalhaExpiraTudo(r) == MinhasPreferencias(r)

preferenciasSemLink(r) ==
  MinhasPreferencias(r) \ {links[l].preferencia : l \in Lote[r] \cap Guardados}

ehNossoCommit(r) ==
  \A l \in Lote[r] : l \in Guardados /\ links[l].preferencia = <<r, l>>

Elegivel(r) ==
  avaliarElegibilidade(pedido, links, pagamentos, vencidos, Lote[r], TRUE,
                       criacoes[r].esperado)

(* The links are created and the estado flips with them.                   *)
GravarLinks(r) ==
  /\ Lote[r] \cap Guardados = {} /\ Elegivel(r)
  /\ links' = [l \in Links |-> IF l \in Lote[r] THEN Aberto(r, l) ELSE links[l]]
  /\ pedido' = [pedido EXCEPT !.estado = estadoAoGerarLinkPagamento(pedido)]

persistirLinks(r) ==
  /\ criacoes[r].fase = "persistir"
  /\ \/ /\ GravarLinks(r)
        /\ Ir(r, "feita", {})
     \/ (* An identical replay, our own commit included.                   *)
        /\ Lote[r] \subseteq Guardados
        /\ Ir(r, "limpar", preferenciasSemLink(r))
        /\ UNCHANGED <<links, pedido>>
     \/ (* Some ids collide, or a rule refuses: an NF-e may have locked    *)
        (* the payments.                                                   *)
        /\ ~ Lote[r] \subseteq Guardados
        /\ Ir(r, "limpar", MinhasPreferencias(r))
        /\ UNCHANGED <<links, pedido>>
     \/ (* The answer is lost, whether or not the commit landed: the SDK   *)
        (* runs the transaction again, or throws.                          *)
        /\ GravarLinks(r) \/ UNCHANGED <<links, pedido>>
        /\ \E fase \in {"persistir", "reler"} : Ir(r, fase, {})
  /\ UNCHANGED <<provedor, tarefas, pagamentos, editor, chamadas, sobra, entregues,
                 mexidos, empatados, pendente, surpresa>>
  /\ UNCHANGED <<vencidos, pagaveis, cancelamentos, retirados, abandonados>>

(* After a throw the links are read again: an unreadable outcome expires   *)
(* nothing.                                                                *)
lerLinksSolicitados(r) ==
  /\ criacoes[r].fase = "reler"
  /\ \/ Ir(r, "feita", {})
     \/ Ir(r, IF ehNossoCommit(r) THEN "feita" ELSE "limpar",
              IF ehNossoCommit(r) THEN {} ELSE preferenciasSemLink(r))
  /\ UNCHANGED pagaveis
  /\ CriacaoSo

(* Each expiry succeeds or fails on its own; the instance may die first.   *)
expirarPreferencias(r) ==
  /\ criacoes[r].fase = "limpar"
  /\ \E expiradas \in SUBSET criacoes[r].sobras : pagaveis' = pagaveis \ expiradas
  /\ Ir(r, "feita", {})
  /\ CriacaoSo

MorrerCriacao(r) ==
  /\ criacoes[r].fase \in {"postar", "persistir", "reler"}
  /\ Ir(r, "feita", {})
  /\ UNCHANGED pagaveis
  /\ CriacaoSo

-----------------------------------------------------------------------------
(* The composition.                                                        *)

Notificacao(t) ==
  \/ (fetchPayment(t) \/ reconcilePedidoFromPagamento(t, links, vencidos))
       /\ UNCHANGED varsLink
  \/ encerrarLinkSeCompleto(t) \/ ExpirarParaFechar(t) \/ MarcarConcluido(t)
  \/ Falhar(t)

Operador ==
  /\ \/ CriarPagamentos
     \/ \E d \in Docs : savePagamento(d) \/ deletePagamento(d)
     \/ AbrirEditor \/ savePedido \/ MudarEstado \/ Embalar
     \/ \E o \in {"pagamento", "total"} : reconcilePedidoEstado(o) \/ PerderChamada(o)
  /\ UNCHANGED varsLink

Criar(r) ==
  \/ criarLinks(r) \/ createPreference(r) \/ createPreferenceFalha(r)
  \/ persistirLinks(r) \/ lerLinksSolicitados(r) \/ expirarPreferencias(r)
  \/ MorrerCriacao(r)

Next ==
  \/ \E p \in Pagamentos : PagarLink(p)
  \/ \E p \in Pagamentos : (ProvedorMuda(p) \/ Reentregar(p)) /\ UNCHANGED varsLink
  \/ \E t \in Tarefas : Notificacao(t)
  \/ Operador
  \/ \E r \in Requisicoes : Criar(r)
  \/ \E l \in Links : cancelarLink(l) \/ ExpirarParaCancelar(l) \/ MarcarCancelado(l)
                        \/ Vencer(l)

Spec == Init /\ [][Next]_vars

-----------------------------------------------------------------------------
(* Properties.                                                             *)

(* However deliveries are repeated, reordered and crossed, a payment whose *)
(* present state was reconciled has one document, and it says what the     *)
(* provider says, until an operator touches it                             *)
(* (reconcilePedidoFromPagamento; a change under an unmoved clock is lost).*)
PagamentoSegueProvedor ==
  \A p \in entregues \ (mexidos \cup empatados) :
    /\ pagamentos[alvo(p)] # Nenhum
    /\ pagamentos[alvo(p)].status = provedor[p].status
    /\ pagamentos[alvo(p)].valor = ValorRetido(p, provedor[p].status)
    /\ LegadoDe[p] # Nenhum => pagamentos[p] = Nenhum \/ pagamentos[LegadoDe[p]] = Nenhum

(* The estado is the one the stored payments give the pedido, or a         *)
(* reconciliation is on its way, unless a call was lost or another writer  *)
(* moved the estado (applyEstadoTransition, reconcilePedidoEstado).        *)
EstadoSegueSoma == Diverge => chamadas # {} \/ pendente

(* A link whose approved payments spent its quota is open only while a     *)
(* notification that will close it is alive, or was given up               *)
(* (encerrarLinkSeCompleto on both exits of the reconciliation).           *)
LinkEsgotadoTemDono ==
  \A l \in Guardados \ abandonados :
    links[l].status = "aberto" /\ AprovadosDoLink(pagamentos, l) >= Cota[l] =>
      \E t \in Tarefas : /\ tarefas[t].fase # "livre" /\ LinkDaTarefa(t) = l
                         /\ \/ tarefas[t].fase \in {"fila", "buscou"}
                            \/ tarefas[t].aprovados >= Cota[l]

(* A link that is marked closed without an error cannot be paid            *)
(* (encerrarLink, cancelarLink: the preference is expired first).          *)
LinkFechadoNaoCobra ==
  \A l \in Guardados :
    links[l].status # "aberto" /\ ~links[l].erro => links[l].preferencia \notin pagaveis

(* A stored link that is open can be paid: no request expires a preference *)
(* a stored link carries, whatever it knows of its own commit              *)
(* (preferenciasSemLink, ehNossoCommit).                                   *)
LinkAbertoVivo ==
  \A l \in Guardados :
    LET pref == links[l].preferencia
    IN links[l].status = "aberto" /\ pref \notin retirados => pref \in pagaveis

(* What is settled, what open links may bring in and what is on its way    *)
(* through closed ones never exceed the total, unless money moved that no  *)
(* link had announced (avaliarElegibilidade inside persistirLinks).        *)
ExposicaoCabe ==
  ~surpresa => Exposicao(pedido, links, pagamentos, vencidos) <= pedido.total

=============================================================================
