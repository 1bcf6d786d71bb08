--------------------------- MODULE CompraEtiqueta ---------------------------
(***************************************************************************)
(* Buying a Melhor Envio label for one pedido.                             *)
(*                                                                         *)
(* Each request of the route comprar takes the pedido's in-flight claim,   *)
(* puts an item in the cart (or resumes on the label the pedido is         *)
(* anchored to), anchors it, and then pays and generates it, each of these *)
(* paid calls behind a fence.  Requests overlap; each is on an instance    *)
(* with its own clock; a call may time out while Melhor Envio still        *)
(* settles it; a request may die, or be frozen by the platform and go on   *)
(* later.  Webhook tasks write the freight state of the same pedido, and   *)
(* in between an operator may repoint the freight, choose its state,       *)
(* confirm the delivery or finish the checkout.                            *)
(***************************************************************************)
EXTENDS Integers

CONSTANTS
  Requisicoes,      \* requests of the route, each a run
  Etiquetas,        \* ids the cart hands out
  Avisos,           \* webhook tasks
  Relogio,          \* how far the clock of each request's instance is ahead
  COMPRA_ETIQUETA_LEASE_MS,
  COMPRA_ETIQUETA_JANELA_PAGA_MS,
  PRAZO_PAGO,       \* token refresh and longest paid deadline together
  FOLGA_RELOGIO_MS,
  EstadosIniciais,  \* freight states of the pedido before any purchase
  EstadosEscolhidos, \* bound: freight states an operator chooses
  Viagens,          \* pairs of statuses a bought shipment may move between
  MaxAgora,         \* bound: how far time goes
  MaxTrocas,        \* bound: writes of the freight by an operator
  Nenhum            \* null: no claim, no anchor, no pedido

EstadoFrete ==
  {"iniciado", "aguardandoPostagem", "checkFinalizado", "postado", "entregue",
   "cancelado", "suspenso", "falhaNaEntrega"}

StatusMe ==
  {"pending", "released", "posted", "delivered", "undelivered", "canceled", "suspended"}

ASSUME CompraAssumption ==
  /\ Relogio \in [Requisicoes -> Nat]
  /\ COMPRA_ETIQUETA_LEASE_MS \in Nat /\ COMPRA_ETIQUETA_JANELA_PAGA_MS \in Nat
  /\ PRAZO_PAGO \in Nat /\ FOLGA_RELOGIO_MS \in Nat
  /\ EstadosIniciais \subseteq EstadoFrete /\ EstadosEscolhidos \subseteq EstadoFrete
  /\ Viagens \subseteq {<<"released", "canceled">>, <<"released", "suspended">>,
                         <<"suspended", "released">>, <<"released", "posted">>,
                         <<"posted", "delivered">>, <<"posted", "undelivered">>,
                         <<"undelivered", "posted">>, <<"undelivered", "delivered">>}
  /\ MaxAgora \in Nat /\ MaxTrocas \in Nat
  /\ Nenhum \notin Etiquetas

(* The inequality the takeover safety rests on, and the guard's slack, for *)
(* clocks that differ.                                                     *)
ASSUME PrazosAssumption ==
  \A r, s \in Requisicoes :
    /\ COMPRA_ETIQUETA_JANELA_PAGA_MS + PRAZO_PAGO + Relogio[s]
         <= COMPRA_ETIQUETA_LEASE_MS + Relogio[r]
    /\ Relogio[r] <= Relogio[s] + FOLGA_RELOGIO_MS

VARIABLES
  agora,        \* real time
  claim,        \* pedidos/{id}/compraEtiqueta/current, or Nenhum
  pedido,       \* anchor and state of freteInicial; Nenhum once deleted
  ordens,       \* Melhor Envio's order of each label
  requisicoes,  \* each run and its locals
  chamadas,     \* paid requests on their way to or at Melhor Envio
  avisos,       \* each webhook task and its locals
  soltas,       \* ghost: labels detached while their payment was authorised
  trocas,       \* ghost: writes of the freight by an operator
  alheio        \* ghost: the present state was written neither by the purchase
                \* nor by a webhook

vars == <<agora, claim, pedido, ordens, requisicoes, chamadas, avisos, soltas, trocas,
          alheio>>

Claim == [dono: Requisicoes, leaseExpiraEmMs: Nat]
Pedido == [ancora: Etiquetas \cup {Nenhum}, estado: EstadoFrete]
ASSUME NuloAssumption ==
  Nenhum \notin Claim /\ Nenhum \notin Pedido /\ Nenhum \notin EstadoFrete

Ordem == [existe: BOOLEAN, pago: BOOLEAN, gerado: BOOLEAN, status: StatusMe]
Etapas == {"checkout", "generate"}

(* pago and gerado are what a run knows of its order, inicio its arrival   *)
(* on its own clock, expira the end of its claim, limite the real time at  *)
(* which its deadlines cut the paid call it is in, congelada that its CPU  *)
(* was taken from it, and its timers with it.                              *)
Requisicao ==
  [fase: {"fora", "chegou", "carrinho", "ancorar", "cercar", "pagar", "esperar",
          "imprimir", "finalizar", "liberar", "sucesso", "fim"},
   inicio: Nat, etiqueta: Etiquetas \cup {Nenhum}, pago: BOOLEAN, gerado: BOOLEAN,
   expira: Nat, limite: Nat, resposta: {"nenhuma", "aceita", "recusada"},
   status: StatusMe, congelada: BOOLEAN]

(* A run with no locals: before it started, or done.                       *)
Parada(fase) ==
  [fase |-> fase, inicio |-> 0, etiqueta |-> Nenhum, pago |-> FALSE,
   gerado |-> FALSE, expira |-> 0, limite |-> 0, resposta |-> "nenhuma",
   status |-> "pending", congelada |-> FALSE]

(* A paid request that left and that Melhor Envio has not settled.         *)
Chamada == [dono: Requisicoes, etapa: Etapas, etiqueta: Etiquetas, expira: Nat]

Aviso ==
  [fase: {"fora", "lido", "consultado"}, etiqueta: Etiquetas \cup {Nenhum},
   terminal: BOOLEAN, intacto: BOOLEAN, status: StatusMe]

AvisoParado ==
  [fase |-> "fora", etiqueta |-> Nenhum, terminal |-> FALSE, intacto |-> FALSE,
   status |-> "pending"]

TypeOK ==
  /\ agora \in 0..MaxAgora
  /\ claim \in Claim \cup {Nenhum}
  /\ pedido \in Pedido \cup {Nenhum}
  /\ ordens \in [Etiquetas -> Ordem]
  /\ requisicoes \in [Requisicoes -> Requisicao]
  /\ chamadas \subseteq Chamada
  /\ avisos \in [Avisos -> Aviso]
  /\ soltas \subseteq Etiquetas
  /\ trocas \in 0..MaxTrocas
  /\ alheio \in BOOLEAN

-----------------------------------------------------------------------------
(* The clock and Melhor Envio *)

(* The runs that passed a fence and are not done waiting for their call.   *)
EmChamadaPaga(r) == requisicoes[r].fase \in {"pagar", "esperar"}

(* A run's deadlines end its paid call in time, unless its CPU is frozen.  *)
Tique ==
  /\ agora < MaxAgora
  /\ \A r \in Requisicoes :
       EmChamadaPaga(r) /\ ~requisicoes[r].congelada => agora < requisicoes[r].limite
  /\ agora' = agora + 1
  /\ UNCHANGED <<claim, pedido, ordens, requisicoes, chamadas, avisos, soltas, trocas, alheio>>

HoraDe(r) == agora + Relogio[r]

(* The paid step a run has before it.                                      *)
Etapa(r) == IF requisicoes[r].pago THEN "generate" ELSE "checkout"

(* Melhor Envio settles a request whenever it gets to it; an order already *)
(* paid (generated), or no longer open, is refused.                        *)
Aceita(c) ==
  LET o == ordens[c.etiqueta]
  IN IF c.etapa = "checkout" THEN ~o.pago /\ o.status = "pending"
     ELSE ~o.gerado /\ o.status = "released"

ProvedorAtende(c) ==
  /\ c \in chamadas
  /\ chamadas' = chamadas \ {c}
  /\ ordens' = IF ~Aceita(c) THEN ordens
               ELSE IF c.etapa = "checkout"
               THEN [ordens EXCEPT ![c.etiqueta].pago = TRUE,
                                   ![c.etiqueta].status = "released"]
               ELSE [ordens EXCEPT ![c.etiqueta].gerado = TRUE]
  /\ requisicoes' =
       IF requisicoes[c.dono].fase # "esperar" THEN requisicoes
       ELSE [requisicoes EXCEPT
               ![c.dono].resposta = IF Aceita(c) THEN "aceita" ELSE "recusada"]
  /\ UNCHANGED <<agora, claim, pedido, avisos, soltas, trocas, alheio>>

(* The shipment moves: posted (once generated) and delivered, or stopped.  *)
ProvedorMuda(e) ==
  \E s \in StatusMe :
    /\ ordens[e].existe
    /\ <<ordens[e].status, s>> \in Viagens
    /\ s = "posted" => ordens[e].gerado
    /\ ordens' = [ordens EXCEPT ![e].status = s]
    /\ UNCHANGED <<agora, claim, pedido, requisicoes, chamadas, avisos, soltas, trocas, alheio>>

-----------------------------------------------------------------------------
(* compraEtiqueta.ts: the claim, the anchor, the fence *)

(* The stored claim as the clock hora reads it: one that expires too far   *)
(* ahead is no claim.                                                      *)
leaseDe(hora) ==
  IF claim # Nenhum /\ claim.leaseExpiraEmMs > hora + COMPRA_ETIQUETA_LEASE_MS + FOLGA_RELOGIO_MS
    THEN Nenhum ELSE claim

(* Another request holds a live claim; the instant of expiry is takeable.  *)
Ocupado(r) ==
  LET lease == leaseDe(HoraDe(r))
  IN lease # Nenhum /\ lease.dono # r /\ HoraDe(r) < lease.leaseExpiraEmMs

Possui(r) == LET lease == leaseDe(HoraDe(r)) IN lease # Nenhum /\ lease.dono = r

ancoraDe(doc) == IF doc = Nenhum THEN Nenhum ELSE doc.ancora

SemClaimDe(r) == IF claim # Nenhum /\ claim.dono = r THEN Nenhum ELSE claim

Vai(r, fase) == requisicoes' = [requisicoes EXCEPT ![r].fase = fase]
Acaba(r, fase) == requisicoes' = [requisicoes EXCEPT ![r] = Parada(fase)]

(* A write of the pedido moves its updateTime under the webhook tasks that *)
(* read it; one that changes nothing may leave it.                         *)
GravarPedido(doc) ==
  /\ pedido' = doc
  /\ avisos' = [a \in Avisos |->
       IF doc # pedido THEN [avisos[a] EXCEPT !.intacto = FALSE] ELSE avisos[a]]

(* Who wrote the state the pedido is left in.                              *)
GravaPelaEtiqueta == alheio' = (alheio /\ pedido' = pedido)
GravaPorFora == alheio' = (alheio \/ pedido' # pedido)

Chegar(r) ==
  /\ requisicoes[r].fase = "fora"
  /\ requisicoes' = [requisicoes EXCEPT ![r].fase = "chegou", ![r].inicio = HoraDe(r)]
  /\ UNCHANGED <<agora, claim, pedido, ordens, chamadas, avisos, soltas, trocas, alheio>>

(* The transaction reads claim and pedido together: it takes the claim and *)
(* the anchor to resume on, or answers that it is taken or has no pedido.  *)
adquirirCompraEtiqueta(r) ==
  LET livre == pedido # Nenhum /\ ~Ocupado(r)
      expira == HoraDe(r) + COMPRA_ETIQUETA_LEASE_MS
  IN /\ requisicoes[r].fase = "chegou"
     /\ claim' = IF livre THEN [dono |-> r, leaseExpiraEmMs |-> expira] ELSE claim
     /\ requisicoes' = [requisicoes EXCEPT
          ![r] = IF livre THEN [@ EXCEPT !.fase = "carrinho", !.etiqueta = pedido.ancora,
                                         !.expira = expira]
                 ELSE Parada("fim")]
     /\ UNCHANGED <<agora, pedido, ordens, chamadas, avisos, soltas, trocas, alheio>>

(* What is left to do on an order: pay, generate, or only print.           *)
FaseSeguinte(pago, gerado) == IF pago /\ gerado THEN "imprimir" ELSE "cercar"

(* Resuming: the order says what it already passed; a canceled or          *)
(* suspended one ends the run.                                             *)
BuscarExistente(r) ==
  LET o == ordens[requisicoes[r].etiqueta]
  IN /\ requisicoes[r].fase = "carrinho"
     /\ requisicoes[r].etiqueta # Nenhum
     /\ requisicoes' = [requisicoes EXCEPT
          ![r] = IF o.status \in {"canceled", "suspended"} THEN Parada("liberar")
                 ELSE [@ EXCEPT !.fase = FaseSeguinte(o.pago, o.gerado),
                                !.pago = o.pago, !.gerado = o.gerado]]
     /\ UNCHANGED <<agora, claim, pedido, ordens, chamadas, avisos, soltas, trocas, alheio>>

AddToCart(r, e) ==
  /\ requisicoes[r].fase = "carrinho"
  /\ requisicoes[r].etiqueta = Nenhum
  /\ ~ordens[e].existe
  /\ ordens' = [ordens EXCEPT ![e].existe = TRUE]
  /\ requisicoes' = [requisicoes EXCEPT ![r].fase = "ancorar", ![r].etiqueta = e]
  /\ UNCHANGED <<agora, claim, pedido, chamadas, avisos, soltas, trocas, alheio>>

(* Faults: the states of the shipment before are kept; the null that means *)
(* "no reset" is written.                                                  *)
FalhaEstadoFica(estado) == estado
FalhaGravaNulo(estado) ==
  CASE estado = "cancelado" -> "iniciado"
    [] estado \in {"postado", "entregue", "suspenso", "falhaNaEntrega"} -> "aguardandoPostagem"
    [] OTHER -> Nenhum

(* A new anchor resets the states of the shipment before it.               *)
estadoAoAncorarNovaEtiqueta(estado) ==
  CASE estado = "cancelado" -> "iniciado"
    [] estado \in {"postado", "entregue", "suspenso", "falhaNaEntrega"} -> "aguardandoPostagem"
    [] OTHER -> estado

(* Fault: the last writer wins, as before the claim.                       *)
FalhaUltimoVence(r) == pedido # Nenhum

(* The compare-and-set: the claim still ours, the anchor still null (or    *)
(* already this label).                                                    *)
PodeAncorar(r) ==
  /\ Possui(r)
  /\ pedido # Nenhum
  /\ pedido.ancora \in {Nenhum, requisicoes[r].etiqueta}

ancorarEtiqueta(r) ==
  LET e == requisicoes[r].etiqueta
  IN /\ requisicoes[r].fase = "ancorar"
     /\ GravarPedido(IF ~PodeAncorar(r) \/ pedido.ancora = e THEN pedido
                     ELSE [ancora |-> e, estado |-> estadoAoAncorarNovaEtiqueta(pedido.estado)])
     /\ GravaPelaEtiqueta
     /\ IF PodeAncorar(r) THEN Vai(r, "cercar") ELSE Acaba(r, "liberar")
     /\ UNCHANGED <<agora, claim, ordens, chamadas, soltas, trocas>>

(* Fault: the anchor is not looked at again.                               *)
FalhaSemAncora(r) ==
  HoraDe(r) < requisicoes[r].inicio + COMPRA_ETIQUETA_JANELA_PAGA_MS /\ Possui(r)

(* The fence before a paid step.                                           *)
PodePagar(r) ==
  /\ HoraDe(r) < requisicoes[r].inicio + COMPRA_ETIQUETA_JANELA_PAGA_MS
  /\ Possui(r)
  /\ Etapa(r) = "checkout" => ancoraDe(pedido) = requisicoes[r].etiqueta

garantirPosseCompraEtiqueta(r) ==
  /\ requisicoes[r].fase = "cercar"
  /\ requisicoes' = [requisicoes EXCEPT
       ![r] = IF PodePagar(r)
                THEN [@ EXCEPT !.fase = "pagar", !.limite = agora + PRAZO_PAGO]
              ELSE Parada("liberar")]
  /\ UNCHANGED <<agora, claim, pedido, ordens, chamadas, avisos, soltas, trocas, alheio>>

(* The token is fetched and the request leaves.                            *)
EnviarPago(r) ==
  /\ requisicoes[r].fase = "pagar"
  /\ Vai(r, "esperar")
  /\ chamadas' = chamadas \cup
       {[dono |-> r, etapa |-> Etapa(r), etiqueta |-> requisicoes[r].etiqueta,
         expira |-> requisicoes[r].expira]}
  /\ UNCHANGED <<agora, claim, pedido, ordens, avisos, soltas, trocas, alheio>>

(* Melhor Envio's answer arrives: the run goes on, or fails for sure.      *)
ReceberResposta(r) ==
  LET q == requisicoes[r]
      gerou == q.gerado \/ Etapa(r) = "generate"
  IN /\ q.fase = "esperar" /\ q.resposta # "nenhuma"
     /\ requisicoes' = [requisicoes EXCEPT
          ![r] = IF q.resposta = "recusada" THEN Parada("liberar")
                 ELSE [q EXCEPT !.fase = FaseSeguinte(TRUE, gerou), !.pago = TRUE,
                                !.gerado = gerou, !.resposta = "nenhuma", !.limite = 0,
                                !.congelada = FALSE]]
     /\ UNCHANGED <<agora, claim, pedido, ordens, chamadas, avisos, soltas, trocas, alheio>>

(* Fault: the claim is released as on any other failure.                   *)
FalhaLiberaIncerto == "liberar"

(* The paid call times out or its connection drops: nobody knows whether   *)
(* it was settled, and the claim is kept until it expires.                 *)
DesfechoIncerto == "fim"

EstourarPrazo(r) ==
  /\ requisicoes[r].fase = "esperar"
  /\ Acaba(r, DesfechoIncerto)
  /\ UNCHANGED <<agora, claim, pedido, ordens, chamadas, avisos, soltas, trocas, alheio>>

(* Print, and the last getOrder.                                           *)
Imprimir(r) ==
  /\ requisicoes[r].fase = "imprimir"
  /\ requisicoes' = [requisicoes EXCEPT
       ![r].fase = "finalizar", ![r].status = ordens[requisicoes[r].etiqueta].status]
  /\ UNCHANGED <<agora, claim, pedido, ordens, chamadas, avisos, soltas, trocas, alheio>>

meStatusToEstadoFrete(status) ==
  CASE status = "delivered" -> "entregue"
    [] status = "posted" -> "postado"
    [] status = "canceled" -> "cancelado"
    [] status = "suspended" -> "suspenso"
    [] status = "undelivered" -> "falhaNaEntrega"
    [] OTHER -> Nenhum

ehEstadoFreteTerminal(estado) == estado \in {"entregue", "cancelado"}

(* Fault: the status fetched before wins over a webhook that came since.   *)
FalhaStatusVence(estado, status) ==
  IF meStatusToEstadoFrete(status) = Nenhum THEN "aguardandoPostagem"
  ELSE meStatusToEstadoFrete(status)

resolverEstadoFinalCompraEtiqueta(estado, status) ==
  LET mapeado == meStatusToEstadoFrete(status)
      candidato == IF mapeado = Nenhum THEN "aguardandoPostagem" ELSE mapeado
  IN IF \/ ehEstadoFreteTerminal(estado)
        \/ estado = "postado" /\ candidato = "aguardandoPostagem"
       THEN estado ELSE candidato

(* Fault: whatever the pedido points at is finalized.                      *)
FalhaQualquerAncora(r) == pedido # Nenhum

Vinculada(r) == pedido # Nenhum /\ pedido.ancora = requisicoes[r].etiqueta

finalizarCompraEtiqueta(r) ==
  /\ requisicoes[r].fase = "finalizar"
  /\ GravarPedido(IF ~Vinculada(r) THEN pedido
                  ELSE [pedido EXCEPT !.estado =
                          resolverEstadoFinalCompraEtiqueta(@, requisicoes[r].status)])
  /\ GravaPelaEtiqueta
  /\ claim' = SemClaimDe(r)
  /\ Acaba(r, IF Vinculada(r) THEN "sucesso" ELSE "fim")
  /\ UNCHANGED <<agora, ordens, chamadas, soltas, trocas>>

(* The finally of the route: the release, which may fail without masking.  *)
liberarCompraEtiqueta(r) ==
  /\ requisicoes[r].fase = "liberar"
  /\ claim' \in {SemClaimDe(r), claim}
  /\ Acaba(r, "fim")
  /\ UNCHANGED <<agora, pedido, ordens, chamadas, avisos, soltas, trocas, alheio>>

(* Any other call fails: the context, the cart, the token before the       *)
(* request leaves, a read, a transaction.                                  *)
Falhar(r) ==
  /\ requisicoes[r].fase \in
       {"carrinho", "ancorar", "cercar", "pagar", "imprimir", "finalizar"}
  /\ Acaba(r, "liberar")
  /\ UNCHANGED <<agora, claim, pedido, ordens, chamadas, avisos, soltas, trocas, alheio>>

(* The platform answered its 504 and takes the CPU away; the run goes on   *)
(* whenever it gets it back.                                               *)
Congelar(r) ==
  /\ EmChamadaPaga(r)
  /\ ~requisicoes[r].congelada
  /\ requisicoes' = [requisicoes EXCEPT ![r].congelada = TRUE]
  /\ UNCHANGED <<agora, claim, pedido, ordens, chamadas, avisos, soltas, trocas, alheio>>

(* The instance dies.                                                      *)
Morrer(r) ==
  /\ requisicoes[r].fase \notin {"fora", "sucesso", "fim"}
  /\ Acaba(r, "fim")
  /\ UNCHANGED <<agora, claim, pedido, ordens, chamadas, avisos, soltas, trocas, alheio>>
-----------------------------------------------------------------------------
(* notificacao.ts: the webhook task, and the operator *)

(* The task finds the pedido by its label and keeps what it read.          *)
AvisoLer(a) ==
  /\ avisos[a].fase = "fora"
  /\ ancoraDe(pedido) # Nenhum
  /\ meStatusToEstadoFrete(ordens[pedido.ancora].status) # Nenhum
  /\ avisos' = [avisos EXCEPT
       ![a] = [@ EXCEPT !.fase = "lido", !.etiqueta = pedido.ancora, !.intacto = TRUE,
                        !.terminal = ehEstadoFreteTerminal(pedido.estado)]]
  /\ UNCHANGED <<agora, claim, pedido, ordens, requisicoes, chamadas, soltas, trocas, alheio>>

(* It asks Melhor Envio for the label's present status.                    *)
AvisoConsultar(a) ==
  /\ avisos[a].fase = "lido"
  /\ avisos' = [avisos EXCEPT
       ![a].fase = "consultado", ![a].status = ordens[avisos[a].etiqueta].status]
  /\ UNCHANGED <<agora, claim, pedido, ordens, requisicoes, chamadas, soltas, trocas, alheio>>

(* The update carries the updateTime of the read as its precondition.      *)
Precondicao(a) == avisos[a].intacto

(* The task writes the state, unless the one it read is terminal; or it    *)
(* throws (a status it cannot act on, the precondition) and is retried.    *)
AvisoGravar(a) ==
  LET estado == meStatusToEstadoFrete(avisos[a].status)
  IN /\ avisos[a].fase = "consultado"
     /\ pedido' = IF Precondicao(a) /\ estado # Nenhum /\ ~avisos[a].terminal
                    THEN [pedido EXCEPT !.estado = estado] ELSE pedido
     /\ avisos' = [b \in Avisos |->
          IF b = a THEN AvisoParado
          ELSE [avisos[b] EXCEPT !.intacto = @ /\ pedido' = pedido]]
     /\ GravaPelaEtiqueta
     /\ UNCHANGED <<agora, claim, ordens, requisicoes, chamadas, soltas, trocas>>

(* The labels whose payment was made, or may still be.                     *)
Autorizada(e) ==
  \/ ordens[e].pago
  \/ \E c \in chamadas : c.etapa = "checkout" /\ c.etiqueta = e
  \/ \E r \in Requisicoes :
       EmChamadaPaga(r) /\ Etapa(r) = "checkout" /\ requisicoes[r].etiqueta = e

(* Only an operator detaches a label: by choosing another integração in    *)
(* the freight tab (whose save fails if the freight changed since it was   *)
(* loaded), or by deleting the pedido.                                     *)
Soltar(doc) ==
  /\ ancoraDe(pedido) # Nenhum
  /\ trocas < MaxTrocas
  /\ trocas' = trocas + 1
  /\ GravarPedido(doc)
  /\ GravaPorFora
  /\ soltas' = soltas \cup {e \in {pedido.ancora} : Autorizada(e)}
  /\ UNCHANGED <<agora, claim, ordens, requisicoes, chamadas>>

(* The tab sets the state to iniciado; the operator may choose another     *)
(* before the same save.                                                   *)
OnIntegracaoChange(estado) == Soltar([ancora |-> Nenhum, estado |-> estado])

ExcluirPedido == Soltar(Nenhum)

(* A write of the state by someone else, which keeps the anchor.           *)
GravarEstado(estado) ==
  /\ pedido # Nenhum
  /\ trocas < MaxTrocas
  /\ trocas' = trocas + 1
  /\ GravarPedido([pedido EXCEPT !.estado = estado])
  /\ GravaPorFora
  /\ UNCHANGED <<agora, claim, ordens, requisicoes, chamadas, soltas>>

(* The freight tab's "Status do frete" and the save of the pedido.         *)
SelecionarEstado(estado) == GravarEstado(estado)

(* The seller confirms the delivery, whatever the label's own status.      *)
confirmarEntregaPedido == GravarEstado("entregue")

MercadoriaFora == {"postado", "entregue", "suspenso", "falhaNaEntrega"}

(* The checkout, which leaves the state of goods already out.              *)
salvarCheckoutTransacao ==
  /\ pedido # Nenhum /\ pedido.estado \notin MercadoriaFora
  /\ GravarEstado("checkFinalizado")

-----------------------------------------------------------------------------
Init ==
  /\ agora = 0
  /\ claim = Nenhum
  /\ pedido \in [ancora : {Nenhum}, estado : EstadosIniciais]
  /\ ordens = [e \in Etiquetas |->
       [existe |-> FALSE, pago |-> FALSE, gerado |-> FALSE, status |-> "pending"]]
  /\ requisicoes = [r \in Requisicoes |-> Parada("fora")]
  /\ chamadas = {}
  /\ avisos = [a \in Avisos |-> AvisoParado]
  /\ soltas = {}
  /\ trocas = 0
  /\ alheio = FALSE

Requisitar(r) ==
  \/ Chegar(r)
  \/ adquirirCompraEtiqueta(r)
  \/ BuscarExistente(r)
  \/ \E e \in Etiquetas : AddToCart(r, e)
  \/ ancorarEtiqueta(r)
  \/ garantirPosseCompraEtiqueta(r)
  \/ EnviarPago(r)
  \/ ReceberResposta(r)
  \/ EstourarPrazo(r)
  \/ Imprimir(r)
  \/ finalizarCompraEtiqueta(r)
  \/ liberarCompraEtiqueta(r)
  \/ Falhar(r)
  \/ Congelar(r)
  \/ Morrer(r)

Avisar(a) == AvisoLer(a) \/ AvisoConsultar(a) \/ AvisoGravar(a)

Next ==
  \/ Tique
  \/ \E r \in Requisicoes : Requisitar(r)
  \/ \E c \in chamadas : ProvedorAtende(c)
  \/ \E e \in Etiquetas : ProvedorMuda(e)
  \/ \E a \in Avisos : Avisar(a)
  \/ \E estado \in EstadosEscolhidos : OnIntegracaoChange(estado) \/ SelecionarEstado(estado)
  \/ ExcluirPedido
  \/ confirmarEntregaPedido
  \/ salvarCheckoutTransacao

Spec == Init /\ [][Next]_vars

-----------------------------------------------------------------------------
(* Properties *)

(* "Pays for one label": of the labels paid for, or being paid for, all    *)
(* but one were detached by an operator after their payment was            *)
(* authorised; no overlap, takeover, death or frozen run buys a second.    *)
UmaEtiquetaPaga ==
  \A e, f \in Etiquetas \ soltas : Autorizada(e) /\ Autorizada(f) => e = f

(* Guarantees 1 and 4: a run inside a paid call whose deadlines hold has   *)
(* the claim, so two never are, whatever their clocks say.                 *)
PosseDuranteChamada ==
  \A r \in Requisicoes : EmChamadaPaga(r) /\ ~requisicoes[r].congelada =>
    claim # Nenhum /\ claim.dono = r

(* A payment whose outcome is unknown keeps the claim until it expires on  *)
(* every clock: nobody buys over a payment Melhor Envio may still settle.  *)
PendenteGuardada ==
  \A c \in chamadas :
    (\A s \in Requisicoes : HoraDe(s) < c.expira) => claim # Nenhum /\ claim.dono = c.dono

(* A posted or terminal state of an anchored pedido that the purchase or a *)
(* webhook wrote belongs to the anchored label, not to the shipment before *)
(* it.  The code says it of "any posted or terminal state seen here"; a    *)
(* state an operator chose or confirmed is what that person says.          *)
EstadoDaEtiqueta ==
  ancoraDe(pedido) # Nenhum /\ ~alheio =>
    LET s == ordens[pedido.ancora].status
    IN /\ pedido.estado = "postado" => s \in {"posted", "delivered", "undelivered"}
       /\ pedido.estado = "entregue" => s = "delivered"
       /\ pedido.estado = "cancelado" => s = "canceled"

(* While the label stays, neither the purchase nor a webhook takes a       *)
(* terminal state back, whoever wrote it, or sets a posted parcel to wait  *)
(* for posting again: the purchase that ends after the webhook does not    *)
(* undo it, nor one webhook another.  The steps left out are an operator's *)
(* own writes and those that leave the state an operator wrote.            *)
EstadoNaoRegride ==
  [][ancoraDe(pedido) # Nenhum /\ ancoraDe(pedido') = ancoraDe(pedido) /\ ~alheio' =>
       /\ ehEstadoFreteTerminal(pedido.estado) => pedido'.estado = pedido.estado
       /\ pedido.estado = "postado" => pedido'.estado # "aguardandoPostagem"]_vars

(* Guarantee 5: a purchase answered as done left the pedido on a label     *)
(* that is paid and generated.                                             *)
SucessoVerdadeiro ==
  [][\A r \in Requisicoes :
       requisicoes'[r].fase = "sucesso" /\ requisicoes[r].fase # "sucesso" =>
         LET e == requisicoes[r].etiqueta
         IN ancoraDe(pedido') = e /\ ordens[e].pago /\ ordens[e].gerado]_vars

(* The purchase, whatever it does about claims and clocks, is CompraUnica. *)
Unica == INSTANCE CompraUnica WITH
  ancora <- ancoraDe(pedido),
  autorizadas <- {e \in Etiquetas : Autorizada(e)},
  pagas <- {e \in Etiquetas : ordens[e].pago}

ImplementaCompraUnica == Unica!Spec

=============================================================================
