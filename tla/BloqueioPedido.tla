--------------------------- MODULE BloqueioPedido ---------------------------
(***************************************************************************)
(* One pedido under marketplace claims.  The marketplace changes a claim   *)
(* and notifies; an import fetches the claim and writes its incidente some *)
(* network calls later; a trigger on the incidentes folds them into the    *)
(* pedido's markers; a manager releases blocks and operators edit or       *)
(* delete incidentes; the checkout and the delivery confirmation read the  *)
(* markers before they let the goods or the money go.                      *)
(***************************************************************************)
EXTENDS IncidenteClaim, Sequences, FiniteSets

CONSTANTS
  Operadores,        \* who may be at the checkout screen
  Liberacoes,        \* the sets of actions a manager may release
  MaxVersoes,        \* bound: states a claim goes through, of each claim
  MaxEventos,        \* bound: trigger events in flight
  MovimentosDeFrete, \* <<from, to>>: carriers' and importers' frete updates
  MovimentosDeEstado,\* <<from, to>>: the other writers of the estado
  MaxCheckouts,      \* bound: checkouts of the pedido
  Legados,           \* claims an older program may have imported
  PodeEmpatar,       \* whether a claim may change without moving its clock
  RelogioIlegivel,   \* whether a claim's clock may be unreadable
  PodeFalhar,        \* whether an import or a trigger event may be lost
  PodeExcluir        \* whether an incidente or the pedido may be deleted

EstadosPedido == {"emProcessamento", "pago", "finalizado"}
ALLOWED_FRETE_ESTADOS == {"despachoAutorizado"}
ESTADOS_FRETE_MERCADORIA_FORA == {"aguardandoRetirada", "postado", "entregue"}
EstadosFrete ==
  ALLOWED_FRETE_ESTADOS \cup {"checkFinalizado"} \cup ESTADOS_FRETE_MERCADORIA_FORA
ESTADOS_CONFIRMAVEIS == {"emProcessamento", "pago"}

ASSUME BloqueioAssumption ==
  /\ Liberacoes \subseteq SUBSET AcaoBloqueada
  /\ MaxVersoes \in [Claims -> Nat \ {0}]
  /\ MaxEventos \in Nat /\ MaxCheckouts \in Nat
  /\ MovimentosDeFrete \subseteq EstadosFrete \X EstadosFrete
  /\ MovimentosDeEstado \subseteq EstadosPedido \X EstadosPedido
  /\ Legados \subseteq Claims
  /\ PodeEmpatar \in BOOLEAN /\ RelogioIlegivel \in BOOLEAN
  /\ PodeFalhar \in BOOLEAN /\ PodeExcluir \in BOOLEAN
  /\ Nenhum \notin EstadosFrete

VARIABLES
  claims,      \* of each claim, the sequence of its states at the marketplace
  importacoes, \* of each claim, the import each notification caused
  incidentes,  \* pedidos/{id}/incidentes/{id}, or Nenhum
  eventos,     \* relevant incidente events not yet handled
  perdido,     \* an event was lost and none was handled since
  excluidos,   \* claims whose incidente was deleted
  pedido,      \* the pedido's estado, frete estado and markers, or Nenhum
  checkouts,   \* number of checkout documents of the pedido
  sessoes      \* of each operator, where its checkout stands

vars == <<claims, importacoes, incidentes, eventos, perdido, excluidos, pedido,
          checkouts, sessoes>>

Versoes(c) == 1 .. MaxVersoes[c]

(* An import is not notified, waiting for a worker, holding the version it *)
(* fetched, or done.                                                       *)
Importacao(c) ==
  [fase: {"nada", "pendente", "feita"}] \cup [fase: {"buscou"}, versao: Versoes(c)]

PedidoDoc == [estado: EstadosPedido, frete: EstadosFrete, marcadores: Marcadores]

Sessao ==
  [fase: {"fora", "retirada"}]
    \cup [fase: {"avaliado"}, estadoContinuar: EstadosFrete \cup {Nenhum}]

Fora == [fase |-> "fora"]

TypeOK ==
  /\ claims \in [Claims -> Seq(Claim)]
  /\ \A c \in Claims : Len(claims[c]) <= MaxVersoes[c]
  /\ DOMAIN importacoes = Claims
  /\ \A c \in Claims : importacoes[c] \in [Versoes(c) -> Importacao(c)]
  /\ incidentes \in [Incidentes -> Incidente \cup {Nenhum}]
  /\ eventos \in Nat /\ perdido \in BOOLEAN /\ excluidos \subseteq Claims
  /\ pedido \in PedidoDoc \cup {Nenhum}
  /\ checkouts \in Nat
  /\ sessoes \in [Operadores -> Sessao]

(* A row with neither claimStatus nor watermark: a legacy import, or an    *)
(* operator's incidente.                                                   *)
SemClaim == [claimStatus |-> Nenhum, resolucao |-> FALSE, entregue |-> FALSE,
             relogioProvedorUs |-> Nenhum, overrideBloqueio |-> {}]

Aberta == [status |-> "opened", entregue |-> FALSE, relogio |-> 1]

(* The claims of some legacy rows are open when this program takes over.   *)
Init ==
  /\ \E legados \in SUBSET Legados :
       /\ claims = [c \in Claims |-> IF c \in legados THEN <<Aberta>> ELSE <<>>]
       /\ importacoes = [c \in Claims |-> [v \in Versoes(c) |->
            [fase |-> IF c \in legados /\ v = 1 THEN "feita" ELSE "nada"]]]
       /\ incidentes = [i \in Incidentes |-> IF i \in legados THEN SemClaim ELSE Nenhum]
  /\ eventos = 0 /\ perdido = FALSE /\ excluidos = {}
  /\ \E frete \in ALLOWED_FRETE_ESTADOS :
       pedido = [estado |-> "pago", frete |-> frete,
                 marcadores |-> calcularMarcadores(incidentes)]
  /\ checkouts = 0
  /\ sessoes = [o \in Operadores |-> Fora]

-----------------------------------------------------------------------------
(* The marketplace.                                                        *)

(* The clocks the next state of claim c may carry: a later one, the same   *)
(* one when the marketplace does not move it, or an unreadable one.        *)
Relogios(c) == {claims[c][n].relogio : n \in 1 .. Len(claims[c])} \ {Nenhum}

ProximosRelogios(c) ==
  {r \in 1 .. Len(claims[c]) + 1 :
     \A s \in Relogios(c) : s < r \/ (PodeEmpatar /\ s = r)}
    \cup (IF RelogioIlegivel THEN {Nenhum} ELSE {})

(* A new state of claim c: it opens, and then never reopens nor takes back *)
(* its delivery.  The change is notified.                                  *)
ProvedorMuda(c) ==
  /\ Len(claims[c]) < MaxVersoes[c]
  /\ \E status \in StatusClaim, entregue \in BOOLEAN, relogio \in ProximosRelogios(c) :
       /\ IF claims[c] = <<>>
          THEN status = "opened" /\ ~entregue
          ELSE LET atual == claims[c][Len(claims[c])]
               IN /\ atual.status = "closed" => status = "closed"
                  /\ atual.entregue => entregue
       /\ claims' = [claims EXCEPT ![c] = Append(@,
            [status |-> status, entregue |-> entregue, relogio |-> relogio])]
  /\ importacoes' = [importacoes EXCEPT ![c][Len(claims[c]) + 1] = [fase |-> "pendente"]]
  /\ UNCHANGED <<incidentes, eventos, perdido, excluidos, pedido, checkouts, sessoes>>

-----------------------------------------------------------------------------
(* The import of one notification.                                         *)

(* A write of incidente i: the trigger sees it when a field it watches     *)
(* moved.                                                                  *)
Escrever(i, doc) ==
  /\ MudouCampoBloqueio(incidentes[i], doc) => eventos < MaxEventos
  /\ incidentes' = [incidentes EXCEPT ![i] = doc]
  /\ eventos' = IF MudouCampoBloqueio(incidentes[i], doc) THEN eventos + 1 ELSE eventos

BuscarClaim(c, n) ==
  /\ importacoes[c][n].fase = "pendente"
  /\ importacoes' = [importacoes EXCEPT ![c][n] =
                       [fase |-> "buscou", versao |-> Len(claims[c])]]
  /\ UNCHANGED <<claims, incidentes, eventos, perdido, excluidos, pedido, checkouts, sessoes>>

(* Calls for the motivo, the order and the cliente sit between the fetch   *)
(* and this transaction.  The queue may deliver the same task once more.   *)
SalvarIncidenteClaim(c, n) ==
  /\ importacoes[c][n].fase = "buscou"
  /\ Escrever(c, preverIncidenteClaim(incidentes[c], claims[c][importacoes[c][n].versao]))
  /\ importacoes' = [importacoes EXCEPT ![c][n] = [fase |-> "feita"]]
  /\ UNCHANGED <<claims, perdido, excluidos, pedido, checkouts, sessoes>>

(* A worker dies before or after its write: the task is delivered again.   *)
RefazerImportacao(c, n) ==
  /\ PodeFalhar
  /\ importacoes[c][n].fase \in {"buscou", "feita"}
  /\ importacoes' = [importacoes EXCEPT ![c][n] = [fase |-> "pendente"]]
  /\ UNCHANGED <<claims, incidentes, eventos, perdido, excluidos, pedido, checkouts, sessoes>>

-----------------------------------------------------------------------------
(* People at the incidentes.                                               *)

(* The callable writes a new stamp every time, so the trigger always sees  *)
(* it; an empty set of actions revokes.                                    *)
LiberarBloqueioIncidente(i) ==
  /\ incidentes[i] # Nenhum
  /\ eventos < MaxEventos
  /\ \E acoes \in Liberacoes :
       incidentes' = [incidentes EXCEPT ![i].overrideBloqueio = acoes]
  /\ eventos' = eventos + 1
  /\ UNCHANGED <<claims, importacoes, perdido, excluidos, pedido, checkouts, sessoes>>

(* The Incidentes tab records a resolução or takes it back; origem and     *)
(* tipo of an imported row are not the operator's to change.               *)
SaveIncidenteEdit(i) ==
  /\ incidentes[i] # Nenhum
  /\ Escrever(i, [incidentes[i] EXCEPT !.resolucao = ~@])
  /\ UNCHANGED <<claims, importacoes, perdido, excluidos, pedido, checkouts, sessoes>>

(* A hand-written incidente, of an origem that is no marketplace's.        *)
SaveIncidente(i) ==
  /\ i \notin Claims /\ incidentes[i] = Nenhum
  /\ Escrever(i, SemClaim)
  /\ UNCHANGED <<claims, importacoes, perdido, excluidos, pedido, checkouts, sessoes>>

DeleteIncidente(i) ==
  /\ PodeExcluir /\ incidentes[i] # Nenhum
  /\ Escrever(i, Nenhum)
  /\ excluidos' = excluidos \cup ({i} \cap Claims)
  /\ UNCHANGED <<claims, importacoes, perdido, pedido, checkouts, sessoes>>

-----------------------------------------------------------------------------
(* The trigger: the whole decision from its transaction's own reads.       *)

SincronizarMarcadores ==
  IF pedido = Nenhum THEN pedido' = Nenhum /\ perdido' = perdido
  ELSE /\ pedido' = [pedido EXCEPT !.marcadores = calcularMarcadores(incidentes)]
       /\ perdido' = FALSE

OnIncidenteBloqueioSync ==
  /\ eventos > 0
  /\ SincronizarMarcadores
  /\ eventos' = eventos - 1
  /\ UNCHANGED <<claims, importacoes, incidentes, excluidos, checkouts, sessoes>>

(* Delivery is at least once, but the trigger has no retry: a handler that *)
(* throws drops its event.                                                 *)
ReentregarEvento ==
  /\ PodeFalhar
  /\ SincronizarMarcadores
  /\ UNCHANGED <<claims, importacoes, incidentes, eventos, excluidos, checkouts, sessoes>>

PerderEvento ==
  /\ PodeFalhar /\ eventos > 0
  /\ eventos' = eventos - 1 /\ perdido' = TRUE
  /\ UNCHANGED <<claims, importacoes, incidentes, excluidos, pedido, checkouts, sessoes>>

-----------------------------------------------------------------------------
(* The checkout and the delivery confirmation.                             *)

(* The gates, on a fetch that precedes the dialogs and the payment check.  *)
EvaluatePreSave(o) ==
  /\ sessoes[o] = Fora /\ pedido # Nenhum
  /\ checkouts = 0
  /\ pedido.estado = "pago"
  /\ ~bloqueioDespachoAtivo(pedido.marcadores)
  /\ sessoes' = [sessoes EXCEPT ![o] =
       [fase |-> "avaliado",
        estadoContinuar |-> IF pedido.frete \in ALLOWED_FRETE_ESTADOS
                            THEN Nenhum ELSE pedido.frete]]
  /\ UNCHANGED <<claims, importacoes, incidentes, eventos, perdido, excluidos, pedido, checkouts>>

(* Fault: phase 1 trusts the dispute verdict of the gates.                 *)
FalhaConfiaNoPreSave(o) ==
  /\ pedido # Nenhum
  /\ pedido.estado = "pago"
  /\ pedido.frete \in ALLOWED_FRETE_ESTADOS \cup {sessoes[o].estadoContinuar}

(* The gates phase 1 re-checks on its transaction's snapshot.              *)
CheckoutPermitido(o) ==
  /\ pedido # Nenhum
  /\ pedido.estado = "pago"
  /\ ~bloqueioDespachoAtivo(pedido.marcadores)
  /\ pedido.frete \in ALLOWED_FRETE_ESTADOS \cup {sessoes[o].estadoContinuar}

(* Fault: the frete estado the operator confirmed is written back.         *)
FalhaFreteConfirmado(o) == sessoes[o].estadoContinuar

(* Goods already out of the warehouse keep their frete estado.             *)
FreteDoCheckout(o) ==
  IF pedido.frete \in ESTADOS_FRETE_MERCADORIA_FORA
  THEN pedido.frete ELSE "checkFinalizado"

(* Phase 2 follows when the pedido goes out through a pickup and phase 1   *)
(* wrote checkFinalizado.                                                  *)
SalvarCheckout(o) ==
  /\ sessoes[o].fase = "avaliado" /\ checkouts < MaxCheckouts
  /\ CheckoutPermitido(o)
  /\ checkouts' = checkouts + 1
  /\ pedido' = [pedido EXCEPT !.frete = FreteDoCheckout(o)]
  /\ \E retiradaNaLoja \in BOOLEAN :
       sessoes' = [sessoes EXCEPT ![o] =
         IF retiradaNaLoja /\ FreteDoCheckout(o) = "checkFinalizado"
         THEN [fase |-> "retirada"] ELSE Fora]
  /\ UNCHANGED <<claims, importacoes, incidentes, eventos, perdido, excluidos>>

(* Fault: phase 2 trusts the reads made before its transaction.            *)
FalhaRetiradaCega == pedido # Nenhum

avancaParaRetirada == IF pedido = Nenhum THEN FALSE ELSE pedido.frete = "checkFinalizado"

AvancarRetirada(o) ==
  /\ sessoes[o].fase = "retirada"
  /\ IF avancaParaRetirada
     THEN pedido' = [pedido EXCEPT !.frete = "aguardandoRetirada"]
     ELSE pedido' = pedido
  /\ sessoes' = [sessoes EXCEPT ![o] = Fora]
  /\ UNCHANGED <<claims, importacoes, incidentes, eventos, perdido, excluidos, checkouts>>

(* A refused transaction, a declined dialog or a closed browser.           *)
AbandonarCheckout(o) ==
  /\ sessoes[o] # Fora
  /\ sessoes' = [sessoes EXCEPT ![o] = Fora]
  /\ UNCHANGED <<claims, importacoes, incidentes, eventos, perdido, excluidos, pedido, checkouts>>

ConfirmarEntregaPedido ==
  /\ pedido # Nenhum
  /\ pedido.estado \in ESTADOS_CONFIRMAVEIS
  /\ ~bloqueioFinalizarAtivo(pedido.marcadores)
  /\ pedido' = [pedido EXCEPT !.estado = "finalizado", !.frete = "entregue"]
  /\ UNCHANGED <<claims, importacoes, incidentes, eventos, perdido, excluidos, checkouts, sessoes>>

-----------------------------------------------------------------------------
(* The other writers of the pedido.                                        *)

MoverFrete ==
  /\ pedido # Nenhum
  /\ \E frete \in EstadosFrete :
       /\ <<pedido.frete, frete>> \in MovimentosDeFrete
       /\ pedido' = [pedido EXCEPT !.frete = frete]
  /\ UNCHANGED <<claims, importacoes, incidentes, eventos, perdido, excluidos, checkouts, sessoes>>

MudarEstado ==
  /\ pedido # Nenhum
  /\ \E estado \in EstadosPedido :
       /\ <<pedido.estado, estado>> \in MovimentosDeEstado
       /\ pedido' = [pedido EXCEPT !.estado = estado]
  /\ UNCHANGED <<claims, importacoes, incidentes, eventos, perdido, excluidos, checkouts, sessoes>>

ExcluirPedido ==
  /\ PodeExcluir /\ pedido # Nenhum
  /\ pedido' = Nenhum
  /\ UNCHANGED <<claims, importacoes, incidentes, eventos, perdido, excluidos, checkouts, sessoes>>

-----------------------------------------------------------------------------
Next ==
  \/ \E c \in Claims :
       \/ ProvedorMuda(c)
       \/ \E n \in Versoes(c) :
            \/ BuscarClaim(c, n)
            \/ SalvarIncidenteClaim(c, n)
            \/ RefazerImportacao(c, n)
  \/ \E i \in Incidentes :
       \/ LiberarBloqueioIncidente(i)
       \/ SaveIncidenteEdit(i)
       \/ SaveIncidente(i)
       \/ DeleteIncidente(i)
  \/ OnIncidenteBloqueioSync \/ ReentregarEvento \/ PerderEvento
  \/ \E o \in Operadores :
       \/ EvaluatePreSave(o)
       \/ SalvarCheckout(o)
       \/ AvancarRetirada(o)
       \/ AbandonarCheckout(o)
  \/ ConfirmarEntregaPedido \/ MoverFrete \/ MudarEstado \/ ExcluirPedido

Spec == Init /\ [][Next]_vars

-----------------------------------------------------------------------------
(* Properties.                                                             *)

(* The markers of the pedido are the fold of its incidentes whenever no    *)
(* relevant event is waiting and none was lost since the last one handled: *)
(* no write of an incidente, whoever makes it, passes the fast path        *)
(* (sincronizarBloqueioIncidente.ts:168) and leaves a stale marker behind. *)
MarcadoresRefletem ==
  eventos = 0 /\ ~perdido /\ pedido # Nenhum =>
    pedido.marcadores = calcularMarcadores(incidentes)

Estampada(inc) == IF inc = Nenhum THEN FALSE ELSE inc.relogioProvedorUs # Nenhum

(* The watermark of an incidente tells which state of the claim it holds:  *)
(* its status and its delivery are those of a state the marketplace        *)
(* reported with that clock, whatever order the snapshots landed in        *)
(* (claimIncidenteTx.ts:29).                                               *)
FielAoProvedor ==
  \A c \in Claims :
    Estampada(incidentes[c]) =>
      \E n \in 1 .. Len(claims[c]) :
        /\ claims[c][n].relogio = incidentes[c].relogioProvedorUs
        /\ claims[c][n].status = incidentes[c].claimStatus
        /\ claims[c][n].entregue = incidentes[c].entregue

SemEmpate(c) ==
  \A n, m \in 1 .. Len(claims[c]) :
    claims[c][n].relogio # Nenhum /\ claims[c][n].relogio = claims[c][m].relogio => n = m

(* A stamped incidente the marketplace closed never reopens, except by two *)
(* states of the claim that share one clock, the residual the code accepts *)
(* (claimIncidenteTx.ts:35).                                               *)
SemReabertura ==
  [][\A c \in Claims :
       IF Estampada(incidentes[c]) /\ incidentes'[c] # Nenhum /\ SemEmpate(c)
       THEN incidentes[c].claimStatus = "closed" => incidentes'[c].claimStatus = "closed"
       ELSE TRUE]_vars

(* Claim c is settled: every notification is imported, the last state has  *)
(* a clock of its own, and nobody deleted the incidente.                   *)
Assentada(c) ==
  /\ \A n \in 1 .. Len(claims[c]) : importacoes[c][n].fase = "feita"
  /\ c \notin excluidos /\ SemEmpate(c)
  /\ claims[c] = <<>> \/ /\ claims[c][Len(claims[c])].relogio # Nenhum
                         /\ Estampada(incidentes[c])

(* End to end: once every claim is settled and no event is outstanding,    *)
(* the pedido is held for a dispute exactly when the marketplace has an    *)
(* open claim on undelivered goods, and for a return exactly when it has   *)
(* an open one on returned or delivered goods.  No operator's incidente    *)
(* and no order of imports and events changes that.                        *)
BloqueioSegueProvedor ==
  (/\ pedido # Nenhum /\ eventos = 0 /\ ~perdido
   /\ \A c \in Claims : Assentada(c)) =>
    LET AbertaNoProvedor(c) ==
          /\ claims[c] # <<>> /\ claims[c][Len(claims[c])].status = "opened"
          /\ Tipo[c] # "o"
        Devolvida(c) == Tipo[c] = "returns" \/ claims[c][Len(claims[c])].entregue
    IN /\ (pedido.marcadores.disputaAbertaEm # Nenhum)
            <=> (\E c \in Claims : AbertaNoProvedor(c) /\ ~Devolvida(c))
       /\ (pedido.marcadores.devolucaoAbertaEm # Nenhum)
            <=> (\E c \in Claims : AbertaNoProvedor(c) /\ Devolvida(c))

(* An open dispute the stored incidentes hold, with no release of acao.    *)
DisputaSemLiberacao(acao) ==
  /\ \E c \in Claims : /\ incidentes[c] # Nenhum
                        /\ incidentes[c].claimStatus = "opened"
                        /\ Tipo[c] \in {"mediations", "cancel_purchase", "cancel_sale"}
                        /\ ~incidentes[c].entregue
  /\ \A c \in Claims : incidentes[c] # Nenhum => acao \notin incidentes[c].overrideBloqueio

Finalizado == IF pedido = Nenhum THEN FALSE ELSE pedido.estado = "finalizado"

(* Goods are never checked out of, nor a sale finalized on, a pedido whose *)
(* incidentes hold an unreleased open dispute, unless the trigger still    *)
(* owes the pedido that news: not even when the dispute opens between the  *)
(* operator's gates and the commit (saveCheckout.ts:392, usecases.ts:926). *)
(* The other writers of the estado are not held by the overlay.            *)
NadaSaiEmDisputa ==
  [][/\ checkouts' > checkouts =>
          eventos > 0 \/ perdido \/ ~DisputaSemLiberacao("despacho")
     /\ ~Finalizado /\ Finalizado' =>
          \/ eventos > 0 \/ perdido \/ ~DisputaSemLiberacao("finalizar")
          \/ <<pedido.estado, pedido'.estado>> \in MovimentosDeEstado]_vars

(* Goods that left the warehouse never read as still on the shelf: neither *)
(* phase of a checkout drags the frete back over a carrier's update        *)
(* (saveCheckout.ts:335, 441).                                             *)
MercadoriaForaNaoVolta ==
  [][pedido # Nenhum /\ pedido' # Nenhum =>
       (pedido.frete \in {"postado", "entregue"} =>
          \/ pedido'.frete \in {"postado", "entregue"}
          \/ <<pedido.frete, pedido'.frete>> \in MovimentosDeFrete)]_vars

=============================================================================
