---------------------------- MODULE EstoquePedido ----------------------------
(***************************************************************************)
(* The pedido -> estoque synchronisation of apps/functions.                *)
(*                                                                         *)
(* Every write of a pedido document puts a trigger event in flight; the    *)
(* platform delivers the events of the trigger in any order, more than     *)
(* once, and (no retry is configured) loses the event of a failed handler. *)
(* The handler reads the pedido as it is now, not as the event saw it, and *)
(* in one transaction moves the counters by the difference between the     *)
(* desired effect and the snapshot (estoqueAplicado) of the applied one.   *)
(* Operators edit pedidos, the configuration documents and the catalogue,  *)
(* delete pedidos, move stock by hand and ask for a resync meanwhile.      *)
(***************************************************************************)
EXTENDS EstoquePlano, SomaFinita

CONSTANTS
  Pedidos, Integracoes, Operacoes,
  Rascunhos,           \* the observed fields an editor or an importer saves
  EdicoesIntegracao,   \* <<id, document or Nenhum>> an operator may save
  EdicoesOperacao, EdicoesProduto,
  Movimentos,          \* the manual movements of the aplicarEstoque callable
  PedidosIniciais, IntegracoesIniciais, OperacoesIniciais, ProdutosIniciais,
  EstoquesIniciais,
  MaxManuais,          \* bound on the manual movements of a behaviour
  PodePerderEventos    \* whether a handler may fail (its event is lost)

VARIABLES
  pedidos,        \* pedidos/{id}, Nenhum when absent
  integracoes, operacoes, produtos,
  estoques,       \* produtos/{p}/estoques/{est-p-d}: the two counters
  razao,          \* sums of movimento / movimentoReservada over historicoEstoque
  lancado,        \* the same sums over the rows that carry a pedido
  exclusoes,      \* the rows exclusao-<pedidoId> that exist, per estoque
  kitsCarimbados, \* kit estoque documents the last transaction stamped
  incidentes,     \* kinds of incidente the sync filed on a pedido
  fila,           \* trigger events in flight
  excluidos,      \* pedidos deleted (their random ids are never used again)
  ultimo,         \* ghost: estoqueAplicado of a pedido when it was deleted
  herdado,        \* ghost: the applied effect a reconstruction assumed
  pendente,       \* ghost: pedidos whose config changed or whose event was lost
  manuais         \* ghost: manual movements so far

config   == <<integracoes, operacoes, produtos>>
contas   == <<estoques, razao, lancado, exclusoes, kitsCarimbados, incidentes>>
vars     == <<pedidos, config, contas, fila, excluidos, ultimo, herdado, pendente, manuais>>

Estoques == Produtos \X Depositos

Contador == [quantidade: Int, quantidadeReservada: Nat]

LinhaRazao == [movimento: Int, movimentoReservada: Int]

Rascunho ==
  [estado: EstadoPedido, frete: EstadoFrete \cup {Nenhum}, itens: Itens,
   ehSaida: BOOLEAN, operacao: Operacoes \cup {Nenhum},
   integracao: Integracoes \cup {Nenhum}]

PedidoDoc ==
  [estado: EstadoPedido, frete: EstadoFrete \cup {Nenhum}, itens: Itens,
   ehSaida: BOOLEAN, operacao: Operacoes \cup {Nenhum},
   integracao: Integracoes \cup {Nenhum},
   estoqueAplicado: EstoqueAplicado \cup {Nenhum},
   marcaReserva: BOOLEAN, marcaRemocao: BOOLEAN]

IntegracaoDoc ==
  [deposito: Depositos \cup {Nenhum}, operacao: Operacoes \cup {Nenhum},
   operacaoDevolucao: Operacoes \cup {Nenhum}]

Movimento ==
  [tipo: {"entrada", "saida", "balanco"}, produto: Produtos, deposito: Depositos,
   quantidade: Nat, quantidadeReservada: Nat]

(* An event of the trigger: a write carries whether an observed field      *)
(* changed and the legacy anchor, both functions of its two revisions; a   *)
(* deletion carries the snapshot of the last revision.                     *)
Evento ==
  [tipo: {"escrita"}, pedido: Pedidos, mudou: BOOLEAN, anterior: Itens \cup {Nenhum}]
  \cup [tipo: {"exclusao"}, pedido: Pedidos, aplicado: EstoqueAplicado \cup {Nenhum}]

ASSUME EstoquePedidoAssumption ==
  /\ IsFiniteSet(Pedidos)
  /\ Rascunhos \subseteq Rascunho
  /\ Movimentos \subseteq Movimento
  /\ MaxManuais \in Nat
  /\ PodePerderEventos \in BOOLEAN
  /\ Nenhum \notin PedidoDoc /\ Nenhum \notin IntegracaoDoc
  /\ Nenhum \notin Itens
  /\ Nenhum \notin Integracoes /\ Nenhum \notin Operacoes
  /\ PedidosIniciais \subseteq
       [Pedidos -> {doc \in PedidoDoc : doc.estoqueAplicado = Nenhum} \cup {Nenhum}]
  /\ IntegracoesIniciais \in [Integracoes -> IntegracaoDoc \cup {Nenhum}]
  /\ OperacoesIniciais \in [Operacoes -> OperacaoDoc \cup {Nenhum}]
  /\ ProdutosIniciais \in [Produtos -> ProdutoDoc \cup {Nenhum}]
  /\ EdicoesIntegracao \subseteq Integracoes \X (IntegracaoDoc \cup {Nenhum})
  /\ EdicoesOperacao \subseteq Operacoes \X (OperacaoDoc \cup {Nenhum})
  /\ EdicoesProduto \subseteq Produtos \X (ProdutoDoc \cup {Nenhum})
  /\ EstoquesIniciais \in [Estoques -> Contador]

TypeOK ==
  /\ pedidos \in [Pedidos -> PedidoDoc \cup {Nenhum}]
  /\ integracoes \in [Integracoes -> IntegracaoDoc \cup {Nenhum}]
  /\ operacoes \in [Operacoes -> OperacaoDoc \cup {Nenhum}]
  /\ produtos \in [Produtos -> ProdutoDoc \cup {Nenhum}]
  /\ estoques \in [Estoques -> Contador]
  /\ razao \in [Estoques -> LinhaRazao]
  /\ lancado \in [Pedidos -> [Estoques -> LinhaRazao]]
  /\ exclusoes \subseteq Pedidos \X Estoques
  /\ kitsCarimbados \subseteq Estoques
  /\ incidentes \in [Pedidos -> SUBSET {"drift", "reconstrucao"}]
  /\ fila \subseteq Evento
  /\ excluidos \subseteq Pedidos
  /\ ultimo \in [Pedidos -> EstoqueAplicado \cup {Nenhum}]
  /\ herdado \in [Pedidos -> EstoqueAplicado \cup {Nenhum}]
  /\ pendente \subseteq Pedidos
  /\ manuais \in 0..MaxManuais

-----------------------------------------------------------------------------
(* Trigger events *)

(* Faults: an input of the effect is not watched; a written field is.      *)
FalhaSemItens == {"estado", "frete", "ehSaida", "operacao", "integracao"}
FalhaSemOperacao == {"estado", "frete", "itens", "ehSaida", "integracao"}
FalhaObservaEscrito ==
  {"estado", "frete", "itens", "ehSaida", "operacao", "integracao", "estoqueAplicado"}

CAMPOS_OBSERVADOS ==
  {"estado", "frete", "itens", "ehSaida", "operacao", "integracao"}

mudouCampoObservado(before, after) ==
  before = Nenhum \/ \E c \in CAMPOS_OBSERVADOS : before[c] # after[c]

EventoEscrita(ped, before, after) ==
  [tipo |-> "escrita", pedido |-> ped,
   mudou |-> mudouCampoObservado(before, after),
   anterior |-> detectarCrescimentoLegado(before, after)]

EventoExclusao(ped, before) ==
  [tipo |-> "exclusao", pedido |-> ped, aplicado |-> before.estoqueAplicado]

-----------------------------------------------------------------------------
(* The plan of one sync, from the documents as they are now *)

EstadoAtivo(doc) == doc.estado \in ESTADOS_PEDIDO_MOVIMENTACAO

(* The pedido's own operacao, or its integracao's for that direction. *)
OperacaoResolvida(doc) ==
  IF doc.operacao # Nenhum THEN doc.operacao
  ELSE IF doc.ehSaida THEN integracoes[doc.integracao].operacao
       ELSE integracoes[doc.integracao].operacaoDevolucao

ConfigResolvida(doc) ==
  /\ doc.integracao # Nenhum
  /\ integracoes[doc.integracao] # Nenhum
  /\ integracoes[doc.integracao].deposito # Nenhum
  /\ OperacaoResolvida(doc) # Nenhum
  /\ operacoes[OperacaoResolvida(doc)] # Nenhum

(* Fault: the event's anchor is trusted without reading the markers again. *)
FalhaAncoraDoEvento(doc, anterior) == anterior # Nenhum

Reconstroi(doc, anterior) == ehMarcadorLegado(doc) /\ anterior # Nenhum

(* The early returns of the sync: it goes on only for a pedido that exists,*)
(* whose applied effect is known or can be reconstructed, that is active   *)
(* or still holds an effect, and whose config resolves if it is active.    *)
PodeSincronizar(doc, anterior) ==
  /\ doc # Nenhum
  /\ ehMarcadorLegado(doc) => anterior # Nenhum
  /\ IF EstadoAtivo(doc) THEN ConfigResolvida(doc)
     ELSE temEfeitoAplicado(doc.estoqueAplicado)

(* What is taken as applied: the snapshot, or the one rebuilt from the     *)
(* legacy anchor.                                                          *)
AplicadoBase(doc, anterior, dep, ehSaida) ==
  IF Reconstroi(doc, anterior)
  THEN sintetizarAplicadoLegado(doc, calcularAlteracoesEstoque(anterior, produtos),
                                dep, ehSaida)
  ELSE doc.estoqueAplicado

(* Fault: only a reservation stamps the kit. *)
FalhaCarimboSoReserva(doc, anterior, efeito, dep) ==
  {v \in Produtos : doc.itens[v] > 0 /\ produtos[v] # Nenhum /\ produtos[v].ehKit
                     /\ efeito.reservar} \X {dep}

(* The kits on the current lines, read only when an effect is applied or   *)
(* reconstructed: the estoque documents carimbarKitsVendidos stamps.       *)
KitsVendidos(doc, anterior, efeito, dep) ==
  {v \in Produtos : /\ doc.itens[v] > 0 /\ produtos[v] # Nenhum /\ produtos[v].ehKit
                    /\ efeito # EFEITO_ESTOQUE_NENHUM \/ Reconstroi(doc, anterior)}
    \X {dep}

(* An active pedido: the desired effect under the current config. *)
PlanoAtivo(doc, anterior) ==
  LET dep      == integracoes[doc.integracao].deposito
      op       == operacoes[OperacaoResolvida(doc)]
      ehSaida  == ehSaidaDaOperacao(op, doc.ehSaida)
      efeito   == efeitoEstoquePedido(doc.estado, doc.frete, ehSaida, op,
                    \/ temMovimentoAplicado(doc.estoqueAplicado)
                    \/ Reconstroi(doc, anterior) /\ doc.marcaRemocao)
  IN [alvo |-> AplicadoAlvo(calcularAlteracoesEstoque(doc.itens, produtos), efeito, dep),
      base |-> AplicadoBase(doc, anterior, dep, ehSaida),
      kits |-> KitsVendidos(doc, anterior, efeito, dep)]

(* An inactive pedido is a pure reversal: the snapshot alone decides. *)
Plano(doc, anterior) ==
  IF EstadoAtivo(doc) THEN PlanoAtivo(doc, anterior)
  ELSE [alvo |-> Nenhum, base |-> doc.estoqueAplicado, kits |-> {}]

-----------------------------------------------------------------------------
(* aplicarPlano: the counters, their ledger rows and the drift incidente *)

(* Fault: no floor at zero. *)
FalhaSemPiso(a, b) == b

Maior(a, b) == IF a > b THEN a ELSE b

(* Each touched estoque: quantidade moves by its delta, quantidadeReservada*)
(* is floored at zero, and the ledger row records what actually landed.    *)
EstoqueDepois(k, alvo, base) ==
  [quantidade |-> estoques[k].quantidade + DeltaQuantidade(alvo, base, k[1], k[2]),
   quantidadeReservada |->
     Maior(0, estoques[k].quantidadeReservada + DeltaReservada(alvo, base, k[1], k[2]))]

(* Fault: the ledger records the requested release, not what landed. *)
FalhaRazaoPedida(linha, k, alvo, base) ==
  [movimento |-> linha.movimento + DeltaQuantidade(alvo, base, k[1], k[2]),
   movimentoReservada |->
     linha.movimentoReservada + DeltaReservada(alvo, base, k[1], k[2])]

RazaoDepois(linha, k, alvo, base) ==
  [movimento |-> linha.movimento + DeltaQuantidade(alvo, base, k[1], k[2]),
   movimentoReservada |-> linha.movimentoReservada
     + (EstoqueDepois(k, alvo, base).quantidadeReservada
        - estoques[k].quantidadeReservada)]

Tocados(alvo, base, jaRevertidos) ==
  {k \in Estoques : TemDelta(alvo, base, k[1], k[2])} \ jaRevertidos

Limitou(k, alvo, base) ==
  estoques[k].quantidadeReservada + DeltaReservada(alvo, base, k[1], k[2]) < 0

aplicarPlano(ped, alvo, base, jaRevertidos) ==
  LET tocados == Tocados(alvo, base, jaRevertidos)
  IN /\ estoques' = [k \in Estoques |->
           IF k \in tocados THEN EstoqueDepois(k, alvo, base) ELSE estoques[k]]
     /\ razao' = [k \in Estoques |->
           IF k \in tocados THEN RazaoDepois(razao[k], k, alvo, base) ELSE razao[k]]
     /\ lancado' = [lancado EXCEPT ![ped] = [k \in Estoques |->
           IF k \in tocados THEN RazaoDepois(lancado[ped][k], k, alvo, base)
           ELSE lancado[ped][k]]]

-----------------------------------------------------------------------------
(* sincronizarEstoquePedido, and who calls it *)

Registrar(ped, before, after, resto) ==
  /\ pedidos' = [pedidos EXCEPT ![ped] = after]
  /\ fila' = resto \cup {EventoEscrita(ped, before, after)}

(* Fault: the markers are only ever set. *)
FalhaMarcasFicam(doc, alvo) ==
  [doc EXCEPT !.estoqueAplicado = alvo,
              !.marcaReserva = @ \/ (alvo # Nenhum /\ alvo.reservado # Vazio),
              !.marcaRemocao = @ \/ temMovimentoAplicado(alvo)]

ComSnapshot(doc, alvo) ==
  [doc EXCEPT !.estoqueAplicado = alvo,
              !.marcaReserva = alvo # Nenhum /\ alvo.reservado # Vazio,
              !.marcaRemocao = temMovimentoAplicado(alvo)]

IncidentesDoSync(ped, plano, legado) ==
  incidentes[ped]
    \cup {i \in {"drift"} : \E k \in Tocados(plano.alvo, plano.base, {}) :
                              Limitou(k, plano.alvo, plano.base)}
    \cup {i \in {"reconstrucao"} : legado}

Convergir(ped, anterior, resto) ==
  LET doc    == pedidos[ped]
      plano  == Plano(doc, anterior)
      legado == Reconstroi(doc, anterior)
  IN /\ aplicarPlano(ped, plano.alvo, plano.base, {})
     /\ kitsCarimbados' = plano.kits
     /\ incidentes' = [incidentes EXCEPT ![ped] = IncidentesDoSync(ped, plano, legado)]
     /\ Registrar(ped, doc, ComSnapshot(doc, plano.alvo), resto)
     /\ herdado' = [herdado EXCEPT ![ped] = IF legado THEN plano.base ELSE @]
     /\ UNCHANGED exclusoes

TemOQueFazer(ped, anterior) ==
  /\ PodeSincronizar(pedidos[ped], anterior)
  /\ TemDeltas(Plano(pedidos[ped], anterior).alvo, Plano(pedidos[ped], anterior).base)

(* One transaction; a pedido with nothing to move is left as it is. *)
sincronizarEstoquePedido(ped, anterior, resto) ==
  /\ IF TemOQueFazer(ped, anterior)
     THEN Convergir(ped, anterior, resto)
     ELSE /\ fila' = resto
          /\ kitsCarimbados' = {}
          /\ UNCHANGED <<pedidos, estoques, razao, lancado, exclusoes, incidentes, herdado>>
  /\ pendente' = IF pedidos[ped] = Nenhum THEN pendente ELSE pendente \ {ped}
  /\ UNCHANGED <<config, excluidos, ultimo, manuais>>

(* Fault: the reversal row has a random id. *)
FalhaReversaoSemMarca(ped) == {}

JaRevertidos(ped) == {k \in Estoques : <<ped, k>> \in exclusoes}

(* A deleted pedido gives back what its last revision held; the row        *)
(* exclusao-<pedidoId> makes a second delivery skip the estoque.           *)
reverterEstoquePedidoExcluido(e, resto) ==
  LET ped == e.pedido
  IN /\ fila' = resto
     /\ kitsCarimbados' = {}
     /\ IF temEfeitoAplicado(e.aplicado) /\ pedidos[ped] = Nenhum
        THEN /\ aplicarPlano(ped, Nenhum, e.aplicado, JaRevertidos(ped))
             /\ exclusoes' = exclusoes \cup
                  ({ped} \X Tocados(Nenhum, e.aplicado, JaRevertidos(ped)))
        ELSE UNCHANGED <<estoques, razao, lancado, exclusoes>>
     /\ UNCHANGED <<pedidos, config, incidentes, excluidos, ultimo, herdado,
                    pendente, manuais>>

Ignorar(resto) ==
  /\ fila' = resto
  /\ kitsCarimbados' = {}
  /\ UNCHANGED <<pedidos, config, estoques, razao, lancado, exclusoes, incidentes,
                 excluidos, ultimo, herdado, pendente, manuais>>

(* The trigger handler; the event leaves the fila when it is acknowledged. *)
onPedidoEstoqueSync(e, resto) ==
  \/ e.tipo = "exclusao" /\ reverterEstoquePedidoExcluido(e, resto)
  \/ e.tipo = "escrita" /\ ~e.mudou /\ Ignorar(resto)
  \/ e.tipo = "escrita" /\ e.mudou /\ sincronizarEstoquePedido(e.pedido, e.anterior, resto)

Entregar(e) == onPedidoEstoqueSync(e, fila \ {e})

EntregarEReentregar(e) == onPedidoEstoqueSync(e, fila)

(* The handler fails before its commit (contention, timeout, crash): the   *)
(* trigger configures no retry.                                            *)
PerderEvento(e) ==
  /\ PodePerderEventos
  /\ e.tipo = "escrita" => e.mudou
  /\ fila' = fila \ {e}
  /\ pendente' = pendente \cup {e.pedido}
  /\ kitsCarimbados' = {}
  /\ UNCHANGED <<pedidos, config, estoques, razao, lancado, exclusoes, incidentes,
                 excluidos, ultimo, herdado, manuais>>

resincronizarEstoquePedido(ped) ==
  pedidos[ped] # Nenhum /\ sincronizarEstoquePedido(ped, Nenhum, fila)

-----------------------------------------------------------------------------
(* Writers of the pedido: editors and importers; the snapshot and the      *)
(* markers are server-owned, so no save carries them.                      *)

NovoPedido(r) ==
  [estado |-> r.estado, frete |-> r.frete, itens |-> r.itens, ehSaida |-> r.ehSaida,
   operacao |-> r.operacao, integracao |-> r.integracao,
   estoqueAplicado |-> Nenhum, marcaReserva |-> FALSE, marcaRemocao |-> FALSE]

ComRascunho(doc, r) ==
  [NovoPedido(r) EXCEPT !.estoqueAplicado = doc.estoqueAplicado,
                        !.marcaReserva = doc.marcaReserva,
                        !.marcaRemocao = doc.marcaRemocao]

CriarPedido(ped, r) ==
  /\ pedidos[ped] = Nenhum /\ ped \notin excluidos
  /\ Registrar(ped, Nenhum, NovoPedido(r), fila)
  /\ kitsCarimbados' = {}
  /\ UNCHANGED <<config, estoques, razao, lancado, exclusoes, incidentes,
                 excluidos, ultimo, herdado, pendente, manuais>>

SalvarPedido(ped, r) ==
  /\ pedidos[ped] # Nenhum
  /\ ComRascunho(pedidos[ped], r) # pedidos[ped]
  /\ Registrar(ped, pedidos[ped], ComRascunho(pedidos[ped], r), fila)
  /\ kitsCarimbados' = {}
  /\ UNCHANGED <<config, estoques, razao, lancado, exclusoes, incidentes,
                 excluidos, ultimo, herdado, pendente, manuais>>

ExcluirPedido(ped) ==
  /\ pedidos[ped] # Nenhum
  /\ pedidos' = [pedidos EXCEPT ![ped] = Nenhum]
  /\ fila' = fila \cup {EventoExclusao(ped, pedidos[ped])}
  /\ excluidos' = excluidos \cup {ped}
  /\ ultimo' = [ultimo EXCEPT ![ped] = pedidos[ped].estoqueAplicado]
  /\ kitsCarimbados' = {}
  /\ UNCHANGED <<config, estoques, razao, lancado, exclusoes, incidentes,
                 herdado, pendente, manuais>>

-----------------------------------------------------------------------------
(* Writers of the configuration: no trigger of this function watches them. *)

AfetaPedidos ==
  /\ pendente' = pendente \cup {ped \in Pedidos : pedidos[ped] # Nenhum}
  /\ kitsCarimbados' = {}
  /\ UNCHANGED <<pedidos, estoques, razao, lancado, exclusoes, incidentes, fila,
                 excluidos, ultimo, herdado, manuais>>

SalvarIntegracao(i, doc) ==
  /\ integracoes[i] # doc
  /\ integracoes' = [integracoes EXCEPT ![i] = doc]
  /\ AfetaPedidos /\ UNCHANGED <<operacoes, produtos>>

SalvarOperacao(o, doc) ==
  /\ operacoes[o] # doc
  /\ operacoes' = [operacoes EXCEPT ![o] = doc]
  /\ AfetaPedidos /\ UNCHANGED <<integracoes, produtos>>

SalvarProduto(p, doc) ==
  /\ produtos[p] # doc
  /\ produtos' = [produtos EXCEPT ![p] = doc]
  /\ AfetaPedidos /\ UNCHANGED <<integracoes, operacoes>>

-----------------------------------------------------------------------------
(* aplicarMovimento: the manual movements of the aplicarEstoque callable *)

(* Entrada and saida: read-free increments, reservada floored on the       *)
(* document, and the ledger records what was requested.                    *)
movimentoIncremental(m, sinal, c) ==
  [contador |-> [quantidade |-> c.quantidade + sinal * m.quantidade,
                 quantidadeReservada |->
                   Maior(0, c.quantidadeReservada + sinal * m.quantidadeReservada)],
   linha |-> [movimento |-> sinal * m.quantidade,
              movimentoReservada |-> sinal * m.quantidadeReservada]]

(* Balanco: the counted values are set and the ledger records the delta.   *)
movimentoAbsoluto(m, c) ==
  [contador |-> [quantidade |-> m.quantidade,
                 quantidadeReservada |-> Maior(0, m.quantidadeReservada)],
   linha |-> [movimento |-> m.quantidade - c.quantidade,
              movimentoReservada |->
                Maior(0, m.quantidadeReservada) - c.quantidadeReservada]]

planMovimentacao(m, c) ==
  IF m.tipo = "balanco" THEN movimentoAbsoluto(m, c)
  ELSE movimentoIncremental(m, IF m.tipo = "saida" THEN -1 ELSE 1, c)

aplicarMovimento(m) ==
  LET k    == <<m.produto, m.deposito>>
      plan == planMovimentacao(m, estoques[k])
  IN /\ manuais < MaxManuais
     /\ manuais' = manuais + 1
     /\ estoques' = [estoques EXCEPT ![k] = plan.contador]
     /\ razao' = [razao EXCEPT ![k] =
           [movimento |-> @.movimento + plan.linha.movimento,
            movimentoReservada |-> @.movimentoReservada + plan.linha.movimentoReservada]]
     /\ kitsCarimbados' = {}
     /\ UNCHANGED <<pedidos, config, lancado, exclusoes, incidentes, fila,
                    excluidos, ultimo, herdado, pendente>>

-----------------------------------------------------------------------------
SemLancamento == [k \in Estoques |-> [movimento |-> 0, movimentoReservada |-> 0]]

Init ==
  /\ pedidos \in PedidosIniciais
  /\ integracoes = IntegracoesIniciais
  /\ operacoes = OperacoesIniciais
  /\ produtos = ProdutosIniciais
  /\ estoques = EstoquesIniciais
  /\ razao = SemLancamento
  /\ lancado = [ped \in Pedidos |-> SemLancamento]
  /\ exclusoes = {}
  /\ kitsCarimbados = {}
  /\ incidentes = [ped \in Pedidos |-> {}]
  /\ fila = {}
  /\ excluidos = {}
  /\ ultimo = [ped \in Pedidos |-> Nenhum]
  /\ herdado = [ped \in Pedidos |-> Nenhum]
  /\ pendente = {ped \in Pedidos : pedidos[ped] # Nenhum}
  /\ manuais = 0

Next ==
  \/ \E ped \in Pedidos, r \in Rascunhos : CriarPedido(ped, r)
  \/ \E ped \in Pedidos, r \in Rascunhos : SalvarPedido(ped, r)
  \/ \E ped \in Pedidos : ExcluirPedido(ped)
  \/ \E ed \in EdicoesIntegracao : SalvarIntegracao(ed[1], ed[2])
  \/ \E ed \in EdicoesOperacao : SalvarOperacao(ed[1], ed[2])
  \/ \E ed \in EdicoesProduto : SalvarProduto(ed[1], ed[2])
  \/ \E m \in Movimentos : aplicarMovimento(m)
  \/ \E e \in fila : Entregar(e)
  \/ \E e \in fila : EntregarEReentregar(e)
  \/ \E e \in fila : PerderEvento(e)
  \/ \E ped \in Pedidos : resincronizarEstoquePedido(ped)

Spec == Init /\ [][Next]_vars

(* Scheduling: the platform delivers every event of the trigger at least   *)
(* once (sincronizarEstoquePedido.ts configures no retry, so this is only  *)
(* assumed of handlers that do not fail).  Nobody is obliged to edit,      *)
(* delete, move by hand or resync.                                         *)
EntregaJusta(ped) ==
  /\ WF_vars(\E e \in fila : /\ e.pedido = ped /\ e.tipo = "escrita" /\ e.mudou
                             /\ Entregar(e))
  /\ WF_vars(\E e \in fila : e.pedido = ped /\ e.tipo = "exclusao" /\ Entregar(e))

FairSpec == Spec /\ \A ped \in Pedidos : EntregaJusta(ped)

-----------------------------------------------------------------------------
(* Properties *)

(* What a pedido holds in an estoque now: its snapshot, or after its       *)
(* deletion the last snapshot until the reversal row exists.               *)
Vigente(ped, k) ==
  IF pedidos[ped] # Nenhum THEN pedidos[ped].estoqueAplicado
  ELSE IF <<ped, k>> \in exclusoes THEN Nenhum ELSE ultimo[ped]

(* Exactly once: whatever was delivered twice, late, out of order or lost, *)
(* the ledger rows of a pedido in an estoque add up to what it holds there *)
(* now, less what a reconstruction took over from the Flutter app          *)
(* (sincronizarEstoquePedido, reverterEstoquePedidoExcluido).              *)
CadaPedidoUmaVez ==
  \A ped \in Pedidos, k \in Estoques :
    lancado[ped][k].movimento
      = Fisico(Vigente(ped, k), k[1], k[2]) - Fisico(herdado[ped], k[1], k[2])

(* The ledger is summable (ADR 0014): every movement of quantidade, by the *)
(* sync, a reversal, an entrada, a saida or a balanco, left its row.       *)
RazaoSomaQuantidade ==
  \A k \in Estoques :
    estoques[k].quantidade = EstoquesIniciais[k].quantidade + razao[k].movimento

(* The reserved half of the ledger is summable too while only the sync     *)
(* writes: its rows record the clamped delta (aplicarPlano).               *)
RazaoSomaReservada ==
  manuais = 0 =>
    \A k \in Estoques :
      estoques[k].quantidadeReservada
        = EstoquesIniciais[k].quantidadeReservada + razao[k].movimentoReservada

(* Both halves: every counter is its initial value plus its ledger.        *)
RazaoSoma == RazaoSomaQuantidade /\ RazaoSomaReservada

ForaDaSync == manuais > 0 \/ \E ped \in Pedidos : herdado[ped] # Nenhum

(* What each pedido holds reserved in an estoque. *)
Reservas(k) == [ped \in Pedidos |-> Reservado(Vigente(ped, k), k[1], k[2])]

(* Nobody else's reservation is released and none leaks: the counter is    *)
(* the sum of what the pedidos hold, as long as only the sync writes it.   *)
ReservadaSomaPedidos ==
  ~ForaDaSync =>
    \A k \in Estoques :
      estoques[k].quantidadeReservada
        = EstoquesIniciais[k].quantidadeReservada + Soma(Pedidos, Reservas(k))

(* "If it ever fires, something outside the sync mutated the counters":    *)
(* the clamp of quantidadeReservada never fires by the sync alone.         *)
DriftSoPorFora ==
  (\E ped \in Pedidos : "drift" \in incidentes[ped]) => ForaDaSync

(* The pedido is out of step with its desired effect (it would be moved by *)
(* a sync that starts now).                                                *)
Diverge(ped) == TemOQueFazer(ped, Nenhum)

EventoPendente(ped) ==
  \E e \in fila : e.pedido = ped /\ e.tipo = "escrita" /\ e.mudou

(* Convergence as a safety property: a pedido is out of step only while an *)
(* event that will move it is in flight, or for a reason no event tells:   *)
(* an edited config document or a lost event.                              *)
DivergenciaCoberta ==
  \A ped \in Pedidos : Diverge(ped) => EventoPendente(ped) \/ ped \in pendente

(* A pedido the sync has managed is never mistaken for a Flutter-era one,  *)
(* which no later sync would touch: markers and snapshot go together.      *)
NuncaViraLegado ==
  [][\A ped \in Pedidos :
       pedidos'[ped] # Nenhum /\ ehMarcadorLegado(pedidos'[ped])
         => pedidos[ped] # Nenhum /\ ehMarcadorLegado(pedidos[ped])]_vars

(* A physical movement that was applied is held in every active estado (a  *)
(* partial refund must not restock): a sync takes it back only from an     *)
(* inactive pedido, one with nothing left to move, or an operacao that no  *)
(* longer moves stock.                                                     *)
MovimentoPersiste ==
  [][\A ped \in Pedidos :
       /\ pedidos[ped] # Nenhum /\ temMovimentoAplicado(pedidos[ped].estoqueAplicado)
       /\ pedidos'[ped] # Nenhum /\ ~temMovimentoAplicado(pedidos'[ped].estoqueAplicado)
       => \/ ~EstadoAtivo(pedidos[ped])
          \/ calcularAlteracoesEstoque(pedidos[ped].itens, produtos) = Vazio
          \/ ~operacoes[OperacaoResolvida(pedidos[ped])].movimentaEstoque]_vars

(* Loop prevention: only a save puts an observed change in flight; what    *)
(* the sync itself writes never starts another sync.                       *)
SemEco ==
  [][\A e \in fila' \ fila : e.tipo = "escrita" /\ e.mudou
       => estoques' = estoques /\ lancado' = lancado]_vars

(* A sale that moves stock through a kit line stamps the kit's own estoque *)
(* document at the deposito sold from (carimbarKitsVendidos, ADR 0014).    *)
KitVendidoCarimbado ==
  [][\A ped \in Pedidos :
       /\ pedidos[ped] # Nenhum /\ pedidos'[ped] # Nenhum
       /\ lancado'[ped] # lancado[ped]
       /\ pedidos'[ped].estoqueAplicado # Nenhum
       => \A v \in Produtos :
            pedidos[ped].itens[v] > 0 /\ produtos[v] # Nenhum /\ produtos[v].ehKit
              => <<v, pedidos'[ped].estoqueAplicado.depositoId>> \in kitsCarimbados']_vars

(* A pedido out of step is eventually brought into step, without an        *)
(* operator, unless its event is lost or a config document changes.        *)
Convergencia ==
  \A ped \in Pedidos :
    Diverge(ped) /\ ped \notin pendente ~> ~Diverge(ped) \/ ped \in pendente

(* The stock of a deleted pedido eventually comes back, unless its event   *)
(* is lost.                                                                *)
ExclusaoRevertida ==
  \A ped \in Pedidos :
    ped \in excluidos
      ~> \/ ped \in pendente
         \/ \A k \in Estoques : ~TemDelta(Nenhum, Vigente(ped, k), k[1], k[2])

=============================================================================
