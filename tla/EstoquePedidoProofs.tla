------------------------- MODULE EstoquePedidoProofs -------------------------
(***************************************************************************)
(* Proofs about EstoquePedido, for every catalogue, set of pedidos,        *)
(* configuration and set of saves.                                         *)
(***************************************************************************)
EXTENDS EstoquePedido, FiniteSetTheorems, TLAPS

Aplicado == EstoqueAplicado \cup {Nenhum}

(* The units the lines of a pedido move can be counted. *)
LEMMA AlteracoesTipo ==
  ASSUME NEW itens, NEW ps
  PROVE  calcularAlteracoesEstoque(itens, ps) \in Qtds
<1> DEFINE Todas == Produtos \X ((1..QtdMax) \X (1..QtdMax))
<1>1. QtdMax \in Nat /\ IsFiniteSet(Produtos)
  BY PlanoAssumption
<1>2. IsFiniteSet(1..QtdMax)
  BY <1>1, FS_Interval
<1>3. IsFiniteSet((1..QtdMax) \X (1..QtdMax))
  BY <1>2, FS_Product
<1>4. IsFiniteSet(Todas)
  BY <1>1, <1>3, FS_Product
<1>5. ASSUME NEW p \in Produtos
      PROVE  Cardinality(UnidadesMovidas(itens, ps, p)) \in Nat
  <2>1. UnidadesMovidas(itens, ps, p) \in SUBSET Todas
    BY DEF UnidadesMovidas
  <2>2. IsFiniteSet(UnidadesMovidas(itens, ps, p))
    BY <1>4, <2>1, FS_Subset
  <2>3. QED
    BY <2>2, FS_CardinalityType
<1>6. QED
  BY <1>5 DEF calcularAlteracoesEstoque, Qtds

LEMMA VazioTipo == Vazio \in Qtds
  BY DEF Vazio, Qtds

(* The next snapshot is a snapshot or null. *)
LEMMA AlvoTipo ==
  ASSUME NEW alteracoes \in Qtds, NEW efeito, NEW dep \in Depositos
  PROVE  AplicadoAlvo(alteracoes, efeito, dep) \in Aplicado
  BY VazioTipo DEF AplicadoAlvo, Aplicado, EstoqueAplicado

LEMMA SinteseTipo ==
  ASSUME NEW doc, NEW alteracoes \in Qtds, NEW dep \in Depositos, NEW ehSaida
  PROVE  sintetizarAplicadoLegado(doc, alteracoes, dep, ehSaida) \in Aplicado
  BY VazioTipo DEF sintetizarAplicadoLegado, Aplicado, EstoqueAplicado

(* Every difference of two snapshots is an integer in every estoque. *)
LEMMA ContribuicaoTipo ==
  ASSUME NEW a \in Aplicado, NEW p \in Produtos, NEW d
  PROVE  Fisico(a, p, d) \in Int /\ Reservado(a, p, d) \in Nat
<1>1. CASE a = Nenhum
  BY <1>1 DEF Fisico, Reservado
<1>2. CASE a \in EstoqueAplicado
  BY <1>2 DEF Fisico, Reservado, EstoqueAplicado, Qtds
<1>3. QED
  BY <1>1, <1>2 DEF Aplicado

LEMMA DeltaTipo ==
  ASSUME NEW alvo \in Aplicado, NEW base \in Aplicado, NEW p \in Produtos, NEW d
  PROVE  /\ DeltaQuantidade(alvo, base, p, d) \in Int
         /\ DeltaReservada(alvo, base, p, d) \in Int
  BY ContribuicaoTipo DEF DeltaQuantidade, DeltaReservada

LEMMA MaiorTipo ==
  ASSUME NEW x \in Int
  PROVE  Maior(0, x) \in Nat
  BY DEF Maior

-----------------------------------------------------------------------------
(* Types of the plan and of the events *)

LEMMA PlanoTipo ==
  ASSUME TypeOK, NEW ped \in Pedidos, NEW anterior,
         PodeSincronizar(pedidos[ped], anterior)
  PROVE  /\ pedidos[ped] \in PedidoDoc
         /\ Plano(pedidos[ped], anterior).alvo \in Aplicado
         /\ Plano(pedidos[ped], anterior).base \in Aplicado
         /\ Plano(pedidos[ped], anterior).kits \subseteq Estoques
<1> DEFINE doc == pedidos[ped]
<1>1. doc \in PedidoDoc
  BY DEF TypeOK, PodeSincronizar
<1>2. doc.estoqueAplicado \in Aplicado
  BY <1>1 DEF PedidoDoc, Aplicado
<1>3. CASE EstadoAtivo(doc)
  <2> DEFINE dep == integracoes[doc.integracao].deposito
  <2>1. ConfigResolvida(doc)
    BY <1>3 DEF PodeSincronizar
  <2>2. dep \in Depositos
    BY <1>1, <2>1 DEF ConfigResolvida, TypeOK, PedidoDoc, IntegracaoDoc
  <2> HIDE DEF dep
  <2>3. ASSUME NEW efeito
        PROVE  KitsVendidos(doc, anterior, efeito, dep) \subseteq Estoques
    BY <2>2 DEF KitsVendidos, Estoques
  <2>4. ASSUME NEW ehSaida
        PROVE  AplicadoBase(doc, anterior, dep, ehSaida) \in Aplicado
    BY <1>2, <2>2, AlteracoesTipo, SinteseTipo DEF AplicadoBase
  <2>5. ASSUME NEW efeito
        PROVE  AplicadoAlvo(calcularAlteracoesEstoque(doc.itens, produtos), efeito, dep)
                 \in Aplicado
    BY <2>2, AlteracoesTipo, AlvoTipo
  <2>6. Plano(doc, anterior) = PlanoAtivo(doc, anterior)
    BY <1>3 DEF Plano
  <2>7. /\ PlanoAtivo(doc, anterior).alvo \in Aplicado
        /\ PlanoAtivo(doc, anterior).base \in Aplicado
        /\ PlanoAtivo(doc, anterior).kits \subseteq Estoques
    BY <2>3, <2>4, <2>5 DEF PlanoAtivo, dep
  <2>8. QED
    BY <1>1, <2>6, <2>7
<1>4. CASE ~EstadoAtivo(doc)
  BY <1>1, <1>2, <1>4 DEF Plano, Aplicado
<1>5. QED
  BY <1>3, <1>4

LEMMA EventoEscritaTipo ==
  ASSUME NEW ped \in Pedidos, NEW before \in PedidoDoc \cup {Nenhum},
         NEW after \in PedidoDoc
  PROVE  EventoEscrita(ped, before, after) \in Evento
<1>1. mudouCampoObservado(before, after) \in BOOLEAN
  BY DEF mudouCampoObservado
<1>2. detectarCrescimentoLegado(before, after) \in Itens \cup {Nenhum}
  BY EstoquePedidoAssumption DEF detectarCrescimentoLegado, PedidoDoc
<1>3. QED
  BY <1>1, <1>2 DEF EventoEscrita, Evento

LEMMA EventoExclusaoTipo ==
  ASSUME NEW ped \in Pedidos, NEW before \in PedidoDoc
  PROVE  EventoExclusao(ped, before) \in Evento
  BY DEF EventoExclusao, Evento, PedidoDoc

(* Applying a plan keeps the counters and the ledger well typed. *)
LEMMA AplicarTipo ==
  ASSUME TypeOK, NEW ped \in Pedidos, NEW alvo \in Aplicado, NEW base \in Aplicado,
         NEW ja, aplicarPlano(ped, alvo, base, ja)
  PROVE  /\ estoques' \in [Estoques -> Contador]
         /\ razao' \in [Estoques -> LinhaRazao]
         /\ lancado' \in [Pedidos -> [Estoques -> LinhaRazao]]
<1>1. ASSUME NEW k \in Estoques
      PROVE  EstoqueDepois(k, alvo, base) \in Contador
  <2>1. estoques[k].quantidade \in Int /\ estoques[k].quantidadeReservada \in Nat
    BY DEF TypeOK, Contador
  <2>2. k[1] \in Produtos
    BY DEF Estoques
  <2>3. QED
    BY <2>1, <2>2, DeltaTipo, MaiorTipo DEF EstoqueDepois, Contador
<1>2. ASSUME NEW k \in Estoques, NEW linha \in LinhaRazao
      PROVE  RazaoDepois(linha, k, alvo, base) \in LinhaRazao
  <2>1. EstoqueDepois(k, alvo, base).quantidadeReservada \in Nat
    BY <1>1 DEF Contador
  <2>2. estoques[k].quantidadeReservada \in Nat
    BY DEF TypeOK, Contador
  <2>3. k[1] \in Produtos
    BY DEF Estoques
  <2>4. QED
    BY <2>1, <2>2, <2>3, DeltaTipo DEF RazaoDepois, LinhaRazao
<1>3. QED
  BY <1>1, <1>2 DEF aplicarPlano, TypeOK

-----------------------------------------------------------------------------
(* Type correctness *)

LEMMA ComSnapshotTipo ==
  ASSUME NEW doc \in PedidoDoc, NEW alvo \in Aplicado
  PROVE  ComSnapshot(doc, alvo) \in PedidoDoc
<1>1. temMovimentoAplicado(alvo) \in BOOLEAN /\ (alvo # Nenhum /\ alvo.reservado # Vazio) \in BOOLEAN
  BY DEF temMovimentoAplicado
<1>2. QED
  BY <1>1 DEF ComSnapshot, PedidoDoc, Aplicado

LEMMA RascunhoTipo ==
  ASSUME NEW r \in Rascunhos
  PROVE  /\ NovoPedido(r) \in PedidoDoc
         /\ \A doc \in PedidoDoc : ComRascunho(doc, r) \in PedidoDoc
  BY EstoquePedidoAssumption DEF Rascunho, NovoPedido, ComRascunho, PedidoDoc

LEMMA RegistrarTipo ==
  ASSUME NEW ped \in Pedidos, NEW before \in PedidoDoc \cup {Nenhum},
         NEW after \in PedidoDoc, NEW resto \in SUBSET Evento,
         pedidos \in [Pedidos -> PedidoDoc \cup {Nenhum}],
         Registrar(ped, before, after, resto)
  PROVE  /\ pedidos' \in [Pedidos -> PedidoDoc \cup {Nenhum}]
         /\ fila' \subseteq Evento
  BY EventoEscritaTipo DEF Registrar

LEMMA SincronizarTipo ==
  ASSUME TypeOK, NEW ped \in Pedidos, NEW anterior, NEW resto \in SUBSET Evento,
         sincronizarEstoquePedido(ped, anterior, resto)
  PROVE  TypeOK'
<1>1. CASE TemOQueFazer(ped, anterior)
  <2> DEFINE doc == pedidos[ped]
             plano == Plano(doc, anterior)
  <2>1. /\ doc \in PedidoDoc
        /\ plano.alvo \in Aplicado
        /\ plano.base \in Aplicado
        /\ plano.kits \subseteq Estoques
    BY <1>1, PlanoTipo DEF TemOQueFazer
  <2>2. /\ aplicarPlano(ped, plano.alvo, plano.base, {})
        /\ kitsCarimbados' = plano.kits
        /\ incidentes' = [incidentes EXCEPT ![ped] =
                            IncidentesDoSync(ped, plano, Reconstroi(doc, anterior))]
        /\ Registrar(ped, doc, ComSnapshot(doc, plano.alvo), resto)
        /\ herdado' = [herdado EXCEPT ![ped] =
                         IF Reconstroi(doc, anterior) THEN plano.base ELSE @]
        /\ UNCHANGED exclusoes
        /\ pendente' = IF doc = Nenhum THEN pendente ELSE pendente \ {ped}
        /\ UNCHANGED <<config, excluidos, ultimo, manuais>>
    BY <1>1 DEF sincronizarEstoquePedido, Convergir
  <2> HIDE DEF doc, plano
  <2>3. /\ estoques' \in [Estoques -> Contador]
        /\ razao' \in [Estoques -> LinhaRazao]
        /\ lancado' \in [Pedidos -> [Estoques -> LinhaRazao]]
    BY <2>1, <2>2, AplicarTipo
  <2>4. /\ pedidos' \in [Pedidos -> PedidoDoc \cup {Nenhum}]
        /\ fila' \subseteq Evento
    <3>1. ComSnapshot(doc, plano.alvo) \in PedidoDoc
      BY <2>1, ComSnapshotTipo
    <3>2. QED
      BY <2>1, <2>2, <3>1, RegistrarTipo DEF TypeOK
  <2>5. IncidentesDoSync(ped, plano, Reconstroi(doc, anterior))
          \subseteq {"drift", "reconstrucao"}
    BY DEF IncidentesDoSync, TypeOK
  <2>6. QED
    BY <2>1, <2>2, <2>3, <2>4, <2>5 DEF TypeOK, config, Aplicado
<1>2. CASE ~TemOQueFazer(ped, anterior)
  BY <1>2 DEF sincronizarEstoquePedido, TypeOK, config
<1>3. QED
  BY <1>1, <1>2

LEMMA ReverterTipo ==
  ASSUME TypeOK, NEW e \in fila, e.tipo = "exclusao", NEW resto \in SUBSET Evento,
         reverterEstoquePedidoExcluido(e, resto)
  PROVE  TypeOK'
<1>1. e.pedido \in Pedidos /\ e.aplicado \in Aplicado
  BY DEF TypeOK, Evento, Aplicado
<1>2. Nenhum \in Aplicado
  BY DEF Aplicado
<1>3. CASE temEfeitoAplicado(e.aplicado) /\ pedidos[e.pedido] = Nenhum
  <2>1. aplicarPlano(e.pedido, Nenhum, e.aplicado, JaRevertidos(e.pedido))
    BY <1>3 DEF reverterEstoquePedidoExcluido
  <2>2. /\ estoques' \in [Estoques -> Contador]
        /\ razao' \in [Estoques -> LinhaRazao]
        /\ lancado' \in [Pedidos -> [Estoques -> LinhaRazao]]
    BY <1>1, <1>2, <2>1, AplicarTipo
  <2>3. exclusoes' \subseteq Pedidos \X Estoques
    BY <1>1, <1>3 DEF reverterEstoquePedidoExcluido, TypeOK, Tocados
  <2>4. QED
    BY <2>2, <2>3 DEF reverterEstoquePedidoExcluido, TypeOK, config
<1>4. CASE ~(temEfeitoAplicado(e.aplicado) /\ pedidos[e.pedido] = Nenhum)
  BY <1>4 DEF reverterEstoquePedidoExcluido, TypeOK, config
<1>5. QED
  BY <1>3, <1>4

LEMMA TriggerTipo ==
  ASSUME TypeOK, NEW e \in fila, NEW resto \in SUBSET Evento,
         onPedidoEstoqueSync(e, resto)
  PROVE  TypeOK'
<1>1. CASE e.tipo = "exclusao" /\ reverterEstoquePedidoExcluido(e, resto)
  BY <1>1, ReverterTipo
<1>2. CASE e.tipo = "escrita" /\ ~e.mudou /\ Ignorar(resto)
  BY <1>2 DEF Ignorar, TypeOK, config
<1>3. CASE e.tipo = "escrita" /\ e.mudou
             /\ sincronizarEstoquePedido(e.pedido, e.anterior, resto)
  <2>1. e.pedido \in Pedidos
    BY DEF TypeOK, Evento
  <2>2. QED
    BY <1>3, <2>1, SincronizarTipo
<1>4. QED
  BY <1>1, <1>2, <1>3 DEF onPedidoEstoqueSync

LEMMA MovimentoManualTipo ==
  ASSUME TypeOK, NEW m \in Movimentos, aplicarMovimento(m)
  PROVE  TypeOK'
<1> DEFINE k == <<m.produto, m.deposito>>
           plan == planMovimentacao(m, estoques[k])
<1>1. m \in Movimento
  BY EstoquePedidoAssumption
<1>2. k \in Estoques
  BY <1>1 DEF Movimento, Estoques
<1>3. estoques[k].quantidade \in Int /\ estoques[k].quantidadeReservada \in Nat
  BY <1>2 DEF TypeOK, Contador
<1>4. m.quantidade \in Nat /\ m.quantidadeReservada \in Nat
  BY <1>1 DEF Movimento
<1>5. plan.contador \in Contador /\ plan.linha \in LinhaRazao
  <2>1. CASE m.tipo = "balanco"
    BY <1>3, <1>4, <2>1 DEF planMovimentacao, movimentoAbsoluto, Contador, LinhaRazao, Maior
  <2>2. CASE m.tipo = "saida"
    BY <1>3, <1>4, <2>2 DEF planMovimentacao, movimentoIncremental, Contador, LinhaRazao, Maior
  <2>3. CASE m.tipo = "entrada"
    BY <1>3, <1>4, <2>3 DEF planMovimentacao, movimentoIncremental, Contador, LinhaRazao, Maior
  <2>4. QED
    BY <1>1, <2>1, <2>2, <2>3 DEF Movimento
<1>6. estoques' = [estoques EXCEPT ![k] = plan.contador]
  BY DEF aplicarMovimento
<1>7. razao' = [razao EXCEPT ![k] =
         [movimento |-> @.movimento + plan.linha.movimento,
          movimentoReservada |-> @.movimentoReservada + plan.linha.movimentoReservada]]
  BY DEF aplicarMovimento
<1>8. manuais' \in 0..MaxManuais
  BY EstoquePedidoAssumption DEF aplicarMovimento, TypeOK
<1> HIDE DEF k, plan
<1>9. estoques' \in [Estoques -> Contador]
  BY <1>2, <1>5, <1>6 DEF TypeOK
<1>10. razao' \in [Estoques -> LinhaRazao]
  BY <1>2, <1>5, <1>7 DEF TypeOK, LinhaRazao
<1>11. QED
  BY <1>8, <1>9, <1>10 DEF aplicarMovimento, TypeOK, config

LEMMA TipoInicial == Init => TypeOK
  BY EstoquePedidoAssumption
  DEF Init, TypeOK, SemLancamento, LinhaRazao

LEMMA TipoPreservado == TypeOK /\ [Next]_vars => TypeOK'
<1> SUFFICES ASSUME TypeOK, [Next]_vars PROVE TypeOK'
  OBVIOUS
<1>1. ASSUME NEW ped \in Pedidos, NEW r \in Rascunhos, CriarPedido(ped, r)
      PROVE  TypeOK'
  <2>1. fila \in SUBSET Evento
    BY DEF TypeOK
  <2>2. pedidos' \in [Pedidos -> PedidoDoc \cup {Nenhum}] /\ fila' \subseteq Evento
    BY <1>1, <2>1, RascunhoTipo, RegistrarTipo DEF CriarPedido, TypeOK
  <2>3. QED
    BY <1>1, <2>2 DEF CriarPedido, TypeOK, config
<1>2. ASSUME NEW ped \in Pedidos, NEW r \in Rascunhos, SalvarPedido(ped, r)
      PROVE  TypeOK'
  <2>1. fila \in SUBSET Evento /\ pedidos[ped] \in PedidoDoc
    BY <1>2 DEF TypeOK, SalvarPedido
  <2>2. pedidos' \in [Pedidos -> PedidoDoc \cup {Nenhum}] /\ fila' \subseteq Evento
    BY <1>2, <2>1, RascunhoTipo, RegistrarTipo DEF SalvarPedido, TypeOK
  <2>3. QED
    BY <1>2, <2>2 DEF SalvarPedido, TypeOK, config
<1>3. ASSUME NEW ped \in Pedidos, ExcluirPedido(ped)
      PROVE  TypeOK'
  <2>1. pedidos[ped] \in PedidoDoc
    BY <1>3 DEF TypeOK, ExcluirPedido
  <2>2. EventoExclusao(ped, pedidos[ped]) \in Evento
    BY <2>1, EventoExclusaoTipo
  <2>3. pedidos[ped].estoqueAplicado \in EstoqueAplicado \cup {Nenhum}
    BY <2>1 DEF PedidoDoc
  <2>4. QED
    BY <1>3, <2>2, <2>3 DEF ExcluirPedido, TypeOK, config
<1>4. ASSUME NEW ed \in EdicoesIntegracao, SalvarIntegracao(ed[1], ed[2])
      PROVE  TypeOK'
  BY <1>4, EstoquePedidoAssumption DEF SalvarIntegracao, AfetaPedidos, TypeOK
<1>5. ASSUME NEW ed \in EdicoesOperacao, SalvarOperacao(ed[1], ed[2])
      PROVE  TypeOK'
  BY <1>5, EstoquePedidoAssumption DEF SalvarOperacao, AfetaPedidos, TypeOK
<1>6. ASSUME NEW ed \in EdicoesProduto, SalvarProduto(ed[1], ed[2])
      PROVE  TypeOK'
  BY <1>6, EstoquePedidoAssumption DEF SalvarProduto, AfetaPedidos, TypeOK
<1>7. ASSUME NEW m \in Movimentos, aplicarMovimento(m)
      PROVE  TypeOK'
  BY <1>7, MovimentoManualTipo
<1>8. ASSUME NEW e \in fila, Entregar(e) \/ EntregarEReentregar(e)
      PROVE  TypeOK'
  <2>1. fila \in SUBSET Evento /\ fila \ {e} \in SUBSET Evento
    BY DEF TypeOK
  <2>2. QED
    BY <1>8, <2>1, TriggerTipo DEF Entregar, EntregarEReentregar
<1>9. ASSUME NEW e \in fila, PerderEvento(e)
      PROVE  TypeOK'
  <2>1. e.pedido \in Pedidos
    BY DEF TypeOK, Evento
  <2>2. QED
    BY <1>9, <2>1 DEF PerderEvento, TypeOK, config
<1>10. ASSUME NEW ped \in Pedidos, resincronizarEstoquePedido(ped)
       PROVE  TypeOK'
  <2>1. fila \in SUBSET Evento
    BY DEF TypeOK
  <2>2. QED
    BY <1>10, <2>1, SincronizarTipo DEF resincronizarEstoquePedido
<1>11. CASE UNCHANGED vars
  BY <1>11 DEF vars, config, contas, TypeOK
<1>12. QED
  BY <1>1, <1>2, <1>3, <1>4, <1>5, <1>6, <1>7, <1>8, <1>9, <1>10, <1>11 DEF Next

(* Every document of the sync keeps its type and quantidadeReservada is    *)
(* never negative, whatever is delivered, saved or moved by hand           *)
(* (aplicarPlano's floor, movimentoEstoqueWrite's maximum(0)).             *)
THEOREM TipoCorreto == Spec => []TypeOK
  BY TipoInicial, TipoPreservado, PTL DEF Spec

-----------------------------------------------------------------------------
(* Exactly once.  CadaPedidoUmaVez is not inductive: it needs to know that *)
(* a deleted id stays deleted, that a reversal row exists only for a       *)
(* deleted pedido, that a deletion event carries the last snapshot, and    *)
(* that a pedido still in the Flutter-era shape was never reconstructed.   *)

ExcluidoNaoExiste ==
  \A ped \in excluidos : pedidos[ped] = Nenhum

ReversaoSoDeExcluido ==
  \A ped \in Pedidos, k \in Estoques : <<ped, k>> \in exclusoes => ped \in excluidos

SemUltimoEnquantoVivo ==
  \A ped \in Pedidos : ped \notin excluidos => ultimo[ped] = Nenhum

EventoLevaUltimo ==
  \A e \in fila : e.tipo = "exclusao" =>
    e.pedido \in excluidos /\ e.aplicado = ultimo[e.pedido]

LegadoNaoHerdou ==
  \A ped \in Pedidos :
    pedidos[ped] # Nenhum /\ ehMarcadorLegado(pedidos[ped]) => herdado[ped] = Nenhum

Exclusoes ==
  /\ ExcluidoNaoExiste
  /\ ReversaoSoDeExcluido
  /\ SemUltimoEnquantoVivo
  /\ EventoLevaUltimo

InvUmaVez == TypeOK /\ Exclusoes /\ LegadoNaoHerdou /\ CadaPedidoUmaVez

(* An estoque a plan leaves alone is one where it changes nothing, so the  *)
(* row sums move by the difference of the two snapshots everywhere.        *)
LEMMA LancadoPorDelta ==
  ASSUME TypeOK, NEW ped \in Pedidos, NEW alvo \in Aplicado, NEW base \in Aplicado,
         aplicarPlano(ped, alvo, base, {}), NEW k \in Estoques
  PROVE  lancado'[ped][k].movimento
           = lancado[ped][k].movimento + Fisico(alvo, k[1], k[2]) - Fisico(base, k[1], k[2])
<1> DEFINE d == DeltaQuantidade(alvo, base, k[1], k[2])
<1>1. k[1] \in Produtos
  BY DEF Estoques
<1>2. lancado[ped][k].movimento \in Int
  BY DEF TypeOK, LinhaRazao
<1>3. Fisico(alvo, k[1], k[2]) \in Int /\ Fisico(base, k[1], k[2]) \in Int
  BY <1>1, ContribuicaoTipo
<1>4. lancado'[ped][k].movimento =
        IF k \in Tocados(alvo, base, {}) THEN lancado[ped][k].movimento + d
        ELSE lancado[ped][k].movimento
  BY DEF aplicarPlano, RazaoDepois, TypeOK
<1>5. k \notin Tocados(alvo, base, {}) => d = 0
  BY DEF Tocados, TemDelta
<1>6. QED
  BY <1>2, <1>3, <1>4, <1>5 DEF DeltaQuantidade

LEMMA OutrosNaoLancam ==
  ASSUME TypeOK, NEW ped \in Pedidos, NEW alvo, NEW base, NEW ja,
         aplicarPlano(ped, alvo, base, ja), NEW outro \in Pedidos \ {ped}
  PROVE  lancado'[outro] = lancado[outro]
  BY DEF aplicarPlano, TypeOK

(* The event a save puts in flight is not a deletion. *)
LEMMA RegistrarEscrita ==
  ASSUME NEW ped, NEW before, NEW after, NEW resto,
         Registrar(ped, before, after, resto), NEW e \in fila', e.tipo = "exclusao"
  PROVE  e \in resto
  BY DEF Registrar, EventoEscrita

LEMMA SincronizarUmaVez ==
  ASSUME InvUmaVez, NEW ped \in Pedidos, NEW anterior, NEW resto \in SUBSET fila,
         sincronizarEstoquePedido(ped, anterior, resto)
  PROVE  Exclusoes' /\ LegadoNaoHerdou' /\ CadaPedidoUmaVez'
<1> USE DEF InvUmaVez
<1>1. CASE TemOQueFazer(ped, anterior)
  <2> DEFINE doc == pedidos[ped]
             plano == Plano(doc, anterior)
             novo == ComSnapshot(doc, plano.alvo)
  <2>1. /\ doc \in PedidoDoc
        /\ plano.alvo \in Aplicado
        /\ plano.base \in Aplicado
    BY <1>1, PlanoTipo DEF TemOQueFazer
  <2>2. doc # Nenhum
    BY <2>1, EstoquePedidoAssumption
  <2>3. /\ aplicarPlano(ped, plano.alvo, plano.base, {})
        /\ Registrar(ped, doc, novo, resto)
        /\ herdado' = [herdado EXCEPT ![ped] =
                         IF Reconstroi(doc, anterior) THEN plano.base ELSE @]
        /\ UNCHANGED <<exclusoes, excluidos, ultimo>>
    BY <1>1 DEF sincronizarEstoquePedido, Convergir
  <2>4. novo \in PedidoDoc
    BY <2>1, ComSnapshotTipo
  <2>5. novo.estoqueAplicado = plano.alvo /\ novo # Nenhum
    BY <2>1, <2>4, EstoquePedidoAssumption DEF ComSnapshot, PedidoDoc
  <2>6. ~ehMarcadorLegado(novo)
    BY <2>1 DEF ComSnapshot, PedidoDoc, ehMarcadorLegado, temMovimentoAplicado
  <2>7. Reconstroi(doc, anterior) => doc.estoqueAplicado = Nenhum /\ herdado[ped] = Nenhum
    BY <2>2 DEF Reconstroi, ehMarcadorLegado, LegadoNaoHerdou
  <2>8. ~Reconstroi(doc, anterior) => plano.base = doc.estoqueAplicado
    BY DEF Plano, PlanoAtivo, AplicadoBase
  <2>9. Reconstroi(doc, anterior) \in BOOLEAN
    BY <2>1 DEF Reconstroi, ehMarcadorLegado, PedidoDoc
  <2> HIDE DEF doc, plano, novo
  <2>10. pedidos' = [pedidos EXCEPT ![ped] = novo]
    BY <2>3 DEF Registrar
  <2>11. \A e \in fila' : e.tipo = "exclusao" => e \in fila
    BY <2>3, RegistrarEscrita
  <2>12. ped \notin excluidos
    BY <2>2 DEF doc, Exclusoes, ExcluidoNaoExiste
  <2>13. Exclusoes'
    BY <2>3, <2>10, <2>11, <2>12
    DEF Exclusoes, ExcluidoNaoExiste, ReversaoSoDeExcluido, SemUltimoEnquantoVivo,
        EventoLevaUltimo, TypeOK
  <2>14. LegadoNaoHerdou'
    BY <2>3, <2>6, <2>10 DEF LegadoNaoHerdou, TypeOK
  <2>15. ASSUME NEW k \in Estoques
         PROVE  lancado'[ped][k].movimento
                  = Fisico(Vigente(ped, k)', k[1], k[2]) - Fisico(herdado'[ped], k[1], k[2])
    <3>1. Vigente(ped, k)' = plano.alvo
      BY <2>5, <2>10 DEF Vigente, TypeOK
    <3>2. lancado[ped][k].movimento
            = Fisico(doc.estoqueAplicado, k[1], k[2]) - Fisico(herdado[ped], k[1], k[2])
      BY <2>2 DEF CadaPedidoUmaVez, Vigente, doc
    <3>3. lancado'[ped][k].movimento
            = lancado[ped][k].movimento + Fisico(plano.alvo, k[1], k[2])
                - Fisico(plano.base, k[1], k[2])
      BY <2>1, <2>3, LancadoPorDelta
    <3>4. /\ Fisico(plano.alvo, k[1], k[2]) \in Int
          /\ Fisico(plano.base, k[1], k[2]) \in Int
          /\ Fisico(herdado[ped], k[1], k[2]) \in Int
      BY <2>1, ContribuicaoTipo DEF Estoques, TypeOK, Aplicado
    <3>5. CASE Reconstroi(doc, anterior)
      <4>1. herdado'[ped] = plano.base
        BY <2>3, <3>5 DEF TypeOK
      <4>2. /\ Fisico(doc.estoqueAplicado, k[1], k[2]) = 0
            /\ Fisico(herdado[ped], k[1], k[2]) = 0
        BY <2>7, <3>5 DEF Fisico
      <4>3. QED
        BY <3>1, <3>2, <3>3, <3>4, <4>1, <4>2
    <3>6. CASE ~Reconstroi(doc, anterior)
      <4>1. herdado'[ped] = herdado[ped]
        BY <2>3, <3>6 DEF TypeOK
      <4>2. QED
        BY <2>8, <3>1, <3>2, <3>3, <3>4, <3>6, <4>1
    <3>7. QED
      BY <3>5, <3>6
  <2>16. ASSUME NEW outro \in Pedidos \ {ped}, NEW k \in Estoques
         PROVE  lancado'[outro][k].movimento
                  = Fisico(Vigente(outro, k)', k[1], k[2]) - Fisico(herdado'[outro], k[1], k[2])
    <3>1. lancado'[outro] = lancado[outro]
      BY <2>3, OutrosNaoLancam
    <3>2. Vigente(outro, k)' = Vigente(outro, k) /\ herdado'[outro] = herdado[outro]
      BY <2>3, <2>10 DEF Vigente, TypeOK
    <3>3. QED
      BY <3>1, <3>2 DEF CadaPedidoUmaVez
  <2>17. CadaPedidoUmaVez'
    BY <2>15, <2>16 DEF CadaPedidoUmaVez
  <2>18. QED
    BY <2>13, <2>14, <2>17
<1>2. CASE ~TemOQueFazer(ped, anterior)
  <2>1. /\ fila' \subseteq fila
        /\ UNCHANGED <<pedidos, lancado, exclusoes, herdado, excluidos, ultimo>>
    BY <1>2 DEF sincronizarEstoquePedido
  <2>2. QED
    BY <2>1 DEF Exclusoes, ExcluidoNaoExiste, ReversaoSoDeExcluido, SemUltimoEnquantoVivo,
                EventoLevaUltimo, LegadoNaoHerdou, CadaPedidoUmaVez, Vigente
<1>3. QED
  BY <1>1, <1>2

LEMMA ReverterUmaVez ==
  ASSUME InvUmaVez, NEW e \in fila, e.tipo = "exclusao", NEW resto \in SUBSET fila,
         reverterEstoquePedidoExcluido(e, resto)
  PROVE  Exclusoes' /\ LegadoNaoHerdou' /\ CadaPedidoUmaVez'
<1> USE DEF InvUmaVez
<1> DEFINE ped == e.pedido
           tocados == Tocados(Nenhum, ultimo[ped], JaRevertidos(ped))
<1>1. /\ ped \in Pedidos
      /\ ped \in excluidos
      /\ e.aplicado = ultimo[ped]
      /\ ultimo[ped] \in Aplicado
  BY DEF TypeOK, Evento, Exclusoes, EventoLevaUltimo, Aplicado
<1>2. fila' = resto /\ UNCHANGED <<pedidos, herdado, excluidos, ultimo>>
  BY DEF reverterEstoquePedidoExcluido
<1>3. CASE temEfeitoAplicado(e.aplicado) /\ pedidos[ped] = Nenhum
  <2>1. /\ aplicarPlano(ped, Nenhum, ultimo[ped], JaRevertidos(ped))
        /\ exclusoes' = exclusoes \cup ({ped} \X tocados)
    BY <1>1, <1>3 DEF reverterEstoquePedidoExcluido
  <2>2. Exclusoes'
    BY <1>1, <1>2, <2>1
    DEF Exclusoes, ExcluidoNaoExiste, ReversaoSoDeExcluido, SemUltimoEnquantoVivo,
        EventoLevaUltimo
  <2>3. LegadoNaoHerdou'
    BY <1>2 DEF LegadoNaoHerdou
  <2>4. ASSUME NEW k \in Estoques
        PROVE  lancado'[ped][k].movimento
                 = Fisico(Vigente(ped, k)', k[1], k[2]) - Fisico(herdado'[ped], k[1], k[2])
    <3>1. lancado[ped][k].movimento
            = Fisico(Vigente(ped, k), k[1], k[2]) - Fisico(herdado[ped], k[1], k[2])
      BY <1>1 DEF CadaPedidoUmaVez
    <3>2. /\ Fisico(ultimo[ped], k[1], k[2]) \in Int
          /\ Fisico(herdado[ped], k[1], k[2]) \in Int
          /\ Fisico(Nenhum, k[1], k[2]) = 0
      BY <1>1, ContribuicaoTipo DEF Estoques, TypeOK, Aplicado, Fisico
    <3>3. lancado'[ped][k].movimento =
            IF k \in tocados
            THEN lancado[ped][k].movimento + DeltaQuantidade(Nenhum, ultimo[ped], k[1], k[2])
            ELSE lancado[ped][k].movimento
      BY <1>1, <2>1 DEF aplicarPlano, RazaoDepois, TypeOK
    <3>4. CASE k \in tocados
      <4>1. <<ped, k>> \notin exclusoes /\ <<ped, k>> \in exclusoes'
        BY <2>1, <3>4 DEF Tocados, JaRevertidos
      <4>2. Vigente(ped, k) = ultimo[ped] /\ Vigente(ped, k)' = Nenhum
        BY <1>2, <1>3, <4>1 DEF Vigente
      <4>3. QED
        BY <1>2, <3>1, <3>2, <3>3, <3>4, <4>2 DEF DeltaQuantidade
    <3>5. CASE k \notin tocados
      <4>1. <<ped, k>> \in exclusoes' <=> <<ped, k>> \in exclusoes
        BY <2>1, <3>5
      <4>2. Vigente(ped, k)' = Vigente(ped, k)
        BY <1>2, <1>3, <4>1 DEF Vigente
      <4>3. QED
        BY <1>2, <3>1, <3>3, <3>5, <4>2
    <3>6. QED
      BY <3>4, <3>5
  <2>5. ASSUME NEW outro \in Pedidos \ {ped}, NEW k \in Estoques
        PROVE  lancado'[outro][k].movimento
                 = Fisico(Vigente(outro, k)', k[1], k[2]) - Fisico(herdado'[outro], k[1], k[2])
    <3>1. lancado'[outro] = lancado[outro]
      BY <1>1, <2>1, OutrosNaoLancam
    <3>2. <<outro, k>> \in exclusoes' <=> <<outro, k>> \in exclusoes
      BY <2>1
    <3>3. Vigente(outro, k)' = Vigente(outro, k) /\ herdado'[outro] = herdado[outro]
      BY <1>2, <3>2 DEF Vigente
    <3>4. QED
      BY <3>1, <3>3 DEF CadaPedidoUmaVez
  <2>6. CadaPedidoUmaVez'
    BY <2>4, <2>5 DEF CadaPedidoUmaVez
  <2>7. QED
    BY <2>2, <2>3, <2>6
<1>4. CASE ~(temEfeitoAplicado(e.aplicado) /\ pedidos[ped] = Nenhum)
  <2>1. UNCHANGED <<lancado, exclusoes>>
    BY <1>4 DEF reverterEstoquePedidoExcluido
  <2>2. QED
    BY <1>2, <2>1 DEF Exclusoes, ExcluidoNaoExiste, ReversaoSoDeExcluido,
      SemUltimoEnquantoVivo, EventoLevaUltimo, LegadoNaoHerdou, CadaPedidoUmaVez, Vigente
<1>5. QED
  BY <1>3, <1>4

LEMMA TriggerUmaVez ==
  ASSUME InvUmaVez, NEW e \in fila, NEW resto \in SUBSET fila,
         onPedidoEstoqueSync(e, resto)
  PROVE  Exclusoes' /\ LegadoNaoHerdou' /\ CadaPedidoUmaVez'
<1>1. CASE e.tipo = "exclusao" /\ reverterEstoquePedidoExcluido(e, resto)
  BY <1>1, ReverterUmaVez
<1>2. CASE e.tipo = "escrita" /\ ~e.mudou /\ Ignorar(resto)
  BY <1>2 DEF Ignorar, InvUmaVez, Exclusoes, ExcluidoNaoExiste, ReversaoSoDeExcluido,
    SemUltimoEnquantoVivo, EventoLevaUltimo, LegadoNaoHerdou, CadaPedidoUmaVez, Vigente
<1>3. CASE e.tipo = "escrita" /\ e.mudou
             /\ sincronizarEstoquePedido(e.pedido, e.anterior, resto)
  <2>1. e.pedido \in Pedidos
    BY DEF InvUmaVez, TypeOK, Evento
  <2>2. QED
    BY <1>3, <2>1, SincronizarUmaVez
<1>4. QED
  BY <1>1, <1>2, <1>3 DEF onPedidoEstoqueSync

(* A save changes neither the snapshot nor the markers, so what the pedido *)
(* holds stays what its rows add up to.                                    *)
LEMMA SalvarUmaVez ==
  ASSUME InvUmaVez, NEW ped \in Pedidos, NEW r \in Rascunhos,
         CriarPedido(ped, r) \/ SalvarPedido(ped, r)
  PROVE  Exclusoes' /\ LegadoNaoHerdou' /\ CadaPedidoUmaVez'
<1> USE DEF InvUmaVez
<1>1. PICK novo \in PedidoDoc :
        /\ pedidos' = [pedidos EXCEPT ![ped] = novo]
        /\ \A e \in fila' : e.tipo = "exclusao" => e \in fila
        /\ UNCHANGED <<lancado, exclusoes, herdado, excluidos, ultimo>>
        /\ ped \notin excluidos
        /\ novo.estoqueAplicado = IF pedidos[ped] = Nenhum THEN Nenhum
                                  ELSE pedidos[ped].estoqueAplicado
        /\ ehMarcadorLegado(novo)
              => pedidos[ped] # Nenhum /\ ehMarcadorLegado(pedidos[ped])
  <2>1. CASE CriarPedido(ped, r)
    <3>1. NovoPedido(r) \in PedidoDoc
      BY RascunhoTipo
    <3>2. \A e \in fila' : e.tipo = "exclusao" => e \in fila
      BY <2>1, RegistrarEscrita DEF CriarPedido
    <3>3. /\ NovoPedido(r).estoqueAplicado = Nenhum
          /\ ~ehMarcadorLegado(NovoPedido(r))
      BY DEF NovoPedido, ehMarcadorLegado
    <3>4. QED
      BY <2>1, <3>1, <3>2, <3>3 DEF CriarPedido, Registrar
  <2>2. CASE SalvarPedido(ped, r)
    <3>1. pedidos[ped] \in PedidoDoc
      BY <2>2 DEF SalvarPedido, TypeOK
    <3>2. ComRascunho(pedidos[ped], r) \in PedidoDoc
      BY <3>1, RascunhoTipo
    <3>3. \A e \in fila' : e.tipo = "exclusao" => e \in fila
      BY <2>2, RegistrarEscrita DEF SalvarPedido
    <3>4. /\ ComRascunho(pedidos[ped], r).estoqueAplicado = pedidos[ped].estoqueAplicado
          /\ ComRascunho(pedidos[ped], r).marcaReserva = pedidos[ped].marcaReserva
          /\ ComRascunho(pedidos[ped], r).marcaRemocao = pedidos[ped].marcaRemocao
      BY <3>1 DEF ComRascunho, NovoPedido, PedidoDoc
    <3>5. ehMarcadorLegado(ComRascunho(pedidos[ped], r)) => ehMarcadorLegado(pedidos[ped])
      BY <3>4 DEF ehMarcadorLegado
    <3>6. ped \notin excluidos
      BY <2>2 DEF SalvarPedido, Exclusoes, ExcluidoNaoExiste
    <3>7. QED
      BY <2>2, <3>2, <3>3, <3>4, <3>5, <3>6 DEF SalvarPedido, Registrar
  <2>3. QED
    BY <2>1, <2>2
<1>2. novo # Nenhum
  BY EstoquePedidoAssumption
<1>3. Exclusoes'
  BY <1>1 DEF Exclusoes, ExcluidoNaoExiste, ReversaoSoDeExcluido, SemUltimoEnquantoVivo,
              EventoLevaUltimo, TypeOK
<1>4. LegadoNaoHerdou'
  BY <1>1 DEF LegadoNaoHerdou, TypeOK
<1>5. ASSUME NEW k \in Estoques
      PROVE  Vigente(ped, k)' = Vigente(ped, k)
  <2>1. Vigente(ped, k)' = novo.estoqueAplicado
    BY <1>1, <1>2 DEF Vigente, TypeOK
  <2>2. pedidos[ped] = Nenhum => Vigente(ped, k) = Nenhum
    BY <1>1 DEF Vigente, Exclusoes, SemUltimoEnquantoVivo
  <2>3. QED
    BY <1>1, <2>1, <2>2 DEF Vigente
<1>6. ASSUME NEW outro \in Pedidos \ {ped}, NEW k \in Estoques
      PROVE  Vigente(outro, k)' = Vigente(outro, k)
  BY <1>1 DEF Vigente, TypeOK
<1>7. CadaPedidoUmaVez'
  BY <1>1, <1>5, <1>6 DEF CadaPedidoUmaVez
<1>8. QED
  BY <1>3, <1>4, <1>7

LEMMA ExcluirUmaVez ==
  ASSUME InvUmaVez, NEW ped \in Pedidos, ExcluirPedido(ped)
  PROVE  Exclusoes' /\ LegadoNaoHerdou' /\ CadaPedidoUmaVez'
<1> USE DEF InvUmaVez
<1>1. /\ pedidos[ped] # Nenhum
      /\ pedidos' = [pedidos EXCEPT ![ped] = Nenhum]
      /\ fila' = fila \cup {EventoExclusao(ped, pedidos[ped])}
      /\ excluidos' = excluidos \cup {ped}
      /\ ultimo' = [ultimo EXCEPT ![ped] = pedidos[ped].estoqueAplicado]
      /\ UNCHANGED <<lancado, exclusoes, herdado>>
  BY DEF ExcluirPedido
<1>2. ped \notin excluidos
  BY <1>1 DEF Exclusoes, ExcluidoNaoExiste
<1>3. Exclusoes'
  <2>1. ExcluidoNaoExiste'
    BY <1>1 DEF Exclusoes, ExcluidoNaoExiste, TypeOK
  <2>2. ReversaoSoDeExcluido' /\ SemUltimoEnquantoVivo'
    BY <1>1 DEF Exclusoes, ReversaoSoDeExcluido, SemUltimoEnquantoVivo, TypeOK
  <2>3. EventoLevaUltimo'
    BY <1>1, <1>2 DEF Exclusoes, EventoLevaUltimo, EventoExclusao, TypeOK
  <2>4. QED
    BY <2>1, <2>2, <2>3 DEF Exclusoes
<1>4. LegadoNaoHerdou'
  BY <1>1 DEF LegadoNaoHerdou, TypeOK
<1>5. ASSUME NEW k \in Estoques
      PROVE  Vigente(ped, k)' = Vigente(ped, k)
  <2>1. <<ped, k>> \notin exclusoes
    BY <1>2 DEF Exclusoes, ReversaoSoDeExcluido
  <2>2. QED
    BY <1>1, <2>1 DEF Vigente, TypeOK
<1>6. ASSUME NEW outro \in Pedidos \ {ped}, NEW k \in Estoques
      PROVE  Vigente(outro, k)' = Vigente(outro, k)
  BY <1>1 DEF Vigente, TypeOK
<1>7. CadaPedidoUmaVez'
  BY <1>1, <1>5, <1>6 DEF CadaPedidoUmaVez
<1>8. QED
  BY <1>3, <1>4, <1>7

LEMMA UmaVezInicial == Init => InvUmaVez
<1> SUFFICES ASSUME Init PROVE Exclusoes /\ LegadoNaoHerdou /\ CadaPedidoUmaVez
  BY TipoInicial DEF InvUmaVez
<1>1. Exclusoes /\ LegadoNaoHerdou
  BY DEF Init, Exclusoes, ExcluidoNaoExiste, ReversaoSoDeExcluido,
    SemUltimoEnquantoVivo, EventoLevaUltimo, LegadoNaoHerdou
<1>2. ASSUME NEW ped \in Pedidos, NEW k \in Estoques
      PROVE  lancado[ped][k].movimento = 0 /\ Vigente(ped, k) = Nenhum /\ herdado[ped] = Nenhum
  BY EstoquePedidoAssumption DEF Init, SemLancamento, Vigente
<1>3. QED
  BY <1>1, <1>2 DEF CadaPedidoUmaVez, Fisico

LEMMA UmaVezPreservado == InvUmaVez /\ [Next]_vars => InvUmaVez'
<1> SUFFICES ASSUME InvUmaVez, [Next]_vars
             PROVE  Exclusoes' /\ LegadoNaoHerdou' /\ CadaPedidoUmaVez'
  BY TipoPreservado DEF InvUmaVez
<1>1. ASSUME NEW ped \in Pedidos, NEW r \in Rascunhos,
             CriarPedido(ped, r) \/ SalvarPedido(ped, r)
      PROVE  Exclusoes' /\ LegadoNaoHerdou' /\ CadaPedidoUmaVez'
  BY <1>1, SalvarUmaVez
<1>2. ASSUME NEW ped \in Pedidos, ExcluirPedido(ped)
      PROVE  Exclusoes' /\ LegadoNaoHerdou' /\ CadaPedidoUmaVez'
  BY <1>2, ExcluirUmaVez
<1>3. ASSUME fila' \subseteq fila,
             UNCHANGED <<pedidos, lancado, exclusoes, herdado, excluidos, ultimo>>
      PROVE  Exclusoes' /\ LegadoNaoHerdou' /\ CadaPedidoUmaVez'
  BY <1>3 DEF InvUmaVez, Exclusoes, ExcluidoNaoExiste, ReversaoSoDeExcluido,
    SemUltimoEnquantoVivo, EventoLevaUltimo, LegadoNaoHerdou, CadaPedidoUmaVez, Vigente
<1>4. ASSUME NEW ed \in EdicoesIntegracao, SalvarIntegracao(ed[1], ed[2])
      PROVE  Exclusoes' /\ LegadoNaoHerdou' /\ CadaPedidoUmaVez'
  BY <1>3, <1>4 DEF SalvarIntegracao, AfetaPedidos
<1>5. ASSUME NEW ed \in EdicoesOperacao, SalvarOperacao(ed[1], ed[2])
      PROVE  Exclusoes' /\ LegadoNaoHerdou' /\ CadaPedidoUmaVez'
  BY <1>3, <1>5 DEF SalvarOperacao, AfetaPedidos
<1>6. ASSUME NEW ed \in EdicoesProduto, SalvarProduto(ed[1], ed[2])
      PROVE  Exclusoes' /\ LegadoNaoHerdou' /\ CadaPedidoUmaVez'
  BY <1>3, <1>6 DEF SalvarProduto, AfetaPedidos
<1>7. ASSUME NEW m \in Movimentos, aplicarMovimento(m)
      PROVE  Exclusoes' /\ LegadoNaoHerdou' /\ CadaPedidoUmaVez'
  BY <1>3, <1>7 DEF aplicarMovimento
<1>8. ASSUME NEW e \in fila, Entregar(e) \/ EntregarEReentregar(e)
      PROVE  Exclusoes' /\ LegadoNaoHerdou' /\ CadaPedidoUmaVez'
  <2>1. fila \in SUBSET fila /\ fila \ {e} \in SUBSET fila
    OBVIOUS
  <2>2. QED
    BY <1>8, <2>1, TriggerUmaVez DEF Entregar, EntregarEReentregar
<1>9. ASSUME NEW e \in fila, PerderEvento(e)
      PROVE  Exclusoes' /\ LegadoNaoHerdou' /\ CadaPedidoUmaVez'
  BY <1>3, <1>9 DEF PerderEvento
<1>10. ASSUME NEW ped \in Pedidos, resincronizarEstoquePedido(ped)
       PROVE  Exclusoes' /\ LegadoNaoHerdou' /\ CadaPedidoUmaVez'
  <2>1. fila \in SUBSET fila
    OBVIOUS
  <2>2. QED
    BY <1>10, <2>1, SincronizarUmaVez DEF resincronizarEstoquePedido
<1>11. CASE UNCHANGED vars
  BY <1>3, <1>11 DEF vars, contas
<1>12. QED
  BY <1>1, <1>2, <1>4, <1>5, <1>6, <1>7, <1>8, <1>9, <1>10, <1>11 DEF Next

(* Exactly once: whatever is delivered twice, late, out of order or lost,  *)
(* and whatever is saved, reconfigured, resynced or deleted meanwhile, the *)
(* ledger rows of a pedido add up to what its snapshot holds               *)
(* (sincronizarEstoquePedido, reverterEstoquePedidoExcluido).              *)
THEOREM UmaVez == Spec => []CadaPedidoUmaVez
<1>1. InvUmaVez => CadaPedidoUmaVez
  BY DEF InvUmaVez
<1>2. QED
  BY <1>1, UmaVezInicial, UmaVezPreservado, PTL DEF Spec

-----------------------------------------------------------------------------
(* The ledger is summable *)

InvRazao == TypeOK /\ RazaoSomaQuantidade /\ RazaoSomaReservada

LEMMA AplicarRazao ==
  ASSUME InvRazao, NEW ped \in Pedidos, NEW alvo \in Aplicado, NEW base \in Aplicado,
         NEW ja, aplicarPlano(ped, alvo, base, ja), manuais' = manuais
  PROVE  RazaoSomaQuantidade' /\ RazaoSomaReservada'
<1> USE DEF InvRazao
<1>1. ASSUME NEW k \in Estoques
      PROVE  /\ estoques'[k].quantidade - razao'[k].movimento
                   = estoques[k].quantidade - razao[k].movimento
             /\ estoques'[k].quantidadeReservada - razao'[k].movimentoReservada
                   = estoques[k].quantidadeReservada - razao[k].movimentoReservada
  <2>1. k[1] \in Produtos
    BY DEF Estoques
  <2>2. /\ estoques[k].quantidade \in Int /\ estoques[k].quantidadeReservada \in Int
        /\ razao[k].movimento \in Int /\ razao[k].movimentoReservada \in Int
    BY DEF TypeOK, Contador, LinhaRazao
  <2>3. /\ DeltaQuantidade(alvo, base, k[1], k[2]) \in Int
        /\ DeltaReservada(alvo, base, k[1], k[2]) \in Int
    BY <2>1, DeltaTipo
  <2>4. EstoqueDepois(k, alvo, base).quantidadeReservada \in Int
    BY <2>2, <2>3, MaiorTipo DEF EstoqueDepois
  <2>5. CASE k \in Tocados(alvo, base, ja)
    <3>1. estoques'[k] = EstoqueDepois(k, alvo, base)
          /\ razao'[k] = RazaoDepois(razao[k], k, alvo, base)
      BY <2>5 DEF aplicarPlano
    <3>2. QED
      BY <2>2, <2>3, <2>4, <3>1 DEF EstoqueDepois, RazaoDepois
  <2>6. CASE k \notin Tocados(alvo, base, ja)
    BY <2>6 DEF aplicarPlano
  <2>7. QED
    BY <2>5, <2>6
<1>2. ASSUME NEW k \in Estoques
      PROVE  /\ EstoquesIniciais[k].quantidade \in Int
             /\ EstoquesIniciais[k].quantidadeReservada \in Int
             /\ estoques[k].quantidade \in Int /\ estoques[k].quantidadeReservada \in Int
             /\ razao[k].movimento \in Int /\ razao[k].movimentoReservada \in Int
             /\ estoques'[k].quantidade \in Int /\ estoques'[k].quantidadeReservada \in Int
             /\ razao'[k].movimento \in Int /\ razao'[k].movimentoReservada \in Int
  BY EstoquePedidoAssumption, AplicarTipo DEF TypeOK, Contador, LinhaRazao
<1>3. QED
  BY <1>1, <1>2 DEF RazaoSomaQuantidade, RazaoSomaReservada

LEMMA SincronizarRazao ==
  ASSUME InvRazao, NEW ped \in Pedidos, NEW anterior, NEW resto,
         sincronizarEstoquePedido(ped, anterior, resto)
  PROVE  RazaoSomaQuantidade' /\ RazaoSomaReservada'
<1> USE DEF InvRazao
<1>1. CASE TemOQueFazer(ped, anterior)
  <2>1. /\ Plano(pedidos[ped], anterior).alvo \in Aplicado
        /\ Plano(pedidos[ped], anterior).base \in Aplicado
    BY <1>1, PlanoTipo DEF TemOQueFazer
  <2>2. aplicarPlano(ped, Plano(pedidos[ped], anterior).alvo,
                     Plano(pedidos[ped], anterior).base, {})
    BY <1>1 DEF sincronizarEstoquePedido, Convergir
  <2>3. manuais' = manuais
    BY DEF sincronizarEstoquePedido
  <2>4. QED
    BY <2>1, <2>2, <2>3, AplicarRazao
<1>2. CASE ~TemOQueFazer(ped, anterior)
  BY <1>2 DEF sincronizarEstoquePedido, RazaoSomaQuantidade, RazaoSomaReservada
<1>3. QED
  BY <1>1, <1>2

LEMMA TriggerRazao ==
  ASSUME InvRazao, NEW e \in fila, NEW resto, onPedidoEstoqueSync(e, resto)
  PROVE  RazaoSomaQuantidade' /\ RazaoSomaReservada'
<1> USE DEF InvRazao
<1>1. CASE e.tipo = "exclusao" /\ reverterEstoquePedidoExcluido(e, resto)
  <2>1. /\ e.pedido \in Pedidos /\ e.aplicado \in Aplicado /\ Nenhum \in Aplicado
    BY <1>1 DEF TypeOK, Evento, Aplicado
  <2>2. manuais' = manuais
    BY <1>1 DEF reverterEstoquePedidoExcluido
  <2>3. CASE temEfeitoAplicado(e.aplicado) /\ pedidos[e.pedido] = Nenhum
    <3>1. aplicarPlano(e.pedido, Nenhum, e.aplicado, JaRevertidos(e.pedido))
      BY <1>1, <2>3 DEF reverterEstoquePedidoExcluido
    <3>2. QED
      BY <2>1, <2>2, <3>1, AplicarRazao
  <2>4. CASE ~(temEfeitoAplicado(e.aplicado) /\ pedidos[e.pedido] = Nenhum)
    BY <1>1, <2>2, <2>4
    DEF reverterEstoquePedidoExcluido, RazaoSomaQuantidade, RazaoSomaReservada
  <2>5. QED
    BY <2>3, <2>4
<1>2. CASE e.tipo = "escrita" /\ ~e.mudou /\ Ignorar(resto)
  BY <1>2 DEF Ignorar, RazaoSomaQuantidade, RazaoSomaReservada
<1>3. CASE e.tipo = "escrita" /\ e.mudou
             /\ sincronizarEstoquePedido(e.pedido, e.anterior, resto)
  <2>1. e.pedido \in Pedidos
    BY DEF TypeOK, Evento
  <2>2. QED
    BY <1>3, <2>1, SincronizarRazao
<1>4. QED
  BY <1>1, <1>2, <1>3 DEF onPedidoEstoqueSync

(* A manual movement writes its row; it takes the reserved half of the     *)
(* ledger out of the claim.                                                *)
LEMMA MovimentoManualRazao ==
  ASSUME InvRazao, NEW m \in Movimentos, aplicarMovimento(m)
  PROVE  RazaoSomaQuantidade' /\ RazaoSomaReservada'
<1> USE DEF InvRazao
<1> DEFINE k == <<m.produto, m.deposito>>
           plan == planMovimentacao(m, estoques[k])
<1>1. m \in Movimento
  BY EstoquePedidoAssumption
<1>2. /\ k \in Estoques
      /\ m.quantidade \in Int
  BY <1>1 DEF Movimento, Estoques
<1>3. /\ estoques[k].quantidade \in Int
      /\ razao[k].movimento \in Int
  BY <1>2 DEF TypeOK, Contador, LinhaRazao
<1>4. plan.contador.quantidade = estoques[k].quantidade + plan.linha.movimento
      /\ plan.linha.movimento \in Int
  BY <1>2, <1>3 DEF planMovimentacao, movimentoAbsoluto, movimentoIncremental
<1>5. /\ estoques' = [estoques EXCEPT ![k] = plan.contador]
      /\ razao' = [razao EXCEPT ![k] =
           [movimento |-> @.movimento + plan.linha.movimento,
            movimentoReservada |-> @.movimentoReservada + plan.linha.movimentoReservada]]
      /\ manuais' = manuais + 1
  BY DEF aplicarMovimento
<1> HIDE DEF k, plan
<1>6. EstoquesIniciais[k].quantidade \in Int
  BY <1>2, EstoquePedidoAssumption DEF Contador
<1>7. RazaoSomaQuantidade'
  BY <1>2, <1>3, <1>4, <1>5, <1>6 DEF RazaoSomaQuantidade, TypeOK
<1>8. manuais' # 0
  BY <1>5 DEF TypeOK
<1>9. QED
  BY <1>7, <1>8 DEF RazaoSomaReservada

LEMMA RazaoInicial == Init => InvRazao
<1> SUFFICES ASSUME Init PROVE RazaoSomaQuantidade /\ RazaoSomaReservada
  BY TipoInicial DEF InvRazao
<1>1. ASSUME NEW k \in Estoques
      PROVE  /\ EstoquesIniciais[k].quantidade \in Int
             /\ EstoquesIniciais[k].quantidadeReservada \in Int
  BY EstoquePedidoAssumption DEF Contador
<1>2. QED
  BY <1>1 DEF Init, SemLancamento, RazaoSomaQuantidade, RazaoSomaReservada

LEMMA RazaoPreservada == InvRazao /\ [Next]_vars => InvRazao'
<1> SUFFICES ASSUME InvRazao, [Next]_vars
             PROVE  RazaoSomaQuantidade' /\ RazaoSomaReservada'
  BY TipoPreservado DEF InvRazao
<1>1. ASSUME UNCHANGED <<estoques, razao, manuais>>
      PROVE  RazaoSomaQuantidade' /\ RazaoSomaReservada'
  BY <1>1 DEF InvRazao, RazaoSomaQuantidade, RazaoSomaReservada
<1>2. ASSUME NEW ped \in Pedidos, NEW r \in Rascunhos,
             CriarPedido(ped, r) \/ SalvarPedido(ped, r)
      PROVE  RazaoSomaQuantidade' /\ RazaoSomaReservada'
  BY <1>1, <1>2 DEF CriarPedido, SalvarPedido
<1>3. ASSUME NEW ped \in Pedidos, ExcluirPedido(ped)
      PROVE  RazaoSomaQuantidade' /\ RazaoSomaReservada'
  BY <1>1, <1>3 DEF ExcluirPedido
<1>4. ASSUME NEW ed \in EdicoesIntegracao, SalvarIntegracao(ed[1], ed[2])
      PROVE  RazaoSomaQuantidade' /\ RazaoSomaReservada'
  BY <1>1, <1>4 DEF SalvarIntegracao, AfetaPedidos
<1>5. ASSUME NEW ed \in EdicoesOperacao, SalvarOperacao(ed[1], ed[2])
      PROVE  RazaoSomaQuantidade' /\ RazaoSomaReservada'
  BY <1>1, <1>5 DEF SalvarOperacao, AfetaPedidos
<1>6. ASSUME NEW ed \in EdicoesProduto, SalvarProduto(ed[1], ed[2])
      PROVE  RazaoSomaQuantidade' /\ RazaoSomaReservada'
  BY <1>1, <1>6 DEF SalvarProduto, AfetaPedidos
<1>7. ASSUME NEW m \in Movimentos, aplicarMovimento(m)
      PROVE  RazaoSomaQuantidade' /\ RazaoSomaReservada'
  BY <1>7, MovimentoManualRazao
<1>8. ASSUME NEW e \in fila, Entregar(e) \/ EntregarEReentregar(e)
      PROVE  RazaoSomaQuantidade' /\ RazaoSomaReservada'
  BY <1>8, TriggerRazao DEF Entregar, EntregarEReentregar
<1>9. ASSUME NEW e \in fila, PerderEvento(e)
      PROVE  RazaoSomaQuantidade' /\ RazaoSomaReservada'
  BY <1>1, <1>9 DEF PerderEvento
<1>10. ASSUME NEW ped \in Pedidos, resincronizarEstoquePedido(ped)
       PROVE  RazaoSomaQuantidade' /\ RazaoSomaReservada'
  BY <1>10, SincronizarRazao DEF resincronizarEstoquePedido
<1>11. CASE UNCHANGED vars
  BY <1>1, <1>11 DEF vars, contas
<1>12. QED
  BY <1>2, <1>3, <1>4, <1>5, <1>6, <1>7, <1>8, <1>9, <1>10, <1>11 DEF Next

(* ADR 0014's ledger: whoever moves quantidade leaves the row that says by *)
(* how much, so the rows always add up to the counter; while only the sync *)
(* writes, so do the rows of quantidadeReservada, which record the clamped *)
(* delta (aplicarPlano, aplicarMovimento).                                 *)
THEOREM RazaoDoEstoque == Spec => []RazaoSoma
<1>1. InvRazao => RazaoSoma
  BY DEF InvRazao, RazaoSoma
<1>2. QED
  BY <1>1, RazaoInicial, RazaoPreservada, PTL DEF Spec

-----------------------------------------------------------------------------
(* Markers and snapshot go together *)

LEMMA SincronizarNaoViraLegado ==
  ASSUME TypeOK, NEW quem \in Pedidos, NEW anterior, NEW resto,
         sincronizarEstoquePedido(quem, anterior, resto),
         NEW ped \in Pedidos, pedidos'[ped] # Nenhum, ehMarcadorLegado(pedidos'[ped])
  PROVE  pedidos'[ped] = pedidos[ped]
<1>1. CASE TemOQueFazer(quem, anterior)
  <2> DEFINE doc == pedidos[quem]
             alvo == Plano(doc, anterior).alvo
  <2>1. doc \in PedidoDoc /\ alvo \in Aplicado
    BY <1>1, PlanoTipo DEF TemOQueFazer
  <2>2. pedidos' = [pedidos EXCEPT ![quem] = ComSnapshot(doc, alvo)]
    BY <1>1 DEF sincronizarEstoquePedido, Convergir, Registrar
  <2>3. ~ehMarcadorLegado(ComSnapshot(doc, alvo))
    BY <2>1 DEF ComSnapshot, PedidoDoc, ehMarcadorLegado, temMovimentoAplicado
  <2>4. QED
    BY <2>2, <2>3 DEF TypeOK
<1>2. CASE ~TemOQueFazer(quem, anterior)
  BY <1>2 DEF sincronizarEstoquePedido
<1>3. QED
  BY <1>1, <1>2

LEMMA SalvarNaoViraLegado ==
  ASSUME TypeOK, NEW quem \in Pedidos, NEW r \in Rascunhos,
         CriarPedido(quem, r) \/ SalvarPedido(quem, r),
         NEW ped \in Pedidos, pedidos'[ped] # Nenhum, ehMarcadorLegado(pedidos'[ped])
  PROVE  pedidos[ped] # Nenhum /\ ehMarcadorLegado(pedidos[ped])
<1>1. CASE CriarPedido(quem, r)
  <2>1. ~ehMarcadorLegado(NovoPedido(r))
    BY DEF NovoPedido, ehMarcadorLegado
  <2>2. pedidos' = [pedidos EXCEPT ![quem] = NovoPedido(r)]
    BY <1>1 DEF CriarPedido, Registrar
  <2>3. QED
    BY <2>1, <2>2 DEF TypeOK
<1>2. CASE SalvarPedido(quem, r)
  <2>1. pedidos' = [pedidos EXCEPT ![quem] = ComRascunho(pedidos[quem], r)]
        /\ pedidos[quem] \in PedidoDoc /\ pedidos[quem] # Nenhum
    BY <1>2 DEF SalvarPedido, Registrar, TypeOK
  <2>2. /\ ComRascunho(pedidos[quem], r).estoqueAplicado = pedidos[quem].estoqueAplicado
        /\ ComRascunho(pedidos[quem], r).marcaReserva = pedidos[quem].marcaReserva
        /\ ComRascunho(pedidos[quem], r).marcaRemocao = pedidos[quem].marcaRemocao
    BY <2>1 DEF ComRascunho, NovoPedido, PedidoDoc
  <2>3. ehMarcadorLegado(ComRascunho(pedidos[quem], r)) => ehMarcadorLegado(pedidos[quem])
    BY <2>2 DEF ehMarcadorLegado
  <2>4. QED
    BY <2>1, <2>3 DEF TypeOK
<1>3. QED
  BY <1>1, <1>2

(* A pedido the sync manages never takes the shape (markers, no snapshot)  *)
(* that makes every later sync skip it: the transaction writes the two     *)
(* together and no editor can (serverOwnedFields).                         *)
THEOREM MarcasComSnapshot == Spec => NuncaViraLegado
<1> DEFINE Passo == \A ped \in Pedidos :
              pedidos'[ped] # Nenhum /\ ehMarcadorLegado(pedidos'[ped])
                => pedidos[ped] # Nenhum /\ ehMarcadorLegado(pedidos[ped])
<1>1. TypeOK /\ [Next]_vars => [Passo]_vars
  <2> SUFFICES ASSUME TypeOK, Next, NEW ped \in Pedidos,
                      pedidos'[ped] # Nenhum, ehMarcadorLegado(pedidos'[ped])
               PROVE  pedidos[ped] # Nenhum /\ ehMarcadorLegado(pedidos[ped])
    OBVIOUS
  <2>1. ASSUME NEW quem \in Pedidos, NEW r \in Rascunhos,
               CriarPedido(quem, r) \/ SalvarPedido(quem, r)
        PROVE  pedidos[ped] # Nenhum /\ ehMarcadorLegado(pedidos[ped])
    BY <2>1, SalvarNaoViraLegado
  <2>2. ASSUME NEW quem \in Pedidos, ExcluirPedido(quem)
        PROVE  pedidos'[ped] = pedidos[ped]
    BY <2>2 DEF ExcluirPedido, TypeOK
  <2>3. ASSUME NEW quem \in Pedidos, NEW anterior, NEW resto,
               sincronizarEstoquePedido(quem, anterior, resto)
        PROVE  pedidos'[ped] = pedidos[ped]
    BY <2>3, SincronizarNaoViraLegado
  <2>4. ASSUME NEW e \in fila, NEW resto, onPedidoEstoqueSync(e, resto)
        PROVE  pedidos'[ped] = pedidos[ped]
    <3>1. e.tipo = "escrita" => e.pedido \in Pedidos
      BY DEF TypeOK, Evento
    <3>2. QED
      BY <2>3, <2>4, <3>1 DEF onPedidoEstoqueSync, reverterEstoquePedidoExcluido, Ignorar
  <2>5. CASE \E ed \in EdicoesIntegracao : SalvarIntegracao(ed[1], ed[2])
    BY <2>5 DEF SalvarIntegracao, AfetaPedidos
  <2>6. CASE \E ed \in EdicoesOperacao : SalvarOperacao(ed[1], ed[2])
    BY <2>6 DEF SalvarOperacao, AfetaPedidos
  <2>7. CASE \E ed \in EdicoesProduto : SalvarProduto(ed[1], ed[2])
    BY <2>7 DEF SalvarProduto, AfetaPedidos
  <2>8. CASE \E m \in Movimentos : aplicarMovimento(m)
    BY <2>8 DEF aplicarMovimento
  <2>9. CASE \E e \in fila : PerderEvento(e)
    BY <2>9 DEF PerderEvento
  <2>10. QED
    BY <2>1, <2>2, <2>3, <2>4, <2>5, <2>6, <2>7, <2>8, <2>9
    DEF Next, Entregar, EntregarEReentregar, resincronizarEstoquePedido
<1>2. QED
  BY <1>1, TipoCorreto, PTL DEF Spec, NuncaViraLegado

=============================================================================
