-------------------------- MODULE EstoqueSincProofs --------------------------
(***************************************************************************)
(* The reserved counter is the sum of what the pedidos hold, so the floor  *)
(* of aplicarPlano never lands by the sync alone.  And a sync leaves       *)
(* nothing to do: what it writes is what it would write again, so that a   *)
(* pedido is out of step only while somebody knows.                        *)
(***************************************************************************)
EXTENDS EstoquePedidoProofs, SomaFinitaProofs

-----------------------------------------------------------------------------
(* The reserved counter is a sum *)

SemDrift == \A ped \in Pedidos : "drift" \notin incidentes[ped]

ReservaSomada ==
  \A k \in Estoques :
    estoques[k].quantidadeReservada
      = EstoquesIniciais[k].quantidadeReservada + Soma(Pedidos, Reservas(k))

(* Neither property is inductive alone: that the floor does not land is    *)
(* what keeps the sum, and the sum is why it does not land.                *)
ReservaConfere == ~ForaDaSync => ReservaSomada /\ SemDrift

InvReserva == InvUmaVez /\ ReservaConfere

LEMMA VigenteTipo ==
  ASSUME TypeOK, NEW ped \in Pedidos, NEW k \in Estoques
  PROVE  Vigente(ped, k) \in Aplicado
<1>1. CASE pedidos[ped] # Nenhum
  BY <1>1 DEF Vigente, TypeOK, PedidoDoc, Aplicado
<1>2. CASE pedidos[ped] = Nenhum
  BY <1>2 DEF Vigente, TypeOK, Aplicado
<1>3. QED
  BY <1>1, <1>2

ReservasNaturais == \A k \in Estoques, ped \in Pedidos : Reservas(k)[ped] \in Nat

LEMMA ReservasTipo == TypeOK => ReservasNaturais
<1> SUFFICES ASSUME TypeOK, NEW k \in Estoques, NEW ped \in Pedidos
             PROVE  Reservas(k)[ped] \in Nat
  BY DEF ReservasNaturais
<1>1. k[1] \in Produtos
  BY DEF Estoques
<1>2. QED
  BY <1>1, VigenteTipo, ContribuicaoTipo DEF Reservas

LEMMA ReservasTipoDepois == TypeOK' => ReservasNaturais'
  BY ReservasTipo, PTL

(* The counter holds at least what each pedido reserved. *)
LEMMA AplicarReserva ==
  ASSUME TypeOK, TypeOK', ReservaSomada, NEW ped \in Pedidos,
         NEW alvo \in Aplicado, NEW base \in Aplicado, NEW ja,
         aplicarPlano(ped, alvo, base, ja),
         \A k \in Tocados(alvo, base, ja) :
           /\ Reservas(k)[ped] = Reservado(base, k[1], k[2])
           /\ Reservas(k)'[ped] = Reservado(alvo, k[1], k[2]),
         \A k \in Estoques \ Tocados(alvo, base, ja) : Reservas(k)'[ped] = Reservas(k)[ped],
         \A k \in Estoques, outro \in Pedidos \ {ped} : Reservas(k)'[outro] = Reservas(k)[outro]
  PROVE  ReservaSomada' /\ \A k \in Tocados(alvo, base, ja) : ~Limitou(k, alvo, base)
<1> SUFFICES ASSUME NEW k \in Estoques
             PROVE  /\ estoques'[k].quantidadeReservada
                         = EstoquesIniciais[k].quantidadeReservada + Soma(Pedidos, Reservas(k)')
                    /\ k \in Tocados(alvo, base, ja) => ~Limitou(k, alvo, base)
  BY DEF ReservaSomada, Tocados
<1> DEFINE antes == Reservas(k)
           depois == Reservas(k)'
           delta == DeltaReservada(alvo, base, k[1], k[2])
<1>1. IsFiniteSet(Pedidos)
  BY EstoquePedidoAssumption
<1>2. \A p \in Pedidos : antes[p] \in Nat /\ depois[p] \in Nat
  BY ReservasTipo, ReservasTipoDepois DEF ReservasNaturais
<1>3. \A p \in Pedidos \ {ped} : depois[p] = antes[p]
  OBVIOUS
<1>4. estoques[k].quantidadeReservada
        = EstoquesIniciais[k].quantidadeReservada + Soma(Pedidos, antes)
  BY DEF ReservaSomada
<1>5. EstoquesIniciais[k].quantidadeReservada \in Nat
  BY EstoquePedidoAssumption DEF Contador
<1> HIDE DEF antes, depois, delta
<1>6. /\ Soma(Pedidos, depois) = Soma(Pedidos, antes) - antes[ped] + depois[ped]
      /\ antes[ped] <= Soma(Pedidos, antes)
      /\ Soma(Pedidos, antes) \in Nat
  BY <1>1, <1>2, <1>3, SomaMuda, SomaParcela, SomaTipo
<1>7. CASE k \in Tocados(alvo, base, ja)
  <2>1. delta = depois[ped] - antes[ped]
    BY <1>7 DEF DeltaReservada, delta, antes, depois
  <2>2. estoques[k].quantidadeReservada + delta
          = EstoquesIniciais[k].quantidadeReservada + Soma(Pedidos, depois)
    BY <1>2, <1>4, <1>5, <1>6, <2>1
  <2>3. estoques[k].quantidadeReservada + delta >= 0
    BY <1>2, <1>4, <1>5, <1>6, <2>1
  <2>4. estoques'[k].quantidadeReservada = Maior(0, estoques[k].quantidadeReservada + delta)
    BY <1>7 DEF aplicarPlano, EstoqueDepois, delta
  <2>5. estoques'[k].quantidadeReservada = estoques[k].quantidadeReservada + delta
    BY <1>2, <1>4, <1>5, <1>6, <2>1, <2>3, <2>4 DEF Maior
  <2>6. ~Limitou(k, alvo, base)
    BY <1>2, <1>4, <1>5, <1>6, <2>1, <2>3 DEF Limitou, delta
  <2>7. QED
    BY <2>2, <2>5, <2>6 DEF depois
<1>8. CASE k \notin Tocados(alvo, base, ja)
  <2>1. estoques'[k] = estoques[k]
    BY <1>8 DEF aplicarPlano
  <2>2. depois[ped] = antes[ped]
    BY <1>8 DEF antes, depois
  <2>3. Soma(Pedidos, depois) = Soma(Pedidos, antes)
    BY <1>2, <1>6, <2>2
  <2>4. QED
    BY <1>4, <1>8, <2>1, <2>3 DEF depois
<1>9. QED
  BY <1>7, <1>8

(* A step that changes what no pedido holds and no counter. *)
LEMMA ReservaQuadro ==
  ASSUME InvReserva, UNCHANGED <<estoques, incidentes>>, ForaDaSync => ForaDaSync',
         \A ped \in Pedidos, k \in Estoques : Vigente(ped, k)' = Vigente(ped, k)
  PROVE  ReservaConfere'
<1>1. \A k \in Estoques : Reservas(k)' = Reservas(k)
  BY DEF Reservas
<1>2. QED
  BY <1>1 DEF InvReserva, ReservaConfere, ReservaSomada, SemDrift

LEMMA SincronizarReserva ==
  ASSUME InvReserva, TypeOK', NEW ped \in Pedidos, NEW anterior, NEW resto,
         sincronizarEstoquePedido(ped, anterior, resto)
  PROVE  ReservaConfere'
<1>0. TypeOK /\ InvUmaVez
  BY DEF InvReserva, InvUmaVez
<1>1. CASE TemOQueFazer(ped, anterior)
  <2> DEFINE doc == pedidos[ped]
             plano == Plano(doc, anterior)
             novo == ComSnapshot(doc, plano.alvo)
             legado == Reconstroi(doc, anterior)
  <2>1. doc \in PedidoDoc /\ plano.alvo \in Aplicado /\ plano.base \in Aplicado
    BY <1>0, <1>1, PlanoTipo DEF TemOQueFazer
  <2>2. doc # Nenhum
    BY <2>1, EstoquePedidoAssumption
  <2>3. /\ aplicarPlano(ped, plano.alvo, plano.base, {})
        /\ incidentes' = [incidentes EXCEPT ![ped] = IncidentesDoSync(ped, plano, legado)]
        /\ pedidos' = [pedidos EXCEPT ![ped] = novo]
        /\ herdado' = [herdado EXCEPT ![ped] = IF legado THEN plano.base ELSE @]
        /\ UNCHANGED <<exclusoes, ultimo, manuais>>
    BY <1>1 DEF sincronizarEstoquePedido, Convergir, Registrar
  <2>4. novo # Nenhum /\ novo.estoqueAplicado = plano.alvo
    <3>1. novo \in PedidoDoc
      BY <2>1, ComSnapshotTipo
    <3>2. QED
      BY <2>1, <3>1, EstoquePedidoAssumption DEF ComSnapshot, PedidoDoc
  <2>5. legado => doc.estoqueAplicado = Nenhum /\ herdado[ped] = Nenhum
    BY <1>0, <2>2 DEF Reconstroi, ehMarcadorLegado, InvUmaVez, LegadoNaoHerdou
  <2>6. ~legado => plano.base = doc.estoqueAplicado
    BY DEF Plano, PlanoAtivo, AplicadoBase
  <2>7. legado \in BOOLEAN
    BY <2>1 DEF Reconstroi, ehMarcadorLegado, PedidoDoc
  <2> HIDE DEF doc, plano, novo, legado
  <2>8. SUFFICES ASSUME ~ForaDaSync' PROVE ReservaSomada' /\ SemDrift'
    BY DEF ReservaConfere
  <2>9. ~ForaDaSync /\ plano.base = doc.estoqueAplicado
    <3>1. CASE legado
      <4>1. herdado'[ped] = plano.base /\ herdado'[ped] = Nenhum
        BY <1>0, <2>3, <2>8, <3>1, Zenon DEF ForaDaSync, TypeOK
      <4>2. herdado' = herdado
        BY <1>0, <2>3, <2>5, <3>1, <4>1 DEF TypeOK
      <4>3. QED
        BY <2>3, <2>5, <2>8, <3>1, <4>1, <4>2 DEF ForaDaSync
    <3>2. CASE ~legado
      <4>1. herdado' = herdado
        BY <1>0, <2>3, <3>2 DEF TypeOK
      <4>2. QED
        BY <2>3, <2>6, <2>8, <3>2, <4>1 DEF ForaDaSync
    <3>3. QED
      BY <2>7, <3>1, <3>2
  <2>10. ReservaSomada /\ SemDrift
    BY <2>9 DEF InvReserva, ReservaConfere
  <2>11. ASSUME NEW k \in Estoques
         PROVE  /\ Reservas(k)[ped] = Reservado(plano.base, k[1], k[2])
                /\ Reservas(k)'[ped] = Reservado(plano.alvo, k[1], k[2])
                /\ \A outro \in Pedidos \ {ped} : Reservas(k)'[outro] = Reservas(k)[outro]
    <3>1. Vigente(ped, k) = plano.base
      BY <2>2, <2>9 DEF Vigente, doc
    <3>2. Vigente(ped, k)' = plano.alvo
      BY <1>0, <2>3, <2>4 DEF Vigente, TypeOK
    <3>3. \A outro \in Pedidos \ {ped} : Vigente(outro, k)' = Vigente(outro, k)
      BY <1>0, <2>3 DEF Vigente, TypeOK
    <3>4. QED
      BY <3>1, <3>2, <3>3 DEF Reservas
  <2>12. ASSUME NEW k \in Estoques \ Tocados(plano.alvo, plano.base, {})
         PROVE  Reservas(k)'[ped] = Reservas(k)[ped]
    <3>1. DeltaReservada(plano.alvo, plano.base, k[1], k[2]) = 0
      BY DEF Tocados, TemDelta
    <3>2. k[1] \in Produtos
      BY DEF Estoques
    <3>3. /\ Reservado(plano.alvo, k[1], k[2]) \in Nat
          /\ Reservado(plano.base, k[1], k[2]) \in Nat
      BY <2>1, <3>2, ContribuicaoTipo
    <3>4. QED
      BY <2>11, <3>1, <3>3 DEF DeltaReservada
  <2>13. Tocados(plano.alvo, plano.base, {}) \subseteq Estoques
    BY DEF Tocados
  <2>14. /\ ReservaSomada'
         /\ \A k \in Tocados(plano.alvo, plano.base, {}) : ~Limitou(k, plano.alvo, plano.base)
    BY <1>0, <2>1, <2>3, <2>10, <2>11, <2>12, <2>13, AplicarReserva
  <2>15. "drift" \notin IncidentesDoSync(ped, plano, legado)
    BY <2>10, <2>14 DEF IncidentesDoSync, SemDrift
  <2>16. SemDrift'
    BY <1>0, <2>3, <2>10, <2>15 DEF SemDrift, TypeOK
  <2>17. QED
    BY <2>14, <2>16
<1>2. CASE ~TemOQueFazer(ped, anterior)
  BY <1>2, ReservaQuadro DEF sincronizarEstoquePedido, ForaDaSync, Vigente
<1>3. QED
  BY <1>1, <1>2

LEMMA ReverterReserva ==
  ASSUME InvReserva, TypeOK', NEW e \in fila, e.tipo = "exclusao", NEW resto,
         reverterEstoquePedidoExcluido(e, resto)
  PROVE  ReservaConfere'
<1> DEFINE ped == e.pedido
           ja == JaRevertidos(ped)
           tocados == Tocados(Nenhum, ultimo[ped], ja)
<1>0. TypeOK /\ InvUmaVez
  BY DEF InvReserva, InvUmaVez
<1>1. /\ ped \in Pedidos /\ ped \in excluidos
      /\ e.aplicado = ultimo[ped] /\ ultimo[ped] \in Aplicado /\ Nenhum \in Aplicado
  BY <1>0 DEF InvUmaVez, TypeOK, Evento, Exclusoes, EventoLevaUltimo, Aplicado
<1>2. UNCHANGED <<pedidos, herdado, ultimo, manuais, incidentes>>
  BY DEF reverterEstoquePedidoExcluido
<1>3. CASE temEfeitoAplicado(e.aplicado) /\ pedidos[ped] = Nenhum
  <2>1. /\ aplicarPlano(ped, Nenhum, ultimo[ped], ja)
        /\ exclusoes' = exclusoes \cup ({ped} \X tocados)
    BY <1>1, <1>3 DEF reverterEstoquePedidoExcluido
  <2>2. SUFFICES ASSUME ~ForaDaSync' PROVE ReservaSomada' /\ SemDrift'
    BY DEF ReservaConfere
  <2>3. ~ForaDaSync
    BY <1>2, <2>2 DEF ForaDaSync
  <2>4. ReservaSomada /\ SemDrift
    BY <2>3 DEF InvReserva, ReservaConfere
  <2>5. ASSUME NEW k \in tocados
        PROVE  /\ Reservas(k)[ped] = Reservado(ultimo[ped], k[1], k[2])
               /\ Reservas(k)'[ped] = Reservado(Nenhum, k[1], k[2])
    <3>1. <<ped, k>> \notin exclusoes /\ <<ped, k>> \in exclusoes'
      BY <2>1 DEF Tocados, JaRevertidos
    <3>2. Vigente(ped, k) = ultimo[ped] /\ Vigente(ped, k)' = Nenhum
      BY <1>2, <1>3, <3>1 DEF Vigente
    <3>3. QED
      BY <1>1, <3>2 DEF Reservas
  <2>6. ASSUME NEW k \in Estoques \ tocados
        PROVE  Reservas(k)'[ped] = Reservas(k)[ped]
    <3>1. <<ped, k>> \in exclusoes' <=> <<ped, k>> \in exclusoes
      BY <2>1
    <3>2. Vigente(ped, k)' = Vigente(ped, k)
      BY <1>2, <3>1 DEF Vigente
    <3>3. QED
      BY <1>1, <3>2 DEF Reservas
  <2>7. ASSUME NEW k \in Estoques, NEW outro \in Pedidos \ {ped}
        PROVE  Reservas(k)'[outro] = Reservas(k)[outro]
    <3>1. <<outro, k>> \in exclusoes' <=> <<outro, k>> \in exclusoes
      BY <2>1
    <3>2. Vigente(outro, k)' = Vigente(outro, k)
      BY <1>2, <3>1 DEF Vigente
    <3>3. QED
      BY <3>2 DEF Reservas
  <2> HIDE DEF ped, ja
  <2>8. ReservaSomada'
    BY <1>0, <1>1, <2>1, <2>4, <2>5, <2>6, <2>7, AplicarReserva
  <2>9. SemDrift'
    BY <1>2, <2>4 DEF SemDrift
  <2>10. QED
    BY <2>8, <2>9
<1>4. CASE ~(temEfeitoAplicado(e.aplicado) /\ pedidos[ped] = Nenhum)
  <2>1. UNCHANGED <<estoques, exclusoes>>
    BY <1>4 DEF reverterEstoquePedidoExcluido
  <2>2. QED
    BY <1>2, <2>1, ReservaQuadro DEF ForaDaSync, Vigente
<1>5. QED
  BY <1>3, <1>4

LEMMA TriggerReserva ==
  ASSUME InvReserva, TypeOK', NEW e \in fila, NEW resto, onPedidoEstoqueSync(e, resto)
  PROVE  ReservaConfere'
<1>1. CASE e.tipo = "exclusao" /\ reverterEstoquePedidoExcluido(e, resto)
  BY <1>1, ReverterReserva
<1>2. CASE e.tipo = "escrita" /\ ~e.mudou /\ Ignorar(resto)
  BY <1>2, ReservaQuadro DEF Ignorar, ForaDaSync, Vigente
<1>3. CASE e.tipo = "escrita" /\ e.mudou
             /\ sincronizarEstoquePedido(e.pedido, e.anterior, resto)
  <2>1. e.pedido \in Pedidos
    BY DEF InvReserva, InvUmaVez, TypeOK, Evento
  <2>2. QED
    BY <1>3, <2>1, SincronizarReserva
<1>4. QED
  BY <1>1, <1>2, <1>3 DEF onPedidoEstoqueSync

(* A save and a deletion leave what a pedido holds as it was. *)
LEMMA CriarReserva ==
  ASSUME InvReserva, NEW ped \in Pedidos, NEW r \in Rascunhos, CriarPedido(ped, r)
  PROVE  ReservaConfere'
<1>1. /\ pedidos[ped] = Nenhum /\ ped \notin excluidos
      /\ pedidos' = [pedidos EXCEPT ![ped] = NovoPedido(r)]
      /\ UNCHANGED <<estoques, incidentes, exclusoes, ultimo, herdado, manuais>>
  BY DEF CriarPedido, Registrar
<1>2. ultimo[ped] = Nenhum
  BY <1>1 DEF InvReserva, InvUmaVez, Exclusoes, SemUltimoEnquantoVivo
<1>3. NovoPedido(r).estoqueAplicado = Nenhum
  BY DEF NovoPedido
<1>4. ASSUME NEW p \in Pedidos, NEW k \in Estoques
      PROVE  Vigente(p, k)' = Vigente(p, k)
  BY <1>1, <1>2, <1>3 DEF Vigente, InvReserva, InvUmaVez, TypeOK
<1>5. QED
  BY <1>1, <1>4, ReservaQuadro DEF ForaDaSync

LEMMA SalvarReserva ==
  ASSUME InvReserva, NEW ped \in Pedidos, NEW r \in Rascunhos, SalvarPedido(ped, r)
  PROVE  ReservaConfere'
<1> DEFINE novo == ComRascunho(pedidos[ped], r)
<1>1. /\ pedidos[ped] # Nenhum
      /\ pedidos' = [pedidos EXCEPT ![ped] = novo]
      /\ UNCHANGED <<estoques, incidentes, exclusoes, ultimo, herdado, manuais>>
  BY DEF SalvarPedido, Registrar
<1>2. pedidos[ped] \in PedidoDoc
  BY <1>1 DEF InvReserva, InvUmaVez, TypeOK
<1>3. novo # Nenhum /\ novo.estoqueAplicado = pedidos[ped].estoqueAplicado
  <2>1. novo \in PedidoDoc
    BY <1>2, RascunhoTipo
  <2>2. novo.estoqueAplicado = pedidos[ped].estoqueAplicado
    BY DEF ComRascunho, NovoPedido
  <2>3. QED
    BY <2>1, <2>2, EstoquePedidoAssumption
<1> HIDE DEF novo
<1>4. ASSUME NEW p \in Pedidos, NEW k \in Estoques
      PROVE  Vigente(p, k)' = Vigente(p, k)
  BY <1>1, <1>3 DEF Vigente, InvReserva, InvUmaVez, TypeOK
<1>5. QED
  BY <1>1, <1>4, ReservaQuadro DEF ForaDaSync

LEMMA ExcluirReserva ==
  ASSUME InvReserva, NEW ped \in Pedidos, ExcluirPedido(ped)
  PROVE  ReservaConfere'
<1>1. /\ pedidos[ped] # Nenhum
      /\ pedidos' = [pedidos EXCEPT ![ped] = Nenhum]
      /\ ultimo' = [ultimo EXCEPT ![ped] = pedidos[ped].estoqueAplicado]
      /\ UNCHANGED <<estoques, incidentes, exclusoes, herdado, manuais>>
  BY DEF ExcluirPedido
<1>2. ped \notin excluidos
  BY <1>1 DEF InvReserva, InvUmaVez, Exclusoes, ExcluidoNaoExiste
<1>3. \A k \in Estoques : <<ped, k>> \notin exclusoes
  BY <1>2 DEF InvReserva, InvUmaVez, Exclusoes, ReversaoSoDeExcluido
<1>4. ASSUME NEW p \in Pedidos, NEW k \in Estoques
      PROVE  Vigente(p, k)' = Vigente(p, k)
  BY <1>1, <1>3 DEF Vigente, InvReserva, InvUmaVez, TypeOK
<1>5. QED
  BY <1>1, <1>4, ReservaQuadro DEF ForaDaSync

LEMMA ReservaInicial == Init => InvReserva
<1> SUFFICES ASSUME Init PROVE ReservaSomada /\ SemDrift
  BY UmaVezInicial DEF InvReserva, ReservaConfere
<1>1. TypeOK
  BY TipoInicial
<1>2. ASSUME NEW k \in Estoques, NEW ped \in Pedidos
      PROVE  Reservas(k)[ped] = 0
  <2>1. Vigente(ped, k) = Nenhum
    BY EstoquePedidoAssumption DEF Init, Vigente
  <2>2. QED
    BY <2>1 DEF Reservas, Reservado
<1>3. ASSUME NEW k \in Estoques
      PROVE  estoques[k].quantidadeReservada
               = EstoquesIniciais[k].quantidadeReservada + Soma(Pedidos, Reservas(k))
  <2>1. Soma(Pedidos, Reservas(k)) = 0
    BY <1>2, SomaZeros
  <2>2. EstoquesIniciais[k].quantidadeReservada \in Nat
    BY EstoquePedidoAssumption DEF Contador
  <2>3. QED
    BY <2>1, <2>2 DEF Init
<1>4. SemDrift
  BY DEF Init, SemDrift
<1>5. QED
  BY <1>3, <1>4 DEF ReservaSomada

LEMMA ReservaPreservada == InvReserva /\ [Next]_vars => InvReserva'
<1> SUFFICES ASSUME InvReserva, [Next]_vars PROVE ReservaConfere'
  BY UmaVezPreservado DEF InvReserva
<1>1. TypeOK'
  BY UmaVezPreservado DEF InvReserva, InvUmaVez
<1>2. ASSUME UNCHANGED <<pedidos, estoques, incidentes, exclusoes, ultimo, herdado, manuais>>
      PROVE  ReservaConfere'
  BY <1>2, ReservaQuadro DEF ForaDaSync, Vigente
<1>3. ASSUME NEW ped \in Pedidos, NEW r \in Rascunhos, CriarPedido(ped, r)
      PROVE  ReservaConfere'
  BY <1>3, CriarReserva
<1>4. ASSUME NEW ped \in Pedidos, NEW r \in Rascunhos, SalvarPedido(ped, r)
      PROVE  ReservaConfere'
  BY <1>4, SalvarReserva
<1>5. ASSUME NEW ped \in Pedidos, ExcluirPedido(ped)
      PROVE  ReservaConfere'
  BY <1>5, ExcluirReserva
<1>6. ASSUME NEW ed \in EdicoesIntegracao, SalvarIntegracao(ed[1], ed[2])
      PROVE  ReservaConfere'
  BY <1>2, <1>6 DEF SalvarIntegracao, AfetaPedidos
<1>7. ASSUME NEW ed \in EdicoesOperacao, SalvarOperacao(ed[1], ed[2])
      PROVE  ReservaConfere'
  BY <1>2, <1>7 DEF SalvarOperacao, AfetaPedidos
<1>8. ASSUME NEW ed \in EdicoesProduto, SalvarProduto(ed[1], ed[2])
      PROVE  ReservaConfere'
  BY <1>2, <1>8 DEF SalvarProduto, AfetaPedidos
<1>9. ASSUME NEW m \in Movimentos, aplicarMovimento(m)
      PROVE  ReservaConfere'
  <2>1. manuais' > 0
    BY <1>9 DEF aplicarMovimento, InvReserva, InvUmaVez, TypeOK
  <2>2. QED
    BY <2>1 DEF ReservaConfere, ForaDaSync
<1>10. ASSUME NEW e \in fila, Entregar(e) \/ EntregarEReentregar(e)
       PROVE  ReservaConfere'
  BY <1>1, <1>10, TriggerReserva DEF Entregar, EntregarEReentregar
<1>11. ASSUME NEW e \in fila, PerderEvento(e)
       PROVE  ReservaConfere'
  BY <1>2, <1>11 DEF PerderEvento
<1>12. ASSUME NEW ped \in Pedidos, resincronizarEstoquePedido(ped)
       PROVE  ReservaConfere'
  BY <1>1, <1>12, SincronizarReserva DEF resincronizarEstoquePedido
<1>13. CASE UNCHANGED vars
  BY <1>2, <1>13 DEF vars, contas
<1>14. QED
  BY <1>3, <1>4, <1>5, <1>6, <1>7, <1>8, <1>9, <1>10, <1>11, <1>12, <1>13 DEF Next

(* No reservation is released by anybody but its pedido and none leaks:    *)
(* while only the sync writes, quantidadeReservada is what it was at the   *)
(* start plus the sum of the snapshots, whatever pedidos share the estoque *)
(* (aplicarPlano, reverterEstoquePedidoExcluido).                          *)
THEOREM ReservaEhSoma == Spec => []ReservadaSomaPedidos
<1>1. InvReserva => ReservadaSomaPedidos
  BY DEF InvReserva, ReservaConfere, ReservaSomada, ReservadaSomaPedidos
<1>2. QED
  BY <1>1, ReservaInicial, ReservaPreservada, PTL DEF Spec

(* The comment of the drift incidente: "if it ever fires, something        *)
(* outside the sync mutated the counters".                                 *)
THEOREM DriftTemCausa == Spec => []DriftSoPorFora
<1>1. InvReserva => DriftSoPorFora
  BY DEF InvReserva, ReservaConfere, SemDrift, DriftSoPorFora
<1>2. QED
  BY <1>1, ReservaInicial, ReservaPreservada, PTL DEF Spec

-----------------------------------------------------------------------------
(* The desired effect, decided again over the effect it decided *)

(* The effect of a pedido that stays in the active estados does not change *)
(* when it is decided again over what it applied (hysteresis).             *)
LEMMA EfeitoRepetido ==
  ASSUME NEW estado \in ESTADOS_PEDIDO_MOVIMENTACAO, NEW frete, NEW ehSaida \in BOOLEAN,
         NEW op \in OperacaoDoc, NEW ja \in BOOLEAN, NEW jaDepois \in BOOLEAN,
         LET efeito == efeitoEstoquePedido(estado, frete, ehSaida, op, ja)
         IN  jaDepois <=> efeito.remover \/ efeito.adicionar
  PROVE  efeitoEstoquePedido(estado, frete, ehSaida, op, jaDepois)
           = efeitoEstoquePedido(estado, frete, ehSaida, op, ja)
<1> DEFINE er == EntradaRemocao(estado, frete, op)
           ea == EntradaAdicao(estado)
<1>1. er \in BOOLEAN /\ ea \in BOOLEAN /\ op.movimentaEstoque \in BOOLEAN
  BY DEF EntradaRemocao, EntradaAdicao, OperacaoDoc
<1>2. ASSUME NEW j \in BOOLEAN
      PROVE  /\ Movimenta(op, j, estado, er) = (op.movimentaEstoque /\ (j \/ er))
             /\ Movimenta(op, j, estado, ea) = (op.movimentaEstoque /\ (j \/ ea))
  BY <1>1 DEF Movimenta
<1>3. efeitoEstoquePedido(estado, frete, ehSaida, op, ja).remover
        = (ehSaida /\ op.movimentaEstoque /\ (ja \/ er))
  BY <1>1, <1>2 DEF efeitoEstoquePedido
<1>4. efeitoEstoquePedido(estado, frete, ehSaida, op, ja).adicionar
        = (~ehSaida /\ op.movimentaEstoque /\ (ja \/ ea))
  BY <1>1, <1>2 DEF efeitoEstoquePedido
<1>5. jaDepois <=> \/ ehSaida /\ op.movimentaEstoque /\ (ja \/ er)
                   \/ ~ehSaida /\ op.movimentaEstoque /\ (ja \/ ea)
  BY <1>3, <1>4
<1>6. (ehSaida /\ Movimenta(op, jaDepois, estado, er))
        = (ehSaida /\ Movimenta(op, ja, estado, er))
  BY <1>1, <1>2, <1>5
<1>7. (~ehSaida /\ Movimenta(op, jaDepois, estado, ea))
        = (~ehSaida /\ Movimenta(op, ja, estado, ea))
  BY <1>1, <1>2, <1>5
<1>8. QED
  BY <1>6, <1>7 DEF efeitoEstoquePedido

(* A snapshot holds a movement exactly when the effect moves. *)
LEMMA AlvoComMovimento ==
  ASSUME NEW alteracoes \in Qtds, alteracoes # Vazio, NEW efeito, NEW dep,
         efeito.reservar \in BOOLEAN, efeito.remover \in BOOLEAN,
         efeito.adicionar \in BOOLEAN, dep \in Depositos
  PROVE  temMovimentoAplicado(AplicadoAlvo(alteracoes, efeito, dep))
           <=> efeito.remover \/ efeito.adicionar
<1> DEFINE alvo == AplicadoAlvo(alteracoes, efeito, dep)
<1>1. CASE efeito = EFEITO_ESTOQUE_NENHUM
  <2>1. alvo = Nenhum
    BY <1>1 DEF AplicadoAlvo
  <2>2. ~efeito.remover /\ ~efeito.adicionar
    BY <1>1 DEF EFEITO_ESTOQUE_NENHUM
  <2>3. QED
    BY <2>1, <2>2 DEF temMovimentoAplicado
<1>2. CASE efeito # EFEITO_ESTOQUE_NENHUM
  <2>1. alvo = [depositoId |-> dep,
                reservado  |-> IF efeito.reservar  THEN alteracoes ELSE Vazio,
                removido   |-> IF efeito.remover   THEN alteracoes ELSE Vazio,
                adicionado |-> IF efeito.adicionar THEN alteracoes ELSE Vazio]
    BY <1>2 DEF AplicadoAlvo
  <2>2. alvo \in EstoqueAplicado
    BY <2>1, VazioTipo DEF EstoqueAplicado
  <2>3. alvo # Nenhum
    BY <2>2, PlanoAssumption
  <2>4. QED
    BY <2>1, <2>3 DEF temMovimentoAplicado
<1>3. QED
  BY <1>1, <1>2

-----------------------------------------------------------------------------
(* The plan of the pedido that was just synced *)

OperacaoDe(doc) == operacoes[OperacaoResolvida(doc)]
DirecaoDe(doc) == ehSaidaDaOperacao(OperacaoDe(doc), doc.ehSaida)
DepositoDe(doc) == integracoes[doc.integracao].deposito

(* Whether a movement counts as applied when the plan is made.             *)
JaMovimentado(doc, anterior) ==
  \/ temMovimentoAplicado(doc.estoqueAplicado)
  \/ Reconstroi(doc, anterior) /\ doc.marcaRemocao

EfeitoDe(doc, anterior) ==
  efeitoEstoquePedido(doc.estado, doc.frete, DirecaoDe(doc), OperacaoDe(doc),
                      JaMovimentado(doc, anterior))

LEMMA PlanoDe ==
  ASSUME NEW doc, NEW anterior, EstadoAtivo(doc)
  PROVE  /\ Plano(doc, anterior).alvo
              = AplicadoAlvo(calcularAlteracoesEstoque(doc.itens, produtos),
                             EfeitoDe(doc, anterior), DepositoDe(doc))
         /\ Plano(doc, anterior).kits
              = KitsVendidos(doc, anterior, EfeitoDe(doc, anterior), DepositoDe(doc))
  BY DEF Plano, PlanoAtivo, EfeitoDe, DirecaoDe, OperacaoDe, DepositoDe, JaMovimentado

LEMMA ConfigTipo ==
  ASSUME TypeOK, NEW doc \in PedidoDoc, EstadoAtivo(doc), ConfigResolvida(doc), NEW anterior
  PROVE  /\ doc.estado \in ESTADOS_PEDIDO_MOVIMENTACAO
         /\ OperacaoDe(doc) \in OperacaoDoc
         /\ DirecaoDe(doc) \in BOOLEAN
         /\ DepositoDe(doc) \in Depositos
         /\ JaMovimentado(doc, anterior) \in BOOLEAN
<1>1. DepositoDe(doc) \in Depositos
  BY DEF ConfigResolvida, TypeOK, PedidoDoc, IntegracaoDoc, DepositoDe
<1>2. OperacaoResolvida(doc) \in Operacoes
  BY DEF ConfigResolvida, TypeOK, PedidoDoc, IntegracaoDoc, OperacaoResolvida
<1>3. OperacaoDe(doc) \in OperacaoDoc
  BY <1>2 DEF ConfigResolvida, TypeOK, OperacaoDe
<1>4. DirecaoDe(doc) \in BOOLEAN
  BY DEF PedidoDoc, DirecaoDe, ehSaidaDaOperacao
<1>5. JaMovimentado(doc, anterior) \in BOOLEAN
  BY DEF JaMovimentado, temMovimentoAplicado, Reconstroi, ehMarcadorLegado, PedidoDoc
<1>6. QED
  BY <1>1, <1>3, <1>4, <1>5 DEF EstadoAtivo

LEMMA EfeitoTipo ==
  ASSUME NEW estado, NEW frete, NEW ehSaida \in BOOLEAN, NEW op \in OperacaoDoc,
         NEW ja \in BOOLEAN
  PROVE  efeitoEstoquePedido(estado, frete, ehSaida, op, ja) \in Efeito
<1>1. /\ Movimenta(op, ja, estado, EntradaRemocao(estado, frete, op)) \in BOOLEAN
      /\ Movimenta(op, ja, estado, EntradaAdicao(estado)) \in BOOLEAN
      /\ op.movimentaIndisponivelEstoque \in BOOLEAN
  BY DEF Movimenta, OperacaoDoc, EntradaRemocao, EntradaAdicao
<1>2. QED
  BY <1>1 DEF efeitoEstoquePedido, Efeito

(* What a sync writes is what it would write again, under the same config. *)
LEMMA PlanoRepetido ==
  ASSUME TypeOK, NEW doc \in PedidoDoc, NEW anterior, PodeSincronizar(doc, anterior)
  PROVE  LET novo == ComSnapshot(doc, Plano(doc, anterior).alvo)
         IN  PodeSincronizar(novo, Nenhum)
               => Plano(novo, Nenhum).alvo = Plano(novo, Nenhum).base
<1> DEFINE alvo == Plano(doc, anterior).alvo
           novo == ComSnapshot(doc, alvo)
<1> SUFFICES ASSUME PodeSincronizar(novo, Nenhum)
             PROVE  Plano(novo, Nenhum).alvo = Plano(novo, Nenhum).base
  OBVIOUS
<1>1. /\ novo.estoqueAplicado = alvo
      /\ novo.estado = doc.estado /\ novo.frete = doc.frete
      /\ novo.itens = doc.itens /\ novo.ehSaida = doc.ehSaida
      /\ novo.operacao = doc.operacao /\ novo.integracao = doc.integracao
  BY DEF ComSnapshot, PedidoDoc
<1>2. ~Reconstroi(novo, Nenhum)
  BY DEF Reconstroi
<1>3. CASE ~EstadoAtivo(doc)
  <2>1. alvo = Nenhum /\ ~EstadoAtivo(novo)
    BY <1>1, <1>3 DEF Plano, EstadoAtivo
  <2>2. ~PodeSincronizar(novo, Nenhum)
    BY <1>1, <2>1 DEF PodeSincronizar, temEfeitoAplicado
  <2>3. QED
    BY <2>2
<1>4. CASE EstadoAtivo(doc)
  <2> DEFINE alteracoes == calcularAlteracoesEstoque(doc.itens, produtos)
             efeito == EfeitoDe(doc, anterior)
             dep == DepositoDe(doc)
  <2>1. EstadoAtivo(novo) /\ ConfigResolvida(doc)
    BY <1>1, <1>4 DEF EstadoAtivo, PodeSincronizar
  <2>2. /\ OperacaoDe(novo) = OperacaoDe(doc)
        /\ DirecaoDe(novo) = DirecaoDe(doc)
        /\ DepositoDe(novo) = dep
    BY <1>1 DEF OperacaoDe, OperacaoResolvida, DirecaoDe, DepositoDe
  <2>3. Plano(novo, Nenhum).base = alvo
    BY <1>1, <1>2, <2>1 DEF Plano, PlanoAtivo, AplicadoBase
  <2>4. alvo = AplicadoAlvo(alteracoes, efeito, dep)
    BY <1>4, PlanoDe
  <2>5. Plano(novo, Nenhum).alvo = AplicadoAlvo(alteracoes, EfeitoDe(novo, Nenhum), dep)
    BY <1>1, <2>1, <2>2, PlanoDe
  <2>6. alteracoes \in Qtds
    BY AlteracoesTipo
  <2>7. /\ doc.estado \in ESTADOS_PEDIDO_MOVIMENTACAO
        /\ OperacaoDe(doc) \in OperacaoDoc
        /\ DirecaoDe(doc) \in BOOLEAN
        /\ dep \in Depositos
        /\ JaMovimentado(doc, anterior) \in BOOLEAN
    BY <1>4, <2>1, ConfigTipo
  <2>8. efeito \in Efeito
    BY <2>7, EfeitoTipo DEF EfeitoDe
  <2>9. EfeitoDe(novo, Nenhum)
          = efeitoEstoquePedido(doc.estado, doc.frete, DirecaoDe(doc), OperacaoDe(doc),
                                temMovimentoAplicado(alvo))
    <3>1. JaMovimentado(novo, Nenhum) <=> temMovimentoAplicado(alvo)
      BY <1>1, <1>2 DEF JaMovimentado
    <3>2. /\ JaMovimentado(novo, Nenhum) \in BOOLEAN
          /\ temMovimentoAplicado(alvo) \in BOOLEAN
      BY DEF JaMovimentado, temMovimentoAplicado
    <3>3. JaMovimentado(novo, Nenhum) = temMovimentoAplicado(alvo)
      BY <3>1, <3>2
    <3>4. QED
      BY <1>1, <2>2, <3>3 DEF EfeitoDe
  <2> HIDE DEF alvo, novo, alteracoes, efeito, dep
  <2>10. CASE alteracoes = Vazio
    BY <2>3, <2>4, <2>5, <2>10 DEF AplicadoAlvo
  <2>11. CASE alteracoes # Vazio
    <3>1. temMovimentoAplicado(alvo) <=> efeito.remover \/ efeito.adicionar
      BY <2>4, <2>6, <2>7, <2>8, <2>11, AlvoComMovimento DEF Efeito
    <3>2. temMovimentoAplicado(alvo) \in BOOLEAN
      BY DEF temMovimentoAplicado
    <3>3. EfeitoDe(novo, Nenhum) = efeito
      BY <2>7, <2>9, <3>1, <3>2, EfeitoRepetido DEF EfeitoDe, efeito
    <3>4. QED
      BY <2>3, <2>4, <2>5, <3>3
  <2>12. QED
    BY <2>10, <2>11
<1>5. QED
  BY <1>3, <1>4

-----------------------------------------------------------------------------
(* Out of step only while somebody knows *)

(* The plan reads the pedido and the configuration, nothing else.          *)
LEMMA PlanoDepois ==
  ASSUME UNCHANGED config, NEW ped \in Pedidos, NEW doc, pedidos'[ped] = doc
  PROVE  /\ PodeSincronizar(pedidos[ped], Nenhum)' <=> PodeSincronizar(doc, Nenhum)
         /\ Plano(pedidos[ped], Nenhum)' = Plano(doc, Nenhum)
<1>1. integracoes' = integracoes /\ operacoes' = operacoes /\ produtos' = produtos
  BY DEF config
<1>2. PodeSincronizar(pedidos[ped], Nenhum)' <=> PodeSincronizar(doc, Nenhum)
  BY <1>1 DEF PodeSincronizar, EstadoAtivo, ConfigResolvida, OperacaoResolvida
<1>3. Plano(pedidos[ped], Nenhum)' = Plano(doc, Nenhum)
  BY <1>1 DEF Plano, PlanoAtivo, EstadoAtivo, OperacaoResolvida, AplicadoBase, KitsVendidos,
              Reconstroi
<1>4. QED
  BY <1>2, <1>3

LEMMA DivergeDepois ==
  ASSUME UNCHANGED config, NEW ped \in Pedidos, pedidos'[ped] = pedidos[ped]
  PROVE  Diverge(ped)' <=> Diverge(ped)
<1>1. /\ PodeSincronizar(pedidos[ped], Nenhum)' <=> PodeSincronizar(pedidos[ped], Nenhum)
      /\ Plano(pedidos[ped], Nenhum)' = Plano(pedidos[ped], Nenhum)
  BY PlanoDepois
<1>2. QED
  BY <1>1 DEF Diverge, TemOQueFazer

(* Whatever anchor an event carries, it moves a pedido that is out of step.*)
LEMMA DivergeTemOQueFazer ==
  ASSUME NEW ped, NEW anterior, Diverge(ped)
  PROVE  TemOQueFazer(ped, anterior)
<1>1. ~ehMarcadorLegado(pedidos[ped])
  BY DEF Diverge, TemOQueFazer, PodeSincronizar
<1>2. ~Reconstroi(pedidos[ped], anterior) /\ ~Reconstroi(pedidos[ped], Nenhum)
  BY <1>1 DEF Reconstroi
<1>3. /\ Plano(pedidos[ped], anterior).alvo = Plano(pedidos[ped], Nenhum).alvo
      /\ Plano(pedidos[ped], anterior).base = Plano(pedidos[ped], Nenhum).base
  BY <1>2 DEF Plano, PlanoAtivo, AplicadoBase
<1>4. QED
  BY <1>1, <1>3 DEF Diverge, TemOQueFazer, PodeSincronizar

LEMMA SemDeltas ==
  ASSUME NEW a \in Aplicado
  PROVE  ~TemDeltas(a, a)
  BY ContribuicaoTipo DEF TemDeltas, TemDelta, DeltaQuantidade, DeltaReservada

(* After its sync a pedido is in step. *)
LEMMA SincronizarConverge ==
  ASSUME TypeOK, NEW ped \in Pedidos, NEW anterior, NEW resto,
         sincronizarEstoquePedido(ped, anterior, resto)
  PROVE  ~Diverge(ped)'
<1>1. UNCHANGED config
  BY DEF sincronizarEstoquePedido
<1>2. CASE TemOQueFazer(ped, anterior)
  <2> DEFINE doc == pedidos[ped]
             alvo == Plano(doc, anterior).alvo
             novo == ComSnapshot(doc, alvo)
  <2>1. doc \in PedidoDoc /\ alvo \in Aplicado /\ PodeSincronizar(doc, anterior)
    BY <1>2, PlanoTipo DEF TemOQueFazer
  <2>2. pedidos'[ped] = novo
    BY <1>2 DEF sincronizarEstoquePedido, Convergir, Registrar, TypeOK
  <2>3. novo.estoqueAplicado = alvo
    BY <2>1 DEF ComSnapshot, PedidoDoc
  <2>4. PodeSincronizar(novo, Nenhum) => Plano(novo, Nenhum).alvo = Plano(novo, Nenhum).base
    BY <2>1, PlanoRepetido
  <2>5. Plano(novo, Nenhum).base = alvo
    BY <2>3 DEF Plano, PlanoAtivo, AplicadoBase, Reconstroi
  <2> HIDE DEF novo, alvo, doc
  <2>6. /\ PodeSincronizar(pedidos[ped], Nenhum)' <=> PodeSincronizar(novo, Nenhum)
        /\ Plano(pedidos[ped], Nenhum)' = Plano(novo, Nenhum)
    BY <1>1, <2>2, PlanoDepois
  <2>7. ~TemDeltas(alvo, alvo)
    BY <2>1, SemDeltas
  <2>8. QED
    BY <2>4, <2>5, <2>6, <2>7 DEF Diverge, TemOQueFazer
<1>3. CASE ~TemOQueFazer(ped, anterior)
  <2>1. pedidos' = pedidos
    BY <1>3 DEF sincronizarEstoquePedido
  <2>2. ~Diverge(ped)
    BY <1>3, DivergeTemOQueFazer
  <2>3. QED
    BY <1>1, <2>1, <2>2, DivergeDepois
<1>4. QED
  BY <1>2, <1>3

Coberto(ped) == Diverge(ped) => EventoPendente(ped) \/ ped \in pendente

InvCoberta == TypeOK /\ DivergenciaCoberta

(* A step that leaves a pedido, its events and its exemption.              *)
LEMMA CobertoQuadro ==
  ASSUME InvCoberta, UNCHANGED config, NEW ped \in Pedidos, pedidos'[ped] = pedidos[ped],
         ped \in pendente => ped \in pendente',
         \A e \in fila : e.pedido = ped /\ e.tipo = "escrita" /\ e.mudou => e \in fila'
  PROVE  Coberto(ped)'
<1>1. Coberto(ped)
  BY DEF InvCoberta, DivergenciaCoberta, Coberto
<1>2. Diverge(ped)' <=> Diverge(ped)
  BY DivergeDepois
<1>3. EventoPendente(ped) => EventoPendente(ped)'
  BY DEF EventoPendente
<1>4. QED
  BY <1>1, <1>2, <1>3 DEF Coberto

LEMMA SincronizarCoberto ==
  ASSUME InvCoberta, NEW quem \in Pedidos, NEW anterior, NEW resto \in SUBSET fila,
         \A e \in fila \ resto : e.pedido = quem,
         sincronizarEstoquePedido(quem, anterior, resto),
         NEW ped \in Pedidos
  PROVE  Coberto(ped)'
<1>1. CASE ped = quem
  BY <1>1, SincronizarConverge DEF Coberto, InvCoberta
<1>2. CASE ped # quem
  <2>1. UNCHANGED config /\ (ped \in pendente => ped \in pendente')
    BY <1>2 DEF sincronizarEstoquePedido
  <2>2. pedidos'[ped] = pedidos[ped] /\ resto \subseteq fila'
    BY <1>2 DEF sincronizarEstoquePedido, Convergir, Registrar, InvCoberta, TypeOK
  <2>3. \A e \in fila : e.pedido = ped => e \in fila'
    BY <1>2, <2>2
  <2>4. QED
    BY <2>1, <2>2, <2>3, CobertoQuadro
<1>3. QED
  BY <1>1, <1>2

LEMMA TriggerCoberto ==
  ASSUME InvCoberta, NEW e \in fila, NEW resto \in SUBSET fila,
         \A outro \in fila \ resto : outro = e,
         onPedidoEstoqueSync(e, resto), NEW ped \in Pedidos
  PROVE  Coberto(ped)'
<1>1. CASE e.tipo = "exclusao" /\ reverterEstoquePedidoExcluido(e, resto)
  <2>1. UNCHANGED config /\ pedidos' = pedidos /\ pendente' = pendente /\ fila' = resto
    BY <1>1 DEF reverterEstoquePedidoExcluido
  <2>2. QED
    BY <1>1, <2>1, CobertoQuadro
<1>2. CASE e.tipo = "escrita" /\ ~e.mudou /\ Ignorar(resto)
  <2>1. UNCHANGED config /\ pedidos' = pedidos /\ pendente' = pendente /\ fila' = resto
    BY <1>2 DEF Ignorar
  <2>2. QED
    BY <1>2, <2>1, CobertoQuadro
<1>3. CASE e.tipo = "escrita" /\ e.mudou
             /\ sincronizarEstoquePedido(e.pedido, e.anterior, resto)
  <2>1. e.pedido \in Pedidos
    BY DEF InvCoberta, TypeOK, Evento
  <2>2. QED
    BY <1>3, <2>1, SincronizarCoberto
<1>4. QED
  BY <1>1, <1>2, <1>3 DEF onPedidoEstoqueSync

(* A save that changes a pedido changes a watched field (every field an    *)
(* editor writes is watched), and its event is in flight.                  *)
LEMMA SalvarMuda ==
  ASSUME TypeOK, NEW ped \in Pedidos, NEW r \in Rascunhos, SalvarPedido(ped, r)
  PROVE  mudouCampoObservado(pedidos[ped], ComRascunho(pedidos[ped], r))
<1> DEFINE doc == pedidos[ped]
           novo == ComRascunho(doc, r)
<1>1. doc \in PedidoDoc /\ novo # doc
  BY DEF SalvarPedido, TypeOK
<1>2. novo \in PedidoDoc
  BY <1>1, RascunhoTipo
<1>3. /\ novo.estoqueAplicado = doc.estoqueAplicado
      /\ novo.marcaReserva = doc.marcaReserva
      /\ novo.marcaRemocao = doc.marcaRemocao
  BY <1>1 DEF ComRascunho, NovoPedido, PedidoDoc
<1> HIDE DEF novo, doc
<1>4. \/ novo.estado # doc.estado \/ novo.frete # doc.frete \/ novo.itens # doc.itens
      \/ novo.ehSaida # doc.ehSaida \/ novo.operacao # doc.operacao
      \/ novo.integracao # doc.integracao
  BY <1>1, <1>2, <1>3 DEF PedidoDoc
<1>5. mudouCampoObservado(doc, novo)
  BY <1>4 DEF mudouCampoObservado, CAMPOS_OBSERVADOS
<1>6. QED
  BY <1>5 DEF novo, doc

LEMMA SalvarCoberto ==
  ASSUME InvCoberta, NEW quem \in Pedidos, NEW r \in Rascunhos,
         CriarPedido(quem, r) \/ SalvarPedido(quem, r), NEW ped \in Pedidos
  PROVE  Coberto(ped)'
<1>1. PICK antes, depois :
        /\ pedidos' = [pedidos EXCEPT ![quem] = depois]
        /\ fila' = fila \cup {EventoEscrita(quem, antes, depois)}
        /\ mudouCampoObservado(antes, depois)
        /\ UNCHANGED <<config, pendente>>
  <2>1. CASE CriarPedido(quem, r)
    BY <2>1 DEF CriarPedido, Registrar, mudouCampoObservado
  <2>2. CASE SalvarPedido(quem, r)
    BY <2>2, SalvarMuda DEF SalvarPedido, Registrar, InvCoberta
  <2>3. QED
    BY <2>1, <2>2
<1>2. CASE ped = quem
  <2> DEFINE e == EventoEscrita(quem, antes, depois)
  <2>1. e \in fila'
    BY <1>1
  <2>2. e.pedido = ped /\ e.tipo = "escrita"
    BY <1>2 DEF EventoEscrita
  <2>3. e.mudou = mudouCampoObservado(antes, depois)
    BY DEF EventoEscrita
  <2> HIDE DEF e
  <2>4. e.mudou
    BY <1>1, <2>3, Zenon
  <2>5. EventoPendente(ped)'
    BY <2>1, <2>2, <2>4, Zenon DEF EventoPendente
  <2>6. QED
    BY <2>5, Zenon DEF Coberto
<1>3. CASE ped # quem
  BY <1>1, <1>3, CobertoQuadro DEF InvCoberta, TypeOK
<1>4. QED
  BY <1>2, <1>3

(* An edited configuration exempts every pedido there is.                  *)
LEMMA ConfigCoberta ==
  ASSUME AfetaPedidos, NEW ped \in Pedidos
  PROVE  Coberto(ped)'
<1>1. pedidos' = pedidos /\ (pedidos[ped] # Nenhum => ped \in pendente')
  BY DEF AfetaPedidos
<1>2. pedidos[ped] = Nenhum => ~Diverge(ped)'
  BY <1>1 DEF Diverge, TemOQueFazer, PodeSincronizar
<1>3. QED
  BY <1>1, <1>2 DEF Coberto

LEMMA CobertaInicial == Init => InvCoberta
<1> SUFFICES ASSUME Init PROVE DivergenciaCoberta
  BY TipoInicial DEF InvCoberta
<1>1. ASSUME NEW ped \in Pedidos, pedidos[ped] = Nenhum
      PROVE  ~Diverge(ped)
  BY <1>1 DEF Diverge, TemOQueFazer, PodeSincronizar
<1>2. QED
  BY <1>1 DEF Init, DivergenciaCoberta

LEMMA CobertaPreservada == InvCoberta /\ [Next]_vars => InvCoberta'
<1> SUFFICES ASSUME InvCoberta, [Next]_vars, NEW ped \in Pedidos PROVE Coberto(ped)'
  BY TipoPreservado DEF InvCoberta, DivergenciaCoberta, Coberto
<1>1. ASSUME NEW quem \in Pedidos, NEW r \in Rascunhos,
             CriarPedido(quem, r) \/ SalvarPedido(quem, r)
      PROVE  Coberto(ped)'
  BY <1>1, SalvarCoberto
<1>2. ASSUME NEW quem \in Pedidos, ExcluirPedido(quem)
      PROVE  Coberto(ped)'
  <2>1. CASE ped = quem
    <3>1. pedidos'[ped] = Nenhum
      BY <1>2, <2>1 DEF ExcluirPedido, InvCoberta, TypeOK
    <3>2. QED
      BY <3>1 DEF Coberto, Diverge, TemOQueFazer, PodeSincronizar
  <2>2. CASE ped # quem
    BY <1>2, <2>2, CobertoQuadro DEF ExcluirPedido, InvCoberta, TypeOK
  <2>3. QED
    BY <2>1, <2>2
<1>3. ASSUME NEW ed \in EdicoesIntegracao, SalvarIntegracao(ed[1], ed[2])
      PROVE  Coberto(ped)'
  BY <1>3, ConfigCoberta DEF SalvarIntegracao
<1>4. ASSUME NEW ed \in EdicoesOperacao, SalvarOperacao(ed[1], ed[2])
      PROVE  Coberto(ped)'
  BY <1>4, ConfigCoberta DEF SalvarOperacao
<1>5. ASSUME NEW ed \in EdicoesProduto, SalvarProduto(ed[1], ed[2])
      PROVE  Coberto(ped)'
  BY <1>5, ConfigCoberta DEF SalvarProduto
<1>6. ASSUME NEW m \in Movimentos, aplicarMovimento(m)
      PROVE  Coberto(ped)'
  BY <1>6, CobertoQuadro DEF aplicarMovimento
<1>7. ASSUME NEW e \in fila, Entregar(e) \/ EntregarEReentregar(e)
      PROVE  Coberto(ped)'
  BY <1>7, TriggerCoberto DEF Entregar, EntregarEReentregar
<1>8. ASSUME NEW e \in fila, PerderEvento(e)
      PROVE  Coberto(ped)'
  <2>1. CASE ped = e.pedido
    BY <1>8, <2>1 DEF PerderEvento, Coberto
  <2>2. CASE ped # e.pedido
    BY <1>8, <2>2, CobertoQuadro DEF PerderEvento
  <2>3. QED
    BY <2>1, <2>2
<1>9. ASSUME NEW quem \in Pedidos, resincronizarEstoquePedido(quem)
      PROVE  Coberto(ped)'
  BY <1>9, SincronizarCoberto DEF resincronizarEstoquePedido
<1>10. CASE UNCHANGED vars
  BY <1>10, CobertoQuadro DEF vars
<1>11. QED
  BY <1>1, <1>2, <1>3, <1>4, <1>5, <1>6, <1>7, <1>8, <1>9, <1>10 DEF Next

(* Convergence as safety: whatever is delivered twice, late or out of      *)
(* order, a pedido whose stock is not what its fields ask for has an event *)
(* in flight that will move it, unless an event was lost or a config       *)
(* document was edited, which no event tells (onPedidoEstoqueSync's        *)
(* watched fields; sincronizarEstoquePedido is idempotent).                *)
THEOREM DivergenciaTemEvento == Spec => []DivergenciaCoberta
<1>1. InvCoberta => DivergenciaCoberta
  BY DEF InvCoberta
<1>2. QED
  BY <1>1, CobertaInicial, CobertaPreservada, PTL DEF Spec

-----------------------------------------------------------------------------
(* Loop prevention *)

(* The three fields the sync writes are not among the watched ones.        *)
LEMMA SnapshotNaoObservado ==
  ASSUME NEW doc \in PedidoDoc, NEW alvo
  PROVE  ~mudouCampoObservado(doc, ComSnapshot(doc, alvo))
<1>1. doc # Nenhum
  BY EstoquePedidoAssumption
<1>2. \A c \in CAMPOS_OBSERVADOS : doc[c] = ComSnapshot(doc, alvo)[c]
  BY DEF CAMPOS_OBSERVADOS, ComSnapshot, PedidoDoc
<1>3. QED
  BY <1>1, <1>2 DEF mudouCampoObservado

LEMMA SincronizarSemEco ==
  ASSUME TypeOK, NEW ped \in Pedidos, NEW anterior, NEW resto \in SUBSET fila,
         sincronizarEstoquePedido(ped, anterior, resto),
         NEW e \in fila' \ fila
  PROVE  ~e.mudou
<1> DEFINE doc == pedidos[ped]
           novo == ComSnapshot(doc, Plano(doc, anterior).alvo)
<1>1. TemOQueFazer(ped, anterior)
  BY DEF sincronizarEstoquePedido
<1>2. doc \in PedidoDoc
  BY <1>1 DEF TemOQueFazer, PodeSincronizar, TypeOK
<1>3. e = EventoEscrita(ped, doc, novo)
  BY <1>1 DEF sincronizarEstoquePedido, Convergir, Registrar
<1>4. ~mudouCampoObservado(doc, novo)
  BY <1>2, SnapshotNaoObservado
<1> HIDE DEF doc, novo
<1>5. e.mudou = mudouCampoObservado(doc, novo)
  BY <1>3 DEF EventoEscrita
<1>6. QED
  BY <1>4, <1>5, Zenon

(* No write of the sync itself starts another sync: only a save, which     *)
(* moves no stock, puts an observed change in flight (mudouCampoObservado).*)
THEOREM SincNaoEcoa == Spec => SemEco
<1> DEFINE Passo == \A e \in fila' \ fila : e.tipo = "escrita" /\ e.mudou
                       => estoques' = estoques /\ lancado' = lancado
<1>1. ASSUME TypeOK, [Next]_vars, NEW e \in fila' \ fila, e.tipo = "escrita", e.mudou
      PROVE  estoques' = estoques /\ lancado' = lancado
  <2>1. ASSUME NEW quem \in Pedidos, NEW r \in Rascunhos,
               CriarPedido(quem, r) \/ SalvarPedido(quem, r)
        PROVE  estoques' = estoques /\ lancado' = lancado
    BY <2>1 DEF CriarPedido, SalvarPedido
  <2>2. ASSUME NEW quem \in Pedidos, ExcluirPedido(quem)
        PROVE  estoques' = estoques /\ lancado' = lancado
    BY <2>2 DEF ExcluirPedido
  <2>3. ASSUME NEW ed, \/ SalvarIntegracao(ed[1], ed[2])
                       \/ SalvarOperacao(ed[1], ed[2])
                       \/ SalvarProduto(ed[1], ed[2])
        PROVE  FALSE
    BY <1>1, <2>3 DEF SalvarIntegracao, SalvarOperacao, SalvarProduto, AfetaPedidos
  <2>4. ASSUME NEW m \in Movimentos, aplicarMovimento(m)
        PROVE  FALSE
    BY <1>1, <2>4 DEF aplicarMovimento
  <2>5. ASSUME NEW f \in fila, NEW resto \in SUBSET fila, onPedidoEstoqueSync(f, resto)
        PROVE  FALSE
    <3>1. f.pedido \in Pedidos
      BY <1>1 DEF TypeOK, Evento
    <3>2. CASE sincronizarEstoquePedido(f.pedido, f.anterior, resto)
      BY <1>1, <3>1, <3>2, SincronizarSemEco
    <3>3. CASE fila' = resto
      BY <1>1, <3>3
    <3>4. QED
      BY <2>5, <3>2, <3>3 DEF onPedidoEstoqueSync, reverterEstoquePedidoExcluido, Ignorar
  <2>6. ASSUME NEW f \in fila, Entregar(f) \/ EntregarEReentregar(f) \/ PerderEvento(f)
        PROVE  FALSE
    BY <1>1, <2>5, <2>6 DEF Entregar, EntregarEReentregar, PerderEvento
  <2>7. ASSUME NEW quem \in Pedidos, resincronizarEstoquePedido(quem)
        PROVE  FALSE
    BY <1>1, <2>7, SincronizarSemEco DEF resincronizarEstoquePedido
  <2>8. CASE UNCHANGED vars
    BY <1>1, <2>8 DEF vars
  <2>9. QED
    BY <1>1, <2>1, <2>2, <2>3, <2>4, <2>6, <2>7, <2>8 DEF Next
<1>2. TypeOK /\ [Next]_vars => [Passo]_vars
  BY <1>1
<1>3. QED
  BY <1>2, TipoInicial, TipoPreservado, PTL DEF Spec, SemEco


-----------------------------------------------------------------------------
(* What the sync holds, and what it stamps *)

(* One sync of a pedido that had something to move. *)
Sincronizou(ped) ==
  \E anterior \in Itens \cup {Nenhum} :
    /\ PodeSincronizar(pedidos[ped], anterior)
    /\ pedidos'[ped] = ComSnapshot(pedidos[ped], Plano(pedidos[ped], anterior).alvo)
    /\ kitsCarimbados' = Plano(pedidos[ped], anterior).kits

(* A step that moves stock for the pedido ped or writes its snapshot. *)
Mexeu(ped) ==
  \/ lancado'[ped] # lancado[ped]
  \/ pedidos'[ped].estoqueAplicado # pedidos[ped].estoqueAplicado

LEMMA SincronizarMexe ==
  ASSUME TypeOK, NEW quem \in Pedidos, NEW anterior \in Itens \cup {Nenhum}, NEW resto,
         sincronizarEstoquePedido(quem, anterior, resto),
         NEW ped \in Pedidos, Mexeu(ped)
  PROVE  Sincronizou(ped)
<1> DEFINE doc == pedidos[quem]
           plano == Plano(doc, anterior)
<1>1. TemOQueFazer(quem, anterior)
  BY DEF sincronizarEstoquePedido, Mexeu
<1>2. /\ aplicarPlano(quem, plano.alvo, plano.base, {})
      /\ pedidos' = [pedidos EXCEPT ![quem] = ComSnapshot(doc, plano.alvo)]
      /\ kitsCarimbados' = plano.kits
  BY <1>1 DEF sincronizarEstoquePedido, Convergir, Registrar
<1>3. PodeSincronizar(doc, anterior)
  BY <1>1 DEF TemOQueFazer
<1> HIDE DEF doc, plano
<1>4. ped = quem
  <2> SUFFICES ASSUME ped # quem PROVE FALSE
    OBVIOUS
  <2>1. lancado'[ped] = lancado[ped]
    BY <1>2, OutrosNaoLancam
  <2>2. pedidos'[ped] = pedidos[ped]
    BY <1>2 DEF TypeOK
  <2>3. QED
    BY <2>1, <2>2 DEF Mexeu
<1>5. pedidos'[ped] = ComSnapshot(doc, plano.alvo)
  BY <1>2, <1>4 DEF TypeOK
<1>6. QED
  BY <1>2, <1>3, <1>4, <1>5 DEF Sincronizou, doc, plano

(* Only the sync moves stock for a pedido that stays, or writes its        *)
(* snapshot: editors save neither, a reversal needs the pedido gone.       *)
LEMMA SoOSyncMexe ==
  ASSUME TypeOK, Next, NEW ped \in Pedidos, pedidos[ped] # Nenhum, pedidos'[ped] # Nenhum,
         Mexeu(ped)
  PROVE  Sincronizou(ped)
<1>1. pedidos[ped] \in PedidoDoc
  BY DEF TypeOK
<1>2. ASSUME NEW quem \in Pedidos, NEW r \in Rascunhos,
             CriarPedido(quem, r) \/ SalvarPedido(quem, r)
      PROVE  FALSE
  <2>1. lancado' = lancado
    BY <1>2 DEF CriarPedido, SalvarPedido
  <2>2. ped = quem => SalvarPedido(quem, r)
    BY <1>2 DEF CriarPedido
  <2>3. \/ pedidos'[ped] = pedidos[ped]
        \/ pedidos'[ped] = ComRascunho(pedidos[ped], r)
    BY <1>2, <2>2 DEF CriarPedido, SalvarPedido, Registrar, TypeOK
  <2>4. ComRascunho(pedidos[ped], r).estoqueAplicado = pedidos[ped].estoqueAplicado
    BY DEF ComRascunho, NovoPedido
  <2>5. QED
    BY <2>1, <2>3, <2>4 DEF Mexeu
<1>3. ASSUME NEW quem \in Pedidos, ExcluirPedido(quem)
      PROVE  FALSE
  <2>1. lancado' = lancado /\ ped # quem
    BY <1>3 DEF ExcluirPedido, TypeOK
  <2>2. pedidos'[ped] = pedidos[ped]
    BY <1>3, <2>1 DEF ExcluirPedido, TypeOK
  <2>3. QED
    BY <2>1, <2>2 DEF Mexeu
<1>4. ASSUME NEW ed, \/ SalvarIntegracao(ed[1], ed[2])
                     \/ SalvarOperacao(ed[1], ed[2])
                     \/ SalvarProduto(ed[1], ed[2])
      PROVE  FALSE
  BY <1>4 DEF SalvarIntegracao, SalvarOperacao, SalvarProduto, AfetaPedidos, Mexeu
<1>5. ASSUME NEW m \in Movimentos, aplicarMovimento(m)
      PROVE  FALSE
  BY <1>5 DEF aplicarMovimento, Mexeu
<1>6. ASSUME NEW e \in fila, NEW resto, onPedidoEstoqueSync(e, resto)
      PROVE  Sincronizou(ped)
  <2>1. CASE e.tipo = "exclusao" /\ reverterEstoquePedidoExcluido(e, resto)
    <3>1. pedidos' = pedidos /\ lancado' # lancado
      BY <2>1 DEF reverterEstoquePedidoExcluido, Mexeu
    <3>2. /\ pedidos[e.pedido] = Nenhum
          /\ aplicarPlano(e.pedido, Nenhum, e.aplicado, JaRevertidos(e.pedido))
      BY <2>1, <3>1 DEF reverterEstoquePedidoExcluido
    <3>3. e.pedido \in Pedidos
      BY DEF TypeOK, Evento
    <3>4. lancado'[ped] = lancado[ped]
      BY <3>2, <3>3, OutrosNaoLancam
    <3>5. QED
      BY <3>1, <3>4 DEF Mexeu
  <2>2. CASE e.tipo = "escrita" /\ ~e.mudou /\ Ignorar(resto)
    BY <2>2 DEF Ignorar, Mexeu
  <2>3. CASE e.tipo = "escrita" /\ sincronizarEstoquePedido(e.pedido, e.anterior, resto)
    <3>1. e.pedido \in Pedidos /\ e.anterior \in Itens \cup {Nenhum}
      BY <2>3 DEF TypeOK, Evento
    <3>2. QED
      BY <2>3, <3>1, SincronizarMexe
  <2>4. QED
    BY <1>6, <2>1, <2>2, <2>3 DEF onPedidoEstoqueSync
<1>7. ASSUME NEW e \in fila, PerderEvento(e)
      PROVE  FALSE
  BY <1>7 DEF PerderEvento, Mexeu
<1>8. ASSUME NEW quem \in Pedidos, resincronizarEstoquePedido(quem)
      PROVE  Sincronizou(ped)
  BY <1>8, SincronizarMexe DEF resincronizarEstoquePedido
<1>9. QED
  BY <1>2, <1>3, <1>4, <1>5, <1>6, <1>7, <1>8 DEF Next, Entregar, EntregarEReentregar

(* The sync of a pedido that moved, is active, still has units to move and *)
(* whose operacao moves stock, moves again.                                *)
LEMMA SyncMantemMovimento ==
  ASSUME TypeOK, NEW doc \in PedidoDoc, NEW anterior, PodeSincronizar(doc, anterior),
         temMovimentoAplicado(doc.estoqueAplicado), EstadoAtivo(doc),
         calcularAlteracoesEstoque(doc.itens, produtos) # Vazio,
         OperacaoDe(doc).movimentaEstoque
  PROVE  temMovimentoAplicado(Plano(doc, anterior).alvo)
<1> DEFINE efeito == EfeitoDe(doc, anterior)
           ja == JaMovimentado(doc, anterior)
<1>1. /\ doc.estado \in ESTADOS_PEDIDO_MOVIMENTACAO
      /\ OperacaoDe(doc) \in OperacaoDoc
      /\ DirecaoDe(doc) \in BOOLEAN
      /\ DepositoDe(doc) \in Depositos
      /\ ja \in BOOLEAN
  BY ConfigTipo DEF PodeSincronizar
<1>2. ja
  BY DEF JaMovimentado
<1>3. efeito \in Efeito
  BY <1>1, EfeitoTipo DEF EfeitoDe
<1>4. \A entrada \in BOOLEAN : Movimenta(OperacaoDe(doc), ja, doc.estado, entrada)
  BY <1>1, <1>2 DEF Movimenta
<1>5. /\ EntradaRemocao(doc.estado, doc.frete, OperacaoDe(doc)) \in BOOLEAN
      /\ EntradaAdicao(doc.estado) \in BOOLEAN
  BY DEF EntradaRemocao, EntradaAdicao
<1>6. efeito.remover \/ efeito.adicionar
  BY <1>1, <1>4, <1>5 DEF EfeitoDe, efeitoEstoquePedido
<1> HIDE DEF efeito
<1>7. Plano(doc, anterior).alvo
        = AplicadoAlvo(calcularAlteracoesEstoque(doc.itens, produtos), efeito, DepositoDe(doc))
  BY PlanoDe DEF efeito
<1>8. QED
  BY <1>1, <1>3, <1>6, <1>7, AlteracoesTipo, AlvoComMovimento DEF Efeito

(* A partial refund, a returned parcel or a cancellation in progress does  *)
(* not restock: what a pedido removed or added stays applied in every      *)
(* active estado, by whatever sequence of edits and syncs it gets there    *)
(* (the hysteresis of efeitoEstoquePedido).                                *)
THEOREM MovimentoNaoVolta == Spec => MovimentoPersiste
<1> DEFINE Passo == \A ped \in Pedidos :
       /\ pedidos[ped] # Nenhum /\ temMovimentoAplicado(pedidos[ped].estoqueAplicado)
       /\ pedidos'[ped] # Nenhum /\ ~temMovimentoAplicado(pedidos'[ped].estoqueAplicado)
       => \/ ~EstadoAtivo(pedidos[ped])
          \/ calcularAlteracoesEstoque(pedidos[ped].itens, produtos) = Vazio
          \/ ~operacoes[OperacaoResolvida(pedidos[ped])].movimentaEstoque
<1>1. ASSUME TypeOK, Next, NEW ped \in Pedidos,
             pedidos[ped] # Nenhum, temMovimentoAplicado(pedidos[ped].estoqueAplicado),
             pedidos'[ped] # Nenhum, ~temMovimentoAplicado(pedidos'[ped].estoqueAplicado),
             EstadoAtivo(pedidos[ped]),
             calcularAlteracoesEstoque(pedidos[ped].itens, produtos) # Vazio,
             operacoes[OperacaoResolvida(pedidos[ped])].movimentaEstoque
      PROVE  FALSE
  <2> DEFINE doc == pedidos[ped]
  <2>1. doc \in PedidoDoc
    BY <1>1 DEF TypeOK
  <2>2. pedidos'[ped].estoqueAplicado # doc.estoqueAplicado
    BY <1>1
  <2>3. Sincronizou(ped)
    BY <1>1, <2>2, SoOSyncMexe DEF Mexeu
  <2>4. PICK anterior \in Itens \cup {Nenhum} :
          /\ PodeSincronizar(doc, anterior)
          /\ pedidos'[ped] = ComSnapshot(doc, Plano(doc, anterior).alvo)
    BY <2>3 DEF Sincronizou
  <2>5. pedidos'[ped].estoqueAplicado = Plano(doc, anterior).alvo
    BY <2>1, <2>4 DEF ComSnapshot, PedidoDoc
  <2>6. temMovimentoAplicado(Plano(doc, anterior).alvo)
    BY <1>1, <2>1, <2>4, SyncMantemMovimento DEF OperacaoDe
  <2>7. QED
    BY <1>1, <2>5, <2>6
<1>2. TypeOK /\ [Next]_vars => [Passo]_vars
  BY <1>1
<1>3. QED
  BY <1>2, TipoInicial, TipoPreservado, PTL DEF Spec, MovimentoPersiste

(* A sale stamps every kit on its lines at the deposito it is sold from,   *)
(* whatever effect it lands on and whichever transaction moves the units   *)
(* (carimbarKitsVendidos runs inside the sync's transaction).              *)
THEOREM VendaCarimbaKit == Spec => KitVendidoCarimbado
<1> DEFINE Passo == \A ped \in Pedidos :
       /\ pedidos[ped] # Nenhum /\ pedidos'[ped] # Nenhum
       /\ lancado'[ped] # lancado[ped]
       /\ pedidos'[ped].estoqueAplicado # Nenhum
       => \A v \in Produtos :
            pedidos[ped].itens[v] > 0 /\ produtos[v] # Nenhum /\ produtos[v].ehKit
              => <<v, pedidos'[ped].estoqueAplicado.depositoId>> \in kitsCarimbados'
<1>1. ASSUME TypeOK, Next, NEW ped \in Pedidos,
             pedidos[ped] # Nenhum, pedidos'[ped] # Nenhum, lancado'[ped] # lancado[ped],
             pedidos'[ped].estoqueAplicado # Nenhum, NEW v \in Produtos,
             pedidos[ped].itens[v] > 0, produtos[v] # Nenhum, produtos[v].ehKit
      PROVE  <<v, pedidos'[ped].estoqueAplicado.depositoId>> \in kitsCarimbados'
  <2> DEFINE doc == pedidos[ped]
  <2>1. doc \in PedidoDoc
    BY <1>1 DEF TypeOK
  <2>2. Sincronizou(ped)
    BY <1>1, SoOSyncMexe DEF Mexeu
  <2>3. PICK anterior \in Itens \cup {Nenhum} :
          /\ PodeSincronizar(doc, anterior)
          /\ pedidos'[ped] = ComSnapshot(doc, Plano(doc, anterior).alvo)
          /\ kitsCarimbados' = Plano(doc, anterior).kits
    BY <2>2 DEF Sincronizou
  <2> DEFINE efeito == EfeitoDe(doc, anterior)
             alteracoes == calcularAlteracoesEstoque(doc.itens, produtos)
             dep == DepositoDe(doc)
  <2>4. pedidos'[ped].estoqueAplicado = Plano(doc, anterior).alvo
    BY <2>1, <2>3 DEF ComSnapshot, PedidoDoc
  <2>5. EstadoAtivo(doc)
    BY <1>1, <2>4 DEF Plano
  <2>6. /\ Plano(doc, anterior).alvo = AplicadoAlvo(alteracoes, efeito, dep)
        /\ kitsCarimbados' = KitsVendidos(doc, anterior, efeito, dep)
    BY <2>3, <2>5, PlanoDe
  <2> HIDE DEF efeito, alteracoes, dep
  <2>7. efeito # EFEITO_ESTOQUE_NENHUM
    BY <1>1, <2>4, <2>6 DEF AplicadoAlvo
  <2>8. pedidos'[ped].estoqueAplicado.depositoId = dep
    BY <1>1, <2>4, <2>6 DEF AplicadoAlvo
  <2>9. QED
    BY <1>1, <2>6, <2>7, <2>8 DEF KitsVendidos
<1>2. TypeOK /\ [Next]_vars => [Passo]_vars
  BY <1>1
<1>3. QED
  BY <1>2, TipoInicial, TipoPreservado, PTL DEF Spec, KitVendidoCarimbado

=============================================================================
