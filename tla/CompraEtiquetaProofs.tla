------------------------- MODULE CompraEtiquetaProofs -------------------------
(***************************************************************************)
(* Proofs about CompraEtiqueta, for every set of requests, labels and      *)
(* webhook tasks, every clock skew and deadlines that satisfy the          *)
(* assumptions, and every bound.                                           *)
(***************************************************************************)
EXTENDS CompraEtiqueta, TLAPS

(* The phases in which a run has a label, and a claim of its own.          *)
ComEtiqueta == {"ancorar", "cercar", "pagar", "esperar", "imprimir", "finalizar"}
ComClaim == ComEtiqueta \cup {"carrinho"}

-----------------------------------------------------------------------------
(* The parts of the inductive invariant.                                   *)

(* Whatever points at a label points at one that Melhor Envio made.        *)
EtiquetasReais ==
  /\ \A r \in Requisicoes :
       LET q == requisicoes[r]
       IN /\ q.fase \in ComEtiqueta => q.etiqueta # Nenhum
          /\ q.etiqueta # Nenhum => ordens[q.etiqueta].existe
          /\ q.pago \/ q.gerado => q.fase \in ComEtiqueta
  /\ ancoraDe(pedido) # Nenhum => ordens[ancoraDe(pedido)].existe
  /\ \A a \in Avisos : avisos[a].fase # "fora" => avisos[a].etiqueta # Nenhum

(* A webhook task whose precondition holds read the pedido as it is.       *)
AvisoIntacto ==
  \A a \in Avisos : avisos[a].intacto =>
    /\ avisos[a].fase # "fora"
    /\ pedido # Nenhum
    /\ pedido.ancora = avisos[a].etiqueta
    /\ avisos[a].terminal = ehEstadoFreteTerminal(pedido.estado)

TipoInv == TypeOK /\ EtiquetasReais /\ AvisoIntacto

(* A label not anchored yet is in the hands of one run, and nobody pays it.*)
CarrinhoNovo ==
  \A r \in Requisicoes : requisicoes[r].fase = "ancorar" =>
    LET e == requisicoes[r].etiqueta
    IN /\ e # ancoraDe(pedido)
       /\ ~ordens[e].pago
       /\ \A c \in chamadas : c.etiqueta # e
       /\ \A s \in Requisicoes : s # r => requisicoes[s].etiqueta # e

(* What a request in flight asks is what its run waits for.                *)
ChamadaDoRun ==
  /\ \A c \in chamadas :
       LET q == requisicoes[c.dono]
       IN /\ q.fase \in {"esperar", "fim"}
          /\ q.fase = "esperar" => /\ q.resposta = "nenhuma"
                                   /\ q.etiqueta = c.etiqueta
                                   /\ Etapa(c.dono) = c.etapa
          /\ ordens[c.etiqueta].existe
  /\ \A e \in Etiquetas : ordens[e].pago => ordens[e].existe
  /\ \A c, d \in chamadas : c.dono = d.dono => c = d
  /\ \A r \in Requisicoes :
       requisicoes[r].fase # "esperar" => requisicoes[r].resposta = "nenhuma"

(* What a run knows of its order is true.                                  *)
ConheceOrdem ==
  \A r \in Requisicoes :
    LET q == requisicoes[r]
    IN /\ q.pago => ordens[q.etiqueta].pago
       /\ q.gerado => ordens[q.etiqueta].gerado
       /\ q.fase \in {"imprimir", "finalizar"} => q.pago /\ q.gerado
       /\ q.resposta = "aceita" =>
            IF Etapa(r) = "checkout" THEN ordens[q.etiqueta].pago ELSE ordens[q.etiqueta].gerado

(* Every authorised label is the anchored one or was detached.             *)
AutorizadaPresa ==
  \A e \in Etiquetas : Autorizada(e) => e \in soltas \/ e = ancoraDe(pedido)

-----------------------------------------------------------------------------
(* Where the clocks are.                                                   *)

(* While its claim has not expired on any clock, a run has it.             *)
ClaimVivo(dono, expira) ==
  (\A s \in Requisicoes : HoraDe(s) < expira) =>
    claim # Nenhum /\ claim.dono = dono

PosseDoRun(r) ==
  LET q == requisicoes[r]
  IN /\ q.fase \in ComClaim =>
          /\ ClaimVivo(r, q.expira)
          /\ claim # Nenhum /\ claim.dono = r => claim.leaseExpiraEmMs = q.expira
          /\ q.inicio + COMPRA_ETIQUETA_LEASE_MS <= q.expira
     /\ q.fase = "chegou" => q.inicio <= HoraDe(r)
     /\ q.fase \in {"fora", "chegou"} => ~(claim # Nenhum /\ claim.dono = r)

PosseDaChamada(c) ==
  /\ ClaimVivo(c.dono, c.expira)
  /\ claim # Nenhum /\ claim.dono = c.dono => claim.leaseExpiraEmMs = c.expira
  /\ requisicoes[c.dono].fase = "esperar" => requisicoes[c.dono].expira = c.expira

PosseViva ==
  /\ claim # Nenhum =>
       claim.leaseExpiraEmMs <= agora + Relogio[claim.dono] + COMPRA_ETIQUETA_LEASE_MS
  /\ \A r \in Requisicoes : PosseDoRun(r)
  /\ \A c \in chamadas : PosseDaChamada(c)

(* A paid call that is not frozen ends before its claim does.              *)
PrazoVivo ==
  \A r \in Requisicoes : EmChamadaPaga(r) /\ ~requisicoes[r].congelada =>
    LET q == requisicoes[r]
    IN /\ agora <= q.limite
       /\ q.limite + Relogio[r]
            < q.inicio + COMPRA_ETIQUETA_JANELA_PAGA_MS + PRAZO_PAGO

-----------------------------------------------------------------------------
(* Where the shipment is.                                                  *)

(* The shipment a status was read of can be at this one now.               *)
Segue(lido, atual) ==
  /\ lido = "posted" => atual \in {"posted", "delivered", "undelivered"}
  /\ lido = "delivered" => atual = "delivered"
  /\ lido = "canceled" => atual = "canceled"

StatusLido ==
  /\ \A a \in Avisos : avisos[a].fase = "consultado" =>
       Segue(avisos[a].status, ordens[avisos[a].etiqueta].status)
  /\ \A r \in Requisicoes : requisicoes[r].fase = "finalizar" =>
       Segue(requisicoes[r].status, ordens[requisicoes[r].etiqueta].status)

IInv ==
  /\ TipoInv /\ CarrinhoNovo /\ ChamadaDoRun /\ ConheceOrdem /\ AutorizadaPresa
  /\ PosseViva /\ PrazoVivo /\ StatusLido /\ EstadoDaEtiqueta

-----------------------------------------------------------------------------
(* Types and the labels of runs and tasks.                                 *)

LEMMA HoraTipo ==
  ASSUME TypeOK, NEW r \in Requisicoes
  PROVE  HoraDe(r) \in Nat /\ agora \in Nat /\ Relogio[r] \in Nat
<1>1. agora \in Nat
  BY CompraAssumption DEF TypeOK
<1>2. Relogio[r] \in Nat
  BY CompraAssumption
<1>3. QED
  BY <1>1, <1>2 DEF HoraDe

(* A write of the pedido touches a webhook task only in its precondition.  *)
LEMMA GravarPedidoEfeito ==
  ASSUME TypeOK, NEW doc, GravarPedido(doc)
  PROVE  /\ pedido' = doc
         /\ avisos' \in [Avisos -> Aviso]
         /\ \A a \in Avisos :
              /\ avisos'[a].fase = avisos[a].fase
              /\ avisos'[a].etiqueta = avisos[a].etiqueta
              /\ avisos'[a].terminal = avisos[a].terminal
              /\ avisos'[a].status = avisos[a].status
              /\ avisos'[a].intacto => avisos[a].intacto /\ doc = pedido
<1>1. pedido' = doc
  BY DEF GravarPedido
<1>2. avisos' = [a \in Avisos |->
         IF doc # pedido THEN [avisos[a] EXCEPT !.intacto = FALSE] ELSE avisos[a]]
  BY DEF GravarPedido
<1>3. ASSUME NEW a \in Avisos
      PROVE  /\ avisos'[a] \in Aviso
             /\ avisos'[a].fase = avisos[a].fase
             /\ avisos'[a].etiqueta = avisos[a].etiqueta
             /\ avisos'[a].terminal = avisos[a].terminal
             /\ avisos'[a].status = avisos[a].status
             /\ avisos'[a].intacto => avisos[a].intacto /\ doc = pedido
  <2>1. avisos[a] \in Aviso
    BY DEF TypeOK
  <2>2. [avisos[a] EXCEPT !.intacto = FALSE] \in Aviso
    BY <2>1 DEF Aviso
  <2>3. CASE doc = pedido
    BY <1>2, <2>1, <2>3
  <2>4. CASE doc # pedido
    BY <1>2, <2>1, <2>2, <2>4 DEF Aviso
  <2>5. QED
    BY <2>3, <2>4
<1>4. QED
  BY <1>1, <1>2, <1>3

(* A write of the state alone: the label stays, and so does everything a   *)
(* run or a webhook task knows, its precondition apart.                    *)
LEMMA GravarEstadoEfeito ==
  ASSUME TipoInv, NEW estado \in EstadoFrete, GravarEstado(estado)
  PROVE  /\ pedido # Nenhum /\ pedido' # Nenhum
         /\ pedido' = [ancora |-> pedido.ancora, estado |-> estado]
         /\ pedido.ancora \in Etiquetas \cup {Nenhum}
         /\ ancoraDe(pedido') = ancoraDe(pedido)
         /\ trocas' = trocas + 1 /\ trocas < MaxTrocas
         /\ alheio' <=> alheio \/ pedido' # pedido
         /\ UNCHANGED <<agora, claim, ordens, requisicoes, chamadas, soltas>>
         /\ avisos' \in [Avisos -> Aviso]
         /\ \A a \in Avisos :
              /\ avisos'[a].fase = avisos[a].fase
              /\ avisos'[a].etiqueta = avisos[a].etiqueta
              /\ avisos'[a].terminal = avisos[a].terminal
              /\ avisos'[a].status = avisos[a].status
              /\ avisos'[a].intacto => avisos[a].intacto /\ pedido' = pedido
<1> DEFINE doc == [pedido EXCEPT !.estado = estado]
<1>1. pedido \in Pedido
  BY TipoInv DEF TipoInv, TypeOK, GravarEstado
<1>2. doc = [ancora |-> pedido.ancora, estado |-> estado] /\ doc \in Pedido
  BY <1>1 DEF Pedido
<1>3. doc # Nenhum
  BY <1>2, NuloAssumption
<1>4. TypeOK /\ GravarPedido(doc) /\ pedido' = doc
  BY TipoInv DEF TipoInv, GravarEstado, GravarPedido
<1> HIDE DEF doc
<1>5. /\ avisos' \in [Avisos -> Aviso]
      /\ \A a \in Avisos :
           /\ avisos'[a].fase = avisos[a].fase
           /\ avisos'[a].etiqueta = avisos[a].etiqueta
           /\ avisos'[a].terminal = avisos[a].terminal
           /\ avisos'[a].status = avisos[a].status
           /\ avisos'[a].intacto => avisos[a].intacto /\ pedido' = pedido
  BY <1>4, GravarPedidoEfeito
<1>6. ancoraDe(pedido') = ancoraDe(pedido)
  BY <1>1, <1>2, <1>3, <1>4, NuloAssumption DEF ancoraDe
<1>7. QED
  BY <1>1, <1>2, <1>3, <1>4, <1>5, <1>6, NuloAssumption
     DEF GravarEstado, GravaPorFora, Pedido

(* The steps, those of the operator that only write the state taken        *)
(* together.                                                               *)
LEMMA PassoDe ==
  ASSUME [Next]_vars
  PROVE  \/ Tique
         \/ \E r \in Requisicoes : Requisitar(r)
         \/ \E c \in chamadas : ProvedorAtende(c)
         \/ \E e \in Etiquetas : ProvedorMuda(e)
         \/ \E a \in Avisos : Avisar(a)
         \/ \E estado \in EstadosEscolhidos : OnIntegracaoChange(estado)
         \/ ExcluirPedido
         \/ \E estado \in EstadoFrete : GravarEstado(estado)
         \/ UNCHANGED vars
<1>1. ASSUME NEW estado \in EstadosEscolhidos, SelecionarEstado(estado)
      PROVE  \E x \in EstadoFrete : GravarEstado(x)
  BY <1>1, CompraAssumption DEF SelecionarEstado
<1>2. confirmarEntregaPedido => \E x \in EstadoFrete : GravarEstado(x)
  BY DEF confirmarEntregaPedido, EstadoFrete
<1>3. salvarCheckoutTransacao => \E x \in EstadoFrete : GravarEstado(x)
  BY DEF salvarCheckoutTransacao, EstadoFrete
<1>4. QED
  BY <1>1, <1>2, <1>3 DEF Next

(* Every step says who wrote the state.                                    *)
LEMMA AlheioTipo ==
  ASSUME TipoInv, [Next]_vars
  PROVE  alheio' \in BOOLEAN
<1>1. alheio \in BOOLEAN
  BY TipoInv DEF TipoInv, TypeOK
<1>2. ASSUME NEW r \in Requisicoes, Requisitar(r)
      PROVE  alheio' \in BOOLEAN
  BY <1>1, <1>2 DEF Requisitar, Chegar, adquirirCompraEtiqueta, BuscarExistente, AddToCart,
     ancorarEtiqueta, garantirPosseCompraEtiqueta, EnviarPago, ReceberResposta,
     EstourarPrazo, Imprimir, finalizarCompraEtiqueta, liberarCompraEtiqueta, Falhar,
     Congelar, Morrer, GravaPelaEtiqueta
<1>3. ASSUME NEW a \in Avisos, Avisar(a)
      PROVE  alheio' \in BOOLEAN
  BY <1>1, <1>3 DEF Avisar, AvisoLer, AvisoConsultar, AvisoGravar, GravaPelaEtiqueta
<1>4. ASSUME Tique \/ (\E c \in chamadas : ProvedorAtende(c))
               \/ (\E e \in Etiquetas : ProvedorMuda(e)) \/ UNCHANGED vars
      PROVE  alheio' \in BOOLEAN
  BY <1>1, <1>4 DEF Tique, ProvedorAtende, ProvedorMuda, vars
<1>5. ASSUME (\E estado \in EstadosEscolhidos : OnIntegracaoChange(estado)) \/ ExcluirPedido
      PROVE  alheio' \in BOOLEAN
  BY <1>5 DEF OnIntegracaoChange, ExcluirPedido, Soltar, GravaPorFora
<1>6. ASSUME NEW estado \in EstadoFrete, GravarEstado(estado)
      PROVE  alheio' \in BOOLEAN
  BY <1>6 DEF GravarEstado, GravaPorFora
<1>7. QED
  BY <1>2, <1>3, <1>4, <1>5, <1>6, PassoDe

(* Types. *)
LEMMA TypePasso ==
  ASSUME TipoInv, [Next]_vars
  PROVE  TypeOK'
<1>0. alheio' \in BOOLEAN
  BY AlheioTipo
<1>1. ASSUME Tique
      PROVE  TypeOK'
  BY CompraAssumption, TipoInv, <1>0, <1>1 DEF Tique, TipoInv, TypeOK, EtiquetasReais,
         AvisoIntacto, Requisicao, Claim, Pedido, Ordem, Chamada, Aviso, EstadoFrete,
         StatusMe, Etapas, ComEtiqueta, ancoraDe, ehEstadoFreteTerminal
<1>2. ASSUME NEW r \in Requisicoes, Chegar(r)
      PROVE  TypeOK'
  <2>1. requisicoes' \in [Requisicoes -> Requisicao]
    <3>1. requisicoes \in [Requisicoes -> Requisicao] /\ requisicoes[r] \in Requisicao
      BY TipoInv DEF TipoInv, TypeOK
    <3> DEFINE q == [requisicoes[r] EXCEPT !.fase = "chegou", !.inicio = HoraDe(r)]
    <3>2. q \in Requisicao
      BY CompraAssumption, TipoInv, HoraTipo, <1>2, <3>1 DEF TipoInv, TypeOK, EtiquetasReais,
             ComEtiqueta, Requisicao, Ordem, StatusMe, Chegar
    <3>3. requisicoes' = [requisicoes EXCEPT ![r] = q]
      BY <1>2, <3>1 DEF Chegar, HoraDe
    <3> HIDE DEF q
    <3>4. QED
      BY <3>1, <3>2, <3>3
  <2>2. agora' \in 0..MaxAgora /\ claim' \in Claim \cup {Nenhum}
    BY CompraAssumption, TipoInv, <1>2 DEF Chegar, HoraDe, TipoInv, TypeOK, EtiquetasReais,
           AvisoIntacto, Requisicao, Claim, Pedido, Ordem, Chamada, Aviso, EstadoFrete,
           StatusMe, Etapas, ComEtiqueta, ancoraDe, ehEstadoFreteTerminal
  <2>3. pedido' \in Pedido \cup {Nenhum}
    BY CompraAssumption, TipoInv, <1>2 DEF Chegar, HoraDe, TipoInv, TypeOK, EtiquetasReais,
           AvisoIntacto, Requisicao, Claim, Pedido, Ordem, Chamada, Aviso, EstadoFrete,
           StatusMe, Etapas, ComEtiqueta, ancoraDe, ehEstadoFreteTerminal
  <2>4. ordens' \in [Etiquetas -> Ordem]
    BY CompraAssumption, TipoInv, <1>2 DEF Chegar, HoraDe, TipoInv, TypeOK, EtiquetasReais,
           AvisoIntacto, Requisicao, Claim, Pedido, Ordem, Chamada, Aviso, EstadoFrete,
           StatusMe, Etapas, ComEtiqueta, ancoraDe, ehEstadoFreteTerminal
  <2>5. chamadas' \subseteq Chamada
    BY CompraAssumption, TipoInv, <1>2 DEF Chegar, HoraDe, TipoInv, TypeOK, EtiquetasReais,
           AvisoIntacto, Requisicao, Claim, Pedido, Ordem, Chamada, Aviso, EstadoFrete,
           StatusMe, Etapas, ComEtiqueta, ancoraDe, ehEstadoFreteTerminal
  <2>6. avisos' \in [Avisos -> Aviso]
    BY CompraAssumption, TipoInv, <1>2 DEF Chegar, HoraDe, TipoInv, TypeOK, EtiquetasReais,
           AvisoIntacto, Requisicao, Claim, Pedido, Ordem, Chamada, Aviso, EstadoFrete,
           StatusMe, Etapas, ComEtiqueta, ancoraDe, ehEstadoFreteTerminal
  <2>7. soltas' \subseteq Etiquetas /\ trocas' \in 0..MaxTrocas
    BY CompraAssumption, TipoInv, <1>2 DEF Chegar, HoraDe, TipoInv, TypeOK, EtiquetasReais,
           AvisoIntacto, Requisicao, Claim, Pedido, Ordem, Chamada, Aviso, EstadoFrete,
           StatusMe, Etapas, ComEtiqueta, ancoraDe, ehEstadoFreteTerminal
  <2>8. QED
    BY <2>1, <2>2, <2>3, <2>4, <2>5, <2>6, <2>7, <1>0 DEF TypeOK
<1>3. ASSUME NEW r \in Requisicoes, adquirirCompraEtiqueta(r)
      PROVE  TypeOK'
  <2>1. requisicoes' \in [Requisicoes -> Requisicao]
    <3>1. requisicoes \in [Requisicoes -> Requisicao] /\ requisicoes[r] \in Requisicao
      BY TipoInv DEF TipoInv, TypeOK
    <3> DEFINE sim == [requisicoes[r] EXCEPT !.fase = "carrinho", !.etiqueta = pedido.ancora,
                         !.expira = HoraDe(r) + COMPRA_ETIQUETA_LEASE_MS]
               nao == Parada("fim")
    <3>1a. HoraDe(r) + COMPRA_ETIQUETA_LEASE_MS \in Nat /\ agora + PRAZO_PAGO \in Nat
      BY CompraAssumption, TipoInv, HoraTipo DEF TipoInv
    <3>2. pedido # Nenhum /\ ~Ocupado(r) => sim \in Requisicao
      BY CompraAssumption, TipoInv, <1>3, <3>1, <3>1a DEF TipoInv, TypeOK, EtiquetasReais,
             ComEtiqueta, Requisicao, Ordem, StatusMe, Pedido, FaseSeguinte, Etapa, Parada,
             adquirirCompraEtiqueta
    <3>3. nao \in Requisicao
      BY DEF Parada, Requisicao, StatusMe
    <3>4. requisicoes' = [requisicoes EXCEPT ![r] = IF pedido # Nenhum /\ ~Ocupado(r) THEN sim ELSE nao]
      BY <1>3, <3>1 DEF adquirirCompraEtiqueta, Vai, Acaba
    <3> HIDE DEF sim, nao
    <3>5. QED
      BY <3>1, <3>2, <3>3, <3>4
  <2>2. agora' \in 0..MaxAgora /\ claim' \in Claim \cup {Nenhum}
    BY CompraAssumption, TipoInv, <1>3 DEF adquirirCompraEtiqueta, Ocupado, leaseDe, HoraDe,
           Parada, TipoInv, TypeOK, EtiquetasReais, AvisoIntacto, Requisicao, Claim, Pedido,
           Ordem, Chamada, Aviso, EstadoFrete, StatusMe, Etapas, ComEtiqueta, ancoraDe,
           ehEstadoFreteTerminal
  <2>3. pedido' \in Pedido \cup {Nenhum}
    BY CompraAssumption, TipoInv, <1>3 DEF adquirirCompraEtiqueta, Ocupado, leaseDe, HoraDe,
           Parada, TipoInv, TypeOK, EtiquetasReais, AvisoIntacto, Requisicao, Claim, Pedido,
           Ordem, Chamada, Aviso, EstadoFrete, StatusMe, Etapas, ComEtiqueta, ancoraDe,
           ehEstadoFreteTerminal
  <2>4. ordens' \in [Etiquetas -> Ordem]
    BY CompraAssumption, TipoInv, <1>3 DEF adquirirCompraEtiqueta, Ocupado, leaseDe, HoraDe,
           Parada, TipoInv, TypeOK, EtiquetasReais, AvisoIntacto, Requisicao, Claim, Pedido,
           Ordem, Chamada, Aviso, EstadoFrete, StatusMe, Etapas, ComEtiqueta, ancoraDe,
           ehEstadoFreteTerminal
  <2>5. chamadas' \subseteq Chamada
    BY CompraAssumption, TipoInv, <1>3 DEF adquirirCompraEtiqueta, Ocupado, leaseDe, HoraDe,
           Parada, TipoInv, TypeOK, EtiquetasReais, AvisoIntacto, Requisicao, Claim, Pedido,
           Ordem, Chamada, Aviso, EstadoFrete, StatusMe, Etapas, ComEtiqueta, ancoraDe,
           ehEstadoFreteTerminal
  <2>6. avisos' \in [Avisos -> Aviso]
    BY CompraAssumption, TipoInv, <1>3 DEF adquirirCompraEtiqueta, Ocupado, leaseDe, HoraDe,
           Parada, TipoInv, TypeOK, EtiquetasReais, AvisoIntacto, Requisicao, Claim, Pedido,
           Ordem, Chamada, Aviso, EstadoFrete, StatusMe, Etapas, ComEtiqueta, ancoraDe,
           ehEstadoFreteTerminal
  <2>7. soltas' \subseteq Etiquetas /\ trocas' \in 0..MaxTrocas
    BY CompraAssumption, TipoInv, <1>3 DEF adquirirCompraEtiqueta, Ocupado, leaseDe, HoraDe,
           Parada, TipoInv, TypeOK, EtiquetasReais, AvisoIntacto, Requisicao, Claim, Pedido,
           Ordem, Chamada, Aviso, EstadoFrete, StatusMe, Etapas, ComEtiqueta, ancoraDe,
           ehEstadoFreteTerminal
  <2>8. QED
    BY <2>1, <2>2, <2>3, <2>4, <2>5, <2>6, <2>7, <1>0 DEF TypeOK
<1>4. ASSUME NEW r \in Requisicoes, BuscarExistente(r)
      PROVE  TypeOK'
  <2>1. requisicoes' \in [Requisicoes -> Requisicao]
    <3>1. requisicoes \in [Requisicoes -> Requisicao] /\ requisicoes[r] \in Requisicao
      BY TipoInv DEF TipoInv, TypeOK
    <3> DEFINE sim == [requisicoes[r] EXCEPT
                 !.fase = FaseSeguinte(ordens[requisicoes[r].etiqueta].pago,
                                       ordens[requisicoes[r].etiqueta].gerado),
                 !.pago = ordens[requisicoes[r].etiqueta].pago,
                 !.gerado = ordens[requisicoes[r].etiqueta].gerado]
               nao == Parada("liberar")
    <3>1a. HoraDe(r) + COMPRA_ETIQUETA_LEASE_MS \in Nat /\ agora + PRAZO_PAGO \in Nat
      BY CompraAssumption, TipoInv, HoraTipo DEF TipoInv
    <3>2. ~(ordens[requisicoes[r].etiqueta].status \in {"canceled", "suspended"}) => sim \in Requisicao
      BY CompraAssumption, TipoInv, <1>4, <3>1, <3>1a DEF TipoInv, TypeOK, EtiquetasReais,
             ComEtiqueta, Requisicao, Ordem, StatusMe, Pedido, FaseSeguinte, Etapa, Parada,
             BuscarExistente
    <3>3. nao \in Requisicao
      BY DEF Parada, Requisicao, StatusMe
    <3>4. requisicoes' = [requisicoes EXCEPT ![r] = IF ~(ordens[requisicoes[r].etiqueta].status \in {"canceled", "suspended"}) THEN sim ELSE nao]
      BY <1>4, <3>1 DEF BuscarExistente, Vai, Acaba
    <3> HIDE DEF sim, nao
    <3>5. QED
      BY <3>1, <3>2, <3>3, <3>4
  <2>2. agora' \in 0..MaxAgora /\ claim' \in Claim \cup {Nenhum}
    BY CompraAssumption, TipoInv, <1>4 DEF BuscarExistente, FaseSeguinte, Parada, TipoInv,
           TypeOK, EtiquetasReais, AvisoIntacto, Requisicao, Claim, Pedido, Ordem, Chamada,
           Aviso, EstadoFrete, StatusMe, Etapas, ComEtiqueta, ancoraDe,
           ehEstadoFreteTerminal
  <2>3. pedido' \in Pedido \cup {Nenhum}
    BY CompraAssumption, TipoInv, <1>4 DEF BuscarExistente, FaseSeguinte, Parada, TipoInv,
           TypeOK, EtiquetasReais, AvisoIntacto, Requisicao, Claim, Pedido, Ordem, Chamada,
           Aviso, EstadoFrete, StatusMe, Etapas, ComEtiqueta, ancoraDe,
           ehEstadoFreteTerminal
  <2>4. ordens' \in [Etiquetas -> Ordem]
    BY CompraAssumption, TipoInv, <1>4 DEF BuscarExistente, FaseSeguinte, Parada, TipoInv,
           TypeOK, EtiquetasReais, AvisoIntacto, Requisicao, Claim, Pedido, Ordem, Chamada,
           Aviso, EstadoFrete, StatusMe, Etapas, ComEtiqueta, ancoraDe,
           ehEstadoFreteTerminal
  <2>5. chamadas' \subseteq Chamada
    BY CompraAssumption, TipoInv, <1>4 DEF BuscarExistente, FaseSeguinte, Parada, TipoInv,
           TypeOK, EtiquetasReais, AvisoIntacto, Requisicao, Claim, Pedido, Ordem, Chamada,
           Aviso, EstadoFrete, StatusMe, Etapas, ComEtiqueta, ancoraDe,
           ehEstadoFreteTerminal
  <2>6. avisos' \in [Avisos -> Aviso]
    BY CompraAssumption, TipoInv, <1>4 DEF BuscarExistente, FaseSeguinte, Parada, TipoInv,
           TypeOK, EtiquetasReais, AvisoIntacto, Requisicao, Claim, Pedido, Ordem, Chamada,
           Aviso, EstadoFrete, StatusMe, Etapas, ComEtiqueta, ancoraDe,
           ehEstadoFreteTerminal
  <2>7. soltas' \subseteq Etiquetas /\ trocas' \in 0..MaxTrocas
    BY CompraAssumption, TipoInv, <1>4 DEF BuscarExistente, FaseSeguinte, Parada, TipoInv,
           TypeOK, EtiquetasReais, AvisoIntacto, Requisicao, Claim, Pedido, Ordem, Chamada,
           Aviso, EstadoFrete, StatusMe, Etapas, ComEtiqueta, ancoraDe,
           ehEstadoFreteTerminal
  <2>8. QED
    BY <2>1, <2>2, <2>3, <2>4, <2>5, <2>6, <2>7, <1>0 DEF TypeOK
<1>5. ASSUME NEW r \in Requisicoes, NEW e \in Etiquetas, AddToCart(r, e)
      PROVE  TypeOK'
  <2>1. requisicoes[r] \in Requisicao
    BY TipoInv DEF TipoInv, TypeOK
  <2>2. [requisicoes[r] EXCEPT !.fase = "ancorar", !.etiqueta = e] \in Requisicao
    BY <2>1 DEF Requisicao
  <2>3. requisicoes' = [requisicoes EXCEPT
          ![r] = [requisicoes[r] EXCEPT !.fase = "ancorar", !.etiqueta = e]]
    BY <1>5, TipoInv DEF AddToCart, TipoInv, TypeOK
  <2>4. requisicoes' \in [Requisicoes -> Requisicao]
    BY <2>2, <2>3, TipoInv DEF TipoInv, TypeOK
  <2>5. ordens' \in [Etiquetas -> Ordem]
    BY <1>5, TipoInv DEF AddToCart, TipoInv, TypeOK, Ordem
  <2>6. UNCHANGED <<agora, claim, pedido, chamadas, avisos, soltas, trocas>>
    BY <1>5 DEF AddToCart
  <2>7. QED
    BY <2>4, <2>5, <2>6, <1>0, TipoInv DEF TipoInv, TypeOK
<1>6. ASSUME NEW r \in Requisicoes, ancorarEtiqueta(r)
      PROVE  TypeOK'
  <2>1. requisicoes' \in [Requisicoes -> Requisicao]
    <3>1. requisicoes \in [Requisicoes -> Requisicao] /\ requisicoes[r] \in Requisicao
      BY TipoInv DEF TipoInv, TypeOK
    <3> DEFINE sim == [requisicoes[r] EXCEPT !.fase = "cercar"]
               nao == Parada("liberar")
    <3>1a. HoraDe(r) + COMPRA_ETIQUETA_LEASE_MS \in Nat /\ agora + PRAZO_PAGO \in Nat
      BY CompraAssumption, TipoInv, HoraTipo DEF TipoInv
    <3>2. PodeAncorar(r) => sim \in Requisicao
      BY CompraAssumption, TipoInv, <1>6, <3>1, <3>1a DEF TipoInv, TypeOK, EtiquetasReais,
             ComEtiqueta, Requisicao, Ordem, StatusMe, Pedido, FaseSeguinte, Etapa, Parada,
             ancorarEtiqueta
    <3>3. nao \in Requisicao
      BY DEF Parada, Requisicao, StatusMe
    <3>4. requisicoes' = [requisicoes EXCEPT ![r] = IF PodeAncorar(r) THEN sim ELSE nao]
      BY <1>6, <3>1 DEF ancorarEtiqueta, Vai, Acaba
    <3> HIDE DEF sim, nao
    <3>5. QED
      BY <3>1, <3>2, <3>3, <3>4
  <2>2. agora' \in 0..MaxAgora /\ claim' \in Claim \cup {Nenhum}
    BY CompraAssumption, TipoInv, <1>6 DEF ancorarEtiqueta, PodeAncorar, Possui, leaseDe,
           HoraDe, GravarPedido, estadoAoAncorarNovaEtiqueta, Vai, Acaba, Parada, TipoInv,
           TypeOK, EtiquetasReais, AvisoIntacto, Requisicao, Claim, Pedido, Ordem, Chamada,
           Aviso, EstadoFrete, StatusMe, Etapas, ComEtiqueta, ancoraDe,
           ehEstadoFreteTerminal
  <2>3. pedido' \in Pedido \cup {Nenhum}
    BY CompraAssumption, TipoInv, <1>6 DEF ancorarEtiqueta, PodeAncorar, Possui, leaseDe,
           HoraDe, GravarPedido, estadoAoAncorarNovaEtiqueta, Vai, Acaba, Parada, TipoInv,
           TypeOK, EtiquetasReais, AvisoIntacto, Requisicao, Claim, Pedido, Ordem, Chamada,
           Aviso, EstadoFrete, StatusMe, Etapas, ComEtiqueta, ancoraDe,
           ehEstadoFreteTerminal
  <2>4. ordens' \in [Etiquetas -> Ordem]
    BY CompraAssumption, TipoInv, <1>6 DEF ancorarEtiqueta, PodeAncorar, Possui, leaseDe,
           HoraDe, GravarPedido, estadoAoAncorarNovaEtiqueta, Vai, Acaba, Parada, TipoInv,
           TypeOK, EtiquetasReais, AvisoIntacto, Requisicao, Claim, Pedido, Ordem, Chamada,
           Aviso, EstadoFrete, StatusMe, Etapas, ComEtiqueta, ancoraDe,
           ehEstadoFreteTerminal
  <2>5. chamadas' \subseteq Chamada
    BY CompraAssumption, TipoInv, <1>6 DEF ancorarEtiqueta, PodeAncorar, Possui, leaseDe,
           HoraDe, GravarPedido, estadoAoAncorarNovaEtiqueta, Vai, Acaba, Parada, TipoInv,
           TypeOK, EtiquetasReais, AvisoIntacto, Requisicao, Claim, Pedido, Ordem, Chamada,
           Aviso, EstadoFrete, StatusMe, Etapas, ComEtiqueta, ancoraDe,
           ehEstadoFreteTerminal
  <2>6. avisos' \in [Avisos -> Aviso]
    BY TipoInv, <1>6, GravarPedidoEfeito DEF TipoInv, ancorarEtiqueta
  <2>7. soltas' \subseteq Etiquetas /\ trocas' \in 0..MaxTrocas
    BY CompraAssumption, TipoInv, <1>6 DEF ancorarEtiqueta, PodeAncorar, Possui, leaseDe,
           HoraDe, GravarPedido, estadoAoAncorarNovaEtiqueta, Vai, Acaba, Parada, TipoInv,
           TypeOK, EtiquetasReais, AvisoIntacto, Requisicao, Claim, Pedido, Ordem, Chamada,
           Aviso, EstadoFrete, StatusMe, Etapas, ComEtiqueta, ancoraDe,
           ehEstadoFreteTerminal
  <2>8. QED
    BY <2>1, <2>2, <2>3, <2>4, <2>5, <2>6, <2>7, <1>0 DEF TypeOK
<1>7. ASSUME NEW r \in Requisicoes, garantirPosseCompraEtiqueta(r)
      PROVE  TypeOK'
  <2>1. requisicoes' \in [Requisicoes -> Requisicao]
    <3>1. requisicoes \in [Requisicoes -> Requisicao] /\ requisicoes[r] \in Requisicao
      BY TipoInv DEF TipoInv, TypeOK
    <3> DEFINE sim == [requisicoes[r] EXCEPT !.fase = "pagar", !.limite = agora + PRAZO_PAGO]
               nao == Parada("liberar")
    <3>1a. HoraDe(r) + COMPRA_ETIQUETA_LEASE_MS \in Nat /\ agora + PRAZO_PAGO \in Nat
      BY CompraAssumption, TipoInv, HoraTipo DEF TipoInv
    <3>2. PodePagar(r) => sim \in Requisicao
      BY CompraAssumption, TipoInv, <1>7, <3>1, <3>1a DEF TipoInv, TypeOK, EtiquetasReais,
             ComEtiqueta, Requisicao, Ordem, StatusMe, Pedido, FaseSeguinte, Etapa, Parada,
             garantirPosseCompraEtiqueta
    <3>3. nao \in Requisicao
      BY DEF Parada, Requisicao, StatusMe
    <3>4. requisicoes' = [requisicoes EXCEPT ![r] = IF PodePagar(r) THEN sim ELSE nao]
      BY <1>7, <3>1 DEF garantirPosseCompraEtiqueta, Vai, Acaba
    <3> HIDE DEF sim, nao
    <3>5. QED
      BY <3>1, <3>2, <3>3, <3>4
  <2>2. agora' \in 0..MaxAgora /\ claim' \in Claim \cup {Nenhum}
    BY CompraAssumption, TipoInv, <1>7 DEF garantirPosseCompraEtiqueta, PodePagar, Possui,
           leaseDe, HoraDe, Parada, TipoInv, TypeOK, EtiquetasReais, AvisoIntacto,
           Requisicao, Claim, Pedido, Ordem, Chamada, Aviso, EstadoFrete, StatusMe, Etapas,
           ComEtiqueta, ancoraDe, ehEstadoFreteTerminal
  <2>3. pedido' \in Pedido \cup {Nenhum}
    BY CompraAssumption, TipoInv, <1>7 DEF garantirPosseCompraEtiqueta, PodePagar, Possui,
           leaseDe, HoraDe, Parada, TipoInv, TypeOK, EtiquetasReais, AvisoIntacto,
           Requisicao, Claim, Pedido, Ordem, Chamada, Aviso, EstadoFrete, StatusMe, Etapas,
           ComEtiqueta, ancoraDe, ehEstadoFreteTerminal
  <2>4. ordens' \in [Etiquetas -> Ordem]
    BY CompraAssumption, TipoInv, <1>7 DEF garantirPosseCompraEtiqueta, PodePagar, Possui,
           leaseDe, HoraDe, Parada, TipoInv, TypeOK, EtiquetasReais, AvisoIntacto,
           Requisicao, Claim, Pedido, Ordem, Chamada, Aviso, EstadoFrete, StatusMe, Etapas,
           ComEtiqueta, ancoraDe, ehEstadoFreteTerminal
  <2>5. chamadas' \subseteq Chamada
    BY CompraAssumption, TipoInv, <1>7 DEF garantirPosseCompraEtiqueta, PodePagar, Possui,
           leaseDe, HoraDe, Parada, TipoInv, TypeOK, EtiquetasReais, AvisoIntacto,
           Requisicao, Claim, Pedido, Ordem, Chamada, Aviso, EstadoFrete, StatusMe, Etapas,
           ComEtiqueta, ancoraDe, ehEstadoFreteTerminal
  <2>6. avisos' \in [Avisos -> Aviso]
    BY CompraAssumption, TipoInv, <1>7 DEF garantirPosseCompraEtiqueta, PodePagar, Possui,
           leaseDe, HoraDe, Parada, TipoInv, TypeOK, EtiquetasReais, AvisoIntacto,
           Requisicao, Claim, Pedido, Ordem, Chamada, Aviso, EstadoFrete, StatusMe, Etapas,
           ComEtiqueta, ancoraDe, ehEstadoFreteTerminal
  <2>7. soltas' \subseteq Etiquetas /\ trocas' \in 0..MaxTrocas
    BY CompraAssumption, TipoInv, <1>7 DEF garantirPosseCompraEtiqueta, PodePagar, Possui,
           leaseDe, HoraDe, Parada, TipoInv, TypeOK, EtiquetasReais, AvisoIntacto,
           Requisicao, Claim, Pedido, Ordem, Chamada, Aviso, EstadoFrete, StatusMe, Etapas,
           ComEtiqueta, ancoraDe, ehEstadoFreteTerminal
  <2>8. QED
    BY <2>1, <2>2, <2>3, <2>4, <2>5, <2>6, <2>7, <1>0 DEF TypeOK
<1>8. ASSUME NEW r \in Requisicoes, EnviarPago(r)
      PROVE  TypeOK'
  <2>1. requisicoes' \in [Requisicoes -> Requisicao]
    <3>1. requisicoes \in [Requisicoes -> Requisicao] /\ requisicoes[r] \in Requisicao
      BY TipoInv DEF TipoInv, TypeOK
    <3> DEFINE q == [requisicoes[r] EXCEPT !.fase = "esperar"]
    <3>2. q \in Requisicao
      BY CompraAssumption, TipoInv, HoraTipo, <1>8, <3>1 DEF TipoInv, TypeOK, EtiquetasReais,
             ComEtiqueta, Requisicao, Ordem, StatusMe, EnviarPago, Vai, Etapa
    <3>3. requisicoes' = [requisicoes EXCEPT ![r] = q]
      BY <1>8, <3>1 DEF EnviarPago, Vai, Etapa
    <3> HIDE DEF q
    <3>4. QED
      BY <3>1, <3>2, <3>3
  <2>2. agora' \in 0..MaxAgora /\ claim' \in Claim \cup {Nenhum}
    BY CompraAssumption, TipoInv, <1>8 DEF EnviarPago, Vai, Etapa, TipoInv, TypeOK,
           EtiquetasReais, AvisoIntacto, Requisicao, Claim, Pedido, Ordem, Chamada, Aviso,
           EstadoFrete, StatusMe, Etapas, ComEtiqueta, ancoraDe, ehEstadoFreteTerminal
  <2>3. pedido' \in Pedido \cup {Nenhum}
    BY CompraAssumption, TipoInv, <1>8 DEF EnviarPago, Vai, Etapa, TipoInv, TypeOK,
           EtiquetasReais, AvisoIntacto, Requisicao, Claim, Pedido, Ordem, Chamada, Aviso,
           EstadoFrete, StatusMe, Etapas, ComEtiqueta, ancoraDe, ehEstadoFreteTerminal
  <2>4. ordens' \in [Etiquetas -> Ordem]
    BY CompraAssumption, TipoInv, <1>8 DEF EnviarPago, Vai, Etapa, TipoInv, TypeOK,
           EtiquetasReais, AvisoIntacto, Requisicao, Claim, Pedido, Ordem, Chamada, Aviso,
           EstadoFrete, StatusMe, Etapas, ComEtiqueta, ancoraDe, ehEstadoFreteTerminal
  <2>5. chamadas' \subseteq Chamada
    BY CompraAssumption, TipoInv, <1>8 DEF EnviarPago, Vai, Etapa, TipoInv, TypeOK,
           EtiquetasReais, AvisoIntacto, Requisicao, Claim, Pedido, Ordem, Chamada, Aviso,
           EstadoFrete, StatusMe, Etapas, ComEtiqueta, ancoraDe, ehEstadoFreteTerminal
  <2>6. avisos' \in [Avisos -> Aviso]
    BY CompraAssumption, TipoInv, <1>8 DEF EnviarPago, Vai, Etapa, TipoInv, TypeOK,
           EtiquetasReais, AvisoIntacto, Requisicao, Claim, Pedido, Ordem, Chamada, Aviso,
           EstadoFrete, StatusMe, Etapas, ComEtiqueta, ancoraDe, ehEstadoFreteTerminal
  <2>7. soltas' \subseteq Etiquetas /\ trocas' \in 0..MaxTrocas
    BY CompraAssumption, TipoInv, <1>8 DEF EnviarPago, Vai, Etapa, TipoInv, TypeOK,
           EtiquetasReais, AvisoIntacto, Requisicao, Claim, Pedido, Ordem, Chamada, Aviso,
           EstadoFrete, StatusMe, Etapas, ComEtiqueta, ancoraDe, ehEstadoFreteTerminal
  <2>8. QED
    BY <2>1, <2>2, <2>3, <2>4, <2>5, <2>6, <2>7, <1>0 DEF TypeOK
<1>9. ASSUME NEW r \in Requisicoes, ReceberResposta(r)
      PROVE  TypeOK'
  <2>1. requisicoes' \in [Requisicoes -> Requisicao]
    <3>1. requisicoes \in [Requisicoes -> Requisicao] /\ requisicoes[r] \in Requisicao
      BY TipoInv DEF TipoInv, TypeOK
    <3> DEFINE sim == [requisicoes[r] EXCEPT
                 !.fase = FaseSeguinte(TRUE, requisicoes[r].gerado \/ Etapa(r) = "generate"),
                 !.pago = TRUE, !.gerado = requisicoes[r].gerado \/ Etapa(r) = "generate",
                 !.resposta = "nenhuma", !.limite = 0, !.congelada = FALSE]
               nao == Parada("liberar")
    <3>1a. HoraDe(r) + COMPRA_ETIQUETA_LEASE_MS \in Nat /\ agora + PRAZO_PAGO \in Nat
      BY CompraAssumption, TipoInv, HoraTipo DEF TipoInv
    <3>2. requisicoes[r].resposta # "recusada" => sim \in Requisicao
      BY CompraAssumption, TipoInv, <1>9, <3>1, <3>1a DEF TipoInv, TypeOK, EtiquetasReais,
             ComEtiqueta, Requisicao, Ordem, StatusMe, Pedido, FaseSeguinte, Etapa, Parada,
             ReceberResposta
    <3>3. nao \in Requisicao
      BY DEF Parada, Requisicao, StatusMe
    <3>4. requisicoes' = [requisicoes EXCEPT ![r] = IF requisicoes[r].resposta # "recusada" THEN sim ELSE nao]
      BY <1>9, <3>1 DEF ReceberResposta, Vai, Acaba
    <3> HIDE DEF sim, nao
    <3>5. QED
      BY <3>1, <3>2, <3>3, <3>4
  <2>2. agora' \in 0..MaxAgora /\ claim' \in Claim \cup {Nenhum}
    BY CompraAssumption, TipoInv, <1>9 DEF ReceberResposta, FaseSeguinte, Etapa, Parada,
           TipoInv, TypeOK, EtiquetasReais, AvisoIntacto, Requisicao, Claim, Pedido, Ordem,
           Chamada, Aviso, EstadoFrete, StatusMe, Etapas, ComEtiqueta, ancoraDe,
           ehEstadoFreteTerminal
  <2>3. pedido' \in Pedido \cup {Nenhum}
    BY CompraAssumption, TipoInv, <1>9 DEF ReceberResposta, FaseSeguinte, Etapa, Parada,
           TipoInv, TypeOK, EtiquetasReais, AvisoIntacto, Requisicao, Claim, Pedido, Ordem,
           Chamada, Aviso, EstadoFrete, StatusMe, Etapas, ComEtiqueta, ancoraDe,
           ehEstadoFreteTerminal
  <2>4. ordens' \in [Etiquetas -> Ordem]
    BY CompraAssumption, TipoInv, <1>9 DEF ReceberResposta, FaseSeguinte, Etapa, Parada,
           TipoInv, TypeOK, EtiquetasReais, AvisoIntacto, Requisicao, Claim, Pedido, Ordem,
           Chamada, Aviso, EstadoFrete, StatusMe, Etapas, ComEtiqueta, ancoraDe,
           ehEstadoFreteTerminal
  <2>5. chamadas' \subseteq Chamada
    BY CompraAssumption, TipoInv, <1>9 DEF ReceberResposta, FaseSeguinte, Etapa, Parada,
           TipoInv, TypeOK, EtiquetasReais, AvisoIntacto, Requisicao, Claim, Pedido, Ordem,
           Chamada, Aviso, EstadoFrete, StatusMe, Etapas, ComEtiqueta, ancoraDe,
           ehEstadoFreteTerminal
  <2>6. avisos' \in [Avisos -> Aviso]
    BY CompraAssumption, TipoInv, <1>9 DEF ReceberResposta, FaseSeguinte, Etapa, Parada,
           TipoInv, TypeOK, EtiquetasReais, AvisoIntacto, Requisicao, Claim, Pedido, Ordem,
           Chamada, Aviso, EstadoFrete, StatusMe, Etapas, ComEtiqueta, ancoraDe,
           ehEstadoFreteTerminal
  <2>7. soltas' \subseteq Etiquetas /\ trocas' \in 0..MaxTrocas
    BY CompraAssumption, TipoInv, <1>9 DEF ReceberResposta, FaseSeguinte, Etapa, Parada,
           TipoInv, TypeOK, EtiquetasReais, AvisoIntacto, Requisicao, Claim, Pedido, Ordem,
           Chamada, Aviso, EstadoFrete, StatusMe, Etapas, ComEtiqueta, ancoraDe,
           ehEstadoFreteTerminal
  <2>8. QED
    BY <2>1, <2>2, <2>3, <2>4, <2>5, <2>6, <2>7, <1>0 DEF TypeOK
<1>10. ASSUME NEW r \in Requisicoes, EstourarPrazo(r)
      PROVE  TypeOK'
  BY CompraAssumption, TipoInv, <1>10 DEF EstourarPrazo, DesfechoIncerto, Acaba, Parada,
         TipoInv, TypeOK, EtiquetasReais, AvisoIntacto, Requisicao, Claim, Pedido, Ordem,
         Chamada, Aviso, EstadoFrete, StatusMe, Etapas, ComEtiqueta, ancoraDe,
         ehEstadoFreteTerminal
<1>11. ASSUME NEW r \in Requisicoes, Imprimir(r)
      PROVE  TypeOK'
  <2>1. requisicoes' \in [Requisicoes -> Requisicao]
    <3>1. requisicoes \in [Requisicoes -> Requisicao] /\ requisicoes[r] \in Requisicao
      BY TipoInv DEF TipoInv, TypeOK
    <3> DEFINE q == [requisicoes[r] EXCEPT !.fase = "finalizar",
                      !.status = ordens[requisicoes[r].etiqueta].status]
    <3>2. q \in Requisicao
      BY CompraAssumption, TipoInv, HoraTipo, <1>11, <3>1 DEF TipoInv, TypeOK, EtiquetasReais,
             ComEtiqueta, Requisicao, Ordem, StatusMe, Imprimir
    <3>3. requisicoes' = [requisicoes EXCEPT ![r] = q]
      BY <1>11, <3>1 DEF Imprimir
    <3> HIDE DEF q
    <3>4. QED
      BY <3>1, <3>2, <3>3
  <2>2. agora' \in 0..MaxAgora /\ claim' \in Claim \cup {Nenhum}
    BY CompraAssumption, TipoInv, <1>11 DEF Imprimir, TipoInv, TypeOK, EtiquetasReais,
           AvisoIntacto, Requisicao, Claim, Pedido, Ordem, Chamada, Aviso, EstadoFrete,
           StatusMe, Etapas, ComEtiqueta, ancoraDe, ehEstadoFreteTerminal
  <2>3. pedido' \in Pedido \cup {Nenhum}
    BY CompraAssumption, TipoInv, <1>11 DEF Imprimir, TipoInv, TypeOK, EtiquetasReais,
           AvisoIntacto, Requisicao, Claim, Pedido, Ordem, Chamada, Aviso, EstadoFrete,
           StatusMe, Etapas, ComEtiqueta, ancoraDe, ehEstadoFreteTerminal
  <2>4. ordens' \in [Etiquetas -> Ordem]
    BY CompraAssumption, TipoInv, <1>11 DEF Imprimir, TipoInv, TypeOK, EtiquetasReais,
           AvisoIntacto, Requisicao, Claim, Pedido, Ordem, Chamada, Aviso, EstadoFrete,
           StatusMe, Etapas, ComEtiqueta, ancoraDe, ehEstadoFreteTerminal
  <2>5. chamadas' \subseteq Chamada
    BY CompraAssumption, TipoInv, <1>11 DEF Imprimir, TipoInv, TypeOK, EtiquetasReais,
           AvisoIntacto, Requisicao, Claim, Pedido, Ordem, Chamada, Aviso, EstadoFrete,
           StatusMe, Etapas, ComEtiqueta, ancoraDe, ehEstadoFreteTerminal
  <2>6. avisos' \in [Avisos -> Aviso]
    BY CompraAssumption, TipoInv, <1>11 DEF Imprimir, TipoInv, TypeOK, EtiquetasReais,
           AvisoIntacto, Requisicao, Claim, Pedido, Ordem, Chamada, Aviso, EstadoFrete,
           StatusMe, Etapas, ComEtiqueta, ancoraDe, ehEstadoFreteTerminal
  <2>7. soltas' \subseteq Etiquetas /\ trocas' \in 0..MaxTrocas
    BY CompraAssumption, TipoInv, <1>11 DEF Imprimir, TipoInv, TypeOK, EtiquetasReais,
           AvisoIntacto, Requisicao, Claim, Pedido, Ordem, Chamada, Aviso, EstadoFrete,
           StatusMe, Etapas, ComEtiqueta, ancoraDe, ehEstadoFreteTerminal
  <2>8. QED
    BY <2>1, <2>2, <2>3, <2>4, <2>5, <2>6, <2>7, <1>0 DEF TypeOK
<1>12. ASSUME NEW r \in Requisicoes, finalizarCompraEtiqueta(r)
      PROVE  TypeOK'
  <2>1. requisicoes' \in [Requisicoes -> Requisicao]
    <3>1. requisicoes \in [Requisicoes -> Requisicao] /\ requisicoes[r] \in Requisicao
      BY TipoInv DEF TipoInv, TypeOK
    <3> DEFINE sim == Parada("sucesso")
               nao == Parada("fim")
    <3>1a. HoraDe(r) + COMPRA_ETIQUETA_LEASE_MS \in Nat /\ agora + PRAZO_PAGO \in Nat
      BY CompraAssumption, TipoInv, HoraTipo DEF TipoInv
    <3>2. Vinculada(r) => sim \in Requisicao
      BY CompraAssumption, TipoInv, <1>12, <3>1, <3>1a DEF TipoInv, TypeOK, EtiquetasReais,
             ComEtiqueta, Requisicao, Ordem, StatusMe, Pedido, FaseSeguinte, Etapa, Parada,
             finalizarCompraEtiqueta
    <3>3. nao \in Requisicao
      BY DEF Parada, Requisicao, StatusMe
    <3>4. requisicoes' = [requisicoes EXCEPT ![r] = IF Vinculada(r) THEN sim ELSE nao]
      BY <1>12, <3>1 DEF finalizarCompraEtiqueta, Vai, Acaba
    <3> HIDE DEF sim, nao
    <3>5. QED
      BY <3>1, <3>2, <3>3, <3>4
  <2>2. agora' \in 0..MaxAgora /\ claim' \in Claim \cup {Nenhum}
    BY CompraAssumption, TipoInv, <1>12 DEF finalizarCompraEtiqueta, Vinculada, GravarPedido,
           resolverEstadoFinalCompraEtiqueta, meStatusToEstadoFrete, ehEstadoFreteTerminal,
           SemClaimDe, Acaba, Parada, TipoInv, TypeOK, EtiquetasReais, AvisoIntacto,
           Requisicao, Claim, Pedido, Ordem, Chamada, Aviso, EstadoFrete, StatusMe, Etapas,
           ComEtiqueta, ancoraDe
  <2>3. pedido' \in Pedido \cup {Nenhum}
    BY CompraAssumption, TipoInv, <1>12 DEF finalizarCompraEtiqueta, Vinculada, GravarPedido,
           resolverEstadoFinalCompraEtiqueta, meStatusToEstadoFrete, ehEstadoFreteTerminal,
           SemClaimDe, Acaba, Parada, TipoInv, TypeOK, EtiquetasReais, AvisoIntacto,
           Requisicao, Claim, Pedido, Ordem, Chamada, Aviso, EstadoFrete, StatusMe, Etapas,
           ComEtiqueta, ancoraDe
  <2>4. ordens' \in [Etiquetas -> Ordem]
    BY CompraAssumption, TipoInv, <1>12 DEF finalizarCompraEtiqueta, Vinculada, GravarPedido,
           resolverEstadoFinalCompraEtiqueta, meStatusToEstadoFrete, ehEstadoFreteTerminal,
           SemClaimDe, Acaba, Parada, TipoInv, TypeOK, EtiquetasReais, AvisoIntacto,
           Requisicao, Claim, Pedido, Ordem, Chamada, Aviso, EstadoFrete, StatusMe, Etapas,
           ComEtiqueta, ancoraDe
  <2>5. chamadas' \subseteq Chamada
    BY CompraAssumption, TipoInv, <1>12 DEF finalizarCompraEtiqueta, Vinculada, GravarPedido,
           resolverEstadoFinalCompraEtiqueta, meStatusToEstadoFrete, ehEstadoFreteTerminal,
           SemClaimDe, Acaba, Parada, TipoInv, TypeOK, EtiquetasReais, AvisoIntacto,
           Requisicao, Claim, Pedido, Ordem, Chamada, Aviso, EstadoFrete, StatusMe, Etapas,
           ComEtiqueta, ancoraDe
  <2>6. avisos' \in [Avisos -> Aviso]
    BY TipoInv, <1>12, GravarPedidoEfeito DEF TipoInv, finalizarCompraEtiqueta
  <2>7. soltas' \subseteq Etiquetas /\ trocas' \in 0..MaxTrocas
    BY CompraAssumption, TipoInv, <1>12 DEF finalizarCompraEtiqueta, Vinculada, GravarPedido,
           resolverEstadoFinalCompraEtiqueta, meStatusToEstadoFrete, ehEstadoFreteTerminal,
           SemClaimDe, Acaba, Parada, TipoInv, TypeOK, EtiquetasReais, AvisoIntacto,
           Requisicao, Claim, Pedido, Ordem, Chamada, Aviso, EstadoFrete, StatusMe, Etapas,
           ComEtiqueta, ancoraDe
  <2>8. QED
    BY <2>1, <2>2, <2>3, <2>4, <2>5, <2>6, <2>7, <1>0 DEF TypeOK
<1>13. ASSUME NEW r \in Requisicoes, liberarCompraEtiqueta(r)
      PROVE  TypeOK'
  BY CompraAssumption, TipoInv, <1>13 DEF liberarCompraEtiqueta, SemClaimDe, Acaba, Parada,
         TipoInv, TypeOK, EtiquetasReais, AvisoIntacto, Requisicao, Claim, Pedido, Ordem,
         Chamada, Aviso, EstadoFrete, StatusMe, Etapas, ComEtiqueta, ancoraDe,
         ehEstadoFreteTerminal
<1>14. ASSUME NEW r \in Requisicoes, Falhar(r)
      PROVE  TypeOK'
  BY CompraAssumption, TipoInv, <1>14 DEF Falhar, Acaba, Parada, TipoInv, TypeOK,
         EtiquetasReais, AvisoIntacto, Requisicao, Claim, Pedido, Ordem, Chamada, Aviso,
         EstadoFrete, StatusMe, Etapas, ComEtiqueta, ancoraDe, ehEstadoFreteTerminal
<1>15. ASSUME NEW r \in Requisicoes, Congelar(r)
      PROVE  TypeOK'
  <2>1. requisicoes' \in [Requisicoes -> Requisicao]
    <3>1. requisicoes \in [Requisicoes -> Requisicao] /\ requisicoes[r] \in Requisicao
      BY TipoInv DEF TipoInv, TypeOK
    <3> DEFINE q == [requisicoes[r] EXCEPT !.congelada = TRUE]
    <3>2. q \in Requisicao
      BY CompraAssumption, TipoInv, HoraTipo, <1>15, <3>1 DEF TipoInv, TypeOK, EtiquetasReais,
             ComEtiqueta, Requisicao, Ordem, StatusMe, Congelar, EmChamadaPaga
    <3>3. requisicoes' = [requisicoes EXCEPT ![r] = q]
      BY <1>15, <3>1 DEF Congelar, EmChamadaPaga
    <3> HIDE DEF q
    <3>4. QED
      BY <3>1, <3>2, <3>3
  <2>2. agora' \in 0..MaxAgora /\ claim' \in Claim \cup {Nenhum}
    BY CompraAssumption, TipoInv, <1>15 DEF Congelar, EmChamadaPaga, TipoInv, TypeOK,
           EtiquetasReais, AvisoIntacto, Requisicao, Claim, Pedido, Ordem, Chamada, Aviso,
           EstadoFrete, StatusMe, Etapas, ComEtiqueta, ancoraDe, ehEstadoFreteTerminal
  <2>3. pedido' \in Pedido \cup {Nenhum}
    BY CompraAssumption, TipoInv, <1>15 DEF Congelar, EmChamadaPaga, TipoInv, TypeOK,
           EtiquetasReais, AvisoIntacto, Requisicao, Claim, Pedido, Ordem, Chamada, Aviso,
           EstadoFrete, StatusMe, Etapas, ComEtiqueta, ancoraDe, ehEstadoFreteTerminal
  <2>4. ordens' \in [Etiquetas -> Ordem]
    BY CompraAssumption, TipoInv, <1>15 DEF Congelar, EmChamadaPaga, TipoInv, TypeOK,
           EtiquetasReais, AvisoIntacto, Requisicao, Claim, Pedido, Ordem, Chamada, Aviso,
           EstadoFrete, StatusMe, Etapas, ComEtiqueta, ancoraDe, ehEstadoFreteTerminal
  <2>5. chamadas' \subseteq Chamada
    BY CompraAssumption, TipoInv, <1>15 DEF Congelar, EmChamadaPaga, TipoInv, TypeOK,
           EtiquetasReais, AvisoIntacto, Requisicao, Claim, Pedido, Ordem, Chamada, Aviso,
           EstadoFrete, StatusMe, Etapas, ComEtiqueta, ancoraDe, ehEstadoFreteTerminal
  <2>6. avisos' \in [Avisos -> Aviso]
    BY CompraAssumption, TipoInv, <1>15 DEF Congelar, EmChamadaPaga, TipoInv, TypeOK,
           EtiquetasReais, AvisoIntacto, Requisicao, Claim, Pedido, Ordem, Chamada, Aviso,
           EstadoFrete, StatusMe, Etapas, ComEtiqueta, ancoraDe, ehEstadoFreteTerminal
  <2>7. soltas' \subseteq Etiquetas /\ trocas' \in 0..MaxTrocas
    BY CompraAssumption, TipoInv, <1>15 DEF Congelar, EmChamadaPaga, TipoInv, TypeOK,
           EtiquetasReais, AvisoIntacto, Requisicao, Claim, Pedido, Ordem, Chamada, Aviso,
           EstadoFrete, StatusMe, Etapas, ComEtiqueta, ancoraDe, ehEstadoFreteTerminal
  <2>8. QED
    BY <2>1, <2>2, <2>3, <2>4, <2>5, <2>6, <2>7, <1>0 DEF TypeOK
<1>16. ASSUME NEW r \in Requisicoes, Morrer(r)
      PROVE  TypeOK'
  BY CompraAssumption, TipoInv, <1>16 DEF Morrer, Acaba, Parada, TipoInv, TypeOK,
         EtiquetasReais, AvisoIntacto, Requisicao, Claim, Pedido, Ordem, Chamada, Aviso,
         EstadoFrete, StatusMe, Etapas, ComEtiqueta, ancoraDe, ehEstadoFreteTerminal
<1>17. ASSUME NEW c \in chamadas, ProvedorAtende(c)
      PROVE  TypeOK'
  <2>1. requisicoes' \in [Requisicoes -> Requisicao]
    <3>1. c.dono \in Requisicoes /\ requisicoes \in [Requisicoes -> Requisicao]
      BY TipoInv DEF TipoInv, TypeOK, Chamada
    <3> DEFINE q == [requisicoes[c.dono] EXCEPT
                       !.resposta = IF Aceita(c) THEN "aceita" ELSE "recusada"]
    <3>2. q \in Requisicao
      BY <3>1 DEF Requisicao
    <3>3. requisicoes' \in {requisicoes, [requisicoes EXCEPT ![c.dono] = q]}
      BY <1>17, <3>1 DEF ProvedorAtende
    <3> HIDE DEF q
    <3>4. QED
      BY <3>1, <3>2, <3>3
  <2>2. agora' \in 0..MaxAgora /\ claim' \in Claim \cup {Nenhum}
    BY CompraAssumption, TipoInv, <1>17 DEF ProvedorAtende, Aceita, TipoInv, TypeOK,
           EtiquetasReais, AvisoIntacto, Requisicao, Claim, Pedido, Ordem, Chamada, Aviso,
           EstadoFrete, StatusMe, Etapas, ComEtiqueta, ancoraDe, ehEstadoFreteTerminal
  <2>3. pedido' \in Pedido \cup {Nenhum}
    BY CompraAssumption, TipoInv, <1>17 DEF ProvedorAtende, Aceita, TipoInv, TypeOK,
           EtiquetasReais, AvisoIntacto, Requisicao, Claim, Pedido, Ordem, Chamada, Aviso,
           EstadoFrete, StatusMe, Etapas, ComEtiqueta, ancoraDe, ehEstadoFreteTerminal
  <2>4. ordens' \in [Etiquetas -> Ordem]
    <3> DEFINE paga == [ordens[c.etiqueta] EXCEPT !.pago = TRUE, !.status = "released"]
               gerada == [ordens[c.etiqueta] EXCEPT !.gerado = TRUE]
    <3>1. c.etiqueta \in Etiquetas /\ ordens \in [Etiquetas -> Ordem]
      BY TipoInv DEF TipoInv, TypeOK, Chamada
    <3>2. paga \in Ordem /\ gerada \in Ordem
      BY <3>1 DEF Ordem, StatusMe
    <3>3. ordens' \in {ordens, [ordens EXCEPT ![c.etiqueta] = paga],
                       [ordens EXCEPT ![c.etiqueta] = gerada]}
      BY <1>17, <3>1 DEF ProvedorAtende
    <3> HIDE DEF paga, gerada
    <3>4. QED
      BY <3>1, <3>2, <3>3
  <2>5. chamadas' \subseteq Chamada
    BY CompraAssumption, TipoInv, <1>17 DEF ProvedorAtende, Aceita, TipoInv, TypeOK,
           EtiquetasReais, AvisoIntacto, Requisicao, Claim, Pedido, Ordem, Chamada, Aviso,
           EstadoFrete, StatusMe, Etapas, ComEtiqueta, ancoraDe, ehEstadoFreteTerminal
  <2>6. avisos' \in [Avisos -> Aviso]
    BY CompraAssumption, TipoInv, <1>17 DEF ProvedorAtende, Aceita, TipoInv, TypeOK,
           EtiquetasReais, AvisoIntacto, Requisicao, Claim, Pedido, Ordem, Chamada, Aviso,
           EstadoFrete, StatusMe, Etapas, ComEtiqueta, ancoraDe, ehEstadoFreteTerminal
  <2>7. soltas' \subseteq Etiquetas /\ trocas' \in 0..MaxTrocas
    BY CompraAssumption, TipoInv, <1>17 DEF ProvedorAtende, Aceita, TipoInv, TypeOK,
           EtiquetasReais, AvisoIntacto, Requisicao, Claim, Pedido, Ordem, Chamada, Aviso,
           EstadoFrete, StatusMe, Etapas, ComEtiqueta, ancoraDe, ehEstadoFreteTerminal
  <2>8. QED
    BY <2>1, <2>2, <2>3, <2>4, <2>5, <2>6, <2>7, <1>0 DEF TypeOK
<1>18. ASSUME NEW e \in Etiquetas, ProvedorMuda(e)
      PROVE  TypeOK'
  <2>1. PICK s \in StatusMe : ordens' = [ordens EXCEPT ![e].status = s]
    BY <1>18 DEF ProvedorMuda
  <2>2. ordens' \in [Etiquetas -> Ordem]
    BY <2>1, TipoInv DEF TipoInv, TypeOK, Ordem
  <2>3. UNCHANGED <<agora, claim, pedido, requisicoes, chamadas, avisos, soltas, trocas>>
    BY <1>18 DEF ProvedorMuda
  <2>4. QED
    BY <2>2, <2>3, <1>0, TipoInv DEF TipoInv, TypeOK
<1>19. ASSUME NEW a \in Avisos, AvisoLer(a)
      PROVE  TypeOK'
  <2>1. requisicoes' \in [Requisicoes -> Requisicao]
    BY CompraAssumption, TipoInv, <1>19 DEF AvisoLer, ancoraDe, TipoInv, TypeOK, EtiquetasReais,
           AvisoIntacto, Requisicao, Claim, Pedido, Ordem, Chamada, Aviso, EstadoFrete,
           StatusMe, Etapas, ComEtiqueta, ehEstadoFreteTerminal
  <2>2. agora' \in 0..MaxAgora /\ claim' \in Claim \cup {Nenhum}
    BY CompraAssumption, TipoInv, <1>19 DEF AvisoLer, ancoraDe, TipoInv, TypeOK, EtiquetasReais,
           AvisoIntacto, Requisicao, Claim, Pedido, Ordem, Chamada, Aviso, EstadoFrete,
           StatusMe, Etapas, ComEtiqueta, ehEstadoFreteTerminal
  <2>3. pedido' \in Pedido \cup {Nenhum}
    BY CompraAssumption, TipoInv, <1>19 DEF AvisoLer, ancoraDe, TipoInv, TypeOK, EtiquetasReais,
           AvisoIntacto, Requisicao, Claim, Pedido, Ordem, Chamada, Aviso, EstadoFrete,
           StatusMe, Etapas, ComEtiqueta, ehEstadoFreteTerminal
  <2>4. ordens' \in [Etiquetas -> Ordem]
    BY CompraAssumption, TipoInv, <1>19 DEF AvisoLer, ancoraDe, TipoInv, TypeOK, EtiquetasReais,
           AvisoIntacto, Requisicao, Claim, Pedido, Ordem, Chamada, Aviso, EstadoFrete,
           StatusMe, Etapas, ComEtiqueta, ehEstadoFreteTerminal
  <2>5. chamadas' \subseteq Chamada
    BY CompraAssumption, TipoInv, <1>19 DEF AvisoLer, ancoraDe, TipoInv, TypeOK, EtiquetasReais,
           AvisoIntacto, Requisicao, Claim, Pedido, Ordem, Chamada, Aviso, EstadoFrete,
           StatusMe, Etapas, ComEtiqueta, ehEstadoFreteTerminal
  <2>6. avisos' \in [Avisos -> Aviso]
    <3>1. avisos \in [Avisos -> Aviso] /\ avisos[a] \in Aviso
      BY TipoInv DEF TipoInv, TypeOK
    <3> DEFINE w == [avisos[a] EXCEPT !.fase = "lido", !.etiqueta = pedido.ancora, !.intacto = TRUE,
                      !.terminal = ehEstadoFreteTerminal(pedido.estado)]
    <3>1a. ehEstadoFreteTerminal(pedido.estado) \in BOOLEAN
      BY DEF ehEstadoFreteTerminal
    <3>2. w \in Aviso
      BY CompraAssumption, TipoInv, <1>19, <3>1, <3>1a DEF AvisoLer, ancoraDe, TipoInv, TypeOK,
             EtiquetasReais, Aviso, Pedido, Ordem, StatusMe
    <3>3. avisos' = [avisos EXCEPT ![a] = w]
      BY <1>19, <3>1 DEF AvisoLer
    <3> HIDE DEF w
    <3>4. QED
      BY <3>1, <3>2, <3>3
  <2>7. soltas' \subseteq Etiquetas /\ trocas' \in 0..MaxTrocas
    BY CompraAssumption, TipoInv, <1>19 DEF AvisoLer, ancoraDe, TipoInv, TypeOK, EtiquetasReais,
           AvisoIntacto, Requisicao, Claim, Pedido, Ordem, Chamada, Aviso, EstadoFrete,
           StatusMe, Etapas, ComEtiqueta, ehEstadoFreteTerminal
  <2>8. QED
    BY <2>1, <2>2, <2>3, <2>4, <2>5, <2>6, <2>7, <1>0 DEF TypeOK
<1>20. ASSUME NEW a \in Avisos, AvisoConsultar(a)
      PROVE  TypeOK'
  <2>1. requisicoes' \in [Requisicoes -> Requisicao]
    BY CompraAssumption, TipoInv, <1>20 DEF AvisoConsultar, TipoInv, TypeOK, EtiquetasReais,
           AvisoIntacto, Requisicao, Claim, Pedido, Ordem, Chamada, Aviso, EstadoFrete,
           StatusMe, Etapas, ComEtiqueta, ancoraDe, ehEstadoFreteTerminal
  <2>2. agora' \in 0..MaxAgora /\ claim' \in Claim \cup {Nenhum}
    BY CompraAssumption, TipoInv, <1>20 DEF AvisoConsultar, TipoInv, TypeOK, EtiquetasReais,
           AvisoIntacto, Requisicao, Claim, Pedido, Ordem, Chamada, Aviso, EstadoFrete,
           StatusMe, Etapas, ComEtiqueta, ancoraDe, ehEstadoFreteTerminal
  <2>3. pedido' \in Pedido \cup {Nenhum}
    BY CompraAssumption, TipoInv, <1>20 DEF AvisoConsultar, TipoInv, TypeOK, EtiquetasReais,
           AvisoIntacto, Requisicao, Claim, Pedido, Ordem, Chamada, Aviso, EstadoFrete,
           StatusMe, Etapas, ComEtiqueta, ancoraDe, ehEstadoFreteTerminal
  <2>4. ordens' \in [Etiquetas -> Ordem]
    BY CompraAssumption, TipoInv, <1>20 DEF AvisoConsultar, TipoInv, TypeOK, EtiquetasReais,
           AvisoIntacto, Requisicao, Claim, Pedido, Ordem, Chamada, Aviso, EstadoFrete,
           StatusMe, Etapas, ComEtiqueta, ancoraDe, ehEstadoFreteTerminal
  <2>5. chamadas' \subseteq Chamada
    BY CompraAssumption, TipoInv, <1>20 DEF AvisoConsultar, TipoInv, TypeOK, EtiquetasReais,
           AvisoIntacto, Requisicao, Claim, Pedido, Ordem, Chamada, Aviso, EstadoFrete,
           StatusMe, Etapas, ComEtiqueta, ancoraDe, ehEstadoFreteTerminal
  <2>6. avisos' \in [Avisos -> Aviso]
    <3>1. avisos \in [Avisos -> Aviso] /\ avisos[a] \in Aviso
      BY TipoInv DEF TipoInv, TypeOK
    <3> DEFINE w == [avisos[a] EXCEPT !.fase = "consultado",
                      !.status = ordens[avisos[a].etiqueta].status]
    <3>1a. ehEstadoFreteTerminal(pedido.estado) \in BOOLEAN
      BY DEF ehEstadoFreteTerminal
    <3>2. w \in Aviso
      BY CompraAssumption, TipoInv, <1>20, <3>1, <3>1a DEF AvisoConsultar, TipoInv, TypeOK,
             EtiquetasReais, Aviso, Pedido, Ordem, StatusMe
    <3>3. avisos' = [avisos EXCEPT ![a] = w]
      BY <1>20, <3>1 DEF AvisoConsultar
    <3> HIDE DEF w
    <3>4. QED
      BY <3>1, <3>2, <3>3
  <2>7. soltas' \subseteq Etiquetas /\ trocas' \in 0..MaxTrocas
    BY CompraAssumption, TipoInv, <1>20 DEF AvisoConsultar, TipoInv, TypeOK, EtiquetasReais,
           AvisoIntacto, Requisicao, Claim, Pedido, Ordem, Chamada, Aviso, EstadoFrete,
           StatusMe, Etapas, ComEtiqueta, ancoraDe, ehEstadoFreteTerminal
  <2>8. QED
    BY <2>1, <2>2, <2>3, <2>4, <2>5, <2>6, <2>7, <1>0 DEF TypeOK
<1>21. ASSUME NEW a \in Avisos, AvisoGravar(a)
      PROVE  TypeOK'
  <2>1. requisicoes' \in [Requisicoes -> Requisicao]
    BY CompraAssumption, TipoInv, <1>21 DEF AvisoGravar, Precondicao, AvisoParado,
           meStatusToEstadoFrete, TipoInv, TypeOK, EtiquetasReais, AvisoIntacto, Requisicao,
           Claim, Pedido, Ordem, Chamada, Aviso, EstadoFrete, StatusMe, Etapas, ComEtiqueta,
           ancoraDe, ehEstadoFreteTerminal
  <2>2. agora' \in 0..MaxAgora /\ claim' \in Claim \cup {Nenhum}
    BY CompraAssumption, TipoInv, <1>21 DEF AvisoGravar, Precondicao, AvisoParado,
           meStatusToEstadoFrete, TipoInv, TypeOK, EtiquetasReais, AvisoIntacto, Requisicao,
           Claim, Pedido, Ordem, Chamada, Aviso, EstadoFrete, StatusMe, Etapas, ComEtiqueta,
           ancoraDe, ehEstadoFreteTerminal
  <2>3. pedido' \in Pedido \cup {Nenhum}
    BY CompraAssumption, TipoInv, <1>21 DEF AvisoGravar, Precondicao, AvisoParado,
           meStatusToEstadoFrete, TipoInv, TypeOK, EtiquetasReais, AvisoIntacto, Requisicao,
           Claim, Pedido, Ordem, Chamada, Aviso, EstadoFrete, StatusMe, Etapas, ComEtiqueta,
           ancoraDe, ehEstadoFreteTerminal
  <2>4. ordens' \in [Etiquetas -> Ordem]
    BY CompraAssumption, TipoInv, <1>21 DEF AvisoGravar, Precondicao, AvisoParado,
           meStatusToEstadoFrete, TipoInv, TypeOK, EtiquetasReais, AvisoIntacto, Requisicao,
           Claim, Pedido, Ordem, Chamada, Aviso, EstadoFrete, StatusMe, Etapas, ComEtiqueta,
           ancoraDe, ehEstadoFreteTerminal
  <2>5. chamadas' \subseteq Chamada
    BY CompraAssumption, TipoInv, <1>21 DEF AvisoGravar, Precondicao, AvisoParado,
           meStatusToEstadoFrete, TipoInv, TypeOK, EtiquetasReais, AvisoIntacto, Requisicao,
           Claim, Pedido, Ordem, Chamada, Aviso, EstadoFrete, StatusMe, Etapas, ComEtiqueta,
           ancoraDe, ehEstadoFreteTerminal
  <2>6. avisos' \in [Avisos -> Aviso]
    <3>1. avisos \in [Avisos -> Aviso]
      BY TipoInv DEF TipoInv, TypeOK
    <3>2. avisos' = [b \in Avisos |-> avisos'[b]]
      BY <1>21, <3>1 DEF AvisoGravar, Precondicao, AvisoParado, meStatusToEstadoFrete
    <3>3. ASSUME NEW b \in Avisos
          PROVE  avisos'[b] \in Aviso
      BY CompraAssumption, TipoInv, <1>21, <3>1 DEF AvisoGravar, Precondicao, AvisoParado,
             meStatusToEstadoFrete, TipoInv, TypeOK, EtiquetasReais, Aviso, Pedido, Ordem,
             StatusMe
    <3>4. QED
      BY <3>2, <3>3
  <2>7. soltas' \subseteq Etiquetas /\ trocas' \in 0..MaxTrocas
    BY CompraAssumption, TipoInv, <1>21 DEF AvisoGravar, Precondicao, AvisoParado,
           meStatusToEstadoFrete, TipoInv, TypeOK, EtiquetasReais, AvisoIntacto, Requisicao,
           Claim, Pedido, Ordem, Chamada, Aviso, EstadoFrete, StatusMe, Etapas, ComEtiqueta,
           ancoraDe, ehEstadoFreteTerminal
  <2>8. QED
    BY <2>1, <2>2, <2>3, <2>4, <2>5, <2>6, <2>7, <1>0 DEF TypeOK
<1>22. ASSUME NEW estado \in EstadosEscolhidos, OnIntegracaoChange(estado)
      PROVE  TypeOK'
  <2>1. requisicoes' \in [Requisicoes -> Requisicao]
    BY CompraAssumption, TipoInv, <1>22 DEF OnIntegracaoChange, Soltar, GravarPedido, ancoraDe,
           TipoInv, TypeOK, EtiquetasReais, AvisoIntacto, Requisicao, Claim, Pedido, Ordem,
           Chamada, Aviso, EstadoFrete, StatusMe, Etapas, ComEtiqueta, ehEstadoFreteTerminal
  <2>2. agora' \in 0..MaxAgora /\ claim' \in Claim \cup {Nenhum}
    BY CompraAssumption, TipoInv, <1>22 DEF OnIntegracaoChange, Soltar, GravarPedido, ancoraDe,
           TipoInv, TypeOK, EtiquetasReais, AvisoIntacto, Requisicao, Claim, Pedido, Ordem,
           Chamada, Aviso, EstadoFrete, StatusMe, Etapas, ComEtiqueta, ehEstadoFreteTerminal
  <2>3. pedido' \in Pedido \cup {Nenhum}
    BY CompraAssumption, TipoInv, <1>22 DEF OnIntegracaoChange, Soltar, GravarPedido, ancoraDe,
           TipoInv, TypeOK, EtiquetasReais, AvisoIntacto, Requisicao, Claim, Pedido, Ordem,
           Chamada, Aviso, EstadoFrete, StatusMe, Etapas, ComEtiqueta, ehEstadoFreteTerminal
  <2>4. ordens' \in [Etiquetas -> Ordem]
    BY CompraAssumption, TipoInv, <1>22 DEF OnIntegracaoChange, Soltar, GravarPedido, ancoraDe,
           TipoInv, TypeOK, EtiquetasReais, AvisoIntacto, Requisicao, Claim, Pedido, Ordem,
           Chamada, Aviso, EstadoFrete, StatusMe, Etapas, ComEtiqueta, ehEstadoFreteTerminal
  <2>5. chamadas' \subseteq Chamada
    BY CompraAssumption, TipoInv, <1>22 DEF OnIntegracaoChange, Soltar, GravarPedido, ancoraDe,
           TipoInv, TypeOK, EtiquetasReais, AvisoIntacto, Requisicao, Claim, Pedido, Ordem,
           Chamada, Aviso, EstadoFrete, StatusMe, Etapas, ComEtiqueta, ehEstadoFreteTerminal
  <2>6. avisos' \in [Avisos -> Aviso]
    BY TipoInv, <1>22, GravarPedidoEfeito DEF TipoInv, OnIntegracaoChange, Soltar
  <2>7. soltas' \subseteq Etiquetas /\ trocas' \in 0..MaxTrocas
    BY CompraAssumption, TipoInv, <1>22 DEF OnIntegracaoChange, Soltar, GravarPedido, ancoraDe,
           TipoInv, TypeOK, EtiquetasReais, AvisoIntacto, Requisicao, Claim, Pedido, Ordem,
           Chamada, Aviso, EstadoFrete, StatusMe, Etapas, ComEtiqueta, ehEstadoFreteTerminal
  <2>8. QED
    BY <2>1, <2>2, <2>3, <2>4, <2>5, <2>6, <2>7, <1>0 DEF TypeOK
<1>23. ASSUME ExcluirPedido
      PROVE  TypeOK'
  <2>1. requisicoes' \in [Requisicoes -> Requisicao]
    BY CompraAssumption, TipoInv, <1>23 DEF ExcluirPedido, Soltar, GravarPedido, ancoraDe,
           TipoInv, TypeOK, EtiquetasReais, AvisoIntacto, Requisicao, Claim, Pedido, Ordem,
           Chamada, Aviso, EstadoFrete, StatusMe, Etapas, ComEtiqueta, ehEstadoFreteTerminal
  <2>2. agora' \in 0..MaxAgora /\ claim' \in Claim \cup {Nenhum}
    BY CompraAssumption, TipoInv, <1>23 DEF ExcluirPedido, Soltar, GravarPedido, ancoraDe,
           TipoInv, TypeOK, EtiquetasReais, AvisoIntacto, Requisicao, Claim, Pedido, Ordem,
           Chamada, Aviso, EstadoFrete, StatusMe, Etapas, ComEtiqueta, ehEstadoFreteTerminal
  <2>3. pedido' \in Pedido \cup {Nenhum}
    BY CompraAssumption, TipoInv, <1>23 DEF ExcluirPedido, Soltar, GravarPedido, ancoraDe,
           TipoInv, TypeOK, EtiquetasReais, AvisoIntacto, Requisicao, Claim, Pedido, Ordem,
           Chamada, Aviso, EstadoFrete, StatusMe, Etapas, ComEtiqueta, ehEstadoFreteTerminal
  <2>4. ordens' \in [Etiquetas -> Ordem]
    BY CompraAssumption, TipoInv, <1>23 DEF ExcluirPedido, Soltar, GravarPedido, ancoraDe,
           TipoInv, TypeOK, EtiquetasReais, AvisoIntacto, Requisicao, Claim, Pedido, Ordem,
           Chamada, Aviso, EstadoFrete, StatusMe, Etapas, ComEtiqueta, ehEstadoFreteTerminal
  <2>5. chamadas' \subseteq Chamada
    BY CompraAssumption, TipoInv, <1>23 DEF ExcluirPedido, Soltar, GravarPedido, ancoraDe,
           TipoInv, TypeOK, EtiquetasReais, AvisoIntacto, Requisicao, Claim, Pedido, Ordem,
           Chamada, Aviso, EstadoFrete, StatusMe, Etapas, ComEtiqueta, ehEstadoFreteTerminal
  <2>6. avisos' \in [Avisos -> Aviso]
    BY TipoInv, <1>23, GravarPedidoEfeito DEF TipoInv, ExcluirPedido, Soltar
  <2>7. soltas' \subseteq Etiquetas /\ trocas' \in 0..MaxTrocas
    BY CompraAssumption, TipoInv, <1>23 DEF ExcluirPedido, Soltar, GravarPedido, ancoraDe,
           TipoInv, TypeOK, EtiquetasReais, AvisoIntacto, Requisicao, Claim, Pedido, Ordem,
           Chamada, Aviso, EstadoFrete, StatusMe, Etapas, ComEtiqueta, ehEstadoFreteTerminal
  <2>8. QED
    BY <2>1, <2>2, <2>3, <2>4, <2>5, <2>6, <2>7, <1>0 DEF TypeOK
<1>24. CASE UNCHANGED vars
  BY CompraAssumption, TipoInv, <1>0, <1>24 DEF vars, TipoInv, TypeOK, EtiquetasReais,
         AvisoIntacto, Requisicao, Claim, Pedido, Ordem, Chamada, Aviso, EstadoFrete,
         StatusMe, Etapas, ComEtiqueta, ancoraDe, ehEstadoFreteTerminal
<1>25. ASSUME NEW estado \in EstadoFrete, GravarEstado(estado)
      PROVE  TypeOK'
  BY TipoInv, <1>0, <1>25, GravarEstadoEfeito, CompraAssumption DEF TipoInv, TypeOK, Pedido
<1>26. QED
  BY <1>1, <1>2, <1>3, <1>4, <1>5, <1>6, <1>7, <1>8, <1>9, <1>10, <1>11, <1>12, <1>13,
     <1>14, <1>15, <1>16, <1>17, <1>18, <1>19, <1>20, <1>21, <1>22, <1>23, <1>24, <1>25,
     PassoDe DEF Requisitar, Avisar

(* What points at a label points at one that exists. *)
LEMMA EtiquetasPasso ==
  ASSUME TipoInv, [Next]_vars
  PROVE  EtiquetasReais'
<1>1. ASSUME Tique
      PROVE  EtiquetasReais'
  BY CompraAssumption, TipoInv, <1>1 DEF Tique, TipoInv, TypeOK, EtiquetasReais,
         AvisoIntacto, Requisicao, Claim, Pedido, Ordem, Chamada, Aviso, EstadoFrete,
         StatusMe, Etapas, ComEtiqueta, ancoraDe, ehEstadoFreteTerminal
<1>2. ASSUME NEW r \in Requisicoes, Chegar(r)
      PROVE  EtiquetasReais'
  BY CompraAssumption, TipoInv, <1>2 DEF Chegar, HoraDe, TipoInv, TypeOK, EtiquetasReais,
         AvisoIntacto, Requisicao, Claim, Pedido, Ordem, Chamada, Aviso, EstadoFrete,
         StatusMe, Etapas, ComEtiqueta, ancoraDe, ehEstadoFreteTerminal
<1>3. ASSUME NEW r \in Requisicoes, adquirirCompraEtiqueta(r)
      PROVE  EtiquetasReais'
  BY CompraAssumption, TipoInv, <1>3 DEF adquirirCompraEtiqueta, Ocupado, leaseDe, HoraDe,
         Parada, TipoInv, TypeOK, EtiquetasReais, AvisoIntacto, Requisicao, Claim, Pedido,
         Ordem, Chamada, Aviso, EstadoFrete, StatusMe, Etapas, ComEtiqueta, ancoraDe,
         ehEstadoFreteTerminal
<1>4. ASSUME NEW r \in Requisicoes, BuscarExistente(r)
      PROVE  EtiquetasReais'
  BY <1>4 DEF BuscarExistente, FaseSeguinte, Parada, TipoInv, EtiquetasReais, ComEtiqueta
<1>5. ASSUME NEW r \in Requisicoes, NEW e \in Etiquetas, AddToCart(r, e)
      PROVE  EtiquetasReais'
  BY CompraAssumption, TipoInv, <1>5 DEF AddToCart, TipoInv, TypeOK, EtiquetasReais,
         AvisoIntacto, Requisicao, Claim, Pedido, Ordem, Chamada, Aviso, EstadoFrete,
         StatusMe, Etapas, ComEtiqueta, ancoraDe, ehEstadoFreteTerminal
<1>6. ASSUME NEW r \in Requisicoes, ancorarEtiqueta(r)
      PROVE  EtiquetasReais'
  <2>1. /\ requisicoes' \in {[requisicoes EXCEPT ![r].fase = "cercar"],
                             [requisicoes EXCEPT ![r] = Parada("liberar")]}
        /\ ordens' = ordens /\ requisicoes[r].fase = "ancorar"
    BY <1>6 DEF ancorarEtiqueta, Vai, Acaba
  <2>2. \A s \in Requisicoes :
          LET q == requisicoes'[s]
          IN /\ q.fase \in ComEtiqueta => q.etiqueta # Nenhum
             /\ q.etiqueta # Nenhum => ordens'[q.etiqueta].existe
             /\ q.pago \/ q.gerado => q.fase \in ComEtiqueta
    BY TipoInv, <2>1 DEF TipoInv, TypeOK, EtiquetasReais, Requisicao, ComEtiqueta, Parada
  <2>3. ancoraDe(pedido)' # Nenhum => ordens'[ancoraDe(pedido)'].existe
    <3>1. pedido' = pedido \/ pedido'.ancora = requisicoes[r].etiqueta
      BY TipoInv, <1>6, GravarPedidoEfeito DEF TipoInv, ancorarEtiqueta
    <3>2. QED
      BY TipoInv, <2>1, <3>1 DEF TipoInv, EtiquetasReais, ComEtiqueta, ancoraDe
  <2>4. \A a \in Avisos : avisos'[a].fase # "fora" => avisos'[a].etiqueta # Nenhum
    BY TipoInv, <1>6, GravarPedidoEfeito DEF TipoInv, ancorarEtiqueta, EtiquetasReais
  <2>5. QED
    BY <2>2, <2>3, <2>4 DEF EtiquetasReais
<1>7. ASSUME NEW r \in Requisicoes, garantirPosseCompraEtiqueta(r)
      PROVE  EtiquetasReais'
  BY CompraAssumption, TipoInv, <1>7 DEF garantirPosseCompraEtiqueta, PodePagar, Possui,
         leaseDe, HoraDe, Parada, TipoInv, TypeOK, EtiquetasReais, AvisoIntacto, Requisicao,
         Claim, Pedido, Ordem, Chamada, Aviso, EstadoFrete, StatusMe, Etapas, ComEtiqueta,
         ancoraDe, ehEstadoFreteTerminal
<1>8. ASSUME NEW r \in Requisicoes, EnviarPago(r)
      PROVE  EtiquetasReais'
  BY CompraAssumption, TipoInv, <1>8 DEF EnviarPago, Vai, Etapa, TipoInv, TypeOK,
         EtiquetasReais, AvisoIntacto, Requisicao, Claim, Pedido, Ordem, Chamada, Aviso,
         EstadoFrete, StatusMe, Etapas, ComEtiqueta, ancoraDe, ehEstadoFreteTerminal
<1>9. ASSUME NEW r \in Requisicoes, ReceberResposta(r)
      PROVE  EtiquetasReais'
  BY CompraAssumption, TipoInv, <1>9 DEF ReceberResposta, FaseSeguinte, Etapa, Parada,
         TipoInv, TypeOK, EtiquetasReais, AvisoIntacto, Requisicao, Claim, Pedido, Ordem,
         Chamada, Aviso, EstadoFrete, StatusMe, Etapas, ComEtiqueta, ancoraDe,
         ehEstadoFreteTerminal
<1>10. ASSUME NEW r \in Requisicoes, EstourarPrazo(r)
      PROVE  EtiquetasReais'
  BY CompraAssumption, TipoInv, <1>10 DEF EstourarPrazo, DesfechoIncerto, Acaba, Parada,
         TipoInv, TypeOK, EtiquetasReais, AvisoIntacto, Requisicao, Claim, Pedido, Ordem,
         Chamada, Aviso, EstadoFrete, StatusMe, Etapas, ComEtiqueta, ancoraDe,
         ehEstadoFreteTerminal
<1>11. ASSUME NEW r \in Requisicoes, Imprimir(r)
      PROVE  EtiquetasReais'
  BY CompraAssumption, TipoInv, <1>11 DEF Imprimir, TipoInv, TypeOK, EtiquetasReais,
         AvisoIntacto, Requisicao, Claim, Pedido, Ordem, Chamada, Aviso, EstadoFrete,
         StatusMe, Etapas, ComEtiqueta, ancoraDe, ehEstadoFreteTerminal
<1>12. ASSUME NEW r \in Requisicoes, finalizarCompraEtiqueta(r)
      PROVE  EtiquetasReais'
  BY <1>12 DEF finalizarCompraEtiqueta, Vinculada, GravarPedido, Acaba, Parada, TipoInv,
     EtiquetasReais, ComEtiqueta, ancoraDe
<1>13. ASSUME NEW r \in Requisicoes, liberarCompraEtiqueta(r)
      PROVE  EtiquetasReais'
  BY CompraAssumption, TipoInv, <1>13 DEF liberarCompraEtiqueta, SemClaimDe, Acaba, Parada,
         TipoInv, TypeOK, EtiquetasReais, AvisoIntacto, Requisicao, Claim, Pedido, Ordem,
         Chamada, Aviso, EstadoFrete, StatusMe, Etapas, ComEtiqueta, ancoraDe,
         ehEstadoFreteTerminal
<1>14. ASSUME NEW r \in Requisicoes, Falhar(r)
      PROVE  EtiquetasReais'
  BY CompraAssumption, TipoInv, <1>14 DEF Falhar, Acaba, Parada, TipoInv, TypeOK,
         EtiquetasReais, AvisoIntacto, Requisicao, Claim, Pedido, Ordem, Chamada, Aviso,
         EstadoFrete, StatusMe, Etapas, ComEtiqueta, ancoraDe, ehEstadoFreteTerminal
<1>15. ASSUME NEW r \in Requisicoes, Congelar(r)
      PROVE  EtiquetasReais'
  BY CompraAssumption, TipoInv, <1>15 DEF Congelar, EmChamadaPaga, TipoInv, TypeOK,
         EtiquetasReais, AvisoIntacto, Requisicao, Claim, Pedido, Ordem, Chamada, Aviso,
         EstadoFrete, StatusMe, Etapas, ComEtiqueta, ancoraDe, ehEstadoFreteTerminal
<1>16. ASSUME NEW r \in Requisicoes, Morrer(r)
      PROVE  EtiquetasReais'
  BY CompraAssumption, TipoInv, <1>16 DEF Morrer, Acaba, Parada, TipoInv, TypeOK,
         EtiquetasReais, AvisoIntacto, Requisicao, Claim, Pedido, Ordem, Chamada, Aviso,
         EstadoFrete, StatusMe, Etapas, ComEtiqueta, ancoraDe, ehEstadoFreteTerminal
<1>17. ASSUME NEW c \in chamadas, ProvedorAtende(c)
      PROVE  EtiquetasReais'
  <2>1. /\ \A e \in Etiquetas : ordens'[e].existe = ordens[e].existe
        /\ pedido' = pedido /\ avisos' = avisos
    BY TipoInv, <1>17 DEF TipoInv, TypeOK, Ordem, ProvedorAtende
  <2>2. \A s \in Requisicoes :
          /\ requisicoes'[s].fase = requisicoes[s].fase
          /\ requisicoes'[s].etiqueta = requisicoes[s].etiqueta
          /\ requisicoes'[s].pago = requisicoes[s].pago
          /\ requisicoes'[s].gerado = requisicoes[s].gerado
    BY TipoInv, <1>17 DEF TipoInv, TypeOK, Requisicao, ProvedorAtende
  <2>3. /\ \A s \in Requisicoes : requisicoes[s].etiqueta \in Etiquetas \cup {Nenhum}
        /\ ancoraDe(pedido) \in Etiquetas \cup {Nenhum}
    BY TipoInv DEF TipoInv, TypeOK, Requisicao, Pedido, ancoraDe
  <2>4. QED
    BY TipoInv, <2>1, <2>2, <2>3 DEF TipoInv, EtiquetasReais, ancoraDe
<1>18. ASSUME NEW e \in Etiquetas, ProvedorMuda(e)
      PROVE  EtiquetasReais'
  BY CompraAssumption, TipoInv, <1>18 DEF ProvedorMuda, TipoInv, TypeOK, EtiquetasReais,
         AvisoIntacto, Requisicao, Claim, Pedido, Ordem, Chamada, Aviso, EstadoFrete,
         StatusMe, Etapas, ComEtiqueta, ancoraDe, ehEstadoFreteTerminal
<1>19. ASSUME NEW a \in Avisos, AvisoLer(a)
      PROVE  EtiquetasReais'
  BY CompraAssumption, TipoInv, <1>19 DEF AvisoLer, ancoraDe, TipoInv, TypeOK,
         EtiquetasReais, AvisoIntacto, Requisicao, Claim, Pedido, Ordem, Chamada, Aviso,
         EstadoFrete, StatusMe, Etapas, ComEtiqueta, ehEstadoFreteTerminal
<1>20. ASSUME NEW a \in Avisos, AvisoConsultar(a)
      PROVE  EtiquetasReais'
  BY CompraAssumption, TipoInv, <1>20 DEF AvisoConsultar, TipoInv, TypeOK, EtiquetasReais,
         AvisoIntacto, Requisicao, Claim, Pedido, Ordem, Chamada, Aviso, EstadoFrete,
         StatusMe, Etapas, ComEtiqueta, ancoraDe, ehEstadoFreteTerminal
<1>21. ASSUME NEW a \in Avisos, AvisoGravar(a)
      PROVE  EtiquetasReais'
  BY CompraAssumption, TipoInv, <1>21 DEF AvisoGravar, Precondicao, AvisoParado,
         meStatusToEstadoFrete, TipoInv, TypeOK, EtiquetasReais, AvisoIntacto, Requisicao,
         Claim, Pedido, Ordem, Chamada, Aviso, EstadoFrete, StatusMe, Etapas, ComEtiqueta,
         ancoraDe, ehEstadoFreteTerminal
<1>22. ASSUME NEW estado \in EstadosEscolhidos, OnIntegracaoChange(estado)
      PROVE  EtiquetasReais'
  BY CompraAssumption, TipoInv, <1>22 DEF OnIntegracaoChange, Soltar, GravarPedido,
         ancoraDe, TipoInv, TypeOK, EtiquetasReais, AvisoIntacto, Requisicao, Claim, Pedido,
         Ordem, Chamada, Aviso, EstadoFrete, StatusMe, Etapas, ComEtiqueta,
         ehEstadoFreteTerminal
<1>23. ASSUME ExcluirPedido
      PROVE  EtiquetasReais'
  BY CompraAssumption, TipoInv, <1>23 DEF ExcluirPedido, Soltar, GravarPedido, ancoraDe,
         TipoInv, TypeOK, EtiquetasReais, AvisoIntacto, Requisicao, Claim, Pedido, Ordem,
         Chamada, Aviso, EstadoFrete, StatusMe, Etapas, ComEtiqueta, ehEstadoFreteTerminal
<1>24. CASE UNCHANGED vars
  BY CompraAssumption, TipoInv, <1>24 DEF vars, TipoInv, TypeOK, EtiquetasReais,
         AvisoIntacto, Requisicao, Claim, Pedido, Ordem, Chamada, Aviso, EstadoFrete,
         StatusMe, Etapas, ComEtiqueta, ancoraDe, ehEstadoFreteTerminal
<1>25. ASSUME NEW estado \in EstadoFrete, GravarEstado(estado)
      PROVE  EtiquetasReais'
  BY TipoInv, <1>25, GravarEstadoEfeito DEF TipoInv, EtiquetasReais
<1>26. QED
  BY <1>1, <1>2, <1>3, <1>4, <1>5, <1>6, <1>7, <1>8, <1>9, <1>10, <1>11, <1>12, <1>13,
     <1>14, <1>15, <1>16, <1>17, <1>18, <1>19, <1>20, <1>21, <1>22, <1>23, <1>24, <1>25,
     PassoDe DEF Requisitar, Avisar

(* A webhook task that may still write has read the pedido as it is. *)
LEMMA AvisoPasso ==
  ASSUME TipoInv, [Next]_vars
  PROVE  AvisoIntacto'
<1>1. ASSUME Tique
      PROVE  AvisoIntacto'
  BY CompraAssumption, TipoInv, <1>1 DEF Tique, TipoInv, TypeOK, EtiquetasReais,
         AvisoIntacto, Requisicao, Claim, Pedido, Ordem, Chamada, Aviso, EstadoFrete,
         StatusMe, Etapas, ComEtiqueta, ancoraDe, ehEstadoFreteTerminal
<1>2. ASSUME NEW r \in Requisicoes, Chegar(r)
      PROVE  AvisoIntacto'
  BY CompraAssumption, TipoInv, <1>2 DEF Chegar, HoraDe, TipoInv, TypeOK, EtiquetasReais,
         AvisoIntacto, Requisicao, Claim, Pedido, Ordem, Chamada, Aviso, EstadoFrete,
         StatusMe, Etapas, ComEtiqueta, ancoraDe, ehEstadoFreteTerminal
<1>3. ASSUME NEW r \in Requisicoes, adquirirCompraEtiqueta(r)
      PROVE  AvisoIntacto'
  BY CompraAssumption, TipoInv, <1>3 DEF adquirirCompraEtiqueta, Ocupado, leaseDe, HoraDe,
         Parada, TipoInv, TypeOK, EtiquetasReais, AvisoIntacto, Requisicao, Claim, Pedido,
         Ordem, Chamada, Aviso, EstadoFrete, StatusMe, Etapas, ComEtiqueta, ancoraDe,
         ehEstadoFreteTerminal
<1>4. ASSUME NEW r \in Requisicoes, BuscarExistente(r)
      PROVE  AvisoIntacto'
  BY CompraAssumption, TipoInv, <1>4 DEF BuscarExistente, FaseSeguinte, Parada, TipoInv,
         TypeOK, EtiquetasReais, AvisoIntacto, Requisicao, Claim, Pedido, Ordem, Chamada,
         Aviso, EstadoFrete, StatusMe, Etapas, ComEtiqueta, ancoraDe, ehEstadoFreteTerminal
<1>5. ASSUME NEW r \in Requisicoes, NEW e \in Etiquetas, AddToCart(r, e)
      PROVE  AvisoIntacto'
  BY CompraAssumption, TipoInv, <1>5 DEF AddToCart, TipoInv, TypeOK, EtiquetasReais,
         AvisoIntacto, Requisicao, Claim, Pedido, Ordem, Chamada, Aviso, EstadoFrete,
         StatusMe, Etapas, ComEtiqueta, ancoraDe, ehEstadoFreteTerminal
<1>6. ASSUME NEW r \in Requisicoes, ancorarEtiqueta(r)
      PROVE  AvisoIntacto'
  BY CompraAssumption, TipoInv, <1>6 DEF ancorarEtiqueta, PodeAncorar, Possui, leaseDe,
         HoraDe, GravarPedido, estadoAoAncorarNovaEtiqueta, Vai, Acaba, Parada, TipoInv,
         TypeOK, EtiquetasReais, AvisoIntacto, Requisicao, Claim, Pedido, Ordem, Chamada,
         Aviso, EstadoFrete, StatusMe, Etapas, ComEtiqueta, ancoraDe, ehEstadoFreteTerminal
<1>7. ASSUME NEW r \in Requisicoes, garantirPosseCompraEtiqueta(r)
      PROVE  AvisoIntacto'
  BY CompraAssumption, TipoInv, <1>7 DEF garantirPosseCompraEtiqueta, PodePagar, Possui,
         leaseDe, HoraDe, Parada, TipoInv, TypeOK, EtiquetasReais, AvisoIntacto, Requisicao,
         Claim, Pedido, Ordem, Chamada, Aviso, EstadoFrete, StatusMe, Etapas, ComEtiqueta,
         ancoraDe, ehEstadoFreteTerminal
<1>8. ASSUME NEW r \in Requisicoes, EnviarPago(r)
      PROVE  AvisoIntacto'
  BY CompraAssumption, TipoInv, <1>8 DEF EnviarPago, Vai, Etapa, TipoInv, TypeOK,
         EtiquetasReais, AvisoIntacto, Requisicao, Claim, Pedido, Ordem, Chamada, Aviso,
         EstadoFrete, StatusMe, Etapas, ComEtiqueta, ancoraDe, ehEstadoFreteTerminal
<1>9. ASSUME NEW r \in Requisicoes, ReceberResposta(r)
      PROVE  AvisoIntacto'
  BY CompraAssumption, TipoInv, <1>9 DEF ReceberResposta, FaseSeguinte, Etapa, Parada,
         TipoInv, TypeOK, EtiquetasReais, AvisoIntacto, Requisicao, Claim, Pedido, Ordem,
         Chamada, Aviso, EstadoFrete, StatusMe, Etapas, ComEtiqueta, ancoraDe,
         ehEstadoFreteTerminal
<1>10. ASSUME NEW r \in Requisicoes, EstourarPrazo(r)
      PROVE  AvisoIntacto'
  BY CompraAssumption, TipoInv, <1>10 DEF EstourarPrazo, DesfechoIncerto, Acaba, Parada,
         TipoInv, TypeOK, EtiquetasReais, AvisoIntacto, Requisicao, Claim, Pedido, Ordem,
         Chamada, Aviso, EstadoFrete, StatusMe, Etapas, ComEtiqueta, ancoraDe,
         ehEstadoFreteTerminal
<1>11. ASSUME NEW r \in Requisicoes, Imprimir(r)
      PROVE  AvisoIntacto'
  BY CompraAssumption, TipoInv, <1>11 DEF Imprimir, TipoInv, TypeOK, EtiquetasReais,
         AvisoIntacto, Requisicao, Claim, Pedido, Ordem, Chamada, Aviso, EstadoFrete,
         StatusMe, Etapas, ComEtiqueta, ancoraDe, ehEstadoFreteTerminal
<1>12. ASSUME NEW r \in Requisicoes, finalizarCompraEtiqueta(r)
      PROVE  AvisoIntacto'
  BY <1>12 DEF finalizarCompraEtiqueta, GravarPedido, TipoInv, TypeOK, AvisoIntacto, Pedido
<1>13. ASSUME NEW r \in Requisicoes, liberarCompraEtiqueta(r)
      PROVE  AvisoIntacto'
  BY CompraAssumption, TipoInv, <1>13 DEF liberarCompraEtiqueta, SemClaimDe, Acaba, Parada,
         TipoInv, TypeOK, EtiquetasReais, AvisoIntacto, Requisicao, Claim, Pedido, Ordem,
         Chamada, Aviso, EstadoFrete, StatusMe, Etapas, ComEtiqueta, ancoraDe,
         ehEstadoFreteTerminal
<1>14. ASSUME NEW r \in Requisicoes, Falhar(r)
      PROVE  AvisoIntacto'
  BY CompraAssumption, TipoInv, <1>14 DEF Falhar, Acaba, Parada, TipoInv, TypeOK,
         EtiquetasReais, AvisoIntacto, Requisicao, Claim, Pedido, Ordem, Chamada, Aviso,
         EstadoFrete, StatusMe, Etapas, ComEtiqueta, ancoraDe, ehEstadoFreteTerminal
<1>15. ASSUME NEW r \in Requisicoes, Congelar(r)
      PROVE  AvisoIntacto'
  BY CompraAssumption, TipoInv, <1>15 DEF Congelar, EmChamadaPaga, TipoInv, TypeOK,
         EtiquetasReais, AvisoIntacto, Requisicao, Claim, Pedido, Ordem, Chamada, Aviso,
         EstadoFrete, StatusMe, Etapas, ComEtiqueta, ancoraDe, ehEstadoFreteTerminal
<1>16. ASSUME NEW r \in Requisicoes, Morrer(r)
      PROVE  AvisoIntacto'
  BY CompraAssumption, TipoInv, <1>16 DEF Morrer, Acaba, Parada, TipoInv, TypeOK,
         EtiquetasReais, AvisoIntacto, Requisicao, Claim, Pedido, Ordem, Chamada, Aviso,
         EstadoFrete, StatusMe, Etapas, ComEtiqueta, ancoraDe, ehEstadoFreteTerminal
<1>17. ASSUME NEW c \in chamadas, ProvedorAtende(c)
      PROVE  AvisoIntacto'
  BY CompraAssumption, TipoInv, <1>17 DEF ProvedorAtende, Aceita, TipoInv, TypeOK,
         EtiquetasReais, AvisoIntacto, Requisicao, Claim, Pedido, Ordem, Chamada, Aviso,
         EstadoFrete, StatusMe, Etapas, ComEtiqueta, ancoraDe, ehEstadoFreteTerminal
<1>18. ASSUME NEW e \in Etiquetas, ProvedorMuda(e)
      PROVE  AvisoIntacto'
  BY CompraAssumption, TipoInv, <1>18 DEF ProvedorMuda, TipoInv, TypeOK, EtiquetasReais,
         AvisoIntacto, Requisicao, Claim, Pedido, Ordem, Chamada, Aviso, EstadoFrete,
         StatusMe, Etapas, ComEtiqueta, ancoraDe, ehEstadoFreteTerminal
<1>19. ASSUME NEW a \in Avisos, AvisoLer(a)
      PROVE  AvisoIntacto'
  BY CompraAssumption, TipoInv, <1>19 DEF AvisoLer, ancoraDe, TipoInv, TypeOK,
         EtiquetasReais, AvisoIntacto, Requisicao, Claim, Pedido, Ordem, Chamada, Aviso,
         EstadoFrete, StatusMe, Etapas, ComEtiqueta, ehEstadoFreteTerminal
<1>20. ASSUME NEW a \in Avisos, AvisoConsultar(a)
      PROVE  AvisoIntacto'
  BY CompraAssumption, TipoInv, <1>20 DEF AvisoConsultar, TipoInv, TypeOK, EtiquetasReais,
         AvisoIntacto, Requisicao, Claim, Pedido, Ordem, Chamada, Aviso, EstadoFrete,
         StatusMe, Etapas, ComEtiqueta, ancoraDe, ehEstadoFreteTerminal
<1>21. ASSUME NEW a \in Avisos, AvisoGravar(a)
      PROVE  AvisoIntacto'
  <2>1. \A b \in Avisos \ {a} :
          /\ avisos'[b].fase = avisos[b].fase /\ avisos'[b].etiqueta = avisos[b].etiqueta
          /\ avisos'[b].terminal = avisos[b].terminal
          /\ avisos'[b].intacto => avisos[b].intacto /\ pedido' = pedido
    BY TipoInv, <1>21 DEF TipoInv, TypeOK, Aviso, AvisoGravar
  <2>2. ~avisos'[a].intacto
    BY <1>21 DEF AvisoGravar, AvisoParado
  <2>3. QED
    BY TipoInv, <2>1, <2>2 DEF TipoInv, AvisoIntacto
<1>22. ASSUME NEW estado \in EstadosEscolhidos, OnIntegracaoChange(estado)
      PROVE  AvisoIntacto'
  BY CompraAssumption, TipoInv, <1>22 DEF OnIntegracaoChange, Soltar, GravarPedido,
         ancoraDe, TipoInv, TypeOK, EtiquetasReais, AvisoIntacto, Requisicao, Claim, Pedido,
         Ordem, Chamada, Aviso, EstadoFrete, StatusMe, Etapas, ComEtiqueta,
         ehEstadoFreteTerminal
<1>23. ASSUME ExcluirPedido
      PROVE  AvisoIntacto'
  BY CompraAssumption, TipoInv, <1>23 DEF ExcluirPedido, Soltar, GravarPedido, ancoraDe,
         TipoInv, TypeOK, EtiquetasReais, AvisoIntacto, Requisicao, Claim, Pedido, Ordem,
         Chamada, Aviso, EstadoFrete, StatusMe, Etapas, ComEtiqueta, ehEstadoFreteTerminal
<1>24. CASE UNCHANGED vars
  BY CompraAssumption, TipoInv, <1>24 DEF vars, TipoInv, TypeOK, EtiquetasReais,
         AvisoIntacto, Requisicao, Claim, Pedido, Ordem, Chamada, Aviso, EstadoFrete,
         StatusMe, Etapas, ComEtiqueta, ancoraDe, ehEstadoFreteTerminal
<1>25. ASSUME NEW estado \in EstadoFrete, GravarEstado(estado)
      PROVE  AvisoIntacto'
  BY TipoInv, <1>25, GravarEstadoEfeito DEF TipoInv, AvisoIntacto
<1>26. QED
  BY <1>1, <1>2, <1>3, <1>4, <1>5, <1>6, <1>7, <1>8, <1>9, <1>10, <1>11, <1>12, <1>13,
     <1>14, <1>15, <1>16, <1>17, <1>18, <1>19, <1>20, <1>21, <1>22, <1>23, <1>24, <1>25,
     PassoDe DEF Requisitar, Avisar

(* What the anchor transaction does to the run, the pedido and the tasks.  *)
LEMMA AncorarEfeito ==
  ASSUME TipoInv, NEW r \in Requisicoes, ancorarEtiqueta(r)
  PROVE  /\ requisicoes[r].fase = "ancorar"
         /\ \/ requisicoes' = [requisicoes EXCEPT ![r].fase = "cercar"]
            \/ requisicoes' = [requisicoes EXCEPT ![r] = Parada("liberar")] /\ pedido' = pedido
         /\ \/ pedido' = pedido
            \/ /\ pedido # Nenhum /\ pedido.ancora = Nenhum
               /\ pedido' = [ancora |-> requisicoes[r].etiqueta,
                              estado |-> estadoAoAncorarNovaEtiqueta(pedido.estado)]
         /\ alheio' <=> alheio /\ pedido' = pedido
         /\ UNCHANGED <<agora, claim, ordens, chamadas, soltas, trocas>>
         /\ \A a \in Avisos :
              /\ avisos'[a].fase = avisos[a].fase
              /\ avisos'[a].etiqueta = avisos[a].etiqueta
              /\ avisos'[a].status = avisos[a].status
  BY TipoInv, GravarPedidoEfeito DEF TipoInv, ancorarEtiqueta, PodeAncorar, Vai, Acaba, GravaPelaEtiqueta

(* What a webhook task does to the pedido.                                 *)
LEMMA AvisoGravarEfeito ==
  ASSUME TipoInv, [Next]_vars, NEW a \in Avisos, AvisoGravar(a)
  PROVE  /\ avisos[a].fase = "consultado"
         /\ \/ pedido' = pedido
            \/ /\ avisos[a].intacto /\ ~avisos[a].terminal /\ pedido # Nenhum
               /\ meStatusToEstadoFrete(avisos[a].status) # Nenhum
               /\ pedido' = [ancora |-> pedido.ancora,
                              estado |-> meStatusToEstadoFrete(avisos[a].status)]
         /\ ancoraDe(pedido') = ancoraDe(pedido)
         /\ alheio' <=> alheio /\ pedido' = pedido
         /\ UNCHANGED <<agora, claim, ordens, requisicoes, chamadas, soltas, trocas>>
         /\ \A b \in Avisos : avisos'[b].fase = "consultado" =>
              /\ avisos[b].fase = "consultado"
              /\ avisos'[b].etiqueta = avisos[b].etiqueta
              /\ avisos'[b].status = avisos[b].status
<1>1. pedido # Nenhum => pedido \in Pedido
  BY TipoInv DEF TipoInv, TypeOK
<1>2. avisos[a].intacto => pedido # Nenhum
  BY TipoInv DEF TipoInv, AvisoIntacto
<1>3. \/ pedido' = pedido
      \/ /\ avisos[a].intacto /\ ~avisos[a].terminal
         /\ meStatusToEstadoFrete(avisos[a].status) # Nenhum
         /\ pedido' = [pedido EXCEPT !.estado = meStatusToEstadoFrete(avisos[a].status)]
  BY DEF AvisoGravar, Precondicao
<1>4. \/ pedido' = pedido
      \/ /\ avisos[a].intacto /\ ~avisos[a].terminal /\ pedido # Nenhum
         /\ meStatusToEstadoFrete(avisos[a].status) # Nenhum
         /\ pedido' = [ancora |-> pedido.ancora,
                        estado |-> meStatusToEstadoFrete(avisos[a].status)]
  BY <1>1, <1>2, <1>3 DEF Pedido
<1>5. pedido' # pedido => pedido' # Nenhum
  <2>2. \A x \in Pedido : x # Nenhum
    BY NuloAssumption
  <2>3. pedido' # pedido => pedido' \in Pedido
    <3>1. meStatusToEstadoFrete(avisos[a].status) \in EstadoFrete \cup {Nenhum}
      BY DEF meStatusToEstadoFrete, EstadoFrete
    <3>2. QED
      BY <1>1, <1>4, <3>1 DEF Pedido
  <2>4. QED
    BY <2>2, <2>3
<1>6. ancoraDe(pedido') = ancoraDe(pedido)
  BY <1>4, <1>5 DEF ancoraDe
<1>7. QED
  BY <1>4, <1>6, TipoInv
     DEF TipoInv, TypeOK, AvisoGravar, GravaPelaEtiqueta, Aviso, AvisoParado, ancoraDe

(* The request that leaves, and that nothing else changes.                 *)
LEMMA EnviarEfeito ==
  ASSUME TipoInv, NEW r \in Requisicoes, EnviarPago(r)
  PROVE  \E c \in Chamada :
           /\ c.dono = r /\ c.etapa = Etapa(r) /\ c.etiqueta = requisicoes[r].etiqueta
           /\ c.expira = requisicoes[r].expira
           /\ chamadas' = chamadas \cup {c}
           /\ requisicoes[r].fase = "pagar"
           /\ requisicoes' = [requisicoes EXCEPT ![r].fase = "esperar"]
           /\ \A s \in Requisicoes : Etapa(s)' = Etapa(s)
           /\ UNCHANGED <<agora, claim, pedido, ordens, avisos, soltas, trocas>>
<1> DEFINE c == [dono |-> r, etapa |-> Etapa(r), etiqueta |-> requisicoes[r].etiqueta,
                 expira |-> requisicoes[r].expira]
<1>1. c \in Chamada
  BY TipoInv DEF TipoInv, TypeOK, EtiquetasReais, EnviarPago, Requisicao, Chamada, Etapas,
                 Etapa, ComEtiqueta
<1>2. \A s \in Requisicoes : Etapa(s)' = Etapa(s)
  BY TipoInv DEF TipoInv, TypeOK, EnviarPago, Vai, Requisicao, Etapa
<1>3. QED
  BY <1>1, <1>2 DEF EnviarPago, Vai

(* A request in flight and its run. *)
LEMMA ChamadaPasso ==
  ASSUME TipoInv, ChamadaDoRun, [Next]_vars
  PROVE  ChamadaDoRun'
<1>1. ASSUME Tique
      PROVE  ChamadaDoRun'
  BY CompraAssumption, TipoInv, ChamadaDoRun, <1>1 DEF Tique, TipoInv, TypeOK,
         EtiquetasReais, Requisicao, Ordem, Pedido, Chamada, ComEtiqueta, ancoraDe,
         ChamadaDoRun, Etapa, Parada
<1>2. ASSUME NEW r \in Requisicoes, Chegar(r)
      PROVE  ChamadaDoRun'
  BY CompraAssumption, TipoInv, ChamadaDoRun, <1>2 DEF Chegar, HoraDe, TipoInv, TypeOK,
         EtiquetasReais, Requisicao, Ordem, Pedido, Chamada, ComEtiqueta, ancoraDe,
         ChamadaDoRun, Etapa, Parada
<1>3. ASSUME NEW r \in Requisicoes, adquirirCompraEtiqueta(r)
      PROVE  ChamadaDoRun'
  BY CompraAssumption, TipoInv, ChamadaDoRun, <1>3 DEF adquirirCompraEtiqueta, Ocupado,
         leaseDe, HoraDe, Parada, TipoInv, TypeOK, EtiquetasReais, Requisicao, Ordem,
         Pedido, Chamada, ComEtiqueta, ancoraDe, ChamadaDoRun, Etapa
<1>4. ASSUME NEW r \in Requisicoes, BuscarExistente(r)
      PROVE  ChamadaDoRun'
  BY <1>4 DEF BuscarExistente, Parada, ChamadaDoRun, Etapa
<1>5. ASSUME NEW r \in Requisicoes, NEW e \in Etiquetas, AddToCart(r, e)
      PROVE  ChamadaDoRun'
  BY CompraAssumption, TipoInv, ChamadaDoRun, <1>5 DEF AddToCart, TipoInv, TypeOK,
         EtiquetasReais, Requisicao, Ordem, Pedido, Chamada, ComEtiqueta, ancoraDe,
         ChamadaDoRun, Etapa, Parada
<1>6. ASSUME NEW r \in Requisicoes, ancorarEtiqueta(r)
      PROVE  ChamadaDoRun'
  BY TipoInv, ChamadaDoRun, <1>6, AncorarEfeito
     DEF TipoInv, TypeOK, ChamadaDoRun, Chamada, Requisicao, Etapa, Parada
<1>7. ASSUME NEW r \in Requisicoes, garantirPosseCompraEtiqueta(r)
      PROVE  ChamadaDoRun'
  BY CompraAssumption, TipoInv, ChamadaDoRun, <1>7 DEF garantirPosseCompraEtiqueta,
         PodePagar, Possui, leaseDe, HoraDe, Parada, TipoInv, TypeOK, EtiquetasReais,
         Requisicao, Ordem, Pedido, Chamada, ComEtiqueta, ancoraDe, ChamadaDoRun, Etapa
<1>8. ASSUME NEW r \in Requisicoes, EnviarPago(r)
      PROVE  ChamadaDoRun'
  <2>1. PICK c \in Chamada :
          /\ c.dono = r /\ c.etapa = Etapa(r) /\ c.etiqueta = requisicoes[r].etiqueta
          /\ chamadas' = chamadas \cup {c}
          /\ requisicoes[r].fase = "pagar"
          /\ requisicoes' = [requisicoes EXCEPT ![r].fase = "esperar"]
          /\ \A s \in Requisicoes : Etapa(s)' = Etapa(s)
          /\ ordens' = ordens
    BY <1>8, TipoInv, EnviarEfeito
  <2>2. \A d \in chamadas : d.dono # r
    BY <2>1, ChamadaDoRun DEF ChamadaDoRun
  <2>3. requisicoes[r].resposta = "nenhuma"
    BY <2>1, ChamadaDoRun, TipoInv DEF ChamadaDoRun
  <2>4. /\ requisicoes'[r].fase = "esperar" /\ requisicoes'[r].resposta = "nenhuma"
        /\ requisicoes'[r].etiqueta = requisicoes[r].etiqueta
        /\ \A s \in Requisicoes \ {r} : requisicoes'[s] = requisicoes[s]
    BY <2>1, <2>3, TipoInv DEF TipoInv, TypeOK, Requisicao
  <2>5. ordens[c.etiqueta].existe
    BY <2>1, TipoInv DEF TipoInv, EtiquetasReais, ComEtiqueta
  <2>6. chamadas \subseteq Chamada
    BY TipoInv DEF TipoInv, TypeOK
  <2>7. QED
    BY <2>1, <2>2, <2>4, <2>5, <2>6, ChamadaDoRun DEF ChamadaDoRun, Chamada
<1>9. ASSUME NEW r \in Requisicoes, ReceberResposta(r)
      PROVE  ChamadaDoRun'
  BY CompraAssumption, TipoInv, ChamadaDoRun, <1>9 DEF ReceberResposta, FaseSeguinte, Etapa,
         Parada, TipoInv, TypeOK, EtiquetasReais, Requisicao, Ordem, Pedido, Chamada,
         ComEtiqueta, ancoraDe, ChamadaDoRun
<1>10. ASSUME NEW r \in Requisicoes, EstourarPrazo(r)
      PROVE  ChamadaDoRun'
  BY CompraAssumption, TipoInv, ChamadaDoRun, <1>10 DEF EstourarPrazo, DesfechoIncerto,
         Acaba, Parada, TipoInv, TypeOK, EtiquetasReais, Requisicao, Ordem, Pedido, Chamada,
         ComEtiqueta, ancoraDe, ChamadaDoRun, Etapa
<1>11. ASSUME NEW r \in Requisicoes, Imprimir(r)
      PROVE  ChamadaDoRun'
  BY CompraAssumption, TipoInv, ChamadaDoRun, <1>11 DEF Imprimir, TipoInv, TypeOK,
         EtiquetasReais, Requisicao, Ordem, Pedido, Chamada, ComEtiqueta, ancoraDe,
         ChamadaDoRun, Etapa, Parada
<1>12. ASSUME NEW r \in Requisicoes, finalizarCompraEtiqueta(r)
      PROVE  ChamadaDoRun'
  BY CompraAssumption, TipoInv, ChamadaDoRun, <1>12 DEF finalizarCompraEtiqueta, Vinculada,
         GravarPedido, resolverEstadoFinalCompraEtiqueta, meStatusToEstadoFrete,
         ehEstadoFreteTerminal, SemClaimDe, Acaba, Parada, TipoInv, TypeOK, EtiquetasReais,
         Requisicao, Ordem, Pedido, Chamada, ComEtiqueta, ancoraDe, ChamadaDoRun, Etapa
<1>13. ASSUME NEW r \in Requisicoes, liberarCompraEtiqueta(r)
      PROVE  ChamadaDoRun'
  BY CompraAssumption, TipoInv, ChamadaDoRun, <1>13 DEF liberarCompraEtiqueta, SemClaimDe,
         Acaba, Parada, TipoInv, TypeOK, EtiquetasReais, Requisicao, Ordem, Pedido, Chamada,
         ComEtiqueta, ancoraDe, ChamadaDoRun, Etapa
<1>14. ASSUME NEW r \in Requisicoes, Falhar(r)
      PROVE  ChamadaDoRun'
  BY CompraAssumption, TipoInv, ChamadaDoRun, <1>14 DEF Falhar, Acaba, Parada, TipoInv,
         TypeOK, EtiquetasReais, Requisicao, Ordem, Pedido, Chamada, ComEtiqueta, ancoraDe,
         ChamadaDoRun, Etapa
<1>15. ASSUME NEW r \in Requisicoes, Congelar(r)
      PROVE  ChamadaDoRun'
  BY CompraAssumption, TipoInv, ChamadaDoRun, <1>15 DEF Congelar, EmChamadaPaga, TipoInv,
         TypeOK, EtiquetasReais, Requisicao, Ordem, Pedido, Chamada, ComEtiqueta, ancoraDe,
         ChamadaDoRun, Etapa, Parada
<1>16. ASSUME NEW r \in Requisicoes, Morrer(r)
      PROVE  ChamadaDoRun'
  BY CompraAssumption, TipoInv, ChamadaDoRun, <1>16 DEF Morrer, Acaba, Parada, TipoInv,
         TypeOK, EtiquetasReais, Requisicao, Ordem, Pedido, Chamada, ComEtiqueta, ancoraDe,
         ChamadaDoRun, Etapa
<1>17. ASSUME NEW c \in chamadas, ProvedorAtende(c)
      PROVE  ChamadaDoRun'
  BY <1>17 DEF ProvedorAtende, TipoInv, TypeOK, Chamada, ChamadaDoRun, Etapa
<1>18. ASSUME NEW e \in Etiquetas, ProvedorMuda(e)
      PROVE  ChamadaDoRun'
  BY CompraAssumption, TipoInv, ChamadaDoRun, <1>18 DEF ProvedorMuda, TipoInv, TypeOK,
         EtiquetasReais, Requisicao, Ordem, Pedido, Chamada, ComEtiqueta, ancoraDe,
         ChamadaDoRun, Etapa, Parada
<1>19. ASSUME NEW a \in Avisos, AvisoLer(a)
      PROVE  ChamadaDoRun'
  BY CompraAssumption, TipoInv, ChamadaDoRun, <1>19 DEF AvisoLer, ancoraDe, TipoInv, TypeOK,
         EtiquetasReais, Requisicao, Ordem, Pedido, Chamada, ComEtiqueta, ChamadaDoRun,
         Etapa, Parada
<1>20. ASSUME NEW a \in Avisos, AvisoConsultar(a)
      PROVE  ChamadaDoRun'
  BY CompraAssumption, TipoInv, ChamadaDoRun, <1>20 DEF AvisoConsultar, TipoInv, TypeOK,
         EtiquetasReais, Requisicao, Ordem, Pedido, Chamada, ComEtiqueta, ancoraDe,
         ChamadaDoRun, Etapa, Parada
<1>21. ASSUME NEW a \in Avisos, AvisoGravar(a)
      PROVE  ChamadaDoRun'
  BY CompraAssumption, TipoInv, ChamadaDoRun, <1>21 DEF AvisoGravar, Precondicao,
         AvisoParado, meStatusToEstadoFrete, TipoInv, TypeOK, EtiquetasReais, Requisicao,
         Ordem, Pedido, Chamada, ComEtiqueta, ancoraDe, ChamadaDoRun, Etapa, Parada
<1>22. ASSUME NEW estado \in EstadosEscolhidos, OnIntegracaoChange(estado)
      PROVE  ChamadaDoRun'
  BY CompraAssumption, TipoInv, ChamadaDoRun, <1>22 DEF OnIntegracaoChange, Soltar,
         GravarPedido, ancoraDe, TipoInv, TypeOK, EtiquetasReais, Requisicao, Ordem, Pedido,
         Chamada, ComEtiqueta, ChamadaDoRun, Etapa, Parada
<1>23. ASSUME ExcluirPedido
      PROVE  ChamadaDoRun'
  BY CompraAssumption, TipoInv, ChamadaDoRun, <1>23 DEF ExcluirPedido, Soltar, GravarPedido,
         ancoraDe, TipoInv, TypeOK, EtiquetasReais, Requisicao, Ordem, Pedido, Chamada,
         ComEtiqueta, ChamadaDoRun, Etapa, Parada
<1>24. CASE UNCHANGED vars
  BY CompraAssumption, TipoInv, ChamadaDoRun, <1>24 DEF vars, TipoInv, TypeOK,
         EtiquetasReais, Requisicao, Ordem, Pedido, Chamada, ComEtiqueta, ancoraDe,
         ChamadaDoRun, Etapa, Parada
<1>25. ASSUME NEW estado \in EstadoFrete, GravarEstado(estado)
      PROVE  ChamadaDoRun'
  BY TipoInv, ChamadaDoRun, <1>25, GravarEstadoEfeito DEF ChamadaDoRun, Etapa
<1>26. QED
  BY <1>1, <1>2, <1>3, <1>4, <1>5, <1>6, <1>7, <1>8, <1>9, <1>10, <1>11, <1>12, <1>13,
     <1>14, <1>15, <1>16, <1>17, <1>18, <1>19, <1>20, <1>21, <1>22, <1>23, <1>24, <1>25,
     PassoDe DEF Requisitar, Avisar

(* A label not anchored yet. *)
LEMMA CarrinhoPasso ==
  ASSUME TipoInv, ChamadaDoRun, CarrinhoNovo, [Next]_vars
  PROVE  CarrinhoNovo'
<1>1. ASSUME Tique
      PROVE  CarrinhoNovo'
  BY CompraAssumption, TipoInv, ChamadaDoRun, CarrinhoNovo, <1>1 DEF Tique, TipoInv, TypeOK,
         EtiquetasReais, Requisicao, Ordem, Pedido, Chamada, ComEtiqueta, ancoraDe,
         ChamadaDoRun, CarrinhoNovo
<1>2. ASSUME NEW r \in Requisicoes, Chegar(r)
      PROVE  CarrinhoNovo'
  BY CompraAssumption, TipoInv, ChamadaDoRun, CarrinhoNovo, <1>2 DEF Chegar, HoraDe,
         TipoInv, TypeOK, EtiquetasReais, Requisicao, Ordem, Pedido, Chamada, ComEtiqueta,
         ancoraDe, ChamadaDoRun, CarrinhoNovo
<1>3. ASSUME NEW r \in Requisicoes, adquirirCompraEtiqueta(r)
      PROVE  CarrinhoNovo'
  BY CompraAssumption, TipoInv, ChamadaDoRun, CarrinhoNovo, <1>3 DEF adquirirCompraEtiqueta,
         Ocupado, leaseDe, HoraDe, Parada, TipoInv, TypeOK, EtiquetasReais, Requisicao,
         Ordem, Pedido, Chamada, ComEtiqueta, ancoraDe, ChamadaDoRun, CarrinhoNovo
<1>4. ASSUME NEW r \in Requisicoes, BuscarExistente(r)
      PROVE  CarrinhoNovo'
  BY <1>4 DEF BuscarExistente, FaseSeguinte, Parada, TipoInv, EtiquetasReais, ComEtiqueta,
     CarrinhoNovo
<1>5. ASSUME NEW r \in Requisicoes, NEW e \in Etiquetas, AddToCart(r, e)
      PROVE  CarrinhoNovo'
  BY CompraAssumption, TipoInv, ChamadaDoRun, CarrinhoNovo, <1>5 DEF AddToCart, TipoInv,
         TypeOK, EtiquetasReais, Requisicao, Ordem, Pedido, Chamada, ComEtiqueta, ancoraDe,
         ChamadaDoRun, CarrinhoNovo
<1>6. ASSUME NEW r \in Requisicoes, ancorarEtiqueta(r)
      PROVE  CarrinhoNovo'
  BY TipoInv, CarrinhoNovo, <1>6, AncorarEfeito
     DEF TipoInv, TypeOK, CarrinhoNovo, EtiquetasReais, Requisicao, Chamada, Parada, ancoraDe,
         ComEtiqueta
<1>7. ASSUME NEW r \in Requisicoes, garantirPosseCompraEtiqueta(r)
      PROVE  CarrinhoNovo'
  BY CompraAssumption, TipoInv, ChamadaDoRun, CarrinhoNovo, <1>7 DEF
         garantirPosseCompraEtiqueta, PodePagar, Possui, leaseDe, HoraDe, Parada, TipoInv,
         TypeOK, EtiquetasReais, Requisicao, Ordem, Pedido, Chamada, ComEtiqueta, ancoraDe,
         ChamadaDoRun, CarrinhoNovo
<1>8. ASSUME NEW r \in Requisicoes, EnviarPago(r)
      PROVE  CarrinhoNovo'
  BY CompraAssumption, TipoInv, ChamadaDoRun, CarrinhoNovo, <1>8 DEF EnviarPago, Vai, Etapa,
         TipoInv, TypeOK, EtiquetasReais, Requisicao, Ordem, Pedido, Chamada, ComEtiqueta,
         ancoraDe, ChamadaDoRun, CarrinhoNovo
<1>9. ASSUME NEW r \in Requisicoes, ReceberResposta(r)
      PROVE  CarrinhoNovo'
  BY CompraAssumption, TipoInv, ChamadaDoRun, CarrinhoNovo, <1>9 DEF ReceberResposta,
         FaseSeguinte, Etapa, Parada, TipoInv, TypeOK, EtiquetasReais, Requisicao, Ordem,
         Pedido, Chamada, ComEtiqueta, ancoraDe, ChamadaDoRun, CarrinhoNovo
<1>10. ASSUME NEW r \in Requisicoes, EstourarPrazo(r)
      PROVE  CarrinhoNovo'
  BY CompraAssumption, TipoInv, ChamadaDoRun, CarrinhoNovo, <1>10 DEF EstourarPrazo,
         DesfechoIncerto, Acaba, Parada, TipoInv, TypeOK, EtiquetasReais, Requisicao, Ordem,
         Pedido, Chamada, ComEtiqueta, ancoraDe, ChamadaDoRun, CarrinhoNovo
<1>11. ASSUME NEW r \in Requisicoes, Imprimir(r)
      PROVE  CarrinhoNovo'
  BY CompraAssumption, TipoInv, ChamadaDoRun, CarrinhoNovo, <1>11 DEF Imprimir, TipoInv,
         TypeOK, EtiquetasReais, Requisicao, Ordem, Pedido, Chamada, ComEtiqueta, ancoraDe,
         ChamadaDoRun, CarrinhoNovo
<1>12. ASSUME NEW r \in Requisicoes, finalizarCompraEtiqueta(r)
      PROVE  CarrinhoNovo'
  BY CompraAssumption, TipoInv, ChamadaDoRun, CarrinhoNovo, <1>12 DEF
         finalizarCompraEtiqueta, Vinculada, GravarPedido,
         resolverEstadoFinalCompraEtiqueta, meStatusToEstadoFrete, ehEstadoFreteTerminal,
         SemClaimDe, Acaba, Parada, TipoInv, TypeOK, EtiquetasReais, Requisicao, Ordem,
         Pedido, Chamada, ComEtiqueta, ancoraDe, ChamadaDoRun, CarrinhoNovo
<1>13. ASSUME NEW r \in Requisicoes, liberarCompraEtiqueta(r)
      PROVE  CarrinhoNovo'
  BY CompraAssumption, TipoInv, ChamadaDoRun, CarrinhoNovo, <1>13 DEF liberarCompraEtiqueta,
         SemClaimDe, Acaba, Parada, TipoInv, TypeOK, EtiquetasReais, Requisicao, Ordem,
         Pedido, Chamada, ComEtiqueta, ancoraDe, ChamadaDoRun, CarrinhoNovo
<1>14. ASSUME NEW r \in Requisicoes, Falhar(r)
      PROVE  CarrinhoNovo'
  BY CompraAssumption, TipoInv, ChamadaDoRun, CarrinhoNovo, <1>14 DEF Falhar, Acaba, Parada,
         TipoInv, TypeOK, EtiquetasReais, Requisicao, Ordem, Pedido, Chamada, ComEtiqueta,
         ancoraDe, ChamadaDoRun, CarrinhoNovo
<1>15. ASSUME NEW r \in Requisicoes, Congelar(r)
      PROVE  CarrinhoNovo'
  BY CompraAssumption, TipoInv, ChamadaDoRun, CarrinhoNovo, <1>15 DEF Congelar,
         EmChamadaPaga, TipoInv, TypeOK, EtiquetasReais, Requisicao, Ordem, Pedido, Chamada,
         ComEtiqueta, ancoraDe, ChamadaDoRun, CarrinhoNovo
<1>16. ASSUME NEW r \in Requisicoes, Morrer(r)
      PROVE  CarrinhoNovo'
  BY CompraAssumption, TipoInv, ChamadaDoRun, CarrinhoNovo, <1>16 DEF Morrer, Acaba, Parada,
         TipoInv, TypeOK, EtiquetasReais, Requisicao, Ordem, Pedido, Chamada, ComEtiqueta,
         ancoraDe, ChamadaDoRun, CarrinhoNovo
<1>17. ASSUME NEW c \in chamadas, ProvedorAtende(c)
      PROVE  CarrinhoNovo'
  BY <1>17 DEF ProvedorAtende, TipoInv, TypeOK, EtiquetasReais, Requisicao, ComEtiqueta,
     CarrinhoNovo
<1>18. ASSUME NEW e \in Etiquetas, ProvedorMuda(e)
      PROVE  CarrinhoNovo'
  BY CompraAssumption, TipoInv, ChamadaDoRun, CarrinhoNovo, <1>18 DEF ProvedorMuda, TipoInv,
         TypeOK, EtiquetasReais, Requisicao, Ordem, Pedido, Chamada, ComEtiqueta, ancoraDe,
         ChamadaDoRun, CarrinhoNovo
<1>19. ASSUME NEW a \in Avisos, AvisoLer(a)
      PROVE  CarrinhoNovo'
  BY CompraAssumption, TipoInv, ChamadaDoRun, CarrinhoNovo, <1>19 DEF AvisoLer, ancoraDe,
         TipoInv, TypeOK, EtiquetasReais, Requisicao, Ordem, Pedido, Chamada, ComEtiqueta,
         ChamadaDoRun, CarrinhoNovo
<1>20. ASSUME NEW a \in Avisos, AvisoConsultar(a)
      PROVE  CarrinhoNovo'
  BY CompraAssumption, TipoInv, ChamadaDoRun, CarrinhoNovo, <1>20 DEF AvisoConsultar,
         TipoInv, TypeOK, EtiquetasReais, Requisicao, Ordem, Pedido, Chamada, ComEtiqueta,
         ancoraDe, ChamadaDoRun, CarrinhoNovo
<1>21. ASSUME NEW a \in Avisos, AvisoGravar(a)
      PROVE  CarrinhoNovo'
  BY TipoInv, CarrinhoNovo, <1>21, AvisoGravarEfeito DEF CarrinhoNovo
<1>22. ASSUME NEW estado \in EstadosEscolhidos, OnIntegracaoChange(estado)
      PROVE  CarrinhoNovo'
  BY CompraAssumption, TipoInv, ChamadaDoRun, CarrinhoNovo, <1>22 DEF OnIntegracaoChange,
         Soltar, GravarPedido, ancoraDe, TipoInv, TypeOK, EtiquetasReais, Requisicao, Ordem,
         Pedido, Chamada, ComEtiqueta, ChamadaDoRun, CarrinhoNovo
<1>23. ASSUME ExcluirPedido
      PROVE  CarrinhoNovo'
  BY CompraAssumption, TipoInv, ChamadaDoRun, CarrinhoNovo, <1>23 DEF ExcluirPedido, Soltar,
         GravarPedido, ancoraDe, TipoInv, TypeOK, EtiquetasReais, Requisicao, Ordem, Pedido,
         Chamada, ComEtiqueta, ChamadaDoRun, CarrinhoNovo
<1>24. CASE UNCHANGED vars
  BY CompraAssumption, TipoInv, ChamadaDoRun, CarrinhoNovo, <1>24 DEF vars, TipoInv, TypeOK,
         EtiquetasReais, Requisicao, Ordem, Pedido, Chamada, ComEtiqueta, ancoraDe,
         ChamadaDoRun, CarrinhoNovo
<1>25. ASSUME NEW estado \in EstadoFrete, GravarEstado(estado)
      PROVE  CarrinhoNovo'
  BY TipoInv, CarrinhoNovo, <1>25, GravarEstadoEfeito DEF CarrinhoNovo
<1>26. QED
  BY <1>1, <1>2, <1>3, <1>4, <1>5, <1>6, <1>7, <1>8, <1>9, <1>10, <1>11, <1>12, <1>13,
     <1>14, <1>15, <1>16, <1>17, <1>18, <1>19, <1>20, <1>21, <1>22, <1>23, <1>24, <1>25,
     PassoDe DEF Requisitar, Avisar

(* What a run knows. *)
LEMMA ConhecePasso ==
  ASSUME TipoInv, ChamadaDoRun, ConheceOrdem, [Next]_vars
  PROVE  ConheceOrdem'
<1>1. ASSUME Tique
      PROVE  ConheceOrdem'
  BY CompraAssumption, TipoInv, ChamadaDoRun, ConheceOrdem, <1>1 DEF Tique, TipoInv, TypeOK,
         EtiquetasReais, Requisicao, Ordem, Pedido, Chamada, ComEtiqueta, ancoraDe,
         ChamadaDoRun, ConheceOrdem, Etapa
<1>2. ASSUME NEW r \in Requisicoes, Chegar(r)
      PROVE  ConheceOrdem'
  BY <1>2 DEF Chegar, TipoInv, TypeOK, ConheceOrdem, Etapa
<1>3. ASSUME NEW r \in Requisicoes, adquirirCompraEtiqueta(r)
      PROVE  ConheceOrdem'
  BY CompraAssumption, TipoInv, ChamadaDoRun, ConheceOrdem, <1>3 DEF adquirirCompraEtiqueta,
         Ocupado, leaseDe, HoraDe, Parada, TipoInv, TypeOK, EtiquetasReais, Requisicao,
         Ordem, Pedido, Chamada, ComEtiqueta, ancoraDe, ChamadaDoRun, ConheceOrdem, Etapa
<1>4. ASSUME NEW r \in Requisicoes, BuscarExistente(r)
      PROVE  ConheceOrdem'
  <2> DEFINE q == requisicoes[r]
             o == ordens[q.etiqueta]
  <2>1. q \in Requisicao /\ requisicoes \in [Requisicoes -> Requisicao]
    BY TipoInv DEF TipoInv, TypeOK
  <2>2. UNCHANGED ordens /\ q.resposta = "nenhuma"
    BY <1>4, ChamadaDoRun DEF BuscarExistente, ChamadaDoRun
  <2>3. \A s \in Requisicoes \ {r} : requisicoes'[s] = requisicoes[s]
    BY <1>4, <2>1 DEF BuscarExistente
  <2>4. \/ requisicoes'[r] = Parada("liberar")
        \/ requisicoes'[r] = [q EXCEPT !.fase = FaseSeguinte(o.pago, o.gerado),
                                       !.pago = o.pago, !.gerado = o.gerado]
    BY <1>4, <2>1 DEF BuscarExistente
  <2>5. LET n == requisicoes'[r]
        IN /\ n.resposta = "nenhuma"
           /\ n.pago => ordens[n.etiqueta].pago
           /\ n.gerado => ordens[n.etiqueta].gerado
           /\ n.fase \in {"imprimir", "finalizar"} => n.pago /\ n.gerado
    <3>1. CASE requisicoes'[r] = Parada("liberar")
      BY <3>1 DEF Parada
    <3>2. CASE requisicoes'[r] # Parada("liberar")
      <4>1. LET n == requisicoes'[r]
            IN /\ n.resposta = "nenhuma" /\ n.etiqueta = q.etiqueta
               /\ n.pago = o.pago /\ n.gerado = o.gerado
               /\ n.fase = FaseSeguinte(o.pago, o.gerado)
        BY <2>1, <2>2, <2>4, <3>2 DEF Requisicao
      <4>2. FaseSeguinte(o.pago, o.gerado) \in {"imprimir", "finalizar"} => o.pago /\ o.gerado
        BY DEF FaseSeguinte
      <4>3. QED
        BY <4>1, <4>2
    <3>3. QED
      BY <3>1, <3>2
  <2>6. QED
    BY <2>2, <2>3, <2>5, ConheceOrdem DEF ConheceOrdem, Etapa
<1>5. ASSUME NEW r \in Requisicoes, NEW e \in Etiquetas, AddToCart(r, e)
      PROVE  ConheceOrdem'
  BY CompraAssumption, TipoInv, ChamadaDoRun, ConheceOrdem, <1>5 DEF AddToCart, TipoInv,
         TypeOK, EtiquetasReais, Requisicao, Ordem, Pedido, Chamada, ComEtiqueta, ancoraDe,
         ChamadaDoRun, ConheceOrdem, Etapa
<1>6. ASSUME NEW r \in Requisicoes, ancorarEtiqueta(r)
      PROVE  ConheceOrdem'
  BY <1>6, AncorarEfeito DEF TipoInv, TypeOK, ConheceOrdem, Requisicao, Parada, Etapa
<1>7. ASSUME NEW r \in Requisicoes, garantirPosseCompraEtiqueta(r)
      PROVE  ConheceOrdem'
  BY <1>7 DEF garantirPosseCompraEtiqueta, Parada, ConheceOrdem, Etapa
<1>8. ASSUME NEW r \in Requisicoes, EnviarPago(r)
      PROVE  ConheceOrdem'
  <2>1. /\ requisicoes[r].fase = "pagar"
        /\ requisicoes' = [requisicoes EXCEPT ![r].fase = "esperar"]
        /\ ordens' = ordens
    BY <1>8 DEF EnviarPago, Vai
  <2>2. requisicoes[r].resposta = "nenhuma"
    BY <2>1, ChamadaDoRun DEF ChamadaDoRun
  <2>3. QED
    BY TipoInv, ConheceOrdem, <2>1, <2>2
       DEF TipoInv, TypeOK, ConheceOrdem, Requisicao, Etapa
<1>9. ASSUME NEW r \in Requisicoes, ReceberResposta(r)
      PROVE  ConheceOrdem'
  BY CompraAssumption, TipoInv, ChamadaDoRun, ConheceOrdem, <1>9 DEF ReceberResposta,
         FaseSeguinte, Etapa, Parada, TipoInv, TypeOK, EtiquetasReais, Requisicao, Ordem,
         Pedido, Chamada, ComEtiqueta, ancoraDe, ChamadaDoRun, ConheceOrdem
<1>10. ASSUME NEW r \in Requisicoes, EstourarPrazo(r)
      PROVE  ConheceOrdem'
  BY CompraAssumption, TipoInv, ChamadaDoRun, ConheceOrdem, <1>10 DEF EstourarPrazo,
         DesfechoIncerto, Acaba, Parada, TipoInv, TypeOK, EtiquetasReais, Requisicao, Ordem,
         Pedido, Chamada, ComEtiqueta, ancoraDe, ChamadaDoRun, ConheceOrdem, Etapa
<1>11. ASSUME NEW r \in Requisicoes, Imprimir(r)
      PROVE  ConheceOrdem'
  BY CompraAssumption, TipoInv, ChamadaDoRun, ConheceOrdem, <1>11 DEF Imprimir, TipoInv,
         TypeOK, EtiquetasReais, Requisicao, Ordem, Pedido, Chamada, ComEtiqueta, ancoraDe,
         ChamadaDoRun, ConheceOrdem, Etapa
<1>12. ASSUME NEW r \in Requisicoes, finalizarCompraEtiqueta(r)
      PROVE  ConheceOrdem'
  BY CompraAssumption, TipoInv, ChamadaDoRun, ConheceOrdem, <1>12 DEF
         finalizarCompraEtiqueta, Vinculada, GravarPedido,
         resolverEstadoFinalCompraEtiqueta, meStatusToEstadoFrete, ehEstadoFreteTerminal,
         SemClaimDe, Acaba, Parada, TipoInv, TypeOK, EtiquetasReais, Requisicao, Ordem,
         Pedido, Chamada, ComEtiqueta, ancoraDe, ChamadaDoRun, ConheceOrdem, Etapa
<1>13. ASSUME NEW r \in Requisicoes, liberarCompraEtiqueta(r)
      PROVE  ConheceOrdem'
  BY CompraAssumption, TipoInv, ChamadaDoRun, ConheceOrdem, <1>13 DEF liberarCompraEtiqueta,
         SemClaimDe, Acaba, Parada, TipoInv, TypeOK, EtiquetasReais, Requisicao, Ordem,
         Pedido, Chamada, ComEtiqueta, ancoraDe, ChamadaDoRun, ConheceOrdem, Etapa
<1>14. ASSUME NEW r \in Requisicoes, Falhar(r)
      PROVE  ConheceOrdem'
  BY CompraAssumption, TipoInv, ChamadaDoRun, ConheceOrdem, <1>14 DEF Falhar, Acaba, Parada,
         TipoInv, TypeOK, EtiquetasReais, Requisicao, Ordem, Pedido, Chamada, ComEtiqueta,
         ancoraDe, ChamadaDoRun, ConheceOrdem, Etapa
<1>15. ASSUME NEW r \in Requisicoes, Congelar(r)
      PROVE  ConheceOrdem'
  BY CompraAssumption, TipoInv, ChamadaDoRun, ConheceOrdem, <1>15 DEF Congelar,
         EmChamadaPaga, TipoInv, TypeOK, EtiquetasReais, Requisicao, Ordem, Pedido, Chamada,
         ComEtiqueta, ancoraDe, ChamadaDoRun, ConheceOrdem, Etapa
<1>16. ASSUME NEW r \in Requisicoes, Morrer(r)
      PROVE  ConheceOrdem'
  BY CompraAssumption, TipoInv, ChamadaDoRun, ConheceOrdem, <1>16 DEF Morrer, Acaba, Parada,
         TipoInv, TypeOK, EtiquetasReais, Requisicao, Ordem, Pedido, Chamada, ComEtiqueta,
         ancoraDe, ChamadaDoRun, ConheceOrdem, Etapa
<1>17. ASSUME NEW c \in chamadas, ProvedorAtende(c)
      PROVE  ConheceOrdem'
  <2>1. /\ \A e \in Etiquetas : /\ ordens[e].pago => ordens'[e].pago
                                /\ ordens[e].gerado => ordens'[e].gerado
        /\ Aceita(c) => IF c.etapa = "checkout" THEN ordens'[c.etiqueta].pago
                        ELSE ordens'[c.etiqueta].gerado
    BY TipoInv, <1>17 DEF TipoInv, TypeOK, Chamada, Ordem, ProvedorAtende
  <2>2. \A s \in Requisicoes :
          /\ requisicoes'[s].fase = requisicoes[s].fase
          /\ requisicoes'[s].etiqueta = requisicoes[s].etiqueta
          /\ requisicoes'[s].pago = requisicoes[s].pago
          /\ requisicoes'[s].gerado = requisicoes[s].gerado
          /\ Etapa(s)' = Etapa(s)
          /\ requisicoes'[s].resposta = requisicoes[s].resposta \/ s = c.dono
    BY TipoInv, <1>17 DEF TipoInv, TypeOK, Requisicao, ProvedorAtende, Etapa
  <2>3. /\ requisicoes[c.dono].fase = "esperar" =>
             /\ requisicoes'[c.dono].resposta = "aceita" => Aceita(c)
             /\ requisicoes[c.dono].etiqueta = c.etiqueta
             /\ Etapa(c.dono) = c.etapa
    BY TipoInv, ChamadaDoRun, <1>17
       DEF TipoInv, TypeOK, Requisicao, Chamada, ProvedorAtende, ChamadaDoRun
  <2>4. \A s \in Requisicoes : requisicoes[s].fase \in ComEtiqueta =>
          requisicoes[s].etiqueta \in Etiquetas
    BY TipoInv DEF TipoInv, TypeOK, EtiquetasReais, Requisicao
  <2>5. \A s \in Requisicoes : requisicoes[s].pago \/ requisicoes[s].gerado =>
          requisicoes[s].fase \in ComEtiqueta
    BY TipoInv DEF TipoInv, EtiquetasReais
  <2>6. ASSUME NEW s \in Requisicoes
        PROVE  LET q == requisicoes'[s]
               IN /\ q.pago => ordens'[q.etiqueta].pago
                  /\ q.gerado => ordens'[q.etiqueta].gerado
                  /\ q.fase \in {"imprimir", "finalizar"} => q.pago /\ q.gerado
    BY ConheceOrdem, <2>1, <2>2, <2>4, <2>5 DEF ConheceOrdem
  <2>7. ASSUME NEW s \in Requisicoes, requisicoes'[s].resposta = "aceita"
        PROVE  IF Etapa(s)' = "checkout" THEN ordens'[requisicoes'[s].etiqueta].pago
               ELSE ordens'[requisicoes'[s].etiqueta].gerado
    <3>1. CASE requisicoes[s].resposta = "aceita"
      <4>1. requisicoes[s].fase = "esperar"
        BY <3>1, ChamadaDoRun DEF ChamadaDoRun
      <4>2. QED
        BY ConheceOrdem, <2>1, <2>2, <2>4, <3>1, <4>1 DEF ConheceOrdem, ComEtiqueta
    <3>2. CASE requisicoes[s].resposta # "aceita"
      <4>1. s = c.dono /\ requisicoes[s].fase = "esperar"
        BY <2>2, <2>7, <3>2, <1>17, TipoInv DEF ProvedorAtende
      <4>2. QED
        BY <2>1, <2>2, <2>3, <2>7, <4>1
    <3>3. QED
      BY <3>1, <3>2
  <2>8. QED
    BY <2>6, <2>7 DEF ConheceOrdem
<1>18. ASSUME NEW e \in Etiquetas, ProvedorMuda(e)
      PROVE  ConheceOrdem'
  BY CompraAssumption, TipoInv, ChamadaDoRun, ConheceOrdem, <1>18 DEF ProvedorMuda, TipoInv,
         TypeOK, EtiquetasReais, Requisicao, Ordem, Pedido, Chamada, ComEtiqueta, ancoraDe,
         ChamadaDoRun, ConheceOrdem, Etapa
<1>19. ASSUME NEW a \in Avisos, AvisoLer(a)
      PROVE  ConheceOrdem'
  BY CompraAssumption, TipoInv, ChamadaDoRun, ConheceOrdem, <1>19 DEF AvisoLer, ancoraDe,
         TipoInv, TypeOK, EtiquetasReais, Requisicao, Ordem, Pedido, Chamada, ComEtiqueta,
         ChamadaDoRun, ConheceOrdem, Etapa
<1>20. ASSUME NEW a \in Avisos, AvisoConsultar(a)
      PROVE  ConheceOrdem'
  BY CompraAssumption, TipoInv, ChamadaDoRun, ConheceOrdem, <1>20 DEF AvisoConsultar,
         TipoInv, TypeOK, EtiquetasReais, Requisicao, Ordem, Pedido, Chamada, ComEtiqueta,
         ancoraDe, ChamadaDoRun, ConheceOrdem, Etapa
<1>21. ASSUME NEW a \in Avisos, AvisoGravar(a)
      PROVE  ConheceOrdem'
  BY CompraAssumption, TipoInv, ChamadaDoRun, ConheceOrdem, <1>21 DEF AvisoGravar,
         Precondicao, AvisoParado, meStatusToEstadoFrete, TipoInv, TypeOK, EtiquetasReais,
         Requisicao, Ordem, Pedido, Chamada, ComEtiqueta, ancoraDe, ChamadaDoRun,
         ConheceOrdem, Etapa
<1>22. ASSUME NEW estado \in EstadosEscolhidos, OnIntegracaoChange(estado)
      PROVE  ConheceOrdem'
  BY CompraAssumption, TipoInv, ChamadaDoRun, ConheceOrdem, <1>22 DEF OnIntegracaoChange,
         Soltar, GravarPedido, ancoraDe, TipoInv, TypeOK, EtiquetasReais, Requisicao, Ordem,
         Pedido, Chamada, ComEtiqueta, ChamadaDoRun, ConheceOrdem, Etapa
<1>23. ASSUME ExcluirPedido
      PROVE  ConheceOrdem'
  BY CompraAssumption, TipoInv, ChamadaDoRun, ConheceOrdem, <1>23 DEF ExcluirPedido, Soltar,
         GravarPedido, ancoraDe, TipoInv, TypeOK, EtiquetasReais, Requisicao, Ordem, Pedido,
         Chamada, ComEtiqueta, ChamadaDoRun, ConheceOrdem, Etapa
<1>24. CASE UNCHANGED vars
  BY CompraAssumption, TipoInv, ChamadaDoRun, ConheceOrdem, <1>24 DEF vars, TipoInv, TypeOK,
         EtiquetasReais, Requisicao, Ordem, Pedido, Chamada, ComEtiqueta, ancoraDe,
         ChamadaDoRun, ConheceOrdem, Etapa
<1>25. ASSUME NEW estado \in EstadoFrete, GravarEstado(estado)
      PROVE  ConheceOrdem'
  BY TipoInv, ConheceOrdem, <1>25, GravarEstadoEfeito DEF ConheceOrdem, Etapa
<1>26. QED
  BY <1>1, <1>2, <1>3, <1>4, <1>5, <1>6, <1>7, <1>8, <1>9, <1>10, <1>11, <1>12, <1>13,
     <1>14, <1>15, <1>16, <1>17, <1>18, <1>19, <1>20, <1>21, <1>22, <1>23, <1>24, <1>25,
     PassoDe DEF Requisitar, Avisar

(* What the finalize transaction does.                                     *)
LEMMA FinalizarEfeito ==
  ASSUME TipoInv, NEW r \in Requisicoes, finalizarCompraEtiqueta(r)
  PROVE  /\ requisicoes[r].fase = "finalizar"
         /\ \/ pedido' = pedido
            \/ /\ pedido # Nenhum /\ pedido' # Nenhum
               /\ pedido.ancora = requisicoes[r].etiqueta
               /\ pedido' = [ancora |-> pedido.ancora,
                              estado |-> resolverEstadoFinalCompraEtiqueta(
                                           pedido.estado, requisicoes[r].status)]
         /\ requisicoes' = [requisicoes EXCEPT
              ![r] = Parada(IF Vinculada(r) THEN "sucesso" ELSE "fim")]
         /\ claim' = SemClaimDe(r)
         /\ ancoraDe(pedido') = ancoraDe(pedido)
         /\ alheio' <=> alheio /\ pedido' = pedido
         /\ UNCHANGED <<agora, ordens, chamadas, soltas, trocas>>
         /\ \A a \in Avisos :
              /\ avisos'[a].fase = avisos[a].fase
              /\ avisos'[a].etiqueta = avisos[a].etiqueta
              /\ avisos'[a].status = avisos[a].status
<1>1. pedido # Nenhum => pedido \in Pedido
  BY TipoInv DEF TipoInv, TypeOK
<1>2. \/ pedido' = pedido
      \/ /\ pedido # Nenhum /\ pedido.ancora = requisicoes[r].etiqueta
         /\ pedido' = [pedido EXCEPT !.estado =
                         resolverEstadoFinalCompraEtiqueta(@, requisicoes[r].status)]
  BY TipoInv, GravarPedidoEfeito DEF TipoInv, finalizarCompraEtiqueta, Vinculada
<1>3. pedido # Nenhum => resolverEstadoFinalCompraEtiqueta(pedido.estado, requisicoes[r].status)
                           \in EstadoFrete
  BY <1>1 DEF Pedido, resolverEstadoFinalCompraEtiqueta, meStatusToEstadoFrete, EstadoFrete
<1>4. \A x \in Pedido : x # Nenhum
  BY NuloAssumption
<1>5. \/ pedido' = pedido
      \/ /\ pedido # Nenhum /\ pedido' # Nenhum
         /\ pedido.ancora = requisicoes[r].etiqueta
         /\ pedido' = [ancora |-> pedido.ancora,
                        estado |-> resolverEstadoFinalCompraEtiqueta(
                                     pedido.estado, requisicoes[r].status)]
  BY <1>1, <1>2, <1>3, <1>4 DEF Pedido
<1>6. ancoraDe(pedido') = ancoraDe(pedido)
  BY <1>5 DEF ancoraDe
<1>7. QED
  BY <1>5, <1>6, TipoInv, GravarPedidoEfeito DEF TipoInv, finalizarCompraEtiqueta,
     GravaPelaEtiqueta, Acaba

(* Only the fence authorises a label, and only the anchored one; only an   *)
(* operator detaches an authorised one.                                    *)
LEMMA AutorizadaPasso ==
  ASSUME TipoInv, ChamadaDoRun, CarrinhoNovo, AutorizadaPresa, [Next]_vars
  PROVE  AutorizadaPresa'
<1>1. ASSUME Tique
      PROVE  AutorizadaPresa'
  BY CompraAssumption, TipoInv, AutorizadaPresa, <1>1 DEF Tique, TipoInv, TypeOK,
         Requisicao, Ordem, Chamada, AutorizadaPresa, Autorizada, EmChamadaPaga, Etapa,
         Parada, ancoraDe
<1>2. ASSUME NEW r \in Requisicoes, Chegar(r)
      PROVE  AutorizadaPresa'
  BY CompraAssumption, TipoInv, AutorizadaPresa, <1>2 DEF Chegar, HoraDe, TipoInv, TypeOK,
         Requisicao, Ordem, Chamada, AutorizadaPresa, Autorizada, EmChamadaPaga, Etapa,
         Parada, ancoraDe
<1>3. ASSUME NEW r \in Requisicoes, adquirirCompraEtiqueta(r)
      PROVE  AutorizadaPresa'
  BY CompraAssumption, TipoInv, AutorizadaPresa, <1>3 DEF adquirirCompraEtiqueta, Ocupado,
         leaseDe, HoraDe, Parada, TipoInv, TypeOK, Requisicao, Ordem, Chamada,
         AutorizadaPresa, Autorizada, EmChamadaPaga, Etapa, ancoraDe
<1>4. ASSUME NEW r \in Requisicoes, BuscarExistente(r)
      PROVE  AutorizadaPresa'
  BY CompraAssumption, TipoInv, AutorizadaPresa, <1>4 DEF BuscarExistente, FaseSeguinte,
         Parada, TipoInv, TypeOK, Requisicao, Ordem, Chamada, AutorizadaPresa, Autorizada,
         EmChamadaPaga, Etapa, ancoraDe
<1>5. ASSUME NEW r \in Requisicoes, NEW e \in Etiquetas, AddToCart(r, e)
      PROVE  AutorizadaPresa'
  BY CompraAssumption, TipoInv, AutorizadaPresa, <1>5 DEF AddToCart, TipoInv, TypeOK,
         Requisicao, Ordem, Chamada, AutorizadaPresa, Autorizada, EmChamadaPaga, Etapa,
         Parada, ancoraDe
<1>6. ASSUME NEW r \in Requisicoes, ancorarEtiqueta(r)
      PROVE  AutorizadaPresa'
  BY CompraAssumption, TipoInv, AutorizadaPresa, <1>6 DEF ancorarEtiqueta, PodeAncorar,
         Possui, leaseDe, HoraDe, GravarPedido, estadoAoAncorarNovaEtiqueta, Vai, Acaba,
         Parada, TipoInv, TypeOK, Requisicao, Ordem, Chamada, AutorizadaPresa, Autorizada,
         EmChamadaPaga, Etapa, ancoraDe
<1>7. ASSUME NEW r \in Requisicoes, garantirPosseCompraEtiqueta(r)
      PROVE  AutorizadaPresa'
  BY CompraAssumption, TipoInv, AutorizadaPresa, <1>7 DEF garantirPosseCompraEtiqueta,
         PodePagar, Possui, leaseDe, HoraDe, Parada, TipoInv, TypeOK, Requisicao, Ordem,
         Chamada, AutorizadaPresa, Autorizada, EmChamadaPaga, Etapa, ancoraDe
<1>8. ASSUME NEW r \in Requisicoes, EnviarPago(r)
      PROVE  AutorizadaPresa'
  BY CompraAssumption, TipoInv, AutorizadaPresa, <1>8 DEF EnviarPago, Vai, Etapa, TipoInv,
         TypeOK, Requisicao, Ordem, Chamada, AutorizadaPresa, Autorizada, EmChamadaPaga,
         Parada, ancoraDe
<1>9. ASSUME NEW r \in Requisicoes, ReceberResposta(r)
      PROVE  AutorizadaPresa'
  BY CompraAssumption, TipoInv, AutorizadaPresa, <1>9 DEF ReceberResposta, FaseSeguinte,
         Etapa, Parada, TipoInv, TypeOK, Requisicao, Ordem, Chamada, AutorizadaPresa,
         Autorizada, EmChamadaPaga, ancoraDe
<1>10. ASSUME NEW r \in Requisicoes, EstourarPrazo(r)
      PROVE  AutorizadaPresa'
  BY CompraAssumption, TipoInv, AutorizadaPresa, <1>10 DEF EstourarPrazo, DesfechoIncerto,
         Acaba, Parada, TipoInv, TypeOK, Requisicao, Ordem, Chamada, AutorizadaPresa,
         Autorizada, EmChamadaPaga, Etapa, ancoraDe
<1>11. ASSUME NEW r \in Requisicoes, Imprimir(r)
      PROVE  AutorizadaPresa'
  BY CompraAssumption, TipoInv, AutorizadaPresa, <1>11 DEF Imprimir, TipoInv, TypeOK,
         Requisicao, Ordem, Chamada, AutorizadaPresa, Autorizada, EmChamadaPaga, Etapa,
         Parada, ancoraDe
<1>12. ASSUME NEW r \in Requisicoes, finalizarCompraEtiqueta(r)
      PROVE  AutorizadaPresa'
  BY TipoInv, AutorizadaPresa, <1>12, FinalizarEfeito
     DEF TipoInv, TypeOK, AutorizadaPresa, Autorizada, EmChamadaPaga, Etapa, Parada
<1>13. ASSUME NEW r \in Requisicoes, liberarCompraEtiqueta(r)
      PROVE  AutorizadaPresa'
  BY CompraAssumption, TipoInv, AutorizadaPresa, <1>13 DEF liberarCompraEtiqueta,
         SemClaimDe, Acaba, Parada, TipoInv, TypeOK, Requisicao, Ordem, Chamada,
         AutorizadaPresa, Autorizada, EmChamadaPaga, Etapa, ancoraDe
<1>14. ASSUME NEW r \in Requisicoes, Falhar(r)
      PROVE  AutorizadaPresa'
  BY CompraAssumption, TipoInv, AutorizadaPresa, <1>14 DEF Falhar, Acaba, Parada, TipoInv,
         TypeOK, Requisicao, Ordem, Chamada, AutorizadaPresa, Autorizada, EmChamadaPaga,
         Etapa, ancoraDe
<1>15. ASSUME NEW r \in Requisicoes, Congelar(r)
      PROVE  AutorizadaPresa'
  BY CompraAssumption, TipoInv, AutorizadaPresa, <1>15 DEF Congelar, EmChamadaPaga, TipoInv,
         TypeOK, Requisicao, Ordem, Chamada, AutorizadaPresa, Autorizada, Etapa, Parada,
         ancoraDe
<1>16. ASSUME NEW r \in Requisicoes, Morrer(r)
      PROVE  AutorizadaPresa'
  BY CompraAssumption, TipoInv, AutorizadaPresa, <1>16 DEF Morrer, Acaba, Parada, TipoInv,
         TypeOK, Requisicao, Ordem, Chamada, AutorizadaPresa, Autorizada, EmChamadaPaga,
         Etapa, ancoraDe
<1>17. ASSUME NEW c \in chamadas, ProvedorAtende(c)
      PROVE  AutorizadaPresa'
  BY <1>17 DEF ProvedorAtende, TipoInv, TypeOK, AutorizadaPresa, Autorizada, EmChamadaPaga,
     Etapa
<1>18. ASSUME NEW e \in Etiquetas, ProvedorMuda(e)
      PROVE  AutorizadaPresa'
  BY CompraAssumption, TipoInv, AutorizadaPresa, <1>18 DEF ProvedorMuda, TipoInv, TypeOK,
         Requisicao, Ordem, Chamada, AutorizadaPresa, Autorizada, EmChamadaPaga, Etapa,
         Parada, ancoraDe
<1>19. ASSUME NEW a \in Avisos, AvisoLer(a)
      PROVE  AutorizadaPresa'
  BY CompraAssumption, TipoInv, AutorizadaPresa, <1>19 DEF AvisoLer, ancoraDe, TipoInv,
         TypeOK, Requisicao, Ordem, Chamada, AutorizadaPresa, Autorizada, EmChamadaPaga,
         Etapa, Parada
<1>20. ASSUME NEW a \in Avisos, AvisoConsultar(a)
      PROVE  AutorizadaPresa'
  BY CompraAssumption, TipoInv, AutorizadaPresa, <1>20 DEF AvisoConsultar, TipoInv, TypeOK,
         Requisicao, Ordem, Chamada, AutorizadaPresa, Autorizada, EmChamadaPaga, Etapa,
         Parada, ancoraDe
<1>21. ASSUME NEW a \in Avisos, AvisoGravar(a)
      PROVE  AutorizadaPresa'
  BY TipoInv, AutorizadaPresa, <1>21, AvisoGravarEfeito
     DEF AutorizadaPresa, Autorizada, EmChamadaPaga, Etapa
<1>22. ASSUME NEW estado \in EstadosEscolhidos, OnIntegracaoChange(estado)
      PROVE  AutorizadaPresa'
  BY CompraAssumption, TipoInv, AutorizadaPresa, <1>22 DEF OnIntegracaoChange, Soltar,
         GravarPedido, ancoraDe, TipoInv, TypeOK, Requisicao, Ordem, Chamada,
         AutorizadaPresa, Autorizada, EmChamadaPaga, Etapa, Parada
<1>23. ASSUME ExcluirPedido
      PROVE  AutorizadaPresa'
  BY CompraAssumption, TipoInv, AutorizadaPresa, <1>23 DEF ExcluirPedido, Soltar,
         GravarPedido, ancoraDe, TipoInv, TypeOK, Requisicao, Ordem, Chamada,
         AutorizadaPresa, Autorizada, EmChamadaPaga, Etapa, Parada
<1>24. CASE UNCHANGED vars
  BY CompraAssumption, TipoInv, AutorizadaPresa, <1>24 DEF vars, TipoInv, TypeOK,
         Requisicao, Ordem, Chamada, AutorizadaPresa, Autorizada, EmChamadaPaga, Etapa,
         Parada, ancoraDe
<1>25. ASSUME NEW estado \in EstadoFrete, GravarEstado(estado)
      PROVE  AutorizadaPresa'
  BY TipoInv, AutorizadaPresa, <1>25, GravarEstadoEfeito
     DEF AutorizadaPresa, Autorizada, EmChamadaPaga, Etapa
<1>26. QED
  BY <1>1, <1>2, <1>3, <1>4, <1>5, <1>6, <1>7, <1>8, <1>9, <1>10, <1>11, <1>12, <1>13,
     <1>14, <1>15, <1>16, <1>17, <1>18, <1>19, <1>20, <1>21, <1>22, <1>23, <1>24, <1>25,
     PassoDe DEF Requisitar, Avisar

(* A claim that has not expired on any clock keeps every other request out. *)
LEMMA VivoOcupa ==
  ASSUME TipoInv, PosseViva, NEW r \in Requisicoes, NEW dono \in Requisicoes, dono # r,
         NEW expira \in Nat, ClaimVivo(dono, expira),
         claim # Nenhum /\ claim.dono = dono => claim.leaseExpiraEmMs = expira,
         \A s \in Requisicoes : HoraDe(s) < expira
  PROVE  Ocupado(r)
<1>1. claim # Nenhum /\ claim.dono = dono /\ claim.leaseExpiraEmMs = expira
  BY DEF ClaimVivo
<1>2. expira <= agora + Relogio[dono] + COMPRA_ETIQUETA_LEASE_MS
  BY <1>1 DEF PosseViva, PosseDoRun, PosseDaChamada
<1>3. Relogio[dono] <= Relogio[r] + FOLGA_RELOGIO_MS
  BY PrazosAssumption
<1>4. /\ agora \in Nat /\ Relogio[dono] \in Nat /\ Relogio[r] \in Nat
      /\ COMPRA_ETIQUETA_LEASE_MS \in Nat /\ FOLGA_RELOGIO_MS \in Nat
  BY CompraAssumption, TipoInv, HoraTipo DEF TipoInv
<1>5. ~(expira > HoraDe(r) + COMPRA_ETIQUETA_LEASE_MS + FOLGA_RELOGIO_MS)
  BY <1>2, <1>3, <1>4 DEF HoraDe
<1>6. leaseDe(HoraDe(r)) = claim
  BY <1>1, <1>5 DEF leaseDe
<1>7. HoraDe(r) < expira
  OBVIOUS
<1>8. QED
  BY <1>1, <1>6, <1>7 DEF Ocupado

(* While its claim has not expired on any clock, a run has it. *)
LEMMA PossePasso ==
  ASSUME TipoInv, ChamadaDoRun, PosseViva, [Next]_vars
  PROVE  PosseViva'
<1>1. ASSUME Tique
      PROVE  PosseViva'
  BY CompraAssumption, PrazosAssumption, TipoInv, ChamadaDoRun, PosseViva, <1>1
     DEF Tique, TipoInv, TypeOK, Requisicao, Claim, Chamada, ComEtiqueta, ComClaim,
         PosseViva, PosseDoRun, PosseDaChamada, ClaimVivo, HoraDe, Parada, ChamadaDoRun
<1>2. ASSUME NEW r \in Requisicoes, Chegar(r)
      PROVE  PosseViva'
  BY CompraAssumption, PrazosAssumption, TipoInv, ChamadaDoRun, PosseViva, <1>2
     DEF Chegar, HoraDe, TipoInv, TypeOK, Requisicao, Claim, Chamada, ComEtiqueta, ComClaim,
         PosseViva, PosseDoRun, PosseDaChamada, ClaimVivo, Parada, ChamadaDoRun
<1>3. ASSUME NEW r \in Requisicoes, adquirirCompraEtiqueta(r)
      PROVE  PosseViva'
  <2> DEFINE hora == HoraDe(r)
             expira == hora + COMPRA_ETIQUETA_LEASE_MS
  <2>1. hora \in Nat /\ expira \in Nat /\ COMPRA_ETIQUETA_LEASE_MS \in Nat
    BY CompraAssumption, TipoInv, HoraTipo DEF TipoInv
  <2>2. /\ requisicoes[r].fase = "chegou" /\ agora' = agora /\ chamadas' = chamadas
        /\ \A s \in Requisicoes \ {r} : requisicoes'[s] = requisicoes[s]
        /\ chamadas \subseteq Chamada /\ \A s \in Requisicoes : requisicoes[s] \in Requisicao
        /\ \A x : ClaimVivo(r, x)' <=> ((\A s \in Requisicoes : HoraDe(s) < x) =>
                                       claim' # Nenhum /\ claim'.dono = r)
    BY TipoInv, <1>3 DEF TipoInv, TypeOK, adquirirCompraEtiqueta, ClaimVivo, HoraDe
  <2>3. CASE pedido # Nenhum /\ ~Ocupado(r)
    <3>1. /\ claim' = [dono |-> r, leaseExpiraEmMs |-> expira]
          /\ requisicoes'[r].fase = "carrinho" /\ requisicoes'[r].expira = expira
          /\ requisicoes'[r].inicio = requisicoes[r].inicio
      BY TipoInv, <1>3, <2>3 DEF TipoInv, TypeOK, Requisicao, adquirirCompraEtiqueta
    <3>2. claim' # Nenhum
      <4>1. claim' \in Claim
        BY <2>1, <3>1 DEF Claim
      <4>2. QED
        BY <4>1, NuloAssumption
    <3>3. claim'.leaseExpiraEmMs <= agora' + Relogio[claim'.dono] + COMPRA_ETIQUETA_LEASE_MS
      BY <2>1, <2>2, <3>1 DEF HoraDe
    <3>4. /\ ClaimVivo(r, expira)' /\ claim'.leaseExpiraEmMs = expira
          /\ requisicoes[r].inicio + COMPRA_ETIQUETA_LEASE_MS <= expira
      <4>1. requisicoes[r].inicio <= hora
        BY <2>2, PosseViva DEF PosseViva, PosseDoRun, PosseDaChamada
      <4>2. requisicoes[r].inicio \in Nat
        BY <2>2 DEF Requisicao
      <4>3. QED
        BY <2>1, <2>2, <3>1, <3>2, <4>1, <4>2
    <3>5. ASSUME NEW s \in Requisicoes \ {r}, requisicoes[s].fase \in ComClaim
          PROVE  ClaimVivo(s, requisicoes[s].expira)'
      <4>1. requisicoes[s].expira \in Nat
        BY <2>2 DEF Requisicao
      <4>2. ~(\A x \in Requisicoes : HoraDe(x) < requisicoes[s].expira)
        BY <2>3, <3>5, <4>1, TipoInv, PosseViva, VivoOcupa DEF PosseViva, PosseDoRun, PosseDaChamada
      <4>3. QED
        BY <2>2, <4>2 DEF ClaimVivo, HoraDe
    <3>6. ASSUME NEW c \in chamadas
          PROVE  ClaimVivo(c.dono, c.expira)' /\ c.dono # r
      <4>1. c.expira \in Nat /\ c.dono \in Requisicoes
        BY <2>2 DEF Chamada
      <4>2. c.dono # r
        BY <2>2, ChamadaDoRun DEF ChamadaDoRun
      <4>3. ~(\A x \in Requisicoes : HoraDe(x) < c.expira)
        BY <2>3, <4>1, <4>2, TipoInv, PosseViva, VivoOcupa DEF PosseViva, PosseDoRun, PosseDaChamada
      <4>4. QED
        BY <2>2, <4>2, <4>3 DEF ClaimVivo, HoraDe
    <3>7. ASSUME NEW s \in Requisicoes
          PROVE  PosseDoRun(s)'
      <4>1. CASE s = r
        <5>1. ClaimVivo(s, requisicoes[s].expira)'
          BY <2>2, <3>1, <3>2, <3>4, <4>1 DEF ClaimVivo, HoraDe
        <5>2. QED
          BY <3>1, <3>4, <4>1, <5>1 DEF PosseDoRun
      <4>2. CASE s # r
        <5>1. requisicoes'[s] = requisicoes[s]
          BY <2>2, <4>2
        <5>2. claim'.dono # s
          BY <3>1, <4>2
        <5>3. HoraDe(s)' = HoraDe(s)
          BY <2>2 DEF HoraDe
        <5>4. requisicoes'[s].fase \in ComClaim => ClaimVivo(s, requisicoes[s].expira)'
          BY <2>2, <3>5, <4>2, <5>1 DEF ClaimVivo, HoraDe
        <5>5. PosseDoRun(s)
          BY PosseViva DEF PosseViva
        <5>6. QED
          BY <5>1, <5>2, <5>3, <5>4, <5>5 DEF PosseDoRun
      <4>3. QED
        BY <4>1, <4>2
    <3>8. ASSUME NEW c \in chamadas'
          PROVE  PosseDaChamada(c)'
      <4>1. /\ c \in chamadas /\ c.dono \in Requisicoes \ {r}
            /\ requisicoes'[c.dono] = requisicoes[c.dono] /\ claim'.dono = r
        BY <2>2, <3>1, <3>6 DEF Chamada
      <4>2. PosseDaChamada(c) /\ ClaimVivo(c.dono, c.expira)'
        BY <3>6, <4>1, PosseViva DEF PosseViva
      <4>3. QED
        BY <4>1, <4>2 DEF PosseDaChamada
    <3>9. QED
      BY <3>3, <3>7, <3>8 DEF PosseViva
  <2>4. CASE ~(pedido # Nenhum /\ ~Ocupado(r))
    <3>1. claim' = claim /\ requisicoes'[r].fase = "fim"
      BY TipoInv, <1>3, <2>4 DEF TipoInv, TypeOK, adquirirCompraEtiqueta, Parada
    <3>2. \A c \in chamadas : c.dono # r
      BY <2>2, ChamadaDoRun DEF ChamadaDoRun
    <3>3. QED
      BY <2>2, <3>1, <3>2, PosseViva
         DEF PosseViva, PosseDoRun, PosseDaChamada, ClaimVivo, HoraDe, Chamada, ComClaim, ComEtiqueta
  <2>5. QED
    BY <2>3, <2>4
<1>4. ASSUME NEW r \in Requisicoes, BuscarExistente(r)
      PROVE  PosseViva'
  BY <1>4 DEF BuscarExistente, FaseSeguinte, Parada, ComEtiqueta, ComClaim, PosseViva,
     PosseDoRun, PosseDaChamada, ClaimVivo, HoraDe
<1>5. ASSUME NEW r \in Requisicoes, NEW e \in Etiquetas, AddToCart(r, e)
      PROVE  PosseViva'
  BY CompraAssumption, PrazosAssumption, TipoInv, ChamadaDoRun, PosseViva, <1>5
     DEF AddToCart, TipoInv, TypeOK, Requisicao, Claim, Chamada, ComEtiqueta, ComClaim,
         PosseViva, PosseDoRun, PosseDaChamada, ClaimVivo, HoraDe, Parada, ChamadaDoRun
<1>6. ASSUME NEW r \in Requisicoes, ancorarEtiqueta(r)
      PROVE  PosseViva'
  <2>1. /\ requisicoes[r].fase = "ancorar"
        /\ agora' = agora /\ claim' = claim /\ chamadas' = chamadas
        /\ \/ requisicoes' = [requisicoes EXCEPT ![r].fase = "cercar"]
           \/ requisicoes' = [requisicoes EXCEPT ![r] = Parada("liberar")]
    BY TipoInv, <1>6, AncorarEfeito
  <2>2. /\ \A s \in Requisicoes \ {r} : requisicoes'[s] = requisicoes[s]
        /\ \/ /\ requisicoes'[r].fase = "cercar"
              /\ requisicoes'[r].expira = requisicoes[r].expira
              /\ requisicoes'[r].inicio = requisicoes[r].inicio
           \/ requisicoes'[r].fase = "liberar"
    BY <2>1, TipoInv DEF TipoInv, TypeOK, Requisicao, Parada
  <2>4. /\ chamadas \subseteq Chamada
        /\ \A s \in Requisicoes : requisicoes[s].expira \in Nat /\ HoraDe(s)' = HoraDe(s)
    BY <2>1, TipoInv DEF TipoInv, TypeOK, Requisicao, HoraDe
  <2>5. ASSUME NEW s \in Requisicoes
        PROVE  PosseDoRun(s)'
    <3>1. /\ PosseDoRun(s)
          /\ requisicoes'[s].fase \in ComClaim => requisicoes[s].fase \in ComClaim
      BY <2>1, <2>2, PosseViva DEF PosseViva, ComClaim, ComEtiqueta
    <3>2. /\ claim' = claim /\ HoraDe(s)' = HoraDe(s)
          /\ ClaimVivo(s, requisicoes[s].expira)' <=> ClaimVivo(s, requisicoes'[s].expira)
      BY <2>1, <2>4 DEF ClaimVivo, HoraDe
    <3>3. CASE s = r
      BY <2>1, <2>2, <3>1, <3>2, <3>3 DEF PosseDoRun, ComClaim, ComEtiqueta
    <3>4. CASE s # r
      BY <2>2, <3>1, <3>2, <3>4 DEF PosseDoRun
    <3>5. QED
      BY <3>3, <3>4
  <2>6. ASSUME NEW c \in chamadas'
        PROVE  PosseDaChamada(c)'
    <3>1. PosseDaChamada(c) /\ c.dono \in Requisicoes
      BY <2>1, <2>4, PosseViva DEF PosseViva, Chamada
    <3>2. ClaimVivo(c.dono, c.expira)' <=> ClaimVivo(c.dono, c.expira)
      BY <2>1 DEF ClaimVivo, HoraDe
    <3>3. QED
      BY <2>1, <2>2, <3>1, <3>2 DEF PosseDaChamada
  <2>7. claim' # Nenhum =>
          claim'.leaseExpiraEmMs <= agora' + Relogio[claim'.dono] + COMPRA_ETIQUETA_LEASE_MS
    BY <2>1, PosseViva DEF PosseViva, PosseDoRun, PosseDaChamada
  <2>8. QED
    BY <2>5, <2>6, <2>7 DEF PosseViva, PosseDoRun, PosseDaChamada
<1>7. ASSUME NEW r \in Requisicoes, garantirPosseCompraEtiqueta(r)
      PROVE  PosseViva'
  BY CompraAssumption, PrazosAssumption, TipoInv, ChamadaDoRun, PosseViva, <1>7
     DEF garantirPosseCompraEtiqueta, PodePagar, Possui, leaseDe, HoraDe, Parada, TipoInv,
         TypeOK, Requisicao, Claim, Chamada, ComEtiqueta, ComClaim, PosseViva, PosseDoRun,
         PosseDaChamada, ClaimVivo, ChamadaDoRun
<1>8. ASSUME NEW r \in Requisicoes, EnviarPago(r)
      PROVE  PosseViva'
  BY CompraAssumption, PrazosAssumption, TipoInv, ChamadaDoRun, PosseViva, <1>8
     DEF EnviarPago, Vai, Etapa, TipoInv, TypeOK, Requisicao, Claim, Chamada, ComEtiqueta,
         ComClaim, PosseViva, PosseDoRun, PosseDaChamada, ClaimVivo, HoraDe, Parada,
         ChamadaDoRun
<1>9. ASSUME NEW r \in Requisicoes, ReceberResposta(r)
      PROVE  PosseViva'
  BY CompraAssumption, PrazosAssumption, TipoInv, ChamadaDoRun, PosseViva, <1>9
     DEF ReceberResposta, FaseSeguinte, Etapa, Parada, TipoInv, TypeOK, Requisicao, Claim,
         Chamada, ComEtiqueta, ComClaim, PosseViva, PosseDoRun, PosseDaChamada, ClaimVivo,
         HoraDe, ChamadaDoRun
<1>10. ASSUME NEW r \in Requisicoes, EstourarPrazo(r)
      PROVE  PosseViva'
  BY CompraAssumption, PrazosAssumption, TipoInv, ChamadaDoRun, PosseViva, <1>10
     DEF EstourarPrazo, DesfechoIncerto, Acaba, Parada, TipoInv, TypeOK, Requisicao, Claim,
         Chamada, ComEtiqueta, ComClaim, PosseViva, PosseDoRun, PosseDaChamada, ClaimVivo,
         HoraDe, ChamadaDoRun
<1>11. ASSUME NEW r \in Requisicoes, Imprimir(r)
      PROVE  PosseViva'
  BY CompraAssumption, PrazosAssumption, TipoInv, ChamadaDoRun, PosseViva, <1>11
     DEF Imprimir, TipoInv, TypeOK, Requisicao, Claim, Chamada, ComEtiqueta, ComClaim,
         PosseViva, PosseDoRun, PosseDaChamada, ClaimVivo, HoraDe, Parada, ChamadaDoRun
<1>12. ASSUME NEW r \in Requisicoes, finalizarCompraEtiqueta(r)
      PROVE  PosseViva'
  BY CompraAssumption, PrazosAssumption, TipoInv, ChamadaDoRun, PosseViva, <1>12
     DEF finalizarCompraEtiqueta, Vinculada, GravarPedido,
         resolverEstadoFinalCompraEtiqueta, meStatusToEstadoFrete, ehEstadoFreteTerminal,
         SemClaimDe, Acaba, Parada, TipoInv, TypeOK, Requisicao, Claim, Chamada,
         ComEtiqueta, ComClaim, PosseViva, PosseDoRun, PosseDaChamada, ClaimVivo, HoraDe,
         ChamadaDoRun
<1>13. ASSUME NEW r \in Requisicoes, liberarCompraEtiqueta(r)
      PROVE  PosseViva'
  BY CompraAssumption, PrazosAssumption, TipoInv, ChamadaDoRun, PosseViva, <1>13
     DEF liberarCompraEtiqueta, SemClaimDe, Acaba, Parada, TipoInv, TypeOK, Requisicao,
         Claim, Chamada, ComEtiqueta, ComClaim, PosseViva, PosseDoRun, PosseDaChamada,
         ClaimVivo, HoraDe, ChamadaDoRun
<1>14. ASSUME NEW r \in Requisicoes, Falhar(r)
      PROVE  PosseViva'
  BY CompraAssumption, PrazosAssumption, TipoInv, ChamadaDoRun, PosseViva, <1>14
     DEF Falhar, Acaba, Parada, TipoInv, TypeOK, Requisicao, Claim, Chamada, ComEtiqueta,
         ComClaim, PosseViva, PosseDoRun, PosseDaChamada, ClaimVivo, HoraDe, ChamadaDoRun
<1>15. ASSUME NEW r \in Requisicoes, Congelar(r)
      PROVE  PosseViva'
  BY CompraAssumption, PrazosAssumption, TipoInv, ChamadaDoRun, PosseViva, <1>15
     DEF Congelar, EmChamadaPaga, TipoInv, TypeOK, Requisicao, Claim, Chamada, ComEtiqueta,
         ComClaim, PosseViva, PosseDoRun, PosseDaChamada, ClaimVivo, HoraDe, Parada,
         ChamadaDoRun
<1>16. ASSUME NEW r \in Requisicoes, Morrer(r)
      PROVE  PosseViva'
  BY CompraAssumption, PrazosAssumption, TipoInv, ChamadaDoRun, PosseViva, <1>16
     DEF Morrer, Acaba, Parada, TipoInv, TypeOK, Requisicao, Claim, Chamada, ComEtiqueta,
         ComClaim, PosseViva, PosseDoRun, PosseDaChamada, ClaimVivo, HoraDe, ChamadaDoRun
<1>17. ASSUME NEW c \in chamadas, ProvedorAtende(c)
      PROVE  PosseViva'
  BY <1>17 DEF ProvedorAtende, PosseViva, PosseDoRun, PosseDaChamada, ClaimVivo, HoraDe
<1>18. ASSUME NEW e \in Etiquetas, ProvedorMuda(e)
      PROVE  PosseViva'
  BY CompraAssumption, PrazosAssumption, TipoInv, ChamadaDoRun, PosseViva, <1>18
     DEF ProvedorMuda, TipoInv, TypeOK, Requisicao, Claim, Chamada, ComEtiqueta, ComClaim,
         PosseViva, PosseDoRun, PosseDaChamada, ClaimVivo, HoraDe, Parada, ChamadaDoRun
<1>19. ASSUME NEW a \in Avisos, AvisoLer(a)
      PROVE  PosseViva'
  BY CompraAssumption, PrazosAssumption, TipoInv, ChamadaDoRun, PosseViva, <1>19
     DEF AvisoLer, ancoraDe, TipoInv, TypeOK, Requisicao, Claim, Chamada, ComEtiqueta,
         ComClaim, PosseViva, PosseDoRun, PosseDaChamada, ClaimVivo, HoraDe, Parada,
         ChamadaDoRun
<1>20. ASSUME NEW a \in Avisos, AvisoConsultar(a)
      PROVE  PosseViva'
  BY CompraAssumption, PrazosAssumption, TipoInv, ChamadaDoRun, PosseViva, <1>20
     DEF AvisoConsultar, TipoInv, TypeOK, Requisicao, Claim, Chamada, ComEtiqueta, ComClaim,
         PosseViva, PosseDoRun, PosseDaChamada, ClaimVivo, HoraDe, Parada, ChamadaDoRun
<1>21. ASSUME NEW a \in Avisos, AvisoGravar(a)
      PROVE  PosseViva'
  BY CompraAssumption, PrazosAssumption, TipoInv, ChamadaDoRun, PosseViva, <1>21
     DEF AvisoGravar, Precondicao, AvisoParado, meStatusToEstadoFrete, TipoInv, TypeOK,
         Requisicao, Claim, Chamada, ComEtiqueta, ComClaim, PosseViva, PosseDoRun,
         PosseDaChamada, ClaimVivo, HoraDe, Parada, ChamadaDoRun
<1>22. ASSUME NEW estado \in EstadosEscolhidos, OnIntegracaoChange(estado)
      PROVE  PosseViva'
  BY CompraAssumption, PrazosAssumption, TipoInv, ChamadaDoRun, PosseViva, <1>22
     DEF OnIntegracaoChange, Soltar, GravarPedido, ancoraDe, TipoInv, TypeOK, Requisicao,
         Claim, Chamada, ComEtiqueta, ComClaim, PosseViva, PosseDoRun, PosseDaChamada,
         ClaimVivo, HoraDe, Parada, ChamadaDoRun
<1>23. ASSUME ExcluirPedido
      PROVE  PosseViva'
  BY CompraAssumption, PrazosAssumption, TipoInv, ChamadaDoRun, PosseViva, <1>23
     DEF ExcluirPedido, Soltar, GravarPedido, ancoraDe, TipoInv, TypeOK, Requisicao, Claim,
         Chamada, ComEtiqueta, ComClaim, PosseViva, PosseDoRun, PosseDaChamada, ClaimVivo,
         HoraDe, Parada, ChamadaDoRun
<1>24. CASE UNCHANGED vars
  BY CompraAssumption, PrazosAssumption, TipoInv, ChamadaDoRun, PosseViva, <1>24
     DEF vars, TipoInv, TypeOK, Requisicao, Claim, Chamada, ComEtiqueta, ComClaim,
         PosseViva, PosseDoRun, PosseDaChamada, ClaimVivo, HoraDe, Parada, ChamadaDoRun
<1>25. ASSUME NEW estado \in EstadoFrete, GravarEstado(estado)
      PROVE  PosseViva'
  BY TipoInv, PosseViva, <1>25, GravarEstadoEfeito
     DEF PosseViva, PosseDoRun, PosseDaChamada, ClaimVivo, HoraDe
<1>26. QED
  BY <1>1, <1>2, <1>3, <1>4, <1>5, <1>6, <1>7, <1>8, <1>9, <1>10, <1>11, <1>12, <1>13,
     <1>14, <1>15, <1>16, <1>17, <1>18, <1>19, <1>20, <1>21, <1>22, <1>23, <1>24, <1>25,
     PassoDe DEF Requisitar, Avisar

(* A paid call ends before its claim. *)
LEMMA PrazoPasso ==
  ASSUME TipoInv, PosseViva, PrazoVivo, [Next]_vars
  PROVE  PrazoVivo'
<1>1. ASSUME Tique
      PROVE  PrazoVivo'
  BY CompraAssumption, PrazosAssumption, TipoInv, PosseViva, PrazoVivo, <1>1
     DEF Tique, TipoInv, TypeOK, Requisicao, PrazoVivo, EmChamadaPaga, Parada
<1>2. ASSUME NEW r \in Requisicoes, Chegar(r)
      PROVE  PrazoVivo'
  BY CompraAssumption, PrazosAssumption, TipoInv, PosseViva, PrazoVivo, <1>2
     DEF Chegar, HoraDe, TipoInv, TypeOK, Requisicao, PrazoVivo, EmChamadaPaga, Parada
<1>3. ASSUME NEW r \in Requisicoes, adquirirCompraEtiqueta(r)
      PROVE  PrazoVivo'
  BY CompraAssumption, PrazosAssumption, TipoInv, PosseViva, PrazoVivo, <1>3
     DEF adquirirCompraEtiqueta, Ocupado, leaseDe, HoraDe, Parada, TipoInv, TypeOK,
         Requisicao, PrazoVivo, EmChamadaPaga
<1>4. ASSUME NEW r \in Requisicoes, BuscarExistente(r)
      PROVE  PrazoVivo'
  BY CompraAssumption, PrazosAssumption, TipoInv, PosseViva, PrazoVivo, <1>4
     DEF BuscarExistente, FaseSeguinte, Parada, TipoInv, TypeOK, Requisicao, PrazoVivo,
         EmChamadaPaga
<1>5. ASSUME NEW r \in Requisicoes, NEW e \in Etiquetas, AddToCart(r, e)
      PROVE  PrazoVivo'
  BY CompraAssumption, PrazosAssumption, TipoInv, PosseViva, PrazoVivo, <1>5
     DEF AddToCart, TipoInv, TypeOK, Requisicao, PrazoVivo, EmChamadaPaga, Parada
<1>6. ASSUME NEW r \in Requisicoes, ancorarEtiqueta(r)
      PROVE  PrazoVivo'
  BY SMTT(30), CompraAssumption, PrazosAssumption, TipoInv, PosseViva, PrazoVivo, <1>6
     DEF ancorarEtiqueta, PodeAncorar, Possui, leaseDe, HoraDe, GravarPedido,
         estadoAoAncorarNovaEtiqueta, Vai, Acaba, Parada, TipoInv, TypeOK, Requisicao,
         PrazoVivo, EmChamadaPaga
<1>7. ASSUME NEW r \in Requisicoes, garantirPosseCompraEtiqueta(r)
      PROVE  PrazoVivo'
  BY CompraAssumption, PrazosAssumption, TipoInv, PosseViva, PrazoVivo, <1>7
     DEF garantirPosseCompraEtiqueta, PodePagar, Possui, leaseDe, HoraDe, Parada, TipoInv,
         TypeOK, Requisicao, PrazoVivo, EmChamadaPaga
<1>8. ASSUME NEW r \in Requisicoes, EnviarPago(r)
      PROVE  PrazoVivo'
  BY CompraAssumption, PrazosAssumption, TipoInv, PosseViva, PrazoVivo, <1>8
     DEF EnviarPago, Vai, Etapa, TipoInv, TypeOK, Requisicao, PrazoVivo, EmChamadaPaga,
         Parada
<1>9. ASSUME NEW r \in Requisicoes, ReceberResposta(r)
      PROVE  PrazoVivo'
  BY CompraAssumption, PrazosAssumption, TipoInv, PosseViva, PrazoVivo, <1>9
     DEF ReceberResposta, FaseSeguinte, Etapa, Parada, TipoInv, TypeOK, Requisicao,
         PrazoVivo, EmChamadaPaga
<1>10. ASSUME NEW r \in Requisicoes, EstourarPrazo(r)
      PROVE  PrazoVivo'
  BY CompraAssumption, PrazosAssumption, TipoInv, PosseViva, PrazoVivo, <1>10
     DEF EstourarPrazo, DesfechoIncerto, Acaba, Parada, TipoInv, TypeOK, Requisicao,
         PrazoVivo, EmChamadaPaga
<1>11. ASSUME NEW r \in Requisicoes, Imprimir(r)
      PROVE  PrazoVivo'
  BY CompraAssumption, PrazosAssumption, TipoInv, PosseViva, PrazoVivo, <1>11
     DEF Imprimir, TipoInv, TypeOK, Requisicao, PrazoVivo, EmChamadaPaga, Parada
<1>12. ASSUME NEW r \in Requisicoes, finalizarCompraEtiqueta(r)
      PROVE  PrazoVivo'
  BY CompraAssumption, PrazosAssumption, TipoInv, PosseViva, PrazoVivo, <1>12
     DEF finalizarCompraEtiqueta, Vinculada, GravarPedido,
         resolverEstadoFinalCompraEtiqueta, meStatusToEstadoFrete, ehEstadoFreteTerminal,
         SemClaimDe, Acaba, Parada, TipoInv, TypeOK, Requisicao, PrazoVivo, EmChamadaPaga
<1>13. ASSUME NEW r \in Requisicoes, liberarCompraEtiqueta(r)
      PROVE  PrazoVivo'
  BY CompraAssumption, PrazosAssumption, TipoInv, PosseViva, PrazoVivo, <1>13
     DEF liberarCompraEtiqueta, SemClaimDe, Acaba, Parada, TipoInv, TypeOK, Requisicao,
         PrazoVivo, EmChamadaPaga
<1>14. ASSUME NEW r \in Requisicoes, Falhar(r)
      PROVE  PrazoVivo'
  BY CompraAssumption, PrazosAssumption, TipoInv, PosseViva, PrazoVivo, <1>14
     DEF Falhar, Acaba, Parada, TipoInv, TypeOK, Requisicao, PrazoVivo, EmChamadaPaga
<1>15. ASSUME NEW r \in Requisicoes, Congelar(r)
      PROVE  PrazoVivo'
  BY CompraAssumption, PrazosAssumption, TipoInv, PosseViva, PrazoVivo, <1>15
     DEF Congelar, EmChamadaPaga, TipoInv, TypeOK, Requisicao, PrazoVivo, Parada
<1>16. ASSUME NEW r \in Requisicoes, Morrer(r)
      PROVE  PrazoVivo'
  BY CompraAssumption, PrazosAssumption, TipoInv, PosseViva, PrazoVivo, <1>16
     DEF Morrer, Acaba, Parada, TipoInv, TypeOK, Requisicao, PrazoVivo, EmChamadaPaga
<1>17. ASSUME NEW c \in chamadas, ProvedorAtende(c)
      PROVE  PrazoVivo'
  BY CompraAssumption, PrazosAssumption, TipoInv, PosseViva, PrazoVivo, <1>17
     DEF ProvedorAtende, Aceita, TipoInv, TypeOK, Requisicao, PrazoVivo, EmChamadaPaga,
         Parada
<1>18. ASSUME NEW e \in Etiquetas, ProvedorMuda(e)
      PROVE  PrazoVivo'
  BY CompraAssumption, PrazosAssumption, TipoInv, PosseViva, PrazoVivo, <1>18
     DEF ProvedorMuda, TipoInv, TypeOK, Requisicao, PrazoVivo, EmChamadaPaga, Parada
<1>19. ASSUME NEW a \in Avisos, AvisoLer(a)
      PROVE  PrazoVivo'
  BY CompraAssumption, PrazosAssumption, TipoInv, PosseViva, PrazoVivo, <1>19
     DEF AvisoLer, ancoraDe, TipoInv, TypeOK, Requisicao, PrazoVivo, EmChamadaPaga, Parada
<1>20. ASSUME NEW a \in Avisos, AvisoConsultar(a)
      PROVE  PrazoVivo'
  BY CompraAssumption, PrazosAssumption, TipoInv, PosseViva, PrazoVivo, <1>20
     DEF AvisoConsultar, TipoInv, TypeOK, Requisicao, PrazoVivo, EmChamadaPaga, Parada
<1>21. ASSUME NEW a \in Avisos, AvisoGravar(a)
      PROVE  PrazoVivo'
  BY CompraAssumption, PrazosAssumption, TipoInv, PosseViva, PrazoVivo, <1>21
     DEF AvisoGravar, Precondicao, AvisoParado, meStatusToEstadoFrete, TipoInv, TypeOK,
         Requisicao, PrazoVivo, EmChamadaPaga, Parada
<1>22. ASSUME NEW estado \in EstadosEscolhidos, OnIntegracaoChange(estado)
      PROVE  PrazoVivo'
  BY CompraAssumption, PrazosAssumption, TipoInv, PosseViva, PrazoVivo, <1>22
     DEF OnIntegracaoChange, Soltar, GravarPedido, ancoraDe, TipoInv, TypeOK, Requisicao,
         PrazoVivo, EmChamadaPaga, Parada
<1>23. ASSUME ExcluirPedido
      PROVE  PrazoVivo'
  BY CompraAssumption, PrazosAssumption, TipoInv, PosseViva, PrazoVivo, <1>23
     DEF ExcluirPedido, Soltar, GravarPedido, ancoraDe, TipoInv, TypeOK, Requisicao,
         PrazoVivo, EmChamadaPaga, Parada
<1>24. CASE UNCHANGED vars
  BY CompraAssumption, PrazosAssumption, TipoInv, PosseViva, PrazoVivo, <1>24
     DEF vars, TipoInv, TypeOK, Requisicao, PrazoVivo, EmChamadaPaga, Parada
<1>25. ASSUME NEW estado \in EstadoFrete, GravarEstado(estado)
      PROVE  PrazoVivo'
  BY TipoInv, PrazoVivo, <1>25, GravarEstadoEfeito DEF PrazoVivo, EmChamadaPaga
<1>26. QED
  BY <1>1, <1>2, <1>3, <1>4, <1>5, <1>6, <1>7, <1>8, <1>9, <1>10, <1>11, <1>12, <1>13,
     <1>14, <1>15, <1>16, <1>17, <1>18, <1>19, <1>20, <1>21, <1>22, <1>23, <1>24, <1>25,
     PassoDe DEF Requisitar, Avisar

(* A status read is one the shipment passed. *)
LEMMA StatusPasso ==
  ASSUME TipoInv, StatusLido, [Next]_vars
  PROVE  StatusLido'
<1>1. ASSUME Tique
      PROVE  StatusLido'
  BY CompraAssumption, TipoInv, StatusLido, <1>1 DEF Tique, TipoInv, TypeOK, EtiquetasReais,
         Requisicao, Ordem, Aviso, StatusMe, ComEtiqueta, StatusLido, Segue, Parada
<1>2. ASSUME NEW r \in Requisicoes, Chegar(r)
      PROVE  StatusLido'
  BY CompraAssumption, TipoInv, StatusLido, <1>2 DEF Chegar, HoraDe, TipoInv, TypeOK,
         EtiquetasReais, Requisicao, Ordem, Aviso, StatusMe, ComEtiqueta, StatusLido, Segue,
         Parada
<1>3. ASSUME NEW r \in Requisicoes, adquirirCompraEtiqueta(r)
      PROVE  StatusLido'
  BY CompraAssumption, TipoInv, StatusLido, <1>3 DEF adquirirCompraEtiqueta, Ocupado,
         leaseDe, HoraDe, Parada, TipoInv, TypeOK, EtiquetasReais, Requisicao, Ordem, Aviso,
         StatusMe, ComEtiqueta, StatusLido, Segue
<1>4. ASSUME NEW r \in Requisicoes, BuscarExistente(r)
      PROVE  StatusLido'
  BY <1>4 DEF BuscarExistente, FaseSeguinte, Parada, StatusLido
<1>5. ASSUME NEW r \in Requisicoes, NEW e \in Etiquetas, AddToCart(r, e)
      PROVE  StatusLido'
  BY CompraAssumption, TipoInv, StatusLido, <1>5 DEF AddToCart, TipoInv, TypeOK,
         EtiquetasReais, Requisicao, Ordem, Aviso, StatusMe, ComEtiqueta, StatusLido, Segue,
         Parada
<1>6. ASSUME NEW r \in Requisicoes, ancorarEtiqueta(r)
      PROVE  StatusLido'
  <2>1. /\ requisicoes[r].fase = "ancorar" /\ ordens' = ordens
        /\ \/ requisicoes' = [requisicoes EXCEPT ![r].fase = "cercar"]
           \/ requisicoes' = [requisicoes EXCEPT ![r] = Parada("liberar")]
        /\ \A a \in Avisos : /\ avisos'[a].fase = avisos[a].fase
                               /\ avisos'[a].etiqueta = avisos[a].etiqueta
                               /\ avisos'[a].status = avisos[a].status
    BY TipoInv, <1>6, AncorarEfeito
  <2>2. /\ \A s \in Requisicoes \ {r} : requisicoes'[s] = requisicoes[s]
        /\ requisicoes'[r].fase # "finalizar"
    BY <2>1, TipoInv DEF TipoInv, TypeOK, Requisicao, Parada
  <2>3. QED
    BY <2>1, <2>2, StatusLido DEF StatusLido
<1>7. ASSUME NEW r \in Requisicoes, garantirPosseCompraEtiqueta(r)
      PROVE  StatusLido'
  BY <1>7 DEF garantirPosseCompraEtiqueta, Parada, StatusLido
<1>8. ASSUME NEW r \in Requisicoes, EnviarPago(r)
      PROVE  StatusLido'
  BY CompraAssumption, TipoInv, StatusLido, <1>8 DEF EnviarPago, Vai, Etapa, TipoInv,
         TypeOK, EtiquetasReais, Requisicao, Ordem, Aviso, StatusMe, ComEtiqueta,
         StatusLido, Segue, Parada
<1>9. ASSUME NEW r \in Requisicoes, ReceberResposta(r)
      PROVE  StatusLido'
  BY CompraAssumption, TipoInv, StatusLido, <1>9 DEF ReceberResposta, FaseSeguinte, Etapa,
         Parada, TipoInv, TypeOK, EtiquetasReais, Requisicao, Ordem, Aviso, StatusMe,
         ComEtiqueta, StatusLido, Segue
<1>10. ASSUME NEW r \in Requisicoes, EstourarPrazo(r)
      PROVE  StatusLido'
  BY CompraAssumption, TipoInv, StatusLido, <1>10 DEF EstourarPrazo, DesfechoIncerto, Acaba,
         Parada, TipoInv, TypeOK, EtiquetasReais, Requisicao, Ordem, Aviso, StatusMe,
         ComEtiqueta, StatusLido, Segue
<1>11. ASSUME NEW r \in Requisicoes, Imprimir(r)
      PROVE  StatusLido'
  BY <1>11 DEF Imprimir, TipoInv, TypeOK, StatusLido, Segue
<1>12. ASSUME NEW r \in Requisicoes, finalizarCompraEtiqueta(r)
      PROVE  StatusLido'
  BY <1>12 DEF finalizarCompraEtiqueta, GravarPedido, Acaba, Parada, StatusLido
<1>13. ASSUME NEW r \in Requisicoes, liberarCompraEtiqueta(r)
      PROVE  StatusLido'
  BY CompraAssumption, TipoInv, StatusLido, <1>13 DEF liberarCompraEtiqueta, SemClaimDe,
         Acaba, Parada, TipoInv, TypeOK, EtiquetasReais, Requisicao, Ordem, Aviso, StatusMe,
         ComEtiqueta, StatusLido, Segue
<1>14. ASSUME NEW r \in Requisicoes, Falhar(r)
      PROVE  StatusLido'
  BY CompraAssumption, TipoInv, StatusLido, <1>14 DEF Falhar, Acaba, Parada, TipoInv,
         TypeOK, EtiquetasReais, Requisicao, Ordem, Aviso, StatusMe, ComEtiqueta,
         StatusLido, Segue
<1>15. ASSUME NEW r \in Requisicoes, Congelar(r)
      PROVE  StatusLido'
  BY CompraAssumption, TipoInv, StatusLido, <1>15 DEF Congelar, EmChamadaPaga, TipoInv,
         TypeOK, EtiquetasReais, Requisicao, Ordem, Aviso, StatusMe, ComEtiqueta,
         StatusLido, Segue, Parada
<1>16. ASSUME NEW r \in Requisicoes, Morrer(r)
      PROVE  StatusLido'
  BY CompraAssumption, TipoInv, StatusLido, <1>16 DEF Morrer, Acaba, Parada, TipoInv,
         TypeOK, EtiquetasReais, Requisicao, Ordem, Aviso, StatusMe, ComEtiqueta,
         StatusLido, Segue
<1>17. ASSUME NEW c \in chamadas, ProvedorAtende(c)
      PROVE  StatusLido'
  <2>1. \A e \in Etiquetas : \/ ordens'[e].status = ordens[e].status
                            \/ ordens[e].status \in {"pending", "released"}
    BY TipoInv, <1>17 DEF TipoInv, TypeOK, Chamada, Ordem, ProvedorAtende, Aceita
  <2>2. \A s \in Requisicoes : /\ requisicoes'[s].fase = requisicoes[s].fase
                               /\ requisicoes'[s].etiqueta = requisicoes[s].etiqueta
                               /\ requisicoes'[s].status = requisicoes[s].status
    BY TipoInv, <1>17 DEF TipoInv, TypeOK, Requisicao, ProvedorAtende
  <2>3. /\ \A s \in Requisicoes : requisicoes[s].fase = "finalizar" =>
                               requisicoes[s].etiqueta \in Etiquetas
        /\ \A a \in Avisos : avisos[a].fase = "consultado" => avisos[a].etiqueta \in Etiquetas
    BY TipoInv DEF TipoInv, TypeOK, EtiquetasReais, Requisicao, Aviso, ComEtiqueta
  <2>4. avisos' = avisos
    BY <1>17 DEF ProvedorAtende
  <2>5. QED
    BY StatusLido, <2>1, <2>2, <2>3, <2>4 DEF StatusLido, Segue
<1>18. ASSUME NEW e \in Etiquetas, ProvedorMuda(e)
      PROVE  StatusLido'
  BY CompraAssumption, TipoInv, StatusLido, <1>18 DEF ProvedorMuda, TipoInv, TypeOK,
         EtiquetasReais, Requisicao, Ordem, Aviso, StatusMe, ComEtiqueta, StatusLido, Segue,
         Parada
<1>19. ASSUME NEW a \in Avisos, AvisoLer(a)
      PROVE  StatusLido'
  BY CompraAssumption, TipoInv, StatusLido, <1>19 DEF AvisoLer, ancoraDe, TipoInv, TypeOK,
         EtiquetasReais, Requisicao, Ordem, Aviso, StatusMe, ComEtiqueta, StatusLido, Segue,
         Parada
<1>20. ASSUME NEW a \in Avisos, AvisoConsultar(a)
      PROVE  StatusLido'
  BY <1>20 DEF AvisoConsultar, TipoInv, TypeOK, StatusLido, Segue
<1>21. ASSUME NEW a \in Avisos, AvisoGravar(a)
      PROVE  StatusLido'
  BY <1>21, AvisoGravarEfeito, StatusLido DEF StatusLido
<1>22. ASSUME NEW estado \in EstadosEscolhidos, OnIntegracaoChange(estado)
      PROVE  StatusLido'
  BY CompraAssumption, TipoInv, StatusLido, <1>22 DEF OnIntegracaoChange, Soltar,
         GravarPedido, ancoraDe, TipoInv, TypeOK, EtiquetasReais, Requisicao, Ordem, Aviso,
         StatusMe, ComEtiqueta, StatusLido, Segue, Parada
<1>23. ASSUME ExcluirPedido
      PROVE  StatusLido'
  BY CompraAssumption, TipoInv, StatusLido, <1>23 DEF ExcluirPedido, Soltar, GravarPedido,
         ancoraDe, TipoInv, TypeOK, EtiquetasReais, Requisicao, Ordem, Aviso, StatusMe,
         ComEtiqueta, StatusLido, Segue, Parada
<1>24. CASE UNCHANGED vars
  BY CompraAssumption, TipoInv, StatusLido, <1>24 DEF vars, TipoInv, TypeOK, EtiquetasReais,
         Requisicao, Ordem, Aviso, StatusMe, ComEtiqueta, StatusLido, Segue, Parada
<1>25. ASSUME NEW estado \in EstadoFrete, GravarEstado(estado)
      PROVE  StatusLido'
  BY TipoInv, StatusLido, <1>25, GravarEstadoEfeito DEF StatusLido
<1>26. QED
  BY <1>1, <1>2, <1>3, <1>4, <1>5, <1>6, <1>7, <1>8, <1>9, <1>10, <1>11, <1>12, <1>13,
     <1>14, <1>15, <1>16, <1>17, <1>18, <1>19, <1>20, <1>21, <1>22, <1>23, <1>24, <1>25,
     PassoDe DEF Requisitar, Avisar

(* The estado is the label's. *)
LEMMA EstadoPasso ==
  ASSUME TipoInv, CarrinhoNovo, StatusLido, EstadoDaEtiqueta, [Next]_vars
  PROVE  EstadoDaEtiqueta'
<1>1. ASSUME Tique
      PROVE  EstadoDaEtiqueta'
  BY CompraAssumption, TipoInv, StatusLido, EstadoDaEtiqueta, <1>1 DEF Tique, TipoInv,
         TypeOK, EtiquetasReais, AvisoIntacto, Requisicao, Ordem, Pedido, Aviso, StatusMe,
         ComEtiqueta, ancoraDe, EstadoDaEtiqueta, StatusLido, Segue
<1>2. ASSUME NEW r \in Requisicoes, Chegar(r)
      PROVE  EstadoDaEtiqueta'
  BY CompraAssumption, TipoInv, StatusLido, EstadoDaEtiqueta, <1>2 DEF Chegar, HoraDe,
         TipoInv, TypeOK, EtiquetasReais, AvisoIntacto, Requisicao, Ordem, Pedido, Aviso,
         StatusMe, ComEtiqueta, ancoraDe, EstadoDaEtiqueta, StatusLido, Segue
<1>3. ASSUME NEW r \in Requisicoes, adquirirCompraEtiqueta(r)
      PROVE  EstadoDaEtiqueta'
  BY CompraAssumption, TipoInv, StatusLido, EstadoDaEtiqueta, <1>3 DEF
         adquirirCompraEtiqueta, Ocupado, leaseDe, HoraDe, Parada, TipoInv, TypeOK,
         EtiquetasReais, AvisoIntacto, Requisicao, Ordem, Pedido, Aviso, StatusMe,
         ComEtiqueta, ancoraDe, EstadoDaEtiqueta, StatusLido, Segue
<1>4. ASSUME NEW r \in Requisicoes, BuscarExistente(r)
      PROVE  EstadoDaEtiqueta'
  BY CompraAssumption, TipoInv, StatusLido, EstadoDaEtiqueta, <1>4 DEF BuscarExistente,
         FaseSeguinte, Parada, TipoInv, TypeOK, EtiquetasReais, AvisoIntacto, Requisicao,
         Ordem, Pedido, Aviso, StatusMe, ComEtiqueta, ancoraDe, EstadoDaEtiqueta,
         StatusLido, Segue
<1>5. ASSUME NEW r \in Requisicoes, NEW e \in Etiquetas, AddToCart(r, e)
      PROVE  EstadoDaEtiqueta'
  BY CompraAssumption, TipoInv, StatusLido, EstadoDaEtiqueta, <1>5 DEF AddToCart, TipoInv,
         TypeOK, EtiquetasReais, AvisoIntacto, Requisicao, Ordem, Pedido, Aviso, StatusMe,
         ComEtiqueta, ancoraDe, EstadoDaEtiqueta, StatusLido, Segue
<1>6. ASSUME NEW r \in Requisicoes, ancorarEtiqueta(r)
      PROVE  EstadoDaEtiqueta'
  BY EstadoDaEtiqueta, NuloAssumption, <1>6, AncorarEfeito
     DEF EstadoDaEtiqueta, ancoraDe, estadoAoAncorarNovaEtiqueta
<1>7. ASSUME NEW r \in Requisicoes, garantirPosseCompraEtiqueta(r)
      PROVE  EstadoDaEtiqueta'
  BY CompraAssumption, TipoInv, StatusLido, EstadoDaEtiqueta, <1>7 DEF
         garantirPosseCompraEtiqueta, PodePagar, Possui, leaseDe, HoraDe, Parada, TipoInv,
         TypeOK, EtiquetasReais, AvisoIntacto, Requisicao, Ordem, Pedido, Aviso, StatusMe,
         ComEtiqueta, ancoraDe, EstadoDaEtiqueta, StatusLido, Segue
<1>8. ASSUME NEW r \in Requisicoes, EnviarPago(r)
      PROVE  EstadoDaEtiqueta'
  BY CompraAssumption, TipoInv, StatusLido, EstadoDaEtiqueta, <1>8 DEF EnviarPago, Vai,
         Etapa, TipoInv, TypeOK, EtiquetasReais, AvisoIntacto, Requisicao, Ordem, Pedido,
         Aviso, StatusMe, ComEtiqueta, ancoraDe, EstadoDaEtiqueta, StatusLido, Segue
<1>9. ASSUME NEW r \in Requisicoes, ReceberResposta(r)
      PROVE  EstadoDaEtiqueta'
  BY CompraAssumption, TipoInv, StatusLido, EstadoDaEtiqueta, <1>9 DEF ReceberResposta,
         FaseSeguinte, Etapa, Parada, TipoInv, TypeOK, EtiquetasReais, AvisoIntacto,
         Requisicao, Ordem, Pedido, Aviso, StatusMe, ComEtiqueta, ancoraDe,
         EstadoDaEtiqueta, StatusLido, Segue
<1>10. ASSUME NEW r \in Requisicoes, EstourarPrazo(r)
      PROVE  EstadoDaEtiqueta'
  BY CompraAssumption, TipoInv, StatusLido, EstadoDaEtiqueta, <1>10 DEF EstourarPrazo,
         DesfechoIncerto, Acaba, Parada, TipoInv, TypeOK, EtiquetasReais, AvisoIntacto,
         Requisicao, Ordem, Pedido, Aviso, StatusMe, ComEtiqueta, ancoraDe,
         EstadoDaEtiqueta, StatusLido, Segue
<1>11. ASSUME NEW r \in Requisicoes, Imprimir(r)
      PROVE  EstadoDaEtiqueta'
  BY CompraAssumption, TipoInv, StatusLido, EstadoDaEtiqueta, <1>11 DEF Imprimir, TipoInv,
         TypeOK, EtiquetasReais, AvisoIntacto, Requisicao, Ordem, Pedido, Aviso, StatusMe,
         ComEtiqueta, ancoraDe, EstadoDaEtiqueta, StatusLido, Segue
<1>12. ASSUME NEW r \in Requisicoes, finalizarCompraEtiqueta(r)
      PROVE  EstadoDaEtiqueta'
  <2>1. pedido' # pedido =>
          LET novo == resolverEstadoFinalCompraEtiqueta(pedido.estado, requisicoes[r].status)
          IN /\ pedido.ancora = requisicoes[r].etiqueta
             /\ pedido # Nenhum /\ pedido' # Nenhum /\ pedido'.ancora = pedido.ancora
             /\ pedido'.estado = novo /\ novo # pedido.estado
    BY <1>12, FinalizarEfeito, TipoInv DEF TipoInv, TypeOK, Pedido
  <2>2. pedido' # pedido =>
          \/ pedido'.estado = meStatusToEstadoFrete(requisicoes[r].status)
          \/ pedido'.estado = "aguardandoPostagem"
    BY <2>1 DEF resolverEstadoFinalCompraEtiqueta
  <2>3. Segue(requisicoes[r].status, ordens[requisicoes[r].etiqueta].status)
    BY <1>12, FinalizarEfeito, StatusLido DEF StatusLido
  <2>4. CASE pedido' = pedido
    BY <2>4, <1>12, FinalizarEfeito, EstadoDaEtiqueta DEF EstadoDaEtiqueta
  <2>5. CASE pedido' # pedido
    BY <2>1, <2>2, <2>3, <2>5, <1>12, FinalizarEfeito, NuloAssumption
       DEF EstadoDaEtiqueta, Segue, ancoraDe, meStatusToEstadoFrete, EstadoFrete
  <2>6. QED
    BY <2>4, <2>5
<1>13. ASSUME NEW r \in Requisicoes, liberarCompraEtiqueta(r)
      PROVE  EstadoDaEtiqueta'
  BY CompraAssumption, TipoInv, StatusLido, EstadoDaEtiqueta, <1>13 DEF
         liberarCompraEtiqueta, SemClaimDe, Acaba, Parada, TipoInv, TypeOK, EtiquetasReais,
         AvisoIntacto, Requisicao, Ordem, Pedido, Aviso, StatusMe, ComEtiqueta, ancoraDe,
         EstadoDaEtiqueta, StatusLido, Segue
<1>14. ASSUME NEW r \in Requisicoes, Falhar(r)
      PROVE  EstadoDaEtiqueta'
  BY CompraAssumption, TipoInv, StatusLido, EstadoDaEtiqueta, <1>14 DEF Falhar, Acaba,
         Parada, TipoInv, TypeOK, EtiquetasReais, AvisoIntacto, Requisicao, Ordem, Pedido,
         Aviso, StatusMe, ComEtiqueta, ancoraDe, EstadoDaEtiqueta, StatusLido, Segue
<1>15. ASSUME NEW r \in Requisicoes, Congelar(r)
      PROVE  EstadoDaEtiqueta'
  BY CompraAssumption, TipoInv, StatusLido, EstadoDaEtiqueta, <1>15 DEF Congelar,
         EmChamadaPaga, TipoInv, TypeOK, EtiquetasReais, AvisoIntacto, Requisicao, Ordem,
         Pedido, Aviso, StatusMe, ComEtiqueta, ancoraDe, EstadoDaEtiqueta, StatusLido, Segue
<1>16. ASSUME NEW r \in Requisicoes, Morrer(r)
      PROVE  EstadoDaEtiqueta'
  BY CompraAssumption, TipoInv, StatusLido, EstadoDaEtiqueta, <1>16 DEF Morrer, Acaba,
         Parada, TipoInv, TypeOK, EtiquetasReais, AvisoIntacto, Requisicao, Ordem, Pedido,
         Aviso, StatusMe, ComEtiqueta, ancoraDe, EstadoDaEtiqueta, StatusLido, Segue
<1>17. ASSUME NEW c \in chamadas, ProvedorAtende(c)
      PROVE  EstadoDaEtiqueta'
  BY <1>17 DEF ProvedorAtende, Aceita, TipoInv, TypeOK, Pedido, ancoraDe, EstadoDaEtiqueta
<1>18. ASSUME NEW e \in Etiquetas, ProvedorMuda(e)
      PROVE  EstadoDaEtiqueta'
  BY CompraAssumption, TipoInv, StatusLido, EstadoDaEtiqueta, <1>18 DEF ProvedorMuda,
         TipoInv, TypeOK, EtiquetasReais, AvisoIntacto, Requisicao, Ordem, Pedido, Aviso,
         StatusMe, ComEtiqueta, ancoraDe, EstadoDaEtiqueta, StatusLido, Segue
<1>19. ASSUME NEW a \in Avisos, AvisoLer(a)
      PROVE  EstadoDaEtiqueta'
  BY CompraAssumption, TipoInv, StatusLido, EstadoDaEtiqueta, <1>19 DEF AvisoLer, ancoraDe,
         TipoInv, TypeOK, EtiquetasReais, AvisoIntacto, Requisicao, Ordem, Pedido, Aviso,
         StatusMe, ComEtiqueta, EstadoDaEtiqueta, StatusLido, Segue
<1>20. ASSUME NEW a \in Avisos, AvisoConsultar(a)
      PROVE  EstadoDaEtiqueta'
  BY CompraAssumption, TipoInv, StatusLido, EstadoDaEtiqueta, <1>20 DEF AvisoConsultar,
         TipoInv, TypeOK, EtiquetasReais, AvisoIntacto, Requisicao, Ordem, Pedido, Aviso,
         StatusMe, ComEtiqueta, ancoraDe, EstadoDaEtiqueta, StatusLido, Segue
<1>21. ASSUME NEW a \in Avisos, AvisoGravar(a)
      PROVE  EstadoDaEtiqueta'
  <2>1. pedido' # pedido =>
          /\ pedido # Nenhum /\ pedido.ancora = avisos[a].etiqueta
          /\ pedido'.ancora = pedido.ancora
          /\ pedido'.estado = meStatusToEstadoFrete(avisos[a].status)
    BY <1>21, AvisoGravarEfeito, TipoInv DEF TipoInv, AvisoIntacto
  <2>2. Segue(avisos[a].status, ordens[avisos[a].etiqueta].status)
    BY <1>21, AvisoGravarEfeito, StatusLido DEF StatusLido
  <2>3. CASE pedido' = pedido
    BY <2>3, <1>21, AvisoGravarEfeito, EstadoDaEtiqueta DEF EstadoDaEtiqueta
  <2>4. CASE pedido' # pedido
    BY <2>1, <2>2, <2>4, <1>21, AvisoGravarEfeito, NuloAssumption
       DEF EstadoDaEtiqueta, Segue, ancoraDe, meStatusToEstadoFrete, EstadoFrete
  <2>5. QED
    BY <2>3, <2>4
<1>22. ASSUME NEW estado \in EstadosEscolhidos, OnIntegracaoChange(estado)
      PROVE  EstadoDaEtiqueta'
  BY CompraAssumption, TipoInv, StatusLido, EstadoDaEtiqueta, <1>22 DEF OnIntegracaoChange,
         Soltar, GravarPedido, ancoraDe, TipoInv, TypeOK, EtiquetasReais, AvisoIntacto,
         Requisicao, Ordem, Pedido, Aviso, StatusMe, ComEtiqueta, EstadoDaEtiqueta,
         StatusLido, Segue
<1>23. ASSUME ExcluirPedido
      PROVE  EstadoDaEtiqueta'
  BY CompraAssumption, TipoInv, StatusLido, EstadoDaEtiqueta, <1>23 DEF ExcluirPedido,
         Soltar, GravarPedido, ancoraDe, TipoInv, TypeOK, EtiquetasReais, AvisoIntacto,
         Requisicao, Ordem, Pedido, Aviso, StatusMe, ComEtiqueta, EstadoDaEtiqueta,
         StatusLido, Segue
<1>24. CASE UNCHANGED vars
  BY CompraAssumption, TipoInv, StatusLido, EstadoDaEtiqueta, <1>24 DEF vars, TipoInv,
         TypeOK, EtiquetasReais, AvisoIntacto, Requisicao, Ordem, Pedido, Aviso, StatusMe,
         ComEtiqueta, ancoraDe, EstadoDaEtiqueta, StatusLido, Segue
<1>25. ASSUME NEW estado \in EstadoFrete, GravarEstado(estado)
      PROVE  EstadoDaEtiqueta'
  BY TipoInv, EstadoDaEtiqueta, <1>25, GravarEstadoEfeito DEF EstadoDaEtiqueta
<1>26. QED
  BY <1>1, <1>2, <1>3, <1>4, <1>5, <1>6, <1>7, <1>8, <1>9, <1>10, <1>11, <1>12, <1>13,
     <1>14, <1>15, <1>16, <1>17, <1>18, <1>19, <1>20, <1>21, <1>22, <1>23, <1>24, <1>25,
     PassoDe DEF Requisitar, Avisar

-----------------------------------------------------------------------------
(* The invariant.                                                          *)

(* Nothing is bought yet.                                                  *)
LEMMA InicioInv == Init => IInv
<1> SUFFICES ASSUME Init PROVE IInv
  OBVIOUS
<1>1. TypeOK
  <2>1. Parada("fora") \in Requisicao
    BY DEF Parada, Requisicao, StatusMe
  <2>2. AvisoParado \in Aviso
    BY DEF AvisoParado, Aviso, StatusMe
  <2>3. pedido \in Pedido
    BY CompraAssumption DEF Init, Pedido
  <2>4. ordens \in [Etiquetas -> Ordem]
    BY DEF Init, Ordem, StatusMe
  <2>5. alheio \in BOOLEAN
    BY DEF Init
  <2>6. QED
    BY <2>1, <2>2, <2>3, <2>4, <2>5, CompraAssumption DEF Init, TypeOK
<1>2. pedido # Nenhum /\ ancoraDe(pedido) = Nenhum
  BY <1>1, NuloAssumption, CompraAssumption DEF Init, ancoraDe, Pedido
<1>3. /\ \A r \in Requisicoes : requisicoes[r] = Parada("fora")
      /\ \A a \in Avisos : avisos[a] = AvisoParado
      /\ chamadas = {} /\ claim = Nenhum
      /\ \A e \in Etiquetas : ~ordens[e].pago
  BY DEF Init
<1>4. TipoInv
  BY <1>1, <1>2, <1>3 DEF TipoInv, EtiquetasReais, AvisoIntacto, Parada, AvisoParado, ComEtiqueta
<1>5. CarrinhoNovo /\ ChamadaDoRun /\ ConheceOrdem
  BY <1>3 DEF CarrinhoNovo, ChamadaDoRun, ConheceOrdem, Parada
<1>6. AutorizadaPresa /\ PrazoVivo
  BY <1>3 DEF AutorizadaPresa, Autorizada, PrazoVivo, EmChamadaPaga, Parada
<1>7. PosseViva
  BY <1>3 DEF PosseViva, PosseDoRun, ComClaim, ComEtiqueta, Parada
<1>8. StatusLido /\ EstadoDaEtiqueta
  BY <1>2, <1>3 DEF StatusLido, EstadoDaEtiqueta, Parada, AvisoParado
<1>9. QED
  BY <1>4, <1>5, <1>6, <1>7, <1>8 DEF IInv

(* Every step keeps every part of the invariant.                           *)
LEMMA InvPasso == IInv /\ [Next]_vars => IInv'
<1> SUFFICES ASSUME IInv, [Next]_vars PROVE IInv'
  OBVIOUS
<1>1. TypeOK' /\ EtiquetasReais' /\ AvisoIntacto'
  BY TypePasso, EtiquetasPasso, AvisoPasso DEF IInv
<1>2. ChamadaDoRun' /\ CarrinhoNovo' /\ ConheceOrdem'
  BY ChamadaPasso, CarrinhoPasso, ConhecePasso DEF IInv
<1>3. AutorizadaPresa' /\ PosseViva' /\ PrazoVivo'
  BY AutorizadaPasso, PossePasso, PrazoPasso DEF IInv
<1>4. StatusLido' /\ EstadoDaEtiqueta'
  BY StatusPasso, EstadoPasso DEF IInv
<1>5. QED
  BY <1>1, <1>2, <1>3, <1>4 DEF IInv, TipoInv

(* The inductive invariant holds in every reachable state.                 *)
THEOREM Invariante == Spec => []IInv
<1>1. QED
  BY InicioInv, InvPasso, PTL DEF Spec

(* The variables have their types: every write of the routes and of the    *)
(* webhook task leaves a claim, a pedido and locals of the declared shape. *)
THEOREM Tipos == Spec => []TypeOK
<1>1. IInv => TypeOK
  BY DEF IInv, TipoInv
<1>2. QED
  BY <1>1, Invariante, PTL

(* Every label authorised, and not detached afterwards by an operator, is  *)
(* the anchored one: the route pays for one label.                         *)
THEOREM UnicaEtiqueta == Spec => []UmaEtiquetaPaga
<1>1. IInv => UmaEtiquetaPaga
  BY DEF IInv, AutorizadaPresa, UmaEtiquetaPaga
<1>2. QED
  BY <1>1, Invariante, PTL

(* The deadlines inside the paid window end a call before its claim has    *)
(* expired on the fastest clock, so the run in it still has the claim.     *)
THEOREM PosseNaChamada == Spec => []PosseDuranteChamada
<1>1. IInv => PosseDuranteChamada
  <2> SUFFICES ASSUME IInv, NEW r \in Requisicoes, EmChamadaPaga(r),
                      ~requisicoes[r].congelada
               PROVE  claim # Nenhum /\ claim.dono = r
    BY DEF PosseDuranteChamada
  <2> DEFINE q == requisicoes[r]
  <2>1. /\ q.inicio \in Nat /\ q.limite \in Nat /\ q.expira \in Nat /\ agora \in Nat
        /\ \A s \in Requisicoes : Relogio[s] \in Nat
        /\ COMPRA_ETIQUETA_JANELA_PAGA_MS \in Nat /\ PRAZO_PAGO \in Nat
        /\ COMPRA_ETIQUETA_LEASE_MS \in Nat
    BY CompraAssumption DEF IInv, TipoInv, TypeOK, Requisicao
  <2>2. agora <= q.limite
        /\ q.limite + Relogio[r] < q.inicio + COMPRA_ETIQUETA_JANELA_PAGA_MS + PRAZO_PAGO
    BY DEF IInv, PrazoVivo
  <2>3. PosseDoRun(r) /\ q.fase \in ComClaim
    BY DEF IInv, PosseViva, EmChamadaPaga, ComClaim, ComEtiqueta
  <2>4. q.inicio + COMPRA_ETIQUETA_LEASE_MS <= q.expira /\ ClaimVivo(r, q.expira)
    BY <2>3 DEF PosseDoRun
  <2>5. ASSUME NEW s \in Requisicoes
        PROVE  HoraDe(s) < q.expira
    <3>1. COMPRA_ETIQUETA_JANELA_PAGA_MS + PRAZO_PAGO + Relogio[s]
            <= COMPRA_ETIQUETA_LEASE_MS + Relogio[r]
      BY PrazosAssumption
    <3> HIDE DEF q
    <3>2. QED
      BY <2>1, <2>2, <2>4, <3>1 DEF HoraDe
  <2>6. QED
    BY <2>4, <2>5 DEF ClaimVivo
<1>2. QED
  BY <1>1, Invariante, PTL

(* A payment whose answer nobody saw keeps its claim until that expires:   *)
(* the route does not release it and nobody takes it over.                 *)
THEOREM PendenteGuarda == Spec => []PendenteGuardada
<1>1. IInv => PendenteGuardada
  BY DEF IInv, PosseViva, PosseDaChamada, ClaimVivo, PendenteGuardada
<1>2. QED
  BY <1>1, Invariante, PTL

(* A posted or terminal estado is the anchored label's own, unless an      *)
(* operator wrote it: ancorarEtiqueta resets what the shipment before it   *)
(* left.                                                                   *)
THEOREM EstadoDoEnvio == Spec => []EstadoDaEtiqueta
<1>1. IInv => EstadoDaEtiqueta
  BY DEF IInv
<1>2. QED
  BY <1>1, Invariante, PTL

-----------------------------------------------------------------------------
(* What a step may not do.                                                 *)

SemRegresso ==
  ancoraDe(pedido) # Nenhum /\ ancoraDe(pedido') = ancoraDe(pedido) /\ ~alheio' =>
    /\ ehEstadoFreteTerminal(pedido.estado) => pedido'.estado = pedido.estado
    /\ pedido.estado = "postado" => pedido'.estado # "aguardandoPostagem"

(* Only the finalize, a webhook task and an operator write the estado of a *)
(* pedido that keeps its label.                                            *)
LEMMA SemRegressoPasso ==
  ASSUME TipoInv, [Next]_vars
  PROVE  SemRegresso
<1>1. ASSUME Tique
      PROVE  SemRegresso
  BY TipoInv, <1>1 DEF Tique, SemRegresso
<1>2. ASSUME NEW r \in Requisicoes, Chegar(r)
      PROVE  SemRegresso
  BY TipoInv, <1>2 DEF Chegar, HoraDe, SemRegresso
<1>3. ASSUME NEW r \in Requisicoes, adquirirCompraEtiqueta(r)
      PROVE  SemRegresso
  BY TipoInv, <1>3 DEF adquirirCompraEtiqueta, Ocupado, leaseDe, HoraDe, Parada, SemRegresso
<1>4. ASSUME NEW r \in Requisicoes, BuscarExistente(r)
      PROVE  SemRegresso
  BY TipoInv, <1>4 DEF BuscarExistente, FaseSeguinte, Parada, SemRegresso
<1>5. ASSUME NEW r \in Requisicoes, NEW e \in Etiquetas, AddToCart(r, e)
      PROVE  SemRegresso
  BY TipoInv, <1>5 DEF AddToCart, SemRegresso
<1>6. ASSUME NEW r \in Requisicoes, ancorarEtiqueta(r)
      PROVE  SemRegresso
  BY TipoInv, <1>6, AncorarEfeito, NuloAssumption DEF ancoraDe, SemRegresso
<1>7. ASSUME NEW r \in Requisicoes, garantirPosseCompraEtiqueta(r)
      PROVE  SemRegresso
  BY TipoInv, <1>7 DEF garantirPosseCompraEtiqueta, PodePagar, Possui, leaseDe, HoraDe,
         Parada, SemRegresso
<1>8. ASSUME NEW r \in Requisicoes, EnviarPago(r)
      PROVE  SemRegresso
  BY TipoInv, <1>8 DEF EnviarPago, Vai, Etapa, SemRegresso
<1>9. ASSUME NEW r \in Requisicoes, ReceberResposta(r)
      PROVE  SemRegresso
  BY TipoInv, <1>9 DEF ReceberResposta, FaseSeguinte, Etapa, Parada, SemRegresso
<1>10. ASSUME NEW r \in Requisicoes, EstourarPrazo(r)
      PROVE  SemRegresso
  BY TipoInv, <1>10 DEF EstourarPrazo, DesfechoIncerto, Acaba, Parada, SemRegresso
<1>11. ASSUME NEW r \in Requisicoes, Imprimir(r)
      PROVE  SemRegresso
  BY TipoInv, <1>11 DEF Imprimir, SemRegresso
<1>12. ASSUME NEW r \in Requisicoes, finalizarCompraEtiqueta(r)
      PROVE  SemRegresso
  BY TipoInv, <1>12, FinalizarEfeito
     DEF SemRegresso, ancoraDe, resolverEstadoFinalCompraEtiqueta, meStatusToEstadoFrete
<1>13. ASSUME NEW r \in Requisicoes, liberarCompraEtiqueta(r)
      PROVE  SemRegresso
  BY TipoInv, <1>13 DEF liberarCompraEtiqueta, SemClaimDe, Acaba, Parada, SemRegresso
<1>14. ASSUME NEW r \in Requisicoes, Falhar(r)
      PROVE  SemRegresso
  BY TipoInv, <1>14 DEF Falhar, Acaba, Parada, SemRegresso
<1>15. ASSUME NEW r \in Requisicoes, Congelar(r)
      PROVE  SemRegresso
  BY TipoInv, <1>15 DEF Congelar, EmChamadaPaga, SemRegresso
<1>16. ASSUME NEW r \in Requisicoes, Morrer(r)
      PROVE  SemRegresso
  BY TipoInv, <1>16 DEF Morrer, Acaba, Parada, SemRegresso
<1>17. ASSUME NEW c \in chamadas, ProvedorAtende(c)
      PROVE  SemRegresso
  BY TipoInv, <1>17 DEF ProvedorAtende, Aceita, SemRegresso
<1>18. ASSUME NEW e \in Etiquetas, ProvedorMuda(e)
      PROVE  SemRegresso
  BY TipoInv, <1>18 DEF ProvedorMuda, SemRegresso
<1>19. ASSUME NEW a \in Avisos, AvisoLer(a)
      PROVE  SemRegresso
  BY TipoInv, <1>19 DEF AvisoLer, ancoraDe, SemRegresso
<1>20. ASSUME NEW a \in Avisos, AvisoConsultar(a)
      PROVE  SemRegresso
  BY TipoInv, <1>20 DEF AvisoConsultar, SemRegresso
<1>21. ASSUME NEW a \in Avisos, AvisoGravar(a)
      PROVE  SemRegresso
  <2>1. avisos[a].intacto => avisos[a].terminal = ehEstadoFreteTerminal(pedido.estado)
    BY TipoInv DEF TipoInv, AvisoIntacto
  <2>2. QED
    BY <2>1, TipoInv, <1>21, AvisoGravarEfeito DEF SemRegresso, meStatusToEstadoFrete
<1>22. ASSUME NEW estado \in EstadosEscolhidos, OnIntegracaoChange(estado)
      PROVE  SemRegresso
  BY TipoInv, <1>22 DEF OnIntegracaoChange, Soltar, GravarPedido, ancoraDe, SemRegresso
<1>23. ASSUME ExcluirPedido
      PROVE  SemRegresso
  BY TipoInv, <1>23 DEF ExcluirPedido, Soltar, GravarPedido, ancoraDe, SemRegresso
<1>24. CASE UNCHANGED vars
  BY TipoInv, <1>24 DEF vars, SemRegresso
<1>25. ASSUME NEW estado \in EstadoFrete, GravarEstado(estado)
      PROVE  SemRegresso
  BY TipoInv, <1>25, GravarEstadoEfeito DEF SemRegresso, ehEstadoFreteTerminal
<1>26. QED
  BY <1>1, <1>2, <1>3, <1>4, <1>5, <1>6, <1>7, <1>8, <1>9, <1>10, <1>11, <1>12, <1>13,
     <1>14, <1>15, <1>16, <1>17, <1>18, <1>19, <1>20, <1>21, <1>22, <1>23, <1>24, <1>25,
     PassoDe DEF Requisitar, Avisar

(* While the label stays, no purchase and no webhook takes back a terminal *)
(* estado, an operator's included, or makes a posted parcel wait for       *)
(* posting again, whichever of the two is last.                            *)
THEOREM EstadoSemRegresso == Spec => EstadoNaoRegride
<1>1. IInv /\ [Next]_vars => [SemRegresso]_vars
  BY SemRegressoPasso DEF IInv
<1>2. QED
  BY <1>1, Invariante, PTL DEF Spec, EstadoNaoRegride, SemRegresso

Sucesso ==
  \A r \in Requisicoes :
    requisicoes'[r].fase = "sucesso" /\ requisicoes[r].fase # "sucesso" =>
      LET e == requisicoes[r].etiqueta
      IN ancoraDe(pedido') = e /\ ordens[e].pago /\ ordens[e].gerado


(* Only the finalize answers that a purchase is done. *)
LEMMA SucessoPasso ==
  ASSUME TipoInv, ConheceOrdem, [Next]_vars
  PROVE  Sucesso
<1>1. ASSUME Tique
      PROVE  Sucesso
  BY TipoInv, <1>1 DEF Tique, TipoInv, TypeOK, Requisicao, Parada, Sucesso
<1>2. ASSUME NEW r \in Requisicoes, Chegar(r)
      PROVE  Sucesso
  BY TipoInv, <1>2 DEF Chegar, HoraDe, TipoInv, TypeOK, Requisicao, Parada, Sucesso
<1>3. ASSUME NEW r \in Requisicoes, adquirirCompraEtiqueta(r)
      PROVE  Sucesso
  BY TipoInv, <1>3 DEF adquirirCompraEtiqueta, Ocupado, leaseDe, HoraDe, Parada, TipoInv,
         TypeOK, Requisicao, Sucesso
<1>4. ASSUME NEW r \in Requisicoes, BuscarExistente(r)
      PROVE  Sucesso
  BY TipoInv, <1>4 DEF BuscarExistente, FaseSeguinte, Parada, TipoInv, TypeOK, Requisicao,
         Sucesso
<1>5. ASSUME NEW r \in Requisicoes, NEW e \in Etiquetas, AddToCart(r, e)
      PROVE  Sucesso
  BY TipoInv, <1>5 DEF AddToCart, TipoInv, TypeOK, Requisicao, Parada, Sucesso
<1>6. ASSUME NEW r \in Requisicoes, ancorarEtiqueta(r)
      PROVE  Sucesso
  BY TipoInv, <1>6, AncorarEfeito DEF TipoInv, TypeOK, Requisicao, Parada, Sucesso
<1>7. ASSUME NEW r \in Requisicoes, garantirPosseCompraEtiqueta(r)
      PROVE  Sucesso
  BY TipoInv, <1>7 DEF garantirPosseCompraEtiqueta, PodePagar, Possui, leaseDe, HoraDe,
         Parada, TipoInv, TypeOK, Requisicao, Sucesso
<1>8. ASSUME NEW r \in Requisicoes, EnviarPago(r)
      PROVE  Sucesso
  BY TipoInv, <1>8 DEF EnviarPago, Vai, Etapa, TipoInv, TypeOK, Requisicao, Parada, Sucesso
<1>9. ASSUME NEW r \in Requisicoes, ReceberResposta(r)
      PROVE  Sucesso
  BY TipoInv, <1>9 DEF ReceberResposta, FaseSeguinte, Etapa, Parada, TipoInv, TypeOK,
         Requisicao, Sucesso
<1>10. ASSUME NEW r \in Requisicoes, EstourarPrazo(r)
      PROVE  Sucesso
  BY TipoInv, <1>10 DEF EstourarPrazo, DesfechoIncerto, Acaba, Parada, TipoInv, TypeOK,
         Requisicao, Sucesso
<1>11. ASSUME NEW r \in Requisicoes, Imprimir(r)
      PROVE  Sucesso
  BY TipoInv, <1>11 DEF Imprimir, TipoInv, TypeOK, Requisicao, Parada, Sucesso
<1>12. ASSUME NEW r \in Requisicoes, finalizarCompraEtiqueta(r)
      PROVE  Sucesso
  <2>1. /\ requisicoes[r].fase = "finalizar"
        /\ requisicoes' = [requisicoes EXCEPT
             ![r] = Parada(IF Vinculada(r) THEN "sucesso" ELSE "fim")]
        /\ ancoraDe(pedido') = ancoraDe(pedido)
    BY TipoInv, <1>12, FinalizarEfeito
  <2>2. SUFFICES ASSUME NEW s \in Requisicoes, requisicoes'[s].fase = "sucesso",
                        requisicoes[s].fase # "sucesso"
                 PROVE  LET e == requisicoes[s].etiqueta
                        IN ancoraDe(pedido') = e /\ ordens[e].pago /\ ordens[e].gerado
    BY DEF Sucesso
  <2>3. s = r /\ Vinculada(r)
    BY <2>1, <2>2, TipoInv DEF TipoInv, TypeOK, Parada
  <2>4. ancoraDe(pedido) = requisicoes[r].etiqueta
    BY <2>3 DEF Vinculada, ancoraDe
  <2>5. requisicoes[r].pago /\ requisicoes[r].gerado
    BY <2>1, ConheceOrdem DEF ConheceOrdem
  <2>6. ordens[requisicoes[r].etiqueta].pago /\ ordens[requisicoes[r].etiqueta].gerado
    BY <2>5, ConheceOrdem DEF ConheceOrdem
  <2>7. QED
    BY <2>1, <2>3, <2>4, <2>6
<1>13. ASSUME NEW r \in Requisicoes, liberarCompraEtiqueta(r)
      PROVE  Sucesso
  BY TipoInv, <1>13 DEF liberarCompraEtiqueta, SemClaimDe, Acaba, Parada, TipoInv, TypeOK,
         Requisicao, Sucesso
<1>14. ASSUME NEW r \in Requisicoes, Falhar(r)
      PROVE  Sucesso
  BY TipoInv, <1>14 DEF Falhar, Acaba, Parada, TipoInv, TypeOK, Requisicao, Sucesso
<1>15. ASSUME NEW r \in Requisicoes, Congelar(r)
      PROVE  Sucesso
  BY TipoInv, <1>15 DEF Congelar, EmChamadaPaga, TipoInv, TypeOK, Requisicao, Parada,
         Sucesso
<1>16. ASSUME NEW r \in Requisicoes, Morrer(r)
      PROVE  Sucesso
  BY TipoInv, <1>16 DEF Morrer, Acaba, Parada, TipoInv, TypeOK, Requisicao, Sucesso
<1>17. ASSUME NEW c \in chamadas, ProvedorAtende(c)
      PROVE  Sucesso
  BY TipoInv, <1>17 DEF ProvedorAtende, Aceita, TipoInv, TypeOK, Requisicao, Parada, Sucesso
<1>18. ASSUME NEW e \in Etiquetas, ProvedorMuda(e)
      PROVE  Sucesso
  BY TipoInv, <1>18 DEF ProvedorMuda, TipoInv, TypeOK, Requisicao, Parada, Sucesso
<1>19. ASSUME NEW a \in Avisos, AvisoLer(a)
      PROVE  Sucesso
  BY TipoInv, <1>19 DEF AvisoLer, ancoraDe, TipoInv, TypeOK, Requisicao, Parada, Sucesso
<1>20. ASSUME NEW a \in Avisos, AvisoConsultar(a)
      PROVE  Sucesso
  BY TipoInv, <1>20 DEF AvisoConsultar, TipoInv, TypeOK, Requisicao, Parada, Sucesso
<1>21. ASSUME NEW a \in Avisos, AvisoGravar(a)
      PROVE  Sucesso
  BY TipoInv, <1>21 DEF AvisoGravar, Precondicao, AvisoParado, meStatusToEstadoFrete,
         TipoInv, TypeOK, Requisicao, Parada, Sucesso
<1>22. ASSUME NEW estado \in EstadosEscolhidos, OnIntegracaoChange(estado)
      PROVE  Sucesso
  BY TipoInv, <1>22 DEF OnIntegracaoChange, Soltar, GravarPedido, ancoraDe, TipoInv, TypeOK,
         Requisicao, Parada, Sucesso
<1>23. ASSUME ExcluirPedido
      PROVE  Sucesso
  BY TipoInv, <1>23 DEF ExcluirPedido, Soltar, GravarPedido, ancoraDe, TipoInv, TypeOK,
         Requisicao, Parada, Sucesso
<1>24. CASE UNCHANGED vars
  BY TipoInv, <1>24 DEF vars, TipoInv, TypeOK, Requisicao, Parada, Sucesso
<1>25. ASSUME NEW estado \in EstadoFrete, GravarEstado(estado)
      PROVE  Sucesso
  BY TipoInv, <1>25, GravarEstadoEfeito DEF Sucesso
<1>26. QED
  BY <1>1, <1>2, <1>3, <1>4, <1>5, <1>6, <1>7, <1>8, <1>9, <1>10, <1>11, <1>12, <1>13,
     <1>14, <1>15, <1>16, <1>17, <1>18, <1>19, <1>20, <1>21, <1>22, <1>23, <1>24, <1>25,
     PassoDe DEF Requisitar, Avisar

(* A purchase answered as done left the pedido on a label that is paid and *)
(* generated.                                                              *)
THEOREM SucessoSoComEtiqueta == Spec => SucessoVerdadeiro
<1>1. IInv /\ [Next]_vars => [Sucesso]_vars
  BY SucessoPasso DEF IInv
<1>2. QED
  BY <1>1, Invariante, PTL DEF Spec, SucessoVerdadeiro, Sucesso

-----------------------------------------------------------------------------
(* The refinement.                                                         *)

(* The step authorises nothing, and gives up at most the label e.          *)
SoDesiste(e) ==
  /\ ancoraDe(pedido') = ancoraDe(pedido) /\ soltas' = soltas
  /\ \A f \in Etiquetas : /\ ordens'[f].pago = ordens[f].pago
                          /\ Autorizada(f)' => Autorizada(f)
                          /\ f # e => (Autorizada(f) => Autorizada(f)')

(* Such a step is a Desistir of CompraUnica, or nothing.                   *)
LEMMA DesisteOuNada ==
  ASSUME NEW e, SoDesiste(e)
  PROVE  Unica!Next \/ UNCHANGED Unica!vars
<1>1. /\ ancoraDe(pedido)' = ancoraDe(pedido) /\ soltas' = soltas
      /\ {f \in Etiquetas : ordens[f].pago}' = {f \in Etiquetas : ordens[f].pago}
  BY DEF SoDesiste
<1>2. CASE e \in Etiquetas /\ Autorizada(e) /\ ~Autorizada(e)'
  <2>1. ~ordens[e].pago
    BY <1>2 DEF Autorizada, SoDesiste
  <2>2. {f \in Etiquetas : Autorizada(f)}' = {f \in Etiquetas : Autorizada(f)} \ {e}
    BY <1>2 DEF SoDesiste
  <2>3. Unica!Desistir(e)
    BY <1>1, <1>2, <2>1, <2>2 DEF Unica!Desistir
  <2>4. QED
    BY <1>2, <2>3 DEF Unica!Next
<1>3. CASE ~(e \in Etiquetas /\ Autorizada(e) /\ ~Autorizada(e)')
  <2>1. {f \in Etiquetas : Autorizada(f)}' = {f \in Etiquetas : Autorizada(f)}
    BY <1>3 DEF SoDesiste
  <2>2. QED
    BY <1>1, <2>1 DEF Unica!vars
<1>4. QED
  BY <1>2, <1>3

(* Every step is one of CompraUnica, or changes nothing of it. *)
LEMMA UnicaPasso ==
  ASSUME TipoInv, CarrinhoNovo, ConheceOrdem, [Next]_vars
  PROVE  Unica!Next \/ UNCHANGED Unica!vars
<1>1. ASSUME Tique
      PROVE  Unica!Next \/ UNCHANGED Unica!vars
  <2>1. SoDesiste(Nenhum)
    BY TipoInv, CompraAssumption, <1>1
       DEF Tique,
           TipoInv, TypeOK, Requisicao, Ordem, Chamada, Autorizada, EmChamadaPaga, Etapa, Parada, SoDesiste,
           ancoraDe
  <2>2. QED
    BY <2>1, DesisteOuNada
<1>2. ASSUME NEW r \in Requisicoes, Chegar(r)
      PROVE  Unica!Next \/ UNCHANGED Unica!vars
  <2>1. SoDesiste(Nenhum)
    BY TipoInv, CompraAssumption, <1>2
       DEF Chegar, HoraDe,
           TipoInv, TypeOK, Requisicao, Ordem, Chamada, Autorizada, EmChamadaPaga, Etapa, Parada, SoDesiste,
           ancoraDe
  <2>2. QED
    BY <2>1, DesisteOuNada
<1>3. ASSUME NEW r \in Requisicoes, adquirirCompraEtiqueta(r)
      PROVE  Unica!Next \/ UNCHANGED Unica!vars
  <2>1. SoDesiste(Nenhum)
    BY TipoInv, CompraAssumption, <1>3
       DEF adquirirCompraEtiqueta, Ocupado, leaseDe, HoraDe,
           TipoInv, TypeOK, Requisicao, Ordem, Chamada, Autorizada, EmChamadaPaga, Etapa, Parada, SoDesiste,
           ancoraDe
  <2>2. QED
    BY <2>1, DesisteOuNada
<1>4. ASSUME NEW r \in Requisicoes, BuscarExistente(r)
      PROVE  Unica!Next \/ UNCHANGED Unica!vars
  <2>1. SoDesiste(Nenhum)
    BY TipoInv, CompraAssumption, <1>4
       DEF BuscarExistente, FaseSeguinte,
           TipoInv, TypeOK, Requisicao, Ordem, Chamada, Autorizada, EmChamadaPaga, Etapa, Parada, SoDesiste,
           ancoraDe
  <2>2. QED
    BY <2>1, DesisteOuNada
<1>5. ASSUME NEW r \in Requisicoes, NEW e \in Etiquetas, AddToCart(r, e)
      PROVE  Unica!Next \/ UNCHANGED Unica!vars
  <2>1. SoDesiste(Nenhum)
    BY TipoInv, CompraAssumption, <1>5
       DEF AddToCart,
           TipoInv, TypeOK, Requisicao, Ordem, Chamada, Autorizada, EmChamadaPaga, Etapa, Parada, SoDesiste,
           ancoraDe
  <2>2. QED
    BY <2>1, DesisteOuNada
<1>6. ASSUME NEW r \in Requisicoes, ancorarEtiqueta(r)
      PROVE  Unica!Next \/ UNCHANGED Unica!vars
  <2>1. /\ requisicoes[r].fase = "ancorar"
        /\ UNCHANGED <<ordens, chamadas, soltas>>
        /\ \/ requisicoes' = [requisicoes EXCEPT ![r].fase = "cercar"]
           \/ requisicoes' = [requisicoes EXCEPT ![r] = Parada("liberar")]
        /\ \/ pedido' = pedido
           \/ /\ pedido # Nenhum /\ pedido.ancora = Nenhum
              /\ pedido' = [ancora |-> requisicoes[r].etiqueta,
                             estado |-> estadoAoAncorarNovaEtiqueta(pedido.estado)]
    BY TipoInv, <1>6, AncorarEfeito
  <2>2. \A f \in Etiquetas : Autorizada(f)' <=> Autorizada(f)
    <3>1. \A s \in Requisicoes \ {r} : requisicoes'[s] = requisicoes[s]
      BY <2>1, TipoInv DEF TipoInv, TypeOK
    <3>2. ~EmChamadaPaga(r) /\ ~EmChamadaPaga(r)'
      BY <2>1, TipoInv DEF TipoInv, TypeOK, Requisicao, EmChamadaPaga, Parada
    <3>3. \A s \in Requisicoes \ {r} : /\ EmChamadaPaga(s)' <=> EmChamadaPaga(s)
                                       /\ Etapa(s)' = Etapa(s)
      BY <3>1 DEF EmChamadaPaga, Etapa
    <3>4. QED
      BY <2>1, <3>1, <3>2, <3>3 DEF Autorizada
  <2>3. CASE pedido' = pedido
    <3>1. SoDesiste(Nenhum)
      BY <2>1, <2>2, <2>3 DEF SoDesiste
    <3>2. QED
      BY <3>1, DesisteOuNada
  <2>4. CASE pedido' # pedido
    <3> DEFINE e == requisicoes[r].etiqueta
    <3>1. e \in Etiquetas /\ ~Autorizada(e)
      <4>1. e \in Etiquetas
        BY <2>1, TipoInv DEF TipoInv, TypeOK, EtiquetasReais, Requisicao, ComEtiqueta
      <4>2. /\ ~ordens[e].pago /\ \A c \in chamadas : c.etiqueta # e
            /\ \A s \in Requisicoes : s # r => requisicoes[s].etiqueta # e
        BY <2>1, CarrinhoNovo DEF CarrinhoNovo
      <4>3. ~EmChamadaPaga(r)
        BY <2>1 DEF EmChamadaPaga
      <4>4. QED
        BY <4>1, <4>2, <4>3 DEF Autorizada
    <3>2. ancoraDe(pedido) = Nenhum
      BY <2>1, <2>4 DEF ancoraDe
    <3>3. ancoraDe(pedido)' = e
      <4>1. pedido' \in Pedido \cup {Nenhum}
        BY TypePasso DEF TypeOK
      <4>2. pedido' = [ancora |-> e, estado |-> estadoAoAncorarNovaEtiqueta(pedido.estado)]
        BY <2>1, <2>4
      <4>3. estadoAoAncorarNovaEtiqueta(pedido.estado) \in EstadoFrete
        BY <2>1, <2>4, TipoInv
           DEF TipoInv, TypeOK, Pedido, estadoAoAncorarNovaEtiqueta, EstadoFrete
      <4>4. pedido' \in Pedido
        BY <3>1, <4>2, <4>3 DEF Pedido
      <4>5. QED
        BY <4>2, <4>4, NuloAssumption DEF ancoraDe
    <3>4. {f \in Etiquetas : Autorizada(f)}' = {f \in Etiquetas : Autorizada(f)}
      BY <2>2
    <3>5. {f \in Etiquetas : ordens[f].pago}' = {f \in Etiquetas : ordens[f].pago}
      BY <2>1
    <3>6. Unica!Ancorar(e)
      BY <2>1, <3>1, <3>2, <3>3, <3>4, <3>5 DEF Unica!Ancorar
    <3>7. QED
      BY <3>1, <3>6 DEF Unica!Next
  <2>5. QED
    BY <2>3, <2>4
<1>7. ASSUME NEW r \in Requisicoes, garantirPosseCompraEtiqueta(r)
      PROVE  Unica!Next \/ UNCHANGED Unica!vars
  <2> DEFINE e == requisicoes[r].etiqueta
  <2>1. /\ requisicoes[r].fase = "cercar"
        /\ UNCHANGED <<ordens, chamadas, soltas, pedido>>
        /\ \A s \in Requisicoes \ {r} : requisicoes'[s] = requisicoes[s]
    BY TipoInv, <1>7 DEF TipoInv, TypeOK, garantirPosseCompraEtiqueta
  <2>2. \A s \in Requisicoes \ {r} : Etapa(s)' = Etapa(s) /\ EmChamadaPaga(s)' = EmChamadaPaga(s)
    BY <2>1 DEF Etapa, EmChamadaPaga
  <2>3. ~EmChamadaPaga(r)
    BY <2>1 DEF EmChamadaPaga
  <2>4. CASE PodePagar(r) /\ Etapa(r) = "checkout"
    <3>1. /\ requisicoes'[r].fase = "pagar" /\ requisicoes'[r].etiqueta = e
          /\ requisicoes'[r].pago = requisicoes[r].pago
      BY TipoInv, <1>7, <2>4 DEF TipoInv, TypeOK, Requisicao, garantirPosseCompraEtiqueta
    <3>2. EmChamadaPaga(r)' /\ Etapa(r)' = "checkout"
      BY <2>4, <3>1 DEF EmChamadaPaga, Etapa
    <3>3. ancoraDe(pedido) = e
      BY <2>4 DEF PodePagar
    <3>4. e \in Etiquetas
      BY <2>1, TipoInv DEF TipoInv, TypeOK, EtiquetasReais, Requisicao, ComEtiqueta
    <3>5. \A f \in Etiquetas : Autorizada(f)' <=> Autorizada(f) \/ f = e
      BY <2>1, <2>2, <2>3, <3>1, <3>2 DEF Autorizada
    <3>6. {f \in Etiquetas : Autorizada(f)}' = {f \in Etiquetas : Autorizada(f)} \cup {e}
      BY <3>4, <3>5
    <3>7. /\ {f \in Etiquetas : ordens[f].pago}' = {f \in Etiquetas : ordens[f].pago}
          /\ ancoraDe(pedido)' = ancoraDe(pedido)
      BY <2>1
    <3>8. Unica!Autorizar(e)
      BY <2>1, <3>3, <3>6, <3>7 DEF Unica!Autorizar
    <3>9. QED
      BY <3>4, <3>8 DEF Unica!Next
  <2>5. CASE ~(PodePagar(r) /\ Etapa(r) = "checkout")
    <3>1. \/ ~EmChamadaPaga(r)'
          \/ Etapa(r)' # "checkout"
      BY TipoInv, <1>7, <2>5
         DEF TipoInv, TypeOK, Requisicao, garantirPosseCompraEtiqueta, Etapa, EmChamadaPaga, Parada
    <3>2. \A f \in Etiquetas : Autorizada(f)' <=> Autorizada(f)
      BY <2>1, <2>2, <2>3, <3>1 DEF Autorizada
    <3>3. SoDesiste(Nenhum)
      BY <2>1, <3>2 DEF SoDesiste
    <3>4. QED
      BY <3>3, DesisteOuNada
  <2>6. QED
    BY <2>4, <2>5
<1>8. ASSUME NEW r \in Requisicoes, EnviarPago(r)
      PROVE  Unica!Next \/ UNCHANGED Unica!vars
  <2>1. PICK c \in Chamada :
          /\ c.dono = r /\ c.etapa = Etapa(r) /\ c.etiqueta = requisicoes[r].etiqueta
          /\ chamadas' = chamadas \cup {c}
          /\ requisicoes[r].fase = "pagar"
          /\ requisicoes' = [requisicoes EXCEPT ![r].fase = "esperar"]
          /\ \A s \in Requisicoes : Etapa(s)' = Etapa(s)
          /\ UNCHANGED <<pedido, ordens, soltas>>
    BY <1>8, TipoInv, EnviarEfeito
  <2>2. \A s \in Requisicoes : /\ requisicoes'[s].etiqueta = requisicoes[s].etiqueta
                               /\ EmChamadaPaga(s)' <=> EmChamadaPaga(s)
    BY <2>1, TipoInv DEF TipoInv, TypeOK, Requisicao, EmChamadaPaga
  <2>3. EmChamadaPaga(r)
    BY <2>1 DEF EmChamadaPaga
  <2>4. \A f \in Etiquetas : Autorizada(f)' <=> Autorizada(f)
    BY <2>1, <2>2, <2>3 DEF Autorizada
  <2>5. SoDesiste(Nenhum)
    BY <2>1, <2>4 DEF SoDesiste
  <2>6. QED
    BY <2>5, DesisteOuNada
<1>9. ASSUME NEW r \in Requisicoes, ReceberResposta(r)
      PROVE  Unica!Next \/ UNCHANGED Unica!vars
  <2>1. SoDesiste(requisicoes[r].etiqueta)
    BY SMTT(30), TipoInv, CompraAssumption, <1>9, ConheceOrdem
       DEF ReceberResposta, FaseSeguinte, ConheceOrdem,
           TipoInv, TypeOK, Requisicao, Ordem, Chamada, Autorizada, EmChamadaPaga, Etapa, Parada, SoDesiste,
           ancoraDe
  <2>2. QED
    BY <2>1, DesisteOuNada
<1>10. ASSUME NEW r \in Requisicoes, EstourarPrazo(r)
      PROVE  Unica!Next \/ UNCHANGED Unica!vars
  <2>1. SoDesiste(requisicoes[r].etiqueta)
    BY TipoInv, CompraAssumption, <1>10
       DEF EstourarPrazo, DesfechoIncerto, Acaba,
           TipoInv, TypeOK, Requisicao, Ordem, Chamada, Autorizada, EmChamadaPaga, Etapa, Parada, SoDesiste,
           ancoraDe
  <2>2. QED
    BY <2>1, DesisteOuNada
<1>11. ASSUME NEW r \in Requisicoes, Imprimir(r)
      PROVE  Unica!Next \/ UNCHANGED Unica!vars
  <2>1. /\ requisicoes[r].fase = "imprimir" /\ UNCHANGED <<pedido, ordens, chamadas, soltas>>
        /\ requisicoes' = [requisicoes EXCEPT ![r].fase = "finalizar",
             ![r].status = ordens[requisicoes[r].etiqueta].status]
    BY <1>11 DEF Imprimir
  <2>2. \A s \in Requisicoes :
          /\ requisicoes'[s].pago = requisicoes[s].pago
          /\ requisicoes'[s].etiqueta = requisicoes[s].etiqueta
          /\ EmChamadaPaga(s)' <=> EmChamadaPaga(s)
    BY <2>1, TipoInv DEF TipoInv, TypeOK, Requisicao, EmChamadaPaga
  <2>3. \A f \in Etiquetas : Autorizada(f)' <=> Autorizada(f)
    BY <2>1, <2>2 DEF Autorizada, Etapa
  <2>4. SoDesiste(Nenhum)
    BY <2>1, <2>3 DEF SoDesiste, ancoraDe
  <2>5. QED
    BY <2>4, DesisteOuNada
<1>12. ASSUME NEW r \in Requisicoes, finalizarCompraEtiqueta(r)
      PROVE  Unica!Next \/ UNCHANGED Unica!vars
  <2>1. /\ requisicoes[r].fase = "finalizar"
        /\ requisicoes' = [requisicoes EXCEPT
             ![r] = Parada(IF Vinculada(r) THEN "sucesso" ELSE "fim")]
        /\ ancoraDe(pedido') = ancoraDe(pedido)
        /\ UNCHANGED <<ordens, chamadas, soltas>>
    BY TipoInv, <1>12, FinalizarEfeito
  <2>2. \A s \in Requisicoes \ {r} : requisicoes'[s] = requisicoes[s]
    BY <2>1, TipoInv DEF TipoInv, TypeOK
  <2>3. ~EmChamadaPaga(r) /\ ~EmChamadaPaga(r)'
    BY <2>1, TipoInv DEF TipoInv, TypeOK, EmChamadaPaga, Parada
  <2>4. \A f \in Etiquetas : Autorizada(f)' <=> Autorizada(f)
    BY <2>1, <2>2, <2>3 DEF Autorizada, EmChamadaPaga, Etapa
  <2>5. SoDesiste(Nenhum)
    BY <2>1, <2>4 DEF SoDesiste
  <2>6. QED
    BY <2>5, DesisteOuNada
<1>13. ASSUME NEW r \in Requisicoes, liberarCompraEtiqueta(r)
      PROVE  Unica!Next \/ UNCHANGED Unica!vars
  <2>1. SoDesiste(Nenhum)
    BY TipoInv, CompraAssumption, <1>13
       DEF liberarCompraEtiqueta, SemClaimDe, Acaba,
           TipoInv, TypeOK, Requisicao, Ordem, Chamada, Autorizada, EmChamadaPaga, Etapa, Parada, SoDesiste,
           ancoraDe
  <2>2. QED
    BY <2>1, DesisteOuNada
<1>14. ASSUME NEW r \in Requisicoes, Falhar(r)
      PROVE  Unica!Next \/ UNCHANGED Unica!vars
  <2>1. SoDesiste(requisicoes[r].etiqueta)
    BY TipoInv, CompraAssumption, <1>14
       DEF Falhar, Acaba,
           TipoInv, TypeOK, Requisicao, Ordem, Chamada, Autorizada, EmChamadaPaga, Etapa, Parada, SoDesiste,
           ancoraDe
  <2>2. QED
    BY <2>1, DesisteOuNada
<1>15. ASSUME NEW r \in Requisicoes, Congelar(r)
      PROVE  Unica!Next \/ UNCHANGED Unica!vars
  <2>1. SoDesiste(Nenhum)
    BY TipoInv, CompraAssumption, <1>15
       DEF Congelar,
           TipoInv, TypeOK, Requisicao, Ordem, Chamada, Autorizada, EmChamadaPaga, Etapa, Parada, SoDesiste,
           ancoraDe
  <2>2. QED
    BY <2>1, DesisteOuNada
<1>16. ASSUME NEW r \in Requisicoes, Morrer(r)
      PROVE  Unica!Next \/ UNCHANGED Unica!vars
  <2>1. SoDesiste(requisicoes[r].etiqueta)
    BY TipoInv, CompraAssumption, <1>16
       DEF Morrer, Acaba,
           TipoInv, TypeOK, Requisicao, Ordem, Chamada, Autorizada, EmChamadaPaga, Etapa, Parada, SoDesiste,
           ancoraDe
  <2>2. QED
    BY <2>1, DesisteOuNada
<1>17. ASSUME NEW c \in chamadas, ProvedorAtende(c)
      PROVE  Unica!Next \/ UNCHANGED Unica!vars
  <2> DEFINE e == c.etiqueta
  <2>1. /\ c \in Chamada /\ e \in Etiquetas /\ c \in chamadas /\ chamadas' = chamadas \ {c}
        /\ UNCHANGED <<pedido, soltas>>
    BY TipoInv, <1>17 DEF TipoInv, TypeOK, Chamada, ProvedorAtende
  <2>2. \A s \in Requisicoes :
          /\ requisicoes'[s].etiqueta = requisicoes[s].etiqueta
          /\ EmChamadaPaga(s)' <=> EmChamadaPaga(s)
          /\ Etapa(s)' = Etapa(s)
    BY TipoInv, <1>17 DEF TipoInv, TypeOK, Requisicao, ProvedorAtende, EmChamadaPaga, Etapa
  <2>3. CASE Aceita(c) /\ c.etapa = "checkout"
    <3>1. \A f \in Etiquetas : ordens'[f].pago <=> ordens[f].pago \/ f = e
      BY TipoInv, <1>17, <2>1, <2>3 DEF TipoInv, TypeOK, Ordem, ProvedorAtende
    <3>2. Autorizada(e)
      BY <2>1, <2>3 DEF Autorizada
    <3>3. \A f \in Etiquetas : Autorizada(f)' <=> Autorizada(f)
      BY <2>1, <2>2, <3>1, <3>2 DEF Autorizada
    <3>4. {f \in Etiquetas : Autorizada(f)}' = {f \in Etiquetas : Autorizada(f)}
      BY <3>3
    <3>5. {f \in Etiquetas : ordens[f].pago}' = {f \in Etiquetas : ordens[f].pago} \cup {e}
      BY <2>1, <3>1
    <3>6. ancoraDe(pedido)' = ancoraDe(pedido)
      BY <2>1
    <3>7. Unica!Pagar(e)
      BY <2>1, <3>2, <3>4, <3>5, <3>6 DEF Unica!Pagar
    <3>8. QED
      BY <2>1, <3>7 DEF Unica!Next
  <2>4. CASE ~(Aceita(c) /\ c.etapa = "checkout")
    <3>1. \A f \in Etiquetas : ordens'[f].pago = ordens[f].pago
      BY TipoInv, <1>17, <2>1, <2>4 DEF TipoInv, TypeOK, Ordem, ProvedorAtende
    <3>2. \A f \in Etiquetas : /\ Autorizada(f)' => Autorizada(f)
                               /\ f # e => (Autorizada(f) => Autorizada(f)')
      BY <2>1, <2>2, <3>1 DEF Autorizada
    <3>3. SoDesiste(e)
      BY <2>1, <3>1, <3>2 DEF SoDesiste
    <3>4. QED
      BY <3>3, DesisteOuNada
  <2>5. QED
    BY <2>3, <2>4
<1>18. ASSUME NEW e \in Etiquetas, ProvedorMuda(e)
      PROVE  Unica!Next \/ UNCHANGED Unica!vars
  <2>1. SoDesiste(Nenhum)
    BY TipoInv, CompraAssumption, <1>18
       DEF ProvedorMuda,
           TipoInv, TypeOK, Requisicao, Ordem, Chamada, Autorizada, EmChamadaPaga, Etapa, Parada, SoDesiste,
           ancoraDe
  <2>2. QED
    BY <2>1, DesisteOuNada
<1>19. ASSUME NEW a \in Avisos, AvisoLer(a)
      PROVE  Unica!Next \/ UNCHANGED Unica!vars
  <2>1. SoDesiste(Nenhum)
    BY TipoInv, CompraAssumption, <1>19
       DEF AvisoLer,
           TipoInv, TypeOK, Requisicao, Ordem, Chamada, Autorizada, EmChamadaPaga, Etapa, Parada, SoDesiste,
           ancoraDe
  <2>2. QED
    BY <2>1, DesisteOuNada
<1>20. ASSUME NEW a \in Avisos, AvisoConsultar(a)
      PROVE  Unica!Next \/ UNCHANGED Unica!vars
  <2>1. SoDesiste(Nenhum)
    BY TipoInv, CompraAssumption, <1>20
       DEF AvisoConsultar,
           TipoInv, TypeOK, Requisicao, Ordem, Chamada, Autorizada, EmChamadaPaga, Etapa, Parada, SoDesiste,
           ancoraDe
  <2>2. QED
    BY <2>1, DesisteOuNada
<1>21. ASSUME NEW a \in Avisos, AvisoGravar(a)
      PROVE  Unica!Next \/ UNCHANGED Unica!vars
  <2>1. SoDesiste(Nenhum)
    BY TipoInv, CompraAssumption, <1>21, AvisoGravarEfeito
       DEF
           TipoInv, TypeOK, Requisicao, Ordem, Chamada, Autorizada, EmChamadaPaga, Etapa, Parada, SoDesiste,
           ancoraDe
  <2>2. QED
    BY <2>1, DesisteOuNada
<1>22. ASSUME NEW estado \in EstadosEscolhidos, OnIntegracaoChange(estado)
      PROVE  Unica!Next \/ UNCHANGED Unica!vars
  <2>1. /\ ancoraDe(pedido) # Nenhum /\ ancoraDe(pedido)' = Nenhum
        /\ soltas' = soltas \cup {f \in {pedido.ancora} : Autorizada(f)}
        /\ UNCHANGED <<ordens, requisicoes, chamadas>>
    BY <1>22 DEF OnIntegracaoChange, Soltar, GravarPedido, ancoraDe
  <2>2. pedido.ancora = ancoraDe(pedido) /\ ancoraDe(pedido) \in Etiquetas
    BY <2>1, TipoInv DEF TipoInv, TypeOK, Pedido, ancoraDe
  <2>3. \A f \in Etiquetas : Autorizada(f)' <=> Autorizada(f)
    BY <2>1 DEF Autorizada, EmChamadaPaga, Etapa
  <2>4. {f \in Etiquetas : Autorizada(f)}' = {f \in Etiquetas : Autorizada(f)}
    BY <2>3
  <2>5. {f \in Etiquetas : ordens[f].pago}' = {f \in Etiquetas : ordens[f].pago}
    BY <2>1
  <2>6. {f \in {pedido.ancora} : Autorizada(f)}
          = {f \in Etiquetas : Autorizada(f)} \cap {ancoraDe(pedido)}
    BY <2>2
  <2>7. Unica!Soltar
    BY <2>1, <2>4, <2>5, <2>6 DEF Unica!Soltar
  <2>8. QED
    BY <2>7 DEF Unica!Next
<1>23. ASSUME ExcluirPedido
      PROVE  Unica!Next \/ UNCHANGED Unica!vars
  <2>1. /\ ancoraDe(pedido) # Nenhum /\ ancoraDe(pedido)' = Nenhum
        /\ soltas' = soltas \cup {f \in {pedido.ancora} : Autorizada(f)}
        /\ UNCHANGED <<ordens, requisicoes, chamadas>>
    BY <1>23 DEF ExcluirPedido, Soltar, GravarPedido, ancoraDe
  <2>2. pedido.ancora = ancoraDe(pedido) /\ ancoraDe(pedido) \in Etiquetas
    BY <2>1, TipoInv DEF TipoInv, TypeOK, Pedido, ancoraDe
  <2>3. \A f \in Etiquetas : Autorizada(f)' <=> Autorizada(f)
    BY <2>1 DEF Autorizada, EmChamadaPaga, Etapa
  <2>4. {f \in Etiquetas : Autorizada(f)}' = {f \in Etiquetas : Autorizada(f)}
    BY <2>3
  <2>5. {f \in Etiquetas : ordens[f].pago}' = {f \in Etiquetas : ordens[f].pago}
    BY <2>1
  <2>6. {f \in {pedido.ancora} : Autorizada(f)}
          = {f \in Etiquetas : Autorizada(f)} \cap {ancoraDe(pedido)}
    BY <2>2
  <2>7. Unica!Soltar
    BY <2>1, <2>4, <2>5, <2>6 DEF Unica!Soltar
  <2>8. QED
    BY <2>7 DEF Unica!Next
<1>24. CASE UNCHANGED vars
  <2>1. SoDesiste(Nenhum)
    BY <1>24 DEF vars, Autorizada, EmChamadaPaga, Etapa, SoDesiste
  <2>2. QED
    BY <2>1, DesisteOuNada
<1>25. ASSUME NEW estado \in EstadoFrete, GravarEstado(estado)
      PROVE  Unica!Next \/ UNCHANGED Unica!vars
  <2>1. UNCHANGED <<soltas, ordens, requisicoes, chamadas>> /\ ancoraDe(pedido)' = ancoraDe(pedido)
    BY TipoInv, <1>25, GravarEstadoEfeito DEF ancoraDe
  <2>2. \A f \in Etiquetas : Autorizada(f)' <=> Autorizada(f)
    BY <2>1 DEF Autorizada, EmChamadaPaga, Etapa
  <2>3. {f \in Etiquetas : Autorizada(f)}' = {f \in Etiquetas : Autorizada(f)}
    BY <2>2
  <2>4. {f \in Etiquetas : ordens[f].pago}' = {f \in Etiquetas : ordens[f].pago}
    BY <2>1
  <2>5. QED
    BY <2>1, <2>3, <2>4 DEF Unica!vars
<1>26. QED
  BY <1>1, <1>2, <1>3, <1>4, <1>5, <1>6, <1>7, <1>8, <1>9, <1>10, <1>11, <1>12, <1>13,
     <1>14, <1>15, <1>16, <1>17, <1>18, <1>19, <1>20, <1>21, <1>22, <1>23, <1>24, <1>25,
     PassoDe DEF Requisitar, Avisar

(* The purchase implements CompraUnica: a label is paid only after its     *)
(* payment was authorised while it was the pedido's anchor.                *)
THEOREM Refinamento == Spec => ImplementaCompraUnica
<1>1. Init => Unica!Init
  <2> SUFFICES ASSUME Init PROVE Unica!Init
    OBVIOUS
  <2>1. IInv
    BY InicioInv
  <2>2. ancoraDe(pedido) \in Etiquetas \cup {Nenhum}
    BY <2>1 DEF IInv, TipoInv, TypeOK, Pedido, ancoraDe
  <2>3. \A e \in Etiquetas : ~Autorizada(e) /\ ~ordens[e].pago
    BY DEF Init, Autorizada, EmChamadaPaga, Parada
  <2>4. QED
    BY <2>2, <2>3 DEF Unica!Init, Init
<1>2. IInv /\ [Next]_vars => [Unica!Next]_(Unica!vars)
  BY UnicaPasso DEF IInv
<1>3. QED
  BY <1>1, <1>2, Invariante, PTL DEF Spec, ImplementaCompraUnica, Unica!Spec

=============================================================================
