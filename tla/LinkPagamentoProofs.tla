------------------------- MODULE LinkPagamentoProofs -------------------------
(***************************************************************************)
(* Proofs about LinkPagamento, for every set of payments, documents, links *)
(* and requests, every amount, quota and bound, and every state of the     *)
(* pedido the program may find.                                            *)
(***************************************************************************)
EXTENDS LinkPagamento, FiniteSetTheorems, TLAPS

-----------------------------------------------------------------------------
(* The coverage.                                                           *)

(* A reconciliation keeps the pedido a pedido.                             *)
LEMMA ApplyTipo ==
  ASSUME NEW p \in Pedido, NEW docs
  PROVE  applyEstadoTransition(p, docs) \in Pedido
  BY DEF applyEstadoTransition, nextPedidoEstado, freteComDespachoAutorizado, Pedido,
         EstadoPedido, AUTO_ESTADO_SOURCES, PODE_GERAR_LINK_PAGAMENTO, EstadoFrete

(* The coverage reads the values of the pedido, never its estado or frete. *)
LEMMA CoberturaSoValores ==
  ASSUME NEW p \in Pedido, NEW q \in Pedido, NEW docs,
         q.total = p.total, q.devolvido = p.devolvido
  PROVE  /\ valorQuitado(q, docs) = valorQuitado(p, docs)
         /\ valorPagoAlemDaDevolucao(q, docs) = valorPagoAlemDaDevolucao(p, docs)
  BY DEF valorQuitado, valorPagoAlemDaDevolucao

(* One reconciliation settles the estado: a second one, over the same      *)
(* payments, leaves it alone.                                              *)
LEMMA ReconciliacaoIdempotente ==
  ASSUME NEW p \in Pedido, NEW docs
  PROVE  ~DivergeCom(applyEstadoTransition(p, docs), docs)
<1> DEFINE q == applyEstadoTransition(p, docs)
<1>1. q \in Pedido
  BY ApplyTipo
<1>2. q.estado = nextPedidoEstado(p, docs) /\ q.total = p.total /\ q.devolvido = p.devolvido
  BY DEF applyEstadoTransition, Pedido
<1>3. /\ valorQuitado(q, docs) = valorQuitado(p, docs)
      /\ valorPagoAlemDaDevolucao(q, docs) = valorPagoAlemDaDevolucao(p, docs)
  BY <1>1, <1>2, CoberturaSoValores
<1> HIDE DEF q
<1>4. nextPedidoEstado(q, docs) = q.estado
  BY <1>2, <1>3 DEF nextPedidoEstado, AUTO_ESTADO_SOURCES, PODE_GERAR_LINK_PAGAMENTO
<1>5. QED
  BY <1>4 DEF DivergeCom, q

(* Only what it spends, or gets back, can make a pedido out of step with   *)
(* its payments: its frete cannot, nor can the request for links.          *)
LEMMA DivergeNaoNasce ==
  ASSUME NEW p \in Pedido, NEW q \in Pedido, NEW docs,
         q.total = p.total, q.devolvido = p.devolvido,
         q.estado \in {p.estado, estadoAoGerarLinkPagamento(p)},
         DivergeCom(q, docs)
  PROVE  DivergeCom(p, docs)
<1>1. /\ valorQuitado(q, docs) = valorQuitado(p, docs)
      /\ valorPagoAlemDaDevolucao(q, docs) = valorPagoAlemDaDevolucao(p, docs)
  BY CoberturaSoValores
<1>2. QED
  BY <1>1 DEF DivergeCom, nextPedidoEstado, estadoAoGerarLinkPagamento, AUTO_ESTADO_SOURCES,
              PODE_GERAR_LINK_PAGAMENTO

-----------------------------------------------------------------------------
(* The quota of a link.                                                    *)

Aprovados(docs, l) ==
  {d \in Docs : docs[d] # Nenhum /\ docs[d].link = l /\ docs[d].aprovado}

(* The quota counts a finite set.                                          *)
LEMMA AprovadosConta ==
  ASSUME NEW docs, NEW l
  PROVE  /\ IsFiniteSet(Aprovados(docs, l))
         /\ AprovadosDoLink(docs, l) = Cardinality(Aprovados(docs, l))
         /\ AprovadosDoLink(docs, l) \in Nat
<1>1. IsFiniteSet(Aprovados(docs, l))
  BY FS_Subset, CoberturaAssumption DEF Aprovados
<1>2. QED
  BY <1>1, FS_CardinalityType DEF AprovadosDoLink, Aprovados

(* More approved payments, a larger count.                                 *)
LEMMA AprovadosMonotono ==
  ASSUME NEW a, NEW b, NEW l, Aprovados(a, l) \subseteq Aprovados(b, l)
  PROVE  AprovadosDoLink(a, l) <= AprovadosDoLink(b, l)
  BY AprovadosConta, FS_Subset

LEMMA SemAprovados ==
  ASSUME NEW docs, NEW l, Aprovados(docs, l) = {}
  PROVE  AprovadosDoLink(docs, l) = 0
  BY AprovadosConta, FS_EmptySet

-----------------------------------------------------------------------------
(* Types.                                                                  *)

(* The document of a payment is its own or its legacy document.            *)
LEMMA AlvoTipo ==
  ASSUME TypeOK, NEW p \in Pagamentos
  PROVE  alvo(p) \in Docs /\ alvo(p) \in {p, LegadoDe[p]}
  BY PagamentoAssumption DEF TypeOK, TypeOKPagamento, alvo

LEMMA EscritoTipo ==
  ASSUME TypeOK, NEW p \in Pagamentos, NEW copia \in CopiaDoProvedor
  PROVE  Escrito(p, copia) \in Pagamento
<1>1. alvo(p) \in Docs
  BY AlvoTipo
<1>2. ValorRetido(p, copia.status) \in Nat
  BY PagamentoAssumption DEF ValorRetido
<1>3. (IF pagamentos[alvo(p)] # Nenhum /\ pagamentos[alvo(p)].link # Nenhum
         THEN pagamentos[alvo(p)].link ELSE LinkDo[p]) \in Links \cup {Nenhum}
  BY <1>1, PagamentoAssumption DEF TypeOK, TypeOKPagamento, Pagamento
<1>4. QED
  BY <1>2, <1>3 DEF Escrito, CopiaDoProvedor, Pagamento

LEMMA NotificarTipo ==
  ASSUME tarefas \in [Tarefas -> Tarefa], NEW p \in Pagamentos, Notificar(p)
  PROVE  tarefas' \in [Tarefas -> Tarefa]
  BY DEF Notificar, NaFila, Tarefa

LEMMA GastarTipo ==
  ASSUME sobra \in [Eventos -> Nat], NEW e \in Eventos, Gastar(e)
  PROVE  sobra' \in [Eventos -> Nat]
  BY DEF Gastar

LEMMA TarefaMuda ==
  ASSUME tarefas \in [Tarefas -> Tarefa], NEW t \in Tarefas, NEW x \in Tarefa,
         tarefas' = [tarefas EXCEPT ![t] = x]
  PROVE  tarefas' \in [Tarefas -> Tarefa]
  OBVIOUS

(* What is being handled exists: a task has a payment of the provider, and *)
(* a link that is being closed or cancelled is stored.                     *)
EmMaos ==
  /\ \A t \in Tarefas : tarefas[t].fase # "livre" => provedor[tarefas[t].pagamento] # Nenhum
  /\ \A t \in Tarefas : tarefas[t].fase \in {"expirar", "marcar"} => LinkDaTarefa(t) \in Guardados
  /\ \A l \in Links : cancelamentos[l] # "nada" => l \in Guardados

TipoInv == TypeOK /\ EmMaos

(* Marking a link changes that link, and only if it is open.               *)
LEMMA MarcarEfeito ==
  ASSUME TypeOK, NEW l \in Guardados, NEW erro \in BOOLEAN,
         NEW status \in StatusLinkPagamento, marcarLinkTerminal(l, status, erro)
  PROVE  /\ links' \in [Links -> Link \cup {Nenhum}]
         /\ \A k \in Links : (links'[k] = Nenhum) <=> (links[k] = Nenhum)
         /\ \A k \in Guardados : links'[k].preferencia = links[k].preferencia
         /\ \A k \in Links : k # l => links'[k] = links[k]
         /\ IF links[l].status = "aberto"
              THEN links'[l].status = status /\ links'[l].erro = erro
              ELSE links'[l] = links[l]
<1> DEFINE novo == [links[l] EXCEPT !.status = status, !.erro = erro]
<1>1. links \in [Links -> Link \cup {Nenhum}] /\ l \in Links /\ links[l] \in Link
  BY DEF TypeOK, Guardados
<1>2. /\ novo \in Link /\ novo.preferencia = links[l].preferencia
      /\ novo.status = status /\ novo.erro = erro
  BY <1>1 DEF Link
<1>3. links' = IF links[l].status = "aberto" THEN [links EXCEPT ![l] = novo] ELSE links
  BY <1>1 DEF marcarLinkTerminal
<1>4. novo # Nenhum /\ links[l] # Nenhum
  BY <1>1, <1>2, LinkAssumption
<1> HIDE DEF novo
<1>5. \A k \in Guardados : k \in Links
  BY DEF Guardados
<1>6. QED
  BY <1>1, <1>2, <1>3, <1>4, <1>5

(* A stored batch is new, open and carries its own preferences.            *)
LEMMA GravarEfeito ==
  ASSUME TypeOK, NEW r \in Requisicoes, GravarLinks(r)
  PROVE  /\ links' \in [Links -> Link \cup {Nenhum}] /\ pedido' \in Pedido
         /\ Lote[r] \subseteq Links /\ Lote[r] \cap Guardados = {}
         /\ \A l \in Lote[r] : /\ links'[l] # Nenhum /\ links'[l].status = "aberto"
                               /\ links'[l].preferencia = <<r, l>> /\ ~links'[l].erro
         /\ \A l \in Links \ Lote[r] : links'[l] = links[l]
         /\ pedido'.total = pedido.total /\ pedido'.devolvido = pedido.devolvido
         /\ pedido'.estado = estadoAoGerarLinkPagamento(pedido)
<1>1. Lote[r] \subseteq Links /\ Lote[r] \cap Guardados = {}
  BY LinkAssumption DEF GravarLinks
<1>2. \A l \in Lote[r] : /\ Aberto(r, l) \in Link /\ Aberto(r, l).status = "aberto"
                         /\ Aberto(r, l).preferencia = <<r, l>> /\ ~Aberto(r, l).erro
  BY <1>1 DEF Aberto, Link, Preferencias, StatusLinkPagamento
<1>3. links' = [l \in Links |-> IF l \in Lote[r] THEN Aberto(r, l) ELSE links[l]]
  BY DEF GravarLinks
<1>4. links \in [Links -> Link \cup {Nenhum}] /\ pedido \in Pedido
  BY DEF TypeOK, TypeOKPagamento
<1>5. estadoAoGerarLinkPagamento(pedido) \in EstadoPedido
  BY <1>4 DEF estadoAoGerarLinkPagamento, Pedido, EstadoPedido, AUTO_ESTADO_SOURCES,
              PODE_GERAR_LINK_PAGAMENTO
<1>6. pedido' = [pedido EXCEPT !.estado = estadoAoGerarLinkPagamento(pedido)]
  BY DEF GravarLinks
<1>7. /\ pedido' \in Pedido /\ pedido'.estado = estadoAoGerarLinkPagamento(pedido)
      /\ pedido'.total = pedido.total /\ pedido'.devolvido = pedido.devolvido
  BY <1>4, <1>5, <1>6 DEF Pedido
<1>8. QED
  BY <1>1, <1>2, <1>3, <1>4, <1>7, LinkAssumption

(* A delivery writes the document of its payment, or leaves it.            *)
LEMMA ReconcileEfeito ==
  ASSUME TipoInv, NEW t \in Tarefas, reconcilePedidoFromPagamento(t, links, vencidos)
  PROVE  LET p == tarefas[t].pagamento
             copia == tarefas[t].copia
         IN /\ tarefas[t].fase = "buscou" /\ p \in Pagamentos /\ copia \in CopiaDoProvedor
            /\ \/ reconcileObsoleta(t, p, copia)
               \/ reconcileGrava(t, p, copia)
            /\ entregues' = IF copia = provedor[p] THEN entregues \cup {p} ELSE entregues
            /\ surpresa' \in BOOLEAN
            /\ UNCHANGED <<provedor, editor, chamadas, sobra, empatados>>
<1>1. tarefas[t] \in Tarefa /\ tarefas[t].fase = "buscou"
  BY DEF TipoInv, TypeOK, TypeOKPagamento, reconcilePedidoFromPagamento
<1>2. tarefas[t].pagamento \in Pagamentos /\ tarefas[t].copia \in CopiaDoProvedor
  BY <1>1 DEF Tarefa
<1>3. QED
  BY <1>1, <1>2 DEF reconcilePedidoFromPagamento

LEMMA EncaminharTipo ==
  ASSUME TypeOK, NEW t \in Tarefas, NEW p \in Pagamentos, NEW docs, Encaminhar(t, p, docs)
  PROVE  tarefas' \in [Tarefas -> Tarefa]
<1> DEFINE x == IF LinkDo[p] = Nenhum THEN Livre
                ELSE [fase |-> "fechar", pagamento |-> p,
                      aprovados |-> AprovadosDoLink(docs, LinkDo[p])]
<1>1. x \in Tarefa
  BY AprovadosConta DEF Tarefa, Livre
<1>2. tarefas' = [tarefas EXCEPT ![t] = x]
  BY DEF Encaminhar
<1> HIDE DEF x
<1>3. QED
  BY <1>1, <1>2 DEF TypeOK, TypeOKPagamento

LEMMA IrTipo ==
  ASSUME TypeOK, NEW r \in Requisicoes, NEW sobras,
         NEW fase \in {"nada", "postar", "persistir", "reler", "limpar", "feita"},
         Ir(r, fase, sobras),
         sobras \in {{}, MinhasPreferencias(r), preferenciasSemLink(r)}
  PROVE  criacoes' \in [Requisicoes -> Criacao]
<1>1. criacoes \in [Requisicoes -> Criacao] /\ criacoes[r] \in Criacao
  BY DEF TypeOK
<1>2. sobras \subseteq Preferencias
  BY <1>1 DEF MinhasPreferencias, preferenciasSemLink, Preferencias, Criacao
<1> DEFINE x == [criacoes[r] EXCEPT !.fase = fase, !.sobras = sobras]
<1>3. x \in Criacao
  BY <1>1, <1>2 DEF Criacao
<1>4. criacoes' = [criacoes EXCEPT ![r] = x]
  BY <1>1 DEF Ir
<1> HIDE DEF x
<1>5. QED
  BY <1>1, <1>3, <1>4

(* What the provider does to a payment.                                    *)
LEMMA PagarEfeito ==
  ASSUME TypeOK, NEW p \in Pagamentos, PagarLink(p)
  PROVE  /\ provedor[p] = Nenhum
         /\ \E c \in CopiaDoProvedor : provedor' = [provedor EXCEPT ![p] = c]
         /\ LinkDo[p] # Nenhum => LinkDo[p] \in Guardados
         /\ Notificar(p)
         /\ UNCHANGED <<pagamentos, pedido, editor, chamadas, entregues, mexidos,
                        empatados, pendente, surpresa>>
         /\ UNCHANGED varsLink
<1>1. PICK status \in {"pendente", "aprovado"} :
        provedor' = [provedor EXCEPT ![p] =
          [status |-> status, aprovado |-> status = "aprovado", relogio |-> 1]]
  BY DEF PagarLink, Pagar
<1>2. [status |-> status, aprovado |-> status = "aprovado", relogio |-> 1] \in CopiaDoProvedor
  BY DEF CopiaDoProvedor, StatusPagamento, STATUS_EM_TRANSITO
<1>3. \E c \in CopiaDoProvedor : provedor' = [provedor EXCEPT ![p] = c]
  BY <1>1, <1>2
<1>4. QED
  BY <1>3 DEF PagarLink, Pagar

(* A payment changes, and its clock does not go back.                      *)
LEMMA ProvedorEfeito ==
  ASSUME TypeOK, NEW p \in Pagamentos, ProvedorMuda(p)
  PROVE  /\ provedor[p] \in CopiaDoProvedor
         /\ \E c \in CopiaDoProvedor, passo \in {0, 1} :
              /\ provedor' = [provedor EXCEPT ![p] = c]
              /\ c.relogio = provedor[p].relogio + passo
              /\ empatados' = IF passo = 0 THEN empatados \cup {p} ELSE empatados \ {p}
         /\ entregues' = entregues \ {p}
         /\ Notificar(p)
         /\ UNCHANGED <<pagamentos, pedido, editor, chamadas, mexidos, pendente, surpresa>>
<1>0. provedor \in [Pagamentos -> CopiaDoProvedor \cup {Nenhum}] /\ provedor[p] \in CopiaDoProvedor
  BY DEF TypeOK, TypeOKPagamento, ProvedorMuda
<1>1. PICK status \in ProximosStatus(provedor[p].status), passo \in {0, 1} :
        /\ provedor' = [provedor EXCEPT ![p] =
             [status |-> status, aprovado |-> @.aprovado \/ status = "aprovado",
              relogio |-> @.relogio + passo]]
        /\ empatados' = IF passo = 0 THEN empatados \cup {p} ELSE empatados \ {p}
  BY DEF ProvedorMuda
<1> DEFINE c == [status |-> status, aprovado |-> provedor[p].aprovado \/ status = "aprovado",
                 relogio |-> provedor[p].relogio + passo]
<1>2. status \in StatusPagamento
  BY DEF ProximosStatus, StatusPagamento, STATUS_EM_TRANSITO
<1>3. c \in CopiaDoProvedor
  BY <1>0, <1>2 DEF CopiaDoProvedor
<1>4. provedor' = [provedor EXCEPT ![p] = c] /\ c.relogio = provedor[p].relogio + passo
  BY <1>0, <1>1
<1> HIDE DEF c
<1>5. QED
  BY <1>0, <1>1, <1>3, <1>4 DEF ProvedorMuda

LEMMA EmMaosQuadro ==
  ASSUME TipoInv, UNCHANGED <<provedor, tarefas, links, cancelamentos>>
  PROVE  EmMaos'
  BY DEF TipoInv, EmMaos, LinkDaTarefa, Guardados

(* A notification starts for a payment of the provider.                    *)
LEMMA NotificarEmMaos ==
  ASSUME TipoInv, NEW p \in Pagamentos, Notificar(p), provedor'[p] # Nenhum,
         \A q \in Pagamentos : provedor[q] # Nenhum => provedor'[q] # Nenhum,
         UNCHANGED <<links, cancelamentos>>
  PROVE  EmMaos'
<1>1. PICK t \in Tarefas : tarefas' = [tarefas EXCEPT ![t] = NaFila(p)]
  BY DEF Notificar
<1>2. /\ NaFila(p).pagamento = p /\ NaFila(p).fase = "fila"
      /\ tarefas'[t] = NaFila(p)
      /\ \A u \in Tarefas : u # t => tarefas'[u] = tarefas[u]
  BY <1>1 DEF NaFila, TipoInv, TypeOK, TypeOKPagamento
<1>3. \A u \in Tarefas : tarefas[u].fase # "livre" => tarefas[u].pagamento \in Pagamentos
  BY DEF TipoInv, TypeOK, TypeOKPagamento, Tarefa
<1>4. QED
  BY <1>2, <1>3 DEF TipoInv, EmMaos, LinkDaTarefa, Guardados

(* One task goes on, is over, or its payment is queued again.              *)
LEMMA TarefaEmMaos ==
  ASSUME TipoInv, NEW t \in Tarefas, NEW x \in Tarefa,
         tarefas' = [tarefas EXCEPT ![t] = x],
         x.fase # "livre" => tarefas[t].fase # "livre" /\ x.pagamento = tarefas[t].pagamento,
         x.fase \in {"expirar", "marcar"} => LinkDaTarefa(t) \in Guardados,
         UNCHANGED provedor,
         \A l \in Links : (links'[l] = Nenhum) <=> (links[l] = Nenhum),
         UNCHANGED cancelamentos
  PROVE  EmMaos'
<1>1. /\ tarefas'[t] = x
      /\ \A u \in Tarefas : u # t => tarefas'[u] = tarefas[u]
  BY DEF TipoInv, TypeOK, TypeOKPagamento
<1>2. Guardados' = Guardados
  BY DEF Guardados
<1>3. \A u \in Tarefas : u # t => LinkDaTarefa(u)' = LinkDaTarefa(u)
  BY <1>1 DEF LinkDaTarefa
<1>4. x.fase \in {"expirar", "marcar"} => LinkDaTarefa(t)' = LinkDaTarefa(t)
  BY <1>1 DEF LinkDaTarefa
<1>5. QED
  BY <1>1, <1>2, <1>3, <1>4 DEF TipoInv, EmMaos

(* Every step of a task, as one replacement.                               *)
LEMMA EncaminharEfeito ==
  ASSUME TypeOK, NEW t \in Tarefas, NEW p \in Pagamentos, NEW docs, Encaminhar(t, p, docs)
  PROVE  \E x \in Tarefa :
           /\ tarefas' = [tarefas EXCEPT ![t] = x]
           /\ IF LinkDo[p] = Nenhum THEN x = Livre
              ELSE /\ x.fase = "fechar" /\ x.pagamento = p
                   /\ x.aprovados = AprovadosDoLink(docs, LinkDo[p])
<1> DEFINE x == IF LinkDo[p] = Nenhum THEN Livre
                ELSE [fase |-> "fechar", pagamento |-> p,
                      aprovados |-> AprovadosDoLink(docs, LinkDo[p])]
<1>1. x \in Tarefa
  BY AprovadosConta DEF Tarefa, Livre
<1>2. tarefas' = [tarefas EXCEPT ![t] = x]
  BY DEF Encaminhar
<1>3. IF LinkDo[p] = Nenhum THEN x = Livre
      ELSE /\ x.fase = "fechar" /\ x.pagamento = p
           /\ x.aprovados = AprovadosDoLink(docs, LinkDo[p])
  OBVIOUS
<1>4. QED
  BY <1>1, <1>2, <1>3

(* What each step of a notification does to its task.                      *)
LEMMA TarefaEfeito ==
  ASSUME TipoInv, NEW t \in Tarefas
  PROVE  /\ fetchPayment(t) => \E x \in Tarefa :
              /\ tarefas' = [tarefas EXCEPT ![t] = x] /\ tarefas[t].fase = "fila"
              /\ x.fase = "buscou" /\ x.pagamento = tarefas[t].pagamento
              /\ x.copia = provedor[tarefas[t].pagamento]
         /\ encerrarLinkSeCompleto(t) => \E x \in Tarefa :
              /\ tarefas' = [tarefas EXCEPT ![t] = x] /\ tarefas[t].fase = "fechar"
              /\ IF /\ LinkDaTarefa(t) \in Guardados
                    /\ links[LinkDaTarefa(t)].status = "aberto"
                    /\ tarefas[t].aprovados >= Cota[LinkDaTarefa(t)]
                   THEN /\ x.fase = "expirar" /\ x.pagamento = tarefas[t].pagamento
                        /\ x.aprovados = tarefas[t].aprovados
                   ELSE x = Livre
         /\ ExpirarParaFechar(t) => \E x \in Tarefa :
              /\ tarefas' = [tarefas EXCEPT ![t] = x] /\ tarefas[t].fase = "expirar"
              /\ x.fase = "marcar" /\ x.pagamento = tarefas[t].pagamento
              /\ x.aprovados = tarefas[t].aprovados
              /\ ~x.erro => Expirada(LinkDaTarefa(t))
              /\ x.erro => UNCHANGED <<pagaveis, retirados>>
         /\ MarcarConcluido(t) =>
              /\ tarefas' = [tarefas EXCEPT ![t] = Livre] /\ tarefas[t].fase = "marcar"
              /\ tarefas[t].erro \in BOOLEAN /\ LinkDaTarefa(t) \in Guardados
              /\ marcarLinkTerminal(LinkDaTarefa(t), "concluido", tarefas[t].erro)
         /\ Falhar(t) => \E x \in Tarefa :
              /\ tarefas' = [tarefas EXCEPT ![t] = x] /\ tarefas[t].fase # "livre"
              /\ \/ /\ x.fase = "fila" /\ x.pagamento = tarefas[t].pagamento
                    /\ UNCHANGED abandonados
                 \/ /\ x = Livre
                    /\ abandonados' = abandonados \cup ({LinkDaTarefa(t)} \ {Nenhum})
<1>0. /\ tarefas \in [Tarefas -> Tarefa] /\ tarefas[t] \in Tarefa
      /\ provedor \in [Pagamentos -> CopiaDoProvedor \cup {Nenhum}]
      /\ EmMaos
  BY DEF TipoInv, TypeOK, TypeOKPagamento
<1>1. ASSUME fetchPayment(t)
      PROVE  \E x \in Tarefa :
              /\ tarefas' = [tarefas EXCEPT ![t] = x] /\ tarefas[t].fase = "fila"
              /\ x.fase = "buscou" /\ x.pagamento = tarefas[t].pagamento
              /\ x.copia = provedor[tarefas[t].pagamento]
  <2> DEFINE x == [fase |-> "buscou", pagamento |-> tarefas[t].pagamento,
                   copia |-> provedor[tarefas[t].pagamento]]
  <2>1. tarefas[t].fase = "fila" /\ tarefas' = [tarefas EXCEPT ![t] = x]
    BY <1>1 DEF fetchPayment
  <2>2. tarefas[t].pagamento \in Pagamentos
    BY <1>0, <2>1 DEF Tarefa
  <2>3. provedor[tarefas[t].pagamento] \in CopiaDoProvedor
    BY <1>0, <2>1, <2>2 DEF EmMaos
  <2>4. x \in Tarefa
    BY <2>2, <2>3 DEF Tarefa
  <2>5. QED
    BY <2>1, <2>4
<1>2. ASSUME encerrarLinkSeCompleto(t)
      PROVE  \E x \in Tarefa :
              /\ tarefas' = [tarefas EXCEPT ![t] = x] /\ tarefas[t].fase = "fechar"
              /\ IF /\ LinkDaTarefa(t) \in Guardados
                    /\ links[LinkDaTarefa(t)].status = "aberto"
                    /\ tarefas[t].aprovados >= Cota[LinkDaTarefa(t)]
                   THEN /\ x.fase = "expirar" /\ x.pagamento = tarefas[t].pagamento
                        /\ x.aprovados = tarefas[t].aprovados
                   ELSE x = Livre
  <2> DEFINE fecha == /\ LinkDaTarefa(t) \in Guardados
                      /\ links[LinkDaTarefa(t)].status = "aberto"
                      /\ tarefas[t].aprovados >= Cota[LinkDaTarefa(t)]
             x == IF fecha THEN [tarefas[t] EXCEPT !.fase = "expirar"] ELSE Livre
  <2>1. tarefas[t].fase = "fechar"
    BY <1>2 DEF encerrarLinkSeCompleto
  <2>2. x \in Tarefa
    BY <1>0, <2>1 DEF Tarefa, Livre
  <2>3. tarefas' = [tarefas EXCEPT ![t] = x]
    BY <1>0, <1>2 DEF encerrarLinkSeCompleto, linkAtingiuCotaComAprovados
  <2>4. fecha => /\ x.fase = "expirar" /\ x.pagamento = tarefas[t].pagamento
                 /\ x.aprovados = tarefas[t].aprovados
    BY <1>0, <2>1 DEF Tarefa
  <2>5. QED
    BY <2>1, <2>2, <2>3, <2>4
<1>3. ASSUME ExpirarParaFechar(t)
      PROVE  \E x \in Tarefa :
              /\ tarefas' = [tarefas EXCEPT ![t] = x] /\ tarefas[t].fase = "expirar"
              /\ x.fase = "marcar" /\ x.pagamento = tarefas[t].pagamento
              /\ x.aprovados = tarefas[t].aprovados
              /\ ~x.erro => Expirada(LinkDaTarefa(t))
              /\ x.erro => UNCHANGED <<pagaveis, retirados>>
  <2>1. PICK resposta \in {"expirada", "recusada"} :
          /\ IF resposta = "expirada" THEN Expirada(LinkDaTarefa(t))
               ELSE UNCHANGED <<pagaveis, retirados>>
          /\ tarefas' = [tarefas EXCEPT ![t] =
               [fase |-> "marcar", pagamento |-> @.pagamento, aprovados |-> @.aprovados,
                erro |-> erroEncerramento(resposta)]]
    BY <1>3 DEF ExpirarParaFechar
  <2> DEFINE x == [fase |-> "marcar", pagamento |-> tarefas[t].pagamento,
                   aprovados |-> tarefas[t].aprovados, erro |-> resposta = "recusada"]
  <2>2. tarefas[t].fase = "expirar"
    BY <1>3 DEF ExpirarParaFechar
  <2>3. x \in Tarefa
    BY <1>0, <2>2 DEF Tarefa
  <2>4. tarefas' = [tarefas EXCEPT ![t] = x]
    BY <1>0, <2>1 DEF erroEncerramento
  <2>5. x.erro <=> resposta = "recusada"
    OBVIOUS
  <2>6. /\ x.fase = "marcar" /\ x.pagamento = tarefas[t].pagamento
        /\ x.aprovados = tarefas[t].aprovados
    OBVIOUS
  <2> HIDE DEF x
  <2>7. QED
    BY <2>1, <2>2, <2>3, <2>4, <2>5, <2>6
<1>4. ASSUME MarcarConcluido(t)
      PROVE  /\ tarefas' = [tarefas EXCEPT ![t] = Livre] /\ tarefas[t].fase = "marcar"
             /\ tarefas[t].erro \in BOOLEAN /\ LinkDaTarefa(t) \in Guardados
             /\ marcarLinkTerminal(LinkDaTarefa(t), "concluido", tarefas[t].erro)
  <2>1. tarefas[t].fase = "marcar"
    BY <1>4 DEF MarcarConcluido
  <2>2. tarefas[t].erro \in BOOLEAN
    BY <1>0, <2>1 DEF Tarefa
  <2>3. QED
    BY <1>0, <1>4, <2>1, <2>2 DEF MarcarConcluido, EmMaos
<1>5. ASSUME Falhar(t)
      PROVE  \E x \in Tarefa :
              /\ tarefas' = [tarefas EXCEPT ![t] = x] /\ tarefas[t].fase # "livre"
              /\ \/ /\ x.fase = "fila" /\ x.pagamento = tarefas[t].pagamento
                    /\ UNCHANGED abandonados
                 \/ /\ x = Livre
                    /\ abandonados' = abandonados \cup ({LinkDaTarefa(t)} \ {Nenhum})
  <2>1. tarefas[t].fase # "livre"
    BY <1>5 DEF Falhar
  <2>2. NaFila(tarefas[t].pagamento) \in Tarefa /\ Livre \in Tarefa
    BY <1>0, <2>1 DEF Tarefa, NaFila, Livre
  <2>3. /\ NaFila(tarefas[t].pagamento).fase = "fila"
        /\ NaFila(tarefas[t].pagamento).pagamento = tarefas[t].pagamento
    BY DEF NaFila
  <2>4. \/ /\ tarefas' = [tarefas EXCEPT ![t] = NaFila(tarefas[t].pagamento)]
           /\ UNCHANGED abandonados
        \/ /\ tarefas' = [tarefas EXCEPT ![t] = Livre]
           /\ abandonados' = abandonados \cup ({LinkDaTarefa(t)} \ {Nenhum})
    BY <1>5 DEF Falhar
  <2>5. QED
    BY <2>1, <2>2, <2>3, <2>4
<1>6. QED
  BY <1>1, <1>2, <1>3, <1>4, <1>5

(* Every step keeps the types.                                             *)
LEMMA TypePasso ==
  ASSUME TipoInv, [Next]_vars
  PROVE  TypeOK'
<1>0. TypeOK /\ EmMaos
  BY DEF TipoInv
<1>1. ASSUME NEW p \in Pagamentos, PagarLink(p)
      PROVE  TypeOK'
  <2>1. tarefas' \in [Tarefas -> Tarefa]
    BY <1>0, <1>1, NotificarTipo DEF PagarLink, Pagar, TypeOK, TypeOKPagamento
  <2>2. provedor' \in [Pagamentos -> CopiaDoProvedor \cup {Nenhum}]
    BY <1>0, <1>1, PagarEfeito DEF TypeOK, TypeOKPagamento
  <2>3. sobra' \in [Eventos -> Nat]
    BY <1>0, <1>1, GastarTipo DEF PagarLink, Pagar, TypeOK, TypeOKPagamento, Eventos
  <2>4. UNCHANGED <<pagamentos, pedido, editor, chamadas, entregues, mexidos, empatados,
                   pendente, surpresa, links, vencidos, pagaveis, criacoes, cancelamentos, retirados,
                   abandonados>>
    BY <1>1 DEF PagarLink, Pagar, varsLink
  <2>5. QED
    BY <1>0, <2>1, <2>2, <2>3, <2>4 DEF TypeOK, TypeOKPagamento
<1>2. ASSUME NEW p \in Pagamentos, ProvedorMuda(p), UNCHANGED varsLink
      PROVE  TypeOK'
  <2>1. tarefas' \in [Tarefas -> Tarefa]
    BY <1>0, <1>2, NotificarTipo DEF ProvedorMuda, TypeOK, TypeOKPagamento
  <2>2. provedor' \in [Pagamentos -> CopiaDoProvedor \cup {Nenhum}]
    BY <1>0, <1>2, ProvedorEfeito DEF TypeOK, TypeOKPagamento
  <2>3. sobra' \in [Eventos -> Nat]
    BY <1>0, <1>2, GastarTipo DEF ProvedorMuda, TypeOK, TypeOKPagamento, Eventos
  <2>4. entregues' \subseteq Pagamentos
    BY <1>0, <1>2 DEF ProvedorMuda, TypeOK, TypeOKPagamento
  <2>5. empatados' \subseteq Pagamentos
    BY <1>0, <1>2 DEF ProvedorMuda, TypeOK, TypeOKPagamento
  <2>6. UNCHANGED <<pagamentos, pedido, editor, chamadas, mexidos, pendente, surpresa,
                   links, vencidos, pagaveis, criacoes, cancelamentos, retirados, abandonados>>
    BY <1>2 DEF ProvedorMuda, varsLink
  <2>7. QED
    BY <1>0, <2>1, <2>2, <2>3, <2>4, <2>5, <2>6 DEF TypeOK, TypeOKPagamento
<1>3. ASSUME NEW p \in Pagamentos, Reentregar(p), UNCHANGED varsLink
      PROVE  TypeOK'
  <2>1. tarefas' \in [Tarefas -> Tarefa]
    BY <1>0, <1>3, NotificarTipo DEF Reentregar, TypeOK, TypeOKPagamento
  <2>2. sobra' \in [Eventos -> Nat]
    BY <1>0, <1>3, GastarTipo DEF Reentregar, TypeOK, TypeOKPagamento, Eventos
  <2>3. UNCHANGED <<provedor, pagamentos, pedido, editor, chamadas, entregues, mexidos,
                   empatados, pendente, surpresa, links, vencidos, pagaveis, criacoes, cancelamentos,
                   retirados, abandonados>>
    BY <1>3 DEF Reentregar, varsLink
  <2>4. QED
    BY <1>0, <2>1, <2>2, <2>3 DEF TypeOK, TypeOKPagamento
<1>4. ASSUME NEW t \in Tarefas, fetchPayment(t), UNCHANGED varsLink
      PROVE  TypeOK'
  <2>1. tarefas' \in [Tarefas -> Tarefa]
    BY TipoInv, <1>4, TarefaEfeito, TarefaMuda DEF TipoInv, TypeOK, TypeOKPagamento
  <2>2. UNCHANGED <<provedor, pagamentos, pedido, editor, chamadas, sobra, entregues,
                   mexidos, empatados, pendente, surpresa, links, vencidos, pagaveis, criacoes,
                   cancelamentos, retirados, abandonados>>
    BY <1>4 DEF fetchPayment, varsLink
  <2>3. QED
    BY <1>0, <2>1, <2>2 DEF TypeOK, TypeOKPagamento
<1>5. ASSUME NEW t \in Tarefas, reconcilePedidoFromPagamento(t, links, vencidos), UNCHANGED varsLink
      PROVE  TypeOK'
  <2> DEFINE p == tarefas[t].pagamento
             copia == tarefas[t].copia
  <2>1. /\ p \in Pagamentos /\ copia \in CopiaDoProvedor
        /\ reconcileObsoleta(t, p, copia) \/ reconcileGrava(t, p, copia)
        /\ entregues' = IF copia = provedor[p] THEN entregues \cup {p} ELSE entregues
        /\ surpresa' \in BOOLEAN
        /\ UNCHANGED <<provedor, editor, chamadas, sobra, empatados>>
    BY <1>5, TipoInv, ReconcileEfeito
  <2> HIDE DEF p, copia
  <2>2. tarefas' \in [Tarefas -> Tarefa]
    BY <1>0, <2>1, EncaminharTipo DEF reconcileObsoleta, reconcileGrava
  <2>3. pagamentos' \in [Docs -> Pagamento \cup {Nenhum}]
    BY <1>0, <2>1, EscritoTipo, AlvoTipo DEF reconcileObsoleta, reconcileGrava, TypeOK,
       TypeOKPagamento
  <2>4. pedido' \in Pedido
    BY <1>0, <2>1, ApplyTipo DEF reconcileObsoleta, reconcileGrava, TypeOK, TypeOKPagamento
  <2>5. entregues' \subseteq Pagamentos /\ mexidos' \subseteq Pagamentos
    BY <1>0, <2>1 DEF reconcileObsoleta, reconcileGrava, TypeOK, TypeOKPagamento
  <2>6. pendente' \in BOOLEAN
    BY <1>0, <2>1 DEF reconcileObsoleta, reconcileGrava, TypeOK, TypeOKPagamento
  <2>7. UNCHANGED varsLink
    BY <1>5
  <2>8. QED
    BY <1>0, <2>1, <2>2, <2>3, <2>4, <2>5, <2>6, <2>7 DEF varsLink, TypeOK, TypeOKPagamento
<1>6. ASSUME NEW t \in Tarefas, encerrarLinkSeCompleto(t)
      PROVE  TypeOK'
  <2>1. tarefas' \in [Tarefas -> Tarefa]
    BY TipoInv, <1>6, TarefaEfeito, TarefaMuda DEF TipoInv, TypeOK, TypeOKPagamento
  <2>2. UNCHANGED <<provedor, pagamentos, pedido, editor, chamadas, sobra, entregues,
                   mexidos, empatados, pendente, surpresa, links, vencidos, pagaveis, criacoes,
                   cancelamentos, retirados, abandonados>>
    BY <1>6 DEF encerrarLinkSeCompleto, PagamentoParado, DemaisLinks
  <2>3. QED
    BY <1>0, <2>1, <2>2 DEF TypeOK, TypeOKPagamento
<1>7. ASSUME NEW t \in Tarefas, ExpirarParaFechar(t)
      PROVE  TypeOK'
  <2>1. tarefas' \in [Tarefas -> Tarefa]
    BY TipoInv, <1>7, TarefaEfeito, TarefaMuda DEF TipoInv, TypeOK, TypeOKPagamento
  <2>2. pagaveis' \subseteq Preferencias
    BY <1>0, <1>7 DEF ExpirarParaFechar, Expirada, TypeOK, TypeOKPagamento
  <2>3. retirados' \subseteq Preferencias
    <3>1. LinkDaTarefa(t) \in Guardados
      BY <1>0, <1>7 DEF EmMaos, ExpirarParaFechar
    <3>2. links[LinkDaTarefa(t)].preferencia \in Preferencias
      BY <1>0, <3>1 DEF TypeOK, Guardados, Link
    <3>3. QED
      BY <1>0, <1>7, <3>2 DEF ExpirarParaFechar, Expirada, TypeOK
  <2>4. UNCHANGED <<provedor, pagamentos, pedido, editor, chamadas, sobra, entregues,
                   mexidos, empatados, pendente, surpresa, links, vencidos, criacoes, cancelamentos,
                   abandonados>>
    BY <1>7 DEF ExpirarParaFechar, Expirada, PagamentoParado, DemaisLinks
  <2>5. QED
    BY <1>0, <2>1, <2>2, <2>3, <2>4 DEF TypeOK, TypeOKPagamento
<1>8. ASSUME NEW t \in Tarefas, MarcarConcluido(t)
      PROVE  TypeOK'
  <2>1. tarefas' \in [Tarefas -> Tarefa]
    BY TipoInv, <1>8, TarefaEfeito, TarefaMuda DEF TipoInv, Tarefa, Livre, TypeOK,
       TypeOKPagamento
  <2>2. links' \in [Links -> Link \cup {Nenhum}]
    BY <1>0, <1>8, TarefaEfeito, MarcarEfeito DEF StatusLinkPagamento
  <2>3. UNCHANGED <<provedor, pagamentos, pedido, editor, chamadas, sobra, entregues,
                   mexidos, empatados, pendente, surpresa, vencidos, pagaveis, criacoes, cancelamentos,
                   retirados, abandonados>>
    BY <1>8 DEF MarcarConcluido, marcarLinkTerminal, PagamentoParado, DemaisLinks
  <2>4. QED
    BY <1>0, <2>1, <2>2, <2>3 DEF TypeOK, TypeOKPagamento
<1>9. ASSUME NEW t \in Tarefas, Falhar(t)
      PROVE  TypeOK'
  <2>1. tarefas' \in [Tarefas -> Tarefa]
    BY TipoInv, <1>9, TarefaEfeito, TarefaMuda DEF TipoInv, TypeOK, TypeOKPagamento
  <2>2. sobra' \in [Eventos -> Nat]
    BY <1>0, <1>9, GastarTipo DEF Falhar, TypeOK, TypeOKPagamento, Eventos
  <2>3. pagaveis' \subseteq Preferencias
    BY <1>0, <1>9 DEF Falhar, Expirada, TypeOK, TypeOKPagamento
  <2>4. retirados' \subseteq Preferencias
    <3>1. tarefas[t].fase = "expirar" =>
            links[LinkDaTarefa(t)].preferencia \in Preferencias
      BY <1>0 DEF EmMaos, TypeOK, Guardados, Link
    <3>2. QED
      BY <1>0, <1>9, <3>1 DEF Falhar, Expirada, TypeOK
  <2>5. abandonados' \subseteq Links
    BY <1>0, <1>9, PagamentoAssumption DEF Falhar, LinkDaTarefa, Tarefa, TypeOK,
       TypeOKPagamento
  <2>6. UNCHANGED <<provedor, pagamentos, pedido, editor, chamadas, entregues, mexidos,
                   empatados, pendente, surpresa, links, vencidos, criacoes, cancelamentos>>
    BY <1>9 DEF Falhar, Expirada
  <2>7. QED
    BY <1>0, <2>1, <2>2, <2>3, <2>4, <2>5, <2>6 DEF TypeOK, TypeOKPagamento
<1>10. ASSUME CriarPagamentos, UNCHANGED varsLink
      PROVE  TypeOK'
  <2>1. pagamentos' \in [Docs -> Pagamento \cup {Nenhum}]
    <3>1. \A e \in Edicoes : DoOperador(e) \in Pagamento
      BY PagamentoAssumption DEF DoOperador, Pagamento
    <3>2. QED
      BY <1>0, <1>10, <3>1 DEF CriarPagamentos, Registrar, TypeOK, TypeOKPagamento
  <2>2. sobra' \in [Eventos -> Nat]
    BY <1>0, <1>10, GastarTipo DEF CriarPagamentos, Registrar, TypeOK, TypeOKPagamento,
       Eventos
  <2>3. chamadas' \subseteq {"pagamento", "total"}
    BY <1>0, <1>10 DEF CriarPagamentos, Registrar, TypeOK, TypeOKPagamento
  <2>4. surpresa' \in BOOLEAN
    BY <1>0, <1>10 DEF CriarPagamentos, Registrar, TypeOK, TypeOKPagamento
  <2>5. UNCHANGED <<provedor, tarefas, pedido, editor, entregues, mexidos, empatados,
                   pendente, links, vencidos, pagaveis, criacoes, cancelamentos, retirados,
                   abandonados>>
    BY <1>10 DEF CriarPagamentos, Registrar, varsLink
  <2>6. QED
    BY <1>0, <2>1, <2>2, <2>3, <2>4, <2>5 DEF TypeOK, TypeOKPagamento
<1>11. ASSUME NEW d \in Docs, savePagamento(d), UNCHANGED varsLink
      PROVE  TypeOK'
  <2>1. pagamentos' \in [Docs -> Pagamento \cup {Nenhum}]
    <3>1. PICK e \in Edicoes :
            pagamentos' = [pagamentos EXCEPT ![d].valor = e[1], ![d].status = e[2],
                                             ![d].creditoLoja = e[3]]
      BY <1>11 DEF savePagamento, Registrar
    <3>2. pagamentos[d] \in Pagamento /\ pagamentos \in [Docs -> Pagamento \cup {Nenhum}]
      BY <1>0, <1>11 DEF savePagamento, TypeOK, TypeOKPagamento
    <3> DEFINE x == [pagamentos[d] EXCEPT !.valor = e[1], !.status = e[2], !.creditoLoja = e[3]]
    <3>3. x \in Pagamento
      BY <3>2, PagamentoAssumption DEF Pagamento
    <3>4. pagamentos' = [pagamentos EXCEPT ![d] = x]
      BY <3>1, <3>2
    <3> HIDE DEF x
    <3>5. QED
      BY <3>2, <3>3, <3>4
  <2>2. sobra' \in [Eventos -> Nat]
    BY <1>0, <1>11, GastarTipo DEF savePagamento, Registrar, TypeOK, TypeOKPagamento,
       Eventos
  <2>3. chamadas' \subseteq {"pagamento", "total"}
    BY <1>0, <1>11 DEF savePagamento, Registrar, TypeOK, TypeOKPagamento
  <2>4. surpresa' \in BOOLEAN
    BY <1>0, <1>11 DEF savePagamento, Registrar, TypeOK, TypeOKPagamento
  <2>5. mexidos' \subseteq Pagamentos
    BY <1>0, <1>11 DEF savePagamento, DonosDe, TypeOK, TypeOKPagamento
  <2>6. UNCHANGED <<provedor, tarefas, pedido, editor, entregues, empatados, pendente,
                   links, vencidos, pagaveis, criacoes, cancelamentos, retirados, abandonados>>
    BY <1>11 DEF savePagamento, Registrar, varsLink
  <2>7. QED
    BY <1>0, <2>1, <2>2, <2>3, <2>4, <2>5, <2>6 DEF TypeOK, TypeOKPagamento
<1>12. ASSUME NEW d \in Docs, deletePagamento(d), UNCHANGED varsLink
      PROVE  TypeOK'
  <2>1. pagamentos' \in [Docs -> Pagamento \cup {Nenhum}]
    BY <1>0, <1>12 DEF deletePagamento, Registrar, TypeOK, TypeOKPagamento
  <2>2. sobra' \in [Eventos -> Nat]
    BY <1>0, <1>12, GastarTipo DEF deletePagamento, Registrar, TypeOK, TypeOKPagamento,
       Eventos
  <2>3. chamadas' \subseteq {"pagamento", "total"}
    BY <1>0, <1>12 DEF deletePagamento, Registrar, TypeOK, TypeOKPagamento
  <2>4. surpresa' \in BOOLEAN
    BY <1>0, <1>12 DEF deletePagamento, Registrar, TypeOK, TypeOKPagamento
  <2>5. mexidos' \subseteq Pagamentos
    BY <1>0, <1>12 DEF deletePagamento, DonosDe, TypeOK, TypeOKPagamento
  <2>6. UNCHANGED <<provedor, tarefas, pedido, editor, entregues, empatados, pendente,
                   links, vencidos, pagaveis, criacoes, cancelamentos, retirados, abandonados>>
    BY <1>12 DEF deletePagamento, Registrar, varsLink
  <2>7. QED
    BY <1>0, <2>1, <2>2, <2>3, <2>4, <2>5, <2>6 DEF TypeOK, TypeOKPagamento
<1>13. ASSUME AbrirEditor, UNCHANGED varsLink
      PROVE  TypeOK'
  <2>1. editor' \in BOOLEAN
    BY <1>0, <1>13 DEF AbrirEditor, TypeOK, TypeOKPagamento
  <2>2. sobra' \in [Eventos -> Nat]
    BY <1>0, <1>13, GastarTipo DEF AbrirEditor, TypeOK, TypeOKPagamento, Eventos
  <2>3. UNCHANGED <<provedor, tarefas, pagamentos, pedido, chamadas, entregues, mexidos,
                   empatados, pendente, surpresa, links, vencidos, pagaveis, criacoes, cancelamentos,
                   retirados, abandonados>>
    BY <1>13 DEF AbrirEditor, varsLink
  <2>4. QED
    BY <1>0, <2>1, <2>2, <2>3 DEF TypeOK, TypeOKPagamento
<1>14. ASSUME savePedido, UNCHANGED varsLink
      PROVE  TypeOK'
  <2>1. pedido' \in Pedido
    <3>1. PICK total \in Totais, devolvido \in Devolvidos :
            pedido' = [pedido EXCEPT !.total = total, !.devolvido = devolvido]
      BY <1>14 DEF savePedido
    <3>2. pedido \in Pedido /\ total \in Nat /\ devolvido \in Nat
      BY <1>0, PagamentoAssumption DEF TypeOK, TypeOKPagamento
    <3>3. QED
      BY <3>1, <3>2 DEF Pedido
  <2>2. editor' \in BOOLEAN
    BY <1>0, <1>14 DEF savePedido, TypeOK, TypeOKPagamento
  <2>3. chamadas' \subseteq {"pagamento", "total"}
    BY <1>0, <1>14 DEF savePedido, TypeOK, TypeOKPagamento
  <2>4. pendente' \in BOOLEAN
    BY <1>0, <1>14 DEF savePedido, TypeOK, TypeOKPagamento
  <2>5. surpresa' \in BOOLEAN
    BY <1>0, <1>14 DEF savePedido, TypeOK, TypeOKPagamento
  <2>6. UNCHANGED <<provedor, tarefas, pagamentos, sobra, entregues, mexidos, empatados,
                   links, vencidos, pagaveis, criacoes, cancelamentos, retirados, abandonados>>
    BY <1>14 DEF savePedido, varsLink
  <2>7. QED
    BY <1>0, <2>1, <2>2, <2>3, <2>4, <2>5, <2>6 DEF TypeOK, TypeOKPagamento
<1>15. ASSUME MudarEstado, UNCHANGED varsLink
      PROVE  TypeOK'
  <2>1. pedido' \in Pedido
    <3>1. PICK m \in MovimentosDeEstado : pedido' = [pedido EXCEPT !.estado = m[2]]
      BY <1>15 DEF MudarEstado
    <3>2. pedido \in Pedido /\ m[2] \in EstadoPedido
      BY <1>0, PagamentoAssumption DEF TypeOK, TypeOKPagamento
    <3>3. QED
      BY <3>1, <3>2 DEF Pedido
  <2>2. sobra' \in [Eventos -> Nat]
    BY <1>0, <1>15, GastarTipo DEF MudarEstado, TypeOK, TypeOKPagamento, Eventos
  <2>3. pendente' \in BOOLEAN
    BY <1>0, <1>15 DEF MudarEstado, TypeOK, TypeOKPagamento
  <2>4. UNCHANGED <<provedor, tarefas, pagamentos, editor, chamadas, entregues, mexidos,
                   empatados, surpresa, links, vencidos, pagaveis, criacoes, cancelamentos, retirados,
                   abandonados>>
    BY <1>15 DEF MudarEstado, varsLink
  <2>5. QED
    BY <1>0, <2>1, <2>2, <2>3, <2>4 DEF TypeOK, TypeOKPagamento
<1>16. ASSUME Embalar, UNCHANGED varsLink
      PROVE  TypeOK'
  <2>1. pedido' \in Pedido
    <3>1. pedido' = [pedido EXCEPT !.frete = "empacotado"] /\ pedido \in Pedido
      BY <1>0, <1>16 DEF Embalar, TypeOK, TypeOKPagamento
    <3>2. QED
      BY <3>1 DEF Pedido, EstadoFrete
  <2>2. sobra' \in [Eventos -> Nat]
    BY <1>0, <1>16, GastarTipo DEF Embalar, TypeOK, TypeOKPagamento, Eventos
  <2>3. UNCHANGED <<provedor, tarefas, pagamentos, editor, chamadas, entregues, mexidos,
                   empatados, pendente, surpresa, links, vencidos, pagaveis, criacoes, cancelamentos,
                   retirados, abandonados>>
    BY <1>16 DEF Embalar, varsLink
  <2>4. QED
    BY <1>0, <2>1, <2>2, <2>3 DEF TypeOK, TypeOKPagamento
<1>17. ASSUME NEW o \in {"pagamento", "total"}, reconcilePedidoEstado(o), UNCHANGED varsLink
      PROVE  TypeOK'
  <2>1. pedido' \in Pedido
    BY <1>0, <1>17, ApplyTipo DEF reconcilePedidoEstado, TypeOK, TypeOKPagamento
  <2>2. chamadas' \subseteq {"pagamento", "total"}
    BY <1>0, <1>17 DEF reconcilePedidoEstado, TypeOK, TypeOKPagamento
  <2>3. pendente' \in BOOLEAN
    BY <1>0, <1>17 DEF reconcilePedidoEstado, TypeOK, TypeOKPagamento
  <2>4. UNCHANGED <<provedor, tarefas, pagamentos, editor, sobra, entregues, mexidos,
                   empatados, surpresa, links, vencidos, pagaveis, criacoes, cancelamentos, retirados,
                   abandonados>>
    BY <1>17 DEF reconcilePedidoEstado, varsLink
  <2>5. QED
    BY <1>0, <2>1, <2>2, <2>3, <2>4 DEF TypeOK, TypeOKPagamento
<1>18. ASSUME NEW o \in {"pagamento", "total"}, PerderChamada(o), UNCHANGED varsLink
      PROVE  TypeOK'
  <2>1. chamadas' \subseteq {"pagamento", "total"}
    BY <1>0, <1>18 DEF PerderChamada, TypeOK, TypeOKPagamento
  <2>2. pendente' \in BOOLEAN
    BY <1>0, <1>18 DEF PerderChamada, TypeOK, TypeOKPagamento
  <2>3. UNCHANGED <<provedor, tarefas, pagamentos, pedido, editor, sobra, entregues,
                   mexidos, empatados, surpresa, links, vencidos, pagaveis, criacoes, cancelamentos,
                   retirados, abandonados>>
    BY <1>18 DEF PerderChamada, varsLink
  <2>4. QED
    BY <1>0, <2>1, <2>2, <2>3 DEF TypeOK, TypeOKPagamento
<1>19. ASSUME NEW r \in Requisicoes, criarLinks(r)
      PROVE  TypeOK'
  <2>1. criacoes' \in [Requisicoes -> Criacao]
    <3>1. pedido.total \in Nat /\ criacoes \in [Requisicoes -> Criacao]
      BY <1>0 DEF TypeOK, TypeOKPagamento, Pedido
    <3>2. criacoes' = [criacoes EXCEPT ![r].fase = "postar", ![r].esperado = pedido.total]
      BY <1>19 DEF criarLinks
    <3>3. QED
      BY <3>1, <3>2 DEF Criacao
  <2>2. sobra' \in [Eventos -> Nat]
    BY <1>0, <1>19, GastarTipo DEF criarLinks, TypeOK, TypeOKPagamento, Eventos
  <2>3. UNCHANGED <<provedor, tarefas, pagamentos, pedido, editor, chamadas, entregues,
                   mexidos, empatados, pendente, surpresa, links, vencidos, pagaveis, cancelamentos,
                   retirados, abandonados>>
    BY <1>19 DEF criarLinks
  <2>4. QED
    BY <1>0, <2>1, <2>2, <2>3 DEF TypeOK, TypeOKPagamento
<1>20. ASSUME NEW r \in Requisicoes, createPreference(r)
      PROVE  TypeOK'
  <2>1. criacoes' \in [Requisicoes -> Criacao]
    <3>1. PICK l \in Lote[r] :
            criacoes' = [criacoes EXCEPT ![r].criadas = @ \cup {l},
              ![r].fase = IF Lote[r] = criacoes[r].criadas \cup {l} THEN "persistir" ELSE @]
      BY <1>20 DEF createPreference
    <3>2. l \in Links /\ criacoes \in [Requisicoes -> Criacao] /\ criacoes[r] \in Criacao
      BY <1>0, LinkAssumption DEF TypeOK
    <3> DEFINE fase == IF Lote[r] = criacoes[r].criadas \cup {l} THEN "persistir"
                       ELSE criacoes[r].fase
               x == [criacoes[r] EXCEPT !.criadas = criacoes[r].criadas \cup {l}, !.fase = fase]
    <3>3. fase \in {"nada", "postar", "persistir", "reler", "limpar", "feita"}
      BY <3>2 DEF Criacao
    <3>4. x \in Criacao
      <4> HIDE DEF fase
      <4> QED
        BY <3>2, <3>3 DEF Criacao
    <3>5. criacoes' = [criacoes EXCEPT ![r] = x]
      BY <3>1, <3>2
    <3> HIDE DEF x
    <3>6. QED
      BY <3>2, <3>4, <3>5
  <2>2. pagaveis' \subseteq Preferencias
    <3>1. PICK l \in Lote[r] : pagaveis' = pagaveis \cup {<<r, l>>}
      BY <1>20 DEF createPreference
    <3>2. <<r, l>> \in Preferencias
      BY LinkAssumption DEF Preferencias
    <3>3. QED
      BY <1>0, <3>1, <3>2 DEF TypeOK
  <2>3. UNCHANGED <<provedor, tarefas, pagamentos, pedido, editor, chamadas, sobra,
                   entregues, mexidos, empatados, pendente, surpresa, links, vencidos, cancelamentos,
                   retirados, abandonados>>
    BY <1>20 DEF createPreference, PagamentoParado, CriacaoSo
  <2>4. QED
    BY <1>0, <2>1, <2>2, <2>3 DEF TypeOK, TypeOKPagamento
<1>21. ASSUME NEW r \in Requisicoes, createPreferenceFalha(r)
      PROVE  TypeOK'
  <2>1. criacoes' \in [Requisicoes -> Criacao]
    BY <1>0, <1>21, IrTipo DEF createPreferenceFalha, TypeOK, TypeOKPagamento
  <2>2. UNCHANGED <<provedor, tarefas, pagamentos, pedido, editor, chamadas, sobra,
                   entregues, mexidos, empatados, pendente, surpresa, links, vencidos, pagaveis,
                   cancelamentos, retirados, abandonados>>
    BY <1>21 DEF createPreferenceFalha, Ir, PagamentoParado, CriacaoSo
  <2>3. QED
    BY <1>0, <2>1, <2>2 DEF TypeOK, TypeOKPagamento
<1>22. ASSUME NEW r \in Requisicoes, persistirLinks(r)
      PROVE  TypeOK'
  <2>1. criacoes' \in [Requisicoes -> Criacao]
    BY <1>0, <1>22, IrTipo DEF persistirLinks, TypeOK, TypeOKPagamento
  <2>2. links' \in [Links -> Link \cup {Nenhum}]
    BY <1>0, <1>22, GravarEfeito DEF persistirLinks, TypeOK, TypeOKPagamento
  <2>3. pedido' \in Pedido
    BY <1>0, <1>22, GravarEfeito DEF persistirLinks, TypeOK, TypeOKPagamento
  <2>4. UNCHANGED <<provedor, tarefas, pagamentos, editor, chamadas, sobra, entregues,
                   mexidos, empatados, pendente, surpresa, vencidos, pagaveis, cancelamentos,
                   retirados, abandonados>>
    BY <1>22 DEF persistirLinks, Ir
  <2>5. QED
    BY <1>0, <2>1, <2>2, <2>3, <2>4 DEF TypeOK, TypeOKPagamento
<1>23. ASSUME NEW r \in Requisicoes, lerLinksSolicitados(r)
      PROVE  TypeOK'
  <2>1. criacoes' \in [Requisicoes -> Criacao]
    BY <1>0, <1>23, IrTipo DEF lerLinksSolicitados, TypeOK, TypeOKPagamento
  <2>2. UNCHANGED <<provedor, tarefas, pagamentos, pedido, editor, chamadas, sobra,
                   entregues, mexidos, empatados, pendente, surpresa, links, vencidos, pagaveis,
                   cancelamentos, retirados, abandonados>>
    BY <1>23 DEF lerLinksSolicitados, Ir, PagamentoParado, CriacaoSo
  <2>3. QED
    BY <1>0, <2>1, <2>2 DEF TypeOK, TypeOKPagamento
<1>24. ASSUME NEW r \in Requisicoes, expirarPreferencias(r)
      PROVE  TypeOK'
  <2>1. criacoes' \in [Requisicoes -> Criacao]
    BY <1>0, <1>24, IrTipo DEF expirarPreferencias, TypeOK, TypeOKPagamento
  <2>2. pagaveis' \subseteq Preferencias
    BY <1>0, <1>24 DEF expirarPreferencias, TypeOK, TypeOKPagamento
  <2>3. UNCHANGED <<provedor, tarefas, pagamentos, pedido, editor, chamadas, sobra,
                   entregues, mexidos, empatados, pendente, surpresa, links, vencidos, cancelamentos,
                   retirados, abandonados>>
    BY <1>24 DEF expirarPreferencias, Ir, PagamentoParado, CriacaoSo
  <2>4. QED
    BY <1>0, <2>1, <2>2, <2>3 DEF TypeOK, TypeOKPagamento
<1>25. ASSUME NEW r \in Requisicoes, MorrerCriacao(r)
      PROVE  TypeOK'
  <2>1. criacoes' \in [Requisicoes -> Criacao]
    BY <1>0, <1>25, IrTipo DEF MorrerCriacao, TypeOK, TypeOKPagamento
  <2>2. UNCHANGED <<provedor, tarefas, pagamentos, pedido, editor, chamadas, sobra,
                   entregues, mexidos, empatados, pendente, surpresa, links, vencidos, pagaveis,
                   cancelamentos, retirados, abandonados>>
    BY <1>25 DEF MorrerCriacao, Ir, PagamentoParado, CriacaoSo
  <2>3. QED
    BY <1>0, <2>1, <2>2 DEF TypeOK, TypeOKPagamento
<1>26. ASSUME NEW l \in Links, cancelarLink(l)
      PROVE  TypeOK'
  <2>1. cancelamentos' \in [Links -> {"nada", "expirar", "marcar"}]
    BY <1>0, <1>26 DEF cancelarLink, TypeOK, TypeOKPagamento
  <2>2. sobra' \in [Eventos -> Nat]
    BY <1>0, <1>26, GastarTipo DEF cancelarLink, TypeOK, TypeOKPagamento, Eventos
  <2>3. UNCHANGED <<provedor, tarefas, pagamentos, pedido, editor, chamadas, entregues,
                   mexidos, empatados, pendente, surpresa, links, vencidos, pagaveis, criacoes,
                   retirados, abandonados>>
    BY <1>26 DEF cancelarLink
  <2>4. QED
    BY <1>0, <2>1, <2>2, <2>3 DEF TypeOK, TypeOKPagamento
<1>27. ASSUME NEW l \in Links, ExpirarParaCancelar(l)
      PROVE  TypeOK'
  <2>1. cancelamentos' \in [Links -> {"nada", "expirar", "marcar"}]
    BY <1>0, <1>27 DEF ExpirarParaCancelar, TypeOK, TypeOKPagamento
  <2>2. pagaveis' \subseteq Preferencias
    BY <1>0, <1>27 DEF ExpirarParaCancelar, Expirada, TypeOK, TypeOKPagamento
  <2>3. retirados' \subseteq Preferencias
    <3>1. links[l].preferencia \in Preferencias
      BY <1>0, <1>27 DEF EmMaos, ExpirarParaCancelar, TypeOK, Guardados, Link
    <3>2. QED
      BY <1>0, <1>27, <3>1 DEF ExpirarParaCancelar, Expirada, TypeOK
  <2>4. UNCHANGED <<provedor, tarefas, pagamentos, pedido, editor, chamadas, sobra,
                   entregues, mexidos, empatados, pendente, surpresa, links, vencidos, criacoes,
                   abandonados>>
    BY <1>27 DEF ExpirarParaCancelar, Expirada, PagamentoParado, CancelamentoSo
  <2>5. QED
    BY <1>0, <2>1, <2>2, <2>3, <2>4 DEF TypeOK, TypeOKPagamento
<1>28. ASSUME NEW l \in Links, MarcarCancelado(l)
      PROVE  TypeOK'
  <2>1. cancelamentos' \in [Links -> {"nada", "expirar", "marcar"}]
    BY <1>0, <1>28 DEF MarcarCancelado, TypeOK, TypeOKPagamento
  <2>2. links' \in [Links -> Link \cup {Nenhum}]
    <3>1. l \in Guardados
      BY <1>0, <1>28 DEF EmMaos, MarcarCancelado
    <3>2. QED
      BY <1>0, <1>28, <3>1, MarcarEfeito DEF MarcarCancelado, StatusLinkPagamento, TypeOK
  <2>3. UNCHANGED <<provedor, tarefas, pagamentos, pedido, editor, chamadas, sobra,
                   entregues, mexidos, empatados, pendente, surpresa, vencidos, pagaveis, criacoes,
                   retirados, abandonados>>
    BY <1>28 DEF MarcarCancelado, marcarLinkTerminal, PagamentoParado, CancelamentoSo
  <2>4. QED
    BY <1>0, <2>1, <2>2, <2>3 DEF TypeOK, TypeOKPagamento
<1>29. ASSUME NEW l \in Links, Vencer(l)
      PROVE  TypeOK'
  <2>1. vencidos' \subseteq Links
    BY <1>0, <1>29 DEF Vencer, TypeOK, TypeOKPagamento
  <2>2. sobra' \in [Eventos -> Nat]
    BY <1>0, <1>29, GastarTipo DEF Vencer, TypeOK, TypeOKPagamento, Eventos
  <2>3. UNCHANGED <<provedor, tarefas, pagamentos, pedido, editor, chamadas, entregues,
                   mexidos, empatados, pendente, surpresa, links, pagaveis, criacoes, cancelamentos,
                   retirados, abandonados>>
    BY <1>29 DEF Vencer
  <2>4. QED
    BY <1>0, <2>1, <2>2, <2>3 DEF TypeOK, TypeOKPagamento
<1>30. ASSUME UNCHANGED vars
      PROVE  TypeOK'
  BY <1>0, <1>30 DEF vars, varsLink, varsPagamento, TypeOK, TypeOKPagamento
<1>31. QED
  BY <1>1, <1>2, <1>3, <1>4, <1>5, <1>6, <1>7, <1>8, <1>9, <1>10, <1>11, <1>12, <1>13,
     <1>14, <1>15, <1>16, <1>17, <1>18, <1>19, <1>20, <1>21, <1>22, <1>23, <1>24, <1>25,
     <1>26, <1>27, <1>28, <1>29, <1>30 DEF Next, Notificacao, Operador, Criar

(* Every step keeps in hand only what exists.                              *)
LEMMA EmMaosPasso ==
  ASSUME TipoInv, [Next]_vars
  PROVE  EmMaos'
<1>1. ASSUME NEW p \in Pagamentos, PagarLink(p)
      PROVE  EmMaos'
  <2>1. /\ Notificar(p) /\ provedor'[p] # Nenhum
        /\ \A q \in Pagamentos : provedor[q] # Nenhum => provedor'[q] # Nenhum
        /\ UNCHANGED <<links, cancelamentos>>
    BY <1>1, TipoInv, PagamentoAssumption, PagarEfeito DEF varsLink, TipoInv, TypeOK,
       TypeOKPagamento
  <2>2. QED
    BY <2>1, TipoInv, NotificarEmMaos
<1>2. ASSUME NEW p \in Pagamentos, ProvedorMuda(p), UNCHANGED varsLink
      PROVE  EmMaos'
  <2>1. /\ Notificar(p) /\ provedor'[p] # Nenhum
        /\ \A q \in Pagamentos : provedor[q] # Nenhum => provedor'[q] # Nenhum
        /\ UNCHANGED <<links, cancelamentos>>
    BY <1>2, TipoInv, PagamentoAssumption, ProvedorEfeito DEF varsLink, TipoInv, TypeOK,
       TypeOKPagamento
  <2>2. QED
    BY <2>1, TipoInv, NotificarEmMaos
<1>3. ASSUME NEW p \in Pagamentos, Reentregar(p), UNCHANGED varsLink
      PROVE  EmMaos'
  <2>1. /\ Notificar(p) /\ provedor'[p] # Nenhum
        /\ \A q \in Pagamentos : provedor[q] # Nenhum => provedor'[q] # Nenhum
        /\ UNCHANGED <<links, cancelamentos>>
    BY <1>3, TipoInv, PagamentoAssumption DEF Reentregar, varsLink
  <2>2. QED
    BY <2>1, TipoInv, NotificarEmMaos
<1>4. ASSUME NEW t \in Tarefas, fetchPayment(t), UNCHANGED varsLink
      PROVE  EmMaos'
  <2>1. PICK x \in Tarefa :
          /\ tarefas' = [tarefas EXCEPT ![t] = x]
          /\ x.fase # "livre" => tarefas[t].fase # "livre" /\ x.pagamento = tarefas[t].pagamento
          /\ x.fase \in {"expirar", "marcar"} => LinkDaTarefa(t) \in Guardados
    BY TipoInv, <1>4, TarefaEfeito
       DEF Livre, EmMaos, TipoInv
  <2>2. UNCHANGED <<provedor, links, cancelamentos>>
    BY <1>4 DEF fetchPayment, varsLink
  <2>3. QED
    BY TipoInv, <2>1, <2>2, TarefaEmMaos
<1>5. ASSUME NEW t \in Tarefas, reconcilePedidoFromPagamento(t, links, vencidos), UNCHANGED varsLink
      PROVE  EmMaos'
  <2> DEFINE p == tarefas[t].pagamento
             copia == tarefas[t].copia
  <2>1. /\ p \in Pagamentos /\ tarefas[t].fase = "buscou"
        /\ reconcileObsoleta(t, p, copia) \/ reconcileGrava(t, p, copia)
        /\ UNCHANGED provedor
    BY <1>5, TipoInv, ReconcileEfeito
  <2>2. PICK docs : Encaminhar(t, p, docs)
    BY <2>1 DEF reconcileObsoleta, reconcileGrava
  <2>3. PICK x \in Tarefa :
          /\ tarefas' = [tarefas EXCEPT ![t] = x]
          /\ x.fase # "livre" => x.fase = "fechar" /\ x.pagamento = p
    BY TipoInv, <2>1, <2>2, EncaminharEfeito DEF TipoInv, Livre
  <2>4. UNCHANGED <<links, cancelamentos>>
    BY <1>5 DEF varsLink
  <2>5. QED
    BY TipoInv, <2>1, <2>3, <2>4, TarefaEmMaos
<1>6. ASSUME NEW t \in Tarefas, encerrarLinkSeCompleto(t)
      PROVE  EmMaos'
  <2>1. PICK x \in Tarefa :
          /\ tarefas' = [tarefas EXCEPT ![t] = x]
          /\ x.fase # "livre" => tarefas[t].fase # "livre" /\ x.pagamento = tarefas[t].pagamento
          /\ x.fase \in {"expirar", "marcar"} => LinkDaTarefa(t) \in Guardados
    BY TipoInv, <1>6, TarefaEfeito
       DEF Livre, EmMaos, TipoInv
  <2>2. UNCHANGED <<provedor, links, cancelamentos>>
    BY <1>6 DEF encerrarLinkSeCompleto, PagamentoParado, DemaisLinks
  <2>3. QED
    BY TipoInv, <2>1, <2>2, TarefaEmMaos
<1>7. ASSUME NEW t \in Tarefas, ExpirarParaFechar(t)
      PROVE  EmMaos'
  <2>1. PICK x \in Tarefa :
          /\ tarefas' = [tarefas EXCEPT ![t] = x]
          /\ x.fase # "livre" => tarefas[t].fase # "livre" /\ x.pagamento = tarefas[t].pagamento
          /\ x.fase \in {"expirar", "marcar"} => LinkDaTarefa(t) \in Guardados
    BY TipoInv, <1>7, TarefaEfeito
       DEF Livre, EmMaos, TipoInv
  <2>2. UNCHANGED <<provedor, links, cancelamentos>>
    BY <1>7 DEF ExpirarParaFechar, PagamentoParado, DemaisLinks
  <2>3. QED
    BY TipoInv, <2>1, <2>2, TarefaEmMaos
<1>8. ASSUME NEW t \in Tarefas, MarcarConcluido(t)
      PROVE  EmMaos'
  <2>1. /\ tarefas' = [tarefas EXCEPT ![t] = Livre] /\ Livre \in Tarefa
        /\ \A l \in Links : (links'[l] = Nenhum) <=> (links[l] = Nenhum)
    BY TipoInv, <1>8, TarefaEfeito, MarcarEfeito
       DEF TipoInv, Tarefa, Livre, StatusLinkPagamento
  <2>2. UNCHANGED <<provedor, cancelamentos>>
    BY <1>8 DEF MarcarConcluido, PagamentoParado, DemaisLinks
  <2>3. QED
    BY TipoInv, <2>1, <2>2, TarefaEmMaos DEF Livre
<1>9. ASSUME NEW t \in Tarefas, Falhar(t)
      PROVE  EmMaos'
  <2>1. PICK x \in Tarefa :
          /\ tarefas' = [tarefas EXCEPT ![t] = x]
          /\ x.fase # "livre" => tarefas[t].fase # "livre" /\ x.pagamento = tarefas[t].pagamento
          /\ x.fase \in {"expirar", "marcar"} => LinkDaTarefa(t) \in Guardados
    BY TipoInv, <1>9, TarefaEfeito
       DEF Livre, EmMaos, TipoInv
  <2>2. UNCHANGED <<provedor, links, cancelamentos>>
    BY <1>9 DEF Falhar
  <2>3. QED
    BY TipoInv, <2>1, <2>2, TarefaEmMaos
<1>10. ASSUME CriarPagamentos, UNCHANGED varsLink
      PROVE  EmMaos'
  BY TipoInv, <1>10, EmMaosQuadro DEF CriarPagamentos, Registrar, varsLink
<1>11. ASSUME NEW d \in Docs, savePagamento(d), UNCHANGED varsLink
      PROVE  EmMaos'
  BY TipoInv, <1>11, EmMaosQuadro DEF savePagamento, Registrar, varsLink
<1>12. ASSUME NEW d \in Docs, deletePagamento(d), UNCHANGED varsLink
      PROVE  EmMaos'
  BY TipoInv, <1>12, EmMaosQuadro DEF deletePagamento, Registrar, varsLink
<1>13. ASSUME AbrirEditor, UNCHANGED varsLink
      PROVE  EmMaos'
  BY TipoInv, <1>13, EmMaosQuadro DEF AbrirEditor, varsLink
<1>14. ASSUME savePedido, UNCHANGED varsLink
      PROVE  EmMaos'
  BY TipoInv, <1>14, EmMaosQuadro DEF savePedido, varsLink
<1>15. ASSUME MudarEstado, UNCHANGED varsLink
      PROVE  EmMaos'
  BY TipoInv, <1>15, EmMaosQuadro DEF MudarEstado, varsLink
<1>16. ASSUME Embalar, UNCHANGED varsLink
      PROVE  EmMaos'
  BY TipoInv, <1>16, EmMaosQuadro DEF Embalar, varsLink
<1>17. ASSUME NEW o \in {"pagamento", "total"}, reconcilePedidoEstado(o), UNCHANGED varsLink
      PROVE  EmMaos'
  BY TipoInv, <1>17, EmMaosQuadro DEF reconcilePedidoEstado, varsLink
<1>18. ASSUME NEW o \in {"pagamento", "total"}, PerderChamada(o), UNCHANGED varsLink
      PROVE  EmMaos'
  BY TipoInv, <1>18, EmMaosQuadro DEF PerderChamada, varsLink
<1>19. ASSUME NEW r \in Requisicoes, criarLinks(r)
      PROVE  EmMaos'
  BY TipoInv, <1>19, EmMaosQuadro DEF criarLinks
<1>20. ASSUME NEW r \in Requisicoes, createPreference(r)
      PROVE  EmMaos'
  BY TipoInv, <1>20, EmMaosQuadro DEF createPreference, PagamentoParado, CriacaoSo
<1>21. ASSUME NEW r \in Requisicoes, createPreferenceFalha(r)
      PROVE  EmMaos'
  BY TipoInv, <1>21, EmMaosQuadro DEF createPreferenceFalha, Ir, PagamentoParado, CriacaoSo
<1>22. ASSUME NEW r \in Requisicoes, persistirLinks(r)
      PROVE  EmMaos'
  <2>1. \A l \in Guardados : links'[l] # Nenhum
    BY TipoInv, <1>22, GravarEfeito DEF persistirLinks, TipoInv, Guardados
  <2>2. Guardados \subseteq Guardados'
    BY <2>1 DEF Guardados
  <2>3. UNCHANGED <<tarefas, provedor, cancelamentos>>
    BY <1>22 DEF persistirLinks
  <2>4. QED
    BY TipoInv, <2>2, <2>3 DEF TipoInv, EmMaos, LinkDaTarefa
<1>23. ASSUME NEW r \in Requisicoes, lerLinksSolicitados(r)
      PROVE  EmMaos'
  BY TipoInv, <1>23, EmMaosQuadro DEF lerLinksSolicitados, Ir, PagamentoParado, CriacaoSo
<1>24. ASSUME NEW r \in Requisicoes, expirarPreferencias(r)
      PROVE  EmMaos'
  BY TipoInv, <1>24, EmMaosQuadro DEF expirarPreferencias, Ir, PagamentoParado, CriacaoSo
<1>25. ASSUME NEW r \in Requisicoes, MorrerCriacao(r)
      PROVE  EmMaos'
  BY TipoInv, <1>25, EmMaosQuadro DEF MorrerCriacao, Ir, PagamentoParado, CriacaoSo
<1>26. ASSUME NEW l \in Links, cancelarLink(l)
      PROVE  EmMaos'
  <2>1. /\ l \in Guardados /\ cancelamentos' = [cancelamentos EXCEPT ![l] = "expirar"]
        /\ UNCHANGED <<tarefas, provedor, links>>
    BY <1>26 DEF cancelarLink
  <2>2. QED
    BY TipoInv, <2>1 DEF TipoInv, TypeOK, EmMaos, LinkDaTarefa, Guardados
<1>27. ASSUME NEW l \in Links, ExpirarParaCancelar(l)
      PROVE  EmMaos'
  <2>1. /\ \A k \in Links : cancelamentos'[k] # "nada" => cancelamentos[k] # "nada"
        /\ UNCHANGED <<tarefas, provedor, links>>
    BY TipoInv, <1>27 DEF ExpirarParaCancelar, CancelamentoSo, PagamentoParado, TipoInv, TypeOK
  <2>2. QED
    BY TipoInv, <2>1 DEF TipoInv, EmMaos, LinkDaTarefa, Guardados
<1>28. ASSUME NEW l \in Links, MarcarCancelado(l)
      PROVE  EmMaos'
  <2>1. \A k \in Links : (links'[k] = Nenhum) <=> (links[k] = Nenhum)
    BY TipoInv, <1>28, MarcarEfeito DEF MarcarCancelado, TipoInv, EmMaos, StatusLinkPagamento
  <2>2. /\ \A k \in Links : cancelamentos'[k] # "nada" => cancelamentos[k] # "nada"
        /\ UNCHANGED <<tarefas, provedor>>
    BY TipoInv, <1>28 DEF MarcarCancelado, CancelamentoSo, PagamentoParado, TipoInv, TypeOK
  <2>3. QED
    BY TipoInv, <2>1, <2>2 DEF TipoInv, EmMaos, LinkDaTarefa, Guardados
<1>29. ASSUME NEW l \in Links, Vencer(l)
      PROVE  EmMaos'
  BY TipoInv, <1>29, EmMaosQuadro DEF Vencer
<1>30. ASSUME UNCHANGED vars
      PROVE  EmMaos'
  BY TipoInv, <1>30, EmMaosQuadro DEF vars, varsLink, varsPagamento
<1>31. QED
  BY <1>1, <1>2, <1>3, <1>4, <1>5, <1>6, <1>7, <1>8, <1>9, <1>10, <1>11, <1>12, <1>13,
     <1>14, <1>15, <1>16, <1>17, <1>18, <1>19, <1>20, <1>21, <1>22, <1>23, <1>24, <1>25,
     <1>26, <1>27, <1>28, <1>29, <1>30 DEF Next, Notificacao, Operador, Criar

-----------------------------------------------------------------------------
(* The preferences.                                                        *)

(* A stored link carries a preference minted for it.                       *)
PreferenciaPropria ==
  \A l \in Guardados : \E r \in Requisicoes \cup {Stored} : links[l].preferencia = <<r, l>>

Carrega(l, r) == l \in Guardados /\ links[l].preferencia = <<r, l>>

(* A request stores its whole batch or nothing; what it minted and did not *)
(* store is payable until it is withdrawn; what it expires no stored link  *)
(* carries.                                                                *)
CriacaoInv(r) ==
  /\ criacoes[r].criadas \subseteq Lote[r]
  /\ criacoes[r].fase = "nada" => criacoes[r].criadas = {}
  /\ criacoes[r].fase = "persistir" => criacoes[r].criadas = Lote[r]
  /\ criacoes[r].fase \in {"nada", "postar"} => \A l \in Links : ~Carrega(l, r)
  /\ \A l \in Links : Carrega(l, r) => l \in Lote[r] /\ Lote[r] \subseteq Guardados
  /\ criacoes[r].fase \in {"postar", "persistir"} =>
       \A l \in criacoes[r].criadas : <<r, l>> \in pagaveis \cup retirados
  /\ criacoes[r].sobras \subseteq {r} \X Lote[r]
  /\ \A l \in Guardados : links[l].preferencia \notin criacoes[r].sobras

LinksInv == PreferenciaPropria /\ \A r \in Requisicoes : CriacaoInv(r)

LEMMA IrEfeito ==
  ASSUME TypeOK, NEW r \in Requisicoes, NEW fase, NEW sobras, Ir(r, fase, sobras)
  PROVE  /\ \A s \in Requisicoes \ {r} : criacoes'[s] = criacoes[s]
         /\ criacoes'[r].fase = fase /\ criacoes'[r].sobras = sobras
         /\ criacoes'[r].criadas = criacoes[r].criadas
  BY DEF Ir, TypeOK, Criacao

(* A request that does not move keeps its invariant while the links carry  *)
(* what they carried and its preferences are payable or withdrawn.         *)
LEMMA CriacaoParada ==
  ASSUME TypeOK, NEW r \in Requisicoes, CriacaoInv(r), criacoes'[r] = criacoes[r],
         Guardados' = Guardados,
         \A l \in Guardados : links'[l].preferencia = links[l].preferencia,
         \A l \in Links : <<r, l>> \in pagaveis \cup retirados =>
                            <<r, l>> \in pagaveis' \cup retirados'
  PROVE  CriacaoInv(r)'
<1>1. \A l \in Links : Carrega(l, r)' <=> Carrega(l, r)
  BY DEF Carrega
<1>2. criacoes[r].criadas \subseteq Links
  BY DEF TypeOK, Criacao
<1>3. QED
  BY <1>1, <1>2 DEF CriacaoInv

LEMMA LinksMesmos ==
  ASSUME TypeOK, LinksInv, UNCHANGED criacoes,
         \A l \in Links : (links'[l] = Nenhum) <=> (links[l] = Nenhum),
         \A l \in Guardados : links'[l].preferencia = links[l].preferencia,
         pagaveis \cup retirados \subseteq pagaveis' \cup retirados'
  PROVE  LinksInv'
<1>1. Guardados' = Guardados
  BY DEF Guardados
<1>2. PreferenciaPropria'
  BY <1>1 DEF LinksInv, PreferenciaPropria
<1>3. \A r \in Requisicoes : CriacaoInv(r)'
  BY <1>1, CriacaoParada DEF LinksInv
<1>4. QED
  BY <1>2, <1>3 DEF LinksInv

LEMMA LinksQuadro ==
  ASSUME TypeOK, LinksInv, UNCHANGED <<links, pagaveis, retirados, criacoes>>
  PROVE  LinksInv'
  BY LinksMesmos

(* One request moves, and no link does.                                    *)
LEMMA CriacaoMove ==
  ASSUME TypeOK, LinksInv, NEW r \in Requisicoes, UNCHANGED links,
         \A s \in Requisicoes \ {r} : criacoes'[s] = criacoes[s],
         \A s \in Requisicoes \ {r}, l \in Links :
           <<s, l>> \in pagaveis \cup retirados => <<s, l>> \in pagaveis' \cup retirados',
         CriacaoInv(r)'
  PROVE  LinksInv'
<1>1. Guardados' = Guardados
  BY DEF Guardados
<1>2. PreferenciaPropria'
  BY <1>1 DEF LinksInv, PreferenciaPropria
<1>3. \A s \in Requisicoes \ {r} : CriacaoInv(s)'
  BY <1>1, CriacaoParada DEF LinksInv
<1>4. QED
  BY <1>2, <1>3 DEF LinksInv

(* What a request expires is what no stored link carries.                  *)
LEMMA SobrasLivres ==
  ASSUME TypeOK, LinksInv, NEW r \in Requisicoes
  PROVE  /\ preferenciasSemLink(r) \subseteq {r} \X Lote[r]
         /\ \A l \in Guardados : links[l].preferencia \notin preferenciasSemLink(r)
         /\ MinhasPreferencias(r) \subseteq {r} \X Lote[r]
         /\ ~(Lote[r] \subseteq Guardados) \/ criacoes[r].fase \in {"nada", "postar"} =>
              \A l \in Guardados : links[l].preferencia \notin MinhasPreferencias(r)
<1>1. MinhasPreferencias(r) \subseteq {r} \X Lote[r]
  BY DEF LinksInv, CriacaoInv, MinhasPreferencias
<1>2. ASSUME NEW l \in Guardados, links[l].preferencia \in MinhasPreferencias(r)
      PROVE  Carrega(l, r) /\ l \in Lote[r] /\ Lote[r] \subseteq Guardados
                /\ criacoes[r].fase \notin {"nada", "postar"}
  <2>1. PICK k \in criacoes[r].criadas : links[l].preferencia = <<r, k>>
    BY <1>2 DEF MinhasPreferencias
  <2>2. l \in Links /\ links[l].preferencia = <<r, l>>
    BY <2>1 DEF LinksInv, PreferenciaPropria, Guardados
  <2>3. QED
    BY <2>2 DEF LinksInv, CriacaoInv, Carrega
<1>3. \A l \in Guardados : links[l].preferencia \notin preferenciasSemLink(r)
  BY <1>2 DEF preferenciasSemLink
<1>4. QED
  BY <1>1, <1>2, <1>3 DEF preferenciasSemLink

(* A request that leaves its phase for the cleaning, or for its end.       *)
LEMMA CriacaoLimpa ==
  ASSUME TypeOK, LinksInv, NEW r \in Requisicoes,
         NEW fase \in {"reler", "limpar", "feita"}, NEW sobras, Ir(r, fase, sobras),
         UNCHANGED links, pagaveis' \cup retirados' = pagaveis \cup retirados,
         sobras \subseteq {r} \X Lote[r],
         \A l \in Guardados : links[l].preferencia \notin sobras
  PROVE  LinksInv'
<1>1. /\ \A s \in Requisicoes \ {r} : criacoes'[s] = criacoes[s]
      /\ criacoes'[r].fase = fase /\ criacoes'[r].sobras = sobras
      /\ criacoes'[r].criadas = criacoes[r].criadas
  BY IrEfeito
<1>2. Guardados' = Guardados /\ \A l \in Links : Carrega(l, r)' <=> Carrega(l, r)
  BY DEF Guardados, Carrega
<1>3. CriacaoInv(r)'
  BY <1>1, <1>2 DEF LinksInv, CriacaoInv
<1>4. QED
  BY <1>1, <1>3, CriacaoMove

(* A request stores its batch.                                             *)
LEMMA GravarLinksInv ==
  ASSUME TypeOK, LinksInv, NEW r \in Requisicoes, criacoes[r].fase = "persistir",
         GravarLinks(r), NEW fase \in {"persistir", "reler", "feita"}, Ir(r, fase, {}),
         UNCHANGED <<pagaveis, retirados>>
  PROVE  LinksInv'
<1>1. /\ \A s \in Requisicoes \ {r} : criacoes'[s] = criacoes[s]
      /\ criacoes'[r].fase = fase /\ criacoes'[r].sobras = {}
      /\ criacoes'[r].criadas = criacoes[r].criadas
  BY IrEfeito
<1>2. /\ Lote[r] \subseteq Links /\ Lote[r] \cap Guardados = {}
      /\ \A l \in Lote[r] : links'[l] # Nenhum /\ links'[l].preferencia = <<r, l>>
      /\ \A l \in Links \ Lote[r] : links'[l] = links[l]
  BY GravarEfeito
<1>3. Guardados' = Guardados \cup Lote[r]
  BY <1>2 DEF Guardados
<1>4. \A l \in Guardados : links'[l] = links[l]
  BY <1>2 DEF Guardados
<1>5. PreferenciaPropria'
  BY <1>2, <1>3, <1>4 DEF LinksInv, PreferenciaPropria
<1>6. \A s \in Requisicoes \ {r}, l \in Links : Carrega(l, s)' <=> Carrega(l, s)
  BY <1>2, <1>3, <1>4 DEF Carrega, Guardados
<1>7. \A s \in Requisicoes \ {r}, l \in Lote[r] : links'[l].preferencia \notin {s} \X Lote[s]
  BY <1>2
<1>8. \A s \in Requisicoes \ {r} : CriacaoInv(s)'
  <2> SUFFICES ASSUME NEW s \in Requisicoes \ {r} PROVE CriacaoInv(s)'
    OBVIOUS
  <2>1. CriacaoInv(s)
    BY DEF LinksInv
  <2>2. \A l \in Guardados' : links'[l].preferencia \notin criacoes[s].sobras
    BY <1>3, <1>4, <1>7, <2>1 DEF CriacaoInv
  <2>3. QED
    BY <1>1, <1>3, <1>6, <2>1, <2>2 DEF CriacaoInv
<1>9. CriacaoInv(r)'
  <2>1. CriacaoInv(r)
    BY DEF LinksInv
  <2>2. \A l \in Links : Carrega(l, r)' => l \in Lote[r]
    <3>1. SUFFICES ASSUME NEW l \in Links, Carrega(l, r)', l \notin Lote[r] PROVE FALSE
      OBVIOUS
    <3>2. Carrega(l, r)
      BY <1>2, <1>3, <3>1 DEF Carrega
    <3>3. QED
      BY <2>1, <3>1, <3>2 DEF CriacaoInv
  <2>3. QED
    BY <1>1, <1>3, <2>1, <2>2 DEF CriacaoInv
<1>10. QED
  BY <1>5, <1>8, <1>9 DEF LinksInv

(* Every step keeps what requests know of the links true.                  *)
LEMMA LinksPasso ==
  ASSUME TipoInv, LinksInv, [Next]_vars
  PROVE  LinksInv'
<1>1. ASSUME NEW p \in Pagamentos, PagarLink(p)
      PROVE  LinksInv'
  BY TipoInv, LinksInv, <1>1, LinksQuadro DEF TipoInv, PagarLink, Pagar, varsLink
<1>2. ASSUME NEW p \in Pagamentos, ProvedorMuda(p), UNCHANGED varsLink
      PROVE  LinksInv'
  BY TipoInv, LinksInv, <1>2, LinksQuadro DEF TipoInv, ProvedorMuda, varsLink
<1>3. ASSUME NEW p \in Pagamentos, Reentregar(p), UNCHANGED varsLink
      PROVE  LinksInv'
  BY TipoInv, LinksInv, <1>3, LinksQuadro DEF TipoInv, Reentregar, varsLink
<1>4. ASSUME NEW t \in Tarefas, fetchPayment(t), UNCHANGED varsLink
      PROVE  LinksInv'
  BY TipoInv, LinksInv, <1>4, LinksQuadro DEF TipoInv, fetchPayment, varsLink
<1>5. ASSUME NEW t \in Tarefas, reconcilePedidoFromPagamento(t, links, vencidos), UNCHANGED varsLink
      PROVE  LinksInv'
  BY TipoInv, LinksInv, <1>5, LinksQuadro DEF TipoInv, reconcilePedidoFromPagamento, varsLink
<1>6. ASSUME NEW t \in Tarefas, encerrarLinkSeCompleto(t)
      PROVE  LinksInv'
  BY TipoInv, LinksInv, <1>6, LinksQuadro DEF TipoInv, encerrarLinkSeCompleto, PagamentoParado,
     DemaisLinks
<1>7. ASSUME NEW t \in Tarefas, ExpirarParaFechar(t)
      PROVE  LinksInv'
  <2>1. /\ UNCHANGED criacoes
        /\ \A l \in Links : (links'[l] = Nenhum) <=> (links[l] = Nenhum)
        /\ \A l \in Guardados : links'[l].preferencia = links[l].preferencia
        /\ pagaveis \cup retirados \subseteq pagaveis' \cup retirados'
    BY TipoInv, <1>7 DEF ExpirarParaFechar, Expirada, PagamentoParado, DemaisLinks, TipoInv
  <2>2. QED
    BY TipoInv, LinksInv, <2>1, LinksMesmos DEF TipoInv
<1>8. ASSUME NEW t \in Tarefas, MarcarConcluido(t)
      PROVE  LinksInv'
  <2>1. /\ UNCHANGED criacoes
        /\ \A l \in Links : (links'[l] = Nenhum) <=> (links[l] = Nenhum)
        /\ \A l \in Guardados : links'[l].preferencia = links[l].preferencia
        /\ pagaveis \cup retirados \subseteq pagaveis' \cup retirados'
    BY TipoInv, <1>8, TarefaEfeito, MarcarEfeito DEF MarcarConcluido, PagamentoParado,
       DemaisLinks, StatusLinkPagamento, TipoInv
  <2>2. QED
    BY TipoInv, LinksInv, <2>1, LinksMesmos DEF TipoInv
<1>9. ASSUME NEW t \in Tarefas, Falhar(t)
      PROVE  LinksInv'
  <2>1. /\ UNCHANGED criacoes
        /\ \A l \in Links : (links'[l] = Nenhum) <=> (links[l] = Nenhum)
        /\ \A l \in Guardados : links'[l].preferencia = links[l].preferencia
        /\ pagaveis \cup retirados \subseteq pagaveis' \cup retirados'
    BY TipoInv, <1>9 DEF Falhar, Expirada, TipoInv
  <2>2. QED
    BY TipoInv, LinksInv, <2>1, LinksMesmos DEF TipoInv
<1>10. ASSUME CriarPagamentos, UNCHANGED varsLink
      PROVE  LinksInv'
  BY TipoInv, LinksInv, <1>10, LinksQuadro DEF TipoInv, CriarPagamentos, Registrar, varsLink
<1>11. ASSUME NEW d \in Docs, savePagamento(d), UNCHANGED varsLink
      PROVE  LinksInv'
  BY TipoInv, LinksInv, <1>11, LinksQuadro DEF TipoInv, savePagamento, Registrar, varsLink
<1>12. ASSUME NEW d \in Docs, deletePagamento(d), UNCHANGED varsLink
      PROVE  LinksInv'
  BY TipoInv, LinksInv, <1>12, LinksQuadro DEF TipoInv, deletePagamento, Registrar, varsLink
<1>13. ASSUME AbrirEditor, UNCHANGED varsLink
      PROVE  LinksInv'
  BY TipoInv, LinksInv, <1>13, LinksQuadro DEF TipoInv, AbrirEditor, varsLink
<1>14. ASSUME savePedido, UNCHANGED varsLink
      PROVE  LinksInv'
  BY TipoInv, LinksInv, <1>14, LinksQuadro DEF TipoInv, savePedido, varsLink
<1>15. ASSUME MudarEstado, UNCHANGED varsLink
      PROVE  LinksInv'
  BY TipoInv, LinksInv, <1>15, LinksQuadro DEF TipoInv, MudarEstado, varsLink
<1>16. ASSUME Embalar, UNCHANGED varsLink
      PROVE  LinksInv'
  BY TipoInv, LinksInv, <1>16, LinksQuadro DEF TipoInv, Embalar, varsLink
<1>17. ASSUME NEW o \in {"pagamento", "total"}, reconcilePedidoEstado(o), UNCHANGED varsLink
      PROVE  LinksInv'
  BY TipoInv, LinksInv, <1>17, LinksQuadro DEF TipoInv, reconcilePedidoEstado, varsLink
<1>18. ASSUME NEW o \in {"pagamento", "total"}, PerderChamada(o), UNCHANGED varsLink
      PROVE  LinksInv'
  BY TipoInv, LinksInv, <1>18, LinksQuadro DEF TipoInv, PerderChamada, varsLink
<1>19. ASSUME NEW r \in Requisicoes, criarLinks(r)
      PROVE  LinksInv'
  <2>1. /\ criacoes[r].fase = "nada"
        /\ criacoes' = [criacoes EXCEPT ![r].fase = "postar", ![r].esperado = pedido.total]
        /\ UNCHANGED <<links, pagaveis, retirados>>
    BY <1>19 DEF criarLinks
  <2>2. /\ \A s \in Requisicoes \ {r} : criacoes'[s] = criacoes[s]
        /\ criacoes'[r].fase = "postar" /\ criacoes'[r].sobras = criacoes[r].sobras
        /\ criacoes'[r].criadas = criacoes[r].criadas
    BY TipoInv, <2>1 DEF TipoInv, TypeOK, Criacao
  <2>3. Guardados' = Guardados /\ \A l \in Links : Carrega(l, r)' <=> Carrega(l, r)
    BY <2>1 DEF Guardados, Carrega
  <2>4. CriacaoInv(r)'
    BY LinksInv, <2>1, <2>2, <2>3 DEF LinksInv, CriacaoInv
  <2>5. QED
    BY TipoInv, LinksInv, <2>1, <2>2, <2>4, CriacaoMove DEF TipoInv
<1>20. ASSUME NEW r \in Requisicoes, createPreference(r)
      PROVE  LinksInv'
  <2>1. PICK l \in Lote[r] \ criacoes[r].criadas :
          /\ pagaveis' = pagaveis \cup {<<r, l>>}
          /\ criacoes' = [criacoes EXCEPT ![r].criadas = @ \cup {l},
               ![r].fase = IF Lote[r] = criacoes[r].criadas \cup {l} THEN "persistir" ELSE @]
    BY <1>20 DEF createPreference
  <2>2. criacoes[r].fase = "postar" /\ UNCHANGED <<links, retirados>>
    BY <1>20 DEF createPreference, CriacaoSo
  <2>3. /\ \A s \in Requisicoes \ {r} : criacoes'[s] = criacoes[s]
        /\ criacoes'[r].sobras = criacoes[r].sobras
        /\ criacoes'[r].criadas = criacoes[r].criadas \cup {l}
        /\ criacoes'[r].fase = IF Lote[r] = criacoes[r].criadas \cup {l}
                                 THEN "persistir" ELSE "postar"
    BY TipoInv, <2>1, <2>2 DEF TipoInv, TypeOK, Criacao
  <2>4. Guardados' = Guardados /\ \A k \in Links : Carrega(k, r)' <=> Carrega(k, r)
    BY <2>2 DEF Guardados, Carrega
  <2>5. CriacaoInv(r)'
    <3>1. CriacaoInv(r)
      BY LinksInv DEF LinksInv
    <3>2. \A k \in criacoes'[r].criadas : <<r, k>> \in pagaveis' \cup retirados'
      BY <2>1, <2>2, <2>3, <3>1 DEF CriacaoInv
    <3>3. \A k \in Links : ~Carrega(k, r)'
      BY <2>2, <2>4, <3>1 DEF CriacaoInv
    <3>4. \A k \in Guardados' : links'[k].preferencia \notin criacoes'[r].sobras
      BY <2>2, <2>3, <2>4, <3>1 DEF CriacaoInv
    <3>5. /\ criacoes'[r].criadas \subseteq Lote[r]
          /\ criacoes'[r].sobras \subseteq {r} \X Lote[r]
      BY <2>3, <3>1 DEF CriacaoInv
    <3>6. /\ criacoes'[r].fase # "nada"
          /\ criacoes'[r].fase = "persistir" => criacoes'[r].criadas = Lote[r]
      BY <2>3
    <3>7. QED
      BY <3>2, <3>3, <3>4, <3>5, <3>6 DEF CriacaoInv
  <2>6. QED
    BY TipoInv, LinksInv, <2>1, <2>2, <2>3, <2>5, CriacaoMove DEF TipoInv
<1>21. ASSUME NEW r \in Requisicoes, createPreferenceFalha(r)
      PROVE  LinksInv'
  <2>1. /\ criacoes[r].fase = "postar" /\ Ir(r, "limpar", MinhasPreferencias(r))
        /\ UNCHANGED <<links, pagaveis, retirados>>
    BY <1>21 DEF createPreferenceFalha, CriacaoSo
  <2>2. QED
    BY TipoInv, LinksInv, <2>1, SobrasLivres, CriacaoLimpa DEF TipoInv
<1>22. ASSUME NEW r \in Requisicoes, persistirLinks(r)
      PROVE  LinksInv'
  <2>1. criacoes[r].fase = "persistir" /\ UNCHANGED <<pagaveis, retirados>>
    BY <1>22 DEF persistirLinks
  <2>2. CASE \E fase \in {"persistir", "reler", "feita"} : GravarLinks(r) /\ Ir(r, fase, {})
    BY TipoInv, LinksInv, <2>1, <2>2, GravarLinksInv DEF TipoInv
  <2>3. CASE /\ Ir(r, "limpar", preferenciasSemLink(r))
             /\ UNCHANGED links
    BY TipoInv, LinksInv, <2>1, <2>3, SobrasLivres, CriacaoLimpa DEF TipoInv
  <2>4. CASE /\ ~ Lote[r] \subseteq Guardados
             /\ Ir(r, "limpar", MinhasPreferencias(r))
             /\ UNCHANGED links
    BY TipoInv, LinksInv, <2>1, <2>4, SobrasLivres, CriacaoLimpa DEF TipoInv
  <2>5. CASE Ir(r, "reler", {}) /\ UNCHANGED links
    BY TipoInv, LinksInv, <2>1, <2>5, CriacaoLimpa DEF TipoInv
  <2>6. CASE Ir(r, "persistir", {}) /\ UNCHANGED links
    <3>1. /\ \A s \in Requisicoes \ {r} : criacoes'[s] = criacoes[s]
          /\ criacoes'[r].fase = "persistir" /\ criacoes'[r].sobras = {}
          /\ criacoes'[r].criadas = criacoes[r].criadas
      BY TipoInv, <2>6, IrEfeito DEF TipoInv
    <3>2. Guardados' = Guardados /\ \A l \in Links : Carrega(l, r)' <=> Carrega(l, r)
      BY <2>6 DEF Guardados, Carrega
    <3>3. CriacaoInv(r)'
      BY LinksInv, <2>1, <3>1, <3>2 DEF LinksInv, CriacaoInv
    <3>4. QED
      BY TipoInv, LinksInv, <2>1, <2>6, <3>1, <3>3, CriacaoMove DEF TipoInv
  <2>7. QED
    BY <1>22, <2>2, <2>3, <2>4, <2>5, <2>6 DEF persistirLinks
<1>23. ASSUME NEW r \in Requisicoes, lerLinksSolicitados(r)
      PROVE  LinksInv'
  <2>1. /\ Ir(r, "feita", {}) \/ Ir(r, "limpar", preferenciasSemLink(r))
        /\ UNCHANGED <<links, pagaveis, retirados>>
    BY <1>23 DEF lerLinksSolicitados, CriacaoSo
  <2>2. QED
    BY TipoInv, LinksInv, <2>1, SobrasLivres, CriacaoLimpa DEF TipoInv
<1>24. ASSUME NEW r \in Requisicoes, expirarPreferencias(r)
      PROVE  LinksInv'
  <2>1. PICK expiradas \in SUBSET criacoes[r].sobras : pagaveis' = pagaveis \ expiradas
    BY <1>24 DEF expirarPreferencias
  <2>2. /\ Ir(r, "feita", {}) /\ UNCHANGED <<links, retirados>>
    BY <1>24 DEF expirarPreferencias, CriacaoSo
  <2>3. expiradas \subseteq {r} \X Lote[r]
    BY LinksInv DEF LinksInv, CriacaoInv
  <2>4. /\ \A s \in Requisicoes \ {r} : criacoes'[s] = criacoes[s]
        /\ criacoes'[r].fase = "feita" /\ criacoes'[r].sobras = {}
        /\ criacoes'[r].criadas = criacoes[r].criadas
    BY TipoInv, <2>2, IrEfeito DEF TipoInv
  <2>5. Guardados' = Guardados /\ \A l \in Links : Carrega(l, r)' <=> Carrega(l, r)
    BY <2>2 DEF Guardados, Carrega
  <2>6. CriacaoInv(r)'
    BY LinksInv, <2>4, <2>5 DEF LinksInv, CriacaoInv
  <2>7. QED
    BY TipoInv, LinksInv, <2>1, <2>2, <2>3, <2>4, <2>6, CriacaoMove DEF TipoInv
<1>25. ASSUME NEW r \in Requisicoes, MorrerCriacao(r)
      PROVE  LinksInv'
  <2>1. Ir(r, "feita", {}) /\ UNCHANGED <<links, pagaveis, retirados>>
    BY <1>25 DEF MorrerCriacao, CriacaoSo
  <2>2. QED
    BY TipoInv, LinksInv, <2>1, CriacaoLimpa DEF TipoInv
<1>26. ASSUME NEW l \in Links, cancelarLink(l)
      PROVE  LinksInv'
  BY TipoInv, LinksInv, <1>26, LinksQuadro DEF TipoInv, cancelarLink
<1>27. ASSUME NEW l \in Links, ExpirarParaCancelar(l)
      PROVE  LinksInv'
  <2>1. /\ UNCHANGED criacoes
        /\ \A k \in Links : (links'[k] = Nenhum) <=> (links[k] = Nenhum)
        /\ \A k \in Guardados : links'[k].preferencia = links[k].preferencia
        /\ pagaveis \cup retirados \subseteq pagaveis' \cup retirados'
    BY TipoInv, <1>27 DEF ExpirarParaCancelar, Expirada, CancelamentoSo, TipoInv
  <2>2. QED
    BY TipoInv, LinksInv, <2>1, LinksMesmos DEF TipoInv
<1>28. ASSUME NEW l \in Links, MarcarCancelado(l)
      PROVE  LinksInv'
  <2>1. /\ UNCHANGED criacoes
        /\ \A k \in Links : (links'[k] = Nenhum) <=> (links[k] = Nenhum)
        /\ \A k \in Guardados : links'[k].preferencia = links[k].preferencia
        /\ pagaveis \cup retirados \subseteq pagaveis' \cup retirados'
    BY TipoInv, <1>28, MarcarEfeito DEF MarcarCancelado, CancelamentoSo, EmMaos,
       StatusLinkPagamento, TipoInv
  <2>2. QED
    BY TipoInv, LinksInv, <2>1, LinksMesmos DEF TipoInv
<1>29. ASSUME NEW l \in Links, Vencer(l)
      PROVE  LinksInv'
  BY TipoInv, LinksInv, <1>29, LinksQuadro DEF TipoInv, Vencer
<1>30. ASSUME UNCHANGED vars
      PROVE  LinksInv'
  BY TipoInv, LinksInv, <1>30, LinksQuadro DEF TipoInv, vars, varsLink, varsPagamento
<1>31. QED
  BY <1>1, <1>2, <1>3, <1>4, <1>5, <1>6, <1>7, <1>8, <1>9, <1>10, <1>11, <1>12, <1>13,
     <1>14, <1>15, <1>16, <1>17, <1>18, <1>19, <1>20, <1>21, <1>22, <1>23, <1>24, <1>25,
     <1>26, <1>27, <1>28, <1>29, <1>30 DEF Next, Notificacao, Operador, Criar

-----------------------------------------------------------------------------
(* The close.                                                              *)

(* Who is to mark a link closed without an error expired its preference.   *)
Fecho ==
  /\ LinkFechadoNaoCobra
  /\ LinkAbertoVivo
  /\ \A t \in Tarefas : tarefas[t].fase = "marcar" /\ ~tarefas[t].erro =>
       links[LinkDaTarefa(t)].preferencia \notin pagaveis
  /\ \A l \in Links : cancelamentos[l] = "marcar" => links[l].preferencia \notin pagaveis

(* No task is newly about to mark a link.                                  *)
SemMarcaNova ==
  \A t \in Tarefas : tarefas'[t].fase = "marcar" => tarefas'[t] = tarefas[t]

LEMMA MudaSemMarca ==
  ASSUME TypeOK, NEW t \in Tarefas, NEW x \in Tarefa, x.fase # "marcar",
         tarefas' = [tarefas EXCEPT ![t] = x]
  PROVE  SemMarcaNova
  BY DEF SemMarcaNova, TypeOK, TypeOKPagamento

LEMMA NotificarSemMarca ==
  ASSUME TypeOK, NEW p \in Pagamentos, Notificar(p)
  PROVE  SemMarcaNova
  BY MudaSemMarca DEF Notificar, NaFila, Tarefa

(* The links stand, and of what they carry only what a close or a          *)
(* cancellation expired stopped being payable.                             *)
LEMMA FechoMesmos ==
  ASSUME TipoInv, Fecho, UNCHANGED links,
         \A l \in Guardados : links[l].preferencia \in pagaveis' =>
                                links[l].preferencia \in pagaveis,
         \A l \in Guardados : links[l].preferencia \in pagaveis =>
                                links[l].preferencia \in pagaveis' \cup retirados',
         retirados \subseteq retirados',
         \A t \in Tarefas : tarefas'[t].fase = "marcar" /\ ~tarefas'[t].erro =>
            \/ tarefas'[t] = tarefas[t]
            \/ links[LinkDaTarefa(t)'].preferencia \notin pagaveis',
         \A l \in Links : cancelamentos'[l] = "marcar" =>
            cancelamentos[l] = "marcar" \/ links[l].preferencia \notin pagaveis'
  PROVE  Fecho'
<1>1. Guardados' = Guardados
  BY DEF Guardados
<1>2. LinkFechadoNaoCobra' /\ LinkAbertoVivo'
  BY <1>1 DEF Fecho, LinkFechadoNaoCobra, LinkAbertoVivo
<1>3. ASSUME NEW t \in Tarefas, tarefas'[t].fase = "marcar", ~tarefas'[t].erro
      PROVE  links[LinkDaTarefa(t)'].preferencia \notin pagaveis'
  <2>1. CASE tarefas'[t] = tarefas[t]
    <3>1. LinkDaTarefa(t)' = LinkDaTarefa(t) /\ LinkDaTarefa(t) \in Guardados
      BY <1>3, <2>1 DEF LinkDaTarefa, TipoInv, EmMaos
    <3>2. links[LinkDaTarefa(t)].preferencia \notin pagaveis
      BY <1>3, <2>1 DEF Fecho
    <3>3. QED
      BY <3>1, <3>2
  <2>2. QED
    BY <1>3, <2>1
<1>4. ASSUME NEW l \in Links, cancelamentos'[l] = "marcar"
      PROVE  links[l].preferencia \notin pagaveis'
  BY <1>4 DEF Fecho, TipoInv, EmMaos
<1>5. QED
  BY <1>2, <1>3, <1>4 DEF Fecho

LEMMA FechoQuadro ==
  ASSUME TipoInv, Fecho, SemMarcaNova, UNCHANGED <<links, pagaveis, retirados, cancelamentos>>
  PROVE  Fecho'
  BY FechoMesmos DEF SemMarcaNova

LEMMA FechoParado ==
  ASSUME TipoInv, Fecho, UNCHANGED <<tarefas, links, pagaveis, retirados, cancelamentos>>
  PROVE  Fecho'
  BY FechoMesmos

(* A close or a cancellation expires the preference of link l.             *)
LEMMA ExpiradaEfeito ==
  ASSUME TipoInv, NEW l \in Guardados, Expirada(l)
  PROVE  /\ links[l].preferencia \notin pagaveis' /\ retirados \subseteq retirados'
         /\ pagaveis' \subseteq pagaveis /\ pagaveis \subseteq pagaveis' \cup retirados'
  BY DEF Expirada

(* A link is marked, by who may mark it.                                   *)
LEMMA FechoMarca ==
  ASSUME TipoInv, Fecho, SemMarcaNova, NEW l \in Guardados, NEW erro \in BOOLEAN,
         NEW status \in {"concluido", "cancelado"}, marcarLinkTerminal(l, status, erro),
         ~erro => links[l].preferencia \notin pagaveis,
         \A k \in Links : cancelamentos'[k] = "marcar" => cancelamentos[k] = "marcar",
         UNCHANGED <<pagaveis, retirados>>
  PROVE  Fecho'
<1>1. /\ \A k \in Links : (links'[k] = Nenhum) <=> (links[k] = Nenhum)
      /\ \A k \in Guardados : links'[k].preferencia = links[k].preferencia
      /\ \A k \in Links : k # l => links'[k] = links[k]
      /\ IF links[l].status = "aberto"
           THEN links'[l].status = status /\ links'[l].erro = erro
           ELSE links'[l] = links[l]
  BY MarcarEfeito DEF TipoInv, StatusLinkPagamento
<1>2. Guardados' = Guardados /\ Guardados \subseteq Links
  BY <1>1 DEF Guardados
<1>3. LinkFechadoNaoCobra'
  <2> SUFFICES ASSUME NEW k \in Guardados, links'[k].status # "aberto", ~links'[k].erro
               PROVE  links'[k].preferencia \notin pagaveis
    BY <1>2 DEF LinkFechadoNaoCobra
  <2>1. CASE links'[k] = links[k]
    BY <2>1 DEF Fecho, LinkFechadoNaoCobra
  <2>2. CASE k = l /\ links[l].status = "aberto"
    BY <1>1, <2>2
  <2>3. QED
    BY <1>1, <1>2, <2>1, <2>2
<1>4. LinkAbertoVivo'
  <2> SUFFICES ASSUME NEW k \in Guardados, links'[k].status = "aberto",
                      links'[k].preferencia \notin retirados
               PROVE  links'[k].preferencia \in pagaveis
    BY <1>2 DEF LinkAbertoVivo
  <2>1. links'[k] = links[k]
    BY <1>1, <1>2
  <2>2. QED
    BY <2>1 DEF Fecho, LinkAbertoVivo
<1>5. \A t \in Tarefas : tarefas'[t].fase = "marcar" /\ ~tarefas'[t].erro =>
        links'[LinkDaTarefa(t)'].preferencia \notin pagaveis
  <2> SUFFICES ASSUME NEW t \in Tarefas, tarefas'[t].fase = "marcar", ~tarefas'[t].erro
               PROVE  links'[LinkDaTarefa(t)'].preferencia \notin pagaveis
    OBVIOUS
  <2>1. tarefas'[t] = tarefas[t]
    BY DEF SemMarcaNova
  <2>2. LinkDaTarefa(t)' = LinkDaTarefa(t) /\ LinkDaTarefa(t) \in Guardados
    BY <2>1 DEF LinkDaTarefa, TipoInv, EmMaos
  <2>3. QED
    BY <1>1, <2>1, <2>2 DEF Fecho
<1>6. \A k \in Links : cancelamentos'[k] = "marcar" => links'[k].preferencia \notin pagaveis
  BY <1>1 DEF Fecho, TipoInv, EmMaos
<1>7. QED
  BY <1>3, <1>4, <1>5, <1>6 DEF Fecho

(* A request stores its batch of live preferences.                         *)
LEMMA FechoGrava ==
  ASSUME TipoInv, LinksInv, Fecho, NEW r \in Requisicoes, criacoes[r].fase = "persistir",
         GravarLinks(r), UNCHANGED <<tarefas, pagaveis, retirados, cancelamentos>>
  PROVE  Fecho'
<1>1. /\ Lote[r] \subseteq Links /\ Lote[r] \cap Guardados = {}
      /\ \A l \in Lote[r] : /\ links'[l] # Nenhum /\ links'[l].status = "aberto"
                            /\ links'[l].preferencia = <<r, l>>
      /\ \A l \in Links \ Lote[r] : links'[l] = links[l]
  BY GravarEfeito DEF TipoInv
<1>2. Guardados' = Guardados \cup Lote[r] /\ \A l \in Guardados : links'[l] = links[l]
  BY <1>1 DEF Guardados
<1>3. \A l \in Lote[r] : <<r, l>> \in pagaveis \cup retirados
  BY DEF LinksInv, CriacaoInv
<1>4. LinkFechadoNaoCobra' /\ LinkAbertoVivo'
  BY <1>1, <1>2, <1>3 DEF Fecho, LinkFechadoNaoCobra, LinkAbertoVivo
<1>5. \A t \in Tarefas : tarefas[t].fase = "marcar" /\ ~tarefas[t].erro =>
        links'[LinkDaTarefa(t)].preferencia \notin pagaveis
  BY <1>2 DEF Fecho, TipoInv, EmMaos
<1>6. \A l \in Links : cancelamentos[l] = "marcar" => links'[l].preferencia \notin pagaveis
  BY <1>2 DEF Fecho, TipoInv, EmMaos
<1>7. QED
  BY <1>4, <1>5, <1>6 DEF Fecho, LinkDaTarefa

(* Every step keeps closed links unpayable and open links payable.         *)
LEMMA FechoPasso ==
  ASSUME TipoInv, LinksInv, Fecho, [Next]_vars
  PROVE  Fecho'
<1>1. ASSUME NEW p \in Pagamentos, PagarLink(p)
      PROVE  Fecho'
  <2>1. SemMarcaNova
    BY TipoInv, <1>1, PagarEfeito, NotificarSemMarca DEF TipoInv
  <2>2. UNCHANGED <<links, pagaveis, retirados, cancelamentos>>
    BY TipoInv, <1>1, PagarEfeito DEF TipoInv, varsLink
  <2>3. QED
    BY TipoInv, Fecho, <2>1, <2>2, FechoQuadro
<1>2. ASSUME NEW p \in Pagamentos, ProvedorMuda(p), UNCHANGED varsLink
      PROVE  Fecho'
  <2>1. SemMarcaNova
    BY TipoInv, <1>2, ProvedorEfeito, NotificarSemMarca DEF TipoInv
  <2>2. UNCHANGED <<links, pagaveis, retirados, cancelamentos>>
    BY TipoInv, <1>2 DEF TipoInv, varsLink
  <2>3. QED
    BY TipoInv, Fecho, <2>1, <2>2, FechoQuadro
<1>3. ASSUME NEW p \in Pagamentos, Reentregar(p), UNCHANGED varsLink
      PROVE  Fecho'
  <2>1. SemMarcaNova
    BY TipoInv, <1>3, NotificarSemMarca DEF TipoInv, Reentregar
  <2>2. UNCHANGED <<links, pagaveis, retirados, cancelamentos>>
    BY TipoInv, <1>3 DEF TipoInv, varsLink
  <2>3. QED
    BY TipoInv, Fecho, <2>1, <2>2, FechoQuadro
<1>4. ASSUME NEW t \in Tarefas, fetchPayment(t), UNCHANGED varsLink
      PROVE  Fecho'
  <2>1. SemMarcaNova
    BY TipoInv, <1>4, TarefaEfeito, MudaSemMarca DEF TipoInv
  <2>2. UNCHANGED <<links, pagaveis, retirados, cancelamentos>>
    BY TipoInv, <1>4 DEF TipoInv, varsLink
  <2>3. QED
    BY TipoInv, Fecho, <2>1, <2>2, FechoQuadro
<1>5. ASSUME NEW t \in Tarefas, reconcilePedidoFromPagamento(t, links, vencidos), UNCHANGED varsLink
      PROVE  Fecho'
  <2> DEFINE p == tarefas[t].pagamento
             copia == tarefas[t].copia
  <2>1. p \in Pagamentos /\ (reconcileObsoleta(t, p, copia) \/ reconcileGrava(t, p, copia))
    BY <1>5, TipoInv, ReconcileEfeito
  <2>2. PICK docs : Encaminhar(t, p, docs)
    BY <2>1 DEF reconcileObsoleta, reconcileGrava
  <2>3. SemMarcaNova
    BY TipoInv, <2>1, <2>2, EncaminharEfeito, MudaSemMarca DEF TipoInv, Livre
  <2>4. QED
    BY TipoInv, Fecho, <1>5, <2>3, FechoQuadro DEF varsLink
<1>6. ASSUME NEW t \in Tarefas, encerrarLinkSeCompleto(t)
      PROVE  Fecho'
  <2>1. SemMarcaNova
    BY TipoInv, <1>6, TarefaEfeito, MudaSemMarca DEF TipoInv, Livre
  <2>2. UNCHANGED <<links, pagaveis, retirados, cancelamentos>>
    BY TipoInv, <1>6 DEF TipoInv, encerrarLinkSeCompleto, DemaisLinks
  <2>3. QED
    BY TipoInv, Fecho, <2>1, <2>2, FechoQuadro
<1>7. ASSUME NEW t \in Tarefas, ExpirarParaFechar(t)
      PROVE  Fecho'
  <2>1. PICK x \in Tarefa :
          /\ tarefas' = [tarefas EXCEPT ![t] = x] /\ tarefas[t].fase = "expirar"
          /\ x.pagamento = tarefas[t].pagamento
          /\ ~x.erro => Expirada(LinkDaTarefa(t))
          /\ x.erro => UNCHANGED <<pagaveis, retirados>>
    BY TipoInv, <1>7, TarefaEfeito
  <2>2. UNCHANGED <<links, cancelamentos>>
    BY <1>7 DEF ExpirarParaFechar, DemaisLinks
  <2>3. LinkDaTarefa(t) \in Guardados
    BY TipoInv, <2>1 DEF TipoInv, EmMaos
  <2>4. /\ tarefas'[t] = x /\ \A u \in Tarefas : u # t => tarefas'[u] = tarefas[u]
        /\ LinkDaTarefa(t)' = LinkDaTarefa(t)
    BY TipoInv, <2>1 DEF TipoInv, TypeOK, TypeOKPagamento, LinkDaTarefa
  <2>5. CASE ~x.erro
    <3>1. /\ links[LinkDaTarefa(t)].preferencia \notin pagaveis' /\ retirados \subseteq retirados'
          /\ pagaveis' \subseteq pagaveis /\ pagaveis \subseteq pagaveis' \cup retirados'
      BY TipoInv, <2>1, <2>3, <2>5, ExpiradaEfeito
    <3>2. QED
      BY TipoInv, Fecho, <2>2, <2>4, <3>1, FechoMesmos
  <2>6. CASE x.erro
    BY TipoInv, Fecho, <2>1, <2>2, <2>4, <2>6, FechoMesmos
  <2>7. QED
    BY <2>5, <2>6
<1>8. ASSUME NEW t \in Tarefas, MarcarConcluido(t)
      PROVE  Fecho'
  <2>1. /\ tarefas' = [tarefas EXCEPT ![t] = Livre] /\ tarefas[t].fase = "marcar"
        /\ tarefas[t].erro \in BOOLEAN /\ LinkDaTarefa(t) \in Guardados
        /\ marcarLinkTerminal(LinkDaTarefa(t), "concluido", tarefas[t].erro)
    BY TipoInv, <1>8, TarefaEfeito
  <2>2. UNCHANGED <<cancelamentos, pagaveis, retirados>>
    BY <1>8 DEF MarcarConcluido, DemaisLinks
  <2>3. SemMarcaNova
    BY TipoInv, <2>1, MudaSemMarca DEF TipoInv, Livre, Tarefa
  <2>4. ~tarefas[t].erro => links[LinkDaTarefa(t)].preferencia \notin pagaveis
    BY Fecho, <2>1 DEF Fecho
  <2>5. QED
    BY TipoInv, Fecho, <2>1, <2>2, <2>3, <2>4, FechoMarca
<1>9. ASSUME NEW t \in Tarefas, Falhar(t)
      PROVE  Fecho'
  <2>1. SemMarcaNova
    BY TipoInv, <1>9, TarefaEfeito, MudaSemMarca DEF TipoInv, Livre
  <2>2. /\ UNCHANGED <<links, cancelamentos>>
        /\ \/ UNCHANGED <<pagaveis, retirados>>
           \/ tarefas[t].fase = "expirar" /\ Expirada(LinkDaTarefa(t))
    BY <1>9 DEF Falhar
  <2>3. /\ retirados \subseteq retirados' /\ pagaveis' \subseteq pagaveis
        /\ pagaveis \subseteq pagaveis' \cup retirados'
    BY TipoInv, <2>2, ExpiradaEfeito DEF TipoInv, EmMaos
  <2>4. QED
    BY TipoInv, Fecho, <2>1, <2>2, <2>3, FechoMesmos DEF SemMarcaNova
<1>10. ASSUME CriarPagamentos, UNCHANGED varsLink
      PROVE  Fecho'
  BY TipoInv, Fecho, <1>10, FechoParado DEF CriarPagamentos, Registrar, varsLink
<1>11. ASSUME NEW d \in Docs, savePagamento(d), UNCHANGED varsLink
      PROVE  Fecho'
  BY TipoInv, Fecho, <1>11, FechoParado DEF savePagamento, Registrar, varsLink
<1>12. ASSUME NEW d \in Docs, deletePagamento(d), UNCHANGED varsLink
      PROVE  Fecho'
  BY TipoInv, Fecho, <1>12, FechoParado DEF deletePagamento, Registrar, varsLink
<1>13. ASSUME AbrirEditor, UNCHANGED varsLink
      PROVE  Fecho'
  BY TipoInv, Fecho, <1>13, FechoParado DEF AbrirEditor, varsLink
<1>14. ASSUME savePedido, UNCHANGED varsLink
      PROVE  Fecho'
  BY TipoInv, Fecho, <1>14, FechoParado DEF savePedido, varsLink
<1>15. ASSUME MudarEstado, UNCHANGED varsLink
      PROVE  Fecho'
  BY TipoInv, Fecho, <1>15, FechoParado DEF MudarEstado, varsLink
<1>16. ASSUME Embalar, UNCHANGED varsLink
      PROVE  Fecho'
  BY TipoInv, Fecho, <1>16, FechoParado DEF Embalar, varsLink
<1>17. ASSUME NEW o \in {"pagamento", "total"}, reconcilePedidoEstado(o), UNCHANGED varsLink
      PROVE  Fecho'
  BY TipoInv, Fecho, <1>17, FechoParado DEF reconcilePedidoEstado, varsLink
<1>18. ASSUME NEW o \in {"pagamento", "total"}, PerderChamada(o), UNCHANGED varsLink
      PROVE  Fecho'
  BY TipoInv, Fecho, <1>18, FechoParado DEF PerderChamada, varsLink
<1>19. ASSUME NEW r \in Requisicoes, criarLinks(r)
      PROVE  Fecho'
  BY TipoInv, Fecho, <1>19, FechoParado DEF criarLinks
<1>20. ASSUME NEW r \in Requisicoes, createPreference(r)
      PROVE  Fecho'
  <2>1. PICK l \in Lote[r] : pagaveis' = pagaveis \cup {<<r, l>>}
    BY <1>20 DEF createPreference
  <2>2. /\ criacoes[r].fase = "postar"
        /\ UNCHANGED <<tarefas, links, retirados, cancelamentos>>
    BY <1>20 DEF createPreference, CriacaoSo
  <2>3. \A k \in Guardados : links[k].preferencia # <<r, l>>
    <3> SUFFICES ASSUME NEW k \in Guardados, links[k].preferencia = <<r, l>> PROVE FALSE
      OBVIOUS
    <3>1. k \in Links /\ Carrega(k, r)
      BY LinksInv DEF LinksInv, PreferenciaPropria, Carrega, Guardados
    <3>2. QED
      BY LinksInv, <2>2, <3>1 DEF LinksInv, CriacaoInv
  <2>4. QED
    BY TipoInv, Fecho, <2>1, <2>2, <2>3, FechoMesmos
<1>21. ASSUME NEW r \in Requisicoes, createPreferenceFalha(r)
      PROVE  Fecho'
  BY TipoInv, Fecho, <1>21, FechoParado DEF createPreferenceFalha, Ir, PagamentoParado,
     CriacaoSo
<1>22. ASSUME NEW r \in Requisicoes, persistirLinks(r)
      PROVE  Fecho'
  <2>1. /\ (criacoes[r].fase = "persistir" /\ GravarLinks(r)) \/ UNCHANGED links
        /\ UNCHANGED <<tarefas, pagaveis, retirados, cancelamentos>>
    BY <1>22 DEF persistirLinks
  <2>2. QED
    BY TipoInv, LinksInv, Fecho, <2>1, FechoGrava, FechoParado
<1>23. ASSUME NEW r \in Requisicoes, lerLinksSolicitados(r)
      PROVE  Fecho'
  BY TipoInv, Fecho, <1>23, FechoParado DEF lerLinksSolicitados, Ir, PagamentoParado,
     CriacaoSo
<1>24. ASSUME NEW r \in Requisicoes, expirarPreferencias(r)
      PROVE  Fecho'
  <2>1. PICK expiradas \in SUBSET criacoes[r].sobras : pagaveis' = pagaveis \ expiradas
    BY <1>24 DEF expirarPreferencias
  <2>2. UNCHANGED <<tarefas, links, retirados, cancelamentos>>
    BY <1>24 DEF expirarPreferencias, CriacaoSo
  <2>3. \A l \in Guardados : links[l].preferencia \notin expiradas
    BY LinksInv DEF LinksInv, CriacaoInv
  <2>4. QED
    BY TipoInv, Fecho, <2>1, <2>2, <2>3, FechoMesmos
<1>25. ASSUME NEW r \in Requisicoes, MorrerCriacao(r)
      PROVE  Fecho'
  BY TipoInv, Fecho, <1>25, FechoParado DEF MorrerCriacao, Ir, PagamentoParado, CriacaoSo
<1>26. ASSUME NEW l \in Links, cancelarLink(l)
      PROVE  Fecho'
  <2>1. /\ cancelamentos' = [cancelamentos EXCEPT ![l] = "expirar"]
        /\ UNCHANGED <<tarefas, links, pagaveis, retirados>>
    BY <1>26 DEF cancelarLink
  <2>2. \A k \in Links : cancelamentos'[k] = "marcar" => cancelamentos[k] = "marcar"
    BY TipoInv, <2>1 DEF TipoInv, TypeOK
  <2>3. QED
    BY TipoInv, Fecho, <2>1, <2>2, FechoMesmos
<1>27. ASSUME NEW l \in Links, ExpirarParaCancelar(l)
      PROVE  Fecho'
  <2>1. /\ l \in Guardados /\ UNCHANGED <<tarefas, links>>
        /\ \/ Expirada(l) /\ cancelamentos' = [cancelamentos EXCEPT ![l] = "marcar"]
           \/ /\ Expirada(l) \/ UNCHANGED <<pagaveis, retirados>>
              /\ cancelamentos' = [cancelamentos EXCEPT ![l] = "nada"]
    BY TipoInv, <1>27 DEF ExpirarParaCancelar, CancelamentoSo, TipoInv, EmMaos
  <2>2. /\ retirados \subseteq retirados' /\ pagaveis' \subseteq pagaveis
        /\ pagaveis \subseteq pagaveis' \cup retirados'
        /\ Expirada(l) => links[l].preferencia \notin pagaveis'
    BY TipoInv, <2>1, ExpiradaEfeito
  <2>3. \A k \in Links : cancelamentos'[k] = "marcar" =>
          cancelamentos[k] = "marcar" \/ links[k].preferencia \notin pagaveis'
    BY TipoInv, <2>1, <2>2 DEF TipoInv, TypeOK
  <2>4. QED
    BY TipoInv, Fecho, <2>1, <2>2, <2>3, FechoMesmos
<1>28. ASSUME NEW l \in Links, MarcarCancelado(l)
      PROVE  Fecho'
  <2>1. /\ cancelamentos[l] = "marcar"
        /\ cancelamentos' = [cancelamentos EXCEPT ![l] = "nada"]
        /\ marcarLinkTerminal(l, "cancelado", FALSE) \/ UNCHANGED links
        /\ UNCHANGED <<tarefas, pagaveis, retirados>>
    BY <1>28 DEF MarcarCancelado, CancelamentoSo
  <2>2. l \in Guardados /\ links[l].preferencia \notin pagaveis
    BY TipoInv, Fecho, <2>1 DEF TipoInv, EmMaos, Fecho
  <2>3. /\ \A k \in Links : cancelamentos'[k] = "marcar" => cancelamentos[k] = "marcar"
        /\ SemMarcaNova
    BY TipoInv, <2>1 DEF TipoInv, TypeOK, SemMarcaNova
  <2>4. CASE marcarLinkTerminal(l, "cancelado", FALSE)
    BY TipoInv, Fecho, <2>1, <2>2, <2>3, <2>4, FechoMarca
  <2>5. CASE UNCHANGED links
    BY TipoInv, Fecho, <2>1, <2>3, <2>5, FechoMesmos
  <2>6. QED
    BY <2>1, <2>4, <2>5
<1>29. ASSUME NEW l \in Links, Vencer(l)
      PROVE  Fecho'
  BY TipoInv, Fecho, <1>29, FechoParado DEF Vencer
<1>30. ASSUME UNCHANGED vars
      PROVE  Fecho'
  BY TipoInv, Fecho, <1>30, FechoParado DEF vars, varsLink, varsPagamento
<1>31. QED
  BY <1>1, <1>2, <1>3, <1>4, <1>5, <1>6, <1>7, <1>8, <1>9, <1>10, <1>11, <1>12, <1>13,
     <1>14, <1>15, <1>16, <1>17, <1>18, <1>19, <1>20, <1>21, <1>22, <1>23, <1>24, <1>25,
     <1>26, <1>27, <1>28, <1>29, <1>30 DEF Next, Notificacao, Operador, Criar

-----------------------------------------------------------------------------
(* The estado.                                                             *)

LEMMA DivergeDepois ==
  ASSUME NEW p, NEW docs, pedido' = p, pagamentos' = docs
  PROVE  Diverge' <=> DivergeCom(p, docs)
  BY DEF Diverge, DivergeCom

LEMMA SomaQuadro ==
  ASSUME EstadoSegueSoma, UNCHANGED <<pagamentos, pedido, chamadas, pendente>>
  PROVE  EstadoSegueSoma'
  BY DivergeDepois DEF EstadoSegueSoma, Diverge

(* A reconciliation leaves nothing to follow.                              *)
LEMMA SomaReconcilia ==
  ASSUME TypeOK, NEW docs, pedido' = applyEstadoTransition(pedido, docs), pagamentos' = docs
  PROVE  EstadoSegueSoma'
<1>1. pedido \in Pedido
  BY DEF TypeOK, TypeOKPagamento
<1>2. ~Diverge'
  BY <1>1, ReconciliacaoIdempotente, DivergeDepois
<1>3. QED
  BY <1>2 DEF EstadoSegueSoma

(* Every step keeps the estado in step, or says who will put it there.     *)
LEMMA SomaPasso ==
  ASSUME TipoInv, EstadoSegueSoma, [Next]_vars
  PROVE  EstadoSegueSoma'
<1>1. ASSUME NEW p \in Pagamentos, PagarLink(p)
      PROVE  EstadoSegueSoma'
  BY EstadoSegueSoma, <1>1, SomaQuadro DEF PagarLink, Pagar, varsLink
<1>2. ASSUME NEW p \in Pagamentos, ProvedorMuda(p), UNCHANGED varsLink
      PROVE  EstadoSegueSoma'
  BY EstadoSegueSoma, <1>2, SomaQuadro DEF ProvedorMuda, varsLink
<1>3. ASSUME NEW p \in Pagamentos, Reentregar(p), UNCHANGED varsLink
      PROVE  EstadoSegueSoma'
  BY EstadoSegueSoma, <1>3, SomaQuadro DEF Reentregar, varsLink
<1>4. ASSUME NEW t \in Tarefas, fetchPayment(t), UNCHANGED varsLink
      PROVE  EstadoSegueSoma'
  BY EstadoSegueSoma, <1>4, SomaQuadro DEF fetchPayment, varsLink
<1>5. ASSUME NEW t \in Tarefas, reconcilePedidoFromPagamento(t, links, vencidos), UNCHANGED varsLink
      PROVE  EstadoSegueSoma'
  <2> DEFINE p == tarefas[t].pagamento
             copia == tarefas[t].copia
  <2>1. /\ reconcileObsoleta(t, p, copia) \/ reconcileGrava(t, p, copia)
        /\ UNCHANGED chamadas
    BY TipoInv, <1>5, ReconcileEfeito
  <2>2. CASE reconcileObsoleta(t, p, copia)
    BY EstadoSegueSoma, <2>1, <2>2, SomaQuadro DEF reconcileObsoleta
  <2>3. CASE reconcileGrava(t, p, copia)
    BY TipoInv, <2>3, SomaReconcilia DEF reconcileGrava, SomaDe, TipoInv
  <2>4. QED
    BY <2>1, <2>2, <2>3
<1>6. ASSUME NEW t \in Tarefas, encerrarLinkSeCompleto(t)
      PROVE  EstadoSegueSoma'
  BY EstadoSegueSoma, <1>6, SomaQuadro DEF encerrarLinkSeCompleto, PagamentoParado,
     DemaisLinks
<1>7. ASSUME NEW t \in Tarefas, ExpirarParaFechar(t)
      PROVE  EstadoSegueSoma'
  BY EstadoSegueSoma, <1>7, SomaQuadro DEF ExpirarParaFechar, Expirada, PagamentoParado,
     DemaisLinks
<1>8. ASSUME NEW t \in Tarefas, MarcarConcluido(t)
      PROVE  EstadoSegueSoma'
  BY EstadoSegueSoma, <1>8, SomaQuadro DEF MarcarConcluido, marcarLinkTerminal,
     PagamentoParado, DemaisLinks
<1>9. ASSUME NEW t \in Tarefas, Falhar(t)
      PROVE  EstadoSegueSoma'
  BY EstadoSegueSoma, <1>9, SomaQuadro DEF Falhar, Expirada
<1>10. ASSUME CriarPagamentos, UNCHANGED varsLink
      PROVE  EstadoSegueSoma'
  <2>1. "pagamento" \in chamadas'
    BY <1>10 DEF CriarPagamentos, Registrar
  <2>2. QED
    BY <2>1 DEF EstadoSegueSoma
<1>11. ASSUME NEW d \in Docs, savePagamento(d), UNCHANGED varsLink
      PROVE  EstadoSegueSoma'
  <2>1. "pagamento" \in chamadas'
    BY <1>11 DEF savePagamento, Registrar
  <2>2. QED
    BY <2>1 DEF EstadoSegueSoma
<1>12. ASSUME NEW d \in Docs, deletePagamento(d), UNCHANGED varsLink
      PROVE  EstadoSegueSoma'
  <2>1. "pagamento" \in chamadas'
    BY <1>12 DEF deletePagamento, Registrar
  <2>2. QED
    BY <2>1 DEF EstadoSegueSoma
<1>13. ASSUME AbrirEditor, UNCHANGED varsLink
      PROVE  EstadoSegueSoma'
  BY EstadoSegueSoma, <1>13, SomaQuadro DEF AbrirEditor, varsLink
<1>14. ASSUME savePedido, UNCHANGED varsLink
      PROVE  EstadoSegueSoma'
  <2>1. \/ "total" \in chamadas'
        \/ pendente' = (pendente \/ DivergeCom(pedido', pagamentos)) /\ UNCHANGED pagamentos
    BY <1>14 DEF savePedido
  <2>2. QED
    BY <2>1, DivergeDepois DEF EstadoSegueSoma
<1>15. ASSUME MudarEstado, UNCHANGED varsLink
      PROVE  EstadoSegueSoma'
  <2>1. pendente' = (pendente \/ DivergeCom(pedido', pagamentos)) /\ UNCHANGED pagamentos
    BY <1>15 DEF MudarEstado
  <2>2. QED
    BY <2>1, DivergeDepois DEF EstadoSegueSoma
<1>16. ASSUME Embalar, UNCHANGED varsLink
      PROVE  EstadoSegueSoma'
  <2>1. /\ pedido' = [pedido EXCEPT !.frete = "empacotado"]
        /\ UNCHANGED <<pagamentos, chamadas, pendente>>
    BY <1>16 DEF Embalar
  <2>2. pedido \in Pedido
    BY TipoInv DEF TipoInv, TypeOK, TypeOKPagamento
  <2>3. /\ pedido' \in Pedido /\ pedido'.total = pedido.total
        /\ pedido'.devolvido = pedido.devolvido /\ pedido'.estado = pedido.estado
    BY <2>1, <2>2 DEF Pedido, EstadoFrete
  <2>4. Diverge' => Diverge
    BY <2>1, <2>2, <2>3, DivergeNaoNasce, DivergeDepois DEF Diverge
  <2>5. QED
    BY EstadoSegueSoma, <2>1, <2>4 DEF EstadoSegueSoma
<1>17. ASSUME NEW o \in {"pagamento", "total"}, reconcilePedidoEstado(o), UNCHANGED varsLink
      PROVE  EstadoSegueSoma'
  <2>1. CASE pedido' = applyEstadoTransition(pedido, pagamentos)
    BY TipoInv, <1>17, <2>1, SomaReconcilia DEF reconcilePedidoEstado, TipoInv
  <2>2. CASE pendente' = (pendente \/ Diverge) /\ UNCHANGED <<pedido, pagamentos>>
    BY <2>2, DivergeDepois DEF EstadoSegueSoma, Diverge
  <2>3. QED
    BY <1>17, <2>1, <2>2 DEF reconcilePedidoEstado
<1>18. ASSUME NEW o \in {"pagamento", "total"}, PerderChamada(o), UNCHANGED varsLink
      PROVE  EstadoSegueSoma'
  <2>1. pendente' = (pendente \/ Diverge) /\ UNCHANGED <<pedido, pagamentos>>
    BY <1>18 DEF PerderChamada
  <2>2. QED
    BY <2>1, DivergeDepois DEF EstadoSegueSoma, Diverge
<1>19. ASSUME NEW r \in Requisicoes, criarLinks(r)
      PROVE  EstadoSegueSoma'
  BY EstadoSegueSoma, <1>19, SomaQuadro DEF criarLinks
<1>20. ASSUME NEW r \in Requisicoes, createPreference(r)
      PROVE  EstadoSegueSoma'
  BY EstadoSegueSoma, <1>20, SomaQuadro DEF createPreference, PagamentoParado, CriacaoSo
<1>21. ASSUME NEW r \in Requisicoes, createPreferenceFalha(r)
      PROVE  EstadoSegueSoma'
  BY EstadoSegueSoma, <1>21, SomaQuadro DEF createPreferenceFalha, Ir, PagamentoParado,
     CriacaoSo
<1>22. ASSUME NEW r \in Requisicoes, persistirLinks(r)
      PROVE  EstadoSegueSoma'
  <2>1. /\ GravarLinks(r) \/ UNCHANGED pedido
        /\ UNCHANGED <<pagamentos, chamadas, pendente>>
    BY <1>22 DEF persistirLinks
  <2>2. CASE UNCHANGED pedido
    BY EstadoSegueSoma, <2>1, <2>2, SomaQuadro
  <2>3. CASE GravarLinks(r)
    <3>1. pedido \in Pedido
      BY TipoInv DEF TipoInv, TypeOK, TypeOKPagamento
    <3>2. /\ pedido' \in Pedido /\ pedido'.total = pedido.total
          /\ pedido'.devolvido = pedido.devolvido
          /\ pedido'.estado = estadoAoGerarLinkPagamento(pedido)
      BY TipoInv, <2>3, GravarEfeito DEF TipoInv
    <3>3. Diverge' => Diverge
      BY <2>1, <3>1, <3>2, DivergeNaoNasce, DivergeDepois DEF Diverge
    <3>4. QED
      BY EstadoSegueSoma, <2>1, <3>3 DEF EstadoSegueSoma
  <2>4. QED
    BY <2>1, <2>2, <2>3
<1>23. ASSUME NEW r \in Requisicoes, lerLinksSolicitados(r)
      PROVE  EstadoSegueSoma'
  BY EstadoSegueSoma, <1>23, SomaQuadro DEF lerLinksSolicitados, Ir, PagamentoParado,
     CriacaoSo
<1>24. ASSUME NEW r \in Requisicoes, expirarPreferencias(r)
      PROVE  EstadoSegueSoma'
  BY EstadoSegueSoma, <1>24, SomaQuadro DEF expirarPreferencias, Ir, PagamentoParado,
     CriacaoSo
<1>25. ASSUME NEW r \in Requisicoes, MorrerCriacao(r)
      PROVE  EstadoSegueSoma'
  BY EstadoSegueSoma, <1>25, SomaQuadro DEF MorrerCriacao, Ir, PagamentoParado, CriacaoSo
<1>26. ASSUME NEW l \in Links, cancelarLink(l)
      PROVE  EstadoSegueSoma'
  BY EstadoSegueSoma, <1>26, SomaQuadro DEF cancelarLink
<1>27. ASSUME NEW l \in Links, ExpirarParaCancelar(l)
      PROVE  EstadoSegueSoma'
  BY EstadoSegueSoma, <1>27, SomaQuadro DEF ExpirarParaCancelar, Expirada, PagamentoParado,
     CancelamentoSo
<1>28. ASSUME NEW l \in Links, MarcarCancelado(l)
      PROVE  EstadoSegueSoma'
  BY EstadoSegueSoma, <1>28, SomaQuadro DEF MarcarCancelado, marcarLinkTerminal,
     PagamentoParado, CancelamentoSo
<1>29. ASSUME NEW l \in Links, Vencer(l)
      PROVE  EstadoSegueSoma'
  BY EstadoSegueSoma, <1>29, SomaQuadro DEF Vencer
<1>30. ASSUME UNCHANGED vars
      PROVE  EstadoSegueSoma'
  BY EstadoSegueSoma, <1>30, SomaQuadro DEF vars, varsLink, varsPagamento
<1>31. QED
  BY <1>1, <1>2, <1>3, <1>4, <1>5, <1>6, <1>7, <1>8, <1>9, <1>10, <1>11, <1>12, <1>13,
     <1>14, <1>15, <1>16, <1>17, <1>18, <1>19, <1>20, <1>21, <1>22, <1>23, <1>24, <1>25,
     <1>26, <1>27, <1>28, <1>29, <1>30 DEF Next, Notificacao, Operador, Criar

-----------------------------------------------------------------------------
(* The mirror of the provider.                                             *)

(* The documents a payment may have: no two payments share one.            *)
DocumentosDe(p) == {p, LegadoDe[p]} \ {Nenhum}

(* No document belongs to two payments.                                    *)
LEMMA DocumentosTipo ==
  ASSUME NEW p \in Pagamentos, NEW q \in Pagamentos, p # q
  PROVE  /\ DocumentosDe(p) \subseteq Pagamentos \cup Legados
         /\ DocumentosDe(p) \subseteq Docs
         /\ DocumentosDe(p) \cap DocumentosDe(q) = {}
  BY PagamentoAssumption DEF DocumentosDe

UmDocumento(p) ==
  LegadoDe[p] # Nenhum => pagamentos[p] = Nenhum \/ pagamentos[LegadoDe[p]] = Nenhum

(* A document says what the provider says of the same clock.               *)
DocumentoSegue(p, d) ==
  pagamentos[d] # Nenhum /\ pagamentos[d].relogio # Nenhum =>
    /\ provedor[p] # Nenhum /\ pagamentos[d].relogio <= provedor[p].relogio
    /\ p \notin mexidos \cup empatados /\ pagamentos[d].relogio = provedor[p].relogio =>
         /\ pagamentos[d].status = provedor[p].status
         /\ pagamentos[d].valor = ValorRetido(p, provedor[p].status)

EspelhoDe(p) ==
  /\ UmDocumento(p)
  /\ \A d \in DocumentosDe(p) : DocumentoSegue(p, d)
  /\ p \in entregues => provedor[p] # Nenhum
  /\ p \in entregues \ (mexidos \cup empatados) =>
       \E d \in DocumentosDe(p) : /\ pagamentos[d] # Nenhum
                                  /\ pagamentos[d].relogio = provedor[p].relogio

(* What a task fetched is no newer than the provider, and older when the   *)
(* payment changed since.                                                  *)
CopiaFresca(t) ==
  LET p == tarefas[t].pagamento
  IN tarefas[t].fase = "buscou" =>
       /\ tarefas[t].copia.relogio <= provedor[p].relogio
       /\ tarefas[t].copia # provedor[p] /\ p \notin empatados =>
            tarefas[t].copia.relogio < provedor[p].relogio

Espelho ==
  /\ \A p \in Pagamentos : EspelhoDe(p)
  /\ \A t \in Tarefas : CopiaFresca(t)

LEMMA AlvoUnico ==
  ASSUME NEW p \in Pagamentos, UmDocumento(p), NEW d \in DocumentosDe(p), pagamentos[d] # Nenhum
  PROVE  alvo(p) = d
  BY DEF UmDocumento, DocumentosDe, alvo

LEMMA AlvoDocumento ==
  ASSUME TypeOK, NEW p \in Pagamentos
  PROVE  alvo(p) \in DocumentosDe(p)
  BY AlvoTipo, PagamentoAssumption DEF DocumentosDe

(* The property, of one payment.                                           *)
LEMMA EspelhoMostra ==
  ASSUME TypeOK, Espelho
  PROVE  PagamentoSegueProvedor
<1> SUFFICES ASSUME NEW p \in entregues \ (mexidos \cup empatados)
             PROVE  /\ pagamentos[alvo(p)] # Nenhum
                    /\ pagamentos[alvo(p)].status = provedor[p].status
                    /\ pagamentos[alvo(p)].valor = ValorRetido(p, provedor[p].status)
                    /\ UmDocumento(p)
  BY DEF PagamentoSegueProvedor, UmDocumento
<1>1. p \in Pagamentos /\ EspelhoDe(p)
  BY DEF TypeOK, TypeOKPagamento, Espelho
<1>2. PICK d \in DocumentosDe(p) : /\ provedor[p] # Nenhum /\ pagamentos[d] # Nenhum
                                   /\ pagamentos[d].relogio = provedor[p].relogio
  BY <1>1 DEF EspelhoDe
<1>3. provedor[p].relogio # Nenhum
  BY <1>1, <1>2, CoberturaAssumption DEF TypeOK, TypeOKPagamento, CopiaDoProvedor
<1>4. alvo(p) = d
  BY <1>1, <1>2, AlvoUnico DEF EspelhoDe
<1>5. QED
  BY <1>1, <1>2, <1>3, <1>4 DEF EspelhoDe, DocumentoSegue

-----------------------------------------------------------------------------

(* A payment nobody touches keeps its mirror.                              *)
LEMMA EspelhoDeQuadro ==
  ASSUME NEW p \in Pagamentos, EspelhoDe(p), provedor'[p] = provedor[p],
         \A d \in DocumentosDe(p) : pagamentos'[d] = pagamentos[d],
         p \in entregues' => p \in entregues,
         p \in mexidos => p \in mexidos',
         p \in empatados => p \in empatados'
  PROVE  EspelhoDe(p)'
<1>1. UmDocumento(p)'
  BY PagamentoAssumption DEF EspelhoDe, UmDocumento, DocumentosDe
<1>2. \A d \in DocumentosDe(p) : DocumentoSegue(p, d)'
  BY DEF EspelhoDe, DocumentoSegue
<1>3. QED
  BY <1>1, <1>2 DEF EspelhoDe, DocumentosDe

(* No task newly fetched.                                                  *)
SemBuscaNova ==
  \A t \in Tarefas : tarefas'[t].fase = "buscou" => tarefas'[t] = tarefas[t]

LEMMA CopiasQuadro ==
  ASSUME Espelho, SemBuscaNova, UNCHANGED <<provedor, empatados>>
  PROVE  \A t \in Tarefas : CopiaFresca(t)'
  BY DEF Espelho, SemBuscaNova, CopiaFresca

LEMMA EspelhoQuadro ==
  ASSUME Espelho, SemBuscaNova, UNCHANGED <<provedor, pagamentos, entregues, mexidos, empatados>>
  PROVE  Espelho'
<1>1. \A p \in Pagamentos : EspelhoDe(p)'
  BY EspelhoDeQuadro DEF Espelho
<1>2. QED
  BY <1>1, CopiasQuadro DEF Espelho

LEMMA EspelhoParado ==
  ASSUME Espelho, UNCHANGED <<provedor, tarefas, pagamentos, entregues, mexidos, empatados>>
  PROVE  Espelho'
  BY EspelhoQuadro DEF SemBuscaNova

LEMMA MudaSemBusca ==
  ASSUME TypeOK, NEW t \in Tarefas, NEW x \in Tarefa, x.fase # "buscou",
         tarefas' = [tarefas EXCEPT ![t] = x]
  PROVE  SemBuscaNova
  BY DEF SemBuscaNova, TypeOK, TypeOKPagamento

LEMMA NotificarSemBusca ==
  ASSUME TypeOK, NEW p \in Pagamentos, Notificar(p)
  PROVE  SemBuscaNova
  BY MudaSemBusca DEF Notificar, NaFila, Tarefa

(* Operators touch documents, and answer for the payments they touch.      *)
LEMMA EspelhoOperador ==
  ASSUME TypeOK, Espelho, UNCHANGED <<provedor, tarefas, entregues, empatados>>,
         mexidos \subseteq mexidos',
         \A p \in Pagamentos : \/ \A d \in DocumentosDe(p) : pagamentos'[d] = pagamentos[d]
                               \/ /\ p \in mexidos'
                                  /\ \A d \in DocumentosDe(p) :
                                       pagamentos'[d] # Nenhum =>
                                         /\ pagamentos[d] # Nenhum
                                         /\ pagamentos'[d].relogio = pagamentos[d].relogio
  PROVE  Espelho'
<1>1. ASSUME NEW p \in Pagamentos PROVE EspelhoDe(p)'
  <2>1. CASE \A d \in DocumentosDe(p) : pagamentos'[d] = pagamentos[d]
    BY <2>1, EspelhoDeQuadro DEF Espelho
  <2>2. CASE /\ p \in mexidos'
             /\ \A d \in DocumentosDe(p) :
                  pagamentos'[d] # Nenhum =>
                    /\ pagamentos[d] # Nenhum
                    /\ pagamentos'[d].relogio = pagamentos[d].relogio
    <3>1. EspelhoDe(p)
      BY DEF Espelho
    <3>2. UmDocumento(p)'
      BY <2>2, <3>1, PagamentoAssumption DEF EspelhoDe, UmDocumento, DocumentosDe
    <3>3. \A d \in DocumentosDe(p) : DocumentoSegue(p, d)'
      BY <2>2, <3>1 DEF EspelhoDe, DocumentoSegue
    <3>4. QED
      BY <2>2, <3>1, <3>2, <3>3 DEF EspelhoDe, DocumentosDe
  <2>3. QED
    BY <2>1, <2>2
<1>2. SemBuscaNova
  BY DEF SemBuscaNova
<1>3. QED
  BY <1>1, <1>2, CopiasQuadro DEF Espelho

(* The provider moves one payment.                                         *)
LEMMA EspelhoProvedor ==
  ASSUME TipoInv, Espelho, NEW p \in Pagamentos, NEW c \in CopiaDoProvedor,
         provedor' = [provedor EXCEPT ![p] = c], Notificar(p),
         UNCHANGED <<pagamentos, mexidos>>, p \notin entregues', entregues' \subseteq entregues,
         \A q \in Pagamentos \ {p} : q \in empatados' <=> q \in empatados,
         \/ provedor[p] = Nenhum
         \/ /\ provedor[p] # Nenhum
            /\ c.relogio >= provedor[p].relogio
            /\ \/ p \in empatados' /\ c.relogio = provedor[p].relogio
               \/ c.relogio > provedor[p].relogio
  PROVE  Espelho'
<1>0. /\ provedor \in [Pagamentos -> CopiaDoProvedor \cup {Nenhum}] /\ Nenhum \notin CopiaDoProvedor
      /\ provedor'[p] = c /\ \A q \in Pagamentos \ {p} : provedor'[q] = provedor[q]
      /\ pagamentos \in [Docs -> Pagamento \cup {Nenhum}]
      /\ tarefas \in [Tarefas -> Tarefa]
      /\ EmMaos
  BY PagamentoAssumption DEF TipoInv, TypeOK, TypeOKPagamento
<1>1. \A q \in Pagamentos \ {p} : EspelhoDe(q)'
  BY <1>0, EspelhoDeQuadro DEF Espelho
<1>2. EspelhoDe(p)'
  <2>1. EspelhoDe(p)
    BY DEF Espelho
  <2>2. ASSUME NEW d \in DocumentosDe(p), pagamentos[d] # Nenhum, pagamentos[d].relogio # Nenhum
        PROVE  /\ provedor[p] # Nenhum /\ pagamentos[d].relogio \in Nat
               /\ pagamentos[d].relogio <= provedor[p].relogio
    <3>1. d \in Docs
      BY PagamentoAssumption DEF DocumentosDe
    <3>2. pagamentos[d].relogio \in Nat
      BY <1>0, <2>2, <3>1 DEF Pagamento
    <3>3. QED
      BY <2>1, <2>2, <3>2 DEF EspelhoDe, DocumentoSegue
  <2>3. c.relogio \in Nat /\ (provedor[p] # Nenhum => provedor[p].relogio \in Nat)
    BY <1>0 DEF CopiaDoProvedor
  <2>4. \A d \in DocumentosDe(p) : DocumentoSegue(p, d)'
    BY <1>0, <2>2, <2>3 DEF DocumentoSegue
  <2>5. UmDocumento(p)'
    BY <2>1 DEF EspelhoDe, UmDocumento
  <2>6. QED
    BY <2>4, <2>5 DEF EspelhoDe, DocumentosDe
<1>3. SemBuscaNova
  BY NotificarSemBusca DEF TipoInv
<1>4. ASSUME NEW t \in Tarefas, tarefas'[t].fase = "buscou" PROVE CopiaFresca(t)'
  <2> DEFINE q == tarefas[t].pagamento
  <2>1. /\ tarefas'[t] = tarefas[t] /\ CopiaFresca(t) /\ tarefas[t].fase = "buscou"
        /\ q \in Pagamentos /\ provedor[q] # Nenhum
        /\ tarefas[t].copia.relogio \in Nat /\ provedor[q].relogio \in Nat
        /\ c.relogio \in Nat
    <3>1. tarefas'[t] = tarefas[t] /\ CopiaFresca(t) /\ tarefas[t].fase = "buscou"
      BY <1>3, <1>4 DEF SemBuscaNova, Espelho
    <3>2. q \in Pagamentos /\ tarefas[t].copia \in CopiaDoProvedor
      BY <1>0, <3>1 DEF Tarefa
    <3>3. provedor[q] # Nenhum
      BY <1>0, <3>1 DEF EmMaos
    <3>4. QED
      BY <1>0, <3>1, <3>2, <3>3 DEF CopiaDoProvedor
  <2>2. CASE q # p
    BY <1>0, <2>1, <2>2 DEF CopiaFresca
  <2>3. CASE q = p
    <3>1. /\ tarefas[t].copia.relogio <= c.relogio
          /\ p \notin empatados' => tarefas[t].copia.relogio < c.relogio
      BY <2>1, <2>3 DEF CopiaFresca
    <3>2. QED
      BY <1>0, <2>1, <2>3, <3>1 DEF CopiaFresca
  <2>4. QED
    BY <2>2, <2>3
<1>5. \A t \in Tarefas : CopiaFresca(t)'
  BY <1>4 DEF CopiaFresca
<1>6. QED
  BY <1>1, <1>2, <1>5 DEF Espelho

(* A delivery is settled: what is written is what was fetched.             *)
LEMMA EscritoCampos ==
  ASSUME NEW p, NEW copia
  PROVE  /\ Escrito(p, copia).relogio = copia.relogio
         /\ Escrito(p, copia).status = copia.status
         /\ Escrito(p, copia).valor = ValorRetido(p, copia.status)
  BY DEF Escrito

(* A delivery is written, and it is news.                                  *)
LEMMA EspelhoGrava ==
  ASSUME TipoInv, Espelho, NEW p \in Pagamentos, NEW copia \in CopiaDoProvedor,
         provedor[p] \in CopiaDoProvedor,
         copia.relogio <= provedor[p].relogio,
         copia # provedor[p] /\ p \notin empatados => copia.relogio < provedor[p].relogio,
         ~Obsoleta(p, copia),
         pagamentos' = [pagamentos EXCEPT ![alvo(p)] = Escrito(p, copia)],
         mexidos' = IF copia = provedor[p] THEN mexidos \ {p} ELSE mexidos,
         entregues' = IF copia = provedor[p] THEN entregues \cup {p} ELSE entregues,
         UNCHANGED <<provedor, empatados>>
  PROVE  \A q \in Pagamentos : EspelhoDe(q)'
<1>a. PICK a \in DocumentosDe(p) : a = alvo(p)
  BY AlvoDocumento DEF TipoInv
<1>0. /\ pagamentos \in [Docs -> Pagamento \cup {Nenhum}]
      /\ DocumentosDe(p) \subseteq Docs
      /\ Escrito(p, copia) \in Pagamento /\ EspelhoDe(p)
      /\ copia.relogio \in Nat /\ provedor[p].relogio \in Nat
      /\ copia.relogio # Nenhum /\ provedor[p] # Nenhum
  BY EscritoTipo, CoberturaAssumption, PagamentoAssumption
     DEF TipoInv, TypeOK, TypeOKPagamento, Espelho, CopiaDoProvedor, DocumentosDe
<1>1. /\ pagamentos'[a] = Escrito(p, copia) /\ pagamentos'[a] # Nenhum
      /\ \A d \in Docs \ {a} : pagamentos'[d] = pagamentos[d]
  BY <1>a, <1>0, CoberturaAssumption
<1>2. \A d \in DocumentosDe(p) \ {a} : pagamentos[d] = Nenhum
  BY <1>a, <1>0, AlvoUnico DEF EspelhoDe
<1>3. ASSUME NEW q \in Pagamentos \ {p} PROVE EspelhoDe(q)'
  <2>1. \A d \in DocumentosDe(q) : pagamentos'[d] = pagamentos[d]
    BY <1>0, <1>1, DocumentosTipo
  <2>2. QED
    BY <2>1, EspelhoDeQuadro DEF Espelho
<1>4. UmDocumento(p)'
  BY <1>0, <1>1, <1>2, PagamentoAssumption DEF UmDocumento, DocumentosDe
<1>5. /\ pagamentos'[a].relogio = copia.relogio
      /\ pagamentos'[a].status = copia.status
      /\ pagamentos'[a].valor = ValorRetido(p, copia.status)
  BY <1>1, EscritoCampos
<1>6. \A d \in DocumentosDe(p) : DocumentoSegue(p, d)'
  <2>1. \A d \in DocumentosDe(p) \ {a} : DocumentoSegue(p, d)'
    BY <1>0, <1>1, <1>2 DEF DocumentoSegue
  <2>2. p \notin empatados /\ copia.relogio = provedor[p].relogio => copia = provedor[p]
    BY <1>0
  <2>3. DocumentoSegue(p, a)'
    BY <1>0, <1>1, <1>5, <2>2 DEF DocumentoSegue, ValorRetido
  <2>4. QED
    BY <2>1, <2>3
<1>7. ASSUME p \in entregues' \ (mexidos' \cup empatados')
      PROVE  \E d \in DocumentosDe(p) : /\ pagamentos'[d] # Nenhum
                                        /\ pagamentos'[d].relogio = provedor[p].relogio
  <2>1. CASE copia = provedor[p]
    BY <1>0, <1>1, <1>5, <2>1
  <2>2. CASE copia # provedor[p]
    <3>1. p \in entregues \ (mexidos \cup empatados)
      BY <1>7, <2>2
    <3>2. PICK d \in DocumentosDe(p) : /\ pagamentos[d] # Nenhum
                                       /\ pagamentos[d].relogio = provedor[p].relogio
      BY <1>0, <3>1 DEF EspelhoDe
    <3>3. d = a
      BY <1>2, <3>2
    <3>4. Obsoleta(p, copia)
      BY <1>a, <1>0, <3>2, <3>3, CoberturaAssumption DEF Obsoleta
    <3>5. QED
      BY <3>4
  <2>3. QED
    BY <2>1, <2>2
<1>8. EspelhoDe(p)'
  BY <1>0, <1>4, <1>6, <1>7 DEF EspelhoDe, DocumentosDe
<1>9. QED
  BY <1>3, <1>8

(* A delivery that is no news finds the present state stored.              *)
LEMMA EspelhoObsoleta ==
  ASSUME TipoInv, Espelho, NEW p \in Pagamentos, NEW copia \in CopiaDoProvedor,
         provedor[p] \in CopiaDoProvedor, Obsoleta(p, copia),
         entregues' = IF copia = provedor[p] THEN entregues \cup {p} ELSE entregues,
         UNCHANGED <<provedor, empatados, pagamentos, mexidos>>
  PROVE  \A q \in Pagamentos : EspelhoDe(q)'
<1>1. \A q \in Pagamentos \ {p} : EspelhoDe(q)'
  BY EspelhoDeQuadro DEF Espelho
<1>2. CASE copia # provedor[p]
  BY <1>2, EspelhoDeQuadro DEF Espelho
<1>3. CASE copia = provedor[p]
  <2>1. alvo(p) \in DocumentosDe(p) /\ alvo(p) \in Docs /\ EspelhoDe(p)
    BY AlvoDocumento, AlvoTipo DEF TipoInv, Espelho
  <2>2. /\ pagamentos[alvo(p)] # Nenhum /\ pagamentos[alvo(p)].relogio # Nenhum
        /\ pagamentos[alvo(p)].relogio >= provedor[p].relogio
    BY <1>3 DEF Obsoleta
  <2>3. pagamentos[alvo(p)].relogio \in Nat /\ provedor[p].relogio \in Nat
    BY <2>1, <2>2 DEF TipoInv, TypeOK, TypeOKPagamento, Pagamento, CopiaDoProvedor
  <2>4. pagamentos[alvo(p)].relogio = provedor[p].relogio
    BY <2>1, <2>2, <2>3 DEF EspelhoDe, DocumentoSegue
  <2>5. UmDocumento(p)' /\ \A d \in DocumentosDe(p) : DocumentoSegue(p, d)'
    BY <2>1 DEF EspelhoDe, UmDocumento, DocumentoSegue
  <2>6. provedor[p] # Nenhum
    BY PagamentoAssumption
  <2>7. EspelhoDe(p)'
    BY <2>1, <2>2, <2>4, <2>5, <2>6 DEF EspelhoDe, DocumentosDe
  <2>8. QED
    BY <1>1, <2>7
<1>4. QED
  BY <1>1, <1>2, <1>3

(* Every step keeps the mirror.                                            *)
LEMMA EspelhoPasso ==
  ASSUME TipoInv, Espelho, [Next]_vars
  PROVE  Espelho'
<1>1. ASSUME NEW p \in Pagamentos, PagarLink(p)
      PROVE  Espelho'
  <2>1. /\ provedor[p] = Nenhum /\ Notificar(p)
        /\ \E c \in CopiaDoProvedor : provedor' = [provedor EXCEPT ![p] = c]
        /\ UNCHANGED <<pagamentos, mexidos, entregues, empatados>>
    BY TipoInv, <1>1, PagarEfeito DEF TipoInv
  <2>2. CASE p \notin entregues
    BY TipoInv, Espelho, <2>1, <2>2, EspelhoProvedor
  <2>3. CASE p \in entregues
    BY Espelho, <2>1, <2>3 DEF Espelho, EspelhoDe
  <2>4. QED
    BY <2>2, <2>3
<1>2. ASSUME NEW p \in Pagamentos, ProvedorMuda(p), UNCHANGED varsLink
      PROVE  Espelho'
  <2>1. PICK c \in CopiaDoProvedor, passo \in {0, 1} :
          /\ provedor' = [provedor EXCEPT ![p] = c]
          /\ c.relogio = provedor[p].relogio + passo
          /\ empatados' = IF passo = 0 THEN empatados \cup {p} ELSE empatados \ {p}
    BY TipoInv, <1>2, ProvedorEfeito DEF TipoInv
  <2>2. /\ provedor[p] \in CopiaDoProvedor /\ entregues' = entregues \ {p} /\ Notificar(p)
        /\ UNCHANGED <<pagamentos, mexidos>>
    BY TipoInv, <1>2, ProvedorEfeito DEF TipoInv
  <2>3. provedor[p].relogio \in Nat /\ provedor[p] # Nenhum
    BY <2>2, PagamentoAssumption DEF CopiaDoProvedor
  <2>4. /\ \A q \in Pagamentos \ {p} : q \in empatados' <=> q \in empatados
        /\ c.relogio >= provedor[p].relogio
        /\ \/ p \in empatados' /\ c.relogio = provedor[p].relogio
           \/ c.relogio > provedor[p].relogio
    BY <2>1, <2>3
  <2>5. p \notin entregues' /\ entregues' \subseteq entregues
    BY <2>2
  <2>6. QED
    BY TipoInv, Espelho, <2>1, <2>2, <2>3, <2>4, <2>5, EspelhoProvedor
<1>3. ASSUME NEW p \in Pagamentos, Reentregar(p), UNCHANGED varsLink
      PROVE  Espelho'
  <2>1. SemBuscaNova
    BY TipoInv, <1>3, NotificarSemBusca DEF TipoInv, Reentregar
  <2>2. UNCHANGED <<provedor, pagamentos, entregues, mexidos, empatados>>
    BY <1>3 DEF Reentregar
  <2>3. QED
    BY Espelho, <2>1, <2>2, EspelhoQuadro
<1>4. ASSUME NEW t \in Tarefas, fetchPayment(t), UNCHANGED varsLink
      PROVE  Espelho'
  <2>1. PICK x \in Tarefa :
          /\ tarefas' = [tarefas EXCEPT ![t] = x] /\ tarefas[t].fase = "fila"
          /\ x.fase = "buscou" /\ x.pagamento = tarefas[t].pagamento
          /\ x.copia = provedor[tarefas[t].pagamento]
    BY TipoInv, <1>4, TarefaEfeito
  <2>2. UNCHANGED <<provedor, pagamentos, entregues, mexidos, empatados>>
    BY <1>4 DEF fetchPayment
  <2>3. x.pagamento \in Pagamentos /\ x.copia \in CopiaDoProvedor
    BY <2>1 DEF Tarefa
  <2>4. tarefas'[t] = x /\ \A u \in Tarefas : u # t => tarefas'[u] = tarefas[u]
    BY TipoInv, <2>1 DEF TipoInv, TypeOK, TypeOKPagamento
  <2>5. CopiaFresca(t)'
    BY <2>1, <2>2, <2>3, <2>4 DEF CopiaFresca, CopiaDoProvedor
  <2>6. \A u \in Tarefas : u # t => CopiaFresca(u)'
    BY Espelho, <2>2, <2>4 DEF Espelho, CopiaFresca
  <2>7. \A p \in Pagamentos : EspelhoDe(p)'
    BY Espelho, <2>2, EspelhoDeQuadro DEF Espelho
  <2>8. QED
    BY <2>5, <2>6, <2>7 DEF Espelho
<1>5. ASSUME NEW t \in Tarefas, reconcilePedidoFromPagamento(t, links, vencidos), UNCHANGED varsLink
      PROVE  Espelho'
  <2> DEFINE p == tarefas[t].pagamento
             copia == tarefas[t].copia
  <2>1. /\ tarefas[t].fase = "buscou" /\ p \in Pagamentos /\ copia \in CopiaDoProvedor
        /\ reconcileObsoleta(t, p, copia) \/ reconcileGrava(t, p, copia)
        /\ entregues' = IF copia = provedor[p] THEN entregues \cup {p} ELSE entregues
        /\ UNCHANGED <<provedor, empatados>>
    BY TipoInv, <1>5, ReconcileEfeito
  <2>2. PICK docs : Encaminhar(t, p, docs)
    BY <2>1 DEF reconcileObsoleta, reconcileGrava
  <2>3. SemBuscaNova
    BY TipoInv, <2>1, <2>2, EncaminharEfeito, MudaSemBusca DEF TipoInv, Livre
  <2>4. provedor[p] \in CopiaDoProvedor
    BY TipoInv, <2>1 DEF TipoInv, TypeOK, TypeOKPagamento, EmMaos
  <2>5. /\ copia.relogio <= provedor[p].relogio
        /\ copia # provedor[p] /\ p \notin empatados => copia.relogio < provedor[p].relogio
    BY Espelho, <2>1 DEF Espelho, CopiaFresca
  <2> HIDE DEF p, copia
  <2>6. CASE reconcileObsoleta(t, p, copia)
    <3>1. Obsoleta(p, copia) /\ UNCHANGED <<pagamentos, mexidos>>
      BY <2>6 DEF reconcileObsoleta
    <3>2. QED
      BY TipoInv, Espelho, <2>1, <2>3, <2>4, <3>1, EspelhoObsoleta, CopiasQuadro DEF Espelho
  <2>7. CASE reconcileGrava(t, p, copia)
    <3>1. /\ ~Obsoleta(p, copia)
          /\ pagamentos' = [pagamentos EXCEPT ![alvo(p)] = Escrito(p, copia)]
          /\ mexidos' = IF copia = provedor[p] THEN mexidos \ {p} ELSE mexidos
      BY <2>7 DEF reconcileGrava
    <3>2. \A q \in Pagamentos : EspelhoDe(q)'
      BY TipoInv, Espelho, <2>1, <2>4, <2>5, <3>1, EspelhoGrava
    <3>3. QED
      BY Espelho, <2>1, <2>3, <3>2, CopiasQuadro DEF Espelho
  <2>8. QED
    BY <2>1, <2>6, <2>7
<1>6. ASSUME NEW t \in Tarefas, encerrarLinkSeCompleto(t)
      PROVE  Espelho'
  <2>1. SemBuscaNova
    BY TipoInv, <1>6, TarefaEfeito, MudaSemBusca DEF TipoInv, Livre
  <2>2. UNCHANGED <<provedor, pagamentos, entregues, mexidos, empatados>>
    BY <1>6 DEF encerrarLinkSeCompleto, PagamentoParado
  <2>3. QED
    BY Espelho, <2>1, <2>2, EspelhoQuadro
<1>7. ASSUME NEW t \in Tarefas, ExpirarParaFechar(t)
      PROVE  Espelho'
  <2>1. SemBuscaNova
    BY TipoInv, <1>7, TarefaEfeito, MudaSemBusca DEF TipoInv, Livre
  <2>2. UNCHANGED <<provedor, pagamentos, entregues, mexidos, empatados>>
    BY <1>7 DEF ExpirarParaFechar, PagamentoParado
  <2>3. QED
    BY Espelho, <2>1, <2>2, EspelhoQuadro
<1>8. ASSUME NEW t \in Tarefas, MarcarConcluido(t)
      PROVE  Espelho'
  <2>1. SemBuscaNova
    BY TipoInv, <1>8, TarefaEfeito, MudaSemBusca DEF TipoInv, Livre, Tarefa
  <2>2. UNCHANGED <<provedor, pagamentos, entregues, mexidos, empatados>>
    BY <1>8 DEF MarcarConcluido, PagamentoParado
  <2>3. QED
    BY Espelho, <2>1, <2>2, EspelhoQuadro
<1>9. ASSUME NEW t \in Tarefas, Falhar(t)
      PROVE  Espelho'
  <2>1. SemBuscaNova
    BY TipoInv, <1>9, TarefaEfeito, MudaSemBusca DEF TipoInv, Livre
  <2>2. UNCHANGED <<provedor, pagamentos, entregues, mexidos, empatados>>
    BY <1>9 DEF Falhar
  <2>3. QED
    BY Espelho, <2>1, <2>2, EspelhoQuadro
<1>10. ASSUME CriarPagamentos, UNCHANGED varsLink
      PROVE  Espelho'
  <2>1. PICK novos \in SUBSET {d \in Manuais : pagamentos[d] = Nenhum}, edicao \in Edicoes :
          pagamentos' = [d \in Docs |-> IF d \in novos THEN DoOperador(edicao) ELSE pagamentos[d]]
    BY <1>10 DEF CriarPagamentos, Registrar
  <2>2. UNCHANGED <<provedor, tarefas, entregues, empatados, mexidos>>
    BY <1>10 DEF CriarPagamentos, Registrar
  <2>3. \A p \in Pagamentos : \A d \in DocumentosDe(p) : pagamentos'[d] = pagamentos[d]
    BY <2>1, PagamentoAssumption DEF DocumentosDe
  <2>4. QED
    BY TipoInv, Espelho, <2>2, <2>3, EspelhoOperador DEF TipoInv
<1>11. ASSUME NEW d \in Docs, savePagamento(d), UNCHANGED varsLink
      PROVE  Espelho'
  <2>1. PICK edicao \in Edicoes :
          pagamentos' = [pagamentos EXCEPT ![d].valor = edicao[1], ![d].status = edicao[2],
                                           ![d].creditoLoja = edicao[3]]
    BY <1>11 DEF savePagamento, Registrar
  <2>2. /\ pagamentos[d] # Nenhum /\ mexidos' = mexidos \cup DonosDe(d)
        /\ UNCHANGED <<provedor, tarefas, entregues, empatados>>
    BY <1>11 DEF savePagamento, Registrar
  <2>3. pagamentos \in [Docs -> Pagamento \cup {Nenhum}] /\ pagamentos[d] \in Pagamento
    BY TipoInv, <2>2 DEF TipoInv, TypeOK, TypeOKPagamento
  <2>4. /\ \A e \in Docs \ {d} : pagamentos'[e] = pagamentos[e]
        /\ pagamentos'[d].relogio = pagamentos[d].relogio
    BY <2>1, <2>3 DEF Pagamento
  <2>5. ASSUME NEW p \in Pagamentos
        PROVE  \/ \A e \in DocumentosDe(p) : pagamentos'[e] = pagamentos[e]
               \/ /\ p \in mexidos'
                  /\ \A e \in DocumentosDe(p) : pagamentos'[e] # Nenhum =>
                       /\ pagamentos[e] # Nenhum
                       /\ pagamentos'[e].relogio = pagamentos[e].relogio
    <3>1. DocumentosDe(p) \subseteq Docs
      BY PagamentoAssumption DEF DocumentosDe
    <3>2. d \in DocumentosDe(p) => p \in mexidos'
      BY <2>2 DEF DonosDe, DocumentosDe
    <3>3. QED
      BY <2>2, <2>4, <3>1, <3>2
  <2>6. QED
    BY TipoInv, Espelho, <2>2, <2>5, EspelhoOperador DEF TipoInv
<1>12. ASSUME NEW d \in Docs, deletePagamento(d), UNCHANGED varsLink
      PROVE  Espelho'
  <2>1. /\ pagamentos' = [pagamentos EXCEPT ![d] = Nenhum]
        /\ mexidos' = mexidos \cup DonosDe(d)
        /\ UNCHANGED <<provedor, tarefas, entregues, empatados>>
    BY <1>12 DEF deletePagamento, Registrar
  <2>2. pagamentos \in [Docs -> Pagamento \cup {Nenhum}]
    BY TipoInv DEF TipoInv, TypeOK, TypeOKPagamento
  <2>3. pagamentos'[d] = Nenhum /\ \A e \in Docs \ {d} : pagamentos'[e] = pagamentos[e]
    BY <2>1, <2>2
  <2>4. ASSUME NEW p \in Pagamentos
        PROVE  \/ \A e \in DocumentosDe(p) : pagamentos'[e] = pagamentos[e]
               \/ /\ p \in mexidos'
                  /\ \A e \in DocumentosDe(p) : pagamentos'[e] # Nenhum =>
                       /\ pagamentos[e] # Nenhum
                       /\ pagamentos'[e].relogio = pagamentos[e].relogio
    <3>1. DocumentosDe(p) \subseteq Docs
      BY PagamentoAssumption DEF DocumentosDe
    <3>2. d \in DocumentosDe(p) => p \in mexidos'
      BY <2>1 DEF DonosDe, DocumentosDe
    <3>3. QED
      BY <2>3, <3>1, <3>2
  <2>5. QED
    BY TipoInv, Espelho, <2>1, <2>4, EspelhoOperador DEF TipoInv
<1>13. ASSUME AbrirEditor, UNCHANGED varsLink
      PROVE  Espelho'
  BY Espelho, <1>13, EspelhoParado DEF AbrirEditor, varsLink
<1>14. ASSUME savePedido, UNCHANGED varsLink
      PROVE  Espelho'
  BY Espelho, <1>14, EspelhoParado DEF savePedido, varsLink
<1>15. ASSUME MudarEstado, UNCHANGED varsLink
      PROVE  Espelho'
  BY Espelho, <1>15, EspelhoParado DEF MudarEstado, varsLink
<1>16. ASSUME Embalar, UNCHANGED varsLink
      PROVE  Espelho'
  BY Espelho, <1>16, EspelhoParado DEF Embalar, varsLink
<1>17. ASSUME NEW o \in {"pagamento", "total"}, reconcilePedidoEstado(o), UNCHANGED varsLink
      PROVE  Espelho'
  BY Espelho, <1>17, EspelhoParado DEF reconcilePedidoEstado, varsLink
<1>18. ASSUME NEW o \in {"pagamento", "total"}, PerderChamada(o), UNCHANGED varsLink
      PROVE  Espelho'
  BY Espelho, <1>18, EspelhoParado DEF PerderChamada, varsLink
<1>19. ASSUME NEW r \in Requisicoes, criarLinks(r)
      PROVE  Espelho'
  BY Espelho, <1>19, EspelhoParado DEF criarLinks
<1>20. ASSUME NEW r \in Requisicoes, createPreference(r)
      PROVE  Espelho'
  BY Espelho, <1>20, EspelhoParado DEF createPreference, PagamentoParado, CriacaoSo
<1>21. ASSUME NEW r \in Requisicoes, createPreferenceFalha(r)
      PROVE  Espelho'
  BY Espelho, <1>21, EspelhoParado DEF createPreferenceFalha, Ir, PagamentoParado, CriacaoSo
<1>22. ASSUME NEW r \in Requisicoes, persistirLinks(r)
      PROVE  Espelho'
  BY Espelho, <1>22, EspelhoParado DEF persistirLinks, Ir
<1>23. ASSUME NEW r \in Requisicoes, lerLinksSolicitados(r)
      PROVE  Espelho'
  BY Espelho, <1>23, EspelhoParado DEF lerLinksSolicitados, Ir, PagamentoParado, CriacaoSo
<1>24. ASSUME NEW r \in Requisicoes, expirarPreferencias(r)
      PROVE  Espelho'
  BY Espelho, <1>24, EspelhoParado DEF expirarPreferencias, Ir, PagamentoParado, CriacaoSo
<1>25. ASSUME NEW r \in Requisicoes, MorrerCriacao(r)
      PROVE  Espelho'
  BY Espelho, <1>25, EspelhoParado DEF MorrerCriacao, Ir, PagamentoParado, CriacaoSo
<1>26. ASSUME NEW l \in Links, cancelarLink(l)
      PROVE  Espelho'
  BY Espelho, <1>26, EspelhoParado DEF cancelarLink
<1>27. ASSUME NEW l \in Links, ExpirarParaCancelar(l)
      PROVE  Espelho'
  BY Espelho, <1>27, EspelhoParado DEF ExpirarParaCancelar, Expirada, PagamentoParado,
     CancelamentoSo
<1>28. ASSUME NEW l \in Links, MarcarCancelado(l)
      PROVE  Espelho'
  BY Espelho, <1>28, EspelhoParado DEF MarcarCancelado, marcarLinkTerminal, PagamentoParado,
     CancelamentoSo
<1>29. ASSUME NEW l \in Links, Vencer(l)
      PROVE  Espelho'
  BY Espelho, <1>29, EspelhoParado DEF Vencer
<1>30. ASSUME UNCHANGED vars
      PROVE  Espelho'
  BY Espelho, <1>30, EspelhoParado DEF vars, varsLink, varsPagamento
<1>31. QED
  BY <1>1, <1>2, <1>3, <1>4, <1>5, <1>6, <1>7, <1>8, <1>9, <1>10, <1>11, <1>12, <1>13,
     <1>14, <1>15, <1>16, <1>17, <1>18, <1>19, <1>20, <1>21, <1>22, <1>23, <1>24, <1>25,
     <1>26, <1>27, <1>28, <1>29, <1>30 DEF Next, Notificacao, Operador, Criar

-----------------------------------------------------------------------------
(* The quota.                                                              *)

(* A document has no link or the one its payment came through, and a       *)
(* payment comes through a link that is stored.                            *)
Ligacao ==
  /\ \A p \in Pagamentos : provedor[p] # Nenhum => LinkDo[p] \in Guardados \cup {Nenhum}
  /\ \A d \in Docs : pagamentos[d] # Nenhum => pagamentos[d].link \in Guardados \cup {Nenhum}
  /\ \A p \in Pagamentos : \A d \in DocumentosDe(p) :
       pagamentos[d] # Nenhum => pagamentos[d].link \in {Nenhum, LinkDo[p]}

(* Links are never removed, and a document gets a link only from its own   *)
(* payment.                                                                *)
LEMMA LigacaoMuda ==
  ASSUME Ligacao, Guardados \subseteq Guardados',
         \A p \in Pagamentos : provedor'[p] # Nenhum =>
           provedor[p] # Nenhum \/ LinkDo[p] \in Guardados \cup {Nenhum},
         \A d \in Docs : pagamentos'[d] # Nenhum =>
           \/ pagamentos[d] # Nenhum /\ pagamentos'[d].link = pagamentos[d].link
           \/ pagamentos'[d].link = Nenhum
           \/ \E p \in Pagamentos : /\ d \in DocumentosDe(p) /\ provedor[p] # Nenhum
                                    /\ pagamentos'[d].link = LinkDo[p]
  PROVE  Ligacao'
<1>1. \A p \in Pagamentos : provedor'[p] # Nenhum => LinkDo[p] \in Guardados' \cup {Nenhum}
  BY DEF Ligacao
<1>2. \A d \in Docs : pagamentos'[d] # Nenhum => pagamentos'[d].link \in Guardados' \cup {Nenhum}
  BY DEF Ligacao
<1>3. ASSUME NEW p \in Pagamentos, NEW d \in DocumentosDe(p), pagamentos'[d] # Nenhum
      PROVE  pagamentos'[d].link \in {Nenhum, LinkDo[p]}
  <2>1. d \in Docs /\ \A q \in Pagamentos : d \in DocumentosDe(q) => q = p
    BY DocumentosTipo, PagamentoAssumption DEF DocumentosDe
  <2>2. QED
    BY <1>3, <2>1 DEF Ligacao
<1>4. QED
  BY <1>1, <1>2, <1>3 DEF Ligacao, DocumentosDe

LEMMA LigacaoQuadro ==
  ASSUME Ligacao, UNCHANGED <<provedor, pagamentos, links>>
  PROVE  Ligacao'
  BY DEF Ligacao, Guardados, DocumentosDe

LEMMA LigacaoLinks ==
  ASSUME Ligacao, UNCHANGED <<provedor, pagamentos>>,
         \A l \in Guardados : links'[l] # Nenhum
  PROVE  Ligacao'
<1>1. Guardados \subseteq Guardados'
  BY DEF Guardados
<1>2. QED
  BY <1>1, LigacaoMuda

(* What a delivery writes carries the link of its payment.                 *)
LEMMA EscritoLink ==
  ASSUME TypeOK, Ligacao, NEW p \in Pagamentos, NEW copia
  PROVE  Escrito(p, copia).link = LinkDo[p]
  BY AlvoDocumento DEF Escrito, Ligacao

(* Every step keeps documents and payments with their links.               *)
LEMMA LigacaoPasso ==
  ASSUME TipoInv, Ligacao, [Next]_vars
  PROVE  Ligacao'
<1>1. ASSUME NEW p \in Pagamentos, PagarLink(p)
      PROVE  Ligacao'
  <2>1. /\ UNCHANGED <<pagamentos, links>> /\ LinkDo[p] \in Guardados \cup {Nenhum}
        /\ \E c \in CopiaDoProvedor : provedor' = [provedor EXCEPT ![p] = c]
    BY TipoInv, <1>1, PagarEfeito DEF TipoInv, varsLink
  <2>2. \A q \in Pagamentos \ {p} : provedor'[q] = provedor[q]
    BY TipoInv, <2>1 DEF TipoInv, TypeOK, TypeOKPagamento
  <2>3. Guardados' = Guardados
    BY <2>1 DEF Guardados
  <2>4. QED
    BY Ligacao, <2>1, <2>2, <2>3, LigacaoMuda
<1>2. ASSUME NEW p \in Pagamentos, ProvedorMuda(p), UNCHANGED varsLink
      PROVE  Ligacao'
  <2>1. /\ UNCHANGED <<pagamentos, links>> /\ provedor[p] # Nenhum
        /\ \E c \in CopiaDoProvedor : provedor' = [provedor EXCEPT ![p] = c]
    BY TipoInv, <1>2, ProvedorEfeito, PagamentoAssumption DEF TipoInv, varsLink
  <2>2. \A q \in Pagamentos \ {p} : provedor'[q] = provedor[q]
    BY TipoInv, <2>1 DEF TipoInv, TypeOK, TypeOKPagamento
  <2>3. Guardados' = Guardados
    BY <2>1 DEF Guardados
  <2>4. QED
    BY Ligacao, <2>1, <2>2, <2>3, LigacaoMuda
<1>3. ASSUME NEW p \in Pagamentos, Reentregar(p), UNCHANGED varsLink
      PROVE  Ligacao'
  BY Ligacao, <1>3, LigacaoQuadro DEF Reentregar, varsLink
<1>4. ASSUME NEW t \in Tarefas, fetchPayment(t), UNCHANGED varsLink
      PROVE  Ligacao'
  BY Ligacao, <1>4, LigacaoQuadro DEF fetchPayment, varsLink
<1>5. ASSUME NEW t \in Tarefas, reconcilePedidoFromPagamento(t, links, vencidos), UNCHANGED varsLink
      PROVE  Ligacao'
  <2> DEFINE p == tarefas[t].pagamento
             copia == tarefas[t].copia
  <2>1. /\ tarefas[t].fase = "buscou" /\ p \in Pagamentos /\ copia \in CopiaDoProvedor
        /\ reconcileObsoleta(t, p, copia) \/ reconcileGrava(t, p, copia)
        /\ UNCHANGED provedor
    BY TipoInv, <1>5, ReconcileEfeito
  <2>2. UNCHANGED links
    BY <1>5 DEF varsLink
  <2> HIDE DEF copia
  <2>3. CASE reconcileObsoleta(t, p, copia)
    BY Ligacao, <2>1, <2>2, <2>3, LigacaoQuadro DEF reconcileObsoleta
  <2>4. CASE reconcileGrava(t, p, copia)
    <3>1. PICK a \in DocumentosDe(p) :
            pagamentos' = [pagamentos EXCEPT ![a] = Escrito(p, copia)]
      BY TipoInv, <2>1, <2>4, AlvoDocumento DEF reconcileGrava, TipoInv
    <3>2. \A d \in Docs \ {a} : pagamentos'[d] = pagamentos[d]
      BY TipoInv, <3>1 DEF TipoInv, TypeOK, TypeOKPagamento
    <3>3. a \in Docs => pagamentos'[a].link = LinkDo[p]
      BY TipoInv, Ligacao, <2>1, <3>1, EscritoLink DEF TipoInv, TypeOK, TypeOKPagamento
    <3>4. provedor[p] # Nenhum
      BY TipoInv, <2>1 DEF TipoInv, EmMaos
    <3>5. Guardados' = Guardados
      BY <2>2 DEF Guardados
    <3>6. QED
      BY Ligacao, <2>1, <3>1, <3>2, <3>3, <3>4, <3>5, LigacaoMuda
  <2>5. QED
    BY <2>1, <2>3, <2>4
<1>6. ASSUME NEW t \in Tarefas, encerrarLinkSeCompleto(t)
      PROVE  Ligacao'
  BY Ligacao, <1>6, LigacaoQuadro DEF encerrarLinkSeCompleto, PagamentoParado, DemaisLinks
<1>7. ASSUME NEW t \in Tarefas, ExpirarParaFechar(t)
      PROVE  Ligacao'
  BY Ligacao, <1>7, LigacaoQuadro DEF ExpirarParaFechar, Expirada, PagamentoParado,
     DemaisLinks
<1>8. ASSUME NEW t \in Tarefas, MarcarConcluido(t)
      PROVE  Ligacao'
  <2>1. \A l \in Guardados : links'[l] # Nenhum
    BY TipoInv, <1>8, TarefaEfeito, MarcarEfeito
       DEF TipoInv, StatusLinkPagamento, Guardados
  <2>2. UNCHANGED <<provedor, pagamentos>>
    BY <1>8 DEF MarcarConcluido, PagamentoParado
  <2>3. QED
    BY Ligacao, <2>1, <2>2, LigacaoLinks
<1>9. ASSUME NEW t \in Tarefas, Falhar(t)
      PROVE  Ligacao'
  BY Ligacao, <1>9, LigacaoQuadro DEF Falhar, Expirada
<1>10. ASSUME CriarPagamentos, UNCHANGED varsLink
      PROVE  Ligacao'
  <2>1. PICK novos \in SUBSET {d \in Manuais : pagamentos[d] = Nenhum}, edicao \in Edicoes :
          pagamentos' = [d \in Docs |-> IF d \in novos THEN DoOperador(edicao) ELSE pagamentos[d]]
    BY <1>10 DEF CriarPagamentos, Registrar
  <2>2. UNCHANGED <<provedor, links>>
    BY <1>10 DEF CriarPagamentos, Registrar, varsLink
  <2>3. \A d \in Docs : pagamentos'[d] = pagamentos[d] \/ pagamentos'[d].link = Nenhum
    BY <2>1 DEF DoOperador
  <2>4. Guardados' = Guardados
    BY <2>2 DEF Guardados
  <2>5. QED
    BY Ligacao, <2>2, <2>3, <2>4, LigacaoMuda
<1>11. ASSUME NEW d \in Docs, savePagamento(d), UNCHANGED varsLink
      PROVE  Ligacao'
  <2>1. PICK edicao \in Edicoes :
          pagamentos' = [pagamentos EXCEPT ![d].valor = edicao[1], ![d].status = edicao[2],
                                           ![d].creditoLoja = edicao[3]]
    BY <1>11 DEF savePagamento, Registrar
  <2>2. pagamentos[d] # Nenhum /\ UNCHANGED <<provedor, links>>
    BY <1>11 DEF savePagamento, Registrar, varsLink
  <2>3. pagamentos \in [Docs -> Pagamento \cup {Nenhum}] /\ pagamentos[d] \in Pagamento
    BY TipoInv, <2>2 DEF TipoInv, TypeOK, TypeOKPagamento
  <2>4. /\ \A e \in Docs \ {d} : pagamentos'[e] = pagamentos[e]
        /\ pagamentos'[d].link = pagamentos[d].link
    BY <2>1, <2>3 DEF Pagamento
  <2>5. Guardados' = Guardados
    BY <2>2 DEF Guardados
  <2>6. QED
    BY Ligacao, <2>2, <2>4, <2>5, LigacaoMuda
<1>12. ASSUME NEW d \in Docs, deletePagamento(d), UNCHANGED varsLink
      PROVE  Ligacao'
  <2>1. pagamentos' = [pagamentos EXCEPT ![d] = Nenhum] /\ UNCHANGED <<provedor, links>>
    BY <1>12 DEF deletePagamento, Registrar, varsLink
  <2>2. \A e \in Docs : pagamentos'[e] = pagamentos[e] \/ pagamentos'[e] = Nenhum
    BY TipoInv, <2>1 DEF TipoInv, TypeOK, TypeOKPagamento
  <2>3. Guardados' = Guardados
    BY <2>1 DEF Guardados
  <2>4. QED
    BY Ligacao, <2>1, <2>2, <2>3, LigacaoMuda
<1>13. ASSUME AbrirEditor, UNCHANGED varsLink
      PROVE  Ligacao'
  BY Ligacao, <1>13, LigacaoQuadro DEF AbrirEditor, varsLink
<1>14. ASSUME savePedido, UNCHANGED varsLink
      PROVE  Ligacao'
  BY Ligacao, <1>14, LigacaoQuadro DEF savePedido, varsLink
<1>15. ASSUME MudarEstado, UNCHANGED varsLink
      PROVE  Ligacao'
  BY Ligacao, <1>15, LigacaoQuadro DEF MudarEstado, varsLink
<1>16. ASSUME Embalar, UNCHANGED varsLink
      PROVE  Ligacao'
  BY Ligacao, <1>16, LigacaoQuadro DEF Embalar, varsLink
<1>17. ASSUME NEW o \in {"pagamento", "total"}, reconcilePedidoEstado(o), UNCHANGED varsLink
      PROVE  Ligacao'
  BY Ligacao, <1>17, LigacaoQuadro DEF reconcilePedidoEstado, varsLink
<1>18. ASSUME NEW o \in {"pagamento", "total"}, PerderChamada(o), UNCHANGED varsLink
      PROVE  Ligacao'
  BY Ligacao, <1>18, LigacaoQuadro DEF PerderChamada, varsLink
<1>19. ASSUME NEW r \in Requisicoes, criarLinks(r)
      PROVE  Ligacao'
  BY Ligacao, <1>19, LigacaoQuadro DEF criarLinks
<1>20. ASSUME NEW r \in Requisicoes, createPreference(r)
      PROVE  Ligacao'
  BY Ligacao, <1>20, LigacaoQuadro DEF createPreference, PagamentoParado, CriacaoSo
<1>21. ASSUME NEW r \in Requisicoes, createPreferenceFalha(r)
      PROVE  Ligacao'
  BY Ligacao, <1>21, LigacaoQuadro DEF createPreferenceFalha, Ir, PagamentoParado, CriacaoSo
<1>22. ASSUME NEW r \in Requisicoes, persistirLinks(r)
      PROVE  Ligacao'
  <2>1. /\ GravarLinks(r) \/ UNCHANGED links
        /\ UNCHANGED <<provedor, pagamentos>>
    BY <1>22 DEF persistirLinks
  <2>2. \A k \in Guardados : links'[k] # Nenhum
    BY TipoInv, <2>1, GravarEfeito DEF TipoInv, Guardados
  <2>3. QED
    BY Ligacao, <2>1, <2>2, LigacaoLinks
<1>23. ASSUME NEW r \in Requisicoes, lerLinksSolicitados(r)
      PROVE  Ligacao'
  BY Ligacao, <1>23, LigacaoQuadro DEF lerLinksSolicitados, Ir, PagamentoParado, CriacaoSo
<1>24. ASSUME NEW r \in Requisicoes, expirarPreferencias(r)
      PROVE  Ligacao'
  BY Ligacao, <1>24, LigacaoQuadro DEF expirarPreferencias, Ir, PagamentoParado, CriacaoSo
<1>25. ASSUME NEW r \in Requisicoes, MorrerCriacao(r)
      PROVE  Ligacao'
  BY Ligacao, <1>25, LigacaoQuadro DEF MorrerCriacao, Ir, PagamentoParado, CriacaoSo
<1>26. ASSUME NEW l \in Links, cancelarLink(l)
      PROVE  Ligacao'
  BY Ligacao, <1>26, LigacaoQuadro DEF cancelarLink
<1>27. ASSUME NEW l \in Links, ExpirarParaCancelar(l)
      PROVE  Ligacao'
  BY Ligacao, <1>27, LigacaoQuadro DEF ExpirarParaCancelar, Expirada, PagamentoParado,
     CancelamentoSo
<1>28. ASSUME NEW l \in Links, MarcarCancelado(l)
      PROVE  Ligacao'
  <2>1. /\ l \in Guardados
        /\ marcarLinkTerminal(l, "cancelado", FALSE) \/ UNCHANGED links
        /\ UNCHANGED <<provedor, pagamentos>>
    BY TipoInv, <1>28 DEF MarcarCancelado, CancelamentoSo, PagamentoParado, TipoInv, EmMaos
  <2>2. \A k \in Guardados : links'[k] # Nenhum
    BY TipoInv, <2>1, MarcarEfeito DEF TipoInv, StatusLinkPagamento, Guardados
  <2>3. QED
    BY Ligacao, <2>1, <2>2, LigacaoLinks
<1>29. ASSUME NEW l \in Links, Vencer(l)
      PROVE  Ligacao'
  BY Ligacao, <1>29, LigacaoQuadro DEF Vencer
<1>30. ASSUME UNCHANGED vars
      PROVE  Ligacao'
  BY Ligacao, <1>30, LigacaoQuadro DEF vars, varsLink, varsPagamento
<1>31. QED
  BY <1>1, <1>2, <1>3, <1>4, <1>5, <1>6, <1>7, <1>8, <1>9, <1>10, <1>11, <1>12, <1>13,
     <1>14, <1>15, <1>16, <1>17, <1>18, <1>19, <1>20, <1>21, <1>22, <1>23, <1>24, <1>25,
     <1>26, <1>27, <1>28, <1>29, <1>30 DEF Next, Notificacao, Operador, Criar

(* Task t will close link l.                                               *)
Dono(t, l) ==
  /\ tarefas[t].fase # "livre" /\ LinkDaTarefa(t) = l
  /\ tarefas[t].fase \in {"fila", "buscou"} \/ tarefas[t].aprovados >= Cota[l]

Esgotado(l) ==
  /\ l \in Guardados \ abandonados /\ links[l].status = "aberto"
  /\ AprovadosDoLink(pagamentos, l) >= Cota[l]

LEMMA EsgotadoDepois ==
  ASSUME NEW docs, NEW l, pagamentos' = docs
  PROVE  Esgotado(l)' <=> /\ links'[l] # Nenhum /\ l \in Links \ abandonados'
                          /\ links'[l].status = "aberto" /\ AprovadosDoLink(docs, l) >= Cota[l]
  BY DEF Esgotado, Guardados, AprovadosDoLink

(* A link is spent now only if it was, while no document is newly approved *)
(* for it and it is not newly open.                                        *)
LEMMA EsgotadoAntes ==
  ASSUME NEW l \in Links, Esgotado(l)', NEW docs, pagamentos' = docs,
         Aprovados(docs, l) \subseteq Aprovados(pagamentos, l),
         links'[l] # Nenhum /\ links'[l].status = "aberto" =>
           links[l] # Nenhum /\ links[l].status = "aberto",
         abandonados \subseteq abandonados'
  PROVE  Esgotado(l)
<1>1. /\ links'[l] # Nenhum /\ l \in Links \ abandonados'
      /\ links'[l].status = "aberto" /\ AprovadosDoLink(docs, l) >= Cota[l]
  BY EsgotadoDepois
<1>2. /\ AprovadosDoLink(docs, l) <= AprovadosDoLink(pagamentos, l)
      /\ AprovadosDoLink(docs, l) \in Nat /\ AprovadosDoLink(pagamentos, l) \in Nat
      /\ Cota[l] \in Nat
  BY AprovadosMonotono, AprovadosConta, CoberturaAssumption
<1>3. QED
  BY <1>1, <1>2 DEF Esgotado, Guardados

LEMMA DonoInicia ==
  ASSUME \A l \in Links : Esgotado(l)' => \E t \in Tarefas : Dono(t, l)'
  PROVE  LinkEsgotadoTemDono'
  BY DEF LinkEsgotadoTemDono, Esgotado, Dono, Guardados

LEMMA DonoHavia ==
  ASSUME LinkEsgotadoTemDono, NEW l \in Links, Esgotado(l)
  PROVE  \E t \in Tarefas : Dono(t, l)
  BY DEF LinkEsgotadoTemDono, Esgotado, Dono, Guardados

(* What was spent is all that is, and its tasks are still there.           *)
LEMMA DonoMesmo ==
  ASSUME LinkEsgotadoTemDono,
         \A l \in Links : Esgotado(l)' =>
           Esgotado(l) /\ \A t \in Tarefas : Dono(t, l) => Dono(t, l)'
  PROVE  LinkEsgotadoTemDono'
  BY DonoInicia, DonoHavia

LEMMA DonoParado ==
  ASSUME LinkEsgotadoTemDono, UNCHANGED <<tarefas, pagamentos, links, abandonados>>
  PROVE  LinkEsgotadoTemDono'
<1>1. \A l \in Links : Esgotado(l)' => Esgotado(l)
  BY EsgotadoDepois DEF Esgotado, Guardados
<1>2. \A l \in Links, t \in Tarefas : Dono(t, l) => Dono(t, l)'
  BY DEF Dono, LinkDaTarefa
<1>3. QED
  BY <1>1, <1>2, DonoMesmo

(* The payments are written by an operator: none is newly approved for a   *)
(* link.                                                                   *)
LEMMA DonoOperador ==
  ASSUME LinkEsgotadoTemDono, UNCHANGED <<tarefas, links, abandonados>>,
         \A d \in Docs : pagamentos'[d] # Nenhum =>
           \/ /\ pagamentos[d] # Nenhum /\ pagamentos'[d].link = pagamentos[d].link
              /\ pagamentos'[d].aprovado = pagamentos[d].aprovado
           \/ pagamentos'[d].link = Nenhum
  PROVE  LinkEsgotadoTemDono'
<1>1. ASSUME NEW l \in Links, Esgotado(l)' PROVE Esgotado(l)
  <2>1. Aprovados(pagamentos', l) \subseteq Aprovados(pagamentos, l)
    BY CoberturaAssumption DEF Aprovados
  <2>2. QED
    BY <1>1, <2>1, EsgotadoAntes
<1>2. \A l \in Links, t \in Tarefas : Dono(t, l) => Dono(t, l)'
  BY DEF Dono, LinkDaTarefa
<1>3. QED
  BY <1>1, <1>2, DonoMesmo

(* The links change, a task may: no link is newly open.                    *)
LEMMA DonoTarefa ==
  ASSUME TypeOK, LinkEsgotadoTemDono, NEW t \in Tarefas, NEW x \in Tarefa,
         tarefas' = [tarefas EXCEPT ![t] = x], UNCHANGED pagamentos,
         \A l \in Links : links'[l] # Nenhum /\ links'[l].status = "aberto" =>
           links[l] # Nenhum /\ links[l].status = "aberto",
         abandonados \subseteq abandonados',
         \A l \in Links : Esgotado(l) /\ Esgotado(l)' /\ Dono(t, l) =>
           /\ x.fase # "livre" /\ LinkDo[x.pagamento] = l
           /\ x.fase \in {"fila", "buscou"} \/ x.aprovados >= Cota[l]
  PROVE  LinkEsgotadoTemDono'
<1>1. tarefas'[t] = x /\ \A u \in Tarefas : u # t => tarefas'[u] = tarefas[u]
  BY DEF TypeOK, TypeOKPagamento
<1>2. ASSUME NEW l \in Links, Esgotado(l)' PROVE Esgotado(l)
  BY <1>2, EsgotadoAntes
<1>3. ASSUME NEW l \in Links, Esgotado(l)', NEW u \in Tarefas, Dono(u, l) PROVE Dono(u, l)'
  <2>1. CASE u = t
    BY <1>1, <1>2, <1>3, <2>1 DEF Dono, LinkDaTarefa
  <2>2. CASE u # t
    BY <1>1, <1>3, <2>2 DEF Dono, LinkDaTarefa
  <2>3. QED
    BY <2>1, <2>2
<1>4. QED
  BY <1>2, <1>3, DonoMesmo

(* A notification starts: it takes no task away.                           *)
LEMMA DonoNotificar ==
  ASSUME TypeOK, LinkEsgotadoTemDono, NEW p \in Pagamentos, Notificar(p),
         UNCHANGED <<pagamentos, links, abandonados>>
  PROVE  LinkEsgotadoTemDono'
<1>1. PICK t \in Tarefas : tarefas[t] = Livre /\ tarefas' = [tarefas EXCEPT ![t] = NaFila(p)]
  BY DEF Notificar
<1>2. NaFila(p) \in Tarefa /\ \A l \in Links : ~Dono(t, l)
  BY <1>1 DEF NaFila, Tarefa, Dono, Livre
<1>3. QED
  BY <1>1, <1>2, DonoTarefa

(* A delivery is written: its link counts it, and its task knows.          *)
LEMMA DonoGrava ==
  ASSUME TipoInv, Ligacao, LinkEsgotadoTemDono, NEW t \in Tarefas,
         NEW p \in Pagamentos, p = tarefas[t].pagamento, NEW copia \in CopiaDoProvedor,
         pagamentos' = [pagamentos EXCEPT ![alvo(p)] = Escrito(p, copia)],
         Encaminhar(t, p, pagamentos'), UNCHANGED <<links, abandonados>>
  PROVE  LinkEsgotadoTemDono'
<1>1. PICK a \in DocumentosDe(p) : a = alvo(p)
  BY AlvoDocumento DEF TipoInv
<1>2. PICK x \in Tarefa :
        /\ tarefas' = [tarefas EXCEPT ![t] = x]
        /\ LinkDo[p] # Nenhum =>
             /\ x.fase = "fechar" /\ x.pagamento = p
             /\ x.aprovados = AprovadosDoLink(pagamentos', LinkDo[p])
  BY EncaminharEfeito DEF TipoInv
<1>3. /\ tarefas'[t] = x /\ \A u \in Tarefas : u # t => tarefas'[u] = tarefas[u]
      /\ a \in Docs /\ pagamentos'[a] = Escrito(p, copia)
      /\ \A d \in Docs \ {a} : pagamentos'[d] = pagamentos[d]
      /\ Escrito(p, copia).link = LinkDo[p]
  BY <1>1, <1>2, EscritoLink, PagamentoAssumption
     DEF TipoInv, TypeOK, TypeOKPagamento, DocumentosDe
<1>4. ASSUME NEW l \in Links, Esgotado(l)' PROVE \E u \in Tarefas : Dono(u, l)'
  <2>1. CASE l = LinkDo[p]
    <3>1. AprovadosDoLink(pagamentos', l) >= Cota[l]
      BY <1>4, EsgotadoDepois
    <3>2. x.fase = "fechar" /\ x.pagamento = p /\ x.aprovados >= Cota[l]
      BY <1>2, <2>1, <3>1, CoberturaAssumption
    <3>3. Dono(t, l)'
      BY <1>3, <2>1, <3>2 DEF Dono, LinkDaTarefa
    <3>4. QED
      BY <3>3
  <2>2. CASE l # LinkDo[p]
    <3>1. Aprovados(pagamentos', l) \subseteq Aprovados(pagamentos, l)
      BY <1>3, <2>2 DEF Aprovados
    <3>2. Esgotado(l)
      BY <1>4, <3>1, EsgotadoAntes
    <3>3. PICK u \in Tarefas : Dono(u, l)
      BY <3>2, DonoHavia
    <3>4. u # t
      BY <2>2, <3>3 DEF Dono, LinkDaTarefa
    <3>5. Dono(u, l)'
      BY <1>3, <3>3, <3>4 DEF Dono, LinkDaTarefa
    <3>6. QED
      BY <3>5
  <2>3. QED
    BY <2>1, <2>2
<1>5. QED
  BY <1>4, DonoInicia

(* A stale delivery counts at least what is stored.                        *)
LEMMA AtribuicaoConta ==
  ASSUME TypeOK, NEW p \in Pagamentos, LinkDo[p] # Nenhum
  PROVE  AprovadosDoLink(pagamentos, LinkDo[p]) <= AprovadosDoLink(ComAtribuicao(p), LinkDo[p])
<1>1. PICK a \in Docs : a = alvo(p)
  BY AlvoTipo
<1>2. /\ pagamentos \in [Docs -> Pagamento \cup {Nenhum}] /\ Nenhum \notin Pagamento
  BY CoberturaAssumption DEF TypeOK, TypeOKPagamento
<1>3. CASE pagamentos[a] # Nenhum /\ pagamentos[a].link = Nenhum
  <2> DEFINE novo == [pagamentos EXCEPT ![a].link = LinkDo[p]]
  <2>1. ComAtribuicao(p) = novo
    BY <1>1, <1>3 DEF ComAtribuicao
  <2>2. pagamentos[a] \in Pagamento
    BY <1>2, <1>3
  <2>3. /\ novo[a].link = LinkDo[p] /\ novo[a].aprovado = pagamentos[a].aprovado
        /\ \A d \in Docs \ {a} : novo[d] = pagamentos[d]
    BY <1>2, <2>2 DEF Pagamento
  <2>4. Aprovados(pagamentos, LinkDo[p]) \subseteq Aprovados(novo, LinkDo[p])
    <3> HIDE DEF novo
    <3> QED
      BY <1>3, <2>3 DEF Aprovados
  <2>5. QED
    BY <2>1, <2>4, AprovadosMonotono
<1>4. CASE ~(pagamentos[a] # Nenhum /\ pagamentos[a].link = Nenhum)
  <2>1. ComAtribuicao(p) = pagamentos
    BY <1>1, <1>4 DEF ComAtribuicao
  <2>2. QED
    BY <2>1, AprovadosMonotono
<1>5. QED
  BY <1>3, <1>4

(* A stale delivery still goes on to close its link.                       *)
LEMMA DonoObsoleta ==
  ASSUME TipoInv, LinkEsgotadoTemDono, NEW t \in Tarefas,
         NEW p \in Pagamentos, p = tarefas[t].pagamento,
         Encaminhar(t, p, ComAtribuicao(p)), UNCHANGED <<pagamentos, links, abandonados>>
  PROVE  LinkEsgotadoTemDono'
<1>1. PICK x \in Tarefa :
        /\ tarefas' = [tarefas EXCEPT ![t] = x]
        /\ LinkDo[p] # Nenhum =>
             /\ x.fase = "fechar" /\ x.pagamento = p
             /\ x.aprovados = AprovadosDoLink(ComAtribuicao(p), LinkDo[p])
  BY EncaminharEfeito DEF TipoInv
<1>2. ASSUME NEW l \in Links, Esgotado(l), Dono(t, l)
      PROVE  /\ x.fase # "livre" /\ LinkDo[x.pagamento] = l
             /\ x.fase \in {"fila", "buscou"} \/ x.aprovados >= Cota[l]
  <2>1. l = LinkDo[p] /\ l # Nenhum
    BY <1>2, CoberturaAssumption DEF Dono, LinkDaTarefa
  <2>2. /\ AprovadosDoLink(pagamentos, l) >= Cota[l]
        /\ AprovadosDoLink(pagamentos, l) <= AprovadosDoLink(ComAtribuicao(p), l)
        /\ AprovadosDoLink(pagamentos, l) \in Nat
        /\ AprovadosDoLink(ComAtribuicao(p), l) \in Nat /\ Cota[l] \in Nat
    BY <1>2, <2>1, AtribuicaoConta, AprovadosConta, CoberturaAssumption DEF Esgotado, TipoInv
  <2>3. QED
    BY <1>1, <2>1, <2>2
<1>3. QED
  BY <1>1, <1>2, DonoTarefa DEF TipoInv

(* A batch is stored: no payment came through its links yet.               *)
LEMMA DonoGravar ==
  ASSUME TipoInv, Ligacao, LinkEsgotadoTemDono, NEW r \in Requisicoes, GravarLinks(r),
         UNCHANGED <<tarefas, pagamentos, abandonados>>
  PROVE  LinkEsgotadoTemDono'
<1>1. /\ Lote[r] \subseteq Links /\ Lote[r] \cap Guardados = {}
      /\ \A l \in Links \ Lote[r] : links'[l] = links[l]
  BY GravarEfeito DEF TipoInv
<1>2. ASSUME NEW l \in Links, Esgotado(l)' PROVE Esgotado(l)
  <2>1. CASE l \in Lote[r]
    <3>1. Aprovados(pagamentos, l) = {}
      BY <1>1, <2>1, CoberturaAssumption DEF Aprovados, Ligacao
    <3>2. AprovadosDoLink(pagamentos, l) = 0 /\ Cota[l] \in Nat \ {0}
      BY <3>1, SemAprovados, CoberturaAssumption
    <3>3. QED
      BY <1>2, <3>2, EsgotadoDepois
  <2>2. CASE l \notin Lote[r]
    BY <1>1, <1>2, <2>2, EsgotadoAntes
  <2>3. QED
    BY <2>1, <2>2
<1>3. \A l \in Links, t \in Tarefas : Dono(t, l) => Dono(t, l)'
  BY DEF Dono, LinkDaTarefa
<1>4. QED
  BY <1>2, <1>3, DonoMesmo

(* Every step keeps a task for a spent link.                               *)
LEMMA DonoPasso ==
  ASSUME TipoInv, Ligacao, LinkEsgotadoTemDono, [Next]_vars
  PROVE  LinkEsgotadoTemDono'
<1>1. ASSUME NEW p \in Pagamentos, PagarLink(p)
      PROVE  LinkEsgotadoTemDono'
  <2>1. Notificar(p) /\ UNCHANGED <<pagamentos, links, abandonados>>
    BY TipoInv, <1>1, PagarEfeito DEF TipoInv, varsLink
  <2>2. QED
    BY TipoInv, LinkEsgotadoTemDono, <2>1, DonoNotificar DEF TipoInv
<1>2. ASSUME NEW p \in Pagamentos, ProvedorMuda(p), UNCHANGED varsLink
      PROVE  LinkEsgotadoTemDono'
  <2>1. Notificar(p) /\ UNCHANGED <<pagamentos, links, abandonados>>
    BY <1>2 DEF ProvedorMuda, varsLink
  <2>2. QED
    BY TipoInv, LinkEsgotadoTemDono, <2>1, DonoNotificar DEF TipoInv
<1>3. ASSUME NEW p \in Pagamentos, Reentregar(p), UNCHANGED varsLink
      PROVE  LinkEsgotadoTemDono'
  <2>1. Notificar(p) /\ UNCHANGED <<pagamentos, links, abandonados>>
    BY <1>3 DEF Reentregar, varsLink
  <2>2. QED
    BY TipoInv, LinkEsgotadoTemDono, <2>1, DonoNotificar DEF TipoInv
<1>4. ASSUME NEW t \in Tarefas, fetchPayment(t), UNCHANGED varsLink
      PROVE  LinkEsgotadoTemDono'
  <2>1. PICK x \in Tarefa :
          /\ tarefas' = [tarefas EXCEPT ![t] = x]
          /\ x.fase = "buscou" /\ x.pagamento = tarefas[t].pagamento
    BY TipoInv, <1>4, TarefaEfeito
  <2>2. UNCHANGED <<pagamentos, links, abandonados>>
    BY <1>4 DEF fetchPayment, varsLink
  <2>3. \A l \in Links : Dono(t, l) => x.fase = "buscou" /\ LinkDo[x.pagamento] = l
    BY <2>1 DEF Dono, LinkDaTarefa
  <2>4. QED
    BY TipoInv, LinkEsgotadoTemDono, <2>1, <2>2, <2>3, DonoTarefa DEF TipoInv
<1>5. ASSUME NEW t \in Tarefas, reconcilePedidoFromPagamento(t, links, vencidos), UNCHANGED varsLink
      PROVE  LinkEsgotadoTemDono'
  <2> DEFINE copia == tarefas[t].copia
  <2>1. PICK p \in Pagamentos :
          /\ p = tarefas[t].pagamento /\ copia \in CopiaDoProvedor
          /\ reconcileObsoleta(t, p, copia) \/ reconcileGrava(t, p, copia)
    BY TipoInv, <1>5, ReconcileEfeito
  <2>2. UNCHANGED <<links, abandonados>>
    BY <1>5 DEF varsLink
  <2> HIDE DEF copia
  <2>3. CASE reconcileObsoleta(t, p, copia)
    BY TipoInv, LinkEsgotadoTemDono, <2>1, <2>2, <2>3, DonoObsoleta DEF reconcileObsoleta
  <2>4. CASE reconcileGrava(t, p, copia)
    BY TipoInv, Ligacao, LinkEsgotadoTemDono, <2>1, <2>2, <2>4, DonoGrava DEF reconcileGrava
  <2>5. QED
    BY <2>1, <2>3, <2>4
<1>6. ASSUME NEW t \in Tarefas, encerrarLinkSeCompleto(t)
      PROVE  LinkEsgotadoTemDono'
  <2>1. PICK x \in Tarefa :
          /\ tarefas' = [tarefas EXCEPT ![t] = x] /\ tarefas[t].fase = "fechar"
          /\ IF /\ LinkDaTarefa(t) \in Guardados
                /\ links[LinkDaTarefa(t)].status = "aberto"
                /\ tarefas[t].aprovados >= Cota[LinkDaTarefa(t)]
               THEN /\ x.fase = "expirar" /\ x.pagamento = tarefas[t].pagamento
                    /\ x.aprovados = tarefas[t].aprovados
               ELSE x = Livre
    BY TipoInv, <1>6, TarefaEfeito
  <2>2. UNCHANGED <<pagamentos, links, abandonados>>
    BY <1>6 DEF encerrarLinkSeCompleto, PagamentoParado, DemaisLinks
  <2>3. \A l \in Links : Esgotado(l) /\ Dono(t, l) =>
          /\ x.fase # "livre" /\ LinkDo[x.pagamento] = l /\ x.aprovados >= Cota[l]
    BY <2>1 DEF Esgotado, Dono, LinkDaTarefa
  <2>4. QED
    BY TipoInv, LinkEsgotadoTemDono, <2>1, <2>2, <2>3, DonoTarefa DEF TipoInv
<1>7. ASSUME NEW t \in Tarefas, ExpirarParaFechar(t)
      PROVE  LinkEsgotadoTemDono'
  <2>1. PICK x \in Tarefa :
          /\ tarefas' = [tarefas EXCEPT ![t] = x] /\ tarefas[t].fase = "expirar"
          /\ x.fase = "marcar" /\ x.pagamento = tarefas[t].pagamento
          /\ x.aprovados = tarefas[t].aprovados
    BY TipoInv, <1>7, TarefaEfeito
  <2>2. UNCHANGED <<pagamentos, links, abandonados>>
    BY <1>7 DEF ExpirarParaFechar, PagamentoParado, DemaisLinks
  <2>3. \A l \in Links : Dono(t, l) => LinkDo[x.pagamento] = l /\ x.aprovados >= Cota[l]
    BY <2>1 DEF Dono, LinkDaTarefa
  <2>4. QED
    BY TipoInv, LinkEsgotadoTemDono, <2>1, <2>2, <2>3, DonoTarefa DEF TipoInv
<1>8. ASSUME NEW t \in Tarefas, MarcarConcluido(t)
      PROVE  LinkEsgotadoTemDono'
  <2>1. PICK l \in Guardados :
          /\ l = LinkDaTarefa(t)
          /\ tarefas' = [tarefas EXCEPT ![t] = Livre]
          /\ tarefas[t].erro \in BOOLEAN
          /\ marcarLinkTerminal(l, "concluido", tarefas[t].erro)
    BY TipoInv, <1>8, TarefaEfeito
  <2>2. UNCHANGED <<pagamentos, abandonados>> /\ Livre \in Tarefa
    BY <1>8 DEF MarcarConcluido, PagamentoParado, DemaisLinks, Livre, Tarefa
  <2>3. /\ \A k \in Links : (links'[k] = Nenhum) <=> (links[k] = Nenhum)
        /\ \A k \in Links : k # l => links'[k] = links[k]
        /\ links'[l].status # "aberto"
    BY TipoInv, <2>1, MarcarEfeito DEF TipoInv, StatusLinkPagamento
  <2>4. \A k \in Links : ~(Esgotado(k)' /\ Dono(t, k))
    BY <2>1, <2>3 DEF Esgotado, Dono
  <2>5. QED
    BY TipoInv, LinkEsgotadoTemDono, <2>1, <2>2, <2>3, <2>4, DonoTarefa DEF TipoInv
<1>9. ASSUME NEW t \in Tarefas, Falhar(t)
      PROVE  LinkEsgotadoTemDono'
  <2>1. PICK x \in Tarefa :
          /\ tarefas' = [tarefas EXCEPT ![t] = x]
          /\ \/ /\ x.fase = "fila" /\ x.pagamento = tarefas[t].pagamento
                /\ UNCHANGED abandonados
             \/ abandonados' = abandonados \cup ({LinkDaTarefa(t)} \ {Nenhum})
    BY TipoInv, <1>9, TarefaEfeito
  <2>2. UNCHANGED <<pagamentos, links>>
    BY <1>9 DEF Falhar
  <2>3. \A l \in Links : Esgotado(l)' /\ Dono(t, l) =>
          x.fase = "fila" /\ LinkDo[x.pagamento] = l
    BY <2>1, CoberturaAssumption DEF Esgotado, Dono, LinkDaTarefa
  <2>4. QED
    BY TipoInv, LinkEsgotadoTemDono, <2>1, <2>2, <2>3, DonoTarefa DEF TipoInv
<1>10. ASSUME CriarPagamentos, UNCHANGED varsLink
      PROVE  LinkEsgotadoTemDono'
  <2>1. PICK novos \in SUBSET {d \in Manuais : pagamentos[d] = Nenhum}, edicao \in Edicoes :
          pagamentos' = [d \in Docs |-> IF d \in novos THEN DoOperador(edicao) ELSE pagamentos[d]]
    BY <1>10 DEF CriarPagamentos, Registrar
  <2>2. UNCHANGED <<tarefas, links, abandonados>>
    BY <1>10 DEF CriarPagamentos, Registrar, varsLink
  <2>3. \A d \in Docs : pagamentos'[d] = pagamentos[d] \/ pagamentos'[d].link = Nenhum
    BY <2>1 DEF DoOperador
  <2>4. QED
    BY LinkEsgotadoTemDono, <2>2, <2>3, DonoOperador
<1>11. ASSUME NEW d \in Docs, savePagamento(d), UNCHANGED varsLink
      PROVE  LinkEsgotadoTemDono'
  <2>1. PICK edicao \in Edicoes :
          pagamentos' = [pagamentos EXCEPT ![d].valor = edicao[1], ![d].status = edicao[2],
                                           ![d].creditoLoja = edicao[3]]
    BY <1>11 DEF savePagamento, Registrar
  <2>2. pagamentos[d] # Nenhum /\ UNCHANGED <<tarefas, links, abandonados>>
    BY <1>11 DEF savePagamento, Registrar, varsLink
  <2>3. pagamentos \in [Docs -> Pagamento \cup {Nenhum}] /\ pagamentos[d] \in Pagamento
    BY TipoInv, <2>2 DEF TipoInv, TypeOK, TypeOKPagamento
  <2>4. /\ \A e \in Docs \ {d} : pagamentos'[e] = pagamentos[e]
        /\ pagamentos'[d].link = pagamentos[d].link
        /\ pagamentos'[d].aprovado = pagamentos[d].aprovado
    BY <2>1, <2>3 DEF Pagamento
  <2>5. QED
    BY LinkEsgotadoTemDono, <2>2, <2>4, DonoOperador
<1>12. ASSUME NEW d \in Docs, deletePagamento(d), UNCHANGED varsLink
      PROVE  LinkEsgotadoTemDono'
  <2>1. /\ pagamentos' = [pagamentos EXCEPT ![d] = Nenhum]
        /\ UNCHANGED <<tarefas, links, abandonados>>
    BY <1>12 DEF deletePagamento, Registrar, varsLink
  <2>2. \A e \in Docs : pagamentos'[e] = pagamentos[e] \/ pagamentos'[e] = Nenhum
    BY TipoInv, <2>1 DEF TipoInv, TypeOK, TypeOKPagamento
  <2>3. QED
    BY LinkEsgotadoTemDono, <2>1, <2>2, DonoOperador
<1>13. ASSUME AbrirEditor, UNCHANGED varsLink
      PROVE  LinkEsgotadoTemDono'
  BY LinkEsgotadoTemDono, <1>13, DonoParado DEF AbrirEditor, varsLink
<1>14. ASSUME savePedido, UNCHANGED varsLink
      PROVE  LinkEsgotadoTemDono'
  BY LinkEsgotadoTemDono, <1>14, DonoParado DEF savePedido, varsLink
<1>15. ASSUME MudarEstado, UNCHANGED varsLink
      PROVE  LinkEsgotadoTemDono'
  BY LinkEsgotadoTemDono, <1>15, DonoParado DEF MudarEstado, varsLink
<1>16. ASSUME Embalar, UNCHANGED varsLink
      PROVE  LinkEsgotadoTemDono'
  BY LinkEsgotadoTemDono, <1>16, DonoParado DEF Embalar, varsLink
<1>17. ASSUME NEW o \in {"pagamento", "total"}, reconcilePedidoEstado(o), UNCHANGED varsLink
      PROVE  LinkEsgotadoTemDono'
  BY LinkEsgotadoTemDono, <1>17, DonoParado DEF reconcilePedidoEstado, varsLink
<1>18. ASSUME NEW o \in {"pagamento", "total"}, PerderChamada(o), UNCHANGED varsLink
      PROVE  LinkEsgotadoTemDono'
  BY LinkEsgotadoTemDono, <1>18, DonoParado DEF PerderChamada, varsLink
<1>19. ASSUME NEW r \in Requisicoes, criarLinks(r)
      PROVE  LinkEsgotadoTemDono'
  BY LinkEsgotadoTemDono, <1>19, DonoParado DEF criarLinks
<1>20. ASSUME NEW r \in Requisicoes, createPreference(r)
      PROVE  LinkEsgotadoTemDono'
  BY LinkEsgotadoTemDono, <1>20, DonoParado DEF createPreference, PagamentoParado, CriacaoSo
<1>21. ASSUME NEW r \in Requisicoes, createPreferenceFalha(r)
      PROVE  LinkEsgotadoTemDono'
  BY LinkEsgotadoTemDono, <1>21, DonoParado DEF createPreferenceFalha, Ir, PagamentoParado,
     CriacaoSo
<1>22. ASSUME NEW r \in Requisicoes, persistirLinks(r)
      PROVE  LinkEsgotadoTemDono'
  <2>1. /\ GravarLinks(r) \/ UNCHANGED links
        /\ UNCHANGED <<tarefas, pagamentos, abandonados>>
    BY <1>22 DEF persistirLinks
  <2>2. QED
    BY TipoInv, Ligacao, LinkEsgotadoTemDono, <2>1, DonoGravar, DonoParado
<1>23. ASSUME NEW r \in Requisicoes, lerLinksSolicitados(r)
      PROVE  LinkEsgotadoTemDono'
  BY LinkEsgotadoTemDono, <1>23, DonoParado DEF lerLinksSolicitados, Ir, PagamentoParado,
     CriacaoSo
<1>24. ASSUME NEW r \in Requisicoes, expirarPreferencias(r)
      PROVE  LinkEsgotadoTemDono'
  BY LinkEsgotadoTemDono, <1>24, DonoParado DEF expirarPreferencias, Ir, PagamentoParado,
     CriacaoSo
<1>25. ASSUME NEW r \in Requisicoes, MorrerCriacao(r)
      PROVE  LinkEsgotadoTemDono'
  BY LinkEsgotadoTemDono, <1>25, DonoParado DEF MorrerCriacao, Ir, PagamentoParado,
     CriacaoSo
<1>26. ASSUME NEW l \in Links, cancelarLink(l)
      PROVE  LinkEsgotadoTemDono'
  BY LinkEsgotadoTemDono, <1>26, DonoParado DEF cancelarLink
<1>27. ASSUME NEW l \in Links, ExpirarParaCancelar(l)
      PROVE  LinkEsgotadoTemDono'
  BY LinkEsgotadoTemDono, <1>27, DonoParado DEF ExpirarParaCancelar, Expirada,
     PagamentoParado, CancelamentoSo
<1>28. ASSUME NEW l \in Links, MarcarCancelado(l)
      PROVE  LinkEsgotadoTemDono'
  <2>1. /\ l \in Guardados
        /\ marcarLinkTerminal(l, "cancelado", FALSE) \/ UNCHANGED links
        /\ UNCHANGED <<tarefas, pagamentos, abandonados>>
    BY TipoInv, <1>28 DEF MarcarCancelado, CancelamentoSo, PagamentoParado, TipoInv, EmMaos
  <2>2. \A k \in Links : links'[k] # Nenhum /\ links'[k].status = "aberto" =>
          links[k] # Nenhum /\ links[k].status = "aberto"
    <3>1. CASE UNCHANGED links
      BY <3>1
    <3>2. CASE marcarLinkTerminal(l, "cancelado", FALSE)
      <4>1. /\ \A k \in Links : (links'[k] = Nenhum) <=> (links[k] = Nenhum)
            /\ \A k \in Links : k # l => links'[k] = links[k]
            /\ links'[l].status # "aberto"
        BY TipoInv, <2>1, <3>2, MarcarEfeito DEF TipoInv, StatusLinkPagamento
      <4>2. QED
        BY <4>1
    <3>3. QED
      BY <2>1, <3>1, <3>2
  <2>3. \A k \in Links : Esgotado(k)' => Esgotado(k)
    BY <2>1, <2>2, EsgotadoAntes
  <2>4. \A k \in Links, t \in Tarefas : Dono(t, k) => Dono(t, k)'
    BY <2>1 DEF Dono, LinkDaTarefa
  <2>5. QED
    BY LinkEsgotadoTemDono, <2>3, <2>4, DonoMesmo
<1>29. ASSUME NEW l \in Links, Vencer(l)
      PROVE  LinkEsgotadoTemDono'
  BY LinkEsgotadoTemDono, <1>29, DonoParado DEF Vencer
<1>30. ASSUME UNCHANGED vars
      PROVE  LinkEsgotadoTemDono'
  BY LinkEsgotadoTemDono, <1>30, DonoParado DEF vars, varsLink, varsPagamento
<1>31. QED
  BY <1>1, <1>2, <1>3, <1>4, <1>5, <1>6, <1>7, <1>8, <1>9, <1>10, <1>11, <1>12, <1>13,
     <1>14, <1>15, <1>16, <1>17, <1>18, <1>19, <1>20, <1>21, <1>22, <1>23, <1>24, <1>25,
     <1>26, <1>27, <1>28, <1>29, <1>30 DEF Next, Notificacao, Operador, Criar

-----------------------------------------------------------------------------
(* The program starts.                                                     *)

LEMMA AbertoTipo ==
  ASSUME NEW r \in Requisicoes \cup {Stored}, NEW l \in Links
  PROVE  /\ Aberto(r, l) \in Link /\ Aberto(r, l) # Nenhum
         /\ Aberto(r, l).preferencia = <<r, l>> /\ Aberto(r, l).status = "aberto"
<1>1. Aberto(r, l) \in Link
  BY DEF Aberto, Link, StatusLinkPagamento, Preferencias
<1>2. Aberto(r, l).preferencia = <<r, l>> /\ Aberto(r, l).status = "aberto"
  BY DEF Aberto
<1>3. QED
  BY <1>1, <1>2, LinkAssumption

LEMMA InicioTipo ==
  ASSUME Init
  PROVE  TipoInv
<1>1. PICK i \in Inicios :
        /\ InitPagamento(i)
        /\ links = [l \in Links |-> IF l \in i.links THEN Aberto(Stored, l) ELSE Nenhum]
        /\ pagaveis = {<<Stored, l>> : l \in i.links}
  BY DEF Init
<1>2. i \in Inicio
  BY PagamentoAssumption
<1>3. /\ i.pedido \in Pedido /\ i.sobra \in [Eventos -> Nat] /\ i.legados \subseteq Pagamentos
      /\ i.status \in {"pendente", "aprovado"} /\ i.links \subseteq Links
  BY <1>2 DEF Inicio
<1>4. provedor \in [Pagamentos -> CopiaDoProvedor \cup {Nenhum}]
  BY <1>1 DEF InitPagamento, CopiaDoProvedor, StatusPagamento, STATUS_EM_TRANSITO
<1>5. \A p \in Pagamentos : DocLegado(p, i.status) \in Pagamento
  BY <1>3, PagamentoAssumption DEF DocLegado, Pagamento, StatusPagamento, STATUS_EM_TRANSITO
<1>6. \A d \in Docs : (\E p \in i.legados : LegadoDe[p] = d) =>
        (CHOOSE p \in i.legados : LegadoDe[p] = d) \in Pagamentos
  BY <1>3
<1>7. pagamentos \in [Docs -> Pagamento \cup {Nenhum}]
  BY <1>1, <1>5, <1>6 DEF InitPagamento
<1>8. \A l \in Links : Aberto(Stored, l) \in Link
  BY AbertoTipo
<1>9. links \in [Links -> Link \cup {Nenhum}] /\ pagaveis \subseteq Preferencias
  BY <1>1, <1>3, <1>8 DEF Preferencias
<1>10. criacoes \in [Requisicoes -> Criacao]
  BY DEF Init, Criacao
<1>11. /\ tarefas \in [Tarefas -> Tarefa] /\ pedido \in Pedido /\ editor \in BOOLEAN
       /\ chamadas \subseteq {"pagamento", "total"} /\ sobra \in [Eventos -> Nat]
       /\ entregues \subseteq Pagamentos /\ mexidos \subseteq Pagamentos
       /\ empatados \subseteq Pagamentos
  BY <1>1, <1>3 DEF InitPagamento, Tarefa, Livre
<1>12. pendente \in BOOLEAN
  BY <1>1 DEF InitPagamento, Diverge, DivergeCom
<1>13. surpresa \in BOOLEAN
  BY DEF Init
<1>14. TypeOK
  BY <1>4, <1>7, <1>9, <1>10, <1>11, <1>12, <1>13 DEF Init, TypeOK, TypeOKPagamento
<1>15. EmMaos
  BY <1>1 DEF Init, InitPagamento, Livre, EmMaos
<1>16. QED
  BY <1>14, <1>15 DEF TipoInv

(* At the start every link is open and payable.                            *)
LEMMA InicioLinks ==
  ASSUME Init
  PROVE  LinksInv /\ Fecho
<1>1. PICK i \in Inicios :
        /\ InitPagamento(i)
        /\ links = [l \in Links |-> IF l \in i.links THEN Aberto(Stored, l) ELSE Nenhum]
        /\ pagaveis = {<<Stored, l>> : l \in i.links}
  BY DEF Init
<1>2. i.links \subseteq Links
  BY PagamentoAssumption DEF Inicio
<1>3. /\ \A l \in Links : Aberto(Stored, l) # Nenhum
      /\ \A l \in Links : /\ Aberto(Stored, l).preferencia = <<Stored, l>>
                          /\ Aberto(Stored, l).status = "aberto"
  BY AbertoTipo
<1>4. /\ \A l \in Guardados : /\ links[l].preferencia = <<Stored, l>>
                              /\ links[l].status = "aberto" /\ l \in i.links
      /\ Guardados \subseteq Links
  BY <1>1, <1>3 DEF Guardados
<1>5. PreferenciaPropria
  BY <1>4 DEF PreferenciaPropria
<1>6. ASSUME NEW r \in Requisicoes PROVE CriacaoInv(r)
  <2>1. /\ criacoes[r].fase = "nada" /\ criacoes[r].criadas = {} /\ criacoes[r].sobras = {}
        /\ r # Stored
    BY LinkAssumption DEF Init
  <2>2. \A l \in Links : ~Carrega(l, r)
    BY <1>4, <2>1 DEF Carrega
  <2>3. QED
    BY <2>1, <2>2 DEF CriacaoInv
<1>7. LinkFechadoNaoCobra /\ LinkAbertoVivo
  BY <1>1, <1>4 DEF LinkFechadoNaoCobra, LinkAbertoVivo
<1>8. QED
  BY <1>1, <1>5, <1>6, <1>7 DEF Init, InitPagamento, Livre, LinksInv, Fecho

LEMMA InicioSoma ==
  ASSUME Init
  PROVE  EstadoSegueSoma
  BY DEF Init, InitPagamento, EstadoSegueSoma

(* What the former program left: documents of their own, without a clock   *)
(* and without a link.                                                     *)
LEMMA InicioDocumentos ==
  ASSUME Init
  PROVE  /\ \A d \in Docs : pagamentos[d] # Nenhum =>
              /\ d \in Legados /\ pagamentos[d].relogio = Nenhum /\ pagamentos[d].link = Nenhum
         /\ \A p \in Pagamentos : provedor[p] # Nenhum => LinkDo[p] \in Guardados \cup {Nenhum}
         /\ entregues = {} /\ \A t \in Tarefas : tarefas[t] = Livre
<1>1. PICK i \in Inicios :
        /\ InitPagamento(i)
        /\ links = [l \in Links |-> IF l \in i.links THEN Aberto(Stored, l) ELSE Nenhum]
  BY DEF Init
<1>2. i.links \subseteq Links /\ i.legados \subseteq Pagamentos
  BY PagamentoAssumption DEF Inicio
<1>3. ASSUME NEW d \in Docs, pagamentos[d] # Nenhum
      PROVE  d \in Legados /\ pagamentos[d].relogio = Nenhum /\ pagamentos[d].link = Nenhum
  <2>1. PICK p \in i.legados : LegadoDe[p] = d
    BY <1>1, <1>3 DEF InitPagamento
  <2>2. d \in Legados
    BY <1>2, <2>1, PagamentoAssumption
  <2>3. pagamentos[d] = DocLegado(CHOOSE q \in i.legados : LegadoDe[q] = d, i.status)
    BY <1>1, <2>1 DEF InitPagamento
  <2>4. QED
    BY <2>2, <2>3 DEF DocLegado
<1>4. ASSUME NEW p \in Pagamentos, provedor[p] # Nenhum
      PROVE  LinkDo[p] \in Guardados \cup {Nenhum}
  <2>1. p \in i.legados
    BY <1>1, <1>4 DEF InitPagamento
  <2>2. LinkDo[p] \in i.links \cup {Nenhum}
    BY <2>1, LinkAssumption
  <2>3. \A l \in i.links : links[l] # Nenhum
    BY <1>1, <1>2, AbertoTipo
  <2>4. QED
    BY <1>2, <2>2, <2>3 DEF Guardados
<1>5. QED
  BY <1>1, <1>3, <1>4 DEF InitPagamento

(* At the start nothing was delivered through this program.                *)
LEMMA InicioEspelho ==
  ASSUME Init
  PROVE  Espelho /\ Ligacao /\ LinkEsgotadoTemDono
<1>1. ASSUME NEW p \in Pagamentos PROVE EspelhoDe(p)
  <2>1. p \in Docs /\ p \notin Legados /\ DocumentosDe(p) \subseteq Docs
    BY PagamentoAssumption DEF DocumentosDe
  <2>2. UmDocumento(p)
    BY <2>1, InicioDocumentos DEF UmDocumento
  <2>3. \A d \in DocumentosDe(p) : DocumentoSegue(p, d)
    BY <2>1, InicioDocumentos DEF DocumentoSegue
  <2>4. QED
    BY <2>2, <2>3, InicioDocumentos DEF EspelhoDe
<1>2. \A t \in Tarefas : CopiaFresca(t)
  BY InicioDocumentos DEF CopiaFresca, Livre
<1>3. Ligacao
  BY InicioDocumentos, PagamentoAssumption DEF Ligacao, DocumentosDe
<1>4. ASSUME NEW l \in Links PROVE ~Esgotado(l)
  <2>1. Aprovados(pagamentos, l) = {}
    BY InicioDocumentos, CoberturaAssumption DEF Aprovados
  <2>2. AprovadosDoLink(pagamentos, l) = 0 /\ Cota[l] \in Nat \ {0}
    BY <2>1, SemAprovados, CoberturaAssumption
  <2>3. QED
    BY <2>2 DEF Esgotado
<1>5. LinkEsgotadoTemDono
  BY <1>4 DEF LinkEsgotadoTemDono, Esgotado, Guardados
<1>6. QED
  BY <1>1, <1>2, <1>3, <1>5 DEF Espelho

-----------------------------------------------------------------------------
(* The theorems.                                                           *)

Inv ==
  TipoInv /\ LinksInv /\ Fecho /\ EstadoSegueSoma /\ Espelho /\ Ligacao /\ LinkEsgotadoTemDono

(* The invariant of the payments and their links: it holds of what the     *)
(* program may find, and every step of the provider, of a notification, of *)
(* a request for links and of an operator keeps it.                        *)
THEOREM Invariante == Spec => []Inv
<1>1. Init => Inv
  BY InicioTipo, InicioLinks, InicioSoma, InicioEspelho DEF Inv
<1>2. Inv /\ [Next]_vars => Inv'
  BY TypePasso, EmMaosPasso, LinksPasso, FechoPasso, SomaPasso, EspelhoPasso, LigacaoPasso,
     DonoPasso DEF Inv, TipoInv
<1>3. QED
  BY <1>1, <1>2, PTL DEF Spec

(* The variables keep their types in every run.                            *)
THEOREM Tipos == Spec => []TypeOK
<1>1. Inv => TypeOK
  BY DEF Inv, TipoInv
<1>2. QED
  BY <1>1, Invariante, PTL

(* A payment whose present state was reconciled has one document, and it   *)
(* says what the provider says, however deliveries are repeated, reordered *)
(* and crossed.                                                            *)
THEOREM SegueProvedor == Spec => []PagamentoSegueProvedor
<1>1. Inv => PagamentoSegueProvedor
  BY EspelhoMostra DEF Inv, TipoInv
<1>2. QED
  BY <1>1, Invariante, PTL

(* The estado is the one the stored payments give the pedido, or somebody  *)
(* is on the way to put it there.                                          *)
THEOREM SegueSoma == Spec => []EstadoSegueSoma
<1>1. Inv => EstadoSegueSoma
  BY DEF Inv
<1>2. QED
  BY <1>1, Invariante, PTL

(* An open link whose quota is spent has a notification that will close it. *)
THEOREM EsgotadoTemDono == Spec => []LinkEsgotadoTemDono
<1>1. Inv => LinkEsgotadoTemDono
  BY DEF Inv
<1>2. QED
  BY <1>1, Invariante, PTL

(* A link that is marked closed without an error cannot be paid.           *)
THEOREM FechadoNaoCobra == Spec => []LinkFechadoNaoCobra
<1>1. Inv => LinkFechadoNaoCobra
  BY DEF Inv, Fecho
<1>2. QED
  BY <1>1, Invariante, PTL

(* An open link can be paid: no request expires what a stored link carries. *)
THEOREM AbertoVivo == Spec => []LinkAbertoVivo
<1>1. Inv => LinkAbertoVivo
  BY DEF Inv, Fecho
<1>2. QED
  BY <1>1, Invariante, PTL

=============================================================================
