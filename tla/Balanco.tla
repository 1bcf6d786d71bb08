------------------------------- MODULE Balanco -------------------------------
(***************************************************************************)
(* The finalize job of one balanço (a stock count of one depósito).        *)
(*                                                                         *)
(* The callable finalizarBalanco takes a workflow lock on the balanço      *)
(* document and enqueues a task; the task worker processarBalanco freezes  *)
(* the counted totals into report shards and then applies them to stock,   *)
(* chunk by chunk, keeping its checkpoint in the balanço document.  A      *)
(* dispatch may fail at any of its calls, die without a word, be retried   *)
(* by the queue, or stop at its time budget and enqueue a continuation.    *)
(* Counting screens and the other writers of the stock run meanwhile.      *)
(***************************************************************************)
EXTENDS Integers, FiniteSets, SomaFinita

CONSTANTS
  Produtos,         \* produto ids; their order is the shards' order
  Kits,             \* the produtos with ehKit
  ComExtras,        \* produtos with an estoque document of another id here
  Lancamentos,      \* movimentos of the balanço
  Lancado,          \* of each one, the produto and the units counted
  Operadores,       \* who may press Finalizar
  Tarefas,          \* bound: tasks of the queue at one time
  Movimentos,       \* <<produto, delta>> of the other writers of stock
  MaxMovimentos,    \* bound: movements by other writers in a behaviour
  EstoquesIniciais,
  RELATORIO_BALANCO_SHARD_SIZE,
  PRODUTOS_POR_TRANSACAO,
  BALANCO_MAX_ATTEMPTS,
  TelaAtrasada,     \* whether a screen may count after the lock is taken
  PodeFalhar,       \* whether a call of the worker or of the enqueue may fail
  PodeMorrer,       \* whether a process may die without a word
  Nenhum            \* null: no document, no field, no worker

Contador == [quantidade: Int, quantidadeReservada: Int]

(* The movimento and movimentoReservada of a historicoEstoque row. *)
LinhaRazao == [movimento: Int, movimentoReservada: Int]

SemMovimento == [movimento |-> 0, movimentoReservada |-> 0]

ASSUME BalancoAssumption ==
  /\ Produtos \subseteq Nat /\ IsFiniteSet(Produtos)
  /\ Kits \subseteq Produtos /\ ComExtras \subseteq Produtos
  /\ IsFiniteSet(Lancamentos)
  /\ Lancado \in [Lancamentos -> [produto: Produtos, quantidade: Int]]
  /\ Movimentos \subseteq Produtos \X Contador
  /\ MaxMovimentos \in Nat
  /\ EstoquesIniciais \in [Produtos -> Contador \cup {Nenhum}]
  /\ RELATORIO_BALANCO_SHARD_SIZE \in Nat \ {0}
  /\ PRODUTOS_POR_TRANSACAO \in Nat \ {0}
  /\ BALANCO_MAX_ATTEMPTS \in Nat \ {0}
  /\ TelaAtrasada \in BOOLEAN /\ PodeFalhar \in BOOLEAN /\ PodeMorrer \in BOOLEAN
  /\ Nenhum \notin Int /\ Nenhum \notin Contador /\ Nenhum \notin LinhaRazao
  /\ Nenhum \notin {"finalizando", "finalizado", "erro"}

VARIABLES
  balanco,      \* balanco/{id}: the workflow state and the checkpoint
  lancamentos,  \* whether each movimento is missing, valid or cancelled
  relatorios,   \* balanco/{id}/relatorios/{shard}: produto -> line
  estoques,     \* the canonical estoque document of each produto, or Nenhum
  historicos,   \* the row balanco-<id> of each produto's ledger, or Nenhum
  outros,       \* sums over the other rows of each produto's ledger
  tarefas,      \* the retryCount of each task of the queue, or Nenhum
  chamadas,     \* where each operator's callable is
  obra,         \* the dispatch that runs (maxConcurrentDispatches 1) or Nenhum
  movidos,      \* ghost: movements by other writers so far
  perdido       \* ghost: since the lock, somebody gave up without parking

vars == <<balanco, lancamentos, relatorios, estoques, historicos, outros,
          tarefas, chamadas, obra, movidos, perdido>>

EstadoBalanco == {"finalizando", "finalizado", "erro"}

(* An open balanço stores estado null; finalizado says that dataFinalizado *)
(* was stamped.  The other fields are those of finalizacao.                *)
BalancoDoc ==
  [estado: EstadoBalanco \cup {Nenhum}, finalizado: BOOLEAN,
   zerarNaoContados: BOOLEAN, shards: Nat \cup {Nenhum}, shardCursor: Nat,
   produtosAplicados: Nat]

ItemRelatorio == [estoque: Int \cup {Nenhum}, contado: Int \cup {Nenhum}]

(* f maps some produtos to values of V. *)
ParcialEm(f, V) == DOMAIN f \subseteq Produtos /\ f \in [DOMAIN f -> V]

(* A dispatch: the retryCount is its task's; lista is what phase A read,   *)
(* gravados the shards it wrote; cursor, chunk and aplicados are phase B's *)
(* locals, virou says that it finished a shard.                            *)
Obra(listas) ==
  [tarefa: Tarefas,
   fase: {"agregar", "varrer", "gravar", "aplicar", "responder"},
   zerar: BOOLEAN, lista: listas, gravados: Nat, shards: Nat \cup {Nenhum},
   cursor: Nat, chunk: Nat, aplicados: Nat, virou: BOOLEAN]

TypeOK ==
  /\ balanco \in BalancoDoc
  /\ lancamentos \in [Lancamentos -> {"ausente", "valido", "removido"}]
  /\ DOMAIN relatorios \subseteq Nat
  /\ relatorios = [i \in DOMAIN relatorios |-> relatorios[i]]
  /\ \A i \in DOMAIN relatorios : ParcialEm(relatorios[i], ItemRelatorio)
  /\ estoques \in [Produtos -> Contador \cup {Nenhum}]
  /\ historicos \in [Produtos -> LinhaRazao \cup {Nenhum}]
  /\ outros \in [Produtos -> LinhaRazao]
  /\ tarefas \in [Tarefas -> (0..BALANCO_MAX_ATTEMPTS - 1) \cup {Nenhum}]
  /\ chamadas \in [Operadores -> {"livre", "enfileirar", "estacionar"}]
  /\ obra # Nenhum => /\ obra \in Obra({obra.lista})
                      /\ ParcialEm(obra.lista, Int \cup {Nenhum})
  /\ movidos \in 0..MaxMovimentos
  /\ perdido \in BOOLEAN

-----------------------------------------------------------------------------
(* Counting screens and other writers of the stock *)

Aberto == balanco.estado = Nenhum

(* A screen counts, cancels or restores while it sees the balanço open.    *)
Lancar(l, marca) ==
  /\ Aberto \/ TelaAtrasada
  /\ IF marca = "valido" THEN lancamentos[l] # "valido" ELSE lancamentos[l] = "valido"
  /\ lancamentos' = [lancamentos EXCEPT ![l] = marca]
  /\ UNCHANGED <<balanco, relatorios, estoques, historicos, outros, tarefas,
                 chamadas, obra, movidos, perdido>>

Maior(a, b) == IF a > b THEN a ELSE b

ContadorOuZero(doc) ==
  IF doc = Nenhum THEN [quantidade |-> 0, quantidadeReservada |-> 0] ELSE doc

(* A sale, a return or a manual movement: it moves the counters (creating  *)
(* the document) and leaves its own row in the same transaction.           *)
Movimentar(p, delta) ==
  LET antes     == ContadorOuZero(estoques[p])
      reservada == Maior(0, antes.quantidadeReservada + delta.quantidadeReservada)
  IN /\ movidos < MaxMovimentos
     /\ movidos' = movidos + 1
     /\ estoques' = [estoques EXCEPT ![p] =
          [quantidade |-> antes.quantidade + delta.quantidade,
           quantidadeReservada |-> reservada]]
     /\ outros' = [outros EXCEPT ![p] =
          [movimento |-> @.movimento + delta.quantidade,
           movimentoReservada |->
             @.movimentoReservada + (reservada - antes.quantidadeReservada)]]
     /\ UNCHANGED <<balanco, lancamentos, relatorios, historicos, tarefas,
                    chamadas, obra, perdido>>

-----------------------------------------------------------------------------
(* finalizarBalanco: take the lock, enqueue, park if the enqueue fails *)

podeFinalizarBalanco(b) ==
  ~b.finalizado /\ (b.estado = Nenhum \/ b.estado = "erro")

(* Fault: a retry starts from a new finalizacao. *)
FalhaTravaDoZero(b, zerar) ==
  [estado |-> "finalizando", finalizado |-> b.finalizado, zerarNaoContados |-> zerar,
   shards |-> Nenhum, shardCursor |-> 0, produtosAplicados |-> 0]

(* A retry keeps the frozen list and the cursor; a fresh run has neither. *)
Trancado(b, zerar) ==
  LET eraErro == b.estado = "erro"
  IN [estado |-> "finalizando", finalizado |-> b.finalizado,
      zerarNaoContados |-> zerar,
      shards |-> IF eraErro THEN b.shards ELSE Nenhum,
      shardCursor |-> IF eraErro THEN b.shardCursor ELSE 0,
      produtosAplicados |-> IF eraErro THEN b.produtosAplicados ELSE 0]

tomarTravaBalanco(o, zerar) ==
  /\ chamadas[o] = "livre"
  /\ podeFinalizarBalanco(balanco)
  /\ balanco' = Trancado(balanco, zerar)
  /\ chamadas' = [chamadas EXCEPT ![o] = "enfileirar"]
  /\ perdido' = FALSE
  /\ UNCHANGED <<lancamentos, relatorios, estoques, historicos, outros, tarefas,
                 obra, movidos>>

DepoisDaTrava ==
  UNCHANGED <<lancamentos, relatorios, estoques, historicos, outros, obra, movidos>>

(* The enqueue reaches the queue; its answer may still be an error. *)
Enfileirar(o, resposta) ==
  /\ chamadas[o] = "enfileirar"
  /\ resposta = "estacionar" => PodeFalhar
  /\ \E t \in Tarefas : tarefas[t] = Nenhum /\ tarefas' = [tarefas EXCEPT ![t] = 0]
  /\ chamadas' = [chamadas EXCEPT ![o] = resposta]
  /\ UNCHANGED <<balanco, perdido>> /\ DepoisDaTrava

FalharEnfileirar(o) ==
  /\ PodeFalhar
  /\ chamadas[o] = "enfileirar"
  /\ chamadas' = [chamadas EXCEPT ![o] = "estacionar"]
  /\ UNCHANGED <<balanco, tarefas, perdido>> /\ DepoisDaTrava

(* Fault: a failure is only logged. *)
FalhaNaoEstaciona(b) == b

Estacionado(b) == [b EXCEPT !.estado = "erro"]

Estacionar(o) ==
  /\ chamadas[o] = "estacionar"
  /\ balanco' = Estacionado(balanco)
  /\ chamadas' = [chamadas EXCEPT ![o] = "livre"]
  /\ UNCHANGED <<tarefas, perdido>> /\ DepoisDaTrava

(* The callable dies after its transaction, or its parking write throws: *)
(* no catch is left around it.                                           *)
MorrerChamada(o) ==
  /\ PodeMorrer \/ (PodeFalhar /\ chamadas[o] = "estacionar")
  /\ chamadas[o] # "livre"
  /\ chamadas' = [chamadas EXCEPT ![o] = "livre"]
  /\ perdido' = TRUE
  /\ UNCHANGED <<balanco, tarefas>> /\ DepoisDaTrava

-----------------------------------------------------------------------------
(* processarBalancoJob *)

NovaObra(t) ==
  [tarefa |-> t, fase |-> IF balanco.shards = Nenhum THEN "agregar" ELSE "aplicar",
   zerar |-> balanco.zerarNaoContados, lista |-> <<>>, gravados |-> 0,
   shards |-> balanco.shards, cursor |-> balanco.shardCursor, chunk |-> 0,
   aplicados |-> 0, virou |-> FALSE]

(* The queue dispatches a task and the balanço is read; a task whose       *)
(* balanço is not finalizing is acknowledged and dropped.                  *)
Despachar(t) ==
  /\ obra = Nenhum /\ tarefas[t] # Nenhum
  /\ IF balanco.estado = "finalizando"
     THEN obra' = NovaObra(t) /\ UNCHANGED tarefas
     ELSE tarefas' = [tarefas EXCEPT ![t] = Nenhum] /\ UNCHANGED obra
  /\ UNCHANGED <<balanco, lancamentos, relatorios, estoques, historicos, outros,
                 chamadas, movidos, perdido>>

(* Fault: the queue retries for ever. *)
FalhaSemLimite(t) == tarefas[t] + 1

(* What the queue makes of a task whose dispatch failed. *)
Devolvida(t) ==
  IF tarefas[t] = BALANCO_MAX_ATTEMPTS - 1 THEN Nenhum ELSE tarefas[t] + 1

(* The dispatch throws before the try: the read of the balanço fails, or   *)
(* its parse.  Nothing parks: the queue retries, and after the last        *)
(* attempt drops the task.                                                 *)
FalharLeitura(t) ==
  /\ PodeFalhar
  /\ obra = Nenhum /\ tarefas[t] # Nenhum
  /\ tarefas' = [tarefas EXCEPT ![t] = Devolvida(t)]
  /\ perdido' = (perdido \/ Devolvida(t) = Nenhum)
  /\ UNCHANGED <<balanco, lancamentos, relatorios, estoques, historicos, outros,
                 chamadas, obra, movidos>>

NaFase(fase) == obra # Nenhum /\ obra.fase = fase

SoObra ==
  UNCHANGED <<lancamentos, estoques, historicos, outros, chamadas, movidos, perdido>>

(* Fault: cancelled movimentos are summed too. *)
FalhaSomaRemovidos(p, sinal) ==
  UNION {{l} \X (1..(sinal * Lancado[l].quantidade)) :
           l \in {m \in Lancamentos : /\ lancamentos[m] # "ausente"
                                      /\ Lancado[m].produto = p}}

(* Units counted for a produto, positive and negative, one by one. *)
Unidades(p, sinal) ==
  UNION {{l} \X (1..(sinal * Lancado[l].quantidade)) :
           l \in {m \in Lancamentos : /\ lancamentos[m] = "valido"
                                      /\ Lancado[m].produto = p}}

Contados ==
  {Lancado[l].produto : l \in {m \in Lancamentos : lancamentos[m] = "valido"}}

(* One aggregate over the valid movimentos, grouped by produto. *)
Contagem ==
  [p \in Contados |-> Cardinality(Unidades(p, 1)) - Cardinality(Unidades(p, -1))]

Agregar ==
  /\ NaFase("agregar")
  /\ obra' = [obra EXCEPT !.fase = "varrer", !.lista = Contagem]
  /\ UNCHANGED <<balanco, relatorios, tarefas>> /\ SoObra

ComEstoque == {p \in Produtos : estoques[p] # Nenhum} \cup ComExtras

montarListaTrabalho(contagem, zerar) ==
  LET contados == DOMAIN contagem \ Kits
      zerados  == IF zerar THEN ComEstoque \ (contados \cup Kits) ELSE {}
  IN [p \in contados \cup zerados |->
        IF p \in contados THEN contagem[p] ELSE Nenhum]

(* The scan of the depósito, when asked for, and the kit guard. *)
Varrer ==
  /\ NaFase("varrer")
  /\ obra' = [obra EXCEPT !.fase = "gravar",
                          !.lista = montarListaTrabalho(obra.lista, obra.zerar)]
  /\ UNCHANGED <<balanco, relatorios, tarefas>> /\ SoObra

(* Slice i of a set of produtos, in their order, tam at a time. *)
Posicao(S, p) == Cardinality({q \in S : q < p})
Fatia(S, tam, i) == {p \in S : Posicao(S, p) \div tam = i}
NumFatias(S, tam) == (Cardinality(S) + tam - 1) \div tam

NumShards == NumFatias(DOMAIN obra.lista, RELATORIO_BALANCO_SHARD_SIZE)

CorpoShard(lista, i) ==
  [p \in Fatia(DOMAIN lista, RELATORIO_BALANCO_SHARD_SIZE, i) |->
     [estoque |-> Nenhum, contado |-> lista[p]]]

(* Shards have deterministic ids: a new phase A overwrites them one by one.*)
GravarShard ==
  /\ NaFase("gravar") /\ obra.gravados < NumShards
  /\ relatorios' = [i \in DOMAIN relatorios \cup {obra.gravados} |->
                      IF i = obra.gravados THEN CorpoShard(obra.lista, i)
                      ELSE relatorios[i]]
  /\ obra' = [obra EXCEPT !.gravados = @ + 1]
  /\ UNCHANGED <<balanco, tarefas>> /\ SoObra

(* The list is frozen once the balanço says how many shards it has. *)
FixarLista ==
  /\ NaFase("gravar") /\ obra.gravados = NumShards
  /\ balanco' = [balanco EXCEPT !.shards = NumShards, !.shardCursor = 0]
  /\ obra' = [obra EXCEPT !.fase = "aplicar", !.shards = NumShards,
                          !.lista = <<>>, !.gravados = 0]
  /\ UNCHANGED <<relatorios, tarefas>> /\ SoObra

ShardAtual ==
  IF obra.cursor \in DOMAIN relatorios THEN relatorios[obra.cursor] ELSE <<>>

NumChunks == NumFatias(DOMAIN ShardAtual, PRODUTOS_POR_TRANSACAO)

NoShard == NaFase("aplicar") /\ obra.cursor < obra.shards

Contado(item) == IF item.contado = Nenhum THEN 0 ELSE item.contado

(* Fault: the ledger row has a random id and marks nothing. *)
FalhaSemMarca(p) == FALSE

JaAplicado(p) == historicos[p] # Nenhum

(* The count confirms a sane stored value: nothing is written. *)
Inalterado(p, contado) ==
  IF estoques[p] = Nenhum THEN contado = 0
  ELSE estoques[p].quantidadeReservada >= 0 /\ estoques[p].quantidade = contado

(* planejarItemBalanco over a chunk: the produtos whose before value goes  *)
(* to the report, and those of them whose stock is set.                    *)
AAplicar(chunk) ==
  {p \in chunk : ~JaAplicado(p) /\ ~Inalterado(p, Contado(ShardAtual[p]))}

Vistos(chunk) == {p \in chunk : ~JaAplicado(p)}

EstoqueContado(p, contado) ==
  [quantidade |-> contado,
   quantidadeReservada |-> Maior(0, ContadorOuZero(estoques[p]).quantidadeReservada)]

LinhaBalanco(p, contado) ==
  LET antes == ContadorOuZero(estoques[p])
  IN [movimento |-> contado - antes.quantidade,
      movimentoReservada |->
        Maior(0, antes.quantidadeReservada) - antes.quantidadeReservada]

AplicarA(chunk) ==
  LET shard    == ShardAtual
      vistos   == Vistos(chunk)
      aplicar  == AAplicar(chunk)
  IN /\ estoques' = [p \in Produtos |->
          IF p \in aplicar THEN EstoqueContado(p, Contado(shard[p])) ELSE estoques[p]]
     /\ historicos' = [p \in Produtos |->
          IF p \in aplicar THEN LinhaBalanco(p, Contado(shard[p])) ELSE historicos[p]]
     /\ relatorios' = [relatorios EXCEPT ![obra.cursor] =
          [p \in DOMAIN shard |->
             IF p \in vistos
             THEN [shard[p] EXCEPT !.estoque = ContadorOuZero(estoques[p]).quantidade]
             ELSE shard[p]]]
     /\ obra' = [obra EXCEPT !.chunk = @ + 1,
                             !.aplicados = @ + Cardinality(aplicar)]

(* One transaction: stock, ledger rows and the before values in the shard. *)
aplicarChunk ==
  /\ NoShard /\ obra.chunk < NumChunks
  /\ AplicarA(Fatia(DOMAIN ShardAtual, PRODUTOS_POR_TRANSACAO, obra.chunk))
  /\ UNCHANGED <<balanco, tarefas, lancamentos, outros, chamadas, movidos, perdido>>

(* Fault: the chunks of a shard are not awaited. *)
FalhaSemEsperar == TRUE

ShardPronto == obra.chunk = NumChunks

AvancarCursor ==
  /\ NoShard /\ ShardPronto
  /\ balanco' = [balanco EXCEPT !.shardCursor = obra.cursor + 1,
                                !.produtosAplicados = @ + obra.aplicados]
  /\ obra' = [obra EXCEPT !.cursor = @ + 1, !.chunk = 0, !.aplicados = 0,
                          !.virou = TRUE]
  /\ UNCHANGED <<relatorios, tarefas>> /\ SoObra

(* Over the time budget after a shard: enqueue a continuation and stop. *)
Pausar ==
  /\ NoShard /\ obra.chunk = 0 /\ obra.virou
  /\ \E t \in Tarefas : tarefas[t] = Nenhum /\ tarefas' = [tarefas EXCEPT ![t] = 0]
  /\ obra' = [obra EXCEPT !.fase = "responder"]
  /\ UNCHANGED <<balanco, relatorios>> /\ SoObra

Concluir ==
  /\ NaFase("aplicar") /\ obra.cursor >= obra.shards
  /\ balanco' = [balanco EXCEPT !.estado = "finalizado", !.finalizado = TRUE]
  /\ obra' = [obra EXCEPT !.fase = "responder"]
  /\ UNCHANGED <<relatorios, tarefas>> /\ SoObra

Responder ==
  /\ NaFase("responder")
  /\ tarefas' = [tarefas EXCEPT ![obra.tarefa] = Nenhum]
  /\ obra' = Nenhum
  /\ UNCHANGED <<balanco, relatorios>> /\ SoObra

(* Fault: the worker's budget is one more than the queue's. *)
FalhaUltimaTarde == tarefas[obra.tarefa] = BALANCO_MAX_ATTEMPTS

UltimaTentativa == tarefas[obra.tarefa] = BALANCO_MAX_ATTEMPTS - 1

(* A call inside the try throws, its write landed or not: before the last  *)
(* attempt the queue retries, at the last one the worker parks.  (The      *)
(* error that parks at once, a row without a delta, cannot arise: the      *)
(* chunk always plans from a stored or a zero value.)                      *)
Falhar ==
  /\ PodeFalhar
  /\ obra # Nenhum
  /\ obra' = Nenhum
  /\ IF UltimaTentativa
     THEN /\ balanco' = Estacionado(balanco)
          /\ tarefas' = [tarefas EXCEPT ![obra.tarefa] = Nenhum]
     ELSE /\ tarefas' = [tarefas EXCEPT ![obra.tarefa] = Devolvida(obra.tarefa)]
          /\ UNCHANGED balanco
  /\ UNCHANGED relatorios /\ SoObra

(* The dispatch dies (timeout, memory, lost answer), or the parking write  *)
(* of the last attempt throws out of the catch: the queue retries, and     *)
(* gives up after the last attempt.                                        *)
Morrer ==
  /\ obra # Nenhum
  /\ PodeMorrer \/ (PodeFalhar /\ UltimaTentativa)
  /\ obra' = Nenhum
  /\ tarefas' = [tarefas EXCEPT ![obra.tarefa] = Devolvida(obra.tarefa)]
  /\ perdido' = (perdido \/ Devolvida(obra.tarefa) = Nenhum)
  /\ UNCHANGED <<balanco, lancamentos, relatorios, estoques, historicos, outros,
                 chamadas, movidos>>

-----------------------------------------------------------------------------
Init ==
  /\ balanco = [estado |-> Nenhum, finalizado |-> FALSE, zerarNaoContados |-> FALSE,
                shards |-> Nenhum, shardCursor |-> 0, produtosAplicados |-> 0]
  /\ lancamentos = [l \in Lancamentos |-> "ausente"]
  /\ relatorios = <<>>
  /\ estoques = EstoquesIniciais
  /\ historicos = [p \in Produtos |-> Nenhum]
  /\ outros = [p \in Produtos |-> SemMovimento]
  /\ tarefas = [t \in Tarefas |-> Nenhum]
  /\ chamadas = [o \in Operadores |-> "livre"]
  /\ obra = Nenhum
  /\ movidos = 0
  /\ perdido = FALSE

Trabalhar ==
  \/ Agregar \/ Varrer \/ GravarShard \/ FixarLista
  \/ aplicarChunk \/ AvancarCursor \/ Pausar \/ Concluir \/ Responder

Next ==
  \/ \E l \in Lancamentos, marca \in {"valido", "removido"} : Lancar(l, marca)
  \/ \E m \in Movimentos : Movimentar(m[1], m[2])
  \/ \E o \in Operadores, zerar \in BOOLEAN : tomarTravaBalanco(o, zerar)
  \/ \E o \in Operadores, r \in {"livre", "estacionar"} : Enfileirar(o, r)
  \/ \E o \in Operadores : FalharEnfileirar(o)
  \/ \E o \in Operadores : Estacionar(o)
  \/ \E o \in Operadores : MorrerChamada(o)
  \/ \E t \in Tarefas : Despachar(t)
  \/ \E t \in Tarefas : FalharLeitura(t)
  \/ Trabalhar
  \/ Falhar
  \/ Morrer

Spec == Init /\ [][Next]_vars

(* Scheduling: the queue dispatches what it holds, a dispatch and a        *)
(* callable that started go on (or fail); nobody is obliged to count, to   *)
(* move stock, to press Finalizar or to retry.                             *)
Andar ==
  \/ \E t \in Tarefas : Despachar(t)
  \/ Trabalhar

FairSpec ==
  /\ Spec
  /\ WF_vars(Andar)
  /\ \A o \in Operadores :
       WF_vars(\/ \E r \in {"livre", "estacionar"} : Enfileirar(o, r)
               \/ Estacionar(o))

-----------------------------------------------------------------------------
(* Properties *)

Movido(p) == IF historicos[p] = Nenhum THEN SemMovimento ELSE historicos[p]

(* The ledger is summable (ADR 0014): through every crash, retry and       *)
(* concurrent sale, the counters of a produto are what its rows add up to, *)
(* the balanço's own row (written once, by aplicarChunk) among them.       *)
RazaoExplicaEstoque ==
  \A p \in Produtos :
    LET inicial == ContadorOuZero(EstoquesIniciais[p])
        agora   == ContadorOuZero(estoques[p])
    IN /\ agora.quantidade
            = inicial.quantidade + outros[p].movimento + Movido(p).movimento
       /\ agora.quantidadeReservada
            = inicial.quantidadeReservada + outros[p].movimentoReservada
              + Movido(p).movimentoReservada

(* A produto with its balanço row is never set again and the row never     *)
(* rewritten, whatever moved the stock since (the marker of aplicarChunk). *)
AplicaUmaVez ==
  [][\A p \in Produtos :
       historicos[p] # Nenhum
         => /\ historicos'[p] = historicos[p]
            /\ outros' = outros => estoques'[p] = estoques[p]]_vars

Congelado == balanco.shards # Nenhum

(* The shards of the frozen list: one left by a longer phase A is not.     *)
Frozen == {i \in DOMAIN relatorios : Congelado /\ i < balanco.shards}

(* The report explains the ledger: a line whose produto was set has the    *)
(* value it replaced, and the row is the difference of the two ("either    *)
(* both land or neither does").                                            *)
RelatorioConfere ==
  \A i \in Frozen : \A p \in DOMAIN relatorios[i] :
    historicos[p] # Nenhum
      => /\ relatorios[i][p].estoque # Nenhum
         /\ historicos[p].movimento
              = Contado(relatorios[i][p]) - relatorios[i][p].estoque

(* The checkpoint never runs ahead of the stock: every produto of a shard  *)
(* behind the cursor was seen, and a finalizado balanço saw them all.      *)
CursorAtrasDoAplicado ==
  Congelado =>
    \A i \in 0..balanco.shards - 1 :
      /\ i \in DOMAIN relatorios
      /\ i < balanco.shardCursor \/ balanco.finalizado
           => \A p \in DOMAIN relatorios[i] : relatorios[i][p].estoque # Nenhum

(* The work list is frozen once: no retry, continuation or resume changes  *)
(* which produtos it has or what was counted, nor forgets a before value.  *)
ListaCongelada ==
  [][Congelado =>
       /\ balanco'.shards = balanco.shards
       /\ \A i \in Frozen :
            /\ DOMAIN relatorios'[i] = DOMAIN relatorios[i]
            /\ \A p \in DOMAIN relatorios[i] :
                 /\ relatorios'[i][p].contado = relatorios[i][p].contado
                 /\ relatorios[i][p].estoque # Nenhum
                      => relatorios'[i][p].estoque # Nenhum]_vars

(* A balanço once finalizado never takes the lock again nor touches stock, *)
(* even parked in erro by a late answer (dataFinalizado is load-bearing).  *)
FinalizadoEncerra ==
  [][balanco.finalizado =>
       /\ balanco'.finalizado /\ balanco'.estado # "finalizando"
       /\ historicos' = historicos /\ relatorios' = relatorios]_vars

(* "A parked (erro) balanço, never a silent stall": while finalizando some *)
(* task or callable will go on, unless since the lock one died at its last *)
(* chance, or threw there where no catch parks: the worker's first read    *)
(* and the two parking writes.                                             *)
TravaComDono ==
  balanco.estado = "finalizando" /\ ~perdido
    => (\E t \in Tarefas : tarefas[t] # Nenhum) \/ (\E o \in Operadores : chamadas[o] # "livre")

(* A kit holds no stock of its own: no balanço ever writes one.            *)
KitNuncaContado == \A p \in Kits : historicos[p] = Nenhum

(* What the movimentos kept for a produto add up to, corrections included. *)
Validos(p) ==
  {l \in Lancamentos : lancamentos[l] = "valido" /\ Lancado[l].produto = p}

TotalContado(p) ==
  Soma(Validos(p), [l \in Lancamentos |-> Maior(0, Lancado[l].quantidade)])
    - Soma(Validos(p), [l \in Lancamentos |-> Maior(0, -Lancado[l].quantidade)])

(* End to end: with no other movement and no late count, a finalizado      *)
(* balanço leaves each counted produto with the sum of its valid           *)
(* movimentos (the aggregate, the freeze and the apply together).          *)
ContagemAplicada ==
  balanco.finalizado /\ movidos = 0 /\ ~TelaAtrasada =>
    \A p \in Produtos \ Kits :
      Validos(p) # {} => ContadorOuZero(estoques[p]).quantidade = TotalContado(p)

(* A finalizing balanço ends finalizado or parked, whichever calls fail    *)
(* inside the worker's try, at its earlier reads or at the enqueue.  What  *)
(* may leave it finalizando is only a throw outside the try at a last      *)
(* attempt, or of a parking write.                                         *)
Termina ==
  balanco.estado = "finalizando" ~> balanco.estado # "finalizando" \/ perdido

(* The resume "must not treat that as the new before" (the crash test of   *)
(* aplicarBalanco.storage.test.ts): a produto the job has already decided  *)
(* is not set by a later attempt.                                          *)
Decidido(p) ==
  \E i \in Frozen : p \in DOMAIN relatorios[i] /\ relatorios[i][p].estoque # Nenhum

DecididoNaoMuda ==
  [][\A p \in Produtos :
       Decidido(p) /\ outros' = outros => estoques'[p] = estoques[p]]_vars

=============================================================================
