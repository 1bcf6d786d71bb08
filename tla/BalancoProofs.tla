---------------------------- MODULE BalancoProofs ----------------------------
(***************************************************************************)
(* Proofs about Balanco, for every set of produtos, movimentos, operators, *)
(* shard and chunk sizes and retry budget.                                 *)
(***************************************************************************)
EXTENDS Balanco, FiniteSetTheorems, TLAPS

IntOuNulo == Int \cup {Nenhum}

LEMMA UnidadesFinitas ==
  ASSUME NEW p, NEW sinal \in {1, -1}
  PROVE  Cardinality(Unidades(p, sinal)) \in Nat
<1> DEFINE L == {m \in Lancamentos : lancamentos[m] = "valido" /\ Lancado[m].produto = p}
           D(l) == {l} \X (1..(sinal * Lancado[l].quantidade))
           U == {D(l) : l \in L}
<1>1. IsFiniteSet(L)
  BY BalancoAssumption, FS_Subset
<1>2. IsFiniteSet(U)
  <2> DEFINE F == [l \in L |-> D(l)]
  <2>1. F \in Surjection(L, U)
    BY DEF Surjection
  <2>2. QED
    BY <1>1, <2>1, FS_Surjection
<1>3. \A X \in U : IsFiniteSet(X)
  <2>1. SUFFICES ASSUME NEW l \in L PROVE IsFiniteSet(D(l))
    OBVIOUS
  <2>2. sinal * Lancado[l].quantidade \in Int
    BY BalancoAssumption
  <2>3. IsFiniteSet(1..(sinal * Lancado[l].quantidade))
    BY <2>2, FS_Interval
  <2>4. IsFiniteSet({l})
    BY FS_Singleton
  <2>5. QED
    BY <2>3, <2>4, FS_Product
<1>4. IsFiniteSet(UNION U)
  BY <1>2, <1>3, FS_UNION
<1>5. Unidades(p, sinal) = UNION U
  BY DEF Unidades
<1>6. QED
  BY <1>4, <1>5, FS_CardinalityType

LEMMA ContagemTipo == ParcialEm(Contagem, IntOuNulo)
<1>1. Contados \subseteq Produtos
  BY BalancoAssumption DEF Contados
<1>2. \A p : Cardinality(Unidades(p, 1)) - Cardinality(Unidades(p, -1)) \in Int
  BY UnidadesFinitas
<1>3. QED
  BY <1>1, <1>2 DEF Contagem, ParcialEm, IntOuNulo

LEMMA ListaTipo ==
  ASSUME NEW contagem, ParcialEm(contagem, IntOuNulo), NEW zerar
  PROVE  /\ ParcialEm(montarListaTrabalho(contagem, zerar), IntOuNulo)
         /\ DOMAIN montarListaTrabalho(contagem, zerar) \cap Kits = {}
  BY BalancoAssumption DEF montarListaTrabalho, ParcialEm, IntOuNulo, ComEstoque

(* Slices: a produto of S lies in one slice, and in one that is counted.   *)
LEMMA PosicaoMenor ==
  ASSUME NEW S \in SUBSET Produtos, NEW p \in S
  PROVE  /\ Cardinality(S) \in Nat
         /\ Posicao(S, p) \in Nat
         /\ Posicao(S, p) < Cardinality(S)
<1> DEFINE T == {q \in S : q < p}
<1>1. IsFiniteSet(S)
  BY BalancoAssumption, FS_Subset
<1>2. p \in Nat
  BY BalancoAssumption
<1>2a. p \notin T
  BY <1>2
<1>3. IsFiniteSet(T) /\ Cardinality(T) <= Cardinality(S)
      /\ (Cardinality(T) = Cardinality(S) => T = S)
  BY <1>1, FS_Subset
<1>4. Cardinality(S) \in Nat /\ Cardinality(T) \in Nat
  BY <1>1, <1>3, FS_CardinalityType
<1>5. QED
  BY <1>3, <1>4, <1>2a DEF Posicao

LEMMA DivisaoParaCima ==
  ASSUME NEW n \in Nat, NEW k \in Nat, NEW t \in Nat \ {0}, k < n
  PROVE  k \div t < (n + t - 1) \div t
<1>1. (k \div t) * t <= k
  OBVIOUS
<1>2. n + t - 1 < (((n + t - 1) \div t) + 1) * t
  OBVIOUS
<1>3. k \div t \in Int /\ (n + t - 1) \div t \in Int
  OBVIOUS
<1> DEFINE a == k \div t
           b == (n + t - 1) \div t
<1>4. a * t <= k /\ n + t - 1 < (b + 1) * t /\ a \in Int /\ b \in Int
  BY <1>1, <1>2, <1>3
<1> HIDE DEF a, b
<1>5. SUFFICES ASSUME a >= b PROVE FALSE
  BY <1>4 DEF a, b
<1>6. (b + 1) * t = b * t + t
  BY <1>4
<1>7. b * t <= a * t
  BY <1>4, <1>5
<1>8. QED
  BY <1>4, <1>6, <1>7

LEMMA FatiasTipo ==
  ASSUME NEW S \in SUBSET Produtos, NEW tam \in Nat \ {0}
  PROVE  NumFatias(S, tam) \in Nat
<1>1. Cardinality(S) \in Nat
  BY BalancoAssumption, FS_Subset, FS_CardinalityType
<1>2. QED
  BY <1>1 DEF NumFatias

LEMMA FatiasCobrem ==
  ASSUME NEW S \in SUBSET Produtos, NEW p \in S, NEW tam \in Nat \ {0}
  PROVE  /\ Posicao(S, p) \div tam \in Nat
         /\ Posicao(S, p) \div tam < NumFatias(S, tam)
  BY PosicaoMenor, DivisaoParaCima DEF NumFatias

-----------------------------------------------------------------------------
(***************************************************************************)
(* The inductive invariant, in named parts.                                *)
(***************************************************************************)
(* The balanço document: what each workflow state says of the frozen list. *)
InvDoc ==
  /\ balanco.estado = Nenhum =>
       balanco.shards = Nenhum /\ ~balanco.finalizado /\ obra = Nenhum
  /\ balanco.finalizado =>
       /\ balanco.estado \in {"finalizado", "erro"}
       /\ Congelado
       /\ obra # Nenhum => obra.fase = "responder"
  /\ balanco.estado = "finalizado" => balanco.finalizado
  /\ ~Congelado =>
       balanco.shardCursor = 0 /\ \A p \in Produtos : historicos[p] = Nenhum

(* The dispatch: its task is still held by the queue, and its locals agree *)
(* with the checkpoint (one dispatch runs at a time).                      *)
InvObra ==
  obra # Nenhum =>
    /\ tarefas[obra.tarefa] # Nenhum
    /\ obra.fase \in {"agregar", "varrer", "gravar"} =>
         ~Congelado /\ obra.cursor = 0 /\ obra.chunk = 0
    /\ obra.fase \in {"agregar", "varrer"} => obra.gravados = 0
    /\ obra.fase = "aplicar" =>
         /\ Congelado
         /\ obra.shards = balanco.shards
         /\ obra.cursor = balanco.shardCursor
    /\ obra.fase = "gravar" => DOMAIN obra.lista \cap Kits = {}

(* The shards phase A wrote so far are those of the list it holds. *)
InvGravados ==
  NaFase("gravar") =>
    \A i \in Nat : i < obra.gravados =>
      i \in DOMAIN relatorios /\ relatorios[i] = CorpoShard(obra.lista, i)

(* The frozen list: every shard is there, no kit, no produto twice. *)
InvLista ==
  /\ \A i \in Nat : Congelado /\ i < balanco.shards =>
       i \in DOMAIN relatorios /\ DOMAIN relatorios[i] \cap Kits = {}
  /\ \A i, j \in Nat :
       Congelado /\ i < balanco.shards /\ j < balanco.shards /\ i # j =>
         DOMAIN relatorios[i] \cap DOMAIN relatorios[j] = {}

(* Behind the cursor, and behind the chunk of the running dispatch, every  *)
(* line has its before value.                                              *)
InvCursor ==
  \A i \in Nat : Congelado /\ i < balanco.shards
      /\ (i < balanco.shardCursor \/ balanco.finalizado) =>
    \A p \in DOMAIN relatorios[i] : relatorios[i][p].estoque # Nenhum

InvChunk ==
  NaFase("aplicar") /\ obra.cursor < obra.shards =>
    \A p \in DOMAIN ShardAtual :
      Posicao(DOMAIN ShardAtual, p) \div PRODUTOS_POR_TRANSACAO < obra.chunk
        => ShardAtual[p].estoque # Nenhum

(* A worker that answered its task either finished or left another one. *)
InvTrava ==
  /\ TravaComDono
  /\ NaFase("responder") /\ balanco.estado = "finalizando" /\ ~perdido =>
       \/ \E t \in Tarefas : t # obra.tarefa /\ tarefas[t] # Nenhum
       \/ \E o \in Operadores : chamadas[o] # "livre"

-----------------------------------------------------------------------------
(***************************************************************************)
(* First layer: types, the document and the dispatch.                      *)
(***************************************************************************)
Base == TypeOK /\ InvDoc /\ InvObra

LEMMA BaseInicial == Init => Base
<1> SUFFICES ASSUME Init PROVE Base
  OBVIOUS
<1>1. balanco \in BalancoDoc
  BY DEF Init, BalancoDoc, EstadoBalanco
<1>2. estoques \in [Produtos -> Contador \cup {Nenhum}]
      /\ historicos \in [Produtos -> LinhaRazao \cup {Nenhum}]
      /\ outros \in [Produtos -> LinhaRazao]
  BY BalancoAssumption DEF Init, SemMovimento, LinhaRazao
<1>3. /\ DOMAIN relatorios \subseteq Nat
      /\ relatorios = [i \in DOMAIN relatorios |-> relatorios[i]]
      /\ \A i \in DOMAIN relatorios : ParcialEm(relatorios[i], ItemRelatorio)
  BY DEF Init
<1>4. movidos \in 0..MaxMovimentos
  BY BalancoAssumption DEF Init
<1>5. TypeOK
  BY <1>1, <1>2, <1>3, <1>4 DEF Init, TypeOK
<1>6. InvDoc /\ InvObra
  BY BalancoAssumption DEF Init, InvDoc, InvObra, Congelado
<1>7. QED
  BY <1>5, <1>6 DEF Base

(* The actions of the callable. *)
Chamada ==
  \/ \E o \in Operadores, zerar \in BOOLEAN : tomarTravaBalanco(o, zerar)
  \/ \E o \in Operadores, r \in {"livre", "estacionar"} : Enfileirar(o, r)
  \/ \E o \in Operadores : FalharEnfileirar(o)
  \/ \E o \in Operadores : Estacionar(o)
  \/ \E o \in Operadores : MorrerChamada(o)

(* Only the queue and a callable move: the types of the rest are kept. *)
LEMMA TipoFila ==
  ASSUME TypeOK,
         tarefas' \in [Tarefas -> (0..BALANCO_MAX_ATTEMPTS - 1) \cup {Nenhum}],
         chamadas' \in [Operadores -> {"livre", "enfileirar", "estacionar"}],
         perdido' \in BOOLEAN,
         UNCHANGED <<balanco, lancamentos, relatorios, estoques, historicos,
                     outros, obra, movidos>>
  PROVE  TypeOK'
  BY DEF TypeOK, ParcialEm

LEMMA BaseChamada == Base /\ Chamada => Base'
<1> SUFFICES ASSUME Base, Chamada PROVE Base'
  OBVIOUS
<1> USE BalancoAssumption DEF Base, InvDoc, InvObra, Congelado, DepoisDaTrava
<1>1. CASE \E o \in Operadores, zerar \in BOOLEAN : tomarTravaBalanco(o, zerar)
  <2>1. PICK o \in Operadores, zerar \in BOOLEAN : tomarTravaBalanco(o, zerar)
    BY <1>1
  <2>2. balanco' \in BalancoDoc
    BY <2>1 DEF TypeOK, tomarTravaBalanco, Trancado, BalancoDoc, EstadoBalanco
  <2>3. TypeOK'
    <3>1. /\ chamadas' \in [Operadores -> {"livre", "enfileirar", "estacionar"}]
          /\ perdido' \in BOOLEAN
      BY <2>1 DEF TypeOK, tomarTravaBalanco
    <3>2. UNCHANGED <<lancamentos, relatorios, estoques, historicos, outros, tarefas,
                      obra, movidos>>
      BY <2>1 DEF tomarTravaBalanco
    <3>3. QED
      BY <2>2, <3>1, <3>2 DEF TypeOK, ParcialEm
  <2>4. InvDoc' /\ InvObra'
    BY <2>1 DEF TypeOK, tomarTravaBalanco, Trancado, podeFinalizarBalanco
  <2>5. QED
    BY <2>3, <2>4
<1>2. CASE \E o \in Operadores, r \in {"livre", "estacionar"} : Enfileirar(o, r)
  <2>1. PICK o \in Operadores, r \in {"livre", "estacionar"} : Enfileirar(o, r)
    BY <1>2
  <2>2. tarefas' \in [Tarefas -> (0..BALANCO_MAX_ATTEMPTS - 1) \cup {Nenhum}]
    BY <2>1 DEF TypeOK, Enfileirar
  <2>2a. chamadas' \in [Operadores -> {"livre", "enfileirar", "estacionar"}]
    BY <2>1 DEF TypeOK, Enfileirar
  <2>2b. /\ UNCHANGED <<balanco, lancamentos, relatorios, estoques, historicos,
                        outros, obra, movidos>>
         /\ perdido' \in BOOLEAN
    BY <2>1 DEF TypeOK, Enfileirar
  <2>2c. TypeOK'
    BY <2>2, <2>2a, <2>2b, TipoFila
  <2>3. InvDoc' /\ InvObra'
    BY <2>1 DEF TypeOK, Enfileirar
  <2>4. QED
    BY <2>2c, <2>3
<1>3. CASE \E o \in Operadores : FalharEnfileirar(o) \/ MorrerChamada(o)
  <2>a. /\ tarefas' \in [Tarefas -> (0..BALANCO_MAX_ATTEMPTS - 1) \cup {Nenhum}]
        /\ chamadas' \in [Operadores -> {"livre", "enfileirar", "estacionar"}]
        /\ perdido' \in BOOLEAN
    BY <1>3 DEF TypeOK, FalharEnfileirar, MorrerChamada
  <2>b. UNCHANGED <<balanco, lancamentos, relatorios, estoques, historicos,
                    outros, obra, movidos>>
    BY <1>3 DEF FalharEnfileirar, MorrerChamada
  <2>1. TypeOK'
    BY <2>a, <2>b, TipoFila
  <2>2. InvDoc' /\ InvObra'
    BY <1>3 DEF FalharEnfileirar, MorrerChamada
  <2>3. QED
    BY <2>1, <2>2
<1>4. CASE \E o \in Operadores : Estacionar(o)
  <2>1. TypeOK'
    BY <1>4 DEF TypeOK, Estacionar, Estacionado, BalancoDoc, EstadoBalanco
  <2>2. InvDoc' /\ InvObra'
    BY <1>4 DEF TypeOK, Estacionar, Estacionado, BalancoDoc, EstadoBalanco
  <2>3. QED
    BY <2>1, <2>2
<1>5. QED
  BY <1>1, <1>2, <1>3, <1>4 DEF Chamada

(* The conjuncts of TypeOK that a dispatch moves. *)
TipoRelatorios ==
  /\ DOMAIN relatorios \subseteq Nat
  /\ relatorios = [i \in DOMAIN relatorios |-> relatorios[i]]
  /\ \A i \in DOMAIN relatorios : ParcialEm(relatorios[i], ItemRelatorio)

TipoObra ==
  obra # Nenhum => /\ obra \in Obra({obra.lista})
                   /\ ParcialEm(obra.lista, IntOuNulo)

TipoTarefas ==
  tarefas \in [Tarefas -> (0..BALANCO_MAX_ATTEMPTS - 1) \cup {Nenhum}]

LEMMA TipoTrabalho ==
  ASSUME TypeOK, (balanco \in BalancoDoc)', TipoRelatorios', TipoObra',
         TipoTarefas', (perdido \in BOOLEAN)',
         UNCHANGED <<lancamentos, estoques, historicos, outros, chamadas, movidos>>
  PROVE  TypeOK'
  BY DEF TypeOK, TipoRelatorios, TipoObra, TipoTarefas, IntOuNulo

LEMMA TipoPartes ==
  ASSUME TypeOK
  PROVE  /\ balanco \in BalancoDoc /\ TipoRelatorios /\ TipoObra /\ TipoTarefas
         /\ perdido \in BOOLEAN
  BY DEF TypeOK, TipoRelatorios, TipoObra, TipoTarefas, IntOuNulo

LEMMA NaFaseTipo ==
  ASSUME TypeOK, obra # Nenhum
  PROVE  /\ obra \in Obra({obra.lista})
         /\ ParcialEm(obra.lista, IntOuNulo)
  BY DEF TypeOK, IntOuNulo

(* The phases of phase A. *)
LEMMA BaseAgregar == Base /\ (Agregar \/ Varrer) => Base'
<1> SUFFICES ASSUME Base, Agregar \/ Varrer PROVE Base'
  OBVIOUS
<1>1. /\ obra # Nenhum /\ TypeOK
      /\ obra \in Obra({obra.lista}) /\ ParcialEm(obra.lista, IntOuNulo)
  BY NaFaseTipo DEF Base, Agregar, Varrer, NaFase
<1>2. CASE Agregar
  <2>1. obra' = [obra EXCEPT !.fase = "varrer", !.lista = Contagem]
    BY <1>2 DEF Agregar
  <2>2. TipoObra'
    BY <1>1, <2>1, ContagemTipo DEF TipoObra, Obra
  <2>3. TypeOK'
    BY <1>1, <1>2, <2>2, TipoPartes, TipoTrabalho
       DEF Agregar, SoObra, TipoRelatorios, TipoTarefas
  <2>4. InvDoc' /\ InvObra'
    BY <1>1, <1>2 DEF Base, InvDoc, InvObra, Agregar, SoObra, Obra, NaFase, Congelado
  <2>5. QED
    BY <2>3, <2>4 DEF Base
<1>3. CASE Varrer
  <2> DEFINE lista == montarListaTrabalho(obra.lista, obra.zerar)
  <2>1. obra' = [obra EXCEPT !.fase = "gravar", !.lista = lista]
    BY <1>3 DEF Varrer
  <2>2. ParcialEm(lista, IntOuNulo) /\ DOMAIN lista \cap Kits = {}
    BY <1>1, ListaTipo
  <2> HIDE DEF lista
  <2>3. TipoObra'
    BY <1>1, <2>1, <2>2 DEF TipoObra, Obra
  <2>4. TypeOK'
    BY <1>1, <1>3, <2>3, TipoPartes, TipoTrabalho
       DEF Varrer, SoObra, TipoRelatorios, TipoTarefas
  <2>5. InvDoc' /\ InvObra'
    BY <1>1, <1>3, <2>1, <2>2
       DEF Base, InvDoc, InvObra, Varrer, SoObra, Obra, NaFase, Congelado
  <2>6. QED
    BY <2>4, <2>5 DEF Base
<1>4. QED
  BY <1>2, <1>3

LEMMA CorpoTipo ==
  ASSUME NEW lista, ParcialEm(lista, IntOuNulo), NEW i
  PROVE  /\ ParcialEm(CorpoShard(lista, i), ItemRelatorio)
         /\ DOMAIN CorpoShard(lista, i)
              = Fatia(DOMAIN lista, RELATORIO_BALANCO_SHARD_SIZE, i)
         /\ DOMAIN CorpoShard(lista, i) \subseteq DOMAIN lista
  BY DEF CorpoShard, ParcialEm, ItemRelatorio, IntOuNulo, Fatia

LEMMA BaseGravar == Base /\ (GravarShard \/ FixarLista) => Base'
<1> SUFFICES ASSUME Base, GravarShard \/ FixarLista PROVE Base'
  OBVIOUS
<1>1. /\ obra # Nenhum /\ TypeOK /\ balanco \in BalancoDoc /\ TipoRelatorios
      /\ obra \in Obra({obra.lista}) /\ ParcialEm(obra.lista, IntOuNulo)
  BY NaFaseTipo, TipoPartes DEF Base, GravarShard, FixarLista, NaFase
<1>2. CASE GravarShard
  <2>1. obra' = [obra EXCEPT !.gravados = @ + 1]
    BY <1>2 DEF GravarShard
  <2>2. TipoObra'
    BY <1>1, <2>1 DEF TipoObra, Obra
  <2> DEFINE corpo == CorpoShard(obra.lista, obra.gravados)
  <2>3. ParcialEm(corpo, ItemRelatorio) /\ obra.gravados \in Nat
    BY <1>1, CorpoTipo DEF Obra
  <2>4. relatorios' = [i \in DOMAIN relatorios \cup {obra.gravados} |->
                         IF i = obra.gravados THEN corpo ELSE relatorios[i]]
    BY <1>2 DEF GravarShard
  <2> HIDE DEF corpo
  <2>5. TipoRelatorios'
    BY <1>1, <2>3, <2>4 DEF TipoRelatorios, ParcialEm
  <2>6. TypeOK'
    BY <1>1, <1>2, <2>2, <2>5, TipoPartes, TipoTrabalho
       DEF GravarShard, SoObra, TipoTarefas
  <2>7. InvDoc' /\ InvObra'
    BY <1>1, <1>2, <2>1
       DEF Base, InvDoc, InvObra, GravarShard, SoObra, Obra, NaFase, Congelado
  <2>8. QED
    BY <2>6, <2>7 DEF Base
<1>3. CASE FixarLista
  <2> DEFINE n == NumShards
  <2>1. n \in Nat
    BY <1>1, FatiasTipo, BalancoAssumption DEF NumShards, ParcialEm
  <2>2. /\ obra' = [obra EXCEPT !.fase = "aplicar", !.shards = n,
                                !.lista = <<>>, !.gravados = 0]
        /\ balanco' = [balanco EXCEPT !.shards = n, !.shardCursor = 0]
    BY <1>3 DEF FixarLista
  <2> HIDE DEF n
  <2>a. ParcialEm(<<>>, IntOuNulo)
    BY DEF ParcialEm
  <2>3. TipoObra'
    BY <1>1, <2>1, <2>2, <2>a DEF TipoObra, Obra
  <2>4. balanco' \in BalancoDoc
    BY <1>1, <2>1, <2>2 DEF BalancoDoc
  <2>5. TypeOK'
    BY <1>1, <1>3, <2>3, <2>4, TipoPartes, TipoTrabalho
       DEF FixarLista, SoObra, TipoTarefas, TipoRelatorios
  <2>6. n # Nenhum
    BY <2>1, BalancoAssumption
  <2>7. InvDoc' /\ InvObra'
    BY <1>1, <1>3, <2>2, <2>6
       DEF Base, InvDoc, InvObra, FixarLista, SoObra, Obra, NaFase, Congelado, BalancoDoc
  <2>8. QED
    BY <2>5, <2>7 DEF Base
<1>4. QED
  BY <1>2, <1>3

LEMMA BasePassar == Base /\ (AvancarCursor \/ Pausar \/ Concluir \/ Responder) => Base'
<1> SUFFICES ASSUME Base, AvancarCursor \/ Pausar \/ Concluir \/ Responder PROVE Base'
  OBVIOUS
<1>1. /\ obra # Nenhum /\ TypeOK /\ balanco \in BalancoDoc /\ TipoRelatorios
      /\ obra \in Obra({obra.lista}) /\ ParcialEm(obra.lista, IntOuNulo) /\ TipoTarefas
  BY NaFaseTipo, TipoPartes DEF Base, AvancarCursor, Pausar, Concluir, Responder, NoShard, NaFase
<1>2. CASE AvancarCursor
  <2> DEFINE c == obra.cursor + 1
             k == balanco.produtosAplicados + obra.aplicados
  <2>a. /\ obra' = [obra EXCEPT !.cursor = c, !.chunk = 0, !.aplicados = 0,
                                !.virou = TRUE]
        /\ balanco' = [balanco EXCEPT !.shardCursor = c, !.produtosAplicados = k]
    BY <1>2 DEF AvancarCursor
  <2>c. c \in Nat /\ k \in Nat
    BY <1>1 DEF Obra, BalancoDoc
  <2> HIDE DEF c, k
  <2>b. TipoObra'
    BY <1>1, <2>a, <2>c DEF TipoObra, Obra
  <2>d. balanco' \in BalancoDoc
    BY <1>1, <2>a, <2>c DEF BalancoDoc
  <2>1. TipoObra' /\ balanco' \in BalancoDoc
    BY <2>b, <2>d
  <2>2. TypeOK'
    BY <1>1, <1>2, <2>1, TipoPartes, TipoTrabalho
       DEF AvancarCursor, SoObra, TipoTarefas, TipoRelatorios
  <2>3. InvDoc' /\ InvObra'
    BY <1>1, <1>2
       DEF Base, InvDoc, InvObra, AvancarCursor, SoObra, Obra, NoShard, NaFase, Congelado, BalancoDoc
  <2>4. QED
    BY <2>2, <2>3 DEF Base
<1>3. CASE Pausar
  <2>1. TipoObra' /\ TipoTarefas'
    BY <1>1, <1>3, BalancoAssumption DEF Pausar, TipoObra, Obra, TipoTarefas
  <2>2. TypeOK'
    BY <1>1, <1>3, <2>1, TipoPartes, TipoTrabalho
       DEF Pausar, SoObra, TipoRelatorios
  <2>3. InvDoc' /\ InvObra'
    BY <1>1, <1>3, BalancoAssumption
       DEF Base, InvDoc, InvObra, Pausar, SoObra, Obra, NoShard, NaFase, Congelado, TipoTarefas
  <2>4. QED
    BY <2>2, <2>3 DEF Base
<1>4. CASE Concluir
  <2>1. TipoObra' /\ balanco' \in BalancoDoc
    BY <1>1, <1>4 DEF Concluir, TipoObra, Obra, BalancoDoc, EstadoBalanco
  <2>2. TypeOK'
    BY <1>1, <1>4, <2>1, TipoPartes, TipoTrabalho
       DEF Concluir, SoObra, TipoTarefas, TipoRelatorios
  <2>3. InvDoc' /\ InvObra'
    BY <1>1, <1>4, BalancoAssumption
       DEF Base, InvDoc, InvObra, Concluir, SoObra, Obra, NaFase, Congelado, BalancoDoc
  <2>4. QED
    BY <2>2, <2>3 DEF Base
<1>5. CASE Responder
  <2>1. TipoObra' /\ TipoTarefas'
    BY <1>1, <1>5 DEF Responder, TipoObra, TipoTarefas
  <2>2. TypeOK'
    BY <1>1, <1>5, <2>1, TipoPartes, TipoTrabalho
       DEF Responder, SoObra, TipoRelatorios
  <2>3. InvDoc' /\ InvObra'
    BY <1>5 DEF Base, InvDoc, InvObra, Responder, SoObra, Congelado
  <2>4. QED
    BY <2>2, <2>3 DEF Base
<1>6. QED
  BY <1>2, <1>3, <1>4, <1>5

LEMMA ContadorTipo ==
  ASSUME NEW doc \in Contador \cup {Nenhum}
  PROVE  /\ ContadorOuZero(doc) \in Contador
         /\ ContadorOuZero(doc).quantidade \in Int
         /\ ContadorOuZero(doc).quantidadeReservada \in Int
  BY BalancoAssumption DEF ContadorOuZero, Contador

LEMMA ShardTipo ==
  ASSUME TypeOK
  PROVE  ParcialEm(ShardAtual, ItemRelatorio)
<1>1. ParcialEm(<<>>, ItemRelatorio)
  BY DEF ParcialEm
<1>2. QED
  BY <1>1 DEF TypeOK, ShardAtual

LEMMA ContadoTipo ==
  ASSUME NEW item \in ItemRelatorio
  PROVE  Contado(item) \in Int
  BY DEF Contado, ItemRelatorio

(* What one chunk does, produto by produto and line by line. *)
LEMMA ChunkFatos ==
  ASSUME Base, aplicarChunk
  PROVE  /\ TypeOK /\ Congelado /\ obra # Nenhum /\ obra.fase = "aplicar"
         /\ obra \in Obra({obra.lista}) /\ ParcialEm(obra.lista, IntOuNulo)
         /\ obra.cursor \in Nat /\ obra.chunk \in Nat /\ obra.cursor < obra.shards
         /\ obra.shards = balanco.shards
         /\ ParcialEm(ShardAtual, ItemRelatorio)
         /\ UNCHANGED <<balanco, lancamentos, outros, tarefas, chamadas, movidos, perdido>>
  BY NaFaseTipo, ShardTipo DEF Base, InvObra, aplicarChunk, NoShard, NaFase, Obra

LEMMA ChunkEscritas ==
  ASSUME Base, aplicarChunk,
         NEW chunk, chunk = Fatia(DOMAIN ShardAtual, PRODUTOS_POR_TRANSACAO, obra.chunk)
  PROVE  /\ chunk \subseteq DOMAIN ShardAtual /\ chunk \subseteq Produtos
         /\ AAplicar(chunk) \subseteq chunk
         /\ AplicarA(chunk)
         /\ \A p \in AAplicar(chunk) :
              /\ historicos[p] = Nenhum
              /\ Contado(ShardAtual[p]) \in Int
              /\ EstoqueContado(p, Contado(ShardAtual[p])) \in Contador
              /\ LinhaBalanco(p, Contado(ShardAtual[p])) \in LinhaRazao
<1>1. TypeOK /\ ParcialEm(ShardAtual, ItemRelatorio)
  BY ChunkFatos
<1>2. chunk \subseteq DOMAIN ShardAtual /\ chunk \subseteq Produtos
  BY <1>1 DEF Fatia, ParcialEm
<1>3. AAplicar(chunk) \subseteq chunk
  BY DEF AAplicar
<1>4. AplicarA(chunk)
  BY DEF aplicarChunk
<1>5. ASSUME NEW p \in AAplicar(chunk)
      PROVE  /\ historicos[p] = Nenhum
             /\ Contado(ShardAtual[p]) \in Int
             /\ EstoqueContado(p, Contado(ShardAtual[p])) \in Contador
             /\ LinhaBalanco(p, Contado(ShardAtual[p])) \in LinhaRazao
  <2>1. historicos[p] = Nenhum
    BY DEF AAplicar, JaAplicado
  <2>2. ShardAtual[p] \in ItemRelatorio
    BY <1>1, <1>2, <1>3 DEF ParcialEm
  <2>3. Contado(ShardAtual[p]) \in Int
    BY <2>2, ContadoTipo
  <2> DEFINE n == Contado(ShardAtual[p])
  <2>4. estoques[p] \in Contador \cup {Nenhum}
    BY <1>1, <1>2, <1>3 DEF TypeOK
  <2>5. ContadorOuZero(estoques[p]).quantidade \in Int
        /\ ContadorOuZero(estoques[p]).quantidadeReservada \in Int
    BY <2>4, ContadorTipo
  <2>6. n \in Int
    BY <2>3
  <2> HIDE DEF n
  <2>7. EstoqueContado(p, n) \in Contador /\ LinhaBalanco(p, n) \in LinhaRazao
    BY <2>5, <2>6 DEF EstoqueContado, LinhaBalanco, Contador, LinhaRazao, Maior
  <2>8. QED
    BY <2>1, <2>3, <2>7 DEF n
<1>6. QED
  BY <1>2, <1>3, <1>4, <1>5

LEMMA BaseChunk == Base /\ aplicarChunk => Base'
<1> SUFFICES ASSUME Base, aplicarChunk PROVE Base'
  OBVIOUS
<1> DEFINE shard == ShardAtual
           chunk == Fatia(DOMAIN shard, PRODUTOS_POR_TRANSACAO, obra.chunk)
           depois == [p \in DOMAIN shard |->
             IF p \in Vistos(chunk)
             THEN [shard[p] EXCEPT !.estoque = ContadorOuZero(estoques[p]).quantidade]
             ELSE shard[p]]
           n == Cardinality(AAplicar(chunk))
<1>1. /\ TypeOK /\ Congelado /\ obra # Nenhum /\ obra.fase = "aplicar"
      /\ obra \in Obra({obra.lista}) /\ ParcialEm(obra.lista, IntOuNulo)
      /\ ParcialEm(shard, ItemRelatorio)
      /\ UNCHANGED <<balanco, lancamentos, outros, tarefas, chamadas, movidos, perdido>>
  BY ChunkFatos
<1>2. /\ chunk \subseteq Produtos
      /\ AAplicar(chunk) \subseteq chunk
      /\ AplicarA(chunk)
      /\ \A p \in AAplicar(chunk) :
           /\ EstoqueContado(p, Contado(ShardAtual[p])) \in Contador
           /\ LinhaBalanco(p, Contado(ShardAtual[p])) \in LinhaRazao
  BY ChunkEscritas
<1>3. /\ estoques' = [p \in Produtos |->
           IF p \in AAplicar(chunk) THEN EstoqueContado(p, Contado(shard[p])) ELSE estoques[p]]
      /\ historicos' = [p \in Produtos |->
           IF p \in AAplicar(chunk) THEN LinhaBalanco(p, Contado(shard[p])) ELSE historicos[p]]
      /\ relatorios' = [relatorios EXCEPT ![obra.cursor] = depois]
      /\ obra' = [obra EXCEPT !.chunk = @ + 1, !.aplicados = @ + n]
  BY <1>2 DEF AplicarA
<1>4. n \in Nat
  BY <1>2, BalancoAssumption, FS_Subset, FS_CardinalityType
<1>5. \A p \in DOMAIN shard :
        ContadorOuZero(estoques[p]).quantidade \in Int /\ shard[p] \in ItemRelatorio
  BY <1>1, ContadorTipo DEF TypeOK, ParcialEm
<1>6. ParcialEm(depois, ItemRelatorio)
  BY <1>1, <1>5 DEF ParcialEm, ItemRelatorio
<1> HIDE DEF depois, n, chunk, shard
<1>7. TipoRelatorios'
  BY <1>1, <1>3, <1>6, TipoPartes DEF TipoRelatorios
<1>8. TipoObra'
  <2> DEFINE c == obra.chunk + 1
             k == obra.aplicados + n
  <2>1. c \in Nat /\ k \in Nat
    BY <1>1, <1>4 DEF Obra
  <2>2. obra' = [obra EXCEPT !.chunk = c, !.aplicados = k]
    BY <1>3
  <2> HIDE DEF c, k
  <2>3. QED
    BY <1>1, <2>1, <2>2 DEF TipoObra, Obra
<1>9. estoques' \in [Produtos -> Contador \cup {Nenhum}]
      /\ historicos' \in [Produtos -> LinhaRazao \cup {Nenhum}]
  BY <1>1, <1>2, <1>3 DEF TypeOK, shard
<1>10. TypeOK'
  BY <1>1, <1>7, <1>8, <1>9 DEF TypeOK, TipoRelatorios, TipoObra, IntOuNulo
<1>11. InvDoc' /\ InvObra'
  BY <1>1, <1>3 DEF Base, InvDoc, InvObra, Obra, Congelado
<1>12. QED
  BY <1>10, <1>11 DEF Base

LEMMA DevolvidaTipo ==
  ASSUME TypeOK, NEW t \in Tarefas, tarefas[t] # Nenhum
  PROVE  Devolvida(t) \in (0..BALANCO_MAX_ATTEMPTS - 1) \cup {Nenhum}
<1>1. tarefas[t] \in 0..BALANCO_MAX_ATTEMPTS - 1
  BY DEF TypeOK
<1>2. QED
  BY <1>1, BalancoAssumption DEF Devolvida

LEMMA BaseQueda == Base /\ (Falhar \/ Morrer) => Base'
<1> SUFFICES ASSUME Base, Falhar \/ Morrer PROVE Base'
  OBVIOUS
<1>1. /\ obra # Nenhum /\ TypeOK /\ balanco \in BalancoDoc /\ TipoRelatorios
      /\ TipoTarefas /\ obra.tarefa \in Tarefas /\ tarefas[obra.tarefa] # Nenhum
  BY NaFaseTipo, TipoPartes DEF Base, Falhar, Morrer, InvObra, Obra
<1>2. Devolvida(obra.tarefa) \in (0..BALANCO_MAX_ATTEMPTS - 1) \cup {Nenhum}
  BY <1>1, DevolvidaTipo
<1>3. obra' = Nenhum /\ TipoObra' /\ InvObra'
  BY DEF Falhar, Morrer, TipoObra, InvObra
<1>4. TipoTarefas'
  BY <1>1, <1>2 DEF TipoTarefas, Falhar, Morrer
<1>5. balanco' = balanco \/ balanco' = Estacionado(balanco)
  BY DEF Falhar, Morrer
<1>6. balanco' \in BalancoDoc
  BY <1>1, <1>5 DEF BalancoDoc, Estacionado, EstadoBalanco
<1>7. (perdido \in BOOLEAN)'
  BY TipoPartes, <1>1 DEF Falhar, Morrer, SoObra
<1>8. UNCHANGED <<lancamentos, relatorios, estoques, historicos, outros, chamadas, movidos>>
  BY DEF Falhar, Morrer, SoObra
<1>9. TypeOK'
  BY <1>1, <1>3, <1>4, <1>6, <1>7, <1>8, TipoTrabalho DEF TipoRelatorios
<1>10. InvDoc'
  BY <1>1, <1>3, <1>5, <1>8, BalancoAssumption
     DEF Base, InvDoc, Estacionado, BalancoDoc, Congelado
<1>11. QED
  BY <1>3, <1>9, <1>10 DEF Base

LEMMA BaseLeitura == Base /\ (\E t \in Tarefas : FalharLeitura(t)) => Base'
<1> SUFFICES ASSUME Base, NEW t \in Tarefas, FalharLeitura(t) PROVE Base'
  OBVIOUS
<1>1. /\ TypeOK /\ TipoTarefas /\ TipoRelatorios /\ TipoObra
      /\ Devolvida(t) \in (0..BALANCO_MAX_ATTEMPTS - 1) \cup {Nenhum}
  BY TipoPartes, DevolvidaTipo DEF Base, FalharLeitura
<1>2. /\ obra = Nenhum /\ tarefas' = [tarefas EXCEPT ![t] = Devolvida(t)]
      /\ perdido' \in BOOLEAN
      /\ UNCHANGED <<balanco, lancamentos, relatorios, estoques, historicos, outros,
                     chamadas, obra, movidos>>
  BY TipoPartes, <1>1 DEF FalharLeitura
<1>3. TypeOK'
  BY <1>1, <1>2 DEF TypeOK
<1>4. InvDoc' /\ InvObra'
  BY <1>2 DEF Base, InvDoc, InvObra, Congelado
<1>5. QED
  BY <1>3, <1>4 DEF Base

LEMMA BaseDespachar == Base /\ (\E t \in Tarefas : Despachar(t)) => Base'
<1> SUFFICES ASSUME Base, NEW t \in Tarefas, Despachar(t) PROVE Base'
  OBVIOUS
<1>1. TypeOK /\ balanco \in BalancoDoc /\ TipoRelatorios /\ TipoTarefas
  BY TipoPartes DEF Base
<1>2. UNCHANGED <<balanco, lancamentos, relatorios, estoques, historicos, outros,
                  chamadas, movidos, perdido>>
  BY DEF Despachar
<1>3. CASE balanco.estado = "finalizando"
  <2>1. obra' = NovaObra(t) /\ tarefas' = tarefas /\ tarefas[t] # Nenhum
    BY <1>3 DEF Despachar
  <2>2. ParcialEm(<<>>, IntOuNulo)
    BY DEF ParcialEm
  <2>3. NovaObra(t) \in Obra({<<>>}) /\ NovaObra(t).lista = <<>>
    BY <1>1 DEF NovaObra, Obra, BalancoDoc
  <2>4. TipoObra'
    BY <2>1, <2>2, <2>3 DEF TipoObra
  <2>5. TypeOK'
    BY <1>1, <1>2, <2>1, <2>4, TipoTrabalho, TipoPartes DEF TipoRelatorios, TipoTarefas
  <2>6. InvDoc' /\ InvObra'
    BY <1>1, <1>2, <1>3, <2>1, BalancoAssumption
       DEF Base, InvDoc, InvObra, NovaObra, Congelado, BalancoDoc
  <2>7. QED
    BY <2>5, <2>6 DEF Base
<1>4. CASE balanco.estado # "finalizando"
  <2>1. obra = Nenhum /\ obra' = obra /\ tarefas' = [tarefas EXCEPT ![t] = Nenhum]
    BY <1>4 DEF Despachar
  <2>2. TipoObra' /\ TipoTarefas'
    BY <1>1, <2>1 DEF TipoObra, TipoTarefas
  <2>3. TypeOK'
    BY <1>1, <1>2, <2>2, TipoTrabalho, TipoPartes DEF TipoRelatorios
  <2>4. InvDoc' /\ InvObra'
    BY <1>2, <2>1 DEF Base, InvDoc, InvObra, Congelado
  <2>5. QED
    BY <2>3, <2>4 DEF Base
<1>5. QED
  BY <1>3, <1>4

LEMMA BaseTelas ==
  ASSUME Base,
         \/ \E l \in Lancamentos, marca \in {"valido", "removido"} : Lancar(l, marca)
         \/ \E m \in Movimentos : Movimentar(m[1], m[2])
         \/ UNCHANGED vars
  PROVE  Base'
<1>1. TypeOK
  BY DEF Base
<1>2. CASE \E l \in Lancamentos, marca \in {"valido", "removido"} : Lancar(l, marca)
  <2>1. UNCHANGED <<balanco, relatorios, estoques, historicos, outros, tarefas,
                    chamadas, obra, movidos, perdido>>
    BY <1>2 DEF Lancar
  <2>2. lancamentos' \in [Lancamentos -> {"ausente", "valido", "removido"}]
    BY <1>1, <1>2 DEF Lancar, TypeOK
  <2>3. TypeOK'
    BY <1>1, <2>1, <2>2 DEF TypeOK
  <2>4. QED
    BY <2>1, <2>3 DEF Base, InvDoc, InvObra, Congelado
<1>3. CASE \E m \in Movimentos : Movimentar(m[1], m[2])
  <2>1. PICK p \in Produtos, delta \in Contador : Movimentar(p, delta)
    BY <1>3, BalancoAssumption
  <2> DEFINE antes == ContadorOuZero(estoques[p])
             r     == Maior(0, antes.quantidadeReservada + delta.quantidadeReservada)
             doc   == [quantidade |-> antes.quantidade + delta.quantidade,
                       quantidadeReservada |-> r]
             linha == [movimento |-> outros[p].movimento + delta.quantidade,
                       movimentoReservada |-> outros[p].movimentoReservada
                                                + (r - antes.quantidadeReservada)]
  <2>2. /\ antes.quantidade \in Int /\ antes.quantidadeReservada \in Int
        /\ delta.quantidade \in Int /\ delta.quantidadeReservada \in Int
        /\ outros[p].movimento \in Int /\ outros[p].movimentoReservada \in Int
    BY <1>1, ContadorTipo DEF TypeOK, Contador, LinhaRazao
  <2>3. /\ estoques' = [estoques EXCEPT ![p] = doc]
        /\ outros' = [outros EXCEPT ![p] = linha]
        /\ movidos < MaxMovimentos /\ movidos' = movidos + 1
        /\ UNCHANGED <<balanco, lancamentos, relatorios, historicos, tarefas,
                       chamadas, obra, perdido>>
    BY <2>1 DEF Movimentar
  <2>4. doc \in Contador /\ linha \in LinhaRazao
    BY <2>2 DEF Contador, LinhaRazao, Maior
  <2> HIDE DEF doc, linha
  <2>5. /\ estoques' \in [Produtos -> Contador \cup {Nenhum}]
        /\ outros' \in [Produtos -> LinhaRazao]
        /\ movidos' \in 0..MaxMovimentos
    BY <1>1, <2>3, <2>4, BalancoAssumption DEF TypeOK
  <2>6. TypeOK'
    BY <1>1, <2>3, <2>5 DEF TypeOK
  <2>7. QED
    BY <2>3, <2>6 DEF Base, InvDoc, InvObra, Congelado
<1>4. CASE UNCHANGED vars
  BY <1>4 DEF vars, Base, TypeOK, InvDoc, InvObra, Congelado
<1>5. QED
  BY <1>2, <1>3, <1>4

LEMMA PassosDeNext ==
  Next <=>
    \/ \E l \in Lancamentos, marca \in {"valido", "removido"} : Lancar(l, marca)
    \/ \E m \in Movimentos : Movimentar(m[1], m[2])
    \/ Chamada
    \/ \E t \in Tarefas : Despachar(t)
    \/ \E t \in Tarefas : FalharLeitura(t)
    \/ Agregar \/ Varrer \/ GravarShard \/ FixarLista \/ aplicarChunk
    \/ AvancarCursor \/ Pausar \/ Concluir \/ Responder
    \/ Falhar \/ Morrer
  BY DEF Next, Chamada, Trabalhar

LEMMA BasePasso == Base /\ [Next]_vars => Base'
  BY PassosDeNext, BaseTelas, BaseChamada, BaseDespachar, BaseLeitura, BaseAgregar, BaseGravar,
     BaseChunk, BasePassar, BaseQueda

LEMMA BaseSempre == Spec => []Base
  BY BaseInicial, BasePasso, PTL DEF Spec

(* Every state of the balanço, its report, the stock, the queue and the    *)
(* dispatch has its type.                                                  *)
THEOREM TipoBalanco == Spec => []TypeOK
<1>1. Base => TypeOK
  BY DEF Base
<1>2. QED
  BY <1>1, BaseSempre, PTL

-----------------------------------------------------------------------------
(***************************************************************************)
(* Second layer: the report shards.  Most steps leave them alone.          *)
(***************************************************************************)
Telas ==
  \/ \E l \in Lancamentos, marca \in {"valido", "removido"} : Lancar(l, marca)
  \/ \E m \in Movimentos : Movimentar(m[1], m[2])
  \/ UNCHANGED vars

Passagem ==
  \/ \E t \in Tarefas : Despachar(t)
  \/ \E t \in Tarefas : FalharLeitura(t)
  \/ Agregar \/ AvancarCursor \/ Pausar \/ Concluir \/ Responder
  \/ Falhar \/ Morrer

LEMMA PassosAgrupados ==
  [Next]_vars =>
    Telas \/ Chamada \/ Passagem \/ Varrer \/ GravarShard \/ FixarLista \/ aplicarChunk
  BY PassosDeNext DEF Telas, Passagem

LEMMA TelasQuietas ==
  ASSUME Telas
  PROVE  UNCHANGED <<balanco, relatorios, historicos, tarefas, chamadas, obra, perdido>>
  BY DEF Telas, Lancar, Movimentar, vars

(* Taking the lock, parking and the enqueue keep the checkpoint. *)
LEMMA ChamadaQuieta ==
  ASSUME Base, Chamada
  PROVE  /\ UNCHANGED <<relatorios, historicos, estoques, outros, obra>>
         /\ balanco'.shards = balanco.shards
         /\ balanco'.shardCursor = balanco.shardCursor
         /\ balanco'.finalizado = balanco.finalizado
<1>1. balanco \in BalancoDoc
  BY TipoPartes DEF Base
<1>2. CASE \E o \in Operadores, zerar \in BOOLEAN : tomarTravaBalanco(o, zerar)
  <2>1. PICK o \in Operadores, zerar \in BOOLEAN : tomarTravaBalanco(o, zerar)
    BY <1>2
  <2>2. balanco.estado = Nenhum \/ balanco.estado = "erro"
    BY <2>1 DEF tomarTravaBalanco, podeFinalizarBalanco
  <2>3. balanco.estado # "erro" => balanco.shards = Nenhum /\ balanco.shardCursor = 0
    BY <2>2 DEF Base, InvDoc, Congelado
  <2>4. QED
    BY <1>1, <2>1, <2>3 DEF tomarTravaBalanco, Trancado
<1>3. CASE ~\E o \in Operadores, zerar \in BOOLEAN : tomarTravaBalanco(o, zerar)
  BY <1>1, <1>3 DEF Chamada, Enfileirar, FalharEnfileirar, Estacionar, Estacionado,
     MorrerChamada, DepoisDaTrava, BalancoDoc
<1>4. QED
  BY <1>2, <1>3

LEMMA PassagemQuieta ==
  ASSUME Base, Passagem
  PROVE  /\ UNCHANGED <<relatorios, historicos, estoques, outros>>
         /\ balanco'.shards = balanco.shards
         /\ ~NaFase("gravar")'
<1>1. balanco \in BalancoDoc /\ (obra # Nenhum => obra \in Obra({obra.lista}))
  BY TipoPartes, NaFaseTipo DEF Base
<1>2. UNCHANGED <<relatorios, historicos, estoques, outros>>
  BY DEF Passagem, Despachar, FalharLeitura, Agregar, AvancarCursor, Pausar, Concluir, Responder,
     Falhar, Morrer, SoObra
<1>3. balanco'.shards = balanco.shards
  BY <1>1 DEF Passagem, Despachar, FalharLeitura, Agregar, AvancarCursor, Pausar, Concluir, Responder,
     Falhar, Morrer, Estacionado, BalancoDoc
<1>4. ~NaFase("gravar")'
  <2>1. CASE \E t \in Tarefas : Despachar(t)
    BY <2>1 DEF Despachar, NovaObra, NaFase
  <2>2. CASE Agregar \/ Pausar \/ Concluir
    BY <1>1, <2>2 DEF Agregar, Pausar, Concluir, NaFase, NoShard, Obra
  <2>3. CASE AvancarCursor
    <3>1. obra.fase = "aplicar" /\ obra'.fase = obra.fase
      BY <1>1, <2>3 DEF AvancarCursor, NoShard, NaFase, Obra
    <3>2. QED
      BY <3>1 DEF NaFase
  <2>4. CASE Responder \/ Falhar \/ Morrer
    BY <2>4 DEF Responder, Falhar, Morrer, NaFase
  <2>5. CASE \E t \in Tarefas : FalharLeitura(t)
    BY <2>5 DEF FalharLeitura, NaFase
  <2>6. QED
    BY <2>1, <2>2, <2>3, <2>4, <2>5 DEF Passagem
<1>5. QED
  BY <1>2, <1>3, <1>4

Listas == InvGravados /\ InvLista

LEMMA ListasMantidas ==
  ASSUME Listas, relatorios' = relatorios, balanco'.shards = balanco.shards,
         obra' = obra \/ ~NaFase("gravar")'
  PROVE  Listas'
  BY DEF Listas, InvGravados, InvLista, NaFase, Congelado

LEMMA ListasGravar ==
  ASSUME Base, Listas, GravarShard
  PROVE  Listas'
<1>1. /\ obra # Nenhum /\ obra \in Obra({obra.lista}) /\ obra.fase = "gravar"
      /\ obra.gravados \in Nat /\ balanco' = balanco /\ ~Congelado
  BY NaFaseTipo DEF Base, InvObra, GravarShard, NaFase, Obra
<1>2. /\ relatorios' = [i \in DOMAIN relatorios \cup {obra.gravados} |->
                          IF i = obra.gravados THEN CorpoShard(obra.lista, i)
                          ELSE relatorios[i]]
      /\ obra' = [obra EXCEPT !.gravados = @ + 1]
  BY DEF GravarShard
<1>3. obra'.lista = obra.lista /\ obra'.gravados = obra.gravados + 1
  BY <1>1, <1>2 DEF Obra
<1>4. ASSUME NEW i \in Nat, i < obra.gravados + 1
      PROVE  i \in DOMAIN relatorios' /\ relatorios'[i] = CorpoShard(obra.lista, i)
  <2>1. CASE i = obra.gravados
    BY <1>2, <2>1
  <2>2. CASE i # obra.gravados
    <3>1. i < obra.gravados
      BY <1>1, <1>4, <2>2
    <3>2. i \in DOMAIN relatorios /\ relatorios[i] = CorpoShard(obra.lista, i)
      BY <1>1, <3>1 DEF Listas, InvGravados, NaFase
    <3>3. QED
      BY <1>2, <2>2, <3>2
  <2>3. QED
    BY <2>1, <2>2
<1>5. InvGravados'
  <2>1. \A i : CorpoShard(obra.lista, i)' = CorpoShard(obra.lista, i)
    BY <1>3 DEF CorpoShard, Fatia, Posicao
  <2>2. QED
    BY <1>3, <1>4, <2>1 DEF InvGravados
<1>6. InvLista'
  BY <1>1 DEF InvLista, Congelado
<1>7. QED
  BY <1>5, <1>6 DEF Listas

LEMMA ListasFixar ==
  ASSUME Base, Listas, FixarLista
  PROVE  Listas'
<1>1. /\ obra # Nenhum /\ obra \in Obra({obra.lista}) /\ obra.fase = "gravar"
      /\ ParcialEm(obra.lista, IntOuNulo) /\ balanco \in BalancoDoc
      /\ DOMAIN obra.lista \cap Kits = {}
  BY NaFaseTipo, TipoPartes DEF Base, InvObra, FixarLista, NaFase
<1>2. relatorios' = relatorios /\ obra.gravados = NumShards
      /\ balanco'.shards = NumShards /\ obra'.fase = "aplicar"
  BY <1>1 DEF FixarLista, Obra, BalancoDoc
<1>3. ASSUME NEW i \in Nat, i < NumShards
      PROVE  /\ i \in DOMAIN relatorios
             /\ DOMAIN relatorios[i]
                  = Fatia(DOMAIN obra.lista, RELATORIO_BALANCO_SHARD_SIZE, i)
             /\ DOMAIN relatorios[i] \subseteq DOMAIN obra.lista
  <2>1. i \in DOMAIN relatorios /\ relatorios[i] = CorpoShard(obra.lista, i)
    BY <1>1, <1>2, <1>3 DEF Listas, InvGravados, NaFase
  <2>2. QED
    BY <1>1, <2>1, CorpoTipo
<1>4. InvLista'
  BY <1>1, <1>2, <1>3 DEF InvLista, Fatia
<1>5. InvGravados'
  BY <1>2 DEF InvGravados, NaFase
<1>6. QED
  BY <1>4, <1>5 DEF Listas

(* The applied shard keeps its produtos and what was counted; the others   *)
(* are not touched.                                                        *)
LEMMA ChunkRelatorios ==
  ASSUME Base, Listas, aplicarChunk
  PROVE  /\ obra.cursor \in DOMAIN relatorios /\ ShardAtual = relatorios[obra.cursor]
         /\ DOMAIN relatorios' = DOMAIN relatorios
         /\ \A i \in DOMAIN relatorios : DOMAIN relatorios'[i] = DOMAIN relatorios[i]
         /\ \A i \in DOMAIN relatorios :
              i # obra.cursor => relatorios'[i] = relatorios[i]
<1>1. Congelado /\ obra.cursor \in Nat /\ obra.cursor < balanco.shards
  BY ChunkFatos
<1>2. obra.cursor \in DOMAIN relatorios
  BY <1>1 DEF Listas, InvLista
<1> DEFINE chunk == Fatia(DOMAIN ShardAtual, PRODUTOS_POR_TRANSACAO, obra.chunk)
           corpo == [p \in DOMAIN ShardAtual |->
             IF p \in Vistos(chunk)
             THEN [ShardAtual[p] EXCEPT !.estoque = ContadorOuZero(estoques[p]).quantidade]
             ELSE ShardAtual[p]]
<1>3. relatorios' = [relatorios EXCEPT ![obra.cursor] = corpo]
      /\ DOMAIN corpo = DOMAIN ShardAtual
  BY DEF aplicarChunk, AplicarA
<1> HIDE DEF corpo
<1>4. ShardAtual = relatorios[obra.cursor]
  BY <1>2 DEF ShardAtual
<1>5. QED
  BY <1>2, <1>3, <1>4

LEMMA ListasPasso ==
  ASSUME Base, Listas, [Next]_vars
  PROVE  Listas'
<1>1. CASE Telas
  BY <1>1, TelasQuietas, ListasMantidas
<1>2. CASE Chamada
  BY <1>2, ChamadaQuieta, ListasMantidas
<1>3. CASE Passagem
  BY <1>3, PassagemQuieta, ListasMantidas
<1>4. CASE Varrer
  <2>1. /\ obra # Nenhum /\ obra \in Obra({obra.lista}) /\ obra.gravados = 0
        /\ balanco' = balanco /\ relatorios' = relatorios
    BY <1>4, NaFaseTipo DEF Base, InvObra, Varrer, NaFase
  <2>2. obra'.gravados = 0
    BY <1>4, <2>1 DEF Varrer, Obra
  <2>3. QED
    BY <2>1, <2>2 DEF Listas, InvGravados, InvLista, Congelado
<1>5. CASE GravarShard
  BY <1>5, ListasGravar
<1>6. CASE FixarLista
  BY <1>6, ListasFixar
<1>7. CASE aplicarChunk
  <2>1. balanco' = balanco /\ obra.fase = "aplicar"
    BY <1>7, ChunkFatos
  <2>2. obra'.fase # "gravar"
    BY <1>7, <2>1, ChunkFatos DEF aplicarChunk, AplicarA, Obra
  <2>3. QED
    BY <1>7, <2>1, <2>2, ChunkRelatorios
       DEF Listas, InvGravados, InvLista, NaFase, Congelado
<1>8. QED
  BY <1>1, <1>2, <1>3, <1>4, <1>5, <1>6, <1>7, PassosAgrupados

LEMMA ListasSempre == Spec => [](Base /\ Listas)
<1>1. Init => Listas
  BY BalancoAssumption DEF Init, Listas, InvGravados, InvLista, NaFase, Congelado
<1>2. Base /\ Listas /\ [Next]_vars => Base' /\ Listas'
  BY BasePasso, ListasPasso
<1>3. QED
  BY <1>1, <1>2, BaseInicial, PTL DEF Spec

-----------------------------------------------------------------------------
(***************************************************************************)
(* Third layer: the report against the ledger and the checkpoint.          *)
(***************************************************************************)
ChunkAtual == Fatia(DOMAIN ShardAtual, PRODUTOS_POR_TRANSACAO, obra.chunk)

LEMMA ChunkLinhas ==
  ASSUME Base, Listas, aplicarChunk
  PROVE  /\ \A p \in Produtos :
              /\ p \in AAplicar(ChunkAtual) =>
                   historicos'[p] = LinhaBalanco(p, Contado(ShardAtual[p]))
              /\ p \notin AAplicar(ChunkAtual) => historicos'[p] = historicos[p]
         /\ \A p \in DOMAIN ShardAtual :
              /\ relatorios'[obra.cursor][p].contado = ShardAtual[p].contado
              /\ p \in Vistos(ChunkAtual) =>
                   /\ relatorios'[obra.cursor][p].estoque
                        = ContadorOuZero(estoques[p]).quantidade
                   /\ relatorios'[obra.cursor][p].estoque # Nenhum
              /\ p \notin Vistos(ChunkAtual) =>
                   relatorios'[obra.cursor][p] = ShardAtual[p]
<1>1. TypeOK /\ ParcialEm(ShardAtual, ItemRelatorio)
  BY ChunkFatos
<1>2. AplicarA(ChunkAtual)
  BY DEF aplicarChunk, ChunkAtual
<1>3. obra.cursor \in DOMAIN relatorios
  BY ChunkRelatorios
<1> DEFINE corpo == [p \in DOMAIN ShardAtual |->
             IF p \in Vistos(ChunkAtual)
             THEN [ShardAtual[p] EXCEPT !.estoque = ContadorOuZero(estoques[p]).quantidade]
             ELSE ShardAtual[p]]
<1>4. relatorios'[obra.cursor] = corpo
  BY <1>2, <1>3 DEF AplicarA
<1>5. ASSUME NEW p \in DOMAIN ShardAtual
      PROVE  ShardAtual[p] \in ItemRelatorio /\ ContadorOuZero(estoques[p]).quantidade # Nenhum
  <2>1. p \in Produtos /\ estoques[p] \in Contador \cup {Nenhum}
    BY <1>1 DEF TypeOK, ParcialEm
  <2>2. ContadorOuZero(estoques[p]).quantidade \in Int
    BY <2>1, ContadorTipo
  <2>3. QED
    BY <1>1, <2>2, BalancoAssumption DEF ParcialEm
<1>6. \A p \in DOMAIN ShardAtual :
        /\ corpo[p].contado = ShardAtual[p].contado
        /\ p \in Vistos(ChunkAtual) =>
             corpo[p].estoque = ContadorOuZero(estoques[p]).quantidade
        /\ p \notin Vistos(ChunkAtual) => corpo[p] = ShardAtual[p]
  BY <1>5 DEF ItemRelatorio
<1> HIDE DEF corpo
<1>7. \A p \in Produtos :
        /\ p \in AAplicar(ChunkAtual) =>
             historicos'[p] = LinhaBalanco(p, Contado(ShardAtual[p]))
        /\ p \notin AAplicar(ChunkAtual) => historicos'[p] = historicos[p]
  BY <1>2 DEF AplicarA
<1>8. QED
  BY <1>4, <1>5, <1>6, <1>7

(* A before value is never forgotten and a counted value never changed. *)
LEMMA LinhaMantida ==
  ASSUME Base, Listas, aplicarChunk, NEW i \in DOMAIN relatorios,
         NEW p \in DOMAIN relatorios[i]
  PROVE  /\ relatorios'[i][p].contado = relatorios[i][p].contado
         /\ relatorios[i][p].estoque # Nenhum => relatorios'[i][p].estoque # Nenhum
<1>1. CASE i = obra.cursor
  BY <1>1, ChunkLinhas, ChunkRelatorios
<1>2. CASE i # obra.cursor
  BY <1>2, ChunkRelatorios
<1>3. QED
  BY <1>1, <1>2

LEMMA ConfereChunk ==
  ASSUME Base, Listas, RelatorioConfere, aplicarChunk
  PROVE  RelatorioConfere'
<1>1. /\ TypeOK /\ Congelado /\ balanco' = balanco /\ obra.cursor \in Nat
      /\ obra.cursor < balanco.shards /\ ParcialEm(ShardAtual, ItemRelatorio)
  BY ChunkFatos
<1>2. Frozen' = Frozen
  BY <1>1, ChunkRelatorios DEF Frozen, Congelado
<1> SUFFICES ASSUME NEW i \in Frozen, NEW p \in DOMAIN relatorios[i],
                    historicos'[p] # Nenhum
             PROVE  /\ relatorios'[i][p].estoque # Nenhum
                    /\ historicos'[p].movimento
                         = Contado(relatorios'[i][p]) - relatorios'[i][p].estoque
  <2>1. Frozen' = Frozen /\ \A i \in Frozen : DOMAIN relatorios'[i] = DOMAIN relatorios[i]
    BY <1>2, ChunkRelatorios DEF Frozen
  <2>2. \A i, p : Contado(relatorios[i][p])' = Contado(relatorios'[i][p])
    BY DEF Contado
  <2>3. QED
    BY <2>1, <2>2 DEF RelatorioConfere
<1>3. i \in DOMAIN relatorios /\ i \in Nat /\ i < balanco.shards
  BY <1>1 DEF Frozen, TypeOK
<1>4. p \in Produtos
  BY <1>1, <1>3 DEF TypeOK, ParcialEm
<1>5. AAplicar(ChunkAtual) \subseteq Vistos(ChunkAtual)
      /\ AAplicar(ChunkAtual) \subseteq DOMAIN ShardAtual
  BY DEF AAplicar, Vistos, ChunkAtual, Fatia
<1>6. CASE p \in AAplicar(ChunkAtual)
  <2>1. i = obra.cursor
    <3>1. p \in DOMAIN relatorios[obra.cursor]
      BY <1>5, <1>6, ChunkRelatorios
    <3>2. QED
      BY <1>1, <1>3, <3>1 DEF Listas, InvLista
  <2>2. /\ relatorios'[i][p].estoque = ContadorOuZero(estoques[p]).quantidade
        /\ relatorios'[i][p].estoque # Nenhum
        /\ relatorios'[i][p].contado = ShardAtual[p].contado
        /\ historicos'[p] = LinhaBalanco(p, Contado(ShardAtual[p]))
    BY <1>4, <1>5, <1>6, <2>1, ChunkLinhas
  <2>3. historicos'[p].movimento
          = Contado(ShardAtual[p]) - ContadorOuZero(estoques[p]).quantidade
    BY <2>2 DEF LinhaBalanco
  <2>4. Contado(relatorios'[i][p]) = Contado(ShardAtual[p])
    BY <2>2 DEF Contado
  <2>5. QED
    BY <2>2, <2>3, <2>4
<1>7. CASE p \notin AAplicar(ChunkAtual)
  <2>1. historicos'[p] = historicos[p]
    BY <1>4, <1>7, ChunkLinhas
  <2>2. p \notin Vistos(ChunkAtual)
    BY <2>1 DEF Vistos, JaAplicado
  <2>3. relatorios'[i][p] = relatorios[i][p]
    <3>1. CASE i = obra.cursor
      BY <2>2, <3>1, ChunkLinhas, ChunkRelatorios
    <3>2. CASE i # obra.cursor
      BY <1>3, <3>2, ChunkRelatorios
    <3>3. QED
      BY <3>1, <3>2
  <2>4. QED
    BY <2>1, <2>3 DEF RelatorioConfere
<1>8. QED
  BY <1>6, <1>7

Relatorio == RelatorioConfere /\ InvChunk /\ InvCursor

LEMMA RelatorioChunk ==
  ASSUME Base, Listas, Relatorio, aplicarChunk
  PROVE  Relatorio'
<1>1. /\ TypeOK /\ Congelado /\ obra # Nenhum /\ obra.fase = "aplicar"
      /\ obra \in Obra({obra.lista}) /\ obra.cursor \in Nat /\ obra.chunk \in Nat
      /\ obra.cursor < obra.shards /\ obra.shards = balanco.shards
      /\ ParcialEm(ShardAtual, ItemRelatorio) /\ balanco' = balanco
  BY ChunkFatos
<1>2. RelatorioConfere'
  BY ConfereChunk DEF Relatorio
<1>3. InvCursor'
  <2>1. SUFFICES ASSUME NEW i \in Nat, i < balanco.shards,
                        i < balanco.shardCursor \/ balanco.finalizado,
                        NEW p \in DOMAIN relatorios'[i]
                 PROVE  relatorios'[i][p].estoque # Nenhum
    BY <1>1 DEF InvCursor
  <2>2. i \in DOMAIN relatorios
    BY <1>1, <2>1 DEF Listas, InvLista
  <2>3. p \in DOMAIN relatorios[i]
    BY <2>1, <2>2, ChunkRelatorios
  <2>4. relatorios[i][p].estoque # Nenhum
    BY <1>1, <2>1, <2>3 DEF Relatorio, InvCursor
  <2>5. QED
    BY <2>2, <2>3, <2>4, LinhaMantida
<1>4. InvChunk'
  <2>1. obra'.cursor = obra.cursor /\ obra'.chunk = obra.chunk + 1
    BY <1>1 DEF aplicarChunk, AplicarA, Obra
  <2>2. /\ obra.cursor \in DOMAIN relatorios' /\ ShardAtual = relatorios[obra.cursor]
        /\ DOMAIN relatorios'[obra.cursor] = DOMAIN ShardAtual
        /\ obra.cursor \in DOMAIN relatorios
    BY ChunkRelatorios
  <2>3. ShardAtual' = relatorios'[obra.cursor]
    BY <2>1, <2>2 DEF ShardAtual
  <2> DEFINE pos(p) == Posicao(DOMAIN ShardAtual, p) \div PRODUTOS_POR_TRANSACAO
  <2>4. \A p : (Posicao(DOMAIN ShardAtual, p) \div PRODUTOS_POR_TRANSACAO)' = pos(p)
    BY <2>2, <2>3 DEF Posicao
  <2>5. SUFFICES ASSUME NEW p \in DOMAIN ShardAtual, pos(p) < obra.chunk + 1
                 PROVE  relatorios'[obra.cursor][p].estoque # Nenhum
    <3>1. DOMAIN ShardAtual' = DOMAIN ShardAtual
      BY <2>2, <2>3
    <3>2. QED
      BY <2>1, <2>3, <2>4, <2>5, <3>1 DEF InvChunk
  <2>6. pos(p) \in Nat
    BY <1>1, FatiasCobrem, BalancoAssumption DEF ParcialEm
  <2>7. CASE pos(p) < obra.chunk
    <3>1. ShardAtual[p].estoque # Nenhum
      BY <1>1, <2>7 DEF Relatorio, InvChunk, NaFase
    <3>2. QED
      BY <2>2, <3>1, LinhaMantida
  <2>8. CASE pos(p) = obra.chunk
    <3>1. p \in ChunkAtual
      BY <2>8 DEF ChunkAtual, Fatia
    <3>2. CASE p \in Vistos(ChunkAtual)
      BY <3>2, ChunkLinhas
    <3>3. CASE p \notin Vistos(ChunkAtual)
      <4>1. historicos[p] # Nenhum
        BY <3>1, <3>3 DEF Vistos, JaAplicado
      <4>2. obra.cursor \in Frozen
        BY <1>1, <2>2 DEF Frozen
      <4>3. ShardAtual[p].estoque # Nenhum
        BY <2>2, <4>1, <4>2 DEF Relatorio, RelatorioConfere
      <4>4. QED
        BY <2>2, <4>3, LinhaMantida
    <3>4. QED
      BY <3>2, <3>3
  <2>9. QED
    BY <1>1, <2>5, <2>6, <2>7, <2>8
<1>5. QED
  BY <1>2, <1>3, <1>4 DEF Relatorio

(* Every line of a shard whose chunks are done has its before value. *)
LEMMA ShardCompleto ==
  ASSUME Base, Listas, Relatorio, AvancarCursor
  PROVE  \A p \in DOMAIN ShardAtual : ShardAtual[p].estoque # Nenhum
<1>1. ParcialEm(ShardAtual, ItemRelatorio) /\ obra.chunk = NumChunks
      /\ NaFase("aplicar") /\ obra.cursor < obra.shards
  BY ShardTipo DEF Base, AvancarCursor, ShardPronto, NoShard
<1>2. SUFFICES ASSUME NEW p \in DOMAIN ShardAtual
               PROVE  Posicao(DOMAIN ShardAtual, p) \div PRODUTOS_POR_TRANSACAO < obra.chunk
  BY <1>1 DEF Relatorio, InvChunk
<1>3. DOMAIN ShardAtual \in SUBSET Produtos
  BY <1>1 DEF ParcialEm
<1>4. PRODUTOS_POR_TRANSACAO \in Nat \ {0}
  BY BalancoAssumption
<1>5. Posicao(DOMAIN ShardAtual, p) \div PRODUTOS_POR_TRANSACAO
        < NumFatias(DOMAIN ShardAtual, PRODUTOS_POR_TRANSACAO)
  BY <1>3, <1>4, FatiasCobrem
<1>6. QED
  BY <1>1, <1>5 DEF NumChunks

(* A dispatch at the start of a shard has no chunk behind it. *)
LEMMA NoInicioDoShard ==
  ASSUME TypeOK, relatorios' = relatorios, NaFase("aplicar")' => obra'.chunk = 0
  PROVE  InvChunk'
<1>1. DOMAIN ShardAtual' \in SUBSET Produtos
  <2>1. \A i \in DOMAIN relatorios : DOMAIN relatorios[i] \subseteq Produtos
    BY DEF TypeOK, ParcialEm
  <2>2. QED
    BY <2>1 DEF ShardAtual
<1>2. \A S \in SUBSET Produtos : \A p \in S :
        Posicao(S, p) \div PRODUTOS_POR_TRANSACAO \in Nat
  BY FatiasCobrem, BalancoAssumption
<1>3. \A p \in DOMAIN ShardAtual' :
        (Posicao(DOMAIN ShardAtual, p) \div PRODUTOS_POR_TRANSACAO)' \in Nat
  BY <1>1, <1>2 DEF Posicao
<1>4. QED
  BY <1>3 DEF InvChunk

LEMMA RelatorioAvancar ==
  ASSUME Base, Listas, Relatorio, AvancarCursor
  PROVE  Relatorio'
<1>1. /\ obra # Nenhum /\ obra.fase = "aplicar" /\ obra \in Obra({obra.lista})
      /\ obra.cursor \in Nat /\ obra.cursor < obra.shards
      /\ Congelado /\ obra.shards = balanco.shards
      /\ obra.cursor = balanco.shardCursor /\ balanco \in BalancoDoc
      /\ TypeOK
  BY NaFaseTipo, TipoPartes DEF Base, InvObra, AvancarCursor, NoShard, NaFase, Obra
<1>2. /\ relatorios' = relatorios /\ historicos' = historicos
      /\ balanco'.shards = balanco.shards /\ balanco'.finalizado = balanco.finalizado
      /\ balanco'.shardCursor = obra.cursor + 1 /\ obra'.chunk = 0
  BY <1>1 DEF AvancarCursor, SoObra, BalancoDoc, Obra
<1>3. RelatorioConfere'
  BY <1>2 DEF Relatorio, RelatorioConfere, Frozen, Congelado, Contado
<1>4. InvChunk'
  BY <1>1, <1>2, NoInicioDoShard
<1>5. InvCursor'
  <2>1. SUFFICES ASSUME NEW i \in Nat, i < balanco.shards,
                        i < obra.cursor + 1 \/ balanco.finalizado,
                        NEW p \in DOMAIN relatorios[i]
                 PROVE  relatorios[i][p].estoque # Nenhum
    BY <1>2 DEF InvCursor
  <2>2. i \in DOMAIN relatorios
    BY <1>1, <2>1 DEF Listas, InvLista
  <2>3. CASE i = obra.cursor
    BY <2>2, <2>3, ShardCompleto DEF ShardAtual
  <2>4. CASE i # obra.cursor
    <3>1. i < balanco.shardCursor \/ balanco.finalizado
      BY <1>1, <2>1, <2>4
    <3>2. QED
      BY <1>1, <2>1, <3>1 DEF Relatorio, InvCursor
  <2>5. QED
    BY <2>3, <2>4
<1>6. QED
  BY <1>3, <1>4, <1>5 DEF Relatorio

(* Steps that keep report, ledger and checkpoint, and whose dispatch, if   *)
(* it applies, is the same or at the start of a shard.                     *)
LEMMA RelatorioMantido ==
  ASSUME TypeOK, Relatorio,
         relatorios' = relatorios, historicos' = historicos,
         balanco'.shards = balanco.shards, balanco'.shardCursor = balanco.shardCursor,
         balanco'.finalizado = balanco.finalizado,
         obra' = obra \/ (NaFase("aplicar")' => obra'.chunk = 0)
  PROVE  Relatorio'
<1>1. RelatorioConfere'
  BY DEF Relatorio, RelatorioConfere, Frozen, Congelado, Contado
<1>2. InvCursor'
  BY DEF Relatorio, InvCursor, Congelado
<1>3. CASE obra' = obra
  BY <1>1, <1>2, <1>3 DEF Relatorio, InvChunk, NaFase, ShardAtual, Posicao
<1>4. CASE NaFase("aplicar")' => obra'.chunk = 0
  BY <1>1, <1>2, <1>4, NoInicioDoShard DEF Relatorio
<1>5. QED
  BY <1>3, <1>4

LEMMA RelatorioPasso ==
  ASSUME Base, Listas, Relatorio, [Next]_vars
  PROVE  Relatorio'
<1>1. TypeOK /\ balanco \in BalancoDoc /\ (obra # Nenhum => obra \in Obra({obra.lista}))
  BY TipoPartes, NaFaseTipo DEF Base
<1>2. CASE Telas
  BY <1>1, <1>2, TelasQuietas, RelatorioMantido
<1>3. CASE Chamada
  BY <1>1, <1>3, ChamadaQuieta, RelatorioMantido
<1>4. CASE AvancarCursor
  BY <1>4, RelatorioAvancar
<1>5. CASE aplicarChunk
  BY <1>5, RelatorioChunk
<1>6. CASE Concluir
  <2>1. /\ obra # Nenhum /\ obra.fase = "aplicar" /\ obra.cursor >= obra.shards
        /\ Congelado /\ obra.shards = balanco.shards /\ balanco.shards \in Nat
        /\ obra.cursor = balanco.shardCursor /\ obra.cursor \in Nat
    BY <1>1, <1>6 DEF Base, InvObra, Concluir, NaFase, Obra, BalancoDoc, Congelado
  <2>2. /\ relatorios' = relatorios /\ historicos' = historicos
        /\ balanco'.shards = balanco.shards /\ obra'.fase = "responder"
    BY <1>1, <1>6, <2>1 DEF Concluir, SoObra, BalancoDoc, Obra
  <2>3. RelatorioConfere' /\ InvChunk'
    BY <2>2 DEF Relatorio, RelatorioConfere, InvChunk, Frozen, Congelado, Contado, NaFase
  <2>4. \A i \in Nat : i < balanco.shards => i < balanco.shardCursor
    BY <2>1
  <2>5. InvCursor'
    BY <2>1, <2>2, <2>4 DEF Relatorio, InvCursor, Congelado
  <2>6. QED
    BY <2>3, <2>5 DEF Relatorio
<1>7. CASE \E t \in Tarefas : Despachar(t) \/ FalharLeitura(t)
  <2>1. /\ balanco' = balanco /\ relatorios' = relatorios /\ historicos' = historicos
        /\ obra' = obra \/ obra'.chunk = 0
    BY <1>7 DEF Despachar, FalharLeitura, NovaObra
  <2>2. QED
    BY <1>1, <2>1, RelatorioMantido
<1>8. CASE Agregar \/ Varrer \/ Pausar
  <2>1. /\ balanco' = balanco /\ relatorios' = relatorios /\ historicos' = historicos
    BY <1>8 DEF Agregar, Varrer, Pausar, SoObra
  <2>2. ~NaFase("aplicar")'
    BY <1>1, <1>8 DEF Agregar, Varrer, Pausar, NaFase, NoShard, Obra
  <2>3. QED
    BY <1>1, <2>1, <2>2, RelatorioMantido
<1>9. CASE Responder \/ Falhar \/ Morrer
  <2>1. /\ relatorios' = relatorios /\ historicos' = historicos /\ ~NaFase("aplicar")'
    BY <1>9 DEF Responder, Falhar, Morrer, SoObra, NaFase
  <2>2. /\ balanco'.shards = balanco.shards /\ balanco'.shardCursor = balanco.shardCursor
        /\ balanco'.finalizado = balanco.finalizado
    BY <1>1, <1>9 DEF Responder, Falhar, Morrer, Estacionado, BalancoDoc
  <2>3. QED
    BY <1>1, <2>1, <2>2, RelatorioMantido
<1>10. CASE GravarShard
  <2>1. ~Congelado /\ balanco' = balanco /\ obra'.fase = "gravar"
    BY <1>1, <1>10 DEF Base, InvObra, GravarShard, NaFase, Obra
  <2>2. QED
    BY <2>1 DEF Relatorio, RelatorioConfere, InvChunk, InvCursor, Frozen, Congelado, NaFase
<1>11. CASE FixarLista
  <2>1. ~Congelado /\ obra # Nenhum /\ obra.chunk = 0
    BY <1>1, <1>11 DEF Base, InvObra, FixarLista, NaFase, Obra
  <2>2. /\ relatorios' = relatorios /\ historicos' = historicos
        /\ balanco'.shardCursor = 0 /\ obra'.chunk = 0
        /\ balanco'.finalizado = balanco.finalizado
    BY <1>1, <1>11, <2>1 DEF FixarLista, SoObra, BalancoDoc, Obra
  <2>3. ~balanco.finalizado /\ \A p \in Produtos : historicos[p] = Nenhum
    BY <2>1 DEF Base, InvDoc
  <2>4. \A i \in DOMAIN relatorios : DOMAIN relatorios[i] \subseteq Produtos
    BY <1>1 DEF TypeOK, ParcialEm
  <2>5. RelatorioConfere'
    BY <2>2, <2>3, <2>4 DEF RelatorioConfere, Frozen
  <2>6. InvCursor'
    BY <2>2, <2>3 DEF InvCursor
  <2>7. InvChunk'
    BY <1>1, <2>2, NoInicioDoShard
  <2>8. QED
    BY <2>5, <2>6, <2>7 DEF Relatorio
<1>12. QED
  BY <1>2, <1>3, <1>4, <1>5, <1>6, <1>7, <1>8, <1>9, <1>10, <1>11, PassosAgrupados
     DEF Passagem

RelatorioBase == Base /\ Listas /\ Relatorio

LEMMA RelatorioSempre == Spec => []RelatorioBase
<1>1. Init => Base /\ Listas /\ Relatorio
  <2>1. Init => Base
    BY BaseInicial
  <2>2. Init => Listas /\ Relatorio
    BY BalancoAssumption DEF Init, Listas, Relatorio, InvGravados, InvLista,
       RelatorioConfere, InvChunk, InvCursor, Frozen, NaFase, Congelado
  <2>3. QED
    BY <2>1, <2>2
<1>2. Base /\ Listas /\ Relatorio /\ [Next]_vars => Base' /\ Listas' /\ Relatorio'
  BY BasePasso, ListasPasso, RelatorioPasso
<1>3. QED
  BY <1>1, <1>2, PTL DEF Spec, RelatorioBase

(* Whatever dies, fails or sells meanwhile, a report line whose produto    *)
(* was set carries the value it replaced and explains the ledger row.      *)
THEOREM RelatorioExplicaRazao == Spec => []RelatorioConfere
<1>1. RelatorioBase => RelatorioConfere
  BY DEF RelatorioBase, Relatorio
<1>2. QED
  BY <1>1, RelatorioSempre, PTL

(* Every shard behind the checkpoint, and the whole list of a finalizado   *)
(* balanço, was seen by a transaction.                                     *)
THEOREM CheckpointSeguro == Spec => []CursorAtrasDoAplicado
<1>1. RelatorioBase => CursorAtrasDoAplicado
  <2>1. SUFFICES ASSUME RelatorioBase, Congelado, NEW i \in 0..balanco.shards - 1
                 PROVE  /\ i \in DOMAIN relatorios
                        /\ i < balanco.shardCursor \/ balanco.finalizado
                             => \A p \in DOMAIN relatorios[i] :
                                  relatorios[i][p].estoque # Nenhum
    BY DEF CursorAtrasDoAplicado
  <2>2. balanco.shards \in Nat
    BY <2>1, TipoPartes DEF RelatorioBase, Base, BalancoDoc, Congelado
  <2>3. i \in Nat /\ i < balanco.shards
    BY <2>1, <2>2
  <2>4. QED
    BY <2>1, <2>3 DEF RelatorioBase, Listas, InvLista, Relatorio, InvCursor
<1>2. QED
  BY <1>1, RelatorioSempre, PTL

-----------------------------------------------------------------------------
(***************************************************************************)
(* Fourth layer: the stock against the ledger.                             *)
(***************************************************************************)
(* A produto the balanço set has a stock document. *)
ComDocumento == \A p \in Produtos : historicos[p] # Nenhum => estoques[p] # Nenhum

Razao == RazaoExplicaEstoque /\ ComDocumento /\ KitNuncaContado

LEMMA RazaoMantida ==
  ASSUME Razao, UNCHANGED <<estoques, historicos, outros>>
  PROVE  Razao'
  BY DEF Razao, RazaoExplicaEstoque, ComDocumento, KitNuncaContado, Movido

(* The steps that touch neither stock nor ledger. *)
LEMMA SoChunkEMovimentoMexem ==
  ASSUME Base, [Next]_vars
  PROVE  \/ UNCHANGED <<estoques, historicos, outros>>
         \/ aplicarChunk
         \/ \E m \in Movimentos : Movimentar(m[1], m[2])
<1>1. CASE Telas
  BY <1>1 DEF Telas, Lancar, vars
<1>2. CASE Chamada
  BY <1>2, ChamadaQuieta
<1>3. CASE Passagem
  BY <1>3, PassagemQuieta
<1>4. CASE Varrer \/ GravarShard \/ FixarLista
  BY <1>4 DEF Varrer, GravarShard, FixarLista, SoObra
<1>5. QED
  BY <1>1, <1>2, <1>3, <1>4, PassosAgrupados

LEMMA MovimentoFatos ==
  ASSUME Base, NEW p \in Produtos, NEW delta \in Contador, Movimentar(p, delta)
  PROVE  LET antes == ContadorOuZero(estoques[p])
             r == Maior(0, antes.quantidadeReservada + delta.quantidadeReservada)
         IN /\ historicos' = historicos
            /\ estoques' = [estoques EXCEPT ![p] =
                 [quantidade |-> antes.quantidade + delta.quantidade,
                  quantidadeReservada |-> r]]
            /\ DOMAIN outros' = Produtos
            /\ \A q \in Produtos : q # p => outros'[q] = outros[q]
            /\ outros'[p].movimento = outros[p].movimento + delta.quantidade
            /\ outros'[p].movimentoReservada
                 = outros[p].movimentoReservada + (r - antes.quantidadeReservada)
            /\ antes.quantidade \in Int /\ antes.quantidadeReservada \in Int
            /\ delta.quantidade \in Int /\ r \in Int
            /\ outros[p].movimento \in Int /\ outros[p].movimentoReservada \in Int
<1>1. /\ estoques[p] \in Contador \cup {Nenhum} /\ outros \in [Produtos -> LinhaRazao]
  BY DEF Base, TypeOK
<1>2. /\ ContadorOuZero(estoques[p]).quantidade \in Int
      /\ ContadorOuZero(estoques[p]).quantidadeReservada \in Int
  BY <1>1, ContadorTipo
<1>3. delta.quantidade \in Int /\ delta.quantidadeReservada \in Int
      /\ outros[p].movimento \in Int /\ outros[p].movimentoReservada \in Int
  BY <1>1 DEF Contador, LinhaRazao
<1>4. QED
  BY <1>1, <1>2, <1>3 DEF Movimentar, Maior

LEMMA RazaoMovimento ==
  ASSUME Base, Razao, NEW p \in Produtos, NEW delta \in Contador, Movimentar(p, delta)
  PROVE  Razao'
<1> DEFINE antes == ContadorOuZero(estoques[p])
           r == Maior(0, antes.quantidadeReservada + delta.quantidadeReservada)
           doc == [quantidade |-> antes.quantidade + delta.quantidade,
                   quantidadeReservada |-> r]
<1>1. /\ historicos' = historicos
      /\ estoques' = [estoques EXCEPT ![p] = doc]
      /\ \A q \in Produtos : q # p => outros'[q] = outros[q]
      /\ outros'[p].movimento = outros[p].movimento + delta.quantidade
      /\ outros'[p].movimentoReservada
           = outros[p].movimentoReservada + (r - antes.quantidadeReservada)
      /\ antes.quantidade \in Int /\ antes.quantidadeReservada \in Int
      /\ delta.quantidade \in Int /\ r \in Int
      /\ outros[p].movimento \in Int /\ outros[p].movimentoReservada \in Int
  BY MovimentoFatos
<1>2. estoques \in [Produtos -> Contador \cup {Nenhum}]
      /\ historicos \in [Produtos -> LinhaRazao \cup {Nenhum}]
  BY DEF Base, TypeOK
<1>3. doc \in Contador /\ doc # Nenhum
  BY <1>1, BalancoAssumption DEF Contador
<1>4. ContadorOuZero(doc) = doc
  BY <1>3 DEF ContadorOuZero
<1>5. Movido(p).movimento \in Int /\ Movido(p).movimentoReservada \in Int
  BY <1>2 DEF Movido, SemMovimento, LinhaRazao
<1>6. ContadorOuZero(EstoquesIniciais[p]).quantidade \in Int
      /\ ContadorOuZero(EstoquesIniciais[p]).quantidadeReservada \in Int
  BY BalancoAssumption, ContadorTipo
<1>7. /\ antes.quantidade = ContadorOuZero(EstoquesIniciais[p]).quantidade
           + outros[p].movimento + Movido(p).movimento
      /\ antes.quantidadeReservada
           = ContadorOuZero(EstoquesIniciais[p]).quantidadeReservada
             + outros[p].movimentoReservada + Movido(p).movimentoReservada
  BY DEF Razao, RazaoExplicaEstoque
<1> HIDE DEF antes, r
<1>8. /\ doc.quantidade = ContadorOuZero(EstoquesIniciais[p]).quantidade
           + outros'[p].movimento + Movido(p).movimento
      /\ doc.quantidadeReservada
           = ContadorOuZero(EstoquesIniciais[p]).quantidadeReservada
             + outros'[p].movimentoReservada + Movido(p).movimentoReservada
  BY <1>1, <1>5, <1>6, <1>7
<1> HIDE DEF doc
<1>9. \A q \in Produtos : Movido(q)' = Movido(q) /\ estoques'[p] = doc
                           /\ (q # p => estoques'[q] = estoques[q])
  BY <1>1, <1>2 DEF Movido
<1>10. ASSUME NEW q \in Produtos
       PROVE  LET inicial == ContadorOuZero(EstoquesIniciais[q])
                  agora   == ContadorOuZero(estoques'[q])
              IN /\ agora.quantidade
                      = inicial.quantidade + outros'[q].movimento + Movido(q)'.movimento
                 /\ agora.quantidadeReservada
                      = inicial.quantidadeReservada + outros'[q].movimentoReservada
                        + Movido(q)'.movimentoReservada
  <2>1. CASE q = p
    BY <1>4, <1>8, <1>9, <2>1
  <2>2. CASE q # p
    BY <1>1, <1>9, <2>2 DEF Razao, RazaoExplicaEstoque
  <2>3. QED
    BY <2>1, <2>2
<1>11. RazaoExplicaEstoque'
  BY <1>10 DEF RazaoExplicaEstoque, ContadorOuZero
<1>12. ComDocumento' /\ KitNuncaContado'
  BY <1>1, <1>3, <1>9 DEF Razao, ComDocumento, KitNuncaContado
<1>13. QED
  BY <1>11, <1>12 DEF Razao
LEMMA RazaoChunk ==
  ASSUME Base, Listas, Razao, aplicarChunk
  PROVE  Razao'
<1>1. /\ TypeOK /\ Congelado /\ UNCHANGED outros
      /\ obra.cursor \in Nat /\ obra.cursor < balanco.shards
  BY ChunkFatos
<1>2. AplicarA(ChunkAtual) /\ AAplicar(ChunkAtual) \subseteq DOMAIN ShardAtual
  BY DEF aplicarChunk, AAplicar, ChunkAtual, Fatia
<1>3. DOMAIN ShardAtual \cap Kits = {}
  BY <1>1, ChunkRelatorios DEF Listas, InvLista
<1>4. ASSUME NEW p \in Produtos, p \notin AAplicar(ChunkAtual)
      PROVE  estoques'[p] = estoques[p] /\ historicos'[p] = historicos[p]
  BY <1>2, <1>4 DEF AplicarA
<1>5. ASSUME NEW p \in AAplicar(ChunkAtual)
      PROVE  /\ p \in Produtos /\ p \notin Kits /\ historicos[p] = Nenhum
             /\ estoques'[p] = EstoqueContado(p, Contado(ShardAtual[p]))
             /\ historicos'[p] = LinhaBalanco(p, Contado(ShardAtual[p]))
             /\ Contado(ShardAtual[p]) \in Int
             /\ estoques'[p] # Nenhum /\ historicos'[p] # Nenhum
  <2>1. /\ ChunkAtual \subseteq Produtos
        /\ AAplicar(ChunkAtual) \subseteq ChunkAtual
        /\ historicos[p] = Nenhum
        /\ Contado(ShardAtual[p]) \in Int
        /\ EstoqueContado(p, Contado(ShardAtual[p])) \in Contador
        /\ LinhaBalanco(p, Contado(ShardAtual[p])) \in LinhaRazao
    BY ChunkEscritas DEF ChunkAtual
  <2>2. p \in Produtos /\ p \notin Kits
    BY <1>2, <1>3, <2>1
  <2>3. estoques'[p] = EstoqueContado(p, Contado(ShardAtual[p]))
        /\ historicos'[p] = LinhaBalanco(p, Contado(ShardAtual[p]))
    BY <1>2, <2>2 DEF AplicarA
  <2>4. QED
    BY <2>1, <2>2, <2>3, BalancoAssumption
<1>6. ASSUME NEW p \in Produtos
      PROVE  LET inicial == ContadorOuZero(EstoquesIniciais[p])
                 agora   == ContadorOuZero(estoques'[p])
             IN /\ agora.quantidade
                     = inicial.quantidade + outros[p].movimento + Movido(p)'.movimento
                /\ agora.quantidadeReservada
                     = inicial.quantidadeReservada + outros[p].movimentoReservada
                       + Movido(p)'.movimentoReservada
  <2>1. CASE p \notin AAplicar(ChunkAtual)
    BY <1>4, <2>1 DEF Razao, RazaoExplicaEstoque, Movido
  <2>2. CASE p \in AAplicar(ChunkAtual)
    <3> DEFINE antes == ContadorOuZero(estoques[p])
               inicial == ContadorOuZero(EstoquesIniciais[p])
               n == Contado(ShardAtual[p])
               m == Maior(0, antes.quantidadeReservada)
    <3>1. antes.quantidade \in Int /\ antes.quantidadeReservada \in Int
      BY <1>1, ContadorTipo DEF TypeOK
    <3>2. inicial.quantidade \in Int /\ inicial.quantidadeReservada \in Int
          /\ outros[p].movimento \in Int /\ outros[p].movimentoReservada \in Int
      BY <1>1, BalancoAssumption, ContadorTipo DEF TypeOK, LinhaRazao
    <3>3. /\ antes.quantidade = inicial.quantidade + outros[p].movimento
          /\ antes.quantidadeReservada
               = inicial.quantidadeReservada + outros[p].movimentoReservada
      BY <1>5, <2>2, <3>1, <3>2 DEF Razao, RazaoExplicaEstoque, Movido, SemMovimento
    <3>4. Movido(p)' = historicos'[p]
      BY <1>5, <2>2 DEF Movido
    <3>a. /\ estoques'[p] = EstoqueContado(p, n) /\ estoques'[p] # Nenhum
          /\ historicos'[p] = LinhaBalanco(p, n)
      BY <1>5, <2>2
    <3>b. ContadorOuZero(estoques'[p]) = estoques'[p]
      BY <3>a DEF ContadorOuZero
    <3>5. /\ Movido(p)'.movimento = n - antes.quantidade
          /\ Movido(p)'.movimentoReservada = m - antes.quantidadeReservada
      <4> HIDE DEF n
      <4>1. QED
        BY <3>4, <3>a DEF LinhaBalanco
    <3>6. /\ ContadorOuZero(estoques'[p]).quantidade = n
          /\ ContadorOuZero(estoques'[p]).quantidadeReservada = m
      <4> HIDE DEF n
      <4>1. QED
        BY <3>a, <3>b DEF EstoqueContado
    <3>7. n \in Int /\ m \in Int
      BY <1>5, <2>2, <3>1 DEF Maior
    <3> HIDE DEF antes, inicial, n, m
    <3>8. /\ n = inicial.quantidade + outros[p].movimento + Movido(p)'.movimento
          /\ m = inicial.quantidadeReservada + outros[p].movimentoReservada
                   + Movido(p)'.movimentoReservada
      BY <3>1, <3>2, <3>3, <3>5, <3>7
    <3>9. QED
      BY <3>6, <3>8 DEF inicial
  <2>3. QED
    BY <2>1, <2>2
<1>7. RazaoExplicaEstoque'
  BY <1>1, <1>6 DEF RazaoExplicaEstoque, ContadorOuZero
<1>8. ComDocumento'
  BY <1>4, <1>5 DEF Razao, ComDocumento
<1>9. KitNuncaContado'
  BY <1>4, <1>5, BalancoAssumption DEF Razao, KitNuncaContado
<1>10. QED
  BY <1>7, <1>8, <1>9 DEF Razao

LEMMA RazaoPasso ==
  ASSUME RelatorioBase, Razao, [Next]_vars
  PROVE  Razao'
<1>1. Base /\ Listas
  BY DEF RelatorioBase
<1>2. CASE UNCHANGED <<estoques, historicos, outros>>
  BY <1>2, RazaoMantida
<1>3. CASE aplicarChunk
  BY <1>1, <1>3, RazaoChunk
<1>4. CASE \E m \in Movimentos : Movimentar(m[1], m[2])
  <2>1. PICK p \in Produtos, delta \in Contador : Movimentar(p, delta)
    BY <1>4, BalancoAssumption
  <2>2. QED
    BY <1>1, <2>1, RazaoMovimento
<1>5. QED
  BY <1>1, <1>2, <1>3, <1>4, SoChunkEMovimentoMexem

LEMMA RazaoSempre == Spec => [](RelatorioBase /\ Razao)
<1>1. Init => Razao
  <2>1. SUFFICES ASSUME Init PROVE Razao
    OBVIOUS
  <2>2. \A p \in Produtos : ContadorOuZero(EstoquesIniciais[p]).quantidade \in Int
            /\ ContadorOuZero(EstoquesIniciais[p]).quantidadeReservada \in Int
    BY BalancoAssumption, ContadorTipo
  <2>3. \A p \in Produtos : historicos[p] = Nenhum /\ outros[p] = SemMovimento
                            /\ estoques[p] = EstoquesIniciais[p]
    BY <2>1 DEF Init
  <2>4. RazaoExplicaEstoque
    BY <2>2, <2>3 DEF RazaoExplicaEstoque, Movido, SemMovimento
  <2>5. QED
    BY <2>3, <2>4, BalancoAssumption DEF Razao, ComDocumento, KitNuncaContado
<1>2. RelatorioBase /\ Razao /\ [Next]_vars => Razao'
  BY RazaoPasso
<1>3. QED
  BY <1>1, <1>2, RelatorioSempre, PTL DEF Spec

(* The counters of every produto are the sum of its ledger rows, through   *)
(* every crash, retry, resume and concurrent movement.                     *)
THEOREM RazaoSomavel == Spec => []RazaoExplicaEstoque
<1>1. Razao => RazaoExplicaEstoque
  BY DEF Razao
<1>2. QED
  BY <1>1, RazaoSempre, PTL

(* No balanço ever sets the stock of a kit. *)
THEOREM KitForaDoBalanco == Spec => []KitNuncaContado
<1>1. Razao => KitNuncaContado
  BY DEF Razao
<1>2. QED
  BY <1>1, RazaoSempre, PTL

(* Once set by the balanço a produto is never set again by it. *)
THEOREM ProdutoAplicadoUmaVez == Spec => AplicaUmaVez
<1>1. ASSUME RelatorioBase, Razao, [Next]_vars
      PROVE  \A p \in Produtos :
               historicos[p] # Nenhum
                 => /\ historicos'[p] = historicos[p]
                    /\ outros' = outros => estoques'[p] = estoques[p]
  <2>1. Base /\ Listas
    BY <1>1 DEF RelatorioBase
  <2>2. CASE aplicarChunk
    <3>1. \A p \in Produtos : historicos[p] # Nenhum => p \notin AAplicar(ChunkAtual)
      BY DEF AAplicar, JaAplicado
    <3>2. QED
      BY <2>2, <3>1 DEF aplicarChunk, AplicarA, ChunkAtual
  <2>3. CASE \E m \in Movimentos : Movimentar(m[1], m[2])
    <3>1. PICK q \in Produtos, delta \in Contador : Movimentar(q, delta)
      BY <2>3, BalancoAssumption
    <3> DEFINE antes == ContadorOuZero(estoques[q])
               r == Maior(0, antes.quantidadeReservada + delta.quantidadeReservada)
    <3>2. /\ historicos' = historicos
          /\ estoques' = [estoques EXCEPT ![q] =
               [quantidade |-> antes.quantidade + delta.quantidade,
                quantidadeReservada |-> r]]
          /\ outros'[q].movimento = outros[q].movimento + delta.quantidade
          /\ outros'[q].movimentoReservada
               = outros[q].movimentoReservada + (r - antes.quantidadeReservada)
          /\ antes.quantidade \in Int /\ antes.quantidadeReservada \in Int
          /\ delta.quantidade \in Int /\ r \in Int
          /\ outros[q].movimento \in Int /\ outros[q].movimentoReservada \in Int
      BY <2>1, <3>1, MovimentoFatos
    <3>3. ASSUME outros' = outros, historicos[q] # Nenhum
          PROVE  estoques'[q] = estoques[q]
      <4>1. estoques[q] \in Contador /\ estoques \in [Produtos -> Contador \cup {Nenhum}]
        BY <1>1, <2>1, <3>3 DEF Base, TypeOK, Razao, ComDocumento
      <4>2. antes = estoques[q]
        BY <4>1, BalancoAssumption DEF ContadorOuZero
      <4> HIDE DEF antes, r
      <4>a. ASSUME NEW m \in Int, NEW d \in Int, m = m + d PROVE d = 0
        BY <4>a
      <4>b. ASSUME NEW m \in Int, NEW a \in Int, NEW b \in Int, m = m + (a - b) PROVE a = b
        BY <4>b
      <4>c. /\ outros[q].movimento = outros[q].movimento + delta.quantidade
            /\ outros[q].movimentoReservada
                 = outros[q].movimentoReservada + (r - antes.quantidadeReservada)
        BY <3>2, <3>3
      <4>3. delta.quantidade = 0 /\ r = antes.quantidadeReservada
        BY <3>2, <4>a, <4>b, <4>c
      <4>4. antes.quantidade + delta.quantidade = antes.quantidade
        BY <3>2, <4>3
      <4>5. QED
        BY <3>2, <4>1, <4>2, <4>3, <4>4 DEF Contador
    <3>4. QED
      BY <2>1, <3>2, <3>3 DEF Base, TypeOK
  <2>4. QED
    BY <1>1, <2>1, <2>2, <2>3, SoChunkEMovimentoMexem
<1>2. QED
  BY <1>1, RazaoSempre, PTL DEF Spec, AplicaUmaVez

(* No retry, continuation or resume changes the frozen list. *)
THEOREM ListaFixa == Spec => ListaCongelada
<1>1. ASSUME RelatorioBase, [Next]_vars, Congelado
      PROVE  /\ balanco'.shards = balanco.shards
             /\ \A i \in Frozen :
                  /\ DOMAIN relatorios'[i] = DOMAIN relatorios[i]
                  /\ \A p \in DOMAIN relatorios[i] :
                       /\ relatorios'[i][p].contado = relatorios[i][p].contado
                       /\ relatorios[i][p].estoque # Nenhum
                            => relatorios'[i][p].estoque # Nenhum
  <2>1. Base /\ Listas /\ \A i \in Frozen : i \in DOMAIN relatorios
    BY <1>1 DEF RelatorioBase, Frozen
  <2>2. CASE aplicarChunk
    <3>1. balanco' = balanco
      BY <2>1, <2>2, ChunkFatos
    <3>2. QED
      BY <2>1, <2>2, <3>1, ChunkRelatorios, LinhaMantida
  <2>3. CASE Telas \/ Chamada \/ Passagem
    BY <2>1, <2>3, TelasQuietas, ChamadaQuieta, PassagemQuieta
  <2>4. CASE Varrer
    BY <2>4 DEF Varrer
  <2>5. ~GravarShard /\ ~FixarLista
    BY <1>1, <2>1 DEF Base, InvObra, GravarShard, FixarLista, NaFase
  <2>6. QED
    BY <1>1, <2>2, <2>3, <2>4, <2>5, PassosAgrupados
<1>2. QED
  BY <1>1, RelatorioSempre, PTL DEF Spec, ListaCongelada

(* A finalizado balanço never takes the lock nor touches stock again, even *)
(* parked in erro by a late answer.                                        *)
THEOREM FinalizadoParaSempre == Spec => FinalizadoEncerra
<1>1. ASSUME RelatorioBase, [Next]_vars, balanco.finalizado
      PROVE  /\ balanco'.finalizado /\ balanco'.estado # "finalizando"
             /\ historicos' = historicos /\ relatorios' = relatorios
  <2>1. /\ Base /\ TypeOK /\ balanco \in BalancoDoc
        /\ balanco.estado \in {"finalizado", "erro"}
        /\ obra # Nenhum => obra.fase = "responder"
    BY <1>1, TipoPartes DEF RelatorioBase, Base, InvDoc
  <2>2. CASE Telas
    BY <1>1, <2>1, <2>2, TelasQuietas
  <2>3. CASE Chamada
    <3>1. \A o \in Operadores, zerar \in BOOLEAN : ~tomarTravaBalanco(o, zerar)
      BY <1>1 DEF tomarTravaBalanco, podeFinalizarBalanco
    <3>2. balanco' = balanco \/ balanco' = Estacionado(balanco)
      BY <2>3, <3>1 DEF Chamada, Enfileirar, FalharEnfileirar, Estacionar, MorrerChamada
    <3>3. QED
      BY <1>1, <2>1, <2>3, <3>2, ChamadaQuieta DEF Estacionado, BalancoDoc
  <2>4. CASE Passagem
    <3>1. ~Agregar /\ ~AvancarCursor /\ ~Pausar /\ ~Concluir
      BY <2>1 DEF Agregar, AvancarCursor, Pausar, Concluir, NoShard, NaFase
    <3>2. balanco' = balanco \/ balanco' = Estacionado(balanco)
      BY <2>4, <3>1 DEF Passagem, Despachar, FalharLeitura, Responder, Falhar, Morrer
    <3>3. QED
      BY <1>1, <2>1, <2>4, <3>2, PassagemQuieta DEF Estacionado, BalancoDoc
  <2>5. ~Varrer /\ ~GravarShard /\ ~FixarLista /\ ~aplicarChunk
    BY <2>1 DEF Varrer, GravarShard, FixarLista, aplicarChunk, NoShard, NaFase
  <2>6. QED
    BY <1>1, <2>2, <2>3, <2>4, <2>5, PassosAgrupados
<1>2. QED
  BY <1>1, RelatorioSempre, PTL DEF Spec, FinalizadoEncerra

-----------------------------------------------------------------------------
(***************************************************************************)
(* The workflow lock has an owner.                                         *)
(***************************************************************************)
ChamadaViva == \E o \in Operadores : chamadas[o] # "livre"

LEMMA TravaChamada ==
  ASSUME Base, InvTrava, Chamada
  PROVE  InvTrava'
<1>1. /\ TypeOK /\ balanco \in BalancoDoc /\ TipoTarefas
      /\ chamadas \in [Operadores -> {"livre", "enfileirar", "estacionar"}]
      /\ obra' = obra /\ (obra # Nenhum => tarefas[obra.tarefa] # Nenhum)
  BY TipoPartes, ChamadaQuieta DEF Base, InvObra, TypeOK
<1>2. CASE \E o \in Operadores, zerar \in BOOLEAN : tomarTravaBalanco(o, zerar)
  <2>1. ChamadaViva'
    BY <1>1, <1>2 DEF tomarTravaBalanco, ChamadaViva
  <2>2. QED
    BY <2>1 DEF InvTrava, TravaComDono, ChamadaViva
<1>3. CASE \E o \in Operadores, r \in {"livre", "estacionar"} : Enfileirar(o, r)
  <2>1. PICK t \in Tarefas : tarefas[t] = Nenhum /\ tarefas' = [tarefas EXCEPT ![t] = 0]
    BY <1>3 DEF Enfileirar
  <2>2. tarefas'[t] # Nenhum
    BY <1>1, <2>1, BalancoAssumption DEF TipoTarefas
  <2>3. obra # Nenhum => t # obra.tarefa
    BY <1>1, <2>1
  <2>4. QED
    BY <1>1, <2>2, <2>3 DEF InvTrava, TravaComDono, NaFase
<1>4. CASE \E o \in Operadores : FalharEnfileirar(o)
  <2>1. ChamadaViva'
    BY <1>1, <1>4 DEF FalharEnfileirar, ChamadaViva
  <2>2. QED
    BY <2>1 DEF InvTrava, TravaComDono, ChamadaViva
<1>5. CASE \E o \in Operadores : Estacionar(o)
  <2>1. balanco'.estado = "erro"
    BY <1>1, <1>5 DEF Estacionar, Estacionado, BalancoDoc
  <2>2. QED
    BY <2>1 DEF InvTrava, TravaComDono
<1>6. CASE \E o \in Operadores : MorrerChamada(o)
  BY <1>6 DEF MorrerChamada, InvTrava, TravaComDono
<1>7. QED
  BY <1>2, <1>3, <1>4, <1>5, <1>6 DEF Chamada

LEMMA TravaPassagem ==
  ASSUME Base, InvTrava, Passagem
  PROVE  InvTrava'
<1>1. /\ TypeOK /\ balanco \in BalancoDoc /\ TipoTarefas
      /\ obra # Nenhum => /\ tarefas[obra.tarefa] # Nenhum
                          /\ obra \in Obra({obra.lista})
                          /\ obra.tarefa \in Tarefas
  BY TipoPartes, NaFaseTipo DEF Base, InvObra, Obra
<1>2. CASE \E t \in Tarefas : Despachar(t)
  <2>1. ~NaFase("responder")'
    BY <1>2 DEF Despachar, NovaObra, NaFase
  <2>2. TravaComDono'
    BY <1>2 DEF Despachar, InvTrava, TravaComDono
  <2>3. QED
    BY <2>1, <2>2 DEF InvTrava
<1>3. CASE Agregar
  BY <1>1, <1>3 DEF Agregar, SoObra, InvTrava, TravaComDono, NaFase, Obra
<1>4. CASE AvancarCursor
  <2>1. obra'.fase = "aplicar"
    BY <1>1, <1>4 DEF AvancarCursor, NoShard, NaFase, Obra
  <2>2. /\ balanco'.estado = balanco.estado
        /\ UNCHANGED <<tarefas, chamadas, perdido>>
    BY <1>1, <1>4 DEF AvancarCursor, SoObra, BalancoDoc
  <2>3. QED
    BY <2>1, <2>2 DEF InvTrava, TravaComDono, NaFase
<1>5. CASE Pausar
  <2>1. PICK t \in Tarefas : tarefas[t] = Nenhum /\ tarefas' = [tarefas EXCEPT ![t] = 0]
    BY <1>5 DEF Pausar
  <2>2. tarefas'[t] # Nenhum
    BY <1>1, <2>1, BalancoAssumption DEF TipoTarefas
  <2>3. t # obra.tarefa /\ obra'.tarefa = obra.tarefa
    BY <1>1, <1>5, <2>1 DEF Pausar, NoShard, NaFase, Obra
  <2>4. QED
    BY <2>2, <2>3 DEF InvTrava, TravaComDono
<1>6. CASE Concluir
  <2>1. balanco'.estado = "finalizado"
    BY <1>1, <1>6 DEF Concluir, BalancoDoc
  <2>2. QED
    BY <2>1 DEF InvTrava, TravaComDono
<1>7. CASE Responder
  <2>1. /\ tarefas' = [tarefas EXCEPT ![obra.tarefa] = Nenhum]
        /\ UNCHANGED <<balanco, chamadas, perdido>> /\ ~NaFase("responder")'
        /\ NaFase("responder")
    BY <1>7 DEF Responder, SoObra, NaFase
  <2>2. \A t \in Tarefas : t # obra.tarefa => tarefas'[t] = tarefas[t]
    BY <1>1, <2>1 DEF TipoTarefas
  <2>3. QED
    BY <2>1, <2>2 DEF InvTrava, TravaComDono
<1>8. CASE Falhar
  <2>1. ~NaFase("responder")' /\ UNCHANGED <<chamadas, perdido>>
    BY <1>8 DEF Falhar, SoObra, NaFase
  <2>2. CASE UltimaTentativa
    <3>1. balanco'.estado = "erro"
      BY <1>1, <1>8, <2>2 DEF Falhar, Estacionado, BalancoDoc
    <3>2. QED
      BY <2>1, <3>1 DEF InvTrava, TravaComDono
  <2>3. CASE ~UltimaTentativa
    <3>1. tarefas' = [tarefas EXCEPT ![obra.tarefa] = tarefas[obra.tarefa] + 1]
      BY <1>8, <2>3 DEF Falhar, UltimaTentativa, Devolvida
    <3>2. obra.tarefa \in Tarefas /\ tarefas[obra.tarefa] \in Int
      BY <1>1, <1>8 DEF Falhar, TipoTarefas
    <3>3. tarefas'[obra.tarefa] # Nenhum
      BY <1>1, <3>1, <3>2, BalancoAssumption DEF TipoTarefas
    <3>4. QED
      BY <2>1, <3>2, <3>3 DEF InvTrava, TravaComDono
  <2>4. QED
    BY <2>2, <2>3
<1>9. CASE Morrer
  <2>1. /\ obra # Nenhum /\ ~NaFase("responder")'
        /\ tarefas' = [tarefas EXCEPT ![obra.tarefa] = Devolvida(obra.tarefa)]
        /\ perdido' = (perdido \/ Devolvida(obra.tarefa) = Nenhum)
    BY <1>9 DEF Morrer, NaFase
  <2>2. ~perdido' => tarefas'[obra.tarefa] # Nenhum
    BY <1>1, <2>1 DEF TipoTarefas
  <2>3. QED
    BY <1>1, <2>1, <2>2 DEF InvTrava, TravaComDono
<1>10. CASE \E t \in Tarefas : FalharLeitura(t)
  <2>1. PICK t \in Tarefas : FalharLeitura(t)
    BY <1>10
  <2>2. /\ tarefas' = [tarefas EXCEPT ![t] = Devolvida(t)]
        /\ perdido' = (perdido \/ Devolvida(t) = Nenhum)
        /\ UNCHANGED <<balanco, chamadas, obra>> /\ obra = Nenhum
    BY <2>1 DEF FalharLeitura
  <2>3. ~perdido' => tarefas'[t] # Nenhum
    BY <1>1, <2>2 DEF TipoTarefas
  <2>4. QED
    BY <2>2, <2>3 DEF InvTrava, TravaComDono, NaFase
<1>11. QED
  BY <1>2, <1>3, <1>4, <1>5, <1>6, <1>7, <1>8, <1>9, <1>10 DEF Passagem

LEMMA TravaPasso ==
  ASSUME Base, InvTrava, [Next]_vars
  PROVE  InvTrava'
<1>1. obra # Nenhum => obra \in Obra({obra.lista})
  BY NaFaseTipo DEF Base
<1>2. CASE Telas
  <2>1. UNCHANGED <<balanco, tarefas, chamadas, obra, perdido>>
    BY <1>2, TelasQuietas
  <2>2. QED
    BY <2>1 DEF InvTrava, TravaComDono, NaFase
<1>3. CASE Varrer \/ GravarShard \/ FixarLista \/ aplicarChunk
  <2>1. UNCHANGED <<tarefas, chamadas, perdido>> /\ ~NaFase("responder")'
    <3>1. CASE Varrer \/ GravarShard \/ FixarLista
      BY <1>1, <3>1 DEF Varrer, GravarShard, FixarLista, SoObra, NaFase, Obra
    <3>2. CASE aplicarChunk
      BY <1>1, <3>2, ChunkFatos DEF aplicarChunk, AplicarA, NaFase, Obra
    <3>3. QED
      BY <1>3, <3>1, <3>2
  <2>2. balanco'.estado = balanco.estado
    BY <1>3, TipoPartes DEF Base, Varrer, GravarShard, FixarLista, aplicarChunk, BalancoDoc
  <2>3. QED
    BY <2>1, <2>2 DEF InvTrava, TravaComDono
<1>4. QED
  BY <1>2, <1>3, TravaChamada, TravaPassagem, PassosAgrupados

-----------------------------------------------------------------------------
(***************************************************************************)
(* Fifth layer: what was counted reaches the stock.  While nobody else     *)
(* moves stock and no late screen counts, the aggregate, the work list,    *)
(* the frozen shards and the stock of each line already seen say the same  *)
(* of every counted produto.                                               *)
(***************************************************************************)
Quieto == movidos = 0 /\ ~TelaAtrasada

ListaFiel ==
  /\ NaFase("varrer") => obra.lista = Contagem
  /\ NaFase("gravar") =>
       \A p \in Contados \ Kits : p \in DOMAIN obra.lista /\ obra.lista[p] = Contagem[p]

LinhaFiel(p, i) ==
  p \in DOMAIN relatorios[i] =>
    /\ relatorios[i][p].contado = Contagem[p]
    /\ relatorios[i][p].estoque # Nenhum =>
         ContadorOuZero(estoques[p]).quantidade = Contagem[p]

ShardsFieis ==
  Congelado =>
    \A p \in Contados \ Kits :
      /\ \E i \in Frozen : p \in DOMAIN relatorios[i]
      /\ \A i \in Frozen : LinhaFiel(p, i)

Fiel == Quieto => ListaFiel /\ ShardsFieis

LEMMA ContagemParada ==
  ASSUME lancamentos' = lancamentos
  PROVE  Contagem' = Contagem /\ Contados' = Contados
<1>1. Contados' = Contados
  BY DEF Contados
<1>2. \A p : /\ Unidades(p, 1)' = Unidades(p, 1)
             /\ Unidades(p, -1)' = Unidades(p, -1)
  BY DEF Unidades
<1>3. QED
  BY <1>1, <1>2 DEF Contagem

(* A step that leaves counts, shards and stock alone, and holds no list.   *)
LEMMA FielMantida ==
  ASSUME Fiel, movidos' = movidos,
         UNCHANGED <<lancamentos, relatorios, estoques>>,
         balanco'.shards = balanco.shards,
         obra' = obra \/ (~NaFase("varrer")' /\ ~NaFase("gravar")')
  PROVE  Fiel'
<1>1. Contagem' = Contagem /\ Contados' = Contados /\ Frozen' = Frozen
      /\ (Congelado' <=> Congelado)
  BY ContagemParada DEF Frozen, Congelado
<1>2. \A p, i : LinhaFiel(p, i)' <=> LinhaFiel(p, i)
  BY <1>1 DEF LinhaFiel
<1>3. SUFFICES ASSUME Quieto PROVE ListaFiel' /\ ShardsFieis'
  BY DEF Fiel, Quieto
<1>4. ListaFiel'
  BY <1>1, <1>3 DEF Fiel, ListaFiel, NaFase
<1>5. ShardsFieis'
  BY <1>1, <1>2, <1>3 DEF Fiel, ShardsFieis
<1>6. QED
  BY <1>4, <1>5

(* While screens may count the job has done nothing yet. *)
LEMMA FielTelas ==
  ASSUME Base, Fiel, Telas
  PROVE  Fiel'
<1>1. UNCHANGED <<balanco, relatorios, obra>>
  BY TelasQuietas
<1>2. CASE \E l \in Lancamentos, marca \in {"valido", "removido"} : Lancar(l, marca)
  <2>1. Aberto \/ TelaAtrasada
    BY <1>2 DEF Lancar
  <2>2. CASE TelaAtrasada
    BY <2>2 DEF Fiel, Quieto
  <2>3. CASE Aberto
    <3>1. ~Congelado /\ obra = Nenhum
      BY <2>3 DEF Aberto, Base, InvDoc, Congelado
    <3>2. QED
      BY <1>1, <3>1 DEF Fiel, ListaFiel, ShardsFieis, NaFase, Congelado
  <2>4. QED
    BY <2>1, <2>2, <2>3
<1>3. CASE \E m \in Movimentos : Movimentar(m[1], m[2])
  <2>1. movidos \in Nat /\ movidos' = movidos + 1
    BY <1>3, BalancoAssumption DEF Movimentar, Base, TypeOK
  <2>2. movidos' # 0
    BY <2>1
  <2>3. QED
    BY <2>2 DEF Fiel, Quieto
<1>4. CASE UNCHANGED vars
  BY <1>4, FielMantida DEF vars
<1>5. QED
  BY <1>2, <1>3, <1>4 DEF Telas

(* The scan keeps every counted produto that is no kit. *)
LEMMA FielVarrer ==
  ASSUME Base, Fiel, Varrer
  PROVE  Fiel'
<1>1. /\ obra # Nenhum /\ obra \in Obra({obra.lista}) /\ obra.fase = "varrer"
      /\ ~Congelado /\ balanco' = balanco
  BY NaFaseTipo DEF Base, InvObra, Varrer, NaFase
<1>2. /\ obra'.fase = "gravar"
      /\ obra'.lista = montarListaTrabalho(obra.lista, obra.zerar)
      /\ movidos' = movidos /\ lancamentos' = lancamentos
  BY <1>1 DEF Varrer, Obra, SoObra
<1>3. SUFFICES ASSUME Quieto PROVE ListaFiel'
  BY <1>1, <1>2 DEF Fiel, Quieto, ShardsFieis, Congelado
<1>4. obra.lista = Contagem /\ DOMAIN Contagem = Contados
  BY <1>1, <1>3 DEF Fiel, ListaFiel, NaFase, Contagem
<1>5. \A p \in Contados \ Kits :
        /\ p \in DOMAIN montarListaTrabalho(obra.lista, obra.zerar)
        /\ montarListaTrabalho(obra.lista, obra.zerar)[p] = Contagem[p]
  BY <1>4 DEF montarListaTrabalho
<1>6. QED
  BY <1>2, <1>5, ContagemParada DEF ListaFiel, NaFase

(* Freezing: each line of the list is in its slice, with its count. *)
LEMMA FielFixar ==
  ASSUME Base, Listas, Fiel, FixarLista
  PROVE  Fiel'
<1>1. /\ obra # Nenhum /\ obra \in Obra({obra.lista}) /\ obra.fase = "gravar"
      /\ ParcialEm(obra.lista, IntOuNulo) /\ balanco \in BalancoDoc
  BY NaFaseTipo, TipoPartes DEF Base, FixarLista, NaFase
<1>2. /\ relatorios' = relatorios /\ obra.gravados = NumShards
      /\ balanco'.shards = NumShards /\ obra'.fase = "aplicar"
      /\ movidos' = movidos /\ lancamentos' = lancamentos /\ estoques' = estoques
  BY <1>1 DEF FixarLista, Obra, BalancoDoc, SoObra
<1>3. SUFFICES ASSUME Quieto PROVE ListaFiel' /\ ShardsFieis'
  BY <1>2 DEF Fiel, Quieto
<1>4. ListaFiel'
  BY <1>2 DEF ListaFiel, NaFase
<1>5. /\ Contagem' = Contagem /\ Contados' = Contados
      /\ NumShards \in Nat /\ DOMAIN obra.lista \in SUBSET Produtos
  BY <1>1, <1>2, ContagemParada, FatiasTipo, BalancoAssumption DEF NumShards, ParcialEm
<1>6. ASSUME NEW i \in Nat, i < NumShards
      PROVE  i \in DOMAIN relatorios /\ relatorios[i] = CorpoShard(obra.lista, i)
  BY <1>1, <1>2, <1>6 DEF Listas, InvGravados, NaFase
<1>7. Congelado' /\ \A i : i \in Frozen' <=> i \in DOMAIN relatorios /\ i < NumShards
  BY <1>2, <1>5, BalancoAssumption DEF Congelado, Frozen
<1>8. DOMAIN relatorios \subseteq Nat
  BY DEF Base, TypeOK
<1>9. ASSUME NEW p \in Contados \ Kits
      PROVE  /\ \E i \in Frozen' : p \in DOMAIN relatorios[i]
             /\ \A i \in Frozen' : LinhaFiel(p, i)'
  <2>1. p \in DOMAIN obra.lista /\ obra.lista[p] = Contagem[p]
    BY <1>1, <1>3 DEF Fiel, ListaFiel, NaFase
  <2>2. \E i \in Frozen' : p \in DOMAIN relatorios[i]
    <3> DEFINE i == Posicao(DOMAIN obra.lista, p) \div RELATORIO_BALANCO_SHARD_SIZE
    <3>1. i \in Nat /\ i < NumShards
      BY <1>5, <2>1, FatiasCobrem, BalancoAssumption DEF NumShards
    <3>2. p \in Fatia(DOMAIN obra.lista, RELATORIO_BALANCO_SHARD_SIZE, i)
      BY <2>1 DEF Fatia
    <3>3. p \in DOMAIN CorpoShard(obra.lista, i)
      BY <3>2 DEF CorpoShard
    <3> HIDE DEF i
    <3>4. QED
      BY <1>6, <1>7, <3>1, <3>3
  <2>3. ASSUME NEW i \in Frozen', p \in DOMAIN relatorios[i]
        PROVE  relatorios[i][p].contado = Contagem[p] /\ relatorios[i][p].estoque = Nenhum
    <3>1. i \in Nat /\ i < NumShards
      BY <1>7, <1>8, <2>3
    <3>2. relatorios[i] = CorpoShard(obra.lista, i)
      BY <1>6, <3>1
    <3>3. QED
      BY <2>1, <2>3, <3>2 DEF CorpoShard
  <2>4. QED
    BY <1>2, <1>5, <2>2, <2>3 DEF LinhaFiel
<1>10. QED
  BY <1>2, <1>4, <1>5, <1>9 DEF ShardsFieis

(* A line seen by a chunk is set to its count, or had it already. *)
LEMMA FielChunk ==
  ASSUME Base, Listas, Fiel, aplicarChunk
  PROVE  Fiel'
<1>1. /\ TypeOK /\ Congelado /\ obra # Nenhum /\ obra.fase = "aplicar"
      /\ obra \in Obra({obra.lista}) /\ obra.cursor \in Nat
      /\ obra.cursor < balanco.shards /\ ParcialEm(ShardAtual, ItemRelatorio)
      /\ UNCHANGED <<balanco, lancamentos, movidos>>
  BY ChunkFatos
<1>2. /\ Contagem' = Contagem /\ Contados' = Contados /\ Frozen' = Frozen
      /\ \A i \in Frozen : i \in DOMAIN relatorios
                           /\ DOMAIN relatorios'[i] = DOMAIN relatorios[i]
      /\ obra.cursor \in Frozen /\ ShardAtual = relatorios[obra.cursor]
  BY <1>1, ContagemParada, ChunkRelatorios DEF Frozen, Congelado
<1>3. obra'.fase = "aplicar"
  BY <1>1 DEF aplicarChunk, AplicarA, Obra
<1>4. SUFFICES ASSUME Quieto, NEW p \in Contados \ Kits, NEW i \in Frozen,
                      p \in DOMAIN relatorios[i]
               PROVE  /\ relatorios'[i][p].contado = Contagem[p]
                      /\ relatorios'[i][p].estoque # Nenhum =>
                           ContadorOuZero(estoques'[p]).quantidade = Contagem[p]
  <2>1. ListaFiel'
    BY <1>3 DEF ListaFiel, NaFase
  <2>2. Quieto' <=> Quieto
    BY <1>1 DEF Quieto
  <2>3. \A q : ContadorOuZero(estoques[q])' = ContadorOuZero(estoques'[q])
    BY DEF ContadorOuZero
  <2>4. Quieto => \A q \in Contados \ Kits : \E k \in Frozen : q \in DOMAIN relatorios[k]
    BY <1>1 DEF Fiel, ShardsFieis
  <2>5. QED
    BY <1>2, <1>4, <2>1, <2>2, <2>3, <2>4 DEF Fiel, ShardsFieis, LinhaFiel
<1>5. \A k \in Frozen : LinhaFiel(p, k)
  BY <1>1, <1>4 DEF Fiel, ShardsFieis
<1>6. relatorios'[i][p].contado = Contagem[p]
  BY <1>2, <1>4, <1>5, LinhaMantida DEF LinhaFiel
<1>7. p \in Produtos /\ Contagem[p] \in Int
  <2>1. p \in Produtos
    BY <1>1, <1>2, <1>4 DEF TypeOK, ParcialEm
  <2>2. QED
    BY <2>1, <1>4, UnidadesFinitas DEF Contagem
<1>8. p \in DOMAIN ShardAtual => Contado(ShardAtual[p]) = Contagem[p]
  BY <1>2, <1>5, <1>7, BalancoAssumption DEF LinhaFiel, Contado
<1>9. AAplicar(ChunkAtual) \subseteq DOMAIN ShardAtual /\ AplicarA(ChunkAtual)
  BY DEF AAplicar, aplicarChunk, ChunkAtual, Fatia
<1>10. CASE p \in AAplicar(ChunkAtual)
  <2>1. estoques'[p] = EstoqueContado(p, Contagem[p])
    BY <1>7, <1>8, <1>9, <1>10 DEF AplicarA
  <2>2. estoques'[p] # Nenhum
    <3>1. EstoqueContado(p, Contado(ShardAtual[p])) \in Contador
      BY <1>10, ChunkEscritas DEF ChunkAtual
    <3>2. QED
      BY <1>8, <1>9, <1>10, <2>1, <3>1, BalancoAssumption
  <2>3. ContadorOuZero(estoques'[p]).quantidade = Contagem[p]
    BY <2>1, <2>2 DEF ContadorOuZero, EstoqueContado
  <2>4. QED
    BY <1>6, <2>3
<1>11. CASE p \notin AAplicar(ChunkAtual)
  <2>1. estoques'[p] = estoques[p]
    BY <1>7, <1>9, <1>11 DEF AplicarA
  <2>2. CASE relatorios[i][p].estoque # Nenhum
    BY <1>4, <1>5, <1>6, <2>1, <2>2 DEF LinhaFiel
  <2>3. CASE relatorios[i][p].estoque = Nenhum /\ relatorios'[i][p].estoque # Nenhum
    <3>1. i = obra.cursor
      BY <1>2, <2>3, ChunkRelatorios
    <3>2. p \in DOMAIN ShardAtual /\ p \in Vistos(ChunkAtual)
      BY <1>2, <1>4, <2>3, <3>1, ChunkLinhas
    <3>3. Inalterado(p, Contagem[p])
      BY <1>8, <1>11, <3>2 DEF AAplicar, Vistos
    <3>4. ContadorOuZero(estoques[p]).quantidade = Contagem[p]
      BY <3>3 DEF Inalterado, ContadorOuZero
    <3>5. QED
      BY <1>6, <2>1, <3>4
  <2>4. QED
    BY <1>6, <2>2, <2>3
<1>12. QED
  BY <1>10, <1>11

LEMMA FielPasso ==
  ASSUME Base, Listas, Fiel, [Next]_vars
  PROVE  Fiel'
<1>1. CASE Telas
  BY <1>1, FielTelas
<1>2. CASE Chamada
  <2>1. movidos' = movidos /\ lancamentos' = lancamentos
    BY <1>2 DEF Chamada, tomarTravaBalanco, Enfileirar, FalharEnfileirar, Estacionar,
       MorrerChamada, DepoisDaTrava
  <2>2. QED
    BY <1>2, <2>1, ChamadaQuieta, FielMantida
<1>3. CASE Agregar
  <2>1. /\ obra # Nenhum /\ obra \in Obra({obra.lista}) /\ ~Congelado
        /\ balanco' = balanco
    BY <1>3, NaFaseTipo DEF Base, InvObra, Agregar, NaFase
  <2>2. obra'.fase = "varrer" /\ obra'.lista = Contagem /\ Contagem' = Contagem
    BY <1>3, <2>1, ContagemParada DEF Agregar, Obra, SoObra
  <2>3. QED
    BY <2>1, <2>2 DEF Fiel, ListaFiel, ShardsFieis, NaFase, Congelado
<1>4. CASE Passagem /\ ~Agregar
  <2>1. movidos' = movidos /\ lancamentos' = lancamentos
    BY <1>4 DEF Passagem, Despachar, FalharLeitura, AvancarCursor, Pausar, Concluir, Responder,
       Falhar, Morrer, SoObra
  <2>2. obra' = obra \/ ~NaFase("varrer")'
    <3>1. obra # Nenhum => obra \in Obra({obra.lista})
      BY NaFaseTipo DEF Base
    <3>2. CASE \E t \in Tarefas : Despachar(t)
      BY <3>2 DEF Despachar, NovaObra, NaFase
    <3>3. CASE Pausar \/ Concluir
      BY <3>1, <3>3 DEF Pausar, Concluir, NaFase, NoShard, Obra
    <3>4. CASE AvancarCursor
      <4>1. obra.fase = "aplicar" /\ obra'.fase = obra.fase
        BY <3>1, <3>4 DEF AvancarCursor, NoShard, NaFase, Obra
      <4>2. QED
        BY <4>1 DEF NaFase
    <3>5. CASE Responder \/ Falhar \/ Morrer
      BY <3>5 DEF Responder, Falhar, Morrer, NaFase
    <3>6. CASE \E t \in Tarefas : FalharLeitura(t)
      BY <3>6 DEF FalharLeitura, NaFase
    <3>7. QED
      BY <1>4, <3>2, <3>3, <3>4, <3>5, <3>6 DEF Passagem
  <2>3. QED
    BY <1>4, <2>1, <2>2, PassagemQuieta, FielMantida
<1>5. CASE Varrer
  BY <1>5, FielVarrer
<1>6. CASE GravarShard
  <2>1. /\ obra # Nenhum /\ obra \in Obra({obra.lista}) /\ ~Congelado
        /\ balanco' = balanco /\ obra.fase = "gravar"
    BY <1>6, NaFaseTipo DEF Base, InvObra, GravarShard, NaFase
  <2>2. obra'.fase = "gravar" /\ obra'.lista = obra.lista
        /\ movidos' = movidos /\ lancamentos' = lancamentos
    BY <1>6, <2>1 DEF GravarShard, Obra, SoObra
  <2>3. Contagem' = Contagem /\ Contados' = Contados
    BY <2>2, ContagemParada
  <2>4. QED
    BY <2>1, <2>2, <2>3 DEF Fiel, Quieto, ListaFiel, ShardsFieis, NaFase, Congelado
<1>7. CASE FixarLista
  BY <1>7, FielFixar
<1>8. CASE aplicarChunk
  BY <1>8, FielChunk
<1>9. QED
  BY <1>1, <1>2, <1>3, <1>4, <1>5, <1>6, <1>7, <1>8, PassosAgrupados

(* The aggregate is the sum of the corrections up less those down. *)
LEMMA ContagemSoma ==
  ASSUME Base, NEW p \in Contados
  PROVE  Contagem[p] = TotalContado(p)
<1>1. \A l \in Lancamentos : Lancado[l].quantidade \in Int
  BY BalancoAssumption
<1>2. \A l \in Lancamentos : 1..(1 * Lancado[l].quantidade) = 1..Maior(0, Lancado[l].quantidade)
  BY <1>1 DEF Maior
<1>3. \A l \in Lancamentos :
        1..((-1) * Lancado[l].quantidade) = 1..Maior(0, -Lancado[l].quantidade)
  BY <1>1 DEF Maior
<1>4. Unidades(p, 1)
        = Parcelas(Validos(p), [l \in Lancamentos |-> Maior(0, Lancado[l].quantidade)])
  BY <1>2 DEF Unidades, Parcelas, Validos
<1>5. Unidades(p, -1)
        = Parcelas(Validos(p), [l \in Lancamentos |-> Maior(0, -Lancado[l].quantidade)])
  BY <1>3 DEF Unidades, Parcelas, Validos
<1>6. QED
  BY <1>4, <1>5 DEF Contagem, TotalContado, Soma

(* With nobody else moving stock and no late screen, a finalizado balanço  *)
(* leaves each counted produto with the sum of its movimentos, through     *)
(* every failure, death, pause and resume of the job.                      *)
THEOREM ContadoNoEstoque == Spec => []ContagemAplicada
<1>1. Init => Fiel
  BY BalancoAssumption DEF Init, Fiel, ListaFiel, ShardsFieis, NaFase, Congelado
<1>2. RelatorioBase /\ Fiel /\ [Next]_vars => Fiel'
  BY FielPasso DEF RelatorioBase
<1>3. ASSUME RelatorioBase, Fiel PROVE ContagemAplicada
  <2>1. SUFFICES ASSUME balanco.finalizado, Quieto, NEW p \in Produtos \ Kits,
                        Validos(p) # {}
                 PROVE  ContadorOuZero(estoques[p]).quantidade = TotalContado(p)
    BY DEF ContagemAplicada, Quieto
  <2>2. Base /\ Listas /\ InvCursor /\ Congelado
    BY <1>3, <2>1 DEF RelatorioBase, Relatorio, Base, InvDoc
  <2>3. p \in Contados \ Kits
    BY <2>1 DEF Contados, Validos
  <2>4. PICK i \in Frozen : p \in DOMAIN relatorios[i]
    BY <1>3, <2>1, <2>2, <2>3 DEF Fiel, ShardsFieis
  <2>5. i \in Nat /\ i < balanco.shards
    BY <2>2 DEF Frozen, Base, TypeOK
  <2>6. relatorios[i][p].estoque # Nenhum
    BY <2>1, <2>2, <2>4, <2>5 DEF InvCursor
  <2>7. ContadorOuZero(estoques[p]).quantidade = Contagem[p]
    BY <1>3, <2>1, <2>2, <2>3, <2>4, <2>6 DEF Fiel, ShardsFieis, LinhaFiel
  <2>8. QED
    BY <2>2, <2>3, <2>7, ContagemSoma
<1>4. QED
  BY <1>1, <1>2, <1>3, RelatorioSempre, PTL DEF Spec

(* While a balanço is finalizando some task or some callable will go on,   *)
(* unless a process died at its last chance.                               *)
THEOREM TravaSempreComDono == Spec => []TravaComDono
<1>1. Init => InvTrava
  BY BalancoAssumption DEF Init, InvTrava, TravaComDono, NaFase
<1>2. Base /\ InvTrava /\ [Next]_vars => InvTrava'
  BY TravaPasso
<1>3. InvTrava => TravaComDono
  BY DEF InvTrava
<1>4. QED
  BY <1>1, <1>2, <1>3, BaseSempre, PTL DEF Spec
=============================================================================
