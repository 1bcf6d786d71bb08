---------------------------- MODULE BloqueioProofs ----------------------------
(***************************************************************************)
(* Proofs about BloqueioPedido, for every set of claims, operators'        *)
(* incidentes, releases, other writers of the pedido and bounds.           *)
(***************************************************************************)
EXTENDS BloqueioPedido, WellFoundedInduction, TLAPS

Guardado == Incidente \cup {Nenhum}

-----------------------------------------------------------------------------
(* The fold.                                                               *)

LEMMA MenorNatural ==
  ASSUME NEW T \in SUBSET Nat, T # {}
  PROVE  \E x \in T : \A y \in T : x <= y
<1> DEFINE R == OpToRel(<, Nat)
<1>1. IsWellFoundedOn(R, Nat)
  BY NatLessThanWellFounded
<1>2. \A x, y \in Nat : <<y, x>> \in R <=> y < x
  BY DEF OpToRel
<1> HIDE DEF R
<1>3. PICK x \in T : \A y \in T : ~(<<y, x>> \in R)
  BY <1>1, WFMin
<1>4. \A y \in T : ~(y < x)
  BY <1>2, <1>3
<1>5. QED
  BY <1>4

LEMMA MaisAntigoTipo ==
  ASSUME NEW ids \in SUBSET Incidentes
  PROVE  IF ids = {} THEN MaisAntigo(ids) = Nenhum ELSE MaisAntigo(ids) \in Nat
<1>1. CASE ids = {}
  BY <1>1 DEF MaisAntigo
<1>2. CASE ids # {}
  <2> DEFINE T == {Timestamp[i] : i \in ids}
  <2>1. T \in SUBSET Nat /\ T # {}
    BY <1>2, IncidenteAssumption
  <2>2. \E t \in T : \A i \in ids : t <= Timestamp[i]
    <3> HIDE DEF T
    <3>1. PICK x \in T : \A y \in T : x <= y
      BY <2>1, MenorNatural
    <3>2. QED
      BY <3>1 DEF T
  <2>3. (CHOOSE t \in T : \A i \in ids : t <= Timestamp[i]) \in T
    <3> HIDE DEF T
    <3> QED BY <2>2
  <2>4. QED
    BY <1>2, <2>1, <2>3 DEF MaisAntigo
<1>3. QED
  BY <1>1, <1>2

(* A marker is set exactly when its class has an incidente. *)
LEMMA MarcadorLigado ==
  ASSUME NEW ids \in SUBSET Incidentes
  PROVE  (MaisAntigo(ids) # Nenhum) <=> (ids # {})
  BY MaisAntigoTipo, IncidenteAssumption

LEMMA DaClasseTipo ==
  ASSUME NEW incs, NEW classe
  PROVE  DaClasse(incs, classe) \in SUBSET Incidentes
  BY DEF DaClasse

LEMMA CalculoTipo ==
  ASSUME NEW incs \in [Incidentes -> Guardado]
  PROVE  calcularMarcadores(incs) \in Marcadores
<1> DEFINE disputas == DaClasse(incs, "disputa")
           devolucoes == DaClasse(incs, "devolucao")
           liberados == UNION {incs[i].overrideBloqueio : i \in disputas \cup devolucoes}
<1>1. MaisAntigo(disputas) \in Nat \cup {Nenhum}
  BY DaClasseTipo, MaisAntigoTipo
<1>2. MaisAntigo(devolucoes) \in Nat \cup {Nenhum}
  BY DaClasseTipo, MaisAntigoTipo
<1>3. liberados \in SUBSET AcaoBloqueada
  <2>1. \A i \in disputas \cup devolucoes : incs[i] \in Incidente
    BY DEF DaClasse, Guardado
  <2>2. \A i \in disputas \cup devolucoes : incs[i].overrideBloqueio \in SUBSET AcaoBloqueada
    BY <2>1 DEF Incidente
  <2> HIDE DEF disputas, devolucoes
  <2>3. QED
    BY <2>2
<1> HIDE DEF disputas, devolucoes, liberados
<1>4. calcularMarcadores(incs) =
        [disputaAbertaEm |-> MaisAntigo(disputas),
         devolucaoAbertaEm |-> MaisAntigo(devolucoes),
         bloqueiosLiberados |-> liberados]
  BY DEF calcularMarcadores, disputas, devolucoes, liberados
<1>5. QED
  BY <1>1, <1>2, <1>3, <1>4 DEF Marcadores

(* A write the fast path ignores leaves the fold as it was. *)
LEMMA MudancaIrrelevante ==
  ASSUME NEW incs \in [Incidentes -> Guardado], NEW i \in Incidentes,
         NEW doc \in Guardado, ~MudouCampoBloqueio(incs[i], doc)
  PROVE  calcularMarcadores([incs EXCEPT ![i] = doc]) = calcularMarcadores(incs)
<1> DEFINE depois == [incs EXCEPT ![i] = doc]
<1>1. CASE doc = incs[i]
  <2>1. depois = incs
    BY <1>1
  <2>2. QED
    BY <2>1
<1>2. CASE doc # incs[i]
  <2>1. /\ incs[i] # Nenhum /\ doc # Nenhum
        /\ incs[i].claimStatus = doc.claimStatus
        /\ incs[i].resolucao = doc.resolucao
        /\ incs[i].entregue = doc.entregue
        /\ incs[i].overrideBloqueio = doc.overrideBloqueio
    BY <1>2 DEF MudouCampoBloqueio
  <2>2. classificarIncidenteBloqueante(i, doc) = classificarIncidenteBloqueante(i, incs[i])
    BY <2>1 DEF classificarIncidenteBloqueante, Aberto
  <2>3. ASSUME NEW k \in Incidentes
        PROVE  /\ depois[k] # Nenhum <=> incs[k] # Nenhum
               /\ classificarIncidenteBloqueante(k, depois[k])
                    = classificarIncidenteBloqueante(k, incs[k])
               /\ depois[k].overrideBloqueio = incs[k].overrideBloqueio
    <3>1. CASE k = i
      BY <2>1, <2>2, <3>1
    <3>2. CASE k # i
      <4>1. depois[k] = incs[k]
        BY <3>2
      <4>2. QED
        BY <4>1
    <3>3. QED
      BY <3>1, <3>2
  <2> HIDE DEF depois
  <2>4. ASSUME NEW classe
        PROVE  DaClasse(depois, classe) = DaClasse(incs, classe)
    BY <2>3 DEF DaClasse
  <2> DEFINE disputas == DaClasse(incs, "disputa")
             devolucoes == DaClasse(incs, "devolucao")
  <2>5. DaClasse(depois, "disputa") = disputas /\ DaClasse(depois, "devolucao") = devolucoes
    BY <2>4
  <2>6. disputas \cup devolucoes \in SUBSET Incidentes
    BY DaClasseTipo
  <2> HIDE DEF disputas, devolucoes
  <2>7. UNION {depois[k].overrideBloqueio : k \in disputas \cup devolucoes}
          = UNION {incs[k].overrideBloqueio : k \in disputas \cup devolucoes}
    BY <2>3, <2>6
  <2>8. calcularMarcadores(depois) =
          [disputaAbertaEm |-> MaisAntigo(disputas),
           devolucaoAbertaEm |-> MaisAntigo(devolucoes),
           bloqueiosLiberados |->
             UNION {depois[k].overrideBloqueio : k \in disputas \cup devolucoes}]
    BY <2>5 DEF calcularMarcadores
  <2>9. calcularMarcadores(incs) =
          [disputaAbertaEm |-> MaisAntigo(disputas),
           devolucaoAbertaEm |-> MaisAntigo(devolucoes),
           bloqueiosLiberados |->
             UNION {incs[k].overrideBloqueio : k \in disputas \cup devolucoes}]
    BY DEF calcularMarcadores, disputas, devolucoes
  <2>10. QED
    BY <2>7, <2>8, <2>9 DEF depois
<1>3. QED
  BY <1>1, <1>2

-----------------------------------------------------------------------------
(* The inductive invariant.                                                *)

(* An import knows of its own notification, and holds no state older than  *)
(* it.                                                                     *)
InvImportacao ==
  \A c \in Claims : \A n \in Versoes(c) :
    /\ importacoes[c][n].fase # "nada" => n <= Len(claims[c])
    /\ importacoes[c][n].fase = "buscou" =>
         n <= importacoes[c][n].versao /\ importacoes[c][n].versao <= Len(claims[c])

(* A claim stays closed and its clock, where readable, never goes back.    *)
InvHistoria ==
  \A c \in Claims : \A n, m \in 1 .. Len(claims[c]) :
    n < m =>
      /\ claims[c][n].status = "closed" => claims[c][m].status = "closed"
      /\ (claims[c][n].relogio # Nenhum /\ claims[c][m].relogio # Nenhum) =>
           claims[c][n].relogio <= claims[c][m].relogio

InvNovo == \A c \in Claims : claims[c] = <<>> => incidentes[c] = Nenhum

(* Once the last state of a claim is imported its incidente is no older,   *)
(* unless it is the untouched row of a legacy import.                      *)
InvUltima ==
  \A c \in Claims : \A n \in Versoes(c) :
    (/\ n = Len(claims[c]) /\ importacoes[c][n].fase = "feita"
     /\ claims[c][n].relogio # Nenhum /\ c \notin excluidos) =>
      IF Estampada(incidentes[c])
      THEN claims[c][n].relogio <= incidentes[c].relogioProvedorUs
      ELSE n = 1 /\ incidentes[c] # Nenhum

Base == TypeOK /\ InvImportacao

-----------------------------------------------------------------------------
(* Types.                                                                  *)

LEMMA ClaimsTipo ==
  /\ Claims \subseteq Incidentes
  /\ \A c \in Claims : MaxVersoes[c] \in Nat /\ MaxVersoes[c] >= 1
  BY BloqueioAssumption DEF Claims

(* What changing one import leaves of the others. *)
LEMMA FilaMuda ==
  ASSUME TypeOK, NEW c \in Claims, NEW n \in Versoes(c), NEW v \in Importacao(c),
         importacoes' = [importacoes EXCEPT ![c][n] = v]
  PROVE  /\ DOMAIN importacoes' = Claims
         /\ \A d \in Claims : importacoes'[d] \in [Versoes(d) -> Importacao(d)]
         /\ importacoes'[c][n] = v
         /\ \A d \in Claims : \A m \in Versoes(d) :
              importacoes'[d][m] = IF d = c /\ m = n THEN v ELSE importacoes[d][m]
<1>1. DOMAIN importacoes = Claims /\ importacoes[c] \in [Versoes(c) -> Importacao(c)]
  BY DEF TypeOK
<1>2. importacoes' = [importacoes EXCEPT ![c] = [importacoes[c] EXCEPT ![n] = v]]
  OBVIOUS
<1>3. [importacoes[c] EXCEPT ![n] = v] \in [Versoes(c) -> Importacao(c)]
  BY <1>1
<1>4. ASSUME NEW d \in Claims
      PROVE  importacoes'[d] = IF d = c THEN [importacoes[c] EXCEPT ![n] = v]
                               ELSE importacoes[d]
  BY <1>1, <1>2
<1>5. DOMAIN importacoes' = Claims
  BY <1>1, <1>2
<1>6. \A d \in Claims : importacoes'[d] \in [Versoes(d) -> Importacao(d)]
  BY <1>3, <1>4 DEF TypeOK
<1>7. ASSUME NEW d \in Claims, NEW m \in Versoes(d)
      PROVE  importacoes'[d][m] = IF d = c /\ m = n THEN v ELSE importacoes[d][m]
  BY <1>1, <1>4
<1>8. QED
  BY <1>5, <1>6, <1>7

LEMMA PreverTipo ==
  ASSUME NEW inc \in Guardado, NEW claim \in Claim
  PROVE  preverIncidenteClaim(inc, claim) \in Incidente
<1>1. CASE inc = Nenhum
  BY <1>1 DEF preverIncidenteClaim, Criado, Resolvida, Incidente, Claim
<1>2. CASE inc # Nenhum
  <2>1. inc \in Incidente
    BY <1>2 DEF Guardado
  <2>2. Atualizado(inc, claim) \in Incidente
    BY <2>1 DEF Atualizado, Resolvida, Incidente, Claim
  <2>3. QED
    BY <1>2, <2>1, <2>2 DEF preverIncidenteClaim
<1>3. QED
  BY <1>1, <1>2

(* A state the import of claim c may hold is one the marketplace reported. *)
LEMMA VersaoBuscada ==
  ASSUME Base, NEW c \in Claims, NEW n \in Versoes(c),
         importacoes[c][n].fase = "buscou"
  PROVE  /\ importacoes[c][n].versao \in 1 .. Len(claims[c])
         /\ n <= importacoes[c][n].versao
         /\ claims[c][importacoes[c][n].versao] \in Claim
<1>1. importacoes[c][n] \in Importacao(c)
  BY DEF Base, TypeOK
<1>2. importacoes[c][n].versao \in Versoes(c)
  BY <1>1 DEF Importacao
<1>3. claims[c] \in Seq(Claim)
  BY DEF Base, TypeOK
<1>4. n <= importacoes[c][n].versao /\ importacoes[c][n].versao <= Len(claims[c])
  BY DEF Base, InvImportacao
<1>5. importacoes[c][n].versao \in 1 .. Len(claims[c])
  BY <1>2, <1>3, <1>4, ClaimsTipo DEF Versoes
<1>6. QED
  BY <1>3, <1>4, <1>5

LEMMA EscreverTipo ==
  ASSUME TypeOK, NEW i \in Incidentes, NEW doc \in Guardado, Escrever(i, doc)
  PROVE  incidentes' \in [Incidentes -> Guardado] /\ eventos' \in Nat
  BY DEF TypeOK, Escrever, Guardado

LEMMA ProvedorTipo ==
  ASSUME TypeOK, NEW c \in Claims, ProvedorMuda(c)
  PROVE  /\ TypeOK'
         /\ Len(claims'[c]) = Len(claims[c]) + 1
         /\ claims'[c][Len(claims[c]) + 1].relogio \in ProximosRelogios(c)
         /\ \A d \in Claims : \A n \in 1 .. Len(claims[d]) : claims'[d][n] = claims[d][n]
         /\ \A d \in Claims : d # c => claims'[d] = claims[d]
<1> DEFINE k == Len(claims[c])
<1>1. claims[c] \in Seq(Claim) /\ k \in Nat /\ k < MaxVersoes[c]
  BY DEF TypeOK, ProvedorMuda
<1>2. PICK status \in StatusClaim, entregue \in BOOLEAN, relogio \in ProximosRelogios(c) :
        claims' = [claims EXCEPT ![c] = Append(@,
          [status |-> status, entregue |-> entregue, relogio |-> relogio])]
  BY DEF ProvedorMuda
<1> DEFINE nova == [status |-> status, entregue |-> entregue, relogio |-> relogio]
<1>3. relogio \in Nat \cup {Nenhum}
  BY <1>1 DEF ProximosRelogios
<1>4. nova \in Claim
  BY <1>3 DEF Claim
<1>5. claims'[c] = Append(claims[c], nova) /\ \A d \in Claims : d # c => claims'[d] = claims[d]
  BY <1>2 DEF TypeOK
<1> HIDE DEF nova
<1>6. /\ claims'[c] \in Seq(Claim) /\ Len(claims'[c]) = k + 1
      /\ claims'[c][k + 1] = nova
      /\ \A n \in 1 .. k : claims'[c][n] = claims[c][n]
  BY <1>1, <1>4, <1>5
<1>7. claims' \in [Claims -> Seq(Claim)]
  BY <1>2, <1>4 DEF TypeOK, nova
<1>8. \A d \in Claims : Len(claims'[d]) <= MaxVersoes[d]
  BY <1>1, <1>5, <1>6, ClaimsTipo DEF TypeOK
<1>9. k + 1 \in Versoes(c)
  BY <1>1, ClaimsTipo DEF Versoes
<1>10. [fase |-> "pendente"] \in Importacao(c)
  BY DEF Importacao
<1>11. /\ DOMAIN importacoes' = Claims
       /\ \A d \in Claims : importacoes'[d] \in [Versoes(d) -> Importacao(d)]
  <2> DEFINE v == [fase |-> "pendente"]
             m == k + 1
  <2>1. importacoes' = [importacoes EXCEPT ![c][m] = v]
    BY DEF ProvedorMuda
  <2>2. m \in Versoes(c) /\ v \in Importacao(c)
    BY <1>9, <1>10
  <2> HIDE DEF m, v
  <2>3. QED
    BY <2>1, <2>2, FilaMuda
<1>12. UNCHANGED <<incidentes, eventos, perdido, excluidos, pedido, checkouts, sessoes>>
  BY DEF ProvedorMuda
<1>13. TypeOK'
  BY <1>7, <1>8, <1>11, <1>12 DEF TypeOK
<1>14. nova.relogio \in ProximosRelogios(c)
  BY DEF nova
<1>15. QED
  BY <1>5, <1>6, <1>13, <1>14

LEMMA ImportacaoTipo ==
  ASSUME Base, NEW c \in Claims, NEW n \in Versoes(c),
         BuscarClaim(c, n) \/ SalvarIncidenteClaim(c, n) \/ RefazerImportacao(c, n)
  PROVE  TypeOK'
<1> USE DEF Base
<1>1. CASE BuscarClaim(c, n)
  <2> DEFINE v == [fase |-> "buscou", versao |-> Len(claims[c])]
  <2>1. Len(claims[c]) \in Nat /\ Len(claims[c]) <= MaxVersoes[c] /\ n <= Len(claims[c])
    BY <1>1 DEF BuscarClaim, TypeOK, InvImportacao
  <2>2. Len(claims[c]) \in Versoes(c)
    BY <2>1, ClaimsTipo DEF Versoes
  <2>3. v \in Importacao(c)
    BY <2>2 DEF Importacao
  <2>4. importacoes' = [importacoes EXCEPT ![c][n] = v]
    BY <1>1 DEF BuscarClaim
  <2> HIDE DEF v
  <2>5. DOMAIN importacoes' = Claims
          /\ \A d \in Claims : importacoes'[d] \in [Versoes(d) -> Importacao(d)]
    BY <2>3, <2>4, FilaMuda
  <2>6. QED
    BY <1>1, <2>5 DEF BuscarClaim, TypeOK
<1>2. CASE SalvarIncidenteClaim(c, n)
  <2> DEFINE doc == preverIncidenteClaim(incidentes[c], claims[c][importacoes[c][n].versao])
             v == [fase |-> "feita"]
  <2>1. doc \in Incidente
    BY <1>2, VersaoBuscada, PreverTipo, ClaimsTipo
       DEF SalvarIncidenteClaim, TypeOK, Guardado
  <2>2. Escrever(c, doc)
    BY <1>2 DEF SalvarIncidenteClaim
  <2> HIDE DEF doc
  <2>3. incidentes' \in [Incidentes -> Guardado] /\ eventos' \in Nat
    BY <2>1, <2>2, EscreverTipo, ClaimsTipo DEF Guardado
  <2>4. v \in Importacao(c)
    BY DEF Importacao
  <2>5. importacoes' = [importacoes EXCEPT ![c][n] = v]
    BY <1>2 DEF SalvarIncidenteClaim
  <2> HIDE DEF v
  <2>6. DOMAIN importacoes' = Claims
          /\ \A d \in Claims : importacoes'[d] \in [Versoes(d) -> Importacao(d)]
    BY <2>4, <2>5, FilaMuda
  <2>7. QED
    BY <1>2, <2>3, <2>6 DEF SalvarIncidenteClaim, TypeOK, Guardado
<1>3. CASE RefazerImportacao(c, n)
  <2> DEFINE v == [fase |-> "pendente"]
  <2>1. v \in Importacao(c)
    BY DEF Importacao
  <2>2. importacoes' = [importacoes EXCEPT ![c][n] = v]
    BY <1>3 DEF RefazerImportacao
  <2> HIDE DEF v
  <2>3. DOMAIN importacoes' = Claims
          /\ \A d \in Claims : importacoes'[d] \in [Versoes(d) -> Importacao(d)]
    BY <2>1, <2>2, FilaMuda
  <2>4. QED
    BY <1>3, <2>3 DEF RefazerImportacao, TypeOK
<1>4. QED
  BY <1>1, <1>2, <1>3

(* What a person does to one incidente: an imported row keeps what the     *)
(* importer wrote, or goes away for good.                                  *)
EscritaDePessoa(i, doc) ==
  /\ doc \in Guardado
  /\ incidentes' = [incidentes EXCEPT ![i] = doc]
  /\ eventos' = 0 => ~MudouCampoBloqueio(incidentes[i], doc)
  /\ eventos' \in Nat /\ eventos <= eventos'
  /\ i \in Claims =>
       /\ incidentes[i] # Nenhum
       /\ IF doc = Nenhum THEN i \in excluidos'
          ELSE /\ doc.claimStatus = incidentes[i].claimStatus
               /\ doc.entregue = incidentes[i].entregue
               /\ doc.relogioProvedorUs = incidentes[i].relogioProvedorUs
  /\ excluidos \subseteq excluidos' /\ excluidos' \subseteq Claims
  /\ UNCHANGED <<claims, importacoes, perdido, pedido, checkouts, sessoes>>

DePessoa(i) ==
  \/ LiberarBloqueioIncidente(i)
  \/ SaveIncidenteEdit(i)
  \/ SaveIncidente(i)
  \/ DeleteIncidente(i)

LEMMA PessoaEscreve ==
  ASSUME TypeOK, NEW i \in Incidentes, DePessoa(i)
  PROVE  \E doc \in Guardado : EscritaDePessoa(i, doc)
<1>1. incidentes[i] \in Guardado /\ eventos \in Nat /\ excluidos \subseteq Claims
  BY DEF TypeOK, Guardado
<1>2. CASE LiberarBloqueioIncidente(i)
  <2>1. PICK acoes \in Liberacoes :
          incidentes' = [incidentes EXCEPT ![i].overrideBloqueio = acoes]
    BY <1>2 DEF LiberarBloqueioIncidente
  <2> DEFINE doc == [incidentes[i] EXCEPT !.overrideBloqueio = acoes]
  <2>2. incidentes[i] \in Incidente /\ acoes \in SUBSET AcaoBloqueada
    BY <1>1, <1>2, BloqueioAssumption DEF LiberarBloqueioIncidente, Guardado
  <2>3. /\ doc \in Incidente
        /\ doc.claimStatus = incidentes[i].claimStatus
        /\ doc.entregue = incidentes[i].entregue
        /\ doc.relogioProvedorUs = incidentes[i].relogioProvedorUs
    BY <2>2 DEF Incidente
  <2>4. incidentes' = [incidentes EXCEPT ![i] = doc]
    BY <2>1
  <2> HIDE DEF doc
  <2>5. doc # Nenhum
    BY <2>3, IncidenteAssumption
  <2>6. /\ eventos' = eventos + 1 /\ incidentes[i] # Nenhum
        /\ UNCHANGED <<claims, importacoes, perdido, excluidos, pedido, checkouts, sessoes>>
    BY <1>2 DEF LiberarBloqueioIncidente
  <2>7. eventos' \in Nat /\ eventos <= eventos' /\ eventos' # 0
    BY <1>1, <2>6
  <2>8. EscritaDePessoa(i, doc)
    BY <1>1, <2>3, <2>4, <2>5, <2>6, <2>7 DEF EscritaDePessoa, Guardado
  <2>9. QED
    BY <2>8 DEF EscritaDePessoa
<1>3. CASE SaveIncidenteEdit(i)
  <2> DEFINE doc == [incidentes[i] EXCEPT !.resolucao = ~@]
  <2>1. incidentes[i] \in Incidente
    BY <1>1, <1>3 DEF SaveIncidenteEdit, Guardado
  <2>2. /\ doc \in Incidente
        /\ doc.claimStatus = incidentes[i].claimStatus
        /\ doc.entregue = incidentes[i].entregue
        /\ doc.relogioProvedorUs = incidentes[i].relogioProvedorUs
    BY <2>1 DEF Incidente
  <2>3. /\ Escrever(i, doc) /\ incidentes[i] # Nenhum
        /\ UNCHANGED <<claims, importacoes, perdido, excluidos, pedido, checkouts, sessoes>>
    BY <1>3 DEF SaveIncidenteEdit
  <2> HIDE DEF doc
  <2>4. doc # Nenhum
    BY <2>2, IncidenteAssumption
  <2>5. /\ incidentes' = [incidentes EXCEPT ![i] = doc]
        /\ eventos' = 0 => ~MudouCampoBloqueio(incidentes[i], doc)
        /\ eventos' \in Nat /\ eventos <= eventos'
    BY <1>1, <2>3 DEF Escrever
  <2>6. EscritaDePessoa(i, doc)
    BY <1>1, <2>2, <2>3, <2>4, <2>5 DEF EscritaDePessoa, Guardado
  <2>7. QED
    BY <2>6 DEF EscritaDePessoa
<1>4. CASE SaveIncidente(i)
  <2>1. SemClaim \in Guardado
    BY DEF SemClaim, Guardado, Incidente
  <2>2. EscritaDePessoa(i, SemClaim)
    BY <1>1, <1>4, <2>1 DEF SaveIncidente, Escrever, EscritaDePessoa
  <2>3. QED
    BY <2>1, <2>2
<1>5. CASE DeleteIncidente(i)
  <2>1. EscritaDePessoa(i, Nenhum)
    BY <1>1, <1>5 DEF DeleteIncidente, Escrever, EscritaDePessoa, Guardado
  <2>2. QED
    BY <2>1 DEF EscritaDePessoa
<1>6. QED
  BY <1>2, <1>3, <1>4, <1>5 DEF DePessoa

Gatilho == OnIncidenteBloqueioSync \/ ReentregarEvento \/ PerderEvento

DoCheckout(o) ==
  EvaluatePreSave(o) \/ SalvarCheckout(o) \/ AvancarRetirada(o) \/ AbandonarCheckout(o)

DoPedido == ConfirmarEntregaPedido \/ MoverFrete \/ MudarEstado \/ ExcluirPedido

(* The steps that leave the claims, their imports and the incidentes alone. *)
Outro == Gatilho \/ (\E o \in Operadores : DoCheckout(o)) \/ DoPedido

LEMMA OutroNaoMexe ==
  ASSUME Outro
  PROVE  UNCHANGED <<claims, importacoes, incidentes, excluidos>>
<1>1. CASE Gatilho
  BY <1>1 DEF Gatilho, OnIncidenteBloqueioSync, ReentregarEvento, PerderEvento
<1>2. ASSUME NEW o \in Operadores, DoCheckout(o)
      PROVE  UNCHANGED <<claims, importacoes, incidentes, excluidos>>
  BY <1>2 DEF DoCheckout, EvaluatePreSave, SalvarCheckout, AvancarRetirada, AbandonarCheckout
<1>3. CASE DoPedido
  BY <1>3 DEF DoPedido, ConfirmarEntregaPedido, MoverFrete, MudarEstado, ExcluirPedido
<1>4. QED
  BY <1>1, <1>2, <1>3 DEF Outro

LEMMA GatilhoTipo ==
  ASSUME TypeOK, Gatilho
  PROVE  /\ pedido' \in PedidoDoc \cup {Nenhum} /\ perdido' \in BOOLEAN
         /\ eventos' \in Nat /\ UNCHANGED <<checkouts, sessoes>>
<1>1. calcularMarcadores(incidentes) \in Marcadores
  BY CalculoTipo DEF TypeOK, Guardado
<1>2. pedido \in PedidoDoc \cup {Nenhum} /\ perdido \in BOOLEAN /\ eventos \in Nat
  BY DEF TypeOK
<1>3. ASSUME SincronizarMarcadores
      PROVE  pedido' \in PedidoDoc \cup {Nenhum} /\ perdido' \in BOOLEAN
  BY <1>1, <1>2, <1>3 DEF SincronizarMarcadores, PedidoDoc
<1>4. CASE OnIncidenteBloqueioSync
  BY <1>2, <1>3, <1>4 DEF OnIncidenteBloqueioSync
<1>5. CASE ReentregarEvento
  BY <1>2, <1>3, <1>5 DEF ReentregarEvento
<1>6. CASE PerderEvento
  BY <1>2, <1>6 DEF PerderEvento
<1>7. QED
  BY <1>4, <1>5, <1>6 DEF Gatilho

LEMMA CheckoutTipo ==
  ASSUME TypeOK, NEW o \in Operadores, DoCheckout(o)
  PROVE  /\ pedido' \in PedidoDoc \cup {Nenhum} /\ checkouts' \in Nat
         /\ sessoes' \in [Operadores -> Sessao] /\ UNCHANGED <<eventos, perdido>>
<1>1. /\ pedido \in PedidoDoc \cup {Nenhum} /\ checkouts \in Nat
      /\ sessoes \in [Operadores -> Sessao]
  BY DEF TypeOK
<1>2. Fora \in Sessao /\ [fase |-> "retirada"] \in Sessao
  BY DEF Fora, Sessao
<1>3. ASSUME NEW frete \in EstadosFrete, pedido # Nenhum
      PROVE  [pedido EXCEPT !.frete = frete] \in PedidoDoc
  BY <1>1, <1>3 DEF PedidoDoc
<1>4. CASE EvaluatePreSave(o)
  <2> DEFINE e == IF pedido.frete \in ALLOWED_FRETE_ESTADOS THEN Nenhum ELSE pedido.frete
             s == [fase |-> "avaliado", estadoContinuar |-> e]
  <2>1. e \in EstadosFrete \cup {Nenhum}
    BY <1>1, <1>4 DEF EvaluatePreSave, PedidoDoc
  <2> HIDE DEF e
  <2>2. s \in Sessao
    BY <2>1 DEF Sessao
  <2>3. sessoes' = [sessoes EXCEPT ![o] = s]
    BY <1>4 DEF EvaluatePreSave, e
  <2> HIDE DEF s
  <2>4. QED
    BY <1>1, <1>4, <2>2, <2>3 DEF EvaluatePreSave
<1>5. CASE SalvarCheckout(o)
  <2>1. pedido # Nenhum
    BY <1>5 DEF SalvarCheckout, CheckoutPermitido
  <2>2. FreteDoCheckout(o) \in EstadosFrete
    BY <1>1, <2>1 DEF FreteDoCheckout, EstadosFrete, PedidoDoc
  <2>3. sessoes' \in [Operadores -> Sessao]
    BY <1>1, <1>2, <1>5 DEF SalvarCheckout
  <2>4. QED
    BY <1>1, <1>3, <1>5, <2>1, <2>2, <2>3 DEF SalvarCheckout
<1>6. CASE AvancarRetirada(o)
  <2>1. "aguardandoRetirada" \in EstadosFrete
    BY DEF EstadosFrete, ESTADOS_FRETE_MERCADORIA_FORA
  <2>2. QED
    BY <1>1, <1>2, <1>3, <1>6, <2>1 DEF AvancarRetirada, avancaParaRetirada
<1>7. CASE AbandonarCheckout(o)
  BY <1>1, <1>2, <1>7 DEF AbandonarCheckout
<1>8. QED
  BY <1>4, <1>5, <1>6, <1>7 DEF DoCheckout

LEMMA PedidoTipo ==
  ASSUME TypeOK, DoPedido
  PROVE  /\ pedido' \in PedidoDoc \cup {Nenhum}
         /\ UNCHANGED <<eventos, perdido, checkouts, sessoes>>
<1>1. pedido \in PedidoDoc \cup {Nenhum}
  BY DEF TypeOK
<1>2. CASE ConfirmarEntregaPedido
  BY <1>1, <1>2 DEF ConfirmarEntregaPedido, PedidoDoc, EstadosPedido, EstadosFrete,
                    ESTADOS_FRETE_MERCADORIA_FORA
<1>3. CASE MoverFrete
  BY <1>1, <1>3 DEF MoverFrete, PedidoDoc
<1>4. CASE MudarEstado
  BY <1>1, <1>4 DEF MudarEstado, PedidoDoc
<1>5. CASE ExcluirPedido
  BY <1>5 DEF ExcluirPedido
<1>6. QED
  BY <1>2, <1>3, <1>4, <1>5 DEF DoPedido

LEMMA OutroTipo ==
  ASSUME TypeOK, Outro
  PROVE  TypeOK'
<1>1. UNCHANGED <<claims, importacoes, incidentes, excluidos>>
  BY OutroNaoMexe
<1>2. /\ pedido' \in PedidoDoc \cup {Nenhum} /\ perdido' \in BOOLEAN /\ eventos' \in Nat
      /\ checkouts' \in Nat /\ sessoes' \in [Operadores -> Sessao]
  BY GatilhoTipo, CheckoutTipo, PedidoTipo DEF Outro, TypeOK
<1>3. QED
  BY <1>1, <1>2 DEF TypeOK

DaFila(c, n) == BuscarClaim(c, n) \/ SalvarIncidenteClaim(c, n) \/ RefazerImportacao(c, n)

LEMMA Passos ==
  ASSUME [Next]_vars
  PROVE  \/ \E c \in Claims : ProvedorMuda(c)
         \/ \E c \in Claims : \E n \in Versoes(c) : DaFila(c, n)
         \/ \E i \in Incidentes : DePessoa(i)
         \/ Outro
         \/ UNCHANGED vars
<1>1. CASE Next
  BY <1>1 DEF Next, DaFila, DePessoa, Outro, Gatilho, DoCheckout, DoPedido
<1>2. CASE UNCHANGED vars
  BY <1>2
<1>3. QED
  BY <1>1, <1>2

LEMMA PessoaTipo ==
  ASSUME TypeOK, NEW i \in Incidentes, DePessoa(i)
  PROVE  TypeOK'
<1>1. PICK doc \in Guardado : EscritaDePessoa(i, doc)
  BY PessoaEscreve
<1>2. incidentes' \in [Incidentes -> Guardado]
  BY <1>1 DEF EscritaDePessoa, TypeOK, Guardado
<1>3. QED
  BY <1>1, <1>2 DEF EscritaDePessoa, TypeOK, Guardado

LEMMA TipoPasso ==
  ASSUME Base, [Next]_vars
  PROVE  TypeOK'
<1>1. TypeOK
  BY DEF Base
<1>2. ASSUME NEW c \in Claims, ProvedorMuda(c)
      PROVE  TypeOK'
  BY <1>1, <1>2, ProvedorTipo
<1>3. ASSUME NEW c \in Claims, NEW n \in Versoes(c), DaFila(c, n)
      PROVE  TypeOK'
  BY <1>3, ImportacaoTipo DEF DaFila
<1>4. ASSUME NEW i \in Incidentes, DePessoa(i)
      PROVE  TypeOK'
  BY <1>1, <1>4, PessoaTipo
<1>5. ASSUME Outro
      PROVE  TypeOK'
  BY <1>1, <1>5, OutroTipo
<1>6. ASSUME UNCHANGED vars
      PROVE  TypeOK'
  BY <1>1, <1>6 DEF vars, TypeOK
<1>7. QED
  BY <1>2, <1>3, <1>4, <1>5, <1>6, Passos

-----------------------------------------------------------------------------
(* Imports.                                                                *)

(* One import moves; the claims stay.  Its new phase is one of three.      *)
LEMMA FilaEfeito ==
  ASSUME Base, NEW c \in Claims, NEW n \in Versoes(c), DaFila(c, n)
  PROVE  /\ claims' = claims /\ excluidos' = excluidos
         /\ importacoes[c][n].fase # "nada"
         /\ \E v \in Importacao(c) :
              /\ importacoes' = [importacoes EXCEPT ![c][n] = v]
              /\ v.fase = "buscou" => v.versao = Len(claims[c])
              /\ v.fase = "feita" => SalvarIncidenteClaim(c, n)
<1>1. CASE BuscarClaim(c, n)
  <2> DEFINE v == [fase |-> "buscou", versao |-> Len(claims[c])]
  <2>1. /\ n <= Len(claims[c]) /\ Len(claims[c]) <= MaxVersoes[c]
        /\ Len(claims[c]) \in Nat /\ importacoes[c][n].fase = "pendente"
    BY <1>1 DEF BuscarClaim, Base, TypeOK, InvImportacao
  <2>2. Len(claims[c]) \in Versoes(c)
    BY <2>1, ClaimsTipo DEF Versoes
  <2>3. v \in Importacao(c) /\ v.fase = "buscou" /\ v.versao = Len(claims[c])
    BY <2>2 DEF Importacao
  <2>4. importacoes' = [importacoes EXCEPT ![c][n] = v]
    BY <1>1 DEF BuscarClaim
  <2>5. claims' = claims /\ excluidos' = excluidos
    BY <1>1 DEF BuscarClaim
  <2> HIDE DEF v
  <2>6. QED
    BY <2>1, <2>3, <2>4, <2>5
<1>2. CASE SalvarIncidenteClaim(c, n)
  <2> DEFINE v == [fase |-> "feita"]
  <2>1. v \in Importacao(c) /\ v.fase = "feita"
    BY DEF Importacao
  <2>2. /\ importacoes' = [importacoes EXCEPT ![c][n] = v]
        /\ claims' = claims /\ excluidos' = excluidos
        /\ importacoes[c][n].fase = "buscou"
    BY <1>2 DEF SalvarIncidenteClaim
  <2> HIDE DEF v
  <2>3. QED
    BY <1>2, <2>1, <2>2
<1>3. CASE RefazerImportacao(c, n)
  <2> DEFINE v == [fase |-> "pendente"]
  <2>1. v \in Importacao(c) /\ v.fase = "pendente"
    BY DEF Importacao
  <2>2. /\ importacoes' = [importacoes EXCEPT ![c][n] = v]
        /\ claims' = claims /\ excluidos' = excluidos
        /\ importacoes[c][n].fase # "nada"
    BY <1>3 DEF RefazerImportacao
  <2> HIDE DEF v
  <2>3. QED
    BY <2>1, <2>2
<1>4. QED
  BY <1>1, <1>2, <1>3 DEF DaFila

LEMMA ImportacaoPasso ==
  ASSUME Base, [Next]_vars
  PROVE  InvImportacao'
<1>1. TypeOK /\ InvImportacao
  BY DEF Base
<1>2. ASSUME NEW c \in Claims, ProvedorMuda(c)
      PROVE  InvImportacao'
  <2> DEFINE v == [fase |-> "pendente"]
             m == Len(claims[c]) + 1
  <2>1. importacoes' = [importacoes EXCEPT ![c][m] = v] /\ Len(claims[c]) < MaxVersoes[c]
    BY <1>2 DEF ProvedorMuda
  <2>2. Len(claims[c]) \in Nat
    BY <1>1 DEF TypeOK
  <2>3. m \in Versoes(c) /\ v \in Importacao(c)
    BY <2>1, <2>2, ClaimsTipo DEF Versoes, Importacao
  <2>4. \A d \in Claims : \A n \in Versoes(d) :
          importacoes'[d][n] = IF d = c /\ n = m THEN v ELSE importacoes[d][n]
    <3> HIDE DEF v, m
    <3> QED BY <1>1, <2>1, <2>3, FilaMuda
  <2>5. /\ Len(claims'[c]) = m
        /\ \A d \in Claims : d # c => claims'[d] = claims[d]
    BY <1>1, <1>2, ProvedorTipo
  <2>6. v.fase = "pendente"
    OBVIOUS
  <2> HIDE DEF v
  <2>7. ASSUME NEW d \in Claims, NEW n \in Versoes(d)
        PROVE  /\ importacoes'[d][n].fase # "nada" => n <= Len(claims'[d])
               /\ importacoes'[d][n].fase = "buscou" =>
                    n <= importacoes'[d][n].versao
                      /\ importacoes'[d][n].versao <= Len(claims'[d])
    <3>1. /\ importacoes[d][n].fase # "nada" => n <= Len(claims[d])
          /\ importacoes[d][n].fase = "buscou" =>
               /\ importacoes[d][n].versao \in Versoes(d)
               /\ n <= importacoes[d][n].versao /\ importacoes[d][n].versao <= Len(claims[d])
      <4>1. importacoes[d][n] \in Importacao(d)
        BY <1>1 DEF TypeOK
      <4>2. QED
        BY <1>1, <4>1 DEF InvImportacao, Importacao
    <3>2. CASE d = c /\ n = m
      BY <2>2, <2>4, <2>5, <2>6, <3>2
    <3>3. CASE d = c /\ n # m
      BY <2>2, <2>4, <2>5, <3>1, <3>3 DEF Versoes
    <3>4. CASE d # c
      BY <2>4, <2>5, <3>1, <3>4
    <3>5. QED
      BY <3>2, <3>3, <3>4
  <2>8. QED
    BY <2>7 DEF InvImportacao, Versoes
<1>3. ASSUME NEW c \in Claims, NEW n \in Versoes(c), DaFila(c, n)
      PROVE  InvImportacao'
  <2>1. PICK v \in Importacao(c) :
          /\ importacoes' = [importacoes EXCEPT ![c][n] = v]
          /\ v.fase = "buscou" => v.versao = Len(claims[c])
    BY <1>3, FilaEfeito
  <2>2. claims' = claims /\ importacoes[c][n].fase # "nada"
    BY <1>3, FilaEfeito
  <2>3. \A d \in Claims : \A m \in Versoes(d) :
          importacoes'[d][m] = IF d = c /\ m = n THEN v ELSE importacoes[d][m]
    BY <1>1, <2>1, FilaMuda
  <2>4. n <= Len(claims[c]) /\ Len(claims[c]) \in Nat
    BY <1>1, <2>2 DEF InvImportacao, TypeOK
  <2>5. ASSUME NEW d \in Claims, NEW m \in Versoes(d)
        PROVE  /\ importacoes'[d][m].fase # "nada" => m <= Len(claims[d])
               /\ importacoes'[d][m].fase = "buscou" =>
                    m <= importacoes'[d][m].versao
                      /\ importacoes'[d][m].versao <= Len(claims[d])
    <3>1. CASE d = c /\ m = n
      BY <2>1, <2>3, <2>4, <3>1
    <3>2. CASE ~(d = c /\ m = n)
      BY <1>1, <2>3, <3>2 DEF InvImportacao
    <3>3. QED
      BY <3>1, <3>2
  <2>6. QED
    BY <2>2, <2>5 DEF InvImportacao, Versoes
<1>4. ASSUME NEW i \in Incidentes, DePessoa(i)
      PROVE  UNCHANGED <<claims, importacoes>>
  BY <1>1, <1>4, PessoaEscreve DEF EscritaDePessoa
<1>5. ASSUME Outro \/ UNCHANGED vars
      PROVE  UNCHANGED <<claims, importacoes>>
  BY <1>5, OutroNaoMexe DEF vars
<1>6. ASSUME UNCHANGED <<claims, importacoes>>
      PROVE  InvImportacao'
  BY <1>1, <1>6 DEF InvImportacao, Versoes
<1>7. QED
  BY <1>2, <1>3, <1>4, <1>5, <1>6, Passos

-----------------------------------------------------------------------------
(* The history of a claim.                                                 *)

LEMMA ClaimsParados ==
  ASSUME Base, [Next]_vars, ~(\E c \in Claims : ProvedorMuda(c))
  PROVE  claims' = claims
<1>1. ASSUME NEW c \in Claims, NEW n \in Versoes(c), DaFila(c, n)
      PROVE  claims' = claims
  BY <1>1, FilaEfeito
<1>2. ASSUME NEW i \in Incidentes, DePessoa(i)
      PROVE  claims' = claims
  BY <1>2, PessoaEscreve DEF EscritaDePessoa, Base
<1>3. ASSUME Outro \/ UNCHANGED vars
      PROVE  claims' = claims
  BY <1>3, OutroNaoMexe DEF vars
<1>4. QED
  BY <1>1, <1>2, <1>3, Passos

LEMMA ProvedorFecha ==
  ASSUME TypeOK, NEW c \in Claims, ProvedorMuda(c), claims[c] # <<>>,
         claims[c][Len(claims[c])].status = "closed"
  PROVE  claims'[c][Len(claims[c]) + 1].status = "closed"
<1> DEFINE k == Len(claims[c])
<1>1. claims[c] \in Seq(Claim) /\ k \in Nat
  BY DEF TypeOK
<1>2. PICK status \in StatusClaim, entregue \in BOOLEAN, relogio \in ProximosRelogios(c) :
        /\ claims[c][k].status = "closed" => status = "closed"
        /\ claims' = [claims EXCEPT ![c] = Append(@,
             [status |-> status, entregue |-> entregue, relogio |-> relogio])]
  BY DEF ProvedorMuda
<1>3. claims'[c] = Append(claims[c],
        [status |-> status, entregue |-> entregue, relogio |-> relogio])
  BY <1>2 DEF TypeOK
<1>4. claims'[c][k + 1] = [status |-> status, entregue |-> entregue, relogio |-> relogio]
  BY <1>1, <1>3
<1>5. QED
  BY <1>2, <1>4

LEMMA HistoriaPasso ==
  ASSUME Base, InvHistoria, [Next]_vars
  PROVE  InvHistoria'
<1>1. CASE \E c \in Claims : ProvedorMuda(c)
  <2>1. PICK c \in Claims : ProvedorMuda(c)
    BY <1>1
  <2> DEFINE k == Len(claims[c])
  <2>2. /\ Len(claims'[c]) = k + 1
        /\ claims'[c][k + 1].relogio \in ProximosRelogios(c)
        /\ \A d \in Claims : \A n \in 1 .. Len(claims[d]) : claims'[d][n] = claims[d][n]
        /\ \A d \in Claims : d # c => claims'[d] = claims[d]
    BY <2>1, ProvedorTipo DEF Base
  <2>3. k \in Nat /\ claims[c] \in Seq(Claim)
    BY DEF Base, TypeOK
  <2>4. ASSUME NEW n \in 1 .. k
        PROVE  /\ claims[c][n].status = "closed" => claims'[c][k + 1].status = "closed"
               /\ (claims[c][n].relogio # Nenhum /\ claims'[c][k + 1].relogio # Nenhum) =>
                    claims[c][n].relogio <= claims'[c][k + 1].relogio
    <3>1. ASSUME claims[c][n].status = "closed"
          PROVE  claims'[c][k + 1].status = "closed"
      <4>1. claims[c] # <<>> /\ k \in 1 .. k
        BY <2>3
      <4>2. claims[c][k].status = "closed"
        BY <2>3, <3>1, <4>1 DEF InvHistoria
      <4>3. QED
        BY <2>1, <4>1, <4>2, ProvedorFecha DEF Base
    <3>2. ASSUME claims[c][n].relogio # Nenhum, claims'[c][k + 1].relogio # Nenhum
          PROVE  claims[c][n].relogio <= claims'[c][k + 1].relogio
      <4>1. claims[c][n].relogio \in Relogios(c) /\ claims[c][n].relogio \in Nat
        <5>1. claims[c][n] \in Claim
          BY <2>3
        <5>2. QED
          BY <3>2, <5>1 DEF Relogios, Claim
      <4>2. \A s \in Relogios(c) : s < claims'[c][k + 1].relogio \/ s = claims'[c][k + 1].relogio
        BY <2>2, <3>2 DEF ProximosRelogios
      <4>3. claims'[c][k + 1].relogio \in Nat
        BY <2>2, <2>3, <3>2 DEF ProximosRelogios
      <4>4. QED
        BY <4>1, <4>2, <4>3
    <3>3. QED
      BY <3>1, <3>2
  <2>5. ASSUME NEW d \in Claims, NEW n \in 1 .. Len(claims'[d]), NEW m \in 1 .. Len(claims'[d]),
               n < m
        PROVE  /\ claims'[d][n].status = "closed" => claims'[d][m].status = "closed"
               /\ (claims'[d][n].relogio # Nenhum /\ claims'[d][m].relogio # Nenhum) =>
                    claims'[d][n].relogio <= claims'[d][m].relogio
    <3>1. CASE d # c
      BY <2>2, <2>5, <3>1 DEF InvHistoria
    <3>2. CASE d = c /\ m = k + 1
      <4>1. n \in 1 .. k
        BY <2>2, <2>3, <2>5, <3>2
      <4>2. claims'[c][n] = claims[c][n]
        BY <2>2, <4>1
      <4>3. QED
        BY <2>4, <3>2, <4>1, <4>2
    <3>3. CASE d = c /\ m # k + 1
      <4>1. n \in 1 .. k /\ m \in 1 .. k
        BY <2>2, <2>3, <2>5, <3>3
      <4>2. claims'[c][n] = claims[c][n] /\ claims'[c][m] = claims[c][m]
        BY <2>2, <4>1
      <4>3. QED
        BY <2>5, <3>3, <4>1, <4>2 DEF InvHistoria
    <3>4. QED
      BY <3>1, <3>2, <3>3
  <2>6. QED
    BY <2>5 DEF InvHistoria
<1>2. CASE ~(\E c \in Claims : ProvedorMuda(c))
  <2>1. claims' = claims
    BY <1>2, ClaimsParados
  <2>2. QED
    BY <2>1 DEF InvHistoria
<1>3. QED
  BY <1>1, <1>2

-----------------------------------------------------------------------------
(* The incidentes.                                                         *)

LEMMA SalvarEfeito ==
  ASSUME Base, NEW c \in Claims, NEW n \in Versoes(c), SalvarIncidenteClaim(c, n)
  PROVE  \E v \in 1 .. Len(claims[c]) :
           /\ n <= v /\ claims[c][v] \in Claim
           /\ incidentes' =
                [incidentes EXCEPT ![c] = preverIncidenteClaim(incidentes[c], claims[c][v])]
<1>1. importacoes[c][n].fase = "buscou"
  BY DEF SalvarIncidenteClaim
<1>2. incidentes' = [incidentes EXCEPT ![c] =
        preverIncidenteClaim(incidentes[c], claims[c][importacoes[c][n].versao])]
  BY DEF SalvarIncidenteClaim, Escrever
<1>3. QED
  BY <1>1, <1>2, VersaoBuscada

(* What an import leaves in the incidente of its claim. *)
LEMMA PreverEfeito ==
  ASSUME NEW inc \in Guardado, NEW claim \in Claim
  PROVE  LET depois == preverIncidenteClaim(inc, claim)
         IN /\ depois \in Incidente
            /\ Estampada(inc) => Estampada(depois)
            /\ claim.relogio # Nenhum => Estampada(depois)
            /\ \/ depois = inc /\ Estampada(inc)
                    /\ (claim.relogio # Nenhum => claim.relogio < inc.relogioProvedorUs)
               \/ /\ depois.claimStatus = claim.status
                  /\ depois.entregue = claim.entregue
                  /\ depois.relogioProvedorUs = claim.relogio
                  /\ Estampada(inc) =>
                       claim.relogio # Nenhum /\ inc.relogioProvedorUs <= claim.relogio
<1>1. preverIncidenteClaim(inc, claim) \in Incidente
  BY PreverTipo
<1>2. /\ claim.relogio \in Nat \cup {Nenhum}
      /\ Nenhum \notin Incidente /\ Nenhum \notin Nat
  BY IncidenteAssumption DEF Claim
<1>3. CASE inc = Nenhum
  <2>1. preverIncidenteClaim(inc, claim) = Criado(claim)
    BY <1>3 DEF preverIncidenteClaim
  <2>2. QED
    BY <1>1, <1>2, <1>3, <2>1 DEF Criado, Estampada
<1>4. CASE inc # Nenhum /\ Obsoleta(inc, claim)
  <2>1. preverIncidenteClaim(inc, claim) = inc
    BY <1>4 DEF preverIncidenteClaim
  <2>2. QED
    BY <1>1, <1>4, <2>1 DEF Estampada, Obsoleta
<1>5. CASE inc # Nenhum /\ ~Obsoleta(inc, claim)
  <2>1. preverIncidenteClaim(inc, claim) = Atualizado(inc, claim)
    BY <1>5 DEF preverIncidenteClaim
  <2>2. inc \in Incidente /\ inc.relogioProvedorUs \in Nat \cup {Nenhum}
    BY <1>5 DEF Guardado, Incidente
  <2>3. \/ inc.relogioProvedorUs = Nenhum
        \/ claim.relogio # Nenhum /\ inc.relogioProvedorUs <= claim.relogio
    BY <1>2, <1>5, <2>2 DEF Obsoleta
  <2>4. /\ Atualizado(inc, claim).claimStatus = claim.status
        /\ Atualizado(inc, claim).entregue = claim.entregue
        /\ Atualizado(inc, claim).relogioProvedorUs = claim.relogio
    BY <2>2, <2>3 DEF Atualizado, Incidente
  <2>5. QED
    BY <1>1, <1>2, <1>5, <2>1, <2>3, <2>4 DEF Estampada
<1>6. QED
  BY <1>3, <1>4, <1>5

(* An imported incidente changes by an import of its claim or by a person. *)
LEMMA IncidenteMuda ==
  ASSUME Base, [Next]_vars, NEW d \in Claims
  PROVE  \/ incidentes'[d] = incidentes[d]
         \/ \E n \in Versoes(d) : SalvarIncidenteClaim(d, n)
         \/ /\ claims' = claims /\ importacoes' = importacoes
            /\ incidentes[d] # Nenhum
            /\ IF incidentes'[d] = Nenhum THEN d \in excluidos'
               ELSE /\ incidentes'[d].claimStatus = incidentes[d].claimStatus
                    /\ incidentes'[d].entregue = incidentes[d].entregue
                    /\ incidentes'[d].relogioProvedorUs = incidentes[d].relogioProvedorUs
<1>1. /\ d \in Incidentes /\ TypeOK
      /\ incidentes \in [Incidentes -> Guardado]
  BY ClaimsTipo DEF Base, TypeOK, Guardado
<1>2. ASSUME NEW c \in Claims, ProvedorMuda(c)
      PROVE  incidentes'[d] = incidentes[d]
  BY <1>2 DEF ProvedorMuda
<1>3. ASSUME NEW c \in Claims, NEW n \in Versoes(c), DaFila(c, n)
      PROVE  incidentes'[d] = incidentes[d] \/ (SalvarIncidenteClaim(d, n) /\ c = d)
  BY <1>1, <1>3 DEF DaFila, BuscarClaim, SalvarIncidenteClaim, RefazerImportacao, Escrever
<1>4. ASSUME NEW i \in Incidentes, DePessoa(i)
      PROVE  \/ incidentes'[d] = incidentes[d]
             \/ /\ claims' = claims /\ importacoes' = importacoes
                /\ incidentes[d] # Nenhum
                /\ IF incidentes'[d] = Nenhum THEN d \in excluidos'
                   ELSE /\ incidentes'[d].claimStatus = incidentes[d].claimStatus
                        /\ incidentes'[d].entregue = incidentes[d].entregue
                        /\ incidentes'[d].relogioProvedorUs = incidentes[d].relogioProvedorUs
  <2>1. PICK doc \in Guardado : EscritaDePessoa(i, doc)
    BY <1>1, <1>4, PessoaEscreve
  <2>2. CASE i = d
    <3>1. incidentes'[d] = doc
      BY <1>1, <2>1, <2>2 DEF EscritaDePessoa
    <3>2. QED
      BY <2>1, <2>2, <3>1 DEF EscritaDePessoa
  <2>3. CASE i # d
    BY <1>1, <2>1, <2>3 DEF EscritaDePessoa
  <2>4. QED
    BY <2>2, <2>3
<1>5. ASSUME Outro \/ UNCHANGED vars
      PROVE  incidentes'[d] = incidentes[d]
  BY <1>5, OutroNaoMexe DEF vars
<1>6. QED
  BY <1>2, <1>3, <1>4, <1>5, Passos

LEMMA ClaimsCrescem ==
  ASSUME Base, [Next]_vars, NEW d \in Claims
  PROVE  /\ Len(claims[d]) \in Nat /\ Len(claims'[d]) \in Nat
         /\ Len(claims[d]) <= Len(claims'[d])
         /\ \A n \in 1 .. Len(claims[d]) : claims'[d][n] = claims[d][n]
<1>1. Len(claims[d]) \in Nat
  BY DEF Base, TypeOK
<1>2. ASSUME NEW c \in Claims, ProvedorMuda(c)
      PROVE  /\ Len(claims'[d]) \in Nat /\ Len(claims[d]) <= Len(claims'[d])
             /\ \A n \in 1 .. Len(claims[d]) : claims'[d][n] = claims[d][n]
  BY <1>1, <1>2, ProvedorTipo DEF Base
<1>3. QED
  BY <1>1, <1>2, ClaimsParados

LEMMA FielPasso ==
  ASSUME Base, FielAoProvedor, [Next]_vars
  PROVE  FielAoProvedor'
<1> SUFFICES ASSUME NEW d \in Claims, Estampada(incidentes'[d])
             PROVE  \E n \in 1 .. Len(claims'[d]) :
                      /\ claims'[d][n].relogio = incidentes'[d].relogioProvedorUs
                      /\ claims'[d][n].status = incidentes'[d].claimStatus
                      /\ claims'[d][n].entregue = incidentes'[d].entregue
  BY DEF FielAoProvedor, Estampada
<1> DEFINE Espelha(n, inc) == /\ claims[d][n].relogio = inc.relogioProvedorUs
                              /\ claims[d][n].status = inc.claimStatus
                              /\ claims[d][n].entregue = inc.entregue
<1>1. d \in Incidentes /\ incidentes \in [Incidentes -> Guardado]
  BY ClaimsTipo DEF Base, TypeOK, Guardado
<1>2. \A n \in 1 .. Len(claims[d]) : n \in 1 .. Len(claims'[d]) /\ claims'[d][n] = claims[d][n]
  BY ClaimsCrescem
<1>3. Estampada(incidentes[d]) => \E n \in 1 .. Len(claims[d]) : Espelha(n, incidentes[d])
  BY DEF FielAoProvedor
<1>4. \E n \in 1 .. Len(claims[d]) : Espelha(n, incidentes'[d])
  <2>1. CASE incidentes'[d] = incidentes[d]
    BY <1>3, <2>1
  <2>2. ASSUME NEW n \in Versoes(d), SalvarIncidenteClaim(d, n)
        PROVE  \E m \in 1 .. Len(claims[d]) : Espelha(m, incidentes'[d])
    <3>1. PICK v \in 1 .. Len(claims[d]) :
            /\ claims[d][v] \in Claim
            /\ incidentes' =
                 [incidentes EXCEPT ![d] = preverIncidenteClaim(incidentes[d], claims[d][v])]
      BY <2>2, SalvarEfeito
    <3>2. incidentes'[d] = preverIncidenteClaim(incidentes[d], claims[d][v])
      BY <1>1, <3>1
    <3>3. \/ incidentes'[d] = incidentes[d] /\ Estampada(incidentes[d])
          \/ Espelha(v, incidentes'[d])
      BY <1>1, <3>1, <3>2, PreverEfeito
    <3>4. QED
      BY <1>3, <3>1, <3>3
  <2>3. CASE /\ incidentes[d] # Nenhum
             /\ IF incidentes'[d] = Nenhum THEN d \in excluidos'
                ELSE /\ incidentes'[d].claimStatus = incidentes[d].claimStatus
                     /\ incidentes'[d].entregue = incidentes[d].entregue
                     /\ incidentes'[d].relogioProvedorUs = incidentes[d].relogioProvedorUs
    <3>1. incidentes'[d] # Nenhum
      BY DEF Estampada
    <3>2. Estampada(incidentes[d])
      BY <2>3, <3>1 DEF Estampada
    <3>3. QED
      BY <1>3, <2>3, <3>1, <3>2
  <2>4. QED
    BY <2>1, <2>2, <2>3, IncidenteMuda
<1>5. QED
  BY <1>2, <1>4

LEMMA NovoPasso ==
  ASSUME Base, InvNovo, [Next]_vars
  PROVE  InvNovo'
<1> SUFFICES ASSUME NEW d \in Claims, claims'[d] = <<>>
             PROVE  incidentes'[d] = Nenhum
  BY DEF InvNovo
<1>1. claims[d] = <<>>
  <2>1. Len(claims'[d]) = 0
    OBVIOUS
  <2>2. Len(claims[d]) = 0 /\ claims[d] \in Seq(Claim)
    BY <2>1, ClaimsCrescem DEF Base, TypeOK
  <2>3. QED
    BY <2>2
<1>2. incidentes[d] = Nenhum
  BY <1>1 DEF InvNovo
<1>3. \A n \in Versoes(d) : ~SalvarIncidenteClaim(d, n)
  <2>1. ASSUME NEW n \in Versoes(d), SalvarIncidenteClaim(d, n)
        PROVE  FALSE
    <3>1. PICK v \in 1 .. Len(claims[d]) : TRUE
      BY <2>1, SalvarEfeito
    <3>2. QED
      BY <1>1, <3>1
  <2>2. QED
    BY <2>1
<1>4. QED
  BY <1>2, <1>3, IncidenteMuda

(* An import found done was done before, unless it just wrote. *)
LEMMA FeitaAntes ==
  ASSUME Base, [Next]_vars, NEW d \in Claims, NEW n \in Versoes(d),
         n = Len(claims'[d]), importacoes'[d][n].fase = "feita", d \notin excluidos'
  PROVE  /\ claims'[d] = claims[d] /\ d \notin excluidos
         /\ importacoes[d][n].fase = "feita" \/ SalvarIncidenteClaim(d, n)
<1>1. TypeOK
  BY DEF Base
<1>2. ASSUME NEW c \in Claims, ProvedorMuda(c)
      PROVE  /\ claims'[d] = claims[d] /\ d \notin excluidos
             /\ importacoes[d][n].fase = "feita"
  <2> DEFINE v == [fase |-> "pendente"]
             m == Len(claims[c]) + 1
  <2>1. /\ importacoes' = [importacoes EXCEPT ![c][m] = v] /\ Len(claims[c]) < MaxVersoes[c]
        /\ excluidos' = excluidos
    BY <1>2 DEF ProvedorMuda
  <2>2. m \in Versoes(c) /\ v \in Importacao(c) /\ v.fase = "pendente"
    BY <1>1, <2>1, ClaimsTipo DEF Versoes, Importacao, TypeOK
  <2>3. /\ Len(claims'[c]) = m
        /\ \A e \in Claims : e # c => claims'[e] = claims[e]
    BY <1>1, <1>2, ProvedorTipo
  <2> HIDE DEF v, m
  <2>4. importacoes'[d][n] = IF d = c /\ n = m THEN v ELSE importacoes[d][n]
    BY ZenonT(40), <1>1, <2>1, <2>2, FilaMuda
  <2>5. QED
    BY <2>1, <2>2, <2>3, <2>4
<1>3. ASSUME NEW c \in Claims, NEW m \in Versoes(c), DaFila(c, m)
      PROVE  /\ claims'[d] = claims[d] /\ d \notin excluidos
             /\ importacoes[d][n].fase = "feita" \/ SalvarIncidenteClaim(d, n)
  <2>1. PICK v \in Importacao(c) :
          /\ importacoes' = [importacoes EXCEPT ![c][m] = v]
          /\ v.fase = "feita" => SalvarIncidenteClaim(c, m)
    BY <1>3, FilaEfeito
  <2>2. claims' = claims /\ excluidos' = excluidos
    BY <1>3, FilaEfeito
  <2>3. importacoes'[d][n] = IF d = c /\ n = m THEN v ELSE importacoes[d][n]
    BY ZenonT(40), <1>1, <2>1, FilaMuda
  <2>4. QED
    BY <2>1, <2>2, <2>3
<1>4. ASSUME NEW i \in Incidentes, DePessoa(i)
      PROVE  claims' = claims /\ importacoes' = importacoes /\ excluidos \subseteq excluidos'
  BY <1>1, <1>4, PessoaEscreve DEF EscritaDePessoa
<1>5. ASSUME Outro \/ UNCHANGED vars
      PROVE  claims' = claims /\ importacoes' = importacoes /\ excluidos \subseteq excluidos'
  BY <1>5, OutroNaoMexe DEF vars
<1>6. QED
  BY <1>2, <1>3, <1>4, <1>5, Passos

LEMMA UltimaPasso ==
  ASSUME Base, InvUltima, [Next]_vars
  PROVE  InvUltima'
<1> SUFFICES ASSUME NEW d \in Claims, NEW n \in Versoes(d),
                    n = Len(claims'[d]), importacoes'[d][n].fase = "feita",
                    claims'[d][n].relogio # Nenhum, d \notin excluidos'
             PROVE  IF Estampada(incidentes'[d])
                    THEN claims'[d][n].relogio <= incidentes'[d].relogioProvedorUs
                    ELSE n = 1 /\ incidentes'[d] # Nenhum
  BY DEF InvUltima, Versoes, Estampada
<1> DEFINE r == claims[d][n].relogio
<1>1. claims'[d] = claims[d] /\ d \notin excluidos
  BY FeitaAntes
<1>2. /\ d \in Incidentes /\ incidentes \in [Incidentes -> Guardado]
      /\ Len(claims[d]) \in Nat /\ n \in Nat /\ n >= 1
  BY ClaimsTipo DEF Base, TypeOK, Guardado, Versoes
<1>3. r \in Nat
  <2>1. claims[d][n] \in Claim
    BY <1>1, <1>2 DEF Base, TypeOK
  <2>2. QED
    BY <1>1, <2>1 DEF Claim
<1>4. importacoes[d][n].fase = "feita" =>
        IF Estampada(incidentes[d])
        THEN r <= incidentes[d].relogioProvedorUs /\ incidentes[d] \in Incidente
        ELSE n = 1 /\ incidentes[d] # Nenhum
  BY <1>1, <1>2 DEF InvUltima, Estampada, Guardado
<1>5. ASSUME NEW m \in Versoes(d), SalvarIncidenteClaim(d, m),
             importacoes[d][n].fase = "feita" \/ m = n
      PROVE  Estampada(incidentes'[d]) /\ r <= incidentes'[d].relogioProvedorUs
  <2>1. PICK v \in 1 .. Len(claims[d]) :
          /\ m <= v /\ claims[d][v] \in Claim
          /\ incidentes' =
               [incidentes EXCEPT ![d] = preverIncidenteClaim(incidentes[d], claims[d][v])]
    BY <1>5, SalvarEfeito
  <2> DEFINE inc == incidentes[d]
             claim == claims[d][v]
             depois == preverIncidenteClaim(inc, claim)
  <2>2. incidentes'[d] = depois
    BY <1>2, <2>1
  <2>3. inc \in Guardado /\ claim \in Claim
    BY <1>2, <2>1
  <2>4. /\ depois \in Incidente
        /\ Estampada(inc) => Estampada(depois)
        /\ claim.relogio # Nenhum => Estampada(depois)
        /\ \/ depois = inc /\ Estampada(inc)
                /\ (claim.relogio # Nenhum => claim.relogio < inc.relogioProvedorUs)
           \/ /\ depois.relogioProvedorUs = claim.relogio
              /\ Estampada(inc) =>
                   claim.relogio # Nenhum /\ inc.relogioProvedorUs <= claim.relogio
    <3> HIDE DEF inc, claim
    <3> QED BY <2>3, PreverEfeito
  <2>5. claim.relogio \in Nat \cup {Nenhum}
    BY <2>3 DEF Claim
  <2>6. Estampada(inc) => inc.relogioProvedorUs \in Nat
    BY <2>3 DEF Estampada, Guardado, Incidente
  <2>7. n = v \/ (Estampada(inc) /\ r <= inc.relogioProvedorUs)
    <3>1. CASE m = n
      BY <1>1, <1>2, <2>1, <3>1
    <3>2. CASE importacoes[d][n].fase = "feita" /\ ~Estampada(inc)
      BY <1>1, <1>2, <1>4, <3>2
    <3>3. CASE importacoes[d][n].fase = "feita" /\ Estampada(inc)
      BY <1>4, <3>3
    <3>4. QED
      BY <1>5, <3>1, <3>2, <3>3
  <2>8. n = v => claim.relogio = r
    OBVIOUS
  <2> HIDE DEF inc, claim, depois, r
  <2>9. Estampada(depois) /\ r <= depois.relogioProvedorUs
    BY <1>3, <2>4, <2>5, <2>6, <2>7, <2>8, IncidenteAssumption
  <2>10. QED
    BY <2>2, <2>9
<1>6. CASE \E m \in Versoes(d) :
             SalvarIncidenteClaim(d, m) /\ (importacoes[d][n].fase = "feita" \/ m = n)
  BY <1>1, <1>5, <1>6
<1>7. CASE /\ importacoes[d][n].fase = "feita"
           /\ \A m \in Versoes(d) : ~SalvarIncidenteClaim(d, m)
  <2>1. CASE incidentes'[d] = incidentes[d]
    BY <1>1, <1>4, <1>7, <2>1
  <2>2. CASE /\ incidentes[d] # Nenhum /\ incidentes'[d] # Nenhum
             /\ incidentes'[d].relogioProvedorUs = incidentes[d].relogioProvedorUs
    BY <1>1, <1>4, <1>7, <2>2 DEF Estampada
  <2>3. QED
    BY <1>7, <2>1, <2>2, IncidenteMuda
<1>8. QED
  BY <1>6, <1>7, FeitaAntes

-----------------------------------------------------------------------------
(* The markers.                                                            *)

LEMMA MarcadoresParados ==
  ASSUME TypeOK, (\E o \in Operadores : DoCheckout(o)) \/ DoPedido, pedido' # Nenhum
  PROVE  /\ pedido # Nenhum /\ pedido'.marcadores = pedido.marcadores
         /\ UNCHANGED <<incidentes, eventos, perdido>>
<1>1. pedido \in PedidoDoc \cup {Nenhum}
  BY DEF TypeOK
<1>2. pedido # Nenhum =>
        /\ \A frete : [pedido EXCEPT !.frete = frete].marcadores = pedido.marcadores
        /\ \A estado : [pedido EXCEPT !.estado = estado].marcadores = pedido.marcadores
        /\ \A estado, frete : [pedido EXCEPT !.estado = estado,
                                             !.frete = frete].marcadores = pedido.marcadores
  BY <1>1 DEF PedidoDoc
<1>3. ASSUME NEW o \in Operadores, DoCheckout(o)
      PROVE  /\ pedido # Nenhum /\ pedido'.marcadores = pedido.marcadores
             /\ UNCHANGED <<incidentes, eventos, perdido>>
  <2>1. CASE EvaluatePreSave(o)
    BY <2>1 DEF EvaluatePreSave
  <2>2. CASE SalvarCheckout(o)
    BY <1>2, <2>2 DEF SalvarCheckout, CheckoutPermitido
  <2>3. CASE AvancarRetirada(o)
    BY <1>2, <2>3 DEF AvancarRetirada, avancaParaRetirada
  <2>4. CASE AbandonarCheckout(o)
    BY <2>4 DEF AbandonarCheckout
  <2>5. QED
    BY <1>3, <2>1, <2>2, <2>3, <2>4 DEF DoCheckout
<1>4. CASE DoPedido
  <2>1. CASE ConfirmarEntregaPedido
    BY <1>2, <2>1 DEF ConfirmarEntregaPedido
  <2>2. CASE MoverFrete
    BY <1>2, <2>2 DEF MoverFrete
  <2>3. CASE MudarEstado
    BY <1>2, <2>3 DEF MudarEstado
  <2>4. CASE ExcluirPedido
    BY <2>4 DEF ExcluirPedido
  <2>5. QED
    BY <1>4, <2>1, <2>2, <2>3, <2>4 DEF DoPedido
<1>5. QED
  BY <1>3, <1>4

LEMMA MarcadoresPasso ==
  ASSUME Base, MarcadoresRefletem, [Next]_vars
  PROVE  MarcadoresRefletem'
<1> SUFFICES ASSUME eventos' = 0, ~perdido', pedido' # Nenhum
             PROVE  pedido'.marcadores = calcularMarcadores(incidentes')
  BY DEF MarcadoresRefletem, calcularMarcadores, DaClasse
<1>1. /\ TypeOK /\ eventos \in Nat /\ pedido \in PedidoDoc \cup {Nenhum}
      /\ incidentes \in [Incidentes -> Guardado]
  BY DEF Base, TypeOK, Guardado
<1>2. ASSUME UNCHANGED <<incidentes, eventos, perdido, pedido>>
      PROVE  pedido'.marcadores = calcularMarcadores(incidentes')
  BY <1>2 DEF MarcadoresRefletem
<1>3. ASSUME NEW i \in Incidentes, NEW doc \in Guardado,
             incidentes' = [incidentes EXCEPT ![i] = doc],
             ~MudouCampoBloqueio(incidentes[i], doc),
             eventos = 0, UNCHANGED <<perdido, pedido>>
      PROVE  pedido'.marcadores = calcularMarcadores(incidentes')
  <2>1. calcularMarcadores(incidentes') = calcularMarcadores(incidentes)
    BY <1>1, <1>3, MudancaIrrelevante
  <2>2. QED
    BY <1>3, <2>1 DEF MarcadoresRefletem
<1>4. ASSUME NEW c \in Claims, ProvedorMuda(c)
      PROVE  UNCHANGED <<incidentes, eventos, perdido, pedido>>
  BY <1>4 DEF ProvedorMuda
<1>5. ASSUME NEW c \in Claims, NEW n \in Versoes(c), DaFila(c, n)
      PROVE  pedido'.marcadores = calcularMarcadores(incidentes')
  <2>1. CASE BuscarClaim(c, n) \/ RefazerImportacao(c, n)
    BY <1>2, <2>1 DEF BuscarClaim, RefazerImportacao
  <2>2. CASE SalvarIncidenteClaim(c, n)
    <3> DEFINE doc == preverIncidenteClaim(incidentes[c], claims[c][importacoes[c][n].versao])
    <3>1. Escrever(c, doc) /\ UNCHANGED <<perdido, pedido>>
      BY <2>2 DEF SalvarIncidenteClaim
    <3>2. doc \in Guardado
      BY <1>1, <2>2, VersaoBuscada, PreverTipo, ClaimsTipo
         DEF SalvarIncidenteClaim, Guardado
    <3> HIDE DEF doc
    <3>3. /\ incidentes' = [incidentes EXCEPT ![c] = doc]
          /\ ~MudouCampoBloqueio(incidentes[c], doc) /\ eventos = 0
      BY <1>1, <3>1 DEF Escrever
    <3>4. QED
      BY <1>3, <3>1, <3>2, <3>3, ClaimsTipo
  <2>3. QED
    BY <1>5, <2>1, <2>2 DEF DaFila
<1>6. ASSUME NEW i \in Incidentes, DePessoa(i)
      PROVE  pedido'.marcadores = calcularMarcadores(incidentes')
  <2>1. PICK doc \in Guardado : EscritaDePessoa(i, doc)
    BY <1>1, <1>6, PessoaEscreve
  <2>2. /\ incidentes' = [incidentes EXCEPT ![i] = doc]
        /\ ~MudouCampoBloqueio(incidentes[i], doc)
        /\ eventos = 0 /\ UNCHANGED <<perdido, pedido>>
    BY <1>1, <2>1 DEF EscritaDePessoa
  <2>3. QED
    BY <1>3, <2>2
<1>7. ASSUME Gatilho
      PROVE  pedido'.marcadores = calcularMarcadores(incidentes')
  <2>1. incidentes' = incidentes
    BY <1>7, OutroNaoMexe DEF Outro
  <2>2. SincronizarMarcadores
    BY <1>7 DEF Gatilho, OnIncidenteBloqueioSync, ReentregarEvento, PerderEvento
  <2>3. pedido \in PedidoDoc /\ pedido' = [pedido EXCEPT !.marcadores = calcularMarcadores(incidentes)]
    BY <1>1, <2>2 DEF SincronizarMarcadores
  <2>4. pedido'.marcadores = calcularMarcadores(incidentes)
    BY <2>3 DEF PedidoDoc
  <2>5. QED
    BY <2>1, <2>4
<1>8. ASSUME (\E o \in Operadores : DoCheckout(o)) \/ DoPedido
      PROVE  pedido'.marcadores = calcularMarcadores(incidentes')
  BY <1>1, <1>8, MarcadoresParados DEF MarcadoresRefletem
<1>9. ASSUME UNCHANGED vars
      PROVE  pedido'.marcadores = calcularMarcadores(incidentes')
  BY <1>2, <1>9 DEF vars
<1>10. QED
  BY <1>2, <1>4, <1>5, <1>6, <1>7, <1>8, <1>9, Passos DEF Outro

-----------------------------------------------------------------------------
(* The whole invariant.                                                    *)

IInv ==
  /\ Base /\ InvHistoria /\ InvNovo
  /\ FielAoProvedor /\ InvUltima /\ MarcadoresRefletem

LEMMA InitIInv == Init => IInv
<1> SUFFICES ASSUME Init PROVE IInv
  OBVIOUS
<1>1. PICK legados \in SUBSET Legados :
        /\ claims = [c \in Claims |-> IF c \in legados THEN <<Aberta>> ELSE <<>>]
        /\ importacoes = [c \in Claims |-> [v \in Versoes(c) |->
             [fase |-> IF c \in legados /\ v = 1 THEN "feita" ELSE "nada"]]]
        /\ incidentes = [i \in Incidentes |-> IF i \in legados THEN SemClaim ELSE Nenhum]
  BY DEF Init
<1>2. legados \subseteq Claims
  BY BloqueioAssumption
<1>3. Aberta \in Claim /\ SemClaim \in Incidente /\ SemClaim.relogioProvedorUs = Nenhum
  BY DEF Aberta, SemClaim, Claim, Incidente, StatusClaim
<1>4. ASSUME NEW c \in Claims
      PROVE  /\ claims[c] \in Seq(Claim)
             /\ claims[c] = IF c \in legados THEN <<Aberta>> ELSE <<>>
             /\ Len(claims[c]) = IF c \in legados THEN 1 ELSE 0
             /\ incidentes[c] = IF c \in legados THEN SemClaim ELSE Nenhum
  <2>1. claims[c] = IF c \in legados THEN <<Aberta>> ELSE <<>>
    BY <1>1
  <2>2. incidentes[c] = IF c \in legados THEN SemClaim ELSE Nenhum
    BY <1>1, ClaimsTipo
  <2>3. QED
    BY <1>3, <2>1, <2>2
<1>5. ASSUME NEW c \in Claims, NEW n \in Versoes(c)
      PROVE  /\ importacoes[c][n].fase \in {"nada", "feita"}
             /\ importacoes[c][n] \in Importacao(c)
             /\ importacoes[c][n].fase = "feita" => c \in legados /\ n = 1
  BY <1>1 DEF Importacao
<1>6. incidentes \in [Incidentes -> Guardado]
  BY <1>1, <1>3 DEF Guardado
<1>7. TypeOK
  <2>1. claims \in [Claims -> Seq(Claim)]
    BY <1>1, <1>4
  <2>2. \A c \in Claims : Len(claims[c]) <= MaxVersoes[c]
    BY <1>4, ClaimsTipo
  <2>3. /\ DOMAIN importacoes = Claims
        /\ \A c \in Claims : importacoes[c] \in [Versoes(c) -> Importacao(c)]
    BY <1>1, <1>5
  <2>4. pedido \in PedidoDoc
    <3>1. calcularMarcadores(incidentes) \in Marcadores
      BY <1>6, CalculoTipo
    <3>2. PICK frete \in ALLOWED_FRETE_ESTADOS :
            pedido = [estado |-> "pago", frete |-> frete,
                      marcadores |-> calcularMarcadores(incidentes)]
      BY DEF Init
    <3>3. QED
      BY <3>1, <3>2 DEF PedidoDoc, EstadosPedido, EstadosFrete
  <2>5. sessoes \in [Operadores -> Sessao]
    BY DEF Init, Fora, Sessao
  <2>6. eventos \in Nat /\ perdido \in BOOLEAN /\ excluidos \subseteq Claims /\ checkouts \in Nat
    BY DEF Init
  <2>7. QED
    BY <1>6, <2>1, <2>2, <2>3, <2>4, <2>5, <2>6 DEF TypeOK, Guardado
<1>8. InvImportacao
  BY <1>4, <1>5 DEF InvImportacao
<1>9. InvHistoria
  BY <1>4 DEF InvHistoria
<1>10. InvNovo
  BY <1>4 DEF InvNovo
<1>11. \A c \in Claims : ~Estampada(incidentes[c])
  BY <1>3, <1>4 DEF Estampada
<1>12. FielAoProvedor
  BY <1>11 DEF FielAoProvedor
<1>13. InvUltima
  BY <1>3, <1>4, <1>5, <1>11, IncidenteAssumption DEF InvUltima
<1>14. MarcadoresRefletem
  <2>1. PICK frete \in ALLOWED_FRETE_ESTADOS :
          pedido = [estado |-> "pago", frete |-> frete,
                    marcadores |-> calcularMarcadores(incidentes)]
    BY DEF Init
  <2>2. QED
    BY <2>1 DEF MarcadoresRefletem
<1>15. QED
  BY <1>7, <1>8, <1>9, <1>10, <1>12, <1>13, <1>14 DEF IInv, Base

LEMMA NextIInv == IInv /\ [Next]_vars => IInv'
<1> SUFFICES ASSUME IInv, [Next]_vars PROVE IInv'
  OBVIOUS
<1>1. Base'
  BY TipoPasso, ImportacaoPasso DEF IInv, Base
<1>2. InvHistoria' /\ InvNovo'
  BY HistoriaPasso, NovoPasso DEF IInv
<1>3. FielAoProvedor' /\ InvUltima'
  BY FielPasso, UltimaPasso DEF IInv
<1>4. MarcadoresRefletem'
  BY MarcadoresPasso DEF IInv
<1>5. QED
  BY <1>1, <1>2, <1>3, <1>4 DEF IInv

THEOREM Invariante == Spec => []IInv
<1>1. QED
  BY InitIInv, NextIInv, PTL DEF Spec

(* Every document of the model has its schema's shape, whatever is fetched, *)
(* merged or written back (incidente.ts, saveCheckout.ts).                 *)
THEOREM TipoBloqueio == Spec => []TypeOK
<1>1. IInv => TypeOK
  BY DEF IInv, Base
<1>2. QED
  BY <1>1, Invariante, PTL

(* No write of an incidente passes the trigger's fast path and leaves a    *)
(* stale marker behind (sincronizarBloqueioIncidente.ts:168).              *)
THEOREM MarcadoresFieis == Spec => []MarcadoresRefletem
<1>1. IInv => MarcadoresRefletem
  BY DEF IInv
<1>2. QED
  BY <1>1, Invariante, PTL

(* A stamped incidente holds a state the marketplace reported with that    *)
(* clock, in whatever order the imports landed (claimIncidenteTx.ts:29).   *)
THEOREM MarcaDeUmEstado == Spec => []FielAoProvedor
<1>1. IInv => FielAoProvedor
  BY DEF IInv
<1>2. QED
  BY <1>1, Invariante, PTL

-----------------------------------------------------------------------------
(* What a step never does.                                                 *)

LEMMA ReaberturaPasso ==
  ASSUME IInv, [Next]_vars, NEW d \in Claims,
         Estampada(incidentes[d]), incidentes'[d] # Nenhum, SemEmpate(d),
         incidentes[d].claimStatus = "closed"
  PROVE  incidentes'[d].claimStatus = "closed"
<1>1. /\ d \in Incidentes /\ incidentes \in [Incidentes -> Guardado]
      /\ claims[d] \in Seq(Claim)
  BY ClaimsTipo DEF IInv, Base, TypeOK, Guardado
<1>2. ASSUME NEW n \in Versoes(d), SalvarIncidenteClaim(d, n)
      PROVE  incidentes'[d].claimStatus = "closed"
  <2>1. PICK v \in 1 .. Len(claims[d]) :
          /\ claims[d][v] \in Claim
          /\ incidentes' =
               [incidentes EXCEPT ![d] = preverIncidenteClaim(incidentes[d], claims[d][v])]
    BY <1>2, SalvarEfeito DEF IInv
  <2>2. incidentes'[d] = preverIncidenteClaim(incidentes[d], claims[d][v])
    BY <1>1, <2>1
  <2>3. PICK m \in 1 .. Len(claims[d]) :
          /\ claims[d][m].relogio = incidentes[d].relogioProvedorUs
          /\ claims[d][m].status = "closed"
    BY DEF IInv, FielAoProvedor
  <2>4. claims[d][m].relogio \in Nat
    <3>1. claims[d][m] \in Claim
      BY <1>1
    <3>2. QED
      BY <2>3, <3>1 DEF Claim, Estampada
  <2>5. CASE incidentes'[d] = incidentes[d]
    BY <2>5
  <2>6. CASE /\ incidentes'[d].claimStatus = claims[d][v].status
             /\ claims[d][v].relogio # Nenhum
             /\ incidentes[d].relogioProvedorUs <= claims[d][v].relogio
    <3>1. claims[d][v].relogio \in Nat
      BY <2>1, <2>6 DEF Claim
    <3>2. CASE v = m
      BY <2>3, <2>6, <3>2
    <3>3. CASE m < v
      BY <2>3, <2>6, <3>3 DEF IInv, InvHistoria
    <3>4. CASE v < m
      <4>1. claims[d][v].relogio <= claims[d][m].relogio
        BY <2>4, <2>6, <3>1, <3>4, IncidenteAssumption DEF IInv, InvHistoria
      <4>2. claims[d][v].relogio = claims[d][m].relogio
        BY <2>3, <2>4, <2>6, <3>1, <4>1
      <4>3. v = m
        BY <2>6, <4>2 DEF SemEmpate
      <4>4. QED
        BY <2>3, <2>6, <4>3
    <3>5. QED
      BY <1>1, <3>2, <3>3, <3>4
  <2>7. QED
    BY <1>1, <2>1, <2>2, <2>5, <2>6, PreverEfeito
<1>3. QED
  BY <1>2, IncidenteMuda DEF IInv

(* A closed dispute comes back only by two states of the claim with one    *)
(* clock (claimIncidenteTx.ts:35).                                         *)
THEOREM NaoReabre == Spec => SemReabertura
<1>1. IInv /\ [Next]_vars =>
        [\A c \in Claims :
           IF Estampada(incidentes[c]) /\ incidentes'[c] # Nenhum /\ SemEmpate(c)
           THEN incidentes[c].claimStatus = "closed" => incidentes'[c].claimStatus = "closed"
           ELSE TRUE]_vars
  BY ReaberturaPasso
<1>2. QED
  BY <1>1, Invariante, PTL DEF Spec, SemReabertura

(* A stored, open, unreleased dispute shows in the fold. *)
LEMMA DisputaNoCalculo ==
  ASSUME TypeOK, NEW acao, DisputaSemLiberacao(acao)
  PROVE  /\ calcularMarcadores(incidentes).disputaAbertaEm # Nenhum
         /\ acao \notin calcularMarcadores(incidentes).bloqueiosLiberados
<1> DEFINE disputas == DaClasse(incidentes, "disputa")
           devolucoes == DaClasse(incidentes, "devolucao")
<1>1. PICK c \in Claims :
        /\ incidentes[c] # Nenhum /\ incidentes[c].claimStatus = "opened"
        /\ Tipo[c] \in {"mediations", "cancel_purchase", "cancel_sale"}
        /\ ~incidentes[c].entregue
  BY DEF DisputaSemLiberacao
<1>2. classificarIncidenteBloqueante(c, incidentes[c]) = "disputa"
  <2>1. Aberto(incidentes[c])
    BY <1>1, IncidenteAssumption DEF Aberto, StatusClaim
  <2>2. QED
    BY <1>1, <2>1 DEF classificarIncidenteBloqueante, Claims, TIPOS_INCIDENTE_BLOQUEANTES,
                      TIPOS_INCIDENTE_DEVOLUCAO
<1>3. c \in disputas
  BY <1>1, <1>2, ClaimsTipo DEF DaClasse
<1>4. disputas \cup devolucoes \subseteq Claims
  <2>1. ASSUME NEW i \in Incidentes,
               classificarIncidenteBloqueante(i, incidentes[i]) \in {"disputa", "devolucao"}
        PROVE  i \in Claims
    <3>1. Nenhum \notin {"disputa", "devolucao"}
      BY IncidenteAssumption
    <3>2. QED
      BY <2>1, <3>1 DEF classificarIncidenteBloqueante, Claims
  <2>2. QED
    BY <2>1 DEF DaClasse
<1>5. \A i \in disputas \cup devolucoes : acao \notin incidentes[i].overrideBloqueio
  <2>1. \A i \in disputas \cup devolucoes : incidentes[i] # Nenhum
    BY DEF DaClasse
  <2>2. QED
    BY <1>4, <2>1 DEF DisputaSemLiberacao
<1>6. MaisAntigo(disputas) # Nenhum
  BY <1>3, DaClasseTipo, MarcadorLigado
<1> HIDE DEF disputas, devolucoes
<1>7. calcularMarcadores(incidentes) =
        [disputaAbertaEm |-> MaisAntigo(disputas),
         devolucaoAbertaEm |-> MaisAntigo(devolucoes),
         bloqueiosLiberados |->
           UNION {incidentes[i].overrideBloqueio : i \in disputas \cup devolucoes}]
  BY DEF calcularMarcadores, disputas, devolucoes
<1>8. QED
  BY <1>5, <1>6, <1>7

(* A step that checks out or finalizes saw no block in the markers.        *)
LEMMA SaidaPermitida ==
  ASSUME TypeOK, [Next]_vars
  PROVE  /\ checkouts' > checkouts =>
              pedido # Nenhum /\ ~bloqueioDespachoAtivo(pedido.marcadores)
         /\ ~Finalizado /\ Finalizado' =>
              \/ pedido # Nenhum /\ ~bloqueioFinalizarAtivo(pedido.marcadores)
              \/ <<pedido.estado, pedido'.estado>> \in MovimentosDeEstado
<1> DEFINE Saida == /\ checkouts' > checkouts =>
                         pedido # Nenhum /\ ~bloqueioDespachoAtivo(pedido.marcadores)
                    /\ ~Finalizado /\ Finalizado' =>
                         \/ pedido # Nenhum /\ ~bloqueioFinalizarAtivo(pedido.marcadores)
                         \/ <<pedido.estado, pedido'.estado>> \in MovimentosDeEstado
<1>1. checkouts \in Nat /\ pedido \in PedidoDoc \cup {Nenhum}
  BY DEF TypeOK
<1>2. ASSUME checkouts' = checkouts, Finalizado' => Finalizado
      PROVE  Saida
  BY <1>1, <1>2
<1>3. ASSUME UNCHANGED <<pedido, checkouts>>
      PROVE  Saida
  BY <1>2, <1>3 DEF Finalizado
<1>4. \A frete, m : pedido # Nenhum =>
        /\ [pedido EXCEPT !.frete = frete].estado = pedido.estado
        /\ [pedido EXCEPT !.marcadores = m].estado = pedido.estado
  BY <1>1 DEF PedidoDoc
<1>5. ASSUME NEW c \in Claims, ProvedorMuda(c)
      PROVE  Saida
  BY <1>3, <1>5 DEF ProvedorMuda
<1>6. ASSUME NEW c \in Claims, NEW n \in Versoes(c), DaFila(c, n)
      PROVE  Saida
  BY <1>3, <1>6 DEF DaFila, BuscarClaim, SalvarIncidenteClaim, RefazerImportacao
<1>7. ASSUME NEW i \in Incidentes, DePessoa(i)
      PROVE  Saida
  BY <1>3, <1>7 DEF DePessoa, LiberarBloqueioIncidente, SaveIncidenteEdit, SaveIncidente,
                    DeleteIncidente
<1>8. CASE Gatilho
  <2>1. checkouts' = checkouts
    BY <1>8 DEF Gatilho, OnIncidenteBloqueioSync, ReentregarEvento, PerderEvento
  <2>2. Finalizado' => Finalizado
    BY <1>4, <1>8 DEF Gatilho, OnIncidenteBloqueioSync, ReentregarEvento, PerderEvento,
                      SincronizarMarcadores, Finalizado
  <2>3. QED
    BY <1>2, <2>1, <2>2
<1>9. ASSUME NEW o \in Operadores, DoCheckout(o)
      PROVE  Saida
  <2>1. CASE EvaluatePreSave(o)
    BY <1>3, <2>1 DEF EvaluatePreSave
  <2>2. CASE SalvarCheckout(o)
    <3>1. pedido # Nenhum /\ ~bloqueioDespachoAtivo(pedido.marcadores)
      BY <2>2 DEF SalvarCheckout, CheckoutPermitido
    <3>2. pedido' = [pedido EXCEPT !.frete = FreteDoCheckout(o)]
      BY <2>2 DEF SalvarCheckout
    <3>3. Finalizado' => Finalizado
      BY <1>4, <3>1, <3>2 DEF Finalizado
    <3>4. QED
      BY <3>1, <3>3
  <2>3. CASE AvancarRetirada(o)
    <3>1. checkouts' = checkouts
      BY <2>3 DEF AvancarRetirada
    <3>2. Finalizado' => Finalizado
      BY <1>4, <2>3 DEF AvancarRetirada, avancaParaRetirada, Finalizado
    <3>3. QED
      BY <1>2, <3>1, <3>2
  <2>4. CASE AbandonarCheckout(o)
    BY <1>3, <2>4 DEF AbandonarCheckout
  <2>5. QED
    BY <1>9, <2>1, <2>2, <2>3, <2>4 DEF DoCheckout
<1>10. CASE DoPedido
  <2>1. checkouts' = checkouts
    BY <1>10 DEF DoPedido, ConfirmarEntregaPedido, MoverFrete, MudarEstado, ExcluirPedido
  <2>2. CASE ConfirmarEntregaPedido
    BY <1>1, <2>1, <2>2 DEF ConfirmarEntregaPedido
  <2>3. CASE MoverFrete
    BY <1>2, <1>4, <2>1, <2>3 DEF MoverFrete, Finalizado
  <2>4. CASE MudarEstado
    <3>1. PICK estado \in EstadosPedido :
            /\ <<pedido.estado, estado>> \in MovimentosDeEstado
            /\ pedido' = [pedido EXCEPT !.estado = estado] /\ pedido # Nenhum
      BY <2>4 DEF MudarEstado
    <3>2. pedido'.estado = estado
      BY <1>1, <3>1 DEF PedidoDoc
    <3>3. QED
      BY <1>1, <2>1, <3>1, <3>2
  <2>5. CASE ExcluirPedido
    BY <1>2, <2>1, <2>5 DEF ExcluirPedido, Finalizado
  <2>6. QED
    BY <1>10, <2>2, <2>3, <2>4, <2>5 DEF DoPedido
<1>11. CASE UNCHANGED vars
  BY <1>3, <1>11 DEF vars
<1>12. QED
  BY <1>5, <1>6, <1>7, <1>8, <1>9, <1>10, <1>11, Passos DEF Outro

LEMMA SaidaPasso ==
  ASSUME IInv, [Next]_vars
  PROVE  /\ checkouts' > checkouts =>
              eventos > 0 \/ perdido \/ ~DisputaSemLiberacao("despacho")
         /\ ~Finalizado /\ Finalizado' =>
              \/ eventos > 0 \/ perdido \/ ~DisputaSemLiberacao("finalizar")
              \/ <<pedido.estado, pedido'.estado>> \in MovimentosDeEstado
<1>1. TypeOK /\ MarcadoresRefletem
  BY DEF IInv, Base
<1>2. eventos \in Nat /\ perdido \in BOOLEAN
  BY <1>1 DEF TypeOK
<1>3. ASSUME ~(eventos > 0), ~perdido, pedido # Nenhum
      PROVE  pedido.marcadores = calcularMarcadores(incidentes)
  BY <1>1, <1>2, <1>3 DEF MarcadoresRefletem
<1>4. ASSUME ~(eventos > 0), ~perdido, pedido # Nenhum, DisputaSemLiberacao("despacho")
      PROVE  bloqueioDespachoAtivo(pedido.marcadores)
  BY <1>1, <1>3, <1>4, DisputaNoCalculo DEF bloqueioDespachoAtivo
<1>5. ASSUME ~(eventos > 0), ~perdido, pedido # Nenhum, DisputaSemLiberacao("finalizar")
      PROVE  bloqueioFinalizarAtivo(pedido.marcadores)
  BY <1>1, <1>3, <1>5, DisputaNoCalculo DEF bloqueioFinalizarAtivo
<1>6. QED
  BY <1>1, <1>4, <1>5, SaidaPermitida

(* No checkout and no delivery confirmation goes through on an open,       *)
(* unreleased dispute the trigger has told the pedido of                   *)
(* (saveCheckout.ts:392, usecases.ts:926).                                 *)
THEOREM NadaSai == Spec => NadaSaiEmDisputa
<1>1. IInv /\ [Next]_vars =>
        [/\ checkouts' > checkouts =>
              eventos > 0 \/ perdido \/ ~DisputaSemLiberacao("despacho")
         /\ ~Finalizado /\ Finalizado' =>
              \/ eventos > 0 \/ perdido \/ ~DisputaSemLiberacao("finalizar")
              \/ <<pedido.estado, pedido'.estado>> \in MovimentosDeEstado]_vars
  BY SaidaPasso
<1>2. QED
  BY <1>1, Invariante, PTL DEF Spec, NadaSaiEmDisputa

LEMMA FreteFrente ==
  ASSUME TypeOK, [Next]_vars, pedido # Nenhum, pedido' # Nenhum,
         pedido.frete \in {"postado", "entregue"}
  PROVE  \/ pedido'.frete \in {"postado", "entregue"}
         \/ <<pedido.frete, pedido'.frete>> \in MovimentosDeFrete
<1> DEFINE Frente == \/ pedido'.frete \in {"postado", "entregue"}
                     \/ <<pedido.frete, pedido'.frete>> \in MovimentosDeFrete
<1>1. /\ pedido \in PedidoDoc
      /\ \A e : [pedido EXCEPT !.estado = e].frete = pedido.frete
      /\ \A m : [pedido EXCEPT !.marcadores = m].frete = pedido.frete
      /\ \A f : [pedido EXCEPT !.frete = f].frete = f
  BY DEF TypeOK, PedidoDoc
<1>2. ASSUME pedido'.frete = pedido.frete
      PROVE  Frente
  BY <1>2
<1>3. ASSUME NEW c \in Claims, ProvedorMuda(c)
      PROVE  Frente
  BY <1>2, <1>3 DEF ProvedorMuda
<1>4. ASSUME NEW c \in Claims, NEW n \in Versoes(c), DaFila(c, n)
      PROVE  Frente
  BY <1>2, <1>4 DEF DaFila, BuscarClaim, SalvarIncidenteClaim, RefazerImportacao
<1>5. ASSUME NEW i \in Incidentes, DePessoa(i)
      PROVE  Frente
  BY <1>2, <1>5 DEF DePessoa, LiberarBloqueioIncidente, SaveIncidenteEdit, SaveIncidente,
                    DeleteIncidente
<1>6. CASE Gatilho
  BY <1>1, <1>2, <1>6 DEF Gatilho, OnIncidenteBloqueioSync, ReentregarEvento, PerderEvento,
                          SincronizarMarcadores
<1>7. ASSUME NEW o \in Operadores, DoCheckout(o)
      PROVE  Frente
  <2>1. CASE EvaluatePreSave(o) \/ AbandonarCheckout(o)
    BY <1>2, <2>1 DEF EvaluatePreSave, AbandonarCheckout
  <2>2. CASE SalvarCheckout(o)
    BY <1>1, <1>2, <2>2 DEF SalvarCheckout, FreteDoCheckout, ESTADOS_FRETE_MERCADORIA_FORA
  <2>3. CASE AvancarRetirada(o)
    BY <1>2, <2>3 DEF AvancarRetirada, avancaParaRetirada
  <2>4. QED
    BY <1>7, <2>1, <2>2, <2>3 DEF DoCheckout
<1>8. CASE DoPedido
  <2>1. CASE ConfirmarEntregaPedido
    <3>1. pedido'.frete = "entregue"
      BY <1>1, <2>1 DEF ConfirmarEntregaPedido, PedidoDoc
    <3>2. QED
      BY <3>1
  <2>2. CASE MoverFrete
    BY <1>1, <2>2 DEF MoverFrete
  <2>3. CASE MudarEstado
    BY <1>1, <1>2, <2>3 DEF MudarEstado
  <2>4. CASE ExcluirPedido
    BY <2>4 DEF ExcluirPedido
  <2>5. QED
    BY <1>8, <2>1, <2>2, <2>3, <2>4 DEF DoPedido
<1>9. CASE UNCHANGED vars
  BY <1>2, <1>9 DEF vars
<1>10. QED
  BY <1>3, <1>4, <1>5, <1>6, <1>7, <1>8, <1>9, Passos DEF Outro

(* Goods that left never read as still on the shelf by a checkout or a     *)
(* delivery confirmation (saveCheckout.ts:335, 441).                       *)
THEOREM MercadoriaFica == Spec => MercadoriaForaNaoVolta
<1>1. IInv /\ [Next]_vars =>
        [pedido # Nenhum /\ pedido' # Nenhum =>
           (pedido.frete \in {"postado", "entregue"} =>
              \/ pedido'.frete \in {"postado", "entregue"}
              \/ <<pedido.frete, pedido'.frete>> \in MovimentosDeFrete)]_vars
  BY FreteFrente DEF IInv, Base
<1>2. QED
  BY <1>1, Invariante, PTL DEF Spec, MercadoriaForaNaoVolta

-----------------------------------------------------------------------------
(* End to end.                                                             *)

(* The incidente of a settled claim holds the claim's last state.          *)
LEMMA AssentadaEmDia ==
  ASSUME IInv, NEW c \in Claims, Assentada(c)
  PROVE  IF claims[c] = <<>> THEN incidentes[c] = Nenhum
         ELSE /\ incidentes[c] # Nenhum
              /\ incidentes[c].claimStatus = claims[c][Len(claims[c])].status
              /\ incidentes[c].entregue = claims[c][Len(claims[c])].entregue
              /\ incidentes[c].claimStatus \in StatusClaim
<1>1. CASE claims[c] = <<>>
  BY <1>1 DEF IInv, InvNovo
<1>2. CASE claims[c] # <<>>
  <2> DEFINE L == Len(claims[c])
  <2>1. /\ claims[c] \in Seq(Claim) /\ L \in Nat /\ L \in 1 .. L /\ L <= MaxVersoes[c]
        /\ claims[c][L] \in Claim
    BY <1>2 DEF IInv, Base, TypeOK
  <2>2. L \in Versoes(c)
    BY <2>1, ClaimsTipo DEF Versoes
  <2>3. /\ importacoes[c][L].fase = "feita" /\ c \notin excluidos /\ SemEmpate(c)
        /\ claims[c][L].relogio # Nenhum /\ Estampada(incidentes[c])
    BY <1>2, <2>1 DEF Assentada
  <2>4. claims[c][L].relogio <= incidentes[c].relogioProvedorUs
    BY <2>2, <2>3 DEF IInv, InvUltima
  <2>5. PICK m \in 1 .. L : /\ claims[c][m].relogio = incidentes[c].relogioProvedorUs
                            /\ claims[c][m].status = incidentes[c].claimStatus
                            /\ claims[c][m].entregue = incidentes[c].entregue
    BY <2>3 DEF IInv, FielAoProvedor
  <2>6. claims[c][m].relogio # Nenhum
    BY <2>3, <2>5 DEF Estampada
  <2>7. claims[c][L].relogio \in Nat /\ claims[c][m].relogio \in Nat
    <3>1. claims[c][m] \in Claim
      BY <2>1
    <3>2. QED
      BY <2>1, <2>3, <2>6, <3>1 DEF Claim
  <2>8. m = L
    <3>1. CASE m < L
      <4>1. claims[c][m].relogio <= claims[c][L].relogio
        BY <2>1, <2>3, <2>6, <3>1 DEF IInv, InvHistoria
      <4>2. claims[c][m].relogio = claims[c][L].relogio
        BY <2>4, <2>5, <2>7, <4>1
      <4>3. QED
        BY <2>1, <2>3, <2>6, <4>2 DEF SemEmpate
    <3>2. QED
      BY <2>1, <3>1
  <2>9. claims[c][L].status \in StatusClaim
    BY <2>1 DEF Claim
  <2>10. QED
    BY <1>2, <2>3, <2>5, <2>8, <2>9 DEF Estampada
<1>3. QED
  BY <1>1, <1>2

(* Once every claim is settled and no event is outstanding, the pedido is  *)
(* held exactly as the marketplace holds it (sincronizarBloqueioIncidente  *)
(* .ts:176 and claimIncidenteTx.ts:202 together).                          *)
THEOREM SegueProvedor == Spec => []BloqueioSegueProvedor
<1>1. IInv => BloqueioSegueProvedor
  <2> DEFINE AbertaNoProvedor(c) ==
               /\ claims[c] # <<>> /\ claims[c][Len(claims[c])].status = "opened"
               /\ Tipo[c] # "o"
             Devolvida(c) == Tipo[c] = "returns" \/ claims[c][Len(claims[c])].entregue
             disputas == DaClasse(incidentes, "disputa")
             devolucoes == DaClasse(incidentes, "devolucao")
  <2> SUFFICES ASSUME IInv, pedido # Nenhum, eventos = 0, ~perdido,
                      \A c \in Claims : Assentada(c)
               PROVE  /\ (pedido.marcadores.disputaAbertaEm # Nenhum)
                           <=> (\E c \in Claims : AbertaNoProvedor(c) /\ ~Devolvida(c))
                      /\ (pedido.marcadores.devolucaoAbertaEm # Nenhum)
                           <=> (\E c \in Claims : AbertaNoProvedor(c) /\ Devolvida(c))
    BY DEF BloqueioSegueProvedor
  <2>1. pedido.marcadores = calcularMarcadores(incidentes)
    BY DEF IInv, MarcadoresRefletem
  <2>2. /\ (pedido.marcadores.disputaAbertaEm # Nenhum) <=> disputas # {}
        /\ (pedido.marcadores.devolucaoAbertaEm # Nenhum) <=> devolucoes # {}
    BY <2>1, DaClasseTipo, MarcadorLigado DEF calcularMarcadores
  <2>3. ASSUME NEW i \in Incidentes, i \notin Claims
        PROVE  i \notin disputas /\ i \notin devolucoes
    BY <2>3, IncidenteAssumption DEF DaClasse, classificarIncidenteBloqueante, Claims
  <2>4. ASSUME NEW c \in Claims
        PROVE  /\ c \in disputas <=> AbertaNoProvedor(c) /\ ~Devolvida(c)
               /\ c \in devolucoes <=> AbertaNoProvedor(c) /\ Devolvida(c)
    <3>1. /\ c \in Incidentes /\ Origem[c] = Marketplace
          /\ Tipo[c] \in TipoIncidente
      BY IncidenteAssumption DEF Claims
    <3>2. CASE claims[c] = <<>>
      <4>1. incidentes[c] = Nenhum
        BY <3>2, AssentadaEmDia
      <4>2. QED
        BY <3>2, <4>1 DEF DaClasse
    <3>3. CASE claims[c] # <<>>
      <4> DEFINE ultimo == claims[c][Len(claims[c])]
                 inc == incidentes[c]
      <4>1. /\ inc # Nenhum /\ inc.claimStatus = ultimo.status
            /\ inc.entregue = ultimo.entregue /\ inc.claimStatus \in StatusClaim
        BY <3>3, AssentadaEmDia
      <4>2. Aberto(inc) <=> ultimo.status = "opened"
        BY <4>1, IncidenteAssumption DEF Aberto
      <4>3. Tipo[c] \in TIPOS_INCIDENTE_BLOQUEANTES <=> Tipo[c] # "o"
        BY <3>1 DEF TIPOS_INCIDENTE_BLOQUEANTES, TipoIncidente
      <4>4. Tipo[c] \in TIPOS_INCIDENTE_DEVOLUCAO <=> Tipo[c] = "returns"
        BY DEF TIPOS_INCIDENTE_DEVOLUCAO
      <4> HIDE DEF inc, ultimo
      <4>5. classificarIncidenteBloqueante(c, inc) =
              IF ~(Tipo[c] # "o" /\ ultimo.status = "opened") THEN Nenhum
              ELSE IF Tipo[c] = "returns" \/ ultimo.entregue THEN "devolucao" ELSE "disputa"
        BY <3>1, <4>1, <4>2, <4>3, <4>4 DEF classificarIncidenteBloqueante
      <4>6. /\ c \in disputas <=> classificarIncidenteBloqueante(c, inc) = "disputa"
            /\ c \in devolucoes <=> classificarIncidenteBloqueante(c, inc) = "devolucao"
        BY <3>1, <4>1 DEF DaClasse, inc
      <4>7. QED
        BY <3>3, <4>5, <4>6, IncidenteAssumption DEF ultimo
    <3>4. QED
      BY <3>2, <3>3
  <2>5. disputas \subseteq Incidentes /\ devolucoes \subseteq Incidentes
    BY DaClasseTipo
  <2> HIDE DEF disputas, devolucoes, AbertaNoProvedor, Devolvida
  <2>6. QED
    BY <2>2, <2>3, <2>4, <2>5, ClaimsTipo
<1>2. QED
  BY <1>1, Invariante, PTL

=============================================================================
