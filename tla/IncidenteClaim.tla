--------------------------- MODULE IncidenteClaim ---------------------------
(***************************************************************************)
(* The pure half of the marketplace dispute overlay: what one delivery of  *)
(* a claim does to its incidente, which incidentes block a pedido, the     *)
(* fold of a pedido's incidentes into its three markers, and the guards    *)
(* that read the markers.                                                  *)
(*                                                                         *)
(* A null or absent value, a missing document included, is Nenhum.  A      *)
(* resolução is only present or absent, and entregue is true or not true.  *)
(***************************************************************************)
EXTENDS Integers

CONSTANTS
  Incidentes,  \* ids of the pedido's incidentes
  Origem,      \* of each, "marketplace" or "outros"
  Tipo,        \* of each, its TipoIncidente
  Timestamp,   \* of each, the instant the claim was opened
  Nenhum

Marketplace == "marketplace"
TipoIncidente == {"mediations", "cancel_purchase", "cancel_sale", "returns", "o"}
StatusClaim == {"opened", "closed"}
AcaoBloqueada == {"despacho", "nfe", "finalizar"}

Claims == {i \in Incidentes : Origem[i] = Marketplace}

(* What getClaim answers about a claim; relogio is its last_updated, which *)
(* may be unreadable.                                                      *)
Claim == [status: StatusClaim, entregue: BOOLEAN, relogio: Nat \cup {Nenhum}]

Incidente ==
  [claimStatus: StatusClaim \cup {Nenhum}, resolucao: BOOLEAN,
   entregue: BOOLEAN, relogioProvedorUs: Nat \cup {Nenhum},
   overrideBloqueio: SUBSET AcaoBloqueada]

ASSUME IncidenteAssumption ==
  /\ Origem \in [Incidentes -> {Marketplace, "outros"}]
  /\ Tipo \in [Incidentes -> TipoIncidente]
  /\ Timestamp \in [Incidentes -> Nat]
  /\ Nenhum \notin Int /\ Nenhum \notin Incidente
  /\ Nenhum \notin StatusClaim /\ Nenhum \notin {"disputa", "devolucao"}

Marcadores ==
  [disputaAbertaEm: Nat \cup {Nenhum}, devolucaoAbertaEm: Nat \cup {Nenhum},
   bloqueiosLiberados: SUBSET AcaoBloqueada]

-----------------------------------------------------------------------------
(* The importer's write.                                                   *)

Resolvida(claim) == claim.status = "closed"

Criado(claim) ==
  [claimStatus |-> claim.status, resolucao |-> Resolvida(claim),
   entregue |-> claim.entregue, relogioProvedorUs |-> claim.relogio,
   overrideBloqueio |-> {}]

(* Fault: the importer merges whatever it fetched.                         *)
FalhaSemRelogio(inc, claim) == FALSE

(* A delivery with no clock, or an older one, loses to a stored watermark. *)
Obsoleta(inc, claim) ==
  /\ inc.relogioProvedorUs # Nenhum
  /\ claim.relogio # Nenhum => claim.relogio < inc.relogioProvedorUs

(* The importer's own keys; a claim without resolução keeps the stored one *)
(* and a clockless delivery stamps nothing.                                *)
Atualizado(inc, claim) ==
  [inc EXCEPT !.claimStatus = claim.status,
              !.entregue = claim.entregue,
              !.resolucao = @ \/ Resolvida(claim),
              !.relogioProvedorUs = IF claim.relogio = Nenhum THEN @ ELSE claim.relogio]

(* The incidente after the delivery of claim, from the stored one.         *)
preverIncidenteClaim(inc, claim) ==
  IF inc = Nenhum THEN Criado(claim)
  ELSE IF Obsoleta(inc, claim) THEN inc
  ELSE Atualizado(inc, claim)

-----------------------------------------------------------------------------
(* The fold and the guards.                                                *)

TIPOS_INCIDENTE_BLOQUEANTES == {"mediations", "cancel_purchase", "cancel_sale", "returns"}
TIPOS_INCIDENTE_DEVOLUCAO == {"returns"}

Aberto(inc) ==
  IF inc.claimStatus = Nenhum THEN ~inc.resolucao ELSE inc.claimStatus = "opened"

(* Fault: an incidente of any origem blocks.                               *)
FalhaQualquerOrigem(i, inc) ==
  IF ~(Tipo[i] \in TIPOS_INCIDENTE_BLOQUEANTES /\ Aberto(inc)) THEN Nenhum
  ELSE IF Tipo[i] \in TIPOS_INCIDENTE_DEVOLUCAO \/ inc.entregue
    THEN "devolucao" ELSE "disputa"

(* "disputa", "devolucao", or Nenhum for an incidente that does not block. *)
classificarIncidenteBloqueante(i, inc) ==
  IF ~(Origem[i] = Marketplace /\ Tipo[i] \in TIPOS_INCIDENTE_BLOQUEANTES /\ Aberto(inc))
    THEN Nenhum
  ELSE IF Tipo[i] \in TIPOS_INCIDENTE_DEVOLUCAO \/ inc.entregue
    THEN "devolucao" ELSE "disputa"

MaisAntigo(ids) ==
  IF ids = {} THEN Nenhum
  ELSE CHOOSE t \in {Timestamp[i] : i \in ids} : \A i \in ids : t <= Timestamp[i]

DaClasse(incidentes, classe) ==
  {i \in Incidentes : /\ incidentes[i] # Nenhum
                      /\ classificarIncidenteBloqueante(i, incidentes[i]) = classe}

calcularMarcadores(incidentes) ==
  LET disputas == DaClasse(incidentes, "disputa")
      devolucoes == DaClasse(incidentes, "devolucao")
  IN [disputaAbertaEm |-> MaisAntigo(disputas),
      devolucaoAbertaEm |-> MaisAntigo(devolucoes),
      bloqueiosLiberados |->
        UNION {incidentes[i].overrideBloqueio : i \in disputas \cup devolucoes}]

bloqueioDespachoAtivo(m) ==
  m.disputaAbertaEm # Nenhum /\ "despacho" \notin m.bloqueiosLiberados

bloqueioFinalizarAtivo(m) ==
  /\ m.disputaAbertaEm # Nenhum \/ m.devolucaoAbertaEm # Nenhum
  /\ "finalizar" \notin m.bloqueiosLiberados

(* Fault: entregue is not among the watched fields.                        *)
FalhaSemEntregue(antes, depois) ==
  /\ antes # depois
  /\ antes # Nenhum /\ depois # Nenhum =>
       \/ antes.claimStatus # depois.claimStatus
       \/ antes.resolucao # depois.resolucao
       \/ antes.overrideBloqueio # depois.overrideBloqueio

(* The event fires on the fields the classifier and the fold read; a       *)
(* create and a delete always count.                                       *)
MudouCampoBloqueio(antes, depois) ==
  /\ antes # depois
  /\ antes # Nenhum /\ depois # Nenhum =>
       \/ antes.claimStatus # depois.claimStatus
       \/ antes.resolucao # depois.resolucao
       \/ antes.entregue # depois.entregue
       \/ antes.overrideBloqueio # depois.overrideBloqueio

=============================================================================
