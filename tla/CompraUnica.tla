----------------------------- MODULE CompraUnica -----------------------------
(***************************************************************************)
(* What the label purchase of one pedido promises, with no claim, request  *)
(* or clock: a label is paid only after its payment was authorised while   *)
(* it was the pedido's anchor, and a new label takes the anchor only of a  *)
(* pedido that has none.  So of the labels whose payment was authorised    *)
(* all but the anchored one were detached by an operator.                  *)
(***************************************************************************)
CONSTANTS Etiquetas, Nenhum

VARIABLES
  ancora,      \* the label the pedido points at, or Nenhum
  autorizadas, \* the labels whose payment may be made, or was
  pagas,       \* the labels that were paid
  soltas       \* the authorised labels an operator detached

vars == <<ancora, autorizadas, pagas, soltas>>

Init ==
  /\ ancora \in Etiquetas \cup {Nenhum}
  /\ autorizadas = {} /\ pagas = {} /\ soltas = {}

Ancorar(e) ==
  /\ ancora = Nenhum
  /\ e \notin autorizadas
  /\ ancora' = e
  /\ UNCHANGED <<autorizadas, pagas, soltas>>

Autorizar(e) ==
  /\ ancora = e
  /\ autorizadas' = autorizadas \cup {e}
  /\ UNCHANGED <<ancora, pagas, soltas>>

(* The attempt ended with nothing paid.                                    *)
Desistir(e) ==
  /\ e \in autorizadas \ pagas
  /\ autorizadas' = autorizadas \ {e}
  /\ UNCHANGED <<ancora, pagas, soltas>>

Pagar(e) ==
  /\ e \in autorizadas
  /\ pagas' = pagas \cup {e}
  /\ UNCHANGED <<ancora, autorizadas, soltas>>

(* An operator repoints the freight, or deletes the pedido.                *)
Soltar ==
  /\ ancora' = Nenhum
  /\ soltas' = soltas \cup (autorizadas \cap {ancora})
  /\ UNCHANGED <<autorizadas, pagas>>

Next ==
  \/ \E e \in Etiquetas : Ancorar(e) \/ Autorizar(e) \/ Desistir(e) \/ Pagar(e)
  \/ Soltar

Spec == Init /\ [][Next]_vars

=============================================================================
