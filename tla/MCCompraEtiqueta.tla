-------------------------- MODULE MCCompraEtiqueta --------------------------
(***************************************************************************)
(* Instances of CompraEtiqueta for TLC: the clock of r2's instance is one  *)
(* unit ahead of the others'.                                              *)
(***************************************************************************)
EXTENDS CompraEtiqueta, TLC

MCRelogio == [r \in Requisicoes |-> IF r = "r2" THEN 1 ELSE 0]

(* A suspended shipment is like a canceled one to every run.               *)
MCViagens ==
  {<<"released", "posted">>, <<"posted", "delivered">>, <<"posted", "undelivered">>,
   <<"released", "canceled">>}

Simetria == Permutations(Etiquetas)

=============================================================================
