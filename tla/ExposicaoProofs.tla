-------------------------- MODULE ExposicaoProofs ---------------------------
(***************************************************************************)
(* The payment links of a pedido never promise more than it is worth.      *)
(* Every payment has a weight, and so has every link that is still open;   *)
(* a step moves weight between a payment and its link and adds none.       *)
(***************************************************************************)
EXTENDS LinkPagamentoProofs, SomaFinitaProofs

-----------------------------------------------------------------------------
(* The weights.                                                            *)

EmTransitoOuPagante(status) ==
  isPagamentoPagante(status) \/ status \in STATUS_EM_TRANSITO

(* The payments of link l that pay, or may still.                          *)
Vivos(docs, l) ==
  {d \in Docs : /\ docs[d] # Nenhum /\ docs[d].link = l
                /\ EmTransitoOuPagante(docs[d].status)}

PagantesDoLink(docs, l) == {d \in Pagantes(docs) : docs[d].link = l}

Ativo(ls, vs, l) == ls[l] # Nenhum /\ ls[l].status = "aberto" /\ l \notin vs

(* Stored, and no longer bringing anything new in.                         *)
Fora(ls, vs, l) == l \in Links /\ ls[l] # Nenhum /\ ~Ativo(ls, vs, l)

(* What a payment weighs: its value when it pays, and when it is on its    *)
(* way and its link does not weigh for it.                                 *)
PesoDoDoc(doc, ls, vs) ==
  IF doc = Nenhum THEN 0
  ELSE IF \/ isPagamentoPagante(doc.status)
          \/ doc.status \in STATUS_EM_TRANSITO /\ Fora(ls, vs, doc.link)
    THEN doc.valor ELSE 0

PesoDoc(docs, ls, vs) == [d \in Docs |-> PesoDoDoc(docs[d], ls, vs)]

(* What a link weighs: the payments it still waits for.                    *)
PesoDoLink(docs, ls, vs, l) ==
  IF Ativo(ls, vs, l) THEN ValorLink[l] * (Cota[l] - PagosDoLink(docs, l)) ELSE 0

PesoLink(docs, ls, vs) == [l \in Links |-> PesoDoLink(docs, ls, vs, l)]

Peso(docs, ls, vs) == Soma(Docs, PesoDoc(docs, ls, vs)) + Soma(Links, PesoLink(docs, ls, vs))

(* What a document is while no operator typed one: no store credit, and    *)
(* through a link the provider's own, of what the link charges.            *)
DocCerto(doc) ==
  /\ ~doc.creditoLoja
  /\ doc.link # Nenhum =>
       /\ doc.relogio # Nenhum
       /\ EmTransitoOuPagante(doc.status) => doc.valor = ValorLink[doc.link]

Certos(docs) == \A d \in Docs : docs[d] # Nenhum => DocCerto(docs[d])

(* No link has more payments alive than it accepts.                        *)
Cabem(docs) == \A l \in Links : Cardinality(Vivos(docs, l)) <= Cota[l]

Terminal(status) == status \in {"recusado", "estornado"}

(* A refusal and a refund are final: what was fetched or stored of one is  *)
(* what the provider still says.                                           *)
FimDasCopias ==
  \A t \in Tarefas : tarefas[t].fase = "buscou" /\ Terminal(tarefas[t].copia.status) =>
    tarefas[t].copia = provedor[tarefas[t].pagamento]

FimDoDoc(p, d) ==
  pagamentos[d] # Nenhum /\ pagamentos[d].relogio # Nenhum /\ Terminal(pagamentos[d].status) =>
    /\ provedor[p] # Nenhum /\ Terminal(provedor[p].status)
    /\ pagamentos[d].relogio = provedor[p].relogio

FimDosDocs == \A p \in Pagamentos : \A d \in DocumentosDe(p) : FimDoDoc(p, d)

Exposto ==
  ~surpresa =>
    /\ Certos(pagamentos) /\ Cabem(pagamentos) /\ FimDosDocs
    /\ pedido.devolvido + Peso(pagamentos, links, vencidos) <= pedido.total

InvExposto == Inv /\ FimDasCopias /\ Exposto

-----------------------------------------------------------------------------
(* What the weights are.                                                   *)

Documentos == [Docs -> Pagamento \cup {Nenhum}]

LEMMA VivosConta ==
  ASSUME NEW docs, NEW l
  PROVE  /\ IsFiniteSet(Vivos(docs, l)) /\ Cardinality(Vivos(docs, l)) \in Nat
         /\ IsFiniteSet(PagantesDoLink(docs, l))
         /\ PagosDoLink(docs, l) = Cardinality(PagantesDoLink(docs, l))
         /\ PagosDoLink(docs, l) \in Nat
         /\ PagosDoLink(docs, l) <= Cardinality(Vivos(docs, l))
<1>1. Vivos(docs, l) \subseteq Docs /\ PagantesDoLink(docs, l) \subseteq Vivos(docs, l)
  BY DEF Vivos, PagantesDoLink, Pagantes, EmTransitoOuPagante
<1>2. IsFiniteSet(Vivos(docs, l))
  BY <1>1, CoberturaAssumption, FS_Subset
<1>3. PagosDoLink(docs, l) = Cardinality(PagantesDoLink(docs, l))
  BY DEF PagosDoLink, PagantesDoLink
<1>4. QED
  BY <1>1, <1>2, <1>3, FS_Subset, FS_CardinalityType

(* A link that accepts all the payments it has weighs no less than zero.   *)
LEMMA PesoDoLinkTipo ==
  ASSUME NEW docs, NEW ls, NEW vs, NEW l \in Links, Cardinality(Vivos(docs, l)) <= Cota[l]
  PROVE  /\ PesoDoLink(docs, ls, vs, l) \in Nat
         /\ Cota[l] - PagosDoLink(docs, l) \in Nat
<1>1. /\ Cota[l] \in Nat /\ ValorLink[l] \in Nat /\ PagosDoLink(docs, l) \in Nat
      /\ PagosDoLink(docs, l) <= Cota[l]
  BY VivosConta, CoberturaAssumption
<1>2. Cota[l] - PagosDoLink(docs, l) \in Nat
  BY <1>1
<1>3. ValorLink[l] * (Cota[l] - PagosDoLink(docs, l)) \in Nat
  BY <1>1, <1>2
<1>4. QED
  BY <1>2, <1>3 DEF PesoDoLink

LEMMA PesoDoDocTipo ==
  ASSUME NEW doc \in Pagamento \cup {Nenhum}, NEW ls, NEW vs
  PROVE  PesoDoDoc(doc, ls, vs) \in Nat
  BY DEF PesoDoDoc, Pagamento

LEMMA PesoTipo ==
  ASSUME NEW docs \in Documentos, NEW ls, NEW vs, Cabem(docs)
  PROVE  /\ \A d \in Docs : PesoDoc(docs, ls, vs)[d] \in Nat
         /\ \A l \in Links : PesoLink(docs, ls, vs)[l] \in Nat
         /\ Soma(Docs, PesoDoc(docs, ls, vs)) \in Nat
         /\ Soma(Links, PesoLink(docs, ls, vs)) \in Nat
         /\ Peso(docs, ls, vs) \in Nat
<1>1. \A d \in Docs : PesoDoc(docs, ls, vs)[d] \in Nat
  BY PesoDoDocTipo DEF PesoDoc, Documentos
<1>2. \A l \in Links : PesoLink(docs, ls, vs)[l] \in Nat
  BY PesoDoLinkTipo DEF PesoLink, Cabem
<1>3. /\ Soma(Docs, PesoDoc(docs, ls, vs)) \in Nat
      /\ Soma(Links, PesoLink(docs, ls, vs)) \in Nat
  BY <1>1, <1>2, SomaTipo, CoberturaAssumption
<1>4. QED
  BY <1>1, <1>2, <1>3 DEF Peso

(* Only a link with room waits: one that spent its quota has no payment on *)
(* its way.                                                                *)
LEMMA TransitoFora ==
  ASSUME NEW docs \in Documentos, NEW ls, NEW vs, Cabem(docs)
  PROVE  EmTransito(ls, docs, vs)
           = {d \in Docs : /\ docs[d] # Nenhum /\ docs[d].status \in STATUS_EM_TRANSITO
                           /\ Fora(ls, vs, docs[d].link)}
<1>1. ASSUME NEW d \in Docs, docs[d] # Nenhum, docs[d].status \in STATUS_EM_TRANSITO,
             NEW l \in Links, docs[d].link = l
      PROVE  PagosDoLink(docs, l) < Cota[l]
  <2>1. d \in Vivos(docs, l) /\ d \notin PagantesDoLink(docs, l)
    BY <1>1, CoberturaAssumption
       DEF Vivos, PagantesDoLink, Pagantes, EmTransitoOuPagante, isPagamentoPagante,
           STATUS_EM_TRANSITO, StatusPagamento
  <2>2. PagantesDoLink(docs, l) \subseteq Vivos(docs, l) \ {d}
    BY <2>1 DEF Vivos, PagantesDoLink, Pagantes, EmTransitoOuPagante
  <2>3. /\ IsFiniteSet(Vivos(docs, l) \ {d})
        /\ Cardinality(Vivos(docs, l) \ {d}) = Cardinality(Vivos(docs, l)) - 1
    BY <2>1, VivosConta, FS_RemoveElement
  <2>4. PagosDoLink(docs, l) <= Cardinality(Vivos(docs, l)) - 1
    BY <2>2, <2>3, VivosConta, FS_Subset
  <2>5. Cota[l] \in Nat /\ Cardinality(Vivos(docs, l)) <= Cota[l]
    BY CoberturaAssumption DEF Cabem
  <2>6. QED
    BY <2>4, <2>5, VivosConta
<1>2. QED
  BY <1>1, CoberturaAssumption DEF EmTransito, linksEmAberto, Fora, Ativo

(* While every document is the provider's, the exposure of the pedido is   *)
(* what was returned and what its payments and its links weigh.            *)
LEMMA ExposicaoConta ==
  ASSUME NEW docs \in Documentos, NEW ls, NEW vs, NEW p \in Pedido, Certos(docs), Cabem(docs)
  PROVE  /\ Exposicao(p, ls, docs, vs) = p.devolvido + Peso(docs, ls, vs)
         /\ Soma(Docs, PesoDoc(docs, ls, vs))
              = valorPago(docs) + valorEmTransitoForaDeLinksAbertos(ls, docs, vs)
         /\ Soma(Links, PesoLink(docs, ls, vs)) = valorEmAbertoEmLinks(ls, docs, vs)
         /\ valorQuitado(p, docs) = p.devolvido + valorPago(docs)
         /\ valorPago(docs) \in Nat /\ valorEmAbertoEmLinks(ls, docs, vs) \in Nat
         /\ valorEmTransitoForaDeLinksAbertos(ls, docs, vs) \in Nat
<1> DEFINE P == Pagantes(docs)
           T == EmTransito(ls, docs, vs)
           A == linksEmAberto(ls, docs, vs)
           w == PesoDoc(docs, ls, vs)
           z == PesoLink(docs, ls, vs)
<1>0. /\ \A d \in Docs : w[d] \in Nat
      /\ \A l \in Links : z[l] \in Nat
      /\ IsFiniteSet(Docs) /\ IsFiniteSet(Links)
  BY PesoTipo, CoberturaAssumption
<1>1. P \subseteq Docs /\ T \subseteq Docs /\ P \cap T = {} /\ P \cup T \in SUBSET Docs
  BY CoberturaAssumption
     DEF Pagantes, EmTransito, isPagamentoPagante, STATUS_EM_TRANSITO, StatusPagamento
<1>2. IsFiniteSet(P) /\ IsFiniteSet(T)
  BY <1>0, <1>1, FS_Subset
<1>3. T = {d \in Docs : /\ docs[d] # Nenhum /\ docs[d].status \in STATUS_EM_TRANSITO
                        /\ Fora(ls, vs, docs[d].link)}
  BY TransitoFora
<1>4. /\ \A d \in Docs \ (P \cup T) : w[d] = 0
      /\ \A d \in P \cup T : w[d] = docs[d].valor
  BY <1>1, <1>3 DEF PesoDoc, PesoDoDoc, Pagantes
<1>5. valorPago(docs) = Soma(P, w)
  <2>1. valorPago(docs) = Soma(P, [d \in P |-> docs[d].valor])
    BY DEF valorPago, Somar
  <2>2. QED
    BY <1>4, <2>1, SomaIgual
<1>6. valorEmTransitoForaDeLinksAbertos(ls, docs, vs) = Soma(T, w)
  <2>1. valorEmTransitoForaDeLinksAbertos(ls, docs, vs) = Soma(T, [d \in T |-> docs[d].valor])
    BY DEF valorEmTransitoForaDeLinksAbertos, Somar
  <2>2. QED
    BY <1>4, <2>1, SomaIgual
<1>7. Soma(P, w) \in Nat /\ Soma(T, w) \in Nat
  BY <1>0, <1>1, <1>2, SomaTipo
<1>8. Soma(Docs, w) = Soma(P, w) + Soma(T, w)
  <2>1. Soma(Docs, w) = Soma(P \cup T, w)
    BY <1>0, <1>1, <1>4, SomaSemZeros
  <2>2. Soma(P \cup T, w) = Soma(P, w) + Soma(T, w)
    BY <1>0, <1>1, <1>2, SomaUniao
  <2>3. QED
    BY <2>1, <2>2
<1>9. Soma(Links, z) = valorEmAbertoEmLinks(ls, docs, vs)
  <2>1. A \in SUBSET Links /\ \A l \in A : z[l] = ValorLink[l] * (Cota[l] - PagosDoLink(docs, l))
    BY DEF linksEmAberto, PesoLink, PesoDoLink, Ativo
  <2>2. ASSUME NEW l \in Links \ A PROVE z[l] = 0
    <3>1. CASE ~Ativo(ls, vs, l)
      BY <3>1 DEF PesoLink, PesoDoLink
    <3>2. CASE Ativo(ls, vs, l)
      <4>1. ~(PagosDoLink(docs, l) < Cota[l])
        BY <2>2, <3>2 DEF linksEmAberto, Ativo
      <4>2. Cota[l] - PagosDoLink(docs, l) = 0 /\ ValorLink[l] \in Nat
        BY <4>1, PesoDoLinkTipo, VivosConta, CoberturaAssumption DEF Cabem
      <4>3. QED
        BY <3>2, <4>2 DEF PesoLink, PesoDoLink
    <3>3. QED
      BY <3>1, <3>2
  <2>3. Soma(Links, z) = Soma(A, z)
    BY <1>0, <2>1, <2>2, SomaSemZeros
  <2>4. valorEmAbertoEmLinks(ls, docs, vs)
          = Soma(A, [l \in A |-> ValorLink[l] * (Cota[l] - PagosDoLink(docs, l))])
    BY DEF valorEmAbertoEmLinks
  <2>5. QED
    BY <2>1, <2>3, <2>4, SomaIgual
<1>10. valorQuitado(p, docs) = p.devolvido + valorPago(docs)
  <2>1. {d \in P : docs[d].creditoLoja} = {}
    BY DEF Pagantes, Certos, DocCerto
  <2>2. creditoLojaPago(docs) = 0
    BY <2>1, SomaVazia DEF creditoLojaPago, Somar
  <2>3. p.devolvido \in Nat
    BY DEF Pedido
  <2>4. QED
    BY <2>2, <2>3 DEF valorQuitado, Maximo
<1>11. p.devolvido \in Nat /\ Soma(Links, z) \in Nat
  BY PesoTipo DEF Pedido
<1>12. QED
  BY <1>5, <1>6, <1>7, <1>8, <1>9, <1>10, <1>11 DEF Exposicao, Peso

-----------------------------------------------------------------------------
(* A delivery is written.                                                  *)

LEMMA TrocaNaCota ==
  ASSUME NEW v \in Nat, NEW n \in Int, NEW depois \in {0, 1}, NEW antes \in {0, 1}
  PROVE  /\ v * (n - depois + antes) + v * depois = v * n + v * antes
         /\ v * depois \in Int /\ v * antes \in Int /\ v * n \in Int
         /\ v * (n - depois + antes) \in Int
<1>1. v * (n - 1) = v * n - v /\ v * (n + 1) = v * n + v /\ v * n \in Int
      /\ v * (n - 1) \in Int /\ v * (n + 1) \in Int
  OBVIOUS
<1>2. v * 1 = v /\ v * 0 = 0 /\ n - 0 + 0 = n /\ n - 1 + 1 = n /\ n - 1 + 0 = n - 1 /\ n - 0 + 1 = n + 1
  OBVIOUS
<1>3. CASE depois = 0 /\ antes = 0
  BY <1>1, <1>2, <1>3
<1>4. CASE depois = 0 /\ antes = 1
  BY <1>1, <1>2, <1>4
<1>5. CASE depois = 1 /\ antes = 0
  BY <1>1, <1>2, <1>5
<1>6. CASE depois = 1 /\ antes = 1
  BY <1>1, <1>2, <1>6
<1>7. QED
  BY <1>3, <1>4, <1>5, <1>6

(* What a link counts when one document is written.                        *)
LEMMA LinkEscrita ==
  ASSUME NEW docs \in Documentos, NEW docs2 \in Documentos, NEW a \in Docs, NEW l,
         docs2[a] # Nenhum, \A d \in Docs \ {a} : docs2[d] = docs[d]
  PROVE  LET antes == docs[a] # Nenhum /\ docs[a].link = l
             depois == docs2[a].link = l
         IN /\ PagosDoLink(docs2, l) = PagosDoLink(docs, l)
                 + (IF depois /\ isPagamentoPagante(docs2[a].status) THEN 1 ELSE 0)
                 - (IF antes /\ isPagamentoPagante(docs[a].status) THEN 1 ELSE 0)
            /\ Cardinality(Vivos(docs2, l)) = Cardinality(Vivos(docs, l))
                 + (IF depois /\ EmTransitoOuPagante(docs2[a].status) THEN 1 ELSE 0)
                 - (IF antes /\ EmTransitoOuPagante(docs[a].status) THEN 1 ELSE 0)
<1> DEFINE antes == docs[a] # Nenhum /\ docs[a].link = l
           depois == docs2[a].link = l
<1>1. /\ Vivos(docs, l) \ {a} = Vivos(docs2, l) \ {a}
      /\ a \in Vivos(docs2, l) <=> depois /\ EmTransitoOuPagante(docs2[a].status)
      /\ a \in Vivos(docs, l) <=> antes /\ EmTransitoOuPagante(docs[a].status)
  BY DEF Vivos
<1>2. /\ PagantesDoLink(docs, l) \ {a} = PagantesDoLink(docs2, l) \ {a}
      /\ a \in PagantesDoLink(docs2, l) <=> depois /\ isPagamentoPagante(docs2[a].status)
      /\ a \in PagantesDoLink(docs, l) <=> antes /\ isPagamentoPagante(docs[a].status)
  BY DEF PagantesDoLink, Pagantes
<1>3. /\ IsFiniteSet(Vivos(docs, l)) /\ IsFiniteSet(PagantesDoLink(docs, l))
      /\ PagosDoLink(docs, l) = Cardinality(PagantesDoLink(docs, l))
      /\ PagosDoLink(docs2, l) = Cardinality(PagantesDoLink(docs2, l))
  BY VivosConta
<1>4. Cardinality(Vivos(docs2, l)) = Cardinality(Vivos(docs, l))
        + (IF a \in Vivos(docs2, l) THEN 1 ELSE 0) - (IF a \in Vivos(docs, l) THEN 1 ELSE 0)
  BY <1>1, <1>3, ContaTroca
<1>5. Cardinality(PagantesDoLink(docs2, l)) = Cardinality(PagantesDoLink(docs, l))
        + (IF a \in PagantesDoLink(docs2, l) THEN 1 ELSE 0)
        - (IF a \in PagantesDoLink(docs, l) THEN 1 ELSE 0)
  BY <1>2, <1>3, ContaTroca
<1>6. QED
  BY <1>1, <1>2, <1>3, <1>4, <1>5

(* The document and its link: what one gains the other loses.              *)
LEMMA ParEscrito ==
  ASSUME NEW docs \in Documentos, NEW docs2 \in Documentos, NEW ls, NEW vs, NEW a \in Docs,
         NEW l \in Links, docs2[a] # Nenhum, \A d \in Docs \ {a} : docs2[d] = docs[d],
         Certos(docs), DocCerto(docs2[a]), docs2[a].link = l, ls[l] # Nenhum,
         docs[a] # Nenhum => docs[a].link \in {Nenhum, l},
         EmTransitoOuPagante(docs2[a].status) =>
           \/ docs[a] # Nenhum /\ docs[a].link = l /\ EmTransitoOuPagante(docs[a].status)
           \/ Ativo(ls, vs, l)
  PROVE  PesoDoDoc(docs2[a], ls, vs) + PesoDoLink(docs2, ls, vs, l)
           <= PesoDoDoc(docs[a], ls, vs) + PesoDoLink(docs, ls, vs, l)
<1> DEFINE v == ValorLink[l]
           n == Cota[l] - PagosDoLink(docs, l)
           depois == IF isPagamentoPagante(docs2[a].status) THEN 1 ELSE 0
           antes == IF /\ docs[a] # Nenhum /\ docs[a].link = l
                       /\ isPagamentoPagante(docs[a].status) THEN 1 ELSE 0
<1>0. /\ l # Nenhum /\ v \in Nat /\ Cota[l] \in Nat /\ PagosDoLink(docs, l) \in Nat
      /\ n \in Int /\ antes \in {0, 1} /\ depois \in {0, 1}
      /\ docs2[a] \in Pagamento /\ docs[a] \in Pagamento \cup {Nenhum}
  BY CoberturaAssumption, VivosConta DEF Documentos
<1>1. PesoDoDoc(docs[a], ls, vs) \in Nat
  BY <1>0, PesoDoDocTipo
<1>2. CASE Ativo(ls, vs, l)
  <2>1. PagosDoLink(docs2, l) = PagosDoLink(docs, l) + depois - antes
    BY LinkEscrita
  <2>2. Cota[l] - PagosDoLink(docs2, l) = n - depois + antes
    BY <1>0, <2>1
  <2>3. /\ PesoDoLink(docs2, ls, vs, l) = v * (n - depois + antes)
        /\ PesoDoLink(docs, ls, vs, l) = v * n
    BY <1>2, <2>2 DEF PesoDoLink
  <2>4. PesoDoDoc(docs2[a], ls, vs) = v * depois
    BY <1>0, <1>2, CoberturaAssumption
       DEF PesoDoDoc, Fora, DocCerto, EmTransitoOuPagante
  <2>5. PesoDoDoc(docs[a], ls, vs) >= v * antes
    BY <1>0, <1>1, CoberturaAssumption
       DEF PesoDoDoc, Certos, DocCerto, EmTransitoOuPagante
  <2> HIDE DEF v, n, depois, antes
  <2>6. v * (n - depois + antes) + v * depois = v * n + v * antes
    BY <1>0, TrocaNaCota
  <2>7. v * depois \in Int /\ v * antes \in Int /\ v * n \in Int /\ v * (n - depois + antes) \in Int
    BY <1>0, TrocaNaCota
  <2>8. QED
    BY <1>1, <2>3, <2>4, <2>5, <2>6, <2>7
<1>3. CASE ~Ativo(ls, vs, l)
  <2>1. Fora(ls, vs, l)
    BY <1>3 DEF Fora
  <2>2. PesoDoLink(docs2, ls, vs, l) = 0 /\ PesoDoLink(docs, ls, vs, l) = 0
    BY <1>3 DEF PesoDoLink
  <2>3. CASE EmTransitoOuPagante(docs2[a].status)
    <3>1. docs[a] # Nenhum /\ docs[a].link = l /\ EmTransitoOuPagante(docs[a].status)
      BY <1>3, <2>3
    <3>2. PesoDoDoc(docs2[a], ls, vs) = v /\ PesoDoDoc(docs[a], ls, vs) = v
      BY <1>0, <2>1, <2>3, <3>1 DEF PesoDoDoc, Certos, DocCerto, EmTransitoOuPagante
    <3>3. QED
      BY <1>0, <2>2, <3>2
  <2>4. CASE ~EmTransitoOuPagante(docs2[a].status)
    <3>1. PesoDoDoc(docs2[a], ls, vs) = 0
      BY <2>4 DEF PesoDoDoc, EmTransitoOuPagante
    <3>2. QED
      BY <1>1, <2>2, <3>1
  <2>5. QED
    BY <2>3, <2>4
<1>4. QED
  BY <1>2, <1>3

(* What one delivery writes weighs no more than what was there, if it says *)
(* nothing new, or was announced by a link that still weighs for it.       *)
LEMMA PesoEscrita ==
  ASSUME NEW docs \in Documentos, NEW docs2 \in Documentos, NEW ls, NEW vs, NEW a \in Docs,
         docs2[a] # Nenhum, \A d \in Docs \ {a} : docs2[d] = docs[d],
         Certos(docs), Cabem(docs), DocCerto(docs2[a]),
         docs2[a].link # Nenhum => ls[docs2[a].link] # Nenhum,
         docs[a] # Nenhum => docs[a].link \in {Nenhum, docs2[a].link},
         EmTransitoOuPagante(docs2[a].status) =>
           /\ docs2[a].link # Nenhum
           /\ \/ /\ docs[a] # Nenhum /\ docs[a].link = docs2[a].link
                 /\ EmTransitoOuPagante(docs[a].status)
              \/ /\ Ativo(ls, vs, docs2[a].link)
                 /\ Cardinality(Vivos(docs, docs2[a].link)) < Cota[docs2[a].link]
  PROVE  Certos(docs2) /\ Cabem(docs2) /\ Peso(docs2, ls, vs) <= Peso(docs, ls, vs)
<1> DEFINE w == PesoDoc(docs, ls, vs)
           z == PesoLink(docs, ls, vs)
           w2 == PesoDoc(docs2, ls, vs)
           z2 == PesoLink(docs2, ls, vs)
           l == docs2[a].link
<1>1. Certos(docs2)
  BY DEF Certos
<1>2. docs2[a] \in Pagamento /\ l \in Links \cup {Nenhum} /\ Nenhum \notin Links
  BY CoberturaAssumption DEF Documentos, Pagamento
<1>3. \A k \in Links \ {l} : /\ Cardinality(Vivos(docs2, k)) = Cardinality(Vivos(docs, k))
                             /\ PagosDoLink(docs2, k) = PagosDoLink(docs, k)
  <2> SUFFICES ASSUME NEW k \in Links \ {l}
               PROVE  /\ Cardinality(Vivos(docs2, k)) = Cardinality(Vivos(docs, k))
                      /\ PagosDoLink(docs2, k) = PagosDoLink(docs, k)
    OBVIOUS
  <2>1. docs2[a].link # k /\ ~(docs[a] # Nenhum /\ docs[a].link = k)
    BY <1>2
  <2>2. PagosDoLink(docs, k) \in Nat /\ Cardinality(Vivos(docs, k)) \in Nat
    BY VivosConta
  <2>3. QED
    BY <2>1, <2>2, LinkEscrita
<1>4. Cabem(docs2)
  <2>1. ASSUME l \in Links PROVE Cardinality(Vivos(docs2, l)) <= Cota[l]
    <3>1. Cardinality(Vivos(docs2, l)) = Cardinality(Vivos(docs, l))
            + (IF EmTransitoOuPagante(docs2[a].status) THEN 1 ELSE 0)
            - (IF /\ docs[a] # Nenhum /\ docs[a].link = l
                  /\ EmTransitoOuPagante(docs[a].status) THEN 1 ELSE 0)
      BY LinkEscrita
    <3>2. /\ Cardinality(Vivos(docs, l)) \in Nat /\ Cota[l] \in Nat
          /\ Cardinality(Vivos(docs, l)) <= Cota[l]
      BY <2>1, VivosConta, CoberturaAssumption DEF Cabem
    <3>3. QED
      BY <3>1, <3>2
  <2>2. QED
    BY <1>3, <2>1 DEF Cabem
<1>5. /\ \A d \in Docs : w[d] \in Nat /\ w2[d] \in Nat
      /\ \A k \in Links : z[k] \in Nat /\ z2[k] \in Nat
      /\ Soma(Docs, w) \in Nat /\ Soma(Docs, w2) \in Nat
      /\ Soma(Links, z) \in Nat /\ Soma(Links, z2) \in Nat
      /\ IsFiniteSet(Docs) /\ IsFiniteSet(Links)
  BY <1>4, PesoTipo, CoberturaAssumption
<1>6. \A d \in Docs \ {a} : w2[d] = w[d]
  BY DEF PesoDoc
<1>7. \A k \in Links \ {l} : z2[k] = z[k]
  BY <1>3 DEF PesoLink, PesoDoLink
<1>8. Soma(Docs, w2) = Soma(Docs, w) - w[a] + w2[a]
  BY <1>5, <1>6, SomaMuda
<1>9. CASE l = Nenhum
  <2>1. w2[a] = 0
    BY <1>9 DEF PesoDoc, PesoDoDoc, EmTransitoOuPagante
  <2>2. Soma(Links, z2) = Soma(Links, z)
    BY <1>2, <1>7, <1>9, SomaIgual
  <2>3. w[a] \in Nat
    BY <1>5
  <2> HIDE DEF w, w2, z, z2
  <2>4. Soma(Docs, w2) + Soma(Links, z2) <= Soma(Docs, w) + Soma(Links, z)
    BY <1>5, <1>8, <2>1, <2>2, <2>3
  <2>5. QED
    BY <1>1, <1>4, <2>4 DEF Peso, w, w2, z, z2
<1>10. CASE l \in Links
  <2>1. Soma(Links, z2) = Soma(Links, z) - z[l] + z2[l]
    BY <1>5, <1>7, <1>10, SomaMuda
  <2>2. w2[a] + z2[l] <= w[a] + z[l]
    BY <1>2, <1>10, ParEscrito DEF PesoDoc, PesoLink
  <2>3. w[a] \in Nat /\ w2[a] \in Nat /\ z[l] \in Nat /\ z2[l] \in Nat
    BY <1>5, <1>10
  <2> HIDE DEF w, w2, z, z2
  <2>4. Soma(Docs, w2) + Soma(Links, z2) <= Soma(Docs, w) + Soma(Links, z)
    BY <1>5, <1>8, <2>1, <2>2, <2>3
  <2>5. QED
    BY <1>1, <1>4, <2>4 DEF Peso, w, w2, z, z2
<1>11. QED
  BY <1>2, <1>9, <1>10

-----------------------------------------------------------------------------
(* A link stops waiting: what is on its way through it weighs by itself.   *)

LEMMA PesoFecha ==
  ASSUME NEW docs \in Documentos, NEW ls, NEW ls2, NEW vs, NEW vs2, NEW l \in Links,
         Certos(docs), Cabem(docs), Ativo(ls, vs, l), ls2[l] # Nenhum, ~Ativo(ls2, vs2, l),
         \A k \in Links \ {l} : /\ Ativo(ls2, vs2, k) <=> Ativo(ls, vs, k)
                                /\ ls2[k] = Nenhum <=> ls[k] = Nenhum
  PROVE  Peso(docs, ls2, vs2) <= Peso(docs, ls, vs)
<1> DEFINE w == PesoDoc(docs, ls, vs)
           z == PesoLink(docs, ls, vs)
           w2 == PesoDoc(docs, ls2, vs2)
           z2 == PesoLink(docs, ls2, vs2)
           v == ValorLink[l]
           n == Cota[l] - PagosDoLink(docs, l)
           T == {d \in Docs : /\ docs[d] # Nenhum /\ docs[d].link = l
                              /\ docs[d].status \in STATUS_EM_TRANSITO}
<1>1. /\ \A d \in Docs : w[d] \in Nat /\ w2[d] \in Nat
      /\ \A k \in Links : z[k] \in Nat /\ z2[k] \in Nat
      /\ Soma(Docs, w) \in Nat /\ Soma(Docs, w2) \in Nat
      /\ Soma(Links, z) \in Nat /\ Soma(Links, z2) \in Nat
      /\ IsFiniteSet(Docs) /\ IsFiniteSet(Links)
      /\ v \in Nat /\ Cota[l] \in Nat
  BY PesoTipo, CoberturaAssumption
<1>2. T \in SUBSET Docs /\ IsFiniteSet(T) /\ Cardinality(T) \in Nat
      /\ IsFiniteSet(Docs \ T) /\ T \cup (Docs \ T) = Docs /\ T \cap (Docs \ T) = {}
  BY <1>1, FS_Subset, FS_CardinalityType
<1>3. Cardinality(T) <= n /\ n \in Nat
  <2>1. /\ T \cap PagantesDoLink(docs, l) = {}
        /\ T \cup PagantesDoLink(docs, l) = Vivos(docs, l)
    BY CoberturaAssumption
       DEF PagantesDoLink, Pagantes, Vivos, EmTransitoOuPagante, isPagamentoPagante,
           STATUS_EM_TRANSITO, StatusPagamento
  <2>2. Cardinality(T \cap PagantesDoLink(docs, l)) = 0
    BY <2>1, FS_EmptySet
  <2>3. Cardinality(T \cup PagantesDoLink(docs, l))
          = Cardinality(T) + Cardinality(PagantesDoLink(docs, l))
              - Cardinality(T \cap PagantesDoLink(docs, l))
    BY <1>2, VivosConta, FS_Union, Zenon
  <2>4. Cardinality(T \cup PagantesDoLink(docs, l)) = Cardinality(Vivos(docs, l))
    BY <2>1, Zenon
  <2>5. Cardinality(Vivos(docs, l)) <= Cota[l]
    BY DEF Cabem
  <2> HIDE DEF T
  <2>6. QED
    BY <1>1, <1>2, <2>2, <2>3, <2>4, <2>5, VivosConta
<1>4. /\ \A d \in T : w[d] = 0 /\ w2[d] = v
      /\ \A d \in Docs \ T : w2[d] = w[d]
  <2>1. Fora(ls2, vs2, l) /\ ~Fora(ls, vs, l)
    BY DEF Fora
  <2>2. \A k : k # l => (Fora(ls2, vs2, k) <=> Fora(ls, vs, k))
    BY DEF Fora
  <2>3. ASSUME NEW d \in T PROVE w[d] = 0 /\ w2[d] = v
    <3>1. ~isPagamentoPagante(docs[d].status) /\ docs[d].valor = v
      BY CoberturaAssumption
         DEF Certos, DocCerto, EmTransitoOuPagante, isPagamentoPagante,
             STATUS_EM_TRANSITO, StatusPagamento
    <3>2. QED
      BY <2>1, <3>1 DEF PesoDoc, PesoDoDoc
  <2>4. ASSUME NEW d \in Docs \ T PROVE w2[d] = w[d]
    BY <2>2 DEF PesoDoc, PesoDoDoc
  <2>5. QED
    BY <2>3, <2>4
<1>5. Soma(Docs, w) = Soma(Docs \ T, w)
  BY <1>1, <1>2, <1>4, SomaSemZeros
<1>6. Soma(Docs, w2) = Cardinality(T) * v + Soma(Docs \ T, w2)
  <2>1. Soma(T, w2) = Cardinality(T) * v
    BY <1>1, <1>2, <1>4, SomaConstante
  <2> HIDE DEF T, w2
  <2>2. \A d \in T \cup (Docs \ T) : w2[d] \in Nat
    BY <1>1, <1>2
  <2>3. Soma(T \cup (Docs \ T), w2) = Soma(T, w2) + Soma(Docs \ T, w2)
    BY <1>2, <2>2, SomaUniao
  <2>4. Soma(T \cup (Docs \ T), w2) = Soma(Docs, w2)
    BY <1>2, Zenon
  <2>5. QED
    BY <2>1, <2>3, <2>4, Zenon
<1>7. Soma(Docs \ T, w2) = Soma(Docs \ T, w) /\ Soma(Docs \ T, w) \in Nat
  BY <1>1, <1>2, <1>4, SomaIgual, SomaTipo
<1>8. Soma(Links, z2) = Soma(Links, z) - z[l] + z2[l]
  <2>1. \A k \in Links \ {l} : z2[k] = z[k]
    BY DEF PesoLink, PesoDoLink
  <2>2. QED
    BY <1>1, <2>1, SomaMuda
<1>9. z[l] = v * n /\ z2[l] = 0
  BY DEF PesoLink, PesoDoLink
<1> DEFINE c == Cardinality(T)
<1>10. c \in Nat /\ c <= n /\ n \in Nat /\ v \in Nat
  BY <1>1, <1>2, <1>3
<1>11. Soma(Docs, w2) = c * v + Soma(Docs \ T, w2)
  BY <1>6
<1> HIDE DEF w, z, w2, z2, v, n, T, c
<1>12. c * v <= v * n /\ c * v \in Nat /\ v * n \in Nat
  <2>1. PICK k \in Nat : n = c + k
    <3>1. n - c \in Nat /\ n = c + (n - c)
      BY <1>10
    <3>2. QED
      BY <3>1
  <2>2. v * (c + k) = v * c + v * k /\ v * c \in Nat /\ v * k \in Nat /\ c * v = v * c
    BY <1>10
  <2>3. QED
    BY <2>1, <2>2
<1>13. Soma(Docs, w2) + Soma(Links, z2) <= Soma(Docs, w) + Soma(Links, z)
  BY <1>1, <1>5, <1>7, <1>8, <1>9, <1>11, <1>12
<1>14. QED
  BY <1>13 DEF Peso, w, z, w2, z2

-----------------------------------------------------------------------------
(* A batch of links is stored.                                             *)

LEMMA LoteTipo ==
  ASSUME NEW lote \in SUBSET Links
  PROVE  /\ IsFiniteSet(lote)
         /\ \A l \in lote : ValorLink[l] * Cota[l] \in Nat /\ ValorLink[l] * Cota[l] >= 1
         /\ Soma(lote, [l \in lote |-> ValorLink[l] * Cota[l]]) \in Nat
         /\ lote # {} => Soma(lote, [l \in lote |-> ValorLink[l] * Cota[l]]) >= 1
<1> DEFINE f == [l \in lote |-> ValorLink[l] * Cota[l]]
<1>1. IsFiniteSet(lote)
  BY CoberturaAssumption, FS_Subset
<1>2. ASSUME NEW v \in Nat \ {0}, NEW n \in Nat \ {0} PROVE v * n \in Nat /\ v * n >= 1
  OBVIOUS
<1>3. ASSUME NEW l \in lote
      PROVE  ValorLink[l] * Cota[l] \in Nat /\ ValorLink[l] * Cota[l] >= 1
  <2>1. ValorLink[l] \in Nat \ {0} /\ Cota[l] \in Nat \ {0}
    BY CoberturaAssumption
  <2>2. QED
    BY <1>2, <2>1
<1>4. Soma(lote, f) \in Nat
  BY <1>1, <1>3, SomaTipo
<1>5. ASSUME NEW l \in lote PROVE Soma(lote, f) >= 1
  <2>1. f[l] <= Soma(lote, f) /\ f[l] \in Nat /\ f[l] >= 1
    BY <1>1, <1>3, SomaParcela
  <2> HIDE DEF f
  <2>2. QED
    BY <1>4, <2>1
<1>6. QED
  BY <1>1, <1>3, <1>4, <1>5

(* New links have no payments yet, so that they weigh at most what they    *)
(* would all charge.                                                       *)
LEMMA PesoLote ==
  ASSUME NEW docs \in Documentos, NEW ls, NEW ls2, NEW vs, NEW lote \in SUBSET Links,
         Cabem(docs), \A l \in lote : ls[l] = Nenhum,
         \A d \in Docs : docs[d] # Nenhum => docs[d].link \notin lote,
         \A k \in Links \ lote : ls2[k] = ls[k]
  PROVE  Peso(docs, ls2, vs)
           <= Peso(docs, ls, vs) + Soma(lote, [l \in lote |-> ValorLink[l] * Cota[l]])
<1> DEFINE w == PesoDoc(docs, ls, vs)
           z == PesoLink(docs, ls, vs)
           w2 == PesoDoc(docs, ls2, vs)
           z2 == PesoLink(docs, ls2, vs)
           f == [l \in lote |-> ValorLink[l] * Cota[l]]
<1>1. /\ \A k \in Links : z[k] \in Nat /\ z2[k] \in Nat
      /\ Soma(Docs, w) \in Nat
      /\ Soma(Links, z) \in Nat /\ Soma(Links, z2) \in Nat
      /\ IsFiniteSet(Links) /\ IsFiniteSet(lote) /\ IsFiniteSet(Links \ lote)
  BY PesoTipo, LoteTipo, CoberturaAssumption, FS_Difference
<1>2. Soma(Docs, w2) = Soma(Docs, w)
  <2>1. \A d \in Docs : docs[d] # Nenhum =>
          (Fora(ls2, vs, docs[d].link) <=> Fora(ls, vs, docs[d].link))
    BY DEF Fora, Ativo
  <2>2. \A d \in Docs : w2[d] = w[d]
    BY <2>1 DEF PesoDoc, PesoDoDoc
  <2>3. QED
    BY <2>2, SomaIgual
<1>3. \A k \in Links \ lote : z2[k] = z[k]
  BY DEF PesoLink, PesoDoLink, Ativo
<1>4. \A l \in lote : z[l] = 0
  BY DEF PesoLink, PesoDoLink, Ativo
<1>5. ASSUME NEW l \in lote PROVE z2[l] <= f[l] /\ f[l] \in Nat
  <2>1. PagantesDoLink(docs, l) = {}
    BY DEF PagantesDoLink, Pagantes
  <2>2. PagosDoLink(docs, l) = 0
    BY <2>1, VivosConta, FS_EmptySet
  <2>3. Cota[l] \in Nat /\ Cota[l] - 0 = Cota[l]
    BY CoberturaAssumption
  <2>4. z2[l] = f[l] \/ z2[l] = 0
    BY <2>2, <2>3 DEF PesoLink, PesoDoLink
  <2>5. f[l] \in Nat
    BY LoteTipo
  <2> HIDE DEF z2, f
  <2>6. QED
    BY <2>4, <2>5
<1>6. Soma(Links, z) = Soma(Links \ lote, z)
  BY <1>1, <1>4, SomaSemZeros
<1>7. Soma(Links, z2) = Soma(lote, z2) + Soma(Links \ lote, z2)
  <2>1. lote \cup (Links \ lote) = Links /\ lote \cap (Links \ lote) = {}
    OBVIOUS
  <2>2. Soma(lote \cup (Links \ lote), z2) = Soma(lote, z2) + Soma(Links \ lote, z2)
    BY <1>1, <2>1, SomaUniao
  <2>3. Soma(lote \cup (Links \ lote), z2) = Soma(Links, z2)
    BY <2>1, Zenon
  <2>4. QED
    BY <2>2, <2>3, Zenon
<1>8. Soma(Links \ lote, z2) = Soma(Links \ lote, z) /\ Soma(Links \ lote, z) \in Nat
  BY <1>1, <1>3, SomaIgual, SomaTipo
<1>9. Soma(lote, z2) <= Soma(lote, f) /\ Soma(lote, z2) \in Nat /\ Soma(lote, f) \in Nat
  BY <1>1, <1>5, SomaMonotona, SomaTipo
<1> HIDE DEF w, z, w2, z2, f
<1>10. Soma(Docs, w2) + Soma(Links, z2) <= Soma(Docs, w) + Soma(Links, z) + Soma(lote, f)
  BY <1>1, <1>2, <1>6, <1>7, <1>8, <1>9
<1>11. QED
  BY <1>10 DEF Peso, w, z, w2, z2, f

(* The rule of the batch leaves room for all it may charge.                *)
LEMMA LoteCabe ==
  ASSUME NEW docs \in Documentos, NEW ls, NEW vs, NEW lote \in SUBSET Links, lote # {},
         NEW p \in Pedido, Certos(docs), Cabem(docs), NEW canal, NEW esperado,
         avaliarElegibilidade(p, ls, docs, vs, lote, canal, esperado)
  PROVE  p.devolvido + Peso(docs, ls, vs)
           + Soma(lote, [l \in lote |-> ValorLink[l] * Cota[l]]) <= p.total
<1> DEFINE s == Soma(lote, [l \in lote |-> ValorLink[l] * Cota[l]])
           q == valorQuitado(p, docs)
           a == valorEmAbertoEmLinks(ls, docs, vs)
           t == valorEmTransitoForaDeLinksAbertos(ls, docs, vs)
<1>1. s \in Nat /\ s >= 1
  BY LoteTipo
<1>2. /\ q \in Nat /\ a \in Nat /\ t \in Nat /\ p.total \in Nat
      /\ p.devolvido + Peso(docs, ls, vs) = q + a + t
  <2>1. p.total \in Nat /\ p.devolvido \in Nat
    BY DEF Pedido
  <2>2. QED
    BY <2>1, ExposicaoConta DEF Peso
<1>3. s <= Maximo(0, Maximo(0, p.total - q) - a - t)
  BY DEF avaliarElegibilidade, disponivelParaNovosLinks, restante
<1> HIDE DEF s, q, a, t
<1>4. q + a + t + s <= p.total
  BY <1>1, <1>2, <1>3 DEF Maximo
<1>5. QED
  BY <1>2, <1>4 DEF s

-----------------------------------------------------------------------------
(* The steps.                                                              *)

(* The provider takes back no refusal and no refund.                       *)
ProvedorFica ==
  \A p \in Pagamentos : provedor[p] # Nenhum /\ Terminal(provedor[p].status) =>
    provedor'[p] = provedor[p]

MesmoValor == pedido'.total = pedido.total /\ pedido'.devolvido = pedido.devolvido

LEMMA CopiasFicam ==
  ASSUME TipoInv, FimDasCopias, SemBuscaNova, ProvedorFica
  PROVE  FimDasCopias'
<1> SUFFICES ASSUME NEW t \in Tarefas, tarefas'[t].fase = "buscou",
                    Terminal(tarefas'[t].copia.status)
             PROVE  tarefas'[t].copia = provedor'[tarefas'[t].pagamento]
  BY DEF FimDasCopias
<1>1. tarefas'[t] = tarefas[t]
  BY DEF SemBuscaNova
<1>2. tarefas[t] \in Tarefa /\ tarefas[t].fase = "buscou"
  BY <1>1 DEF TipoInv, TypeOK, TypeOKPagamento
<1>3. tarefas[t].pagamento \in Pagamentos /\ tarefas[t].copia \in CopiaDoProvedor
  BY <1>2 DEF Tarefa
<1>4. tarefas[t].copia = provedor[tarefas[t].pagamento]
  BY <1>1, <1>2 DEF FimDasCopias
<1>5. QED
  BY <1>1, <1>3, <1>4, PagamentoAssumption DEF ProvedorFica

LEMMA DocsFicam ==
  ASSUME FimDosDocs, ProvedorFica, UNCHANGED pagamentos
  PROVE  FimDosDocs'
  BY DEF FimDosDocs, FimDoDoc, ProvedorFica, DocumentosDe

(* What a step has to keep, once it adds no weight.                        *)
LEMMA ExpostoLeve ==
  ASSUME TipoInv, Exposto, ProvedorFica, MesmoValor, UNCHANGED pagamentos,
         surpresa => surpresa',
         ~surpresa' => /\ Peso(pagamentos, links', vencidos') \in Nat
                       /\ Peso(pagamentos, links', vencidos') <= Peso(pagamentos, links, vencidos)
  PROVE  Exposto'
<1> SUFFICES ASSUME ~surpresa'
             PROVE  /\ Certos(pagamentos') /\ Cabem(pagamentos') /\ FimDosDocs'
                    /\ pedido'.devolvido + Peso(pagamentos', links', vencidos') <= pedido'.total
  BY DEF Exposto
<1>1. /\ Certos(pagamentos) /\ Cabem(pagamentos) /\ FimDosDocs
      /\ pedido.devolvido + Peso(pagamentos, links, vencidos) <= pedido.total
  BY DEF Exposto
<1>2. FimDosDocs'
  BY <1>1, DocsFicam
<1>3. pagamentos \in Documentos /\ pedido.devolvido \in Nat /\ pedido.total \in Nat
  BY DEF TipoInv, TypeOK, TypeOKPagamento, Documentos, Pedido
<1>4. Peso(pagamentos, links, vencidos) \in Nat
  BY <1>1, <1>3, PesoTipo
<1>5. pedido.devolvido + Peso(pagamentos, links', vencidos') <= pedido.total
  BY <1>1, <1>3, <1>4
<1>6. QED
  BY <1>1, <1>2, <1>5 DEF MesmoValor

LEMMA ExpostoTarefa ==
  ASSUME TipoInv, FimDasCopias, Exposto, SemBuscaNova, ProvedorFica, MesmoValor,
         UNCHANGED <<pagamentos, links, vencidos, surpresa>>
  PROVE  FimDasCopias' /\ Exposto'
<1>1. ASSUME ~surpresa PROVE Peso(pagamentos, links, vencidos) \in Nat
  BY <1>1, PesoTipo DEF Exposto, TipoInv, TypeOK, TypeOKPagamento, Documentos
<1>2. Exposto'
  <2>1. ~surpresa' => /\ Peso(pagamentos, links', vencidos') \in Nat
                      /\ Peso(pagamentos, links', vencidos') <= Peso(pagamentos, links, vencidos)
    BY <1>1
  <2>2. QED
    BY <2>1, ExpostoLeve
<1>3. QED
  BY <1>2, CopiasFicam

LEMMA ExpostoParado ==
  ASSUME TipoInv, FimDasCopias, Exposto, MesmoValor,
         UNCHANGED <<provedor, tarefas, pagamentos, links, vencidos, surpresa>>
  PROVE  FimDasCopias' /\ Exposto'
  BY ExpostoTarefa DEF SemBuscaNova, ProvedorFica

(* Money nobody announced ends the promise.                                *)
LEMMA ExpostoSurpresa ==
  ASSUME FimDasCopias, surpresa', UNCHANGED <<provedor, tarefas>>
  PROVE  FimDasCopias' /\ Exposto'
  BY DEF FimDasCopias, Exposto

LEMMA NotificarExposto ==
  ASSUME TipoInv, FimDasCopias, Exposto, NEW p \in Pagamentos, Notificar(p), NEW c,
         provedor' = [provedor EXCEPT ![p] = c],
         provedor[p] = Nenhum \/ ~Terminal(provedor[p].status),
         UNCHANGED <<pagamentos, pedido, links, vencidos, surpresa>>
  PROVE  FimDasCopias' /\ Exposto'
<1>1. SemBuscaNova
  BY NotificarSemBusca DEF TipoInv
<1>2. ProvedorFica
  BY DEF ProvedorFica, TipoInv, TypeOK, TypeOKPagamento
<1>3. QED
  BY <1>1, <1>2, ExpostoTarefa DEF MesmoValor

(* A link is closed, or its deadline passes.                               *)
LEMMA ExpostoFecha ==
  ASSUME TipoInv, Exposto, MesmoValor, UNCHANGED <<provedor, pagamentos, surpresa>>,
         NEW l \in Guardados, links'[l] # Nenhum,
         \/ ~Ativo(links, vencidos, l)
         \/ ~Ativo(links', vencidos', l)
         \/ (links' = links /\ vencidos' = vencidos),
         ~Ativo(links, vencidos, l) => ~Ativo(links', vencidos', l),
         \A k \in Links \ {l} : /\ links'[k] = links[k]
                                /\ k \in vencidos' <=> k \in vencidos
  PROVE  Exposto'
<1>0. /\ ProvedorFica /\ l \in Links /\ links[l] # Nenhum
      /\ pagamentos \in Documentos
  BY DEF ProvedorFica, Guardados, TipoInv, TypeOK, TypeOKPagamento, Documentos
<1>1. ASSUME ~surpresa
      PROVE  /\ Peso(pagamentos, links', vencidos') \in Nat
             /\ Peso(pagamentos, links', vencidos') <= Peso(pagamentos, links, vencidos)
  <2>1. Certos(pagamentos) /\ Cabem(pagamentos)
    BY <1>1 DEF Exposto
  <2>2. /\ Peso(pagamentos, links', vencidos') \in Nat
        /\ Peso(pagamentos, links, vencidos) \in Nat
    BY <1>0, <2>1, PesoTipo
  <2>3. \A k \in Links \ {l} : /\ Ativo(links', vencidos', k) <=> Ativo(links, vencidos, k)
                               /\ links'[k] = Nenhum <=> links[k] = Nenhum
    BY DEF Ativo
  <2>4. CASE Ativo(links, vencidos, l) /\ ~Ativo(links', vencidos', l)
    BY <1>0, <2>1, <2>2, <2>3, <2>4, PesoFecha
  <2>5. CASE Ativo(links, vencidos, l) /\ links' = links /\ vencidos' = vencidos
    BY <2>2, <2>5
  <2>6. CASE ~Ativo(links, vencidos, l)
    <3>1. \A k \in Links : /\ Ativo(links', vencidos', k) <=> Ativo(links, vencidos, k)
                           /\ links'[k] = Nenhum <=> links[k] = Nenhum
      BY <1>0, <2>3, <2>6
    <3>2. /\ PesoDoc(pagamentos, links', vencidos') = PesoDoc(pagamentos, links, vencidos)
          /\ PesoLink(pagamentos, links', vencidos') = PesoLink(pagamentos, links, vencidos)
      <4>1. \A k : Fora(links', vencidos', k) <=> Fora(links, vencidos, k)
        BY <3>1 DEF Fora
      <4>2. \A d \in Docs : PesoDoDoc(pagamentos[d], links', vencidos')
                              = PesoDoDoc(pagamentos[d], links, vencidos)
        BY <4>1 DEF PesoDoDoc
      <4>3. \A k \in Links : PesoDoLink(pagamentos, links', vencidos', k)
                               = PesoDoLink(pagamentos, links, vencidos, k)
        BY <3>1 DEF PesoDoLink
      <4>4. QED
        BY <4>2, <4>3 DEF PesoDoc, PesoLink
    <3>3. QED
      BY <2>2, <3>2 DEF Peso
  <2>7. QED
    BY <2>4, <2>5, <2>6
<1>2. QED
  BY <1>0, <1>1, ExpostoLeve

(* A mark is on an open link, or changes nothing.                          *)
LEMMA ExpostoMarca ==
  ASSUME TipoInv, Exposto, NEW l \in Guardados, NEW status \in {"concluido", "cancelado"},
         NEW erro \in BOOLEAN, marcarLinkTerminal(l, status, erro) \/ UNCHANGED links,
         UNCHANGED <<provedor, pagamentos, pedido, surpresa, vencidos>>
  PROVE  Exposto'
<1>1. CASE marcarLinkTerminal(l, status, erro)
  <2>1. status \in StatusLinkPagamento /\ status # "aberto" /\ l \in Links
    BY DEF StatusLinkPagamento, Guardados
  <2>2. /\ \A k \in Links : (links'[k] = Nenhum) <=> (links[k] = Nenhum)
        /\ \A k \in Links : k # l => links'[k] = links[k]
        /\ IF links[l].status = "aberto"
             THEN links'[l].status = status /\ links'[l].erro = erro
             ELSE links'[l] = links[l]
    BY <1>1, <2>1, MarcarEfeito DEF TipoInv
  <2>3. links'[l] # Nenhum /\ ~Ativo(links', vencidos', l)
    BY <2>1, <2>2 DEF Guardados, Ativo
  <2>4. QED
    BY <2>2, <2>3, ExpostoFecha DEF MesmoValor
<1>2. CASE UNCHANGED links
  <2>1. links'[l] # Nenhum
    BY <1>2 DEF Guardados
  <2>2. QED
    BY <1>2, <2>1, ExpostoFecha DEF MesmoValor
<1>3. QED
  BY <1>1, <1>2

(* The rule is checked in the transaction that stores the batch.           *)
LEMMA ExpostoLote ==
  ASSUME TipoInv, Ligacao, Exposto, NEW r \in Requisicoes, GravarLinks(r),
         UNCHANGED <<provedor, pagamentos, surpresa, vencidos>>
  PROVE  Exposto'
<1> SUFFICES ASSUME ~surpresa
             PROVE  /\ Certos(pagamentos) /\ Cabem(pagamentos) /\ FimDosDocs'
                    /\ pedido'.devolvido + Peso(pagamentos, links', vencidos) <= pedido'.total
  BY DEF Exposto
<1>1. /\ Certos(pagamentos) /\ Cabem(pagamentos) /\ FimDosDocs
  BY DEF Exposto
<1>2. FimDosDocs'
  BY <1>1, DocsFicam DEF ProvedorFica
<1>3. /\ pagamentos \in Documentos /\ pedido \in Pedido
      /\ Lote[r] \in SUBSET Links /\ Lote[r] # {}
  <2>1. pagamentos \in Documentos /\ pedido \in Pedido
    BY DEF TipoInv, TypeOK, TypeOKPagamento, Documentos
  <2>2. Lote[r] \in (SUBSET Links) \ {{}}
    BY LinkAssumption
  <2>3. QED
    BY <2>1, <2>2
<1>4. /\ MesmoValor /\ Lote[r] \cap Guardados = {}
      /\ \A l \in Links \ Lote[r] : links'[l] = links[l]
  BY GravarEfeito DEF TipoInv, MesmoValor
<1>5. \A l \in Lote[r] : links[l] = Nenhum
  BY <1>3, <1>4 DEF Guardados
<1>6. \A d \in Docs : pagamentos[d] # Nenhum => pagamentos[d].link \notin Lote[r]
  BY <1>3, <1>4, CoberturaAssumption DEF Ligacao
<1> DEFINE novo == Soma(Lote[r], [l \in Lote[r] |-> ValorLink[l] * Cota[l]])
           antes == Peso(pagamentos, links, vencidos)
           depois == Peso(pagamentos, links', vencidos)
<1>7. depois <= antes + novo
  BY <1>1, <1>3, <1>4, <1>5, <1>6, PesoLote
<1>8. pedido.devolvido + antes + novo <= pedido.total
  BY <1>1, <1>3, LoteCabe DEF GravarLinks, Elegivel
<1>9. /\ antes \in Nat /\ depois \in Nat /\ novo \in Nat
      /\ pedido.devolvido \in Nat /\ pedido.total \in Nat
  BY <1>1, <1>3, PesoTipo, LoteTipo DEF Pedido
<1> HIDE DEF novo, antes, depois
<1>10. pedido.devolvido + depois <= pedido.total
  BY <1>7, <1>8, <1>9
<1>11. QED
  BY <1>1, <1>2, <1>4, <1>10 DEF MesmoValor, depois

(* What a delivery finds where it writes, when it says a payment lives: a  *)
(* payment that already counted, or a link that announced it.              *)
LEMMA EntregaAnunciada ==
  ASSUME TipoInv, Espelho, Ligacao, Exposto, ~surpresa,
         NEW p \in Pagamentos, NEW copia \in CopiaDoProvedor,
         provedor[p] \in CopiaDoProvedor, copia.relogio <= provedor[p].relogio,
         ~Obsoleta(p, copia), ~Terminal(copia.status),
         ~(/\ pagamentos[alvo(p)] = Nenhum \/ pagamentos[alvo(p)].link = Nenhum
           /\ LinkDo[p] = Nenhum \/ ~Anunciado(links, vencidos, LinkDo[p]))
  PROVE  /\ LinkDo[p] # Nenhum
         /\ \/ /\ pagamentos[alvo(p)] # Nenhum /\ pagamentos[alvo(p)].link = LinkDo[p]
               /\ EmTransitoOuPagante(pagamentos[alvo(p)].status)
            \/ /\ Ativo(links, vencidos, LinkDo[p])
               /\ Cardinality(Vivos(pagamentos, LinkDo[p])) < Cota[LinkDo[p]]
<1>1. PICK a \in DocumentosDe(p) : a = alvo(p)
  BY AlvoDocumento DEF TipoInv
<1>2. a \in Docs /\ Certos(pagamentos) /\ FimDoDoc(p, a)
  BY <1>1, PagamentoAssumption DEF DocumentosDe, Exposto, FimDosDocs
<1>3. CASE pagamentos[a] # Nenhum /\ pagamentos[a].link # Nenhum
  <2>1. pagamentos[a].link = LinkDo[p]
    BY <1>3 DEF Ligacao
  <2>2. pagamentos[a].relogio # Nenhum /\ pagamentos[a] \in Pagamento
    BY <1>2, <1>3 DEF Certos, DocCerto, TipoInv, TypeOK, TypeOKPagamento
  <2>3. /\ pagamentos[a].relogio \in Nat /\ copia.relogio \in Nat /\ provedor[p].relogio \in Nat
        /\ pagamentos[a].status \in StatusPagamento \cup {Nenhum}
    BY <2>2 DEF Pagamento, CopiaDoProvedor
  <2>4. pagamentos[a].relogio < copia.relogio
    BY <1>1, <1>3, <2>2, <2>3 DEF Obsoleta
  <2>5. ~Terminal(pagamentos[a].status)
    BY <1>2, <1>3, <2>2, <2>3, <2>4 DEF FimDoDoc
  <2>6. EmTransitoOuPagante(pagamentos[a].status)
    BY <2>3, <2>5 DEF EmTransitoOuPagante, isPagamentoPagante, Terminal, STATUS_EM_TRANSITO,
                      StatusPagamento
  <2>7. QED
    BY <1>1, <1>3, <2>1, <2>6
<1>4. CASE LinkDo[p] # Nenhum /\ Anunciado(links, vencidos, LinkDo[p])
  <2>1. Ativo(links, vencidos, LinkDo[p])
    BY <1>4 DEF Anunciado, linksEmAberto, Ativo
  <2>2. Cardinality(Vivos(pagamentos, LinkDo[p])) < Cota[LinkDo[p]]
    BY <1>4 DEF Anunciado, Vivos, EmTransitoOuPagante
  <2>3. QED
    BY <1>4, <2>1, <2>2
<1>5. QED
  BY <1>1, <1>3, <1>4

(* What is written of a payment is what a document of the provider is.     *)
LEMMA EscritoCerto ==
  ASSUME TypeOK, Ligacao, NEW p \in Pagamentos, NEW copia \in CopiaDoProvedor
  PROVE  DocCerto(Escrito(p, copia))
<1>1. Escrito(p, copia).link = LinkDo[p]
  BY EscritoLink
<1>2. /\ Escrito(p, copia).relogio = copia.relogio
      /\ Escrito(p, copia).status = copia.status
      /\ Escrito(p, copia).valor = ValorRetido(p, copia.status)
  BY EscritoCampos
<1>3. Escrito(p, copia).creditoLoja = FALSE
  BY DEF Escrito
<1>4. copia.relogio # Nenhum /\ copia.status \in StatusPagamento
  BY CoberturaAssumption DEF CopiaDoProvedor
<1>5. EmTransitoOuPagante(copia.status) => ValorRetido(p, copia.status) = Valor[p]
  BY <1>4, CoberturaAssumption
     DEF EmTransitoOuPagante, isPagamentoPagante, ValorRetido, STATUS_EM_TRANSITO, StatusPagamento
<1>6. LinkDo[p] # Nenhum => Valor[p] = ValorLink[LinkDo[p]]
  BY LinkAssumption
<1>7. QED
  BY <1>1, <1>2, <1>3, <1>4, <1>5, <1>6 DEF DocCerto

(* A delivery is written.                                                  *)
LEMMA ExpostoGrava ==
  ASSUME TipoInv, Espelho, Ligacao, FimDasCopias, Exposto, NEW t \in Tarefas,
         reconcilePedidoFromPagamento(t, links, vencidos), UNCHANGED <<links, vencidos>>,
         reconcileGrava(t, tarefas[t].pagamento, tarefas[t].copia)
  PROVE  Exposto'
<1> DEFINE p == tarefas[t].pagamento
           copia == tarefas[t].copia
           novo == Escrito(p, copia)
<1> SUFFICES ASSUME ~surpresa'
             PROVE  /\ Certos(pagamentos') /\ Cabem(pagamentos') /\ FimDosDocs'
                    /\ pedido'.devolvido + Peso(pagamentos', links', vencidos') <= pedido'.total
  BY DEF Exposto
<1>1. /\ tarefas[t].fase = "buscou" /\ p \in Pagamentos /\ copia \in CopiaDoProvedor
      /\ UNCHANGED provedor
  BY ReconcileEfeito
<1>2. /\ provedor[p] \in CopiaDoProvedor /\ provedor[p] # Nenhum
      /\ copia.relogio <= provedor[p].relogio
      /\ Terminal(copia.status) => copia = provedor[p]
  BY <1>1, PagamentoAssumption
     DEF TipoInv, TypeOK, TypeOKPagamento, EmMaos, Espelho, CopiaFresca, FimDasCopias
<1>3. /\ ~Obsoleta(p, copia) /\ pagamentos' = [pagamentos EXCEPT ![alvo(p)] = novo]
      /\ pedido' = applyEstadoTransition(pedido, SomaDe(p, copia))
  BY DEF reconcileGrava
<1>4. /\ ~surpresa
      /\ ~Terminal(copia.status) =>
           ~(/\ pagamentos[alvo(p)] = Nenhum \/ pagamentos[alvo(p)].link = Nenhum
             /\ LinkDo[p] = Nenhum \/ ~Anunciado(links, vencidos, LinkDo[p]))
  BY <1>3 DEF reconcilePedidoFromPagamento, Terminal
<1>5. /\ Certos(pagamentos) /\ Cabem(pagamentos) /\ FimDosDocs
      /\ pedido.devolvido + Peso(pagamentos, links, vencidos) <= pedido.total
  BY <1>4 DEF Exposto
<1>6. PICK a \in DocumentosDe(p) : a = alvo(p)
  BY <1>1, AlvoDocumento DEF TipoInv
<1>7. /\ novo \in Pagamento /\ novo # Nenhum /\ DocCerto(novo)
      /\ novo.link = LinkDo[p] /\ novo.status = copia.status /\ novo.relogio = copia.relogio
  BY <1>1, EscritoTipo, EscritoCerto, EscritoLink, EscritoCampos, CoberturaAssumption DEF TipoInv
<1>8. /\ a \in Docs /\ pagamentos \in Documentos /\ pagamentos' \in Documentos
      /\ pagamentos'[a] = novo /\ \A d \in Docs \ {a} : pagamentos'[d] = pagamentos[d]
  BY <1>1, <1>3, <1>6, <1>7, PagamentoAssumption
     DEF DocumentosDe, TipoInv, TypeOK, TypeOKPagamento, Documentos
<1> HIDE DEF p, copia, novo
<1>9. FimDosDocs'
  <2>1. ASSUME NEW q \in Pagamentos, NEW d \in DocumentosDe(q), d # a
        PROVE  FimDoDoc(q, d)'
    <3>1. d \in Docs
      BY PagamentoAssumption DEF DocumentosDe
    <3>2. FimDoDoc(q, d) /\ pagamentos'[d] = pagamentos[d]
      BY <1>5, <1>8, <2>1, <3>1 DEF FimDosDocs
    <3>3. QED
      BY <1>1, <3>2 DEF FimDoDoc
  <2>2. ASSUME NEW q \in Pagamentos, a \in DocumentosDe(q)
        PROVE  FimDoDoc(q, a)'
    <3>1. q = p
      BY <1>1, <1>6, <2>2, DocumentosTipo
    <3>2. QED
      BY <1>1, <1>2, <1>7, <1>8, <3>1 DEF FimDoDoc
  <2>3. \A q \in Pagamentos : \A d \in DocumentosDe(q) : FimDoDoc(q, d)'
    BY <2>1, <2>2
  <2>4. QED
    BY <2>3 DEF FimDosDocs, DocumentosDe
<1>10. EmTransitoOuPagante(copia.status) => ~Terminal(copia.status)
  BY CoberturaAssumption
     DEF EmTransitoOuPagante, isPagamentoPagante, Terminal, STATUS_EM_TRANSITO, StatusPagamento
<1>11. EmTransitoOuPagante(pagamentos'[a].status) =>
         /\ pagamentos'[a].link # Nenhum
         /\ \/ /\ pagamentos[a] # Nenhum /\ pagamentos[a].link = pagamentos'[a].link
               /\ EmTransitoOuPagante(pagamentos[a].status)
            \/ /\ Ativo(links, vencidos, pagamentos'[a].link)
               /\ Cardinality(Vivos(pagamentos, pagamentos'[a].link))
                    < Cota[pagamentos'[a].link]
  BY <1>1, <1>2, <1>3, <1>4, <1>6, <1>7, <1>8, <1>10, EntregaAnunciada
<1>12. /\ pagamentos'[a].link # Nenhum => links[pagamentos'[a].link] # Nenhum
       /\ pagamentos[a] # Nenhum => pagamentos[a].link \in {Nenhum, pagamentos'[a].link}
  BY <1>1, <1>2, <1>6, <1>7, <1>8 DEF Ligacao, Guardados
<1>13. /\ Certos(pagamentos') /\ Cabem(pagamentos')
       /\ Peso(pagamentos', links, vencidos) <= Peso(pagamentos, links, vencidos)
  BY <1>5, <1>7, <1>8, <1>11, <1>12, PesoEscrita
<1>14. /\ Peso(pagamentos', links, vencidos) \in Nat /\ Peso(pagamentos, links, vencidos) \in Nat
  BY <1>5, <1>8, <1>13, PesoTipo
<1>15. /\ pedido \in Pedido /\ pedido.total \in Nat /\ pedido.devolvido \in Nat
       /\ pedido'.total = pedido.total /\ pedido'.devolvido = pedido.devolvido
  BY <1>3 DEF TipoInv, TypeOK, TypeOKPagamento, Pedido, applyEstadoTransition
<1>16. pedido.devolvido + Peso(pagamentos', links, vencidos) <= pedido.total
  BY <1>5, <1>13, <1>14, <1>15
<1>17. QED
  BY <1>9, <1>13, <1>15, <1>16

(* The program starts with what its documents weigh, or with a surprise.   *)
LEMMA InicioExposto ==
  ASSUME Init
  PROVE  FimDasCopias /\ Exposto
<1>1. /\ \A d \in Docs : pagamentos[d] # Nenhum =>
           pagamentos[d].relogio = Nenhum /\ pagamentos[d].link = Nenhum
      /\ \A t \in Tarefas : tarefas[t] = Livre
  BY InicioDocumentos
<1>2. FimDasCopias
  BY <1>1 DEF FimDasCopias, Livre
<1>3. \A d \in Docs : pagamentos[d] # Nenhum => ~pagamentos[d].creditoLoja
  BY DEF Init, InitPagamento, DocLegado
<1>4. Certos(pagamentos)
  BY <1>1, <1>3 DEF Certos, DocCerto
<1>5. Cabem(pagamentos)
  <2>1. \A l \in Links : Vivos(pagamentos, l) = {}
    BY <1>1, CoberturaAssumption DEF Vivos
  <2>2. QED
    BY <2>1, FS_EmptySet, CoberturaAssumption DEF Cabem
<1>6. FimDosDocs
  BY <1>1, PagamentoAssumption DEF FimDosDocs, FimDoDoc, DocumentosDe
<1>7. pagamentos \in Documentos /\ pedido \in Pedido
  BY InicioTipo DEF TipoInv, TypeOK, TypeOKPagamento, Documentos
<1>8. /\ Exposicao(pedido, links, pagamentos, vencidos)
           = pedido.devolvido + Peso(pagamentos, links, vencidos)
      /\ Peso(pagamentos, links, vencidos) \in Nat /\ pedido.total \in Nat /\ pedido.devolvido \in Nat
  BY <1>4, <1>5, <1>7, ExposicaoConta, PesoTipo DEF Pedido
<1>9. surpresa = (Exposicao(pedido, links, pagamentos, vencidos) > pedido.total)
  BY DEF Init
<1>10. ~surpresa => pedido.devolvido + Peso(pagamentos, links, vencidos) <= pedido.total
  <2>1. ~surpresa => ~(Exposicao(pedido, links, pagamentos, vencidos) > pedido.total)
    BY <1>9, Zenon
  <2>2. QED
    BY <1>8, <2>1
<1>11. QED
  BY <1>2, <1>4, <1>5, <1>6, <1>10 DEF Exposto

(* No step but a surprise adds weight.                                     *)
LEMMA ExpostoPasso ==
  ASSUME TipoInv, Espelho, Ligacao, FimDasCopias, Exposto, [Next]_vars
  PROVE  FimDasCopias' /\ Exposto'
<1>1. ASSUME NEW p \in Pagamentos, PagarLink(p)
      PROVE  FimDasCopias' /\ Exposto'
  <2>1. /\ provedor[p] = Nenhum /\ Notificar(p)
        /\ \E c \in CopiaDoProvedor : provedor' = [provedor EXCEPT ![p] = c]
        /\ UNCHANGED <<pagamentos, pedido, surpresa, links, vencidos>>
    BY TipoInv, <1>1, PagarEfeito DEF TipoInv, varsLink
  <2>2. QED
    BY TipoInv, FimDasCopias, Exposto, <2>1, NotificarExposto
<1>2. ASSUME NEW p \in Pagamentos, ProvedorMuda(p), UNCHANGED varsLink
      PROVE  FimDasCopias' /\ Exposto'
  <2>1. /\ Notificar(p)
        /\ \E c \in CopiaDoProvedor : provedor' = [provedor EXCEPT ![p] = c]
        /\ UNCHANGED <<pagamentos, pedido, surpresa, links, vencidos>>
    BY TipoInv, <1>2, ProvedorEfeito DEF TipoInv, varsLink
  <2>2. \E status : status \in ProximosStatus(provedor[p].status)
    BY <1>2 DEF ProvedorMuda
  <2>3. ~Terminal(provedor[p].status)
    BY <2>2 DEF ProximosStatus, Terminal
  <2>4. QED
    BY TipoInv, FimDasCopias, Exposto, <2>1, <2>3, NotificarExposto
<1>3. ASSUME NEW p \in Pagamentos, Reentregar(p), UNCHANGED varsLink
      PROVE  FimDasCopias' /\ Exposto'
  <2>1. SemBuscaNova
    BY TipoInv, <1>3, NotificarSemBusca DEF TipoInv, Reentregar
  <2>2. ProvedorFica /\ MesmoValor /\ UNCHANGED <<pagamentos, links, vencidos, surpresa>>
    BY <1>3 DEF Reentregar, ProvedorFica, MesmoValor, varsLink
  <2>3. QED
    BY TipoInv, FimDasCopias, Exposto, <2>1, <2>2, ExpostoTarefa
<1>4. ASSUME NEW t \in Tarefas, fetchPayment(t), UNCHANGED varsLink
      PROVE  FimDasCopias' /\ Exposto'
  <2>1. PICK x \in Tarefa :
          /\ tarefas' = [tarefas EXCEPT ![t] = x]
          /\ x.fase = "buscou" /\ x.pagamento = tarefas[t].pagamento
          /\ x.copia = provedor[tarefas[t].pagamento]
    BY TipoInv, <1>4, TarefaEfeito
  <2>2. /\ UNCHANGED <<provedor, pagamentos, links, vencidos, surpresa>>
        /\ ProvedorFica /\ MesmoValor
    BY <1>4 DEF fetchPayment, varsLink, ProvedorFica, MesmoValor
  <2>3. tarefas'[t] = x /\ \A u \in Tarefas : u # t => tarefas'[u] = tarefas[u]
    BY TipoInv, <2>1 DEF TipoInv, TypeOK, TypeOKPagamento
  <2>4. FimDasCopias'
    BY FimDasCopias, <2>1, <2>2, <2>3 DEF FimDasCopias
  <2>5. ~surpresa => Peso(pagamentos, links, vencidos) \in Nat
    BY TipoInv, Exposto, PesoTipo DEF Exposto, TipoInv, TypeOK, TypeOKPagamento, Documentos
  <2>6. Exposto'
    <3>1. ~surpresa' => /\ Peso(pagamentos, links', vencidos') \in Nat
                        /\ Peso(pagamentos, links', vencidos') <= Peso(pagamentos, links, vencidos)
      BY <2>2, <2>5
    <3>2. QED
      BY TipoInv, Exposto, <2>2, <3>1, ExpostoLeve
  <2>7. QED
    BY <2>4, <2>6
<1>5. ASSUME NEW t \in Tarefas, reconcilePedidoFromPagamento(t, links, vencidos), UNCHANGED varsLink
      PROVE  FimDasCopias' /\ Exposto'
  <2> DEFINE p == tarefas[t].pagamento
             copia == tarefas[t].copia
  <2>1. /\ tarefas[t].fase = "buscou" /\ p \in Pagamentos /\ copia \in CopiaDoProvedor
        /\ reconcileObsoleta(t, p, copia) \/ reconcileGrava(t, p, copia)
        /\ UNCHANGED provedor
    BY TipoInv, <1>5, ReconcileEfeito
  <2>2. PICK docs : Encaminhar(t, p, docs)
    BY <2>1 DEF reconcileObsoleta, reconcileGrava
  <2>3. SemBuscaNova
    BY TipoInv, <2>1, <2>2, EncaminharEfeito, MudaSemBusca DEF TipoInv, Livre
  <2>4. UNCHANGED <<links, vencidos>> /\ ProvedorFica
    BY <1>5, <2>1 DEF varsLink, ProvedorFica
  <2>5. CASE reconcileObsoleta(t, p, copia)
    <3>1. UNCHANGED <<pagamentos, pedido, surpresa>>
      <4>1. Obsoleta(p, copia) /\ UNCHANGED <<pagamentos, pedido>>
        BY <2>5 DEF reconcileObsoleta
      <4>2. surpresa' = surpresa
        BY TipoInv, <1>5, <4>1 DEF reconcilePedidoFromPagamento, TipoInv, TypeOK, TypeOKPagamento
      <4>3. QED
        BY <4>1, <4>2
    <3>2. QED
      BY TipoInv, FimDasCopias, Exposto, <2>3, <2>4, <3>1, ExpostoTarefa DEF MesmoValor
  <2>6. CASE reconcileGrava(t, p, copia)
    <3>1. Exposto'
      BY TipoInv, Espelho, Ligacao, FimDasCopias, Exposto, <1>5, <2>4, <2>6, ExpostoGrava
    <3>2. QED
      BY TipoInv, FimDasCopias, <2>3, <2>4, <3>1, CopiasFicam
  <2>7. QED
    BY <2>1, <2>5, <2>6
<1>6. ASSUME NEW t \in Tarefas, encerrarLinkSeCompleto(t)
      PROVE  FimDasCopias' /\ Exposto'
  <2>1. SemBuscaNova
    BY TipoInv, <1>6, TarefaEfeito, MudaSemBusca DEF TipoInv, Livre
  <2>2. ProvedorFica /\ MesmoValor /\ UNCHANGED <<pagamentos, links, vencidos, surpresa>>
    BY <1>6 DEF encerrarLinkSeCompleto, PagamentoParado, DemaisLinks, ProvedorFica, MesmoValor
  <2>3. QED
    BY TipoInv, FimDasCopias, Exposto, <2>1, <2>2, ExpostoTarefa
<1>7. ASSUME NEW t \in Tarefas, ExpirarParaFechar(t)
      PROVE  FimDasCopias' /\ Exposto'
  <2>1. SemBuscaNova
    BY TipoInv, <1>7, TarefaEfeito, MudaSemBusca DEF TipoInv, Livre
  <2>2. ProvedorFica /\ MesmoValor /\ UNCHANGED <<pagamentos, links, vencidos, surpresa>>
    BY <1>7 DEF ExpirarParaFechar, PagamentoParado, DemaisLinks, ProvedorFica, MesmoValor
  <2>3. QED
    BY TipoInv, FimDasCopias, Exposto, <2>1, <2>2, ExpostoTarefa
<1>8. ASSUME NEW t \in Tarefas, MarcarConcluido(t)
      PROVE  FimDasCopias' /\ Exposto'
  <2>1. /\ tarefas[t].erro \in BOOLEAN /\ LinkDaTarefa(t) \in Guardados
        /\ marcarLinkTerminal(LinkDaTarefa(t), "concluido", tarefas[t].erro)
    BY TipoInv, <1>8, TarefaEfeito
  <2>2. SemBuscaNova
    BY TipoInv, <1>8, TarefaEfeito, MudaSemBusca DEF TipoInv, Livre, Tarefa
  <2>3. ProvedorFica /\ UNCHANGED <<provedor, pagamentos, pedido, surpresa, vencidos>>
    BY <1>8 DEF MarcarConcluido, PagamentoParado, DemaisLinks, ProvedorFica
  <2>4. QED
    BY TipoInv, FimDasCopias, Exposto, <2>1, <2>2, <2>3, ExpostoMarca, CopiasFicam
<1>9. ASSUME NEW t \in Tarefas, Falhar(t)
      PROVE  FimDasCopias' /\ Exposto'
  <2>1. SemBuscaNova
    BY TipoInv, <1>9, TarefaEfeito, MudaSemBusca DEF TipoInv, Livre
  <2>2. ProvedorFica /\ MesmoValor /\ UNCHANGED <<pagamentos, links, vencidos, surpresa>>
    BY <1>9 DEF Falhar, ProvedorFica, MesmoValor
  <2>3. QED
    BY TipoInv, FimDasCopias, Exposto, <2>1, <2>2, ExpostoTarefa
<1>10. ASSUME CriarPagamentos, UNCHANGED varsLink
      PROVE  FimDasCopias' /\ Exposto'
  BY FimDasCopias, <1>10, ExpostoSurpresa DEF CriarPagamentos, Registrar
<1>11. ASSUME NEW d \in Docs, savePagamento(d), UNCHANGED varsLink
      PROVE  FimDasCopias' /\ Exposto'
  BY FimDasCopias, <1>11, ExpostoSurpresa DEF savePagamento, Registrar
<1>12. ASSUME NEW d \in Docs, deletePagamento(d), UNCHANGED varsLink
      PROVE  FimDasCopias' /\ Exposto'
  BY FimDasCopias, <1>12, ExpostoSurpresa DEF deletePagamento, Registrar
<1>13. ASSUME AbrirEditor, UNCHANGED varsLink
      PROVE  FimDasCopias' /\ Exposto'
  BY TipoInv, FimDasCopias, Exposto, <1>13, ExpostoParado DEF AbrirEditor, varsLink, MesmoValor
<1>14. ASSUME savePedido, UNCHANGED varsLink
      PROVE  FimDasCopias' /\ Exposto'
  BY FimDasCopias, <1>14, ExpostoSurpresa DEF savePedido
<1>15. ASSUME MudarEstado, UNCHANGED varsLink
      PROVE  FimDasCopias' /\ Exposto'
  <2>1. MesmoValor
    BY TipoInv, <1>15 DEF MudarEstado, MesmoValor, TipoInv, TypeOK, TypeOKPagamento, Pedido
  <2>2. QED
    BY TipoInv, FimDasCopias, Exposto, <1>15, <2>1, ExpostoParado DEF MudarEstado, varsLink
<1>16. ASSUME Embalar, UNCHANGED varsLink
      PROVE  FimDasCopias' /\ Exposto'
  <2>1. MesmoValor
    BY TipoInv, <1>16 DEF Embalar, MesmoValor, TipoInv, TypeOK, TypeOKPagamento, Pedido
  <2>2. QED
    BY TipoInv, FimDasCopias, Exposto, <1>16, <2>1, ExpostoParado DEF Embalar, varsLink
<1>17. ASSUME NEW o \in {"pagamento", "total"}, reconcilePedidoEstado(o), UNCHANGED varsLink
      PROVE  FimDasCopias' /\ Exposto'
  <2>1. MesmoValor
    BY TipoInv, <1>17
       DEF reconcilePedidoEstado, applyEstadoTransition, MesmoValor, TipoInv, TypeOK,
           TypeOKPagamento, Pedido
  <2>2. QED
    BY TipoInv, FimDasCopias, Exposto, <1>17, <2>1, ExpostoParado DEF reconcilePedidoEstado, varsLink
<1>18. ASSUME NEW o \in {"pagamento", "total"}, PerderChamada(o), UNCHANGED varsLink
      PROVE  FimDasCopias' /\ Exposto'
  BY TipoInv, FimDasCopias, Exposto, <1>18, ExpostoParado DEF PerderChamada, varsLink, MesmoValor
<1>19. ASSUME NEW r \in Requisicoes, criarLinks(r)
      PROVE  FimDasCopias' /\ Exposto'
  BY TipoInv, FimDasCopias, Exposto, <1>19, ExpostoParado DEF criarLinks, MesmoValor
<1>20. ASSUME NEW r \in Requisicoes, createPreference(r)
      PROVE  FimDasCopias' /\ Exposto'
  BY TipoInv, FimDasCopias, Exposto, <1>20, ExpostoParado DEF createPreference, PagamentoParado, CriacaoSo, MesmoValor
<1>21. ASSUME NEW r \in Requisicoes, createPreferenceFalha(r)
      PROVE  FimDasCopias' /\ Exposto'
  BY TipoInv, FimDasCopias, Exposto, <1>21, ExpostoParado DEF createPreferenceFalha, PagamentoParado, CriacaoSo,
     MesmoValor
<1>22. ASSUME NEW r \in Requisicoes, persistirLinks(r)
      PROVE  FimDasCopias' /\ Exposto'
  <2>1. /\ GravarLinks(r) \/ UNCHANGED <<links, pedido>>
        /\ UNCHANGED <<provedor, tarefas, pagamentos, surpresa, vencidos>>
    BY <1>22 DEF persistirLinks
  <2>2. CASE GravarLinks(r)
    <3>1. Exposto'
      BY TipoInv, Ligacao, Exposto, <2>1, <2>2, ExpostoLote
    <3>2. QED
      BY FimDasCopias, <2>1, <3>1 DEF FimDasCopias
  <2>3. CASE UNCHANGED <<links, pedido>>
    BY TipoInv, FimDasCopias, Exposto, <2>1, <2>3, ExpostoParado DEF MesmoValor
  <2>4. QED
    BY <2>1, <2>2, <2>3
<1>23. ASSUME NEW r \in Requisicoes, lerLinksSolicitados(r)
      PROVE  FimDasCopias' /\ Exposto'
  BY TipoInv, FimDasCopias, Exposto, <1>23, ExpostoParado DEF lerLinksSolicitados, PagamentoParado, CriacaoSo,
     MesmoValor
<1>24. ASSUME NEW r \in Requisicoes, expirarPreferencias(r)
      PROVE  FimDasCopias' /\ Exposto'
  BY TipoInv, FimDasCopias, Exposto, <1>24, ExpostoParado DEF expirarPreferencias, PagamentoParado, CriacaoSo,
     MesmoValor
<1>25. ASSUME NEW r \in Requisicoes, MorrerCriacao(r)
      PROVE  FimDasCopias' /\ Exposto'
  BY TipoInv, FimDasCopias, Exposto, <1>25, ExpostoParado DEF MorrerCriacao, PagamentoParado, CriacaoSo, MesmoValor
<1>26. ASSUME NEW l \in Links, cancelarLink(l)
      PROVE  FimDasCopias' /\ Exposto'
  BY TipoInv, FimDasCopias, Exposto, <1>26, ExpostoParado DEF cancelarLink, MesmoValor
<1>27. ASSUME NEW l \in Links, ExpirarParaCancelar(l)
      PROVE  FimDasCopias' /\ Exposto'
  BY TipoInv, FimDasCopias, Exposto, <1>27, ExpostoParado DEF ExpirarParaCancelar, PagamentoParado,
     CancelamentoSo, MesmoValor
<1>28. ASSUME NEW l \in Links, MarcarCancelado(l)
      PROVE  FimDasCopias' /\ Exposto'
  <2>1. /\ l \in Guardados
        /\ marcarLinkTerminal(l, "cancelado", FALSE) \/ UNCHANGED links
        /\ UNCHANGED <<provedor, tarefas, pagamentos, pedido, surpresa, vencidos>>
    BY TipoInv, <1>28 DEF MarcarCancelado, CancelamentoSo, PagamentoParado, TipoInv, EmMaos
  <2>2. Exposto'
    BY TipoInv, Exposto, <2>1, ExpostoMarca
  <2>3. QED
    BY FimDasCopias, <2>1, <2>2 DEF FimDasCopias
<1>29. ASSUME NEW l \in Links, Vencer(l)
      PROVE  FimDasCopias' /\ Exposto'
  <2>1. /\ l \in Guardados /\ vencidos' = vencidos \cup {l}
        /\ UNCHANGED <<provedor, tarefas, pagamentos, pedido, surpresa, links>>
    BY <1>29 DEF Vencer
  <2>2. /\ links'[l] # Nenhum /\ ~Ativo(links', vencidos', l) /\ MesmoValor
        /\ \A k \in Links \ {l} : /\ links'[k] = links[k]
                                    /\ k \in vencidos' <=> k \in vencidos
    BY <2>1 DEF Guardados, Ativo, MesmoValor
  <2>3. Exposto'
    BY TipoInv, Exposto, <2>1, <2>2, ExpostoFecha
  <2>4. QED
    BY FimDasCopias, <2>1, <2>3 DEF FimDasCopias
<1>30. ASSUME UNCHANGED vars
      PROVE  FimDasCopias' /\ Exposto'
  BY TipoInv, FimDasCopias, Exposto, <1>30, ExpostoParado DEF vars, varsLink, varsPagamento, MesmoValor
<1>31. QED
  BY <1>1, <1>2, <1>3, <1>4, <1>5, <1>6, <1>7, <1>8, <1>9, <1>10, <1>11, <1>12, <1>13,
     <1>14, <1>15, <1>16, <1>17, <1>18, <1>19, <1>20, <1>21, <1>22, <1>23, <1>24, <1>25,
     <1>26, <1>27, <1>28, <1>29, <1>30 DEF Next, Notificacao, Operador, Criar

-----------------------------------------------------------------------------
(* The theorem.                                                            *)

THEOREM InvarianteExposto == Spec => []InvExposto
<1>1. Init => FimDasCopias /\ Exposto
  BY InicioExposto
<1>2. Inv /\ FimDasCopias /\ Exposto /\ [Next]_vars => FimDasCopias' /\ Exposto'
  BY ExpostoPasso DEF Inv
<1>3. InvExposto <=> Inv /\ FimDasCopias /\ Exposto
  BY DEF InvExposto
<1>4. QED
  BY <1>1, <1>2, <1>3, Invariante, PTL DEF Spec

(* What is settled, what open links may bring in and what is on its way    *)
(* through closed ones never exceed the total, for any pedido, any links   *)
(* and quotas, and any crossing of requests, deliveries, closes,           *)
(* cancellations and deadlines, unless money moved that no link had        *)
(* announced (avaliarElegibilidade inside persistirLinks).                 *)
THEOREM LinksCabem == Spec => []ExposicaoCabe
<1>1. InvExposto => ExposicaoCabe
  <2> SUFFICES ASSUME InvExposto, ~surpresa
               PROVE  Exposicao(pedido, links, pagamentos, vencidos) <= pedido.total
    BY DEF ExposicaoCabe
  <2>1. /\ Certos(pagamentos) /\ Cabem(pagamentos)
        /\ pedido.devolvido + Peso(pagamentos, links, vencidos) <= pedido.total
    BY DEF InvExposto, Exposto
  <2>2. pagamentos \in Documentos /\ pedido \in Pedido
    BY DEF InvExposto, Inv, TipoInv, TypeOK, TypeOKPagamento, Documentos
  <2>3. QED
    BY <2>1, <2>2, ExposicaoConta
<1>2. QED
  BY <1>1, InvarianteExposto, PTL

=============================================================================
