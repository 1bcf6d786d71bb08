# TLA+ models of the Delfrance ERP

Specifications, model-checking instances and machine-checked proofs kept beside
the code of this repository. They cover the parts where several actors change
one document and nothing serialises them but Firestore transactions: stock,
stock counts, marketplace disputes, freight labels, payments and payment links.

- [How the system works](#the-system) and its [components](#components)
- [Modules](#modules), then each model: [estoque](#1-pedido---estoque),
  [balanço](#2-balanço), [dispute overlay](#3-dispute-overlay),
  [label purchase](#4-label-purchase), [payments](#5-payments-and-payment-links)
- [Runs](#runs), [bounds](#bounds), [fairness](#fairness),
  [disagreements found](#disagreements-found)
- [Proofs](#proofs)
- [Not modelled](#not-modelled-and-not-checked) and the [plan](#plan)

To check everything, for each module with its configuration and each proof
module:

    tlc -config EstoqueVida.cfg MCEstoquePedido
    tlapm EstoquePedidoProofs.tla

## The system

The repository is an ERP for a Brazilian retailer: one Next.js application per
persona or sales channel (`apps/`), shared schemas (`packages/schemas`), shared
data access (`packages/data`), and background functions (`apps/functions`). All
state is in Firestore. There is no long-running server; what runs is

- a browser or a route handler that reads documents, thinks (dialogs, network
  calls), and commits a transaction or a blind update;
- a trigger, started by the platform some time after a document was written, at
  least once and in no order. The two triggers modelled here configure no retry:
  a handler that throws loses its event;
- a task of a Cloud Tasks queue, retried a bounded number of times;
- a callable, which may die between any two of its calls.

So a step of these models is what is atomic in Firestore: a transaction, a
single write, or a read that is used later. Everything between two such steps
may interleave with everybody else. ADR 0011 (write-path concurrency) describes
the ladder of techniques the code uses, and most properties below say that a
handler is on the right rung of it.

### Components

| Component | State | Operations | What is hard | What makes it correct |
|---|---|---|---|---|
| Pedido → estoque sync (`apps/functions/src/estoques/sincronizarEstoquePedido.ts`, `packages/data/src/pedido/estoquePlan.ts`) | `estoqueAplicado` and two legacy markers of a pedido; two counters and a ledger per estoque | trigger on every pedido write, resync callable, reversal of a deleted pedido, legacy reconstruction | events late, twice, lost; config edited with no trigger; two pedidos over one estoque | every effect once; the ledger sums to the counters; out of step only while an event is due |
| Manual movements (`aplicarEstoque.ts`) | the same counters and ledger | entrada, saída, balanço of one produto | read-free increments beside transactional sets | the ledger stays summable |
| Balanço finalize (`aplicarBalanco.ts`, `finalizePlan.ts`) | workflow state, frozen report shards, checkpoint, marker rows | lock, enqueue, freeze, apply by chunk, advance, pause, finish, park, retry | death at every step, retries, sales meanwhile, late counts | each produto set once; report explains ledger; checkpoint never ahead; always somebody to go on |
| Dispute overlay (`sincronizarBloqueioIncidente.ts`, `claims/*`, `liberarBloqueioIncidente.ts`) | incidentes with a provider watermark; three markers on the pedido | claim import, trigger fold, release, edit, delete | overlapping imports, equal or missing clocks, a fast path that may skip too much | markers are the fold; no claim goes back in time; the hold follows the marketplace |
| Checkout and delivery (`saveCheckout.ts`, `confirmarEntregaPedido`) | checkouts, pedido estado and frete | gates, phase 1, phase 2, confirm delivery | gates read long before the commit | nothing leaves in dispute; frete never goes back |
| Payment reconciliation (`pedidoReconcile.ts`, `apps/mercado-pago`) | payments of a pedido, its estado and freight | provider deliveries, operators' payments, total moved, transition | deliveries out of order, together, twice; documents of the former program; calls that never arrive | one document per payment, as fresh as the provider; the estado follows the sum |
| Payment links (`apps/mercado-pago/lib/payments/links`, `linkPagamento.ts`) | links of a pedido, one provider preference each | create, close on quota, cancel, expire | unknown commits, twin requests, a close that dies half way, money on the way through ended links | an open link can be paid, a closed one cannot, and together they never charge more than the pedido |
| NF-e emission (`apps/nfe`) | nota, number counter, send reservation | allocate, sign, send, consult | crash between number and answer | one nota, sent once |
| Freight labels (`apps/melhor-envio/lib/freight`) | purchase claim, anchor and state of the freight | acquire, cart, anchor, fence, paid calls, finalize, release; webhook task; repoint, choose the state, confirm, check out | stall past the lease, clocks that differ, lost answers, frozen CPU; webhook and operator beside it | a label paid once; the state they write is that of the anchored label, and no terminal one is taken back |
| Kit roll-ups, produto triggers | derived fields of kits | paged fan-out | superseded values, concurrent writers | newest values last |
| Access operations | one active operation with phases | apply page, watchdog | duplicate delivery | one runner, always finished |
| Notification pipeline | stored deliveries and lanes | task, sweep, park, defer | caps, retries against sweeps | each handled or visibly parked |
| Cascades, arquivos, OAuth state, read cache | subtrees, files, one-shot records, TTL entries | delete, sweep, redeem, load | triggers under a parent being deleted; grace windows | no orphan, no loss, one redeem |
| Channels (Mercado Livre, Shopee, Amazon, Loja Integrada), WhatsApp, web UI | provider mirrors | imports, pushes, screens | provider protocols | out of these models |

How they interact: a channel's importer or an editor writes a pedido; the write
starts the stock trigger. A balanço and a manual movement write the same estoque
documents, the balanço in its own transactions. A claim import writes an
incidente; that write starts the marker trigger; the checkout and the delivery
confirmation read the markers, in their transactions. Stock ledgers are read by
the channels' stock sweeps (ADR 0014), which is why they must be summable.

`PROJECT.json` lists every component with its status, and every hazard with its
line and the properties that would catch it.

## Modules

| Module | What it is |
|---|---|
| `EstoquePlano` | the pure half of the sync: desired effect, kit expansion, diff, legacy detection |
| `EstoquePedido` | the trigger, its events, its handlers and everyone who writes beside it |
| `MCEstoquePedido`, `MCEstornoParcial` | instances for TLC; the second adds a history variable for one claim |
| `EstoquePedidoProofs`, `EstoqueSincProofs` | theorems about `EstoquePedido`: types, effects and ledger; reservations, convergence and echo |
| `SomaFinita`, `SomaFinitaProofs` | sums over a finite set by counting, and what is proved of them; shared by the models that sum |
| `Balanco`, `MCBalanco`, `BalancoProofs` | the finalize job, its instances, its theorems |
| `IncidenteClaim` | the pure half of the overlay: watermark decision, classifier, fold, guards |
| `BloqueioPedido`, `MCBloqueioPedido`, `BloqueioProofs` | claims, imports, incidentes, trigger, checkout; instances; theorems |
| `CoberturaPedido` | the pure half of the payments: coverage, estado, freight, what links may still bring in |
| `PagamentoPedido` | payments, deliveries, operators, the reconciliation callable |
| `LinkPagamento`, `MCLinkPagamento`, `LinkPagamentoProofs`, `ExposicaoProofs` | the payment links, composed with the payments; instance; theorems, those on how much the links promise apart |
| `CompraUnica` | what a label purchase promises: an abstract specification |
| `CompraEtiqueta`, `MCCompraEtiqueta`, `CompraEtiquetaProofs` | the purchase with claims, clocks and webhooks, which implements it; instance; theorems |

Definitions keep the source's names where there is one (`efeitoEstoquePedido`,
`aplicarPlano`, `podeFinalizarBalanco`, `calcularMarcadores`, ...); the `map` of
`PROJECT.json` gives each one's lines. An operator named `Falha...` ("fault")
is a plausible bug of the operator it precedes; no specification uses it, and
it is there to show that a property can fail.

Common abstractions: a null, an absent field and a missing document are
`Nenhum`; ids are model values; timestamps, users, reasons and texts are left
out unless something is decided on them; a Firestore transaction, with its
retries, is one step that reads the current state.

### 1. Pedido → estoque

`pedidos` hold the six observed fields (estado, frete, itens, ehSaida, operacao,
integracao) with the snapshot `estoqueAplicado` and the two legacy markers.
`fila` is the set of trigger events in flight: a write event carries whether an
observed field changed and the legacy anchor, both functions of the two
revisions the platform hands the handler; a deletion event carries the last
snapshot. `Entregar` handles and acknowledges an event, `EntregarEReentregar`
handles it and leaves it in flight, `PerderEvento` is a handler that failed.
Events are a set, so order is free. `sincronizarEstoquePedido` is the whole
transaction: early returns (`PodeSincronizar`), configuration resolution,
planning (`Plano`), counters, ledger and drift (`aplicarPlano`), kit stamps,
snapshot and markers (`ComSnapshot`). It reads the pedido as it is now; only the
legacy anchor comes from the event. Configuration and catalogue edits start no
event; that is what `pendente` (a ghost) remembers, with lost events.

`estoques` and `razao` are the counters and the sums of the ledger rows;
`lancado` is the same sum per pedido, `exclusoes` the deterministic rows
`exclusao-<pedidoId>` which make a reversal idempotent. Line quantities are the
total sold per produto, and the code's sum over lines and components is the
number of unit moves (`UnidadesMovidas`), so no recursion is needed and the sum
can be proved about. `SomaFinita` says the same of the other sums: over the
reservations of the pedidos, over payments and links, over counts.

Properties. `CadaPedidoUmaVez`: a pedido's rows add up to what it holds now.
`RazaoSoma`: the ledger is summable, both halves.
`ReservadaSomaPedidos`, `DriftSoPorFora`: nobody else's reservation is released,
and the drift incidente only fires when somebody else wrote ("if it ever fires,
something outside the sync mutated the counters"). `DivergenciaCoberta`:
a pedido out of step has an event in flight, or a reason no event tells.
`Convergencia`, `ExclusaoRevertida`: it is then brought into step.
`SemEco`: the sync never starts itself. `NuncaViraLegado`: a managed pedido is
never taken for a Flutter-era one, which nothing would sync again.
`MovimentoPersiste`: what was physically moved is held in every active estado.
`KitVendidoCarimbado`: a sale through a kit stamps the kit.

### 2. Balanço

`balanco` is the workflow state with its checkpoint, `relatorios` the report
shards, `historicos` the marker rows `balanco-<id>` (each is also the ledger row
of the movement), `outros` the sum of everyone else's rows. `tarefas` are the
queue's tasks with their retry count, `chamadas` where each operator's callable
is between its transaction, its enqueue and its parking write, and `obra` the
one dispatch that runs (the queue allows one at a time) with its local variables:
what phase A read, the shard, the chunk. Each action is one call of the worker:
`Agregar`, `Varrer`, `GravarShard`, `FixarLista` (phase A), `aplicarChunk` (a
transaction), `AvancarCursor`, `Pausar`, `Concluir`, `Responder`. `Falhar` is a
call inside the worker's `try` that throws, its write landed or not: the queue
retries, or at the last attempt the worker parks. `FalharLeitura` is the first
read of the balanço (`aplicarBalanco.ts:499`), which comes before the `try`: the
queue retries it too, but at the last attempt nobody parks. `Morrer` is a dispatch
that dies without a word, or whose parking write throws; `MorrerChamada` is the
same of the callable. `Movimentar` is every other writer of
the stock, `Lancar` a counting screen, which may be late.

A phase A that is retried overwrites shards one by one, and one that came out
shorter leaves the tail of the longer one behind; the frozen list is the shards
below `balanco.shards`.

Properties. `AplicaUmaVez`, `RazaoExplicaEstoque`: each
produto is set once, in one transaction with its row and its before value,
whatever died or sold meanwhile. `CursorAtrasDoAplicado`: the checkpoint never
passes an unseen produto. `ListaCongelada`: a retry keeps the list and the
before values. `TravaComDono`: a locked
balanço has somebody who goes on, unless a process died, or threw where nothing
parks it, at its last chance (ghost `perdido`, reset when the lock is taken
again). `ContagemAplicada`: end to end, finalized means the stock is what was
counted. `Termina`: a finalize ends finalized or parked, with the same exception.

### 3. Dispute overlay

`claims` is the marketplace's history of each claim, `importacoes` the import of
each notification: waiting, holding the version it fetched, or done. Between the
fetch and the write lie network calls, so imports overlap freely; the queue may
redo one at any time. The clock of a new state is later than the last, or equal
(`PodeEmpatar`), or unreadable (`RelogioIlegivel`); some claims are rows of the
Flutter era with neither status nor clock (`Legados`).
`SalvarIncidenteClaim` is the watermark decision (`preverIncidenteClaim`) and
the write; `Escrever` puts an event in flight only when `MudouCampoBloqueio` (the
trigger's fast path) sees a change. Events carry nothing: the handler folds the
incidentes as they are now (`SincronizarMarcadores`), so a count is enough.
Operators release (`LiberarBloqueioIncidente`), edit, create and delete. The
checkout is three steps, `EvaluatePreSave` (the gates, dialogs follow),
`SalvarCheckout` (phase 1) and `AvancarRetirada` (phase 2, for a pickup), with
`AbandonarCheckout` between any two. `MoverFrete` and `MudarEstado` are the
importers and carriers.

Properties. `MarcadoresRefletem`: with no event due the markers are the fold, so
the fast path skips nothing that matters. `SemReabertura`: a closed claim never
reopens. `BloqueioSegueProvedor`: end to end, a settled pedido is held exactly
when the marketplace says so. `NadaSaiEmDisputa`: no checkout and no delivery
confirmation commits in an unreleased dispute the pedido was told of, wherever
the dispute opens. `MercadoriaForaNaoVolta`: neither phase of a checkout drags
posted goods back.

### 4. Label purchase

`requisicoes` are the requests of the route `comprar`, each with its local
variables; a request goes through `Chegar` (its arrival time starts the paid
window), `adquirirCompraEtiqueta` (the transaction that takes the claim and
reads the anchor to resume on), `BuscarExistente` or `AddToCart`,
`ancorarEtiqueta` (compare-and-set), then for each paid step the fence
`garantirPosseCompraEtiqueta` and the call, and last `Imprimir`,
`finalizarCompraEtiqueta`, `liberarCompraEtiqueta`. A paid call is three steps:
`EnviarPago` puts it in `chamadas`, `ProvedorAtende` settles it whenever Melhor
Envio gets to it, and the run reads the answer or times out (`EstourarPrazo`, or
`DesfechoIncerto` in general), after which it keeps its claim on purpose.
`Falhar` is any other call that fails, `Congelar` a platform that answered 504
and took the CPU away (timers included), `Morrer` an instance that dies.

Time is a counter, `agora`, and the clock of an instance is `HoraDe(r)`, ahead of
it by `Relogio[r]`. A deadline is a bound on `Tique`: time does not pass the end
of a paid call of a run that has its CPU. `PrazosAssumption` is the inequality
the source states of lease, window and deadline, with the skew added.

`avisos` are webhook tasks: they find the pedido by the label, ask Melhor Envio
for its status, and write the freight state under the precondition of the read's
updateTime. An operator may choose another integração or delete the pedido,
which detaches the label (`OnIntegracaoChange`, `ExcluirPedido`), and may write
the state and keep the label: the "Status do frete" of the freight tab
(`SelecionarEstado`), the confirmation of the delivery
(`confirmarEntregaPedido`, which writes entregue whatever the label says), and
the checkout (`salvarCheckoutTransacao`, which leaves goods already out alone).
The importers that write a freight state (payment reconciliation, marketplace
orders) write states the tab offers too, so `SelecionarEstado` stands for them.
The ghost `alheio` says that the present state was written by one of these and
not by the purchase or a webhook.

`CompraUnica` is the ideal: an anchor, labels whose payment is authorised, labels
paid. It is paid only when it was authorised while anchored, and a label takes
only an empty anchor. `ImplementaCompraUnica` maps a label to "authorised" when
its order is paid, a payment request for it is in flight, or a run is past its
fence.

Properties. `UmaEtiquetaPaga`: of the labels paid or being paid all but one were
detached by an operator. `PosseDuranteChamada` (proved, not run): a run inside a
paid call whose deadlines hold has the claim. `PendenteGuardada`: a payment of unknown outcome
keeps the claim until it expired on every clock. `EstadoDaEtiqueta`,
`EstadoNaoRegride`: a posted or terminal state that the purchase or a webhook
wrote is that of the anchored label, and neither of them takes a terminal state
back (an operator's included) or sets a posted parcel to wait for posting; an
operator may do both. `SucessoVerdadeiro`: a success means paid and
generated, and still anchored.

### 5. Payments and payment links

`provedor` is what Mercado Pago says of each payment, `pagamentos` the documents,
`tarefas` the notifications being handled. A handler fetches (`fetchPayment`),
reconciles in one transaction (`reconcilePedidoFromPagamento`), and, when the
payment came through a link, reads the link (`encerrarLinkSeCompleto`), expires
its preference (`ExpirarParaFechar`) and marks it (`MarcarConcluido`). The
transaction finds the document (`alvo`: its own, or the one the former program
wrote under another id), skips a delivery no fresher than the document
(`Obsoleta`), overlays the provider's fields and fills the link once
(`Escrito`), and settles estado and freight over the sum with the new value
(`applyEstadoTransition`). Both exits count the payments ever approved on the
link. `Falhar` is any step that throws, the expiry's effect kept or not; the
notification goes back to its queue (or, which is the same here, waits for the
sweep) or is given up.

Operators write payments beside it (`CriarPagamentos`, `savePagamento`,
`deletePagamento`) and then call the reconciliation: `chamadas` holds the calls
on their way, which `reconcilePedidoEstado` serves and `PerderChamada` loses. A
save of the total commits whatever became of the estado since the editor opened
(`savePedido`), and calls only while the estado leaves the items editable.
`MudarEstado` and `Embalar` are everyone else.

`links` are the stored links, `pagaveis` the preferences Mercado Pago lets a
payer pay. A request for links checks (`criarLinks`), mints one preference per
link (`createPreference`), and stores links and estado in one transaction
(`persistirLinks`), whose answer may be lost whether or not it landed: the SDK
runs it again, and then reads its own documents as a replay, or it throws, and
the route reads the links again (`lerLinksSolicitados`) before it expires what
no link carries (`preferenciasSemLink`). Preferences are pairs of request and
link, since each POST mints its own. `cancelarLink`, `ExpirarParaCancelar` and
`MarcarCancelado` are an operator's cancellation.

The ghosts: `entregues`, `mexidos` and `empatados` say of which payments the
present state was reconciled, which were edited since, and which changed under
an unmoved clock; `pendente` is an estado nothing will settle (a lost call,
another writer); `surpresa` is money no link announced; `retirados` and
`abandonados` are preferences expired by a close or a cancellation and links
whose last notification was given up.

Properties. `PagamentoSegueProvedor`: whatever is repeated, reordered or
crossed, a payment whose present state was reconciled has one document, and it
says what the provider says. `EstadoSegueSoma`: the estado is the one the stored
payments give, or a call is on its way. `LinkEsgotadoTemDono`: a link whose
quota is spent is open only while a notification that will close it is alive.
`LinkFechadoNaoCobra`, `LinkAbertoVivo`: a link marked closed without an error
cannot be paid, and one that is open can. `ExposicaoCabe`: settled money, open
links and money on the way through ended ones stay within the total, until money
moves that no link announced: a payment without a link or beyond its quota, a
payment or a total an operator typed, a start that exceeds the total already.

Abstractions. Amounts are small integers and a payment never changes its gross
amount. `LinkDo` is constant: the link id in a payment's metadata is always
readable. There is one account, and at most one document of the former program
per payment. A payment through a link is of that link's value
(`LinkAssumption`): the preference the code mints has one item, quantity one, at
that value, and no freight of its own
(`packages/integrations/mercado-pago/src/mapping/preference.ts`). That an NF-e
locked the payments, or that the pedido has too many links, is a refusal the
transaction may give at any time. A commit whose failure was reported has landed
by then or never will.

## Runs

| Run | Configuration | What it asks | States |
|---|---|---|---|
| `estoque_vida` | `EstoqueVida.cfg` | one pedido, every phase, direction and freight, kit lines; events late, twice, out of order, lost; the liveness properties | 909 |
| `estoque_config` | `EstoqueConfig.cfg` | the configuration and the catalogue change under it; two depósitos | 64,936 |
| `estoque_disputa` | `EstoqueDisputa.cfg` | two pedidos over one estoque | 52,975 |
| `estoque_manual` | `EstoqueManual.cfg` | new or Flutter-era pedido, growing lines, a manual movement | 83,020 |
| `balanco_quedas` | `BalancoQuedas.cfg` | two operators, failures and deaths at every step, pauses, retries, a sale, a late screen | 335,720 |
| `balanco_vivo` | `BalancoVivo.cfg` | corrections, cancelled counts, a kit, an extra document, a negative reservation; liveness | 345,663 |
| `bloqueio_importacao` | `BloqueioImportacao.cfg` | one claim, legacy or new, overlapping and repeated imports, ties, unreadable clocks, deletions, lost events | 973,440 |
| `bloqueio_despacho` | `BloqueioDespacho.cfg` | a checkout and a delivery confirmation against a mediation, a return, a release and a carrier | 307,002 |
| `compra_etiqueta` | `CompraEtiqueta.cfg` | two requests with unequal clocks, a webhook, an operator; lost answers, deaths, frozen runs; the refinement | 1,978,005 |
| `pagamento` | `LinkPagamento.cfg` | the payments of a pedido and its links: eight starting points, see Bounds | 391,069 |
| `estorno_coalescido` | `EstornoParcial.cfg` | violated, see below | |
| `balanco_retomada` | `BalancoRetomada.cfg` | violated | |

Each property of a passing run also fails when one operator of the code is
replaced by its `Falha...` version (the `mutants` of `PROJECT.json`): a field not
watched, a marker not written, a guard not repeated in the transaction, a clock
not compared.

Deadlock is not checked in any run: a pedido nobody edits, a finished balanço or
a settled claim is a legitimate end.

### Bounds

Estoque. Two produtos, `camisa` and a kit of two of them (edited to one, or
removed), are the two kinds the expansion knows; a third would repeat one. Two
depósitos are enough for an effect applied in one and reversed after the config
moved to the other. Line quantities up to two separate "grows", "shrinks" and
"same". One pedido is enough for everything but contention, which
`estoque_disputa` gives two symmetric ones. At most one manual movement
(`MaxManuais`) and quantities of at least zero; initial stock of three leaves
room below and above.

Balanço. Two produtos, one per shard and per transaction, so a shard boundary
and a chunk boundary both fall between them; `balanco_vivo` has shards of two
with two chunks each, and a third produto, the kit. Two tasks are one running and
one queued, which a pause, a retry or a second press need; one queue attempt
plus one retry (`BALANCO_MAX_ATTEMPTS` 2 instead of 5) reach both the retried
and the last failure. One sale (`MaxMovimentos`) is enough to make stock differ
from its before value. Symmetry is over operators and over tasks, which no
definition tells apart.

Overlay. A claim has two states (open, then closed, delivered, or just newer), which
overlapping imports can swap; at most two events are
in flight, and the writes that would add one wait meanwhile. The trigger handles
events in any order anyway, since they carry nothing. `bloqueio_despacho` runs
without lost events or redeliveries (`PodeFalhar` FALSE), which would only make
the antecedents of its properties false more often; `bloqueio_importacao` has
them.

Label purchase. Two requests are a holder and a taker; with two labels each may
have one, and a third request would repeat the taker. The clocks differ by one
unit, the slack the guard has (`FOLGA_RELOGIO_MS` 1); lease 3, window 1 and
deadline 1 satisfy the inequality with nothing to spare, so one unit less breaks
it. Time stops at `MaxAgora` 4, one after the first lease, so that a takeover
happens. The pedido starts with the state of a shipment before (`entregue`),
the one an anchor must reset; it is then repointed, deleted, or its state written
from outside once (`MaxTrocas`), the state chosen being iniciado
(`EstadosEscolhidos`): after a posting it takes the label's state back, while the
confirmation writes a terminal one the label never had. A suspended shipment is
to every run like a canceled one and to the freight state like an undelivered
one, which the run has. Symmetry is over labels.

Payments. A pedido of two (or three), a link for two payers and one for one, so
that a quota can be half spent; two payments through the first link and one the
former program had written; two equal requests for both links and one for the
second alone, which makes twins, replays and partial collisions. The state space
of everything at once is out of reach, so a run starts at one of eight pedidos
(`Inicios`), each with its own budget of outside events (`sobra`): two with the
former program's payment, whose state there is old or not; one with the payments
of a link; two with operators, one of them on a marketplace; one with twin requests; one with
a request while a link ends; one with a close that crosses a cancellation. Two
notifications in flight are enough to cross. Symmetry is over the notification
slots, the two like payments and the two like requests; no starting point names
them.

### Fairness

`EstoquePedido.FairSpec`: the platform delivers each event of a pedido, observed
writes and deletions, at least once. That is Eventarc's contract for a handler
that does not fail. A handler that fails loses its event, and the liveness
properties then say "unless the event was lost" through `pendente`, so they
assume nothing of failing handlers. Nobody is obliged to edit or to resync.

`Balanco.FairSpec`: the queue dispatches what it holds, and a dispatch or a
callable that started takes its next step or fails. Failures stay possible at
every step (`PodeFalhar` TRUE), since retries are bounded; deaths are excluded
from the liveness run because the code has no answer to one at the last attempt
(a listed hazard). The failures it has no answer to either, of the first read and
of a parking write, are in the run, and `Termina` is stated up to them. Nobody is obliged to press Finalizar.

The overlay has no liveness property: with no retry, a lost event leaves the
markers stale until the next one, and no source promises otherwise.

The payments have none either: a notification may be given up after the sweeps'
cap, and what must hold then is said by the invariants.

Neither has the label purchase: what it promises is that nothing is paid twice.
A run that keeps its claim lets go of it by expiry, whoever dies.

### Disagreements found

- `estorno_coalescido`. `pureLogic/estoque.ts:61` says a partial refund of a
  delivered order must not restock. The handler sees only the present pedido:
  saved as finalizado and then as estornadoParcialmente before the first event
  is handled, nothing was moved yet, estornadoParcialmente is not an entry
  estado, and the sync releases the reservation of goods that left.
- `balanco_retomada`. `aplicarBalanco.storage.test.ts:420` says a resume must
  not treat stock moved since as the new "before". A produto whose count matched
  leaves no marker, so after a death before the cursor advance and a sale, the
  resume sets the counted value and undoes the sale.

Smaller ones, met while reading and not made into runs: `balancoTasks.ts:10`
says a dropped enqueue must surface as a parked balanço, never a silent stall,
and a throw of the first read (`aplicarBalanco.ts:499`) at the last attempt, or
of the parking write itself, leaves it finalizando with no task (`perdido`);
`estadoEtiqueta.ts:65` says any posted or terminal state seen at the end of a
purchase belongs to the anchored label, which is so of what webhooks and
purchases write and not of what an operator chose or confirmed (`alheio`), and
that state is then kept over the provider's; `schemas/balanco.ts:157`
calls erro the retry path, and the parking update is blind (`aplicarBalanco.ts:628`):
after an enqueue that worked but answered an error it overwrites finalizado, and
`podeFinalizarBalanco` then refuses for ever; ADR 0014:87 stamps every
kit line of a synced pedido and a pure reversal plans none
(`sincronizarEstoquePedido.ts:797`); `produtosAplicados` is called exact despite
retries (`aplicarBalanco.ts:546`) and is not when a dispatch dies between a
chunk and the checkpoint; a retry stores a new `zerarNaoContados` over a list
frozen with the old one (`aplicarBalanco.ts:616`); a pedido has at most one checkout
(`CheckoutTab.tsx:63`), and nothing but the gates looks, which two operators
both pass: `BloqueioPedido` has the behaviour.

## Proofs

`tlapm` proves the theorems below for every value of the constants that
satisfies the named assumptions of the modules (`PlanoAssumption`,
`EstoquePedidoAssumption`, `BalancoAssumption`, `IncidenteAssumption`,
`BloqueioAssumption`, `CompraAssumption`, `PrazosAssumption`, `NuloAssumption`,
`CoberturaAssumption`, `PagamentoAssumption`, `LinkAssumption`:
types of the initial documents and edits, finiteness of the
produtos, movimentos, documents and links, positive sizes and quotas, that
`Nenhum` is none of the values it stands beside, that no two payments share a
legacy document and a payment found at the start came through a stored link or
none, that a payment through a link is of the link's value, and the inequality
between lease, window, deadline and clock skew). TLC evaluates them on every run.
No step is left unproved and the library's facts used are those on finite sets,
their cardinality, and the well-foundedness of the naturals.

| Theorem | Statement |
|---|---|
| `TipoCorreto`, `UmaVez`, `RazaoDoEstoque` | `EstoquePedido!Spec` implies always `TypeOK`, `CadaPedidoUmaVez`, `RazaoSoma` |
| `MarcasComSnapshot` | ... and the action property `NuncaViraLegado` |
| `ReservaEhSoma`, `DriftTemCausa`, `DivergenciaTemEvento` | `EstoquePedido!Spec` implies always `ReservadaSomaPedidos`, `DriftSoPorFora`, `DivergenciaCoberta` |
| `SincNaoEcoa`, `MovimentoNaoVolta`, `VendaCarimbaKit` | ... and `SemEco`, `MovimentoPersiste`, `KitVendidoCarimbado` |
| `TipoBalanco`, `RelatorioExplicaRazao`, `CheckpointSeguro`, `RazaoSomavel`, `KitForaDoBalanco`, `TravaSempreComDono` | `Balanco!Spec` implies always `TypeOK`, `RelatorioConfere`, `CursorAtrasDoAplicado`, `RazaoExplicaEstoque`, `KitNuncaContado`, `TravaComDono` |
| `ContadoNoEstoque` | `Balanco!Spec` implies always `ContagemAplicada` |
| `ProdutoAplicadoUmaVez`, `ListaFixa`, `FinalizadoParaSempre` | ... and `AplicaUmaVez`, `ListaCongelada`, `FinalizadoEncerra` |
| `TipoBloqueio`, `MarcadoresFieis`, `MarcaDeUmEstado`, `SegueProvedor` | `BloqueioPedido!Spec` implies always `TypeOK`, `MarcadoresRefletem`, `FielAoProvedor`, `BloqueioSegueProvedor` |
| `NaoReabre`, `NadaSai`, `MercadoriaFica` | ... and `SemReabertura`, `NadaSaiEmDisputa`, `MercadoriaForaNaoVolta` |
| `Tipos`, `UnicaEtiqueta`, `PosseNaChamada`, `PendenteGuarda`, `EstadoDoEnvio` | `CompraEtiqueta!Spec` implies always `TypeOK`, `UmaEtiquetaPaga`, `PosseDuranteChamada`, `PendenteGuardada`, `EstadoDaEtiqueta` |
| `EstadoSemRegresso`, `SucessoSoComEtiqueta` | ... and `EstadoNaoRegride`, `SucessoVerdadeiro` |
| `Refinamento` | `CompraEtiqueta!Spec` implies `CompraUnica!Spec` under the mapping above |
| `Tipos`, `SegueProvedor`, `SegueSoma`, `EsgotadoTemDono`, `FechadoNaoCobra`, `AbertoVivo` | `LinkPagamento!Spec` implies always `TypeOK`, `PagamentoSegueProvedor`, `EstadoSegueSoma`, `LinkEsgotadoTemDono`, `LinkFechadoNaoCobra`, `LinkAbertoVivo` |
| `LinksCabem` | `LinkPagamento!Spec` implies always `ExposicaoCabe` |

The arguments:

- Estoque. `CadaPedidoUmaVez` is not inductive alone. `InvUmaVez` adds
  `Exclusoes` (a deleted pedido does not exist, its reversal rows exist only
  once it is deleted, and every deletion event in flight carries the snapshot it
  was deleted with, which is what makes a repeated reversal harmless) and
  `LegadoNaoHerdou` (a pedido that still looks legacy was never reconstructed,
  so the inherited effect is counted once). The step of a sync is then an
  identity on the difference of two snapshots. The ledger invariants follow from
  the same transaction writing counter and row.
- Sums. A fold computes by recursion, and nothing can be proved here of what a
  recursion computes for every set. `Soma(S, f)` therefore counts the pairs of a
  term and one of its units, which is the same number, and `SomaFinitaProofs`
  gets from the cardinality of disjoint unions what the models need: one term
  moves, a set splits, terms compare, terms are all equal.
- Reservations. `ReservadaSomaPedidos` and `DriftSoPorFora` are inductive only
  together (`ReservaConfere`): because the reserved counter is the initial one
  plus the sum of what every pedido reserves, a release asks for no more than
  there is; because the floor at zero then changes nothing, the counter is still
  the sum, and no drift is reported. Only another writer breaks either, and
  `ForaDaSync` remembers it.
- Out of step. `DivergenciaCoberta` rests on two facts. A sync leaves nothing to
  do: the plan computed from what a plan just wrote is empty, the held movement
  and the fresh snapshot included. And a write of an unobserved field changes no
  input of the plan, so a pedido only falls out of step by a write that starts
  an event, or by an edit of the configuration or a lost event, which `pendente`
  remembers. `SemEco` is the first fact read as an action: the sync's own write
  changes no observed field.
- Balanço. The invariant is built in layers, each proved from those before:
  `Base` (types, what an open or finalized document holds, what the dispatch's
  locals may be), `Listas` (the shards the dispatch wrote are slices of its
  list; the frozen shards exist), `Relatorio` (report against ledger; the
  produtos of the chunks already done and of the shards behind the cursor are
  seen), `Razao` (stock against ledger; a marked produto has a document), and
  `InvTrava` for the owner of the lock. A lemma says that the slices of a
  finite set of produtos cover it, so that the checkpoint's argument does not
  depend on shard or chunk sizes. `ContagemAplicada` has a layer of its own,
  `Fiel`: while nobody else moves stock, the aggregate in hand, the work list,
  the frozen lines and the stock of each line already seen say the same of every
  counted produto. A retried chunk sees its own line and finds the stock it set;
  that the aggregate is the sum of the movimentos is a lemma on `Soma`.
- Overlay. `IInv` adds to the properties: a fetch holds a version at least as
  new as its own notification (`InvImportacao`), the marketplace's history has
  nondecreasing clocks and no reopening (`InvHistoria`), a claim that never
  opened has no incidente (`InvNovo`), and once the import of the last state is
  done, the incidente is no older than it, unless it is a legacy row nobody
  stamped (`InvUltima`). `NaoReabre` follows from the watermark comparison and
  the history; `SegueProvedor` from `InvUltima`, faithfulness and the fold.
- Label purchase. `IInv` has three groups. Who holds what: a label in a cart is
  one run's alone (`CarrinhoNovo`), a request in flight is what its run waits for
  (`ChamadaDoRun`), a run's knowledge of its order is true (`ConheceOrdem`),
  every authorised label is the anchored one or was detached
  (`AutorizadaPresa`, from which one label follows). Clocks: the claim of a run or of a
  request in flight is still there while it has not expired on any clock
  (`PosseViva`), and an unfrozen paid call ends before it (`PrazoVivo`, from
  `PrazosAssumption`). Shipment: the status a webhook or a run read is one the
  label can have moved on from (`StatusLido`), and a task whose precondition
  holds read the pedido as it is (`AvisoIntacto`); the writes of an operator are
  one case (`GravarEstado`), which sets `alheio`. The refinement is proved step by
  step under that invariant: an anchor lands on an empty one, a fence is
  `Autorizar`, a request that is refused, lost or abandoned before it left is
  `Desistir`, everything else stutters.
- Payments and links. `Inv` has five groups. `Espelho`: a copy in hand is no
  newer than the provider, and older if the payment changed since; a document
  with the provider's clock says what the provider says. `EstadoSegueSoma` is
  inductive once a reconciliation is shown idempotent (`ReconciliacaoIdempotente`:
  the transition is a fixed point of the sum that caused it) and once freight and
  link creation are shown unable to put a pedido out of step (`DivergeNaoNasce`).
  `LinksInv`: a request stores all of its batch or nothing, a stored link carries
  a preference minted for it, and what a request sets out to expire no stored
  link carries. `Fecho` adds to the two link properties that whoever is about to
  mark a link closed has expired its preference, unless Mercado Pago refused.
  `Ligacao`: a document's link is its payment's, so that a delivery can spend
  the quota of one link only, the one its task goes on to close.
- Exposure. `Exposto` gives every payment and every open link a weight: a payment
  weighs its value when it pays, or when it is on its way and its link is no
  longer open; an open link weighs its value once for each payment it has not
  been paid. The sum of the weights is what `ExposicaoCabe` bounds
  (`ExposicaoConta`), and each step moves weight without adding any: an approval
  takes from the link what it gives the payment, a close leaves a link's payments
  in transit with no more than its open quota held for them, a batch of links is
  stored only if its weight fits. The last two need that no link has more living
  payments than its quota (`Cabem`), that a document of a link is of its value
  and not store credit (`Certos`), and that a refusal or a refund is final, in
  the documents and in the copies in hand (`FimDosDocs`, `FimDasCopias`): a
  payment that came back to life would weigh a second time.

`RelatorioConfere` (every applied line of the frozen report explains its ledger
row), `FinalizadoEncerra` (a finalized balanço never takes the lock again nor
writes), `KitNuncaContado` (no balanço writes a kit) and `FielAoProvedor` (a
stamped incidente holds one state of its claim, with that state's clock) are
parts of these invariants, proved and no longer run.

Every strengthening was first checked by TLC as an invariant of the runs.

Every invariant and every action property that a passing run checks is proved.
Only model-checked: the liveness properties (`Convergencia`,
`ExclusaoRevertida`, `Termina`), which need fairness and ENABLED and are out of
the prover's reach, and the two violated claims. That `Soma` is the sum a fold
would compute is an induction over data, and stays with the reader of its
definition.

## Not modelled and not checked

- Sync: error messages and the text of incidentes, and the audit fields of the
  snapshot. The residual of a stale legacy anchor, accepted by the code (#795).
- Manual movements: the location fields of an estoque document. A saída that
  asks for more reserved units than there are writes an inexact row
  (`usecases.ts:199`), so that half of `RazaoSoma` speaks of the sync alone.
- Balanço: skus and names of the report; the duration of the time budget
  (`Pausar` may follow any shard); the deletion of a balanço while it runs; the
  error for a row without a delta, which cannot arise where it is thrown.
- Overlay: the conversation half of a claim import, the NF-e gate
  that reads the same markers, the scan and payment gates of
  the checkout (they refuse on data the overlay does not have), the history tab,
  which may set finalizado whatever the markers say (advisory by design, an
  input of `MudarEstado` here), and the Shopee return import, which follows the
  same template.
- Label purchase: which estados of the pedido and which users may write the
  freight (any time is allowed, which is more), the pickup hand-off of the
  checkout (a pickup has no label), the OAuth token and its refresh (a failure of
  it is `Falhar`), the quotation, the price and the balance, printing and its file, and
  the cancellation of a label at Melhor Envio.
- Payments: the account behind a notification and its parking lanes (a delivery
  that is parked is one given up), the texts, fees and cards of a payment, the
  marketplaces' own payment imports, and NF-e. A change the provider makes
  without moving its clock is lost (`pedidoReconcile.ts:393`), which
  `PagamentoSegueProvedor` excludes. A save of the total that commits on an estado
  locked meanwhile leaves the estado on the old total, with no call
  (`savePedido`); `EstadoSegueSoma` excludes it through `pendente`.
- Links: those of the former program (no `modo`), those without a preference id,
  and a preference whose POST answered an error after it was made, which nobody
  was given.
- A release on one open claim is united with those of later ones
  (`sincronizarBloqueioIncidente.ts:115`), and deleting an imported incidente
  deletes its watermark (`claimIncidenteTx.ts:202`), so an older snapshot may
  create it again: no source states a promise to check.
- A second phase A that finds fewer shards leaves stale ones behind
  (`aplicarBalanco.ts:342`), which only the review screen reads; and
  `produtosAplicados`, on which nothing is decided.
- Everything listed `not_modelled` in `PROJECT.json`, for the reason given there.

## Plan

Done: the five models above, in the order of what a wrong step costs. Each was
written as a pure module where there is pure logic, the component, its instances
and its proofs; the label purchase has its abstract specification.

Next, by importance:

1. `NFeEmissao`: number allocation, send reservation, crash anchor, consult;
   composed with the markers of `BloqueioPedido` for the dispute check that is
   not repeated in the transaction.
2. `OperacaoAcesso` and `Notificacoes`: lease, watchdog, lanes and caps; liveness
   under the sweep's schedule.
3. `KitRollup`, deletion cascades with the histories, arquivo sweep, OAuth state:
   small modules.
4. Abstract specifications of the other models here and their refinement: an
   estoque whose pedidos take and give back atomically; a count that is set once;
   markers that equal the marketplace's open claims after a delay; an estado that
   is a function of the newest state of every payment.
5. Proofs of those refinements' steps.

New runs will replace narrower ones: `estoque_manual` can join `estoque_config`.
