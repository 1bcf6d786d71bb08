SPECIFICATION Spec
CONSTANTS
  Nenhum = Nenhum
  Produtos <- DoisProdutos
  Kits = {}
  ComExtras = {}
  Lancamentos = {"a"}
  Lancado <- UmLancado
  Operadores = {o1, o2}
  Tarefas = {t1, t2}
  Movimentos <- Venda
  MaxMovimentos = 1
  EstoquesIniciais <- MCEstoques
  RELATORIO_BALANCO_SHARD_SIZE = 1
  PRODUTOS_POR_TRANSACAO = 1
  BALANCO_MAX_ATTEMPTS = 2
  TelaAtrasada = TRUE
  PodeFalhar = TRUE
  PodeMorrer = TRUE
  o1 = o1
  o2 = o2
  t1 = t1
  t2 = t2
SYMMETRY Simetria
INVARIANT TypeOK
INVARIANT TravaComDono
INVARIANT RazaoExplicaEstoque
INVARIANT CursorAtrasDoAplicado
PROPERTY AplicaUmaVez
PROPERTY ListaCongelada
CHECK_DEADLOCK FALSE
