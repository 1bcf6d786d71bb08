SPECIFICATION Spec
CONSTANTS
  Nenhum = Nenhum
  Produtos <- DoisProdutos
  Kits = {}
  ComExtras = {}
  Lancamentos = {"a", "b"}
  Lancado <- MCLancados
  Operadores = {o1}
  Tarefas = {t1, t2}
  Movimentos <- Venda
  MaxMovimentos = 1
  EstoquesIniciais <- MCEstoques
  RELATORIO_BALANCO_SHARD_SIZE = 1
  PRODUTOS_POR_TRANSACAO = 1
  BALANCO_MAX_ATTEMPTS = 2
  TelaAtrasada = FALSE
  PodeFalhar = FALSE
  PodeMorrer = TRUE
  o1 = o1
  t1 = t1
  t2 = t2
PROPERTY DecididoNaoMuda
CHECK_DEADLOCK FALSE
