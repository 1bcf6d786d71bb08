SPECIFICATION FairSpec
CONSTANTS
  Nenhum = Nenhum
  Produtos <- ComKit
  Kits = {3}
  ComExtras = {3}
  Lancamentos = {"a", "b", "c"}
  Lancado <- LancadosComKit
  Operadores = {o1}
  Tarefas = {t1, t2}
  Movimentos <- Venda
  MaxMovimentos = 0
  EstoquesIniciais <- EstoquesComKit
  RELATORIO_BALANCO_SHARD_SIZE = 2
  PRODUTOS_POR_TRANSACAO = 1
  BALANCO_MAX_ATTEMPTS = 2
  TelaAtrasada = FALSE
  PodeFalhar = TRUE
  PodeMorrer = FALSE
  o1 = o1
  t1 = t1
  t2 = t2
INVARIANT ContagemAplicada
PROPERTY Termina
CHECK_DEADLOCK FALSE
