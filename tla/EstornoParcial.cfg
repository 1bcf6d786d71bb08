SPECIFICATION HistSpec
CONSTANTS
  Nenhum = Nenhum
  Produtos <- MCProdutos
  Depositos = {"sp"}
  QtdMax = 2
  Pedidos = {"p1"}
  Integracoes <- MCIntegracoes
  Operacoes <- MCOperacoes
  Rascunhos <- RascunhosEstorno
  EdicoesIntegracao = {}
  EdicoesOperacao = {}
  EdicoesProduto = {}
  Movimentos = {}
  PedidosIniciais <- SemPedidos
  IntegracoesIniciais <- MCIntegracoesIniciais
  OperacoesIniciais <- MCOperacoesIniciais
  ProdutosIniciais <- MCProdutosIniciais
  EstoquesIniciais <- MCEstoquesIniciais
  MaxManuais = 0
  PodePerderEventos = FALSE
INVARIANT EstornoParcialNaoRepoe
CHECK_DEADLOCK FALSE
