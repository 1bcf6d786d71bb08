SPECIFICATION Spec
CONSTANTS
  Nenhum = Nenhum
  Produtos <- MCProdutos
  Depositos = {"sp", "rj"}
  QtdMax = 2
  Pedidos = {"p1"}
  Integracoes <- MCIntegracoes
  Operacoes <- MCOperacoes
  Rascunhos <- RascunhosConfig
  EdicoesIntegracao <- EdicoesDeConfig
  EdicoesOperacao <- EdicoesDeOperacao
  EdicoesProduto <- EdicoesDeProduto
  Movimentos = {}
  PedidosIniciais <- SemPedidos
  IntegracoesIniciais <- MCIntegracoesIniciais
  OperacoesIniciais <- MCOperacoesIniciais
  ProdutosIniciais <- MCProdutosIniciais
  EstoquesIniciais <- MCEstoquesIniciais
  MaxManuais = 0
  PodePerderEventos = TRUE
INVARIANT DivergenciaCoberta
CHECK_DEADLOCK FALSE
