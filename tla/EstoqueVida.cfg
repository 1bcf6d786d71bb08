SPECIFICATION FairSpec
CONSTANTS
  Nenhum = Nenhum
  Produtos <- MCProdutos
  Depositos = {"sp"}
  QtdMax = 2
  Pedidos = {"p1"}
  Integracoes <- MCIntegracoes
  Operacoes <- MCOperacoes
  Rascunhos <- RascunhosVida
  EdicoesIntegracao = {}
  EdicoesOperacao = {}
  EdicoesProduto = {}
  Movimentos = {}
  PedidosIniciais <- SemPedidos
  IntegracoesIniciais <- MCIntegracoesIniciais
  OperacoesIniciais <- MCOperacoesIniciais
  ProdutosIniciais <- MCProdutosIniciais
  EstoquesIniciais <- MCEstoquesIniciais
  MaxManuais = 0
  PodePerderEventos = TRUE
PROPERTY NuncaViraLegado
PROPERTY SemEco
PROPERTY KitVendidoCarimbado
PROPERTY MovimentoPersiste
PROPERTY Convergencia
PROPERTY ExclusaoRevertida
CHECK_DEADLOCK FALSE
