SPECIFICATION Spec
CONSTANTS
  Nenhum = Nenhum
  Produtos <- MCProdutos
  Depositos = {"sp"}
  QtdMax = 2
  Pedidos = {p1, p2}
  Integracoes <- MCIntegracoes
  Operacoes <- MCOperacoes
  Rascunhos <- RascunhosDisputa
  EdicoesIntegracao = {}
  EdicoesOperacao = {}
  EdicoesProduto = {}
  Movimentos = {}
  PedidosIniciais <- SemPedidos
  IntegracoesIniciais <- MCIntegracoesIniciais
  OperacoesIniciais <- MCOperacoesIniciais
  ProdutosIniciais <- MCProdutosIniciais
  EstoquesIniciais <- MCEstoquesIniciais
  MaxManuais = 0
  PodePerderEventos = TRUE
  p1 = p1
  p2 = p2
SYMMETRY Simetria
INVARIANT ReservadaSomaPedidos
INVARIANT DriftSoPorFora
CHECK_DEADLOCK FALSE
