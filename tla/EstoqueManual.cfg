SPECIFICATION Spec
CONSTANTS
  Nenhum = Nenhum
  Produtos <- MCProdutos
  Depositos = {"sp"}
  QtdMax = 2
  Pedidos = {"p1"}
  Integracoes <- MCIntegracoes
  Operacoes <- MCOperacoes
  Rascunhos <- RascunhosLegado
  EdicoesIntegracao = {}
  EdicoesOperacao = {}
  EdicoesProduto = {}
  Movimentos <- MovimentosManuais
  PedidosIniciais <- SemOuLegados
  IntegracoesIniciais <- MCIntegracoesIniciais
  OperacoesIniciais <- MCOperacoesIniciais
  ProdutosIniciais <- MCProdutosIniciais
  EstoquesIniciais <- MCEstoquesIniciais
  MaxManuais = 1
  PodePerderEventos = TRUE
INVARIANT TypeOK
INVARIANT CadaPedidoUmaVez
INVARIANT RazaoSoma
CHECK_DEADLOCK FALSE
