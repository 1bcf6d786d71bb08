SPECIFICATION Spec
CONSTANTS
  Nenhum = Nenhum
  Requisicoes = {"r1", "r2"}
  Etiquetas = {e1, e2}
  e1 = e1
  e2 = e2
  Avisos = {"a1"}
  Relogio <- MCRelogio
  COMPRA_ETIQUETA_LEASE_MS = 3
  COMPRA_ETIQUETA_JANELA_PAGA_MS = 1
  PRAZO_PAGO = 1
  FOLGA_RELOGIO_MS = 1
  EstadosIniciais = {"entregue"}
  EstadosEscolhidos = {"iniciado"}
  Viagens <- MCViagens
  MaxAgora = 4
  MaxTrocas = 1
SYMMETRY Simetria
INVARIANT TypeOK
INVARIANT UmaEtiquetaPaga
INVARIANT PendenteGuardada
INVARIANT EstadoDaEtiqueta
PROPERTY EstadoNaoRegride
PROPERTY SucessoVerdadeiro
PROPERTY ImplementaCompraUnica
CHECK_DEADLOCK FALSE
