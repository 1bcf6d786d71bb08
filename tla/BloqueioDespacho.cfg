SPECIFICATION Spec
CONSTANTS
  Nenhum = Nenhum
  Incidentes = {"mediacao", "devolucao"}
  Origem <- MCOrigem
  Tipo <- MCTipo
  Timestamp <- MCTimestamp
  Operadores = {o1}
  Liberacoes <- DespachoOuFinalizar
  MaxVersoes <- MCVersoes
  MaxEventos = 1
  MovimentosDeFrete <- Postagem
  MovimentosDeEstado <- Pagamento
  MaxCheckouts = 1
  Legados = {}
  PodeEmpatar = FALSE
  RelogioIlegivel = FALSE
  PodeFalhar = FALSE
  PodeExcluir = FALSE
  o1 = o1
INVARIANT TypeOK
PROPERTY NadaSaiEmDisputa
PROPERTY MercadoriaForaNaoVolta
CHECK_DEADLOCK FALSE
