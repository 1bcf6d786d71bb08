SPECIFICATION Spec
CONSTANTS
  Nenhum = Nenhum
  Incidentes = {"mediacao", "manual"}
  Origem <- MCOrigem
  Tipo <- MCTipo
  Timestamp <- MCTimestamp
  Operadores = {}
  Liberacoes <- Despacho
  MaxVersoes <- DuasVersoes
  MaxEventos = 2
  MovimentosDeFrete <- Nenhuma
  MovimentosDeEstado <- Nenhuma
  MaxCheckouts = 1
  Legados = {"mediacao"}
  PodeEmpatar = TRUE
  RelogioIlegivel = TRUE
  PodeFalhar = TRUE
  PodeExcluir = TRUE
INVARIANT MarcadoresRefletem
INVARIANT BloqueioSegueProvedor
PROPERTY SemReabertura
CHECK_DEADLOCK FALSE
