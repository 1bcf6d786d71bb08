CONSTANTS
  p1 = p1  p2 = p2  p3 = p3  g3 = g3  m1 = m1
  l1 = l1  l2 = l2  r1 = r1  r2 = r2  r3 = r3
  t1 = t1  t2 = t2
  Nenhum = Nenhum
  Docs <- McDocs
  Links = {l1, l2}
  ValorLink <- McValorLink
  Cota <- McCota
  ValorMinimo = 1
  Pagamentos = {p1, p2, p3}
  Legados = {g3}
  LegadoDe <- McLegadoDe
  Manuais = {m1}
  LinkDo <- McLinkDo
  Valor <- McValor
  Tarefas = {t1, t2}
  Totais = {1, 2}
  Devolvidos = {0}
  Edicoes <- McEdicoes
  MovimentosDeEstado <- McMovimentos
  PodeEmpatar = TRUE
  Inicios <- McInicios
  Requisicoes = {r1, r2, r3}
  Lote <- McLote
SPECIFICATION Spec
INVARIANT TypeOK
INVARIANT PagamentoSegueProvedor
INVARIANT EstadoSegueSoma
INVARIANT LinkEsgotadoTemDono
INVARIANT LinkFechadoNaoCobra
INVARIANT LinkAbertoVivo
INVARIANT ExposicaoCabe
SYMMETRY Simetria
CHECK_DEADLOCK FALSE
