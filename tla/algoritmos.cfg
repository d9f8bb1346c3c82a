CONSTANTS
    p1 = p1
    p2 = p2
    p3 = p3
    c1 = c1
    c2 = c2
    c3 = c3
    s1 = s1
    s2 = s2
    s3 = s3
    Pcbs = {p1, p2, p3}
    Procesos = {c1, c2, c3}
    Sems = {s1, s2, s3}
    Nada = Nada
    Ninguna = Ninguna
    Iniciales = {0, 2}
    MaxTiempo = 3
    MaxRafagas = 2
SPECIFICATION SpecAlgoritmos
SYMMETRY Simetria
INVARIANTS QuedaLaMayor VeLosDeadlocks SinFalsosDeadlocks EligeAlMejor EstimaElPromedio
CHECK_DEADLOCK FALSE
