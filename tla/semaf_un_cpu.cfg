CONSTANTS
    k1 = k1
    c1 = c1
    c2 = c2
    c3 = c3
    s1 = s1
    Carpinchos = {c1, c2, c3}
    CPUs = {k1}
    Dispositivos = {}
    Nombres = {}
    GradoMultiprog = 2
    MaxPedidos = 3
    Nadie = Nadie
    NombresSem = {s1}
    Iniciales = {0, 1}
    MaxSemaforos = 2
SPECIFICATION SpecSem
SYMMETRY Simetria
INVARIANTS CuentaSemaforo EsperaEnSuCola GradoExacto
PROPERTY SonSemaforos
CHECK_DEADLOCK FALSE
