CONSTANTS
    k1 = k1
    k2 = k2
    c1 = c1
    c2 = c2
    s1 = s1
    Carpinchos = {c1, c2}
    CPUs = {k1, k2}
    Dispositivos = {}
    Nombres = {}
    GradoMultiprog = 2
    MaxPedidos = 2
    Nadie = Nadie
    NombresSem = {s1}
    Iniciales = {0}
    MaxSemaforos = 1
SPECIFICATION SpecSem
SYMMETRY Simetria
INVARIANT DesbloqueoEnBlocked
CHECK_DEADLOCK FALSE
