CONSTANTS
    d1 = d1
    k1 = k1
    k2 = k2
    c1 = c1
    c2 = c2
    c3 = c3
    s1 = s1
    Carpinchos = {c1, c2, c3}
    CPUs = {k1, k2}
    Dispositivos = {d1}
    Nombres = {d1}
    GradoMultiprog = 2
    MaxPedidos = 1
    Nadie = Nadie
    NombresSem = {s1}
    Iniciales = {0}
    MaxSemaforos = 2
SPECIFICATION SpecSem
SYMMETRY Simetria
INVARIANTS TypeSemOK NuncaDeMenos Apreton CuentaAdmision CuentaReady CuentaExit CuentaIO FallaSoloSuspension
CHECK_DEADLOCK FALSE
