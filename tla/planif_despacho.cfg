CONSTANTS
    d1 = d1
    k1 = k1
    k2 = k2
    c1 = c1
    c2 = c2
    Carpinchos = {c1, c2}
    CPUs = {k1, k2}
    Dispositivos = {d1}
    Nombres = {d1}
    GradoMultiprog = 2
    MaxPedidos = 1
    Nadie = Nadie
SPECIFICATION Spec
INVARIANT DespachoEnReady
CHECK_DEADLOCK FALSE
