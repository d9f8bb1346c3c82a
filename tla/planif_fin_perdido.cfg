CONSTANTS
    d1 = d1
    k1 = k1
    c1 = c1
    c2 = c2
    Carpinchos = {c1, c2}
    CPUs = {k1}
    Dispositivos = {d1}
    Nombres = {d1}
    GradoMultiprog = 1
    MaxPedidos = 1
    Nadie = Nadie
SPECIFICATION SpecJusta
PROPERTY TodosTerminan
CHECK_DEADLOCK FALSE
