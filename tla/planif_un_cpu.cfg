CONSTANTS
    d1 = d1
    k1 = k1
    c1 = c1
    c2 = c2
    c3 = c3
    Carpinchos = {c1, c2, c3}
    CPUs = {k1}
    Dispositivos = {d1}
    Nombres = {d1, "otro"}
    GradoMultiprog = 2
    MaxPedidos = 2
    Nadie = Nadie
SPECIFICATION Spec
SYMMETRY Simetria
INVARIANTS TypeOK SinUsoDeLiberado UnSoloLugar CuentaGrado
CHECK_DEADLOCK FALSE
