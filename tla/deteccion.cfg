CONSTANTS
    k1 = k1
    c1 = c1
    c2 = c2
    c3 = c3
    s1 = s1
    s2 = s2
    s3 = s3
    aviso = aviso
    otro = otro
    Carpinchos = {c1, c2, c3}
    CPUs = {k1}
    Dispositivos = {}
    Nombres = {}
    GradoMultiprog = 2
    MaxPedidos = 8
    Nadie = Nadie
    NombresSem = {s1, s2, s3, aviso, otro}
    Iniciales = {}
    MaxSemaforos = 5
    Senales = {aviso, otro}
    Guiones <- Programas
SPECIFICATION SpecDetJusta
INVARIANTS Conservacion SinRastro
PROPERTIES SoloReales TodosSalen
CHECK_DEADLOCK FALSE
