CONSTANTS
    c1 = c1
    Carpinchos = {c1}
    Llamadas = {"SEM_WAIT", "MEM_READ"}
    MaxLlamadas = 1
    RespuestasMemoria = {"OK_CONTINUE", "FAIL"}
    Nadie = Nadie
SPECIFICATION SpecJusta
PROPERTY VictimaTermina
CHECK_DEADLOCK FALSE
