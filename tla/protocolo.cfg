CONSTANTS
    c1 = c1
    c2 = c2
    Carpinchos = {c1, c2}
    Llamadas = {"SEM_WAIT", "CALL_IO", "MEM_READ", "MEM_WRITE"}
    MaxLlamadas = 2
    RespuestasMemoria = {"OK_CONTINUE", "FAIL"}
    Nadie = Nadie
SPECIFICATION SpecJusta
INVARIANTS TypeOK RespuestaPropia VuelveEnEjecucion CuentaAtraso
PROPERTIES RetornaLlamada FinalizadoTermina
CHECK_DEADLOCK FALSE
