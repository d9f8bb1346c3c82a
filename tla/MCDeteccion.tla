---------------------------- MODULE MCDeteccion ----------------------------
(* Model checking of Deteccion with three carpinchos, whose semaphores are *)
(* locks but for aviso and otro, which make one wait for another to begin. *)
EXTENDS Deteccion, TLC

CONSTANTS c1, c2, c3, s1, s2, s3, aviso, otro

W(n) == <<"wait", n>>
P(n) == <<"post", n>>

\* Two that close a ring, and a third that waits for a semaphore of the ring.
Anillo ==
    (c1 :> <<W(s1), W(aviso), W(s2), P(s1), P(s2)>>) @@
    (c2 :> <<W(s2), P(aviso), W(s1), P(s1), P(s2)>>) @@
    (c3 :> <<W(s1), P(s1)>>)

\* A ring of three.
AnilloDeTres ==
    (c1 :> <<W(s1), W(aviso), W(s2), P(s1), P(s2)>>) @@
    (c2 :> <<W(s2), W(otro), W(s3), P(s2), P(s3)>>) @@
    (c3 :> <<W(s3), P(aviso), P(otro), W(s1), P(s3), P(s1)>>)

\* A ring whose second carpincho also holds what the third one waits for, which
\* closes as soon as it has it.
Relevo ==
    (c1 :> <<P(otro), W(s1), W(aviso), W(s2), P(s1), P(s2)>>) @@
    (c2 :> <<W(otro), W(s2), P(aviso), P(aviso), W(s1), P(s1), P(s2), P(otro)>>) @@
    (c3 :> <<W(aviso), W(otro)>>)

Programas == {Anillo, AnilloDeTres, Relevo}
=============================================================================
