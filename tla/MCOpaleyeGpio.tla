--------------------------- MODULE MCOpaleyeGpio ---------------------------
(* The instance of OpaleyeGpio for the two races that writers can cause.    *)
EXTENDS OpaleyeGpio

FewSettings == {[t0 |-> 0, period |-> 4, width |-> 1]}
=============================================================================
