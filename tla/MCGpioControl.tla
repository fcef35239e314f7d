--------------------------- MODULE MCGpioControl ---------------------------
(* Instances of GpioControl.  A second has 100 ticks of one nanosecond, so  *)
(* that the text of a time has two digits.  The settings include a t0 in    *)
(* the past, and a width that is not shorter than the period; the requests  *)
(* include a negative t0 that the module parses and one that it does not.   *)
EXTENDS GpioControl

MCPlaces == <<10, 1>>

MCRequests == {[t0 |-> 0, period |-> 100, width |-> 5, enable |-> TRUE],
               [t0 |-> 90, period |-> 20, width |-> 20, enable |-> FALSE],
               [t0 |-> 3, period |-> 40, width |-> 30, enable |-> TRUE],
               [t0 |-> -100, period |-> 40, width |-> 30, enable |-> FALSE],
               [t0 |-> -5, period |-> 40, width |-> 30, enable |-> FALSE]}

AllSettings == {[t0 |-> 0, period |-> 100, width |-> 5],
                [t0 |-> 90, period |-> 20, width |-> 20],
                [t0 |-> 3, period |-> 40, width |-> 30]}
============================================================================
