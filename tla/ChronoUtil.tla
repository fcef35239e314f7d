----------------------------- MODULE ChronoUtil -----------------------------
(***************************************************************************)
(* Conversions between std::chrono durations and timespec, and             *)
(* timespec_add_chrono.  A duration is its count of nanoseconds; NS stands *)
(* for 1000000000.  The counts are 64 bits wide, which no time of day      *)
(* comes near: they do not wrap here.                                      *)
(***************************************************************************)
EXTENDS Integers

CONSTANT NS   \* nanoseconds in a second

ASSUME NSAssumption == NS \in Nat \ {0}

(* duration_cast<seconds> rounds towards zero. *)
seconds(c) == IF c >= 0 THEN c \div NS ELSE -((-c) \div NS)

chrono_to_timespec(c) == [tv_sec |-> seconds(c), tv_nsec |-> c - seconds(c) * NS]

timespec_to_chrono(t) == t.tv_sec * NS + t.tv_nsec

timespec_add_chrono(t, c) ==
    LET sec == t.tv_sec + seconds(c)
        nsec == t.tv_nsec + (c - seconds(c) * NS)
    IN  IF nsec > NS - 1 THEN [tv_sec |-> sec + 1, tv_nsec |-> nsec - NS]
        ELSE IF nsec < 0 THEN [tv_sec |-> sec - 1, tv_nsec |-> nsec + NS]
        ELSE [tv_sec |-> sec, tv_nsec |-> nsec]

(* The timespecs the kernel accepts. *)
Timespec == [tv_sec : Int, tv_nsec : 0 .. NS - 1]
=============================================================================
