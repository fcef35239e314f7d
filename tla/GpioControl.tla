----------------------------- MODULE GpioControl ----------------------------
(***************************************************************************)
(* The hardware trigger as the program sets it up: Opaleye_gpio_mod_ctrl   *)
(* and the part of Opaleye_app::init that uses it, over the kernel module  *)
(* of OpaleyeGpio.  The settings go to the module as text, and the module  *)
(* answers every store with its length, whether it took it or not.         *)
(*                                                                         *)
(* The program may be started again and again; what it left in the module  *)
(* is still there, because it never disables the trigger when it ends.     *)
(* Other processes write to the files too, but not while the program is    *)
(* in init: two writers at once are the subject of OpaleyeGpio_edge.       *)
(***************************************************************************)
EXTENDS OpaleyeGpio, ChronoUtil, Sequences

CONSTANTS Requests,   \* config.hw_trigger: records t0, period, width (in ns), enable
          Places      \* the weights of the digits behind the dot: NS / 10, ..., 10, 1

ASSUME RequestAssumption ==
    /\ NS = Sec
    /\ \A q \in Requests : {q.t0, q.period, q.width} \subseteq Int /\ q.enable \in BOOLEAN
ASSUME PlacesAssumption ==
    /\ Places \in Seq(Nat \ {0}) /\ Places # <<>>
    /\ NS = 10 * Places[1] /\ Places[Len(Places)] = 1
    /\ \A i \in 1 .. Len(Places) - 1 : Places[i] = 10 * Places[i + 1]

VARIABLES app,   \* where Opaleye_app::init is
          want   \* the request it was started with

controlVars == <<vars, app, want>>

ControlInit == Init /\ app = "off" /\ want \in Requests

-----------------------------------------------------------------------------
(* The text of a duration: seconds, a dot, and the nanoseconds in as many   *)
(* digits as NS - 1 has, nine of them in the code.                          *)

(* "%ld.%09ld".  A negative number of nanoseconds begins with a minus sign, *)
(* where the module's "%9[0123456789]" finds no digit.                      *)
duration_text(c) ==
    LET ts == chrono_to_timespec(c)
    IN  [sec  |-> ts.tv_sec,
         frac |-> IF ts.tv_nsec < 0 THEN <<>>
                  ELSE [i \in 1 .. Len(Places) |-> (ts.tv_nsec \div Places[i]) % 10]]

(* What nsstr_to_ns has after i digits: the first digit weighs a tenth of a *)
(* second.                                                                  *)
digits_read(str) ==
    LET scan[i \in 0 .. Len(str)] ==
            IF i = 0 THEN [accum |-> 0, mul |-> NS \div 10]
            ELSE [accum |-> scan[i - 1].accum + str[i] * scan[i - 1].mul,
                  mul   |-> scan[i - 1].mul \div 10]
    IN  scan

nsstr_to_ns(str) == digits_read(str)[Len(str)].accum

(* sscanf found all six fields. *)
parses(text) == \A f \in DOMAIN text : text[f].frac # <<>>

ktime_set(t) == t.sec * NS + nsstr_to_ns(t.frac)

-----------------------------------------------------------------------------

goto(from, to) == app = from /\ app' = to

start ==
    /\ app = "off"
    /\ \A w \in Writers : at[w] = "outside"
    /\ \E q \in Requests : want' = q
    /\ app' = "open"
    /\ UNCHANGED vars

(* is_loaded, and open of the two files. *)
open ==
    /\ IF FilesExist THEN goto("open", "disable") ELSE goto("open", "failed")
    /\ UNCHANGED <<vars, want>>

(* A write to "enable" with app at from: through a null g_gpio_state it     *)
(* kills the program; a file that is gone answers ENODEV.                   *)
write_enable(from, v, to) ==
    /\ app = from
    /\ \E w \in Writers :
          \/ /\ enable_store_edge(w, v)
             /\ app' = IF life = "loading" THEN "off" ELSE to
          \/ ~FilesExist /\ app' = "failed" /\ UNCHANGED vars
    /\ UNCHANGED want

stored(from, to) ==
    /\ goto(from, to)
    /\ \E w \in Writers : enable_store_locked(w)
    /\ UNCHANGED want

(* Variant: the trigger is not disabled before it is configured. *)
disable_skipped == goto("disable", "configure") /\ UNCHANGED <<vars, want>>

disable == write_enable("disable", FALSE, "disabling")

disabled == stored("disabling", "configure")

(* configure: dprintf is happy with what the module's store returns. *)
configure ==
    LET text == [f \in {"t0", "period", "width"} |-> duration_text(want[f])]
    IN  /\ app = "configure"
        /\ \/ ~FilesExist /\ app' = "failed" /\ UNCHANGED vars
           \/ /\ FilesExist
              /\ app' = "enable"
              /\ IF parses(text)
                    THEN \E w \in Writers :
                            timer_settings_store(w, [f \in DOMAIN text |-> ktime_set(text[f])])
                    ELSE UNCHANGED vars
        /\ UNCHANGED want

set_enable == write_enable("enable", want.enable, "enabling")

enabled_set == stored("enabling", "running")

(* The program ends, or is killed. *)
end ==
    /\ app \in {"running", "failed"}
    /\ app' = "off"
    /\ UNCHANGED <<vars, want>>

appStep ==
    \/ start \/ open \/ disable \/ disabled \/ configure
    \/ set_enable \/ enabled_set \/ end

ControlNext ==
    \/ appStep
    \/ moduleStep /\ UNCHANGED <<app, want>>
    \/ /\ app \in {"off", "running"}
       /\ \E w \in Writers : writerStep(w)
       /\ UNCHANGED <<app, want>>

ControlSpec == ControlInit /\ [][ControlNext]_controlVars

-----------------------------------------------------------------------------

(* The times whose text the module can parse. *)
Printable(c) == c >= 0 \/ c = seconds(c) * NS

(* When Opaleye_app::init is through with the trigger, the module has the   *)
(* settings of the configuration file and is enabled as the file says: the  *)
(* text survives the trip, and the trigger of an earlier run, or of another *)
(* process, does not make the module refuse them.  Only a negative time     *)
(* that is no whole number of seconds is excepted: the module does not      *)
(* parse it, and configure() answers true all the same.                     *)
TriggerAsConfigured ==
    [][app = "enabling" /\ app' = "running" =>
          /\ enabled' = want.enable
          /\ (\A f \in {"t0", "period", "width"} : Printable(want[f])) =>
                cfg' = [f \in {"t0", "period", "width"} |-> want[f]]]_controlVars
=============================================================================
