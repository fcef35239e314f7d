----------------------------- MODULE OpaleyeGpio -----------------------------
(***************************************************************************)
(* The kernel module opaleye_gpio: the camera trigger pulse made by two    *)
(* hrtimers, the sysfs files "enable" and "timer_settings" that processes  *)
(* write to, and the life of the module from insmod to rmmod.              *)
(*                                                                         *)
(* The stores run concurrently with each other, with the timer callbacks   *)
(* and with the teardown.  opaleye_enable_attr_store reads g_gpio_state->  *)
(* enabled before it takes g_gpio_state_mutex: its read is a step of its   *)
(* own.  What the stores do under the mutex is one step.                   *)
(***************************************************************************)
EXTENDS Integers

CONSTANTS Writers,    \* the processes that write to the sysfs files
          Settings,   \* the settings they write: records t0, period, width
          Sec,        \* clock ticks per second
          MaxTime     \* bound on the clock

ASSUME SecAssumption == Sec \in Nat /\ Sec >= 4 /\ MaxTime \in Nat \ {0}
ASSUME SettingsAssumption ==
    \A s \in Settings : s.t0 \in Nat /\ s.period \in Nat \ {0} /\ s.width \in Nat

Idle == -1    \* the expiry of a timer that is not queued

VARIABLES
    life,     \* where insmod, the module's thread and rmmod are
    enabled,  \* g_gpio_state->enabled
    cfg,      \* g_gpio_state->t0, period, width
    onExp,    \* expiry of gpio_on_timer
    offExp,   \* expiry of gpio_off_timer
    pin,      \* the level of the trigger pins
    now,      \* CLOCK_REALTIME
    at,       \* at[w]: outside, or in enable_store between the edge and the lock
    val,      \* val[w]: what w writes to "enable"
    seen,     \* seen[w]: what w read from g_gpio_state->enabled
    stuck,    \* g_gpio_state_mutex is held by a task that died
    cut       \* history: the pins were high when the timers were cancelled

timerVars == <<onExp, offExp, pin, cut>>
vars == <<life, enabled, cfg, timerVars, now, at, val, seen, stuck>>

(* A pulse of a tenth of a second, or of one tick when ticks are coarser.   *)
Default == [t0 |-> 0, period |-> Sec, width |-> IF Sec < 10 THEN 1 ELSE Sec \div 10]

Init ==
    /\ life = "loading"   \* the sysfs files exist, g_gpio_state is still NULL
    /\ enabled = FALSE
    /\ cfg = Default
    /\ onExp = Idle /\ offExp = Idle
    /\ pin = 0
    /\ now = 1
    /\ at = [w \in Writers |-> "outside"]
    /\ val = [w \in Writers |-> FALSE]
    /\ seen = [w \in Writers |-> FALSE]
    /\ stuck = FALSE
    /\ cut = FALSE

FilesExist == life \in {"loading", "loaded", "stopping", "cancelled"}

-----------------------------------------------------------------------------
(* The timers. *)

(* hrtimer_forward_now: add periods until the expiry is after now. *)
forward(exp, period) == exp + period * (((now - exp) \div period) + 1)

due(exp) == exp # Idle /\ exp <= now

opaleye_gpio_on_timer_cb ==
    /\ due(onExp)
    /\ due(offExp) => onExp <= offExp
    /\ onExp' = forward(onExp, cfg.period)
    /\ pin' = 1
    /\ UNCHANGED <<life, enabled, cfg, offExp, cut, now, at, val, seen, stuck>>

opaleye_gpio_off_timer_cb ==
    /\ due(offExp)
    /\ due(onExp) => offExp <= onExp
    /\ offExp' = forward(offExp, cfg.period)
    /\ pin' = 0
    /\ cut' = FALSE
    /\ UNCHANGED <<life, enabled, cfg, onExp, now, at, val, seen, stuck>>

(* Expired timers are served before the clock moves on. *)
tick ==
    /\ now < MaxTime
    /\ ~due(onExp) /\ ~due(offExp)
    /\ now' = now + 1
    /\ UNCHANGED <<life, enabled, cfg, timerVars, at, val, seen, stuck>>

-----------------------------------------------------------------------------
(* opaleye_enable_attr_store *)

(* Variant: the next top of the second, however close it is. *)
kt_0_on_close ==
    IF cfg.t0 # 0 THEN cfg.t0 ELSE ((now \div Sec) + 1) * Sec

(* The first pulse: t0, or the top of the next second that is at least a    *)
(* quarter of a second away.                                                *)
kt_0_on ==
    LET top == ((now \div Sec) + 1) * Sec
    IN  IF cfg.t0 # 0 THEN cfg.t0
        ELSE IF 4 * (top - now) < Sec THEN top + Sec ELSE top

cancel_timers ==
    /\ onExp' = Idle
    /\ offExp' = Idle
    /\ cut' = (cut \/ pin = 1)
    /\ UNCHANGED pin

start_timers ==
    /\ onExp' = kt_0_on
    /\ offExp' = kt_0_on + cfg.width
    /\ UNCHANGED <<pin, cut>>

(* Reading through the NULL g_gpio_state kills the writer: it is outside    *)
(* again, and holds nothing.                                                *)
enable_store_edge(w, v) ==
    /\ FilesExist
    /\ at[w] = "outside"
    /\ IF life = "loading"
          THEN UNCHANGED <<at, val, seen>>
          ELSE /\ at' = [at EXCEPT ![w] = "edge"]
               /\ val' = [val EXCEPT ![w] = v]
               /\ seen' = [seen EXCEPT ![w] = enabled]
    /\ UNCHANGED <<life, enabled, cfg, timerVars, now, stuck>>

(* Variant: on -> off leaves the timers queued. *)
enable_store_locked_noCancel(w) ==
    /\ at[w] = "edge"
    /\ ~stuck
    /\ IF ~seen[w] /\ val[w] THEN start_timers ELSE UNCHANGED timerVars
    /\ enabled' = val[w]
    /\ at' = [at EXCEPT ![w] = "outside"]
    /\ val' = [val EXCEPT ![w] = FALSE]
    /\ seen' = [seen EXCEPT ![w] = FALSE]
    /\ UNCHANGED <<life, cfg, now, stuck>>

enable_store_locked(w) ==
    /\ at[w] = "edge"
    /\ ~stuck
    /\ CASE seen[w] /\ ~val[w] -> cancel_timers       \* case 1: on -> off
         [] ~seen[w] /\ val[w] -> start_timers        \* case 2: off -> on
         [] OTHER -> UNCHANGED timerVars
    /\ enabled' = val[w]
    /\ at' = [at EXCEPT ![w] = "outside"]
    /\ val' = [val EXCEPT ![w] = FALSE]
    /\ seen' = [seen EXCEPT ![w] = FALSE]
    /\ UNCHANGED <<life, cfg, now, stuck>>

(* Variant: the settings are replaced while the timers run. *)
timer_settings_store_always(w, s) ==
    /\ FilesExist
    /\ at[w] = "outside"
    /\ ~stuck
    /\ IF life = "loading"
          THEN stuck' = TRUE /\ UNCHANGED cfg
          ELSE cfg' = s /\ UNCHANGED stuck
    /\ UNCHANGED <<life, enabled, timerVars, now, at, val, seen>>

(* opaleye_timer_settings_attr_store: refused while enabled.  With          *)
(* g_gpio_state still NULL the writer dies holding the mutex.               *)
timer_settings_store(w, s) ==
    /\ FilesExist
    /\ at[w] = "outside"
    /\ ~stuck
    /\ IF life = "loading"
          THEN stuck' = TRUE /\ UNCHANGED cfg
          ELSE /\ cfg' = IF enabled THEN cfg ELSE s
               /\ UNCHANGED stuck
    /\ UNCHANGED <<life, enabled, timerVars, now, at, val, seen>>

-----------------------------------------------------------------------------
(* opaleye_gpio_init, opaleye_gpio_exit and opaleye_gpio_main. *)

stage(from, to) ==
    /\ life = from
    /\ life' = to
    /\ UNCHANGED <<enabled, cfg, now, at, val, seen, stuck>>

gpio_init == stage("loading", "loaded") /\ UNCHANGED timerVars

(* A step after the first file was made fails: what there is goes again. *)
gpio_init_fails == stage("loading", "freed") /\ UNCHANGED timerVars

kthread_stop == stage("loaded", "stopping") /\ UNCHANGED timerVars

main_cancel == stage("stopping", "cancelled") /\ cancel_timers

(* gpio_free_array and kobject_put: the files go once no store is active. *)
main_remove ==
    /\ \A w \in Writers : at[w] = "outside"
    /\ stage("cancelled", "removed")
    /\ UNCHANGED timerVars

gpio_exit_free == stage("removed", "freed") /\ UNCHANGED timerVars

-----------------------------------------------------------------------------

writerStep(w) ==
    \/ \E v \in BOOLEAN : enable_store_edge(w, v)
    \/ enable_store_locked(w)
    \/ \E s \in Settings : timer_settings_store(w, s)

moduleStep ==
    \/ opaleye_gpio_on_timer_cb \/ opaleye_gpio_off_timer_cb \/ tick
    \/ gpio_init \/ gpio_init_fails \/ kthread_stop \/ main_cancel \/ main_remove \/ gpio_exit_free

Next == moduleStep \/ \E w \in Writers : writerStep(w)

Spec == Init /\ [][Next]_vars

-----------------------------------------------------------------------------

Armed == onExp # Idle /\ offExp # Idle

(* Every variable has its type, and the two timers are queued and cancelled *)
(* together.                                                                *)
TypeOK ==
    /\ life \in {"loading", "loaded", "stopping", "cancelled", "removed", "freed"}
    /\ enabled \in BOOLEAN
    /\ cfg \in Settings \cup {Default}
    /\ onExp \in Nat \cup {Idle} /\ offExp \in Nat \cup {Idle}
    /\ (onExp = Idle) = (offExp = Idle)
    /\ pin \in {0, 1}
    /\ now \in 0..MaxTime
    /\ at \in [Writers -> {"outside", "edge"}]
    /\ val \in [Writers -> BOOLEAN] /\ seen \in [Writers -> BOOLEAN]
    /\ stuck \in BOOLEAN /\ cut \in BOOLEAN

(* With one writer at a time, "enabled" is true: while the module is loaded *)
(* the timers are queued just when g_gpio_state->enabled says so.           *)
EnabledMatchesTimers ==
    life = "loaded" => enabled = Armed

(* The camera trigger is a train of separate pulses: while the pins are     *)
(* high the off timer is the next to fire, and at most one width away.      *)
(* (cut: a disable in mid-pulse leaves the pins high.)                      *)
PulseEnds ==
    pin = 1 /\ Armed /\ ~cut /\ 0 < cfg.width /\ cfg.width < cfg.period =>
        offExp < onExp /\ offExp <= now + cfg.width

(* "if t0 == 0, start in 1s at top of second, if less than 0.25 wait till   *)
(* next second" (opaleye_gpio_main.c:170): the pulses are on the second,    *)
(* and the first is at least a quarter and less than 1.25 seconds away.     *)
FirstPulseOnTheSecond ==
    [][\A w \in Writers :
          at[w] = "edge" /\ onExp = Idle /\ onExp' # Idle /\ cfg.t0 = 0 =>
              /\ onExp' % Sec = 0
              /\ 4 * (onExp' - now) >= Sec /\ 4 * (onExp' - now) < 5 * Sec]_vars

(* "case 1: // on-> off", "case 2: // off -> on" (opaleye_gpio_main.c:159,  *)
(* 165): the edge a store acts on is the change it makes to "enabled".      *)
EdgeIsTransition ==
    [][\A w \in Writers :
          at[w] = "edge" /\ at'[w] = "outside" => seen[w] = enabled]_vars

(* "//stop event cb" (opaleye_gpio_main.c:476): once the thread has torn    *)
(* down and the state is freed, no timer is queued on it.                   *)
NoTimerAfterFree ==
    life = "freed" => onExp = Idle /\ offExp = Idle
=============================================================================
