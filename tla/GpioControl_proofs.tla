------------------------- MODULE GpioControl_proofs -------------------------
(* Theorems about the hardware trigger: the arithmetic of ChronoUtil, the   *)
(* kernel module of OpaleyeGpio and its control by the program, for every   *)
(* length of the second, all settings and every bound on the clock.         *)
EXTENDS GpioControl, SequenceTheorems, WellFoundedInduction, TLAPS

-----------------------------------------------------------------------------
(* ChronoUtil, for every duration. *)

(* What duration_cast leaves is less than a second, of the duration's sign. *)
LEMMA RemainderBound ==
    ASSUME NEW c \in Int
    PROVE  /\ seconds(c) \in Int
           /\ c >= 0 => c - seconds(c) * NS \in 0 .. NS - 1
           /\ c < 0 => c - seconds(c) * NS \in -(NS - 1) .. 0
<1>0. NS \in Nat /\ NS > 0
  BY NSAssumption DEF Timespec
<1>1. ASSUME NEW n \in Nat
      PROVE  /\ n \div NS \in Int
             /\ n - (n \div NS) * NS \in 0 .. NS - 1
  <2>1. n \div NS \in Int /\ n % NS \in 0 .. NS - 1 /\ n = NS * (n \div NS) + (n % NS)
    BY <1>0
  <2>2. NS * (n \div NS) = (n \div NS) * NS
    BY <1>0, <2>1
  <2> QED
    BY <1>0, <2>1, <2>2
<1>2. CASE c >= 0
  BY <1>2, <1>1 DEF seconds
<1>3. CASE c < 0
  <2> DEFINE q == (-c) \div NS
  <2>1. -c \in Nat
    BY <1>3
  <2>2. q \in Int /\ -c - q * NS \in 0 .. NS - 1
    BY <1>1, <2>1
  <2>3. seconds(c) = -q
    BY <1>3 DEF seconds
  <2> HIDE DEF q
  <2>4. c - (-q) * NS = -(-c - q * NS)
    BY <1>0, <2>2
  <2> QED
    BY <1>0, <1>3, <2>2, <2>3, <2>4
<1> QED
  BY <1>2, <1>3

(* chrono_to_timespec loses nothing: timespec_to_chrono gives every         *)
(* duration back, the negative ones included.                               *)
THEOREM ConversionRoundTrip ==
    ASSUME NEW c \in Int
    PROVE  timespec_to_chrono(chrono_to_timespec(c)) = c
<1>0. NS \in Int /\ seconds(c) \in Int
  BY NSAssumption, RemainderBound
<1> DEFINE p == seconds(c) * NS
<1>1. p \in Int
  BY <1>0
<1>2. timespec_to_chrono(chrono_to_timespec(c)) = p + (c - p)
  BY DEF timespec_to_chrono, chrono_to_timespec
<1> HIDE DEF p
<1> QED
  BY <1>1, <1>2

(* "TODO verify wrap-around math on nsec" (chrono_util.cpp:41): added to a  *)
(* timespec that the kernel accepts, a duration of either sign gives one    *)
(* the kernel accepts again, and no time is lost or gained across second    *)
(* boundaries and zero.                                                     *)
THEOREM AdditionIsExact ==
    ASSUME NEW t \in Timespec, NEW c \in Int
    PROVE  /\ timespec_add_chrono(t, c) \in Timespec
           /\ timespec_to_chrono(timespec_add_chrono(t, c)) = timespec_to_chrono(t) + c
<1> DEFINE q == seconds(c)
           s == t.tv_sec
           n == t.tv_nsec
           r == c - q * NS
           out == timespec_add_chrono(t, c)
<1>0. NS \in Nat /\ NS > 0 /\ s \in Int /\ n \in 0 .. NS - 1
  BY NSAssumption DEF Timespec
<1>1. q \in Int /\ r \in Int /\ r > -NS /\ r < NS
  BY <1>0, RemainderBound, SMTT(30)
<1>2. out = IF n + r > NS - 1 THEN [tv_sec |-> (s + q) + 1, tv_nsec |-> (n + r) - NS]
            ELSE IF n + r < 0 THEN [tv_sec |-> (s + q) - 1, tv_nsec |-> (n + r) + NS]
            ELSE [tv_sec |-> s + q, tv_nsec |-> n + r]
  BY Zenon DEF timespec_add_chrono
<1>3. c = q * NS + r
  BY <1>0, <1>1
<1> HIDE DEF q, s, n, r, out
<1>4. out \in Timespec
  BY <1>0, <1>1, <1>2 DEF Timespec
<1>5. /\ (s + q) * NS = s * NS + q * NS
      /\ (s + q + 1) * NS = s * NS + q * NS + NS
      /\ (s + q - 1) * NS = s * NS + q * NS - NS
      /\ s * NS \in Int /\ q * NS \in Int
  BY <1>0, <1>1
<1>6. out.tv_sec * NS + out.tv_nsec = s * NS + n + c
  <2>1. CASE n + r > NS - 1
    <3>1. out.tv_sec = s + q + 1 /\ out.tv_nsec = n + r - NS
      BY <2>1, <1>0, <1>1, <1>2
    <3> QED
      BY <3>1, <1>0, <1>1, <1>3, <1>5
  <2>2. CASE ~(n + r > NS - 1) /\ n + r < 0
    <3>1. out.tv_sec = s + q - 1 /\ out.tv_nsec = n + r + NS
      BY <2>2, <1>0, <1>1, <1>2
    <3> QED
      BY <3>1, <1>0, <1>1, <1>3, <1>5
  <2>3. CASE ~(n + r > NS - 1) /\ ~(n + r < 0)
    <3>1. out.tv_sec = s + q /\ out.tv_nsec = n + r
      BY <2>3, <1>2
    <3> QED
      BY <3>1, <1>0, <1>1, <1>3, <1>5
  <2> QED
    BY <2>1, <2>2, <2>3
<1> QED
  BY <1>4, <1>6 DEF out, s, n, timespec_to_chrono

(* A duration of zero or more converts to a timespec that the kernel        *)
(* accepts, as Opaleye_gpio_mod_ctrl::configure relies on; a negative one   *)
(* that is no whole number of seconds never does.                           *)
THEOREM ConversionIsNormalised ==
    ASSUME NEW c \in Int
    PROVE  /\ c >= 0 => chrono_to_timespec(c) \in Timespec
           /\ c < 0 /\ c # seconds(c) * NS => chrono_to_timespec(c) \notin Timespec
<1>1. NS \in Nat /\ seconds(c) \in Int
  BY NSAssumption, RemainderBound
<1>2. CASE c >= 0
  BY <1>1, <1>2, RemainderBound DEF chrono_to_timespec, Timespec
<1>3. CASE c < 0 /\ c # seconds(c) * NS
  <2> DEFINE p == seconds(c) * NS
  <2>1. p \in Int /\ c - p \in -(NS - 1) .. 0 /\ c # p
    BY <1>1, <1>3, RemainderBound
  <2>2. chrono_to_timespec(c).tv_nsec = c - p
    BY DEF chrono_to_timespec
  <2> HIDE DEF p
  <2>3. c - p < 0
    BY <1>1, <2>1
  <2> QED
    BY <1>1, <1>3, <2>1, <2>2, <2>3 DEF Timespec
<1> QED
  BY <1>2, <1>3

-----------------------------------------------------------------------------
(* OpaleyeGpio. *)

(* Only one process writes to the sysfs files, as Opaleye_app does. *)
OneWriter == \A u, v \in Writers : u = v

-----------------------------------------------------------------------------
(* The arithmetic of the timers. *)

(* A time divided by a length: quotient and rest. *)
LEMMA Division ==
    ASSUME NEW a \in Nat, NEW b \in Nat \ {0}
    PROVE  a \div b \in Nat /\ a % b \in 0 .. b - 1 /\ a = b * (a \div b) + (a % b)
  OBVIOUS

(* A whole number of lengths leaves no rest. *)
LEMMA MultipleLeavesNothing ==
    ASSUME NEW k \in Nat, NEW b \in Nat \ {0}
    PROVE  (k * b) % b = 0
<1> DEFINE a == k * b
           q == a \div b
           r == a % b
<1>1. a \in Nat
  OBVIOUS
<1>2. q \in Nat /\ r \in 0 .. b - 1 /\ a = b * q + r
  BY <1>1, Division, Zenon
<1>3. r = b * (k - q)
  <2>1. b * (k - q) = b * k - b * q /\ b * k = a /\ b * k \in Int /\ b * q \in Int
    BY <1>2
  <2> HIDE DEF a, q, r
  <2> QED
    BY <1>1, <1>2, <2>1
<1> HIDE DEF q, r
<1>4. k - q = 0
  <2>1. ASSUME k - q >= 1 PROVE FALSE
    <3>1. b * (k - q) >= b
      BY <1>2, <2>1
    <3> QED
      BY <1>2, <1>3, <3>1
  <2>2. ASSUME k - q <= -1 PROVE FALSE
    <3>1. b * (k - q) <= -b
      BY <1>2, <2>2
    <3> QED
      BY <1>2, <1>3, <3>1
  <2> QED
    BY <1>2, <2>1, <2>2
<1> QED
  BY <1>2, <1>3, <1>4 DEF r

(* hrtimer_forward_now of a timer that is due is a time. *)
LEMMA ForwardIsTime ==
    ASSUME NEW exp \in Nat, NEW period \in Nat \ {0}, now \in Nat, exp <= now
    PROVE  forward(exp, period) \in Nat
<1> DEFINE q == (now - exp) \div period
<1>1. q \in Nat
  BY Division
<1> HIDE DEF q
<1>2. exp + period * (q + 1) \in Nat
  BY <1>1
<1> QED
  BY <1>2 DEF forward, q

(* The rule of the first pulse, with t0 = 0 or not. *)
LEMMA FirstPulse ==
    ASSUME now \in Nat, cfg.t0 \in Nat
    PROVE  /\ kt_0_on \in Nat
           /\ cfg.t0 = 0 => /\ kt_0_on % Sec = 0
                            /\ 4 * (kt_0_on - now) >= Sec
                            /\ 4 * (kt_0_on - now) < 5 * Sec
<1> DEFINE q == now \div Sec
           r == now % Sec
           top == (q + 1) * Sec
<1>1. Sec \in Nat \ {0}
  BY SecAssumption
<1>2. q \in Nat /\ r \in 0 .. Sec - 1 /\ now = Sec * q + r
  BY <1>1, Division, Zenon
<1>3. kt_0_on = IF cfg.t0 # 0 THEN cfg.t0
                ELSE IF 4 * (top - now) < Sec THEN top + Sec ELSE top
  BY DEF kt_0_on
<1>4. top % Sec = 0 /\ (top + Sec) % Sec = 0 /\ top \in Nat
  <2>1. top + Sec = (q + 2) * Sec /\ q + 1 \in Nat /\ q + 2 \in Nat
    BY <1>1, <1>2
  <2>2. ((q + 1) * Sec) % Sec = 0
    BY <1>1, <2>1, MultipleLeavesNothing
  <2>3. ((q + 2) * Sec) % Sec = 0
    BY <1>1, <2>1, MultipleLeavesNothing, Zenon
  <2>4. top \in Nat
    BY <1>1, <2>1
  <2> QED
    BY <2>1, <2>2, <2>3, <2>4
<1>5. top - now = Sec - r
  <2>1. top = Sec * q + Sec /\ Sec * q \in Nat
    BY <1>1, <1>2
  <2> HIDE DEF q, r, top
  <2> QED
    BY <1>1, <1>2, <2>1
<1> HIDE DEF q, r, top
<1> QED
  BY <1>1, <1>2, <1>3, <1>4, <1>5

-----------------------------------------------------------------------------
(* Types, for any number of writers. *)

(* Whatever was stored, the timers have a period to move forward by. *)
LEMMA ConfigIsUsable ==
    ASSUME TypeOK
    PROVE  /\ cfg.t0 \in Nat /\ cfg.period \in Nat \ {0} /\ cfg.width \in Nat
           /\ now \in Nat
<1>1. Default.t0 \in Nat /\ Default.period \in Nat \ {0} /\ Default.width \in Nat
  BY SecAssumption, Division DEF Default
<1> QED
  BY <1>1, SecAssumption, SettingsAssumption DEF TypeOK

(* Before insmod every variable has its type. *)
LEMMA InitType == Init => TypeOK
<1> SUFFICES ASSUME Init PROVE TypeOK
  OBVIOUS
<1>1. enabled \in BOOLEAN /\ stuck \in BOOLEAN /\ cut \in BOOLEAN
  BY Zenon DEF Init
<1>2. now \in 0 .. MaxTime
  BY SecAssumption DEF Init
<1> QED
  BY <1>1, <1>2 DEF Init, TypeOK, Idle

(* Both timer callbacks queue their timer at a time again. *)
LEMMA TimersKeepType ==
    ASSUME TypeOK, opaleye_gpio_on_timer_cb \/ opaleye_gpio_off_timer_cb \/ tick
    PROVE  TypeOK'
<1>1. CASE opaleye_gpio_on_timer_cb
  <2>1. onExp' \in Nat
    BY <1>1, ConfigIsUsable, ForwardIsTime DEF opaleye_gpio_on_timer_cb, due, TypeOK
  <2> QED
    BY <1>1, <2>1 DEF opaleye_gpio_on_timer_cb, due, TypeOK, Idle
<1>2. CASE opaleye_gpio_off_timer_cb
  <2>1. offExp' \in Nat
    BY <1>2, ConfigIsUsable, ForwardIsTime DEF opaleye_gpio_off_timer_cb, due, TypeOK
  <2>2. cut' \in BOOLEAN
    BY <1>2, Zenon DEF opaleye_gpio_off_timer_cb
  <2> QED
    BY <1>2, <2>1, <2>2 DEF opaleye_gpio_off_timer_cb, due, TypeOK, Idle
<1>3. CASE tick
  BY <1>3, SecAssumption DEF tick, TypeOK, timerVars
<1> QED
  BY <1>1, <1>2, <1>3

(* insmod, its failures and the steps of rmmod. *)
LEMMA StagesKeepType ==
    ASSUME TypeOK,
           \/ gpio_init \/ gpio_init_fails \/ kthread_stop
           \/ main_cancel \/ main_remove \/ gpio_exit_free
    PROVE  TypeOK'
<1>1. CASE main_cancel
  <2>1. cut' \in BOOLEAN
    BY <1>1, Zenon DEF main_cancel, cancel_timers
  <2> QED
    BY <1>1, <2>1 DEF main_cancel, cancel_timers, stage, TypeOK
<1> QED
  BY <1>1 DEF gpio_init, gpio_init_fails, kthread_stop, main_remove, gpio_exit_free,
              stage, timerVars, TypeOK

(* The two sysfs stores, whichever writer they are from. *)
LEMMA WriterKeepsType ==
    ASSUME TypeOK, NEW w \in Writers, writerStep(w)
    PROVE  TypeOK'
<1>1. ASSUME NEW v \in BOOLEAN, enable_store_edge(w, v) PROVE TypeOK'
  BY <1>1 DEF enable_store_edge, timerVars, TypeOK
<1>2. CASE enable_store_locked(w)
  <2>1. /\ onExp' \in Nat \cup {Idle} /\ offExp' \in Nat \cup {Idle}
        /\ (onExp' = Idle) = (offExp' = Idle)
        /\ pin' = pin /\ cut' \in BOOLEAN
    <3>1. CASE cancel_timers
      <4>1. cut' \in BOOLEAN
        BY <3>1, Zenon DEF cancel_timers
      <4> QED
        BY <3>1, <4>1 DEF cancel_timers
    <3>2. CASE start_timers
      <4>1. kt_0_on \in Nat /\ kt_0_on + cfg.width \in Nat
        BY ConfigIsUsable, FirstPulse
      <4> QED
        BY <3>2, <4>1 DEF start_timers, Idle, TypeOK
    <3>3. CASE UNCHANGED timerVars
      BY <3>3 DEF timerVars, TypeOK
    <3> QED
      BY <1>2, <3>1, <3>2, <3>3 DEF enable_store_locked
  <2>2. enabled' \in BOOLEAN /\ seen' \in [Writers -> BOOLEAN] /\ val' \in [Writers -> BOOLEAN]
    BY <1>2, Zenon DEF enable_store_locked, TypeOK
  <2> QED
    BY <1>2, <2>1, <2>2 DEF enable_store_locked, TypeOK
<1>3. ASSUME NEW s \in Settings, timer_settings_store(w, s) PROVE TypeOK'
  <2>1. stuck' \in BOOLEAN
    BY <1>3, Zenon DEF timer_settings_store, TypeOK
  <2> QED
    BY <1>3, <2>1 DEF timer_settings_store, timerVars, TypeOK
<1> QED
  BY <1>1, <1>2, <1>3 DEF writerStep

(* Every step keeps the types. *)
LEMMA NextType == TypeOK /\ [Next]_vars => TypeOK'
<1>1. ASSUME TypeOK, UNCHANGED vars PROVE TypeOK'
  BY <1>1 DEF vars, timerVars, TypeOK
<1> QED
  BY <1>1, TimersKeepType, StagesKeepType, WriterKeepsType DEF Next, moduleStep

-----------------------------------------------------------------------------
(* The step that queues the timers is a store's off -> on. *)
LEMMA OnlyStartQueues ==
    ASSUME TypeOK, [Next]_vars, onExp = Idle, onExp' # Idle
    PROVE  onExp' = kt_0_on
<1>1. PICK w \in Writers : enable_store_locked(w)
  BY DEF Next, moduleStep, writerStep, opaleye_gpio_on_timer_cb, opaleye_gpio_off_timer_cb, due,
         tick, gpio_init, gpio_init_fails, kthread_stop, main_cancel, main_remove,
         gpio_exit_free, cancel_timers, enable_store_edge, timer_settings_store, vars, timerVars
<1> QED
  BY <1>1 DEF enable_store_locked, cancel_timers, start_timers, timerVars

(* However many processes write to the files and whatever the clock's       *)
(* resolution: the timers are queued and cancelled together, and without a  *)
(* t0 the first pulse is on a second between a quarter and one and a        *)
(* quarter seconds away.                                                    *)
THEOREM FirstPulseIsOnTheSecond == Spec => []TypeOK /\ FirstPulseOnTheSecond
<1>1. TypeOK /\ [Next]_vars =>
        [\A w \in Writers :
            at[w] = "edge" /\ onExp = Idle /\ onExp' # Idle /\ cfg.t0 = 0 =>
                /\ onExp' % Sec = 0
                /\ 4 * (onExp' - now) >= Sec /\ 4 * (onExp' - now) < 5 * Sec]_vars
  BY OnlyStartQueues, FirstPulse, ConfigIsUsable
<1> QED
  BY <1>1, InitType, NextType, PTL DEF Spec, FirstPulseOnTheSecond

-----------------------------------------------------------------------------
(* With one writer, what it read from "enabled" is still true when it has   *)
(* the mutex, so "enabled" and the timers change together.                  *)

SeenIsEnabled == \A w \in Writers : at[w] = "edge" => seen[w] = enabled

TimersFollow == life \in {"loading", "loaded"} => enabled = Armed

GpioInv == TypeOK /\ SeenIsEnabled /\ TimersFollow

(* Before insmod no store is under way and no timer is queued. *)
LEMMA InitGpio == Init => GpioInv
<1> SUFFICES ASSUME Init PROVE GpioInv
  OBVIOUS
<1>1. SeenIsEnabled
  BY DEF Init, SeenIsEnabled
<1>2. TimersFollow
  BY Zenon DEF Init, TimersFollow, Armed
<1> QED
  BY <1>1, <1>2, InitType DEF GpioInv

(* The timers requeue themselves; rmmod cancels them, no longer loaded. *)
LEMMA ModuleKeeps ==
    ASSUME GpioInv, moduleStep, TypeOK'
    PROVE  SeenIsEnabled' /\ TimersFollow'
<1>1. SeenIsEnabled'
  BY DEF GpioInv, SeenIsEnabled, moduleStep, opaleye_gpio_on_timer_cb,
         opaleye_gpio_off_timer_cb, tick, gpio_init, gpio_init_fails, kthread_stop,
         main_cancel, main_remove, gpio_exit_free, stage
<1>2. TimersFollow'
  <2>1. CASE opaleye_gpio_on_timer_cb
    <3>1. onExp' # Idle
      BY <2>1 DEF GpioInv, TypeOK, opaleye_gpio_on_timer_cb, due
    <3> QED
      BY <2>1, <3>1 DEF GpioInv, TypeOK, TimersFollow, Armed, opaleye_gpio_on_timer_cb, due
  <2>2. CASE opaleye_gpio_off_timer_cb
    BY <2>2 DEF GpioInv, TypeOK, TimersFollow, Armed, opaleye_gpio_off_timer_cb, due
  <2>3. CASE tick
    BY <2>3 DEF GpioInv, TimersFollow, Armed, tick, timerVars
  <2>4. CASE gpio_init \/ gpio_init_fails \/ kthread_stop \/ main_remove \/ gpio_exit_free
    BY <2>4 DEF GpioInv, TimersFollow, Armed, gpio_init, gpio_init_fails, kthread_stop,
                main_remove, gpio_exit_free, stage, timerVars
  <2>5. CASE main_cancel
    BY <2>5 DEF TimersFollow, main_cancel, stage
  <2> QED
    BY <2>1, <2>2, <2>3, <2>4, <2>5 DEF moduleStep
<1> QED
  BY <1>1, <1>2

(* A store of the only writer changes enabled and the timers together. *)
LEMMA WriterKeeps ==
    ASSUME OneWriter, GpioInv, NEW w \in Writers, writerStep(w)
    PROVE  SeenIsEnabled' /\ TimersFollow'
<1>1. ASSUME NEW v \in BOOLEAN, enable_store_edge(w, v) PROVE SeenIsEnabled' /\ TimersFollow'
  <2>1. SeenIsEnabled'
    BY <1>1 DEF OneWriter, GpioInv, TypeOK, SeenIsEnabled, enable_store_edge
  <2> QED
    BY <1>1, <2>1 DEF GpioInv, TimersFollow, Armed, enable_store_edge, timerVars
<1>2. CASE enable_store_locked(w)
  <2>1. SeenIsEnabled'
    BY <1>2 DEF OneWriter, GpioInv, TypeOK, SeenIsEnabled, enable_store_locked
  <2>2. seen[w] = enabled /\ enabled' = val[w] /\ life' = life
    BY <1>2 DEF GpioInv, SeenIsEnabled, enable_store_locked
  <2>3. seen[w] \in BOOLEAN /\ val[w] \in BOOLEAN /\ enabled \in BOOLEAN
    BY DEF GpioInv, TypeOK
  <2>4. CASE seen[w] /\ ~val[w]
    BY <1>2, <2>1, <2>2, <2>3, <2>4 DEF TimersFollow, Armed, enable_store_locked, cancel_timers
  <2>5. CASE ~seen[w] /\ val[w]
    <3>1. kt_0_on \in Nat /\ kt_0_on + cfg.width \in Nat
      BY ConfigIsUsable, FirstPulse DEF GpioInv
    <3>2. onExp' # Idle /\ offExp' # Idle
      BY <1>2, <2>5, <3>1 DEF enable_store_locked, start_timers, Idle
    <3> QED
      BY <2>1, <2>2, <2>3, <2>5, <3>2, Zenon DEF TimersFollow, Armed
  <2>6. CASE seen[w] = val[w]
    <3>1. UNCHANGED <<onExp, offExp>>
      BY <1>2, <2>6 DEF enable_store_locked, timerVars
    <3> QED
      BY <2>1, <2>2, <2>3, <2>6, <3>1 DEF GpioInv, TimersFollow, Armed
  <2> QED
    BY <2>3, <2>4, <2>5, <2>6
<1>3. ASSUME NEW s \in Settings, timer_settings_store(w, s) PROVE SeenIsEnabled' /\ TimersFollow'
  BY <1>3 DEF GpioInv, SeenIsEnabled, TimersFollow, Armed, timer_settings_store, timerVars
<1> QED
  BY <1>1, <1>2, <1>3 DEF writerStep

(* Every step of a module with one writer keeps the invariant. *)
LEMMA NextGpio ==
    ASSUME OneWriter
    PROVE  GpioInv /\ [Next]_vars => GpioInv'
<1> SUFFICES ASSUME GpioInv, [Next]_vars PROVE GpioInv'
  OBVIOUS
<1>1. TypeOK'
  BY NextType DEF GpioInv
<1>2. CASE UNCHANGED vars
  BY <1>1, <1>2 DEF vars, timerVars, GpioInv, SeenIsEnabled, TimersFollow, Armed
<1> QED
  BY <1>1, <1>2, ModuleKeeps, WriterKeeps DEF Next, GpioInv

(* With one writer, which is how Opaleye_app uses the module, a store acts  *)
(* on the change it makes, and while the module is loaded the timers run    *)
(* just when g_gpio_state->enabled says so.  With two writers neither holds *)
(* (EdgeIsTransition has a counterexample).                                 *)
THEOREM OneWriterIsConsistent ==
    ASSUME OneWriter
    PROVE  Spec => []EnabledMatchesTimers /\ EdgeIsTransition
<1>1. GpioInv => EnabledMatchesTimers
  BY DEF GpioInv, TimersFollow, EnabledMatchesTimers
<1>2. GpioInv /\ [Next]_vars =>
        [\A w \in Writers :
            at[w] = "edge" /\ at'[w] = "outside" => seen[w] = enabled]_vars
  BY DEF GpioInv, SeenIsEnabled
<1>3. GpioInv /\ [Next]_vars => GpioInv'
  BY NextGpio
<1> QED
  BY <1>1, <1>2, <1>3, InitGpio, PTL DEF Spec, EdgeIsTransition
-----------------------------------------------------------------------------
(* The pulses.  Both timers move in whole periods, so that the distance     *)
(* from an on to an off stays a width modulo the period; which of the two   *)
(* is next follows from when each was last forwarded.                       *)

(* A pulse and a pause in every period. *)
Pulsed == 0 < cfg.width /\ cfg.width < cfg.period

TrainInv ==
    Armed /\ Pulsed =>
        /\ \E j \in Int : offExp = onExp + cfg.width + j * cfg.period
        /\ offExp <= onExp + cfg.width
        /\ offExp < onExp => onExp > now

(* Timers run only while enabled, and pins that are high without them were  *)
(* left so by a disable.                                                    *)
PinInv ==
    /\ Armed => enabled
    /\ pin = 1 => Armed \/ cut

PulseInv == GpioInv /\ PinInv /\ TrainInv /\ PulseEnds

(* The only multiple of a length that is less than the length away from     *)
(* zero.                                                                    *)
LEMMA SmallMultiple ==
    ASSUME NEW j \in Int, NEW b \in Nat \ {0}
    PROVE  /\ j * b \in Int
           /\ j * b < b => j <= 0
           /\ j * b > -b => j >= 0
           /\ j <= 0 => j * b <= 0
           /\ j <= -1 => j * b <= -b
<1> DEFINE p == j * b
<1>1. j >= 1 => p >= b
  OBVIOUS
<1>2. j <= -1 => p <= -b
  OBVIOUS
<1>3. j <= 0 => p <= 0
  OBVIOUS
<1>4. p \in Int
  OBVIOUS
<1> HIDE DEF p
<1>5. /\ p < b => j <= 0
      /\ p > -b => j >= 0
  BY <1>1, <1>2, <1>4
<1> QED
  BY <1>2, <1>3, <1>4, <1>5 DEF p

(* hrtimer_forward_now moves an expired timer by whole periods, past now    *)
(* and no further than one period past it.                                  *)
LEMMA ForwardByPeriods ==
    ASSUME NEW exp \in Nat, NEW period \in Nat \ {0}, now \in Nat, exp <= now
    PROVE  \E m \in Nat : /\ m >= 1
                          /\ forward(exp, period) = exp + m * period
                          /\ forward(exp, period) > now
                          /\ forward(exp, period) <= now + period
<1> DEFINE a == now - exp
           q == a \div period
           r == a % period
<1>1. a \in Nat
  OBVIOUS
<1>2. q \in Nat /\ r \in 0 .. period - 1 /\ a = period * q + r
  BY <1>1, Division, Zenon
<1>3. forward(exp, period) = exp + period * (q + 1)
  BY DEF forward
<1>4. period * (q + 1) = period * q + period /\ period * (q + 1) = (q + 1) * period
      /\ period * q \in Nat
  BY <1>2
<1>5. now = exp + a
  OBVIOUS
<1> HIDE DEF a, q, r
<1>6. exp + period * (q + 1) > now /\ exp + period * (q + 1) <= now + period
  BY <1>1, <1>2, <1>4, <1>5
<1> QED
  BY <1>2, <1>3, <1>4, <1>6

(* The on timer fires with the off timer one width behind it, so that the   *)
(* pulse it begins ends before its own next turn.                           *)
LEMMA OnKeepsTrain ==
    ASSUME PulseInv, opaleye_gpio_on_timer_cb
    PROVE  PinInv' /\ TrainInv' /\ PulseEnds'
<1> DEFINE P == cfg.period
           W == cfg.width
<1>1. P \in Nat \ {0} /\ W \in Nat /\ now \in Nat
  BY ConfigIsUsable DEF PulseInv, GpioInv
<1>2. /\ onExp \in Nat /\ offExp \in Nat /\ onExp <= now /\ Armed
      /\ offExp <= now => onExp <= offExp
      /\ UNCHANGED <<enabled, cfg, offExp, cut, now>>
  BY DEF PulseInv, GpioInv, TypeOK, opaleye_gpio_on_timer_cb, due, Armed
<1>3. PICK m \in Nat : m >= 1 /\ onExp' = onExp + m * P /\ onExp' > now
  BY <1>1, <1>2, ForwardByPeriods, Zenon DEF opaleye_gpio_on_timer_cb
<1>4. PinInv'
  <2>1. enabled'
    BY <1>2 DEF PulseInv, PinInv
  <2>2. Armed'
    BY <1>1, <1>2, <1>3 DEF Armed, Idle
  <2> QED
    BY <2>1, <2>2 DEF PinInv
<1>5. ASSUME Pulsed
      PROVE  /\ offExp = onExp + W
             /\ offExp <= onExp' + W - P
             /\ offExp = onExp' + W + (-m) * P
  <2>1. 0 < W /\ W < P
    BY <1>5 DEF Pulsed
  <2>2. PICK j \in Int : offExp = onExp + W + j * P
    BY <1>2, <1>5 DEF PulseInv, TrainInv
  <2>3. offExp >= onExp /\ offExp <= onExp + W
    BY <1>1, <1>2, <1>5 DEF PulseInv, TrainInv
  <2>4. j = 0
    <3>1. j * P \in Int /\ (j * P < P => j <= 0) /\ (j * P > -P => j >= 0)
      BY <1>1, SmallMultiple
    <3> QED
      BY <1>1, <1>2, <2>1, <2>2, <2>3, <3>1
  <2>5. offExp = onExp + W
    BY <1>1, <1>2, <2>2, <2>4
  <2>6. (-m) * P = -(m * P) /\ m * P >= P /\ m * P \in Int
    BY <1>1, <1>3
  <2> QED
    BY <1>1, <1>2, <1>3, <2>5, <2>6
<1>6. TrainInv'
  <2> SUFFICES ASSUME Armed', Pulsed'
               PROVE  /\ \E j \in Int : offExp' = onExp' + W + j * P
                      /\ offExp' <= onExp' + W
                      /\ onExp' > now'
    BY <1>2 DEF TrainInv
  <2>1. Pulsed
    BY <1>2 DEF Pulsed
  <2>2. -m \in Int
    BY <1>3
  <2>3. onExp' \in Int
    BY <1>1, <1>2, <1>3
  <2>4. offExp' <= onExp' + W
    BY <1>1, <1>2, <1>5, <2>1, <2>3
  <2> QED
    BY <1>2, <1>3, <1>5, <2>1, <2>2, <2>4
<1>7. PulseEnds'
  <2> SUFFICES ASSUME Pulsed
               PROVE  offExp' < onExp' /\ offExp' <= now' + W
    BY <1>2 DEF PulseEnds, Pulsed
  <2>1. onExp' \in Int /\ W < P
    BY <1>1, <1>2, <1>3 DEF Pulsed
  <2> QED
    BY <1>1, <1>2, <1>5, <2>1
<1> QED
  BY <1>4, <1>6, <1>7

(* The off timer fires before the on timer is due again, so that its next   *)
(* turn is the end of the next pulse.                                       *)
LEMMA OffKeepsTrain ==
    ASSUME PulseInv, opaleye_gpio_off_timer_cb
    PROVE  PinInv' /\ TrainInv' /\ PulseEnds'
<1> DEFINE P == cfg.period
           W == cfg.width
<1>1. P \in Nat \ {0} /\ W \in Nat /\ now \in Nat
  BY ConfigIsUsable DEF PulseInv, GpioInv
<1>2. /\ onExp \in Nat /\ offExp \in Nat /\ offExp <= now /\ Armed
      /\ onExp <= now => offExp <= onExp
      /\ UNCHANGED <<enabled, cfg, onExp, now>> /\ pin' = 0
  BY DEF PulseInv, GpioInv, TypeOK, opaleye_gpio_off_timer_cb, due, Armed
<1>3. PICK m \in Nat : /\ m >= 1 /\ offExp' = offExp + m * P
                       /\ offExp' > now /\ offExp' <= now + P
  BY <1>1, <1>2, ForwardByPeriods, Zenon DEF opaleye_gpio_off_timer_cb
<1>4. PinInv' /\ PulseEnds'
  <2>1. enabled'
    BY <1>2 DEF PulseInv, PinInv
  <2> QED
    BY <1>2, <2>1 DEF PinInv, PulseEnds
<1>5. TrainInv'
  <2> SUFFICES ASSUME Armed', Pulsed'
               PROVE  /\ \E j \in Int : offExp' = onExp' + W + j * P
                      /\ offExp' <= onExp' + W
                      /\ offExp' < onExp' => onExp' > now'
    BY <1>2 DEF TrainInv
  <2>1. 0 < W /\ W < P /\ Pulsed
    BY <1>2 DEF Pulsed
  <2>2. PICK j \in Int : offExp = onExp + W + j * P
    BY <1>2, <2>1 DEF PulseInv, TrainInv
  <2> DEFINE k == j + m
  <2>3. k \in Int /\ k * P = j * P + m * P /\ j * P \in Int /\ m * P \in Int /\ k * P \in Int
    BY <1>1, <1>3
  <2>4. offExp' = onExp + W + k * P
    BY <1>1, <1>2, <1>3, <2>2, <2>3
  <2>5. onExp > now
    <3>1. SUFFICES ASSUME onExp <= now PROVE FALSE
      BY <1>1, <1>2
    <3>2. offExp = onExp
      BY <1>1, <1>2, <2>1, <3>1 DEF PulseInv, TrainInv
    <3>3. (j * P < P => j <= 0) /\ (j * P > -P => j >= 0)
      BY <1>1, SmallMultiple
    <3>4. j = 0
      BY <1>1, <1>2, <2>1, <2>2, <2>3, <3>2, <3>3
    <3> QED
      BY <1>1, <1>2, <2>1, <2>2, <3>2, <3>4
  <2>6. k <= 0 /\ k * P <= 0
    <3>1. (k * P < P => k <= 0) /\ (k <= 0 => k * P <= 0)
      BY <1>1, <2>3, SmallMultiple
    <3> HIDE DEF k
    <3>2. k * P < P
      BY <1>1, <1>2, <1>3, <2>1, <2>3, <2>4, <2>5
    <3> QED
      BY <3>1, <3>2
  <2> HIDE DEF k
  <2>7. offExp' <= onExp + W
    BY <1>1, <1>2, <2>3, <2>4, <2>6
  <2> QED
    BY <1>2, <2>3, <2>4, <2>5, <2>7
<1> QED
  BY <1>4, <1>5

(* The clock moves on while neither timer is due. *)
LEMMA TickKeepsTrain ==
    ASSUME PulseInv, tick
    PROVE  PinInv' /\ TrainInv' /\ PulseEnds'
<1>1. cfg.width \in Nat /\ now \in Nat
  BY ConfigIsUsable DEF PulseInv, GpioInv
<1>2. now' = now + 1 /\ UNCHANGED <<enabled, cfg, onExp, offExp, pin, cut>>
  BY DEF tick, timerVars
<1>3. Armed => onExp \in Nat /\ offExp \in Nat /\ onExp > now /\ offExp > now
  BY <1>1 DEF PulseInv, GpioInv, TypeOK, Armed, tick, due
<1>4. PinInv'
  BY <1>2 DEF PulseInv, PinInv, Armed
<1>5. TrainInv'
  <2> SUFFICES ASSUME Armed, Pulsed PROVE TrainInv'
    BY <1>2 DEF TrainInv, Armed, Pulsed
  <2>1. offExp < onExp => onExp > now + 1
    BY <1>1, <1>3
  <2> QED
    BY <1>2, <2>1 DEF PulseInv, TrainInv, Armed, Pulsed
<1>6. PulseEnds'
  BY <1>1, <1>2, <1>3 DEF PulseInv, PulseEnds, Armed
<1> QED
  BY <1>4, <1>5, <1>6

(* A step that leaves the clock, the timers, the pins and what governs them *)
(* alone.                                                                   *)
LEMMA StillTrain ==
    ASSUME PulseInv, UNCHANGED <<enabled, cfg, timerVars, now>>
    PROVE  PinInv' /\ TrainInv' /\ PulseEnds'
  BY DEF PulseInv, PinInv, TrainInv, PulseEnds, Armed, Pulsed, timerVars

(* Cancelled timers leave nothing to say of the train, and the pins as they *)
(* are.                                                                     *)
LEMMA CancelKeepsTrain ==
    ASSUME PulseInv, cancel_timers
    PROVE  PinInv' /\ TrainInv' /\ PulseEnds'
<1>1. ~Armed' /\ pin' = pin
  BY DEF cancel_timers, Armed
<1>2. pin = 1 => cut'
  BY Zenon DEF cancel_timers
<1> QED
  BY <1>1, <1>2 DEF PinInv, TrainInv, PulseEnds

(* A store of the only writer: it starts timers that do not run, and leaves *)
(* the settings alone while they do.                                        *)
LEMMA WriterKeepsTrain ==
    ASSUME PulseInv, NEW w \in Writers, writerStep(w)
    PROVE  PinInv' /\ TrainInv' /\ PulseEnds'
<1>1. ASSUME NEW v \in BOOLEAN, enable_store_edge(w, v)
      PROVE  PinInv' /\ TrainInv' /\ PulseEnds'
  BY <1>1, StillTrain DEF enable_store_edge
<1>2. CASE enable_store_locked(w)
  <2>1. seen[w] = enabled /\ enabled' = val[w] /\ UNCHANGED <<cfg, now>>
    BY <1>2 DEF PulseInv, GpioInv, SeenIsEnabled, enable_store_locked
  <2>2. seen[w] \in BOOLEAN /\ val[w] \in BOOLEAN /\ enabled \in BOOLEAN
    BY DEF PulseInv, GpioInv, TypeOK
  <2>3. CASE seen[w] /\ ~val[w]
    BY <1>2, <2>3, CancelKeepsTrain DEF enable_store_locked
  <2>4. CASE ~seen[w] /\ val[w]
    <3>1. ~Armed /\ (pin = 1 => cut)
      BY <2>1, <2>2, <2>4 DEF PulseInv, PinInv
    <3>2. onExp' = kt_0_on /\ offExp' = kt_0_on + cfg.width /\ UNCHANGED <<pin, cut>> /\ enabled'
      BY <1>2, <2>1, <2>4 DEF enable_store_locked, start_timers
    <3>3. kt_0_on \in Nat /\ cfg.width \in Nat /\ cfg.period \in Nat
      BY ConfigIsUsable, FirstPulse DEF PulseInv, GpioInv
    <3>4. PinInv'
      <4>1. onExp' # Idle /\ offExp' # Idle
        BY <3>2, <3>3 DEF Idle
      <4> QED
        BY <3>2, <4>1 DEF PinInv, Armed
    <3>5. PulseEnds'
      BY <3>1, <3>2 DEF PulseEnds
    <3>6. TrainInv'
      <4>1. offExp' = onExp' + cfg'.width + 0 * cfg'.period
        BY <2>1, <3>2, <3>3
      <4>2. offExp' <= onExp' + cfg'.width /\ ~(offExp' < onExp')
        BY <2>1, <3>2, <3>3
      <4> QED
        BY <4>1, <4>2 DEF TrainInv
    <3> QED
      BY <3>4, <3>5, <3>6
  <2>5. CASE seen[w] = val[w]
    <3>1. UNCHANGED timerVars
      BY <1>2, <2>5 DEF enable_store_locked
    <3>2. UNCHANGED enabled
      BY <2>1, <2>5
    <3> QED
      BY <2>1, <3>1, <3>2, StillTrain
  <2> QED
    BY <2>2, <2>3, <2>4, <2>5
<1>3. ASSUME NEW s \in Settings, timer_settings_store(w, s)
      PROVE  PinInv' /\ TrainInv' /\ PulseEnds'
  <2>1. UNCHANGED <<enabled, timerVars, now>> /\ (enabled => UNCHANGED cfg)
    BY <1>3 DEF timer_settings_store
  <2>2. CASE enabled
    BY <2>1, <2>2, StillTrain
  <2>3. CASE ~enabled
    <3>1. ~Armed /\ UNCHANGED <<enabled, pin, cut, onExp, offExp>>
      BY <2>1, <2>3 DEF PulseInv, PinInv, timerVars
    <3> QED
      BY <3>1 DEF PulseInv, PinInv, TrainInv, PulseEnds, Armed
  <2> QED
    BY <2>2, <2>3
<1> QED
  BY <1>1, <1>2, <1>3 DEF writerStep

(* Every step of a module with one writer keeps the pulses. *)
LEMMA NextPulse ==
    ASSUME OneWriter
    PROVE  PulseInv /\ [Next]_vars => PulseInv'
<1> SUFFICES ASSUME PulseInv, [Next]_vars PROVE PulseInv'
  OBVIOUS
<1>1. GpioInv'
  BY NextGpio DEF PulseInv
<1>2. CASE gpio_init \/ gpio_init_fails \/ kthread_stop \/ main_remove \/ gpio_exit_free
  BY <1>1, <1>2, StillTrain DEF PulseInv, gpio_init, gpio_init_fails, kthread_stop,
                                main_remove, gpio_exit_free, stage
<1>3. CASE main_cancel
  BY <1>1, <1>3, CancelKeepsTrain DEF PulseInv, main_cancel
<1>4. CASE UNCHANGED vars
  BY <1>1, <1>4, StillTrain DEF PulseInv, vars
<1> QED
  BY <1>1, <1>2, <1>3, <1>4, OnKeepsTrain, OffKeepsTrain, TickKeepsTrain, WriterKeepsTrain
  DEF PulseInv, Next, moduleStep

(* With one writer, whatever its settings, however often it enables and     *)
(* disables the trigger and whatever the clock's resolution: a pulse that   *)
(* is not cut off ends before the next begins, within its width.            *)
THEOREM PulsesAreSeparate ==
    ASSUME OneWriter
    PROVE  Spec => []PulseEnds
<1>1. Init => PulseInv
  <2>1. Init => PinInv /\ TrainInv /\ PulseEnds
    BY DEF Init, PinInv, TrainInv, PulseEnds, Armed
  <2> QED
    BY <2>1, InitGpio DEF PulseInv
<1>2. PulseInv /\ [Next]_vars => PulseInv'
  BY NextPulse
<1>3. PulseInv => PulseEnds
  BY DEF PulseInv
<1> QED
  BY <1>1, <1>2, <1>3, PTL DEF Spec
-----------------------------------------------------------------------------
(* GpioControl: the text of a time. *)

(* Induction over numbers, as the least element of a set of them. *)
LEMMA LeastNumber ==
    ASSUME NEW T \in SUBSET Nat, T # {}
    PROVE  \E m \in T : \A k \in T : m <= k
<1> DEFINE R == OpToRel(<, Nat)
<1>1. IsWellFoundedOn(R, Nat)
  BY NatLessThanWellFounded, Zenon
<1>2. \A a, b \in Nat : a < b => <<a, b>> \in R
  BY DEF OpToRel
<1> HIDE DEF R
<1>3. PICK m \in T : \A k \in T : ~(<<k, m>> \in R)
  BY <1>1, WFMin, Zenon
<1>4. ASSUME NEW k \in T PROVE m <= k
  <2>1. m \in Nat /\ k \in Nat /\ ~(<<k, m>> \in R)
    BY <1>3
  <2> QED
    BY <1>2, <2>1
<1> QED
  BY <1>4

(* Quotient and rest are the only ones. *)
LEMMA DivisionIsUnique ==
    ASSUME NEW d \in Nat \ {0}, NEW q \in Nat, NEW r \in 0 .. d - 1,
           NEW n \in Nat, n = d * q + r
    PROVE  n \div d = q
<1> DEFINE a == n \div d
           b == n % d
           k == q - a
<1>1. a \in Nat /\ b \in 0 .. d - 1 /\ n = d * a + b
  BY Division, Zenon
<1>2. k * d = d * q - d * a /\ d * q \in Int /\ d * a \in Int /\ k \in Int
  BY <1>1
<1>3. k * d \in Int /\ (k * d < d => k <= 0) /\ (k * d > -d => k >= 0)
  BY <1>2, SmallMultiple
<1> HIDE DEF a, b
<1>4. k * d < d /\ k * d > -d
  BY <1>1, <1>2
<1>5. k = 0
  BY <1>2, <1>3, <1>4
<1> QED
  BY <1>1, <1>5 DEF a

(* One decimal place further. *)
LEMMA NextPlace ==
    ASSUME NEW n \in Nat, NEW p \in Nat \ {0}
    PROVE  /\ n \div (10 * p) = (n \div p) \div 10
           /\ (n \div p) * p = ((n \div p) \div 10) * (10 * p) + ((n \div p) % 10) * p
<1> DEFINE q == n \div p
           r == n % p
           a == q \div 10
           b == q % 10
<1>1. q \in Nat /\ r \in 0 .. p - 1 /\ n = p * q + r
  BY Division, ZenonT(60)
<1>2. a \in Nat /\ b \in 0 .. 9 /\ q = 10 * a + b
  BY <1>1, Division
<1> HIDE DEF q, r, a, b
<1>3. p * q = (10 * p) * a + b * p /\ q * p = a * (10 * p) + b * p
  BY <1>1, <1>2
<1>4. b * p + r \in 0 .. 10 * p - 1
  <2>1. b * p <= 9 * p /\ b * p >= 0 /\ b * p \in Int
    BY <1>2
  <2> QED
    BY <1>1, <2>1
<1>5. 10 * p \in Nat \ {0} /\ b * p \in Int /\ (10 * p) * a \in Int
  BY <1>2
<1>6. n = (10 * p) * a + (b * p + r)
  BY <1>1, <1>3, <1>5
<1>7. n \div (10 * p) = a
  BY <1>2, <1>4, <1>5, <1>6, DivisionIsUnique
<1> QED
  BY <1>3, <1>7 DEF q, a, b

(* The digits "%09ld" makes of n. *)
DigitsOf(n) == [i \in 1 .. Len(Places) |-> (n \div Places[i]) % 10]

(* What nsstr_to_ns has after i digits of n: n cut off at the i-th place,   *)
(* and the weight of the next digit, which is 0 behind the last.            *)
Expected(n) ==
    [i \in 0 .. Len(Places) |->
        [accum |-> IF i = 0 THEN 0 ELSE (n \div Places[i]) * Places[i],
         mul   |-> IF i = Len(Places) THEN 0 ELSE Places[i + 1]]]

(* One turn of nsstr_to_ns's loop. *)
ReadStep(str, f, i) ==
    IF i = 0 THEN [accum |-> 0, mul |-> NS \div 10]
    ELSE [accum |-> f[i - 1].accum + str[i] * f[i - 1].mul,
          mul   |-> f[i - 1].mul \div 10]

(* The weights of the places, each a tenth of the one before. *)
LEMMA Weights ==
    /\ Len(Places) \in Nat \ {0}
    /\ \A i \in 1 .. Len(Places) : Places[i] \in Nat \ {0}
    /\ Places[1] = NS \div 10 /\ NS = 10 * Places[1]
    /\ Places[Len(Places)] = 1
    /\ \A i \in 1 .. Len(Places) - 1 : Places[i + 1] = Places[i] \div 10 /\ Places[i] = 10 * Places[i + 1]
<1>1. /\ Len(Places) \in Nat \ {0}
      /\ \A i \in 1 .. Len(Places) : Places[i] \in Nat \ {0}
  BY PlacesAssumption
<1>2. ASSUME NEW p \in Nat PROVE (10 * p) \div 10 = p
  BY DivisionIsUnique
<1>3. Places[1] = NS \div 10
  BY <1>1, <1>2, PlacesAssumption
<1>4. ASSUME NEW i \in 1 .. Len(Places) - 1 PROVE Places[i + 1] = Places[i] \div 10
  BY <1>1, <1>2, PlacesAssumption, SMTT(30)
<1> QED
  BY <1>1, <1>3, <1>4, PlacesAssumption

(* The digits are read back place by place. *)
LEMMA ExpectedSolves ==
    ASSUME NEW n \in 0 .. NS - 1, NEW i \in 0 .. Len(Places)
    PROVE  Expected(n)[i] = ReadStep(DigitsOf(n), Expected(n), i)
<1> DEFINE D == Len(Places)
<1>0. D \in Nat \ {0} /\ n \in Nat /\ NS \in Nat
  BY Weights, NSAssumption
<1>1. CASE i = 0
  BY <1>0, <1>1, Weights DEF Expected, ReadStep
<1>2. CASE i > 0
  <2> DEFINE p == Places[i]
  <2>1. i \in 1 .. D /\ i - 1 \in 0 .. D /\ i - 1 # D /\ p \in Nat \ {0}
    BY <1>0, <1>2, Weights
  <2>2. /\ Expected(n)[i - 1].mul = p
        /\ Expected(n)[i - 1].accum = ((n \div p) \div 10) * (10 * p)
    <3>1. CASE i = 1
      <4>1. n \div (10 * p) = 0
        <5>1. 10 * p = NS /\ NS \in Nat \ {0} /\ n = NS * 0 + n
          BY <1>0, <3>1, Weights, NSAssumption
        <5> QED
          BY <1>0, <5>1, DivisionIsUnique
      <4>2. (n \div p) \div 10 = 0
        BY <1>0, <2>1, <4>1, NextPlace, Zenon
      <4> QED
        BY <2>1, <3>1, <4>2 DEF Expected
    <3>2. CASE i # 1
      <4>1. i - 1 \in 1 .. D - 1 /\ Places[i - 1] = 10 * p
        <5>1. i - 1 \in 1 .. D - 1 /\ (i - 1) + 1 = i
          BY <1>0, <2>1, <3>2
        <5> QED
          BY <5>1, Weights
      <4>2. n \div (10 * p) = (n \div p) \div 10
        BY <1>0, <2>1, NextPlace, Zenon
      <4> QED
        BY <2>1, <4>1, <4>2 DEF Expected
    <3> QED
      BY <3>1, <3>2
  <2>3. DigitsOf(n)[i] = (n \div p) % 10
    BY <2>1 DEF DigitsOf
  <2>4. (n \div p) * p = ((n \div p) \div 10) * (10 * p) + ((n \div p) % 10) * p
    BY <1>0, <2>1, NextPlace, Zenon
  <2>5. (IF i = D THEN 0 ELSE Places[i + 1]) = p \div 10
    <3>1. CASE i = D
      <4>1. p = 1
        BY <3>1, Weights
      <4> QED
        BY <3>1, <4>1
    <3>2. CASE i # D
      BY <1>0, <2>1, <3>2, Weights
    <3> QED
      BY <3>1, <3>2
  <2>6. Expected(n)[i] = [accum |-> (n \div p) * p, mul |-> p \div 10]
    BY <1>2, <2>1, <2>5 DEF Expected
  <2>7. ReadStep(DigitsOf(n), Expected(n), i) =
        [accum |-> ((n \div p) \div 10) * (10 * p) + ((n \div p) % 10) * p, mul |-> p \div 10]
    BY <1>2, <2>2, <2>3 DEF ReadStep
  <2> QED
    BY <2>4, <2>6, <2>7
<1> QED
  BY <1>0, <1>1, <1>2

(* The nanoseconds that are written with leading zeros are read back. *)
LEMMA DigitsSurvive ==
    ASSUME NEW n \in 0 .. NS - 1
    PROVE  nsstr_to_ns(DigitsOf(n)) = n
<1> DEFINE str == DigitsOf(n)
           D == Len(Places)
           Eq(f) == f = [i \in 0 .. Len(str) |-> ReadStep(str, f, i)]
           got == digits_read(str)
<1>0. D \in Nat \ {0} /\ n \in Nat
  BY Weights, NSAssumption
<1>1. Len(str) = D
  BY <1>0 DEF DigitsOf
<1>2. got = CHOOSE f : Eq(f)
  BY DEF digits_read, ReadStep
<1>3. Eq(Expected(n))
  <2>1. Expected(n) = [i \in 0 .. D |-> Expected(n)[i]]
    BY DEF Expected
  <2> QED
    BY <1>1, <2>1, ExpectedSolves
<1> HIDE DEF Eq, got
<1>4. Eq(got)
  BY <1>2, <1>3
<1>5. \A i \in 0 .. D : got[i] = ReadStep(str, got, i)
  BY <1>1, <1>4 DEF Eq
<1>6. \A i \in 0 .. D : got[i] = Expected(n)[i]
  <2> DEFINE T == {i \in 0 .. D : got[i] # Expected(n)[i]}
  <2>1. SUFFICES ASSUME T # {} PROVE FALSE
    OBVIOUS
  <2>2. \E m \in T : \A k \in T : m <= k
    <3>1. T \in SUBSET Nat
      BY <1>0
    <3> HIDE DEF T
    <3> QED
      BY <2>1, <3>1, LeastNumber
  <2> PICK m \in T : \A k \in T : m <= k
    BY <2>2
  <2>3. m # 0
    BY <1>5, ExpectedSolves, ZenonT(60) DEF ReadStep
  <2>4. m - 1 \in 0 .. D /\ m - 1 \notin T
    BY <1>0, <2>3
  <2>5. got[m - 1] = Expected(n)[m - 1]
    BY <2>4
  <2>6. got[m] = Expected(n)[m]
    BY <1>5, <2>3, <2>5, ExpectedSolves, ZenonT(60) DEF ReadStep
  <2> QED
    BY <2>6
<1>7. Expected(n)[D].accum = n
  <2>1. n \div 1 = n /\ n * 1 = n
    BY <1>0
  <2> QED
    BY <1>0, <2>1, Weights DEF Expected
<1>8. nsstr_to_ns(str) = got[D].accum
  BY <1>1 DEF nsstr_to_ns, got
<1> QED
  BY <1>0, <1>6, <1>7, <1>8

(* A time that Opaleye_gpio_mod_ctrl::configure prints is read back by the  *)
(* module as it was, unless it is negative and no whole number of seconds:  *)
(* that one, and no other, is not parsed.                                   *)
THEOREM TextRoundTrip ==
    ASSUME NEW c \in Int
    PROVE  IF c < 0 /\ c # seconds(c) * NS
           THEN duration_text(c).frac = <<>>
           ELSE duration_text(c).frac # <<>> /\ ktime_set(duration_text(c)) = c
<1> DEFINE q == seconds(c)
           n == c - q * NS
<1>0. NS \in Nat \ {0} /\ q \in Int
  BY NSAssumption, RemainderBound
<1>1. duration_text(c) = [sec |-> q, frac |-> IF n < 0 THEN <<>> ELSE DigitsOf(n)]
  BY DEF duration_text, chrono_to_timespec, DigitsOf
<1>2. /\ c >= 0 => n \in 0 .. NS - 1
      /\ c < 0 => n \in -(NS - 1) .. 0
  BY RemainderBound
<1>3. n \in Int /\ (n = 0 <=> c = q * NS) /\ q * NS + n = c /\ q * NS \in Int
  BY <1>0
<1> HIDE DEF q, n
<1>4. CASE c < 0 /\ c # q * NS
  <2>1. n < 0
    BY <1>0, <1>2, <1>3, <1>4
  <2> QED
    BY <1>1, <1>4, <2>1 DEF q
<1>5. CASE ~(c < 0 /\ c # q * NS)
  <2>1. n \in 0 .. NS - 1 /\ ~(n < 0)
    BY <1>0, <1>2, <1>3, <1>5
  <2>2. duration_text(c).sec = q /\ duration_text(c).frac = DigitsOf(n)
    BY <1>1, <2>1
  <2>3. DigitsOf(n) # <<>>
    <3>1. 1 \in DOMAIN DigitsOf(n)
      BY Weights DEF DigitsOf
    <3> QED
      BY <3>1
  <2>4. ktime_set(duration_text(c)) = q * NS + n
    BY <2>1, <2>2, DigitsSurvive DEF ktime_set
  <2> QED
    BY <1>3, <1>5, <2>2, <2>3, <2>4 DEF q
<1> QED
  BY <1>4, <1>5

-----------------------------------------------------------------------------
(* Opaleye_app::init, with any number of other writers before and after. *)

Fields == {"t0", "period", "width"}

AppInit == {"open", "disable", "disabling", "configure", "enable", "enabling"}

(* The types that the configuration depends on. *)
ControlType ==
    /\ app \in AppInit \cup {"off", "running", "failed"}
    /\ want \in Requests
    /\ at \in [Writers -> {"outside", "edge"}]
    /\ val \in [Writers -> BOOLEAN]

(* While the program is in init it is the only writer. *)
OnlyAppWrites ==
    /\ app \in {"open", "disable", "configure", "enable"} => \A w \in Writers : at[w] = "outside"
    /\ app = "disabling" => \A w \in Writers : at[w] = "edge" => ~val[w]
    /\ app = "enabling" => \A w \in Writers : at[w] = "edge" => val[w] = want.enable
    /\ app \in {"disabling", "enabling"} =>
           \A u, v \in Writers : at[u] = "edge" /\ at[v] = "edge" => u = v

(* A disabled trigger takes the settings, and keeps them. *)
SettingsTaken ==
    /\ app \in {"disabling", "configure", "enable", "enabling"} => life # "loading"
    /\ app \in {"configure", "enable", "enabling"} => ~enabled
    /\ app \in {"enable", "enabling"} /\ (\A f \in Fields : Printable(want[f])) =>
           cfg = [f \in Fields |-> want[f]]

ControlInv == ControlType /\ OnlyAppWrites /\ SettingsTaken

(* A step of the program's own that leaves the module alone. *)
LEMMA ProgramKeeps ==
    ASSUME ControlInv, start \/ open \/ end
    PROVE  ControlInv'
<1> USE DEF ControlInv, ControlType, AppInit
<1>1. UNCHANGED <<at, val, life, enabled, cfg>>
  BY DEF start, open, end, vars
<1>2. ControlType'
  BY <1>1 DEF start, open, end, goto
<1>3. OnlyAppWrites' /\ SettingsTaken'
  BY <1>1 DEF OnlyAppWrites, SettingsTaken, start, open, end, goto
<1> QED
  BY <1>2, <1>3

(* disable() and set_enable(): the store reads "enabled"... *)
LEMMA EdgeKeeps ==
    ASSUME ControlInv, disable \/ set_enable
    PROVE  ControlInv'
<1>1. UNCHANGED <<want, life, enabled, cfg>>
  BY DEF disable, set_enable, write_enable, enable_store_edge, vars
<1>2. PICK w \in Writers, v \in BOOLEAN :
        \/ /\ enable_store_edge(w, v)
           /\ \/ app = "disable" /\ v = FALSE
                 /\ app' = IF life = "loading" THEN "off" ELSE "disabling"
              \/ app = "enable" /\ v = want.enable
                 /\ app' = IF life = "loading" THEN "off" ELSE "enabling"
        \/ app' = "failed" /\ UNCHANGED <<at, val>>
  <2>1. want.enable \in BOOLEAN
    BY RequestAssumption DEF ControlInv, ControlType
  <2>2. CASE disable
    BY <2>2, Zenon DEF disable, write_enable, vars
  <2>3. CASE set_enable
    BY <2>1, <2>3 DEF set_enable, write_enable, vars
  <2> QED
    BY <2>2, <2>3, Zenon
<1>3. CASE app' \in {"failed", "off"}
  <2>1. UNCHANGED <<at, val>>
    BY <1>2, <1>3 DEF enable_store_edge
  <2> QED
    BY <1>1, <1>3, <2>1 DEF ControlInv, ControlType, AppInit, OnlyAppWrites, SettingsTaken
<1>4. CASE app' \notin {"failed", "off"}
  <2>1. /\ life # "loading"
        /\ \/ app = "disable" /\ app' = "disabling" /\ v = FALSE
           \/ app = "enable" /\ app' = "enabling" /\ v = want.enable
        /\ at' = [at EXCEPT ![w] = "edge"]
        /\ val' = [val EXCEPT ![w] = v]
    BY <1>2, <1>4 DEF enable_store_edge
  <2>2. \A u \in Writers : at[u] = "outside"
    BY <2>1 DEF ControlInv, OnlyAppWrites
  <2>3. ControlType'
    BY <1>1, <2>1 DEF ControlInv, ControlType, AppInit
  <2>4. \A u \in Writers : at'[u] = "edge" => u = w /\ val'[u] = v
    BY <2>1, <2>2 DEF ControlInv, ControlType
  <2>5. OnlyAppWrites'
    BY <1>1, <2>1, <2>4 DEF OnlyAppWrites
  <2>6. SettingsTaken'
    BY <1>1, <2>1 DEF ControlInv, SettingsTaken
  <2> QED
    BY <2>3, <2>5, <2>6 DEF ControlInv
<1> QED
  BY <1>3, <1>4

(* ... and then has the mutex. *)
LEMMA StoredKeeps ==
    ASSUME ControlInv, disabled \/ enabled_set
    PROVE  ControlInv'
<1>1. PICK w \in Writers : enable_store_locked(w)
  BY DEF disabled, enabled_set, stored
<1>2. /\ at[w] = "edge" /\ at' = [at EXCEPT ![w] = "outside"]
      /\ val' = [val EXCEPT ![w] = FALSE] /\ enabled' = val[w]
      /\ UNCHANGED <<life, cfg, want>>
  BY <1>1 DEF enable_store_locked, disabled, enabled_set, stored
<1>3. \/ app = "disabling" /\ app' = "configure"
      \/ app = "enabling" /\ app' = "running"
  BY DEF disabled, enabled_set, stored, goto
<1>4. ControlType'
  BY <1>2, <1>3 DEF ControlInv, ControlType, AppInit
<1>5. OnlyAppWrites'
  BY <1>2, <1>3, Zenon DEF ControlInv, ControlType, OnlyAppWrites
<1>6. SettingsTaken'
  <2>1. app = "disabling" => ~val[w]
    BY <1>2 DEF ControlInv, OnlyAppWrites
  <2>2. app' = "configure" => ~enabled'
    BY <1>2, <1>3, <2>1
  <2> QED
    BY <1>2, <1>3, <2>2 DEF ControlInv, SettingsTaken
<1> QED
  BY <1>4, <1>5, <1>6 DEF ControlInv

(* configure(): the module is disabled and takes what it can parse. *)
LEMMA ConfigureKeeps ==
    ASSUME ControlInv, configure
    PROVE  ControlInv'
<1> DEFINE text == [f \in Fields |-> duration_text(want[f])]
<1>1. UNCHANGED <<want, at, val, life, enabled>> /\ app = "configure" /\ app' \in {"failed", "enable"}
  BY DEF configure, timer_settings_store, vars
<1>2. life # "loading" /\ ~enabled
  BY <1>1 DEF ControlInv, SettingsTaken
<1>3. ControlType' /\ OnlyAppWrites'
  BY <1>1 DEF ControlInv, ControlType, AppInit, OnlyAppWrites
<1>4. ASSUME app' = "enable", \A f \in Fields : Printable(want[f])
      PROVE  cfg' = [f \in Fields |-> want[f]]
  <2>1. ASSUME NEW f \in Fields
        PROVE  duration_text(want[f]).frac # <<>> /\ ktime_set(duration_text(want[f])) = want[f]
    <3>1. want[f] \in Int /\ Printable(want[f])
      BY <1>4, RequestAssumption DEF ControlInv, ControlType, Fields
    <3>2. ~(want[f] < 0 /\ want[f] # seconds(want[f]) * NS)
      <4>1. want[f] >= 0 \/ want[f] = seconds(want[f]) * NS
        BY <3>1 DEF Printable
      <4> QED
        BY <3>1, <4>1
    <3> QED
      BY <3>1, <3>2, TextRoundTrip
  <2>2. parses(text)
    BY <2>1 DEF parses
  <2>3. PICK w \in Writers : timer_settings_store(w, [f \in DOMAIN text |-> ktime_set(text[f])])
    BY <1>1, <1>4, <2>2 DEF configure, Fields
  <2>4. cfg' = [f \in DOMAIN text |-> ktime_set(text[f])]
    BY <1>2, <2>3 DEF timer_settings_store
  <2> QED
    BY <2>1, <2>4
<1> QED
  BY <1>1, <1>2, <1>3, <1>4 DEF ControlInv, SettingsTaken

(* The module's own steps, and the other writers while the program is not   *)
(* in init.                                                                 *)
LEMMA OthersKeep ==
    ASSUME ControlInv, UNCHANGED <<app, want>>,
           \/ moduleStep
           \/ app \in {"off", "running"} /\ \E w \in Writers : writerStep(w)
    PROVE  ControlInv'
<1>1. CASE moduleStep
  <2>1. UNCHANGED <<at, val, enabled, cfg>> /\ (life # "loading" => life' # "loading")
    BY <1>1 DEF moduleStep, opaleye_gpio_on_timer_cb, opaleye_gpio_off_timer_cb, tick, gpio_init,
                gpio_init_fails, kthread_stop, main_cancel, main_remove, gpio_exit_free, stage
  <2> QED
    BY <2>1, SMTT(30) DEF ControlInv, ControlType, OnlyAppWrites, SettingsTaken
<1>2. ASSUME NEW w \in Writers, writerStep(w), app \in {"off", "running"} PROVE ControlInv'
  <2>1. at' \in [Writers -> {"outside", "edge"}]
    BY <1>2 DEF ControlInv, ControlType, writerStep, enable_store_edge, enable_store_locked,
                timer_settings_store
  <2>2. val' \in [Writers -> BOOLEAN]
    BY <1>2, Zenon DEF ControlInv, ControlType, writerStep, enable_store_edge, enable_store_locked,
                timer_settings_store
  <2> QED
    BY <1>2, <2>1, <2>2 DEF ControlInv, ControlType, OnlyAppWrites, SettingsTaken
<1> QED
  BY <1>1, <1>2, SMTT(30)

(* Every step of the program, the module and the other writers keeps the    *)
(* invariant.                                                               *)
LEMMA NextControl == ControlInv /\ [ControlNext]_controlVars => ControlInv'
<1>1. ASSUME ControlInv, UNCHANGED controlVars PROVE ControlInv'
  BY <1>1 DEF controlVars, vars, ControlInv, ControlType, OnlyAppWrites, SettingsTaken
<1> QED
  BY <1>1, ProgramKeeps, EdgeKeeps, StoredKeeps, ConfigureKeeps, OthersKeep
  DEF ControlNext, appStep

(* Before the program's first start nothing is under way. *)
LEMMA InitControl == ControlInit => ControlInv
  BY DEF ControlInit, Init, ControlInv, ControlType, AppInit, OnlyAppWrites, SettingsTaken

(* The step that ends the set-up is the store of want.enable. *)
LEMMA LastStep ==
    ASSUME ControlInv, ControlNext, app = "enabling", app' = "running"
    PROVE  /\ enabled' = want.enable
           /\ (\A f \in Fields : Printable(want[f])) => cfg' = [f \in Fields |-> want[f]]
<1>1. enabled_set
  BY DEF ControlNext, appStep, start, open, disable, disabled, configure, set_enable,
         write_enable, stored, end, goto
<1>2. PICK w \in Writers : enable_store_locked(w)
  BY <1>1 DEF enabled_set, stored
<1>3. at[w] = "edge" /\ enabled' = val[w] /\ cfg' = cfg
  BY <1>2 DEF enable_store_locked
<1> QED
  BY <1>3 DEF ControlInv, OnlyAppWrites, SettingsTaken

(* Whatever requests the program is started with, however often, and        *)
(* whatever it or other processes left in the module: when Opaleye_app's    *)
(* set-up of the trigger is through, the module is enabled as requested,    *)
(* with the requested times unless one is negative and no whole number of   *)
(* seconds.                                                                 *)
THEOREM TriggerIsConfigured == ControlSpec => TriggerAsConfigured
<1>1. ControlInv /\ [ControlNext]_controlVars =>
        [app = "enabling" /\ app' = "running" =>
            /\ enabled' = want.enable
            /\ (\A f \in {"t0", "period", "width"} : Printable(want[f])) =>
                  cfg' = [f \in {"t0", "period", "width"} |-> want[f]]]_controlVars
  BY LastStep DEF Fields
<1> QED
  BY <1>1, InitControl, NextControl, PTL DEF ControlSpec, TriggerAsConfigured

-----------------------------------------------------------------------------
(* The program drives the module of OpaleyeGpio, so what holds of that one  *)
(* holds under the program.                                                 *)

(* Every request is one of the settings, or has a time that the module does *)
(* not parse.                                                               *)
RequestsAreSettings ==
    \A q \in Requests :
        \/ [f \in Fields |-> q[f]] \in Settings
        \/ \E f \in Fields : q[f] < 0 /\ q[f] # seconds(q[f]) * NS

(* What configure() writes is one of the settings, or is not parsed. *)
LEMMA WrittenIsSetting ==
    ASSUME RequestsAreSettings, want \in Requests,
           parses([f \in Fields |-> duration_text(want[f])])
    PROVE  [f \in Fields |-> ktime_set(duration_text(want[f]))] \in Settings
<1>1. ASSUME NEW f \in Fields
      PROVE  /\ want[f] \in Int /\ duration_text(want[f]).frac # <<>>
  BY RequestAssumption, Zenon DEF parses, Fields
<1>2. ASSUME NEW f \in Fields
      PROVE  /\ ~(want[f] < 0 /\ want[f] # seconds(want[f]) * NS)
             /\ ktime_set(duration_text(want[f])) = want[f]
  BY <1>1, TextRoundTrip
<1>3. [f \in Fields |-> want[f]] \in Settings
  BY <1>2 DEF RequestsAreSettings
<1> QED
  BY <1>2, <1>3

(* A step of the program is a store of one of the writers, or nothing to    *)
(* the module.                                                              *)
LEMMA ControlStep ==
    ASSUME RequestsAreSettings, ControlInv, [ControlNext]_controlVars
    PROVE  [Next]_vars
<1>0. want \in Requests /\ want.enable \in BOOLEAN
  BY RequestAssumption DEF ControlInv, ControlType
<1>1. CASE start \/ open \/ end
  BY <1>1 DEF start, open, end
<1>2. CASE disable \/ set_enable
  BY <1>0, <1>2, Zenon DEF disable, set_enable, write_enable, Next, writerStep
<1>3. CASE disabled \/ enabled_set
  BY <1>3 DEF disabled, enabled_set, stored, Next, writerStep
<1>4. CASE configure
  <2> DEFINE text == [f \in Fields |-> duration_text(want[f])]
             set == [f \in Fields |-> ktime_set(duration_text(want[f]))]
  <2>1. \/ UNCHANGED vars
        \/ parses(text) /\ \E w \in Writers : timer_settings_store(w, [f \in DOMAIN text |-> ktime_set(text[f])])
    BY <1>4 DEF configure, Fields
  <2>2. [f \in DOMAIN text |-> ktime_set(text[f])] = set
    OBVIOUS
  <2>3. parses(text) => set \in Settings
    BY <1>0, WrittenIsSetting
  <2> HIDE DEF set, text
  <2> QED
    BY <2>1, <2>2, <2>3 DEF Next, writerStep
<1>5. CASE UNCHANGED controlVars
  BY <1>5 DEF controlVars
<1> QED
  BY <1>1, <1>2, <1>3, <1>4, <1>5 DEF ControlNext, appStep, Next

(* Opaleye_gpio_mod_ctrl does to the module only what a writer of its sysfs *)
(* files may do.                                                            *)
THEOREM ControlIsAWriter ==
    ASSUME RequestsAreSettings
    PROVE  ControlSpec => Spec
<1>1. ControlInv /\ [ControlNext]_controlVars => [Next]_vars
  BY ControlStep
<1>2. ControlInit => Init
  BY DEF ControlInit
<1> QED
  BY <1>1, <1>2, InitControl, NextControl, PTL DEF ControlSpec, Spec
=============================================================================
