---------------------------- MODULE SensorThread ----------------------------
(***************************************************************************)
(* The sensor thread (opaleye/sensor_thread.cpp), its thermometer (TSYS01) *)
(* and barometer (MS5837_30BA) on an I2C bus that may fail at any          *)
(* transfer.                                                               *)
(*                                                                         *)
(* It extends ThreadBase: the body of the worker's loop is one round of    *)
(* measurements, and main is its owner and the only interrupter.  The lock *)
(* objects around the measurements (line 113, and in the getters) are      *)
(* default constructed and lock nothing, so the members are published one  *)
(* 64-bit word at a time.  A measurement is known by the round it was      *)
(* taken in, modulo 2; the compensation arithmetic is left out.            *)
(***************************************************************************)
EXTENDS ThreadBase, Naturals

CONSTANTS Zero,      \* what the constructor stores
          Garbage    \* what an uninitialised local holds

ASSUME SensorAssumption == Zero # Garbage /\ {Zero, Garbage} \cap {0, 1} = {}

VARIABLES
    main,         \* what main does next
    round,        \* the round, modulo 2
    at,           \* where the round is
    adc,          \* the conversion that the barometer's ADC holds; "old": one of an earlier round
    d1, d2,       \* what MS5837_30BA::sample has read
    ext_temp,     \* work()'s locals
    baro_result,
    m_temp_degC,
    m_baro_data,
    measured      \* history: a measured pressure has been published

bus       == <<round, adc, d1, d2>>
locals    == <<ext_temp, baro_result>>
published == <<m_temp_degC, m_baro_data, measured>>
allVars   == <<vars, main, at, bus, locals, published>>

(* MS5837_30BA::RESULT as the two words it is copied in: P1 and TEMP1, then *)
(* P2 and TEMP2.                                                            *)
Result(v) == [first |-> v, second |-> v]

SensorInit ==
    /\ Init
    /\ main = "i2c"
    /\ at = "temp"
    /\ round = 0 /\ adc = "none" /\ d1 = "none" /\ d2 = "none"
    /\ ext_temp = Zero /\ baro_result = Result(Garbage)
    /\ m_temp_degC = Zero /\ m_baro_data = Result(Zero) /\ measured = FALSE

-----------------------------------------------------------------------------
(* main: sensor_thread::init opens the bus, resets both devices and reads   *)
(* both calibrations; whichever fails, main returns -1.  Then it launches   *)
(* the thread, and interrupts and joins it when the program ends.           *)

attempt(call, next) ==
    /\ main = call
    /\ main' \in {next, "failed"}
    /\ UNCHANGED <<vars, at, bus, locals, published>>

i2c_init           == attempt("i2c", "temp reset")
temp_reset         == attempt("temp reset", "baro reset")
baro_reset         == attempt("baro reset", "temp cal")
temp_read_cal_data == attempt("temp cal", "baro cal")
baro_read_cal_data == attempt("baro cal", "launch")

init == i2c_init \/ temp_reset \/ baro_reset \/ temp_read_cal_data \/ baro_read_cal_data

mainDoes(from, to) == main = from /\ main' = to /\ UNCHANGED <<at, bus, locals, published>>

main_launch    == mainDoes("launch", "serve") /\ launch
main_interrupt == mainDoes("serve", "notify") /\ \E i \in Interrupters : interrupt_store(i)
main_notify    == mainDoes("notify", "join") /\ \E i \in Interrupters : interrupt_notify(i)
main_join      == mainDoes("join", "joining") /\ join
main_joined    == mainDoes("joining", "stopped") /\ joined

stopStep == main_notify \/ main_join \/ main_joined

-----------------------------------------------------------------------------
(* One round of work(). *)

inRound(from, to) ==
    /\ worker = "body"
    /\ at = from /\ at' = to
    /\ UNCHANGED <<vars, main>>

(* TSYS01::sample and calc_temp.  When it fails the last value stays. *)
temp_sample ==
    /\ inRound("temp", "d1 write")
    /\ ext_temp' \in {ext_temp, round}
    /\ UNCHANGED <<bus, baro_result, published>>

(* MS5837_30BA::sample: start a conversion, wait, read the ADC; twice.  An  *)
(* ADC that has been read, or was given no command, reads as 0.             *)
i2c_write(conversion, from, to) ==
    /\ inRound(from, to)
    /\ adc' = conversion
    /\ UNCHANGED <<round, d1, d2, locals, published>>

read_cmd(from, to) ==
    /\ inRound(from, to)
    /\ adc' = "none"
    /\ UNCHANGED <<round, locals, published>>

baro_read_d1 == read_cmd("d1 read", "d2 write") /\ d1' = adc /\ UNCHANGED d2

baro_read_d2 == read_cmd("d2 read", "calc") /\ d2' = adc /\ UNCHANGED d1

(* Variant: that a command failed is not noticed. *)
baro_fails_unnoticed ==
    /\ \/ inRound("d1 write", "d1 read") \/ inRound("d2 write", "d2 read")
       \/ inRound("d1 read", "publish temp") \/ inRound("d2 read", "publish temp")
    /\ UNCHANGED <<bus, locals, published>>

(* Variant: a failed barometer starts the next round without the wait. *)
baro_fails_continues ==
    /\ worker = "body" /\ worker' = "test"
    /\ at \in {"d1 write", "d1 read", "d2 write", "d2 read"} /\ at' = "temp"
    /\ UNCHANGED <<keepRunning, joinable, owner, caller, main, bus, locals, published>>

(* Variant: work() returns when the barometer fails. *)
baro_fails_returns ==
    /\ worker = "body" /\ worker' = "done"
    /\ at \in {"d1 write", "d1 read", "d2 write", "d2 read"} /\ at' = "temp"
    /\ UNCHANGED <<keepRunning, joinable, owner, caller, main, bus, locals, published>>

(* What a transfer leaves in the ADC. *)
Effect(transfer) ==
    CASE transfer = "d1 write" -> "D1"
      [] transfer = "d2 write" -> "D2"
      [] transfer \in {"d1 read", "d2 read"} -> "none"

(* A transfer fails, and sample() returns false.  The device may have acted *)
(* on it all the same.                                                      *)
baro_fails ==
    /\ \E from \in {"d1 write", "d1 read", "d2 write", "d2 read"} :
          inRound(from, "publish temp") /\ adc' \in {adc, Effect(from)}
    /\ UNCHANGED <<round, d1, d2, locals, published>>

calc_pressure ==
    /\ inRound("calc", "publish temp")
    /\ baro_result' = Result(round)
    /\ UNCHANGED <<bus, ext_temp, published>>

publish_temp ==
    /\ inRound("publish temp", "publish first")
    /\ m_temp_degC' = ext_temp
    /\ UNCHANGED <<bus, locals, m_baro_data, measured>>

publish_first ==
    /\ inRound("publish first", "publish second")
    /\ m_baro_data' = [m_baro_data EXCEPT !.first = baro_result.first]
    /\ UNCHANGED <<bus, locals, m_temp_degC, measured>>

publish_second ==
    /\ inRound("publish second", "wait")
    /\ m_baro_data' = [m_baro_data EXCEPT !.second = baro_result.second]
    /\ measured' = (measured \/ baro_result.first # Garbage)
    /\ UNCHANGED <<bus, locals, m_temp_degC>>

(* A conversion left over when its round is over. *)
Aged(conversion) == IF conversion = "none" THEN "none" ELSE "old"

ageConversions == adc' = Aged(adc) /\ d1' = Aged(d1) /\ d2' = Aged(d2)

(* Variant: baro_result is declared inside the loop. *)
round_end_fresh ==
    /\ at = "wait" /\ at' = "temp" /\ loop_body
    /\ round' = 1 - round
    /\ baro_result' = Result(Garbage)
    /\ ageConversions
    /\ UNCHANGED <<main, ext_temp, published>>

(* The round is over, and the worker enters wait_for_interruption. *)
round_end ==
    /\ at = "wait" /\ at' = "temp" /\ loop_body
    /\ round' = 1 - round
    /\ ageConversions
    /\ UNCHANGED <<main, locals, published>>

(* The loop around it is ThreadBase's. *)
threadStep ==
    /\ loop_test \/ wait_pred \/ wait_block \/ wait_timeout
    /\ UNCHANGED <<main, at, bus, locals, published>>

work ==
    \/ temp_sample
    \/ i2c_write("D1", "d1 write", "d1 read") \/ baro_read_d1
    \/ i2c_write("D2", "d2 write", "d2 read") \/ baro_read_d2
    \/ baro_fails \/ calc_pressure
    \/ publish_temp \/ publish_first \/ publish_second
    \/ round_end \/ threadStep

SensorNext ==
    \/ init \/ main_launch \/ main_interrupt \/ stopStep
    \/ work
    \/ main \in {"failed", "stopped"} /\ UNCHANGED allVars

(* The scheduler runs the thread, and main once it has begun to stop it. *)
SensorSpec ==
    /\ SensorInit /\ [][SensorNext]_allVars
    /\ WF_allVars(work) /\ WF_allVars(stopStep)

-----------------------------------------------------------------------------

(* Every variable has its type; the worker exists only after init() went    *)
(* through, and until main has joined it; and it is between rounds whenever *)
(* it is outside the loop's body.                                           *)
SensorTypeOK ==
    /\ TypeOK
    /\ main \in {"i2c", "temp reset", "baro reset", "temp cal", "baro cal", "failed",
                 "launch", "serve", "notify", "join", "joining", "stopped"}
    /\ joinable <=> main \in {"serve", "notify", "join", "joining"}
    /\ worker # "body" => at = "temp"
    /\ {d1, d2, adc} \subseteq {"none", "D1", "D2", "old"}
    /\ {ext_temp, m_temp_degC, baro_result.first, m_baro_data.first} \subseteq {0, 1, Zero, Garbage}

(* A pressure is computed from a pressure conversion and a temperature      *)
(* conversion of this round, whichever transfers of this and of earlier     *)
(* rounds failed, and whether or not the device acted on those that did.    *)
ConversionsMatch == at = "calc" => d1 = "D1" /\ d2 = "D2"

(* The pressure and temperature served are never mixtures of two rounds     *)
(* once the round that published them is over, and never of an              *)
(* uninitialised local once a barometer measurement has been published: a   *)
(* barometer that fails afterwards leaves the last measurement.  Before     *)
(* that, baro_result (line 82) is published as it is.                       *)
PublishedIsMeasured ==
    /\ at # "publish second" => m_baro_data.first = m_baro_data.second
    /\ measured => Garbage \notin {m_baro_data.first, m_baro_data.second}
    /\ m_temp_degC # Garbage

(* sensor_thread is a thread_base: every behaviour of it, bus failures      *)
(* included, is one of ThreadBase.                                          *)
ImplementsThreadBase == Spec

(* Shutdown gets past the sensor thread: once main has called interrupt(),  *)
(* wherever the worker is in its round, join() returns.                     *)
SensorStops == main = "notify" ~> main = "stopped"
=============================================================================
