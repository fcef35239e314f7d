------------------------ MODULE SensorThread_proofs -------------------------
(* Theorems about SensorThread: what is published was measured, whichever   *)
(* transfers fail, and the thread is one of ThreadBase.                     *)
EXTENDS SensorThread, TLAPS

-----------------------------------------------------------------------------
(* thread_base itself, for every set of interrupting threads and both       *)
(* overloads of wait_for_interruption.                                      *)

(* Inductive: a launch needs a thread that is not joinable, and by TypeOK   *)
(* then there is no worker that could be done.                              *)
ThreadInv == TypeOK /\ FinishedWasInterrupted

(* Before the first launch there is no worker. *)
LEMMA InitThread == Init => ThreadInv
<1> SUFFICES ASSUME Init PROVE ThreadInv
  OBVIOUS
<1>1. keepRunning \in BOOLEAN /\ joinable \in BOOLEAN
  BY Zenon DEF Init
<1> QED
  BY <1>1 DEF Init, ThreadInv, TypeOK, FinishedWasInterrupted, WorkerState

(* A step of the worker: from its place to another of its places. *)
LEMMA WorkerKeeps ==
    ASSUME ThreadInv, workerNext
    PROVE  ThreadInv'
<1> USE DEF ThreadInv, TypeOK, FinishedWasInterrupted, WorkerState, workerStep
<1>1. CASE loop_test
  BY <1>1 DEF loop_test
<1>2. CASE loop_body
  BY <1>2 DEF loop_body
<1>3. CASE dispatch_throw
  BY <1>3 DEF dispatch_throw
<1>4. CASE wait_pred
  BY <1>4 DEF wait_pred
<1>5. CASE wait_block
  BY <1>5 DEF wait_block
<1>6. CASE wait_timeout
  BY <1>6 DEF wait_timeout
<1> QED
  BY <1>1, <1>2, <1>3, <1>4, <1>5, <1>6 DEF workerNext

(* A step of the owner or of an interrupter. *)
LEMMA CallerKeeps ==
    ASSUME ThreadInv,
           \/ launch \/ join \/ joined
           \/ \E i \in Interrupters : interrupt_store(i) \/ interrupt_notify(i)
    PROVE  ThreadInv'
<1> USE DEF ThreadInv, TypeOK, FinishedWasInterrupted, WorkerState
<1>1. CASE launch
  <2>1. (keepRunning \in BOOLEAN /\ joinable \in BOOLEAN)'
    BY <1>1, Zenon DEF launch
  <2> QED
    BY <1>1, <2>1 DEF launch
<1>2. CASE join
  BY <1>2 DEF join
<1>3. CASE joined
  <2>1. (keepRunning \in BOOLEAN /\ joinable \in BOOLEAN)'
    BY <1>3, Zenon DEF joined
  <2> QED
    BY <1>3, <2>1 DEF joined
<1>4. ASSUME NEW i \in Interrupters, interrupt_store(i) PROVE ThreadInv'
  <2>1. (keepRunning \in BOOLEAN /\ joinable \in BOOLEAN)'
    BY <1>4, Zenon DEF interrupt_store
  <2> QED
    BY <1>4, <2>1 DEF interrupt_store
<1>5. ASSUME NEW i \in Interrupters, interrupt_notify(i) PROVE ThreadInv'
  BY <1>5 DEF interrupt_notify
<1> QED
  BY <1>1, <1>2, <1>3, <1>4, <1>5

(* Every step keeps the invariant. *)
LEMMA NextThread == ThreadInv /\ [Next]_vars => ThreadInv'
<1> SUFFICES ASSUME ThreadInv, [Next]_vars PROVE ThreadInv'
  OBVIOUS
<1>1. CASE UNCHANGED vars
  BY <1>1 DEF vars, ThreadInv, TypeOK, FinishedWasInterrupted
<1>2. CASE terminated
  BY <1>1, <1>2 DEF terminated
<1> QED
  BY <1>1, <1>2, WorkerKeeps, CallerKeeps DEF Next

(* However many threads interrupt(), joinable() tells whether there is a    *)
(* thread, and a join() that returns follows an interrupt() of the launch   *)
(* it joins.                                                                *)
THEOREM ThreadSafety == Spec => [](TypeOK /\ FinishedWasInterrupted)
<1>1. ThreadInv => TypeOK /\ FinishedWasInterrupted
  BY DEF ThreadInv
<1> QED
  BY <1>1, InitThread, NextThread, PTL DEF Spec

-----------------------------------------------------------------------------
(* The sensor thread. *)

Value  == {0, 1, Zero, Garbage}
Words  == [first : Value, second : Value]

(* What the barometer's ADC and sample()'s locals hold at each place of a   *)
(* round: a failed transfer leaves the round, so the places after it are    *)
(* only reached with the conversions they need.                             *)
ConversionInv ==
    /\ at = "d1 read" => adc = "D1"
    /\ at \in {"d2 write", "d2 read", "calc"} => d1 = "D1"
    /\ at = "d2 read" => adc = "D2"
    /\ at = "calc" => d2 = "D2"

(* baro_result survives the rounds, so once a measurement of it has been    *)
(* published it stays one, and m_baro_data follows it word by word.         *)
ResultInv ==
    /\ round \in {0, 1}
    /\ baro_result \in Words /\ m_baro_data \in Words
    /\ baro_result.first = baro_result.second
    /\ ext_temp # Garbage
    /\ measured => baro_result.first # Garbage
    /\ at = "publish second" => m_baro_data.first = baro_result.first

SensorInv == ConversionInv /\ ResultInv /\ PublishedIsMeasured

(* The constructor's values satisfy the invariant. *)
LEMMA InitSensor == SensorInit => SensorInv
  BY SensorAssumption
     DEF SensorInit, SensorInv, ConversionInv, ResultInv, PublishedIsMeasured, Result, Words, Value

(* A step that is none of a round changes nothing the invariant is about. *)
LEMMA StillKeeps ==
    ASSUME SensorInv, UNCHANGED <<at, bus, locals, published>>
    PROVE  SensorInv'
  BY DEF SensorInv, ConversionInv, ResultInv, PublishedIsMeasured, bus, locals, published

(* A step of MS5837_30BA::sample leaves the results alone. *)
LEMMA SampleKeeps ==
    ASSUME SensorInv,
           \/ i2c_write("D1", "d1 write", "d1 read") \/ baro_read_d1
           \/ i2c_write("D2", "d2 write", "d2 read") \/ baro_read_d2
           \/ baro_fails
    PROVE  SensorInv'
<1>1. ResultInv' /\ PublishedIsMeasured'
  <2>1. UNCHANGED <<round, locals, published>> /\ at # "publish second" /\ at' # "publish second"
    BY DEF i2c_write, baro_read_d1, baro_read_d2, read_cmd, baro_fails,
         inRound, bus
  <2> QED
    BY <2>1 DEF SensorInv, ResultInv, PublishedIsMeasured, locals, published
<1>2. ConversionInv'
  BY DEF SensorInv, ConversionInv, i2c_write, baro_read_d1, baro_read_d2, read_cmd, baro_fails,
         inRound, bus
<1> QED
  BY <1>1, <1>2 DEF SensorInv

(* The other steps of a round leave the bus alone and do not enter one of   *)
(* the places of a conversion.                                              *)
LEMMA PublishKeeps ==
    ASSUME SensorInv,
           \/ temp_sample \/ calc_pressure
           \/ publish_temp \/ publish_first \/ publish_second \/ round_end
    PROVE  SensorInv'
<1>1. ConversionInv'
  BY DEF ConversionInv, temp_sample, calc_pressure, publish_temp, publish_first,
         publish_second, round_end, inRound
<1>2. ResultInv' /\ PublishedIsMeasured'
  <2> USE DEF SensorInv, ResultInv, PublishedIsMeasured, Words, Value, inRound,
              bus, locals, published
  <2>1. CASE temp_sample
    BY <2>1, SensorAssumption DEF temp_sample
  <2>2. CASE calc_pressure
    BY <2>2, SensorAssumption DEF calc_pressure, Result
  <2>3. CASE publish_temp
    BY <2>3 DEF publish_temp
  <2>4. CASE publish_first
    BY <2>4 DEF publish_first
  <2>5. CASE publish_second
    BY <2>5 DEF publish_second
  <2>6. CASE round_end
    BY <2>6 DEF round_end
  <2> QED
    BY <2>1, <2>2, <2>3, <2>4, <2>5, <2>6
<1> QED
  BY <1>1, <1>2 DEF SensorInv

(* Every step of main, the round and the loop keeps the invariant. *)
LEMMA NextSensor == SensorInv /\ [SensorNext]_allVars => SensorInv'
<1> SUFFICES ASSUME SensorInv, [SensorNext]_allVars PROVE SensorInv'
  OBVIOUS
<1>1. CASE work
  <2>1. CASE threadStep
    BY <2>1, StillKeeps DEF threadStep
  <2> QED
    BY <1>1, <2>1, SampleKeeps, PublishKeeps DEF work
<1>2. CASE init \/ main_launch \/ main_interrupt \/ stopStep
  BY <1>2, StillKeeps DEF init, i2c_init, temp_reset, baro_reset, temp_read_cal_data,
                          baro_read_cal_data, attempt, main_launch, main_interrupt, stopStep, main_notify,
                          main_join, main_joined, mainDoes
<1>3. CASE UNCHANGED allVars
  BY <1>3, StillKeeps DEF allVars
<1> QED
  BY <1>1, <1>2, <1>3 DEF SensorNext

(* Whichever I2C transfers fail and however long the thread runs, a         *)
(* pressure is computed from one conversion of each kind, both of the       *)
(* round it is computed in.                                                 *)
THEOREM PressureFromBothConversions == SensorSpec => []ConversionsMatch
<1>1. SensorInv => ConversionsMatch
  BY DEF SensorInv, ConversionInv, ConversionsMatch
<1> QED
  BY <1>1, InitSensor, NextSensor, PTL DEF SensorSpec

(* Whichever I2C transfers fail, what the HTTP clients are served was       *)
(* measured, once anything was.                                             *)
THEOREM MeasurementsAreSound == SensorSpec => []PublishedIsMeasured
<1>1. SensorInv => PublishedIsMeasured
  BY DEF SensorInv
<1> QED
  BY <1>1, InitSensor, NextSensor, PTL DEF SensorSpec

-----------------------------------------------------------------------------

(* A step of a round is the loop's body or a stutter of ThreadBase. *)
LEMMA SensorStep == [SensorNext]_allVars => [Next]_vars
<1> SUFFICES ASSUME [SensorNext]_allVars PROVE [Next]_vars
  OBVIOUS
<1>1. CASE work
  <2>1. CASE threadStep \/ round_end
    BY <2>1 DEF threadStep, round_end, Next, workerNext
  <2> QED
    BY <1>1, <2>1 DEF work, temp_sample, i2c_write, baro_read_d1, baro_read_d2, read_cmd,
                      baro_fails, calc_pressure, publish_temp, publish_first, publish_second, inRound
<1>2. CASE init \/ main_launch \/ main_interrupt \/ stopStep
  BY <1>2 DEF init, i2c_init, temp_reset, baro_reset, temp_read_cal_data,
              baro_read_cal_data, attempt, main_launch, main_interrupt, stopStep,
              main_notify, main_join, main_joined, Next
<1>3. CASE UNCHANGED allVars
  BY <1>3 DEF allVars
<1> QED
  BY <1>1, <1>2, <1>3 DEF SensorNext

(* sensor_thread is a thread_base, so what holds of every thread_base holds *)
(* of it: joinable() tells whether the thread is there, and it only returns *)
(* from work() when it was interrupted.                                     *)
THEOREM SensorIsThreadBase ==
    SensorSpec => Init /\ [][Next]_vars /\ [](TypeOK /\ FinishedWasInterrupted)
<1>1. SensorInit => Init
  BY DEF SensorInit
<1>2. ThreadInv => TypeOK /\ FinishedWasInterrupted
  BY DEF ThreadInv
<1> QED
  BY <1>1, <1>2, SensorStep, InitThread, NextThread, PTL DEF SensorSpec
-----------------------------------------------------------------------------
(* Where main and the worker are, and what the members hold. *)

Conversion == {"none", "D1", "D2", "old"}

(* There is a thread to join between main's launch and its join. *)
JoinableInv == joinable <=> main \in {"serve", "notify", "join", "joining"}

(* What SensorTypeOK says beyond thread_base's TypeOK. *)
PlaceInv ==
    /\ main \in {"i2c", "temp reset", "baro reset", "temp cal", "baro cal", "failed",
                 "launch", "serve", "notify", "join", "joining", "stopped"}
    /\ JoinableInv
    /\ worker # "body" => at = "temp"
    /\ d1 \in Conversion /\ d2 \in Conversion /\ adc \in Conversion
    /\ ext_temp \in Value /\ m_temp_degC \in Value

(* A step of main leaves the round alone: it starts a worker when there is  *)
(* none and takes away one that has left its loop.                          *)
LEMMA MainPlaces ==
    ASSUME ThreadInv, PlaceInv, init \/ main_launch \/ main_interrupt \/ stopStep
    PROVE  PlaceInv'
<1>1. UNCHANGED <<at, bus, locals, published>>
  BY DEF init, i2c_init, temp_reset, baro_reset, temp_read_cal_data, baro_read_cal_data,
         attempt, main_launch, main_interrupt, stopStep, main_notify, main_join, main_joined,
         mainDoes
<1>J. JoinableInv'
  <2>1. CASE init
    <3>1. UNCHANGED joinable
      BY <2>1 DEF init, i2c_init, temp_reset, baro_reset, temp_read_cal_data,
                  baro_read_cal_data, attempt, vars
    <3>2. (main \in {"serve", "notify", "join", "joining"}) <=>
          (main \in {"serve", "notify", "join", "joining"})'
      BY <2>1 DEF init, i2c_init, temp_reset, baro_reset, temp_read_cal_data,
                  baro_read_cal_data, attempt
    <3> QED
      BY <3>1, <3>2, Zenon DEF PlaceInv, JoinableInv
  <2>2. CASE main_launch \/ main_joined
    BY <2>2, Zenon DEF main_launch, main_joined, mainDoes, launch, joined, JoinableInv
  <2>3. CASE main_interrupt \/ main_notify \/ main_join
    <3>1. UNCHANGED joinable
      BY <2>3 DEF main_interrupt, main_notify, main_join, interrupt_store, interrupt_notify, join
    <3>2. (main \in {"serve", "notify", "join", "joining"}) <=>
          (main \in {"serve", "notify", "join", "joining"})'
      BY <2>3 DEF main_interrupt, main_notify, main_join, mainDoes
    <3> QED
      BY <3>1, <3>2, Zenon DEF PlaceInv, JoinableInv
  <2> QED
    BY <2>1, <2>2, <2>3 DEF stopStep
<1> USE <1>J DEF PlaceInv, ThreadInv, TypeOK, bus, locals, published
<1>2. CASE init
  BY <1>1, <1>2 DEF init, i2c_init, temp_reset, baro_reset, temp_read_cal_data,
                    baro_read_cal_data, attempt, vars
<1>3. CASE main_launch
  BY <1>1, <1>3 DEF main_launch, mainDoes, launch
<1>4. CASE main_interrupt
  BY <1>1, <1>4 DEF main_interrupt, mainDoes, interrupt_store
<1>5. CASE main_notify
  BY <1>1, <1>5 DEF main_notify, mainDoes, interrupt_notify
<1>6. CASE main_join
  BY <1>1, <1>6 DEF main_join, mainDoes, join
<1>7. CASE main_joined
  BY <1>1, <1>7 DEF main_joined, mainDoes, joined
<1> QED
  BY <1>2, <1>3, <1>4, <1>5, <1>6, <1>7 DEF stopStep

(* A step of the worker leaves main alone and leaves the loop's body only   *)
(* at the end of a round.                                                   *)
LEMMA WorkPlaces ==
    ASSUME ThreadInv, SensorInv, PlaceInv, work
    PROVE  PlaceInv'
<1>J. JoinableInv'
  <2>1. UNCHANGED <<joinable, main>>
    BY DEF work, threadStep, loop_test, wait_pred, wait_block, wait_timeout, workerStep,
           temp_sample, i2c_write, baro_read_d1, baro_read_d2, read_cmd, baro_fails,
           calc_pressure, publish_temp, publish_first, publish_second, round_end, loop_body,
           inRound, vars
  <2> QED
    BY <2>1, Zenon DEF PlaceInv, JoinableInv
<1> USE <1>J DEF PlaceInv, bus, locals, published
<1>1. CASE threadStep
  BY <1>1 DEF threadStep, loop_test, wait_pred, wait_block, wait_timeout, workerStep
<1>2. CASE temp_sample
  BY <1>2 DEF temp_sample, inRound, vars, SensorInv, ResultInv, Value
<1>3. CASE i2c_write("D1", "d1 write", "d1 read") \/ i2c_write("D2", "d2 write", "d2 read")
  BY <1>3 DEF i2c_write, inRound, vars, Conversion
<1>4. CASE baro_read_d1 \/ baro_read_d2
  BY <1>4 DEF baro_read_d1, baro_read_d2, read_cmd, inRound, vars, Conversion
<1>5. CASE baro_fails \/ calc_pressure
  <2>1. \A from \in {"d1 write", "d1 read", "d2 write", "d2 read"} : Effect(from) \in Conversion
    BY DEF Effect, Conversion
  <2> QED
    BY <1>5, <2>1 DEF baro_fails, calc_pressure, inRound, vars
<1>6. CASE publish_temp \/ publish_first \/ publish_second
  BY <1>6 DEF publish_temp, publish_first, publish_second, inRound, vars
<1>7. CASE round_end
  BY <1>7 DEF round_end, ageConversions, Aged, Conversion, loop_body, workerStep
<1> QED
  BY <1>1, <1>2, <1>3, <1>4, <1>5, <1>6, <1>7 DEF work

(* Whichever transfers fail and whenever main stops: the worker exists      *)
(* exactly between main's launch and its join, and is between two rounds    *)
(* whenever it is outside the body of its loop.                             *)
THEOREM SensorTypes == SensorSpec => []SensorTypeOK
<1> DEFINE Inv == ThreadInv /\ SensorInv /\ PlaceInv
<1>1. SensorInit => Inv
  <2>1. SensorInit => PlaceInv
    BY DEF SensorInit, Init, PlaceInv, JoinableInv, Value, Conversion
  <2> QED
    BY <2>1, InitThread, InitSensor DEF SensorInit
<1>2. Inv /\ [SensorNext]_allVars => Inv'
  <2>1. ASSUME PlaceInv, UNCHANGED allVars PROVE PlaceInv'
    BY <2>1 DEF PlaceInv, JoinableInv, allVars, vars, bus, locals, published
  <2>2. ASSUME Inv, [SensorNext]_allVars PROVE PlaceInv'
    BY <2>1, <2>2, MainPlaces, WorkPlaces DEF SensorNext
  <2> QED
    BY <2>2, SensorStep, NextThread, NextSensor
<1>3. Inv => SensorTypeOK
  <2> SUFFICES ASSUME Inv PROVE SensorTypeOK
    OBVIOUS
  <2>1. TypeOK
    BY DEF ThreadInv
  <2>2. {d1, d2, adc} \subseteq {"none", "D1", "D2", "old"}
    BY DEF PlaceInv, Conversion
  <2>3. baro_result.first \in Value /\ m_baro_data.first \in Value
    BY ZenonT(30) DEF SensorInv, ResultInv, Words
  <2>4. {ext_temp, m_temp_degC, baro_result.first, m_baro_data.first} \subseteq {0, 1, Zero, Garbage}
    BY <2>3 DEF PlaceInv, Value
  <2> QED
    BY <2>1, <2>2, <2>4, Zenon DEF PlaceInv, JoinableInv, SensorTypeOK
<1> QED
  BY <1>1, <1>2, <1>3, PTL DEF SensorSpec
=============================================================================
