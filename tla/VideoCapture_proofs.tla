------------------------ MODULE VideoCapture_proofs ------------------------
(***************************************************************************)
(* Proofs about VideoCapture for any number of cameras, workers and nested *)
(* captures, when the handlers are called under m_jsonrpc_mutex, and about *)
(* RecordingIndex, the numbering of the files the captures write.          *)
(***************************************************************************)
EXTENDS VideoCapture, RecordingIndex, TLAPS

(* A handler that starts a capture: the map has no entry for it yet, and    *)
(* its pipeline is as far as the handler is.                                *)
StarterInv ==
    \A w \in Workers : at[w] \in Starting =>
        /\ cap(w) \in Names
        /\ pipes[cap(w)] = "absent"
        /\ at[w] = "init" => gst[cap(w)] = "none" /\ loop[cap(w)] = "none"
        /\ at[w] = "play" => gst[cap(w)] = "null" /\ loop[cap(w)] # "none"
        /\ at[w] = "emplace" => gst[cap(w)] = "playing" /\ loop[cap(w)] # "none"

(* A handler that stops a capture: the entry is still there, the pipeline   *)
(* plays until stop(), and stop() comes after m_got_eos.                    *)
StopperInv ==
    \A w \in Workers : at[w] \in Stopping =>
        /\ cap(w) \in Names
        /\ pipes[cap(w)] = "set"
        /\ loop[cap(w)] # "none"
        /\ gst[cap(w)] = IF at[w] = "join" THEN "null" ELSE "playing"
        /\ at[w] = "stop" => gotEos[cap(w)]

(* Opaleye_app::stop() has a current entry just while it joins its thread. *)
MainInv ==
    IF main = "joinPipe"
        THEN cur \in Names /\ pipes[cur] = "set" /\ gst[cur] = "null" /\ loop[cur] # "none"
        ELSE cur = NoPipe

IInv ==
    /\ TypeOK
    /\ PipelinesExclusive
    /\ StarterInv
    /\ StopperInv
    /\ MainInv
    /\ MapMatchesPipelines

-----------------------------------------------------------------------------

(* The markers of an idle thread and of a destroyed object are no names.    *)
LEMMA NoPipeNotAName == NoPipe \notin Names /\ Dangling \notin Names
  BY DEF Names, NoPipe, Dangling

(* A start request names a pipeline whose capture is within the bound.      *)
LEMMA File0IsAName ==
    ASSUME NEW r \in Requests, r.op = "start_video_capture"
    PROVE  file0(r.name) \in Names
  BY DepthAssumption DEF Requests, Ops, Names, file0

(* What an idle worker keeps is a request.                                  *)
LEMMA NoReqIsARequest == NoReq \in Requests
  BY CaptureAssumption, DepthAssumption DEF NoReq, Requests, Ops, Names

(* The state after Opaleye_app::init() and start() satisfies the invariant. *)
LEMMA InitIInv == Init => IInv
  <1> SUFFICES ASSUME Init PROVE IInv
    OBVIOUS
  <1> USE DEF Init, GstInit
  <1>1. GstTypeOK
    BY DEF GstTypeOK, LoopState
  <1>2. TypeOK
    BY <1>1, NoReqIsARequest, Zenon
    DEF TypeOK, At, InHandler, Starting, Stopping, Waiting
  <1>3. PipelinesExclusive /\ StarterInv /\ StopperInv /\ MainInv
    BY DEF PipelinesExclusive, StarterInv, StopperInv, MainInv,
           InHandler, Starting, Stopping, Waiting
  <1>4. MapMatchesPipelines
    BY DEF MapMatchesPipelines, gst_joinable
  <1> QED
    BY <1>2, <1>3, <1>4 DEF IInv

-----------------------------------------------------------------------------
(* One lemma per action.  Each says the action preserves the invariant.     *)

(* What every action's proof needs: the invariant spelled out, the sets of  *)
(* program points, and the abbreviations of the model.                      *)
USE DEF IInv, TypeOK, GstTypeOK, PipelinesExclusive, StarterInv, StopperInv, MainInv,
        MapMatchesPipelines, BeingChanged, gst_joinable, LoopState, cap, goto,
        At, InHandler, Starting, Stopping, Waiting, gstVars, capVars

(* A worker leaves its loop. *)
LEMMA Keeps_leave ==
    ASSUME IInv, Serialised, NEW w \in Workers, leave(w)
    PROVE  IInv'
  BY DEF leave

(* A worker accepts a request. *)
LEMMA Keeps_accept ==
    ASSUME IInv, Serialised, NEW w \in Workers, NEW r \in Requests, accept(w, r)
    PROVE  IInv'
  BY SMTT(30) DEF accept

(* The mutex is taken: no other worker is inside a handler. *)
LEMMA Keeps_lock ==
    ASSUME IInv, Serialised, NEW w \in Workers, lock(w)
    PROVE  IInv'
  BY DEF lock

(* The mutex is released. *)
LEMMA Keeps_unlock ==
    ASSUME IInv, Serialised, NEW w \in Workers, unlock(w)
    PROVE  IInv'
  BY NoReqIsARequest DEF unlock

(* get_pipeline_status only reads the map. *)
LEMMA Keeps_get_pipeline_status ==
    ASSUME IInv, Serialised, NEW w \in Workers, get_pipeline_status(w)
    PROVE  IInv'
  BY DEF get_pipeline_status

(* A start that passes its checks has a free name, hence no pipeline. *)
LEMMA Keeps_start_checks ==
    ASSUME IInv, Serialised, NEW w \in Workers, start_checks(w)
    PROVE  IInv'
  <1>1. cur \notin Names
    BY NoPipeNotAName DEF start_checks
  <1>2. \A n \in Names : ~BeingChanged(n)
    BY DEF start_checks
  <1>3. cap(w) \in Names
    BY File0IsAName DEF start_checks
  <1>4. \A v \in Workers : cap(v)' = cap(v)
    BY DEF start_checks
  <1>5. TypeOK' /\ PipelinesExclusive' /\ MainInv'
    BY DEF start_checks
  <1>6. StarterInv' /\ StopperInv'
    BY <1>1, <1>2, <1>3, <1>4 DEF start_checks, startable, exists
  <1>7. MapMatchesPipelines'
    BY <1>1, <1>2, SMTT(30) DEF start_checks
  <1> QED
    BY <1>5, <1>6, <1>7

(* The capture pipeline is constructed. *)
LEMMA Keeps_start_init ==
    ASSUME IInv, Serialised, NEW w \in Workers, start_init(w)
    PROVE  IInv'
  BY DEF start_init, gst_init

(* The capture pipeline is started. *)
LEMMA Keeps_start_play ==
    ASSUME IInv, Serialised, NEW w \in Workers, start_play(w)
    PROVE  IInv'
  BY DEF start_play, gst_start

(* The capture pipeline enters the map. *)
LEMMA Keeps_start_emplace ==
    ASSUME IInv, Serialised, NEW w \in Workers, start_emplace(w)
    PROVE  IInv'
  BY DEF start_emplace

(* A stop that passes its checks has a pipeline that plays. *)
LEMMA Keeps_stop_checks ==
    ASSUME IInv, Serialised, NEW w \in Workers, stop_checks(w)
    PROVE  IInv'
  <1>1. cur \notin Names
    BY NoPipeNotAName DEF stop_checks
  <1>2. \A n \in Names : ~BeingChanged(n)
    BY DEF stop_checks
  <1>3. stoppable(w) => cap(w) \in Names
    BY DEF stoppable, exists
  <1>4. \A v \in Workers : cap(v)' = cap(v)
    BY DEF stop_checks
  <1>5. TypeOK' /\ PipelinesExclusive' /\ MainInv'
    BY SMTT(30) DEF stop_checks
  <1>6. StarterInv' /\ StopperInv'
    BY <1>1, <1>2, <1>3, <1>4 DEF stop_checks, stoppable, exists
  <1>7. MapMatchesPipelines'
    BY <1>1, <1>2 DEF stop_checks
  <1> QED
    BY <1>5, <1>6, <1>7

(* The EOS event is sent. *)
LEMMA Keeps_stop_eos ==
    ASSUME IInv, Serialised, NEW w \in Workers, stop_eos(w)
    PROVE  IInv'
  BY DEF stop_eos, send_pipeline_eos

(* The wait ends only when m_got_eos is set. *)
LEMMA Keeps_wait_pred ==
    ASSUME IInv, Serialised, NEW w \in Workers, wait_pred(w)
    PROVE  IInv'
  BY DEF wait_pred

(* The wait set is entered. *)
LEMMA Keeps_wait_block ==
    ASSUME IInv, Serialised, NEW w \in Workers, wait_block(w)
    PROVE  IInv'
  BY SMTT(30) DEF wait_block

(* The pipeline is taken down. *)
LEMMA Keeps_stop_stop ==
    ASSUME IInv, Serialised, NEW w \in Workers, stop_stop(w)
    PROVE  IInv'
  BY SMTT(30) DEF stop_stop, gst_stop

(* The thread is joined and the entry erased. *)
LEMMA Keeps_stop_erase ==
    ASSUME IInv, Serialised, NEW w \in Workers, stop_erase(w)
    PROVE  IInv'
  BY SMTT(30) DEF stop_erase, gst_destroy

(* A main loop starts. *)
LEMMA Keeps_run_glib_main ==
    ASSUME IInv, Serialised, NEW g \in Names, run_glib_main(g), UNCHANGED capVars
    PROVE  IInv'
  BY SMTT(30) DEF run_glib_main, ContextFree

(* A queued main loop gets the context. *)
LEMMA Keeps_acquire_context ==
    ASSUME IInv, Serialised, NEW g \in Names, acquire_context(g), UNCHANGED capVars
    PROVE  IInv'
  BY SMTT(30) DEF acquire_context

(* A main loop ends; its thread is still joinable. *)
LEMMA Keeps_run_returns ==
    ASSUME IInv, Serialised, NEW g \in Names, run_returns(g), UNCHANGED capVars
    PROVE  IInv'
  BY SMTT(30) DEF run_returns

(* An EOS message is handled. *)
LEMMA Keeps_on_bus_message ==
    ASSUME IInv, Serialised, NEW g \in Names, NEW n \in Names, on_bus_message(g, n), UNCHANGED capVars
    PROVE  IInv'
  BY SMTT(30) DEF on_bus_message

(* A handler notifies: a waiting worker is back at its predicate. *)
LEMMA Keeps_bus_notify ==
    ASSUME IInv, Serialised, NEW g \in Names, bus_notify(g)
    PROVE  IInv'
  BY NoPipeNotAName, SMTT(30) DEF bus_notify

(* The EOS message is posted. *)
LEMMA Keeps_eos_reaches_bus ==
    ASSUME IInv, Serialised, NEW n \in Names, eos_reaches_bus(n), UNCHANGED capVars
    PROVE  IInv'
  BY SMTT(30) DEF eos_reaches_bus

(* SIGINT. *)
LEMMA Keeps_main_sigint ==
    ASSUME IInv, Serialised, main_sigint
    PROVE  IInv'
  BY SMTT(30) DEF main_sigint

(* The workers have been joined. *)
LEMMA Keeps_main_joined ==
    ASSUME IInv, Serialised, main_joined
    PROVE  IInv'
  BY SMTT(30) DEF main_joined

(* Opaleye_app::stop() takes a pipeline down. *)
LEMMA Keeps_main_stop ==
    ASSUME IInv, Serialised, NEW n \in Names, main_stop(n)
    PROVE  IInv'
  BY NoPipeNotAName, SMTT(30) DEF main_stop, gst_stop

(* Opaleye_app::stop() has joined its thread. *)
LEMMA Keeps_main_reset ==
    ASSUME IInv, Serialised, main_reset
    PROVE  IInv'
  BY NoPipeNotAName, SMTT(30) DEF main_reset, gst_destroy

(* main returns. *)
LEMMA Keeps_main_exit ==
    ASSUME IInv, Serialised, main_exit
    PROVE  IInv'
  BY SMTT(30) DEF main_exit

(* Every step of the program preserves the invariant. *)
LEMMA NextIInv ==
    ASSUME IInv, Serialised, [Next]_vars
    PROVE  IInv'
  <1>1. CASE UNCHANGED vars
    BY <1>1, SMTT(30) DEF vars
  <1>2. CASE Next
    BY ONLY <1>2, IInv, Serialised, ZenonT(60), Keeps_leave,
       Keeps_accept,
       Keeps_lock,
       Keeps_unlock,
       Keeps_get_pipeline_status,
       Keeps_start_checks,
       Keeps_start_init,
       Keeps_start_play,
       Keeps_start_emplace,
       Keeps_stop_checks,
       Keeps_stop_eos,
       Keeps_wait_pred,
       Keeps_wait_block,
       Keeps_stop_stop,
       Keeps_stop_erase,
       Keeps_run_glib_main,
       Keeps_acquire_context,
       Keeps_run_returns,
       Keeps_on_bus_message,
       Keeps_bus_notify,
       Keeps_eos_reaches_bus,
       Keeps_main_sigint,
       Keeps_main_joined,
       Keeps_main_stop,
       Keeps_main_reset,
       Keeps_main_exit
    DEF Next, workerStep, glibStep, gstStep, mainStep
  <1> QED
    BY ONLY <1>1, <1>2, [Next]_vars, SMTT(30)

HIDE DEF IInv, TypeOK, GstTypeOK, PipelinesExclusive, StarterInv, StopperInv, MainInv,
         MapMatchesPipelines, BeingChanged, gst_joinable, LoopState, cap, goto,
         At, InHandler, Starting, Stopping, Waiting, gstVars, capVars

-----------------------------------------------------------------------------

(* The invariant holds of every capture under m_jsonrpc_mutex. *)
LEMMA AlwaysIInv ==
    ASSUME Serialised
    PROVE  Spec => []IInv
  <1>1. Init => IInv
    BY InitIInv
  <1>2. IInv /\ [Next]_vars => IInv'
    BY NextIInv
  <1> QED
    BY <1>1, <1>2, PTL DEF Spec

(* With the handlers under m_jsonrpc_mutex, m_pipelines is never touched by *)
(* two threads at a time, whatever the number of cameras, workers and       *)
(* nested captures.                                                         *)
THEOREM PipelinesAreGuarded ==
    ASSUME Serialised
    PROVE  Spec => []PipelinesExclusive
  <1>1. IInv => PipelinesExclusive
    BY DEF IInv
  <1> QED
    BY <1>1, AlwaysIInv, PTL

(* With the handlers under m_jsonrpc_mutex, m_pipelines holds, outside the  *)
(* handlers, exactly the pipelines that play and have a thread to join,     *)
(* whatever the number of cameras, workers and nested captures.             *)
THEOREM CaptureSafety ==
    ASSUME Serialised
    PROVE  Spec => [](TypeOK /\ MapMatchesPipelines)
  <1>1. IInv => TypeOK /\ MapMatchesPipelines
    BY SMTT(30) DEF IInv
  <1> QED
    BY <1>1, AlwaysIInv, PTL

(* A step takes down a playing pipeline only after its EOS message has been *)
(* handled, or in Opaleye_app::stop().                                      *)
LEMMA StepEosBeforeStop ==
    ASSUME IInv, Next, NEW n \in Names, gst[n] = "playing", gst'[n] # "playing"
    PROVE  gotEos[n] \/ main = "stop"
  <1> USE DEF IInv, TypeOK, GstTypeOK
  <1>1. CASE \E w \in Workers : start_init(w)
    <2>1. PICK w \in Workers : start_init(w)
      BY <1>1
    <2>2. cap(w) \in Names /\ gst[cap(w)] = "none"
      BY <2>1 DEF start_init, StarterInv, Starting
    <2> QED
      BY <2>1, <2>2 DEF start_init, gst_init
  <1>2. CASE \E w \in Workers : stop_stop(w)
    <2>1. PICK w \in Workers : stop_stop(w)
      BY <1>2
    <2>2. cap(w) \in Names /\ gotEos[cap(w)]
      BY <2>1 DEF stop_stop, StopperInv, Stopping
    <2> QED
      BY <2>1, <2>2 DEF stop_stop, gst_stop
  <1>3. CASE \E w \in Workers : stop_erase(w)
    <2>1. PICK w \in Workers : stop_erase(w)
      BY <1>3
    <2>2. cap(w) \in Names /\ gst[cap(w)] # "playing"
      BY <2>1 DEF stop_erase, StopperInv, Stopping
    <2> QED
      BY <2>1, <2>2 DEF stop_erase, gst_destroy
  <1>4. CASE main_reset
    BY <1>4 DEF main_reset, gst_destroy, MainInv
  <1>5. CASE \E m \in Names : main_stop(m)
    BY <1>5 DEF main_stop
  <1>6. CASE \E w \in Workers : start_play(w)
    BY <1>6 DEF start_play, gst_start
  <1> QED
    BY <1>1, <1>2, <1>3, <1>4, <1>5, <1>6, ZenonT(60)
    DEF Next, workerStep, glibStep, gstStep, mainStep, gstVars, accept, leave, lock, unlock,
        get_pipeline_status, start_checks, start_emplace, stop_checks, stop_eos,
        send_pipeline_eos, wait_pred, wait_block, run_glib_main, acquire_context,
        run_returns, on_bus_message, bus_notify, eos_reaches_bus, main_sigint,
        main_joined, main_exit

(* No recording is taken down before its EOS message has been handled,      *)
(* except by Opaleye_app::stop().                                           *)
THEOREM RecordingsFinalised ==
    ASSUME Serialised
    PROVE  Spec => EosBeforeStop
  <1>1. Init => IInv
    BY InitIInv
  <1>2. IInv /\ [Next]_vars => IInv'
    BY NextIInv
  <1>3. IInv /\ [Next]_vars =>
          [\A n \in Names :
              gst[n] = "playing" /\ gst'[n] # "playing" => gotEos[n] \/ main = "stop"]_vars
    BY StepEosBeforeStop
  <1> QED
    BY <1>1, <1>2, <1>3, PTL DEF Spec, EosBeforeStop

-----------------------------------------------------------------------------
(* The refinement.  Beyond IInv it needs to know when m_got_eos may change. *)

(* Only a playing pipeline has an EOS on its bus, and a pipeline that is    *)
(* about to play has not handled one.                                       *)
EosInv ==
    /\ \A n \in Names : gst[n] # "playing" => bus[n] = "none"
    /\ \A w \in Workers : at[w] = "play" => ~gotEos[cap(w)]

(* It holds after Opaleye_app::init() and start(). *)
LEMMA InitEosInv == Init => EosInv
  BY SMTT(30) DEF Init, GstInit, EosInv

(* Every step preserves it. *)
LEMMA NextEosInv ==
    ASSUME IInv, EosInv, [Next]_vars
    PROVE  EosInv'
  <1> USE DEF IInv, TypeOK, GstTypeOK, EosInv, At, InHandler, Starting, Stopping, Waiting, cap, goto
  <1>1. CASE UNCHANGED vars
    BY <1>1, SMTT(30) DEF vars, gstVars, capVars
  <1>2. ASSUME NEW w \in Workers, workerStep(w) PROVE EosInv'
    <2>1. CASE leave(w) \/ lock(w) \/ unlock(w) \/ get_pipeline_status(w)
      BY <2>1, SMTT(30) DEF leave, lock, unlock, get_pipeline_status, gstVars
    <2>2. CASE start_checks(w) \/ start_emplace(w) \/ stop_checks(w) \/ wait_pred(w) \/ wait_block(w)
      BY <2>2 DEF start_checks, start_emplace, stop_checks, wait_pred, wait_block, gstVars
    <2>3. CASE start_init(w)
      <3>1. \A v \in Workers : at[v] \in InHandler => v = w
        BY <2>3 DEF start_init, PipelinesExclusive
      <3>2. cap(w) \in Names
        BY <2>3 DEF start_init, StarterInv
      <3> QED
        BY <2>3, <3>1, <3>2 DEF start_init, gst_init
    <2>4. CASE start_play(w)
      <3>1. \A v \in Workers : at[v] \in InHandler => v = w
        BY <2>4 DEF start_play, PipelinesExclusive
      <3> QED
        BY <2>4, <3>1 DEF start_play, gst_start
    <2>5. CASE stop_eos(w)
      <3>1. gst[cap(w)] = "playing"
        BY <2>5 DEF stop_eos, StopperInv
      <3> QED
        BY <2>5, <3>1 DEF stop_eos, send_pipeline_eos
    <2>6. CASE stop_stop(w)
      BY <2>6 DEF stop_stop, gst_stop
    <2>7. CASE stop_erase(w)
      <3>1. cap(w) \in Names /\ gst[cap(w)] # "playing"
        BY <2>7 DEF stop_erase, StopperInv
      <3> QED
        BY <2>7, <3>1 DEF stop_erase, gst_destroy
    <2> QED
      BY <1>2, <2>1, <2>2, <2>3, <2>4, <2>5, <2>6, <2>7, ZenonT(60) DEF workerStep
  <1>3. ASSUME NEW w \in Workers, NEW r \in Requests, accept(w, r) PROVE EosInv'
    BY <1>3, SMTT(30) DEF accept, gstVars
  <1>4. ASSUME NEW g \in Names, glibStep(g) PROVE EosInv'
    <2>1. CASE run_glib_main(g) /\ UNCHANGED capVars
      BY <2>1 DEF run_glib_main, capVars
    <2>2. CASE acquire_context(g) /\ UNCHANGED capVars
      BY <2>2 DEF acquire_context, capVars
    <2>3. CASE run_returns(g) /\ UNCHANGED capVars
      BY <2>3 DEF run_returns, capVars
    <2>4. ASSUME NEW n \in Names, on_bus_message(g, n), UNCHANGED capVars PROVE EosInv'
      <3>1. gst[n] = "playing"
        BY <2>4 DEF on_bus_message
      <3>2. \A w \in Workers : at[w] = "play" => cap(w) # n
        BY <3>1 DEF StarterInv
      <3> QED
        BY <2>4, <3>1, <3>2 DEF on_bus_message, capVars
    <2>5. CASE bus_notify(g)
      BY <2>5 DEF bus_notify
    <2> QED
      BY <1>4, <2>1, <2>2, <2>3, <2>4, <2>5, ZenonT(60) DEF glibStep
  <1>5. ASSUME NEW n \in Names, gstStep(n) PROVE EosInv'
    BY <1>5 DEF gstStep, eos_reaches_bus, capVars
  <1>6. CASE main_sigint \/ main_joined \/ main_exit
    BY <1>6 DEF main_sigint, main_joined, main_exit, gstVars
  <1>7. ASSUME NEW n \in Names, main_stop(n) PROVE EosInv'
    BY <1>7 DEF main_stop, gst_stop
  <1>8. CASE main_reset
    BY <1>8 DEF main_reset, gst_destroy, MainInv
  <1> QED
    BY <1>1, <1>2, <1>3, <1>4, <1>5, <1>6, <1>7, <1>8 DEF Next, mainStep

(* The recordings are idle at first. *)
LEMMA InitRecorder == Init => R!Init
  BY DEF Init, GstInit, R!Init, recOf, Captures

(* The state of one pipeline decides the state of one recording.            *)
LEMMA RecMove ==
    ASSUME TypeOK, NEW n \in Names,
           \A m \in Names \ {n} : gst'[m] = gst[m] /\ gotEos'[m] = gotEos[m]
    PROVE  /\ n \in Captures => recOf' = [recOf EXCEPT ![n] = recOf'[n]]
           /\ n \notin Captures => recOf' = recOf
  BY Zenon DEF recOf, Captures

(* Every step of the program is a step of the Recorder or changes nothing   *)
(* it can see.                                                              *)
LEMMA NextRecorder ==
    ASSUME IInv, EosInv, [Next]_vars
    PROVE  [R!Next]_(R!vars)
  <1> DEFINE closingOf == main \in {"stop", "joinPipe", "exited"}
  <1> USE DEF IInv, TypeOK, GstTypeOK
  <1>1. SUFFICES \/ recOf' = recOf /\ closingOf' = closingOf
                 \/ R!Next
    BY DEF R!vars
  <1>2. CASE UNCHANGED <<gst, gotEos, main>>
    BY <1>2 DEF recOf
  <1>3. ASSUME NEW w \in Workers, start_init(w) PROVE recOf' = recOf /\ closingOf' = closingOf
    <2>1. cap(w) \in Names /\ gst[cap(w)] # "playing"
      BY <1>3 DEF start_init, StarterInv, Starting
    <2> QED
      BY <1>3, <2>1 DEF start_init, gst_init, recOf, Captures
  <1>4. ASSUME NEW w \in Workers, start_play(w) PROVE R!Next \/ (recOf' = recOf /\ closingOf' = closingOf)
    <2>1. cap(w) \in Names /\ gst[cap(w)] # "playing" /\ ~gotEos[cap(w)]
      BY <1>4 DEF start_play, StarterInv, Starting, EosInv
    <2>2. ~closingOf /\ UNCHANGED main
      BY <1>4 DEF start_play, PipelinesExclusive
    <2>3. cap(w) \in Captures => recOf[cap(w)] = "idle" /\ recOf'[cap(w)] = "recording"
      BY <1>4, <2>1, SMTT(30) DEF start_play, gst_start, recOf
    <2>4. \/ cap(w) \in Captures /\ recOf' = [recOf EXCEPT ![cap(w)] = recOf'[cap(w)]]
          \/ recOf' = recOf
      BY <1>4, <2>1, RecMove DEF start_play, gst_start
    <2> QED
      BY <2>2, <2>3, <2>4 DEF R!Next, R!Begin, R!Move
  <1>5. ASSUME NEW w \in Workers, stop_stop(w) PROVE R!Next \/ (recOf' = recOf /\ closingOf' = closingOf)
    <2>1. cap(w) \in Names /\ gst[cap(w)] = "playing" /\ gotEos[cap(w)]
      BY <1>5, SMTT(30) DEF stop_stop, StopperInv, Stopping
    <2>2. UNCHANGED main
      BY <1>5 DEF stop_stop
    <2>3. cap(w) \in Captures => recOf[cap(w)] = "finished" /\ recOf'[cap(w)] = "idle"
      BY <1>5, <2>1, SMTT(30) DEF stop_stop, gst_stop, recOf
    <2>4. \/ cap(w) \in Captures /\ recOf' = [recOf EXCEPT ![cap(w)] = recOf'[cap(w)]]
          \/ recOf' = recOf
      BY <1>5, <2>1, RecMove DEF stop_stop, gst_stop
    <2> QED
      BY <2>2, <2>3, <2>4 DEF R!Next, R!Close, R!Move
  <1>6. ASSUME NEW w \in Workers, stop_erase(w) PROVE recOf' = recOf /\ closingOf' = closingOf
    <2>1. cap(w) \in Names /\ gst[cap(w)] # "playing"
      BY <1>6 DEF stop_erase, StopperInv, Stopping
    <2> QED
      BY <1>6, <2>1 DEF stop_erase, gst_destroy, recOf, Captures
  <1>7. ASSUME NEW g \in Names, NEW n \in Names, on_bus_message(g, n), UNCHANGED capVars
        PROVE  R!Next \/ (recOf' = recOf /\ closingOf' = closingOf)
    <2>1. gst[n] = "playing"
      BY <1>7 DEF on_bus_message, EosInv
    <2>2. UNCHANGED main
      BY <1>7 DEF capVars
    <2>3. n \in Captures => recOf[n] \in {"recording", "finished"} /\ recOf'[n] = "finished"
      BY <1>7, <2>1, SMTT(30) DEF on_bus_message, recOf
    <2>4. \/ n \in Captures /\ recOf' = [recOf EXCEPT ![n] = recOf'[n]]
          \/ recOf' = recOf
      BY <1>7, RecMove, Zenon DEF on_bus_message
    <2>5. n \in Captures /\ recOf[n] = "finished" => recOf' = recOf
      BY <1>7, <2>1 DEF on_bus_message, recOf, Captures
    <2> QED
      BY <2>2, <2>3, <2>4, <2>5 DEF R!Next, R!Finish, R!Move
  <1>8. ASSUME NEW n \in Names, main_stop(n) PROVE R!Next \/ (recOf' = recOf /\ closingOf' = closingOf)
    <2>1. closingOf /\ closingOf'
      BY <1>8 DEF main_stop
    <2>2. gst[n] = "playing"
      BY <1>8, NoPipeNotAName
      DEF main_stop, MapMatchesPipelines, BeingChanged, PipelinesExclusive, MainInv, Starting, Stopping, Waiting
    <2>3. n \in Captures => recOf[n] \in {"recording", "finished"} /\ recOf'[n] = "idle"
      BY <1>8, <2>2, SMTT(30) DEF main_stop, gst_stop, recOf
    <2>4. \/ n \in Captures /\ recOf' = [recOf EXCEPT ![n] = recOf'[n]]
          \/ recOf' = recOf
      BY <1>8, RecMove, SMTT(30) DEF main_stop, gst_stop
    <2> QED
      BY <2>1, <2>3, <2>4 DEF R!Next, R!Close, R!Cut, R!Move
  <1>9. CASE main_reset
    <2>1. cur \in Names /\ gst[cur] # "playing"
      BY <1>9 DEF main_reset, MainInv
    <2> QED
      BY <1>9, <2>1 DEF main_reset, gst_destroy, recOf, Captures
  <1>10. CASE main_joined
    BY <1>10, SMTT(30) DEF main_joined, gstVars, recOf, R!Next, R!CloseDown
  <1>11. CASE main_sigint \/ main_exit
    BY <1>11 DEF main_sigint, main_exit, gstVars, recOf
  <1> QED
    BY <1>1, <1>2, <1>3, <1>4, <1>5, <1>6, <1>7, <1>8, <1>9, <1>10, <1>11, ZenonT(60)
    DEF Next, vars, workerStep, glibStep, gstStep, mainStep, gstVars, capVars, accept, leave, lock, unlock,
        get_pipeline_status, start_checks, start_emplace, stop_checks, stop_eos,
        send_pipeline_eos, wait_pred, wait_block, run_glib_main, acquire_context,
        run_returns, bus_notify, eos_reaches_bus

(* Recording through the worker threads, the map, the bus and the main loop *)
(* implements the abstract Recorder, for any number of cameras and workers. *)
THEOREM RecorderImplemented ==
    ASSUME Serialised
    PROVE  Spec => ImplementsRecorder
  <1>1. Init => IInv /\ EosInv /\ R!Init
    BY InitIInv, InitEosInv, InitRecorder
  <1>2. IInv /\ EosInv /\ [Next]_vars => IInv' /\ EosInv'
    BY NextIInv, NextEosInv
  <1>3. IInv /\ EosInv /\ [Next]_vars => [R!Next]_(R!vars)
    BY NextRecorder
  <1> QED
    BY <1>1, <1>2, <1>3, PTL DEF Spec, ImplementsRecorder, R!Spec

-----------------------------------------------------------------------------

(* The numbering of the files a capture writes, for any cameras, days and   *)
(* digit limit: the next number of an open capture is always fresh.         *)
IndexIInv == IndexTypeOK /\ NextIsFresh

(* Scanning a number with few enough digits reads that number. *)
LEMMA ScannedIsExact ==
    ASSUME NEW i \in Index, i < Limit
    PROVE  scanned(i) = i
  BY DEF scanned

(* A capture that has just scanned its directory starts above every         *)
(* scannable number there.                                                  *)
LEMMA InitKeeps ==
    ASSUME IndexIInv, NEW c \in Sources, init(c)
    PROVE  IndexIInv'
  <1> USE BoundAssumption, DayAssumption DEF IndexIInv, IndexTypeOK, Index
  <1>1. PICK s \in 0..(MaxIndex + 1) :
           /\ isStartingId(s, numbersIn(c, today))
           /\ start' = [start EXCEPT ![c] = s]
    BY Zenon DEF init
  <1>2. IndexTypeOK'
    BY <1>1 DEF init, current
  <1>3. frag[c] = 0 /\ current(c)' = s
    <2>1. dir[c] = NoDay /\ start[c] + frag[c] = 0
      BY DEF init, current
    <2> QED
      BY <1>1, <2>1 DEF init, current
  <1>4. \A i \in numbersIn(c, today) : i < Limit => i < s
    BY <1>1, ScannedIsExact DEF isStartingId, numbersIn
  <1>5. ASSUME NEW b \in Sources, dir'[b] # NoDay,
               NEW i \in numbersIn(b, dir[b])', i < Limit
        PROVE  i < current(b)'
    <2>1. CASE b = c
      BY <2>1, <1>3, <1>4, <1>5 DEF init, numbersIn
    <2>2. CASE b # c
      BY <2>2, <1>1, <1>5 DEF init, numbersIn, NextIsFresh, current
    <2> QED
      BY <2>1, <2>2
  <1> QED
    BY <1>2, <1>5 DEF NextIsFresh

(* Opening a file moves the next number past it. *)
LEMMA FormatLocationKeeps ==
    ASSUME IndexIInv, NEW c \in Sources, handle_format_location(c)
    PROVE  IndexIInv'
  <1> USE BoundAssumption, DayAssumption DEF IndexIInv, IndexTypeOK, Index, handle_format_location
  <1>1. dir[c] \in Days /\ current(c) \in Index /\ current(c)' = current(c) + 1
    BY DEF current
  <1>2. frag[c] + 1 \in 0..(MaxIndex + 1)
    BY DEF current
  <1>3. \A b \in Sources : b # c => current(b)' = current(b)
    BY DEF current
  <1>4. IndexTypeOK'
    BY <1>1, <1>2, <1>3
  <1>5. ASSUME NEW b \in Sources, dir'[b] # NoDay,
               NEW i \in numbersIn(b, dir[b])', i < Limit
        PROVE  i < current(b)'
    <2>1. CASE b = c
      BY <2>1, <1>1, <1>5 DEF numbersIn, NextIsFresh, current
    <2>2. CASE b # c
      BY <2>2, <1>3, <1>5, SMTT(30) DEF numbersIn, NextIsFresh
    <2> QED
      BY <2>1, <2>2
  <1> QED
    BY <1>4, <1>5 DEF NextIsFresh

(* Every step keeps the next number of every open capture fresh. *)
LEMMA IndexKeeps ==
    ASSUME IndexIInv, [IndexNext]_indexVars
    PROVE  IndexIInv'
  <1> USE BoundAssumption, DayAssumption DEF IndexIInv, IndexTypeOK, NextIsFresh, numbersIn, current, Index
  <1>1. CASE \E c \in Sources : init(c)
    BY ONLY <1>1, IndexIInv, InitKeeps, SMTT(30)
  <1>2. CASE \E c \in Sources : handle_format_location(c)
    BY ONLY <1>2, IndexIInv, FormatLocationKeeps
  <1>3. CASE \E c \in Sources : stop(c)
    BY <1>3 DEF stop
  <1>4. CASE crash
    BY <1>4 DEF crash
  <1>5. CASE \E d \in Days : tick(d)
    BY <1>5 DEF tick
  <1>6. CASE \E f \in files : remove(f)
    BY <1>6 DEF remove
  <1>7. CASE UNCHANGED indexVars
    BY <1>7 DEF indexVars
  <1> QED
    BY <1>1, <1>2, <1>3, <1>4, <1>5, <1>6, <1>7, ZenonT(60) DEF IndexNext

(* No recording is overwritten: whatever captures, crashes, deletions and   *)
(* clock changes came before, a file is opened with a number above every    *)
(* number of its directory that the scan can read in full.                  *)
THEOREM RecordingsKeepGrowing == IndexSpec => []IndexTypeOK /\ NumbersGrow
  <1>1. IndexInit => IndexIInv
    BY BoundAssumption DEF IndexInit, IndexIInv, IndexTypeOK, NextIsFresh, current
  <1>2. IndexIInv /\ [IndexNext]_indexVars => IndexIInv'
    BY IndexKeeps
  <1>3. IndexIInv => IndexTypeOK
    BY DEF IndexIInv
  <1>4. IndexIInv /\ [IndexNext]_indexVars =>
          [\A c \in Sources :
              frag'[c] = frag[c] + 1 =>
                  \A i \in numbersIn(c, dir[c]) : i < Limit => i < current(c)]_indexVars
    <2> SUFFICES ASSUME IndexIInv, IndexNext, NEW c \in Sources, frag'[c] = frag[c] + 1
                 PROVE  \A i \in numbersIn(c, dir[c]) : i < Limit => i < current(c)
      OBVIOUS
    <2>1. frag[c] \in Nat /\ frag[c] + 1 # frag[c] /\ frag[c] + 1 # 0
      BY BoundAssumption DEF IndexIInv, IndexTypeOK
    <2>2. handle_format_location(c)
      BY <2>1 DEF IndexNext, init, handle_format_location, stop, crash, tick, remove, IndexIInv, IndexTypeOK
    <2> QED
      BY <2>2 DEF handle_format_location, IndexIInv, NextIsFresh
  <1> QED
    BY <1>1, <1>2, <1>3, <1>4, PTL DEF IndexSpec, NumbersGrow
=============================================================================
