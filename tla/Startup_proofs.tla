--------------------------- MODULE Startup_proofs ---------------------------
(***************************************************************************)
(* What module Startup promises for every list of cameras, every set of    *)
(* pipeline names and every configuration.                                 *)
(*                                                                         *)
(* The invariant is split by subject: the camera being built (CurInv), the *)
(* pipelines made so far (PipesInv), the interpipe node (NodeInv), the     *)
(* HTTP side (HttpInv), the services (ServiceInv) and the cause of an      *)
(* early end (CauseInv).  That a built pipeline is a linked one rests on   *)
(* RecipesLinked of PipelineBuild_proofs.                                  *)
(***************************************************************************)
EXTENDS Startup, PipelineBuild_proofs

-----------------------------------------------------------------------------
(* The stretches of main *)

Early     == {"mask", "options", "config", "sensors", "fcgi", "clock", "nvpmodel", "trigger"}
Building  == {"camera", "appStart"}
Serving   == {"callbacks", "zmq", "zmqCallbacks", "zcm", "rpc", "unmask", "wait", "fcgiStop", "fcgiJoin"}
Stopping  == {"appStop", "sensorsStop", "zcmStop", "zcmJoin"}
Unwinding == {"unwindZcm", "unwindZcmStop", "unwindZcmJoin", "unwindZmq", "unwindApp",
              "unwindFcgi", "unwindSensors"}

(* The first k links of the camera's recipe are accepted. *)
Linked(cam, k) == \A n \in 1 .. k : LinkOutcome[cfg.cams[cam].type][cfg.mode][n]
links(cam)     == make_pipeline[cfg.cams[cam].type][cfg.mode].links

(* A pipeline is under construction only at "camera", and for a configured
   camera of a known type that has no pipeline yet. *)
CurShape ==
    /\ cur \in [cam : Cams \cup {""}, step : {"none", "init", "link", "stash"}, n : Nat]
    /\ pc # "camera" => cur = NoPipe
    /\ cur.step = "none" => cur = NoPipe
    /\ cur.step # "none" =>
          /\ cur.cam \in DOMAIN cfg.cams \ Made
          /\ cfg.cams[cur.cam].type \in KnownTypes

(* Construction reached its nth link, so the links before it were accepted. *)
CurLinks ==
    /\ cur.step = "link" => cur.n \in 1 .. Len(links(cur.cam)) /\ Linked(cur.cam, cur.n - 1)
    /\ cur.step = "stash" => Linked(cur.cam, Len(links(cur.cam)))

CurInv == CurShape /\ CurLinks

(* A pipeline that was made belongs to the camera whose configuration names
   it, and every link of that camera's recipe was accepted. *)
PipesShape ==
    \A p \in DOMAIN pipes :
        /\ pipes[p].cam \in DOMAIN cfg.cams
        /\ cfg.cams[pipes[p].cam].pipe = p
        /\ cfg.cams[pipes[p].cam].type \in KnownTypes
        /\ Linked(pipes[p].cam, Len(links(pipes[p].cam)))

(* What main's place says of the pipelines: none early on, all playing while
   it serves, all destroyed after app.stop(). *)
PipesPhase ==
    /\ pc \in Early \cup Building \cup Serving \cup Stopping \cup Unwinding
    /\ pc \in Early \cup {"unwindFcgi", "unwindSensors"} => DOMAIN pipes = {}
    /\ \A p \in DOMAIN pipes :
          /\ pc \in Serving \cup (Unwinding \ {"unwindApp"}) => pipes[p].state = "playing"
          /\ pc = "appStop" => pipes[p].state \in {"playing", "destroyed", "lost"}
          /\ pc \in Stopping \ {"appStop"} => pipes[p].state = "destroyed"
    /\ pc \in {"appStart"} \cup Serving \cup Stopping => DOMAIN cfg.cams \subseteq Made

PipesInv == PipesShape /\ PipesPhase

(* The first of a set of cameras in the order of the map. *)
FirstOf(S) ==
    CamOrder[CHOOSE i \in DOMAIN CamOrder : CamOrder[i] \in S /\
                 \A j \in DOMAIN CamOrder : CamOrder[j] \in S => i <= j]

(* The interpipe node is the first configured camera's, and is there before
   any camera's links are made. *)
NodeFirst ==
    /\ node # "" => node = FirstOf(DOMAIN cfg.cams)
    /\ Made # {} => node # ""
    /\ cur.step # "none" /\ node = "" => cur.cam = FirstOf(DOMAIN cfg.cams)
    /\ cur.step \in {"link", "stash"} => node # ""

(* The recipe's bins are initialised in order: past the interpipe sink, the
   node exists. *)
NodeInit ==
    cur.step = "init" =>
        /\ cur.n \in 1 .. Len(recipe.init)
        /\ \A n \in 1 .. cur.n - 1 : recipe.init[n] = "h264_ipsink_0" => node # ""

NodeInv == NodeFirst /\ NodeInit

(* The URIs registered are those of pipelines that exist, and no request is
   being answered once main has joined the HTTP server. *)
HttpInv ==
    /\ pc \in Early \cup Building \cup {"callbacks"} => uris = {}
    /\ uris \ {"rpc"} \subseteq DOMAIN pipes
    /\ req = "lost" => "rpc" \in uris
    /\ "rpc" \in uris => pc \in {"unmask", "wait", "fcgiStop", "fcgiJoin"} \cup Stopping \cup Unwinding
    /\ pc = "fcgiJoin" => fcgi # "running"
    /\ pc \in Stopping => req = "idle" /\ fcgi \in {"off", "failed", "stopped"}

(* The services main has not started yet, and those it has stopped again. *)
ServiceInv ==
    /\ pc \in {"mask", "options", "config", "sensors"} => ~sensors /\ fcgi = "off"
    /\ pc \in Early => ~zmq /\ zcm = "off"
    /\ pc \in {"zcmStop", "zcmJoin"} => ~sensors /\ ~zmq
    /\ ended = "exit 0" => pc \in {"options", "zcmJoin"} /\ zcm = "off"

(* main unwinds only after an exception, and crashes only for a named cause. *)
CauseInv ==
    /\ pc \in Unwinding => fault
    /\ pc = "zmqCallbacks" => cfg.zmq
    /\ CrashHasCause

(* The inductive invariant. *)
IInv == TypeOK /\ CurInv /\ PipesInv /\ NodeInv /\ HttpInv /\ ServiceInv /\ CauseInv

(* What a configuration is. *)
LEMMA ConfigShape ==
    ASSUME cfg \in Configs
    PROVE  /\ cfg.mode \in Modes
           /\ DOMAIN cfg.cams \subseteq Cams
           /\ \A cam \in DOMAIN cfg.cams : cfg.cams[cam].type \in Types /\ cfg.cams[cam].pipe \in PipeNames
<1>1. cfg \in Config
  BY StartupAssumption
<1>2. cfg.mode \in Modes /\ cfg.cams \in UNION {[S -> [type : Types, pipe : PipeNames]] : S \in SUBSET Cams}
  BY <1>1, SMTT(30) DEF Config
<1> QED
  BY <1>2

(* The configuration is read once. *)
LEMMA ConfigStays == [Next]_vars => cfg' = cfg
BY Zenon DEF Next, Main, vars, mask_all_signals, options, load_config, start_sensors, fcgi_start,
       init_clock, set_nvpmodel, init_hw_trigger, next_camera, init_bin, link_bins, stash, app_start,
       register_callbacks, zmq_init, zmq_register_callbacks, zcm_init, register_jsonrpc, mask_def_signals,
       wait_for_signal, fcgi_stop, fcgi_join, app_stop, sensors_zmq_stop, zcm_stop, zcm_join, unwind_zcm,
       unwind_zmq, unwind_app, unwind_fcgi, unwind_sensors, request, respond, rpc_lost, zcm_run_thread, send_signal

(* The flags stay flags. *)
LEMMA FlagsKeep ==
    (sensors \in BOOLEAN /\ zmq \in BOOLEAN /\ zcmInt \in BOOLEAN /\ fault \in BOOLEAN) /\ [Next]_vars
        => sensors' \in BOOLEAN /\ zmq' \in BOOLEAN /\ zcmInt' \in BOOLEAN /\ fault' \in BOOLEAN
<1> SUFFICES ASSUME sensors \in BOOLEAN, zmq \in BOOLEAN, zcmInt \in BOOLEAN, fault \in BOOLEAN, [Next]_vars
             PROVE  sensors' \in BOOLEAN /\ zmq' \in BOOLEAN /\ zcmInt' \in BOOLEAN /\ fault' \in BOOLEAN
  OBVIOUS
<1>1. zcmInt' = zcmInt \/ zcmInt' = (zcm # "off")
  BY Zenon DEF Next, Main, vars, svcVars, mask_all_signals, options, load_config, start_sensors, fcgi_start,
         init_clock, set_nvpmodel, init_hw_trigger, next_camera, init_bin, link_bins, stash, app_start,
         register_callbacks, zmq_init, zmq_register_callbacks, zcm_init, register_jsonrpc, mask_def_signals,
         wait_for_signal, fcgi_stop, fcgi_join, app_stop, sensors_zmq_stop, zcm_stop, zcm_join, unwind_zcm,
         unwind_zmq, unwind_app, unwind_fcgi, unwind_sensors, request, respond, rpc_lost, zcm_run_thread, send_signal
<1>2. sensors' = sensors \/ sensors' = TRUE \/ sensors' = FALSE
  BY ZenonT(60) DEF Next, Main, vars, svcVars, mask_all_signals, options, load_config, start_sensors, fcgi_start,
         init_clock, set_nvpmodel, init_hw_trigger, next_camera, init_bin, link_bins, stash, app_start,
         register_callbacks, zmq_init, zmq_register_callbacks, zcm_init, register_jsonrpc, mask_def_signals,
         wait_for_signal, fcgi_stop, fcgi_join, app_stop, sensors_zmq_stop, zcm_stop, zcm_join, unwind_zcm,
         unwind_zmq, unwind_app, unwind_fcgi, unwind_sensors, request, respond, rpc_lost, zcm_run_thread, send_signal
<1>3. zmq' = zmq \/ zmq' = TRUE \/ zmq' = FALSE
  BY ZenonT(60) DEF Next, Main, vars, svcVars, mask_all_signals, options, load_config, start_sensors, fcgi_start,
         init_clock, set_nvpmodel, init_hw_trigger, next_camera, init_bin, link_bins, stash, app_start,
         register_callbacks, zmq_init, zmq_register_callbacks, zcm_init, register_jsonrpc, mask_def_signals,
         wait_for_signal, fcgi_stop, fcgi_join, app_stop, sensors_zmq_stop, zcm_stop, zcm_join, unwind_zcm,
         unwind_zmq, unwind_app, unwind_fcgi, unwind_sensors, request, respond, rpc_lost, zcm_run_thread, send_signal
<1>4. fault' = fault \/ fault' = TRUE
  BY ZenonT(60) DEF Next, Main, vars, ReturnMinusOne, mask_all_signals, options, load_config, start_sensors, fcgi_start,
         init_clock, set_nvpmodel, init_hw_trigger, next_camera, init_bin, link_bins, stash, app_start,
         register_callbacks, zmq_init, zmq_register_callbacks, zcm_init, register_jsonrpc, mask_def_signals,
         wait_for_signal, fcgi_stop, fcgi_join, app_stop, sensors_zmq_stop, zcm_stop, zcm_join, unwind_zcm,
         unwind_zmq, unwind_app, unwind_fcgi, unwind_sensors, request, respond, rpc_lost, zcm_run_thread, send_signal
<1> QED
  BY <1>1, <1>2, <1>3, <1>4, ZenonT(60)

(* Where main may go in a step that leaves the pipelines alone. *)
Calm ==
    /\ UNCHANGED <<cfg, cur, pipes, node>>
    /\ \/ pc' = pc
       \/ pc \in Early /\ pc' \in Early \cup {"camera", "unwindZcm"}
       \/ pc \in Serving /\ pc' \in Serving \cup {"appStop", "unwindZcm"}
       \/ pc \in Stopping \ {"appStop"} /\ pc' \in Stopping \ {"appStop"}
       \/ /\ pc \in {"unwindZcm", "unwindZcmStop", "unwindZcmJoin", "unwindZmq"}
          /\ pc' \in {"unwindZcmStop", "unwindZcmJoin", "unwindZmq", "unwindApp"}
       \/ pc = "unwindFcgi" /\ pc' = "unwindSensors"

(* Only seven steps of main touch the pipelines. *)
LEMMA PipesLeftAlone ==
    [Next]_vars => Calm \/ next_camera \/ init_bin \/ link_bins \/ stash \/ app_start \/ app_stop \/ unwind_app
<1> USE DEF Calm, Early, Serving, Stopping, pipeVars, At, ReturnMinusOne, Terminate
<1>1. mask_all_signals \/ options \/ load_config \/ start_sensors \/ fcgi_start
          \/ init_clock \/ set_nvpmodel \/ init_hw_trigger => Calm
  BY DEF mask_all_signals, options, load_config, start_sensors, fcgi_start,
         init_clock, set_nvpmodel, init_hw_trigger
<1>2. register_callbacks \/ zmq_init \/ zmq_register_callbacks \/ zcm_init \/ register_jsonrpc
          \/ mask_def_signals \/ wait_for_signal => Calm
  BY Zenon DEF register_callbacks, zmq_init, zmq_register_callbacks, zcm_init, register_jsonrpc,
         mask_def_signals, wait_for_signal
<1>3. fcgi_stop \/ fcgi_join \/ sensors_zmq_stop \/ zcm_stop \/ zcm_join => Calm
  BY DEF fcgi_stop, fcgi_join, sensors_zmq_stop, zcm_stop, zcm_join
<1>4. unwind_zcm \/ unwind_zmq \/ unwind_fcgi \/ unwind_sensors => Calm
  BY DEF unwind_zcm, unwind_zmq, unwind_fcgi, unwind_sensors
<1>5. respond \/ rpc_lost \/ zcm_run_thread \/ (\E u \in {"pipe0", "pipe1", "rpc"} : request(u))
          \/ (\E s \in Signals : send_signal(s)) \/ UNCHANGED vars => Calm
  BY SMTT(30) DEF request, respond, rpc_lost, zcm_run_thread, send_signal, vars
<1> QED
  BY <1>1, <1>2, <1>3, <1>4, <1>5 DEF Next, Main

(* The recipes: at least one link, and the interpipesink among the bins. *)
LEMMA RecipeShape ==
    ASSUME NEW type \in KnownTypes, NEW mode \in Modes
    PROVE  LET r == make_pipeline[type][mode]
           IN  /\ Len(r.links) \in Nat \ {0} /\ Len(r.init) \in Nat \ {0}
               /\ \E n \in 1 .. Len(r.init) : r.init[n] = "h264_ipsink_0"
               /\ {"cam", "thumb_0", "udp_0"} \subseteq r.stored
               /\ type \in {"imx219", "alvium"} => r.bins["cam"].frameCallback
<1>1. CASE type = "brio"
  <2>1. make_pipeline[type][mode] = make_brio_pipeline(mode)
    BY <1>1 DEF make_pipeline
  <2> QED
    BY <1>1, <2>1 DEF make_brio_pipeline, StreamEndInit, StreamEndLinks
<1>2. CASE type = "imx219"
  <2>1. make_pipeline[type][mode] = make_imx219_pipeline(mode)
    BY <1>2 DEF make_pipeline
  <2>2. nvac_imx219_pipe.frameCallback
    BY DEF nvac_imx219_pipe, Camera, Bin
  <2>3. make_imx219_pipeline(mode).bins["cam"] = nvac_imx219_pipe
    BY DEF make_imx219_pipeline
  <2>4. /\ Len(make_imx219_pipeline(mode).links) = 9 /\ Len(make_imx219_pipeline(mode).init) = 10
        /\ make_imx219_pipeline(mode).init[8] = "h264_ipsink_0"
    BY DEF make_imx219_pipeline, StreamEndInit, StreamEndLinks
  <2>5. {"cam", "thumb_0", "udp_0"} \subseteq make_imx219_pipeline(mode).stored
    BY DEF make_imx219_pipeline
  <2> QED
    BY <1>2, <2>1, <2>2, <2>3, <2>4, <2>5
<1>3. CASE type = "alvium"
  <2>1. make_pipeline[type][mode] = make_alvium_pipeline(mode)
    BY <1>3 DEF make_pipeline
  <2>2. V4L2_alvium_pipe.frameCallback
    BY DEF V4L2_alvium_pipe, Camera, Bin
  <2>3. make_alvium_pipeline(mode).bins["cam"] = V4L2_alvium_pipe
    BY DEF make_alvium_pipeline
  <2> QED
    BY <1>3, <2>1, <2>2, <2>3, SMTT(30) DEF make_alvium_pipeline, StreamEndInit, StreamEndLinks
<1>4. CASE type = "virtual"
  <2>1. make_pipeline[type][mode] = make_virtual_pipeline(mode)
    BY <1>4 DEF make_pipeline
  <2> QED
    BY <1>4, <2>1 DEF make_virtual_pipeline, StreamEndInit, StreamEndLinks
<1> QED
  BY <1>1, <1>2, <1>3, <1>4 DEF KnownTypes

(* The next camera to build is the first one that is left. *)
LEMMA LeastTodo ==
    ASSUME Todo # {}
    PROVE  LET first == CHOOSE i \in Todo : \A j \in Todo : i <= j
           IN  first \in Todo /\ \A j \in Todo : first <= j
<1>1. Todo \in SUBSET Nat
  <2>0. CamOrder \in Seq(STRING)
    BY StartupAssumption
  <2>1. DOMAIN CamOrder = 1 .. Len(CamOrder) /\ Len(CamOrder) \in Nat
    BY <2>0
  <2> QED
    BY <2>1 DEF Todo
<1>2. \E i \in Todo : \A j \in Todo : i <= j
  <2> DEFINE T == Todo
  <2> HIDE DEF T
  <2>1. ASSUME T # {}, T \in SUBSET Nat
        PROVE  \E i \in T : \A j \in T : i <= j
    BY <2>1, LeastNumber
  <2> QED
    BY <1>1, <2>1 DEF T
<1> QED
  BY <1>2

(* The first camera is the one that comes before all others. *)
LEMMA FirstIsLeast ==
    ASSUME NEW S, NEW i \in DOMAIN CamOrder, CamOrder[i] \in S,
           \A j \in DOMAIN CamOrder : CamOrder[j] \in S => i <= j
    PROVE  FirstOf(S) = CamOrder[i]
<1>1. DOMAIN CamOrder \subseteq Nat
  <2>1. CamOrder \in Seq(STRING)
    BY StartupAssumption
  <2>2. DOMAIN CamOrder = 1 .. Len(CamOrder) /\ Len(CamOrder) \in Nat
    BY <2>1
  <2> QED
    BY <2>2
<1> DEFINE Least(k) == CamOrder[k] \in S /\ \A j \in DOMAIN CamOrder : CamOrder[j] \in S => k <= j
           first == CHOOSE k \in DOMAIN CamOrder : Least(k)
<1>2. first \in DOMAIN CamOrder /\ Least(first)
  <2>1. Least(i)
    OBVIOUS
  <2> HIDE DEF Least
  <2> QED
    BY <2>1
<1>3. first = i
  <2> HIDE DEF first
  <2>1. first <= i /\ i <= first
    BY <1>2
  <2>2. first \in Nat /\ i \in Nat
    BY <1>1, <1>2
  <2> QED
    BY <2>1, <2>2
<1>4. FirstOf(S) = CamOrder[first]
  BY DEF FirstOf
<1> QED
  BY <1>3, <1>4, Zenon

(* The camera next_camera turns to. *)
NextCam == CamOrder[CHOOSE i \in Todo : \A j \in Todo : i <= j]

(* The outcomes of next_camera: no camera is left, the next one is begun,   *)
(* or its type is unknown and the process ends.                             *)
LEMMA NextCameraOutcome ==
    ASSUME next_camera
    PROVE  /\ Running /\ pc = "camera" /\ cur = NoPipe /\ UNCHANGED <<cfg, pipes, node, fault>>
           /\ \/ Todo = {} /\ pc' = "appStart" /\ UNCHANGED <<cur, ended>>
              \/ /\ Todo # {} /\ cfg.cams[NextCam].type \in KnownTypes
                 /\ cur' = [cam |-> NextCam, step |-> "init", n |-> 1] /\ UNCHANGED <<pc, ended>>
              \/ /\ Todo # {} /\ cfg.cams[NextCam].type \notin KnownTypes
                 /\ ended' = "terminated" /\ UNCHANGED <<cur, pc>>
<1>1. Running /\ pc = "camera" /\ cur = NoPipe /\ UNCHANGED <<cfg, pipes, node, fault>>
  BY DEF next_camera, At
<1>2. CASE Todo = {}
  BY <1>1, <1>2 DEF next_camera
<1>3. CASE Todo # {}
  <2> DEFINE cam == CamOrder[CHOOSE i \in Todo : \A j \in Todo : i <= j]
  <2>1. cam = NextCam
    BY DEF NextCam
  <2>2. IF cfg.cams[cam].type \in KnownTypes
        THEN cur' = [cam |-> cam, step |-> "init", n |-> 1] /\ UNCHANGED <<pc, ended>>
        ELSE Terminate /\ UNCHANGED cur
    BY <1>3, Zenon DEF next_camera
  <2> HIDE DEF cam
  <2> QED
    BY <1>1, <1>3, <2>1, <2>2 DEF Terminate
<1> QED
  BY <1>2, <1>3

(* The next camera is configured and not made yet, and no camera that is    *)
(* left comes before it.                                                    *)
LEMMA NextCamIsFirst ==
    ASSUME Todo # {}
    PROVE  /\ NextCam \in DOMAIN cfg.cams \ Made
           /\ Made = {} => NextCam = FirstOf(DOMAIN cfg.cams)
<1> DEFINE first == CHOOSE i \in Todo : \A j \in Todo : i <= j
<1>1. first \in Todo /\ \A j \in Todo : first <= j
  BY LeastTodo
<1>2. NextCam = CamOrder[first]
  BY DEF NextCam
<1> HIDE DEF first
<1>3. NextCam \in DOMAIN cfg.cams \ Made
  BY <1>1, <1>2 DEF Todo
<1>4. ASSUME Made = {} PROVE NextCam = FirstOf(DOMAIN cfg.cams)
  <2>1. first \in DOMAIN CamOrder /\ CamOrder[first] \in DOMAIN cfg.cams
    BY <1>1 DEF Todo
  <2>2. \A j \in DOMAIN CamOrder : CamOrder[j] \in DOMAIN cfg.cams => first <= j
    BY <1>1, <1>4 DEF Todo
  <2> QED
    BY <1>2, <2>1, <2>2, FirstIsLeast
<1> QED
  BY <1>3, <1>4

(* The updates of cur keep its camera. *)
LEMMA CurMoves ==
    ASSUME NEW C, NEW c \in [cam : C, step : {"none", "init", "link", "stash"}, n : Nat], NEW d,
           \/ d = [c EXCEPT !.n = c.n + 1]
           \/ d = [c EXCEPT !.step = "link", !.n = 1]
           \/ d = [c EXCEPT !.step = "stash"]
           \/ d = c
    PROVE  /\ d \in [cam : C, step : {"none", "init", "link", "stash"}, n : Nat]
           /\ d.cam = c.cam /\ (d.step = c.step \/ d.step \in {"link", "stash"})
<1>1. CASE d = [c EXCEPT !.n = c.n + 1]
  <2>1. d \in [cam : C, step : {"none", "init", "link", "stash"}, n : Nat]
    BY <1>1
  <2>2. d.cam = c.cam /\ d.step = c.step
    BY <1>1
  <2> QED
    BY <2>1, <2>2
<1>2. CASE d = [c EXCEPT !.step = "link", !.n = 1]
  BY <1>2, Zenon
<1>3. CASE d = [c EXCEPT !.step = "stash"]
  BY <1>3
<1> QED
  BY <1>1, <1>2, <1>3

(* The camera being built. *)
LEMMA CurKeeps == IInv /\ [Next]_vars => CurInv'
<1> SUFFICES ASSUME TypeOK, CurShape, CurLinks, PipesInv, [Next]_vars
             PROVE  CurShape' /\ CurLinks'
  BY DEF IInv, CurInv
<1> USE DEF At
<1>0. cfg' = cfg /\ cfg \in Configs
  BY ConfigStays DEF TypeOK
<1>a. /\ \A c : links(c)' = links(c)
      /\ \A c, k : Linked(c, k)' <=> Linked(c, k)
  BY <1>0 DEF links, Linked
<1>1. CASE Calm
  BY <1>1, Zenon DEF Calm, CurShape, CurLinks, Made, links, Linked, Early, Serving, Stopping
<1>2. CASE next_camera
  <2>1. CASE cur' = cur
    <3>1. cur = NoPipe /\ cur' = NoPipe
      BY <1>2, <2>1, NextCameraOutcome
    <3> QED
      BY <3>1 DEF CurShape, CurLinks, NoPipe
  <2>2. CASE cur' # cur
    <3>1. /\ Todo # {} /\ cfg.cams[NextCam].type \in KnownTypes
          /\ cur' = [cam |-> NextCam, step |-> "init", n |-> 1] /\ pc' = pc /\ pipes' = pipes /\ pc = "camera"
      BY <1>2, <2>2, NextCameraOutcome
    <3>2. NextCam \in DOMAIN cfg.cams \ Made /\ NextCam \in Cams
      BY <1>0, <3>1, NextCamIsFirst, ConfigShape
    <3> QED
      BY <1>0, <3>1, <3>2 DEF CurShape, CurLinks, Made
  <2> QED
    BY <2>1, <2>2
<1>3. CASE init_bin \/ link_bins
  <2>1. /\ pc' = pc /\ pipes' = pipes /\ pc = "camera"
        /\ init_bin => cur.step = "init"
        /\ link_bins => cur.step = "link"
    BY <1>3 DEF init_bin, link_bins, Terminate
  <2>2. \/ cur' = [cur EXCEPT !.n = cur.n + 1]
        \/ cur' = [cur EXCEPT !.step = "link", !.n = 1]
        \/ cur' = [cur EXCEPT !.step = "stash"]
        \/ cur' = cur
    BY <1>3 DEF init_bin, link_bins
  <2>3. /\ cur' \in [cam : Cams \cup {""}, step : {"none", "init", "link", "stash"}, n : Nat]
        /\ cur'.cam = cur.cam /\ (cur'.step = cur.step \/ cur'.step \in {"link", "stash"})
    BY <2>2, CurMoves, Zenon DEF CurShape
  <2>4. CurShape'
    <3>1. Made' = Made
      BY <2>1 DEF Made
    <3>2. cur.step \in {"init", "link"}
      BY <1>3, <2>1, SMTT(30)
    <3> QED
      BY <1>0, <2>1, <2>3, <3>1, <3>2 DEF CurShape
  <2>5. Len(links(cur.cam)) \in Nat \ {0}
    BY <1>0, <1>3, <2>1, ConfigShape, RecipeShape DEF CurShape, links
  <2>6. CASE init_bin
    <3>1. \/ cur'.step = "init"
          \/ cur'.step = "link" /\ cur'.n = 1
      <4>0. cur \in [cam : Cams \cup {""}, step : {"none", "init", "link", "stash"}, n : Nat]
        BY DEF CurShape
      <4>1. \/ cur' = [cur EXCEPT !.n = cur.n + 1]
            \/ cur' = [cur EXCEPT !.step = "link", !.n = 1]
            \/ cur' = cur
        BY <2>6 DEF init_bin
      <4> QED
        BY <2>1, <2>6, <4>0, <4>1
    <3>2. Linked(cur.cam, 0)
      BY DEF Linked
    <3>3. cur'.step = "link" => cur'.n \in 1 .. Len(links(cur.cam)) /\ cur'.n - 1 = 0
      BY <2>5, <3>1
    <3>4. cur'.step # "stash"
      BY <3>1
    <3>5. cur'.step = "link" => cur'.n \in 1 .. Len(links(cur.cam)') /\ Linked(cur.cam, cur.n - 1)'
      <4>1. SUFFICES ASSUME cur'.step = "link"
                     PROVE  cur'.n \in 1 .. Len(links(cur.cam)') /\ Linked(cur.cam, cur.n - 1)'
        OBVIOUS
      <4>2. links(cur.cam)' = links(cur.cam)
        BY <1>0, <2>3 DEF links
      <4>3. Linked(cur.cam, cur.n - 1)'
        BY <3>3, <4>1 DEF Linked
      <4> QED
        BY <3>3, <4>1, <4>2, <4>3
    <3> QED
      BY <2>4, <3>4, <3>5 DEF CurLinks
  <2>7. CASE link_bins
    <3>1. links(cur.cam) = recipe.links
      BY DEF links, recipe
    <3>2. cur.n \in 1 .. Len(links(cur.cam)) /\ Linked(cur.cam, cur.n - 1)
      BY <2>1, <2>7, SMTT(30) DEF CurLinks
    <3>3. CASE cur' = cur
      BY <1>0, <2>4, <3>3, Zenon DEF CurLinks, links, Linked
    <3>4. CASE cur' # cur
      <4>1. LinkOutcome[cfg.cams[cur.cam].type][cfg.mode][cur.n]
        BY <2>7, <3>4 DEF link_bins
      <4>2. \A n \in 1 .. cur.n : n \in 1 .. cur.n - 1 \/ n = cur.n
        BY <2>5, <3>2, SMTT(30)
      <4>3. Linked(cur.cam, cur.n)
        BY <3>2, <4>1, <4>2 DEF Linked
      <4>4. \/ cur.n < Len(links(cur.cam)) /\ cur'.step = "link" /\ cur'.n = cur.n + 1
            \/ ~(cur.n < Len(links(cur.cam))) /\ cur'.step = "stash"
        <5>0. cur \in [cam : Cams \cup {""}, step : {"none", "init", "link", "stash"}, n : Nat]
          BY DEF CurShape
        <5>1. cur' = IF cur.n < Len(links(cur.cam))
                     THEN [cur EXCEPT !.n = cur.n + 1] ELSE [cur EXCEPT !.step = "stash"]
          BY <2>7, <3>1, <4>1 DEF link_bins
        <5> QED
          BY <2>1, <2>7, <5>0, <5>1
      <4>5. /\ cur'.step = "link" => cur'.n \in 1 .. Len(links(cur.cam)) /\ cur'.n - 1 = cur.n
            /\ cur'.step = "stash" => cur.n = Len(links(cur.cam))
        BY <2>5, <3>2, <4>4, SMTT(30)
      <4>6. links(cur.cam)' = links(cur.cam)
        BY <1>0, <2>3 DEF links
      <4>7. cur'.step = "link" => Linked(cur.cam, cur.n - 1)'
        BY <1>0, <2>3, <4>3, <4>5, ZenonT(60) DEF Linked
      <4>8. cur'.step = "stash" => Linked(cur.cam, Len(links(cur.cam)))'
        BY <1>0, <2>3, <4>3, <4>5, <4>6, ZenonT(60) DEF Linked
      <4> QED
        BY <2>4, <4>5, <4>6, <4>7, <4>8 DEF CurLinks
    <3> QED
      BY <2>4, <3>3, <3>4
  <2> QED
    BY <1>3, <2>4, <2>6, <2>7, SMTT(30)
<1>4. CASE stash
  <2>1. pc' = pc /\ pc = "camera" /\ cur.step = "stash"
    BY <1>4 DEF stash, Terminate
  <2>2. CASE cur' = cur /\ pipes' = pipes
    BY <1>0, <1>a, <2>1, <2>2 DEF CurShape, CurLinks, Made
  <2>3. CASE cur' = NoPipe
    BY <2>3 DEF CurShape, CurLinks, NoPipe
  <2> QED
    BY <1>4, <2>2, <2>3 DEF stash
<1>5. CASE app_start \/ app_stop \/ unwind_app
  <2>1. cur' = cur /\ pc # "camera" /\ pc' # "camera"
    BY <1>5 DEF app_start, app_stop, unwind_app, Terminate
  <2>2. cur = NoPipe /\ cur' = NoPipe
    BY <2>1 DEF CurShape
  <2> QED
    BY <2>1, <2>2 DEF CurShape, CurLinks, NoPipe
<1> QED
  BY <1>1, <1>2, <1>3, <1>4, <1>5, PipesLeftAlone

(* The pipelines made so far: what they were made from. *)
LEMMA PipesShapeKeeps == IInv /\ [Next]_vars => PipesShape'
<1> SUFFICES ASSUME TypeOK, CurShape, CurLinks, PipesShape, [Next]_vars
             PROVE  PipesShape'
  BY DEF IInv, CurInv, PipesInv
<1>0. cfg' = cfg
  BY ConfigStays, SMTT(30)
<1>1. ASSUME /\ DOMAIN pipes' = DOMAIN pipes
             /\ \A p \in DOMAIN pipes : pipes'[p].cam = pipes[p].cam
      PROVE  PipesShape'
  BY <1>0, <1>1, ZenonT(60) DEF PipesShape, links, Linked
<1>2. CASE Calm \/ next_camera \/ init_bin \/ link_bins
  BY <1>1, <1>2 DEF Calm, next_camera, init_bin, link_bins
<1>3. CASE stash
  <2>1. CASE pipes' = pipes
    BY <1>1, <2>1
  <2>2. CASE pipes' # pipes
    <3> DEFINE pipe == cfg.cams[cur.cam].pipe
    <3>1. pipes' = [p \in DOMAIN pipes \cup {pipe} |->
                       IF p = pipe THEN [cam |-> cur.cam, state |-> "made"] ELSE pipes[p]]
      BY <1>3, <2>2 DEF stash
    <3>2. ASSUME NEW p \in DOMAIN pipes'
          PROVE  /\ pipes'[p].cam \in DOMAIN cfg.cams
                 /\ cfg.cams[pipes'[p].cam].pipe = p
                 /\ cfg.cams[pipes'[p].cam].type \in KnownTypes
                 /\ Linked(pipes'[p].cam, Len(links(pipes'[p].cam)))
      <4>1. CASE p = pipe
        <5>1. pipes'[p].cam = cur.cam /\ cur.step = "stash"
          BY <1>3, <3>1, <4>1 DEF stash
        <5> QED
          BY <4>1, <5>1 DEF CurShape, CurLinks
      <4>2. CASE p # pipe
        <5>1. p \in DOMAIN pipes /\ pipes'[p] = pipes[p]
          BY <3>1, <4>2
        <5> QED
          BY <5>1 DEF PipesShape
      <4> QED
        BY <4>1, <4>2
    <3> QED
      BY <1>0, <3>2, ZenonT(60) DEF PipesShape, links, Linked
  <2> QED
    BY <2>1, <2>2
<1>4. CASE app_start
  BY <1>1, <1>4 DEF app_start, TypeOK
<1>5. CASE app_stop \/ unwind_app
  <2>1. CASE pipes' = pipes
    BY <1>1, <2>1
  <2>2. CASE pipes' # pipes
    <3>1. PICK p \in DOMAIN pipes, end \in {"destroyed", "lost"} : pipes' = [pipes EXCEPT ![p].state = end]
      BY <1>5, <2>2 DEF app_stop, unwind_app
    <3> QED
      BY <1>1, <3>1 DEF TypeOK
  <2> QED
    BY <2>1, <2>2
<1> QED
  BY <1>2, <1>3, <1>4, <1>5, PipesLeftAlone

(* The pipelines made so far: what main has done with them. *)
LEMMA PipesPhaseKeeps == IInv /\ [Next]_vars => PipesPhase'
<1> SUFFICES ASSUME TypeOK, PipesPhase, [Next]_vars
             PROVE  PipesPhase'
  BY DEF IInv, PipesInv
<1> USE DEF At, Early, Building, Serving, Stopping, Unwinding
<1>0. cfg' = cfg /\ cfg \in Configs
  BY ConfigStays DEF TypeOK
<1>1. CASE Calm
  <2>1. Made' = Made /\ pipes' = pipes
    BY <1>1 DEF Calm, Made
  <2> QED
    BY <1>0, <1>1, <2>1 DEF Calm, PipesPhase
<1>2. CASE next_camera
  <2>1. pipes' = pipes /\ Made' = Made /\ pc = "camera"
    BY <1>2 DEF next_camera, Made
  <2>2. pc' = "camera" \/ (pc' = "appStart" /\ Todo = {})
    BY <1>2, NextCameraOutcome
  <2>3. Todo = {} => DOMAIN cfg.cams \subseteq Made
    <3>1. SUFFICES ASSUME Todo = {}, NEW c \in DOMAIN cfg.cams PROVE c \in Made
      OBVIOUS
    <3>2. PICK i \in DOMAIN CamOrder : c = CamOrder[i]
      BY <1>0, ConfigShape DEF Cams
    <3> QED
      BY <3>1, <3>2 DEF Todo
  <2> QED
    BY <1>0, <2>1, <2>2, <2>3 DEF PipesPhase
<1>3. CASE init_bin \/ link_bins \/ stash
  <2>1. pc = "camera" /\ pc' = pc
    BY <1>3 DEF init_bin, link_bins, stash, Terminate
  <2> QED
    BY <1>0, <2>1, SMTT(30) DEF PipesPhase
<1>4. CASE app_start
  <2>1. /\ DOMAIN pipes' = DOMAIN pipes
        /\ \A p \in DOMAIN pipes : pipes'[p].cam = pipes[p].cam /\ pipes'[p].state = "playing"
        /\ pc = "appStart" /\ pc' = "callbacks"
    BY <1>4 DEF app_start, TypeOK
  <2>2. Made' = Made
    BY <2>1 DEF Made
  <2> QED
    BY <1>0, <2>1, <2>2 DEF PipesPhase
<1>5. CASE app_stop
  <2>1. CASE \E p \in DOMAIN pipes : pipes[p].state = "playing"
    <3>1. PICK p \in DOMAIN pipes, end \in {"destroyed", "lost"} : pipes' = [pipes EXCEPT ![p].state = end]
      BY <1>5, <2>1 DEF app_stop
    <3>2. /\ DOMAIN pipes' = DOMAIN pipes
          /\ \A q \in DOMAIN pipes : /\ pipes'[q].cam = pipes[q].cam
                                     /\ pipes'[q].state \in {pipes[q].state, "destroyed", "lost"}
      BY <3>1 DEF TypeOK
    <3>3. pc' = "appStop" /\ pc = "appStop"
      BY <1>5, <2>1 DEF app_stop
    <3>4. Made' = Made
      BY <3>2 DEF Made
    <3> QED
      BY <1>0, <3>2, <3>3, <3>4 DEF PipesPhase
  <2>2. CASE ~\E p \in DOMAIN pipes : pipes[p].state = "playing"
    <3>1. pipes' = pipes /\ Made' = Made /\ pc = "appStop" /\ pc' = "sensorsStop"
      BY <1>5, <2>2 DEF app_stop, Made
    <3> QED
      BY <1>0, <1>5, <2>2, <3>1 DEF app_stop, PipesPhase
  <2> QED
    BY <2>1, <2>2
<1>6. CASE unwind_app
  <2>1. CASE pipes' = pipes
    BY <1>0, <1>6, <2>1 DEF unwind_app, Terminate, PipesPhase
  <2>2. CASE pipes' # pipes
    <3>1. pc = "unwindApp" /\ pc' = pc
      BY <1>6, <2>2 DEF unwind_app
    <3> QED
      BY <1>0, <3>1 DEF PipesPhase
  <2> QED
    BY <2>1, <2>2
<1> QED
  BY <1>1, <1>2, <1>3, <1>4, <1>5, <1>6, PipesLeftAlone

(* The bins of the recipe that are made already: the interpipesink among    *)
(* them has registered the node.                                            *)
LEMMA NodeInitKeeps == IInv /\ [Next]_vars => NodeInit'
<1> SUFFICES ASSUME TypeOK, CurShape, NodeInit, [Next]_vars
             PROVE  NodeInit'
  BY DEF IInv, CurInv, NodeInv
<1>0. cfg' = cfg /\ cfg \in Configs
  BY ConfigStays DEF TypeOK
<1>1. CASE Calm
  BY <1>0, <1>1, Zenon DEF Calm, NodeInit, recipe
<1>2. CASE next_camera
  <2>1. CASE cur' = cur
    <3>1. cur' = NoPipe
      BY <1>2, <2>1, NextCameraOutcome
    <3> QED
      BY <3>1 DEF NodeInit, NoPipe
  <2>2. CASE cur' # cur
    <3>1. /\ Todo # {} /\ cfg.cams[NextCam].type \in KnownTypes
          /\ cur' = [cam |-> NextCam, step |-> "init", n |-> 1]
      BY <1>2, <2>2, NextCameraOutcome
    <3>2. recipe' = make_pipeline[cfg.cams[NextCam].type][cfg.mode]
      BY <1>0, <3>1, SMTT(30) DEF recipe
    <3>3. Len(recipe'.init) \in Nat \ {0}
      BY <1>0, <3>1, <3>2, ConfigShape, RecipeShape
    <3>4. cur'.n = 1
      BY <3>1
    <3>5. 1 .. cur'.n - 1 = {} /\ cur'.n \in 1 .. Len(recipe'.init)
      BY <3>3, <3>4
    <3> QED
      BY <3>5 DEF NodeInit
  <2> QED
    BY <2>1, <2>2
<1>3. CASE init_bin
  <2>1. cur.step = "init" /\ cur \in [cam : Cams \cup {""}, step : {"none", "init", "link", "stash"}, n : Nat]
    BY <1>3 DEF init_bin, CurShape
  <2>2. CASE cur' = cur /\ node' = node
    BY <1>0, <2>2, Zenon DEF NodeInit, recipe
  <2>3. CASE ~(cur' = cur /\ node' = node)
    <3>1. /\ cur' = IF cur.n < Len(recipe.init)
                    THEN [cur EXCEPT !.n = cur.n + 1] ELSE [cur EXCEPT !.step = "link", !.n = 1]
          /\ node' = IF recipe.init[cur.n] = "h264_ipsink_0" /\ node = "" THEN cur.cam ELSE node
      BY <1>3, <2>3 DEF init_bin
    <3>2. CASE ~(cur.n < Len(recipe.init))
      BY <2>1, <3>1, <3>2 DEF NodeInit
    <3>3. CASE cur.n < Len(recipe.init)
      <4>1. cur'.cam = cur.cam /\ cur'.n = cur.n + 1
        BY <2>1, <3>1, <3>3
      <4>2. recipe' = recipe
        BY <1>0, <4>1 DEF recipe
      <4>3. cur.cam # ""
        BY <1>0, <2>1, ConfigShape, StartupAssumption DEF CurShape
      <4>4. cur.n \in 1 .. Len(recipe.init) /\ Len(recipe.init) \in Nat
        BY <1>0, <2>1, ConfigShape, RecipeShape, Zenon DEF NodeInit, CurShape, recipe
      <4>5. cur'.n \in 1 .. Len(recipe.init)
        BY <3>3, <4>1, <4>4
      <4>6. ASSUME NEW n \in 1 .. cur'.n - 1, recipe.init[n] = "h264_ipsink_0" PROVE node' # ""
        <5>1. n \in 1 .. cur.n - 1 \/ n = cur.n
          BY <4>1, <4>4
        <5> QED
          BY <2>1, <3>1, <4>3, <4>6, <5>1 DEF NodeInit
      <4> QED
        BY <4>2, <4>5, <4>6 DEF NodeInit
    <3> QED
      BY <3>2, <3>3
  <2> QED
    BY <2>2, <2>3
<1>4. CASE link_bins
  <2>1. cur' = cur \/ cur' = [cur EXCEPT !.n = cur.n + 1] \/ cur' = [cur EXCEPT !.step = "stash"]
    BY <1>4 DEF link_bins
  <2>2. cur.step = "link" /\ cur \in [cam : Cams \cup {""}, step : {"none", "init", "link", "stash"}, n : Nat]
    BY <1>4 DEF link_bins, CurShape
  <2>3. cur'.step # "init"
    BY <2>1, <2>2
  <2> QED
    BY <2>3 DEF NodeInit
<1>5. CASE stash
  <2>1. cur.step = "stash"
    BY <1>5 DEF stash
  <2>2. cur' = cur \/ cur' = NoPipe
    <3>1. CASE cfg.cams[cur.cam].pipe \in DOMAIN pipes
      BY <1>5, <3>1 DEF stash
    <3>2. CASE cfg.cams[cur.cam].pipe \notin DOMAIN pipes
      BY <1>5, <3>2 DEF stash
    <3> QED
      BY <3>1, <3>2
  <2>3. cur'.step # "init"
    <3>1. NoPipe.step = "none"
      BY DEF NoPipe
    <3> QED
      BY <2>1, <2>2, <3>1
  <2> QED
    BY <2>3 DEF NodeInit
<1>6. CASE app_start \/ app_stop \/ unwind_app
  <2>1. cur' = cur /\ cur = NoPipe
    BY <1>6 DEF app_start, app_stop, unwind_app, At, CurShape
  <2> QED
    BY <2>1 DEF NodeInit, NoPipe
<1> QED
  BY <1>1, <1>2, <1>3, <1>4, <1>5, <1>6, PipesLeftAlone

(* The interpipe node "h264_ipsink_0" belongs to the first camera. *)
LEMMA NodeFirstKeeps == IInv /\ [Next]_vars => NodeFirst'
<1> SUFFICES ASSUME TypeOK, CurShape, NodeFirst, NodeInit, [Next]_vars
             PROVE  NodeFirst'
  BY DEF IInv, CurInv, NodeInv
<1>0. cfg' = cfg /\ cfg \in Configs
  BY ConfigStays DEF TypeOK
<1> DEFINE F == FirstOf(DOMAIN cfg.cams)
<1>a. F' = F
  BY <1>0 DEF FirstOf
<1> HIDE DEF F
<1>1. ASSUME cur' = cur, node' = node, Made' = Made
      PROVE  NodeFirst'
  BY <1>a, <1>1 DEF NodeFirst, F
<1>2. CASE Calm
  BY <1>1, <1>2 DEF Calm, Made
<1>3. CASE next_camera
  <2>1. Made' = Made /\ node' = node
    BY <1>3, NextCameraOutcome DEF Made
  <2>2. CASE cur' # cur
    <3>1. Todo # {} /\ cur' = [cam |-> NextCam, step |-> "init", n |-> 1]
      BY <1>3, <2>2, NextCameraOutcome
    <3>2. Made = {} => NextCam = F
      BY <3>1, NextCamIsFirst DEF F
    <3> QED
      BY <1>a, <2>1, <3>1, <3>2 DEF NodeFirst, F
  <2> QED
    BY <1>1, <2>1, <2>2
<1>4. CASE init_bin
  <2>1. /\ cur.step = "init" /\ Made' = Made
        /\ cur \in [cam : Cams \cup {""}, step : {"none", "init", "link", "stash"}, n : Nat]
    BY <1>4 DEF init_bin, CurShape, Made
  <2>2. CASE ~(cur' = cur /\ node' = node)
    <3>1. /\ cur' = IF cur.n < Len(recipe.init)
                    THEN [cur EXCEPT !.n = cur.n + 1] ELSE [cur EXCEPT !.step = "link", !.n = 1]
          /\ node' = IF recipe.init[cur.n] = "h264_ipsink_0" /\ node = "" THEN cur.cam ELSE node
      BY <1>4, <2>2 DEF init_bin
    <3>2. cur'.cam = cur.cam /\ (cur'.step = "init" \/ (cur'.step = "link" /\ ~(cur.n < Len(recipe.init))))
      BY <2>1, <3>1
    <3>3. cur.cam # ""
      BY <1>0, <2>1, ConfigShape, StartupAssumption DEF CurShape
    <3>4. ASSUME ~(cur.n < Len(recipe.init)) PROVE node' # ""
      <4>1. PICK k \in 1 .. Len(recipe.init) : recipe.init[k] = "h264_ipsink_0"
        BY <1>0, <2>1, ConfigShape, RecipeShape, ZenonT(60) DEF CurShape, recipe
      <4>2. cur.n \in 1 .. Len(recipe.init) /\ Len(recipe.init) \in Nat
        BY <1>0, <2>1, ConfigShape, RecipeShape, Zenon DEF NodeInit, CurShape, recipe
      <4>3. k \in 1 .. cur.n - 1 \/ k = cur.n
        BY <3>4, <4>2
      <4> QED
        BY <2>1, <3>1, <3>3, <4>1, <4>3 DEF NodeInit
    <3>5. node' # "" => node' = F
      BY <2>1, <3>1 DEF NodeFirst, F
    <3>6. node' = "" => node = ""
      BY <3>1
    <3> QED
      BY <1>a, <2>1, <3>2, <3>4, <3>5, <3>6 DEF NodeFirst, F
  <2> QED
    BY <1>1, <2>1, <2>2
<1>5. CASE link_bins
  <2>1. cur' = cur \/ cur' = [cur EXCEPT !.n = cur.n + 1] \/ cur' = [cur EXCEPT !.step = "stash"]
    BY <1>5 DEF link_bins
  <2>2. /\ cur.step = "link" /\ Made' = Made /\ node' = node
        /\ cur \in [cam : Cams \cup {""}, step : {"none", "init", "link", "stash"}, n : Nat]
    BY <1>5 DEF link_bins, CurShape, Made
  <2> QED
    BY <1>a, <2>2 DEF NodeFirst, F
<1>6. CASE stash
  <2>1. cur.step = "stash" /\ node' = node
    BY <1>6 DEF stash
  <2> QED
    BY <1>a, <2>1 DEF NodeFirst, F
<1>7. CASE app_start \/ app_stop \/ unwind_app
  <2>1. cur' = cur /\ node' = node /\ DOMAIN pipes' = DOMAIN pipes
    BY <1>7 DEF app_start, app_stop, unwind_app
  <2>2. Made' # {} => Made # {}
    BY <2>1, SMTT(30) DEF Made
  <2> QED
    BY <1>a, <2>1, <2>2 DEF NodeFirst, F
<1> QED
  BY <1>2, <1>3, <1>4, <1>5, <1>6, <1>7, PipesLeftAlone

(* Who registers, accepts and answers requests. *)
LEMMA RequestsChange ==
    [Next]_vars =>
        \/ uris' = uris /\ req' = req
        \/ register_callbacks \/ register_jsonrpc \/ respond \/ rpc_lost
        \/ \E u \in {"pipe0", "pipe1", "rpc"} : request(u)
BY Zenon DEF Next, Main, vars, httpVars, mask_all_signals, options, load_config, start_sensors, fcgi_start,
         init_clock, set_nvpmodel, init_hw_trigger, next_camera, init_bin, link_bins, stash, app_start,
         register_callbacks, zmq_init, zmq_register_callbacks, zcm_init, register_jsonrpc, mask_def_signals,
         wait_for_signal, fcgi_stop, fcgi_join, app_stop, sensors_zmq_stop, zcm_stop, zcm_join, unwind_zcm,
         unwind_zmq, unwind_app, unwind_fcgi, unwind_sensors, request, respond, rpc_lost, zcm_run_thread, send_signal

(* Types. *)
LEMMA TypeKeeps == IInv /\ [Next]_vars => TypeOK'
<1> SUFFICES ASSUME TypeOK, CurInv, CurInv', HttpInv, [Next]_vars
             PROVE  TypeOK'
  BY CurKeeps DEF IInv
<1>0. cfg' = cfg /\ cfg \in Configs
  BY ConfigStays DEF TypeOK
<1>1. cur'.cam \in Cams \cup {""} /\ cur'.step \in {"none", "init", "link", "stash"} /\ cur'.n \in Nat
  BY DEF CurInv, CurShape
<1>2. {sensors', zmq', zcmInt', fault'} \subseteq BOOLEAN
  BY FlagsKeep DEF TypeOK
<1>3. /\ DOMAIN pipes' \subseteq PipeNames
      /\ \A p \in DOMAIN pipes' : pipes'[p] \in [cam : Cams, state : {"made", "playing", "destroyed", "lost"}]
  <2> DEFINE Pipe == [cam : Cams, state : {"made", "playing", "destroyed", "lost"}]
  <2>0. DOMAIN pipes \subseteq PipeNames /\ \A p \in DOMAIN pipes : pipes[p] \in Pipe
    BY DEF TypeOK
  <2>1. CASE pipes' = pipes
    BY <2>0, <2>1
  <2>2. CASE stash /\ pipes' # pipes
    <3> DEFINE pipe == cfg.cams[cur.cam].pipe
    <3>1. /\ pipes' = [p \in DOMAIN pipes \cup {pipe} |->
                       IF p = pipe THEN [cam |-> cur.cam, state |-> "made"] ELSE pipes[p]]
          /\ cur.step = "stash"
      BY <2>2 DEF stash
    <3>2. cur.cam \in Cams /\ pipe \in PipeNames
      BY <1>0, <3>1, ConfigShape DEF CurInv, CurShape
    <3>3. [cam |-> cur.cam, state |-> "made"] \in Pipe
      BY <3>2
    <3> HIDE DEF pipe, Pipe
    <3> QED
      BY <2>0, <3>1, <3>2, <3>3 DEF Pipe
  <2>3. CASE app_start
    BY <2>0, <2>3 DEF app_start
  <2>4. CASE (app_stop \/ unwind_app) /\ pipes' # pipes
    <3>1. PICK p \in DOMAIN pipes, end \in {"destroyed", "lost"} : pipes' = [pipes EXCEPT ![p].state = end]
      BY <2>4 DEF app_stop, unwind_app
    <3> QED
      BY <2>0, <3>1
  <2> QED
    BY <2>1, <2>2, <2>3, <2>4, PipesLeftAlone DEF Calm, next_camera, init_bin, link_bins
<1>4. node' \in Cams \cup {""}
  <2>1. node' = node \/ node' = cur.cam
    BY PipesLeftAlone DEF Calm, next_camera, init_bin, link_bins, stash, app_start, app_stop, unwind_app
  <2> QED
    BY <2>1 DEF TypeOK
<1>5. uris' \subseteq {"pipe0", "pipe1", "rpc"} /\ req' \in uris' \cup {"idle", "lost"}
  <2>1. CASE uris' = uris /\ req' = req
    BY <2>1 DEF TypeOK
  <2>2. CASE register_callbacks
    <3>1. uris = {} /\ req' = req /\ uris' \subseteq {"pipe0", "pipe1", "rpc"}
      BY <2>2 DEF register_callbacks, At, HttpInv
    <3> QED
      BY <3>1 DEF TypeOK
  <2>3. CASE register_jsonrpc \/ respond \/ rpc_lost
    BY <2>3 DEF TypeOK, register_jsonrpc, respond, rpc_lost
  <2>4. ASSUME NEW u \in {"pipe0", "pipe1", "rpc"}, request(u)
        PROVE  uris' = uris /\ req' \in uris
    BY <2>4, SMTT(30) DEF request
  <2> QED
    BY <2>1, <2>2, <2>3, <2>4, RequestsChange DEF TypeOK
<1>6. fcgi' \in {"off", "running", "failed", "stopping", "stopped"}
  BY ZenonT(60)
     DEF TypeOK, Next, Main, vars, httpVars,
         mask_all_signals, options, load_config, start_sensors, fcgi_start,
         init_clock, set_nvpmodel, init_hw_trigger, next_camera, init_bin, link_bins, stash, app_start,
         register_callbacks, zmq_init, zmq_register_callbacks, zcm_init, register_jsonrpc, mask_def_signals,
         wait_for_signal, fcgi_stop, fcgi_join, app_stop, sensors_zmq_stop, zcm_stop, zcm_join, unwind_zcm,
         unwind_zmq, unwind_app, unwind_fcgi, unwind_sensors, request, respond, rpc_lost, zcm_run_thread, send_signal
<1>7. zcm' \in {"off", "test", "enter", "run", "late", "done"}
  BY ZenonT(60)
     DEF TypeOK, Next, Main, vars, svcVars,
         mask_all_signals, options, load_config, start_sensors, fcgi_start,
         init_clock, set_nvpmodel, init_hw_trigger, next_camera, init_bin, link_bins, stash, app_start,
         register_callbacks, zmq_init, zmq_register_callbacks, zcm_init, register_jsonrpc, mask_def_signals,
         wait_for_signal, fcgi_stop, fcgi_join, app_stop, sensors_zmq_stop, zcm_stop, zcm_join, unwind_zcm,
         unwind_zmq, unwind_app, unwind_fcgi, unwind_sensors, request, respond, rpc_lost, zcm_run_thread, send_signal
<1>8. sig' \subseteq sent' /\ sent' \subseteq Signals
  BY ZenonT(60)
     DEF TypeOK, Next, Main, vars, sigVars,
         mask_all_signals, options, load_config, start_sensors, fcgi_start,
         init_clock, set_nvpmodel, init_hw_trigger, next_camera, init_bin, link_bins, stash, app_start,
         register_callbacks, zmq_init, zmq_register_callbacks, zcm_init, register_jsonrpc, mask_def_signals,
         wait_for_signal, fcgi_stop, fcgi_join, app_stop, sensors_zmq_stop, zcm_stop, zcm_join, unwind_zcm,
         unwind_zmq, unwind_app, unwind_fcgi, unwind_sensors, request, respond, rpc_lost, zcm_run_thread, send_signal
<1>9. ended' \in {"no", "exit 0", "exit -1", "terminated", "killed"}
  BY ZenonT(60)
     DEF TypeOK, Next, Main, vars, Terminate,
         mask_all_signals, options, load_config, start_sensors, fcgi_start,
         init_clock, set_nvpmodel, init_hw_trigger, next_camera, init_bin, link_bins, stash, app_start,
         register_callbacks, zmq_init, zmq_register_callbacks, zcm_init, register_jsonrpc, mask_def_signals,
         wait_for_signal, fcgi_stop, fcgi_join, app_stop, sensors_zmq_stop, zcm_stop, zcm_join, unwind_zcm,
         unwind_zmq, unwind_app, unwind_fcgi, unwind_sensors, request, respond, rpc_lost, zcm_run_thread, send_signal
<1> QED
  BY <1>0, <1>1, <1>2, <1>3, <1>4, <1>5, <1>6, <1>7, <1>8, <1>9 DEF TypeOK

(* Where main may go in a step that leaves the HTTP side alone. *)
HttpCalm ==
    /\ UNCHANGED <<uris, fcgi, req>>
    /\ \/ pc' = pc
       \/ pc \in Early \cup Building /\ pc' \in Early \cup Building \cup {"callbacks", "unwindZcm"}
       \/ pc \in {"zmq", "zmqCallbacks"} /\ pc' \in {"zmqCallbacks", "zcm", "unwindZcm"}
       \/ pc = "zcm" /\ pc' = "rpc"
       \/ pc \in {"unmask", "wait"} /\ pc' \in {"wait", "fcgiStop", "unwindZcm"}
       \/ pc \in Stopping /\ pc' \in Stopping
       \/ pc \in Unwinding /\ pc' \in Unwinding

(* Only nine steps touch it. *)
LEMMA HttpLeftAlone ==
    [Next]_vars =>
        \/ HttpCalm \/ fcgi_start \/ register_callbacks \/ register_jsonrpc
        \/ fcgi_stop \/ fcgi_join \/ unwind_fcgi \/ respond \/ rpc_lost
        \/ \E u \in {"pipe0", "pipe1", "rpc"} : request(u)
<1> USE DEF HttpCalm, Early, Building, Stopping, Unwinding, httpVars, At, ReturnMinusOne, Terminate
<1>1. mask_all_signals \/ options \/ load_config \/ start_sensors
          \/ init_clock \/ set_nvpmodel \/ init_hw_trigger => HttpCalm
  BY DEF mask_all_signals, options, load_config, start_sensors, init_clock, set_nvpmodel, init_hw_trigger
<1>2. init_bin \/ link_bins \/ stash \/ app_start => HttpCalm
  BY DEF init_bin, link_bins, stash, app_start
<1>3. next_camera => HttpCalm
  <2>1. next_camera => UNCHANGED <<uris, fcgi, req>>
    BY SMTT(30) DEF next_camera
  <2> QED
    BY <2>1, NextCameraOutcome
<1>4. zmq_init \/ zmq_register_callbacks \/ zcm_init \/ mask_def_signals \/ wait_for_signal => HttpCalm
  BY Zenon DEF zmq_init, zmq_register_callbacks, zcm_init, mask_def_signals, wait_for_signal
<1>5. app_stop \/ sensors_zmq_stop \/ zcm_stop \/ zcm_join => HttpCalm
  BY DEF app_stop, sensors_zmq_stop, zcm_stop, zcm_join
<1>6. unwind_zcm \/ unwind_zmq \/ unwind_app \/ unwind_sensors => HttpCalm
  BY DEF unwind_zcm, unwind_zmq, unwind_app, unwind_sensors
<1>7. zcm_run_thread \/ (\E s \in Signals : send_signal(s)) \/ UNCHANGED vars => HttpCalm
  BY DEF zcm_run_thread, send_signal, vars
<1> QED
  BY <1>1, <1>2, <1>3, <1>4, <1>5, <1>6, <1>7 DEF Next, Main

(* A name in m_pipelines stays there until the process ends. *)
LEMMA NamesStay == TypeOK /\ [Next]_vars => DOMAIN pipes \subseteq DOMAIN pipes'
<1>1. ASSUME TypeOK, stash PROVE DOMAIN pipes \subseteq DOMAIN pipes'
  BY <1>1 DEF stash
<1>2. ASSUME TypeOK, app_start \/ app_stop \/ unwind_app PROVE DOMAIN pipes \subseteq DOMAIN pipes'
  BY <1>2 DEF app_start, app_stop, unwind_app
<1> QED
  BY <1>1, <1>2, PipesLeftAlone DEF Calm, next_camera, init_bin, link_bins

(* The HTTP side. *)
LEMMA HttpKeeps == IInv /\ [Next]_vars => HttpInv'
<1> SUFFICES ASSUME TypeOK, HttpInv, [Next]_vars
             PROVE  HttpInv'
  BY DEF IInv
<1> USE DEF At, Early, Building, Stopping, Unwinding
<1>0. DOMAIN pipes \subseteq DOMAIN pipes'
  BY NamesStay
<1>1. CASE HttpCalm
  BY <1>0, <1>1 DEF HttpCalm, HttpInv
<1>2. CASE fcgi_start
  BY <1>0, <1>2 DEF fcgi_start, HttpInv
<1>3. CASE register_callbacks
  BY <1>0, <1>3 DEF register_callbacks, pipeVars, HttpInv
<1>4. CASE register_jsonrpc
  BY <1>0, <1>4 DEF register_jsonrpc, HttpInv
<1>5. CASE fcgi_stop \/ fcgi_join
  BY <1>0, <1>5 DEF fcgi_stop, fcgi_join, HttpInv, TypeOK
<1>6. CASE unwind_fcgi
  BY <1>0, <1>6 DEF unwind_fcgi, HttpInv
<1>7. CASE respond \/ rpc_lost
  BY <1>0, <1>7 DEF respond, rpc_lost, HttpInv, TypeOK
<1>8. ASSUME NEW u \in {"pipe0", "pipe1", "rpc"}, request(u) PROVE HttpInv'
  BY <1>0, <1>8, SMTT(30) DEF request, HttpInv
<1> QED
  BY <1>1, <1>2, <1>3, <1>4, <1>5, <1>6, <1>7, <1>8, HttpLeftAlone

(* The services. *)
LEMMA ServiceKeeps == IInv /\ [Next]_vars => ServiceInv'
<1> SUFFICES ASSUME TypeOK, ServiceInv, [Next]_vars
             PROVE  ServiceInv'
  BY DEF IInv
<1> USE DEF At, Running, Early, ServiceInv, ReturnMinusOne, Terminate, httpVars, svcVars
<1>1. CASE mask_all_signals
  BY <1>1 DEF mask_all_signals
<1>2. CASE options
  BY <1>2 DEF options
<1>3. CASE load_config
  BY <1>3 DEF load_config
<1>4. CASE start_sensors
  BY <1>4 DEF start_sensors
<1>5. CASE fcgi_start
  BY <1>5 DEF fcgi_start
<1>6. CASE init_clock
  BY <1>6 DEF init_clock
<1>7. CASE set_nvpmodel
  BY <1>7 DEF set_nvpmodel
<1>8. CASE init_hw_trigger
  BY <1>8, SMTT(30) DEF init_hw_trigger
<1>9. CASE init_bin \/ link_bins \/ stash \/ app_start
  BY <1>9, Zenon DEF init_bin, link_bins, stash, app_start
<1>10. CASE next_camera
  <2>1. UNCHANGED <<uris, fcgi, req, sensors, zmq, zcm, zcmInt>>
    BY <1>10, SMTT(30) DEF next_camera
  <2> QED
    BY <1>10, <2>1, NextCameraOutcome
<1>11. CASE register_callbacks \/ zmq_init \/ zmq_register_callbacks \/ zcm_init
                \/ register_jsonrpc \/ mask_def_signals \/ wait_for_signal
  BY <1>11, Zenon DEF register_callbacks, zmq_init, zmq_register_callbacks, zcm_init,
               register_jsonrpc, mask_def_signals, wait_for_signal
<1>12. CASE fcgi_stop \/ fcgi_join \/ app_stop
  BY <1>12 DEF fcgi_stop, fcgi_join, app_stop
<1>13. CASE sensors_zmq_stop
  BY <1>13 DEF sensors_zmq_stop
<1>14. CASE zcm_stop
  BY <1>14 DEF zcm_stop
<1>15. CASE zcm_join
  BY <1>15 DEF zcm_join
<1>16. CASE unwind_zcm \/ unwind_zmq \/ unwind_app \/ unwind_fcgi \/ unwind_sensors
  BY <1>16 DEF unwind_zcm, unwind_zmq, unwind_app, unwind_fcgi, unwind_sensors
<1>17. CASE respond \/ rpc_lost
  <2>1. /\ UNCHANGED <<pc, fcgi, sensors, zmq, zcm>> /\ ended = "no"
        /\ ended' = ended \/ ended' = "terminated"
    BY <1>17 DEF respond, rpc_lost
  <2> QED
    BY <2>1
<1>18. CASE zcm_run_thread
  BY <1>18 DEF zcm_run_thread
<1>19. ASSUME NEW u \in {"pipe0", "pipe1", "rpc"}, request(u) PROVE ServiceInv'
  BY <1>19 DEF request
<1>20. ASSUME NEW s \in Signals, send_signal(s) PROVE ServiceInv'
  BY <1>20 DEF send_signal
<1>21. CASE UNCHANGED vars
  BY <1>21 DEF vars
<1> QED
  BY <1>1, <1>2, <1>3, <1>4, <1>5, <1>6, <1>7, <1>8, <1>9, <1>10, <1>11, <1>12, <1>13,
     <1>14, <1>15, <1>16, <1>17, <1>18, <1>19, <1>20, <1>21, ZenonT(60) DEF Next, Main

(* The ten steps that may terminate the process. *)
LEMMA Terminators ==
    [Next]_vars /\ ended' = "terminated" /\ ended # "terminated" =>
        \/ next_camera \/ init_bin \/ link_bins \/ stash \/ zmq_register_callbacks
        \/ unwind_app \/ unwind_sensors \/ respond \/ load_config \/ zmq_init
BY Zenon DEF Next, Main, vars, mask_all_signals, options, load_config, start_sensors, fcgi_start,
       init_clock, set_nvpmodel, init_hw_trigger, next_camera, init_bin, link_bins, stash, app_start,
       register_callbacks, zmq_init, zmq_register_callbacks, zcm_init, register_jsonrpc, mask_def_signals,
       wait_for_signal, fcgi_stop, fcgi_join, app_stop, sensors_zmq_stop, zcm_stop, zcm_join, unwind_zcm,
       unwind_zmq, unwind_app, unwind_fcgi, unwind_sensors, request, respond, rpc_lost, zcm_run_thread, send_signal

(* main starts to unwind when a call has failed, and asks for frames only   *)
(* if the 0MQ service is configured.                                        *)
LEMMA UnwindingStarts ==
    [Next]_vars =>
        /\ fault' = fault \/ fault' = TRUE
        /\ pc' \in Unwinding => pc \in Unwinding \/ fault' = TRUE
        /\ pc' = "zmqCallbacks" => pc = "zmqCallbacks" \/ cfg.zmq
<1>1. [Next]_vars => fault' = fault \/ fault' = TRUE
  BY ZenonT(60) DEF Next, Main, vars, ReturnMinusOne, mask_all_signals, options, load_config, start_sensors, fcgi_start,
         init_clock, set_nvpmodel, init_hw_trigger, next_camera, init_bin, link_bins, stash, app_start,
         register_callbacks, zmq_init, zmq_register_callbacks, zcm_init, register_jsonrpc, mask_def_signals,
         wait_for_signal, fcgi_stop, fcgi_join, app_stop, sensors_zmq_stop, zcm_stop, zcm_join, unwind_zcm,
         unwind_zmq, unwind_app, unwind_fcgi, unwind_sensors, request, respond, rpc_lost, zcm_run_thread, send_signal
<1>2. [Next]_vars /\ pc' = "zmqCallbacks" => pc = "zmqCallbacks" \/ cfg.zmq
  BY PipesLeftAlone, ZenonT(60)
     DEF Next, Main, vars, ReturnMinusOne, Terminate,
         mask_all_signals, options, load_config, start_sensors, fcgi_start,
         init_clock, set_nvpmodel, init_hw_trigger, next_camera, init_bin, link_bins, stash, app_start,
         register_callbacks, zmq_init, zmq_register_callbacks, zcm_init, register_jsonrpc, mask_def_signals,
         wait_for_signal, fcgi_stop, fcgi_join, app_stop, sensors_zmq_stop, zcm_stop, zcm_join, unwind_zcm,
         unwind_zmq, unwind_app, unwind_fcgi, unwind_sensors, request, respond, rpc_lost, zcm_run_thread, send_signal
<1>3. [Next]_vars /\ pc' \in Unwinding => pc \in Unwinding \/ fault' = TRUE
  BY Zenon
     DEF Unwinding, At, Next, Main, vars, ReturnMinusOne, Terminate,
         mask_all_signals, options, load_config, start_sensors, fcgi_start,
         init_clock, set_nvpmodel, init_hw_trigger, next_camera, init_bin, link_bins, stash, app_start,
         register_callbacks, zmq_init, zmq_register_callbacks, zcm_init, register_jsonrpc, mask_def_signals,
         wait_for_signal, fcgi_stop, fcgi_join, app_stop, sensors_zmq_stop, zcm_stop, zcm_join, unwind_zcm,
         unwind_zmq, unwind_app, unwind_fcgi, unwind_sensors, request, respond, rpc_lost, zcm_run_thread, send_signal
<1> QED
  BY <1>1, <1>2, <1>3, SMTT(30)

(* The process is terminated for a cause. *)
LEMMA CauseKeeps == IInv /\ [Next]_vars => CauseInv'
<1> SUFFICES ASSUME TypeOK, CurShape, CurLinks, PipesShape, PipesPhase, HttpInv, CauseInv, [Next]_vars
             PROVE  CauseInv'
  BY DEF IInv, CurInv, PipesInv
<1> USE DEF At
<1>0. cfg' = cfg /\ cfg \in Configs
  BY ConfigStays DEF TypeOK
<1>a. Supported(cfg)' <=> Supported(cfg)
  BY <1>0 DEF Supported
<1>1. /\ pc' \in Unwinding => fault'
      /\ pc' = "zmqCallbacks" => cfg.zmq
  BY UnwindingStarts DEF CauseInv
<1>2. ASSUME ended' = "terminated", ended # "terminated"
      PROVE  fault' \/ ~Supported(cfg)
  <2>1. CASE next_camera
    <3>1. Todo # {} /\ cfg.cams[NextCam].type \notin KnownTypes
      BY <1>2, <2>1, NextCameraOutcome
    <3>2. NextCam \in DOMAIN cfg.cams
      BY <3>1, NextCamIsFirst
    <3> QED
      BY <3>1, <3>2 DEF Supported
  <2>2. CASE init_bin
    BY <1>2, <2>2 DEF init_bin
  <2>3. CASE link_bins
    <3> DEFINE type == cfg.cams[cur.cam].type
    <3>1. cur.step = "link" /\ ~LinkOutcome[type][cfg.mode][cur.n]
      BY <1>2, <2>3 DEF link_bins
    <3>2. cur.cam \in DOMAIN cfg.cams /\ type \in KnownTypes /\ cfg.mode \in Modes
      BY <1>0, <3>1, ConfigShape DEF CurShape
    <3>3. cur.n \in 1 .. Len(make_pipeline[type][cfg.mode].links)
      BY <3>1, ZenonT(60) DEF CurLinks, links
    <3>4. type = "brio" /\ cfg.mode # "nv"
      <4> HIDE DEF type
      <4> QED
        BY <3>1, <3>2, <3>3, RecipesLinked
    <3> QED
      BY <3>2, <3>4 DEF Supported
  <2>4. CASE stash
    <3>1. cur.step = "stash" /\ cfg.cams[cur.cam].pipe \in DOMAIN pipes
      BY <1>2, <2>4, SMTT(30) DEF stash
    <3> DEFINE other == pipes[cfg.cams[cur.cam].pipe].cam
    <3>2. other \in DOMAIN cfg.cams /\ cfg.cams[other].pipe = cfg.cams[cur.cam].pipe /\ other \in Made
      BY <3>1 DEF PipesShape, Made
    <3>3. cur.cam \in DOMAIN cfg.cams \ Made
      BY <3>1 DEF CurShape
    <3> HIDE DEF other
    <3> QED
      BY <3>2, <3>3 DEF Supported
  <2>5. CASE zmq_register_callbacks
    <3>1. /\ pc = "zmqCallbacks"
          /\ ~\A cam \in FrameCams : make_pipeline[cfg.cams[cam].type][cfg.mode].bins["cam"].frameCallback
      BY <1>2, <2>5, ZenonT(60) DEF zmq_register_callbacks
    <3>2. PICK cam \in FrameCams : ~make_pipeline[cfg.cams[cam].type][cfg.mode].bins["cam"].frameCallback
      BY <3>1, Zenon
    <3>3. PICK q \in DOMAIN pipes : pipes[q].cam = cam
      BY Zenon DEF FrameCams
    <3>4. cam \in DOMAIN cfg.cams /\ cfg.cams[cam].type \in KnownTypes /\ cfg.mode \in Modes /\ cfg.zmq
      BY <1>0, <3>1, <3>3, ConfigShape, ZenonT(60) DEF PipesShape, CauseInv
    <3>5. cfg.cams[cam].type \notin {"imx219", "alvium"}
      BY <3>2, <3>4, RecipeShape, Zenon
    <3> QED
      BY <3>4, <3>5, SMTT(30) DEF Supported
  <2>6. CASE unwind_app \/ unwind_sensors
    <3>1. pc \in Unwinding /\ fault' = fault
      BY <2>6 DEF unwind_app, unwind_sensors, Unwinding
    <3> QED
      BY <3>1 DEF CauseInv
  <2>7. CASE respond
    <3>1. req = "rpc" /\ "pipe0" \notin DOMAIN pipes /\ fault' = fault
      BY <1>2, <2>7 DEF respond
    <3>2. pc \in {"unmask", "wait", "fcgiStop", "fcgiJoin"} \cup Stopping \cup Unwinding
      BY <3>1 DEF TypeOK, HttpInv
    <3>3. CASE pc \in Unwinding
      BY <3>1, <3>3 DEF CauseInv
    <3>4. CASE pc \notin Unwinding
      <4>1. DOMAIN cfg.cams \subseteq Made
        BY <3>2, <3>4 DEF PipesPhase, Serving
      <4>2. ASSUME NEW cam \in DOMAIN cfg.cams PROVE cfg.cams[cam].pipe \in DOMAIN pipes
        BY <4>1 DEF Made, PipesShape
      <4> QED
        BY <3>1, <4>2 DEF Supported
    <3> QED
      BY <3>3, <3>4
  <2>8. CASE load_config \/ zmq_init
    BY <1>2, <2>8 DEF load_config, zmq_init, ReturnMinusOne, Terminate
  <2> QED
    BY <1>2, <2>1, <2>2, <2>3, <2>4, <2>5, <2>6, <2>7, <2>8, Terminators, SMTT(30)
<1>3. ASSUME ended' = "terminated", ended = "terminated"
      PROVE  fault' \/ ~Supported(cfg)
  BY <1>3, UnwindingStarts DEF CauseInv, CrashHasCause
<1> QED
  BY <1>0, <1>a, <1>1, <1>2, <1>3 DEF CauseInv, CrashHasCause

(* Nothing is made, served or ended at the beginning. *)
LEMMA InitIInv == Init => IInv
<1> SUFFICES ASSUME Init
             PROVE  IInv
  OBVIOUS
<1>0. pipes = <<>>
  BY DEF Init
<1>1. DOMAIN pipes = {} /\ Made = {}
  BY <1>0 DEF Made
<1>2. NoPipe = [cam |-> "", step |-> "none", n |-> 0]
  BY DEF NoPipe
<1>3. TypeOK
  BY <1>1, <1>2 DEF Init, TypeOK
<1>4. CurInv
  BY <1>2 DEF Init, CurInv, CurShape, CurLinks
<1>5. PipesInv
  BY <1>1 DEF Init, PipesInv, PipesShape, PipesPhase, Early, Serving, Stopping, Unwinding
<1>6. NodeInv
  BY <1>1, <1>2 DEF Init, NodeInv, NodeFirst, NodeInit
<1>7. HttpInv /\ ServiceInv /\ CauseInv
  BY DEF Init, HttpInv, ServiceInv, CauseInv, CrashHasCause, Early, Stopping, Unwinding
<1> QED
  BY <1>3, <1>4, <1>5, <1>6, <1>7 DEF IInv

(* The invariant holds at all times. *)
LEMMA AlwaysIInv == Spec => []IInv
<1>1. IInv /\ [Next]_vars => IInv'
  BY TypeKeeps, CurKeeps, PipesShapeKeeps, PipesPhaseKeeps, NodeFirstKeeps, NodeInitKeeps,
     HttpKeeps, ServiceKeeps, CauseKeeps DEF IInv, PipesInv, NodeInv
<1> QED
  BY InitIInv, <1>1, PTL DEF Spec

-----------------------------------------------------------------------------
(* What follows *)

(* The variables keep their types: no step of main, of a worker or of a    *)
(* sender leaves the states the code can be in.                            *)
THEOREM StartupTypes == Spec => []TypeOK
<1>1. IInv => TypeOK
  BY SMTT(30) DEF IInv
<1> QED
  BY AlwaysIInv, <1>1, PTL

(* For every configuration: when main waits for signals, every camera has  *)
(* its own playing pipeline, whose thumbnail, recording and RTP ends get   *)
(* their medium from the camera, and which has stored what the handlers    *)
(* look up.                                                                *)
THEOREM ServingCameras == Spec => []ServingIsComplete
<1>1. ASSUME IInv, Running, pc = "wait"
      PROVE  Made = DOMAIN cfg.cams
  BY <1>1, SMTT(30) DEF IInv, PipesInv, PipesShape, PipesPhase, Serving, Made
<1>2. ASSUME IInv, Running, pc = "wait", NEW p \in DOMAIN pipes
      PROVE  LET c == cfg.cams[pipes[p].cam]
             IN  /\ c.pipe = p /\ pipes[p].state = "playing"
                 /\ Fed[c.type][cfg.mode]
                 /\ {"cam", "thumb_0", "udp_0"} \subseteq make_pipeline[c.type][cfg.mode].stored
  <2> DEFINE c == cfg.cams[pipes[p].cam]
  <2>1. c.pipe = p /\ pipes[p].state = "playing" /\ c.type \in KnownTypes
    BY <1>2 DEF IInv, PipesInv, PipesShape, PipesPhase, Serving
  <2>2. cfg.mode \in Modes
    BY <1>2, ConfigShape DEF IInv, TypeOK
  <2>3. \A n \in 1 .. Len(make_pipeline[c.type][cfg.mode].links) : LinkOutcome[c.type][cfg.mode][n]
    BY <1>2, ZenonT(60) DEF IInv, PipesInv, PipesShape, Linked, links
  <2>4. Fed[c.type][cfg.mode] /\ {"cam", "thumb_0", "udp_0"} \subseteq make_pipeline[c.type][cfg.mode].stored
    <3> HIDE DEF c
    <3> QED
      BY <2>1, <2>2, <2>3, RecipesLinked, RecipeShape, SMTT(30)
  <2> QED
    BY <2>1, <2>4, ZenonT(60)
<1>3. IInv => ServingIsComplete
  BY <1>1, <1>2, ZenonT(60) DEF ServingIsComplete
<1> QED
  BY AlwaysIInv, <1>3, PTL

(* A worker in a jpeg handler finds the pipeline its callback was          *)
(* registered for, playing, for as long as it is in there.                 *)
THEOREM HandlersAreSafe == Spec => []HandlerTargetAlive
<1>1. IInv => HandlerTargetAlive
  BY DEF IInv, TypeOK, HttpInv, PipesInv, PipesPhase, HandlerTargetAlive, Early, Building, Serving,
         Stopping, Unwinding
<1> QED
  BY AlwaysIInv, <1>1, PTL

(* main returns 0 only with its threads joined and its pipelines destroyed. *)
THEOREM ExitIsOrderly == Spec => []OrderlyExit
<1>1. IInv => OrderlyExit
  BY DEF IInv, TypeOK, HttpInv, ServiceInv, PipesInv, PipesPhase, OrderlyExit, Early, Stopping
<1> QED
  BY AlwaysIInv, <1>1, PTL

(* For every configuration: the process is terminated only after a call    *)
(* of the environment failed, or with a configuration it does not support. *)
THEOREM CrashesAreExplained == Spec => []CrashHasCause
<1>1. IInv => CrashHasCause
  BY DEF IInv, CauseInv
<1> QED
  BY AlwaysIInv, <1>1, PTL

(* Every recording is of the first configured camera: a later              *)
(* interpipesink of the same name does not take the node over.             *)
THEOREM FirstCameraIsRecorded == Spec => []RecordedCamera
<1>1. ASSUME IInv, Running, pc = "wait", DOMAIN pipes # {}
      PROVE  node = FirstOf(Made)
  <2>1. Made = DOMAIN cfg.cams /\ Made # {}
    BY <1>1 DEF IInv, PipesInv, PipesShape, PipesPhase, Serving, Made
  <2> QED
    BY <1>1, <2>1 DEF IInv, NodeInv, NodeFirst
<1>2. IInv => RecordedCamera
  BY <1>1 DEF RecordedCamera, FirstOf
<1> QED
  BY AlwaysIInv, <1>2, PTL
=============================================================================
