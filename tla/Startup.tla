------------------------------ MODULE Startup ------------------------------
(***************************************************************************)
(* The life of the opaleye process: main() from the signal mask to the     *)
(* return code, with Opaleye_app::init building one pipeline per camera,   *)
(* Opaleye_app::start and stop, the registration of the HTTP callbacks,    *)
(* the 0MQ and ZCM services, the signals, and the destructors that an      *)
(* early `return -1` runs.                                                 *)
(*                                                                         *)
(* Beside main run a FastCGI worker (a request may be in a handler at any  *)
(* step of main), the ZCM run thread, and whoever sends signals.  The      *)
(* sensor thread, the 0MQ publisher and the ZCM heartbeat are thread_base  *)
(* objects: interrupt() followed by join() ends them (module ThreadBase),  *)
(* which is one step here.  How a pipeline stops, and how a stop can wait  *)
(* for ever, is the subject of module VideoCapture: here a stop either     *)
(* returns or is lost.                                                     *)
(***************************************************************************)
EXTENDS PipelineBuild

CONSTANTS CamOrder,   \* the camera names in the order of std::map
          PipeNames,  \* the pipeline names a configuration may use
          Configs     \* the configurations main may be given

Cams  == {CamOrder[i] : i \in DOMAIN CamOrder}
Types == KnownTypes \cup {"other"}

Config == [mode : Modes,
           cams : UNION {[S -> [type : Types, pipe : PipeNames]] : S \in SUBSET Cams},
           sensors : BOOLEAN, zmq : BOOLEAN, zcm : BOOLEAN]

ASSUME StartupAssumption ==
    /\ CamOrder \in Seq(STRING) /\ "" \notin Cams
    /\ Configs \subseteq Config

VARIABLES
    cfg,     \* app_config as deserialised
    pc,      \* where main is
    cur,     \* the pipeline being made: [cam, step, n]
    pipes,   \* Opaleye_app::m_pipelines: pipeline name -> [cam, state]
    node,    \* the pipeline owning the interpipe node "h264_ipsink_0" ("": none)
    uris,    \* the cameras whose jpeg callback is registered, and "rpc"
    fcgi,    \* the FastCGI server
    req,     \* what its worker is handling ("idle", a camera, "rpc"); "lost": a call that never returns
    sensors, \* the sensor thread: is it running
    zmq,     \* the 0MQ service: is it running
    zcm,     \* the ZCM run thread
    zcmInt,  \* interrupt() was called on the ZCM run thread
    sig,     \* pending signals
    sent,    \* the signals sent so far; each is sent at most once
    fault,   \* the environment failed a call main depends on
    ended    \* "no", "exit 0", "exit -1", "terminated", "killed"

vars == <<cfg, pc, cur, pipes, node, uris, fcgi, req, sensors, zmq, zcm, zcmInt, sig, sent, fault, ended>>
pipeVars == <<cur, pipes, node>>
sigVars  == <<sig, sent>>
svcVars  == <<sensors, zmq, zcm, zcmInt>>
httpVars == <<uris, fcgi, req>>

Signals == {"INT", "HUP", "TERM"}
NoPipe  == [cam |-> "", step |-> "none", n |-> 0]

jpegCam == [p \in {"pipe0", "pipe1"} |-> IF p = "pipe0" THEN "cam0" ELSE "cam1"]

Init ==
    /\ cfg \in Configs
    /\ pc = "mask" /\ cur = NoPipe /\ pipes = <<>> /\ node = ""
    /\ uris = {} /\ fcgi = "off" /\ req = "idle"
    /\ sensors = FALSE /\ zmq = FALSE /\ zcm = "off" /\ zcmInt = FALSE
    /\ sig = {} /\ sent = {} /\ fault = FALSE /\ ended = "no"

Running == ended = "no"

At(p) == Running /\ pc = p

(* main leaves with `return -1`: the destructors of its locals follow. *)
ReturnMinusOne == pc' = "unwindZcm" /\ fault' = TRUE

Terminate == ended' = "terminated" /\ UNCHANGED pc

-----------------------------------------------------------------------------
(* Before the application: signals masked, options, configuration, GStreamer. *)

mask_all_signals ==
    /\ At("mask")
    /\ \/ pc' = "options" /\ UNCHANGED fault
       \/ ReturnMinusOne
    /\ UNCHANGED <<cfg, pipeVars, httpVars, svcVars, sigVars, ended>>

(* --help ends main with 0; a bad option, log level or log path with -1. *)
options ==
    /\ At("options")
    /\ \/ pc' = "config" /\ UNCHANGED <<fault, ended>>
       \/ ReturnMinusOne /\ UNCHANGED ended
       \/ ended' = "exit 0" /\ UNCHANGED <<pc, fault>>
    /\ UNCHANGED <<cfg, pipeVars, httpVars, svcVars, sigVars>>

(* The configuration and the log file: a configuration that cannot be read  *)
(* ends main, a log file that cannot be opened throws out of it.            *)
load_config ==
    /\ At("config")
    /\ \/ pc' = "sensors" /\ UNCHANGED <<fault, ended>>
       \/ ReturnMinusOne /\ UNCHANGED ended
       \/ fault' = TRUE /\ Terminate
    /\ UNCHANGED <<cfg, pipeVars, httpVars, svcVars, sigVars>>

start_sensors ==
    /\ At("sensors")
    /\ \/ ~cfg.sensors /\ pc' = "fcgi" /\ UNCHANGED <<sensors, fault>>
       \/ cfg.sensors /\ sensors' = TRUE /\ pc' = "fcgi" /\ UNCHANGED fault
       \/ cfg.sensors /\ ReturnMinusOne /\ UNCHANGED sensors
    /\ UNCHANGED <<cfg, pipeVars, httpVars, zmq, zcm, zcmInt, sigVars, ended>>

(* fcgi_svr.start: main does not look at its result.  The socket is its one *)
(* failure: http_fcgi_work_thread::init, which follows for each worker,     *)
(* always returns true.                                                     *)
fcgi_start ==
    /\ At("fcgi")
    /\ \/ fcgi' = "running" /\ UNCHANGED fault
       \/ fcgi' = "failed" /\ fault' = TRUE
    /\ pc' = "clock"
    /\ UNCHANGED <<cfg, pipeVars, uris, req, svcVars, sigVars, ended>>

-----------------------------------------------------------------------------
(* Opaleye_app::init *)

(* The master clock: the system's, or PTP with 60 waits for a sync, of      *)
(* which one has to succeed.                                                *)
init_clock ==
    /\ At("clock")
    /\ \/ pc' = "nvpmodel" /\ UNCHANGED fault
       \/ ReturnMinusOne
    /\ UNCHANGED <<cfg, pipeVars, httpVars, svcVars, sigVars, ended>>

(* The nvpmodel tool: system() fails, the tool is killed or exits non-zero. *)
set_nvpmodel ==
    /\ At("nvpmodel")
    /\ \/ pc' = "trigger" /\ UNCHANGED fault
       \/ ReturnMinusOne
    /\ UNCHANGED <<cfg, pipeVars, httpVars, svcVars, sigVars, ended>>

(* The hardware trigger: not asked for, set up (module GpioControl), or one *)
(* of its five steps failed.                                                *)
init_hw_trigger ==
    /\ At("trigger")
    /\ \/ pc' = "camera" /\ UNCHANGED fault
       \/ ReturnMinusOne
    /\ UNCHANGED <<cfg, pipeVars, httpVars, svcVars, sigVars, ended>>

Made == {pipes[p].cam : p \in DOMAIN pipes}
Todo == {i \in DOMAIN CamOrder : CamOrder[i] \in DOMAIN cfg.cams /\ CamOrder[i] \notin Made}

recipe == make_pipeline[cfg.cams[cur.cam].type][cfg.mode]

(* The next camera of camera_configs: Gstreamer_pipeline::init starts its  *)
(* glib thread.  An unknown type makes make_pipeline return false, and     *)
(* Opaleye_app::init drops the last reference of a pipeline whose thread   *)
(* is joinable.                                                            *)
next_camera ==
    /\ At("camera") /\ cur = NoPipe
    /\ IF Todo = {}
       THEN pc' = "appStart" /\ UNCHANGED <<cur, ended>>
       ELSE LET cam == CamOrder[CHOOSE i \in Todo : \A j \in Todo : i <= j]
            IN  IF cfg.cams[cam].type \in KnownTypes
                THEN cur' = [cam |-> cam, step |-> "init", n |-> 1] /\ UNCHANGED <<pc, ended>>
                ELSE Terminate /\ UNCHANGED cur
    /\ UNCHANGED <<cfg, pipes, node, httpVars, svcVars, sigVars, fault>>

(* Variant: a later interpipesink takes the name over. *)
init_bin_takeover ==
    /\ At("camera") /\ cur.step = "init"
    /\ cur' = IF cur.n < Len(recipe.init)
              THEN [cur EXCEPT !.n = cur.n + 1]
              ELSE [cur EXCEPT !.step = "link", !.n = 1]
    /\ node' = IF recipe.init[cur.n] = "h264_ipsink_0" THEN cur.cam ELSE node
    /\ UNCHANGED <<cfg, pc, pipes, httpVars, svcVars, sigVars, fault, ended>>

(* The next init() of the recipe.  A bin whose init returns false ends      *)
(* make_*_pipeline, and with it the process as above.  Creating the         *)
(* interpipesink registers the node, unless the name is taken already.      *)
init_bin ==
    /\ At("camera") /\ cur.step = "init"
    /\ LET bin == recipe.init[cur.n]
       IN  \/ /\ cur' = IF cur.n < Len(recipe.init)
                        THEN [cur EXCEPT !.n = cur.n + 1]
                        ELSE [cur EXCEPT !.step = "link", !.n = 1]
              /\ node' = IF bin = "h264_ipsink_0" /\ node = "" THEN cur.cam ELSE node
              /\ UNCHANGED <<pc, fault, ended>>
           \/ /\ recipe.bins[bin].fallible
              /\ fault' = TRUE /\ Terminate
              /\ UNCHANGED <<cur, node>>
    /\ UNCHANGED <<cfg, pipes, httpVars, svcVars, sigVars>>

(* The next link_back() of the recipe: the exception of a refused link     *)
(* leaves main (only V4L2_alvium_pipe catches it, and its links are        *)
(* accepted).                                                              *)
link_bins ==
    /\ At("camera") /\ cur.step = "link"
    /\ IF LinkOutcome[cfg.cams[cur.cam].type][cfg.mode][cur.n]
       THEN /\ cur' = IF cur.n < Len(recipe.links)
                      THEN [cur EXCEPT !.n = cur.n + 1]
                      ELSE [cur EXCEPT !.step = "stash"]
            /\ UNCHANGED <<pc, ended>>
       ELSE Terminate /\ UNCHANGED cur
    /\ UNCHANGED <<cfg, pipes, node, httpVars, svcVars, sigVars, fault>>

(* m_pipelines.emplace: a name already there keeps its pipeline, and the    *)
(* new one is dropped with its thread joinable.                             *)
stash ==
    /\ At("camera") /\ cur.step = "stash"
    /\ LET pipe == cfg.cams[cur.cam].pipe
       IN  IF pipe \in DOMAIN pipes
           THEN Terminate /\ UNCHANGED <<pipes, cur>>
           ELSE /\ pipes' = [p \in DOMAIN pipes \cup {pipe} |->
                               IF p = pipe THEN [cam |-> cur.cam, state |-> "made"] ELSE pipes[p]]
                /\ cur' = NoPipe
                /\ UNCHANGED <<pc, ended>>
    /\ UNCHANGED <<cfg, node, httpVars, svcVars, sigVars, fault>>

app_start ==
    /\ At("appStart")
    /\ pipes' = [p \in DOMAIN pipes |-> [pipes[p] EXCEPT !.state = "playing"]]
    /\ pc' = "callbacks"
    /\ UNCHANGED <<cfg, cur, node, httpVars, svcVars, sigVars, fault, ended>>

-----------------------------------------------------------------------------
(* Services *)

(* Variant: the callbacks of cam1 are registered when pipe0 exists. *)
register_wrong ==
    /\ At("callbacks")
    /\ uris' = IF "pipe0" \in DOMAIN pipes THEN {"pipe0", "pipe1"} ELSE {}
    /\ pc' = "zmq"
    /\ UNCHANGED <<cfg, pipeVars, fcgi, req, svcVars, sigVars, fault, ended>>

(* The jpeg callbacks of pipe0 and pipe1, bound to the bare pointer of thumb_0. *)
register_callbacks ==
    /\ At("callbacks")
    /\ uris' = DOMAIN pipes \cap {"pipe0", "pipe1"}
    /\ pc' = "zmq"
    /\ UNCHANGED <<cfg, pipeVars, fcgi, req, svcVars, sigVars, fault, ended>>

(* zeromq_api_svr::init: a failed bind ends main; the context, the socket   *)
(* and its options are made outside the try block and throw out of main.    *)
zmq_init ==
    /\ At("zmq")
    /\ \/ ~cfg.zmq /\ pc' = "zcm" /\ UNCHANGED <<zmq, fault, ended>>
       \/ cfg.zmq /\ zmq' = TRUE /\ pc' = "zmqCallbacks" /\ UNCHANGED <<fault, ended>>
       \/ cfg.zmq /\ ReturnMinusOne /\ UNCHANGED <<zmq, ended>>
       \/ cfg.zmq /\ fault' = TRUE /\ Terminate /\ UNCHANGED zmq
    /\ UNCHANGED <<cfg, pipeVars, httpVars, sensors, zcm, zcmInt, sigVars>>

(* The cameras main asks for frames: cam0 of pipe0 and cam1 of pipe1.  The *)
(* base class's set_framebuffer_callback throws.                           *)
FrameCams == {jpegCam[p] : p \in {q \in DOMAIN pipes \cap DOMAIN jpegCam : pipes[q].cam = jpegCam[q]}}

zmq_register_callbacks ==
    /\ At("zmqCallbacks")
    /\ IF \A cam \in FrameCams : make_pipeline[cfg.cams[cam].type][cfg.mode].bins["cam"].frameCallback
       THEN pc' = "zcm" /\ UNCHANGED ended
       ELSE Terminate
    /\ UNCHANGED <<cfg, pipeVars, httpVars, svcVars, sigVars, fault>>

(* zcm_api_svr::init; a failure is only logged. *)
zcm_init ==
    /\ At("zcm")
    /\ \/ cfg.zcm /\ zcm' = "test" /\ UNCHANGED fault
       \/ cfg.zcm /\ fault' = TRUE /\ UNCHANGED zcm
       \/ ~cfg.zcm /\ UNCHANGED <<zcm, fault>>
    /\ pc' = "rpc"
    /\ UNCHANGED <<cfg, pipeVars, httpVars, sensors, zmq, zcmInt, sigVars, ended>>

register_jsonrpc ==
    /\ At("rpc")
    /\ uris' = uris \cup {"rpc"}
    /\ pc' = "unmask"
    /\ UNCHANGED <<cfg, pipeVars, fcgi, req, svcVars, sigVars, fault, ended>>

(* mask_def_signals keeps INT and HUP blocked for sigwaitinfo and unblocks TERM. *)
mask_def_signals ==
    /\ At("unmask")
    /\ \/ /\ pc' = "wait"
          /\ ended' = IF "TERM" \in sig THEN "killed" ELSE "no"
          /\ UNCHANGED fault
       \/ ReturnMinusOne /\ UNCHANGED ended
    /\ UNCHANGED <<cfg, pipeVars, httpVars, svcVars, sigVars>>

(* Variant: the loop goes on after SIGINT. *)
wait_again ==
    /\ At("wait") /\ sig # {}
    /\ sig' = {}
    /\ UNCHANGED <<cfg, pc, pipeVars, httpVars, svcVars, sent, fault, ended>>

(* wait_for_signal takes the pending signal with the lowest number, SIGHUP *)
(* before SIGINT; has_sigint() ends main's loop.                           *)
wait_for_signal ==
    /\ At("wait") /\ sig # {}
    /\ LET s == IF "HUP" \in sig THEN "HUP" ELSE "INT"
       IN  /\ sig' = sig \ {s}
           /\ pc' = IF s = "INT" THEN "fcgiStop" ELSE "wait"
    /\ UNCHANGED <<cfg, pipeVars, httpVars, svcVars, sent, fault, ended>>

-----------------------------------------------------------------------------
(* The orderly shutdown *)

(* http_fcgi_svr::stop interrupts the workers and closes the socket ...     *)
fcgi_stop ==
    /\ At("fcgiStop")
    /\ fcgi' = IF fcgi = "running" THEN "stopping" ELSE fcgi
    /\ pc' = "fcgiJoin"
    /\ UNCHANGED <<cfg, pipeVars, uris, req, svcVars, sigVars, fault, ended>>

(* ... and joins them: a handler that is running is finished first. *)
fcgi_join ==
    /\ At("fcgiJoin") /\ req = "idle"
    /\ fcgi' = IF fcgi = "stopping" THEN "stopped" ELSE fcgi
    /\ pc' = "appStop"
    /\ UNCHANGED <<cfg, pipeVars, uris, req, svcVars, sigVars, fault, ended>>

(* Opaleye_app::stop stops each pipeline, joins its thread and resets it.   *)
(* A quit() that comes before the pipeline's thread, or that of a capture   *)
(* left running on it, has entered run() is lost, and the join never        *)
(* returns.                                                                 *)
app_stop ==
    /\ At("appStop")
    /\ \A p \in DOMAIN pipes : pipes[p].state # "lost"
    /\ IF \E p \in DOMAIN pipes : pipes[p].state = "playing"
       THEN \E p \in DOMAIN pipes, end \in {"destroyed", "lost"} :
               /\ pipes[p].state = "playing"
               /\ pipes' = [pipes EXCEPT ![p].state = end]
               /\ UNCHANGED pc
       ELSE pc' = "sensorsStop" /\ UNCHANGED pipes
    /\ UNCHANGED <<cfg, cur, node, httpVars, svcVars, sigVars, fault, ended>>

(* Variant: the sensor thread is not joined. *)
sensors_stop_skip ==
    /\ At("sensorsStop")
    /\ zmq' = FALSE /\ pc' = "zcmStop"
    /\ zcmInt' = (zcm # "off")
    /\ UNCHANGED <<cfg, pipeVars, httpVars, sensors, zcm, sigVars, fault, ended>>

(* sensors->interrupt(), join(); zmq_svr.reset(); and the first half of    *)
(* zcm_inst.reset(): the heartbeat is joined, the run thread interrupted.  *)
sensors_zmq_stop ==
    /\ At("sensorsStop")
    /\ sensors' = FALSE /\ zmq' = FALSE /\ pc' = "zcmStop"
    /\ zcmInt' = (zcm # "off")
    /\ UNCHANGED <<cfg, pipeVars, httpVars, zcm, sigVars, fault, ended>>

(* m_zcm->stop() ends a run() in progress.  The run thread that is between  *)
(* its is_interrupted() and run() misses it, and its run() does not return. *)
zcm_stop ==
    /\ Running /\ pc \in {"zcmStop", "unwindZcmStop"}
    /\ zcm' = CASE zcm = "run" -> "test" [] zcm = "enter" -> "late" [] OTHER -> zcm
    /\ pc' = IF pc = "zcmStop" THEN "zcmJoin" ELSE "unwindZcmJoin"
    /\ UNCHANGED <<cfg, pipeVars, httpVars, sensors, zmq, zcmInt, sigVars, fault, ended>>

zcm_join ==
    /\ Running /\ pc \in {"zcmJoin", "unwindZcmJoin"}
    /\ zcm \in {"off", "done"}
    /\ zcm' = "off"
    /\ IF pc = "zcmJoin"
       THEN ended' = "exit 0" /\ UNCHANGED pc
       ELSE pc' = "unwindZmq" /\ UNCHANGED ended
    /\ UNCHANGED <<cfg, pipeVars, httpVars, sensors, zmq, zcmInt, sigVars, fault>>

(* `return -1`: zcm_inst, zmq_svr, app, fcgi_svr and sensors are destroyed  *)
(* in that order.  An app that still holds a pipeline frees its elements    *)
(* and then destroys its joinable glib thread; so does a running sensor     *)
(* thread at the end.                                                       *)
unwind_zcm ==
    /\ At("unwindZcm")
    /\ zcmInt' = (zcm # "off")
    /\ pc' = "unwindZcmStop"
    /\ UNCHANGED <<cfg, pipeVars, httpVars, sensors, zmq, zcm, sigVars, fault, ended>>

unwind_zmq ==
    /\ At("unwindZmq")
    /\ zmq' = FALSE
    /\ pc' = "unwindApp"
    /\ UNCHANGED <<cfg, pipeVars, httpVars, sensors, zcm, zcmInt, sigVars, fault, ended>>

unwind_app ==
    /\ At("unwindApp")
    /\ \/ /\ DOMAIN pipes = {}
          /\ pc' = "unwindFcgi"
          /\ UNCHANGED <<pipes, ended>>
       \/ \E p \in DOMAIN pipes :
             /\ \A q \in DOMAIN pipes : pipes[q].state = "playing"
             /\ pipes' = [pipes EXCEPT ![p].state = "destroyed"]
             /\ UNCHANGED <<pc, ended>>
       \/ /\ \E p \in DOMAIN pipes : pipes[p].state = "destroyed"
          /\ Terminate
          /\ UNCHANGED pipes
    /\ UNCHANGED <<cfg, cur, node, httpVars, svcVars, sigVars, fault>>

unwind_fcgi ==
    /\ At("unwindFcgi")
    /\ \/ fcgi = "running" /\ fcgi' = "stopping" /\ UNCHANGED pc
       \/ fcgi # "running" /\ req = "idle" /\ pc' = "unwindSensors"
          /\ fcgi' = IF fcgi = "stopping" THEN "stopped" ELSE fcgi
    /\ UNCHANGED <<cfg, pipeVars, uris, req, svcVars, sigVars, fault, ended>>

unwind_sensors ==
    /\ At("unwindSensors")
    /\ ended' = IF sensors THEN "terminated" ELSE "exit -1"
    /\ UNCHANGED <<cfg, pc, pipeVars, httpVars, svcVars, sigVars, fault>>

-----------------------------------------------------------------------------
(* The other threads *)

(* Variant: a URI without a callback is handled too. *)
request_unchecked(u) ==
    /\ Running
    /\ fcgi = "running" /\ req = "idle"
    /\ req' = u
    /\ UNCHANGED <<cfg, pc, pipeVars, uris, fcgi, svcVars, sigVars, fault, ended>>

(* A FastCGI worker accepts a request whose URI has a callback. *)
request(u) ==
    /\ Running
    /\ fcgi = "running" /\ req = "idle" /\ u \in uris
    /\ req' = u
    /\ UNCHANGED <<cfg, pc, pipeVars, uris, fcgi, svcVars, sigVars, fault, ended>>

(* The handler returns.  For get_pipeline_status it dereferences            *)
(* m_pipelines["pipe0"], which operator[] makes a null pointer when there   *)
(* is no such pipeline.                                                     *)
respond ==
    /\ Running /\ req \notin {"idle", "lost"}
    /\ req' = "idle"
    /\ \/ UNCHANGED ended
       \/ req = "rpc" /\ "pipe0" \notin DOMAIN pipes /\ ended' = "terminated"
    /\ UNCHANGED <<cfg, pc, pipeVars, uris, fcgi, svcVars, sigVars, fault>>

(* A stop_video_capture whose EOS notification or quit() is lost: the       *)
(* handler waits for ever (module VideoCapture).                            *)
rpc_lost ==
    /\ Running /\ req = "rpc"
    /\ \E p \in DOMAIN pipes : pipes[p].state = "playing"
    /\ req' = "lost"
    /\ UNCHANGED <<cfg, pc, pipeVars, uris, fcgi, svcVars, sigVars, fault, ended>>

(* zcm_run_thread::work: while(!is_interrupted()) m_zcm->run(); *)
zcm_run_thread ==
    /\ Running
    /\ \/ zcm = "test" /\ zcm' = IF zcmInt THEN "done" ELSE "enter"
       \/ zcm = "enter" /\ zcm' = "run"
    /\ UNCHANGED <<cfg, pc, pipeVars, httpVars, sensors, zmq, zcmInt, sigVars, fault, ended>>

(* A signal is sent.  TERM kills the process once it is not masked. *)
send_signal(s) ==
    /\ Running /\ s \notin sent
    /\ sent' = sent \cup {s}
    /\ IF s = "TERM" /\ pc \in {"wait", "fcgiStop", "fcgiJoin", "appStop", "sensorsStop", "zcmStop", "zcmJoin"}
       THEN ended' = "killed" /\ UNCHANGED sig
       ELSE sig' = sig \cup {s} /\ UNCHANGED ended
    /\ UNCHANGED <<cfg, pc, pipeVars, httpVars, svcVars, fault>>

-----------------------------------------------------------------------------

Main ==
    \/ mask_all_signals \/ options \/ load_config \/ start_sensors \/ fcgi_start
    \/ init_clock \/ set_nvpmodel \/ init_hw_trigger \/ next_camera \/ init_bin \/ link_bins \/ stash \/ app_start
    \/ register_callbacks \/ zmq_init \/ zmq_register_callbacks \/ zcm_init \/ register_jsonrpc
    \/ mask_def_signals \/ wait_for_signal
    \/ fcgi_stop \/ fcgi_join \/ app_stop \/ sensors_zmq_stop \/ zcm_stop \/ zcm_join
    \/ unwind_zcm \/ unwind_zmq \/ unwind_app \/ unwind_fcgi \/ unwind_sensors

Next ==
    \/ Main
    \/ \E u \in {"pipe0", "pipe1", "rpc"} : request(u)
    \/ respond
    \/ rpc_lost
    \/ zcm_run_thread
    \/ \E s \in Signals : send_signal(s)

(* main and the run thread are scheduled, and a handler that can return    *)
(* does.  Nobody has to send a request or a signal.                        *)
Fairness == WF_vars(Main) /\ WF_vars(respond) /\ WF_vars(zcm_run_thread)

Spec == Init /\ [][Next]_vars /\ Fairness

-----------------------------------------------------------------------------

TypeOK ==
    /\ cfg \in Configs
    /\ cur.cam \in Cams \cup {""} /\ cur.step \in {"none", "init", "link", "stash"} /\ cur.n \in Nat
    /\ DOMAIN pipes \subseteq PipeNames
    /\ \A p \in DOMAIN pipes : pipes[p] \in [cam : Cams, state : {"made", "playing", "destroyed", "lost"}]
    /\ node \in Cams \cup {""}
    /\ uris \subseteq {"pipe0", "pipe1", "rpc"} /\ req \in uris \cup {"idle", "lost"}
    /\ fcgi \in {"off", "running", "failed", "stopping", "stopped"}
    /\ zcm \in {"off", "test", "enter", "run", "late", "done"}
    /\ {sensors, zmq, zcmInt, fault} \subseteq BOOLEAN
    /\ sig \subseteq sent /\ sent \subseteq Signals
    /\ ended \in {"no", "exit 0", "exit -1", "terminated", "killed"}

(* When main waits for a signal every configured camera has a playing       *)
(* pipeline under its configured name, the ends of that pipeline are fed    *)
(* by the camera, and the names the request handlers look up                *)
(* (start_rtp_stream, set_camera_property, main's thumb_0) are stored.      *)
ServingIsComplete ==
    Running /\ pc = "wait" =>
        /\ Made = DOMAIN cfg.cams
        /\ \A p \in DOMAIN pipes :
              LET c == cfg.cams[pipes[p].cam]
              IN  /\ c.pipe = p /\ pipes[p].state = "playing"
                  /\ Fed[c.type][cfg.mode]
                  /\ {"cam", "thumb_0", "udp_0"} \subseteq make_pipeline[c.type][cfg.mode].stored

(* A worker in a jpeg handler holds a bare pointer to the pipeline's        *)
(* thumbnail: the pipeline it was registered for exists for as long as the  *)
(* handler runs.  (The destructors of an early return are the exception:    *)
(* app is destroyed before fcgi_svr, main.cpp:223 and :241.)                *)
HandlerTargetAlive ==
    Running /\ req \in {"pipe0", "pipe1"} /\ pc # "unwindApp" =>
        req \in DOMAIN pipes /\ pipes[req].state = "playing"

(* When main returns 0, every thread it started has been joined and every   *)
(* pipeline destroyed, so no destructor meets a joinable thread.            *)
OrderlyExit ==
    ended = "exit 0" =>
        /\ ~sensors /\ ~zmq /\ zcm = "off"
        /\ fcgi \in {"off", "failed", "stopped"} /\ req = "idle"
        /\ \A p \in DOMAIN pipes : pipes[p].state = "destroyed"

(* The configurations the program can run: known pipeline types, distinct   *)
(* pipeline names, no brio camera on the CPU (its thumbnail bin takes raw   *)
(* video), a frame callback in the cameras 0MQ publishes, and a "pipe0" for *)
(* get_pipeline_status.                                                     *)
Supported(c) ==
    /\ \A cam \in DOMAIN c.cams :
          /\ c.cams[cam].type \in KnownTypes
          /\ ~(c.cams[cam].type = "brio" /\ c.mode # "nv")
          /\ c.zmq => c.cams[cam].type \in {"imx219", "alvium"}
    /\ \A a, b \in DOMAIN c.cams : c.cams[a].pipe = c.cams[b].pipe => a = b
    /\ \E cam \in DOMAIN c.cams : c.cams[cam].pipe = "pipe0"

(* The process is terminated only if the environment failed a call or the   *)
(* configuration is not one it supports: no order of requests, signals and  *)
(* start-up steps alone brings it down.                                     *)
CrashHasCause == ended = "terminated" => fault \/ ~Supported(cfg)

(* Every recording listens to the interpipe node "h264_ipsink_0", whatever  *)
(* camera it is asked for (Opaleye_app.cpp:817).  While the program serves, *)
(* that node belongs to the first camera of the configuration.              *)
RecordedCamera ==
    Running /\ pc = "wait" /\ DOMAIN pipes # {} =>
        node = CamOrder[CHOOSE i \in DOMAIN CamOrder : CamOrder[i] \in Made /\
                           \A j \in DOMAIN CamOrder : CamOrder[j] \in Made => i <= j]

(* The waits the shutdown can be stuck in: a join of the ZCM run thread     *)
(* that missed m_zcm->stop(), a stop_video_capture that never returns, and  *)
(* a pipeline whose quit() came too early.                                  *)
Stuck ==
    zcm = "late" \/ req = "lost" \/ \E p \in DOMAIN pipes : pipes[p].state = "lost"

(* A SIGINT sent at any time, also during start-up, ends the process, or    *)
(* meets one of the three signals between threads that the code can lose:   *)
(* it is never itself lost, nor mistaken for another, and every other wait  *)
(* of main, and of the threads it joins, returns.                           *)
SigintEnds == "INT" \in sig ~> ended # "no" \/ Stuck
=============================================================================
