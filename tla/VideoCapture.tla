---------------------------- MODULE VideoCapture ----------------------------
(***************************************************************************)
(* Recording video through the JSON-RPC interface: the FastCGI worker      *)
(* threads (http_fcgi_work_thread), the JSON-RPC mutex (http_req_jsonrpc), *)
(* the map m_pipelines of Opaleye_app with start_video_capture and         *)
(* stop_video_capture, the pipelines of GstApp, and the main thread's      *)
(* shutdown.                                                               *)
(***************************************************************************)
EXTENDS GstApp

CONSTANTS Workers,     \* the FastCGI worker threads
          Pipe0,       \* the name "pipe0" that get_pipeline_status looks up
          Serialised   \* TRUE: handlers run under m_jsonrpc_mutex, as http_req_jsonrpc calls
                       \* them; FALSE: they are called from any thread, as Opaleye_app.hpp allows

ASSUME CaptureAssumption == Serialised \in BOOLEAN /\ Pipe0 \in Cameras

VARIABLES
    pipes,       \* m_pipelines: the entry of each name is absent, null or set
    mutex,       \* m_jsonrpc_mutex: the set of workers inside
    at,          \* at[w]: where worker w is
    req,         \* req[w]: the request it serves
    interrupted, \* the workers were told to stop
    main,        \* where the main thread is
    cur,         \* the entry Opaleye_app::stop() is joining
    proc,        \* "up", or how the process died
    lost         \* history: a notify_all or a quit() came too early and had no effect

capVars == <<pipes, mutex, at, req, interrupted, main, cur, proc, lost>>
vars == <<gstVars, capVars>>

Ops == {"start_video_capture", "stop_video_capture", "get_pipeline_status"}
Requests == {r \in [op : Ops, name : Names] :   \* bound: no capture deeper than MaxDepth
                r.op = "start_video_capture" => r.name[2] < MaxDepth}
NoReq == [op |-> "get_pipeline_status", name |-> <<Pipe0, 0>>]   \* what an idle worker keeps

(* The points inside a handler, between taking and releasing the mutex. *)
Starting == {"init", "play", "emplace"}
Waiting  == {"pred", "block", "wait"}
Stopping == {"eos", "stop", "join"} \cup Waiting
InHandler == {"call", "unlock"} \cup Starting \cup Stopping
At == {"accept", "lock", "exited"} \cup InHandler

file0(n) == <<n[1], n[2] + 1>>
exists(n) == n \in Names /\ pipes[n] # "absent"

(* The capture pipeline worker w is working on. *)
cap(w) == file0(req[w].name)

Init ==
    /\ GstInit
    /\ pipes = [n \in Names |-> IF n[2] = 0 THEN "set" ELSE "absent"]
    /\ mutex = {}
    /\ at = [w \in Workers |-> "accept"]
    /\ req = [w \in Workers |-> NoReq]
    /\ interrupted = FALSE
    /\ main = "serve"
    /\ cur = NoPipe
    /\ proc = "up"
    /\ lost = FALSE

goto(w, to) == at' = [at EXCEPT ![w] = to]

-----------------------------------------------------------------------------
(* The worker loop, http_fcgi_work_thread::work. *)

(* FCGX_Accept_r returns a request; one accepted after the interrupt is     *)
(* answered 500 and ends the loop.                                          *)
accept(w, r) ==
    /\ at[w] = "accept"
    /\ \/ ~interrupted /\ goto(w, "lock") /\ req' = [req EXCEPT ![w] = r]
       \/ interrupted /\ goto(w, "exited") /\ UNCHANGED req
    /\ UNCHANGED <<gstVars, pipes, mutex, interrupted, main, cur, proc, lost>>

(* The loop test, or an accept on the socket that stop() has shut down. *)
leave(w) ==
    /\ at[w] = "accept"
    /\ interrupted
    /\ goto(w, "exited")
    /\ UNCHANGED <<gstVars, pipes, mutex, req, interrupted, main, cur, proc, lost>>

lock(w) ==
    /\ at[w] = "lock"
    /\ Serialised => mutex = {}
    /\ mutex' = mutex \cup {w}
    /\ goto(w, "call")
    /\ UNCHANGED <<gstVars, pipes, req, interrupted, main, cur, proc, lost>>

unlock(w) ==
    /\ at[w] = "unlock"
    /\ mutex' = mutex \ {w}
    /\ goto(w, "accept")
    /\ req' = [req EXCEPT ![w] = NoReq]
    /\ UNCHANGED <<gstVars, pipes, interrupted, main, cur, proc, lost>>

-----------------------------------------------------------------------------
(* get_pipeline_status: m_pipelines["pipe0"]-> inserts and dereferences a   *)
(* null pointer when there is no such entry.                                *)

get_pipeline_status(w) ==
    /\ at[w] = "call"
    /\ req[w].op = "get_pipeline_status"
    /\ goto(w, "unlock")
    /\ proc' = IF pipes[<<Pipe0, 0>>] = "set" THEN "up" ELSE "segv"
    /\ UNCHANGED <<gstVars, pipes, mutex, req, interrupted, main, cur, lost>>

-----------------------------------------------------------------------------
(* start_video_capture *)

startable(w) == exists(req[w].name) /\ ~exists(cap(w))

(* The two lookups; the output directory may turn out to be unusable. *)
start_checks(w) ==
    /\ at[w] = "call"
    /\ req[w].op = "start_video_capture"
    /\ \/ startable(w) /\ goto(w, "init")
       \/ goto(w, "unlock")
    /\ UNCHANGED <<gstVars, pipes, mutex, req, interrupted, main, cur, proc, lost>>

(* gst_filesink_pipeline's constructor and init().  The thread is started   *)
(* first; when m_mux.init() then throws, the object is destroyed with a     *)
(* joinable thread and std::terminate is called.                            *)
start_init(w) ==
    /\ at[w] = "init"
    /\ gst_init(cap(w))
    /\ goto(w, "play")
    /\ proc' \in {"up", "terminate"}
    /\ UNCHANGED <<pipes, mutex, req, interrupted, main, cur, lost>>

start_play(w) ==
    /\ at[w] = "play"
    /\ gst_start(cap(w))
    /\ goto(w, "emplace")
    /\ UNCHANGED <<pipes, mutex, req, interrupted, main, cur, proc, lost>>

start_emplace(w) ==
    /\ at[w] = "emplace"
    /\ pipes' = [pipes EXCEPT ![cap(w)] = "set"]
    /\ goto(w, "unlock")
    /\ UNCHANGED <<gstVars, mutex, req, interrupted, main, cur, proc, lost>>

-----------------------------------------------------------------------------
(* stop_video_capture *)

stoppable(w) == exists(req[w].name) /\ exists(cap(w)) /\ pipes[cap(w)] # "null"

stop_checks(w) ==
    /\ at[w] = "call"
    /\ req[w].op = "stop_video_capture"
    /\ goto(w, IF stoppable(w) THEN "eos" ELSE "unlock")
    /\ UNCHANGED <<gstVars, pipes, mutex, req, interrupted, main, cur, proc, lost>>

(* Variant: the wait for the EOS message is skipped. *)
stop_eos_noWait(w) ==
    /\ at[w] = "eos"
    /\ send_pipeline_eos(cap(w))
    /\ goto(w, "stop")
    /\ UNCHANGED <<pipes, mutex, req, interrupted, main, cur, proc, lost>>

stop_eos(w) ==
    /\ at[w] = "eos"
    /\ send_pipeline_eos(cap(w))
    /\ goto(w, "pred")
    /\ UNCHANGED <<pipes, mutex, req, interrupted, main, cur, proc, lost>>

(* wait_pipeline_eos: the predicate is false, then the wait set is entered; *)
(* on_bus_message does not take m_mutex_got_eos.                            *)
wait_pred(w) ==
    /\ at[w] = "pred"
    /\ goto(w, IF gotEos[cap(w)] THEN "stop" ELSE "block")
    /\ UNCHANGED <<gstVars, pipes, mutex, req, interrupted, main, cur, proc, lost>>

wait_block(w) ==
    /\ at[w] = "block"
    /\ goto(w, "wait")
    /\ UNCHANGED <<gstVars, pipes, mutex, req, interrupted, main, cur, proc, lost>>

stop_stop(w) ==
    /\ at[w] = "stop"
    /\ gst_stop(cap(w))
    /\ lost' = (lost \/ loop[cap(w)] = "launched")
    /\ goto(w, "join")
    /\ UNCHANGED <<pipes, mutex, req, interrupted, main, cur, proc>>

(* Variant: the entry is left in m_pipelines. *)
stop_erase_forgotten(w) ==
    /\ at[w] = "join"
    /\ gst_destroy(cap(w))
    /\ goto(w, "unlock")
    /\ UNCHANGED <<pipes, mutex, req, interrupted, main, cur, proc, lost>>

(* The join returns, the last shared_ptr goes with the map entry. *)
stop_erase(w) ==
    /\ at[w] = "join"
    /\ gst_destroy(cap(w))
    /\ pipes' = [pipes EXCEPT ![cap(w)] = "absent"]
    /\ goto(w, "unlock")
    /\ UNCHANGED <<mutex, req, interrupted, main, cur, proc, lost>>

-----------------------------------------------------------------------------
(* Variant: on_bus_message stores m_got_eos and notifies nobody. *)
bus_notify_none(g) ==
    /\ handling[g] # NoPipe
    /\ handling' = [handling EXCEPT ![g] = NoPipe]
    /\ UNCHANGED <<gst, watch, bus, gotEos, loop, isRunning, capVars>>

(* The thread of g ends on_bus_message: notify_all on the m_cv_got_eos of   *)
(* the object it handles.  On a destroyed object that is undefined: it      *)
(* does nothing, or the process dies.                                       *)
bus_notify(g) ==
    /\ handling[g] # NoPipe
    /\ handling' = [handling EXCEPT ![g] = NoPipe]
    /\ at' = [w \in Workers |->
                IF at[w] = "wait" /\ cap(w) = handling[g] THEN "pred" ELSE at[w]]
    /\ lost' = (lost \/ \E w \in Workers : at[w] = "block" /\ cap(w) = handling[g])
    /\ proc' \in IF handling[g] = Dangling THEN {"up", "segv"} ELSE {"up"}
    /\ UNCHANGED <<gst, watch, bus, gotEos, loop, isRunning,
                   pipes, mutex, req, interrupted, main, cur>>

-----------------------------------------------------------------------------
(* The main thread: SIGINT, http_fcgi_svr::stop, Opaleye_app::stop. *)

(* Every worker is interrupted and the listening socket is shut down. *)
main_sigint ==
    /\ main = "serve"
    /\ interrupted' = TRUE
    /\ main' = "join"
    /\ UNCHANGED <<gstVars, pipes, mutex, at, req, cur, proc, lost>>

(* Variant: http_fcgi_svr::stop does not join its threads. *)
main_joined_early ==
    /\ main = "join"
    /\ main' = "stop"
    /\ UNCHANGED <<gstVars, pipes, mutex, at, req, interrupted, cur, proc, lost>>

main_joined ==
    /\ main = "join"
    /\ \A w \in Workers : at[w] = "exited"
    /\ main' = "stop"
    /\ UNCHANGED <<gstVars, pipes, mutex, at, req, interrupted, cur, proc, lost>>

(* Opaleye_app::stop visits the map in key order: a pipeline comes before   *)
(* its captures.  No EOS is sent.                                           *)
main_stop(n) ==
    /\ main = "stop"
    /\ pipes[n] = "set"
    /\ \A m \in Names : m[1] = n[1] /\ m[2] < n[2] => pipes[m] # "set"
    /\ gst_stop(n)
    /\ lost' = (lost \/ loop[n] = "launched")
    /\ cur' = n
    /\ main' = "joinPipe"
    /\ UNCHANGED <<pipes, mutex, at, req, interrupted, proc>>

main_reset ==
    /\ main = "joinPipe"
    /\ gst_destroy(cur)
    /\ pipes' = [pipes EXCEPT ![cur] = "null"]
    /\ cur' = NoPipe
    /\ main' = "stop"
    /\ UNCHANGED <<mutex, at, req, interrupted, proc, lost>>

main_exit ==
    /\ main = "stop"
    /\ \A n \in Names : pipes[n] # "set"
    /\ main' = "exited"
    /\ UNCHANGED <<gstVars, pipes, mutex, at, req, interrupted, cur, proc, lost>>

-----------------------------------------------------------------------------

workerStep(w) ==
    \/ leave(w) \/ lock(w) \/ unlock(w)
    \/ get_pipeline_status(w)
    \/ start_checks(w) \/ start_init(w) \/ start_play(w) \/ start_emplace(w)
    \/ stop_checks(w) \/ stop_eos(w) \/ wait_pred(w) \/ wait_block(w)
    \/ stop_stop(w) \/ stop_erase(w)

glibStep(g) ==
    \/ /\ \/ run_glib_main(g) \/ acquire_context(g) \/ run_returns(g)
          \/ \E n \in Names : on_bus_message(g, n)
       /\ UNCHANGED capVars
    \/ bus_notify(g)

gstStep(n) == eos_reaches_bus(n) /\ UNCHANGED capVars

mainStep ==
    main_joined \/ (\E n \in Names : main_stop(n)) \/ main_reset \/ main_exit

(* The program stays as it is once main has returned or the process died;  *)
(* it also waits for ever after a lost signal.                              *)
Next ==
    /\ proc = "up"
    /\ \/ \E w \in Workers : workerStep(w) \/ \E r \in Requests : accept(w, r)
       \/ \E n \in Names : glibStep(n) \/ gstStep(n)
       \/ main_sigint \/ mainStep

(* Every thread is scheduled and GStreamer drains the pipeline after an     *)
(* EOS event; no client has to send a request and no one a SIGINT.          *)
Fairness ==
    /\ \A w \in Workers : WF_vars(proc = "up" /\ workerStep(w))
    /\ \A n \in Names : WF_vars(proc = "up" /\ glibStep(n)) /\ WF_vars(proc = "up" /\ gstStep(n))
    /\ WF_vars(proc = "up" /\ mainStep)

Spec == Init /\ [][Next]_vars

FairSpec == Spec /\ Fairness

-----------------------------------------------------------------------------

(* Every variable has its type, and m_jsonrpc_mutex is held by the workers  *)
(* inside a handler: every return path releases it.                         *)
TypeOK ==
    /\ GstTypeOK
    /\ pipes \in [Names -> {"absent", "null", "set"}]
    /\ mutex \subseteq Workers
    /\ at \in [Workers -> At]
    /\ req \in [Workers -> Requests]
    /\ interrupted \in BOOLEAN
    /\ main \in {"serve", "join", "stop", "joinPipe", "exited"}
    /\ cur \in Names \cup {NoPipe}
    /\ proc \in {"up", "terminate", "segv"}
    /\ lost \in BOOLEAN
    /\ mutex = {w \in Workers : at[w] \in InHandler}

(* m_pipelines has no lock of its own: it is touched by the handlers        *)
(* (under m_jsonrpc_mutex) and by Opaleye_app::stop() (after the workers    *)
(* are joined), and never by two threads at a time.                         *)
PipelinesExclusive ==
    /\ \A v, w \in Workers : at[v] \in InHandler /\ at[w] \in InHandler => v = w
    /\ main \in {"stop", "joinPipe", "exited"} => \A w \in Workers : at[w] = "exited"

(* The capture pipeline n is being made or taken down by a handler.         *)
BeingChanged(n) ==
    \E w \in Workers : at[w] \in Starting \cup Stopping /\ cap(w) = n

(* start_video_capture, stop_video_capture and Opaleye_app::stop() leak no  *)
(* pipeline thread and lose none: while none of them is at work on a name,  *)
(* the map has a pipeline of that name just when one plays and has a        *)
(* thread to join.                                                          *)
MapMatchesPipelines ==
    \A n \in Names :
        ~BeingChanged(n) /\ cur # n =>
            IF pipes[n] = "set" THEN gst[n] = "playing" /\ gst_joinable(n)
                                ELSE gst[n] = "none" /\ ~gst_joinable(n)

(* A recording is finalised before its pipeline is taken down: no step      *)
(* ends a playing pipeline whose EOS message has not been handled, except   *)
(* Opaleye_app::stop(), which sends no EOS at all.                          *)
EosBeforeStop ==
    [][\A n \in Names :
          gst[n] = "playing" /\ gst'[n] # "playing" => gotEos[n] \/ main = "stop"]_vars

(* The recordings as the abstract Recorder sees them. *)
Captures == {n \in Names : n[2] > 0}

recOf ==
    [c \in Captures |->
        IF gst[c] # "playing" THEN "idle" ELSE IF gotEos[c] THEN "finished" ELSE "recording"]

R == INSTANCE Recorder WITH rec <- recOf, closing <- main \in {"stop", "joinPipe", "exited"}

(* Workers, map, bus and main loop together implement Recorder: a file is   *)
(* never taken from its pipeline before it is complete, a name is reused    *)
(* only from the start, and once Opaleye_app::stop() has begun, which may   *)
(* cut recordings off, no request begins one.                               *)
ImplementsRecorder == R!Spec

(* A stop_video_capture that has found its capture answers the client,      *)
(* unless the process dies or one of the two signals that can be lost is    *)
(* lost: notify_all() of the EOS between wait_pipeline_eos's predicate and  *)
(* its wait, or quit() of a main loop whose thread has not entered run().   *)
StopAnswers ==
    \A w \in Workers : at[w] = "eos" ~> at[w] = "unlock" \/ lost \/ proc # "up"

(* After SIGINT the program ends, however many requests are being served,   *)
(* unless one of those two signals is lost or the process dies.             *)
ShutdownEnds ==
    main = "join" ~> main = "exited" \/ lost \/ proc # "up"
=============================================================================
