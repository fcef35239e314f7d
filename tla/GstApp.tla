------------------------------- MODULE GstApp -------------------------------
(***************************************************************************)
(* The GST_app_base objects of the program, one per pipeline name: the     *)
(* GStreamer pipeline, its bus, and the std::thread that runs its          *)
(* Glib::MainLoop.  Every object's main loop is made on the ONE default    *)
(* Glib::MainContext, so a single thread at a time owns the context and    *)
(* dispatches the bus messages of every pipeline; the other threads are    *)
(* queued inside MainLoop::run() until the owner's loop quits.             *)
(*                                                                         *)
(* A name is <<camera, depth>>: "pipe0" is <<pipe0, 0>> and the capture    *)
(* pipeline "pipe0/file0" is <<pipe0, 1>>.  A client may pass any key of   *)
(* the map as a camera name, so "pipe0/file0/file0" can exist too.         *)
(***************************************************************************)
EXTENDS Naturals

CONSTANTS Cameras,   \* the pipeline names of the configuration
          MaxDepth   \* bound: the deepest "/file0" nesting of the model

ASSUME DepthAssumption == MaxDepth \in Nat \ {0}

Names == Cameras \X (0..MaxDepth)
NoPipe == <<>>            \* the thread runs no handler
Dangling == <<"freed">>   \* the thread runs the handler of a destroyed object

VARIABLES
    gst,       \* gst[n]: "none" (no object), "null" or "playing" (m_pipeline's state)
    watch,     \* watch[n]: the bus signal watch is attached to the context
    bus,       \* bus[n]: an EOS event was "sent" down the pipeline, or its message is "posted"
    gotEos,    \* m_got_eos
    loop,      \* glib_main_thread_: none, launched, queued for the context, running, done
    isRunning, \* the GMainLoop's is_running flag
    handling   \* handling[n]: the object whose on_bus_message the thread of n executes

gstVars == <<gst, watch, bus, gotEos, loop, isRunning, handling>>

LoopState == {"none", "launched", "queued", "running", "done"}

GstTypeOK ==
    /\ gst \in [Names -> {"none", "null", "playing"}]
    /\ watch \in [Names -> BOOLEAN]
    /\ bus \in [Names -> {"none", "sent", "posted"}]
    /\ gotEos \in [Names -> BOOLEAN]
    /\ loop \in [Names -> LoopState]
    /\ isRunning \in [Names -> BOOLEAN]
    /\ handling \in [Names -> Names \cup {NoPipe, Dangling}]

(* After Opaleye_app::init() and start(): the camera pipelines play and     *)
(* their threads have been started, whether or not they have run yet.       *)
GstInit ==
    /\ gst = [n \in Names |-> IF n[2] = 0 THEN "playing" ELSE "none"]
    /\ watch = [n \in Names |-> n[2] = 0]
    /\ bus = [n \in Names |-> "none"]
    /\ gotEos = [n \in Names |-> FALSE]
    /\ loop = [n \in Names |-> IF n[2] = 0 THEN "launched" ELSE "none"]
    /\ isRunning = [n \in Names |-> FALSE]
    /\ handling = [n \in Names |-> NoPipe]

-----------------------------------------------------------------------------
(* The operations a caller performs on the object of n. *)

(* Variant: the constructor does not clear m_got_eos. *)
gst_init_keepEos(n) ==
    /\ gst' = [gst EXCEPT ![n] = "null"]
    /\ watch' = [watch EXCEPT ![n] = TRUE]
    /\ bus' = [bus EXCEPT ![n] = "none"]
    /\ loop' = [loop EXCEPT ![n] = "launched"]
    /\ isRunning' = [isRunning EXCEPT ![n] = FALSE]
    /\ UNCHANGED <<gotEos, handling>>

(* The constructor, then GST_app_base::init(): the thread is started. *)
gst_init(n) ==
    /\ gst' = [gst EXCEPT ![n] = "null"]
    /\ watch' = [watch EXCEPT ![n] = TRUE]
    /\ bus' = [bus EXCEPT ![n] = "none"]
    /\ gotEos' = [gotEos EXCEPT ![n] = FALSE]
    /\ loop' = [loop EXCEPT ![n] = "launched"]
    /\ isRunning' = [isRunning EXCEPT ![n] = FALSE]
    /\ UNCHANGED handling

gst_start(n) ==
    /\ gst' = [gst EXCEPT ![n] = "playing"]
    /\ UNCHANGED <<watch, bus, gotEos, loop, isRunning, handling>>

send_pipeline_eos(n) ==
    /\ bus' = [bus EXCEPT ![n] = "sent"]
    /\ UNCHANGED <<gst, watch, gotEos, loop, isRunning, handling>>

(* Variant: stop() forgets m_mainloop->quit(). *)
gst_stop_noQuit(n) ==
    /\ watch' = [watch EXCEPT ![n] = FALSE]
    /\ gst' = [gst EXCEPT ![n] = "null"]
    /\ bus' = [bus EXCEPT ![n] = "none"]
    /\ UNCHANGED <<isRunning, gotEos, loop, handling>>

(* stop() up to the join.  quit() clears is_running; a thread that has not  *)
(* reached run() yet sets it again, and the quit is lost.                   *)
gst_stop(n) ==
    /\ watch' = [watch EXCEPT ![n] = FALSE]
    /\ gst' = [gst EXCEPT ![n] = "null"]
    /\ bus' = [bus EXCEPT ![n] = "none"]
    /\ isRunning' = [isRunning EXCEPT ![n] = FALSE]
    /\ UNCHANGED <<gotEos, loop, handling>>

gst_joinable(n) == loop[n] # "none"

(* glib_main_thread_.join() has returned and the object is destroyed.  A    *)
(* handler of this object that another pipeline's thread still executes is  *)
(* left with a dangling this.                                               *)
gst_destroy(n) ==
    /\ loop[n] = "done"
    /\ loop' = [loop EXCEPT ![n] = "none"]
    /\ gst' = [gst EXCEPT ![n] = "none"]
    /\ handling' = [g \in Names |-> IF handling[g] = n THEN Dangling ELSE handling[g]]
    /\ UNCHANGED <<watch, bus, gotEos, isRunning>>

-----------------------------------------------------------------------------
(* GLib and GStreamer. *)

ContextFree == \A n \in Names : loop[n] # "running"

(* run_glib_main: MainLoop::run() sets is_running, then owns the context or *)
(* queues for it.                                                           *)
run_glib_main(n) ==
    /\ loop[n] = "launched"
    /\ isRunning' = [isRunning EXCEPT ![n] = TRUE]
    /\ loop' = [loop EXCEPT ![n] = IF ContextFree THEN "running" ELSE "queued"]
    /\ UNCHANGED <<gst, watch, bus, gotEos, handling>>

acquire_context(n) ==
    /\ loop[n] = "queued"
    /\ isRunning[n]
    /\ ContextFree
    /\ loop' = [loop EXCEPT ![n] = "running"]
    /\ UNCHANGED <<gst, watch, bus, gotEos, isRunning, handling>>

(* run() returns once quit() cleared is_running, after any dispatch ends. *)
run_returns(n) ==
    /\ loop[n] \in {"queued", "running"}
    /\ ~isRunning[n]
    /\ handling[n] = NoPipe
    /\ loop' = [loop EXCEPT ![n] = "done"]
    /\ UNCHANGED <<gst, watch, bus, gotEos, isRunning, handling>>

(* The EOS event has reached every sink: the pipeline posts the message. *)
eos_reaches_bus(n) ==
    /\ bus[n] = "sent"
    /\ gst[n] = "playing"
    /\ bus' = [bus EXCEPT ![n] = "posted"]
    /\ UNCHANGED <<gst, watch, gotEos, loop, isRunning, handling>>

(* The owner g of the context dispatches the EOS message of n, whichever    *)
(* pipeline n is: on_bus_message stores m_got_eos.                          *)
on_bus_message(g, n) ==
    /\ loop[g] = "running"
    /\ isRunning[g]
    /\ handling[g] = NoPipe
    /\ bus[n] = "posted"
    /\ watch[n]
    /\ bus' = [bus EXCEPT ![n] = "none"]
    /\ gotEos' = [gotEos EXCEPT ![n] = TRUE]
    /\ handling' = [handling EXCEPT ![g] = n]
    /\ UNCHANGED <<gst, watch, loop, isRunning>>
=============================================================================
