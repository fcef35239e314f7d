---------------------------- MODULE AlviumStream ----------------------------
(***************************************************************************)
(* Frame capture from an Alvium camera: the V4L2 buffers of Alvium_v4l2,   *)
(* the V4L2_alvium_frame_worker thread that dequeues a buffer, hands it to *)
(* the frame callback and queues it again, and the thread that starts,     *)
(* stops and closes the stream.  init, the JSON-RPC handlers (one at a     *)
(* time, after init) and close (after the last handler) never overlap, so  *)
(* one control thread stands for the three.                                *)
(*                                                                         *)
(* The driver (external) owns a buffer from VIDIOC_QBUF until              *)
(* VIDIOC_DQBUF; VIDIOC_STREAMOFF gives all buffers back; VIDIOC_QBUF of a *)
(* buffer the driver owns fails, and any VIDIOC_QBUF or VIDIOC_DQBUF may.  *)
(***************************************************************************)
EXTENDS Naturals

CONSTANT N             \* the most buffers VIDIOC_REQBUFS grants for NUM_BUFFERS

ASSUME NAssumption == N \in Nat \ {0}

Buffers  == 0 .. N - 1
NoBuffer == N
Modes    == {"free", "hw", "sw"}

VARIABLES
    buf,         \* buf[b]: the program's ("user"), queued, or filled by the driver ("done")
    streaming,   \* between VIDIOC_STREAMON and VIDIOC_STREAMOFF
    fd,          \* m_fd # -1
    mapped,      \* the size of m_buf_by_idx: buffers 0 .. mapped - 1 are mapped
    trigOn,      \* the camera waits for a trigger
    trigSource,  \* where the trigger comes from
    trigRising,  \* the trigger is the rising edge
    mode,        \* m_trigger_mode
    wanted,      \* the argument of the set_trigger_mode that runs or ran last
    agreed,      \* history: the last set_trigger_mode returned true
    quiet,       \* history: stopped between two frames, and not started since
    keep,        \* m_keep_running of the frame worker
    worker,      \* where the frame worker is
    held,        \* the buffer it dequeued
    ctl,         \* where the control thread is
    k,           \* the buffer start_streaming is about to queue
    leaked       \* history: buffers lost to a callback that threw or a QBUF that failed

trigger     == <<trigOn, trigSource, trigRising, mode, wanted, agreed>>
device      == <<buf, streaming, fd, mapped, leaked, quiet>>
frameWorker == <<keep, worker, held>>
control     == <<ctl, k>>
vars == <<buf, streaming, fd, mapped, trigOn, trigSource, trigRising, mode, wanted, agreed, quiet,
          keep, worker, held, ctl, k, leaked>>

(* The camera's trigger is in any state a previous user left it in; the     *)
(* mode is the one of the configuration.                                    *)
Init ==
    /\ buf = [b \in Buffers |-> "user"]
    /\ streaming = FALSE
    /\ fd = FALSE
    /\ mapped = 0
    /\ trigOn \in BOOLEAN /\ trigSource \in {"software", "line0"} /\ trigRising \in BOOLEAN
    /\ mode \in Modes /\ wanted = mode /\ agreed = FALSE
    /\ quiet = TRUE
    /\ keep = FALSE
    /\ worker = "none"
    /\ held = NoBuffer
    /\ ctl = "new"
    /\ k = 0
    /\ leaked = {}

(* VIDIOC_QBUF *)
qbuf(b) ==
    /\ buf[b] = "user"
    /\ buf' = [buf EXCEPT ![b] = "queued"]
    /\ leaked' = leaked \ {b}
    /\ UNCHANGED <<streaming, fd, mapped, quiet>>

(* Variant: the ioctl is left out. *)
streamoff_skipped ==
    /\ quiet' = (held = NoBuffer)
    /\ UNCHANGED <<buf, streaming, fd, mapped, leaked>>

(* VIDIOC_STREAMOFF *)
streamoff ==
    /\ streaming' = FALSE
    /\ buf' = [b \in Buffers |-> "user"]
    /\ quiet' = (held = NoBuffer)
    /\ UNCHANGED <<fd, mapped, leaked>>

(* The mode the camera's trigger is in. *)
TriggerMode ==
    IF ~trigOn THEN "free"
    ELSE IF trigSource = "software" THEN "sw"
    ELSE IF trigRising THEN "hw" ELSE "mixed"

(* The driver fills a queued buffer.  Nobody sends a software trigger. *)
fill(b) ==
    /\ streaming
    /\ TriggerMode # "sw"
    /\ buf[b] = "queued"
    /\ buf' = [buf EXCEPT ![b] = "done"]
    /\ UNCHANGED <<streaming, fd, mapped, leaked, quiet, trigger, frameWorker, control>>

-----------------------------------------------------------------------------

goto(from, to) == ctl = from /\ ctl' = to

(* Alvium_v4l2::open: a failed one may leave the descriptor open, because   *)
(* its close() gives up when VIDIOC_REQBUFS does.                           *)
cam_open == fd' \in BOOLEAN

(* Alvium_v4l2::init maps the buffers one by one, up to the first failure.  *)
cam_init == mapped' \in 0 .. N

(* v4l2_mmap_buffer::init maps a buffer of an open device only. *)
mmap_buffer == mapped' > 0 => fd'

(* V4L2_alvium_pipe::init, first part, only logs a failure of either, and   *)
(* goes on with what there is.                                              *)
init_camera ==
    /\ goto("new", "init_trigger")
    /\ cam_open /\ cam_init /\ mmap_buffer
    /\ wanted' = mode /\ agreed' = FALSE
    /\ UNCHANGED <<buf, streaming, leaked, quiet, trigOn, trigSource, trigRising, mode, frameWorker, k>>

(* The worker is launched before the stream is started. *)
init_worker ==
    /\ goto("init_worker", "init_qbuf")
    /\ keep' = TRUE /\ worker' = "test"
    /\ quiet' = FALSE
    /\ UNCHANGED <<buf, streaming, fd, mapped, leaked, trigger, held, k>>

(* An unsupported format is found out before there is a worker, and the     *)
(* pipe is destroyed.                                                       *)
init_unsupported ==
    /\ goto("init_worker", "close")
    /\ UNCHANGED <<device, trigger, frameWorker, k>>

(* set_camera_property("trigger", m), answering false to any other m. *)
call_trigger(m) ==
    /\ goto("idle", "trigger")
    /\ wanted' = m /\ agreed' = FALSE
    /\ UNCHANGED <<device, trigOn, trigSource, trigRising, mode, frameWorker, k>>

SettingTrigger == ctl \in {"init_trigger", "trigger", "init_source", "source", "init_edge", "edge"}
InInit         == ctl \in {"init_trigger", "init_source", "init_edge", "init_qbuf"}
next(initTo, to) == ctl' = IF InInit THEN initTo ELSE to

(* The last ioctl of set_trigger_mode went through. *)
trigger_set == mode' = wanted /\ agreed' = TRUE /\ next("init_worker", "idle")

(* VIDIOC_TRIGGER_MODE_OFF, or _ON *)
trigger_mode ==
    /\ ctl \in {"init_trigger", "trigger"} /\ fd
    /\ \/ wanted = "free" /\ trigOn' = FALSE /\ trigger_set
       \/ wanted # "free" /\ trigOn' = TRUE /\ next("init_source", "source") /\ UNCHANGED <<mode, agreed>>
    /\ UNCHANGED <<device, trigSource, trigRising, wanted, frameWorker, k>>

(* Variant: the source is set for a hardware trigger only. *)
trigger_source_hwOnly ==
    /\ ctl \in {"init_source", "source"}
    /\ \/ wanted = "sw" /\ trigger_set /\ UNCHANGED trigSource
       \/ wanted = "hw" /\ trigSource' = "line0" /\ next("init_edge", "edge") /\ UNCHANGED <<mode, agreed>>
    /\ UNCHANGED <<device, trigOn, trigRising, wanted, frameWorker, k>>

(* VIDIOC_S_TRIGGER_SOURCE *)
trigger_source ==
    /\ ctl \in {"init_source", "source"}
    /\ \/ wanted = "sw" /\ trigSource' = "software" /\ trigger_set
       \/ wanted = "hw" /\ trigSource' = "line0" /\ next("init_edge", "edge") /\ UNCHANGED <<mode, agreed>>
    /\ UNCHANGED <<device, trigOn, trigRising, wanted, frameWorker, k>>

(* VIDIOC_S_TRIGGER_ACTIVATION *)
trigger_activation ==
    /\ ctl \in {"init_edge", "edge"}
    /\ trigRising' = TRUE /\ trigger_set
    /\ UNCHANGED <<device, trigOn, trigSource, wanted, frameWorker, k>>

(* Any of them fails: set_trigger_mode returns false, what it has done      *)
(* stays, and init gives the camera up.                                     *)
trigger_fails ==
    /\ SettingTrigger
    /\ next("close", "idle")
    /\ UNCHANGED <<device, trigger, frameWorker, k>>

(* set_camera_property("streaming", "on") *)
call_on ==
    /\ goto("idle", "on_qbuf")
    /\ quiet' = FALSE
    /\ UNCHANGED <<buf, streaming, fd, mapped, leaked, trigger, frameWorker, k>>

(* set_camera_property("streaming", "off") *)
call_off ==
    /\ ctl = "idle"
    /\ streamoff
    /\ UNCHANGED <<trigger, frameWorker, control>>

Starting == ctl \in {"init_qbuf", "on_qbuf"}

start_qbuf ==
    /\ Starting
    /\ k < mapped
    /\ qbuf(k)
    /\ k' = k + 1
    /\ UNCHANGED <<trigger, frameWorker, ctl>>

(* The driver owns the buffer already, or VIDIOC_QBUF fails otherwise: init *)
(* gives the camera up, a handler answers false.                            *)
start_qbuf_fails ==
    /\ Starting
    /\ k < mapped
    /\ k' = 0
    /\ next("close", "idle")
    /\ UNCHANGED <<device, trigger, frameWorker>>

start_streamon ==
    /\ Starting
    /\ k = mapped
    /\ k' = 0
    /\ ctl' = "idle"
    /\ streaming' = TRUE
    /\ UNCHANGED <<buf, fd, mapped, leaked, quiet, trigger, frameWorker>>

(* The driver refuses VIDIOC_STREAMON, and keeps the buffers. *)
start_streamon_fails ==
    /\ Starting
    /\ k = mapped
    /\ ~streaming
    /\ k' = 0
    /\ next("close", "idle")
    /\ UNCHANGED <<device, trigger, frameWorker>>

(* V4L2_alvium_pipe::close stops the stream and asks for the software       *)
(* trigger, of which any ioctl may fail.                                    *)
close ==
    /\ ctl \in {"idle", "close"}
    /\ ctl' = "interrupt"
    /\ streamoff
    /\ \/ UNCHANGED <<trigOn, trigSource>>
       \/ fd /\ trigOn' = TRUE /\ trigSource' \in {trigSource, "software"}
    /\ agreed' = FALSE
    /\ UNCHANGED <<trigRising, mode, wanted, frameWorker, k>>

(* Variant: the worker is not told to end. *)
interrupt_forgotten ==
    /\ goto("interrupt", "join")
    /\ UNCHANGED <<device, trigger, keep, worker, held, k>>

interrupt ==
    /\ goto("interrupt", "join")
    /\ keep' = FALSE
    /\ UNCHANGED <<device, trigger, worker, held, k>>

(* Variant: the camera is closed without waiting for the worker. *)
join_skipped ==
    /\ goto("join", "unmap")
    /\ UNCHANGED <<device, trigger, frameWorker, k>>

join ==
    /\ goto("join", "unmap")
    /\ worker \in {"none", "finished"}
    /\ UNCHANGED <<device, trigger, frameWorker, k>>

(* Alvium_v4l2::close: STREAMOFF again, then the buffers are unmapped. *)
cam_unmap ==
    /\ goto("unmap", "release")
    /\ streaming' = FALSE
    /\ buf' = [b \in Buffers |-> "user"]
    /\ mapped' = 0
    /\ UNCHANGED <<fd, leaked, quiet, trigger, frameWorker, k>>

(* VIDIOC_REQBUFS of no buffers, and the file is closed. *)
cam_close ==
    /\ ctl \in {"release", "release_again"} /\ ctl' = "closed"
    /\ fd' = FALSE
    /\ UNCHANGED <<buf, streaming, mapped, leaked, quiet, trigger, frameWorker, k>>

(* VIDIOC_REQBUFS fails: the descriptor stays open, and the destructor of   *)
(* Alvium_v4l2 tries once more.                                             *)
cam_reqbufs_fails ==
    /\ fd
    /\ \/ goto("release", "release_again") \/ goto("release_again", "closed")
    /\ UNCHANGED <<device, trigger, frameWorker, k>>

-----------------------------------------------------------------------------

step(from, to) == worker = from /\ worker' = to

work_test ==
    /\ step("test", IF keep THEN "select" ELSE "finished")
    /\ UNCHANGED <<device, trigger, keep, held, control>>

(* select(): a filled buffer, or a stream that is off (POLLERR), makes the  *)
(* descriptor readable; otherwise it gives up after 250 ms.                 *)
work_select ==
    /\ worker = "select"
    /\ worker' = IF (~streaming \/ \E b \in Buffers : buf[b] = "done") THEN "dqbuf" ELSE "test"
    /\ UNCHANGED <<device, trigger, keep, held, control>>

work_dqbuf(b) ==
    /\ step("dqbuf", "cb")
    /\ streaming
    /\ buf[b] = "done"
    /\ buf' = [buf EXCEPT ![b] = "user"]
    /\ held' = b
    /\ UNCHANGED <<streaming, fd, mapped, leaked, quiet, trigger, keep, control>>

(* There is no filled buffer any more, or VIDIOC_DQBUF fails otherwise. *)
work_dqbuf_fails ==
    /\ step("dqbuf", "test")
    /\ UNCHANGED <<device, trigger, keep, held, control>>

(* The frame callback returns. *)
work_cb ==
    /\ step("cb", "qbuf")
    /\ UNCHANGED <<device, trigger, keep, held, control>>

(* wait_for_frame ends without having queued its buffer again. *)
dropHeld ==
    /\ leaked' = IF buf[held] = "user" THEN leaked \cup {held} ELSE leaked
    /\ held' = NoBuffer
    /\ UNCHANGED <<buf, streaming, fd, mapped, quiet, trigger, keep, control>>

(* The frame callback throws, and work() catches it. *)
work_cb_throws == step("cb", "test") /\ dropHeld

(* Variant: a buffer is not queued again after its callback. *)
work_qbuf_forgotten ==
    /\ step("qbuf", "test")
    /\ held' = NoBuffer
    /\ UNCHANGED <<device, trigger, keep, control>>

work_qbuf ==
    /\ step("qbuf", "test")
    /\ qbuf(held)
    /\ held' = NoBuffer
    /\ UNCHANGED <<trigger, keep, control>>

(* The driver owns the buffer already, since the stream was restarted       *)
(* during the callback, or VIDIOC_QBUF fails otherwise.                     *)
work_qbuf_fails == step("qbuf", "test") /\ dropHeld

work ==
    \/ work_test \/ work_select \/ work_dqbuf_fails
    \/ work_cb \/ work_cb_throws \/ work_qbuf \/ work_qbuf_fails
    \/ \E b \in Buffers : work_dqbuf(b)

startStep ==
    start_qbuf \/ start_qbuf_fails \/ start_streamon \/ start_streamon_fails

triggerStep == trigger_mode \/ trigger_source \/ trigger_activation \/ trigger_fails

closeStep == interrupt \/ join \/ cam_unmap \/ cam_close \/ cam_reqbufs_fails

initStep == init_camera \/ init_worker \/ init_unsupported

Next ==
    \/ initStep \/ call_on \/ call_off \/ close
    \/ \E m \in Modes : call_trigger(m)
    \/ startStep \/ triggerStep \/ closeStep \/ work
    \/ \E b \in Buffers : fill(b)

(* Both threads keep running; the driver need not deliver a frame, and      *)
(* nobody need close the camera.                                            *)
Spec ==
    /\ Init /\ [][Next]_vars
    /\ WF_vars(work) /\ WF_vars(initStep) /\ WF_vars(startStep) /\ WF_vars(triggerStep) /\ WF_vars(closeStep)

-----------------------------------------------------------------------------

(* Every variable has its type; a buffer is held exactly from DQBUF to the  *)
(* end of that round of the worker.                                         *)
TypeOK ==
    /\ buf \in [Buffers -> {"user", "queued", "done"}]
    /\ {streaming, fd, keep, trigOn, trigRising, agreed, quiet} \subseteq BOOLEAN
    /\ mapped \in 0 .. N
    /\ trigSource \in {"software", "line0"} /\ mode \in Modes /\ wanted \in Modes
    /\ worker \in {"none", "test", "select", "dqbuf", "cb", "qbuf", "finished"}
    /\ held \in Buffers \cup {NoBuffer}
    /\ held # NoBuffer <=> worker \in {"cb", "qbuf"}
    /\ ctl \in {"new", "init_trigger", "init_source", "init_edge", "init_worker", "init_qbuf",
                "trigger", "source", "edge", "on_qbuf", "idle", "close", "interrupt", "join",
                "unmap", "release", "release_again", "closed"}
    /\ k \in 0..N
    /\ leaked \subseteq Buffers

(* However much of the camera init managed to open and map, the descriptor  *)
(* is open as long as the worker may use it, and the buffer in its hands    *)
(* is one that init mapped and close has not unmapped.                      *)
WorkerHasDevice ==
    worker \in {"test", "select", "dqbuf", "cb", "qbuf"} => fd /\ (held # NoBuffer => held < mapped)

(* While the stream is on, no buffer drops out of circulation, whatever     *)
(* order start, stop and the worker's DQBUF and QBUF come in: the driver    *)
(* has every mapped buffer but the one in the worker's hands, and those     *)
(* that were lost to a callback that threw or a VIDIOC_QBUF that failed     *)
(* since they were last queued.                                             *)
BuffersCirculate ==
    streaming => \A b \in Buffers : b < mapped /\ buf[b] = "user" => b = held \/ b \in leaked

(* A stream that was stopped between two frames can be started again:       *)
(* start_streaming finds every buffer in the program's hands.  (Stopped     *)
(* during a callback it need not: the worker queues its buffer afterwards,  *)
(* and the next start stops there.)                                         *)
RestartWorks == quiet => \A b \in Buffers : buf[b] = "user"

(* After set_trigger_mode returned true the camera's trigger is in the mode *)
(* m_trigger_mode names, whatever earlier attempts left half done.          *)
TriggerAgrees == agreed => mode = wanted /\ TriggerMode = mode

(* "wait for frame with synchronous callback and V4L2 buffer de-queue /     *)
(* enqueue" (Alvium_v4l2.hpp:55): the driver does not own, and so does not  *)
(* write, the frame the callback is reading.                                *)
FrameStable == worker = "cb" => buf[held] = "user"

(* close() ends: the worker it joins sees its interruption. *)
CloseEnds == ctl = "interrupt" ~> ctl = "closed"
=============================================================================
