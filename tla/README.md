# A TLA+ model of opaleye

opaleye is the control program of an underwater camera: it builds GStreamer
pipelines for its cameras, records and streams their video, reads sensors, and
is controlled by requests that a web server forwards to it over FastCGI.  A
kernel module makes the cameras' trigger pulse.  This directory models the
parts of it where threads, callbacks, failures or arithmetic are hard to test,
checks them with TLC on small instances, and proves the most important facts
with TLAPS for all instances.  Paths below are relative to `src/`.

## The system and its models

| Part | Code | Modules |
|---|---|---|
| Life of the process: start-up, services, signals, shutdown, early returns | `opaleye/main.cpp`, `opaleye/Opaleye_app.cpp`, `opaleye/signal_handler.cpp`, `libs/http-bridge/http_fcgi_svr.cpp`, `opaleye/zeromq_api_svr.cpp`, `opaleye/zcm_api_svr.cpp` | `Startup` |
| Construction of pipelines | `opaleye/Opaleye_app.cpp` (`make_*_pipeline`) | `PipelineBuild` |
| The bins pipelines are made of | `libs/camera-pipes/pipeline/**` | `GstBins` |
| Pipelines and their main-loop threads | `libs/camera-pipes/pipeline/GST_app_base.*` | `GstApp` |
| Recording through JSON-RPC | `opaleye/Opaleye_app.cpp`, `opaleye/gst_filesink_pipeline.cpp`, `opaleye/http_req_jsonrpc.cpp`, `libs/http-bridge/http_fcgi_*.cpp` | `VideoCapture`, `Recorder` |
| Numbering of recorded files | `libs/camera-pipes/pipeline/storage/mp4_splitmuxsink.cpp` | `RecordingIndex` |
| RTP destinations | `libs/camera-pipes/pipeline/stream/multiudpsink_pipe.*` | `RtpClients` |
| Alvium camera: buffers, trigger modes, frame worker | `libs/camera-pipes/cameras/Alvium_v4l2.cpp`, `libs/camera-pipes/pipeline/camera/V4L2_alvium_pipe.cpp` | `AlviumStream` |
| Delivery of frames to HTTP clients and 0MQ subscribers | `libs/camera-pipes/pipeline/Thumbnail_*_pipe.*`, `libs/camera-pipes/pipeline/camera/nvac_imx219_pipe.cpp`, `libs/camera-pipes/pipeline/camera/V4L2_alvium_pipe.cpp`, `opaleye/http_req_jpeg.cpp`, `opaleye/zeromq_api_svr.cpp` | `FrameDelivery` |
| Probing of camera controls | `libs/camera-pipes/util/v4l2_util.cpp` | `V4l2Util` |
| Threads with interruption | `libs/opaleye-util/thread_base.*` | `ThreadBase` |
| Sensor thread, thermometer, barometer | `opaleye/sensor_thread.cpp`, `libs/sensors/TSYS01.cpp`, `libs/sensors/MS5837-30BA.cpp`, `libs/hal/i2c_linux.cpp` | `SensorThread` |
| Trigger pulse (kernel module) | `modules/opaleye_gpio/opaleye_gpio_main.c` | `OpaleyeGpio` |
| Trigger control from the program | `opaleye/Opaleye_gpio_mod_ctrl.cpp`, `opaleye/Opaleye_app.cpp` | `GpioControl` |
| timespec arithmetic | `libs/opaleye-util/chrono_util.cpp` | `ChronoUtil` |
| Table of request callbacks | `libs/opaleye-util/include/opaleye-util/path/Directory_tree*.hpp`, `libs/http-bridge/http_fcgi_svr.cpp` | `DirectoryTree` |

`PROJECT.json` lists every part with its status, every definition with the
lines it stands for, and the hazards of the code with the properties that
watch them.

How the parts interact: `main` (`Startup`) starts the sensor thread
(`SensorThread`, a `ThreadBase`) and the FastCGI workers, sets up the trigger
(`GpioControl` over `OpaleyeGpio` and `ChronoUtil`), and makes one pipeline per
camera (`PipelineBuild` over `GstBins`).  It then registers callbacks, partly
while the workers already look them up (`DirectoryTree`).  The JSON-RPC
callback takes `m_jsonrpc_mutex` and calls a handler of `Opaleye_app`, which
works on the map `m_pipelines` (`VideoCapture` over `GstApp`), on the RTP sink
(`RtpClients`) or on a camera (`AlviumStream`, `V4l2Util`).  A capture pipeline
contains the file sink (`RecordingIndex`).  Frames of the cameras and
thumbnails go to 0MQ subscribers and HTTP clients (`FrameDelivery`).  On SIGINT `main` stops the workers
first, then the pipelines, then the other services.

Composition follows the code: `VideoCapture` extends `GstApp`, `Startup`
extends `PipelineBuild` and `GstBins`, `GpioControl` extends `OpaleyeGpio` and
`ChronoUtil`, `SensorThread` extends `ThreadBase` and is shown to implement it,
and `VideoCapture` is shown to implement `Recorder`.

## Modules

`Startup` has main's position (`pc`), the pipeline being made (`cur`), the map
of pipelines, the registered URIs, the FastCGI server with one worker, the
services, and the signals pending and sent.  Every call of main that can fail
does so in some behaviour, `stop()` of the app and a request may also meet a
`quit()` or a notification that is lost and then hang, as in `GstApp`.  A failure
leads through the destructors of main's locals
in their order (`unwind_*`); `fault` remembers it.  `"terminated"` is
`std::terminate` or a null pointer.  `Configs` is any set of configurations,
`CamOrder` the order of the map of cameras.

`PipelineBuild` gives each `make_*_pipeline` as a recipe: the bins in the order
of `init()`, the links in the order of `link_back()`, the names stored.
`Reached` follows the links one by one, `LinkOutcome` says which are accepted
and `Fed` whether the ends get their medium from the camera.
`GstBins` gives each bin as a chain of elements, and an element as a function
from the medium it is offered to the media it can produce, so that a link that
GStreamer would refuse is refused in the model.  The elements are external: the
table gives each the role that the bins use it in, not all it could do.

`GstApp` holds one object per pipeline name.  A name is a camera and a nesting
depth, since `start_video_capture` accepts a capture's own name.  All main
loops run on the one default GLib context: the thread that owns it dispatches
everybody's bus messages, the others queue.  `VideoCapture` extends it with the
workers (`at`, `req`), the mutex, the map (`pipes`) and the main thread; every
blocking point and every unlocked read-then-wait of the code is a step of its
own, so notify-before-wait and quit-before-run can happen.  The history variable
`lost` records when they did.  `Serialised = FALSE` takes the JSON-RPC mutex
away, as `Opaleye_app.hpp:131` says is allowed.  `Recorder` is what recording
promises a client: begun, finished, closed, and cut off only by the shutdown.

`ThreadBase` splits `interrupt()` into its store and its notify, and a wait into
predicate, entry and wake-up.  `Timed` chooses the overload of
`wait_for_interruption`.  `SensorThread` puts one round of I2C transfers into
the loop's body.  Its lock objects lock nothing in the code, so a result is
published word by word; a measurement is known by its round modulo 2.

`RecordingIndex` keeps the set of files `<<camera, day, number>>`, each
camera's open capture and the clock's date; `crash`, `tick` and `remove` are the
environment.  `scanned` is what `%06u` reads back of a number that `{:06d}`
wrote.

`OpaleyeGpio` has the two timers as expiry times, the pin, the settings, and
writers whose read of `enabled` is separate from the part under the mutex.  Its
`life` runs from insmod, with its failing steps, to the freeing of the state.
`cut` remembers that a pulse was cut by a disable, `stuck` that a writer died
with the mutex.  `GpioControl` adds the program, which may be started again and
again, and the text in which the settings travel: `duration_text` is
`"%ld.%09ld"` with the weights of its digits in `Places`, `nsstr_to_ns` the
kernel's digit loop.

`ChronoUtil` has the timespec conversions as operators; `duration_cast` rounds
towards zero.

`RtpClients` splits a call into the sink's change, its signal and the wait of
five seconds.  The reference count and the moment of the signal belong to
GStreamer's multiudpsink and are modelled from how the code uses them.

`AlviumStream` has the owner of every V4L2 buffer, the camera's trigger
controls, the frame worker's position and one control thread: init, the
handlers (under the JSON-RPC mutex) and close never overlap.  Any call of the
driver may fail, for whatever reason.  `leaked` records the buffers lost to a
callback that threw or to a `VIDIOC_QBUF` that failed, `quiet` that the stream
was stopped between two frames.  `V4l2Util` has the probing of controls and
menus as operators.

`FrameDelivery` has every frame buffer with its mutex, the 0MQ socket with its
own, and the threads that meet at them: the appsink callbacks of thumbnail bins
and imx219 cameras, which copy in place, the frame worker of an Alvium camera,
which exchanges a pointer (in one critical section, or for XR24 in two), the
FastCGI workers, and main, which registers the callbacks while frames flow.  A
block of an image is the frame it came from, so an image shows what it was put
together from.  The frames come from outside, with the block counts of `Sizes`;
a multipart send of 0MQ sends nothing or all parts.

`DirectoryTree` is the set of node paths over `Names`; `main` inserts one node per step while
workers walk.  Each access to one node's `std::map` is atomic in the model; the
data race inside it is not.

Definitions called "Variant" show what a plausible mistake would be; no
specification uses them, and each breaks the property it is paired with in
`PROJECT.json`.

## Runs

| Run | Instance | What it shows |
|---|---|---|
| `video_capture` | 1 camera, 2 workers, depth 2; 124,968 states | `m_pipelines` is touched by one thread at a time and lists exactly the pipelines with a thread; a recording is finalised before it is taken down, except by `Opaleye_app::stop()`; the captures implement `Recorder`; `stop_video_capture` answers and SIGINT ends the program, unless a notify or a quit came too early |
| `startup` | 0 to 2 cameras, every type, mode and set of services; 289,478 states | when main serves, every camera has a playing pipeline fed by it; a handler's pipeline is alive; a return of 0 has joined and destroyed everything; no order of requests and signals alone brings the process down; all recordings are of the first camera; a SIGINT sent at any time ends the process, unless one of the signals between its threads was lost (see below) |
| `recording_index` | 1 camera, 2 days, numbers to 5; 211,200 states | no recording is overwritten while numbers have at most six digits |
| `sensors` | 4,475 states | a pressure comes from one conversion of each kind; what is served was measured; the thread implements `ThreadBase` and ends only when interrupted; stopping it ends |
| `opaleye_gpio` | 4 requests, 3 settings, a second of 100 ticks; 1,341,203 states | the trigger has the configured settings after init; timers follow `enabled`, pulses are separate, the first one is on the second |
| `rtp_clients` | 2 callers, 2 clients; 2,824 states | `m_active_conn` follows the sink, answers are true, calls return |
| `alvium_stream` | 3 buffers; 133,878 states | the worker never uses a closed device or an unmapped buffer, buffers circulate, a stopped stream restarts, the trigger is as last set, close ends; probing finds exactly the controls and menu entries |
| `directory_tree` | 4 routes, 7 paths, 1 worker; 19,416 states | look-ups during registration find what they should |
| `frames` | 1 thumbnail bin, 1 imx219 and 1 Alvium camera, 2 workers, a frame of two blocks and then one of one; 1,037,340 states | an HTTP client gets one whole image, not older than the request; a 0MQ message has the parts of one frame of one camera; no frame goes out twice or late; a mutex is only held in its critical section, and no thread that holds one waits for another in a circle |

`ProbeIsExact` is about operators only; it is evaluated in the initial states,
hence its guard.

Three runs end in a violation, each a place where the code does not do what a
comment says:

* `opaleye_gpio_edge`: `enabled` is read before the mutex is taken.  Two writers,
  of 0 and of 1, read it as off; the second turns the trigger on and starts the
  timers; the first then turns it off, a change it did not see, and leaves them
  running.
* `opaleye_gpio_free`: a store during rmmod, after the timers were cancelled and
  before the files are removed, leaves timers queued on freed state.
* `alvium_frame`: streaming off and on during a frame callback gives the
  driver the frame that is being read.

Four more observations need one change of a configuration to see, and concern
code that is unreachable or protected today:

* `Serialised = FALSE` in `VideoCapture.cfg` takes `m_jsonrpc_mutex` away, and
  `PipelinesExclusive` fails: `start_video_capture` finds, makes and inserts
  without a lock, although `Opaleye_app.hpp:131` asks for "MT safe".
* `Serialised = FALSE` in `RtpClients.cfg`: `AnswersAreTrue` fails, when an
  added signal is handled after a later removed signal.
* `Timed = FALSE` in `SensorThread.cfg`: TLC reports a deadlock of the worker
  and main's join (with `CHECK_DEADLOCK FALSE`, that `SensorStops` fails).  The notify
  of `interrupt()` ("MT safe") can fall between the predicate and the wait of
  the untimed `wait_for_interruption`, which nothing in the repository calls.
* `ParentIsFound` added to `DirectoryTree.cfg` fails: the parent look-up tries
  only the node where the walk broke off, where `Directory_tree_tests.cpp:42`
  says "parent path gets last parent".

What the models say about the code besides, each visible in an exception a
property makes or in a definition.  Where the code does go wrong, the property
excepts exactly that case, and so does not watch it:

* Lost signals: a notify of the EOS handler between the predicate and the wait
  of `wait_pipeline_eos` (`GST_app_base.cpp:66`), a `quit()` before the loop's
  thread is in `run()` (`:50`), and `m_zcm->stop()` before the ZCM thread is in
  `run()` (`zcm_api_svr.cpp:103`) have no effect, and what waits for them waits
  for ever, a shutdown included.  `StopAnswers`, `ShutdownEnds` and `SigintEnds`
  say that nothing else does.
* Recording: a file number of more than six digits is read back as its first
  six, and numbering falls back (`mp4_splitmuxsink.cpp:70`); `NumbersGrow`
  speaks of directories below that.
* Start-up: an unknown camera type, a second camera with the name of an earlier
  pipeline, a brio camera without `nv` mode, and a 0MQ frame callback on a
  camera that has none end in `std::terminate` (`Supported`); a bin whose
  `init()` fails does too, as a joinable thread is destroyed.  `get_pipeline_status` without
  a `pipe0` dereferences a null pointer (`Opaleye_app.cpp:973`).  A failed
  `fcgi_svr.start` goes unnoticed (`main.cpp:237`).  After an early `return -1`
  the app is destroyed before the FastCGI server whose handlers use it;
  `HandlerTargetAlive` and `OrderlyExit` speak of the other ways through main.  Every
  recording listens to `h264_ipsink_0`, the node of the first camera.
* Trigger: `configure()` answers true when the module refused the settings or
  could not parse them (negative fractional times).  The program does not
  disable the trigger when it ends.  A disable in mid-pulse leaves the pins high
  (`cut`).  A store during insmod, before `g_gpio_state` is set, kills its writer
  with the mutex held (`stuck`).
* Sensors: until the first barometer sample succeeds an uninitialised result is
  published (`sensor_thread.cpp:82`).  The lock objects at `:113` and at
  `sensor_thread.hpp:29` and `:35` are given no mutex and lock nothing; the HTTP
  handler serves single fields.  `temperature/sensors/1` answers 503, though
  `README_json_rest.md:9` lists it.
* Cameras: the first query of `v4l2_probe_ctrl` has no `NEXT_CTRL` flag, so a
  device without `V4L2_CID_BASE` shows no controls (`v4l2_util.cpp:674`).  The
  pipe's own `v4l2_util` is never probed, so the limits of automatic exposure
  and gain cannot be set, nor the controls of a webcam.  "Off" during a frame callback makes the next "on"
  fail until another "off".

## Bounds

Two workers suffice for a conflict between two handlers; a camera and its
captures share the GLib context as two cameras would; depth 2 is the first
nested capture.  Two cameras are enough for a name clash and for the order of
`m_pipelines`; each of the three signals is sent at most once, since a pending
signal does not accumulate.  `Limit = 4`, `Base = 2`, `MaxIndex = 5` put
numbers on both sides of the scan limit.  A second of 100 ticks gives a time
two digits, the least in which their order matters; the clock runs for two
seconds and the settings include a `t0` in the past and a width equal to the
period; the requests include one the module cannot parse.  Each RTP client can
be added twice, the first count at which a remove leaves it.  Three buffers are
what the code asks for; the driver may grant fewer.  Rounds of the sensor
thread are told apart modulo 2, which shows a mixture of two successive rounds.
A frame of two blocks followed by one of one block shows both a mixture and the
rest of a longer frame; two cameras are enough to compete for the socket.
The paths have up to three elements: a file, its directory and the one above.
No symmetry is used.

Deadlock is not checked where the program may stop: after main has returned,
after the process died, after a lost signal, when a camera is closed, when all
routes are registered, at the end of the modelled clock.

## Fairness

Weak fairness of each started thread and of GStreamer delivering an EOS through
a playing pipeline: the operating system schedules runnable threads, and timed
waits end.  In `Startup`, main, a handler that runs, and the ZCM run thread; in
`SensorThread`, the worker and main once it has begun to stop it.  Nobody has to
call a handler, send a signal, launch, interrupt or close, and neither the camera
driver has to deliver a frame nor a bus transfer to succeed.

## Proofs

Every safety property of the passing runs but those of `frames` is also proved,
for every value of the constants.  The assumptions are the named `ASSUME`s of the modules, and
where said `Serialised` (the handlers are called under `m_jsonrpc_mutex`, as
`http_req_jsonrpc` does), `OneWriter` (one process writes the trigger's sysfs
files, as when only opaleye does) or `RequestsAreSettings` (the program asks for
settings that `OpaleyeGpio` allows a writer, or for a time that is not parsed).
Few of the properties are inductive; what each needs besides is this.

* `VideoCapture_proofs`, for every set of cameras and workers and every depth,
  all assuming `Serialised`: `PipelinesAreGuarded`, `CaptureSafety`,
  `RecordingsFinalised` and `RecorderImplemented`.  `IInv` adds to
  `PipelinesExclusive` and `MapMatchesPipelines` what is known of the pipeline
  a handler is starting or stopping (`StarterInv`, `StopperInv`) and of the one
  `Opaleye_app::stop()` is joining (`MainInv`), with one lemma per action.  The
  refinement needs in addition where an EOS can come from (`EosInv`); each step
  is then a step of `Recorder` or leaves its variables alone.
  `RecordingsKeepGrowing` is about `RecordingIndex`, for every limit and
  history: an open capture's next number is above every scannable number of its
  directory (`NextIsFresh`).
* `PipelineBuild_proofs` has the lemmas about bins and recipes.  `Flow` and
  `Reached` are recursive functions; their steps are derived from the
  definition (`FlowSteps`, `ReachSteps`).  From them follows what each bin
  makes of any media (`CameraBins` to `SinkBins`).  For each recipe the proof
  gives the medium that is wanted behind every bin (`AlviumWant`,
  `Imx219Want`, ...) and shows that the links carry it there (`Carries`): each
  bin is fed before it feeds another, and makes of what it is fed what is
  wanted of it.  `RecipesLinked` sums up: all links are accepted, except for a
  brio camera on the CPU, and then all ends are fed.
* `Startup_proofs`, for every list of cameras and every set of configurations:
  `StartupTypes`, `ServingCameras`, `HandlersAreSafe`, `ExitIsOrderly`,
  `CrashesAreExplained` and `FirstCameraIsRecorded`.  The
  invariant has six parts.  The pipeline in the making is as far as its recipe,
  with its first links accepted (`CurInv`).  The pipelines in the map are the
  cameras' up to the current one, linked throughout, in the state that main's
  position says (`PipesInv`).  The interpipe node is the first camera's as soon
  as that has been through its `init()` (`NodeInv`).  A URI is registered only
  for a pipeline in the map, and nothing is being served once the workers are
  joined (`HttpInv`).  The services run between their start and their stop or
  destructor (`ServiceInv`).  A call that failed is in `fault`, and main unwinds
  only after one (`CauseInv`).  Each part is kept by every step, given all six;
  `RecipesLinked` turns "linked" into "fed".
* `AlviumStream_proofs`, for every number of buffers: `WorkerIsSafe`,
  `StreamSafety` and `StoppedCanRestart`, from how far `start_streaming` has
  queued (`QueuedSoFar`), that nothing runs before launch and after join
  (`WorkerIsGone`) and that a quiet stream's worker holds nothing
  (`QuietIsIdle`); `TriggerIsAsSet`, from what `set_trigger_mode` has done
  before each of its ioctls (`TriggerSoFar`).  `ProbingIsExact` is
  about `V4l2Util`: the walk over the controls finds
  the one it is at and all later ones (`ScanFindsTheRest`), the loop over a menu
  the valid indices on its way, for any range, step and entries (`MenuIsExact`).
* `SensorThread_proofs`: `ThreadSafety` of `ThreadBase`, for any interrupters
  and both waits, inductive with the types because a launch needs a thread that
  is not joinable and then there is no worker.  `SensorTypes`;
  `PressureFromBothConversions`, from what the ADC and the locals hold at each
  place of a round (`ConversionInv`); `MeasurementsAreSound`, from `baro_result`
  surviving the rounds (`ResultInv`); and `SensorIsThreadBase`, the safety part of `ImplementsThreadBase`.
* `GpioControl_proofs`, for every length of the second and all settings:
  `FirstPulseIsOnTheSecond` with any number of writers, from lemmas about
  rounding up to a second.  Assuming `OneWriter`, `OneWriterIsConsistent`: what
  the writer read of `enabled` is still true when it has the mutex
  (`SeenIsEnabled`), so the timers follow (`TimersFollow`); and
  `PulsesAreSeparate`: the two timers stay on one grid, a width apart
  (`TrainInv`), through any forwarding.  `TextRoundTrip`: after i digits the
  kernel has the number cut off at the i-th place (`Expected`).  With it
  `TriggerIsConfigured`: during init no other process writes, and a disabled
  trigger takes the settings and keeps them (`OnlyAppWrites`, `SettingsTaken`).
  `ControlIsAWriter` (assuming `RequestsAreSettings`): the composition refines
  `OpaleyeGpio`.  `ConversionRoundTrip`, `AdditionIsExact` and
  `ConversionIsNormalised` are about `ChronoUtil`, for every duration.
* `RtpClients_proofs`, for any callers, clients and counts, assuming
  `Serialised`: `ActiveIsSink` and `AnswersTellTheTruth`; while a signal is on
  its way `m_active_conn` is exactly one client behind the sink (`OneBehind`).
* `DirectoryTree_proofs`, for any workers, names, paths and routes:
  `TreeIsConnected`, `CallbacksAreForTheirPath` and `RegisteredAreFound`.  A
  worker's place is a prefix of its URI (`LookupInv`), and nodes are never
  removed, so a path that was there when the look-up began is walked to its end.

Where a proof goes by induction, over digits, controls, links or path elements,
it takes the least number at which the claim fails (`LeastNumber`, from the
well-foundedness of the naturals) and refutes it.

Model-checked only: the liveness properties `StopAnswers`, `ShutdownEnds`,
`SigintEnds`, `SensorStops`, `CallReturns` and
`CloseEnds`, and the fairness half of `ImplementsThreadBase`: fairness is out
of the prover's reach; and the four invariants of `frames`.  `ProbeIsExact`
quantifies over the devices of the run, so its theorem does too.  The three violated properties
have counterexamples instead of proofs.

## Not modelled, and why

* The compensation arithmetic of the sensors: its intermediate values do not
  fit TLC's 32-bit integers, and part of it is floating point.  The thermal
  zones, whose values are read and dropped.  The drivers BH1750, TCS3400 and
  VEML7700 are empty files.
* The configuration's translation to and from XML, HTTP text helpers, response
  bodies, JSON and base64, logging and graph dumps: text.  A configuration is a
  value in `Startup`, and loading it succeeds or fails.  (`Opaleye_config.cpp:113`
  stores `nvpmodel_mode` under `sensors.launch` when it serialises, which only a
  test does.  The shipped `config.xml` lacks `<zcm>` and `config_dual_imx.xml`
  lacks `<zeromq>` and `<zcm>`, and loading throws for both.)
* Element properties and caps other than the medium; exposure, gain and image
  format of a camera: one property or ioctl each, without state of the program.
* The message of the ZCM heartbeat.  The setting of camera controls: one look-up
  and one ioctl.  The HTTP resources of the sensors: a table.  The bins no
  pipeline of the program uses (mkv sink, frame grab, display, two of the
  thumbnail bins) and the MJPEG test application.
* That every frame reader eventually gets its mutex: mutexes are not fair.
  `HoldersGoOn` says what the code can do for it.
* The still capture, which always throws, with `gst_framesink_pipeline`, which
  nothing makes; `remove_all_clients`, which nothing calls; the GPIO thread,
  which is compiled out; the property library and the stopwatch, plain data.
* In the kernel module the show functions, and a failing `kthread_run`, which
  the code compares with NULL although it returns an error pointer.
* Memory-model effects below the level of one variable access, and the data
  races inside one `std::map` operation.
