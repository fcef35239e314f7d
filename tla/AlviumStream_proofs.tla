------------------------ MODULE AlviumStream_proofs -------------------------
(* Theorems about AlviumStream, for every number of buffers, and about the  *)
(* probe of V4l2Util.                                                       *)
EXTENDS MCAlviumStream, WellFoundedInduction, TLAPS

(* The buffers start_streaming has queued stay in circulation while it      *)
(* queues the others, so the stream starts with all of them; it begins with *)
(* the first.  The driver is given mapped buffers only.                     *)
QueuedSoFar ==
    /\ ~Starting => k = 0
    /\ Starting => \A b \in Buffers : b < k /\ buf[b] = "user" => b = held \/ b \in leaked
    /\ \A b \in Buffers : buf[b] # "user" => b < mapped

(* Once the worker is joined, and before it is launched, nothing runs; it   *)
(* is launched for a camera that took its trigger mode, and so is open.     *)
WorkerIsGone ==
    /\ ctl \in {"new", "init_trigger", "init_source", "init_edge", "init_worker", "unmap", "release",
                "release_again", "closed"} => worker \in {"none", "finished"}
    /\ ctl \in {"init_source", "init_edge", "init_worker"} => fd
    /\ ctl = "new" => mapped = 0 /\ ~streaming

(* While the stream is quiet the worker has no buffer to queue, and nobody  *)
(* starts it.                                                               *)
QuietIsIdle == quiet => held = NoBuffer /\ ~Starting

(* What set_trigger_mode has done when it gets to its later ioctls.         *)
TriggerSoFar ==
    /\ SettingTrigger => ~agreed
    /\ ctl \in {"init_source", "source"} => trigOn /\ wanted \in {"sw", "hw"}
    /\ ctl \in {"init_edge", "edge"} => trigOn /\ trigSource = "line0" /\ wanted = "hw"

StreamInv == TypeOK /\ WorkerHasDevice /\ BuffersCirculate /\ RestartWorks /\ QueuedSoFar
             /\ WorkerIsGone /\ QuietIsIdle

TriggerInv == TriggerSoFar /\ TriggerAgrees

(* NoBuffer is no buffer. *)
LEMMA NoBufferIsNone ==
    NoBuffer \notin Buffers /\ N \in Nat /\ \A b \in Buffers : b \in Nat /\ b < N
  BY NAssumption DEF Buffers, NoBuffer

(* Before init nothing runs and the stream is off. *)
LEMMA InitStream == Init => StreamInv
<1> SUFFICES ASSUME Init PROVE StreamInv
  OBVIOUS
<1>1. {streaming, fd, keep, trigOn, trigRising, agreed, quiet} \subseteq BOOLEAN
  BY Zenon DEF Init
<1>2. buf \in [Buffers -> {"user", "queued", "done"}] /\ \A b \in Buffers : buf[b] = "user"
  BY DEF Init
<1>3. k \in 0 .. N /\ mapped \in 0 .. N /\ leaked \subseteq Buffers /\ held \in Buffers \cup {NoBuffer}
  BY NoBufferIsNone DEF Init
<1>4. TypeOK
  BY <1>1, <1>2, <1>3 DEF Init, TypeOK
<1>5. ~streaming /\ worker = "none" /\ ctl = "new" /\ k = 0 /\ held = NoBuffer /\ mapped = 0
  BY Zenon DEF Init
<1> QED
  BY <1>2, <1>4, <1>5 DEF StreamInv, WorkerHasDevice, BuffersCirculate, RestartWorks, QueuedSoFar,
     WorkerIsGone, QuietIsIdle, Starting

(* No step of the control thread disturbs StreamInv. *)
LEMMA ControlKeeps ==
    ASSUME StreamInv,
           initStep \/ call_on \/ call_off \/ close \/ startStep \/ closeStep
    PROVE  StreamInv'
<1> USE NoBufferIsNone DEF StreamInv, TypeOK, WorkerHasDevice, BuffersCirculate, RestartWorks, QueuedSoFar,
        WorkerIsGone, QuietIsIdle, Starting, InInit, next, goto, device, trigger, frameWorker, control
<1>1. CASE init_camera
  <2>1. ({streaming, fd, keep, trigOn, trigRising, agreed, quiet} \subseteq BOOLEAN)'
    BY <1>1, Zenon DEF init_camera, cam_open
  <2> QED
    BY <1>1, <2>1 DEF init_camera, cam_open, cam_init, mmap_buffer
<1>2. CASE init_worker
  <2>1. ({streaming, fd, keep, trigOn, trigRising, agreed, quiet} \subseteq BOOLEAN)'
    BY <1>2, Zenon DEF init_worker
  <2> QED
    BY <1>2, <2>1 DEF init_worker
<1>3. CASE init_unsupported
  BY <1>3 DEF init_unsupported
<1>4. CASE call_on
  <2>1. ({streaming, fd, keep, trigOn, trigRising, agreed, quiet} \subseteq BOOLEAN)'
    BY <1>4, Zenon DEF call_on
  <2> QED
    BY <1>4, <2>1 DEF call_on
<1>5. CASE call_off
  BY <1>5, Zenon DEF call_off, streamoff
<1>6. CASE close
  BY <1>6, ZenonT(60) DEF close, streamoff
<1>7. CASE start_qbuf
  <2>1. k \in Buffers
    BY <1>7 DEF start_qbuf, Buffers
  <2>2. \A b \in Buffers : b < k + 1 => b < k \/ b = k
    BY DEF Buffers
  <2> QED
    BY <1>7, <2>1, <2>2 DEF start_qbuf, qbuf
<1>8. CASE start_qbuf_fails
  BY <1>8 DEF start_qbuf_fails
<1>9. CASE start_streamon
  BY <1>9 DEF start_streamon
<1>10. CASE start_streamon_fails
  BY <1>10 DEF start_streamon_fails
<1>11. CASE interrupt
  BY <1>11, ZenonT(60) DEF interrupt
<1>12. CASE join
  BY <1>12 DEF join
<1>13. CASE cam_unmap
  BY <1>13, Zenon DEF cam_unmap
<1>14. CASE cam_close
  BY <1>14, Zenon DEF cam_close
<1>15. CASE cam_reqbufs_fails
  BY <1>15 DEF cam_reqbufs_fails
<1> QED
  BY <1>1, <1>2, <1>3, <1>4, <1>5, <1>6, <1>7, <1>8, <1>9, <1>10, <1>11, <1>12, <1>13, <1>14, <1>15
  DEF initStep, startStep, closeStep

(* Nor does a step of set_trigger_mode. *)
LEMMA TriggerKeeps ==
    ASSUME StreamInv, triggerStep \/ \E m \in Modes : call_trigger(m)
    PROVE  StreamInv'
<1> USE NoBufferIsNone DEF StreamInv, TypeOK, WorkerHasDevice, BuffersCirculate, RestartWorks, QueuedSoFar,
        WorkerIsGone, QuietIsIdle, Starting, SettingTrigger, InInit, next, goto, trigger_set,
        device, trigger, frameWorker, Modes
<1>1. CASE trigger_mode
  <2>1. ({streaming, fd, keep, trigOn, trigRising, agreed, quiet} \subseteq BOOLEAN)'
    BY <1>1, Zenon DEF trigger_mode
  <2> QED
    BY <1>1, <2>1, SMTT(20) DEF trigger_mode
<1>2. CASE trigger_source
  BY <1>2, ZenonT(60) DEF trigger_source
<1>3. CASE trigger_activation
  BY <1>3 DEF trigger_activation
<1>4. CASE trigger_fails
  BY <1>4 DEF trigger_fails
<1>5. ASSUME NEW m \in Modes, call_trigger(m) PROVE StreamInv'
  <2>1. ({streaming, fd, keep, trigOn, trigRising, agreed, quiet} \subseteq BOOLEAN)'
    BY <1>5, Zenon DEF call_trigger
  <2> QED
    BY <1>5, <2>1 DEF call_trigger
<1> QED
  BY <1>1, <1>2, <1>3, <1>4, <1>5 DEF triggerStep

(* Nor does a step of the frame worker or of the driver. *)
LEMMA WorkKeeps ==
    ASSUME StreamInv, work \/ \E b \in Buffers : fill(b)
    PROVE  StreamInv'
<1> USE NoBufferIsNone DEF StreamInv, TypeOK, WorkerHasDevice, BuffersCirculate, RestartWorks, QueuedSoFar,
        WorkerIsGone, QuietIsIdle, Starting, step, device, trigger, frameWorker, control
<1>1. CASE work_test
  BY <1>1 DEF work_test
<1>2. CASE work_select
  BY <1>2 DEF work_select
<1>3. ASSUME NEW b \in Buffers, work_dqbuf(b) PROVE StreamInv'
  BY <1>3 DEF work_dqbuf
<1>4. CASE work_dqbuf_fails
  BY <1>4 DEF work_dqbuf_fails
<1>5. CASE work_cb
  BY <1>5 DEF work_cb
<1>6. CASE work_cb_throws \/ work_qbuf_fails
  BY <1>6 DEF work_cb_throws, work_qbuf_fails, dropHeld
<1>7. CASE work_qbuf
  BY <1>7, ZenonT(60) DEF work_qbuf, qbuf
<1>8. ASSUME NEW b \in Buffers, fill(b) PROVE StreamInv'
  BY <1>8 DEF fill
<1> QED
  BY <1>1, <1>2, <1>3, <1>4, <1>5, <1>6, <1>7, <1>8, Zenon DEF work

(* Every step keeps what set_trigger_mode has done and agreed on. *)
LEMMA NextTrigger ==
    ASSUME TypeOK, TriggerInv, [Next]_vars
    PROVE  TriggerInv'
<1> USE DEF TypeOK, TriggerInv, TriggerSoFar, TriggerAgrees, TriggerMode, SettingTrigger
<1>1. CASE trigger_mode
  BY <1>1 DEF trigger_mode, trigger_set, next, InInit, Modes
<1>2. CASE trigger_source
  BY <1>2 DEF trigger_source, trigger_set, next, InInit
<1>3. CASE trigger_activation
  BY <1>3 DEF trigger_activation, trigger_set, next, InInit
<1>4. CASE trigger_fails
  BY <1>4 DEF trigger_fails, next, InInit, trigger
<1>5. ASSUME NEW m \in Modes, call_trigger(m) PROVE TriggerInv'
  BY <1>5 DEF call_trigger, goto
<1>6. CASE init_camera
  BY <1>6 DEF init_camera, goto
<1>7. CASE close
  BY <1>7 DEF close
<1>8. CASE UNCHANGED <<trigger, ctl>>
  BY <1>8 DEF trigger
<1>9. CASE UNCHANGED trigger /\ ctl' \notin {"init_trigger", "trigger", "init_source", "source", "init_edge", "edge"}
  BY <1>9 DEF trigger
<1>10. CASE init_worker \/ init_unsupported \/ call_on \/ call_off \/ startStep \/ closeStep
  BY <1>8, <1>9, <1>10 DEF init_worker, init_unsupported, call_on, call_off, startStep, closeStep,
     start_qbuf, start_qbuf_fails, start_streamon, start_streamon_fails, interrupt, join, cam_unmap,
     cam_close, cam_reqbufs_fails, goto, next, InInit, control
<1>11. CASE work \/ \E b \in Buffers : fill(b)
  BY <1>8, <1>11 DEF work, work_test, work_select, work_dqbuf, work_dqbuf_fails, work_cb, work_cb_throws,
     work_qbuf, work_qbuf_fails, dropHeld, fill, control
<1>12. CASE UNCHANGED vars
  BY <1>8, <1>12 DEF vars, trigger
<1> QED
  BY <1>1, <1>2, <1>3, <1>4, <1>5, <1>6, <1>7, <1>10, <1>11, <1>12 DEF Next, initStep, triggerStep

(* Every step keeps StreamInv. *)
LEMMA NextStream ==
    ASSUME StreamInv, [Next]_vars
    PROVE  StreamInv'
<1>1. CASE UNCHANGED vars
  BY <1>1 DEF vars, StreamInv, TypeOK, WorkerHasDevice, BuffersCirculate, RestartWorks, QueuedSoFar,
              WorkerIsGone, QuietIsIdle, Starting
<1> QED
  BY <1>1, ControlKeeps, TriggerKeeps, WorkKeeps DEF Next

(* The invariant holds of every stream. *)
LEMMA AlwaysStream == Spec => []StreamInv
<1>1. StreamInv /\ [Next]_vars => StreamInv'
  BY NextStream
<1> QED
  BY InitStream, <1>1, PTL DEF Spec

(* Whatever part of the camera init could open and map, and whatever order  *)
(* start, stop, close and the worker's steps come in: the worker never      *)
(* touches a closed device or an unmapped buffer.                           *)
THEOREM WorkerIsSafe == Spec => []WorkerHasDevice
<1>1. StreamInv => WorkerHasDevice
  BY DEF StreamInv
<1> QED
  BY <1>1, AlwaysStream, PTL

(* No buffer drops out of circulation while the stream is on, whichever     *)
(* ioctls fail, but by a callback that throws or a VIDIOC_QBUF that fails.  *)
THEOREM StreamSafety == Spec => [](TypeOK /\ BuffersCirculate)
<1>1. StreamInv => TypeOK /\ BuffersCirculate
  BY DEF StreamInv
<1> QED
  BY <1>1, AlwaysStream, PTL

(* A stream that was stopped between two frames can be started again: the   *)
(* driver holds no buffer that start_streaming would queue a second time.   *)
THEOREM StoppedCanRestart == Spec => []RestartWorks
<1>1. StreamInv => RestartWorks
  BY DEF StreamInv
<1> QED
  BY <1>1, AlwaysStream, PTL

(* A trigger mode that was set is the camera's, whatever earlier attempts   *)
(* left half done.                                                          *)
THEOREM TriggerIsAsSet == Spec => []TriggerAgrees
<1>1. Init => StreamInv /\ TriggerInv
  BY InitStream, Zenon DEF Init, TriggerInv, TriggerSoFar, TriggerAgrees, SettingTrigger
<1>2. (StreamInv /\ TriggerInv) /\ [Next]_vars => (StreamInv /\ TriggerInv)'
  BY NextStream, NextTrigger DEF StreamInv
<1>3. StreamInv /\ TriggerInv => TriggerAgrees
  BY DEF TriggerInv
<1> QED
  BY <1>1, <1>2, <1>3, PTL DEF Spec
-----------------------------------------------------------------------------
(* V4l2Util. *)

(* Induction over numbers, as the least element of a set of them. *)
LEMMA LeastNumber ==
    ASSUME NEW T \in SUBSET Nat, T # {}
    PROVE  \E m \in T : \A n \in T : m <= n
<1> DEFINE R == OpToRel(<, Nat)
<1>1. IsWellFoundedOn(R, Nat)
  BY NatLessThanWellFounded, Zenon
<1>2. \A a, b \in Nat : a < b => <<a, b>> \in R
  BY DEF OpToRel
<1> HIDE DEF R
<1>3. PICK m \in T : \A n \in T : ~(<<n, m>> \in R)
  BY <1>1, WFMin, Zenon
<1>4. ASSUME NEW n \in T PROVE m <= n
  <2>1. m \in Nat /\ n \in Nat /\ ~(<<n, m>> \in R)
    BY <1>3
  <2> QED
    BY <1>2, <2>1
<1> QED
  BY <1>4

(* A control and all that come after it. *)
FromOn(cam, id) == {id} \cup {c \in cam : c > id}

ScanStep(cam, f, id) ==
    LET later == {c \in cam : c > id}
    IN  {id} \cup IF later = {} THEN {} ELSE f[Min(later)]

(* The next control of the device, where there is one. *)
LEMMA NextControl ==
    ASSUME NEW cam \in SUBSET Controls, NEW id \in Controls, {c \in cam : c > id} # {}
    PROVE  LET m == Min({c \in cam : c > id})
           IN  m \in cam /\ m > id /\ m \in Controls /\ FromOn(cam, m) = {c \in cam : c > id}
<1> DEFINE later == {c \in cam : c > id}
           m == Min(later)
<1>0. id \in Nat /\ \A c \in cam : c \in Nat
  BY DEF Controls
<1>1. later \in SUBSET Nat /\ later \subseteq cam
  BY <1>0, Zenon
<1>2. \E x \in later : \A y \in later : x <= y
  <2> HIDE DEF later
  <2>1. later # {}
    BY DEF later
  <2> QED
    BY <1>1, <2>1, LeastNumber
<1>3. m \in later /\ \A y \in later : m <= y
  <2> HIDE DEF later
  <2> QED
    BY <1>2 DEF Min
<1> HIDE DEF m
<1>4. FromOn(cam, m) = later
  <2>1. m \in cam /\ m \in Nat /\ m > id
    BY <1>0, <1>3
  <2>2. ASSUME NEW c \in cam PROVE c > id <=> c = m \/ c > m
    <3>1. c \in Nat
      BY <1>0
    <3>2. c > id => m <= c
      BY <1>3
    <3> QED
      BY <1>0, <2>1, <3>1, <3>2
  <2> QED
    BY <2>1, <2>2, Zenon DEF FromOn
<1> QED
  BY <1>1, <1>3, <1>4 DEF m

(* From a control on, the loop of v4l2_probe_ctrl finds all that follow. *)
LEMMA ScanFindsTheRest ==
    ASSUME NEW cam \in SUBSET Controls, NEW id \in Controls
    PROVE  scan(cam)[id] = FromOn(cam, id)
<1> DEFINE Eq(f) == f = [i \in Controls |-> ScanStep(cam, f, i)]
           sol == [i \in Controls |-> FromOn(cam, i)]
           got == scan(cam)
<1>1. got = CHOOSE f : Eq(f)
  BY DEF scan, ScanStep
<1>2. ASSUME NEW i \in Controls PROVE FromOn(cam, i) = ScanStep(cam, sol, i)
  <2>1. CASE {c \in cam : c > i} = {}
    BY <2>1 DEF FromOn, ScanStep
  <2>2. CASE {c \in cam : c > i} # {}
    <3> DEFINE m == Min({c \in cam : c > i})
    <3>1. m \in Controls /\ FromOn(cam, m) = {c \in cam : c > i}
      BY <2>2, NextControl
    <3>2. sol[m] = FromOn(cam, m)
      BY <3>1
    <3>3. ScanStep(cam, sol, i) = {i} \cup sol[m]
      BY <2>2 DEF ScanStep
    <3> HIDE DEF m
    <3> QED
      BY <3>1, <3>2, <3>3 DEF FromOn
  <2> QED
    BY <2>1, <2>2
<1>3. Eq(sol)
  BY <1>2
<1> HIDE DEF Eq, sol, got
<1>4. Eq(got)
  BY <1>1, <1>3
<1>5. \A i \in Controls : got[i] = ScanStep(cam, got, i)
  BY <1>4 DEF Eq
<1> DEFINE T == {n \in Controls : got[10 - n] # FromOn(cam, 10 - n)}
<1>6. T = {}
  <2>1. SUFFICES ASSUME T # {} PROVE FALSE
    OBVIOUS
  <2>2. \E n \in T : \A l \in T : n <= l
    <3>1. T \in SUBSET Nat
      BY DEF Controls
    <3> HIDE DEF T
    <3> QED
      BY <2>1, <3>1, LeastNumber
  <2> PICK n \in T : \A l \in T : n <= l
    BY <2>2
  <2> DEFINE i == 10 - n
  <2>3. i \in Controls /\ got[i] # FromOn(cam, i)
    BY DEF Controls
  <2>4. \A j \in Controls : j > i => got[j] = FromOn(cam, j)
    <3>1. ASSUME NEW j \in Controls, j > i PROVE got[j] = FromOn(cam, j)
      <4>1. 10 - j \in Controls /\ 10 - j < n /\ 10 - (10 - j) = j
        BY <3>1 DEF Controls
      <4>2. 10 - j \notin T
        BY <4>1 DEF Controls
      <4> QED
        BY <4>1, <4>2
    <3> QED
      BY <3>1
  <2> HIDE DEF i, T
  <2>5. ScanStep(cam, got, i) = ScanStep(cam, sol, i)
    <3>1. CASE {c \in cam : c > i} = {}
      BY <3>1 DEF ScanStep
    <3>2. CASE {c \in cam : c > i} # {}
      <4> DEFINE m == Min({c \in cam : c > i})
      <4>1. m \in Controls /\ m > i
        BY <2>3, <3>2, NextControl
      <4>2. got[m] = sol[m]
        BY <2>4, <4>1 DEF sol
      <4> QED
        BY <3>2, <4>2 DEF ScanStep
    <3> QED
      BY <3>1, <3>2
  <2> QED
    BY <1>2, <1>5, <2>3, <2>5
<1>7. 10 - id \in Controls /\ 10 - (10 - id) = id
  BY DEF Controls
<1>8. 10 - id \notin T
  BY <1>6
<1> QED
  BY <1>7, <1>8 DEF got

(* Probing finds every control of a device that has V4L2_CID_BASE. *)
LEMMA ProbeFindsAll ==
    ASSUME NEW cam \in SUBSET Controls
    PROVE  v4l2_probe_ctrl(cam) = IF V4L2_CID_BASE \in cam THEN cam ELSE {}
<1>1. CASE V4L2_CID_BASE \in cam
  <2>1. scan(cam)[V4L2_CID_BASE] = FromOn(cam, V4L2_CID_BASE)
    BY ScanFindsTheRest DEF V4L2_CID_BASE, Controls
  <2>2. FromOn(cam, V4L2_CID_BASE) = cam
    <3>1. \A c \in cam : c = V4L2_CID_BASE \/ c > V4L2_CID_BASE
      BY DEF V4L2_CID_BASE, Controls
    <3> QED
      BY <1>1, <3>1 DEF FromOn
  <2> QED
    BY <1>1, <2>1, <2>2 DEF v4l2_probe_ctrl
<1> QED
  BY <1>1 DEF v4l2_probe_ctrl

(* The multiples of a step, counted down by one step. *)
LEMMA StepDown ==
    ASSUME NEW a \in Nat, NEW b \in Nat \ {0}
    PROVE  /\ a < b => a % b = a
           /\ a >= b => (a - b) % b = a % b
<1>1. a < b => a % b = a
  OBVIOUS
<1>2. ASSUME a >= b PROVE (a - b) % b = a % b
  <2> DEFINE q == a \div b
             r == a % b
             p == (a - b) \div b
             t == (a - b) % b
  <2>1. q \in Nat /\ r \in 0 .. b - 1 /\ a = b * q + r
    OBVIOUS
  <2>2. a - b \in Nat
    BY <1>2
  <2>3. p \in Nat /\ t \in 0 .. b - 1 /\ a - b = b * p + t
    BY <2>2
  <2> HIDE DEF q, r, p, t
  <2>4. b * (p + 1 - q) = b * p + b - b * q /\ b * p \in Nat /\ b * q \in Nat
    BY <2>1, <2>3
  <2>5. b * (p + 1 - q) = r - t
    BY <2>1, <2>3, <2>4
  <2>6. p + 1 - q = 0
    <3>1. ASSUME p + 1 - q >= 1 PROVE FALSE
      <4>1. b * (p + 1 - q) >= b
        BY <2>1, <2>3, <3>1
      <4> QED
        BY <2>1, <2>3, <2>5, <4>1
    <3>2. ASSUME p + 1 - q <= -1 PROVE FALSE
      <4>1. b * (p + 1 - q) <= -b
        BY <2>1, <2>3, <3>2
      <4> QED
        BY <2>1, <2>3, <2>5, <4>1
    <3> QED
      BY <2>1, <2>3, <3>1, <3>2
  <2>7. r = t
    BY <2>1, <2>3, <2>5, <2>6
  <2> QED
    BY <2>7 DEF r, t
<1> QED
  BY <1>1, <1>2

(* The valid indices that the loop over a menu comes to from index i on. *)
Reached(maximum, stride, valid, i) == {x \in valid : x >= i /\ x <= maximum /\ (x - i) % stride = 0}

MenuStep(maximum, stride, valid, f, i) ==
    IF i > maximum THEN {} ELSE ({i} \cap valid) \cup f[i + stride]

(* They are index i itself and those from the next index on. *)
LEMMA ReachedStep ==
    ASSUME NEW maximum \in Nat, NEW stride \in Nat \ {0}, NEW valid \in SUBSET Nat, NEW i \in Nat,
           i <= maximum
    PROVE  Reached(maximum, stride, valid, i) =
               ({i} \cap valid) \cup Reached(maximum, stride, valid, i + stride)
<1>1. ASSUME NEW x \in valid
      PROVE  x >= i /\ x <= maximum /\ (x - i) % stride = 0 <=>
             x = i \/ (x >= i + stride /\ x <= maximum /\ (x - (i + stride)) % stride = 0)
  <2>0. x \in Nat
    OBVIOUS
  <2>1. CASE x < i
    BY <2>0, <2>1
  <2>2. CASE x = i
    <3>1. (x - i) = 0 /\ 0 % stride = 0
      BY <2>2, StepDown
    <3> QED
      BY <2>2, <3>1
  <2>3. CASE x > i /\ x < i + stride
    <3>1. x - i \in Nat /\ x - i < stride /\ x - i # 0
      BY <2>0, <2>3
    <3>2. (x - i) % stride # 0
      BY <3>1, StepDown
    <3> QED
      BY <2>0, <2>3, <3>2
  <2>4. CASE x >= i + stride
    <3>1. x - i \in Nat /\ x - i >= stride /\ (x - i) - stride = x - (i + stride)
      BY <2>0, <2>4
    <3>2. (x - (i + stride)) % stride = (x - i) % stride
      BY <3>1, StepDown, ZenonT(60)
    <3> QED
      BY <2>0, <2>4, <3>2
  <2> QED
    BY <2>0, <2>1, <2>2, <2>3, <2>4
<1> QED
  BY <1>1, Zenon DEF Reached

(* Whatever the range and the step of a menu control and however sparse its *)
(* entries: exactly the valid indices that lie on a step are listed.        *)
LEMMA MenuIsExact ==
    ASSUME NEW minimum \in Nat, NEW maximum \in Nat, minimum <= maximum,
           NEW stride \in Nat \ {0}, NEW valid \in SUBSET Nat
    PROVE  menu_entries(minimum, maximum, stride, valid) = Reached(maximum, stride, valid, minimum)
<1> DEFINE Dom == minimum .. maximum + stride
           Eq(f) == f = [i \in Dom |-> MenuStep(maximum, stride, valid, f, i)]
           sol == [i \in Dom |-> Reached(maximum, stride, valid, i)]
           got == CHOOSE f : Eq(f)
<1>1. menu_entries(minimum, maximum, stride, valid) = got[minimum]
  BY DEF menu_entries, MenuStep
<1>2. ASSUME NEW i \in Dom
      PROVE  Reached(maximum, stride, valid, i) = MenuStep(maximum, stride, valid, sol, i)
  <2>1. CASE i > maximum
    <3>1. \A x \in valid : ~(x >= i /\ x <= maximum)
      <4>1. i \in Nat /\ \A x \in valid : x \in Nat
        OBVIOUS
      <4> QED
        BY <2>1, <4>1
    <3> HIDE DEF sol
    <3> QED
      BY <2>1, <3>1 DEF Reached, MenuStep
  <2>2. CASE i <= maximum
    <3>1. i \in Nat /\ i + stride \in Dom /\ ~(i > maximum)
      BY <2>2
    <3>2. sol[i + stride] = Reached(maximum, stride, valid, i + stride)
      BY <3>1
    <3> HIDE DEF sol
    <3> QED
      BY <2>2, <3>1, <3>2, ReachedStep DEF MenuStep
  <2> QED
    BY <2>1, <2>2
<1>3. Eq(sol)
  BY <1>2
<1> HIDE DEF Eq, got
<1>4. Eq(got)
  BY <1>3 DEF got
<1>5. \A i \in Dom : got[i] = MenuStep(maximum, stride, valid, got, i)
  BY <1>4 DEF Eq
<1> DEFINE top == maximum + stride
           T == {n \in 0 .. top - minimum : got[top - n] # sol[top - n]}
<1>6. T = {}
  <2>1. SUFFICES ASSUME T # {} PROVE FALSE
    OBVIOUS
  <2>2. \E n \in T : \A l \in T : n <= l
    <3>1. T \in SUBSET Nat
      OBVIOUS
    <3> HIDE DEF T
    <3> QED
      BY <2>1, <3>1, LeastNumber
  <2> PICK n \in T : \A l \in T : n <= l
    BY <2>2, Zenon
  <2> DEFINE i == top - n
  <2>3. i \in Dom /\ got[i] # sol[i]
    OBVIOUS
  <2>4. i <= maximum => got[i + stride] = sol[i + stride]
    <3>1. SUFFICES ASSUME i <= maximum PROVE got[i + stride] = sol[i + stride]
      OBVIOUS
    <3> DEFINE j == i + stride
    <3>2. top - j \in 0 .. top - minimum /\ top - j < n /\ top - (top - j) = j
      BY <2>3, <3>1
    <3>3. top - j \notin T
      <4>1. n \in Int /\ top - j \in Int
        BY <3>2
      <4> HIDE DEF T, j, i
      <4> QED
        BY <3>2, <4>1
    <3> QED
      BY <3>2, <3>3
  <2>5. MenuStep(maximum, stride, valid, got, i) = MenuStep(maximum, stride, valid, sol, i)
    <3> HIDE DEF sol
    <3>1. i > maximum \/ i <= maximum
      BY <2>3
    <3> HIDE DEF i
    <3> QED
      BY <2>4, <3>1, Zenon DEF MenuStep
  <2>6. sol[i] = MenuStep(maximum, stride, valid, sol, i)
    BY <1>2, <2>3
  <2> HIDE DEF i, sol, T
  <2> QED
    BY <1>5, <2>3, <2>5, <2>6
<1>7. top - minimum \in 0 .. top - minimum /\ top - (top - minimum) = minimum /\ minimum \in Dom
  OBVIOUS
<1>8. got[minimum] = sol[minimum]
  BY <1>6, <1>7, Zenon
<1> QED
  BY <1>1, <1>7, <1>8

(* v4l2_util finds the controls and the menu entries that there are, no     *)
(* more and no fewer.                                                       *)
THEOREM ProbingIsExact == Spec => []ProbeIsExact
<1>1. ASSUME NEW d \in Devices
      PROVE  v4l2_probe_ctrl(d) = IF V4L2_CID_BASE \in d THEN d ELSE {}
  <2>1. d \in SUBSET Controls
    BY DEF Devices, Controls
  <2> QED
    BY <2>1, ProbeFindsAll
<1>2. ASSUME NEW first \in 0 .. 4, NEW last \in 0 .. 4, NEW by \in 1 .. 2,
             NEW valid \in SUBSET (0 .. 4), first <= last
      PROVE  menu_entries(first, last, by, valid) =
                 {i \in valid \cap (first .. last) : (i - first) % by = 0}
  <2>1. menu_entries(first, last, by, valid) = Reached(last, by, valid, first)
    <3>1. valid \in SUBSET Nat /\ by \in Nat \ {0} /\ first \in Nat /\ last \in Nat
      OBVIOUS
    <3> QED
      BY <1>2, <3>1, MenuIsExact
  <2>2. ASSUME NEW x \in valid
        PROVE  x >= first /\ x <= last <=> x \in first .. last
    OBVIOUS
  <2> QED
    BY <2>1, <2>2, Zenon DEF Reached
<1>3. ProbeIsExact
  BY <1>1, <1>2 DEF ProbeIsExact
<1> QED
  BY <1>3, PTL
=============================================================================
