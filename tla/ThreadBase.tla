----------------------------- MODULE ThreadBase -----------------------------
(***************************************************************************)
(* One thread_base object (libs/opaleye-util): the worker it runs, the     *)
(* thread that owns it (launch and join are "not MT safe") and the threads *)
(* that may call interrupt(), which is "MT safe".                          *)
(*                                                                         *)
(* The worker's work() is the loop every user of the class writes          *)
(* (sensor_thread, zeromq_api_svr_pub_thread, zcm_api_svr_heartbeat):      *)
(*     while(!is_interrupted()) { ...; wait_for_interruption(dt); }        *)
(* The wait of a condition variable is three steps: the predicate is       *)
(* evaluated with m_mutex held, then the thread enters the wait set and    *)
(* releases m_mutex in one step, then it is notified or times out.         *)
(* interrupt() never takes m_mutex, so its store and its notify fall       *)
(* anywhere between those steps.                                           *)
(***************************************************************************)

CONSTANTS Interrupters,  \* the threads that call interrupt()
          Timed          \* TRUE: wait_for_interruption(dt); FALSE: the untimed overload

ASSUME ThreadBaseAssumption == Timed \in BOOLEAN

VARIABLES
    keepRunning,  \* m_keep_running
    joinable,     \* m_thread.joinable()
    worker,       \* where the worker thread is
    owner,        \* the owning thread: outside, or inside join()
    caller        \* caller[i]: interrupter i outside interrupt(), or between store and notify

vars == <<keepRunning, joinable, worker, owner, caller>>

WorkerState ==
    {"none",        \* no std::thread has been started
     "test",        \* at while(!is_interrupted())
     "body",        \* doing one round of work
     "pred",        \* in wait_for_interruption, m_mutex held, evaluating the predicate
     "block",       \* the predicate was false, the wait set is not entered yet
     "wait",        \* in the wait set
     "done",        \* work() returned, the std::thread is still joinable
     "terminated"}  \* an exception left dispatch_work(): std::terminate

Init ==
    /\ keepRunning = FALSE
    /\ joinable = FALSE
    /\ worker = "none"
    /\ owner = "outside"
    /\ caller = [i \in Interrupters |-> "outside"]

alive == worker # "terminated"

-----------------------------------------------------------------------------
(* The owner.  A launch() of a joinable thread does nothing. *)

(* Variant: launch() starts a std::thread it does not keep. *)
launch_detached ==
    /\ alive
    /\ owner = "outside"
    /\ ~joinable
    /\ keepRunning' = TRUE
    /\ worker' = "test"
    /\ UNCHANGED <<joinable, owner, caller>>

launch ==
    /\ alive
    /\ owner = "outside"
    /\ ~joinable
    /\ keepRunning' = TRUE
    /\ joinable' = TRUE
    /\ worker' = "test"
    /\ UNCHANGED <<owner, caller>>

join ==
    /\ alive
    /\ owner = "outside"
    /\ joinable
    /\ owner' = "join"
    /\ UNCHANGED <<keepRunning, joinable, worker, caller>>

joined ==
    /\ owner = "join"
    /\ worker = "done"
    /\ owner' = "outside"
    /\ joinable' = FALSE
    /\ worker' = "none"
    /\ UNCHANGED <<keepRunning, caller>>

-----------------------------------------------------------------------------
(* interrupt(): a store, then a notify_all, neither under m_mutex. *)

interrupt_store(i) ==
    /\ alive
    /\ caller[i] = "outside"
    /\ keepRunning' = FALSE
    /\ caller' = [caller EXCEPT ![i] = "stored"]
    /\ UNCHANGED <<joinable, worker, owner>>

interrupt_notify(i) ==
    /\ alive
    /\ caller[i] = "stored"
    /\ caller' = [caller EXCEPT ![i] = "outside"]
    /\ worker' = IF worker = "wait" THEN "pred" ELSE worker
    /\ UNCHANGED <<keepRunning, joinable, owner>>

-----------------------------------------------------------------------------
(* The worker. *)

workerStep(from, to) ==
    /\ worker = from
    /\ worker' = to
    /\ UNCHANGED <<keepRunning, joinable, owner, caller>>

loop_test == workerStep("test", IF keepRunning THEN "body" ELSE "done")

loop_body == workerStep("body", "pred")

dispatch_throw == workerStep("body", "terminated")

wait_pred == workerStep("pred", IF keepRunning THEN "block" ELSE "test")

wait_block == workerStep("block", "wait")

(* Variant: the deadline is not passed on to the condition variable. *)
wait_timeout_dropped == workerStep("wait", "wait")

(* The deadline passes: wait_for returns whatever the predicate says. *)
wait_timeout ==
    /\ Timed
    /\ workerStep("wait", "test")

(* std::terminate ends the process: nothing else happens. *)
terminated == ~alive /\ UNCHANGED vars

-----------------------------------------------------------------------------

workerNext ==
    loop_test \/ loop_body \/ dispatch_throw \/ wait_pred \/ wait_block \/ wait_timeout

Next ==
    \/ launch \/ join \/ joined
    \/ \E i \in Interrupters : interrupt_store(i) \/ interrupt_notify(i)
    \/ workerNext
    \/ terminated

(* The scheduler runs every started thread and the clock reaches every      *)
(* deadline; nobody has to call launch, join or interrupt.                  *)
Fairness ==
    /\ WF_vars(workerNext)
    /\ WF_vars(joined)
    /\ \A i \in Interrupters : WF_vars(interrupt_notify(i))

Spec == Init /\ [][Next]_vars /\ Fairness

-----------------------------------------------------------------------------

(* Every variable has its type, and std::thread::joinable() says whether    *)
(* there is a thread to join: launch() never assigns over one.              *)
TypeOK ==
    /\ keepRunning \in BOOLEAN
    /\ joinable \in BOOLEAN
    /\ worker \in WorkerState
    /\ owner \in {"outside", "join"}
    /\ caller \in [Interrupters -> {"outside", "stored"}]
    /\ joinable <=> worker # "none"

(* A worker that returned from work() was told to: nothing sets             *)
(* m_keep_running again before the thread is joined, so a join() that       *)
(* returns always follows an interrupt() of this very launch.               *)
FinishedWasInterrupted ==
    worker = "done" => ~keepRunning
=============================================================================
