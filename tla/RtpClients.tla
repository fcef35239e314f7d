----------------------------- MODULE RtpClients -----------------------------
(***************************************************************************)
(* The destinations of an RTP stream: multiudpsink_pipe keeps the set      *)
(* m_active_conn from the "client-added" and "client-removed" signals of   *)
(* GStreamer's multiudpsink, and add_client and remove_client wait up to   *)
(* five seconds for the set to show the change they asked for.             *)
(*                                                                         *)
(* multiudpsink counts how often a client was added; it emits              *)
(* client-added for every add it accepts and client-removed only when the  *)
(* count gets to zero, in the thread that made the call and after it       *)
(* released the sink's lock, so the signals of two callers can come in     *)
(* either order.                                                           *)
(***************************************************************************)
EXTENDS Naturals

CONSTANTS Callers,     \* the threads that run the JSON-RPC handlers
          Clients,     \* host:port destinations
          MaxRef,      \* bound on how often a client is added
          Serialised   \* TRUE: the handlers run under m_jsonrpc_mutex

ASSUME RtpAssumption == MaxRef \in Nat /\ Serialised \in BOOLEAN

VARIABLES
    ref,      \* the sink's count of each client
    active,   \* m_active_conn
    at,       \* at[w]: outside, calling the sink, in its signal, waiting for the set
    op,       \* op[w]: "add" or "remove"
    client,   \* client[w]: the client it is about
    result    \* result[w]: what its last call returned

vars == <<ref, active, at, op, client, result>>

Init ==
    /\ ref = [c \in Clients |-> 0]
    /\ active = {}
    /\ at = [w \in Callers |-> "outside"]
    /\ op = [w \in Callers |-> "add"]
    /\ client \in [Callers -> Clients]
    /\ result = [w \in Callers |-> FALSE]

goto(w, to) == at' = [at EXCEPT ![w] = to]

(* start_rtp_stream and stop_rtp_stream reach the element and call it. *)
call(w, o, c) ==
    /\ at[w] = "outside"
    /\ Serialised => \A v \in Callers : at[v] = "outside"
    /\ op' = [op EXCEPT ![w] = o]
    /\ client' = [client EXCEPT ![w] = c]
    /\ goto(w, "emit")
    /\ UNCHANGED <<ref, active, result>>

(* The sink's "add" action. *)
emit_add(w) ==
    /\ at[w] = "emit"
    /\ op[w] = "add"
    /\ ref[client[w]] < MaxRef
    /\ ref' = [ref EXCEPT ![client[w]] = @ + 1]
    /\ goto(w, "signal")
    /\ UNCHANGED <<active, op, client, result>>

(* The sink cannot resolve the host, or make its socket: it adds nothing    *)
(* and emits no signal.                                                     *)
emit_add_refused(w) ==
    /\ at[w] = "emit"
    /\ op[w] = "add"
    /\ goto(w, "wait")
    /\ UNCHANGED <<ref, active, op, client, result>>

(* The sink's "remove" action: an unknown client is ignored. *)
emit_remove(w) ==
    /\ at[w] = "emit"
    /\ op[w] = "remove"
    /\ ref' = [ref EXCEPT ![client[w]] = IF @ = 0 THEN 0 ELSE @ - 1]
    /\ goto(w, IF ref[client[w]] = 1 THEN "signal" ELSE "wait")
    /\ UNCHANGED <<active, op, client, result>>

handle_client_added(w) ==
    /\ at[w] = "signal"
    /\ op[w] = "add"
    /\ active' = active \cup {client[w]}
    /\ goto(w, "wait")
    /\ UNCHANGED <<ref, op, client, result>>

(* Variant: the removed client stays in m_active_conn. *)
handle_client_removed_kept(w) ==
    /\ at[w] = "signal"
    /\ op[w] = "remove"
    /\ goto(w, "wait")
    /\ UNCHANGED <<ref, active, op, client, result>>

handle_client_removed(w) ==
    /\ at[w] = "signal"
    /\ op[w] = "remove"
    /\ active' = active \ {client[w]}
    /\ goto(w, "wait")
    /\ UNCHANGED <<ref, op, client, result>>

wanted(w) == (client[w] \in active) = (op[w] = "add")

return(w, r) ==
    /\ result' = [result EXCEPT ![w] = r]
    /\ goto(w, "outside")
    /\ UNCHANGED <<ref, active, op, client>>

(* Variant: the answer is given without waiting for the predicate. *)
return_true_early(w) == at[w] = "wait" /\ return(w, TRUE)

(* wait_for sees its predicate true; set changes are made under             *)
(* m_active_conn_mutex, so none is missed.                                  *)
return_true(w) == at[w] = "wait" /\ wanted(w) /\ return(w, TRUE)

(* Variant: wait() instead of wait_for(): no timeout. *)
return_timeout_never(w) == FALSE /\ return(w, FALSE)

(* Five seconds have passed: false. *)
return_timeout(w) == at[w] = "wait" /\ ~wanted(w) /\ return(w, FALSE)

step(w) ==
    \/ emit_add(w) \/ emit_add_refused(w) \/ emit_remove(w)
    \/ handle_client_added(w) \/ handle_client_removed(w)
    \/ return_true(w) \/ return_timeout(w)

Next ==
    \E w \in Callers :
        \/ step(w)
        \/ \E c \in Clients : (ref[c] < MaxRef /\ call(w, "add", c)) \/ call(w, "remove", c)

Spec == Init /\ [][Next]_vars /\ \A w \in Callers : WF_vars(step(w))

-----------------------------------------------------------------------------

(* Every variable has its type, and under m_jsonrpc_mutex one caller at a   *)
(* time is inside.                                                          *)
TypeOK ==
    /\ ref \in [Clients -> 0..MaxRef]
    /\ active \subseteq Clients
    /\ at \in [Callers -> {"outside", "emit", "signal", "wait"}]
    /\ op \in [Callers -> {"add", "remove"}]
    /\ client \in [Callers -> Clients]
    /\ result \in [Callers -> BOOLEAN]
    /\ Serialised =>
          \A v, w \in Callers : at[v] # "outside" /\ at[w] # "outside" => v = w

(* Whenever no signal is on its way, the set m_active_conn holds exactly    *)
(* the clients the sink sends to.  This needs m_jsonrpc_mutex: without it   *)
(* the signals of two callers may be handled in the wrong order.            *)
ActiveMatchesSink ==
    (\A w \in Callers : at[w] # "signal") => active = {c \in Clients : ref[c] > 0}

(* start_rtp_stream answers true just when the sink sends to the client,    *)
(* and stop_rtp_stream just when it has stopped: a client that was added    *)
(* twice and removed once is still being sent to, and the answer is false,  *)
(* as it is for a client the sink refused.                                  *)
AnswersAreTrue ==
    [][\A w \in Callers :
          at[w] = "wait" /\ at'[w] = "outside" =>
              result'[w] = ((ref[client[w]] > 0) = (op[w] = "add"))]_vars

(* Every call returns, whatever signals the sink emits. *)
CallReturns ==
    \A w \in Callers : at[w] = "emit" ~> at[w] = "outside"
=============================================================================
