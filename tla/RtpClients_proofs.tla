------------------------- MODULE RtpClients_proofs --------------------------
(* Theorems about RtpClients, for any number of callers and destinations    *)
(* and any bound on the sink's counts.                                      *)
EXTENDS RtpClients, TLAPS

Sending == {c \in Clients : ref[c] > 0}

(* While a signal is on its way, m_active_conn is one client behind.  Only  *)
(* one signal is ever on its way, because of m_jsonrpc_mutex.               *)
OneBehind ==
    \A w \in Callers :
        at[w] = "signal" =>
            Sending = IF op[w] = "add" THEN active \cup {client[w]} ELSE active \ {client[w]}

RtpInv == TypeOK /\ ActiveMatchesSink /\ OneBehind

(* At first the sink sends to nobody, and no client is active. *)
LEMMA InitRtp == Init => RtpInv
<1> SUFFICES ASSUME Init PROVE RtpInv
  OBVIOUS
<1>1. result \in [Callers -> BOOLEAN]
  BY Zenon DEF Init
<1>2. TypeOK
  BY <1>1, RtpAssumption DEF Init, TypeOK
<1> QED
  BY <1>2 DEF Init, RtpInv, ActiveMatchesSink, OneBehind

(* A caller that enters has the mutex, so everybody else is outside. *)
LEMMA CallKeeps ==
    ASSUME Serialised, RtpInv, NEW w \in Callers, NEW o \in {"add", "remove"},
           NEW c \in Clients, call(w, o, c)
    PROVE  RtpInv'
<1>1. TypeOK'
  BY DEF RtpInv, TypeOK, call, goto
<1>2. \A v \in Callers : at[v] # "signal" /\ at'[v] # "signal"
  BY DEF RtpInv, TypeOK, call, goto
<1> QED
  BY <1>1, <1>2 DEF RtpInv, ActiveMatchesSink, OneBehind, call

(* The sink's counts change, and a signal may be on its way. *)
LEMMA EmitKeeps ==
    ASSUME Serialised, RtpInv, NEW w \in Callers, emit_add(w) \/ emit_add_refused(w) \/ emit_remove(w)
    PROVE  RtpInv'
<1> DEFINE c == client[w]
<1>0. c \in Clients /\ ref[c] \in Nat /\ MaxRef \in Nat
  BY RtpAssumption DEF RtpInv, TypeOK
<1>1. \A v \in Callers : v # w => at[v] = "outside" /\ at'[v] = "outside"
  BY DEF RtpInv, TypeOK, emit_add, emit_add_refused, emit_remove, goto
<1>2. active = Sending
  BY <1>1 DEF RtpInv, ActiveMatchesSink, Sending, emit_add, emit_add_refused, emit_remove
<1>3. CASE emit_add(w)
  <2>1. TypeOK'
    BY <1>0, <1>1, <1>3 DEF RtpInv, TypeOK, emit_add, goto
  <2>2. Sending' = active \cup {c}
    BY <1>0, <1>2, <1>3 DEF RtpInv, TypeOK, Sending, emit_add
  <2> QED
    BY <1>1, <1>3, <2>1, <2>2 DEF RtpInv, TypeOK, ActiveMatchesSink, OneBehind, emit_add, goto
<1>4. CASE emit_remove(w)
  <2>1. TypeOK'
    BY <1>0, <1>1, <1>4 DEF RtpInv, TypeOK, emit_remove, goto
  <2>2. Sending' = IF ref[c] = 1 THEN active \ {c} ELSE active
    BY <1>0, <1>2, <1>4 DEF RtpInv, TypeOK, Sending, emit_remove
  <2>3. Sending' = {k \in Clients : ref'[k] > 0}
    BY DEF Sending
  <2> QED
    BY <1>1, <1>4, <2>1, <2>2, <2>3, ZenonT(60)
       DEF RtpInv, TypeOK, ActiveMatchesSink, OneBehind, emit_remove, goto
<1>5. CASE emit_add_refused(w)
  <2>1. TypeOK'
    BY <1>1, <1>5 DEF RtpInv, TypeOK, emit_add_refused, goto
  <2> QED
    BY <1>1, <1>2, <1>5, <2>1 DEF RtpInv, TypeOK, ActiveMatchesSink, OneBehind, Sending, emit_add_refused, goto
<1> QED
  BY <1>3, <1>4, <1>5

(* The signal handler catches m_active_conn up. *)
LEMMA SignalKeeps ==
    ASSUME Serialised, RtpInv, NEW w \in Callers,
           handle_client_added(w) \/ handle_client_removed(w)
    PROVE  RtpInv'
<1>1. \A v \in Callers : at'[v] # "signal"
  BY DEF RtpInv, TypeOK, handle_client_added, handle_client_removed, goto
<1>2. TypeOK'
  BY DEF RtpInv, TypeOK, handle_client_added, handle_client_removed, goto
<1>3. active' = Sending /\ ref' = ref
  BY DEF RtpInv, OneBehind, handle_client_added, handle_client_removed
<1> QED
  BY <1>1, <1>2, <1>3 DEF RtpInv, ActiveMatchesSink, OneBehind, Sending

(* The end of a wait changes neither the sink nor m_active_conn. *)
LEMMA ReturnKeeps ==
    ASSUME RtpInv, NEW w \in Callers, return_true(w) \/ return_timeout(w)
    PROVE  RtpInv'
<1>1. PICK r \in BOOLEAN : at[w] = "wait" /\ return(w, r)
  BY Zenon DEF return_true, return_timeout
<1>2. result' \in [Callers -> BOOLEAN]
  BY <1>1, Zenon DEF RtpInv, TypeOK, return
<1>3. TypeOK'
  BY <1>1, <1>2 DEF RtpInv, TypeOK, return, goto
<1>4. \A v \in Callers : at'[v] = "signal" <=> at[v] = "signal"
  BY <1>1 DEF RtpInv, TypeOK, return, goto
<1> QED
  BY <1>1, <1>3, <1>4 DEF RtpInv, ActiveMatchesSink, OneBehind, Sending, return

(* Under the mutex every step keeps the invariant. *)
LEMMA NextRtp ==
    ASSUME Serialised
    PROVE  RtpInv /\ [Next]_vars => RtpInv'
<1>1. ASSUME RtpInv, UNCHANGED vars PROVE RtpInv'
  BY <1>1 DEF vars, RtpInv, TypeOK, ActiveMatchesSink, OneBehind, Sending
<1> QED
  BY <1>1, CallKeeps, EmitKeeps, SignalKeeps, ReturnKeeps DEF Next, step

(* A handler returns what is true of the sink at that moment. *)
LEMMA ReturnIsTrue ==
    ASSUME Serialised, RtpInv, Next, NEW w \in Callers, at[w] = "wait", at'[w] = "outside"
    PROVE  result'[w] = ((ref[client[w]] > 0) = (op[w] = "add"))
<1>1. return_true(w) \/ return_timeout(w)
  BY DEF RtpInv, TypeOK, Next, step, call, emit_add, emit_add_refused, emit_remove, handle_client_added,
         handle_client_removed, return_true, return_timeout, return, goto
<1>2. client[w] \in active <=> ref[client[w]] > 0
  <2>1. \A v \in Callers : at[v] # "signal"
    BY DEF RtpInv, TypeOK
  <2> QED
    BY <2>1 DEF RtpInv, TypeOK, ActiveMatchesSink
<1>3. result'[w] = wanted(w)
  BY <1>1, Zenon DEF RtpInv, TypeOK, return_true, return_timeout, return, wanted
<1> QED
  BY <1>2, <1>3 DEF wanted

(* The invariant holds of every history of adds and removes under the       *)
(* mutex.                                                                   *)
LEMMA AlwaysRtp ==
    ASSUME Serialised
    PROVE  Spec => []RtpInv
<1>1. RtpInv /\ [Next]_vars => RtpInv'
  BY NextRtp
<1> QED
  BY <1>1, InitRtp, PTL DEF Spec

(* Under m_jsonrpc_mutex, whatever clients are added and removed and        *)
(* however often: m_active_conn is the set of the clients that are sent to  *)
(* whenever no signal is on its way.                                        *)
THEOREM ActiveIsSink ==
    ASSUME Serialised
    PROVE  Spec => [](TypeOK /\ ActiveMatchesSink)
<1>1. RtpInv => TypeOK /\ ActiveMatchesSink
  BY DEF RtpInv
<1> QED
  BY <1>1, AlwaysRtp, PTL

(* Under m_jsonrpc_mutex, what start_rtp_stream and stop_rtp_stream answer  *)
(* is true of the sink at that moment.                                      *)
THEOREM AnswersTellTheTruth ==
    ASSUME Serialised
    PROVE  Spec => AnswersAreTrue
<1>1. RtpInv /\ [Next]_vars =>
        [\A w \in Callers :
            at[w] = "wait" /\ at'[w] = "outside" =>
                result'[w] = ((ref[client[w]] > 0) = (op[w] = "add"))]_vars
  BY ReturnIsTrue
<1> QED
  BY <1>1, AlwaysRtp, PTL DEF Spec, AnswersAreTrue
=============================================================================
