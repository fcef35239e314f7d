--------------------------- MODULE RecordingIndex ---------------------------
(***************************************************************************)
(* The numbering of recorded files by mp4_splitmuxsink, across captures,   *)
(* days, deletions and crashes.  A capture of camera c writes to the       *)
(* directory <video_path>/c/<UTC date when it was started>, and its        *)
(* fragment k goes to file number starting_id + k, where starting_id is    *)
(* found by scanning the directory when the capture is initialised.        *)
(*                                                                         *)
(* Numbers are written with "{:06d}" and scanned with "%06u": a number of  *)
(* more than six digits is written in full, but only its first six digits  *)
(* are read back.  Limit is the first number with too many digits.         *)
(***************************************************************************)
EXTENDS Naturals

CONSTANTS Sources,    \* the cameras that are recorded
          Days,       \* the dates the clock can show
          NoDay,      \* no date: the camera has no capture
          Base,       \* 10 in the code
          Limit,      \* 10^6 in the code
          MaxIndex    \* bound on the file numbers of the model

ASSUME DayAssumption == NoDay \notin Days
ASSUME LimitAssumption == Base \in Nat \ {0} /\ Limit \in Nat \ {0}
ASSUME BoundAssumption == MaxIndex \in Nat /\ MaxIndex < Base * Limit

VARIABLES
    files,     \* the recorded files: <<camera, day, number>>
    today,     \* the date of the clock
    dir,       \* dir[c]: the day directory of c's capture, NoDay when there is none
    start,     \* starting_id of c's capture
    frag       \* the next fragment_id splitmuxsink asks for

indexVars == <<files, today, dir, start, frag>>

Index == 0..MaxIndex

(* sscanf(filename, "file-%06u.mp4", &num) of a name made by                *)
(* fmt::format("file-{:06d}.avi", i); the literal suffix is never compared. *)
scanned(i) == IF i < Limit THEN i ELSE i \div Base

numbersIn(c, d) == {i \in Index : <<c, d, i>> \in files}

(* Variant: the scan keeps the largest number instead of the one after it. *)
isStartingId_sameNumber(s, S) ==
    /\ \A i \in S : scanned(i) <= s
    /\ s = 0 \/ \E i \in S : s = scanned(i)

(* starting_id after the scan: 0, or one more than the largest number read. *)
isStartingId(s, S) ==
    /\ \A i \in S : scanned(i) < s
    /\ s = 0 \/ \E i \in S : s = scanned(i) + 1

IndexInit ==
    /\ files = {}
    /\ today \in Days
    /\ dir = [c \in Sources |-> NoDay]
    /\ start = [c \in Sources |-> 0]
    /\ frag = [c \in Sources |-> 0]

(* mp4_splitmuxsink::init of a new capture; m_pipelines allows one per      *)
(* camera at a time.                                                        *)
init(c) ==
    /\ dir[c] = NoDay
    /\ dir' = [dir EXCEPT ![c] = today]
    /\ \E s \in 0..(MaxIndex + 1) :
          /\ isStartingId(s, numbersIn(c, today))
          /\ start' = [start EXCEPT ![c] = s]
    /\ UNCHANGED <<files, today, frag>>

current(c) == start[c] + frag[c]

(* splitmuxsink asks for the next file and opens it, truncating any file of *)
(* that name.                                                               *)
handle_format_location(c) ==
    /\ dir[c] # NoDay
    /\ current(c) \in Index
    /\ files' = files \cup {<<c, dir[c], current(c)>>}
    /\ frag' = [frag EXCEPT ![c] = frag[c] + 1]
    /\ UNCHANGED <<today, dir, start>>

(* stop_video_capture: the sink is destroyed. *)
stop(c) ==
    /\ dir[c] # NoDay
    /\ dir' = [dir EXCEPT ![c] = NoDay]
    /\ start' = [start EXCEPT ![c] = 0]
    /\ frag' = [frag EXCEPT ![c] = 0]
    /\ UNCHANGED <<files, today>>

(* The process dies, or is restarted: every capture is gone, files stay. *)
crash ==
    /\ \E c \in Sources : dir[c] # NoDay
    /\ dir' = [c \in Sources |-> NoDay]
    /\ start' = [c \in Sources |-> 0]
    /\ frag' = [c \in Sources |-> 0]
    /\ UNCHANGED <<files, today>>

(* The clock moves to another date, forwards or (when it is set) backwards. *)
tick(d) ==
    /\ d # today
    /\ today' = d
    /\ UNCHANGED <<files, dir, start, frag>>

(* The operator deletes a recording from the shared directory. *)
remove(f) ==
    /\ files' = files \ {f}
    /\ UNCHANGED <<today, dir, start, frag>>

IndexNext ==
    \/ \E c \in Sources : init(c) \/ handle_format_location(c) \/ stop(c)
    \/ crash
    \/ \E d \in Days : tick(d)
    \/ \E f \in files : remove(f)

IndexSpec == IndexInit /\ [][IndexNext]_indexVars

-----------------------------------------------------------------------------

(* Every variable has its type, and a camera that is not recording has no   *)
(* sink: the numbering of a capture never carries over to the next one.     *)
IndexTypeOK ==
    /\ files \subseteq Sources \X Days \X Index
    /\ today \in Days
    /\ dir \in [Sources -> Days \cup {NoDay}]
    /\ start \in [Sources -> 0..(MaxIndex + 1)]
    /\ frag \in [Sources -> 0..(MaxIndex + 1)]
    /\ \A c \in Sources : dir[c] = NoDay => current(c) = 0

(* No recording is lost to a later one: a file that handle_format_location  *)
(* opens has a higher number than every file of its directory, whatever     *)
(* captures, crashes, deletions and clock changes came before, as long as   *)
(* no number of the directory has outgrown the six digits that are scanned. *)
NumbersGrow ==
    [][\A c \in Sources :
          frag'[c] = frag[c] + 1 =>
              \A i \in numbersIn(c, dir[c]) : i < Limit => i < current(c)]_indexVars

(* While a capture is open, its next file number is above every scannable   *)
(* number of its directory (what the scan establishes and must survive).    *)
NextIsFresh ==
    \A c \in Sources : dir[c] # NoDay =>
        \A i \in numbersIn(c, dir[c]) : i < Limit => i < current(c)
=============================================================================
