------------------------------ MODULE Recorder ------------------------------
(***************************************************************************)
(* What recording promises a client, without threads, buses and maps: a    *)
(* recording is begun, finished (its file is complete) and only then       *)
(* closed; once the program is closing down nothing is begun any more, and *)
(* a recording may be cut off.                                             *)
(***************************************************************************)

CONSTANT Captures   \* the names of the recordings

VARIABLES
    rec,     \* rec[c]: "idle", "recording" or "finished"
    closing  \* the program is closing down

vars == <<rec, closing>>

Init ==
    /\ rec = [c \in Captures |-> "idle"]
    /\ closing = FALSE

Move(c, from, to) ==
    /\ rec[c] = from
    /\ rec' = [rec EXCEPT ![c] = to]
    /\ UNCHANGED closing

Begin(c)  == ~closing /\ Move(c, "idle", "recording")
Finish(c) == Move(c, "recording", "finished")
Close(c)  == Move(c, "finished", "idle")
Cut(c)    == closing /\ Move(c, "recording", "idle")

CloseDown ==
    /\ ~closing
    /\ closing' = TRUE
    /\ UNCHANGED rec

Next ==
    \/ \E c \in Captures : Begin(c) \/ Finish(c) \/ Close(c) \/ Cut(c)
    \/ CloseDown

Spec == Init /\ [][Next]_vars
=============================================================================
