------------------------------ MODULE V4l2Util ------------------------------
(***************************************************************************)
(* What v4l2_util finds out about the controls of a camera.                *)
(*                                                                         *)
(* A device is the set of its controls, numbered in the order of their     *)
(* ids; V4L2_CID_BASE is the lowest.  Where a driver may fail a call for   *)
(* another reason the probe answers false; the operators here describe the *)
(* driver that does not.                                                   *)
(***************************************************************************)
EXTENDS Naturals, FiniteSetsExt

V4L2_CID_BASE == 0
Controls      == 0 .. 10

(* The loop of v4l2_probe_ctrl once it has found control id: from there on  *)
(* it asks for the next one (V4L2_CTRL_FLAG_NEXT_CTRL) until EINVAL.        *)
scan(device) ==
    LET from[id \in Controls] ==
            LET later == {c \in device : c > id}
            IN  {id} \cup IF later = {} THEN {} ELSE from[Min(later)]
    IN  from

(* The first query is for V4L2_CID_BASE itself, without the flag. *)
v4l2_probe_ctrl(device) ==
    IF V4L2_CID_BASE \in device THEN scan(device)[V4L2_CID_BASE] ELSE {}

(* Variant: the scan ends at the first index that is not an entry. *)
menu_entries_dense(minimum, maximum, step, valid) ==
    LET from[i \in minimum .. maximum + step] ==
            IF i > maximum \/ i \notin valid THEN {} ELSE {i} \cup from[i + step]
    IN  from[minimum]

(* The entries of a menu control: VIDIOC_QUERYMENU for every index from its *)
(* minimum to its maximum; "menu entries may be sparse".                    *)
menu_entries(minimum, maximum, step, valid) ==
    LET from[i \in minimum .. maximum + step] ==
            IF i > maximum THEN {} ELSE ({i} \cap valid) \cup from[i + step]
    IN  from[minimum]
=============================================================================
