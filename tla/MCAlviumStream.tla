--------------------------- MODULE MCAlviumStream ---------------------------
(***************************************************************************)
(* AlviumStream with the three buffers the code asks for, and the probe of *)
(* V4l2Util for a choice of devices.                                       *)
(***************************************************************************)
EXTENDS AlviumStream, V4l2Util

Devices == SUBSET {0, 1, 3, 7, 10}

(* Probing finds every control of a device that has V4L2_CID_BASE, and none *)
(* of a device that has not; a menu's entries are all found, however sparse. *)
ProbeIsExact ==
    ctl = "new" =>
        /\ \A d \in Devices : v4l2_probe_ctrl(d) = IF V4L2_CID_BASE \in d THEN d ELSE {}
        /\ \A first, last \in 0 .. 4, by \in 1 .. 2, valid \in SUBSET (0 .. 4) :
              first <= last => menu_entries(first, last, by, valid) =
                  {i \in valid \cap (first .. last) : (i - first) % by = 0}
=============================================================================
