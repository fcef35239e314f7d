-------------------------- MODULE MCFrameDelivery --------------------------
(***************************************************************************)
(* FrameDelivery with frames that shrink, and so leave the rest of the one *)
(* before in the buffer until it is resized.                               *)
(***************************************************************************)
EXTENDS FrameDelivery

TwoFrames == <<2, 1>>
=============================================================================
