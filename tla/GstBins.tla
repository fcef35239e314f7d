------------------------------ MODULE GstBins ------------------------------
(***************************************************************************)
(* The bins of libs/camera-pipes/pipeline that main's pipelines are made   *)
(* of: every class wraps a chain of GStreamer elements between a front()   *)
(* and a back() and links the chain in its init().  What matters to the    *)
(* program is which media a chain accepts and what it makes of them:       *)
(* Gst::Element::link throws when the two sides have no media in common.   *)
(*                                                                         *)
(* An element is a function from a medium to the set of media it can put   *)
(* out for it (empty: it refuses the medium).  The elements are external:  *)
(* each is described by the role the bins of src/ use it in.               *)
(***************************************************************************)
EXTENDS Naturals, Sequences

Media == {"jpeg", "raw", "nvmm", "h264", "rtp"}

AnyOf(S)         == [m \in Media |-> {m} \cap S]
Pass             == AnyOf(Media)     \* queue, tee, capsfilter without caps
Convert(S, T)    == [m \in Media |-> IF m \in S THEN T ELSE {}]

videorate        == AnyOf({"raw", "nvmm", "jpeg"})
videoscale       == AnyOf({"raw"})
nvvidconv        == Convert({"raw", "nvmm"}, {"raw", "nvmm"})
timecodestamper  == AnyOf({"raw"})
timeoverlay      == AnyOf({"raw"})
x264enc          == Convert({"raw"}, {"h264"})
omxh264enc       == Convert({"raw", "nvmm"}, {"h264"})
h264parse        == AnyOf({"h264"})
jpegenc          == Convert({"raw"}, {"jpeg"})
nvjpegenc        == Convert({"raw", "nvmm"}, {"jpeg"})
jpegdec          == Convert({"jpeg"}, {"raw"})
nvv4l2decoder    == Convert({"jpeg", "h264"}, {"nvmm"})
rtph264pay       == Convert({"h264"}, {"rtp"})
rtpbin           == AnyOf({"rtp"})

(* What comes out of a chain of elements that is offered the media S. *)
Flow(chain, S) ==
    LET after[i \in 0 .. Len(chain)] ==
            IF i = 0 THEN S ELSE UNION {chain[i][m] : m \in after[i - 1]}
    IN  after[Len(chain)]

-----------------------------------------------------------------------------
(* A bin: the media its source element makes ({} when it has a front()     *)
(* instead), its chain, whether its init can return false, and whether the *)
(* class overrides GST_camera_base::set_framebuffer_callback.              *)

Bin(chain) ==
    [source |-> {}, chain |-> chain, fallible |-> FALSE, frameCallback |-> FALSE]

Camera(medium, chain) == [Bin(chain) EXCEPT !.source = {medium}]

(* The media at the back() of bin b when `offered` reaches its front(). *)
Output(b, offered) == Flow(b.chain, IF b.source = {} THEN offered ELSE b.source)

(* cameras *)
V4L2_webcam_pipe == Camera("jpeg", <<AnyOf({"jpeg"}), videorate, AnyOf({"jpeg"}), Pass, Pass>>)
nvac_imx219_pipe ==
    [Camera("nvmm", <<AnyOf({"nvmm"}), Pass, Pass>>) EXCEPT !.frameCallback = TRUE]
V4L2_alvium_pipe ==
    [Camera("raw", <<Pass, nvvidconv, AnyOf({"nvmm"}), Pass, Pass>>) EXCEPT
        !.frameCallback = TRUE, !.fallible = TRUE]
Testsrc_pipe     == Camera("raw", <<AnyOf({"raw"}), Pass, Pass>>)

(* converters *)
nvvideoconvert_pipe      == Bin(<<nvvidconv, Pass>>)
timecodestamper_pipe     == Bin(<<timecodestamper, Pass>>)
timeoverlay_pipe         == Bin(<<timeoverlay, Pass>>)

(* decoders and encoders *)
jpeg_nvv4l2decoder_bin == Bin(<<Pass, nvv4l2decoder, nvvidconv, AnyOf({"raw"}), Pass>>)
jpeg_swdec_bin         == Bin(<<Pass, jpegdec, AnyOf({"raw"}), Pass>>)
h264_nvenc_bin == Bin(<<Pass, nvvidconv, omxh264enc, h264parse, AnyOf({"h264"}), Pass>>)
h264_swenc_bin == Bin(<<Pass, x264enc, AnyOf({"h264"}), h264parse, Pass>>)

(* thumbnails *)
Thumbnail_nv_pipe ==
    Bin(<<Pass, videorate, nvv4l2decoder, nvvidconv, Pass, nvjpegenc, AnyOf({"jpeg"}), AnyOf({"jpeg"})>>)
Thumbnail_nv3_pipe ==
    Bin(<<Pass, videorate, nvvidconv, Pass, nvjpegenc, AnyOf({"jpeg"}), AnyOf({"jpeg"})>>)
Thumbnail_sw_pipe ==
    Bin(<<Pass, videorate, videoscale, Pass, jpegenc, AnyOf({"jpeg"}), AnyOf({"jpeg"})>>)

(* streaming *)
GST_interpipesink  == Bin(<<Pass, Pass>>)
rtp_h264_pipe      == Bin(<<Pass, rtph264pay, Pass>>)
rtpsink_pipe       == [Bin(<<Pass, rtpbin, Pass, Pass>>) EXCEPT !.fallible = TRUE]
=============================================================================
