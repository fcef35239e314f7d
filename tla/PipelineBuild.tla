--------------------------- MODULE PipelineBuild ---------------------------
(***************************************************************************)
(* Gstreamer_pipeline::make_pipeline (opaleye/Opaleye_app.cpp): the four   *)
(* make_*_pipeline functions differ in the bins they init, the links they  *)
(* make and the names they store, and do the rest alike.  Each is a recipe *)
(* here: the bins in the order of their init() calls, the links in the     *)
(* order of the link_back() calls, and the names under which get_element   *)
(* finds them afterwards.  "cam" stands for the camera's configured name.  *)
(***************************************************************************)
EXTENDS GstBins

Modes == {"nv", "cpu"}   \* config.h264.mode: "nv", or anything else

(* Every pipeline ends in the encoder's interpipesink, the RTP payloader    *)
(* and the RTP sink.                                                        *)
StreamEndInit  == <<"h264_ipsink_0", "rtp_0", "udp_0">>
StreamEndLinks == << <<"h264_0", "rtp_0">>, <<"h264_0", "h264_ipsink_0">>, <<"rtp_0", "udp_0">> >>

h264Bin(mode) == IF mode = "nv" THEN h264_nvenc_bin ELSE h264_swenc_bin

(* Variant: the decoder is linked to the thumbnail and not to the encoder. *)
brio_unlinked(mode) ==
    [bins   |-> [cam |-> V4L2_webcam_pipe, h264_0 |-> h264Bin(mode),
                 jpgdec_0 |-> IF mode = "nv" THEN jpeg_nvv4l2decoder_bin ELSE jpeg_swdec_bin,
                 thumb_0 |-> IF mode = "nv" THEN Thumbnail_nv_pipe ELSE Thumbnail_sw_pipe,
                 h264_ipsink_0 |-> GST_interpipesink, rtp_0 |-> rtp_h264_pipe, udp_0 |-> rtpsink_pipe],
     init   |-> <<"cam", "jpgdec_0", "thumb_0", "h264_0">> \o StreamEndInit,
     links  |-> << <<"cam", "jpgdec_0">>, <<"cam", "thumb_0">> >> \o StreamEndLinks,
     stored |-> {"cam", "jpgdec_0", "thumb_0", "h264_0", "h264_ipsink_0", "rtp_0", "udp_0"}]

make_brio_pipeline(mode) ==
    [bins   |-> [cam |-> V4L2_webcam_pipe, h264_0 |-> h264Bin(mode),
                 jpgdec_0 |-> IF mode = "nv" THEN jpeg_nvv4l2decoder_bin ELSE jpeg_swdec_bin,
                 thumb_0 |-> IF mode = "nv" THEN Thumbnail_nv_pipe ELSE Thumbnail_sw_pipe,
                 h264_ipsink_0 |-> GST_interpipesink, rtp_0 |-> rtp_h264_pipe, udp_0 |-> rtpsink_pipe],
     init   |-> <<"cam", "jpgdec_0", "thumb_0", "h264_0">> \o StreamEndInit,
     links  |-> << <<"cam", "jpgdec_0">>, <<"cam", "thumb_0">>, <<"jpgdec_0", "h264_0">> >> \o StreamEndLinks,
     stored |-> {"cam", "jpgdec_0", "thumb_0", "h264_0", "h264_ipsink_0", "rtp_0", "udp_0"}]

(* Variant: the nvvidconv between the camera and the stamper is left out. *)
imx219_direct(mode) ==
    [bins   |-> [cam |-> nvac_imx219_pipe, t1 |-> nvvideoconvert_pipe,
                 timecodestamper_0 |-> timecodestamper_pipe, timeoverlay_0 |-> timeoverlay_pipe,
                 thumb_0 |-> Thumbnail_nv3_pipe, h264_0 |-> h264_nvenc_bin,
                 h264_ipsink_0 |-> GST_interpipesink, rtp_0 |-> rtp_h264_pipe, udp_0 |-> rtpsink_pipe],
     init   |-> <<"cam", "t1", "timecodestamper_0", "timeoverlay_0", "thumb_0", "h264_0">> \o StreamEndInit,
     links  |-> << <<"cam", "thumb_0">>, <<"cam", "timecodestamper_0">>,
                   <<"timecodestamper_0", "timeoverlay_0">>, <<"timeoverlay_0", "t1">>,
                   <<"t1", "h264_0">> >> \o StreamEndLinks,
     stored |-> {"cam", "timecodestamper_0", "timeoverlay_0", "thumb_0", "h264_0", "h264_ipsink_0", "rtp_0", "udp_0"}]

make_imx219_pipeline(mode) ==
    [bins   |-> [cam |-> nvac_imx219_pipe, t0 |-> nvvideoconvert_pipe, t1 |-> nvvideoconvert_pipe,
                 timecodestamper_0 |-> timecodestamper_pipe, timeoverlay_0 |-> timeoverlay_pipe,
                 thumb_0 |-> Thumbnail_nv3_pipe, h264_0 |-> h264_nvenc_bin,
                 h264_ipsink_0 |-> GST_interpipesink, rtp_0 |-> rtp_h264_pipe, udp_0 |-> rtpsink_pipe],
     init   |-> <<"cam", "t0", "t1", "timecodestamper_0", "timeoverlay_0", "thumb_0", "h264_0">> \o StreamEndInit,
     links  |-> << <<"cam", "thumb_0">>, <<"cam", "t0">>, <<"t0", "timecodestamper_0">>,
                   <<"timecodestamper_0", "timeoverlay_0">>, <<"timeoverlay_0", "t1">>,
                   <<"t1", "h264_0">> >> \o StreamEndLinks,
     stored |-> {"cam", "timecodestamper_0", "timeoverlay_0", "thumb_0", "h264_0", "h264_ipsink_0", "rtp_0", "udp_0"}]

make_alvium_pipeline(mode) ==
    [bins   |-> [cam |-> V4L2_alvium_pipe, thumb_0 |-> Thumbnail_nv3_pipe, h264_0 |-> h264_nvenc_bin,
                 h264_ipsink_0 |-> GST_interpipesink, rtp_0 |-> rtp_h264_pipe, udp_0 |-> rtpsink_pipe],
     init   |-> <<"cam", "thumb_0", "h264_0">> \o StreamEndInit,
     links  |-> << <<"cam", "thumb_0">>, <<"cam", "h264_0">> >> \o StreamEndLinks,
     stored |-> {"cam", "thumb_0", "h264_0", "h264_ipsink_0", "rtp_0", "udp_0"}]

make_virtual_pipeline(mode) ==
    [bins   |-> [cam |-> Testsrc_pipe, timecodestamper_0 |-> timecodestamper_pipe,
                 timeoverlay_0 |-> timeoverlay_pipe, thumb_0 |-> Thumbnail_sw_pipe, h264_0 |-> h264Bin(mode),
                 h264_ipsink_0 |-> GST_interpipesink, rtp_0 |-> rtp_h264_pipe, udp_0 |-> rtpsink_pipe],
     init   |-> <<"cam", "timecodestamper_0", "timeoverlay_0", "thumb_0", "h264_0">> \o StreamEndInit,
     links  |-> << <<"cam", "thumb_0">>, <<"cam", "timecodestamper_0">>,
                   <<"timecodestamper_0", "timeoverlay_0">>, <<"timeoverlay_0", "h264_0">> >> \o StreamEndLinks,
     stored |-> {"cam", "timecodestamper_0", "timeoverlay_0", "thumb_0", "h264_0", "h264_ipsink_0", "rtp_0", "udp_0"}]

KnownTypes == {"brio", "imx219", "alvium", "virtual"}

(* The recipes of the known pipeline types; make_pipeline returns false for any other. *)
make_pipeline ==
    [brio    |-> [mode \in Modes |-> make_brio_pipeline(mode)],
     imx219  |-> [mode \in Modes |-> make_imx219_pipeline(mode)],
     alvium  |-> [mode \in Modes |-> make_alvium_pipeline(mode)],
     virtual |-> [mode \in Modes |-> make_virtual_pipeline(mode)]]

-----------------------------------------------------------------------------
(* What can reach the back of every bin once the first n links are made,   *)
(* when a front() nothing is linked to is offered the media S.             *)
Reached(r, n, S) ==
    LET reach[k \in 0 .. n] ==
            IF k = 0
            THEN [b \in DOMAIN r.bins |-> Output(r.bins[b], S)]
            ELSE LET from == r.links[k][1]
                     to   == r.links[k][2]
                 IN  [reach[k - 1] EXCEPT ![to] = Output(r.bins[to], reach[k - 1][from])]
    IN  reach[n]

(* The n-th link_back(): Gst::Element::link throws when the two sides have *)
(* no medium in common.                                                    *)
LinkAccepted(r, n) == Reached(r, n, Media)[r.links[n][2]] # {}

LinkOutcome ==
    [type \in KnownTypes |-> [mode \in Modes |->
        LET r == make_pipeline[type][mode] IN [n \in DOMAIN r.links |-> LinkAccepted(r, n)]]]

(* What the pipeline's ends are there for: JPEG thumbnails, an elementary  *)
(* stream to record, RTP packets.                                          *)
Consumers ==
    [thumb_0 |-> {"jpeg"}, h264_ipsink_0 |-> {"h264"}, udp_0 |-> {"rtp"}]

(* Every end of the finished pipeline gets its medium from the camera.     *)
Fed ==
    [type \in KnownTypes |-> [mode \in Modes |->
        LET r == make_pipeline[type][mode]
        IN  \A c \in DOMAIN Consumers : Reached(r, Len(r.links), {})[c] = Consumers[c]]]

=============================================================================
