------------------------ MODULE PipelineBuild_proofs ------------------------
(***************************************************************************)
(* What the recipes of PipelineBuild link and carry, in every mode: what   *)
(* comes out of a chain of elements, what every bin makes of what it is    *)
(* offered, and what the links of every recipe carry.                      *)
(***************************************************************************)
EXTENDS PipelineBuild, WellFoundedInduction, TLAPS

(* Induction over numbers, as the least element of a set of them. *)
LEMMA LeastNumber ==
    ASSUME NEW T \in SUBSET Nat, T # {}
    PROVE  \E m \in T : \A n \in T : m <= n
<1> DEFINE R == OpToRel(<, Nat)
<1>1. IsWellFoundedOn(R, Nat)
  BY NatLessThanWellFounded, Zenon
<1>2. \A a, b \in Nat : a < b => <<a, b>> \in R
  BY DEF OpToRel
<1> HIDE DEF R
<1>3. PICK m \in T : \A n \in T : ~(<<n, m>> \in R)
  BY <1>1, WFMin, Zenon
<1>4. ASSUME NEW n \in T PROVE m <= n
  <2>1. m \in Nat /\ n \in Nat /\ ~(<<n, m>> \in R)
    BY <1>3
  <2> QED
    BY <1>2, <2>1
<1> QED
  BY <1>4

(* What an element makes of the media that reach it. *)
Through(e, X) == UNION {e[m] : m \in X}

(* A chain is passed element by element. *)
LEMMA FlowSteps ==
    ASSUME NEW chain, NEW S, Len(chain) \in Nat
    PROVE  \E f : /\ Flow(chain, S) = f[Len(chain)]
                  /\ f[0] = S
                  /\ \A i \in 1 .. Len(chain) : f[i] = Through(chain[i], f[i - 1])
<1> DEFINE N == Len(chain)
           Eq(f, n) == f = [i \in 0 .. n |-> IF i = 0 THEN S ELSE Through(chain[i], f[i - 1])]
           got == CHOOSE f : Eq(f, N)
<1>1. Flow(chain, S) = got[N]
  BY DEF Flow, Through
<1>2. \E f : Eq(f, N)
  <2> DEFINE T == {n \in Nat : ~\E f : Eq(f, n)}
  <2>1. SUFFICES T = {}
    OBVIOUS
  <2>2. SUFFICES ASSUME T # {} PROVE FALSE
    OBVIOUS
  <2>3. PICK n \in T : \A k \in T : n <= k
    BY <2>2, LeastNumber, Zenon
  <2>4. n # 0
    <3>1. Eq([i \in 0 .. 0 |-> S], 0)
      OBVIOUS
    <3> QED
      BY <3>1, Zenon
  <2>5. PICK f : Eq(f, n - 1)
    BY <2>3, <2>4, SMTT(30)
  <2> DEFINE g == [i \in 0 .. n |-> IF i = n THEN Through(chain[n], f[n - 1]) ELSE f[i]]
  <2>6. \A i \in 0 .. n : g[i] = IF i = 0 THEN S ELSE Through(chain[i], g[i - 1])
    BY <2>4, <2>5
  <2>7. Eq(g, n)
    BY <2>6
  <2> QED
    BY <2>7, Zenon
<1> HIDE DEF got
<1>3. Eq(got, N)
  BY <1>2, Zenon DEF got
<1> QED
  BY <1>1, <1>3

(* The last element of a chain works on what the others put out. *)
LEMMA FlowStep ==
    ASSUME NEW chain, NEW short, NEW S,
           Len(short) \in Nat, Len(chain) = Len(short) + 1,
           \A i \in 1 .. Len(short) : chain[i] = short[i]
    PROVE  Flow(chain, S) = Through(chain[Len(chain)], Flow(short, S))
<1> DEFINE n == Len(short)
<1>1. PICK f : /\ Flow(chain, S) = f[Len(chain)]
               /\ f[0] = S
               /\ \A i \in 1 .. Len(chain) : f[i] = Through(chain[i], f[i - 1])
  BY FlowSteps
<1>2. PICK g : /\ Flow(short, S) = g[Len(short)]
               /\ g[0] = S
               /\ \A i \in 1 .. Len(short) : g[i] = Through(short[i], g[i - 1])
  BY FlowSteps
<1>3. \A i \in 0 .. n : f[i] = g[i]
  <2> DEFINE T == {i \in 0 .. n : f[i] # g[i]}
  <2>1. SUFFICES ASSUME T # {} PROVE FALSE
    OBVIOUS
  <2>2. PICK i \in T : \A k \in T : i <= k
    <3>1. T \in SUBSET Nat
      OBVIOUS
    <3> HIDE DEF T
    <3> QED
      BY <2>1, <3>1, LeastNumber, SMTT(30)
  <2>3. i \in 1 .. n /\ i - 1 \in 0 .. n
    BY <1>1, <1>2
  <2>4. f[i - 1] = g[i - 1]
    BY <2>2, <2>3
  <2>5. f[i] = Through(chain[i], f[i - 1]) /\ g[i] = Through(short[i], g[i - 1])
    BY <1>1, <1>2, <2>3
  <2> QED
    BY <2>2, <2>3, <2>4, <2>5
<1>4. f[n + 1] = Through(chain[n + 1], f[n])
  BY <1>1
<1> QED
  BY <1>1, <1>2, <1>3, <1>4

(* Nothing happens in an empty chain. *)
LEMMA Flow0 == \A X : Flow(<<>>, X) = X
<1>1. Len(<<>>) = 0
  OBVIOUS
<1> QED
  BY <1>1, FlowSteps

(* A chain of one element, from the one that is offered X to the last. *)
LEMMA Flow1 ==
    ASSUME NEW X, NEW e1
    PROVE  Flow(<<e1>>, X) = Through(e1, X)
<1> DEFINE chain == <<e1>>
           short == <<>>
<1>1. Len(short) \in Nat /\ Len(chain) = Len(short) + 1 /\ chain[Len(chain)] = e1
  OBVIOUS
<1>2. \A i \in 1 .. Len(short) : chain[i] = short[i]
  OBVIOUS
<1>3. Flow(short, X) = X
  BY Flow0
<1> HIDE DEF chain, short
<1>4. Flow(chain, X) = Through(chain[Len(chain)], Flow(short, X))
  BY <1>1, <1>2, FlowStep
<1> QED
  BY <1>1, <1>3, <1>4 DEF chain

(* A chain of two elements, from the one that is offered X to the last. *)
LEMMA Flow2 ==
    ASSUME NEW X, NEW e1, NEW e2
    PROVE  Flow(<<e1, e2>>, X) = Through(e2, Through(e1, X))
<1> DEFINE chain == <<e1, e2>>
           short == <<e1>>
<1>1. Len(short) \in Nat /\ Len(chain) = Len(short) + 1 /\ chain[Len(chain)] = e2
  OBVIOUS
<1>2. \A i \in 1 .. Len(short) : chain[i] = short[i]
  OBVIOUS
<1>3. Flow(short, X) = Through(e1, X)
  BY Flow1
<1> HIDE DEF chain, short
<1>4. Flow(chain, X) = Through(chain[Len(chain)], Flow(short, X))
  BY <1>1, <1>2, FlowStep
<1> QED
  BY <1>1, <1>3, <1>4 DEF chain

(* A chain of three elements, from the one that is offered X to the last. *)
LEMMA Flow3 ==
    ASSUME NEW X, NEW e1, NEW e2, NEW e3
    PROVE  Flow(<<e1, e2, e3>>, X) = Through(e3, Through(e2, Through(e1, X)))
<1> DEFINE chain == <<e1, e2, e3>>
           short == <<e1, e2>>
<1>1. Len(short) \in Nat /\ Len(chain) = Len(short) + 1 /\ chain[Len(chain)] = e3
  OBVIOUS
<1>2. \A i \in 1 .. Len(short) : chain[i] = short[i]
  OBVIOUS
<1>3. Flow(short, X) = Through(e2, Through(e1, X))
  BY Flow2
<1> HIDE DEF chain, short
<1>4. Flow(chain, X) = Through(chain[Len(chain)], Flow(short, X))
  BY <1>1, <1>2, FlowStep
<1> QED
  BY <1>1, <1>3, <1>4 DEF chain

(* A chain of four elements, from the one that is offered X to the last. *)
LEMMA Flow4 ==
    ASSUME NEW X, NEW e1, NEW e2, NEW e3, NEW e4
    PROVE  Flow(<<e1, e2, e3, e4>>, X) = Through(e4, Through(e3, Through(e2, Through(e1, X))))
<1> DEFINE chain == <<e1, e2, e3, e4>>
           short == <<e1, e2, e3>>
<1>1. Len(short) \in Nat /\ Len(chain) = Len(short) + 1 /\ chain[Len(chain)] = e4
  OBVIOUS
<1>2. \A i \in 1 .. Len(short) : chain[i] = short[i]
  OBVIOUS
<1>3. Flow(short, X) = Through(e3, Through(e2, Through(e1, X)))
  BY Flow3
<1> HIDE DEF chain, short
<1>4. Flow(chain, X) = Through(chain[Len(chain)], Flow(short, X))
  BY <1>1, <1>2, FlowStep
<1> QED
  BY <1>1, <1>3, <1>4 DEF chain

(* A chain of five elements, from the one that is offered X to the last. *)
LEMMA Flow5 ==
    ASSUME NEW X, NEW e1, NEW e2, NEW e3, NEW e4, NEW e5
    PROVE  Flow(<<e1, e2, e3, e4, e5>>, X) =
               Through(e5, Through(e4, Through(e3, Through(e2, Through(e1, X)))))
<1> DEFINE chain == <<e1, e2, e3, e4, e5>>
           short == <<e1, e2, e3, e4>>
<1>1. Len(short) \in Nat /\ Len(chain) = Len(short) + 1 /\ chain[Len(chain)] = e5
  OBVIOUS
<1>2. \A i \in 1 .. Len(short) : chain[i] = short[i]
  OBVIOUS
<1>3. Flow(short, X) = Through(e4, Through(e3, Through(e2, Through(e1, X))))
  BY Flow4
<1> HIDE DEF chain, short
<1>4. Flow(chain, X) = Through(chain[Len(chain)], Flow(short, X))
  BY <1>1, <1>2, FlowStep
<1> QED
  BY <1>1, <1>3, <1>4 DEF chain

(* A chain of six elements, from the one that is offered X to the last. *)
LEMMA Flow6 ==
    ASSUME NEW X, NEW e1, NEW e2, NEW e3, NEW e4, NEW e5, NEW e6
    PROVE  Flow(<<e1, e2, e3, e4, e5, e6>>, X) =
               Through(e6, Through(e5, Through(e4, Through(e3, Through(e2, Through(e1, X))))))
<1> DEFINE chain == <<e1, e2, e3, e4, e5, e6>>
           short == <<e1, e2, e3, e4, e5>>
<1>1. Len(short) \in Nat /\ Len(chain) = Len(short) + 1 /\ chain[Len(chain)] = e6
  OBVIOUS
<1>2. \A i \in 1 .. Len(short) : chain[i] = short[i]
  OBVIOUS
<1>3. Flow(short, X) = Through(e5, Through(e4, Through(e3, Through(e2, Through(e1, X)))))
  BY Flow5
<1> HIDE DEF chain, short
<1>4. Flow(chain, X) = Through(chain[Len(chain)], Flow(short, X))
  BY <1>1, <1>2, FlowStep
<1> QED
  BY <1>1, <1>3, <1>4 DEF chain

(* A chain of seven elements, from the one that is offered X to the last. *)
LEMMA Flow7 ==
    ASSUME NEW X, NEW e1, NEW e2, NEW e3, NEW e4, NEW e5, NEW e6, NEW e7
    PROVE  Flow(<<e1, e2, e3, e4, e5, e6, e7>>, X) =
               Through(e7, Through(e6, Through(e5, Through(e4, Through(e3, Through(e2, Through(e1, X)))))))
<1> DEFINE chain == <<e1, e2, e3, e4, e5, e6, e7>>
           short == <<e1, e2, e3, e4, e5, e6>>
<1>1. Len(short) \in Nat /\ Len(chain) = Len(short) + 1 /\ chain[Len(chain)] = e7
  OBVIOUS
<1>2. \A i \in 1 .. Len(short) : chain[i] = short[i]
  OBVIOUS
<1>3. Flow(short, X) = Through(e6, Through(e5, Through(e4, Through(e3, Through(e2, Through(e1, X))))))
  BY Flow6
<1> HIDE DEF chain, short
<1>4. Flow(chain, X) = Through(chain[Len(chain)], Flow(short, X))
  BY <1>1, <1>2, FlowStep
<1> QED
  BY <1>1, <1>3, <1>4 DEF chain

(* A chain of eight elements, from the one that is offered X to the last. *)
LEMMA Flow8 ==
    ASSUME NEW X, NEW e1, NEW e2, NEW e3, NEW e4, NEW e5, NEW e6, NEW e7, NEW e8
    PROVE  Flow(<<e1, e2, e3, e4, e5, e6, e7, e8>>, X) =
               Through(e8, Through(e7, Through(e6, Through(e5, Through(e4, Through(e3, Through(e2, Through(e1, X))))))))
<1> DEFINE chain == <<e1, e2, e3, e4, e5, e6, e7, e8>>
           short == <<e1, e2, e3, e4, e5, e6, e7>>
<1>1. Len(short) \in Nat /\ Len(chain) = Len(short) + 1 /\ chain[Len(chain)] = e8
  OBVIOUS
<1>2. \A i \in 1 .. Len(short) : chain[i] = short[i]
  OBVIOUS
<1>3. Flow(short, X) = Through(e7, Through(e6, Through(e5, Through(e4, Through(e3, Through(e2, Through(e1, X)))))))
  BY Flow7
<1> HIDE DEF chain, short
<1>4. Flow(chain, X) = Through(chain[Len(chain)], Flow(short, X))
  BY <1>1, <1>2, FlowStep
<1> QED
  BY <1>1, <1>3, <1>4 DEF chain

(* A filter lets some of the media through that reach it ... *)
LEMMA Filtered ==
    ASSUME NEW X \in SUBSET Media, NEW T \in SUBSET Media
    PROVE  Through(AnyOf(T), X) = X \cap T
<1>1. \A m \in X : AnyOf(T)[m] = {m} \cap T
  BY DEF AnyOf
<1>2. \A a : a \in Through(AnyOf(T), X) <=> \E m \in X : a \in AnyOf(T)[m]
  BY DEF Through
<1> QED
  BY <1>1, <1>2

(* ... a queue or a tee all of them ... *)
LEMMA Passed ==
    ASSUME NEW X \in SUBSET Media
    PROVE  Through(Pass, X) = X
<1>1. Media \in SUBSET Media /\ X \cap Media = X
  OBVIOUS
<1> QED
  BY <1>1, Filtered DEF Pass

(* ... and a converter puts out media of its own if one arrives it takes. *)
LEMMA Converted ==
    ASSUME NEW X \in SUBSET Media, NEW A \in SUBSET Media, NEW T \in SUBSET Media
    PROVE  Through(Convert(A, T), X) = IF X \cap A = {} THEN {} ELSE T
<1>1. \A m \in X : Convert(A, T)[m] = IF m \in A THEN T ELSE {}
  BY DEF Convert
<1>2. \A a : a \in Through(Convert(A, T), X) <=> \E m \in X : a \in Convert(A, T)[m]
  BY DEF Through
<1> QED
  BY <1>1, <1>2

(* A bin with a front() passes on what its chain makes of it; a camera puts *)
(* out what its chain makes of its source.                                  *)
LEMMA BinOutput ==
    ASSUME NEW b, NEW X
    PROVE  Output(b, X) = Flow(b.chain, IF b.source = {} THEN X ELSE b.source)
BY DEF Output

(* What the cameras put out, whatever X is offered. *)
LEMMA CameraBins ==
    ASSUME NEW X \in SUBSET Media
    PROVE  /\ Output(V4L2_webcam_pipe, X) = {"jpeg"}
           /\ Output(nvac_imx219_pipe, X) = {"nvmm"}
           /\ Output(V4L2_alvium_pipe, X) = {"nvmm"}
           /\ Output(Testsrc_pipe, X) = {"raw"}
<1>1. Output(V4L2_webcam_pipe, X) = {"jpeg"}
  <2>1. /\ V4L2_webcam_pipe.source = {"jpeg"}
        /\ V4L2_webcam_pipe.chain = <<AnyOf({"jpeg"}), videorate, AnyOf({"jpeg"}), Pass, Pass>>
    BY DEF V4L2_webcam_pipe, Camera, Bin
  <2>2. Output(V4L2_webcam_pipe, X) = Flow(<<AnyOf({"jpeg"}), videorate, AnyOf({"jpeg"}), Pass, Pass>>, {"jpeg"})
    BY <2>1, BinOutput, Zenon
  <2>3. Output(V4L2_webcam_pipe, X) =
            Through(Pass, Through(Pass, Through(AnyOf({"jpeg"}), Through(videorate, Through(AnyOf({"jpeg"}), {"jpeg"})))))
    BY <2>2, Flow5
  <2> QED
    BY <2>3, Filtered, Passed, Converted DEF Media, videorate
<1>2. Output(nvac_imx219_pipe, X) = {"nvmm"}
  <2>1. nvac_imx219_pipe.source = {"nvmm"} /\ nvac_imx219_pipe.chain = <<AnyOf({"nvmm"}), Pass, Pass>>
    BY DEF nvac_imx219_pipe, Camera, Bin
  <2>2. Output(nvac_imx219_pipe, X) = Flow(<<AnyOf({"nvmm"}), Pass, Pass>>, {"nvmm"})
    BY <2>1, BinOutput
  <2>3. Output(nvac_imx219_pipe, X) =
            Through(Pass, Through(Pass, Through(AnyOf({"nvmm"}), {"nvmm"})))
    BY <2>2, Flow3
  <2> QED
    BY <2>3, Filtered, Passed, Converted DEF Media
<1>3. Output(V4L2_alvium_pipe, X) = {"nvmm"}
  <2>1. /\ V4L2_alvium_pipe.source = {"raw"}
        /\ V4L2_alvium_pipe.chain = <<Pass, nvvidconv, AnyOf({"nvmm"}), Pass, Pass>>
    BY DEF V4L2_alvium_pipe, Camera, Bin
  <2>2. Output(V4L2_alvium_pipe, X) = Flow(<<Pass, nvvidconv, AnyOf({"nvmm"}), Pass, Pass>>, {"raw"})
    BY <2>1, BinOutput
  <2>3. Output(V4L2_alvium_pipe, X) =
            Through(Pass, Through(Pass, Through(AnyOf({"nvmm"}), Through(nvvidconv, Through(Pass, {"raw"})))))
    BY <2>2, Flow5
  <2> QED
    BY <2>3, Filtered, Passed, Converted DEF Media, nvvidconv
<1>4. Output(Testsrc_pipe, X) = {"raw"}
  <2>1. Testsrc_pipe.source = {"raw"} /\ Testsrc_pipe.chain = <<AnyOf({"raw"}), Pass, Pass>>
    BY DEF Testsrc_pipe, Camera, Bin
  <2>2. Output(Testsrc_pipe, X) = Flow(<<AnyOf({"raw"}), Pass, Pass>>, {"raw"})
    BY <2>1, BinOutput, Zenon
  <2>3. Output(Testsrc_pipe, X) =
            Through(Pass, Through(Pass, Through(AnyOf({"raw"}), {"raw"})))
    BY <2>2, Flow3
  <2> QED
    BY <2>3, Filtered, Passed, Converted DEF Media
<1> QED
  BY <1>1, <1>2, <1>3, <1>4

(* What the converters make of the media at their front(). *)
LEMMA ConverterBins ==
    ASSUME NEW X \in SUBSET Media
    PROVE  /\ Output(nvvideoconvert_pipe, X) = IF X \cap {"raw", "nvmm"} = {} THEN {} ELSE {"raw", "nvmm"}
           /\ Output(timecodestamper_pipe, X) = X \cap {"raw"}
           /\ Output(timeoverlay_pipe, X) = X \cap {"raw"}
<1>1. Output(nvvideoconvert_pipe, X) = IF X \cap {"raw", "nvmm"} = {} THEN {} ELSE {"raw", "nvmm"}
  <2>1. nvvideoconvert_pipe.source = {} /\ nvvideoconvert_pipe.chain = <<nvvidconv, Pass>>
    BY DEF nvvideoconvert_pipe, Bin
  <2>2. Output(nvvideoconvert_pipe, X) =
            Through(Pass, Through(nvvidconv, X))
    BY <2>1, BinOutput, Flow2
  <2> QED
    BY <2>2, Filtered, Passed, Converted DEF Media, nvvidconv
<1>2. Output(timecodestamper_pipe, X) = X \cap {"raw"}
  <2>1. timecodestamper_pipe.source = {} /\ timecodestamper_pipe.chain = <<timecodestamper, Pass>>
    BY DEF timecodestamper_pipe, Bin
  <2>2. Output(timecodestamper_pipe, X) =
            Through(Pass, Through(timecodestamper, X))
    BY <2>1, BinOutput, Flow2
  <2> QED
    BY <2>2, Filtered, Passed, Converted DEF Media, timecodestamper
<1>3. Output(timeoverlay_pipe, X) = X \cap {"raw"}
  <2>1. timeoverlay_pipe.source = {} /\ timeoverlay_pipe.chain = <<timeoverlay, Pass>>
    BY DEF timeoverlay_pipe, Bin
  <2>2. Output(timeoverlay_pipe, X) =
            Through(Pass, Through(timeoverlay, X))
    BY <2>1, BinOutput, Flow2
  <2> QED
    BY <2>2, Filtered, Passed, Converted DEF Media, timeoverlay
<1> QED
  BY <1>1, <1>2, <1>3

(* What the decoders and the encoders make of them. *)
LEMMA CodecBins ==
    ASSUME NEW X \in SUBSET Media
    PROVE  /\ Output(jpeg_nvv4l2decoder_bin, X) = IF X \cap {"jpeg", "h264"} = {} THEN {} ELSE {"raw"}
           /\ Output(jpeg_swdec_bin, X) = IF X \cap {"jpeg"} = {} THEN {} ELSE {"raw"}
           /\ Output(h264_nvenc_bin, X) = IF X \cap {"raw", "nvmm"} = {} THEN {} ELSE {"h264"}
           /\ Output(h264_swenc_bin, X) = IF X \cap {"raw"} = {} THEN {} ELSE {"h264"}
<1>1. Output(jpeg_nvv4l2decoder_bin, X) = IF X \cap {"jpeg", "h264"} = {} THEN {} ELSE {"raw"}
  <2>1. /\ jpeg_nvv4l2decoder_bin.source = {}
        /\ jpeg_nvv4l2decoder_bin.chain = <<Pass, nvv4l2decoder, nvvidconv, AnyOf({"raw"}), Pass>>
    BY DEF jpeg_nvv4l2decoder_bin, Bin
  <2>2. Output(jpeg_nvv4l2decoder_bin, X) =
            Through(Pass, Through(AnyOf({"raw"}), Through(nvvidconv, Through(nvv4l2decoder, Through(Pass, X)))))
    BY <2>1, BinOutput, Flow5
  <2> QED
    BY <2>2, Filtered, Passed, Converted DEF Media, nvv4l2decoder, nvvidconv
<1>2. Output(jpeg_swdec_bin, X) = IF X \cap {"jpeg"} = {} THEN {} ELSE {"raw"}
  <2>1. jpeg_swdec_bin.source = {} /\ jpeg_swdec_bin.chain = <<Pass, jpegdec, AnyOf({"raw"}), Pass>>
    BY DEF jpeg_swdec_bin, Bin
  <2>2. Output(jpeg_swdec_bin, X) =
            Through(Pass, Through(AnyOf({"raw"}), Through(jpegdec, Through(Pass, X))))
    BY <2>1, BinOutput, Flow4
  <2> QED
    BY <2>2, Filtered, Passed, Converted DEF Media, jpegdec
<1>3. Output(h264_nvenc_bin, X) = IF X \cap {"raw", "nvmm"} = {} THEN {} ELSE {"h264"}
  <2>1. /\ h264_nvenc_bin.source = {}
        /\ h264_nvenc_bin.chain = <<Pass, nvvidconv, omxh264enc, h264parse, AnyOf({"h264"}), Pass>>
    BY DEF h264_nvenc_bin, Bin
  <2>2. Output(h264_nvenc_bin, X) =
            Through(Pass, Through(AnyOf({"h264"}), Through(h264parse, Through(omxh264enc, Through(nvvidconv, Through(Pass, X))))))
    BY <2>1, BinOutput, Flow6
  <2> QED
    BY <2>2, Filtered, Passed, Converted DEF Media, h264parse, nvvidconv, omxh264enc
<1>4. Output(h264_swenc_bin, X) = IF X \cap {"raw"} = {} THEN {} ELSE {"h264"}
  <2>1. /\ h264_swenc_bin.source = {}
        /\ h264_swenc_bin.chain = <<Pass, x264enc, AnyOf({"h264"}), h264parse, Pass>>
    BY DEF h264_swenc_bin, Bin
  <2>2. Output(h264_swenc_bin, X) =
            Through(Pass, Through(h264parse, Through(AnyOf({"h264"}), Through(x264enc, Through(Pass, X)))))
    BY <2>1, BinOutput, Flow5
  <2> QED
    BY <2>2, Filtered, Passed, Converted DEF Media, h264parse, x264enc
<1> QED
  BY <1>1, <1>2, <1>3, <1>4

(* What the thumbnails are made of. *)
LEMMA ThumbnailBins ==
    ASSUME NEW X \in SUBSET Media
    PROVE  /\ Output(Thumbnail_nv_pipe, X) = IF X \cap {"jpeg"} = {} THEN {} ELSE {"jpeg"}
           /\ Output(Thumbnail_nv3_pipe, X) = IF X \cap {"raw", "nvmm"} = {} THEN {} ELSE {"jpeg"}
           /\ Output(Thumbnail_sw_pipe, X) = IF X \cap {"raw"} = {} THEN {} ELSE {"jpeg"}
<1>1. Output(Thumbnail_nv_pipe, X) = IF X \cap {"jpeg"} = {} THEN {} ELSE {"jpeg"}
  <2>1. /\ Thumbnail_nv_pipe.source = {}
        /\ Thumbnail_nv_pipe.chain = <<Pass, videorate, nvv4l2decoder, nvvidconv, Pass, nvjpegenc, AnyOf({"jpeg"}), AnyOf({"jpeg"})>>
    BY DEF Thumbnail_nv_pipe, Bin
  <2>2. Output(Thumbnail_nv_pipe, X) =
            Through(AnyOf({"jpeg"}), Through(AnyOf({"jpeg"}), Through(nvjpegenc, Through(Pass, Through(nvvidconv, Through(nvv4l2decoder, Through(videorate, Through(Pass, X))))))))
    BY <2>1, BinOutput, Flow8
  <2>3. Through(nvv4l2decoder, Through(videorate, Through(Pass, X))) =
            IF X \cap {"jpeg"} = {} THEN {} ELSE {"nvmm"}
    BY Filtered, Passed, Converted DEF Media, nvv4l2decoder, videorate
  <2>4. Through(Pass, Through(nvvidconv, Through(nvv4l2decoder, Through(videorate, Through(Pass, X))))) =
            IF X \cap {"jpeg"} = {} THEN {} ELSE {"raw", "nvmm"}
    BY <2>3, Passed, Converted DEF Media, nvvidconv
  <2> QED
    BY <2>2, <2>4, Filtered, Converted DEF Media, nvjpegenc
<1>2. Output(Thumbnail_nv3_pipe, X) = IF X \cap {"raw", "nvmm"} = {} THEN {} ELSE {"jpeg"}
  <2>1. /\ Thumbnail_nv3_pipe.source = {}
        /\ Thumbnail_nv3_pipe.chain = <<Pass, videorate, nvvidconv, Pass, nvjpegenc, AnyOf({"jpeg"}), AnyOf({"jpeg"})>>
    BY DEF Thumbnail_nv3_pipe, Bin
  <2>2. Output(Thumbnail_nv3_pipe, X) =
            Through(AnyOf({"jpeg"}), Through(AnyOf({"jpeg"}), Through(nvjpegenc, Through(Pass, Through(nvvidconv, Through(videorate, Through(Pass, X)))))))
    BY <2>1, BinOutput, Flow7
  <2>3. Through(videorate, Through(Pass, X)) = X \cap {"raw", "nvmm", "jpeg"}
    BY Filtered, Passed, Converted DEF Media, nvv4l2decoder, videorate
  <2>4. Through(Pass, Through(nvvidconv, Through(videorate, Through(Pass, X)))) =
            IF X \cap {"raw", "nvmm"} = {} THEN {} ELSE {"raw", "nvmm"}
    BY <2>3, Passed, Converted DEF Media, nvvidconv
  <2> QED
    BY <2>2, <2>4, Filtered, Converted DEF Media, nvjpegenc
<1>3. Output(Thumbnail_sw_pipe, X) = IF X \cap {"raw"} = {} THEN {} ELSE {"jpeg"}
  <2>1. /\ Thumbnail_sw_pipe.source = {}
        /\ Thumbnail_sw_pipe.chain = <<Pass, videorate, videoscale, Pass, jpegenc, AnyOf({"jpeg"}), AnyOf({"jpeg"})>>
    BY DEF Thumbnail_sw_pipe, Bin
  <2>2. Output(Thumbnail_sw_pipe, X) =
            Through(AnyOf({"jpeg"}), Through(AnyOf({"jpeg"}), Through(jpegenc, Through(Pass, Through(videoscale, Through(videorate, Through(Pass, X)))))))
    BY <2>1, BinOutput, Flow7
  <2> QED
    BY <2>2, Filtered, Passed, Converted DEF Media, jpegenc, videorate, videoscale
<1> QED
  BY <1>1, <1>2, <1>3

(* What reaches the interpipes and the RTP sinks. *)
LEMMA StreamBins ==
    ASSUME NEW X \in SUBSET Media
    PROVE  /\ Output(GST_interpipesink, X) = X
           /\ Output(rtp_h264_pipe, X) = IF X \cap {"h264"} = {} THEN {} ELSE {"rtp"}
           /\ Output(rtpsink_pipe, X) = X \cap {"rtp"}
<1>1. Output(GST_interpipesink, X) = X
  <2>1. GST_interpipesink.source = {} /\ GST_interpipesink.chain = <<Pass, Pass>>
    BY DEF GST_interpipesink, Bin
  <2>2. Output(GST_interpipesink, X) =
            Through(Pass, Through(Pass, X))
    BY <2>1, BinOutput, Flow2
  <2> QED
    BY <2>2, Filtered, Passed, Converted DEF Media
<1>2. Output(rtp_h264_pipe, X) = IF X \cap {"h264"} = {} THEN {} ELSE {"rtp"}
  <2>1. rtp_h264_pipe.source = {} /\ rtp_h264_pipe.chain = <<Pass, rtph264pay, Pass>>
    BY DEF rtp_h264_pipe, Bin
  <2>2. Output(rtp_h264_pipe, X) =
            Through(Pass, Through(rtph264pay, Through(Pass, X)))
    BY <2>1, BinOutput, Flow3
  <2> QED
    BY <2>2, Filtered, Passed, Converted DEF Media, rtph264pay
<1>3. Output(rtpsink_pipe, X) = X \cap {"rtp"}
  <2>1. rtpsink_pipe.source = {} /\ rtpsink_pipe.chain = <<Pass, rtpbin, Pass, Pass>>
    BY DEF rtpsink_pipe, Bin
  <2>2. Output(rtpsink_pipe, X) =
            Through(Pass, Through(Pass, Through(rtpbin, Through(Pass, X))))
    BY <2>1, BinOutput, Flow4, SMTT(30)
  <2> QED
    BY <2>2, Filtered, Passed, Converted DEF Media, rtpbin
<1> QED
  BY <1>1, <1>2, <1>3

(* What is at the back of every bin before the first link, and what the    *)
(* k-th link makes of it.                                                  *)
Unlinked(r, S) == [b \in DOMAIN r.bins |-> Output(r.bins[b], S)]
Link(r, k, g)  == [g EXCEPT ![r.links[k][2]] = Output(r.bins[r.links[k][2]], g[r.links[k][1]])]

(* f is what the first N links of recipe r make of the media S, one by one. *)
LinkedUp(f, r, N, S) ==
    /\ Reached(r, N, S) = f[N]
    /\ f[0] = Unlinked(r, S)
    /\ \A k \in 1 .. N : f[k] = Link(r, k, f[k - 1])

(* The links are made one by one. *)
LEMMA ReachSteps ==
    ASSUME NEW r, NEW N \in Nat, NEW S
    PROVE  \E f : LinkedUp(f, r, N, S)
<1> DEFINE Eq(f, n) == f = [k \in 0 .. n |-> IF k = 0 THEN Unlinked(r, S) ELSE Link(r, k, f[k - 1])]
           got == CHOOSE f : Eq(f, N)
<1>1. Reached(r, N, S) = got[N]
  BY DEF Reached, Unlinked, Link
<1>2. \E f : Eq(f, N)
  <2> DEFINE T == {n \in Nat : ~\E f : Eq(f, n)}
  <2>1. SUFFICES T = {}
    BY Zenon
  <2>2. SUFFICES ASSUME T # {} PROVE FALSE
    OBVIOUS
  <2>3. PICK n \in T : \A k \in T : n <= k
    BY <2>2, LeastNumber, Zenon
  <2>4. n # 0
    <3>1. Eq([k \in 0 .. 0 |-> Unlinked(r, S)], 0)
      OBVIOUS
    <3> QED
      BY <3>1, Zenon
  <2>5. PICK f : Eq(f, n - 1)
    <3>1. n - 1 \in Nat /\ ~(n <= n - 1)
      BY <2>4
    <3>2. n - 1 \notin T
      BY <2>3, <3>1, SMTT(30)
    <3> QED
      BY <3>1, <3>2
  <2> DEFINE g == [k \in 0 .. n |-> IF k = n THEN Link(r, n, f[n - 1]) ELSE f[k]]
  <2>6. \A k \in 0 .. n : g[k] = IF k = 0 THEN Unlinked(r, S) ELSE Link(r, k, g[k - 1])
    BY <2>4, <2>5
  <2>7. Eq(g, n)
    BY <2>6
  <2> QED
    BY <2>7, Zenon
<1> HIDE DEF got
<1>3. Eq(got, N)
  BY <1>2, Zenon DEF got
<1>4. got[0] = Unlinked(r, S) /\ \A k \in 1 .. N : got[k] = Link(r, k, got[k - 1])
  BY <1>3
<1> QED
  BY <1>1, <1>4 DEF LinkedUp

(* The links of recipe r are made in an order in which every bin but the   *)
(* camera is fed before it feeds another, and want is what comes out of    *)
(* the bins.                                                               *)
CarriesLink(r, want, j) ==
    /\ r.links[j][2] \in DOMAIN r.bins \ {"cam"}
    /\ r.links[j][1] = "cam" \/ \E i \in 1 .. j - 1 : r.links[i][2] = r.links[j][1]
    /\ Output(r.bins[r.links[j][2]], want[r.links[j][1]]) = want[r.links[j][2]]

Carries(r, want, S) ==
    /\ "cam" \in DOMAIN r.bins /\ Output(r.bins["cam"], S) = want["cam"]
    /\ \A j \in 1 .. Len(r.links) : CarriesLink(r, want, j)

(* Then every linked bin puts out what is wanted of it, from the moment it *)
(* is linked.                                                              *)
LEMMA RecipeReaches ==
    ASSUME NEW r, NEW want, NEW S, Len(r.links) \in Nat, Carries(r, want, S),
           NEW n \in Nat, n <= Len(r.links)
    PROVE  \A j \in 1 .. n : Reached(r, n, S)[r.links[j][2]] = want[r.links[j][2]]
<1>0. PICK f : LinkedUp(f, r, n, S)
  BY ReachSteps, Zenon
<1>1. /\ Reached(r, n, S) = f[n]
      /\ f[0] = Unlinked(r, S)
      /\ \A k \in 1 .. n : f[k] = Link(r, k, f[k - 1])
  BY <1>0 DEF LinkedUp
<1> DEFINE to(j) == r.links[j][2]
           from(j) == r.links[j][1]
<1>2. \A j \in 1 .. n : /\ to(j) \in DOMAIN r.bins \ {"cam"}
                        /\ from(j) = "cam" \/ \E i \in 1 .. j - 1 : to(i) = from(j)
                        /\ Output(r.bins[to(j)], want[from(j)]) = want[to(j)]
  BY DEF Carries, CarriesLink
<1>3. "cam" \in DOMAIN r.bins /\ Output(r.bins["cam"], S) = want["cam"]
  BY DEF Carries
<1> HIDE DEF to, from
<1> DEFINE Good(k) == /\ f[k] = [b \in DOMAIN r.bins |-> f[k][b]]
                      /\ f[k]["cam"] = want["cam"]
                      /\ \A j \in 1 .. k : f[k][to(j)] = want[to(j)]
           T == {k \in 0 .. n : ~Good(k)}
<1>4. T = {}
  <2>1. SUFFICES ASSUME T # {} PROVE FALSE
    OBVIOUS
  <2>2. PICK k \in T : \A m \in T : k <= m
    <3>1. T \in SUBSET Nat
      OBVIOUS
    <3> HIDE DEF T
    <3> QED
      BY <2>1, <3>1, LeastNumber
  <2>3. k # 0
    <3>1. Good(0)
      BY <1>1, <1>3 DEF Unlinked
    <3> QED
      BY <2>2, <3>1
  <2>4. k - 1 \in 0 .. n /\ Good(k - 1)
    BY <2>2, <2>3, SMTT(30)
  <2>5. f[k] = [f[k - 1] EXCEPT ![to(k)] = Output(r.bins[to(k)], f[k - 1][from(k)])]
    BY <1>1, <2>2, <2>3, SMTT(30) DEF Link, to, from
  <2>6. f[k - 1][from(k)] = want[from(k)]
    BY <1>2, <2>2, <2>3, <2>4
  <2>7. \A b \in DOMAIN r.bins : f[k][b] = IF b = to(k) THEN want[to(k)] ELSE f[k - 1][b]
    BY <1>2, <2>2, <2>3, <2>4, <2>5, <2>6
  <2>8. f[k] = [b \in DOMAIN r.bins |-> f[k][b]]
    BY <2>4, <2>5
  <2>9. \A j \in 1 .. k : to(j) \in DOMAIN r.bins /\ f[k][to(j)] = want[to(j)]
    <3> SUFFICES ASSUME NEW j \in 1 .. k
                 PROVE  to(j) \in DOMAIN r.bins /\ f[k][to(j)] = want[to(j)]
      OBVIOUS
    <3>1. to(j) \in DOMAIN r.bins
      BY <1>2, <2>2
    <3>2. j # k => j \in 1 .. k - 1
      BY <2>2
    <3> QED
      BY <2>4, <2>7, <3>1, <3>2, Zenon
  <2>10. f[k]["cam"] = want["cam"]
    BY <1>2, <1>3, <2>2, <2>3, <2>4, <2>7, Zenon
  <2> QED
    BY <2>2, <2>8, <2>9, <2>10, Zenon
<1>5. Good(n)
  <2>1. n \in 0 .. n
    OBVIOUS
  <2>2. n \notin T
    <3> HIDE DEF T
    <3> QED
      BY <1>4
  <2> HIDE DEF Good
  <2> QED
    BY <2>1, <2>2
<1> QED
  BY <1>1, <1>5 DEF to

(* So a link is refused exactly when nothing is to come out of its bin, and *)
(* every linked bin is fed by the camera.                                   *)
LEMMA CarriedIsLinked ==
    ASSUME NEW r, NEW want, Len(r.links) \in Nat, \A S \in SUBSET Media : Carries(r, want, S)
    PROVE  \A n \in 1 .. Len(r.links) :
              /\ LinkAccepted(r, n) <=> want[r.links[n][2]] # {}
              /\ Reached(r, Len(r.links), {})[r.links[n][2]] = want[r.links[n][2]]
<1> TAKE n \in 1 .. Len(r.links)
<1>1. n \in Nat /\ n <= Len(r.links) /\ n \in 1 .. n /\ Len(r.links) <= Len(r.links)
  OBVIOUS
<1>2. Carries(r, want, Media) /\ Carries(r, want, {})
  OBVIOUS
<1>3. Reached(r, n, Media)[r.links[n][2]] = want[r.links[n][2]]
  BY <1>1, <1>2, RecipeReaches
<1>4. Reached(r, Len(r.links), {})[r.links[n][2]] = want[r.links[n][2]]
  BY <1>1, <1>2, RecipeReaches
<1> QED
  BY <1>3, <1>4 DEF LinkAccepted

(* What comes out of the bins of the Alvium pipeline. *)
AlviumWant ==
    [cam |-> {"nvmm"}, thumb_0 |-> {"jpeg"}, h264_0 |-> {"h264"}, h264_ipsink_0 |-> {"h264"},
     rtp_0 |-> {"rtp"}, udp_0 |-> {"rtp"}]

(* The links of the Alvium pipeline carry it there. *)
LEMMA AlviumCarries ==
    ASSUME NEW mode \in Modes, NEW S \in SUBSET Media
    PROVE  /\ DOMAIN make_alvium_pipeline(mode).links = 1 .. 5 /\ Len(make_alvium_pipeline(mode).links) = 5
           /\ make_alvium_pipeline(mode).links[1][2] = "thumb_0"
           /\ make_alvium_pipeline(mode).links[2][2] = "h264_0"
           /\ make_alvium_pipeline(mode).links[3][2] = "rtp_0"
           /\ make_alvium_pipeline(mode).links[4][2] = "h264_ipsink_0"
           /\ make_alvium_pipeline(mode).links[5][2] = "udp_0"
           /\ Carries(make_alvium_pipeline(mode), AlviumWant, S)
<1> DEFINE r == make_alvium_pipeline(mode)
           want == AlviumWant
<1>1. /\ DOMAIN r.bins = {"cam", "thumb_0", "h264_0", "h264_ipsink_0", "rtp_0", "udp_0"}
      /\ r.bins["cam"] = V4L2_alvium_pipe
      /\ r.bins["thumb_0"] = Thumbnail_nv3_pipe
      /\ r.bins["h264_0"] = h264_nvenc_bin
      /\ r.bins["h264_ipsink_0"] = GST_interpipesink
      /\ r.bins["rtp_0"] = rtp_h264_pipe
      /\ r.bins["udp_0"] = rtpsink_pipe
  <2>1. r.bins = [cam |-> V4L2_alvium_pipe, thumb_0 |-> Thumbnail_nv3_pipe, h264_0 |-> h264_nvenc_bin,
                  h264_ipsink_0 |-> GST_interpipesink, rtp_0 |-> rtp_h264_pipe, udp_0 |-> rtpsink_pipe]
    BY DEF make_alvium_pipeline
  <2> HIDE DEF r
  <2> QED
    BY <2>1
<1>2. /\ DOMAIN r.links = 1 .. 5 /\ Len(r.links) = 5
      /\ r.links[1][1] = "cam" /\ r.links[1][2] = "thumb_0"
      /\ r.links[2][1] = "cam" /\ r.links[2][2] = "h264_0"
      /\ r.links[3][1] = "h264_0" /\ r.links[3][2] = "rtp_0"
      /\ r.links[4][1] = "h264_0" /\ r.links[4][2] = "h264_ipsink_0"
      /\ r.links[5][1] = "rtp_0" /\ r.links[5][2] = "udp_0"
  <2>1. r.links = << <<"cam", "thumb_0">>, <<"cam", "h264_0">> >> \o StreamEndLinks
    BY Zenon DEF make_alvium_pipeline
  <2> HIDE DEF r
  <2> QED
    BY <2>1 DEF StreamEndLinks
<1>3. /\ Output(r.bins["cam"], S) = want["cam"]
      /\ Output(r.bins["thumb_0"], want["cam"]) = want["thumb_0"]
      /\ Output(r.bins["h264_0"], want["cam"]) = want["h264_0"]
      /\ Output(r.bins["rtp_0"], want["h264_0"]) = want["rtp_0"]
      /\ Output(r.bins["h264_ipsink_0"], want["h264_0"]) = want["h264_ipsink_0"]
      /\ Output(r.bins["udp_0"], want["rtp_0"]) = want["udp_0"]
  BY <1>1, CameraBins, ThumbnailBins, CodecBins, StreamBins DEF Media, Modes, AlviumWant
<1> HIDE DEF r, want
<1>4. CarriesLink(r, want, 1)
  BY <1>1, <1>2, <1>3 DEF CarriesLink
<1>5. CarriesLink(r, want, 2)
  BY <1>1, <1>2, <1>3 DEF CarriesLink
<1>6. CarriesLink(r, want, 3)
  BY <1>1, <1>2, <1>3 DEF CarriesLink
<1>7. CarriesLink(r, want, 4)
  BY <1>1, <1>2, <1>3 DEF CarriesLink
<1>8. CarriesLink(r, want, 5)
  BY <1>1, <1>2, <1>3 DEF CarriesLink
<1>9. Carries(r, want, S)
  BY <1>1, <1>2, <1>3, <1>4, <1>5, <1>6, <1>7, <1>8 DEF Carries
<1> QED
  BY <1>2, <1>9 DEF r, want

(* What comes out of the bins of the imx219 pipeline. *)
Imx219Want ==
    [cam |-> {"nvmm"}, t0 |-> {"raw", "nvmm"}, t1 |-> {"raw", "nvmm"}, timecodestamper_0 |-> {"raw"},
     timeoverlay_0 |-> {"raw"}, thumb_0 |-> {"jpeg"}, h264_0 |-> {"h264"}, h264_ipsink_0 |-> {"h264"},
     rtp_0 |-> {"rtp"}, udp_0 |-> {"rtp"}]

(* The links of the imx219 pipeline carry it there. *)
LEMMA Imx219Carries ==
    ASSUME NEW mode \in Modes, NEW S \in SUBSET Media
    PROVE  /\ DOMAIN make_imx219_pipeline(mode).links = 1 .. 9 /\ Len(make_imx219_pipeline(mode).links) = 9
           /\ make_imx219_pipeline(mode).links[1][2] = "thumb_0"
           /\ make_imx219_pipeline(mode).links[2][2] = "t0"
           /\ make_imx219_pipeline(mode).links[3][2] = "timecodestamper_0"
           /\ make_imx219_pipeline(mode).links[4][2] = "timeoverlay_0"
           /\ make_imx219_pipeline(mode).links[5][2] = "t1"
           /\ make_imx219_pipeline(mode).links[6][2] = "h264_0"
           /\ make_imx219_pipeline(mode).links[7][2] = "rtp_0"
           /\ make_imx219_pipeline(mode).links[8][2] = "h264_ipsink_0"
           /\ make_imx219_pipeline(mode).links[9][2] = "udp_0"
           /\ Carries(make_imx219_pipeline(mode), Imx219Want, S)
<1> DEFINE r == make_imx219_pipeline(mode)
           want == Imx219Want
<1>1. /\ DOMAIN r.bins = {"cam", "t0", "t1", "timecodestamper_0", "timeoverlay_0", "thumb_0",
                          "h264_0", "h264_ipsink_0", "rtp_0", "udp_0"}
      /\ r.bins["cam"] = nvac_imx219_pipe
      /\ r.bins["t0"] = nvvideoconvert_pipe
      /\ r.bins["t1"] = nvvideoconvert_pipe
      /\ r.bins["timecodestamper_0"] = timecodestamper_pipe
      /\ r.bins["timeoverlay_0"] = timeoverlay_pipe
      /\ r.bins["thumb_0"] = Thumbnail_nv3_pipe
      /\ r.bins["h264_0"] = h264_nvenc_bin
      /\ r.bins["h264_ipsink_0"] = GST_interpipesink
      /\ r.bins["rtp_0"] = rtp_h264_pipe
      /\ r.bins["udp_0"] = rtpsink_pipe
  <2>1. r.bins = [cam |-> nvac_imx219_pipe, t0 |-> nvvideoconvert_pipe, t1 |-> nvvideoconvert_pipe,
                  timecodestamper_0 |-> timecodestamper_pipe, timeoverlay_0 |-> timeoverlay_pipe,
                  thumb_0 |-> Thumbnail_nv3_pipe, h264_0 |-> h264_nvenc_bin,
                  h264_ipsink_0 |-> GST_interpipesink, rtp_0 |-> rtp_h264_pipe, udp_0 |-> rtpsink_pipe]
    BY DEF make_imx219_pipeline
  <2> HIDE DEF r
  <2> QED
    BY <2>1
<1>2. /\ DOMAIN r.links = 1 .. 9 /\ Len(r.links) = 9
      /\ r.links[1][1] = "cam" /\ r.links[1][2] = "thumb_0"
      /\ r.links[2][1] = "cam" /\ r.links[2][2] = "t0"
      /\ r.links[3][1] = "t0" /\ r.links[3][2] = "timecodestamper_0"
      /\ r.links[4][1] = "timecodestamper_0" /\ r.links[4][2] = "timeoverlay_0"
      /\ r.links[5][1] = "timeoverlay_0" /\ r.links[5][2] = "t1"
      /\ r.links[6][1] = "t1" /\ r.links[6][2] = "h264_0"
      /\ r.links[7][1] = "h264_0" /\ r.links[7][2] = "rtp_0"
      /\ r.links[8][1] = "h264_0" /\ r.links[8][2] = "h264_ipsink_0"
      /\ r.links[9][1] = "rtp_0" /\ r.links[9][2] = "udp_0"
  <2>1. r.links = << <<"cam", "thumb_0">>, <<"cam", "t0">>, <<"t0", "timecodestamper_0">>,
                      <<"timecodestamper_0", "timeoverlay_0">>, <<"timeoverlay_0", "t1">>,
                      <<"t1", "h264_0">> >> \o StreamEndLinks
    BY Zenon DEF make_imx219_pipeline
  <2> HIDE DEF r
  <2> QED
    BY <2>1 DEF StreamEndLinks
<1>3. /\ Output(r.bins["cam"], S) = want["cam"]
      /\ Output(r.bins["thumb_0"], want["cam"]) = want["thumb_0"]
      /\ Output(r.bins["t0"], want["cam"]) = want["t0"]
      /\ Output(r.bins["timecodestamper_0"], want["t0"]) = want["timecodestamper_0"]
      /\ Output(r.bins["timeoverlay_0"], want["timecodestamper_0"]) = want["timeoverlay_0"]
      /\ Output(r.bins["t1"], want["timeoverlay_0"]) = want["t1"]
      /\ Output(r.bins["h264_0"], want["t1"]) = want["h264_0"]
      /\ Output(r.bins["rtp_0"], want["h264_0"]) = want["rtp_0"]
      /\ Output(r.bins["h264_ipsink_0"], want["h264_0"]) = want["h264_ipsink_0"]
      /\ Output(r.bins["udp_0"], want["rtp_0"]) = want["udp_0"]
  <2>1. Output(r.bins["cam"], S) = want["cam"]
    BY <1>1, CameraBins DEF Media, Modes, Imx219Want
  <2>2. Output(r.bins["thumb_0"], want["cam"]) = want["thumb_0"]
    BY <1>1, ThumbnailBins DEF Media, Modes, Imx219Want
  <2>3. Output(r.bins["t0"], want["cam"]) = want["t0"]
    BY <1>1, ConverterBins DEF Media, Modes, Imx219Want
  <2>4. Output(r.bins["timecodestamper_0"], want["t0"]) = want["timecodestamper_0"]
    BY <1>1, ConverterBins DEF Media, Modes, Imx219Want
  <2>5. Output(r.bins["timeoverlay_0"], want["timecodestamper_0"]) = want["timeoverlay_0"]
    BY <1>1, ConverterBins DEF Media, Modes, Imx219Want
  <2>6. Output(r.bins["t1"], want["timeoverlay_0"]) = want["t1"]
    BY <1>1, ConverterBins DEF Media, Modes, Imx219Want
  <2>7. Output(r.bins["h264_0"], want["t1"]) = want["h264_0"]
    BY <1>1, CodecBins DEF Media, Modes, Imx219Want
  <2>8. Output(r.bins["rtp_0"], want["h264_0"]) = want["rtp_0"]
    BY <1>1, StreamBins DEF Media, Modes, Imx219Want
  <2>9. Output(r.bins["h264_ipsink_0"], want["h264_0"]) = want["h264_ipsink_0"]
    BY <1>1, StreamBins DEF Media, Modes, Imx219Want
  <2>10. Output(r.bins["udp_0"], want["rtp_0"]) = want["udp_0"]
    BY <1>1, StreamBins DEF Media, Modes, Imx219Want
  <2> QED
    BY <2>1, <2>2, <2>3, <2>4, <2>5, <2>6, <2>7, <2>8, <2>9, <2>10
<1> HIDE DEF r, want
<1>4. CarriesLink(r, want, 1)
  BY <1>1, <1>2, <1>3 DEF CarriesLink
<1>5. CarriesLink(r, want, 2)
  BY <1>1, <1>2, <1>3 DEF CarriesLink
<1>6. CarriesLink(r, want, 3)
  BY <1>1, <1>2, <1>3 DEF CarriesLink
<1>7. CarriesLink(r, want, 4)
  BY <1>1, <1>2, <1>3 DEF CarriesLink
<1>8. CarriesLink(r, want, 5)
  BY <1>1, <1>2, <1>3 DEF CarriesLink
<1>9. CarriesLink(r, want, 6)
  BY <1>1, <1>2, <1>3 DEF CarriesLink
<1>10. CarriesLink(r, want, 7)
  BY <1>1, <1>2, <1>3 DEF CarriesLink
<1>11. CarriesLink(r, want, 8)
  BY <1>1, <1>2, <1>3 DEF CarriesLink
<1>12. CarriesLink(r, want, 9)
  BY <1>1, <1>2, <1>3 DEF CarriesLink
<1>13. Carries(r, want, S)
  BY <1>1, <1>2, <1>3, <1>4, <1>5, <1>6, <1>7, <1>8, <1>9, <1>10, <1>11, <1>12 DEF Carries
<1> QED
  BY <1>2, <1>13 DEF r, want

(* What comes out of the bins of the virtual pipeline. *)
VirtualWant ==
    [cam |-> {"raw"}, timecodestamper_0 |-> {"raw"}, timeoverlay_0 |-> {"raw"}, thumb_0 |-> {"jpeg"},
     h264_0 |-> {"h264"}, h264_ipsink_0 |-> {"h264"}, rtp_0 |-> {"rtp"}, udp_0 |-> {"rtp"}]

(* The links of the virtual pipeline carry it there. *)
LEMMA VirtualCarries ==
    ASSUME NEW mode \in Modes, NEW S \in SUBSET Media
    PROVE  /\ DOMAIN make_virtual_pipeline(mode).links = 1 .. 7 /\ Len(make_virtual_pipeline(mode).links) = 7
           /\ make_virtual_pipeline(mode).links[1][2] = "thumb_0"
           /\ make_virtual_pipeline(mode).links[2][2] = "timecodestamper_0"
           /\ make_virtual_pipeline(mode).links[3][2] = "timeoverlay_0"
           /\ make_virtual_pipeline(mode).links[4][2] = "h264_0"
           /\ make_virtual_pipeline(mode).links[5][2] = "rtp_0"
           /\ make_virtual_pipeline(mode).links[6][2] = "h264_ipsink_0"
           /\ make_virtual_pipeline(mode).links[7][2] = "udp_0"
           /\ Carries(make_virtual_pipeline(mode), VirtualWant, S)
<1> DEFINE r == make_virtual_pipeline(mode)
           want == VirtualWant
<1>1. /\ DOMAIN r.bins = {"cam", "timecodestamper_0", "timeoverlay_0", "thumb_0", "h264_0",
                          "h264_ipsink_0", "rtp_0", "udp_0"}
      /\ r.bins["cam"] = Testsrc_pipe
      /\ r.bins["timecodestamper_0"] = timecodestamper_pipe
      /\ r.bins["timeoverlay_0"] = timeoverlay_pipe
      /\ r.bins["thumb_0"] = Thumbnail_sw_pipe
      /\ r.bins["h264_0"] = h264Bin(mode)
      /\ r.bins["h264_ipsink_0"] = GST_interpipesink
      /\ r.bins["rtp_0"] = rtp_h264_pipe
      /\ r.bins["udp_0"] = rtpsink_pipe
  <2>1. r.bins = [cam |-> Testsrc_pipe, timecodestamper_0 |-> timecodestamper_pipe,
                  timeoverlay_0 |-> timeoverlay_pipe, thumb_0 |-> Thumbnail_sw_pipe, h264_0 |-> h264Bin(mode),
                  h264_ipsink_0 |-> GST_interpipesink, rtp_0 |-> rtp_h264_pipe, udp_0 |-> rtpsink_pipe]
    BY DEF make_virtual_pipeline
  <2> HIDE DEF r
  <2> QED
    BY <2>1
<1>2. /\ DOMAIN r.links = 1 .. 7 /\ Len(r.links) = 7
      /\ r.links[1][1] = "cam" /\ r.links[1][2] = "thumb_0"
      /\ r.links[2][1] = "cam" /\ r.links[2][2] = "timecodestamper_0"
      /\ r.links[3][1] = "timecodestamper_0" /\ r.links[3][2] = "timeoverlay_0"
      /\ r.links[4][1] = "timeoverlay_0" /\ r.links[4][2] = "h264_0"
      /\ r.links[5][1] = "h264_0" /\ r.links[5][2] = "rtp_0"
      /\ r.links[6][1] = "h264_0" /\ r.links[6][2] = "h264_ipsink_0"
      /\ r.links[7][1] = "rtp_0" /\ r.links[7][2] = "udp_0"
  <2>1. r.links = << <<"cam", "thumb_0">>, <<"cam", "timecodestamper_0">>,
                      <<"timecodestamper_0", "timeoverlay_0">>, <<"timeoverlay_0", "h264_0">> >> \o StreamEndLinks
    BY Zenon DEF make_virtual_pipeline
  <2> HIDE DEF r
  <2> QED
    BY <2>1 DEF StreamEndLinks
<1>3. /\ Output(r.bins["cam"], S) = want["cam"]
      /\ Output(r.bins["thumb_0"], want["cam"]) = want["thumb_0"]
      /\ Output(r.bins["timecodestamper_0"], want["cam"]) = want["timecodestamper_0"]
      /\ Output(r.bins["timeoverlay_0"], want["timecodestamper_0"]) = want["timeoverlay_0"]
      /\ Output(r.bins["h264_0"], want["timeoverlay_0"]) = want["h264_0"]
      /\ Output(r.bins["rtp_0"], want["h264_0"]) = want["rtp_0"]
      /\ Output(r.bins["h264_ipsink_0"], want["h264_0"]) = want["h264_ipsink_0"]
      /\ Output(r.bins["udp_0"], want["rtp_0"]) = want["udp_0"]
  <2>1. Output(r.bins["cam"], S) = want["cam"]
    BY <1>1, CameraBins DEF Media, Modes, VirtualWant, h264Bin
  <2>2. Output(r.bins["thumb_0"], want["cam"]) = want["thumb_0"]
    BY <1>1, ThumbnailBins DEF Media, Modes, VirtualWant, h264Bin
  <2>3. Output(r.bins["timecodestamper_0"], want["cam"]) = want["timecodestamper_0"]
    BY <1>1, ConverterBins DEF Media, Modes, VirtualWant, h264Bin
  <2>4. Output(r.bins["timeoverlay_0"], want["timecodestamper_0"]) = want["timeoverlay_0"]
    BY <1>1, ConverterBins DEF Media, Modes, VirtualWant, h264Bin
  <2>5. Output(r.bins["h264_0"], want["timeoverlay_0"]) = want["h264_0"]
    BY <1>1, CodecBins DEF Media, Modes, VirtualWant, h264Bin
  <2>6. Output(r.bins["rtp_0"], want["h264_0"]) = want["rtp_0"]
    BY <1>1, StreamBins DEF Media, Modes, VirtualWant, h264Bin
  <2>7. Output(r.bins["h264_ipsink_0"], want["h264_0"]) = want["h264_ipsink_0"]
    BY <1>1, StreamBins DEF Media, Modes, VirtualWant, h264Bin
  <2>8. Output(r.bins["udp_0"], want["rtp_0"]) = want["udp_0"]
    BY <1>1, StreamBins DEF Media, Modes, VirtualWant, h264Bin
  <2> QED
    BY <2>1, <2>2, <2>3, <2>4, <2>5, <2>6, <2>7, <2>8, SMTT(30)
<1> HIDE DEF r, want
<1>4. CarriesLink(r, want, 1)
  BY <1>1, <1>2, <1>3 DEF CarriesLink
<1>5. CarriesLink(r, want, 2)
  BY <1>1, <1>2, <1>3 DEF CarriesLink
<1>6. CarriesLink(r, want, 3)
  BY <1>1, <1>2, <1>3 DEF CarriesLink
<1>7. CarriesLink(r, want, 4)
  BY <1>1, <1>2, <1>3 DEF CarriesLink
<1>8. CarriesLink(r, want, 5)
  BY <1>1, <1>2, <1>3 DEF CarriesLink
<1>9. CarriesLink(r, want, 6)
  BY <1>1, <1>2, <1>3 DEF CarriesLink
<1>10. CarriesLink(r, want, 7)
  BY <1>1, <1>2, <1>3 DEF CarriesLink
<1>11. Carries(r, want, S)
  BY <1>1, <1>2, <1>3, <1>4, <1>5, <1>6, <1>7, <1>8, <1>9, <1>10 DEF Carries
<1> QED
  BY <1>2, <1>11 DEF r, want

(* What comes out of the bins of the webcam's pipeline. *)
BrioWant(mode) ==
    [cam |-> {"jpeg"}, jpgdec_0 |-> {"raw"}, thumb_0 |-> IF mode = "nv" THEN {"jpeg"} ELSE {},
     h264_0 |-> {"h264"}, h264_ipsink_0 |-> {"h264"}, rtp_0 |-> {"rtp"}, udp_0 |-> {"rtp"}]

(* The links of the webcam's pipeline carry it there. *)
LEMMA BrioCarries ==
    ASSUME NEW mode \in Modes, NEW S \in SUBSET Media
    PROVE  /\ DOMAIN make_brio_pipeline(mode).links = 1 .. 6 /\ Len(make_brio_pipeline(mode).links) = 6
           /\ make_brio_pipeline(mode).links[1][2] = "jpgdec_0"
           /\ make_brio_pipeline(mode).links[2][2] = "thumb_0"
           /\ make_brio_pipeline(mode).links[3][2] = "h264_0"
           /\ make_brio_pipeline(mode).links[4][2] = "rtp_0"
           /\ make_brio_pipeline(mode).links[5][2] = "h264_ipsink_0"
           /\ make_brio_pipeline(mode).links[6][2] = "udp_0"
           /\ Carries(make_brio_pipeline(mode), BrioWant(mode), S)
<1> DEFINE r == make_brio_pipeline(mode)
           want == BrioWant(mode)
<1>1. /\ DOMAIN r.bins = {"cam", "jpgdec_0", "thumb_0", "h264_0", "h264_ipsink_0", "rtp_0", "udp_0"}
      /\ r.bins["cam"] = V4L2_webcam_pipe
      /\ r.bins["jpgdec_0"] = IF mode = "nv" THEN jpeg_nvv4l2decoder_bin ELSE jpeg_swdec_bin
      /\ r.bins["thumb_0"] = IF mode = "nv" THEN Thumbnail_nv_pipe ELSE Thumbnail_sw_pipe
      /\ r.bins["h264_0"] = h264Bin(mode)
      /\ r.bins["h264_ipsink_0"] = GST_interpipesink
      /\ r.bins["rtp_0"] = rtp_h264_pipe
      /\ r.bins["udp_0"] = rtpsink_pipe
  <2>1. r.bins = [cam |-> V4L2_webcam_pipe, h264_0 |-> h264Bin(mode),
                  jpgdec_0 |-> IF mode = "nv" THEN jpeg_nvv4l2decoder_bin ELSE jpeg_swdec_bin,
                  thumb_0 |-> IF mode = "nv" THEN Thumbnail_nv_pipe ELSE Thumbnail_sw_pipe,
                  h264_ipsink_0 |-> GST_interpipesink, rtp_0 |-> rtp_h264_pipe, udp_0 |-> rtpsink_pipe]
    BY DEF make_brio_pipeline
  <2> HIDE DEF r
  <2> QED
    BY <2>1
<1>2. /\ DOMAIN r.links = 1 .. 6 /\ Len(r.links) = 6
      /\ r.links[1][1] = "cam" /\ r.links[1][2] = "jpgdec_0"
      /\ r.links[2][1] = "cam" /\ r.links[2][2] = "thumb_0"
      /\ r.links[3][1] = "jpgdec_0" /\ r.links[3][2] = "h264_0"
      /\ r.links[4][1] = "h264_0" /\ r.links[4][2] = "rtp_0"
      /\ r.links[5][1] = "h264_0" /\ r.links[5][2] = "h264_ipsink_0"
      /\ r.links[6][1] = "rtp_0" /\ r.links[6][2] = "udp_0"
  <2>1. r.links = << <<"cam", "jpgdec_0">>, <<"cam", "thumb_0">>, <<"jpgdec_0", "h264_0">> >> \o StreamEndLinks
    BY Zenon DEF make_brio_pipeline
  <2> HIDE DEF r
  <2> QED
    BY <2>1 DEF StreamEndLinks
<1>3. /\ Output(r.bins["cam"], S) = want["cam"]
      /\ Output(r.bins["jpgdec_0"], want["cam"]) = want["jpgdec_0"]
      /\ Output(r.bins["thumb_0"], want["cam"]) = want["thumb_0"]
      /\ Output(r.bins["h264_0"], want["jpgdec_0"]) = want["h264_0"]
      /\ Output(r.bins["rtp_0"], want["h264_0"]) = want["rtp_0"]
      /\ Output(r.bins["h264_ipsink_0"], want["h264_0"]) = want["h264_ipsink_0"]
      /\ Output(r.bins["udp_0"], want["rtp_0"]) = want["udp_0"]
  <2>1. Output(r.bins["cam"], S) = want["cam"]
    BY <1>1, CameraBins DEF Media, Modes, BrioWant, h264Bin
  <2>2. Output(r.bins["jpgdec_0"], want["cam"]) = want["jpgdec_0"]
    BY <1>1, CodecBins DEF Media, Modes, BrioWant, h264Bin
  <2>3. Output(r.bins["thumb_0"], want["cam"]) = want["thumb_0"]
    <3>1. Output(Thumbnail_nv_pipe, {"jpeg"}) = {"jpeg"} /\ Output(Thumbnail_sw_pipe, {"jpeg"}) = {}
      BY ThumbnailBins DEF Media
    <3> QED
      BY <1>1, <3>1 DEF BrioWant
  <2>4. Output(r.bins["h264_0"], want["jpgdec_0"]) = want["h264_0"]
    BY <1>1, CodecBins DEF Media, Modes, BrioWant, h264Bin
  <2>5. Output(r.bins["rtp_0"], want["h264_0"]) = want["rtp_0"]
    BY <1>1, StreamBins DEF Media, Modes, BrioWant, h264Bin
  <2>6. Output(r.bins["h264_ipsink_0"], want["h264_0"]) = want["h264_ipsink_0"]
    BY <1>1, StreamBins DEF Media, Modes, BrioWant, h264Bin
  <2>7. Output(r.bins["udp_0"], want["rtp_0"]) = want["udp_0"]
    BY <1>1, StreamBins DEF Media, Modes, BrioWant, h264Bin
  <2> QED
    BY <2>1, <2>2, <2>3, <2>4, <2>5, <2>6, <2>7
<1> HIDE DEF r, want
<1>4. CarriesLink(r, want, 1)
  BY <1>1, <1>2, <1>3 DEF CarriesLink
<1>5. CarriesLink(r, want, 2)
  BY <1>1, <1>2, <1>3 DEF CarriesLink
<1>6. CarriesLink(r, want, 3)
  BY <1>1, <1>2, <1>3 DEF CarriesLink
<1>7. CarriesLink(r, want, 4)
  BY <1>1, <1>2, <1>3 DEF CarriesLink
<1>8. CarriesLink(r, want, 5)
  BY <1>1, <1>2, <1>3 DEF CarriesLink
<1>9. CarriesLink(r, want, 6)
  BY <1>1, <1>2, <1>3 DEF CarriesLink
<1>10. Carries(r, want, S)
  BY <1>1, <1>2, <1>3, <1>4, <1>5, <1>6, <1>7, <1>8, <1>9 DEF Carries
<1> QED
  BY <1>2, <1>10 DEF r, want

(* A recipe is judged by what is wanted of its bins. *)
Judged(type, mode, r, want) ==
    /\ \A n \in 1 .. Len(r.links) : LinkOutcome[type][mode][n] <=> want[r.links[n][2]] # {}
    /\ (\A c \in DOMAIN Consumers : \E n \in 1 .. Len(r.links) :
           r.links[n][2] = c /\ want[c] = Consumers[c]) => Fed[type][mode]

(* That judgement is the model's. *)
LEMMA RecipeOutcome ==
    ASSUME NEW type \in KnownTypes, NEW mode \in Modes, NEW r, NEW want,
           make_pipeline[type][mode] = r, Len(r.links) \in Nat, DOMAIN r.links = 1 .. Len(r.links),
           \A S \in SUBSET Media : Carries(r, want, S)
    PROVE  Judged(type, mode, r, want)
<1>1. \A n \in 1 .. Len(r.links) :
          /\ LinkAccepted(r, n) <=> want[r.links[n][2]] # {}
          /\ Reached(r, Len(r.links), {})[r.links[n][2]] = want[r.links[n][2]]
  BY CarriedIsLinked, ZenonT(60)
<1>2. \A n \in 1 .. Len(r.links) : LinkOutcome[type][mode][n] = LinkAccepted(r, n)
  BY DEF LinkOutcome
<1>3. (\A c \in DOMAIN Consumers : Reached(r, Len(r.links), {})[c] = Consumers[c]) => Fed[type][mode]
  BY DEF Fed
<1> QED
  BY <1>1, <1>2, <1>3 DEF Judged

(* A recipe is linked throughout unless it is the webcam's on the CPU; and *)
(* once all its links are made, its ends are fed by the camera.            *)
LEMMA RecipesLinked ==
    ASSUME NEW type \in KnownTypes, NEW mode \in Modes
    PROVE  LET all == \A n \in 1 .. Len(make_pipeline[type][mode].links) : LinkOutcome[type][mode][n]
           IN  /\ ~(type = "brio" /\ mode # "nv") => all
               /\ all => Fed[type][mode]
<1>0. /\ DOMAIN Consumers = {"thumb_0", "h264_ipsink_0", "udp_0"}
      /\ Consumers["thumb_0"] = {"jpeg"} /\ Consumers["h264_ipsink_0"] = {"h264"} /\ Consumers["udp_0"] = {"rtp"}
  BY DEF Consumers
<1>1. CASE type = "brio"
  <2> DEFINE r == make_brio_pipeline(mode)
             want == BrioWant(mode)
  <2>1. make_pipeline[type][mode] = r
    BY <1>1 DEF make_pipeline
  <2>2. /\ Len(r.links) = 6 /\ DOMAIN r.links = 1 .. 6
        /\ r.links[1][2] = "jpgdec_0" /\ r.links[2][2] = "thumb_0" /\ r.links[3][2] = "h264_0"
        /\ r.links[4][2] = "rtp_0" /\ r.links[5][2] = "h264_ipsink_0" /\ r.links[6][2] = "udp_0"
        /\ \A S \in SUBSET Media : Carries(r, want, S)
    BY BrioCarries
  <2>3. /\ want["jpgdec_0"] # {} /\ want["thumb_0"] = IF mode = "nv" THEN {"jpeg"} ELSE {}
        /\ want["h264_0"] # {} /\ want["rtp_0"] # {} /\ want["h264_ipsink_0"] = {"h264"}
        /\ want["udp_0"] = {"rtp"}
    BY DEF BrioWant
  <2> HIDE DEF r, want
  <2>4. Len(r.links) \in Nat /\ DOMAIN r.links = 1 .. Len(r.links)
    BY <2>2
  <2>5. Judged(type, mode, r, want)
    BY <2>1, <2>2, <2>4, RecipeOutcome, ZenonT(60)
  <2>6. \A n \in 1 .. 6 : LinkOutcome[type][mode][n] <=> want[r.links[n][2]] # {}
    BY <2>2, <2>5 DEF Judged
  <2>7. mode = "nv" => Fed[type][mode]
    <3> DEFINE End(c) == \E n \in 1 .. Len(r.links) : r.links[n][2] = c /\ want[c] = Consumers[c]
    <3>1. 2 \in 1 .. Len(r.links) /\ 5 \in 1 .. Len(r.links) /\ 6 \in 1 .. Len(r.links)
      BY <2>2
    <3>2. mode = "nv" => End("thumb_0")
      BY <1>0, <2>2, <2>3, <3>1
    <3>3. End("h264_ipsink_0") /\ End("udp_0")
      BY <1>0, <2>2, <2>3, <3>1
    <3> QED
      BY <1>0, <2>5, <3>2, <3>3, ZenonT(60) DEF Judged
  <2>8. (\A n \in 1 .. 6 : LinkOutcome[type][mode][n]) <=> mode = "nv"
    BY <2>2, <2>3, <2>6, SMTT(30)
  <2> QED
    BY <1>1, <2>1, <2>2, <2>7, <2>8
<1>2. CASE type = "imx219"
  <2> DEFINE r == make_imx219_pipeline(mode)
             want == Imx219Want
  <2>1. make_pipeline[type][mode] = r
    BY <1>2 DEF make_pipeline
  <2>2. /\ Len(r.links) = 9 /\ DOMAIN r.links = 1 .. 9
        /\ r.links[1][2] = "thumb_0" /\ r.links[2][2] = "t0" /\ r.links[3][2] = "timecodestamper_0"
        /\ r.links[4][2] = "timeoverlay_0" /\ r.links[5][2] = "t1" /\ r.links[6][2] = "h264_0"
        /\ r.links[7][2] = "rtp_0" /\ r.links[8][2] = "h264_ipsink_0" /\ r.links[9][2] = "udp_0"
        /\ \A S \in SUBSET Media : Carries(r, want, S)
    BY Imx219Carries
  <2>3. /\ want["thumb_0"] = {"jpeg"} /\ want["h264_ipsink_0"] = {"h264"} /\ want["udp_0"] = {"rtp"}
        /\ want["t0"] # {} /\ want["timecodestamper_0"] # {} /\ want["timeoverlay_0"] # {}
        /\ want["t1"] # {} /\ want["h264_0"] # {} /\ want["rtp_0"] # {}
    BY DEF Imx219Want
  <2> HIDE DEF r, want
  <2>4. Len(r.links) \in Nat /\ DOMAIN r.links = 1 .. Len(r.links)
    BY <2>2
  <2>5. Judged(type, mode, r, want)
    BY <2>1, <2>2, <2>4, RecipeOutcome, ZenonT(60)
  <2>6. \A n \in 1 .. 9 : LinkOutcome[type][mode][n] <=> want[r.links[n][2]] # {}
    BY <2>2, <2>5 DEF Judged
  <2>7. Fed[type][mode]
    <3> DEFINE End(c) == \E n \in 1 .. Len(r.links) : r.links[n][2] = c /\ want[c] = Consumers[c]
    <3>1. 1 \in 1 .. Len(r.links) /\ 8 \in 1 .. Len(r.links) /\ 9 \in 1 .. Len(r.links)
      BY <2>2
    <3>2. End("thumb_0")
      BY <1>0, <2>2, <2>3, <3>1
    <3>3. End("h264_ipsink_0") /\ End("udp_0")
      BY <1>0, <2>2, <2>3, <3>1
    <3> QED
      BY <1>0, <2>5, <3>2, <3>3, ZenonT(60) DEF Judged
  <2>8. \A n \in 1 .. 9 : LinkOutcome[type][mode][n]
    BY <2>2, <2>3, <2>6, SMTT(30)
  <2> QED
    BY <2>1, <2>2, <2>7, <2>8
<1>3. CASE type = "alvium"
  <2> DEFINE r == make_alvium_pipeline(mode)
             want == AlviumWant
  <2>1. make_pipeline[type][mode] = r
    BY <1>3 DEF make_pipeline
  <2>2. /\ Len(r.links) = 5 /\ DOMAIN r.links = 1 .. 5
        /\ r.links[1][2] = "thumb_0" /\ r.links[2][2] = "h264_0" /\ r.links[3][2] = "rtp_0"
        /\ r.links[4][2] = "h264_ipsink_0" /\ r.links[5][2] = "udp_0"
        /\ \A S \in SUBSET Media : Carries(r, want, S)
    BY AlviumCarries
  <2>3. /\ want["thumb_0"] = {"jpeg"} /\ want["h264_ipsink_0"] = {"h264"} /\ want["udp_0"] = {"rtp"}
        /\ want["h264_0"] # {} /\ want["rtp_0"] # {}
    BY DEF AlviumWant
  <2> HIDE DEF r, want
  <2>4. Len(r.links) \in Nat /\ DOMAIN r.links = 1 .. Len(r.links)
    BY <2>2
  <2>5. Judged(type, mode, r, want)
    BY <2>1, <2>2, <2>4, RecipeOutcome, ZenonT(60)
  <2>6. \A n \in 1 .. 5 : LinkOutcome[type][mode][n] <=> want[r.links[n][2]] # {}
    BY <2>2, <2>5 DEF Judged
  <2>7. Fed[type][mode]
    <3> DEFINE End(c) == \E n \in 1 .. Len(r.links) : r.links[n][2] = c /\ want[c] = Consumers[c]
    <3>1. 1 \in 1 .. Len(r.links) /\ 4 \in 1 .. Len(r.links) /\ 5 \in 1 .. Len(r.links)
      BY <2>2
    <3>2. End("thumb_0")
      BY <1>0, <2>2, <2>3, <3>1
    <3>3. End("h264_ipsink_0") /\ End("udp_0")
      BY <1>0, <2>2, <2>3, <3>1
    <3> QED
      BY <1>0, <2>5, <3>2, <3>3, ZenonT(60) DEF Judged
  <2>8. \A n \in 1 .. 5 : LinkOutcome[type][mode][n]
    BY <2>2, <2>3, <2>6
  <2> QED
    BY <2>1, <2>2, <2>7, <2>8
<1>4. CASE type = "virtual"
  <2> DEFINE r == make_virtual_pipeline(mode)
             want == VirtualWant
  <2>1. make_pipeline[type][mode] = r
    BY <1>4 DEF make_pipeline
  <2>2. /\ Len(r.links) = 7 /\ DOMAIN r.links = 1 .. 7
        /\ r.links[1][2] = "thumb_0" /\ r.links[2][2] = "timecodestamper_0" /\ r.links[3][2] = "timeoverlay_0"
        /\ r.links[4][2] = "h264_0" /\ r.links[5][2] = "rtp_0" /\ r.links[6][2] = "h264_ipsink_0"
        /\ r.links[7][2] = "udp_0"
        /\ \A S \in SUBSET Media : Carries(r, want, S)
    BY VirtualCarries
  <2>3. /\ want["thumb_0"] = {"jpeg"} /\ want["h264_ipsink_0"] = {"h264"} /\ want["udp_0"] = {"rtp"}
        /\ want["timecodestamper_0"] # {} /\ want["timeoverlay_0"] # {} /\ want["h264_0"] # {}
        /\ want["rtp_0"] # {}
    BY DEF VirtualWant
  <2> HIDE DEF r, want
  <2>4. Len(r.links) \in Nat /\ DOMAIN r.links = 1 .. Len(r.links)
    BY <2>2
  <2>5. Judged(type, mode, r, want)
    BY <2>1, <2>2, <2>4, RecipeOutcome, ZenonT(60)
  <2>6. \A n \in 1 .. 7 : LinkOutcome[type][mode][n] <=> want[r.links[n][2]] # {}
    BY <2>2, <2>5, SMTT(30) DEF Judged
  <2>7. Fed[type][mode]
    <3> DEFINE End(c) == \E n \in 1 .. Len(r.links) : r.links[n][2] = c /\ want[c] = Consumers[c]
    <3>1. 1 \in 1 .. Len(r.links) /\ 6 \in 1 .. Len(r.links) /\ 7 \in 1 .. Len(r.links)
      BY <2>2, SMTT(30)
    <3>2. End("thumb_0")
      BY <1>0, <2>2, <2>3, <3>1
    <3>3. End("h264_ipsink_0") /\ End("udp_0")
      BY <1>0, <2>2, <2>3, <3>1
    <3> QED
      BY <1>0, <2>5, <3>2, <3>3, ZenonT(60) DEF Judged
  <2>8. \A n \in 1 .. 7 : LinkOutcome[type][mode][n]
    BY <2>2, <2>3, <2>6, SMTT(30)
  <2> QED
    BY <2>1, <2>2, <2>7, <2>8
<1> QED
  BY <1>1, <1>2, <1>3, <1>4 DEF KnownTypes
=============================================================================
