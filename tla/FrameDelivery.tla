--------------------------- MODULE FrameDelivery ---------------------------
(***************************************************************************)
(* How a frame gets from a camera to its readers.  Every thumbnail bin and *)
(* every camera has an m_frame_buffer with a mutex of its own:             *)
(*                                                                         *)
(*   - the appsink callback of a thumbnail bin, and of an imx219 camera,   *)
(*     copies the sample into it in place, block by block;                 *)
(*   - the frame callback of an Alvium camera fills a new buffer and then  *)
(*     exchanges the pointer;                                              *)
(*   - a FastCGI worker copies the thumbnail out of it for /cameras/*.jpg; *)
(*   - the cameras hand it, with their mutex held, to the callback main    *)
(*     registers while frames already flow, which publishes it on the one  *)
(*     0MQ socket, whose three-part messages m_pub_socket_mutex keeps      *)
(*     apart.                                                              *)
(*                                                                         *)
(* A block of an image is the frame it was taken from; a frame is its      *)
(* source, its number and the number of its blocks.                        *)
(***************************************************************************)
EXTENDS Naturals, SequencesExt

CONSTANTS Thumbs,     \* the thumbnail bins (Thumbnail_nv_pipe, _nv3_pipe, _sw_pipe)
          Imx219,     \* cameras of type imx219
          Alvium,     \* Alvium cameras
          Workers,    \* the FastCGI threads
          Sizes,      \* the blocks of the first frame of a source, of its second...
          Nobody      \* no thread

ASSUME FrameAssumption == Sizes \in Seq(Nat \ {0})

Sinks == Thumbs \cup Imx219
Cams  == Imx219 \cup Alvium
Pipes == Thumbs \cup Cams

VARIABLES
    fourcc,  \* fourcc[c]: the format of an Alvium camera, set once
    frame,   \* frame[p]: the frame p's thread works on, or the last one
    buffer,  \* buffer[p]: *m_frame_buffer, a sequence of blocks
    copied,  \* copied[p]: blocks of the sample copied so far
    owner,   \* owner[p]: the thread that holds p's m_frame_buffer_mutex
    cb,      \* cb[c]: is m_buffer_dispatch_cb set
    pub,     \* the camera whose thread holds m_pub_socket_mutex
    parts,   \* parts of an unfinished message on the socket
    sent,    \* history: sent[c], the numbers of the frames c published
    at,      \* at[t]: where the thread of a pipe, or a worker, is
    asked,   \* asked[w]: the thumbnail the request is for
    image,   \* image[w]: frame_buf, local to the request
    since    \* history: the newest finished thumbnail when the request came

srcVars  == <<fourcc, frame, buffer, copied, cb>>
sockVars == <<pub, parts, sent>>
reqVars  == <<asked, image, since>>
vars == <<srcVars, owner, sockVars, at, reqVars>>

(* Frame n of source p, and its blocks; frame 0 stands for none. *)
Frame(p, n) == [of |-> p, n |-> n]
Size(f)     == IF f.n = 0 THEN 0 ELSE Sizes[f.n]
Image(f)    == [i \in 1 .. Size(f) |-> f]

Init ==
    /\ fourcc \in [Alvium -> {"JXR0", "XR24"}]
    /\ frame = [p \in Pipes |-> Frame(p, 0)]
    /\ buffer = [p \in Pipes |-> <<>>]
    /\ copied = [p \in Pipes |-> 0]
    /\ owner = [p \in Pipes |-> Nobody]
    /\ cb = [c \in Cams |-> FALSE]
    /\ pub = Nobody /\ parts = <<>> /\ sent = [c \in Cams |-> <<>>]
    /\ at = [t \in Pipes \cup Workers |-> "idle"]
    /\ asked \in [Workers -> Thumbs]
    /\ image = [w \in Workers |-> <<>>]
    /\ since = [w \in Workers |-> 0]

goto(t, from, to) == at[t] = from /\ at' = [at EXCEPT ![t] = to]
lock(p, t)   == owner[p] = Nobody /\ owner' = [owner EXCEPT ![p] = t]
unlock(p)    == owner' = [owner EXCEPT ![p] = Nobody]
-----------------------------------------------------------------------------
(* The source delivers another frame. *)
arrives(p) ==
    /\ frame[p].n < Len(Sizes)
    /\ frame' = [frame EXCEPT ![p].n = @ + 1]

(* The end of a camera's handler, with its mutex held from the step before  *)
(* or from this one: if(m_buffer_dispatch_cb) m_buffer_dispatch_cb(...).    *)
dispatch(c, from) ==
    \/ cb[c] /\ goto(c, from, "send") /\ owner' = [owner EXCEPT ![c] = c]
    \/ ~cb[c] /\ goto(c, from, "idle") /\ unlock(c)

(* handle_new_sample: try_pull_sample finds a sample. *)
pull_sample(p) ==
    /\ p \in Sinks
    /\ goto(p, "idle", "lock")
    /\ arrives(p)
    /\ UNCHANGED <<fourcc, buffer, copied, cb, owner, sockVars, reqVars>>

(* Variant: the callback is called whether there was a sample or not. *)
null_sample_dispatched(p) ==
    /\ p \in Imx219
    /\ buffer[p] # <<>>
    /\ owner[p] = Nobody
    /\ dispatch(p, "idle")
    /\ UNCHANGED <<srcVars, sockVars, reqVars>>

(* try_pull_sample finds none: nothing happens. *)
null_sample(p) ==
    /\ p \in Sinks
    /\ at[p] = "idle"
    /\ UNCHANGED vars

(* The mutex, and resize: the blocks that are there stay, more are zero. *)
lock_resize(p) ==
    /\ p \in Sinks
    /\ goto(p, "lock", "copy")
    /\ lock(p, p)
    /\ buffer' = [buffer EXCEPT ![p] =
                     [i \in 1 .. Size(frame[p]) |-> IF i <= Len(@) THEN @[i] ELSE Frame(p, 0)]]
    /\ copied' = [copied EXCEPT ![p] = 0]
    /\ UNCHANGED <<fourcc, frame, cb, sockVars, reqVars>>

copy_block(p) ==
    /\ at[p] = "copy"
    /\ copied[p] < Size(frame[p])
    /\ buffer' = [buffer EXCEPT ![p][copied[p] + 1] = frame[p]]
    /\ copied' = [copied EXCEPT ![p] = @ + 1]
    /\ UNCHANGED <<fourcc, frame, cb, owner, sockVars, at, reqVars>>

(* The end of the copy: a thumbnail bin is done, a camera calls the         *)
(* callback with the mutex held.                                            *)
copy_done(p) ==
    /\ copied[p] = Size(frame[p])
    /\ \/ p \in Thumbs /\ goto(p, "copy", "idle") /\ unlock(p)
       \/ p \in Imx219 /\ dispatch(p, "copy")
    /\ UNCHANGED <<srcVars, sockVars, reqVars>>
-----------------------------------------------------------------------------
(* new_frame_cb_*: the metadata and a new buffer, no lock held yet. *)
new_frame(p) ==
    /\ p \in Alvium
    /\ goto(p, "idle", "lock")
    /\ arrives(p)
    /\ UNCHANGED <<fourcc, buffer, copied, cb, owner, sockVars, reqVars>>

cache(p) == owner[p] = Nobody /\ buffer' = [buffer EXCEPT ![p] = Image(frame[p])]

(* JXR0, JXR2 and JXY2: cached and handed out in one critical section.  The *)
(* callbacks of RGGB, GREY and JXY0 do nothing.                             *)
new_frame_cb_JXR0(p) ==
    /\ fourcc[p] = "JXR0"
    /\ cache(p)
    /\ dispatch(p, "lock")
    /\ UNCHANGED <<fourcc, frame, copied, cb, sockVars, reqVars>>

(* XR24: cached in a first critical section; then the frame is pushed into  *)
(* the pipeline, with no lock held; the callback is called in a second one. *)
new_frame_cb_XR24(p) ==
    /\ fourcc[p] = "XR24"
    /\ \/ goto(p, "lock", "push") /\ cache(p) /\ UNCHANGED owner
       \/ owner[p] = Nobody /\ dispatch(p, "push") /\ UNCHANGED buffer
    /\ UNCHANGED <<fourcc, frame, copied, cb, sockVars, reqVars>>

(* main registers the callback, under the camera's mutex. *)
set_framebuffer_callback(c) ==
    /\ ~cb[c]
    /\ owner[c] = Nobody
    /\ cb' = [cb EXCEPT ![c] = TRUE]
    /\ UNCHANGED <<fourcc, frame, buffer, copied, owner, sockVars, at, reqVars>>
-----------------------------------------------------------------------------
(* The header of the message: what the callback was given as metadata.  An  *)
(* imx219 camera gives none, an Alvium camera that of its frame.            *)
metadata(c) == IF c \in Alvium THEN frame[c] ELSE Frame(c, 0)

send_part(c, from, to, part) ==
    /\ goto(c, from, to)
    /\ parts' = Append(parts, part)
    /\ UNCHANGED <<srcVars, owner, sent, reqVars>>

(* Variant: send without m_pub_socket_mutex. *)
send_topic_unlocked(c) == send_part(c, "send", "header", Frame(c, 0)) /\ UNCHANGED pub

(* zeromq_api_svr::send: the mutex, then the three parts one by one. *)
send_topic(c) ==
    /\ pub = Nobody
    /\ pub' = c
    /\ send_part(c, "send", "header", Frame(c, 0))

send_header(c) == send_part(c, "header", "payload", metadata(c)) /\ UNCHANGED pub

(* The last part completes the message; send, the callback and the frame's  *)
(* handler return, and both mutexes are released.                           *)
send_payload(c) ==
    /\ goto(c, "payload", "idle")
    /\ parts' = <<>>
    /\ sent' = [sent EXCEPT ![c] = Append(@, Last(buffer[c]).n)]
    /\ pub' = Nobody
    /\ unlock(c)
    /\ UNCHANGED <<srcVars, reqVars>>

(* Variant: a failed send returns with the mutex held. *)
send_fails_locked(c) ==
    /\ pub = Nobody
    /\ pub' = c
    /\ goto(c, "send", "idle")
    /\ unlock(c)
    /\ UNCHANGED <<srcVars, parts, sent, reqVars>>

(* send_multipart did nothing, or threw, and send returns false, which the  *)
(* callback ignores.                                                        *)
send_fails(c) ==
    /\ pub = Nobody
    /\ goto(c, "send", "idle")
    /\ unlock(c)
    /\ UNCHANGED <<srcVars, sockVars, reqVars>>
-----------------------------------------------------------------------------
(* The newest frame p has finished with. *)
Newest(p) == IF at[p] = "idle" THEN frame[p].n ELSE frame[p].n - 1

(* http_req_jpeg::handle, with the thumbnail its URI is registered for. *)
handle(w, p) ==
    /\ goto(w, "idle", "lock")
    /\ asked' = [asked EXCEPT ![w] = p]
    /\ since' = [since EXCEPT ![w] = Newest(p)]
    /\ UNCHANGED <<srcVars, owner, sockVars, image>>

(* Variant: copy_frame_buffer without the mutex. *)
copy_frame_buffer_unlocked(w) ==
    /\ \/ goto(w, "lock", "copy") /\ UNCHANGED <<owner, image>>
       \/ /\ Len(image[w]) < Len(buffer[asked[w]])
          /\ image' = [image EXCEPT ![w] = Append(@, buffer[asked[w]][Len(@) + 1])]
          /\ at[w] = "copy" /\ UNCHANGED <<at, owner>>
       \/ /\ Len(image[w]) >= Len(buffer[asked[w]])
          /\ goto(w, "copy", "answer")
          /\ UNCHANGED <<owner, image>>
    /\ UNCHANGED <<srcVars, sockVars, asked, since>>

(* copy_frame_buffer: the mutex, *out_frame_buffer = *m_frame_buffer block  *)
(* by block, and the end of the critical section.                           *)
copy_frame_buffer(w) ==
    /\ \/ goto(w, "lock", "copy") /\ lock(asked[w], w) /\ UNCHANGED image
       \/ /\ Len(image[w]) < Len(buffer[asked[w]])
          /\ image' = [image EXCEPT ![w] = Append(@, buffer[asked[w]][Len(@) + 1])]
          /\ at[w] = "copy" /\ UNCHANGED <<at, owner>>
       \/ /\ Len(image[w]) = Len(buffer[asked[w]])
          /\ goto(w, "copy", "answer")
          /\ unlock(asked[w]) /\ UNCHANGED image
    /\ UNCHANGED <<srcVars, sockVars, asked, since>>

(* The image is written, or status 500 when there is none. *)
answer(w) ==
    /\ goto(w, "answer", "idle")
    /\ image' = [image EXCEPT ![w] = <<>>]
    /\ since' = [since EXCEPT ![w] = 0]
    /\ UNCHANGED <<srcVars, owner, sockVars, asked>>
-----------------------------------------------------------------------------
sink(p)   == pull_sample(p) \/ null_sample(p) \/ lock_resize(p) \/ copy_block(p) \/ copy_done(p)
alvium(p) == new_frame(p) \/ new_frame_cb_JXR0(p) \/ new_frame_cb_XR24(p)
send(c)   == send_topic(c) \/ send_header(c) \/ send_payload(c) \/ send_fails(c)
worker(w) == (\E p \in Thumbs : handle(w, p)) \/ copy_frame_buffer(w) \/ answer(w)

Next ==
    \/ \E p \in Sinks : sink(p)
    \/ \E p \in Alvium : alvium(p)
    \/ \E c \in Cams : send(c) \/ set_framebuffer_callback(c)
    \/ \E w \in Workers : worker(w)

Spec == Init /\ [][Next]_vars
-----------------------------------------------------------------------------
(* An HTTP client gets the image of one frame of the thumbnail it asked for *)
(* (http_req_jpeg::handle), never blocks of two or the rest of a longer     *)
(* one, and none that is older than the newest one that was complete when   *)
(* the request came; status 500 only if there was none.                     *)
ImageIsWhole ==
    \A w \in Workers :
        at[w] = "answer" =>
            \/ image[w] = <<>> /\ since[w] = 0
            \/ \E n \in 1 .. Len(Sizes) : n >= since[w] /\ image[w] = Image(Frame(asked[w], n))

(* The message a camera completes on the shared socket (zeromq_api_svr::send)*)
(* has its own topic, the metadata of the frame and the whole image of that *)
(* frame, whatever the other camera's thread does.                          *)
MessagesAreWhole ==
    \A c \in Cams :
        at[c] = "payload" =>
            parts = <<Frame(c, 0), metadata(c)>> /\ buffer[c] = Image(frame[c])

(* A camera publishes no frame twice and none after a newer one. *)
FramesInOrder ==
    \A c \in Cams : \A i, j \in DOMAIN sent[c] : i < j => sent[c][i] < sent[c][j]

(* A thread that holds a mutex is in its critical section and goes on: the  *)
(* holder of an m_frame_buffer_mutex waits for nothing but                  *)
(* m_pub_socket_mutex, in send, and the holder of that for nothing.  So no  *)
(* handler, however it ends, leaves a mutex locked, and threads never wait  *)
(* for each other in a circle.                                              *)
HoldersGoOn ==
    /\ \A p \in Pipes :
          \/ owner[p] = Nobody
          \/ owner[p] = p /\ at[p] \in {"copy", "send", "header", "payload"}
          \/ \E w \in Workers : owner[p] = w /\ asked[w] = p /\ at[w] = "copy"
    /\ pub # Nobody => pub \in Cams /\ owner[pub] = pub /\ at[pub] \in {"header", "payload"}
=============================================================================
