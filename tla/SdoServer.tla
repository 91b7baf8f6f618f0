----------------------------- MODULE SdoServer -------------------------------
(***************************************************************************)
(* CO_SDOserver.c: the CANopen SDO server of a node.                       *)
(*                                                                         *)
(* The record srv holds the fields of CO_SDO the server uses: rx keeps the *)
(* last frame after is_new is cleared, as the code does, and tx the last   *)
(* frame built.  data is the memory behind p_data and stage the one behind *)
(* p_temp_data or p_shadow_data.  State FAULT is the read through a null   *)
(* p_ext: the node's behaviour ends there.                                 *)
(***************************************************************************)
EXTENDS SdoBus

VARIABLES srv, data, stage

memVars == <<data, stage>>

ServerStates == {"IDLE", "DL_RSP", "DL_SEG", "UL_RSP", "UL_SEG", "FAULT"}

HasExt(o)   == Backing[o] \in {"ext", "command", "handle"}
IsStaged(o) == Backing[o] \in {"temp", "reset", "ext", "command"}

ServerInit ==
    /\ srv = [state |-> "IDLE", status |-> "idle", obj |-> NoMux, tlen |-> 0, off |-> 0,
              toggle |-> 0, internal |-> FALSE, timer |-> FALSE,
              rx |-> NoFrame, isNew |-> FALSE, tx |-> NoFrame]
    /\ data = [o \in Object |-> Bytes(Factory, ObjLen[o])]
    /\ stage = data

------------------------------------------------------------------------------
\* CO_can_receive_basic_handle
ServerDeliver ==
    /\ toSrv # <<>>
    /\ toSrv' = Tail(toSrv)
    /\ srv' = [srv EXCEPT !.rx = Head(toSrv), !.isNew = TRUE]
    /\ UNCHANGED <<toCli, memVars>>

\* mutant: is_internal_processing survives
SAbortedKeeps(s) == [s EXCEPT !.state = "IDLE", !.status = "abort", !.isNew = FALSE,
                              !.timer = FALSE]

\* CO_SDO_abort
SAborted(s) == [s EXCEPT !.state = "IDLE", !.status = "abort", !.isNew = FALSE,
                         !.internal = FALSE, !.timer = FALSE]

\* The end of CO_SDOserver_process_: is_new is cleared, and an idle server reports idle.
Settled(s) == [s EXCEPT !.isNew = FALSE,
                        !.status = IF s.state = "IDLE" THEN "idle" ELSE "busy"]

\* CO_CAN_send(&tx_msg) ends the handler
Answer(s, frame) ==
    /\ toCli' = Sent(toCli, frame)
    /\ srv' = Settled([s EXCEPT !.tx = frame])

\* CO_SDO_abort_and_response, from a handler
SReject(s) == Answer(SAborted(s), Abort)

\* What every path does first with a new frame
Heard == [srv EXCEPT !.timer = IF srv.isNew THEN FALSE ELSE srv.timer, !.isNew = FALSE]

\* mutant: no time-out for the client's next frame
AwaitingUntimed(s, state) == [s EXCEPT !.state = state, !.timer = FALSE]

\* CO_SDOtimeout_reset_and_activate, and the state that waits
Awaiting(s, state) == [s EXCEPT !.state = state, !.timer = TRUE]
Done(s) == [s EXCEPT !.state = "IDLE"]

ServerTimeout ==
    /\ srv.timer
    /\ srv' = SAborted(srv)
    /\ UNCHANGED <<busVars, memVars>>

\* An abort frame ends the transfer; is_internal_processing keeps its value.
SReceiveAbort ==
    /\ srv.isNew /\ srv.rx.cs = "abort" /\ srv.state # "FAULT"
    /\ srv' = [srv EXCEPT !.state = "IDLE", !.status = "abort", !.isNew = FALSE, !.timer = FALSE]
    /\ UNCHANGED <<busVars, memVars>>

\* A tick with nothing to handle
ServerRest ==
    /\ srv.state = "IDLE" /\ ~srv.isNew /\ srv.status # "idle"
    /\ srv' = Settled(srv)
    /\ UNCHANGED <<busVars, memVars>>

------------------------------------------------------------------------------
\* CO_memcpy of bytes to p_data_itf + off
Store(o, off, bytes) ==
    IF IsStaged(o)
    THEN stage' = [stage EXCEPT ![o] = Written(@, off, bytes)] /\ UNCHANGED data
    ELSE data' = [data EXCEPT ![o] = Written(@, off, bytes)] /\ UNCHANGED stage

\* The last bytes of a download: with p_temp_data that takes effect right away the
\* whole object is copied, in the same handler.
StoreLast(o, off, bytes) ==
    IF Backing[o] = "temp"
    THEN LET whole == Written(stage[o], off, bytes)
         IN stage' = [stage EXCEPT ![o] = whole] /\ data' = [data EXCEPT ![o] = whole]
    ELSE Store(o, off, bytes)

\* A transfer is complete: the answer is sent, or prepared until confirm_func agrees.
Complete(s, frame) ==
    IF HasExt(s.obj)
    THEN /\ srv' = Settled([Awaiting(s, s.state) EXCEPT !.tx = frame, !.internal = TRUE])
         /\ UNCHANGED toCli
    ELSE Answer(Done(s), frame)

\* What confirm_func may answer for an object, external code
Confirms(o) ==
    {"processing", "abort"} \cup (IF Backing[o] = "ext" THEN {"copy_and_success"} ELSE {"success"})

\* The confirmation half of both download handlers
Confirm(s) ==
    IF ~HasExt(s.obj)
    THEN srv' = [s EXCEPT !.state = "FAULT"] /\ UNCHANGED <<toCli, memVars>>
    ELSE \E r \in Confirms(s.obj) :
           LET ended == [Done(s) EXCEPT !.internal = FALSE, !.timer = FALSE]
           IN /\ CASE r = "processing" -> srv' = Settled(s) /\ UNCHANGED toCli
                   [] r = "abort" -> SReject(s)
                   [] OTHER -> Answer(ended, s.tx)
              /\ data' = IF r = "copy_and_success"
                         THEN [data EXCEPT ![s.obj] = stage[s.obj]] ELSE data
              /\ UNCHANGED stage

ServerConfirm ==
    /\ srv.internal /\ srv.state \in {"DL_RSP", "DL_SEG"}
    /\ ~(srv.isNew /\ srv.rx.cs = "abort")
    /\ Confirm(Heard)
    /\ UNCHANGED toSrv

------------------------------------------------------------------------------
\* mutant: the length the client announces is not compared with the object's
FitsAny(o, n) == TRUE

\* CO_SDO_CHECK_MATCH_DATA_LENGTH
Fits(o, n) == n <= ObjLen[o]

\* CO_SDOserver_download_initiate_response_handle, its data half
InitDownload(s) ==
    LET f == s.rx
        begun == [s EXCEPT !.toggle = 0, !.off = 0, !.tlen = f.size]
        answer == [NoFrame EXCEPT !.cs = "dlInitRsp", !.mux = f.mux]
    IN \/ ~Fits(s.obj, f.size) /\ SReject(begun) /\ UNCHANGED memVars
       \/ /\ f.last /\ Fits(s.obj, f.size)
          /\ StoreLast(s.obj, 0, Taken(f.bytes, f.size))
          /\ Complete([begun EXCEPT !.off = f.size], answer)
       \/ /\ ~f.last /\ Fits(s.obj, f.size)
          /\ Answer(Awaiting(begun, "DL_SEG"), answer)
          /\ UNCHANGED memVars

\* CO_SDOserver_upload_initiate_response_handle
InitUpload(s) ==
    LET n == ObjLen[s.obj]
        begun == [s EXCEPT !.toggle = 0, !.off = 0, !.tlen = n]
        answer == [NoFrame EXCEPT !.cs = "ulInitRsp", !.mux = s.rx.mux, !.size = n]
    IN /\ IF n <= ExpSize
          THEN Answer(Done([begun EXCEPT !.off = n]),
                      [answer EXCEPT !.last = TRUE, !.bytes = data[s.obj]])
          ELSE Answer(Awaiting(begun, "UL_SEG"), answer)
       /\ UNCHANGED memVars

\* CO_SDOserver_process_first_msg_and_set_state and the handler of the state it sets,
\* in one call.  A stale is_internal_processing sends a download to the confirmation.
Admitted(f) ==
    \/ f.cs = "dlInit" /\ f.mux \in Writable
    \/ f.cs = "ulInit" /\ f.mux \in Readable

RefuseFirst ==
    /\ srv.state = "IDLE" /\ srv.isNew /\ srv.rx.cs # "abort" /\ ~Admitted(srv.rx)
    /\ toCli' = Sent(toCli, Abort)
    /\ srv' = [SAborted(srv) EXCEPT !.tx = Abort]
    /\ UNCHANGED <<toSrv, memVars>>

BeginDownload ==
    /\ srv.state = "IDLE" /\ srv.isNew /\ srv.rx.cs = "dlInit" /\ Admitted(srv.rx)
    /\ LET s == [Heard EXCEPT !.obj = srv.rx.mux, !.state = "DL_RSP"]
       IN IF srv.internal THEN Confirm(s) ELSE InitDownload(s)
    /\ UNCHANGED toSrv

BeginUpload ==
    /\ srv.state = "IDLE" /\ srv.isNew /\ srv.rx.cs = "ulInit" /\ Admitted(srv.rx)
    /\ InitUpload([Heard EXCEPT !.obj = srv.rx.mux, !.state = "UL_RSP"])
    /\ UNCHANGED toSrv

------------------------------------------------------------------------------
IsLastSegment == srv.tlen <= srv.off + SegSize
SegmentCount == IF IsLastSegment THEN srv.tlen - srv.off ELSE SegSize
\* mutant: the offset stays
AdvancedNot == Heard

Advanced == [Heard EXCEPT !.off = srv.off + SegmentCount]

\* CO_SDOserver_download_segment_handle, its data half: the toggle bit flips on every
\* segment but the last
ServerDownloadSegment ==
    /\ srv.state = "DL_SEG" /\ srv.isNew /\ ~srv.internal /\ srv.rx.cs # "abort"
    /\ LET f == srv.rx
           bytes == Taken(f.bytes, SegmentCount)
           answer == [NoFrame EXCEPT !.cs = "dlSegRsp", !.toggle = srv.toggle]
           accepted == f.cs = "dlSeg" /\ f.toggle = srv.toggle /\ f.last = IsLastSegment
       IN \/ ~accepted /\ SReject(Heard) /\ UNCHANGED memVars
          \/ /\ accepted /\ f.last
             /\ StoreLast(srv.obj, srv.off, bytes)
             /\ Complete(Advanced, answer)
          \/ /\ accepted /\ ~f.last
             /\ Store(srv.obj, srv.off, bytes)
             /\ Answer(Awaiting([Advanced EXCEPT !.toggle = 1 - srv.toggle], "DL_SEG"), answer)
    /\ UNCHANGED toSrv

\* CO_SDOserver_upload_segment_handle: with a stale is_internal_processing it runs on
\* the next tick and reads the frame it has already handled
ServerUploadSegment ==
    /\ srv.state = "UL_SEG" /\ (srv.isNew \/ srv.internal)
    /\ ~(srv.isNew /\ srv.rx.cs = "abort")
    /\ LET f == srv.rx
           accepted == f.cs = "ulSeg" /\ f.toggle = srv.toggle
           next == [Advanced EXCEPT !.toggle = 1 - srv.toggle]
           answer == [NoFrame EXCEPT !.cs = "ulSegRsp", !.toggle = srv.toggle,
                        !.last = IsLastSegment,
                        !.bytes = SubSeq(data[srv.obj], srv.off + 1, srv.off + SegmentCount)]
       IN \/ ~accepted /\ SReject(Heard)
          \/ accepted /\ IsLastSegment /\ Answer(Done(next), answer)
          \/ accepted /\ ~IsLastSegment /\ Answer(Awaiting(next, "UL_SEG"), answer)
    /\ UNCHANGED <<toSrv, memVars>>

\* CO_SDOserver_process_, one disjunct per way a tick can go
ServerHandle ==
    \/ SReceiveAbort
    \/ ServerRest
    \/ RefuseFirst
    \/ BeginDownload
    \/ BeginUpload
    \/ ServerConfirm
    \/ ServerDownloadSegment
    \/ ServerUploadSegment
==============================================================================
