----------------------------- MODULE SdoClient -------------------------------
(***************************************************************************)
(* CO_SDOclient.c: the CANopen SDO client, one request at a time.          *)
(*                                                                         *)
(* The record cli holds the fields of CO_SDO the client uses.  buf is the  *)
(* memory behind p_sub_obj->p_data: the source of a download, the          *)
(* destination of an upload; its length is p_sub_obj->len.  The time-out   *)
(* counter is kept as "running or not" and may run out whenever it runs.   *)
(* rx is NoFrame when is_new is 0.  A tick the sync window forbids is a    *)
(* tick not taken.                                                         *)
(***************************************************************************)
EXTENDS SdoBus

CONSTANT ReqLen     \* the lengths callers ask for, for each mux

ASSUME ReqLenAssumption == ReqLen \in [Mux -> SUBSET Nat]

VARIABLE cli

ClientStates == {"IDLE", "DL_REQ", "DL_RSP", "DL_SEG", "UL_REQ", "UL_RSP", "UL_SEG"}

ClientInit ==
    cli = [state |-> "IDLE", status |-> "idle", mux |-> NoMux, buf |-> <<>>, tlen |-> 0,
           off |-> 0, toggle |-> 0, internal |-> FALSE, timer |-> FALSE, rx |-> NoFrame]

------------------------------------------------------------------------------
\* CO_SDO_reset_status and CO_SDOclient_start_download, in the order
\* sm_co_SDO_process calls them.
StartDownload(m, n, p) ==
    /\ cli.state = "IDLE" /\ n \in ReqLen[m]
    /\ cli' = [cli EXCEPT !.state = "DL_REQ", !.status = "busy", !.mux = m,
                          !.buf = Bytes(p, n), !.internal = TRUE]
    /\ UNCHANGED busVars

StartUpload(m, n) ==
    /\ cli.state = "IDLE" /\ n \in ReqLen[m]
    /\ cli' = [cli EXCEPT !.state = "UL_REQ", !.status = "busy", !.mux = m,
                          !.buf = [i \in 1 .. n |-> Junk], !.internal = TRUE]
    /\ UNCHANGED busVars

\* CO_can_receive_basic_handle: a frame overwrites the one before it, and an idle
\* client takes none.
ClientDeliver ==
    /\ toCli # <<>>
    /\ toCli' = Tail(toCli)
    /\ cli' = IF cli.state = "IDLE" THEN cli ELSE [cli EXCEPT !.rx = Head(toCli)]
    /\ UNCHANGED toSrv

------------------------------------------------------------------------------
\* CO_SDO_abort
CAborted == [cli EXCEPT !.state = "IDLE", !.status = "abort", !.rx = NoFrame,
                        !.internal = FALSE, !.timer = FALSE]

\* CO_SDO_abort_and_response
CReject == toSrv' = Sent(toSrv, Abort) /\ cli' = CAborted

CSuccess(c) == [c EXCEPT !.state = "IDLE", !.status = "success", !.rx = NoFrame,
                         !.timer = FALSE]

\* mutant: no time-out for the answer
CRequestUntimed(c, s, frame) ==
    /\ toSrv' = Sent(toSrv, frame)
    /\ cli' = [c EXCEPT !.state = s, !.rx = NoFrame, !.timer = FALSE]

\* A request frame leaves and its answer is awaited in state s.
CRequest(c, s, frame) ==
    /\ toSrv' = Sent(toSrv, frame)
    /\ cli' = [c EXCEPT !.state = s, !.rx = NoFrame, !.timer = TRUE]

ClientTimeout ==
    /\ cli.state # "IDLE" /\ cli.timer
    /\ cli' = CAborted
    /\ UNCHANGED busVars

CReceiveAbort ==
    /\ cli.state # "IDLE" /\ cli.rx.cs = "abort"
    /\ cli' = [cli EXCEPT !.state = "IDLE", !.status = "abort", !.rx = NoFrame, !.timer = FALSE]
    /\ UNCHANGED busVars

\* CO_SDOclient_process_init_transfer_msg
CInitTransfer(n) == [cli EXCEPT !.toggle = 0, !.off = 0, !.tlen = n, !.internal = FALSE]

\* The n bits of an expedited frame hold 4 - len modulo 4: a length of 0 reads as 4.
ExpCount(n) == IF n = 0 THEN ExpSize ELSE n

DownloadInitiateRequest ==
    /\ cli.state = "DL_REQ" /\ cli.rx.cs # "abort"
    /\ LET n == Len(cli.buf)
           frame == [NoFrame EXCEPT !.cs = "dlInit", !.mux = cli.mux]
       IN CRequest(CInitTransfer(n), "DL_RSP",
                   IF n <= ExpSize
                   THEN [frame EXCEPT !.last = TRUE, !.size = ExpCount(n), !.bytes = cli.buf]
                   ELSE [frame EXCEPT !.size = n])
    /\ UNCHANGED toCli

SegmentEnd(c) == IF c.tlen <= c.off + SegSize THEN c.tlen ELSE c.off + SegSize

\* mutant: the second and later segments are read from the start of the buffer
DownloadSegmentRewound(c) ==
    CRequest([c EXCEPT !.off = SegmentEnd(c)], "DL_SEG",
             [NoFrame EXCEPT !.cs = "dlSeg", !.toggle = c.toggle,
                             !.last = (c.tlen <= c.off + SegSize),
                             !.bytes = SubSeq(c.buf, 1, SegmentEnd(c) - c.off)])

\* The next segment of the buffer, with the toggle bit and the last-segment mark.
DownloadSegment(c) ==
    CRequest([c EXCEPT !.off = SegmentEnd(c)], "DL_SEG",
             [NoFrame EXCEPT !.cs = "dlSeg", !.toggle = c.toggle,
                             !.last = (c.tlen <= c.off + SegSize),
                             !.bytes = SubSeq(c.buf, c.off + 1, SegmentEnd(c))])

DownloadInitiateResponse ==
    /\ cli.state = "DL_RSP" /\ cli.rx.cs \notin {"none", "abort"}
    /\ \/ cli.rx.cs # "dlInitRsp" /\ CReject
       \/ cli.rx.cs = "dlInitRsp" /\ cli.rx.mux # cli.mux /\ CReject
       \/ /\ cli.rx.cs = "dlInitRsp" /\ cli.rx.mux = cli.mux
          /\ IF cli.tlen <= ExpSize
             THEN cli' = CSuccess(cli) /\ UNCHANGED toSrv
             ELSE DownloadSegment(cli)
    /\ UNCHANGED toCli

\* mutant: the toggle bit is counted up instead of flipped
FlippedUp(c) == [c EXCEPT !.toggle = c.toggle + 1]

\* toggle ^= 1 << 4
Flipped(c) == [c EXCEPT !.toggle = 1 - c.toggle]

\* CO_SDOclient_download_segment_handle
DownloadSegmentResponse ==
    /\ cli.state = "DL_SEG" /\ cli.rx.cs \notin {"none", "abort"}
    /\ \/ (cli.rx.cs # "dlSegRsp" \/ cli.rx.toggle # cli.toggle) /\ CReject
       \/ /\ cli.rx.cs = "dlSegRsp" /\ cli.rx.toggle = cli.toggle
          /\ IF cli.tlen <= cli.off
             THEN cli' = CSuccess(Flipped(cli)) /\ UNCHANGED toSrv
             ELSE DownloadSegment(Flipped(cli))
    /\ UNCHANGED toCli

UploadInitiateRequest ==
    /\ cli.state = "UL_REQ" /\ cli.rx.cs # "abort"
    /\ CRequest(CInitTransfer(cli.tlen), "UL_RSP",
                [NoFrame EXCEPT !.cs = "ulInit", !.mux = cli.mux])
    /\ UNCHANGED toCli

AskSegment(c) == CRequest(c, "UL_SEG", [NoFrame EXCEPT !.cs = "ulSeg", !.toggle = c.toggle])

\* The server announces more than the caller's buffer holds: an expedited answer
\* is dropped without a word, a segmented one is refused with an abort frame.
UploadInitiateResponse ==
    /\ cli.state = "UL_RSP" /\ cli.rx.cs \notin {"none", "abort"}
    /\ LET n == cli.rx.size
           answered == cli.rx.cs = "ulInitRsp" /\ cli.rx.mux = cli.mux
           fits == n <= Len(cli.buf)
       IN \/ ~answered /\ CReject
          \/ /\ answered /\ cli.rx.last
             /\ cli' = IF fits
                       THEN CSuccess([cli EXCEPT !.buf = Written(@, 0, Taken(cli.rx.bytes, n)),
                                                 !.tlen = n, !.off = n])
                       ELSE [CAborted EXCEPT !.tlen = n]
             /\ UNCHANGED toSrv
          \/ answered /\ ~cli.rx.last /\ ~fits /\ CReject
          \/ /\ answered /\ ~cli.rx.last /\ fits
             /\ AskSegment([cli EXCEPT !.tlen = n, !.off = 0])
    /\ UNCHANGED toCli

\* CO_SDOclient_upload_segment_handle
UploadSegmentResponse ==
    /\ cli.state = "UL_SEG" /\ cli.rx.cs \notin {"none", "abort"}
    /\ LET n == SegmentEnd(cli) - cli.off
           isLast == cli.tlen <= cli.off + SegSize
           filled == [Flipped(cli) EXCEPT !.buf = Written(@, cli.off, Taken(cli.rx.bytes, n)),
                                          !.off = cli.off + n]
           answered == cli.rx.cs = "ulSegRsp" /\ cli.rx.toggle = cli.toggle
       IN \/ (~answered \/ cli.rx.last # isLast) /\ CReject
          \/ /\ answered /\ cli.rx.last /\ isLast
             /\ cli' = CSuccess(filled) /\ UNCHANGED toSrv
          \/ /\ answered /\ ~cli.rx.last /\ ~isLast
             /\ AskSegment(filled)
    /\ UNCHANGED toCli

\* CO_SDOclient_process_, one disjunct per handler
ClientHandle ==
    \/ CReceiveAbort
    \/ DownloadInitiateRequest
    \/ DownloadInitiateResponse
    \/ DownloadSegmentResponse
    \/ UploadInitiateRequest
    \/ UploadInitiateResponse
    \/ UploadSegmentResponse
==============================================================================
