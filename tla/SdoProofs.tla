------------------------------- MODULE SdoProofs ------------------------------
(***************************************************************************)
(* SdoTransfer for any object dictionary, any requested lengths, any       *)
(* segment and expedited size and any depth of the bus: no handler of the  *)
(* client or of the server copies outside its memory, whatever frames are  *)
(* lost, late or stale.                                                    *)
(*                                                                         *)
(* Where time-outs are prompt the argument is that at most one frame is    *)
(* under way between the two ends (InStep): then both are in the same      *)
(* transfer, an upload brings the bytes of the object, and a download      *)
(* takes effect at one instant, so the transfers implement SdoAtomic.      *)
(***************************************************************************)
EXTENDS SdoTransfer, SequenceTheorems, TLAPS

Commands == {"none", "abort", "dlInit", "dlInitRsp", "dlSeg", "dlSegRsp",
             "ulInit", "ulInitRsp", "ulSeg", "ulSegRsp"}

\* A segmented transfer is announced with a length that is not 0: it is past ExpSize.
Frame == {f \in [cs : Commands, mux : Mux \union {NoMux}, toggle : {0, 1}, last : BOOLEAN,
                 size : Nat, bytes : Seq(Cells)] :
             f.cs \in {"dlInit", "ulInitRsp"} /\ ~f.last => f.size # 0}

ClientRec == [state : ClientStates, status : {"idle", "busy", "success", "abort"},
              mux : Mux \union {NoMux}, buf : Seq(Cells), tlen : Nat, off : Nat,
              toggle : {0, 1}, internal : BOOLEAN, timer : BOOLEAN, rx : Frame]

ServerRec == [state : ServerStates, status : {"idle", "busy", "abort"},
              obj : Object \union {NoMux}, tlen : Nat, off : Nat, toggle : {0, 1},
              internal : BOOLEAN, timer : BOOLEAN, rx : Frame, isNew : BOOLEAN, tx : Frame]

\* What the client c knows of its buffer, and what it is about to copy.
ClientOk(c) ==
    /\ c \in ClientRec
    /\ c.state \in {"DL_RSP", "DL_SEG"} => c.off <= c.tlen /\ c.tlen = Len(c.buf)
    /\ c.state = "UL_SEG" => c.off < c.tlen /\ c.tlen <= Len(c.buf)

\* What the server s knows of the object, and what it is about to copy.
ServerOk(s) ==
    /\ s \in ServerRec
    /\ s.state \in {"DL_RSP", "DL_SEG", "UL_RSP", "UL_SEG"} => s.obj \in Object
    /\ s.state \in {"DL_SEG", "UL_SEG"} =>
          /\ s.tlen <= ObjLen[s.obj]
          /\ s.off < s.tlen \/ (s.state = "DL_SEG" /\ s.internal)

Channel == {ch \in Seq(Frame) : Len(ch) <= Depth}
Memory  == {f \in [Object -> Seq(Cells)] : \A o \in Object : Len(f[o]) = ObjLen[o]}

\* The inductive form of MemorySafe
MemoryInv ==
    /\ toSrv \in Channel /\ toCli \in Channel
    /\ ClientOk(cli)
    /\ ServerOk(srv)
    /\ data \in Memory /\ stage \in Memory
    /\ used \subseteq Mux /\ prompt \in BOOLEAN

------------------------------------------------------------------------------
(* Memory and frames                                                         *)

\* A function of 1 .. n is a sequence of length n.
LEMMA SeqOf ==
    ASSUME NEW S, NEW n \in Nat, NEW f \in [1 .. n -> S]
    PROVE  f \in Seq(S) /\ Len(f) = n /\ DOMAIN f = 1 .. n
  OBVIOUS

\* What a caller writes, and what an object holds at first, are whole bytes.
LEMMA BytesType ==
    ASSUME NEW p \in Payload \union {Factory}, NEW n \in Nat
    PROVE  /\ Bytes(p, n) \in Seq(Cells) /\ Len(Bytes(p, n)) = n
           /\ \A i \in 1 .. n : Bytes(p, n)[i] = <<p, i>>
<1>1. Bytes(p, n) \in [1 .. n -> Cells]
  BY DEF Bytes, Cells
<1>2. QED
  BY <1>1, SeqOf DEF Bytes

\* A buffer nobody has filled
LEMMA JunkType ==
    ASSUME NEW n \in Nat
    PROVE  [i \in 1 .. n |-> Junk] \in Seq(Cells) /\ Len([i \in 1 .. n |-> Junk]) = n
<1>1. [i \in 1 .. n |-> Junk] \in [1 .. n -> Cells]
  BY DEF Cells
<1>2. QED
  BY <1>1, SeqOf

\* What is copied out of a frame is n bytes, whatever the frame holds.
LEMMA TakenType ==
    ASSUME NEW b \in Seq(Cells), NEW n \in Nat
    PROVE  /\ Taken(b, n) \in Seq(Cells) /\ Len(Taken(b, n)) = n
           /\ \A i \in 1 .. n : Taken(b, n)[i] = IF i <= Len(b) THEN b[i] ELSE Junk
<1>1. \A i \in 1 .. Len(b) : b[i] \in Cells
  BY ElementOfSeq
<1>2. Taken(b, n) \in [1 .. n -> Cells]
  BY <1>1 DEF Taken, Cells
<1>3. QED
  BY <1>2, SeqOf DEF Taken

\* A copy into a memory keeps its length and its kind (CO_memcpy).
LEMMA WrittenType ==
    ASSUME NEW mem \in Seq(Cells), NEW off \in Nat, NEW b \in Seq(Cells)
    PROVE  /\ Written(mem, off, b) \in Seq(Cells) /\ Len(Written(mem, off, b)) = Len(mem)
           /\ \A k \in 1 .. Len(mem) :
                 Written(mem, off, b)[k] = IF k \in off + 1 .. off + Len(b) THEN b[k - off]
                                           ELSE mem[k]
<1>1. Len(mem) \in Nat /\ DOMAIN mem = 1 .. Len(mem) /\ Len(b) \in Nat
  BY LenProperties
<1>2. \A k \in 1 .. Len(mem) : mem[k] \in Cells
  BY ElementOfSeq
<1>3. \A k \in off + 1 .. off + Len(b) : b[k - off] \in Cells
  BY <1>1, ElementOfSeq
<1>4. Written(mem, off, b) \in [1 .. Len(mem) -> Cells]
  BY <1>1, <1>2, <1>3 DEF Written
<1>5. QED
  BY <1>1, <1>4, SeqOf DEF Written

\* What is cut out of a memory is bytes of it.
LEMMA SegmentType ==
    ASSUME NEW mem \in Seq(Cells), NEW m \in Nat, NEW n \in Nat, n <= Len(mem)
    PROVE  SubSeq(mem, m + 1, n) \in Seq(Cells)
<1>1. \A i \in m + 1 .. n : mem[i] \in Cells
  BY ElementOfSeq
<1>2. QED
  BY <1>1, SubSeqProperties

\* The empty frame and the abort frame are frames.
LEMMA EmptyFrames == NoFrame \in Frame /\ Abort \in Frame
<1>1. <<>> \in Seq(Cells)
  BY EmptySeq
<1>2. NoFrame \in Frame
  BY <1>1 DEF Frame, NoFrame, Commands
<1>3. Abort \in Frame
  BY <1>1 DEF Frame, Abort, NoFrame, Commands
<1>4. QED
  BY <1>2, <1>3

\* A frame that is sent leaves a channel of at most Depth frames.
LEMMA SentType ==
    ASSUME NEW ch \in Channel, NEW f \in Frame
    PROVE  Sent(ch, f) \in Channel
<1>1. Append(ch, f) \in Seq(Frame) /\ Len(Append(ch, f)) = Len(ch) + 1 /\ Len(ch) \in Nat
  BY LenProperties, AppendProperties DEF Channel
<1>2. QED
  BY <1>1, SizeAssumption DEF Sent, Channel

\* A channel that loses one of its frames is a channel.
LEMMA WithoutType ==
    ASSUME NEW ch \in Channel, NEW i \in 1 .. Len(ch)
    PROVE  Without(ch, i) \in Channel
<1>1. ch \in Seq(Frame) /\ Len(ch) \in Nat /\ Len(ch) <= Depth
  BY LenProperties DEF Channel
<1>2. \A k \in 1 .. Len(ch) : ch[k] \in Frame
  BY <1>1, ElementOfSeq
<1>3. Without(ch, i) \in [1 .. Len(ch) - 1 -> Frame]
  BY <1>1, <1>2 DEF Without
<1>4. QED
  BY <1>1, <1>3, SizeAssumption DEF Channel

\* What is delivered is a frame.
LEMMA TakenOff ==
    ASSUME NEW ch \in Channel, ch # <<>>
    PROVE  Head(ch) \in Frame /\ Tail(ch) \in Channel
<1>1. ch \in Seq(Frame) /\ Len(ch) \in Nat /\ Len(ch) <= Depth
  BY LenProperties DEF Channel
<1>2. Head(ch) \in Frame /\ Tail(ch) \in Seq(Frame) /\ Len(Tail(ch)) = Len(ch) - 1
  BY <1>1, HeadTailProperties
<1>3. QED
  BY <1>1, <1>2, SizeAssumption DEF Channel


------------------------------------------------------------------------------
(* The client keeps its buffer and its offsets                               *)

\* A request that leaves keeps what the client knows of its transfer.
LEMMA RequestKept ==
    ASSUME toSrv \in Channel, NEW c \in ClientRec, NEW s \in ClientStates, NEW f \in Frame,
           CRequest(c, s, f)
    PROVE  /\ toSrv' \in Channel
           /\ cli' \in ClientRec
           /\ cli' = [c EXCEPT !.state = s, !.rx = NoFrame, !.timer = TRUE]
           /\ cli'.state = s /\ cli'.tlen = c.tlen /\ cli'.off = c.off /\ cli'.buf = c.buf
<1>1. toSrv' \in Channel
  BY SentType DEF CRequest
<1>2. cli' = [c EXCEPT !.state = s, !.rx = NoFrame, !.timer = TRUE]
  BY DEF CRequest
<1>3. QED
  BY <1>1, <1>2, EmptyFrames DEF ClientRec

\* An end of the transfer, whichever, leaves a client at rest.
LEMMA ClientEnds ==
    ASSUME cli \in ClientRec, toSrv \in Channel
    PROVE  /\ CAborted \in ClientRec /\ CAborted.state = "IDLE"
           /\ CReject => toSrv' \in Channel /\ ClientOk(cli')
           /\ \A c \in ClientRec : ClientOk(CSuccess(c))
<1>1. CAborted \in ClientRec /\ CAborted.state = "IDLE"
  BY EmptyFrames DEF CAborted, ClientRec, ClientStates
<1>2. CReject => toSrv' \in Channel /\ ClientOk(cli')
  BY <1>1, SentType, EmptyFrames DEF CReject, ClientOk
<1>3. ASSUME NEW c \in ClientRec
      PROVE  ClientOk(CSuccess(c))
  BY EmptyFrames DEF CSuccess, ClientRec, ClientStates, ClientOk
<1>4. QED
  BY <1>1, <1>2, <1>3

\* A start takes the caller's memory, whole bytes of it.
LEMMA StartKept ==
    ASSUME ClientOk(cli), NEW m \in Mux, NEW n \in Nat,
           \/ \E p \in Payload : StartDownload(m, n, p)
           \/ StartUpload(m, n)
    PROVE  ClientOk(cli')
<1>1. CASE \E p \in Payload : StartDownload(m, n, p)
  <2>1. PICK p \in Payload : StartDownload(m, n, p)
    BY <1>1
  <2>2. Bytes(p, n) \in Seq(Cells)
    BY BytesType
  <2>3. QED
    BY <2>1, <2>2 DEF StartDownload, ClientOk, ClientRec, ClientStates
<1>2. CASE StartUpload(m, n)
  <2>1. [i \in 1 .. n |-> Junk] \in Seq(Cells)
    BY JunkType
  <2>2. QED
    BY <1>2, <2>1 DEF StartUpload, ClientOk, ClientRec, ClientStates
<1>3. QED
  BY <1>1, <1>2

\* The end of the next segment is past the offset and inside the transfer.
LEMMA SegmentEndType ==
    ASSUME NEW c \in ClientRec, c.off <= c.tlen
    PROVE  /\ SegmentEnd(c) \in Nat /\ c.off <= SegmentEnd(c) /\ SegmentEnd(c) <= c.tlen
           /\ SegmentEnd(c) - c.off \in Nat /\ SegmentEnd(c) <= c.off + SegSize
           /\ c.off < c.tlen => c.off < SegmentEnd(c)
           /\ ~(c.tlen <= c.off + SegSize) =>
                 SegmentEnd(c) = c.off + SegSize /\ SegmentEnd(c) < c.tlen
  BY SizeAssumption DEF ClientRec, SegmentEnd

\* The segment the client cuts out of its buffer lies inside it.
LEMMA DownloadSegmentKept ==
    ASSUME toSrv \in Channel, NEW c \in ClientRec, c.off <= c.tlen, c.tlen = Len(c.buf),
           DownloadSegment(c)
    PROVE  toSrv' \in Channel /\ ClientOk(cli')
<1> DEFINE d == [c EXCEPT !.off = SegmentEnd(c)]
           f == [NoFrame EXCEPT !.cs = "dlSeg", !.toggle = c.toggle,
                                !.last = (c.tlen <= c.off + SegSize),
                                !.bytes = SubSeq(c.buf, c.off + 1, SegmentEnd(c))]
<1>1. d \in ClientRec /\ d.off <= d.tlen /\ d.tlen = Len(d.buf)
  BY SegmentEndType DEF ClientRec
<1>2. SubSeq(c.buf, c.off + 1, SegmentEnd(c)) \in Seq(Cells)
  BY SegmentType, SegmentEndType DEF ClientRec
<1>3. f \in Frame
  <2>1. ASSUME NEW b \in BOOLEAN, NEW s \in Seq(Cells)
        PROVE  [NoFrame EXCEPT !.cs = "dlSeg", !.toggle = c.toggle, !.last = b, !.bytes = s]
                  \in Frame
    BY EmptyFrames DEF Frame, NoFrame, Commands, ClientRec
  <2>2. (c.tlen <= c.off + SegSize) \in BOOLEAN
    OBVIOUS
  <2>3. QED
    BY <1>2, <2>1, <2>2
<1>4. CRequest(d, "DL_SEG", f)
  BY DEF DownloadSegment
<1> HIDE DEF d, f
<1>5. QED
  BY <1>1, <1>3, <1>4, RequestKept DEF ClientOk, ClientStates

\* A segment is asked for when there are bytes left to fill.
LEMMA AskKept ==
    ASSUME toSrv \in Channel, NEW c \in ClientRec, c.off < c.tlen, c.tlen <= Len(c.buf),
           AskSegment(c)
    PROVE  toSrv' \in Channel /\ ClientOk(cli')
<1> DEFINE f == [NoFrame EXCEPT !.cs = "ulSeg", !.toggle = c.toggle]
<1>1. f \in Frame
  BY EmptyFrames DEF Frame, NoFrame, Commands, ClientRec
<1>2. CRequest(c, "UL_SEG", f)
  BY DEF AskSegment
<1> HIDE DEF f
<1>3. QED
  BY <1>1, <1>2, RequestKept DEF ClientOk, ClientStates

\* The answer to an upload request is copied, or the next segment asked for, only when
\* the announced length fits the caller's memory.
LEMMA UploadInitiateKept ==
    ASSUME toSrv \in Channel, toCli \in Channel, cli \in ClientRec, UploadInitiateResponse
    PROVE  toSrv' \in Channel /\ toCli' \in Channel /\ ClientOk(cli')
<1> DEFINE n == cli.rx.size
           got == Written(cli.buf, 0, Taken(cli.rx.bytes, n))
<1>0. cli.rx \in Frame /\ n \in Nat /\ cli.rx.bytes \in Seq(Cells) /\ UNCHANGED toCli
  BY DEF ClientRec, Frame, UploadInitiateResponse
<1>1. CASE CReject
  BY <1>0, <1>1, ClientEnds
<1>2. CASE cli' = [CAborted EXCEPT !.tlen = n] /\ UNCHANGED toSrv
  <2>1. CAborted \in ClientRec /\ CAborted.state = "IDLE"
    BY ClientEnds
  <2>2. QED
    BY <1>0, <1>2, <2>1 DEF ClientRec, ClientOk
<1>3. CASE cli' = CSuccess([cli EXCEPT !.buf = got, !.tlen = n, !.off = n]) /\ UNCHANGED toSrv
  <2>1. got \in Seq(Cells)
    BY <1>0, TakenType, WrittenType DEF ClientRec
  <2>2. [cli EXCEPT !.buf = got, !.tlen = n, !.off = n] \in ClientRec
    BY <1>0, <2>1 DEF ClientRec
  <2>3. QED
    BY <1>0, <1>3, <2>2, ClientEnds
<1>4. CASE /\ cli.rx.cs = "ulInitRsp" /\ ~cli.rx.last /\ n <= Len(cli.buf)
           /\ AskSegment([cli EXCEPT !.tlen = n, !.off = 0])
  <2> DEFINE c == [cli EXCEPT !.tlen = n, !.off = 0]
  <2>1. n # 0
    BY <1>0, <1>4 DEF Frame
  <2>2. c.off = 0 /\ c.tlen = n /\ c.buf = cli.buf /\ c \in ClientRec
    BY <1>0 DEF ClientRec
  <2>5. c.off < c.tlen /\ c.tlen <= Len(c.buf)
    BY <1>0, <1>4, <2>1, <2>2
  <2>3. AskSegment(c)
    BY <1>4
  <2> HIDE DEF c
  <2>4. QED
    BY <1>0, <2>2, <2>5, <2>3, AskKept
<1>5. QED
  BY <1>1, <1>2, <1>3, <1>4 DEF UploadInitiateResponse

\* A segment is copied where there is room for it (CO_SDOclient_upload_segment_handle).
LEMMA UploadSegmentKept ==
    ASSUME toSrv \in Channel, toCli \in Channel, ClientOk(cli), UploadSegmentResponse
    PROVE  toSrv' \in Channel /\ toCli' \in Channel /\ ClientOk(cli')
<1> DEFINE n == SegmentEnd(cli) - cli.off
           got == Written(cli.buf, cli.off, Taken(cli.rx.bytes, n))
           filled == [Flipped(cli) EXCEPT !.buf = Written(@, cli.off, Taken(cli.rx.bytes, n)),
                                          !.off = cli.off + n]
<1>0. /\ cli \in ClientRec /\ cli.off < cli.tlen /\ cli.tlen <= Len(cli.buf) /\ UNCHANGED toCli
      /\ cli.off \in Nat /\ cli.buf \in Seq(Cells) /\ cli.tlen \in Nat
      /\ cli.rx.bytes \in Seq(Cells)
  BY DEF ClientOk, ClientRec, Frame, UploadSegmentResponse
<1>1. n \in Nat /\ cli.off + n = SegmentEnd(cli) /\ SegmentEnd(cli) \in Nat
  BY <1>0, SegmentEndType
<1>2. got \in Seq(Cells) /\ Len(got) = Len(cli.buf)
  <2>1. Taken(cli.rx.bytes, n) \in Seq(Cells)
    BY <1>0, <1>1, TakenType
  <2>2. QED
    BY <1>0, <2>1, WrittenType
<1>3. Flipped(cli) \in ClientRec /\ Flipped(cli).tlen = cli.tlen /\ Flipped(cli).buf = cli.buf
  BY <1>0 DEF Flipped, ClientRec
<1>4. filled \in ClientRec /\ filled.tlen = cli.tlen /\ filled.buf = got
      /\ filled.off = SegmentEnd(cli)
  BY <1>0, <1>1, <1>2, <1>3 DEF ClientRec
<1>5. CASE CReject
  BY <1>0, <1>5, ClientEnds
<1>6. CASE cli' = CSuccess(filled) /\ UNCHANGED toSrv
  BY <1>0, <1>4, <1>6, ClientEnds
<1>7. CASE ~(cli.tlen <= cli.off + SegSize) /\ AskSegment(filled)
  <2>1. filled.off < filled.tlen /\ filled.tlen <= Len(filled.buf)
    BY <1>0, <1>2, <1>4, <1>7, SegmentEndType
  <2>2. AskSegment(filled)
    BY <1>7
  <2> HIDE DEF filled
  <2>3. QED
    BY <1>0, <1>4, <2>1, <2>2, AskKept
<1>8. \/ CReject
      \/ cli' = CSuccess(filled) /\ UNCHANGED toSrv
      \/ ~(cli.tlen <= cli.off + SegSize) /\ AskSegment(filled)
  BY DEF UploadSegmentResponse
<1>9. QED
  BY <1>5, <1>6, <1>7, <1>8

\* Each handler of the client leaves its buffer, its offsets and its frames in order.
LEMMA ClientHandleKept ==
    ASSUME toSrv \in Channel, toCli \in Channel, ClientOk(cli), ClientHandle
    PROVE  toSrv' \in Channel /\ toCli' \in Channel /\ ClientOk(cli')
<1>t. cli \in ClientRec /\ cli.rx \in Frame
  BY DEF ClientOk, ClientRec
<1>f. Flipped(cli) \in ClientRec /\ Flipped(cli).off = cli.off /\ Flipped(cli).tlen = cli.tlen
      /\ Flipped(cli).buf = cli.buf
  BY <1>t DEF Flipped, ClientRec
<1>1. CASE CReceiveAbort
  BY <1>1, <1>t, EmptyFrames DEF CReceiveAbort, busVars, ClientOk, ClientRec, ClientStates
<1>2. CASE DownloadInitiateRequest
  <2> DEFINE n == Len(cli.buf)
             frame == [NoFrame EXCEPT !.cs = "dlInit", !.mux = cli.mux]
             f == IF n <= ExpSize
                  THEN [frame EXCEPT !.last = TRUE, !.size = ExpCount(n), !.bytes = cli.buf]
                  ELSE [frame EXCEPT !.size = n]
  <2>1. n \in Nat
    BY <1>t, LenProperties DEF ClientRec
  <2>2. /\ CInitTransfer(n) \in ClientRec
        /\ CInitTransfer(n).tlen = Len(CInitTransfer(n).buf)
        /\ CInitTransfer(n).off <= CInitTransfer(n).tlen
    <3>1. CInitTransfer(n) \in ClientRec
      BY <1>t, <2>1 DEF ClientRec, CInitTransfer
    <3>2. CInitTransfer(n).tlen = n /\ CInitTransfer(n).off = 0
          /\ CInitTransfer(n).buf = cli.buf
      BY <1>t DEF ClientRec, CInitTransfer
    <3>3. QED
      BY <2>1, <3>1, <3>2
  <2>3. f \in Frame
    <3>1. CASE n <= ExpSize
      BY <1>t, <2>1, <3>1, SizeAssumption, EmptyFrames
      DEF ClientRec, Frame, NoFrame, Commands, ExpCount
    <3>2. CASE ~(n <= ExpSize)
      <4>1. f = [cs |-> "dlInit", mux |-> cli.mux, toggle |-> 0, last |-> FALSE, size |-> n,
                 bytes |-> <<>>]
        BY <3>2 DEF NoFrame
      <4>2. n # 0 /\ cli.mux \in Mux \union {NoMux} /\ <<>> \in Seq(Cells)
        BY <1>t, <2>1, <3>2, SizeAssumption, EmptySeq DEF ClientRec
      <4> HIDE DEF f, n
      <4>3. QED
        BY <2>1, <4>1, <4>2 DEF Frame, Commands
    <3>3. QED
      BY <3>1, <3>2
  <2>4. CRequest(CInitTransfer(n), "DL_RSP", f) /\ UNCHANGED toCli
    BY <1>2 DEF DownloadInitiateRequest
  <2> HIDE DEF f
  <2>5. QED
    BY <2>2, <2>3, <2>4, RequestKept DEF ClientOk, ClientStates
<1>3. CASE DownloadInitiateResponse
  <2>1. CASE CReject
    BY <1>3, <1>t, <2>1, ClientEnds DEF DownloadInitiateResponse
  <2>2. CASE cli' = CSuccess(cli) /\ UNCHANGED toSrv
    BY <1>3, <1>t, <2>2, ClientEnds DEF DownloadInitiateResponse
  <2>3. CASE DownloadSegment(cli)
    <3>1. cli.off <= cli.tlen /\ cli.tlen = Len(cli.buf) /\ UNCHANGED toCli
      BY <1>3 DEF DownloadInitiateResponse, ClientOk
    <3>2. QED
      BY <1>t, <2>3, <3>1, DownloadSegmentKept
  <2>4. QED
    BY <1>3, <2>1, <2>2, <2>3 DEF DownloadInitiateResponse
<1>4. CASE DownloadSegmentResponse
  <2>1. CASE CReject
    BY <1>4, <1>t, <2>1, ClientEnds DEF DownloadSegmentResponse
  <2>2. CASE cli' = CSuccess(Flipped(cli)) /\ UNCHANGED toSrv
    BY <1>4, <1>f, <1>t, <2>2, ClientEnds DEF DownloadSegmentResponse
  <2>3. CASE DownloadSegment(Flipped(cli))
    <3>1. cli.off <= cli.tlen /\ cli.tlen = Len(cli.buf) /\ UNCHANGED toCli
      BY <1>4 DEF DownloadSegmentResponse, ClientOk
    <3>2. QED
      BY <1>f, <2>3, <3>1, DownloadSegmentKept
  <2>4. QED
    BY <1>4, <2>1, <2>2, <2>3 DEF DownloadSegmentResponse
<1>5. CASE UploadInitiateRequest
  <2> DEFINE f == [NoFrame EXCEPT !.cs = "ulInit", !.mux = cli.mux]
  <2>1. CInitTransfer(cli.tlen) \in ClientRec
    BY <1>t DEF ClientRec, CInitTransfer
  <2>2. f \in Frame
    BY <1>t, EmptyFrames DEF ClientRec, Frame, NoFrame, Commands
  <2>3. CRequest(CInitTransfer(cli.tlen), "UL_RSP", f) /\ UNCHANGED toCli
    BY <1>5 DEF UploadInitiateRequest
  <2> HIDE DEF f
  <2>4. QED
    BY <2>1, <2>2, <2>3, RequestKept DEF ClientOk, ClientStates
<1>6. CASE UploadInitiateResponse
  BY <1>6, <1>t, UploadInitiateKept
<1>7. CASE UploadSegmentResponse
  BY <1>7, <1>t, UploadSegmentKept
<1>8. QED
  BY <1>1, <1>2, <1>3, <1>4, <1>5, <1>6, <1>7 DEF ClientHandle


------------------------------------------------------------------------------
(* The server keeps its objects and its offsets                              *)

\* The end of a handler clears is_new and sets the status, and nothing else.
LEMMA SettledKept ==
    ASSUME NEW s \in ServerRec
    PROVE  /\ Settled(s) \in ServerRec
           /\ Settled(s).state = s.state /\ Settled(s).obj = s.obj /\ Settled(s).tlen = s.tlen
           /\ Settled(s).off = s.off /\ Settled(s).internal = s.internal
           /\ ServerOk(s) => ServerOk(Settled(s))
<1>1. /\ Settled(s) \in ServerRec
      /\ Settled(s).state = s.state /\ Settled(s).obj = s.obj /\ Settled(s).tlen = s.tlen
      /\ Settled(s).off = s.off /\ Settled(s).internal = s.internal
  BY DEF Settled, ServerRec
<1>2. QED
  BY <1>1 DEF ServerOk

\* An aborted server is at rest, and so is one whose transfer is done.
LEMMA ServerEnds ==
    ASSUME NEW s \in ServerRec
    PROVE  /\ SAborted(s) \in ServerRec /\ SAborted(s).state = "IDLE"
           /\ Done(s) \in ServerRec /\ Done(s).state = "IDLE"
           /\ ServerOk(SAborted(s)) /\ ServerOk(Done(s))
<1>1. SAborted(s) \in ServerRec /\ SAborted(s).state = "IDLE"
  BY DEF SAborted, ServerRec, ServerStates
<1>2. Done(s) \in ServerRec /\ Done(s).state = "IDLE"
  BY DEF Done, ServerRec, ServerStates
<1>3. QED
  BY <1>1, <1>2 DEF ServerOk

\* Taking note of a frame keeps what the server knows of its transfer.
LEMMA HeardKept ==
    ASSUME srv \in ServerRec
    PROVE  /\ Heard \in ServerRec
           /\ Heard.state = srv.state /\ Heard.obj = srv.obj /\ Heard.tlen = srv.tlen
           /\ Heard.off = srv.off /\ Heard.internal = srv.internal /\ Heard.rx = srv.rx
           /\ ServerOk(srv) => ServerOk(Heard)
<1>1. /\ Heard \in ServerRec
      /\ Heard.state = srv.state /\ Heard.obj = srv.obj /\ Heard.tlen = srv.tlen
      /\ Heard.off = srv.off /\ Heard.internal = srv.internal /\ Heard.rx = srv.rx
  BY DEF Heard, ServerRec
<1>2. QED
  BY <1>1 DEF ServerOk

\* Waiting for the next frame changes the state and starts the timer.
LEMMA AwaitingKept ==
    ASSUME NEW s \in ServerRec, NEW state \in ServerStates
    PROVE  /\ Awaiting(s, state) \in ServerRec
           /\ Awaiting(s, state).state = state /\ Awaiting(s, state).obj = s.obj
           /\ Awaiting(s, state).tlen = s.tlen /\ Awaiting(s, state).off = s.off
           /\ Awaiting(s, state).internal = s.internal
  BY DEF Awaiting, ServerRec

\* An answer leaves the server as it was, at the end of its handler.
LEMMA AnswerKept ==
    ASSUME toCli \in Channel, NEW s, ServerOk(s), NEW f \in Frame, Answer(s, f)
    PROVE  toCli' \in Channel /\ ServerOk(srv')
<1> DEFINE t == [s EXCEPT !.tx = f]
<1>1. t \in ServerRec /\ t.state = s.state /\ t.obj = s.obj /\ t.tlen = s.tlen /\ t.off = s.off
      /\ t.internal = s.internal
  BY DEF ServerOk, ServerRec
<1>2. ServerOk(t)
  BY <1>1 DEF ServerOk
<1>3. toCli' \in Channel /\ srv' = Settled(t)
  BY SentType DEF Answer
<1> HIDE DEF t
<1>4. QED
  BY <1>1, <1>2, <1>3, SettledKept

\* A rejected request ends the server's transfer.
LEMMA RejectKept ==
    ASSUME toCli \in Channel, NEW s \in ServerRec, SReject(s)
    PROVE  toCli' \in Channel /\ ServerOk(srv')
  BY AnswerKept, ServerEnds, EmptyFrames DEF SReject

\* The bytes of a segment go to the object, or to what stands in for it, and leave
\* every length as it is.
LEMMA StoreKept ==
    ASSUME data \in Memory, stage \in Memory, NEW o \in Object, NEW off \in Nat,
           NEW b \in Seq(Cells), Store(o, off, b) \/ StoreLast(o, off, b)
    PROVE  data' \in Memory /\ stage' \in Memory
<1>1. ASSUME NEW f \in Memory, NEW g \in Memory
      PROVE  [f EXCEPT ![o] = Written(g[o], off, b)] \in Memory
  <2>1. /\ Written(g[o], off, b) \in Seq(Cells)
        /\ Len(Written(g[o], off, b)) = ObjLen[o]
    BY WrittenType DEF Memory
  <2>2. QED
    BY <2>1 DEF Memory
<1>2. CASE Store(o, off, b)
  BY <1>1, <1>2 DEF Store
<1>3. CASE StoreLast(o, off, b)
  BY <1>1, <1>2, <1>3 DEF StoreLast
<1>4. QED
  BY <1>2, <1>3

\* A complete transfer is answered, or waits for the application.
LEMMA CompleteKept ==
    ASSUME toCli \in Channel, NEW s \in ServerRec, NEW f \in Frame, Complete(s, f),
           s.obj \in Object, s.state \in {"DL_RSP", "DL_SEG"},
           s.tlen <= ObjLen[s.obj]
    PROVE  toCli' \in Channel /\ ServerOk(srv')
<1>1. CASE HasExt(s.obj)
  <2> DEFINE t == [Awaiting(s, s.state) EXCEPT !.tx = f, !.internal = TRUE]
  <2>1. s.state \in ServerStates
    BY DEF ServerRec
  <2>2. t \in ServerRec /\ t.state = s.state /\ t.obj = s.obj /\ t.tlen = s.tlen /\ t.internal
    <3>1. ASSUME NEW a \in ServerRec
          PROVE  LET u == [a EXCEPT !.tx = f, !.internal = TRUE]
                 IN /\ u \in ServerRec /\ u.state = a.state /\ u.obj = a.obj
                    /\ u.tlen = a.tlen /\ u.internal
      BY DEF ServerRec
    <3>2. /\ Awaiting(s, s.state) \in ServerRec /\ Awaiting(s, s.state).state = s.state
          /\ Awaiting(s, s.state).obj = s.obj /\ Awaiting(s, s.state).tlen = s.tlen
      BY <2>1, AwaitingKept
    <3>3. QED
      BY <3>1, <3>2
  <2>3. ServerOk(t)
    BY <2>2 DEF ServerOk
  <2>4. srv' = Settled(t) /\ UNCHANGED toCli
    BY <1>1 DEF Complete
  <2> HIDE DEF t
  <2>5. QED
    BY <2>2, <2>3, <2>4, SettledKept
<1>2. CASE ~HasExt(s.obj)
  BY <1>2, AnswerKept, ServerEnds DEF Complete
<1>3. QED
  BY <1>1, <1>2

\* The application's answer ends the transfer, or leaves it as it is.
LEMMA ConfirmKept ==
    ASSUME toCli \in Channel, data \in Memory, stage \in Memory, NEW s, ServerOk(s),
           s.state \in {"DL_RSP", "DL_SEG"}, Confirm(s)
    PROVE  /\ toCli' \in Channel /\ ServerOk(srv')
           /\ data' \in Memory /\ stage' \in Memory
<1>t. s \in ServerRec /\ s.obj \in Object /\ s.tx \in Frame
  BY DEF ServerOk, ServerRec
<1>1. CASE ~HasExt(s.obj)
  <2>1. srv' = [s EXCEPT !.state = "FAULT"] /\ UNCHANGED <<toCli, data, stage>>
    BY <1>1 DEF Confirm, memVars
  <2>2. QED
    BY <1>t, <2>1 DEF ServerOk, ServerRec, ServerStates
<1>2. CASE HasExt(s.obj)
  <2> DEFINE ended == [Done(s) EXCEPT !.internal = FALSE, !.timer = FALSE]
  <2>1. PICK r \in Confirms(s.obj) :
            /\ CASE r = "processing" -> srv' = Settled(s) /\ UNCHANGED toCli
                 [] r = "abort" -> SReject(s)
                 [] OTHER -> Answer(ended, s.tx)
            /\ data' = IF r = "copy_and_success"
                       THEN [data EXCEPT ![s.obj] = stage[s.obj]] ELSE data
            /\ UNCHANGED stage
    BY <1>2 DEF Confirm
  <2>2. ServerOk(ended)
    <3>1. ended \in ServerRec /\ ended.state = "IDLE"
      BY <1>t, ServerEnds DEF ServerRec
    <3>2. QED
      BY <3>1 DEF ServerOk
  <2>3. data' \in Memory /\ stage' \in Memory
    BY <1>t, <2>1 DEF Memory
  <2>4. CASE r = "processing"
    BY <1>t, <2>1, <2>3, <2>4, SettledKept
  <2>5. CASE r = "abort"
    BY <1>t, <2>1, <2>3, <2>5, RejectKept
  <2>6. CASE r # "processing" /\ r # "abort"
    <3>1. Answer(ended, s.tx)
      BY <2>1, <2>6
    <3> HIDE DEF ended
    <3>2. QED
      BY <1>t, <2>2, <2>3, <3>1, AnswerKept
  <2>7. QED
    BY <2>4, <2>5, <2>6
<1>3. QED
  BY <1>1, <1>2


\* A download that begins is refused, complete at once, or waits for its first segment
\* (CO_SDOserver_download_initiate_response_handle).
LEMMA InitDownloadKept ==
    ASSUME toCli \in Channel, data \in Memory, stage \in Memory,
           NEW s \in ServerRec, s.obj \in Object, s.state = "DL_RSP",
           s.rx.cs = "dlInit", InitDownload(s)
    PROVE  /\ toCli' \in Channel /\ ServerOk(srv')
           /\ data' \in Memory /\ stage' \in Memory
<1> DEFINE f == s.rx
           begun == [s EXCEPT !.toggle = 0, !.off = 0, !.tlen = f.size]
           answer == [NoFrame EXCEPT !.cs = "dlInitRsp", !.mux = f.mux]
           whole == [begun EXCEPT !.off = f.size]
<1>1. f \in Frame /\ f.size \in Nat /\ f.bytes \in Seq(Cells) /\ f.mux \in Mux \union {NoMux}
  BY DEF ServerRec, Frame
<1>2. /\ begun \in ServerRec /\ begun.obj = s.obj /\ begun.state = "DL_RSP"
      /\ begun.tlen = f.size /\ begun.off = 0
  BY <1>1 DEF ServerRec
<1>3. answer \in Frame
  BY <1>1, EmptyFrames DEF Frame, NoFrame, Commands
<1>4. CASE SReject(begun) /\ UNCHANGED memVars
  BY <1>2, <1>4, RejectKept DEF memVars
<1>5. CASE /\ Fits(s.obj, f.size)
           /\ StoreLast(s.obj, 0, Taken(f.bytes, f.size))
           /\ Complete(whole, answer)
  <2>1. whole \in ServerRec /\ whole.obj = s.obj /\ whole.state = "DL_RSP"
        /\ whole.tlen = f.size
    BY <1>1, <1>2 DEF ServerRec
  <2>2. Taken(f.bytes, f.size) \in Seq(Cells)
    BY <1>1, TakenType
  <2>3. data' \in Memory /\ stage' \in Memory
    BY <1>5, <2>2, StoreKept
  <2>4. f.size <= ObjLen[s.obj] /\ Complete(whole, answer)
    BY <1>5 DEF Fits
  <2> HIDE DEF whole, answer
  <2>5. QED
    BY <1>3, <2>1, <2>3, <2>4, CompleteKept
<1>6. CASE /\ ~f.last /\ Fits(s.obj, f.size)
           /\ Answer(Awaiting(begun, "DL_SEG"), answer)
           /\ UNCHANGED memVars
  <2>1. f.size # 0 /\ f.size <= ObjLen[s.obj]
    BY <1>1, <1>6 DEF Frame, Fits
  <2>2. "DL_SEG" \in ServerStates
    BY DEF ServerStates
  <2>3. Answer(Awaiting(begun, "DL_SEG"), answer)
    BY <1>6
  <2> HIDE DEF begun, answer
  <2>4. ServerOk(Awaiting(begun, "DL_SEG"))
    BY <1>1, <1>2, <2>1, <2>2, AwaitingKept DEF ServerOk
  <2>5. QED
    BY <1>3, <1>6, <2>3, <2>4, AnswerKept DEF memVars
<1>7. QED
  BY <1>4, <1>5, <1>6 DEF InitDownload

\* An upload that begins is answered with the object, or with its length.
LEMMA InitUploadKept ==
    ASSUME toCli \in Channel, data \in Memory, NEW s \in ServerRec,
           s.obj \in Object, s.rx.mux \in Mux, InitUpload(s)
    PROVE  toCli' \in Channel /\ ServerOk(srv') /\ UNCHANGED memVars
<1> DEFINE n == ObjLen[s.obj]
           begun == [s EXCEPT !.toggle = 0, !.off = 0, !.tlen = n]
           answer == [NoFrame EXCEPT !.cs = "ulInitRsp", !.mux = s.rx.mux, !.size = n]
           short == [answer EXCEPT !.last = TRUE, !.bytes = data[s.obj]]
           whole == [begun EXCEPT !.off = n]
<1>1. n \in Nat \ {0}
  BY ObjectAssumption
<1>2. begun \in ServerRec /\ begun.obj = s.obj /\ begun.tlen = n /\ begun.off = 0
  BY <1>1 DEF ServerRec
<1>3. answer \in Frame /\ short \in Frame
  <2>1. data[s.obj] \in Seq(Cells)
    BY DEF Memory
  <2>2. QED
    BY <1>1, <2>1, EmptyFrames DEF Frame, NoFrame, Commands
<1>4. CASE Answer(Done(whole), short)
  <2>1. whole \in ServerRec
    BY <1>1, <1>2 DEF ServerRec
  <2> HIDE DEF whole, short
  <2>2. ServerOk(Done(whole))
    BY <2>1, ServerEnds
  <2>3. toCli' \in Channel /\ ServerOk(srv')
    BY <1>3, <1>4, <2>2, AnswerKept
  <2>4. QED
    BY <2>3 DEF InitUpload
<1>5. CASE Answer(Awaiting(begun, "UL_SEG"), answer)
  <2>1. "UL_SEG" \in ServerStates
    BY DEF ServerStates
  <2> HIDE DEF begun, answer, n
  <2>2. ServerOk(Awaiting(begun, "UL_SEG"))
    <3>1. n = ObjLen[s.obj]
      BY DEF n
    <3>2. QED
      BY <1>1, <1>2, <2>1, <3>1, AwaitingKept DEF ServerOk
  <2>3. toCli' \in Channel /\ ServerOk(srv')
    BY <1>3, <1>5, <2>2, AnswerKept
  <2>4. QED
    BY <2>3 DEF InitUpload
<1>6. Answer(Done(whole), short) \/ Answer(Awaiting(begun, "UL_SEG"), answer)
  BY DEF InitUpload
<1> HIDE DEF whole, short, begun, answer, n
<1>7. QED
  BY <1>4, <1>5, <1>6

\* The server's share of a segment: within the transfer, and short of its end unless it
\* is the last.
LEMMA SegmentCountType ==
    ASSUME srv \in ServerRec, srv.off < srv.tlen
    PROVE  /\ SegmentCount \in Nat /\ srv.off + SegmentCount \in Nat
           /\ srv.off + SegmentCount <= srv.tlen
           /\ ~IsLastSegment => srv.off + SegmentCount < srv.tlen /\ SegmentCount = SegSize
           /\ IsLastSegment => srv.off + SegmentCount = srv.tlen
           /\ Advanced \in ServerRec /\ Advanced.off = srv.off + SegmentCount
           /\ Advanced.state = srv.state /\ Advanced.obj = srv.obj
           /\ Advanced.tlen = srv.tlen /\ Advanced.internal = srv.internal
<1>1. /\ SegmentCount \in Nat /\ srv.off + SegmentCount \in Nat
      /\ srv.off + SegmentCount <= srv.tlen
      /\ ~IsLastSegment => srv.off + SegmentCount < srv.tlen /\ SegmentCount = SegSize
      /\ IsLastSegment => srv.off + SegmentCount = srv.tlen
  BY SizeAssumption DEF SegmentCount, IsLastSegment, ServerRec
<1>2. ASSUME NEW h \in ServerRec, NEW n \in Nat
      PROVE  LET a == [h EXCEPT !.off = n]
             IN /\ a \in ServerRec /\ a.off = n /\ a.state = h.state /\ a.obj = h.obj
                /\ a.tlen = h.tlen /\ a.internal = h.internal
  BY DEF ServerRec
<1>3. QED
  BY <1>1, <1>2, HeardKept DEF Advanced

\* The bytes of a segment are stored where there is room for them
\* (CO_SDOserver_download_segment_handle).
LEMMA DownloadSegmentStays ==
    ASSUME toCli \in Channel, data \in Memory, stage \in Memory, ServerOk(srv),
           ServerDownloadSegment
    PROVE  /\ toCli' \in Channel /\ ServerOk(srv')
           /\ data' \in Memory /\ stage' \in Memory
<1> DEFINE f == srv.rx
           bytes == Taken(f.bytes, SegmentCount)
           answer == [NoFrame EXCEPT !.cs = "dlSegRsp", !.toggle = srv.toggle]
           next == [Advanced EXCEPT !.toggle = 1 - srv.toggle]
<1>1. /\ srv \in ServerRec /\ srv.state = "DL_SEG" /\ ~srv.internal
      /\ srv.obj \in Object /\ srv.tlen <= ObjLen[srv.obj] /\ srv.off < srv.tlen
      /\ f \in Frame /\ f.bytes \in Seq(Cells) /\ srv.off \in Nat
  BY DEF ServerDownloadSegment, ServerOk, ServerRec, Frame
<1>2. bytes \in Seq(Cells)
  BY <1>1, SegmentCountType, TakenType
<1>3. answer \in Frame
  BY <1>1, EmptyFrames DEF Frame, NoFrame, Commands, ServerRec
<1>4. CASE SReject(Heard) /\ UNCHANGED memVars
  BY <1>1, <1>4, HeardKept, RejectKept DEF memVars
<1>5. CASE StoreLast(srv.obj, srv.off, bytes) /\ Complete(Advanced, answer)
  <2>1. data' \in Memory /\ stage' \in Memory
    BY <1>1, <1>2, <1>5, StoreKept
  <2> HIDE DEF answer
  <2>2. QED
    BY <1>1, <1>3, <1>5, <2>1, SegmentCountType, CompleteKept
<1>6. CASE /\ ~IsLastSegment /\ Store(srv.obj, srv.off, bytes)
           /\ Answer(Awaiting(next, "DL_SEG"), answer)
  <2>1. data' \in Memory /\ stage' \in Memory
    BY <1>1, <1>2, <1>6, StoreKept
  <2>2. /\ next \in ServerRec /\ next.obj = srv.obj /\ next.tlen = srv.tlen
        /\ next.off < srv.tlen
    <3>1. ASSUME NEW a \in ServerRec, NEW n \in {0, 1}
          PROVE  LET u == [a EXCEPT !.toggle = n]
                 IN u \in ServerRec /\ u.obj = a.obj /\ u.tlen = a.tlen /\ u.off = a.off
      BY DEF ServerRec
    <3>2. 1 - srv.toggle \in {0, 1}
      BY <1>1 DEF ServerRec
    <3>3. QED
      BY <1>1, <1>6, <3>1, <3>2, SegmentCountType
  <2>3. "DL_SEG" \in ServerStates
    BY DEF ServerStates
  <2>4. Answer(Awaiting(next, "DL_SEG"), answer)
    BY <1>6
  <2> HIDE DEF next, answer
  <2>5. ServerOk(Awaiting(next, "DL_SEG"))
    BY <1>1, <2>2, <2>3, AwaitingKept DEF ServerOk
  <2>6. QED
    BY <1>3, <2>1, <2>4, <2>5, AnswerKept
<1>7. \/ SReject(Heard) /\ UNCHANGED memVars
      \/ StoreLast(srv.obj, srv.off, bytes) /\ Complete(Advanced, answer)
      \/ /\ ~IsLastSegment /\ Store(srv.obj, srv.off, bytes)
         /\ Answer(Awaiting(next, "DL_SEG"), answer)
  BY DEF ServerDownloadSegment
<1> HIDE DEF f, bytes, next, answer
<1>8. QED
  BY <1>4, <1>5, <1>6, <1>7


\* An upload answers with the next bytes of the object and goes on only short of its end
\* (CO_SDOserver_upload_segment_handle).
LEMMA UploadSegmentStays ==
    ASSUME toCli \in Channel, data \in Memory, ServerOk(srv), ServerUploadSegment
    PROVE  toCli' \in Channel /\ ServerOk(srv') /\ UNCHANGED memVars
<1> DEFINE next == [Advanced EXCEPT !.toggle = 1 - srv.toggle]
           answer == [NoFrame EXCEPT !.cs = "ulSegRsp", !.toggle = srv.toggle,
                        !.last = IsLastSegment,
                        !.bytes = SubSeq(data[srv.obj], srv.off + 1, srv.off + SegmentCount)]
<1>1. /\ srv \in ServerRec /\ srv.state = "UL_SEG" /\ srv.obj \in Object
      /\ srv.tlen <= ObjLen[srv.obj] /\ srv.off < srv.tlen
      /\ srv.off \in Nat /\ srv.tlen \in Nat
  BY DEF ServerUploadSegment, ServerOk, ServerRec
<1>2. /\ next \in ServerRec /\ next.obj = srv.obj /\ next.tlen = srv.tlen
      /\ next.off = srv.off + SegmentCount
  <2>1. ASSUME NEW a \in ServerRec, NEW n \in {0, 1}
        PROVE  LET u == [a EXCEPT !.toggle = n]
               IN u \in ServerRec /\ u.obj = a.obj /\ u.tlen = a.tlen /\ u.off = a.off
    BY DEF ServerRec
  <2>2. 1 - srv.toggle \in {0, 1}
    BY <1>1 DEF ServerRec
  <2>3. QED
    BY <1>1, <2>1, <2>2, SegmentCountType
<1>3. answer \in Frame
  <2>1. ASSUME NEW b \in BOOLEAN, NEW s \in Seq(Cells)
        PROVE  [NoFrame EXCEPT !.cs = "ulSegRsp", !.toggle = srv.toggle, !.last = b, !.bytes = s]
                  \in Frame
    BY <1>1, EmptyFrames DEF Frame, NoFrame, Commands, ServerRec
  <2>2. IsLastSegment \in BOOLEAN
    BY DEF IsLastSegment
  <2>3. SubSeq(data[srv.obj], srv.off + 1, srv.off + SegmentCount) \in Seq(Cells)
    <3>1. data[srv.obj] \in Seq(Cells) /\ Len(data[srv.obj]) = ObjLen[srv.obj]
          /\ ObjLen[srv.obj] \in Nat
      BY <1>1, ObjectAssumption DEF Memory
    <3>2. srv.off + SegmentCount \in Nat /\ srv.off + SegmentCount <= ObjLen[srv.obj]
      BY <1>1, <3>1, SegmentCountType
    <3>3. QED
      BY <1>1, <3>1, <3>2, SegmentType
  <2>4. QED
    BY <2>1, <2>2, <2>3
<1>4. CASE SReject(Heard)
  BY <1>1, <1>4, HeardKept, RejectKept DEF ServerUploadSegment
<1>5. CASE Answer(Done(next), answer)
  <2> HIDE DEF next, answer
  <2>1. ServerOk(Done(next))
    BY <1>2, ServerEnds
  <2>2. QED
    BY <1>3, <1>5, <2>1, AnswerKept DEF ServerUploadSegment
<1>6. CASE ~IsLastSegment /\ Answer(Awaiting(next, "UL_SEG"), answer)
  <2>1. "UL_SEG" \in ServerStates
    BY DEF ServerStates
  <2> HIDE DEF next, answer
  <2>2. next.off < srv.tlen
    BY <1>1, <1>2, <1>6, SegmentCountType
  <2>3. ServerOk(Awaiting(next, "UL_SEG"))
    BY <1>1, <1>2, <2>1, <2>2, AwaitingKept DEF ServerOk
  <2>4. QED
    BY <1>3, <1>6, <2>3, AnswerKept DEF ServerUploadSegment
<1>7. \/ SReject(Heard)
      \/ Answer(Done(next), answer)
      \/ ~IsLastSegment /\ Answer(Awaiting(next, "UL_SEG"), answer)
  BY DEF ServerUploadSegment
<1> HIDE DEF next, answer
<1>8. QED
  BY <1>4, <1>5, <1>6, <1>7

\* Each handler of the server leaves its objects, its offsets and its frames in order.
LEMMA ServerHandleKept ==
    ASSUME toSrv \in Channel, toCli \in Channel, data \in Memory, stage \in Memory,
           ServerOk(srv), ServerHandle
    PROVE  /\ toSrv' \in Channel /\ toCli' \in Channel /\ ServerOk(srv')
           /\ data' \in Memory /\ stage' \in Memory
<1>t. srv \in ServerRec /\ srv.rx \in Frame
  BY DEF ServerOk, ServerRec
<1>a. ASSUME NEW o \in Object, NEW state \in ServerStates
      PROVE  LET s == [Heard EXCEPT !.obj = o, !.state = state]
             IN s \in ServerRec /\ s.obj = o /\ s.state = state /\ s.rx = srv.rx
  <2>1. Heard \in ServerRec /\ Heard.rx = srv.rx
    BY <1>t, HeardKept
  <2>2. ASSUME NEW h \in ServerRec
        PROVE  LET s == [h EXCEPT !.obj = o, !.state = state]
               IN s \in ServerRec /\ s.obj = o /\ s.state = state /\ s.rx = h.rx
    BY DEF ServerRec
  <2>3. QED
    BY <2>1, <2>2
<1>1. CASE SReceiveAbort
  <2>1. srv' \in ServerRec /\ srv'.state = "IDLE" /\ UNCHANGED <<busVars, memVars>>
    BY <1>1, <1>t DEF SReceiveAbort, ServerRec, ServerStates
  <2>2. QED
    BY <2>1 DEF ServerOk, busVars, memVars
<1>2. CASE ServerRest
  BY <1>2, <1>t, SettledKept DEF ServerRest, busVars, memVars
<1>3. CASE RefuseFirst
  <2>1. SAborted(srv) \in ServerRec /\ SAborted(srv).state = "IDLE"
    BY <1>t, ServerEnds
  <2>2. srv' \in ServerRec /\ srv'.state = "IDLE"
    BY <1>3, <2>1, EmptyFrames DEF RefuseFirst, ServerRec
  <2>3. QED
    BY <1>3, <2>2, SentType, EmptyFrames DEF RefuseFirst, ServerOk, memVars
<1>4. CASE BeginDownload
  <2> DEFINE s == [Heard EXCEPT !.obj = srv.rx.mux, !.state = "DL_RSP"]
  <2>1. srv.rx.mux \in Object /\ srv.rx.cs = "dlInit" /\ UNCHANGED toSrv
        /\ (Confirm(s) \/ InitDownload(s))
    BY <1>4, ObjectAssumption DEF BeginDownload, Admitted
  <2>2. s \in ServerRec /\ s.obj \in Object /\ s.state = "DL_RSP" /\ s.rx = srv.rx
    BY <1>a, <2>1 DEF ServerStates
  <2> HIDE DEF s
  <2>3. CASE Confirm(s)
    BY <2>1, <2>2, <2>3, ConfirmKept DEF ServerOk
  <2>4. CASE InitDownload(s)
    BY <2>1, <2>2, <2>4, InitDownloadKept
  <2>5. QED
    BY <2>1, <2>3, <2>4
<1>5. CASE BeginUpload
  <2> DEFINE s == [Heard EXCEPT !.obj = srv.rx.mux, !.state = "UL_RSP"]
  <2>1. srv.rx.mux \in Object /\ srv.rx.mux \in Mux /\ UNCHANGED toSrv /\ InitUpload(s)
    BY <1>5, ObjectAssumption DEF BeginUpload, Admitted
  <2>2. s \in ServerRec /\ s.obj \in Object /\ s.rx = srv.rx
    BY <1>a, <2>1 DEF ServerStates
  <2> HIDE DEF s
  <2>3. QED
    BY <2>1, <2>2, InitUploadKept DEF memVars
<1>6. CASE ServerConfirm
  <2>1. ServerOk(Heard) /\ Heard.state \in {"DL_RSP", "DL_SEG"} /\ Confirm(Heard)
        /\ UNCHANGED toSrv
    BY <1>6, <1>t, HeardKept DEF ServerConfirm
  <2>2. QED
    BY <2>1, ConfirmKept
<1>7. CASE ServerDownloadSegment
  BY <1>7, DownloadSegmentStays DEF ServerDownloadSegment
<1>8. CASE ServerUploadSegment
  BY <1>8, UploadSegmentStays DEF ServerUploadSegment, memVars
<1>9. QED
  BY <1>1, <1>2, <1>3, <1>4, <1>5, <1>6, <1>7, <1>8 DEF ServerHandle

------------------------------------------------------------------------------
\* Two nodes at rest: every object holds its factory value.
LEMMA InitMemory == Init => MemoryInv
<1> SUFFICES ASSUME Init
             PROVE  MemoryInv
  OBVIOUS
<1>1. toSrv \in Channel /\ toCli \in Channel
  BY EmptySeq, SizeAssumption DEF Init, Channel
<1>2. ClientOk(cli)
  BY EmptyFrames, EmptySeq DEF Init, ClientInit, ClientOk, ClientRec, ClientStates
<1>3. ServerOk(srv)
  BY EmptyFrames DEF Init, ServerInit, ServerOk, ServerRec, ServerStates
<1>4. data \in Memory /\ stage = data
  <2>1. ASSUME NEW o \in Object
        PROVE  /\ Bytes(Factory, ObjLen[o]) \in Seq(Cells)
               /\ Len(Bytes(Factory, ObjLen[o])) = ObjLen[o]
    BY ObjectAssumption, BytesType
  <2>2. QED
    BY <2>1 DEF Init, ServerInit, Memory
<1>5. used \subseteq Mux /\ prompt \in BOOLEAN
  BY SettingsAssumption DEF Init
<1>6. QED
  BY <1>1, <1>2, <1>3, <1>4, <1>5 DEF MemoryInv

\* Every step keeps the two ends, the bus and the memories in order.
LEMMA MemoryStep == MemoryInv /\ [Next]_vars => MemoryInv'
<1> SUFFICES ASSUME MemoryInv, [Next]_vars
             PROVE  MemoryInv'
  OBVIOUS
<1>t. /\ toSrv \in Channel /\ toCli \in Channel /\ ClientOk(cli) /\ ServerOk(srv)
      /\ data \in Memory /\ stage \in Memory /\ used \subseteq Mux /\ prompt \in BOOLEAN
      /\ cli \in ClientRec /\ srv \in ServerRec
  BY DEF MemoryInv, ClientOk, ServerOk
<1>1. CASE Ask
  <2>0. PICK m \in used : \E n \in ReqLen[m] : \/ \E p \in Payload : StartDownload(m, n, p)
                                               \/ StartUpload(m, n)
    BY <1>1 DEF Ask
  <2>1. PICK n \in ReqLen[m] : \/ \E p \in Payload : StartDownload(m, n, p)
                               \/ StartUpload(m, n)
    BY <2>0
  <2>2. m \in Mux /\ n \in Nat
    BY <1>t, <2>1, ReqLenAssumption
  <2>3. ClientOk(cli') /\ UNCHANGED busVars
    BY <1>t, <2>1, <2>2, StartKept DEF StartDownload, StartUpload
  <2>4. QED
    BY <1>1, <1>t, <2>3 DEF Ask, MemoryInv, busVars, memVars, setting
<1>2. CASE ClientStep
  BY <1>2, <1>t, ClientHandleKept DEF ClientStep, MemoryInv, memVars, setting
<1>3. CASE ServerStep
  BY <1>3, <1>t, ServerHandleKept DEF ServerStep, MemoryInv, setting
<1>4. CASE ClientExpires
  BY <1>4, <1>t, ClientEnds DEF ClientExpires, ClientTimeout, MemoryInv, ClientOk, busVars,
     memVars, setting
<1>5. CASE ServerExpires
  BY <1>5, <1>t, ServerEnds DEF ServerExpires, ServerTimeout, MemoryInv, busVars, memVars, setting
<1>6. CASE ToClient
  <2>1. toCli # <<>> /\ toCli' = Tail(toCli)
        /\ (cli' = cli \/ cli' = [cli EXCEPT !.rx = Head(toCli)])
        /\ UNCHANGED <<toSrv, srv, memVars, setting>>
    BY <1>6 DEF ToClient, ClientDeliver
  <2>2. Head(toCli) \in Frame /\ toCli' \in Channel
    BY <1>t, <2>1, TakenOff
  <2>3. ClientOk(cli')
    BY <1>t, <2>1, <2>2 DEF ClientOk, ClientRec
  <2>4. QED
    BY <1>t, <2>1, <2>2, <2>3 DEF MemoryInv, memVars, setting
<1>7. CASE ToServer
  <2>1. toSrv # <<>> /\ toSrv' = Tail(toSrv)
        /\ srv' = [srv EXCEPT !.rx = Head(toSrv), !.isNew = TRUE]
        /\ UNCHANGED <<toCli, cli, memVars, setting>>
    BY <1>7 DEF ToServer, ServerDeliver
  <2>2. Head(toSrv) \in Frame /\ toSrv' \in Channel
    BY <1>t, <2>1, TakenOff
  <2>3. ServerOk(srv')
    BY <1>t, <2>1, <2>2 DEF ServerOk, ServerRec
  <2>4. QED
    BY <1>t, <2>1, <2>2, <2>3 DEF MemoryInv, memVars, setting
<1>8. CASE LoseFrame
  BY <1>8, <1>t, WithoutType DEF LoseFrame, Lose, MemoryInv, memVars, setting
<1>9. CASE UNCHANGED vars
  BY <1>9, <1>t DEF vars, busVars, memVars, setting, MemoryInv
<1>10. QED
  BY <1>1, <1>2, <1>3, <1>4, <1>5, <1>6, <1>7, <1>8, <1>9 DEF Next

\* For any object dictionary, any lengths and any frames lost or late: every memory keeps
\* its size and holds whole bytes of payloads, and no segment handler of the client or of
\* the server is about to copy past an end.
THEOREM TransfersStayInside == Spec => []MemorySafe
<1>1. MemoryInv => MemorySafe
  <2> SUFFICES ASSUME MemoryInv
               PROVE  MemorySafe
    OBVIOUS
  <2>1. \A o \in Object : /\ data[o] \in [1 .. ObjLen[o] -> Cells]
                          /\ stage[o] \in [1 .. ObjLen[o] -> Cells]
    <3>1. ASSUME NEW f \in Memory, NEW o \in Object
          PROVE  f[o] \in [1 .. ObjLen[o] -> Cells]
      BY LenProperties DEF Memory
    <3>2. QED
      BY <3>1 DEF MemoryInv
  <2>2. TypeOK
    BY <2>1 DEF MemoryInv, ClientOk, ServerOk, ClientRec, ServerRec, Channel, TypeOK
  <2>3. CopiesInside
    BY DEF MemoryInv, ClientOk, ServerOk, ServerStates, CopiesInside
  <2>4. QED
    BY <2>2, <2>3 DEF MemorySafe
<1>2. QED
  BY <1>1, InitMemory, MemoryStep, PTL DEF Spec


------------------------------------------------------------------------------
(* Where time-outs are prompt one frame, or one confirmation, is under way   *)
(* at a time, apart from aborts of a client that has given up; and the two   *)
(* ends of a transfer differ by it alone.                                    *)

Waiting == cli.state \in {"DL_RSP", "DL_SEG", "UL_RSP", "UL_SEG"}

\* The frames on their way to the server or not handled yet, and those to the client
Coming == {toSrv[i] : i \in DOMAIN toSrv} \union (IF srv.isNew THEN {srv.rx} ELSE {})
Given  == {toCli[i] : i \in DOMAIN toCli} \union ({cli.rx} \ {NoFrame})

\* A request is the last on its way, and no other, no answer and no confirmation is
\* pending with it; a client that waits for nothing has nothing under way but aborts.
OneUnderWay ==
    /\ \A i \in DOMAIN toSrv : toSrv[i].cs # "abort" => i = Len(toSrv)
    /\ srv.isNew /\ srv.rx.cs # "abort" => toSrv = <<>>
    /\ Len(toCli) <= 1 /\ (toCli # <<>> => cli.rx = NoFrame)
    /\ Given # {} => Coming = {} /\ ~srv.internal
    /\ srv.internal => Coming = {} /\ cli.state \in {"DL_RSP", "DL_SEG"}
    /\ ~Waiting => Given = {} /\ \A f \in Coming : f.cs = "abort"

\* is_internal_processing is set exactly while the application is asked for its answer.
ServerAt ==
    /\ srv.state \notin {"UL_RSP", "FAULT"}
    /\ srv.internal <=> srv.state = "DL_RSP" \/ (srv.state = "DL_SEG" /\ srv.off = srv.tlen)
    /\ srv.internal => HasExt(srv.obj)
    /\ srv.state \in {"DL_RSP", "DL_SEG"} => srv.obj \in Writable
    /\ srv.status = "idle" => srv.state = "IDLE"

\* Frame f is what the client is waiting to have answered.
Asked(f) ==
    /\ cli.state = "DL_RSP" =>
          /\ f.cs = "dlInit" /\ f.mux = cli.mux
          /\ IF cli.tlen <= ExpSize
             THEN f.last /\ f.size = ExpCount(cli.tlen) /\ f.bytes = cli.buf
             ELSE ~f.last /\ f.size = cli.tlen
    /\ cli.state = "DL_SEG" => f.cs = "dlSeg"
    /\ cli.state = "UL_RSP" => f.cs = "ulInit" /\ f.mux = cli.mux
    /\ cli.state = "UL_SEG" => f.cs = "ulSeg"

AsksIts == \A f \in Coming : f.cs # "abort" => Asked(f)

\* A memory begins with what the client has in its buffer.
SameStart(mem) == \A i \in 1 .. Len(cli.buf) : mem[i] = cli.buf[i]

\* Where the server puts the bytes of a download.
Target(o) == IF IsStaged(o) THEN stage[o] ELSE data[o]

\* What the application is asked about is what this client has sent.
Confirming == srv.internal => srv.obj = cli.mux /\ SameStart(Target(srv.obj))

DownOpen ==
    cli.state = "DL_RSP" =>
        /\ cli.toggle = 0 /\ cli.off = 0
        /\ \A f \in Given : f.cs = "dlInitRsp" =>
              /\ cli.tlen <= ExpSize => cli.mux \in Writable /\ SameStart(Shown(cli.mux))
              /\ srv.state = "DL_SEG" =>
                    srv.obj = cli.mux /\ srv.tlen = cli.tlen /\ srv.off = 0 /\ srv.toggle = 0

\* Both ends in the middle of a download: the server lacks the last segment sent, or has
\* it and has answered.
DownLock ==
    cli.state = "DL_SEG" =>
        /\ cli.tlen > ExpSize
        /\ \A f \in Given : f.cs = "dlSegRsp" /\ cli.off = cli.tlen
                               => cli.mux \in Writable /\ SameStart(Shown(cli.mux))
        /\ srv.state = "DL_SEG" /\ ~srv.internal =>
              /\ srv.obj = cli.mux /\ srv.tlen = cli.tlen
              /\ \A i \in 1 .. srv.off : Target(srv.obj)[i] = cli.buf[i]
              /\ IF srv.toggle = cli.toggle
                 THEN /\ cli.off = srv.off + SegmentCount
                      /\ Given = {}
                      /\ \A f \in Coming : f.cs # "abort" =>
                            f.bytes = SubSeq(cli.buf, srv.off + 1, cli.off)
                 ELSE srv.off = cli.off /\ Coming = {}

UpOpen ==
    cli.state = "UL_RSP" =>
        /\ cli.toggle = 0
        /\ \A f \in Given : f.cs = "ulInitRsp" =>
              /\ cli.mux \in Object \cap Readable /\ f.size = ObjLen[cli.mux]
              /\ f.last => f.bytes = data[cli.mux]
              /\ srv.state = "UL_SEG" =>
                    srv.obj = cli.mux /\ srv.tlen = f.size /\ srv.off = 0 /\ srv.toggle = 0

\* The caller's buffer holds the object as far as it has come.
UpLock ==
    cli.state = "UL_SEG" =>
        /\ cli.mux \in Object \cap Readable /\ cli.tlen = ObjLen[cli.mux]
        /\ \A i \in 1 .. cli.off : cli.buf[i] = data[cli.mux][i]
        /\ \A f \in Given : f.cs = "ulSegRsp" =>
              f.bytes = SubSeq(data[cli.mux], cli.off + 1, SegmentEnd(cli))
        /\ srv.state = "UL_SEG" =>
              /\ srv.obj = cli.mux /\ srv.tlen = cli.tlen
              /\ IF srv.toggle = cli.toggle THEN srv.off = cli.off /\ Given = {}
                 ELSE srv.off = SegmentEnd(cli) /\ Coming = {}

InStep == OneUnderWay /\ ServerAt /\ AsksIts /\ Confirming /\ DownOpen /\ DownLock
          /\ UpOpen /\ UpLock

\* The channels are empty when nothing is coming or given.
LEMMA NothingUnderWay ==
    ASSUME toSrv \in Channel, toCli \in Channel
    PROVE  /\ Coming = {} <=> toSrv = <<>> /\ ~srv.isNew
           /\ Given = {} <=> toCli = <<>> /\ cli.rx = NoFrame
<1>1. ASSUME NEW ch \in Channel
      PROVE  ch = <<>> <=> DOMAIN ch = {}
  <2>1. ch \in Seq(Frame) /\ DOMAIN ch = 1 .. Len(ch) /\ Len(ch) \in Nat
    BY LenProperties DEF Channel
  <2>2. ch # <<>> => 1 \in DOMAIN ch
    BY <2>1, EmptySeq
  <2>3. QED
    BY <2>1, <2>2
<1>2. QED
  BY <1>1 DEF Coming, Given

\* A step of the client that sends frame f, or nothing.
LEMMA ClientSends ==
    ASSUME toSrv \in Channel, toSrv' \in Channel, toCli' \in Channel, NEW f \in Frame,
           toSrv' = Sent(toSrv, f) \/ UNCHANGED toSrv,
           \A g \in Coming : g.cs = "abort", ~srv.internal,
           toCli' = <<>>, cli'.rx = NoFrame, UNCHANGED srv,
           f.cs = "abort" \/ Waiting'
    PROVE  /\ Coming' \subseteq Coming \union {f} /\ Given' = {}
           /\ UNCHANGED toSrv => Coming' = Coming
           /\ OneUnderWay'
<1>1. toSrv \in Seq(Frame) /\ DOMAIN toSrv = 1 .. Len(toSrv) /\ Len(toSrv) \in Nat
  BY LenProperties DEF Channel
<1>2. Given' = {}
  BY EmptySeq DEF Given
<1>3. \A i \in DOMAIN toSrv : toSrv[i].cs = "abort"
  BY DEF Coming
<1>4. CASE UNCHANGED toSrv
  <2>1. Coming' = Coming
    BY <1>4 DEF Coming
  <2>2. Len(toCli') = 0
    BY EmptySeq
  <2>3. QED
    BY <1>2, <1>3, <1>4, <2>1, <2>2 DEF OneUnderWay, Coming
<1>5. CASE toSrv' = Append(toSrv, f)
  <2>1. /\ DOMAIN toSrv' = 1 .. Len(toSrv) + 1 /\ Len(toSrv') = Len(toSrv) + 1
        /\ toSrv'[Len(toSrv) + 1] = f
        /\ \A i \in 1 .. Len(toSrv) : toSrv'[i] = toSrv[i]
    <3>1. Append(toSrv, f) \in Seq(Frame) /\ Len(Append(toSrv, f)) = Len(toSrv) + 1
      BY <1>1
    <3>2. DOMAIN Append(toSrv, f) = 1 .. Len(toSrv) + 1
      BY <1>1, <3>1
    <3>3. Append(toSrv, f)[Len(toSrv) + 1] = f
          /\ \A i \in 1 .. Len(toSrv) : Append(toSrv, f)[i] = toSrv[i]
      BY <1>1
    <3>4. QED
      BY <1>5, <3>1, <3>2, <3>3
  <2>2. Coming' \subseteq Coming \union {f}
    BY <1>1, <2>1 DEF Coming
  <2>3. \A g \in Coming' : g.cs = "abort" \/ g = f
    BY <2>2
  <2>4. srv.isNew => srv.rx.cs = "abort"
    BY DEF Coming
  <2>5. \A i \in DOMAIN toSrv' : toSrv'[i].cs # "abort" => i = Len(toSrv')
    BY <1>1, <1>3, <2>1
  <2>6. Len(toCli') = 0
    BY EmptySeq
  <2>7. UNCHANGED toSrv => Coming' = Coming
    BY DEF Coming
  <2>8. QED
    BY <1>2, <2>2, <2>3, <2>4, <2>5, <2>6, <2>7 DEF OneUnderWay
<1>6. QED
  BY <1>4, <1>5 DEF Sent

\* When the client handles an answer, or begins, nothing else is under way but aborts.
LEMMA ClientTurn ==
    ASSUME MemoryInv, OneUnderWay, ClientHandle
    PROVE  /\ toCli = <<>> /\ UNCHANGED toCli /\ ~srv.internal
           /\ \A f \in Coming : f.cs = "abort"
           /\ cli.rx # NoFrame => Given = {cli.rx} /\ Coming = {}
           /\ ~Waiting => cli.rx = NoFrame
           /\ Waiting => cli.rx # NoFrame
           /\ cli.rx = NoFrame => cli.state \in {"DL_REQ", "UL_REQ"}
<1>t. toSrv \in Channel /\ toCli \in Channel
  BY DEF MemoryInv
<1>1. cli.rx.cs \in {"none", "abort"} => (cli.rx.cs = "abort" \/ cli.state \in {"DL_REQ", "UL_REQ"})
  BY DEF ClientHandle, CReceiveAbort, DownloadInitiateRequest, DownloadInitiateResponse,
     DownloadSegmentResponse, UploadInitiateRequest, UploadInitiateResponse, UploadSegmentResponse
<1>2. cli.rx = NoFrame => cli.rx.cs = "none" /\ cli.rx.cs # "abort"
  BY DEF NoFrame
<1>3. UNCHANGED toCli
  BY DEF ClientHandle, CReceiveAbort, DownloadInitiateRequest, DownloadInitiateResponse,
     DownloadSegmentResponse, UploadInitiateRequest, UploadInitiateResponse,
     UploadSegmentResponse, busVars
<1>4. CASE cli.rx # NoFrame
  <2>1. Given # {} /\ toCli = <<>>
    BY <1>4 DEF Given, OneUnderWay
  <2>2. Given = {cli.rx}
    BY <1>4, <2>1, EmptySeq DEF Given
  <2>3. QED
    BY <1>3, <1>4, <2>1, <2>2 DEF OneUnderWay
<1>5. CASE cli.rx = NoFrame
  <2>1. cli.state \in {"DL_REQ", "UL_REQ"}
    BY <1>1, <1>2, <1>5
  <2>2. ~Waiting
    BY <2>1 DEF Waiting
  <2>3. Given = {} /\ \A f \in Coming : f.cs = "abort"
    BY <2>2 DEF OneUnderWay
  <2>4. ~srv.internal
    BY <2>1 DEF OneUnderWay
  <2>5. QED
    BY <1>3, <1>5, <1>t, <2>1, <2>2, <2>3, <2>4, NothingUnderWay
<1>6. QED
  BY <1>4, <1>5


\* A client at rest is in step with any server that is not in a confirmation.
LEMMA AtRest ==
    ASSUME InStep, ~srv.internal, UNCHANGED srv, ~Waiting', OneUnderWay'
    PROVE  InStep'
<1>1. ServerAt'
  BY DEF InStep, ServerAt
<1>2. AsksIts'
  BY DEF OneUnderWay, AsksIts
<1>3. Confirming' /\ DownOpen' /\ DownLock' /\ UpOpen' /\ UpLock'
  BY DEF Waiting, Confirming, DownOpen, DownLock, UpOpen, UpLock
<1>4. QED
  BY <1>1, <1>2, <1>3 DEF InStep

\* Each end of a request leaves the client at rest.
LEMMA EndInStep ==
    ASSUME MemoryInv, MemoryInv', InStep, ClientHandle, UNCHANGED srv, cli'.state = "IDLE",
           cli'.rx = NoFrame, toSrv' = Sent(toSrv, Abort) \/ UNCHANGED toSrv
    PROVE  InStep'
<1>1. ~Waiting' /\ Abort.cs = "abort"
  BY DEF Waiting, Abort, NoFrame
<1>2. /\ toCli' = <<>> /\ ~srv.internal /\ \A g \in Coming : g.cs = "abort"
      /\ toSrv \in Channel /\ toSrv' \in Channel /\ toCli' \in Channel
  BY ClientTurn DEF InStep, MemoryInv
<1>3. OneUnderWay'
  BY <1>1, <1>2, ClientSends, EmptyFrames
<1>4. QED
  BY <1>1, <1>2, <1>3, AtRest

\* The request that goes out is what the client then waits for.
LEMMA RequestInStep ==
    ASSUME MemoryInv, MemoryInv', InStep, ClientHandle, UNCHANGED <<srv, data, stage>>,
           NEW c \in ClientRec, NEW s \in {"DL_RSP", "DL_SEG", "UL_RSP", "UL_SEG"},
           NEW f \in Frame, CRequest(c, s, f), Asked(f)',
           s \in {"DL_RSP", "UL_RSP"} => c.toggle = 0 /\ c.off = 0,
           s = "DL_SEG" =>
               /\ c.tlen > ExpSize /\ Coming = {}
               /\ srv.state = "DL_SEG" =>
                     /\ srv.obj = c.mux /\ srv.tlen = c.tlen /\ srv.toggle = c.toggle
                     /\ \A i \in 1 .. srv.off : Target(srv.obj)[i] = c.buf[i]
                     /\ c.off = srv.off + SegmentCount
                     /\ f.bytes = SubSeq(c.buf, srv.off + 1, c.off),
           s = "UL_SEG" =>
               /\ c.mux \in Object \cap Readable /\ c.tlen = ObjLen[c.mux] /\ Coming = {}
               /\ \A i \in 1 .. c.off : c.buf[i] = data[c.mux][i]
               /\ srv.state = "UL_SEG" =>
                     /\ srv.obj = c.mux /\ srv.tlen = c.tlen
                     /\ srv.toggle = c.toggle /\ srv.off = c.off
    PROVE  InStep'
<1>1. /\ cli'.state = s /\ cli'.rx = NoFrame /\ cli'.mux = c.mux /\ cli'.tlen = c.tlen
      /\ cli'.off = c.off /\ cli'.buf = c.buf /\ cli'.toggle = c.toggle
      /\ toSrv' = Sent(toSrv, f)
  BY DEF CRequest, ClientRec
<1>2. /\ toCli' = <<>> /\ ~srv.internal /\ \A g \in Coming : g.cs = "abort"
      /\ toSrv \in Channel /\ toSrv' \in Channel /\ toCli' \in Channel
  BY ClientTurn DEF InStep, MemoryInv
<1>3. Waiting'
  BY <1>1 DEF Waiting
<1>4. OneUnderWay' /\ Coming' \subseteq Coming \union {f} /\ Given' = {}
  BY <1>1, <1>2, <1>3, ClientSends
<1>5. ServerAt' /\ Confirming'
  BY <1>2 DEF InStep, ServerAt, Confirming
<1>6. AsksIts'
  BY <1>2, <1>4 DEF AsksIts
<1>7. DownOpen'
  BY <1>1, <1>4 DEF DownOpen
<1>8. UpOpen'
  BY <1>1, <1>4 DEF UpOpen
<1>9. DownLock'
  <2>1. Target(srv.obj)' = Target(srv.obj) /\ SegmentCount' = SegmentCount
    BY DEF Target, SegmentCount, IsLastSegment
  <2>2. s = "DL_SEG" => \A g \in Coming' : g = f
    BY <1>4
  <2>3. QED
    BY <1>1, <1>4, <2>1, <2>2 DEF DownLock
<1>10. UpLock'
  BY <1>1, <1>4 DEF UpLock
<1>11. QED
  BY <1>4, <1>5, <1>6, <1>7, <1>8, <1>9, <1>10 DEF InStep

\* The next segment of a download is the one the server lacks.
LEMMA SegmentInStep ==
    ASSUME MemoryInv, MemoryInv', InStep, ClientHandle, UNCHANGED <<srv, data, stage>>,
           NEW c \in ClientRec, DownloadSegment(c), c.tlen > ExpSize, c.off <= c.tlen,
           c.tlen = Len(c.buf), Coming = {},
           srv.state = "DL_SEG" =>
               /\ srv.obj = c.mux /\ srv.tlen = c.tlen /\ srv.toggle = c.toggle
               /\ srv.off = c.off
               /\ \A i \in 1 .. srv.off : Target(srv.obj)[i] = c.buf[i]
    PROVE  InStep'
<1> DEFINE d == [c EXCEPT !.off = SegmentEnd(c)]
           f == [NoFrame EXCEPT !.cs = "dlSeg", !.toggle = c.toggle,
                                !.last = (c.tlen <= c.off + SegSize),
                                !.bytes = SubSeq(c.buf, c.off + 1, SegmentEnd(c))]
<1>1. /\ d \in ClientRec /\ d.off = SegmentEnd(c) /\ d.tlen = c.tlen /\ d.buf = c.buf
      /\ d.mux = c.mux /\ d.toggle = c.toggle
  BY SegmentEndType DEF ClientRec
<1>2. f.cs = "dlSeg" /\ f.bytes = SubSeq(c.buf, c.off + 1, SegmentEnd(c))
  BY DEF NoFrame
<1>3. CRequest(d, "DL_SEG", f)
  BY DEF DownloadSegment
<1>4. f \in Frame
  <2>1. ASSUME NEW b \in BOOLEAN, NEW s \in Seq(Cells)
        PROVE  [NoFrame EXCEPT !.cs = "dlSeg", !.toggle = c.toggle, !.last = b, !.bytes = s]
                  \in Frame
    BY EmptyFrames DEF Frame, NoFrame, Commands, ClientRec
  <2>2. (c.tlen <= c.off + SegSize) \in BOOLEAN
    OBVIOUS
  <2>3. SubSeq(c.buf, c.off + 1, SegmentEnd(c)) \in Seq(Cells)
    BY SegmentType, SegmentEndType DEF ClientRec
  <2>4. QED
    BY <2>1, <2>2, <2>3
<1>5. SegmentEnd(c) = c.off + (IF c.tlen <= c.off + SegSize THEN c.tlen - c.off ELSE SegSize)
  BY SizeAssumption DEF SegmentEnd, ClientRec
<1>6. srv.state = "DL_SEG" => d.off = srv.off + SegmentCount
  BY <1>1, <1>5 DEF SegmentCount, IsLastSegment
<1>7. Asked(f)'
  <2>1. cli'.state = "DL_SEG"
    BY <1>3 DEF CRequest, ClientRec
  <2>2. QED
    BY <1>2, <2>1 DEF Asked
<1> HIDE DEF d, f
<1>8. QED
  BY <1>1, <1>2, <1>3, <1>4, <1>6, <1>7, RequestInStep


\* The first segment is asked for, or the next, with what has come in its place
\* (CO_SDOclient_upload_initiate_response_handle and the segment handler).
LEMMA AskInStep ==
    ASSUME MemoryInv, MemoryInv', InStep, ClientHandle, UNCHANGED <<srv, data, stage>>,
           NEW c \in ClientRec, AskSegment(c), Coming = {},
           c.mux \in Object \cap Readable, c.tlen = ObjLen[c.mux],
           \A i \in 1 .. c.off : c.buf[i] = data[c.mux][i],
           srv.state = "UL_SEG" =>
              srv.obj = c.mux /\ srv.tlen = c.tlen /\ srv.toggle = c.toggle /\ srv.off = c.off
    PROVE  InStep'
<1> DEFINE f == [NoFrame EXCEPT !.cs = "ulSeg", !.toggle = c.toggle]
<1>1. f \in Frame /\ f.cs = "ulSeg"
  BY EmptyFrames DEF Frame, NoFrame, Commands, ClientRec
<1>2. CRequest(c, "UL_SEG", f)
  BY DEF AskSegment
<1>3. Asked(f)'
  <2>1. cli'.state = "UL_SEG"
    BY <1>2 DEF CRequest, ClientRec
  <2>2. QED
    BY <1>1, <2>1 DEF Asked
<1> HIDE DEF f
<1>4. QED
  BY <1>1, <1>2, <1>3, RequestInStep

\* What a successful, an aborted and a rejected end have in common.
LEMMA EndedAtRest ==
    ASSUME cli \in ClientRec
    PROVE  /\ \A c \in ClientRec : CSuccess(c).state = "IDLE" /\ CSuccess(c).rx = NoFrame
           /\ CAborted.state = "IDLE" /\ CAborted.rx = NoFrame
           /\ CReject => /\ cli'.state = "IDLE" /\ cli'.rx = NoFrame
                         /\ toSrv' = Sent(toSrv, Abort)
  BY DEF CSuccess, CAborted, CReject, ClientRec

\* The bytes of a segment that has come continue what the buffer has of the object.
LEMMA FilledOn ==
    ASSUME NEW mem \in Seq(Cells), NEW buf \in Seq(Cells), NEW off \in Nat, NEW end \in Nat,
           off <= end, end <= Len(mem), end <= Len(buf),
           \A i \in 1 .. off : buf[i] = mem[i]
    PROVE  \A i \in 1 .. end :
              Written(buf, off, Taken(SubSeq(mem, off + 1, end), end - off))[i] = mem[i]
<1> DEFINE b == SubSeq(mem, off + 1, end)
           t == Taken(b, end - off)
<1>1. Len(mem) \in Nat /\ Len(buf) \in Nat /\ end - off \in Nat
  BY LenProperties
<1>2. \A i \in off + 1 .. end : mem[i] \in Cells
  BY <1>1, ElementOfSeq
<1>3. b \in Seq(Cells) /\ Len(b) = end - off /\ \A i \in 1 .. end - off : b[i] = mem[off + i]
  BY <1>1, <1>2, SubSeqProperties
<1> HIDE DEF b
<1>4. t \in Seq(Cells) /\ Len(t) = end - off /\ \A i \in 1 .. end - off : t[i] = mem[off + i]
  <2>1. /\ t \in Seq(Cells) /\ Len(t) = end - off
        /\ \A i \in 1 .. end - off : t[i] = IF i <= Len(b) THEN b[i] ELSE Junk
    BY <1>1, <1>3, TakenType
  <2> HIDE DEF t
  <2>2. ASSUME NEW i \in 1 .. end - off
        PROVE  t[i] = mem[off + i]
    <3>1. i <= Len(b)
      BY <1>1, <1>3
    <3>2. QED
      BY <1>3, <2>1, <3>1
  <2>3. QED
    BY <2>1, <2>2
<1> HIDE DEF t
<1>5. \A k \in 1 .. Len(buf) :
          Written(buf, off, t)[k] = IF k \in off + 1 .. off + Len(t) THEN t[k - off] ELSE buf[k]
  BY <1>4, WrittenType
<1>6. \A i \in 1 .. end : Written(buf, off, t)[i] = mem[i]
  <2>1. TAKE i \in 1 .. end
  <2>2. CASE i \in 1 .. off
    BY <1>1, <1>4, <1>5, <2>2
  <2>3. CASE i \in off + 1 .. end
    <3>1. i - off \in 1 .. end - off /\ off + (i - off) = i
      BY <2>3
    <3>2. t[i - off] = mem[i]
      BY <1>4, <3>1
    <3>3. i \in 1 .. Len(buf) /\ i \in off + 1 .. off + Len(t)
      BY <1>1, <1>4, <2>3
    <3>4. QED
      BY <1>5, <3>2, <3>3
  <2>4. QED
    BY <2>2, <2>3
<1>7. QED
  BY <1>6 DEF t, b

\* The answer to an upload request is the end of it, or leads to the first segment.
LEMMA UploadOpensInStep ==
    ASSUME MemoryInv, MemoryInv', InStep, ClientHandle, UNCHANGED <<srv, data, stage>>,
           UploadInitiateResponse
    PROVE  InStep'
<1> DEFINE n == cli.rx.size
           got == [cli EXCEPT !.buf = Written(@, 0, Taken(cli.rx.bytes, n)),
                              !.tlen = n, !.off = n]
           c == [cli EXCEPT !.tlen = n, !.off = 0]
<1>1. /\ cli \in ClientRec /\ cli.rx \in Frame /\ n \in Nat /\ cli.buf \in Seq(Cells)
      /\ cli.rx.bytes \in Seq(Cells)
  BY DEF MemoryInv, ClientOk, ClientRec, Frame
<1>2. CASE CReject
  BY <1>1, <1>2, EndedAtRest, EndInStep
<1>3. CASE cli' = CSuccess(got) /\ UNCHANGED toSrv
  <2>1. Written(cli.buf, 0, Taken(cli.rx.bytes, n)) \in Seq(Cells)
    BY <1>1, TakenType, WrittenType
  <2>2. got \in ClientRec
    BY <1>1, <2>1 DEF ClientRec
  <2> HIDE DEF got
  <2>3. QED
    BY <1>1, <1>3, <2>2, EndedAtRest, EndInStep
<1>4. CASE cli' = [CAborted EXCEPT !.tlen = n] /\ UNCHANGED toSrv
  <2>1. CAborted \in ClientRec
    BY <1>1, ClientEnds DEF MemoryInv
  <2>2. cli'.state = "IDLE" /\ cli'.rx = NoFrame
    BY <1>1, <1>4, <2>1, EndedAtRest DEF ClientRec
  <2>3. QED
    BY <1>4, <2>2, EndInStep
<1>5. CASE cli.rx.cs = "ulInitRsp" /\ AskSegment(c)
  <2>1. cli.state = "UL_RSP" /\ cli.rx # NoFrame /\ cli.rx \in Given
    BY <1>5 DEF UploadInitiateResponse, NoFrame, Given
  <2>2. Coming = {}
    BY <2>1 DEF InStep, OneUnderWay
  <2>3. /\ c \in ClientRec /\ c.tlen = n /\ c.off = 0 /\ c.mux = cli.mux /\ c.toggle = cli.toggle
        /\ c.buf = cli.buf
    BY <1>1 DEF ClientRec
  <2>4. /\ cli.mux \in Object \cap Readable /\ n = ObjLen[cli.mux] /\ cli.toggle = 0
        /\ srv.state = "UL_SEG" => srv.obj = cli.mux /\ srv.tlen = n /\ srv.off = 0
                                   /\ srv.toggle = 0
    BY <1>5, <2>1 DEF InStep, UpOpen
  <2>5. \A i \in 1 .. 0 : c.buf[i] = data[c.mux][i]
    OBVIOUS
  <2> HIDE DEF c, n
  <2>6. QED
    BY <1>5, <2>2, <2>3, <2>4, <2>5, AskInStep
<1>6. \/ CReject
      \/ cli' = CSuccess(got) /\ UNCHANGED toSrv
      \/ cli' = [CAborted EXCEPT !.tlen = n] /\ UNCHANGED toSrv
      \/ cli.rx.cs = "ulInitRsp" /\ AskSegment(c)
  BY DEF UploadInitiateResponse
<1> HIDE DEF got, c, n
<1>7. QED
  BY <1>2, <1>3, <1>4, <1>5, <1>6

\* Each segment of an upload goes where the object has it.
LEMMA UploadStaysInStep ==
    ASSUME MemoryInv, MemoryInv', InStep, ClientHandle, UNCHANGED <<srv, data, stage>>,
           UploadSegmentResponse
    PROVE  InStep'
<1> DEFINE n == SegmentEnd(cli) - cli.off
           got == Written(cli.buf, cli.off, Taken(cli.rx.bytes, n))
           filled == [Flipped(cli) EXCEPT !.buf = Written(@, cli.off, Taken(cli.rx.bytes, n)),
                                          !.off = cli.off + n]
<1>1. /\ cli \in ClientRec /\ cli.off < cli.tlen /\ cli.tlen <= Len(cli.buf)
      /\ cli.off \in Nat /\ cli.buf \in Seq(Cells) /\ cli.tlen \in Nat
      /\ cli.rx.bytes \in Seq(Cells) /\ cli.toggle \in {0, 1} /\ srv.toggle \in {0, 1}
      /\ cli.state = "UL_SEG"
  BY DEF MemoryInv, ClientOk, ServerOk, ClientRec, ServerRec, Frame, UploadSegmentResponse
<1>2. /\ n \in Nat /\ cli.off + n = SegmentEnd(cli) /\ SegmentEnd(cli) \in Nat
      /\ cli.off <= SegmentEnd(cli) /\ SegmentEnd(cli) <= cli.tlen
  BY <1>1, SegmentEndType
<1>3. got \in Seq(Cells)
  BY <1>1, <1>2, TakenType, WrittenType
<1>4. /\ filled \in ClientRec /\ filled.off = SegmentEnd(cli) /\ filled.tlen = cli.tlen
      /\ filled.mux = cli.mux /\ filled.toggle = 1 - cli.toggle /\ filled.buf = got
  <2>1. /\ Flipped(cli) \in ClientRec /\ Flipped(cli).tlen = cli.tlen /\ Flipped(cli).buf = cli.buf
        /\ Flipped(cli).mux = cli.mux /\ Flipped(cli).toggle = 1 - cli.toggle
    BY <1>1 DEF Flipped, ClientRec
  <2>2. QED
    BY <1>1, <1>2, <1>3, <2>1 DEF ClientRec
<1>5. CASE CReject
  BY <1>1, <1>5, EndedAtRest, EndInStep
<1>6. CASE cli' = CSuccess(filled) /\ UNCHANGED toSrv
  <2> HIDE DEF filled
  <2>1. QED
    BY <1>1, <1>4, <1>6, EndedAtRest, EndInStep
<1>7. CASE cli.rx.cs = "ulSegRsp" /\ AskSegment(filled)
  <2>1. cli.rx # NoFrame /\ cli.rx \in Given
    BY <1>7 DEF NoFrame, Given
  <2>2. Coming = {} /\ Given # {}
    BY <2>1 DEF InStep, OneUnderWay
  <2>3. /\ cli.mux \in Object \cap Readable /\ cli.tlen = ObjLen[cli.mux]
        /\ \A i \in 1 .. cli.off : cli.buf[i] = data[cli.mux][i]
        /\ cli.rx.bytes = SubSeq(data[cli.mux], cli.off + 1, SegmentEnd(cli))
        /\ srv.state = "UL_SEG" =>
              srv.obj = cli.mux /\ srv.tlen = cli.tlen /\ srv.off = SegmentEnd(cli)
              /\ srv.toggle = 1 - cli.toggle
    BY <1>1, <1>7, <2>1, <2>2 DEF InStep, UpLock
  <2>4. data[cli.mux] \in Seq(Cells) /\ Len(data[cli.mux]) = cli.tlen
    BY <2>3 DEF MemoryInv, Memory
  <2>5. \A i \in 1 .. SegmentEnd(cli) : got[i] = data[cli.mux][i]
    <3>0. /\ cli.off \in Nat /\ cli.buf \in Seq(Cells) /\ SegmentEnd(cli) \in Nat
          /\ cli.off <= SegmentEnd(cli)
      BY <1>1, <1>2
    <3>1. SegmentEnd(cli) <= Len(cli.buf)
      BY <1>1, <1>2, LenProperties
    <3>2. got = Written(cli.buf, cli.off,
                        Taken(SubSeq(data[cli.mux], cli.off + 1, SegmentEnd(cli)),
                              SegmentEnd(cli) - cli.off))
      BY <2>3
    <3>3. SegmentEnd(cli) <= Len(data[cli.mux]) /\ data[cli.mux] \in Seq(Cells)
          /\ \A i \in 1 .. cli.off : cli.buf[i] = data[cli.mux][i]
      BY <1>2, <2>3, <2>4
    <3>4. \A i \in 1 .. SegmentEnd(cli) :
              Written(cli.buf, cli.off,
                      Taken(SubSeq(data[cli.mux], cli.off + 1, SegmentEnd(cli)),
                            SegmentEnd(cli) - cli.off))[i] = data[cli.mux][i]
      BY <3>0, <3>1, <3>3, FilledOn, Zenon
    <3> HIDE DEF got
    <3>5. QED
      BY <3>2, <3>4
  <2>6. AskSegment(filled)
    BY <1>7
  <2> HIDE DEF filled, got
  <2>7. QED
    BY <1>4, <2>2, <2>3, <2>5, <2>6, AskInStep
<1>8. \/ CReject
      \/ cli' = CSuccess(filled) /\ UNCHANGED toSrv
      \/ cli.rx.cs = "ulSegRsp" /\ AskSegment(filled)
  BY DEF UploadSegmentResponse
<1>9. QED
  BY <1>5, <1>6, <1>7, <1>8

\* Where time-outs are prompt, each handler of the client leaves the two ends in step.
LEMMA ClientInStep ==
    ASSUME MemoryInv, MemoryInv', InStep, ClientHandle, UNCHANGED <<srv, data, stage>>
    PROVE  InStep'
<1>t. /\ cli \in ClientRec /\ cli.rx \in Frame /\ ClientOk(cli) /\ ServerOk(srv)
      /\ cli.toggle \in {0, 1} /\ srv.toggle \in {0, 1} /\ cli.off \in Nat /\ cli.tlen \in Nat
      /\ cli.buf \in Seq(Cells)
  BY DEF MemoryInv, ClientOk, ServerOk, ClientRec, ServerRec
<1>f. /\ Flipped(cli) \in ClientRec /\ Flipped(cli).off = cli.off /\ Flipped(cli).tlen = cli.tlen
      /\ Flipped(cli).buf = cli.buf /\ Flipped(cli).mux = cli.mux
      /\ Flipped(cli).toggle = 1 - cli.toggle
  BY <1>t DEF Flipped, ClientRec
<1>c. \A f \in Given : Coming = {}
  BY DEF InStep, OneUnderWay
<1>r. CReject => InStep'
  BY <1>t, EndedAtRest, EndInStep
<1>1. CASE CReceiveAbort
  <2>1. cli'.state = "IDLE" /\ cli'.rx = NoFrame /\ UNCHANGED toSrv
    BY <1>1, <1>t DEF CReceiveAbort, busVars, ClientRec
  <2>2. QED
    BY <2>1, EndInStep
<1>2. CASE DownloadInitiateRequest
  <2> DEFINE n == Len(cli.buf)
             frame == [NoFrame EXCEPT !.cs = "dlInit", !.mux = cli.mux]
             f == IF n <= ExpSize
                  THEN [frame EXCEPT !.last = TRUE, !.size = ExpCount(n), !.bytes = cli.buf]
                  ELSE [frame EXCEPT !.size = n]
             c == CInitTransfer(n)
  <2>1. n \in Nat
    BY <1>t, LenProperties
  <2>2. /\ c \in ClientRec /\ c.toggle = 0 /\ c.off = 0 /\ c.tlen = n /\ c.mux = cli.mux
        /\ c.buf = cli.buf
    BY <1>t, <2>1 DEF ClientRec, CInitTransfer
  <2>3. f \in Frame
    <3>1. CASE n <= ExpSize
      BY <1>t, <2>1, <3>1, SizeAssumption, EmptyFrames
      DEF ClientRec, Frame, NoFrame, Commands, ExpCount
    <3>2. CASE ~(n <= ExpSize)
      <4>1. f = [cs |-> "dlInit", mux |-> cli.mux, toggle |-> 0, last |-> FALSE, size |-> n,
                 bytes |-> <<>>]
        BY <3>2 DEF NoFrame
      <4>2. n # 0 /\ cli.mux \in Mux \union {NoMux} /\ <<>> \in Seq(Cells)
        BY <1>t, <2>1, <3>2, SizeAssumption, EmptySeq DEF ClientRec
      <4> HIDE DEF f, n
      <4>3. QED
        BY <2>1, <4>1, <4>2 DEF Frame, Commands
    <3>3. QED
      BY <3>1, <3>2
  <2>4. CRequest(c, "DL_RSP", f)
    BY <1>2 DEF DownloadInitiateRequest
  <2>5. /\ cli'.state = "DL_RSP" /\ cli'.mux = cli.mux /\ cli'.tlen = n /\ cli'.buf = cli.buf
    BY <2>2, <2>4 DEF CRequest, ClientRec
  <2>6. PICK g \in Frame : g = f
    BY <2>3
  <2>7. Asked(g)'
    <3>1. /\ f.cs = "dlInit" /\ f.mux = cli.mux
          /\ IF n <= ExpSize THEN f.last /\ f.size = ExpCount(n) /\ f.bytes = cli.buf
             ELSE ~f.last /\ f.size = n
      BY DEF NoFrame
    <3> HIDE DEF f
    <3>2. QED
      BY <2>5, <2>6, <3>1 DEF Asked
  <2> HIDE DEF f, c
  <2>8. QED
    BY <2>2, <2>4, <2>6, <2>7, RequestInStep
<1>3. CASE DownloadInitiateResponse
  <2>1. CASE cli' = CSuccess(cli) /\ UNCHANGED toSrv
    BY <1>t, <2>1, EndedAtRest, EndInStep
  <2>2. CASE /\ cli.rx.cs = "dlInitRsp" /\ cli.rx.mux = cli.mux /\ ~(cli.tlen <= ExpSize)
             /\ DownloadSegment(cli)
    <3>1. cli.state = "DL_RSP" /\ cli.rx # NoFrame
      BY <1>3, <2>2 DEF DownloadInitiateResponse, NoFrame
    <3>2. cli.rx \in Given
      BY <3>1 DEF Given
    <3>3. /\ cli.off = 0 /\ cli.toggle = 0 /\ cli.tlen = Len(cli.buf)
          /\ srv.state = "DL_SEG" => srv.obj = cli.mux /\ srv.tlen = cli.tlen /\ srv.off = 0
                                      /\ srv.toggle = 0
      BY <1>t, <2>2, <3>1, <3>2 DEF InStep, DownOpen, ClientOk
    <3>4. cli.tlen > ExpSize /\ cli.off <= cli.tlen
      BY <1>t, <2>2, <3>3, SizeAssumption
    <3>5. \A i \in 1 .. 0 : Target(srv.obj)[i] = cli.buf[i]
      OBVIOUS
    <3>6. QED
      BY <1>c, <1>t, <2>2, <3>2, <3>3, <3>4, <3>5, SegmentInStep
  <2>3. QED
    BY <1>3, <1>r, <2>1, <2>2 DEF DownloadInitiateResponse
<1>4. CASE DownloadSegmentResponse
  <2>1. CASE cli' = CSuccess(Flipped(cli)) /\ UNCHANGED toSrv
    BY <1>f, <1>t, <2>1, EndedAtRest, EndInStep
  <2>2. CASE cli.rx.cs = "dlSegRsp" /\ ~(cli.tlen <= cli.off) /\ DownloadSegment(Flipped(cli))
    <3>1. cli.state = "DL_SEG" /\ cli.rx # NoFrame
      BY <1>4, <2>2 DEF DownloadSegmentResponse, NoFrame
    <3>2. cli.rx \in Given
      BY <3>1 DEF Given
    <3>3. cli.tlen > ExpSize /\ cli.tlen = Len(cli.buf) /\ cli.off <= cli.tlen /\ ~srv.internal
      BY <1>t, <3>1, <3>2 DEF InStep, DownLock, ClientOk, OneUnderWay
    <3>4. srv.state = "DL_SEG" =>
              /\ srv.obj = cli.mux /\ srv.tlen = cli.tlen /\ srv.toggle = 1 - cli.toggle
              /\ srv.off = cli.off /\ \A i \in 1 .. srv.off : Target(srv.obj)[i] = cli.buf[i]
      BY <1>t, <3>1, <3>2, <3>3 DEF InStep, DownLock
    <3>5. QED
      BY <1>c, <1>f, <2>2, <3>2, <3>3, <3>4, SegmentInStep
  <2>3. QED
    BY <1>4, <1>r, <2>1, <2>2 DEF DownloadSegmentResponse
<1>5. CASE UploadInitiateRequest
  <2> DEFINE f == [NoFrame EXCEPT !.cs = "ulInit", !.mux = cli.mux]
             c == CInitTransfer(cli.tlen)
  <2>1. c \in ClientRec /\ c.toggle = 0 /\ c.off = 0 /\ c.mux = cli.mux
    BY <1>t DEF ClientRec, CInitTransfer
  <2>2. f \in Frame /\ f.cs = "ulInit" /\ f.mux = cli.mux
    BY <1>t, EmptyFrames DEF ClientRec, Frame, NoFrame, Commands
  <2>3. CRequest(c, "UL_RSP", f)
    BY <1>5 DEF UploadInitiateRequest
  <2>4. cli'.state = "UL_RSP" /\ cli'.mux = cli.mux
    BY <2>1, <2>3 DEF CRequest, ClientRec
  <2>5. PICK g \in Frame : g = f
    BY <2>2
  <2>6. Asked(g)'
    BY <2>2, <2>4, <2>5 DEF Asked
  <2> HIDE DEF f, c
  <2>7. QED
    BY <2>1, <2>3, <2>5, <2>6, RequestInStep
<1>6. CASE UploadInitiateResponse
  BY <1>6, UploadOpensInStep
<1>7. CASE UploadSegmentResponse
  BY <1>7, UploadStaysInStep
<1>8. QED
  BY <1>1, <1>2, <1>3, <1>4, <1>5, <1>6, <1>7 DEF ClientHandle


\* Frames that are lost or handed on change nothing else.
LEMMA FewerInStep ==
    ASSUME InStep, OneUnderWay', UNCHANGED memVars,
           Coming' \subseteq Coming, Given' \subseteq Given,
           cli \in ClientRec, UNCHANGED cli \/ \E f \in Frame : cli' = [cli EXCEPT !.rx = f],
           srv'.state = srv.state, srv'.obj = srv.obj, srv'.tlen = srv.tlen,
           srv'.off = srv.off, srv'.toggle = srv.toggle, srv'.internal <=> srv.internal,
           srv'.status = "idle" => srv'.state = "IDLE"
    PROVE  InStep'
<1>1. /\ cli'.state = cli.state /\ cli'.mux = cli.mux /\ cli'.buf = cli.buf
      /\ cli'.tlen = cli.tlen /\ cli'.off = cli.off /\ cli'.toggle = cli.toggle
  BY DEF ClientRec
<1>2. /\ srv'.state = srv.state /\ srv'.obj = srv.obj /\ srv'.tlen = srv.tlen
      /\ srv'.off = srv.off /\ srv'.toggle = srv.toggle /\ (srv'.internal <=> srv.internal)
  OBVIOUS
<1>3. data' = data /\ stage' = stage
  BY DEF memVars
<1>4. ServerAt'
  BY <1>2 DEF InStep, ServerAt
<1>5. AsksIts'
  <2>1. ASSUME NEW f, Asked(f)
        PROVE  Asked(f)'
    BY <1>1, <2>1 DEF Asked
  <2>2. QED
    BY <2>1 DEF InStep, AsksIts
<1>6. \A o : Target(o)' = Target(o) /\ Shown(o)' = Shown(o)
  BY <1>3 DEF Target, Shown
<1>7. \A m : SameStart(m) => SameStart(m)'
  BY <1>1 DEF SameStart
<1>8. Confirming'
  BY <1>1, <1>2, <1>6, <1>7 DEF InStep, Confirming
<1>9. DownOpen'
  BY <1>1, <1>2, <1>6, <1>7 DEF InStep, DownOpen
<1>10. DownLock'
  <2>1. SegmentCount' = SegmentCount
    BY <1>2 DEF SegmentCount, IsLastSegment
  <2>2. QED
    BY <1>1, <1>2, <1>6, <1>7, <2>1 DEF InStep, DownLock
<1>11. UpOpen'
  <2>1. CASE cli.state # "UL_RSP"
    BY <1>1, <2>1 DEF UpOpen
  <2>2. CASE cli.state = "UL_RSP"
    <3>1. cli.toggle = 0
      BY <2>2 DEF InStep, UpOpen
    <3>2. ASSUME NEW f \in Given', f.cs = "ulInitRsp"
          PROVE  /\ cli.mux \in Object \cap Readable /\ f.size = ObjLen[cli.mux]
                 /\ f.last => f.bytes = data[cli.mux]
                 /\ srv.state = "UL_SEG" =>
                       srv.obj = cli.mux /\ srv.tlen = f.size /\ srv.off = 0 /\ srv.toggle = 0
      BY <2>2, <3>2 DEF InStep, UpOpen
    <3>3. QED
      BY <1>1, <1>2, <1>3, <3>1, <3>2 DEF UpOpen
  <2>3. QED
    BY <2>1, <2>2
<1>12. UpLock'
  <2>1. SegmentEnd(cli)' = SegmentEnd(cli)
    BY <1>1 DEF SegmentEnd
  <2>2. QED
    BY <1>1, <1>2, <1>3, <2>1 DEF InStep, UpLock
<1>13. QED
  BY <1>4, <1>5, <1>8, <1>9, <1>10, <1>11, <1>12 DEF InStep

\* When the server handles a request, nothing else is under way.
LEMMA ServerTurn ==
    ASSUME MemoryInv, InStep, srv.isNew, srv.rx.cs # "abort"
    PROVE  /\ toSrv = <<>> /\ toCli = <<>> /\ cli.rx = NoFrame /\ ~srv.internal
           /\ Waiting /\ Asked(srv.rx) /\ srv.rx \in Coming /\ Given = {}
<1>1. srv.rx \in Coming
  BY DEF Coming
<1>2. Given = {} /\ ~srv.internal /\ Waiting /\ toSrv = <<>>
  BY <1>1 DEF InStep, OneUnderWay
<1>3. QED
  BY <1>1, <1>2, NothingUnderWay DEF InStep, AsksIts, MemoryInv

\* The fields an answer leaves behind
LEMMA AnswerFields ==
    ASSUME NEW s \in ServerRec, NEW f \in Frame, Answer(s, f)
    PROVE  /\ toCli' = Sent(toCli, f)
           /\ srv'.state = s.state /\ srv'.obj = s.obj /\ srv'.tlen = s.tlen /\ srv'.off = s.off
           /\ srv'.toggle = s.toggle /\ srv'.internal = s.internal /\ ~srv'.isNew
           /\ srv'.status = "idle" => srv'.state = "IDLE"
  BY DEF Answer, Settled, ServerRec

\* The one answer is then all that is under way.
LEMMA ServerAnswers ==
    ASSUME toSrv = <<>>, UNCHANGED <<toSrv, cli>>, toCli = <<>>, cli.rx = NoFrame, Waiting,
           NEW f \in Frame, toCli' = Sent(toCli, f), ~srv'.isNew, ~srv'.internal
    PROVE  Given' = {f} /\ Coming' = {} /\ OneUnderWay' /\ AsksIts' /\ Confirming'
<1>1. toCli' = <<f>>
  BY SizeAssumption, EmptySeq DEF Sent
<1>2. DOMAIN <<f>> = {1} /\ <<f>>[1] = f /\ Len(<<f>>) = 1 /\ <<f>> # <<>>
  OBVIOUS
<1>3. DOMAIN toSrv' = {}
  BY EmptySeq
<1>4. Given' = {f} /\ Coming' = {}
  BY <1>1, <1>2, <1>3 DEF Given, Coming
<1>5. Waiting'
  BY DEF Waiting
<1>6. OneUnderWay'
  <2>1. Len(toCli') = 1 /\ cli'.rx = NoFrame
    BY <1>1, <1>2
  <2>2. \A i \in DOMAIN toSrv' : toSrv'[i].cs # "abort" => i = Len(toSrv')
    BY <1>3
  <2>3. toSrv' = <<>>
    OBVIOUS
  <2>5. Len(toCli') <= 1
    <3>1. Len(<<f>>) <= 1
      BY <1>2
    <3>2. QED
      BY <1>1, <3>1, Zenon
  <2>4. QED
    BY <1>4, <1>5, <2>1, <2>2, <2>3, <2>5 DEF OneUnderWay
<1>7. QED
  BY <1>4, <1>6 DEF AsksIts, Confirming

\* An abort from the server leaves it at rest and the client with nothing else to come.
LEMMA AbortInStep ==
    ASSUME InStep, toSrv = <<>>, UNCHANGED <<toSrv, cli, memVars>>, toCli = <<>>,
           cli.rx = NoFrame, Waiting, toCli' = Sent(toCli, Abort),
           srv'.state = "IDLE", ~srv'.internal, ~srv'.isNew
    PROVE  InStep'
<1>1. Given' = {Abort} /\ Coming' = {} /\ OneUnderWay' /\ AsksIts' /\ Confirming'
  BY ServerAnswers, EmptyFrames
<1>2. Abort.cs = "abort"
  BY DEF Abort, NoFrame
<1>3. ServerAt'
  BY DEF ServerAt
<1>4. DownOpen' /\ UpOpen'
  BY <1>1, <1>2 DEF InStep, DownOpen, UpOpen
<1>5. DownLock' /\ UpLock'
  BY <1>1, <1>2 DEF InStep, DownLock, UpLock, memVars
<1>6. QED
  BY <1>1, <1>3, <1>4, <1>5 DEF InStep

\* A handler that rejects its frame sends an abort and rests.
LEMMA RejectFields ==
    ASSUME NEW s \in ServerRec, SReject(s)
    PROVE  /\ toCli' = Sent(toCli, Abort) /\ srv'.state = "IDLE"
           /\ ~srv'.internal /\ ~srv'.isNew
<1>1. SAborted(s) \in ServerRec /\ SAborted(s).state = "IDLE" /\ SAborted(s).internal = FALSE
  BY ServerEnds DEF SAborted, ServerRec
<1>2. QED
  BY <1>1, AnswerFields, EmptyFrames DEF SReject

\* A server that goes to rest without a word, its frame dropped, is in step with any client.
LEMMA QuietInStep ==
    ASSUME MemoryInv, InStep, UNCHANGED <<toSrv, toCli, cli, memVars>>,
           srv'.state = "IDLE", ~srv'.internal, ~srv'.isNew
    PROVE  InStep'
<1>1. Coming' \subseteq Coming /\ Given' = Given
  BY DEF Coming, Given
<1>2. OneUnderWay'
  BY <1>1 DEF InStep, OneUnderWay, Waiting
<1>3. AsksIts'
  <2>1. ASSUME NEW f, Asked(f)
        PROVE  Asked(f)'
    BY <2>1 DEF Asked
  <2>2. QED
    BY <1>1, <2>1 DEF InStep, AsksIts
<1>4. ServerAt' /\ Confirming'
  BY DEF ServerAt, Confirming
<1>5. \A o : Shown(o)' = Shown(o)
  BY DEF Shown, memVars
<1>6. \A m : SameStart(m) => SameStart(m)'
  BY DEF SameStart
<1>7. DownOpen' /\ DownLock'
  BY <1>1, <1>5, <1>6 DEF InStep, DownOpen, DownLock
<1>8. UpOpen' /\ UpLock'
  <2>1. data' = data /\ SegmentEnd(cli)' = SegmentEnd(cli)
    BY DEF memVars, SegmentEnd
  <2>2. QED
    BY <1>1, <2>1 DEF InStep, UpOpen, UpLock
<1>9. QED
  BY <1>2, <1>3, <1>4, <1>7, <1>8 DEF InStep


\* The memory mem begins with the first n bytes of buf, and the bytes b are those of buf
\* from off on, as far as n.
Begins(mem, buf, n)     == \A i \in 1 .. n : mem[i] = buf[i]
Follows(b, buf, off, n) == \A i \in 1 .. Len(b) : off + i <= n => b[i] = buf[off + i]

\* A copy continues what the memory has of the client's buffer.
LEMMA ContinuedOn ==
    ASSUME NEW mem \in Seq(Cells), NEW b \in Seq(Cells), NEW buf, NEW off \in Nat, NEW n \in Nat,
           n <= off + Len(b), n <= Len(mem), Begins(mem, buf, off), Follows(b, buf, off, n)
    PROVE  Begins(Written(mem, off, b), buf, n)
<1>1. Len(mem) \in Nat /\ Len(b) \in Nat
  BY LenProperties
<1>2. \A k \in 1 .. Len(mem) :
          Written(mem, off, b)[k] = IF k \in off + 1 .. off + Len(b) THEN b[k - off] ELSE mem[k]
  BY WrittenType
<1>3. SUFFICES ASSUME NEW i \in 1 .. n
               PROVE  Written(mem, off, b)[i] = buf[i]
  BY DEF Begins
<1>4. i \in 1 .. Len(mem)
  BY <1>1
<1>5. CASE i \in 1 .. off
  BY <1>1, <1>2, <1>4, <1>5 DEF Begins
<1>6. CASE i \in off + 1 .. n
  <2>1. i - off \in 1 .. Len(b) /\ off + (i - off) = i
    BY <1>1, <1>6
  <2>2. i \in off + 1 .. off + Len(b)
    BY <1>1, <1>6
  <2>3. QED
    BY <1>2, <1>4, <2>1, <2>2 DEF Follows
<1>7. QED
  BY <1>5, <1>6

\* The bytes of a segment are in their place after the copy.
LEMMA StoreHolds ==
    ASSUME data \in Memory, stage \in Memory, NEW o \in Object, NEW off \in Nat,
           NEW b \in Seq(Cells), NEW n \in Nat, n <= off + Len(b), n <= ObjLen[o],
           Begins(Target(o), cli.buf, off), Follows(b, cli.buf, off, n), Store(o, off, b)
    PROVE  Begins(Target(o)', cli.buf, n)
<1>1. Target(o) \in Seq(Cells) /\ Len(Target(o)) = ObjLen[o]
  BY DEF Target, Memory
<1>2. Target(o)' = Written(Target(o), off, b)
  BY DEF Store, Target, Memory
<1>3. Begins(Written(Target(o), off, b), cli.buf, n)
  BY <1>1, ContinuedOn
<1>4. QED
  BY <1>2, <1>3

\* The last bytes of a download complete what the server keeps, and what it shows when
\* nobody is asked.
LEMMA StoreLastHolds ==
    ASSUME data \in Memory, stage \in Memory, UNCHANGED cli, NEW o \in Object, NEW off \in Nat,
           NEW b \in Seq(Cells), NEW n \in Nat, n = Len(cli.buf), n <= off + Len(b),
           n <= ObjLen[o], Begins(Target(o), cli.buf, off), Follows(b, cli.buf, off, n),
           StoreLast(o, off, b)
    PROVE  /\ SameStart(Target(o))'
           /\ ~HasExt(o) => SameStart(Shown(o))'
<1>1. CASE Backing[o] = "temp"
  <2>1. IsStaged(o) /\ stage' = [stage EXCEPT ![o] = Written(stage[o], off, b)]
        /\ data' = [data EXCEPT ![o] = Written(stage[o], off, b)]
    BY <1>1 DEF StoreLast, IsStaged
  <2>2. stage[o] \in Seq(Cells) /\ Len(stage[o]) = ObjLen[o]
    BY DEF Memory
  <2>3. Begins(stage[o], cli.buf, off)
    BY <2>1 DEF Target
  <2>4. Begins(Written(stage[o], off, b), cli.buf, n)
    BY <2>2, <2>3, ContinuedOn
  <2>5. stage'[o] = Written(stage[o], off, b) /\ data'[o] = Written(stage[o], off, b)
    BY <2>1 DEF Memory
  <2>6. QED
    BY <1>1, <2>1, <2>4, <2>5 DEF SameStart, Begins, Target, Shown
<1>2. CASE Backing[o] # "temp"
  <2>1. Store(o, off, b)
    BY <1>2 DEF StoreLast
  <2>2. Begins(Target(o)', cli.buf, n)
    BY <2>1, StoreHolds
  <2>3. SameStart(Target(o))'
    BY <2>2 DEF SameStart, Begins
  <2>4. ~HasExt(o) => Shown(o)' = Target(o)'
    BY <1>2, ObjectAssumption DEF HasExt, Shown, Target, IsStaged, Backings
  <2>5. QED
    BY <2>3, <2>4 DEF SameStart
<1>3. QED
  BY <1>1, <1>2

\* A complete download is in step: confirmed later, or answered now with the object
\* showing what was sent.
LEMMA CompleteInStep ==
    ASSUME MemoryInv, InStep, toSrv = <<>>, UNCHANGED <<toSrv, cli>>, toCli = <<>>,
           cli.rx = NoFrame, cli.state \in {"DL_RSP", "DL_SEG"},
           NEW s \in ServerRec, NEW f \in Frame, Complete(s, f), ~s.internal,
           s.obj = cli.mux, s.obj \in Writable, s.state \in {"DL_RSP", "DL_SEG"}, s.off = s.tlen,
           SameStart(Target(s.obj))', ~HasExt(s.obj) => SameStart(Shown(s.obj))'
    PROVE  InStep'
<1>w. Waiting /\ Waiting'
  BY DEF Waiting
<1>u. UpOpen' /\ UpLock'
  BY DEF UpOpen, UpLock
<1>1. CASE HasExt(s.obj)
  <2> DEFINE t == [Awaiting(s, s.state) EXCEPT !.tx = f, !.internal = TRUE]
  <2>1. /\ t \in ServerRec /\ t.state = s.state /\ t.obj = s.obj /\ t.tlen = s.tlen
        /\ t.off = s.off /\ t.internal
    <3>1. ASSUME NEW a \in ServerRec
          PROVE  LET u == [a EXCEPT !.tx = f, !.internal = TRUE]
                 IN /\ u \in ServerRec /\ u.state = a.state /\ u.obj = a.obj
                    /\ u.tlen = a.tlen /\ u.off = a.off /\ u.internal
      BY DEF ServerRec
    <3>2. /\ Awaiting(s, s.state) \in ServerRec /\ Awaiting(s, s.state).state = s.state
          /\ Awaiting(s, s.state).obj = s.obj /\ Awaiting(s, s.state).tlen = s.tlen
          /\ Awaiting(s, s.state).off = s.off
      <4>1. s.state \in ServerStates
        BY DEF ServerRec
      <4>2. QED
        BY <4>1, AwaitingKept
    <3>3. QED
      BY <3>1, <3>2
  <2>2. srv' = Settled(t) /\ UNCHANGED toCli
    BY <1>1 DEF Complete
  <2> HIDE DEF t
  <2>3. /\ srv'.state = s.state /\ srv'.obj = s.obj /\ srv'.tlen = s.tlen /\ srv'.off = s.off
        /\ srv'.internal /\ ~srv'.isNew
        /\ srv'.status = "idle" => srv'.state = "IDLE"
    BY <2>1, <2>2 DEF Settled, ServerRec
  <2>4. Coming' = {} /\ Given' = {}
    <3>1. DOMAIN <<>> = {}
      BY EmptySeq
    <3>2. QED
      BY <2>2, <2>3, <3>1 DEF Coming, Given
  <2>5. OneUnderWay'
    <3>1. DOMAIN toSrv' = {} /\ Len(toCli') <= 1 /\ cli'.rx = NoFrame /\ toSrv' = <<>>
          /\ cli'.state \in {"DL_RSP", "DL_SEG"}
      BY <2>2, EmptySeq
    <3>2. QED
      BY <1>w, <2>3, <2>4, <3>1 DEF OneUnderWay
  <2>6. ServerAt'
    BY <1>1, <2>3 DEF ServerAt
  <2>7. AsksIts' /\ Confirming'
    BY <2>3, <2>4 DEF AsksIts, Confirming
  <2>8. DownOpen' /\ DownLock'
    BY <2>3, <2>4 DEF InStep, DownOpen, DownLock
  <2>9. QED
    BY <1>u, <2>5, <2>6, <2>7, <2>8 DEF InStep
<1>2. CASE ~HasExt(s.obj)
  <2>1. Answer(Done(s), f) /\ Done(s) \in ServerRec /\ Done(s).state = "IDLE"
        /\ ~Done(s).internal
    BY <1>2, ServerEnds DEF Complete, Done, ServerRec
  <2>2. toCli' = Sent(toCli, f) /\ srv'.state = "IDLE" /\ ~srv'.internal /\ ~srv'.isNew
    BY <2>1, AnswerFields
  <2>3. Given' = {f} /\ Coming' = {} /\ OneUnderWay' /\ AsksIts' /\ Confirming'
    BY <1>w, <2>2, ServerAnswers
  <2>4. ServerAt'
    BY <2>2 DEF ServerAt
  <2>5. SameStart(Shown(cli.mux))'
    BY <1>2
  <2>6. DownOpen'
    BY <2>2, <2>5 DEF InStep, DownOpen
  <2>7. DownLock'
    BY <2>2, <2>5 DEF InStep, DownLock
  <2>8. QED
    BY <1>u, <2>3, <2>4, <2>6, <2>7 DEF InStep
<1>3. QED
  BY <1>1, <1>2


\* A request the server rejects ends with an abort on its way.
LEMMA RejectInStep ==
    ASSUME MemoryInv, InStep, srv.isNew, srv.rx.cs # "abort",
           NEW s \in ServerRec, SReject(s), UNCHANGED <<toSrv, cli, memVars>>
    PROVE  InStep'
<1>1. /\ toSrv = <<>> /\ toCli = <<>> /\ cli.rx = NoFrame /\ Waiting
  BY ServerTurn
<1>2. /\ toCli' = Sent(toCli, Abort) /\ srv'.state = "IDLE" /\ ~srv'.internal /\ ~srv'.isNew
  BY RejectFields
<1>3. QED
  BY <1>1, <1>2, AbortInStep

\* The answer to an upload request tells the client the length of the object, and all of
\* its bytes if they are few (CO_SDOserver_upload_initiate_response_handle).
LEMMA BeginUploadInStep ==
    ASSUME MemoryInv, InStep, BeginUpload, UNCHANGED cli
    PROVE  InStep'
<1> DEFINE s == [Heard EXCEPT !.obj = srv.rx.mux, !.state = "UL_RSP"]
           n == ObjLen[s.obj]
           begun == [s EXCEPT !.toggle = 0, !.off = 0, !.tlen = n]
           answer == [NoFrame EXCEPT !.cs = "ulInitRsp", !.mux = s.rx.mux, !.size = n]
           short == [answer EXCEPT !.last = TRUE, !.bytes = data[s.obj]]
           whole == [begun EXCEPT !.off = n]
<1>t. srv \in ServerRec /\ srv.rx \in Frame /\ data \in Memory
  BY DEF MemoryInv, ServerOk, ServerRec
<1>1. /\ toSrv = <<>> /\ toCli = <<>> /\ cli.rx = NoFrame /\ ~srv.internal /\ Waiting
      /\ cli.state = "UL_RSP" /\ srv.rx.mux = cli.mux /\ cli.toggle = 0
  <2>1. srv.isNew /\ srv.rx.cs = "ulInit"
    BY DEF BeginUpload
  <2>2. /\ toSrv = <<>> /\ toCli = <<>> /\ cli.rx = NoFrame /\ ~srv.internal
        /\ Waiting /\ Asked(srv.rx)
    BY <2>1, ServerTurn
  <2>3. cli.state = "UL_RSP" /\ srv.rx.mux = cli.mux
    BY <2>1, <2>2 DEF Waiting, Asked
  <2>4. QED
    BY <2>2, <2>3 DEF InStep, UpOpen
<1>2. cli.mux \in Object \cap Readable
  BY <1>1, ObjectAssumption DEF BeginUpload, Admitted
<1>3. s \in ServerRec /\ s.obj = cli.mux /\ s.rx = srv.rx /\ ~s.internal
  BY <1>t, <1>1, <1>2, HeardKept DEF ServerRec, ServerStates
<1>4. InitUpload(s) /\ UNCHANGED <<toSrv, memVars>>
  BY DEF BeginUpload, InitUpload
<1>5. n \in Nat \ {0} /\ n = ObjLen[cli.mux] /\ data[cli.mux] \in Seq(Cells)
  BY <1>t, <1>2, <1>3, ObjectAssumption DEF Memory
<1>6. /\ answer \in Frame /\ answer.size = n /\ ~answer.last /\ answer.cs = "ulInitRsp"
      /\ short \in Frame /\ short.size = n /\ short.bytes = data[cli.mux]
      /\ short.cs = "ulInitRsp"
  BY <1>t, <1>1, <1>2, <1>3, <1>5, ObjectAssumption, EmptyFrames DEF Frame, NoFrame, Commands
<1>7. /\ begun \in ServerRec /\ begun.obj = cli.mux /\ begun.tlen = n /\ begun.off = 0
      /\ begun.toggle = 0 /\ ~begun.internal
      /\ whole \in ServerRec /\ ~whole.internal
  BY <1>3, <1>5 DEF ServerRec
<1>8. \/ Answer(Done(whole), short)
      \/ Answer(Awaiting(begun, "UL_SEG"), answer)
  BY <1>4 DEF InitUpload
<1> HIDE DEF s, n, begun, answer, short, whole
<1>9. \E f \in Frame :
         /\ toCli' = Sent(toCli, f) /\ f.cs = "ulInitRsp" /\ f.size = n
         /\ f.last => f.bytes = data[cli.mux]
         /\ ~srv'.isNew /\ ~srv'.internal /\ srv'.state \in {"IDLE", "UL_SEG"}
         /\ srv'.status = "idle" => srv'.state = "IDLE"
         /\ srv'.state = "UL_SEG" =>
               srv'.obj = cli.mux /\ srv'.tlen = n /\ srv'.off = 0 /\ srv'.toggle = 0
  <2>1. CASE Answer(Done(whole), short)
    <3>1. Done(whole) \in ServerRec /\ Done(whole).state = "IDLE" /\ ~Done(whole).internal
      BY <1>7, ServerEnds DEF Done, ServerRec
    <3>2. toCli' = Sent(toCli, short) /\ ~srv'.isNew /\ ~srv'.internal /\ srv'.state = "IDLE"
      BY <1>6, <2>1, <3>1, AnswerFields
    <3>3. QED
      BY <1>6, <3>2
  <2>2. CASE Answer(Awaiting(begun, "UL_SEG"), answer)
    <3> DEFINE a == Awaiting(begun, "UL_SEG")
    <3>1. /\ a \in ServerRec /\ a.state = "UL_SEG" /\ a.obj = cli.mux /\ a.tlen = n
          /\ a.off = 0 /\ a.toggle = 0 /\ ~a.internal
      BY <1>7 DEF Awaiting, ServerRec, ServerStates
    <3>2. Answer(a, answer)
      BY <2>2
    <3> HIDE DEF a
    <3>3. /\ toCli' = Sent(toCli, answer)
          /\ srv'.state = a.state /\ srv'.obj = a.obj /\ srv'.tlen = a.tlen /\ srv'.off = a.off
          /\ srv'.toggle = a.toggle /\ srv'.internal = a.internal /\ ~srv'.isNew
          /\ srv'.status = "idle" => srv'.state = "IDLE"
      BY <1>6, <3>1, <3>2, AnswerFields
    <3>4. QED
      BY <1>6, <3>1, <3>3
  <2>3. QED
    BY <1>8, <2>1, <2>2
<1>10. PICK f \in Frame :
         /\ toCli' = Sent(toCli, f) /\ f.cs = "ulInitRsp" /\ f.size = n
         /\ f.last => f.bytes = data[cli.mux]
         /\ ~srv'.isNew /\ ~srv'.internal /\ srv'.state \in {"IDLE", "UL_SEG"}
         /\ srv'.status = "idle" => srv'.state = "IDLE"
         /\ srv'.state = "UL_SEG" =>
               srv'.obj = cli.mux /\ srv'.tlen = n /\ srv'.off = 0 /\ srv'.toggle = 0
  BY <1>9
<1>11. Given' = {f} /\ Coming' = {} /\ OneUnderWay' /\ AsksIts' /\ Confirming'
  BY <1>1, <1>4, <1>10, ServerAnswers
<1>12. ServerAt'
  BY <1>10 DEF ServerAt
<1>13. DownOpen' /\ DownLock' /\ UpLock'
  BY <1>1 DEF DownOpen, DownLock, UpLock
<1>14. UpOpen'
  <2>1. data' = data /\ cli' = cli
    BY <1>4 DEF memVars
  <2>2. \A g \in Given' : g = f
    BY <1>11
  <2>3. QED
    BY <1>1, <1>2, <1>5, <1>10, <2>1, <2>2 DEF UpOpen
<1>15. QED
  BY <1>11, <1>12, <1>13, <1>14 DEF InStep


\* A download request the server accepts is the one the client waits to have answered.
LEMMA FirstTurn ==
    ASSUME MemoryInv, InStep, BeginDownload
    PROVE  /\ toSrv = <<>> /\ toCli = <<>> /\ cli.rx = NoFrame /\ ~srv.internal /\ Waiting
           /\ cli.state = "DL_RSP" /\ srv.rx.mux = cli.mux /\ cli.toggle = 0 /\ cli.off = 0
           /\ IF cli.tlen <= ExpSize
              THEN srv.rx.last /\ srv.rx.size = ExpCount(cli.tlen) /\ srv.rx.bytes = cli.buf
              ELSE ~srv.rx.last /\ srv.rx.size = cli.tlen
           /\ cli.mux \in Object \cap Writable
           /\ cli.tlen = Len(cli.buf) /\ cli.buf \in Seq(Cells) /\ cli.tlen \in Nat
<1>1. srv.isNew /\ srv.rx.cs = "dlInit" /\ srv.rx.cs # "abort"
  BY DEF BeginDownload
<1>2. /\ toSrv = <<>> /\ toCli = <<>> /\ cli.rx = NoFrame /\ ~srv.internal
      /\ Waiting /\ Asked(srv.rx)
  BY <1>1, ServerTurn
<1>3. cli.state = "DL_RSP"
  BY <1>1, <1>2 DEF Waiting, Asked
<1>4. srv.rx.mux = cli.mux /\ cli.toggle = 0 /\ cli.off = 0
  BY <1>2, <1>3 DEF Asked, InStep, DownOpen
<1>5. cli.mux \in Object \cap Writable
  BY <1>1, <1>4, ObjectAssumption DEF BeginDownload, Admitted
<1>6. cli.tlen = Len(cli.buf) /\ cli.buf \in Seq(Cells) /\ cli.tlen \in Nat
  BY <1>3 DEF MemoryInv, ClientOk, ClientRec
<1>7. QED
  BY <1>2, <1>3, <1>4, <1>5, <1>6 DEF Asked

\* The expedited bytes the server takes are those in the client's buffer, all of them.
LEMMA FirstBytes ==
    ASSUME NEW buf \in Seq(Cells), Len(buf) <= ExpSize
    PROVE  /\ Taken(buf, ExpCount(Len(buf))) \in Seq(Cells)
           /\ Len(buf) <= ExpCount(Len(buf)) /\ ExpCount(Len(buf)) \in Nat
           /\ Len(buf) <= 0 + Len(Taken(buf, ExpCount(Len(buf))))
           /\ Follows(Taken(buf, ExpCount(Len(buf))), buf, 0, Len(buf))
<1>1. Len(buf) \in Nat
  BY LenProperties
<1>2. PICK n \in Nat : n = ExpCount(Len(buf)) /\ Len(buf) <= n
  BY <1>1, SizeAssumption DEF ExpCount
<1>3. /\ Taken(buf, n) \in Seq(Cells) /\ Len(Taken(buf, n)) = n
      /\ \A i \in 1 .. n : Taken(buf, n)[i] = IF i <= Len(buf) THEN buf[i] ELSE Junk
  BY TakenType
<1>4. Follows(Taken(buf, n), buf, 0, Len(buf))
  BY <1>1, <1>2, <1>3 DEF Follows
<1>5. Len(buf) <= 0 + Len(Taken(buf, n))
  BY <1>1, <1>2, <1>3
<1>6. QED
  BY <1>2, <1>3, <1>4, <1>5

\* The answer to a download request opens the segments, or ends a download of a few bytes
\* once they are stored (CO_SDOserver_download_initiate_response_handle).
LEMMA BeginDownloadInStep ==
    ASSUME MemoryInv, InStep, BeginDownload, UNCHANGED cli
    PROVE  InStep'
<1> DEFINE s == [Heard EXCEPT !.obj = srv.rx.mux, !.state = "DL_RSP"]
           f == srv.rx
           begun == [s EXCEPT !.toggle = 0, !.off = 0, !.tlen = f.size]
           answer == [NoFrame EXCEPT !.cs = "dlInitRsp", !.mux = f.mux]
           whole == [begun EXCEPT !.off = f.size]
<1>t. srv \in ServerRec /\ f \in Frame /\ data \in Memory /\ stage \in Memory
  BY DEF MemoryInv, ServerOk, ServerRec
<1>b. srv.isNew /\ f.cs = "dlInit" /\ f.cs # "abort" /\ srv.state = "IDLE"
  BY DEF BeginDownload
<1>1. /\ toSrv = <<>> /\ toCli = <<>> /\ cli.rx = NoFrame /\ ~srv.internal /\ Waiting
  BY FirstTurn
<1>2. /\ cli.state = "DL_RSP" /\ f.mux = cli.mux /\ cli.toggle = 0 /\ cli.off = 0
      /\ IF cli.tlen <= ExpSize
         THEN f.last /\ f.size = ExpCount(cli.tlen) /\ f.bytes = cli.buf
         ELSE ~f.last /\ f.size = cli.tlen
  BY FirstTurn
<1>3. /\ cli.mux \in Object /\ cli.mux \in Writable
      /\ cli.tlen = Len(cli.buf) /\ cli.buf \in Seq(Cells) /\ cli.tlen \in Nat
  BY FirstTurn
<1>4. s \in ServerRec /\ s.obj = cli.mux /\ s.rx = f /\ s.state = "DL_RSP" /\ ~s.internal
  BY <1>t, <1>1, <1>2, <1>3, HeardKept DEF ServerRec, ServerStates
<1>5. InitDownload(s) /\ UNCHANGED toSrv
  BY <1>1 DEF BeginDownload
<1>6. f.size \in Nat /\ f.bytes \in Seq(Cells) /\ f.mux \in Mux \union {NoMux}
  BY <1>t DEF Frame
<1>7. /\ begun \in ServerRec /\ begun.obj = cli.mux /\ begun.tlen = f.size /\ begun.off = 0
      /\ begun.toggle = 0 /\ ~begun.internal /\ begun.state = "DL_RSP"
      /\ whole \in ServerRec /\ ~whole.internal /\ whole.obj = cli.mux /\ whole.state = "DL_RSP"
      /\ whole.off = f.size /\ whole.tlen = f.size
  BY <1>4, <1>6 DEF ServerRec
<1>8. answer \in Frame /\ answer.cs = "dlInitRsp"
  BY <1>6, EmptyFrames DEF Frame, NoFrame, Commands
<1>9. \/ SReject(begun) /\ UNCHANGED memVars
      \/ /\ f.last /\ f.size <= ObjLen[cli.mux]
         /\ StoreLast(cli.mux, 0, Taken(f.bytes, f.size)) /\ Complete(whole, answer)
      \/ /\ ~f.last /\ Answer(Awaiting(begun, "DL_SEG"), answer) /\ UNCHANGED memVars
  BY <1>4, <1>5 DEF InitDownload, Fits
<1> HIDE DEF s, begun, answer, whole
<1>10. CASE SReject(begun) /\ UNCHANGED memVars
  BY <1>b, <1>5, <1>7, <1>10, RejectInStep
<1>11. CASE /\ f.last /\ f.size <= ObjLen[cli.mux]
            /\ StoreLast(cli.mux, 0, Taken(f.bytes, f.size)) /\ Complete(whole, answer)
  <2>1. cli.tlen <= ExpSize /\ f.size = ExpCount(cli.tlen) /\ f.bytes = cli.buf
    BY <1>2, <1>11
  <2>2. Len(cli.buf) <= ExpSize /\ f.size = ExpCount(Len(cli.buf))
    BY <1>3, <2>1
  <2>3. PICK buf \in Seq(Cells) : buf = cli.buf
    BY <1>3
  <2>4. /\ Taken(f.bytes, f.size) \in Seq(Cells)
        /\ Len(buf) <= f.size /\ Len(buf) <= 0 + Len(Taken(f.bytes, f.size))
        /\ Follows(Taken(f.bytes, f.size), cli.buf, 0, Len(buf))
    BY <2>1, <2>2, <2>3, FirstBytes
  <2>5. Begins(Target(cli.mux), cli.buf, 0)
    BY DEF Begins
  <2>6. /\ SameStart(Target(cli.mux))'
        /\ ~HasExt(cli.mux) => SameStart(Shown(cli.mux))'
    <3>1. PICK b \in Seq(Cells) : b = Taken(f.bytes, f.size)
      BY <2>4
    <3>2. PICK n \in Nat : n = Len(cli.buf)
      BY <1>3
    <3>3. n <= 0 + Len(b) /\ n <= ObjLen[cli.mux] /\ Follows(b, cli.buf, 0, n)
      BY <1>3, <1>6, <1>11, <2>3, <2>4, <3>1, <3>2, ObjectAssumption
    <3>4. QED
      BY <1>t, <1>3, <1>11, <2>5, <3>1, <3>2, <3>3, StoreLastHolds
  <2>7. QED
    BY <1>1, <1>2, <1>3, <1>5, <1>7, <1>8, <1>11, <2>6, CompleteInStep
<1>12. CASE ~f.last /\ Answer(Awaiting(begun, "DL_SEG"), answer) /\ UNCHANGED memVars
  <2> DEFINE a == Awaiting(begun, "DL_SEG")
  <2>1. /\ a \in ServerRec /\ a.state = "DL_SEG" /\ a.obj = cli.mux /\ a.tlen = f.size
        /\ a.off = 0 /\ a.toggle = 0 /\ ~a.internal
    BY <1>7 DEF Awaiting, ServerRec, ServerStates
  <2>2. Answer(a, answer)
    BY <1>12
  <2> HIDE DEF a
  <2>3. /\ toCli' = Sent(toCli, answer)
        /\ srv'.state = "DL_SEG" /\ srv'.obj = cli.mux /\ srv'.tlen = f.size /\ srv'.off = 0
        /\ srv'.toggle = 0 /\ ~srv'.internal /\ ~srv'.isNew /\ srv'.status # "idle"
    <3>1. srv'.status # "idle"
      BY <2>1, <2>2 DEF Answer, Settled, ServerRec
    <3>2. QED
      BY <1>8, <2>1, <2>2, <3>1, AnswerFields
  <2>4. cli.tlen > ExpSize /\ f.size = cli.tlen
    BY <1>2, <1>3, <1>12, SizeAssumption
  <2>5. /\ Given' = {answer} /\ Coming' = {} /\ OneUnderWay' /\ AsksIts' /\ Confirming'
    BY <1>1, <1>5, <1>8, <2>3, ServerAnswers
  <2>6. ServerAt'
    BY <1>3, <2>3, <2>4, SizeAssumption DEF ServerAt
  <2>7. DownOpen'
    BY <1>2, <1>3, <2>3, <2>4, SizeAssumption DEF DownOpen
  <2>8. DownLock' /\ UpOpen' /\ UpLock'
    BY <1>2 DEF DownLock, UpOpen, UpLock
  <2>9. QED
    BY <2>5, <2>6, <2>7, <2>8 DEF InStep
<1>13. QED
  BY <1>9, <1>10, <1>11, <1>12


\* The application confirms what this client has sent, or the transfer is aborted, or the
\* question is asked again (the confirmation half of both download handlers).
LEMMA ConfirmInStep ==
    ASSUME MemoryInv, InStep, ServerConfirm, UNCHANGED cli
    PROVE  InStep'
<1> DEFINE ended == [Done(Heard) EXCEPT !.internal = FALSE, !.timer = FALSE]
<1>t. /\ srv \in ServerRec /\ data \in Memory /\ stage \in Memory /\ cli \in ClientRec
      /\ toSrv \in Channel /\ toCli \in Channel
  BY DEF MemoryInv, ServerOk, ClientOk
<1>1. /\ srv.internal /\ Coming = {} /\ Given = {} /\ cli.state \in {"DL_RSP", "DL_SEG"}
      /\ HasExt(srv.obj) /\ srv.obj = cli.mux /\ SameStart(Target(cli.mux)) /\ Waiting
  BY DEF ServerConfirm, InStep, OneUnderWay, ServerAt, Confirming, Waiting
<1>2. toSrv = <<>> /\ toCli = <<>> /\ cli.rx = NoFrame /\ ~srv.isNew
  BY <1>t, <1>1, NothingUnderWay
<1>3. srv.obj \in Object
  BY DEF ServerConfirm, MemoryInv, ServerOk
<1>4. /\ Heard \in ServerRec /\ Heard.state = srv.state /\ Heard.obj = srv.obj
      /\ Heard.tlen = srv.tlen /\ Heard.off = srv.off /\ Heard.internal = srv.internal
      /\ Heard.toggle = srv.toggle
  BY <1>t, HeardKept DEF Heard, ServerRec
<1>5. UNCHANGED <<toSrv, stage>>
  BY <1>1, <1>4 DEF ServerConfirm, Confirm
<1>6. \/ srv' = Settled(Heard) /\ UNCHANGED <<toCli, memVars>>
      \/ SReject(Heard) /\ UNCHANGED memVars
      \/ /\ Answer(ended, Heard.tx)
         /\ data' = data \/ data' = [data EXCEPT ![srv.obj] = stage[srv.obj]]
         /\ Backing[srv.obj] = "ext" => data' = [data EXCEPT ![srv.obj] = stage[srv.obj]]
         /\ Backing[srv.obj] # "ext" => data' = data
  BY <1>1, <1>4 DEF ServerConfirm, Confirm, Confirms, memVars
<1>7. CASE srv' = Settled(Heard) /\ UNCHANGED <<toCli, memVars>>
  <2>1. /\ srv'.state = srv.state /\ srv'.obj = srv.obj /\ srv'.tlen = srv.tlen
        /\ srv'.off = srv.off /\ srv'.toggle = srv.toggle /\ (srv'.internal <=> srv.internal)
        /\ srv'.status = "idle" => srv'.state = "IDLE"
        /\ ~srv'.isNew
    BY <1>4, <1>7 DEF Settled, ServerRec
  <2>2. Coming' \subseteq Coming /\ Given' \subseteq Given
    BY <1>5, <1>7, <2>1 DEF Coming, Given
  <2>3. Waiting'
    BY <1>1 DEF Waiting
  <2>4. OneUnderWay'
    <3>1. Coming' = {} /\ Given' = {}
      BY <1>1, <2>2
    <3>2. OneUnderWay
      BY DEF InStep
    <3>3. toSrv' = toSrv /\ toCli' = toCli /\ cli' = cli
      BY <1>5, <1>7
    <3>4. QED
      BY <1>1, <1>2, <2>1, <2>3, <3>1, <3>2, <3>3 DEF OneUnderWay
  <2>5. QED
    BY <1>t, <1>7, <2>1, <2>2, <2>4, FewerInStep
<1>8. CASE SReject(Heard) /\ UNCHANGED memVars
  BY <1>1, <1>2, <1>4, <1>5, <1>8, RejectFields, AbortInStep
<1>9. CASE /\ Answer(ended, Heard.tx)
           /\ data' = data \/ data' = [data EXCEPT ![srv.obj] = stage[srv.obj]]
           /\ Backing[srv.obj] = "ext" => data' = [data EXCEPT ![srv.obj] = stage[srv.obj]]
           /\ Backing[srv.obj] # "ext" => data' = data
  <2>1. ended \in ServerRec /\ ended.state = "IDLE" /\ ~ended.internal
    <3>1. ASSUME NEW d \in ServerRec
          PROVE  LET u == [d EXCEPT !.internal = FALSE, !.timer = FALSE]
                 IN u \in ServerRec /\ u.state = d.state /\ ~u.internal
      BY DEF ServerRec
    <3>2. Done(Heard) \in ServerRec /\ Done(Heard).state = "IDLE"
      BY <1>4, ServerEnds
    <3>3. QED
      BY <3>1, <3>2
  <2>2. Heard.tx \in Frame
    BY <1>4 DEF ServerRec
  <2> HIDE DEF ended
  <2>3. PICK f \in Frame : f = Heard.tx
    BY <2>2
  <2>4. /\ toCli' = Sent(toCli, f) /\ srv'.state = "IDLE" /\ ~srv'.internal /\ ~srv'.isNew
    BY <1>9, <2>1, <2>3, AnswerFields
  <2>5. /\ Given' = {f} /\ Coming' = {} /\ OneUnderWay' /\ AsksIts' /\ Confirming'
    BY <1>1, <1>2, <1>5, <2>4, ServerAnswers
  <2>6. Shown(cli.mux)' = Target(cli.mux)
    BY <1>t, <1>1, <1>3, <1>5, <1>9 DEF HasExt, Shown, Target, IsStaged, Memory
  <2>7. SameStart(Shown(cli.mux))'
    BY <1>1, <2>6 DEF SameStart
  <2>8. ServerAt'
    BY <2>4 DEF ServerAt
  <2>9. cli.mux \in Writable
    BY <1>1 DEF ServerConfirm, InStep, ServerAt
  <2>10. DownOpen' /\ DownLock'
    BY <2>4, <2>7, <2>9 DEF InStep, DownOpen, DownLock
  <2>11. UpOpen' /\ UpLock'
    BY <1>1 DEF UpOpen, UpLock
  <2>12. QED
    BY <2>5, <2>8, <2>10, <2>11 DEF InStep
<1>10. QED
  BY <1>6, <1>7, <1>8, <1>9


\* What a segment brings the server lacked: the client's next bytes, to follow those the
\* object, or what stands in for it, has.
SegmentTaken ==
    /\ cli.state = "DL_SEG" /\ srv.obj = cli.mux /\ srv.tlen = cli.tlen
    /\ cli.tlen = Len(cli.buf) /\ cli.buf \in Seq(Cells) /\ cli.tlen > ExpSize
    /\ Begins(Target(srv.obj), cli.buf, srv.off)
    /\ srv.toggle = cli.toggle /\ cli.off = srv.off + SegmentCount
    /\ Taken(srv.rx.bytes, SegmentCount) \in Seq(Cells)
    /\ Len(Taken(srv.rx.bytes, SegmentCount)) = SegmentCount
    /\ Follows(Taken(srv.rx.bytes, SegmentCount), cli.buf, srv.off, srv.off + SegmentCount)

\* A segment the server accepts is the one the client waits to have answered.
LEMMA SegmentTurn ==
    ASSUME MemoryInv, InStep, ServerDownloadSegment
    PROVE  /\ toSrv = <<>> /\ toCli = <<>> /\ cli.rx = NoFrame /\ Waiting
           /\ srv.obj \in Object /\ srv.obj \in Writable
           /\ srv.off < srv.tlen /\ srv.tlen <= ObjLen[srv.obj]
           /\ srv.off \in Nat /\ srv.tlen \in Nat /\ ObjLen[srv.obj] \in Nat
           /\ srv.toggle \in {0, 1} /\ srv.rx.bytes \in Seq(Cells)
           /\ srv.rx.cs = "dlSeg" => SegmentTaken
<1>t. /\ srv \in ServerRec /\ srv.rx \in Frame /\ cli \in ClientRec /\ ClientOk(cli)
      /\ ServerOk(srv)
  BY DEF MemoryInv, ServerOk, ServerRec, ClientOk
<1>b. srv.isNew /\ srv.rx.cs # "abort" /\ srv.state = "DL_SEG" /\ ~srv.internal
  BY DEF ServerDownloadSegment
<1>1. /\ toSrv = <<>> /\ toCli = <<>> /\ cli.rx = NoFrame /\ Waiting /\ Asked(srv.rx)
      /\ srv.rx \in Coming
  BY <1>b, ServerTurn
<1>2. /\ srv.obj \in Object /\ srv.obj \in Writable
      /\ srv.off < srv.tlen /\ srv.tlen <= ObjLen[srv.obj]
      /\ srv.off \in Nat /\ srv.tlen \in Nat /\ ObjLen[srv.obj] \in Nat
      /\ srv.toggle \in {0, 1} /\ srv.rx.bytes \in Seq(Cells)
  <2>1. srv.obj \in Writable
    BY <1>b DEF InStep, ServerAt
  <2>2. QED
    BY <1>t, <1>b, <2>1, ObjectAssumption DEF ServerOk, ServerRec, Frame
<1>3. /\ SegmentCount \in Nat /\ srv.off + SegmentCount \in Nat
      /\ srv.off + SegmentCount <= srv.tlen
  BY <1>t, <1>b, <1>2, SegmentCountType
<1>4. ASSUME srv.rx.cs = "dlSeg"
      PROVE  SegmentTaken
  <2> DEFINE bytes == Taken(srv.rx.bytes, SegmentCount)
  <2>1. cli.state = "DL_SEG"
    BY <1>1, <1>4 DEF Asked, Waiting
  <2>2. cli.tlen = Len(cli.buf) /\ cli.buf \in Seq(Cells)
    BY <1>t, <2>1 DEF ClientOk, ClientRec
  <2>3. DownLock
    BY DEF InStep
  <2>4. srv.toggle = cli.toggle
    BY <1>1, <1>b, <2>1, <2>3 DEF DownLock
  <2>5. /\ srv.obj = cli.mux /\ srv.tlen = cli.tlen /\ cli.tlen > ExpSize
        /\ Begins(Target(srv.obj), cli.buf, srv.off) /\ cli.off = srv.off + SegmentCount
        /\ srv.rx.bytes = SubSeq(cli.buf, srv.off + 1, cli.off)
    BY <1>1, <1>b, <2>1, <2>3, <2>4 DEF DownLock, Begins
  <2>6. /\ bytes \in Seq(Cells) /\ Len(bytes) = SegmentCount
        /\ \A i \in 1 .. SegmentCount :
              bytes[i] = IF i <= Len(srv.rx.bytes) THEN srv.rx.bytes[i] ELSE Junk
    BY <1>2, <1>3, TakenType
  <2>7. /\ Len(srv.rx.bytes) = SegmentCount
        /\ \A i \in 1 .. SegmentCount : srv.rx.bytes[i] = cli.buf[srv.off + i]
    <3>1. PICK c \in Seq(Cells) : c = cli.buf
      BY <2>2
    <3>2. PICK o \in Nat : o = srv.off
      BY <1>2
    <3>3. PICK e \in Nat : e = srv.off + SegmentCount
      BY <1>3
    <3>4. Len(c) \in Nat /\ \A i \in 1 .. Len(c) : c[i] \in Cells
      BY LenProperties, ElementOfSeq
    <3>5. o <= e /\ e <= Len(c)
      BY <1>2, <1>3, <2>2, <2>5, <3>1, <3>2, <3>3, <3>4
    <3>6. \A i \in o + 1 .. e : c[i] \in Cells
      BY <3>4, <3>5
    <3>7. /\ Len(SubSeq(c, o + 1, e)) = e - o
          /\ \A i \in 1 .. e - o : SubSeq(c, o + 1, e)[i] = c[o + i]
      BY <3>5, <3>6, SubSeqProperties
    <3>8. e - o = SegmentCount
      BY <1>3, <3>2, <3>3
    <3>9. QED
      BY <2>5, <3>1, <3>2, <3>3, <3>7, <3>8
  <2>8. \A i \in 1 .. SegmentCount : bytes[i] = cli.buf[srv.off + i]
    <3>1. SUFFICES ASSUME NEW i \in 1 .. SegmentCount
                   PROVE  bytes[i] = cli.buf[srv.off + i]
      OBVIOUS
    <3>2. i <= SegmentCount
      BY <1>3
    <3>3. i <= Len(srv.rx.bytes)
      BY <2>7, <3>2, Zenon
    <3>4. bytes[i] = srv.rx.bytes[i]
      BY <2>6, <3>3, Zenon
    <3>5. QED
      BY <2>7, <3>4, Zenon
  <2> HIDE DEF bytes
  <2>9. Follows(bytes, cli.buf, srv.off, srv.off + SegmentCount)
    BY <2>6, <2>8 DEF Follows
  <2>10. QED
    BY <2>1, <2>2, <2>4, <2>5, <2>6, <2>9 DEF SegmentTaken, bytes
<1>5. QED
  BY <1>1, <1>2, <1>4

\* The segment the server lacked is stored behind those it has, and the last one completes
\* the download (CO_SDOserver_download_segment_handle).
LEMMA DownloadSegmentInStep ==
    ASSUME MemoryInv, InStep, ServerDownloadSegment, UNCHANGED cli
    PROVE  InStep'
<1> DEFINE bytes == Taken(srv.rx.bytes, SegmentCount)
           answer == [NoFrame EXCEPT !.cs = "dlSegRsp", !.toggle = srv.toggle]
           next == [Advanced EXCEPT !.toggle = 1 - srv.toggle]
           accepted == srv.rx.cs = "dlSeg"
<1>t. /\ srv \in ServerRec /\ data \in Memory /\ stage \in Memory /\ cli \in ClientRec
  BY DEF MemoryInv, ServerOk, ClientOk
<1>b. srv.isNew /\ srv.rx.cs # "abort" /\ srv.state = "DL_SEG" /\ ~srv.internal /\ UNCHANGED toSrv
  BY DEF ServerDownloadSegment
<1>1. /\ toSrv = <<>> /\ toCli = <<>> /\ cli.rx = NoFrame /\ Waiting
  BY SegmentTurn
<1>2. /\ srv.obj \in Object /\ srv.off < srv.tlen /\ srv.tlen <= ObjLen[srv.obj]
      /\ srv.off \in Nat /\ srv.tlen \in Nat /\ ObjLen[srv.obj] \in Nat
      /\ srv.toggle \in {0, 1} /\ srv.rx.bytes \in Seq(Cells) /\ srv.obj \in Writable
  BY SegmentTurn
<1>3. /\ SegmentCount \in Nat /\ srv.off + SegmentCount \in Nat
      /\ ~IsLastSegment => srv.off + SegmentCount < srv.tlen
      /\ IsLastSegment => srv.off + SegmentCount = srv.tlen
      /\ Advanced \in ServerRec /\ Advanced.off = srv.off + SegmentCount
      /\ Advanced.state = srv.state /\ Advanced.obj = srv.obj
      /\ Advanced.tlen = srv.tlen /\ ~Advanced.internal
  BY <1>t, <1>b, <1>2, SegmentCountType
<1>4. answer \in Frame /\ answer.cs = "dlSegRsp"
  BY <1>2, EmptyFrames DEF Frame, NoFrame, Commands
<1>5. \/ SReject(Heard) /\ UNCHANGED memVars
      \/ /\ accepted /\ IsLastSegment
         /\ StoreLast(srv.obj, srv.off, bytes) /\ Complete(Advanced, answer)
      \/ /\ accepted /\ ~IsLastSegment
         /\ Store(srv.obj, srv.off, bytes) /\ Answer(Awaiting(next, "DL_SEG"), answer)
  BY DEF ServerDownloadSegment
<1>6. accepted =>
         /\ cli.state = "DL_SEG" /\ srv.obj = cli.mux /\ srv.tlen = cli.tlen
         /\ cli.tlen = Len(cli.buf) /\ cli.buf \in Seq(Cells) /\ cli.tlen > ExpSize
         /\ Begins(Target(srv.obj), cli.buf, srv.off)
         /\ srv.toggle = cli.toggle /\ cli.off = srv.off + SegmentCount
  BY SegmentTurn DEF SegmentTaken
<1>7. accepted => /\ bytes \in Seq(Cells) /\ Len(bytes) = SegmentCount
                  /\ Follows(bytes, cli.buf, srv.off, srv.off + SegmentCount)
  BY SegmentTurn DEF SegmentTaken
<1> HIDE DEF bytes, next, answer
<1>8. CASE SReject(Heard) /\ UNCHANGED memVars
  <2>1. Heard \in ServerRec
    BY <1>t, HeardKept
  <2>2. QED
    BY <1>b, <1>8, <2>1, RejectInStep
<1>9. CASE /\ accepted /\ IsLastSegment
           /\ StoreLast(srv.obj, srv.off, bytes) /\ Complete(Advanced, answer)
  <2>1. PICK o \in Object : o = srv.obj
    BY <1>2
  <2>2. PICK off \in Nat : off = srv.off
    BY <1>2
  <2>3. PICK b \in Seq(Cells) : b = bytes
    BY <1>7, <1>9
  <2>4. PICK n \in Nat : n = srv.off + SegmentCount
    BY <1>3
  <2>5. Follows(b, cli.buf, off, n) /\ Begins(Target(o), cli.buf, off) /\ StoreLast(o, off, b)
    BY <1>6, <1>7, <1>9, <2>1, <2>2, <2>3, <2>4, Zenon
  <2>6. n = Len(cli.buf) /\ n <= off + Len(b) /\ n <= ObjLen[o]
    <3>1. n = srv.tlen /\ Len(b) = SegmentCount
      BY <1>3, <1>7, <1>9, <2>3, <2>4
    <3>2. QED
      BY <1>2, <1>6, <1>9, <2>1, <2>2, <2>4, <3>1
  <2>7. /\ SameStart(Target(o))'
        /\ ~HasExt(o) => SameStart(Shown(o))'
    BY <1>t, <2>5, <2>6, StoreLastHolds
  <2>8. PICK a \in ServerRec : a = Advanced
    BY <1>3
  <2>9. /\ a.off = a.tlen /\ a.obj = o /\ a.obj = cli.mux /\ a.state = "DL_SEG" /\ ~a.internal
        /\ Complete(a, answer)
    BY <1>3, <1>6, <1>9, <1>b, <2>1, <2>8
  <2>10. PICK g \in Frame : g = answer
    BY <1>4
  <2>11. /\ SameStart(Target(a.obj))'
         /\ ~HasExt(a.obj) => SameStart(Shown(a.obj))'
    BY <2>7, <2>9
  <2>12. cli.state \in {"DL_RSP", "DL_SEG"} /\ a.state \in {"DL_RSP", "DL_SEG"}
    BY <1>6, <1>9, <2>9
  <2>13. a.obj \in Writable /\ Complete(a, g)
    BY <1>2, <2>1, <2>9, <2>10
  <2>14. QED
    BY <1>1, <1>b, <2>9, <2>11, <2>12, <2>13, CompleteInStep
<1>10. CASE /\ accepted /\ ~IsLastSegment
            /\ Store(srv.obj, srv.off, bytes) /\ Answer(Awaiting(next, "DL_SEG"), answer)
  <2> DEFINE a == Awaiting(next, "DL_SEG")
  <2>1. Begins(Target(cli.mux)', cli.buf, cli.off)
    <3>1. PICK o \in Object : o = srv.obj
      BY <1>2
    <3>2. PICK off \in Nat : off = srv.off
      BY <1>2
    <3>3. PICK b \in Seq(Cells) : b = bytes
      BY <1>7, <1>10
    <3>4. PICK n \in Nat : n = srv.off + SegmentCount
      BY <1>3
    <3>5. /\ n <= off + Len(b) /\ n <= ObjLen[o]
          /\ Begins(Target(o), cli.buf, off) /\ Follows(b, cli.buf, off, n)
          /\ Store(o, off, b)
      <4>1. Begins(Target(o), cli.buf, off) /\ Follows(b, cli.buf, off, n) /\ Store(o, off, b)
        BY <1>6, <1>7, <1>10, <3>1, <3>2, <3>3, <3>4, Zenon
      <4>2. Len(b) = SegmentCount
        BY <1>7, <1>10, <3>3
      <4>3. n <= off + Len(b)
        BY <1>2, <1>3, <3>2, <3>4, <4>2
      <4>4. n <= ObjLen[o]
        BY <1>2, <1>3, <1>10, <3>1, <3>4
      <4>5. QED
        BY <4>1, <4>3, <4>4
    <3>6. Begins(Target(o)', cli.buf, n)
      BY <1>t, <3>5, StoreHolds
    <3>7. n = cli.off /\ o = cli.mux
      BY <1>6, <1>10, <3>1, <3>4
    <3>8. QED
      BY <3>6, <3>7
  <2>2. /\ a \in ServerRec /\ a.state = "DL_SEG" /\ a.obj = cli.mux /\ a.tlen = cli.tlen
        /\ a.off = cli.off /\ a.toggle = 1 - cli.toggle /\ ~a.internal
    <3>1. ASSUME NEW h \in ServerRec, NEW n \in {0, 1}
          PROVE  LET u == [h EXCEPT !.toggle = n]
                 IN /\ u \in ServerRec /\ u.obj = h.obj /\ u.tlen = h.tlen /\ u.off = h.off
                    /\ u.toggle = n /\ u.internal = h.internal
      BY DEF ServerRec
    <3>2. 1 - srv.toggle \in {0, 1}
      BY <1>2
    <3>3. /\ next \in ServerRec /\ next.obj = srv.obj /\ next.tlen = srv.tlen
          /\ next.off = srv.off + SegmentCount /\ next.toggle = 1 - srv.toggle /\ ~next.internal
      BY <1>3, <3>1, <3>2 DEF next
    <3>4. QED
      BY <1>6, <1>10, <3>3 DEF Awaiting, ServerRec, ServerStates
  <2>3. Answer(a, answer)
    BY <1>10
  <2> HIDE DEF a
  <2>4. /\ toCli' = Sent(toCli, answer)
        /\ srv'.state = "DL_SEG" /\ srv'.obj = cli.mux /\ srv'.tlen = cli.tlen
        /\ srv'.off = cli.off /\ srv'.toggle = 1 - cli.toggle /\ ~srv'.internal /\ ~srv'.isNew
        /\ srv'.status # "idle"
    <3>1. srv'.status # "idle"
      BY <2>2, <2>3 DEF Answer, Settled, ServerRec
    <3>2. QED
      BY <1>4, <2>2, <2>3, <3>1, AnswerFields
  <2>5. /\ Given' = {answer} /\ Coming' = {} /\ OneUnderWay' /\ AsksIts' /\ Confirming'
    BY <1>1, <1>4, <1>b, <2>4, ServerAnswers
  <2>6. cli.off < cli.tlen /\ cli.toggle # 1 - cli.toggle /\ cli.tlen > ExpSize
        /\ cli.state = "DL_SEG"
    BY <1>2, <1>3, <1>6, <1>10
  <2>7. ServerAt'
    <3>1. cli.off # cli.tlen
      BY <1>t, <2>6 DEF ClientRec
    <3>2. cli.mux \in Writable
      BY <1>2, <1>6, <1>10
    <3>3. QED
      BY <2>4, <3>1, <3>2 DEF ServerAt
  <2>8. DownLock'
    <3>1. cli.off # cli.tlen
      BY <1>t, <2>6 DEF ClientRec
    <3>2. \A i \in 1 .. cli.off : Target(cli.mux)'[i] = cli.buf[i]
      BY <2>1 DEF Begins
    <3>3. (\A i \in 1 .. srv.off : Target(srv.obj)[i] = cli.buf[i])'
      BY <2>4, <3>2 DEF Target
    <3>4. QED
      BY <2>4, <2>5, <2>6, <3>1, <3>3 DEF DownLock
  <2>9. DownOpen' /\ UpOpen' /\ UpLock'
    BY <2>6 DEF DownOpen, UpOpen, UpLock
  <2>10. QED
    BY <2>5, <2>7, <2>8, <2>9 DEF InStep
<1>11. QED
  BY <1>5, <1>8, <1>9, <1>10


\* The segment that answers the client holds the bytes of the object it lacks
\* (CO_SDOserver_upload_segment_handle).
LEMMA UploadSegmentInStep ==
    ASSUME MemoryInv, MemoryInv', InStep, ServerUploadSegment, UNCHANGED cli
    PROVE  InStep'
<1> DEFINE next == [Advanced EXCEPT !.toggle = 1 - srv.toggle]
           answer == [NoFrame EXCEPT !.cs = "ulSegRsp", !.toggle = srv.toggle,
                        !.last = IsLastSegment,
                        !.bytes = SubSeq(data[srv.obj], srv.off + 1, srv.off + SegmentCount)]
           accepted == srv.rx.cs = "ulSeg" /\ srv.rx.toggle = srv.toggle
<1>t. /\ srv \in ServerRec /\ cli \in ClientRec /\ ClientOk(cli) /\ ServerOk(srv)
      /\ data \in Memory /\ toCli \in Channel
  BY DEF MemoryInv, ServerOk, ClientOk
<1>b. srv.isNew /\ srv.rx.cs # "abort" /\ srv.state = "UL_SEG" /\ UNCHANGED <<toSrv, memVars>>
  BY DEF ServerUploadSegment, InStep, ServerAt
<1>1. /\ toSrv = <<>> /\ toCli = <<>> /\ cli.rx = NoFrame /\ Waiting /\ Asked(srv.rx)
      /\ srv.rx \in Coming /\ ~srv.internal
  BY <1>b, ServerTurn
<1>2. /\ srv.obj \in Object /\ srv.off < srv.tlen /\ srv.tlen <= ObjLen[srv.obj]
      /\ srv.off \in Nat /\ srv.tlen \in Nat /\ ObjLen[srv.obj] \in Nat /\ srv.toggle \in {0, 1}
  BY <1>t, <1>b, ObjectAssumption DEF ServerOk, ServerRec
<1>3. /\ SegmentCount \in Nat /\ srv.off + SegmentCount \in Nat
      /\ srv.off + SegmentCount <= srv.tlen
      /\ Advanced \in ServerRec /\ Advanced.off = srv.off + SegmentCount
      /\ Advanced.state = srv.state /\ Advanced.obj = srv.obj
      /\ Advanced.tlen = srv.tlen /\ ~Advanced.internal
  BY <1>t, <1>1, <1>2, SegmentCountType
<1>4. \/ SReject(Heard)
      \/ accepted /\ Answer(Done(next), answer)
      \/ accepted /\ Answer(Awaiting(next, "UL_SEG"), answer)
  BY DEF ServerUploadSegment
<1>5. CASE SReject(Heard)
  <2>1. Heard \in ServerRec
    BY <1>t, HeardKept
  <2>2. QED
    BY <1>b, <1>5, <2>1, RejectInStep
<1>6. CASE accepted /\ (Answer(Done(next), answer) \/ Answer(Awaiting(next, "UL_SEG"), answer))
  <2>1. /\ cli.state = "UL_SEG" /\ cli.mux \in Object \cap Readable
        /\ srv.obj = cli.mux /\ srv.tlen = cli.tlen
        /\ cli.tlen = ObjLen[cli.mux] /\ srv.toggle = cli.toggle /\ srv.off = cli.off
        /\ \A i \in 1 .. cli.off : cli.buf[i] = data[cli.mux][i]
    <3>1. cli.state = "UL_SEG"
      BY <1>1, <1>6 DEF Asked, Waiting
    <3>2. UpLock
      BY DEF InStep
    <3>3. QED
      BY <1>1, <1>b, <3>1, <3>2 DEF UpLock
  <2>2. srv.off + SegmentCount = SegmentEnd(cli)
    BY <1>2, <2>1, SizeAssumption DEF SegmentCount, IsLastSegment, SegmentEnd
  <2>3. SubSeq(data[srv.obj], srv.off + 1, srv.off + SegmentCount) \in Seq(Cells)
    <3>1. data[srv.obj] \in Seq(Cells) /\ Len(data[srv.obj]) = ObjLen[srv.obj]
      BY <1>t, <1>2 DEF Memory
    <3>2. srv.off + SegmentCount <= ObjLen[srv.obj]
      BY <1>2, <1>3
    <3>3. QED
      BY <1>2, <1>3, <3>1, <3>2, SegmentType
  <2>4. /\ answer \in Frame /\ answer.cs = "ulSegRsp"
        /\ answer.bytes = SubSeq(data[cli.mux], cli.off + 1, SegmentEnd(cli))
    <3>1. ASSUME NEW b \in BOOLEAN, NEW s \in Seq(Cells)
          PROVE  LET g == [NoFrame EXCEPT !.cs = "ulSegRsp", !.toggle = srv.toggle,
                                          !.last = b, !.bytes = s]
                 IN g \in Frame /\ g.cs = "ulSegRsp" /\ g.bytes = s
      BY <1>2, EmptyFrames DEF Frame, NoFrame, Commands
    <3>2. IsLastSegment \in BOOLEAN
      BY DEF IsLastSegment
    <3>3. QED
      BY <2>1, <2>2, <2>3, <3>1, <3>2
  <2>5. /\ next \in ServerRec /\ next.obj = cli.mux /\ next.tlen = cli.tlen
        /\ next.off = SegmentEnd(cli) /\ next.toggle = 1 - cli.toggle /\ ~next.internal
    <3>1. ASSUME NEW h \in ServerRec, NEW n \in {0, 1}
          PROVE  LET u == [h EXCEPT !.toggle = n]
                 IN /\ u \in ServerRec /\ u.obj = h.obj /\ u.tlen = h.tlen /\ u.off = h.off
                    /\ u.toggle = n /\ u.internal = h.internal
      BY DEF ServerRec
    <3>2. 1 - srv.toggle \in {0, 1}
      BY <1>2
    <3>3. QED
      BY <1>3, <2>1, <2>2, <3>1, <3>2
  <2> HIDE DEF answer, next
  <2>6. PICK g \in Frame : g = answer
    BY <2>4
  <2>7. \E a \in ServerRec :
           /\ Answer(a, g) /\ a.state \in {"IDLE", "UL_SEG"} /\ a.obj = cli.mux
           /\ a.tlen = cli.tlen /\ a.off = SegmentEnd(cli) /\ a.toggle = 1 - cli.toggle
           /\ ~a.internal
    <3>1. /\ Done(next) \in ServerRec /\ Done(next).state = "IDLE" /\ Done(next).obj = cli.mux
          /\ Done(next).tlen = cli.tlen /\ Done(next).off = SegmentEnd(cli)
          /\ Done(next).toggle = 1 - cli.toggle /\ ~Done(next).internal
      BY <2>5 DEF Done, ServerRec, ServerStates
    <3>2. ASSUME NEW a, a = Awaiting(next, "UL_SEG")
          PROVE  /\ a \in ServerRec /\ a.state = "UL_SEG" /\ a.obj = cli.mux
                 /\ a.tlen = cli.tlen /\ a.off = SegmentEnd(cli)
                 /\ a.toggle = 1 - cli.toggle /\ ~a.internal
      BY <2>5, <3>2 DEF Awaiting, ServerRec, ServerStates
    <3>3. QED
      BY <1>6, <2>6, <3>1, <3>2
  <2>8. PICK a \in ServerRec :
           /\ Answer(a, g) /\ a.state \in {"IDLE", "UL_SEG"} /\ a.obj = cli.mux
           /\ a.tlen = cli.tlen /\ a.off = SegmentEnd(cli) /\ a.toggle = 1 - cli.toggle
           /\ ~a.internal
    BY <2>7
  <2>9. /\ toCli' = Sent(toCli, g)
        /\ srv'.state \in {"IDLE", "UL_SEG"} /\ srv'.obj = cli.mux /\ srv'.tlen = cli.tlen
        /\ srv'.off = SegmentEnd(cli) /\ srv'.toggle = 1 - cli.toggle
        /\ ~srv'.internal /\ ~srv'.isNew
        /\ srv'.status = "idle" => srv'.state = "IDLE"
    BY <2>8, AnswerFields
  <2>10. /\ Given' = {g} /\ Coming' = {} /\ OneUnderWay' /\ AsksIts' /\ Confirming'
    BY <1>1, <1>b, <2>9, ServerAnswers
  <2>11. ServerAt'
    BY <2>9 DEF ServerAt
  <2>12. UpLock'
    <3>1. data' = data /\ cli' = cli /\ SegmentEnd(cli)' = SegmentEnd(cli)
      BY <1>b DEF memVars, SegmentEnd
    <3>2. cli.toggle # 1 - cli.toggle
      BY <1>t DEF ClientRec
    <3>3. \A f \in Given' : f.bytes = SubSeq(data[cli.mux], cli.off + 1, SegmentEnd(cli))
      BY <2>4, <2>6, <2>10
    <3>4. QED
      BY <2>1, <2>9, <2>10, <3>1, <3>2, <3>3 DEF UpLock
  <2>13. DownOpen' /\ DownLock' /\ UpOpen'
    BY <2>1 DEF DownOpen, DownLock, UpOpen
  <2>14. QED
    BY <2>10, <2>11, <2>12, <2>13 DEF InStep
<1>7. QED
  BY <1>4, <1>5, <1>6

\* Each handler of the server keeps the two ends in step.
LEMMA ServerInStep ==
    ASSUME MemoryInv, MemoryInv', InStep, ServerHandle, UNCHANGED cli
    PROVE  InStep'
<1>t. srv \in ServerRec
  BY DEF MemoryInv, ServerOk
<1>1. CASE SReceiveAbort
  <2>1. ~srv.internal
    BY <1>1 DEF SReceiveAbort, InStep, OneUnderWay, Coming
  <2>2. srv'.state = "IDLE" /\ srv'.internal = srv.internal /\ ~srv'.isNew
        /\ UNCHANGED <<toSrv, toCli, memVars>>
    BY <1>t, <1>1 DEF SReceiveAbort, ServerRec, busVars
  <2>3. QED
    BY <2>1, <2>2, QuietInStep
<1>2. CASE ServerRest
  <2>1. ~srv.internal
    BY <1>2 DEF ServerRest, InStep, ServerAt
  <2>2. srv'.state = "IDLE" /\ srv'.internal = srv.internal /\ ~srv'.isNew
        /\ UNCHANGED <<toSrv, toCli, memVars>>
    BY <1>t, <1>2 DEF ServerRest, Settled, ServerRec, busVars
  <2>3. QED
    BY <2>1, <2>2, QuietInStep
<1>3. CASE RefuseFirst
  <2>1. /\ toSrv = <<>> /\ toCli = <<>> /\ cli.rx = NoFrame /\ Waiting
    BY <1>3, ServerTurn DEF RefuseFirst
  <2>2. /\ toCli' = Sent(toCli, Abort) /\ UNCHANGED <<toSrv, memVars>>
        /\ srv'.state = "IDLE" /\ ~srv'.internal /\ ~srv'.isNew
    BY <1>t, <1>3 DEF RefuseFirst, SAborted, ServerRec
  <2>3. QED
    BY <2>1, <2>2, AbortInStep
<1>4. CASE BeginDownload
  BY <1>4, BeginDownloadInStep
<1>5. CASE BeginUpload
  BY <1>5, BeginUploadInStep
<1>6. CASE ServerConfirm
  BY <1>6, ConfirmInStep
<1>7. CASE ServerDownloadSegment
  BY <1>7, DownloadSegmentInStep
<1>8. CASE ServerUploadSegment
  BY <1>8, UploadSegmentInStep
<1>9. QED
  BY <1>1, <1>2, <1>3, <1>4, <1>5, <1>6, <1>7, <1>8 DEF ServerHandle


\* A channel that hands on or loses a frame keeps the others, in their order.
LEMMA LeftOver ==
    ASSUME NEW ch \in Channel,
           \A i \in DOMAIN ch : ch[i].cs # "abort" => i = Len(ch)
    PROVE  /\ ch # <<>> =>
                 /\ DOMAIN Tail(ch) = 1 .. Len(ch) - 1 /\ Len(Tail(ch)) = Len(ch) - 1
                 /\ {Tail(ch)[i] : i \in DOMAIN Tail(ch)} \subseteq {ch[i] : i \in DOMAIN ch}
                 /\ Head(ch) \in {ch[i] : i \in DOMAIN ch}
                 /\ \A i \in DOMAIN Tail(ch) : Tail(ch)[i].cs # "abort" => i = Len(Tail(ch))
                 /\ Head(ch).cs # "abort" => Tail(ch) = <<>>
           /\ \A j \in 1 .. Len(ch) :
                 /\ Len(Without(ch, j)) = Len(ch) - 1
                 /\ {Without(ch, j)[i] : i \in DOMAIN Without(ch, j)}
                       \subseteq {ch[i] : i \in DOMAIN ch}
                 /\ \A i \in DOMAIN Without(ch, j) :
                       Without(ch, j)[i].cs # "abort" => i = Len(Without(ch, j))
<1>1. ch \in Seq(Frame) /\ DOMAIN ch = 1 .. Len(ch) /\ Len(ch) \in Nat
  BY LenProperties DEF Channel
<1>2. ASSUME ch # <<>>
      PROVE  /\ DOMAIN Tail(ch) = 1 .. Len(ch) - 1 /\ Len(Tail(ch)) = Len(ch) - 1
             /\ {Tail(ch)[i] : i \in DOMAIN Tail(ch)} \subseteq {ch[i] : i \in DOMAIN ch}
             /\ Head(ch) \in {ch[i] : i \in DOMAIN ch}
             /\ \A i \in DOMAIN Tail(ch) : Tail(ch)[i].cs # "abort" => i = Len(Tail(ch))
             /\ Head(ch).cs # "abort" => Tail(ch) = <<>>
  <2>1. /\ Tail(ch) \in Seq(Frame) /\ Len(Tail(ch)) = Len(ch) - 1 /\ Head(ch) = ch[1]
        /\ \A i \in 1 .. Len(ch) - 1 : Tail(ch)[i] = ch[i + 1]
    BY <1>1, <1>2, HeadTailProperties
  <2>2. DOMAIN Tail(ch) = 1 .. Len(ch) - 1 /\ Len(ch) >= 1
    BY <1>1, <1>2, <2>1, LenProperties, EmptySeq
  <2>3. Head(ch).cs # "abort" => Tail(ch) = <<>>
    <3>1. Head(ch).cs # "abort" => Len(ch) = 1
      BY <1>1, <2>1, <2>2
    <3>2. QED
      BY <1>1, <2>1, <3>1, EmptySeq
  <2>4. QED
    BY <1>1, <2>1, <2>2, <2>3
<1>3. ASSUME NEW j \in 1 .. Len(ch)
      PROVE  /\ Len(Without(ch, j)) = Len(ch) - 1
             /\ {Without(ch, j)[i] : i \in DOMAIN Without(ch, j)}
                   \subseteq {ch[i] : i \in DOMAIN ch}
             /\ \A i \in DOMAIN Without(ch, j) :
                   Without(ch, j)[i].cs # "abort" => i = Len(Without(ch, j))
  <2>1. /\ DOMAIN Without(ch, j) = 1 .. Len(ch) - 1
        /\ \A i \in 1 .. Len(ch) - 1 :
              Without(ch, j)[i] = IF i < j THEN ch[i] ELSE ch[i + 1]
    BY DEF Without
  <2>2. Len(Without(ch, j)) = Len(ch) - 1
    <3>1. PICK w \in Seq(Frame) : w = Without(ch, j)
      BY WithoutType DEF Channel
    <3>2. DOMAIN w = 1 .. Len(w) /\ Len(w) \in Nat /\ DOMAIN w = 1 .. Len(ch) - 1
      BY <2>1, <3>1, LenProperties
    <3>3. ASSUME NEW a \in Nat, NEW b \in Nat, 1 .. a = 1 .. b
          PROVE  a <= b
      <4>1. a = 0 \/ a \in 1 .. a
        OBVIOUS
      <4>2. a = 0 \/ a \in 1 .. b
        BY <3>3, <4>1
      <4>3. QED
        BY <4>2
    <3>4. Len(ch) - 1 \in Nat
      BY <1>1
    <3>5. Len(w) \in Nat /\ Len(ch) - 1 \in Nat /\ 1 .. Len(w) = 1 .. Len(ch) - 1
      BY <3>2, <3>4, Zenon
    <3>6. Len(w) <= Len(ch) - 1 /\ Len(ch) - 1 <= Len(w)
      BY <3>3, <3>5
    <3>7. Len(w) = Len(ch) - 1
      BY <3>5, <3>6
    <3>8. QED
      BY <3>1, <3>7
  <2>3. PICK w : w = Without(ch, j)
    OBVIOUS
  <2>4. /\ DOMAIN w = 1 .. Len(ch) - 1 /\ Len(w) = Len(ch) - 1
        /\ \A i \in 1 .. Len(ch) - 1 : w[i] = IF i < j THEN ch[i] ELSE ch[i + 1]
    BY <2>1, <2>2, <2>3
  <2>5. {w[i] : i \in DOMAIN w} \subseteq {ch[i] : i \in DOMAIN ch}
    BY <1>1, <1>3, <2>4
  <2>6. ASSUME NEW i \in DOMAIN w, w[i].cs # "abort"
        PROVE  i = Len(w)
    <3>1. i \in 1 .. Len(ch) - 1
      BY <2>4
    <3>2. \/ w[i] = ch[i] /\ i \in DOMAIN ch /\ i # Len(ch)
          \/ w[i] = ch[i + 1] /\ i + 1 \in DOMAIN ch
      BY <1>1, <1>3, <2>4, <3>1
    <3>3. QED
      BY <1>1, <2>4, <2>6, <3>1, <3>2
  <2>7. QED
    BY <2>3, <2>4, <2>5, <2>6
<1>4. QED
  BY <1>2, <1>3

\* A frame that is handed on or lost leaves the rest under way.
LEMMA BusInStep ==
    ASSUME MemoryInv, InStep, ToClient \/ ToServer \/ LoseFrame
    PROVE  InStep'
<1> DEFINE Frames(ch) == {ch[i] : i \in DOMAIN ch}
<1>t. toSrv \in Channel /\ toCli \in Channel /\ srv \in ServerRec /\ cli \in ClientRec
  BY DEF MemoryInv, ServerOk, ClientOk
<1>o. OneUnderWay
  BY DEF InStep
<1>l. /\ Len(toCli) \in Nat /\ DOMAIN toCli = 1 .. Len(toCli)
      /\ Len(toSrv) \in Nat /\ DOMAIN toSrv = 1 .. Len(toSrv)
      /\ toCli # <<>> => Len(toCli) = 1
  <2>1. \A ch \in Channel : Len(ch) \in Nat /\ DOMAIN ch = 1 .. Len(ch)
                            /\ (ch # <<>> => Len(ch) # 0)
    BY LenProperties, EmptySeq DEF Channel
  <2>2. Len(toCli) <= 1
    BY <1>o DEF OneUnderWay
  <2>3. Len(toCli) \in Nat /\ DOMAIN toCli = 1 .. Len(toCli)
        /\ (toCli # <<>> => Len(toCli) # 0)
    BY <1>t, <2>1
  <2>4. Len(toSrv) \in Nat /\ DOMAIN toSrv = 1 .. Len(toSrv)
    BY <1>t, <2>1
  <2>5. QED
    BY <2>2, <2>3, <2>4
<1>e. /\ toCli # <<>> => \A f \in Coming : FALSE
      /\ toSrv # <<>> => Coming # {}
  <2>1. toCli # <<>> => Given # {}
    BY <1>t, NothingUnderWay
  <2>2. QED
    BY <1>t, <1>o, <2>1, NothingUnderWay DEF OneUnderWay
<1>1. CASE ToClient
  <2>1. toCli # <<>> /\ toCli' = Tail(toCli) /\ UNCHANGED <<toSrv, srv, memVars>>
        /\ (cli' = cli \/ cli' = [cli EXCEPT !.rx = Head(toCli)])
    BY <1>1 DEF ToClient, ClientDeliver
  <2>2. Head(toCli) \in Frame /\ toCli' = <<>> /\ Head(toCli) \in Given
    <3>1. toCli \in Seq(Frame) /\ Len(toCli) = 1
      BY <1>t, <1>l, <2>1 DEF Channel
    <3>2. Head(toCli) \in Frame /\ Tail(toCli) \in Seq(Frame) /\ Len(Tail(toCli)) = 0
          /\ Head(toCli) = toCli[1]
      BY <2>1, <3>1, HeadTailProperties, ElementOfSeq
    <3>3. Head(toCli) \in Given
      BY <1>l, <3>1, <3>2 DEF Given
    <3>4. QED
      BY <2>1, <3>2, <3>3, EmptySeq
  <2>3. Coming' = {} /\ ~srv.internal
    <3>1. Coming' = Coming
      BY <2>1 DEF Coming
    <3>2. Coming = {} /\ ~srv.internal
      BY <1>o, <2>2 DEF OneUnderWay
    <3>3. QED
      BY <3>1, <3>2
  <2>4. Given' \subseteq Given
    <3>1. cli'.rx = cli.rx \/ cli'.rx = Head(toCli)
      BY <1>t, <2>1 DEF ClientRec
    <3>2. DOMAIN toCli' = {}
      BY <2>2, EmptySeq
    <3>3. Given' = {cli'.rx} \ {NoFrame}
      BY <3>2 DEF Given
    <3>4. cli.rx # NoFrame => cli.rx \in Given
      BY DEF Given
    <3>5. QED
      BY <2>2, <3>1, <3>3, <3>4
  <2>5. OneUnderWay'
    <3>1. Waiting' = Waiting /\ Waiting
      <4>1. cli'.state = cli.state
        BY <1>t, <2>1 DEF ClientRec
      <4>2. Waiting
        BY <1>o, <2>2 DEF OneUnderWay
      <4>3. QED
        BY <4>1, <4>2 DEF Waiting
    <3>2. Len(toCli') <= 1
      BY <2>2, EmptySeq
    <3>3. QED
      BY <1>o, <2>1, <2>2, <2>3, <3>1, <3>2 DEF OneUnderWay
  <2>6. UNCHANGED cli \/ \E f \in Frame : cli' = [cli EXCEPT !.rx = f]
    BY <2>1, <2>2
  <2>7. srv'.status = "idle" => srv'.state = "IDLE"
    BY <2>1 DEF InStep, ServerAt
  <2>8. QED
    BY <1>t, <2>1, <2>3, <2>4, <2>5, <2>6, <2>7, FewerInStep
<1>2. CASE ToServer
  <2>1. /\ toSrv # <<>> /\ toSrv' = Tail(toSrv)
        /\ srv' = [srv EXCEPT !.rx = Head(toSrv), !.isNew = TRUE]
        /\ UNCHANGED <<toCli, cli, memVars>>
    BY <1>2 DEF ToServer, ServerDeliver
  <2>2. /\ srv'.state = srv.state /\ srv'.obj = srv.obj /\ srv'.tlen = srv.tlen
        /\ srv'.off = srv.off /\ srv'.toggle = srv.toggle /\ (srv'.internal <=> srv.internal)
        /\ srv'.status = srv.status /\ srv'.rx = Head(toSrv) /\ srv'.isNew
    BY <1>t, <2>1 DEF ServerRec
  <2>3. /\ Frames(toSrv') \subseteq Frames(toSrv) /\ Head(toSrv) \in Frames(toSrv)
        /\ \A i \in DOMAIN toSrv' : toSrv'[i].cs # "abort" => i = Len(toSrv')
        /\ Head(toSrv).cs # "abort" => toSrv' = <<>>
    BY <1>t, <1>o, <2>1, LeftOver DEF OneUnderWay
  <2>4. Coming' \subseteq Coming
    BY <2>2, <2>3 DEF Coming
  <2>5. Given' = Given /\ Waiting' = Waiting
    BY <2>1 DEF Given, Waiting
  <2>6. Coming # {} /\ ~srv.internal /\ Given = {}
    BY <1>e, <1>o, <2>1 DEF OneUnderWay
  <2>7. OneUnderWay'
    <3>1. ~Waiting' => \A f \in Coming' : f.cs = "abort"
      BY <1>o, <2>4, <2>5 DEF OneUnderWay
    <3>2. Len(toCli') <= 1 /\ (toCli' # <<>> => cli'.rx = NoFrame)
      BY <1>o, <2>1 DEF OneUnderWay
    <3>3. Given' = {} /\ ~srv'.internal
      BY <2>2, <2>5, <2>6
    <3>4. srv'.rx.cs # "abort" => toSrv' = <<>>
      BY <2>2, <2>3
    <3>5. QED
      BY <2>3, <3>1, <3>2, <3>3, <3>4 DEF OneUnderWay
  <2>8. srv'.status = "idle" => srv'.state = "IDLE"
    BY <2>2 DEF InStep, ServerAt
  <2>9. QED
    BY <1>t, <2>1, <2>2, <2>4, <2>5, <2>7, <2>8, FewerInStep
<1>3. CASE LoseFrame
  <2>1. UNCHANGED <<cli, srv, memVars>>
    BY <1>3 DEF LoseFrame
  <2>2. Waiting' = Waiting
    BY <2>1 DEF Waiting
  <2>3. \/ \E j \in 1 .. Len(toSrv) : toSrv' = Without(toSrv, j) /\ UNCHANGED toCli
        \/ \E j \in 1 .. Len(toCli) : toCli' = Without(toCli, j) /\ UNCHANGED toSrv
    BY <1>3 DEF LoseFrame, Lose
  <2>4. /\ Coming' \subseteq Coming /\ Given' \subseteq Given
        /\ \A i \in DOMAIN toSrv' : toSrv'[i].cs # "abort" => i = Len(toSrv')
        /\ srv'.isNew /\ srv'.rx.cs # "abort" => toSrv' = <<>>
        /\ Len(toCli') <= 1 /\ (toCli' # <<>> => cli'.rx = NoFrame)
    <3>1. CASE \E j \in 1 .. Len(toSrv) : toSrv' = Without(toSrv, j) /\ UNCHANGED toCli
      <4>1. PICK j \in 1 .. Len(toSrv) : toSrv' = Without(toSrv, j)
        BY <3>1
      <4>2. /\ Frames(toSrv') \subseteq Frames(toSrv)
            /\ \A i \in DOMAIN toSrv' : toSrv'[i].cs # "abort" => i = Len(toSrv')
        <5>1. \A i \in DOMAIN toSrv : toSrv[i].cs # "abort" => i = Len(toSrv)
          BY <1>o DEF OneUnderWay
        <5>2. PICK ch \in Channel : ch = toSrv
          BY <1>t
        <5>3. \A i \in DOMAIN ch : ch[i].cs # "abort" => i = Len(ch)
          BY <5>1, <5>2
        <5>4. /\ Frames(Without(ch, j)) \subseteq Frames(ch)
              /\ \A i \in DOMAIN Without(ch, j) :
                    Without(ch, j)[i].cs # "abort" => i = Len(Without(ch, j))
          BY <4>1, <5>2, <5>3, LeftOver
        <5>5. QED
          BY <4>1, <5>2, <5>4
      <4>3. toSrv # <<>>
        BY <1>l, <4>1, EmptySeq
      <4>4. Coming' \subseteq Coming /\ Given' = Given
        BY <2>1, <3>1, <4>2 DEF Coming, Given
      <4>5. QED
        BY <1>o, <2>1, <3>1, <4>2, <4>3, <4>4 DEF OneUnderWay
    <3>2. CASE \E j \in 1 .. Len(toCli) : toCli' = Without(toCli, j) /\ UNCHANGED toSrv
      <4>1. PICK j \in 1 .. Len(toCli) : toCli' = Without(toCli, j)
        BY <3>2
      <4>2. toCli # <<>>
        BY <1>l, <4>1, EmptySeq
      <4>3. Len(toCli) = 1
        BY <1>l, <4>2
      <4>4. toCli' = <<>>
        <5>1. toCli' \in Seq(Frame)
          BY <1>t, <4>1, WithoutType DEF Channel
        <5>2. DOMAIN toCli' = 1 .. Len(toCli) - 1
          BY <4>1 DEF Without
        <5>3. DOMAIN toCli' = 1 .. Len(toCli') /\ Len(toCli') \in Nat
          BY <5>1, LenProperties
        <5>4. Len(toCli') = 0
          BY <4>3, <5>2, <5>3
        <5>5. QED
          BY <5>1, <5>4, EmptySeq
      <4>5. Coming' = Coming
        BY <2>1, <3>2 DEF Coming
      <4>6. Given' \subseteq Given
        BY <2>1, <4>4, EmptySeq DEF Given
      <4>7. Len(toCli') <= 1
        BY <4>4, EmptySeq
      <4>8. QED
        BY <1>o, <2>1, <3>2, <4>4, <4>5, <4>6, <4>7 DEF OneUnderWay
    <3>3. QED
      BY <2>3, <3>1, <3>2
  <2>5. OneUnderWay'
    BY <1>o, <2>1, <2>2, <2>4 DEF OneUnderWay
  <2>6. srv'.status = "idle" => srv'.state = "IDLE"
    BY <2>1 DEF InStep, ServerAt
  <2>7. QED
    BY <1>t, <2>1, <2>4, <2>5, <2>6, FewerInStep
<1>4. QED
  BY <1>1, <1>2, <1>3


\* The step to a new request, and the time-outs, find nothing under way.
LEMMA RestInStep ==
    ASSUME MemoryInv, InStep, prompt, Ask \/ ClientExpires \/ ServerExpires
    PROVE  InStep'
<1>t. toSrv \in Channel /\ toCli \in Channel /\ srv \in ServerRec /\ cli \in ClientRec
  BY DEF MemoryInv, ServerOk, ClientOk
<1>o. OneUnderWay
  BY DEF InStep
<1>1. CASE Ask
  <2>1. cli.state = "IDLE" /\ cli'.state \in {"DL_REQ", "UL_REQ"} /\ cli'.rx = cli.rx
        /\ UNCHANGED <<toSrv, toCli, srv, memVars>>
    BY <1>t, <1>1 DEF Ask, StartDownload, StartUpload, ClientRec, busVars
  <2>2. ~Waiting /\ ~Waiting'
    BY <2>1 DEF Waiting
  <2>3. Coming' = Coming /\ Given' = Given
    BY <2>1 DEF Coming, Given
  <2>4. ~srv.internal
    BY <1>o, <2>1 DEF OneUnderWay
  <2>5. OneUnderWay'
    BY <1>o, <2>1, <2>2, <2>3, <2>4 DEF OneUnderWay
  <2>6. QED
    BY <2>1, <2>2, <2>4, <2>5, AtRest
<1>2. CASE ClientExpires
  <2>1. /\ Quiet /\ ~srv.internal /\ cli' = CAborted
        /\ UNCHANGED <<toSrv, toCli, srv, memVars>>
    BY <1>2 DEF ClientExpires, ClientTimeout, busVars
  <2>2. cli'.state = "IDLE" /\ cli'.rx = NoFrame
    BY <1>t, <2>1 DEF CAborted, ClientRec
  <2>3. Coming' = {} /\ Given' = {}
    <3>1. DOMAIN toSrv' = {} /\ DOMAIN toCli' = {}
      BY <2>1, EmptySeq DEF Quiet
    <3>2. QED
      BY <2>1, <2>2, <3>1 DEF Quiet, Coming, Given
  <2>4. ~Waiting'
    BY <2>2 DEF Waiting
  <2>5. OneUnderWay'
    <3>1. Len(toCli') <= 1 /\ DOMAIN toSrv' = {} /\ toCli' = <<>> /\ toSrv' = <<>>
      BY <2>1, EmptySeq DEF Quiet
    <3>2. QED
      BY <2>1, <2>3, <2>4, <3>1 DEF OneUnderWay
  <2>6. QED
    BY <2>1, <2>4, <2>5, AtRest
<1>3. CASE ServerExpires
  <2>1. srv' = SAborted(srv) /\ UNCHANGED <<toSrv, toCli, cli, memVars>>
    BY <1>3 DEF ServerExpires, ServerTimeout, busVars
  <2>2. srv'.state = "IDLE" /\ ~srv'.internal /\ ~srv'.isNew
    BY <1>t, <2>1 DEF SAborted, ServerRec
  <2>3. QED
    BY <2>1, <2>2, QuietInStep
<1>4. QED
  BY <1>1, <1>2, <1>3

\* The inductive form of EndsInStep: where time-outs are prompt, the two ends are in step.
SdoInv == MemoryInv /\ (prompt => InStep)

\* At first nothing is asked and nothing is under way.
LEMMA InitInStep == Init => SdoInv
<1> SUFFICES ASSUME Init
             PROVE  InStep
  BY InitMemory DEF SdoInv
<1>1. /\ toSrv = <<>> /\ toCli = <<>> /\ cli.state = "IDLE" /\ cli.rx = NoFrame
      /\ srv.state = "IDLE" /\ ~srv.internal /\ ~srv.isNew
  BY DEF Init, ClientInit, ServerInit
<1>2. Coming = {} /\ Given = {}
  BY <1>1, EmptySeq DEF Coming, Given
<1>3. ~Waiting
  BY <1>1 DEF Waiting
<1>4. OneUnderWay
  <2>1. DOMAIN toSrv = {} /\ Len(toCli) <= 1
    BY <1>1, EmptySeq
  <2>2. QED
    BY <1>1, <1>2, <2>1 DEF OneUnderWay
<1>5. ServerAt /\ AsksIts /\ Confirming
  BY <1>1, <1>2 DEF ServerAt, AsksIts, Confirming
<1>6. DownOpen /\ DownLock /\ UpOpen /\ UpLock
  BY <1>1 DEF DownOpen, DownLock, UpOpen, UpLock
<1>7. QED
  BY <1>4, <1>5, <1>6 DEF InStep

\* Every step keeps the two ends in step: which of them is slow is chosen once for all.
LEMMA SdoStep == SdoInv /\ [Next]_vars => SdoInv'
<1> SUFFICES ASSUME SdoInv, [Next]_vars
             PROVE  SdoInv'
  OBVIOUS
<1>1. MemoryInv /\ MemoryInv'
  BY MemoryStep DEF SdoInv
<1>2. prompt' = prompt
  BY DEF Next, Ask, ClientStep, ServerStep, ClientExpires, ServerExpires, ToClient, ToServer,
     LoseFrame, vars, setting
<1>3. SUFFICES ASSUME prompt, InStep
               PROVE  InStep'
  BY <1>1, <1>2 DEF SdoInv
<1>4. CASE Ask \/ ClientExpires \/ ServerExpires
  BY <1>1, <1>3, <1>4, RestInStep
<1>5. CASE ClientStep
  BY <1>1, <1>3, <1>5, ClientInStep DEF ClientStep, memVars
<1>6. CASE ServerStep
  BY <1>1, <1>3, <1>6, ServerInStep DEF ServerStep
<1>7. CASE ToClient \/ ToServer \/ LoseFrame
  BY <1>1, <1>3, <1>7, BusInStep
<1>8. CASE UNCHANGED vars
  <2>1. UNCHANGED <<toSrv, toCli, cli, srv, memVars>>
    BY <1>8 DEF vars, busVars
  <2>2. Coming' = Coming /\ Given' = Given /\ Waiting' = Waiting
    BY <2>1 DEF Coming, Given, Waiting
  <2>3. OneUnderWay'
    BY <1>3, <2>1, <2>2 DEF InStep, OneUnderWay
  <2>4. cli \in ClientRec /\ (srv'.status = "idle" => srv'.state = "IDLE")
    BY <1>1, <1>3, <2>1 DEF MemoryInv, ClientOk, InStep, ServerAt
  <2>5. QED
    BY <1>3, <2>1, <2>2, <2>3, <2>4, FewerInStep
<1>9. QED
  BY <1>4, <1>5, <1>6, <1>7, <1>8 DEF Next

\* For any object dictionary and any loss of frames: while time-outs are prompt, the two
\* ends of a segmented download differ by the one segment or answer under way, and a free
\* server is in no confirmation.
THEOREM EndsStayInStep == Spec => []EndsInStep
<1>1. SdoInv => EndsInStep
  <2> SUFFICES ASSUME SdoInv
               PROVE  EndsInStep
    OBVIOUS
  <2>1. MemoryInv /\ toSrv \in Channel /\ toCli \in Channel /\ ServerOk(srv)
        /\ srv \in ServerRec
    BY DEF SdoInv, MemoryInv, ServerOk
  <2>2. ASSUME prompt, cli.state = "DL_SEG", srv.state = "DL_SEG", ~srv.internal
        PROVE  /\ cli.mux = srv.obj /\ cli.tlen = srv.tlen
               /\ IF cli.toggle = srv.toggle
                  THEN /\ srv.off < cli.off /\ cli.off <= srv.off + SegSize
                       /\ toCli = <<>> /\ cli.rx = NoFrame
                  ELSE /\ cli.off = srv.off
                       /\ toSrv = <<>> /\ ~srv.isNew
    <3>1. DownLock
      BY <2>2 DEF SdoInv, InStep
    <3>2. /\ srv.obj = cli.mux /\ srv.tlen = cli.tlen
          /\ IF srv.toggle = cli.toggle
             THEN cli.off = srv.off + SegmentCount /\ Given = {}
             ELSE srv.off = cli.off /\ Coming = {}
      BY <2>2, <3>1 DEF DownLock
    <3>3. srv.off < srv.tlen /\ srv.off \in Nat /\ srv.tlen \in Nat
      BY <2>1, <2>2 DEF ServerOk, ServerRec
    <3>4. srv.off < srv.off + SegmentCount /\ srv.off + SegmentCount <= srv.off + SegSize
      BY <3>3, SizeAssumption DEF SegmentCount, IsLastSegment
    <3>5. /\ Coming = {} <=> toSrv = <<>> /\ ~srv.isNew
          /\ Given = {} <=> toCli = <<>> /\ cli.rx = NoFrame
      BY <2>1, NothingUnderWay
    <3>6. QED
      BY <3>2, <3>4, <3>5
  <2>3. Lockstep
    BY <2>2 DEF Lockstep
  <2>4. IdleIsFree
    BY DEF SdoInv, InStep, ServerAt, IdleIsFree
  <2>5. QED
    BY <2>3, <2>4 DEF EndsInStep
<1>2. QED
  BY <1>1, InitInStep, SdoStep, PTL DEF Spec


------------------------------------------------------------------------------
(* What a successful upload leaves in the caller's buffer                    *)

\* A memory that begins with all of d has d in front.
LEMMA WholeInFront ==
    ASSUME NEW mem \in Seq(Cells), NEW d \in Seq(Cells), Len(d) <= Len(mem),
           Begins(mem, d, Len(d))
    PROVE  SubSeq(mem, 1, Len(d)) = d
<1>1. Len(mem) \in Nat /\ Len(d) \in Nat
  BY LenProperties
<1>2. \A i \in 1 .. Len(d) : mem[i] \in Cells
  BY <1>1, ElementOfSeq
<1>3. PICK n \in Nat : n = Len(d)
  BY <1>1
<1>4. /\ SubSeq(mem, 1, n) \in Seq(Cells) /\ Len(SubSeq(mem, 1, n)) = n
      /\ \A i \in 1 .. n : SubSeq(mem, 1, n)[i] = mem[i]
  BY <1>2, <1>3, SubSeqProperties
<1>5. \A i \in 1 .. n : SubSeq(mem, 1, n)[i] = d[i]
  BY <1>3, <1>4 DEF Begins
<1>6. QED
  BY <1>3, <1>4, <1>5, SeqEqual

\* A short answer is the whole object.
LEMMA ShortUploadExact ==
    ASSUME MemoryInv, InStep, UploadInitiateResponse, cli'.status = "success",
           cli.status = "busy"
    PROVE  SubSeq(cli'.buf, 1, cli'.tlen) = data[cli.mux]
<1> DEFINE n == cli.rx.size
           got == Written(cli.buf, 0, Taken(cli.rx.bytes, n))
           read == [cli EXCEPT !.buf = got, !.tlen = n, !.off = n]
<1>1. /\ cli \in ClientRec /\ cli.rx \in Frame /\ n \in Nat /\ cli.buf \in Seq(Cells)
      /\ cli.rx.bytes \in Seq(Cells)
  BY DEF MemoryInv, ClientOk, ClientRec, Frame
<1>2. /\ cli.rx.cs = "ulInitRsp" /\ cli.rx.last /\ n <= Len(cli.buf)
      /\ cli' = CSuccess(read)
  <2>1. cli' = CAborted => cli'.status # "success"
    BY <1>1 DEF CAborted, ClientRec
  <2>2. cli' = [CAborted EXCEPT !.tlen = n] => cli'.status # "success"
    BY <1>1 DEF CAborted, ClientRec
  <2>3. AskSegment([cli EXCEPT !.tlen = n, !.off = 0]) => cli'.status # "success"
    BY <1>1 DEF AskSegment, CRequest, ClientRec
  <2>4. QED
    BY <2>1, <2>2, <2>3 DEF UploadInitiateResponse, CReject
<1>3. /\ cli.mux \in Object /\ n = ObjLen[cli.mux] /\ cli.rx.bytes = data[cli.mux]
  <2>1. cli.state = "UL_RSP" /\ cli.rx \in Given
    BY <1>2 DEF UploadInitiateResponse, NoFrame, Given
  <2>2. QED
    BY <1>2, <2>1 DEF InStep, UpOpen
<1>4. PICK d \in Seq(Cells) : d = data[cli.mux] /\ Len(d) = n
  BY <1>3 DEF MemoryInv, Memory
<1>5. PICK t \in Seq(Cells) : /\ t = Taken(d, n) /\ Len(t) = n
                              /\ \A i \in 1 .. n : t[i] = d[i]
  <2>1. PICK m \in Nat : m = n
    BY <1>1
  <2>2. /\ Taken(d, m) \in Seq(Cells) /\ Len(Taken(d, m)) = m
        /\ \A i \in 1 .. m : Taken(d, m)[i] = IF i <= Len(d) THEN d[i] ELSE Junk
    BY TakenType
  <2>3. m = Len(d)
    BY <1>4, <2>1
  <2>4. \A i \in 1 .. m : Taken(d, m)[i] = d[i]
    BY <2>2, <2>3
  <2>5. QED
    BY <2>1, <2>2, <2>4
<1>6. /\ got = Written(cli.buf, 0, t) /\ got \in Seq(Cells) /\ Len(got) = Len(cli.buf)
      /\ Begins(got, d, Len(d))
  <2>1. got = Written(cli.buf, 0, t)
    BY <1>3, <1>4, <1>5
  <2>2. Written(cli.buf, 0, t) \in Seq(Cells) /\ Len(Written(cli.buf, 0, t)) = Len(cli.buf)
    BY <1>1, <1>5, WrittenType
  <2>3. Begins(cli.buf, d, 0)
    BY DEF Begins
  <2>4. Follows(t, d, 0, n)
    BY <1>1, <1>5 DEF Follows
  <2>5. n <= 0 + Len(t)
    BY <1>1, <1>5
  <2>6. Begins(Written(cli.buf, 0, t), d, n)
    <3>1. PICK b \in Seq(Cells) : b = cli.buf
      BY <1>1
    <3>2. PICK m \in Nat : m = n
      BY <1>1
    <3>3. /\ m <= 0 + Len(t) /\ m <= Len(b) /\ Begins(b, d, 0) /\ Follows(t, d, 0, m)
      BY <1>2, <2>3, <2>4, <2>5, <3>1, <3>2
    <3>4. Begins(Written(b, 0, t), d, m)
      BY <3>3, ContinuedOn
    <3>5. QED
      BY <3>1, <3>2, <3>4
  <2> HIDE DEF got, n
  <2>7. QED
    BY <1>4, <2>1, <2>2, <2>6
<1>7. cli'.buf = got /\ cli'.tlen = n
  <2>1. read \in ClientRec /\ read.buf = got /\ read.tlen = n
    BY <1>1, <1>6 DEF ClientRec
  <2> HIDE DEF read, got, n
  <2>2. QED
    BY <1>2, <2>1 DEF CSuccess, ClientRec
<1> HIDE DEF got, n, read
<1>8. Len(d) <= Len(got)
  BY <1>2, <1>4, <1>6
<1>9. SubSeq(got, 1, Len(d)) = d
  BY <1>6, <1>8, WholeInFront
<1>10. QED
  BY <1>4, <1>7, <1>9

\* The last segment completes the object.
LEMMA LastSegmentExact ==
    ASSUME MemoryInv, InStep, UploadSegmentResponse, cli'.status = "success",
           cli.status = "busy"
    PROVE  SubSeq(cli'.buf, 1, cli'.tlen) = data[cli.mux]
<1> DEFINE n == SegmentEnd(cli) - cli.off
           got == Written(cli.buf, cli.off, Taken(cli.rx.bytes, n))
           filled == [Flipped(cli) EXCEPT !.buf = Written(@, cli.off, Taken(cli.rx.bytes, n)),
                                          !.off = cli.off + n]
<1>1. /\ cli \in ClientRec /\ cli.off < cli.tlen /\ cli.tlen <= Len(cli.buf)
      /\ cli.off \in Nat /\ cli.buf \in Seq(Cells) /\ cli.tlen \in Nat
      /\ cli.rx.bytes \in Seq(Cells) /\ cli.toggle \in {0, 1} /\ cli.state = "UL_SEG"
  BY DEF MemoryInv, ClientOk, ClientRec, Frame, UploadSegmentResponse
<1>2. /\ n \in Nat /\ cli.off + n = SegmentEnd(cli) /\ SegmentEnd(cli) \in Nat
      /\ cli.off <= SegmentEnd(cli) /\ SegmentEnd(cli) <= cli.tlen
  BY <1>1, SegmentEndType
<1>3. got \in Seq(Cells) /\ Len(got) = Len(cli.buf)
  <2>1. Taken(cli.rx.bytes, n) \in Seq(Cells)
    BY <1>1, <1>2, TakenType
  <2>2. QED
    BY <1>1, <2>1, WrittenType
<1>4. filled \in ClientRec /\ filled.tlen = cli.tlen /\ filled.buf = got
      /\ filled.status = cli.status
  <2>1. /\ Flipped(cli) \in ClientRec /\ Flipped(cli).tlen = cli.tlen
        /\ Flipped(cli).buf = cli.buf /\ Flipped(cli).status = cli.status
    BY <1>1 DEF Flipped, ClientRec
  <2>2. QED
    BY <1>1, <1>2, <1>3, <2>1 DEF ClientRec
<1>5. /\ cli.rx.cs = "ulSegRsp" /\ cli.tlen <= cli.off + SegSize /\ cli' = CSuccess(filled)
  <2>1. cli' = CAborted => cli'.status # "success"
    BY <1>1 DEF CAborted, ClientRec
  <2> HIDE DEF got
  <2>2. AskSegment(filled) => cli'.status # "success"
    <3> HIDE DEF filled
    <3>1. QED
      BY <1>4 DEF AskSegment, CRequest, ClientRec
  <2>3. \/ cli' = CAborted
        \/ AskSegment(filled)
        \/ cli.rx.cs = "ulSegRsp" /\ cli.tlen <= cli.off + SegSize /\ cli' = CSuccess(filled)
    BY DEF UploadSegmentResponse, CReject
  <2>4. QED
    BY <2>1, <2>2, <2>3
<1>6. SegmentEnd(cli) = cli.tlen
  BY <1>5 DEF SegmentEnd
<1>7. /\ cli.mux \in Object /\ cli.tlen = ObjLen[cli.mux]
      /\ \A i \in 1 .. cli.off : cli.buf[i] = data[cli.mux][i]
      /\ cli.rx.bytes = SubSeq(data[cli.mux], cli.off + 1, cli.tlen)
  <2>1. cli.rx \in Given
    BY <1>5 DEF NoFrame, Given
  <2>2. QED
    BY <1>1, <1>5, <1>6, <2>1 DEF InStep, UpLock
<1>8. PICK d \in Seq(Cells) : d = data[cli.mux] /\ Len(d) = cli.tlen
  BY <1>7 DEF MemoryInv, Memory
<1>9. Begins(got, d, Len(d))
  <2>1. PICK b \in Seq(Cells) : b = cli.buf
    BY <1>1
  <2>2. PICK off \in Nat : off = cli.off
    BY <1>1
  <2>3. PICK end \in Nat : end = cli.tlen
    BY <1>1
  <2>4. off <= end /\ end <= Len(d) /\ end <= Len(b) /\ \A i \in 1 .. off : b[i] = d[i]
    BY <1>1, <1>7, <1>8, <2>1, <2>2, <2>3
  <2>5. \A i \in 1 .. end :
           Written(b, off, Taken(SubSeq(d, off + 1, end), end - off))[i] = d[i]
    BY <2>4, FilledOn, Zenon
  <2>6. got = Written(b, off, Taken(SubSeq(d, off + 1, end), end - off))
    BY <1>6, <1>7, <1>8, <2>1, <2>2, <2>3
  <2> HIDE DEF got
  <2>7. QED
    BY <1>8, <2>3, <2>5, <2>6 DEF Begins
<1> HIDE DEF got
<1>10. cli'.buf = got /\ cli'.tlen = cli.tlen
  <2> HIDE DEF filled
  <2>1. QED
    BY <1>4, <1>5 DEF CSuccess, ClientRec
<1>11. Len(d) <= Len(got)
  BY <1>1, <1>3, <1>8
<1>12. SubSeq(got, 1, Len(d)) = d
  BY <1>3, <1>9, <1>11, WholeInFront
<1>13. QED
  BY <1>8, <1>10, <1>12

\* A request under way is busy.
UnderWayBusy == cli.state # "IDLE" => cli.status = "busy"

\* The status is set together with the state, at either end of a request.
LEMMA BusyStep == SdoInv /\ UnderWayBusy /\ [Next]_vars => UnderWayBusy'
<1> SUFFICES ASSUME SdoInv, UnderWayBusy, [Next]_vars
             PROVE  UnderWayBusy'
  OBVIOUS
<1>t. cli \in ClientRec
  BY DEF SdoInv, MemoryInv, ClientOk
<1>1. CASE Ask
  BY <1>t, <1>1 DEF Ask, StartDownload, StartUpload, ClientRec, UnderWayBusy
<1>2. CASE ClientExpires
  BY <1>t, <1>2 DEF ClientExpires, ClientTimeout, CAborted, ClientRec, UnderWayBusy
<1>3. CASE ClientStep
  <2>1. CASE CReceiveAbort
    BY <1>t, <2>1 DEF CReceiveAbort, ClientRec, UnderWayBusy
  <2>2. CASE DownloadInitiateRequest
    BY <1>t, <2>2 DEF DownloadInitiateRequest, CRequest, CInitTransfer, ClientRec, UnderWayBusy
  <2>3. CASE DownloadInitiateResponse
    BY <1>t, <2>3 DEF DownloadInitiateResponse, CReject, CAborted, CSuccess, DownloadSegment,
       CRequest, ClientRec, UnderWayBusy
  <2>4. CASE DownloadSegmentResponse
    BY <1>t, <2>4 DEF DownloadSegmentResponse, CReject, CAborted, CSuccess, DownloadSegment,
       Flipped, CRequest, ClientRec, UnderWayBusy
  <2>5. CASE UploadInitiateRequest
    BY <1>t, <2>5 DEF UploadInitiateRequest, CRequest, CInitTransfer, ClientRec, UnderWayBusy
  <2>6. CASE UploadInitiateResponse
    BY <1>t, <2>6 DEF UploadInitiateResponse, CReject, CAborted, CSuccess, AskSegment,
       CRequest, ClientRec, UnderWayBusy
  <2>7. CASE UploadSegmentResponse
    BY <1>t, <2>7 DEF UploadSegmentResponse, CReject, CAborted, CSuccess, AskSegment, Flipped,
       CRequest, ClientRec, UnderWayBusy
  <2>8. QED
    BY <1>3, <2>1, <2>2, <2>3, <2>4, <2>5, <2>6, <2>7 DEF ClientStep, ClientHandle
<1>4. CASE ToClient
  BY <1>t, <1>4 DEF ToClient, ClientDeliver, ClientRec, UnderWayBusy
<1>5. CASE UNCHANGED cli
  BY <1>5 DEF UnderWayBusy
<1>6. QED
  BY <1>1, <1>2, <1>3, <1>4, <1>5
     DEF Next, ServerStep, ServerExpires, ToServer, LoseFrame, vars

\* For any object dictionary and any loss of frames: while time-outs are prompt, an upload
\* that reports success leaves the bytes of the object in the caller's buffer.
THEOREM UploadsAreExact == Spec => UploadExact
<1> DEFINE Exact == (prompt /\ cli.state \in {"UL_RSP", "UL_SEG"} /\ cli'.status = "success") =>
                       SubSeq(cli'.buf, 1, cli'.tlen) = data[cli.mux]
<1>1. Init => SdoInv /\ UnderWayBusy
  BY InitInStep DEF Init, ClientInit, UnderWayBusy
<1>2. SdoInv /\ UnderWayBusy /\ [Next]_vars => (SdoInv /\ UnderWayBusy)'
  BY SdoStep, BusyStep
<1>3. SdoInv /\ UnderWayBusy /\ [Next]_vars => [Exact]_vars
  <2> SUFFICES ASSUME SdoInv, UnderWayBusy, [Next]_vars, prompt,
                      cli.state \in {"UL_RSP", "UL_SEG"}, cli'.status = "success"
               PROVE  SubSeq(cli'.buf, 1, cli'.tlen) = data[cli.mux]
    OBVIOUS
  <2>t. MemoryInv /\ InStep /\ cli \in ClientRec /\ cli.status = "busy"
    BY DEF SdoInv, MemoryInv, ClientOk, UnderWayBusy
  <2>1. ~ UNCHANGED cli
    BY <2>t
  <2>2. ~ToClient
    BY <2>t DEF ToClient, ClientDeliver, ClientRec
  <2>3. ~Ask /\ ~ClientExpires
    BY <2>t DEF Ask, StartDownload, StartUpload, ClientExpires, ClientTimeout, CAborted,
       ClientRec
  <2>4. ClientStep
    BY <2>1, <2>2, <2>3 DEF Next, ServerStep, ServerExpires, ToServer, LoseFrame, vars
  <2>5. UploadInitiateResponse \/ UploadSegmentResponse
    <3>1. ~CReceiveAbort
      BY <2>t DEF CReceiveAbort, ClientRec
    <3>2. QED
      BY <2>4, <3>1 DEF ClientStep, ClientHandle, DownloadInitiateRequest,
         DownloadInitiateResponse, DownloadSegmentResponse, UploadInitiateRequest
  <2>6. QED
    BY <2>t, <2>5, ShortUploadExact, LastSegmentExact
<1>4. QED
  BY <1>1, <1>2, <1>3, PTL DEF Spec, UploadExact


------------------------------------------------------------------------------
(* For the objects of Atomic, and callers who ask for whole objects, the     *)
(* transfers implement SdoAtomic (WholeObjects).                             *)

\* The caller's memory is that of the request under way.
OwnBuffer == cli.state # "IDLE" => cli.mux \in Mux /\ Len(cli.buf) \in ReqLen[cli.mux]

\* How a step of the client looks from the caller's side.
GoesOn    == /\ cli.state # "IDLE" /\ cli'.state # "IDLE" /\ cli'.buf = cli.buf
             /\ cli.state \in {"DL_REQ", "DL_RSP", "DL_SEG"}
                   <=> cli'.state \in {"DL_REQ", "DL_RSP", "DL_SEG"}
Fills     == cli.state = "UL_SEG" /\ cli'.state = "UL_SEG"
Aborts    == /\ cli.state # "IDLE" /\ cli'.state = "IDLE" /\ cli'.status = "abort"
             /\ cli'.buf = cli.buf
Downloads == /\ cli.state \in {"DL_RSP", "DL_SEG"} /\ cli'.state = "IDLE"
             /\ cli'.status = "success" /\ cli'.buf = cli.buf
             /\ cli.mux \in Writable /\ SameStart(Shown(cli.mux))
Uploads   == /\ cli.state \in {"UL_RSP", "UL_SEG"} /\ cli'.state = "IDLE"
             /\ cli'.status = "success" /\ cli.mux \in Object \cap Readable
             /\ cli'.tlen <= Len(cli'.buf)
             /\ SubSeq(cli'.buf, 1, cli'.tlen) = data[cli.mux]

\* Requests go out with the caller's memory as it is.
LEMMA RequestsGoOn ==
    ASSUME MemoryInv, DownloadInitiateRequest \/ UploadInitiateRequest
    PROVE  GoesOn /\ cli'.mux = cli.mux
<1>t. cli \in ClientRec
  BY DEF MemoryInv, ClientOk
<1>1. CASE DownloadInitiateRequest
  BY <1>t, <1>1 DEF DownloadInitiateRequest, CRequest, CInitTransfer, ClientRec, GoesOn
<1>2. CASE UploadInitiateRequest
  BY <1>t, <1>2 DEF UploadInitiateRequest, CRequest, CInitTransfer, ClientRec, GoesOn
<1>3. QED
  BY <1>1, <1>2

\* A download goes on segment by segment, or has taken effect, or is aborted.
LEMMA DownloadAnswers ==
    ASSUME MemoryInv, InStep, DownloadInitiateResponse \/ DownloadSegmentResponse
    PROVE  (GoesOn \/ Aborts \/ Downloads) /\ cli'.mux = cli.mux
<1>t. cli \in ClientRec /\ ClientOk(cli)
  BY DEF MemoryInv, ClientOk
<1>a. ASSUME CReject
      PROVE  cli'.state = "IDLE" /\ cli'.status = "abort" /\ cli'.buf = cli.buf
             /\ cli'.mux = cli.mux
  BY <1>t, <1>a DEF CReject, CAborted, ClientRec
<1>1. CASE DownloadInitiateResponse
  <2>1. cli.state = "DL_RSP"
    BY <1>1 DEF DownloadInitiateResponse
  <2>2. CASE CReject
    BY <1>a, <2>1, <2>2 DEF Aborts
  <2>3. CASE cli.rx.cs = "dlInitRsp" /\ cli.tlen <= ExpSize /\ cli' = CSuccess(cli)
    <3>1. cli.rx \in Given
      BY <2>3 DEF NoFrame, Given
    <3>2. cli.mux \in Writable /\ SameStart(Shown(cli.mux))
      BY <2>1, <2>3, <3>1 DEF InStep, DownOpen
    <3>3. cli'.state = "IDLE" /\ cli'.status = "success" /\ cli'.buf = cli.buf
          /\ cli'.mux = cli.mux
      BY <1>t, <2>3 DEF CSuccess, ClientRec
    <3>4. QED
      BY <2>1, <3>2, <3>3 DEF Downloads
  <2>4. CASE DownloadSegment(cli)
    BY <1>t, <2>1, <2>4 DEF DownloadSegment, CRequest, ClientRec, GoesOn
  <2>5. QED
    BY <1>1, <2>2, <2>3, <2>4 DEF DownloadInitiateResponse
<1>2. CASE DownloadSegmentResponse
  <2>1. cli.state = "DL_SEG"
    BY <1>2 DEF DownloadSegmentResponse
  <2>t. Flipped(cli) \in ClientRec /\ Flipped(cli).buf = cli.buf /\ Flipped(cli).mux = cli.mux
    BY <1>t DEF Flipped, ClientRec
  <2>2. CASE CReject
    BY <1>a, <2>1, <2>2 DEF Aborts
  <2>3. CASE cli.rx.cs = "dlSegRsp" /\ cli.tlen <= cli.off /\ cli' = CSuccess(Flipped(cli))
    <3>1. cli.rx \in Given
      BY <2>3 DEF NoFrame, Given
    <3>2. cli.off = cli.tlen
      BY <1>t, <2>1, <2>3 DEF ClientOk, ClientRec
    <3>3. cli.mux \in Writable /\ SameStart(Shown(cli.mux))
      BY <2>1, <2>3, <3>1, <3>2 DEF InStep, DownLock
    <3>4. cli'.state = "IDLE" /\ cli'.status = "success" /\ cli'.buf = cli.buf
          /\ cli'.mux = cli.mux
      BY <2>t, <2>3 DEF CSuccess, ClientRec
    <3>5. QED
      BY <2>1, <3>3, <3>4 DEF Downloads
  <2>4. CASE DownloadSegment(Flipped(cli))
    <3>1. PICK c \in ClientRec : c = Flipped(cli)
      BY <2>t
    <3>2. cli'.state = "DL_SEG" /\ cli'.buf = c.buf /\ cli'.mux = c.mux
      BY <2>4, <3>1 DEF DownloadSegment, CRequest, ClientRec
    <3>3. QED
      BY <2>1, <2>t, <3>1, <3>2 DEF GoesOn
  <2>5. QED
    BY <1>2, <2>2, <2>3, <2>4 DEF DownloadSegmentResponse
<1>3. QED
  BY <1>1, <1>2

\* An upload goes on segment by segment, or is complete, or is aborted.
LEMMA UploadAnswers ==
    ASSUME MemoryInv, MemoryInv', InStep, cli.status = "busy",
           UploadInitiateResponse \/ UploadSegmentResponse
    PROVE  /\ GoesOn \/ Fills \/ Aborts \/ Uploads
           /\ cli'.mux = cli.mux /\ Len(cli'.buf) = Len(cli.buf)
<1>t. cli \in ClientRec /\ ClientOk(cli) /\ cli.rx \in Frame /\ cli.rx.size \in Nat
      /\ cli.rx.bytes \in Seq(Cells) /\ cli.buf \in Seq(Cells)
  BY DEF MemoryInv, ClientOk, ClientRec, Frame
<1>a. ASSUME CReject
      PROVE  cli'.state = "IDLE" /\ cli'.status = "abort" /\ cli'.buf = cli.buf
             /\ cli'.mux = cli.mux
  BY <1>t, <1>a DEF CReject, CAborted, ClientRec
<1>1. CASE UploadInitiateResponse
  <2> DEFINE n == cli.rx.size
             got == Written(cli.buf, 0, Taken(cli.rx.bytes, n))
             read == [cli EXCEPT !.buf = Written(@, 0, Taken(cli.rx.bytes, n)),
                                 !.tlen = n, !.off = n]
  <2>1. cli.state = "UL_RSP"
    BY <1>1 DEF UploadInitiateResponse
  <2>2. CASE CReject
    BY <1>a, <2>1, <2>2 DEF Aborts
  <2>3. CASE cli.rx.cs = "ulInitRsp" /\ n <= Len(cli.buf) /\ cli' = CSuccess(read)
    <3>1. got \in Seq(Cells) /\ Len(got) = Len(cli.buf)
      <4>1. Taken(cli.rx.bytes, n) \in Seq(Cells)
        BY <1>t, TakenType
      <4>2. QED
        BY <1>t, <4>1, WrittenType
    <3>2. read \in ClientRec /\ read.buf = got /\ read.tlen = n /\ read.mux = cli.mux
      BY <1>t, <3>1 DEF ClientRec
    <3> HIDE DEF read, got
    <3>3. cli'.state = "IDLE" /\ cli'.status = "success" /\ cli'.buf = got /\ cli'.tlen = n
          /\ cli'.mux = cli.mux
      BY <2>3, <3>2 DEF CSuccess, ClientRec
    <3>4. SubSeq(cli'.buf, 1, cli'.tlen) = data[cli.mux]
      BY <1>1, <3>3, ShortUploadExact
    <3>5. cli.mux \in Object \cap Readable
      <4>1. cli.rx \in Given
        BY <2>3 DEF NoFrame, Given
      <4>2. QED
        BY <2>1, <2>3, <4>1 DEF InStep, UpOpen
    <3>6. QED
      BY <2>1, <2>3, <3>1, <3>3, <3>4, <3>5 DEF Uploads
  <2>4. CASE cli' = [CAborted EXCEPT !.tlen = n]
    BY <1>t, <2>1, <2>4 DEF CAborted, ClientRec, Aborts
  <2>5. CASE AskSegment([cli EXCEPT !.tlen = n, !.off = 0])
    BY <1>t, <2>1, <2>5 DEF AskSegment, CRequest, ClientRec, GoesOn
  <2>6. \/ CReject
        \/ cli.rx.cs = "ulInitRsp" /\ n <= Len(cli.buf) /\ cli' = CSuccess(read)
        \/ cli' = [CAborted EXCEPT !.tlen = n]
        \/ AskSegment([cli EXCEPT !.tlen = n, !.off = 0])
    BY <1>1 DEF UploadInitiateResponse
  <2>7. QED
    BY <2>2, <2>3, <2>4, <2>5, <2>6
<1>2. CASE UploadSegmentResponse
  <2> DEFINE n == SegmentEnd(cli) - cli.off
             got == Written(cli.buf, cli.off, Taken(cli.rx.bytes, n))
             filled == [Flipped(cli) EXCEPT !.buf = Written(@, cli.off, Taken(cli.rx.bytes, n)),
                                            !.off = cli.off + n]
  <2>1. cli.state = "UL_SEG" /\ cli.off < cli.tlen /\ cli.tlen <= Len(cli.buf)
        /\ cli.off \in Nat /\ cli.tlen \in Nat
    BY <1>t, <1>2 DEF UploadSegmentResponse, ClientOk, ClientRec
  <2>2. n \in Nat /\ cli.off + n \in Nat
    BY <1>t, <2>1, SegmentEndType
  <2>3. got \in Seq(Cells) /\ Len(got) = Len(cli.buf)
    <3>1. Taken(cli.rx.bytes, n) \in Seq(Cells)
      BY <1>t, <2>2, TakenType
    <3>2. QED
      BY <1>t, <2>1, <3>1, WrittenType
  <2>4. /\ filled \in ClientRec /\ filled.buf = got /\ filled.mux = cli.mux
        /\ filled.tlen = cli.tlen
    <3>1. /\ Flipped(cli) \in ClientRec /\ Flipped(cli).buf = cli.buf
          /\ Flipped(cli).mux = cli.mux /\ Flipped(cli).tlen = cli.tlen
      BY <1>t DEF Flipped, ClientRec
    <3>2. QED
      BY <2>2, <2>3, <3>1 DEF ClientRec
  <2>5. \/ CReject
        \/ cli.rx.cs = "ulSegRsp" /\ cli' = CSuccess(filled)
        \/ AskSegment(filled)
    BY <1>2 DEF UploadSegmentResponse
  <2> HIDE DEF filled, got, n
  <2>6. CASE CReject
    BY <1>a, <2>1, <2>6 DEF Aborts
  <2>7. CASE cli.rx.cs = "ulSegRsp" /\ cli' = CSuccess(filled)
    <3>1. cli'.state = "IDLE" /\ cli'.status = "success" /\ cli'.buf = got
          /\ cli'.tlen = cli.tlen /\ cli'.mux = cli.mux
      BY <2>4, <2>7 DEF CSuccess, ClientRec
    <3>2. SubSeq(cli'.buf, 1, cli'.tlen) = data[cli.mux]
      BY <1>2, <3>1, LastSegmentExact
    <3>3. cli.mux \in Object \cap Readable
      BY <2>1 DEF InStep, UpLock
    <3>4. QED
      BY <2>1, <2>3, <3>1, <3>2, <3>3 DEF Uploads
  <2>8. CASE AskSegment(filled)
    <3>1. cli'.state = "UL_SEG" /\ cli'.buf = got /\ cli'.mux = cli.mux
      BY <2>4, <2>8 DEF AskSegment, CRequest, ClientRec
    <3>2. QED
      BY <2>1, <2>3, <3>1 DEF Fills
  <2>9. QED
    BY <2>5, <2>6, <2>7, <2>8
<1>3. QED
  BY <1>1, <1>2

\* Each handler of the client goes on, fills the caller's memory, or ends the request.
LEMMA ClientLooks ==
    ASSUME MemoryInv, MemoryInv', InStep, cli.state # "IDLE" => cli.status = "busy",
           ClientHandle
    PROVE  /\ GoesOn \/ Fills \/ Aborts \/ Downloads \/ Uploads
           /\ cli'.mux = cli.mux /\ Len(cli'.buf) = Len(cli.buf)
<1>1. CASE CReceiveAbort
  <2>1. cli \in ClientRec
    BY DEF MemoryInv, ClientOk
  <2>2. QED
    BY <1>1, <2>1 DEF CReceiveAbort, ClientRec, Aborts
<1>2. CASE DownloadInitiateRequest \/ UploadInitiateRequest
  BY <1>2, RequestsGoOn DEF GoesOn
<1>3. CASE DownloadInitiateResponse \/ DownloadSegmentResponse
  BY <1>3, DownloadAnswers DEF GoesOn, Aborts, Downloads
<1>4. CASE UploadInitiateResponse \/ UploadSegmentResponse
  <2>1. cli.status = "busy"
    BY <1>4 DEF UploadInitiateResponse, UploadSegmentResponse
  <2>2. QED
    BY <1>4, <2>1, UploadAnswers
<1>5. QED
  BY <1>1, <1>2, <1>3, <1>4 DEF ClientHandle

\* What the objects show to a client.
View == [o \in Atomic |-> Shown(o)]

\* A step of the server shows nothing, or puts into effect what the client has sent.
Effect == \/ View' = View
          \/ /\ cli.state \in {"DL_RSP", "DL_SEG"} /\ cli.mux \in Atomic
             /\ View' = [View EXCEPT ![cli.mux] = cli.buf]

\* The application is asked about no more bytes than the object has.
ConfirmFits == prompt /\ srv.internal => Len(cli.buf) <= ObjLen[srv.obj]

\* The memories behind an object keep its size, so what it shows does too.
LEMMA ShownType ==
    ASSUME data \in Memory, stage \in Memory, NEW o \in Object
    PROVE  Shown(o) \in Seq(Cells) /\ Len(Shown(o)) = ObjLen[o]
  BY DEF Memory, Shown

\* A copy of bytes shows in its object alone, and there only where the object has no
\* memory to collect them in.
LEMMA StoreShows ==
    ASSUME data \in Memory, stage \in Memory, NEW o \in Object, NEW off, NEW b, Store(o, off, b)
    PROVE  /\ \A q \in Object \ {o} : Shown(q)' = Shown(q)
           /\ Backing[o] \in {"temp", "ext"} => Shown(o)' = Shown(o)
<1>1. /\ \A q \in Object \ {o} : data'[q] = data[q] /\ stage'[q] = stage[q]
      /\ IsStaged(o) => data'[o] = data[o]
  BY DEF Store, Memory
<1>2. QED
  BY <1>1 DEF Shown, IsStaged

\* So do the last bytes, but those collected in p_temp_data are copied to p_data with them.
LEMMA StoreLastShows ==
    ASSUME data \in Memory, stage \in Memory, NEW o \in Object, NEW off, NEW b,
           StoreLast(o, off, b)
    PROVE  /\ \A q \in Object \ {o} : Shown(q)' = Shown(q)
           /\ Backing[o] = "ext" => Shown(o)' = Shown(o)
<1>1. CASE Backing[o] = "temp"
  <2>1. \A q \in Object \ {o} : data'[q] = data[q] /\ stage'[q] = stage[q]
    BY <1>1 DEF StoreLast, Memory
  <2>2. QED
    BY <1>1, <2>1 DEF Shown
<1>2. CASE Backing[o] # "temp"
  BY <1>2, StoreShows DEF StoreLast
<1>3. QED
  BY <1>1, <1>2

\* An object that shows the client's buffer from the start, and has its length, shows it.
LEMMA TakesEffect ==
    ASSUME MemoryInv, MemoryInv', UNCHANGED cli, WholeObjects, OwnBuffer,
           cli.state \in {"DL_RSP", "DL_SEG"}, NEW o \in Object, o = cli.mux, o \in Writable,
           Len(cli.buf) <= ObjLen[o], \A q \in Object \ {o} : Shown(q)' = Shown(q),
           o \in Atomic => Shown(o)' = Shown(o) \/ SameStart(Shown(o))'
    PROVE  Effect
<1>1. CASE o \notin Atomic \/ Shown(o)' = Shown(o)
  BY <1>1 DEF Effect, View, Atomic
<1>2. CASE o \in Atomic /\ SameStart(Shown(o))'
  <2>1. Len(cli.buf) \in ReqLen[o]
    BY DEF OwnBuffer
  <2>2. ObjLen[o] <= Len(cli.buf) /\ cli.buf \in Seq(Cells) /\ Len(cli.buf) \in Nat
        /\ ObjLen[o] \in Nat
    BY <1>2, <2>1, ObjectAssumption, LenProperties DEF WholeObjects, MemoryInv, ClientOk, ClientRec
  <2>3. PICK s \in Seq(Cells) : s = Shown(o)' /\ Len(s) = ObjLen[o]
    BY DEF MemoryInv, Memory, Shown
  <2>4. \A i \in 1 .. Len(cli.buf) : s[i] = cli.buf[i]
    BY <1>2, <2>3 DEF SameStart
  <2>5. Len(s) = Len(cli.buf)
    BY <2>2, <2>3
  <2>6. s = cli.buf
    BY <2>2, <2>4, <2>5, SeqEqual
  <2>7. View' = [View EXCEPT ![o] = cli.buf]
    BY <1>2, <2>3, <2>6 DEF View, Atomic
  <2>8. QED
    BY <1>2, <2>7 DEF Effect
<1>3. QED
  BY <1>1, <1>2

\* Bytes complete a download: they show now, or when the application agrees.
LEMMA LastBytesEffect ==
    ASSUME MemoryInv, MemoryInv', UNCHANGED cli, WholeObjects, OwnBuffer,
           cli.state \in {"DL_RSP", "DL_SEG"}, NEW o \in Object, o = cli.mux, o \in Writable,
           Len(cli.buf) <= ObjLen[o], NEW off \in Nat, NEW b \in Seq(Cells),
           Len(cli.buf) <= off + Len(b), StoreLast(o, off, b),
           Begins(Target(o), cli.buf, off), Follows(b, cli.buf, off, Len(cli.buf))
    PROVE  Effect
<1>1. data \in Memory /\ stage \in Memory /\ cli.buf \in Seq(Cells)
  BY DEF MemoryInv, ClientOk, ClientRec
<1>2. /\ \A q \in Object \ {o} : Shown(q)' = Shown(q)
      /\ Backing[o] = "ext" => Shown(o)' = Shown(o)
  BY <1>1, StoreLastShows
<1>3. PICK n \in Nat : n = Len(cli.buf)
  BY <1>1, LenProperties
<1>4. /\ SameStart(Target(o))'
      /\ ~HasExt(o) => SameStart(Shown(o))'
  BY <1>1, <1>3, StoreLastHolds
<1>5. Backing[o] \in {"command", "handle"} => Shown(o)' = Target(o)'
  BY DEF Shown, Target, IsStaged
<1>6. Backing[o] \in {"command", "handle"} => SameStart(Shown(o))'
  BY <1>4, <1>5 DEF SameStart
<1>7. o \in Atomic => Shown(o)' = Shown(o) \/ SameStart(Shown(o))'
  BY <1>2, <1>4, <1>6 DEF HasExt
<1>8. QED
  BY <1>2, <1>7, TakesEffect

\* The first frame of a download brings all of it or none
\* (CO_SDOserver_download_initiate_response_handle).
LEMMA BeginDownloadEffect ==
    ASSUME MemoryInv, MemoryInv', InStep, UNCHANGED cli, WholeObjects, OwnBuffer, BeginDownload
    PROVE  Effect /\ (srv'.internal => srv'.obj = cli.mux /\ Len(cli.buf) <= ObjLen[cli.mux])
<1> DEFINE s == [Heard EXCEPT !.obj = srv.rx.mux, !.state = "DL_RSP"]
           f == srv.rx
           begun == [s EXCEPT !.toggle = 0, !.off = 0, !.tlen = f.size]
           answer == [NoFrame EXCEPT !.cs = "dlInitRsp", !.mux = f.mux]
           whole == [begun EXCEPT !.off = f.size]
<1>t. srv \in ServerRec /\ f \in Frame
  BY DEF MemoryInv, ServerOk, ServerRec
<1>1. ~srv.internal /\ cli.state = "DL_RSP" /\ f.mux = cli.mux
      /\ IF cli.tlen <= ExpSize
         THEN f.last /\ f.size = ExpCount(cli.tlen) /\ f.bytes = cli.buf
         ELSE ~f.last /\ f.size = cli.tlen
  BY FirstTurn
<1>2. /\ cli.mux \in Object /\ cli.mux \in Writable
      /\ cli.tlen = Len(cli.buf) /\ cli.buf \in Seq(Cells) /\ cli.tlen \in Nat
  BY FirstTurn
<1>3. s \in ServerRec /\ s.obj = cli.mux /\ s.rx = f /\ s.state = "DL_RSP" /\ ~s.internal
  BY <1>t, <1>1, <1>2, HeardKept DEF ServerRec, ServerStates
<1>4. InitDownload(s)
  BY <1>1 DEF BeginDownload
<1>5. f.size \in Nat /\ f.mux \in Mux \union {NoMux}
  BY <1>t DEF Frame
<1>6. /\ begun \in ServerRec /\ ~begun.internal /\ begun.obj = cli.mux
      /\ whole \in ServerRec /\ ~whole.internal /\ whole.obj = cli.mux
  BY <1>3, <1>5 DEF ServerRec
<1>7. answer \in Frame
  BY <1>5, EmptyFrames DEF Frame, NoFrame, Commands
<1>8. \/ SReject(begun) /\ UNCHANGED memVars
      \/ /\ f.last /\ Fits(cli.mux, f.size)
         /\ StoreLast(cli.mux, 0, Taken(f.bytes, f.size)) /\ Complete(whole, answer)
      \/ Answer(Awaiting(begun, "DL_SEG"), answer) /\ UNCHANGED memVars
  BY <1>3, <1>4 DEF InitDownload
<1> HIDE DEF s, begun, whole, answer
<1>9. CASE SReject(begun) /\ UNCHANGED memVars
  <2>1. ~srv'.internal
    BY <1>6, <1>9, RejectFields
  <2>2. QED
    BY <1>9, <2>1 DEF Effect, View, Shown, memVars
<1>10. CASE Answer(Awaiting(begun, "DL_SEG"), answer) /\ UNCHANGED memVars
  <2>1. Awaiting(begun, "DL_SEG") \in ServerRec /\ ~Awaiting(begun, "DL_SEG").internal
    BY <1>6 DEF Awaiting, ServerRec, ServerStates
  <2>2. ~srv'.internal
    BY <1>7, <1>10, <2>1, AnswerFields
  <2>3. QED
    BY <1>10, <2>2 DEF Effect, View, Shown, memVars
<1>11. CASE /\ f.last /\ Fits(cli.mux, f.size)
            /\ StoreLast(cli.mux, 0, Taken(f.bytes, f.size)) /\ Complete(whole, answer)
  <2>1. cli.tlen <= ExpSize /\ f.bytes = cli.buf /\ f.size = ExpCount(Len(cli.buf))
    BY <1>1, <1>2, <1>11
  <2>2. PICK b \in Seq(Cells) : b = Taken(f.bytes, f.size)
    BY <1>2, <2>1, FirstBytes
  <2>3. /\ Len(cli.buf) <= f.size /\ Len(cli.buf) <= 0 + Len(b)
        /\ Follows(b, cli.buf, 0, Len(cli.buf))
    BY <1>2, <2>1, <2>2, FirstBytes
  <2>4. Len(cli.buf) <= ObjLen[cli.mux]
    BY <1>2, <1>5, <1>11, <2>3, ObjectAssumption DEF Fits
  <2>5. PICK o \in Object : o = cli.mux
    BY <1>2
  <2>6. StoreLast(o, 0, b)
    BY <1>11, <2>2, <2>5
  <2>7. Begins(Target(o), cli.buf, 0)
    BY DEF Begins
  <2>8. Effect
    BY <1>1, <1>2, <2>3, <2>4, <2>5, <2>6, <2>7, LastBytesEffect
  <2>9. srv'.internal => srv'.obj = cli.mux
    BY <1>6, <1>11, <2>4 DEF Complete, Settled, Awaiting, Answer, Done, ServerRec
  <2>10. QED
    BY <2>4, <2>8, <2>9
<1>12. QED
  BY <1>8, <1>9, <1>10, <1>11

\* A segment in the middle shows nothing, the last one all of the download
\* (CO_SDOserver_download_segment_handle).
LEMMA DownloadSegmentEffect ==
    ASSUME MemoryInv, MemoryInv', InStep, UNCHANGED cli, WholeObjects, OwnBuffer,
           ServerDownloadSegment
    PROVE  Effect /\ (srv'.internal => srv'.obj = cli.mux /\ Len(cli.buf) <= ObjLen[cli.mux])
<1> DEFINE bytes == Taken(srv.rx.bytes, SegmentCount)
           answer == [NoFrame EXCEPT !.cs = "dlSegRsp", !.toggle = srv.toggle]
           next == [Advanced EXCEPT !.toggle = 1 - srv.toggle]
<1>t. srv \in ServerRec /\ data \in Memory /\ stage \in Memory /\ ~srv.internal
      /\ srv.state = "DL_SEG"
  BY DEF MemoryInv, ServerOk, ServerDownloadSegment
<1>1. /\ srv.obj \in Object /\ srv.obj \in Writable
      /\ srv.off < srv.tlen /\ srv.tlen <= ObjLen[srv.obj]
      /\ srv.off \in Nat /\ srv.tlen \in Nat /\ ObjLen[srv.obj] \in Nat
      /\ srv.toggle \in {0, 1} /\ srv.rx.bytes \in Seq(Cells)
      /\ srv.rx.cs = "dlSeg" => SegmentTaken
  BY SegmentTurn
<1>2. /\ SegmentCount \in Nat
      /\ IsLastSegment => srv.off + SegmentCount = srv.tlen
      /\ Advanced \in ServerRec /\ Advanced.obj = srv.obj /\ ~Advanced.internal
  BY <1>t, <1>1, SegmentCountType
<1>3. answer \in Frame
  BY <1>1, EmptyFrames DEF Frame, NoFrame, Commands
<1>4. \/ SReject(Heard) /\ UNCHANGED memVars
      \/ /\ srv.rx.cs = "dlSeg" /\ IsLastSegment
         /\ StoreLast(srv.obj, srv.off, bytes) /\ Complete(Advanced, answer)
      \/ /\ srv.rx.cs = "dlSeg"
         /\ Store(srv.obj, srv.off, bytes) /\ Answer(Awaiting(next, "DL_SEG"), answer)
  BY DEF ServerDownloadSegment
<1> HIDE DEF bytes, answer, next
<1>5. CASE SReject(Heard) /\ UNCHANGED memVars
  <2>1. Heard \in ServerRec
    BY <1>t, HeardKept
  <2>2. ~srv'.internal
    BY <1>5, <2>1, RejectFields
  <2>3. QED
    BY <1>5, <2>2 DEF Effect, View, Shown, memVars
<1>6. PICK o \in Object : o = srv.obj
  BY <1>1
<1>7. CASE /\ srv.rx.cs = "dlSeg" /\ IsLastSegment
           /\ StoreLast(srv.obj, srv.off, bytes) /\ Complete(Advanced, answer)
  <2>1. SegmentTaken
    BY <1>1, <1>7
  <2>2. /\ cli.state = "DL_SEG" /\ o = cli.mux /\ srv.tlen = Len(cli.buf)
        /\ Begins(Target(o), cli.buf, srv.off)
        /\ bytes \in Seq(Cells) /\ Len(bytes) = SegmentCount
        /\ Follows(bytes, cli.buf, srv.off, srv.off + SegmentCount)
    BY <1>6, <2>1 DEF SegmentTaken, bytes
  <2>3. PICK off \in Nat : off = srv.off
    BY <1>1
  <2>4. PICK b \in Seq(Cells) : b = bytes
    BY <2>2
  <2>5. off + Len(b) = Len(cli.buf) /\ Len(cli.buf) <= ObjLen[o] /\ Len(cli.buf) \in Nat
    BY <1>1, <1>2, <1>6, <1>7, <2>2, <2>3, <2>4
  <2>6. srv.off + SegmentCount = Len(cli.buf)
    BY <1>2, <1>7, <2>2
  <2>7. /\ StoreLast(o, off, b) /\ Begins(Target(o), cli.buf, off)
        /\ Follows(b, cli.buf, off, Len(cli.buf))
    BY <1>6, <1>7, <2>2, <2>3, <2>4, <2>6
  <2>8. Len(cli.buf) <= off + Len(b) /\ o \in Writable
    BY <1>1, <1>6, <2>5
  <2>9. Effect
    BY <2>2, <2>5, <2>7, <2>8, LastBytesEffect
  <2>10. srv'.internal => srv'.obj = o
    BY <1>2, <1>6, <1>7 DEF Complete, Settled, Awaiting, Answer, Done, ServerRec
  <2>11. QED
    BY <2>2, <2>5, <2>9, <2>10
<1>8. CASE /\ srv.rx.cs = "dlSeg"
           /\ Store(srv.obj, srv.off, bytes) /\ Answer(Awaiting(next, "DL_SEG"), answer)
  <2>1. cli.state = "DL_SEG" /\ o = cli.mux /\ srv.tlen = cli.tlen /\ cli.tlen > ExpSize
        /\ cli.tlen = Len(cli.buf)
    BY <1>1, <1>6, <1>8 DEF SegmentTaken
  <2>2. /\ \A q \in Object \ {o} : Shown(q)' = Shown(q)
        /\ Backing[o] \in {"temp", "ext"} => Shown(o)' = Shown(o)
    BY <1>t, <1>6, <1>8, StoreShows
  <2>3. o \in Atomic => Backing[o] \in {"temp", "ext"}
    BY <1>1, <1>6, <2>1, SizeAssumption DEF Atomic
  <2>4. \A q \in Atomic : Shown(q)' = Shown(q)
    BY <2>2, <2>3 DEF Atomic
  <2>5. View' = View
    BY <2>4 DEF View, Atomic
  <2>6. ~srv'.internal
    <3>1. 1 - srv.toggle \in {0, 1}
      BY <1>1
    <3>2. next \in ServerRec /\ ~next.internal
      BY <1>2, <3>1 DEF next, ServerRec
    <3>3. Awaiting(next, "DL_SEG") \in ServerRec /\ ~Awaiting(next, "DL_SEG").internal
      BY <3>2 DEF Awaiting, ServerRec, ServerStates
    <3>4. QED
      BY <1>3, <1>8, <3>3, AnswerFields
  <2>7. QED
    BY <2>5, <2>6 DEF Effect
<1>9. QED
  BY <1>4, <1>5, <1>7, <1>8

\* What the application agrees to shows all of the download, and only then
\* (the confirmation half of both download handlers).
LEMMA ConfirmEffect ==
    ASSUME MemoryInv, MemoryInv', InStep, ConfirmFits, prompt, UNCHANGED cli, WholeObjects,
           OwnBuffer, ServerConfirm
    PROVE  Effect /\ (srv'.internal => srv'.obj = cli.mux /\ Len(cli.buf) <= ObjLen[cli.mux])
<1> DEFINE ended == [Done(Heard) EXCEPT !.internal = FALSE, !.timer = FALSE]
<1>t. srv \in ServerRec /\ data \in Memory /\ stage \in Memory
  BY DEF MemoryInv, ServerOk
<1>1. /\ srv.internal /\ cli.state \in {"DL_RSP", "DL_SEG"} /\ HasExt(srv.obj)
      /\ srv.obj = cli.mux /\ SameStart(Target(cli.mux)) /\ srv.obj \in Writable
  BY DEF ServerConfirm, InStep, OneUnderWay, ServerAt, Confirming
<1>2. Len(cli.buf) <= ObjLen[cli.mux] /\ cli.mux \in Object /\ cli.mux \in Writable
  BY <1>1, ObjectAssumption DEF ConfirmFits
<1>3. Heard \in ServerRec /\ Heard.obj = srv.obj /\ Heard.internal = srv.internal
  BY <1>t, HeardKept DEF Heard, ServerRec
<1>4. /\ stage' = stage
      /\ \/ data' = data
         \/ Backing[srv.obj] = "ext" /\ data' = [data EXCEPT ![srv.obj] = stage[srv.obj]]
  BY <1>1, <1>3 DEF ServerConfirm, Confirm, Confirms
<1>5. srv'.obj = cli.mux
  <2>1. ASSUME NEW s \in ServerRec, NEW f
        PROVE  /\ Settled(s).obj = s.obj
               /\ SReject(s) => srv'.obj = s.obj
               /\ Answer([Done(s) EXCEPT !.internal = FALSE, !.timer = FALSE], f) =>
                     srv'.obj = s.obj
    BY DEF ServerRec, Settled, SReject, SAborted, Answer, Done
  <2>2. \/ srv' = Settled(Heard)
        \/ SReject(Heard)
        \/ Answer(ended, Heard.tx)
    BY <1>1, <1>3 DEF ServerConfirm, Confirm
  <2>3. QED
    BY <1>1, <1>3, <2>1, <2>2
<1>6. PICK o \in Object : o = cli.mux
  BY <1>2
<1>7. \A q \in Object \ {o} : Shown(q)' = Shown(q)
  BY <1>t, <1>1, <1>4, <1>6 DEF Shown, Memory
<1>8. Shown(o)' = Shown(o) \/ SameStart(Shown(o))'
  <2>1. CASE data' = data
    BY <1>4, <2>1 DEF Shown
  <2>2. CASE Backing[o] = "ext" /\ data' = [data EXCEPT ![o] = stage[o]]
    <3>1. Shown(o)' = Target(o)
      BY <1>t, <2>2 DEF Shown, Target, IsStaged, Memory
    <3>2. QED
      BY <1>1, <1>6, <3>1 DEF SameStart
  <2>3. QED
    BY <1>1, <1>4, <1>6, <2>1, <2>2
<1>9. Effect
  BY <1>1, <1>2, <1>6, <1>7, <1>8, TakesEffect
<1>10. QED
  BY <1>2, <1>5, <1>9

\* No handler of the server shows anything but what the client has sent.
LEMMA ServerEffect ==
    ASSUME MemoryInv, MemoryInv', InStep, ConfirmFits, prompt, UNCHANGED cli, WholeObjects,
           OwnBuffer, ServerHandle
    PROVE  Effect /\ (srv'.internal => srv'.obj = cli.mux /\ Len(cli.buf) <= ObjLen[cli.mux])
<1>t. srv \in ServerRec
  BY DEF MemoryInv, ServerOk
<1>1. CASE BeginDownload
  BY <1>1, BeginDownloadEffect
<1>2. CASE ServerDownloadSegment
  BY <1>2, DownloadSegmentEffect
<1>3. CASE ServerConfirm
  BY <1>3, ConfirmEffect
<1>4. ASSUME UNCHANGED memVars
      PROVE  Effect
  BY <1>4 DEF Effect, View, Shown, memVars
<1>5. ASSUME srv.internal, InStep
      PROVE  srv.obj = cli.mux /\ Len(cli.buf) <= ObjLen[cli.mux]
  BY <1>5 DEF InStep, Confirming, ConfirmFits
<1>6. CASE SReceiveAbort \/ ServerRest
  <2>1. srv'.obj = srv.obj /\ srv'.internal = srv.internal
    BY <1>t, <1>6 DEF SReceiveAbort, ServerRest, Settled, ServerRec
  <2>2. QED
    BY <1>4, <1>5, <1>6, <2>1 DEF SReceiveAbort, ServerRest
<1>7. CASE RefuseFirst
  <2>1. ~srv'.internal
    BY <1>t, <1>7 DEF RefuseFirst, SAborted, ServerRec
  <2>2. QED
    BY <1>4, <1>7, <2>1 DEF RefuseFirst
<1>8. CASE BeginUpload \/ ServerUploadSegment
  <2>1. UNCHANGED memVars
    BY <1>8 DEF BeginUpload, InitUpload, ServerUploadSegment
  <2>2. ~srv'.internal
    <3>1. ~srv.internal
      BY <1>8 DEF BeginUpload, ServerUploadSegment, InStep, ServerAt
    <3>2. ASSUME NEW s \in ServerRec, ~s.internal, NEW f
          PROVE  /\ SReject(s) => ~srv'.internal
                 /\ Answer(Done(s), f) => ~srv'.internal
                 /\ Answer(Awaiting(s, "UL_SEG"), f) => ~srv'.internal
      BY <3>2 DEF ServerRec, SReject, SAborted, Answer, Settled, Done, Awaiting
    <3>3. CASE BeginUpload
      <4> DEFINE s == [Heard EXCEPT !.obj = srv.rx.mux, !.state = "UL_RSP"]
                 begun == [s EXCEPT !.toggle = 0, !.off = 0, !.tlen = ObjLen[s.obj]]
                 whole == [begun EXCEPT !.off = ObjLen[s.obj]]
      <4>1. srv.rx.mux \in Object
        BY <3>3, ObjectAssumption DEF BeginUpload, Admitted
      <4>2. s \in ServerRec /\ ~s.internal /\ s.obj = srv.rx.mux
        BY <1>t, <3>1, <4>1, HeardKept DEF ServerRec, ServerStates
      <4>3. begun \in ServerRec /\ ~begun.internal /\ whole \in ServerRec /\ ~whole.internal
        BY <4>1, <4>2, ObjectAssumption DEF ServerRec
      <4>4. \/ \E f : Answer(Done(whole), f)
            \/ \E f : Answer(Awaiting(begun, "UL_SEG"), f)
        BY <3>3 DEF BeginUpload, InitUpload
      <4> HIDE DEF s, begun, whole
      <4>5. QED
        BY <3>2, <4>3, <4>4
    <3>4. CASE ServerUploadSegment
      <4> DEFINE next == [Advanced EXCEPT !.toggle = 1 - srv.toggle]
      <4>1. Heard \in ServerRec /\ ~Heard.internal
        BY <1>t, <3>1, HeardKept DEF Heard, ServerRec
      <4>2. next \in ServerRec /\ ~next.internal
        <5>1. srv.off < srv.tlen /\ srv.off \in Nat /\ srv.tlen \in Nat /\ srv.toggle \in {0, 1}
          BY <3>4 DEF ServerUploadSegment, MemoryInv, ServerOk, ServerRec
        <5>2. srv.off + SegmentCount \in Nat /\ 1 - srv.toggle \in {0, 1}
          BY <5>1, SizeAssumption DEF SegmentCount, IsLastSegment
        <5>3. QED
          BY <4>1, <5>2 DEF Advanced, ServerRec
      <4>3. \/ SReject(Heard)
            \/ \E f : Answer(Done(next), f)
            \/ \E f : Answer(Awaiting(next, "UL_SEG"), f)
        BY <3>4 DEF ServerUploadSegment
      <4> HIDE DEF next
      <4>4. QED
        BY <3>2, <4>1, <4>2, <4>3
    <3>5. QED
      BY <1>8, <3>3, <3>4
  <2>3. QED
    BY <1>4, <2>1, <2>2
<1>9. QED
  BY <1>1, <1>2, <1>3, <1>6, <1>7, <1>8 DEF ServerHandle

\* The inductive invariant of the refinement
AtomicInv == SdoInv /\ UnderWayBusy /\ (prompt => OwnBuffer /\ ConfirmFits)

\* What AtomicInv says where time-outs are prompt
LEMMA PromptFacts ==
    ASSUME AtomicInv, prompt
    PROVE  /\ MemoryInv /\ InStep /\ OwnBuffer /\ ConfirmFits /\ cli \in ClientRec
           /\ srv \in ServerRec /\ (cli.state # "IDLE" => cli.status = "busy")
  BY DEF AtomicInv, SdoInv, UnderWayBusy, MemoryInv, ClientOk, ServerOk

\* A request takes the memory the caller gives it.
LEMMA AskLooks ==
    ASSUME MemoryInv, Ask
    PROVE  /\ cli.state = "IDLE" /\ cli'.state \in {"DL_REQ", "UL_REQ"}
           /\ cli'.mux \in Mux /\ Len(cli'.buf) \in ReqLen[cli'.mux]
<1>t. cli \in ClientRec /\ used \subseteq Mux
  BY DEF MemoryInv, ClientOk
<1>1. PICK m \in used : \E n \in ReqLen[m] : (\E p \in Payload : StartDownload(m, n, p))
                                              \/ StartUpload(m, n)
  BY DEF Ask
<1>2. PICK n \in ReqLen[m] : (\E p \in Payload : StartDownload(m, n, p)) \/ StartUpload(m, n)
  BY <1>1
<1>3. m \in Mux /\ n \in Nat
  BY <1>t, ReqLenAssumption
<1>4. CASE \E p \in Payload : StartDownload(m, n, p)
  <2>1. PICK p \in Payload : StartDownload(m, n, p)
    BY <1>4
  <2>2. Len(Bytes(p, n)) = n
    BY <1>3, BytesType
  <2>3. QED
    BY <1>t, <1>3, <2>1, <2>2 DEF StartDownload, ClientRec
<1>5. CASE StartUpload(m, n)
  <2>1. Len([i \in 1 .. n |-> Junk]) = n
    BY <1>3, JunkType
  <2>2. QED
    BY <1>t, <1>3, <1>5, <2>1 DEF StartUpload, ClientRec
<1>6. QED
  BY <1>2, <1>4, <1>5

\* A frame delivered to the client leaves its request as it is.
LEMMA DeliveryLooks ==
    ASSUME MemoryInv, ToClient
    PROVE  /\ cli'.state = cli.state /\ cli'.status = cli.status /\ cli'.buf = cli.buf
           /\ cli'.mux = cli.mux
  BY DEF MemoryInv, ClientOk, ToClient, ClientDeliver, ClientRec

\* A time-out aborts the request.
LEMMA ExpiryLooks ==
    ASSUME MemoryInv, ClientExpires
    PROVE  Aborts /\ cli'.mux = cli.mux
  BY DEF MemoryInv, ClientOk, ClientExpires, ClientTimeout, CAborted, ClientRec, Aborts

\* Every step keeps the request's memory, or begins a request with one of its own.
LEMMA OwnBufferStep ==
    ASSUME AtomicInv, SdoInv', prompt, [Next]_vars
    PROVE  OwnBuffer'
<1>t. MemoryInv /\ MemoryInv' /\ InStep /\ OwnBuffer
      /\ (cli.state # "IDLE" => cli.status = "busy")
  BY PromptFacts DEF AtomicInv, SdoInv
<1>k. ASSUME cli'.mux = cli.mux, Len(cli'.buf) = Len(cli.buf), cli.state # "IDLE"
      PROVE  OwnBuffer'
  BY <1>t, <1>k DEF OwnBuffer
<1>1. CASE Ask
  BY <1>t, <1>1, AskLooks DEF OwnBuffer
<1>2. CASE ClientStep
  <2>1. ClientHandle
    BY <1>2 DEF ClientStep
  <2>2. cli'.mux = cli.mux /\ Len(cli'.buf) = Len(cli.buf)
    BY <1>t, <2>1, ClientLooks
  <2>3. cli.state # "IDLE"
    BY <2>1 DEF ClientHandle, CReceiveAbort, DownloadInitiateRequest, DownloadInitiateResponse,
       DownloadSegmentResponse, UploadInitiateRequest, UploadInitiateResponse,
       UploadSegmentResponse
  <2>4. QED
    BY <1>k, <2>2, <2>3
<1>3. CASE ClientExpires
  BY <1>t, <1>k, <1>3, ExpiryLooks DEF Aborts
<1>4. CASE ToClient
  BY <1>t, <1>4, DeliveryLooks DEF OwnBuffer
<1>5. CASE UNCHANGED cli
  BY <1>t, <1>5 DEF OwnBuffer
<1>6. QED
  BY <1>1, <1>2, <1>3, <1>4, <1>5
     DEF Next, ServerStep, ServerExpires, ToServer, LoseFrame, vars

\* No question is put to the application but about bytes that fit the object.
LEMMA ConfirmFitsStep ==
    ASSUME AtomicInv, SdoInv', prompt, [Next]_vars, WholeObjects
    PROVE  ConfirmFits'
<1>t. MemoryInv /\ MemoryInv' /\ InStep /\ OwnBuffer /\ ConfirmFits /\ srv \in ServerRec
      /\ (cli.state # "IDLE" => cli.status = "busy")
  BY PromptFacts DEF SdoInv
<1>k. ASSUME srv'.internal = srv.internal, srv'.obj = srv.obj, Len(cli'.buf) = Len(cli.buf)
      PROVE  ConfirmFits'
  BY <1>t, <1>k DEF ConfirmFits
<1>1. CASE Ask
  <2>1. ~srv.internal /\ srv' = srv
    BY <1>t, <1>1, AskLooks DEF Ask, InStep, OneUnderWay
  <2>2. QED
    BY <2>1 DEF ConfirmFits
<1>2. CASE ClientStep
  <2>1. ClientHandle /\ srv' = srv
    BY <1>2 DEF ClientStep
  <2>2. Len(cli'.buf) = Len(cli.buf)
    BY <1>t, <2>1, ClientLooks
  <2>3. QED
    BY <1>k, <2>1, <2>2
<1>3. CASE ClientExpires
  BY <1>t, <1>k, <1>3, ExpiryLooks DEF Aborts, ClientExpires
<1>4. CASE ToClient
  BY <1>t, <1>k, <1>4, DeliveryLooks DEF ToClient
<1>5. CASE ServerStep
  <2>1. ServerHandle /\ UNCHANGED cli
    BY <1>5 DEF ServerStep
  <2>2. srv'.internal => srv'.obj = cli.mux /\ Len(cli.buf) <= ObjLen[cli.mux]
    BY <1>t, <2>1, ServerEffect
  <2>3. QED
    BY <2>1, <2>2 DEF ConfirmFits
<1>6. CASE ServerExpires
  <2>1. ~srv'.internal
    BY <1>t, <1>6 DEF ServerExpires, ServerTimeout, SAborted, ServerRec
  <2>2. QED
    BY <2>1 DEF ConfirmFits
<1>7. CASE ToServer
  <2>1. srv'.internal = srv.internal /\ srv'.obj = srv.obj /\ cli' = cli
    BY <1>t, <1>7 DEF ToServer, ServerDeliver, ServerRec
  <2>2. QED
    BY <1>k, <2>1
<1>8. CASE UNCHANGED <<srv, cli>>
  BY <1>k, <1>8
<1>9. QED
  BY <1>1, <1>2, <1>3, <1>4, <1>5, <1>6, <1>7, <1>8 DEF Next, LoseFrame, vars

\* At first no request has a memory and no question is put.
LEMMA InitAtomic == Init => AtomicInv
<1> SUFFICES ASSUME Init
             PROVE  AtomicInv
  OBVIOUS
<1>1. SdoInv
  BY InitInStep
<1>2. cli.state = "IDLE" /\ ~srv.internal
  BY DEF Init, ClientInit, ServerInit
<1>3. QED
  BY <1>1, <1>2 DEF AtomicInv, UnderWayBusy, OwnBuffer, ConfirmFits

\* Every step keeps the inductive invariant of the refinement.
LEMMA AtomicStep == WholeObjects /\ AtomicInv /\ [Next]_vars => AtomicInv'
<1> SUFFICES ASSUME WholeObjects, AtomicInv, [Next]_vars
             PROVE  AtomicInv'
  OBVIOUS
<1>1. SdoInv' /\ UnderWayBusy'
  BY SdoStep, BusyStep DEF AtomicInv
<1>2. prompt' = prompt
  BY DEF Next, Ask, ClientStep, ServerStep, ClientExpires, ServerExpires, ToClient, ToServer,
     LoseFrame, vars, setting
<1>3. ASSUME prompt
      PROVE  OwnBuffer' /\ ConfirmFits'
  BY <1>1, <1>3, OwnBufferStep, ConfirmFitsStep
<1>4. QED
  BY <1>1, <1>2, <1>3 DEF AtomicInv

\* The request under way and how the last one ended, as SdoAtomic sees them
Open    == IF cli.state = "IDLE" THEN {}
           ELSE {[op |-> IF cli.state \in {"DL_REQ", "DL_RSP", "DL_SEG"}
                         THEN "download" ELSE "upload", mux |-> cli.mux]}
Outcome == IF cli.state = "IDLE" THEN cli.status ELSE "busy"

\* The steps of SdoAtomic in these terms
LEMMA AbstractSteps ==
    /\ AtomicView!Init <=> /\ View = [o \in Atomic |-> Bytes(Factory, ObjLen[o])]
                           /\ Open = {} /\ cli.buf = <<>> /\ Outcome = "idle"
    /\ AtomicView!Begin <=> /\ Open = {}
                            /\ \E r \in [op : {"download", "upload"}, mux : Mux] : Open' = {r}
                            /\ Outcome' = "busy" /\ View' = View
    /\ AtomicView!TakeEffect <=>
          /\ \E o \in Atomic : /\ Open = {[op |-> "download", mux |-> o]}
                               /\ View' = [View EXCEPT ![o] = cli.buf]
          /\ Open' = Open /\ cli'.buf = cli.buf /\ Outcome' = Outcome
    /\ AtomicView!Fill <=> /\ \E r \in Open : r.op = "upload"
                           /\ View' = View /\ Open' = Open /\ Outcome' = Outcome
    /\ AtomicView!Succeed <=>
          /\ \E r \in Open :
                /\ r.mux \in Atomic =>
                      \E n \in 0 .. Len(cli'.buf) : View[r.mux] = SubSeq(cli'.buf, 1, n)
                /\ r.op = "download" => cli'.buf = cli.buf
          /\ Open' = {} /\ Outcome' = "success" /\ View' = View
    /\ AtomicView!Fail <=> /\ Open # {} /\ Open' = {} /\ Outcome' = "abort"
                           /\ View' = View /\ cli'.buf = cli.buf
    /\ UNCHANGED AtomicView!vars <=> /\ View' = View /\ Open' = Open
                                     /\ cli'.buf = cli.buf /\ Outcome' = Outcome
  BY DEF AtomicView!Init, AtomicView!Begin, AtomicView!TakeEffect, AtomicView!Fill,
     AtomicView!Succeed, AtomicView!Fail, AtomicView!Holds, AtomicView!vars, View, Open, Outcome

\* A step of the client is one of SdoAtomic: nothing, a part of an upload, or the end.
LEMMA ClientImplements ==
    ASSUME MemoryInv, MemoryInv', WholeObjects, OwnBuffer, UNCHANGED memVars,
           cli'.mux = cli.mux, GoesOn \/ Fills \/ Aborts \/ Downloads \/ Uploads
    PROVE  AtomicView!Next \/ UNCHANGED AtomicView!vars
<1>t. cli \in ClientRec /\ cli' \in ClientRec /\ data \in Memory /\ stage \in Memory
  BY DEF MemoryInv, ClientOk
<1>v. View' = View
  BY DEF View, Shown, memVars
<1>1. CASE GoesOn
  BY <1>v, <1>1, AbstractSteps DEF GoesOn, Open, Outcome
<1>2. CASE Fills
  <2>1. \E r \in Open : r.op = "upload"
    BY <1>2 DEF Fills, Open
  <2>2. Open' = Open /\ Outcome' = Outcome
    BY <1>2 DEF Fills, Open, Outcome
  <2>3. AtomicView!Fill
    BY <1>v, <2>1, <2>2, AbstractSteps
  <2>4. QED
    BY <2>3 DEF AtomicView!Next
<1>3. CASE Aborts
  <2>1. AtomicView!Fail
    BY <1>v, <1>3, AbstractSteps DEF Aborts, Open, Outcome
  <2>2. QED
    BY <2>1 DEF AtomicView!Next
<1>4. CASE Downloads \/ Uploads
  <2>1. Open' = {} /\ Outcome' = "success"
    BY <1>4 DEF Downloads, Uploads, Open, Outcome
  <2>2. PICK r \in Open : r.mux = cli.mux /\ (r.op = "download" => Downloads)
    BY <1>4 DEF Downloads, Uploads, Open
  <2>3. r.op = "download" => cli'.buf = cli.buf
    BY <2>2 DEF Downloads
  <2>4. ASSUME r.mux \in Atomic
        PROVE  \E n \in 0 .. Len(cli'.buf) : View[r.mux] = SubSeq(cli'.buf, 1, n)
    <3>1. PICK o \in Object : o = cli.mux /\ o \in Atomic
      BY <2>2, <2>4 DEF Atomic
    <3>2. PICK d \in Seq(Cells) : d = Shown(o) /\ Len(d) = ObjLen[o]
      BY <1>t, <3>1, ShownType
    <3>3. PICK b \in Seq(Cells) : b = cli'.buf
      BY <1>t DEF ClientRec
    <3>4. Len(b) \in Nat /\ Len(d) \in Nat
      BY LenProperties
    <3>5. View[r.mux] = d
      BY <2>2, <3>1, <3>2 DEF View
    <3>6. CASE Downloads
      <4>1. Len(b) \in ReqLen[o] /\ o \in Writable /\ b = cli.buf
            /\ \A i \in 1 .. Len(b) : d[i] = b[i]
        BY <3>1, <3>2, <3>3, <3>6 DEF Downloads, OwnBuffer, SameStart
      <4>2. Len(d) <= Len(b)
        BY <3>1, <3>2, <4>1 DEF WholeObjects
      <4>3. Begins(b, d, Len(d))
        BY <3>4, <4>1, <4>2 DEF Begins
      <4>4. SubSeq(b, 1, Len(d)) = d
        BY <4>2, <4>3, WholeInFront
      <4>5. PICK n \in 0 .. Len(b) : n = Len(d)
        BY <3>4, <4>2
      <4>6. d = SubSeq(b, 1, n)
        BY <4>4, <4>5
      <4>7. QED
        BY <3>3, <3>5, <4>6
    <3>7. CASE Uploads
      <4>1. /\ o \in Readable /\ cli'.tlen \in Nat /\ cli'.tlen <= Len(b)
            /\ SubSeq(b, 1, cli'.tlen) = data[o]
        BY <1>t, <3>1, <3>3, <3>7 DEF Uploads, ClientRec
      <4>2. Shown(o) = data[o]
        BY <3>1, <4>1 DEF WholeObjects, Shown
      <4>3. QED
        BY <3>2, <3>3, <3>4, <3>5, <4>1, <4>2
    <3>8. QED
      BY <1>4, <3>6, <3>7
  <2>5. AtomicView!Succeed
    BY <1>v, <2>1, <2>3, <2>4, AbstractSteps
  <2>6. QED
    BY <2>5 DEF AtomicView!Next
<1>5. QED
  BY <1>1, <1>2, <1>3, <1>4

\* A step of the server is one of SdoAtomic: nothing, or the download takes effect.
LEMMA ServerImplements ==
    ASSUME UNCHANGED cli, Effect
    PROVE  AtomicView!Next \/ UNCHANGED AtomicView!vars
<1>1. Open' = Open /\ Outcome' = Outcome
  BY DEF Open, Outcome
<1>2. CASE View' = View
  BY <1>1, <1>2, AbstractSteps
<1>3. CASE /\ cli.state \in {"DL_RSP", "DL_SEG"} /\ cli.mux \in Atomic
           /\ View' = [View EXCEPT ![cli.mux] = cli.buf]
  <2>1. Open = {[op |-> "download", mux |-> cli.mux]}
    BY <1>3 DEF Open
  <2>2. AtomicView!TakeEffect
    BY <1>1, <1>3, <2>1, AbstractSteps
  <2>3. QED
    BY <2>2 DEF AtomicView!Next
<1>4. QED
  BY <1>2, <1>3 DEF Effect

\* A request is one of SdoAtomic.
LEMMA AskImplements ==
    ASSUME MemoryInv, Ask
    PROVE  AtomicView!Next
<1>1. /\ cli.state = "IDLE" /\ cli'.state \in {"DL_REQ", "UL_REQ"} /\ cli'.mux \in Mux
      /\ UNCHANGED memVars
  BY AskLooks DEF Ask
<1>2. View' = View
  BY <1>1 DEF View, Shown, memVars
<1>3. \E r \in [op : {"download", "upload"}, mux : Mux] : Open' = {r}
  <2>1. PICK m \in Mux : m = cli'.mux
    BY <1>1
  <2>2. PICK d \in {"download", "upload"} : Open' = {[op |-> d, mux |-> m]}
    BY <1>1, <2>1 DEF Open
  <2>3. [op |-> d, mux |-> m] \in [op : {"download", "upload"}, mux : Mux]
    OBVIOUS
  <2>4. QED
    BY <2>2, <2>3
<1>4. Open = {} /\ Outcome' = "busy"
  BY <1>1 DEF Open, Outcome
<1>5. AtomicView!Begin
  BY <1>2, <1>3, <1>4, AbstractSteps
<1>6. QED
  BY <1>5 DEF AtomicView!Next

\* For any object dictionary whose objects of one step are written and read back whole:
\* while time-outs are prompt, whatever is lost, a download takes effect at one instant
\* with exactly what the client sent, and the client is told success only of a download
\* that has taken effect or of an upload that holds the object.
THEOREM TransfersAreAtomic == WholeObjects => (Spec => AtomicSpec)
<1> SUFFICES ASSUME WholeObjects
             PROVE  Spec => AtomicSpec
  OBVIOUS
<1>1. Init => (prompt => AtomicView!Init)
  <2> SUFFICES ASSUME Init
               PROVE  AtomicView!Init
    OBVIOUS
  <2>1. cli.state = "IDLE" /\ cli.status = "idle" /\ cli.buf = <<>>
    BY DEF Init, ClientInit
  <2>2. \A o \in Object : Shown(o) = Bytes(Factory, ObjLen[o])
    BY DEF Init, ServerInit, Shown
  <2>3. View = [o \in Atomic |-> Bytes(Factory, ObjLen[o])]
    BY <2>2 DEF View, Atomic
  <2>4. QED
    BY <2>1, <2>3, AbstractSteps DEF Open, Outcome
<1>2. AtomicInv /\ AtomicInv' /\ [Next]_vars
         => [prompt => AtomicView!Next]_(AtomicView!vars)
  <2> SUFFICES ASSUME AtomicInv, AtomicInv', [Next]_vars, prompt
               PROVE  AtomicView!Next \/ UNCHANGED AtomicView!vars
    OBVIOUS
  <2>t. MemoryInv /\ MemoryInv' /\ InStep /\ OwnBuffer /\ ConfirmFits
        /\ (cli.state # "IDLE" => cli.status = "busy")
    BY PromptFacts DEF AtomicInv, SdoInv
  <2>s. ASSUME UNCHANGED memVars, cli'.state = cli.state, cli'.status = cli.status,
               cli'.buf = cli.buf, cli'.mux = cli.mux
        PROVE  UNCHANGED AtomicView!vars
    <3>1. View' = View /\ Open' = Open /\ Outcome' = Outcome
      BY <2>s DEF View, Shown, memVars, Open, Outcome
    <3>2. QED
      BY <2>s, <3>1, AbstractSteps
  <2>1. CASE Ask
    BY <2>t, <2>1, AskImplements
  <2>2. CASE ClientStep
    <3>1. ClientHandle /\ UNCHANGED memVars
      BY <2>2 DEF ClientStep
    <3>2. cli'.mux = cli.mux /\ (GoesOn \/ Fills \/ Aborts \/ Downloads \/ Uploads)
      BY <2>t, <3>1, ClientLooks
    <3>3. QED
      BY <2>t, <3>1, <3>2, ClientImplements
  <2>3. CASE ServerStep
    <3>1. ServerHandle /\ UNCHANGED cli
      BY <2>3 DEF ServerStep
    <3>2. Effect
      BY <2>t, <3>1, ServerEffect
    <3>3. QED
      BY <3>1, <3>2, ServerImplements
  <2>4. CASE ClientExpires
    <3>1. Aborts /\ cli'.mux = cli.mux /\ UNCHANGED memVars
      BY <2>t, <2>4, ExpiryLooks DEF ClientExpires
    <3>2. QED
      BY <2>t, <3>1, ClientImplements
  <2>5. CASE ToClient
    <3>1. UNCHANGED memVars
      BY <2>5 DEF ToClient
    <3>2. QED
      BY <2>t, <2>s, <2>5, <3>1, DeliveryLooks
  <2>6. CASE ServerExpires \/ ToServer \/ LoseFrame \/ UNCHANGED vars
    <3>1. UNCHANGED <<memVars, cli>>
      BY <2>6 DEF ServerExpires, ServerTimeout, ToServer, ServerDeliver, LoseFrame, vars, memVars
    <3>2. QED
      BY <2>s, <3>1
  <2>7. QED
    BY <2>1, <2>2, <2>3, <2>4, <2>5, <2>6 DEF Next
<1>3. AtomicInv /\ [Next]_vars => AtomicInv'
  BY AtomicStep
<1>4. QED
  BY <1>1, <1>2, <1>3, InitAtomic, PTL DEF Spec, AtomicSpec
==============================================================================
