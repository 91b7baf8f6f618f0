---------------------------- MODULE SdoTransfer ------------------------------
(***************************************************************************)
(* An SDO client and an SDO server of two nodes on one CAN bus.            *)
(*                                                                         *)
(* prompt says how the allowed time-outs compare with the bus and with the *)
(* confirm functions.  TRUE: a time-out runs out only when no frame is on  *)
(* its way or unhandled (and a client outlasts the server's confirmation). *)
(* FALSE: it may run out at any time, and late answers meet new requests.  *)
(***************************************************************************)
EXTENDS SdoClient, SdoServer

CONSTANTS Settings,  \* what is asked for together, and whether time-outs are prompt
          Requests   \* bound: requests in a behaviour whose time-outs are not

ASSUME SettingsAssumption == Settings \subseteq [used : SUBSET Mux, prompt : BOOLEAN]
ASSUME RequestsAssumption == Requests \in Nat

VARIABLES used,      \* the objects this client asks for
          prompt,
          asked      \* requests so far, counted where they are bounded

setting == <<used, prompt>>
vars == <<busVars, cli, srv, memVars, setting, asked>>

Init == /\ toSrv = <<>> /\ toCli = <<>>
        /\ ClientInit /\ ServerInit /\ asked = 0
        /\ \E s \in Settings : used = s.used /\ prompt = s.prompt

Quiet == toSrv = <<>> /\ toCli = <<>> /\ cli.rx = NoFrame /\ ~srv.isNew

Ask == /\ prompt \/ asked < Requests
       /\ asked' = IF prompt THEN 0 ELSE asked + 1
       /\ \E m \in used : \E n \in ReqLen[m] :
             \/ \E p \in Payload : StartDownload(m, n, p)
             \/ StartUpload(m, n)
       /\ UNCHANGED <<srv, memVars, setting>>

ClientStep == ClientHandle /\ UNCHANGED <<srv, memVars, setting, asked>>
ServerStep == ServerHandle /\ UNCHANGED <<cli, setting, asked>>

ClientExpires == /\ prompt => Quiet /\ ~srv.internal
                 /\ ClientTimeout
                 /\ UNCHANGED <<srv, memVars, setting, asked>>

ServerExpires == /\ prompt => Quiet
                 /\ ServerTimeout
                 /\ UNCHANGED <<cli, setting, asked>>

ToClient == ClientDeliver /\ UNCHANGED <<srv, memVars, setting, asked>>
ToServer == ServerDeliver /\ UNCHANGED <<cli, setting, asked>>
LoseFrame == Lose /\ UNCHANGED <<cli, srv, memVars, setting, asked>>

Next == \/ Ask
        \/ ClientStep
        \/ ServerStep
        \/ ClientExpires
        \/ ServerExpires
        \/ ToClient
        \/ ToServer
        \/ LoseFrame

Spec == Init /\ [][Next]_vars

\* sm_co_process runs from a periodic timer interrupt on either node: a frame in the
\* receive ring is handed on, a handler that has work runs and a time-out that keeps
\* running runs out.  The server's counter goes on while another request starts and is
\* lost, which interrupts Quiet: hence the strong fairness.  No loss is ever forced.
Fairness == /\ WF_vars(ClientStep) /\ WF_vars(ServerStep)
            /\ WF_vars(ClientExpires) /\ SF_vars(ServerExpires)
            /\ WF_vars(ToClient) /\ WF_vars(ToServer)

FairSpec == Spec /\ Fairness

------------------------------------------------------------------------------
Cells == {Junk} \cup (Payload \cup {Factory}) \X (Nat \ {0})

\* Every field holds a value of its type; a memory holds whole bytes of payloads.
TypeOK ==
    /\ cli.state \in ClientStates /\ srv.state \in ServerStates
    /\ cli.toggle \in {0, 1} /\ srv.toggle \in {0, 1}
    /\ cli.status \in {"idle", "busy", "success", "abort"}
    /\ srv.status \in {"idle", "busy", "abort"}
    /\ \A o \in Object : /\ data[o] \in [1 .. ObjLen[o] -> Cells]
                       /\ stage[o] \in [1 .. ObjLen[o] -> Cells]
    /\ Len(toSrv) <= Depth /\ Len(toCli) <= Depth

\* No handler copies outside the memory of the object or of the caller: in the middle
\* of a transfer there is a byte left, and the announced length fits, whatever frames
\* were lost, late or stale (the CO_memcpy calls of the four segment handlers).
CopiesInside ==
    /\ cli.state = "UL_SEG" => cli.off < cli.tlen /\ cli.tlen <= Len(cli.buf)
    /\ cli.state = "DL_SEG" => cli.off <= cli.tlen /\ cli.tlen = Len(cli.buf)
    /\ srv.state \in {"DL_SEG", "UL_SEG"} =>
          /\ srv.tlen <= ObjLen[srv.obj]
          /\ srv.off < srv.tlen \/ (srv.state = "DL_SEG" /\ srv.internal)

\* Every memory keeps its size and holds whole bytes of payloads, and no handler is
\* about to copy past its end (CO_SDOserver.c and CO_SDOclient.c, all segment handlers).
MemorySafe == TypeOK /\ CopiesInside

\* Where time-outs are prompt, two ends in a segmented download are in the same one, and
\* either the server still lacks the segment last sent, with equal toggle bits, or it has
\* it, with opposite ones; a segment is under way only in the first case and an answer
\* only in the second.
Lockstep ==
    (prompt /\ cli.state = "DL_SEG" /\ srv.state = "DL_SEG" /\ ~srv.internal) =>
        /\ cli.mux = srv.obj /\ cli.tlen = srv.tlen
        /\ IF cli.toggle = srv.toggle
           THEN /\ srv.off < cli.off /\ cli.off <= srv.off + SegSize
                /\ toCli = <<>> /\ cli.rx = NoFrame
           ELSE /\ cli.off = srv.off
                /\ toSrv = <<>> /\ ~srv.isNew

\* Where time-outs are prompt, a successful upload leaves in the caller's buffer the
\* bytes of the object, whatever its backing (CO_SDOclient_upload_segment_handle).
UploadExact ==
    [][(prompt /\ cli.state \in {"UL_RSP", "UL_SEG"} /\ cli'.status = "success") =>
          SubSeq(cli'.buf, 1, cli'.tlen) = data[cli.mux]]_vars

\* Where time-outs are prompt, a server that is free is not in the middle of a
\* confirmation (CO_SDOserver_process_).
IdleIsFree == prompt /\ srv.status = "idle" => ~srv.internal

\* Both ends tell the same transfer, and at rest none: neither a segment nor a
\* confirmation of an earlier one is taken for a part of the next.
EndsInStep == Lockstep /\ IdleIsFree

\* Every request ends, in success or abort, whatever is lost (sm_core_co.c waits for
\* either without a time-out of its own).
RequestEnds == cli.state # "IDLE" ~> cli.state = "IDLE"

\* Where time-outs are prompt the server always returns to IDLE, ready for another
\* client (CO_SDOserver_process_).
ServerFrees == (prompt /\ srv.state # "IDLE") ~> srv.state = "IDLE"

\* Neither end waits for ever: not the client for an answer that was lost, nor the
\* server for a client that has fallen silent.
BothEndsFree == RequestEnds /\ ServerFrees

\* Objects whose download takes effect in one step of the server
Atomic == {o \in Object : Backing[o] \in {"temp", "ext"} \/ ObjLen[o] <= ExpSize}

Shown(o) == IF Backing[o] \in {"reset", "command"} THEN stage[o] ELSE data[o]

\* A download brings every byte of its object (a shorter one changes only the front of it),
\* and what is read back is what a download has put into effect (not so, before a reset or
\* ever, of objects whose data the server keeps apart).
WholeObjects ==
    /\ \A o \in Atomic \cap Writable : \A n \in ReqLen[o] : ObjLen[o] <= n
    /\ \A o \in Atomic \cap Readable : Backing[o] \notin {"reset", "command"}

\* What a client sees of those objects and of its own request
AtomicView == INSTANCE SdoAtomic WITH
    Objects   <- Atomic,
    Initially <- [o \in Atomic |-> Bytes(Factory, ObjLen[o])],
    Requests  <- [op : {"download", "upload"}, mux : Mux],
    value     <- [o \in Atomic |-> Shown(o)],
    request   <- IF cli.state = "IDLE" THEN {}
                 ELSE {[op |-> IF cli.state \in {"DL_REQ", "DL_RSP", "DL_SEG"}
                               THEN "download" ELSE "upload", mux |-> cli.mux]},
    buffer    <- cli.buf,
    outcome   <- IF cli.state = "IDLE" THEN cli.status ELSE "busy"

\* Where time-outs are prompt the transfers implement SdoAtomic for those objects, as long
\* as WholeObjects holds (the handlers of CO_SDOserver.c and CO_SDOclient.c).
AtomicSpec == (prompt => AtomicView!Init) /\ [][prompt => AtomicView!Next]_(AtomicView!vars)
==============================================================================
