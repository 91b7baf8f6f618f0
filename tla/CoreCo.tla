-------------------------------- MODULE CoreCo --------------------------------
(***************************************************************************)
(* sm_core_co.c: the queue of SDO requests in front of the one SDO client. *)
(*                                                                         *)
(* Requests are tickets, each offered once; what a request carries is left *)
(* to SdoClient.  A tick is one call of sm_co_process by the timer         *)
(* interrupt: the client runs, then the request state machine.  The calls  *)
(* of the application happen between two ticks, or in the callback a tick  *)
(* makes.  The client is what SdoAtomic promises of it: a started job runs *)
(* for some ticks and ends in success or in an abort.                      *)
(*                                                                         *)
(* The fifo is a sequence here: SmFifo shows that it behaves as one while  *)
(* one context pushes and the interrupt pops.  A callback that queues a    *)
(* request pushes in the interrupt; that it never cuts into a push of the  *)
(* main loop is assumed here, for SmFifo has no second context that pushes. *)
(***************************************************************************)
EXTENDS Naturals, Sequences

CONSTANTS Request,
          QueueLen      \* 10 in the code

None == "none"

ASSUME CoreAssumption == QueueLen \in Nat \ {0} /\ None \notin Request

VARIABLES queue,        \* the fifo "sdo"
          sub_obj,      \* the ticket last popped
          sdo_now,      \* the ticket of the last *_now call
          is_sdo_now,
          sdo_process,  \* a request is being served
          sdo_state,
          client,       \* CO_SDO: is a job running, which, and the status field
          offered,      \* tickets the callers have used up
          outcome,      \* how each job ended on the client
          answers,      \* the callbacks made, in order, with the status passed
          was_reset     \* history: has a caller ever used sm_co_sdo_reset?

lineVars == <<queue, sub_obj, sdo_now, is_sdo_now>>
vars == <<lineVars, sdo_process, sdo_state, client, offered, outcome, answers,
          was_reset>>

Ends == {"success", "abort"}

\* sm_co_create, over zeroed memory: sdo_state is 0, SDO_SEND_REQUEST.
Init ==
    /\ queue = <<>> /\ sub_obj = None /\ sdo_now = None /\ is_sdo_now = FALSE
    /\ sdo_process = FALSE /\ sdo_state = "SEND_REQUEST"
    /\ client = [running |-> FALSE, job |-> None, status |-> "idle"]
    /\ offered = {} /\ outcome = [r \in Request |-> None] /\ answers = <<>>
    /\ was_reset = FALSE

------------------------------------------------------------------------------
\* mutant: the fullness test is missing
PushedUnguarded(r) == queue' = Append(queue, r)

\* sm_sdo_push: a full fifo refuses.
Pushed(r) == queue' = IF Len(queue) < QueueLen THEN Append(queue, r) ELSE queue

\* sm_co_sdo_client_send and sm_co_sdo_client_receive
Send ==
    /\ \E r \in Request \ offered : Pushed(r) /\ offered' = offered \union {r}
    /\ UNCHANGED <<sub_obj, sdo_now, is_sdo_now, sdo_process, sdo_state, client, outcome,
                   answers, was_reset>>

\* sm_co_sdo_client_send_now and sm_co_sdo_client_receive_now
SendNow ==
    /\ \E r \in Request \ offered :
        /\ offered' = offered \union {r}
        /\ sdo_now' = IF is_sdo_now THEN sdo_now ELSE r
    /\ is_sdo_now' = TRUE
    /\ UNCHANGED <<queue, sub_obj, sdo_process, sdo_state, client, outcome, answers, was_reset>>

\* sm_co_sdo_reset
Reset ==
    /\ client' = [client EXCEPT !.status = "idle"] /\ was_reset' = TRUE
    /\ UNCHANGED <<lineVars, sdo_process, sdo_state, offered, outcome, answers>>

------------------------------------------------------------------------------
\* CO_process, as far as the client goes: nothing when it is idle or the sync
\* window is closed, else busy, or the end of its job.
Running == {client, [client EXCEPT !.status = "busy"]}
Ended   == {[client EXCEPT !.running = FALSE, !.status = s] : s \in Ends}
Worked  == IF client.running THEN Running \union Ended ELSE {client}

Recorded(c) ==
    outcome' = IF client.running /\ ~c.running
               THEN [outcome EXCEPT ![client.job] = c.status] ELSE outcome

Current == IF is_sdo_now THEN sdo_now ELSE sub_obj

\* CO_SDO_reset_status, then CO_SDOclient_start_upload or _download
SendRequest(c) ==
    /\ sdo_process /\ sdo_state = "SEND_REQUEST"
    /\ client' = [running |-> TRUE, job |-> Current, status |-> "busy"]
    /\ sdo_state' = "WAIT_RESULT"
    /\ UNCHANGED <<lineVars, sdo_process, offered, answers>>

\* mutant: any status but busy ends the wait
WaitResultNotBusy(c) ==
    /\ sdo_process /\ sdo_state = "WAIT_RESULT"
    /\ sdo_state' = IF c.status # "busy" THEN "END_REQUEST" ELSE sdo_state
    /\ client' = c
    /\ UNCHANGED <<lineVars, sdo_process, offered, answers>>

\* mutant: an abort does not end the wait
WaitResultSuccess(c) ==
    /\ sdo_process /\ sdo_state = "WAIT_RESULT"
    /\ sdo_state' = IF c.status = "success" THEN "END_REQUEST" ELSE sdo_state
    /\ client' = c
    /\ UNCHANGED <<lineVars, sdo_process, offered, answers>>

WaitResult(c) ==
    /\ sdo_process /\ sdo_state = "WAIT_RESULT"
    /\ sdo_state' = IF c.status \in Ends THEN "END_REQUEST" ELSE sdo_state
    /\ client' = c
    /\ UNCHANGED <<lineVars, sdo_process, offered, answers>>

\* What the callback does: nothing, or one more request.  A *_now request made here is
\* refused, or it is taken and its flag is cleared when the callback returns.
Callback ==
    \/ UNCHANGED <<queue, sdo_now, offered>>
    \/ \E r \in Request \ offered :
        /\ offered' = offered \union {r}
        /\ \/ Pushed(r) /\ UNCHANGED sdo_now
           \/ sdo_now' = (IF is_sdo_now THEN sdo_now ELSE r) /\ UNCHANGED queue

\* mutant: the status is reset before it is passed on
EndRequestResetsFirst(c) ==
    /\ sdo_process /\ sdo_state = "END_REQUEST"
    /\ answers' = Append(answers, <<Current, "idle">>)
    /\ Callback
    /\ client' = [c EXCEPT !.status = "idle"]
    /\ sdo_process' = FALSE /\ is_sdo_now' = FALSE
    /\ UNCHANGED <<sub_obj, sdo_state>>

\* mutant: whatever is not an abort is passed on as a success
EndRequestAssumes(c) ==
    /\ sdo_process /\ sdo_state = "END_REQUEST"
    /\ answers' = Append(answers, <<Current, IF c.status = "abort" THEN "abort" ELSE "success">>)
    /\ Callback
    /\ client' = [c EXCEPT !.status = "idle"]
    /\ sdo_process' = FALSE /\ is_sdo_now' = FALSE
    /\ UNCHANGED <<sub_obj, sdo_state>>

\* mutant: a *_now request stays flagged after its callback
EndRequestKeepsNow(c) ==
    /\ sdo_process /\ sdo_state = "END_REQUEST"
    /\ answers' = Append(answers, <<Current, c.status>>)
    /\ Callback
    /\ client' = [c EXCEPT !.status = "idle"]
    /\ sdo_process' = FALSE
    /\ UNCHANGED <<sub_obj, sdo_state, is_sdo_now>>

EndRequest(c) ==
    /\ sdo_process /\ sdo_state = "END_REQUEST"
    /\ answers' = Append(answers, <<Current, c.status>>)
    /\ Callback
    /\ client' = [c EXCEPT !.status = "idle"]
    /\ sdo_process' = FALSE /\ is_sdo_now' = FALSE
    /\ UNCHANGED <<sub_obj, sdo_state>>

\* mutant: a *_now request is unflagged when it is taken
TakeRequestUnflags(c) ==
    /\ ~sdo_process
    /\ \/ is_sdo_now /\ UNCHANGED <<queue, sub_obj>>
       \/ ~is_sdo_now /\ queue # <<>> /\ sub_obj' = Head(queue) /\ queue' = Tail(queue)
    /\ sdo_process' = TRUE /\ sdo_state' = "SEND_REQUEST" /\ is_sdo_now' = FALSE
    /\ client' = c
    /\ UNCHANGED <<sdo_now, offered, answers>>

TakeRequest(c) ==
    /\ ~sdo_process
    /\ \/ is_sdo_now /\ UNCHANGED <<queue, sub_obj>>
       \/ ~is_sdo_now /\ queue # <<>> /\ sub_obj' = Head(queue) /\ queue' = Tail(queue)
    /\ sdo_process' = TRUE /\ sdo_state' = "SEND_REQUEST"
    /\ client' = c
    /\ UNCHANGED <<sdo_now, is_sdo_now, offered, answers>>

NothingToDo(c) ==
    /\ ~sdo_process /\ ~is_sdo_now /\ queue = <<>>
    /\ client' = c
    /\ UNCHANGED <<lineVars, sdo_process, sdo_state, offered, answers>>

\* sm_co_process
TickWith(c) ==
    /\ Recorded(c)
    /\ SendRequest(c) \/ WaitResult(c) \/ EndRequest(c) \/ TakeRequest(c) \/ NothingToDo(c)

Tick == \E c \in Worked : TickWith(c) /\ UNCHANGED was_reset

Next == Send \/ SendNow \/ Reset \/ Tick

Spec == Init /\ [][Next]_vars

JobEnds == client.running /\ \E c \in Ended : TickWith(c) /\ UNCHANGED was_reset

\* The timer interrupt keeps coming, and a job ends: by its answer or by the
\* time-out of the client (RequestEnds of SdoTransfer).
FairSpec == Spec /\ WF_vars(Tick) /\ WF_vars(JobEnds)

------------------------------------------------------------------------------
\* Every field holds a value of its type.
TypeOK ==
    /\ queue \in Seq(Request) /\ Len(queue) <= QueueLen
    /\ sub_obj \in Request \union {None} /\ sdo_now \in Request \union {None}
    /\ is_sdo_now \in BOOLEAN /\ sdo_process \in BOOLEAN
    /\ sdo_state \in {"SEND_REQUEST", "WAIT_RESULT", "END_REQUEST"}
    /\ client \in [running : BOOLEAN, job : Request \union {None},
                   status : {"idle", "busy"} \union Ends]
    /\ offered \subseteq Request
    /\ outcome \in [Request -> {None} \union Ends]
    /\ answers \in Seq((Request \union {None}) \X ({"idle", "busy"} \union Ends))
    /\ was_reset \in BOOLEAN

\* The client, which starts a request without looking whether one is running,
\* works only while its request is waited for: sm_co_SDO_process never starts a
\* job over another, nor takes, answers or rests while one runs, and after
\* the wait no job is left.
StartsFree == client.running <=> sdo_process /\ sdo_state = "WAIT_RESULT"

\* What serving relies on: a ticket is there to be served, and a running job has one.
TicketsHeld ==
    /\ is_sdo_now => sdo_now \in Request
    /\ sdo_process /\ ~is_sdo_now => sub_obj \in Request
    /\ client.running => client.job \in Request /\ client.status \notin Ends

\* Each state of sm_co_SDO_process finds what it relies on, whatever the callers do: a
\* ticket to serve, a client that runs exactly while it is waited for.
CoreInv == TypeOK /\ TicketsHeld /\ StartsFree

\* No request is answered twice, and none that was not offered: whatever the
\* callers do, a callback runs at most once for each call.
AnsweredOnce ==
    \A i \in DOMAIN answers :
        /\ answers[i][1] \in offered
        /\ \A j \in DOMAIN answers : answers[i][1] = answers[j][1] => i = j

\* As long as nobody has made a *_now request, a callback that is told success or
\* abort is told the end of its own job, whenever the status is reset.  (With *_now
\* requests it is not so: one that comes while another request is served takes the
\* place, the result and the callback of that one, sm_core_co.c 400.)
OwnResult ==
    sdo_now = None =>
        \A i \in DOMAIN answers :
            answers[i][2] \in Ends => outcome[answers[i][1]] = answers[i][2]

\* A request the queue has taken is answered, resets notwithstanding, unless a
\* *_now request is made: one that comes while it is served takes its callback.
Answered(r) == \E i \in DOMAIN answers : answers[i][1] = r
AcceptedIsAnswered ==
    \A r \in Request :
        (\E i \in DOMAIN queue : queue[i] = r) ~> Answered(r) \/ sdo_now # None

\* A *_now request is answered, resets notwithstanding, if it is still to be seen when the
\* call that made it has returned to the main loop (m_cb, sm_core_co.h 152): be it with the
\* result of the request whose place it took.  One made in a callback is not: its flag is
\* cleared as soon as the callback returns, sm_core_co.c 445-446.
NowAnswered == \A r \in Request : is_sdo_now /\ sdo_now = r ~> Answered(r)

\* Neither a request that the queue has taken nor a *_now request that stands is forgotten.
TakenIsAnswered == AcceptedIsAnswered /\ NowAnswered

------------------------------------------------------------------------------
\* The callers have used sm_co_sdo_client_send and _receive alone, like the
\* configuration tool.
Plain == sdo_now = None /\ ~was_reset

\* As long as they do: the running job is the ticket popped, and at
\* its end the status field still says how it ended.
ServesHead ==
    /\ ~is_sdo_now
    /\ sdo_process /\ sdo_state = "WAIT_RESULT" => client.job = sub_obj
    /\ sdo_process /\ sdo_state = "END_REQUEST"
          => client.status \in Ends /\ client.status = outcome[sub_obj]

\* The queue with the request being served in front is the line of SdoLine; the
\* result of its first request is the end its own job had on the client.
Line == INSTANCE SdoLine WITH
    Room <- QueueLen + 1,
    line <- (IF sdo_process THEN <<sub_obj>> ELSE <<>>) \o queue,
    result <- IF sdo_process /\ sdo_state = "END_REQUEST" THEN outcome[sub_obj] ELSE None

\* Until the first *_now request or reset, sm_core_co implements SdoLine: every
\* step is one of the line or leaves it alone.
LineSpec == Line!Init /\ [][Plain' => Line!Next \/ UNCHANGED Line!vars]_vars
==============================================================================
