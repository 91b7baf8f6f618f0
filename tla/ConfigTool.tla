------------------------------ MODULE ConfigTool ------------------------------
(***************************************************************************)
(* The configuration tool as it is built: the console of sm_pmu_uart.c in  *)
(* the main loop, sm_ev_config_co.c, and the callbacks sm_co_process makes *)
(* in the timer interrupt, which print through the same UART.              *)
(*                                                                         *)
(* Below it stands what other modules show: a typed line arrives whole     *)
(* (UartLine), and the queue of sm_core_co performs the requests in order  *)
(* and calls each callback once with the request's own result (CoreCo).    *)
(* An aborted write may have reached the motor controller or not.          *)
(*                                                                         *)
(* Interrupts nest by priority.  While tick # "out" the timer interrupt is *)
(* inside sm_co_process: the main loop stands still, and the UART's end of *)
(* transmission gets through only if its priority is the higher one.  In   *)
(* the generated configuration it is the lower one.                        *)
(***************************************************************************)
EXTENDS Naturals, Sequences

CONSTANTS Field,          \* the writable parameters the operator uses
          Value,          \* the values typed
          Commands,       \* how many commands the operator gives
          Pairs,          \* whether lines of two words are typed, others, or both
          QueueLen,       \* 10 in the code
          Priorities      \* may the end of transmission interrupt the timer: no, yes, or both

ASSUME ToolAssumption ==
    /\ Field \subseteq {"UV", "I_BAT", "ECO", "SPORT"}
    /\ Commands \in Nat /\ QueueLen \in Nat \ {0}
    /\ Pairs \subseteq BOOLEAN /\ Priorities \subseteq BOOLEAN

VARIABLES
    inbox,          \* the typed line the console has not taken, or NoLine
    pair,           \* is it two words, "name=value", of at most nine bytes each?
    given,          \* how many commands have been typed
    awaited,        \* is an answer to be printed?
    hasty,          \* history: has a command been typed before the answer to the last?
    plain,          \* history: only UV and menus so far, in lines of two words?
    TxEndFirst,     \* the build: does the end of transmission interrupt the timer interrupt?
    main,           \* the main loop's next step
    command,        \* the command it is handling
    text,           \* what it is printing
    m_pause_poll,
    m_cmd_current,  \* is there a report for the main loop to print?
    m_data_write,   \* the values to write
    m_cmd,          \* whose callback is registered, a field or Nothing
    refused,        \* history: the fields whose last request a full queue refused
    queue,          \* the requests waiting in sm_core_co, by field
    serving,        \* the field of the request being performed
    carried,        \* the value it carries, once under way
    result,         \* how it ended
    mc,             \* the parameters in the motor controller
    tick,           \* where in sm_co_process the timer interrupt stands
    lock,           \* uart_module: lock
    tx,             \* what the UART is sending, or Nothing
    m_tx_completed,
    reports         \* the callbacks run: the field each tells of, whose write ended, and how

operator == <<inbox, pair, given, awaited, hasty, plain, TxEndFirst>>
console  == <<main, command, text, m_pause_poll>>
config   == <<m_data_write, m_cmd, refused>>
request  == <<serving, carried, result>>
uart     == <<lock, tx, m_tx_completed>>
vars == <<operator, console, m_cmd_current, config, queue, request, mc, tick, uart, reports>>

Nothing == "nothing"
NoValue == "none"
Menus   == {"READ", "WRITE", "EXIT"}
Command == [name : Field, value : Value] \union [name : Menus \union {"unknown"}, value : {NoValue}]
NoLine  == [name |-> Nothing, value |-> NoValue]

Init ==
    /\ inbox = NoLine /\ pair = TRUE /\ given = 0 /\ awaited = FALSE /\ hasty = FALSE
    /\ plain = TRUE /\ TxEndFirst \in Priorities
    /\ main = "poll" /\ command = NoLine /\ text = Nothing
    /\ m_pause_poll = FALSE /\ m_cmd_current = FALSE
    /\ m_data_write = [f \in Field |-> NoValue] /\ m_cmd = Nothing /\ refused = {}
    /\ queue = <<>> /\ serving = Nothing /\ carried = Nothing /\ result = Nothing
    /\ mc = [f \in Field |-> NoValue]
    /\ tick = "out" /\ lock = FALSE /\ tx = Nothing /\ m_tx_completed = TRUE
    /\ reports = <<>>

Runs == main # "fault"          \* a hard fault stops the processor for good

\* The operator types a line; one is not begun before the last is taken.
Type ==
    /\ tick = "out" /\ inbox = NoLine /\ given < Commands /\ given' = given + 1
    /\ inbox' \in Command /\ pair' \in Pairs
    /\ awaited' = (awaited \/ inbox'.name # "unknown")
    /\ hasty' = (hasty \/ awaited)
    /\ plain' = (plain /\ pair' /\ inbox'.name \in Menus \union {"UV", "unknown"})
    /\ UNCHANGED <<TxEndFirst, console, m_cmd_current, config, queue, request, mc, tick, uart,
                   reports>>

------------------------------------------------------------------------------
(* uart_module_write and sm_hal_uart_write: wait for the lock, take it,     *)
(* start the transfer, wait for its end.  The timer interrupt may come      *)
(* between the main loop's test of the lock and its setting it; itself it   *)
(* is not cut into by anyone who takes the lock.  A transfer takes          *)
(* milliseconds, so clearing m_tx_completed right after the start is one    *)
(* step with it.                                                            *)

StartTx(what) == lock' = TRUE /\ tx' = what /\ m_tx_completed' = FALSE

EndTx ==
    /\ m_tx_completed
    /\ lock' = FALSE
    /\ UNCHANGED <<tx, m_tx_completed>>

\* mutant: the end of a transmission is not reported
TxEndSilent ==
    /\ Runs /\ tx # Nothing /\ (tick = "out" \/ TxEndFirst)
    /\ tx' = Nothing
    /\ awaited' = (awaited /\ tx \notin {"menu", "report"})
    /\ UNCHANGED <<inbox, pair, given, hasty, plain, TxEndFirst, console, m_cmd_current, config,
                   queue, request, mc, tick, lock, m_tx_completed, reports>>

\* The interrupt at the end of a transmission (sm_hal_uart_tx_irq).
TxEnd ==
    /\ Runs /\ tx # Nothing /\ (tick = "out" \/ TxEndFirst)
    /\ tx' = Nothing /\ m_tx_completed' = TRUE
    /\ awaited' = (awaited /\ tx \notin {"menu", "report"})
    /\ UNCHANGED <<inbox, pair, given, hasty, plain, TxEndFirst, console, m_cmd_current, config,
                   queue, request, mc, tick, lock, reports>>

------------------------------------------------------------------------------
(* The main loop: sm_pmu_uart_process, one step for each statement the      *)
(* timer interrupt may come before.                                         *)

MainAt(step) == tick = "out" /\ main = step

\* sm_pmu_uart_polling_msg every 10 s, until the first command
Poll ==
    /\ MainAt("poll")
    /\ \/ ~m_pause_poll /\ main' = "print" /\ text' = "banner"
       \/ main' = "flush" /\ UNCHANGED text
    /\ UNCHANGED <<operator, command, m_pause_poll, m_cmd_current, config, queue, request, mc,
                   tick, uart, reports>>

PrintWait ==
    /\ MainAt("print") /\ ~lock
    /\ main' = "claim"
    /\ UNCHANGED <<operator, command, text, m_pause_poll, m_cmd_current, config, queue, request,
                   mc, tick, uart, reports>>

PrintStart ==
    /\ MainAt("claim") /\ StartTx(text)
    /\ main' = "printing"
    /\ UNCHANGED <<operator, command, text, m_pause_poll, m_cmd_current, config, queue, request,
                   mc, tick, reports>>

AfterPrint == [banner |-> "flush", report |-> "clear", menu |-> "poll"]

PrintEnd ==
    /\ MainAt("printing") /\ EndTx
    /\ main' = AfterPrint[text] /\ text' = Nothing
    /\ UNCHANGED <<operator, command, m_pause_poll, m_cmd_current, config, queue, request, mc,
                   tick, reports>>

\* sm_uart_process, its beginning: print the report a callback left.
Flush ==
    /\ MainAt("flush")
    /\ IF m_cmd_current THEN main' = "print" /\ text' = "report"
                        ELSE main' = "get" /\ UNCHANGED text
    /\ UNCHANGED <<operator, command, m_pause_poll, m_cmd_current, config, queue, request, mc,
                   tick, uart, reports>>

ClearReport ==
    /\ MainAt("clear")
    /\ m_cmd_current' = FALSE
    /\ main' = "get"
    /\ UNCHANGED <<operator, command, text, m_pause_poll, config, queue, request, mc, tick, uart,
                   reports>>

\* mutant: a word no handler matches goes to a writing one
IsWriteAny(line) == line.name \notin Menus

\* The words whose handler writes a parameter.
IsWrite(line) == line.name \in Field

\* parse_command, unless it faults: what is dispatched.  Without a "=" the value is read
\* through a null pointer, and a word of more than nine bytes is copied past its buffer;
\* what the handler is given then is anything, or the name no longer matches.
Parsed == IF pair THEN {inbox} ELSE {line \in Command : line.name \in {inbox.name, "unknown"}}

\* sm_uart_process, the rest: take a line and dispatch on its first word.  EXIT
\* forces the banner once.
Get ==
    /\ MainAt("get")
    /\ \/ inbox = NoLine /\ main' = "poll"
          /\ UNCHANGED <<inbox, pair, command, text, m_pause_poll>>
       \/ /\ inbox # NoLine /\ inbox' = NoLine /\ pair' = TRUE
          /\ m_pause_poll' = TRUE
          /\ \E line \in Parsed :
                \/ /\ IsWrite(line) /\ main' = "value" /\ command' = line
                   /\ UNCHANGED text
                \/ /\ line.name \in Menus /\ main' = "print" /\ text' = "menu"
                   /\ UNCHANGED command
                \/ /\ line.name = "unknown" /\ main' = "poll"
                   /\ UNCHANGED <<command, text>>
    /\ UNCHANGED <<given, awaited, hasty, plain, TxEndFirst, m_cmd_current, config, queue, request,
                   mc, tick, uart, reports>>

\* parse_command, when the null pointer or the copy past the buffer ends in a fault.
Fault ==
    /\ MainAt("get") /\ inbox # NoLine /\ ~pair
    /\ inbox' = NoLine /\ pair' = TRUE /\ m_pause_poll' = TRUE
    /\ main' = "fault"
    /\ UNCHANGED <<given, awaited, hasty, plain, TxEndFirst, command, text, m_cmd_current, config,
                   queue, request, mc, tick, uart, reports>>

\* msg_cmd_write_uv and its like: sm_ev_set_*, then sm_ev_config_co_set_cmd, which
\* registers the callback and pushes the request.
SetValue ==
    /\ MainAt("value")
    /\ m_data_write' = [m_data_write EXCEPT ![command.name] = command.value]
    /\ main' = "register"
    /\ UNCHANGED <<operator, command, text, m_pause_poll, m_cmd_current, m_cmd, refused, queue,
                   request, mc, tick, uart, reports>>

\* mutant: a callback already registered is kept
RegisterFirst ==
    /\ MainAt("register")
    /\ m_cmd' = IF m_cmd = Nothing THEN command.name ELSE m_cmd
    /\ main' = "push"
    /\ UNCHANGED <<operator, command, text, m_pause_poll, m_cmd_current, m_data_write, refused,
                   queue, request, mc, tick, uart, reports>>

Register ==
    /\ MainAt("register")
    /\ m_cmd' = command.name
    /\ main' = "push"
    /\ UNCHANGED <<operator, command, text, m_pause_poll, m_cmd_current, m_data_write, refused,
                   queue, request, mc, tick, uart, reports>>

\* mutant: a request for a parameter already being written is left out
PushCoalesced ==
    /\ MainAt("push")
    /\ IF Len(queue) < QueueLen
       THEN /\ queue' = IF serving # command.name THEN Append(queue, command.name) ELSE queue
            /\ refused' = refused \ {command.name}
       ELSE queue' = queue /\ refused' = refused \union {command.name}
    /\ main' = "poll" /\ command' = NoLine
    /\ UNCHANGED <<operator, text, m_pause_poll, m_cmd_current, m_data_write, m_cmd, request, mc,
                   tick, uart, reports>>

\* A full queue refuses, and nobody looks at the answer.
Push ==
    /\ MainAt("push")
    /\ IF Len(queue) < QueueLen
       THEN queue' = Append(queue, command.name) /\ refused' = refused \ {command.name}
       ELSE queue' = queue /\ refused' = refused \union {command.name}
    /\ main' = "poll" /\ command' = NoLine
    /\ UNCHANGED <<operator, text, m_pause_poll, m_cmd_current, m_data_write, m_cmd, request, mc,
                   tick, uart, reports>>

------------------------------------------------------------------------------
(* The timer interrupt: sm_co_process.                                      *)

TickTake ==
    /\ tick = "out" /\ serving = Nothing /\ queue # <<>>
    /\ serving' = Head(queue) /\ queue' = Tail(queue)
    /\ UNCHANGED <<operator, console, m_cmd_current, config, carried, result, mc, tick, uart,
                   reports>>

\* The value leaves m_data_write when the request does, not when it is queued.
TickStart ==
    /\ tick = "out" /\ serving # Nothing /\ carried = Nothing
    /\ carried' = m_data_write[serving]
    /\ UNCHANGED <<operator, console, m_cmd_current, config, queue, serving, result, mc, tick,
                   uart, reports>>

\* mutant: a request that ended is taken for a success
TickEndAssumes ==
    /\ tick = "out" /\ carried # Nothing /\ result = Nothing
    /\ result' = "success" /\ mc' \in {mc, [mc EXCEPT ![serving] = carried]}
    /\ UNCHANGED <<operator, console, m_cmd_current, config, queue, serving, carried, tick, uart,
                   reports>>

TickEnd ==
    /\ tick = "out" /\ carried # Nothing /\ result = Nothing
    /\ \/ result' = "success" /\ mc' = [mc EXCEPT ![serving] = carried]
       \/ result' = "abort" /\ mc' \in {mc, [mc EXCEPT ![serving] = carried]}
    /\ UNCHANGED <<operator, console, m_cmd_current, config, queue, serving, carried, tick, uart,
                   reports>>

Served == serving' = Nothing /\ carried' = Nothing /\ result' = Nothing

\* sm_bp_co_wrirte_sdo_cb calls the registered callback; the one of UV leaves its
\* report to the main loop, the others print it here, in the interrupt.  The value
\* printed is left out: it is read through a pointer to a handler's dead frame.
TickCallback ==
    /\ tick = "out" /\ result # Nothing
    /\ reports' = Append(reports, [told |-> m_cmd, field |-> serving, result |-> result])
    /\ IF m_cmd = "UV" THEN m_cmd_current' = TRUE /\ Served /\ UNCHANGED tick
                       ELSE tick' = "print" /\ UNCHANGED <<m_cmd_current, request>>
    /\ UNCHANGED <<operator, console, config, queue, mc, uart>>

\* mutant: the lock is not waited for
TickPrintStartUnlocked ==
    /\ tick = "print" /\ lock' = TRUE /\ tx' = "report" /\ m_tx_completed' = FALSE
    /\ tick' = "printing"
    /\ UNCHANGED <<operator, console, m_cmd_current, config, queue, request, mc, reports>>

TickPrintStart ==
    /\ tick = "print" /\ ~lock /\ StartTx("report")
    /\ tick' = "printing"
    /\ UNCHANGED <<operator, console, m_cmd_current, config, queue, request, mc, reports>>

TickPrintEnd ==
    /\ tick = "printing" /\ EndTx
    /\ Served /\ tick' = "out"
    /\ UNCHANGED <<operator, console, m_cmd_current, config, queue, mc, reports>>

------------------------------------------------------------------------------
Main == Poll \/ PrintWait \/ PrintStart \/ PrintEnd \/ Flush \/ ClearReport \/ Get \/ Fault
          \/ SetValue \/ Register \/ Push
Tick == /\ Runs
        /\ TickTake \/ TickStart \/ TickEnd \/ TickCallback \/ TickPrintStart \/ TickPrintEnd

Next == Type \/ TxEnd \/ Main \/ Tick

Spec == Init /\ [][Next]_vars

\* The processor runs, the timer keeps interrupting, transmissions end and so do
\* requests (AcceptedIsAnswered of CoreCo).
FairSpec == Spec /\ WF_vars(Main) /\ WF_vars(Tick) /\ WF_vars(TxEnd)

------------------------------------------------------------------------------
\* Every variable holds a value of its type.
TypeOK ==
    /\ inbox \in Command \union {NoLine} /\ given \in 0 .. Commands
    /\ pair \in BOOLEAN /\ awaited \in BOOLEAN /\ hasty \in BOOLEAN
    /\ plain \in BOOLEAN /\ TxEndFirst \in BOOLEAN
    /\ main \in {"poll", "print", "claim", "printing", "flush", "clear", "get", "value",
                 "register", "push", "fault"}
    /\ command \in [name : Field, value : Value] \union {NoLine}
    /\ text \in {"banner", "report", "menu", Nothing}
    /\ m_pause_poll \in BOOLEAN /\ m_cmd_current \in BOOLEAN
    /\ m_data_write \in [Field -> Value \union {NoValue}] /\ m_cmd \in Field \union {Nothing}
    /\ refused \subseteq Field
    /\ queue \in Seq(Field) /\ Len(queue) <= QueueLen
    /\ serving \in Field \union {Nothing} /\ carried \in Value \union {Nothing}
    /\ result \in {"success", "abort", Nothing}
    /\ mc \in [Field -> Value \union {NoValue}]
    /\ tick \in {"out", "print", "printing"}
    /\ lock \in BOOLEAN /\ tx \in {"banner", "report", "menu", Nothing}
    /\ m_tx_completed \in BOOLEAN
    /\ reports \in Seq([told : Field \union {Nothing}, field : Field,
                       result : {"success", "abort"}])

\* The main loop and the interrupt share one UART: a transfer is never started
\* over another's, and the lock is up exactly while one of the two is at it.
OnePrinter ==
    /\ lock <=> main = "printing" \/ tick = "printing"
    /\ ~(main = "printing" /\ tick = "printing")

\* While the operator waits for each answer, a report tells of the parameter whose
\* write has ended.
ToldField == ~hasty => \A i \in DOMAIN reports : reports[i].told = reports[i].field

\* sm_pmu_uart.c 287 prints "I_BAT written" in the I_BAT callback and so on: for any
\* operator a report should tell of the parameter whose write has ended.  It does not.
ToldFieldAlways == \A i \in DOMAIN reports : reports[i].told = reports[i].field

\* An operator who waits for each answer, has seen the last one, and whose last write
\* was reported a success, finds the value typed last in the motor controller.
SuccessIsInForce ==
    ~hasty /\ ~awaited /\ reports # <<>> /\ reports[Len(reports)].result = "success"
        => LET f == reports[Len(reports)].field IN mc[f] = m_data_write[f]

\* For an operator who waits, the report is true: it names the parameter that was
\* written, and the value reported as written is in force.
ReportIsTrue == ToldField /\ SuccessIsInForce

\* Everything typed has been performed.
Idle == inbox = NoLine /\ command = NoLine /\ queue = <<>> /\ serving = Nothing

\* However fast the operator types: when everything has been performed without an
\* abort, the motor controller holds the value typed last for each parameter whose last
\* request found room in the queue, though requests carry whatever m_data_write holds
\* when they leave, and requests before and after were refused.
LastValueWins ==
    Idle /\ (\A i \in DOMAIN reports : reports[i].result = "success") =>
        \A f \in Field \ refused : mc[f] = m_data_write[f]

\* While only UV and the menus are used, in lines of two words, something is printed after a
\* command the console knows, if only for the last of several typed in haste, whichever
\* interrupt has the higher priority: no callback prints in the interrupt, and parse_command
\* finds both its words.
CommandAnswered == awaited ~> ~awaited \/ ~plain

\* What the console offers (sm_pmu_uart.c 200 and the like): any command it knows is answered.
EveryCommandAnswered == awaited ~> ~awaited
==============================================================================
