---------------------------- MODULE FileTransfer -----------------------------
(***************************************************************************)
(* Files sent over SDO from one node to another: sm_sv_file_transfer.c,    *)
(* sm_sv_file_receiver.c and the receiver's output to external flash       *)
(* (sm_sv_file_receiver_output_flash.c over the file storage of            *)
(* sm_ssl_file_storage_ex_flash_impl.c).                                   *)
(*                                                                         *)
(* A file is a number of bytes sent in frames; the data of a frame is told *)
(* by its file and place, and a checksum by what it was computed from.     *)
(* Below stands SdoAtomic: a download takes effect once or not at all,     *)
(* success means that it has, and after an abort the sender cannot know.   *)
(* So a retry may repeat what was done.                                    *)
(*                                                                         *)
(* The storage compares its limit with the bytes of data, but reads data,  *)
(* header and checksum into a buffer of that size.  So it may write a file *)
(* it cannot read back, and begins such a file anew.  The flash may fail,  *)
(* and the receiver may restart.                                           *)
(***************************************************************************)
EXTENDS Naturals, Sequences

CONSTANTS File, NoFile,
          FirstFile,    \* the file of descriptor 0
          FileSize,     \* the bytes of each file
          Frames,       \* and the frames they make
          FrameSize,    \* SM_FILE_FRAME_SIZE
          MaxFiles,     \* MAX_FILE_QUEUE
          RetryAllow,   \* RETRY_ALLOW
          MaxSize,      \* SSL_FILE_MAX_SIZE
          VerifyInfo,   \* SSL_VERIFY_INFO_SIZE: the bytes of header and checksum
          Requests      \* bound: files asked for in a behaviour

ASSUME FileAssumption ==
    /\ NoFile \notin File /\ FirstFile \in File
    /\ FileSize \in [File -> Nat \ {0}] /\ Frames \in [File -> Nat \ {0}]
    /\ FrameSize \in Nat \ {0}
    /\ \A f \in File : FileSize[f] - FrameSize * (Frames[f] - 1) \in 1 .. FrameSize
    /\ MaxFiles \in Nat \ {0} /\ RetryAllow \in Nat \ {0}
    /\ MaxSize \in Nat /\ VerifyInfo \in Nat /\ Requests \in Nat

VARIABLES
    queue,      \* m_info_queue, from tail to head
    cur,        \* m_cur_info: the file being transferred
    step,       \* m_process_stt and m_step: where the transfer stands
    retry,
    frame,      \* m_current_frame_id
    waiting,    \* m_isWaiting
    sdo,        \* the request under way: sent, done or refused by the receiver, or none
    rstate,     \* the receiver's m_process_stt
    addr,       \* m_memory_info: the address of a file
    file_size,  \* and its size
    frame_size, \* m_frame_storage: the size of a frame
    frame_data, \* and its data
    fd,         \* the file being written
    sum,        \* the size computed so far, and the frames of the checksum
    flash,      \* the files in flash: size and frames
    given,      \* how many files have been asked for
    answers,    \* history: the answers to the sender's application
    told,       \* history: the last event of the receiver's application
    overrun,    \* history: has the queue ever wrapped?
    spoiled,    \* history: has the flash ever failed?
    restarted   \* history: has the receiver ever restarted?

sender   == <<queue, cur, step, retry, frame, waiting>>
memory   == <<addr, file_size, frame_size, frame_data>>
output   == <<fd, sum>>
receiver == <<rstate, memory, output>>
past     == <<given, answers, overrun>>
faults   == <<spoiled, restarted>>
vars == <<sender, sdo, receiver, flash, told, past, faults>>

Torn       == <<NoFile, 0>>
Cells      == (File \X Nat) \union {Torn}
Contents   == [size : Nat, data : Seq(Cells)]
Empty      == [size |-> 0, data |-> <<>>]
Whole(f)   == [size |-> FileSize[f], data |-> [k \in 1 .. Frames[f] |-> <<f, k>>]]

\* The last frame of a file holds the rest.
SizeOf(f, k) == IF k = Frames[f] THEN FileSize[f] - FrameSize * (k - 1) ELSE FrameSize

Requested == {"ext", "addr", "size", "type",                        \* about the memory
              "frame id", "frame size", "frame data", "frame crc",  \* about a frame
              "file crc"}                                           \* about the file
Ends      == {"SUCCESS", "FAILED"}

Init ==
    /\ queue = <<>> /\ cur = NoFile /\ step = "IDLE" /\ retry = 0
    /\ frame = 0 /\ waiting = FALSE /\ sdo = "none"
    /\ rstate = "IDLE" /\ addr = NoFile /\ file_size = 0 /\ frame_size = 0 /\ frame_data = Torn
    /\ fd = FirstFile /\ sum = Empty /\ flash = [f \in File |-> Empty]
    /\ given = 0 /\ answers = <<>> /\ told = "none"
    /\ overrun = FALSE /\ spoiled = FALSE /\ restarted = FALSE

------------------------------------------------------------------------------
(* The sender.                                                              *)

\* mutant: a full queue keeps growing
PushedUnbounded(f) == Append(queue, f)

\* The indices wrap without a test: a queue that fills up is empty.
Pushed(f) == IF Len(queue) = MaxFiles - 1 THEN <<>> ELSE Append(queue, f)

\* sm_sv_file_transfer_add_request
AddRequest ==
    /\ given < Requests /\ given' = given + 1
    /\ \E f \in File : queue' = Pushed(f)
    /\ overrun' = (overrun \/ queue' = <<>>)
    /\ UNCHANGED <<cur, step, retry, frame, waiting, sdo, receiver, flash, answers, told,
                   faults>>

\* sm_sv_file_transfer_change_process_stt
Enter(s) == step' = s /\ retry' = 0

\* The callback of the application, and sm_sv_file_transfer_reset_transfer
Report(ok) ==
    /\ answers' = Append(answers, <<cur, ok>>) /\ step' = "IDLE"
    /\ UNCHANGED <<queue, cur, retry, frame, waiting, given, overrun>>

Take ==
    /\ step = "IDLE" /\ queue # <<>>
    /\ queue' = Tail(queue) /\ cur' = Head(queue)
    /\ Enter("PREPARE")
    /\ UNCHANGED <<frame, waiting, past>>

\* The file is read into memory, if it can be.
Prepare ==
    /\ step = "PREPARE"
    /\ \/ /\ Enter("ext") /\ frame' = 0
          /\ UNCHANGED <<queue, cur, waiting, past>>
       \/ Report(FALSE)

Load ==
    /\ \/ step = "load frame" /\ step' = "frame id" /\ UNCHANGED retry
       \/ step = "load info" /\ step' = "file crc" /\ UNCHANGED retry
       \/ step \in {"load frame", "load info"} /\ Enter("FAILED")
    /\ UNCHANGED <<queue, cur, frame, waiting, past>>

\* The send functions: one request at a time.  The result is not looked at: when the
\* request is not accepted, what is waited for never comes.
Send ==
    /\ step \in Requested /\ ~waiting /\ sdo = "none"
    /\ waiting' = TRUE /\ sdo' \in {"sent", "none"}
    /\ UNCHANGED <<queue, cur, step, retry, frame, past>>

Finish ==
    \/ step = "SUCCESS" /\ Report(TRUE)
    \/ step = "FAILED" /\ Report(FALSE)

\* mutant: a retry is not counted
AbortedUncounted == UNCHANGED <<step, retry>>

Aborted ==
    IF retry + 1 >= RetryAllow THEN Enter("FAILED")
    ELSE retry' = retry + 1 /\ UNCHANGED step

IsLast == frame + 1 = Frames[cur]

\* The step of the same state that follows another
Following(s) ==
    CASE s = "ext" -> "addr"            [] s = "addr" -> "size"
      [] s = "size" -> "type"           [] s = "frame id" -> "frame size"
      [] s = "frame size" -> "frame data" [] s = "frame data" -> "frame crc"

\* The last step of a state leads to the next frame or the next state.
Succeeded ==
    \/ /\ step \notin {"type", "frame crc", "file crc"}
       /\ step' = Following(step) /\ UNCHANGED <<retry, frame>>
    \/ step = "type" /\ Enter("load frame") /\ frame' = 0
    \/ step = "frame crc" /\ ~IsLast /\ Enter("load frame") /\ frame' = frame + 1
    \/ step = "frame crc" /\ IsLast /\ Enter("load info") /\ UNCHANGED frame
    \/ step = "file crc" /\ Enter("SUCCESS") /\ UNCHANGED frame

\* The callbacks of the requests; an answer may be lost on its way.
Answer ==
    /\ sdo # "none" /\ sdo' = "none" /\ waiting' = FALSE
    /\ \/ sdo = "done" /\ Succeeded
       \/ Aborted /\ UNCHANGED frame
    /\ UNCHANGED <<queue, cur, past>>

------------------------------------------------------------------------------
(* The receiver's confirm functions, called by its SDO server.              *)

Cell == <<cur, frame + 1>>

Refused == sdo' = "refused" /\ rstate' = "FAILED"

\* sm_sv_file_receiver_mem_ext_confirm_func, _frame_id_: nothing reads what they store.
Note ==
    /\ step \in {"ext", "frame id"}
    /\ sdo' = "done"
    /\ UNCHANGED <<receiver, flash, told, spoiled>>

\* Eight bytes from the start address on, so the size comes along.
NoteAddr ==
    /\ step = "addr" /\ addr' = cur /\ sdo' = "done"
    /\ UNCHANGED <<rstate, file_size, frame_size, frame_data, output, flash, told, spoiled>>

NoteSize ==
    /\ step = "size" /\ file_size' = FileSize[cur] /\ sdo' = "done"
    /\ UNCHANGED <<rstate, addr, frame_size, frame_data, output, flash, told, spoiled>>

\* mutant: the file is not emptied
CleanedNot(f) == flash

\* mutant: the whole flash is erased
CleanedAll(f) == [g \in File |-> Empty]

Cleaned(f) == [flash EXCEPT ![f] = Empty]

\* sm_sv_file_receiver_full_memory_info_confirm_func and sm_flash_output_init
Open ==
    /\ step = "type"
    /\ IF rstate # "IDLE" THEN Refused /\ UNCHANGED <<output, flash, told, spoiled>>
       ELSE /\ fd' = addr /\ sum' = Empty
            /\ \/ /\ addr # NoFile /\ flash' = Cleaned(addr) /\ sdo' = "done"
                  /\ rstate' = "LOADING" /\ told' = "start" /\ UNCHANGED spoiled
               \/ /\ addr # NoFile /\ flash' \in {flash, Cleaned(addr)}
                  /\ Refused /\ spoiled' = TRUE /\ UNCHANGED told
               \/ addr = NoFile /\ Refused /\ UNCHANGED <<flash, told, spoiled>>
    /\ UNCHANGED memory

NoteFrame ==
    /\ \/ step = "frame size" /\ frame_size' = SizeOf(cur, frame + 1) /\ UNCHANGED frame_data
       \/ step = "frame data" /\ frame_data' = Cell /\ UNCHANGED frame_size
    /\ sdo' = "done"
    /\ UNCHANGED <<rstate, addr, file_size, output, flash, told, spoiled>>

FrameValid == frame_size = SizeOf(cur, frame + 1) /\ frame_data = Cell

\* mutant: a frame more must fit
ReadableFrame(c) == c.size + FrameSize + VerifyInfo <= MaxSize

\* Header, data and checksum are read into a buffer of MaxSize.
Readable(c) == c.size + VerifyInfo <= MaxSize

\* sm_ssl_read_file, an unreadable file being empty: the checksum of a file too long is
\* looked for past the buffer, and may match by chance, for the data or what lies there.
Read(c) == IF Readable(c) THEN {c} ELSE {Empty, c, [c EXCEPT !.data = <<Torn>>]}

Joined(c)    == [size |-> c.size + frame_size, data |-> Append(c.data, frame_data)]
TooLong(c)   == c.size + frame_size > MaxSize
Written(c)   == [flash EXCEPT ![fd] = Joined(c)]

\* sm_sv_file_receiver_full_file_data_frame_confirm_func, sm_flash_output_save_frame and
\* sm_ssl_append_file: the whole file is read, erased and written again.  A file whose
\* reading fails is begun anew.
Save ==
    /\ step = "frame crc"
    /\ IF ~FrameValid \/ fd = NoFile
       THEN Refused /\ UNCHANGED <<sum, flash, spoiled>>
       ELSE \E c \in Read(flash[fd]) \union {Empty} :
              \/ /\ TooLong(c) /\ Refused /\ UNCHANGED <<sum, flash>>
                 /\ spoiled' = (spoiled \/ c \notin Read(flash[fd]))
              \/ /\ ~TooLong(c) /\ flash' = Written(c) /\ sum' = Joined(sum)
                 /\ spoiled' = (spoiled \/ c \notin Read(flash[fd]))
                 /\ sdo' = "done" /\ UNCHANGED rstate
              \/ /\ ~TooLong(c) /\ flash' \in {flash, Written(c), Cleaned(fd)}
                 /\ spoiled' = TRUE /\ Refused /\ UNCHANGED sum
    /\ UNCHANGED <<memory, fd, told>>

\* mutant: the size alone is compared, and not exactly
FileValidSize == sum.size >= file_size

\* sm_flash_output_check_valid_file: size and checksum as computed in RAM
FileValid == sum = Whole(cur) /\ sum.size = file_size

\* mutant: the state is left to time out
CloseForgets ==
    /\ step = "file crc"
    /\ IF FileValid THEN sdo' = "done" /\ UNCHANGED rstate ELSE Refused
    /\ UNCHANGED <<memory, output, flash, told, spoiled>>

\* sm_sv_file_receiver_full_file_info_confirm_func
Close ==
    /\ step = "file crc"
    /\ IF FileValid THEN sdo' = "done" /\ rstate' = "SUCCESS" ELSE Refused
    /\ UNCHANGED <<memory, output, flash, told, spoiled>>

Serve == Note \/ NoteAddr \/ NoteSize \/ Open \/ NoteFrame \/ Save \/ Close

\* A request lost on its way; the data of a frame may have come in part.
Lose ==
    /\ sdo = "sent" /\ sdo' = "refused"
    /\ \/ UNCHANGED frame_data
       \/ step = "frame data" /\ frame_data' = Torn
    /\ UNCHANGED <<rstate, addr, file_size, frame_size, output, flash, told, spoiled>>

------------------------------------------------------------------------------
(* sm_sv_file_receiver_process                                              *)

\* mutant: a time-out is logged only
ExpireLogged == rstate = "LOADING" /\ UNCHANGED <<rstate, memory, output, flash, told>>

\* LOADING_FILE_TIMEOUT since the last frame
Expire ==
    /\ rstate = "LOADING" /\ rstate' = "FAILED"
    /\ UNCHANGED <<memory, output, flash, told>>

End ==
    /\ rstate \in {"SUCCESS", "FAILED"} /\ rstate' = "IDLE" /\ told' = rstate
    /\ UNCHANGED <<memory, output, flash>>

\* Flash that is being written when the receiver restarts is lost.  Descriptor 0 is
\* what static memory starts with.
Restart ==
    /\ rstate' = "IDLE" /\ addr' = NoFile /\ file_size' = 0
    /\ frame_size' = 0 /\ frame_data' = Torn
    /\ fd' = FirstFile /\ sum' = Empty
    /\ \/ UNCHANGED flash
       \/ /\ sdo = "sent" /\ step \in {"type", "frame crc"} /\ fd # NoFile
          /\ flash' = Cleaned(fd)
    /\ told' = "none" /\ restarted' = TRUE
    /\ UNCHANGED <<sender, sdo, past, spoiled>>

------------------------------------------------------------------------------
Process == (Take \/ Prepare \/ Load \/ Finish) /\ UNCHANGED sdo

SenderStep == (Process \/ Send) /\ UNCHANGED <<receiver, flash, told, faults>>
Callback   == Answer /\ UNCHANGED <<receiver, flash, told, faults>>
ServerStep == sdo = "sent" /\ Serve /\ UNCHANGED <<sender, past, restarted>>
LoseRequest == Lose /\ UNCHANGED <<sender, past, restarted>>
ReceiverStep == (Expire \/ End) /\ UNCHANGED <<sender, sdo, past, faults>>

Next == AddRequest \/ SenderStep \/ Callback \/ ServerStep \/ LoseRequest \/ ReceiverStep \/ Restart

\* Both loops go round, a time-out runs out, and each SDO request ends.
Spec == Init /\ [][Next]_vars /\ WF_vars(SenderStep) /\ WF_vars(Callback) /\ WF_vars(ReceiverStep)

------------------------------------------------------------------------------
SenderType ==
    /\ queue \in Seq(File) /\ Len(queue) < MaxFiles
    /\ step \in Requested \union Ends \union {"IDLE", "PREPARE", "load frame", "load info"}
    /\ step # "IDLE" => cur \in File
    /\ retry \in Nat /\ retry < RetryAllow
    /\ frame \in Nat /\ (step \notin Ends \union {"IDLE", "PREPARE"} => frame < Frames[cur])

RequestType ==
    /\ sdo \in {"none", "sent", "done", "refused"} /\ waiting \in BOOLEAN
    /\ (sdo # "none" => waiting) /\ (waiting => step \in Requested)

ReceiverType ==
    /\ rstate \in {"IDLE", "LOADING", "SUCCESS", "FAILED"}
    /\ addr \in File \union {NoFile} /\ file_size \in Nat
    /\ frame_size \in Nat /\ frame_data \in Cells
    /\ fd \in File \union {NoFile} /\ sum \in Contents /\ flash \in [File -> Contents]

\* Every variable holds a value of its type; a request under way is that of the step.
TypeOK ==
    /\ SenderType /\ RequestType /\ ReceiverType
    /\ given \in 0 .. Requests /\ answers \in Seq(File \X BOOLEAN)

\* The storage can keep the file as a whole.
Fits(f) == FileSize[f] + VerifyInfo <= MaxSize

\* A transfer reported as success to the sender's application has left a file that fits as
\* it was sent, whatever was lost, repeated, timed out or restarted, if the flash has not
\* failed (sm_flash_output_check_valid_file).
SuccessIsCopied ==
    [][step = "SUCCESS" /\ step' = "IDLE" /\ Fits(cur) =>
          spoiled \/ flash[cur] = Whole(cur)]_vars

\* The receiver's application is told of success only when a file that fits is there,
\* unless the flash has failed (sm_sv_file_receiver_process).
ToldOfWhole ==
    [][rstate = "SUCCESS" /\ rstate' = "IDLE" /\ told' = "SUCCESS" =>
          spoiled \/ (fd # NoFile /\ (Fits(fd) => flash[fd] = Whole(fd)))]_vars

\* When the sender reports success the receiver has reported it too or is about to,
\* though it may have reported a failure in the middle.
EndsAgree ==
    [][step = "SUCCESS" /\ step' = "IDLE" /\ ~restarted =>
          rstate = "SUCCESS" \/ told = "SUCCESS"]_vars

\* A request has not been accepted: the sender waits for ever.
Stuck == waiting /\ sdo = "none"

\* Every file asked for is answered, success or not, unless the queue has wrapped or a
\* request was not accepted (RETRY_ALLOW bounds the retries).
Answered == \A n \in 1 .. Requests : given >= n ~> (Len(answers) >= n \/ overrun \/ Stuck)

\* The receiver always comes free for another file (LOADING_FILE_TIMEOUT).
ReceiverFrees == rstate # "IDLE" ~> rstate = "IDLE"

\* Neither end of the transfer is left waiting for the other.
BothEndsFree == Answered /\ ReceiverFrees

\* The abstract view, while no queue wraps, no flash fails and no receiver restarts
Calm == ~overrun /\ ~spoiled /\ ~restarted

Promise == INSTANCE FileDelivery WITH
    Sent <- Whole, Kept <- {f \in File : Fits(f)},
    pending <- IF step = "IDLE" THEN queue ELSE <<cur>> \o queue,
    answers <- answers, held <- flash

\* Files are delivered in order, each answered once, and a file that was delivered is
\* not touched until it is sent again; success means that a file that fits is there.
DeliverySpec == Promise!Init /\ [][Calm' => Promise!Next \/ UNCHANGED Promise!vars]_vars
==============================================================================
