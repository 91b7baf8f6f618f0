------------------------- MODULE FileTransferProofs --------------------------
(***************************************************************************)
(* A file that fits and is reported as delivered, at either end, is in     *)
(* flash as it was sent, for every set of files, frame size and limit and  *)
(* whatever was lost, repeated or restarted, as long as the flash has not  *)
(* failed.                                                                 *)
(*                                                                         *)
(* The receiver checks what it has accumulated in RAM, so the argument is  *)
(* that this agrees with the flash from the moment the file is opened, as  *)
(* long as what is accumulated can be read back: sizes only grow, so a     *)
(* file that fits has been readable after each of its frames.  A           *)
(* restart breaks that, but it also forgets the size of the file, and no   *)
(* file is accepted until a size has come and the file is opened again.    *)
(***************************************************************************)
EXTENDS FileTransfer, SequenceTheorems, TLAPS

\* The output holds in flash what its size and checksum were computed over.
InStep == file_size # 0 /\ ~spoiled => fd = cur /\ (Readable(sum) => flash[fd] = sum)

\* A file that fits is there.
There(f) == Fits(f) => flash[f] = Whole(f)

\* The step that opens a file has been done.
Opened == step = "type" /\ sdo = "done"

\* The step that closes a file has been done.
Closed == step = "SUCCESS" \/ (step = "file crc" /\ sdo = "done")

InData == step \in {"load frame", "frame id", "frame size", "frame data", "frame crc"}
InInfo == step \in {"load info", "file crc"}

\* The address is that of the file at hand once it has been sent, or lost by a restart.
AddrInv == step \in {"size", "type"} \/ (step = "addr" /\ sdo = "done") => addr \in {cur, NoFile}

StepInv == Opened \/ InData \/ InInfo => InStep

\* No earlier success is still to be reported while frames come in.
FreshInv == Opened \/ InData => rstate # "SUCCESS"

SentInv == Closed => spoiled \/ There(cur)

HeldInv == rstate = "SUCCESS" => spoiled \/ (fd # NoFile /\ There(fd))

IInv == AddrInv /\ StepInv /\ FreshInv /\ SentInv /\ HeldInv

------------------------------------------------------------------------------
\* The numbers of the constants (RETRY_ALLOW, MAX_FILE_QUEUE and the sizes of files).
LEMMA Sizes ==
    /\ RetryAllow \in Nat /\ RetryAllow > 0 /\ MaxFiles \in Nat /\ MaxFiles > 0
    /\ \A f \in File : Frames[f] \in Nat /\ Frames[f] > 0
    /\ \A f \in File : FileSize[f] \in Nat /\ FileSize[f] > 0
    /\ FrameSize \in Nat /\ MaxSize \in Nat /\ VerifyInfo \in Nat
  BY FileAssumption

\* The shape of a step of the sender: what it leaves alone, file by file.
LEMMA SenderFrame ==
    ASSUME SenderStep
    PROVE  /\ UNCHANGED <<rstate, addr, file_size, frame_size, frame_data, fd, sum, flash, told>>
           /\ UNCHANGED <<spoiled, restarted, given, overrun>>
           /\ \/ Take /\ UNCHANGED <<sdo, answers>>
              \/ step = "PREPARE" /\ Enter("ext") /\ frame' = 0
                 /\ UNCHANGED <<queue, cur, waiting, sdo, answers>>
              \/ /\ step \in Ends \union {"PREPARE"} /\ UNCHANGED sdo
                 /\ \E ok \in BOOLEAN : Report(ok)
                 /\ step = "SUCCESS" \/ answers' = Append(answers, <<cur, FALSE>>)
              \/ Load /\ UNCHANGED <<sdo, answers>>
              \/ Send /\ UNCHANGED answers
  BY DEF SenderStep, Process, Take, Prepare, Load, Finish, Send, Report, receiver, memory, output,
         past, faults, Ends

\* What an erased file, a file read and a file appended to hold
\* (sm_ssl_read_file, sm_ssl_append_file).
LEMMA ContentsType ==
    /\ Empty \in Contents /\ Torn \in Cells
    /\ \A c \in Contents : Read(c) \subseteq Contents
    /\ \A c \in Contents : frame_size \in Nat /\ frame_data \in Cells => Joined(c) \in Contents
<1>1. Torn \in Cells
  BY DEF Torn, Cells
<1>2. Empty \in Contents
  BY EmptySeq DEF Empty, Contents
<1>3. ASSUME NEW c \in Contents
      PROVE  Read(c) \subseteq Contents
  <2>1. <<Torn>> \in Seq(Cells)
    BY <1>1
  <2>2. [c EXCEPT !.data = <<Torn>>] \in Contents
    BY <2>1 DEF Contents
  <2> QED BY <1>2, <2>2 DEF Read
<1>4. ASSUME NEW c \in Contents, frame_size \in Nat, frame_data \in Cells
      PROVE  Joined(c) \in Contents
  <2>1. c.size + frame_size \in Nat /\ Append(c.data, frame_data) \in Seq(Cells)
    BY <1>4, AppendProperties DEF Contents
  <2> QED BY <2>1 DEF Joined, Contents
<1> QED BY <1>1, <1>2, <1>3, <1>4

\* What the saving of a frame comes to: a refusal, or a file written over the one that was
\* read, or a failure (sm_flash_output_save_frame).
LEMMA SaveCases ==
    ASSUME Save
    PROVE  /\ step = "frame crc" /\ UNCHANGED <<addr, file_size, frame_size, frame_data, fd, told>>
           /\ \/ Refused /\ UNCHANGED <<sum, flash>> /\ (spoiled => spoiled')
              \/ /\ FrameValid /\ fd # NoFile
                 /\ \E c \in Read(flash[fd]) \union {Empty} :
                      /\ ~TooLong(c)
                      /\ \/ /\ flash' = Written(c) /\ sum' = Joined(sum)
                            /\ spoiled' = (spoiled \/ c \notin Read(flash[fd]))
                            /\ sdo' = "done" /\ UNCHANGED rstate
                         \/ /\ flash' \in {flash, Written(c), Cleaned(fd)}
                            /\ spoiled' = TRUE /\ Refused /\ UNCHANGED sum
<1>1. CASE ~FrameValid \/ fd = NoFile
  BY <1>1 DEF Save, memory
<1>2. CASE FrameValid /\ fd # NoFile
  <2>1. PICK c \in Read(flash[fd]) \union {Empty} :
              \/ /\ TooLong(c) /\ Refused /\ UNCHANGED <<sum, flash>>
                 /\ spoiled' = (spoiled \/ c \notin Read(flash[fd]))
              \/ /\ ~TooLong(c) /\ flash' = Written(c) /\ sum' = Joined(sum)
                 /\ spoiled' = (spoiled \/ c \notin Read(flash[fd]))
                 /\ sdo' = "done" /\ UNCHANGED rstate
              \/ /\ ~TooLong(c) /\ flash' \in {flash, Written(c), Cleaned(fd)}
                 /\ spoiled' = TRUE /\ Refused /\ UNCHANGED sum
    BY <1>2 DEF Save
  <2>2. step = "frame crc" /\ UNCHANGED <<addr, file_size, frame_size, frame_data, fd, told>>
    BY DEF Save, memory
  <2> QED BY <1>2, <2>1, <2>2
<1> QED BY <1>1, <1>2

\* Every variable starts with a value of its type (sm_sv_file_transfer_create,
\* sm_sv_file_receiver_create_default).
LEMMA InitType == Init => TypeOK
<1> SUFFICES ASSUME Init PROVE TypeOK
  OBVIOUS
<1>1. SenderType
  BY FileAssumption, EmptySeq DEF Init, SenderType, Ends
<1>2. RequestType
  BY DEF Init, RequestType
<1>3. ReceiverType
  <2> QED BY ContentsType, FileAssumption DEF Init, ReceiverType, Cells, Torn
<1>4. given \in 0 .. Requests /\ answers \in Seq(File \X BOOLEAN)
  BY FileAssumption, EmptySeq DEF Init
<1> QED BY <1>1, <1>2, <1>3, <1>4 DEF TypeOK

\* A step of the sender's loop keeps the types (sm_sv_file_transfer_process).
LEMMA SenderTypeStep ==
    ASSUME TypeOK, SenderStep
    PROVE  TypeOK'
<1> USE SenderFrame
<1>1. ReceiverType' /\ given' \in 0 .. Requests
  BY DEF TypeOK, ReceiverType
<1>0. ASSUME step \notin Requested, UNCHANGED <<sdo, waiting>>
      PROVE  RequestType'
  <2>1. waiting = FALSE /\ sdo = "none"
    BY <1>0 DEF TypeOK, RequestType
  <2> QED BY <1>0, <2>1 DEF RequestType
<1>2. answers' \in Seq(File \X BOOLEAN)
  <2>1. CASE UNCHANGED answers
    BY <2>1 DEF TypeOK
  <2>2. CASE step \in Ends \union {"PREPARE"} /\ \E ok \in BOOLEAN : Report(ok)
    <3>1. PICK ok \in BOOLEAN : answers' = Append(answers, <<cur, ok>>)
      BY <2>2 DEF Report
    <3>2. <<cur, ok>> \in File \X BOOLEAN
      BY <2>2 DEF TypeOK, SenderType, Ends
    <3> QED BY <3>1, <3>2, AppendProperties DEF TypeOK
  <2> QED BY <2>1, <2>2
<1>3. CASE Take /\ UNCHANGED sdo
  <2>1. queue' \in Seq(File) /\ Len(queue') < MaxFiles /\ cur' \in File
    <3>1. Len(queue') = Len(queue) - 1 /\ Len(queue) \in Nat
      BY <1>3, HeadTailProperties, LenProperties DEF Take, TypeOK, SenderType
    <3> QED BY <1>3, <3>1, HeadTailProperties, Sizes DEF Take, TypeOK, SenderType
  <2>2. SenderType'
    BY <1>3, <2>1, FileAssumption DEF Take, Enter, TypeOK, SenderType, Ends
  <2>3. RequestType'
    BY <1>0, <1>3 DEF Take, Requested
  <2> QED BY <1>1, <1>2, <2>2, <2>3 DEF TypeOK
<1>4. CASE step = "PREPARE" /\ Enter("ext") /\ frame' = 0
  <2>1. cur \in File /\ UNCHANGED <<queue, cur, waiting, sdo>>
    BY <1>4 DEF Enter, Take, Report, Load, Send, Requested, Ends, TypeOK, SenderType
  <2>2. SenderType'
    BY <1>4, <2>1, FileAssumption DEF Enter, TypeOK, SenderType, Ends, Requested
  <2>3. RequestType'
    BY <1>0, <1>4, <2>1 DEF Requested
  <2> QED BY <1>1, <1>2, <2>2, <2>3 DEF TypeOK
<1>5. CASE step \in Ends \union {"PREPARE"} /\ UNCHANGED sdo /\ \E ok \in BOOLEAN : Report(ok)
  <2>1. SenderType'
    BY <1>5 DEF Report, TypeOK, SenderType, Ends
  <2>2. RequestType'
    BY <1>0, <1>5 DEF Report, Ends, Requested
  <2> QED BY <1>1, <1>2, <2>1, <2>2 DEF TypeOK
<1>6. CASE Load /\ UNCHANGED sdo
  <2>4. UNCHANGED <<queue, cur, frame, waiting>>
    BY <1>6 DEF Load
  <2>5. step \in {"load frame", "load info"} /\ step' \in {"frame id", "file crc", "FAILED"}
    BY <1>6 DEF Load, Enter
  <2>6. retry' \in {retry, 0}
    BY <1>6 DEF Load, Enter
  <2>7. retry' \in Nat /\ retry' < RetryAllow
    <3>1. retry \in Nat /\ retry < RetryAllow
      BY DEF TypeOK, SenderType
    <3>2. CASE retry' = retry
      BY <3>1, <3>2
    <3>3. CASE retry' = 0
      BY <3>3, Sizes
    <3> QED BY <2>6, <3>2, <3>3
  <2>8. queue' \in Seq(File) /\ Len(queue') < MaxFiles
    BY <2>4 DEF TypeOK, SenderType
  <2>9. cur' \in File /\ frame' \in Nat /\ frame' < Frames[cur']
    BY <2>4, <2>5 DEF TypeOK, SenderType, Ends
  <2>1. SenderType'
    BY <2>5, <2>7, <2>8, <2>9 DEF SenderType, Ends, Requested
  <2>2. RequestType'
    BY <1>0, <1>6, <2>4, <2>5 DEF Requested
  <2> QED BY <1>1, <1>2, <2>1, <2>2 DEF TypeOK
<1>7. CASE Send
  <2>1. SenderType'
    BY <1>7 DEF Send, TypeOK, SenderType
  <2>2. RequestType'
    BY <1>7 DEF Send, TypeOK, RequestType
  <2> QED BY <1>1, <1>2, <2>1, <2>2 DEF TypeOK
<1> QED BY <1>3, <1>4, <1>5, <1>6, <1>7

\* An answer keeps the types (the callbacks of sm_sv_file_transfer.c).
LEMMA CallbackType ==
    ASSUME TypeOK, Callback
    PROVE  TypeOK'
<1>1. /\ sdo # "none" /\ sdo' = "none" /\ waiting' = FALSE /\ step \in Requested /\ cur \in File
      /\ UNCHANGED <<queue, cur, given, answers>>
  BY DEF Callback, Answer, past, TypeOK, RequestType, SenderType, Requested
<1>2. ReceiverType'
  BY DEF Callback, receiver, memory, output, TypeOK, ReceiverType
<1>3. SenderType'
  <2> USE <1>1, FileAssumption
  <2>1. CASE Aborted /\ UNCHANGED frame
    <3>1. step' = "FAILED" \/ step' = step
      BY <2>1 DEF Aborted, Enter
    <3>2. retry' \in Nat /\ retry' < RetryAllow
      <4>1. retry' = 0 \/ (retry' = retry + 1 /\ ~(retry + 1 >= RetryAllow))
        BY <2>1 DEF Aborted, Enter
      <4>2. CASE retry' = 0
        BY <4>2, Sizes
      <4>3. CASE retry' = retry + 1 /\ ~(retry + 1 >= RetryAllow)
        <5>1. retry \in Nat /\ RetryAllow \in Nat
          BY Sizes DEF TypeOK, SenderType
        <5> QED BY <4>3, <5>1
      <4> QED BY <4>1, <4>2, <4>3
    <3> QED BY <2>1, <3>1, <3>2 DEF TypeOK, SenderType, Ends, Requested
  <2>2. CASE Succeeded
    <3>1. CASE step \notin {"type", "frame crc", "file crc"}
      <4>1. Following(step) \in Requested
        BY <3>1 DEF Following, Requested
      <4> QED BY <2>2, <3>1, <4>1 DEF Succeeded, TypeOK, SenderType, Ends, Requested
    <3>0. Frames[cur] \in Nat /\ 0 < Frames[cur] /\ 0 < RetryAllow /\ frame \in Nat
      BY Sizes DEF TypeOK, SenderType
    <3>2. CASE step = "type"
      <4>1. step' = "load frame" /\ retry' = 0 /\ frame' = 0
        BY <2>2, <3>2 DEF Succeeded, Enter
      <4> QED BY <3>0, <4>1 DEF TypeOK, SenderType, Ends
    <3>3. CASE step = "frame crc"
      <4>1. frame < Frames[cur]
        BY <3>3 DEF TypeOK, SenderType, Ends
      <4>2. /\ step' \in {"load frame", "load info"} /\ retry' = 0
            /\ frame' = frame \/ (frame' = frame + 1 /\ frame + 1 # Frames[cur])
        BY <2>2, <3>3 DEF Succeeded, IsLast, Enter
      <4>3. frame' \in Nat /\ frame' < Frames[cur]
        <5>1. CASE frame' = frame
          BY <3>0, <4>1, <5>1
        <5>2. CASE frame' = frame + 1 /\ frame + 1 # Frames[cur]
          <6>1. frame \in Nat /\ Frames[cur] \in Nat
            BY <3>0
          <6> QED BY <4>1, <5>2, <6>1
        <5> QED BY <4>2, <5>1, <5>2
      <4> QED BY <3>0, <4>2, <4>3 DEF TypeOK, SenderType, Ends
    <3>4. CASE step = "file crc"
      <4>1. step' = "SUCCESS" /\ retry' = 0 /\ frame' = frame
        BY <2>2, <3>4 DEF Succeeded, Enter
      <4> QED BY <3>0, <4>1 DEF TypeOK, SenderType, Ends
    <3> QED BY <3>1, <3>2, <3>3, <3>4
  <2> QED BY <2>1, <2>2 DEF Callback, Answer
<1>4. RequestType'
  BY <1>1 DEF RequestType
<1> QED BY <1>1, <1>2, <1>3, <1>4 DEF TypeOK

\* The frame that is sent is one of the file (sm_file_data_frame_t).
LEMMA CellType ==
    ASSUME TypeOK, step \in Requested
    PROVE  Cell \in Cells /\ SizeOf(cur, frame + 1) \in Nat
<1>1. cur \in File
  BY DEF TypeOK, SenderType, Requested
<1>2. frame + 1 \in Nat
  <2>1. frame \in Nat
    BY DEF TypeOK, SenderType
  <2> QED BY <2>1
<1>3. FileSize[cur] - FrameSize * (Frames[cur] - 1) \in Nat /\ FrameSize \in Nat
  BY <1>1, FileAssumption
<1> QED BY <1>1, <1>2, <1>3 DEF Cell, Cells, SizeOf

\* What every request served leaves alone (the confirm functions of
\* sm_sv_file_receiver.c).
LEMMA ServerFrame ==
    ASSUME ServerStep
    PROVE  /\ sdo = "sent" /\ sdo' \in {"done", "refused"}
           /\ UNCHANGED <<queue, cur, step, retry, frame, waiting, given, answers>>
           /\ \/ Note \/ NoteAddr \/ NoteSize \/ Open \/ NoteFrame \/ Save \/ Close
<1>1. sdo' \in {"done", "refused"}
  BY DEF ServerStep, Serve, Note, NoteAddr, NoteSize, Open, NoteFrame, Save, Close, Refused
<1> QED BY <1>1 DEF ServerStep, Serve, sender, past

\* A request served leaves the receiver with values of their types.
LEMMA ServerReceiver ==
    ASSUME TypeOK, ServerStep
    PROVE  ReceiverType'
<1>1. CASE Note
  BY <1>1 DEF Note, receiver, memory, output, TypeOK, ReceiverType
<1>2. CASE NoteAddr
  <2>1. addr' \in File \union {NoFile}
    BY <1>2 DEF NoteAddr, TypeOK, SenderType
  <2> QED BY <1>2, <2>1 DEF NoteAddr, output, TypeOK, ReceiverType
<1>3. CASE NoteSize
  <2>1. file_size' \in Nat
    BY <1>3, Sizes DEF NoteSize, TypeOK, SenderType
  <2> QED BY <1>3, <2>1 DEF NoteSize, output, TypeOK, ReceiverType
<1>4. CASE Open
  <2>1. fd' \in File \union {NoFile} /\ sum' \in Contents
    BY <1>4, ContentsType DEF Open, output, TypeOK, ReceiverType
  <2>2. flash' \in [File -> Contents]
    <3>1. Empty \in Contents /\ flash \in [File -> Contents]
      BY ContentsType DEF TypeOK, ReceiverType
    <3>2. Cleaned(addr) \in [File -> Contents]
      BY <3>1 DEF Cleaned
    <3>3. flash' \in {flash, Cleaned(addr)}
      BY <1>4 DEF Open
    <3> QED BY <3>1, <3>2, <3>3
  <2>3. rstate' \in {"IDLE", "LOADING", "FAILED"}
    BY <1>4 DEF Open, Refused
  <2> QED BY <1>4, <2>1, <2>2, <2>3 DEF Open, memory, TypeOK, ReceiverType
<1>5. CASE NoteFrame
  <2>1. frame_size' \in Nat /\ frame_data' \in Cells
    BY <1>5, CellType DEF NoteFrame, Requested, TypeOK, ReceiverType
  <2> QED BY <1>5, <2>1 DEF NoteFrame, output, TypeOK, ReceiverType
<1>6. CASE Save
  <2>0. /\ UNCHANGED <<addr, file_size, frame_size, frame_data, fd>>
        /\ sum \in Contents /\ flash \in [File -> Contents]
        /\ frame_size \in Nat /\ frame_data \in Cells
    BY <1>6, SaveCases DEF TypeOK, ReceiverType
  <2>1. CASE Refused /\ UNCHANGED <<sum, flash>>
    BY <2>0, <2>1 DEF Refused, TypeOK, ReceiverType
  <2>2. ASSUME fd # NoFile, NEW c \in Read(flash[fd]) \union {Empty},
               flash' \in {flash, Written(c), Cleaned(fd)}, sum' \in {sum, Joined(sum)},
               rstate' \in {rstate, "FAILED"}
        PROVE  ReceiverType'
    <3>1. fd \in File
      BY <2>2 DEF TypeOK, ReceiverType
    <3>2. c \in Contents /\ Empty \in Contents
      BY <2>0, <3>1, ContentsType
    <3>3. Joined(c) \in Contents /\ Joined(sum) \in Contents
      BY <2>0, <3>2, ContentsType
    <3>4. sum' \in Contents /\ flash' \in [File -> Contents]
      BY <2>0, <2>2, <3>2, <3>3 DEF Written, Cleaned
    <3> QED BY <2>0, <2>2, <3>4 DEF TypeOK, ReceiverType
  <2> QED BY <1>6, <2>1, <2>2, SaveCases DEF Refused
<1>7. CASE Close
  BY <1>7 DEF Close, Refused, memory, output, TypeOK, ReceiverType
<1> QED BY ServerFrame, <1>1, <1>2, <1>3, <1>4, <1>5, <1>6, <1>7

\* The types of the sender's side hold whenever it is left alone.
LEMMA SenderAlone ==
    ASSUME TypeOK, UNCHANGED <<queue, cur, step, retry, frame, waiting, given, answers>>,
           sdo' = sdo \/ (sdo # "none" /\ sdo' \in {"sent", "done", "refused"}),
           ReceiverType'
    PROVE  TypeOK'
<1>1. SenderType'
  BY DEF TypeOK, SenderType
<1>2. RequestType'
  BY DEF TypeOK, RequestType
<1> QED BY <1>1, <1>2 DEF TypeOK

\* A lost request, the receiver's loop and its restart leave values of their types.
LEMMA ReceiverTypeStep ==
    ASSUME TypeOK, LoseRequest \/ ReceiverStep \/ Restart
    PROVE  TypeOK'
<1>1. CASE LoseRequest
  <2>1. ReceiverType'
    BY <1>1, ContentsType DEF LoseRequest, Lose, output, TypeOK, ReceiverType
  <2> QED BY <1>1, <2>1, SenderAlone DEF LoseRequest, Lose, sender, past
<1>2. CASE ReceiverStep
  <2>1. ReceiverType'
    BY <1>2 DEF ReceiverStep, Expire, End, memory, output, TypeOK, ReceiverType
  <2> QED BY <1>2, <2>1, SenderAlone DEF ReceiverStep, sender, past
<1>3. CASE Restart
  <2>1. flash' \in [File -> Contents] /\ sum' \in Contents
    <3>1. Empty \in Contents /\ flash \in [File -> Contents]
      BY ContentsType DEF TypeOK, ReceiverType
    <3> QED BY <1>3, <3>1 DEF Restart, Cleaned
  <2>2. ReceiverType'
    BY <1>3, <2>1, ContentsType, FileAssumption DEF Restart, ReceiverType
  <2> QED BY <1>3, <2>2, SenderAlone DEF Restart, sender, past
<1> QED BY <1>1, <1>2, <1>3

\* A request of the application keeps the types (sm_sv_file_transfer_add_request).
LEMMA AddType ==
    ASSUME TypeOK, AddRequest
    PROVE  TypeOK'
<1>1. PICK f \in File : queue' = Pushed(f)
  BY DEF AddRequest
<1>2. Pushed(f) \in Seq(File) /\ Len(Pushed(f)) < MaxFiles
  <2>1. queue \in Seq(File) /\ Len(queue) \in Nat /\ Len(queue) < MaxFiles
    BY LenProperties DEF TypeOK, SenderType
  <2>2. CASE Len(queue) = MaxFiles - 1
    BY <2>2, Sizes, EmptySeq DEF Pushed
  <2>3. CASE Len(queue) # MaxFiles - 1
    <3>1. Append(queue, f) \in Seq(File) /\ Len(Append(queue, f)) = Len(queue) + 1
      BY <2>1, AppendProperties
    <3>2. Len(queue) + 1 < MaxFiles
      BY <2>1, <2>3, Sizes
    <3> QED BY <2>3, <3>1, <3>2 DEF Pushed
  <2> QED BY <2>2, <2>3
<1>3. SenderType'
  BY <1>1, <1>2 DEF AddRequest, TypeOK, SenderType
<1>4. RequestType' /\ ReceiverType'
  BY DEF AddRequest, receiver, memory, output, TypeOK, RequestType, ReceiverType
<1>5. given' \in 0 .. Requests /\ answers' \in Seq(File \X BOOLEAN)
  BY FileAssumption DEF AddRequest, TypeOK
<1> QED BY <1>3, <1>4, <1>5 DEF TypeOK

\* Every step keeps the types.
LEMMA TypeStep == TypeOK /\ [Next]_vars => TypeOK'
<1> SUFFICES ASSUME TypeOK, [Next]_vars PROVE TypeOK'
  OBVIOUS
<1>1. CASE ServerStep
  BY <1>1, ServerFrame, ServerReceiver, SenderAlone
<1>2. CASE UNCHANGED vars
  <2>1. ReceiverType'
    BY <1>2 DEF vars, receiver, memory, output, TypeOK, ReceiverType
  <2> QED BY <1>2, <2>1, SenderAlone DEF vars, sender, past
<1> QED BY <1>1, <1>2, AddType, SenderTypeStep, CallbackType, ReceiverTypeStep DEF Next

\* Every variable always holds a value of its type.
THEOREM FileType == Spec => []TypeOK
  BY InitType, TypeStep, PTL DEF Spec

------------------------------------------------------------------------------
\* The invariant says nothing of the sender's queue, counters and answers.
LEMMA InvAlone ==
    ASSUME IInv, UNCHANGED <<cur, step, sdo, rstate, addr, file_size, fd, sum, flash, spoiled>>
    PROVE  IInv'
<1>1. AddrInv' /\ FreshInv'
  BY DEF IInv, AddrInv, FreshInv, Opened, InData
<1>2. StepInv'
  BY DEF IInv, StepInv, InStep, Opened, InData, InInfo
<1>3. SentInv' /\ HeldInv'
  BY DEF IInv, SentInv, HeldInv, Closed, There, Whole
<1> QED BY <1>1, <1>2, <1>3 DEF IInv

\* A step of the sender's loop: it enters no state in which anything new is claimed
\* (sm_sv_file_transfer_process).
LEMMA SenderInv ==
    ASSUME TypeOK, IInv, SenderStep
    PROVE  IInv'
<1> USE SenderFrame
<1>1. HeldInv'
  BY DEF IInv, HeldInv, There, Whole
<1>2. CASE step' \in {"PREPARE", "ext", "IDLE", "FAILED"}
  BY <1>1, <1>2
  DEF IInv, AddrInv, StepInv, FreshInv, SentInv, Opened, Closed, InData, InInfo
<1>3. CASE Load /\ step' \notin {"FAILED"} /\ UNCHANGED sdo
  <2>1. /\ step \in {"load frame", "load info"} /\ cur' = cur
        /\ step' = IF step = "load frame" THEN "frame id" ELSE "file crc"
    BY <1>3 DEF Load, Enter
  <2>2. sdo' = "none"
    <3>1. step \notin Requested
      BY <2>1 DEF Requested
    <3> QED BY <1>3, <3>1 DEF TypeOK, RequestType
  <2>3. AddrInv' /\ SentInv' /\ FreshInv'
    BY <2>1, <2>2 DEF IInv, AddrInv, SentInv, FreshInv, Opened, Closed, InData
  <2>4. StepInv'
    BY <2>1, <2>2 DEF IInv, StepInv, InStep, Opened, InData, InInfo
  <2> QED BY <1>1, <2>3, <2>4 DEF IInv
<1>4. CASE Send
  <2>1. /\ step \in Requested /\ sdo' \in {"sent", "none"} /\ UNCHANGED <<step, cur>>
    BY <1>4 DEF Send
  <2>2. AddrInv' /\ SentInv' /\ FreshInv'
    BY <2>1 DEF IInv, AddrInv, SentInv, FreshInv, Opened, Closed, InData, Requested
  <2>3. StepInv'
    BY <2>1 DEF IInv, StepInv, InStep, Opened, InData, InInfo
  <2> QED BY <1>1, <2>2, <2>3 DEF IInv
<1>5. Take => step' = "PREPARE"
  BY DEF Take, Enter
<1>6. ASSUME \E ok \in BOOLEAN : Report(ok) PROVE step' = "IDLE"
  BY <1>6 DEF Report
<1> QED BY <1>2, <1>3, <1>4, <1>5, <1>6 DEF Enter

\* An answer: what the next step needs has been done by the receiver when the answer
\* says so (the callbacks of sm_sv_file_transfer.c).
LEMMA CallbackInv ==
    ASSUME TypeOK, IInv, Callback
    PROVE  IInv'
<1>1. /\ sdo' = "none"
      /\ UNCHANGED <<cur, rstate, addr, file_size, fd, sum, flash, spoiled>>
  BY DEF Callback, Answer, receiver, memory, output, faults
<1>2. HeldInv'
  BY <1>1 DEF IInv, HeldInv, There, Whole
<1>3. CASE step' = "FAILED"
  BY <1>2, <1>3 DEF IInv, AddrInv, StepInv, FreshInv, SentInv, Opened, Closed, InData, InInfo
<1>4. CASE UNCHANGED step /\ step \in Requested
  <2>1. AddrInv' /\ FreshInv' /\ SentInv'
    BY <1>1, <1>4
    DEF IInv, AddrInv, FreshInv, SentInv, Opened, Closed, InData, Requested
  <2>2. StepInv'
    BY <1>1, <1>4 DEF IInv, StepInv, InStep, Opened, InData, InInfo
  <2> QED BY <1>2, <2>1, <2>2 DEF IInv
<1>5. CASE sdo = "done" /\ Succeeded
  <2>1. step \in Requested
    BY <1>5 DEF TypeOK, RequestType
  <2>2. /\ step \in {"ext", "addr", "size"} => step' = Following(step)
        /\ step = "type" => step' = "load frame"
        /\ step \in {"frame id", "frame size", "frame data"} => step' = Following(step)
        /\ step = "frame crc" => step' \in {"load frame", "load info"}
        /\ step = "file crc" => step' = "SUCCESS"
    BY <1>5 DEF Succeeded, Enter
  <2>3. CASE step \in {"ext", "addr", "size"}
    <3>0. /\ Following("ext") = "addr" /\ Following("addr") = "size"
          /\ Following("size") = "type"
      BY DEF Following
    <3>1. \/ step = "ext" /\ step' = "addr"
          \/ step = "addr" /\ step' = "size"
          \/ step = "size" /\ step' = "type"
      BY <2>2, <2>3, <3>0
    <3> QED BY <1>1, <1>2, <1>5, <3>1
        DEF IInv, AddrInv, StepInv, FreshInv, SentInv, Opened, Closed, InData, InInfo
  <2>4. CASE step \in {"type", "frame id", "frame size", "frame data", "frame crc"}
    <3>1. step' \in {"load frame", "frame size", "frame data", "frame crc", "load info"}
      BY <2>2, <2>4 DEF Following
    <3>2. InStep /\ rstate # "SUCCESS"
      BY <1>5, <2>4 DEF IInv, StepInv, FreshInv, Opened, InData
    <3>3. InStep' /\ rstate' # "SUCCESS"
      BY <1>1, <3>2 DEF InStep
    <3> QED BY <1>1, <1>2, <3>1, <3>3
        DEF IInv, AddrInv, StepInv, FreshInv, SentInv, Opened, Closed
  <2>5. CASE step = "file crc"
    <3>1. SentInv'
      BY <1>1, <1>5, <2>5 DEF IInv, SentInv, Closed, There, Whole
    <3> QED BY <1>1, <1>2, <2>2, <2>5, <3>1
        DEF IInv, AddrInv, StepInv, FreshInv, Opened, InData, InInfo
  <2> QED BY <2>1, <2>3, <2>4, <2>5 DEF Requested
<1>6. CASE Aborted
  BY <1>3, <1>4, <1>6 DEF Aborted, Enter, Callback, Answer, TypeOK, RequestType
<1> QED BY <1>5, <1>6 DEF Callback, Answer

\* A request served: opening a file brings RAM and flash into step, saving a frame keeps
\* them so, closing a file compares them (the confirm functions of sm_sv_file_receiver.c).
LEMMA ServerInv ==
    ASSUME TypeOK, IInv, ServerStep
    PROVE  IInv'
<1>0. sdo = "sent" /\ sdo' \in {"done", "refused"} /\ UNCHANGED <<cur, step>>
  BY ServerFrame
<1>1. CASE Note
  <2>1. /\ step \in {"ext", "frame id"}
        /\ UNCHANGED <<rstate, addr, file_size, fd, sum, flash, spoiled>>
    BY <1>1 DEF Note, receiver, memory, output
  <2>2. StepInv'
    BY <1>0, <2>1 DEF IInv, StepInv, InStep, Opened, InData, InInfo
  <2> QED BY <1>0, <2>1, <2>2
      DEF IInv, AddrInv, FreshInv, SentInv, HeldInv, Opened, Closed, InData, There, Whole
<1>2. CASE NoteAddr
  <2>1. step = "addr" /\ addr' = cur /\ UNCHANGED <<rstate, fd, flash, spoiled>>
    BY <1>2 DEF NoteAddr, output
  <2> QED BY <1>0, <2>1
      DEF IInv, AddrInv, StepInv, FreshInv, SentInv, HeldInv, Opened, Closed, InData, InInfo,
          There, Whole
<1>3. CASE NoteSize
  <2>1. step = "size" /\ UNCHANGED <<rstate, addr, fd, flash, spoiled>>
    BY <1>3 DEF NoteSize, output
  <2> QED BY <1>0, <2>1
      DEF IInv, AddrInv, StepInv, FreshInv, SentInv, HeldInv, Opened, Closed, InData, InInfo,
          There, Whole
<1>4. CASE Open
  <2>1. step = "type" /\ addr' = addr /\ addr \in {cur, NoFile}
    BY <1>4 DEF Open, memory, IInv, AddrInv
  <2>2. CASE sdo' = "refused" /\ rstate' = "FAILED"
    BY <1>0, <2>1, <2>2
    DEF IInv, AddrInv, StepInv, FreshInv, SentInv, HeldInv, Opened, Closed, InData, InInfo
  <2>3. CASE /\ addr # NoFile /\ fd' = addr /\ sum' = Empty /\ flash' = Cleaned(addr)
             /\ rstate' = "LOADING"
    <3>1. addr = cur /\ cur \in File /\ flash'[addr] = Empty
      BY <2>1, <2>3 DEF Cleaned, TypeOK, SenderType, ReceiverType
    <3>2. InStep'
      BY <1>0, <2>3, <3>1 DEF InStep
    <3> QED BY <1>0, <2>1, <2>3, <3>2
        DEF IInv, AddrInv, StepInv, FreshInv, SentInv, HeldInv, Opened, Closed, InData, InInfo
  <2> QED BY <1>4, <2>2, <2>3 DEF Open, Refused
<1>5. CASE NoteFrame
  <2>1. /\ step \in {"frame size", "frame data"}
        /\ UNCHANGED <<rstate, addr, file_size, fd, sum, flash, spoiled>>
    BY <1>5 DEF NoteFrame, output
  <2>2. StepInv'
    BY <1>0, <2>1 DEF IInv, StepInv, InStep, Opened, InData, InInfo
  <2> QED BY <1>0, <2>1, <2>2
      DEF IInv, AddrInv, FreshInv, SentInv, HeldInv, Opened, Closed, InData, There, Whole
<1>6. CASE Save
  <2>1. /\ step = "frame crc" /\ UNCHANGED <<addr, file_size, fd>>
        /\ InStep /\ rstate # "SUCCESS" /\ rstate' \in {rstate, "FAILED"}
    BY <1>6, SaveCases DEF Refused, IInv, StepInv, FreshInv, InData
  <2>2. InStep'
    <3>1. CASE UNCHANGED <<flash, sum>> /\ (spoiled => spoiled')
      BY <1>0, <2>1, <3>1 DEF InStep, Readable
    <3>2. CASE spoiled' = TRUE
      BY <3>2 DEF InStep
    <3>3. ASSUME fd # NoFile, NEW c \in Read(flash[fd]) \union {Empty},
                 flash' = Written(c), sum' = Joined(sum),
                 spoiled' = (spoiled \/ c \notin Read(flash[fd]))
          PROVE  InStep'
      <4> SUFFICES ASSUME file_size # 0, ~spoiled, c \in Read(flash[fd])
                   PROVE  fd = cur /\ (Readable(sum)' => flash'[fd] = sum')
        BY <1>0, <2>1, <3>3 DEF InStep
      <4>1. fd = cur /\ (Readable(sum) => flash[fd] = sum)
        BY <2>1 DEF InStep
      <4>2. ASSUME Readable(sum)'
            PROVE  flash'[fd] = sum'
        <5>1. sum.size \in Nat /\ frame_size \in Nat /\ VerifyInfo \in Nat /\ MaxSize \in Nat
          BY Sizes DEF TypeOK, ReceiverType, Contents
        <5>2. sum.size + frame_size + VerifyInfo <= MaxSize
          BY <3>3, <4>2 DEF Readable, Joined
        <5>3. Readable(sum)
          BY <5>1, <5>2 DEF Readable
        <5>4. c = sum
          BY <4>1, <5>3 DEF Read
        <5>5. fd \in File /\ flash \in [File -> Contents]
          BY <3>3 DEF TypeOK, ReceiverType
        <5> QED BY <3>3, <5>4, <5>5 DEF Written
      <4> QED BY <4>1, <4>2
    <3> QED BY <1>6, <3>1, <3>2, <3>3, SaveCases
  <2> QED BY <1>0, <2>1, <2>2
      DEF IInv, AddrInv, StepInv, FreshInv, SentInv, HeldInv, Opened, Closed
<1>7. CASE Close
  <2>1. /\ step = "file crc" /\ InStep
        /\ UNCHANGED <<addr, file_size, fd, sum, flash, spoiled>>
    BY <1>7 DEF Close, memory, output, IInv, StepInv, InInfo
  <2>2. InStep'
    BY <1>0, <2>1 DEF InStep
  <2>3. CASE FileValid
    <3>1. spoiled \/ (fd = cur /\ There(cur))
      <4>1. cur \in File /\ FileSize[cur] > 0 /\ FileSize[cur] \in Nat
        BY <2>1, Sizes DEF TypeOK, SenderType
      <4>2. sum = Whole(cur) /\ sum.size = FileSize[cur] /\ file_size = FileSize[cur]
        BY <2>3 DEF FileValid, Whole
      <4>3. file_size # 0
        BY <4>1, <4>2
      <4>4. Fits(cur) => Readable(sum)
        BY <4>2 DEF Fits, Readable
      <4> QED BY <2>1, <4>2, <4>3, <4>4 DEF InStep, There
    <3>2. fd # NoFile \/ spoiled
      BY <2>1, <3>1, FileAssumption DEF TypeOK, SenderType
    <3>3. SentInv' /\ HeldInv'
      BY <1>0, <2>1, <3>1, <3>2 DEF SentInv, HeldInv, There, Whole
    <3> QED BY <1>0, <2>1, <2>2, <3>3 DEF IInv, AddrInv, StepInv, FreshInv, Opened, InData
  <2>4. CASE Refused
    BY <1>0, <2>1, <2>2, <2>4
    DEF Refused, IInv, AddrInv, StepInv, FreshInv, SentInv, HeldInv, Opened, Closed, InData
  <2> QED BY <1>7, <2>3, <2>4 DEF Close
<1> QED BY ServerFrame, <1>1, <1>2, <1>3, <1>4, <1>5, <1>6, <1>7

\* A restart forgets the size of the file, so no file is accepted before the next is
\* opened; the flash it may break is that of a file still being written.
LEMMA RestartInv ==
    ASSUME TypeOK, IInv, Restart
    PROVE  IInv'
<1>1. rstate' = "IDLE" /\ addr' = NoFile /\ file_size' = 0 /\ UNCHANGED <<cur, step, sdo, spoiled>>
  BY DEF Restart, sender
<1>2. flash' = flash \/ ~Closed
  BY DEF Restart, Closed
<1>3. SentInv'
  BY <1>1, <1>2 DEF IInv, SentInv, Closed, There, Whole
<1> QED BY <1>1, <1>3 DEF IInv, AddrInv, StepInv, InStep, FreshInv, HeldInv

\* Every step keeps the invariant.
LEMMA InvStep == TypeOK /\ IInv /\ [Next]_vars => IInv'
<1> SUFFICES ASSUME TypeOK, IInv, [Next]_vars PROVE IInv'
  OBVIOUS
<1>1. CASE AddRequest
  BY <1>1, InvAlone DEF AddRequest, receiver, memory, output, faults
<1>2. CASE LoseRequest
  <2>1. /\ sdo' = "refused" /\ sdo = "sent"
        /\ UNCHANGED <<cur, step, rstate, addr, file_size, fd, sum, flash, spoiled>>
    BY <1>2 DEF LoseRequest, Lose, sender, output
  <2>2. StepInv'
    BY <2>1 DEF IInv, StepInv, InStep, Opened, InData, InInfo
  <2> QED BY <2>1, <2>2
      DEF IInv, AddrInv, FreshInv, SentInv, HeldInv, Opened, Closed, InData, There, Whole
<1>3. CASE ReceiverStep
  <2>1. /\ rstate' \in {"FAILED", "IDLE"}
        /\ UNCHANGED <<cur, step, sdo, addr, file_size, fd, sum, flash, spoiled>>
    BY <1>3 DEF ReceiverStep, Expire, End, sender, memory, output, faults
  <2>2. StepInv' /\ SentInv'
    BY <2>1 DEF IInv, StepInv, InStep, SentInv, Opened, Closed, InData, InInfo, There, Whole
  <2> QED BY <2>1, <2>2 DEF IInv, AddrInv, FreshInv, HeldInv
<1>4. CASE UNCHANGED vars
  BY <1>4, InvAlone DEF vars, sender, receiver, memory, output, faults
<1> QED BY <1>1, <1>2, <1>3, <1>4, SenderInv, CallbackInv, ServerInv, RestartInv DEF Next

\* The invariant holds of every behaviour.
LEMMA Invariance == Spec => [](TypeOK /\ IInv)
<1>1. Init => IInv
  BY DEF Init, IInv, AddrInv, StepInv, FreshInv, SentInv, HeldInv, Opened, Closed, InData, InInfo
<1> QED BY <1>1, InitType, TypeStep, InvStep, PTL DEF Spec

\* A transfer reported as success to the sender's application has left a file that fits in
\* flash as it was sent, for any files, limit and number of retries
\* (sm_sv_file_transfer_process).
THEOREM SuccessMeansCopied == Spec => SuccessIsCopied
<1>1. IInv => (step = "SUCCESS" /\ step' = "IDLE" /\ Fits(cur) =>
                  spoiled \/ flash[cur] = Whole(cur))
  BY DEF IInv, SentInv, Closed, There
<1> QED BY <1>1, Invariance, PTL DEF SuccessIsCopied

\* The receiver's application is told of success of a file that fits only if it is there
\* (sm_sv_file_receiver_process).
THEOREM ToldMeansWhole == Spec => ToldOfWhole
<1>1. IInv => (rstate = "SUCCESS" /\ rstate' = "IDLE" /\ told' = "SUCCESS" =>
                  spoiled \/ (fd # NoFile /\ (Fits(fd) => flash[fd] = Whole(fd))))
  BY DEF IInv, HeldInv, There
<1> QED BY <1>1, Invariance, PTL DEF ToldOfWhole

------------------------------------------------------------------------------
(* While the receiver does not restart                                       *)

\* The size of the file has been sent.
Sized == (step = "size" /\ sdo = "done") \/ step = "type" \/ InData \/ InInfo

\* The receiver has a size once it has been sent, and after the step that closes a file
\* it has the success to report, or has reported it.
TalkInv == ~restarted =>
    /\ Sized => file_size # 0
    /\ Closed => rstate = "SUCCESS" \/ (rstate = "IDLE" /\ told = "SUCCESS")

\* A step of the sender's loop claims nothing new (sm_sv_file_transfer_process).
LEMMA SenderTalk ==
    ASSUME TypeOK, TalkInv, SenderStep
    PROVE  TalkInv'
<1> USE SenderFrame
<1>1. CASE step' \in {"PREPARE", "ext", "IDLE", "FAILED"}
  BY <1>1 DEF TalkInv, Sized, Closed, InData, InInfo
<1>2. CASE Load /\ step' \notin {"FAILED"} /\ UNCHANGED sdo
  <2>1. /\ step \in {"load frame", "load info"}
        /\ step' = IF step = "load frame" THEN "frame id" ELSE "file crc"
    BY <1>2 DEF Load, Enter
  <2>2. sdo' = "none"
    BY <1>2, <2>1 DEF TypeOK, RequestType, Requested
  <2> QED BY <2>1, <2>2 DEF TalkInv, Sized, Closed, InData, InInfo
<1>3. CASE Send
  <2>1. step \in Requested /\ sdo' \in {"sent", "none"} /\ UNCHANGED step
    BY <1>3 DEF Send
  <2> QED BY <2>1 DEF TalkInv, Sized, Closed, InData, InInfo, Requested
<1>4. Take => step' = "PREPARE"
  BY DEF Take, Enter
<1>5. ASSUME \E ok \in BOOLEAN : Report(ok) PROVE step' = "IDLE"
  BY <1>5 DEF Report
<1> QED BY <1>1, <1>2, <1>3, <1>4, <1>5 DEF Enter

\* An answer of success says that the receiver has done the step
\* (the callbacks of sm_sv_file_transfer.c).
LEMMA CallbackTalk ==
    ASSUME TypeOK, TalkInv, Callback
    PROVE  TalkInv'
<1>1. sdo' = "none" /\ UNCHANGED <<rstate, file_size, told, restarted>> /\ step \in Requested
  BY DEF Callback, Answer, receiver, memory, faults, TypeOK, RequestType
<1>2. CASE step' = "FAILED"
  BY <1>1, <1>2 DEF TalkInv, Sized, Closed, InData, InInfo
<1>3. CASE UNCHANGED step
  BY <1>1, <1>3 DEF TalkInv, Sized, Closed, InData, InInfo, Requested
<1>4. CASE sdo = "done" /\ Succeeded
  <2>1. /\ Following("ext") = "addr" /\ Following("addr") = "size" /\ Following("size") = "type"
        /\ Following("frame id") = "frame size" /\ Following("frame size") = "frame data"
        /\ Following("frame data") = "frame crc"
    BY DEF Following
  <2>2. /\ step = "ext" => step' = "addr"
        /\ step = "addr" => step' = "size"
        /\ step = "size" => step' = "type"
        /\ step = "type" => step' = "load frame"
        /\ step \in {"frame id", "frame size", "frame data"} =>
              step' \in {"frame size", "frame data", "frame crc"}
        /\ step = "frame crc" => step' \in {"load frame", "load info"}
        /\ step = "file crc" => step' = "SUCCESS"
    BY <1>4, <2>1 DEF Succeeded, Enter
  <2> QED BY <1>1, <1>4, <2>2 DEF TalkInv, Sized, Closed, InData, InInfo, Requested
<1> QED BY <1>2, <1>3, <1>4 DEF Callback, Answer, Aborted, Enter

\* A request served: closing a file leaves a success to report, and nothing is refused or
\* opened after that (the confirm functions of sm_sv_file_receiver.c).
LEMMA ServerTalk ==
    ASSUME TypeOK, TalkInv, ServerStep
    PROVE  TalkInv'
<1>0. sdo = "sent" /\ sdo' \in {"done", "refused"} /\ UNCHANGED <<cur, step, restarted>>
  BY ServerFrame DEF ServerStep
<1>1. CASE Note \/ NoteAddr \/ Open \/ NoteFrame \/ Save
  <2>1. /\ step \in {"ext", "frame id", "addr", "type", "frame size", "frame data", "frame crc"}
        /\ file_size' = file_size
    BY <1>1 DEF Note, NoteAddr, Open, NoteFrame, Save, receiver, memory
  <2> QED BY <1>0, <2>1 DEF TalkInv, Sized, Closed, InData, InInfo
<1>2. CASE NoteSize
  <2>1. step = "size" /\ file_size' # 0
    BY <1>2, Sizes DEF NoteSize, TypeOK, SenderType
  <2> QED BY <1>0, <2>1 DEF TalkInv, Sized, Closed, InData, InInfo
<1>3. CASE Close
  <2>1. step = "file crc" /\ file_size' = file_size /\ (sdo' = "done" => rstate' = "SUCCESS")
    BY <1>3 DEF Close, Refused, memory
  <2> QED BY <1>0, <2>1 DEF TalkInv, Sized, Closed, InData, InInfo
<1> QED BY ServerFrame, <1>1, <1>2, <1>3

\* Every step keeps it; a restart makes it say nothing.
LEMMA TalkStep == TypeOK /\ TalkInv /\ [Next]_vars => TalkInv'
<1> SUFFICES ASSUME TypeOK, TalkInv, [Next]_vars PROVE TalkInv'
  OBVIOUS
<1>1. CASE AddRequest \/ UNCHANGED vars
  <2>1. UNCHANGED <<step, sdo, rstate, file_size, told, restarted>>
    BY <1>1 DEF AddRequest, vars, sender, receiver, memory, faults
  <2> QED BY <2>1 DEF TalkInv, Sized, Closed, InData, InInfo
<1>2. CASE LoseRequest
  <2>1. sdo = "sent" /\ sdo' = "refused" /\ UNCHANGED <<step, rstate, file_size, told, restarted>>
    BY <1>2 DEF LoseRequest, Lose, sender
  <2> QED BY <2>1 DEF TalkInv, Sized, Closed, InData, InInfo
<1>3. CASE ReceiverStep
  <2>1. /\ UNCHANGED <<step, sdo, file_size, restarted>>
        /\ \/ rstate = "LOADING" /\ rstate' = "FAILED"
           \/ rstate \in {"SUCCESS", "FAILED"} /\ rstate' = "IDLE" /\ told' = rstate
    BY <1>3 DEF ReceiverStep, Expire, End, sender, memory, faults
  <2> QED BY <2>1 DEF TalkInv, Sized, Closed, InData, InInfo
<1>4. CASE Restart
  BY <1>4 DEF Restart, TalkInv
<1> QED BY <1>1, <1>2, <1>3, <1>4, SenderTalk, CallbackTalk, ServerTalk DEF Next

\* It holds of every behaviour.
LEMMA Talking == Spec => [](TypeOK /\ IInv /\ TalkInv)
<1>1. Init => TalkInv
  BY DEF Init, TalkInv, Sized, Closed, InData, InInfo
<1> QED BY <1>1, TalkStep, Invariance, PTL DEF Spec

\* When the sender reports success, the receiver has reported it too or is about to, for
\* any files and retries and whatever was lost, if it has not restarted
\* (sm_sv_file_receiver_process).
THEOREM BothReportSuccess == Spec => EndsAgree
<1>1. TalkInv => (step = "SUCCESS" /\ step' = "IDLE" /\ ~restarted =>
                     rstate = "SUCCESS" \/ told = "SUCCESS")
  BY DEF TalkInv, Closed
<1> QED BY <1>1, Talking, PTL DEF EndsAgree

------------------------------------------------------------------------------
(* Calm transfers implement FileDelivery                                     *)

\* What has been asked for and not answered
Pending == IF step = "IDLE" THEN queue ELSE <<cur>> \o queue

\* The steps of FileDelivery in the variables of the transfer
LEMMA DeliverySteps ==
    /\ Promise!Init <=> Pending = <<>> /\ answers = <<>>
    /\ Promise!Ask <=> /\ \E f \in File : Pending' = Append(Pending, f)
                       /\ answers' = answers /\ flash' = flash
    /\ Promise!Receive <=> /\ Pending # <<>>
                           /\ \A f \in File : f # Head(Pending) => flash'[f] = flash[f]
                           /\ Pending' = Pending /\ answers' = answers
    /\ Promise!Answer <=>
          /\ Pending # <<>> /\ Pending' = Tail(Pending)
          /\ \E ok \in BOOLEAN : /\ answers' = Append(answers, <<Head(Pending), ok>>)
                                 /\ ok /\ Head(Pending) \in {f \in File : Fits(f)} =>
                                       flash[Head(Pending)] = Whole(Head(Pending))
          /\ flash' = flash
    /\ UNCHANGED Promise!vars <=> Pending' = Pending /\ answers' = answers /\ flash' = flash
  BY DEF Promise!Init, Promise!Ask, Promise!Receive, Promise!Answer, Promise!vars, Pending

\* The file at hand stands in front of the queue.
LEMMA InFront ==
    ASSUME NEW f \in File, NEW q \in Seq(File)
    PROVE  /\ <<f>> \o q # <<>> /\ Head(<<f>> \o q) = f /\ Tail(<<f>> \o q) = q
           /\ \A g \in File : Append(<<f>> \o q, g) = <<f>> \o Append(q, g)
<1>1. <<f>> \in Seq(File) /\ Len(<<f>>) = 1 /\ <<f>>[1] = f
  OBVIOUS
<1>2. /\ <<f>> \o q \in Seq(File) /\ Len(<<f>> \o q) = 1 + Len(q) /\ Len(q) \in Nat
      /\ \A i \in 1 .. 1 + Len(q) : (<<f>> \o q)[i] = IF i <= 1 THEN f ELSE q[i - 1]
  BY <1>1, ConcatProperties, LenProperties
<1>3. <<f>> \o q # <<>>
  BY <1>2, EmptySeq
<1>4. Head(<<f>> \o q) = f
  BY <1>2, <1>3
<1>5. Tail(<<f>> \o q) = q
  <2>1. PICK s \in Seq(File) : s = <<f>> \o q
    BY <1>2
  <2>2. /\ Tail(s) \in Seq(File) /\ Len(Tail(s)) = Len(s) - 1
        /\ \A i \in 1 .. Len(Tail(s)) : Tail(s)[i] = s[i + 1]
    BY <1>3, <2>1, HeadTailProperties
  <2>3. Len(Tail(s)) = Len(q)
    BY <1>2, <2>1, <2>2
  <2>4. ASSUME NEW i \in 1 .. Len(q)
        PROVE  Tail(s)[i] = q[i]
    <3>1. i + 1 \in 1 .. 1 + Len(q) /\ ~(i + 1 <= 1) /\ i + 1 - 1 = i
      BY <1>2
    <3> QED BY <1>2, <2>1, <2>2, <2>3, <3>1
  <2>5. Tail(s) = q
    BY <2>2, <2>3, <2>4, SeqEqual
  <2> QED BY <2>1, <2>5
<1>6. ASSUME NEW g \in File
      PROVE  Append(<<f>> \o q, g) = <<f>> \o Append(q, g)
  <2>1. Append(q, g) = q \o <<g>> /\ Append(<<f>> \o q, g) = (<<f>> \o q) \o <<g>>
    BY <1>2, AppendIsConcat
  <2>2. <<g>> \in Seq(File)
    OBVIOUS
  <2> QED BY <1>1, <2>1, <2>2, ConcatAssociative
<1> QED BY <1>3, <1>4, <1>5, <1>6

\* A queue is its head in front of the rest.
LEMMA HeadInFront ==
    ASSUME NEW q \in Seq(File), q # <<>>
    PROVE  <<Head(q)>> \o Tail(q) = q
<1>1. Head(q) \in File /\ Tail(q) \in Seq(File) /\ Len(Tail(q)) = Len(q) - 1
      /\ \A i \in 1 .. Len(Tail(q)) : Tail(q)[i] = q[i + 1]
  BY HeadTailProperties
<1>2. <<Head(q)>> \in Seq(File) /\ Len(<<Head(q)>>) = 1 /\ <<Head(q)>>[1] = q[1]
  BY <1>1
<1>3. Len(q) \in Nat /\ Len(q) # 0
  BY LenProperties, EmptySeq
<1>4. PICK s \in Seq(File) : s = <<Head(q)>> \o Tail(q)
  BY <1>1, <1>2, ConcatProperties
<1>5. /\ Len(s) = Len(q)
      /\ \A i \in 1 .. Len(q) : s[i] = IF i <= 1 THEN q[1] ELSE Tail(q)[i - 1]
  BY <1>1, <1>2, <1>3, <1>4, ConcatProperties
<1>6. ASSUME NEW i \in 1 .. Len(q)
      PROVE  s[i] = q[i]
  <2>1. CASE i = 1
    BY <1>3, <1>5, <2>1
  <2>2. CASE i # 1
    <3>1. i - 1 \in 1 .. Len(Tail(q)) /\ ~(i <= 1) /\ (i - 1) + 1 = i
      BY <1>1, <1>3, <2>2
    <3> QED BY <1>1, <1>5, <3>1
  <2> QED BY <2>1, <2>2
<1>7. s = q
  BY <1>5, <1>6, SeqEqual
<1> QED BY <1>4, <1>7

\* A request that does not wrap the queue is accepted behind the others
\* (sm_sv_file_transfer_add_request).
LEMMA AddDelivers ==
    ASSUME TypeOK, AddRequest, ~overrun'
    PROVE  Promise!Ask
<1>1. PICK f \in File : queue' = Pushed(f) /\ queue' # <<>>
  BY DEF AddRequest
<1>2. queue' = Append(queue, f)
  BY <1>1 DEF Pushed
<1>3. Pending' = Append(Pending, f)
  <2>1. UNCHANGED <<step, cur>> /\ queue \in Seq(File)
    BY DEF AddRequest, TypeOK, SenderType
  <2>2. CASE step = "IDLE"
    BY <1>2, <2>1, <2>2 DEF Pending
  <2>3. CASE step # "IDLE"
    <3>1. cur \in File
      BY <2>3 DEF TypeOK, SenderType
    <3> QED BY <1>2, <2>1, <2>3, <3>1, InFront DEF Pending
  <2> QED BY <2>2, <2>3
<1> QED BY <1>3, DeliverySteps DEF AddRequest

\* A step of the sender's loop delivers nothing, or answers the file at hand, with success
\* only if it is there (sm_sv_file_transfer_process).
LEMMA SenderDelivers ==
    ASSUME TypeOK, IInv, SenderStep, ~spoiled
    PROVE  Promise!Answer \/ UNCHANGED Promise!vars
<1> USE SenderFrame
<1>t. queue \in Seq(File) /\ (step # "IDLE" => cur \in File)
  BY DEF TypeOK, SenderType
<1>1. CASE Take /\ UNCHANGED answers
  <2>1. step = "IDLE" /\ step' # "IDLE" /\ queue # <<>> /\ queue' = Tail(queue)
        /\ cur' = Head(queue)
    BY <1>1 DEF Take, Enter
  <2>2. Pending' = Pending
    BY <1>t, <2>1, HeadInFront DEF Pending
  <2> QED BY <1>1, <2>2, DeliverySteps
<1>2. CASE /\ UNCHANGED <<queue, cur, answers>> /\ step # "IDLE" /\ step' # "IDLE"
  BY <1>2, DeliverySteps DEF Pending
<1>3. CASE /\ step \in Ends \union {"PREPARE"}
           /\ \E ok \in BOOLEAN : Report(ok)
           /\ step = "SUCCESS" \/ answers' = Append(answers, <<cur, FALSE>>)
  <2>1. PICK ok \in BOOLEAN : Report(ok)
    BY <1>3
  <2>2. step # "IDLE" /\ step' = "IDLE" /\ queue' = queue
        /\ answers' = Append(answers, <<cur, ok>>)
    BY <1>3, <2>1 DEF Report, Ends
  <2>3. Pending # <<>> /\ Head(Pending) = cur /\ Pending' = Tail(Pending)
    BY <1>t, <2>2, InFront DEF Pending
  <2>4. step = "SUCCESS" /\ Fits(cur) => flash[cur] = Whole(cur)
    BY DEF IInv, SentInv, Closed, There
  <2>5. CASE step = "SUCCESS"
    BY <2>2, <2>3, <2>4, <2>5, DeliverySteps
  <2>6. CASE answers' = Append(answers, <<cur, FALSE>>)
    BY <2>3, <2>6, DeliverySteps
  <2> QED BY <1>3, <2>5, <2>6
<1>4. Load /\ UNCHANGED answers => UNCHANGED <<queue, cur, answers>>
                                   /\ step # "IDLE" /\ step' # "IDLE"
  BY DEF Load, Enter
<1>5. Send /\ UNCHANGED answers => UNCHANGED <<queue, cur, answers>>
                                   /\ step # "IDLE" /\ step' # "IDLE"
  BY DEF Send, Requested
<1>6. step = "PREPARE" /\ Enter("ext") => step # "IDLE" /\ step' # "IDLE"
  BY DEF Enter
<1> QED BY <1>1, <1>2, <1>3, <1>4, <1>5, <1>6

\* A request served touches the file at hand only (sm_flash_output_init,
\* sm_flash_output_save_frame).
LEMMA ServerDelivers ==
    ASSUME TypeOK, IInv, TalkInv, ServerStep, Calm'
    PROVE  Promise!Receive
<1>1. /\ sdo = "sent" /\ UNCHANGED <<queue, cur, step, answers, restarted>>
      /\ step \in Requested /\ cur \in File /\ queue \in Seq(File)
  <2>1. sdo = "sent" /\ UNCHANGED <<queue, cur, step, answers, restarted>>
    BY DEF ServerStep, sender, past
  <2>2. step \in Requested
    BY <2>1 DEF TypeOK, RequestType
  <2> QED BY <2>1, <2>2 DEF TypeOK, SenderType, Requested
<1>2. step # "IDLE"
  BY <1>1 DEF Requested
<1>3. Pending # <<>> /\ Head(Pending) = cur /\ Pending' = Pending
  BY <1>1, <1>2, InFront DEF Pending
<1>4. flash \in [File -> Contents]
  BY DEF TypeOK, ReceiverType
<1>5. ASSUME NEW g, flash' = Cleaned(cur) \/ flash' = flash \/ flash' = [flash EXCEPT ![cur] = g]
      PROVE  \A f \in File : f # cur => flash'[f] = flash[f]
  BY <1>4, <1>5 DEF Cleaned
<1>6. ServerStep => Note \/ NoteAddr \/ NoteSize \/ Open \/ NoteFrame \/ Save \/ Close
  BY DEF ServerStep, Serve
<1>7. CASE Note \/ NoteAddr \/ NoteSize \/ NoteFrame \/ Close
  <2>1. flash' = flash
    BY <1>7 DEF Note, NoteAddr, NoteSize, NoteFrame, Close
  <2> QED BY <1>1, <1>3, <2>1, DeliverySteps
<1>8. CASE Open
  <2>1. step = "type" /\ addr \in {cur, NoFile}
    BY <1>8 DEF Open, IInv, AddrInv
  <2>2. flash' = flash \/ flash' = Cleaned(cur)
    BY <1>8, <2>1 DEF Open
  <2> QED BY <1>1, <1>3, <1>5, <2>2, DeliverySteps
<1>9. CASE Save
  <2>1. step = "frame crc" /\ (spoiled => spoiled')
    BY <1>9, SaveCases
  <2>2. ~spoiled /\ ~restarted
    BY <1>1, <2>1 DEF Calm
  <2>3. file_size # 0 /\ InStep
    BY <2>1, <2>2 DEF TalkInv, Sized, InData, IInv, StepInv
  <2>4. fd = cur
    BY <2>2, <2>3 DEF InStep
  <2>5. flash' = flash \/ flash' = Cleaned(cur)
        \/ \E c : flash' = [flash EXCEPT ![cur] = c]
    BY <1>9, <2>4, SaveCases DEF Written
  <2> QED BY <1>1, <1>3, <1>5, <2>5, DeliverySteps
<1> QED BY <1>6, <1>7, <1>8, <1>9

\* For any files, retries and losses: until a queue wraps, the flash fails or the receiver
\* restarts, files are delivered in the order asked for, each is answered once, success
\* means that a file that fits is there, and it is not touched until it is sent again.
THEOREM TransferDelivers == Spec => DeliverySpec
<1>1. Init => Promise!Init
  BY DeliverySteps DEF Init, Pending
<1>2. TypeOK /\ IInv /\ TalkInv /\ [Next]_vars
         => [Calm' => Promise!Next \/ UNCHANGED Promise!vars]_vars
  <2> SUFFICES ASSUME TypeOK, IInv, TalkInv, Next, Calm'
               PROVE  Promise!Next \/ UNCHANGED Promise!vars
    OBVIOUS
  <2>1. CASE AddRequest
    BY <2>1, AddDelivers DEF Calm, Promise!Next
  <2>2. CASE SenderStep
    <3>1. ~spoiled
      BY <2>2 DEF SenderStep, faults, Calm
    <3> QED BY <2>2, <3>1, SenderDelivers DEF Promise!Next
  <2>3. CASE ServerStep
    BY <2>3, ServerDelivers DEF Promise!Next
  <2>4. CASE Callback
    <3>1. UNCHANGED <<queue, cur, answers, flash>> /\ step \in Requested
      BY <2>4 DEF Callback, Answer, past, TypeOK, RequestType
    <3>2. step' # "IDLE"
      <4>1. CASE Aborted
        BY <3>1, <4>1 DEF Aborted, Enter, Requested
      <4>2. CASE Succeeded
        BY <3>1, <4>2 DEF Succeeded, Following, Enter, Requested
      <4> QED BY <2>4, <4>1, <4>2 DEF Callback, Answer
    <3> QED BY <3>1, <3>2, DeliverySteps DEF Pending, Requested
  <2>5. CASE LoseRequest \/ ReceiverStep
    <3>1. UNCHANGED <<queue, cur, step, answers, flash>>
      BY <2>5 DEF LoseRequest, Lose, ReceiverStep, Expire, End, sender, past
    <3> QED BY <3>1, DeliverySteps DEF Pending
  <2>6. CASE Restart
    BY <2>6 DEF Restart, Calm
  <2> QED BY <2>1, <2>2, <2>3, <2>4, <2>5, <2>6 DEF Next
<1> QED BY <1>1, <1>2, Talking, PTL DEF Spec, DeliverySpec
==============================================================================
