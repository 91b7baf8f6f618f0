---------------------------- MODULE FileDelivery -----------------------------
(***************************************************************************)
(* What a file transfer promises: files are delivered one at a time in the *)
(* order asked for; each request is answered once; only the file at hand   *)
(* changes at the receiver; an answer of success means it is there, whole, *)
(* if it is one the receiver can keep.                                     *)
(***************************************************************************)
EXTENDS Sequences

CONSTANTS File, Sent(_),
          Kept      \* the files the receiver can keep

VARIABLES pending,  \* the files asked for and not answered
          answers,  \* the answers, pairs of a file and success
          held      \* what the receiver holds

vars == <<pending, answers, held>>

Init == pending = <<>> /\ answers = <<>>

Ask == /\ \E f \in File : pending' = Append(pending, f)
       /\ UNCHANGED <<answers, held>>

Receive ==
    /\ pending # <<>>
    /\ \A f \in File : f # Head(pending) => held'[f] = held[f]
    /\ UNCHANGED <<pending, answers>>

Answer ==
    /\ pending # <<>> /\ pending' = Tail(pending)
    /\ \E ok \in BOOLEAN :
        /\ answers' = Append(answers, <<Head(pending), ok>>)
        /\ ok /\ Head(pending) \in Kept => held[Head(pending)] = Sent(Head(pending))
    /\ UNCHANGED held

Next == Ask \/ Receive \/ Answer
==============================================================================
