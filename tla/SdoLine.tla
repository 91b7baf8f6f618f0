------------------------------- MODULE SdoLine --------------------------------
(***************************************************************************)
(* What the SDO request queue of sm_core_co promises its callers: accepted *)
(* requests stand in a line of bounded length, the first one is performed, *)
(* and its callback is then called, once, with the result of that request  *)
(* and of no other.  A callback may put one more request in the line.      *)
(***************************************************************************)
EXTENDS Naturals, Sequences

CONSTANTS Request, Room

VARIABLES line,     \* accepted and not yet answered, oldest first
          result,   \* how the first of the line ended, "none" until it does
          answers   \* the callbacks made, in order

vars == <<line, result, answers>>

Results == {"success", "abort"}

Init == line = <<>> /\ result = "none" /\ answers = <<>>

Accept ==
    /\ Len(line) < Room /\ \E r \in Request : line' = Append(line, r)
    /\ UNCHANGED <<result, answers>>

Perform ==
    /\ line # <<>> /\ result = "none" /\ result' \in Results
    /\ UNCHANGED <<line, answers>>

Answer ==
    /\ line # <<>> /\ result # "none"
    /\ answers' = Append(answers, <<Head(line), result>>)
    /\ \/ line' = Tail(line)
       \/ Len(line) <= Room /\ \E r \in Request : line' = Append(Tail(line), r)
    /\ result' = "none"

Next == Accept \/ Perform \/ Answer

Spec == Init /\ [][Next]_vars
==============================================================================
