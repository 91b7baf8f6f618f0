----------------------------- MODULE SdoAtomic -------------------------------
(***************************************************************************)
(* What the SDO transfers promise a client: one request at a time; an      *)
(* object changes only while a download of it is open, at one instant and  *)
(* to exactly what that download carries; success means that a download    *)
(* has taken effect, or that the buffer of an upload holds the object.     *)
(***************************************************************************)
EXTENDS Naturals, Sequences

CONSTANTS Objects, Initially, Requests

VARIABLES value,    \* what each object holds
          request,  \* the open request, a singleton of [op, mux], or {}
          buffer,   \* the caller's memory
          outcome   \* how the last request ended

vars == <<value, request, buffer, outcome>>

Init == value = Initially /\ request = {} /\ buffer = <<>> /\ outcome = "idle"

Begin ==
    /\ request = {} /\ \E r \in Requests : request' = {r}
    /\ outcome' = "busy"
    /\ UNCHANGED value

TakeEffect ==
    /\ \E o \in Objects : /\ request = {[op |-> "download", mux |-> o]}
                          /\ value' = [value EXCEPT ![o] = buffer]
    /\ UNCHANGED <<request, buffer, outcome>>

\* The segments of an upload arrive.
Fill ==
    /\ \E r \in request : r.op = "upload"
    /\ UNCHANGED <<value, request, outcome>>

Holds(o) == \E n \in 0 .. Len(buffer') : value[o] = SubSeq(buffer', 1, n)

Succeed ==
    /\ \E r \in request : /\ r.mux \in Objects => Holds(r.mux)
                          /\ r.op = "download" => UNCHANGED buffer
    /\ request' = {} /\ outcome' = "success"
    /\ UNCHANGED value

Fail ==
    /\ request # {} /\ request' = {} /\ outcome' = "abort"
    /\ UNCHANGED <<value, buffer>>

Next == Begin \/ TakeEffect \/ Fill \/ Succeed \/ Fail

Spec == Init /\ [][Next]_vars
==============================================================================
