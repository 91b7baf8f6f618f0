-------------------------------- MODULE MCSdo --------------------------------
(* Object dictionaries and requests for the runs of SdoTransfer. *)
EXTENDS SdoTransfer, TLC

CONSTANTS shadow,   \* a download here is confirmed by the application
          temp,     \* and here copied at the end
          byte,     \* an expedited command object, like 1010h of comm_od.c
          direct,   \* neither staged nor confirmed; the runs choose whether it is writable
          flash,    \* takes effect after a reset
          app,      \* memory of a service, sm_co_sdo_server_set_handle
          absent    \* not in the dictionary

AllLen     == (shadow :> 3 @@ temp :> 5 @@ byte :> 1 @@ direct :> 3 @@ flash :> 1 @@ app :> 1)
AllBacking == (shadow :> "ext" @@ temp :> "temp" @@ byte :> "command" @@ direct :> "plain"
               @@ flash :> "reset" @@ app :> "handle")

Keep(f, S) == [x \in S |-> f[x]]

Mux1   == {shadow, temp, byte, direct, flash, app, absent}
Object1 == Mux1 \ {absent}
ReqLenOf == (shadow :> {3, 4} @@ temp :> {5, 7} @@ direct :> {1, 3} @@ absent :> {1}
             @@ byte :> {1} @@ flash :> {1} @@ app :> {1})
On(S, p) == [used |-> S, prompt |-> p]
AllSettings ==
    {On({shadow, direct, absent}, TRUE), On({byte, flash, app}, TRUE),
     On({temp, shadow}, TRUE), On({temp}, FALSE), On({direct, byte}, FALSE)}

\* What the refinement of SdoAtomic is proved from holds of these dictionaries.
ASSUME WholeAssumption == WholeObjects
==============================================================================
