------------------------------- MODULE SdoBus --------------------------------
(***************************************************************************)
(* What the CANopen SDO client and server of libs/canopen share: the       *)
(* object dictionary, the frames and the CAN bus that carries them.        *)
(*                                                                         *)
(* A payload is a model value; cell <<p, k>> stands for its k-th byte, so  *)
(* a torn, shifted or mixed copy shows.  A segment carries SegSize bytes   *)
(* (7 in the code) and an expedited transfer at most ExpSize (4).          *)
(***************************************************************************)
EXTENDS Integers, Sequences, FiniteSets

CONSTANTS
    Mux,        \* index and sub-index pairs a client may name
    Object,     \* those the server's object dictionary holds
    ObjLen,     \* the length of each object
    Writable,   \* objects with attribute ODA_SDO_W
    Readable,   \* objects with attribute ODA_SDO_R
    Backing,    \* where the server puts the bytes of a download, see below
    Payload,    \* what clients write
    Factory,    \* what the objects hold at first
    SegSize,    \* bytes in a segment frame
    ExpSize,    \* bytes in an expedited frame
    Depth,      \* bound: frames in flight in each direction
    NoMux

Backings == {"plain",    \* p_data
             "temp",     \* p_temp_data, copied to p_data at the end
             "reset",    \* p_temp_data with ODA_VWTE_after_reset: p_data follows at a reset
             "ext",      \* a shadow buffer; confirm_func answers copy_and_success
             "command",  \* a shadow buffer; confirm_func acts on it and answers success
             "handle"}   \* p_ext whose shadow is p_data, sm_co_sdo_server_set_handle

ASSUME ObjectAssumption ==
    /\ Object \subseteq Mux /\ NoMux \notin Mux
    /\ ObjLen \in [Object -> Nat \ {0}]
    /\ Writable \subseteq Object /\ Readable \subseteq Object
    /\ Backing \in [Object -> Backings]

ASSUME SizeAssumption ==
    /\ SegSize \in Nat \ {0} /\ ExpSize \in Nat \ {0}
    /\ Depth \in Nat \ {0}

VARIABLES toSrv,    \* frames on their way to the server, oldest first
          toCli     \* frames on their way to the client

busVars == <<toSrv, toCli>>

------------------------------------------------------------------------------
Junk == <<"junk", 0>>                   \* a byte nobody set
Bytes(p, n) == [i \in 1 .. n |-> <<p, i>>]

\* A frame is built from this one; a field its command does not use keeps this value.
\* last is the C bit of a segment and the E bit of an initiate frame.
NoFrame == [cs |-> "none", mux |-> NoMux, toggle |-> 0, last |-> FALSE,
            size |-> 0, bytes |-> <<>>]
Abort == [NoFrame EXCEPT !.cs = "abort"]

\* CO_memcpy of n bytes out of the 8 byte frame: what the sender did not fill is junk.
Taken(bytes, n) == [i \in 1 .. n |-> IF i <= Len(bytes) THEN bytes[i] ELSE Junk]

\* mutant: one byte short
WrittenShort(mem, off, bytes) ==
    [k \in DOMAIN mem |-> IF k \in off + 1 .. off + Len(bytes) - 1 THEN bytes[k - off] ELSE mem[k]]

\* CO_memcpy of bytes into mem at offset off
Written(mem, off, bytes) ==
    [k \in DOMAIN mem |-> IF k \in off + 1 .. off + Len(bytes) THEN bytes[k - off] ELSE mem[k]]

\* CO_CAN_send: the controller keeps the order of the frames it accepts, and one it
\* refuses is lost, since nobody looks at the result of sm_co_if_send.
Sent(channel, frame) == IF Len(channel) < Depth THEN Append(channel, frame) ELSE channel

Without(channel, i) ==
    [k \in 1 .. Len(channel) - 1 |-> IF k < i THEN channel[k] ELSE channel[k + 1]]

\* A frame is lost on the bus, or overwritten in the receive ring of sm_co_ra4m2_if.c.
Lose ==
    \/ \E i \in 1 .. Len(toSrv) : toSrv' = Without(toSrv, i) /\ UNCHANGED toCli
    \/ \E i \in 1 .. Len(toCli) : toCli' = Without(toCli, i) /\ UNCHANGED toSrv
==============================================================================
