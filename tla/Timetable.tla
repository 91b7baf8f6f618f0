------------------------------ MODULE Timetable ------------------------------
(***************************************************************************)
(* What a synchronous bus promises: time goes round a fixed table of slots *)
(* and every talker speaks at most once in each of its slots and at no     *)
(* other time.  Talkers with different slots never speak together.         *)
(***************************************************************************)
EXTENDS Integers

CONSTANTS Talker,        \* who speaks
          Columns, Rows, \* the table: 1 .. Columns in each of the rows 0 .. Rows
          Column, Row    \* a talker's column, and the set of rows it has it in

VARIABLES column, row, said

vars == <<column, row, said>>

\* Before the first slot column is 0.
Init == column = 0 /\ row = 0 /\ said = [t \in Talker |-> 0]

MyTurn(t) == column = Column[t] /\ row \in Row[t]

NextSlot ==
    /\ column' = IF column < Columns THEN column + 1 ELSE 1
    /\ row' = IF column < Columns THEN row ELSE IF row < Rows THEN row + 1 ELSE 0
    /\ said' = [t \in Talker |-> 0]

\* Talkers whose turn it is and who have not spoken in this slot
Speak == \E S \in SUBSET {t \in Talker : MyTurn(t) /\ said[t] = 0} :
    /\ said' = [t \in Talker |-> IF t \in S THEN 1 ELSE said[t]]
    /\ UNCHANGED <<column, row>>

Next == NextSlot \/ Speak
==============================================================================
