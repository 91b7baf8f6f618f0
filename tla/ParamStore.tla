----------------------------- MODULE ParamStore ------------------------------
(***************************************************************************)
(* What a device promises about its two groups of parameters: after every  *)
(* reset each group holds what was last stored or its default, never       *)
(* anything else, and exactly what was last stored unless there is doubt.  *)
(***************************************************************************)
CONSTANTS Group, Val, Default

VARIABLES up,       \* has the last reset been completed?
          ram,      \* the parameters in use
          given,    \* what commands to store were given for each group since the last reset
          kept,     \* what was last stored
          doubt     \* may the next reset fall back on defaults?

vars == <<up, ram, given, kept, doubt>>

Defaults == [g \in Group |-> Default]

Init == /\ up = FALSE /\ ram = Defaults /\ given = [g \in Group |-> {}] /\ kept = Defaults
        /\ doubt \in BOOLEAN

Change ==
    /\ up /\ \E g \in Group, v \in Val : ram' = [ram EXCEPT ![g] = v]
    /\ UNCHANGED <<up, given, kept, doubt>>

Command ==
    /\ up /\ \E S \in SUBSET Group :
            given' = [g \in Group |-> given[g] \union IF g \in S THEN {ram[g]} ELSE {}]
    /\ UNCHANGED <<up, ram, kept, doubt>>

Doubt == doubt' = TRUE /\ UNCHANGED <<up, ram, given, kept>>

Clear == doubt' = FALSE /\ UNCHANGED <<up, ram, given, kept>>

\* What becomes kept was given by a command, or is the default that a reset cut short
\* had written.
Commit ==
    /\ up /\ doubt
    /\ kept' \in [Group -> Val]
    /\ \A g \in Group : kept'[g] \in given[g] \union {kept[g], Default}
    /\ doubt' \in BOOLEAN
    /\ UNCHANGED <<up, ram, given>>

PowerOff ==
    /\ up' = FALSE /\ ram' = Defaults /\ given' = [g \in Group |-> {}]
    /\ UNCHANGED <<kept, doubt>>

\* A reset brings what was kept, or, in doubt, defaults for some of the groups; it
\* may or may not settle the doubt.
Boot ==
    /\ ~up /\ up' = TRUE
    /\ \/ ram' = kept /\ UNCHANGED <<kept, doubt>>
       \/ /\ doubt
          /\ ram' \in {[g \in Group |-> IF g \in S THEN Default ELSE kept[g]] : S \in SUBSET Group}
          /\ \/ kept' = ram' /\ doubt' = FALSE
             \/ UNCHANGED <<kept, doubt>>
    /\ UNCHANGED given

Next == Change \/ Command \/ Doubt \/ Clear \/ Commit \/ PowerOff \/ Boot

Spec == Init /\ [][Next]_vars
==============================================================================
