------------------------------ MODULE OdStorage ------------------------------
(***************************************************************************)
(* The parameters of the object dictionary in flash: CO_OD_storage.c,      *)
(* CO_FLASH.c, and the objects 1010h (store) and 1011h (restore) of        *)
(* comm_od.c.  The power may fail between any two operations on the flash, *)
(* and an operation may fail.                                              *)
(*                                                                         *)
(* A region of flash is erased and then written; in between it is torn.    *)
(* A checksum stands for the contents it was computed from: two different  *)
(* contents are taken to have different ones.                              *)
(***************************************************************************)
CONSTANTS Val,      \* contents of a group of parameters
          Default,  \* those compiled in
          Torn      \* an erased or half-written region

ASSUME StorageAssumption == Default \in Val /\ Torn \notin Val

Group   == {"comm", "app"}
Command == {"none", "restore"}

VARIABLES data,     \* the two parameter regions in flash
          mark,     \* the signature in flash
          sign,     \* the signature in RAM
          ram,      \* the parameters in RAM
          job,      \* what the processor is at
          goal,     \* the groups of the command being performed
          todo,     \* the regions still to be written, the signature last
          erased,   \* has the region at hand been erased?
          given,    \* history: what commands to store found in each group since the reset
          stored,   \* history: what the signature last vouched for
          asked,    \* history: groups whose restoring was answered with success, and not
                    \* stored since a reset cut short has taken their mark
          troubled  \* history: a failure, a loss of power or a restore since the last
                    \* reset of the application

flashVars == <<data, mark>>
workVars  == <<job, goal, todo, erased>>
pastVars  == <<given, stored, asked, troubled>>
vars == <<flashVars, sign, ram, workVars, pastVars>>

Defaults  == [g \in Group |-> Default]
All(c)    == [g \in Group |-> c]
Sign      == [crc : [Group -> Val \union {Torn}], func : [Group -> Command]]

\* An erased signature reads as ones, which has the bit of RESTORE_PARA; one cut while
\* it is written has its function code but not its checksums, which come last.
TornSigns(s) == {[crc |-> All(Torn), func |-> f] : f \in {All("restore"), s.func}}

\* mutant: the checksum of the application parameters is not looked at
ValidFirst(s, d) == d["comm"] \in Val /\ s.crc["comm"] = d["comm"]

\* co_check_sign_is_valid: both checksums, of what is in flash
Valid(s, d) == \A g \in Group : d[g] \in Val /\ s.crc[g] = d[g]

Working == {"boot", "boot_bad", "store", "store_failed", "restore"}
Up      == job \in {"idle", "store", "store_failed", "restore"}

\* A device fresh from the factory, with nothing in its flash.
Init ==
    /\ data = All(Torn) /\ mark \in TornSigns([crc |-> All(Torn), func |-> All("restore")])
    /\ sign = mark /\ ram = Defaults
    /\ job = "off" /\ goal = {} /\ todo = {} /\ erased = FALSE
    /\ given = All({}) /\ stored = Defaults /\ asked = {} /\ troubled = TRUE

------------------------------------------------------------------------------
(* Reset: CO_OD_STORAGE_init.                                               *)

\* co_process_when_reset: the groups whose defaults are to be written to flash
ToRestore(s, isMain) ==
    IF ~isMain THEN {} ELSE IF ~Valid(s, data) THEN Group
    ELSE {g \in Group : s.func[g] = "restore"}

\* The groups that are loaded from flash; the others keep their defaults.
ToLoad(s, isMain) == IF Valid(s, data) THEN Group \ ToRestore(s, isMain) ELSE {}

\* The application's reset has left nothing to doubt.
Settled == asked' = {} /\ troubled' = FALSE

\* isMain: is_restore_valid, the application and not the boot loader.  A group is the part
\* of its region that is written and checksummed: the boot settings in front of the
\* application's parameters are loaded with them (118-121), but never written here.
PowerOn(isMain) ==
    /\ job = "off"
    /\ sign' = mark
    /\ ram' = [g \in Group |-> IF g \in ToLoad(mark, isMain) THEN data[g] ELSE Default]
    /\ goal' = ToRestore(mark, isMain)
    /\ IF goal' = {} THEN job' = "idle" /\ todo' = {}
                     ELSE job' = "boot" /\ todo' = goal' \union {"sign"}
    /\ IF isMain /\ goal' = {} THEN Settled ELSE UNCHANGED <<asked, troubled>>
    /\ UNCHANGED <<flashVars, erased, given, stored>>

PowerOff ==
    /\ job # "off" /\ job' = "off"
    /\ goal' = {} /\ todo' = {} /\ erased' = FALSE
    /\ sign' = mark /\ ram' = Defaults
    /\ troubled' = (troubled \/ job \in Working) /\ given' = All({})
    /\ UNCHANGED <<flashVars, stored, asked>>

------------------------------------------------------------------------------
(* Objects 1010h and 1011h, over SDO.                                       *)

Change ==
    /\ job = "idle"
    /\ \E g \in Group, v \in Val : ram' = [ram EXCEPT ![g] = v]
    /\ UNCHANGED <<flashVars, sign, workVars, pastVars>>

\* The confirm functions of 1010h, sub-indices 0, 1 and 2
Store(S) ==
    /\ job = "idle" /\ job' = "store"
    /\ goal' = S /\ todo' = S \union {"sign"}
    /\ given' = [g \in Group |-> given[g] \union IF g \in S THEN {ram[g]} ELSE {}]
    /\ asked' = asked \ {g \in S : sign.func[g] = "none"}
    /\ UNCHANGED <<flashVars, sign, ram, erased, stored, troubled>>

\* mutant: only one of the groups is marked
RestoreFirst(S) ==
    /\ job = "idle" /\ job' = "restore"
    /\ goal' = S /\ todo' = {"sign"}
    /\ LET g == CHOOSE g \in S : TRUE IN sign' = [sign EXCEPT !.func[g] = "restore"]
    /\ troubled' = TRUE
    /\ UNCHANGED <<flashVars, ram, erased, given, stored, asked>>

\* The confirm functions of 1011h: the defaults are restored by the next reset
Restore(S) ==
    /\ job = "idle" /\ job' = "restore"
    /\ goal' = S /\ todo' = {"sign"}
    /\ sign' = [sign EXCEPT !.func = [g \in Group |-> IF g \in S THEN "restore" ELSE @[g]]]
    /\ troubled' = TRUE
    /\ UNCHANGED <<flashVars, ram, erased, given, stored, asked>>

------------------------------------------------------------------------------
(* CO_FLASH_erase_and_write_to_flash on the first region of todo.           *)

Region == IF "comm" \in todo THEN "comm" ELSE IF "app" \in todo THEN "app" ELSE "sign"

Erase ==
    /\ todo # {} /\ ~erased /\ erased' = TRUE
    /\ IF Region = "sign" THEN mark' \in TornSigns(sign) /\ UNCHANGED data
                          ELSE data' = [data EXCEPT ![Region] = Torn] /\ UNCHANGED mark
    /\ UNCHANGED <<sign, ram, job, goal, todo, pastVars>>

\* mutant: storing both groups renews one checksum only
SealedFirst ==
    IF job = "boot" THEN [crc |-> ram, func |-> All("none")]
    ELSE [sign EXCEPT !.crc[CHOOSE g \in goal : TRUE] = ram[CHOOSE g \in goal : TRUE]]

\* mutant: the command to restore stays marked when it has been performed
SealedKeepsMark ==
    IF job = "boot" THEN [sign EXCEPT !.crc = ram]
    ELSE [sign EXCEPT !.crc = [g \in Group |-> IF g \in goal THEN ram[g] ELSE @[g]]]

\* The checksums are renewed after the last group, before the signature is written.
Sealed ==
    IF job = "boot" THEN [crc |-> ram, func |-> All("none")]
    ELSE [sign EXCEPT !.crc = [g \in Group |-> IF g \in goal THEN ram[g] ELSE @[g]]]

\* What signature s vouches for when the regions hold d
Vouched(s, d) ==
    [g \in Group |-> IF d[g] \in Val /\ s.crc[g] = d[g] THEN d[g] ELSE stored[g]]

WriteGroup ==
    /\ Region \in todo \ {"sign"} /\ erased /\ erased' = FALSE
    /\ data' = [data EXCEPT ![Region] = ram[Region]]
    /\ todo' = todo \ {Region}
    /\ sign' = IF todo' = {"sign"} THEN Sealed ELSE sign
    /\ job' = IF todo' = {} THEN "hung" ELSE job
    /\ stored' = IF Up THEN Vouched(mark, data') ELSE stored
    /\ UNCHANGED <<mark, ram, goal, given, asked, troubled>>

WriteSign ==
    /\ todo = {"sign"} /\ erased /\ erased' = FALSE
    /\ mark' = sign
    /\ goal' = {} /\ todo' = {} /\ job' = "idle"
    /\ stored' = Vouched(sign, data)
    /\ IF job = "boot" THEN Settled
       ELSE /\ asked' = IF job = "restore" THEN asked \union goal ELSE asked
            /\ UNCHANGED troubled
    /\ UNCHANGED <<data, sign, ram, given>>

\* The driver reports a failure, or what it has written does not compare equal.  At a
\* reset the other group is still tried and then the program stops for good.
FailGroup ==
    /\ Region \in todo \ {"sign"} /\ erased' = FALSE
    /\ IF job = "store"
       THEN /\ sign' = [sign EXCEPT !.func = All("restore")]
            /\ job' = "store_failed" /\ todo' = {"sign"}
       ELSE /\ todo' = todo \ {Region, "sign"}
            /\ job' = IF todo' = {} THEN "hung" ELSE "boot_bad"
            /\ UNCHANGED sign
    /\ troubled' = TRUE
    /\ UNCHANGED <<flashVars, ram, goal, given, stored, asked>>

\* 1010h calls CO_FLASH_error_handle and answers success all the same.
FailSign ==
    /\ todo = {"sign"} /\ erased' = FALSE
    /\ goal' = {} /\ todo' = {} /\ job' = IF job = "boot" THEN "hung" ELSE "idle"
    /\ troubled' = TRUE
    /\ UNCHANGED <<flashVars, sign, ram, given, stored, asked>>

------------------------------------------------------------------------------
Flash == Erase \/ WriteGroup \/ WriteSign \/ FailGroup \/ FailSign

Next ==
    \/ \E isMain \in BOOLEAN : PowerOn(isMain)
    \/ PowerOff \/ Change
    \/ \E S \in (SUBSET Group) \ {{}} : Store(S) \/ Restore(S)
    \/ Flash

Spec == Init /\ [][Next]_vars

------------------------------------------------------------------------------
\* Every variable holds a value of its type.
TypeOK ==
    /\ data \in [Group -> Val \union {Torn}] /\ mark \in Sign /\ sign \in Sign
    /\ ram \in [Group -> Val]
    /\ job \in Working \union {"off", "idle", "hung"}
    /\ goal \subseteq Group /\ todo \subseteq Group \union {"sign"} /\ erased \in BOOLEAN
    /\ given \in [Group -> SUBSET Val] /\ stored \in [Group -> Val]
    /\ asked \subseteq Group /\ troubled \in BOOLEAN

\* The next reset of the application may bring defaults.
InDoubt == ~Valid(mark, data) \/ \E g \in Group : mark.func[g] = "restore"

\* Only a failure, a loss of power in the middle of a command, or a command to
\* restore can cost stored parameters: without one, what is in flash is valid, is what
\* was last stored, and will be loaded.
IntactUnlessTroubled ==
    job \in {"idle", "off"} /\ ~troubled => ~InDoubt /\ data = stored

\* Parameters whose restoring was answered with success are the defaults after the
\* application's next reset, whatever is stored, fails or is cut off in between; only
\* the boot loader, after a reset of the application cut short, may store them again.
RestoreIsDone ==
    [][job' = "idle" /\ job \in {"off", "boot"} /\ asked' = {} =>
          \A g \in asked : ram'[g] = Default]_vars

\* The abstract view: what is kept is read from flash unless in doubt.
Promise == INSTANCE ParamStore WITH
    up <- Up, ram <- IF Up THEN ram ELSE Defaults,
    kept <- stored, doubt <- InDoubt

\* Store, restore and reset keep the promise of ParamStore, whatever fails.
ParamSpec == Promise!Spec
==============================================================================
