-------------------------- MODULE OdStorageProofs ---------------------------
(***************************************************************************)
(* OdStorage for any contents of the parameters: without trouble what was  *)
(* stored stays and is loaded, a restore reported as done is done by the   *)
(* next reset, and store, restore and reset implement ParamStore.          *)
(***************************************************************************)
EXTENDS OdStorage, TLAPS

AllNone(s) == \A g \in Group : s.func[g] = "none"

\* Signature s vouches for what is in flash of g.
Vouches(s, g) == data[g] \in Val /\ s.crc[g] = data[g]

\* A reset writes defaults.  Unless something has failed, each group is still to be
\* written or has its value; the checksums follow the last.
BootInv ==
    /\ job \in {"boot", "boot_bad"} =>
          todo \subseteq goal \union {"sign"} /\ \A g \in goal : ram[g] = Default
    /\ job = "boot" =>
          /\ "sign" \in todo
          /\ \A g \in Group \ todo : data[g] = ram[g]
          /\ \A g \in Group \ goal : ram[g] \in {stored[g], Default}
          /\ todo = {"sign"} => AllNone(sign) /\ sign.crc = ram

StoreInv ==
    job = "store" =>
        /\ "sign" \in todo /\ todo \subseteq goal \union {"sign"}
        /\ \A g \in goal : ram[g] \in given[g]
        /\ \A g \in goal \ todo : data[g] = ram[g]
        /\ todo = {"sign"} => \A g \in goal : sign.crc[g] = ram[g]
        /\ ~troubled => AllNone(sign) /\ \A g \in Group \ goal : Vouches(sign, g)

\* The other jobs are at the signature or at nothing, and only trouble leads to them.
JobInv ==
    /\ job \in {"off", "idle", "hung"} => todo = {}
    /\ job \in {"restore", "store_failed"} =>
          todo = {"sign"} /\ (\E g \in Group : sign.func[g] = "restore")
    /\ job = "restore" => \A g \in goal : sign.func[g] = "restore"
    /\ job = "boot_bad" => "sign" \notin todo
    /\ job \in {"restore", "store_failed", "boot_bad", "hung"} => troubled
    /\ erased => /\ todo # {}
                 /\ Region = "sign" => mark.crc = All(Torn)
                 /\ Region # "sign" => data[Region] = Torn

\* A checksum without a mark to restore is that of what was stored, or vouches for it.
MarkInv ==
    AllNone(mark) \/ (Up /\ AllNone(sign)) =>
        \A g \in Group : mark.crc[g] \in Val => stored[g] = mark.crc[g]

SignInv ==
    Up /\ AllNone(sign) =>
        \A g \in Group : \/ job = "store" /\ g \in goal /\ todo # {"sign"}
                         \/ sign.crc[g] \in Val => sign.crc[g] \in {stored[g], data[g]}

\* What a signature vouches for was stored, given to be stored, or is the default.
KeptInv ==
    \A g \in Group :
        /\ Vouches(mark, g) => data[g] \in {stored[g], Default}
        /\ Up /\ Vouches(sign, g) => data[g] \in given[g] \union {stored[g], Default}

CleanInv ==
    job \in {"idle", "off"} /\ ~troubled =>
        /\ AllNone(mark) /\ sign = mark
        /\ \A g \in Group : Vouches(mark, g) /\ stored[g] = data[g]

\* A group to be restored is marked, or has no checksum that could be right.
Marked(s, g) == s.func[g] = "restore" \/ s.crc[g] = Torn

AskedInv ==
    \A g \in asked :
        /\ Marked(mark, g) /\ (Up => Marked(sign, g))
        /\ job = "store" /\ g \in goal => sign.func[g] = "restore"
        /\ job = "boot" => g \in goal

OffInv == job = "off" => sign = mark

StorageInv == /\ TypeOK /\ BootInv /\ StoreInv /\ JobInv /\ MarkInv /\ SignInv
              /\ KeptInv /\ CleanInv /\ AskedInv /\ OffInv

------------------------------------------------------------------------------
\* A signature is two functions of the groups, changed one at a time.
LEMMA SignParts ==
    ASSUME NEW s \in Sign, NEW g \in Group
    PROVE  /\ s.crc \in [Group -> Val \union {Torn}] /\ s.func \in [Group -> Command]
           /\ s.crc[g] \in Val \union {Torn} /\ s.func[g] \in {"none", "restore"}
BY DEF Sign, Command

LEMMA SignChanged ==
    ASSUME NEW s \in Sign, NEW c \in [Group -> Val \union {Torn}],
           NEW f \in [Group -> Command]
    PROVE  /\ [s EXCEPT !.crc = c] \in Sign /\ [s EXCEPT !.func = f] \in Sign
           /\ [s EXCEPT !.crc = c].crc = c /\ [s EXCEPT !.crc = c].func = s.func
           /\ [s EXCEPT !.func = f].func = f /\ [s EXCEPT !.func = f].crc = s.crc
           /\ [crc |-> c, func |-> f] \in Sign
BY DEF Sign

\* The signature of a torn region
LEMMA TornParts ==
    ASSUME NEW s \in Sign, NEW t \in TornSigns(s)
    PROVE  /\ t \in Sign /\ t.crc = All(Torn)
           /\ t.func = All("restore") \/ t.func = s.func
BY DEF TornSigns, Sign, All, Command

\* The signature over all that has been written
LEMMA SealedParts ==
    ASSUME TypeOK
    PROVE  /\ Sealed \in Sign
           /\ job = "boot" => Sealed.crc = ram /\ Sealed.func = All("none")
           /\ job # "boot" => /\ Sealed.func = sign.func
                              /\ \A g \in Group : Sealed.crc[g] = IF g \in goal THEN ram[g]
                                                                  ELSE sign.crc[g]
<1> DEFINE c == [g \in Group |-> IF g \in goal THEN ram[g] ELSE sign.crc[g]]
<1>1. ram \in [Group -> Val \union {Torn}] /\ sign \in Sign
  BY DEF TypeOK
<1>2. c \in [Group -> Val \union {Torn}]
  BY <1>1, SignParts
<1>3. All("none") \in [Group -> Command]
  BY DEF All, Command
<1>4. CASE job = "boot"
  BY <1>1, <1>3, <1>4, SignChanged DEF Sealed
<1>5. CASE job # "boot"
  <2>1. Sealed = [sign EXCEPT !.crc = c]
    BY <1>5 DEF Sealed
  <2>2. \A g \in Group : c[g] = IF g \in goal THEN ram[g] ELSE sign.crc[g]
    OBVIOUS
  <2> HIDE DEF c
  <2>3. Sealed \in Sign /\ Sealed.crc = c /\ Sealed.func = sign.func
    BY <1>1, <1>2, <1>3, <2>1, SignChanged
  <2>4. QED
    BY <1>5, <2>2, <2>3
<1>6. QED
  BY <1>4, <1>5

------------------------------------------------------------------------------
\* Types

LEMMA InitTypes == Init => TypeOK
<1> SUFFICES ASSUME Init
             PROVE  TypeOK
  OBVIOUS
<1>1. [crc |-> All(Torn), func |-> All("restore")] \in Sign
  BY DEF Sign, All, Command
<1>2. mark \in Sign /\ sign \in Sign
  BY <1>1, TornParts DEF Init
<1>3. QED
  BY <1>2, StorageAssumption DEF Init, TypeOK, All, Defaults

\* Every step keeps the types.
LEMMA TypesStep == TypeOK /\ [Next]_vars => TypeOK'
<1> SUFFICES ASSUME TypeOK, [Next]_vars
             PROVE  TypeOK'
  OBVIOUS
<1> USE DEF flashVars, workVars, pastVars
<1>1. ASSUME NEW isMain \in BOOLEAN, PowerOn(isMain)
      PROVE  TypeOK'
  <2>1. ToRestore(mark, isMain) \subseteq Group
    BY DEF ToRestore
  <2>2. ram' \in [Group -> Val]
    <3>1. \A g \in ToLoad(mark, isMain) : data[g] \in Val
      BY DEF ToLoad, Valid
    <3>2. QED
      BY <1>1, <3>1, StorageAssumption DEF PowerOn
  <2>3. asked' \subseteq Group /\ troubled' \in BOOLEAN
    BY <1>1 DEF PowerOn, Settled, TypeOK
  <2>4. goal' \subseteq Group /\ todo' \subseteq Group \union {"sign"}
        /\ job' \in Working \union {"off", "idle", "hung"}
    BY <1>1, <2>1 DEF PowerOn, Working
  <2>5. QED
    BY <1>1, <2>2, <2>3, <2>4 DEF PowerOn, TypeOK
<1>2. CASE PowerOff
  BY <1>2, StorageAssumption DEF PowerOff, TypeOK, Defaults, All
<1>3. CASE Change
  BY <1>3 DEF Change, TypeOK
<1>4. ASSUME NEW S \in SUBSET Group, Store(S)
      PROVE  TypeOK'
  <2>1. given' \in [Group -> SUBSET Val]
    BY <1>4 DEF Store, TypeOK
  <2>2. asked' \subseteq Group
    BY <1>4 DEF Store, TypeOK
  <2>3. QED
    BY <1>4, <2>1, <2>2 DEF Store, TypeOK, Working
<1>5. ASSUME NEW S \in SUBSET Group, Restore(S)
      PROVE  TypeOK'
  <2> DEFINE f == [g \in Group |-> IF g \in S THEN "restore" ELSE sign.func[g]]
  <2>1. f \in [Group -> Command]
    BY DEF TypeOK, Sign, Command
  <2>2. sign' = [sign EXCEPT !.func = f]
    BY <1>5 DEF Restore
  <2>3. sign' \in Sign
    <3> HIDE DEF f
    <3>1. All(Torn) \in [Group -> Val \union {Torn}]
      BY DEF All
    <3>2. QED
      BY <2>1, <2>2, <3>1, SignChanged DEF TypeOK
  <2>4. QED
    BY <1>5, <2>3 DEF Restore, TypeOK, Working
<1>6. CASE Erase
  <2>1. mark' \in Sign
    BY <1>6, TornParts DEF Erase, TypeOK
  <2>2. data' \in [Group -> Val \union {Torn}]
    BY <1>6 DEF Erase, TypeOK
  <2>3. QED
    BY <1>6, <2>1, <2>2 DEF Erase, TypeOK
<1>7. CASE WriteGroup
  <2>1. sign' \in Sign
    BY <1>7, SealedParts DEF WriteGroup, TypeOK
  <2>2. Region \in Group
    BY <1>7 DEF WriteGroup, Region, Group
  <2>3. data' \in [Group -> Val \union {Torn}]
    BY <1>7, <2>2 DEF WriteGroup, TypeOK
  <2>4. stored' \in [Group -> Val]
    BY <1>7, <2>3 DEF WriteGroup, TypeOK, Vouched
  <2>5. QED
    BY <1>7, <2>1, <2>3, <2>4 DEF WriteGroup, TypeOK
<1>8. CASE WriteSign
  <2>1. stored' \in [Group -> Val]
    BY <1>8 DEF WriteSign, TypeOK, Vouched
  <2>2. asked' \subseteq Group /\ troubled' \in BOOLEAN
    BY <1>8 DEF WriteSign, Settled, TypeOK
  <2>3. QED
    BY <1>8, <2>1, <2>2 DEF WriteSign, TypeOK
<1>9. CASE FailGroup
  <2>1. sign' \in Sign
    <3>1. All("restore") \in [Group -> Command] /\ All(Torn) \in [Group -> Val \union {Torn}]
      BY DEF All, Command
    <3>2. [sign EXCEPT !.func = All("restore")] \in Sign
      BY <3>1, SignChanged DEF TypeOK
    <3>3. QED
      BY <1>9, <3>2 DEF FailGroup, TypeOK
  <2>2. QED
    BY <1>9, <2>1 DEF FailGroup, TypeOK, Working
<1>10. CASE FailSign
  BY <1>10 DEF FailSign, TypeOK
<1>11. CASE UNCHANGED vars
  BY <1>11 DEF vars, TypeOK
<1>12. QED
  BY <1>1, <1>2, <1>3, <1>4, <1>5, <1>6, <1>7, <1>8, <1>9, <1>10, <1>11 DEF Next, Flash

------------------------------------------------------------------------------
\* The invariant is inductive: one lemma for each kind of step

\* All of it but the types
Others == /\ BootInv /\ StoreInv /\ JobInv /\ MarkInv /\ SignInv
          /\ KeptInv /\ CleanInv /\ AskedInv /\ OffInv

LEMMA InitStorage == Init => StorageInv
<1> SUFFICES ASSUME Init
             PROVE  StorageInv
  OBVIOUS
<1>1. job = "off" /\ todo = {} /\ ~erased /\ troubled /\ asked = {} /\ sign = mark
  BY DEF Init
<1>2. mark.crc = All(Torn)
  <2>1. [crc |-> All(Torn), func |-> All("restore")] \in Sign
    BY DEF Sign, All, Command
  <2>2. QED
    BY <2>1, TornParts DEF Init
<1>3. \A g \in Group : mark.crc[g] = Torn
  BY <1>2 DEF All
<1>4. MarkInv /\ SignInv /\ KeptInv
  BY <1>1, <1>3, StorageAssumption DEF MarkInv, SignInv, KeptInv, Up, Vouches
<1>5. BootInv /\ StoreInv /\ JobInv /\ CleanInv /\ AskedInv /\ OffInv
  BY <1>1 DEF BootInv, StoreInv, JobInv, CleanInv, AskedInv, OffInv
<1>6. QED
  BY <1>4, <1>5, InitTypes DEF StorageInv

LEMMA PowerOffStep ==
    ASSUME StorageInv, PowerOff
    PROVE  Others'
<1>1. /\ job' = "off" /\ todo' = {} /\ erased' = FALSE /\ sign' = mark
      /\ data' = data /\ mark' = mark /\ stored' = stored /\ asked' = asked
      /\ troubled' = (troubled \/ job \in Working)
  BY DEF PowerOff, flashVars
<1>2. BootInv' /\ StoreInv' /\ JobInv' /\ OffInv'
  BY <1>1 DEF BootInv, StoreInv, JobInv, OffInv
<1>3. MarkInv' /\ SignInv' /\ KeptInv' /\ AskedInv'
  BY <1>1
  DEF StorageInv, MarkInv, SignInv, KeptInv, AskedInv, Up, AllNone, Vouches, Marked
<1>4. CleanInv'
  <2>1. SUFFICES ASSUME ~troubled'
                 PROVE  CleanInv'
    BY DEF CleanInv
  <2>2. ~troubled /\ job \in {"idle", "off"}
    BY <1>1, <2>1 DEF StorageInv, TypeOK, JobInv, Working
  <2>3. QED
    BY <1>1, <2>2 DEF StorageInv, CleanInv, AllNone, Vouches
<1>5. QED
  BY <1>2, <1>3, <1>4 DEF Others

LEMMA ChangeStep ==
    ASSUME StorageInv, Change
    PROVE  Others'
<1>1. /\ job' = "idle" /\ job = "idle" /\ todo' = todo /\ erased' = erased
      /\ sign' = sign /\ data' = data /\ mark' = mark /\ stored' = stored /\ asked' = asked
      /\ troubled' = troubled /\ given' = given
  BY DEF Change, flashVars, workVars, pastVars
<1>2. BootInv' /\ StoreInv' /\ JobInv' /\ OffInv'
  BY <1>1 DEF StorageInv, BootInv, StoreInv, JobInv, OffInv
<1>3. MarkInv' /\ SignInv' /\ KeptInv' /\ AskedInv' /\ CleanInv'
  BY <1>1 DEF StorageInv, MarkInv, SignInv, KeptInv, AskedInv, CleanInv, Up, AllNone,
              Vouches, Marked
<1>4. QED
  BY <1>2, <1>3 DEF Others

\* CO_OD_STORAGE_init: loads what its signature vouches for, or begins to write defaults.
LEMMA PowerOnStep ==
    ASSUME StorageInv, NEW isMain \in BOOLEAN, PowerOn(isMain)
    PROVE  Others'
<1> DEFINE R == ToRestore(mark, isMain)
           L == ToLoad(mark, isMain)
<1>1. /\ job = "off" /\ todo = {} /\ ~erased /\ sign' = mark
      /\ data' = data /\ mark' = mark /\ stored' = stored /\ given' = given
      /\ goal' = R /\ erased' = erased
  BY DEF PowerOn, flashVars, StorageInv, JobInv
<1>2. /\ R \subseteq Group /\ L \subseteq Group \ R
      /\ \A g \in L : Vouches(mark, g)
      /\ \A g \in Group \ R : g \in L \/ ~Valid(mark, data)
  BY DEF ToRestore, ToLoad, Valid, Vouches
<1>3. \A g \in Group : ram'[g] = IF g \in L THEN data[g] ELSE Default
  BY DEF PowerOn
<1>4. \A g \in asked : Marked(mark, g)
  BY DEF StorageInv, AskedInv
<1>5. MarkInv
  BY DEF StorageInv
<1>6. MarkInv' /\ KeptInv'
  BY <1>1 DEF StorageInv, MarkInv, KeptInv, Up, AllNone, Vouches
<1>7. SignInv'
  BY <1>1, <1>5 DEF StorageInv, TypeOK, SignInv, MarkInv, AllNone, Up
<1>8. CASE R # {}
  <2>1. isMain
    BY <1>8 DEF ToRestore
  <2>2. /\ job' = "boot" /\ todo' = R \union {"sign"}
        /\ asked' = asked /\ troubled' = troubled
    BY <1>1, <1>8 DEF PowerOn
  <2>3. \A g \in Group \ R : g \in L
    BY <2>1 DEF ToRestore, ToLoad
  <2>4. BootInv'
    <3>1. todo' # {"sign"}
      BY <1>2, <1>8, <2>2 DEF Group
    <3>2. \A g \in Group \ R : ram'[g] = data[g] /\ data[g] \in {stored[g], Default}
      BY <1>2, <1>3, <2>3 DEF StorageInv, KeptInv
    <3>3. \A g \in R : ram'[g] = Default
      BY <1>2, <1>3
    <3>4. QED
      BY <1>1, <2>2, <3>1, <3>2, <3>3 DEF BootInv
  <2>5. AskedInv'
    <3>1. \A g \in asked : g \in R
      <4>1. SUFFICES ASSUME NEW g \in asked, g \notin R
                     PROVE  FALSE
        OBVIOUS
      <4>2. g \in Group
        BY DEF StorageInv, TypeOK
      <4>3. Vouches(mark, g) /\ mark.func[g] # "restore"
        BY <1>2, <2>1, <2>3, <4>1, <4>2 DEF ToRestore
      <4>4. QED
        BY <1>4, <4>3, StorageAssumption DEF Marked, Vouches
    <3>2. QED
      BY <1>1, <1>4, <2>2, <3>1 DEF AskedInv, Up, Marked
  <2>6. StoreInv' /\ JobInv' /\ CleanInv' /\ OffInv'
    BY <1>1, <2>2 DEF StoreInv, JobInv, CleanInv, OffInv
  <2>7. QED
    BY <1>6, <1>7, <2>4, <2>5, <2>6 DEF Others
<1>9. CASE R = {}
  <2>1. job' = "idle" /\ todo' = {}
    BY <1>1, <1>9 DEF PowerOn
  <2>2. BootInv' /\ StoreInv' /\ JobInv' /\ OffInv'
    BY <1>1, <2>1 DEF BootInv, StoreInv, JobInv, OffInv
  <2>3. CASE isMain
    <3>1. /\ asked' = {} /\ troubled' = FALSE
      BY <1>1, <1>9, <2>3 DEF PowerOn, Settled
    <3>2. \A g \in Group : Vouches(mark, g) /\ mark.func[g] = "none"
      BY <1>9, <2>3, SignParts DEF ToRestore, Valid, Vouches, StorageInv, TypeOK, Group
    <3>3. CleanInv'
      BY <1>1, <1>5, <3>2 DEF MarkInv, CleanInv, AllNone, Vouches
    <3>4. QED
      BY <1>6, <1>7, <2>2, <3>1, <3>3 DEF Others, AskedInv
  <2>4. CASE ~isMain
    <3>1. asked' = asked /\ troubled' = troubled
      BY <2>4 DEF PowerOn
    <3>2. CleanInv' /\ AskedInv'
      BY <1>1, <1>4, <2>1, <3>1 DEF StorageInv, CleanInv, AskedInv, AllNone, Vouches, Marked
    <3>3. QED
      BY <1>6, <1>7, <2>2, <3>2 DEF Others
  <2>5. QED
    BY <2>3, <2>4
<1>10. QED
  BY <1>8, <1>9

\* 1010h: a group is given and becomes due, its checksum no longer counts.
LEMMA StoreStep ==
    ASSUME StorageInv, NEW S \in (SUBSET Group) \ {{}}, Store(S)
    PROVE  Others'
<1>1. /\ job = "idle" /\ job' = "store" /\ goal' = S /\ todo' = S \union {"sign"}
      /\ todo = {} /\ ~erased /\ erased' = erased
      /\ sign' = sign /\ data' = data /\ mark' = mark /\ stored' = stored /\ ram' = ram
      /\ troubled' = troubled
      /\ asked' = asked \ {g \in S : sign.func[g] = "none"}
  BY DEF Store, flashVars, StorageInv, JobInv
<1>2. todo' # {"sign"}
  BY <1>1 DEF Group
<1>3. \A g \in Group : given[g] \subseteq given'[g] /\ (g \in S => ram[g] \in given'[g])
  BY DEF Store, StorageInv, TypeOK
<1>4. StoreInv'
  <2>1. troubled \/ (AllNone(sign) /\ \A g \in Group : Vouches(sign, g))
    BY <1>1 DEF StorageInv, CleanInv
  <2>2. QED
    BY <1>1, <1>2, <1>3, <2>1 DEF StoreInv, AllNone, Vouches
<1>5. BootInv' /\ JobInv' /\ OffInv' /\ CleanInv'
  BY <1>1 DEF BootInv, JobInv, OffInv, CleanInv
<1>6. MarkInv' /\ SignInv'
  BY <1>1 DEF StorageInv, MarkInv, SignInv, Up, AllNone
<1>7. KeptInv'
  BY <1>1, <1>3 DEF StorageInv, KeptInv, Up, Vouches
<1>8. AskedInv'
  <2>1. \A g \in asked' : g \in asked /\ (g \in S => sign.func[g] = "restore")
    BY <1>1, SignParts DEF StorageInv, TypeOK
  <2>2. QED
    BY <1>1, <2>1 DEF StorageInv, AskedInv, Up, Marked
<1>9. QED
  BY <1>4, <1>5, <1>6, <1>7, <1>8 DEF Others

\* 1011h: the groups are marked in RAM, the signature becomes due.
LEMMA RestoreStep ==
    ASSUME StorageInv, NEW S \in (SUBSET Group) \ {{}}, Restore(S)
    PROVE  Others'
<1> DEFINE f == [g \in Group |-> IF g \in S THEN "restore" ELSE sign.func[g]]
<1>1. /\ job = "idle" /\ job' = "restore" /\ goal' = S /\ todo' = {"sign"}
      /\ todo = {} /\ ~erased /\ erased' = erased
      /\ data' = data /\ mark' = mark /\ stored' = stored /\ given' = given
      /\ troubled' = TRUE /\ asked' = asked
  BY DEF Restore, flashVars, StorageInv, JobInv
<1>2. sign' = [sign EXCEPT !.func = f]
  BY DEF Restore
<1>3. f \in [Group -> Command] /\ All(Torn) \in [Group -> Val \union {Torn}]
  BY DEF StorageInv, TypeOK, Sign, Command, All
<1>4. \A g \in Group : f[g] = IF g \in S THEN "restore" ELSE sign.func[g]
  OBVIOUS
<1> HIDE DEF f
<1>5. sign'.crc = sign.crc /\ sign'.func = f
  BY <1>2, <1>3, SignChanged DEF StorageInv, TypeOK
<1>6. \E g \in Group : sign'.func[g] = "restore"
  BY <1>4, <1>5
<1>7. ~AllNone(sign)'
  BY <1>6 DEF AllNone
<1>8. BootInv' /\ StoreInv' /\ OffInv' /\ CleanInv' /\ SignInv'
  BY <1>1, <1>7 DEF BootInv, StoreInv, OffInv, CleanInv, SignInv
<1>9. JobInv'
  BY <1>1, <1>4, <1>5, <1>6 DEF JobInv
<1>10. MarkInv'
  BY <1>1, <1>7 DEF StorageInv, MarkInv, AllNone
<1>11. KeptInv'
  BY <1>1, <1>5 DEF StorageInv, KeptInv, Up, Vouches
<1>12. AskedInv'
  <2>1. ASSUME NEW g \in asked
        PROVE  Marked(mark, g)' /\ Marked(sign, g)'
    <3>1. g \in Group /\ Marked(mark, g) /\ Marked(sign, g)
      BY <1>1 DEF StorageInv, TypeOK, AskedInv, Up
    <3>2. QED
      BY <1>1, <1>4, <1>5, <3>1 DEF Marked
  <2>2. QED
    BY <1>1, <2>1 DEF AskedInv
<1>13. QED
  BY <1>8, <1>9, <1>10, <1>11, <1>12 DEF Others

\* A region is torn: nothing vouches for it any more.
LEMMA EraseStep ==
    ASSUME StorageInv, Erase
    PROVE  Others'
<1>1. /\ todo # {} /\ ~erased /\ erased' = TRUE /\ todo' = todo /\ Region' = Region
      /\ sign' = sign /\ ram' = ram /\ job' = job /\ goal' = goal
      /\ given' = given /\ stored' = stored /\ asked' = asked /\ troubled' = troubled
  BY DEF Erase, pastVars, Region
<1>2. job \notin {"off", "idle", "hung"} /\ OffInv' /\ CleanInv'
  BY <1>1 DEF StorageInv, JobInv, OffInv, CleanInv
<1>3. CASE Region = "sign"
  <2>1. /\ data' = data /\ mark'.crc = All(Torn)
        /\ mark'.func = All("restore") \/ mark'.func = sign.func
    BY <1>3, TornParts DEF Erase, StorageInv, TypeOK
  <2>2. \A g \in Group : mark'.crc[g] = Torn
    BY <2>1 DEF All
  <2>3. BootInv' /\ StoreInv' /\ SignInv'
    BY <1>1, <2>1 DEF StorageInv, BootInv, StoreInv, SignInv, Up, AllNone, Vouches
  <2>4. JobInv'
    BY <1>1, <1>2, <1>3, <2>1 DEF StorageInv, JobInv
  <2>5. MarkInv'
    BY <2>2, StorageAssumption DEF MarkInv
  <2>6. KeptInv'
    BY <1>1, <2>1, <2>2, StorageAssumption DEF StorageInv, KeptInv, Up, Vouches
  <2>7. AskedInv'
    BY <1>1, <2>2 DEF StorageInv, TypeOK, AskedInv, Up, Marked
  <2>8. QED
    BY <1>2, <2>3, <2>4, <2>5, <2>6, <2>7 DEF Others
<1>4. CASE Region # "sign"
  <2>1. /\ mark' = mark /\ Region \in Group \intersect todo
        /\ data' = [data EXCEPT ![Region] = Torn]
    BY <1>1, <1>4 DEF Erase, Region, StorageInv, TypeOK, Group
  <2>2. \A g \in Group : data'[g] = IF g = Region THEN Torn ELSE data[g]
    BY <2>1 DEF StorageInv, TypeOK
  <2>3. todo # {"sign"}
    BY <2>1 DEF Group
  <2>4. \A g \in Group : data'[g] \in Val => data'[g] = data[g]
    BY <2>2, StorageAssumption
  <2>5. BootInv' /\ StoreInv'
    <3>1. BootInv'
      BY <1>1, <2>1, <2>2, <2>3 DEF StorageInv, BootInv
    <3>2. job = "store" => Region \in goal
      BY <2>1 DEF StorageInv, StoreInv, Group
    <3>3. StoreInv'
      BY <1>1, <2>1, <2>2, <2>3, <3>2 DEF StorageInv, StoreInv, AllNone, Vouches
    <3>4. QED
      BY <3>1, <3>3
  <2>6. JobInv'
    BY <1>1, <1>2, <1>4, <2>1, <2>2, <2>3 DEF StorageInv, JobInv
  <2>7. MarkInv'
    BY <1>1, <2>1 DEF StorageInv, MarkInv, Up, AllNone
  <2>8. SignInv'
    <3>1. Up => job = "store"
      BY <1>2, <2>3 DEF StorageInv, JobInv, Up
    <3>2. job = "store" => Region \in goal
      BY <2>1 DEF StorageInv, StoreInv, Group
    <3>3. QED
      BY <1>1, <2>2, <2>3, <3>1, <3>2 DEF StorageInv, SignInv, Up, AllNone
  <2>9. KeptInv'
    BY <1>1, <2>1, <2>4 DEF StorageInv, KeptInv, Up, Vouches
  <2>10. AskedInv'
    BY <1>1, <2>1 DEF StorageInv, AskedInv, Up, Marked
  <2>11. QED
    BY <1>2, <2>5, <2>6, <2>7, <2>8, <2>9, <2>10 DEF Others
<1>5. QED
  BY <1>3, <1>4

\* A group is written, and the checksums follow the last.
LEMMA WriteGroupStep ==
    ASSUME StorageInv, WriteGroup
    PROVE  Others'
<1> DEFINE r == Region
<1>1. /\ r \in Group \intersect todo /\ todo' = todo \ {r} /\ erased' = FALSE
      /\ mark' = mark /\ ram' = ram /\ goal' = goal /\ given' = given /\ asked' = asked
      /\ troubled' = troubled
      /\ job' = IF todo' = {} THEN "hung" ELSE job
  BY DEF WriteGroup, StorageInv, TypeOK, Region, Group
<1>2. \A g \in Group : data'[g] = IF g = r THEN ram[r] ELSE data[g]
  BY <1>1 DEF WriteGroup, StorageInv, TypeOK
<1>3. todo' # {"sign"} => sign' = sign
  BY DEF WriteGroup
<1>4. todo' = {"sign"} =>
        /\ job = "boot" => sign'.crc = ram /\ AllNone(sign)'
        /\ job # "boot" => /\ sign'.func = sign.func
                           /\ \A g \in Group : sign'.crc[g] = IF g \in goal THEN ram[g]
                                                              ELSE sign.crc[g]
  BY SealedParts DEF WriteGroup, StorageInv, AllNone, All
<1>5. job \in {"store", "boot", "boot_bad"}
  <2>1. todo # {} /\ todo # {"sign"}
    BY <1>1 DEF Group
  <2>2. QED
    BY <2>1 DEF StorageInv, TypeOK, JobInv, Working
<1>6. OffInv' /\ CleanInv'
  BY <1>1, <1>5 DEF OffInv, CleanInv
<1>7. CASE job = "store"
  <2>1. /\ "sign" \in todo' /\ job' = "store"
        /\ todo \subseteq goal \union {"sign"} /\ r \in goal
    BY <1>1, <1>7 DEF StorageInv, StoreInv, Group
  <2>2. \A g \in Group : stored'[g] = IF Vouches(mark, g)' THEN data'[g] ELSE stored[g]
    BY <1>1, <1>7 DEF WriteGroup, Up, Vouched, Vouches
  <2>3. sign'.func = sign.func /\ AllNone(sign)' = AllNone(sign)
    BY <1>3, <1>4, <1>7 DEF AllNone
  <2>4. \A g \in Group \ goal : sign'.crc[g] = sign.crc[g]
    BY <1>3, <1>4, <1>7
  <2>5. \A g \in goal \ todo' : data'[g] = ram[g] /\ ram[g] \in given[g]
    BY <1>1, <1>2, <1>7 DEF StorageInv, TypeOK, StoreInv
  <2>6. AllNone(sign) \/ AllNone(mark) =>
            \A g \in Group : stored'[g] = stored[g]
    BY <1>1, <1>7, <2>2 DEF StorageInv, MarkInv, Up, Vouches
  <2>7. StoreInv'
    <3>1. todo' = {"sign"} => \A g \in goal : sign'.crc[g] = ram[g]
      BY <1>4, <1>7 DEF StorageInv, TypeOK
    <3>2. \A g \in goal : ram[g] \in given[g]
      BY <1>7 DEF StorageInv, StoreInv
    <3>3. ~troubled => AllNone(sign) /\ \A g \in Group \ goal : Vouches(sign, g)'
      BY <1>2, <1>7, <2>1, <2>4 DEF StorageInv, StoreInv, Vouches
    <3>4. QED
      BY <1>1, <2>1, <2>3, <2>5, <3>1, <3>2, <3>3 DEF StoreInv
  <2>8. BootInv' /\ JobInv'
    BY <1>1, <2>1 DEF BootInv, JobInv
  <2>9. MarkInv'
    BY <1>1, <1>7, <2>1, <2>3, <2>6 DEF StorageInv, MarkInv, Up, AllNone
  <2>10. SignInv'
    <3>1. ASSUME AllNone(sign), NEW g \in Group, g \notin goal, sign'.crc[g] \in Val
          PROVE  sign'.crc[g] \in {stored'[g], data'[g]}
      BY <1>2, <1>7, <2>1, <2>4, <2>6, <3>1 DEF StorageInv, SignInv, Up
    <3>2. ASSUME NEW g \in goal, todo' = {"sign"}
          PROVE  sign'.crc[g] = data'[g]
      <4>1. g \in Group /\ g \notin todo'
        BY <3>2 DEF StorageInv, TypeOK, Group
      <4>2. QED
        BY <1>4, <1>7, <2>5, <3>2, <4>1
    <3>3. QED
      BY <1>1, <2>1, <2>3, <3>1, <3>2 DEF SignInv
  <2>11. KeptInv'
    <3>1. ASSUME NEW g \in Group, Vouches(sign, g)'
          PROVE  data'[g] \in given[g] \union {stored'[g], Default}
      <4>1. CASE g \in goal \ todo'
        BY <2>5, <4>1
      <4>2. CASE g \notin goal
        <5>1. Vouches(sign, g) /\ data'[g] = data[g]
          BY <1>2, <2>1, <2>4, <3>1, <4>2 DEF Vouches
        <5>2. data[g] \in given[g] \union {stored[g], Default}
          BY <1>7, <5>1 DEF StorageInv, KeptInv, Up
        <5>3. QED
          BY <2>2, <5>1, <5>2
      <4>3. CASE g \in todo'
        <5>1. sign' = sign /\ data'[g] = data[g]
          BY <1>1, <1>2, <1>3, <4>3 DEF Group
        <5>2. data[g] \in given[g] \union {stored[g], Default}
          BY <1>7, <3>1, <5>1 DEF StorageInv, KeptInv, Up, Vouches
        <5>3. QED
          BY <2>2, <5>1, <5>2
      <4>4. QED
        BY <4>1, <4>2, <4>3
    <3>2. QED
      BY <1>1, <2>2, <3>1 DEF KeptInv
  <2>12. AskedInv'
    BY <1>1, <1>7, <2>1, <2>3, <2>4 DEF StorageInv, TypeOK, AskedInv, Up, Marked
  <2>13. QED
    BY <1>6, <2>7, <2>8, <2>9, <2>10, <2>11, <2>12 DEF Others
<1>8. CASE job \in {"boot", "boot_bad"}
  <2>1. /\ stored' = stored /\ job' \in {job, "hung"} /\ ram[r] = Default
        /\ job = "boot" => "sign" \in todo' /\ job' = "boot"
        /\ job' = "hung" => todo' = {}
    BY <1>1, <1>8 DEF WriteGroup, Up, StorageInv, BootInv, Group
  <2>2. BootInv'
    <3>1. job' \in {"boot", "boot_bad"} => job' = job
      BY <1>8, <2>1
    <3>2. job = "boot" /\ todo' = {"sign"} => AllNone(sign)' /\ sign'.crc = ram
      BY <1>4
    <3>3. QED
      BY <1>1, <1>2, <1>8, <2>1, <3>1, <3>2 DEF StorageInv, BootInv
  <2>3. StoreInv' /\ JobInv' /\ SignInv'
    BY <1>1, <1>8, <2>1 DEF StorageInv, StoreInv, JobInv, SignInv, Up
  <2>4. MarkInv' /\ AskedInv'
    BY <1>1, <1>8, <2>1 DEF StorageInv, MarkInv, AskedInv, Up, AllNone, Marked
  <2>5. KeptInv'
    BY <1>1, <1>2, <1>8, <2>1 DEF StorageInv, KeptInv, Up, Vouches
  <2>6. QED
    BY <1>6, <2>2, <2>3, <2>4, <2>5 DEF Others
<1>9. QED
  BY <1>5, <1>7, <1>8

\* The signature is written: what it vouches for is what is stored.
LEMMA WriteSignStep ==
    ASSUME StorageInv, WriteSign
    PROVE  Others'
<1>1. /\ todo = {"sign"} /\ erased' = FALSE /\ mark' = sign /\ sign' = sign
      /\ data' = data /\ ram' = ram /\ goal' = {} /\ todo' = {} /\ job' = "idle"
      /\ given' = given
  BY DEF WriteSign
<1>2. \A g \in Group : stored'[g] = IF Vouches(sign, g) THEN data[g] ELSE stored[g]
  BY DEF WriteSign, Vouched, Vouches
<1>3. job \in {"boot", "store", "restore", "store_failed"}
  BY <1>1 DEF StorageInv, TypeOK, JobInv, Working
<1>4. BootInv' /\ StoreInv' /\ JobInv' /\ OffInv'
  BY <1>1 DEF BootInv, StoreInv, JobInv, OffInv
<1>5. KeptInv'
  BY <1>1, <1>2 DEF KeptInv, Vouches
<1>6. CASE job = "boot"
  <2>1. asked' = {} /\ troubled' = FALSE
    BY <1>6 DEF WriteSign, Settled
  <2>2. AllNone(sign) /\ \A g \in Group : Vouches(sign, g)
    BY <1>1, <1>6 DEF StorageInv, TypeOK, BootInv, Vouches, Group
  <2>3. MarkInv' /\ SignInv' /\ CleanInv' /\ AskedInv'
    BY <1>1, <1>2, <2>1, <2>2 DEF MarkInv, SignInv, CleanInv, AskedInv, AllNone, Vouches
  <2>4. QED
    BY <1>4, <1>5, <2>3 DEF Others
<1>7. CASE job # "boot"
  <2>1. /\ Up /\ troubled' = troubled
        /\ asked' = IF job = "restore" THEN asked \union goal ELSE asked
    BY <1>3, <1>7 DEF WriteSign, Up
  <2>2. AllNone(sign) => \A g \in Group : sign.crc[g] \in Val => stored'[g] = sign.crc[g]
    BY <1>1, <1>2, <2>1 DEF StorageInv, SignInv, Vouches
  <2>3. MarkInv' /\ SignInv'
    BY <1>1, <2>2 DEF MarkInv, SignInv, AllNone
  <2>4. CleanInv'
    <3>1. SUFFICES ASSUME ~troubled
                   PROVE  CleanInv'
      BY <2>1 DEF CleanInv
    <3>2. job = "store"
      BY <1>3, <1>7, <3>1 DEF StorageInv, JobInv
    <3>3. AllNone(sign) /\ \A g \in Group : Vouches(sign, g)
      BY <1>1, <3>1, <3>2 DEF StorageInv, TypeOK, StoreInv, Vouches, Group
    <3>4. QED
      BY <1>1, <1>2, <3>3 DEF CleanInv, AllNone, Vouches
  <2>5. AskedInv'
    <3>1. \A g \in asked' : Marked(sign, g)
      BY <2>1 DEF StorageInv, JobInv, AskedInv, Marked
    <3>2. QED
      BY <1>1, <3>1 DEF AskedInv, Marked
  <2>6. QED
    BY <1>4, <1>5, <2>3, <2>4, <2>5 DEF Others
<1>8. QED
  BY <1>6, <1>7

\* A group cannot be written: 1010h marks both, a reset goes on and stops.
LEMMA FailGroupStep ==
    ASSUME StorageInv, FailGroup
    PROVE  Others'
<1>1. /\ Region \in Group \intersect todo /\ erased' = FALSE /\ troubled' = TRUE
      /\ data' = data /\ mark' = mark /\ ram' = ram /\ goal' = goal /\ given' = given
      /\ stored' = stored /\ asked' = asked
  BY DEF FailGroup, flashVars, StorageInv, TypeOK, Region, Group
<1>2. job \in {"store", "boot", "boot_bad"}
  <2>1. todo # {} /\ todo # {"sign"}
    BY <1>1 DEF Group
  <2>2. QED
    BY <2>1 DEF StorageInv, TypeOK, JobInv, Working
<1>3. CASE job = "store"
  <2>1. job' = "store_failed" /\ todo' = {"sign"} /\ sign' = [sign EXCEPT !.func = All("restore")]
    BY <1>3 DEF FailGroup
  <2>2. All("restore") \in [Group -> Command] /\ All(Torn) \in [Group -> Val \union {Torn}]
    BY DEF All, Command
  <2>3. sign'.crc = sign.crc /\ sign'.func = All("restore")
    BY <2>1, <2>2, SignChanged DEF StorageInv, TypeOK
  <2>4. \A g \in Group : sign'.func[g] = "restore"
    BY <2>3 DEF All
  <2>5. BootInv' /\ StoreInv' /\ JobInv' /\ OffInv' /\ CleanInv'
    BY <1>1, <2>1, <2>4 DEF BootInv, StoreInv, JobInv, OffInv, CleanInv, Group
  <2>6. ~AllNone(sign)'
    BY <2>4 DEF AllNone, Group
  <2>7. MarkInv' /\ SignInv'
    BY <1>1, <2>6 DEF StorageInv, MarkInv, SignInv, AllNone
  <2>8. KeptInv'
    BY <1>1, <1>3, <2>3 DEF StorageInv, KeptInv, Up, Vouches
  <2>9. AskedInv'
    BY <1>1, <2>1, <2>4 DEF StorageInv, TypeOK, AskedInv, Marked
  <2>10. QED
    BY <2>5, <2>7, <2>8, <2>9 DEF Others
<1>4. CASE job # "store"
  <2>1. /\ job' \in {"hung", "boot_bad"} /\ sign' = sign
        /\ todo' = todo \ {Region, "sign"}
        /\ job' = "hung" => todo' = {}
    BY <1>4 DEF FailGroup
  <2>2. BootInv'
    BY <1>1, <1>2, <1>4, <2>1 DEF StorageInv, BootInv
  <2>3. StoreInv' /\ JobInv' /\ OffInv' /\ CleanInv' /\ SignInv'
    BY <1>1, <2>1 DEF FailGroup, StoreInv, JobInv, OffInv, CleanInv, SignInv, Up
  <2>4. MarkInv' /\ KeptInv' /\ AskedInv'
    BY <1>1, <2>1 DEF StorageInv, MarkInv, KeptInv, AskedInv, Up, AllNone, Vouches, Marked
  <2>5. QED
    BY <2>2, <2>3, <2>4 DEF Others
<1>5. QED
  BY <1>3, <1>4

\* The signature cannot be written.
LEMMA FailSignStep ==
    ASSUME StorageInv, FailSign
    PROVE  Others'
<1>1. /\ todo = {"sign"} /\ todo' = {} /\ erased' = FALSE /\ troubled' = TRUE
      /\ job' = (IF job = "boot" THEN "hung" ELSE "idle") /\ goal' = {}
      /\ data' = data /\ mark' = mark /\ sign' = sign /\ ram' = ram /\ given' = given
      /\ stored' = stored /\ asked' = asked
  BY DEF FailSign, flashVars
<1>2. job \in {"boot", "store", "restore", "store_failed"}
  BY <1>1 DEF StorageInv, TypeOK, JobInv, Working
<1>3. Up' => Up
  BY <1>1, <1>2 DEF Up
<1>4. BootInv' /\ StoreInv' /\ JobInv' /\ OffInv' /\ CleanInv'
  BY <1>1 DEF BootInv, StoreInv, JobInv, OffInv, CleanInv
<1>5. MarkInv' /\ KeptInv'
  BY <1>1, <1>3 DEF StorageInv, MarkInv, KeptInv, AllNone, Vouches
<1>6. SignInv'
  BY <1>1, <1>3 DEF StorageInv, SignInv, AllNone
<1>7. AskedInv'
  BY <1>1, <1>3 DEF StorageInv, AskedInv, Marked
<1>8. QED
  BY <1>4, <1>5, <1>6, <1>7 DEF Others

LEMMA StorageStep == StorageInv /\ [Next]_vars => StorageInv'
<1> SUFFICES ASSUME StorageInv, [Next]_vars
             PROVE  StorageInv'
  OBVIOUS
<1>1. TypeOK'
  BY TypesStep DEF StorageInv
<1>2. CASE UNCHANGED vars
  BY <1>1, <1>2
  DEF vars, flashVars, workVars, pastVars, StorageInv, BootInv, StoreInv, JobInv, MarkInv,
      SignInv, KeptInv, CleanInv, AskedInv, OffInv, Up, AllNone, Vouches, Marked, Region
<1>3. Next => Others'
  BY PowerOnStep, PowerOffStep, ChangeStep, StoreStep, RestoreStep, EraseStep,
     WriteGroupStep, WriteSignStep, FailGroupStep, FailSignStep DEF Next, Flash
<1>4. QED
  BY <1>1, <1>2, <1>3 DEF Others, StorageInv

------------------------------------------------------------------------------
\* For any contents of the parameters: unless something has failed, the power has gone
\* during a command or a restore has been asked for, what is in flash is valid, is what
\* was last stored, and the next reset will load it (CO_OD_storage.c, CO_FLASH.c).
THEOREM StoredStaysIntact == Spec => []IntactUnlessTroubled
<1>1. StorageInv => IntactUnlessTroubled
  <2> SUFFICES ASSUME StorageInv, job \in {"idle", "off"}, ~troubled
               PROVE  ~InDoubt /\ data = stored
    BY DEF IntactUnlessTroubled
  <2>1. AllNone(mark) /\ \A g \in Group : Vouches(mark, g) /\ stored[g] = data[g]
    BY DEF StorageInv, CleanInv
  <2>2. ~InDoubt
    BY <2>1 DEF InDoubt, Valid, AllNone, Vouches
  <2>3. data = stored
    BY <2>1 DEF StorageInv, TypeOK
  <2>4. QED
    BY <2>2, <2>3
<1>2. QED
  BY <1>1, InitStorage, StorageStep, PTL DEF Spec

\* For any contents of the parameters: a group whose restoring was answered with success
\* holds its defaults after the application's next reset, whatever has failed since
\* (the confirm functions of 1011h and co_process_when_reset).
THEOREM RestoreComesTrue == Spec => RestoreIsDone
<1>1. ASSUME StorageInv, [Next]_vars
      PROVE  [job' = "idle" /\ job \in {"off", "boot"} /\ asked' = {} =>
                  \A g \in asked : ram'[g] = Default]_vars
  <2> SUFFICES ASSUME Next, job' = "idle", job \in {"off", "boot"}, asked' = {},
                      NEW g \in asked
               PROVE  ram'[g] = Default
    BY <1>1
  <2>1. g \in Group /\ Marked(mark, g)
    BY <1>1 DEF StorageInv, TypeOK, AskedInv
  <2>2. CASE \E isMain \in BOOLEAN : PowerOn(isMain)
    <3>1. PICK isMain \in BOOLEAN : PowerOn(isMain)
      BY <2>2
    <3>2. isMain /\ ToRestore(mark, isMain) = {}
      BY <3>1 DEF PowerOn
    <3>3. Valid(mark, data) /\ mark.func[g] # "restore"
      BY <2>1, <3>2 DEF ToRestore, Group
    <3>4. QED
      BY <2>1, <3>3, StorageAssumption DEF Marked, Valid
  <2>3. CASE Flash
    <3>1. job = "boot"
      BY <1>1, <2>3
      DEF Flash, Erase, WriteGroup, WriteSign, FailGroup, FailSign, StorageInv, JobInv
    <3>2. ram' = ram
      BY <2>3 DEF Flash, Erase, WriteGroup, WriteSign, FailGroup, FailSign
    <3>3. g \in goal /\ ram[g] = Default
      BY <1>1, <3>1 DEF StorageInv, AskedInv, BootInv
    <3>4. QED
      BY <3>2, <3>3
  <2>4. QED
    BY <2>2, <2>3 DEF Next, PowerOff, Change, Store, Restore
<1>2. QED
  BY <1>1, InitStorage, StorageStep, PTL DEF Spec, RestoreIsDone

------------------------------------------------------------------------------
\* The refinement: one abstract step or none for each step

\* The parameters as an application sees them
InUse == IF Up THEN ram ELSE Defaults

\* Where nothing but the doubt changes
LEMMA DoubtMoves ==
    ASSUME Up' = Up, InUse' = InUse, given' = given, stored' = stored
    PROVE  Promise!Next \/ UNCHANGED Promise!vars
<1>1. CASE InDoubt' = InDoubt
  BY <1>1 DEF Promise!vars, InUse
<1>2. CASE InDoubt' # InDoubt
  <2>1. InDoubt' = TRUE \/ InDoubt' = FALSE
    BY DEF InDoubt
  <2>2. QED
    BY <2>1 DEF Promise!Next, Promise!Doubt, Promise!Clear, InUse
<1>3. QED
  BY <1>1, <1>2

\* Writing in the application commits what was given, and only in doubt.
LEMMA CommitMoves ==
    ASSUME Up, Up', ram' = ram, given' = given, InDoubt, stored' \in [Group -> Val],
           \A g \in Group : stored'[g] \in given[g] \union {stored[g], Default}
    PROVE  Promise!Next
<1>1. InDoubt' \in BOOLEAN
  BY DEF InDoubt
<1>2. QED
  BY <1>1 DEF Promise!Next, Promise!Commit

\* Without doubt flash holds what was stored.
LEMMA NoDoubt ==
    ASSUME StorageInv, ~InDoubt
    PROVE  stored = data
<1>1. AllNone(mark) /\ \A g \in Group : Vouches(mark, g)
  BY SignParts DEF InDoubt, Valid, AllNone, Vouches, StorageInv, TypeOK, Group
<1>2. \A g \in Group : stored[g] = data[g]
  BY <1>1 DEF StorageInv, MarkInv, Vouches
<1>3. QED
  BY <1>2 DEF StorageInv, TypeOK

\* A torn region leaves doubt.
LEMMA TornDoubt ==
    ASSUME StorageInv, erased
    PROVE  InDoubt
<1>1. CASE Region = "sign"
  BY <1>1, StorageAssumption
  DEF StorageInv, TypeOK, JobInv, InDoubt, Valid, All, Group
<1>2. CASE Region # "sign"
  <2>1. Region \in Group
    BY <1>2 DEF StorageInv, TypeOK, JobInv, Region, Group
  <2>2. QED
    BY <1>2, <2>1, StorageAssumption DEF StorageInv, JobInv, InDoubt, Valid
<1>3. QED
  BY <1>1, <1>2

\* A reset that finds everything in order, or in the boot loader, is Boot at once.
LEMMA PowerOnMoves ==
    ASSUME StorageInv, NEW isMain \in BOOLEAN, PowerOn(isMain)
    PROVE  Promise!Next \/ UNCHANGED Promise!vars
<1> DEFINE R == ToRestore(mark, isMain)
           L == ToLoad(mark, isMain)
<1>1. /\ job = "off" /\ data' = data /\ mark' = mark /\ stored' = stored /\ given' = given
      /\ ~Up /\ InDoubt' = InDoubt
  BY DEF PowerOn, flashVars, Up, InDoubt, Valid
<1>2. ram' = [g \in Group |-> IF g \in L THEN data[g] ELSE Default]
  BY DEF PowerOn
<1>3. CASE R # {}
  <2>1. ~Up' /\ Up' = Up
    BY <1>1, <1>3 DEF PowerOn, Up
  <2>2. QED
    BY <1>1, <2>1, DoubtMoves DEF InUse, Defaults
<1>4. CASE R = {}
  <2>1. Up' /\ job' = "idle"
    BY <1>4 DEF PowerOn, Up
  <2>2. CASE ~InDoubt
    <3>1. L = Group
      BY <1>4, <2>2 DEF ToLoad, InDoubt
    <3>2. ram' = stored
      BY <1>2, <2>2, <3>1, NoDoubt DEF StorageInv, TypeOK
    <3>3. QED
      BY <1>1, <2>1, <3>2 DEF Promise!Next, Promise!Boot
  <2>3. CASE InDoubt
    <3> DEFINE S == {g \in Group : ram'[g] = Default}
    <3>1. \A g \in Group : ram'[g] \in {stored[g], Default}
      BY <1>2 DEF ToLoad, Valid, StorageInv, KeptInv, Vouches
    <3>2. ram' = [g \in Group |-> IF g \in S THEN Default ELSE stored[g]]
      BY <1>2, <3>1
    <3>3. S \in SUBSET Group
      OBVIOUS
    <3> HIDE DEF S
    <3>4. QED
      BY <1>1, <2>1, <2>3, <3>2, <3>3 DEF Promise!Next, Promise!Boot
  <2>4. QED
    BY <2>2, <2>3
<1>5. QED
  BY <1>3, <1>4

\* A group written by 1010h commits what an old signature happens to vouch for.
LEMMA WriteGroupMoves ==
    ASSUME StorageInv, WriteGroup, TypeOK'
    PROVE  Promise!Next \/ UNCHANGED Promise!vars
<1>1. /\ Region \in Group \intersect todo /\ todo' = todo \ {Region} /\ erased
      /\ ram' = ram /\ given' = given /\ mark' = mark
      /\ job' = IF todo' = {} THEN "hung" ELSE job
  BY DEF WriteGroup, StorageInv, TypeOK, Region, Group
<1>2. CASE Up
  <2>1. job = "store"
    <3>1. todo # {} /\ todo # {"sign"}
      BY <1>1 DEF Group
    <3>2. QED
      BY <1>2, <3>1 DEF StorageInv, JobInv, Up
  <2>2. Up' /\ Region \in goal
    BY <1>1, <2>1 DEF StorageInv, StoreInv, Up, Group
  <2>3. \A g \in Group : data'[g] = IF g = Region THEN ram[Region] ELSE data[g]
    BY <1>1 DEF WriteGroup, StorageInv, TypeOK
  <2>4. \A g \in Group : stored'[g] = IF Vouches(mark, g)' THEN data'[g] ELSE stored[g]
    BY <1>1, <1>2 DEF WriteGroup, Vouched, Vouches
  <2>5. \A g \in Group : stored'[g] \in given[g] \union {stored[g], Default}
    <3>1. ram[Region] \in given[Region]
      BY <2>1, <2>2 DEF StorageInv, StoreInv
    <3>2. ASSUME NEW g \in Group, g # Region, Vouches(mark, g)'
          PROVE  data'[g] \in {stored[g], Default}
      BY <1>1, <2>3, <3>2 DEF StorageInv, KeptInv, Vouches
    <3>3. QED
      BY <2>3, <2>4, <3>1, <3>2
  <2>6. InDoubt /\ stored' \in [Group -> Val]
    BY <1>1, TornDoubt DEF TypeOK
  <2>7. QED
    BY <1>1, <1>2, <2>2, <2>5, <2>6, CommitMoves
<1>3. CASE ~Up
  <2>1. ~Up' /\ Up' = Up /\ stored' = stored
    BY <1>1, <1>3 DEF WriteGroup, Up
  <2>2. QED
    BY <1>1, <1>3, <2>1, DoubtMoves DEF InUse, Defaults
<1>4. QED
  BY <1>2, <1>3

\* The signature commits a store, and ends a reset that restores defaults.
LEMMA WriteSignMoves ==
    ASSUME StorageInv, WriteSign, TypeOK'
    PROVE  Promise!Next \/ UNCHANGED Promise!vars
<1>1. /\ todo = {"sign"} /\ erased /\ mark' = sign /\ data' = data /\ ram' = ram
      /\ job' = "idle" /\ Up' /\ given' = given
  BY DEF WriteSign, Up
<1>2. \A g \in Group : stored'[g] = IF Vouches(sign, g) THEN data[g] ELSE stored[g]
  BY DEF WriteSign, Vouched, Vouches
<1>3. InDoubt /\ stored' \in [Group -> Val]
  BY <1>1, TornDoubt DEF TypeOK
<1>4. job \in {"boot", "store", "restore", "store_failed"}
  BY <1>1 DEF StorageInv, TypeOK, JobInv, Working
<1>5. CASE job = "boot"
  <2>1. /\ AllNone(sign) /\ \A g \in Group : data[g] = ram[g] /\ Vouches(sign, g)
        /\ \A g \in Group : ram[g] \in {stored[g], Default}
    BY <1>1, <1>5 DEF StorageInv, TypeOK, BootInv, Vouches, Group
  <2>2. stored' = ram
    BY <1>2, <1>3, <2>1 DEF StorageInv, TypeOK
  <2>3. InDoubt' = FALSE
    BY <1>1, <2>1 DEF InDoubt, Valid, AllNone, Vouches
  <2> DEFINE S == {g \in Group : ram[g] = Default}
  <2>4. ram = [g \in Group |-> IF g \in S THEN Default ELSE stored[g]]
    BY <2>1 DEF StorageInv, TypeOK
  <2>5. S \in SUBSET Group
    OBVIOUS
  <2> HIDE DEF S
  <2>6. ~Up
    BY <1>5 DEF Up
  <2>7. QED
    BY <1>1, <1>3, <2>2, <2>3, <2>4, <2>5, <2>6 DEF Promise!Next, Promise!Boot
<1>6. CASE job # "boot"
  <2>1. Up
    BY <1>4, <1>6 DEF Up
  <2>2. \A g \in Group : stored'[g] \in given[g] \union {stored[g], Default}
    BY <1>2, <2>1 DEF StorageInv, KeptInv
  <2>3. QED
    BY <1>1, <1>3, <2>1, <2>2, CommitMoves
<1>7. QED
  BY <1>5, <1>6

LEMMA InitMoves == Init => Promise!Init
<1> SUFFICES ASSUME Init
             PROVE  Promise!Init
  OBVIOUS
<1>1. ~Up /\ InDoubt \in BOOLEAN
  BY DEF Init, Up, InDoubt
<1>2. QED
  BY <1>1 DEF Init, Promise!Init, Promise!Defaults, Defaults, All

LEMMA StepMoves ==
    ASSUME StorageInv, [Next]_vars
    PROVE  Promise!Next \/ UNCHANGED Promise!vars
<1>1. TypeOK'
  BY TypesStep DEF StorageInv
<1>2. CASE PowerOff
  <2>1. ~Up' /\ given' = All({}) /\ stored' = stored /\ InDoubt' = InDoubt
    BY <1>2 DEF PowerOff, Up, flashVars, InDoubt, Valid
  <2>2. QED
    BY <2>1 DEF Promise!Next, Promise!PowerOff, Promise!Defaults, Defaults, All
<1>3. CASE Change
  <2>1. /\ Up /\ Up' /\ given' = given /\ stored' = stored /\ InDoubt' = InDoubt
        /\ \E g \in Group, v \in Val : ram' = [ram EXCEPT ![g] = v]
    BY <1>3 DEF Change, Up, flashVars, workVars, pastVars, InDoubt, Valid
  <2>2. QED
    BY <2>1 DEF Promise!Next, Promise!Change
<1>4. ASSUME NEW S \in (SUBSET Group) \ {{}}, Store(S)
      PROVE  Promise!Next
  <2>1. /\ Up /\ Up' /\ ram' = ram /\ stored' = stored /\ InDoubt' = InDoubt
        /\ given' = [g \in Group |-> given[g] \union IF g \in S THEN {ram[g]} ELSE {}]
    BY <1>4 DEF Store, Up, flashVars, InDoubt, Valid
  <2>2. QED
    BY <2>1 DEF Promise!Next, Promise!Command
<1>5. ASSUME NEW S \in (SUBSET Group) \ {{}}, Restore(S)
      PROVE  Promise!Next \/ UNCHANGED Promise!vars
  <2>1. Up /\ Up' /\ ram' = ram /\ stored' = stored /\ given' = given
    BY <1>5 DEF Restore, Up, flashVars
  <2>2. QED
    BY <2>1, DoubtMoves DEF InUse
<1>6. CASE Erase
  <2>1. Up' = Up /\ ram' = ram /\ stored' = stored /\ given' = given
    BY <1>6 DEF Erase, Up, pastVars
  <2>2. QED
    BY <2>1, DoubtMoves DEF InUse, Defaults
<1>7. CASE FailGroup
  <2>1. Up' = Up /\ ram' = ram /\ stored' = stored /\ given' = given
    <3>1. job # "store" => ~Up
      <4>1. todo # {} /\ todo # {"sign"}
        BY <1>7 DEF FailGroup
      <4>2. QED
        BY <4>1 DEF StorageInv, JobInv, Up
    <3>2. QED
      BY <1>7, <3>1 DEF FailGroup, Up
  <2>2. QED
    BY <2>1, DoubtMoves DEF InUse, Defaults
<1>8. CASE FailSign
  <2>1. Up' = Up /\ ram' = ram /\ stored' = stored /\ given' = given
    BY <1>8 DEF FailSign, StorageInv, TypeOK, JobInv, Working, Up
  <2>2. QED
    BY <2>1, DoubtMoves DEF InUse, Defaults
<1>9. CASE UNCHANGED vars
  <2>1. Up' = Up /\ ram' = ram /\ stored' = stored /\ given' = given
    BY <1>9 DEF vars, workVars, pastVars, Up
  <2>2. QED
    BY <2>1, DoubtMoves DEF InUse, Defaults
<1>10. QED
  BY <1>1, <1>2, <1>3, <1>4, <1>5, <1>6, <1>7, <1>8, <1>9, PowerOnMoves, WriteGroupMoves,
     WriteSignMoves DEF Next, Flash

\* For any contents: store, restore and reset, with the power lost and operations failing
\* at any point, keep the promise of ParamStore; after a reset each group holds what was
\* last stored or its default, and exactly what was stored unless there was doubt.
THEOREM StorageKeepsPromise == Spec => ParamSpec
<1>1. StorageInv /\ [Next]_vars => [Promise!Next]_Promise!vars
  BY StepMoves
<1>2. QED
  BY <1>1, InitMoves, InitStorage, StorageStep, PTL DEF Spec, ParamSpec, Promise!Spec


\* For any contents: RAM, flash, checksums and jobs hold values of their types, whatever
\* fails and whenever the power goes.
THEOREM StorageTypes == Spec => []TypeOK
<1>1. StorageInv => TypeOK
  BY DEF StorageInv
<1>2. QED
  BY <1>1, InitStorage, StorageStep, PTL DEF Spec
==============================================================================
