-------------------------- MODULE OtaUpdateProofs --------------------------
(***************************************************************************)
(* Proofs, for every set of versions, every image size and any number of   *)
(* updates, that OtaUpdate keeps the device bootable and implements        *)
(* AtomicUpdate.                                                           *)
(***************************************************************************)
EXTENDS OtaUpdate, TLAPS

\* The running slot is the selected one until otadata was rewritten, and then a
\* verified image is in the other one.
SelectedOrVerified ==
  /\ Selected(otadata) = running \/ (pc = "restart" /\ Valid(slots[Target]))
  /\ pc \in {"erase", "write"} => Valid(slots[Target])

\* The loop is left when failCount reaches its limit.
LoopCount == pc \in {"desc", "perform", "book"} => failCount < FailLimit

\* The inductive invariant
IInv == TypeOK /\ LoopCount /\ RunningIntact /\ SelectedOrVerified /\ LockReleased
----------------------------------------------------------------------------
(* The two sectors of otadata                                              *)

LEMMA ParityFlips ==
  ASSUME NEW s \in Nat, s > 0
  PROVE  s % 2 = 1 - ((s - 1) % 2) /\ s % 2 # (1 - ((s - 1) % 2) + 1) % 2
OBVIOUS

LEMMA SelectedIsSlot ==
  ASSUME NEW o \in [Slot -> Nat]
  PROVE  Selected(o) \in Slot
BY DEF Selected, ActiveOf, Slot

\* Erasing the sector that is not active changes nothing.
LEMMA EraseKeepsSelected ==
  ASSUME otadata \in [Slot -> Nat]
  PROVE  Selected([otadata EXCEPT ![NextSector] = 0]) = Selected(otadata)
BY DEF Selected, ActiveOf, Slot, NextSector

\* Writing the next ota_seq over it selects the slot asked for.
LEMMA WriteSelects ==
  ASSUME otadata \in [Slot -> Nat], running \in Slot, Selected(otadata) = running
  PROVE  /\ NextSeq(Target) \in Nat
         /\ Selected([otadata EXCEPT ![NextSector] = NextSeq(Target)]) = Target
<1> DEFINE seq == NextSeq(Target)
<1> DEFINE o == [otadata EXCEPT ![NextSector] = seq]
<1>1. CASE ActiveOf(otadata) = -1
  <2>1. otadata[0] = 0 /\ otadata[1] = 0 /\ running = 0 /\ NextSector = 0 /\ seq = 2 /\ Target = 1
    BY <1>1 DEF ActiveOf, Selected, Slot, NextSector, NextSeq, Target, Other
  <2>2. o[0] = 2 /\ o[1] = 0
    BY <2>1 DEF Slot
  <2> HIDE DEF o, seq
  <2>3. Selected(o) = 1
    BY <2>2 DEF Selected, ActiveOf
  <2> QED BY <2>1, <2>3 DEF o, seq
<1>2. CASE ActiveOf(otadata) # -1
  <2> DEFINE a == ActiveOf(otadata)
  <2>1. a \in Slot /\ NextSector = 1 - a /\ otadata[a] \in Nat /\ otadata[a] > 0
    BY <1>2 DEF ActiveOf, Slot, NextSector
  <2>2. running = (otadata[a] - 1) % 2
    BY <1>2 DEF Selected
  <2>3. seq = otadata[a] + 1
    <3>1. otadata[a] % 2 # (Target + 1) % 2
      BY <2>1, <2>2, ParityFlips DEF Target, Other
    <3> QED BY <3>1, <1>2 DEF NextSeq
  <2>4. o[a] = otadata[a] /\ o[1 - a] = otadata[a] + 1 /\ o \in [Slot -> Nat]
    BY <2>1, <2>3 DEF Slot
  <2>5. ActiveOf(o) = 1 - a
    BY <2>1, <2>4 DEF ActiveOf, Slot
  <2>6. Selected(o) = otadata[a] % 2
    BY <2>1, <2>4, <2>5 DEF Selected, Slot
  <2>7. otadata[a] % 2 = 1 - ((otadata[a] - 1) % 2)
    BY <2>1, ParityFlips
  <2>8. Selected(o) = Target
    <3>1. Target = 1 - ((otadata[a] - 1) % 2)
      BY <2>2 DEF Target, Other
    <3> HIDE DEF a, o
    <3> QED BY <2>6, <2>7, <3>1
  <2>9. seq \in Nat
    BY <2>1, <2>3
  <2> QED BY <2>8, <2>9
<1> QED BY <1>1, <1>2
----------------------------------------------------------------------------
LEMMA BlankImage == Blank \in Image
BY DEF Blank, Image

LEMMA TypeInit == Init => TypeOK
<1> SUFFICES ASSUME Init PROVE TypeOK
  OBVIOUS
<1> USE OtaAssumption DEF Init
<1>1. img \in Image /\ slots \in [Slot -> Image]
  <2>1. [ver |-> offer, len |-> Size[offer], good |-> TRUE] \in Image
    BY DEF Image
  <2> QED BY <2>1, BlankImage
<1>2. otadata \in [Slot -> Nat] /\ running \in Slot
  BY DEF Slot
<1>3. failCount \in 0..FailLimit /\ published \in 0..MaxPublish /\ offer \in Versions
  BY DEF FailLimit
<1>4. held \in BOOLEAN /\ measured \in BOOLEAN /\ calm \in BOOLEAN
  BY Zenon
<1>5. /\ pc = "check" /\ got = 0 /\ cnt = 0 /\ hstate = "BEGIN" /\ lastDl = -1 /\ size = 0
  OBVIOUS
<1> HIDE DEF Init
<1> QED BY <1>1, <1>2, <1>3, <1>4, <1>5 DEF TypeOK

\* The images the server sends and the slots' contents stay images.
LEMMA ImagesType ==
  ASSUME TypeOK, TaskStep
  PROVE  img' \in Image /\ slots' \in [Slot -> Image] /\ got' \in Nat /\ cnt' \in Nat
<1> USE OtaAssumption DEF TypeOK, flash, download
<1>1. Target \in Slot /\ Blank \in Image
  BY BlankImage DEF Target, Other, Slot
<1>2. CASE BeginOk
  BY <1>2 DEF BeginOk, Image
<1>3. CASE DescOk
  BY <1>3 DEF DescOk
<1>4. CASE PerformBegin
  <2>1. [img EXCEPT !.len = Hdr] \in Image
    BY DEF Image
  <2> QED BY <1>1, <1>4, <2>1 DEF PerformBegin
<1>5. CASE PerformBeginFails
  BY <1>1, <1>5 DEF PerformBeginFails
<1>6. CASE PerformRead \/ PerformWriteFails
  <2>1. Piece \in Nat
    BY <1>6 DEF PerformRead, PerformWriteFails, Piece, Image
  <2>2. slots' \in [Slot -> Image]
    <3>1. CASE PerformRead
      <4>1. slots[Target].len + Piece \in Nat
        BY <1>1, <2>1 DEF Image
      <4>2. [slots[Target] EXCEPT !.len = @ + Piece] \in Image
        BY <1>1, <4>1 DEF Image
      <4>3. slots' = [slots EXCEPT ![Target] = [slots[Target] EXCEPT !.len = @ + Piece]]
        BY <3>1 DEF PerformRead
      <4> QED BY <1>1, <4>2, <4>3
    <3>2. CASE PerformWriteFails
      BY <3>2 DEF PerformWriteFails
    <3> QED BY <1>6, <3>1, <3>2
  <2> QED BY <1>6, <2>1, <2>2 DEF PerformRead, PerformWriteFails
<1>7. CASE Restart
  BY <1>1, <1>7 DEF Restart, Boot, RamReset
<1>8. CASE CheckNew \/ CheckNone \/ Sleep \/ BeginFails \/ DescFails \/ PerformNothing
           \/ PerformLost \/ PerformDone \/ TimedOut \/ Book \/ OtaEnd \/ Finish
           \/ SetBootErase \/ SetBootWrite
  BY <1>8 DEF CheckNew, CheckNone, Checks, Sleep, BeginFails, DescFails, PerformNothing,
    PerformLost, PerformDone, TimedOut, Book, OtaEnd, Finish, SetBootErase, SetBootWrite
<1> QED BY <1>2, <1>3, <1>4, <1>5, <1>6, <1>7, <1>8 DEF TaskStep

LEMMA BootType ==
  ASSUME TypeOK, Boot
  PROVE  TypeOK' /\ LoopCount'
<1>1. running' \in Slot
  BY SelectedIsSlot DEF TypeOK, Boot, BootSlot, Other, Slot
<1>2. img' \in Image /\ failCount' \in 0..FailLimit
  BY BlankImage DEF Boot, RamReset, FailLimit
<1>3. UNCHANGED <<slots, otadata, offer, published, calm>>
  BY DEF Boot, flash, server
<1>4. LoopCount'
  BY DEF Boot, RamReset, LoopCount
<1>5. held' \in BOOLEAN /\ measured' \in BOOLEAN
  BY Zenon DEF Boot, RamReset
<1> QED BY <1>1, <1>2, <1>3, <1>4, <1>5 DEF TypeOK, Boot, RamReset

\* The rest of the type, and the loop's counter
LEMMA TaskType ==
  ASSUME TypeOK, LoopCount, RunningIntact, SelectedOrVerified, TaskStep
  PROVE  TypeOK' /\ LoopCount'
<1>1. img' \in Image /\ slots' \in [Slot -> Image] /\ got' \in Nat /\ cnt' \in Nat
  BY ImagesType
<1> USE OtaAssumption DEF TypeOK, LoopCount, flash, download, static, server, FailLimit
<1>2. CASE CheckNew \/ CheckNone \/ Sleep
  BY <1>2 DEF CheckNew, CheckNone, Checks, Sleep
<1>3. CASE BeginOk \/ BeginFails \/ DescOk \/ DescFails
  <2>1. held' \in BOOLEAN /\ UNCHANGED <<measured, calm>>
    BY <1>3, Zenon DEF BeginOk, BeginFails, DescOk, DescFails
  <2> QED BY <1>1, <1>3, <2>1 DEF BeginOk, BeginFails, DescOk, DescFails
<1>4. CASE PerformBegin \/ PerformBeginFails \/ PerformRead \/ PerformWriteFails
  BY <1>1, <1>4 DEF PerformBegin, PerformBeginFails, PerformRead, PerformWriteFails, AfterLoop
<1>5. CASE PerformNothing \/ PerformLost \/ PerformDone \/ TimedOut
  BY <1>5 DEF PerformNothing, PerformLost, PerformDone, TimedOut, AfterLoop
<1>6. CASE Book
  <2>1. size' \in Int
    BY <1>6 DEF Book, Image
  <2>2. failCount' \in 0..FailLimit /\ (failCount' # FailLimit => failCount' < FailLimit)
    BY <1>6 DEF Book, Failed
  <2> QED BY <1>6, <2>1, <2>2 DEF Book
<1>7. CASE OtaEnd \/ Finish
  BY <1>7 DEF OtaEnd, Finish
<1>8. CASE SetBootErase \/ SetBootWrite
  <2>1. otadata' \in [Slot -> Nat]
    <3>1. NextSector \in Slot
      BY DEF NextSector, Slot
    <3>2. CASE SetBootErase
      BY <3>1, <3>2 DEF SetBootErase
    <3>3. CASE SetBootWrite
      <4>1. Selected(otadata) = running
        BY <3>3 DEF SetBootWrite, SelectedOrVerified
      <4>2. NextSeq(Target) \in Nat
        BY <4>1, WriteSelects
      <4> QED BY <3>1, <3>3, <4>2 DEF SetBootWrite
    <3> QED BY <1>8, <3>2, <3>3
  <2> QED BY <1>8, <2>1 DEF SetBootErase, SetBootWrite
<1>9. CASE Restart
  BY <1>9, BootType DEF Restart
<1> QED BY <1>2, <1>3, <1>4, <1>5, <1>6, <1>7, <1>8, <1>9 DEF TaskStep
----------------------------------------------------------------------------
(* What the steps do to the flash.  Each kind of step is described once;   *)
(* the invariant and the refinement both follow from the description.      *)

\* The selected and the running slot, and what they hold, stay; the other slot
\* may be written while pc does not say that it was verified.
Harmless ==
  /\ UNCHANGED running /\ Selected(otadata') = Selected(otadata)
  /\ slots'[running] = slots[running]
  /\ \/ UNCHANGED slots /\ (pc' \in {"erase", "write"} => Valid(slots[Target]))
                        /\ (pc = "restart" => pc' = "restart")
     \/ pc \in {"perform"} /\ pc' \notin {"erase", "write"}

\* The new image is selected.
Switches ==
  /\ pc = "write" /\ pc' = "restart" /\ Selected(otadata) = running
  /\ UNCHANGED <<running, slots>> /\ Selected(otadata') = Target

LEMMA TargetIsOther == running \in Slot => Target \in Slot /\ Target # running
BY DEF Target, Other, Slot

LEMMA StepKinds ==
  ASSUME IInv, [Next]_vars
  PROVE  Harmless \/ Switches \/ Boot
<1> USE DEF flash, download, static, server
<1>1. Target \in Slot /\ Target # running /\ running \in Slot /\ slots \in [Slot -> Image]
      /\ otadata \in [Slot -> Nat]
  BY TargetIsOther DEF IInv, TypeOK
<1>2. CASE CheckNew \/ CheckNone \/ Sleep \/ BeginOk \/ BeginFails \/ DescOk \/ DescFails
  BY <1>2 DEF CheckNew, CheckNone, Checks, Sleep, BeginOk, BeginFails, DescOk, DescFails, Harmless
<1>3. CASE PerformBegin \/ PerformBeginFails \/ PerformRead
  BY <1>1, <1>3 DEF PerformBegin, PerformBeginFails, PerformRead, AfterLoop, Harmless
<1>4. CASE PerformWriteFails \/ PerformNothing \/ PerformLost \/ PerformDone \/ TimedOut
  BY <1>4 DEF PerformWriteFails, PerformNothing, PerformLost, PerformDone, TimedOut, AfterLoop, Harmless
<1>5. CASE Book \/ OtaEnd
  BY <1>5 DEF Book, OtaEnd, Harmless
<1>6. CASE Finish
  BY <1>6 DEF Finish, FinishOk, Harmless
<1>7. CASE SetBootErase
  <2>1. Selected(otadata') = Selected(otadata)
    BY <1>1, <1>7, EraseKeepsSelected DEF SetBootErase
  <2>2. Valid(slots[Target])
    BY <1>7 DEF SetBootErase, IInv, SelectedOrVerified
  <2> QED BY <1>7, <2>1, <2>2 DEF SetBootErase, Harmless
<1>8. CASE SetBootWrite
  <2>1. Selected(otadata) = running
    BY <1>8 DEF SetBootWrite, IInv, SelectedOrVerified
  <2>2. CASE UNCHANGED otadata
    BY <1>8, <2>2 DEF SetBootWrite, Harmless
  <2>3. CASE otadata' = [otadata EXCEPT ![NextSector] = NextSeq(Target)]
    <3>1. Selected(otadata') = Target
      BY <1>1, <2>1, <2>3, WriteSelects
    <3> QED BY <1>8, <2>1, <3>1 DEF SetBootWrite, Switches
  <2> QED BY <1>8, <2>2, <2>3 DEF SetBootWrite
<1>9. CASE Restart \/ PowerFailure
  BY <1>9 DEF Restart, PowerFailure
<1>10. CASE Settle \/ (\E v \in Versions : Publish(v))
  BY <1>10 DEF Settle, Publish, Harmless, IInv, SelectedOrVerified
<1>11. CASE UNCHANGED vars
  BY <1>11 DEF vars, Harmless, IInv, SelectedOrVerified
<1> QED BY <1>2, <1>3, <1>4, <1>5, <1>6, <1>7, <1>8, <1>9, <1>10, <1>11 DEF Next, TaskStep

\* In every state of the invariant the bootloader finds a whole image.
LEMMA InvBootable == IInv => AlwaysBootable
<1> SUFFICES ASSUME IInv PROVE AlwaysBootable
  OBVIOUS
<1>1. Selected(otadata) \in {running, Target}
  <2>1. Selected(otadata) \in Slot
    BY SelectedIsSlot DEF IInv, TypeOK
  <2> QED BY <2>1 DEF IInv, TypeOK, Target, Other, Slot
<1> QED BY <1>1 DEF AlwaysBootable, IInv, RunningIntact, SelectedOrVerified

LEMMA FlashStep ==
  ASSUME IInv, [Next]_vars
  PROVE  RunningIntact' /\ SelectedOrVerified'
<1> USE DEF RunningIntact, SelectedOrVerified
<1>1. CASE Harmless
  <2>1. Target' = Target
    BY <1>1 DEF Harmless, Target
  <2> QED BY <1>1, <2>1 DEF Harmless, IInv
<1>2. CASE Switches
  <2>1. Target' = Target
    BY <1>2 DEF Switches, Target
  <2> QED BY <1>2, <2>1 DEF Switches, IInv
<1>3. CASE Boot
  <2>1. running' = Selected(otadata) /\ UNCHANGED <<slots, otadata>> /\ pc' = "check"
    BY <1>3, InvBootable DEF Boot, BootSlot, AlwaysBootable, RamReset, flash
  <2> QED BY <2>1, InvBootable DEF AlwaysBootable
<1> QED BY <1>1, <1>2, <1>3, StepKinds

LEMMA LockStep ==
  ASSUME LockReleased, [Next]_vars
  PROVE  LockReleased'
<1> USE DEF LockReleased
<1>1. CASE CheckNew \/ CheckNone \/ Sleep \/ BeginOk \/ BeginFails \/ DescOk \/ DescFails
  BY <1>1 DEF CheckNew, CheckNone, Checks, Sleep, BeginOk, BeginFails, DescOk, DescFails
<1>2. CASE PerformBegin \/ PerformBeginFails \/ PerformRead \/ PerformWriteFails
           \/ PerformNothing \/ PerformLost \/ PerformDone \/ TimedOut
  BY <1>2 DEF PerformBegin, PerformBeginFails, PerformRead, PerformWriteFails, PerformNothing,
    PerformLost, PerformDone, TimedOut, AfterLoop
<1>3. CASE Book \/ OtaEnd \/ Finish \/ SetBootErase \/ SetBootWrite
  BY <1>3 DEF Book, OtaEnd, Finish, SetBootErase, SetBootWrite
<1>4. CASE Restart \/ PowerFailure
  BY <1>4 DEF Restart, PowerFailure, Boot, RamReset
<1>5. CASE Settle \/ (\E v \in Versions : Publish(v))
  BY <1>5 DEF Settle, Publish
<1>6. CASE UNCHANGED vars
  BY <1>6 DEF vars
<1> QED BY <1>1, <1>2, <1>3, <1>4, <1>5, <1>6 DEF Next, TaskStep

LEMMA TypeStep ==
  ASSUME IInv, [Next]_vars
  PROVE  TypeOK' /\ LoopCount'
<1> USE DEF flash, download, static
<1>1. CASE TaskStep
  BY <1>1, TaskType DEF IInv
<1>2. CASE PowerFailure
  BY <1>2, BootType DEF PowerFailure, IInv
<1>3. CASE Settle
  <2>1. calm' \in BOOLEAN
    BY <1>3, Zenon DEF Settle
  <2> QED BY <1>3, <2>1 DEF Settle, IInv, TypeOK, LoopCount
<1>4. CASE \E v \in Versions : Publish(v)
  BY <1>4, OtaAssumption DEF Publish, IInv, TypeOK, LoopCount
<1>5. CASE UNCHANGED vars
  BY <1>5 DEF vars, IInv, TypeOK, LoopCount
<1> QED BY <1>1, <1>2, <1>3, <1>4, <1>5 DEF Next

LEMMA InvInit == Init => IInv
<1> SUFFICES ASSUME Init PROVE IInv
  OBVIOUS
<1>1. TypeOK
  BY TypeInit
<1>2. Selected(otadata) = running /\ running = 0
  BY DEF Init, Selected, ActiveOf, Slot
<1>3. Valid(slots[running])
  BY OtaAssumption DEF Init, Valid, Slot
<1> QED BY <1>1, <1>2, <1>3
    DEF IInv, Init, LoopCount, RunningIntact, SelectedOrVerified, LockReleased, FailLimit

LEMMA Invariant == Spec => []IInv
<1>1. IInv /\ [Next]_vars => IInv'
  BY TypeStep, FlashStep, LockStep DEF IInv
<1> QED BY InvInit, <1>1, PTL DEF Spec
----------------------------------------------------------------------------
\* Every variable keeps its type; in particular fail_count, compared with 5 by
\* equality (otadrive_esp.c:407), never passes it.
THEOREM OtaTypeCorrect == Spec => []TypeOK
BY Invariant, PTL DEF IInv

\* At every moment, and so whenever power fails, the selected slot holds a whole
\* image (esp_ota_ops.c:347-418, otadrive_esp.c:430-447).
THEOREM Bootable == Spec => []AlwaysBootable
BY Invariant, InvBootable, PTL

\* No download ever touches the firmware that runs (esp_ota_ops.c:558-604).
THEOREM RunningSafe == Spec => []RunningIntact
BY Invariant, PTL DEF IInv

\* Every way out of an attempt gives otadrv_lock back (otadrive_esp.c:456, 465).
THEOREM LockSafe == Spec => []LockReleased
BY Invariant, PTL DEF IInv

\* The update implements AtomicUpdate: whatever fails, the step that makes the
\* new firmware the installed one is the single write of an otadata sector.
THEOREM Refinement == Spec => AtomicSpec
<1> DEFINE installed == VersionOf(slots[Selected(otadata)])
<1> DEFINE runs == VersionOf(slots[running])
<1>1. Init => Atomic!Init
  <2> SUFFICES ASSUME Init PROVE Atomic!Init
    OBVIOUS
  <2>1. IInv
    BY InvInit
  <2>2. Selected(otadata) = running
    BY DEF Init, Selected, ActiveOf, Slot
  <2>3. runs \in Versions
    BY <2>1 DEF IInv, RunningIntact, VersionOf, Valid
  <2> QED BY <2>2, <2>3 DEF Atomic!Init
<1>2. IInv /\ [Next]_vars => [Atomic!Next]_<<installed, runs>>
  <2> SUFFICES ASSUME IInv, [Next]_vars PROVE [Atomic!Next]_<<installed, runs>>
    OBVIOUS
  <2>1. CASE Harmless
    <3>1. runs' = runs
      BY <2>1 DEF Harmless
    <3>2. slots'[Selected(otadata)'] = slots[Selected(otadata)]
      BY <2>1 DEF Harmless, IInv, SelectedOrVerified
    <3> QED BY <3>1, <3>2
  <2>2. CASE Switches
    <3>1. runs = installed /\ runs' = runs /\ installed' = VersionOf(slots[Target])
      BY <2>2 DEF Switches
    <3>2. VersionOf(slots[Target]) \in Versions
      BY <2>2 DEF Switches, IInv, SelectedOrVerified, VersionOf, Valid
    <3> QED BY <3>1, <3>2 DEF Atomic!Next, Atomic!Install
  <2>3. CASE Boot
    <3>1. running' = Selected(otadata) /\ UNCHANGED <<slots, otadata>>
      BY <2>3, InvBootable DEF Boot, BootSlot, AlwaysBootable, flash
    <3> QED BY <3>1 DEF Atomic!Next, Atomic!Boot
  <2> QED BY <2>1, <2>2, <2>3, StepKinds
<1> QED BY <1>1, <1>2, Invariant, PTL DEF Spec, AtomicSpec, Atomic!Spec
=============================================================================
