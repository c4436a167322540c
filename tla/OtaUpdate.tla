----------------------------- MODULE OtaUpdate -----------------------------
(***************************************************************************)
(* Firmware update over the air: the task otadrive_test of main/blynk.c    *)
(* and what it calls, otadrive_updateFirmwareInfo and                      *)
(* otadrive_updateFirmware (ota_driver), esp_https_ota and the flash       *)
(* operations of app_update (esp_ota_ops), down to the two sectors of      *)
(* otadata from which the bootloader picks one of two slots.               *)
(*                                                                         *)
(* Power may fail between any two steps; erasing and writing a flash       *)
(* sector are separate steps.  Lengths are in units of the image header.   *)
(* While calm is FALSE everything outside may fail: the server and the     *)
(* network, the flash, the power, the image the server sends.              *)
(*                                                                         *)
(* A definition A_B stands before the definition A it is a wrong version   *)
(* of; no action uses it.                                                  *)
(***************************************************************************)
EXTENDS Integers

CONSTANTS
  Versions,     \* firmware versions
  Size,         \* length of each version's image
  Hdr,          \* IMAGE_HEADER_SIZE
  Chunk,        \* what one read of the HTTP client returns at most
  MaxPublish    \* bound: how often the server changes what it offers

ASSUME OtaAssumption ==
  /\ Hdr \in Nat \ {0} /\ Chunk \in Nat \ {0} /\ MaxPublish \in Nat
  /\ Size \in [Versions -> Nat] /\ \A v \in Versions : Size[v] > Hdr
  /\ Versions # {} /\ "none" \notin Versions

VARIABLES
  slots,      \* flash: the partitions ota_0 and ota_1
  otadata,    \* flash: ota_seq of the two sectors, 0 when erased or torn
  running,    \* the slot the running firmware was booted from
  pc,         \* where the task is
  held,       \* otadrv_lock is taken
  img,        \* what the server sends in this download
  got,        \* data_process: how much of it was received
  cnt,        \* binary_file_len
  hstate,     \* esp_https_ota_state
  lastDl, failCount,
  size,       \* the static variable size: content length found by the check's client
  measured,   \* lock = 0: size has been read in this boot
  offer,      \* what the server has
  published,  \* how often it changed
  calm        \* from now on nothing outside fails

flash == <<slots, otadata>>
download == <<img, got, cnt, hstate, lastDl, failCount>>
static == <<size, measured>>
server == <<offer, published, calm>>
vars == <<slots, otadata, running, pc, held, img, got, cnt, hstate, lastDl, failCount, size,
          measured, offer, published, calm>>

Slot == 0..1
Other(s) == 1 - s

\* What a slot holds: the first len units of a version, intact or not
Blank == [ver |-> "none", len |-> 0, good |-> FALSE]
Image == [ver : Versions \cup {"none"}, len : Nat, good : BOOLEAN]

\* esp_image_verify
Valid(i) == i.ver \in Versions /\ i.good /\ i.len = Size[i.ver]

\* bootloader_common_get_active_otadata: the sector with the larger ota_seq, or -1
ActiveOf(o) == IF o[0] = 0 /\ o[1] = 0 THEN -1 ELSE IF o[0] >= o[1] THEN 0 ELSE 1

\* esp_ota_get_boot_partition: the first slot when otadata is empty
Selected(o) == IF ActiveOf(o) = -1 THEN 0 ELSE (o[ActiveOf(o)] - 1) % 2

\* The bootloader tries the other slot when the selected one is not valid.
BootSlot ==
  IF Valid(slots[Selected(otadata)]) THEN Selected(otadata) ELSE Other(Selected(otadata))

\* What RAM holds after a boot
RamReset ==
  /\ pc' = "check" /\ held' = FALSE
  /\ img' = Blank /\ got' = 0 /\ cnt' = 0 /\ hstate' = "BEGIN" /\ lastDl' = -1 /\ failCount' = 0
  /\ size' = 0 /\ measured' = FALSE

Init ==
  /\ offer \in Versions /\ published = 0 /\ calm = FALSE
  /\ slots = [s \in Slot |-> IF s = 0 THEN [ver |-> offer, len |-> Size[offer], good |-> TRUE] ELSE Blank]
  /\ otadata = [s \in Slot |-> 0]
  /\ running = 0
  /\ pc = "check" /\ held = FALSE
  /\ img = Blank /\ got = 0 /\ cnt = 0 /\ hstate = "BEGIN" /\ lastDl = -1 /\ failCount = 0
  /\ size = 0 /\ measured = FALSE

\* esp_ota_get_next_update_partition(NULL)
Target_Selected == Selected(otadata)
Target == Other(running)
----------------------------------------------------------------------------
(* otadrive_updateFirmwareInfo                                             *)

\* No other task takes otadrv_lock, so waiting for it a second is waiting in vain:
\* the answer to a check that does not get it is the one of CheckNone.
Checks ==
  /\ pc = "check"
  /\ UNCHANGED <<flash, running, held, download, static, server>>

\* 200: the server has something other than what runs
CheckNew == Checks /\ ~held /\ offer # slots[running].ver /\ pc' = "begin"

\* any other answer, or none
CheckNone == Checks /\ (held \/ ~calm \/ offer = slots[running].ver) /\ pc' = "sleep"

Sleep ==
  /\ pc = "sleep" /\ pc' = "check"
  /\ UNCHANGED <<flash, running, held, download, static, server>>
----------------------------------------------------------------------------
(* otadrive_updateFirmware                                                 *)

\* esp_https_ota_begin
BeginOk ==
  /\ pc = "begin" /\ ~held /\ held' = TRUE
  /\ \E good \in BOOLEAN : /\ calm => good
                           /\ img' = [ver |-> offer, len |-> Size[offer], good |-> good]
  /\ got' = 0 /\ cnt' = 0 /\ hstate' = "BEGIN"
  /\ lastDl' = -1 /\ failCount' = 0
  /\ pc' = "desc"
  /\ UNCHANGED <<flash, running, static, server>>

BeginFails ==
  /\ pc = "begin" /\ ~held /\ held' = TRUE /\ ~calm
  /\ pc' = "end"
  /\ UNCHANGED <<flash, running, download, static, server>>

\* esp_https_ota_get_img_desc: the header is read, not yet written
DescOk ==
  /\ pc = "desc" /\ got' = Hdr /\ cnt' = Hdr /\ pc' = "perform"
  /\ UNCHANGED <<flash, running, held, img, hstate, lastDl, failCount, static, server>>

DescFails ==
  /\ pc = "desc" /\ ~calm /\ pc' = "end"
  /\ UNCHANGED <<flash, running, held, download, static, server>>

\* After the loop: esp_https_ota_finish only when all data was received
AfterLoop(g) == IF g = img.len THEN "finish" ELSE "end"

(* esp_https_ota_perform, first call: esp_ota_begin erases the slot, then  *)
(* the header read before is written and counted a second time.            *)
PerformBegin ==
  /\ pc = "perform" /\ hstate = "BEGIN"
  /\ hstate' = "IN_PROGRESS" /\ cnt' = cnt + Hdr
  /\ slots' = [slots EXCEPT ![Target] = [img EXCEPT !.len = Hdr]]
  /\ pc' = "book"
  /\ UNCHANGED <<otadata, running, held, img, got, lastDl, failCount, static, server>>

\* the erase fails, or after it the write (the magic byte is wrong)
PerformBeginFails ==
  /\ pc = "perform" /\ hstate = "BEGIN" /\ ~calm
  /\ \/ UNCHANGED <<slots, hstate>>
     \/ slots' = [slots EXCEPT ![Target] = Blank] /\ hstate' = "IN_PROGRESS"
  /\ pc' = AfterLoop(got)
  /\ UNCHANGED <<otadata, running, held, img, got, cnt, lastDl, failCount, static, server>>

\* later calls: a read and a write, ...
Piece == IF img.len - got < Chunk THEN img.len - got ELSE Chunk
PerformRead ==
  /\ pc = "perform" /\ hstate = "IN_PROGRESS" /\ got < img.len
  /\ got' = got + Piece /\ cnt' = cnt + Piece
  /\ slots' = [slots EXCEPT ![Target].len = @ + Piece]
  /\ pc' = "book"
  /\ UNCHANGED <<otadata, running, held, img, hstate, lastDl, failCount, static, server>>

\* ... a read whose write fails, ...
PerformWriteFails ==
  /\ pc = "perform" /\ hstate = "IN_PROGRESS" /\ got < img.len /\ ~calm
  /\ got' = got + Piece /\ pc' = AfterLoop(got')
  /\ UNCHANGED <<flash, running, held, img, cnt, hstate, lastDl, failCount, static, server>>

\* ... a read that returns nothing although the connection is there, ...
PerformNothing ==
  /\ pc = "perform" /\ hstate = "IN_PROGRESS" /\ got < img.len /\ ~calm
  /\ pc' = "book"
  /\ UNCHANGED <<flash, running, held, download, static, server>>

\* ... a connection that is lost, ...
PerformLost ==
  /\ pc = "perform" /\ hstate = "IN_PROGRESS" /\ got < img.len /\ ~calm
  /\ pc' = AfterLoop(got)
  /\ UNCHANGED <<flash, running, held, download, static, server>>

\* ... and the end of the data.
PerformDone ==
  /\ pc = "perform" /\ hstate = "IN_PROGRESS" /\ got = img.len
  /\ hstate' = "SUCCESS" /\ pc' = AfterLoop(got)
  /\ UNCHANGED <<flash, running, held, img, got, cnt, lastDl, failCount, static, server>>

\* "Total operation timeout"
TimedOut ==
  /\ pc = "perform" /\ ~calm /\ pc' = "end"
  /\ UNCHANGED <<flash, running, held, download, static, server>>

FailLimit == 5

Failed_Twice == IF lastDl # -1 /\ cnt = lastDl THEN failCount + 2 ELSE 0
Failed == IF lastDl # -1 /\ cnt = lastDl THEN failCount + 1 ELSE 0

Book ==
  /\ pc = "book"
  /\ \E s \in {-1, 0, img.len} :
       /\ calm => s = img.len
       /\ size' = IF measured THEN size ELSE s
  /\ measured' = TRUE
  /\ failCount' = Failed
  /\ \/ failCount' = FailLimit /\ pc' = "end" /\ UNCHANGED lastDl
     \/ failCount' # FailLimit /\ lastDl' = cnt /\ pc' = IF size' = 0 THEN "restart" ELSE "perform"
  /\ UNCHANGED <<flash, running, held, img, got, cnt, hstate, server>>

\* ota_end: the context is not released (the abort is commented out).
OtaEnd_KeepsLock ==
  /\ pc = "end" /\ pc' = "sleep" /\ held' = held
  /\ UNCHANGED <<flash, running, download, static, server>>
OtaEnd ==
  /\ pc = "end" /\ pc' = "sleep" /\ held' = FALSE
  /\ UNCHANGED <<flash, running, download, static, server>>

\* esp_https_ota_finish: esp_ota_end verifies the image and releases; the boot
\* partition is set only after a download that ended well, ...
FinishOk_Unverified == hstate = "SUCCESS"
FinishOk == hstate = "SUCCESS" /\ Valid(slots[Target])
Finish ==
  /\ pc = "finish"
  /\ \/ FinishOk /\ pc' = "erase" /\ UNCHANGED held
     \/ ~FinishOk /\ pc' = "sleep" /\ held' = FALSE
  /\ UNCHANGED <<flash, running, download, static, server>>

\* ... by esp_rewrite_ota_data: the next ota_seq that selects slot s, written
\* over the sector that is not active, ...
NextSector == IF ActiveOf(otadata) = 0 THEN 1 ELSE 0
\* the least i * 2 + (s + 1) % 2 that is not below the active ota_seq
NextSeq_OffByOne(s) ==
  IF ActiveOf(otadata) = -1 THEN s
    ELSE LET seq == otadata[ActiveOf(otadata)] IN IF seq % 2 = s % 2 THEN seq ELSE seq + 1
NextSeq(s) ==
  IF ActiveOf(otadata) = -1 THEN s + 1
    ELSE LET seq == otadata[ActiveOf(otadata)] IN
         IF seq % 2 = (s + 1) % 2 THEN seq ELSE seq + 1

SetBootErase ==
  /\ pc = "erase"
  /\ \/ otadata' = [otadata EXCEPT ![NextSector] = 0] /\ pc' = "write"
     \/ ~calm /\ pc' = "restart" /\ (UNCHANGED otadata \/ otadata' = [otadata EXCEPT ![NextSector] = 0])
  /\ UNCHANGED <<slots, running, held, download, static, server>>

\* ... and a failure of which is not reported (err is shadowed).
SetBootWrite ==
  /\ pc = "write" /\ pc' = "restart"
  /\ \/ otadata' = [otadata EXCEPT ![NextSector] = NextSeq(Target)]
     \/ ~calm /\ UNCHANGED otadata
  /\ UNCHANGED <<slots, running, held, download, static, server>>

\* esp_restart, a panic, or a power failure: the bootloader starts a slot.
Boot ==
  /\ running' = BootSlot /\ RamReset
  /\ UNCHANGED <<flash, server>>

Restart == pc = "restart" /\ Boot
PowerFailure == ~calm /\ Boot
----------------------------------------------------------------------------
Publish(v) ==
  /\ published < MaxPublish /\ published' = published + 1
  /\ offer' = v
  /\ UNCHANGED <<flash, running, pc, held, download, static, calm>>

Settle ==
  /\ ~calm /\ calm' = TRUE
  /\ UNCHANGED <<flash, running, pc, held, download, static, offer, published>>

TaskStep ==
  \/ CheckNew \/ CheckNone \/ Sleep
  \/ BeginOk \/ BeginFails \/ DescOk \/ DescFails
  \/ PerformBegin \/ PerformBeginFails \/ PerformRead \/ PerformWriteFails \/ PerformNothing
  \/ PerformLost \/ PerformDone \/ TimedOut \/ Book \/ OtaEnd
  \/ Finish \/ SetBootErase \/ SetBootWrite \/ Restart

Next == TaskStep \/ PowerFailure \/ Settle \/ \E v \in Versions : Publish(v)

Spec == Init /\ [][Next]_vars

\* otadrive_test is an ordinary task: it is scheduled, and every call it makes
\* returns (the HTTP client's time-outs).
FairSpec == Spec /\ WF_vars(TaskStep)
----------------------------------------------------------------------------
\* Every variable has its type: fail_count never passes the limit, which the
\* code tests for equality only.
TypeOK ==
  /\ slots \in [Slot -> Image] /\ otadata \in [Slot -> Nat] /\ running \in Slot
  /\ pc \in {"check", "sleep", "begin", "desc", "perform", "book", "end", "finish", "erase", "write", "restart"}
  /\ held \in BOOLEAN /\ img \in Image /\ got \in Nat /\ cnt \in Nat
  /\ hstate \in {"BEGIN", "IN_PROGRESS", "SUCCESS"}
  /\ lastDl \in Nat \cup {-1} /\ failCount \in 0..FailLimit
  /\ size \in Int /\ measured \in BOOLEAN
  /\ offer \in Versions /\ published \in 0..MaxPublish /\ calm \in BOOLEAN

\* Whenever power fails, the slot the bootloader selects holds a whole, intact
\* image: neither an erased slot nor a half-written otadata sector is chosen.
AlwaysBootable == Valid(slots[Selected(otadata)])

\* The firmware that runs is never erased or written under its own feet.
RunningIntact == Valid(slots[running])

\* However an attempt ended, otadrv_lock is free again before the next check,
\* which would otherwise report "no firmware" for ever.
LockReleased == held => pc \notin {"check", "sleep", "begin"}

\* What the next boot runs, and what runs, change only as an atomic update
\* would change them, power failures at any step included.
VersionOf(i) == IF Valid(i) THEN i.ver ELSE "none"
Atomic == INSTANCE AtomicUpdate WITH
            installed <- VersionOf(slots[Selected(otadata)]), running <- VersionOf(slots[running])
AtomicSpec == Atomic!Spec

\* Once nothing fails any more, the device gets to what the server offers,
\* from wherever earlier failures left slots, otadata and static variables.
EventuallyCurrent == calm ~> [](slots[running].ver = offer)

=============================================================================
