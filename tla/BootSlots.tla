------------------------------- MODULE BootSlots -------------------------------
(* The A/B slots of boot_control: the control block on the misc partition, the  *)
(* autoboot file of each boot partition, the trial property and the firmware's  *)
(* one-shot tryboot flag, across power losses and trial boots that fail.        *)
(*                                                                              *)
(* The service has one binder thread (main.cpp), so calls do not overlap, but   *)
(* power may fail between any two writes. Priority and tries of a slot take     *)
(* three pairs of values only, because nothing decrements the tries; they are   *)
(* "unbootable" (0, 0), "unverified" and "successful".                          *)
EXTENDS Naturals

BootSlot == {"a", "b"}
NoControl == [active |-> "none"]
Torn == [all |-> "torn"]
Idle == [op |-> "none", slot |-> "a", step |-> "none"]

VARIABLES
  misc,          \* the control block on disk
  control,       \* control_ of the service
  autoboot,      \* autoboot.txt on boot_a and boot_b: [all] and [tryboot] slots
  bootCall,      \* the call under way and the step it takes next
  trialProperty, \* vendor.rpi5.ab.trial
  tryboot,       \* the firmware's flag
  current,       \* the slot that runs, or "off"
  completed,     \* sys.boot_completed
  committed,     \* markBootSuccessful() succeeded in this boot
  image,         \* whether a slot's image can complete a boot
  confirmed      \* history: slots whose present image has completed a boot

bootFiles == <<misc, autoboot>>
bootWorld == <<tryboot, current, completed, committed, image, confirmed>>
bootVars == <<misc, control, autoboot, bootCall, trialProperty, bootWorld>>

Other(s) == CHOOSE o \in BootSlot : o # s
SlotState == {"unbootable", "unverified", "successful"}
ControlBlock == [active: BootSlot, slots: [BootSlot -> SlotState]]
Entry == [all: BootSlot, trial: BootSlot]

BootTypeOK ==
  /\ misc \in ControlBlock \union {NoControl}
  /\ control \in ControlBlock \union {NoControl}
  /\ autoboot \in [BootSlot -> Entry \union {Torn}]
  /\ bootCall \in [op: {"none", "mark", "activate", "unbootable"}, slot: BootSlot,
                   step: {"none", "save", "a", "b", "end"}]
  /\ current \in BootSlot \union {"off"}
  /\ image \in [BootSlot -> {"good", "bad"}]
  /\ confirmed \subseteq BootSlot
  /\ {trialProperty, tryboot, completed, committed} \subseteq BOOLEAN

(* A device as it leaves the factory: the image of slot a has been tried.       *)
BootInit ==
  /\ misc = NoControl /\ control = NoControl
  /\ autoboot = [p \in BootSlot |-> [all |-> "a", trial |-> "b"]]
  /\ bootCall = Idle
  /\ trialProperty = FALSE /\ tryboot = FALSE /\ completed = FALSE /\ committed = FALSE
  /\ current = "off"
  /\ image = [s \in BootSlot |-> IF s = "a" THEN "good" ELSE "bad"]
  /\ confirmed = {"a"}

(* The constructor: load(), or a fresh block for the slot that runs, saved.     *)
Loaded(s) == IF misc # NoControl THEN misc
             ELSE [active |-> s, slots |-> [i \in BootSlot |->
                     IF i = s THEN "successful" ELSE "unverified"]]

(* The firmware reads the file on the first partition; without one that can be *)
(* read it starts that partition.                                               *)
FirmwareChoice == IF autoboot["a"] = Torn THEN "a"
                  ELSE IF tryboot THEN autoboot["a"].trial ELSE autoboot["a"].all
PowerOn ==
  /\ current = "off"
  /\ current' = FirmwareChoice
  /\ control' = Loaded(FirmwareChoice) /\ misc' = Loaded(FirmwareChoice)
  /\ tryboot' = FALSE
  /\ UNCHANGED <<autoboot, bootCall, trialProperty, completed, committed, image, confirmed>>

Shutdown(try) ==
  /\ current' = "off" /\ control' = NoControl /\ bootCall' = Idle
  /\ trialProperty' = FALSE /\ completed' = FALSE /\ committed' = FALSE
  /\ tryboot' = try
  /\ UNCHANGED <<misc, image, confirmed>>

(* Power fails, also in the middle of a write of an autoboot file.              *)
PowerLoss ==
  /\ current # "off"
  /\ Shutdown(tryboot)
  /\ \/ UNCHANGED autoboot
     \/ /\ bootCall.step \in BootSlot
        /\ autoboot' = [autoboot EXCEPT ![bootCall.step] = Torn]

(* A slot that cannot complete its boot is reset.                               *)
GiveUp == /\ current # "off" /\ image[current] = "bad"
          /\ Shutdown(tryboot) /\ UNCHANGED autoboot

(* init acts on the trial property with a reboot into the trial slot.           *)
TrialReboot == trialProperty /\ Shutdown(TRUE) /\ UNCHANGED autoboot

Complete == /\ current # "off" /\ ~completed /\ image[current] = "good"
            /\ completed' = TRUE
            /\ confirmed' = confirmed \union {current}
            /\ UNCHANGED <<misc, control, autoboot, bootCall, trialProperty, tryboot,
                           current, committed, image>>

(* The update client writes an image to the slot that does not run, once this   *)
(* boot is committed and the slot is marked unbootable.                         *)
WriteImage(result) ==
  /\ committed /\ bootCall = Idle
  /\ control.slots[Other(current)] = "unbootable"
  /\ image' = [image EXCEPT ![Other(current)] = result]
  /\ confirmed' = confirmed \ {Other(current)}
  /\ UNCHANGED <<misc, control, autoboot, bootCall, trialProperty, tryboot, current,
                 completed, committed>>

(* setState() and slot_suffix, before anything is written.                      *)
BeginCall(op, slot, state, active) ==
  /\ completed /\ bootCall = Idle
  /\ control' = [active |-> active, slots |-> [control.slots EXCEPT ![slot] = state]]
  /\ bootCall' = [op |-> op, slot |-> slot, step |-> "save"]
  /\ UNCHANGED <<misc, autoboot, trialProperty, bootWorld>>
markBootSuccessful == BeginCall("mark", current, "successful", current)
setActiveBootSlot(slot) == BeginCall("activate", slot, "unverified", slot)
setSlotAsUnbootable(slot) == BeginCall("unbootable", slot, "unbootable", control.active)

(* Saving the block, both boot files unless a slot is made unbootable, then what *)
(* follows on success. A step that fails ends the call, a write of a file perhaps *)
(* after the file was truncated.                                                 *)
StepAfter(step) == CASE step = "save" -> IF bootCall.op = "unbootable" THEN "end" ELSE "a"
                     [] step = "a" -> "b"
                     [] step = "b" -> "end"
StepDone == bootCall' = [bootCall EXCEPT !.step = StepAfter(bootCall.step)]
CallFails == /\ bootCall.step \in {"save", "a", "b"}
             /\ bootCall' = Idle
             /\ autoboot' \in {autoboot} \union
                  {[autoboot EXCEPT ![p] = Torn] : p \in {bootCall.step} \intersect BootSlot}
             /\ UNCHANGED <<misc, control, trialProperty, bootWorld>>
save == /\ bootCall.step = "save"
        /\ misc' = control /\ StepDone
        /\ UNCHANGED <<control, autoboot, trialProperty, bootWorld>>

(* syncBootFiles(): the [all] section names the slot that runs, [tryboot] the   *)
(* slot of the call, or the other slot once a boot succeeded.                   *)
TrialSlot == IF bootCall.op = "mark" THEN Other(current) ELSE bootCall.slot
\* Mutant: the slot of the call is written into both sections.
writeTrialEverywhere(p) ==
  /\ bootCall.step = p
  /\ autoboot' = [autoboot EXCEPT ![p] = [all |-> TrialSlot, trial |-> TrialSlot]]
  /\ StepDone
  /\ UNCHANGED <<misc, control, trialProperty, bootWorld>>

writeAutoboot(p) ==
  /\ bootCall.step = p
  /\ autoboot' = [autoboot EXCEPT ![p] = [all |-> current, trial |-> TrialSlot]]
  /\ StepDone
  /\ UNCHANGED <<misc, control, trialProperty, bootWorld>>
Return ==
  /\ bootCall.step = "end"
  /\ trialProperty' = CASE bootCall.op = "mark" -> FALSE
                        [] bootCall.op = "activate" /\ bootCall.slot # current -> TRUE
                        [] OTHER -> trialProperty
  /\ committed' = (committed \/ bootCall.op = "mark")
  /\ bootCall' = Idle
  /\ UNCHANGED <<misc, control, autoboot, tryboot, current, completed, image, confirmed>>

BootNext ==
  \/ PowerOn \/ PowerLoss \/ GiveUp \/ TrialReboot \/ Complete
  \/ \E result \in {"good", "bad"} : WriteImage(result)
  \/ markBootSuccessful
  \/ \E slot \in BootSlot : setActiveBootSlot(slot) \/ setSlotAsUnbootable(slot)
  \/ save \/ CallFails \/ Return
  \/ \E p \in BootSlot : writeAutoboot(p)

BootSpec == BootInit /\ [][BootNext]_bootVars
(* The firmware starts, and the watchdog ends a boot that makes no progress.    *)
BootFairness == WF_bootVars(PowerOn) /\ WF_bootVars(GiveUp)

--------------------------------------------------------------------------------
(* Whatever trial is scheduled, cut short or failing, an ordinary boot goes to   *)
(* a slot whose image has completed a boot, as rpi5-ab-tryboot.sh says. A file   *)
(* torn by a power loss leaves the choice to the firmware.                       *)
FallbackIsConfirmed == autoboot["a"] # Torn => autoboot["a"].all \in confirmed

(* A slot that cannot boot does not keep the device: a confirmed one follows.    *)
TrialFallsBack ==
  (current # "off" /\ image[current] = "bad")
    ~> (current \in confirmed \/ autoboot["a"] = Torn)
================================================================================
