----------------------------- MODULE Device_proofs -----------------------------
(* Theorems about the services beside the audio service: boot slots, CEC, the USB  *)
(* gadget and the profile store, each for itself and as the programs of MCDevice.  *)
EXTENDS MCDevice, SequenceTheorems, TLAPS

--------------------------------------------------------------------------------
(* Boot slots. An ordinary boot goes to a slot that has completed a boot, wherever *)
(* power fails. What is named in the file is confirmed, but an update overwrites a *)
(* confirmed slot: it must be another one than the file names.                     *)


\* A slot that runs has a control block, one that completed its boot is confirmed,
\* and only then calls are made; a call that makes a slot unbootable writes no file.
RunningInv ==
  /\ current # "off" => control \in ControlBlock
  /\ completed => current \in BootSlot /\ current \in confirmed
  /\ committed \/ bootCall.step # "none" => completed
  /\ bootCall.op = "unbootable" => bootCall.step \notin BootSlot

\* From the write of the first file on, a mark has that file name the slot that runs,
\* and no later call changes it: what an update overwrites is not named.
Marked == committed \/ (bootCall.op = "mark" /\ bootCall.step \in {"b", "end"})
NamedInv == Marked => autoboot["a"] = Torn \/ autoboot["a"].all = current

BootInv == BootTypeOK /\ RunningInv /\ NamedInv /\ FallbackIsConfirmed

LEMMA OtherSlot == \A s \in BootSlot : Other(s) \in BootSlot /\ Other(s) # s
BY DEF Other, BootSlot

LEMMA EntryOrTorn ==
  /\ Torn \notin Entry
  /\ \A e \in Entry : e.all \in BootSlot /\ e.trial \in BootSlot
<1>1. Torn.all \notin BootSlot
  BY DEF Torn, BootSlot
<1> QED BY <1>1 DEF Entry

LEMMA BootInvInit == BootInit => BootInv
<1> SUFFICES ASSUME BootInit PROVE BootInv
  OBVIOUS
<1>1. autoboot["a"].all = "a" /\ autoboot \in [BootSlot -> Entry]
  BY DEF BootInit, BootSlot, Entry
<1>2. BootTypeOK
  BY <1>1 DEF BootInit, BootTypeOK, BootSlot, Idle
<1>3. RunningInv /\ NamedInv /\ FallbackIsConfirmed
  BY <1>1 DEF BootInit, RunningInv, NamedInv, Marked, FallbackIsConfirmed, Idle, BootSlot
<1> QED BY <1>2, <1>3 DEF BootInv

--------------------------------------------------------------------------------
(* Boots *)
\* A file that is kept or torn stays what the invariant says.
LEMMA ShutdownKeeps ==
  ASSUME BootInv, NEW try \in BOOLEAN, Shutdown(try),
         \/ UNCHANGED autoboot
         \/ \E p \in BootSlot : autoboot' = [autoboot EXCEPT ![p] = Torn]
  PROVE  BootInv'
<1>1. /\ autoboot' \in [BootSlot -> Entry \union {Torn}]
      /\ autoboot'["a"] \in {autoboot["a"], Torn}
  BY DEF BootInv, BootTypeOK, BootSlot
<1>2. BootTypeOK'
  BY <1>1 DEF BootInv, BootTypeOK, Shutdown, Idle, BootSlot
<1>3. RunningInv' /\ NamedInv'
  BY DEF BootInv, RunningInv, NamedInv, Marked, Shutdown, Idle, BootSlot
<1>4. FallbackIsConfirmed'
  BY <1>1 DEF BootInv, FallbackIsConfirmed, Shutdown
<1> QED BY <1>2, <1>3, <1>4 DEF BootInv

LEMMA PowerOnKeeps == ASSUME BootInv, PowerOn PROVE BootInv'
<1>1. FirmwareChoice \in BootSlot
  BY EntryOrTorn DEF BootInv, BootTypeOK, FirmwareChoice, BootSlot
<1>2. Loaded(FirmwareChoice) \in ControlBlock
  BY <1>1 DEF BootInv, BootTypeOK, Loaded, ControlBlock, SlotState
<1>3. BootTypeOK'
  BY <1>1, <1>2 DEF BootInv, BootTypeOK, PowerOn
<1>4. ~completed
  BY DEF BootInv, RunningInv, PowerOn, BootSlot
<1>5. RunningInv' /\ NamedInv' /\ FallbackIsConfirmed'
  BY <1>2, <1>4 DEF BootInv, RunningInv, NamedInv, Marked, FallbackIsConfirmed, PowerOn
<1> QED BY <1>3, <1>5 DEF BootInv

LEMMA CompleteKeeps == ASSUME BootInv, Complete PROVE BootInv'
<1>1. BootTypeOK' /\ RunningInv'
  BY DEF BootInv, BootTypeOK, RunningInv, Complete
<1>2. NamedInv' /\ FallbackIsConfirmed'
  BY DEF BootInv, NamedInv, Marked, FallbackIsConfirmed, Complete
<1> QED BY <1>1, <1>2 DEF BootInv

\* An update: the slot it overwrites is not the one that the file names.
LEMMA WriteImageKeeps ==
  ASSUME BootInv, NEW result \in {"good", "bad"}, WriteImage(result)
  PROVE  BootInv'
<1>1. current \in BootSlot /\ Other(current) \in BootSlot /\ Other(current) # current
  BY OtherSlot DEF BootInv, RunningInv, WriteImage
<1>2. BootTypeOK'
  BY <1>1 DEF BootInv, BootTypeOK, WriteImage
<1>3. RunningInv' /\ NamedInv'
  BY <1>1 DEF BootInv, RunningInv, NamedInv, Marked, WriteImage
<1>4. FallbackIsConfirmed'
  BY <1>1 DEF BootInv, NamedInv, Marked, FallbackIsConfirmed, WriteImage
<1> QED BY <1>2, <1>3, <1>4 DEF BootInv

--------------------------------------------------------------------------------
(* The steps of a call *)
LEMMA BeginKeeps ==
  ASSUME BootInv, NEW op \in {"mark", "activate", "unbootable"}, NEW slot \in BootSlot,
         NEW state \in SlotState, NEW active \in BootSlot, BeginCall(op, slot, state, active)
  PROVE  BootInv'
<1>1. control \in ControlBlock
  BY DEF BootInv, RunningInv, BeginCall, BootSlot
<1>2. control' \in ControlBlock
  BY <1>1 DEF BeginCall, ControlBlock
<1>3. BootTypeOK'
  BY <1>2 DEF BootInv, BootTypeOK, BeginCall, bootWorld
<1>4. RunningInv'
  BY <1>2 DEF BootInv, RunningInv, BeginCall, bootWorld, BootSlot
<1>5. NamedInv' /\ FallbackIsConfirmed'
  BY DEF BootInv, NamedInv, Marked, FallbackIsConfirmed, BeginCall, bootWorld
<1> QED BY <1>3, <1>4, <1>5 DEF BootInv

\* Every call is one of the three.
LEMMA CallsKeep ==
  ASSUME BootInv, \/ markBootSuccessful
               \/ \E slot \in BootSlot : setActiveBootSlot(slot) \/ setSlotAsUnbootable(slot)
  PROVE  BootInv'
<1>1. CASE markBootSuccessful
  <2>1. current \in BootSlot
    BY <1>1 DEF BootInv, RunningInv, markBootSuccessful, BeginCall
  <2> QED BY <1>1, <2>1, BeginKeeps DEF markBootSuccessful, SlotState
<1>2. ASSUME NEW slot \in BootSlot, setActiveBootSlot(slot) PROVE BootInv'
  BY <1>2, BeginKeeps DEF setActiveBootSlot, SlotState
<1>3. ASSUME NEW slot \in BootSlot, setSlotAsUnbootable(slot) PROVE BootInv'
  <2>1. control.active \in BootSlot
    BY <1>3 DEF BootInv, RunningInv, setSlotAsUnbootable, BeginCall, ControlBlock, BootSlot
  <2> QED BY <1>3, <2>1, BeginKeeps DEF setSlotAsUnbootable, SlotState
<1> QED BY <1>1, <1>2, <1>3

LEMMA SaveKeeps == ASSUME BootInv, save PROVE BootInv'
<1>1. completed /\ control \in ControlBlock
  BY DEF BootInv, RunningInv, save, BootSlot
<1>2. bootCall' = [bootCall EXCEPT !.step = IF bootCall.op = "unbootable" THEN "end" ELSE "a"]
  BY DEF save, StepDone, StepAfter
<1>3. BootTypeOK'
  BY <1>1, <1>2 DEF BootInv, BootTypeOK, save, bootWorld
<1>4. RunningInv'
  BY <1>1, <1>2 DEF BootInv, BootTypeOK, RunningInv, save, bootWorld, BootSlot
<1>5. NamedInv' /\ FallbackIsConfirmed'
  BY <1>2 DEF BootInv, BootTypeOK, NamedInv, Marked, FallbackIsConfirmed, save, bootWorld
<1> QED BY <1>3, <1>4, <1>5 DEF BootInv

\* The slot that runs has completed its boot, so it may be named.
LEMMA WriteKeeps == ASSUME BootInv, NEW p \in BootSlot, writeAutoboot(p) PROVE BootInv'
<1>1. /\ current \in BootSlot /\ current \in confirmed /\ completed
      /\ bootCall.op # "unbootable"
  BY DEF BootInv, RunningInv, writeAutoboot, BootSlot
<1>2. TrialSlot \in BootSlot
  BY <1>1, OtherSlot DEF BootInv, BootTypeOK, TrialSlot
<1>3. bootCall' = [bootCall EXCEPT !.step = IF p = "a" THEN "b" ELSE "end"]
  BY DEF writeAutoboot, StepDone, StepAfter, BootSlot
<1>4. /\ autoboot' \in [BootSlot -> Entry \union {Torn}]
      /\ p = "a" => autoboot'["a"].all = current
      /\ p # "a" => autoboot'["a"] = autoboot["a"]
  BY <1>1, <1>2 DEF BootInv, BootTypeOK, writeAutoboot, Entry, BootSlot
<1>5. BootTypeOK'
  BY <1>3, <1>4 DEF BootInv, BootTypeOK, writeAutoboot, bootWorld
<1>6. RunningInv'
  BY <1>1, <1>3 DEF BootInv, BootTypeOK, RunningInv, writeAutoboot, bootWorld, BootSlot
<1>7. NamedInv'
  BY <1>3, <1>4 DEF BootInv, BootTypeOK, NamedInv, Marked, writeAutoboot, bootWorld, BootSlot
<1>8. FallbackIsConfirmed'
  BY <1>1, <1>4 DEF BootInv, FallbackIsConfirmed, writeAutoboot, bootWorld
<1> QED BY <1>5, <1>6, <1>7, <1>8 DEF BootInv

LEMMA FailureKeeps == ASSUME BootInv, CallFails PROVE BootInv'
<1>1. /\ autoboot' \in [BootSlot -> Entry \union {Torn}]
      /\ autoboot'["a"] \in {autoboot["a"], Torn}
  BY DEF BootInv, BootTypeOK, BootSlot, CallFails
<1>2. BootTypeOK' /\ RunningInv'
  BY <1>1 DEF BootInv, BootTypeOK, RunningInv, CallFails, Idle, bootWorld, BootSlot
<1>3. NamedInv' /\ FallbackIsConfirmed'
  BY <1>1 DEF BootInv, NamedInv, Marked, FallbackIsConfirmed, CallFails, Idle, bootWorld
<1> QED BY <1>2, <1>3 DEF BootInv

LEMMA ReturnKeeps == ASSUME BootInv, Return PROVE BootInv'
<1>1. BootTypeOK' /\ RunningInv'
  BY DEF BootInv, BootTypeOK, RunningInv, Return, Idle, BootSlot
<1>2. NamedInv' /\ FallbackIsConfirmed'
  BY DEF BootInv, NamedInv, Marked, FallbackIsConfirmed, Return, Idle
<1> QED BY <1>1, <1>2 DEF BootInv

LEMMA BootInvStep == BootInv /\ [BootNext]_bootVars => BootInv'
<1> SUFFICES ASSUME BootInv, [BootNext]_bootVars PROVE BootInv'
  OBVIOUS
<1>1. CASE UNCHANGED bootVars
  BY <1>1 DEF BootInv, BootTypeOK, RunningInv, NamedInv, Marked, FallbackIsConfirmed, bootVars, bootWorld
<1>2. CASE PowerOn
  BY <1>2, PowerOnKeeps
<1>3. CASE PowerLoss
  BY <1>3, ShutdownKeeps DEF PowerLoss, BootInv, BootTypeOK
<1>4. CASE GiveUp
  BY <1>4, ShutdownKeeps DEF GiveUp, BootInv, BootTypeOK
<1>5. CASE TrialReboot
  BY <1>5, ShutdownKeeps DEF TrialReboot
<1>6. CASE Complete \/ \E result \in {"good", "bad"} : WriteImage(result)
  BY <1>6, CompleteKeeps, WriteImageKeeps
<1>7. CASE \/ markBootSuccessful
           \/ \E slot \in BootSlot : setActiveBootSlot(slot) \/ setSlotAsUnbootable(slot)
  BY <1>7, CallsKeep
<1>8. CASE save \/ CallFails \/ Return \/ \E p \in BootSlot : writeAutoboot(p)
  BY <1>8, SaveKeeps, FailureKeeps, ReturnKeeps, WriteKeeps
<1> QED BY <1>1, <1>2, <1>3, <1>4, <1>5, <1>6, <1>7, <1>8 DEF BootNext

--------------------------------------------------------------------------------
(* Whatever trials, updates, failed writes and power losses come before, an        *)
(* ordinary boot goes to a slot whose image has completed a boot (syncBootFiles()). *)
THEOREM FallbackConfirmed == BootSpec => []FallbackIsConfirmed
<1>1. BootInv => FallbackIsConfirmed
  BY DEF BootInv
<1> QED BY BootInvInit, BootInvStep, <1>1, PTL DEF BootSpec

--------------------------------------------------------------------------------
(* CEC. After enableCec(false) the event thread may be past its test of the flag    *)
(* with one message; it tests the flag again before the next one.                  *)

LateCecInv ==
  /\ cecFlags.enabled => lateMessages = 0
  /\ lateMessages = 0 \/ (lateMessages = 1 /\ eventPc \in {"poll", "filter"})

LEMMA ThreeBooleans ==
  ASSUME NEW a, NEW b, NEW c
  PROVE  {a, b, c} \subseteq BOOLEAN <=> a \in BOOLEAN /\ b \in BOOLEAN /\ c \in BOOLEAN
  BY Zenon

\* The parts of CecTypeOK.
CecBooleans == cecPort \in BOOLEAN /\ cecCallback \in BOOLEAN /\ cecCrashed \in BOOLEAN
CecRest == /\ queued \in 0..MaxQueued
           /\ received \in CecMessage \union {NoMessage}
           /\ eventPc \in {"poll", "filter", "test", "call"}
           /\ claimed \subseteq CecAddresses
           /\ lateMessages \in Nat
\* What a call of addLogicalAddress() read and adds.
ReadCall == [pc: {"idle", "store", "set"}, address: CecAddresses \union {"none"},
             read: SUBSET CecAddresses]
CallsInv == /\ cecCall \in [CecCallers -> ReadCall]
            /\ \A t \in CecCallers : cecCall[t].pc = "set" => cecCall[t].address \in CecAddresses
CecInv == CecBooleans /\ cecFlags \in Flags /\ CecRest /\ CallsInv /\ LateCecInv

LEMMA CecTypeParts == CecTypeOK <=> CecBooleans /\ cecFlags \in Flags /\ CecRest
<1>1. {cecPort, cecCallback, cecCrashed} \subseteq BOOLEAN <=> CecBooleans
  BY ThreeBooleans DEF CecBooleans
<1> QED BY <1>1 DEF CecTypeOK, CecRest

LEMMA CecInvInit == CecInit => CecInv
<1> SUFFICES ASSUME CecInit PROVE CecInv
  OBVIOUS
<1>1. cecFlags \in Flags /\ CecBooleans
  BY DEF CecInit, Flags, CecBooleans
<1>2. CecRest
  BY QueueAssumption DEF CecInit, CecRest
<1>3. LateCecInv /\ CallsInv
  BY DEF CecInit, LateCecInv, CallsInv, ReadCall, NoCall
<1> QED BY <1>1, <1>2, <1>3 DEF CecInv

\* What the steps that leave the calls alone, or the event thread, keep.
LEMMA CallsKept == ASSUME CallsInv, cecCall' = cecCall PROVE CallsInv'
  BY DEF CallsInv
LEMMA LateKept ==
  ASSUME LateCecInv, UNCHANGED <<cecFlags, lateMessages, eventPc>> PROVE LateCecInv'
  BY DEF LateCecInv

LEMMA CrashKeeps == ASSUME CecInv, CecCrash PROVE CecInv'
<1>1. CallsInv' /\ LateCecInv'
  BY CallsKept, LateKept DEF CecCrash, CecInv, cecShared, eventVars
<1> QED BY <1>1 DEF CecCrash, CecInv, CecBooleans, CecRest, cecShared, eventVars

\* The driver and the event thread.
LEMMA EventKeeps ==
  ASSUME CecInv, Arrives \/ Receive \/ Filter \/ TestCallback \/ onCecMessage PROVE CecInv'
<1> USE DEF cecShared, eventVars
<1>1. CASE onCecMessage /\ CecCrash
  BY <1>1, CrashKeeps
<1>2. CallsInv' /\ cecFlags' = cecFlags /\ CecBooleans'
  BY CallsKept DEF CecInv, CecBooleans, Arrives, Receive, Filter, TestCallback, onCecMessage,
                   CecCrash
<1>3. queued' \in 0..MaxQueued
  BY QueueAssumption DEF CecInv, CecRest, Arrives, Receive, Filter, TestCallback, onCecMessage,
                         CecCrash
<1>4. CecRest'
  BY <1>3 DEF CecInv, CecRest, Arrives, Receive, Filter, TestCallback, onCecMessage, CecCrash
<1>5. LateCecInv'
  <2>1. CASE Arrives \/ Receive
    BY <2>1 DEF CecInv, CecRest, LateCecInv, Arrives, Receive
  <2>2. CASE Filter
    BY <2>2 DEF CecInv, CecRest, LateCecInv, Filter, Passes
  <2>3. CASE TestCallback
    BY <2>3 DEF CecInv, CecRest, LateCecInv, TestCallback
  <2>4. CASE onCecMessage
    BY <2>4 DEF CecInv, CecRest, LateCecInv, onCecMessage, CecCrash
  <2> QED BY <2>1, <2>2, <2>3, <2>4
<1> QED BY <1>2, <1>3, <1>4, <1>5 DEF CecInv

\* The flags and the callback.
LEMMA SettingsKeep ==
  ASSUME CecInv, NEW t \in CecCallers,
         \/ \E f \in {"enabled", "wakeup", "control"}, value \in BOOLEAN : SetFlag(t, f, value)
         \/ \E next \in {"idle", "store"} : ClearCallback(t, next)
         \/ StoreCallback(t)
  PROVE  CecInv'
<1> USE DEF cecShared, eventVars
<1>1. ASSUME NEW f \in {"enabled", "wakeup", "control"}, NEW value \in BOOLEAN,
             SetFlag(t, f, value)
      PROVE  CecInv'
  <2>1. cecFlags' \in Flags /\ (f # "enabled" => cecFlags'.enabled = cecFlags.enabled)
    BY <1>1 DEF SetFlag, CecInv, Flags
  <2>2. CecBooleans' /\ CecRest' /\ CallsInv'
    BY <1>1, CallsKept DEF SetFlag, CecInv, CecBooleans, CecRest
  <2>3. LateCecInv'
    BY <1>1, <2>1 DEF SetFlag, CecInv, LateCecInv
  <2> QED BY <2>1, <2>2, <2>3 DEF CecInv
<1>2. CASE StoreCallback(t) \/ \E next \in {"idle", "store"} : ClearCallback(t, next)
  <2>1. CallsInv'
    BY <1>2 DEF StoreCallback, ClearCallback, CecInv, CallsInv, ReadCall
  <2>2. LateCecInv'
    BY <1>2, LateKept DEF StoreCallback, ClearCallback, CecInv
  <2>3. CecBooleans' /\ CecRest' /\ cecFlags' = cecFlags
    BY <1>2 DEF StoreCallback, ClearCallback, CecInv, CecBooleans, CecRest
  <2> QED BY <2>1, <2>2, <2>3 DEF CecInv
<1> QED BY <1>1, <1>2

\* The logical addresses.
LEMMA AddressesKeep ==
  ASSUME CecInv, NEW t \in CecCallers,
         \/ SetAddresses(t) \/ clearLogicalAddress(t)
         \/ \E a \in CecAddresses : ReadAddresses(t, a)
  PROVE  CecInv'
<1> USE DEF cecShared, eventVars
<1>1. CASE CecCrash
  BY <1>1, CrashKeeps
<1>2. CASE SetAddresses(t)
  <2>1. claimed' \subseteq CecAddresses
    BY <1>2 DEF SetAddresses, CecInv, CecRest, CallsInv, ReadCall
  <2>2. CallsInv'
    BY <1>2 DEF SetAddresses, CecInv, CallsInv, ReadCall, NoCall
  <2>3. LateCecInv'
    BY <1>2, LateKept DEF SetAddresses, CecInv
  <2> QED BY <1>2, <2>1, <2>2, <2>3 DEF SetAddresses, CecInv, CecBooleans, CecRest
<1>3. CASE clearLogicalAddress(t) /\ ~CecCrash
  <2>1. CallsInv' /\ LateCecInv'
    BY <1>3, LateKept, CallsKept DEF clearLogicalAddress, CecInv
  <2> QED BY <1>3, <2>1 DEF clearLogicalAddress, CecInv, CecBooleans, CecRest
<1>4. ASSUME NEW a \in CecAddresses, ReadAddresses(t, a), ~CecCrash PROVE CecInv'
  <2>1. CallsInv'
    BY <1>4 DEF ReadAddresses, CecInv, CecRest, CallsInv, ReadCall
  <2>2. LateCecInv'
    BY <1>4, LateKept DEF ReadAddresses, CecInv
  <2> QED BY <1>4, <2>1, <2>2 DEF ReadAddresses, CecInv, CecBooleans, CecRest
<1> QED BY <1>1, <1>2, <1>3, <1>4

LEMMA CecInvStep == CecInv /\ [CecNext]_cecVars => CecInv'
<1> SUFFICES ASSUME CecInv, [CecNext]_cecVars PROVE CecInv'
  OBVIOUS
<1>1. CASE UNCHANGED cecVars
  BY <1>1, CallsKept, LateKept
     DEF cecVars, cecShared, eventVars, CecInv, CecBooleans, CecRest
<1>2. CASE CecNext
  BY <1>2, EventKeeps, SettingsKeep, AddressesKeep DEF CecNext
<1> QED BY <1>1, <1>2

\* After enableCec(false) at most the one message in flight reaches the callback.
THEOREM DisableIsPrompt == CecSpec => [](CecTypeOK /\ DisableLatency)
<1>1. CecInv => CecTypeOK /\ DisableLatency
  BY CecTypeParts DEF CecInv, LateCecInv, DisableLatency
<1> QED BY CecInvInit, CecInvStep, <1>1, PTL DEF CecSpec
--------------------------------------------------------------------------------
(* The USB gadget. What one call pulls up, or an earlier one left behind, is told  *)
(* apart by where the call is and by whether a monitor lives.                      *)

\* No flag of a pull-up outlives its monitor.
MonitorInv == /\ monitorPc = "none" => ~gadgetPullup
              /\ gadgetPc \in {"setup", "adb", "plain", "start"} => monitorPc = "none"

\* What is linked at each step of a call, once the old gadget is pulled down.
LinksInv ==
  /\ gadgetPc \in {"stop", "join", "setup"} => links = {}
  /\ gadgetPc = "adb" => links = mCurrentUsbFunctions \ {"adb"} /\ "adb" \in mCurrentUsbFunctions
  /\ gadgetPc \in {"plain", "start", "wait"} => links = mCurrentUsbFunctions

\* What was pulled up: nothing until this call pulls up, then what it asked for.
PulledInv ==
  /\ gadgetPc \in {"stop", "join", "setup", "adb", "plain", "start"} => pulledUp = {}
  /\ gadgetPc = "wait" /\ gadgetPullup => pulledUp = mCurrentUsbFunctions

\* An answer is given when a call ends, and holds until the next one.
AnswerInv ==
  reported = "SUCCESS" => /\ gadgetPc \in {"idle", "up"}
                          /\ pulledUp = mCurrentUsbFunctions
                          /\ monitorPc = "none" \/ links = mCurrentUsbFunctions

GadgetPc == {"idle", "pulldown", "unlink", "stop", "join", "setup", "adb", "plain", "start",
             "wait", "up"}
GadgetInv == /\ GadgetTypeOK /\ gadgetPc \in GadgetPc
             /\ MonitorInv /\ LinksInv /\ PulledInv /\ AnswerInv

\* The parts of GadgetTypeOK.
GadgetBooleans ==
  /\ mCurrentUsbFunctionsApplied \in BOOLEAN /\ udc \in BOOLEAN /\ gadgetPullup \in BOOLEAN
  /\ writeUdc \in BOOLEAN /\ notified \in BOOLEAN /\ stopFlag \in BOOLEAN
GadgetSets ==
  /\ mCurrentUsbFunctions \subseteq GadgetFunction /\ links \subseteq GadgetFunction
  /\ pulledUp \subseteq GadgetFunction /\ daemons \subseteq Ffs /\ mEndpointList \subseteq Ffs
GadgetPlaces ==
  /\ monitorPc \in {"none", "check", "poll", "pull", "ended"}
  /\ reported \in {"none", "SUCCESS", "ERROR", "NOT_SUPPORTED"}
  /\ gadgetPc \in GadgetPc
GadgetParts == GadgetBooleans /\ GadgetSets /\ GadgetPlaces

LEMMA SixBooleans ==
  ASSUME NEW a, NEW b, NEW c, NEW d, NEW e, NEW f
  PROVE  {a, b, c, d, e, f} \subseteq BOOLEAN <=>
           /\ a \in BOOLEAN /\ b \in BOOLEAN /\ c \in BOOLEAN
           /\ d \in BOOLEAN /\ e \in BOOLEAN /\ f \in BOOLEAN
  BY Zenon

LEMMA GadgetTypeParts == GadgetTypeOK /\ gadgetPc \in GadgetPc <=> GadgetParts
<1>1. {mCurrentUsbFunctionsApplied, udc, gadgetPullup, writeUdc, notified, stopFlag}
        \subseteq BOOLEAN <=> GadgetBooleans
  BY SixBooleans DEF GadgetBooleans
<1> QED BY <1>1 DEF GadgetTypeOK, GadgetParts, GadgetSets, GadgetPlaces

LEMMA GadgetInvInit == GadgetInit => GadgetInv
<1> SUFFICES ASSUME GadgetInit PROVE GadgetInv
  OBVIOUS
<1>1. GadgetParts
  BY DEF GadgetInit, GadgetParts, GadgetBooleans, GadgetSets, GadgetPlaces, GadgetPc
<1>2. MonitorInv /\ LinksInv /\ PulledInv /\ AnswerInv
  BY DEF GadgetInit, MonitorInv, LinksInv, PulledInv, AnswerInv
<1> QED BY <1>1, <1>2, GadgetTypeParts DEF GadgetInv

LEMMA GadgetPartsStep == GadgetParts /\ GadgetNext => GadgetParts'
<1> SUFFICES ASSUME GadgetParts, GadgetNext PROVE GadgetParts'
  OBVIOUS
<1> USE DEF GadgetParts, GadgetBooleans, GadgetSets, GadgetPlaces
<1>1. ASSUME NEW f \in Ffs, DaemonOpens(f) \/ DaemonCloses(f) PROVE GadgetParts'
  BY ZenonT(60), <1>1 DEF DaemonOpens, DaemonCloses
<1>2. CASE MonitorCheck \/ MonitorEvent \/ MonitorPullUp \/ MonitorEnds
  BY <1>2 DEF MonitorCheck, MonitorEvent, MonitorPullUp, MonitorEnds, MonitorFrame, Present
<1>3. ASSUME NEW functions \in SUBSET GadgetFunction, setCurrentUsbFunctions(functions)
      PROVE  GadgetParts'
  BY <1>3 DEF setCurrentUsbFunctions, GadgetKeeps, GadgetPc
<1>4. CASE resetGadget \/ StopMonitor \/ JoinMonitor
  BY ZenonT(60), <1>4 DEF resetGadget, StopMonitor, JoinMonitor, GadgetKeeps, GadgetPc
<1>5. CASE GadgetFails \/ PlainPullUp \/ startMonitor \/ waitForPullUp
  BY ZenonT(60), <1>5 DEF GadgetFails, PlainPullUp, startMonitor, waitForPullUp, Report,
                          GadgetKeeps, GadgetPc
<1>6. CASE SetupGeneric \/ addAdb
  <2>1. GadgetSets'
    <3>1. {"adb"} \subseteq GadgetFunction /\ {"adb"} \subseteq Ffs
      BY DEF GadgetFunction, Ffs
    <3> QED BY <1>6, <3>1 DEF SetupGeneric, addAdb, GadgetKeeps
  <2>2. GadgetBooleans' /\ monitorPc' = monitorPc
    BY <1>6 DEF SetupGeneric, addAdb, GadgetKeeps
  <2>3. gadgetPc' \in GadgetPc /\ reported' \in {reported, "SUCCESS", "NOT_SUPPORTED"}
    BY <1>6 DEF SetupGeneric, addAdb, Report, GadgetPc
  <2> QED BY <2>1, <2>2, <2>3
<1>7. CASE ResetDown \/ ResetUp
  <2>1. udc' = FALSE \/ udc' = udc \/ udc' = (udc \/ CanPullUp)
    BY <1>7 DEF ResetDown, ResetUp
  <2>2. udc' \in BOOLEAN
    BY <2>1
  <2> QED BY <1>7, <2>2 DEF ResetDown, ResetUp, GadgetKeeps, GadgetPc
<1> QED BY <1>1, <1>2, <1>3, <1>4, <1>5, <1>6, <1>7 DEF GadgetNext

\* A step of a daemon: what is linked and was pulled up stays.
LEMMA DaemonsKeep ==
  ASSUME MonitorInv /\ LinksInv /\ PulledInv /\ AnswerInv,
         NEW f \in Ffs, DaemonOpens(f) \/ DaemonCloses(f)
  PROVE  MonitorInv' /\ LinksInv' /\ PulledInv' /\ AnswerInv'
  BY DEF MonitorInv, LinksInv, PulledInv, AnswerInv, DaemonOpens, DaemonCloses

\* The monitor pulls up what is linked: nothing while a call unlinks, what the call
\* asked for while it waits and afterwards.
LEMMA MonitorKeeps ==
  ASSUME MonitorInv /\ LinksInv /\ PulledInv /\ AnswerInv, gadgetPc \in GadgetPc,
         MonitorCheck \/ MonitorEvent \/ MonitorPullUp \/ MonitorEnds
  PROVE  MonitorInv' /\ LinksInv' /\ PulledInv' /\ AnswerInv'
<1>1. monitorPc # "none" /\ monitorPc' # "none"
  BY DEF MonitorCheck, MonitorEvent, MonitorPullUp, MonitorEnds
<1>2. UNCHANGED <<mCurrentUsbFunctions, links, gadgetPc, reported>>
  BY DEF MonitorCheck, MonitorEvent, MonitorPullUp, MonitorEnds, MonitorFrame
<1>3. MonitorInv' /\ LinksInv'
  BY <1>1, <1>2 DEF MonitorInv, LinksInv
<1>4. CASE UNCHANGED <<pulledUp, gadgetPullup>>
  BY <1>1, <1>2, <1>3, <1>4 DEF PulledInv, AnswerInv
<1>5. CASE MonitorPullUp /\ CanPullUp
  <2>1. links # {} /\ pulledUp' = links
    BY <1>5 DEF MonitorPullUp, CanPullUp
  <2>2. gadgetPc \notin {"stop", "join", "setup", "adb", "plain", "start"}
    BY <1>1, <2>1 DEF MonitorInv, LinksInv
  <2> QED BY <1>1, <1>2, <1>3, <2>1, <2>2 DEF LinksInv, PulledInv, AnswerInv
<1> QED BY <1>4, <1>5 DEF MonitorCheck, MonitorEvent, MonitorPullUp, MonitorEnds

\* The binder thread.
LEMMA BinderKeeps ==
  ASSUME MonitorInv /\ LinksInv /\ PulledInv /\ AnswerInv, gadgetPc \in GadgetPc,
         \/ \E functions \in SUBSET GadgetFunction : setCurrentUsbFunctions(functions)
         \/ resetGadget \/ StopMonitor \/ JoinMonitor \/ GadgetFails
         \/ SetupGeneric \/ addAdb \/ PlainPullUp \/ startMonitor \/ waitForPullUp
         \/ ResetDown \/ ResetUp
  PROVE  MonitorInv' /\ LinksInv' /\ PulledInv' /\ AnswerInv'
<1> USE DEF MonitorInv, LinksInv, PulledInv, AnswerInv
<1>1. ASSUME NEW functions \in SUBSET GadgetFunction, setCurrentUsbFunctions(functions)
      PROVE  MonitorInv' /\ LinksInv' /\ PulledInv' /\ AnswerInv'
  BY <1>1 DEF setCurrentUsbFunctions
<1>2. CASE resetGadget
  BY <1>2 DEF resetGadget
<1>3. CASE StopMonitor \/ JoinMonitor
  BY <1>3 DEF StopMonitor, JoinMonitor
<1>4. CASE GadgetFails \/ waitForPullUp
  BY <1>4 DEF GadgetFails, waitForPullUp, Report
<1>5. CASE SetupGeneric
  BY <1>5 DEF SetupGeneric, Report
<1>6. CASE addAdb \/ PlainPullUp \/ startMonitor
  BY <1>6 DEF addAdb, PlainPullUp, startMonitor, Report
<1>7. CASE ResetDown \/ ResetUp
  BY <1>7 DEF ResetDown, ResetUp
<1> QED BY <1>1, <1>2, <1>3, <1>4, <1>5, <1>6, <1>7

LEMMA GadgetInvStep == GadgetInv /\ [GadgetNext]_gadgetVars => GadgetInv'
<1> SUFFICES ASSUME GadgetInv, [GadgetNext]_gadgetVars PROVE GadgetInv'
  OBVIOUS
<1>1. CASE UNCHANGED gadgetVars
  BY <1>1 DEF gadgetVars, GadgetInv, GadgetTypeOK, MonitorInv, LinksInv, PulledInv, AnswerInv
<1>2. CASE GadgetNext
  <2>1. GadgetParts'
    BY <1>2, GadgetTypeParts, GadgetPartsStep DEF GadgetInv
  <2>2. GadgetTypeOK' /\ (gadgetPc \in GadgetPc)'
    <3>1. (GadgetParts => GadgetTypeOK /\ gadgetPc \in GadgetPc)'
      BY GadgetTypeParts, PTL
    <3> QED BY <2>1, <3>1
  <2>3. MonitorInv' /\ LinksInv' /\ PulledInv' /\ AnswerInv'
    BY <1>2, DaemonsKeep, MonitorKeeps, BinderKeeps DEF GadgetNext, GadgetInv
  <2> QED BY <2>2, <2>3 DEF GadgetInv
<1> QED BY <1>1, <1>2

(* A SUCCESS that the framework is told is the gadget it asked for, for every call, *)
(* every monitor that an earlier call left behind and every daemon that comes and   *)
(* goes.                                                                            *)
THEOREM SuccessIsTrue == GadgetSpec => [](GadgetTypeOK /\ SuccessIsPulledUp)
<1>1. GadgetInv => GadgetTypeOK /\ SuccessIsPulledUp
  BY DEF GadgetInv, AnswerInv, SuccessIsPulledUp
<1> QED BY GadgetInvInit, GadgetInvStep, <1>1, PTL DEF GadgetSpec

--------------------------------------------------------------------------------
(* Bluetooth HCI. Beside its type: a session's socket, protocol and watcher belong  *)
(* to a client, one that was initialized.                                           *)

HciBooleans == mFd \in BOOLEAN /\ mH4 \in BOOLEAN /\ watching \in BOOLEAN /\ rfkill \in BOOLEAN
HciRest == /\ hciState \in {"READY", "INITIALIZING", "ONE_CLIENT", "FATAL"}
           /\ mCb \in HciClients \union {NoClient} /\ opening \in HciClients \union {NoClient}
           /\ alive \subseteq HciClients /\ linked \subseteq HciClients
\* The session and the wait for one, by the state.
SessionInv ==
  /\ hciState = "INITIALIZING" <=> opening # NoClient
  /\ opening # NoClient => mCb = opening
  /\ hciState = "ONE_CLIENT" => mFd /\ mH4 /\ mCb \in linked
  /\ hciState # "ONE_CLIENT" => ~mFd /\ ~mH4 /\ ~watching
HciInv == HciBooleans /\ HciRest /\ SessionInv

LEMMA FourBooleans ==
  ASSUME NEW a, NEW b, NEW c, NEW d
  PROVE  {a, b, c, d} \subseteq BOOLEAN <=>
           a \in BOOLEAN /\ b \in BOOLEAN /\ c \in BOOLEAN /\ d \in BOOLEAN
  BY Zenon

LEMMA HciTypeParts == HciTypeOK <=> HciBooleans /\ HciRest
<1>1. {mFd, mH4, watching, rfkill} \subseteq BOOLEAN <=> HciBooleans
  BY FourBooleans DEF HciBooleans
<1> QED BY <1>1 DEF HciTypeOK, HciRest

LEMMA HciInvInit == HciInit => HciInv
  BY HciClientsAssumption DEF HciInit, HciInv, HciBooleans, HciRest, SessionInv

LEMMA RfKillBoolean ==
  ASSUME rfkill \in BOOLEAN, NEW block \in BOOLEAN, rfKill(block) PROVE rfkill' \in BOOLEAN
  BY DEF rfKill

LEMMA CloseKeeps == ASSUME HciInv, CloseEffect, UNCHANGED <<mCb, opening>>, alive' = alive,
                           linked' = linked \/ hciState' # "ONE_CLIENT",
                           linked' \subseteq HciClients
                    PROVE  HciInv'
<1>1. rfkill' \in BOOLEAN
  BY RfKillBoolean DEF HciInv, HciBooleans, CloseEffect, hciDevice
<1> QED BY <1>1 DEF HciInv, HciBooleans, HciRest, SessionInv, CloseEffect, hciDevice

LEMMA HciInvStep == HciInv /\ [HciNext]_hciVars => HciInv'
<1> SUFFICES ASSUME HciInv, [HciNext]_hciVars PROVE HciInv'
  OBVIOUS
<1>1. CASE UNCHANGED hciVars
  BY <1>1 DEF hciVars, hciDevice, HciInv, HciBooleans, HciRest, SessionInv
<1>2. ASSUME NEW c \in HciClients, hciInitialize(c) PROVE HciInv'
  <2>1. CASE hciState = "READY"
    <3>1. rfkill' \in BOOLEAN
      BY <1>2, <2>1, RfKillBoolean DEF HciInv, HciBooleans, hciInitialize
    <3>2. c # NoClient
      BY HciClientsAssumption
    <3> QED BY <1>2, <2>1, <3>1, <3>2
            DEF HciInv, HciBooleans, HciRest, SessionInv, hciInitialize, HciFree
  <2>2. CASE hciState # "READY"
    BY <1>2, <2>2, CloseKeeps DEF hciInitialize, HciInv, HciRest
  <2> QED BY <2>1, <2>2
<1>3. ASSUME NEW c \in HciClients, hciClose(c) PROVE HciInv'
  BY <1>3, CloseKeeps DEF hciClose, HciInv, HciRest
<1>4. ASSUME NEW c \in HciClients, ClientDies(c) PROVE HciInv'
  BY <1>4 DEF ClientDies, HciInv, HciBooleans, HciRest, SessionInv, hciDevice
\* The notice of another client closes a session only if that session's client died
\* too, and the notice of this one closes it.
<1>5. ASSUME NEW c \in HciClients, serviceDied(c) PROVE HciInv'
  <2>1. CASE mCb \notin alive
    <3>1. hciState' # "ONE_CLIENT"
      BY <1>5, <2>1 DEF serviceDied, CloseEffect, HciFree, HciInv, HciRest, hciDevice
    <3> QED BY <1>5, <2>1, <3>1, CloseKeeps DEF serviceDied, HciInv, HciRest
  <2>2. CASE mCb \in alive
    BY <1>5, <2>2
       DEF serviceDied, HciFree, HciInv, HciBooleans, HciRest, SessionInv, hciDevice
  <2> QED BY <2>1, <2>2
<1>6. CASE OpenHciFails \/ Disconnect
  <2> USE DEF HciInv, HciBooleans, HciRest, SessionInv
  <2>1. CASE OpenHciFails
    BY <2>1 DEF OpenHciFails, WaitEnds, hciDevice
  <2>2. CASE Disconnect
    BY <2>2 DEF Disconnect
  <2> QED BY <1>6, <2>1, <2>2
<1>7. CASE OpenHciSucceeds
  <2>1. rfkill' \in BOOLEAN
    BY <1>7, RfKillBoolean DEF HciInv, HciBooleans, OpenHciSucceeds, hciDevice
  <2>2. /\ opening # NoClient /\ opening' = NoClient /\ mCb' = mCb /\ mCb = opening
        /\ hciState = "INITIALIZING" /\ ~mFd /\ ~mH4 /\ ~watching
    BY <1>7 DEF OpenHciSucceeds, WaitEnds, HciInv, SessionInv
  <2>3. HciBooleans'
    BY <1>7, <2>1 DEF OpenHciSucceeds, HciInv, HciBooleans, hciDevice
  <2>4. HciRest'
    BY <1>7, <2>2 DEF OpenHciSucceeds, HciInv, HciRest
  <2>5. SessionInv'
    <3>1. CASE hciState' = "ONE_CLIENT"
      BY <1>7, <2>2, <3>1 DEF OpenHciSucceeds, SessionInv
    <3>2. CASE hciState' # "ONE_CLIENT"
      <4>1. hciState' # "INITIALIZING" /\ UNCHANGED <<mFd, mH4, watching>>
        BY <1>7, <3>2 DEF OpenHciSucceeds, hciDevice
      <4> QED BY <2>2, <3>2, <4>1 DEF SessionInv
    <3> QED BY <3>1, <3>2
  <2> QED BY <2>3, <2>4, <2>5 DEF HciInv
<1> QED BY <1>1, <1>2, <1>3, <1>4, <1>5, <1>6, <1>7 DEF HciNext

\* The client of a session is linked to its death, whoever came, was refused or died
\* before it.
THEOREM DeathIsNoticed == HciSpec => [](HciTypeOK /\ SessionIsLinked)
<1>1. HciInv => HciTypeOK /\ SessionIsLinked
  BY HciTypeParts DEF HciInv, SessionInv, SessionIsLinked
<1> QED BY HciInvInit, HciInvStep, <1>1, PTL DEF HciSpec
--------------------------------------------------------------------------------
(* The profile store. A command that holds the lock has a suffix of one plan left:  *)
(* what it still has to do says what it has done. All others have done nothing.     *)

Plan == << <<"create", "previous">>, <<"write", "previous">>, <<"sync", "previous">>,
           <<"rename", "previous">>, <<"directory", "previous">>,
           <<"create", "main">>, <<"write", "main">>, <<"sync", "main">>,
           <<"rename", "main">>, <<"directory", "main">>, <<"end", "main">> >>
AnyStep == {"lock", "read", "create", "write", "sync", "rename", "directory", "end"}
             \X StoreFile
Steps == Seq(AnyStep)
\* s is what is left of the plan.
Planned(s) == /\ s \in Steps /\ Len(s) \in 1..11
              /\ \A i \in 1..Len(s) : s[i] = Plan[11 - Len(s) + i]

Command == [op: {"none", "install", "rollback"}, text: StoreTexts \union {"none"},
            old: StoreTexts \union {"none"}, todo: Steps]
ReadStep(call) == <<"read", IF call.op = "install" THEN "main" ELSE "previous">>

\* A caller that does not hold the lock has no command, or one that waits for it.
Waits(call) ==
  \/ call = NoStoreCall
  \/ /\ call.op # "none" /\ call.todo = << <<"lock", "main">>, ReadStep(call) >>
     /\ call.op = "install" => call.text \in StoreTexts

Left(call) == Len(call.todo)
\* The file that the next step of a plan is about, and its text.
Target(call) == IF Left(call) > 6 THEN "previous" ELSE "main"
Text(call) == IF Left(call) > 6 THEN call.old ELSE call.text
\* What the .new file of that name holds then.
TempInv(call, temp) ==
  /\ Left(call) \in {10, 5} => temp.data = "partial"
  /\ Left(call) \in {9, 4} => temp.data = "written"
  /\ Left(call) \in {8, 3} => temp.data = "synced"
  /\ Left(call) \in {10, 9, 8, 5, 4, 3} => temp.text = Text(call)
\* What an install has replaced, for a reader and after a power loss.
Replaced(call, file, previousDone, mainDone) ==
  /\ Left(call) <= previousDone /\ call.old # "none" => file["previous"].text = call.old
  /\ Left(call) <= mainDone => file["main"].text = call.text
\* The holder of the lock reads first and then performs its plan.
Reads(call) == /\ call.op # "none" /\ call.todo = << ReadStep(call) >>
               /\ call.op = "install" => call.text \in StoreTexts
Performs(call) ==
  /\ Planned(call.todo) /\ call.op # "none"
  /\ Text(call) \in StoreTexts /\ call.text \in StoreTexts
  /\ TempInv(call, storeTemp[Target(call)])
  /\ call.op = "rollback" => Left(call) <= 6
  /\ call.op = "install" => /\ Replaced(call, storeNames, 7, 2)
                            /\ Replaced(call, storeDisk, 6, 1)
Works(call) == Reads(call) \/ Performs(call)

Whole(file) == \A f \in StoreFile : file[f].data \in {"none", "synced"}
Undoable(file) ==
  storeLast.op = "install" =>
    /\ file["main"].text = storeLast.text
    /\ storeLast.old # "none" => file["previous"].text = storeLast.old

CallersInv ==
  \A c \in StoreCallers : IF storeLock = c THEN Works(storeCall[c]) ELSE Waits(storeCall[c])
StoreInv ==
  /\ StoreTypeOK
  /\ storeCall \in [StoreCallers -> Command]
  /\ CallersInv
  /\ Whole(storeNames) /\ Whole(storeDisk)
  /\ Undoable(storeNames) /\ Undoable(storeDisk)

\* The plans that readInstalled() and readPrevious() make, and what a step leaves.
LEMMA PlanSteps ==
  \A n \in 1..11 :
    /\ Plan[12 - n] \in AnyStep
    /\ Plan[12 - n] = <<"create", "previous">> <=> n = 11
    /\ Plan[12 - n] = <<"write", "previous">> <=> n = 10
    /\ Plan[12 - n] = <<"sync", "previous">> <=> n = 9
    /\ Plan[12 - n] = <<"rename", "previous">> <=> n = 8
    /\ Plan[12 - n] = <<"directory", "previous">> <=> n = 7
    /\ Plan[12 - n] = <<"create", "main">> <=> n = 6
    /\ Plan[12 - n] = <<"write", "main">> <=> n = 5
    /\ Plan[12 - n] = <<"sync", "main">> <=> n = 4
    /\ Plan[12 - n] = <<"rename", "main">> <=> n = 3
    /\ Plan[12 - n] = <<"directory", "main">> <=> n = 2
    /\ Plan[12 - n] = <<"end", "main">> <=> n = 1
    /\ Plan[12 - n] \notin {<<"lock", "main">>, <<"read", "main">>, <<"read", "previous">>}
<1> SUFFICES ASSUME NEW n \in 1..11
             PROVE  /\ Plan[12 - n] \in AnyStep
                    /\ Plan[12 - n] = <<"create", "previous">> <=> n = 11
                    /\ Plan[12 - n] = <<"write", "previous">> <=> n = 10
                    /\ Plan[12 - n] = <<"sync", "previous">> <=> n = 9
                    /\ Plan[12 - n] = <<"rename", "previous">> <=> n = 8
                    /\ Plan[12 - n] = <<"directory", "previous">> <=> n = 7
                    /\ Plan[12 - n] = <<"create", "main">> <=> n = 6
                    /\ Plan[12 - n] = <<"write", "main">> <=> n = 5
                    /\ Plan[12 - n] = <<"sync", "main">> <=> n = 4
                    /\ Plan[12 - n] = <<"rename", "main">> <=> n = 3
                    /\ Plan[12 - n] = <<"directory", "main">> <=> n = 2
                    /\ Plan[12 - n] = <<"end", "main">> <=> n = 1
                    /\ Plan[12 - n] \notin {<<"lock", "main">>, <<"read", "main">>,
                                            <<"read", "previous">>}
  OBVIOUS
<1>1. \/ n = 1 \/ n = 2 \/ n = 3 \/ n = 4 \/ n = 5 \/ n = 6
      \/ n = 7 \/ n = 8 \/ n = 9 \/ n = 10 \/ n = 11
  OBVIOUS
<1>2. Plan[12 - n] = IF n = 11 THEN <<"create", "previous">> ELSE
                     IF n = 10 THEN <<"write", "previous">> ELSE
                     IF n = 9 THEN <<"sync", "previous">> ELSE
                     IF n = 8 THEN <<"rename", "previous">> ELSE
                     IF n = 7 THEN <<"directory", "previous">> ELSE
                     IF n = 6 THEN <<"create", "main">> ELSE
                     IF n = 5 THEN <<"write", "main">> ELSE
                     IF n = 4 THEN <<"sync", "main">> ELSE
                     IF n = 3 THEN <<"rename", "main">> ELSE
                     IF n = 2 THEN <<"directory", "main">> ELSE <<"end", "main">>
  BY <1>1 DEF Plan
<1>3. CASE n \in {1, 2, 3}
  BY <1>2, <1>3 DEF AnyStep, StoreFile
<1>4. CASE n \in {4, 5, 6}
  BY <1>2, <1>4 DEF AnyStep, StoreFile
<1>5. CASE n \in {7, 8, 9}
  BY <1>2, <1>5 DEF AnyStep, StoreFile
<1>6. CASE n \in {10, 11}
  BY <1>2, <1>6 DEF AnyStep, StoreFile
<1> QED BY <1>1, <1>3, <1>4, <1>5, <1>6

LEMMA OnlyTheLastEnds ==
  ASSUME NEW n \in 1..11, NEW step, NEW f, Plan[12 - n] = <<step, f>>, step # "end"
  PROVE  n > 1
<1>1. n = 1 => Plan[12 - n] = <<"end", "main">>
  BY PlanSteps, Zenon
<1>2. n = 1 => step = "end"
  BY <1>1
<1> QED BY <1>2

LEMMA FirstOfPlan ==
  ASSUME NEW s, Planned(s) PROVE s # <<>> /\ Head(s) = Plan[12 - Len(s)]
<1>1. s \in Seq(AnyStep) /\ Len(s) \in 1..11
  BY DEF Planned, Steps
<1>2. s[1] = Plan[11 - Len(s) + 1] /\ 11 - Len(s) + 1 = 12 - Len(s)
  BY <1>1 DEF Planned
<1> QED BY <1>1, <1>2

LEMMA RestOfPlan ==
  ASSUME NEW s, Planned(s), Len(s) > 1
  PROVE  Planned(Tail(s)) /\ Len(Tail(s)) = Len(s) - 1
<1> DEFINE t == Tail(s)
           n == Len(s)
           k == Len(t)
<1>1. s \in Seq(AnyStep) /\ n \in 1..11 /\ n > 1 /\ s # <<>>
  BY DEF Planned, Steps
<1>2. t \in Seq(AnyStep) /\ k = n - 1
  BY <1>1
<1>3. \A i \in 1..k : t[i] = s[i + 1]
  BY <1>1, <1>2
<1>4. \A i \in 1..n : s[i] = Plan[11 - n + i]
  BY DEF Planned
<1> HIDE DEF t, n, k
<1>5. ASSUME NEW i \in 1..k PROVE t[i] = Plan[11 - k + i]
  <2>1. i + 1 \in 1..n /\ 11 - n + (i + 1) = 11 - k + i
    BY <1>1, <1>2
  <2> QED BY <1>3, <1>4, <2>1
<1>6. k \in 1..11
  BY <1>1, <1>2
<1>7. Planned(t)
  BY <1>2, <1>5, <1>6 DEF Planned, Steps, k
<1> QED BY <1>2, <1>7 DEF t, n, k

LEMMA OneIsASeq == ASSUME NEW S, NEW a \in S PROVE <<a>> \in Seq(S)
  OBVIOUS

LEMMA TwoAreASeq == ASSUME NEW S, NEW a \in S, NEW b \in S PROVE <<a, b>> \in Seq(S)
  OBVIOUS

LEMMA FiveAreASeq ==
  ASSUME NEW S, NEW a \in S, NEW b \in S, NEW c \in S, NEW d \in S, NEW e \in S
  PROVE  <<a, b, c, d, e>> \in Seq(S)
  OBVIOUS

LEMMA FiveLong == ASSUME NEW a, NEW b, NEW c, NEW d, NEW e PROVE Len(<<a, b, c, d, e>>) = 5
  OBVIOUS

LEMMA ReplaceIsFive ==
  ASSUME NEW f \in StoreFile
  PROVE  ReplaceSteps(f) \in Seq(AnyStep) /\ Len(ReplaceSteps(f)) = 5
<1>1. /\ <<"create", f>> \in AnyStep /\ <<"write", f>> \in AnyStep
      /\ <<"sync", f>> \in AnyStep /\ <<"rename", f>> \in AnyStep
      /\ <<"directory", f>> \in AnyStep
  BY DEF AnyStep
<1>2. ReplaceSteps(f) \in Seq(AnyStep)
  BY <1>1, FiveAreASeq, Zenon DEF ReplaceSteps
<1>3. Len(ReplaceSteps(f)) = 5
  BY FiveLong DEF ReplaceSteps
<1> QED BY <1>2, <1>3

LEMMA EndIsOne ==
  << <<"end", "main">> >> \in Seq(AnyStep) /\ Len(<< <<"end", "main">> >>) = 1
<1>1. <<"end", "main">> \in AnyStep
  BY DEF AnyStep, StoreFile
<1> DEFINE x == <<"end", "main">>
<1> HIDE DEF x
<1>2. <<x>> \in Seq({x}) /\ Len(<<x>>) = 1
  OBVIOUS
<1>3. {x} \subseteq AnyStep
  BY <1>1 DEF x
<1>4. <<x>> \in Seq(AnyStep)
  BY <1>2, <1>3, SeqMonotonic
<1> QED BY <1>2, <1>4 DEF x

\* A sequence that has the plan's last n steps.
LEMMA PlannedIs ==
  ASSUME NEW s \in Seq(AnyStep), NEW n \in 1..11, Len(s) = n,
         \A i \in 1..n : s[i] = Plan[11 - n + i]
  PROVE  Planned(s)
  BY Zenon DEF Planned, Steps

LEMMA ShortPlan ==
  ASSUME NEW s, s = ReplaceSteps("main") \o << <<"end", "main">> >>
  PROVE  Planned(s) /\ Len(s) = 6
<1> DEFINE r == ReplaceSteps("main")
           e == << <<"end", "main">> >>
<1>1. r \in Seq(AnyStep) /\ Len(r) = 5
  BY ReplaceIsFive, Zenon DEF StoreFile
<1>2. e \in Seq(AnyStep) /\ Len(e) = 1
  BY EndIsOne, Zenon
<1>3. s = r \o e
  OBVIOUS
<1> HIDE DEF r, e
<1>4. 5 \in Nat /\ 1 \in Nat /\ 6 = 5 + 1 /\ 6 \in 1..11
  OBVIOUS
<1>5. s \in Seq(AnyStep) /\ Len(s) = 6
  <2>1. s \in Seq(AnyStep) /\ Len(s) = Len(r) + Len(e)
    BY ZenonT(60), <1>1, <1>2, <1>3, ConcatProperties
  <2> QED BY <1>1, <1>2, <1>4, <2>1, Zenon
<1>6. \A i \in 1..6 : s[i] = IF i <= 5 THEN r[i] ELSE e[i - 5]
  <2>1. \A i \in 1..Len(r) + Len(e) :
          (r \o e)[i] = IF i <= Len(r) THEN r[i] ELSE e[i - Len(r)]
    BY <1>1, <1>2, ConcatProperties, Zenon
  <2> QED BY <1>1, <1>2, <1>3, <1>4, <2>1, Zenon
<1>7. ASSUME NEW i \in 1..6 PROVE s[i] = Plan[11 - 6 + i]
  <2>1. i = 1 \/ i = 2 \/ i = 3 \/ i = 4 \/ i = 5 \/ i = 6
    OBVIOUS
  <2> QED BY <1>6, <2>1 DEF ReplaceSteps, Plan, r, e
<1> QED BY <1>4, <1>5, <1>7, PlannedIs, Zenon

LEMMA LongPlan ==
  ASSUME NEW s, s = ReplaceSteps("previous") \o ReplaceSteps("main") \o << <<"end", "main">> >>
  PROVE  Planned(s) /\ Len(s) = 11
<1> DEFINE p == ReplaceSteps("previous")
           r == ReplaceSteps("main")
           e == << <<"end", "main">> >>
           q == p \o r
<1>1. r \in Seq(AnyStep) /\ Len(r) = 5 /\ p \in Seq(AnyStep) /\ Len(p) = 5
  BY ReplaceIsFive, Zenon DEF StoreFile
<1>2. e \in Seq(AnyStep) /\ Len(e) = 1
  BY EndIsOne, Zenon
<1>3. s = q \o e
  OBVIOUS
<1> HIDE DEF p, r, e
<1>4. 5 \in Nat /\ 1 \in Nat /\ 10 \in Nat /\ 10 = 5 + 5 /\ 11 = 10 + 1 /\ 11 \in 1..11
  OBVIOUS
<1>5. q \in Seq(AnyStep) /\ Len(q) = 10
  <2>1. q \in Seq(AnyStep) /\ Len(q) = Len(p) + Len(r)
    BY <1>1, ConcatProperties, Zenon
  <2> QED BY <1>1, <1>4, <2>1, Zenon
<1>6. \A i \in 1..10 : q[i] = IF i <= 5 THEN p[i] ELSE r[i - 5]
  <2>1. \A i \in 1..Len(p) + Len(r) : q[i] = IF i <= Len(p) THEN p[i] ELSE r[i - Len(p)]
    BY <1>1, ConcatProperties, Zenon
  <2> QED BY <1>1, <1>4, <2>1, Zenon
<1> HIDE DEF q
<1>7. s \in Seq(AnyStep) /\ Len(s) = 11
  <2>1. (q \o e) \in Seq(AnyStep) /\ Len(q \o e) = Len(q) + Len(e)
    BY <1>2, <1>5, ConcatProperties, Zenon
  <2> QED BY <1>2, <1>3, <1>4, <1>5, <2>1, Zenon
<1>8. \A i \in 1..11 : s[i] = IF i <= 10 THEN q[i] ELSE e[i - 10]
  <2>1. \A i \in 1..Len(q) + Len(e) :
          (q \o e)[i] = IF i <= Len(q) THEN q[i] ELSE e[i - Len(q)]
    BY <1>2, <1>5, ConcatProperties, Zenon
  <2> QED BY <1>2, <1>3, <1>4, <1>5, <2>1, Zenon
<1>9. ASSUME NEW i \in 1..11 PROVE s[i] = Plan[11 - 11 + i]
  <2>1. \/ i = 1 \/ i = 2 \/ i = 3 \/ i = 4 \/ i = 5 \/ i = 6
        \/ i = 7 \/ i = 8 \/ i = 9 \/ i = 10 \/ i = 11
    OBVIOUS
  <2>2. s[i] = IF i <= 5 THEN p[i] ELSE IF i <= 10 THEN r[i - 5] ELSE e[i - 10]
    <3>1. (i <= 10 => i \in 1..10) /\ (i <= 5 => i <= 10)
      OBVIOUS
    <3> QED BY <1>6, <1>8, <3>1, Zenon
  <2> QED BY <2>1, <2>2 DEF ReplaceSteps, Plan, p, r, e
<1> QED BY <1>4, <1>7, <1>9, PlannedIs, Zenon

LEMMA StoreInvInit == StoreInit => StoreInv
<1> SUFFICES ASSUME StoreInit PROVE StoreInv
  OBVIOUS
<1>1. NoStoreCall \in Command
  BY EmptySeq DEF NoStoreCall, Command, Steps
<1>2. StoreTypeOK /\ storeCall \in [StoreCallers -> Command]
  BY <1>1 DEF StoreInit, StoreTypeOK, Contents, NoStoreCall
<1>3. CallersInv
  BY StoreCallersAssumption DEF StoreInit, CallersInv, Waits
<1>4. Whole(storeNames) /\ Whole(storeDisk) /\ Undoable(storeNames) /\ Undoable(storeDisk)
  BY DEF StoreInit, Whole, Undoable, NoText, NoStoreCall
<1> QED BY <1>2, <1>3, <1>4 DEF StoreInv

\* A step of a plan is taken by the holder of the lock, where its plan says so.
LEMMA HolderSteps ==
  ASSUME StoreInv, NEW c \in StoreCallers, NEW f \in StoreFile,
         NEW step \in {"create", "write", "sync", "rename", "directory", "end"},
         StoreStep(c, <<step, f>>)
  PROVE  /\ storeLock = c /\ Performs(storeCall[c]) /\ Left(storeCall[c]) \in 1..11
         /\ Plan[12 - Left(storeCall[c])] = <<step, f>>
<1>1. storeLock = c /\ Works(storeCall[c]) /\ Head(storeCall[c].todo) = <<step, f>>
  BY DEF StoreStep, StoreInv, CallersInv
<1>2. ~Reads(storeCall[c])
  <2> SUFFICES ASSUME storeCall[c].todo = << ReadStep(storeCall[c]) >> PROVE FALSE
    BY DEF Reads
  <2>1. Head(storeCall[c].todo) = ReadStep(storeCall[c])
    OBVIOUS
  <2> QED BY <1>1, <2>1 DEF ReadStep
<1>3. Performs(storeCall[c]) /\ Planned(storeCall[c].todo)
  BY <1>1, <1>2 DEF Works, Performs
<1>4. Left(storeCall[c]) \in 1..11
  BY <1>3 DEF Left, Planned
<1>5. Head(storeCall[c].todo) = Plan[12 - Left(storeCall[c])]
  BY <1>3, FirstOfPlan, Zenon DEF Left
<1> QED BY <1>1, <1>3, <1>4, <1>5

\* Taking a step that is not the last.
LEMMA AdvanceLeaves ==
  ASSUME StoreInv, NEW c \in StoreCallers, Planned(storeCall[c].todo), Left(storeCall[c]) > 1,
         Advance(c)
  PROVE  /\ storeCall' \in [StoreCallers -> Command]
         /\ Planned(storeCall'[c].todo) /\ Left(storeCall'[c]) = Left(storeCall[c]) - 1
         /\ storeCall'[c].op = storeCall[c].op /\ storeCall'[c].text = storeCall[c].text
         /\ storeCall'[c].old = storeCall[c].old
         /\ \A d \in StoreCallers \ {c} : storeCall'[d] = storeCall[d]
<1> DEFINE t == Tail(storeCall[c].todo)
<1>1. Planned(t) /\ Len(t) = Len(storeCall[c].todo) - 1
  BY RestOfPlan, Zenon DEF Left
<1>2. t \in Steps /\ storeCall' = [storeCall EXCEPT ![c].todo = t]
  BY <1>1 DEF Planned, Advance
<1> HIDE DEF t
<1>3. /\ storeCall' \in [StoreCallers -> Command] /\ storeCall'[c].todo = t
      /\ storeCall'[c].op = storeCall[c].op /\ storeCall'[c].text = storeCall[c].text
      /\ storeCall'[c].old = storeCall[c].old
      /\ \A d \in StoreCallers \ {c} : storeCall'[d] = storeCall[d]
  BY <1>2 DEF StoreInv, Command
<1> QED BY <1>1, <1>3, Zenon DEF Left

\* The others wait, whatever the holder does.
LEMMA OthersWait ==
  ASSUME StoreInv, NEW c \in StoreCallers, storeLock = c, storeLock' = c,
         \A d \in StoreCallers \ {c} : storeCall'[d] = storeCall[d],
         Works(storeCall[c])'
  PROVE  CallersInv'
<1>1. ASSUME NEW d \in StoreCallers, d # c PROVE Waits(storeCall[d])' /\ storeLock' # d
  BY <1>1 DEF StoreInv, CallersInv, Waits, ReadStep
<1> QED BY <1>1 DEF CallersInv

\* A command that ends, in whatever way, leaves nothing behind but a .new file.
LEMMA FinishKeeps ==
  ASSUME StoreInv, NEW c \in StoreCallers, Finish(c), UNCHANGED <<storeNames, storeDisk>>,
         storeTemp' \in [StoreFile -> Contents], storeLock = c \/ UNCHANGED storeTemp,
         Undoable(storeNames)', Undoable(storeDisk)'
  PROVE  StoreInv'
<1>1. /\ storeCall' \in [StoreCallers -> Command] /\ storeCall'[c] = NoStoreCall
      /\ \A d \in StoreCallers \ {c} : storeCall'[d] = storeCall[d]
  <2>1. NoStoreCall \in Command
    BY EmptySeq DEF NoStoreCall, Command, Steps
  <2> QED BY <2>1 DEF Finish, StoreInv
<1>2. storeLock' \in StoreCallers \union {Nobody} /\ storeLock' # c
  BY StoreCallersAssumption DEF Finish, StoreInv, StoreTypeOK
<1>3. StoreTypeOK'
  BY <1>1, <1>2 DEF StoreInv, StoreTypeOK, Command
<1>4. Waits(storeCall[c])'
  BY <1>1 DEF Waits
<1>5. ASSUME NEW d \in StoreCallers, d # c
      PROVE  IF storeLock' = d THEN Works(storeCall[d])' ELSE Waits(storeCall[d])'
  <2>1. storeCall'[d] = storeCall[d] /\ (storeLock' = d <=> storeLock = d)
    BY <1>1, <1>5, StoreCallersAssumption DEF Finish
  <2>2. CASE storeLock = d
    <3>1. Works(storeCall[d]) /\ UNCHANGED storeTemp
      BY <1>5, <2>2 DEF StoreInv, CallersInv
    <3>2. Works(storeCall[d])'
      BY <2>1, <3>1
         DEF Works, Reads, Performs, ReadStep, Text, Target, TempInv, Replaced, Left
    <3> QED BY <2>1, <2>2, <3>2
  <2>3. CASE storeLock # d
    <3>1. Waits(storeCall[d])
      BY <2>3 DEF StoreInv, CallersInv
    <3>2. Waits(storeCall[d])'
      BY <2>1, <3>1 DEF Waits, ReadStep
    <3> QED BY <2>1, <2>3, <3>2
  <2> QED BY <2>2, <2>3
<1>6. CallersInv'
  BY <1>2, <1>4, <1>5 DEF CallersInv
<1> QED BY <1>1, <1>3, <1>6 DEF StoreInv, Whole

\* Undoable and Whole of what no step touches.
LEMMA UndoableKept ==
  ASSUME Undoable(storeNames), Undoable(storeDisk),
         UNCHANGED <<storeNames, storeDisk, storeLast>>
  PROVE  Undoable(storeNames)' /\ Undoable(storeDisk)'
  BY DEF Undoable

\* A step of a plan: StoreInv' but for what the step writes.
LEMMA PlanStepKeeps ==
  ASSUME StoreInv, NEW c \in StoreCallers, NEW f \in StoreFile,
         NEW step \in {"create", "write", "sync", "rename", "directory"},
         StoreStep(c, <<step, f>>), Advance(c), UNCHANGED storeLock,
         storeTemp' \in [StoreFile -> Contents], storeNames' \in [StoreFile -> Contents],
         storeDisk' \in [StoreFile -> Contents],
         Whole(storeNames)', Whole(storeDisk)', Undoable(storeNames)', Undoable(storeDisk)',
         TempInv(storeCall[c], storeTemp[Target(storeCall[c])])',
         Text(storeCall[c])' \in StoreTexts,
         storeCall[c].op = "install" => /\ Replaced(storeCall[c], storeNames, 7, 2)'
                                        /\ Replaced(storeCall[c], storeDisk, 6, 1)'
  PROVE  StoreInv'
<1>1. /\ storeLock = c /\ Performs(storeCall[c]) /\ Left(storeCall[c]) \in 1..11
      /\ Plan[12 - Left(storeCall[c])] = <<step, f>>
  BY HolderSteps
<1>2. Left(storeCall[c]) > 1
  BY <1>1, OnlyTheLastEnds
<1>3. /\ storeCall' \in [StoreCallers -> Command]
      /\ Planned(storeCall'[c].todo) /\ Left(storeCall'[c]) = Left(storeCall[c]) - 1
      /\ storeCall'[c].op = storeCall[c].op /\ storeCall'[c].text = storeCall[c].text
      /\ storeCall'[c].old = storeCall[c].old
      /\ \A d \in StoreCallers \ {c} : storeCall'[d] = storeCall[d]
  BY <1>1, <1>2, AdvanceLeaves DEF Performs
<1>4. Performs(storeCall[c])'
  BY <1>1, <1>3 DEF Performs
<1>5. CallersInv'
  BY <1>1, <1>3, <1>4, OthersWait DEF Works
<1>6. StoreTypeOK'
  BY <1>3 DEF StoreInv, StoreTypeOK, Command
<1> QED BY <1>3, <1>5, <1>6 DEF StoreInv

\* Where in its plan the holder is, and what it leaves when it takes the step.
LEMMA HolderAt ==
  ASSUME StoreInv, NEW c \in StoreCallers, NEW f \in StoreFile,
         NEW step \in {"create", "write", "sync", "rename", "directory", "end"},
         StoreStep(c, <<step, f>>)
  PROVE  /\ step = "create" => Left(storeCall[c]) = IF f = "main" THEN 6 ELSE 11
         /\ step = "write" => Left(storeCall[c]) = IF f = "main" THEN 5 ELSE 10
         /\ step = "sync" => Left(storeCall[c]) = IF f = "main" THEN 4 ELSE 9
         /\ step = "rename" => Left(storeCall[c]) = IF f = "main" THEN 3 ELSE 8
         /\ step = "directory" => Left(storeCall[c]) = IF f = "main" THEN 2 ELSE 7
         /\ step = "end" /\ f = "main" => Left(storeCall[c]) = 1
         /\ step # "end" => f = Target(storeCall[c]) /\ TextFor(c, f) = Text(storeCall[c])
<1> DEFINE n == Left(storeCall[c])
<1>1. n \in 1..11 /\ Plan[12 - n] = <<step, f>> /\ (f = "main" \/ f = "previous")
  BY HolderSteps DEF StoreFile
<1>2. Target(storeCall[c]) = IF n > 6 THEN "previous" ELSE "main"
  BY DEF Target
<1>3. Text(storeCall[c]) = IF n > 6 THEN storeCall[c].old ELSE storeCall[c].text
  BY DEF Text
<1> HIDE DEF n
<1>4. /\ step = "create" => n = IF f = "main" THEN 6 ELSE 11
      /\ step = "write" => n = IF f = "main" THEN 5 ELSE 10
      /\ step = "sync" => n = IF f = "main" THEN 4 ELSE 9
      /\ step = "rename" => n = IF f = "main" THEN 3 ELSE 8
      /\ step = "directory" => n = IF f = "main" THEN 2 ELSE 7
      /\ step = "end" /\ f = "main" => n = 1
  BY ZenonT(60), <1>1, PlanSteps
<1>5. step # "end" => f = Target(storeCall[c]) /\ TextFor(c, f) = Text(storeCall[c])
  BY <1>1, <1>2, <1>3, <1>4 DEF TextFor
<1> QED BY <1>4, <1>5 DEF n

LEMMA AdvanceTo ==
  ASSUME StoreInv, NEW c \in StoreCallers, NEW f \in StoreFile,
         NEW step \in {"create", "write", "sync", "rename", "directory"},
         StoreStep(c, <<step, f>>), Advance(c)
  PROVE  /\ Left(storeCall'[c]) = Left(storeCall[c]) - 1
         /\ storeCall'[c].op = storeCall[c].op /\ storeCall'[c].text = storeCall[c].text
         /\ storeCall'[c].old = storeCall[c].old
         /\ Text(storeCall'[c]) \in StoreTexts
<1>1. Performs(storeCall[c]) /\ Left(storeCall[c]) \in 1..11
      /\ Plan[12 - Left(storeCall[c])] = <<step, f>>
  BY HolderSteps
<1>2. Left(storeCall[c]) > 1 /\ Planned(storeCall[c].todo)
  BY <1>1, OnlyTheLastEnds DEF Performs
<1>3. /\ Left(storeCall'[c]) = Left(storeCall[c]) - 1
      /\ storeCall'[c].op = storeCall[c].op /\ storeCall'[c].text = storeCall[c].text
      /\ storeCall'[c].old = storeCall[c].old
  BY <1>1, <1>2, AdvanceLeaves
<1>4. Text(storeCall'[c]) \in StoreTexts
  BY <1>1, <1>3 DEF Performs, Text
<1> QED BY <1>3, <1>4

\* A step of a plan that writes the .new file.
LEMMA WriteTempKeeps ==
  ASSUME StoreInv, NEW c \in StoreCallers, NEW f \in StoreFile,
         NEW step \in {"create", "write", "sync"}, StoreStep(c, <<step, f>>), Advance(c),
         UNCHANGED <<storeNames, storeDisk, storeLock, storeLast>>,
         step = "create" => storeTemp' = [storeTemp EXCEPT ![f] =
                                            [text |-> TextFor(c, f), data |-> "partial"]],
         step = "write" => storeTemp' = [storeTemp EXCEPT ![f].data = "written"],
         step = "sync" => storeTemp' = [storeTemp EXCEPT ![f].data = "synced"]
  PROVE  StoreInv'
<1> DEFINE n == Left(storeCall[c])
<1>1. /\ n \in 1..11 /\ Performs(storeCall[c])
      /\ step = "create" => n = IF f = "main" THEN 6 ELSE 11
      /\ step = "write" => n = IF f = "main" THEN 5 ELSE 10
      /\ step = "sync" => n = IF f = "main" THEN 4 ELSE 9
      /\ f = Target(storeCall[c]) /\ TextFor(c, f) = Text(storeCall[c])
  BY HolderSteps, HolderAt
<1>2. /\ Left(storeCall'[c]) = n - 1
      /\ storeCall'[c].op = storeCall[c].op /\ storeCall'[c].text = storeCall[c].text
      /\ storeCall'[c].old = storeCall[c].old /\ Text(storeCall'[c]) \in StoreTexts
  BY AdvanceTo
<1>3. Target(storeCall'[c]) = f /\ Text(storeCall'[c]) = TextFor(c, f)
  BY <1>1, <1>2 DEF Target, Text, StoreFile
<1>4. /\ Text(storeCall[c]) \in StoreTexts /\ storeTemp \in [StoreFile -> Contents]
      /\ step = "write" => storeTemp[f].data = "partial" /\ storeTemp[f].text = TextFor(c, f)
      /\ step = "sync" => storeTemp[f].data = "written" /\ storeTemp[f].text = TextFor(c, f)
  BY <1>1 DEF Performs, TempInv, StoreInv, StoreTypeOK
<1>5. /\ storeTemp' \in [StoreFile -> Contents]
      /\ storeTemp'[f].text = TextFor(c, f)
      /\ step = "create" => storeTemp'[f].data = "partial"
      /\ step = "write" => storeTemp'[f].data = "written"
      /\ step = "sync" => storeTemp'[f].data = "synced"
  <2>1. CASE step = "create"
    BY <1>1, <1>4, <2>1 DEF Contents
  <2>2. CASE step = "write" \/ step = "sync"
    <3>1. storeTemp[f] \in [text: StoreTexts, data: {"partial", "written", "synced"}]
      BY <1>4, <2>2 DEF Contents, NoText
    <3> QED BY <1>4, <2>2, <3>1 DEF Contents
  <2> QED BY <2>1, <2>2
<1>6. TempInv(storeCall[c], storeTemp[Target(storeCall[c])])'
  BY <1>1, <1>2, <1>3, <1>5 DEF TempInv, StoreFile
<1>7. storeCall[c].op = "install" => /\ Replaced(storeCall[c], storeNames, 7, 2)'
                                     /\ Replaced(storeCall[c], storeDisk, 6, 1)'
  BY <1>1, <1>2 DEF Performs, Replaced, StoreFile
<1>8. /\ Whole(storeNames)' /\ Whole(storeDisk)' /\ Undoable(storeNames)'
      /\ Undoable(storeDisk)' /\ storeNames' \in [StoreFile -> Contents]
      /\ storeDisk' \in [StoreFile -> Contents]
  BY UndoableKept DEF StoreInv, StoreTypeOK, Whole
<1> QED BY <1>2, <1>5, <1>6, <1>7, <1>8, PlanStepKeeps

LEMMA RenameKeeps ==
  ASSUME StoreInv, NEW c \in StoreCallers, NEW f \in StoreFile, rename(c, f)
  PROVE  StoreInv'
<1> DEFINE n == Left(storeCall[c])
<1>1. /\ StoreStep(c, <<"rename", f>>) /\ Advance(c) /\ UNCHANGED <<storeDisk, storeLock>>
      /\ storeNames' = [storeNames EXCEPT ![f] = storeTemp[f]]
      /\ storeTemp' = [storeTemp EXCEPT ![f] = NoText] /\ storeLast' = NoStoreCall
  BY DEF rename
<1>2. /\ Performs(storeCall[c]) /\ n = (IF f = "main" THEN 3 ELSE 8)
      /\ f = Target(storeCall[c]) /\ TextFor(c, f) = Text(storeCall[c])
  BY <1>1, HolderSteps, HolderAt
<1>3. /\ Left(storeCall'[c]) = n - 1
      /\ storeCall'[c].op = storeCall[c].op /\ storeCall'[c].text = storeCall[c].text
      /\ storeCall'[c].old = storeCall[c].old /\ Text(storeCall'[c]) \in StoreTexts
  BY <1>1, AdvanceTo
<1>4. storeTemp[f].data = "synced" /\ storeTemp[f].text = TextFor(c, f)
  BY <1>2 DEF Performs, TempInv
<1>5. /\ storeTemp' \in [StoreFile -> Contents] /\ storeNames' \in [StoreFile -> Contents]
      /\ storeDisk' \in [StoreFile -> Contents] /\ storeNames'[f] = storeTemp[f]
      /\ \A g \in StoreFile \ {f} : storeNames'[g] = storeNames[g]
  BY <1>1 DEF StoreInv, StoreTypeOK, Contents
<1>6. Whole(storeNames)' /\ Whole(storeDisk)'
  BY <1>1, <1>4, <1>5 DEF StoreInv, Whole
<1>7. Undoable(storeNames)' /\ Undoable(storeDisk)'
  BY <1>1 DEF Undoable, NoStoreCall
<1>8. TempInv(storeCall[c], storeTemp[Target(storeCall[c])])'
  BY <1>2, <1>3 DEF TempInv
<1>9. storeCall[c].op = "install" => /\ Replaced(storeCall[c], storeNames, 7, 2)'
                                     /\ Replaced(storeCall[c], storeDisk, 6, 1)'
  <2>1. CASE f = "main"
    BY <1>1, <1>2, <1>3, <1>4, <1>5, <2>1 DEF Performs, Replaced, TextFor, StoreFile
  <2>2. CASE f = "previous"
    BY <1>1, <1>2, <1>3, <1>4, <1>5, <2>2 DEF Performs, Replaced, TextFor, StoreFile
  <2> QED BY <2>1, <2>2 DEF StoreFile
<1> QED BY <1>1, <1>3, <1>5, <1>6, <1>7, <1>8, <1>9, PlanStepKeeps

LEMMA SyncDirectoryKeeps ==
  ASSUME StoreInv, NEW c \in StoreCallers, NEW f \in StoreFile, syncDirectory(c, f)
  PROVE  StoreInv'
<1> DEFINE n == Left(storeCall[c])
<1>1. /\ StoreStep(c, <<"directory", f>>) /\ Advance(c) /\ storeDisk' = storeNames
      /\ UNCHANGED <<storeNames, storeTemp, storeLock, storeLast>>
  BY DEF syncDirectory
<1>2. Performs(storeCall[c]) /\ n = (IF f = "main" THEN 2 ELSE 7)
  BY <1>1, HolderSteps, HolderAt
<1>3. /\ Left(storeCall'[c]) = n - 1
      /\ storeCall'[c].op = storeCall[c].op /\ storeCall'[c].text = storeCall[c].text
      /\ storeCall'[c].old = storeCall[c].old /\ Text(storeCall'[c]) \in StoreTexts
  BY <1>1, AdvanceTo
<1>4. /\ storeTemp' \in [StoreFile -> Contents] /\ storeNames' \in [StoreFile -> Contents]
      /\ storeDisk' \in [StoreFile -> Contents] /\ Whole(storeNames)' /\ Whole(storeDisk)'
  BY <1>1 DEF StoreInv, StoreTypeOK, Whole
<1>5. Undoable(storeNames)' /\ Undoable(storeDisk)'
  BY <1>1 DEF StoreInv, Undoable
<1>6. TempInv(storeCall[c], storeTemp[Target(storeCall[c])])'
  BY <1>2, <1>3 DEF TempInv
<1>7. storeCall[c].op = "install" => /\ Replaced(storeCall[c], storeNames, 7, 2)'
                                     /\ Replaced(storeCall[c], storeDisk, 6, 1)'
  BY <1>1, <1>2, <1>3 DEF Performs, Replaced
<1> QED BY <1>1, <1>3, <1>4, <1>5, <1>6, <1>7, PlanStepKeeps

\* A step of a plan that ends the command.
LEMMA EndKeeps ==
  ASSUME StoreInv, NEW c \in StoreCallers, NEW f \in StoreFile,
         \/ create(c, f) /\ storeTemp[f] # NoText
         \/ replaceFails(c, f)
  PROVE  StoreInv'
<1>1. storeLock = c
  <2>1. PICK step \in {"create", "write", "sync", "rename"} : StoreStep(c, <<step, f>>)
    BY DEF create, replaceFails
  <2> QED BY <2>1, HolderSteps
<1>2. Finish(c) /\ UNCHANGED <<storeNames, storeDisk, storeLast>>
  BY DEF create, replaceFails
<1>3. storeTemp' \in [StoreFile -> Contents]
  BY DEF create, replaceFails, StoreInv, StoreTypeOK, Contents
<1> QED BY <1>1, <1>2, <1>3, FinishKeeps, UndoableKept DEF StoreInv

LEMMA AcknowledgeKeeps ==
  ASSUME StoreInv, NEW c \in StoreCallers, acknowledge(c) PROVE StoreInv'
<1>1. StoreStep(c, <<"end", "main">>) /\ "main" \in StoreFile
  BY DEF acknowledge, StoreFile
<1>2. storeLock = c /\ Performs(storeCall[c]) /\ Left(storeCall[c]) = 1
  BY <1>1, HolderSteps, HolderAt
<1>3. storeCall[c] \in Command /\ storeLast' = [storeCall[c] EXCEPT !.todo = <<>>]
  BY DEF acknowledge, StoreInv
<1>4. /\ storeLast'.op = storeCall[c].op /\ storeLast'.text = storeCall[c].text
      /\ storeLast'.old = storeCall[c].old
  BY <1>3 DEF Command
<1>5. storeCall[c].op = "install" =>
        Replaced(storeCall[c], storeNames, 7, 2) /\ Replaced(storeCall[c], storeDisk, 6, 1)
  BY <1>2 DEF Performs
<1>6. UNCHANGED <<storeNames, storeDisk, storeTemp>> /\ Finish(c)
  BY DEF acknowledge
<1>7. Undoable(storeNames)' /\ Undoable(storeDisk)'
  BY <1>2, <1>4, <1>5, <1>6 DEF Undoable, Replaced
<1> QED BY <1>2, <1>6, <1>7, FinishKeeps DEF StoreInv, StoreTypeOK

LEMMA KillKeeps == ASSUME StoreInv, NEW c \in StoreCallers, Kill(c) PROVE StoreInv'
  BY FinishKeeps, UndoableKept DEF Kill, StoreInv, StoreTypeOK

\* A command that begins waits for the lock.
LEMMA BeginsKeep ==
  ASSUME StoreInv, NEW c \in StoreCallers,
         rollback(c) \/ \E text \in StoreTexts : install(c, text)
  PROVE  StoreInv'
<1>1. /\ storeCall[c] = NoStoreCall
      /\ UNCHANGED <<storeNames, storeDisk, storeTemp, storeLock, storeLast>>
  BY DEF rollback, install
<1>2. storeLock # c
  <2> SUFFICES ASSUME storeLock = c PROVE FALSE
    OBVIOUS
  <2>1. Works(NoStoreCall)
    BY <1>1 DEF StoreInv, CallersInv
  <2> QED BY <2>1 DEF Works, Reads, Performs, NoStoreCall
<1> DEFINE steps(f) == << <<"lock", "main">>, <<"read", f>> >>
<1>3. \A f \in StoreFile : steps(f) \in Steps
  <2>1. <<"lock", "main">> \in AnyStep /\ \A f \in StoreFile : <<"read", f>> \in AnyStep
    BY DEF AnyStep, StoreFile
  <2> QED BY <2>1, TwoAreASeq, Zenon DEF Steps
<1>4. \E call \in Command : Waits(call) /\ storeCall' = [storeCall EXCEPT ![c] = call]
  <2>1. CASE rollback(c)
    <3> DEFINE call == [op |-> "rollback", text |-> "none", old |-> "none",
                        todo |-> steps("previous")]
    <3>1. call \in Command
      BY <1>3 DEF Command, StoreFile
    <3>2. Waits(call) /\ storeCall' = [storeCall EXCEPT ![c] = call]
      BY <2>1 DEF Waits, ReadStep, rollback
    <3> QED BY <3>1, <3>2
  <2>2. ASSUME NEW text \in StoreTexts, install(c, text)
        PROVE  \E call \in Command : Waits(call) /\ storeCall' = [storeCall EXCEPT ![c] = call]
    <3> DEFINE call == [op |-> "install", text |-> text, old |-> "none", todo |-> steps("main")]
    <3>1. call \in Command
      BY <1>3 DEF Command, StoreFile
    <3>2. Waits(call) /\ storeCall' = [storeCall EXCEPT ![c] = call]
      BY <2>2 DEF Waits, ReadStep, install
    <3> QED BY <3>1, <3>2
  <2> QED BY <2>1, <2>2
<1>5. PICK call \in Command : Waits(call) /\ storeCall' = [storeCall EXCEPT ![c] = call]
  BY <1>4
<1>6. /\ storeCall' \in [StoreCallers -> Command] /\ storeCall'[c] = call
      /\ \A d \in StoreCallers \ {c} : storeCall'[d] = storeCall[d]
  BY <1>5 DEF StoreInv
<1>7. StoreTypeOK'
  BY <1>1, <1>6 DEF StoreInv, StoreTypeOK, Command
<1>8. CallersInv'
  <2>1. Waits(storeCall[c])'
    BY <1>5, <1>6 DEF Waits, ReadStep
  <2>2. ASSUME NEW d \in StoreCallers, d # c
        PROVE  IF storeLock' = d THEN Works(storeCall[d])' ELSE Waits(storeCall[d])'
    BY <1>1, <1>6, <2>2
       DEF StoreInv, CallersInv, Works, Reads, Performs, ReadStep, Text, Target, TempInv,
           Replaced, Left, Waits
  <2> QED BY <1>1, <1>2, <2>1, <2>2 DEF CallersInv
<1> QED BY <1>1, <1>6, <1>7, <1>8, UndoableKept DEF StoreInv, Whole

LEMMA LockKeeps == ASSUME StoreInv, NEW c \in StoreCallers, lock(c) PROVE StoreInv'
<1> DEFINE call == [storeCall[c] EXCEPT !.todo = Tail(storeCall[c].todo)]
<1>1. /\ StoreStep(c, <<"lock", "main">>) /\ storeLock = Nobody /\ storeLock' = c /\ Advance(c)
      /\ UNCHANGED <<storeNames, storeDisk, storeTemp, storeLast>>
  BY DEF lock
<1>2. Waits(storeCall[c]) /\ storeCall[c].todo # <<>> /\ storeCall[c] \in Command
  BY <1>1, StoreCallersAssumption DEF StoreInv, CallersInv, StoreStep
<1>3. /\ storeCall[c].op # "none"
      /\ storeCall[c].todo = << <<"lock", "main">>, ReadStep(storeCall[c]) >>
      /\ storeCall[c].op = "install" => storeCall[c].text \in StoreTexts
  BY <1>2 DEF Waits, NoStoreCall
<1>4. Tail(storeCall[c].todo) = << ReadStep(storeCall[c]) >>
  BY <1>3
<1>5. << ReadStep(storeCall[c]) >> \in Steps
  <2>1. ReadStep(storeCall[c]) \in AnyStep
    BY DEF ReadStep, AnyStep, StoreFile
  <2> QED BY <2>1, OneIsASeq, Zenon DEF Steps
<1>6. storeCall' = [storeCall EXCEPT ![c].todo = << ReadStep(storeCall[c]) >>]
  BY <1>1, <1>4 DEF Advance
<1> DEFINE rest == << ReadStep(storeCall[c]) >>
<1>7. /\ storeCall' \in [StoreCallers -> Command] /\ storeCall'[c].todo = rest
      /\ storeCall'[c].op = storeCall[c].op /\ storeCall'[c].text = storeCall[c].text
      /\ \A d \in StoreCallers \ {c} : storeCall'[d] = storeCall[d]
  <2> HIDE DEF rest
  <2> QED BY <1>5, <1>6 DEF StoreInv, Command, rest
<1>8. StoreTypeOK'
  BY <1>1, <1>7 DEF StoreInv, StoreTypeOK, Command
<1>9. CallersInv'
  <2>1. Works(storeCall[c])'
    BY <1>3, <1>7 DEF Works, Reads, ReadStep
  <2>2. ASSUME NEW d \in StoreCallers, d # c PROVE Waits(storeCall[d])' /\ storeLock' # d
    BY <1>1, <1>7, <2>2, StoreCallersAssumption
       DEF StoreInv, CallersInv, Waits, ReadStep
  <2> QED BY <1>1, <2>1, <2>2 DEF CallersInv
<1> QED BY <1>1, <1>7, <1>8, <1>9, UndoableKept DEF StoreInv, Whole

\* The holder of the lock reads, as its command says.
LEMMA ReaderReads ==
  ASSUME StoreInv, NEW c \in StoreCallers, NEW f \in StoreFile, StoreStep(c, <<"read", f>>)
  PROVE  /\ storeLock = c /\ Reads(storeCall[c])
         /\ storeCall[c].op = IF f = "main" THEN "install" ELSE "rollback"
<1>1. storeLock = c /\ Works(storeCall[c]) /\ Head(storeCall[c].todo) = <<"read", f>>
  BY DEF StoreStep, StoreInv, CallersInv
<1>2. ~Planned(storeCall[c].todo)
  <2> SUFFICES ASSUME Planned(storeCall[c].todo) PROVE FALSE
    OBVIOUS
  <2> DEFINE n == Len(storeCall[c].todo)
  <2>1. n \in 1..11 /\ Plan[12 - n] = <<"read", f>>
    BY <1>1, FirstOfPlan DEF Planned
  <2> HIDE DEF n
  <2> QED BY <2>1, PlanSteps DEF StoreFile
<1>3. Reads(storeCall[c])
  BY <1>1, <1>2 DEF Works, Performs
<1>4. <<"read", f>> = ReadStep(storeCall[c])
  BY <1>1, <1>3 DEF Reads
<1>5. f = IF storeCall[c].op = "install" THEN "main" ELSE "previous"
  BY <1>4 DEF ReadStep
<1>6. storeCall[c].op \in {"install", "rollback"}
  BY <1>3 DEF Reads, StoreInv, Command
<1> QED BY <1>1, <1>3, <1>5, <1>6

\* Once it has read, it performs its plan, if there is one.
LEMMA PlanMadeKeeps ==
  ASSUME StoreInv, NEW c \in StoreCallers, storeLock = c, Reads(storeCall[c]),
         UNCHANGED <<storeNames, storeDisk, storeTemp, storeLock, storeLast>>,
         storeCall' \in [StoreCallers -> Command], storeCall'[c].op = storeCall[c].op,
         \A d \in StoreCallers \ {c} : storeCall'[d] = storeCall[d],
         NEW text \in StoreTexts, NEW old \in StoreTexts \union {"none"}, NEW todo,
         storeCall'[c].text = text, storeCall'[c].old = old, storeCall'[c].todo = todo,
         Planned(todo), Len(todo) \in {6, 11},
         Len(todo) = 11 => storeCall[c].op = "install" /\ old \in StoreTexts,
         Len(todo) = 6 => storeCall[c].op # "install" \/ old = "none"
  PROVE  StoreInv'
<1> DEFINE n == Len(todo)
<1>1. Left(storeCall'[c]) = n /\ n \in {6, 11}
  BY DEF Left
<1>2. /\ n = 11 => storeCall[c].op = "install" /\ old \in StoreTexts
      /\ n = 6 => storeCall[c].op # "install" \/ old = "none"
  OBVIOUS
<1> HIDE DEF n
<1>3. Text(storeCall'[c]) \in StoreTexts
  BY <1>1, <1>2 DEF Text
<1>4. TempInv(storeCall[c], storeTemp[Target(storeCall[c])])'
  BY <1>1 DEF TempInv
<1>5. storeCall'[c].op = "install" => /\ Replaced(storeCall[c], storeNames, 7, 2)'
                                      /\ Replaced(storeCall[c], storeDisk, 6, 1)'
  BY <1>1, <1>2 DEF Replaced
<1>6. storeCall'[c].op = "rollback" => Left(storeCall'[c]) <= 6
  BY <1>1, <1>2
<1>7. Works(storeCall[c])'
  BY <1>3, <1>4, <1>5, <1>6 DEF Works, Performs, Reads
<1>8. CallersInv'
  BY <1>7, OthersWait
<1>9. StoreTypeOK'
  BY DEF StoreInv, StoreTypeOK, Command
<1> QED BY <1>8, <1>9, UndoableKept DEF StoreInv, Whole

LEMMA ReadInstalledKeeps ==
  ASSUME StoreInv, NEW c \in StoreCallers, readInstalled(c) PROVE StoreInv'
<1>1. storeLock = c /\ Reads(storeCall[c]) /\ storeCall[c].op = "install"
  BY ReaderReads DEF readInstalled, StoreFile
<1>2. UNCHANGED <<storeNames, storeDisk, storeTemp, storeLast>>
  BY DEF readInstalled
<1>3. CASE storeNames["main"].data = "partial"
  <2>1. Finish(c)
    BY <1>3 DEF readInstalled
  <2> QED BY <1>1, <1>2, <2>1, FinishKeeps, UndoableKept DEF StoreInv, StoreTypeOK
<1>4. CASE storeNames["main"].data # "partial"
  <2> DEFINE old == storeNames["main"].text
             short == ReplaceSteps("main") \o << <<"end", "main">> >>
             long == ReplaceSteps("previous") \o ReplaceSteps("main") \o << <<"end", "main">> >>
             todo == IF storeNames["main"] = NoText THEN short ELSE long
  <2>1. (<<>> \o ReplaceSteps("main")) = ReplaceSteps("main")
    <3>1. ReplaceSteps("main") \in Seq(AnyStep)
      BY ReplaceIsFive, Zenon DEF StoreFile
    <3> QED BY <3>1, ConcatEmptySeq, Zenon
  <2>2. /\ storeCall' = [storeCall EXCEPT ![c].old = old, ![c].todo = todo]
        /\ UNCHANGED storeLock
    <3> HIDE DEF old
    <3>1. CASE storeNames["main"] = NoText
      BY <1>4, <2>1, <3>1, Zenon DEF readInstalled, old
    <3>2. CASE storeNames["main"] # NoText
      BY <1>4, <3>2, Zenon DEF readInstalled, old
    <3> QED BY <3>1, <3>2
  <2>3. Planned(short) /\ Len(short) = 6
    BY ShortPlan, Zenon
  <2>4. Planned(long) /\ Len(long) = 11
    BY LongPlan, Zenon
  <2> HIDE DEF short, long
  <2>5. /\ old \in StoreTexts \union {"none"}
        /\ storeNames["main"] # NoText => old \in StoreTexts
        /\ storeNames["main"] = NoText => old = "none"
    BY DEF StoreInv, StoreTypeOK, Contents, NoText, StoreFile
  <2>6. Planned(todo) /\ todo \in Steps
    BY <2>3, <2>4 DEF Planned
  <2>7. /\ storeNames["main"] = NoText => Len(todo) = 6
        /\ storeNames["main"] # NoText => Len(todo) = 11
    BY <2>3, <2>4
  <2>8. storeCall[c].text \in StoreTexts
    BY <1>1 DEF Reads
  <2> HIDE DEF todo, old
  <2>9. /\ storeCall' \in [StoreCallers -> Command] /\ storeCall'[c].op = storeCall[c].op
        /\ \A d \in StoreCallers \ {c} : storeCall'[d] = storeCall[d]
        /\ storeCall'[c].text = storeCall[c].text /\ storeCall'[c].old = old
        /\ storeCall'[c].todo = todo
    BY <2>2, <2>5, <2>6 DEF StoreInv, Command
  <2> DEFINE n == Len(todo)
  <2>10. /\ n \in {6, 11} /\ (n = 11 => storeCall[c].op = "install" /\ old \in StoreTexts)
         /\ (n = 6 => storeCall[c].op # "install" \/ old = "none")
    <3>1. (storeNames["main"] = NoText => n = 6) /\ (storeNames["main"] # NoText => n = 11)
      BY <2>7
    <3> HIDE DEF n
    <3> QED BY <1>1, <2>5, <3>1
  <2> QED BY <1>1, <1>2, <2>2, <2>5, <2>6, <2>8, <2>9, <2>10, PlanMadeKeeps, Zenon
<1> QED BY <1>3, <1>4

LEMMA ReadPreviousKeeps ==
  ASSUME StoreInv, NEW c \in StoreCallers, readPrevious(c) PROVE StoreInv'
<1>1. storeLock = c /\ Reads(storeCall[c]) /\ storeCall[c].op = "rollback"
  BY ReaderReads DEF readPrevious, StoreFile
<1>2. UNCHANGED <<storeNames, storeDisk, storeTemp, storeLast>>
  BY DEF readPrevious
<1>3. CASE storeNames["previous"].data \in {"none", "partial"}
  <2>1. Finish(c)
    BY <1>3 DEF readPrevious
  <2> QED BY <1>1, <1>2, <2>1, FinishKeeps, UndoableKept DEF StoreInv, StoreTypeOK
<1>4. CASE storeNames["previous"].data \notin {"none", "partial"}
  <2> DEFINE text == storeNames["previous"].text
             todo == ReplaceSteps("main") \o << <<"end", "main">> >>
  <2>1. storeCall' = [storeCall EXCEPT ![c].text = text, ![c].todo = todo] /\ UNCHANGED storeLock
    BY <1>4, Zenon DEF readPrevious
  <2>2. Planned(todo) /\ Len(todo) = 6
    BY ShortPlan, Zenon
  <2>3. text \in StoreTexts
    BY <1>4 DEF StoreInv, StoreTypeOK, Contents, NoText, StoreFile
  <2> HIDE DEF todo, text
  <2>4. todo \in Steps
    BY <2>2 DEF Planned
  <2>5. /\ storeCall' \in [StoreCallers -> Command] /\ storeCall'[c].op = storeCall[c].op
        /\ \A d \in StoreCallers \ {c} : storeCall'[d] = storeCall[d]
        /\ storeCall'[c].text = text /\ storeCall'[c].old = storeCall[c].old
        /\ storeCall'[c].todo = todo
    BY <2>1, <2>3, <2>4 DEF StoreInv, Command
  <2>6. storeCall[c].old \in StoreTexts \union {"none"}
    BY DEF StoreInv, Command
  <2> DEFINE n == Len(todo)
  <2>7. n \in {6, 11} /\ n # 11 /\ storeCall[c].op # "install"
    <3>1. n = 6
      BY <2>2
    <3> HIDE DEF n
    <3> QED BY <1>1, <3>1
  <2> QED BY <1>1, <1>2, <2>1, <2>2, <2>3, <2>5, <2>6, <2>7, PlanMadeKeeps, Zenon
<1> QED BY <1>3, <1>4

\* Power fails: what was synced is found, whole.
LEMMA PowerLossKeeps == ASSUME StoreInv, StorePowerLoss PROVE StoreInv'
<1>1. PICK names \in {storeNames, storeDisk} :
        /\ storeNames' = [f \in StoreFile |->
                            IF names[f].data = "written" THEN [names[f] EXCEPT !.data = "partial"]
                            ELSE names[f]]
        /\ storeDisk' = storeNames'
  BY DEF StorePowerLoss
<1>2. Whole(names) /\ Undoable(names) /\ names \in [StoreFile -> Contents]
  BY DEF StoreInv, StoreTypeOK
<1>3. storeNames' = names /\ storeDisk' = names
  BY <1>1, <1>2 DEF Whole
<1>4. storeLock' = Nobody /\ storeCall' = [c \in StoreCallers |-> NoStoreCall]
  BY DEF StorePowerLoss
<1>5. storeTemp' \in [StoreFile -> Contents]
  <2>1. PICK kept \in SUBSET StoreFile :
          storeTemp' = [f \in StoreFile |->
                          IF f \notin kept \/ storeTemp[f] = NoText THEN NoText
                          ELSE [storeTemp[f] EXCEPT !.data = "partial"]]
    BY DEF StorePowerLoss
  <2>2. ASSUME NEW f \in StoreFile PROVE storeTemp'[f] \in Contents
    <3>1. storeTemp[f] \in Contents
      BY DEF StoreInv, StoreTypeOK
    <3> QED BY <2>1, <3>1 DEF Contents
  <2> QED BY <2>1, <2>2
<1>6. storeCall' \in [StoreCallers -> Command]
  <2>1. NoStoreCall \in Command
    BY EmptySeq DEF NoStoreCall, Command, Steps
  <2> QED BY <1>4, <2>1
<1>7. StoreTypeOK'
  BY <1>2, <1>3, <1>4, <1>5, <1>6 DEF StoreTypeOK, Command
<1>8. CallersInv'
  BY <1>4, StoreCallersAssumption DEF CallersInv, Waits
<1>9. Undoable(storeNames)' /\ Undoable(storeDisk)' /\ Whole(storeNames)' /\ Whole(storeDisk)'
  BY <1>2, <1>3 DEF Undoable, Whole, StorePowerLoss
<1> QED BY <1>6, <1>7, <1>8, <1>9 DEF StoreInv

LEMMA StoreInvStep == StoreInv /\ [StoreNext]_storeVars => StoreInv'
<1> SUFFICES ASSUME StoreInv, [StoreNext]_storeVars PROVE StoreInv'
  OBVIOUS
<1>1. CASE UNCHANGED storeVars
  BY <1>1 DEF storeVars, StoreInv, StoreTypeOK, Whole, Undoable, CallersInv, Works, Reads,
              Performs, ReadStep, Text, Target, TempInv, Replaced, Left, Waits
<1>2. CASE StorePowerLoss
  BY <1>2, PowerLossKeeps
<1>3. ASSUME NEW c \in StoreCallers,
             \/ \E text \in StoreTexts : install(c, text)
             \/ rollback(c) \/ lock(c) \/ readInstalled(c) \/ readPrevious(c)
             \/ acknowledge(c) \/ Kill(c)
      PROVE  StoreInv'
  BY <1>3, BeginsKeep, LockKeeps, ReadInstalledKeeps, ReadPreviousKeeps, AcknowledgeKeeps,
     KillKeeps
<1>4. ASSUME NEW c \in StoreCallers, NEW f \in StoreFile, create(c, f) PROVE StoreInv'
  BY <1>4, EndKeeps, WriteTempKeeps DEF create
<1>5. ASSUME NEW c \in StoreCallers, NEW f \in StoreFile, write(c, f) \/ sync(c, f)
      PROVE  StoreInv'
  <2>1. CASE write(c, f)
    BY <2>1, WriteTempKeeps DEF write
  <2>2. CASE sync(c, f)
    BY <2>2, WriteTempKeeps DEF sync
  <2> QED BY <1>5, <2>1, <2>2
<1>6. ASSUME NEW c \in StoreCallers, NEW f \in StoreFile,
             rename(c, f) \/ syncDirectory(c, f) \/ replaceFails(c, f)
      PROVE  StoreInv'
  BY <1>6, RenameKeeps, SyncDirectoryKeeps, EndKeeps
<1> QED BY <1>1, <1>2, <1>3, <1>4, <1>5, <1>6 DEF StoreNext

(* Profiles survive a kill or a power loss between any two steps of any callers: a  *)
(* file that can be found is whole, and an acknowledged install can be undone.      *)
THEOREM StoreIsSafe == StoreSpec => [](StoreTypeOK /\ FilesAreWhole /\ InstallIsUndoable)
<1>1. StoreInv => StoreTypeOK /\ FilesAreWhole /\ InstallIsUndoable
  BY DEF StoreInv, Whole, Undoable, FilesAreWhole, InstallIsUndoable
<1> QED BY StoreInvInit, StoreInvStep, <1>1, PTL DEF StoreSpec

--------------------------------------------------------------------------------
(* The programs together: whichever of them runs, the others rest. *)

DeviceInv == BootInv /\ HciInv /\ CecInv /\ GadgetInv /\ StoreInv

LEMMA DeviceInvInit == Init => DeviceInv
  BY BootInvInit, HciInvInit, CecInvInit, GadgetInvInit, StoreInvInit DEF Init, DeviceInv

LEMMA DeviceSteps ==
  [Next]_deviceVars =>
    /\ [BootNext]_bootVars /\ [HciNext]_hciVars /\ [CecNext]_cecVars
    /\ [GadgetNext]_gadgetVars /\ [StoreNext]_storeVars
  BY DEF Next, deviceVars, Boot, Hci, Cec, Gadget, Store

LEMMA DeviceInvStep == DeviceInv /\ [Next]_deviceVars => DeviceInv'
<1> SUFFICES ASSUME DeviceInv, [Next]_deviceVars PROVE DeviceInv'
  OBVIOUS
<1>1. BootInv' /\ HciInv'
  BY DeviceSteps, BootInvStep, HciInvStep DEF DeviceInv
<1>2. CecInv' /\ GadgetInv'
  BY DeviceSteps, CecInvStep, GadgetInvStep DEF DeviceInv
<1>3. StoreInv'
  BY DeviceSteps, StoreInvStep DEF DeviceInv
<1> QED BY <1>1, <1>2, <1>3 DEF DeviceInv

(* Every service keeps what it promises: the fallback slot is confirmed, an answer  *)
(* is true when it is given, and profiles survive.                                  *)
THEOREM FallbackOfDevice == DeviceSpec => []FallbackIsConfirmed
<1>1. DeviceInv => FallbackIsConfirmed
  BY DEF DeviceInv, BootInv
<1> QED BY DeviceInvInit, DeviceInvStep, <1>1, PTL DEF DeviceSpec

THEOREM AnswersOfDevice == DeviceSpec => []AnswersAreTrue
<1>1. CecInv => CecTypeOK /\ DisableLatency
  BY CecTypeParts DEF CecInv, LateCecInv, DisableLatency
<1>2. HciInv => HciTypeOK /\ SessionIsLinked
  BY HciTypeParts DEF HciInv, SessionInv, SessionIsLinked
<1>3. GadgetInv => GadgetTypeOK /\ SuccessIsPulledUp
  BY DEF GadgetInv, AnswerInv, SuccessIsPulledUp
<1>4. DeviceInv => AnswersAreTrue
  BY <1>1, <1>2, <1>3 DEF DeviceInv, BootInv, AnswersAreTrue
<1> QED BY DeviceInvInit, DeviceInvStep, <1>4, PTL DEF DeviceSpec

THEOREM ProfilesOfDevice == DeviceSpec => []ProfilesSurvive
<1>1. StoreInv => ProfilesSurvive
  BY DEF StoreInv, Whole, Undoable, FilesAreWhole, InstallIsUndoable, ProfilesSurvive
<1>2. DeviceInv => ProfilesSurvive
  BY <1>1 DEF DeviceInv
<1> QED BY DeviceInvInit, DeviceInvStep, <1>2, PTL DEF DeviceSpec

================================================================================
