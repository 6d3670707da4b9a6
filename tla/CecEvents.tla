------------------------------- MODULE CecEvents -------------------------------
(* The HDMI CEC service: the event thread of the port against the binder         *)
(* threads, which change the three flags, the callback and the logical           *)
(* addresses without a lock. Operation codes are classes of messages: "view"     *)
(* (Text or Image View On), "query" (any other code of isTransferableInSleep()), *)
(* "power" and "key" (User Control Pressed with and without a power command)     *)
(* and "other". What CEC drivers accept is external.                             *)
EXTENDS Naturals, FiniteSets

CONSTANTS CecCallers,    \* binder threads: two, by main.cpp
          CecAddresses,  \* logical addresses that a client adds
          MaxQueued      \* messages waiting in the driver
ASSUME QueueAssumption == MaxQueued \in Nat

CecMessage == {"view", "query", "power", "key", "other"}
NoMessage == "none"

VARIABLES
  cecPort,       \* the port opened: mHdmiCecPorts and its thread exist
  cecFlags,      \* mCecEnabled, mWakeupEnabled, mCecControlEnabled
  cecCallback,   \* mCallback is set
  queued,        \* messages in the driver
  received,      \* the event thread's message, or NoMessage
  eventPc,       \* where the event thread is in its loop
  claimed,       \* logical addresses the driver holds
  cecCall,       \* per binder thread: the addresses read by addLogicalAddress()
  cecCrashed,    \* the process ended
  lateMessages   \* history: messages delivered since enableCec(false) returned

cecShared == <<cecPort, cecFlags, cecCallback, claimed>>
eventVars == <<received, eventPc, lateMessages>>
cecVars == <<cecShared, queued, eventVars, cecCall, cecCrashed>>

Flags == [enabled: BOOLEAN, wakeup: BOOLEAN, control: BOOLEAN]
NoCall == [pc |-> "idle", address |-> "none", read |-> {}]

CecTypeOK ==
  /\ {cecPort, cecCallback, cecCrashed} \subseteq BOOLEAN
  /\ cecFlags \in Flags
  /\ queued \in 0..MaxQueued
  /\ received \in CecMessage \union {NoMessage}
  /\ eventPc \in {"poll", "filter", "test", "call"}
  /\ claimed \subseteq CecAddresses
  /\ lateMessages \in Nat

(* init(): the port may fail to open, and the service goes on without it.        *)
CecInit ==
  /\ cecPort \in BOOLEAN
  /\ cecFlags = [enabled |-> cecPort, wakeup |-> cecPort, control |-> cecPort]
  /\ cecCallback = FALSE /\ queued = 0
  /\ received = NoMessage /\ eventPc = "poll" /\ lateMessages = 0
  /\ claimed = {} /\ cecCall = [t \in CecCallers |-> NoCall] /\ cecCrashed = FALSE

CecRuns == ~cecCrashed
CecCrash == cecCrashed' = TRUE /\ UNCHANGED <<cecShared, queued, eventVars, cecCall>>
CecIdle(t) == CecRuns /\ cecCall[t].pc = "idle"

Arrives == /\ CecRuns /\ cecPort /\ queued < MaxQueued /\ queued' = queued + 1
           /\ UNCHANGED <<cecShared, eventVars, cecCall, cecCrashed>>

(* The event thread. CEC_RECEIVE may fail or return a damaged message.           *)
Receive ==
  /\ CecRuns /\ cecPort /\ eventPc = "poll" /\ queued > 0 /\ queued' = queued - 1
  /\ \/ \E m \in CecMessage : received' = m /\ eventPc' = "filter"
     \/ UNCHANGED <<received, eventPc>>
  /\ UNCHANGED <<cecShared, lateMessages, cecCall, cecCrashed>>

isWakeupMessage(m) == m = "view"
isTransferableInSleep(m) == m \in {"view", "query", "power"}
\* Mutant: the event thread does not look at mCecEnabled.
PassesAnyway(m) == /\ cecFlags.wakeup \/ ~isWakeupMessage(m)
                   /\ cecFlags.control \/ isTransferableInSleep(m)

Passes(m) == /\ cecFlags.enabled
             /\ cecFlags.wakeup \/ ~isWakeupMessage(m)
             /\ cecFlags.control \/ isTransferableInSleep(m)
Filter ==
  /\ CecRuns /\ eventPc = "filter"
  /\ IF Passes(received) THEN eventPc' = "test" /\ UNCHANGED received
     ELSE eventPc' = "poll" /\ received' = NoMessage
  /\ UNCHANGED <<cecShared, queued, lateMessages, cecCall, cecCrashed>>

(* mCallback is tested and read again for the call.                              *)
TestCallback ==
  /\ CecRuns /\ eventPc = "test"
  /\ IF cecCallback THEN eventPc' = "call" /\ UNCHANGED received
     ELSE eventPc' = "poll" /\ received' = NoMessage
  /\ UNCHANGED <<cecShared, queued, lateMessages, cecCall, cecCrashed>>
onCecMessage ==
  /\ CecRuns /\ eventPc = "call"
  /\ \/ /\ cecCallback
        /\ eventPc' = "poll" /\ received' = NoMessage
        /\ lateMessages' = IF cecFlags.enabled THEN 0 ELSE lateMessages + 1
        /\ UNCHANGED <<cecShared, queued, cecCall, cecCrashed>>
     \/ ~cecCallback /\ CecCrash

(* enableCec(), enableWakeupByOtp(), enableSystemCecControl().                   *)
SetFlag(t, f, value) ==
  /\ CecIdle(t) /\ cecFlags' = [cecFlags EXCEPT ![f] = value]
  /\ lateMessages' = IF f = "enabled" THEN 0 ELSE lateMessages
  /\ UNCHANGED <<cecPort, cecCallback, claimed, queued, received, eventPc, cecCall, cecCrashed>>

(* setCallback() clears the old callback before it stores the new one.           *)
ClearCallback(t, next) ==
  /\ CecIdle(t)
  /\ cecCallback' = FALSE
  /\ cecCall' = [cecCall EXCEPT ![t].pc = next]
  /\ UNCHANGED <<cecPort, cecFlags, claimed, queued, eventVars, cecCrashed>>
StoreCallback(t) ==
  /\ CecRuns /\ cecCall[t].pc = "store"
  /\ cecCallback' = TRUE
  /\ cecCall' = [cecCall EXCEPT ![t].pc = "idle"]
  /\ UNCHANGED <<cecPort, cecFlags, claimed, queued, eventVars, cecCrashed>>

(* addLogicalAddress(): CEC_ADAP_G_LOG_ADDRS and later CEC_ADAP_S_LOG_ADDRS with *)
(* one more, which the driver refuses while it is configured. Without a port the *)
(* vector of ports is empty.                                                     *)
ReadAddresses(t, a) ==
  /\ CecIdle(t)
  /\ IF ~cecPort THEN CecCrash
     ELSE /\ cecCall' = [cecCall EXCEPT ![t] = [pc |-> "set", address |-> a, read |-> claimed]]
          /\ UNCHANGED <<cecShared, queued, eventVars, cecCrashed>>
SetAddresses(t) ==
  /\ CecRuns /\ cecCall[t].pc = "set"
  /\ claimed' \in {claimed} \union
       (IF claimed = {} THEN {cecCall[t].read \union {cecCall[t].address}} ELSE {})
  /\ cecCall' = [cecCall EXCEPT ![t] = NoCall]
  /\ UNCHANGED <<cecPort, cecFlags, cecCallback, queued, eventVars, cecCrashed>>
clearLogicalAddress(t) ==
  /\ CecIdle(t)
  /\ \/ ~cecPort /\ CecCrash
     \/ /\ cecPort /\ claimed' \in {claimed, {}}
        /\ UNCHANGED <<cecPort, cecFlags, cecCallback, queued, eventVars, cecCall, cecCrashed>>

CecNext ==
  \/ Arrives \/ Receive \/ Filter \/ TestCallback \/ onCecMessage
  \/ \E t \in CecCallers :
       \/ \E f \in {"enabled", "wakeup", "control"}, value \in BOOLEAN : SetFlag(t, f, value)
       \/ \E next \in {"idle", "store"} : ClearCallback(t, next)
       \/ StoreCallback(t) \/ SetAddresses(t) \/ clearLogicalAddress(t)
       \/ \E a \in CecAddresses : ReadAddresses(t, a)

CecSpec == CecInit /\ [][CecNext]_cecVars

--------------------------------------------------------------------------------
(* The comment of mCecEnabled says that all CEC commands are discarded when it   *)
(* is false. The flag is read before the callback is called: after               *)
(* enableCec(false) at most the one message in flight is delivered.              *)
DisableLatency == lateMessages <= 1
================================================================================
