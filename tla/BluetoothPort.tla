------------------------------ MODULE BluetoothPort ------------------------------
(* A Bluetooth stream and the port it plays through: the stream's worker and a   *)
(* binder thread call start(), suspend() and stop() of the port under the        *)
(* stream's lock; the Bluetooth stack answers, suspends and ends the session in  *)
(* callbacks of its own threads, which take the port's mutex only.               *)
EXTENDS Naturals, FiniteSets

VARIABLES
  btSession,   \* the session type of the port; "none" when it is not registered
  btState,     \* mState
  btLatency,   \* whether mSupportsLowLatency has a value
  btEnabled,   \* mEnabled of the stream
  btProxy,     \* whether mBtDeviceProxy is set
  btCall       \* the call in which each thread is
btVars == <<btSession, btState, btLatency, btEnabled, btProxy, btCall>>

BtThreads == {"worker", "binder"}
BtStates == {"DISABLED", "STANDBY", "STARTING", "STARTED", "SUSPENDING"}
BtIdle == [op |-> "none", at |-> "idle", waits |-> "DISABLED"]

\* What a device is played with: a session type, and one to fall back to.
BtDevices == {"a2dp", "hearingAid", "leHeadset", "leInput", "leBroadcast", "scoInput", "sco"}
SessionType == [d \in BtDevices |->
  CASE d = "a2dp" -> "A2DP_SOFTWARE" [] d = "hearingAid" -> "HEARING_AID"
    [] d = "leHeadset" -> "LE_SOFTWARE" [] d = "leInput" -> "LE_DECODING"
    [] d = "leBroadcast" -> "LE_BROADCAST" [] d = "scoInput" -> "HFP_DECODING"
    [] OTHER -> "HFP_ENCODING"]
FallbackType == [a2dp |-> "A2DP_OFFLOAD", leHeadset |-> "LE_OFFLOAD"]
initSession(d, ready) ==
  IF SessionType[d] \in ready THEN SessionType[d]
  ELSE IF d \in DOMAIN FallbackType /\ FallbackType[d] \in ready THEN FallbackType[d]
  ELSE "none"
ReadySessions == {{}} \union {{t} : t \in {SessionType[d] : d \in BtDevices}
                                          \union {FallbackType[d] : d \in DOMAIN FallbackType}}

BtInit ==
  /\ btSession = "none" /\ btState = "DISABLED" /\ btLatency = FALSE
  /\ btEnabled = TRUE /\ btProxy = FALSE /\ btCall = [t \in BtThreads |-> BtIdle]

----------------------------------------------------------------------------------
(* createProxy(): the registration is tried again while the stack is not ready;  *)
(* a port whose configuration cannot be loaded goes away with the attempt.       *)
createProxy(d, ready, loads) ==
  /\ btSession = "none" /\ initSession(d, ready) # "none" /\ loads
  /\ btSession' = initSession(d, ready) /\ btState' = "STANDBY" /\ btProxy' = TRUE
  /\ UNCHANGED <<btLatency, btEnabled, btCall>>

----------------------------------------------------------------------------------
(* start() and suspend() of the port have one shape: from Origin through         *)
(* Transient to Goal, which the stack's answer sets.                             *)
Starts(op) == op \in {"start", "transfer"}
Origin(op) == IF Starts(op) THEN "STANDBY" ELSE "STARTED"
Transient(op) == IF Starts(op) THEN "STARTING" ELSE "SUSPENDING"
Goal(op) == IF Starts(op) THEN "STARTED" ELSE "STANDBY"

CallAt(t, at) == btCall' = [btCall EXCEPT ![t].at = at]
\* Mutant: the setting is changed without the stream's lock.
AnyTime(t) == btCall[t] = BtIdle
LockFree(t) == \A u \in BtThreads : btCall[u] = BtIdle
\* The port's mutex is held while the latency modes and the configuration are read.
MutexFree == \A t \in BtThreads : btCall[t].at \notin {"latency", "load"}

Begin(t, op) ==
  /\ LockFree(t) /\ btProxy
  /\ Starts(op) => t = "worker" /\ btEnabled
  /\ op = "disable" => t = "binder"
  /\ btCall' = [btCall EXCEPT ![t] = [BtIdle EXCEPT !.op = op, !.at = "enter"]]
  /\ UNCHANGED <<btSession, btState, btLatency, btEnabled, btProxy>>

\* After start(), transfer() writes or reads.
MovesOn(t) == btCall' = [btCall EXCEPT ![t] = IF @.op = "transfer" THEN [@ EXCEPT !.at = "data"]
                                              ELSE BtIdle]
\* The end of start() or suspend() with its result; a failed one ends the call.
Returns(t, ok) ==
  IF ok /\ Starts(btCall[t].op) THEN CallAt(t, "load") /\ UNCHANGED <<btState, btEnabled>>
  ELSE /\ btCall' = [btCall EXCEPT ![t] = BtIdle]
       /\ IF ok /\ btCall[t].op = "disable"
          THEN btState' = "DISABLED" /\ btEnabled' = FALSE
          ELSE UNCHANGED <<btState, btEnabled>>

Issue(t) ==
  IF Starts(btCall[t].op) /\ ~btLatency
  THEN CallAt(t, "latency") /\ UNCHANGED <<btState, btEnabled>>
  ELSE CallAt(t, "session") /\ btState' = Transient(btCall[t].op) /\ UNCHANGED btEnabled

WaitFor(t, at) ==
  /\ btCall' = [btCall EXCEPT ![t].at = at, ![t].waits = btState]
  /\ UNCHANGED <<btState, btEnabled>>

Enter(t) ==
  /\ btCall[t].at = "enter" /\ btCall[t].op # "stop" /\ MutexFree
  /\ LET op == btCall[t].op
     IN CASE btState = Goal(op) /\ Starts(op) -> MovesOn(t) /\ UNCHANGED <<btState, btEnabled>>
          [] btState = Goal(op) /\ ~Starts(op) -> Returns(t, TRUE)
          [] btState \in {"STARTING", "SUSPENDING"} -> WaitFor(t, "waitFirst")
          [] btState = Origin(op) -> Issue(t)
          [] OTHER -> Returns(t, FALSE)
  /\ UNCHANGED <<btSession, btLatency, btProxy>>

\* condWaitState(): a change, or kMaxWaitingTimeMs.
\* Mutant: only a change ends the wait.
Changed(t) == btState # btCall[t].waits
Notified(t) == TRUE
StateReached(t) == btState = IF btCall[t].waits = "STARTING" THEN "STARTED" ELSE "STANDBY"
WaitEnds(t) ==
  /\ btCall[t].at \in {"waitFirst", "waitAnswer"} /\ Notified(t) /\ MutexFree
  /\ IF btCall[t].at = "waitAnswer" \/ ~StateReached(t) \/ btState = Goal(btCall[t].op)
     THEN Returns(t, StateReached(t))
     ELSE Issue(t)
  /\ UNCHANGED <<btSession, btLatency, btProxy>>

\* getRecommendedLatencyModes(), called with the mutex.
ReadLatencyModes(t) ==
  /\ btCall[t].at = "latency"
  /\ btLatency' = TRUE /\ btState' = "STARTING" /\ CallAt(t, "session")
  /\ UNCHANGED <<btSession, btEnabled, btProxy>>

\* startStream() or suspendStream() of the session returns.
SessionReturns(t, ok) ==
  /\ btCall[t].at = "session" /\ btCall[t].op # "stop" /\ MutexFree
  /\ LET op == btCall[t].op
     IN CASE ok /\ btState = Transient(op) -> WaitFor(t, "waitAnswer")
          [] ok /\ btState = Goal(op) -> Returns(t, TRUE)
          [] OTHER -> /\ btState' = IF ok /\ Starts(op) THEN "STANDBY" ELSE "DISABLED"
                      /\ btCall' = [btCall EXCEPT ![t] = BtIdle] /\ UNCHANGED btEnabled
  /\ UNCHANGED <<btSession, btLatency, btProxy>>

\* loadAudioConfig(), with the mutex.
LoadAudioConfig(t) ==
  /\ btCall[t].at = "load" /\ MovesOn(t)
  /\ UNCHANGED <<btSession, btState, btLatency, btEnabled, btProxy>>
TransferData(t) ==
  /\ btCall[t].at = "data" /\ btCall' = [btCall EXCEPT ![t] = BtIdle]
  /\ UNCHANGED <<btSession, btState, btLatency, btEnabled, btProxy>>

\* stop(): of prepareToClose() by the binder thread, of shutdown() by the worker,
\* which then lets the port go.
Stop(t) ==
  /\ btCall[t].op = "stop" /\ MutexFree
  /\ IF btCall[t].at = "enter" /\ btState # "DISABLED"
     THEN CallAt(t, "session") /\ UNCHANGED <<btState, btProxy>>
     ELSE /\ btState' = "DISABLED" /\ btCall' = [btCall EXCEPT ![t] = BtIdle]
          /\ btProxy' = (btProxy /\ t = "binder")
  /\ UNCHANGED <<btSession, btLatency, btEnabled>>
\* With its last holder the port unregisters itself.
unregisterPort ==
  /\ btSession # "none" /\ ~btProxy /\ btSession' = "none"
  /\ UNCHANGED <<btState, btLatency, btEnabled, btProxy, btCall>>

\* bluetoothParametersUpdated() with an enabled profile; with a disabled one it
\* is the operation "disable". Unless the port takes it, mEnabled stays.
EnableProfile(t) ==
  /\ LockFree(t) /\ btProxy /\ btState = "DISABLED"
  /\ btState' = "STANDBY" /\ btEnabled' = TRUE
  /\ UNCHANGED <<btSession, btLatency, btProxy, btCall>>

----------------------------------------------------------------------------------
(* The stack *)
controlResultHandler(success) ==
  /\ btSession # "none" /\ MutexFree
  /\ btState' = CASE btState = "STARTED" -> IF success THEN "STANDBY" ELSE btState
                  [] btState = "STARTING" -> IF success THEN "STARTED" ELSE "STANDBY"
                  [] btState = "SUSPENDING" -> IF success THEN "STANDBY" ELSE "DISABLED"
                  [] OTHER -> btState
  /\ UNCHANGED <<btSession, btLatency, btEnabled, btProxy, btCall>>
sessionChangedHandler ==
  /\ btSession # "none" /\ MutexFree /\ btState' = "DISABLED"
  /\ UNCHANGED <<btSession, btLatency, btEnabled, btProxy, btCall>>

PortSteps(t) == Enter(t) \/ WaitEnds(t) \/ ReadLatencyModes(t) \/ LoadAudioConfig(t)
                \/ TransferData(t) \/ Stop(t) \/ \E ok \in BOOLEAN : SessionReturns(t, ok)
BtNext ==
  \/ \E d \in BtDevices, ready \in ReadySessions, loads \in BOOLEAN :
       createProxy(d, ready, loads)
  \/ \E t \in BtThreads :
       \/ \E op \in {"start", "transfer", "standby", "disable", "stop"} : Begin(t, op)
       \/ Enter(t) \/ WaitEnds(t) \/ ReadLatencyModes(t) \/ LoadAudioConfig(t)
       \/ TransferData(t) \/ Stop(t)
       \/ \E ok \in BOOLEAN : SessionReturns(t, ok)
  \/ EnableProfile("binder") \/ unregisterPort
  \/ \E success \in BOOLEAN : controlResultHandler(success)
  \/ sessionChangedHandler
BtFairness == \A t \in BtThreads : WF_btVars(PortSteps(t))
BtSpec == BtInit /\ [][BtNext]_btVars /\ BtFairness

(* Whatever the stack does or leaves undone, every call of the port returns:    *)
(* a burst, a standby, the switching off of a profile, the close of a stream.   *)
BtCallsReturn == \A t \in BtThreads : btCall[t] # BtIdle ~> btCall[t] = BtIdle

(* While the worker starts the session or moves data, no other thread of the    *)
(* service has stopped the port, disabled the profile or suspended it: both     *)
(* hold the stream's lock from the test of mEnabled to the end.                  *)
OneCallAtATime ==
  /\ Cardinality({t \in BtThreads : btCall[t] # BtIdle}) <= 1
  /\ \A t \in BtThreads : Starts(btCall[t].op) => btEnabled /\ btProxy

==================================================================================
