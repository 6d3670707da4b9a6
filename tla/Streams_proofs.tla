----------------------------- MODULE Streams_proofs -----------------------------
(* Theorems about the threads that wait for somebody: inputs, Bluetooth ports,     *)
(* ALSA streams and effects, each for itself and as the streams of MCStreams.      *)
EXTENDS MCStreams, FiniteSetTheorems, SequenceTheorems, TLAPS

--------------------------------------------------------------------------------
(* Inputs. The driver of an input stops the process when it is asked to transfer   *)
(* in standby. The worker's state tells that it is not in standby: the drain, flush *)
(* and standby that lead back to STANDBY leave the driver in either state, so a    *)
(* burst must not be taken there.                                                  *)

\* In the states that take a burst, the driver has been started since its standby.
Started == {"IDLE", "ACTIVE", "PAUSED", "DRAINING"}
DriverInv == inState \in Started => inDriver = "started"

\* shutdown() comes with the worker's exit, and after it no command runs.
ShutDownInv == inDriver = "uninitialized" => inWorker = "exited"

DriverStateInv == DriverInv /\ ShutDownInv /\ DriverCallsAllowed

LEMMA InitDriverStateInv == InputInit => DriverStateInv
BY DEF InputInit, DriverStateInv, DriverInv, ShutDownInv, DriverCallsAllowed, Started

\* What a command does to the driver, in a state that accepts it.
LEMMA DriveKeeps ==
  ASSUME DriverStateInv, NEW c \in DOMAIN Accepted, inState \in Accepted[c], inWorker = "run", Drive(DriverCall(c))
  PROVE  /\ ~inBroken' /\ inDriver' # "uninitialized"
         /\ NextInState(c) \in Started => inDriver' = "started"
<1>1. inDriver # "uninitialized" /\ ~inBroken
  BY DEF DriverStateInv, ShutDownInv, DriverCallsAllowed
<1>2. CASE c = "start"
  BY <1>1, <1>2 DEF Drive, DriverCall
<1>3. CASE c = "burst"
  <2>1. inDriver = "started"
    BY <1>3 DEF DriverStateInv, DriverInv, Started, Accepted, AcceptedWith
  <2> QED BY <1>1, <1>3, <2>1 DEF Drive, DriverCall
<1>4. CASE c \in {"drain", "pause"}
  <2>1. inDriver = "started"
    BY <1>4 DEF DriverStateInv, DriverInv, Started, Accepted, AcceptedWith
  <2> QED BY <1>1, <1>4, <2>1 DEF Drive, DriverCall
<1>5. CASE c \in {"standby", "flush"}
  <2>1. NextInState(c) = "STANDBY"
    BY <1>5 DEF NextInState
  <2>2. ~inBroken' /\ inDriver' # "uninitialized"
    BY <1>1, <1>5 DEF Drive, DriverCall
  <2> QED BY <2>1, <2>2 DEF Started
<1> QED BY <1>2, <1>3, <1>4, <1>5 DEF Accepted, AcceptedWith

LEMMA CommandKeeps == ASSUME DriverStateInv, NEW ok \in BOOLEAN, RunCommand(ok) PROVE DriverStateInv'
<1> DEFINE c == inRunning
<1>1. c \in DOMAIN Accepted /\ inWorker = "run" /\ inDriver # "uninitialized" /\ ~inBroken
  BY DEF RunCommand, DriverStateInv, ShutDownInv, DriverCallsAllowed
<1>2. CASE inState \notin Accepted[c]
  BY <1>1, <1>2 DEF RunCommand, Quiet, DriverStateInv, DriverInv, ShutDownInv, DriverCallsAllowed
<1>3. CASE inState \in Accepted[c] /\ ~ok
  <2>1. inState' = "ERROR" /\ UNCHANGED <<inDriver, inBroken>>
    BY <1>3 DEF RunCommand, Quiet
  <2> QED BY <1>1, <2>1 DEF DriverStateInv, DriverInv, ShutDownInv, DriverCallsAllowed, Started
<1>4. CASE inState \in Accepted[c] /\ ok /\ Drive(DriverCall(c))
  <2>1. inState' = NextInState(c)
    BY <1>4 DEF RunCommand
  <2> QED BY <1>1, <1>4, <2>1, DriveKeeps DEF DriverStateInv, DriverInv, ShutDownInv, DriverCallsAllowed
<1>5. CASE inState \in Accepted[c] /\ ok /\ ~Drive(DriverCall(c))
  \* A burst of a disconnected stream: the state follows without the driver.
  <2>1. c = "burst" /\ UNCHANGED <<inDriver, inBroken>> /\ inState' = NextInState(c)
    BY <1>5 DEF RunCommand, Quiet
  <2>2. inDriver = "started"
    BY <1>5, <2>1 DEF DriverStateInv, DriverInv, Started, Accepted, AcceptedWith
  <2> QED BY <1>1, <2>1, <2>2 DEF DriverStateInv, DriverInv, ShutDownInv, DriverCallsAllowed
<1> QED BY <1>2, <1>3, <1>4, <1>5

LEMMA ExitKeeps == ASSUME DriverStateInv, RunExit PROVE DriverStateInv'
BY DEF DriverStateInv, RunExit, Drive, DriverInv, ShutDownInv, DriverCallsAllowed, Started

\* Steps that leave the driver alone and lead to no state that takes a burst.
LEMMA OthersKeep ==
  ASSUME DriverStateInv, UNCHANGED <<inDriver, inBroken>>, inState' \in {inState, "ERROR", "CLOSED"},
         inWorker = "exited" => inWorker' = "exited"
  PROVE  DriverStateInv'
BY DEF DriverStateInv, DriverInv, ShutDownInv, DriverCallsAllowed, Started

LEMMA NextDriverStateInv == DriverStateInv /\ [InputNext]_inVars => DriverStateInv'
<1> SUFFICES ASSUME DriverStateInv, [InputNext]_inVars PROVE DriverStateInv'
  OBVIOUS
<1>1. CASE \E ok \in BOOLEAN : RunCommand(ok)
  BY <1>1, CommandKeeps
<1>2. CASE RunExit
  BY <1>2, ExitKeeps
<1>3. CASE (\E c \in InCommands : Send(c)) \/ ReceiveReply \/ ClientIsGone
  BY <1>3, OthersKeep DEF Send, ReceiveReply, ClientIsGone
<1>4. CASE Take \/ RunOther \/ Reply \/ QueueFails
  BY <1>4, OthersKeep DEF Take, RunOther, Reply, QueueFails
<1>5. CASE (\E c \in BOOLEAN : setConnectedDevices(c)) \/ createMmapBuffer
  BY <1>5, OthersKeep DEF setConnectedDevices, createMmapBuffer
<1>6. CASE close \/ stopWorker \/ joinWorker
  BY <1>6, OthersKeep DEF close, stopWorker, joinWorker
<1>7. CASE DspCycle \/ UNCHANGED inVars
  BY <1>7, OthersKeep DEF DspCycle, inVars
<1> QED BY <1>1, <1>2, <1>3, <1>4, <1>5, <1>6, <1>7 DEF InputNext

--------------------------------------------------------------------------------
(* The position of shared memory: while it is known, it is the last one.            *)
FramesInv ==
  /\ InputTypeOK
  /\ inLastFrames \in 1..InputFrames + 1 /\ inFrames \in {Unknown, inLastFrames}

LEMMA FramesInvInit == InputInit => FramesInv
<1> SUFFICES ASSUME InputInit PROVE FramesInv
  OBVIOUS
<1>1. inFrames \in 0..InputFrames + 1 /\ inLastFrames \in 1..InputFrames + 1 /\ inMapping \in 0..2
  BY InputFramesAssumption DEF InputInit, Unknown, NoMemory
<1> QED BY <1>1 DEF InputInit, FramesInv, InputTypeOK, InStates

\* What a command leaves of the state, and what it does to the buffer.
LEMMA DriveTypes ==
  ASSUME FramesInv, NEW call, Drive(call)
  PROVE  /\ inDriver' \in {"uninitialized", "standby", "started"} /\ inMapping' \in 0..2
         /\ UNCHANGED <<inFrames, inLastFrames>>
BY DEF Drive, FramesInv, InputTypeOK, releaseSharedMemory, NoMemory, inDspVars

LEMMA FramesInvStep == FramesInv /\ [InputNext]_inVars => FramesInv' /\ (inFrames' # inFrames /\ inFrames' # Unknown => inFrames' >= inLastFrames)
<1> SUFFICES ASSUME FramesInv, [InputNext]_inVars
             PROVE  FramesInv' /\ (inFrames' # inFrames /\ inFrames' # Unknown => inFrames' >= inLastFrames)
  OBVIOUS
<1> USE DEF FramesInv, InputTypeOK
<1>1. CASE \E ok \in BOOLEAN : RunCommand(ok)
  <2>1. PICK ok \in BOOLEAN : RunCommand(ok)
    BY <1>1
  <2>2. inState' \in InStates
    BY <2>1 DEF RunCommand, NextInState, InStates, Accepted, AcceptedWith
  <2>3. /\ inDriver' \in {"uninitialized", "standby", "started"} /\ inMapping' \in 0..2
        /\ UNCHANGED <<inFrames, inLastFrames>>
    BY <2>1, DriveTypes DEF RunCommand, Quiet, inDspVars
  <2> QED BY <2>1, <2>2, <2>3 DEF RunCommand, inQueues
<1>2. CASE RunExit
  BY <1>2, DriveTypes DEF RunExit, inQueues, InStates
<1>3. CASE (\E c \in InCommands : Send(c)) \/ ReceiveReply \/ ClientIsGone
  BY <1>3 DEF Send, ReceiveReply, ClientIsGone, inDspVars
<1>4. CASE Take \/ RunOther \/ Reply \/ QueueFails
  BY <1>4 DEF Take, RunOther, Reply, QueueFails, inDspVars, inQueues, InStates
<1>5. CASE (\E c \in BOOLEAN : setConnectedDevices(c)) \/ createMmapBuffer
  BY <1>5 DEF setConnectedDevices, createMmapBuffer, inDspVars, inQueues
<1>6. CASE close \/ stopWorker \/ joinWorker
  BY <1>6 DEF close, stopWorker, joinWorker, inDspVars, inQueues, InStates
<1>7. CASE DspCycle
  <2>1. Restored = inLastFrames
    BY DEF Restored
  <2>2. /\ inLastFrames' \in 1..InputFrames + 1 /\ inFrames' \in {Unknown, inLastFrames'}
        /\ inFrames' \in 0..InputFrames + 1 /\ inLastFrames' >= inLastFrames
    BY <1>7, <2>1, InputFramesAssumption DEF DspCycle, Unknown
  <2> QED BY <1>7, <2>2 DEF DspCycle, inQueues, Unknown
<1>8. CASE UNCHANGED inVars
  BY <1>8 DEF inVars, inDspVars, inQueues
<1> QED BY <1>1, <1>2, <1>3, <1>4, <1>5, <1>6, <1>7, <1>8 DEF InputNext

--------------------------------------------------------------------------------
(* Bluetooth. Only an idle port takes a call, and only its own steps change a call: *)
(* what a start found in mEnabled and mBtDeviceProxy holds as long as it lasts.     *)
PortOps == {"none", "start", "transfer", "standby", "disable", "stop"}
PortPlaces == {"idle", "enter", "waitFirst", "waitAnswer", "latency", "session", "load", "data"}
PortCall == [op : PortOps, at : PortPlaces, waits : BtStates]
PortInv ==
  /\ btCall \in [BtThreads -> PortCall] /\ btState \in BtStates
  /\ \A t, u \in BtThreads : btCall[t] # BtIdle /\ btCall[u] # BtIdle => t = u
  /\ \A t \in BtThreads : Starts(btCall[t].op) => btEnabled /\ btProxy

LEMMA PortInvInit == BtInit => PortInv
BY DEF BtInit, PortInv, PortCall, PortOps, PortPlaces, BtIdle, BtThreads, BtStates, Starts

\* A step of a call: it goes on with the same operation or ends; the setting changes
\* only with the end of the call that switches the profile off.
PortStep(t) ==
  /\ btCall[t] # BtIdle
  /\ \E c \in PortCall : /\ btCall' = [btCall EXCEPT ![t] = c]
                         /\ c = BtIdle \/ (c.op = btCall[t].op /\ btProxy' = btProxy /\ btEnabled' = btEnabled)
  /\ btState' \in BtStates

LEMMA IdleIsACall == BtIdle \in PortCall /\ ~Starts(BtIdle.op) /\ BtIdle.at = "idle" /\ BtIdle.op = "none"
BY DEF BtIdle, PortCall, PortOps, PortPlaces, BtStates, Starts

LEMMA PortStepKeeps == ASSUME PortInv, NEW t \in BtThreads, PortStep(t) PROVE PortInv'
<1>1. PICK c \in PortCall : /\ btCall' = [btCall EXCEPT ![t] = c]
                            /\ c = BtIdle \/ (c.op = btCall[t].op /\ btProxy' = btProxy /\ btEnabled' = btEnabled)
  BY DEF PortStep
<1>2. \A u \in BtThreads : btCall[u] # BtIdle => u = t
  BY DEF PortInv, PortStep
<1>3. /\ btCall' \in [BtThreads -> PortCall] /\ btCall'[t] = c
      /\ \A u \in BtThreads \ {t} : btCall'[u] = BtIdle
  BY <1>1, <1>2 DEF PortInv
<1>4. \A u, v \in BtThreads : btCall'[u] # BtIdle /\ btCall'[v] # BtIdle => u = v
  BY <1>3
<1>5. \A u \in BtThreads : Starts(btCall'[u].op) => btEnabled' /\ btProxy'
  <2> SUFFICES ASSUME NEW u \in BtThreads, Starts(btCall'[u].op) PROVE btEnabled' /\ btProxy'
    OBVIOUS
  <2>1. u = t /\ c # BtIdle
    BY <1>3, IdleIsACall
  <2> QED BY <1>1, <1>3, <2>1 DEF PortInv
<1> QED BY <1>3, <1>4, <1>5 DEF PortInv, PortStep

\* The ends of the handlers.
LEMMA CallAtGoesOn ==
  ASSUME PortInv, NEW t \in BtThreads, NEW at \in PortPlaces, CallAt(t, at)
  PROVE  \E c \in PortCall : btCall' = [btCall EXCEPT ![t] = c] /\ c.op = btCall[t].op
<1> DEFINE c == [btCall[t] EXCEPT !.at = at]
<1>1. c \in PortCall /\ c.op = btCall[t].op
  BY DEF PortInv, PortCall, PortPlaces
<1>2. btCall' = [btCall EXCEPT ![t] = c]
  BY DEF CallAt
<1> QED BY <1>1, <1>2

LEMMA ReturnsEnds ==
  ASSUME PortInv, NEW t \in BtThreads, NEW ok \in BOOLEAN, Returns(t, ok), UNCHANGED btProxy
  PROVE  /\ btState' \in BtStates
         /\ \E c \in PortCall : /\ btCall' = [btCall EXCEPT ![t] = c]
                                /\ c = BtIdle \/ (c.op = btCall[t].op /\ btProxy' = btProxy /\ btEnabled' = btEnabled)
<1>1. CASE ok /\ Starts(btCall[t].op)
  <2>1. CallAt(t, "load") /\ UNCHANGED <<btState, btEnabled>>
    BY <1>1 DEF Returns
  <2> QED BY <2>1, CallAtGoesOn DEF PortPlaces, PortInv
<1>2. CASE ~(ok /\ Starts(btCall[t].op))
  <2>1. btCall' = [btCall EXCEPT ![t] = BtIdle] /\ btState' \in {btState, "DISABLED"}
    BY <1>2 DEF Returns
  <2> QED BY <2>1, IdleIsACall DEF PortInv, BtStates
<1> QED BY <1>1, <1>2

LEMMA IssueGoesOn ==
  ASSUME PortInv, NEW t \in BtThreads, Issue(t), UNCHANGED btProxy
  PROVE  /\ btState' \in BtStates
         /\ \E c \in PortCall : /\ btCall' = [btCall EXCEPT ![t] = c]
                                /\ c.op = btCall[t].op /\ btProxy' = btProxy /\ btEnabled' = btEnabled
<1>1. /\ CallAt(t, "latency") \/ CallAt(t, "session")
      /\ btState' \in BtStates /\ UNCHANGED btEnabled
  BY DEF Issue, Transient, PortInv, BtStates
<1> QED BY <1>1, CallAtGoesOn DEF PortPlaces

LEMMA WaitGoesOn ==
  ASSUME PortInv, NEW t \in BtThreads, NEW at \in PortPlaces, WaitFor(t, at), UNCHANGED btProxy
  PROVE  /\ btState' \in BtStates
         /\ \E c \in PortCall : /\ btCall' = [btCall EXCEPT ![t] = c]
                                /\ c.op = btCall[t].op /\ btProxy' = btProxy /\ btEnabled' = btEnabled
<1> DEFINE c == [btCall[t] EXCEPT !.at = at, !.waits = btState]
<1>1. c \in PortCall /\ c.op = btCall[t].op
  BY DEF PortInv, PortCall, BtStates
<1>2. btCall' = [btCall EXCEPT ![t] = c]
  BY DEF WaitFor
<1> QED BY <1>1, <1>2 DEF WaitFor, PortInv

LEMMA MovesOnGoesOn ==
  ASSUME PortInv, NEW t \in BtThreads, MovesOn(t)
  PROVE  \E c \in PortCall : /\ btCall' = [btCall EXCEPT ![t] = c]
                             /\ c = BtIdle \/ c.op = btCall[t].op
<1>1. CASE btCall[t].op = "transfer"
  <2> DEFINE c == [btCall[t] EXCEPT !.at = "data"]
  <2>1. c \in PortCall /\ c.op = btCall[t].op
    BY DEF PortInv, PortCall, PortPlaces
  <2>2. btCall' = [btCall EXCEPT ![t] = c]
    BY <1>1 DEF MovesOn, PortInv
  <2> QED BY <2>1, <2>2
<1>2. CASE btCall[t].op # "transfer"
  <2>1. btCall' = [btCall EXCEPT ![t] = BtIdle]
    BY <1>2 DEF MovesOn, PortInv
  <2> QED BY <2>1, IdleIsACall
<1> QED BY <1>1, <1>2

LEMMA HandlersStep == ASSUME PortInv, NEW t \in BtThreads, PortSteps(t) PROVE PortStep(t)
<1>1. btCall[t] # BtIdle
  <2> SUFFICES ASSUME btCall[t].at = "idle", btCall[t].op = "none" PROVE FALSE
    BY IdleIsACall
  <2> QED BY DEF PortSteps, Enter, WaitEnds, ReadLatencyModes, LoadAudioConfig, TransferData, Stop, SessionReturns
<1>2. CASE Enter(t)
  <2>1. CASE MovesOn(t) /\ UNCHANGED <<btState, btEnabled>>
    BY <1>1, <1>2, <2>1, MovesOnGoesOn DEF Enter, PortStep, PortInv
  <2>2. CASE \E ok \in BOOLEAN : Returns(t, ok)
    BY <1>1, <1>2, <2>2, ReturnsEnds DEF Enter, PortStep
  <2>3. CASE WaitFor(t, "waitFirst")
    BY <1>1, <1>2, <2>3, WaitGoesOn DEF PortPlaces, Enter, PortStep
  <2>4. CASE Issue(t)
    BY <1>1, <1>2, <2>4, IssueGoesOn DEF Enter, PortStep
  <2> QED BY <1>2, <2>1, <2>2, <2>3, <2>4 DEF Enter
<1>3. CASE WaitEnds(t)
  <2>1. CASE \E ok \in BOOLEAN : Returns(t, ok)
    BY <1>1, <1>3, <2>1, ReturnsEnds DEF WaitEnds, PortStep
  <2>2. CASE Issue(t)
    BY <1>1, <1>3, <2>2, IssueGoesOn DEF WaitEnds, PortStep
  <2>3. StateReached(t) \in BOOLEAN
    BY DEF StateReached
  <2> QED BY <1>3, <2>1, <2>2, <2>3 DEF WaitEnds
<1>4. CASE ReadLatencyModes(t)
  BY <1>1, <1>4, CallAtGoesOn DEF PortPlaces, ReadLatencyModes, PortStep, BtStates
<1>5. CASE \E ok \in BOOLEAN : SessionReturns(t, ok)
  <2>1. PICK ok \in BOOLEAN : SessionReturns(t, ok)
    BY <1>5
  <2>2. CASE WaitFor(t, "waitAnswer")
    BY <1>1, <2>1, <2>2, WaitGoesOn DEF PortPlaces, SessionReturns, PortStep
  <2>3. CASE Returns(t, TRUE)
    BY <1>1, <2>1, <2>3, ReturnsEnds DEF SessionReturns, PortStep
  <2>4. CASE btState' \in BtStates /\ btCall' = [btCall EXCEPT ![t] = BtIdle] /\ UNCHANGED btEnabled
    BY <1>1, <2>4, IdleIsACall DEF PortStep
  <2> QED BY <2>1, <2>2, <2>3, <2>4 DEF SessionReturns, BtStates
<1>6. CASE LoadAudioConfig(t)
  BY <1>1, <1>6, MovesOnGoesOn DEF LoadAudioConfig, PortStep, PortInv
<1>7. CASE TransferData(t)
  BY <1>1, <1>7, IdleIsACall DEF TransferData, PortStep, PortInv
<1>8. CASE Stop(t)
  <2>1. CASE CallAt(t, "session") /\ UNCHANGED <<btState, btProxy>>
    BY <1>1, <1>8, <2>1, CallAtGoesOn DEF PortPlaces, Stop, PortStep, PortInv
  <2>2. CASE btState' = "DISABLED" /\ btCall' = [btCall EXCEPT ![t] = BtIdle]
    BY <1>1, <2>2, IdleIsACall DEF PortStep, BtStates
  <2> QED BY <1>8, <2>1, <2>2 DEF Stop
<1> QED BY <1>2, <1>3, <1>4, <1>5, <1>6, <1>7, <1>8 DEF PortSteps

LEMMA PortInvStep == PortInv /\ [BtNext]_btVars => PortInv'
<1> SUFFICES ASSUME PortInv, [BtNext]_btVars PROVE PortInv'
  OBVIOUS
<1>1. CASE \E t \in BtThreads : PortSteps(t)
  BY <1>1, HandlersStep, PortStepKeeps
<1>2. CASE \E t \in BtThreads, op \in {"start", "transfer", "standby", "disable", "stop"} : Begin(t, op)
  <2>1. PICK t \in BtThreads, op \in {"start", "transfer", "standby", "disable", "stop"} : Begin(t, op)
    BY <1>2
  <2> DEFINE c == [BtIdle EXCEPT !.op = op, !.at = "enter"]
  <2>2. c \in PortCall /\ c.op = op
    BY DEF PortCall, PortOps, PortPlaces, BtStates, BtIdle
  <2>3. btCall' = [btCall EXCEPT ![t] = c] /\ \A u \in BtThreads : btCall[u] = BtIdle
    BY <2>1 DEF Begin, LockFree
  <2> HIDE DEF c
  <2>4. /\ btCall' \in [BtThreads -> PortCall] /\ btCall'[t] = c
        /\ \A u \in BtThreads \ {t} : btCall'[u] = BtIdle
    BY <2>2, <2>3 DEF PortInv
  <2>5. Starts(op) => btEnabled' /\ btProxy'
    BY <2>1 DEF Begin
  <2>6. \A u \in BtThreads : Starts(btCall'[u].op) => btEnabled' /\ btProxy'
    BY <2>2, <2>4, <2>5, IdleIsACall
  <2> QED BY <2>1, <2>4, <2>6 DEF PortInv, Begin
<1>3. CASE \/ \E d \in BtDevices, ready \in ReadySessions, loads \in BOOLEAN : createProxy(d, ready, loads)
           \/ EnableProfile("binder")
  BY <1>3 DEF createProxy, EnableProfile, PortInv, BtStates
<1>4. CASE unregisterPort \/ UNCHANGED btVars
  BY <1>4 DEF unregisterPort, btVars, PortInv
<1>5. CASE sessionChangedHandler \/ \E success \in BOOLEAN : controlResultHandler(success)
  BY <1>5 DEF sessionChangedHandler, controlResultHandler, PortInv, BtStates
<1> QED BY <1>1, <1>2, <1>3, <1>4, <1>5 DEF BtNext, PortSteps

\* At most one element: at most one thread is in a call.
LEMMA OneCall == PortInv => OneCallAtATime
<1> SUFFICES ASSUME PortInv PROVE OneCallAtATime
  OBVIOUS
<1> DEFINE Busy == {t \in BtThreads : btCall[t] # BtIdle}
<1>1. Busy = {} \/ \E t \in BtThreads : Busy = {t}
  BY DEF PortInv
<1>2. Cardinality(Busy) <= 1
  BY <1>1, FS_EmptySet, FS_Singleton
<1> QED BY <1>2 DEF OneCallAtATime, PortInv

--------------------------------------------------------------------------------
(* Effects. A client that changes the formats and reopens step by step can have     *)
(* queues of other sizes than the formats and the work buffer; but while both sides  *)
(* have a queue, the smaller one fits the buffer, also after the next reopen().     *)
Sized == {{}} \union {{k} : k \in Nat}
FxContext == [size : [Sides -> Nat], common : [Sides -> Nat], mq : [Sides -> Sized], work : Nat]
Fits(x) ==
  (\A s \in Sides : x.mq[s] # {}) =>
    \E s \in Sides, k \in Nat : x.mq[s] = {k} /\ k <= x.work /\ k <= Larger(x.size)

\* With the effect closed its context is gone and its worker ended; a context that the
\* library holds is taken up again with an empty input.
ClosedInv ==
  fxState = "INIT" /\ fxCall.op \notin {"notify", "join"} => fxContext = NoContext /\ fxThread = "none"
CapacityInv ==
  /\ fxContext.mq["in"] = {} => fxData["in"] = 0
  /\ \A k \in Nat : fxContext.mq["in"] = {k} => fxData["in"] <= k
FxCall == [op : Commands \union {"none", "open", "common", "reopen", "close", "notify", "join"},
           common : [Sides -> Nat]]
FxTypes ==
  /\ FxTypeOK /\ fxContext \in FxContext /\ fxKept \in FxContext /\ fxData \in [Sides -> Nat]
  /\ fxCall \in FxCall
FxInv == FxTypes /\ ClosedInv /\ CapacityInv /\ Fits(fxContext) /\ Fits(fxKept)

LEMMA MaxOfTwo == ASSUME NEW a \in Int, NEW b \in Int
                  PROVE  Max({a, b}) \in {a, b} /\ Max({a, b}) >= a /\ Max({a, b}) >= b
<1>1. \E x \in {a, b} : \A y \in {a, b} : x >= y
  <2>1. CASE a >= b
    BY <2>1
  <2>2. CASE b >= a
    BY <2>2
  <2> QED BY <2>1, <2>2
<1> QED BY <1>1 DEF Max

LEMMA MinOfTwo == ASSUME NEW a \in Int, NEW b \in Int
                  PROVE  Min({a, b}) \in {a, b} /\ Min({a, b}) <= a /\ Min({a, b}) <= b
<1>1. \E x \in {a, b} : \A y \in {a, b} : x <= y
  <2>1. CASE a <= b
    BY <2>1
  <2>2. CASE b <= a
    BY <2>2
  <2> QED BY <2>1, <2>2
<1> QED BY <1>1 DEF Min

LEMMA MaxOfOne == ASSUME NEW a \in Int PROVE Max({a}) = a
BY DEF Max

LEMMA LargerOf == ASSUME NEW f \in [Sides -> Nat]
                  PROVE  Larger(f) \in Nat /\ \A s \in Sides : f[s] <= Larger(f)
<1>1. f["in"] \in Nat /\ f["out"] \in Nat /\ f["in"] \in Int /\ f["out"] \in Int
  BY DEF Sides
<1> DEFINE m == Max({f["in"], f["out"]})
<1>2. m \in {f["in"], f["out"]} /\ m >= f["in"] /\ m >= f["out"]
  BY <1>1, MaxOfTwo, Zenon
<1>3. Larger(f) = m
  BY DEF Larger
<1> HIDE DEF m
<1> QED BY <1>1, <1>2, <1>3 DEF Sides

LEMMA NoContextFits == NoContext \in FxContext /\ Fits(NoContext)
BY DEF NoContext, FxContext, Sized, Fits, Sides

LEMMA NewContextFits ==
  ASSUME NEW c \in [Sides -> Nat] PROVE newContext(c) \in FxContext /\ Fits(newContext(c))
<1>1. newContext(c).mq = [s \in Sides |-> {c[s]}] /\ newContext(c).size = c /\ newContext(c).work = Larger(c)
  BY DEF newContext
<1>2. newContext(c) \in FxContext
  <2>1. [s \in Sides |-> {c[s]}] \in [Sides -> Sized]
    BY DEF Sized
  <2> QED BY <2>1, LargerOf DEF newContext, FxContext
<1>3. Fits(newContext(c))
  <2>1. "in" \in Sides /\ c["in"] \in Nat
    BY DEF Sides
  <2> QED BY <1>1, <2>1, LargerOf DEF Fits
<1> QED BY <1>2, <1>3

\* reopen()
LEMMA ReopenedFits ==
  ASSUME NEW x \in FxContext, Fits(x)
  PROVE  dupeFmqWithReopen(x) \in FxContext /\ Fits(dupeFmqWithReopen(x))
<1> DEFINE m == [s \in Sides |-> IF x.mq[s] = {} THEN {x.size[s]} ELSE x.mq[s]]
           y == dupeFmqWithReopen(x)
<1>1. y.mq = m /\ y.size = x.size /\ y.common = x.common /\ y.work = Larger(x.size)
  BY DEF dupeFmqWithReopen, FxContext
<1>2. m \in [Sides -> Sized]
  BY DEF FxContext, Sized
<1>3. Larger(x.size) \in Nat /\ \A s \in Sides : x.size[s] <= Larger(x.size)
  BY LargerOf DEF FxContext
<1>4. y \in FxContext
  BY <1>2, <1>3 DEF dupeFmqWithReopen, FxContext
<1>5. \E s \in Sides, k \in Nat : m[s] = {k} /\ k <= Larger(x.size)
  <2>1. CASE \A s \in Sides : x.mq[s] # {}
    BY <2>1 DEF Fits
  <2>2. CASE \E s \in Sides : x.mq[s] = {}
    <3>1. PICK s \in Sides : x.mq[s] = {}
      BY <2>2
    <3>2. m[s] = {x.size[s]} /\ x.size[s] \in Nat
      BY <3>1 DEF FxContext
    <3> QED BY <3>2, <1>3
  <2> QED BY <2>1, <2>2
<1> HIDE DEF m, y
<1>6. Fits(y)
  BY <1>1, <1>5 DEF Fits
<1> QED BY <1>4, <1>6 DEF y

\* setCommon(): unless the formats are those the queues have, one queue is gone.
LEMMA CommonFits ==
  ASSUME NEW x \in FxContext, Fits(x), NEW c \in [Sides -> Nat]
  PROVE  /\ setInstanceCommon(x, c) \in FxContext /\ Fits(setInstanceCommon(x, c))
         /\ \A s \in Sides : setInstanceCommon(x, c).mq[s] \in {x.mq[s], {}}
<1> DEFINE y == setInstanceCommon(x, c)
           resets == ~(x.work = 0 \/ \E s \in Sides : x.mq[s] = {})
           m == [s \in Sides |-> IF resets /\ c[s] # x.size[s] THEN {} ELSE x.mq[s]]
<1>1. /\ y.size = c /\ y.work = x.work /\ y.common \in {x.common, c}
      /\ \A s \in Sides : y.mq[s] = m[s]
  BY DEF setInstanceCommon, FxContext
<1>2. m \in [Sides -> Sized]
  BY DEF FxContext, Sized
<1>3. y \in FxContext
  BY DEF setInstanceCommon, FxContext, Sized
<1>4. \A s \in Sides : m[s] \in {x.mq[s], {}}
  OBVIOUS
<1>5. Fits(y)
  <2> SUFFICES ASSUME \A s \in Sides : y.mq[s] # {}
               PROVE  \E s \in Sides, k \in Nat : y.mq[s] = {k} /\ k <= y.work /\ k <= Larger(y.size)
    BY DEF Fits
  <2>1. \A s \in Sides : x.mq[s] # {} /\ y.mq[s] = x.mq[s]
    BY <1>1, <1>4
  <2>2. PICK s \in Sides, k \in Nat : x.mq[s] = {k} /\ k <= x.work /\ k <= Larger(x.size)
    BY <2>1 DEF Fits
  <2>3. k <= Larger(c)
    <3>1. CASE x.work = 0
      BY <2>2, <3>1, LargerOf
    <3>2. CASE x.work # 0
      <4>1. \A t \in Sides : c[t] = x.size[t]
        BY <1>1, <2>1, <3>2
      <4>2. Larger(c) = Larger(x.size)
        BY <4>1 DEF Larger, Sides
      <4> QED BY <2>2, <4>2
    <3> QED BY <3>1, <3>2
  <2> QED BY <1>1, <2>1, <2>2, <2>3
<1> HIDE DEF y, m
<1> QED BY <1>1, <1>3, <1>4, <1>5 DEF y

LEMMA FxInvInit == FxInit => FxInv
<1> SUFFICES ASSUME FxInit PROVE FxInv
  OBVIOUS
<1>1. fxData \in [Sides -> Nat] /\ fxData["in"] = 0 /\ fxCall \in FxCall
  BY DEF FxInit, Empty, NoCall, NoContext, Sides, FxCall
<1>2. FxTypes
  <2>1. fxLoop \in [stop : BOOLEAN, exit : BOOLEAN]
    BY DEF FxInit
  <2>2. fxStatus \in 0..1
    BY SMT DEF FxInit
  <2>3. fxFlag \in BOOLEAN
    BY Zenon DEF FxInit
  <2>4. FxTypeOK
    BY <2>1, <2>2, <2>3 DEF FxInit, FxTypeOK
  <2> QED BY <1>1, <2>4, NoContextFits DEF FxInit, FxTypes
<1> QED BY <1>1, <1>2, NoContextFits DEF FxInv, FxInit, ClosedInv, CapacityInv

\* The parts of the state that no queue depends on.
LEMMA FxTypeStep == ASSUME FxTypeOK, FxNext PROVE FxTypeOK'
<1>1. fxState' \in {"INIT", "IDLE", "PROCESSING"} /\ fxThread' \in {"none", "cv", "flag", "process", "status"}
  <2>1. CASE \E c \in Formats : (0 \notin Range(c) /\ Call("open", c)) \/ Call("common", c)
    BY <2>1 DEF Call, FxTypeOK
  <2>2. CASE \E op \in Commands \union {"reopen", "close"} : Call(op, NoCall.common)
    BY <2>2 DEF Call, FxTypeOK
  <2>3. CASE BinderSteps
    BY <2>3 DEF BinderSteps, openInstance, reopen, setParameterCommon, closeInstance, notifyEventFlag,
                destroyThread, command, Commanded, FxTypeOK
  <2>4. CASE EffectSteps
    BY <2>4 DEF EffectSteps, threadLoop, SeesFlag, processBurst, writeBlocking, FxTypeOK
  <2>5. CASE ClientReads \/ \E n \in 1..2 : ClientWrites(n)
    BY <2>5 DEF ClientReads, ClientWrites, FxTypeOK
  <2> QED BY <2>1, <2>2, <2>3, <2>4, <2>5 DEF FxNext
<1>2. fxStatus' \in 0..1
  <2>1. fxStatus' \in {fxStatus, 0, 1}
    BY DEF FxNext, Call, BinderSteps, openInstance, reopen, setParameterCommon, closeInstance, notifyEventFlag,
           destroyThread, releaseContext, command, EffectSteps, threadLoop, SeesFlag, processBurst,
           writeBlocking, ClientReads, ClientWrites
  <2> QED BY <2>1 DEF FxTypeOK
<1>3. fxFlag' \in BOOLEAN
  BY Zenon DEF FxTypeOK, FxNext, Call, BinderSteps, openInstance, reopen, setParameterCommon, closeInstance, notifyEventFlag,
         destroyThread, releaseContext, command, FlagAfter, EffectSteps, threadLoop, SeesFlag, processBurst,
         writeBlocking, ClientReads, ClientWrites
<1>4. fxLoop' \in [stop : BOOLEAN, exit : BOOLEAN]
  <2>1. \/ UNCHANGED fxLoop \/ fxLoop' = [stop |-> TRUE, exit |-> FALSE] \/ fxLoop' = [stop |-> TRUE, exit |-> TRUE]
        \/ fxLoop' = [fxLoop EXCEPT !.stop = TRUE] \/ fxLoop' = [fxLoop EXCEPT !.stop = FALSE]
    BY DEF FxNext, Call, BinderSteps, openInstance, reopen, setParameterCommon, closeInstance, notifyEventFlag,
           destroyThread, releaseContext, command, Ended, EffectSteps, threadLoop, SeesFlag, processBurst,
           writeBlocking, ClientReads, ClientWrites
  <2>2. ASSUME NEW b \in BOOLEAN PROVE [fxLoop EXCEPT !.stop = b] \in [stop : BOOLEAN, exit : BOOLEAN]
    BY DEF FxTypeOK
  <2>3. ASSUME NEW b \in BOOLEAN PROVE [stop |-> TRUE, exit |-> b] \in [stop : BOOLEAN, exit : BOOLEAN]
    OBVIOUS
  <2>4. TRUE \in BOOLEAN /\ FALSE \in BOOLEAN /\ fxLoop \in [stop : BOOLEAN, exit : BOOLEAN]
    BY DEF FxTypeOK
  <2> QED BY <2>1, <2>2, <2>3, <2>4, Zenon
<1> QED BY <1>1, <1>2, <1>3, <1>4 DEF FxTypeOK

\* Each step for the rest of the invariant.
FxParts ==
  /\ fxContext \in FxContext /\ fxKept \in FxContext /\ fxData \in [Sides -> Nat]
  /\ fxCall \in FxCall /\ ClosedInv /\ CapacityInv /\ Fits(fxContext) /\ Fits(fxKept)
LEMMA FxInvParts == FxInv <=> FxTypeOK /\ FxParts
BY DEF FxInv, FxParts, FxTypes

LEMMA CommonOfCall == NoCall \in FxCall /\ NoCall.common \in [Sides -> Nat] /\ NoCall.op = "none"
BY DEF NoCall, NoContext, FxCall
\* A call goes on to its next part.
LEMMA GoesOn ==
  ASSUME FxInv, NEW op \in {"close", "notify", "join"}, Goes(op) PROVE fxCall' \in FxCall /\ fxCall'.op = op
BY DEF Goes, FxInv, FxTypes, FxCall

LEMMA FxCallKeeps ==
  ASSUME FxInv, NEW op \in Commands \union {"open", "common", "reopen", "close"}, NEW c \in [Sides -> Nat], Call(op, c) PROVE FxParts'
BY CommonOfCall DEF FxInv, FxTypes, FxParts, Commands, FxCall, Call, ClosedInv, CapacityInv, Fits

LEMMA FxOpenKeeps == ASSUME FxInv, openInstance PROVE FxParts'
<1>1. fxCall' = NoCall /\ fxCall.op = "open" /\ UNCHANGED fxKept
  BY DEF openInstance, Return
<1>2. CASE fxState # "INIT"
  BY <1>1, <1>2, CommonOfCall DEF openInstance, FxInv, FxTypes, FxParts, ClosedInv, CapacityInv, Fits
<1>3. CASE fxState = "INIT" /\ fxKept = NoContext
  <2>1. fxContext' = newContext(fxCall.common) /\ fxData' = [s \in Sides |-> 0] /\ fxState' = "IDLE"
    BY <1>3 DEF openInstance, createContext, Empty
  <2>2. fxContext' \in FxContext /\ Fits(fxContext')
    BY <2>1, NewContextFits DEF FxInv, FxTypes, FxCall
  <2>3. fxData' \in [Sides -> Nat] /\ fxData'["in"] = 0
    BY <2>1 DEF Sides
  <2> QED BY <1>1, <2>1, <2>2, <2>3, CommonOfCall DEF FxInv, FxTypes, FxParts, ClosedInv, CapacityInv, Fits
<1>4. CASE fxState = "INIT" /\ fxKept # NoContext
  <2>1. fxContext' = fxKept /\ fxData' = fxData /\ fxState' = "IDLE"
    BY <1>4 DEF openInstance, createContext
  <2>2. fxData["in"] = 0
    <3>1. fxContext = NoContext
      BY <1>1, <1>4 DEF FxInv, ClosedInv
    <3> QED BY <3>1 DEF FxInv, CapacityInv, NoContext, Sides
  <2> QED BY <1>1, <2>1, <2>2, CommonOfCall DEF FxInv, FxTypes, FxParts, ClosedInv, CapacityInv, Fits
<1> QED BY <1>2, <1>3, <1>4

\* A queue that is kept holds what it held, a new one is empty.
LEMMA DataOfKeeps ==
  ASSUME FxInv, NEW x \in FxContext, fxContext' = x, fxData' = DataOf(x)
  PROVE  fxData' \in [Sides -> Nat] /\ CapacityInv'
<1>1. fxData' \in [Sides -> Nat]
  BY DEF DataOf, FxInv, FxTypes
<1>2. fxData'["in"] = IF x.mq["in"] = fxContext.mq["in"] THEN fxData["in"] ELSE 0
  BY DEF DataOf, Sides
<1> QED BY <1>1, <1>2 DEF CapacityInv, FxInv

LEMMA FxFormatsKeep == ASSUME FxInv, reopen \/ setParameterCommon PROVE FxParts'
<1>1. fxCall' = NoCall /\ fxCall.op \in {"reopen", "common"} /\ UNCHANGED <<fxState, fxThread, fxKept>>
  BY DEF reopen, setParameterCommon, Return
<1>2. CASE UNCHANGED <<fxContext, fxData>>
  BY <1>1, <1>2, CommonOfCall DEF FxInv, FxTypes, FxParts, ClosedInv, CapacityInv, Fits
<1>3. ASSUME NEW x \in FxContext, Fits(x), fxContext' = x, fxData' = DataOf(x), fxState # "INIT" \/ fxContext # NoContext
      PROVE  FxParts'
  <2>1. fxState # "INIT"
    BY <1>1, <1>3 DEF FxInv, ClosedInv
  <2> QED BY <1>1, <1>3, <2>1, DataOfKeeps, CommonOfCall DEF FxInv, FxTypes, FxParts, ClosedInv, Fits
<1>4. CASE reopen /\ fxState # "INIT"
  <2> DEFINE x == dupeFmqWithReopen(fxContext)
  <2>1. x \in FxContext /\ Fits(x)
    BY ReopenedFits DEF FxInv, FxTypes
  <2>2. fxContext' = x /\ fxData' = DataOf(x)
    BY <1>4 DEF reopen
  <2> HIDE DEF x
  <2> QED BY <1>3, <1>4, <2>1, <2>2
<1>5. CASE setParameterCommon /\ fxContext # NoContext
  <2> DEFINE x == setInstanceCommon(fxContext, fxCall.common)
  <2>1. x \in FxContext /\ Fits(x)
    BY CommonFits DEF FxInv, FxTypes, FxCall
  <2>2. fxContext' = x /\ fxData' = DataOf(x)
    BY <1>5 DEF setParameterCommon
  <2> HIDE DEF x
  <2> QED BY <1>3, <1>5, <2>1, <2>2
<1> QED BY <1>2, <1>4, <1>5 DEF reopen, setParameterCommon

LEMMA FxCommandKeeps == ASSUME FxInv, NEW op \in Commands, command(op) PROVE FxParts'
<1>1. /\ fxCall.op = op /\ fxCall'.op \in {"close", "none"} /\ fxCall' \in FxCall
      /\ UNCHANGED <<fxContext, fxKept, fxThread>> /\ (fxState' = "INIT" => fxState = "INIT")
  BY CommonOfCall, GoesOn DEF command, Return, Commanded, FxInv, FxTypes
<1>2. fxData' \in [Sides -> Nat] /\ fxData'["in"] \in {fxData["in"], 0}
  BY DEF command, commandImpl, FxInv, FxTypes, Sides
<1>3. op \notin {"notify", "join"}
  BY DEF Commands
<1> QED BY <1>1, <1>2, <1>3 DEF FxInv, FxTypes, FxParts, ClosedInv, CapacityInv, Fits, FxContext

LEMMA FxCloseKeeps == ASSUME FxInv, closeInstance \/ notifyEventFlag \/ destroyThread PROVE FxParts'
<1>1. CASE closeInstance
  BY <1>1, CommonOfCall, GoesOn DEF closeInstance, Return, FxInv, FxTypes, FxParts, ClosedInv, CapacityInv, Fits
<1>2. CASE notifyEventFlag
  BY <1>2, GoesOn DEF notifyEventFlag, FxInv, FxTypes, FxParts, ClosedInv, CapacityInv, Fits
<1>3. CASE destroyThread
  <2>1. /\ fxContext' = NoContext /\ fxThread' = "none" /\ fxCall' = NoCall /\ fxKept' \in {fxKept, fxContext}
    BY <1>3 DEF destroyThread, Return, releaseContext
  <2>2. fxData' \in [Sides -> Nat] /\ fxData'["in"] = 0
    BY <1>3 DEF destroyThread, releaseContext, Empty, FxInv, FxTypes, Sides
  <2> QED BY <2>1, <2>2, NoContextFits, CommonOfCall DEF FxInv, FxTypes, FxParts, ClosedInv, CapacityInv, Fits
<1> QED BY <1>1, <1>2, <1>3

\* A burst takes no more than the input holds, and adds it to the output.
LEMMA ProcessableIs ==
  ASSUME FxInv, HasQueues
  PROVE  /\ Processable \in Int /\ Processable <= fxData["in"]
         /\ \E k \in Nat : fxContext.mq["out"] = {k} /\ Processable <= k
<1>1. PICK k \in Nat : fxContext.mq["out"] = {k}
  BY DEF FxInv, FxTypes, FxContext, HasQueues, Sized, Sides
<1>2. Avail("in") = fxData["in"] /\ Avail("out") = k - fxData["out"]
  BY <1>1, MaxOfOne DEF Avail
<1>3. fxData["in"] \in Nat /\ fxData["out"] \in Nat
  BY DEF FxInv, FxTypes, Sides
<1>4. {Avail(s) : s \in Sides} = {Avail("in"), Avail("out")}
  BY DEF Sides
<1>5. Avail("in") \in Int /\ Avail("out") \in Int
  BY <1>2, <1>3
<1>6. /\ Processable \in {Avail("in"), Avail("out")}
      /\ Processable <= Avail("in") /\ Processable <= Avail("out")
  BY <1>4, <1>5, MinOfTwo, Zenon DEF Processable
<1> QED BY <1>1, <1>2, <1>3, <1>5, <1>6

LEMMA BurstsKeep ==
  ASSUME FxInv, processBurst
  PROVE  FxParts' /\ (fxKind # "downmix" /\ fxState # "PROCESSING" => fxData' = fxData)
<1>1. UNCHANGED <<fxKept, fxState, fxContext, fxCall>> /\ fxThread = "process"
  BY DEF processBurst
<1>2. fxKind # "downmix" /\ fxState # "PROCESSING" => fxData' = fxData
  BY DEF processBurst, MayProcess, InState
<1>3. fxData' \in [Sides -> Nat] /\ fxData'["in"] <= fxData["in"]
  <2>1. CASE fxData' = fxData
    BY <2>1 DEF FxInv, FxTypes, Sides
  <2>2. CASE MayProcess /\ Processable > 0 /\ fxData' = [s \in Sides |-> IF s = "in" THEN fxData[s] - Processable
                                                               ELSE fxData[s] + Processable]
    <3>1. Processable \in Int /\ Processable <= fxData["in"] /\ Processable > 0
      BY <2>2, ProcessableIs DEF MayProcess
    <3>2. fxData["in"] \in Nat /\ fxData["out"] \in Nat
      BY DEF FxInv, FxTypes, Sides
    <3> QED BY <2>2, <3>1, <3>2 DEF Sides
  <2> QED BY <2>1, <2>2 DEF processBurst
<1>4. ClosedInv'
  BY <1>1 DEF FxInv, ClosedInv
<1>5. fxData["in"] \in Nat /\ fxData'["in"] \in Nat
  BY <1>3 DEF FxInv, FxTypes, Sides
<1>6. CapacityInv'
  BY <1>1, <1>3, <1>5 DEF FxInv, CapacityInv
<1> QED BY <1>1, <1>2, <1>3, <1>4, <1>6 DEF FxInv, FxTypes, FxParts, Fits

LEMMA FxOthersKeep ==
  ASSUME FxInv, threadLoop \/ SeesFlag \/ writeBlocking \/ UNCHANGED fxVars PROVE FxParts'
BY DEF threadLoop, SeesFlag, writeBlocking, fxVars, FxInv, FxTypes, FxParts, ClosedInv, CapacityInv, Fits

LEMMA ClientKeeps == ASSUME FxInv, ClientReads \/ \E n \in 1..2 : ClientWrites(n) PROVE FxParts'
<1>1. UNCHANGED <<fxContext, fxKept, fxState, fxThread, fxCall>>
  BY DEF ClientReads, ClientWrites
<1>2. fxData' \in [Sides -> Nat] /\ CapacityInv'
  <2>1. CASE ClientReads
    BY <1>1, <2>1 DEF ClientReads, FxInv, FxTypes, CapacityInv, Sides
  <2>2. CASE \E n \in 1..2 : ClientWrites(n)
    <3>1. PICK n \in 1..2 : ClientWrites(n)
      BY <2>2
    <3>2. CASE UNCHANGED fxData
      BY <1>1, <3>2 DEF FxInv, FxTypes, CapacityInv
    <3>3. CASE /\ fxContext.mq["in"] # {} /\ n + fxData["in"] <= Max(fxContext.mq["in"])
               /\ fxData' = [fxData EXCEPT !["in"] = @ + n]
      <4>1. PICK k \in Nat : fxContext.mq["in"] = {k}
        BY <3>3 DEF FxInv, FxTypes, FxContext, Sized, Sides
      <4>2. fxData["in"] \in Nat /\ fxData' \in [Sides -> Nat] /\ fxData'["in"] <= k
        BY <3>3, <4>1, MaxOfOne DEF FxInv, FxTypes, Sides
      <4> QED BY <1>1, <4>1, <4>2 DEF CapacityInv
    <3> QED BY <3>1, <3>2, <3>3 DEF ClientWrites
  <2> QED BY <2>1, <2>2
<1> QED BY <1>1, <1>2 DEF FxInv, FxTypes, FxParts, ClosedInv, Fits

LEMMA FxInvStep ==
  FxInv /\ [FxNext]_fxVars =>
    FxInv' /\ (fxThread = "process" /\ fxKind # "downmix" /\ fxState # "PROCESSING" /\ fxThread' # "process"
                 => fxData' = fxData)
<1> SUFFICES ASSUME FxInv, [FxNext]_fxVars
             PROVE  FxInv' /\ (fxThread = "process" /\ fxKind # "downmix" /\ fxState # "PROCESSING" /\ fxThread' # "process"
                                 => fxData' = fxData)
  OBVIOUS
<1>1. FxTypeOK'
  <2>1. FxTypeOK
    BY DEF FxInv, FxTypes
  <2>2. CASE UNCHANGED fxVars
    BY <2>1, <2>2 DEF fxVars, FxTypeOK
  <2> QED BY <2>1, <2>2, FxTypeStep
<1>2. FxParts'
  <2>1. CASE \E c \in Formats : (0 \notin Range(c) /\ Call("open", c)) \/ Call("common", c)
    BY <2>1, FxCallKeeps, FormatsAssumption
  <2>2. CASE \E op \in Commands \union {"reopen", "close"} : Call(op, NoCall.common)
    BY <2>2, FxCallKeeps, CommonOfCall
  <2>3. CASE BinderSteps
    BY <2>3, FxOpenKeeps, FxFormatsKeep, FxCommandKeeps, FxCloseKeeps DEF BinderSteps
  <2>4. CASE EffectSteps
    BY <2>4, BurstsKeep, FxOthersKeep DEF EffectSteps
  <2>5. CASE ClientReads \/ \E n \in 1..2 : ClientWrites(n)
    BY <2>5, ClientKeeps
  <2>6. CASE UNCHANGED fxVars
    BY <2>6, FxOthersKeep
  <2> QED BY <2>1, <2>2, <2>3, <2>4, <2>5, <2>6 DEF FxNext
<1>3. ASSUME fxThread = "process", fxKind # "downmix", fxState # "PROCESSING", fxThread' # "process"
      PROVE  fxData' = fxData
  <2>1. processBurst \/ openInstance
    BY <1>3 DEF FxNext, Call, BinderSteps, reopen, setParameterCommon, closeInstance, notifyEventFlag,
                destroyThread, command, EffectSteps, threadLoop, SeesFlag, writeBlocking, ClientReads,
                ClientWrites, fxVars
  <2>2. CASE processBurst
    BY <1>3, <2>2, BurstsKeep
  <2>3. CASE openInstance
    BY <1>3, <2>3 DEF openInstance, FxInv, ClosedInv
  <2> QED BY <2>1, <2>2, <2>3
<1> QED BY <1>1, <1>2, <1>3, FxInvParts, PTL

\* With a queue on both sides the burst is no more than the smaller one.
LEMMA BurstsFit == FxInv => BurstFits
<1> SUFFICES ASSUME FxInv, MayProcess PROVE Processable <= fxContext.work
  BY DEF BurstFits
<1>1. PICK s \in Sides, k \in Nat : fxContext.mq[s] = {k} /\ k <= fxContext.work
  BY DEF FxInv, Fits, MayProcess, HasQueues
<1>2. Processable \in Int /\ Processable <= k
  <2>1. HasQueues
    BY DEF MayProcess
  <2>2. CASE s = "in"
    <3>1. fxData["in"] <= k /\ fxData["in"] \in Nat
      BY <1>1, <2>2 DEF FxInv, FxTypes, CapacityInv, Sides
    <3> QED BY <2>1, <3>1, ProcessableIs
  <2>3. CASE s = "out"
    BY <1>1, <2>1, <2>3, ProcessableIs
  <2> QED BY <2>2, <2>3 DEF Sides
<1>3. fxContext.work \in Nat
  BY DEF FxInv, FxTypes, FxContext
<1> QED BY <1>1, <1>2, <1>3

--------------------------------------------------------------------------------
(* ALSA streams. What the devices, the kernel's buffer, the pipe and the I/O thread  *)
(* hold, in numbers.                                                                 *)
AlsaFlags == asUpdated \in BOOLEAN /\ asRunning \in BOOLEAN /\ asShut \in BOOLEAN
AlsaPlaces == {"none", "top", "pcm", "sink", "done"}
AlsaWorkerStates == {"standby", "open", "opening", "idle", "checked", "transfer",
                     "error", "join", "exit", "closed"}
AlsaSets ==
  /\ asKind \in AlsaKinds /\ asConnected \subseteq AlsaDevices /\ asProxies \subseteq AlsaDevices
  /\ asWorker \in AlsaWorkerStates
AlsaNumbers ==
  /\ asCaptured \in Nat /\ asLast \in Nat /\ asCount \in Nat /\ asWant \in 0..PipeFrames
  /\ asQueued \in 0..KernelFrames /\ asOverrun \in 0..1 /\ asPosition \in Int
IoThread == [at : AlsaPlaces, buffer : Seq(Nat), from : {1}]
AlsaBuffers ==
  /\ asPipe \in Seq(Nat) /\ Len(asPipe) <= PipeFrames /\ asGot \in Seq(Nat)
  /\ asIo \in IoThread

\* A USB stream has no I/O thread.
IoInv == ~IsPipe => asIo.at = "none"

\* The flag of a connect and the devices that are opened.
FedInv == ~IsPipe /\ asWorker \in {"opening", "idle", "checked"} /\ ~asUpdated => asProxies = asConnected

\* A position that was reported is not above the one that the counters give now.
Reported == IF IsIn THEN capturePosition ELSE presentationPosition
PositionInv ==
  /\ asPosition >= NoPosition
  /\ asPosition # NoPosition => asWorker \notin {"standby", "open", "opening"}
  /\ ~IsPipe => asOverrun = 0 \/ asQueued = 0
  /\ IsIn => asOverrun = 0
  /\ ~IsPipe /\ asPosition # NoPosition => asPosition <= Reported

\* While a capture runs, the pipe goes on after the last frame of the client, and what the
\* I/O thread has still to write goes on after the pipe.
Consecutive(frames, n) == \A i \in 1..Len(frames) : frames[i] = n + i
Running == {"idle", "checked", "transfer"}
CaptureInv == IsPipe /\ IsIn =>
  /\ asWorker \in {"standby", "open", "opening"} => asPipe = <<>> /\ asIo.at = "none"
  /\ asWorker \in Running =>
     /\ asRunning /\ ~asShut /\ asIo.at \in {"top", "pcm", "sink"}
     /\ Consecutive(asPipe, asLast)
     /\ asIo.at = "sink" => /\ Consecutive(asIo.buffer, asLast + Len(asPipe))
                            /\ asLast + Len(asPipe) + Len(asIo.buffer) = asCaptured
     /\ asIo.at # "sink" => asLast + Len(asPipe) = asCaptured
AlsaInv == AlsaFlags /\ AlsaSets /\ AlsaNumbers /\ AlsaBuffers /\ IoInv /\ FedInv /\ PositionInv /\ CaptureInv

LEMMA AlsaTypeParts == AlsaInv => AlsaStreamTypeOK
<1> SUFFICES ASSUME AlsaInv PROVE AlsaStreamTypeOK
  OBVIOUS
<1>1. {asUpdated, asRunning, asShut} \subseteq BOOLEAN
  BY Zenon DEF AlsaInv, AlsaFlags
<1>2. asIo.at \in AlsaPlaces /\ Len(asPipe) \in 0..PipeFrames
  <2>1. asIo.at \in AlsaPlaces
    BY DEF AlsaInv, AlsaBuffers, IoThread
  <2>2. Len(asPipe) \in 0..PipeFrames
    <3>1. asPipe \in Seq(Nat) /\ Len(asPipe) <= PipeFrames
      BY DEF AlsaInv, AlsaBuffers
    <3>2. Len(asPipe) \in Nat
      BY <3>1, LenProperties
    <3>3. ASSUME NEW n \in Nat, n <= PipeFrames PROVE n \in 0..PipeFrames
      BY <3>3 DEF PipeFrames
    <3> QED BY <3>1, <3>2, <3>3, Zenon
  <2> QED BY <2>1, <2>2
<1> QED BY <1>1, <1>2 DEF AlsaInv, AlsaSets, AlsaNumbers, AlsaStreamTypeOK, AlsaPlaces, AlsaWorkerStates

LEMMA NoThreadIs == NoThread \in IoThread /\ NoThread.at = "none"
BY DEF NoThread, IoThread, AlsaPlaces

LEMMA AlsaInvInit == AlsaStreamInit => AlsaInv
<1> SUFFICES ASSUME AlsaStreamInit PROVE AlsaInv
  OBVIOUS
<1>1. AlsaFlags
  BY Zenon DEF AlsaStreamInit, AlsaFlags
<1>2. AlsaSets /\ AlsaNumbers
  BY DEF AlsaStreamInit, AlsaSets, AlsaNumbers, AlsaWorkerStates, PipeFrames, KernelFrames, NoPosition
<1>3. AlsaBuffers
  BY NoThreadIs DEF AlsaStreamInit, AlsaBuffers, PipeFrames
<1>4. IoInv /\ FedInv /\ PositionInv /\ CaptureInv
  BY NoThreadIs DEF AlsaStreamInit, IoInv, FedInv, PositionInv, CaptureInv, NoPosition, Running
<1> QED BY <1>1, <1>2, <1>3, <1>4 DEF AlsaInv

LEMMA AlsaFlagsStep == ASSUME AlsaSets, AlsaFlags, AlsaStreamNext PROVE AlsaFlags'
<1>1. IsIn \in BOOLEAN
  BY AlsaAssumption DEF IsIn, AlsaSets
<1>2. UNCHANGED asUpdated \/ asUpdated' = TRUE \/ asUpdated' = FALSE
  BY Zenon DEF AlsaStreamNext, alsaStart, getDeviceProfiles, openDeviceProxies, FlagOnceOpen,
    usbSetConnectedDevices, beginTransfer, readPipe, endTransfer, writePipe, writeDevice, readDevice,
    ioSteps, ioTop, inputIoThread, outputIoThread, writeSink, ioThread, teardownIo, shutSinks, shutPipes,
    alsaStandby, alsaDevice, refinePosition
<1>3. UNCHANGED asRunning \/ asRunning' = FALSE \/ \E ok \in BOOLEAN : asRunning' = (ok /\ IsPipe)
  BY Zenon DEF AlsaStreamNext, alsaStart, getDeviceProfiles, openDeviceProxies, FlagOnceOpen,
    usbSetConnectedDevices, beginTransfer, readPipe, endTransfer, writePipe, writeDevice, readDevice,
    ioSteps, ioTop, inputIoThread, outputIoThread, writeSink, ioThread, teardownIo, shutSinks, shutPipes,
    alsaStandby, alsaDevice, refinePosition
<1>4. UNCHANGED asShut \/ asShut' = FALSE \/ asShut' = IsIn
  BY Zenon DEF AlsaStreamNext, alsaStart, getDeviceProfiles, openDeviceProxies, FlagOnceOpen,
    usbSetConnectedDevices, beginTransfer, readPipe, endTransfer, writePipe, writeDevice, readDevice,
    ioSteps, ioTop, inputIoThread, outputIoThread, writeSink, ioThread, teardownIo, shutSinks, shutPipes,
    alsaStandby, alsaDevice, refinePosition
<1>5. asUpdated' \in BOOLEAN
  BY <1>2, Zenon DEF AlsaFlags
<1>6. asRunning' \in BOOLEAN
  BY <1>3, Zenon DEF AlsaFlags
<1>7. asShut' \in BOOLEAN
  BY <1>1, <1>4, Zenon DEF AlsaFlags
<1> QED BY <1>5, <1>6, <1>7 DEF AlsaFlags

LEMMA AlsaSetsStep == ASSUME AlsaSets, AlsaStreamNext PROVE AlsaSets'
<1>1. /\ asKind' = asKind
      /\ asConnected' \subseteq AlsaDevices
      /\ \/ asProxies' \subseteq asProxies \/ asProxies' = asConnected
  BY DEF AlsaSets, AlsaStreamNext, alsaStart, getDeviceProfiles, openDeviceProxies,
    usbSetConnectedDevices, beginTransfer, readPipe, endTransfer, writePipe, writeDevice, readDevice,
    ioSteps, ioTop, inputIoThread, outputIoThread, writeSink, ioThread, teardownIo,
    alsaStandby, alsaDevice, refinePosition
<1>2. asWorker' \in AlsaWorkerStates
  BY DEF AlsaSets, AlsaWorkerStates, AlsaStreamNext, alsaStart, getDeviceProfiles, openDeviceProxies,
    usbSetConnectedDevices, beginTransfer, readPipe, endTransfer, writePipe, writeDevice, readDevice,
    ioSteps, ioTop, inputIoThread, outputIoThread, writeSink, ioThread, teardownIo,
    alsaStandby, alsaDevice, refinePosition
<1> QED BY <1>1, <1>2 DEF AlsaSets


\* What the pipe holds after a write and after a read.
LEMMA PieceOf ==
  ASSUME NEW frames \in Seq(Nat), NEW m \in 1..Len(frames) + 1, NEW n \in m - 1..Len(frames)
  PROVE  /\ SubSeq(frames, m, n) \in Seq(Nat) /\ Len(SubSeq(frames, m, n)) = n - m + 1
         /\ \A i \in 1..n - m + 1 : SubSeq(frames, m, n)[i] = frames[m + i - 1]
BY SubSeqProperties

LEMMA JoinOf ==
  ASSUME NEW a \in Seq(Nat), NEW b \in Seq(Nat)
  PROVE  /\ a \o b \in Seq(Nat) /\ Len(a \o b) = Len(a) + Len(b)
         /\ \A i \in 1..Len(a) + Len(b) : (a \o b)[i] = IF i <= Len(a) THEN a[i] ELSE b[i - Len(a)]
BY ConcatProperties

LEMMA NumberedFrames ==
  ASSUME NEW k \in Nat, NEW n \in Nat
  PROVE  /\ [i \in 1..k |-> n + i] \in Seq(Nat) /\ Len([i \in 1..k |-> n + i]) = k
         /\ Consecutive([i \in 1..k |-> n + i], n)
<1> DEFINE f == [i \in 1..k |-> n + i]
<1>1. f \in [1..k -> Nat]
  OBVIOUS
<1>2. f \in Seq(Nat) /\ Len(f) = k
  BY <1>1
<1> QED BY <1>2 DEF Consecutive

\* Two consecutive pieces make a consecutive sequence.
LEMMA JoinConsecutive ==
  ASSUME NEW a \in Seq(Nat), NEW b \in Seq(Nat), NEW n \in Nat, Consecutive(a, n), Consecutive(b, n + Len(a))
  PROVE  Consecutive(a \o b, n)
<1>1. Len(a) \in Nat /\ Len(b) \in Nat
  BY LenProperties
<1> SUFFICES ASSUME NEW i \in 1..Len(a) + Len(b) PROVE (a \o b)[i] = n + i
  BY JoinOf DEF Consecutive
<1>2. CASE i <= Len(a)
  <2>1. (a \o b)[i] = a[i] /\ i \in 1..Len(a)
    BY <1>1, <1>2, JoinOf
  <2> QED BY <2>1 DEF Consecutive
<1>3. CASE i > Len(a)
  <2>1. (a \o b)[i] = b[i - Len(a)] /\ i - Len(a) \in 1..Len(b)
    BY <1>1, <1>3, JoinOf
  <2>2. b[i - Len(a)] = n + Len(a) + (i - Len(a))
    BY <2>1 DEF Consecutive
  <2> QED BY <1>1, <2>1, <2>2
<1> QED BY <1>1, <1>2, <1>3

\* The first k of a consecutive sequence, and the rest of it.
LEMMA SplitConsecutive ==
  ASSUME NEW a \in Seq(Nat), NEW k \in 0..Len(a), NEW n \in Nat, Consecutive(a, n)
  PROVE  /\ SubSeq(a, 1, k) \in Seq(Nat) /\ Len(SubSeq(a, 1, k)) = k /\ Consecutive(SubSeq(a, 1, k), n)
         /\ SubSeq(a, k + 1, Len(a)) \in Seq(Nat) /\ Len(SubSeq(a, k + 1, Len(a))) = Len(a) - k
         /\ Consecutive(SubSeq(a, k + 1, Len(a)), n + k)
<1>1. Len(a) \in Nat
  BY LenProperties
<1> DEFINE p == SubSeq(a, 1, k)
           q == SubSeq(a, k + 1, Len(a))
<1>2. p \in Seq(Nat) /\ Len(p) = k /\ \A i \in 1..k : p[i] = a[i]
  BY <1>1, PieceOf
<1>3. q \in Seq(Nat) /\ Len(q) = Len(a) - k /\ \A i \in 1..Len(a) - k : q[i] = a[k + i]
  <2>1. /\ q \in Seq(Nat) /\ Len(q) = Len(a) - (k + 1) + 1
        /\ \A i \in 1..Len(a) - (k + 1) + 1 : q[i] = a[k + 1 + i - 1]
    BY <1>1, PieceOf
  <2>2. Len(a) - (k + 1) + 1 = Len(a) - k
    BY <1>1
  <2>3. \A i \in 1..Len(a) - k : k + 1 + i - 1 = k + i
    BY <1>1
  <2>4. q \in Seq(Nat) /\ Len(q) = Len(a) - k /\ \A i \in 1..Len(a) - k : q[i] = a[k + 1 + i - 1]
    BY <2>1, <2>2
  <2> HIDE DEF q
  <2>5. ASSUME NEW i \in 1..Len(a) - k PROVE q[i] = a[k + i]
    BY <2>3, <2>4, <2>5
  <2> QED BY <2>4, <2>5
<1> HIDE DEF p, q
<1>4. Consecutive(p, n)
  BY <1>1, <1>2 DEF Consecutive
<1>5. Consecutive(q, n + k)
  BY <1>1, <1>3 DEF Consecutive
<1> QED BY <1>2, <1>3, <1>4, <1>5 DEF p, q

\* What a read takes from the pipe.
LEMMA ReadPipeKeeps ==
  ASSUME AlsaInv, readPipe
  PROVE  /\ AlsaBuffers' /\ asLast' \in Nat /\ CaptureInv'
         /\ \A i \in Len(asGot) + 1..Len(asGot') : asGot'[i] = asLast + i - Len(asGot)
<1> DEFINE n == Least(Len(asPipe), asWant - Len(asGot))
           frames == SubSeq(asPipe, 1, n)
<1>1. /\ asPipe \in Seq(Nat) /\ Len(asPipe) \in Nat /\ Len(asPipe) <= 2 /\ asGot \in Seq(Nat) /\ Len(asGot) \in Nat
      /\ asWant \in Int /\ asLast \in Nat
  BY LenProperties DEF AlsaInv, AlsaBuffers, AlsaNumbers, PipeFrames
<1>2. Len(asPipe) # 0
  BY <1>1, EmptySeq DEF readPipe
<1>3. n \in 1..Len(asPipe) /\ n \in 0..Len(asPipe)
  BY <1>1, <1>2 DEF readPipe, Least
<1>4. /\ asPipe' = SubSeq(asPipe, n + 1, Len(asPipe)) /\ asGot' = asGot \o frames /\ asLast' = frames[n]
      /\ IsPipe /\ IsIn /\ asWorker' = "transfer" /\ asWorker \in Running /\ UNCHANGED <<asKind, asRunning, asShut, asIo, asCaptured>>
  BY DEF readPipe, Running
<1> HIDE DEF n
<1>5. CaptureInv
  BY DEF AlsaInv
<1>6. Consecutive(asPipe, asLast) /\ IsPipe' /\ IsIn'
  BY <1>4, <1>5 DEF CaptureInv, IsPipe, IsIn
<1>7. /\ frames \in Seq(Nat) /\ Len(frames) = n /\ Consecutive(frames, asLast)
      /\ asPipe' \in Seq(Nat) /\ Len(asPipe') = Len(asPipe) - n /\ Consecutive(asPipe', asLast + n)
  BY <1>1, <1>3, <1>4, <1>6, SplitConsecutive
<1> HIDE DEF frames
<1>8. frames[n] = asLast + n
  BY <1>3, <1>7 DEF Consecutive
<1>9. asLast' = asLast + n /\ asLast' \in Nat
  BY <1>1, <1>3, <1>4, <1>8
<1>10. AlsaBuffers'
  <2>1. asGot' \in Seq(Nat)
    BY <1>1, <1>4, <1>7, JoinOf
  <2>2. Len(asPipe') <= PipeFrames
    BY <1>1, <1>3, <1>7 DEF PipeFrames
  <2> QED BY <1>4, <1>7, <2>1, <2>2 DEF AlsaInv, AlsaBuffers
<1>11. CaptureInv'
  <2>1. asLast' + Len(asPipe') = asLast + Len(asPipe)
    BY <1>1, <1>3, <1>7, <1>9
  <2>2. Consecutive(asPipe', asLast')
    BY <1>7, <1>9
  <2>3. asWorker' \notin {"standby", "open", "opening"}
    BY <1>4
  <2> QED BY <1>4, <1>5, <2>1, <2>2, <2>3 DEF CaptureInv
<1>12. ASSUME NEW i \in Len(asGot) + 1..Len(asGot') PROVE asGot'[i] = asLast + i - Len(asGot)
  <2>1. Len(asGot') = Len(asGot) + n
    BY <1>1, <1>4, <1>7, JoinOf
  <2>2. i \in 1..Len(asGot) + Len(frames) /\ ~(i <= Len(asGot)) /\ i - Len(asGot) \in 1..Len(frames)
    BY <1>1, <1>3, <1>7, <2>1
  <2>3. asGot'[i] = frames[i - Len(asGot)]
    BY <1>1, <1>4, <1>7, <2>2, JoinOf
  <2>4. frames[i - Len(asGot)] = asLast + (i - Len(asGot))
    BY <1>7, <2>2 DEF Consecutive
  <2> QED BY <1>1, <2>2, <2>3, <2>4
<1> QED BY <1>9, <1>10, <1>11, <1>12

\* A write of the worker, and one of the I/O thread, whole or in pieces.
LEMMA WritePipeKeeps == ASSUME AlsaInv, writePipe PROVE AlsaBuffers' /\ CaptureInv'
<1> DEFINE room == Least(asWant, PipeFrames - Len(asPipe))
           new == [i \in 1..room |-> asCount + i]
<1>1. /\ asPipe \in Seq(Nat) /\ Len(asPipe) \in Nat /\ Len(asPipe) <= 2 /\ asWant \in Nat /\ asCount \in Nat
  BY LenProperties DEF AlsaInv, AlsaBuffers, AlsaNumbers, PipeFrames
<1>2. room \in Nat /\ Len(asPipe) + room <= 2
  BY <1>1 DEF Least, PipeFrames
<1>3. asPipe' = asPipe \o new /\ UNCHANGED <<asGot, asIo, asKind>> /\ ~IsIn
  BY DEF writePipe
<1> HIDE DEF room
<1>4. new \in Seq(Nat) /\ Len(new) = room
  BY <1>1, <1>2, NumberedFrames
<1> HIDE DEF new
<1>5. asPipe' \in Seq(Nat) /\ Len(asPipe') <= PipeFrames
  BY <1>1, <1>2, <1>3, <1>4, JoinOf DEF PipeFrames
<1>6. ~IsIn'
  BY <1>3 DEF IsIn
<1> QED BY <1>3, <1>5, <1>6 DEF AlsaInv, AlsaBuffers, CaptureInv

LEMMA WriteSinkKeeps == ASSUME AlsaInv, writeSink PROVE AlsaBuffers' /\ CaptureInv'
<1> DEFINE left == Len(asIo.buffer)
           n == Least(left, PipeFrames - Len(asPipe))
           sent == SubSeq(asIo.buffer, 1, n)
<1>1. /\ asPipe \in Seq(Nat) /\ Len(asPipe) \in Nat /\ Len(asPipe) <= 2
      /\ asIo \in IoThread /\ asIo.buffer \in Seq(Nat) /\ left \in Nat /\ asLast \in Nat
  BY LenProperties DEF AlsaInv, AlsaBuffers, AlsaNumbers, PipeFrames, IoThread
<1>2. asIo.at = "sink" /\ UNCHANGED <<asGot, asKind, asCaptured, asRunning, asShut, asWorker, asLast>>
  BY DEF writeSink, ioThread
<1>3. (IsPipe' <=> IsPipe) /\ (IsIn' <=> IsIn)
  BY <1>2 DEF IsPipe, IsIn
<1>4. \A place \in AlsaPlaces : /\ IoAt(place) \in IoThread /\ IoAt(place).at = place
                                /\ IoAt(place).buffer = asIo.buffer
  BY <1>1 DEF IoAt, IoThread
<1>5. CASE asShut
  <2>1. asIo' = IoAt("done") /\ UNCHANGED asPipe
    BY <1>5 DEF writeSink, ioThread
  <2>2. asIo' \in IoThread /\ asIo'.at = "done"
    BY <1>4, <2>1 DEF AlsaPlaces
  <2>3. IsPipe /\ IsIn => asWorker \notin Running /\ asWorker \notin {"standby", "open", "opening"}
    BY <1>2, <1>5 DEF AlsaInv, CaptureInv
  <2> QED BY <1>1, <1>2, <1>3, <2>1, <2>2, <2>3 DEF AlsaInv, AlsaBuffers, CaptureInv
<1>6. CASE ~asShut
  <2>1. /\ n > 0 /\ asPipe' = asPipe \o sent
        /\ IF n = left THEN asIo' = IoAt("top")
           ELSE asIo' = [asIo EXCEPT !.buffer = IF IsIn THEN SubSeq(asIo.buffer, n + 1, left) ELSE SubSeq(asIo.buffer, 1, left - n)]
    BY <1>6 DEF writeSink, ioThread, makeSink
  <2>2. n \in 0..left /\ n \in Nat /\ Len(asPipe) + n <= 2
    BY <1>1, <2>1 DEF Least, PipeFrames
  <2> HIDE DEF n
  <2>3. sent \in Seq(Nat) /\ Len(sent) = n
    BY <1>1, <2>2, PieceOf
  <2>4. SubSeq(asIo.buffer, n + 1, left) \in Seq(Nat) /\ SubSeq(asIo.buffer, 1, left - n) \in Seq(Nat)
    BY SMTT(30), <1>1, <2>2, PieceOf
  <2>5. asPipe' \in Seq(Nat) /\ Len(asPipe') = Len(asPipe) + n /\ Len(asPipe') <= PipeFrames
    BY <1>1, <2>1, <2>2, <2>3, JoinOf DEF PipeFrames
  <2>6. asIo' \in IoThread
    BY <1>1, <1>4, <2>1, <2>4 DEF IoThread, AlsaPlaces
  <2>7. AlsaBuffers'
    BY <1>2, <2>5, <2>6 DEF AlsaInv, AlsaBuffers
  <2>8. ASSUME IsPipe, IsIn, asWorker \in Running
        PROVE  /\ Consecutive(asPipe', asLast) /\ asIo'.at \in {"top", "sink"}
               /\ asIo'.at = "sink" => /\ Consecutive(asIo'.buffer, asLast + Len(asPipe'))
                                       /\ asLast + Len(asPipe') + Len(asIo'.buffer) = asCaptured
               /\ asIo'.at # "sink" => asLast + Len(asPipe') = asCaptured
    <3>1. /\ Consecutive(asPipe, asLast) /\ Consecutive(asIo.buffer, asLast + Len(asPipe))
          /\ asLast + Len(asPipe) + left = asCaptured
      BY <1>2, <2>8 DEF AlsaInv, CaptureInv
    <3>2. asLast + Len(asPipe) \in Nat /\ asLast + Len(asPipe) + n = asLast + Len(asPipe')
      BY <1>1, <2>2, <2>5
    <3> DEFINE rest == SubSeq(asIo.buffer, n + 1, left)
    <3>3. /\ Consecutive(sent, asLast + Len(asPipe))
          /\ Len(rest) = left - n /\ Consecutive(rest, asLast + Len(asPipe) + n)
      BY <1>1, <2>2, <3>1, <3>2, SplitConsecutive
    <3>4. Consecutive(asPipe', asLast)
      BY <1>1, <2>1, <2>3, <3>1, <3>3, JoinConsecutive
    <3>5. CASE n = left
      <4>1. asIo'.at = "top"
        BY <1>4, <2>1, <3>5 DEF AlsaPlaces
      <4> QED BY <3>1, <3>2, <3>4, <3>5, <4>1
    <3>6. CASE n # left
      <4>1. asIo'.at = "sink" /\ asIo'.buffer = rest
        BY <1>1, <1>2, <2>1, <2>8, <3>6 DEF IoThread
      <4> HIDE DEF rest
      <4>2. asLast + Len(asPipe') + Len(rest) = asCaptured
        <5>1. Len(asPipe') = Len(asPipe) + n /\ Len(rest) = left - n /\ asLast + Len(asPipe) + left = asCaptured
          BY <2>5, <3>1, <3>3
        <5>2. Len(asPipe) \in Nat /\ left \in Nat /\ asLast \in Nat /\ n \in Nat
          BY <1>1, <2>2
        <5> HIDE DEF left
        <5> QED BY <5>1, <5>2
      <4> QED BY <3>2, <3>3, <3>4, <4>1, <4>2
    <3> QED BY <3>5, <3>6
  <2>9. IsPipe /\ IsIn => asWorker \notin {"standby", "open", "opening"}
    BY <1>2 DEF AlsaInv, CaptureInv
  <2> QED BY <1>2, <1>3, <2>7, <2>8, <2>9 DEF AlsaInv, CaptureInv
<1> QED BY <1>5, <1>6

\* The other steps of the I/O thread.
LEMMA IoThreadKeeps ==
  ASSUME AlsaInv, ioTop \/ \E ok \in BOOLEAN : inputIoThread(ok) \/ outputIoThread(ok)
  PROVE  AlsaBuffers' /\ CaptureInv'
<1>1. /\ asPipe \in Seq(Nat) /\ Len(asPipe) \in Nat /\ Len(asPipe) <= 2 /\ asCaptured \in Nat
      /\ asIo \in IoThread /\ asLast \in Nat
  BY LenProperties DEF AlsaInv, AlsaBuffers, AlsaNumbers, PipeFrames
<1>2. UNCHANGED <<asGot, asKind, asRunning, asShut, asWorker, asLast>>
  BY DEF ioTop, inputIoThread, outputIoThread, ioThread
<1>3. (IsPipe' <=> IsPipe) /\ (IsIn' <=> IsIn)
  BY <1>2 DEF IsPipe, IsIn
<1>4. \A place \in AlsaPlaces : IoAt(place) \in IoThread /\ IoAt(place).at = place
  BY <1>1 DEF IoAt, IoThread
<1>5. asIo.at # "none" /\ (IsPipe /\ IsIn => asWorker \notin {"standby", "open", "opening"})
  <2>1. asIo.at \in {"top", "pcm"}
    BY DEF ioTop, inputIoThread, outputIoThread
  <2> QED BY <2>1 DEF AlsaInv, CaptureInv
<1>6. CASE asIo' \in {IoAt("top"), IoAt("pcm")} /\ asIo.at \in {"top", "pcm"} /\ UNCHANGED <<asPipe, asCaptured>>
  <2>1. asIo' \in IoThread /\ asIo'.at \in {"top", "pcm"}
    BY <1>4, <1>6 DEF AlsaPlaces
  <2> QED BY <1>1, <1>2, <1>3, <1>5, <1>6, <2>1 DEF AlsaInv, AlsaBuffers, CaptureInv
<1>7. CASE ioTop /\ ~asRunning
  <2>1. asIo' \in IoThread /\ UNCHANGED <<asPipe, asCaptured>>
    BY <1>4, <1>7 DEF ioTop, ioThread, AlsaPlaces
  <2>2. IsPipe /\ IsIn => asWorker \notin Running
    BY <1>7 DEF AlsaInv, CaptureInv
  <2> QED BY <1>1, <1>2, <1>3, <1>5, <2>1, <2>2 DEF AlsaInv, AlsaBuffers, CaptureInv
<1>8. CASE ioTop /\ asRunning /\ ~IsIn
  <2>1. [at |-> "pcm", buffer |-> asPipe, from |-> 1] \in IoThread /\ <<>> \in Seq(Nat) /\ Len(<<>>) = 0
    BY <1>1 DEF IoThread, AlsaPlaces
  <2>2. AlsaBuffers'
    <3>1. asIo' = [at |-> "pcm", buffer |-> asPipe, from |-> 1] /\ asPipe' = <<>>
      BY <1>8 DEF ioTop, ioThread
    <3> QED BY <1>2, <2>1, <3>1 DEF AlsaInv, AlsaBuffers, PipeFrames
  <2> QED BY <1>3, <1>8, <2>2 DEF CaptureInv
<1>9. CASE \E ok \in BOOLEAN : inputIoThread(ok) /\ ok
  <2> DEFINE new == [i \in 1..PipeFrames |-> asCaptured + i]
  <2>1. /\ asIo' = [at |-> "sink", from |-> 1, buffer |-> new] /\ UNCHANGED asPipe
        /\ asCaptured' = asCaptured + PipeFrames /\ asIo.at = "pcm"
    BY <1>9 DEF inputIoThread, ioThread
  <2>2. new \in Seq(Nat) /\ Len(new) = PipeFrames /\ Consecutive(new, asCaptured)
    BY <1>1, NumberedFrames DEF PipeFrames
  <2> HIDE DEF new
  <2>3. asIo' \in IoThread /\ asIo'.at = "sink" /\ asIo'.buffer = new
    BY <2>1, <2>2 DEF IoThread, AlsaPlaces
  <2>4. AlsaBuffers'
    BY <1>1, <1>2, <2>1, <2>3 DEF AlsaInv, AlsaBuffers, PipeFrames
  <2>5. ASSUME IsPipe, IsIn, asWorker \in Running
        PROVE  /\ Consecutive(asPipe, asLast) /\ asLast + Len(asPipe) = asCaptured /\ asRunning /\ ~asShut
    BY <2>1, <2>5 DEF AlsaInv, CaptureInv
  <2>6. asLast + Len(asPipe) + Len(new) = asCaptured' \/ ~(IsPipe /\ IsIn /\ asWorker \in Running)
    BY <1>1, <2>1, <2>2, <2>5 DEF PipeFrames
  <2> QED BY <1>2, <1>3, <1>5, <2>1, <2>2, <2>3, <2>4, <2>5, <2>6 DEF CaptureInv
<1>10. CASE \E ok \in BOOLEAN : outputIoThread(ok)
  <2>1. asIo' = IoAt("top") /\ UNCHANGED asPipe /\ ~IsIn
    BY <1>10 DEF outputIoThread, ioThread
  <2>2. asIo' \in IoThread
    BY <1>4, <2>1 DEF AlsaPlaces
  <2> QED BY <1>1, <1>2, <1>3, <2>1, <2>2 DEF AlsaInv, AlsaBuffers, CaptureInv
<1> QED BY <1>6, <1>7, <1>8, <1>9, <1>10 DEF ioTop, inputIoThread, ioThread

\* The start of the devices, and the standby that ends with them.
LEMMA OpenKeeps ==
  ASSUME AlsaInv, NEW ok \in BOOLEAN, openDeviceProxies(ok) PROVE AlsaBuffers' /\ CaptureInv'
<1>1. /\ asIo' = (IF ok /\ IsPipe THEN [NoThread EXCEPT !.at = "top"] ELSE NoThread)
      /\ UNCHANGED <<asKind, asPipe, asGot, asCaptured>> /\ asShut' = FALSE /\ asRunning' = (ok /\ IsPipe)
      /\ asWorker' = (IF ok THEN "idle" ELSE "error") /\ asLast' = asCaptured /\ asWorker = "opening"
  BY DEF openDeviceProxies
<1>2. [NoThread EXCEPT !.at = "top"] \in IoThread /\ [NoThread EXCEPT !.at = "top"].at = "top"
  BY NoThreadIs DEF IoThread, AlsaPlaces
<1>3. AlsaBuffers'
  BY <1>1, <1>2, NoThreadIs DEF AlsaInv, AlsaBuffers
<1>4. (IsPipe' <=> IsPipe) /\ (IsIn' <=> IsIn)
  BY <1>1 DEF IsPipe, IsIn
<1>5. CASE ok /\ IsPipe /\ IsIn
  <2>1. asPipe' = <<>>
    BY <1>1, <1>5 DEF AlsaInv, CaptureInv
  <2>2. Consecutive(asPipe', asLast') /\ Len(asPipe') = 0
    BY <2>1 DEF Consecutive
  <2>3. asCaptured \in Nat
    BY DEF AlsaInv, AlsaNumbers
  <2>4. asWorker' = "idle" /\ asIo'.at = "top" /\ asRunning' /\ ~asShut'
    BY <1>1, <1>2, <1>5
  <2>5. asLast' + Len(asPipe') = asCaptured'
    BY <1>1, <2>2, <2>3
  <2> QED BY <1>3, <2>2, <2>4, <2>5 DEF CaptureInv
<1>6. CASE ~(ok /\ IsPipe /\ IsIn)
  BY <1>1, <1>3, <1>4, <1>6 DEF CaptureInv, Running
<1> QED BY <1>5, <1>6

LEMMA StandbyKeeps == ASSUME AlsaInv, alsaStandby PROVE AlsaBuffers' /\ CaptureInv'
<1>1. /\ asPipe' = <<>> /\ asIo' = NoThread /\ asWorker' \in {"standby", "closed"} /\ asGot' = asGot
  BY DEF alsaStandby
<1>2. <<>> \in Seq(Nat) /\ Len(<<>>) <= PipeFrames
  BY DEF PipeFrames
<1> QED BY <1>1, <1>2, NoThreadIs DEF AlsaInv, AlsaBuffers, CaptureInv, Running

\* The other steps of the worker leave the pipe and its thread alone.
LEMMA WorkerKeeps ==
  ASSUME AlsaInv, UNCHANGED <<asKind, asPipe, asIo, asCaptured, asLast>>, asGot' \in {asGot, <<>>},
         \/ asWorker' = asWorker /\ UNCHANGED <<asRunning, asShut>>
         \/ asWorker \in Running /\ asWorker' \in Running /\ UNCHANGED <<asRunning, asShut>>
         \/ asWorker \in {"standby", "open"} /\ asWorker' \in {"open", "opening"}
         \/ asWorker' \in {"error", "join", "exit"}
  PROVE  AlsaBuffers' /\ CaptureInv'
<1>1. AlsaBuffers'
  <2>1. <<>> \in Seq(Nat) /\ asGot \in Seq(Nat)
    BY DEF AlsaInv, AlsaBuffers
  <2>2. asGot' \in Seq(Nat)
    BY <2>1
  <2> QED BY <2>2 DEF AlsaInv, AlsaBuffers
<1>2. (IsPipe' <=> IsPipe) /\ (IsIn' <=> IsIn)
  BY DEF IsPipe, IsIn
<1> QED BY <1>1, <1>2 DEF AlsaInv, CaptureInv, Running

LEMMA BuffersStep == ASSUME AlsaInv, AlsaStreamNext PROVE AlsaBuffers' /\ CaptureInv'
<1>1. CASE readPipe
  BY <1>1, ReadPipeKeeps
<1>2. CASE writePipe \/ ioSteps
  BY <1>2, WritePipeKeeps, WriteSinkKeeps, IoThreadKeeps DEF ioSteps
<1>3. CASE alsaStandby \/ \E ok \in BOOLEAN : openDeviceProxies(ok)
  BY <1>3, StandbyKeeps, OpenKeeps
<1>4. CASE alsaStart \/ getDeviceProfiles
  BY <1>4, WorkerKeeps DEF alsaStart, getDeviceProfiles, asIoVars
<1>5. CASE \E devices \in SUBSET AlsaDevices : usbSetConnectedDevices(devices)
  BY <1>5, WorkerKeeps DEF usbSetConnectedDevices, asIoVars
<1>6. CASE (\E n \in 1..PipeFrames : beginTransfer(n)) \/ endTransfer
  BY <1>6, WorkerKeeps DEF beginTransfer, endTransfer, asIoVars, Running
<1>7. CASE \E ok \in BOOLEAN : writeDevice(ok) \/ readDevice(ok)
  BY <1>7, WorkerKeeps DEF writeDevice, readDevice, asIoVars, Running
<1>8. CASE \E next \in {"join", "exit"} : teardownIo(next)
  BY <1>8, WorkerKeeps DEF teardownIo, asIoVars
<1>9. CASE alsaDevice \/ refinePosition
  BY <1>9, WorkerKeeps DEF alsaDevice, refinePosition, asIoVars
<1> QED BY <1>1, <1>2, <1>3, <1>4, <1>5, <1>6, <1>7, <1>8, <1>9 DEF AlsaStreamNext

\* What the steps do to the counters.
LEMMA AlsaNumbersStep == ASSUME AlsaInv, AlsaStreamNext PROVE AlsaNumbers'
<1>1. /\ asCaptured \in Nat /\ asLast \in Nat /\ asCount \in Nat /\ asWant \in 0..2 /\ asQueued \in 0..2
      /\ asOverrun \in 0..1 /\ asPosition \in Int
  BY DEF AlsaInv, AlsaNumbers, PipeFrames, KernelFrames
<1>2. asCaptured' \in {asCaptured, asCaptured + PipeFrames} /\ asCount' \in {asCount, asCount + asWant}
  BY DEF AlsaStreamNext, alsaStart, getDeviceProfiles, openDeviceProxies,
    usbSetConnectedDevices, beginTransfer, readPipe, endTransfer, writePipe, writeDevice, readDevice,
    ioSteps, ioTop, inputIoThread, outputIoThread, writeSink, ioThread, teardownIo,
    alsaStandby, alsaDevice, refinePosition, asIoVars
<1>3. asLast' \in {asLast, asCaptured} \/ readPipe
  BY DEF AlsaStreamNext, alsaStart, getDeviceProfiles, openDeviceProxies,
    usbSetConnectedDevices, beginTransfer, readPipe, endTransfer, writePipe, writeDevice, readDevice,
    ioSteps, ioTop, inputIoThread, outputIoThread, writeSink, ioThread, teardownIo,
    alsaStandby, alsaDevice, refinePosition, asIoVars
<1>4. asLast' \in Nat
  BY <1>1, <1>3, ReadPipeKeeps
<1>5. asWant' \in {asWant} \union 1..PipeFrames /\ asOverrun' \in {asOverrun, 0, 1}
  BY DEF AlsaStreamNext, alsaStart, getDeviceProfiles, openDeviceProxies,
    usbSetConnectedDevices, beginTransfer, readPipe, endTransfer, writePipe, writeDevice, readDevice,
    ioSteps, ioTop, inputIoThread, outputIoThread, writeSink, ioThread, teardownIo,
    alsaStandby, alsaDevice, refinePosition, asIoVars
<1>6. asQueued' \in 0..2
  <2>1. \/ UNCHANGED asQueued \/ asQueued' = 0
        \/ \E ok \in BOOLEAN : writeDevice(ok) \/ readDevice(ok)
        \/ \E ok \in BOOLEAN : outputIoThread(ok)
        \/ alsaDevice
    BY DEF AlsaStreamNext, alsaStart, getDeviceProfiles, openDeviceProxies,
    usbSetConnectedDevices, beginTransfer, readPipe, endTransfer, writePipe, writeDevice, readDevice,
    ioSteps, ioTop, inputIoThread, outputIoThread, writeSink, ioThread, teardownIo,
    alsaStandby, alsaDevice, refinePosition, asIoVars
  <2>2. CASE \E ok \in BOOLEAN : writeDevice(ok) \/ readDevice(ok)
    BY <1>1, <2>2 DEF writeDevice, readDevice, KernelFrames
  <2>3. CASE \E ok \in BOOLEAN : outputIoThread(ok)
    <3>1. Len(asIo.buffer) \in Nat
      BY LenProperties DEF AlsaInv, AlsaBuffers, IoThread
    <3> QED BY <1>1, <2>3, <3>1 DEF outputIoThread, KernelFrames
  <2>4. CASE alsaDevice
    BY <1>1, <2>4 DEF alsaDevice, KernelFrames
  <2> QED BY <1>1, <2>1, <2>2, <2>3, <2>4
<1>7. asPosition' \in Int
  <2>1. UNCHANGED asPosition \/ asPosition' = NoPosition \/ refinePosition
    BY DEF AlsaStreamNext, alsaStart, getDeviceProfiles, openDeviceProxies,
    usbSetConnectedDevices, beginTransfer, readPipe, endTransfer, writePipe, writeDevice, readDevice,
    ioSteps, ioTop, inputIoThread, outputIoThread, writeSink, ioThread, teardownIo,
    alsaStandby, alsaDevice, refinePosition, asIoVars
  <2>2. CASE refinePosition
    BY <1>1, <2>2 DEF refinePosition, capturePosition, presentationPosition, Clamped, Least, Available, KernelFrames
  <2> QED BY <1>1, <2>1, <2>2 DEF NoPosition
<1> QED BY <1>1, <1>2, <1>4, <1>5, <1>6, <1>7 DEF AlsaNumbers, PipeFrames, KernelFrames

LEMMA FedInvStep == ASSUME AlsaInv, AlsaStreamNext PROVE FedInv'
<1>1. FedInv /\ (IsPipe' <=> IsPipe)
  <2>1. asKind' = asKind
    BY DEF AlsaStreamNext, alsaStart, getDeviceProfiles, openDeviceProxies,
    usbSetConnectedDevices, beginTransfer, readPipe, endTransfer, writePipe, writeDevice, readDevice,
    ioSteps, ioTop, inputIoThread, outputIoThread, writeSink, ioThread, teardownIo,
    alsaStandby, alsaDevice, refinePosition, asIoVars
  <2> QED BY <2>1 DEF AlsaInv, IsPipe
<1>2. CASE getDeviceProfiles
  BY <1>2 DEF getDeviceProfiles, FedInv
<1>3. CASE \E ok \in BOOLEAN : openDeviceProxies(ok)
  BY <1>1, <1>3 DEF openDeviceProxies, FlagOnceOpen, FedInv
<1>4. CASE \E devices \in SUBSET AlsaDevices : usbSetConnectedDevices(devices)
  BY <1>4 DEF usbSetConnectedDevices, FedInv
<1>5. CASE UNCHANGED <<asUpdated, asProxies, asConnected>> /\
           (asWorker' \in {"opening", "idle", "checked"} => asWorker \in {"opening", "idle", "checked"})
  BY <1>1, <1>5 DEF FedInv
<1>6. CASE readPipe \/ writePipe \/ endTransfer
  BY <1>1, <1>6 DEF readPipe, writePipe, endTransfer, FedInv
<1>7. CASE alsaStart \/ alsaStandby \/ \E next \in {"join", "exit"} : teardownIo(next)
  BY <1>7 DEF alsaStart, alsaStandby, teardownIo, FedInv
<1>8. CASE \/ \E n \in 1..PipeFrames : beginTransfer(n)
           \/ \E ok \in BOOLEAN : writeDevice(ok) \/ readDevice(ok)
           \/ ioSteps \/ alsaDevice \/ refinePosition
  BY <1>5, <1>8 DEF beginTransfer, writeDevice, readDevice, ioSteps, ioTop, inputIoThread, outputIoThread,
                    writeSink, ioThread, alsaDevice, refinePosition
<1> QED BY <1>2, <1>3, <1>4, <1>6, <1>7, <1>8 DEF AlsaStreamNext

LEMMA IoInvStep == ASSUME AlsaInv, AlsaStreamNext PROVE IoInv'
<1>1. IsPipe' <=> IsPipe
  <2>1. asKind' = asKind
    BY DEF AlsaStreamNext, alsaStart, getDeviceProfiles, openDeviceProxies,
    usbSetConnectedDevices, beginTransfer, readPipe, endTransfer, writePipe, writeDevice, readDevice,
    ioSteps, ioTop, inputIoThread, outputIoThread, writeSink, ioThread, teardownIo,
    alsaStandby, alsaDevice, refinePosition, asIoVars
  <2> QED BY <2>1 DEF IsPipe
<1>2. CASE alsaStandby \/ \E ok \in BOOLEAN : openDeviceProxies(ok)
  BY <1>1, <1>2, NoThreadIs DEF alsaStandby, openDeviceProxies, IoInv
<1>3. CASE ioSteps
  <2>1. asIo.at # "none"
    BY <1>3 DEF ioSteps, ioTop, inputIoThread, outputIoThread, writeSink
  <2> QED BY <1>1, <2>1 DEF AlsaInv, IoInv
<1>4. asIo' = asIo \/ ioSteps \/ alsaStandby \/ \E ok \in BOOLEAN : openDeviceProxies(ok)
  BY DEF AlsaStreamNext, alsaStart, getDeviceProfiles, openDeviceProxies,
    usbSetConnectedDevices, beginTransfer, readPipe, endTransfer, writePipe, writeDevice, readDevice,
    ioSteps, ioTop, inputIoThread, outputIoThread, writeSink, ioThread, teardownIo,
    alsaStandby, alsaDevice, refinePosition, asIoVars
<1> QED BY <1>1, <1>2, <1>3, <1>4 DEF AlsaInv, IoInv

\* A transfer moves frames from the one counter to the other, the device adds to what can be
\* read or takes from what was written: the position grows or stays.
LEMMA ReportedGrows ==
  ASSUME AlsaInv, AlsaStreamNext, ~IsPipe, asPosition' # NoPosition
  PROVE  Reported \in Int /\ Reported' \in Int /\ Reported' >= Reported
<1>1. /\ asCount \in Nat /\ asWant \in 0..2 /\ asQueued \in 0..2 /\ asOverrun \in 0..1
      /\ (asOverrun = 0 \/ asQueued = 0) /\ (IsIn => asOverrun = 0)
  BY DEF AlsaInv, AlsaNumbers, PositionInv, PipeFrames, KernelFrames
<1>2. ~IsPipe' /\ (IsIn' <=> IsIn)
  <2>1. asKind' = asKind
    BY DEF AlsaStreamNext, alsaStart, getDeviceProfiles, openDeviceProxies,
    usbSetConnectedDevices, beginTransfer, readPipe, endTransfer, writePipe, writeDevice, readDevice,
    ioSteps, ioTop, inputIoThread, outputIoThread, writeSink, ioThread, teardownIo,
    alsaStandby, alsaDevice, refinePosition, asIoVars
  <2> QED BY <2>1 DEF IsPipe, IsIn
<1> USE DEF Reported, capturePosition, presentationPosition, Clamped, Least, Available, KernelFrames
<1>3. CASE UNCHANGED <<asCount, asQueued, asOverrun>>
  BY <1>1, <1>2, <1>3
<1>4. CASE \E ok \in BOOLEAN : writeDevice(ok)
  <2>1. PICK ok \in BOOLEAN : writeDevice(ok)
    BY <1>4
  <2> QED BY <1>1, <1>2, <2>1 DEF writeDevice
<1>5. CASE \E ok \in BOOLEAN : readDevice(ok)
  BY <1>1, <1>2, <1>5 DEF readDevice
<1>6. CASE alsaDevice
  BY <1>1, <1>2, <1>6 DEF alsaDevice
<1>7. ~alsaStandby /\ ~ \E ok \in BOOLEAN : openDeviceProxies(ok)
  BY DEF alsaStandby, openDeviceProxies, AlsaInv, PositionInv
<1>8. \/ UNCHANGED <<asCount, asQueued, asOverrun>> \/ alsaDevice
      \/ \E ok \in BOOLEAN : writeDevice(ok) \/ readDevice(ok)
      \/ readPipe \/ writePipe \/ endTransfer \/ \E ok \in BOOLEAN : outputIoThread(ok)
  BY <1>7 DEF AlsaStreamNext, alsaStart, getDeviceProfiles, openDeviceProxies,
    usbSetConnectedDevices, beginTransfer, readPipe, endTransfer, writePipe, writeDevice, readDevice,
    ioSteps, ioTop, inputIoThread, outputIoThread, writeSink, ioThread, teardownIo,
    alsaStandby, alsaDevice, refinePosition, asIoVars
<1>9. ~(readPipe \/ writePipe \/ endTransfer)
  BY DEF readPipe, writePipe, endTransfer
<1>10. ~ \E ok \in BOOLEAN : outputIoThread(ok)
  BY DEF AlsaInv, IoInv, outputIoThread
<1> QED BY <1>3, <1>4, <1>5, <1>6, <1>8, <1>9, <1>10

LEMMA PositionInvStep ==
  ASSUME AlsaInv, AlsaStreamNext
  PROVE  PositionInv' /\ (~IsPipe /\ asPosition' # NoPosition => asPosition' >= asPosition)
<1>1. /\ asQueued \in 0..2 /\ asOverrun \in 0..1 /\ asPosition \in Int /\ PositionInv
  BY DEF AlsaInv, AlsaNumbers, KernelFrames
<1>2. (IsPipe' <=> IsPipe) /\ (IsIn' <=> IsIn)
  <2>1. asKind' = asKind
    BY DEF AlsaStreamNext, alsaStart, getDeviceProfiles, openDeviceProxies,
    usbSetConnectedDevices, beginTransfer, readPipe, endTransfer, writePipe, writeDevice, readDevice,
    ioSteps, ioTop, inputIoThread, outputIoThread, writeSink, ioThread, teardownIo,
    alsaStandby, alsaDevice, refinePosition, asIoVars
  <2> QED BY <2>1 DEF IsPipe, IsIn
<1>3. \/ asPosition' = asPosition /\ ~refinePosition
      \/ asPosition' = NoPosition
      \/ /\ refinePosition /\ asPosition' = Reported /\ asPosition' >= 0
         /\ UNCHANGED <<asKind, asCount, asQueued, asOverrun>>
  BY DEF Reported, AlsaStreamNext, alsaStart, getDeviceProfiles, openDeviceProxies,
    usbSetConnectedDevices, beginTransfer, readPipe, endTransfer, writePipe, writeDevice, readDevice,
    ioSteps, ioTop, inputIoThread, outputIoThread, writeSink, ioThread, teardownIo,
    alsaStandby, alsaDevice, refinePosition, asIoVars
<1>4. ASSUME asPosition' # NoPosition PROVE asWorker' \notin {"standby", "open", "opening"}
  <2>1. CASE refinePosition
    BY <2>1 DEF refinePosition
  <2>2. CASE asPosition' = asPosition
    <3>1. asWorker \notin {"standby", "open", "opening"} /\ ~alsaStandby
      BY <1>1, <1>4, <2>2 DEF PositionInv, alsaStandby
    <3> QED BY <3>1 DEF AlsaStreamNext, alsaStart, getDeviceProfiles, openDeviceProxies,
    usbSetConnectedDevices, beginTransfer, readPipe, endTransfer, writePipe, writeDevice, readDevice,
    ioSteps, ioTop, inputIoThread, outputIoThread, writeSink, ioThread, teardownIo,
    alsaStandby, alsaDevice, refinePosition, asIoVars
  <2> QED BY <1>3, <1>4, <2>1, <2>2
<1>5. (IsIn' => asOverrun' = 0) /\ (~IsPipe' => asOverrun' = 0 \/ asQueued' = 0)
  <2>1. CASE UNCHANGED <<asOverrun, asQueued>> \/ (asQueued' = 0 /\ asOverrun' \in {asOverrun, 0})
    BY <1>1, <1>2, <2>1 DEF PositionInv
  <2>2. CASE \E ok \in BOOLEAN : writeDevice(ok) \/ readDevice(ok)
    BY <1>1, <1>2, <2>2 DEF PositionInv, writeDevice, readDevice
  <2>3. CASE alsaDevice
    BY <1>1, <1>2, <2>3 DEF PositionInv, alsaDevice
  <2>4. CASE \E ok \in BOOLEAN : outputIoThread(ok)
    BY <1>1, <1>2, <2>4 DEF PositionInv, AlsaInv, IoInv, outputIoThread, ioThread
  <2>5. \/ UNCHANGED <<asOverrun, asQueued>> \/ (asQueued' = 0 /\ asOverrun' \in {asOverrun, 0})
        \/ alsaDevice \/ (\E ok \in BOOLEAN : outputIoThread(ok))
        \/ \E ok \in BOOLEAN : writeDevice(ok) \/ readDevice(ok)
    BY DEF AlsaStreamNext, alsaStart, getDeviceProfiles, openDeviceProxies,
    usbSetConnectedDevices, beginTransfer, readPipe, endTransfer, writePipe, writeDevice, readDevice,
    ioSteps, ioTop, inputIoThread, outputIoThread, writeSink, ioThread, teardownIo,
    alsaStandby, alsaDevice, refinePosition, asIoVars
  <2> QED BY <2>1, <2>2, <2>3, <2>4, <2>5
<1>6. ASSUME ~IsPipe, asPosition' # NoPosition
      PROVE  Reported' \in Int /\ asPosition' <= Reported' /\ asPosition' >= asPosition
  <2>1. Reported \in Int /\ Reported' \in Int /\ Reported' >= Reported
    BY <1>6, ReportedGrows
  <2>2. asPosition <= Reported \/ asPosition = NoPosition
    BY <1>1, <1>6 DEF PositionInv
  <2>3. CASE asPosition' = asPosition
    BY <1>1, <1>6, <2>1, <2>2, <2>3
  <2>4. CASE asPosition' = Reported /\ asPosition' >= 0
    BY <1>1, <2>1, <2>2, <2>4 DEF NoPosition
  <2> QED BY <1>3, <1>6, <2>3, <2>4
<1>7. asPosition' >= NoPosition
  <2>1. CASE asPosition' = asPosition \/ asPosition' = NoPosition
    BY <1>1, <2>1 DEF PositionInv, NoPosition
  <2>2. CASE asPosition' = Reported /\ asPosition' >= 0
    <3>1. asPosition' \in Int
      BY AlsaNumbersStep DEF AlsaNumbers
    <3> QED BY <2>2, <3>1 DEF NoPosition
  <2> QED BY <1>3, <2>1, <2>2
<1> QED BY <1>2, <1>4, <1>5, <1>6, <1>7 DEF PositionInv

LEMMA AlsaInvStep ==
  ASSUME AlsaInv, [AlsaStreamNext]_asVars
  PROVE  /\ AlsaInv'
         /\ ~IsPipe /\ asPosition' # NoPosition => asPosition' >= asPosition
         /\ asLast' # asLast /\ asGot' # asGot /\ IsPipe =>
              \A i \in Len(asGot) + 1..Len(asGot') : asGot'[i] = asLast + i - Len(asGot)
<1>1. CASE AlsaStreamNext
  <2>1. AlsaInv'
    BY <1>1, AlsaFlagsStep, AlsaSetsStep, AlsaNumbersStep, BuffersStep, IoInvStep, FedInvStep, PositionInvStep
       DEF AlsaInv
  <2>2. asLast' # asLast /\ asGot' # asGot => readPipe
    BY <1>1 DEF AlsaStreamNext, alsaStart, getDeviceProfiles, openDeviceProxies,
    usbSetConnectedDevices, beginTransfer, readPipe, endTransfer, writePipe, writeDevice, readDevice,
    ioSteps, ioTop, inputIoThread, outputIoThread, writeSink, ioThread, teardownIo,
    alsaStandby, alsaDevice, refinePosition, asIoVars
  <2> QED BY <1>1, <2>1, <2>2, PositionInvStep, ReadPipeKeeps
<1>2. CASE UNCHANGED asVars
  <2>1. AlsaInv'
    BY <1>2 DEF asVars, asIoVars, AlsaInv, AlsaFlags, AlsaSets, AlsaNumbers, AlsaBuffers, IoInv, FedInv, PositionInv,
      Reported, capturePosition, presentationPosition, Available, Clamped, CaptureInv, IsPipe, IsIn
  <2>2. asPosition' = asPosition /\ asLast' = asLast /\ asPosition \in Int
    BY <1>2 DEF asVars, AlsaInv, AlsaNumbers
  <2> QED BY <2>1, <2>2
<1> QED BY <1>1, <1>2

--------------------------------------------------------------------------------
(* The streams of MCStreams: each step is one of the stream's own or leaves it alone. *)
StreamsInv == DriverStateInv /\ FramesInv /\ PortInv /\ FxInv /\ AlsaInv

LEMMA StreamsInvInit == Init => StreamsInv
BY InitDriverStateInv, FramesInvInit, PortInvInit, FxInvInit, AlsaInvInit DEF Init, StreamsInv

LEMMA StreamSteps ==
  [Next]_streamVars => [InputNext]_inVars /\ [BtNext]_btVars /\ [AlsaStreamNext]_asVars /\ [FxNext]_fxVars
BY DEF Next, Input, Port, Alsa, Instance, streamVars

LEMMA StreamsInvStep == StreamsInv /\ [Next]_streamVars => StreamsInv'
<1> SUFFICES ASSUME StreamsInv, [Next]_streamVars PROVE StreamsInv'
  OBVIOUS
<1>1. DriverStateInv' /\ FramesInv' /\ PortInv' /\ FxInv' /\ AlsaInv'
  BY StreamSteps, NextDriverStateInv, FramesInvStep, PortInvStep, FxInvStep, AlsaInvStep DEF StreamsInv
<1> QED BY <1>1 DEF StreamsInv

LEMMA StreamsInvariant == StreamsSpec => []StreamsInv
BY StreamsInvInit, StreamsInvStep, PTL DEF StreamsSpec

(* No order of commands, failures, connects and closes brings the driver of an     *)
(* input to a call that stops the process, however long the capture is             *)
(* (DriverStubImpl.cpp, StreamInWorkerLogic::cycle()).                             *)
THEOREM DriverIsNotBroken == StreamsSpec => []DriverCallsAllowed
<1>1. StreamsInv => DriverCallsAllowed
  BY DEF StreamsInv, DriverStateInv
<1> QED BY StreamsInvariant, <1>1, PTL

(* While a Bluetooth stream starts its session or moves data, no other thread of   *)
(* the service is in a call of the port, and the profile and the port stay, over   *)
(* the releases of the port's mutex and whatever the stack does between them        *)
(* (StreamBluetooth.cpp, DevicePortProxy.cpp).                                     *)
THEOREM PortIsNotShared == StreamsSpec => []OneCallAtATime
<1>1. StreamsInv => OneCallAtATime
  BY OneCall DEF StreamsInv
<1> QED BY StreamsInvariant, <1>1, PTL

(* Whatever formats, reopens, commands and closes come between the bursts of an    *)
(* effect, a burst fits the work buffer, and a stopped effect takes none            *)
(* (EffectImpl.cpp, EffectContext.cpp, EffectThread.cpp).                          *)
THEOREM BurstsAreKept == StreamsSpec => EffectBurstsAreKept
<1>1. StreamsInv => FxTypeOK /\ BurstFits
  BY BurstsFit DEF StreamsInv, FxInv, FxTypes
<1>2. StreamsInv /\ [Next]_streamVars =>
        [fxThread = "process" /\ fxKind # "downmix" /\ fxState # "PROCESSING" /\ fxThread' # "process"
           => fxData' = fxData]_fxVars
  BY StreamSteps, FxInvStep DEF StreamsInv
<1> QED BY StreamsInvariant, <1>1, <1>2, PTL DEF StreamsSpec, EffectBurstsAreKept, StoppedEffectsTakeNothing

(* Frames and positions go on, for every number of frames and devices: through the *)
(* restarts of shared memory, partial writes and reads of the pipe, underruns and  *)
(* failed transfers, and never to devices that a connect replaced                  *)
(* (StreamMmapStub.cpp, StreamAlsaMonoPipe.cpp, StreamUsb.cpp).                       *)
THEOREM FramesGoOn == StreamsSpec => FramesContinue
<1>1. StreamsInv => InputTypeOK /\ AlsaStreamTypeOK /\ FedDevicesAreConnected
  BY AlsaTypeParts DEF StreamsInv, FramesInv, AlsaInv, FedInv, FedDevicesAreConnected
<1>2. StreamsInv /\ [Next]_streamVars =>
        [(inFrames' # inFrames /\ inFrames' # Unknown) => inFrames' >= inLastFrames]_inVars
  BY StreamSteps, FramesInvStep DEF StreamsInv
<1>3. StreamsInv /\ [Next]_streamVars =>
        [~IsPipe /\ asPosition' # NoPosition => asPosition' >= asPosition]_asVars
  BY StreamSteps, AlsaInvStep DEF StreamsInv
<1>4. StreamsInv /\ [Next]_streamVars =>
        [asLast' # asLast /\ asGot' # asGot /\ IsPipe =>
           \A i \in Len(asGot) + 1..Len(asGot') : asGot'[i] = asLast + i - Len(asGot)]_asVars
  BY StreamSteps, AlsaInvStep DEF StreamsInv
<1> QED BY StreamsInvariant, <1>1, <1>2, <1>3, <1>4, PTL
       DEF StreamsSpec, FramesContinue, PositionContinues, PositionNeverGoesBack, CapturedInOrder
================================================================================
