------------------------------- MODULE StreamInput -------------------------------
(* An input stream: the client that sends one command at a time through queues *)
(* of one element, the worker that reads them, the binder thread that connects *)
(* and closes the stream, and the stub driver under the worker, plain or with  *)
(* shared memory that a DSP thread fills.                                       *)
EXTENDS Naturals, FiniteSets
CONSTANT InputFrames  \* bound: frames that the DSP delivers
ASSUME InputFramesAssumption == InputFrames \in Nat

VARIABLES
  inKind,       \* "stub" or "mmap"
  inState,      \* mState
  inConnected,  \* mIsConnected
  inDriver,     \* "uninitialized", "standby" or "started"
  inBroken,     \* a driver's LOG(FATAL) was reached
  inCommand,    \* the command queue: an element or "none"
  inReply,      \* the reply queue: whether it holds one
  inWorker,     \* "run", "read", "reply", "exited" or "aborted"
  inRunning,    \* the command being run
  inClient,     \* "idle", "waits" or "dead"
  inCloser,     \* the thread in close(): "idle", "stop", "join" or "closed"
  inDsp,        \* the DSP thread: "none", "running" or "paused"
  inMapping,    \* the mapped buffers; the one in sharedMemory is the last
  inMemBegin,   \* the one that the DSP thread writes to
  inFrames, inLastFrames  \* mmapPos.frames and mLastFrames

inDspVars == <<inDsp, inMapping, inMemBegin, inFrames, inLastFrames>>
inQueues == <<inCommand, inReply, inClient>>
inVars == <<inKind, inState, inConnected, inDriver, inBroken, inQueues, inWorker,
            inRunning, inCloser, inDspVars>>

InCommands == {"getStatus", "start", "burst", "drain", "standby", "pause", "flush",
               "flushFromFrame", "exitBadCookie", "exitZeroCookie"}
InStates == {"STANDBY", "IDLE", "ACTIVE", "PAUSED", "DRAINING", "ERROR", "CLOSED"}
NoMemory == 0
Unknown == 0

InputTypeOK ==
  /\ inKind \in {"stub", "mmap"} /\ inState \in InStates /\ inConnected \in BOOLEAN
  /\ inDriver \in {"uninitialized", "standby", "started"} /\ inReply \in BOOLEAN
  /\ inCommand \in InCommands \union {"none", "exit"}
  /\ inMapping \in 0..2 /\ inFrames \in 0..InputFrames + 1

InputInit ==
  /\ inKind \in {"stub", "mmap"} /\ inState = "STANDBY" /\ inConnected = FALSE
  /\ inDriver = "standby" /\ inBroken = FALSE
  /\ inCommand = "none" /\ inReply = FALSE /\ inClient = "idle"
  /\ inWorker = "read" /\ inRunning = "none" /\ inCloser = "idle"
  /\ inDsp = "none" /\ inMapping = NoMemory /\ inMemBegin = NoMemory
  /\ inFrames = Unknown /\ inLastFrames = 1

----------------------------------------------------------------------------------
(* The client *)
Send(c) ==
  /\ inClient = "idle" /\ inCommand = "none" /\ inCloser # "closed"
  /\ inCommand' = c
  /\ inClient' = IF c = "exitBadCookie" THEN "idle" ELSE "waits"
  /\ UNCHANGED <<inKind, inState, inConnected, inDriver, inBroken, inReply, inWorker,
                 inRunning, inCloser, inDspVars>>
ReceiveReply ==
  /\ inClient = "waits" /\ inReply
  /\ inReply' = FALSE /\ inClient' = "idle"
  /\ UNCHANGED <<inKind, inState, inConnected, inDriver, inBroken, inCommand, inWorker,
                 inRunning, inCloser, inDspVars>>
ClientIsGone ==
  /\ inClient # "dead" /\ inClient' = "dead"
  /\ UNCHANGED <<inKind, inState, inConnected, inDriver, inBroken, inCommand, inReply,
                 inWorker, inRunning, inCloser, inDspVars>>

----------------------------------------------------------------------------------
(* The driver, for the call that a command leads to *)
releaseSharedMemory == inMapping' = NoMemory
PauseDsp == inDsp' = IF inDsp = "running" THEN "paused" ELSE inDsp
\* startWorkerIfNeeded() and resume().
RunDsp == inDsp' = "running"

Drive(call) ==
  /\ inBroken' = (inBroken \/ inDriver = "uninitialized"
                  \/ (call = "transfer" /\ inDriver = "standby"))
  /\ inDriver' = CASE call = "start" -> "started"
                   [] call = "standby" \/ (call = "flush" /\ inKind = "mmap") -> "standby"
                   [] call = "shutdown" -> "uninitialized"
                   [] OTHER -> inDriver
  /\ IF inKind = "stub" THEN UNCHANGED inDspVars
     ELSE /\ CASE call \in {"start", "transfer"} -> RunDsp
               [] call \in {"drain", "pause", "flush"} -> PauseDsp
               [] call = "shutdown" -> inDsp' = "none"
               [] OTHER -> UNCHANGED inDsp
          /\ IF call \in {"standby", "flush", "shutdown"}
             THEN releaseSharedMemory ELSE UNCHANGED inMapping
          /\ UNCHANGED <<inMemBegin, inFrames, inLastFrames>>

Quiet == UNCHANGED <<inDriver, inBroken, inDspVars>>

----------------------------------------------------------------------------------
(* The worker. What a command does to the state when the driver takes it.       *)
AcceptedWith(burst) == [start |-> {"STANDBY", "DRAINING"}, burst |-> burst,
                        drain |-> {"ACTIVE"}, standby |-> {"IDLE"}, pause |-> {"ACTIVE"},
                        flush |-> {"PAUSED"}]
\* Mutant: a burst in the states of an output stream.
AcceptedAsOutput == AcceptedWith(InStates \ {"ERROR", "CLOSED"})
Accepted == AcceptedWith({"IDLE", "ACTIVE", "PAUSED", "DRAINING"})
NextInState(c) ==
  CASE c = "start" -> IF inState = "STANDBY" THEN "IDLE" ELSE "ACTIVE"
    [] c = "burst" -> IF inState = "DRAINING" THEN "STANDBY" ELSE "ACTIVE"
    [] c = "drain" -> "DRAINING"
    [] c = "pause" -> "PAUSED"
    [] c \in {"standby", "flush"} -> "STANDBY"
DriverCall(c) == IF c = "burst" THEN "transfer" ELSE c

Take ==
  /\ inWorker = "read" /\ inCommand # "none"
  /\ inRunning' = inCommand /\ inCommand' = "none" /\ inWorker' = "run"
  /\ UNCHANGED <<inKind, inState, inConnected, inDriver, inBroken, inReply, inClient,
                 inCloser, inDspVars>>

(* A burst of a disconnected stream is silence; the state follows it all the   *)
(* same. With shared memory the driver is called in any case.                   *)
RunCommand(ok) ==
  /\ inWorker = "run" /\ inRunning \in DOMAIN Accepted
  /\ LET c == inRunning
         driven == c # "burst" \/ inConnected \/ inKind = "mmap"
     IN IF inState \notin Accepted[c] THEN Quiet /\ UNCHANGED inState
        ELSE /\ IF driven /\ ok THEN Drive(DriverCall(c)) ELSE Quiet
             /\ inState' = IF ok THEN NextInState(c) ELSE "ERROR"
  /\ inWorker' = "reply"
  /\ UNCHANGED <<inKind, inConnected, inQueues, inRunning, inCloser>>

RunOther ==
  /\ inWorker = "run" /\ inRunning \in {"getStatus", "flushFromFrame", "exitZeroCookie",
                                        "exitBadCookie"}
  /\ inWorker' = IF inRunning = "exitBadCookie" THEN "read" ELSE "reply"
  /\ UNCHANGED <<inKind, inState, inConnected, inDriver, inBroken, inQueues, inRunning,
                 inCloser, inDspVars>>

RunExit ==
  /\ inWorker = "run" /\ inRunning = "exit"
  /\ Drive("shutdown")
  /\ inState' = "CLOSED" /\ inWorker' = "exited"
  /\ UNCHANGED <<inKind, inConnected, inQueues, inRunning, inCloser>>

Reply ==
  /\ inWorker = "reply" /\ ~inReply
  /\ inReply' = TRUE /\ inWorker' = "read" /\ inRunning' = "none"
  /\ UNCHANGED <<inKind, inState, inConnected, inDriver, inBroken, inCommand, inClient,
                 inCloser, inDspVars>>

QueueFails ==
  /\ inWorker \in {"read", "reply"}
  /\ inState' = "ERROR" /\ inWorker' = "aborted"
  /\ UNCHANGED <<inKind, inConnected, inDriver, inBroken, inQueues, inRunning, inCloser,
                 inDspVars>>

----------------------------------------------------------------------------------
(* The binder thread *)
setConnectedDevices(c) ==
  /\ inCloser = "idle" /\ inConnected' = c
  /\ UNCHANGED <<inKind, inState, inDriver, inBroken, inQueues, inWorker, inRunning,
                 inCloser, inDspVars>>

createMmapBuffer ==
  /\ inKind = "mmap" /\ inCloser = "idle" /\ inConnected
  /\ inMapping' \in {1, 2} \ {inMemBegin}
  /\ UNCHANGED <<inKind, inState, inConnected, inDriver, inBroken, inQueues, inWorker,
                 inRunning, inCloser, inDsp, inMemBegin, inFrames, inLastFrames>>

close ==
  /\ inCloser = "idle" /\ inState # "CLOSED" /\ inCloser' = "stop"
  /\ UNCHANGED <<inKind, inState, inConnected, inDriver, inBroken, inQueues, inWorker,
                 inRunning, inDspVars>>
\* Mutant: the command is written without waiting for space.
stopWorkerAtOnce ==
  /\ inCloser = "stop" /\ inCloser' = "join"
  /\ inCommand' = IF inCommand = "none" THEN "exit" ELSE inCommand
  /\ UNCHANGED <<inKind, inState, inConnected, inDriver, inBroken, inReply, inClient,
                 inWorker, inRunning, inDspVars>>
stopWorker ==
  /\ inCloser = "stop" /\ inCommand = "none"
  /\ inCommand' = "exit" /\ inCloser' = "join"
  /\ UNCHANGED <<inKind, inState, inConnected, inDriver, inBroken, inReply, inClient,
                 inWorker, inRunning, inDspVars>>
joinWorker ==
  /\ inCloser = "join" /\ inWorker \in {"exited", "aborted"}
  /\ inState' = "CLOSED" /\ inCloser' = "closed" /\ inCommand' = "none"
  /\ UNCHANGED <<inKind, inConnected, inDriver, inBroken, inReply, inClient, inWorker,
                 inRunning, inDspVars>>

----------------------------------------------------------------------------------
(* A cycle of the DSP thread, under the lock that standby() and createMmapBuffer() *)
(* take to change sharedMemory. Without a buffer the position is unknown; with   *)
(* one again, it goes on where it was.                                           *)
\* Mutant: the position starts again with a new buffer.
RestoredFromZero == IF inFrames = Unknown THEN 1 ELSE inFrames
Restored == IF inFrames = Unknown THEN inLastFrames ELSE inFrames
DspCycle ==
  /\ inDsp = "running"
  /\ inMemBegin' = inMapping
  /\ IF inMapping # NoMemory
     THEN /\ inFrames' = Restored + (IF Restored <= InputFrames THEN 1 ELSE 0)
          /\ inLastFrames' = inFrames'
     ELSE inFrames' = Unknown /\ UNCHANGED inLastFrames
  /\ UNCHANGED <<inKind, inState, inConnected, inDriver, inBroken, inQueues, inWorker,
                 inRunning, inCloser, inDsp, inMapping>>

WorkerSteps == Take \/ (\E ok \in BOOLEAN : RunCommand(ok)) \/ RunOther \/ RunExit \/ Reply
InputNext ==
  \/ \E c \in InCommands : Send(c)
  \/ ReceiveReply \/ ClientIsGone
  \/ Take \/ (\E ok \in BOOLEAN : RunCommand(ok)) \/ RunOther \/ RunExit \/ Reply \/ QueueFails
  \/ (\E c \in BOOLEAN : setConnectedDevices(c)) \/ createMmapBuffer
  \/ close \/ stopWorker \/ joinWorker
  \/ DspCycle
InputFairness == WF_inVars(WorkerSteps) /\ SF_inVars(stopWorker) /\ WF_inVars(joinWorker)
InputSpec == InputInit /\ [][InputNext]_inVars /\ InputFairness

(* No command brings the driver to a call that its own checks forbid: the      *)
(* worker's STANDBY, also the one after a drain or a flush, accepts no burst,  *)
(* and nothing follows shutdown().                                              *)
DriverCallsAllowed == ~inBroken

(* The position of shared memory goes back only through unknown, and then goes *)
(* on from where it was.                                                        *)
PositionContinues ==
  [][(inFrames' # inFrames /\ inFrames' # Unknown) => inFrames' >= inLastFrames]_inVars

(* close() returns unless a queue failed under the worker: with the client     *)
(* dead or waiting, with a command in the queue or one being run.              *)
CloseReturns == (inCloser = "stop") ~> (inCloser = "closed" \/ inWorker = "aborted")
==================================================================================
