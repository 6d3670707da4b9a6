---------------------------- MODULE OffloadStream ----------------------------
(***************************************************************************)
(* An offloaded output stream: the worker thread of audio/Stream.cpp, which *)
(* handles one client command at a time, above the driver of audio/stub/    *)
(* StreamOffloadStub.cpp, whose DSP thread plays clips and calls the worker  *)
(* back.  The worker holds mCallTasks while it handles a command; a callback *)
(* that arrives meanwhile is queued and run after the reply.  Time is a      *)
(* number of frames played per DSP cycle; samples and headers are not kept.  *)
(***************************************************************************)
EXTENDS StreamOutStates, FiniteSets, Sequences

CONSTANTS Format,      \* "pcm", "ape" or "mpeg"
          Commands,    \* the commands the client sends, of CommandSet
          Connects,    \* what setIsConnected() is called with
          EarlyNotify, \* earlyNotifyFrames
          FlushMargin, \* mSafeMarginForFlushFromFrames
          NotifyAt,    \* mBufferNotifyFrames
          Bursts,      \* the frames a burst may hold
          MaxFrames,   \* bound: frames of a clip and in the buffer
          MaxTasks     \* bound: callbacks queued during one command

CommandSet == {"start", "burst", "drainAll", "drainEarly", "standby", "pause",
               "flush", "flushFrom", "exit"}

ASSUME OffloadAssumption == /\ Format \in {"pcm", "ape", "mpeg"}
                            /\ Commands \subseteq CommandSet
                            /\ Connects \subseteq BOOLEAN
                            /\ EarlyNotify \in Nat /\ FlushMargin \in Nat
                            /\ NotifyAt \in Nat /\ MaxFrames \in Nat /\ MaxTasks \in Nat
                            /\ Bursts \subseteq Nat

VARIABLES
  mState, mDrainState,
  mIsConnected,
  mIsStandby,          \* DriverStubImpl's own check of the state machine
  tasks,               \* the queue of mCallTasks: callbacks to run after the reply
  held,                \* whether the worker has obtained mCallTasks
  wpc,                 \* worker: "read", "obtain", "run", "queue", "wait", "post",
                       \* "stopping", "exited" or "aborted"
  command,             \* the command it handles
  taken                \* frames and completeness of the burst being transferred

VARIABLES
  dsp,                 \* DSP thread: "none", "running", "pausing", "paused",
                       \* "stopping" or "stopped"
  dpc,                 \* "cycle", "buffer", "clips", "empty", "complete" or "reset"
  clips,               \* frames left of the current clip and of the next one
  bufferFramesLeft, bufferNotifyFrames, draining,
  completeSent,        \* isDrainCompleteClipStateChangeSent
  notifyBuffer,        \* the DSP thread's locals of a cycle: call onBufferStateChange(),
  notifyClips,         \* the onClipStateChange() calls to make
  emptyDrain           \* and the drain that found no clips

VARIABLE owed          \* onDrainReady() calls the last accepted drain promises

worker == <<wpc, command, taken>>
queue == <<tasks, held>>
state == <<mState, mDrainState, owed>>
driver == <<clips, bufferFramesLeft, bufferNotifyFrames, draining, completeSent>>
locals == <<notifyBuffer, notifyClips, emptyDrain>>
vars == <<worker, queue, state, driver, locals, mIsConnected, mIsStandby, dsp, dpc>>

Skip == -1   \* kSkipBufferNotifyFrames
None == "NONE"
NoBurst == [frames |-> 0, full |-> FALSE]

Init ==
  /\ mState = "STANDBY" /\ mDrainState = None /\ owed = 0
  /\ mIsConnected = FALSE /\ mIsStandby = TRUE
  /\ tasks = <<>> /\ held = FALSE
  /\ wpc = "read" /\ command = "none" /\ taken = NoBurst
  /\ dsp = "none" /\ dpc = "cycle"
  /\ clips = IF Format = "pcm" THEN <<0>> ELSE <<>>
  /\ bufferFramesLeft = 0 /\ bufferNotifyFrames = Skip
  /\ draining = None /\ completeSent = FALSE
  /\ notifyBuffer = FALSE /\ notifyClips = <<>> /\ emptyDrain = None

Least(a, b) == IF a <= b THEN a ELSE b

-----------------------------------------------------------------------------
(* DspClipState. *)

Trimmed(frames) ==
  IF clips = <<>> THEN clips ELSE [clips EXCEPT ![1] = Least(@, frames)]

Lengthened(c, frames) ==
  IF c = <<>> THEN c ELSE [c EXCEPT ![Len(c)] = @ + frames]

\* add(): kClipCountLimit clips at most.
HasRoom == Len(clips) < 2

-----------------------------------------------------------------------------
(* The driver's callbacks on the worker. *)

ApplyBuffer ==
  /\ mState' = AfterBuffer(mState)
  /\ UNCHANGED <<mDrainState, owed>>

\* Mutant: the end of a clip does not end the drain.
ApplyClipKeepsDrain(t) ==
  /\ mState' = AfterClip(mState, mDrainState, t.left, t.next)
  /\ mDrainState' = IF ClipNears(mDrainState, t.left) THEN "EN_SENT" ELSE mDrainState
  /\ owed' = IF SendsDrainReady(mDrainState, t.left) THEN owed - 1 ELSE owed

ApplyClip(t) ==
  /\ mState' = AfterClip(mState, mDrainState, t.left, t.next)
  /\ mDrainState' = DrainAfterClip(mDrainState, t.left)
  /\ owed' = IF SendsDrainReady(mDrainState, t.left) THEN owed - 1 ELSE owed

Apply(t) == IF t.kind = "buffer" THEN ApplyBuffer ELSE ApplyClip(t)

\* Mutant: a callback waits for the command to end.
CallbackWaits(t) == ~held /\ Apply(t) /\ UNCHANGED queue

\* Mutant: a callback does not look at mCallTasks.
CallbackAtOnce(t) == Apply(t) /\ UNCHANGED queue

\* tryObtainOrPush(): nothing else runs while the DSP thread applies a callback,
\* so obtaining, applying and releasing are one step.
Callback(t) ==
  IF held THEN tasks' = Append(tasks, t) /\ UNCHANGED <<held, state>>
          ELSE Apply(t) /\ UNCHANGED queue

BufferLeft == [kind |-> "buffer", left |-> 0, next |-> FALSE]
ClipLeft(left, next) == [kind |-> "clip", left |-> left, next |-> next]

-----------------------------------------------------------------------------
(* StreamOutWorkerLogic::cycle(). *)

\* The bound on the frames lets another burst in.
Fits == \A n \in Bursts : /\ bufferFramesLeft + n <= MaxFrames
                          /\ Format # "ape" => \A i \in DOMAIN clips : clips[i] + n <= MaxFrames

\* The client sends its next command; close() sends the last one.
ReadCommand(c) ==
  /\ wpc = "read"
  /\ c = "burst" => Fits
  /\ command' = c
  /\ wpc' = IF c = "exit" THEN "run" ELSE "obtain"
  /\ UNCHANGED <<taken, queue, state, driver, locals, mIsConnected, mIsStandby, dsp, dpc>>

Obtain ==
  /\ wpc = "obtain"
  /\ held' = TRUE
  /\ wpc' = "run"
  /\ UNCHANGED <<command, taken, tasks, state, driver, locals, mIsConnected, mIsStandby,
                 dsp, dpc>>

Handles(c) == wpc = "run" /\ command = c /\ Accepts(c, mState)

\* The reply of a command in a state that does not accept it is an error.
\* flushFrom is for PCM only.
Reject ==
  /\ wpc = "run" /\ command # "exit"
  /\ \/ ~Accepts(command, mState) /\ ~(command \in {"drainAll", "drainEarly"} /\ mState = "TRANSFER_PAUSED")
     \/ command = "flushFrom" /\ Format # "pcm"
  /\ wpc' = "post"
  /\ UNCHANGED <<command, taken, queue, state, driver, locals, mIsConnected, mIsStandby,
                 dsp, dpc>>

\* startWorkerIfNeeded() and DspSimulatorWorker::resume().
Resumed == IF dsp \in {"none", "paused"} THEN "running" ELSE dsp

Started == IF dsp = "none" THEN "running" ELSE dsp

start ==
  /\ Handles("start")
  /\ mIsStandby' = FALSE
  /\ bufferNotifyFrames' = Skip
  /\ completeSent' = (completeSent /\ ~(draining # None /\ clips = <<>>))
  /\ dsp' = IF clips # <<>> \/ draining # None THEN Resumed ELSE Started
  /\ mState' = StartTarget[mState]
  /\ wpc' = "post"
  /\ UNCHANGED <<command, taken, queue, mDrainState, owed, clips, bufferFramesLeft, draining,
                 locals, mIsConnected, dpc>>

\* A disconnected stream takes all that the client wrote and drops it.
burstDisconnected ==
  /\ Handles("burst") /\ ~mIsConnected
  /\ mState' = AfterBurst(mState, mDrainState, TRUE, TRUE)
  /\ wpc' = "post"
  /\ UNCHANGED <<command, taken, queue, mDrainState, owed, driver, locals, mIsConnected,
                 mIsStandby, dsp, dpc>>

\* LOG(FATAL) of DriverStubImpl::transfer().
burstInStandby ==
  /\ Handles("burst") /\ mIsConnected /\ mIsStandby
  /\ wpc' = "aborted"
  /\ UNCHANGED <<command, taken, queue, state, driver, locals, mIsConnected, mIsStandby,
                 dsp, dpc>>

\* What the transfer handler of the format makes of a burst of n frames. Ape:
\* at most one clip header per burst, with any duration; Mpeg: a tag, or a frame
\* that finds no clip, starts one.
Staged(n) ==
  CASE Format = "pcm"  -> {Lengthened(clips, n)}
    [] Format = "ape"  -> {clips} \cup
         (IF HasRoom THEN {Append(clips, d) : d \in 0..MaxFrames} ELSE {})
    [] Format = "mpeg" ->
         (IF clips # <<>> THEN {Lengthened(clips, n)} ELSE {}) \cup
         (IF HasRoom THEN {Append(clips, n)} ELSE {})

\* Headers are not counted: a compressed burst may be taken in part (the debug
\* parameter that forces this for every format is off).
MayBeFull == IF Format = "pcm" THEN {TRUE} ELSE BOOLEAN

burstTransfer(n) ==
  /\ Handles("burst") /\ mIsConnected /\ ~mIsStandby
  /\ \E full \in MayBeFull : taken' = [frames |-> n, full |-> full]
  /\ clips' \in Staged(n)
  /\ dsp' = Started
  /\ wpc' = "queue"
  /\ UNCHANGED <<command, queue, state, bufferFramesLeft, bufferNotifyFrames, draining,
                 completeSent, locals, mIsConnected, mIsStandby, dpc>>

\* A header of another sample rate, or of a clip there is no room for; clips
\* that came before it in the burst stay.
burstFails ==
  /\ Handles("burst") /\ mIsConnected /\ ~mIsStandby
  /\ Format # "pcm"
  /\ clips' \in {clips} \cup UNION {Staged(n) : n \in Bursts}
  /\ dsp' = Started
  /\ mState' = "ERROR"
  /\ wpc' = "post"
  /\ UNCHANGED <<command, taken, queue, mDrainState, owed, bufferFramesLeft, bufferNotifyFrames,
                 draining, completeSent, locals, mIsConnected, mIsStandby, dpc>>

burstQueue ==
  /\ wpc = "queue"
  /\ bufferFramesLeft' = bufferFramesLeft + taken.frames
  /\ bufferNotifyFrames' = NotifyAt
  /\ dsp' = Resumed
  /\ mState' = AfterBurst(mState, mDrainState, TRUE, taken.full)
  /\ taken' = NoBurst
  /\ wpc' = "post"
  /\ UNCHANGED <<command, queue, mDrainState, owed, clips, draining, completeSent,
                 locals, mIsConnected, mIsStandby, dpc>>

DrainedClips(mode) ==
  SubSeq(Trimmed(2 * EarlyNotify), 1, IF mode = "ALL" THEN Least(1, Len(clips)) ELSE Len(clips))

\* DriverOffloadStubImpl::drain().
Drain(mode) ==
  /\ clips' = DrainedClips(mode)
  /\ bufferNotifyFrames' = Skip
  /\ draining' = mode
  /\ completeSent' = FALSE

drain ==
  /\ Handles("drainAll") \/ Handles("drainEarly")
  /\ Drain(DrainRequested(command))
  /\ mState' = "DRAINING"
  /\ mDrainState' = DrainRequested(command)
  /\ owed' = IF command = "drainEarly" THEN 2 ELSE 1
  /\ wpc' = "post"
  /\ UNCHANGED <<command, taken, queue, bufferFramesLeft, locals, mIsConnected, mIsStandby,
                 dsp, dpc>>

\* Accepted without telling the driver.
drainPaused ==
  /\ wpc = "run" /\ command \in {"drainAll", "drainEarly"}
  /\ mState = "TRANSFER_PAUSED"
  /\ mState' = "DRAIN_PAUSED"
  /\ wpc' = "post"
  /\ UNCHANGED <<command, taken, queue, mDrainState, owed, driver, locals, mIsConnected,
                 mIsStandby, dsp, dpc>>

standby ==
  /\ Handles("standby")
  /\ mState' = "STANDBY"
  /\ mIsStandby' = TRUE
  /\ wpc' = "post"
  /\ UNCHANGED <<command, taken, queue, mDrainState, owed, driver, locals, mIsConnected,
                 dsp, dpc>>

\* DspSimulatorWorker::pause() returns when the thread has finished its cycle.
stopDsp ==
  /\ Handles("pause") \/ Handles("flush")
  /\ dsp' = IF dsp = "running" THEN "pausing" ELSE dsp
  /\ wpc' = "wait"
  /\ UNCHANGED <<command, taken, queue, state, driver, locals, mIsConnected, mIsStandby, dpc>>

pause ==
  /\ wpc = "wait" /\ command = "pause" /\ dsp # "pausing"
  /\ bufferNotifyFrames' = Skip
  /\ mState' = PauseTarget[mState]
  /\ wpc' = "post"
  /\ UNCHANGED <<command, taken, queue, mDrainState, owed, clips, bufferFramesLeft, draining,
                 completeSent, locals, mIsConnected, mIsStandby, dsp, dpc>>

flush ==
  /\ wpc = "wait" /\ command = "flush" /\ dsp # "pausing"
  /\ clips' = <<>> /\ bufferFramesLeft' = 0 /\ bufferNotifyFrames' = Skip
  /\ draining' = None /\ completeSent' = FALSE
  /\ mState' = "IDLE"
  /\ wpc' = "post"
  /\ UNCHANGED <<command, taken, queue, mDrainState, owed, locals, mIsConnected, mIsStandby,
                 dsp, dpc>>

\* Trims the clip behind the safety margin, or refuses and trims nothing.
flushFrom ==
  /\ Handles("flushFrom") /\ Format = "pcm"
  /\ \/ clips # <<>> /\ \E left \in Least(FlushMargin, clips[1])..clips[1] :
                          clips' = Trimmed(left)
     \/ UNCHANGED clips
  /\ wpc' = "post"
  /\ UNCHANGED <<command, taken, queue, state, bufferFramesLeft, bufferNotifyFrames, draining,
                 completeSent, locals, mIsConnected, mIsStandby, dsp, dpc>>

\* shutdown() stops and joins the DSP thread ...
shutdown ==
  /\ wpc = "run" /\ command = "exit"
  /\ dsp' = IF dsp = "none" THEN "none" ELSE "stopping"
  /\ wpc' = "stopping"
  /\ UNCHANGED <<command, taken, queue, state, driver, locals, mIsConnected, mIsStandby, dpc>>

\* ... and then the stream is closed and the thread ends.
setClosed ==
  /\ wpc = "stopping" /\ dsp \in {"none", "stopped"}
  /\ mState' = "CLOSED"
  /\ wpc' = "exited"
  /\ UNCHANGED <<command, taken, queue, mDrainState, owed, driver, locals, mIsConnected,
                 mIsStandby, dsp, dpc>>

\* Mutant: mCallTasks is released with the reply, before the queued calls.
PostponedReleases ==
  /\ wpc = "post"
  /\ held' = FALSE
  /\ wpc' = "read" /\ command' = "none"
  /\ UNCHANGED <<tasks, state, taken, driver, locals, mIsConnected, mIsStandby,
                 dsp, dpc>>

\* After the reply: the queued callbacks in their order, then the release.
Postponed ==
  /\ wpc = "post"
  /\ IF tasks # <<>>
       THEN Apply(Head(tasks)) /\ tasks' = Tail(tasks) /\ UNCHANGED <<held, wpc, command>>
       ELSE /\ held' = FALSE /\ wpc' = "read" /\ command' = "none"
            /\ UNCHANGED <<tasks, state>>
  /\ UNCHANGED <<taken, driver, locals, mIsConnected, mIsStandby, dsp, dpc>>

-----------------------------------------------------------------------------
(* DspSimulatorLogic::cycle(). *)

Before(i) == IF i = 1 THEN 0 ELSE clips[1]   \* frames ahead of clip i; there are two at most

\* The compressed clips that end when so many frames are played; of PCM there is
\* one clip that never ends.
Ended(frames) ==
  IF Format = "pcm" THEN 0
  ELSE Cardinality({i \in DOMAIN clips : /\ Before(i) < frames
                                         /\ Before(i) + clips[i] <= frames})

\* What is left of the clips, and the onClipStateChange() calls to make.
PlayedClips(frames) ==
  LET k == Ended(frames)
  IN [i \in 1..Len(clips) - k |->
        IF i = 1 THEN clips[k + 1] - Least(clips[k + 1], frames - Least(frames, Before(k + 1)))
                 ELSE clips[k + i]]

\* Mutant: the end of a clip is not reported.
OnlyNearCalls(frames) ==
  LET rest == PlayedClips(frames)
  IN IF rest # <<>> /\ rest[1] \in 1..EarlyNotify THEN <<ClipLeft(rest[1], Len(rest) > 1)>> ELSE <<>>

ClipCalls(frames) ==
  LET k == Ended(frames)
      rest == PlayedClips(frames)
      near == rest # <<>> /\ Before(k + 1) < frames /\ rest[1] > 0
              /\ draining = "EN" /\ rest[1] <= EarlyNotify
      empty == Format = "pcm" /\ clips # <<>> /\ clips[1] <= frames
  IN [i \in 1..k |-> ClipLeft(0, i < Len(clips))]
     \o (IF near THEN <<ClipLeft(rest[1], Len(rest) > 1)>> ELSE <<>>)
     \o (IF empty THEN <<ClipLeft(0, FALSE)>> ELSE <<>>)

Play(frames) ==
  /\ dpc = "cycle" /\ dsp = "running"
  /\ Len(tasks) <= MaxTasks
  /\ LET left == IF bufferFramesLeft > frames THEN bufferFramesLeft - frames ELSE 0
     IN /\ clips' = PlayedClips(frames)
        /\ notifyClips' = ClipCalls(frames)
        /\ bufferFramesLeft' = left
        /\ notifyBuffer' = (left <= bufferNotifyFrames)
        /\ bufferNotifyFrames' = IF left <= bufferNotifyFrames THEN Skip ELSE bufferNotifyFrames
  /\ IF clips = <<>>
       THEN emptyDrain' = draining /\ draining' = (IF draining = "EN" THEN "EN" ELSE None)
       ELSE emptyDrain' = None /\ UNCHANGED draining
  /\ dpc' = "buffer"
  /\ UNCHANGED <<worker, queue, state, completeSent, mIsConnected, mIsStandby, dsp>>

CallBuffer ==
  /\ dpc = "buffer"
  /\ IF notifyBuffer THEN Callback(BufferLeft) ELSE UNCHANGED <<queue, state>>
  /\ notifyBuffer' = FALSE
  /\ dpc' = "clips"
  /\ UNCHANGED <<worker, driver, notifyClips, emptyDrain, mIsConnected, mIsStandby, dsp>>

CallClips ==
  /\ dpc = "clips"
  /\ IF notifyClips # <<>>
       THEN Callback(Head(notifyClips)) /\ notifyClips' = Tail(notifyClips) /\ UNCHANGED dpc
       ELSE /\ dpc' = IF emptyDrain # None THEN "empty" ELSE "cycle"
            /\ UNCHANGED <<queue, state, notifyClips>>
  /\ UNCHANGED <<worker, driver, notifyBuffer, emptyDrain, mIsConnected, mIsStandby, dsp>>

CheckSent ==
  /\ dpc = "empty"
  /\ completeSent' = TRUE
  /\ dpc' = IF completeSent THEN "cycle" ELSE "complete"
  /\ UNCHANGED <<worker, queue, state, clips, bufferFramesLeft, bufferNotifyFrames, draining,
                 locals, mIsConnected, mIsStandby, dsp>>

CallComplete ==
  /\ dpc = "complete"
  /\ Callback(ClipLeft(0, FALSE))
  /\ dpc' = "reset"
  /\ UNCHANGED <<worker, driver, locals, mIsConnected, mIsStandby, dsp>>

ResetDraining ==
  /\ dpc = "reset"
  /\ draining' = None
  /\ dpc' = "cycle"
  /\ UNCHANGED <<worker, queue, state, clips, bufferFramesLeft, bufferNotifyFrames,
                 completeSent, locals, mIsConnected, mIsStandby, dsp>>

\* Between two cycles the thread obeys a request to pause or to stop.
Obey ==
  /\ dpc = "cycle" /\ dsp \in {"pausing", "stopping"}
  /\ dsp' = IF dsp = "pausing" THEN "paused" ELSE "stopped"
  /\ UNCHANGED <<worker, queue, state, driver, locals, mIsConnected, mIsStandby, dpc>>

-----------------------------------------------------------------------------

\* Module::updateStreamsConnectedState(), on a thread of its own.
setIsConnected ==
  /\ wpc \notin {"exited", "aborted"}
  /\ mIsConnected' \in Connects
  /\ UNCHANGED <<worker, queue, state, driver, locals, mIsStandby, dsp, dpc>>

Handle == \/ Reject \/ start \/ burstDisconnected \/ burstInStandby
          \/ (\E n \in Bursts : burstTransfer(n)) \/ burstFails \/ burstQueue
          \/ drain \/ drainPaused \/ standby \/ stopDsp \/ pause \/ flush \/ flushFrom

Worker == \/ Obtain \/ Handle \/ shutdown \/ setClosed \/ Postponed

\* Frames of one cycle: fewer than a clip, or several clips.
Dsp == \/ (\E frames \in 1..2 : Play(frames))
       \/ CallBuffer \/ CallClips \/ CheckSent \/ CallComplete \/ ResetDraining \/ Obey

Next == \/ (\E c \in Commands : ReadCommand(c))
        \/ Worker \/ (wpc # "aborted" /\ Dsp) \/ setIsConnected

Spec == Init /\ [][Next]_vars

\* Both threads run; the client need not send anything.
Fairness == WF_vars(Worker) /\ WF_vars(Dsp)

FairSpec == Spec /\ Fairness

-----------------------------------------------------------------------------
(* Properties. *)

Calls == [kind : {"buffer", "clip"}, left : 0..MaxFrames, next : BOOLEAN]

\* The types of the variables of the worker and of the driver.
TypeOK ==
  /\ mState \in States /\ mDrainState \in DrainStates /\ owed \in -1..2
  /\ mIsConnected \in BOOLEAN /\ mIsStandby \in BOOLEAN /\ held \in BOOLEAN
  /\ tasks \in Seq(Calls)
  /\ wpc \in {"read", "obtain", "run", "queue", "wait", "post", "stopping", "exited", "aborted"}
  /\ command \in CommandSet \cup {"none"}
  /\ taken \in [frames : 0..MaxFrames, full : BOOLEAN]
  /\ dsp \in {"none", "running", "pausing", "paused", "stopping", "stopped"}
  /\ dpc \in {"cycle", "buffer", "clips", "empty", "complete", "reset"}
  /\ clips \in Seq(0..MaxFrames) /\ Len(clips) <= 2
  /\ bufferFramesLeft \in 0..2 * MaxFrames /\ bufferNotifyFrames \in {Skip, NotifyAt}
  /\ draining \in {None, "ALL", "EN"} /\ emptyDrain \in {None, "ALL", "EN"}
  /\ completeSent \in BOOLEAN /\ notifyBuffer \in BOOLEAN
  /\ notifyClips \in Seq(Calls)

\* A callback that found the worker busy is run before the worker waits for the next
\* command: a clip that ended during a pause is not forgotten.
NoCallbackLeftBehind == ~held => tasks = <<>>

\* A drain is reported to the client once, an early-notify drain at most twice,
\* however flushes, pauses and new bursts fall between its notifications.
OnlyPromisedDrainReady == owed >= 0

\* Nothing opens a closed stream again: the DSP thread is joined before the state
\* says closed, and no callback comes after.
ClosedIsFinal == [][mState = "CLOSED" => mState' = "CLOSED"]_vars

\* A callback never moves the state between the check of a command and what the
\* command makes of it: the DSP thread queues while the worker handles a command.
CommandIsAtomic ==
  [][(wpc \in {"run", "queue", "wait"} /\ held /\ mState' # mState) => (wpc' = "post")]_vars

\* While the worker is in a command, and once it has ended, nobody else moves the state.
WorkerOwnsState == CommandIsAtomic /\ ClosedIsFinal

\* Every command is answered, also pause and flush, which wait for a DSP thread that
\* may itself be calling the worker. The reply comes before the queued callbacks.
CommandAnswered ==
  wpc \in {"obtain", "run", "queue", "wait"} ~> wpc \in {"post", "aborted"}

\* A drain that the driver was told of ends while the DSP thread plays, unless the
\* client writes on.
DrainEnds ==
  mState = "DRAINING" /\ mDrainState # None ~>
    mState # "DRAINING" \/ command = "burst" \/ dsp = "paused"
===============================================================================
