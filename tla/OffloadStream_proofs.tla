------------------------- MODULE OffloadStream_proofs -------------------------
(* Proofs about OffloadStream, for every format, clip length and queue length. *)
EXTENDS OffloadStream, TLAPS

-----------------------------------------------------------------------------
(* No callback is left behind. *)

\* The inductive invariant is the property itself.
LEMMA QueueStep == NoCallbackLeftBehind /\ [Next]_vars => NoCallbackLeftBehind'
<1> USE DEF NoCallbackLeftBehind, queue, state
<1> SUFFICES ASSUME NoCallbackLeftBehind, [Next]_vars PROVE NoCallbackLeftBehind'
  OBVIOUS
<1>1. ASSUME NEW c \in Commands, ReadCommand(c) PROVE NoCallbackLeftBehind'
  BY <1>1 DEF ReadCommand
<1>2. CASE Obtain
  BY <1>2 DEF Obtain
<1>3. CASE Handle \/ shutdown \/ setClosed
  <2>1. UNCHANGED queue
    BY <1>3 DEF Handle, Reject, start, burstDisconnected, burstInStandby, burstTransfer, burstFails,
        burstQueue, drain, drainPaused, standby, stopDsp, pause, flush, flushFrom, shutdown, setClosed
  <2> QED
    BY <2>1
<1>4. CASE Postponed
  BY <1>4 DEF Postponed
<1>5. CASE Dsp
  <2>1. CASE CallBuffer
    BY <2>1 DEF CallBuffer, Callback
  <2>2. CASE CallClips
    BY <2>2 DEF CallClips, Callback
  <2>3. CASE CallComplete
    BY <2>3 DEF CallComplete, Callback
  <2>4. CASE (\E frames \in 1..2 : Play(frames)) \/ CheckSent \/ ResetDraining \/ Obey
    BY <2>4 DEF Play, CheckSent, ResetDraining, Obey
  <2> QED
    BY <1>5, <2>1, <2>2, <2>3, <2>4 DEF Dsp
<1>6. CASE setIsConnected
  BY <1>6 DEF setIsConnected
<1>7. CASE UNCHANGED vars
  BY <1>7 DEF vars
<1> QED
  BY <1>1, <1>2, <1>3, <1>4, <1>5, <1>6, <1>7 DEF Next, Worker

\* A callback that found the worker busy has run before the worker is free again,
\* for every number of callbacks and every command.
THEOREM CallbacksAreRun == Spec => []NoCallbackLeftBehind
<1>1. Init => NoCallbackLeftBehind
  BY DEF Init, NoCallbackLeftBehind
<1> QED
  BY <1>1, QueueStep, PTL DEF Spec

-----------------------------------------------------------------------------
(* No drain is reported more often than it promised. *)

\* What is owed is at least what the drain's state still lets the callbacks send.
OwedInv ==
  /\ owed \in Nat
  /\ mDrainState \in DrainStates
  /\ mDrainState \in {"ALL", "EN_SENT"} => owed >= 1
  /\ mDrainState = "EN" => owed >= 2

LEMMA ApplyOwed ==
  ASSUME NEW t, OwedInv, Apply(t)
  PROVE  OwedInv'
<1>1. CASE t.kind = "buffer"
  BY <1>1 DEF Apply, ApplyBuffer, OwedInv
<1>2. CASE t.kind # "buffer"
  BY <1>2 DEF Apply, ApplyClip, OwedInv, DrainStates, DrainAfterClip, SendsDrainReady, ClipEnds,
      ClipNears
<1> QED
  BY <1>1, <1>2

LEMMA CallbackOwed ==
  ASSUME NEW t, OwedInv, Callback(t)
  PROVE  OwedInv'
BY ApplyOwed DEF Callback, state, OwedInv

LEMMA OwedStep == OwedInv /\ [Next]_vars => OwedInv'
<1> SUFFICES ASSUME OwedInv, [Next]_vars PROVE OwedInv'
  OBVIOUS
<1>1. CASE drain
  BY <1>1 DEF drain, Handles, DrainRequested, OwedInv, DrainStates
<1>2. CASE Postponed
  BY <1>2, ApplyOwed DEF Postponed, state, OwedInv
<1>3. CASE Dsp
  <2>1. CASE CallBuffer
    BY <2>1, CallbackOwed DEF CallBuffer, state, OwedInv
  <2>2. CASE CallClips
    BY <2>2, CallbackOwed DEF CallClips, state, OwedInv
  <2>3. CASE CallComplete
    BY <2>3, CallbackOwed DEF CallComplete
  <2>4. CASE (\E frames \in 1..2 : Play(frames)) \/ CheckSent \/ ResetDraining \/ Obey
    BY <2>4 DEF Play, CheckSent, ResetDraining, Obey, state, OwedInv
  <2> QED
    BY <1>3, <2>1, <2>2, <2>3, <2>4 DEF Dsp
<1>4. CASE UNCHANGED <<mDrainState, owed>>
  BY <1>4 DEF OwedInv
<1>5. CASE (\E c \in Commands : ReadCommand(c)) \/ Obtain \/ shutdown \/ setClosed \/ setIsConnected
            \/ UNCHANGED vars
  BY <1>4, <1>5 DEF ReadCommand, Obtain, shutdown, setClosed, setIsConnected, vars, state
<1>6. CASE Handle /\ ~drain
  BY <1>4, <1>6 DEF Handle, Reject, start, burstDisconnected, burstInStandby, burstTransfer, burstFails,
      burstQueue, drainPaused, standby, stopDsp, pause, flush, flushFrom, state
<1> QED
  BY <1>1, <1>2, <1>3, <1>5, <1>6 DEF Next, Worker

\* However commands and callbacks fall, the client is notified of a drain at most once,
\* of an early-notify drain at most twice.
THEOREM NoSpuriousDrainReady == Spec => []OnlyPromisedDrainReady
<1>1. Init => OwedInv
  BY DEF Init, OwedInv, DrainStates, None
<1>2. OwedInv => OnlyPromisedDrainReady
  BY DEF OwedInv, OnlyPromisedDrainReady
<1> QED
  BY <1>1, <1>2, OwedStep, PTL DEF Spec

-----------------------------------------------------------------------------
(* A command is atomic. *)

\* Only the command itself moves the state from its check to its effect.
THEOREM CommandsAreAtomic == Spec => CommandIsAtomic
<1> DEFINE Moves == wpc \in {"run", "queue", "wait"} /\ held /\ mState' # mState
<1>1. Next /\ Moves => wpc' = "post"
  <2> SUFFICES ASSUME Next, Moves PROVE wpc' = "post"
    OBVIOUS
  <2>1. CASE Handle
    BY <2>1 DEF Handle, Reject, start, burstDisconnected, burstInStandby, burstTransfer, burstFails,
        burstQueue, drain, drainPaused, standby, stopDsp, pause, flush, flushFrom, state
  <2>2. ~(Obtain \/ shutdown \/ setClosed \/ Postponed \/ \E c \in Commands : ReadCommand(c))
    BY DEF Obtain, shutdown, setClosed, Postponed, ReadCommand, state
  <2>3. ~Dsp
    BY DEF Dsp, Play, CallBuffer, CallClips, CheckSent, CallComplete, ResetDraining, Obey, Callback,
        state
  <2>4. ~setIsConnected
    BY DEF setIsConnected, state
  <2> QED
    BY <2>1, <2>2, <2>3, <2>4 DEF Next, Worker
<1>2. [Next]_vars => [Moves => wpc' = "post"]_vars
  BY <1>1
<1> QED
  BY <1>2, PTL DEF Spec, CommandIsAtomic

-----------------------------------------------------------------------------
(* A closed stream stays closed. *)

\* While a command is handled the queue is held, so the state it was accepted in
\* lasts; the stream is closed only when the DSP thread has ended between two cycles.
ClosedInv ==
  /\ wpc \in {"queue", "wait"} => held
  /\ wpc = "run" /\ command # "exit" => held
  /\ wpc = "wait" /\ command = "pause" => mState \in DOMAIN PauseTarget
  /\ mState = "CLOSED" => wpc = "exited"
  /\ wpc = "exited" => dsp \in {"none", "stopped"}
  /\ dsp \in {"none", "paused", "stopped"} => dpc = "cycle"

LEMMA ApplyOpen ==
  ASSUME NEW t, Apply(t), mState # "CLOSED"
  PROVE  mState' # "CLOSED"
BY DEF Apply, ApplyBuffer, ApplyClip, AfterBuffer, AfterClip

LEMMA CallbackOpen ==
  ASSUME NEW t, Callback(t), mState # "CLOSED"
  PROVE  /\ mState' # "CLOSED" /\ held' = held
         /\ held => mState' = mState
BY ApplyOpen DEF Callback, state, queue

LEMMA HandleClosed ==
  ASSUME ClosedInv, Handle
  PROVE  ClosedInv'
<1> USE DEF ClosedInv, state, queue, driver, Started, Resumed
<1>1. CASE Reject
  BY <1>1 DEF Reject
<1>2. CASE start
  <2>1. mState \in DOMAIN StartTarget
    BY <1>2 DEF start, Handles, Accepts
  <2>2. mState' # "CLOSED"
    BY <1>2, <2>1 DEF start, StartTarget
  <2> QED
    BY <1>2, <2>2 DEF start, Handles
<1>3. CASE burstDisconnected \/ burstInStandby \/ (\E n \in Bursts : burstTransfer(n)) \/ burstFails
  <2>1. mState' # "CLOSED"
    BY <1>3 DEF burstDisconnected, burstInStandby, burstTransfer, burstFails, Handles, AfterBurst
  <2> QED
    BY <1>3, <2>1 DEF burstDisconnected, burstInStandby, burstTransfer, burstFails, Handles
<1>4. CASE burstQueue
  BY <1>4 DEF burstQueue, AfterBurst
<1>5. CASE drain \/ drainPaused \/ standby \/ flushFrom
  BY <1>5 DEF drain, drainPaused, standby, flushFrom, Handles
<1>6. CASE stopDsp
  BY <1>6 DEF stopDsp, Handles, Accepts
<1>7. CASE pause
  <2>1. mState' # "CLOSED"
    BY <1>7 DEF pause, PauseTarget
  <2> QED
    BY <1>7, <2>1 DEF pause
<1>8. CASE flush
  BY <1>8 DEF flush
<1> QED
  BY <1>1, <1>2, <1>3, <1>4, <1>5, <1>6, <1>7, <1>8 DEF Handle

LEMMA DspClosed ==
  ASSUME ClosedInv, Dsp
  PROVE  ClosedInv' /\ (mState = "CLOSED" => mState' = "CLOSED")
<1> USE DEF ClosedInv, state, queue, worker
<1>1. wpc' = wpc /\ command' = command
  BY DEF Dsp, Play, CallBuffer, CallClips, CheckSent, CallComplete, ResetDraining, Obey
<1>2. CASE CallBuffer
  BY <1>1, <1>2, CallbackOpen DEF CallBuffer
<1>3. CASE CallClips
  BY <1>1, <1>3, CallbackOpen DEF CallClips
<1>4. CASE CallComplete
  BY <1>1, <1>4, CallbackOpen DEF CallComplete
<1>5. CASE (\E frames \in 1..2 : Play(frames)) \/ CheckSent \/ ResetDraining \/ Obey
  BY <1>1, <1>5 DEF Play, CheckSent, ResetDraining, Obey
<1> QED
  BY <1>2, <1>3, <1>4, <1>5 DEF Dsp

LEMMA ClosedStep == ClosedInv /\ [Next]_vars => ClosedInv' /\ (mState = "CLOSED" => mState' = "CLOSED")
<1> SUFFICES ASSUME ClosedInv, [Next]_vars
             PROVE  ClosedInv' /\ (mState = "CLOSED" => mState' = "CLOSED")
  OBVIOUS
<1> USE DEF state, queue
<1>1. ASSUME NEW c \in Commands, ReadCommand(c)
      PROVE  ClosedInv' /\ (mState = "CLOSED" => mState' = "CLOSED")
  BY <1>1 DEF ReadCommand, ClosedInv
<1>2. CASE Obtain
  BY <1>2 DEF Obtain, ClosedInv
<1>3. CASE Handle
  <2>1. mState # "CLOSED"
    BY <1>3 DEF Handle, Reject, start, burstDisconnected, burstInStandby, burstTransfer, burstFails,
        burstQueue, drain, drainPaused, standby, stopDsp, pause, flush, flushFrom, Handles, ClosedInv
  <2> QED
    BY <1>3, <2>1, HandleClosed
<1>4. CASE shutdown \/ setClosed
  BY <1>4 DEF shutdown, setClosed, ClosedInv
<1>5. CASE Postponed
  BY <1>5, ApplyOpen DEF Postponed, ClosedInv
<1>6. CASE Dsp
  BY <1>6, DspClosed
<1>7. CASE setIsConnected \/ UNCHANGED vars
  BY <1>7 DEF setIsConnected, vars, worker, ClosedInv
<1> QED
  BY <1>1, <1>2, <1>3, <1>4, <1>5, <1>6, <1>7 DEF Next, Worker

\* The DSP thread is joined before the stream says closed, so no callback moves it on,
\* for every format and clip.
THEOREM ClosedStaysClosed == Spec => ClosedIsFinal
<1>1. Init => ClosedInv
  BY DEF Init, ClosedInv
<1>2. ClosedInv /\ [Next]_vars => ClosedInv'
  BY ClosedStep
<1>3. ClosedInv /\ [Next]_vars => [mState = "CLOSED" => mState' = "CLOSED"]_vars
  BY ClosedStep
<1> QED
  BY <1>1, <1>2, <1>3, PTL DEF Spec, ClosedIsFinal

\* Callbacks move the state only between two commands of a stream that is open.
THEOREM WorkerOwns == Spec => WorkerOwnsState
  BY CommandsAreAtomic, ClosedStaysClosed DEF WorkerOwnsState
===============================================================================
