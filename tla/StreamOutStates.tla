--------------------------- MODULE StreamOutStates ---------------------------
(***************************************************************************)
(* audio/Stream.cpp: what the commands and the driver's callbacks make of   *)
(* the state of an output stream.  Pure operators, shared by the models of  *)
(* the streams that differ in their driver.                                 *)
(***************************************************************************)
EXTENDS Integers

\* StreamDescriptor::State and StreamContext::STATE_CLOSED.
States == {"STANDBY", "IDLE", "ACTIVE", "PAUSED", "DRAINING", "DRAIN_PAUSED",
           "TRANSFERRING", "TRANSFER_PAUSED", "ERROR", "CLOSED"}

DrainStates == {"NONE", "ALL", "EN", "EN_SENT"}

\* Where start and pause lead, for the states that accept them.
StartTarget == [STANDBY |-> "IDLE", PAUSED |-> "ACTIVE",
                DRAIN_PAUSED |-> "DRAINING", TRANSFER_PAUSED |-> "TRANSFERRING"]

PauseTarget == [ACTIVE |-> "PAUSED", DRAINING |-> "DRAIN_PAUSED",
                TRANSFERRING |-> "TRANSFER_PAUSED"]

AcceptsBurst(state) == state \notin {"ERROR", "TRANSFERRING", "TRANSFER_PAUSED"}

Drainable == {"ACTIVE", "TRANSFERRING"}

Flushable == {"PAUSED", "DRAIN_PAUSED", "TRANSFER_PAUSED"}

AcceptsFlushFrom(state) == state \in Flushable \cup Drainable \cup {"DRAINING"}

\* Whether the worker hands the command to the driver.
Accepts(command, state) ==
  CASE command = "start" -> state \in DOMAIN StartTarget
    [] command = "burst" -> AcceptsBurst(state)
    [] command \in {"drainAll", "drainEarly"} -> state \in Drainable
    [] command = "standby" -> state = "IDLE"
    [] command = "pause" -> state \in DOMAIN PauseTarget
    [] command = "flush" -> state \in Flushable
    [] command = "flushFrom" -> AcceptsFlushFrom(state)

\* The state after a burst that the driver took, in full or in part; async: the
\* client gave a callback.
AfterBurst(state, drain, async, full) ==
  CASE state \in {"STANDBY", "PAUSED"} -> "PAUSED"
    [] state = "DRAIN_PAUSED" ->
         IF ~async THEN "PAUSED" ELSE IF drain # "EN_SENT" THEN "TRANSFER_PAUSED" ELSE state
    [] state \in {"IDLE", "ACTIVE"} \/ (state = "DRAINING" /\ drain # "EN_SENT") ->
         IF ~async \/ full THEN "ACTIVE" ELSE "TRANSFERRING"
    [] OTHER -> state

DrainRequested(command) == IF command = "drainEarly" THEN "EN" ELSE "ALL"

-----------------------------------------------------------------------------
(* The driver's callbacks, on a stream whose client gave a callback. *)

\* onBufferStateChange().
AfterBuffer(state) == IF state = "TRANSFERRING" THEN "ACTIVE" ELSE state

\* onClipStateChange(left, next) at the end of a clip that is being drained ...
ClipEnds(drain, left) == drain # "NONE" /\ left = 0

\* ... and shortly before it.
ClipNears(drain, left) == drain = "EN" /\ left > 0

AfterClip(state, drain, left, next) ==
  IF ~ClipEnds(drain, left) THEN state ELSE IF next THEN "TRANSFERRING" ELSE "IDLE"

DrainAfterClip(drain, left) ==
  IF ClipEnds(drain, left) THEN "NONE" ELSE IF ClipNears(drain, left) THEN "EN_SENT" ELSE drain

SendsDrainReady(drain, left) ==
  \/ ClipEnds(drain, left) /\ drain \in {"ALL", "EN_SENT"}
  \/ ClipNears(drain, left)
===============================================================================
