--------------------------- MODULE VisualizerCapture ----------------------------
(* The visualizer: the effect's thread writes each burst into a ring of samples   *)
(* and measures it; the binder thread reads a capture or a measurement.           *)
EXTENDS Integers, Sequences, FiniteSets

CONSTANTS
  BufSize,     \* kMaxCaptureBufSize
  Sizes,       \* capture sizes that a client sets
  Latencies,   \* downstream latencies, in samples
  Window,      \* mMeasurementWindowSizeInBuffers
  VzBursts,    \* frames of a burst
  MaxFrames    \* bound on the frames of all bursts
ASSUME VzAssumption == /\ BufSize \in Nat \ {0} /\ Window \in Nat \ {0}
                       /\ Sizes \subseteq 1..BufSize /\ Latencies \subseteq Nat

VARIABLES
  vzState,     \* mState
  vzBuf,       \* mCaptureBuf: the number of the frame in each place, 0 is silence
  vzIdx, vzLast,     \* mCaptureIdx, mLastCaptureIdx
  vzAge,       \* time since mBufferUpdateTime: "none", "new", "stalled", "discard"
  vzSize, vzLatency, vzMeasures,   \* mCaptureSamples, mDownstreamLatency, mMeasurementMode
  vzPast, vzPastIdx, \* mPastMeasurements: the burst of each entry, 0 is not valid
  vzFrames, vzErased, \* frames written, and those of them that reset() erased
  vzMeasured, vzDropped \* bursts measured, and those of them that were discarded
vzVars == <<vzState, vzBuf, vzIdx, vzLast, vzAge, vzSize, vzLatency, vzMeasures, vzPast, vzPastIdx,
            vzFrames, vzErased, vzMeasured, vzDropped>>
vzRing == <<vzBuf, vzIdx, vzLast, vzFrames, vzErased>>
vzSettings == <<vzSize, vzLatency, vzMeasures>>
vzPastVars == <<vzPast, vzPastIdx, vzMeasured, vzDropped>>

Silence == [k \in 0..(BufSize - 1) |-> 0]
Nothing == [k \in 0..(Window - 1) |-> 0]
VzInit ==
  /\ vzState = "INITIALIZED" /\ vzBuf = Silence /\ vzIdx = 0 /\ vzLast = 0 /\ vzAge = "none"
  /\ vzSize = BufSize /\ vzLatency = 0 /\ vzMeasures = FALSE /\ vzPast = Nothing /\ vzPastIdx = 0
  /\ vzFrames = 0 /\ vzErased = 0 /\ vzMeasured = 0 /\ vzDropped = 0

enableCapture == vzState = "INITIALIZED" /\ vzState' = "ACTIVE" /\ UNCHANGED <<vzRing, vzAge, vzSettings, vzPastVars>>
disableCapture == vzState = "ACTIVE" /\ vzState' = "INITIALIZED" /\ UNCHANGED <<vzRing, vzAge, vzSettings, vzPastVars>>
\* reset() silences the ring and keeps its index.
resetCapture ==
  /\ vzBuf' = Silence /\ vzErased' = vzFrames
  /\ UNCHANGED <<vzState, vzIdx, vzLast, vzFrames, vzAge, vzSettings, vzPastVars>>
setParameter ==
  /\ \/ vzSize' \in Sizes /\ UNCHANGED <<vzLatency, vzMeasures>>
     \/ vzLatency' \in Latencies /\ UNCHANGED <<vzSize, vzMeasures>>
     \/ vzMeasures' = ~vzMeasures /\ UNCHANGED <<vzSize, vzLatency>>
  /\ UNCHANGED <<vzState, vzRing, vzAge, vzPastVars>>

----------------------------------------------------------------------------------
\* The index wraps with the next frame that is written, so it may be BufSize.
IndexAfter(n) == ((vzIdx + n - 1) % BufSize) + 1
processCapture(n) ==
  /\ vzState = "ACTIVE" /\ n \in 1..BufSize /\ vzFrames + n <= MaxFrames
  /\ vzBuf' = [k \in 0..(BufSize - 1) |->
                 LET at == (k - vzIdx) % BufSize IN IF at < n THEN vzFrames + at + 1 ELSE vzBuf[k]]
  /\ vzIdx' = IndexAfter(n) /\ vzFrames' = vzFrames + n /\ vzAge' = "new"
  /\ IF vzMeasures
     THEN /\ vzPast' = [vzPast EXCEPT ![vzPastIdx] = vzMeasured + 1]
          /\ vzPastIdx' = (vzPastIdx + 1) % Window /\ vzMeasured' = vzMeasured + 1
     ELSE UNCHANGED <<vzPast, vzPastIdx, vzMeasured>>
  /\ UNCHANGED <<vzState, vzLast, vzErased, vzSettings, vzDropped>>
Time ==
  /\ vzAge \in {"new", "stalled"} /\ vzAge' = IF vzAge = "new" THEN "stalled" ELSE "discard"
  /\ UNCHANGED <<vzState, vzRing, vzSettings, vzPastVars>>

\* capture(): the elapsed time takes from the latency; the part before the beginning
\* of the ring is taken from its end.
\* Mutant: the frames at the beginning are put where those of the end belong.
AtFront(i, wrapped) == i
AfterWrapped(i, wrapped) == i - wrapped
Point(elapsed) ==
  LET offset == IF vzLatency > elapsed THEN vzLatency - elapsed ELSE 0
      delta == IF vzSize + offset > BufSize THEN BufSize ELSE vzSize + offset
  IN vzIdx - delta
Captured(elapsed) ==
  LET point == Point(elapsed)
      wrapped == IF point >= 0 THEN 0 ELSE IF -point > vzSize THEN vzSize ELSE -point
  IN [i \in 0..(vzSize - 1) |->
        IF i < wrapped THEN vzBuf[BufSize - wrapped + i]
        ELSE vzBuf[(IF point < 0 THEN 0 ELSE point) + AfterWrapped(i, wrapped)]]
StaysSilent == vzLast = vzIdx /\ vzAge \in {"stalled", "discard"}
capture ==
  /\ vzState = "ACTIVE"
  /\ IF StaysSilent THEN vzAge' = "none" /\ UNCHANGED vzLast ELSE vzLast' = vzIdx /\ UNCHANGED vzAge
  /\ UNCHANGED <<vzState, vzBuf, vzIdx, vzFrames, vzErased, vzSettings, vzPastVars>>
\* getMeasure() forgets what is older than kDiscardMeasurementsTimeMs.
\* Mutant: the entries stay and only their index begins anew.
IndexOnly(past) == past
Discarded(past) == Nothing
getMeasure ==
  /\ vzAge = "discard" /\ vzPast' = Discarded(vzPast) /\ vzPastIdx' = 0 /\ vzDropped' = vzMeasured
  /\ UNCHANGED <<vzState, vzRing, vzAge, vzSettings, vzMeasured>>

VzNext ==
  enableCapture \/ disableCapture \/ resetCapture \/ setParameter \/ capture \/ getMeasure \/ Time \/ \E n \in VzBursts : processCapture(n)
VzSpec == VzInit /\ [][VzNext]_vzVars

----------------------------------------------------------------------------------
(* A capture is what was played one latency ago and no other part of the ring, in  *)
(* order and without the frames that a reset erased, wherever the ring wraps, as   *)
(* long as the wrapped part is within the capture.                                 *)
CaptureIsInOrder ==
  vzState = "ACTIVE" => \A elapsed \in Latencies :
    LET delta == vzIdx - Point(elapsed)
    IN -Point(elapsed) <= vzSize => \A i \in 0..(vzSize - 1) :
         LET frame == vzFrames - delta + i + 1
         IN Captured(elapsed)[i] = IF frame > vzErased THEN frame ELSE 0

(* A measurement is taken of the last bursts that were measured, each once, and of *)
(* none that was discarded.                                                        *)
MeasuresAreRecent ==
  LET valid == {vzPast[k] : k \in DOMAIN vzPast} \ {0}
  IN /\ valid = (vzDropped + 1)..vzMeasured \ 1..(vzMeasured - Window)
     /\ Cardinality({k \in DOMAIN vzPast : vzPast[k] # 0}) = Cardinality(valid)
================================================================================
