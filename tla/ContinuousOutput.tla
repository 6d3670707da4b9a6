--------------------------- MODULE ContinuousOutput ---------------------------
(***************************************************************************)
(* audio/a2b/ContinuousOutput.{h,cpp}: the process-owned PCM writer and the *)
(* ring buffer of each playback client.  mLock makes every critical section *)
(* one action; what the code does outside the lock (sampling the audible    *)
(* flag, notifying the condition variable, writing the period, joining the  *)
(* thread) is an action of its own.  A frame is its number in the stream of *)
(* its client: sample values, the mix and the clamp are abstracted.         *)
(***************************************************************************)
EXTENDS Integers, FiniteSets, Sequences

CONSTANTS Callers,       \* threads of the streams that use the output
          QueueFrames,   \* kQueueFrames
          PeriodFrames,  \* kPeriodFrames
          MaxClients,    \* bound: clients attached in a behaviour
          MaxOffered,    \* bound: frames offered to one client
          MaxFlushes,    \* bound: flushes of one client
          NoCall         \* the state of a caller that is not in enqueue()

ASSUME SizesAssumption == /\ QueueFrames \in Nat \ {0}
                          /\ PeriodFrames \in Nat \ {0}
                          /\ MaxClients \in Nat
                          /\ MaxOffered \in Nat
                          /\ MaxFlushes \in Nat

ASSUME CallersAssumption == IsFiniteSet(Callers)

VARIABLES
  mClients,      \* client id -> its Queue; the domain is the attached clients
  mNextClient,   \* the id the next attach() returns
  mRunning,      \* cleared by the destructor
  mHealthy,      \* the last period was written
  canceledFrames,\* mStatistics.canceledFrames
  starved,       \* the clients the latest period counted as starved
  audible,       \* what mAudible() returns
  pc,            \* caller -> "idle", "asleep", "awake" or "notify"
  call,          \* caller -> the enqueue() it is in
  wpc,           \* writer: "top", "mix", "notify", "write", "backoff", "done"
  sampled,       \* the writer's local copy of audible
  mix,           \* the frames in the writer's local mix
  dpc            \* destructor: "live", "notify", "join", "gone"

(* What is observed but kept by no variable of the code. *)
VARIABLES
  offered,       \* client -> frames offered to it so far
  barrier,       \* client -> frames offered before its latest flush or detach
  consumed,      \* frames the writer has taken from all queues
  late           \* audible periods written since audible was switched off

queueVars == <<mClients, mNextClient, canceledFrames>>
callVars == <<pc, call>>
writerVars == <<wpc, sampled, mix, starved, mHealthy>>
history == <<offered, barrier, consumed, late>>
vars == <<queueVars, callVars, writerVars, history, mRunning, audible, dpc>>

ClientIds == 1..MaxClients

NewQueue == [samples |-> [i \in 0..QueueFrames - 1 |-> 0], read |-> 0, count |-> 0,
             generation |-> 0, started |-> FALSE, underrunning |-> FALSE]

Init ==
  /\ mClients = <<>> /\ mNextClient = 1 /\ canceledFrames = 0
  /\ mRunning = TRUE /\ mHealthy = FALSE /\ audible = FALSE
  /\ pc = [t \in Callers |-> "idle"]
  /\ call = [t \in Callers |-> NoCall]
  /\ wpc = "top" /\ sampled = FALSE /\ mix = {} /\ starved = {}
  /\ dpc = "live"
  /\ offered = [c \in ClientIds |-> 0]
  /\ barrier = [c \in ClientIds |-> 0]
  /\ consumed = 0 /\ late = 0

-----------------------------------------------------------------------------
(* The ring buffer of a client. *)

Cell(q, i) == (q.read + i) % QueueFrames

\* The first n frames of a queue, oldest first.
Oldest(q, n) == [i \in 1..n |-> q.samples[Cell(q, i - 1)]]

Queued(q) == Oldest(q, q.count)

Smaller(a, b) == IF a <= b THEN a ELSE b

Free(q) == QueueFrames - q.count

\* Mutant: copies to the read position instead of behind the queued frames.
FilledAtRead(q, f, n) ==
  [q EXCEPT !.samples = [j \in DOMAIN @ |->
                           IF \E i \in 0..n - 1 : Cell(q, i) = j
                             THEN f + CHOOSE i \in 0..n - 1 : Cell(q, i) = j
                             ELSE @[j]],
            !.count = @ + n,
            !.started = @ \/ n > 0]

\* Frames f, f + 1, ... f + n - 1 copied behind the queued ones.
Filled(q, f, n) ==
  [q EXCEPT !.samples = [j \in DOMAIN @ |->
                           IF \E i \in 0..n - 1 : Cell(q, q.count + i) = j
                             THEN f + CHOOSE i \in 0..n - 1 : Cell(q, q.count + i) = j
                             ELSE @[j]],
            !.count = @ + n,
            !.started = @ \/ n > 0]

-----------------------------------------------------------------------------
(* The calls of a client. *)

Idle(t) == pc[t] = "idle" /\ dpc = "live"

Attach(t) ==
  /\ Idle(t)
  /\ mNextClient <= MaxClients
  /\ mClients' = [c \in DOMAIN mClients \cup {mNextClient} |->
                    IF c = mNextClient THEN NewQueue ELSE mClients[c]]
  /\ mNextClient' = mNextClient + 1
  /\ UNCHANGED <<canceledFrames, callVars, writerVars, history, mRunning, audible, dpc>>

\* Both end with mSpaceAvailable.notify_all() after the lock is released, even
\* for a client that is not attached.
Detach(t, c) ==
  /\ Idle(t)
  /\ IF c \in DOMAIN mClients
       THEN /\ canceledFrames' = canceledFrames + mClients[c].count
            /\ mClients' = [d \in DOMAIN mClients \ {c} |-> mClients[d]]
            /\ barrier' = [barrier EXCEPT ![c] = offered[c]]
       ELSE UNCHANGED <<canceledFrames, mClients, barrier>>
  /\ pc' = [pc EXCEPT ![t] = "notify"]
  /\ UNCHANGED <<mNextClient, call, writerVars, offered, consumed, late,
                 mRunning, audible, dpc>>

\* Mutant: a flush that a blocked enqueue() cannot notice.
ClearedInPlace(q) == [q EXCEPT !.count = 0, !.started = FALSE, !.underrunning = FALSE]

Cleared(q) == [q EXCEPT !.count = 0, !.generation = @ + 1,
                        !.started = FALSE, !.underrunning = FALSE]

Clear(t, c) ==
  /\ Idle(t)
  /\ IF c \in DOMAIN mClients
       THEN /\ mClients[c].generation < MaxFlushes
            /\ canceledFrames' = canceledFrames + mClients[c].count
            /\ mClients' = [mClients EXCEPT ![c] = Cleared(@)]
            /\ barrier' = [barrier EXCEPT ![c] = offered[c]]
       ELSE UNCHANGED <<canceledFrames, mClients, barrier>>
  /\ pc' = [pc EXCEPT ![t] = "notify"]
  /\ UNCHANGED <<mNextClient, call, writerVars, offered, consumed, late,
                 mRunning, audible, dpc>>

\* notify_all(): every thread in wait() goes on to take the lock again.
Woken == [u \in Callers |-> IF pc[u] = "asleep" THEN "awake" ELSE pc[u]]

Notify(t) ==
  /\ pc[t] = "notify"
  /\ pc' = [Woken EXCEPT ![t] = "idle"]
  /\ UNCHANGED <<queueVars, call, writerVars, history, mRunning, audible, dpc>>

Left(k) == k.last - k.next + 1

\* The condition on which the loop of enqueue() gives up.
Canceled(k) == \/ ~mRunning
               \/ k.client \notin DOMAIN mClients
               \/ mClients[k.client].generation # k.generation

\* The predicate of the wait.
MayProceed(k) == Canceled(k) \/ mClients[k.client].count < QueueFrames

\* Mutant: the rest of the call is not counted.
GiveUpUncounted(t, k) ==
  /\ pc' = [pc EXCEPT ![t] = "idle"]
  /\ call' = [call EXCEPT ![t] = NoCall]
  /\ UNCHANGED <<mClients, canceledFrames>>

GiveUp(t, k) ==
  /\ canceledFrames' = canceledFrames + Left(k)
  /\ pc' = [pc EXCEPT ![t] = "idle"]
  /\ call' = [call EXCEPT ![t] = NoCall]
  /\ UNCHANGED mClients

\* The loop of enqueue() from the point where the lock is held until the call
\* returns or waits: a wait whose predicate is false copies nothing and waits on.
CopyLoop(t, k) ==
  IF Canceled(k)
    THEN GiveUp(t, k)
    ELSE LET q == mClients[k.client]
             n == Smaller(Left(k), Free(q))
         IN /\ mClients' = [mClients EXCEPT ![k.client] = Filled(q, k.next, n)]
            /\ pc' = [pc EXCEPT ![t] = IF n = Left(k) THEN "idle" ELSE "asleep"]
            /\ call' = [call EXCEPT ![t] =
                          IF n = Left(k) THEN NoCall ELSE [k EXCEPT !.next = @ + n]]
            /\ UNCHANGED canceledFrames

Feeds(t, c) == call[t] # NoCall /\ call[t].client = c

\* One thread at a time feeds a client: the worker of the stream that owns it
\* (StreamPrimary::mA2bClient). A call for a client that is not attached
\* returns 0 and changes nothing.
Enqueue(t, c, n) ==
  /\ Idle(t)
  /\ c \in DOMAIN mClients
  /\ ~\E u \in Callers : Feeds(u, c)
  /\ offered[c] + n <= MaxOffered
  /\ offered' = [offered EXCEPT ![c] = @ + n]
  /\ CopyLoop(t, [client |-> c, generation |-> mClients[c].generation,
                  next |-> offered[c] + 1, last |-> offered[c] + n])
  /\ UNCHANGED <<mNextClient, writerVars, barrier, consumed, late, mRunning, audible, dpc>>

Resume(t) ==
  /\ pc[t] = "awake"
  /\ CopyLoop(t, call[t])
  /\ UNCHANGED <<mNextClient, writerVars, history, mRunning, audible, dpc>>

\* The standard lets a condition variable wake a thread for no reason.
SpuriousWake(t) ==
  /\ pc[t] = "asleep"
  /\ pc' = [pc EXCEPT ![t] = "awake"]
  /\ UNCHANGED <<queueVars, call, writerVars, history, mRunning, audible, dpc>>

-----------------------------------------------------------------------------
(* The writer thread. *)

WriterTop ==
  /\ wpc = "top"
  /\ IF mRunning
       THEN wpc' = "mix" /\ sampled' = audible
       ELSE wpc' = "done" /\ UNCHANGED sampled
  /\ mix' = {}
  /\ UNCHANGED <<queueVars, callVars, starved, mHealthy, history, mRunning, audible, dpc>>

Taken(q) == Smaller(q.count, PeriodFrames)

IsStarved(q) == sampled /\ q.started /\ Taken(q) < PeriodFrames

WriterMix ==
  /\ wpc = "mix"
  /\ wpc' = "notify"
  /\ mix' = UNION {{<<c, Oldest(mClients[c], Taken(mClients[c]))[i]>> :
                      i \in 1..Taken(mClients[c])} : c \in DOMAIN mClients}
  /\ mClients' = [c \in DOMAIN mClients |->
                    [mClients[c] EXCEPT
                       !.read = Cell(mClients[c], Taken(mClients[c])),
                       !.count = @ - Taken(mClients[c]),
                       !.underrunning = IsStarved(mClients[c])]]
  /\ starved' = {c \in DOMAIN mClients : IsStarved(mClients[c])}
  /\ consumed' = consumed + Cardinality(mix')
  /\ UNCHANGED <<mNextClient, canceledFrames, callVars, sampled, mHealthy,
                 offered, barrier, late, mRunning, audible, dpc>>

\* Mutant: consuming does not wake the producers.
WriterNotifyNobody ==
  /\ wpc = "notify"
  /\ wpc' = "write"
  /\ UNCHANGED <<queueVars, callVars, sampled, mix, starved, mHealthy, history,
                 mRunning, audible, dpc>>

WriterNotify ==
  /\ wpc = "notify"
  /\ wpc' = "write"
  /\ pc' = Woken
  /\ UNCHANGED <<queueVars, call, sampled, mix, starved, mHealthy, history,
                 mRunning, audible, dpc>>

\* What this period sends to the PCM: silence unless audible was sampled.
Heard == IF sampled THEN mix ELSE {}

\* late saturates at 2: one such period is the sampled copy's, more is a fault.
CountLate == late' = IF Heard # {} /\ ~audible /\ late < 2 THEN late + 1 ELSE late

WriterWriteOk ==
  /\ wpc = "write"
  /\ wpc' = "top"
  /\ mHealthy' = TRUE
  /\ CountLate
  /\ UNCHANGED <<queueVars, callVars, sampled, mix, starved, offered, barrier,
                 consumed, mRunning, audible, dpc>>

\* mFault() is A2bController::clockFailed(): the controller stops allowing audio.
WriterWriteFails ==
  /\ wpc = "write"
  /\ wpc' = "backoff"
  /\ mHealthy' = FALSE
  /\ audible' = FALSE
  /\ CountLate
  /\ UNCHANGED <<queueVars, callVars, sampled, mix, starved, offered, barrier,
                 consumed, mRunning, dpc>>

\* Mutant: retries the same period until the PCM accepts it.
WriterBackoffRetry ==
  /\ wpc = "backoff"
  /\ wpc' = "write"
  /\ UNCHANGED <<queueVars, callVars, sampled, mix, starved, mHealthy, history,
                 mRunning, audible, dpc>>

\* sleep_for(10 ms), then the same PCM is tried again.
WriterBackoff ==
  /\ wpc = "backoff"
  /\ wpc' = "top"
  /\ UNCHANGED <<queueVars, callVars, sampled, mix, starved, mHealthy, history,
                 mRunning, audible, dpc>>

Writer == \/ WriterTop \/ WriterMix \/ WriterNotify
          \/ WriterWriteOk \/ WriterWriteFails \/ WriterBackoff

-----------------------------------------------------------------------------
(* The destructor and the environment. *)

StopRunning ==
  /\ dpc = "live"
  /\ dpc' = "notify"
  /\ mRunning' = FALSE
  /\ UNCHANGED <<queueVars, callVars, writerVars, history, audible>>

\* Mutant: the destructor joins without notify_all().
StopNotifyNobody ==
  /\ dpc = "notify"
  /\ dpc' = "join"
  /\ UNCHANGED <<queueVars, callVars, writerVars, history, mRunning, audible>>

StopNotify ==
  /\ dpc = "notify"
  /\ dpc' = "join"
  /\ pc' = Woken
  /\ UNCHANGED <<queueVars, call, writerVars, history, mRunning, audible>>

StopJoin ==
  /\ dpc = "join"
  /\ wpc = "done"
  /\ dpc' = "gone"
  /\ UNCHANGED <<queueVars, callVars, writerVars, history, mRunning, audible>>

\* The controller allows audio or silences it at any time; it never waits for
\* the writer.
SetAudible ==
  /\ audible' = ~audible
  /\ late' = 0
  /\ UNCHANGED <<queueVars, callVars, writerVars, offered, barrier, consumed,
                 mRunning, dpc>>

-----------------------------------------------------------------------------

Caller(t) == \/ Attach(t)
             \/ \E c \in 1..mNextClient - 1 :
                  \/ Detach(t, c) \/ Clear(t, c)
                  \/ \E n \in 1..MaxOffered : Enqueue(t, c, n)
             \/ Notify(t) \/ Resume(t) \/ SpuriousWake(t)

Next == \/ \E t \in Callers : Caller(t)
        \/ Writer \/ StopRunning \/ StopNotify \/ StopJoin \/ SetAudible

Spec == Init /\ [][Next]_vars

\* A thread that holds a released lock or a delivered notification goes on; the
\* writer's pcm_writei() returns, with success or an error.
Fairness == /\ \A t \in Callers : WF_vars(Notify(t)) /\ WF_vars(Resume(t))
            /\ WF_vars(Writer) /\ WF_vars(StopNotify) /\ WF_vars(StopJoin)

FairSpec == Spec /\ Fairness

-----------------------------------------------------------------------------
(* Properties. *)

Queue == [samples : [0..QueueFrames - 1 -> 0..MaxOffered],
          read : 0..QueueFrames - 1, count : 0..QueueFrames,
          generation : 0..MaxFlushes, started : BOOLEAN, underrunning : BOOLEAN]

EnqueueCall == [client : ClientIds, generation : 0..MaxFlushes,
                next : 1..MaxOffered, last : 1..MaxOffered]

\* The mark of a caller that is not in a call is no call, nor what one owes.
ASSUME NoCallAssumption ==
  /\ NoCall \notin EnqueueCall
  /\ NoCall \notin [client : ClientIds, frames : Seq(Nat), void : BOOLEAN]

\* The types of the variables: a queue never holds more than kQueueFrames and
\* its read index stays inside the ring; a thread that waits is in a call that
\* still owes frames, and no other thread is in one.
TypeOK ==
  /\ mNextClient \in 1..MaxClients + 1
  /\ DOMAIN mClients \subseteq 1..mNextClient - 1
  /\ \A c \in DOMAIN mClients : mClients[c] \in Queue
  /\ canceledFrames \in Nat
  /\ starved \subseteq ClientIds
  /\ mRunning \in BOOLEAN /\ mHealthy \in BOOLEAN /\ audible \in BOOLEAN
  /\ pc \in [Callers -> {"idle", "asleep", "awake", "notify"}]
  /\ DOMAIN call = Callers
  /\ \A t \in Callers : IF pc[t] \in {"asleep", "awake"}
                          THEN call[t] \in EnqueueCall /\ call[t].next <= call[t].last
                          ELSE call[t] = NoCall
  /\ wpc \in {"top", "mix", "notify", "write", "backoff", "done"}
  /\ sampled \in BOOLEAN
  /\ mix \subseteq ClientIds \X (0..MaxOffered)
  /\ dpc \in {"live", "notify", "join", "gone"}
  /\ offered \in [ClientIds -> 0..MaxOffered]
  /\ barrier \in [ClientIds -> 0..MaxOffered]
  /\ consumed \in Nat /\ late \in 0..2

\* The sum of the values of f.
Total(f) == Cardinality(UNION {{x} \X (1..f[x]) : x \in DOMAIN f})

\* The frames in the ring of each client, and what each caller still owes.
Counts == [c \in ClientIds |-> IF c \in DOMAIN mClients THEN mClients[c].count ELSE 0]

OwedFrames == [t \in Callers |-> IF call[t] = NoCall THEN 0 ELSE Left(call[t])]

\* No frame disappears: what was offered is consumed, canceled (and counted so in
\* the status line), queued, or still owed by a blocked call.
Conservation ==
  Total(offered) = consumed + canceledFrames + Total(Counts) + Total(OwedFrames)

Notifying == \/ \E u \in Callers : pc[u] = "notify"
             \/ wpc = "notify"
             \/ dpc = "notify"

\* No wakeup is lost: a thread that sleeps in enqueue() although it could go on
\* (space was freed, its client was flushed or detached, the output stops) has a
\* notify_all() still to come. Each of the four places that change what the
\* predicate reads notifies after it released the lock.
NoLostWakeup ==
  \A t \in Callers : pc[t] = "asleep" /\ MayProceed(call[t]) => Notifying

\* A flush or a detach is final: the writer never mixes a frame that was offered
\* to a client before its latest clear() or detach(), neither one that was in
\* the ring nor one a blocked enqueue() still had to copy.
NoReplay == [][WriterMix => \A p \in mix' : p[2] > barrier[p[1]]]_vars

\* When the controller silences the output, at most the one period whose flag
\* was sampled before is still heard: the flag is read again for each period.
MuteLatency == late <= 1

\* Client c was offered audio since it was attached or flushed; a call that was
\* flushed while it waits does not count.
FedSince(c) == IF \E t \in Callers : Feeds(t, c)
                 THEN \A t \in Callers : Feeds(t, c) => call[t].next > barrier[c] + 1
                 ELSE offered[c] > barrier[c]

\* Underruns are counted only for a client that supplied audio since it was
\* attached or flushed: the silence of an idle client is not an underrun
\* (audio/a2b/README.md: "Idle PCM silence without a started client").
StarvedAfterFed == [][WriterMix => \A c \in starved' : FedSince(c)]_vars

\* A clear() is final for what is heard and for what is counted: no frame from
\* before it is mixed, and silence after it is no underrun until a client offers
\* more. A mute costs at most the period in flight.
NothingStaleIsHeard == NoReplay /\ StarvedAfterFed /\ []MuteLatency

\* Backpressure never becomes a deadlock: enqueue() returns, whatever the mix
\* of flushes, detaches, muting, failing PCM writes and teardown.
EnqueueReturns == \A t \in Callers : call[t] # NoCall ~> call[t] = NoCall

\* The destructor is not held up by a blocked producer or a failing PCM.
TeardownCompletes == dpc = "notify" ~> dpc = "gone"

-----------------------------------------------------------------------------
(* The output implements a FIFO for each client. *)

\* The frames a call can offer.
OfferedFrames == {[i \in 1..n |-> m + i] : n \in 1..MaxOffered, m \in 0..MaxOffered}

Rest(k) == [i \in 1..Left(k) |-> k.next + i - 1]

\* The queue the call was made for is gone: detached or flushed.
Voided(k) == \/ k.client \notin DOMAIN mClients
             \/ mClients[k.client].generation # k.generation

\* What a call still owes, void once its client was flushed or detached.
Owed(k) == IF k = NoCall THEN NoCall
           ELSE [client |-> k.client, frames |-> Rest(k), void |-> Voided(k)]

\* Each ring is the FIFO of its client, each blocked call what it still owes.
Fifo == INSTANCE FrameFifo WITH
          Capacity <- QueueFrames, Period <- PeriodFrames,
          Clients <- ClientIds, Frames <- OfferedFrames,
          fifo <- [c \in DOMAIN mClients |-> Queued(mClients[c])],
          owed <- [t \in Callers |-> Owed(call[t])],
          lost <- canceledFrames, running <- mRunning

\* Every client has an exact FIFO: order is kept, nothing is lost or duplicated
\* by the wrapping copy, and flush and detach void what a blocked call owes.
ImplementsFifo == Fifo!Spec
===============================================================================
