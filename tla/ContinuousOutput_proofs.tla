----------------------- MODULE ContinuousOutput_proofs -----------------------
(* Theorems about ContinuousOutput, for every ring, period and set of callers. *)
EXTENDS ContinuousOutput, FiniteSetTheorems, SequenceTheorems, TLAPS

-----------------------------------------------------------------------------
(* Muting. *)

\* While the output is silenced, the period in flight may still be heard once;
\* after that the writer works with a copy of the flag that is FALSE.
LateInv == /\ late \in 0..1
           /\ audible => late = 0
           /\ ~audible /\ late = 1 /\ wpc \in {"mix", "notify", "write"} => ~sampled

LEMMA LateInit == Init => LateInv
  BY DEF Init, LateInv

\* A step that leaves the flag, its copy and the count alone keeps LateInv if it
\* does not enter the part of the loop that uses the copy.
LEMMA LateFrame ==
  ASSUME LateInv, UNCHANGED <<late, audible, sampled>>,
         wpc' \in {"mix", "notify", "write"} => wpc \in {"mix", "notify", "write"}
  PROVE  LateInv'
  BY DEF LateInv

LEMMA LateCaller ==
  ASSUME LateInv, NEW t \in Callers, Caller(t)
  PROVE  LateInv'
<1> SUFFICES UNCHANGED <<late, audible, sampled, wpc>>
    BY LateFrame
<1>1. CASE Attach(t)
    BY <1>1 DEF Attach, writerVars, history
<1>2. ASSUME NEW c \in 1..mNextClient - 1, Detach(t, c)
      PROVE  UNCHANGED <<late, audible, sampled, wpc>>
    BY <1>2 DEF Detach, writerVars
<1>3. ASSUME NEW c \in 1..mNextClient - 1, Clear(t, c)
      PROVE  UNCHANGED <<late, audible, sampled, wpc>>
    BY <1>3 DEF Clear, writerVars
<1>4. ASSUME NEW c \in 1..mNextClient - 1, NEW n \in 1..MaxOffered, Enqueue(t, c, n)
      PROVE  UNCHANGED <<late, audible, sampled, wpc>>
    BY <1>4 DEF Enqueue, writerVars
<1>5. CASE Notify(t)
    BY <1>5 DEF Notify, writerVars, history
<1>6. CASE Resume(t)
    BY <1>6 DEF Resume, writerVars, history
<1>7. CASE SpuriousWake(t)
    BY <1>7 DEF SpuriousWake, writerVars, history
<1> QED BY <1>1, <1>2, <1>3, <1>4, <1>5, <1>6, <1>7 DEF Caller

LEMMA LateWriter ==
  ASSUME LateInv, Writer
  PROVE  LateInv'
<1>1. CASE WriterTop
    BY <1>1 DEF WriterTop, LateInv, history
<1>2. CASE WriterMix
    BY <1>2, LateFrame DEF WriterMix
<1>3. CASE WriterNotify
    BY <1>3, LateFrame DEF WriterNotify, history
<1>4. CASE WriterWriteOk
    BY <1>4 DEF WriterWriteOk, CountLate, Heard, LateInv
<1>5. CASE WriterWriteFails
    BY <1>5 DEF WriterWriteFails, CountLate, Heard, LateInv
<1>6. CASE WriterBackoff
    BY <1>6, LateFrame DEF WriterBackoff, history
<1> QED BY <1>1, <1>2, <1>3, <1>4, <1>5, <1>6 DEF Writer

LEMMA LateStep == LateInv /\ [Next]_vars => LateInv'
<1> SUFFICES ASSUME LateInv, [Next]_vars PROVE LateInv'
    OBVIOUS
<1>1. ASSUME NEW t \in Callers, Caller(t) PROVE LateInv'
    BY <1>1, LateCaller
<1>2. CASE Writer
    BY <1>2, LateWriter
<1>3. CASE StopRunning
    BY <1>3, LateFrame DEF StopRunning, writerVars, history
<1>4. CASE StopNotify
    BY <1>4, LateFrame DEF StopNotify, writerVars, history
<1>5. CASE StopJoin
    BY <1>5, LateFrame DEF StopJoin, writerVars, history
<1>6. CASE SetAudible
    BY <1>6 DEF SetAudible, LateInv, writerVars
<1>7. CASE UNCHANGED vars
    BY <1>7, LateFrame DEF vars, writerVars, history
<1> QED BY <1>1, <1>2, <1>3, <1>4, <1>5, <1>6, <1>7 DEF Next

\* Silencing takes effect within the period that is in flight, for any period
\* size, number of clients and order of events.
THEOREM MuteTakesEffect == Spec => []MuteLatency
<1>1. LateInv => MuteLatency
    BY DEF LateInv, MuteLatency
<1> QED BY <1>1, LateInit, LateStep, PTL DEF Spec

-----------------------------------------------------------------------------
(* The ring buffer and the types. *)

LEMMA CellInRing ==
  ASSUME NEW q \in Queue, NEW i \in Nat
  PROVE  Cell(q, i) \in 0..QueueFrames - 1
  BY SizesAssumption DEF Cell, Queue

LEMMA OldestFrames ==
  ASSUME NEW q \in Queue, NEW n \in Nat, NEW i \in 1..n
  PROVE  Oldest(q, n)[i] \in 0..MaxOffered
<1>1. Cell(q, i - 1) \in 0..QueueFrames - 1
    BY CellInRing
<1>2. q.samples \in [0..QueueFrames - 1 -> 0..MaxOffered]
    BY DEF Queue
<1> QED BY <1>1, <1>2 DEF Oldest

LEMMA FilledType ==
  ASSUME NEW q \in Queue, NEW f \in 1..MaxOffered, NEW n \in 0..QueueFrames - q.count,
         f + n - 1 <= MaxOffered
  PROVE  /\ Filled(q, f, n) \in Queue
         /\ Filled(q, f, n).count = q.count + n
         /\ Filled(q, f, n).generation = q.generation
<1> DEFINE cells == [j \in DOMAIN q.samples |->
                       IF \E i \in 0..n - 1 : Cell(q, q.count + i) = j
                         THEN f + CHOOSE i \in 0..n - 1 : Cell(q, q.count + i) = j
                         ELSE q.samples[j]]
<1>1. q.samples \in [0..QueueFrames - 1 -> 0..MaxOffered] /\ q.count \in 0..QueueFrames
    BY DEF Queue
<1>2. cells \in [0..QueueFrames - 1 -> 0..MaxOffered]
  <2> SUFFICES ASSUME NEW j \in 0..QueueFrames - 1 PROVE cells[j] \in 0..MaxOffered
      BY <1>1
  <2>1. CASE \E i \in 0..n - 1 : Cell(q, q.count + i) = j
    <3> DEFINE x == CHOOSE i \in 0..n - 1 : Cell(q, q.count + i) = j
    <3>1. x \in 0..n - 1
        BY <2>1
    <3>2. cells[j] = f + x
        BY <2>1, <1>1
    <3> HIDE DEF x, cells
    <3> QED BY <3>1, <3>2, <1>1, SizesAssumption
  <2>2. CASE ~\E i \in 0..n - 1 : Cell(q, q.count + i) = j
      BY <2>2, <1>1
  <2> QED BY <2>1, <2>2
<1>3. Filled(q, f, n) = [q EXCEPT !.samples = cells, !.count = @ + n,
                                  !.started = @ \/ n > 0]
    BY DEF Filled
<1> HIDE DEF cells
<1>4. q.count + n \in 0..QueueFrames /\ (q.started \/ n > 0) \in BOOLEAN
    BY <1>1, SizesAssumption
<1> QED BY <1>2, <1>3, <1>4 DEF Queue

\* The two parts of TypeOK that the critical sections change.
QueuesOK == /\ DOMAIN mClients \subseteq 1..mNextClient - 1
            /\ \A c \in DOMAIN mClients : mClients[c] \in Queue

CallsOK ==
  /\ pc \in [Callers -> {"idle", "asleep", "awake", "notify"}]
  /\ DOMAIN call = Callers
  /\ \A t \in Callers : IF pc[t] \in {"asleep", "awake"}
                          THEN call[t] \in EnqueueCall /\ call[t].next <= call[t].last
                          ELSE call[t] = NoCall

\* What one pass of the loop of enqueue() does to the queue of the call.
LEMMA CopyLoopCopies ==
  ASSUME QueuesOK, NEW t \in Callers, NEW k \in EnqueueCall, k.next <= k.last,
         CopyLoop(t, k), ~Canceled(k)
  PROVE  \E n \in 0..QueueFrames - mClients[k.client].count :
           /\ mClients' = [mClients EXCEPT ![k.client] = Filled(@, k.next, n)]
           /\ n \in 0..Left(k)
           /\ n # Left(k) => n = QueueFrames - mClients[k.client].count
           /\ pc' = [pc EXCEPT ![t] = IF n = Left(k) THEN "idle" ELSE "asleep"]
           /\ call' = [call EXCEPT ![t] = IF n = Left(k) THEN NoCall
                                         ELSE [k EXCEPT !.next = @ + n]]
           /\ canceledFrames' = canceledFrames
<1> DEFINE q == mClients[k.client]
           n == Smaller(Left(k), Free(q))
<1>1. q \in Queue
    BY DEF Canceled, QueuesOK
<1>2. q.count \in 0..QueueFrames /\ Left(k) \in Nat
    BY <1>1 DEF Queue, EnqueueCall, Left
<1>3. /\ n \in 0..QueueFrames - q.count /\ n \in 0..Left(k)
      /\ n # Left(k) => n = QueueFrames - q.count
    BY <1>2, SizesAssumption DEF Smaller, Free
<1>4. /\ mClients' = [mClients EXCEPT ![k.client] = Filled(q, k.next, n)]
      /\ pc' = [pc EXCEPT ![t] = IF n = Left(k) THEN "idle" ELSE "asleep"]
      /\ call' = [call EXCEPT ![t] = IF n = Left(k) THEN NoCall
                                    ELSE [k EXCEPT !.next = @ + n]]
      /\ canceledFrames' = canceledFrames
    BY DEF CopyLoop
<1> HIDE DEF n
<1> QED BY <1>3, <1>4

LEMMA CopyLoopType ==
  ASSUME QueuesOK, CallsOK, canceledFrames \in Nat, UNCHANGED mNextClient,
         NEW t \in Callers, NEW k \in EnqueueCall, k.next <= k.last, CopyLoop(t, k)
  PROVE  QueuesOK' /\ CallsOK' /\ canceledFrames' \in Nat
<1>0. k.next \in 1..MaxOffered /\ k.last \in 1..MaxOffered /\ Left(k) \in Nat
      /\ Left(k) = k.last - k.next + 1
    BY DEF EnqueueCall, Left
<1>1. CASE Canceled(k)
  <2>1. GiveUp(t, k)
      BY <1>1 DEF CopyLoop
  <2> QED BY <2>1, <1>0 DEF GiveUp, QueuesOK, CallsOK
<1>2. CASE ~Canceled(k)
  <2>1. PICK n \in 0..QueueFrames - mClients[k.client].count :
           /\ mClients' = [mClients EXCEPT ![k.client] = Filled(@, k.next, n)]
           /\ n \in 0..Left(k)
           /\ pc' = [pc EXCEPT ![t] = IF n = Left(k) THEN "idle" ELSE "asleep"]
           /\ call' = [call EXCEPT ![t] = IF n = Left(k) THEN NoCall
                                         ELSE [k EXCEPT !.next = @ + n]]
           /\ canceledFrames' = canceledFrames
      BY <1>2, CopyLoopCopies
  <2>2. mClients[k.client] \in Queue /\ k.client \in DOMAIN mClients
      BY <1>2 DEF Canceled, QueuesOK
  <2>3. n \in Nat /\ k.next + n - 1 <= MaxOffered
      BY <1>0, <2>1, SizesAssumption
  <2>4. Filled(mClients[k.client], k.next, n) \in Queue
      BY <1>0, <2>2, <2>3, FilledType
  <2>5. QueuesOK'
      BY <2>1, <2>2, <2>4 DEF QueuesOK
  <2>6. ASSUME n # Left(k)
        PROVE  /\ [k EXCEPT !.next = @ + n] \in EnqueueCall
               /\ [k EXCEPT !.next = @ + n].next <= [k EXCEPT !.next = @ + n].last
    <3>1. k.next + n \in 1..MaxOffered /\ k.next + n <= k.last
        BY <1>0, <2>1, <2>3, <2>6, SizesAssumption
    <3> QED BY <3>1 DEF EnqueueCall
  <2>7. CallsOK'
      BY <2>1, <2>6 DEF CallsOK
  <2> QED BY <2>1, <2>5, <2>7
<1> QED BY <1>1, <1>2

LEMMA EnqueueOfCall ==
  ASSUME TypeOK, NEW c \in DOMAIN mClients, NEW n \in 1..MaxOffered,
         offered[c] + n <= MaxOffered
  PROVE  LET k == [client |-> c, generation |-> mClients[c].generation,
                   next |-> offered[c] + 1, last |-> offered[c] + n]
         IN k \in EnqueueCall /\ k.next <= k.last
<1>1. c \in ClientIds /\ mClients[c] \in Queue
    BY SizesAssumption DEF TypeOK, ClientIds
<1>2. offered[c] \in 0..MaxOffered /\ mClients[c].generation \in 0..MaxFlushes
    BY <1>1 DEF TypeOK, Queue
<1>3. offered[c] + 1 \in 1..MaxOffered /\ offered[c] + n \in 1..MaxOffered
      /\ offered[c] + 1 <= offered[c] + n
    BY <1>2, SizesAssumption
<1> QED BY <1>1, <1>2, <1>3 DEF EnqueueCall

\* The variables that the calls of a client leave alone.
RestOK ==
  /\ starved \subseteq ClientIds
  /\ mRunning \in BOOLEAN /\ mHealthy \in BOOLEAN /\ audible \in BOOLEAN
  /\ wpc \in {"top", "mix", "notify", "write", "backoff", "done"}
  /\ sampled \in BOOLEAN
  /\ mix \subseteq ClientIds \X (0..MaxOffered)
  /\ dpc \in {"live", "notify", "join", "gone"}
  /\ consumed \in Nat /\ late \in 0..2

LEMMA TypeParts ==
  TypeOK <=> /\ mNextClient \in 1..MaxClients + 1 /\ canceledFrames \in Nat
             /\ offered \in [ClientIds -> 0..MaxOffered]
             /\ barrier \in [ClientIds -> 0..MaxOffered]
             /\ QueuesOK /\ CallsOK /\ RestOK
  BY DEF TypeOK, QueuesOK, CallsOK, RestOK

LEMMA TypePartsNext ==
  ASSUME mNextClient' \in 1..MaxClients + 1, canceledFrames' \in Nat,
         offered' \in [ClientIds -> 0..MaxOffered],
         barrier' \in [ClientIds -> 0..MaxOffered],
         QueuesOK', CallsOK', RestOK'
  PROVE  TypeOK'
  BY DEF TypeOK, QueuesOK, CallsOK, RestOK

LEMMA NewQueueType == NewQueue \in Queue
  BY SizesAssumption DEF NewQueue, Queue

LEMMA TypeInit == Init => TypeOK
<1> SUFFICES ASSUME Init PROVE TypeOK
    OBVIOUS
<1>1. mNextClient \in 1..MaxClients + 1 /\ QueuesOK
    BY SizesAssumption DEF Init, QueuesOK
<1>2. CallsOK
    BY DEF Init, CallsOK
<1>3. RestOK
  <2>1. starved = {} /\ mix = {} /\ consumed = 0 /\ late = 0 /\ wpc = "top" /\ dpc = "live"
        /\ sampled = FALSE /\ mRunning = TRUE /\ mHealthy = FALSE /\ audible = FALSE
      BY DEF Init
  <2>2. mix \subseteq ClientIds \X (0..MaxOffered) /\ starved \subseteq ClientIds
      BY <2>1, Zenon
  <2>3. late \in 0..2 /\ consumed \in Nat
      BY <2>1
  <2> QED BY <2>1, <2>2, <2>3 DEF RestOK
<1>4. mNextClient \in 1..MaxClients + 1 /\ canceledFrames \in Nat
    BY <1>1 DEF Init
<1>5. /\ offered \in [ClientIds -> 0..MaxOffered]
      /\ barrier \in [ClientIds -> 0..MaxOffered]
    BY SizesAssumption DEF Init
<1> QED BY <1>1, <1>2, <1>3, <1>4, <1>5, TypeParts

LEMMA ClearedType ==
  ASSUME NEW q \in Queue, q.generation < MaxFlushes
  PROVE  Cleared(q) \in Queue
<1>1. q.generation + 1 \in 0..MaxFlushes /\ 0 \in 0..QueueFrames
    BY SizesAssumption DEF Queue
<1> QED BY <1>1 DEF Cleared, Queue

LEMMA WokenType == CallsOK => Woken \in [Callers -> {"idle", "awake", "notify"}]
  BY DEF CallsOK, Woken

LEMMA TypeAttach ==
  ASSUME TypeOK, NEW t \in Callers, Attach(t)
  PROVE  TypeOK'
<1>1. mNextClient \in 1..MaxClients /\ mNextClient' = mNextClient + 1
    BY SizesAssumption DEF Attach, TypeOK
<1>2. QueuesOK'
    BY <1>1, TypeParts, NewQueueType DEF Attach, QueuesOK
<1>3. CallsOK' /\ RestOK'
    BY TypeParts DEF Attach, CallsOK, RestOK, callVars, writerVars, history
<1> QED BY <1>1, <1>2, <1>3, TypeParts, TypePartsNext, SizesAssumption DEF Attach, history

LEMMA TypeDetach ==
  ASSUME TypeOK, NEW t \in Callers, NEW c \in 1..mNextClient - 1, Detach(t, c)
  PROVE  TypeOK'
<1>1. CallsOK' /\ RestOK'
    BY TypeParts DEF Detach, Idle, CallsOK, RestOK, writerVars
<1>2. CASE c \in DOMAIN mClients
  <2>a. mClients[c] \in Queue /\ mNextClient \in 1..MaxClients + 1
      BY <1>2 DEF TypeOK
  <2>1. mClients[c].count \in Nat /\ c \in ClientIds
      BY <2>a, SizesAssumption DEF Queue, ClientIds
  <2>2. QueuesOK' /\ canceledFrames' \in Nat
      BY <1>2, <2>1, TypeParts DEF Detach, QueuesOK
  <2>3. barrier' \in [ClientIds -> 0..MaxOffered]
      BY <1>2, <2>1 DEF Detach, TypeOK
  <2> QED BY <1>1, <2>2, <2>3, TypeParts, TypePartsNext DEF Detach
<1>3. CASE c \notin DOMAIN mClients
    BY <1>1, <1>3, TypeParts, TypePartsNext DEF Detach, QueuesOK
<1> QED BY <1>2, <1>3

LEMMA TypeClear ==
  ASSUME TypeOK, NEW t \in Callers, NEW c \in 1..mNextClient - 1, Clear(t, c)
  PROVE  TypeOK'
<1>1. CallsOK' /\ RestOK'
    BY TypeParts DEF Clear, Idle, CallsOK, RestOK, writerVars
<1>2. CASE c \in DOMAIN mClients
  <2>a. mClients[c] \in Queue /\ mNextClient \in 1..MaxClients + 1
      BY <1>2 DEF TypeOK
  <2>1. mClients[c].count \in Nat /\ c \in ClientIds
      BY <2>a, SizesAssumption DEF Queue, ClientIds
  <2>2. Cleared(mClients[c]) \in Queue
      BY <1>2, ClearedType DEF Clear, TypeOK
  <2>3. QueuesOK' /\ canceledFrames' \in Nat
      BY <1>2, <2>1, <2>2, TypeParts DEF Clear, QueuesOK
  <2>4. barrier' \in [ClientIds -> 0..MaxOffered]
      BY <1>2, <2>1 DEF Clear, TypeOK
  <2> QED BY <1>1, <2>3, <2>4, TypeParts, TypePartsNext DEF Clear
<1>3. CASE c \notin DOMAIN mClients
    BY <1>1, <1>3, TypeParts, TypePartsNext DEF Clear, QueuesOK
<1> QED BY <1>2, <1>3

LEMMA TypeEnqueue ==
  ASSUME TypeOK, NEW t \in Callers, NEW c \in 1..mNextClient - 1,
         NEW n \in 1..MaxOffered, Enqueue(t, c, n)
  PROVE  TypeOK'
<1> DEFINE k == [client |-> c, generation |-> mClients[c].generation,
                 next |-> offered[c] + 1, last |-> offered[c] + n]
<1>1. c \in DOMAIN mClients /\ offered[c] + n <= MaxOffered /\ CopyLoop(t, k)
      /\ offered' = [offered EXCEPT ![c] = @ + n] /\ mNextClient' = mNextClient
    BY DEF Enqueue
<1>2. k \in EnqueueCall /\ k.next <= k.last
    BY <1>1, EnqueueOfCall
<1> HIDE DEF k
<1>3. QueuesOK' /\ CallsOK' /\ canceledFrames' \in Nat
    BY <1>1, <1>2, CopyLoopType, TypeParts
<1>4. offered' \in [ClientIds -> 0..MaxOffered]
    BY <1>1, SizesAssumption DEF TypeOK, ClientIds
<1>5. RestOK'
    BY TypeParts DEF Enqueue, RestOK, writerVars
<1> QED BY <1>1, <1>3, <1>4, <1>5, TypeParts, TypePartsNext DEF Enqueue

LEMMA TypeResume ==
  ASSUME TypeOK, NEW t \in Callers, Resume(t)
  PROVE  TypeOK'
<1>1. call[t] \in EnqueueCall /\ call[t].next <= call[t].last
    BY DEF Resume, TypeOK
<1>2. QueuesOK' /\ CallsOK' /\ canceledFrames' \in Nat
    BY <1>1, CopyLoopType, TypeParts DEF Resume
<1>3. RestOK'
    BY TypeParts DEF Resume, RestOK, writerVars, history
<1> QED BY <1>2, <1>3, TypeParts, TypePartsNext DEF Resume, history

LEMMA MixType ==
  ASSUME TypeOK, WriterMix
  PROVE  /\ \A c \in DOMAIN mClients' : mClients'[c] \in Queue
         /\ DOMAIN mClients' = DOMAIN mClients
         /\ starved' \subseteq ClientIds
         /\ mix' \subseteq ClientIds \X (0..MaxOffered)
         /\ consumed' \in Nat
<1>1. DOMAIN mClients' = DOMAIN mClients
    BY DEF WriterMix
<1>2. DOMAIN mClients \subseteq ClientIds
    BY SizesAssumption DEF TypeOK, ClientIds
<1>3. ASSUME NEW c \in DOMAIN mClients
      PROVE  /\ mClients[c] \in Queue
             /\ Taken(mClients[c]) \in 0..mClients[c].count
             /\ Taken(mClients[c]) \in Nat
  <2>1. mClients[c] \in Queue
      BY DEF TypeOK
  <2>2. mClients[c].count \in 0..QueueFrames
      BY <2>1 DEF Queue
  <2> QED BY <2>1, <2>2, SizesAssumption DEF Taken, Smaller
<1>4. ASSUME NEW c \in DOMAIN mClients
      PROVE  mClients'[c] \in Queue
  <2> DEFINE q == mClients[c]
  <2>1. q \in Queue /\ Taken(q) \in 0..q.count /\ Taken(q) \in Nat
      BY <1>3
  <2>2. Cell(q, Taken(q)) \in 0..QueueFrames - 1
      BY <2>1, CellInRing
  <2>3. q.count - Taken(q) \in 0..QueueFrames
      BY <2>1, SizesAssumption DEF Queue
  <2>4. IsStarved(q) \in BOOLEAN
      BY <2>1 DEF IsStarved, TypeOK, Queue
  <2>5. mClients'[c] = [q EXCEPT !.read = Cell(q, Taken(q)), !.count = @ - Taken(q),
                                 !.underrunning = IsStarved(q)]
      BY DEF WriterMix
  <2> QED BY <2>1, <2>2, <2>3, <2>4, <2>5 DEF Queue
<1>5. starved' \subseteq ClientIds
    BY <1>2 DEF WriterMix
<1>6. mix' \subseteq ClientIds \X (0..MaxOffered)
  <2> SUFFICES ASSUME NEW p \in mix' PROVE p \in ClientIds \X (0..MaxOffered)
      OBVIOUS
  <2>1. PICK c \in DOMAIN mClients :
          p \in {<<c, Oldest(mClients[c], Taken(mClients[c]))[i]>> :
                  i \in 1..Taken(mClients[c])}
      BY DEF WriterMix
  <2>2. PICK i \in 1..Taken(mClients[c]) :
          p = <<c, Oldest(mClients[c], Taken(mClients[c]))[i]>>
      BY <2>1
  <2>3. Oldest(mClients[c], Taken(mClients[c]))[i] \in 0..MaxOffered
      BY <1>3, OldestFrames
  <2> QED BY <1>2, <2>2, <2>3
<1>7. Cardinality(mix') \in Nat
  <2>1. IsFiniteSet(ClientIds) /\ IsFiniteSet(0..MaxOffered)
      BY FS_Interval, SizesAssumption DEF ClientIds
  <2>2. IsFiniteSet(ClientIds \X (0..MaxOffered))
      BY <2>1, FS_Product
  <2> QED BY <1>6, <2>2, FS_Subset, FS_CardinalityType
<1>8. consumed' \in Nat
  <2>1. consumed' = consumed + Cardinality(mix') /\ consumed \in Nat
      BY DEF WriterMix, TypeOK
  <2> QED BY <1>7, <2>1
<1> QED BY <1>1, <1>4, <1>5, <1>6, <1>8

LEMMA TypeWriter ==
  ASSUME TypeOK, Writer
  PROVE  TypeOK'
<1>1. CASE WriterTop
    BY <1>1 DEF WriterTop, TypeOK, queueVars, callVars, history
<1>2. CASE WriterMix
  <2>1. QueuesOK'
      BY <1>2, MixType DEF WriterMix, QueuesOK, TypeOK
  <2>2. CallsOK'
      BY <1>2 DEF WriterMix, CallsOK, TypeOK, callVars
  <2>3. RestOK'
      BY <1>2, MixType DEF WriterMix, RestOK, TypeOK
  <2> QED BY <1>2, <2>1, <2>2, <2>3, TypeParts, TypePartsNext DEF WriterMix
<1>3. CASE WriterNotify
  <2>1. CallsOK'
      BY <1>3 DEF WriterNotify, CallsOK, TypeOK, Woken
  <2>2. QueuesOK' /\ RestOK'
      BY <1>3 DEF WriterNotify, QueuesOK, RestOK, TypeOK, queueVars, history
  <2> QED BY <1>3, <2>1, <2>2, TypeParts, TypePartsNext DEF WriterNotify, queueVars, history
<1>4. CASE WriterWriteOk
    BY <1>4 DEF WriterWriteOk, CountLate, TypeOK, queueVars, callVars
<1>5. CASE WriterWriteFails
  <2>1. late' \in 0..2
      BY <1>5 DEF WriterWriteFails, CountLate, TypeOK
  <2> QED BY <1>5, <2>1 DEF WriterWriteFails, TypeOK, queueVars, callVars
<1>6. CASE WriterBackoff
    BY <1>6 DEF WriterBackoff, TypeOK, queueVars, callVars, history
<1> QED BY <1>1, <1>2, <1>3, <1>4, <1>5, <1>6 DEF Writer

LEMMA TypeStep == TypeOK /\ [Next]_vars => TypeOK'
<1> SUFFICES ASSUME TypeOK, [Next]_vars PROVE TypeOK'
    OBVIOUS
<1>1. ASSUME NEW t \in Callers, Caller(t) PROVE TypeOK'
  <2>1. CASE Attach(t)
      BY <2>1, TypeAttach
  <2>2. ASSUME NEW c \in 1..mNextClient - 1, Detach(t, c) PROVE TypeOK'
      BY <2>2, TypeDetach
  <2>3. ASSUME NEW c \in 1..mNextClient - 1, Clear(t, c) PROVE TypeOK'
      BY <2>3, TypeClear
  <2>4. ASSUME NEW c \in 1..mNextClient - 1, NEW n \in 1..MaxOffered, Enqueue(t, c, n)
        PROVE  TypeOK'
      BY <2>4, TypeEnqueue
  <2>5. CASE Notify(t)
    <3>1. CallsOK'
        BY <2>5, TypeParts DEF Notify, CallsOK, Woken
    <3>2. QueuesOK' /\ RestOK'
        BY <2>5, TypeParts DEF Notify, QueuesOK, RestOK, queueVars, writerVars, history
    <3> QED BY <2>5, <3>1, <3>2, TypeParts, TypePartsNext DEF Notify, queueVars, history
  <2>6. CASE Resume(t)
      BY <2>6, TypeResume
  <2>7. CASE SpuriousWake(t)
    <3>1. CallsOK'
        BY <2>7, TypeParts DEF SpuriousWake, CallsOK
    <3>2. QueuesOK' /\ RestOK'
        BY <2>7, TypeParts DEF SpuriousWake, QueuesOK, RestOK, queueVars, writerVars, history
    <3> QED BY <2>7, <3>1, <3>2, TypeParts, TypePartsNext DEF SpuriousWake, queueVars, history
  <2> QED BY <1>1, <2>1, <2>2, <2>3, <2>4, <2>5, <2>6, <2>7 DEF Caller
<1>2. CASE Writer
    BY <1>2, TypeWriter
<1>3. CASE StopRunning
    BY <1>3 DEF StopRunning, TypeOK, queueVars, callVars, writerVars, history
<1>4. CASE StopNotify
  <2>1. CallsOK'
      BY <1>4, TypeParts DEF StopNotify, CallsOK, Woken
  <2>2. QueuesOK' /\ RestOK'
      BY <1>4, TypeParts DEF StopNotify, QueuesOK, RestOK, queueVars, writerVars, history
  <2> QED BY <1>4, <2>1, <2>2, TypeParts, TypePartsNext DEF StopNotify, queueVars, history
<1>5. CASE StopJoin
    BY <1>5 DEF StopJoin, TypeOK, queueVars, callVars, writerVars, history
<1>6. CASE SetAudible
    BY <1>6 DEF SetAudible, TypeOK, queueVars, callVars, writerVars
<1>7. CASE UNCHANGED vars
    BY <1>7 DEF vars, TypeOK, queueVars, callVars, writerVars, history
<1> QED BY <1>1, <1>2, <1>3, <1>4, <1>5, <1>6, <1>7 DEF Next

\* Every variable keeps its type for every ring and period size; in particular no
\* interleaving overfills a ring or moves its read index outside.
THEOREM TypeCorrect == Spec => []TypeOK
  BY TypeInit, TypeStep, PTL DEF Spec

-----------------------------------------------------------------------------
(* Wakeups. *)

\* A thread that goes to sleep found its queue full.
LEMMA CopyLoopSleeps ==
  ASSUME TypeOK, NoLostWakeup, UNCHANGED <<wpc, dpc, mRunning>>,
         NEW t \in Callers, pc[t] \in {"idle", "awake"},
         NEW k \in EnqueueCall, k.next <= k.last, CopyLoop(t, k)
  PROVE  NoLostWakeup'
<1> SUFFICES ASSUME NEW u \in Callers, pc'[u] = "asleep", MayProceed(call[u])',
                    ~Notifying
             PROVE  FALSE
  <2>1. Notifying => Notifying'
    <3>1. ASSUME NEW u \in Callers, pc[u] = "notify" PROVE pc'[u] = "notify"
        BY <3>1 DEF CopyLoop, GiveUp, TypeOK
    <3> QED BY <3>1 DEF Notifying
  <2> QED BY <2>1 DEF NoLostWakeup
<1>1. \A v \in Callers : pc[v] = "asleep" => ~MayProceed(call[v])
    BY DEF NoLostWakeup
<1>2. CASE Canceled(k)
  <2>1. UNCHANGED mClients /\ u # t /\ pc[u] = "asleep" /\ call'[u] = call[u]
      BY <1>2 DEF CopyLoop, GiveUp, TypeOK
  <2> QED BY <1>1, <2>1 DEF MayProceed, Canceled
<1>3. CASE ~Canceled(k)
  <2> DEFINE q == mClients[k.client]
  <2>1. PICK n \in 0..QueueFrames - q.count :
           /\ mClients' = [mClients EXCEPT ![k.client] = Filled(@, k.next, n)]
           /\ n \in 0..Left(k)
           /\ n # Left(k) => n = QueueFrames - q.count
           /\ pc' = [pc EXCEPT ![t] = IF n = Left(k) THEN "idle" ELSE "asleep"]
           /\ call' = [call EXCEPT ![t] = IF n = Left(k) THEN NoCall
                                         ELSE [k EXCEPT !.next = @ + n]]
      BY <1>3, CopyLoopCopies, TypeParts
  <2>2. q \in Queue /\ k.client \in DOMAIN mClients /\ q.count \in 0..QueueFrames
      BY <1>3 DEF Canceled, TypeOK, Queue
  <2>3. k.next \in 1..MaxOffered /\ k.next + n - 1 <= MaxOffered /\ n \in Nat
      BY <2>1, <2>2, SizesAssumption DEF EnqueueCall, Left
  <2>4. /\ mClients'[k.client].count = q.count + n
        /\ mClients'[k.client].generation = q.generation
        /\ DOMAIN mClients' = DOMAIN mClients
        /\ \A c \in DOMAIN mClients : c # k.client => mClients'[c] = mClients[c]
      BY <2>1, <2>2, <2>3, FilledType
  <2>5. CASE u = t
    <3>1. /\ n # Left(k) /\ mClients'[k.client].count = QueueFrames
          /\ call'[u].client = k.client /\ call'[u].generation = k.generation
        BY <2>1, <2>2, <2>4, <2>5, SizesAssumption DEF TypeOK, EnqueueCall
    <3> QED BY <1>3, <2>4, <3>1, SizesAssumption DEF MayProceed, Canceled
  <2>6. CASE u # t
    <3>1. pc[u] = "asleep" /\ call'[u] = call[u]
        BY <2>1, <2>6 DEF TypeOK
    <3>2. ~MayProceed(call[u])
        BY <1>1, <3>1
    <3>3. CASE call[u].client = k.client
        BY <2>2, <2>3, <2>4, <3>1, <3>2, <3>3, SizesAssumption DEF MayProceed, Canceled
    <3>4. CASE call[u].client # k.client
        BY <2>4, <3>1, <3>2, <3>4 DEF MayProceed, Canceled
    <3> QED BY <3>3, <3>4
  <2> QED BY <2>5, <2>6
<1> QED BY <1>2, <1>3

LEMMA WakeInit == Init => NoLostWakeup
  BY DEF Init, NoLostWakeup

\* A step after which the same threads can go on keeps NoLostWakeup if it
\* withdraws no announced notification and puts nobody to sleep.
LEMMA WakeFrame ==
  ASSUME NoLostWakeup, UNCHANGED <<mClients, mRunning, call>>,
         \A u \in Callers : pc'[u] = "asleep" => pc[u] = "asleep",
         Notifying => Notifying'
  PROVE  NoLostWakeup'
  BY DEF NoLostWakeup, MayProceed, Canceled

LEMMA NobodyAsleep ==
  ASSUME \A u \in Callers : pc'[u] # "asleep"
  PROVE  NoLostWakeup'
  BY DEF NoLostWakeup

LEMMA WakeCaller ==
  ASSUME TypeOK, NoLostWakeup, NEW t \in Callers, Caller(t)
  PROVE  NoLostWakeup'
<1>1. CASE Attach(t)
  <2>a. UNCHANGED <<pc, call, mRunning, wpc, dpc>>
      BY <1>1 DEF Attach, callVars, writerVars
  <2>b. mNextClient \in Nat /\ DOMAIN mClients \subseteq 1..mNextClient - 1
      BY SizesAssumption DEF TypeOK
  <2>1. mNextClient \notin DOMAIN mClients /\ UNCHANGED <<pc, call, mRunning, wpc, dpc>>
      BY <2>a, <2>b
  <2>2. ASSUME NEW u \in Callers, MayProceed(call[u])' PROVE MayProceed(call[u])
      BY <1>1, <2>1, <2>2 DEF Attach, MayProceed, Canceled
  <2>3. Notifying => Notifying'
      BY <2>1 DEF Notifying
  <2> QED BY <2>1, <2>2, <2>3 DEF NoLostWakeup
<1>2. ASSUME NEW c \in 1..mNextClient - 1, Detach(t, c) PROVE NoLostWakeup'
    BY <1>2 DEF Detach, NoLostWakeup, Notifying, TypeOK
<1>3. ASSUME NEW c \in 1..mNextClient - 1, Clear(t, c) PROVE NoLostWakeup'
    BY <1>3 DEF Clear, NoLostWakeup, Notifying, TypeOK
<1>4. ASSUME NEW c \in 1..mNextClient - 1, NEW n \in 1..MaxOffered, Enqueue(t, c, n)
      PROVE  NoLostWakeup'
  <2> DEFINE k == [client |-> c, generation |-> mClients[c].generation,
                   next |-> offered[c] + 1, last |-> offered[c] + n]
  <2>1. c \in DOMAIN mClients /\ offered[c] + n <= MaxOffered /\ CopyLoop(t, k)
        /\ pc[t] = "idle" /\ UNCHANGED <<wpc, dpc, mRunning>>
      BY <1>4 DEF Enqueue, Idle, writerVars
  <2>2. k \in EnqueueCall /\ k.next <= k.last
      BY <2>1, EnqueueOfCall
  <2> HIDE DEF k
  <2> QED BY <2>1, <2>2, CopyLoopSleeps
<1>5. CASE Notify(t)
    BY <1>5, NobodyAsleep DEF Notify, Woken, TypeOK
<1>6. CASE Resume(t)
  <2>1. call[t] \in EnqueueCall /\ call[t].next <= call[t].last /\ pc[t] = "awake"
        /\ UNCHANGED <<wpc, dpc, mRunning>> /\ CopyLoop(t, call[t])
      BY <1>6 DEF Resume, TypeOK, writerVars
  <2> QED BY <2>1, CopyLoopSleeps
<1>7. CASE SpuriousWake(t)
  <2>1. \A u \in Callers : pc'[u] = "asleep" => pc[u] = "asleep"
      BY <1>7 DEF SpuriousWake, TypeOK
  <2>2. \A u \in Callers : pc[u] = "notify" => pc'[u] = "notify"
      BY <1>7 DEF SpuriousWake, TypeOK
  <2>3. /\ UNCHANGED <<mClients, mRunning, call>>
        /\ wpc' = wpc /\ dpc' = dpc
      BY <1>7 DEF SpuriousWake, queueVars, writerVars
  <2>4. Notifying => Notifying'
      BY <2>2, <2>3 DEF Notifying
  <2> QED BY <2>1, <2>3, <2>4, WakeFrame
<1> QED BY <1>1, <1>2, <1>3, <1>4, <1>5, <1>6, <1>7 DEF Caller

LEMMA WakeStep == TypeOK /\ NoLostWakeup /\ [Next]_vars => NoLostWakeup'
<1> SUFFICES ASSUME TypeOK, NoLostWakeup, [Next]_vars PROVE NoLostWakeup'
    OBVIOUS
<1>1. ASSUME NEW t \in Callers, Caller(t) PROVE NoLostWakeup'
    BY <1>1, WakeCaller
<1>2. ASSUME UNCHANGED <<mClients, mRunning, call, pc, dpc>>,
             wpc = "notify" => wpc' = "notify"
      PROVE  NoLostWakeup'
  <2>1. Notifying => Notifying'
      BY <1>2 DEF Notifying
  <2> QED BY <1>2, <2>1, WakeFrame
<1>3. CASE Writer
  <2>1. CASE WriterTop
      BY <1>2, <2>1 DEF WriterTop, queueVars, callVars
  <2>2. CASE WriterMix
      BY <2>2 DEF WriterMix, NoLostWakeup, Notifying
  <2>3. CASE WriterNotify
      BY <2>3, NobodyAsleep DEF WriterNotify, Woken, TypeOK
  <2>4. CASE WriterWriteOk
      BY <1>2, <2>4 DEF WriterWriteOk, queueVars, callVars
  <2>5. CASE WriterWriteFails
      BY <1>2, <2>5 DEF WriterWriteFails, queueVars, callVars
  <2>6. CASE WriterBackoff
      BY <1>2, <2>6 DEF WriterBackoff, queueVars, callVars
  <2> QED BY <1>3, <2>1, <2>2, <2>3, <2>4, <2>5, <2>6 DEF Writer
<1>4. CASE StopRunning
    BY <1>4 DEF StopRunning, NoLostWakeup, Notifying
<1>5. CASE StopNotify
    BY <1>5, NobodyAsleep DEF StopNotify, Woken, TypeOK
<1>6. CASE StopJoin
  <2>1. UNCHANGED <<mClients, mRunning, call, pc, wpc>> /\ dpc # "notify"
      BY <1>6 DEF StopJoin, queueVars, callVars, writerVars
  <2>2. Notifying => Notifying'
      BY <2>1 DEF Notifying
  <2> QED BY <2>1, <2>2, WakeFrame
<1>7. CASE SetAudible
    BY <1>2, <1>7 DEF SetAudible, queueVars, callVars, writerVars
<1>8. CASE UNCHANGED vars
    BY <1>2, <1>8 DEF vars, queueVars, callVars, writerVars
<1> QED BY <1>1, <1>3, <1>4, <1>5, <1>6, <1>7, <1>8 DEF Next

\* enqueue() never sleeps through a change it waits for, for every number of
\* producers, clients and frames.
THEOREM WakeupsReachWaiters == Spec => []NoLostWakeup
  BY WakeInit, WakeStep, TypeCorrect, PTL DEF Spec

-----------------------------------------------------------------------------
(* The ring as a queue. *)

LEMMA Quotient ==
  ASSUME NEW n \in Nat \ {0}, NEW x \in Int
  PROVE  /\ x = n * (x \div n) + (x % n)
         /\ x % n \in 0..n - 1 /\ x \div n \in Int
  OBVIOUS

LEMMA Multiple ==
  ASSUME NEW n \in Nat \ {0}, NEW d \in Int
  PROVE  /\ d >= 1 => n * d >= n
         /\ d >= 2 => n * d >= 2 * n
         /\ d <= -1 => n * d <= -n
         /\ d = 0 => n * d = 0
         /\ d = 1 => n * d = n
  OBVIOUS

\* A remainder of less than twice the divisor wraps at most once.
LEMMA RemainderOfSum ==
  ASSUME NEW n \in Nat \ {0}, NEW x \in Int, 0 <= x, x < 2 * n
  PROVE  x % n = IF x < n THEN x ELSE x - n
<1> DEFINE d == x \div n
           r == x % n
<1>1. x = n * d + r /\ r \in 0..n - 1 /\ d \in Int
    BY Quotient
<1>2. /\ d >= 1 => n * d >= n
      /\ d >= 2 => n * d >= 2 * n
      /\ d <= -1 => n * d <= -n
      /\ d = 0 => n * d = 0
      /\ d = 1 => n * d = n
    BY <1>1, Multiple
<1>3. d = 0 \/ d = 1 \/ d >= 2 \/ d <= -1
    BY <1>1
<1> HIDE DEF d, r
<1>4. r = IF x < n THEN x ELSE x - n
  <2> DEFINE m == n * d
  <2>1. m \in Int
      BY <1>1
  <2> HIDE DEF m
  <2> QED BY <1>1, <1>2, <1>3, <2>1 DEF m
<1> QED BY <1>4 DEF r

LEMMA RemainderWraps ==
  ASSUME NEW n \in Nat \ {0}, NEW a \in 0..n - 1, NEW b \in 0..n
  PROVE  (a + b) % n = IF a + b < n THEN a + b ELSE a + b - n
<1> DEFINE x == a + b
<1>1. x \in Int /\ 0 <= x /\ x < 2 * n
    OBVIOUS
<1> HIDE DEF x
<1>2. x % n = IF x < n THEN x ELSE x - n
    BY <1>1, RemainderOfSum
<1> QED BY <1>2 DEF x

\* Inside the ring the remainder of Cell() wraps at most once.
LEMMA CellWraps ==
  ASSUME NEW q \in Queue, NEW i \in 0..QueueFrames
  PROVE  Cell(q, i) = IF q.read + i < QueueFrames THEN q.read + i
                                                  ELSE q.read + i - QueueFrames
<1>1. q.read \in 0..QueueFrames - 1
    BY DEF Queue
<1> QED BY <1>1, RemainderWraps, SizesAssumption DEF Cell

LEMMA CellDistinct ==
  ASSUME NEW q \in Queue, NEW i \in 0..QueueFrames - 1, NEW j \in 0..QueueFrames - 1,
         Cell(q, i) = Cell(q, j)
  PROVE  i = j
<1>1. q.read \in 0..QueueFrames - 1
    BY DEF Queue
<1> QED BY <1>1, CellWraps, SizesAssumption

\* Filled() leaves the queued frames and writes the new ones behind them.
LEMMA FilledFrames ==
  ASSUME NEW q \in Queue, NEW f \in 1..MaxOffered, NEW n \in 0..QueueFrames - q.count
  PROVE  /\ Filled(q, f, n).read = q.read
         /\ Filled(q, f, n).count = q.count + n
         /\ Filled(q, f, n).started = (q.started \/ n > 0)
         /\ \A i \in 0..q.count - 1 :
              Filled(q, f, n).samples[Cell(q, i)] = q.samples[Cell(q, i)]
         /\ \A i \in 0..n - 1 : Filled(q, f, n).samples[Cell(q, q.count + i)] = f + i
<1> DEFINE cells == [j \in DOMAIN q.samples |->
                       IF \E i \in 0..n - 1 : Cell(q, q.count + i) = j
                         THEN f + CHOOSE i \in 0..n - 1 : Cell(q, q.count + i) = j
                         ELSE q.samples[j]]
<1>1. /\ DOMAIN q.samples = 0..QueueFrames - 1
      /\ q.count \in 0..QueueFrames
    BY DEF Queue
<1>2. Filled(q, f, n) = [q EXCEPT !.samples = cells, !.count = @ + n,
                                  !.started = @ \/ n > 0]
    BY DEF Filled
<1>3. ASSUME NEW i \in 0..q.count - 1
      PROVE  cells[Cell(q, i)] = q.samples[Cell(q, i)]
  <2>1. Cell(q, i) \in DOMAIN q.samples
      BY <1>1, CellInRing
  <2>2. \A k \in 0..n - 1 : Cell(q, q.count + k) # Cell(q, i)
    <3> SUFFICES ASSUME NEW k \in 0..n - 1, Cell(q, q.count + k) = Cell(q, i)
                 PROVE  FALSE
        OBVIOUS
    <3>1. q.count + k \in 0..QueueFrames - 1 /\ i \in 0..QueueFrames - 1
        BY <1>1, SizesAssumption
    <3>2. q.count + k = i
        BY <3>1, CellDistinct
    <3> QED BY <1>1, <3>2
  <2> QED BY <2>1, <2>2
<1>4. ASSUME NEW i \in 0..n - 1
      PROVE  cells[Cell(q, q.count + i)] = f + i
  <2> DEFINE x == CHOOSE k \in 0..n - 1 : Cell(q, q.count + k) = Cell(q, q.count + i)
  <2>0. q.count + i \in 0..QueueFrames - 1 /\ q.count + i \in Nat
      BY <1>1, SizesAssumption
  <2>1. q.count + i \in 0..QueueFrames - 1 /\ Cell(q, q.count + i) \in DOMAIN q.samples
      BY <1>1, <2>0, CellInRing
  <2>2. x \in 0..n - 1 /\ Cell(q, q.count + x) = Cell(q, q.count + i)
    <3>1. \E k \in 0..n - 1 : Cell(q, q.count + k) = Cell(q, q.count + i)
        OBVIOUS
    <3> QED BY <3>1, Zenon
  <2>3. cells[Cell(q, q.count + i)] = f + x
      BY <2>1
  <2> HIDE DEF x, cells
  <2>4. q.count + x \in 0..QueueFrames - 1
      BY <1>1, <2>2, SizesAssumption
  <2>5. q.count + x = q.count + i
      BY <2>1, <2>2, <2>4, CellDistinct
  <2> QED BY <1>1, <2>2, <2>3, <2>5
<1> HIDE DEF cells
<1>5. DOMAIN q = {"samples", "read", "count", "generation", "started", "underrunning"}
    BY DEF Queue
<1> QED BY <1>1, <1>2, <1>3, <1>4, <1>5 DEF Queue

\* What the writer leaves of a queue when it takes n frames.
Advanced(q, n) == [q EXCEPT !.read = Cell(q, n), !.count = @ - n,
                            !.underrunning = IsStarved(q)]

LEMMA AdvancedCell ==
  ASSUME NEW q \in Queue, NEW n \in 0..q.count, NEW i \in 0..q.count - n
  PROVE  Cell(Advanced(q, n), i) = Cell(q, n + i)
<1>1. q.count \in 0..QueueFrames /\ q.read \in 0..QueueFrames - 1
    BY DEF Queue
<1>2. Advanced(q, n).read = Cell(q, n)
    BY DEF Advanced, Queue
<1>3. n \in 0..QueueFrames /\ i \in 0..QueueFrames /\ n + i \in 0..QueueFrames
    BY <1>1, SizesAssumption
<1>4. Cell(q, n) = IF q.read + n < QueueFrames THEN q.read + n
                                               ELSE q.read + n - QueueFrames
    BY <1>3, CellWraps
<1>5. Cell(q, n + i) = IF q.read + (n + i) < QueueFrames THEN q.read + (n + i)
                                                   ELSE q.read + (n + i) - QueueFrames
    BY <1>3, CellWraps
<1>6. Cell(Advanced(q, n), i) = (Cell(q, n) + i) % QueueFrames
    BY <1>2 DEF Cell
<1>7. Cell(q, n) \in 0..QueueFrames - 1
    BY <1>3, CellInRing
<1> DEFINE a == Cell(q, n)
<1> HIDE DEF a
<1>8. (a + i) % QueueFrames = IF a + i < QueueFrames THEN a + i ELSE a + i - QueueFrames
    BY <1>3, <1>7, RemainderWraps, SizesAssumption DEF a
<1>9. a = IF q.read + n < QueueFrames THEN q.read + n ELSE q.read + n - QueueFrames
    BY <1>4 DEF a
<1>10. (a + i) % QueueFrames = IF q.read + (n + i) < QueueFrames THEN q.read + (n + i)
                                                   ELSE q.read + (n + i) - QueueFrames
  <2> DEFINE r == q.read
             c == q.count
  <2>1. r \in 0..QueueFrames - 1 /\ c \in 0..QueueFrames /\ n \in 0..c /\ i \in 0..c - n
      BY <1>1
  <2>2. a = IF r + n < QueueFrames THEN r + n ELSE r + n - QueueFrames
      BY <1>9
  <2> HIDE DEF r, c
  <2>3. IF a + i < QueueFrames
          THEN a + i = IF r + (n + i) < QueueFrames THEN r + (n + i)
                                                    ELSE r + (n + i) - QueueFrames
          ELSE a + i - QueueFrames = IF r + (n + i) < QueueFrames THEN r + (n + i)
                                                    ELSE r + (n + i) - QueueFrames
      BY <2>1, <2>2, SizesAssumption
  <2> QED BY <1>8, <2>3 DEF r
<1> QED BY <1>5, <1>6, <1>10 DEF a

-----------------------------------------------------------------------------
(* Nothing stale is heard. *)

\* A call whose client is attached and was not flushed since.
Live(k) == k.client \in DOMAIN mClients /\ mClients[k.client].generation = k.generation

FreshCalls ==
  \A t \in Callers : call[t] # NoCall =>
    /\ call[t].client < mNextClient
    /\ call[t].last <= offered[call[t].client]
    /\ call[t].client \in DOMAIN mClients =>
         call[t].generation <= mClients[call[t].client].generation
    /\ Live(call[t]) => call[t].next > barrier[call[t].client]

FreshFrames ==
  \A c \in DOMAIN mClients : \A i \in 0..mClients[c].count - 1 :
    mClients[c].samples[Cell(mClients[c], i)] > barrier[c]

OneFeeder == \A c \in ClientIds : \A t, u \in Callers :
               Feeds(t, c) /\ Feeds(u, c) => t = u

StartedFed ==
  \A c \in DOMAIN mClients : /\ mClients[c].count > 0 => mClients[c].started
                             /\ mClients[c].started => FedSince(c)

\* Calls and frames are newer than the latest flush, and a queue that was fed
\* says so.
FreshInv == /\ \A c \in ClientIds : barrier[c] <= offered[c]
            /\ FreshCalls /\ FreshFrames /\ OneFeeder /\ StartedFed

LEMMA FreshInit == Init => FreshInv
  BY DEF Init, FreshInv, FreshCalls, FreshFrames, OneFeeder, StartedFed, Feeds

LEMMA FreshFrame ==
  ASSUME FreshInv, UNCHANGED <<mClients, mNextClient, call, offered, barrier>>
  PROVE  FreshInv'
  BY DEF FreshInv, FreshCalls, FreshFrames, OneFeeder, StartedFed, FedSince, Feeds, Live,
         Cell

\* A call is made for an attached or former client.
LEMMA CallIsCall ==
  ASSUME TypeOK, NEW t \in Callers, call[t] # NoCall
  PROVE  /\ call[t] \in EnqueueCall /\ call[t].next <= call[t].last
         /\ pc[t] \in {"asleep", "awake"}
  BY DEF TypeOK

LEMMA FreshAttach ==
  ASSUME TypeOK, FreshInv, NEW t \in Callers, Attach(t)
  PROVE  FreshInv'
<1>1. /\ UNCHANGED <<call, offered, barrier>>
      /\ mNextClient \in 1..MaxClients /\ mNextClient' = mNextClient + 1
      /\ DOMAIN mClients' = DOMAIN mClients \cup {mNextClient}
      /\ mClients'[mNextClient] = NewQueue
      /\ \A c \in DOMAIN mClients : c < mNextClient /\ mClients'[c] = mClients[c]
    BY SizesAssumption DEF Attach, callVars, history, TypeOK
<1>2. ASSUME NEW u \in Callers, call[u] # NoCall
      PROVE  call[u].client # mNextClient /\ call[u].client < mNextClient'
    BY <1>1, <1>2, CallIsCall, SizesAssumption
       DEF FreshInv, FreshCalls, EnqueueCall, ClientIds
<1>3. FreshCalls'
    BY <1>1, <1>2 DEF FreshInv, FreshCalls, Live
<1>4. FreshFrames' /\ StartedFed'
    BY <1>1 DEF FreshInv, FreshFrames, StartedFed, FedSince, Feeds, NewQueue, Cell
<1> QED BY <1>1, <1>3, <1>4 DEF FreshInv, OneFeeder, Feeds

\* What is left of FreshInv to show when a client is flushed or detached.
LEMMA FreshBarrier ==
  ASSUME TypeOK, FreshInv, NEW c \in ClientIds, UNCHANGED <<call, offered, mNextClient>>,
         barrier' = [barrier EXCEPT ![c] = offered[c]],
         \A d \in DOMAIN mClients' : d # c => d \in DOMAIN mClients
                                             /\ mClients'[d] = mClients[d],
         c \in DOMAIN mClients' => /\ c \in DOMAIN mClients
                                   /\ mClients'[c] = Cleared(mClients[c])
  PROVE  FreshInv'
<1>1. \A d \in ClientIds : /\ offered[d] \in 0..MaxOffered /\ barrier[d] \in 0..MaxOffered
                           /\ barrier'[d] = IF d = c THEN offered[d] ELSE barrier[d]
    BY DEF TypeOK
<1>2. \A d \in DOMAIN mClients' : d \in ClientIds /\ mClients[d] \in Queue
    BY SizesAssumption DEF TypeOK, ClientIds
<1>3. c \in DOMAIN mClients' =>
        /\ mClients'[c].count = 0 /\ mClients'[c].started = FALSE
        /\ mClients'[c].generation = mClients[c].generation + 1
        /\ mClients[c].generation \in Nat
  <2> SUFFICES ASSUME c \in DOMAIN mClients'
               PROVE  /\ mClients'[c].count = 0 /\ mClients'[c].started = FALSE
                      /\ mClients'[c].generation = mClients[c].generation + 1
                      /\ mClients[c].generation \in Nat
      OBVIOUS
  <2> DEFINE q == mClients[c]
  <2>1. q \in Queue /\ mClients'[c] = Cleared(q)
      BY <1>2
  <2> HIDE DEF q
  <2>2. mClients'[c].count = 0 /\ mClients'[c].generation = q.generation + 1
        /\ q.generation \in Nat
      BY <2>1 DEF Cleared, Queue
  <2>3. mClients'[c].started = FALSE
      BY <2>1 DEF Cleared, Queue
  <2> QED BY <2>2, <2>3 DEF q
<1>4. FreshCalls'
  <2> SUFFICES ASSUME NEW t \in Callers, call[t] # NoCall
               PROVE  /\ call[t].client < mNextClient
                      /\ call[t].last <= offered[call[t].client]
                      /\ call[t].client \in DOMAIN mClients' =>
                           call[t].generation <= mClients'[call[t].client].generation
                      /\ Live(call[t])' => call[t].next > barrier'[call[t].client]
      BY DEF FreshCalls
  <2>1. /\ call[t].client < mNextClient
        /\ call[t].last <= offered[call[t].client]
        /\ call[t].client \in DOMAIN mClients =>
             call[t].generation <= mClients[call[t].client].generation
        /\ Live(call[t]) => call[t].next > barrier[call[t].client]
      BY DEF FreshInv, FreshCalls
  <2>2. call[t].client \in ClientIds /\ call[t].generation \in Nat
      BY CallIsCall, SizesAssumption DEF EnqueueCall
  <2>3. CASE call[t].client = c
      BY <1>3, <2>1, <2>2, <2>3 DEF Live
  <2>4. CASE call[t].client # c
      BY <1>1, <2>1, <2>2, <2>4 DEF Live
  <2> QED BY <2>3, <2>4
<1>5. FreshFrames' /\ StartedFed'
    BY <1>1, <1>2, <1>3 DEF FreshInv, FreshFrames, StartedFed, FedSince, Feeds, Cell
<1> QED BY <1>1, <1>4, <1>5 DEF FreshInv, OneFeeder, Feeds

LEMMA FreshDetach ==
  ASSUME TypeOK, FreshInv, NEW t \in Callers, NEW c \in 1..mNextClient - 1, Detach(t, c)
  PROVE  FreshInv'
<1>1. UNCHANGED <<call, offered, mNextClient>>
    BY DEF Detach
<1>2. CASE c \in DOMAIN mClients
  <2>1. c \in ClientIds
      BY <1>2, SizesAssumption DEF TypeOK, ClientIds
  <2> QED BY <1>1, <1>2, <2>1, FreshBarrier DEF Detach
<1>3. CASE c \notin DOMAIN mClients
    BY <1>1, <1>3, FreshFrame DEF Detach
<1> QED BY <1>2, <1>3

LEMMA FreshClear ==
  ASSUME TypeOK, FreshInv, NEW t \in Callers, NEW c \in 1..mNextClient - 1, Clear(t, c)
  PROVE  FreshInv'
<1>1. UNCHANGED <<call, offered, mNextClient>>
    BY DEF Clear
<1>2. CASE c \in DOMAIN mClients
  <2>1. c \in ClientIds
      BY <1>2, SizesAssumption DEF TypeOK, ClientIds
  <2> QED BY <1>1, <1>2, <2>1, FreshBarrier DEF Clear
<1>3. CASE c \notin DOMAIN mClients
    BY <1>1, <1>3, FreshFrame DEF Clear
<1> QED BY <1>2, <1>3

\* The loop of enqueue(), for a call that is live or already void and is the only
\* one of its client.
LEMMA FreshCopyLoop ==
  ASSUME TypeOK, FreshInv, UNCHANGED <<barrier, mNextClient>>,
         NEW t \in Callers, NEW k \in EnqueueCall, k.next <= k.last, CopyLoop(t, k),
         call[t] \in {NoCall, k},
         offered' \in [ClientIds -> 0..MaxOffered],
         \A c \in ClientIds : offered'[c] >= offered[c]
                              /\ (c # k.client => offered'[c] = offered[c]),
         k.client < mNextClient, k.last <= offered'[k.client],
         k.client \in DOMAIN mClients => k.generation <= mClients[k.client].generation,
         Live(k) => k.next > barrier[k.client],
         \A u \in Callers \ {t} : ~Feeds(u, k.client),
         k.client \in DOMAIN mClients /\ mClients[k.client].started
           => k.next > barrier[k.client] + 1
  PROVE  FreshInv'
<1> DEFINE c == k.client
<1>1. /\ c \in ClientIds /\ k.next \in 1..MaxOffered /\ k.last \in 1..MaxOffered
      /\ barrier[c] \in 0..MaxOffered /\ offered[c] \in 0..MaxOffered
      /\ offered'[c] \in 0..MaxOffered /\ Left(k) = k.last - k.next + 1
    BY DEF TypeOK, EnqueueCall, Left
<1>2. \A d \in ClientIds : barrier'[d] <= offered'[d]
    BY DEF FreshInv, TypeOK
<1>3. ASSUME NEW u \in Callers \ {t}, call[u] # NoCall
      PROVE  call[u].client # c /\ call[u].client \in ClientIds
             /\ offered'[call[u].client] = offered[call[u].client]
    BY <1>3, CallIsCall DEF Feeds, EnqueueCall
<1>4. CASE Canceled(k)
  <2>1. UNCHANGED mClients /\ call' = [call EXCEPT ![t] = NoCall]
      BY <1>4 DEF CopyLoop, GiveUp
  <2>2. call'[t] = NoCall /\ \A u \in Callers \ {t} : call'[u] = call[u]
      BY <2>1 DEF TypeOK
  <2>3. FreshCalls'
      BY <1>3, <2>1, <2>2 DEF FreshInv, FreshCalls, Live
  <2>4. FreshFrames' /\ OneFeeder'
      BY <2>1, <2>2 DEF FreshInv, FreshFrames, OneFeeder, Feeds, Cell
  <2>5. StartedFed'
    <3> SUFFICES ASSUME NEW d \in DOMAIN mClients, mClients[d].started
                 PROVE  FedSince(d)'
        BY <2>1 DEF FreshInv, StartedFed
    <3>1. CASE d = c
        BY <1>1, <2>1, <2>2, <3>1 DEF FedSince, Feeds
    <3>2. CASE d # c
      <4>1. d \in ClientIds /\ FedSince(d)
          BY SizesAssumption DEF TypeOK, ClientIds, FreshInv, StartedFed
      <4>2. \A u \in Callers : /\ Feeds(u, d)' <=> Feeds(u, d)
                               /\ Feeds(u, d)' => call'[u] = call[u]
          BY <2>2, <3>2 DEF Feeds
      <4> QED BY <3>2, <4>1, <4>2 DEF FedSince
    <3> QED BY <3>1, <3>2
  <2> QED BY <1>2, <2>3, <2>4, <2>5 DEF FreshInv
<1>5. CASE ~Canceled(k)
  <2> DEFINE q == mClients[c]
  <2>1. PICK n \in 0..QueueFrames - q.count :
           /\ mClients' = [mClients EXCEPT ![c] = Filled(@, k.next, n)]
           /\ n \in 0..Left(k)
           /\ n # Left(k) => n = QueueFrames - q.count
           /\ pc' = [pc EXCEPT ![t] = IF n = Left(k) THEN "idle" ELSE "asleep"]
           /\ call' = [call EXCEPT ![t] = IF n = Left(k) THEN NoCall
                                         ELSE [k EXCEPT !.next = @ + n]]
      BY <1>5, CopyLoopCopies, TypeParts
  <2>2. /\ c \in DOMAIN mClients /\ q \in Queue /\ q.count \in 0..QueueFrames
        /\ Live(k) /\ n \in Nat /\ q.started \in BOOLEAN
      BY SMTT(30), <1>5, <2>1, SizesAssumption DEF Canceled, TypeOK, Queue, Live
  <2>3. /\ mClients'[c] = Filled(q, k.next, n) /\ DOMAIN mClients' = DOMAIN mClients
        /\ \A d \in DOMAIN mClients : d # c => mClients'[d] = mClients[d]
      BY <2>1, <2>2
  <2>4. /\ mClients'[c].count = q.count + n /\ mClients'[c].generation = q.generation
        /\ mClients'[c].read = q.read
        /\ mClients'[c].started = (q.started \/ n > 0)
        /\ \A i \in 0..q.count - 1 :
             mClients'[c].samples[Cell(q, i)] = q.samples[Cell(q, i)]
        /\ \A i \in 0..n - 1 : mClients'[c].samples[Cell(q, q.count + i)] = k.next + i
      BY <1>1, <2>1, <2>2, <2>3, FilledFrames, FilledType, SizesAssumption
  <2>5. /\ \A u \in Callers \ {t} : call'[u] = call[u]
        /\ n = Left(k) => call'[t] = NoCall
        /\ n # Left(k) => call'[t] = [k EXCEPT !.next = @ + n]
      BY <2>1 DEF TypeOK
  <2>6. n # Left(k) => /\ call'[t].client = c /\ call'[t].generation = k.generation
                       /\ call'[t].next = k.next + n /\ call'[t].last = k.last
      BY <2>5 DEF EnqueueCall
  <2>7. FreshCalls'
    <3> SUFFICES ASSUME NEW u \in Callers, call'[u] # NoCall
                 PROVE  /\ call'[u].client < mNextClient'
                        /\ call'[u].last <= offered'[call'[u].client]
                        /\ call'[u].client \in DOMAIN mClients' =>
                             call'[u].generation <= mClients'[call'[u].client].generation
                        /\ Live(call[u])' => call'[u].next > barrier'[call'[u].client]
        BY DEF FreshCalls
    <3>1. CASE u = t
        BY <1>1, <2>2, <2>3, <2>4, <2>5, <2>6, <3>1 DEF Live
    <3>2. CASE u # t
        BY <1>3, <2>3, <2>5, <3>2 DEF FreshInv, FreshCalls, Live
    <3> QED BY <3>1, <3>2
  <2>8. FreshFrames'
    <3> SUFFICES ASSUME NEW d \in DOMAIN mClients, NEW i \in 0..mClients'[d].count - 1
                 PROVE  mClients'[d].samples[Cell(mClients'[d], i)] > barrier[d]
        BY <2>3 DEF FreshFrames
    <3>1. CASE d # c
        BY <2>3, <3>1 DEF FreshInv, FreshFrames
    <3>2. CASE d = c /\ i < q.count
      <4>1. i \in 0..q.count - 1 /\ Cell(mClients'[d], i) = Cell(q, i)
          BY <2>2, <2>4, <3>2 DEF Cell
      <4> QED BY <2>2, <2>4, <3>2, <4>1 DEF FreshInv, FreshFrames
    <3>3. CASE d = c /\ i >= q.count
      <4>1. PICK j \in 0..n - 1 : i = q.count + j
        <5>1. i - q.count \in 0..n - 1 /\ i = q.count + (i - q.count)
            BY <2>2, <2>4, <3>3
        <5> QED BY <5>1
      <4>2. Cell(mClients'[d], i) = Cell(q, q.count + j)
          BY <2>4, <3>3, <4>1 DEF Cell
      <4>3. mClients'[d].samples[Cell(mClients'[d], i)] = k.next + j
          BY <2>4, <3>3, <4>2
      <4> QED BY <1>1, <2>2, <3>3, <4>3
    <3> QED BY <2>2, <2>4, <3>1, <3>2, <3>3
  <2>9. OneFeeder'
    <3> SUFFICES ASSUME NEW d \in ClientIds, NEW u \in Callers, NEW v \in Callers,
                        Feeds(u, d)', Feeds(v, d)'
                 PROVE  u = v
        BY DEF OneFeeder
    <3>1. \A w \in Callers \ {t} : Feeds(w, d)' => Feeds(w, d) /\ d # c
        BY <2>5 DEF Feeds
    <3>2. Feeds(t, d)' => d = c
        BY <2>5, <2>6 DEF Feeds
    <3> QED BY <3>1, <3>2 DEF FreshInv, OneFeeder
  <2>10. StartedFed'
    <3> SUFFICES ASSUME NEW d \in DOMAIN mClients
                 PROVE  /\ mClients'[d].count > 0 => mClients'[d].started
                        /\ mClients'[d].started => FedSince(d)'
        BY <2>3 DEF StartedFed
    <3>1. CASE d = c
      <4>1. mClients'[d].count > 0 => mClients'[d].started
        <5>1. q.count > 0 => q.started
            BY <2>2 DEF FreshInv, StartedFed
        <5>2. q.count > 0 \/ n > 0 => mClients'[c].started
            BY <2>4, <5>1
        <5>3. mClients'[c].count > 0 => q.count > 0 \/ n > 0
            BY <2>2, <2>4
        <5> QED BY <3>1, <5>2, <5>3
      <4>2. ASSUME mClients'[d].started PROVE FedSince(d)'
        <5>1. k.next + n > barrier[c] + 1
            BY <1>1, <2>2, <2>4, <3>1, <4>2
        <5>2. CASE n = Left(k)
          <6>1. \A u \in Callers : ~Feeds(u, d)'
              BY <2>5, <3>1, <5>2 DEF Feeds
          <6>2. offered'[c] > barrier[c]
              BY <1>1, <2>2, <5>1, <5>2
          <6> QED BY <3>1, <6>1, <6>2 DEF FedSince
        <5>3. CASE n # Left(k)
          <6>1. \A u \in Callers : Feeds(u, d)' => u = t
              BY <2>5, <3>1 DEF Feeds
          <6>2. Feeds(t, d)'
            <7>1. [k EXCEPT !.next = @ + n] # NoCall
              <8>1. k.next + n \in 1..MaxOffered
                  BY <1>1, <2>1, <2>2, <5>3, SizesAssumption
              <8>2. [k EXCEPT !.next = @ + n] \in EnqueueCall
                  BY <8>1 DEF EnqueueCall
              <8> QED BY <8>2, NoCallAssumption
            <7> QED BY <2>5, <2>6, <3>1, <5>3, <7>1 DEF Feeds
          <6>3. call'[t].next > barrier'[d] + 1
              BY <2>6, <3>1, <5>1, <5>3
          <6> QED BY <6>1, <6>2, <6>3 DEF FedSince
        <5> QED BY <5>2, <5>3
      <4> QED BY <4>1, <4>2
    <3>2. CASE d # c
      <4>1. d \in ClientIds /\ mClients'[d] = mClients[d]
          BY SMTT(30), <2>3, <3>2, SizesAssumption DEF TypeOK, ClientIds
      <4>2. \A u \in Callers : /\ Feeds(u, d)' <=> Feeds(u, d)
                               /\ Feeds(u, d)' => call'[u] = call[u]
          BY <2>5, <2>6, <3>2 DEF Feeds
      <4> QED BY <3>2, <4>1, <4>2 DEF FreshInv, StartedFed, FedSince
    <3> QED BY <3>1, <3>2
  <2> QED BY <1>2, <2>7, <2>8, <2>9, <2>10 DEF FreshInv
<1> QED BY <1>4, <1>5

LEMMA FreshEnqueue ==
  ASSUME TypeOK, FreshInv, NEW t \in Callers, NEW c \in 1..mNextClient - 1,
         NEW n \in 1..MaxOffered, Enqueue(t, c, n)
  PROVE  FreshInv'
<1> DEFINE k == [client |-> c, generation |-> mClients[c].generation,
                 next |-> offered[c] + 1, last |-> offered[c] + n]
<1>1. /\ c \in DOMAIN mClients /\ offered[c] + n <= MaxOffered /\ CopyLoop(t, k)
      /\ offered' = [offered EXCEPT ![c] = @ + n] /\ UNCHANGED <<mNextClient, barrier>>
      /\ pc[t] = "idle" /\ \A u \in Callers : ~Feeds(u, c)
    BY DEF Enqueue, Idle
<1>2. k \in EnqueueCall /\ k.next <= k.last
    BY <1>1, EnqueueOfCall
<1>3. /\ c \in ClientIds /\ offered[c] \in 0..MaxOffered /\ barrier[c] \in 0..MaxOffered
      /\ mClients[c].generation \in Nat /\ mNextClient \in Nat
  <2>1. mNextClient \in 1..MaxClients + 1 /\ mClients[c] \in Queue
      BY <1>1 DEF TypeOK
  <2>2. c \in ClientIds /\ mNextClient \in Nat
      BY <2>1, SizesAssumption DEF ClientIds
  <2> QED BY <2>1, <2>2, SizesAssumption DEF TypeOK, Queue
<1>4. /\ offered' \in [ClientIds -> 0..MaxOffered]
      /\ \A d \in ClientIds : offered'[d] >= offered[d]
                              /\ (d # c => offered'[d] = offered[d])
      /\ offered'[c] = offered[c] + n
    BY <1>1, <1>3, SizesAssumption DEF TypeOK
<1>5. call[t] = NoCall
    BY <1>1 DEF TypeOK
<1>6. barrier[c] < offered[c] + 1
    BY <1>3 DEF FreshInv
<1>7. mClients[c].started => offered[c] + 1 > barrier[c] + 1
  <2>1. mClients[c].started => offered[c] > barrier[c]
      BY <1>1 DEF FreshInv, StartedFed, FedSince
  <2> QED BY <2>1, <1>3
<1>8. /\ k.client = c /\ k.generation = mClients[c].generation
      /\ k.next = offered[c] + 1 /\ k.last = offered[c] + n
    OBVIOUS
<1> HIDE DEF k
<1>9. /\ k.client < mNextClient /\ k.last <= offered'[k.client]
      /\ k.client \in DOMAIN mClients => k.generation <= mClients[k.client].generation
      /\ Live(k) => k.next > barrier[k.client]
      /\ \A u \in Callers \ {t} : ~Feeds(u, k.client)
      /\ k.client \in DOMAIN mClients /\ mClients[k.client].started
           => k.next > barrier[k.client] + 1
    BY <1>1, <1>3, <1>4, <1>6, <1>7, <1>8
<1>10. /\ \A d \in ClientIds : offered'[d] >= offered[d]
                              /\ (d # k.client => offered'[d] = offered[d])
    BY <1>4, <1>8
<1> QED BY <1>1, <1>2, <1>4, <1>5, <1>9, <1>10, FreshCopyLoop

LEMMA FreshResume ==
  ASSUME TypeOK, FreshInv, NEW t \in Callers, Resume(t)
  PROVE  FreshInv'
<1> DEFINE k == call[t]
<1>1. /\ k \in EnqueueCall /\ k.next <= k.last /\ k # NoCall
      /\ CopyLoop(t, k) /\ UNCHANGED <<mNextClient, offered, barrier>>
    BY NoCallAssumption DEF Resume, TypeOK, history
<1>2. /\ offered' \in [ClientIds -> 0..MaxOffered] /\ k.client \in ClientIds
      /\ \A d \in ClientIds : offered'[d] >= offered[d] /\ offered'[d] = offered[d]
    BY <1>1 DEF TypeOK, EnqueueCall
<1>3. /\ k.client < mNextClient /\ k.last <= offered'[k.client]
      /\ k.client \in DOMAIN mClients => k.generation <= mClients[k.client].generation
      /\ Live(k) => k.next > barrier[k.client]
    BY <1>1 DEF FreshInv, FreshCalls
<1>4. Feeds(t, k.client) /\ \A u \in Callers \ {t} : ~Feeds(u, k.client)
    BY <1>1, <1>2 DEF FreshInv, OneFeeder, Feeds
<1>5. k.client \in DOMAIN mClients /\ mClients[k.client].started
        => k.next > barrier[k.client] + 1
    BY <1>4 DEF FreshInv, StartedFed, FedSince
<1> HIDE DEF k
<1>6. call[t] \in {NoCall, k}
    BY DEF k
<1> QED BY <1>1, <1>2, <1>3, <1>4, <1>5, <1>6, FreshCopyLoop

\* What one period does to each queue.
LEMMA MixQueue ==
  ASSUME TypeOK, WriterMix, NEW c \in DOMAIN mClients
  PROVE  /\ mClients[c] \in Queue
         /\ Taken(mClients[c]) \in 0..mClients[c].count
         /\ Taken(mClients[c]) # mClients[c].count => Taken(mClients[c]) = PeriodFrames
         /\ Taken(mClients[c]) <= PeriodFrames
         /\ mClients'[c] = Advanced(mClients[c], Taken(mClients[c]))
<1>1. mClients[c] \in Queue
    BY DEF TypeOK
<1>2. mClients[c].count \in 0..QueueFrames
    BY <1>1 DEF Queue
<1>3. mClients'[c] = Advanced(mClients[c], Taken(mClients[c]))
    BY DEF WriterMix, Advanced
<1>4. /\ Taken(mClients[c]) \in 0..mClients[c].count
      /\ Taken(mClients[c]) # mClients[c].count => Taken(mClients[c]) = PeriodFrames
      /\ Taken(mClients[c]) <= PeriodFrames
    BY <1>2, SizesAssumption DEF Taken, Smaller
<1> QED BY <1>1, <1>3, <1>4

LEMMA FreshMix ==
  ASSUME TypeOK, FreshInv, WriterMix
  PROVE  FreshInv'
<1>1. /\ UNCHANGED <<mNextClient, call, offered, barrier>>
      /\ DOMAIN mClients' = DOMAIN mClients
    BY DEF WriterMix, callVars
<1>2. ASSUME NEW c \in DOMAIN mClients
      PROVE  /\ mClients'[c].generation = mClients[c].generation
             /\ mClients'[c].started = mClients[c].started
             /\ mClients'[c].count = mClients[c].count - Taken(mClients[c])
             /\ mClients'[c].samples = mClients[c].samples
    BY MixQueue DEF Advanced, Queue
<1>3. FreshCalls'
    BY <1>1, <1>2 DEF FreshInv, FreshCalls, Live
<1>4. OneFeeder'
    BY <1>1 DEF FreshInv, OneFeeder, Feeds
<1>5. StartedFed'
  <2> SUFFICES ASSUME NEW c \in DOMAIN mClients
               PROVE  /\ mClients'[c].count > 0 => mClients'[c].started
                      /\ mClients'[c].started => FedSince(c)'
      BY <1>1 DEF StartedFed
  <2>1. /\ mClients[c].count \in Nat /\ Taken(mClients[c]) \in Nat
        /\ mClients[c].count > 0 => mClients[c].started
        /\ mClients[c].started => FedSince(c)
      BY MixQueue, SizesAssumption DEF FreshInv, StartedFed, Queue
  <2>2. FedSince(c)' <=> FedSince(c)
      BY <1>1 DEF FedSince, Feeds
  <2> QED BY <1>2, <2>1, <2>2
<1>6. FreshFrames'
  <2> SUFFICES ASSUME NEW c \in DOMAIN mClients, NEW i \in 0..mClients'[c].count - 1
               PROVE  mClients'[c].samples[Cell(mClients'[c], i)] > barrier[c]
      BY <1>1 DEF FreshFrames
  <2> DEFINE q == mClients[c]
             n == Taken(q)
  <2>1. /\ q \in Queue /\ q.count \in Nat /\ n \in 0..q.count /\ i \in 0..q.count - n - 1
        /\ mClients'[c] = Advanced(q, n) /\ mClients'[c].samples = q.samples
      BY <1>2, MixQueue DEF Queue
  <2> HIDE DEF n
  <2>2. i \in 0..q.count - n /\ n + i \in 0..q.count - 1
      BY <2>1
  <2>3. Cell(mClients'[c], i) = Cell(q, n + i)
      BY <2>1, <2>2, AdvancedCell
  <2> QED BY <2>1, <2>2, <2>3 DEF FreshInv, FreshFrames
<1> QED BY <1>1, <1>3, <1>4, <1>5, <1>6 DEF FreshInv

LEMMA FreshStep == TypeOK /\ FreshInv /\ [Next]_vars => FreshInv'
<1> SUFFICES ASSUME TypeOK, FreshInv, [Next]_vars PROVE FreshInv'
    OBVIOUS
<1>1. ASSUME NEW t \in Callers, Caller(t) PROVE FreshInv'
  <2>1. CASE Attach(t)
      BY <2>1, FreshAttach
  <2>2. ASSUME NEW c \in 1..mNextClient - 1, Detach(t, c) PROVE FreshInv'
      BY <2>2, FreshDetach
  <2>3. ASSUME NEW c \in 1..mNextClient - 1, Clear(t, c) PROVE FreshInv'
      BY <2>3, FreshClear
  <2>4. ASSUME NEW c \in 1..mNextClient - 1, NEW n \in 1..MaxOffered, Enqueue(t, c, n)
        PROVE  FreshInv'
      BY <2>4, FreshEnqueue
  <2>5. CASE Notify(t)
      BY <2>5, FreshFrame DEF Notify, queueVars, history
  <2>6. CASE Resume(t)
      BY <2>6, FreshResume
  <2>7. CASE SpuriousWake(t)
      BY <2>7, FreshFrame DEF SpuriousWake, queueVars, history
  <2> QED BY <1>1, <2>1, <2>2, <2>3, <2>4, <2>5, <2>6, <2>7 DEF Caller
<1>2. CASE Writer
  <2>1. CASE WriterMix
      BY <2>1, FreshMix
  <2>2. CASE WriterTop \/ WriterNotify \/ WriterBackoff
      BY <2>2, FreshFrame DEF WriterTop, WriterNotify, WriterBackoff, queueVars, callVars,
                              history
  <2>3. CASE WriterWriteOk \/ WriterWriteFails
      BY <2>3, FreshFrame DEF WriterWriteOk, WriterWriteFails, queueVars, callVars
  <2> QED BY <1>2, <2>1, <2>2, <2>3 DEF Writer
<1>3. CASE StopRunning \/ StopNotify \/ StopJoin
    BY <1>3, FreshFrame DEF StopRunning, StopNotify, StopJoin, queueVars, callVars, history
<1>4. CASE SetAudible
    BY <1>4, FreshFrame DEF SetAudible, queueVars, callVars
<1>5. CASE UNCHANGED vars
    BY <1>5, FreshFrame DEF vars, queueVars, callVars, history
<1> QED BY <1>1, <1>2, <1>3, <1>4, <1>5 DEF Next

LEMMA MixedFramesAreFresh ==
  ASSUME TypeOK, FreshInv, WriterMix, NEW p \in mix'
  PROVE  p[2] > barrier[p[1]]
<1>1. PICK c \in DOMAIN mClients :
        p \in {<<c, Oldest(mClients[c], Taken(mClients[c]))[i]>> :
                i \in 1..Taken(mClients[c])}
    BY DEF WriterMix
<1> DEFINE q == mClients[c]
<1>2. PICK i \in 1..Taken(q) : p = <<c, Oldest(q, Taken(q))[i]>>
    BY <1>1
<1>3. q.count \in Nat /\ Taken(q) \in 0..q.count
    BY MixQueue DEF Queue
<1>4. Oldest(q, Taken(q))[i] = q.samples[Cell(q, i - 1)] /\ i - 1 \in 0..q.count - 1
    BY <1>3 DEF Oldest
<1>5. q.samples[Cell(q, i - 1)] > barrier[c]
    BY <1>4 DEF FreshInv, FreshFrames
<1> QED BY <1>2, <1>4, <1>5

LEMMA CountedUnderrunIsFed ==
  ASSUME TypeOK, FreshInv, WriterMix, NEW c \in starved'
  PROVE  FedSince(c)
<1>1. c \in DOMAIN mClients /\ mClients[c].started
    BY DEF WriterMix, IsStarved
<1> QED BY <1>1 DEF FreshInv, StartedFed

\* A flush or a detach is final for what is heard and for what is counted, and a
\* mute costs at most the period in flight: for every ring, period, number of
\* clients and interleaving of producers, flushes and the writer.
THEOREM NothingStale == Spec => NothingStaleIsHeard
<1>1. TypeOK /\ FreshInv /\ [Next]_vars =>
        [WriterMix => \A p \in mix' : p[2] > barrier[p[1]]]_vars
    BY MixedFramesAreFresh
<1>2. TypeOK /\ FreshInv /\ [Next]_vars =>
        [WriterMix => \A c \in starved' : FedSince(c)]_vars
    BY CountedUnderrunIsFed
<1>3. Spec => []FreshInv
    BY FreshInit, FreshStep, TypeCorrect, PTL DEF Spec
<1>4. Spec => NoReplay
    BY <1>1, <1>3, TypeCorrect, PTL DEF Spec, NoReplay
<1>5. Spec => StarvedAfterFed
    BY <1>2, <1>3, TypeCorrect, PTL DEF Spec, StarvedAfterFed
<1> QED BY <1>4, <1>5, MuteTakesEffect, PTL DEF NothingStaleIsHeard

-----------------------------------------------------------------------------
(* Each queue is a FIFO. *)

LEMMA QueuedSeq ==
  ASSUME NEW q \in Queue
  PROVE  /\ Queued(q) \in Seq(Nat) /\ Len(Queued(q)) = q.count
         /\ \A i \in 1..q.count : Queued(q)[i] = q.samples[Cell(q, i - 1)]
<1>1. q.count \in Nat
    BY DEF Queue
<1>2. \A i \in 1..q.count : q.samples[Cell(q, i - 1)] \in Nat
    BY <1>1, OldestFrames, SizesAssumption DEF Oldest
<1>3. Queued(q) = [i \in 1..q.count |-> q.samples[Cell(q, i - 1)]]
    BY DEF Queued, Oldest
<1> QED BY <1>1, <1>2, <1>3

LEMMA RestSeq ==
  ASSUME NEW k \in EnqueueCall, k.next <= k.last
  PROVE  /\ Rest(k) \in Seq(Nat) /\ Len(Rest(k)) = Left(k) /\ Left(k) \in Nat \ {0}
         /\ \A i \in 1..Left(k) : Rest(k)[i] = k.next + i - 1
<1>1. Left(k) \in Nat \ {0} /\ k.next \in Nat \ {0}
    BY DEF Left, EnqueueCall
<1> QED BY <1>1 DEF Rest

LEMMA EmptyQueued ==
  ASSUME NEW q \in Queue, q.count = 0
  PROVE  Queued(q) = <<>>
  BY QueuedSeq, EmptySeq

\* The two halves of the wrapping copy put the frames behind the queued ones.
LEMMA FilledIsConcat ==
  ASSUME NEW q \in Queue, NEW k \in EnqueueCall, k.next <= k.last,
         NEW n \in 0..QueueFrames - q.count, n <= Left(k)
  PROVE  Queued(Filled(q, k.next, n)) = Queued(q) \o SubSeq(Rest(k), 1, n)
<1> DEFINE f == Filled(q, k.next, n)
           r == SubSeq(Rest(k), 1, n)
<1>0. q.count \in 0..QueueFrames /\ k.next \in 1..MaxOffered /\ k.last \in 1..MaxOffered
      /\ Left(k) = k.last - k.next + 1 /\ n \in Nat
    BY SizesAssumption DEF Queue, EnqueueCall, Left
<1>1. k.next + n - 1 <= MaxOffered
    BY <1>0, SizesAssumption
<1>2. f \in Queue /\ f.count = q.count + n /\ f.read = q.read
    BY <1>0, <1>1, FilledType, FilledFrames
<1>3. /\ Rest(k) \in Seq(Nat) /\ Len(Rest(k)) = Left(k)
      /\ \A i \in 1..Left(k) : Rest(k)[i] = k.next + i - 1
    BY RestSeq
<1>4. /\ r \in Seq(Nat) /\ Len(r) = n
      /\ \A i \in 1..n : r[i] = k.next + i - 1
    BY <1>0, <1>3
<1>5. /\ Queued(q) \in Seq(Nat) /\ Len(Queued(q)) = q.count
      /\ \A i \in 1..q.count : Queued(q)[i] = q.samples[Cell(q, i - 1)]
    BY QueuedSeq
<1>6. /\ Queued(f) \in Seq(Nat) /\ Len(Queued(f)) = q.count + n
      /\ \A i \in 1..q.count + n : Queued(f)[i] = f.samples[Cell(f, i - 1)]
    BY <1>2, QueuedSeq
<1>7. \A i \in 0..QueueFrames : Cell(f, i) = Cell(q, i)
    BY <1>2 DEF Cell
<1>8. /\ \A i \in 0..q.count - 1 : f.samples[Cell(q, i)] = q.samples[Cell(q, i)]
      /\ \A i \in 0..n - 1 : f.samples[Cell(q, q.count + i)] = k.next + i
    BY <1>0, FilledFrames
<1> HIDE DEF f, r
<1>9. /\ Queued(q) \o r \in Seq(Nat) /\ Len(Queued(q) \o r) = q.count + n
      /\ \A i \in 1..q.count + n : (Queued(q) \o r)[i] =
            IF i <= q.count THEN Queued(q)[i] ELSE r[i - q.count]
  <2> DEFINE s == Queued(q)
  <2>1. s \in Seq(Nat) /\ Len(s) = q.count
      BY <1>5
  <2> HIDE DEF s
  <2>2. /\ s \o r \in Seq(Nat) /\ Len(s \o r) = Len(s) + Len(r)
        /\ \A i \in 1..Len(s) + Len(r) :
             (s \o r)[i] = IF i <= Len(s) THEN s[i] ELSE r[i - Len(s)]
      BY <1>4, <2>1, ConcatProperties
  <2> QED BY <1>4, <2>1, <2>2 DEF s
<1>10. ASSUME NEW i \in 1..q.count + n
       PROVE  Queued(f)[i] = (Queued(q) \o r)[i]
  <2>0. Queued(f)[i] = f.samples[Cell(q, i - 1)]
    <3>1. i - 1 \in 0..QueueFrames
        BY <1>0, SizesAssumption
    <3> QED BY <1>6, <1>7, <3>1
  <2>1. CASE i <= q.count
    <3>1. i \in 1..q.count /\ i - 1 \in 0..q.count - 1
        BY <1>0, <2>1
    <3> QED BY <1>5, <1>8, <1>9, <2>0, <2>1, <3>1
  <2>2. CASE i > q.count
    <3> DEFINE j == i - q.count
    <3>1. j \in 1..n /\ j - 1 \in 0..n - 1 /\ i - 1 = q.count + (j - 1) /\ j \in Int
        BY <1>0, <2>2
    <3>2. Queued(f)[i] = k.next + (j - 1)
        BY <1>8, <2>0, <3>1
    <3>3. (Queued(q) \o r)[i] = k.next + j - 1
      <4>1. (Queued(q) \o r)[i] = r[j]
          BY SMTT(30), <1>0, <1>9, <2>2
      <4>2. r[j] = k.next + j - 1
          BY <1>4, <3>1
      <4> QED BY <4>1, <4>2
    <3> QED BY <1>0, <3>1, <3>2, <3>3
  <2>3. i <= q.count \/ i > q.count
      BY <1>0, SizesAssumption
  <2> QED BY <2>1, <2>2, <2>3
<1>11. Queued(f) = Queued(q) \o r
    BY <1>6, <1>9, <1>10, SeqEqual
<1> QED BY <1>11 DEF f, r

\* What a call owes after n of its frames were copied.
LEMMA RestAfter ==
  ASSUME NEW k \in EnqueueCall, k.next <= k.last, NEW n \in 0..Left(k), n # Left(k)
  PROVE  /\ [k EXCEPT !.next = @ + n] \in EnqueueCall
         /\ Rest([k EXCEPT !.next = @ + n]) = SubSeq(Rest(k), n + 1, Left(k))
<1> DEFINE m == [k EXCEPT !.next = @ + n]
           r == SubSeq(Rest(k), n + 1, Left(k))
<1>1. k.next \in 1..MaxOffered /\ k.last \in 1..MaxOffered
      /\ Left(k) = k.last - k.next + 1
    BY DEF EnqueueCall, Left
<1>2. k.next + n \in 1..MaxOffered /\ k.next + n <= k.last
    BY <1>1, SizesAssumption
<1>3. m \in EnqueueCall /\ m.next = k.next + n /\ m.last = k.last
    BY <1>2 DEF EnqueueCall
<1>4. /\ Rest(k) \in Seq(Nat) /\ Len(Rest(k)) = Left(k)
      /\ \A i \in 1..Left(k) : Rest(k)[i] = k.next + i - 1
    BY RestSeq
<1> HIDE DEF m
<1>5. Left(m) = Left(k) - n
    BY <1>1, <1>3 DEF Left
<1>6. /\ Rest(m) \in Seq(Nat) /\ Len(Rest(m)) = Left(k) - n
      /\ \A i \in 1..Left(k) - n : Rest(m)[i] = k.next + n + i - 1
    BY <1>2, <1>3, <1>5, RestSeq
<1>7. /\ r \in Seq(Nat) /\ Len(r) = Left(k) - n
      /\ \A i \in 1..Left(k) - n : r[i] = k.next + (n + 1 + i - 1) - 1
    BY SMTT(30), <1>1, <1>4
<1> HIDE DEF r
<1>8. \A i \in 1..Left(k) - n : Rest(m)[i] = r[i]
    BY <1>1, <1>6, <1>7
<1>9. Rest(m) = r
    BY <1>6, <1>7, <1>8, SeqEqual
<1> QED BY <1>3, <1>9 DEF m, r

\* The writer takes up to a period from the head of a queue.
LEMMA AdvancedIsSubSeq ==
  ASSUME NEW q \in Queue, NEW n \in 0..q.count, n # q.count => n = PeriodFrames,
         n <= PeriodFrames, sampled \in BOOLEAN
  PROVE  /\ Advanced(q, n) \in Queue
         /\ Queued(Advanced(q, n)) = SubSeq(Queued(q), PeriodFrames + 1, Len(Queued(q)))
<1> DEFINE a == Advanced(q, n)
           r == SubSeq(Queued(q), PeriodFrames + 1, Len(Queued(q)))
<1>1. q.count \in 0..QueueFrames /\ n \in Nat /\ PeriodFrames \in Nat
    BY SizesAssumption DEF Queue
<1>2. a \in Queue /\ a.count = q.count - n /\ a.samples = q.samples
  <2>1. Cell(q, n) \in 0..QueueFrames - 1 /\ q.count - n \in 0..QueueFrames
      BY <1>1, CellInRing, SizesAssumption
  <2>2. IsStarved(q) \in BOOLEAN
      BY DEF IsStarved, Queue
  <2> QED BY <2>1, <2>2 DEF Advanced, Queue
<1>3. /\ Queued(q) \in Seq(Nat) /\ Len(Queued(q)) = q.count
      /\ \A i \in 1..q.count : Queued(q)[i] = q.samples[Cell(q, i - 1)]
    BY QueuedSeq
<1>4. /\ Queued(a) \in Seq(Nat) /\ Len(Queued(a)) = q.count - n
      /\ \A i \in 1..q.count - n : Queued(a)[i] = q.samples[Cell(a, i - 1)]
    BY <1>2, QueuedSeq
<1>5. \A i \in 0..q.count - n : Cell(a, i) = Cell(q, n + i)
    BY AdvancedCell
<1> HIDE DEF a
<1>6. /\ r \in Seq(Nat) /\ Len(r) = q.count - n
      /\ \A i \in 1..q.count - PeriodFrames : r[i] = Queued(q)[PeriodFrames + 1 + i - 1]
    BY SMTT(30), <1>1, <1>3, SubSeqProperties
<1> HIDE DEF r
<1>7. ASSUME NEW i \in 1..q.count - n
      PROVE  Queued(a)[i] = r[i]
  <2>1. n = PeriodFrames /\ i - 1 \in 0..q.count - n /\ n + i \in 1..q.count
        /\ n + (i - 1) = n + i - 1
      BY <1>1
  <2>2. Queued(a)[i] = q.samples[Cell(q, n + i - 1)]
      BY <1>4, <1>5, <2>1
  <2>3. r[i] = Queued(q)[n + i]
      BY <1>1, <1>6, <2>1
  <2>4. Queued(q)[n + i] = q.samples[Cell(q, n + i - 1)]
      BY <1>3, <2>1
  <2> QED BY <2>2, <2>3, <2>4, Zenon
<1>8. Queued(a) = r
    BY <1>4, <1>6, <1>7, SeqEqual
<1> QED BY <1>2, <1>8 DEF a, r

\* The variables of FrameFifo as Fifo maps them.
Fifos == [c \in DOMAIN mClients |-> Queued(mClients[c])]
OwedCalls == [t \in Callers |-> Owed(call[t])]

LEMMA FifoFrame ==
  ASSUME UNCHANGED <<mClients, call, canceledFrames, mRunning>>
  PROVE  UNCHANGED Fifo!vars
<1>1. Fifos' = Fifos
    BY DEF Fifos, Queued, Oldest, Cell
<1>2. OwedCalls' = OwedCalls
    BY DEF OwedCalls, Owed, Rest, Left, Voided
<1> QED BY <1>1, <1>2 DEF Fifo!vars, Fifos, OwedCalls

LEMMA FifoInit == Init => Fifo!Init
<1> SUFFICES ASSUME Init PROVE Fifo!Init
    OBVIOUS
<1>1. Fifos = <<>>
    BY DEF Init, Fifos
<1>2. OwedCalls = [t \in Callers |-> NoCall]
    BY DEF Init, OwedCalls, Owed
<1> QED BY <1>1, <1>2 DEF Init, Fifo!Init, Fifos, OwedCalls

\* One pass of the loop that copies is a Put of the frames that fit.
LEMMA FifoPut ==
  ASSUME TypeOK, NEW t \in Callers, NEW k \in EnqueueCall, k.next <= k.last,
         CopyLoop(t, k), ~Canceled(k), UNCHANGED mRunning
  PROVE  \E n \in 0..Len(Rest(k)) : Fifo!Put(t, k.client, Rest(k), n)
<1> DEFINE c == k.client
           q == mClients[c]
<1>1. PICK n \in 0..QueueFrames - q.count :
         /\ mClients' = [mClients EXCEPT ![c] = Filled(@, k.next, n)]
         /\ n \in 0..Left(k)
         /\ pc' = [pc EXCEPT ![t] = IF n = Left(k) THEN "idle" ELSE "asleep"]
         /\ call' = [call EXCEPT ![t] = IF n = Left(k) THEN NoCall
                                       ELSE [k EXCEPT !.next = @ + n]]
         /\ canceledFrames' = canceledFrames
    BY CopyLoopCopies, TypeParts
<1>2. /\ c \in DOMAIN mClients /\ q \in Queue /\ q.generation = k.generation
      /\ q.count \in 0..QueueFrames /\ n \in Nat
    BY SMTT(30), SizesAssumption DEF Canceled, TypeOK, Queue
<1>3. /\ Rest(k) \in Seq(Nat) /\ Len(Rest(k)) = Left(k) /\ Left(k) \in Nat \ {0}
    BY RestSeq
<1>4. Queued(Filled(q, k.next, n)) = Queued(q) \o SubSeq(Rest(k), 1, n)
    BY SMTT(30), <1>1, <1>2, FilledIsConcat
<1>5. Fifos' = [Fifos EXCEPT ![c] = @ \o SubSeq(Rest(k), 1, n)]
  <2>1. /\ mClients'[c] = Filled(q, k.next, n) /\ DOMAIN mClients' = DOMAIN mClients
        /\ \A d \in DOMAIN mClients : d # c => mClients'[d] = mClients[d]
      BY <1>1, <1>2
  <2>2. Fifos' = [d \in DOMAIN mClients |-> Queued(mClients'[d])]
      BY <2>1 DEF Fifos, Queued, Oldest, Cell
  <2> QED BY <1>2, <1>4, <2>1, <2>2 DEF Fifos
<1>6. /\ DOMAIN mClients' = DOMAIN mClients
      /\ \A d \in DOMAIN mClients : mClients'[d].generation = mClients[d].generation
  <2>1. k.next \in 1..MaxOffered /\ k.next + n - 1 <= MaxOffered
      BY <1>1, <1>2, SizesAssumption DEF EnqueueCall, Left
  <2>2. Filled(q, k.next, n).generation = q.generation
      BY <1>1, <1>2, <2>1, FilledType
  <2> QED BY <1>1, <1>2, <2>2
<1>7. OwedCalls' = [OwedCalls EXCEPT ![t] =
                      IF n = Len(Rest(k)) THEN NoCall
                      ELSE [client |-> c, void |-> FALSE,
                            frames |-> SubSeq(Rest(k), n + 1, Len(Rest(k)))]]
  <2>1. ASSUME NEW u \in Callers, u # t
        PROVE  OwedCalls'[u] = OwedCalls[u]
      BY <1>1, <1>6, <2>1 DEF OwedCalls, Owed, Voided, Rest, Left, TypeOK
  <2>2. CASE n = Left(k)
      BY <1>1, <1>3, <2>1, <2>2 DEF OwedCalls, Owed, TypeOK
  <2>3. CASE n # Left(k)
    <3> DEFINE m == [k EXCEPT !.next = @ + n]
    <3>1. m \in EnqueueCall /\ Rest(m) = SubSeq(Rest(k), n + 1, Left(k))
        BY <1>1, <2>3, RestAfter
    <3>2. m.client = c /\ m.generation = k.generation
        BY DEF EnqueueCall
    <3>3. call'[t] = m
        BY <1>1, <2>3 DEF TypeOK
    <3> HIDE DEF m
    <3>4. m # NoCall /\ Voided(m)' = FALSE
        BY <1>2, <1>6, <3>1, <3>2, NoCallAssumption DEF Voided
    <3>5. OwedCalls'[t] = [client |-> c, frames |-> SubSeq(Rest(k), n + 1, Left(k)),
                           void |-> FALSE]
        BY <3>1, <3>2, <3>3, <3>4 DEF OwedCalls, Owed, Rest, Left
    <3> QED BY <1>3, <2>1, <2>3, <3>5 DEF OwedCalls
  <2> QED BY <2>2, <2>3
<1>8. Len(Fifos[c]) + n <= QueueFrames
    BY <1>2, QueuedSeq, SizesAssumption DEF Fifos
<1>9. Fifo!Put(t, c, Rest(k), n)
    BY <1>1, <1>5, <1>7, <1>8 DEF Fifo!Put, Fifos, OwedCalls
<1> QED BY <1>1, <1>3, <1>9

\* A call that gives up cancels what it still owes.
LEMMA FifoGiveUp ==
  ASSUME TypeOK, NEW t \in Callers, NEW k \in EnqueueCall, k.next <= k.last,
         CopyLoop(t, k), Canceled(k)
  PROVE  /\ UNCHANGED mClients
         /\ canceledFrames' = canceledFrames + Len(Rest(k))
         /\ Fifos' = Fifos
         /\ OwedCalls' = [OwedCalls EXCEPT ![t] = NoCall]
<1>1. /\ UNCHANGED mClients /\ call' = [call EXCEPT ![t] = NoCall]
      /\ canceledFrames' = canceledFrames + Left(k)
    BY DEF CopyLoop, GiveUp
<1>2. Fifos' = Fifos
    BY <1>1 DEF Fifos, Queued, Oldest, Cell
<1>3. OwedCalls' = [OwedCalls EXCEPT ![t] = NoCall]
    BY ZenonT(60), <1>1 DEF OwedCalls, Owed, Voided, Rest, Left, TypeOK
<1> QED BY <1>1, <1>2, <1>3, RestSeq

LEMMA FifoAttach ==
  ASSUME TypeOK, FreshInv, NEW t \in Callers, Attach(t)
  PROVE  Fifo!Open
<1> DEFINE c == mNextClient
<1>1. /\ UNCHANGED <<call, canceledFrames, mRunning>>
      /\ c \in ClientIds /\ c \notin DOMAIN mClients
      /\ mClients' = [d \in DOMAIN mClients \cup {c} |->
                        IF d = c THEN NewQueue ELSE mClients[d]]
  <2>1. mNextClient \in 1..MaxClients + 1 /\ DOMAIN mClients \subseteq 1..mNextClient - 1
      BY DEF TypeOK
  <2>2. c \in ClientIds /\ c \notin DOMAIN mClients
      BY <2>1, SizesAssumption DEF Attach, ClientIds
  <2> QED BY <2>2 DEF Attach, callVars
<1>2. Queued(NewQueue) = <<>>
    BY NewQueueType, EmptyQueued DEF NewQueue
<1>3. Fifos' = [d \in DOMAIN Fifos \cup {c} |-> IF d = c THEN <<>> ELSE Fifos[d]]
  <2>1. Fifos' = [d \in DOMAIN mClients \cup {c} |-> Queued(mClients'[d])]
      BY <1>1 DEF Fifos, Queued, Oldest, Cell
  <2> QED BY <1>1, <1>2, <2>1 DEF Fifos
<1>4. \A u \in Callers : Owed(call[u])' = Owed(call[u])
  <2> SUFFICES ASSUME NEW u \in Callers, call[u] # NoCall
               PROVE  Voided(call[u])' = Voided(call[u])
      BY <1>1 DEF Owed, Rest, Left
  <2>1. call[u].client # c
      BY CallIsCall, SizesAssumption DEF FreshInv, FreshCalls, EnqueueCall, ClientIds
  <2> QED BY <1>1, <2>1 DEF Voided
<1>5. OwedCalls' = OwedCalls
    BY <1>4 DEF OwedCalls
<1>6. c \in ClientIds \ DOMAIN Fifos
    BY <1>1 DEF Fifos
<1> QED BY <1>1, <1>3, <1>5, <1>6 DEF Fifo!Open, Fifos, OwedCalls

LEMMA SameRecord ==
  ASSUME NEW A, NEW B, NEW r \in [client : A, frames : B, void : BOOLEAN],
         NEW s \in [client : A, frames : B, void : BOOLEAN],
         r.client = s.client, r.frames = s.frames, r.void = s.void
  PROVE  r = s
  OBVIOUS

LEMMA VoidedRecord ==
  ASSUME NEW A, NEW B, NEW r \in [client : A, frames : B, void : BOOLEAN]
  PROVE  [r EXCEPT !.void = TRUE] = [client |-> r.client, frames |-> r.frames,
                                     void |-> TRUE]
<1> DEFINE e == [r EXCEPT !.void = TRUE]
           s == [client |-> r.client, frames |-> r.frames, void |-> TRUE]
<1>1. /\ e \in [client : A, frames : B, void : BOOLEAN]
      /\ e.client = r.client /\ e.frames = r.frames /\ e.void = TRUE
    OBVIOUS
<1>2. /\ s \in [client : A, frames : B, void : BOOLEAN]
      /\ s.client = r.client /\ s.frames = r.frames /\ s.void = TRUE
    OBVIOUS
<1> HIDE DEF e, s
<1>3. e = s
    BY <1>1, <1>2, SameRecord
<1> QED BY <1>3 DEF e, s

\* A flush or a detach voids exactly what the calls of that client owe.
LEMMA FifoVoid ==
  ASSUME TypeOK, FreshInv, NEW c \in DOMAIN mClients, UNCHANGED call,
         \A d \in ClientIds : d # c =>
           /\ d \in DOMAIN mClients' <=> d \in DOMAIN mClients
           /\ d \in DOMAIN mClients => mClients'[d].generation = mClients[d].generation,
         c \in DOMAIN mClients' => mClients'[c].generation = mClients[c].generation + 1
  PROVE  OwedCalls' = Fifo!Void(c)
<1>1. ASSUME NEW t \in Callers, call[t] # NoCall
      PROVE  /\ Owed(call[t]) = [client |-> call[t].client, frames |-> Rest(call[t]),
                                 void |-> Voided(call[t])]
             /\ Owed(call[t]) # NoCall
             /\ Owed(call[t])' = [client |-> call[t].client, frames |-> Rest(call[t]),
                                  void |-> Voided(call[t])']
             /\ call[t].client = c => Voided(call[t])' = TRUE
             /\ call[t].client # c => Voided(call[t])' = Voided(call[t])
  <2>1. /\ call[t] \in EnqueueCall /\ call[t].next <= call[t].last
        /\ call[t].client \in ClientIds /\ call[t].generation \in Nat
      BY <1>1, CallIsCall, SizesAssumption DEF EnqueueCall
  <2>2. Owed(call[t]) = [client |-> call[t].client, frames |-> Rest(call[t]),
                         void |-> Voided(call[t])]
      BY <1>1 DEF Owed
  <2>3. Owed(call[t]) # NoCall
    <3>1. Rest(call[t]) \in Seq(Nat) /\ Voided(call[t]) \in BOOLEAN
        BY <2>1, RestSeq DEF Voided
    <3>2. Owed(call[t]) \in [client : ClientIds, frames : Seq(Nat), void : BOOLEAN]
        BY <2>1, <2>2, <3>1
    <3> QED BY <3>2, NoCallAssumption
  <2>4. Owed(call[t])' = [client |-> call[t].client, frames |-> Rest(call[t]),
                          void |-> Voided(call[t])']
      BY <1>1 DEF Owed, Rest, Left
  <2>5. call[t].client = c => Voided(call[t])' = TRUE
    <3>1. call[t].client = c => call[t].generation <= mClients[c].generation
                                /\ mClients[c].generation \in Nat
      <4>1. mClients[c] \in Queue
          BY DEF TypeOK
      <4>2. mClients[c].generation \in Nat
          BY <4>1, SizesAssumption DEF Queue
      <4> QED BY <1>1, <4>2 DEF FreshInv, FreshCalls
    <3> QED BY <2>1, <3>1 DEF Voided
  <2>6. call[t].client # c => Voided(call[t])' = Voided(call[t])
      BY <2>1 DEF Voided
  <2> QED BY <2>2, <2>3, <2>4, <2>5, <2>6
<1>2. ASSUME NEW t \in Callers
      PROVE  Owed(call[t])' = IF OwedCalls[t] # NoCall /\ OwedCalls[t].client = c
                                THEN [OwedCalls[t] EXCEPT !.void = TRUE] ELSE OwedCalls[t]
  <2>1. CASE call[t] = NoCall
      BY <2>1 DEF OwedCalls, Owed
  <2>2. CASE call[t] # NoCall
    <3> DEFINE o == OwedCalls[t]
               k == call[t]
    <3>1. o = [client |-> k.client, frames |-> Rest(k), void |-> Voided(k)] /\ o # NoCall
        BY <1>1, <2>2 DEF OwedCalls
    <3>2. Owed(k)' = [client |-> k.client, frames |-> Rest(k),
                      void |-> IF k.client = c THEN TRUE ELSE Voided(k)]
        BY <1>1, <2>2
    <3>3. k.client \in ClientIds /\ Rest(k) \in Seq(Nat) /\ Voided(k) \in BOOLEAN
        BY <2>2, CallIsCall, RestSeq DEF EnqueueCall, Voided
    <3>4. /\ o \in [client : ClientIds, frames : Seq(Nat), void : BOOLEAN]
          /\ o.client = k.client /\ o.frames = Rest(k)
        BY <3>1, <3>3
    <3> HIDE DEF o
    <3>5. [o EXCEPT !.void = TRUE] = [client |-> k.client, frames |-> Rest(k), void |-> TRUE]
        BY <3>3, <3>4, VoidedRecord
    <3> QED BY <3>1, <3>2, <3>4, <3>5 DEF o
  <2> QED BY <2>1, <2>2
<1> QED BY <1>2 DEF Fifo!Void, OwedCalls

LEMMA FifoDetach ==
  ASSUME TypeOK, FreshInv, NEW t \in Callers, NEW c \in DOMAIN mClients, Detach(t, c)
  PROVE  Fifo!Close
<1>1. /\ UNCHANGED <<call, mRunning>>
      /\ canceledFrames' = canceledFrames + mClients[c].count
      /\ mClients' = [d \in DOMAIN mClients \ {c} |-> mClients[d]]
    BY DEF Detach
<1>2. OwedCalls' = Fifo!Void(c)
  <2>1. \A d \in ClientIds : d # c =>
           /\ d \in DOMAIN mClients' <=> d \in DOMAIN mClients
           /\ d \in DOMAIN mClients => mClients'[d].generation = mClients[d].generation
      BY <1>1
  <2>2. c \notin DOMAIN mClients'
      BY <1>1
  <2> QED BY <1>1, <2>1, <2>2, FifoVoid
<1>3. Fifos' = [d \in DOMAIN Fifos \ {c} |-> Fifos[d]]
  <2>1. Fifos' = [d \in DOMAIN mClients \ {c} |-> Queued(mClients'[d])]
      BY <1>1 DEF Fifos, Queued, Oldest, Cell
  <2> QED BY <1>1, <2>1 DEF Fifos
<1>4. Len(Fifos[c]) = mClients[c].count /\ c \in DOMAIN Fifos
    BY QueuedSeq DEF Fifos, TypeOK
<1> QED BY <1>1, <1>2, <1>3, <1>4 DEF Fifo!Close, Fifo!Without, Fifos, OwedCalls

LEMMA FifoClear ==
  ASSUME TypeOK, FreshInv, NEW t \in Callers, NEW c \in DOMAIN mClients, Clear(t, c)
  PROVE  Fifo!Flush
<1>1. /\ UNCHANGED <<call, mRunning>>
      /\ canceledFrames' = canceledFrames + mClients[c].count
      /\ mClients' = [mClients EXCEPT ![c] = Cleared(@)]
      /\ mClients[c].generation < MaxFlushes
    BY DEF Clear
<1>2. /\ mClients[c] \in Queue /\ Cleared(mClients[c]) \in Queue
      /\ Cleared(mClients[c]).count = 0
      /\ Cleared(mClients[c]).generation = mClients[c].generation + 1
  <2>1. mClients[c] \in Queue
      BY DEF TypeOK
  <2> DEFINE q == mClients[c]
  <2> HIDE DEF q
  <2>2. q \in Queue => Cleared(q).count = 0 /\ Cleared(q).generation = q.generation + 1
      BY DEF Cleared, Queue
  <2> QED BY <1>1, <2>1, <2>2, ClearedType DEF q
<1>3. OwedCalls' = Fifo!Void(c)
  <2>1. \A d \in ClientIds : d # c =>
           /\ d \in DOMAIN mClients' <=> d \in DOMAIN mClients
           /\ d \in DOMAIN mClients => mClients'[d].generation = mClients[d].generation
      BY <1>1
  <2>2. mClients'[c].generation = mClients[c].generation + 1
      BY <1>1, <1>2
  <2> QED BY <1>1, <2>1, <2>2, FifoVoid
<1>4. Fifos' = [Fifos EXCEPT ![c] = <<>>]
  <2>1. Fifos' = [d \in DOMAIN mClients |-> Queued(mClients'[d])]
      BY <1>1 DEF Fifos, Queued, Oldest, Cell
  <2>2. Queued(Cleared(mClients[c])) = <<>>
      BY <1>2, EmptyQueued
  <2> QED BY <1>1, <2>1, <2>2 DEF Fifos
<1>5. Len(Fifos[c]) = mClients[c].count /\ c \in DOMAIN Fifos
    BY <1>2, QueuedSeq DEF Fifos
<1> QED BY <1>1, <1>3, <1>4, <1>5 DEF Fifo!Flush, Fifos, OwedCalls

LEMMA FifoEnqueue ==
  ASSUME TypeOK, NEW t \in Callers, NEW c \in 1..mNextClient - 1,
         NEW n \in 1..MaxOffered, Enqueue(t, c, n)
  PROVE  \E s \in OfferedFrames : c \in DOMAIN Fifos /\ Fifo!Offer(t, c, s)
<1> DEFINE k == [client |-> c, generation |-> mClients[c].generation,
                 next |-> offered[c] + 1, last |-> offered[c] + n]
<1>1. /\ c \in DOMAIN mClients /\ offered[c] + n <= MaxOffered /\ CopyLoop(t, k)
      /\ pc[t] = "idle" /\ mRunning' = mRunning
    BY DEF Enqueue, Idle
<1>2. k \in EnqueueCall /\ k.next <= k.last
    BY <1>1, EnqueueOfCall
<1>3. Rest(k) \in OfferedFrames
  <2>1. c \in ClientIds
      BY <1>1, SizesAssumption DEF TypeOK, ClientIds
  <2>2. offered[c] \in 0..MaxOffered
      BY <2>1 DEF TypeOK
  <2>3. Left(k) = n /\ k.next = offered[c] + 1
      BY <2>2 DEF Left
  <2> HIDE DEF k
  <2>4. Rest(k) = [i \in 1..n |-> offered[c] + i]
      BY <2>2, <2>3 DEF Rest
  <2> QED BY <2>2, <2>4 DEF OfferedFrames
<1>4. OwedCalls[t] = NoCall /\ c \in DOMAIN Fifos
    BY <1>1 DEF OwedCalls, Owed, Fifos, TypeOK
<1>5. k.client = c /\ (Canceled(k) => ~mRunning)
    BY <1>1 DEF Canceled
<1> HIDE DEF k
<1>6. CASE ~Canceled(k)
  <2>1. \E j \in 0..Len(Rest(k)) : Fifo!Put(t, k.client, Rest(k), j)
      BY <1>1, <1>2, <1>6, FifoPut
  <2>2. Fifo!Offer(t, c, Rest(k))
      BY <1>4, <1>5, <2>1 DEF Fifo!Offer, Fifos, OwedCalls
  <2> QED BY <1>3, <1>4, <2>2
<1>7. CASE Canceled(k)
  <2>1. /\ canceledFrames' = canceledFrames + Len(Rest(k))
        /\ Fifos' = Fifos /\ OwedCalls' = [OwedCalls EXCEPT ![t] = NoCall]
      BY <1>1, <1>2, <1>7, FifoGiveUp
  <2>2. OwedCalls' = OwedCalls
      BY <1>4, <2>1 DEF OwedCalls
  <2>3. Fifo!Offer(t, c, Rest(k))
      BY <1>1, <1>4, <1>5, <1>7, <2>1, <2>2 DEF Fifo!Offer, Fifos, OwedCalls
  <2> QED BY <1>3, <1>4, <2>3
<1> QED BY <1>6, <1>7

LEMMA FifoResume ==
  ASSUME TypeOK, NEW t \in Callers, Resume(t)
  PROVE  Fifo!Accept(t) \/ Fifo!Cancel(t)
<1> DEFINE k == call[t]
<1>1. /\ k \in EnqueueCall /\ k.next <= k.last /\ k # NoCall
      /\ CopyLoop(t, k) /\ mRunning' = mRunning
    BY NoCallAssumption DEF Resume, TypeOK
<1>2. OwedCalls[t] = [client |-> k.client, frames |-> Rest(k), void |-> Voided(k)]
    BY <1>1 DEF OwedCalls, Owed
<1>3. OwedCalls[t] # NoCall
  <2>1. Rest(k) \in Seq(Nat) /\ Voided(k) \in BOOLEAN /\ k.client \in ClientIds
      BY <1>1, RestSeq DEF Voided, EnqueueCall
  <2>2. OwedCalls[t] \in [client : ClientIds, frames : Seq(Nat), void : BOOLEAN]
      BY <1>2, <2>1
  <2> QED BY <2>2, NoCallAssumption
<1>4. /\ OwedCalls[t].client = k.client /\ OwedCalls[t].frames = Rest(k)
      /\ OwedCalls[t].void = Voided(k)
      /\ Canceled(k) <=> ~mRunning \/ Voided(k)
    BY <1>2 DEF Canceled, Voided
<1> HIDE DEF k
<1>5. CASE ~Canceled(k)
  <2>1. \E j \in 0..Len(Rest(k)) : Fifo!Put(t, k.client, Rest(k), j)
      BY <1>1, <1>5, FifoPut
  <2> QED BY <1>3, <1>4, <1>5, <2>1 DEF Fifo!Accept, OwedCalls
<1>6. CASE Canceled(k)
  <2>1. /\ canceledFrames' = canceledFrames + Len(Rest(k))
        /\ Fifos' = Fifos /\ OwedCalls' = [OwedCalls EXCEPT ![t] = NoCall]
      BY <1>1, <1>6, FifoGiveUp
  <2> QED BY <1>1, <1>3, <1>4, <1>6, <2>1 DEF Fifo!Cancel, OwedCalls, Fifos
<1> QED BY <1>5, <1>6

LEMMA FifoMix ==
  ASSUME TypeOK, WriterMix
  PROVE  Fifo!Take
<1>1. /\ UNCHANGED <<call, canceledFrames, mRunning>>
      /\ DOMAIN mClients' = DOMAIN mClients
    BY DEF WriterMix, callVars
<1>2. ASSUME NEW c \in DOMAIN mClients
      PROVE  /\ Queued(mClients'[c]) = SubSeq(Fifos[c], PeriodFrames + 1, Len(Fifos[c]))
             /\ mClients'[c].generation = mClients[c].generation
  <2>1. sampled \in BOOLEAN /\ Fifos[c] = Queued(mClients[c])
      BY DEF TypeOK, Fifos
  <2>2. Queued(Advanced(mClients[c], Taken(mClients[c])))
          = SubSeq(Queued(mClients[c]), PeriodFrames + 1, Len(Queued(mClients[c])))
      BY <2>1, MixQueue, AdvancedIsSubSeq
  <2>3. mClients'[c].generation = mClients[c].generation
      BY MixQueue DEF Advanced, Queue
  <2> QED BY <2>1, <2>2, <2>3, MixQueue
<1>3. Fifos' = [c \in DOMAIN Fifos |-> SubSeq(Fifos[c], PeriodFrames + 1, Len(Fifos[c]))]
  <2>1. Fifos' = [d \in DOMAIN mClients |-> Queued(mClients'[d])]
      BY <1>1 DEF Fifos, Queued, Oldest, Cell
  <2> QED BY <1>2, <2>1 DEF Fifos
<1>4. OwedCalls' = OwedCalls
    BY <1>1, <1>2 DEF OwedCalls, Owed, Voided, Rest, Left
<1> QED BY <1>1, <1>3, <1>4 DEF Fifo!Take, Fifos, OwedCalls

LEMMA FifoStop ==
  ASSUME StopRunning
  PROVE  Fifo!Stop
<1>1. UNCHANGED <<mClients, call, canceledFrames>> /\ mRunning' = FALSE
    BY DEF StopRunning, queueVars, callVars
<1>2. Fifos' = Fifos /\ OwedCalls' = OwedCalls
    BY <1>1 DEF Fifos, Queued, Oldest, Cell, OwedCalls, Owed, Voided, Rest, Left
<1> QED BY <1>1, <1>2 DEF Fifo!Stop, Fifos, OwedCalls

LEMMA FifoStep == TypeOK /\ FreshInv /\ [Next]_vars => [Fifo!Next]_(Fifo!vars)
<1> SUFFICES ASSUME TypeOK, FreshInv, [Next]_vars
             PROVE  Fifo!Next \/ UNCHANGED Fifo!vars
    OBVIOUS
<1>1. ASSUME NEW t \in Callers, Caller(t)
      PROVE  Fifo!Next \/ UNCHANGED Fifo!vars
  <2>1. CASE Attach(t)
      BY <2>1, FifoAttach DEF Fifo!Next
  <2>2. ASSUME NEW c \in 1..mNextClient - 1, Detach(t, c)
        PROVE  Fifo!Next \/ UNCHANGED Fifo!vars
    <3>1. CASE c \in DOMAIN mClients
        BY <2>2, <3>1, FifoDetach DEF Fifo!Next
    <3>2. CASE c \notin DOMAIN mClients
        BY <2>2, <3>2, FifoFrame DEF Detach
    <3> QED BY <3>1, <3>2
  <2>3. ASSUME NEW c \in 1..mNextClient - 1, Clear(t, c)
        PROVE  Fifo!Next \/ UNCHANGED Fifo!vars
    <3>1. CASE c \in DOMAIN mClients
        BY <2>3, <3>1, FifoClear DEF Fifo!Next
    <3>2. CASE c \notin DOMAIN mClients
        BY <2>3, <3>2, FifoFrame DEF Clear
    <3> QED BY <3>1, <3>2
  <2>4. ASSUME NEW c \in 1..mNextClient - 1, NEW n \in 1..MaxOffered, Enqueue(t, c, n)
        PROVE  Fifo!Next
      BY <2>4, FifoEnqueue DEF Fifo!Next, Fifos
  <2>5. CASE Notify(t) \/ SpuriousWake(t)
      BY <2>5, FifoFrame DEF Notify, SpuriousWake, queueVars
  <2>6. CASE Resume(t)
      BY <2>6, FifoResume DEF Fifo!Next
  <2> QED BY <1>1, <2>1, <2>2, <2>3, <2>4, <2>5, <2>6 DEF Caller
<1>2. CASE Writer
  <2>1. CASE WriterMix
      BY <2>1, FifoMix DEF Fifo!Next
  <2>2. CASE WriterTop \/ WriterNotify \/ WriterBackoff \/ WriterWriteOk \/ WriterWriteFails
      BY <2>2, FifoFrame DEF WriterTop, WriterNotify, WriterBackoff, WriterWriteOk,
                             WriterWriteFails, queueVars, callVars
  <2> QED BY <1>2, <2>1, <2>2 DEF Writer
<1>3. CASE StopRunning
    BY <1>3, FifoStop DEF Fifo!Next
<1>4. CASE StopNotify \/ StopJoin \/ SetAudible
    BY <1>4, FifoFrame DEF StopNotify, StopJoin, SetAudible, queueVars, callVars
<1>5. CASE UNCHANGED vars
    BY <1>5, FifoFrame DEF vars, queueVars, callVars
<1> QED BY <1>1, <1>2, <1>3, <1>4, <1>5 DEF Next

\* The output is a bounded FIFO per client for every ring and period: each step
\* of the rings, the wrapping copy, the flush and the writer is a step of
\* FrameFifo or changes nothing there.
THEOREM OutputIsFifo == Spec => ImplementsFifo
<1>1. Spec => []FreshInv
    BY FreshInit, FreshStep, TypeCorrect, PTL DEF Spec
<1> QED BY <1>1, FifoInit, FifoStep, TypeCorrect, PTL DEF Spec, ImplementsFifo, Fifo!Spec

-----------------------------------------------------------------------------
(* Every frame is accounted for. *)

Bars(f) == UNION {{x} \X (1..f[x]) : x \in DOMAIN f}

LEMMA BarOf ==
  ASSUME NEW x, NEW n \in Nat
  PROVE  IsFiniteSet({x} \X (1..n)) /\ Cardinality({x} \X (1..n)) = n
<1>1. IsFiniteSet({x}) /\ Cardinality({x}) = 1
    BY FS_Singleton
<1>2. IsFiniteSet(1..n) /\ Cardinality(1..n) = n
  <2>1. IsFiniteSet(1..n) /\ Cardinality(1..n) = IF 1 > n THEN 0 ELSE n - 1 + 1
      BY FS_Interval
  <2> QED BY <2>1
<1> DEFINE S == {x}
           T == 1..n
<1>3. IsFiniteSet(S) /\ IsFiniteSet(T)
    BY <1>1, <1>2
<1> HIDE DEF S, T
<1>4. /\ IsFiniteSet(S \X T)
      /\ Cardinality(S \X T) = Cardinality(S) * Cardinality(T)
    BY <1>3, FS_Product
<1> QED BY <1>1, <1>2, <1>4 DEF S, T

LEMMA InBars ==
  ASSUME NEW S, NEW f \in [S -> Nat], NEW p
  PROVE  p \in Bars(f) <=> \E x \in S : \E i \in 1..f[x] : p = <<x, i>>
<1>1. DOMAIN f = S
    OBVIOUS
<1>2. ASSUME NEW x \in S
      PROVE  p \in {x} \X (1..f[x]) <=> \E i \in 1..f[x] : p = <<x, i>>
    OBVIOUS
<1> QED BY <1>1, <1>2 DEF Bars

LEMMA BarsFinite ==
  ASSUME NEW S, IsFiniteSet(S), NEW m \in Nat, NEW f \in [S -> 0..m]
  PROVE  IsFiniteSet(Bars(f)) /\ Total(f) \in Nat /\ Total(f) = Cardinality(Bars(f))
<1>1. Bars(f) \subseteq S \X (1..m)
  <2> SUFFICES ASSUME NEW p \in Bars(f) PROVE p \in S \X (1..m)
      OBVIOUS
  <2>1. PICK x \in S : \E i \in 1..f[x] : p = <<x, i>>
      BY InBars
  <2>2. PICK i \in 1..f[x] : p = <<x, i>>
      BY <2>1
  <2>3. i \in 1..m
      BY <2>2
  <2> QED BY <2>2, <2>3
<1>2. IsFiniteSet(1..m)
    BY FS_Interval
<1>3. IsFiniteSet(S \X (1..m))
    BY <1>2, FS_Product
<1>4. IsFiniteSet(Bars(f))
    BY <1>1, <1>3, FS_Subset
<1> QED BY <1>4, FS_CardinalityType DEF Total, Bars

\* A sum follows the one value that changes.
LEMMA TotalChange ==
  ASSUME NEW S, IsFiniteSet(S), NEW m \in Nat, NEW f \in [S -> 0..m],
         NEW g \in [S -> 0..m], NEW x \in S, \A y \in S \ {x} : g[y] = f[y]
  PROVE  Total(g) + f[x] = Total(f) + g[x]
<1> DEFINE R == Bars(f) \ ({x} \X (1..f[x]))
           F == {x} \X (1..f[x])
           G == {x} \X (1..g[x])
<1>0. f \in [S -> Nat] /\ g \in [S -> Nat] /\ f[x] \in Nat /\ g[x] \in Nat
    OBVIOUS
<1>1. Bars(f) = R \cup F /\ R \cap F = {}
    BY <1>0, InBars
<1>2. Bars(g) = R \cup G /\ R \cap G = {}
  <2>1. ASSUME NEW p \in Bars(g) PROVE p \in R \cup G
    <3>1. PICK y \in S : \E i \in 1..g[y] : p = <<y, i>>
        BY <1>0, InBars
    <3>2. PICK i \in 1..g[y] : p = <<y, i>>
        BY <3>1
    <3>3. CASE y = x
        BY <3>2, <3>3
    <3>4. CASE y # x
      <4>1. i \in 1..f[y]
          BY <3>2, <3>4
      <4>2. p \in Bars(f)
          BY <1>0, <3>2, <4>1, InBars
      <4> QED BY <3>2, <3>4, <4>2
    <3> QED BY <3>3, <3>4
  <2>2. ASSUME NEW p \in R PROVE p \in Bars(g) /\ p \notin G
    <3>1. PICK y \in S : \E i \in 1..f[y] : p = <<y, i>>
        BY <1>0, InBars
    <3>2. PICK i \in 1..f[y] : p = <<y, i>>
        BY <3>1
    <3>3. y # x
        BY <3>2
    <3>4. i \in 1..g[y]
        BY <3>2, <3>3
    <3> QED BY <1>0, <3>2, <3>3, <3>4, InBars
  <2>3. ASSUME NEW p \in G PROVE p \in Bars(g)
      BY <1>0, InBars
  <2> HIDE DEF R, G
  <2> QED BY <2>1, <2>2, <2>3
<1>3. IsFiniteSet(Bars(f)) /\ Total(f) = Cardinality(Bars(f)) /\ Total(g) = Cardinality(Bars(g))
    BY BarsFinite
<1>4. IsFiniteSet(R) /\ Cardinality(R) \in Nat
    BY <1>3, FS_Difference, FS_CardinalityType
<1>5. /\ IsFiniteSet(F) /\ Cardinality(F) = f[x]
      /\ IsFiniteSet(G) /\ Cardinality(G) = g[x]
    BY <1>0, BarOf
<1> HIDE DEF R, F, G
<1>6. Cardinality(R \cup F) = Cardinality(R) + Cardinality(F) - Cardinality({})
    BY <1>1, <1>4, <1>5, FS_Union
<1>7. Cardinality(R \cup G) = Cardinality(R) + Cardinality(G) - Cardinality({})
    BY <1>2, <1>4, <1>5, FS_Union
<1>8. Cardinality({}) = 0
    BY FS_EmptySet
<1> QED BY <1>0, <1>1, <1>2, <1>3, <1>4, <1>5, <1>6, <1>7, <1>8

LEMMA CountsType ==
  ASSUME TypeOK
  PROVE  /\ IsFiniteSet(ClientIds) /\ IsFiniteSet(Callers)
         /\ offered \in [ClientIds -> 0..MaxOffered]
         /\ Counts \in [ClientIds -> 0..QueueFrames]
         /\ OwedFrames \in [Callers -> 0..MaxOffered]
         /\ DOMAIN mClients \subseteq ClientIds
         /\ MaxOffered \in Nat /\ QueueFrames \in Nat
<1>1. IsFiniteSet(ClientIds)
    BY FS_Interval, SizesAssumption DEF ClientIds
<1>2. Counts \in [ClientIds -> 0..QueueFrames]
    BY SizesAssumption DEF Counts, TypeOK, Queue
<1>3. ASSUME NEW t \in Callers, call[t] # NoCall
      PROVE  Left(call[t]) \in 0..MaxOffered
  <2>1. call[t] \in EnqueueCall /\ call[t].next <= call[t].last
      BY <1>3, CallIsCall
  <2> QED BY <2>1, SizesAssumption DEF EnqueueCall, Left
<1>4. OwedFrames \in [Callers -> 0..MaxOffered]
    BY <1>3, SizesAssumption DEF OwedFrames
<1>5. DOMAIN mClients \subseteq ClientIds
    BY SizesAssumption DEF TypeOK, ClientIds
<1> QED BY <1>1, <1>2, <1>4, <1>5, CallersAssumption, SizesAssumption DEF TypeOK

LEMMA TotalsType ==
  ASSUME TypeOK
  PROVE  /\ Total(offered) \in Nat /\ Total(Counts) \in Nat /\ Total(OwedFrames) \in Nat
         /\ consumed \in Nat /\ canceledFrames \in Nat
<1>1. Total(offered) \in Nat
    BY CountsType, BarsFinite
<1>2. Total(Counts) \in Nat
    BY CountsType, BarsFinite
<1>3. Total(OwedFrames) \in Nat
    BY CountsType, BarsFinite
<1> QED BY <1>1, <1>2, <1>3 DEF TypeOK

\* The number of the i-th frame of a queue, from 0.
FrameAt(q, i) == q.samples[Cell(q, i)]

Ordered(q) == \A i, j \in 0..q.count - 1 : i < j => FrameAt(q, i) < FrameAt(q, j)

Below(q, m) == \A i \in 0..q.count - 1 : FrameAt(q, i) < m

\* A queue holds a client's frames in the order they were offered, so none twice.
OrderInv ==
  \A c \in DOMAIN mClients :
    /\ Ordered(mClients[c]) /\ Below(mClients[c], offered[c] + 1)
    /\ \A t \in Callers : Feeds(t, c) /\ Live(call[t]) => Below(mClients[c], call[t].next)

LEMMA OrderInit == Init => OrderInv
  BY DEF Init, OrderInv

LEMMA OrderFrame ==
  ASSUME OrderInv, UNCHANGED <<mClients, call, offered>>
  PROVE  OrderInv'
  BY DEF OrderInv, Ordered, Below, FrameAt, Cell, Feeds, Live

LEMMA EmptyOrdered ==
  ASSUME NEW q, q.count = 0, NEW m
  PROVE  Ordered(q) /\ Below(q, m)
  BY DEF Ordered, Below

LEMMA FrameType ==
  ASSUME NEW q \in Queue, NEW i \in 0..q.count - 1
  PROVE  FrameAt(q, i) \in 0..MaxOffered
<1>1. q.count \in 0..QueueFrames /\ q.samples \in [0..QueueFrames - 1 -> 0..MaxOffered]
    BY DEF Queue
<1>2. Cell(q, i) \in 0..QueueFrames - 1
    BY SMTT(30), <1>1, CellInRing
<1> QED BY <1>1, <1>2 DEF FrameAt

LEMMA FilledOrdered ==
  ASSUME NEW q \in Queue, NEW f \in 1..MaxOffered, NEW n \in 0..QueueFrames - q.count,
         Ordered(q), Below(q, f)
  PROVE  Ordered(Filled(q, f, n)) /\ Below(Filled(q, f, n), f + n)
<1> DEFINE r == Filled(q, f, n)
<1>1. /\ r.read = q.read /\ r.count = q.count + n
      /\ \A i \in 0..q.count - 1 : r.samples[Cell(q, i)] = q.samples[Cell(q, i)]
      /\ \A i \in 0..n - 1 : r.samples[Cell(q, q.count + i)] = f + i
    BY FilledFrames
<1>2. q.count \in 0..QueueFrames /\ n \in Nat
    BY SizesAssumption DEF Queue
<1> HIDE DEF r
<1>3. ASSUME NEW i \in 0..q.count - 1
      PROVE  FrameAt(r, i) = FrameAt(q, i) /\ FrameAt(q, i) \in Nat /\ FrameAt(q, i) < f
    BY <1>1, FrameType DEF FrameAt, Cell, Below
<1>4. ASSUME NEW i \in q.count..r.count - 1
      PROVE  FrameAt(r, i) = f + (i - q.count)
  <2>1. i - q.count \in 0..n - 1 /\ i = q.count + (i - q.count)
      BY <1>1, <1>2
  <2>2. r.samples[Cell(q, q.count + (i - q.count))] = f + (i - q.count)
      BY <1>1, <2>1
  <2>3. FrameAt(r, i) = r.samples[Cell(q, i)]
      BY <1>1 DEF FrameAt, Cell
  <2> QED BY <2>1, <2>2, <2>3
<1>5. \A i \in 0..r.count - 1 : i \in 0..q.count - 1 \/ i \in q.count..r.count - 1
    BY <1>1, <1>2
<1>6. Below(r, f + n)
    BY <1>1, <1>2, <1>3, <1>4, <1>5 DEF Below
<1>7. Ordered(r)
  <2> SUFFICES ASSUME NEW i \in 0..r.count - 1, NEW j \in 0..r.count - 1, i < j
               PROVE  FrameAt(r, i) < FrameAt(r, j)
      BY DEF Ordered
  <2>1. CASE i \in 0..q.count - 1 /\ j \in 0..q.count - 1
      BY <1>3, <2>1 DEF Ordered
  <2>2. CASE i \in 0..q.count - 1 /\ j \in q.count..r.count - 1
      BY <1>1, <1>2, <1>3, <1>4, <2>2
  <2>3. CASE i \in q.count..r.count - 1 /\ j \in q.count..r.count - 1
      BY <1>1, <1>2, <1>4, <2>3
  <2> QED BY <1>2, <1>5, <2>1, <2>2, <2>3
<1> QED BY <1>6, <1>7 DEF r

LEMMA AdvancedOrdered ==
  ASSUME NEW q \in Queue, NEW n \in 0..q.count, Ordered(q), NEW m, Below(q, m)
  PROVE  Ordered(Advanced(q, n)) /\ Below(Advanced(q, n), m)
<1> DEFINE r == Advanced(q, n)
<1>1. q.count \in 0..QueueFrames /\ r.count = q.count - n /\ r.samples = q.samples
    BY DEF Advanced, Queue
<1>2. \A i \in 0..q.count - n : Cell(r, i) = Cell(q, n + i)
    BY AdvancedCell
<1> HIDE DEF r
<1>3. ASSUME NEW i \in 0..r.count - 1
      PROVE  FrameAt(r, i) = FrameAt(q, n + i) /\ n + i \in 0..q.count - 1
    BY <1>1, <1>2, SizesAssumption DEF FrameAt
<1>4. Below(r, m)
    BY <1>3 DEF Below
<1>5. Ordered(r)
  <2> SUFFICES ASSUME NEW i \in 0..r.count - 1, NEW j \in 0..r.count - 1, i < j
               PROVE  FrameAt(r, i) < FrameAt(r, j)
      BY DEF Ordered
  <2>1. n + i < n + j
      BY <1>1, SizesAssumption
  <2> QED BY <1>3, <2>1 DEF Ordered
<1> QED BY <1>4, <1>5 DEF r

\* One client may be added, emptied or removed, the others stay as they are.
LEMMA OrderEmptied ==
  ASSUME TypeOK, OrderInv, NEW c, UNCHANGED <<call, offered>>,
         \A d \in DOMAIN mClients' : d # c => d \in DOMAIN mClients
                                             /\ mClients'[d] = mClients[d],
         c \in DOMAIN mClients' => mClients'[c].count = 0
  PROVE  OrderInv'
<1> SUFFICES ASSUME NEW d \in DOMAIN mClients'
             PROVE  /\ Ordered(mClients'[d]) /\ Below(mClients'[d], offered[d] + 1)
                    /\ \A t \in Callers : Feeds(t, d)' /\ Live(call[t])'
                                            => Below(mClients'[d], call[t].next)
    BY DEF OrderInv, Ordered, Below, FrameAt, Cell
<1>1. CASE d = c
    BY <1>1, EmptyOrdered
<1>2. CASE d # c
    BY <1>2 DEF OrderInv, Feeds, Live
<1> QED BY <1>1, <1>2

LEMMA OrderCopyLoop ==
  ASSUME TypeOK, OrderInv, NEW t \in Callers, NEW k \in EnqueueCall, k.next <= k.last,
         CopyLoop(t, k), offered' \in [ClientIds -> 0..MaxOffered],
         \A d \in ClientIds : offered'[d] >= offered[d]
                              /\ (d # k.client => offered'[d] = offered[d]),
         k.last <= offered'[k.client],
         Live(k) => Below(mClients[k.client], k.next),
         \A u \in Callers \ {t} : ~Feeds(u, k.client)
  PROVE  OrderInv'
<1> DEFINE c == k.client
<1>1. /\ c \in ClientIds /\ k.next \in 1..MaxOffered /\ k.last \in 1..MaxOffered
      /\ Left(k) = k.last - k.next + 1 /\ DOMAIN call = Callers
      /\ \A d \in ClientIds : offered[d] \in Nat /\ offered'[d] \in Nat
      /\ DOMAIN mClients \subseteq ClientIds
    BY CountsType DEF EnqueueCall, Left, TypeOK
<1>2. ASSUME NEW d \in DOMAIN mClients
      PROVE  /\ mClients[d] \in Queue /\ Ordered(mClients[d])
             /\ Below(mClients[d], offered'[d] + 1)
  <2>1. mClients[d] \in Queue /\ Ordered(mClients[d])
        /\ \A i \in 0..mClients[d].count - 1 : FrameAt(mClients[d], i) < offered[d] + 1
      BY DEF TypeOK, OrderInv, Below
  <2>2. \A i \in 0..mClients[d].count - 1 : FrameAt(mClients[d], i) \in Nat
      BY <2>1, FrameType
  <2>3. d \in ClientIds /\ offered[d] \in Nat /\ offered'[d] \in Nat /\ offered'[d] >= offered[d]
      BY <1>1
  <2> QED BY <2>1, <2>2, <2>3 DEF Below
<1>3. CASE Canceled(k)
  <2>1. UNCHANGED mClients /\ call' = [call EXCEPT ![t] = NoCall]
      BY <1>3 DEF CopyLoop, GiveUp
  <2>2. call'[t] = NoCall /\ \A u \in Callers \ {t} : call'[u] = call[u]
      BY <1>1, <2>1
  <2> SUFFICES ASSUME NEW d \in DOMAIN mClients
               PROVE  /\ Ordered(mClients[d]) /\ Below(mClients[d], offered'[d] + 1)
                      /\ \A u \in Callers : Feeds(u, d)' /\ Live(call[u])'
                                              => Below(mClients[d], call'[u].next)
      BY <2>1 DEF OrderInv, Ordered, Below, FrameAt, Cell
  <2>3. ASSUME NEW u \in Callers, Feeds(u, d)', Live(call[u])'
        PROVE  Below(mClients[d], call'[u].next)
    <3>1. u # t
        BY <2>2, <2>3 DEF Feeds
    <3>2. call'[u] = call[u]
        BY <2>2, <3>1
    <3>3. Feeds(u, d) /\ Live(call[u])
        BY <2>1, <2>3, <3>2 DEF Feeds, Live
    <3> QED BY <3>2, <3>3 DEF OrderInv
  <2> QED BY <1>2, <2>3
<1>4. CASE ~Canceled(k)
  <2> DEFINE q == mClients[c]
  <2>1. PICK n \in 0..QueueFrames - q.count :
           /\ mClients' = [mClients EXCEPT ![c] = Filled(@, k.next, n)]
           /\ n \in 0..Left(k)
           /\ call' = [call EXCEPT ![t] = IF n = Left(k) THEN NoCall
                                         ELSE [k EXCEPT !.next = @ + n]]
      BY <1>4, CopyLoopCopies, TypeParts
  <2>2. /\ c \in DOMAIN mClients /\ q \in Queue /\ q.count \in 0..QueueFrames
        /\ Live(k) /\ n \in Nat
      BY SMTT(30), <1>4, <2>1, SizesAssumption DEF Canceled, TypeOK, Queue, Live
  <2>3. /\ mClients'[c] = Filled(q, k.next, n) /\ DOMAIN mClients' = DOMAIN mClients
        /\ \A d \in DOMAIN mClients : d # c => mClients'[d] = mClients[d]
      BY <2>1, <2>2
  <2>4. Ordered(mClients'[c]) /\ Below(mClients'[c], k.next + n)
    <3>1. Below(q, k.next) /\ Ordered(q)
        BY <1>2, <2>2
    <3> HIDE DEF q
    <3> QED BY <1>1, <2>1, <2>2, <2>3, <3>1, FilledOrdered
  <2>5. /\ \A u \in Callers \ {t} : call'[u] = call[u]
        /\ n = Left(k) => call'[t] = NoCall
        /\ n # Left(k) => call'[t] = [k EXCEPT !.next = @ + n]
      BY <1>1, <2>1
  <2>6. n # Left(k) => call'[t].client = c /\ call'[t].next = k.next + n
      BY <2>5 DEF EnqueueCall
  <2>7. Below(mClients'[c], offered'[c] + 1)
    <3>1. \A i \in 0..mClients'[c].count - 1 : FrameAt(mClients'[c], i) \in Nat
      <4>1. Filled(q, k.next, n) \in Queue
        <5>1. k.next + n - 1 <= MaxOffered
            BY <1>1, <2>1, <2>2, SizesAssumption
        <5> QED BY <1>1, <2>1, <2>2, <5>1, FilledType
      <4> QED BY <2>3, <4>1, FrameType
    <3>2. k.next + n <= offered'[c] + 1
        BY <1>1, <2>1, <2>2
    <3>3. k.next + n \in Nat /\ offered'[c] \in Nat
        BY <1>1, <2>2
    <3> QED BY <2>4, <3>1, <3>2, <3>3 DEF Below
  <2> SUFFICES ASSUME NEW d \in DOMAIN mClients
               PROVE  /\ Ordered(mClients'[d]) /\ Below(mClients'[d], offered'[d] + 1)
                      /\ \A u \in Callers : Feeds(u, d)' /\ Live(call[u])'
                                              => Below(mClients'[d], call'[u].next)
      BY <2>3 DEF OrderInv, Ordered, Below, FrameAt, Cell
  <2>8. CASE d = c
    <3>1. ASSUME NEW u \in Callers, Feeds(u, d)'
          PROVE  Below(mClients'[d], call'[u].next)
      <4>1. u = t
          BY <2>5, <2>8, <3>1 DEF Feeds
      <4>2. n # Left(k)
          BY <2>5, <3>1, <4>1 DEF Feeds
      <4> QED BY <2>4, <2>6, <2>8, <4>1, <4>2
    <3> QED BY <2>4, <2>7, <2>8, <3>1
  <2>9. CASE d # c
    <3>1. ASSUME NEW u \in Callers, Feeds(u, d)', Live(call[u])'
          PROVE  Below(mClients[d], call'[u].next)
      <4>1. u # t
          BY <2>5, <2>6, <2>9, <3>1 DEF Feeds
      <4>2. call'[u] = call[u]
          BY <2>5, <4>1
      <4>3. Feeds(u, d) /\ Live(call[u])
          BY <2>3, <2>9, <3>1, <4>2 DEF Feeds, Live
      <4> QED BY <4>2, <4>3 DEF OrderInv
    <3> QED BY <1>2, <2>3, <2>9, <3>1
  <2> QED BY <2>8, <2>9
<1> QED BY <1>3, <1>4

\* The step of enqueue() and of a call that goes on.
LEMMA OrderEnqueue ==
  ASSUME TypeOK, OrderInv, NEW t \in Callers, NEW c \in 1..mNextClient - 1,
         NEW n \in 1..MaxOffered, Enqueue(t, c, n)
  PROVE  OrderInv'
<1> DEFINE k == [client |-> c, generation |-> mClients[c].generation,
                 next |-> offered[c] + 1, last |-> offered[c] + n]
<1>1. /\ c \in DOMAIN mClients /\ offered[c] + n <= MaxOffered /\ CopyLoop(t, k)
      /\ offered' = [offered EXCEPT ![c] = @ + n] /\ \A u \in Callers : ~Feeds(u, c)
    BY DEF Enqueue
<1>2. k \in EnqueueCall /\ k.next <= k.last
    BY <1>1, EnqueueOfCall
<1>3. c \in ClientIds /\ offered[c] \in 0..MaxOffered
    BY <1>1, CountsType
<1>4. /\ offered' \in [ClientIds -> 0..MaxOffered]
      /\ \A d \in ClientIds : offered'[d] >= offered[d]
                              /\ (d # c => offered'[d] = offered[d])
      /\ offered'[c] = offered[c] + n
    BY <1>1, <1>3, SizesAssumption DEF TypeOK
<1>5. Below(mClients[c], offered[c] + 1)
    BY <1>1 DEF OrderInv
<1>6. k.client = c /\ k.next = offered[c] + 1 /\ k.last = offered[c] + n
    OBVIOUS
<1> HIDE DEF k
<1>7. /\ k.last <= offered'[k.client]
      /\ Live(k) => Below(mClients[k.client], k.next)
      /\ \A u \in Callers \ {t} : ~Feeds(u, k.client)
      /\ \A d \in ClientIds : offered'[d] >= offered[d]
                              /\ (d # k.client => offered'[d] = offered[d])
    BY <1>1, <1>3, <1>4, <1>5, <1>6
<1> QED BY <1>1, <1>2, <1>4, <1>7, OrderCopyLoop

LEMMA OrderResume ==
  ASSUME TypeOK, FreshInv, OrderInv, NEW t \in Callers, Resume(t)
  PROVE  OrderInv'
<1> DEFINE k == call[t]
<1>1. /\ k \in EnqueueCall /\ k.next <= k.last /\ k # NoCall
      /\ CopyLoop(t, k) /\ UNCHANGED offered
    BY NoCallAssumption DEF Resume, TypeOK, history
<1>2. /\ offered' \in [ClientIds -> 0..MaxOffered] /\ k.client \in ClientIds
      /\ \A d \in ClientIds : offered'[d] >= offered[d] /\ offered'[d] = offered[d]
    BY <1>1 DEF TypeOK, EnqueueCall
<1>3. k.last <= offered'[k.client]
    BY <1>1 DEF FreshInv, FreshCalls
<1>4. Feeds(t, k.client) /\ \A u \in Callers \ {t} : ~Feeds(u, k.client)
    BY <1>1, <1>2 DEF FreshInv, OneFeeder, Feeds
<1>5. Live(k) => Below(mClients[k.client], k.next)
    BY <1>4 DEF OrderInv, Live
<1> HIDE DEF k
<1> QED BY <1>1, <1>2, <1>3, <1>4, <1>5, OrderCopyLoop

LEMMA OrderMix ==
  ASSUME TypeOK, OrderInv, WriterMix
  PROVE  OrderInv'
<1>1. UNCHANGED <<call, offered>> /\ DOMAIN mClients' = DOMAIN mClients
    BY DEF WriterMix, callVars
<1>2. ASSUME NEW c \in DOMAIN mClients, NEW m, Below(mClients[c], m)
      PROVE  Ordered(mClients'[c]) /\ Below(mClients'[c], m)
    BY <1>2, MixQueue, AdvancedOrdered DEF OrderInv
<1>3. ASSUME NEW c \in DOMAIN mClients
      PROVE  mClients'[c].generation = mClients[c].generation
    BY MixQueue DEF Advanced, Queue
<1> SUFFICES ASSUME NEW c \in DOMAIN mClients
             PROVE  /\ Ordered(mClients'[c]) /\ Below(mClients'[c], offered[c] + 1)
                    /\ \A t \in Callers : Feeds(t, c) /\ Live(call[t])'
                                            => Below(mClients'[c], call[t].next)
    BY <1>1 DEF OrderInv, Ordered, Below, FrameAt, Cell, Feeds
<1>4. Ordered(mClients'[c]) /\ Below(mClients'[c], offered[c] + 1)
    BY <1>2 DEF OrderInv
<1>5. ASSUME NEW t \in Callers, Feeds(t, c), Live(call[t])'
      PROVE  Below(mClients'[c], call[t].next)
  <2>1. Live(call[t])
      BY <1>1, <1>3, <1>5 DEF Live
  <2> QED BY <1>2, <1>5, <2>1 DEF OrderInv
<1> QED BY <1>4, <1>5

LEMMA OrderStep == TypeOK /\ FreshInv /\ OrderInv /\ [Next]_vars => OrderInv'
<1> SUFFICES ASSUME TypeOK, FreshInv, OrderInv, [Next]_vars PROVE OrderInv'
    OBVIOUS
<1>1. ASSUME NEW t \in Callers, Caller(t) PROVE OrderInv'
  <2>1. CASE Attach(t)
    <3>1. /\ UNCHANGED <<call, offered>> /\ mClients'[mNextClient].count = 0
          /\ \A d \in DOMAIN mClients' : d # mNextClient => d \in DOMAIN mClients
                                             /\ mClients'[d] = mClients[d]
        BY <2>1 DEF Attach, callVars, history, NewQueue
    <3> QED BY <3>1, OrderEmptied
  <2>2. ASSUME NEW c \in 1..mNextClient - 1, Detach(t, c) PROVE OrderInv'
      BY <2>2, OrderEmptied DEF Detach
  <2>3. ASSUME NEW c \in 1..mNextClient - 1, Clear(t, c) PROVE OrderInv'
    <3>1. CASE c \in DOMAIN mClients
      <4>1. mClients[c] \in Queue /\ mClients' = [mClients EXCEPT ![c] = Cleared(@)]
          BY <2>3, <3>1 DEF Clear, TypeOK
      <4>2. mClients'[c].count = 0
          BY <3>1, <4>1 DEF Cleared, Queue
      <4>3. UNCHANGED <<call, offered>>
          BY <2>3 DEF Clear
      <4> QED BY <4>1, <4>2, <4>3, OrderEmptied
    <3>2. CASE c \notin DOMAIN mClients
        BY <2>3, <3>2, OrderFrame DEF Clear
    <3> QED BY <3>1, <3>2
  <2>4. ASSUME NEW c \in 1..mNextClient - 1, NEW n \in 1..MaxOffered, Enqueue(t, c, n)
        PROVE  OrderInv'
      BY <2>4, OrderEnqueue
  <2>5. CASE Notify(t)
      BY <2>5, OrderFrame DEF Notify, queueVars, history
  <2>6. CASE Resume(t)
      BY <2>6, OrderResume
  <2>7. CASE SpuriousWake(t)
      BY <2>7, OrderFrame DEF SpuriousWake, queueVars, history
  <2> QED BY <1>1, <2>1, <2>2, <2>3, <2>4, <2>5, <2>6, <2>7 DEF Caller
<1>2. CASE Writer
  <2>1. CASE WriterMix
      BY <2>1, OrderMix
  <2>2. CASE WriterTop \/ WriterNotify \/ WriterBackoff
      BY <2>2, OrderFrame DEF WriterTop, WriterNotify, WriterBackoff, queueVars, callVars,
                              history
  <2>3. CASE WriterWriteOk \/ WriterWriteFails
      BY <2>3, OrderFrame DEF WriterWriteOk, WriterWriteFails, queueVars, callVars
  <2> QED BY <1>2, <2>1, <2>2, <2>3 DEF Writer
<1>3. CASE StopRunning \/ StopNotify \/ StopJoin
    BY <1>3, OrderFrame DEF StopRunning, StopNotify, StopJoin, queueVars, callVars, history
<1>4. CASE SetAudible
    BY <1>4, OrderFrame DEF SetAudible, queueVars, callVars
<1>5. CASE UNCHANGED vars
    BY <1>5, OrderFrame DEF vars, queueVars, callVars, history
<1> QED BY <1>1, <1>2, <1>3, <1>4, <1>5 DEF Next

LEMMA CountsTypeNext ==
  ASSUME TypeOK'
  PROVE  /\ Counts' \in [ClientIds -> 0..QueueFrames]
         /\ OwedFrames' \in [Callers -> 0..MaxOffered]
<1>1. Counts' \in [ClientIds -> 0..QueueFrames]
    BY SizesAssumption DEF Counts, TypeOK, Queue
<1>2. ASSUME NEW t \in Callers, call'[t] # NoCall
      PROVE  Left(call'[t]) \in 0..MaxOffered
  <2>1. call'[t] \in EnqueueCall /\ call'[t].next <= call'[t].last
      BY <1>2 DEF TypeOK
  <2> QED BY <2>1, SizesAssumption DEF EnqueueCall, Left
<1>3. OwedFrames' \in [Callers -> 0..MaxOffered]
    BY <1>2, SizesAssumption DEF OwedFrames, Left
<1> QED BY <1>1, <1>3

LEMMA CountsAt ==
  ASSUME TypeOK, NEW c \in ClientIds
  PROVE  /\ Counts[c] = IF c \in DOMAIN mClients THEN mClients[c].count ELSE 0
         /\ Counts'[c] = IF c \in DOMAIN mClients' THEN mClients'[c].count ELSE 0
  BY DEF Counts

LEMMA OwedAt ==
  ASSUME NEW t \in Callers
  PROVE  /\ OwedFrames[t] = IF call[t] = NoCall THEN 0 ELSE Left(call[t])
         /\ OwedFrames'[t] = IF call'[t] = NoCall THEN 0 ELSE Left(call'[t])
  BY DEF OwedFrames, Left

\* A step that changes the queue of client c and what caller t owes.
LEMMA SumsChange ==
  ASSUME TypeOK, TypeOK', NEW c \in ClientIds, NEW t \in Callers,
         \A d \in ClientIds \ {c} : Counts'[d] = Counts[d],
         \A u \in Callers \ {t} : call'[u] = call[u]
  PROVE  /\ Total(Counts') + Counts[c] = Total(Counts) + Counts'[c]
         /\ Total(OwedFrames') + OwedFrames[t] = Total(OwedFrames) + OwedFrames'[t]
         /\ Total(Counts') \in Nat /\ Total(OwedFrames') \in Nat
<1>1. /\ Counts \in [ClientIds -> 0..QueueFrames] /\ Counts' \in [ClientIds -> 0..QueueFrames]
      /\ OwedFrames \in [Callers -> 0..MaxOffered]
      /\ OwedFrames' \in [Callers -> 0..MaxOffered]
      /\ IsFiniteSet(ClientIds) /\ IsFiniteSet(Callers)
      /\ QueueFrames \in Nat /\ MaxOffered \in Nat
    BY CountsType, CountsTypeNext
<1>2. \A u \in Callers \ {t} : OwedFrames'[u] = OwedFrames[u]
    BY OwedAt
<1> DEFINE f == Counts
           g == Counts'
           h == OwedFrames
           k == OwedFrames'
<1> HIDE DEF f, g, h, k
<1>3. Total(g) + f[c] = Total(f) + g[c]
    BY <1>1, TotalChange DEF f, g
<1>4. Total(k) + h[t] = Total(h) + k[t]
    BY <1>1, <1>2, TotalChange DEF h, k
<1>5. Total(g) \in Nat
    BY <1>1, BarsFinite DEF g
<1>6. Total(k) \in Nat
    BY <1>1, BarsFinite DEF k
<1> QED BY <1>3, <1>4, <1>5, <1>6 DEF f, g, h, k

\* Where the frames of call k of caller t go.
LEMMA CopyLoopConserves ==
  ASSUME TypeOK, TypeOK', NEW t \in Callers, NEW k \in EnqueueCall, k.next <= k.last,
         CopyLoop(t, k)
  PROVE  canceledFrames' + Total(Counts') + Total(OwedFrames') + OwedFrames[t]
           = canceledFrames + Total(Counts) + Total(OwedFrames) + Left(k)
<1> DEFINE c == k.client
<1>1. /\ c \in ClientIds /\ Left(k) \in Nat /\ Left(k) = k.last - k.next + 1
      /\ DOMAIN call = Callers /\ canceledFrames \in Nat
      /\ k.next \in Nat /\ k.last \in Nat
    BY DEF EnqueueCall, Left, TypeOK
<1>2. OwedFrames[t] \in Nat /\ Counts[c] \in Nat
    BY <1>1, CountsType
<1>3. Total(Counts) \in Nat /\ Total(OwedFrames) \in Nat
    BY TotalsType
<1>4. CASE Canceled(k)
  <2>1. /\ UNCHANGED mClients /\ call' = [call EXCEPT ![t] = NoCall]
        /\ canceledFrames' = canceledFrames + Left(k)
      BY <1>4 DEF CopyLoop, GiveUp
  <2>2. call'[t] = NoCall /\ \A u \in Callers \ {t} : call'[u] = call[u]
      BY <1>1, <2>1
  <2>3. Counts' = Counts
      BY <2>1 DEF Counts
  <2>4. OwedFrames'[t] = 0
      BY <2>2, OwedAt
  <2>5. /\ Total(Counts') + Counts[c] = Total(Counts) + Counts'[c]
        /\ Total(OwedFrames') + OwedFrames[t] = Total(OwedFrames) + OwedFrames'[t]
        /\ Total(Counts') \in Nat /\ Total(OwedFrames') \in Nat
      BY <1>1, <2>2, <2>3, SumsChange
  <2> QED BY <1>1, <1>2, <1>3, <2>1, <2>3, <2>4, <2>5
<1>5. CASE ~Canceled(k)
  <2> DEFINE q == mClients[c]
  <2>1. PICK n \in 0..QueueFrames - q.count :
           /\ mClients' = [mClients EXCEPT ![c] = Filled(@, k.next, n)]
           /\ n \in 0..Left(k)
           /\ call' = [call EXCEPT ![t] = IF n = Left(k) THEN NoCall
                                         ELSE [k EXCEPT !.next = @ + n]]
           /\ canceledFrames' = canceledFrames
      BY <1>5, CopyLoopCopies, TypeParts
  <2>2. c \in DOMAIN mClients /\ q \in Queue /\ q.count \in Nat /\ n \in Nat
    <3>1. c \in DOMAIN mClients /\ q \in Queue
        BY <1>5 DEF Canceled, TypeOK
    <3>2. q.count \in Nat
        BY <3>1, SizesAssumption DEF Queue
    <3>3. n \in Nat
        BY <1>1, <2>1
    <3> QED BY <3>1, <3>2, <3>3
  <2>3. /\ mClients'[c].count = q.count + n /\ DOMAIN mClients' = DOMAIN mClients
        /\ \A d \in DOMAIN mClients : d # c => mClients'[d] = mClients[d]
      BY <2>1, <2>2 DEF Filled, Queue
  <2>4. /\ \A u \in Callers \ {t} : call'[u] = call[u]
        /\ n = Left(k) => call'[t] = NoCall
        /\ n # Left(k) => call'[t] = [k EXCEPT !.next = @ + n]
      BY <1>1, <2>1
  <2>5. OwedFrames'[t] = Left(k) - n
    <3>1. CASE n = Left(k)
        BY <1>1, <2>4, <3>1, OwedAt
    <3>2. CASE n # Left(k)
      <4>1. call'[t].next = k.next + n /\ call'[t].last = k.last
          BY <2>4, <3>2 DEF EnqueueCall
      <4>2. call'[t] # NoCall
        <5>1. k.next + n \in 1..MaxOffered
            BY <1>1, <2>1, <2>2, <3>2, SizesAssumption DEF EnqueueCall
        <5>2. call'[t] \in EnqueueCall
            BY <2>4, <3>2, <5>1 DEF EnqueueCall
        <5> QED BY <5>2, NoCallAssumption
      <4> QED BY <1>1, <2>2, <4>1, <4>2, OwedAt DEF Left
    <3> QED BY <3>1, <3>2
  <2>6. /\ Counts'[c] = Counts[c] + n
        /\ \A d \in ClientIds \ {c} : Counts'[d] = Counts[d]
      BY <1>1, <2>2, <2>3, CountsAt
  <2>7. /\ Total(Counts') + Counts[c] = Total(Counts) + Counts'[c]
        /\ Total(OwedFrames') + OwedFrames[t] = Total(OwedFrames) + OwedFrames'[t]
        /\ Total(Counts') \in Nat /\ Total(OwedFrames') \in Nat
      BY <1>1, <2>4, <2>6, SumsChange
  <2> QED BY <1>1, <1>2, <1>3, <2>1, <2>2, <2>5, <2>6, <2>7
<1> QED BY <1>4, <1>5

\* A step that leaves the queues, the calls and the sums alone.
LEMMA ConservesFrame ==
  ASSUME Conservation, UNCHANGED <<mClients, canceledFrames, call, offered, consumed>>
  PROVE  Conservation'
<1>1. Counts' = Counts /\ OwedFrames' = OwedFrames
    BY DEF Counts, OwedFrames, Left
<1> QED BY <1>1 DEF Conservation, Total

\* A client that is added, emptied or removed gives its frames to the canceled ones.
LEMMA ConservesEmptied ==
  ASSUME TypeOK, TypeOK', Conservation, NEW c \in ClientIds, NEW t \in Callers,
         UNCHANGED <<call, offered, consumed>>,
         \A d \in ClientIds \ {c} : Counts'[d] = Counts[d],
         Counts'[c] = 0, canceledFrames' = canceledFrames + Counts[c]
  PROVE  Conservation'
<1>1. /\ Total(Counts') + Counts[c] = Total(Counts) + Counts'[c]
      /\ Total(Counts') \in Nat
    BY SumsChange
<1>2. OwedFrames' = OwedFrames
    BY DEF OwedFrames, Left
<1>3. Counts[c] \in Nat
    BY CountsType
<1>4. /\ Total(offered) = consumed + canceledFrames + Total(Counts) + Total(OwedFrames)
      /\ Total(offered') = Total(offered)
    BY DEF Conservation
<1>5. Total(offered') = consumed' + canceledFrames' + Total(Counts') + Total(OwedFrames')
  <2> DEFINE a == Total(Counts)
             b == Total(Counts')
             d == Total(OwedFrames)
             e == Total(offered)
             z == Counts[c]
  <2>1. a \in Nat /\ b \in Nat /\ d \in Nat /\ e \in Nat /\ consumed \in Nat
        /\ canceledFrames \in Nat /\ Counts[c] \in Nat
      BY <1>1, <1>3, TotalsType
  <2>2. b + Counts[c] = a + 0
      BY <1>1, Zenon
  <2>3. e = consumed + canceledFrames + a + d
      BY <1>4, Zenon
  <2> HIDE DEF a, b, d, e, z
  <2>5. z \in Nat /\ b + z = a
      BY <2>1, <2>2 DEF z
  <2>6. e = consumed + (canceledFrames + z) + b + d
      BY <2>1, <2>3, <2>5
  <2>4. Total(offered') = e /\ Total(OwedFrames') = d /\ Total(Counts') = b
      BY <1>2, <1>4 DEF a, b, d, e
  <2> QED BY <2>4, <2>6 DEF z
<1> QED BY <1>5 DEF Conservation, Total

LEMMA ConservesAttach ==
  ASSUME TypeOK, TypeOK', Conservation, NEW t \in Callers, Attach(t)
  PROVE  Conservation'
<1>1. /\ UNCHANGED <<call, offered, consumed, canceledFrames>>
      /\ mNextClient \in ClientIds /\ mNextClient \notin DOMAIN mClients
      /\ DOMAIN mClients' = DOMAIN mClients \cup {mNextClient}
      /\ mClients'[mNextClient] = NewQueue
      /\ \A c \in DOMAIN mClients : c # mNextClient /\ mClients'[c] = mClients[c]
    BY SizesAssumption DEF Attach, callVars, history, TypeOK, ClientIds
<1>2. Counts[mNextClient] = 0 /\ Counts'[mNextClient] = 0
    BY <1>1, CountsAt DEF NewQueue
<1>3. \A d \in ClientIds \ {mNextClient} : Counts'[d] = Counts[d]
    BY <1>1, CountsAt
<1>4. canceledFrames' = canceledFrames + Counts[mNextClient]
    BY <1>1, <1>2 DEF TypeOK
<1> QED BY <1>1, <1>2, <1>3, <1>4, ConservesEmptied

LEMMA ConservesDetach ==
  ASSUME TypeOK, TypeOK', Conservation, NEW t \in Callers, NEW c \in 1..mNextClient - 1,
         Detach(t, c)
  PROVE  Conservation'
<1>1. UNCHANGED <<call, offered, consumed>>
    BY DEF Detach
<1>2. CASE c \in DOMAIN mClients
  <2>1. /\ canceledFrames' = canceledFrames + mClients[c].count
        /\ mClients' = [d \in DOMAIN mClients \ {c} |-> mClients[d]] /\ c \in ClientIds
      BY <1>2, CountsType DEF Detach
  <2>2. Counts'[c] = 0 /\ Counts[c] = mClients[c].count
        /\ \A d \in ClientIds \ {c} : Counts'[d] = Counts[d]
      BY <1>2, <2>1, CountsAt
  <2> QED BY <1>1, <2>1, <2>2, ConservesEmptied
<1>3. CASE c \notin DOMAIN mClients
    BY <1>1, <1>3, ConservesFrame DEF Detach
<1> QED BY <1>2, <1>3

LEMMA ConservesClear ==
  ASSUME TypeOK, TypeOK', Conservation, NEW t \in Callers, NEW c \in 1..mNextClient - 1,
         Clear(t, c)
  PROVE  Conservation'
<1>1. UNCHANGED <<call, offered, consumed>>
    BY DEF Clear
<1>2. CASE c \in DOMAIN mClients
  <2>1. /\ canceledFrames' = canceledFrames + mClients[c].count
        /\ mClients' = [mClients EXCEPT ![c] = Cleared(@)] /\ c \in ClientIds
        /\ mClients[c] \in Queue
      BY <1>2, CountsType DEF Clear, TypeOK
  <2>2. mClients'[c].count = 0
      BY <1>2, <2>1 DEF Cleared, Queue
  <2>3. Counts'[c] = 0 /\ Counts[c] = mClients[c].count
        /\ \A d \in ClientIds \ {c} : Counts'[d] = Counts[d]
      BY <1>2, <2>1, <2>2, CountsAt
  <2> QED BY <1>1, <2>1, <2>3, ConservesEmptied
<1>3. CASE c \notin DOMAIN mClients
    BY <1>1, <1>3, ConservesFrame DEF Clear
<1> QED BY <1>2, <1>3

LEMMA ConservesEnqueue ==
  ASSUME TypeOK, TypeOK', Conservation, NEW t \in Callers, NEW c \in 1..mNextClient - 1,
         NEW n \in 1..MaxOffered, Enqueue(t, c, n)
  PROVE  Conservation'
<1> DEFINE k == [client |-> c, generation |-> mClients[c].generation,
                 next |-> offered[c] + 1, last |-> offered[c] + n]
<1>1. /\ c \in DOMAIN mClients /\ offered[c] + n <= MaxOffered /\ CopyLoop(t, k)
      /\ offered' = [offered EXCEPT ![c] = @ + n] /\ UNCHANGED consumed /\ pc[t] = "idle"
    BY DEF Enqueue, Idle
<1>2. k \in EnqueueCall /\ k.next <= k.last
    BY <1>1, EnqueueOfCall
<1>3. c \in ClientIds /\ offered[c] \in 0..MaxOffered /\ offered \in [ClientIds -> 0..MaxOffered]
    BY <1>1, CountsType
<1>4. OwedFrames[t] = 0
  <2>1. call[t] = NoCall
      BY <1>1 DEF TypeOK
  <2> QED BY <2>1, OwedAt
<1>5. Left(k) = n
    BY <1>3 DEF Left
<1> HIDE DEF k
<1>6. canceledFrames' + Total(Counts') + Total(OwedFrames') + 0
        = canceledFrames + Total(Counts) + Total(OwedFrames) + n
    BY <1>1, <1>2, <1>4, <1>5, CopyLoopConserves
<1>7. /\ offered' \in [ClientIds -> 0..MaxOffered] /\ offered'[c] = offered[c] + n
      /\ \A d \in ClientIds \ {c} : offered'[d] = offered[d]
    BY <1>1, <1>3, SizesAssumption
<1>8. Total(offered') + offered[c] = Total(offered) + (offered[c] + n)
  <2> DEFINE g == offered'
  <2> HIDE DEF g
  <2>0. /\ g \in [ClientIds -> 0..MaxOffered]
        /\ \A d \in ClientIds \ {c} : g[d] = offered[d]
        /\ IsFiniteSet(ClientIds) /\ MaxOffered \in Nat
      BY <1>7, CountsType DEF g
  <2>1. Total(g) + offered[c] = Total(offered) + g[c]
      BY ZenonT(60), <1>3, <2>0, TotalChange
  <2> QED BY <1>7, <2>1 DEF g
<1>9. Total(offered') \in Nat /\ Total(Counts') \in Nat /\ Total(OwedFrames') \in Nat
      /\ canceledFrames' \in Nat
  <2>1. Total(offered') \in Nat
      BY <1>7, CountsType, BarsFinite
  <2>2. Total(Counts') \in Nat
      BY CountsType, CountsTypeNext, BarsFinite
  <2>3. Total(OwedFrames') \in Nat
      BY CountsType, CountsTypeNext, BarsFinite
  <2> QED BY <2>1, <2>2, <2>3 DEF TypeOK
<1>10. Total(offered') = Total(offered) + n
    BY <1>3, <1>8, <1>9, TotalsType
<1>11. Total(offered) = consumed + canceledFrames + Total(Counts) + Total(OwedFrames)
    BY DEF Conservation
<1>12. Total(offered') = consumed + canceledFrames' + Total(Counts') + Total(OwedFrames')
    BY <1>6, <1>9, <1>10, <1>11, TotalsType
<1> QED BY <1>1, <1>12 DEF Conservation, Total

LEMMA ConservesResume ==
  ASSUME TypeOK, TypeOK', Conservation, NEW t \in Callers, Resume(t)
  PROVE  Conservation'
<1> DEFINE k == call[t]
<1>1. /\ k \in EnqueueCall /\ k.next <= k.last /\ k # NoCall
      /\ CopyLoop(t, k) /\ UNCHANGED <<offered, consumed>>
    BY NoCallAssumption DEF Resume, TypeOK, history
<1>2. OwedFrames[t] = Left(k) /\ OwedFrames[t] \in Nat
    BY <1>1, OwedAt, CountsType
<1>3. canceledFrames' + Total(Counts') + Total(OwedFrames') + OwedFrames[t]
        = canceledFrames + Total(Counts) + Total(OwedFrames) + OwedFrames[t]
    BY <1>1, <1>2, CopyLoopConserves
<1>4. Total(Counts') \in Nat /\ Total(OwedFrames') \in Nat /\ canceledFrames' \in Nat
  <2>1. Total(Counts') \in Nat
      BY CountsType, CountsTypeNext, BarsFinite
  <2>2. Total(OwedFrames') \in Nat
      BY CountsType, CountsTypeNext, BarsFinite
  <2> QED BY <2>1, <2>2 DEF TypeOK
<1>5. Total(offered) = consumed + canceledFrames + Total(Counts) + Total(OwedFrames)
    BY DEF Conservation
<1>6. Total(offered) = consumed + canceledFrames' + Total(Counts') + Total(OwedFrames')
    BY <1>2, <1>3, <1>4, <1>5, TotalsType
<1> QED BY <1>1, <1>6 DEF Conservation, Total

LEMMA MixedFrame ==
  ASSUME TypeOK, WriterMix, NEW p
  PROVE  p \in mix' <=> \E c \in DOMAIN mClients : \E i \in 0..Taken(mClients[c]) - 1 :
                          p = <<c, FrameAt(mClients[c], i)>>
<1>1. mix' = UNION {{<<c, Oldest(mClients[c], Taken(mClients[c]))[i]>> :
                      i \in 1..Taken(mClients[c])} : c \in DOMAIN mClients}
    BY DEF WriterMix
<1>2. ASSUME NEW c \in DOMAIN mClients, NEW i \in 1..Taken(mClients[c])
      PROVE  Oldest(mClients[c], Taken(mClients[c]))[i] = FrameAt(mClients[c], i - 1)
    BY DEF Oldest, FrameAt
<1>3. ASSUME NEW c \in DOMAIN mClients
      PROVE  Taken(mClients[c]) \in Nat
    BY MixQueue, SizesAssumption DEF Queue
<1>4. ASSUME p \in mix'
      PROVE  \E c \in DOMAIN mClients : \E i \in 0..Taken(mClients[c]) - 1 :
               p = <<c, FrameAt(mClients[c], i)>>
  <2>1. PICK c \in DOMAIN mClients :
          p \in {<<c, Oldest(mClients[c], Taken(mClients[c]))[i]>> :
                  i \in 1..Taken(mClients[c])}
      BY <1>1, <1>4
  <2>2. PICK i \in 1..Taken(mClients[c]) :
          p = <<c, Oldest(mClients[c], Taken(mClients[c]))[i]>>
      BY <2>1
  <2>3. i - 1 \in 0..Taken(mClients[c]) - 1
      BY <1>3
  <2> QED BY <1>2, <2>2, <2>3
<1>5. ASSUME NEW c \in DOMAIN mClients, NEW i \in 0..Taken(mClients[c]) - 1,
             p = <<c, FrameAt(mClients[c], i)>>
      PROVE  p \in mix'
  <2>1. i + 1 \in 1..Taken(mClients[c]) /\ (i + 1) - 1 = i
      BY <1>3
  <2>2. p = <<c, Oldest(mClients[c], Taken(mClients[c]))[i + 1]>>
      BY <1>2, <1>5, <2>1
  <2> QED BY <1>1, <2>1, <2>2
<1> QED BY <1>4, <1>5

\* What a period takes out of the queues is as much as it mixes: no two of the
\* frames are the same.
LEMMA MixTakesWhatItMixes ==
  ASSUME TypeOK, TypeOK', OrderInv, WriterMix
  PROVE  /\ Total(Counts) = Total(Counts') + Cardinality(mix')
         /\ Total(Counts') \in Nat /\ Cardinality(mix') \in Nat
<1> DEFINE F == Counts
           G == Counts'
           D == Bars(F) \ Bars(G)
           first(c) == G[c] + 1
           phi == [p \in D |-> <<p[1], FrameAt(mClients[p[1]], p[2] - first(p[1]))>>]
<1>1. /\ F \in [ClientIds -> 0..QueueFrames] /\ G \in [ClientIds -> 0..QueueFrames]
      /\ IsFiniteSet(ClientIds) /\ QueueFrames \in Nat /\ DOMAIN mClients \subseteq ClientIds
    BY CountsType, CountsTypeNext
<1>2. ASSUME NEW c \in DOMAIN mClients
      PROVE  /\ mClients[c] \in Queue
             /\ F[c] = mClients[c].count /\ F[c] \in Nat
             /\ Taken(mClients[c]) \in 0..F[c]
             /\ G[c] = F[c] - Taken(mClients[c])
  <2>1. DOMAIN mClients' = DOMAIN mClients
      BY DEF WriterMix
  <2>2. mClients'[c].count = mClients[c].count - Taken(mClients[c])
      BY MixQueue DEF Advanced, Queue
  <2>3. F[c] = mClients[c].count /\ G[c] = mClients'[c].count
      BY <1>1, <2>1, CountsAt
  <2>4. mClients[c] \in Queue /\ Taken(mClients[c]) \in 0..mClients[c].count
      BY MixQueue
  <2>5. mClients[c].count \in Nat
      BY <2>4, SizesAssumption DEF Queue
  <2> QED BY <2>2, <2>3, <2>4, <2>5
<1>3. \A c \in ClientIds \ DOMAIN mClients : F[c] = 0 /\ G[c] = 0
  <2>1. DOMAIN mClients' = DOMAIN mClients
      BY DEF WriterMix
  <2> QED BY <2>1, CountsAt
<1>4. F \in [ClientIds -> Nat] /\ G \in [ClientIds -> Nat]
    BY <1>1
<1> HIDE DEF F, G
<1>5. ASSUME NEW p
      PROVE  p \in D <=> \E c \in DOMAIN mClients : \E i \in G[c] + 1..F[c] : p = <<c, i>>
  <2>1. ASSUME p \in D
        PROVE  \E c \in DOMAIN mClients : \E i \in G[c] + 1..F[c] : p = <<c, i>>
    <3>1. PICK c \in ClientIds : \E i \in 1..F[c] : p = <<c, i>>
        BY <1>4, <2>1, InBars
    <3>2. PICK i \in 1..F[c] : p = <<c, i>>
        BY <3>1
    <3>3. i \notin 1..G[c]
        BY <1>4, <2>1, <3>2, InBars
    <3>4. c \in DOMAIN mClients
        BY <1>3, <3>2
    <3>5. i \in G[c] + 1..F[c]
        BY <1>4, <3>2, <3>3
    <3> QED BY <3>2, <3>4, <3>5
  <2>2. ASSUME NEW c \in DOMAIN mClients, NEW i \in G[c] + 1..F[c], p = <<c, i>>
        PROVE  p \in D
    <3>1. c \in ClientIds /\ G[c] \in Nat /\ F[c] \in Nat
        BY <1>1, <1>4
    <3>2. i \in 1..F[c] /\ i \notin 1..G[c]
        BY <3>1
    <3>3. p \in Bars(F)
        BY <1>4, <2>2, <3>1, <3>2, InBars
    <3>4. p \notin Bars(G)
      <4> SUFFICES ASSUME p \in Bars(G) PROVE FALSE
          OBVIOUS
      <4>1. PICK d \in ClientIds : \E j \in 1..G[d] : p = <<d, j>>
          BY <1>4, InBars
      <4>2. PICK j \in 1..G[d] : p = <<d, j>>
          BY <4>1
      <4> QED BY <2>2, <3>2, <4>2
    <3> QED BY <3>3, <3>4
  <2> QED BY <2>1, <2>2
<1> HIDE DEF D
<1>6. ASSUME NEW p \in D
      PROVE  \E c \in DOMAIN mClients : \E i \in G[c] + 1..F[c] :
               /\ p = <<c, i>> /\ i - first(c) \in 0..Taken(mClients[c]) - 1
               /\ phi[p] = <<c, FrameAt(mClients[c], i - first(c))>>
  <2>1. PICK c \in DOMAIN mClients : \E i \in G[c] + 1..F[c] : p = <<c, i>>
      BY <1>5
  <2>2. PICK i \in G[c] + 1..F[c] : p = <<c, i>>
      BY <2>1
  <2>3. i - first(c) \in 0..Taken(mClients[c]) - 1
      BY <1>2, <2>2
  <2>4. phi[p] = <<c, FrameAt(mClients[c], i - first(c))>>
      BY <2>2
  <2> QED BY <2>2, <2>3, <2>4
<1>7. ASSUME NEW r \in mix'
      PROVE  \E p \in D : phi[p] = r
  <2>1. PICK c \in DOMAIN mClients : \E i \in 0..Taken(mClients[c]) - 1 :
                          r = <<c, FrameAt(mClients[c], i)>>
      BY MixedFrame
  <2>2. PICK i \in 0..Taken(mClients[c]) - 1 : r = <<c, FrameAt(mClients[c], i)>>
      BY <2>1
  <2> DEFINE j == first(c) + i
  <2>3. j \in G[c] + 1..F[c] /\ j - first(c) = i
      BY <1>2, <2>2
  <2> HIDE DEF j
  <2>4. <<c, j>> \in D
      BY <1>5, <2>3
  <2>5. phi[<<c, j>>] = <<c, FrameAt(mClients[c], j - first(c))>>
      BY <2>4
  <2> QED BY <2>2, <2>3, <2>4, <2>5
<1>8. ASSUME NEW p \in D PROVE phi[p] \in mix'
    BY <1>6, MixedFrame
<1>9. ASSUME NEW p \in D, NEW r \in D, phi[p] = phi[r]
      PROVE  p = r
  <2>1. PICK c \in DOMAIN mClients : \E i \in G[c] + 1..F[c] :
               /\ p = <<c, i>> /\ i - first(c) \in 0..Taken(mClients[c]) - 1
               /\ phi[p] = <<c, FrameAt(mClients[c], i - first(c))>>
      BY <1>6
  <2>2. PICK i \in G[c] + 1..F[c] :
               /\ p = <<c, i>> /\ i - first(c) \in 0..Taken(mClients[c]) - 1
               /\ phi[p] = <<c, FrameAt(mClients[c], i - first(c))>>
      BY <2>1
  <2>3. PICK d \in DOMAIN mClients : \E j \in G[d] + 1..F[d] :
               /\ r = <<d, j>> /\ j - first(d) \in 0..Taken(mClients[d]) - 1
               /\ phi[r] = <<d, FrameAt(mClients[d], j - first(d))>>
      BY <1>6
  <2>4. PICK j \in G[d] + 1..F[d] :
               /\ r = <<d, j>> /\ j - first(d) \in 0..Taken(mClients[d]) - 1
               /\ phi[r] = <<d, FrameAt(mClients[d], j - first(d))>>
      BY <2>3
  <2> HIDE DEF phi
  <2>5. <<c, FrameAt(mClients[c], i - first(c))>> = <<d, FrameAt(mClients[d], j - first(d))>>
      BY <1>9, <2>2, <2>4
  <2>6. c = d /\ FrameAt(mClients[c], i - first(c)) = FrameAt(mClients[c], j - first(c))
      BY <2>5
  <2> DEFINE a == i - first(c)
             b == j - first(c)
             q == mClients[c]
  <2>7. /\ q \in Queue /\ Ordered(q) /\ q.count \in Nat
        /\ a \in 0..q.count - 1 /\ b \in 0..q.count - 1
    <3>1. q \in Queue /\ Ordered(q) /\ q.count \in Nat /\ Taken(q) \in 0..q.count
        BY <1>2 DEF OrderInv
    <3>2. a \in 0..Taken(q) - 1 /\ b \in 0..Taken(q) - 1
        BY <2>2, <2>4, <2>6
    <3> HIDE DEF a, b, q, first
    <3> QED BY <3>1, <3>2
  <2>8. i = first(c) + a /\ j = first(c) + b
      BY <1>2, <2>2, <2>4, <2>6
  <2>9. FrameAt(q, a) = FrameAt(q, b)
      BY <2>6
  <2> HIDE DEF a, b, q, first
  <2>10. FrameAt(q, a) \in Nat /\ FrameAt(q, b) \in Nat
      BY <2>7, FrameType
  <2>11. a = b
      BY <2>7, <2>9, <2>10 DEF Ordered
  <2> QED BY <2>2, <2>4, <2>6, <2>8, <2>11
<1>10. phi \in Bijection(D, mix')
  <2>1. phi \in [D -> mix']
      BY <1>8
  <2> HIDE DEF phi
  <2> QED BY <1>7, <1>9, <2>1 DEF Bijection, Injection, IsInjective, Surjection
<1> HIDE DEF phi
<1>11. IsFiniteSet(Bars(F)) /\ Total(F) = Cardinality(Bars(F)) /\ Total(F) \in Nat
    BY <1>1, BarsFinite
<1>12. IsFiniteSet(Bars(G)) /\ Total(G) = Cardinality(Bars(G)) /\ Total(G) \in Nat
    BY <1>1, BarsFinite
<1>13. IsFiniteSet(D) /\ Cardinality(D) = Cardinality(Bars(F)) - Cardinality(Bars(F) \cap Bars(G))
    BY <1>11, FS_Difference DEF D
<1>14. Cardinality(mix') = Cardinality(D) /\ Cardinality(D) \in Nat
    BY <1>10, <1>13, FS_Bijection, FS_CardinalityType DEF ExistsBijection
<1>15. Bars(F) \cap Bars(G) = Bars(G)
  <2> SUFFICES ASSUME NEW p \in Bars(G) PROVE p \in Bars(F)
      OBVIOUS
  <2>1. PICK c \in ClientIds : \E i \in 1..G[c] : p = <<c, i>>
      BY <1>4, InBars
  <2>2. PICK i \in 1..G[c] : p = <<c, i>>
      BY <2>1
  <2>3. G[c] <= F[c] /\ G[c] \in Nat /\ F[c] \in Nat
      BY <1>2, <1>3, <1>4
  <2>4. i \in 1..F[c]
      BY <2>2, <2>3
  <2> QED BY <1>4, <2>2, <2>4, InBars
<1>16. Total(F) = Total(G) + Cardinality(mix')
  <2>1. Cardinality(mix') = Cardinality(Bars(F)) - Cardinality(Bars(G))
      BY <1>13, <1>14, <1>15
  <2>2. Cardinality(Bars(F)) \in Nat /\ Cardinality(Bars(G)) \in Nat
      BY <1>11, <1>12, FS_CardinalityType
  <2> QED BY <1>11, <1>12, <2>1, <2>2
<1> QED BY <1>12, <1>14, <1>16 DEF F, G

LEMMA ConservesMix ==
  ASSUME TypeOK, TypeOK', OrderInv, Conservation, WriterMix
  PROVE  Conservation'
<1>1. UNCHANGED <<call, offered, canceledFrames>>
      /\ consumed' = consumed + Cardinality(mix')
    BY DEF WriterMix, callVars
<1>2. OwedFrames' = OwedFrames
    BY <1>1 DEF OwedFrames, Left
<1>3. Total(offered) = consumed + canceledFrames + Total(Counts) + Total(OwedFrames)
    BY DEF Conservation
<1>4. Total(offered) = consumed' + canceledFrames + Total(Counts') + Total(OwedFrames)
    BY <1>1, <1>3, MixTakesWhatItMixes, TotalsType
<1> QED BY <1>1, <1>2, <1>4 DEF Conservation, Total

LEMMA ConservesStep ==
  TypeOK /\ TypeOK' /\ OrderInv /\ Conservation /\ [Next]_vars => Conservation'
<1> SUFFICES ASSUME TypeOK, TypeOK', OrderInv, Conservation, [Next]_vars PROVE Conservation'
    OBVIOUS
<1>1. ASSUME NEW t \in Callers, Caller(t) PROVE Conservation'
  <2>1. CASE Attach(t)
      BY <2>1, ConservesAttach
  <2>2. ASSUME NEW c \in 1..mNextClient - 1, Detach(t, c) PROVE Conservation'
      BY <2>2, ConservesDetach
  <2>3. ASSUME NEW c \in 1..mNextClient - 1, Clear(t, c) PROVE Conservation'
      BY <2>3, ConservesClear
  <2>4. ASSUME NEW c \in 1..mNextClient - 1, NEW n \in 1..MaxOffered, Enqueue(t, c, n)
        PROVE  Conservation'
      BY <2>4, ConservesEnqueue
  <2>5. CASE Notify(t)
      BY <2>5, ConservesFrame DEF Notify, queueVars, history
  <2>6. CASE Resume(t)
      BY <2>6, ConservesResume
  <2>7. CASE SpuriousWake(t)
      BY <2>7, ConservesFrame DEF SpuriousWake, queueVars, history
  <2> QED BY <1>1, <2>1, <2>2, <2>3, <2>4, <2>5, <2>6, <2>7 DEF Caller
<1>2. CASE Writer
  <2>1. CASE WriterMix
      BY <2>1, ConservesMix
  <2>2. CASE WriterTop \/ WriterNotify \/ WriterBackoff
      BY <2>2, ConservesFrame DEF WriterTop, WriterNotify, WriterBackoff, queueVars,
                                  callVars, history
  <2>3. CASE WriterWriteOk \/ WriterWriteFails
      BY <2>3, ConservesFrame DEF WriterWriteOk, WriterWriteFails, queueVars, callVars
  <2> QED BY <1>2, <2>1, <2>2, <2>3 DEF Writer
<1>3. CASE StopRunning \/ StopNotify \/ StopJoin
    BY <1>3, ConservesFrame DEF StopRunning, StopNotify, StopJoin, queueVars, callVars,
                                history
<1>4. CASE SetAudible
    BY <1>4, ConservesFrame DEF SetAudible, queueVars, callVars
<1>5. CASE UNCHANGED vars
    BY <1>5, ConservesFrame DEF vars, queueVars, callVars, history
<1> QED BY <1>1, <1>2, <1>3, <1>4, <1>5 DEF Next

LEMMA ConservesInit == Init => Conservation
<1> SUFFICES ASSUME Init PROVE Conservation
    OBVIOUS
<1>1. offered = [c \in ClientIds |-> 0] /\ consumed = 0 /\ canceledFrames = 0
    BY DEF Init
<1>2. Counts = [c \in ClientIds |-> 0] /\ OwedFrames = [t \in Callers |-> 0]
    BY DEF Init, Counts, OwedFrames
<1>3. ASSUME NEW S PROVE Total([x \in S |-> 0]) = 0
  <2>1. UNION {{x} \X (1..[y \in S |-> 0][x]) : x \in S} = {}
      OBVIOUS
  <2> QED BY <2>1, FS_EmptySet DEF Total
<1> QED BY <1>1, <1>2, <1>3 DEF Conservation

\* Each offered frame is consumed, canceled, queued or owed, and only one of these:
\* for every ring, period, number of clients and of callers, and for every
\* interleaving of producers, flushes, detaches, the writer and the teardown.
THEOREM NoFrameDisappears == Spec => []Conservation
<1>1. Spec => []FreshInv
    BY FreshInit, FreshStep, TypeCorrect, PTL DEF Spec
<1>2. Spec => []OrderInv
    BY <1>1, OrderInit, OrderStep, TypeCorrect, PTL DEF Spec
<1> QED BY <1>2, ConservesInit, ConservesStep, TypeCorrect, PTL DEF Spec
===============================================================================
