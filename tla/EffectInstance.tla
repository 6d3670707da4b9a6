---------------------------- MODULE EffectInstance -----------------------------
(* One audio effect: the service's only binder thread opens, commands and closes *)
(* it, its worker processes what the client puts into the input queue, and the   *)
(* client reads the results. The mutex of the instance is held in every call and *)
(* by the worker from the look at the state to the delivery of the status.       *)
EXTENDS Naturals, FiniteSetsExt, Functions

\* The formats a client asks for: the channel counts of the input and the output;
\* 0 is a mask that has none. The frame count is 1.
CONSTANTS Formats, Kinds
Sides == {"in", "out"}
ASSUME FormatsAssumption ==
  Formats \subseteq [Sides -> Nat] /\ Kinds \subseteq {"plain", "keeping", "downmix"}

VARIABLES
  fxKind,     \* the library: "downmix" has a process() of its own, "keeping" (the
              \* loudness enhancer, the visualizer) holds its context past close()
  fxKept,     \* the context such a library holds
  fxState,    \* mState: DRAINING is never entered
  fxContext,  \* the context; a queue is the set of its one size, or empty
  fxData,     \* samples in the input and in the output queue
  fxStatus,   \* entries in the status queue, whose depth is 1
  fxFlag,     \* whether the data flag of the event flag is up
  fxThread,   \* where the worker is
  fxLoop,     \* mStop and mExit
  fxCall      \* the call the binder thread is in
fxVars == <<fxKind, fxKept, fxState, fxContext, fxData, fxStatus, fxFlag, fxThread, fxLoop, fxCall>>

NoContext == [size |-> [s \in Sides |-> 0], common |-> [s \in Sides |-> 0],
              mq |-> [s \in Sides |-> {}], work |-> 0]
NoCall == [op |-> "none", common |-> NoContext.common]
Empty == [s \in Sides |-> 0]

FxInit ==
  /\ fxKind \in Kinds /\ fxKept = NoContext
  /\ fxState = "INIT" /\ fxContext = NoContext /\ fxData = Empty /\ fxStatus = 0
  /\ fxFlag = FALSE /\ fxThread = "none" /\ fxLoop = [stop |-> TRUE, exit |-> FALSE]
  /\ fxCall = NoCall

----------------------------------------------------------------------------------
Larger(f) == Max({f["in"], f["out"]})
newContext(c) == [size |-> c, common |-> c, mq |-> [s \in Sides |-> {c[s]}], work |-> Larger(c)]
\* A context that is still held is taken up as it is.
createContext(c) == IF fxKept = NoContext THEN newContext(c) ELSE fxKept
\* updateIOFrameSize() lets the queues of changed sides go, unless one is gone
\* already; setCommon() then refuses a mask without channels.
setInstanceCommon(x, c) ==
  LET sized == [x EXCEPT !.size = c]
      reset == IF x.work = 0 \/ \E s \in Sides : x.mq[s] = {} THEN sized
               ELSE [sized EXCEPT !.mq = [s \in Sides |-> IF c[s] # x.size[s] THEN {} ELSE x.mq[s]]]
  IN IF \E s \in Sides : c[s] = 0 THEN reset ELSE [reset EXCEPT !.common = c]
\* dupeFmqWithReopen(). Mutant: the work buffer keeps its size.
ReopenedUnsized(x) == [x EXCEPT !.mq = [s \in Sides |-> IF x.mq[s] = {} THEN {x.size[s]} ELSE x.mq[s]]]
dupeFmqWithReopen(x) ==
  [x EXCEPT !.mq = [s \in Sides |-> IF x.mq[s] = {} THEN {x.size[s]} ELSE x.mq[s]],
            !.work = Larger(x.size)]
\* A queue that is made anew is empty.
DataOf(x) == [s \in Sides |-> IF x.mq[s] = fxContext.mq[s] THEN fxData[s] ELSE 0]

----------------------------------------------------------------------------------
\* The mutex is free unless the worker waits to deliver a status.
ImplMutexFree == fxThread # "status"
Return == fxCall' = NoCall
Goes(op) == fxCall' = [fxCall EXCEPT !.op = op]

Call(op, c) ==
  /\ fxCall = NoCall /\ fxCall' = [op |-> op, common |-> c]
  /\ UNCHANGED <<fxKind, fxKept, fxState, fxContext, fxData, fxStatus, fxFlag, fxThread, fxLoop>>

openInstance ==
  /\ fxCall.op = "open" /\ ImplMutexFree /\ Return
  /\ IF fxState # "INIT" THEN UNCHANGED <<fxState, fxContext, fxData, fxStatus, fxFlag, fxThread, fxLoop>>
     ELSE /\ fxContext' = createContext(fxCall.common) /\ fxState' = "IDLE"
          /\ IF fxKept = NoContext THEN fxData' = Empty /\ fxStatus' = 0 /\ fxFlag' = FALSE
             ELSE UNCHANGED <<fxData, fxStatus, fxFlag>>
          /\ fxThread' = "cv" /\ fxLoop' = [stop |-> TRUE, exit |-> FALSE]
  /\ UNCHANGED <<fxKind, fxKept>>
reopen ==
  /\ fxCall.op = "reopen" /\ ImplMutexFree /\ Return
  /\ IF fxState = "INIT" THEN UNCHANGED <<fxContext, fxData>>
     ELSE fxContext' = dupeFmqWithReopen(fxContext) /\ fxData' = DataOf(fxContext')
  /\ UNCHANGED <<fxKind, fxKept, fxState, fxStatus, fxFlag, fxThread, fxLoop>>
setParameterCommon ==
  /\ fxCall.op = "common" /\ ImplMutexFree /\ Return
  /\ IF fxContext = NoContext THEN UNCHANGED <<fxContext, fxData>>
     ELSE fxContext' = setInstanceCommon(fxContext, fxCall.common) /\ fxData' = DataOf(fxContext')
  /\ UNCHANGED <<fxKind, fxKept, fxState, fxStatus, fxFlag, fxThread, fxLoop>>

\* command(): RESET, which destroyEffect() sends before it closes, also drops the
\* input; STOP comes before the close of cleanUp().
Commanded(op) == IF op = "start" THEN "PROCESSING" ELSE "IDLE"
Drops(op) == op \in {"reset", "destroy"}
\* Mutant: the worker is woken to look at a changed state only to end.
FlagUnlessStarted(op) == op # "start" \/ fxFlag
FlagAfter(op) == TRUE
commandImpl(op) == fxData' = IF Drops(op) THEN [fxData EXCEPT !["in"] = 0] ELSE fxData
command(op) ==
  /\ fxCall.op = op /\ ImplMutexFree
  /\ IF op \in {"destroy", "cleanUp"} THEN Goes("close") ELSE Return
  /\ IF fxState = "INIT" \/ (~Drops(op) /\ fxState = Commanded(op))
     THEN UNCHANGED <<fxState, fxData, fxFlag, fxLoop>>
     ELSE /\ fxState' = Commanded(op) /\ commandImpl(op) /\ fxFlag' = FlagAfter(op)
          /\ fxLoop' = [fxLoop EXCEPT !.stop = (op # "start")]
  /\ UNCHANGED <<fxKind, fxKept, fxContext, fxStatus, fxThread>>
Commands == {"start", "stop", "reset", "destroy", "cleanUp"}

\* close(): the state, the event flag, the end of the worker, the context.
closeInstance ==
  /\ fxCall.op = "close" /\ ImplMutexFree
  /\ IF fxState = "IDLE" THEN fxState' = "INIT" /\ Goes("notify") ELSE UNCHANGED fxState /\ Return
  /\ UNCHANGED <<fxKind, fxKept, fxContext, fxData, fxStatus, fxFlag, fxThread, fxLoop>>
\* destroyThread() before the join. Mutant: the worker is stopped, not ended.
OnlyStopped == fxLoop' = [fxLoop EXCEPT !.stop = TRUE]
Ended == fxLoop' = [stop |-> TRUE, exit |-> TRUE]
notifyEventFlag ==
  /\ fxCall.op = "notify" /\ fxFlag' = TRUE /\ Goes("join") /\ Ended
  /\ UNCHANGED <<fxKind, fxKept, fxState, fxContext, fxData, fxStatus, fxThread>>
releaseContext ==
  /\ fxContext' = NoContext
  /\ IF fxKind = "keeping"
     THEN fxKept' = fxContext /\ fxData' = [fxData EXCEPT !["in"] = 0] /\ UNCHANGED <<fxStatus, fxFlag>>
     ELSE UNCHANGED fxKept /\ fxData' = Empty /\ fxStatus' = 0 /\ fxFlag' = FALSE
destroyThread ==
  /\ fxCall.op = "join" /\ fxThread = "none" /\ Return
  /\ releaseContext /\ UNCHANGED <<fxKind, fxState, fxThread, fxLoop>>

----------------------------------------------------------------------------------
\* threadLoop() waits to be started or ended, process() for the event flag.
threadLoop ==
  /\ fxThread = "cv" /\ (fxLoop.exit \/ ~fxLoop.stop)
  /\ fxThread' = IF fxLoop.exit THEN "none" ELSE "flag"
  /\ UNCHANGED <<fxKind, fxKept, fxState, fxContext, fxData, fxStatus, fxFlag, fxLoop, fxCall>>
SeesFlag ==
  /\ fxThread = "flag" /\ fxFlag /\ fxFlag' = FALSE /\ fxThread' = "process"
  /\ UNCHANGED <<fxKind, fxKept, fxState, fxContext, fxData, fxStatus, fxLoop, fxCall>>

Avail(s) == IF s = "in" THEN fxData["in"] ELSE Max(fxContext.mq["out"]) - fxData["out"]
Processable == Min({Avail(s) : s \in Sides})
HasQueues == \A s \in Sides : fxContext.mq[s] # {}
\* Downmix's process() does not look at the state. Mutant: nobody does.
InAnyState == TRUE
InState == fxKind = "downmix" \/ fxState = "PROCESSING"
MayProcess == InState /\ fxContext # NoContext /\ HasQueues
\* writeBlocking() of the status waits, with the mutex, while the queue is full.
processBurst ==
  /\ fxThread = "process"
  /\ IF MayProcess /\ Processable > 0
     THEN /\ fxData' = [s \in Sides |-> IF s = "in" THEN fxData[s] - Processable
                                        ELSE fxData[s] + Processable]
          /\ IF fxStatus = 0 THEN fxStatus' = 1 /\ fxThread' = "cv"
             ELSE UNCHANGED fxStatus /\ fxThread' = "status"
     ELSE fxThread' = "cv" /\ UNCHANGED <<fxData, fxStatus>>
  /\ UNCHANGED <<fxKind, fxKept, fxState, fxContext, fxFlag, fxLoop, fxCall>>
writeBlocking ==
  /\ fxThread = "status" /\ fxStatus = 0 /\ fxStatus' = 1 /\ fxThread' = "cv"
  /\ UNCHANGED <<fxKind, fxKept, fxState, fxContext, fxData, fxFlag, fxLoop, fxCall>>

----------------------------------------------------------------------------------
\* The client fills the input queue, or a stale copy of it, and raises the flag;
\* it takes the status and the output.
ClientWrites(n) ==
  /\ fxContext # NoContext /\ fxFlag' = TRUE
  /\ \/ fxContext.mq["in"] = {} /\ UNCHANGED fxData
     \/ /\ fxContext.mq["in"] # {} /\ n + fxData["in"] <= Max(fxContext.mq["in"])
        /\ fxData' = [fxData EXCEPT !["in"] = @ + n]
  /\ UNCHANGED <<fxKind, fxKept, fxState, fxContext, fxStatus, fxThread, fxLoop, fxCall>>
ClientReads ==
  /\ fxStatus = 1 /\ fxStatus' = 0 /\ fxData' = [fxData EXCEPT !["out"] = 0]
  /\ UNCHANGED <<fxKind, fxKept, fxState, fxContext, fxFlag, fxThread, fxLoop, fxCall>>

BinderSteps == openInstance \/ reopen \/ setParameterCommon \/ closeInstance \/ notifyEventFlag \/ destroyThread
               \/ \E op \in Commands : command(op)
EffectSteps == threadLoop \/ SeesFlag \/ processBurst \/ writeBlocking
FxNext ==
  \/ \E c \in Formats : (0 \notin Range(c) /\ Call("open", c)) \/ Call("common", c)
  \/ \E op \in Commands \union {"reopen", "close"} : Call(op, NoCall.common)
  \/ BinderSteps \/ EffectSteps
  \/ \E n \in 1..2 : ClientWrites(n)
  \/ ClientReads
FxFairness == WF_fxVars(BinderSteps) /\ WF_fxVars(EffectSteps)
FxSpec == FxInit /\ [][FxNext]_fxVars /\ FxFairness

----------------------------------------------------------------------------------
FxTypeOK ==
  /\ fxState \in {"INIT", "IDLE", "PROCESSING"}
  /\ fxThread \in {"none", "cv", "flag", "process", "status"}
  /\ fxLoop \in [stop : BOOLEAN, exit : BOOLEAN] /\ fxFlag \in BOOLEAN /\ fxStatus \in 0..1

(* A call on an effect comes to its end, close() with the join of the worker    *)
(* included, unless the client leaves the status of the last burst unread.      *)
EffectCallsReturn == (fxCall # NoCall) ~> (fxCall = NoCall \/ fxThread = "status")

(* START of an idle effect takes up what the client wrote before: samples whose  *)
(* wake-up the worker used up while the effect was stopped are processed without *)
(* another write, unless a further call or an unread status comes first.         *)
StartTakesUp ==
  (fxCall.op = "start" /\ fxState = "IDLE" /\ HasQueues /\ Processable > 0)
    ~> (~HasQueues \/ Processable = 0 \/ fxThread = "status" \/ fxCall.op \notin {"none", "start"})

(* What the worker reads from the input at once fits into the work buffer,       *)
(* whatever changes of the formats came between the open and the last reopen.    *)
BurstFits == fxThread = "process" /\ MayProcess => Processable <= fxContext.work

(* A burst the worker has woken up for stays in the input queue when STOP, RESET  *)
(* or close() comes before it gets the mutex; of every library but the downmix.  *)
StoppedEffectsTakeNothing ==
  [][fxThread = "process" /\ fxKind # "downmix" /\ fxState # "PROCESSING" /\ fxThread' # "process"
       => fxData' = fxData]_fxVars

================================================================================
