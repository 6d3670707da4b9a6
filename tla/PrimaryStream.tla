---------------------------- MODULE PrimaryStream ----------------------------
(***************************************************************************)
(* Output streams of the primary module (audio/primary/StreamPrimary.cpp)   *)
(* with a synchronous client: the worker of audio/Stream.cpp above a driver  *)
(* that plays through the process-wide A2B clock, through ALSA devices of    *)
(* its own or through a stub, whichever start() selects.  The binder thread  *)
(* of setConnectedDevices() changes the selection meanwhile, cards come and  *)
(* go, and the output property may be changed under the process.             *)
(***************************************************************************)
EXTENDS StreamOutStates, FiniteSets

CONSTANTS Streams,
          Cards,        \* the sound cards that may be plugged in
          A2bCard,      \* the one with id ad242x
          Stub,         \* kStubDeviceId
          None,         \* no card
          Outputs,      \* values of persist.vendor.audio.device: "rpi", "usb"
          A2bFormat,    \* the streams at 48 kHz, stereo, S16_LE
          Routes,       \* what the streams may be connected to, of RouteSet
          BurstStates,  \* the states in which the client sends bursts
          Attempts      \* kHardwareStartAttempts

RouteSet == {"none", "speaker", "bus"}   \* bus: one of useStubStream()

ASSUME PrimaryAssumption == /\ A2bCard \in Cards /\ Stub \notin Cards /\ None \notin Cards
                            /\ Outputs \subseteq {"rpi", "usb"} /\ Outputs # {}
                            /\ Routes \subseteq RouteSet
                            /\ Attempts \in Nat \ {0}
                            /\ IsFiniteSet(Streams)

VARIABLES
  mState, mIsConnected,         \* of the worker
  mAlsaDeviceId,                \* the selection, guarded by mLock ...
  mCanRetryHardwareCard,
  mCurrAlsaDeviceId,            \* ... and the worker's copy of it
  mUseA2b, mA2bClient,          \* mA2bClient: whether there is one
  mAlsaDeviceProxies,           \* the card they are opened on, or None
  mIsStandby,                   \* of mStubDriver
  pc,                           \* worker: "read", "run", "select", "probe", "recover",
                                \* "commit", "device", "exited" or "aborted"
  command,
  start,                        \* the locals of StreamPrimary::start()
  connect                       \* the locals of setConnectedDevices()

VARIABLES
  mUsers,                       \* of A2bController
  pcm,                          \* the card A2bPcm has opened, or None
  present,                      \* the cards that are plugged in
  output                        \* persist.vendor.audio.device

selection == <<mAlsaDeviceId, mCanRetryHardwareCard>>
sinks == <<mA2bClient, mAlsaDeviceProxies, mUsers>>
driver == <<mCurrAlsaDeviceId, mUseA2b, mIsStandby>>
worker == <<pc, command, start>>
binder == <<connect, mIsConnected>>
world == <<present, output>>
vars == <<mState, selection, sinks, driver, worker, binder, pcm, world>>

NoStart == [attempt |-> 1, isStub |-> TRUE, canRetry |-> FALSE, selected |-> Stub]
NoConnect == [at |-> "idle", route |-> "none", selected |-> Stub]

Init ==
  /\ mState = [s \in Streams |-> "STANDBY"] /\ mIsConnected = [s \in Streams |-> FALSE]
  /\ mAlsaDeviceId = [s \in Streams |-> Stub]
  /\ mCanRetryHardwareCard = [s \in Streams |-> FALSE]
  /\ mCurrAlsaDeviceId = [s \in Streams |-> Stub]
  /\ mUseA2b = [s \in Streams |-> FALSE] /\ mA2bClient = [s \in Streams |-> FALSE]
  /\ mAlsaDeviceProxies = [s \in Streams |-> None]
  /\ mIsStandby = [s \in Streams |-> TRUE]
  /\ pc = [s \in Streams |-> "read"] /\ command = [s \in Streams |-> "none"]
  /\ start = [s \in Streams |-> NoStart] /\ connect = [s \in Streams |-> NoConnect]
  /\ mUsers = 0 /\ pcm = None
  /\ present \in SUBSET Cards /\ output \in Outputs

-----------------------------------------------------------------------------
(* The sinks. *)

\* getCardId(): the A2B card, or a USB card that plays; a stub if there is none.
getCardId ==
  LET found == IF output = "rpi" THEN present \cap {A2bCard} ELSE present \ {A2bCard}
  IN IF found = {} THEN {Stub} ELSE found

\* Mutant: the client is detached, the controller is not told.
releaseDetaches(s) ==
  /\ mA2bClient' = [mA2bClient EXCEPT ![s] = FALSE]
  /\ UNCHANGED mUsers

\* detach() and A2bController::release().
releaseA2b(s) ==
  /\ mA2bClient' = [mA2bClient EXCEPT ![s] = FALSE]
  /\ mUsers' = IF mA2bClient[s] /\ mUsers > 0 THEN mUsers - 1 ELSE mUsers

\* teardownIo().
teardownIo(s) == mAlsaDeviceProxies' = [mAlsaDeviceProxies EXCEPT ![s] = None]

\* A card is opened by one PCM at a time.
Openable(card) == card \in present /\ card # pcm /\ \A s \in Streams : mAlsaDeviceProxies[s] # card

\* A2bPcm::start(): TRUE for OK. The PCM opens once and is never closed; whether the
\* clock runs yet, or still, is a matter of the writer.
A2bPcmStart(card, ok) ==
  IF pcm # None
    THEN (card # pcm => ~ok) /\ UNCHANGED pcm
    ELSE \/ ~ok /\ UNCHANGED pcm
         \/ Openable(card) /\ pcm' = card

-----------------------------------------------------------------------------
(* The worker. *)

Goto(s, where) == pc' = [pc EXCEPT ![s] = where]

State(s, state) == mState' = [mState EXCEPT ![s] = state]

Reply(s) ==
  /\ Goto(s, "read")
  /\ command' = [command EXCEPT ![s] = "none"]
  /\ start' = [start EXCEPT ![s] = NoStart]

Locals(s, where, locals) ==
  /\ Goto(s, where)
  /\ start' = [start EXCEPT ![s] = locals]
  /\ UNCHANGED command

\* Without a callback a drain ends at the top of the next cycle.
Settled(s) == IF mState[s] = "DRAINING" THEN "IDLE" ELSE mState[s]

\* LOG(FATAL) ends the process with all its streams.
Alive == \A s \in Streams : pc[s] # "aborted"

ReadCommand(s, c) ==
  /\ Alive
  /\ pc[s] = "read"
  /\ c = "burst" => Settled(s) \in BurstStates
  /\ State(s, Settled(s))
  /\ command' = [command EXCEPT ![s] = c]
  /\ Goto(s, "run")
  /\ UNCHANGED <<start, selection, sinks, driver, binder, pcm, world>>

Handles(s, c) == pc[s] = "run" /\ command[s] = c /\ Accepts(c, mState[s])

Reject(s) ==
  /\ pc[s] = "run" /\ command[s] # "exit" /\ ~Accepts(command[s], mState[s])
  /\ Reply(s)
  /\ UNCHANGED <<mState, selection, sinks, driver, binder, pcm, world>>

\* start(): what is selected now?
SelectDevice(s) ==
  /\ Handles(s, "start") \/ pc[s] = "select"
  /\ LET stub == mAlsaDeviceId[s] = Stub
         retry == mCanRetryHardwareCard[s]
     IN Locals(s, IF stub /\ retry THEN "probe" ELSE "commit",
               [start[s] EXCEPT !.isStub = stub, !.canRetry = retry])
  /\ UNCHANGED <<mState, selection, sinks, driver, binder, pcm, world>>

\* A card that appeared since is used; probing may take a second.
Probe(s) ==
  /\ pc[s] = "probe"
  /\ \E card \in getCardId :
       Locals(s, IF card = Stub THEN "commit" ELSE "recover",
              [start[s] EXCEPT !.selected = card])
  /\ UNCHANGED <<mState, selection, sinks, driver, binder, pcm, world>>

Recover(s) ==
  /\ pc[s] = "recover"
  /\ mAlsaDeviceId' = [mAlsaDeviceId EXCEPT ![s] = start[s].selected]
  /\ Locals(s, "commit", [start[s] EXCEPT !.isStub = FALSE, !.selected = Stub])
  /\ UNCHANGED <<mState, mCanRetryHardwareCard, sinks, driver, binder, pcm, world>>

LastAttempt(s) == start[s].attempt = Attempts

\* Mutant: the attempts are not counted.
SameAttempt(s) == Locals(s, "select", [NoStart EXCEPT !.attempt = start[s].attempt])

NextAttempt(s) == Locals(s, "select", [NoStart EXCEPT !.attempt = start[s].attempt + 1])

Started(s) == State(s, StartTarget[mState[s]]) /\ Reply(s)

Failed(s) == State(s, "ERROR") /\ Reply(s)

\* Mutant: the devices of the previous selection stay open.
ChangesDeviceNever(s) == FALSE

ChangesDevice(s) == mCurrAlsaDeviceId[s] \notin {mAlsaDeviceId[s], Stub}

\* The selection becomes the worker's; what the previous one used is closed; a stub
\* that cannot become a card is started.
Commit(s) ==
  /\ pc[s] = "commit"
  /\ mCurrAlsaDeviceId' = [mCurrAlsaDeviceId EXCEPT ![s] = mAlsaDeviceId[s]]
  /\ IF ChangesDevice(s) THEN releaseA2b(s) /\ teardownIo(s) ELSE UNCHANGED sinks
  /\ CASE ~start[s].isStub -> Locals(s, "device", start[s]) /\ UNCHANGED <<mState, mIsStandby>>
       [] start[s].isStub /\ start[s].canRetry /\ ~LastAttempt(s) ->
            NextAttempt(s) /\ UNCHANGED <<mState, mIsStandby>>
       [] OTHER -> Started(s) /\ mIsStandby' = [mIsStandby EXCEPT ![s] = FALSE]
  /\ UNCHANGED <<selection, mUseA2b, binder, pcm, world>>

\* attach() and A2bController::acquire().
Attach(s) ==
  /\ mA2bClient' = [mA2bClient EXCEPT ![s] = TRUE]
  /\ mUsers' = IF mA2bClient[s] THEN mUsers ELSE mUsers + 1

StartA2b(s) ==
  /\ pc[s] = "device" /\ output = "rpi"
  /\ mUseA2b' = [mUseA2b EXCEPT ![s] = TRUE]
  /\ \/ s \notin A2bFormat /\ Failed(s) /\ UNCHANGED <<mA2bClient, mUsers, pcm>>
     \/ s \in A2bFormat /\ A2bPcmStart(mCurrAlsaDeviceId[s], FALSE)
          /\ Failed(s) /\ UNCHANGED <<mA2bClient, mUsers>>
     \/ s \in A2bFormat /\ A2bPcmStart(mCurrAlsaDeviceId[s], TRUE)
          /\ Started(s) /\ Attach(s)
  /\ UNCHANGED <<mAlsaDeviceProxies, selection, mCurrAlsaDeviceId, mIsStandby, binder, world>>

\* StreamAlsaMonoPipe::start() resumes or opens; if the card has gone it is probed
\* again.
StartAlsa(s) ==
  LET card == mCurrAlsaDeviceId[s]
      opened == mAlsaDeviceProxies[s]
  IN
  /\ pc[s] = "device" /\ output # "rpi"
  /\ mUseA2b' = [mUseA2b EXCEPT ![s] = FALSE]
  /\ \/ /\ opened # None \/ Openable(card)
        /\ mAlsaDeviceProxies' = [mAlsaDeviceProxies EXCEPT ![s] = IF opened # None THEN @ ELSE card]
        /\ Started(s)
        /\ UNCHANGED <<mAlsaDeviceId, mCurrAlsaDeviceId>>
     \/ /\ opened = None
        /\ UNCHANGED mAlsaDeviceProxies
        /\ IF start[s].canRetry /\ ~LastAttempt(s)
             THEN /\ mAlsaDeviceId' = [mAlsaDeviceId EXCEPT ![s] = Stub]
                  /\ mCurrAlsaDeviceId' = [mCurrAlsaDeviceId EXCEPT ![s] = Stub]
                  /\ NextAttempt(s)
                  /\ UNCHANGED mState
             ELSE Failed(s) /\ UNCHANGED <<mAlsaDeviceId, mCurrAlsaDeviceId>>
  /\ UNCHANGED <<mA2bClient, mUsers, mCanRetryHardwareCard, mIsStandby, binder, pcm, world>>

\* LOG(FATAL): a stub in standby, or no opened ALSA devices.
NoSink(s) ==
  IF mCurrAlsaDeviceId[s] = Stub THEN mIsStandby[s]
                                 ELSE ~mUseA2b[s] /\ mAlsaDeviceProxies[s] = None

\* INVALID_OPERATION.
NoClient(s) == mCurrAlsaDeviceId[s] # Stub /\ mUseA2b[s] /\ ~mA2bClient[s]

\* write() and transfer(); an unconnected stream drops the burst.
burst(s) ==
  /\ Handles(s, "burst")
  /\ CASE mIsConnected[s] /\ NoSink(s) -> Goto(s, "aborted") /\ UNCHANGED <<command, start, mState>>
       [] mIsConnected[s] /\ NoClient(s) -> Failed(s)
       [] OTHER -> State(s, AfterBurst(mState[s], "NONE", FALSE, TRUE)) /\ Reply(s)
  /\ UNCHANGED <<selection, sinks, driver, binder, pcm, world>>

drain(s) ==
  /\ Handles(s, "drainAll")
  /\ State(s, "DRAINING")
  /\ Reply(s)
  /\ UNCHANGED <<selection, sinks, driver, binder, pcm, world>>

\* mUseA2b is of the last start of a card: a stub that follows it is not told.
standby(s) ==
  /\ Handles(s, "standby")
  /\ releaseA2b(s)
  /\ IF ~mUseA2b[s] /\ mCurrAlsaDeviceId[s] # Stub THEN teardownIo(s)
                                                   ELSE UNCHANGED mAlsaDeviceProxies
  /\ mIsStandby' = [mIsStandby EXCEPT ![s] = @ \/ (~mUseA2b[s] /\ mCurrAlsaDeviceId[s] = Stub)]
  /\ State(s, "STANDBY")
  /\ Reply(s)
  /\ UNCHANGED <<selection, mCurrAlsaDeviceId, mUseA2b, binder, pcm, world>>

pause(s) ==
  /\ Handles(s, "pause")
  /\ IF mUseA2b[s] THEN releaseA2b(s) ELSE UNCHANGED <<mA2bClient, mUsers>>
  /\ State(s, PauseTarget[mState[s]])
  /\ Reply(s)
  /\ UNCHANGED <<mAlsaDeviceProxies, selection, driver, binder, pcm, world>>

flush(s) ==
  /\ Handles(s, "flush")
  /\ State(s, "IDLE")
  /\ Reply(s)
  /\ UNCHANGED <<selection, sinks, driver, binder, pcm, world>>

\* close() makes the worker exit.
shutdown(s) ==
  /\ pc[s] = "run" /\ command[s] = "exit"
  /\ releaseA2b(s) /\ teardownIo(s)
  /\ State(s, "CLOSED")
  /\ Goto(s, "exited")
  /\ UNCHANGED <<command, start, selection, driver, binder, pcm, world>>

-----------------------------------------------------------------------------
(* setConnectedDevices(), for one route at a time, and the environment. *)

BeginConnect(s, route) ==
  /\ Alive
  /\ connect[s].at = "idle" /\ pc[s] # "exited"
  /\ \E card \in IF route = "speaker" THEN getCardId ELSE {Stub} :
       connect' = [connect EXCEPT ![s] =
                     [at |-> "store", route |-> route, selected |-> card]]
  /\ UNCHANGED <<mState, selection, sinks, driver, worker, mIsConnected, pcm, world>>

StoreSelection(s) ==
  /\ connect[s].at = "store"
  /\ mAlsaDeviceId' = [mAlsaDeviceId EXCEPT ![s] = connect[s].selected]
  /\ mCanRetryHardwareCard' = [mCanRetryHardwareCard EXCEPT ![s] = connect[s].route = "speaker"]
  /\ connect' = [connect EXCEPT ![s].at = "notify", ![s].selected = Stub]
  /\ UNCHANGED <<mState, sinks, driver, worker, mIsConnected, pcm, world>>

SetIsConnected(s) ==
  /\ connect[s].at = "notify"
  /\ mIsConnected' = [mIsConnected EXCEPT ![s] = connect[s].route # "none"]
  /\ connect' = [connect EXCEPT ![s] = NoConnect]
  /\ UNCHANGED <<mState, selection, sinks, driver, worker, pcm, world>>

Plug(card) ==
  /\ Alive
  /\ present' = IF card \in present THEN present \ {card} ELSE present \cup {card}
  /\ UNCHANGED <<mState, selection, sinks, driver, worker, binder, pcm, output>>

\* "a2bctl output" sets the property and then restarts this process.
SetOutput ==
  /\ Alive
  /\ output' \in Outputs
  /\ UNCHANGED <<mState, selection, sinks, driver, worker, binder, pcm, present>>

Commands == {"start", "burst", "drainAll", "standby", "pause", "flush", "exit"}

Worker(s) == \/ Reject(s) \/ SelectDevice(s) \/ Probe(s) \/ Recover(s) \/ Commit(s)
             \/ StartA2b(s) \/ StartAlsa(s)
             \/ burst(s) \/ drain(s) \/ standby(s) \/ pause(s) \/ flush(s) \/ shutdown(s)

Connect(s) == \/ \E route \in Routes : BeginConnect(s, route)
              \/ StoreSelection(s) \/ SetIsConnected(s)

Next == \/ \E s \in Streams : \/ \E c \in Commands : ReadCommand(s, c)
                              \/ Worker(s) \/ Connect(s)
        \/ (\E card \in Cards : Plug(card)) \/ SetOutput

Spec == Init /\ [][Next]_vars

FairSpec == Spec /\ \A s \in Streams : WF_vars(Worker(s))

-----------------------------------------------------------------------------
(* Properties. *)

Ids == Cards \cup {Stub}

\* The types of the variables.
TypeOK ==
  /\ mState \in [Streams -> States] /\ mIsConnected \in [Streams -> BOOLEAN]
  /\ mAlsaDeviceId \in [Streams -> Ids] /\ mCurrAlsaDeviceId \in [Streams -> Ids]
  /\ mCanRetryHardwareCard \in [Streams -> BOOLEAN]
  /\ mUseA2b \in [Streams -> BOOLEAN] /\ mA2bClient \in [Streams -> BOOLEAN]
  /\ mAlsaDeviceProxies \in [Streams -> Cards \cup {None}]
  /\ mIsStandby \in [Streams -> BOOLEAN]
  /\ pc \in [Streams -> {"read", "run", "select", "probe", "recover", "commit", "device",
                         "exited", "aborted"}]
  /\ command \in [Streams -> Commands \cup {"none"}]
  /\ start \in [Streams -> [attempt : 1..Attempts, isStub : BOOLEAN, canRetry : BOOLEAN,
                            selected : Ids]]
  /\ connect \in [Streams -> [at : {"idle", "store", "notify"}, route : RouteSet,
                              selected : Ids]]
  /\ mUsers \in Nat /\ pcm \in Cards \cup {None}
  /\ present \subseteq Cards /\ output \in Outputs

\* The controller counts each stream that plays once, however it was paused, moved
\* to another device, restarted or failed in between.
UsersMatchClients == mUsers = Cardinality({s \in Streams : mA2bClient[s]})

\* A stream never plays on the A2B network and on an ALSA device of its own, also
\* when the output property or the connected device changes between two starts.
SingleSink == \A s \in Streams : mA2bClient[s] => mAlsaDeviceProxies[s] = None

\* A stream in standby, or closed, holds neither a device nor a place in the mix.
StandbyHoldsNothing ==
  \A s \in Streams : pc[s] \in {"read", "exited"} /\ mState[s] \in {"STANDBY", "CLOSED"} =>
    ~mA2bClient[s] /\ mAlsaDeviceProxies[s] = None

\* What a stream holds follows from its state and from one choice of the driver.
HeldSinksAreInUse == SingleSink /\ StandbyHoldsNothing

\* A start ends, whatever cards disappear while it probes and retries.
StartEnds == \A s \in Streams : command[s] = "start" ~> command[s] # "start"

\* StreamAlsaMonoPipe.cpp, transfer(), LOG(FATAL): "no opened devices".
DevicesAreOpened == \A s \in Streams : pc[s] # "aborted"

===============================================================================
