------------------------------- MODULE SubmixRoutes -------------------------------
(* Remote submix: output streams write into the pipe of a route, input streams  *)
(* read from it; the route of an address lives as long as a stream is open on   *)
(* it. One thread at a time connects streams, each stream's worker transfers    *)
(* and, told to exit, leaves its route; every step is one critical section.     *)
EXTENDS Naturals, FiniteSets
CONSTANTS Outputs, Inputs,    \* the streams
          SubmixSessions,           \* the sets of streams that are used together
          SubmixAddresses,
          ConfigOf(_),        \* the audio configuration of a stream
          MaxRoutes,          \* bound: routes made in a behaviour
          Reconnects          \* bound: whether a connected stream is connected again

Streams == Outputs \union Inputs
NoRoute == 0
ASSUME SubmixAssumption ==
  Outputs \intersect Inputs = {} /\ IsFiniteSet(Inputs) /\ MaxRoutes \in Nat

VARIABLES
  rsRoutes,    \* the SubmixRoute objects
  rsUsed,      \* how many have been made
  rsTable,     \* the address map of getRoutes()
  rsCurrent,   \* mCurrentRoute of a stream
  rsPresent,   \* the streams of this behaviour
  rsPrepared, rsClosing,  \* those for which prepareToClose() and close() were called
  rsWorker,    \* its worker: where it stands, with which route, pipe and mode
  rsConnect,   \* the thread in setConnectedDevices()
  rsBroken     \* LOG(FATAL) "without a pipe!"
rsCalls == <<rsPresent, rsPrepared, rsClosing>>
rsVars == <<rsRoutes, rsUsed, rsTable, rsCurrent, rsCalls, rsWorker, rsConnect, rsBroken>>

\* sink: whether the route has a pipe; shut and full are of that pipe.
NewRoute == [address |-> CHOOSE a \in SubmixAddresses : TRUE, config |-> 0,
             inOpen |-> FALSE, inputRefCount |-> 0, outOpen |-> FALSE,
             inStandby |-> TRUE, outStandby |-> TRUE, transition |-> FALSE,
             hasRead |-> FALSE, sink |-> FALSE, shut |-> FALSE, full |-> FALSE]
Resting == [at |-> "idle", route |-> NoRoute, block |-> FALSE, replaced |-> FALSE]
NoConnect == [at |-> "none", stream |-> "none", address |-> "none", route |-> NoRoute]

SubmixInit ==
  /\ rsRoutes = [r \in 1..MaxRoutes |-> NewRoute] /\ rsUsed = 0
  /\ rsTable = [a \in SubmixAddresses |-> NoRoute]
  /\ rsCurrent = [s \in Streams |-> NoRoute]
  /\ rsPresent \in SubmixSessions /\ rsPrepared = {} /\ rsClosing = {}
  /\ rsWorker = [s \in Streams |-> Resting]
  /\ rsConnect = NoConnect /\ rsBroken = FALSE

----------------------------------------------------------------------------------
(* The methods of SubmixRoute: each gives the route afterwards                  *)
hasAtleastOneStreamOpen(q) == q.inOpen \/ q.outOpen
isStreamConfigValid(q, s) ==
  /\ ~(s \in Outputs /\ q.outOpen)
  /\ hasAtleastOneStreamOpen(q) => q.config = ConfigOf(s)
shouldBlockWrite(q) == q.inOpen /\ (~q.inStandby \/ ~q.hasRead)

routeOpenStream(q, s) ==
  IF s \in Outputs THEN [q EXCEPT !.outOpen = TRUE]
  ELSE [q EXCEPT !.inOpen = TRUE, !.inputRefCount = IF q.inOpen THEN @ + 1 ELSE 1,
                 !.inStandby = TRUE, !.hasRead = FALSE, !.shut = FALSE]
\* Mutant: the count is compared before it is decremented.
routeCloseInPlace(q, s) ==
  IF s \in Outputs THEN [q EXCEPT !.outOpen = FALSE, !.shut = q.sink \/ @]
  ELSE IF q.inputRefCount = 0 THEN [q EXCEPT !.inOpen = FALSE, !.shut = q.sink \/ @]
       ELSE [q EXCEPT !.inputRefCount = @ - 1]
routeCloseStream(q, s) ==
  IF s \in Outputs THEN [q EXCEPT !.outOpen = FALSE, !.shut = q.sink \/ @]
  ELSE LET n == q.inputRefCount - 1
       IN IF n = 0 THEN [q EXCEPT !.inputRefCount = 0, !.inOpen = FALSE,
                                  !.shut = q.sink \/ @]
          ELSE [q EXCEPT !.inputRefCount = n]
createPipe(q, c) ==
  [q EXCEPT !.config = c, !.sink = TRUE, !.shut = FALSE, !.full = FALSE]
releasePipe(q) == [q EXCEPT !.sink = FALSE]
routeStandby(q, s) ==
  IF s \in Inputs THEN [q EXCEPT !.inStandby = TRUE]
  ELSE [q EXCEPT !.outStandby = TRUE, !.transition = @ \/ ~q.outStandby]
exitStandby(q, s) ==
  CASE s \in Inputs /\ (q.inStandby \/ q.transition) ->
         [q EXCEPT !.inStandby = FALSE, !.transition = FALSE, !.hasRead = FALSE]
    [] s \in Outputs /\ q.outStandby -> [q EXCEPT !.outStandby = FALSE, !.transition = TRUE]
    [] OTHER -> q

SetRoute(r, q) == rsRoutes' = [rsRoutes EXCEPT ![r] = q]
WorkerAt(s, w) == rsWorker' = [rsWorker EXCEPT ![s] = w]
\* The writers that hold the pipe which route r gives up.
PipeReplaced(r) ==
  [s \in Streams |-> [rsWorker[s] EXCEPT !.replaced = @ \/ (rsWorker[s].route = r
                                                           /\ rsWorker[s].at = "write")]]

----------------------------------------------------------------------------------
(* setConnectedDevices(). Connecting to no device keeps mCurrentRoute.          *)
SetConnectedDevices(s, a) ==
  /\ rsConnect = NoConnect /\ s \in rsPresent \ rsClosing
  /\ Reconnects \/ rsCurrent[s] = NoRoute
  /\ rsTable[a] # NoRoute => isStreamConfigValid(rsRoutes[rsTable[a]], s)
  /\ rsConnect' = [NoConnect EXCEPT !.at = "find", !.stream = s, !.address = a]
  /\ UNCHANGED <<rsRoutes, rsUsed, rsTable, rsCurrent, rsCalls, rsWorker, rsBroken>>

findOrCreateRoute ==
  /\ rsConnect.at = "find"
  /\ LET a == rsConnect.address
         c == ConfigOf(rsConnect.stream)
     IN IF rsTable[a] # NoRoute
        THEN /\ rsConnect' = [rsConnect EXCEPT !.at = "open", !.route = rsTable[a]]
             /\ UNCHANGED <<rsRoutes, rsUsed, rsTable>>
        ELSE /\ rsUsed < MaxRoutes
             /\ rsUsed' = rsUsed + 1
             /\ SetRoute(rsUsed', createPipe([NewRoute EXCEPT !.address = a], c))
             /\ rsTable' = [rsTable EXCEPT ![a] = rsUsed']
             /\ rsConnect' = [rsConnect EXCEPT !.at = "open", !.route = rsUsed']
  /\ UNCHANGED <<rsCurrent, rsCalls, rsWorker, rsBroken>>

Connecting(r) == rsConnect.at = "open" /\ rsConnect.route = r
NeedsReset(q, s) == q.shut /\ (s \in Outputs \/ q.inOpen)

RouteRefused(r) ==
  /\ Connecting(r)
  /\ ~isStreamConfigValid(rsRoutes[r], rsConnect.stream) \/ ~rsRoutes[r].sink
  /\ rsConnect' = NoConnect
  /\ UNCHANGED <<rsRoutes, rsUsed, rsTable, rsCurrent, rsCalls, rsWorker, rsBroken>>
\* resetPipe() releases the pipe in one critical section and makes one in another.
ResetPipe(r) ==
  /\ Connecting(r) /\ rsRoutes[r].sink
  /\ isStreamConfigValid(rsRoutes[r], rsConnect.stream)
  /\ NeedsReset(rsRoutes[r], rsConnect.stream)
  /\ SetRoute(r, releasePipe(rsRoutes[r]))
  /\ rsConnect' = [rsConnect EXCEPT !.at = "create"]
  /\ rsWorker' = PipeReplaced(r)
  /\ UNCHANGED <<rsUsed, rsTable, rsCurrent, rsCalls, rsBroken>>
PipeRecreated ==
  /\ rsConnect.at = "create"
  /\ LET r == rsConnect.route
         s == rsConnect.stream
     IN /\ SetRoute(r, routeOpenStream(createPipe(rsRoutes[r], rsRoutes[r].config), s))
        /\ rsCurrent' = [rsCurrent EXCEPT ![s] = r]
  /\ rsConnect' = NoConnect
  /\ UNCHANGED <<rsUsed, rsTable, rsCalls, rsWorker, rsBroken>>
OpenStream(r) ==
  /\ Connecting(r) /\ rsRoutes[r].sink
  /\ isStreamConfigValid(rsRoutes[r], rsConnect.stream)
  /\ ~NeedsReset(rsRoutes[r], rsConnect.stream)
  /\ SetRoute(r, routeOpenStream(rsRoutes[r], rsConnect.stream))
  /\ rsCurrent' = [rsCurrent EXCEPT ![rsConnect.stream] = r]
  /\ rsConnect' = NoConnect
  /\ UNCHANGED <<rsUsed, rsTable, rsCalls, rsWorker, rsBroken>>

----------------------------------------------------------------------------------
(* The worker of a stream                                                       *)
\* The client sends no command to a stream that it prepared to close, and the
\* worker takes none after the exit command.
CanRun(s) == rsWorker[s] = Resting /\ s \notin rsPrepared \union rsClosing

Standby(s) ==
  /\ CanRun(s) /\ rsCurrent[s] # NoRoute
  /\ SetRoute(rsCurrent[s], routeStandby(rsRoutes[rsCurrent[s]], s))
  /\ UNCHANGED <<rsUsed, rsTable, rsCurrent, rsCalls, rsWorker, rsConnect,
                 rsBroken>>

\* With skip, start(), and a transfer() while mSkipNextTransfer is set.
Transfer(s, skip) ==
  /\ CanRun(s) /\ rsCurrent[s] # NoRoute
  /\ LET r == rsCurrent[s]
     IN /\ SetRoute(r, exitStandby(rsRoutes[r], s))
        /\ WorkerAt(s, IF skip THEN Resting
                       ELSE [Resting EXCEPT !.at = "transfer", !.route = r])
  /\ UNCHANGED <<rsUsed, rsTable, rsCurrent, rsCalls, rsConnect, rsBroken>>

\* outWrite(): the sink that it takes is the one it writes to, whatever the
\* route has later.
OutWrite(s) ==
  /\ s \in Outputs /\ rsWorker[s].at = "transfer"
  /\ LET q == rsRoutes[rsWorker[s].route]
     IN /\ rsBroken' = (rsBroken \/ ~q.sink)
        /\ WorkerAt(s, IF ~q.sink \/ q.shut THEN Resting
                       ELSE [rsWorker[s] EXCEPT !.at = "write", !.block = shouldBlockWrite(q)])
  /\ UNCHANGED <<rsRoutes, rsUsed, rsTable, rsCurrent, rsCalls, rsConnect>>
\* A write that may block waits for room or for the sink's shutdown; the others
\* make room with what the pipe holds. A sink that was replaced is shut down.
SinkWrite(s) ==
  /\ rsWorker[s].at = "write"
  /\ LET w == rsWorker[s]
         q == rsRoutes[w.route]
         current == ~w.replaced /\ ~q.shut
     IN /\ (current /\ w.block) => ~q.full
        /\ IF current THEN SetRoute(w.route, [q EXCEPT !.full = TRUE]) ELSE UNCHANGED rsRoutes
  /\ WorkerAt(s, Resting)
  /\ UNCHANGED <<rsUsed, rsTable, rsCurrent, rsCalls, rsConnect, rsBroken>>
InRead(s) ==
  /\ s \in Inputs /\ rsWorker[s].at = "transfer"
  /\ LET r == rsWorker[s].route
     IN IF ~rsRoutes[r].sink THEN UNCHANGED rsRoutes
        ELSE SetRoute(r, [rsRoutes[r] EXCEPT !.full = FALSE, !.hasRead = TRUE])
  /\ WorkerAt(s, Resting)
  /\ UNCHANGED <<rsUsed, rsTable, rsCurrent, rsCalls, rsConnect, rsBroken>>

----------------------------------------------------------------------------------
(* The end of a stream: prepareToClose() in the client's thread, then close(),  *)
(* which makes the worker run shutdown().                                       *)
prepareToClose(s) ==
  /\ s \notin rsPrepared \union rsClosing /\ rsCurrent[s] # NoRoute
  /\ rsConnect.stream # s
  /\ rsPrepared' = rsPrepared \union {s}
  /\ IF s \in Outputs THEN SetRoute(rsCurrent[s], routeCloseStream(rsRoutes[rsCurrent[s]], s))
     ELSE UNCHANGED rsRoutes
  /\ UNCHANGED <<rsUsed, rsTable, rsCurrent, rsPresent, rsClosing, rsWorker,
                 rsConnect, rsBroken>>
Close(s) ==
  /\ s \in rsPresent \ rsClosing /\ rsConnect.stream # s
  /\ rsClosing' = rsClosing \union {s}
  /\ UNCHANGED <<rsRoutes, rsUsed, rsTable, rsCurrent, rsPresent, rsPrepared,
                 rsWorker, rsConnect, rsBroken>>

Shutdown(s) ==
  /\ s \in rsClosing /\ rsWorker[s] = Resting
  /\ LET r == rsCurrent[s]
     IN IF r = NoRoute THEN WorkerAt(s, [Resting EXCEPT !.at = "closed"]) /\ UNCHANGED rsRoutes
        ELSE /\ SetRoute(r, routeCloseStream(rsRoutes[r], s))
             /\ WorkerAt(s, [Resting EXCEPT !.at = "last", !.route = r])
  /\ rsCurrent' = [rsCurrent EXCEPT ![s] = NoRoute]
  /\ UNCHANGED <<rsUsed, rsTable, rsCalls, rsConnect, rsBroken>>
IsLast(s) ==
  /\ rsWorker[s].at = "last"
  /\ WorkerAt(s, [rsWorker[s] EXCEPT !.at =
       IF hasAtleastOneStreamOpen(rsRoutes[rsWorker[s].route]) THEN "closed" ELSE "release"])
  /\ UNCHANGED <<rsRoutes, rsUsed, rsTable, rsCurrent, rsCalls, rsConnect,
                 rsBroken>>
ReleaseLast(s) ==
  /\ rsWorker[s].at = "release"
  /\ SetRoute(rsWorker[s].route, releasePipe(rsRoutes[rsWorker[s].route]))
  /\ rsWorker' = [PipeReplaced(rsWorker[s].route) EXCEPT ![s].at = "remove"]
  /\ UNCHANGED <<rsUsed, rsTable, rsCurrent, rsCalls, rsConnect, rsBroken>>
RemoveRoute(s) ==
  /\ rsWorker[s].at = "remove"
  /\ rsTable' = [rsTable EXCEPT ![rsRoutes[rsWorker[s].route].address] = NoRoute]
  /\ WorkerAt(s, [rsWorker[s] EXCEPT !.at = "closed"])
  /\ UNCHANGED <<rsRoutes, rsUsed, rsCurrent, rsCalls, rsConnect, rsBroken>>

SubmixNext ==
  \/ \E s \in Streams, a \in SubmixAddresses : SetConnectedDevices(s, a)
  \/ findOrCreateRoute \/ PipeRecreated
  \/ \E r \in 1..MaxRoutes : RouteRefused(r) \/ ResetPipe(r) \/ OpenStream(r)
  \/ \E s \in Streams : \/ Standby(s) \/ (\E skip \in BOOLEAN : Transfer(s, skip))
                        \/ OutWrite(s) \/ SinkWrite(s) \/ InRead(s)
                        \/ prepareToClose(s) \/ Close(s)
                        \/ Shutdown(s) \/ IsLast(s) \/ ReleaseLast(s) \/ RemoveRoute(s)
SubmixSpec == SubmixInit /\ [][SubmixNext]_rsVars

(* The inputs attached to a route are counted by it, and an input that another  *)
(* one's close would leave without the open mark does not exist.                *)
InputsAreCounted ==
  \A r \in 1..MaxRoutes :
    LET attached == {s \in Inputs : rsCurrent[s] = r}
    IN /\ Cardinality(attached) <= rsRoutes[r].inputRefCount
       /\ attached # {} => rsRoutes[r].inOpen

(* When its last stream has gone, an address has no route: the next stream     *)
(* makes one with its own configuration.                                        *)
RoutesAreRemoved ==
  (rsConnect = NoConnect /\ \A s \in Streams : rsCurrent[s] = NoRoute /\ rsWorker[s].at
     \in {"idle", "closed"})
  => \A a \in SubmixAddresses : rsTable[a] = NoRoute
==================================================================================
