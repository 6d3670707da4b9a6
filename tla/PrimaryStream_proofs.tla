------------------------- MODULE PrimaryStream_proofs -------------------------
(***************************************************************************)
(* What holds of PrimaryStream for any number of streams and cards and any   *)
(* number of start attempts.                                                *)
(***************************************************************************)
EXTENDS PrimaryStream, FiniteSetTheorems, TLAPS

Starting == {"select", "probe", "recover", "commit", "device"}

\* Steps of start() are taken from a state that accepts start; a synchronous client
\* never sees a transfer state.
StartInv ==
  \A s \in Streams :
    /\ mState[s] \notin {"TRANSFERRING", "TRANSFER_PAUSED"}
    /\ pc[s] \in Starting => mState[s] \in {"STANDBY", "PAUSED", "DRAIN_PAUSED"}

\* An A2B client outlives no pause, standby or close, and its stream remembers it.
ClientInv ==
  \A s \in Streams : mA2bClient[s] =>
    /\ mUseA2b[s]
    /\ mState[s] \in {"IDLE", "ACTIVE", "DRAINING", "ERROR"}
    /\ mAlsaDeviceProxies[s] = None

\* Devices are open on the card the worker uses, which is not the A2B clock's; a
\* stream that turned to A2B with its devices open has failed.
ProxyInv ==
  \A s \in Streams : mAlsaDeviceProxies[s] # None =>
    /\ mAlsaDeviceProxies[s] = mCurrAlsaDeviceId[s]
    /\ mAlsaDeviceProxies[s] # pcm
    /\ mUseA2b[s] => mState[s] = "ERROR"

RestInv ==
  \A s \in Streams : mState[s] \in {"STANDBY", "CLOSED"} =>
    ~mA2bClient[s] /\ mAlsaDeviceProxies[s] = None

Inv == StartInv /\ ClientInv /\ ProxyInv /\ RestInv

IInv == TypeOK /\ Inv /\ UsersMatchClients

-----------------------------------------------------------------------------
(* Types. *)

\* The states a command leads to are states.
LEMMA NextStates ==
  /\ \A state \in DOMAIN StartTarget : StartTarget[state] \in States
  /\ \A state \in DOMAIN PauseTarget : PauseTarget[state] \in States
  /\ \A state \in States : AfterBurst(state, "NONE", FALSE, TRUE) \in States
  BY DEF StartTarget, PauseTarget, AfterBurst, States

\* The next states keep to a synchronous client's.
LEMMA SyncStates ==
  /\ StartTarget["STANDBY"] = "IDLE" /\ StartTarget["PAUSED"] = "ACTIVE"
  /\ StartTarget["DRAIN_PAUSED"] = "DRAINING"
  /\ DOMAIN StartTarget = {"STANDBY", "PAUSED", "DRAIN_PAUSED", "TRANSFER_PAUSED"}
  /\ PauseTarget["ACTIVE"] = "PAUSED" /\ PauseTarget["DRAINING"] = "DRAIN_PAUSED"
  /\ DOMAIN PauseTarget = {"ACTIVE", "DRAINING", "TRANSFERRING"}
  BY DEF StartTarget, PauseTarget

\* What getCardId() returns is a card or the stub.
LEMMA CardIds == TypeOK => getCardId \subseteq Ids
  BY PrimaryAssumption DEF getCardId, Ids, TypeOK

StartLocals == [attempt : 1..Attempts, isStub : BOOLEAN, canRetry : BOOLEAN, selected : Ids]

ConnectLocals == [at : {"idle", "store", "notify"}, route : RouteSet, selected : Ids]

\* Steps of start() that only move its locals.
LEMMA LocalsTyped ==
  ASSUME TypeOK, NEW s \in Streams, NEW where \in Starting, NEW locals \in StartLocals,
         Locals(s, where, locals)
  PROVE  /\ pc' \in [Streams -> {"read", "run", "select", "probe", "recover", "commit",
                                 "device", "exited", "aborted"}]
         /\ command' \in [Streams -> Commands \cup {"none"}]
         /\ start' \in [Streams -> StartLocals]
  BY DEF TypeOK, Locals, Goto, Starting, StartLocals

\* What start() makes of its locals.
LEMMA LocalsUpdated ==
  ASSUME NEW l \in StartLocals, NEW stub \in BOOLEAN, NEW retry \in BOOLEAN, NEW card \in Ids
  PROVE  /\ [l EXCEPT !.isStub = stub, !.canRetry = retry] \in StartLocals
         /\ [l EXCEPT !.isStub = stub, !.selected = card] \in StartLocals
  BY Zenon DEF StartLocals

LEMMA ReleaseTyped ==
  ASSUME TypeOK, NEW s \in Streams, releaseA2b(s)
  PROVE  mA2bClient' \in [Streams -> BOOLEAN] /\ mUsers' \in Nat
<1>1. mA2bClient' \in [Streams -> BOOLEAN]
  BY DEF TypeOK, releaseA2b
<1>2. mUsers' \in {mUsers - 1, mUsers} /\ (mUsers = 0 => mUsers' = mUsers)
  BY DEF TypeOK, releaseA2b
<1> QED
  BY <1>1, <1>2 DEF TypeOK

LEMMA TypeInit == Init => TypeOK
  BY PrimaryAssumption DEF Init, TypeOK, NoStart, NoConnect, Ids, States, RouteSet

\* The worker's variables after a step.
UpdateTyped ==
  /\ mState' \in [Streams -> States]
  /\ pc' \in [Streams -> {"read", "run", "select", "probe", "recover", "commit",
                         "device", "exited", "aborted"}]
  /\ command' \in [Streams -> Commands \cup {"none"}]
  /\ start' \in [Streams -> StartLocals]

\* The state is one that start() is called in.
StartsFrom(s) == mState[s] \in {"STANDBY", "PAUSED", "DRAIN_PAUSED"}

LEMMA AttemptTyped ==
  ASSUME TypeOK, NEW s \in Streams, ~LastAttempt(s), NextAttempt(s), UNCHANGED mState
  PROVE  UpdateTyped
<1> DEFINE n == start[s].attempt + 1
<1>1. start[s] \in StartLocals
  BY DEF TypeOK, StartLocals
<1>2. n \in 1..Attempts
  BY <1>1, PrimaryAssumption DEF LastAttempt, StartLocals
<1>3. NoStart \in StartLocals
  BY PrimaryAssumption DEF NoStart, StartLocals, Ids
<1> HIDE DEF n
<1>4. [NoStart EXCEPT !.attempt = n] \in StartLocals
  BY <1>2, <1>3, Zenon DEF StartLocals
<1>5. Locals(s, "select", [NoStart EXCEPT !.attempt = n])
  BY DEF NextAttempt, n
<1> QED
  BY <1>4, <1>5, LocalsTyped DEF UpdateTyped, TypeOK, Starting

LEMMA OutcomeTyped ==
  ASSUME TypeOK, NEW s \in Streams, (StartsFrom(s) /\ Started(s)) \/ Failed(s)
  PROVE  UpdateTyped
<1>1. PICK state \in States : State(s, state) /\ Reply(s)
  BY NextStates, SyncStates DEF Started, Failed, StartsFrom, States
<1>2. NoStart \in StartLocals
  BY PrimaryAssumption DEF NoStart, StartLocals, Ids
<1> QED
  BY <1>1, <1>2 DEF State, Reply, Goto, UpdateTyped, TypeOK, StartLocals

LEMMA TypeNext == TypeOK /\ StartInv /\ [Next]_vars => TypeOK'
<1> SUFFICES ASSUME TypeOK, StartInv, [Next]_vars PROVE TypeOK'
  OBVIOUS
<1> USE PrimaryAssumption, NextStates DEF Ids
<1>1. ASSUME NEW s \in Streams, NEW c \in Commands, ReadCommand(s, c) PROVE TypeOK'
  BY <1>1 DEF TypeOK, ReadCommand, State, Settled, Goto, States, selection, sinks, driver, binder, world
<1>2. ASSUME NEW s \in Streams, Reject(s) PROVE TypeOK'
  BY <1>2 DEF TypeOK, Reject, Reply, Goto, NoStart, selection, sinks, driver, binder, world
<1>3. ASSUME NEW s \in Streams, SelectDevice(s) PROVE TypeOK'
  <2> DEFINE locals == [start[s] EXCEPT !.isStub = mAlsaDeviceId[s] = Stub,
                                        !.canRetry = mCanRetryHardwareCard[s]]
  <2>0. start[s] \in StartLocals /\ mCanRetryHardwareCard[s] \in BOOLEAN
    BY DEF TypeOK, StartLocals
  <2>1. locals \in StartLocals
    BY <2>0, LocalsUpdated, Zenon DEF Ids
  <2>2. PICK where \in Starting : Locals(s, where, locals)
    BY <1>3, Zenon DEF SelectDevice, Starting
  <2> HIDE DEF locals
  <2> QED
    BY <1>3, <2>1, <2>2, LocalsTyped DEF TypeOK, SelectDevice, StartLocals, selection, sinks, driver, binder, world
<1>4. ASSUME NEW s \in Streams, Probe(s) PROVE TypeOK'
  <2>1. PICK card \in getCardId :
          Locals(s, IF card = Stub THEN "commit" ELSE "recover",
                 [start[s] EXCEPT !.selected = card])
    BY <1>4, Zenon DEF Probe
  <2>2. [start[s] EXCEPT !.selected = card] \in StartLocals
    BY SMTT(30), CardIds DEF TypeOK, StartLocals
  <2> QED
    BY <1>4, <2>1, <2>2, LocalsTyped DEF TypeOK, Probe, Starting, StartLocals, selection, sinks, driver, binder, world
<1>5. ASSUME NEW s \in Streams, Recover(s) PROVE TypeOK'
  <2>0. start[s] \in StartLocals
    BY DEF TypeOK, StartLocals
  <2>1. [start[s] EXCEPT !.isStub = FALSE, !.selected = Stub] \in StartLocals
    BY <2>0, LocalsUpdated, Zenon DEF Ids
  <2>2. start[s].selected \in Ids
    BY DEF TypeOK
  <2> QED
    BY <1>5, <2>1, <2>2, LocalsTyped DEF TypeOK, Recover, Starting, StartLocals, sinks, driver, binder, world
<1>6. ASSUME NEW s \in Streams, Commit(s) PROVE TypeOK'
  <2>1. mA2bClient' \in [Streams -> BOOLEAN] /\ mUsers' \in Nat
        /\ mAlsaDeviceProxies' \in [Streams -> Cards \cup {None}]
    <3>1. (releaseA2b(s) /\ teardownIo(s)) \/ UNCHANGED sinks
      BY <1>6, Zenon DEF Commit
    <3> QED
      BY <3>1, ReleaseTyped DEF TypeOK, teardownIo, sinks
  <2>2. mCurrAlsaDeviceId' \in [Streams -> Ids]
    BY <1>6 DEF TypeOK, Commit
  <2>3. UNCHANGED <<selection, mUseA2b, binder, pcm, world>>
    BY <1>6 DEF Commit
  <2>4. \/ Locals(s, "device", start[s]) /\ UNCHANGED <<mState, mIsStandby>>
        \/ ~LastAttempt(s) /\ NextAttempt(s) /\ UNCHANGED <<mState, mIsStandby>>
        \/ StartsFrom(s) /\ Started(s) /\ mIsStandby' = [mIsStandby EXCEPT ![s] = FALSE]
    BY <1>6, Zenon DEF Commit, StartInv, StartsFrom, Starting
  <2>5. UpdateTyped
    BY <2>4, AttemptTyped, OutcomeTyped, LocalsTyped DEF TypeOK, StartLocals, Starting, UpdateTyped
  <2>6. mIsStandby' \in [Streams -> BOOLEAN]
    BY <2>4 DEF TypeOK
  <2> QED
    BY <2>1, <2>2, <2>3, <2>5, <2>6 DEF TypeOK, UpdateTyped, StartLocals, selection, binder, world
<1>7. ASSUME NEW s \in Streams, StartA2b(s) PROVE TypeOK'
  <2>1. mUseA2b' \in [Streams -> BOOLEAN]
    BY <1>7 DEF StartA2b, TypeOK
  <2>2. UpdateTyped
    BY <1>7, OutcomeTyped DEF StartA2b, StartsFrom, StartInv, Starting
  <2>3. mA2bClient' \in [Streams -> BOOLEAN] /\ mUsers' \in Nat
    <3>1. Attach(s) \/ UNCHANGED <<mA2bClient, mUsers>>
      BY <1>7 DEF StartA2b
    <3>2. CASE Attach(s)
      <4>1. mA2bClient' \in [Streams -> BOOLEAN]
        BY <3>2 DEF TypeOK, Attach
      <4>2. mUsers' \in {mUsers, mUsers + 1}
        BY <3>2 DEF Attach
      <4> QED
        BY <4>1, <4>2 DEF TypeOK
    <3> QED
      BY <3>1, <3>2 DEF TypeOK
  <2>4. pcm' \in Cards \cup {None}
    BY <1>7 DEF StartA2b, A2bPcmStart, Openable, TypeOK
  <2> QED
    BY <1>7, <2>1, <2>2, <2>3, <2>4 DEF StartA2b, TypeOK, UpdateTyped, StartLocals, selection, binder, world
<1>8. ASSUME NEW s \in Streams, StartAlsa(s) PROVE TypeOK'
  <2>1. mUseA2b' \in [Streams -> BOOLEAN]
    BY <1>8 DEF StartAlsa, TypeOK
  <2>2. \/ StartsFrom(s) /\ Started(s) /\ UNCHANGED <<mAlsaDeviceId, mCurrAlsaDeviceId>>
        \/ Failed(s) /\ UNCHANGED <<mAlsaDeviceId, mCurrAlsaDeviceId>>
        \/ /\ ~LastAttempt(s) /\ NextAttempt(s) /\ UNCHANGED mState
           /\ mAlsaDeviceId' = [mAlsaDeviceId EXCEPT ![s] = Stub]
           /\ mCurrAlsaDeviceId' = [mCurrAlsaDeviceId EXCEPT ![s] = Stub]
    BY <1>8, Zenon DEF StartAlsa, StartsFrom, StartInv, Starting
  <2>3. UpdateTyped
    BY <2>2, OutcomeTyped, AttemptTyped
  <2>4. mAlsaDeviceId' \in [Streams -> Ids] /\ mCurrAlsaDeviceId' \in [Streams -> Ids]
    BY <2>2 DEF TypeOK
  <2>5. mAlsaDeviceProxies' \in [Streams -> Cards \cup {None}]
    BY <1>8 DEF StartAlsa, Openable, TypeOK
  <2> QED
    BY <1>8, <2>1, <2>3, <2>4, <2>5 DEF StartAlsa, TypeOK, UpdateTyped, StartLocals, binder, world
<1>9. ASSUME NEW s \in Streams, burst(s) PROVE TypeOK'
  <2>1. \/ Goto(s, "aborted") /\ UNCHANGED <<command, start, mState>>
        \/ Failed(s)
        \/ State(s, AfterBurst(mState[s], "NONE", FALSE, TRUE)) /\ Reply(s)
    BY <1>9, Zenon DEF burst
  <2>2. UpdateTyped
    <3>1. CASE Goto(s, "aborted") /\ UNCHANGED <<command, start, mState>>
      BY <3>1 DEF Goto, TypeOK, UpdateTyped, StartLocals
    <3>2. CASE State(s, AfterBurst(mState[s], "NONE", FALSE, TRUE)) /\ Reply(s)
      <4>1. AfterBurst(mState[s], "NONE", FALSE, TRUE) \in States
        BY DEF TypeOK
      <4>2. NoStart \in StartLocals
        BY DEF NoStart, StartLocals
      <4> QED
        BY <3>2, <4>1, <4>2 DEF State, Reply, Goto, UpdateTyped, TypeOK, StartLocals
    <3> QED
      BY <2>1, <3>1, <3>2, OutcomeTyped
  <2> QED
    BY <1>9, <2>2 DEF burst, TypeOK, UpdateTyped, StartLocals, selection, sinks, driver, binder, world
<1>10. ASSUME NEW s \in Streams, drain(s) PROVE TypeOK'
  BY <1>10 DEF TypeOK, drain, State, Reply, Goto, NoStart, States, selection, sinks, driver, binder, world
<1>11. ASSUME NEW s \in Streams, standby(s) PROVE TypeOK'
  <2>1. mA2bClient' \in [Streams -> BOOLEAN] /\ mUsers' \in Nat
    BY <1>11, ReleaseTyped DEF standby
  <2>2. mAlsaDeviceProxies' \in [Streams -> Cards \cup {None}]
    BY <1>11 DEF TypeOK, standby, teardownIo
  <2>3. mIsStandby' \in [Streams -> BOOLEAN]
    BY <1>11, Zenon DEF TypeOK, standby
  <2> QED
    BY <1>11, <2>1, <2>2, <2>3 DEF TypeOK, standby, State, Reply, Goto, NoStart, States, selection, binder, world
<1>12. ASSUME NEW s \in Streams, pause(s) PROVE TypeOK'
  <2>1. mA2bClient' \in [Streams -> BOOLEAN] /\ mUsers' \in Nat
    <3>1. releaseA2b(s) \/ UNCHANGED <<mA2bClient, mUsers>>
      BY <1>12, Zenon DEF pause
    <3> QED
      BY <3>1, ReleaseTyped DEF TypeOK
  <2>2. mState[s] \in DOMAIN PauseTarget
    BY <1>12 DEF pause, Handles, Accepts
  <2>3. mState' \in [Streams -> States]
    BY <1>12, <2>2 DEF TypeOK, pause, State
  <2>4. /\ pc' = [pc EXCEPT ![s] = "read"] /\ command' = [command EXCEPT ![s] = "none"]
        /\ start' = [start EXCEPT ![s] = NoStart]
        /\ UNCHANGED <<mAlsaDeviceProxies, selection, driver, binder, pcm, world>>
    BY <1>12 DEF pause, Reply, Goto
  <2> QED
    BY <2>1, <2>3, <2>4 DEF TypeOK, NoStart, selection, driver, binder, world
<1>13. ASSUME NEW s \in Streams, flush(s) PROVE TypeOK'
  BY <1>13 DEF TypeOK, flush, State, Reply, Goto, NoStart, States, selection, sinks, driver, binder, world
<1>14. ASSUME NEW s \in Streams, shutdown(s) PROVE TypeOK'
  BY <1>14 DEF TypeOK, shutdown, releaseA2b, teardownIo, State, Goto, States, selection, driver, binder, world
<1>15. ASSUME NEW s \in Streams, NEW route \in Routes, BeginConnect(s, route) PROVE TypeOK'
  <2>1. PICK card \in IF route = "speaker" THEN getCardId ELSE {Stub} :
          connect' = [connect EXCEPT ![s] = [at |-> "store", route |-> route, selected |-> card]]
    BY <1>15, Zenon DEF BeginConnect
  <2>2. card \in Ids /\ route \in RouteSet
    BY CardIds
  <2>3. [at |-> "store", route |-> route, selected |-> card] \in ConnectLocals
    BY <2>2 DEF ConnectLocals
  <2>4. connect' \in [Streams -> ConnectLocals]
    BY <2>1, <2>3 DEF TypeOK, ConnectLocals
  <2> QED
    BY <1>15, <2>4 DEF TypeOK, BeginConnect, ConnectLocals, selection, sinks, driver, worker, world
<1>16. ASSUME NEW s \in Streams, StoreSelection(s) PROVE TypeOK'
  <2>1. connect[s] \in ConnectLocals
    BY DEF TypeOK, ConnectLocals
  <2>2. mAlsaDeviceId' \in [Streams -> Ids]
    BY <1>16, <2>1 DEF TypeOK, StoreSelection, ConnectLocals
  <2>3. mCanRetryHardwareCard' \in [Streams -> BOOLEAN]
    BY <1>16, Zenon DEF TypeOK, StoreSelection
  <2>4. [connect[s] EXCEPT !.at = "notify", !.selected = Stub] \in ConnectLocals
    BY <2>1 DEF ConnectLocals
  <2>5. connect' \in [Streams -> ConnectLocals]
    BY <1>16, <2>1, <2>4 DEF TypeOK, StoreSelection, ConnectLocals
  <2> QED
    BY <1>16, <2>2, <2>3, <2>5 DEF TypeOK, StoreSelection, ConnectLocals, sinks, driver, worker, world
<1>17. ASSUME NEW s \in Streams, SetIsConnected(s) PROVE TypeOK'
  BY <1>17 DEF TypeOK, SetIsConnected, NoConnect, RouteSet, selection, sinks, driver, worker, world
<1>18. ASSUME NEW card \in Cards, Plug(card) PROVE TypeOK'
  BY <1>18 DEF TypeOK, Plug, selection, sinks, driver, worker, binder
<1>19. CASE SetOutput
  BY <1>19 DEF TypeOK, SetOutput, selection, sinks, driver, worker, binder
<1>20. CASE UNCHANGED vars
  BY <1>20 DEF TypeOK, vars, selection, sinks, driver, worker, binder, world
<1> QED
  BY <1>1, <1>2, <1>3, <1>4, <1>5, <1>6, <1>7, <1>8, <1>9, <1>10, <1>11, <1>12, <1>13, <1>14,
     <1>15, <1>16, <1>17, <1>18, <1>19, <1>20 DEF Next, Worker, Connect

-----------------------------------------------------------------------------
(* The sinks of a stream. *)

LEMMA InvInit == Init => Inv
  BY DEF Init, Inv, StartInv, ClientInv, ProxyInv, RestInv, Starting

\* How a start and a failed command leave the streams.
LEMMA StartedLeads ==
  ASSUME TypeOK, NEW s \in Streams, StartsFrom(s), Started(s)
  PROVE  /\ mState'[s] \in {"IDLE", "ACTIVE", "DRAINING"} /\ pc'[s] = "read"
         /\ \A r \in Streams \ {s} : mState'[r] = mState[r] /\ pc'[r] = pc[r]
  BY SyncStates DEF TypeOK, StartsFrom, Started, State, Reply, Goto

LEMMA FailedLeads ==
  ASSUME TypeOK, NEW s \in Streams, Failed(s)
  PROVE  /\ mState'[s] = "ERROR" /\ pc'[s] = "read"
         /\ \A r \in Streams \ {s} : mState'[r] = mState[r] /\ pc'[r] = pc[r]
  BY DEF TypeOK, Failed, State, Reply, Goto

\* One more attempt, or the next step of this one.
LEMMA LocalsLead ==
  ASSUME TypeOK, NEW s \in Streams, UNCHANGED mState,
         NextAttempt(s) \/ Locals(s, "device", start[s])
  PROVE  /\ mState' = mState /\ pc'[s] \in Starting
         /\ \A r \in Streams \ {s} : pc'[r] = pc[r]
  BY DEF TypeOK, NextAttempt, Locals, Goto, Starting

\* What releaseA2b() leaves of the clients.
LEMMA ReleaseLeads ==
  ASSUME TypeOK, NEW s \in Streams, releaseA2b(s)
  PROVE  ~mA2bClient'[s] /\ \A r \in Streams \ {s} : mA2bClient'[r] = mA2bClient[r]
  BY DEF TypeOK, releaseA2b

LEMMA InvNext == TypeOK /\ Inv /\ [Next]_vars => Inv'
<1> SUFFICES ASSUME TypeOK, Inv, [Next]_vars PROVE Inv'
  OBVIOUS
<1> USE PrimaryAssumption, SyncStates DEF Inv, StartInv, ClientInv, ProxyInv, RestInv, Starting, Ids
<1>1. ASSUME NEW s \in Streams, NEW c \in Commands, ReadCommand(s, c) PROVE Inv'
  BY <1>1 DEF TypeOK, ReadCommand, State, Settled, Goto, sinks, driver
<1>2. ASSUME NEW s \in Streams, Reject(s) PROVE Inv'
  BY <1>2 DEF TypeOK, Reject, Reply, Goto, sinks, driver
<1>3. ASSUME NEW s \in Streams, SelectDevice(s) PROVE Inv'
  BY <1>3 DEF TypeOK, SelectDevice, Handles, Accepts, Locals, Goto, sinks, driver
<1>4. ASSUME NEW s \in Streams, Probe(s) PROVE Inv'
  BY <1>4 DEF TypeOK, Probe, Locals, Goto, sinks, driver
<1>5. ASSUME NEW s \in Streams, Recover(s) PROVE Inv'
  BY <1>5 DEF TypeOK, Recover, Locals, Goto, sinks, driver
<1>6. ASSUME NEW s \in Streams, Commit(s) PROVE Inv'
  <2>1. pc[s] = "commit" /\ StartsFrom(s)
    BY <1>6 DEF Commit, StartsFrom
  <2>2. mCurrAlsaDeviceId' = [mCurrAlsaDeviceId EXCEPT ![s] = mAlsaDeviceId[s]]
        /\ UNCHANGED <<mUseA2b, pcm>>
    BY <1>6 DEF Commit
  <2>0. \/ (NextAttempt(s) \/ Locals(s, "device", start[s])) /\ UNCHANGED mState
        \/ Started(s)
    BY <1>6, Zenon DEF Commit
  <2>3. \/ mState' = mState /\ pc'[s] \in Starting
        \/ mState'[s] \in {"IDLE", "ACTIVE", "DRAINING"} /\ pc'[s] = "read"
    BY <2>1, <2>0, StartedLeads, LocalsLead
  <2>4. \A r \in Streams \ {s} : mState'[r] = mState[r] /\ pc'[r] = pc[r]
    BY <2>1, <2>0, StartedLeads, LocalsLead
  <2>5. \/ /\ mA2bClient' = mA2bClient /\ mAlsaDeviceProxies' = mAlsaDeviceProxies
           /\ mCurrAlsaDeviceId[s] \in {mAlsaDeviceId[s], Stub}
        \/ releaseA2b(s) /\ teardownIo(s)
    BY <1>6, Zenon DEF Commit, ChangesDevice, sinks
  <2>6. StartInv'
    BY <2>1, <2>3, <2>4 DEF StartsFrom
  <2>7. CASE releaseA2b(s) /\ teardownIo(s)
    BY <2>1, <2>2, <2>3, <2>4, <2>6, <2>7, ReleaseLeads DEF TypeOK, teardownIo, StartsFrom
  <2>8. CASE /\ mA2bClient' = mA2bClient /\ mAlsaDeviceProxies' = mAlsaDeviceProxies
             /\ mCurrAlsaDeviceId[s] \in {mAlsaDeviceId[s], Stub}
    BY <2>1, <2>2, <2>3, <2>4, <2>6, <2>8 DEF TypeOK, StartsFrom
  <2> QED
    BY <2>5, <2>7, <2>8
<1>7. ASSUME NEW s \in Streams, StartA2b(s) PROVE Inv'
  <2>1. StartsFrom(s) /\ mUseA2b' = [mUseA2b EXCEPT ![s] = TRUE]
        /\ UNCHANGED <<mAlsaDeviceProxies, mCurrAlsaDeviceId>>
    BY <1>7 DEF StartA2b, StartsFrom
  <2>2. CASE Failed(s) /\ UNCHANGED <<mA2bClient, pcm>>
    <3>1. \A r \in Streams : mAlsaDeviceProxies[r] # None => mAlsaDeviceProxies[r] # pcm'
      BY <2>2
    <3> QED
      BY <2>1, <2>2, <3>1, FailedLeads DEF TypeOK, StartsFrom
  <2>3. CASE Failed(s) /\ A2bPcmStart(mCurrAlsaDeviceId[s], FALSE) /\ UNCHANGED mA2bClient
    <3>1. \A r \in Streams : mAlsaDeviceProxies[r] # None => mAlsaDeviceProxies[r] # pcm'
      BY <2>3 DEF A2bPcmStart, Openable
    <3> QED
      BY SMTT(30), <2>1, <2>3, <3>1, FailedLeads DEF TypeOK, StartsFrom
  <2>4. CASE A2bPcmStart(mCurrAlsaDeviceId[s], TRUE) /\ Started(s) /\ Attach(s)
    <3>1. \A r \in Streams : mAlsaDeviceProxies[r] # None => mAlsaDeviceProxies[r] # pcm'
      BY <2>4 DEF A2bPcmStart, Openable
    <3>2. mAlsaDeviceProxies[s] = None
      BY <2>4 DEF A2bPcmStart, Openable
    <3>3. mA2bClient'[s] /\ \A r \in Streams \ {s} : mA2bClient'[r] = mA2bClient[r]
      BY <2>4 DEF TypeOK, Attach
    <3>4. /\ mState'[s] \in {"IDLE", "ACTIVE", "DRAINING"} /\ pc'[s] = "read"
          /\ \A r \in Streams \ {s} : mState'[r] = mState[r] /\ pc'[r] = pc[r]
      BY <2>1, <2>4, StartedLeads
    <3> QED
      BY <2>1, <3>1, <3>2, <3>3, <3>4 DEF TypeOK
  <2> QED
    BY <1>7, <2>2, <2>3, <2>4 DEF StartA2b
<1>8. ASSUME NEW s \in Streams, StartAlsa(s) PROVE Inv'
  <2>1. StartsFrom(s) /\ mUseA2b' = [mUseA2b EXCEPT ![s] = FALSE]
        /\ UNCHANGED <<mA2bClient, pcm>>
    BY <1>8 DEF StartAlsa, StartsFrom
  <2>2. CASE /\ mAlsaDeviceProxies[s] # None \/ Openable(mCurrAlsaDeviceId[s])
             /\ mAlsaDeviceProxies' = [mAlsaDeviceProxies EXCEPT
                  ![s] = IF mAlsaDeviceProxies[s] # None THEN @ ELSE mCurrAlsaDeviceId[s]]
             /\ Started(s)
             /\ UNCHANGED mCurrAlsaDeviceId
    <3>1. /\ mState'[s] \in {"IDLE", "ACTIVE", "DRAINING"} /\ pc'[s] = "read"
          /\ \A r \in Streams \ {s} : mState'[r] = mState[r] /\ pc'[r] = pc[r]
      BY <2>1, <2>2, StartedLeads
    <3>2. ~mA2bClient[s]
      BY <2>1 DEF StartsFrom
    <3>3. mAlsaDeviceProxies'[s] = mCurrAlsaDeviceId'[s] /\ mAlsaDeviceProxies'[s] # pcm'
          /\ \A r \in Streams \ {s} : mAlsaDeviceProxies'[r] = mAlsaDeviceProxies[r]
      BY <2>1, <2>2 DEF TypeOK, Openable
    <3> QED
      BY <2>1, <2>2, <3>1, <3>2, <3>3 DEF TypeOK
  <2>3. CASE Failed(s) /\ UNCHANGED <<mAlsaDeviceProxies, mCurrAlsaDeviceId>>
    BY <2>1, <2>3, FailedLeads DEF TypeOK, StartsFrom
  <2>4. CASE /\ mAlsaDeviceProxies[s] = None /\ UNCHANGED <<mAlsaDeviceProxies, mState>>
             /\ mCurrAlsaDeviceId' = [mCurrAlsaDeviceId EXCEPT ![s] = Stub]
             /\ NextAttempt(s)
    BY <2>1, <2>4, LocalsLead DEF TypeOK, StartsFrom
  <2> QED
    BY <1>8, <2>2, <2>3, <2>4, Zenon DEF StartAlsa
<1>9. ASSUME NEW s \in Streams, burst(s) PROVE Inv'
  <2>1. UNCHANGED <<sinks, driver, pcm>>
    BY <1>9 DEF burst
  <2>2. CASE Goto(s, "aborted") /\ UNCHANGED <<command, start, mState>>
    BY <2>1, <2>2 DEF TypeOK, Goto, sinks, driver
  <2>3. CASE Failed(s)
    <3>1. /\ UNCHANGED <<mA2bClient, mAlsaDeviceProxies, mUseA2b, mCurrAlsaDeviceId, pcm>>
          /\ mState'[s] = "ERROR" /\ pc'[s] = "read"
          /\ \A r \in Streams \ {s} : mState'[r] = mState[r] /\ pc'[r] = pc[r]
      BY <2>1, <2>3, FailedLeads DEF sinks, driver
    <3>2. StartInv' /\ RestInv'
      BY <3>1
    <3>3. ClientInv'
      BY <3>1
    <3>4. ProxyInv'
      BY <3>1
    <3> QED
      BY <3>2, <3>3, <3>4
  <2>4. CASE State(s, AfterBurst(mState[s], "NONE", FALSE, TRUE)) /\ Reply(s)
    <3>1. AcceptsBurst(mState[s])
      BY <1>9 DEF burst, Handles, Accepts
    <3> DEFINE next == AfterBurst(mState[s], "NONE", FALSE, TRUE)
    <3>2. /\ next \notin {"TRANSFERRING", "TRANSFER_PAUSED", "STANDBY"}
          /\ next = "CLOSED" => mState[s] = "CLOSED"
          /\ mState[s] \in {"IDLE", "ACTIVE", "DRAINING"} => next = "ACTIVE"
          /\ mState[s] # "ERROR"
      BY <3>1 DEF AcceptsBurst, AfterBurst
    <3> HIDE DEF next
    <3>3. mState' = [mState EXCEPT ![s] = next] /\ pc' = [pc EXCEPT ![s] = "read"]
      BY <2>4 DEF State, Reply, Goto, next
    <3> QED
      BY <2>1, <3>2, <3>3 DEF TypeOK, sinks, driver
  <2> QED
    BY <1>9, <2>2, <2>3, <2>4, Zenon DEF burst
<1>10. ASSUME NEW s \in Streams, drain(s) PROVE Inv'
  BY <1>10 DEF TypeOK, drain, State, Reply, Goto, sinks, driver, Handles, Accepts, Drainable
<1>11. ASSUME NEW s \in Streams, standby(s) PROVE Inv'
  BY <1>11 DEF TypeOK, standby, releaseA2b, teardownIo, State, Reply, Goto, Handles, Accepts
<1>12. ASSUME NEW s \in Streams, pause(s) PROVE Inv'
  <2>1. mState[s] \in {"ACTIVE", "DRAINING"}
    BY <1>12 DEF pause, Handles, Accepts
  <2>2. /\ pc' = [pc EXCEPT ![s] = "read"] /\ UNCHANGED <<mAlsaDeviceProxies, driver, pcm>>
        /\ mState' = [mState EXCEPT ![s] = PauseTarget[mState[s]]]
    BY <1>12 DEF pause, Reply, Goto, State
  <2>3. PauseTarget[mState[s]] \in {"PAUSED", "DRAIN_PAUSED"}
    BY <2>1
  <2>4. CASE releaseA2b(s)
    BY <2>1, <2>2, <2>3, <2>4, ReleaseLeads DEF TypeOK, driver
  <2>5. CASE ~mUseA2b[s] /\ UNCHANGED mA2bClient
    BY <2>1, <2>2, <2>3, <2>5 DEF TypeOK, driver
  <2> QED
    BY <1>12, <2>4, <2>5, Zenon DEF pause
<1>13. ASSUME NEW s \in Streams, flush(s) PROVE Inv'
  BY <1>13 DEF TypeOK, flush, State, Reply, Goto, sinks, driver, Handles, Accepts, Flushable
<1>14. ASSUME NEW s \in Streams, shutdown(s) PROVE Inv'
  BY <1>14 DEF TypeOK, shutdown, releaseA2b, teardownIo, State, Goto, driver
<1>15. ASSUME NEW s \in Streams, Connect(s) PROVE Inv'
  BY <1>15 DEF Connect, BeginConnect, StoreSelection, SetIsConnected, sinks, driver, worker
<1>16. CASE (\E card \in Cards : Plug(card)) \/ SetOutput
  BY <1>16 DEF Plug, SetOutput, sinks, driver, worker
<1>17. CASE UNCHANGED vars
  BY <1>17 DEF vars, sinks, driver, worker
<1> QED
  BY <1>1, <1>2, <1>3, <1>4, <1>5, <1>6, <1>7, <1>8, <1>9, <1>10, <1>11, <1>12, <1>13, <1>14,
     <1>15, <1>16, <1>17 DEF Next, Worker

-----------------------------------------------------------------------------
(* The count of A2bController. *)

Clients == {s \in Streams : mA2bClient[s]}

\* A client is counted, so the count is not 0 when one is released.
LEMMA ReleaseCounts ==
  ASSUME TypeOK, UsersMatchClients, NEW s \in Streams, releaseA2b(s)
  PROVE  UsersMatchClients'
<1>1. IsFiniteSet(Clients)
  BY PrimaryAssumption, FS_Subset DEF Clients
<1>2. mUsers = Cardinality(Clients)
  BY DEF UsersMatchClients, Clients
<1>3. Clients' = Clients \ {s}
  BY DEF TypeOK, releaseA2b, Clients
<1>4. CASE mA2bClient[s]
  <2>1. s \in Clients
    BY <1>4 DEF Clients
  <2>2. Cardinality(Clients \ {s}) = mUsers - 1
    BY <1>1, <1>2, <2>1, FS_RemoveElement
  <2>3. mUsers > 0
    BY <1>1, <1>2, <2>1, FS_EmptySet, FS_CardinalityType DEF TypeOK
  <2>4. mUsers' = mUsers - 1
    BY <1>4, <2>3 DEF releaseA2b
  <2> QED
    BY <1>3, <2>2, <2>4 DEF UsersMatchClients, Clients
<1>5. CASE ~mA2bClient[s]
  <2>1. Clients \ {s} = Clients
    BY <1>5 DEF Clients
  <2>2. mUsers' = mUsers
    BY <1>5 DEF releaseA2b
  <2> QED
    BY <1>2, <1>3, <2>1, <2>2 DEF UsersMatchClients, Clients
<1> QED
  BY <1>4, <1>5

LEMMA AttachCounts ==
  ASSUME TypeOK, UsersMatchClients, NEW s \in Streams, Attach(s)
  PROVE  UsersMatchClients'
<1>1. IsFiniteSet(Clients)
  BY PrimaryAssumption, FS_Subset DEF Clients
<1>2. mUsers = Cardinality(Clients)
  BY DEF UsersMatchClients, Clients
<1>3. Clients' = Clients \cup {s}
  BY DEF TypeOK, Attach, Clients
<1>4. Cardinality(Clients \cup {s}) = IF s \in Clients THEN mUsers ELSE mUsers + 1
  BY <1>1, <1>2, FS_AddElement
<1>5. mUsers' = IF s \in Clients THEN mUsers ELSE mUsers + 1
  BY DEF Attach, Clients
<1> QED
  BY <1>3, <1>4, <1>5 DEF UsersMatchClients, Clients

LEMMA UsersInit == Init => UsersMatchClients
<1> SUFFICES ASSUME Init PROVE UsersMatchClients
  OBVIOUS
<1>1. {s \in Streams : mA2bClient[s]} = {} /\ mUsers = 0
  BY DEF Init
<1> QED
  BY <1>1, FS_EmptySet DEF UsersMatchClients

\* Whatever step is taken, a stream is attached, released, or the count is left alone.
LEMMA UsersNext == TypeOK /\ UsersMatchClients /\ [Next]_vars => UsersMatchClients'
<1> SUFFICES ASSUME TypeOK, UsersMatchClients, [Next]_vars PROVE UsersMatchClients'
  OBVIOUS
<1>1. CASE UNCHANGED <<mA2bClient, mUsers>>
  BY <1>1 DEF UsersMatchClients
<1>2. CASE \E s \in Streams : releaseA2b(s)
  BY <1>2, ReleaseCounts
<1>3. CASE \E s \in Streams : Attach(s)
  BY <1>3, AttachCounts
<1>4. ASSUME NEW s \in Streams, \E c \in Commands : ReadCommand(s, c)
      PROVE  UNCHANGED <<mA2bClient, mUsers>>
  BY <1>4 DEF ReadCommand, sinks
<1>5. ASSUME NEW s \in Streams, Connect(s) PROVE UNCHANGED <<mA2bClient, mUsers>>
  BY <1>5 DEF Connect, BeginConnect, StoreSelection, SetIsConnected, sinks
<1>6. ASSUME NEW s \in Streams, Worker(s)
      PROVE  UNCHANGED <<mA2bClient, mUsers>> \/ releaseA2b(s) \/ Attach(s)
  <2>1. CASE Reject(s) \/ SelectDevice(s) \/ Probe(s) \/ Recover(s)
    BY <2>1 DEF Reject, SelectDevice, Probe, Recover, sinks
  <2>2. CASE Commit(s)
    BY <2>2, Zenon DEF Commit, sinks
  <2>3. CASE StartA2b(s)
    BY <2>3, Zenon DEF StartA2b
  <2>4. CASE StartAlsa(s)
    BY <2>4 DEF StartAlsa
  <2>5. CASE burst(s) \/ drain(s) \/ flush(s)
    BY <2>5 DEF burst, drain, flush, sinks
  <2>6. CASE standby(s) \/ pause(s) \/ shutdown(s)
    BY <2>6, Zenon DEF standby, pause, shutdown
  <2> QED
    BY <1>6, <2>1, <2>2, <2>3, <2>4, <2>5, <2>6 DEF Worker
<1>7. CASE (\E card \in Cards : Plug(card)) \/ SetOutput
  BY <1>1, <1>7 DEF Plug, SetOutput, sinks
<1>8. CASE UNCHANGED vars
  BY <1>1, <1>8 DEF vars, sinks
<1> QED
  BY <1>1, <1>2, <1>3, <1>4, <1>5, <1>6, <1>7, <1>8 DEF Next

-----------------------------------------------------------------------------
(* The theorems. *)

LEMMA Invariance == Spec => []IInv
<1>1. Init => IInv
  BY TypeInit, InvInit, UsersInit DEF IInv
<1>2. IInv /\ [Next]_vars => IInv'
  BY TypeNext, InvNext, UsersNext DEF IInv, Inv
<1> QED
  BY <1>1, <1>2, PTL DEF Spec

\* StreamPrimary's members, start()'s locals and the controller's count keep their
\* types; of these, that the count stays natural and the attempts within
\* kHardwareStartAttempts rests on the code's own checks.
THEOREM TypeCorrect == Spec => []TypeOK
  BY Invariance, PTL DEF IInv

\* However many streams share the controller: it counts each of them once while it
\* holds a client, through every order of start, pause, standby, device change, failed
\* start and close.
THEOREM CountedOnce == Spec => []UsersMatchClients
  BY Invariance, PTL DEF IInv

\* No stream keeps ALSA devices open behind its A2B client: start() attaches only to
\* a clock that runs on another card than the devices it has open.
THEOREM OneSink == Spec => []SingleSink
<1>1. IInv => SingleSink
  BY DEF IInv, Inv, ClientInv, SingleSink
<1> QED
  BY <1>1, Invariance, PTL

\* standby() and shutdown() leave nothing behind, whichever driver start() chose and
\* whatever the binder thread selected since.
THEOREM StandbyIsIdle == Spec => []StandbyHoldsNothing
<1>1. IInv => StandbyHoldsNothing
  BY DEF IInv, Inv, RestInv, StandbyHoldsNothing
<1> QED
  BY <1>1, Invariance, PTL

\* A sink that is held is the only one of its stream, and the stream is not at rest.
THEOREM SinksAreInUse == Spec => []HeldSinksAreInUse
  BY OneSink, StandbyIsIdle, PTL DEF HeldSinksAreInUse
===============================================================================
