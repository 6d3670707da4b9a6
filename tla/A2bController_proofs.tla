------------------------- MODULE A2bController_proofs -------------------------
(***************************************************************************)
(* The safety of the amplifier's life cycle, for every set of streams and   *)
(* profiles.  What the code guarantees with the lock free rests on what     *)
(* each holder of the lock may rely on: IInv says it for every pc.          *)
(***************************************************************************)
EXTENDS A2bController, TLAPS

\* The operations that hold the lock: what they leave for their remaining steps.
LockInv ==
  /\ pc \in {"initialize", "releaseMute"} => mClockStarted /\ ~mQuiesced /\ ~mAllowAudio
  /\ pc = "releaseMute" => mReady /\ mMuted # "yes" /\ amp = "muted"
  /\ pc = "persist" => ctx = "reload" /\ ~mAllowAudio
  /\ pc = "allow" => ctx = "none" /\ MayUnmute /\ mMuted = "no" /\ amp = "live"
  /\ pc = "resumeStop" => ctx = "resume" /\ mClockStarted /\ ~mQuiesced
  /\ ctx \in {"reload", "rollback", "resume"} => mMuted = "yes"
  /\ ctx = "rollback" => mProfile = previous

\* A ready network has a clock and a bus and is not quiesced.
ReadyInv == mReady => mClockStarted /\ HasBus /\ ~mQuiesced

\* The mute selection is in force; resume() makes it before it stops the network.
SelectedMute == mMuted = "yes" /\ pc # "resumeStop"

AllowInv == mAllowAudio => mReady /\ amp = "live" /\ ~SelectedMute

AmpInv == amp = "live" /\ ~unsilenced => mReady /\ ~SelectedMute

\* The two halves of TypeOK.
Booleans ==
  /\ mReady \in BOOLEAN /\ mClockStarted \in BOOLEAN /\ mQuiesced \in BOOLEAN
  /\ mTransport \in BOOLEAN /\ mAllowAudio \in BOOLEAN /\ mClockFailed \in BOOLEAN
  /\ unsilenced \in BOOLEAN /\ unsaved \in BOOLEAN

Others ==
  /\ pc \in {"free", "initialize", "releaseMute", "persist", "allow", "resumeStop"}
  /\ ctx \in {"none", "acquire", "reload", "rollback", "resume"}
  /\ ctl \in {"poll", "busy", "health"}
  /\ previous \in AnyProfile /\ mProfile \in AnyProfile /\ persisted \in AnyProfile
  /\ mMuted \in {"unset", "yes", "no"}
  /\ users \subseteq Streams
  /\ wpc \in {"none", "run", "fail"}
  /\ amp \in {"off", "muted", "live"}
  /\ pc = "free" => ctx = "none"
  /\ pc \in {"initialize", "releaseMute"} => ctx # "none"
  /\ ctl = "busy" \/ pc = "free" \/ ctx = "acquire"

IInv == Booleans /\ Others /\ LockInv /\ ReadyInv /\ AllowInv /\ AmpInv

LEMMA Parts == TypeOK <=> Booleans /\ Others
BY DEF TypeOK, Booleans, Others

LEMMA InitIInv == Init => IInv
BY ProfilesAssumption DEF Init, InitProcess, IInv, Booleans, Others, LockInv, ReadyInv, AllowInv, AmpInv,
   SelectedMute, AnyProfile

USE DEF AnyProfile, Finish, HasBus, SelectedMute

-----------------------------------------------------------------------------

\* The steps of initialize().
LEMMA InitializeStep == IInv /\ Initialize => IInv'
<1> SUFFICES ASSUME Booleans, Others, LockInv, ReadyInv, AllowInv, AmpInv, Initialize
             PROVE  Booleans' /\ Others' /\ LockInv' /\ ReadyInv' /\ AllowInv' /\ AmpInv'
  BY DEF IInv
<1>1. CASE initializeNoProfile
  <2>1. Booleans'
    BY <1>1, Zenon DEF initializeNoProfile, Booleans
  <2>2. Others'
    BY <1>1, ProfilesAssumption DEF initializeNoProfile, Others, LockInv
  <2>3. LockInv' /\ ReadyInv'
    BY <1>1 DEF initializeNoProfile, Others, LockInv, ReadyInv, AllowInv, MayUnmute
  <2>4. AllowInv' /\ AmpInv'
    BY <1>1 DEF initializeNoProfile, Others, LockInv, ReadyInv, AllowInv, AmpInv,
        MayUnmute
  <2> QED
    BY <2>1, <2>2, <2>3, <2>4
<1>2. CASE initializeFails
  <2>1. Booleans'
    BY <1>2, Zenon DEF initializeFails, Booleans
  <2>2. Others'
    BY <1>2, ProfilesAssumption DEF initializeFails, Others, LockInv
  <2>3. LockInv' /\ ReadyInv'
    BY <1>2 DEF initializeFails, Others, LockInv, ReadyInv, AllowInv, MayUnmute
  <2>4. AllowInv' /\ AmpInv'
    BY <1>2 DEF initializeFails, Others, LockInv, ReadyInv, AllowInv, AmpInv, MayUnmute
  <2> QED
    BY <2>1, <2>2, <2>3, <2>4
<1>3. CASE initializeRuns
  <2>1. Booleans'
    BY <1>3, Zenon DEF initializeRuns, StaysMuted, Booleans
  <2>2. Others'
    BY <1>3, ProfilesAssumption DEF initializeRuns, StaysMuted, Others, LockInv
  <2>3. LockInv' /\ ReadyInv'
    BY <1>3 DEF initializeRuns, StaysMuted, Others, LockInv, ReadyInv, AllowInv,
        MayUnmute
  <2>4. AllowInv' /\ AmpInv'
    BY <1>3 DEF initializeRuns, StaysMuted, Others, LockInv, ReadyInv, AllowInv,
        AmpInv, MayUnmute
  <2> QED
    BY <2>1, <2>2, <2>3, <2>4
<1>4. CASE releaseMute
  <2>0. ctx # "reload" /\ HasBus
    BY <1>4 DEF releaseMute, LockInv, ReadyInv
  <2>1. CASE amp' = "live" /\ mAllowAudio' = TRUE /\ UNCHANGED <<mReady, unsilenced>>
    BY <1>4, <2>0, <2>1 DEF releaseMute, Booleans, Others, LockInv, ReadyInv, AllowInv, AmpInv,
        MayUnmute
  <2>2. CASE \E ok \in BOOLEAN : stop(ok, {amp, "live"})
    <3>1. PICK ok \in BOOLEAN : stop(ok, {amp, "live"})
      BY <2>2
    <3>2. /\ mAllowAudio' = FALSE /\ mReady' = FALSE /\ unsilenced' \in BOOLEAN
          /\ amp' \in {"off", "muted", "live"} /\ (amp' = "live" => unsilenced')
      BY <2>0, <3>1, Zenon DEF stop, Silence, Others
    <3>3. Booleans'
      BY <1>4, <3>2, Zenon DEF releaseMute, Booleans
    <3>4. pc' = "free" /\ ctx' = "none" /\ UNCHANGED <<mProfile, mMuted, ctl, previous, users>>
      BY <1>4, <2>0, Zenon DEF releaseMute
    <3> QED
      BY <1>4, <2>0, <3>2, <3>3, <3>4 DEF releaseMute, Booleans, Others, LockInv, ReadyInv,
          AllowInv, AmpInv
  <2> QED
    BY <1>4, <2>1, <2>2 DEF releaseMute
<1> QED
  BY <1>1, <1>2, <1>3, <1>4 DEF Initialize

\* The other steps of an operation that holds the lock.
LEMMA LockedStep == IInv /\ Locked => IInv'
<1> SUFFICES ASSUME Booleans, Others, LockInv, ReadyInv, AllowInv, AmpInv, Locked
             PROVE  Booleans' /\ Others' /\ LockInv' /\ ReadyInv' /\ AllowInv' /\ AmpInv'
  BY DEF IInv
<1>1. CASE persist
  <2>1. Booleans'
    BY <1>1, Zenon DEF persist, state, Booleans
  <2>2. Others'
    BY <1>1, ProfilesAssumption DEF persist, state, Others, LockInv
  <2>3. LockInv' /\ ReadyInv'
    BY <1>1 DEF persist, state, Others, LockInv, ReadyInv, AllowInv, MayUnmute
  <2>4. AllowInv' /\ AmpInv'
    BY <1>1 DEF persist, state, Others, LockInv, ReadyInv, AllowInv, AmpInv, MayUnmute
  <2> QED
    BY <2>1, <2>2, <2>3, <2>4
<1>2. CASE allow
  <2>1. Booleans'
    BY <1>2, Zenon DEF allow, state, Booleans
  <2>2. Others'
    BY <1>2, ProfilesAssumption DEF allow, state, Others, LockInv
  <2>3. LockInv' /\ ReadyInv'
    BY <1>2 DEF allow, state, Others, LockInv, ReadyInv, AllowInv, MayUnmute
  <2>4. AllowInv' /\ AmpInv'
    BY <1>2 DEF allow, state, Others, LockInv, ReadyInv, AllowInv, AmpInv, MayUnmute
  <2> QED
    BY <2>1, <2>2, <2>3, <2>4
<1>3. CASE resumeStop
  <2>1. Booleans'
    BY <1>3, Zenon DEF resumeStop, stop, Silence, Booleans
  <2>2. Others'
    BY <1>3, ProfilesAssumption DEF resumeStop, stop, Silence, Others, LockInv
  <2>3. LockInv' /\ ReadyInv'
    BY <1>3 DEF resumeStop, stop, Silence, Others, LockInv, ReadyInv, AllowInv,
        MayUnmute
  <2>4. AllowInv' /\ AmpInv'
    BY <1>3 DEF resumeStop, stop, Silence, Others, LockInv, ReadyInv, AllowInv, AmpInv,
        MayUnmute
  <2> QED
    BY <2>1, <2>2, <2>3, <2>4
<1>4. CASE Initialize
  BY <1>4, InitializeStep DEF IInv
<1> QED
  BY <1>1, <1>2, <1>3, <1>4 DEF Locked

\* The commands of the control socket.
LEMMA RequestStep == IInv /\ Request => IInv'
<1> SUFFICES ASSUME Booleans, Others, LockInv, ReadyInv, AllowInv, AmpInv, Request
             PROVE  Booleans' /\ Others' /\ LockInv' /\ ReadyInv' /\ AllowInv' /\ AmpInv'
  BY DEF IInv
<1>1. CASE reloadLoadFails
  <2>1. Booleans'
    BY <1>1, Zenon DEF reloadLoadFails, Reply, Command, Free, lockVars, state, Booleans
  <2>2. Others'
    BY <1>1, ProfilesAssumption DEF reloadLoadFails, Reply, Command, Free, lockVars,
        state, Others, LockInv
  <2>3. LockInv' /\ ReadyInv'
    BY <1>1 DEF reloadLoadFails, Reply, Command, Free, lockVars, state, Others,
        LockInv, ReadyInv, AllowInv, MayUnmute
  <2>4. AllowInv' /\ AmpInv'
    BY <1>1 DEF reloadLoadFails, Reply, Command, Free, lockVars, state, Others,
        LockInv, ReadyInv, AllowInv, AmpInv, MayUnmute
  <2> QED
    BY <2>1, <2>2, <2>3, <2>4
<1>2. CASE reloadStopFails
  <2>1. Booleans'
    BY <1>2, Zenon DEF reloadStopFails, stop, Silence, Reply, Command, Free, lockVars,
        Booleans
  <2>2. Others'
    BY <1>2, ProfilesAssumption DEF reloadStopFails, stop, Silence, Reply, Command,
        Free, lockVars, Others, LockInv
  <2>3. LockInv' /\ ReadyInv'
    BY <1>2 DEF reloadStopFails, stop, Silence, Reply, Command, Free, lockVars, Others,
        LockInv, ReadyInv, AllowInv, MayUnmute
  <2>4. AllowInv' /\ AmpInv'
    BY <1>2 DEF reloadStopFails, stop, Silence, Reply, Command, Free, lockVars, Others,
        LockInv, ReadyInv, AllowInv, AmpInv, MayUnmute
  <2> QED
    BY <2>1, <2>2, <2>3, <2>4
<1>3. ASSUME NEW id \in Profiles, reload(id)
     PROVE  Booleans' /\ Others' /\ LockInv' /\ ReadyInv' /\ AllowInv' /\ AmpInv'
  <2>1. Booleans'
    BY <1>3, Zenon DEF reload, stop, Silence, Command, Free, MutedBySelection,
        BringsUp, Booleans
  <2>2. Others'
    BY <1>3, ProfilesAssumption DEF reload, stop, Silence, Command, Free,
        MutedBySelection, BringsUp, Others, LockInv
  <2>3. LockInv' /\ ReadyInv'
    BY <1>3 DEF reload, stop, Silence, Command, Free, MutedBySelection, BringsUp,
        Others, LockInv, ReadyInv, AllowInv, MayUnmute
  <2>4. AllowInv' /\ AmpInv'
    BY <1>3 DEF reload, stop, Silence, Command, Free, MutedBySelection, BringsUp,
        Others, LockInv, ReadyInv, AllowInv, AmpInv, MayUnmute
  <2> QED
    BY <2>1, <2>2, <2>3, <2>4
<1>4. CASE mute
  <2>1. Booleans'
    BY <1>4, Zenon DEF mute, Reply, Command, Free, lockVars, Booleans
  <2>2. Others'
    BY <1>4, ProfilesAssumption DEF mute, Reply, Command, Free, lockVars, Others,
        LockInv
  <2>3. LockInv' /\ ReadyInv'
    BY <1>4 DEF mute, Reply, Command, Free, lockVars, Others, LockInv, ReadyInv,
        AllowInv, MayUnmute
  <2>4. AllowInv' /\ AmpInv'
    BY <1>4 DEF mute, Reply, Command, Free, lockVars, Others, LockInv, ReadyInv,
        AllowInv, AmpInv, MayUnmute
  <2> QED
    BY <2>1, <2>2, <2>3, <2>4
<1>5. CASE unmuteStaged
  <2>1. Booleans'
    BY <1>5, Zenon DEF unmuteStaged, Reply, Command, Free, lockVars, Booleans
  <2>2. Others'
    BY <1>5, ProfilesAssumption DEF unmuteStaged, Reply, Command, Free, lockVars,
        Others, LockInv
  <2>3. LockInv' /\ ReadyInv'
    BY <1>5 DEF unmuteStaged, Reply, Command, Free, lockVars, Others, LockInv,
        ReadyInv, AllowInv, MayUnmute
  <2>4. AllowInv' /\ AmpInv'
    BY <1>5 DEF unmuteStaged, Reply, Command, Free, lockVars, Others, LockInv,
        ReadyInv, AllowInv, AmpInv, MayUnmute
  <2> QED
    BY <2>1, <2>2, <2>3, <2>4
<1>6. CASE unmuteRuns
  <2>1. Booleans'
    BY <1>6, Zenon DEF unmuteRuns, Command, Free, MayUnmute, Booleans
  <2>2. Others'
    BY <1>6, ProfilesAssumption DEF unmuteRuns, Command, Free, MayUnmute, Others,
        LockInv
  <2>3. LockInv' /\ ReadyInv'
    BY <1>6 DEF unmuteRuns, Command, Free, MayUnmute, Others, LockInv, ReadyInv,
        AllowInv
  <2>4. AllowInv' /\ AmpInv'
    BY <1>6 DEF unmuteRuns, Command, Free, MayUnmute, Others, LockInv, ReadyInv,
        AllowInv, AmpInv
  <2> QED
    BY <2>1, <2>2, <2>3, <2>4
<1>7. CASE unmuteFails
  <2>1. Booleans'
    BY <1>7, Zenon DEF unmuteFails, stop, Silence, Reply, Command, Free, MayUnmute,
        lockVars, Booleans
  <2>2. Others'
    BY <1>7, ProfilesAssumption DEF unmuteFails, stop, Silence, Reply, Command, Free,
        MayUnmute, lockVars, Others, LockInv
  <2>3. LockInv' /\ ReadyInv'
    BY <1>7 DEF unmuteFails, stop, Silence, Reply, Command, Free, MayUnmute, lockVars,
        Others, LockInv, ReadyInv, AllowInv
  <2>4. AllowInv' /\ AmpInv'
    BY <1>7 DEF unmuteFails, stop, Silence, Reply, Command, Free, MayUnmute, lockVars,
        Others, LockInv, ReadyInv, AllowInv, AmpInv
  <2> QED
    BY <2>1, <2>2, <2>3, <2>4
<1>8. CASE quiesce
  <2>1. Booleans'
    BY <1>8, Zenon DEF quiesce, stop, Silence, Reply, Command, Free, lockVars, Booleans
  <2>2. Others'
    BY <1>8, ProfilesAssumption DEF quiesce, stop, Silence, Reply, Command, Free,
        lockVars, Others, LockInv
  <2>3. LockInv' /\ ReadyInv'
    BY <1>8 DEF quiesce, stop, Silence, Reply, Command, Free, lockVars, Others,
        LockInv, ReadyInv, AllowInv, MayUnmute
  <2>4. AllowInv' /\ AmpInv'
    BY <1>8 DEF quiesce, stop, Silence, Reply, Command, Free, lockVars, Others,
        LockInv, ReadyInv, AllowInv, AmpInv, MayUnmute
  <2> QED
    BY <2>1, <2>2, <2>3, <2>4
<1>9. CASE resume
  <2>1. Booleans'
    BY <1>9, Zenon DEF resume, Command, Free, Booleans
  <2>2. Others'
    BY <1>9, ProfilesAssumption DEF resume, Command, Free, Others, LockInv
  <2>3. LockInv' /\ ReadyInv'
    BY <1>9 DEF resume, Command, Free, Others, LockInv, ReadyInv, AllowInv, MayUnmute
  <2>4. AllowInv' /\ AmpInv'
    BY <1>9 DEF resume, Command, Free, Others, LockInv, ReadyInv, AllowInv, AmpInv,
        MayUnmute
  <2> QED
    BY <2>1, <2>2, <2>3, <2>4
<1> QED
  BY <1>1, <1>2, <1>3, <1>4, <1>5, <1>6, <1>7, <1>8, <1>9 DEF Request

\* The control thread between two commands.
LEMMA ControlStep == IInv /\ Control => IInv'
<1> SUFFICES ASSUME Booleans, Others, LockInv, ReadyInv, AllowInv, AmpInv, Control
             PROVE  Booleans' /\ Others' /\ LockInv' /\ ReadyInv' /\ AllowInv' /\ AmpInv'
  BY DEF IInv
<1>1. CASE CommandReturns
  <2>1. Booleans'
    BY <1>1, Zenon DEF CommandReturns, Free, lockVars, state, Booleans
  <2>2. Others'
    BY <1>1, ProfilesAssumption DEF CommandReturns, Free, lockVars, state, Others,
        LockInv
  <2>3. LockInv' /\ ReadyInv'
    BY <1>1 DEF CommandReturns, Free, lockVars, state, Others, LockInv, ReadyInv,
        AllowInv, MayUnmute
  <2>4. AllowInv' /\ AmpInv'
    BY <1>1 DEF CommandReturns, Free, lockVars, state, Others, LockInv, ReadyInv,
        AllowInv, AmpInv, MayUnmute
  <2> QED
    BY <2>1, <2>2, <2>3, <2>4
<1>2. CASE PollTimeout
  <2>1. Booleans'
    BY <1>2, Zenon DEF PollTimeout, lockVars, state, Booleans
  <2>2. Others'
    BY <1>2, ProfilesAssumption DEF PollTimeout, lockVars, state, Others, LockInv
  <2>3. LockInv' /\ ReadyInv'
    BY <1>2 DEF PollTimeout, lockVars, state, Others, LockInv, ReadyInv, AllowInv,
        MayUnmute
  <2>4. AllowInv' /\ AmpInv'
    BY <1>2 DEF PollTimeout, lockVars, state, Others, LockInv, ReadyInv, AllowInv,
        AmpInv, MayUnmute
  <2> QED
    BY <2>1, <2>2, <2>3, <2>4
<1>3. CASE checkHealth
  <2>1. Booleans'
    BY <1>3, Zenon DEF checkHealth, stop, Silence, Free, ClockSeen, lockVars, Booleans
  <2>2. Others'
    BY <1>3, ProfilesAssumption DEF checkHealth, stop, Silence, Free, ClockSeen,
        lockVars, Others, LockInv
  <2>3. LockInv' /\ ReadyInv'
    BY <1>3 DEF checkHealth, stop, Silence, Free, ClockSeen, lockVars, Others, LockInv,
        ReadyInv, AllowInv, MayUnmute
  <2>4. AllowInv' /\ AmpInv'
    BY <1>3 DEF checkHealth, stop, Silence, Free, ClockSeen, lockVars, Others, LockInv,
        ReadyInv, AllowInv, AmpInv, MayUnmute
  <2> QED
    BY <2>1, <2>2, <2>3, <2>4
<1> QED
  BY <1>1, <1>2, <1>3 DEF Control

\* The streams, the writer and the process.
LEMMA NextStep == IInv /\ [Next]_vars => IInv'
<1> SUFFICES ASSUME Booleans, Others, LockInv, ReadyInv, AllowInv, AmpInv, [Next]_vars
             PROVE  Booleans' /\ Others' /\ LockInv' /\ ReadyInv' /\ AllowInv' /\ AmpInv'
  BY DEF IInv
<1>1. ASSUME NEW s \in Streams, acquire(s)
     PROVE  Booleans' /\ Others' /\ LockInv' /\ ReadyInv' /\ AllowInv' /\ AmpInv'
  <2>1. Booleans'
    BY <1>1, Zenon DEF acquire, Free, BringsUp, lockVars, Booleans
  <2>2. Others'
    BY <1>1, ProfilesAssumption DEF acquire, Free, BringsUp, lockVars, Others, LockInv
  <2>3. LockInv' /\ ReadyInv'
    BY <1>1 DEF acquire, Free, BringsUp, lockVars, Others, LockInv, ReadyInv, AllowInv,
        MayUnmute
  <2>4. AllowInv' /\ AmpInv'
    BY <1>1 DEF acquire, Free, BringsUp, lockVars, Others, LockInv, ReadyInv, AllowInv,
        AmpInv, MayUnmute
  <2> QED
    BY <2>1, <2>2, <2>3, <2>4
<1>2. ASSUME NEW s \in Streams, release(s)
     PROVE  Booleans' /\ Others' /\ LockInv' /\ ReadyInv' /\ AllowInv' /\ AmpInv'
  <2>1. Booleans'
    BY <1>2, Zenon DEF release, Free, lockVars, state, Booleans
  <2>2. Others'
    BY <1>2, ProfilesAssumption DEF release, Free, lockVars, state, Others, LockInv
  <2>3. LockInv' /\ ReadyInv'
    BY <1>2 DEF release, Free, lockVars, state, Others, LockInv, ReadyInv, AllowInv,
        MayUnmute
  <2>4. AllowInv' /\ AmpInv'
    BY <1>2 DEF release, Free, lockVars, state, Others, LockInv, ReadyInv, AllowInv,
        AmpInv, MayUnmute
  <2> QED
    BY <2>1, <2>2, <2>3, <2>4
<1>3. CASE ClockStarts
  <2>1. Booleans'
    BY <1>3, Zenon DEF ClockStarts, lockVars, state, Booleans
  <2>2. Others'
    BY <1>3, ProfilesAssumption DEF ClockStarts, lockVars, state, Others, LockInv
  <2>3. LockInv' /\ ReadyInv'
    BY <1>3 DEF ClockStarts, lockVars, state, Others, LockInv, ReadyInv, AllowInv,
        MayUnmute
  <2>4. AllowInv' /\ AmpInv'
    BY <1>3 DEF ClockStarts, lockVars, state, Others, LockInv, ReadyInv, AllowInv,
        AmpInv, MayUnmute
  <2> QED
    BY <2>1, <2>2, <2>3, <2>4
<1>4. CASE clockFailed
  <2>1. Booleans'
    BY <1>4, Zenon DEF clockFailed, lockVars, state, Booleans
  <2>2. Others'
    BY <1>4, ProfilesAssumption DEF clockFailed, lockVars, state, Others, LockInv
  <2>3. LockInv' /\ ReadyInv'
    BY <1>4 DEF clockFailed, lockVars, state, Others, LockInv, ReadyInv, AllowInv,
        MayUnmute
  <2>4. AllowInv' /\ AmpInv'
    BY <1>4 DEF clockFailed, lockVars, state, Others, LockInv, ReadyInv, AllowInv,
        AmpInv, MayUnmute
  <2> QED
    BY <2>1, <2>2, <2>3, <2>4
<1>5. CASE clockFailedSilences
  <2>1. Booleans'
    BY <1>5, Zenon DEF clockFailedSilences, lockVars, state, Booleans
  <2>2. Others'
    BY <1>5, ProfilesAssumption DEF clockFailedSilences, lockVars, state, Others,
        LockInv
  <2>3. LockInv' /\ ReadyInv'
    BY <1>5 DEF clockFailedSilences, lockVars, state, Others, LockInv, ReadyInv,
        AllowInv, MayUnmute
  <2>4. AllowInv' /\ AmpInv'
    BY <1>5 DEF clockFailedSilences, lockVars, state, Others, LockInv, ReadyInv,
        AllowInv, AmpInv, MayUnmute
  <2> QED
    BY <2>1, <2>2, <2>3, <2>4
<1>6. CASE Restart
  <2>1. Booleans'
    BY <1>6, Zenon DEF Restart, Booleans
  <2>2. Others'
    BY <1>6, ProfilesAssumption DEF Restart, Others, LockInv
  <2>3. LockInv' /\ ReadyInv'
    BY <1>6 DEF Restart, Others, LockInv, ReadyInv, AllowInv, MayUnmute
  <2>4. AllowInv' /\ AmpInv'
    BY <1>6 DEF Restart, Others, LockInv, ReadyInv, AllowInv, AmpInv, MayUnmute
  <2> QED
    BY <2>1, <2>2, <2>3, <2>4
<1>7. CASE UNCHANGED vars
  BY <1>7 DEF vars, lockVars, state, Booleans, Others, LockInv, ReadyInv, AllowInv, AmpInv,
      MayUnmute
<1>8. CASE Locked \/ Request \/ Control
  BY <1>8, LockedStep, RequestStep, ControlStep DEF IInv
<1> QED
  BY <1>1, <1>2, <1>3, <1>4, <1>5, <1>6, <1>7, <1>8 DEF Next

LEMMA Invariance == Spec => []IInv
BY InitIInv, NextStep, PTL DEF Spec

-----------------------------------------------------------------------------

\* The variables keep their types, and only the named operations hold the lock at
\* each pc, for every set of streams and profiles.
THEOREM TypeCorrect == Spec => []TypeOK
<1>1. IInv => TypeOK
  BY Parts DEF IInv
<1> QED
  BY <1>1, Invariance, PTL

\* Whenever the lock is free, audio is allowed only on a network that is up and not
\* quiesced, unmuted, with the amplifier live.
THEOREM AudioIsSafe == Spec => []AudibleOnlyWhenReady
<1>1. IInv => AudibleOnlyWhenReady
  BY DEF IInv, AllowInv, ReadyInv, AudibleOnlyWhenReady, Free
<1> QED
  BY <1>1, Invariance, PTL

\* An amplifier that plays although it was muted or the network is down, does so
\* because the bus refused the last attempt to silence it.
THEOREM AmplifierIsSilenced == Spec => []SilencedAmplifier
<1>1. IInv => SilencedAmplifier
  BY DEF IInv, AmpInv, SilencedAmplifier, Free
<1> QED
  BY <1>1, Invariance, PTL

\* Nothing comes up while the controller is quiesced.
THEOREM StaysQuiesced == Spec => []QuiescedStaysDown
<1>1. IInv => QuiescedStaysDown
  BY DEF IInv, ReadyInv, QuiescedStaysDown
<1> QED
  BY <1>1, Invariance, PTL

\* A selection returns muted, with audio disallowed.
THEOREM SelectionReturnsMuted == Spec => ReloadReturnsMuted
<1>1. IInv /\ [Next]_vars => [persist => mMuted' = "yes" /\ ~mAllowAudio']_vars
  BY DEF IInv, LockInv, persist, state
<1> QED
  BY <1>1, Invariance, PTL DEF Spec, ReloadReturnsMuted

\* A selection that could not be activated ends with the previous profile, muted.
THEOREM FailedSelectionRollsBack == Spec => FailedReloadRollsBack
<1> DEFINE Ends == /\ ctl = "busy" /\ ctx \in {"reload", "rollback"} /\ pc # "persist"
                   /\ pc' = "free" /\ ctl' = "busy"
           RolledBack == mProfile' = previous /\ mMuted' = "yes" /\ ~mAllowAudio'
<1>1. IInv /\ Next /\ Ends => RolledBack
  <2> SUFFICES ASSUME IInv, Next, Ends PROVE RolledBack
    OBVIOUS
  <2>1. pc \in {"initialize", "releaseMute"} /\ mMuted = "yes"
    BY DEF IInv, Others, LockInv
  <2>2. pc = "initialize"
    BY <2>1 DEF IInv, LockInv
  <2>3. CASE Initialize
    BY <2>2, <2>3 DEF Initialize, initializeNoProfile, initializeFails, initializeRuns, releaseMute,
        StaysMuted, IInv, Others, LockInv
  <2>4. ~(persist \/ allow \/ resumeStop \/ Request \/ Control)
    BY <2>2 DEF persist, allow, resumeStop, Request, reloadLoadFails, reloadStopFails, reload, mute,
        unmuteStaged, unmuteRuns, unmuteFails, quiesce, resume, Command, Free, Control,
        CommandReturns, PollTimeout, checkHealth
  <2>5. ~(\E s \in Streams : acquire(s) \/ release(s))
    BY <2>2 DEF acquire, release, Free
  <2>6. ~(ClockStarts \/ clockFailed \/ clockFailedSilences \/ Restart)
    BY <2>2 DEF ClockStarts, clockFailed, clockFailedSilences, Restart, lockVars
  <2> QED
    BY <2>3, <2>4, <2>5, <2>6 DEF Next, Locked
<1>2. IInv /\ [Next]_vars => [Ends => RolledBack]_vars
  BY <1>1
<1> QED
  BY <1>2, Invariance, PTL DEF Spec, FailedReloadRollsBack
-----------------------------------------------------------------------------

\* The profile to load after a restart, or a reason why it is another one.
Saved(p) == p = NoProfile \/ p = persisted \/ unsaved

\* A candidate is not saved yet; the profile to go back to is.
SelectionInv ==
  /\ ctx # "reload" => Saved(mProfile)
  /\ ctx = "reload" => Saved(previous)

\* If load() leaves the profile alone when it fails, a candidate replaces the saved
\* profile only with its property, and a failed activation brings it back.
LEMMA SelectionStep ==
  ASSUME "mismatch" \notin LoadResults
  PROVE  IInv /\ SelectionInv /\ [Next]_vars => SelectionInv'
<1> USE DEF SelectionInv, Saved, state, lockVars, Free, Command, Reply
<1> SUFFICES ASSUME LockInv, Others, SelectionInv, [Next]_vars PROVE SelectionInv'
  BY DEF IInv
<1>1. CASE Initialize
  BY <1>1 DEF Initialize, initializeNoProfile, initializeFails, initializeRuns, releaseMute, LockInv
<1>2. CASE persist
  BY <1>2, Zenon DEF persist, LockInv
<1>3. CASE allow \/ resumeStop
  BY <1>3 DEF allow, resumeStop
<1>4. CASE reloadLoadFails \/ reloadStopFails \/ mute \/ unmuteStaged \/ unmuteRuns \/ unmuteFails
            \/ quiesce \/ resume
  BY <1>4 DEF reloadLoadFails, reloadStopFails, mute, unmuteStaged, unmuteRuns, unmuteFails, quiesce,
      resume, Others
<1>5. ASSUME NEW id \in Profiles, reload(id) PROVE SelectionInv'
  BY <1>5 DEF reload, Others
<1>6. CASE Control
  BY <1>6 DEF Control, CommandReturns, PollTimeout, checkHealth
<1>7. ASSUME NEW s \in Streams, acquire(s) PROVE SelectionInv'
  BY <1>7 DEF acquire, Others
<1>8. ASSUME NEW s \in Streams, release(s) PROVE SelectionInv'
  BY <1>8 DEF release
<1>9. CASE ClockStarts \/ clockFailed \/ clockFailedSilences
  BY <1>9 DEF ClockStarts, clockFailed, clockFailedSilences
<1>10. CASE Restart
  BY <1>10 DEF Restart
<1>11. CASE UNCHANGED vars
  BY <1>11 DEF vars
<1> QED
  BY <1>1, <1>2, <1>3, <1>4, <1>5, <1>6, <1>7, <1>8, <1>9, <1>10, <1>11 DEF Next, Locked, Request

\* The active profile is the one a restarted process would load, unless the property
\* could not be written.
THEOREM SelectionIsSaved ==
  ASSUME "mismatch" \notin LoadResults
  PROVE  Spec => []SelectionSurvivesRestart
<1>1. Init => SelectionInv
  BY DEF Init, InitProcess, SelectionInv, Saved
<1>2. IInv /\ SelectionInv /\ [Next]_vars => SelectionInv'
  BY SelectionStep
<1>3. IInv /\ SelectionInv => SelectionSurvivesRestart
  BY DEF IInv, Others, ReadyInv, SelectionInv, Saved, SelectionSurvivesRestart, Free
<1> QED
  BY <1>1, <1>2, <1>3, Invariance, PTL DEF Spec

\* No selection, failed or not, makes the network louder.
THEOREM SelectionsAreQuiet == Spec => SelectionIsQuiet
  BY StaysQuiesced, SelectionReturnsMuted, FailedSelectionRollsBack DEF SelectionIsQuiet
===============================================================================
