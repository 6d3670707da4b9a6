----------------------------- MODULE A2bController -----------------------------
(***************************************************************************)
(* audio/a2b/A2bController.{h,cpp}: the amplifier's life cycle.  mLock      *)
(* serializes the commands of the control socket, the periodic health check *)
(* and the streams' acquire()/release(); the PCM writer reads and writes    *)
(* mAllowAudio and mClockFailed without it.  A locked operation is split    *)
(* where it reads one of the two atomics after it let time pass on the bus, *)
(* or writes one it will read or write again: pc names the rest of the      *)
(* operation that holds the lock.                                           *)
(***************************************************************************)
EXTENDS Integers, FiniteSets

CONSTANTS Streams,       \* playback streams
          Profiles,      \* profile ids that can be selected
          DefaultId,     \* the persisted selection of a fresh image
          StartMuted,    \* the profiles whose start_muted is TRUE
          LoadResults,   \* what load() can meet: "ok", "error", "mismatch"
          NoProfile,     \* mProfile before one was loaded: its id() is empty
          WrongProfile   \* a parsed profile whose id is not its file's name

ASSUME ProfilesAssumption ==
  /\ DefaultId \in Profiles
  /\ StartMuted \subseteq Profiles \cup {WrongProfile}
  /\ NoProfile \notin Profiles \cup {WrongProfile}
  /\ WrongProfile \notin Profiles
  /\ LoadResults \subseteq {"ok", "error", "mismatch"}

VARIABLES
  pc,            \* "free" or what the holder of mLock does next
  ctx,           \* why initialize() runs: "acquire", "reload", "rollback", "resume"
  ctl,           \* control thread: "poll", "busy" in a command, "health"
  previous,      \* reload's copy of the profile to go back to
  mProfile, mReady, mClockStarted, mQuiesced,
  mMuted,        \* the optional<bool>: "unset", "yes" or "no"
  mTransport,    \* whether there is a transport
  mAllowAudio, mClockFailed,
  persisted,     \* the property persist.vendor.audio.a2b.profile
  users,         \* the streams counted by mUsers
  wpc,           \* PCM writer: "none", "run", or "fail" between its two stores
  amp            \* the amplifier: "off", "muted" or "live"

(* What is observed but kept by no variable of the code. *)
VARIABLES
  unsilenced,    \* the last attempt to mute or shut down met a bus error
  unsaved        \* the last selection could not be persisted

lockVars == <<pc, ctx, previous>>
state == <<mProfile, mReady, mClockStarted, mQuiesced, mMuted, mTransport>>
vars == <<lockVars, ctl, state, mAllowAudio, mClockFailed, persisted, users,
          wpc, amp, unsilenced, unsaved>>

Free == pc = "free"

allowAudio == mAllowAudio /\ ~mClockFailed

InitProcess ==
  /\ pc = "free" /\ ctx = "none" /\ ctl = "poll" /\ previous = NoProfile
  /\ mProfile = NoProfile /\ mReady = FALSE /\ mClockStarted = FALSE
  /\ mQuiesced = FALSE /\ mMuted = "unset" /\ mTransport = FALSE
  /\ mAllowAudio = FALSE /\ mClockFailed = FALSE
  /\ users = {} /\ wpc = "none"

Init == /\ InitProcess
        /\ persisted = DefaultId /\ amp = "off"
        /\ unsilenced = FALSE /\ unsaved = FALSE

-----------------------------------------------------------------------------
(* The phases of a profile on the bus; each may fail with or without effect. *)

\* run() has nothing to do without a transport, and no operation in an empty
\* profile.
HasBus == mTransport /\ mProfile # NoProfile

\* mute, then shutdown whatever became of mute, for an amplifier that may be in
\* one of the states of before.
Silence(ok, before) ==
  IF ~HasBus THEN ok = TRUE /\ UNCHANGED <<amp, unsilenced>>
  ELSE \/ ok = TRUE /\ amp' = "off" /\ unsilenced' = FALSE
       \/ ok = FALSE /\ amp' \in before \cup {"muted", "off"} /\ unsilenced' = TRUE

\* Mutant: a stop that leaves the flag for the caller.
stopKeepsAudio(ok, before) == /\ mReady' = FALSE
                              /\ Silence(ok, before)
                              /\ UNCHANGED mAllowAudio

stop(ok, before) == /\ mAllowAudio' = FALSE
                    /\ mReady' = FALSE
                    /\ Silence(ok, before)

-----------------------------------------------------------------------------
(* initialize(), on behalf of ctx. *)

\* What becomes of the operation that called initialize(). A failed activation
\* is followed by an attempt to bring the previous profile back.
\* Mutant: the candidate stays selected after a failed activation.
FinishWithoutRollback(ok) ==
  IF ctx = "reload" /\ ok THEN pc' = "persist" /\ UNCHANGED <<ctx, mProfile>>
  ELSE pc' = "free" /\ ctx' = "none" /\ UNCHANGED mProfile

Finish(ok) ==
  IF ctx = "reload"
    THEN IF ok THEN pc' = "persist" /\ UNCHANGED <<ctx, mProfile>>
         ELSE pc' = "initialize" /\ ctx' = "rollback" /\ mProfile' = previous
    ELSE pc' = "free" /\ ctx' = "none" /\ UNCHANGED mProfile

StaysMuted == IF mMuted = "unset" THEN mProfile \in StartMuted ELSE mMuted = "yes"

initializeNoProfile ==
  /\ pc = "initialize"
  /\ mProfile = NoProfile
  /\ mAllowAudio' = FALSE /\ mReady' = FALSE
  /\ Finish(FALSE)
  /\ UNCHANGED <<ctl, previous, mClockStarted, mQuiesced, mMuted, mTransport,
                 mClockFailed, persisted, users, wpc, amp, unsilenced, unsaved>>

\* A new transport; init, verifyNodes, health or mute fails and stop() follows.
initializeFails ==
  /\ pc = "initialize"
  /\ mProfile # NoProfile
  /\ mTransport' = TRUE
  /\ mAllowAudio' = FALSE /\ mReady' = FALSE
  /\ \/ amp' = "off" /\ unsilenced' = FALSE
     \/ amp' \in {amp, "muted", "off"} /\ unsilenced' = TRUE
  /\ Finish(FALSE)
  /\ UNCHANGED <<ctl, previous, mClockStarted, mQuiesced, mMuted,
                 mClockFailed, persisted, users, wpc, unsaved>>

\* The four phases succeed, the amplifier is muted; the clock may have failed.
initializeRuns ==
  /\ pc = "initialize"
  /\ mProfile # NoProfile
  /\ mTransport' = TRUE
  /\ mAllowAudio' = FALSE
  /\ IF mClockFailed
       THEN /\ mReady' = FALSE
            /\ \/ amp' = "off" /\ unsilenced' = FALSE
               \/ amp' \in {"muted", "off"} /\ unsilenced' = TRUE
            /\ Finish(FALSE)
       ELSE /\ mReady' = TRUE
            /\ amp' = "muted" /\ unsilenced' = FALSE
            /\ IF StaysMuted THEN Finish(TRUE)
               ELSE pc' = "releaseMute" /\ UNCHANGED <<ctx, mProfile>>
  /\ UNCHANGED <<ctl, previous, mClockStarted, mQuiesced, mMuted,
                 mClockFailed, persisted, users, wpc, unsaved>>

\* The end of initialize() for a profile that does not start muted.
releaseMute ==
  /\ pc = "releaseMute"
  /\ \/ /\ amp' = "live"
        /\ mAllowAudio' = TRUE
        /\ Finish(TRUE)
        /\ UNCHANGED <<mReady, unsilenced>>
     \/ /\ \E ok \in BOOLEAN : stop(ok, {amp, "live"})
        /\ Finish(FALSE)
  /\ UNCHANGED <<ctl, previous, mClockStarted, mQuiesced, mMuted, mTransport,
                 mClockFailed, persisted, users, wpc, unsaved>>

-----------------------------------------------------------------------------
(* Streams. *)

\* load() of a file that cannot be used: "error" leaves the profile alone, with
\* "mismatch" it is stored before its id is found not to be the file's name.
LoadFails == {"error", "mismatch"} \cap LoadResults # {}

\* Whether the first acquire() and a reload initialize the network.
BringsUp == ~mQuiesced

acquire(s) ==
  /\ Free /\ s \notin users /\ wpc # "none"
  /\ users' = users \cup {s}
  /\ mClockStarted' = TRUE
  /\ IF mClockStarted THEN UNCHANGED <<lockVars, mProfile>>
     ELSE \/ "ok" \in LoadResults /\ mProfile' = persisted
             /\ IF BringsUp THEN pc' = "initialize" /\ ctx' = "acquire" /\ UNCHANGED previous
                ELSE UNCHANGED lockVars
          \/ "error" \in LoadResults /\ UNCHANGED <<lockVars, mProfile>>
          \/ "mismatch" \in LoadResults /\ mProfile' = WrongProfile /\ UNCHANGED lockVars
  /\ UNCHANGED <<ctl, mReady, mQuiesced, mMuted, mTransport, mAllowAudio, mClockFailed,
                 persisted, wpc, amp, unsilenced, unsaved>>

release(s) ==
  /\ Free /\ s \in users
  /\ users' = users \ {s}
  /\ UNCHANGED <<lockVars, ctl, state, mAllowAudio, mClockFailed, persisted,
                 wpc, amp, unsilenced, unsaved>>

-----------------------------------------------------------------------------
(* The control thread: one command, then a health check. *)

Command == Free /\ ctl = "poll"

Reply == ctl' = "health" /\ UNCHANGED lockVars

reloadLoadFails ==
  /\ Command /\ LoadFails
  /\ Reply
  /\ UNCHANGED <<state, mAllowAudio, mClockFailed, persisted, users, wpc,
                 amp, unsilenced, unsaved>>

reloadStopFails ==
  /\ Command /\ mClockStarted
  /\ stop(FALSE, {amp})
  /\ Reply
  /\ UNCHANGED <<mProfile, mClockStarted, mQuiesced, mMuted, mTransport, mClockFailed,
                 persisted, users, wpc, unsaved>>

MutedBySelection == "yes"

reload(id) ==
  /\ Command /\ "ok" \in LoadResults
  /\ IF mClockStarted THEN stop(TRUE, {amp})
     ELSE UNCHANGED <<mAllowAudio, mReady, amp, unsilenced>>
  /\ previous' = mProfile
  /\ mProfile' = id /\ mTransport' = FALSE /\ mMuted' = MutedBySelection
  /\ ctx' = "reload"
  /\ pc' = IF mClockStarted /\ BringsUp THEN "initialize" ELSE "persist"
  /\ ctl' = "busy"
  /\ UNCHANGED <<mClockStarted, mQuiesced, mClockFailed, persisted, users,
                 wpc, unsaved>>

\* SetProperty() at the end of a successful reload.
persist ==
  /\ pc = "persist"
  /\ pc' = "free" /\ ctx' = "none"
  /\ \/ persisted' = mProfile /\ unsaved' = FALSE
     \/ UNCHANGED persisted /\ unsaved' = TRUE
  /\ UNCHANGED <<ctl, previous, state, mAllowAudio, mClockFailed, users, wpc,
                 amp, unsilenced>>

mute ==
  /\ Command
  /\ mAllowAudio' = FALSE /\ mMuted' = "yes"
  /\ IF ~mClockStarted \/ ~HasBus THEN UNCHANGED <<amp, unsilenced>>
     ELSE \/ amp' = (IF amp = "off" THEN "off" ELSE "muted") /\ unsilenced' = FALSE
          \/ amp' \in {amp, IF amp = "off" THEN "off" ELSE "muted"} /\ unsilenced' = TRUE
  /\ Reply
  /\ UNCHANGED <<mProfile, mReady, mClockStarted, mQuiesced, mTransport, mClockFailed,
                 persisted, users, wpc, unsaved>>

unmuteStaged ==
  /\ Command /\ ~mQuiesced /\ ~mClockStarted
  /\ mMuted' = "no"
  /\ Reply
  /\ UNCHANGED <<mProfile, mReady, mClockStarted, mQuiesced, mTransport, mAllowAudio,
                 mClockFailed, persisted, users, wpc, amp, unsilenced, unsaved>>

\* Mutant: a network that was never brought up is unmuted.
MayUnmuteAny == ~mQuiesced /\ mClockStarted

MayUnmute == ~mQuiesced /\ mClockStarted /\ mReady

\* The health and unmute phases succeed; the flag is stored afterwards.
unmuteRuns ==
  /\ Command /\ MayUnmute
  /\ ~mClockFailed
  /\ mMuted' = "no" /\ amp' = "live"
  /\ pc' = "allow" /\ ctl' = "busy"
  /\ UNCHANGED <<ctx, previous, mProfile, mReady, mClockStarted, mQuiesced, mTransport,
                 mAllowAudio, mClockFailed, persisted, users, wpc, unsilenced, unsaved>>

allow ==
  /\ pc = "allow"
  /\ pc' = "free"
  /\ mAllowAudio' = TRUE
  /\ UNCHANGED <<ctl, ctx, previous, state, mClockFailed, persisted, users, wpc,
                 amp, unsilenced, unsaved>>

\* The clock has failed, or health or unmute fails: stop() and stay muted.
unmuteFails ==
  /\ Command /\ MayUnmute
  /\ mMuted' = "yes"
  /\ \E ok \in BOOLEAN : stop(ok, {amp, "live"})
  /\ Reply
  /\ UNCHANGED <<mProfile, mClockStarted, mQuiesced, mTransport, mClockFailed, persisted,
                 users, wpc, unsaved>>

quiesce ==
  /\ Command
  /\ mMuted' = "yes" /\ mQuiesced' = TRUE
  /\ IF mClockStarted THEN \E ok \in BOOLEAN : stop(ok, {amp})
     ELSE UNCHANGED <<mAllowAudio, mReady, amp, unsilenced>>
  /\ Reply
  /\ UNCHANGED <<mProfile, mClockStarted, mTransport, mClockFailed, persisted, users,
                 wpc, unsaved>>

\* Three stores, then stop() and initialize() if the clock was started.
resume ==
  /\ Command
  /\ mQuiesced' = FALSE /\ mMuted' = "yes" /\ mClockFailed' = FALSE
  /\ IF mClockStarted THEN pc' = "resumeStop" /\ ctx' = "resume" /\ ctl' = "busy"
     ELSE ctl' = "health" /\ UNCHANGED <<pc, ctx>>
  /\ UNCHANGED <<previous, mProfile, mReady, mClockStarted, mTransport, mAllowAudio,
                 persisted, users, wpc, amp, unsilenced, unsaved>>

resumeStop ==
  /\ pc = "resumeStop"
  /\ \E ok \in BOOLEAN : stop(ok, {amp})
  /\ pc' = "initialize"
  /\ UNCHANGED <<ctl, ctx, previous, mProfile, mClockStarted, mQuiesced, mMuted, mTransport,
                 mClockFailed, persisted, users, wpc, unsaved>>

\* The command's operations are done and the lock is released.
CommandReturns ==
  /\ Free /\ ctl = "busy"
  /\ ctl' = "health"
  /\ UNCHANGED <<lockVars, state, mAllowAudio, mClockFailed, persisted, users, wpc,
                 amp, unsilenced, unsaved>>

\* poll() times out: no request this second. A connection that is refused leads
\* back to poll() without a health check and changes nothing.
PollTimeout ==
  /\ ctl = "poll"
  /\ ctl' = "health"
  /\ UNCHANGED <<lockVars, state, mAllowAudio, mClockFailed, persisted, users, wpc,
                 amp, unsilenced, unsaved>>

\* Mutant: only the health phase is looked at.
ClockIgnored == FALSE

ClockSeen == mClockFailed

checkHealth ==
  /\ Free /\ ctl = "health"
  /\ ctl' = "poll"
  /\ IF mClockStarted /\ mReady /\ ~mQuiesced
       THEN \/ mMuted' = "yes" /\ \E ok \in BOOLEAN : stop(ok, {amp})
            \/ ~ClockSeen /\ UNCHANGED <<mMuted, mAllowAudio, mReady, amp, unsilenced>>
       ELSE UNCHANGED <<mMuted, mAllowAudio, mReady, amp, unsilenced>>
  /\ UNCHANGED <<lockVars, mProfile, mClockStarted, mQuiesced, mTransport, mClockFailed,
                 persisted, users, wpc, unsaved>>

-----------------------------------------------------------------------------
(* The PCM writer, without the lock, and the process. *)

\* A2bPcm::start() runs the writer before the first stream calls acquire().
ClockStarts ==
  /\ wpc = "none"
  /\ wpc' = "run"
  /\ UNCHANGED <<lockVars, ctl, state, mAllowAudio, mClockFailed, persisted, users,
                 amp, unsilenced, unsaved>>

\* clockFailed() stores mClockFailed first ...
clockFailed ==
  /\ wpc = "run"
  /\ wpc' = "fail"
  /\ mClockFailed' = TRUE
  /\ UNCHANGED <<lockVars, ctl, state, mAllowAudio, persisted, users, amp,
                 unsilenced, unsaved>>

\* ... and mAllowAudio second.
clockFailedSilences ==
  /\ wpc = "fail"
  /\ wpc' = "run"
  /\ mAllowAudio' = FALSE
  /\ UNCHANGED <<lockVars, ctl, state, mClockFailed, persisted, users, amp,
                 unsilenced, unsaved>>

\* The HAL process dies and init starts it again: only the property and the
\* amplifier keep their state.
Restart ==
  /\ pc' = "free" /\ ctx' = "none" /\ ctl' = "poll" /\ previous' = NoProfile
  /\ mProfile' = NoProfile /\ mReady' = FALSE /\ mClockStarted' = FALSE
  /\ mQuiesced' = FALSE /\ mMuted' = "unset" /\ mTransport' = FALSE
  /\ mAllowAudio' = FALSE /\ mClockFailed' = FALSE
  /\ users' = {} /\ wpc' = "none"
  /\ unsilenced' = TRUE /\ unsaved' = FALSE
  /\ UNCHANGED <<persisted, amp>>

-----------------------------------------------------------------------------

Initialize == initializeNoProfile \/ initializeFails \/ initializeRuns \/ releaseMute

\* What the holder of the lock does until it releases it.
Locked == Initialize \/ persist \/ allow \/ resumeStop

Request == \/ reloadLoadFails \/ reloadStopFails \/ \E id \in Profiles : reload(id)
           \/ mute \/ unmuteStaged \/ unmuteRuns \/ unmuteFails
           \/ quiesce \/ resume

Control == CommandReturns \/ PollTimeout \/ checkHealth

Next == \/ Locked \/ Request \/ Control
        \/ \E s \in Streams : acquire(s) \/ release(s)
        \/ ClockStarts \/ clockFailed \/ clockFailedSilences
        \/ Restart

Spec == Init /\ [][Next]_vars

\* A bus operation returns, the lock is released and then granted to a thread
\* that keeps asking for it, and refused connections pause: the control thread
\* comes back to its health check.
Fairness == WF_vars(Locked) /\ SF_vars(CommandReturns) /\ SF_vars(checkHealth)
            /\ WF_vars(PollTimeout)

FairSpec == Spec /\ Fairness

-----------------------------------------------------------------------------
(* Properties. *)

AnyProfile == Profiles \cup {NoProfile, WrongProfile}

\* The types of the variables, and which operation holds the lock at each pc.
TypeOK ==
  /\ pc \in {"free", "initialize", "releaseMute", "persist", "allow", "resumeStop"}
  /\ ctx \in {"none", "acquire", "reload", "rollback", "resume"}
  /\ ctl \in {"poll", "busy", "health"}
  /\ previous \in AnyProfile /\ mProfile \in AnyProfile /\ persisted \in AnyProfile
  /\ mReady \in BOOLEAN /\ mClockStarted \in BOOLEAN /\ mQuiesced \in BOOLEAN
  /\ mMuted \in {"unset", "yes", "no"} /\ mTransport \in BOOLEAN
  /\ mAllowAudio \in BOOLEAN /\ mClockFailed \in BOOLEAN
  /\ users \subseteq Streams
  /\ wpc \in {"none", "run", "fail"}
  /\ amp \in {"off", "muted", "live"}
  /\ unsilenced \in BOOLEAN /\ unsaved \in BOOLEAN
  /\ pc = "free" => ctx = "none"
  /\ pc \in {"initialize", "releaseMute"} => ctx # "none"
  /\ ctl = "busy" \/ pc = "free" \/ ctx = "acquire"

\* Whenever the lock is free, audio is allowed only on a network that was brought
\* up and verified, is not quiesced and was not muted, with the amplifier live.
AudibleOnlyWhenReady ==
  Free /\ mAllowAudio =>
    mReady /\ mClockStarted /\ ~mQuiesced /\ mMuted # "yes" /\ amp = "live"

\* An amplifier that plays although the user muted it, or although the network is
\* not ready, does so only because the bus refused the last attempt to silence it.
SilencedAmplifier ==
  Free /\ amp = "live" /\ (mMuted = "yes" \/ ~mReady) => unsilenced

\* While quiesced, selecting a profile and starting streams bring nothing up
\* (README.md: "While quiesced, selection is also staged until resume").
QuiescedStaysDown == Free /\ mQuiesced => ~mReady

\* The active profile is the one a restarted HAL would load, unless the property
\* could not be written: a failed selection is rolled back in both places.
SelectionSurvivesRestart == Free /\ mReady => mProfile = persisted \/ unsaved

\* A selection always returns muted, also when it is only staged.
ReloadReturnsMuted == [][persist => mMuted' = "yes" /\ ~mAllowAudio']_vars

\* A selection that could not be activated ends with the previous profile, still
\* muted.
FailedReloadRollsBack ==
  [][ctl = "busy" /\ ctx \in {"reload", "rollback"} /\ pc # "persist" /\ pc' = "free"
       /\ ctl' = "busy"
       => mProfile' = previous /\ mMuted' = "yes" /\ ~mAllowAudio']_vars

\* A selection never makes the network louder: nothing comes up while it is quiesced,
\* a success and a failure both return muted, the latter with the previous profile.
SelectionIsQuiet == []QuiescedStaysDown /\ ReloadReturnsMuted /\ FailedReloadRollsBack

\* A failed PCM write reaches the amplifier: the network does not stay ready.
\* The writer itself only stores a flag, the control thread acts on it.
ClockFailureStops == mClockFailed /\ mReady ~> ~mReady

===============================================================================
