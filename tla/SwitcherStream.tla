------------------------------ MODULE SwitcherStream ------------------------------
(* StreamSwitcher: the stream of a client is a stub until devices are connected, *)
(* then whatever the extending class makes for them. Two inner streams cannot be *)
(* open for one context, so the current one is closed before the next is made;   *)
(* what the client asks of the stub is kept for the stream that follows.         *)
EXTENDS Naturals, Sequences
CONSTANTS
  SwitcherDevices,  \* device sets, {} among them
  StreamEffects,
  LastParameter     \* bound: parameters ever set

VARIABLES
  swInner,    \* mStream
  swIsStub,   \* mIsStubStream
  swMissed,   \* mMissedParameters
  swEffects,  \* mEffects
  swLast,     \* the last parameter that the client set with success
  swDied      \* a null mStream was used
swVars == <<swInner, swIsStub, swMissed, swEffects, swLast, swDied>>

\* An inner stream, with the last parameter and the effects it was given.
Inner(kind, devices) ==
  [kind |-> kind, devices |-> devices, state |-> "STANDBY", parameter |-> 0, effects |-> {}]
NoInner == Inner("none", {})
Exists == swInner.kind # "none"

SwitcherTypeOK ==
  /\ swInner \in [kind : {"none", "stub", "real"}, devices : SwitcherDevices,
                  state : {"STANDBY", "IDLE", "CLOSED"}, parameter : 0..LastParameter,
                  effects : SUBSET StreamEffects]
  /\ swIsStub \in BOOLEAN /\ swMissed \in Seq(1..LastParameter)
  /\ swEffects \subseteq StreamEffects /\ swLast \in 0..LastParameter /\ swDied \in BOOLEAN

SwitcherInit ==
  /\ swInner = Inner("stub", {}) /\ swIsStub = TRUE /\ swMissed = <<>> /\ swEffects = {}
  /\ swLast = 0 /\ swDied = FALSE

----------------------------------------------------------------------------------
(* The requests of the client *)
setVendorParameters(ok) ==
  /\ Exists /\ swLast < LastParameter
  /\ IF swIsStub
     THEN swMissed' = Append(swMissed, swLast + 1) /\ swLast' = swLast + 1 /\ UNCHANGED swInner
     ELSE /\ ok /\ swInner' = [swInner EXCEPT !.parameter = swLast + 1]
          /\ swLast' = swLast + 1 /\ UNCHANGED swMissed
  /\ UNCHANGED <<swIsStub, swEffects, swDied>>
addEffect(e, ok) ==
  /\ Exists /\ (swIsStub \/ ok)
  /\ swEffects' = swEffects \union {e}
  /\ swInner' = IF swIsStub THEN swInner ELSE [swInner EXCEPT !.effects = @ \union {e}]
  /\ UNCHANGED <<swIsStub, swMissed, swLast, swDied>>
removeEffect(e) ==
  /\ Exists /\ swEffects' = swEffects \ {e}
  /\ swInner' = IF swIsStub THEN swInner ELSE [swInner EXCEPT !.effects = @ \ {e}]
  /\ UNCHANGED <<swIsStub, swMissed, swLast, swDied>>
\* A command of the stream's queue takes it out of standby or back.
Command(state) ==
  /\ Exists /\ swInner.state # "CLOSED" /\ swInner' = [swInner EXCEPT !.state = state]
  /\ UNCHANGED <<swIsStub, swMissed, swEffects, swLast, swDied>>

\* closeCurrentStream(): a stream that is not in standby is closed and kept.
CloseCurrent(validate) ==
  IF swInner.state # "CLOSED" /\ (swInner.state = "STANDBY" \/ ~validate)
  THEN NoInner ELSE [swInner EXCEPT !.state = "CLOSED"]
CloseSwitcher ==
  /\ Exists /\ swInner' = CloseCurrent(FALSE)
  /\ UNCHANGED <<swIsStub, swMissed, swEffects, swLast, swDied>>

----------------------------------------------------------------------------------
(* setConnectedDevices() *)
LastMissed == IF swMissed = <<>> THEN 0 ELSE swMissed[Len(swMissed)]
\* Mutant: the stub in the place of a failed stream counts as the initial one.
AlwaysStub == TRUE
FailedIsStub == FALSE

UseCurrent(devices) ==
  /\ swInner' = [swInner EXCEPT !.devices = devices] /\ swIsStub' = FALSE
  /\ UNCHANGED <<swMissed, swEffects, swLast, swDied>>
NotClosed ==
  /\ CloseCurrent(TRUE) # NoInner /\ swInner' = CloseCurrent(TRUE)
  /\ UNCHANGED <<swIsStub, swMissed, swEffects, swLast, swDied>>
CreateNew(devices) ==
  /\ CloseCurrent(TRUE) = NoInner /\ swIsStub' = FALSE /\ swMissed' = <<>>
  /\ swInner' = [Inner("real", devices) EXCEPT !.parameter = LastMissed, !.effects = swEffects]
  /\ UNCHANGED <<swEffects, swLast, swDied>>
CreateFails(devices) ==
  /\ CloseCurrent(TRUE) = NoInner
  /\ swInner' = Inner("stub", devices) /\ swIsStub' = FailedIsStub
  /\ UNCHANGED <<swMissed, swEffects, swLast, swDied>>
ToStub(devices) ==
  /\ devices = {} /\ CloseCurrent(TRUE) = NoInner
  /\ swInner' = Inner("stub", {}) /\ swIsStub' = TRUE
  /\ UNCHANGED <<swMissed, swEffects, swLast, swDied>>
\* The module tells every stream that its client still holds, the closed ones too.
NullStream ==
  /\ ~Exists /\ swDied' = TRUE
  /\ UNCHANGED <<swInner, swIsStub, swMissed, swEffects, swLast>>
ConnectDevices(devices) ==
  \/ NullStream
  \/ /\ Exists /\ swInner.devices # devices
     /\ \/ UseCurrent(devices) \/ NotClosed \/ CreateNew(devices)
        \/ CreateFails(devices) \/ ToStub(devices)

SwitcherNext ==
  /\ ~swDied
  /\ \/ \E ok \in BOOLEAN : setVendorParameters(ok) \/ \E e \in StreamEffects : addEffect(e, ok)
     \/ \E e \in StreamEffects : removeEffect(e)
     \/ \E state \in {"STANDBY", "IDLE"} : Command(state)
     \/ CloseSwitcher
     \/ \E devices \in SwitcherDevices : ConnectDevices(devices)
SwitcherSpec == SwitcherInit /\ [][SwitcherNext]_swVars

(* "The invariant of this state is that there are no connected devices", kept    *)
(* also where a real stream could not be made; and a real stream processes with  *)
(* the effects that the client has added and not removed, whichever inner stream *)
(* they were added to.                                                           *)
SwitcherKeepsRequests ==
  /\ swIsStub => swInner.devices = {}
  /\ swInner.kind = "real" => swInner.effects = swEffects
==================================================================================
