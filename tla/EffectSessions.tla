----------------------------- MODULE EffectSessions -----------------------------
(* The effect service's only binder thread creates effects of the bundle, opens   *)
(* them in a session, and closes and destroys them. The bundle keeps the contexts *)
(* of a session in one list; the factory keeps each effect until it is destroyed. *)
EXTENDS FiniteSets, Sequences, SequencesExt, Functions

CONSTANTS
  Effects,       \* instances
  TypeOf,        \* the bundle type of each
  Sessions, NoSession,
  MaxSessions,   \* MAX_BUNDLE_SESSIONS
  Moves          \* whether a client may change the session of an open effect
ASSUME EffectsAssumption ==
  /\ TypeOf \in [Effects -> {"EQUALIZER", "BASS_BOOST", "VIRTUALIZER", "VOLUME"}]
  /\ NoSession \notin Sessions

VARIABLES
  esMap,       \* mEffectMap of the factory
  esState,     \* mState of each effect
  esSession,   \* the session in the context of each effect, NoSession without one
  esInstance,  \* whether the context has its library instance
  esLists,     \* mSessionMap: the effects whose contexts are in a session's list
  esKeys       \* the sessions that have a list
esVars == <<esMap, esState, esSession, esInstance, esLists, esKeys>>

EsInit ==
  /\ esMap = {} /\ esState = [e \in Effects |-> "INIT"]
  /\ esSession = [e \in Effects |-> NoSession] /\ esInstance = [e \in Effects |-> FALSE]
  /\ esLists = [s \in Sessions |-> <<>>] /\ esKeys = {}

----------------------------------------------------------------------------------
createEffect(e) ==
  /\ e \notin esMap /\ esSession[e] = NoSession /\ esMap' = esMap \union {e}
  /\ UNCHANGED <<esState, esSession, esInstance, esLists, esKeys>>

InList(type, s) == \E i \in DOMAIN esLists[s] : TypeOf[esLists[s][i]] = type
\* createSession(). Mutant: a type that a session has is created again.
AnyType(e, s) == s \in esKeys \/ Cardinality(esKeys) < MaxSessions
SessionTakes(e, s) ==
  /\ s \in esKeys \/ Cardinality(esKeys) < MaxSessions
  /\ ~InList(TypeOf[e], s)
\* open() of an effect without a context. The library may refuse it, which leaves the
\* list; the specific parameter may be refused after the context is kept.
openEffect(e, s, inits, sets) ==
  /\ e \in esMap /\ esState[e] = "INIT" /\ esSession[e] = NoSession /\ SessionTakes(e, s)
  /\ esKeys' = esKeys \union {s}
  /\ IF inits
     THEN /\ esLists' = [esLists EXCEPT ![s] = Append(@, e)] /\ esSession' = [esSession EXCEPT ![e] = s]
          /\ esInstance' = [esInstance EXCEPT ![e] = TRUE]
          /\ esState' = IF sets THEN [esState EXCEPT ![e] = "IDLE"] ELSE esState
     ELSE UNCHANGED <<esLists, esSession, esInstance, esState>>
  /\ UNCHANGED esMap
\* open() again after that takes up the context, whatever its session is.
openAgain(e, sets) ==
  /\ e \in esMap /\ esState[e] = "INIT" /\ esSession[e] # NoSession
  /\ esState' = IF sets THEN [esState EXCEPT ![e] = "IDLE"] ELSE esState
  /\ UNCHANGED <<esMap, esSession, esInstance, esLists, esKeys>>
\* setCommon() stores the parameter and makes the library instance when there is none.
setSessionCommon(e, s, inits) ==
  /\ e \in esMap /\ esSession[e] # NoSession /\ s \in IF Moves THEN Sessions ELSE {esSession[e]}
  /\ esSession' = [esSession EXCEPT ![e] = s]
  /\ esInstance' = [esInstance EXCEPT ![e] = @ \/ inits]
  /\ UNCHANGED <<esMap, esState, esLists, esKeys>>

\* releaseSession(): the first context of the type in the list of the session.
FirstOf(type, s) == SelectInSeq(esLists[s], LAMBDA e : TypeOf[e] = type)
releaseSession(e, s) ==
  LET i == FirstOf(TypeOf[e], s)
      found == s \in esKeys /\ InList(TypeOf[e], s)
      left == RemoveAt(esLists[s], i)
  IN /\ esLists' = IF found THEN [esLists EXCEPT ![s] = left] ELSE esLists
     /\ esInstance' = IF found THEN [esInstance EXCEPT ![esLists[s][i]] = FALSE] ELSE esInstance
     /\ esKeys' = IF found /\ left = <<>> THEN esKeys \ {s} ELSE esKeys
Release(e) ==
  IF esState[e] = "INIT" THEN UNCHANGED <<esState, esSession, esInstance, esLists, esKeys>>
  ELSE /\ esState' = [esState EXCEPT ![e] = "INIT"] /\ esSession' = [esSession EXCEPT ![e] = NoSession]
       /\ releaseSession(e, esSession[e])
closeEffect(e) == e \in esMap /\ Release(e) /\ UNCHANGED esMap
\* destroyEffect() closes an open effect. One that kept a context after a refused
\* open() is not closed; its object goes and the list keeps the context.
destroyEffect(e) == e \in esMap /\ esMap' = esMap \ {e} /\ Release(e)

EsNext ==
  \E e \in Effects :
    \/ createEffect(e) \/ closeEffect(e) \/ destroyEffect(e)
    \/ \E sets \in BOOLEAN : openAgain(e, sets)
    \/ \E s \in Sessions, inits, sets \in BOOLEAN : openEffect(e, s, inits, sets) \/ setSessionCommon(e, s, inits)
EsSpec == EsInit /\ [][EsNext]_esVars

----------------------------------------------------------------------------------
(* An effect that is open has its library instance: no close, and no open() that   *)
(* failed half-way, of another effect takes it away.                               *)
OpenEffectHasInstance == \A e \in Effects : esState[e] = "IDLE" => esInstance[e]

================================================================================
