------------------------------ MODULE Audio_proofs ------------------------------
(* The audio service, for every value of the constants: each part has its own     *)
(* inductive invariant, and a behaviour of the service is one of each part, in    *)
(* which the other parts only stutter.                                            *)
EXTENDS MCAudio, FiniteSetTheorems, SequenceTheorems, WellFoundedInduction, TLAPS

----------------------------------------------------------------------------------
(* The sessions of effects. releaseSession() takes the first context of the        *)
(* effect's type out of a list, not the context of the effect. That it is the same *)
(* one rests on the lists: an open effect is in the list of its session, and no    *)
(* other of its type is.                                                          *)
SessionTypeOK ==
  /\ esState \in [Effects -> {"INIT", "IDLE"}] /\ esInstance \in [Effects -> BOOLEAN]
  /\ esSession \in [Effects -> Sessions \union {NoSession}]
  /\ esLists \in [Sessions -> Seq(Effects)] /\ esKeys \subseteq Sessions

\* What is in a list is there for its session, with no other of its type.
Home(lists, session, keys) ==
  \A s \in Sessions : \A i \in 1..Len(lists[s]) : session[lists[s][i]] = s /\ s \in keys
OneOfType(lists) ==
  \A s \in Sessions : \A i, j \in 1..Len(lists[s]) : TypeOf[lists[s][i]] = TypeOf[lists[s][j]] => i = j
Listed(e) == \E i \in 1..Len(esLists[esSession[e]]) : esLists[esSession[e]][i] = e
ContextIsListed == \A e \in Effects : esSession[e] # NoSession => Listed(e) /\ esInstance[e]
OpenHasContext == \A e \in Effects : esState[e] = "IDLE" => esSession[e] # NoSession

SessionsInv == /\ SessionTypeOK /\ Home(esLists, esSession, esKeys) /\ OneOfType(esLists)
        /\ ContextIsListed /\ OpenHasContext

----------------------------------------------------------------------------------
(* What the list operators return *)
LEMMA Removed ==
  ASSUME NEW S, NEW list \in Seq(S), NEW i \in 1..Len(list)
  PROVE  /\ RemoveAt(list, i) \in Seq(S) /\ Len(RemoveAt(list, i)) = Len(list) - 1
         /\ \A k \in 1..(Len(list) - 1) :
              RemoveAt(list, i)[k] = IF k < i THEN list[k] ELSE list[k + 1]
<1> DEFINE front == SubSeq(list, 1, i - 1)
           back == SubSeq(list, i + 1, Len(list))
<1>1. /\ front \in Seq(S) /\ Len(front) = i - 1
      /\ \A k \in 1..(i - 1) : front[k] = list[k]
  BY SubSeqProperties
<1>2. /\ back \in Seq(S) /\ Len(back) = Len(list) - i
      /\ \A k \in 1..(Len(list) - i) : back[k] = list[i + k]
  BY SubSeqProperties
<1> HIDE DEF front, back
<1>3. /\ front \o back \in Seq(S) /\ Len(front \o back) = Len(front) + Len(back)
      /\ \A k \in 1..(Len(front) + Len(back)) :
           (front \o back)[k] = IF k <= Len(front) THEN front[k] ELSE back[k - Len(front)]
  BY <1>1, <1>2, ConcatProperties
<1>4. RemoveAt(list, i) = front \o back
  BY DEF RemoveAt, front, back
<1>5. ASSUME NEW k \in 1..(Len(list) - 1)
      PROVE  (front \o back)[k] = IF k < i THEN list[k] ELSE list[k + 1]
  <2>1. CASE k < i
    BY <2>1, <1>1, <1>2, <1>3
  <2>2. CASE ~(k < i)
    <3>1. (front \o back)[k] = back[k - (i - 1)] /\ k - (i - 1) \in 1..(Len(list) - i)
      BY <2>2, <1>1, <1>2, <1>3
    <3>2. i + (k - (i - 1)) = k + 1
      BY <2>2
    <3> QED BY <2>2, <3>1, <3>2, <1>2
  <2> QED BY <2>1, <2>2
<1> QED BY <1>1, <1>2, <1>3, <1>4, <1>5

LEMMA Appended ==
  ASSUME NEW S, NEW list \in Seq(S), NEW x \in S
  PROVE  /\ Append(list, x) \in Seq(S) /\ Len(Append(list, x)) = Len(list) + 1
         /\ \A k \in 1..Len(list) : Append(list, x)[k] = list[k]
         /\ Append(list, x)[Len(list) + 1] = x
BY AppendProperties

LEMMA Selected ==
  ASSUME SessionsInv, NEW s \in Sessions, NEW i \in 1..Len(esLists[s])
  PROVE  FirstOf(TypeOf[esLists[s][i]], s) = i
<1> DEFINE type == TypeOf[esLists[s][i]]
           found == {k \in 1..Len(esLists[s]) : TypeOf[esLists[s][k]] = type}
<1>1. found = {i}
  BY DEF SessionsInv, OneOfType
<1>2. i \in Int /\ i <= i
  BY DEF SessionsInv, SessionTypeOK
<1>3. Min({i}) = i
  BY <1>2 DEF Min
<1>4. FirstOf(type, s) = IF found # {} THEN Min(found) ELSE 0
  BY DEF FirstOf, SelectInSeq
<1> QED BY <1>1, <1>3, <1>4

----------------------------------------------------------------------------------
(* Each operation keeps the invariant. *)
\* releaseSession() of an open effect takes its own context out and no other.
LEMMA ReleaseKeeps == ASSUME SessionsInv, NEW e \in Effects, Release(e) PROVE SessionsInv'
<1>1. CASE esState[e] = "INIT"
  BY <1>1 DEF Release, SessionsInv, SessionTypeOK, Home, OneOfType, ContextIsListed, Listed, OpenHasContext
<1>2. CASE esState[e] # "INIT"
  <2> DEFINE s == esSession[e]
             list == esLists[s]
  <2>1. esState[e] = "IDLE" /\ s \in Sessions /\ list \in Seq(Effects)
    BY <1>2 DEF SessionsInv, SessionTypeOK, OpenHasContext
  <2>2. PICK i \in 1..Len(list) : list[i] = e
    BY <2>1, EffectsAssumption DEF SessionsInv, ContextIsListed, Listed
  <2>3. InList(TypeOf[e], s) /\ s \in esKeys
    BY <2>1, <2>2 DEF SessionsInv, InList, Home
  <2>4. FirstOf(TypeOf[e], s) = i
    BY <2>1, <2>2, Selected
  <2> DEFINE left == RemoveAt(list, i)
  <2>5. /\ esLists' = [esLists EXCEPT ![s] = left]
        /\ esInstance' = [esInstance EXCEPT ![e] = FALSE]
        /\ esKeys' = IF left = <<>> THEN esKeys \ {s} ELSE esKeys
        /\ esState' = [esState EXCEPT ![e] = "INIT"]
        /\ esSession' = [esSession EXCEPT ![e] = NoSession]
    BY <1>2, <2>2, <2>3, <2>4 DEF Release, releaseSession
  <2>6. /\ left \in Seq(Effects) /\ Len(left) = Len(list) - 1
        /\ \A k \in 1..(Len(list) - 1) : left[k] = IF k < i THEN list[k] ELSE list[k + 1]
    BY <2>1, Removed
  <2>7. SessionTypeOK'
    BY <2>5, <2>6 DEF SessionsInv, SessionTypeOK
  <2>8. \A k \in 1..Len(left) : left[k] # e /\ esSession[left[k]] = s
    <3> SUFFICES ASSUME NEW k \in 1..Len(left) PROVE left[k] # e /\ esSession[left[k]] = s
      OBVIOUS
    <3>1. PICK l \in 1..Len(list) : l # i /\ left[k] = list[l]
      <4>1. CASE k < i
        BY <4>1, <2>1, <2>6
      <4>2. CASE ~(k < i)
        <5>1. k + 1 \in 1..Len(list) /\ k + 1 # i
          BY <4>2, <2>1, <2>6
        <5> QED BY <4>2, <5>1, <2>1, <2>6
      <4> QED BY <4>1, <4>2
    <3> QED BY <3>1, <2>1, <2>2 DEF SessionsInv, OneOfType, Home
  <2>9. Home(esLists, esSession, esKeys)'
    <3> SUFFICES ASSUME NEW t \in Sessions, NEW k \in 1..Len(esLists'[t])
                 PROVE  esSession'[esLists'[t][k]] = t /\ t \in esKeys'
      BY DEF Home
    <3>1. CASE t = s
      <4>1. esLists'[t] = left /\ left # <<>>
        BY <3>1, <2>1, <2>5, <2>6 DEF SessionsInv, SessionTypeOK
      <4> QED BY <4>1, <3>1, <2>3, <2>5, <2>6, <2>8 DEF SessionsInv, SessionTypeOK
    <3>2. CASE t # s
      <4>1. esLists'[t] = esLists[t]
        BY <3>2, <2>5 DEF SessionsInv, SessionTypeOK
      <4>2. esSession[esLists[t][k]] = t /\ t \in esKeys /\ esLists[t][k] \in Effects
        BY <4>1 DEF SessionsInv, Home, SessionTypeOK
      <4> QED BY <4>1, <4>2, <3>2, <2>5 DEF SessionsInv, SessionTypeOK
    <3> QED BY <3>1, <3>2
  <2>10. OneOfType(esLists)'
    <3> SUFFICES ASSUME NEW t \in Sessions, NEW k \in 1..Len(esLists'[t]), NEW l \in 1..Len(esLists'[t]),
                        TypeOf[esLists'[t][k]] = TypeOf[esLists'[t][l]]
                 PROVE  k = l
      BY DEF OneOfType
    <3>1. CASE t # s
      BY <3>1, <2>5 DEF SessionsInv, SessionTypeOK, OneOfType
    <3>2. CASE t = s
      <4>1. esLists'[t] = left
        BY <3>2, <2>1, <2>5 DEF SessionsInv, SessionTypeOK
      <4> DEFINE at(n) == IF n < i THEN n ELSE n + 1
      <4>2. at(k) \in 1..Len(list) /\ at(l) \in 1..Len(list) /\ left[k] = list[at(k)]
            /\ left[l] = list[at(l)]
        BY <4>1, <2>1, <2>6
      <4>3. at(k) = at(l)
        BY <4>1, <4>2, <2>1 DEF SessionsInv, OneOfType
      <4> QED BY <4>1, <4>3, <2>6, <2>1
    <3> QED BY <3>1, <3>2
  <2>11. ContextIsListed' /\ OpenHasContext'
    <3>0. OpenHasContext'
      BY <2>5 DEF SessionsInv, SessionTypeOK, OpenHasContext
    <3> SUFFICES ASSUME NEW f \in Effects, esSession'[f] # NoSession
                 PROVE  Listed(f)' /\ esInstance'[f]
      BY <3>0 DEF ContextIsListed
    <3>1. f # e /\ esSession'[f] = esSession[f] /\ esInstance'[f] = esInstance[f]
      BY <2>5 DEF SessionsInv, SessionTypeOK
    <3>2. esSession[f] \in Sessions /\ esInstance[f]
      BY <3>1 DEF SessionsInv, SessionTypeOK, ContextIsListed
    <3>3. PICK k \in 1..Len(esLists[esSession[f]]) : esLists[esSession[f]][k] = f
      BY <3>1 DEF SessionsInv, ContextIsListed, Listed
    <3>4. CASE esSession[f] # s
      BY <3>1, <3>2, <3>3, <3>4, <2>5 DEF SessionsInv, SessionTypeOK, Listed
    <3>5. CASE esSession[f] = s
      <4>1. k # i /\ list[k] = f /\ k \in 1..Len(list)
        BY <3>1, <3>3, <3>5, <2>2
      <4>2. esLists'[esSession'[f]] = left
        BY <3>1, <3>5, <2>1, <2>5 DEF SessionsInv, SessionTypeOK
      <4>3. \E n \in 1..Len(left) : left[n] = f
        <5>1. CASE k < i
          <6>1. k \in 1..Len(left) /\ left[k] = f
            BY <5>1, <4>1, <2>1, <2>6
          <6> QED BY <6>1
        <5>2. CASE ~(k < i)
          <6>1. k - 1 \in 1..Len(left) /\ left[k - 1] = f
            BY <5>2, <4>1, <2>1, <2>6
          <6> QED BY <6>1
        <5> QED BY <5>1, <5>2
      <4> QED BY <4>2, <4>3, <3>1, <3>2 DEF Listed
    <3> QED BY <3>4, <3>5
  <2> QED BY <2>7, <2>9, <2>10, <2>11 DEF SessionsInv
<1> QED BY <1>1, <1>2
LEMMA CreateKeeps == ASSUME SessionsInv, NEW e \in Effects, createEffect(e) PROVE SessionsInv'
BY DEF SessionsInv, SessionTypeOK, Home, OneOfType, ContextIsListed, Listed, OpenHasContext, createEffect

LEMMA OpenAgainKeeps ==
  ASSUME SessionsInv, NEW e \in Effects, NEW sets \in BOOLEAN, openAgain(e, sets)
  PROVE  SessionsInv'
BY DEF SessionsInv, SessionTypeOK, Home, OneOfType, ContextIsListed, Listed, OpenHasContext, openAgain

LEMMA CommonKeeps ==
  ASSUME SessionsInv, ~Moves, NEW e \in Effects, NEW s \in Sessions, NEW inits \in BOOLEAN,
         setSessionCommon(e, s, inits)
  PROVE  SessionsInv'
<1>1. esSession' = esSession /\ esInstance' = esInstance
  BY DEF SessionsInv, SessionTypeOK, ContextIsListed, setSessionCommon
<1> QED BY <1>1 DEF SessionsInv, SessionTypeOK, Home, OneOfType, ContextIsListed, Listed, OpenHasContext, setSessionCommon

LEMMA OpenKeeps ==
  ASSUME SessionsInv, NEW e \in Effects, NEW s \in Sessions, NEW inits \in BOOLEAN, NEW sets \in BOOLEAN,
         openEffect(e, s, inits, sets)
  PROVE  SessionsInv'
<1>1. CASE ~inits
  <2>1. /\ UNCHANGED <<esLists, esSession, esInstance, esState>>
        /\ esKeys \subseteq esKeys' /\ esKeys' \subseteq Sessions
    BY <1>1 DEF SessionsInv, SessionTypeOK, openEffect
  <2> QED BY <2>1 DEF SessionsInv, SessionTypeOK, Home, OneOfType, ContextIsListed, Listed, OpenHasContext
<1>2. CASE inits
  <2> DEFINE list == esLists[s]
  <2>1. /\ list \in Seq(Effects) /\ esSession[e] = NoSession /\ s # NoSession
        /\ \A i \in 1..Len(list) : TypeOf[list[i]] # TypeOf[e]
    BY EffectsAssumption DEF SessionsInv, SessionTypeOK, openEffect, SessionTakes, InList
  <2>2. /\ esLists' = [esLists EXCEPT ![s] = Append(list, e)]
        /\ esSession' = [esSession EXCEPT ![e] = s]
        /\ esInstance' = [esInstance EXCEPT ![e] = TRUE]
        /\ esState' \in {esState, [esState EXCEPT ![e] = "IDLE"]}
        /\ esKeys' = esKeys \union {s}
    BY <1>2 DEF openEffect
  <2> DEFINE longer == Append(list, e)
  <2>3. /\ longer \in Seq(Effects) /\ Len(longer) = Len(list) + 1
        /\ \A k \in 1..Len(list) : longer[k] = list[k]
        /\ longer[Len(list) + 1] = e
    BY <2>1, Appended
  <2> HIDE DEF longer
  <2>4. SessionTypeOK'
    BY <2>2, <2>3 DEF SessionsInv, SessionTypeOK, longer
  <2>5. \A t \in Sessions : esLists'[t] = IF t = s THEN longer ELSE esLists[t]
    BY <2>2 DEF SessionsInv, SessionTypeOK, longer
  <2>6. Len(list) \in Nat
    BY <2>1
  \* The effect was in no list: it had no session.
  <2>7. \A t \in Sessions : \A k \in 1..Len(esLists[t]) :
          esLists[t][k] # e /\ esLists[t][k] \in Effects
    BY <2>1, EffectsAssumption DEF SessionsInv, SessionTypeOK, Home
  <2>8. Home(esLists, esSession, esKeys)'
    <3> SUFFICES ASSUME NEW t \in Sessions, NEW k \in 1..Len(esLists'[t])
                 PROVE  esSession'[esLists'[t][k]] = t /\ t \in esKeys'
      BY DEF Home
    <3>1. CASE t = s /\ k = Len(list) + 1
      BY <3>1, <2>2, <2>3, <2>5 DEF SessionsInv, SessionTypeOK
    <3>2. CASE t # s \/ k # Len(list) + 1
      <4>1. k \in 1..Len(esLists[t]) /\ esLists'[t][k] = esLists[t][k]
        BY <3>2, <2>3, <2>5, <2>6
      <4> QED BY <4>1, <2>2, <2>7 DEF SessionsInv, SessionTypeOK, Home
    <3> QED BY <3>1, <3>2
  <2>9. OneOfType(esLists)'
    <3> SUFFICES ASSUME NEW t \in Sessions, NEW k \in 1..Len(esLists'[t]), NEW l \in 1..Len(esLists'[t]),
                        TypeOf[esLists'[t][k]] = TypeOf[esLists'[t][l]]
                 PROVE  k = l
      BY DEF OneOfType
    <3>1. CASE t # s
      BY <3>1, <2>5 DEF SessionsInv, OneOfType
    <3>2. CASE t = s /\ k \in 1..Len(list) /\ l \in 1..Len(list)
      BY SMTT(30), <3>2, <2>3, <2>5 DEF SessionsInv, OneOfType
    <3>3. CASE t = s /\ (k \notin 1..Len(list) \/ l \notin 1..Len(list))
      <4>1. esLists'[t] = longer
        BY <3>3, <2>5
      <4>2. k \in 1..(Len(list) + 1) /\ l \in 1..(Len(list) + 1)
        BY <4>1, <2>3
      <4>3. k = Len(list) + 1 \/ l = Len(list) + 1
        BY <3>3, <4>2, <2>6
      <4>4. ASSUME NEW n \in 1..(Len(list) + 1), TypeOf[longer[n]] = TypeOf[e] PROVE n = Len(list) + 1
        BY <4>4, <2>1, <2>3, <2>6
      <4> QED BY <4>1, <4>2, <4>3, <4>4, <2>3
    <3> QED BY <3>1, <3>2, <3>3
  <2>10. OpenHasContext'
    BY <2>1, <2>2 DEF SessionsInv, SessionTypeOK, OpenHasContext
  <2>11. ContextIsListed'
    <3> SUFFICES ASSUME NEW f \in Effects, esSession'[f] # NoSession
                 PROVE  Listed(f)' /\ esInstance'[f]
      BY DEF ContextIsListed
    <3>1. CASE f = e
      <4>1. esSession'[f] = s /\ esInstance'[f]
        BY <3>1, <2>2 DEF SessionsInv, SessionTypeOK
      <4>2. Len(list) + 1 \in 1..Len(esLists'[s]) /\ esLists'[s][Len(list) + 1] = f
        BY <3>1, <2>3, <2>5, <2>6
      <4> QED BY <4>1, <4>2 DEF Listed
    <3>2. CASE f # e
      <4>1. esSession'[f] = esSession[f] /\ esInstance'[f] = esInstance[f] /\ esSession[f] \in Sessions
        BY <3>2, <2>2 DEF SessionsInv, SessionTypeOK
      <4>2. esInstance[f] /\ Listed(f)
        BY <4>1 DEF SessionsInv, ContextIsListed
      <4>3. PICK k \in 1..Len(esLists[esSession[f]]) : esLists[esSession[f]][k] = f
        BY <4>2 DEF Listed
      <4>4. k \in 1..Len(esLists'[esSession[f]]) /\ esLists'[esSession[f]][k] = f
        BY <4>1, <4>3, <2>3, <2>5, <2>6
      <4> QED BY <4>1, <4>2, <4>4 DEF Listed
    <3> QED BY <3>1, <3>2
  <2> QED BY <2>4, <2>8, <2>9, <2>10, <2>11 DEF SessionsInv
<1> QED BY <1>1, <1>2

LEMMA SessionsBegin == EsInit => SessionsInv
BY DEF EsInit, SessionsInv, SessionTypeOK, Home, OneOfType, ContextIsListed, OpenHasContext

LEMMA SessionsGoOn == ~Moves /\ SessionsInv /\ [EsNext]_esVars => SessionsInv'
<1> SUFFICES ASSUME ~Moves, SessionsInv, [EsNext]_esVars PROVE SessionsInv'
  OBVIOUS
<1>1. CASE UNCHANGED esVars
  BY <1>1 DEF esVars, SessionsInv, SessionTypeOK, Home, OneOfType, ContextIsListed, Listed, OpenHasContext
<1>2. ASSUME NEW e \in Effects, createEffect(e) \/ closeEffect(e) \/ destroyEffect(e) PROVE SessionsInv'
  BY <1>2, CreateKeeps, ReleaseKeeps DEF closeEffect, destroyEffect
<1>3. ASSUME NEW e \in Effects, NEW sets \in BOOLEAN, openAgain(e, sets) PROVE SessionsInv'
  BY <1>3, OpenAgainKeeps
<1>4. ASSUME NEW e \in Effects, NEW s \in Sessions, NEW inits \in BOOLEAN, NEW sets \in BOOLEAN,
             openEffect(e, s, inits, sets) \/ setSessionCommon(e, s, inits)
      PROVE  SessionsInv'
  BY <1>4, OpenKeeps, CommonKeeps
<1> QED BY <1>1, <1>2, <1>3, <1>4 DEF EsNext

----------------------------------------------------------------------------------
(* A behaviour of the service is a behaviour of each of its parts *)
LEMMA Parts ==
  ASSUME Next
  PROVE  /\ [CfNext]_cfVars /\ [EsNext]_esVars /\ [BnNext]_bnVars /\ [RvNext]_rvVars
         /\ [DpNext]_dpVars /\ [VzNext]_vzVars /\ [UsbMixerNext]_umVars
         /\ [SubmixNext]_rsVars /\ [ProxiesNext]_bpVars /\ [SwitcherNext]_swVars
         /\ [MpegNext]_mgVars /\ [AlsaDeviceNext]_adVars /\ [ModuleNext]_moduleVars
         /\ [PolicyNext]_pcVars
BY DEF Next, Module, Submix, Proxies, Device, Mixer, Switcher, Mpeg, Policy, Bundle, File,
       Session, Reverb, Dynamics, Visualizer, effectVars, streamVars
LEMMA PartsStutter ==
  ASSUME UNCHANGED audioVars
  PROVE  UNCHANGED <<cfVars, esVars, bnVars, rvVars, dpVars, vzVars, umVars, rsVars, bpVars,
                     swVars, mgVars, adVars, moduleVars, pcVars>>
BY DEF audioVars, effectVars, streamVars

----------------------------------------------------------------------------------
(* As long as no client moves an open effect to another session, an effect that is *)
(* open has its library instance, whatever opens failed and whatever other effects *)
(* of its session and type were closed (BundleContext, GlobalSession.h).            *)
THEOREM OpenEffectsHaveInstances == ~Moves /\ AudioSpec => []OpenEffectHasInstance
<1>1. SessionsInv => OpenEffectHasInstance
  BY DEF SessionsInv, OpenHasContext, ContextIsListed, OpenEffectHasInstance
<1> SUFFICES ASSUME ~Moves PROVE AudioSpec => []OpenEffectHasInstance
  OBVIOUS
<1>2. Init => SessionsInv
  BY SessionsBegin DEF Init
<1>3. SessionsInv /\ [Next]_audioVars => SessionsInv'
  BY SessionsGoOn, Parts, PartsStutter
<1> QED BY <1>1, <1>2, <1>3, PTL DEF AudioSpec

----------------------------------------------------------------------------------
(* The file of effects *)
LEMMA ReportedBegins == CfInit => ReportedCanBeCreated
BY DEF CfInit, NoEntries, ReportedCanBeCreated, queryEffects

LEMMA LoadKeeps ==
  ASSUME ReportedCanBeCreated, NEW name, NEW opens, loadEffect(name, opens)
  PROVE  ReportedCanBeCreated'
<1> DEFINE libs == cfEffects[name].libraries
           type == findUuid(name, cfEffects[name])
           places == {i \in DOMAIN libs : type # Nil /\ libs[i].library \in cfLibraries \intersect opens}
<1>1. DOMAIN cfOpened' = DOMAIN cfOpened \union {libs[i].uuid : i \in places}
  BY DEF loadEffect, openEffectLibrary
<1>2. SUFFICES ASSUME NEW id \in cfIdentities' PROVE id.uuid \in DOMAIN cfOpened'
  BY DEF ReportedCanBeCreated, queryEffects
<1>3. CASE id \in cfIdentities
  BY <1>1, <1>3 DEF ReportedCanBeCreated, queryEffects
<1>4. CASE id \notin cfIdentities
  <2>1. PICK lib \in Range(libs) :
          type # Nil /\ Identified(opens, lib) /\ id.uuid = lib.uuid
    BY <1>4 DEF loadEffect
  <2>2. PICK i \in DOMAIN libs : libs[i] = lib
    BY <2>1 DEF Range
  <2>3. i \in places
    BY <2>1, <2>2 DEF Identified
  <2> QED BY <1>1, <2>1, <2>2, <2>3
<1> QED BY <1>3, <1>4

LEMMA ReportedGoesOn == ReportedCanBeCreated /\ [CfNext]_cfVars => ReportedCanBeCreated'
<1> SUFFICES ASSUME ReportedCanBeCreated, [CfNext]_cfVars PROVE ReportedCanBeCreated'
  OBVIOUS
<1>1. CASE UNCHANGED <<cfOpened, cfIdentities>>
  BY <1>1 DEF ReportedCanBeCreated, queryEffects
<1>2. UNCHANGED <<cfOpened, cfIdentities>>
      \/ \E name \in DOMAIN cfEffects, opens \in SUBSET cfLibraries : loadEffect(name, opens)
  BY DEF CfNext, cfVars, parseLibrary, parseEffect, parseProcessing, NextSection, CfLoaded
<1> QED BY <1>1, <1>2, LoadKeeps

(* What the factory reports can be created, for every file and whatever libraries  *)
(* open: queryEffects() offers no identity whose library is not open               *)
(* (EffectFactory.cpp, EffectConfig.cpp).                                          *)
THEOREM ReportedIsCreated == AudioSpec => []ReportedCanBeCreated
<1>1. Init => ReportedCanBeCreated
  BY ReportedBegins DEF Init
<1>2. ReportedCanBeCreated /\ [Next]_audioVars => ReportedCanBeCreated'
  BY Parts, PartsStutter, ReportedGoesOn
<1> QED BY <1>1, <1>2, PTL DEF AudioSpec

\* A chain that a type has is never set again.
LEMMA ChainsGoOn ==
  [CfNext]_cfVars => \A t \in DOMAIN cfChains : t \in DOMAIN cfChains' /\ cfChains'[t] = cfChains[t]
<1> SUFFICES ASSUME [CfNext]_cfVars, NEW t \in DOMAIN cfChains
             PROVE  t \in DOMAIN cfChains' /\ cfChains'[t] = cfChains[t]
  OBVIOUS
<1>1. UNCHANGED cfChains \/ \E xml \in ChainElements : parseProcessing(xml)
  BY DEF CfNext, cfVars, parseLibrary, parseEffect, NextSection, CfLoaded, loadEffect
<1>2. ASSUME NEW xml \in ChainElements, parseProcessing(xml)
      PROVE  t \in DOMAIN cfChains' /\ cfChains'[t] = cfChains[t]
  BY <1>2 DEF parseProcessing, ChainParses, Set
<1> QED BY <1>1, <1>2

----------------------------------------------------------------------------------
(* One effect of the bundle *)
LEMMA MaxOfTwo == ASSUME NEW a \in Int, NEW b \in Int
                  PROVE  Max({a, b}) \in {a, b} /\ Max({a, b}) >= a /\ Max({a, b}) >= b
<1>1. \E x \in {a, b} : \A y \in {a, b} : x >= y
  <2>1. CASE a >= b
    BY <2>1
  <2>2. CASE b >= a
    BY <2>2
  <2> QED BY <2>1, <2>2
<1> QED BY <1>1 DEF Max

BundleTypeOK ==
  /\ bnType \in BundleTypes /\ bnEnabled \in BOOLEAN /\ bnMode \in BOOLEAN
  /\ bnDevices \in BOOLEAN
  /\ bnDrain \in [bit : BOOLEAN, exit : BOOLEAN]
  /\ bnCounts \in [enabled : Nat, called : Nat]
  /\ bnEnergy \in 0..96 /\ bnVolume \in [db : -96..0, saved : -96..0, mute : BOOLEAN]
  /\ bnLevel \in Int

\* The level leaves room for what the mode adds: limitLevel() has been called since.
HasRoom(level, mode, energy) == mode => level + energy <= 0
\* Once an effect was enabled it counts, and it counts once: a volume until its bit
\* is set, which then stays, the others by their tail, which nothing drains.
CountedOnceOnly ==
  /\ bnCounts.called = 0 /\ bnCounts.enabled \in 0..1
  /\ bnCounts.enabled = 1 => IF bnType = "VOLUME" THEN bnEnabled \/ bnDrain.bit ELSE bnDrain.exit
BundleInv == /\ BundleTypeOK /\ CountedOnceOnly
             /\ FollowsDevices => HasRoom(bnLevel, bnMode, bnEnergy)

LEMMA LevelLeavesRoom ==
  ASSUME NEW mode \in BOOLEAN, NEW energy \in 0..96, NEW volume, volume.db \in -96..0,
         limitLevel(mode, energy, volume)
  PROVE  bnLevel' \in Int /\ HasRoom(bnLevel', mode, energy)
<1> DEFINE round == IF mode THEN energy ELSE 0
           correction == Max({0, round + volume.db})
           level == volume.db - correction
<1>1. /\ round \in Int /\ volume.db \in Int /\ round + volume.db \in Int
      /\ 0 \in Int /\ -96 \in Int
  OBVIOUS
<1>2. correction \in {0, round + volume.db} /\ correction >= 0 /\ correction >= round + volume.db
  BY <1>1, MaxOfTwo, Zenon
<1>3. bnLevel' = Max({-96, level})
  BY DEF limitLevel
<1> HIDE DEF correction
<1>4. level \in Int /\ level + round <= 0
  BY <1>1, <1>2
<1>5. Max({-96, level}) \in {-96, level}
  BY <1>1, <1>4, MaxOfTwo, Zenon
<1>6. round <= 96 /\ (mode => round = energy)
  OBVIOUS
<1> HIDE DEF level, round
<1>7. bnLevel' \in Int /\ bnLevel' + round <= 0
  BY <1>1, <1>3, <1>4, <1>5, <1>6
<1> QED BY <1>6, <1>7 DEF HasRoom

LEMMA BundleBegins == BnInit => BundleInv
<1> SUFFICES ASSUME BnInit PROVE BundleInv
  OBVIOUS
<1>1. bnEnergy \in 0..96
  BY BundleAssumption DEF BnInit
<1>2. bnVolume \in [db : -96..0, saved : -96..0, mute : BOOLEAN]
  BY DEF BnInit
<1>3. bnDrain \in [bit : BOOLEAN, exit : BOOLEAN]
  BY DEF BnInit
<1>4. bnCounts \in [enabled : Nat, called : Nat]
  BY DEF BnInit
<1>5. bnEnabled \in BOOLEAN /\ bnMode \in BOOLEAN /\ bnDevices \in BOOLEAN
  BY Zenon DEF BnInit
<1>6. BundleTypeOK
  BY <1>1, <1>2, <1>3, <1>4, <1>5 DEF BnInit, BundleTypeOK
<1> QED BY <1>6 DEF BnInit, BundleInv, CountedOnceOnly, HasRoom

LEMMA ModeKeepsRoom ==
  ASSUME BundleTypeOK, NEW on \in BOOLEAN, OperatingMode(on)
  PROVE  bnMode' \in BOOLEAN /\ bnLevel' \in Int /\ HasRoom(bnLevel', bnMode', bnEnergy)
<1>1. bnMode' \in BOOLEAN /\ limitLevel(bnMode', bnEnergy, bnVolume)
  BY DEF OperatingMode
<1>2. bnEnergy \in 0..96 /\ bnVolume.db \in -96..0
  BY DEF BundleTypeOK
<1> QED BY <1>1, <1>2, LevelLeavesRoom

LEMMA BundleGoesOn == BundleInv /\ [BnNext]_bnVars => BundleInv'
<1> SUFFICES ASSUME BundleInv, [BnNext]_bnVars PROVE BundleInv'
  OBVIOUS
<1> USE DEF BundleInv
<1>1. CASE UNCHANGED bnVars
  BY <1>1 DEF bnVars, BundleTypeOK, CountedOnceOnly, HasRoom, FollowsDevices
<1>2. CASE enableBundle
  <2>1. (bnMode' \in BOOLEAN /\ bnLevel' \in Int /\ HasRoom(bnLevel', bnMode', bnEnergy))
        \/ UNCHANGED <<bnMode, bnLevel>>
    BY <1>2, ModeKeepsRoom DEF enableBundle
  <2>2. bnDrain' \in [bit : BOOLEAN, exit : BOOLEAN] /\ bnCounts' \in [enabled : Nat, called : Nat]
    BY <1>2 DEF enableBundle, BundleTypeOK
  <2>3. BundleTypeOK'
    BY <1>2, <2>1, <2>2 DEF enableBundle, BundleTypeOK
  <2>4. CountedOnceOnly'
    <3>1. /\ bnEnabled' /\ bnType' = bnType /\ ~bnEnabled
          /\ bnType # "VOLUME" => bnDrain'.exit
      BY <1>2 DEF enableBundle
    <3>2. CASE Counted
      <4>1. bnCounts.enabled = 0
        BY <1>2, <3>1, <3>2 DEF Counted, CountedOnceOnly
      <4>2. bnCounts'.enabled = 1 /\ bnCounts'.called = 0
        BY <1>2, <3>2, <4>1 DEF enableBundle, BundleTypeOK, CountedOnceOnly
      <4> QED BY <3>1, <4>2 DEF CountedOnceOnly
    <3>3. CASE ~Counted
      BY <1>2, <3>1, <3>3 DEF enableBundle, CountedOnceOnly
    <3> QED BY <3>2, <3>3
  <2> QED BY <1>2, <2>1, <2>3, <2>4 DEF enableBundle, FollowsDevices, HasRoom
<1>3. CASE disableBundle
  <2>1. bnMode' \in BOOLEAN /\ bnLevel' \in Int /\ HasRoom(bnLevel', bnMode', bnEnergy)
    BY <1>3, ModeKeepsRoom DEF disableBundle
  <2>2. bnDrain' \in [bit : BOOLEAN, exit : BOOLEAN]
    BY <1>3 DEF disableBundle, BundleTypeOK
  <2>3. BundleTypeOK'
    BY <1>3, <2>1, <2>2 DEF disableBundle, BundleTypeOK
  <2>4. CountedOnceOnly'
    BY <1>3 DEF disableBundle, BundleTypeOK, CountedOnceOnly, BundleTypes
  <2> QED BY <1>3, <2>1, <2>3, <2>4 DEF disableBundle, FollowsDevices, HasRoom
<1>4. CASE processBundle
  <2>1. bnCounts' \in [enabled : Nat, called : Nat] /\ bnCounts'.enabled = bnCounts.enabled
        /\ bnCounts'.called = 0
    BY <1>4 DEF processBundle, BundleTypeOK, CountedOnceOnly
  <2> QED BY <1>4, <2>1 DEF processBundle, BundleTypeOK, CountedOnceOnly, FollowsDevices, HasRoom
<1>5. ASSUME NEW on \in BOOLEAN, setOutputDevice(on) \/ setForcedDevice(on) PROVE BundleInv'
  <2>1. (bnMode' \in BOOLEAN /\ bnLevel' \in Int /\ HasRoom(bnLevel', bnMode', bnEnergy))
        \/ UNCHANGED <<bnMode, bnLevel>>
    BY <1>5, ModeKeepsRoom DEF setOutputDevice, setForcedDevice, BundleTypeOK
  <2>2. bnDevices' \in BOOLEAN
    BY <1>5 DEF setOutputDevice, setForcedDevice, BundleTypeOK
  <2>3. UNCHANGED <<bnType, bnEnabled, bnDrain, bnCounts, bnEnergy, bnVolume>>
    BY <1>5 DEF setOutputDevice, setForcedDevice
  <2> QED BY <2>1, <2>2, <2>3 DEF BundleTypeOK, CountedOnceOnly, FollowsDevices, HasRoom
<1>6. ASSUME limitLevel(bnMode, bnEnergy, bnVolume'),
             bnVolume' \in [db : -96..0, saved : -96..0, mute : BOOLEAN],
             UNCHANGED <<bnType, bnEnabled, bnMode, bnTemp, bnDevices, bnDrain, bnCounts, bnEnergy>>
      PROVE  BundleInv'
  <2>1. bnLevel' \in Int /\ HasRoom(bnLevel', bnMode, bnEnergy)
    BY <1>6, LevelLeavesRoom DEF BundleTypeOK
  <2> QED BY ZenonT(60), <1>6, <2>1 DEF BundleTypeOK, CountedOnceOnly, FollowsDevices, HasRoom
<1>7. ASSUME NEW energy \in Energies, setStrength(energy) PROVE BundleInv'
  <2>1. bnEnergy' \in 0..96
    BY <1>7, BundleAssumption DEF setStrength, BundleTypeOK
  <2>2. bnLevel' \in Int /\ HasRoom(bnLevel', bnMode, bnEnergy')
    BY <1>7, <2>1, LevelLeavesRoom DEF setStrength, BundleTypeOK
  <2> QED BY <1>7, <2>1, <2>2 DEF setStrength, BundleTypeOK, CountedOnceOnly, FollowsDevices, HasRoom
<1>8. ASSUME NEW energy \in Energies, updateControlParameter(energy) PROVE BundleInv'
  BY <1>8, BundleAssumption
  DEF updateControlParameter, BundleTypeOK, CountedOnceOnly, FollowsDevices, HasRoom
<1>9. ASSUME NEW mute \in BOOLEAN, setVolumeMute(mute) PROVE BundleInv'
  <2>1. bnVolume' \in [db : -96..0, saved : -96..0, mute : BOOLEAN]
    <3>1. bnVolume \in [db : -96..0, saved : -96..0, mute : BOOLEAN] /\ -96 \in -96..0
      BY DEF BundleTypeOK
    <3>2. bnVolume.db \in -96..0 /\ bnVolume.saved \in -96..0
      BY <3>1
    <3>3. CASE mute
      BY <1>9, <3>1, <3>2, <3>3 DEF setVolumeMute
    <3>4. CASE ~mute
      BY <1>9, <3>1, <3>2, <3>4 DEF setVolumeMute
    <3> QED BY <3>3, <3>4
  <2> QED BY <1>6, <1>9, <2>1 DEF setVolumeMute
<1>10. ASSUME NEW db \in VolumesDb, setVolumeLevel(db) PROVE BundleInv'
  <2>1. bnVolume' \in [db : -96..0, saved : -96..0, mute : BOOLEAN]
    BY <1>10, BundleAssumption DEF setVolumeLevel, BundleTypeOK
  <2> QED BY <1>6, <1>10, <2>1 DEF setVolumeLevel
<1> QED BY <1>1, <1>2, <1>3, <1>4, <1>5, <1>7, <1>8, <1>9, <1>10 DEF BnNext

LEMMA BundleKeepsWord == BundleInv => BurstReachesLibrary /\ LevelLimited
<1> SUFFICES ASSUME BundleInv PROVE BurstReachesLibrary /\ LevelLimited
  OBVIOUS
<1>1. BurstReachesLibrary
  BY DEF BundleInv, BundleTypeOK, CountedOnceOnly, BurstReachesLibrary
<1> QED BY <1>1 DEF BundleInv, LevelLimited, HasRoom

----------------------------------------------------------------------------------
(* The master volume of the USB cards *)
CardValues == [UsbCards -> [MasterControls -> [UsbChannels -> Nat]]]

LEMMA PercentIsNat == \A v \in Levels : v \div 10 \in Nat
<1>1. Levels \subseteq 0..1000
  BY UsbMixerAssumption
<1>2. ASSUME NEW v \in 0..1000 PROVE v \div 10 \in Nat
  BY <1>2
<1> QED BY <1>1, <1>2

LEMMA MixerValues ==
  ASSUME NEW control \in MasterControls, NEW master \in [mute : BOOLEAN, volume : Levels]
  PROVE  ValueOf(control, master) \in Nat
<1>1. master.volume \in Levels
  BY SMTT(30)
<1>2. master.volume \div 10 \in Nat
  BY <1>1, PercentIsNat
<1> QED BY <1>2 DEF ValueOf

\* One control of one card: the channels in front of the first that fails.
LEMMA ControlIsSet ==
  ASSUME UsbMixerTypeOK, NEW values \in CardValues, NEW card \in UsbCards,
         NEW control \in MasterControls, NEW master \in [mute : BOOLEAN, volume : Levels]
  PROVE  /\ setMixerControl(values, card, control, master) \in CardValues
         /\ \A c \in UsbCards, k \in MasterControls, i \in UsbChannels :
              setMixerControl(values, card, control, master)[c][k][i] =
                IF c = card /\ k = control /\ i < umWorks[card][control]
                THEN ValueOf(control, master) ELSE values[c][k][i]
<1>1. ValueOf(control, master) \in Nat
  BY MixerValues
<1> DEFINE new == [i \in UsbChannels |-> IF i < umWorks[card][control] THEN ValueOf(control, master)
                                         ELSE values[card][control][i]]
<1>2. new \in [UsbChannels -> Nat]
  BY <1>1 DEF CardValues
<1>3. setMixerControl(values, card, control, master) = [values EXCEPT ![card][control] = new]
  BY DEF setMixerControl
<1>4. \A i \in UsbChannels : new[i] = IF i < umWorks[card][control] THEN ValueOf(control, master)
                                      ELSE values[card][control][i]
  OBVIOUS
<1> HIDE DEF new
<1>5. [values EXCEPT ![card][control] = new] \in CardValues
  BY <1>2 DEF CardValues
<1>6. \A c \in UsbCards, k \in MasterControls :
        [values EXCEPT ![card][control] = new][c][k] = IF c = card /\ k = control THEN new ELSE values[c][k]
  BY <1>2 DEF CardValues
<1> QED BY <1>3, <1>4, <1>5, <1>6

\* All cards, as far as they are reached.
Served(control) == {c \in umMixers : \A f \in Failing(control) : c <= f}
LEMMA CardsAreSet ==
  ASSUME UsbMixerTypeOK, NEW values \in CardValues,
         NEW control \in MasterControls, NEW master \in [mute : BOOLEAN, volume : Levels]
  PROVE  /\ setMasterOnCards(values, control, master) \in CardValues
         /\ \A c \in UsbCards, k \in MasterControls, i \in UsbChannels :
              setMasterOnCards(values, control, master)[c][k][i] =
                IF c \in Served(control) /\ k = control /\ i < umWorks[c][control]
                THEN ValueOf(control, master) ELSE values[c][k][i]
<1> DEFINE set(c) == setMixerControl(values, c, control, master)
           all == setMasterOnCards(values, control, master)
<1>1. all = [c \in UsbCards |-> IF c \in Served(control) THEN set(c)[c] ELSE values[c]]
  BY DEF setMasterOnCards, Served
<1>2. ASSUME NEW c \in UsbCards
      PROVE  /\ set(c)[c] \in [MasterControls -> [UsbChannels -> Nat]]
             /\ \A k \in MasterControls, i \in UsbChannels :
                  set(c)[c][k][i] = IF k = control /\ i < umWorks[c][control]
                                    THEN ValueOf(control, master) ELSE values[c][k][i]
  <2>1. /\ set(c) \in CardValues
        /\ \A k \in MasterControls, i \in UsbChannels :
             set(c)[c][k][i] = IF k = control /\ i < umWorks[c][control]
                               THEN ValueOf(control, master) ELSE values[c][k][i]
    BY <1>2, ControlIsSet
  <2> HIDE DEF set
  <2> QED BY <1>2, <2>1 DEF CardValues
<1> HIDE DEF set, all
<1>3. all \in CardValues
  BY <1>1, <1>2 DEF CardValues
<1>4. ASSUME NEW c \in UsbCards, NEW k \in MasterControls, NEW i \in UsbChannels
      PROVE  all[c][k][i] = IF c \in Served(control) /\ k = control /\ i < umWorks[c][control]
                            THEN ValueOf(control, master) ELSE values[c][k][i]
  BY <1>1, <1>2
<1> QED BY <1>3, <1>4 DEF all

MixerInv == UsbMixerTypeOK /\ umMaster \in [mute : BOOLEAN, volume : Levels] /\ MasterOnAllCards

LEMMA MixerBegins == UsbMixerInit => MixerInv
<1> SUFFICES ASSUME UsbMixerInit PROVE MixerInv
  OBVIOUS
<1>1. umMaster \in [mute : BOOLEAN, volume : Levels]
  BY UsbMixerAssumption DEF UsbMixerInit
<1>2. UsbMixerTypeOK
  BY <1>1 DEF UsbMixerInit, UsbMixerTypeOK, PortsPerCard
<1> QED BY <1>1, <1>2 DEF UsbMixerInit, MixerInv, MasterOnAllCards

LEMMA MasterIsKept ==
  ASSUME MixerInv, NEW control \in MasterControls, NEW master \in [mute : BOOLEAN, volume : Levels],
         \A k \in MasterControls \ {control} : ValueOf(k, master) = ValueOf(k, umMaster),
         setMaster(control, master)
  PROVE  MixerInv'
<1> DEFINE set == setMasterOnCards(umValues, control, master)
<1>1. umValues \in CardValues /\ umMixers \subseteq UsbCards
  BY DEF MixerInv, UsbMixerTypeOK, CardValues
<1>2. /\ set \in CardValues
      /\ \A c \in UsbCards, k \in MasterControls, i \in UsbChannels :
           set[c][k][i] = IF c \in Served(control) /\ k = control /\ i < umWorks[c][control]
                          THEN ValueOf(control, master) ELSE umValues[c][k][i]
  BY <1>1, CardsAreSet DEF MixerInv
<1> HIDE DEF set
<1>3. UNCHANGED <<umPorts, umMixers, umWorks>>
  BY DEF setMaster
<1>4. CASE Failing(control) = {}
  <2>1. umMaster' = master /\ umValues' = set
    BY <1>4 DEF setMaster, set
  <2>2. Served(control) = umMixers
    BY <1>4 DEF Served
  <2>3. UsbMixerTypeOK'
    BY <1>2, <1>3, <2>1 DEF MixerInv, UsbMixerTypeOK, CardValues
  <2>4. ASSUME NEW c \in umMixers, NEW k \in MasterControls, NEW i \in UsbChannels, i < umWorks[c][k]
        PROVE  set[c][k][i] = ValueOf(k, master)
    <3>1. CASE k = control
      BY <1>1, <1>2, <2>2, <2>4, <3>1
    <3>2. CASE k # control
      BY <1>1, <1>2, <2>4, <3>2 DEF MixerInv, MasterOnAllCards
    <3> QED BY <3>1, <3>2
  <2>5. MasterOnAllCards'
    BY <1>3, <2>1, <2>4 DEF MasterOnAllCards, ValueOf
  <2> QED BY <2>1, <2>3, <2>5 DEF MixerInv
<1>5. CASE Failing(control) # {}
  <2>1. umMaster' = umMaster /\ umValues' = setMasterOnCards(set, control, umMaster)
    BY <1>5 DEF setMaster, Reset, set
  <2>2. /\ umValues' \in CardValues
        /\ \A c \in UsbCards, k \in MasterControls, i \in UsbChannels :
             umValues'[c][k][i] = IF c \in Served(control) /\ k = control /\ i < umWorks[c][control]
                                  THEN ValueOf(control, umMaster) ELSE set[c][k][i]
    BY <1>2, <2>1, CardsAreSet DEF MixerInv
  <2>3. UsbMixerTypeOK'
    BY <1>3, <2>1, <2>2 DEF MixerInv, UsbMixerTypeOK, CardValues
  <2>4. ASSUME NEW c \in umMixers, NEW k \in MasterControls, NEW i \in UsbChannels, i < umWorks[c][k]
        PROVE  umValues'[c][k][i] = ValueOf(k, umMaster)
    <3>1. umValues[c][k][i] = ValueOf(k, umMaster)
      BY <2>4 DEF MixerInv, MasterOnAllCards
    <3>2. CASE c \in Served(control) /\ k = control
      BY <1>1, <2>2, <2>4, <3>2
    <3>3. CASE ~(c \in Served(control) /\ k = control)
      BY <1>1, <1>2, <2>2, <3>1, <3>3
    <3> QED BY <3>2, <3>3
  <2>5. MasterOnAllCards'
    BY <1>3, <2>1, <2>4 DEF MasterOnAllCards, ValueOf
  <2> QED BY <2>1, <2>3, <2>5 DEF MixerInv
<1> QED BY <1>4, <1>5

LEMMA ConnectKeeps ==
  ASSUME MixerInv, NEW card \in UsbCards, NEW opens \in BOOLEAN, connectDevice(card, opens)
  PROVE  MixerInv'
<1> DEFINE once == setMixerControl(umValues, card, "MASTER_SWITCH", umMaster)
           twice == setMixerControl(once, card, "MASTER_VOLUME", umMaster)
<1>1. /\ umValues \in CardValues /\ umMixers \subseteq UsbCards
      /\ umMaster \in [mute : BOOLEAN, volume : Levels] /\ UsbMixerTypeOK
      /\ "MASTER_SWITCH" \in MasterControls /\ "MASTER_VOLUME" \in MasterControls
  BY DEF MixerInv, UsbMixerTypeOK, CardValues, MasterControls
<1>2. /\ once \in CardValues
      /\ \A c \in UsbCards, k \in MasterControls, i \in UsbChannels :
           once[c][k][i] = IF c = card /\ k = "MASTER_SWITCH" /\ i < umWorks[card]["MASTER_SWITCH"]
                           THEN ValueOf("MASTER_SWITCH", umMaster) ELSE umValues[c][k][i]
  BY <1>1, ControlIsSet
<1> HIDE DEF once
<1>3. /\ twice \in CardValues
      /\ \A c \in UsbCards, k \in MasterControls, i \in UsbChannels :
           twice[c][k][i] = IF c = card /\ k = "MASTER_VOLUME" /\ i < umWorks[card]["MASTER_VOLUME"]
                            THEN ValueOf("MASTER_VOLUME", umMaster) ELSE once[c][k][i]
  BY <1>1, <1>2, ControlIsSet
<1>4. /\ UNCHANGED <<umWorks, umMaster>> /\ umMixers' = IF opens THEN umMixers \union {card} ELSE umMixers
      /\ umValues' = IF opens THEN twice ELSE umValues
  BY DEF connectDevice, once
<1> HIDE DEF twice
<1>5. umPorts' \in [UsbCards -> 0..PortsPerCard]
  <2>1. umPorts \in [UsbCards -> 0..2] /\ umPorts[card] < 2
    BY <1>1 DEF connectDevice, UsbMixerTypeOK, PortsPerCard
  <2>2. umPorts' = [umPorts EXCEPT ![card] = umPorts[card] + 1]
    BY DEF connectDevice
  <2>3. umPorts[card] + 1 \in 0..2
    BY <2>1
  <2> QED BY <2>1, <2>2, <2>3 DEF PortsPerCard
<1>6. UsbMixerTypeOK'
  BY <1>1, <1>3, <1>4, <1>5 DEF UsbMixerTypeOK, CardValues
<1>7. ASSUME NEW c \in umMixers', NEW k \in MasterControls, NEW i \in UsbChannels, i < umWorks[c][k]
      PROVE  umValues'[c][k][i] = ValueOf(k, umMaster)
  <2>1. c \in UsbCards /\ (c \in umMixers => umValues[c][k][i] = ValueOf(k, umMaster))
    BY <1>1, <1>4, <1>7 DEF MixerInv, MasterOnAllCards
  <2>2. CASE ~opens
    BY <1>4, <2>1, <2>2
  <2>3. CASE opens /\ k = "MASTER_SWITCH"
    BY <1>2, <1>3, <1>4, <1>7, <2>1, <2>3
  <2>4. CASE opens /\ k = "MASTER_VOLUME"
    BY <1>2, <1>3, <1>4, <1>7, <2>1, <2>4
  <2> QED BY <2>2, <2>3, <2>4 DEF MasterControls
<1>8. MasterOnAllCards'
  BY <1>4, <1>7 DEF MasterOnAllCards, ValueOf
<1> QED BY <1>1, <1>4, <1>6, <1>8 DEF MixerInv

LEMMA MixerGoesOn == MixerInv /\ [UsbMixerNext]_umVars => MixerInv'
<1> SUFFICES ASSUME MixerInv, [UsbMixerNext]_umVars PROVE MixerInv'
  OBVIOUS
<1>1. CASE UNCHANGED umVars
  BY <1>1 DEF umVars, MixerInv, UsbMixerTypeOK, MasterOnAllCards, ValueOf
<1>2. ASSUME NEW mute \in BOOLEAN, setMaster("MASTER_SWITCH", [umMaster EXCEPT !.mute = mute])
      PROVE  MixerInv'
  <2>1. [umMaster EXCEPT !.mute = mute] \in [mute : BOOLEAN, volume : Levels]
        /\ [umMaster EXCEPT !.mute = mute].volume = umMaster.volume
    BY DEF MixerInv
  <2>2. \A k \in MasterControls \ {"MASTER_SWITCH"} :
          ValueOf(k, [umMaster EXCEPT !.mute = mute]) = ValueOf(k, umMaster)
    BY <2>1 DEF MasterControls, ValueOf
  <2> QED BY <1>2, <2>1, <2>2, MasterIsKept DEF MasterControls
<1>3. ASSUME NEW level \in Levels, setMaster("MASTER_VOLUME", [umMaster EXCEPT !.volume = level])
      PROVE  MixerInv'
  <2>1. [umMaster EXCEPT !.volume = level] \in [mute : BOOLEAN, volume : Levels]
        /\ [umMaster EXCEPT !.volume = level].mute = umMaster.mute
    BY DEF MixerInv
  <2>2. \A k \in MasterControls \ {"MASTER_VOLUME"} :
          ValueOf(k, [umMaster EXCEPT !.volume = level]) = ValueOf(k, umMaster)
    BY <2>1 DEF MasterControls, ValueOf
  <2> QED BY <1>3, <2>1, <2>2, MasterIsKept DEF MasterControls
<1>4. ASSUME NEW card \in UsbCards, disconnectDevice(card) PROVE MixerInv'
  <2>1. umPorts' \in [UsbCards -> 0..PortsPerCard]
    BY <1>4 DEF disconnectDevice, MixerInv, UsbMixerTypeOK, PortsPerCard
  <2> QED BY <1>4, <2>1 DEF disconnectDevice, MixerInv, UsbMixerTypeOK, MasterOnAllCards, ValueOf
<1> QED BY <1>1, <1>2, <1>3, <1>4, ConnectKeeps DEF UsbMixerNext

----------------------------------------------------------------------------------
(* The first of a set of indices, and the first of a table that is in a set.         *)
FirstIn(I) == I # {} /\ Min(I) \in I /\ \A i \in I : Min(I) <= i

LEMMA FirstIsThere ==
  ASSUME NEW n \in Nat, NEW I \in SUBSET (1..n), I # {}
  PROVE  FirstIn(I)
<1>1. I \subseteq Nat
  OBVIOUS
<1>2. PICK x \in I : \A y \in I : <<y, x>> \notin OpToRel(<, Nat)
  BY <1>1, NatLessThanWellFounded, WFMin
<1>3. OpToRel(<, Nat) = {e \in Nat \X Nat : e[1] < e[2]}
  BY Zenon DEF OpToRel
<1>4. ASSUME NEW y \in I PROVE x <= y
  <2>1. <<y, x>> \notin {e \in Nat \X Nat : e[1] < e[2]}
    BY <1>2, <1>3
  <2>2. x \in Nat /\ y \in Nat
    BY <1>1
  <2> QED BY <2>1, <2>2
<1> QED BY <1>4, Zenon DEF FirstIn, Min

LEMMA FirstOfOne ==
  ASSUME NEW r \in {std_sample_rates[i] : i \in DOMAIN std_sample_rates}
  PROVE  FirstOfTable(std_sample_rates, {r}) = r
<1> DEFINE I == {i \in DOMAIN std_sample_rates : std_sample_rates[i] \in {r}}
<1>1. FirstOfTable(std_sample_rates, {r}) = std_sample_rates[Min(I)]
  BY Zenon DEF FirstOfTable
<1>2. DOMAIN std_sample_rates = 1..13
  BY DEF std_sample_rates
<1>3. I \in SUBSET (1..13) /\ I # {}
  BY <1>2
<1>4. \A i \in I : std_sample_rates[i] = r
  OBVIOUS
<1> HIDE DEF I
<1>5. Min(I) \in I
  BY <1>3, FirstIsThere DEF FirstIn
<1> QED BY <1>1, <1>4, <1>5
----------------------------------------------------------------------------------
(* AlsaDevice. What the port offers was tested on the device with as many channels  *)
(* as any of its counts has, and a device sustains fewer where it sustains more.     *)
Fits(card) == card \in Cards /\ card.tells /\ card.channelsMin <= card.channelsMax /\ card.channelsMin <= FccLimit
OfferedOf(card) ==
  LET profile == profile_read_device_info(card)
  IN {[rate |-> r, mask |-> m, format |-> f] :
        r \in profile.rates, f \in profile.formats \intersect Described, m \in getChannelMasksFromProfile(profile)}
AlsaInv ==
  /\ OfferedConfigOpens /\ (adCard = NoCard => adAsked = NoConfig)
  /\ ~adStatic => adOffered = {} \/ (Fits(adCard) /\ adOffered = OfferedOf(adCard))

LEMMA CountsFit ==
  ASSUME NEW card, Fits(card), NEW n \in profile_enum_channel_counts(card)
  PROVE  /\ n \in 1..FccLimit /\ n \in card.channelsMin..card.channelsMax
         /\ TestedChannels(card) \in Nat /\ n <= TestedChannels(card)
<1>1. card.channelsMin \in Nat /\ card.channelsMax \in Nat /\ FccLimit \in Nat
      /\ card.channelsMin > 0 /\ card.channelsMin <= card.channelsMax /\ card.channelsMin <= FccLimit
  BY AlsaDeviceAssumption DEF Fits, Cards
<1>2. card.channelsMin \in (1..FccLimit) \intersect (card.channelsMin..card.channelsMax)
  BY <1>1
<1>3. n \in (1..FccLimit) \intersect (card.channelsMin..card.channelsMax)
  BY <1>2, Zenon DEF profile_enum_channel_counts
<1> DEFINE default == read_alsa_device_config(card).channels
<1>4. default = IF ~card.isIn /\ card.channelsMin < 2 /\ card.channelsMax >= 2 THEN 2 ELSE card.channelsMin
  BY DEF read_alsa_device_config
<1>5. TestedChannels(card) = IF default >= FccLimit THEN default
                             ELSE IF card.channelsMax > FccLimit THEN FccLimit ELSE card.channelsMax
  BY DEF TestedChannels
<1> HIDE DEF default
<1>6. default \in Nat
  BY <1>1, <1>4
<1> QED BY <1>1, <1>3, <1>5, <1>6

LEMMA OfferedOpens ==
  ASSUME NEW card, Fits(card), NEW asked \in OfferedOf(card)
  PROVE  LET profile == profile_read_device_info(card)
             proxy == proxy_prepare(profile, getPcmConfig(asked), TRUE)
             highest == proxy_scan_rates(card, profile, proxy.config, TRUE)
         IN  /\ getPcmConfig(asked).channels > 0 /\ proxy.ok /\ proxy.config = Meant(asked)
             /\ ~LimitedChannels(proxy.config, highest) /\ pcm_open(card, proxy.config)
             /\ asked # NoConfig
<1> DEFINE profile == profile_read_device_info(card) config == getPcmConfig(asked)
           proxy == proxy_prepare(profile, config, TRUE)
           highest == proxy_scan_rates(card, profile, proxy.config, TRUE)
<1>1. /\ profile.rates = profile_enum_sample_rates(card) /\ profile.formats = profile_enum_sample_formats(card)
      /\ profile.counts = profile_enum_channel_counts(card)
      /\ profile.channelsMin = card.channelsMin /\ profile.channelsMax = card.channelsMax
  BY DEF profile_read_device_info
<1>2. PICK r \in profile.rates, f \in profile.formats \intersect Described, m \in getChannelMasksFromProfile(profile) :
        asked = [rate |-> r, mask |-> m, format |-> f]
  <2>1. asked \in {[rate |-> r, mask |-> m, format |-> f] :
          r \in profile.rates, f \in profile.formats \intersect Described, m \in getChannelMasksFromProfile(profile)}
    BY DEF OfferedOf
  <2> HIDE DEF profile
  <2> QED BY <2>1
<1> HIDE DEF profile
<1>3. asked.rate = r /\ asked.mask = m /\ asked.format = f
  BY <1>2
<1>4. Supported(m) /\ m[2] \in profile_enum_channel_counts(card)
  BY <1>1, <1>2 DEF getChannelMasksFromProfile
<1>5. /\ m[2] \in 1..FccLimit /\ m[2] \in card.channelsMin..card.channelsMax
      /\ TestedChannels(card) \in Nat /\ m[2] <= TestedChannels(card)
  BY <1>4, CountsFit
<1>6. config = [rate |-> r, channels |-> m[2], format |-> f]
  BY <1>3, <1>4, Zenon DEF getPcmConfig, getChannelCountFromChannelMask
<1>7. config = Meant(asked)
  BY <1>3, <1>6, Zenon DEF Meant
<1> HIDE DEF config
<1>8. config.rate = r /\ config.channels = m[2] /\ config.format = f
  BY <1>6
<1>9. profile_is_channel_count_valid(profile, config)
  BY <1>1, <1>5, <1>8 DEF profile_is_channel_count_valid
<1>10. proxy.ok
  BY <1>2, <1>8, <1>9 DEF proxy_prepare
<1>11. proxy.config = config
  <2>1. proxy.config = [rate |-> config.rate, format |-> config.format, channels |-> config.channels]
    BY DEF proxy_prepare, Prepared
  <2> QED BY <1>6, <1>8, <2>1
<1> HIDE DEF proxy
<1>12. /\ f \in card.formats /\ f # NoFormat
  BY <1>1, <1>2 DEF profile_enum_sample_formats, Described, NoFormat
<1>13. r \in StdRates /\ profile_test_sample_rate(card, r)
  BY <1>1, <1>2 DEF profile_enum_sample_rates
<1>14. r \in Sustainable /\ r \in Nat /\ card.sustains[r] \in Int /\ TestedChannels(card) <= card.sustains[r]
  <2>1. r \in StdRates /\ StdRates \subseteq Sustainable
    BY <1>13 DEF StdRates
  <2>2. card.sustains \in [StdRates -> 0..MaxChannels]
    BY DEF Fits, Cards
  <2>3. card.sustains[r] \in Int
    BY <2>1, <2>2
  <2> QED BY <1>13, <2>1, <2>3, AlsaDeviceAssumption DEF profile_test_sample_rate, pcm_open
<1>15. pcm_open(card, config)
  <2>1. m[2] <= card.sustains[r] /\ card.channelsMin \in Int /\ card.channelsMax \in Int
    BY <1>5, <1>14, AlsaDeviceAssumption DEF Fits, Cards
  <2> QED BY <1>5, <1>8, <1>12, <2>1, Zenon DEF pcm_open
<1>16. ~LimitedChannels(proxy.config, highest)
  <2> DEFINE opens == {x \in profile.rates : (TRUE => x = config.rate) /\ pcm_open(card, [config EXCEPT !.rate = x])}
  <2>1. highest = IF opens = {} THEN 0 ELSE FirstOfTable(std_sample_rates, opens)
    BY <1>11, Zenon DEF proxy_scan_rates
  <2>2. opens \subseteq {r}
    BY <1>8
  <2>3. r \in {std_sample_rates[i] : i \in DOMAIN std_sample_rates}
    BY <1>13, Zenon DEF StdRates, Range
  <2> HIDE DEF opens
  <2>4. opens = {} \/ opens = {r}
    BY <2>2
  <2>5. FirstOfTable(std_sample_rates, {r}) = r
    BY <2>3, FirstOfOne
  <2>6. highest \in {0, r}
    BY <2>1, <2>4, <2>5
  <2>7. proxy.config.rate = r
    BY <1>8, <1>11
  <2> HIDE DEF highest
  <2>8. ~(highest # 0 /\ r > highest)
    BY <1>14, <2>6
  <2>9. proxy.config.rate > highest <=> r > highest
    BY <2>7
  <2> QED BY <2>8, <2>9, Zenon DEF LimitedChannels
<1>17. asked # NoConfig
  BY <1>3, <1>12 DEF NoConfig
<1>18. config.channels > 0
  BY <1>5, <1>8
<1> QED BY <1>7, <1>10, <1>11, <1>15, <1>16, <1>17, <1>18, Zenon DEF profile, config, proxy, highest

LEMMA AlsaBegins == AlsaDeviceInit => AlsaInv
<1> SUFFICES ASSUME AlsaDeviceInit PROVE AlsaInv
  OBVIOUS
<1>1. adOffered = {} /\ adAsked = NoConfig
  BY DEF AlsaDeviceInit
<1>2. adAsked \notin adOffered
  BY <1>1
<1> QED BY <1>1, <1>2, Zenon DEF AlsaInv, OfferedConfigOpens

LEMMA AlsaGoesOn ==
  ASSUME ~WideDevices, AlsaInv, [AlsaDeviceNext]_adVars
  PROVE  AlsaInv'
<1>1. ASSUME adCard = NoCard, NEW card \in Cards, card.channelsMin <= card.channelsMax,
             WideDevices \/ card.channelsMin <= FccLimit, populateConnectedDevicePort(card)
      PROVE  AlsaInv'
  <2>4. adOffered' = OfferedOf(card)
    BY <1>1 DEF populateConnectedDevicePort, OfferedOf
  <2>5. card.tells /\ adCard' = card /\ adStatic' = FALSE /\ adAsked' = adAsked
    BY <1>1, Zenon DEF populateConnectedDevicePort
  <2>6. adAsked = NoConfig
    BY <1>1, Zenon DEF AlsaInv
  <2>1. /\ card.tells /\ adCard' = card /\ adOffered' = OfferedOf(card) /\ adStatic' = FALSE
        /\ adAsked' = adAsked /\ adAsked = NoConfig
    BY <2>4, <2>5, <2>6
  <2>2. Fits(card)
    BY <1>1, <2>1 DEF Fits
  <2>3. adAsked' \notin adOffered'
    BY <2>1, <2>2, OfferedOpens
  <2> QED BY <2>1, <2>2, <2>3 DEF AlsaInv, OfferedConfigOpens
<1>2. ASSUME adCard = NoCard, NEW card \in Cards, keepStaticProfiles(card) PROVE AlsaInv'
  BY <1>2 DEF keepStaticProfiles, AlsaInv, OfferedConfigOpens
<1>3. ASSUME NEW asked \in Requests, openProxyForExternalDevice(asked) PROVE AlsaInv'
  <2>1. /\ adCard # NoCard /\ adAsked' = asked /\ UNCHANGED <<adCard, adOffered, adStatic>>
    BY <1>3 DEF openProxyForExternalDevice
  <2>2. ASSUME ~adStatic, asked \in adOffered PROVE adProxy' = Meant(asked)
    <3>1. Fits(adCard) /\ asked \in OfferedOf(adCard)
      BY <2>2 DEF AlsaInv
    <3>2. adCard.tells
      BY <3>1 DEF Fits
    <3> DEFINE profile == profile_read_device_info(adCard)
               proxy == proxy_prepare(profile, getPcmConfig(asked), TRUE)
               highest == proxy_scan_rates(adCard, profile, proxy.config, TRUE)
    <3>3. /\ getPcmConfig(asked).channels > 0 /\ proxy.ok /\ proxy.config = Meant(asked)
          /\ ~LimitedChannels(proxy.config, highest) /\ pcm_open(adCard, proxy.config)
      BY <3>1, OfferedOpens, Zenon
    <3>4. adProxy' = IF /\ getPcmConfig(asked).channels > 0 /\ adCard.tells /\ proxy.ok
                        /\ ~LimitedChannels(proxy.config, highest) /\ pcm_open(adCard, proxy.config)
                     THEN proxy.config ELSE NoConfig
      BY <1>3, Zenon DEF openProxyForExternalDevice
    <3> HIDE DEF proxy, highest
    <3> QED BY <3>2, <3>3, <3>4
  <2> QED BY <2>1, <2>2 DEF AlsaInv, OfferedConfigOpens
<1>4. CASE closeProxy
  <2>1. adAsked' = NoConfig /\ UNCHANGED <<adCard, adOffered, adStatic>>
    BY <1>4 DEF closeProxy
  <2>2. ~adStatic => NoConfig \notin adOffered
    BY OfferedOpens DEF AlsaInv
  <2> QED BY <2>1, <2>2 DEF AlsaInv, OfferedConfigOpens
<1>5. CASE unplug
  <2>1. adOffered' = {} /\ adAsked' = NoConfig
    BY <1>5 DEF unplug
  <2>2. adAsked' \notin adOffered'
    BY <2>1
  <2> QED BY <2>1, <2>2, Zenon DEF AlsaInv, OfferedConfigOpens
<1>6. CASE UNCHANGED adVars
  BY <1>6 DEF adVars, AlsaInv, OfferedConfigOpens, Meant
<1> QED BY <1>1, <1>2, <1>3, <1>4, <1>5, <1>6 DEF AlsaDeviceNext
----------------------------------------------------------------------------------
(* The stream switcher *)
InnerStream == [kind : {"none", "stub", "real"}, devices : SwitcherDevices \union {{}},
                state : {"STANDBY", "IDLE", "CLOSED"}, parameter : Nat, effects : SUBSET StreamEffects]
SwitcherInv ==
  /\ swInner \in InnerStream /\ swMissed \in Seq(Nat) /\ swLast \in Nat
  /\ swEffects \subseteq StreamEffects /\ swIsStub \in BOOLEAN
  /\ SwitcherKeepsRequests
  /\ swIsStub => swInner.kind # "real"

LEMMA NewInner ==
  ASSUME NEW kind \in {"none", "stub", "real"}, NEW devices \in SwitcherDevices \union {{}}
  PROVE  /\ Inner(kind, devices) \in InnerStream /\ Inner(kind, devices).kind = kind
         /\ Inner(kind, devices).devices = devices
BY DEF Inner, InnerStream

LEMMA ClosedInner ==
  ASSUME swInner \in InnerStream, NEW validate \in BOOLEAN
  PROVE  LET closed == CloseCurrent(validate)
         IN /\ closed \in InnerStream
            /\ closed = NoInner \/ /\ closed.kind = swInner.kind /\ closed.devices = swInner.devices
                                   /\ closed.effects = swInner.effects
<1>1. NoInner \in InnerStream
  BY NewInner DEF NoInner
<1>2. [swInner EXCEPT !.state = "CLOSED"] \in InnerStream
  BY DEF InnerStream
<1> QED BY <1>1, <1>2 DEF CloseCurrent, InnerStream

LEMMA SwitcherBegins == SwitcherInit => SwitcherInv
BY NewInner DEF SwitcherInit, SwitcherInv, SwitcherKeepsRequests

LEMMA SwitcherGoesOn == SwitcherInv /\ [SwitcherNext]_swVars => SwitcherInv'
<1> SUFFICES ASSUME SwitcherInv, [SwitcherNext]_swVars PROVE SwitcherInv'
  OBVIOUS
<1> USE DEF SwitcherInv
<1>1. CASE UNCHANGED swVars
  BY <1>1 DEF swVars, SwitcherKeepsRequests
<1>2. ASSUME NEW ok \in BOOLEAN, setVendorParameters(ok) PROVE SwitcherInv'
  <2>1. swLast + 1 \in Nat /\ Append(swMissed, swLast + 1) \in Seq(Nat)
    BY AppendProperties
  <2>2. CASE swIsStub
    BY <1>2, <2>1, <2>2 DEF setVendorParameters, SwitcherKeepsRequests
  <2>3. CASE ~swIsStub
    BY <1>2, <2>1, <2>3 DEF setVendorParameters, SwitcherKeepsRequests, InnerStream
  <2> QED BY <2>2, <2>3
<1>3. ASSUME NEW e \in StreamEffects, (\E ok \in BOOLEAN : addEffect(e, ok)) \/ removeEffect(e)
      PROVE  SwitcherInv'
  <2>1. /\ swEffects' \subseteq StreamEffects
        /\ UNCHANGED <<swIsStub, swMissed, swLast>>
        /\ swIsStub => swInner' = swInner
        /\ ~swIsStub => \/ swEffects' = swEffects \union {e} /\ swInner' = [swInner EXCEPT !.effects = @ \union {e}]
                        \/ swEffects' = swEffects \ {e} /\ swInner' = [swInner EXCEPT !.effects = @ \ {e}]
    BY <1>3 DEF addEffect, removeEffect
  <2>2. CASE swIsStub
    BY <2>1, <2>2 DEF SwitcherKeepsRequests
  <2>3. CASE ~swIsStub
    <3>1. /\ swInner' \in InnerStream /\ swInner'.kind = swInner.kind
          /\ swInner.effects = swEffects => swInner'.effects = swEffects'
      BY <2>1, <2>3 DEF InnerStream
    <3> QED BY <2>1, <2>3, <3>1 DEF SwitcherKeepsRequests
  <2> QED BY <2>2, <2>3
<1>4. ASSUME NEW state \in {"STANDBY", "IDLE"}, Command(state) PROVE SwitcherInv'
  BY <1>4 DEF Command, SwitcherKeepsRequests, InnerStream
<1>5. ASSUME NEW validate \in BOOLEAN, swInner' = CloseCurrent(validate),
             UNCHANGED <<swIsStub, swMissed, swEffects, swLast>>
      PROVE  SwitcherInv'
  <2>1. NoInner.kind = "none" /\ NoInner.devices = {}
    BY NewInner DEF NoInner
  <2> QED BY <1>5, <2>1, ClosedInner DEF SwitcherKeepsRequests
<1>6. ASSUME NEW devices \in SwitcherDevices, ConnectDevices(devices) PROVE SwitcherInv'
  <2>1. CASE NullStream
    BY <2>1 DEF NullStream, SwitcherKeepsRequests
  <2>2. CASE UseCurrent(devices)
    BY <2>2 DEF UseCurrent, SwitcherKeepsRequests, InnerStream
  <2>3. CASE NotClosed
    BY <1>5, <2>3 DEF NotClosed
  <2>4. CASE CreateNew(devices)
    <3>1. LastMissed \in Nat /\ <<>> \in Seq(Nat)
      BY DEF LastMissed
    <3>2. /\ Inner("real", devices) \in InnerStream
          /\ swInner' = [Inner("real", devices) EXCEPT !.parameter = LastMissed, !.effects = swEffects]
      BY <2>4, NewInner DEF CreateNew
    <3>3. swInner' \in InnerStream /\ swInner'.effects = swEffects
      BY <3>1, <3>2 DEF InnerStream
    <3> QED BY <2>4, <3>1, <3>3 DEF CreateNew, SwitcherKeepsRequests
  <2>5. CASE CreateFails(devices)
    BY <2>5, NewInner DEF CreateFails, FailedIsStub, SwitcherKeepsRequests
  <2>6. CASE ToStub(devices)
    BY <2>6, NewInner DEF ToStub, SwitcherKeepsRequests
  <2> QED BY <1>6, <2>1, <2>2, <2>3, <2>4, <2>5, <2>6 DEF ConnectDevices
<1>7. CASE CloseSwitcher
  BY <1>5, <1>7 DEF CloseSwitcher
<1> QED BY <1>1, <1>2, <1>3, <1>4, <1>6, <1>7 DEF SwitcherNext

----------------------------------------------------------------------------------
(* The reverb. Each setter converts the parameter that it stores; the two levels     *)
(* share one of the library's, which either setter computes from both.             *)
Library == {"Level", "LPF", "T60", "Damping", "Density", "RoomSize"}
Follows(saved, lib) ==
  /\ lib.Level = convertLevel(saved.roomLevel + saved.level - kMaxReverbLevel)
  /\ lib.LPF = convertHfLevel(saved.roomHfLevel) /\ lib.T60 = saved.decayTime
  /\ lib.Damping = saved.decayHfRatio \div 20 /\ lib.Density = saved.diffusion \div 10
  /\ lib.RoomSize = ((saved.density * 99) \div 1000) + 1
ReverbTypeOK(saved, lib) ==
  /\ saved = [p \in Parameters |-> saved[p]] /\ lib = [p \in Library |-> lib[p]]
Good(state) == ReverbTypeOK(state.saved, state.lib) /\ Follows(state.saved, state.lib)
ReverbInv == Good(Now)

\* What each of the library's parameters follows.
Followed(field, saved) ==
  IF field = "Level" THEN convertLevel(saved.roomLevel + saved.level - kMaxReverbLevel)
  ELSE IF field = "LPF" THEN convertHfLevel(saved.roomHfLevel)
  ELSE IF field = "T60" THEN saved.decayTime
  ELSE IF field = "Damping" THEN saved.decayHfRatio \div 20
  ELSE IF field = "Density" THEN saved.diffusion \div 10
  ELSE ((saved.density * 99) \div 1000) + 1

LEMMA FollowsEach ==
  ASSUME NEW saved, NEW lib
  PROVE  Follows(saved, lib) <=> \A field \in Library : lib[field] = Followed(field, saved)
<1>1. /\ Followed("Level", saved) = convertLevel(saved.roomLevel + saved.level - kMaxReverbLevel)
      /\ Followed("LPF", saved) = convertHfLevel(saved.roomHfLevel)
      /\ Followed("T60", saved) = saved.decayTime
      /\ Followed("Damping", saved) = saved.decayHfRatio \div 20
      /\ Followed("Density", saved) = saved.diffusion \div 10
      /\ Followed("RoomSize", saved) = ((saved.density * 99) \div 1000) + 1
  BY DEF Followed
<1> QED BY <1>1 DEF Follows, Library

LEMMA SetterFollows ==
  ASSUME NEW state, Good(state), NEW name \in Parameters, NEW value
  PROVE  Good(After(state, name, value))
<1> DEFINE saved == [state.saved EXCEPT ![name] = Limited(name, value)]
           lib == LibraryAfter(state.lib, name, saved)
<1>1. SUFFICES ReverbTypeOK(saved, lib) /\ Follows(saved, lib)
  BY DEF After, Good
<1>2. /\ saved = [p \in Parameters |-> saved[p]]
      /\ \A p \in Parameters \ {name} : saved[p] = state.saved[p]
  BY DEF Good, ReverbTypeOK
<1>3. /\ state.lib = [p \in Library |-> state.lib[p]]
      /\ \A p \in Library : state.lib[p] = Followed(p, state.saved)
  BY FollowsEach DEF Good, ReverbTypeOK
<1> HIDE DEF saved
\* The library's parameters that a setter leaves alone follow what it leaves alone.
<1>4. ASSUME NEW field \in Library, lib = [state.lib EXCEPT ![field] = Followed(field, saved)],
             \A p \in Library \ {field} : Followed(p, saved) = Followed(p, state.saved)
      PROVE  ReverbTypeOK(saved, lib) /\ Follows(saved, lib)
  <2> HIDE DEF lib
  <2>1. lib = [p \in Library |-> lib[p]] /\ lib[field] = Followed(field, saved)
    BY <1>3, <1>4
  <2>2. \A p \in Library \ {field} : lib[p] = state.lib[p]
    BY <1>3, <1>4
  <2>3. \A p \in Library : lib[p] = Followed(p, saved)
    BY <1>3, <1>4, <2>1, <2>2
  <2> QED BY <1>2, <2>1, <2>3, FollowsEach DEF ReverbTypeOK
<1>5. CASE name \in {"roomLevel", "level"}
  <2>1. lib = [state.lib EXCEPT !["Level"] = Followed("Level", saved)]
    BY <1>5 DEF LibraryAfter, CombinedLevel, Followed
  <2>2. /\ saved.roomHfLevel = state.saved.roomHfLevel /\ saved.decayTime = state.saved.decayTime
        /\ saved.decayHfRatio = state.saved.decayHfRatio /\ saved.density = state.saved.density
        /\ saved.diffusion = state.saved.diffusion
    BY <1>2, <1>5 DEF Parameters
  <2>3. \A p \in Library \ {"Level"} : Followed(p, saved) = Followed(p, state.saved)
    BY <2>2 DEF Followed, Library
  <2> QED BY <1>4, <2>1, <2>3 DEF Library
<1>6. CASE name = "roomHfLevel"
  <2>1. lib = [state.lib EXCEPT !["LPF"] = Followed("LPF", saved)]
    BY <1>6 DEF LibraryAfter, Followed
  <2>2. /\ saved.roomLevel = state.saved.roomLevel /\ saved.decayTime = state.saved.decayTime
        /\ saved.decayHfRatio = state.saved.decayHfRatio /\ saved.level = state.saved.level
        /\ saved.diffusion = state.saved.diffusion /\ saved.density = state.saved.density
    BY <1>2, <1>6 DEF Parameters
  <2>3. \A p \in Library \ {"LPF"} : Followed(p, saved) = Followed(p, state.saved)
    BY <2>2 DEF Followed, Library
  <2> QED BY <1>4, <2>1, <2>3 DEF Library
<1>7. CASE name = "decayTime"
  <2>1. lib = [state.lib EXCEPT !["T60"] = Followed("T60", saved)]
    BY <1>7 DEF LibraryAfter, Followed
  <2>2. /\ saved.roomLevel = state.saved.roomLevel /\ saved.roomHfLevel = state.saved.roomHfLevel
        /\ saved.decayHfRatio = state.saved.decayHfRatio /\ saved.level = state.saved.level
        /\ saved.diffusion = state.saved.diffusion /\ saved.density = state.saved.density
    BY <1>2, <1>7 DEF Parameters
  <2>3. \A p \in Library \ {"T60"} : Followed(p, saved) = Followed(p, state.saved)
    BY <2>2 DEF Followed, Library
  <2> QED BY <1>4, <2>1, <2>3 DEF Library
<1>8. CASE name = "decayHfRatio"
  <2>1. lib = [state.lib EXCEPT !["Damping"] = Followed("Damping", saved)]
    BY <1>8 DEF LibraryAfter, Followed
  <2>2. /\ saved.roomLevel = state.saved.roomLevel /\ saved.roomHfLevel = state.saved.roomHfLevel
        /\ saved.decayTime = state.saved.decayTime /\ saved.level = state.saved.level
        /\ saved.diffusion = state.saved.diffusion /\ saved.density = state.saved.density
    BY <1>2, <1>8 DEF Parameters
  <2>3. \A p \in Library \ {"Damping"} : Followed(p, saved) = Followed(p, state.saved)
    BY <2>2 DEF Followed, Library
  <2> QED BY <1>4, <2>1, <2>3 DEF Library
<1>9. CASE name = "diffusion"
  <2>1. lib = [state.lib EXCEPT !["Density"] = Followed("Density", saved)]
    BY <1>9 DEF LibraryAfter, Followed
  <2>2. /\ saved.roomLevel = state.saved.roomLevel /\ saved.roomHfLevel = state.saved.roomHfLevel
        /\ saved.decayTime = state.saved.decayTime /\ saved.decayHfRatio = state.saved.decayHfRatio
        /\ saved.level = state.saved.level /\ saved.density = state.saved.density
    BY <1>2, <1>9 DEF Parameters
  <2>3. \A p \in Library \ {"Density"} : Followed(p, saved) = Followed(p, state.saved)
    BY <2>2 DEF Followed, Library
  <2> QED BY <1>4, <2>1, <2>3 DEF Library
<1>10. CASE name = "density"
  <2>1. lib = [state.lib EXCEPT !["RoomSize"] = Followed("RoomSize", saved)]
    BY <1>10 DEF LibraryAfter, Followed
  <2>2. /\ saved.roomLevel = state.saved.roomLevel /\ saved.roomHfLevel = state.saved.roomHfLevel
        /\ saved.decayTime = state.saved.decayTime /\ saved.decayHfRatio = state.saved.decayHfRatio
        /\ saved.level = state.saved.level /\ saved.diffusion = state.saved.diffusion
    BY <1>2, <1>10 DEF Parameters
  <2>3. \A p \in Library \ {"RoomSize"} : Followed(p, saved) = Followed(p, state.saved)
    BY <2>2 DEF Followed, Library
  <2> QED BY <1>4, <2>1, <2>3 DEF Library
<1> QED BY <1>5, <1>6, <1>7, <1>8, <1>9, <1>10 DEF Parameters

LEMMA ReverbBegins == RvInit => ReverbInv
<1> SUFFICES ASSUME RvInit PROVE ReverbInv
  OBVIOUS
<1>1. ReverbTypeOK(rvSaved, rvLib)
  BY DEF RvInit, ReverbTypeOK, Parameters, Library
<1>2. convertLevel(-6000 + -6000 - kMaxReverbLevel) = 0
  <2> DEFINE I == {i \in 1..Len(LevelMapping) : -14000 <= LevelMapping[i]}
  <2>1. Len(LevelMapping) \in Nat
    BY ReverbAssumption
  <2>2. CASE LevelMapping = <<>>
    BY <2>2 DEF convertLevel, SelectInSeq, kMaxReverbLevel
  <2>3. CASE LevelMapping # <<>>
    <3>1. 1 \in I /\ \A i \in I : 1 <= i
      BY <2>1, <2>3, ReverbAssumption
    <3>2. \A i \in I : (\A k \in I : i <= k) => i = 1
      BY <2>1, <3>1
    <3>3. Min(I) = 1
      BY <3>1, <3>2 DEF Min
    <3>4. SelectInSeq(LevelMapping, LAMBDA l : -14000 <= l) = 1
      BY <3>1, <3>3 DEF SelectInSeq
    <3> QED BY <3>4 DEF convertLevel, kMaxReverbLevel
  <2> QED BY <2>2, <2>3
<1>3. convertHfLevel(0) = 23999
  BY ReverbAssumption DEF convertHfLevel, SelectInSeq
<1>4. 420 \div 20 = 21 /\ 1000 \div 10 = 100 /\ ((1000 * 99) \div 1000) + 1 = 100
  OBVIOUS
<1>5. Follows(rvSaved, rvLib)
  BY <1>2, <1>3, <1>4 DEF RvInit, Follows
<1> QED BY <1>1, <1>5 DEF ReverbInv, Good, Now

LEMMA ReverbGoesOn == ReverbInv /\ [RvNext]_rvVars => ReverbInv'
<1> SUFFICES ASSUME ReverbInv, [RvNext]_rvVars PROVE ReverbInv'
  OBVIOUS
<1>1. ASSUME NEW state, Good(state), rvSaved' = state.saved, rvLib' = state.lib PROVE ReverbInv'
  <2>1. ReverbTypeOK(rvSaved', rvLib') /\ Follows(rvSaved', rvLib')
    BY <1>1 DEF Good
  <2> QED BY <2>1 DEF ReverbInv, Good, Now, ReverbTypeOK, Follows
<1>2. CASE UNCHANGED <<rvSaved, rvLib>>
  BY <1>1, <1>2 DEF ReverbInv, Now
<1>3. ASSUME NEW name \in Parameters, NEW value, setEnvironmentalReverb(name, value) PROVE ReverbInv'
  BY <1>1, <1>3, SetterFollows DEF setEnvironmentalReverb, ReverbInv
<1>4. ASSUME NEW preset PROVE Good(AfterPreset(preset))
  <2> DEFINE s1 == After(Now, "roomLevel", preset.roomLevel)
             s2 == After(s1, "roomHfLevel", preset.roomHfLevel)
             s3 == After(s2, "decayTime", preset.decayTime)
             s4 == After(s3, "decayHfRatio", preset.decayHfRatio)
             s5 == After(s4, "level", preset.level)
             s6 == After(s5, "diffusion", preset.diffusion)
             s7 == After(s6, "density", preset.density)
  <2>1. /\ "roomLevel" \in Parameters /\ "roomHfLevel" \in Parameters /\ "decayTime" \in Parameters
        /\ "decayHfRatio" \in Parameters /\ "level" \in Parameters /\ "diffusion" \in Parameters
        /\ "density" \in Parameters
    BY DEF Parameters
  <2>2. AfterPreset(preset) = s7
    BY DEF AfterPreset
  <2>3. Good(s1)
    BY <2>1, SetterFollows DEF ReverbInv
  <2> HIDE DEF s1
  <2>4. Good(s2)
    BY <2>1, <2>3, SetterFollows
  <2> HIDE DEF s2
  <2>5. Good(s3)
    BY <2>1, <2>4, SetterFollows
  <2> HIDE DEF s3
  <2>6. Good(s4)
    BY <2>1, <2>5, SetterFollows
  <2> HIDE DEF s4
  <2>7. Good(s5)
    BY <2>1, <2>6, SetterFollows
  <2> HIDE DEF s5
  <2>8. Good(s6)
    BY <2>1, <2>7, SetterFollows
  <2> HIDE DEF s6
  <2>9. Good(s7)
    BY <2>1, <2>8, SetterFollows
  <2> QED BY <2>2, <2>9
<1>5. CASE loadPreset
  BY <1>1, <1>2, <1>4, <1>5 DEF loadPreset
<1>6. UNCHANGED <<rvSaved, rvLib>> \/ loadPreset
      \/ \E name \in Parameters : \E value \in Settings[name] : setEnvironmentalReverb(name, value)
  BY DEF RvNext, rvVars, enableReverb, disableReverb, processReverb, setEnvironmentalReverbBypass,
         setPresetReverbPreset
<1> QED BY <1>2, <1>3, <1>5, <1>6

LEMMA ReverbFollows == ReverbInv => LibraryFollowsParameters
BY DEF ReverbInv, Good, Now, Follows, LibraryFollowsParameters

----------------------------------------------------------------------------------
(* The dynamics processing effect *)
ChannelFields == {"gain", "on", "bands", "limiter"}
BufferFields == {"gain", "on", "bands", "limiter", "factor"}
HasStages(p) == p.on \in [Stages -> BOOLEAN] /\ p.bands = [s \in Stages |-> p.bands[s]]
\* A channel has the bands of the architecture that its engine was made with.
ChannelOK(p, built) ==
  /\ p = [f \in ChannelFields |-> p[f]] /\ HasStages(p)
  /\ \A s \in Stages : DOMAIN p.bands[s] = 1..BandsInUse(built, s)
\* A factor of a bin that a band covers is that of the band.
Shapes(factor, bands, off, base) ==
  \A k \in Bins : Covering(bands, k) # {}
    => factor[k] = base + (LET b == bands[Upper(Covering(bands, k))] IN IF b.on THEN b.gain ELSE off)
\* What the burst before was shaped with is what its buffer holds.
BufferOK(cb, built) ==
  /\ HasStages(cb)
  /\ \A s \in Stages : ~built.inUse[s] => ~cb.on[s]
  /\ cb.on["preEq"] => Shapes(cb.factor["preEq"], cb.bands["preEq"], cb.gain, cb.gain)
  /\ ~cb.on["preEq"] => \A k \in Bins : cb.factor["preEq"][k] = cb.gain
  /\ cb.on["postEq"] => Shapes(cb.factor["postEq"], cb.bands["postEq"], 0, 0)
ChannelsOK(channels, built) ==
  /\ channels = [c \in DOMAIN channels |-> channels[c]]
  /\ \A c \in DOMAIN channels : ChannelOK(channels[c], built)
BuffersOK(buffers, built) == \A c \in DOMAIN buffers : BufferOK(buffers[c], built)
EngineOK(engine, built) ==
  /\ engine = [f \in {"channels", "buffers", "linked"} |-> engine[f]]
  /\ ChannelsOK(engine.channels, built) /\ BuffersOK(engine.buffers, built)
  /\ DOMAIN engine.buffers = DOMAIN engine.channels
Advance == BlockSize - OverlapSize
FillOK(fill) == fill \in [in : Nat, out : Nat] /\ fill.in + fill.out < Advance
DynamicsInv == /\ dpCount \in Nat /\ dpArch \in Architectures /\ dpBuilt \in Architectures
               /\ EngineOK(dpEngine, dpBuilt) /\ FillOK(dpFill)

LEMMA NewEngineOK ==
  ASSUME NEW a \in Architectures, NEW n \in Nat PROVE EngineOK(NewEngine(a, n), a)
<1> DEFINE engine == NewEngine(a, n)
<1>1. engine = [f \in {"channels", "buffers", "linked"} |-> engine[f]]
  BY DEF NewEngine
<1>2. /\ engine.channels = [c \in 1..n |-> NewChannel(a)]
      /\ engine.buffers = [c \in 1..n |-> NewBuffer(a)]
  BY DEF NewEngine
<1>3. AllOff \in [Stages -> BOOLEAN] /\ NewBands(a) = [s \in Stages |-> NewBands(a)[s]]
      /\ \A s \in Stages : DOMAIN NewBands(a)[s] = 1..BandsInUse(a, s) /\ AllOff[s] = FALSE
  BY DEF AllOff, NewBands
<1>4. ChannelOK(NewChannel(a), a)
  <2>1. NewChannel(a) = [f \in ChannelFields |-> NewChannel(a)[f]]
        /\ NewChannel(a).on = AllOff /\ NewChannel(a).bands = NewBands(a)
    BY DEF NewChannel, ChannelFields
  <2> QED BY <1>3, <2>1 DEF ChannelOK, HasStages
<1>5. BufferOK(NewBuffer(a), a)
  <2>1. /\ NewBuffer(a).on = AllOff /\ NewBuffer(a).bands = NewBands(a) /\ NewBuffer(a).gain = 0
        /\ NewBuffer(a).factor = [s \in {"preEq", "postEq"} |-> [k \in Bins |-> 0]]
    BY DEF NewBuffer
  <2>2. \A k \in Bins : NewBuffer(a).factor["preEq"][k] = 0
    BY <2>1
  <2>3. "preEq" \in Stages /\ "postEq" \in Stages
    BY DEF Stages
  <2>4. HasStages(NewBuffer(a)) /\ ~NewBuffer(a).on["preEq"] /\ ~NewBuffer(a).on["postEq"]
    BY <1>3, <2>1, <2>3 DEF HasStages
  <2>5. \A s \in Stages : ~NewBuffer(a).on[s]
    BY <1>3, <2>1
  <2> QED BY <2>1, <2>2, <2>4, <2>5 DEF BufferOK
<1> HIDE DEF engine
<1> QED BY <1>1, <1>2, <1>4, <1>5 DEF EngineOK, ChannelsOK, BuffersOK, engine

LEMMA DynamicsBegins == DpInit => DynamicsInv
<1> SUFFICES ASSUME DpInit PROVE DynamicsInv
  OBVIOUS
<1>1. dpCount \in Nat /\ dpArch \in Architectures /\ dpBuilt = dpArch
  BY DpAssumption DEF DpInit
<1>2. EngineOK(dpEngine, dpBuilt)
  BY <1>1, NewEngineOK DEF DpInit
<1>3. FillOK(dpFill)
  BY DpAssumption DEF DpInit, FillOK, Advance
<1> QED BY <1>1, <1>2, <1>3 DEF DynamicsInv

----------------------------------------------------------------------------------
\* Each call of the client leaves channels of the same shape.
LEMMA ChannelsReplaced ==
  ASSUME EngineOK(dpEngine, dpBuilt), NEW channels, WithChannels(channels),
         ChannelsOK(channels, dpBuilt), DOMAIN channels = DOMAIN dpEngine.channels
  PROVE  EngineOK(dpEngine', dpBuilt)
<1>1. /\ dpEngine' = [f \in {"channels", "buffers", "linked"} |-> dpEngine'[f]]
      /\ dpEngine'.channels = channels /\ dpEngine'.buffers = dpEngine.buffers
  BY DEF EngineOK, WithChannels
<1> QED BY <1>1 DEF EngineOK

LEMMA ChannelChanged ==
  ASSUME NEW built, NEW p, ChannelOK(p, built)
  PROVE  /\ \A s \in Stages, on \in BOOLEAN : ChannelOK([p EXCEPT !.on[s] = on], built)
         /\ \A s \in Stages : \A bands : DOMAIN bands = DOMAIN p.bands[s]
              => LET q == [p EXCEPT !.bands[s] = bands]
                 IN ChannelOK(q, built) /\ q.bands[s] = bands
         /\ \A limiter : ChannelOK([p EXCEPT !.limiter = limiter], built)
         /\ \A gain : ChannelOK([p EXCEPT !.gain = gain], built)
<1> USE DEF ChannelOK, HasStages, ChannelFields
<1>1. ASSUME NEW s \in Stages, NEW on \in BOOLEAN PROVE ChannelOK([p EXCEPT !.on[s] = on], built)
  OBVIOUS
<1>2. ASSUME NEW s \in Stages, NEW bands, DOMAIN bands = DOMAIN p.bands[s]
      PROVE  LET q == [p EXCEPT !.bands[s] = bands] IN ChannelOK(q, built) /\ q.bands[s] = bands
  <2> DEFINE q == [p EXCEPT !.bands[s] = bands]
  <2>1. q = [f \in ChannelFields |-> q[f]] /\ q.on = p.on /\ q.bands = [p.bands EXCEPT ![s] = bands]
    OBVIOUS
  <2> HIDE DEF q
  <2>2. q.bands = [t \in Stages |-> q.bands[t]] /\ q.bands[s] = bands
        /\ \A t \in Stages \ {s} : q.bands[t] = p.bands[t]
    BY <2>1
  <2>3. \A t \in Stages : DOMAIN q.bands[t] = 1..BandsInUse(built, t)
    BY <1>2, <2>2
  <2> QED BY <2>1, <2>2, <2>3 DEF q
<1>3. ASSUME NEW limiter PROVE ChannelOK([p EXCEPT !.limiter = limiter], built)
  OBVIOUS
<1>4. ASSUME NEW gain PROVE ChannelOK([p EXCEPT !.gain = gain], built)
  OBVIOUS
<1> QED BY <1>1, <1>2, <1>3, <1>4

----------------------------------------------------------------------------------
\* A burst leaves buffers that are shaped with what they hold.
LEMMA ShapedShapes ==
  ASSUME NEW bands, NEW old, NEW off, NEW base
  PROVE  Shapes(Shaped(bands, old, off, base), bands, off, base)
BY DEF Shapes, Shaped

LEMMA BufferGoesOn ==
  ASSUME NEW cb, NEW p, BufferOK(cb, dpBuilt), ChannelOK(p, dpBuilt),
         \A s \in Stages : dpBuilt.inUse[s] \in BOOLEAN
  PROVE  BufferOK(updateParameters(cb, p), dpBuilt)
<1> DEFINE new == updateParameters(cb, p)
           on == [s \in Stages |-> On(cb, p, s)]
           bands == [s \in Stages |-> Taken(cb, p, s)]
<1> USE DEF Stages
<1>1. /\ new.on = on /\ new.bands = bands /\ new.gain = p.gain
      /\ new.factor["preEq"] =
           (IF ~Changed(cb, p, "preEq") THEN cb.factor["preEq"]
            ELSE IF on["preEq"] THEN Shaped(bands["preEq"], cb.factor["preEq"], p.gain, p.gain)
            ELSE [k \in Bins |-> p.gain])
      /\ new.factor["postEq"] =
           (IF Changed(cb, p, "postEq") /\ on["postEq"]
            THEN Shaped(bands["postEq"], cb.factor["postEq"], 0, 0) ELSE cb.factor["postEq"])
  BY DEF updateParameters
<1> HIDE DEF new
<1>2. on \in [Stages -> BOOLEAN]
  BY DEF ChannelOK, BufferOK, HasStages, On
<1>3. \A s \in Stages : ~dpBuilt.inUse[s] => ~on[s]
  BY DEF BufferOK, On
<1>4. \A s \in Stages : ~Changed(cb, p, s) => on[s] = cb.on[s] /\ bands[s] = cb.bands[s]
  BY DEF Changed
<1>5. ~Changed(cb, p, "preEq") => p.gain = cb.gain
  BY DEF Changed
<1>6. on["preEq"] => Shapes(new.factor["preEq"], bands["preEq"], p.gain, p.gain)
  <2>1. ASSUME Changed(cb, p, "preEq"), on["preEq"]
        PROVE  Shapes(new.factor["preEq"], bands["preEq"], p.gain, p.gain)
    <3> HIDE DEF on, bands
    <3>1. new.factor["preEq"] = Shaped(bands["preEq"], cb.factor["preEq"], p.gain, p.gain)
      BY <1>1, <2>1, Zenon
    <3> QED BY <3>1, ShapedShapes, Zenon
  <2>2. CASE ~Changed(cb, p, "preEq")
    <3>1. new.factor["preEq"] = cb.factor["preEq"] /\ on["preEq"] = cb.on["preEq"]
          /\ bands["preEq"] = cb.bands["preEq"] /\ p.gain = cb.gain
      BY <1>1, <1>4, <1>5, <2>2
    <3> QED BY <3>1 DEF BufferOK
  <2> QED BY <2>1, <2>2
<1>7. ~on["preEq"] => \A k \in Bins : new.factor["preEq"][k] = p.gain
  <2>1. CASE Changed(cb, p, "preEq")
    BY <1>1, <2>1
  <2>2. CASE ~Changed(cb, p, "preEq")
    <3>1. new.factor["preEq"] = cb.factor["preEq"] /\ on["preEq"] = cb.on["preEq"]
          /\ p.gain = cb.gain
      BY <1>1, <1>4, <1>5, <2>2
    <3> QED BY <3>1 DEF BufferOK
  <2> QED BY <2>1, <2>2
<1>8. on["postEq"] => Shapes(new.factor["postEq"], bands["postEq"], 0, 0)
  <2>1. ASSUME Changed(cb, p, "postEq"), on["postEq"]
        PROVE  Shapes(new.factor["postEq"], bands["postEq"], 0, 0)
    <3> HIDE DEF on, bands
    <3>1. new.factor["postEq"] = Shaped(bands["postEq"], cb.factor["postEq"], 0, 0)
      BY <1>1, <2>1, Zenon
    <3> QED BY <3>1, ShapedShapes, Zenon
  <2>2. CASE ~Changed(cb, p, "postEq")
    <3>1. new.factor["postEq"] = cb.factor["postEq"] /\ on["postEq"] = cb.on["postEq"]
          /\ bands["postEq"] = cb.bands["postEq"]
      BY <1>1, <1>4, <2>2
    <3> QED BY <3>1 DEF BufferOK
  <2> QED BY <2>1, <2>2
<1>9. bands = [s \in Stages |-> bands[s]]
  OBVIOUS
<1> HIDE DEF on, bands
<1> QED BY <1>1, <1>2, <1>3, <1>6, <1>7, <1>8, <1>9 DEF BufferOK, HasStages, new

\* Whole advances go through: what waits for more is less than one.
LEMMA FillGoesOn ==
  ASSUME NEW fill, FillOK(fill), NEW frames \in Nat
  PROVE  LET whole == ((fill.in + frames) \div Advance) * Advance
         IN FillOK([in |-> fill.in + frames - whole,
                    out |-> fill.out + whole - FramesRead(fill.out + whole, frames)])
<1> DEFINE whole == ((fill.in + frames) \div Advance) * Advance
           all == fill.in + frames
<1>1. Advance \in Nat /\ Advance > 0
  BY DpAssumption DEF Advance
<1>2. all \in Nat /\ fill.in \in Nat /\ fill.out \in Nat /\ fill.in + fill.out < Advance
  BY DEF FillOK
<1> HIDE DEF all
<1>3. \A n \in Nat, d \in Nat : d > 0 => (n \div d) \in Nat
  OBVIOUS
<1>4. \A n \in Nat, d \in Nat : d > 0 => 0 <= n - (n \div d) * d /\ n - (n \div d) * d < d
  OBVIOUS
<1>5. whole \in Nat /\ all - whole \in 0..(Advance - 1)
  <2>1. (all \div Advance) \in Nat
    BY <1>1, <1>2, <1>3
  <2>2. whole = (all \div Advance) * Advance
    BY DEF all
  <2>3. 0 <= all - whole /\ all - whole < Advance
    BY <1>1, <1>2, <1>4, <2>2
  <2> HIDE DEF whole
  <2>4. \A q \in Nat : q * Advance \in Nat
    BY <1>1
  <2>5. whole \in Nat
    BY <2>1, <2>2, <2>4
  <2> QED BY <1>1, <1>2, <2>3, <2>5
<1> HIDE DEF whole
<1>6. fill.out + whole - FramesRead(fill.out + whole, frames) \in Nat
  BY <1>2, <1>5 DEF FramesRead
<1>7. (all - whole) + (fill.out + whole - FramesRead(fill.out + whole, frames)) < Advance
  <2>1. CASE fill.out + whole < frames
    BY <1>1, <1>2, <1>5, <2>1 DEF FramesRead
  <2>2. CASE ~(fill.out + whole < frames)
    BY <1>1, <1>2, <1>5, <2>2 DEF FramesRead, all
  <2> QED BY <2>1, <2>2
<1>8. all - whole \in Nat
  BY <1>1, <1>5
<1> DEFINE in == all - whole
           out == fill.out + whole - FramesRead(fill.out + whole, frames)
<1>9. in \in Nat /\ out \in Nat /\ in + out < Advance
  BY <1>6, <1>7, <1>8
<1> HIDE DEF in, out
<1>10. FillOK([in |-> in, out |-> out])
  BY <1>9 DEF FillOK
<1>11. in = fill.in + frames - whole
  BY <1>2, <1>5 DEF in, all
<1> QED BY <1>10, <1>11, Zenon DEF out, whole, all

----------------------------------------------------------------------------------
LEMMA DynamicsGoesOn == DynamicsInv /\ [DpNext]_dpVars => DynamicsInv'
<1> SUFFICES ASSUME DynamicsInv, [DpNext]_dpVars PROVE DynamicsInv'
  OBVIOUS
<1>1. /\ dpCount \in Nat /\ dpArch \in Architectures /\ dpBuilt \in Architectures
      /\ EngineOK(dpEngine, dpBuilt) /\ FillOK(dpFill)
  BY DEF DynamicsInv
<1>2. /\ dpEngine = [f \in {"channels", "buffers", "linked"} |-> dpEngine[f]]
      /\ dpEngine.channels = [c \in DOMAIN dpEngine.channels |-> dpEngine.channels[c]]
      /\ \A c \in DOMAIN dpEngine.channels : ChannelOK(dpEngine.channels[c], dpBuilt)
      /\ \A c \in DOMAIN dpEngine.buffers : BufferOK(dpEngine.buffers[c], dpBuilt)
      /\ DOMAIN dpEngine.buffers = DOMAIN dpEngine.channels
  BY <1>1 DEF EngineOK, ChannelsOK, BuffersOK
<1>3. \A channels :
        (/\ channels = [c \in DOMAIN dpEngine.channels |-> channels[c]]
         /\ \A c \in DOMAIN dpEngine.channels : ChannelOK(channels[c], dpBuilt))
          => ChannelsOK(channels, dpBuilt) /\ DOMAIN channels = DOMAIN dpEngine.channels
  <2> SUFFICES ASSUME NEW channels,
                      channels = [c \in DOMAIN dpEngine.channels |-> channels[c]],
                      \A c \in DOMAIN dpEngine.channels : ChannelOK(channels[c], dpBuilt)
               PROVE  ChannelsOK(channels, dpBuilt) /\ DOMAIN channels = DOMAIN dpEngine.channels
    OBVIOUS
  <2>1. DOMAIN channels = DOMAIN dpEngine.channels
    OBVIOUS
  <2> QED BY <2>1, Zenon DEF ChannelsOK
<1>4. ASSUME NEW channels, WithChannels(channels), UNCHANGED <<dpContext, dpFill>>,
             channels = [c \in DOMAIN dpEngine.channels |-> channels[c]],
             \A c \in DOMAIN dpEngine.channels : ChannelOK(channels[c], dpBuilt)
      PROVE  DynamicsInv'
  <2>1. ChannelsOK(channels, dpBuilt) /\ DOMAIN channels = DOMAIN dpEngine.channels
    BY <1>3, <1>4, Zenon
  <2>2. EngineOK(dpEngine', dpBuilt)
    BY <1>1, <1>4, <2>1, ChannelsReplaced
  <2>3. dpCount' = dpCount /\ dpArch' = dpArch /\ dpBuilt' = dpBuilt /\ dpFill' = dpFill
    BY <1>4 DEF dpContext
  <2> QED BY <1>1, <2>2, <2>3 DEF DynamicsInv
<1>5. CASE UNCHANGED dpVars
  <2>1. dpCount' = dpCount /\ dpArch' = dpArch /\ dpBuilt' = dpBuilt /\ dpFill' = dpFill /\ dpEngine' = dpEngine
    BY <1>5 DEF dpVars
  <2> QED BY <1>1, <2>1 DEF DynamicsInv
<1>6. CASE enableDynamics \/ disableDynamics \/ resetDynamics
  <2>1. dpCount' = dpCount /\ dpArch' = dpArch /\ dpBuilt' = dpBuilt /\ dpFill' = dpFill /\ dpEngine' = dpEngine
    BY <1>6 DEF enableDynamics, disableDynamics, resetDynamics
  <2> QED BY <1>1, <2>1 DEF DynamicsInv
<1>7. ASSUME NEW n \in ChannelCounts, setDynamicsCommon(n) PROVE DynamicsInv'
  <2>1. dpCount' \in Nat /\ dpArch' = dpArch /\ dpBuilt' = dpBuilt /\ dpFill' = dpFill /\ dpEngine' = dpEngine
    BY <1>7, DpAssumption DEF setDynamicsCommon
  <2> QED BY <1>1, <2>1 DEF DynamicsInv
<1>8. ASSUME NEW a \in Architectures, setEngineArchitecture(a) PROVE DynamicsInv'
  <2>1. CASE ~dpInited \/ dpArch # a
    <3>1. CASE a.frequency
      <4>1. /\ dpCount' = dpCount /\ dpArch' = a /\ dpBuilt' = a
            /\ dpEngine' = NewEngine(a, dpCount) /\ dpFill' = [in |-> 0, out |-> 0]
        BY <1>8, <2>1, <3>1 DEF setEngineArchitecture
      <4>2. FillOK(dpFill')
        BY <4>1, DpAssumption DEF FillOK, Advance
      <4>3. EngineOK(dpEngine', dpBuilt')
        BY <1>1, <4>1, NewEngineOK
      <4> QED BY <1>1, <4>1, <4>2, <4>3 DEF DynamicsInv
    <3>2. CASE ~a.frequency
      <4>1. dpCount' = dpCount /\ dpArch' = a /\ dpBuilt' = dpBuilt /\ dpFill' = dpFill /\ dpEngine' = dpEngine
        BY <1>8, <2>1, <3>2 DEF setEngineArchitecture
      <4> QED BY <1>1, <4>1 DEF DynamicsInv
    <3> QED BY <3>1, <3>2
  <2>2. CASE ~(~dpInited \/ dpArch # a)
    <3>1. dpCount' = dpCount /\ dpArch' = dpArch /\ dpBuilt' = dpBuilt /\ dpFill' = dpFill /\ dpEngine' = dpEngine
      BY <1>8, <2>2 DEF setEngineArchitecture
    <3> QED BY <1>1, <3>1 DEF DynamicsInv
  <2> QED BY <2>1, <2>2
<1>9. ASSUME NEW s \in StagesSet, NEW configs, setDpChannels(s, configs) PROVE DynamicsInv'
  <2> DEFINE named(c) == {i \in DOMAIN configs : configs[i].channel = c /\ c <= dpCount}
             enabled(c) == \E i \in named(c) : configs[i].enable /\ \A k \in named(c) : k <= i
             channels == [c \in DOMAIN dpEngine.channels |->
                            IF named(c) = {} THEN dpEngine.channels[c]
                            ELSE [dpEngine.channels[c] EXCEPT !.on[s] = enabled(c)]]
  <2>1. s \in Stages
    BY DpAssumption
  <2>2. WithChannels(channels) /\ UNCHANGED <<dpContext, dpFill>>
    BY <1>9 DEF setDpChannels
  <2>3. \A c \in DOMAIN dpEngine.channels : ChannelOK(channels[c], dpBuilt)
    <3> TAKE c \in DOMAIN dpEngine.channels
    <3>1. enabled(c) \in BOOLEAN
      BY Zenon
    <3>2. ChannelOK(dpEngine.channels[c], dpBuilt)
      BY <1>2
    <3> HIDE DEF enabled
    <3>3. ChannelOK([dpEngine.channels[c] EXCEPT !.on[s] = enabled(c)], dpBuilt)
      BY <2>1, <3>1, <3>2, ChannelChanged
    <3> HIDE DEF named
    <3>4. channels[c] = (IF named(c) = {} THEN dpEngine.channels[c]
                         ELSE [dpEngine.channels[c] EXCEPT !.on[s] = enabled(c)])
      BY DEF channels
    <3> QED BY <3>2, <3>3, <3>4, Zenon
  <2>4. channels = [c \in DOMAIN dpEngine.channels |-> channels[c]]
    OBVIOUS
  <2> HIDE DEF channels
  <2> QED BY <1>4, <2>2, <2>3, <2>4
<1>10. ASSUME NEW s \in StagesSet, NEW configs, setBands(s, configs) PROVE DynamicsInv'
  <2>1. CASE validateBandConfig(s, configs)
    <3>1. WithChannels(Stored(s, configs)) /\ UNCHANGED <<dpContext, dpFill>>
      BY <1>10, <2>1 DEF setBands
    <3>2. s \in Stages
      BY DpAssumption
    <3>3. Stored(s, configs) = [c \in DOMAIN dpEngine.channels |-> Stored(s, configs)[c]]
      BY DEF Stored
    <3>4. \A c \in DOMAIN dpEngine.channels : ChannelOK(Stored(s, configs)[c], dpBuilt)
      <4> TAKE c \in DOMAIN dpEngine.channels
      <4> DEFINE p == dpEngine.channels[c]
      <4>1. ChannelOK(p, dpBuilt)
        BY <1>2
      <4>2. p = [f \in ChannelFields |-> p[f]] /\ p.bands = [t \in Stages |-> p.bands[t]]
        BY <4>1 DEF ChannelOK, HasStages
      <4>3. Stored(s, configs)[c] = [p EXCEPT !.bands[s] = setBand(p.bands[s], c, configs)]
        BY <3>2, <4>2 DEF Stored, ChannelFields
      <4>4. DOMAIN setBand(p.bands[s], c, configs) = DOMAIN p.bands[s]
        BY DEF setBand
      <4> HIDE DEF p
      <4> QED BY <3>2, <4>1, <4>3, <4>4, ChannelChanged
    <3> QED BY <1>4, <3>1, <3>3, <3>4
  <2>2. CASE ~validateBandConfig(s, configs)
    <3>1. dpCount' = dpCount /\ dpArch' = dpArch /\ dpBuilt' = dpBuilt /\ dpFill' = dpFill /\ dpEngine' = dpEngine
      BY <1>10, <2>2 DEF setBands, dpContext
    <3> QED BY <1>1, <3>1 DEF DynamicsInv
  <2> QED BY <2>1, <2>2
<1>11. ASSUME NEW c \in Channels, NEW on, NEW group, setLimiter(c, on, group) PROVE DynamicsInv'
  <2> DEFINE limiter == [on |-> on, group |-> group]
             channels == [dpEngine.channels EXCEPT ![c].limiter = limiter]
  <2>1. WithChannels(channels) /\ UNCHANGED <<dpContext, dpFill>> /\ c \in DOMAIN dpEngine.channels
    BY <1>11 DEF setLimiter, InEngine
  <2> HIDE DEF limiter
  <2>2. \A d \in DOMAIN dpEngine.channels :
          channels[d] = IF d = c THEN [dpEngine.channels[d] EXCEPT !.limiter = limiter] ELSE dpEngine.channels[d]
    BY <1>2
  <2>3. ChannelOK([dpEngine.channels[c] EXCEPT !.limiter = limiter], dpBuilt)
    BY <1>2, <2>1, ChannelChanged
  <2>4. channels = [d \in DOMAIN dpEngine.channels |-> channels[d]]
    BY <1>2
  <2> HIDE DEF channels
  <2> QED BY <1>2, <1>4, <2>1, <2>2, <2>3, <2>4
<1>12. ASSUME NEW c \in Channels, NEW gain, setInputGain(c, gain) PROVE DynamicsInv'
  <2> DEFINE channels == [dpEngine.channels EXCEPT ![c].gain = gain]
  <2>1. WithChannels(channels) /\ UNCHANGED <<dpContext, dpFill>> /\ c \in DOMAIN dpEngine.channels
    BY <1>12 DEF setInputGain, InEngine
  <2>2. \A d \in DOMAIN dpEngine.channels :
          channels[d] = IF d = c THEN [dpEngine.channels[d] EXCEPT !.gain = gain] ELSE dpEngine.channels[d]
    BY <1>2
  <2>3. ChannelOK([dpEngine.channels[c] EXCEPT !.gain = gain], dpBuilt)
    BY <1>2, <2>1, ChannelChanged
  <2>4. channels = [d \in DOMAIN dpEngine.channels |-> channels[d]]
    BY <1>2
  <2> HIDE DEF channels
  <2> QED BY <1>2, <1>4, <2>1, <2>2, <2>3, <2>4
<1>13. ASSUME NEW frames \in DpBursts, processDynamics(frames) PROVE DynamicsInv'
  <2> DEFINE buffers == [c \in DOMAIN dpEngine.channels |->
                           updateParameters(dpEngine.buffers[c], dpEngine.channels[c])]
             whole == ((dpFill.in + frames) \div Advance) * Advance
  <2>1. /\ dpEngine' = [dpEngine EXCEPT !.buffers = buffers, !.linked = Relinked(buffers)]
        /\ dpFill' = [in |-> dpFill.in + frames - whole,
                      out |-> dpFill.out + whole - FramesRead(dpFill.out + whole, frames)]
        /\ dpCount' = dpCount /\ dpArch' = dpArch /\ dpBuilt' = dpBuilt
    BY <1>13 DEF processDynamics, dpContext, Advance
  <2>2. FillOK(dpFill')
    BY <1>1, <2>1, FillGoesOn, DpAssumption
  <2>3. \A s \in Stages : dpBuilt.inUse[s] \in BOOLEAN
    BY <1>1, DpAssumption
  <2>4. \A c \in DOMAIN dpEngine.channels : BufferOK(buffers[c], dpBuilt)
    BY <1>2, <2>3, BufferGoesOn
  <2>5. DOMAIN buffers = DOMAIN dpEngine.channels
    OBVIOUS
  <2> HIDE DEF buffers
  <2>6. /\ dpEngine' = [f \in {"channels", "buffers", "linked"} |-> dpEngine'[f]]
        /\ dpEngine'.channels = dpEngine.channels /\ dpEngine'.buffers = buffers
    BY <1>2, <2>1
  <2>7. EngineOK(dpEngine', dpBuilt)
    BY <1>1, <2>4, <2>5, <2>6 DEF EngineOK, BuffersOK
  <2> QED BY <1>1, <2>1, <2>2, <2>7 DEF DynamicsInv
<1> QED BY <1>5, <1>6, <1>7, <1>8, <1>9, <1>10, <1>11, <1>12, <1>13 DEF DpNext
----------------------------------------------------------------------------------
\* Where a call succeeds, each of its bands is in the engine and is read back.
LEMMA DynamicsStores == DynamicsInv => SuccessIsStored
<1> SUFFICES ASSUME DynamicsInv, dpBuilt = dpArch, NEW s \in StagesSet, dpArch.inUse[s],
                    NEW configs \in Configs(BandConfigs), Succeeds(s, configs),
                    NEW i \in DOMAIN configs
             PROVE  configs[i] \in ReadBack(s, Stored(s, configs))
  BY DEF SuccessIsStored, Range
<1> DEFINE r == configs[i]
           chs == Stored(s, configs)
           c == r.channel
           b == r.band
           p == dpEngine.channels[c]
           named == {k \in DOMAIN configs : configs[k].channel = c /\ configs[k].band = b}
<1>1. r \in BandConfigs
  <2>1. PICK n \in 1..MaxConfigs : configs \in [1..n -> BandConfigs]
    BY DEF Configs
  <2> QED BY <2>1
<1>2. c \in 1..2 /\ b \in 1..2 /\ r = [channel |-> c, band |-> b, value |-> r.value]
  BY <1>1 DEF BandConfigs, Channels
<1>3. c \in DOMAIN dpEngine.channels /\ c <= dpCount /\ b <= dpArch.bandCount[s]
  BY DEF Succeeds, validateBandConfig, validateBand, InEngine
<1>4. s \in Stages /\ dpCount \in Nat /\ dpArch.bandCount[s] \in Nat
  BY DpAssumption DEF DynamicsInv
<1>5. b \in 1..dpArch.bandCount[s] /\ c \in 1..dpCount
  BY <1>2, <1>3, <1>4
<1>6. ChannelOK(p, dpBuilt)
  BY <1>3 DEF DynamicsInv, EngineOK, ChannelsOK
<1>7. p = [f \in ChannelFields |-> p[f]] /\ p.bands = [t \in Stages |-> p.bands[t]]
      /\ DOMAIN p.bands[s] = 1..dpArch.bandCount[s]
  BY <1>4, <1>6 DEF ChannelOK, HasStages, BandsInUse
<1>8. chs[c].bands[s] = setBand(p.bands[s], c, configs)
  BY <1>3, <1>4, <1>7 DEF Stored, ChannelFields
<1>9. named = {i}
  BY DEF Succeeds, validateBandConfig
<1>10. (CHOOSE k \in named : TRUE) = i
  BY <1>9
<1> HIDE DEF p
<1>11. chs[c].bands[s][b] = r.value /\ DOMAIN chs[c].bands[s] = 1..dpArch.bandCount[s]
  <2>1. b \in DOMAIN p.bands[s]
    BY <1>5, <1>7
  <2>2. setBand(p.bands[s], c, configs)[b] = r.value
    BY <1>9, <1>10, <2>1, Zenon DEF setBand
  <2>3. DOMAIN setBand(p.bands[s], c, configs) = DOMAIN p.bands[s]
    BY DEF setBand
  <2> QED BY <1>7, <1>8, <2>2, <2>3
<1>12. DOMAIN chs = DOMAIN dpEngine.channels
  BY DEF Stored
<1> HIDE DEF chs, r, c, b
<1>13. r \in ReadBack(s, chs)
  <2> DEFINE of(d) == {[channel |-> d, band |-> e, value |-> chs[d].bands[s][e]] :
                         e \in 1..dpArch.bandCount[s] \intersect DOMAIN chs[d].bands[s]}
  <2>1. r \in of(c)
    BY <1>2, <1>5, <1>11
  <2>2. c \in 1..dpCount \intersect DOMAIN chs
    BY <1>3, <1>5, <1>12
  <2>3. ReadBack(s, chs) = UNION {of(d) : d \in 1..dpCount \intersect DOMAIN chs}
    BY DEF ReadBack
  <2> HIDE DEF of
  <2> QED BY <2>1, <2>2, <2>3
<1> QED BY <1>13 DEF r, chs

\* A burst leaves what is in its buffers as the parameters of their channels say.
LEMMA DynamicsShapes ==
  ASSUME DynamicsInv, NEW frames \in DpBursts, processDynamics(frames),
         NEW c \in DOMAIN dpEngine.channels
  PROVE  LET p == dpEngine.channels[c]
             made == dpEngine'.buffers[c].factor
         IN /\ dpBuilt.inUse["preEq"] /\ p.on["preEq"] => Shapes(made["preEq"], p.bands["preEq"], p.gain, p.gain)
            /\ ~p.on["preEq"] => \A k \in Bins : made["preEq"][k] = p.gain
            /\ dpBuilt.inUse["postEq"] /\ p.on["postEq"] => Shapes(made["postEq"], p.bands["postEq"], 0, 0)
<1> DEFINE p == dpEngine.channels[c]
           cb == dpEngine.buffers[c]
           new == dpEngine'.buffers[c]
<1>1. /\ dpEngine = [f \in {"channels", "buffers", "linked"} |-> dpEngine[f]]
      /\ ChannelOK(p, dpBuilt) /\ BufferOK(cb, dpBuilt)
      /\ \A s \in Stages : dpBuilt.inUse[s] \in BOOLEAN
  BY DpAssumption DEF DynamicsInv, EngineOK, ChannelsOK, BuffersOK
<1>2. new = updateParameters(cb, p)
  BY <1>1 DEF processDynamics
<1> HIDE DEF p, cb, new
<1>3. BufferOK(new, dpBuilt)
  BY <1>1, <1>2, BufferGoesOn
<1>4. /\ new.on = [s \in Stages |-> On(cb, p, s)] /\ new.bands = [s \in Stages |-> Taken(cb, p, s)]
      /\ new.gain = p.gain
  BY <1>2 DEF updateParameters
<1>5. \A s \in Stages : dpBuilt.inUse[s] /\ p.on[s] => new.on[s] /\ new.bands[s] = p.bands[s]
  BY <1>4, Zenon DEF On, Taken
<1>6. \A s \in Stages : ~p.on[s] => ~new.on[s]
  BY <1>1, <1>4 DEF On, BufferOK
<1>7. "preEq" \in Stages /\ "postEq" \in Stages
  BY DEF Stages
<1>8. dpBuilt.inUse["preEq"] /\ p.on["preEq"] => Shapes(new.factor["preEq"], p.bands["preEq"], p.gain, p.gain)
  <2> SUFFICES ASSUME dpBuilt.inUse["preEq"], p.on["preEq"]
               PROVE  Shapes(new.factor["preEq"], p.bands["preEq"], p.gain, p.gain)
    OBVIOUS
  <2>1. new.on["preEq"] /\ new.bands["preEq"] = p.bands["preEq"]
    BY <1>5, <1>7
  <2> QED BY <1>3, <1>4, <2>1 DEF BufferOK
<1>9. dpBuilt.inUse["postEq"] /\ p.on["postEq"] => Shapes(new.factor["postEq"], p.bands["postEq"], 0, 0)
  <2> SUFFICES ASSUME dpBuilt.inUse["postEq"], p.on["postEq"]
               PROVE  Shapes(new.factor["postEq"], p.bands["postEq"], 0, 0)
    OBVIOUS
  <2>1. new.on["postEq"] /\ new.bands["postEq"] = p.bands["postEq"]
    BY <1>5, <1>7
  <2> QED BY <1>3, <2>1 DEF BufferOK
<1>10. ~p.on["preEq"] => \A k \in Bins : new.factor["preEq"][k] = p.gain
  <2> SUFFICES ASSUME ~p.on["preEq"] PROVE \A k \in Bins : new.factor["preEq"][k] = p.gain
    OBVIOUS
  <2>1. ~new.on["preEq"]
    BY <1>6, <1>7
  <2> QED BY <1>3, <1>4, <2>1 DEF BufferOK
<1> QED BY <1>8, <1>9, <1>10 DEF p, new

\* What the property writes with Shaped is what Shapes says.
LEMMA ShapesIsShaped ==
  ASSUME NEW bands, NEW made, NEW off, NEW base, Shapes(made, bands, off, base)
  PROVE  \A k \in Bins : Covering(bands, k) # {} => made[k] = Shaped(bands, made, off, base)[k]
BY DEF Shapes, Shaped

LEMMA DynamicsAreShaped == DynamicsInv => [ShapesBurst]_dpVars
BY DynamicsShapes, ShapesIsShaped DEF ShapesBurst
----------------------------------------------------------------------------------
(* The Bluetooth ports. That a port goes to one stream rests on the module holding *)
(* one port for each connected device, and none that a stream plays to.            *)
StreamsOK == bpStreams \in [MixHandles -> [at : {"none", "open", "closing"},
                                            proxy : ProxyIds \union {NoProxy}, enabled : BOOLEAN]]
StatesOK == bpState \in [ProxyIds -> [of : Descriptions, at : {"DISABLED", "STANDBY", "STARTED"}]]
PortsOK == /\ bpNextPort \in 1..(LastPortId + 1) /\ DOMAIN bpPorts \subseteq 1..(bpNextPort - 1)
           /\ \A p \in DOMAIN bpPorts : bpPorts[p] \in Descriptions
           /\ \A p, q \in DOMAIN bpPorts : bpPorts[p] = bpPorts[q] => p = q
TablesOK == /\ \A p \in DOMAIN bpProxies : bpProxies[p] \in [proxy : ProxyIds, rate : BtRates]
            /\ DOMAIN bpWeak \subseteq Descriptions /\ \A d \in DOMAIN bpWeak : bpWeak[d] \in ProxyIds
            /\ DOMAIN bpConnections \subseteq MixHandles
            /\ bpSettings \in [Descriptions -> BOOLEAN]
            /\ PortsAreGivenBack
OneOwner ==
  /\ \A p \in DOMAIN bpProxies : bpState[bpProxies[p].proxy].of = bpPorts[p]
  /\ \A p \in DOMAIN bpProxies, m \in MixHandles : bpProxies[p].proxy # bpStreams[m].proxy
  /\ OneStreamPerPort
ProxiesInv == StreamsOK /\ StatesOK /\ PortsOK /\ TablesOK /\ (~ConfiguresInUse => OneOwner)

LEMMA ProxiesAreTyped == ProxiesInv => BluetoothProxiesTypeOK
<1> SUFFICES ASSUME ProxiesInv PROVE BluetoothProxiesTypeOK
  OBVIOUS
<1>1. 1..(bpNextPort - 1) \subseteq 1..LastPortId
  BY ProxiesAssumption DEF ProxiesInv, PortsOK
<1> QED BY <1>1 DEF ProxiesInv, StreamsOK, StatesOK, PortsOK, TablesOK, BluetoothProxiesTypeOK

LEMMA ProxiesBegin == ProxiesInit => ProxiesInv
<1> SUFFICES ASSUME ProxiesInit PROVE ProxiesInv
  OBVIOUS
<1> USE DEF ProxiesInit, NoPorts
<1>1. StreamsOK /\ StatesOK /\ PortsOK
  BY ProxiesAssumption DEF StreamsOK, StatesOK, PortsOK, NoStream, NoProxy, Unregistered, Descriptions
<1>2. TablesOK
  BY DEF TablesOK, PortsAreGivenBack
<1>3. OneOwner
  BY DEF OneOwner, OneStreamPerPort, NoStream
<1> QED BY <1>1, <1>2, <1>3 DEF ProxiesInv

\* Two ports that the module holds are of two devices.
LEMMA TwoProxies ==
  ASSUME ProxiesInv, ~ConfiguresInUse, NEW p \in DOMAIN bpProxies, NEW q \in DOMAIN bpProxies,
         bpProxies[p].proxy = bpProxies[q].proxy
  PROVE  p = q
BY DEF ProxiesInv, OneOwner, PortsOK, TablesOK, PortsAreGivenBack

\* A new proxy is nobody's.
LEMMA ProxyCreated ==
  ASSUME ProxiesInv, NEW p, NEW d \in Descriptions, NEW rate \in BtRates,
         createProxyFor(p, d, rate), p \notin DOMAIN bpProxies,
         bpPorts' = bpPorts \/ bpPorts' = Replaced(bpPorts, p, d),
         p \in DOMAIN bpPorts', bpPorts'[p] = d, PortsOK',
         UNCHANGED <<bpConnections, bpStreams, bpSettings>>
  PROVE  ProxiesInv'
<1> USE DEF ProxiesInv
<1>1. PICK x \in FreeIds : /\ bpProxies' = Inserted(bpProxies, p, [proxy |-> x, rate |-> rate])
                           /\ bpWeak' = Replaced(bpWeak, d, x)
                           /\ bpState' = [bpState EXCEPT ![x] = [of |-> d, at |-> "STANDBY"]]
  BY DEF createProxyFor
<1>2. x \in ProxyIds /\ ~Alive(x)
  BY DEF FreeIds
<1>3. /\ DOMAIN bpProxies' = {p} \union DOMAIN bpProxies /\ bpProxies'[p] = [proxy |-> x, rate |-> rate]
      /\ \A q \in DOMAIN bpProxies : bpProxies'[q] = bpProxies[q]
  BY <1>1 DEF Inserted
<1>4. DOMAIN bpWeak' = {d} \union DOMAIN bpWeak
      /\ \A e \in DOMAIN bpWeak' : bpWeak'[e] = IF e = d THEN x ELSE bpWeak[e]
  BY <1>1 DEF Replaced
<1>5. StatesOK' /\ \A y \in ProxyIds : bpState'[y] = IF y = x THEN [of |-> d, at |-> "STANDBY"] ELSE bpState[y]
  BY <1>1, <1>2 DEF StatesOK
<1>6. StreamsOK'
  BY DEF StreamsOK
<1>7. DOMAIN bpPorts \subseteq DOMAIN bpPorts' /\ \A q \in DOMAIN bpProxies : bpPorts'[q] = bpPorts[q]
  BY DEF Replaced, TablesOK, PortsAreGivenBack
<1>8. TablesOK'
  BY <1>2, <1>3, <1>4, <1>7 DEF TablesOK, PortsAreGivenBack
<1>9. ASSUME ~ConfiguresInUse PROVE OneOwner'
  <2>1. OneOwner
    BY <1>9
  <2>2. \A q \in DOMAIN bpProxies : bpProxies[q].proxy # x /\ bpProxies[q].proxy \in ProxyIds
    BY <1>2 DEF Alive, TablesOK
  <2>3. \A m \in MixHandles : bpStreams[m].proxy # x
    BY <1>2 DEF Alive
  <2>4. \A q \in DOMAIN bpProxies' : bpState'[bpProxies'[q].proxy].of = bpPorts'[q]
    BY <1>2, <1>3, <1>5, <1>7, <2>1, <2>2 DEF OneOwner
  <2>5. \A q \in DOMAIN bpProxies', m \in MixHandles : bpProxies'[q].proxy # bpStreams'[m].proxy
    BY <1>3, <2>1, <2>3 DEF OneOwner
  <2>6. OneStreamPerPort'
    BY <2>1 DEF OneOwner, OneStreamPerPort
  <2> QED BY <2>4, <2>5, <2>6 DEF OneOwner
<1> QED BY <1>5, <1>6, <1>8, <1>9

LEMMA ConnectDeviceKeeps ==
  ASSUME ProxiesInv, NEW d \in Descriptions, NEW ok \in BOOLEAN, NEW rate \in LoadedRates(d),
         ConnectDevice(d, rate, ok)
  PROVE  ProxiesInv'
<1> USE DEF ProxiesInv
<1>1. bpNextPort \in Nat /\ bpNextPort' \in 1..(LastPortId + 1) /\ bpNextPort' = bpNextPort + 1
      /\ bpNextPort \notin DOMAIN bpPorts
  BY ProxiesAssumption DEF ConnectDevice, PortsOK
<1>2. 1..(bpNextPort - 1) \subseteq 1..(bpNextPort' - 1) /\ bpNextPort \in 1..(bpNextPort' - 1)
  BY <1>1 DEF PortsOK
<1>3. CASE ok
  <2>1. createProxyFor(bpNextPort, d, rate) /\ bpPorts' = Replaced(bpPorts, bpNextPort, d)
        /\ UNCHANGED <<bpConnections, bpStreams, bpSettings>>
    BY <1>3 DEF ConnectDevice
  <2>2. DOMAIN bpPorts' = {bpNextPort} \union DOMAIN bpPorts /\ bpPorts'[bpNextPort] = d
        /\ \A p \in DOMAIN bpPorts : bpPorts'[p] = bpPorts[p]
    BY <1>1, <2>1 DEF Replaced
  <2>3. PortsOK'
    BY <1>1, <1>2, <2>2 DEF PortsOK, ConnectDevice
  <2>4. bpNextPort \notin DOMAIN bpProxies
    BY <1>1 DEF TablesOK, PortsAreGivenBack
  <2>5. rate \in BtRates
    BY ProxiesAssumption
  <2> QED BY <2>1, <2>2, <2>3, <2>4, <2>5, ProxyCreated
<1>4. CASE ~ok
  <2>1. UNCHANGED <<bpPorts, bpProxies, bpWeak, bpState, bpConnections, bpStreams, bpSettings>>
    BY <1>4 DEF ConnectDevice
  <2>2. PortsOK'
    BY <1>1, <1>2, <2>1 DEF PortsOK
  <2> QED BY <2>1, <2>2 DEF StreamsOK, StatesOK, TablesOK, PortsAreGivenBack, OneOwner, OneStreamPerPort
<1> QED BY <1>3, <1>4

LEMMA DisconnectDeviceKeeps ==
  ASSUME ProxiesInv, NEW p \in DOMAIN bpPorts, DisconnectDevice(p) PROVE ProxiesInv'
<1> USE DEF ProxiesInv
<1>1. /\ DOMAIN bpPorts' = DOMAIN bpPorts \ {p} /\ DOMAIN bpProxies' = DOMAIN bpProxies \ {p}
      /\ \A q \in DOMAIN bpPorts' : bpPorts'[q] = bpPorts[q]
      /\ \A q \in DOMAIN bpProxies' : bpProxies'[q] = bpProxies[q]
      /\ UNCHANGED <<bpNextPort, bpWeak, bpConnections, bpStreams, bpState, bpSettings>>
  BY DEF DisconnectDevice, Erased
<1>2. PortsOK' /\ TablesOK'
  BY <1>1 DEF PortsOK, TablesOK, PortsAreGivenBack
<1>3. StreamsOK' /\ StatesOK'
  BY <1>1 DEF StreamsOK, StatesOK
<1>4. OneOwner => OneOwner'
  BY <1>1 DEF OneOwner, OneStreamPerPort, TablesOK, PortsAreGivenBack
<1> QED BY <1>2, <1>3, <1>4

LEMMA ConfigureDeviceKeeps ==
  ASSUME ProxiesInv, NEW p \in DOMAIN bpPorts, NEW rate \in LoadedRates(bpPorts[p]), NEW ok \in BOOLEAN,
         ConfigureDevice(p, rate, ok)
  PROVE  ProxiesInv'
<1> USE DEF ProxiesInv
<1> DEFINE d == bpPorts[p]
<1>1. d \in Descriptions /\ rate \in BtRates /\ p \notin DOMAIN bpProxies
      /\ UNCHANGED <<bpPorts, bpNextPort, bpConnections, bpStreams, bpSettings>>
  BY ProxiesAssumption DEF PortsOK, ConfigureDevice
<1>2. PortsOK' /\ StreamsOK'
  BY <1>1 DEF PortsOK, StreamsOK
<1>3. CASE ok /\ ProxyInUse(d)
  <2> DEFINE x == bpWeak[d]
  <2>1. bpProxies' = Inserted(bpProxies, p, [proxy |-> x, rate |-> rate]) /\ UNCHANGED <<bpWeak, bpState>>
        /\ (ConfiguresInUse \/ ~StreamPlaysTo(d))
    BY <1>3 DEF ConfigureDevice
  <2>2. /\ DOMAIN bpProxies' = {p} \union DOMAIN bpProxies /\ bpProxies'[p] = [proxy |-> x, rate |-> rate]
        /\ \A q \in DOMAIN bpProxies : bpProxies'[q] = bpProxies[q]
    BY <1>1, <2>1 DEF Inserted
  <2>3. Alive(x) /\ bpState[x].of = d
    BY <1>3 DEF ProxyInUse
  <2>4. x \in ProxyIds
    BY <1>3 DEF ProxyInUse, TablesOK
  <2>5. TablesOK'
    BY <1>1, <2>1, <2>2, <2>4 DEF TablesOK, PortsAreGivenBack
  <2>6. ASSUME ~ConfiguresInUse PROVE FALSE
    <3>1. \A m \in MixHandles : bpStreams[m].proxy # x
      BY <1>3, <2>1, <2>6 DEF StreamPlaysTo
    <3>2. PICK q \in DOMAIN bpProxies : bpProxies[q].proxy = x
      BY <2>3, <3>1 DEF Alive
    <3>3. bpPorts[q] = d /\ q \in DOMAIN bpPorts
      BY <2>3, <2>6, <3>2 DEF OneOwner, TablesOK, PortsAreGivenBack
    <3> QED BY <1>1, <3>2, <3>3 DEF PortsOK
  <2> QED BY <1>2, <2>1, <2>5, <2>6 DEF StatesOK
<1>4. CASE ok /\ ~ProxyInUse(d)
  BY <1>1, <1>2, <1>4, ProxyCreated DEF ConfigureDevice
<1>5. CASE ~ok
  <2>1. bpWeak' = Erased(bpWeak, d) /\ UNCHANGED <<bpProxies, bpState>>
    BY <1>5 DEF ConfigureDevice
  <2>2. TablesOK'
    BY <1>1, <2>1 DEF TablesOK, PortsAreGivenBack, Erased
  <2> QED BY <1>1, <1>2, <2>1, <2>2 DEF StatesOK, OneOwner, OneStreamPerPort
<1> QED BY <1>3, <1>4, <1>5

LEMMA OpenOnProxyKeeps ==
  ASSUME ProxiesInv, NEW m \in MixHandles, NEW rate \in BtRates, OpenOnProxy(m, rate) PROVE ProxiesInv'
<1> USE DEF ProxiesInv
<1>1. DOMAIN bpConnections' = DOMAIN bpConnections \ {m}
      /\ UNCHANGED <<bpPorts, bpNextPort, bpWeak, bpState, bpSettings>>
  BY DEF OpenOnProxy, Erased
<1>2. DOMAIN bpProxies' \subseteq DOMAIN bpProxies /\ \A q \in DOMAIN bpProxies' : bpProxies'[q] = bpProxies[q]
  BY DEF OpenOnProxy, Handed, Erased
<1>3. PortsOK' /\ StatesOK' /\ TablesOK'
  BY <1>1, <1>2 DEF PortsOK, StatesOK, TablesOK, PortsAreGivenBack
<1>4. Fetched(m) \in ProxyIds \union {NoProxy}
  BY DEF Fetched, TablesOK
<1> DEFINE fresh == [NoStream EXCEPT !.at = "open", !.proxy = Fetched(m)]
           Record == [at : {"none", "open", "closing"}, proxy : ProxyIds \union {NoProxy}, enabled : BOOLEAN]
<1>5. fresh \in Record /\ fresh.proxy = Fetched(m)
  <2>1. NoStream \in Record
    BY DEF NoStream, NoProxy
  <2> QED BY <1>4, <2>1
<1>6. StreamsOK' /\ \A n \in MixHandles : bpStreams'[n].proxy = bpStreams[n].proxy
                                           \/ (n = m /\ bpStreams'[n].proxy = Fetched(m))
  <2>1. bpStreams' = bpStreams \/ bpStreams' = [bpStreams EXCEPT ![m] = fresh]
    BY Zenon DEF OpenOnProxy
  <2>2. bpStreams \in [MixHandles -> Record]
    BY DEF StreamsOK
  <2> HIDE DEF fresh, Record
  <2>3. bpStreams' \in [MixHandles -> Record]
    BY <1>5, <2>1, <2>2
  <2>4. \A n \in MixHandles : bpStreams'[n].proxy = bpStreams[n].proxy
                              \/ (n = m /\ bpStreams'[n].proxy = Fetched(m))
    BY <1>5, <2>1, <2>2
  <2> QED BY <2>3, <2>4 DEF StreamsOK, Record
<1> HIDE DEF fresh, Record
<1>7. ASSUME ~ConfiguresInUse PROVE OneOwner'
  <2>1. OneOwner
    BY <1>7
  <2>2. Fetched(m) # NoProxy => /\ \A q \in DOMAIN bpProxies' : bpProxies'[q].proxy # Fetched(m)
                                /\ \A n \in MixHandles : bpStreams[n].proxy # Fetched(m)
    <3> SUFFICES ASSUME Fetched(m) # NoProxy
                 PROVE  /\ \A q \in DOMAIN bpProxies' : bpProxies'[q].proxy # Fetched(m)
                        /\ \A n \in MixHandles : bpStreams[n].proxy # Fetched(m)
      OBVIOUS
    <3> DEFINE port == bpConnections[m]
    <3>1. port \in DOMAIN bpProxies /\ bpProxies[port].proxy = Fetched(m)
      BY DEF Fetched
    <3>2. DOMAIN bpProxies' = DOMAIN bpProxies \ {port}
      BY DEF OpenOnProxy, Handed, Erased
    <3>3. \A q \in DOMAIN bpProxies' : bpProxies'[q].proxy # Fetched(m)
      BY <1>2, <1>7, <3>1, <3>2, TwoProxies
    <3> QED BY <2>1, <3>1, <3>3 DEF OneOwner
  <2>4. \A q \in DOMAIN bpProxies' : bpProxies'[q].proxy # NoProxy
    BY <1>3 DEF TablesOK, ProxyIds, NoProxy
  <2>5. \A q \in DOMAIN bpProxies', n \in MixHandles : bpProxies'[q].proxy # bpStreams'[n].proxy
    BY <1>2, <1>6, <2>1, <2>2, <2>4 DEF OneOwner
  <2>6. OneStreamPerPort'
    BY <1>6, <2>1, <2>2 DEF OneOwner, OneStreamPerPort
  <2>7. \A q \in DOMAIN bpProxies' : bpState'[bpProxies'[q].proxy].of = bpPorts'[q]
    BY <1>1, <1>2, <2>1 DEF OneOwner
  <2> QED BY <2>5, <2>6, <2>7 DEF OneOwner
<1> QED BY <1>3, <1>6, <1>7

\* What a stream or a profile does leaves the ports where they are.
LEMMA PlayingKeeps ==
  ASSUME ProxiesInv, StreamsOK', StatesOK', UNCHANGED bpModule, bpSettings' \in [Descriptions -> BOOLEAN],
         \A m \in MixHandles : bpStreams'[m].proxy = bpStreams[m].proxy \/ bpStreams'[m].proxy = NoProxy,
         \A p \in DOMAIN bpProxies : bpState'[bpProxies[p].proxy].of = bpState[bpProxies[p].proxy].of
                                     \/ \E m \in MixHandles : bpStreams[m].proxy = bpProxies[p].proxy
  PROVE  ProxiesInv'
<1> USE DEF ProxiesInv
<1>1. UNCHANGED <<bpPorts, bpNextPort, bpProxies, bpWeak, bpConnections>>
  BY DEF bpModule
<1>2. PortsOK' /\ TablesOK'
  BY <1>1 DEF PortsOK, TablesOK, PortsAreGivenBack
<1>3. \A p \in DOMAIN bpProxies : bpProxies[p].proxy # NoProxy
  BY DEF TablesOK, ProxyIds, NoProxy
<1>4. ASSUME OneOwner PROVE OneOwner'
  <2>1. OneStreamPerPort'
    BY <1>4 DEF OneOwner, OneStreamPerPort
  <2>2. \A p \in DOMAIN bpProxies' : bpState'[bpProxies'[p].proxy].of = bpPorts'[p]
    BY <1>1, <1>4 DEF OneOwner
  <2>3. \A p \in DOMAIN bpProxies', m \in MixHandles : bpProxies'[p].proxy # bpStreams'[m].proxy
    BY <1>1, <1>3, <1>4 DEF OneOwner
  <2> QED BY <2>1, <2>2, <2>3 DEF OneOwner
<1> QED BY <1>2, <1>4

LEMMA StreamStepKeeps ==
  ASSUME ProxiesInv, NEW m \in MixHandles, NEW from, NEW state \in {"DISABLED", "STANDBY", "STARTED"},
         StreamStep(m, from, state),
         bpStreams' = bpStreams \/ bpStreams' = [bpStreams EXCEPT ![m].at = "closing"]
  PROVE  ProxiesInv'
<1> USE DEF ProxiesInv
<1>1. bpStreams[m].proxy \in ProxyIds /\ bpState' = [bpState EXCEPT ![bpStreams[m].proxy].at = state]
      /\ UNCHANGED <<bpModule, bpSettings>>
  BY DEF StreamStep, StreamsOK
<1>2. StatesOK' /\ \A x \in ProxyIds : bpState'[x].of = bpState[x].of
  BY <1>1 DEF StatesOK
<1>3. StreamsOK' /\ \A n \in MixHandles : bpStreams'[n].proxy = bpStreams[n].proxy
  BY DEF StreamsOK
<1>4. bpSettings' \in [Descriptions -> BOOLEAN] /\ \A p \in DOMAIN bpProxies : bpProxies[p].proxy \in ProxyIds
  BY <1>1 DEF TablesOK
<1> QED BY <1>1, <1>2, <1>3, <1>4, PlayingKeeps

LEMMA ShutdownStreamKeeps ==
  ASSUME ProxiesInv, NEW m \in MixHandles, ShutdownStream(m) PROVE ProxiesInv'
<1> USE DEF ProxiesInv
<1>1. /\ bpStreams' = [bpStreams EXCEPT ![m] = NoStream] /\ UNCHANGED <<bpModule, bpSettings>>
      /\ bpState' = [x \in ProxyIds |-> bpState'[x]]
      /\ \A x \in ProxyIds : bpState'[x] = bpState[x] \/ bpState'[x] = [bpState[x] EXCEPT !.at = "DISABLED"]
                             \/ (bpState'[x] = Unregistered /\ x = bpStreams[m].proxy)
  <2>1. /\ bpStreams' = [bpStreams EXCEPT ![m] = NoStream] /\ UNCHANGED <<bpModule, bpSettings>>
        /\ bpState' = [x \in ProxyIds |->
             IF x # bpStreams[m].proxy THEN bpState[x]
             ELSE IF x \in HeldElsewhere(m) THEN [bpState[x] EXCEPT !.at = "DISABLED"] ELSE Unregistered]
    BY DEF ShutdownStream
  <2>2. ASSUME NEW x \in ProxyIds
        PROVE  bpState'[x] = bpState[x] \/ bpState'[x] = [bpState[x] EXCEPT !.at = "DISABLED"]
               \/ (bpState'[x] = Unregistered /\ x = bpStreams[m].proxy)
    BY <2>1
  <2> QED BY <2>1, <2>2
<1>2. StatesOK' /\ \A x \in ProxyIds : bpState'[x].of = bpState[x].of \/ x = bpStreams[m].proxy
  BY <1>1 DEF StatesOK, Unregistered, Descriptions
<1>3. StreamsOK' /\ \A n \in MixHandles : bpStreams'[n].proxy = bpStreams[n].proxy \/ bpStreams'[n].proxy = NoProxy
  BY <1>1 DEF StreamsOK, NoStream, NoProxy
<1>4. bpSettings' \in [Descriptions -> BOOLEAN] /\ \A p \in DOMAIN bpProxies : bpProxies[p].proxy \in ProxyIds
  BY <1>1 DEF TablesOK
<1> QED BY <1>1, <1>2, <1>3, <1>4, PlayingKeeps

\* The proxies that a round of a profile tells are those of the streams.
LEMMA SetEnabledSteps ==
  ASSUME ProxiesInv, NEW d \in Descriptions, NEW on \in BOOLEAN, NEW failing \in BOOLEAN, SetEnabled(d, on, failing)
  PROVE  /\ StatesOK' /\ bpSettings' \in [Descriptions -> BOOLEAN] /\ UNCHANGED bpModule
         /\ \A x \in ProxyIds : bpState'[x].of = bpState[x].of
         /\ \A x \in ToldProxies : bpSettings'[bpState'[x].of] \/ bpState'[x].at = "DISABLED"
         /\ ToldProxies \subseteq ProxyIds
         /\ \A m \in MixHandles : bpStreams[m].proxy # NoProxy => bpStreams[m].proxy \in ToldProxies
<1> USE DEF ProxiesInv
<1>1. bpSettings' \in [Descriptions -> BOOLEAN] /\ UNCHANGED bpModule
  BY DEF SetEnabled, Switched, TablesOK
<1> DEFINE at(x) == IF ~bpSettings'[bpState[x].of] THEN "DISABLED"
                    ELSE IF bpState[x].at = "DISABLED" THEN "STANDBY" ELSE bpState[x].at
<1>2. /\ bpState' = [x \in ProxyIds |-> bpState'[x]]
      /\ \A x \in ProxyIds \ ToldProxies : bpState'[x] = bpState[x]
      /\ \A x \in ProxyIds \intersect ToldProxies : bpState'[x] = [bpState[x] EXCEPT !.at = at(x)]
  <2>1. bpState' = [x \in ProxyIds |->
                     IF x \notin ToldProxies THEN bpState[x] ELSE [bpState[x] EXCEPT !.at = at(x)]]
    BY DEF SetEnabled
  <2> HIDE DEF at
  <2> QED BY <2>1
<1>3. /\ ToldProxies \subseteq ProxyIds
      /\ \A m \in MixHandles : bpStreams[m].proxy # NoProxy => bpStreams[m].proxy \in ToldProxies
  BY DEF ToldProxies, Told, StreamsOK
<1>4. StatesOK' /\ \A x \in ProxyIds : bpState'[x].of = bpState[x].of
  <2>1. \A x \in ProxyIds : at(x) \in {"DISABLED", "STANDBY", "STARTED"}
    BY DEF StatesOK
  <2> HIDE DEF at
  <2> QED BY <1>2, <2>1 DEF StatesOK
<1>5. ASSUME NEW x \in ToldProxies PROVE bpSettings'[bpState'[x].of] \/ bpState'[x].at = "DISABLED"
  <2>1. x \in ProxyIds
    BY <1>3
  <2>2. CASE bpSettings'[bpState[x].of]
    BY <1>4, <2>1, <2>2
  <2>3. CASE ~bpSettings'[bpState[x].of]
    <3>1. bpState'[x] = [bpState[x] EXCEPT !.at = "DISABLED"]
      BY <1>2, <2>1, <2>3
    <3> QED BY <2>1, <3>1 DEF StatesOK
  <2> QED BY <2>2, <2>3
<1> QED BY <1>1, <1>3, <1>4, <1>5

LEMMA SetEnabledKeeps ==
  ASSUME ProxiesInv, NEW d \in Descriptions, NEW on \in BOOLEAN, NEW failing \in BOOLEAN, SetEnabled(d, on, failing)
  PROVE  ProxiesInv'
<1> USE DEF ProxiesInv
<1>1. /\ bpStreams' = [m \in MixHandles |-> bpStreams'[m]]
      /\ \A m \in MixHandles : bpStreams'[m] = bpStreams[m]
           \/ (/\ bpStreams[m].proxy \in ToldProxies
               /\ bpStreams'[m] = [bpStreams[m] EXCEPT !.enabled = bpSettings'[bpState[bpStreams[m].proxy].of]])
  BY DEF SetEnabled
<1>2. \A x \in ToldProxies : bpSettings'[bpState[x].of] \in BOOLEAN
  BY SetEnabledSteps DEF StatesOK
<1>3. StreamsOK' /\ \A m \in MixHandles : bpStreams'[m].proxy = bpStreams[m].proxy
  BY <1>1, <1>2 DEF StreamsOK
<1>4. \A p \in DOMAIN bpProxies : bpProxies[p].proxy \in ProxyIds
  BY DEF TablesOK
<1> QED BY <1>3, <1>4, SetEnabledSteps, PlayingKeeps

----------------------------------------------------------------------------------
LEMMA ProxiesGoOn == ProxiesInv /\ [ProxiesNext]_bpVars => ProxiesInv'
<1> SUFFICES ASSUME ProxiesInv, [ProxiesNext]_bpVars PROVE ProxiesInv'
  OBVIOUS
<1>1. CASE UNCHANGED bpVars
  BY <1>1 DEF bpVars, bpModule, ProxiesInv, StreamsOK, StatesOK, PortsOK, TablesOK, PortsAreGivenBack,
              OneOwner, OneStreamPerPort
<1>2. ASSUME NEW m \in MixHandles, NEW p \in DOMAIN bpPorts, NEW rate \in BtRates, PatchEndpoints(m, p, rate)
      PROVE  ProxiesInv'
  <2>1. DOMAIN bpConnections' = {m} \union DOMAIN bpConnections
        /\ UNCHANGED <<bpPorts, bpNextPort, bpProxies, bpWeak, bpStreams, bpState, bpSettings>>
    BY <1>2 DEF PatchEndpoints, Inserted
  <2> QED BY <2>1 DEF ProxiesInv, StreamsOK, StatesOK, PortsOK, TablesOK, PortsAreGivenBack,
                      OneOwner, OneStreamPerPort
<1>3. ASSUME NEW x \in ProxyIds, SessionEnds(x) PROVE ProxiesInv'
  <2>1. bpState' = [bpState EXCEPT ![x].at = "DISABLED"] /\ UNCHANGED <<bpModule, bpStreams, bpSettings>>
    BY <1>3 DEF SessionEnds
  <2>2. StatesOK' /\ \A y \in ProxyIds : bpState'[y].of = bpState[y].of
    BY <2>1 DEF ProxiesInv, StatesOK
  <2>3. StreamsOK' /\ bpSettings' \in [Descriptions -> BOOLEAN]
        /\ \A p \in DOMAIN bpProxies : bpProxies[p].proxy \in ProxyIds
    BY <2>1 DEF ProxiesInv, StreamsOK, TablesOK
  <2> QED BY <2>1, <2>2, <2>3, PlayingKeeps
<1>4. ASSUME NEW m \in MixHandles, StartPort(m) \/ SuspendPort(m) \/ PrepareToClose(m) PROVE ProxiesInv'
  BY <1>4, StreamStepKeeps DEF StartPort, SuspendPort, PrepareToClose
<1> QED BY <1>1, <1>2, <1>3, <1>4, ConnectDeviceKeeps, DisconnectDeviceKeeps, ConfigureDeviceKeeps,
           OpenOnProxyKeeps, ShutdownStreamKeeps, SetEnabledKeeps DEF ProxiesNext

\* Only a round of a profile changes its setting.
LEMMA ProxiesAreSilent == ProxiesInv /\ [ProxiesNext]_bpVars => [Silenced]_bpVars
<1> SUFFICES ASSUME ProxiesInv, [ProxiesNext]_bpVars, bpSettings' # bpSettings, NEW m \in MixHandles,
                    bpStreams[m].proxy # NoProxy
             PROVE  LET x == bpState'[bpStreams[m].proxy] IN bpSettings'[x.of] \/ x.at = "DISABLED"
  BY DEF Silenced
<1>1. PICK d \in Descriptions, on \in BOOLEAN, failing \in BOOLEAN : SetEnabled(d, on, failing)
  BY DEF ProxiesNext, bpVars, ConnectDevice, DisconnectDevice, ConfigureDevice, StartPort, SuspendPort,
         PrepareToClose, StreamStep, ShutdownStream, OpenOnProxy, PatchEndpoints, SessionEnds
<1> QED BY <1>1, SetEnabledSteps
----------------------------------------------------------------------------------
(* The visualizer. Two rings: the samples of the capture and the measurements.     *)
\* How many entries were written after the one in place k of a ring.
Behind(size, idx, k) == IF k < idx THEN idx - 1 - k ELSE idx - 1 - k + size
\* A place holds the entry that was last written there, or 0 when it was erased.
Ring(ring, size, idx, written, erased) ==
  \A k \in 0..(size - 1) :
    ring[k] = LET entry == written - Behind(size, idx, k) IN IF entry > erased THEN entry ELSE 0
CaptureInv ==
  /\ vzIdx \in 0..BufSize /\ vzFrames \in Nat /\ vzErased \in 0..vzFrames
  /\ vzSize \in 1..BufSize /\ vzLatency \in Nat
  /\ DOMAIN vzBuf = 0..(BufSize - 1) /\ Ring(vzBuf, BufSize, vzIdx, vzFrames, vzErased)
PastInv ==
  /\ vzPastIdx \in 0..(Window - 1) /\ vzMeasured \in Nat /\ vzDropped \in 0..vzMeasured
  /\ vzPast \in [0..(Window - 1) -> Nat] /\ Ring(vzPast, Window, vzPastIdx, vzMeasured, vzDropped)

LEMMA Wraps ==
  ASSUME NEW n \in Nat, n > 0, NEW x \in Int
  PROVE  /\ 0 <= x /\ x < n => x % n = x
         /\ n <= x /\ x < 2 * n => x % n = x - n
         /\ -n <= x /\ x < 0 => x % n = x + n
<1>1. ASSUME 0 <= x, x < n PROVE x % n = x
  BY <1>1
<1>2. ASSUME n <= x, x < 2 * n PROVE x % n = x - n
  BY <1>2
<1>3. ASSUME -n <= x, x < 0 PROVE x % n = x + n
  BY <1>3
<1> QED BY <1>1, <1>2, <1>3

\* A ring of which everything was erased.
LEMMA RingErased ==
  ASSUME NEW size \in Nat, size > 0, NEW idx \in 0..size, NEW written \in Nat, NEW ring,
         \A k \in 0..(size - 1) : ring[k] = 0
  PROVE  Ring(ring, size, idx, written, written)
BY DEF Ring, Behind

\* A burst of n entries, of which the first goes behind the last that was written.
LEMMA RingWritten ==
  ASSUME NEW size \in Nat, size > 0, NEW idx \in 0..size, NEW written \in Nat,
         NEW erased \in 0..written, NEW n \in 1..size, NEW ring, NEW next, NEW after \in 0..size,
         Ring(ring, size, idx, written, erased),
         \A k \in 0..(size - 1) :
           next[k] = LET at == IF k < idx THEN k - idx + size ELSE k - idx
                     IN IF at < n THEN written + at + 1 ELSE ring[k],
         after = idx + n \/ after = idx + n - size
  PROVE  Ring(next, size, after, written + n, erased)
<1> SUFFICES ASSUME NEW k \in 0..(size - 1)
             PROVE  next[k] = LET entry == (written + n) - Behind(size, after, k)
                              IN IF entry > erased THEN entry ELSE 0
  BY Zenon DEF Ring
<1> DEFINE at == IF k < idx THEN k - idx + size ELSE k - idx
<1>1. at \in 0..(size - 1) /\ Behind(size, idx, k) = size - 1 - at
  BY DEF Behind
<1>2. next[k] = (IF at < n THEN written + at + 1 ELSE ring[k])
      /\ ring[k] = (IF written - Behind(size, idx, k) > erased THEN written - Behind(size, idx, k) ELSE 0)
  BY DEF Ring
<1>3. at < n => Behind(size, after, k) = n - 1 - at
  BY DEF Behind
<1>4. ~(at < n) => Behind(size, after, k) = n - 1 - at + size
  BY DEF Behind
<1> HIDE DEF at
<1>5. CASE at < n
  BY <1>1, <1>2, <1>3, <1>5
<1>6. CASE ~(at < n)
  <2>1. written - Behind(size, idx, k) = written + n - Behind(size, after, k)
    BY <1>1, <1>4, <1>6
  <2>2. Behind(size, after, k) \in Int /\ written + n - Behind(size, after, k) = (written + n) - Behind(size, after, k)
    BY <1>1, <1>4, <1>6
  <2> QED BY <1>2, <1>6, <2>1, <2>2
<1> QED BY <1>5, <1>6

LEMMA VisualizerBegins == VzInit => CaptureInv /\ PastInv
<1> SUFFICES ASSUME VzInit PROVE CaptureInv /\ PastInv
  OBVIOUS
<1>1. BufSize \in Nat /\ BufSize > 0 /\ Window \in Nat /\ Window > 0 /\ 0 \in 0..BufSize /\ 0 \in 0..Window
  BY VzAssumption
<1>2. vzBuf = Silence /\ vzPast = Nothing /\ vzIdx = 0 /\ vzPastIdx = 0 /\ vzFrames = 0 /\ vzErased = 0
      /\ vzMeasured = 0 /\ vzDropped = 0 /\ vzSize = BufSize /\ vzLatency = 0
  BY DEF VzInit
<1>3. Ring(vzBuf, BufSize, vzIdx, vzFrames, vzErased)
  BY <1>1, <1>2, RingErased DEF Silence
<1>4. Ring(vzPast, Window, vzPastIdx, vzMeasured, vzDropped)
  BY <1>1, <1>2, RingErased DEF Nothing
<1> QED BY <1>1, <1>2, <1>3, <1>4 DEF CaptureInv, PastInv, Silence, Nothing

LEMMA CaptureWritten ==
  ASSUME CaptureInv, NEW n, processCapture(n) PROVE CaptureInv'
<1>1. BufSize \in Nat /\ BufSize > 0
  BY VzAssumption
<1>2. /\ vzIdx \in 0..BufSize /\ vzFrames \in Nat /\ vzErased \in 0..vzFrames
      /\ Ring(vzBuf, BufSize, vzIdx, vzFrames, vzErased)
  BY DEF CaptureInv
<1>3. /\ n \in 1..BufSize /\ vzIdx' = IndexAfter(n) /\ vzFrames' = vzFrames + n
      /\ UNCHANGED <<vzErased, vzSize, vzLatency>>
      /\ vzBuf' = [k \in 0..(BufSize - 1) |->
                 LET at == (k - vzIdx) % BufSize IN IF at < n THEN vzFrames + at + 1 ELSE vzBuf[k]]
  BY DEF processCapture, vzSettings
<1>4. \A k \in 0..(BufSize - 1) :
        (k - vzIdx) % BufSize = (IF k < vzIdx THEN k - vzIdx + BufSize ELSE k - vzIdx)
  <2> TAKE k \in 0..(BufSize - 1)
  <2>1. k - vzIdx \in Int /\ -BufSize <= k - vzIdx /\ k - vzIdx < BufSize
    BY <1>1, <1>2
  <2>2. k < vzIdx => k - vzIdx < 0
    BY <1>2
  <2>3. ~(k < vzIdx) => 0 <= k - vzIdx
    BY <1>2
  <2> QED BY <1>1, <2>1, <2>2, <2>3, Wraps
<1>5. (vzIdx' = vzIdx + n \/ vzIdx' = vzIdx + n - BufSize) /\ vzIdx' \in 0..BufSize
  <2> DEFINE x == vzIdx + n - 1
  <2>1. x \in Int /\ 0 <= x /\ x < 2 * BufSize /\ vzIdx' = (x % BufSize) + 1
    BY <1>1, <1>2, <1>3 DEF IndexAfter
  <2> HIDE DEF x
  <2>2. \/ x % BufSize = x /\ x < BufSize
        \/ x % BufSize = x - BufSize /\ BufSize <= x
    <3>1. CASE x < BufSize
      BY <1>1, <2>1, <3>1, Wraps
    <3>2. CASE BufSize <= x
      BY <1>1, <2>1, <3>2, Wraps
    <3> QED BY <1>1, <2>1, <3>1, <3>2
  <2> QED BY <1>1, <1>2, <1>3, <2>1, <2>2 DEF x
<1>6. \A k \in 0..(BufSize - 1) :
        vzBuf'[k] = LET at == IF k < vzIdx THEN k - vzIdx + BufSize ELSE k - vzIdx
                    IN IF at < n THEN vzFrames + at + 1 ELSE vzBuf[k]
  BY <1>3, <1>4
<1>7. Ring(vzBuf', BufSize, vzIdx', vzFrames + n, vzErased)
  BY <1>1, <1>2, <1>3, <1>5, <1>6, RingWritten
<1>8. vzFrames + n \in Nat /\ vzErased \in 0..(vzFrames + n)
  BY <1>1, <1>2, <1>3
<1> QED BY <1>1, <1>3, <1>5, <1>7, <1>8 DEF CaptureInv

LEMMA PastWritten ==
  ASSUME PastInv, NEW n, processCapture(n) PROVE PastInv'
<1>1. Window \in Nat /\ Window > 0
  BY VzAssumption
<1>2. /\ vzPastIdx \in 0..(Window - 1) /\ vzMeasured \in Nat /\ vzDropped \in 0..vzMeasured
      /\ vzPast \in [0..(Window - 1) -> Nat]
      /\ Ring(vzPast, Window, vzPastIdx, vzMeasured, vzDropped)
  BY DEF PastInv
<1>3. CASE vzMeasures
  <2>1. /\ vzPast' = [vzPast EXCEPT ![vzPastIdx] = vzMeasured + 1] /\ vzDropped' = vzDropped
        /\ vzPastIdx' = (vzPastIdx + 1) % Window /\ vzMeasured' = vzMeasured + 1
    BY <1>3 DEF processCapture
  <2>2. (vzPastIdx' = vzPastIdx + 1 \/ vzPastIdx' = vzPastIdx + 1 - Window) /\ vzPastIdx' \in 0..(Window - 1)
    <3>1. CASE vzPastIdx + 1 < Window
      BY <1>1, <1>2, <2>1, <3>1, Wraps
    <3>2. CASE vzPastIdx + 1 = Window
      BY <1>1, <1>2, <2>1, <3>2, Wraps
    <3> QED BY <1>1, <1>2, <3>1, <3>2
  <2>3. \A k \in 0..(Window - 1) :
          vzPast'[k] = LET at == IF k < vzPastIdx THEN k - vzPastIdx + Window ELSE k - vzPastIdx
                       IN IF at < 1 THEN vzMeasured + at + 1 ELSE vzPast[k]
    BY <1>1, <1>2, <2>1
  <2>4. Ring(vzPast', Window, vzPastIdx', vzMeasured + 1, vzDropped)
    <3>1. 1 \in 1..Window /\ vzPastIdx \in 0..Window /\ vzPastIdx' \in 0..Window
      BY <1>1, <1>2, <2>2
    <3> QED BY <1>1, <1>2, <2>2, <2>3, <3>1, RingWritten
  <2>5. vzMeasured + 1 \in Nat /\ vzDropped \in 0..(vzMeasured + 1) /\ vzPast' \in [0..(Window - 1) -> Nat]
    BY <1>2, <2>1
  <2> QED BY <2>1, <2>2, <2>4, <2>5 DEF PastInv
<1>4. CASE ~vzMeasures
  BY <1>2, <1>4 DEF processCapture, PastInv
<1> QED BY <1>3, <1>4

LEMMA VisualizerGoesOn ==
  CaptureInv /\ PastInv /\ [VzNext]_vzVars => CaptureInv' /\ PastInv'
<1> SUFFICES ASSUME CaptureInv, PastInv, [VzNext]_vzVars PROVE CaptureInv' /\ PastInv'
  OBVIOUS
<1>1. CASE \E n \in VzBursts : processCapture(n)
  BY <1>1, CaptureWritten, PastWritten
<1>2. CASE resetCapture
  <2>1. /\ vzBuf' = Silence /\ vzErased' = vzFrames
        /\ UNCHANGED <<vzIdx, vzFrames, vzSize, vzLatency, vzPast, vzPastIdx, vzMeasured, vzDropped>>
    BY <1>2 DEF resetCapture, vzSettings, vzPastVars
  <2>2. Ring(Silence, BufSize, vzIdx, vzFrames, vzFrames)
    BY VzAssumption, RingErased DEF CaptureInv, Silence
  <2>3. vzFrames \in 0..vzFrames /\ DOMAIN Silence = 0..(BufSize - 1)
    BY DEF CaptureInv, Silence
  <2> QED BY <2>1, <2>2, <2>3 DEF CaptureInv, PastInv
<1>3. CASE setParameter
  <2>1. /\ UNCHANGED <<vzBuf, vzIdx, vzFrames, vzErased, vzPast, vzPastIdx, vzMeasured, vzDropped>>
        /\ vzSize' = vzSize \/ vzSize' \in 1..BufSize
        /\ vzLatency' = vzLatency \/ vzLatency' \in Nat
    BY <1>3, VzAssumption DEF setParameter, vzRing, vzPastVars
  <2> QED BY <2>1 DEF CaptureInv, PastInv
<1>4. CASE getMeasure
  <2>1. /\ UNCHANGED <<vzBuf, vzIdx, vzFrames, vzErased, vzSize, vzLatency, vzMeasured>>
        /\ vzPast' = Nothing /\ vzPastIdx' = 0 /\ vzDropped' = vzMeasured
    BY <1>4 DEF getMeasure, vzRing, vzSettings, Discarded
  <2>2. Ring(Nothing, Window, 0, vzMeasured, vzMeasured) /\ 0 \in 0..(Window - 1)
    BY VzAssumption, RingErased DEF PastInv, Nothing
  <2>3. vzMeasured \in 0..vzMeasured /\ Nothing \in [0..(Window - 1) -> Nat]
    BY DEF PastInv, Nothing
  <2> QED BY <2>1, <2>2, <2>3 DEF CaptureInv, PastInv
<1>5. CASE enableCapture \/ disableCapture \/ capture \/ Time \/ UNCHANGED vzVars
  <2>1. UNCHANGED <<vzBuf, vzIdx, vzFrames, vzErased, vzSize, vzLatency, vzPast, vzPastIdx, vzMeasured, vzDropped>>
    BY <1>5 DEF enableCapture, disableCapture, capture, Time, vzVars, vzRing, vzSettings, vzPastVars
  <2> QED BY <2>1 DEF CaptureInv, PastInv
<1> QED BY <1>1, <1>2, <1>3, <1>4, <1>5 DEF VzNext

----------------------------------------------------------------------------------
\* The capture begins delta frames before the end of the ring, wherever that is.
LEMMA CaptureFollows == CaptureInv => CaptureIsInOrder
<1> SUFFICES ASSUME CaptureInv, NEW elapsed \in Latencies, -Point(elapsed) <= vzSize, NEW i \in 0..(vzSize - 1)
             PROVE  LET frame == vzFrames - (vzIdx - Point(elapsed)) + i + 1
                    IN Captured(elapsed)[i] = IF frame > vzErased THEN frame ELSE 0
  BY DEF CaptureIsInOrder
<1> DEFINE point == Point(elapsed)
           delta == vzIdx - point
           k == IF point + i < 0 THEN point + i + BufSize ELSE point + i
           wrapped == IF point >= 0 THEN 0 ELSE -point
<1>1. /\ BufSize \in Nat /\ BufSize > 0 /\ elapsed \in Nat /\ vzIdx \in 0..BufSize /\ vzFrames \in Nat
      /\ vzSize \in 1..BufSize /\ vzLatency \in Nat /\ vzErased \in 0..vzFrames
      /\ Ring(vzBuf, BufSize, vzIdx, vzFrames, vzErased)
  BY VzAssumption DEF CaptureInv
<1>2. point \in Int /\ delta \in vzSize..BufSize
  BY <1>1 DEF Point
<1>3. Captured(elapsed)[i] = vzBuf[k]
  <2>1. (IF point >= 0 THEN 0 ELSE IF -point > vzSize THEN vzSize ELSE -point) = wrapped
    BY <1>1, <1>2
  <2>2. Captured(elapsed)[i] = (IF i < wrapped THEN vzBuf[BufSize - wrapped + i]
                                ELSE vzBuf[(IF point < 0 THEN 0 ELSE point) + AfterWrapped(i, wrapped)])
    BY <2>1, Zenon DEF Captured
  <2> HIDE DEF point
  <2>3. i < wrapped => BufSize - wrapped + i = k
    BY <1>1, <1>2
  <2>4. ~(i < wrapped) => (IF point < 0 THEN 0 ELSE point) + (i - wrapped) = k
    BY <1>1, <1>2
  <2> HIDE DEF k, wrapped
  <2>5. CASE i < wrapped
    BY <2>2, <2>3, <2>5, Zenon
  <2>6. CASE ~(i < wrapped)
    <3>1. Captured(elapsed)[i] = vzBuf[(IF point < 0 THEN 0 ELSE point) + (i - wrapped)]
      BY <2>2, <2>6, Zenon DEF AfterWrapped
    <3> QED BY <2>4, <2>6, <3>1
  <2> QED BY <2>5, <2>6
<1> HIDE DEF point
<1>4. k \in 0..(BufSize - 1) /\ Behind(BufSize, vzIdx, k) = delta - 1 - i
  BY <1>1, <1>2 DEF Behind
<1>5. vzBuf[k] = IF vzFrames - (delta - 1 - i) > vzErased THEN vzFrames - (delta - 1 - i) ELSE 0
  BY <1>1, <1>4 DEF Ring
<1>6. vzFrames - (delta - 1 - i) = vzFrames - (vzIdx - point) + i + 1
  BY <1>1, <1>2
<1> HIDE DEF k, delta
<1> QED BY <1>3, <1>5, <1>6 DEF point

\* The places that hold a measurement and the measurements are as many.
LEMMA MeasuresFollow == PastInv => MeasuresAreRecent
<1> SUFFICES ASSUME PastInv PROVE MeasuresAreRecent
  OBVIOUS
<1> DEFINE held == {k \in DOMAIN vzPast : vzPast[k] # 0}
           valid == {vzPast[k] : k \in DOMAIN vzPast} \ {0}
           recent == (vzDropped + 1)..vzMeasured \ 1..(vzMeasured - Window)
           f == [k \in held |-> vzPast[k]]
<1>1. /\ Window \in Nat /\ Window > 0 /\ vzPastIdx \in 0..(Window - 1) /\ vzMeasured \in Nat
      /\ vzDropped \in 0..vzMeasured /\ DOMAIN vzPast = 0..(Window - 1)
      /\ Ring(vzPast, Window, vzPastIdx, vzMeasured, vzDropped)
  BY VzAssumption DEF PastInv
<1>2. \A k \in 0..(Window - 1) : Behind(Window, vzPastIdx, k) \in 0..(Window - 1)
  BY <1>1 DEF Behind
<1>3. \A k, l \in 0..(Window - 1) : Behind(Window, vzPastIdx, k) = Behind(Window, vzPastIdx, l) => k = l
  BY <1>1 DEF Behind
<1>4. \A b \in 0..(Window - 1) : \E k \in 0..(Window - 1) : Behind(Window, vzPastIdx, k) = b
  <2> TAKE b \in 0..(Window - 1)
  <2> DEFINE k == IF b < vzPastIdx THEN vzPastIdx - 1 - b ELSE vzPastIdx - 1 - b + Window
  <2>1. k \in 0..(Window - 1) /\ Behind(Window, vzPastIdx, k) = b
    BY <1>1 DEF Behind
  <2> QED BY <2>1
<1>5. \A k \in 0..(Window - 1) :
        LET entry == vzMeasured - Behind(Window, vzPastIdx, k)
        IN vzPast[k] = IF entry > vzDropped THEN entry ELSE 0
  BY <1>1 DEF Ring
<1>6. \A k \in held : vzPast[k] = vzMeasured - Behind(Window, vzPastIdx, k) /\ vzPast[k] > vzDropped
  BY <1>1, <1>5
<1>7. valid \subseteq recent
  <2> SUFFICES ASSUME NEW k \in held PROVE vzPast[k] \in recent
    OBVIOUS
  <2>1. Behind(Window, vzPastIdx, k) \in 0..(Window - 1)
    BY <1>1, <1>2
  <2> QED BY <1>1, <1>6, <2>1
<1>8. recent \subseteq valid
  <2> SUFFICES ASSUME NEW j \in recent PROVE j \in valid
    OBVIOUS
  <2>1. j \in Int /\ vzDropped < j /\ j <= vzMeasured /\ vzMeasured - j \in 0..(Window - 1) /\ j # 0
    BY <1>1
  <2>2. PICK k \in 0..(Window - 1) : Behind(Window, vzPastIdx, k) = vzMeasured - j
    BY <1>4, <2>1
  <2>3. vzMeasured - (vzMeasured - j) = j
    BY <1>1, <2>1
  <2>4. vzPast[k] = j
    BY <1>5, <2>1, <2>2, <2>3
  <2> QED BY <1>1, <2>1, <2>4
<1>9. Cardinality(held) = Cardinality(valid)
  <2>1. IsFiniteSet(held)
    <3>1. IsFiniteSet(0..(Window - 1))
      BY <1>1, FS_Interval
    <3> QED BY <1>1, <3>1, FS_Subset
  <2>2. f \in [held -> valid]
    OBVIOUS
  <2>3. \A k, l \in held : f[k] = f[l] => k = l
    <3> TAKE k \in held, l \in held
    <3>1. Behind(Window, vzPastIdx, k) \in 0..(Window - 1) /\ Behind(Window, vzPastIdx, l) \in 0..(Window - 1)
          /\ k \in 0..(Window - 1) /\ l \in 0..(Window - 1)
      BY <1>1, <1>2
    <3>2. f[k] = f[l] => Behind(Window, vzPastIdx, k) = Behind(Window, vzPastIdx, l)
      BY <1>1, <1>6, <3>1
    <3> QED BY <1>3, <3>1, <3>2
  <2>4. \A j \in valid : \E k \in held : f[k] = j
    OBVIOUS
  <2> HIDE DEF held, valid, f
  <2>5. ExistsBijection(held, valid)
    BY <2>2, <2>3, <2>4 DEF ExistsBijection, Bijection, Injection, Surjection, IsInjective
  <2> QED BY <2>1, <2>5, FS_Bijection
<1> QED BY <1>7, <1>8, <1>9 DEF MeasuresAreRecent
----------------------------------------------------------------------------------
(* Remote submix. That a route goes with its last stream rests on a witness for   *)
(* every route of the table: a stream that has it, a worker that is leaving it, or *)
(* the thread that has just made it and will not be refused.                       *)
RouteFields == {"address", "config", "inOpen", "inputRefCount", "outOpen", "inStandby", "outStandby",
                "transition", "hasRead", "sink", "shut", "full"}
RouteOK(q) == /\ q = [f \in RouteFields |-> q[f]] /\ q.inputRefCount \in Nat
              /\ q.inOpen \in BOOLEAN /\ q.outOpen \in BOOLEAN
Fresh(q) == q.sink /\ ~q.shut /\ ~q.inOpen /\ ~q.outOpen
WorkersOK(worker) ==
  /\ worker = [s \in Streams |-> worker[s]]
  /\ \A s \in Streams : worker[s] = [f \in {"at", "route", "block", "replaced"} |-> worker[s][f]]
RoutesOK(all) == all = [r \in 1..MaxRoutes |-> all[r]] /\ \A r \in 1..MaxRoutes : RouteOK(all[r])
ConnectOK(connect, current, used) ==
  /\ connect = [f \in {"at", "stream", "address", "route"} |-> connect[f]]
  /\ connect.at # "none" => connect.stream \in Streams /\ connect.address \in SubmixAddresses
                            /\ current[connect.stream] = NoRoute
  /\ connect.at \in {"open", "create"} => connect.route \in 1..used
SubmixTypeOK ==
  /\ rsUsed \in 0..MaxRoutes /\ rsTable \in [SubmixAddresses -> 0..rsUsed]
  /\ rsCurrent \in [Streams -> 0..rsUsed]
  /\ WorkersOK(rsWorker) /\ RoutesOK(rsRoutes) /\ ConnectOK(rsConnect, rsCurrent, rsUsed)

InputsOf(current, r) == {s \in Inputs : current[s] = r}
CountedBy(q, attached) == IF q.inOpen THEN q.inputRefCount = Cardinality(attached) /\ attached # {}
                                    ELSE attached = {}
StreamsCounted == \A r \in 1..MaxRoutes :
  /\ CountedBy(rsRoutes[r], InputsOf(rsCurrent, r))
  /\ rsRoutes[r].outOpen => \E s \in Outputs : rsCurrent[s] = r
Leaving(w, r) == w.at \in {"last", "release", "remove"} /\ w.route = r
Held(r) == \E s \in Streams : rsCurrent[s] = r \/ Leaving(rsWorker[s], r)
Witnessed(r) == Held(r) \/ (rsConnect.at = "open" /\ rsConnect.route = r /\ Fresh(rsRoutes[r]))
TableWitnessed == \A a \in SubmixAddresses :
  rsTable[a] # NoRoute => rsRoutes[rsTable[a]].address = a /\ Witnessed(rsTable[a])
SubmixInv == SubmixTypeOK /\ StreamsCounted /\ TableWitnessed

----------------------------------------------------------------------------------
\* What the methods of a route leave of it.
Same(p, q) == RouteOK(p) /\ \A f \in {"address", "inOpen", "outOpen", "inputRefCount", "sink", "shut"} : p[f] = q[f]
LEMMA RouteMethods ==
  ASSUME NEW q, RouteOK(q), NEW s \in Streams
  PROVE  /\ Same(routeStandby(q, s), q) /\ Same(exitStandby(q, s), q)
         /\ Same([q EXCEPT !.full = TRUE], q) /\ Same([q EXCEPT !.full = FALSE, !.hasRead = TRUE], q)
         /\ RouteOK(releasePipe(q))
         /\ \A f \in {"address", "inOpen", "outOpen", "inputRefCount"} : releasePipe(q)[f] = q[f]
         /\ \A c : RouteOK(createPipe(q, c)) /\ createPipe(q, c).sink /\ ~createPipe(q, c).shut
                   /\ \A f \in {"address", "inOpen", "outOpen", "inputRefCount"} : createPipe(q, c)[f] = q[f]
<1> USE DEF RouteOK, RouteFields
<1>1. Same(routeStandby(q, s), q)
  BY DEF routeStandby, Same
<1>2. Same(exitStandby(q, s), q)
  <2>1. exitStandby(q, s) \in {[q EXCEPT !.inStandby = FALSE, !.transition = FALSE, !.hasRead = FALSE],
                               [q EXCEPT !.outStandby = FALSE, !.transition = TRUE], q}
    BY SubmixAssumption DEF exitStandby, Streams
  <2> QED BY <2>1 DEF Same
<1>3. Same([q EXCEPT !.full = TRUE], q)
  BY DEF Same
<1>4. Same([q EXCEPT !.full = FALSE, !.hasRead = TRUE], q)
  BY DEF Same
<1>5. /\ RouteOK(releasePipe(q))
      /\ \A f \in {"address", "inOpen", "outOpen", "inputRefCount"} : releasePipe(q)[f] = q[f]
  BY DEF releasePipe
<1>6. ASSUME NEW c
      PROVE  RouteOK(createPipe(q, c)) /\ createPipe(q, c).sink /\ ~createPipe(q, c).shut
             /\ \A f \in {"address", "inOpen", "outOpen", "inputRefCount"} : createPipe(q, c)[f] = q[f]
  BY DEF createPipe
<1> QED BY <1>1, <1>2, <1>3, <1>4, <1>5, <1>6

LEMMA RouteOpens ==
  ASSUME NEW q, RouteOK(q), NEW s \in Streams
  PROVE  LET p == routeOpenStream(q, s)
         IN /\ RouteOK(p) /\ p.address = q.address
            /\ s \in Outputs => p.inOpen = q.inOpen /\ p.inputRefCount = q.inputRefCount
            /\ s \in Inputs => /\ p.outOpen = q.outOpen /\ p.inOpen
                               /\ p.inputRefCount = IF q.inOpen THEN q.inputRefCount + 1 ELSE 1
<1> USE DEF RouteOK, RouteFields, routeOpenStream
<1>1. CASE s \in Outputs
  BY <1>1, SubmixAssumption
<1>2. CASE s \in Inputs
  <2> DEFINE n == IF q.inOpen THEN q.inputRefCount + 1 ELSE 1
  <2>1. s \notin Outputs
    BY <1>2, SubmixAssumption
  <2>2. routeOpenStream(q, s) = [q EXCEPT !.inOpen = TRUE, !.inputRefCount = n,
                                         !.inStandby = TRUE, !.hasRead = FALSE, !.shut = FALSE]
    BY <2>1
  <2>3. n \in Nat
    OBVIOUS
  <2> HIDE DEF n, routeOpenStream
  <2>4. RouteOK(routeOpenStream(q, s)) /\ routeOpenStream(q, s).address = q.address
        /\ routeOpenStream(q, s).outOpen = q.outOpen /\ routeOpenStream(q, s).inOpen
        /\ routeOpenStream(q, s).inputRefCount = n
    BY <2>2, <2>3
  <2> QED BY <1>2, <2>1, <2>4 DEF n
<1> QED BY <1>1, <1>2 DEF Streams

\* An input is counted off; an output closes the route for its kind.
LEMMA RouteCloses ==
  ASSUME NEW q, RouteOK(q), NEW s \in Streams, s \in Inputs => q.inputRefCount > 0
  PROVE  LET p == routeCloseStream(q, s)
         IN /\ RouteOK(p) /\ p.address = q.address
            /\ s \in Outputs => p.inOpen = q.inOpen /\ p.inputRefCount = q.inputRefCount /\ ~p.outOpen
            /\ s \in Inputs => /\ p.outOpen = q.outOpen /\ p.inputRefCount = q.inputRefCount - 1
                               /\ q.inputRefCount = 1 => ~p.inOpen
                               /\ q.inputRefCount # 1 => p.inOpen = q.inOpen
<1> USE DEF RouteOK, RouteFields, routeCloseStream
<1>1. CASE s \in Outputs
  BY <1>1, SubmixAssumption
<1>2. CASE s \in Inputs
  <2> DEFINE n == q.inputRefCount - 1
             p == routeCloseStream(q, s)
  <2>1. s \notin Outputs /\ n \in Nat
    BY <1>2, SubmixAssumption
  <2>2. p = IF n = 0 THEN [q EXCEPT !.inputRefCount = 0, !.inOpen = FALSE, !.shut = q.sink \/ @]
            ELSE [q EXCEPT !.inputRefCount = n]
    BY <2>1
  <2> HIDE DEF n, p
  <2>3. RouteOK(p) /\ p.address = q.address /\ p.outOpen = q.outOpen /\ p.inputRefCount = n
        /\ (n = 0 => ~p.inOpen) /\ (n # 0 => p.inOpen = q.inOpen)
    BY <2>1, <2>2
  <2>4. n = 0 <=> q.inputRefCount = 1
    BY DEF n
  <2> QED BY <1>2, <2>1, <2>3, <2>4 DEF n, p
<1> QED BY <1>1, <1>2 DEF Streams

LEMMA SubmixBegins == SubmixInit => SubmixInv
<1> SUFFICES ASSUME SubmixInit PROVE SubmixInv
  OBVIOUS
<1> USE DEF SubmixInit
<1>1. RouteOK(NewRoute) /\ ~NewRoute.inOpen /\ ~NewRoute.outOpen
  BY DEF NewRoute, RouteOK, RouteFields
<1>2. RoutesOK(rsRoutes)
  BY <1>1 DEF RoutesOK
<1>3. WorkersOK(rsWorker)
  BY DEF WorkersOK, Resting
<1>4. ConnectOK(rsConnect, rsCurrent, rsUsed)
  BY DEF ConnectOK, NoConnect
<1>5. SubmixTypeOK
  BY <1>2, <1>3, <1>4, SubmixAssumption DEF SubmixTypeOK, NoRoute
<1>6. StreamsCounted
  BY <1>1 DEF StreamsCounted, CountedBy, InputsOf, NoRoute, Streams
<1>7. TableWitnessed
  BY DEF TableWitnessed
<1> QED BY <1>5, <1>6, <1>7 DEF SubmixInv

----------------------------------------------------------------------------------
\* A step that neither brings a stream to a route nor takes it from one.
LEMMA RoutesKept ==
  ASSUME SubmixInv, UNCHANGED <<rsUsed, rsTable, rsCurrent>>,
         WorkersOK(rsWorker'), RoutesOK(rsRoutes'), ConnectOK(rsConnect', rsCurrent, rsUsed),
         \A r \in 1..MaxRoutes :
           /\ \A f \in {"address", "inOpen", "inputRefCount"} : rsRoutes'[r][f] = rsRoutes[r][f]
           /\ rsRoutes'[r].outOpen => rsRoutes[r].outOpen
           /\ Held(r) => Held(r)'
           /\ Held(r) \/ (Fresh(rsRoutes[r]) => Fresh(rsRoutes'[r])),
         rsConnect' = rsConnect \/ rsConnect.at # "open" \/ ~Fresh(rsRoutes[rsConnect.route])
  PROVE  SubmixInv'
<1>1. SubmixTypeOK'
  BY DEF SubmixInv, SubmixTypeOK
<1>2. StreamsCounted'
  BY DEF SubmixInv, StreamsCounted, CountedBy
<1>3. ASSUME NEW a \in SubmixAddresses, rsTable[a] # NoRoute
      PROVE  rsRoutes'[rsTable[a]].address = a /\ Witnessed(rsTable[a])'
  <2>1. rsTable[a] \in 1..MaxRoutes
    BY <1>3, SubmixAssumption DEF SubmixInv, SubmixTypeOK, NoRoute
  <2>4. rsRoutes[rsTable[a]].address = a /\ Witnessed(rsTable[a])
    BY <1>3 DEF SubmixInv, TableWitnessed
  <2>2. CASE Held(rsTable[a])
    BY <2>1, <2>4, <2>2 DEF Witnessed
  <2>3. CASE ~Held(rsTable[a])
    BY <2>1, <2>4, <2>3 DEF Witnessed
  <2> QED BY <2>2, <2>3
<1>4. TableWitnessed'
  BY <1>3 DEF TableWitnessed
<1> QED BY <1>1, <1>2, <1>4 DEF SubmixInv

\* One route replaced.
LEMMA RouteReplaced ==
  ASSUME RoutesOK(rsRoutes), NEW r \in 1..MaxRoutes, NEW q, RouteOK(q), SetRoute(r, q)
  PROVE  /\ RoutesOK(rsRoutes') /\ rsRoutes'[r] = q
         /\ \A t \in 1..MaxRoutes \ {r} : rsRoutes'[t] = rsRoutes[t]
BY DEF RoutesOK, SetRoute

LEMMA WorkerMoved ==
  ASSUME WorkersOK(rsWorker), NEW s \in Streams, NEW w, WorkerAt(s, w),
         w = [f \in {"at", "route", "block", "replaced"} |-> w[f]]
  PROVE  WorkersOK(rsWorker') /\ rsWorker'[s] = w /\ \A t \in Streams \ {s} : rsWorker'[t] = rsWorker[t]
BY DEF WorkersOK, WorkerAt

\* Steps of a worker that has its stream still, or is leaving.
LEMMA WorkersKeep ==
  ASSUME SubmixInv, NEW s \in Streams,
         Standby(s) \/ (\E skip \in BOOLEAN : Transfer(s, skip)) \/ OutWrite(s) \/ SinkWrite(s) \/ InRead(s)
  PROVE  SubmixInv'
<1> DEFINE w == rsWorker[s]
<1>1. /\ SubmixTypeOK /\ UNCHANGED <<rsUsed, rsTable, rsCurrent, rsConnect>>
      /\ WorkersOK(rsWorker) /\ RoutesOK(rsRoutes) /\ ConnectOK(rsConnect', rsCurrent, rsUsed)
      /\ rsUsed \in 0..MaxRoutes /\ rsCurrent[s] \in 0..rsUsed
  BY DEF SubmixInv, SubmixTypeOK, Standby, Transfer, OutWrite, SinkWrite, InRead
<1>2. w = [f \in {"at", "route", "block", "replaced"} |-> w[f]] /\ w.at \in {"idle", "transfer", "write"}
  BY <1>1 DEF WorkersOK, Standby, Transfer, OutWrite, SinkWrite, InRead, CanRun, Resting
<1>3. \/ rsWorker' = rsWorker
      \/ \E v : /\ WorkerAt(s, v) /\ v = [f \in {"at", "route", "block", "replaced"} |-> v[f]]
                /\ v.at \notin {"last", "release", "remove"}
  <2>1. CASE Standby(s)
    BY <2>1 DEF Standby
  <2>2. ASSUME NEW skip \in BOOLEAN, Transfer(s, skip)
        PROVE  \E v : /\ WorkerAt(s, v) /\ v = [f \in {"at", "route", "block", "replaced"} |-> v[f]]
                      /\ v.at \notin {"last", "release", "remove"}
    <3> DEFINE v == IF skip THEN Resting ELSE [Resting EXCEPT !.at = "transfer", !.route = rsCurrent[s]]
    <3>1. WorkerAt(s, v)
      BY <2>2 DEF Transfer
    <3>2. v = [f \in {"at", "route", "block", "replaced"} |-> v[f]] /\ v.at \in {"idle", "transfer"}
      BY DEF Resting
    <3> QED BY <3>1, <3>2
  <2>3. Resting = [f \in {"at", "route", "block", "replaced"} |-> Resting[f]] /\ Resting.at = "idle"
    BY DEF Resting
  <2>4. CASE OutWrite(s)
    <3> DEFINE q == rsRoutes[w.route]
               v == IF ~q.sink \/ q.shut THEN Resting ELSE [w EXCEPT !.at = "write", !.block = shouldBlockWrite(q)]
    <3>1. WorkerAt(s, v)
      BY <2>4 DEF OutWrite
    <3>2. v = [f \in {"at", "route", "block", "replaced"} |-> v[f]] /\ v.at \in {"idle", "write"}
      <4> HIDE DEF q, w
      <4> QED BY <1>2, <2>3
    <3> QED BY <3>1, <3>2
  <2>5. CASE SinkWrite(s) \/ InRead(s)
    BY <2>3, <2>5 DEF SinkWrite, InRead
  <2> QED BY <2>1, <2>2, <2>4, <2>5
<1>4. /\ WorkersOK(rsWorker')
      /\ \A t \in Streams : rsWorker'[t] = rsWorker[t]
                            \/ (/\ rsWorker[t].at \notin {"last", "release", "remove"}
                                /\ rsWorker'[t].at \notin {"last", "release", "remove"})
  <2>1. CASE rsWorker' = rsWorker
    BY <1>1, <2>1
  <2>2. CASE \E v : /\ WorkerAt(s, v) /\ v = [f \in {"at", "route", "block", "replaced"} |-> v[f]]
                    /\ v.at \notin {"last", "release", "remove"}
    <3>1. PICK v : /\ WorkerAt(s, v) /\ v = [f \in {"at", "route", "block", "replaced"} |-> v[f]]
                   /\ v.at \notin {"last", "release", "remove"}
      BY <2>2
    <3> QED BY <1>1, <1>2, <3>1, WorkerMoved
  <2> QED BY <1>3, <2>1, <2>2
<1>5. \A r \in 1..MaxRoutes : Held(r) => Held(r)'
  BY <1>1, <1>4 DEF Held, Leaving
<1>6. rsRoutes' = rsRoutes \/ \E r, q : SetRoute(r, q) /\ (r \in 1..MaxRoutes => Same(q, rsRoutes[r]))
  <2>1. CASE Standby(s)
    <3>1. rsCurrent[s] \in 1..MaxRoutes => Same(routeStandby(rsRoutes[rsCurrent[s]], s), rsRoutes[rsCurrent[s]])
      BY <1>1, RouteMethods DEF RoutesOK
    <3> QED BY <2>1, <3>1 DEF Standby
  <2>2. ASSUME NEW skip \in BOOLEAN, Transfer(s, skip)
        PROVE  \E r, q : SetRoute(r, q) /\ (r \in 1..MaxRoutes => Same(q, rsRoutes[r]))
    <3>1. rsCurrent[s] \in 1..MaxRoutes => Same(exitStandby(rsRoutes[rsCurrent[s]], s), rsRoutes[rsCurrent[s]])
      BY <1>1, RouteMethods DEF RoutesOK
    <3> QED BY <2>2, <3>1 DEF Transfer
  <2>3. CASE OutWrite(s)
    BY <2>3 DEF OutWrite
  <2>4. w.route \in 1..MaxRoutes => /\ Same([rsRoutes[w.route] EXCEPT !.full = TRUE], rsRoutes[w.route])
                                    /\ Same([rsRoutes[w.route] EXCEPT !.full = FALSE, !.hasRead = TRUE], rsRoutes[w.route])
    BY <1>1, RouteMethods DEF RoutesOK
  <2>5. CASE SinkWrite(s)
    BY <2>4, <2>5 DEF SinkWrite
  <2>6. CASE InRead(s)
    BY <2>4, <2>6 DEF InRead
  <2> QED BY <2>1, <2>2, <2>3, <2>5, <2>6
<1>7. RoutesOK(rsRoutes') /\ \A r \in 1..MaxRoutes : Same(rsRoutes'[r], rsRoutes[r])
  <2>1. \A r \in 1..MaxRoutes : Same(rsRoutes[r], rsRoutes[r])
    BY <1>1 DEF RoutesOK, Same
  <2>2. CASE rsRoutes' = rsRoutes
    BY <1>1, <2>1, <2>2
  <2>3. ASSUME NEW r, NEW q, SetRoute(r, q), r \in 1..MaxRoutes => Same(q, rsRoutes[r])
        PROVE  RoutesOK(rsRoutes') /\ \A t \in 1..MaxRoutes : Same(rsRoutes'[t], rsRoutes[t])
    <3>1. CASE r \in 1..MaxRoutes
      <4>1. RouteOK(q) /\ Same(q, rsRoutes[r])
        BY <2>3, <3>1 DEF Same
      <4>2. RoutesOK(rsRoutes') /\ rsRoutes'[r] = q /\ \A t \in 1..MaxRoutes \ {r} : rsRoutes'[t] = rsRoutes[t]
        BY <1>1, <2>3, <3>1, <4>1, RouteReplaced
      <4> QED BY <2>1, <4>1, <4>2
    <3>2. CASE r \notin 1..MaxRoutes
      <4>1. rsRoutes' = rsRoutes
        BY <1>1, <2>3, <3>2 DEF RoutesOK, SetRoute
      <4> QED BY <1>1, <2>1, <4>1
    <3> QED BY <3>1, <3>2
  <2> QED BY <1>6, <2>2, <2>3
<1>8. \A r \in 1..MaxRoutes :
        /\ \A f \in {"address", "inOpen", "inputRefCount"} : rsRoutes'[r][f] = rsRoutes[r][f]
        /\ rsRoutes'[r].outOpen => rsRoutes[r].outOpen
        /\ Fresh(rsRoutes[r]) => Fresh(rsRoutes'[r])
  BY <1>7 DEF Same, Fresh
<1> QED BY <1>1, <1>4, <1>5, <1>7, <1>8, RoutesKept

\* The end of a stream: its output is closed early, its close() only marks it.
LEMMA EndsKeep ==
  ASSUME SubmixInv, NEW s \in Streams, prepareToClose(s) \/ Close(s) PROVE SubmixInv'
<1>1. /\ UNCHANGED <<rsUsed, rsTable, rsCurrent, rsWorker, rsConnect>>
      /\ WorkersOK(rsWorker) /\ RoutesOK(rsRoutes) /\ ConnectOK(rsConnect, rsCurrent, rsUsed)
      /\ rsUsed \in 0..MaxRoutes /\ rsCurrent[s] \in 0..rsUsed
  BY DEF SubmixInv, SubmixTypeOK, prepareToClose, Close
<1>2. \A r \in 1..MaxRoutes : Held(r) => Held(r)'
  BY <1>1 DEF Held
<1>3. CASE prepareToClose(s) /\ s \in Outputs
  <2> DEFINE r == rsCurrent[s]
             q == rsRoutes[r]
             p == routeCloseStream(q, s)
  <2>1. r \in 1..MaxRoutes /\ SetRoute(r, p)
    BY <1>1, <1>3, SubmixAssumption DEF prepareToClose, NoRoute
  <2>2. Held(r)
    BY DEF Held
  <2>3. RouteOK(q) /\ s \notin Inputs
    BY <1>1, <1>3, <2>1, SubmixAssumption DEF RoutesOK
  <2>4. RouteOK(p) /\ p.address = q.address /\ p.inOpen = q.inOpen /\ p.inputRefCount = q.inputRefCount /\ ~p.outOpen
    BY <1>3, <2>3, RouteCloses
  <2> HIDE DEF p, q, r
  <2>5. RoutesOK(rsRoutes') /\ rsRoutes'[r] = p /\ \A t \in 1..MaxRoutes \ {r} : rsRoutes'[t] = rsRoutes[t]
    BY <1>1, <2>1, <2>4, RouteReplaced
  <2>6. \A t \in 1..MaxRoutes :
           /\ \A f \in {"address", "inOpen", "inputRefCount"} : rsRoutes'[t][f] = rsRoutes[t][f]
           /\ rsRoutes'[t].outOpen => rsRoutes[t].outOpen
           /\ Held(t) \/ (Fresh(rsRoutes[t]) => Fresh(rsRoutes'[t]))
    <3> TAKE t \in 1..MaxRoutes
    <3>1. CASE t = r
      BY <2>2, <2>4, <2>5, <3>1 DEF q
    <3>2. CASE t # r
      BY <2>5, <3>2
    <3> QED BY <3>1, <3>2
  <2> QED BY <1>1, <1>2, <2>5, <2>6, RoutesKept
<1>4. CASE rsRoutes' = rsRoutes
  BY <1>1, <1>2, <1>4, RoutesKept
<1> QED BY <1>3, <1>4 DEF prepareToClose, Close

----------------------------------------------------------------------------------
\* The worker of a pipe's writer learns that the pipe is replaced; nobody leaves.
LEMMA WritersTold ==
  ASSUME WorkersOK(rsWorker), NEW r
  PROVE  /\ WorkersOK(PipeReplaced(r))
         /\ \A t \in Streams : PipeReplaced(r)[t].at = rsWorker[t].at /\ PipeReplaced(r)[t].route = rsWorker[t].route
BY DEF WorkersOK, PipeReplaced

\* What the type invariant gives for every step.
LEMMA SubmixFacts ==
  ASSUME SubmixInv
  PROVE  /\ rsUsed \in 0..MaxRoutes /\ rsTable \in [SubmixAddresses -> 0..rsUsed]
         /\ rsCurrent \in [Streams -> 0..rsUsed] /\ MaxRoutes \in Nat
         /\ WorkersOK(rsWorker) /\ RoutesOK(rsRoutes) /\ ConnectOK(rsConnect, rsCurrent, rsUsed)
BY SubmixAssumption DEF SubmixInv, SubmixTypeOK

\* A stream that begins to connect, and a route that refuses one.
LEMMA ConnectsKeep ==
  ASSUME SubmixInv, ~Reconnects,
         \/ \E s \in Streams, a \in SubmixAddresses : SetConnectedDevices(s, a)
         \/ \E r \in 1..MaxRoutes : RouteRefused(r)
  PROVE  SubmixInv'
<1>1. /\ UNCHANGED <<rsRoutes, rsUsed, rsTable, rsCurrent, rsWorker>>
      /\ WorkersOK(rsWorker') /\ RoutesOK(rsRoutes')
  BY SubmixFacts DEF SetConnectedDevices, RouteRefused
<1>2. \A r \in 1..MaxRoutes : Held(r) => Held(r)'
  BY <1>1 DEF Held
<1>3. ASSUME NEW s \in Streams, NEW a \in SubmixAddresses, SetConnectedDevices(s, a)
      PROVE  ConnectOK(rsConnect', rsCurrent, rsUsed) /\ rsConnect.at # "open"
  BY <1>3 DEF SetConnectedDevices, NoConnect, ConnectOK
<1>4. ASSUME NEW r \in 1..MaxRoutes, RouteRefused(r)
      PROVE  ConnectOK(rsConnect', rsCurrent, rsUsed) /\ ~Fresh(rsRoutes[rsConnect.route])
  <2>1. rsConnect' = NoConnect /\ rsConnect.route = r
        /\ (~isStreamConfigValid(rsRoutes[r], rsConnect.stream) \/ ~rsRoutes[r].sink)
    BY <1>4 DEF RouteRefused, Connecting
  <2>2. ConnectOK(NoConnect, rsCurrent, rsUsed)
    BY DEF ConnectOK, NoConnect
  <2> QED BY <2>1, <2>2 DEF Fresh, isStreamConfigValid, hasAtleastOneStreamOpen
<1>5. ConnectOK(rsConnect', rsCurrent, rsUsed)
      /\ (rsConnect.at # "open" \/ ~Fresh(rsRoutes[rsConnect.route]))
  BY <1>3, <1>4
<1> QED BY <1>1, <1>2, <1>5, RoutesKept

\* A pipe that was shut is given up before the stream is opened with a new one.
LEMMA ResetKeeps ==
  ASSUME SubmixInv, NEW r \in 1..MaxRoutes, ResetPipe(r) PROVE SubmixInv'
<1> DEFINE q == rsRoutes[r]
<1>1. /\ UNCHANGED <<rsUsed, rsTable, rsCurrent>> /\ SetRoute(r, releasePipe(q))
      /\ rsConnect' = [rsConnect EXCEPT !.at = "create"] /\ rsWorker' = PipeReplaced(r)
      /\ rsConnect.at = "open" /\ rsConnect.route = r /\ q.shut
  BY DEF ResetPipe, Connecting, NeedsReset
<1>2. WorkersOK(rsWorker') /\ \A t \in Streams : rsWorker'[t].at = rsWorker[t].at /\ rsWorker'[t].route = rsWorker[t].route
  BY <1>1, SubmixFacts, WritersTold
<1>3. RouteOK(q)
  BY SubmixFacts DEF RoutesOK
<1>4. RouteOK(releasePipe(q))
      /\ \A f \in {"address", "inOpen", "outOpen", "inputRefCount"} : releasePipe(q)[f] = q[f]
  BY <1>3, RouteMethods, WritersTold DEF releasePipe, RouteOK, RouteFields
<1>5. RoutesOK(rsRoutes') /\ rsRoutes'[r] = releasePipe(q) /\ \A t \in 1..MaxRoutes \ {r} : rsRoutes'[t] = rsRoutes[t]
  BY <1>1, <1>4, SubmixFacts, RouteReplaced
<1>6. ~Fresh(q)
  BY <1>1 DEF Fresh
<1>7. ConnectOK(rsConnect', rsCurrent, rsUsed)
  BY <1>1, SubmixFacts DEF ConnectOK
<1>8. \A t \in 1..MaxRoutes :
        /\ \A f \in {"address", "inOpen", "inputRefCount"} : rsRoutes'[t][f] = rsRoutes[t][f]
        /\ rsRoutes'[t].outOpen => rsRoutes[t].outOpen
        /\ Held(t) => Held(t)'
        /\ Fresh(rsRoutes[t]) => Fresh(rsRoutes'[t])
  <2> TAKE t \in 1..MaxRoutes
  <2>1. Held(t) => Held(t)'
    BY <1>1, <1>2 DEF Held, Leaving
  <2>2. CASE t = r
    BY <1>4, <1>5, <1>6, <2>1, <2>2
  <2>3. CASE t # r
    BY <1>5, <2>1, <2>3
  <2> QED BY <2>2, <2>3
<1>9. ~Fresh(rsRoutes[rsConnect.route])
  BY <1>1, <1>6
<1> QED BY <1>1, <1>2, <1>5, <1>7, <1>8, <1>9, RoutesKept

\* The last stream gives up the pipe of the route it is leaving, before the route.
LEMMA PipeGiveUpKeeps ==
  ASSUME SubmixInv, NEW s \in Streams, ReleaseLast(s) PROVE SubmixInv'
<1> DEFINE r == rsWorker[s].route
           q == rsRoutes[r]
<1>1. /\ UNCHANGED <<rsUsed, rsTable, rsCurrent, rsConnect>> /\ SetRoute(r, releasePipe(q))
      /\ rsWorker' = [PipeReplaced(r) EXCEPT ![s].at = "remove"] /\ rsWorker[s].at = "release"
  BY DEF ReleaseLast
<1>2. /\ WorkersOK(PipeReplaced(r))
      /\ \A t \in Streams : PipeReplaced(r)[t].at = rsWorker[t].at /\ PipeReplaced(r)[t].route = rsWorker[t].route
  BY SubmixFacts, WritersTold
<1>3. /\ WorkersOK(rsWorker') /\ \A t \in Streams : rsWorker'[t].route = rsWorker[t].route
      /\ rsWorker'[s].at = "remove" /\ \A t \in Streams \ {s} : rsWorker'[t].at = rsWorker[t].at
  <2> HIDE DEF r, q
  <2> QED BY <1>1, <1>2 DEF WorkersOK
<1>4. \A t \in 1..MaxRoutes : Held(t) => Held(t)'
  <2> HIDE DEF r, q
  <2> QED BY <1>1, <1>3 DEF Held, Leaving
<1>5. r \in 1..MaxRoutes => Held(r)
  BY <1>1 DEF Held, Leaving
<1>6. /\ RoutesOK(rsRoutes')
      /\ \A t \in 1..MaxRoutes :
           /\ \A f \in {"address", "inOpen", "inputRefCount"} : rsRoutes'[t][f] = rsRoutes[t][f]
           /\ rsRoutes'[t].outOpen => rsRoutes[t].outOpen
           /\ t # r => rsRoutes'[t] = rsRoutes[t]
  <2>1. CASE r \in 1..MaxRoutes
    <3>1. RouteOK(q)
      BY <2>1, SubmixFacts DEF RoutesOK
    <3>2. RouteOK(releasePipe(q))
          /\ \A f \in {"address", "inOpen", "outOpen", "inputRefCount"} : releasePipe(q)[f] = q[f]
      BY <3>1 DEF releasePipe, RouteOK, RouteFields
    <3>3. RoutesOK(rsRoutes') /\ rsRoutes'[r] = releasePipe(q) /\ \A t \in 1..MaxRoutes \ {r} : rsRoutes'[t] = rsRoutes[t]
      BY <1>1, <2>1, <3>2, SubmixFacts, RouteReplaced
    <3> QED BY <3>2, <3>3
  <2>2. CASE r \notin 1..MaxRoutes
    <3>1. rsRoutes' = rsRoutes
      BY <1>1, <2>2, SubmixFacts DEF RoutesOK, SetRoute
    <3> QED BY <3>1, SubmixFacts
  <2> QED BY <2>1, <2>2
<1>7. \A t \in 1..MaxRoutes : Held(t) \/ (Fresh(rsRoutes[t]) => Fresh(rsRoutes'[t]))
  BY <1>5, <1>6
<1>8. ConnectOK(rsConnect', rsCurrent, rsUsed) /\ UNCHANGED <<rsUsed, rsTable, rsCurrent>> /\ rsConnect' = rsConnect
  BY <1>1, SubmixFacts
<1>9. \A t \in 1..MaxRoutes :
        /\ \A f \in {"address", "inOpen", "inputRefCount"} : rsRoutes'[t][f] = rsRoutes[t][f]
        /\ rsRoutes'[t].outOpen => rsRoutes[t].outOpen
        /\ Held(t) => Held(t)'
        /\ Held(t) \/ (Fresh(rsRoutes[t]) => Fresh(rsRoutes'[t]))
  BY <1>4, <1>6, <1>7
<1> QED BY <1>3, <1>6, <1>8, <1>9, RoutesKept

\* The stream that is the last one leaves an open route to those who have it.
LEMMA LastKeeps ==
  ASSUME SubmixInv, NEW s \in Streams, IsLast(s) PROVE SubmixInv'
<1> DEFINE r == rsWorker[s].route
           open == hasAtleastOneStreamOpen(rsRoutes[r])
           v == [rsWorker[s] EXCEPT !.at = IF open THEN "closed" ELSE "release"]
<1>1. /\ UNCHANGED <<rsRoutes, rsUsed, rsTable, rsCurrent, rsConnect>> /\ WorkerAt(s, v)
      /\ rsWorker[s].at = "last"
  BY DEF IsLast
<1>2. rsWorker[s] = [f \in {"at", "route", "block", "replaced"} |-> rsWorker[s][f]]
  BY SubmixFacts DEF WorkersOK
<1>3. /\ v = [f \in {"at", "route", "block", "replaced"} |-> v[f]] /\ v.route = r
      /\ open => v.at = "closed"
      /\ ~open => v.at = "release"
  BY <1>2
<1> HIDE DEF v
<1>4. WorkersOK(rsWorker') /\ rsWorker'[s] = v /\ \A t \in Streams \ {s} : rsWorker'[t] = rsWorker[t]
  BY <1>1, <1>3, SubmixFacts, WorkerMoved
<1>5. ASSUME NEW t \in 1..MaxRoutes, Held(t) PROVE Held(t)'
  <2>1. PICK p \in Streams : rsCurrent[p] = t \/ Leaving(rsWorker[p], t)
    BY <1>5 DEF Held
  <2>2. CASE rsCurrent[p] = t \/ p # s \/ ~open
    BY <1>1, <1>3, <1>4, <2>1, <2>2 DEF Held, Leaving
  <2>3. CASE t = r /\ open
    <3>1. \E x \in Streams : rsCurrent[x] = t
      BY <2>3 DEF SubmixInv, StreamsCounted, CountedBy, InputsOf, hasAtleastOneStreamOpen, Streams
    <3> QED BY <1>1, <3>1 DEF Held
  <2> QED BY <2>1, <2>2, <2>3 DEF Leaving
<1> QED BY <1>1, <1>4, <1>5, SubmixFacts, RoutesKept

----------------------------------------------------------------------------------
\* The route that the table has for an address, or a new one, is opened next.
LEMMA RouteFound ==
  ASSUME SubmixInv, findOrCreateRoute PROVE SubmixInv'
<1> DEFINE a == rsConnect.address
<1>1. rsConnect.at = "find" /\ a \in SubmixAddresses /\ UNCHANGED <<rsCurrent, rsWorker>>
  BY SubmixFacts DEF findOrCreateRoute, ConnectOK
<1>2. ASSUME NEW t \in 1..MaxRoutes PROVE /\ Witnessed(t) => Held(t)
                                          /\ Held(t) => Held(t)'
  BY <1>1 DEF Witnessed, Held
<1>3. ASSUME NEW r, NEW connect, connect = [rsConnect EXCEPT !.at = "open", !.route = r]
      PROVE  connect.at = "open" /\ connect.route = r
             /\ \A current, used : ConnectOK(rsConnect, current, rsUsed) /\ r \in 1..used => ConnectOK(connect, current, used)
  BY <1>1, <1>3, SubmixFacts DEF ConnectOK
<1>4. CASE rsTable[a] # NoRoute
  <2>1. rsConnect' = [rsConnect EXCEPT !.at = "open", !.route = rsTable[a]] /\ UNCHANGED <<rsRoutes, rsUsed, rsTable>>
    BY <1>4 DEF findOrCreateRoute
  <2>2. ConnectOK(rsConnect', rsCurrent, rsUsed)
    <3>1. rsTable[a] \in 1..rsUsed /\ ConnectOK(rsConnect, rsCurrent, rsUsed)
      BY <1>1, <1>4, SubmixFacts DEF NoRoute
    <3> QED BY <1>3, <2>1, <3>1
  <2>3. \A t \in 1..MaxRoutes : Held(t) => Held(t)'
    BY <1>2
  <2> QED BY <1>1, <2>1, <2>2, <2>3, SubmixFacts, RoutesKept
<1>5. CASE rsTable[a] = NoRoute
  <2> DEFINE r == rsUsed + 1
             n == [NewRoute EXCEPT !.address = a]
             q == createPipe(n, ConfigOf(rsConnect.stream))
  <2>1. /\ rsUsed < MaxRoutes /\ rsUsed' = r /\ SetRoute(r, q)
        /\ rsTable' = [rsTable EXCEPT ![a] = r]
        /\ rsConnect' = [rsConnect EXCEPT !.at = "open", !.route = r]
    BY <1>5 DEF findOrCreateRoute
  <2>2. r \in 1..MaxRoutes /\ r \in 1..r /\ \A t \in 0..rsUsed : t # r /\ t \in 0..r
    BY <2>1, SubmixFacts
  <2>3. RouteOK(q) /\ q.address = a /\ Fresh(q)
    <3>1. RouteOK(n) /\ n.address = a /\ ~n.inOpen /\ ~n.outOpen
      <4>1. RouteOK(NewRoute) /\ ~NewRoute.inOpen /\ ~NewRoute.outOpen
        BY DEF NewRoute, RouteOK, RouteFields
      <4> QED BY <4>1 DEF RouteOK, RouteFields
    <3> HIDE DEF n
    <3>2. RouteOK(q) /\ q.sink /\ ~q.shut /\ \A f \in {"address", "inOpen", "outOpen"} : q[f] = n[f]
      BY <3>1 DEF createPipe, RouteOK, RouteFields
    <3> QED BY <3>1, <3>2 DEF Fresh
  <2> HIDE DEF q
  <2>4. RoutesOK(rsRoutes') /\ rsRoutes'[r] = q /\ \A t \in 1..MaxRoutes \ {r} : rsRoutes'[t] = rsRoutes[t]
    BY <2>1, <2>2, <2>3, SubmixFacts, RouteReplaced
  <2>5. ConnectOK(rsConnect', rsCurrent, r) /\ rsConnect'.at = "open" /\ rsConnect'.route = r
    BY <1>3, <2>1, <2>2, SubmixFacts
  <2>6. /\ rsTable' \in [SubmixAddresses -> 0..r] /\ rsTable'[a] = r
        /\ \A b \in SubmixAddresses \ {a} : rsTable'[b] = rsTable[b]
    BY <1>1, <2>1, <2>2, SubmixFacts
  <2>7. rsCurrent \in [Streams -> 0..r]
    BY <2>2, SubmixFacts
  <2>8. SubmixTypeOK'
    BY <1>1, <2>1, <2>2, <2>4, <2>5, <2>6, <2>7, SubmixFacts DEF SubmixTypeOK
  <2>9. StreamsCounted'
    <3>1. InputsOf(rsCurrent, r) = {}
      BY <2>2, SubmixFacts DEF InputsOf, Streams
    <3>2. \A t \in 1..MaxRoutes : /\ CountedBy(rsRoutes'[t], InputsOf(rsCurrent, t))
                                  /\ rsRoutes'[t].outOpen => \E s \in Outputs : rsCurrent[s] = t
      BY <2>3, <2>4, <3>1 DEF SubmixInv, StreamsCounted, CountedBy, Fresh
    <3> QED BY <1>1, <3>2 DEF StreamsCounted
  <2>10. ASSUME NEW b \in SubmixAddresses, rsTable'[b] # NoRoute
         PROVE  rsRoutes'[rsTable'[b]].address = b /\ Witnessed(rsTable[b])' 
    <3>1. CASE b = a
      BY <2>3, <2>4, <2>5, <2>6, <3>1 DEF Witnessed
    <3>2. CASE b # a
      <4>1. rsTable'[b] = rsTable[b] /\ rsTable[b] \in 1..MaxRoutes \ {r}
        BY <2>2, <2>6, <2>10, <3>2, SubmixFacts DEF NoRoute
      <4>2. rsRoutes[rsTable[b]].address = b /\ Witnessed(rsTable[b])
        BY <2>10, <4>1 DEF SubmixInv, TableWitnessed
      <4>3. Held(rsTable[b])'
        <5>1. Held(rsTable[b])
          BY <1>2, <4>1, <4>2
        <5> QED BY <1>1, <4>1, <5>1 DEF Held
      <4> QED BY <2>4, <4>1, <4>2, <4>3 DEF Witnessed
    <3> QED BY <3>1, <3>2
  <2>11. TableWitnessed'
    BY <2>10 DEF TableWitnessed
  <2> QED BY <2>8, <2>9, <2>11 DEF SubmixInv
<1> QED BY <1>4, <1>5

\* A stream is opened on its route: the route counts it, and the stream has it.
LEMMA StreamAttached ==
  ASSUME SubmixInv, NEW r \in 1..rsUsed, NEW s \in Streams, rsCurrent[s] = NoRoute,
         NEW q, RouteOK(q), \A f \in {"address", "inOpen", "outOpen", "inputRefCount"} : q[f] = rsRoutes[r][f],
         SetRoute(r, routeOpenStream(q, s)), rsCurrent' = [rsCurrent EXCEPT ![s] = r],
         rsConnect.at = "open" => rsConnect.route = r, rsConnect' = NoConnect,
         UNCHANGED <<rsUsed, rsTable, rsWorker>>
  PROVE  SubmixInv'
<1> DEFINE p == routeOpenStream(q, s)
<1>1. r \in 1..MaxRoutes /\ r # NoRoute
  BY SubmixFacts DEF NoRoute
<1>2. /\ RouteOK(p) /\ p.address = q.address
      /\ s \in Outputs => p.inOpen = q.inOpen /\ p.inputRefCount = q.inputRefCount
      /\ s \in Inputs => /\ p.outOpen = q.outOpen /\ p.inOpen
                         /\ p.inputRefCount = IF q.inOpen THEN q.inputRefCount + 1 ELSE 1
  BY RouteOpens
<1> HIDE DEF p
<1>3. RoutesOK(rsRoutes') /\ rsRoutes'[r] = p /\ \A t \in 1..MaxRoutes \ {r} : rsRoutes'[t] = rsRoutes[t]
  BY <1>1, <1>2, SubmixFacts, RouteReplaced DEF p
<1>4. /\ rsCurrent' \in [Streams -> 0..rsUsed] /\ rsCurrent'[s] = r
      /\ \A x \in Streams \ {s} : rsCurrent'[x] = rsCurrent[x]
  BY SubmixFacts
<1>5. SubmixTypeOK'
  BY <1>3, <1>4, SubmixFacts DEF SubmixTypeOK, ConnectOK, NoConnect
<1>6. ASSUME NEW t \in 1..MaxRoutes
      PROVE  InputsOf(rsCurrent', t) = IF t = r /\ s \in Inputs THEN InputsOf(rsCurrent, t) \union {s} ELSE InputsOf(rsCurrent, t)
  BY <1>1, <1>4, SubmixFacts DEF InputsOf, Streams, NoRoute
<1>7. ASSUME NEW t \in 1..MaxRoutes
      PROVE  /\ CountedBy(rsRoutes'[t], InputsOf(rsCurrent', t))
             /\ rsRoutes'[t].outOpen => \E x \in Outputs : rsCurrent'[x] = t
  <2>1. /\ CountedBy(rsRoutes[t], InputsOf(rsCurrent, t))
        /\ rsRoutes[t].outOpen => \E x \in Outputs : rsCurrent[x] = t
    BY DEF SubmixInv, StreamsCounted
  <2>2. \A x \in Outputs : rsCurrent[x] = t => rsCurrent'[x] = t
    BY <1>4, SubmixFacts DEF NoRoute, Streams
  <2>3. CASE t # r
    BY <1>3, <1>6, <2>1, <2>2, <2>3
  <2>4. CASE t = r /\ s \in Outputs
    <3>1. s \notin Inputs
      BY <2>4, SubmixAssumption
    <3> QED BY <1>2, <1>3, <1>4, <1>6, <2>1, <2>4, <3>1 DEF CountedBy
  <2>5. CASE t = r /\ s \in Inputs
    <3> DEFINE I == InputsOf(rsCurrent, r)
    <3>1. IsFiniteSet(I) /\ s \notin I
      <4>1. I \subseteq Inputs
        BY DEF InputsOf
      <4> QED BY <1>1, <4>1, SubmixAssumption, FS_Subset DEF InputsOf
    <3>2. Cardinality(I \union {s}) = Cardinality(I) + 1 /\ Cardinality({s}) = 1
      BY <3>1, FS_AddElement, FS_Singleton
    <3>3. InputsOf(rsCurrent', t) = I \union {s}
      BY <1>6, <2>5
    <3> HIDE DEF I
    <3>4. CountedBy(q, I)
      BY <2>1, <2>5 DEF I, CountedBy
    <3>5. CountedBy(p, I \union {s})
      <4>1. CASE q.inOpen
        BY <1>2, <2>5, <3>2, <3>4, <4>1 DEF CountedBy
      <4>2. CASE ~q.inOpen
        <5>1. I = {}
          BY <3>4, <4>2 DEF CountedBy
        <5>2. I \union {s} = {s}
          BY <5>1
        <5> QED BY <1>2, <2>5, <3>2, <4>2, <5>2 DEF CountedBy
      <4> QED BY <4>1, <4>2
    <3> QED BY <1>2, <1>3, <2>1, <2>2, <2>5, <3>3, <3>5
  <2> QED BY <2>3, <2>4, <2>5 DEF Streams
<1>8. StreamsCounted'
  BY <1>7 DEF StreamsCounted
<1>9. ASSUME NEW a \in SubmixAddresses, rsTable[a] # NoRoute
      PROVE  rsRoutes'[rsTable[a]].address = a /\ Held(rsTable[a])'
  <2>1. rsTable[a] \in 1..MaxRoutes /\ rsRoutes[rsTable[a]].address = a /\ Witnessed(rsTable[a])
    BY <1>9, SubmixFacts DEF SubmixInv, TableWitnessed, NoRoute
  <2>2. CASE rsTable[a] = r
    BY <1>2, <1>3, <1>4, <2>1, <2>2 DEF Held
  <2>3. CASE rsTable[a] # r
    BY <1>3, <1>4, <2>1, <2>3 DEF Held, Witnessed, NoRoute
  <2> QED BY <2>2, <2>3
<1>10. TableWitnessed'
  BY <1>9 DEF TableWitnessed, Witnessed
<1> QED BY <1>5, <1>8, <1>10 DEF SubmixInv

LEMMA OpensKeep ==
  ASSUME SubmixInv, PipeRecreated \/ \E r \in 1..MaxRoutes : OpenStream(r) PROVE SubmixInv'
<1> DEFINE s == rsConnect.stream
           r == rsConnect.route
           q == rsRoutes[r]
<1>1. rsConnect.at \in {"open", "create"}
  BY DEF PipeRecreated, OpenStream, Connecting
<1>2. s \in Streams /\ rsCurrent[s] = NoRoute /\ r \in 1..rsUsed
  BY <1>1, SubmixFacts DEF ConnectOK
<1>3. r \in 1..MaxRoutes /\ RouteOK(q)
  BY <1>2, SubmixFacts DEF RoutesOK
<1>4. /\ RouteOK(createPipe(q, q.config))
      /\ \A f \in {"address", "inOpen", "outOpen", "inputRefCount"} : createPipe(q, q.config)[f] = q[f]
  BY <1>3 DEF createPipe, RouteOK, RouteFields
<1>5. CASE PipeRecreated
  <2>1. /\ SetRoute(r, routeOpenStream(createPipe(q, q.config), s)) /\ rsCurrent' = [rsCurrent EXCEPT ![s] = r]
        /\ rsConnect' = NoConnect /\ UNCHANGED <<rsUsed, rsTable, rsWorker>>
    BY <1>5 DEF PipeRecreated
  <2> HIDE DEF s, r
  <2> QED BY <1>2, <1>4, <2>1, StreamAttached DEF r
<1>6. CASE \E t \in 1..MaxRoutes : OpenStream(t)
  <2>1. /\ SetRoute(r, routeOpenStream(q, s)) /\ rsCurrent' = [rsCurrent EXCEPT ![s] = r]
        /\ rsConnect' = NoConnect /\ UNCHANGED <<rsUsed, rsTable, rsWorker>>
    BY <1>6 DEF OpenStream, Connecting
  <2> HIDE DEF s, r
  <2> QED BY <1>2, <1>3, <2>1, StreamAttached DEF r
<1> QED BY <1>5, <1>6

----------------------------------------------------------------------------------
\* A stream leaves its route: the route counts it off, and its worker is a witness.
LEMMA ShutdownKeeps ==
  ASSUME SubmixInv, NEW s \in Streams, Shutdown(s) PROVE SubmixInv'
<1> DEFINE r == rsCurrent[s]
           q == rsRoutes[r]
           p == routeCloseStream(q, s)
<1>1. /\ UNCHANGED <<rsUsed, rsTable, rsConnect>> /\ rsCurrent' = [rsCurrent EXCEPT ![s] = NoRoute]
      /\ rsWorker[s] = Resting /\ r \in 0..rsUsed
  BY SubmixFacts DEF Shutdown
<1>2. /\ rsCurrent' \in [Streams -> 0..rsUsed] /\ rsCurrent'[s] = NoRoute
      /\ \A x \in Streams \ {s} : rsCurrent'[x] = rsCurrent[x]
  BY <1>1, SubmixFacts DEF NoRoute
<1>3. ConnectOK(rsConnect', rsCurrent', rsUsed)
  BY <1>1, <1>2, SubmixFacts DEF ConnectOK
<1>4. CASE r = NoRoute
  <2> DEFINE v == [Resting EXCEPT !.at = "closed"]
  <2>1. WorkerAt(s, v) /\ UNCHANGED rsRoutes
    BY <1>4 DEF Shutdown
  <2>2. v = [f \in {"at", "route", "block", "replaced"} |-> v[f]] /\ v.at = "closed"
    BY DEF Resting
  <2>3. WorkersOK(rsWorker') /\ rsWorker'[s] = v /\ \A t \in Streams \ {s} : rsWorker'[t] = rsWorker[t]
    BY <2>1, <2>2, SubmixFacts, WorkerMoved
  <2>4. rsCurrent' = rsCurrent
    <3>1. \A x \in Streams : rsCurrent'[x] = rsCurrent[x]
      BY <1>2, <1>4
    <3> QED BY <1>2, <3>1, SubmixFacts
  <2>5. \A t \in 1..MaxRoutes : Held(t) => Held(t)'
    BY <1>1, <2>3, <2>4 DEF Held, Leaving, Resting
  <2> QED BY <1>1, <1>3, <2>1, <2>3, <2>4, <2>5, SubmixFacts, RoutesKept
<1>5. CASE r # NoRoute
  <2> DEFINE v == [Resting EXCEPT !.at = "last", !.route = r]
             I == InputsOf(rsCurrent, r)
  <2>1. SetRoute(r, p) /\ WorkerAt(s, v) /\ r \in 1..MaxRoutes /\ RouteOK(q)
    BY <1>1, <1>5, SubmixFacts DEF Shutdown, RoutesOK, NoRoute
  <2>2. v = [f \in {"at", "route", "block", "replaced"} |-> v[f]] /\ v.at = "last" /\ v.route = r
    BY DEF Resting
  <2> HIDE DEF v
  <2>3. WorkersOK(rsWorker') /\ rsWorker'[s] = v /\ \A t \in Streams \ {s} : rsWorker'[t] = rsWorker[t]
    BY <2>1, <2>2, SubmixFacts, WorkerMoved
  <2>4. IsFiniteSet(I) /\ (s \in Inputs => s \in I)
    <3>1. I \subseteq Inputs
      BY DEF InputsOf
    <3> QED BY <3>1, SubmixAssumption, FS_Subset DEF InputsOf
  <2>5. CountedBy(q, I)
    BY <2>1 DEF SubmixInv, StreamsCounted
  <2> HIDE DEF I
  <2>6. s \in Inputs => q.inOpen /\ q.inputRefCount = Cardinality(I) /\ Cardinality(I) \in Nat \ {0}
    <3>1. s \in Inputs => I # {}
      BY <2>4
    <3> QED BY <2>4, <2>5, <3>1, FS_CardinalityType, FS_EmptySet DEF CountedBy
  <2>7. /\ RouteOK(p) /\ p.address = q.address
        /\ s \in Outputs => p.inOpen = q.inOpen /\ p.inputRefCount = q.inputRefCount /\ ~p.outOpen
        /\ s \in Inputs => /\ p.outOpen = q.outOpen /\ p.inputRefCount = q.inputRefCount - 1
                           /\ q.inputRefCount = 1 => ~p.inOpen
                           /\ q.inputRefCount # 1 => p.inOpen = q.inOpen
    <3>1. s \in Inputs => q.inputRefCount > 0
      BY <2>6
    <3> HIDE DEF q, r
    <3> QED BY <2>1, <3>1, RouteCloses
  <2> HIDE DEF p
  <2>8. RoutesOK(rsRoutes') /\ rsRoutes'[r] = p /\ \A t \in 1..MaxRoutes \ {r} : rsRoutes'[t] = rsRoutes[t]
    BY <2>1, <2>7, SubmixFacts, RouteReplaced
  <2>9. SubmixTypeOK'
    BY <1>1, <1>2, <1>3, <2>3, <2>8, SubmixFacts DEF SubmixTypeOK
  <2>10. ASSUME NEW t \in 1..MaxRoutes
         PROVE  InputsOf(rsCurrent', t) = IF t = r /\ s \in Inputs THEN InputsOf(rsCurrent, t) \ {s} ELSE InputsOf(rsCurrent, t)
    BY <1>2 DEF InputsOf, Streams, NoRoute
  <2>11. ASSUME NEW t \in 1..MaxRoutes
         PROVE  /\ CountedBy(rsRoutes'[t], InputsOf(rsCurrent', t))
                /\ rsRoutes'[t].outOpen => \E x \in Outputs : rsCurrent'[x] = t
    <3>1. /\ CountedBy(rsRoutes[t], InputsOf(rsCurrent, t))
          /\ rsRoutes[t].outOpen => \E x \in Outputs : rsCurrent[x] = t
      BY DEF SubmixInv, StreamsCounted
    <3>2. CASE t # r
      <4>1. \A x \in Outputs : rsCurrent[x] = t => rsCurrent'[x] = t
        BY <1>2, <3>2 DEF Streams
      <4> QED BY <2>8, <2>10, <3>1, <3>2, <4>1
    <3>3. CASE t = r /\ s \in Outputs
      <4>1. s \notin Inputs
        BY <3>3, SubmixAssumption
      <4> QED BY <2>7, <2>8, <2>10, <3>1, <3>3, <4>1 DEF CountedBy
    <3>4. CASE t = r /\ s \in Inputs
      <4>1. InputsOf(rsCurrent', t) = I \ {s}
        BY <2>10, <3>4 DEF I
      <4>2. Cardinality(I \ {s}) = Cardinality(I) - 1 /\ IsFiniteSet(I \ {s})
        BY <2>4, <3>4, FS_RemoveElement
      <4>3. I \ {s} = {} <=> q.inputRefCount = 1
        BY <2>6, <3>4, <4>2, FS_EmptySet
      <4>4. CountedBy(p, I \ {s})
        <5>1. CASE q.inputRefCount = 1
          BY <2>7, <3>4, <4>3, <5>1 DEF CountedBy
        <5>2. CASE q.inputRefCount # 1
          BY <2>6, <2>7, <3>4, <4>2, <4>3, <5>2 DEF CountedBy
        <5> QED BY <5>1, <5>2
      <4>5. s \notin Outputs /\ \A x \in Outputs : rsCurrent[x] = t => rsCurrent'[x] = t
        BY <1>2, <3>4, SubmixAssumption DEF Streams
      <4> QED BY <2>7, <2>8, <3>1, <3>4, <4>1, <4>4, <4>5
    <3> QED BY <3>2, <3>3, <3>4 DEF Streams
  <2>12. StreamsCounted'
    BY <2>11 DEF StreamsCounted
  <2>13. ASSUME NEW t \in 1..MaxRoutes, Held(t) PROVE Held(t)'
    <3>1. CASE t = r
      BY <2>2, <2>3, <3>1 DEF Held, Leaving
    <3>2. CASE t # r
      BY <1>1, <1>2, <2>3, <2>13, <3>2 DEF Held, Leaving, Resting
    <3> QED BY <3>1, <3>2
  <2>14. ASSUME NEW a \in SubmixAddresses, rsTable[a] # NoRoute
         PROVE  rsRoutes'[rsTable[a]].address = a /\ Witnessed(rsTable[a])'
    <3>1. rsTable[a] \in 1..MaxRoutes /\ rsRoutes[rsTable[a]].address = a /\ Witnessed(rsTable[a])
      BY <2>14, SubmixFacts DEF SubmixInv, TableWitnessed, NoRoute
    <3>2. rsRoutes'[rsTable[a]].address = a
      BY <2>7, <2>8, <3>1
    <3>3. CASE Held(rsTable[a])
      <4>1. Held(rsTable[a])'
        BY <1>1, <2>13, <3>1, <3>3
      <4> QED BY <3>2, <4>1 DEF Witnessed
    <3>4. CASE ~Held(rsTable[a])
      <4>1. rsTable[a] # r
        BY <3>4 DEF Held
      <4> QED BY <1>1, <2>8, <3>1, <3>2, <3>4, <4>1 DEF Witnessed
    <3> QED BY <3>3, <3>4
  <2>15. TableWitnessed'
    BY <1>1, <2>14 DEF TableWitnessed
  <2> QED BY <2>9, <2>12, <2>15 DEF SubmixInv
<1> QED BY <1>4, <1>5

\* The route that the last stream left leaves the table; no other needs its worker.
LEMMA RouteRemoved ==
  ASSUME SubmixInv, NEW s \in Streams, RemoveRoute(s) PROVE SubmixInv'
<1> DEFINE r == rsWorker[s].route
           b == rsRoutes[r].address
           v == [rsWorker[s] EXCEPT !.at = "closed"]
<1>1. /\ UNCHANGED <<rsRoutes, rsUsed, rsCurrent, rsConnect>> /\ rsTable' = [rsTable EXCEPT ![b] = NoRoute]
      /\ WorkerAt(s, v)
  BY DEF RemoveRoute
<1>2. v = [f \in {"at", "route", "block", "replaced"} |-> v[f]] /\ v.at = "closed"
  BY SubmixFacts DEF WorkersOK
<1> HIDE DEF v
<1>3. WorkersOK(rsWorker') /\ rsWorker'[s] = v /\ \A t \in Streams \ {s} : rsWorker'[t] = rsWorker[t]
  BY <1>1, <1>2, SubmixFacts, WorkerMoved
<1>4. rsTable' \in [SubmixAddresses -> 0..rsUsed]
      /\ \A a \in SubmixAddresses : rsTable'[a] = IF a = b THEN NoRoute ELSE rsTable[a]
  <2> HIDE DEF b
  <2>1. 0 \in 0..rsUsed /\ rsTable \in [SubmixAddresses -> 0..rsUsed]
    BY SubmixFacts
  <2> QED BY <1>1, <2>1 DEF NoRoute
<1>5. SubmixTypeOK' /\ StreamsCounted'
  BY <1>1, <1>3, <1>4, SubmixFacts DEF SubmixInv, SubmixTypeOK, StreamsCounted
<1>6. ASSUME NEW t \in 1..MaxRoutes, t # r, Witnessed(t) PROVE Witnessed(t)'
  BY <1>1, <1>3, <1>6 DEF Witnessed, Held, Leaving
<1>7. TableWitnessed'
  <2>1. ASSUME NEW a \in SubmixAddresses, rsTable'[a] # NoRoute
        PROVE  rsRoutes'[rsTable'[a]].address = a /\ Witnessed(rsTable[a])'
    <3>1. rsTable'[a] = rsTable[a] /\ a # b /\ rsTable[a] # NoRoute
      BY <1>4, <2>1
    <3>2. rsTable[a] \in 1..MaxRoutes /\ rsRoutes[rsTable[a]].address = a /\ Witnessed(rsTable[a])
      BY <3>1, SubmixFacts DEF SubmixInv, TableWitnessed, NoRoute
    <3>3. rsTable[a] # r
      BY <3>1, <3>2
    <3> QED BY <1>1, <1>6, <3>1, <3>2, <3>3
  <2> QED BY <2>1 DEF TableWitnessed
<1> QED BY <1>5, <1>7 DEF SubmixInv

LEMMA SubmixGoesOn == ~Reconnects /\ SubmixInv /\ [SubmixNext]_rsVars => SubmixInv'
<1> SUFFICES ASSUME ~Reconnects, SubmixInv, [SubmixNext]_rsVars PROVE SubmixInv'
  OBVIOUS
<1>1. CASE UNCHANGED rsVars
  <2>1. UNCHANGED <<rsRoutes, rsUsed, rsTable, rsCurrent, rsWorker, rsConnect>>
    BY <1>1 DEF rsVars
  <2>2. \A r \in 1..MaxRoutes : Held(r) => Held(r)'
    BY <2>1 DEF Held
  <2> QED BY <2>1, <2>2, SubmixFacts, RoutesKept
<1>2. CASE \E s \in Streams, a \in SubmixAddresses : SetConnectedDevices(s, a)
  BY <1>2, ConnectsKeep
<1>3. CASE findOrCreateRoute
  BY <1>3, RouteFound
<1>4. CASE PipeRecreated
  BY <1>4, OpensKeep
<1>5. ASSUME NEW r \in 1..MaxRoutes, RouteRefused(r) \/ ResetPipe(r) \/ OpenStream(r) PROVE SubmixInv'
  BY <1>5, ConnectsKeep, ResetKeeps, OpensKeep
<1>6. ASSUME NEW s \in Streams,
             \/ Standby(s) \/ (\E skip \in BOOLEAN : Transfer(s, skip)) \/ OutWrite(s) \/ SinkWrite(s) \/ InRead(s)
             \/ prepareToClose(s) \/ Close(s)
      PROVE  SubmixInv'
  BY <1>6, WorkersKeep, EndsKeep
<1>7. ASSUME NEW s \in Streams, Shutdown(s) \/ IsLast(s) \/ ReleaseLast(s) \/ RemoveRoute(s) PROVE SubmixInv'
  BY <1>7, ShutdownKeeps, LastKeeps, PipeGiveUpKeeps, RouteRemoved
<1> QED BY <1>1, <1>2, <1>3, <1>4, <1>5, <1>6, <1>7 DEF SubmixNext

LEMMA SubmixFollows == SubmixInv => InputsAreCounted /\ RoutesAreRemoved
<1> SUFFICES ASSUME SubmixInv PROVE InputsAreCounted /\ RoutesAreRemoved
  OBVIOUS
<1>1. ASSUME NEW r \in 1..MaxRoutes
      PROVE  /\ Cardinality(InputsOf(rsCurrent, r)) <= rsRoutes[r].inputRefCount
             /\ InputsOf(rsCurrent, r) # {} => rsRoutes[r].inOpen
  <2>1. CountedBy(rsRoutes[r], InputsOf(rsCurrent, r)) /\ rsRoutes[r].inputRefCount \in Nat
    BY SubmixFacts DEF SubmixInv, StreamsCounted, RoutesOK, RouteOK
  <2>2. Cardinality({}) = 0
    BY FS_EmptySet
  <2> QED BY <2>1, <2>2 DEF CountedBy
<1>2. InputsAreCounted
  BY <1>1 DEF InputsAreCounted, InputsOf
<1>3. RoutesAreRemoved
  BY SubmixFacts DEF SubmixInv, TableWitnessed, RoutesAreRemoved, Witnessed, Held, Leaving, NoConnect, NoRoute
<1> QED BY <1>2, <1>3

----------------------------------------------------------------------------------
(* The module's tables. An id that is looked up is there because nothing goes while *)
(* something refers to it: a device not while a client's config is of it, a config  *)
(* not while the index or a stream has it.                                          *)
PortKept(q) == q = [f \in {"tag", "device", "profiles"} |-> q[f]]
Joins(r) == /\ r = [f \in {"srcs", "sink", "exclusive"} |-> r[f]]
            /\ IF r.sink \in Mixes THEN r.srcs \intersect Mixes = {} ELSE r.srcs \subseteq Mixes
PortsStand ==
  /\ DOMAIN InitialPorts \subseteq DOMAIN ports
  /\ \A p \in DOMAIN ports :
       /\ PortKept(ports[p])
       /\ p \in DOMAIN InitialPorts => ports[p].tag = InitialPorts[p].tag
       /\ p \notin DOMAIN InitialPorts => p \in FirstId..(nextPortId - 1) /\ ports[p].tag = "connected"
  /\ \A d : d \in DOMAIN mConnectedDevicePorts <=> d \in DOMAIN ports /\ ports[d].tag = "connected"
  /\ \A d \in DOMAIN mConnectedDevicePorts : mConnectedDevicePorts[d] \subseteq Mixes
  /\ \A r \in routes : Joins(r)
  /\ nextPortId \in FirstId..(LastId + 1) /\ simulateDeviceConnections \in BOOLEAN
ConfigsStand ==
  /\ \A c \in DOMAIN portConfigs :
       /\ portConfigs[c] = [f \in {"port", "value"} |-> portConfigs[c][f]]
       /\ portConfigs[c].port \in DOMAIN ports
       /\ c \in Attached \/ c \in FirstId..(nextPortId - 1)
  /\ \A c \in Attached : c \in DOMAIN portConfigs /\ portConfigs[c].port = c

\* The ports of configs, and what the index has of a patch, when the configs are these.
Under(configs, S) == {configs[c].port : c \in S}
Indexed(configs, id, patch) == {<<c, id>> : c \in patch.src \union patch.snk}
                               \union {<<p, id>> : p \in Under(configs, patch.src \union patch.snk)}
Sinks(joins) == {r.sink : r \in joins}
OnlyExclusive(joins, k) == k \in Sinks(joins) /\ \A r \in joins : r.sink = k => r.exclusive
IndexStands == \A e : e \in mPatches <=> \E id \in DOMAIN patches : e \in Indexed(portConfigs, id, patches[id])
SinksStand == \A k : OnlyExclusive(routes, k) =>
  \A i, j \in DOMAIN patches :
    k \in Under(portConfigs, patches[i].snk) /\ k \in Under(portConfigs, patches[j].snk) => i = j
PatchesStand ==
  /\ nextPatchId \in 1..(LastPatch + 1)
  /\ \A id \in DOMAIN patches : /\ id \in 1..(nextPatchId - 1)
                                /\ patches[id].src \union patches[id].snk \subseteq DOMAIN portConfigs
  /\ IndexStands /\ SinksStand
StreamsStand == \A c \in DOMAIN mStreams :
  /\ mStreams[c] = [f \in {"port", "open", "devices", "gain"} |-> mStreams[c][f]]
  /\ mStreams[c].port \in Mixes /\ (mStreams[c].open => c \in DOMAIN portConfigs)
ModuleInv == PortsStand /\ ProfilesAreOwned /\ ConfigsStand /\ PatchesStand /\ StreamsStand

LEMMA ModuleIds ==
  /\ FirstId \in Nat /\ LastId \in Nat /\ LastPatch \in Nat
  /\ \A p \in DOMAIN InitialPorts : /\ p \in Nat /\ p < FirstId /\ p \notin FirstId..(LastId + 1)
                                    /\ InitialPorts[p].tag \in {"mix", "attached", "template"}
  /\ Mixes \subseteq DOMAIN InitialPorts /\ Attached \subseteq DOMAIN InitialPorts
  /\ \A p \in Mixes : InitialPorts[p].tag = "mix"
BY ModuleAssumption DEF Mixes, Attached

LEMMA ModuleBegins == ModuleInit => ModuleInv
<1> SUFFICES ASSUME ModuleInit PROVE ModuleInv
  OBVIOUS
<1> USE DEF ModuleInit
<1>1. DOMAIN mConnectedDevicePorts = {} /\ DOMAIN patches = {} /\ DOMAIN mStreams = {}
  OBVIOUS
<1>2. PortsStand
  <2>1. \A p \in DOMAIN InitialPorts : PortKept(InitialPorts[p])
    BY ModuleAssumption DEF PortKept
  <2>2. \A r \in InitialRoutes : Joins(r)
    BY ModuleAssumption DEF Joins
  <2>3. FirstId \in FirstId..(LastId + 1)
    BY ModuleAssumption
  <2> QED BY <1>1, <2>1, <2>2, <2>3, ModuleIds DEF PortsStand
<1>3. ProfilesAreOwned
  BY <1>1, ModuleIds DEF ProfilesAreOwned
<1>4. ConfigsStand
  BY ModuleIds DEF ConfigsStand, InitialConfigs
<1>5. PatchesStand
  BY <1>1, ModuleIds DEF PatchesStand, IndexStands, SinksStand
<1>6. StreamsStand
  BY <1>1 DEF StreamsStand
<1> QED BY <1>2, <1>3, <1>4, <1>5, <1>6 DEF ModuleInv

\* A step that leaves the patches alone, and the ports of their configs.
LEMMA PatchesKept ==
  ASSUME PatchesStand, UNCHANGED <<patches, mPatches, nextPatchId>>,
         \A id \in DOMAIN patches : \A c \in patches[id].src \union patches[id].snk :
           c \in DOMAIN portConfigs' /\ portConfigs'[c].port = portConfigs[c].port,
         \A k : OnlyExclusive(routes', k) => OnlyExclusive(routes, k)
                  \/ \A id \in DOMAIN patches : k \notin Under(portConfigs, patches[id].snk)
  PROVE  PatchesStand'
<1>1. ASSUME NEW id \in DOMAIN patches
      PROVE  /\ Under(portConfigs', patches[id].snk) = Under(portConfigs, patches[id].snk)
             /\ Indexed(portConfigs', id, patches[id]) = Indexed(portConfigs, id, patches[id])
  BY DEF Under, Indexed
<1>2. IndexStands'
  BY <1>1 DEF PatchesStand, IndexStands
<1>3. SinksStand'
  BY <1>1 DEF PatchesStand, SinksStand
<1> QED BY <1>2, <1>3 DEF PatchesStand

\* Streams that keep their mix port are as good as before when they are no more open.
LEMMA StreamsKept ==
  ASSUME StreamsStand, DOMAIN portConfigs \subseteq DOMAIN portConfigs',
         DOMAIN mStreams' \subseteq DOMAIN mStreams,
         \A c \in DOMAIN mStreams' :
           /\ mStreams'[c] = [f \in {"port", "open", "devices", "gain"} |-> mStreams'[c][f]]
           /\ mStreams'[c].port = mStreams[c].port /\ (mStreams'[c].open => mStreams[c].open)
  PROVE  StreamsStand'
BY DEF StreamsStand

----------------------------------------------------------------------------------
(* External devices *)
LEMMA RoutableAreMixes ==
  ASSUME PortsStand, NEW t \in DOMAIN ports, t \notin Mixes PROVE Routable(t) \subseteq Mixes
BY DEF PortsStand, Joins, Routable, RoutesOf

LEMMA DeviceConnected ==
  ASSUME ModuleInv, NEW t \in DOMAIN ports, NEW a, NEW o, connectExternalDevice(t, a, o)
  PROVE  ModuleInv'
<1> DEFINE device == <<t, a>>
           id == nextPortId
           waiting == {m \in Routable(t) : ~ports[m].profiles}
           static == o = "profiles"
           used == {m \in Routable(t) : \E d \in DOMAIN mConnectedDevicePorts : m \in mConnectedDevicePorts[d]}
           refused == o = "fails" \/ (~static /\ waiting # {})
           port == [tag |-> "connected", device |-> device, profiles |-> static]
           told == [p \in DOMAIN ports |-> IF static /\ p \in waiting THEN [ports[p] EXCEPT !.profiles = TRUE]
                                           ELSE ports[p]]
           joined(r) == IF t \in r.srcs THEN [r EXCEPT !.srcs = @ \union {id}] ELSE r
<1>1. /\ ports[t].tag = "template" /\ id <= LastId /\ nextPortId' = id + 1
      /\ UNCHANGED <<portConfigs, patches, mPatches, mStreams, nextPatchId, simulateDeviceConnections>>
      /\ refused => UNCHANGED <<ports, routes, mConnectedDevicePorts>>
      /\ ~refused => /\ ports' = With(told, id, port)
                     /\ mConnectedDevicePorts' = With(mConnectedDevicePorts, id,
                                                      IF static THEN waiting \union used ELSE {})
                     /\ routes' = {joined(r) : r \in routes}
                                  \union {[r EXCEPT !.sink = id] : r \in {q \in routes : q.sink = t}}
  BY DEF connectExternalDevice
<1>2. PortsStand /\ ProfilesAreOwned /\ ConfigsStand /\ PatchesStand /\ StreamsStand
  BY DEF ModuleInv
<1>3. /\ id \in FirstId..LastId /\ id \in FirstId..(nextPortId' - 1) /\ nextPortId' \in FirstId..(LastId + 1)
      /\ FirstId..(nextPortId - 1) \subseteq FirstId..(nextPortId' - 1)
      /\ id \notin DOMAIN ports /\ id \notin DOMAIN InitialPorts /\ id \notin Mixes
  BY <1>1, <1>2, ModuleIds DEF PortsStand
<1>4. t \notin Mixes /\ Routable(t) \subseteq Mixes /\ Mixes \subseteq DOMAIN ports
  <2>1. t \notin Mixes
    BY <1>1, <1>2, ModuleIds DEF PortsStand
  <2> QED BY <1>2, <2>1, RoutableAreMixes, ModuleIds DEF PortsStand
<1> HIDE DEF id, port, refused, static
<1>5. StreamsStand'
  BY <1>1, <1>2 DEF StreamsStand
<1>6. DOMAIN ports \subseteq DOMAIN ports' => ConfigsStand'
  BY <1>1, <1>2, <1>3 DEF ConfigsStand
<1>7. CASE refused
  <2>1. UNCHANGED <<ports, routes, mConnectedDevicePorts>>
    BY <1>1, <1>7
  <2>2. PortsStand' /\ ProfilesAreOwned' /\ ConfigsStand'
    BY <1>1, <1>2, <1>3, <1>6, <2>1 DEF PortsStand, ProfilesAreOwned
  <2>3. PatchesStand'
    BY <1>1, <1>2, <2>1, PatchesKept DEF PatchesStand
  <2> QED BY <1>5, <2>2, <2>3 DEF ModuleInv
<1>8. CASE ~refused
  <2>1. DOMAIN ports' = DOMAIN ports \union {id} /\ ports'[id] = port /\ \A p \in DOMAIN ports : ports'[p] = told[p]
    <3>1. DOMAIN told = DOMAIN ports /\ ports' = With(told, id, port)
      BY <1>1, <1>8
    <3> HIDE DEF told
    <3>2. DOMAIN With(told, id, port) = DOMAIN told \union {id} /\ With(told, id, port)[id] = port
          /\ \A p \in DOMAIN told \ {id} : With(told, id, port)[p] = told[p]
      BY DEF With
    <3> QED BY <1>3, <3>1, <3>2
  <2>2. ASSUME NEW p \in DOMAIN ports
        PROVE  /\ PortKept(ports'[p]) /\ ports'[p].tag = ports[p].tag
               /\ ports'[p].profiles = IF static /\ p \in waiting THEN TRUE ELSE ports[p].profiles
    <3>1. PortKept(ports[p])
      BY <1>2 DEF PortsStand
    <3>2. CASE static /\ p \in waiting
      <4>1. ports'[p] = [ports[p] EXCEPT !.profiles = TRUE]
        BY <2>1, <3>2
      <4> QED BY <3>1, <3>2, <4>1 DEF PortKept
    <3>3. CASE ~(static /\ p \in waiting)
      <4>1. ports'[p] = ports[p]
        BY <2>1, <3>3
      <4> QED BY <3>1, <3>3, <4>1
    <3> QED BY <3>2, <3>3
  <2> HIDE DEF told
  <2>3. PortKept(port) /\ port.tag = "connected"
    BY DEF PortKept, port
  <2>4. waiting \subseteq Mixes /\ used \subseteq Mixes
    BY <1>4
  <2>5. \A m \in used : \E d \in DOMAIN mConnectedDevicePorts : m \in mConnectedDevicePorts[d]
    OBVIOUS
  <2>6. \A m \in waiting : ~ports[m].profiles
    OBVIOUS
  <2> HIDE DEF used, waiting
  <2>7. /\ DOMAIN mConnectedDevicePorts' = DOMAIN mConnectedDevicePorts \union {id}
        /\ id \notin DOMAIN mConnectedDevicePorts
        /\ mConnectedDevicePorts'[id] = IF static THEN waiting \union used ELSE {}
        /\ \A d \in DOMAIN mConnectedDevicePorts : mConnectedDevicePorts'[d] = mConnectedDevicePorts[d]
    <3>1. id \notin DOMAIN mConnectedDevicePorts
      BY <1>2, <1>3 DEF PortsStand
    <3> DEFINE v == IF static THEN waiting \union used ELSE {}
               after == With(mConnectedDevicePorts, id, v)
    <3>2. mConnectedDevicePorts' = after
      BY <1>1, <1>8
    <3>3. DOMAIN after = DOMAIN mConnectedDevicePorts \union {id} /\ after[id] = v
          /\ \A d \in DOMAIN mConnectedDevicePorts \ {id} : after[d] = mConnectedDevicePorts[d]
      BY DEF With
    <3> HIDE DEF after
    <3> QED BY <3>1, <3>2, <3>3
  <2>8. ProfilesAreOwned'
    <3>1. ASSUME NEW m \in Mixes, ~InitialPorts[m].profiles
          PROVE  ports'[m].profiles <=> \E d \in DOMAIN mConnectedDevicePorts' : m \in mConnectedDevicePorts'[d]
      <4>1. ports[m].profiles <=> \E d \in DOMAIN mConnectedDevicePorts : m \in mConnectedDevicePorts[d]
        BY <1>2, <3>1 DEF ProfilesAreOwned
      <4>2. ports'[m].profiles = IF static /\ m \in waiting THEN TRUE ELSE ports[m].profiles
        BY <1>4, <2>2
      <4>3. (\E d \in DOMAIN mConnectedDevicePorts' : m \in mConnectedDevicePorts'[d])
            <=> \/ \E d \in DOMAIN mConnectedDevicePorts : m \in mConnectedDevicePorts[d]
                \/ static /\ m \in waiting \union used
        BY <2>7
      <4> QED BY <2>5, <4>1, <4>2, <4>3
    <3> QED BY <3>1 DEF ProfilesAreOwned
  <2>9. ASSUME NEW q \in routes'
        PROVE  /\ Joins(q)
               /\ q.sink = id \/ \E r \in routes : q.sink = r.sink /\ q.exclusive = r.exclusive
    <3>1. CASE \E r \in routes : q = joined(r)
      <4>1. PICK r \in routes : q = joined(r)
        BY <3>1
      <4>2. Joins(r)
        BY <1>2 DEF PortsStand
      <4>3. CASE t \in r.srcs
        <5>1. q = [r EXCEPT !.srcs = @ \union {id}]
          BY <4>1, <4>3
        <5>2. r.sink \in Mixes
          BY <1>4, <4>2, <4>3 DEF Joins
        <5> QED BY <1>3, <4>2, <5>1, <5>2 DEF Joins
      <4>4. CASE t \notin r.srcs
        BY <4>1, <4>2, <4>4
      <4> QED BY <4>3, <4>4
    <3>2. CASE \E r \in routes : r.sink = t /\ q = [r EXCEPT !.sink = id]
      BY <1>2, <1>3, <1>4, <3>2 DEF PortsStand, Joins
    <3> QED BY <1>1, <1>8, <3>1, <3>2
  <2>10. ASSUME NEW r \in routes PROVE \E q \in routes' : q.sink = r.sink /\ q.exclusive = r.exclusive
    <3>1. joined(r) \in routes'
      BY <1>1, <1>8
    <3>2. joined(r).sink = r.sink /\ joined(r).exclusive = r.exclusive
      <4>1. Joins(r)
        BY <1>2 DEF PortsStand
      <4> QED BY <4>1 DEF Joins
    <3> QED BY <3>1, <3>2
  <2> HIDE DEF joined
  <2>11. PortsStand'
    <3>1. DOMAIN InitialPorts \subseteq DOMAIN ports'
      BY <1>2, <2>1 DEF PortsStand
    <3>2. \A p \in DOMAIN ports' :
            /\ PortKept(ports'[p])
            /\ p \in DOMAIN InitialPorts => ports'[p].tag = InitialPorts[p].tag
            /\ p \notin DOMAIN InitialPorts => p \in FirstId..(nextPortId' - 1) /\ ports'[p].tag = "connected"
      BY <1>2, <1>3, <2>1, <2>2, <2>3 DEF PortsStand
    <3>3. \A d : d \in DOMAIN mConnectedDevicePorts' <=> d \in DOMAIN ports' /\ ports'[d].tag = "connected"
      BY <1>2, <2>1, <2>2, <2>3, <2>7 DEF PortsStand
    <3>4. \A d \in DOMAIN mConnectedDevicePorts' : mConnectedDevicePorts'[d] \subseteq Mixes
      BY <1>2, <2>4, <2>7 DEF PortsStand
    <3> QED BY <1>1, <1>2, <1>3, <2>9, <3>1, <3>2, <3>3, <3>4 DEF PortsStand
  <2>12. PatchesStand'
    <3>1. ASSUME NEW k, OnlyExclusive(routes', k), k # id PROVE OnlyExclusive(routes, k)
      BY <2>9, <2>10, <3>1 DEF OnlyExclusive, Sinks
    <3>2. \A j \in DOMAIN patches : id \notin Under(portConfigs, patches[j].snk)
      BY <1>2, <1>3 DEF PatchesStand, ConfigsStand, Under
    <3>3. \A j \in DOMAIN patches : \A c \in patches[j].src \union patches[j].snk :
            c \in DOMAIN portConfigs' /\ portConfigs'[c].port = portConfigs[c].port
      BY <1>1, <1>2 DEF PatchesStand
    <3> QED BY <1>1, <1>2, <3>1, <3>2, <3>3, PatchesKept
  <2> QED BY <1>5, <1>6, <2>1, <2>8, <2>11, <2>12 DEF ModuleInv
<1> QED BY <1>7, <1>8

LEMMA DeviceDisconnected ==
  ASSUME ModuleInv, NEW d \in DOMAIN mConnectedDevicePorts, disconnectExternalDevice(d)
  PROVE  ModuleInv'
<1> DEFINE clear == mConnectedDevicePorts[d] \ OtherUsers(d)
<1>1. /\ ~HasClientConfig(d)
      /\ ports' = [p \in DOMAIN ports \ {d} |-> IF p \in clear THEN [ports[p] EXCEPT !.profiles = FALSE]
                                                ELSE ports[p]]
      /\ routes' = {[r EXCEPT !.srcs = @ \ {d}] : r \in {q \in routes : q.sink # d}}
      /\ mConnectedDevicePorts' = Without(mConnectedDevicePorts, {d})
      /\ UNCHANGED <<portConfigs, patches, mPatches, mStreams, nextPortId, nextPatchId, simulateDeviceConnections>>
  BY DEF disconnectExternalDevice
<1>2. PortsStand /\ ProfilesAreOwned /\ ConfigsStand /\ PatchesStand /\ StreamsStand
  BY DEF ModuleInv
<1>3. d \in DOMAIN ports /\ ports[d].tag = "connected" /\ d \notin DOMAIN InitialPorts
  BY <1>2, ModuleIds DEF PortsStand
<1>4. ASSUME NEW p \in DOMAIN ports'
      PROVE  /\ p \in DOMAIN ports /\ p # d /\ PortKept(ports'[p]) /\ ports'[p].tag = ports[p].tag
             /\ ports'[p].profiles = IF p \in clear THEN FALSE ELSE ports[p].profiles
  <2>1. p \in DOMAIN ports \ {d} /\ PortKept(ports[p])
    BY <1>1, <1>2 DEF PortsStand
  <2>2. CASE p \in clear
    <3>1. ports'[p] = [ports[p] EXCEPT !.profiles = FALSE]
      BY <1>1, <2>1, <2>2
    <3> QED BY <2>1, <2>2, <3>1 DEF PortKept
  <2>3. CASE p \notin clear
    <3>1. ports'[p] = ports[p]
      BY <1>1, <2>1, <2>3
    <3> QED BY <2>1, <2>3, <3>1
  <2> QED BY <2>2, <2>3
<1>5. DOMAIN ports' = DOMAIN ports \ {d}
  BY <1>1
<1>6. /\ DOMAIN mConnectedDevicePorts' = DOMAIN mConnectedDevicePorts \ {d}
      /\ \A e \in DOMAIN mConnectedDevicePorts \ {d} : mConnectedDevicePorts'[e] = mConnectedDevicePorts[e]
  BY <1>1 DEF Without, Restrict
<1>7. ProfilesAreOwned'
  <2>1. ASSUME NEW m \in Mixes, ~InitialPorts[m].profiles
        PROVE  ports'[m].profiles <=> \E e \in DOMAIN mConnectedDevicePorts' : m \in mConnectedDevicePorts'[e]
    <3>1. ports[m].profiles <=> \E e \in DOMAIN mConnectedDevicePorts : m \in mConnectedDevicePorts[e]
      BY <1>2, <2>1 DEF ProfilesAreOwned
    <3>2. ports'[m].profiles = IF m \in clear THEN FALSE ELSE ports[m].profiles
      BY <1>2, <1>3, <1>4, <1>5, ModuleIds DEF PortsStand
    <3>3. m \in OtherUsers(d) <=> \E e \in DOMAIN mConnectedDevicePorts' : m \in mConnectedDevicePorts'[e]
      BY <1>6 DEF OtherUsers
    <3>4. (\E e \in DOMAIN mConnectedDevicePorts : m \in mConnectedDevicePorts[e])
          <=> m \in mConnectedDevicePorts[d] \/ m \in OtherUsers(d)
      BY DEF OtherUsers
    <3> QED BY <3>1, <3>2, <3>3, <3>4
  <2> QED BY <2>1 DEF ProfilesAreOwned
<1> HIDE DEF clear
<1>8. ASSUME NEW q \in routes' PROVE /\ Joins(q)
                                    /\ \E r \in routes : r.sink # d /\ q.sink = r.sink /\ q.exclusive = r.exclusive
  <2>1. PICK r \in routes : r.sink # d /\ q = [r EXCEPT !.srcs = @ \ {d}]
    BY <1>1
  <2>2. Joins(r)
    BY <1>2 DEF PortsStand
  <2>3. Joins(q) /\ q.sink = r.sink /\ q.exclusive = r.exclusive
    BY <2>1, <2>2 DEF Joins
  <2> QED BY <2>1, <2>3
<1>9. ASSUME NEW r \in routes, r.sink # d PROVE \E q \in routes' : q.sink = r.sink /\ q.exclusive = r.exclusive
  <2>1. [r EXCEPT !.srcs = @ \ {d}] \in routes'
    BY <1>1, <1>9
  <2>2. Joins(r)
    BY <1>2 DEF PortsStand
  <2>3. [r EXCEPT !.srcs = @ \ {d}].sink = r.sink /\ [r EXCEPT !.srcs = @ \ {d}].exclusive = r.exclusive
    BY <2>2 DEF Joins
  <2> QED BY <2>1, <2>3
<1>10. PortsStand'
  <2>1. DOMAIN InitialPorts \subseteq DOMAIN ports'
    BY <1>2, <1>3, <1>5 DEF PortsStand
  <2>2. \A p \in DOMAIN ports' :
          /\ PortKept(ports'[p])
          /\ p \in DOMAIN InitialPorts => ports'[p].tag = InitialPorts[p].tag
          /\ p \notin DOMAIN InitialPorts => p \in FirstId..(nextPortId - 1) /\ ports'[p].tag = "connected"
    BY <1>2, <1>4, Zenon DEF PortsStand
  <2>3. \A e : e \in DOMAIN mConnectedDevicePorts' <=> e \in DOMAIN ports' /\ ports'[e].tag = "connected"
    BY <1>2, <1>4, <1>5, <1>6, Zenon DEF PortsStand
  <2>4. \A e \in DOMAIN mConnectedDevicePorts' : mConnectedDevicePorts'[e] \subseteq Mixes
    BY <1>2, <1>6, Zenon DEF PortsStand
  <2> QED BY <1>1, <1>2, <1>8, <2>1, <2>2, <2>3, <2>4, Zenon DEF PortsStand
<1>11. ConfigsStand'
  <2>1. ASSUME NEW c \in DOMAIN portConfigs PROVE portConfigs[c].port # d
    <3>1. CASE c \in DOMAIN InitialConfigs
      BY <1>2, <1>3, <3>1, ModuleIds DEF ConfigsStand, InitialConfigs
    <3>2. CASE c \notin DOMAIN InitialConfigs
      BY <1>1, <3>2 DEF HasClientConfig, ClientConfig
    <3> QED BY <3>1, <3>2
  <2> QED BY <1>1, <1>2, <1>5, <2>1 DEF ConfigsStand
<1>12. PatchesStand'
  <2>1. ASSUME NEW k, OnlyExclusive(routes', k) PROVE OnlyExclusive(routes, k)
    <3>1. k # d
      BY <1>8, <2>1 DEF OnlyExclusive, Sinks
    <3> QED BY <1>8, <1>9, <2>1, <3>1 DEF OnlyExclusive, Sinks
  <2> QED BY <1>1, <1>2, <2>1, PatchesKept DEF PatchesStand
<1>13. StreamsStand'
  BY <1>1, <1>2 DEF StreamsStand
<1> QED BY <1>7, <1>10, <1>11, <1>12, <1>13 DEF ModuleInv

----------------------------------------------------------------------------------
(* Port configs *)
LEMMA GainKept ==
  ASSUME StreamsStand, NEW p, NEW gain, ApplyGain(p, gain), DOMAIN portConfigs \subseteq DOMAIN portConfigs'
  PROVE  StreamsStand'
<1>1. CASE UNCHANGED mStreams
  BY <1>1 DEF StreamsStand
<1>2. ASSUME NEW S \in SUBSET DOMAIN mStreams, mStreams' = WithGain(S, gain) PROVE StreamsStand'
  <2>1. DOMAIN mStreams' = DOMAIN mStreams
    BY <1>2 DEF WithGain
  <2>2. ASSUME NEW c \in DOMAIN mStreams
        PROVE  /\ mStreams'[c] = [f \in {"port", "open", "devices", "gain"} |-> mStreams'[c][f]]
               /\ mStreams'[c].port = mStreams[c].port /\ mStreams'[c].open = mStreams[c].open
    <3>1. mStreams'[c] = IF c \in S THEN [mStreams[c] EXCEPT !.gain = gain] ELSE mStreams[c]
      BY <1>2 DEF WithGain
    <3>2. mStreams[c] = [f \in {"port", "open", "devices", "gain"} |-> mStreams[c][f]]
      BY DEF StreamsStand
    <3>3. CASE c \in S
      BY <3>1, <3>2, <3>3
    <3>4. CASE c \notin S
      BY <3>1, <3>2, <3>4
    <3> QED BY <3>3, <3>4
  <2> QED BY <2>1, <2>2, StreamsKept
<1> QED BY <1>1, <1>2 DEF ApplyGain

LEMMA ConfigAdded ==
  ASSUME ModuleInv, NEW p \in DOMAIN ports, NEW gain, NEW complete \in BOOLEAN,
         setAudioPortConfigNew(p, gain, complete)
  PROVE  ModuleInv'
<1> DEFINE id == nextPortId
           config == [port |-> p, value |-> "client"]
<1>1. /\ id <= LastId /\ ApplyGain(p, gain)
      /\ complete => portConfigs' = With(portConfigs, id, config) /\ nextPortId' = id + 1
      /\ ~complete => UNCHANGED <<portConfigs, nextPortId>>
      /\ UNCHANGED <<ports, routes, mConnectedDevicePorts, simulateDeviceConnections, patches, mPatches, nextPatchId>>
  BY DEF setAudioPortConfigNew, registry
<1>2. PortsStand /\ ProfilesAreOwned /\ ConfigsStand /\ PatchesStand /\ StreamsStand
  BY DEF ModuleInv
<1>3. /\ id \in FirstId..LastId /\ nextPortId' \in FirstId..(LastId + 1)
      /\ FirstId..(nextPortId - 1) \subseteq FirstId..(nextPortId' - 1)
      /\ complete => id \in FirstId..(nextPortId' - 1)
      /\ id \notin DOMAIN portConfigs /\ id \notin Attached
  BY <1>1, <1>2, ModuleIds DEF PortsStand, ConfigsStand
<1>4. \A c \in DOMAIN portConfigs : c \in DOMAIN portConfigs' /\ portConfigs'[c] = portConfigs[c]
  BY <1>1, <1>3 DEF With
<1>5. \A c \in DOMAIN portConfigs' \ DOMAIN portConfigs : complete /\ c = id /\ portConfigs'[c] = config
  BY <1>1, <1>3 DEF With
<1>6. PortsStand' /\ ProfilesAreOwned'
  BY <1>1, <1>2, <1>3 DEF PortsStand, ProfilesAreOwned
<1>7. ConfigsStand'
  <2>1. \A c \in DOMAIN portConfigs' :
          /\ portConfigs'[c] = [f \in {"port", "value"} |-> portConfigs'[c][f]]
          /\ portConfigs'[c].port \in DOMAIN ports
          /\ c \in Attached \/ c \in FirstId..(nextPortId' - 1)
    <3>1. ASSUME NEW c \in DOMAIN portConfigs'
          PROVE  /\ portConfigs'[c] = [f \in {"port", "value"} |-> portConfigs'[c][f]]
                 /\ portConfigs'[c].port \in DOMAIN ports
                 /\ c \in Attached \/ c \in FirstId..(nextPortId' - 1)
      <4>1. CASE c \in DOMAIN portConfigs
        BY <1>2, <1>3, <1>4, <4>1 DEF ConfigsStand
      <4>2. CASE c \notin DOMAIN portConfigs
        <5>1. portConfigs'[c] = config /\ c = id /\ complete
          BY <1>5, <4>2
        <5>2. config = [f \in {"port", "value"} |-> config[f]] /\ config.port = p
          OBVIOUS
        <5> HIDE DEF config
        <5> QED BY <1>3, <5>1, <5>2
      <4> QED BY <4>1, <4>2
    <3> QED BY <3>1
  <2> QED BY <1>1, <1>2, <1>4, <2>1 DEF ConfigsStand
<1>8. PatchesStand'
  BY <1>1, <1>2, <1>4, PatchesKept DEF PatchesStand
<1>9. StreamsStand'
  BY <1>1, <1>2, <1>4, GainKept
<1> QED BY <1>6, <1>7, <1>8, <1>9 DEF ModuleInv

LEMMA ConfigChanged ==
  ASSUME ModuleInv, NEW c \in DOMAIN portConfigs, NEW gain, NEW valid \in BOOLEAN,
         setAudioPortConfigExisting(c, gain, valid)
  PROVE  ModuleInv'
<1>1. /\ ApplyGain(portConfigs[c].port, gain)
      /\ portConfigs' = IF valid THEN [portConfigs EXCEPT ![c].value = "client"] ELSE portConfigs
      /\ UNCHANGED <<ports, routes, mConnectedDevicePorts, simulateDeviceConnections, patches, mPatches,
                     nextPortId, nextPatchId>>
  BY DEF setAudioPortConfigExisting, registry
<1>2. PortsStand /\ ProfilesAreOwned /\ ConfigsStand /\ PatchesStand /\ StreamsStand
  BY DEF ModuleInv
<1>3. DOMAIN portConfigs' = DOMAIN portConfigs
      /\ \A e \in DOMAIN portConfigs : /\ portConfigs'[e] = [f \in {"port", "value"} |-> portConfigs'[e][f]]
                                       /\ portConfigs'[e].port = portConfigs[e].port
  <2>1. \A e \in DOMAIN portConfigs : portConfigs[e] = [f \in {"port", "value"} |-> portConfigs[e][f]]
    BY <1>2 DEF ConfigsStand
  <2>2. CASE valid
    BY <1>1, <2>1, <2>2
  <2>3. CASE ~valid
    BY <1>1, <2>1, <2>3
  <2> QED BY <2>2, <2>3
<1>4. PortsStand' /\ ProfilesAreOwned'
  BY <1>1, <1>2 DEF PortsStand, ProfilesAreOwned
<1>5. ConfigsStand'
  BY <1>1, <1>2, <1>3 DEF ConfigsStand
<1>6. PatchesStand'
  BY <1>1, <1>2, <1>3, PatchesKept DEF PatchesStand
<1>7. StreamsStand'
  BY <1>1, <1>2, <1>3, GainKept
<1> QED BY <1>4, <1>5, <1>6, <1>7 DEF ModuleInv

LEMMA CountingKept ==
  ASSUME StreamsStand, DOMAIN portConfigs \subseteq DOMAIN portConfigs', mStreams' = CountedStreams
  PROVE  StreamsStand'
<1>1. DOMAIN mStreams' \subseteq DOMAIN mStreams /\ \A c \in DOMAIN mStreams' : mStreams'[c] = mStreams[c]
  BY DEF CountedStreams, Restrict
<1> QED BY <1>1, StreamsKept DEF StreamsStand

\* A config that goes is in no patch, since the index has it not, and no open stream's.
LEMMA ConfigReset ==
  ASSUME ModuleInv, NEW c \in DOMAIN portConfigs, resetAudioPortConfig(c) PROVE ModuleInv'
<1>1. /\ mStreams' = CountedStreams
      /\ IF Open(c) \/ InUse(c) THEN UNCHANGED portConfigs
         ELSE portConfigs' = IF c \in DOMAIN InitialConfigs
                             THEN [portConfigs EXCEPT ![c] = InitialConfigs[c]]
                             ELSE Without(portConfigs, {c})
      /\ UNCHANGED <<ports, routes, mConnectedDevicePorts, simulateDeviceConnections, patches, mPatches,
                     nextPortId, nextPatchId>>
  BY DEF resetAudioPortConfig, registry
<1>2. PortsStand /\ ProfilesAreOwned /\ ConfigsStand /\ PatchesStand /\ StreamsStand
  BY DEF ModuleInv
<1>3. PortsStand' /\ ProfilesAreOwned'
  BY <1>1, <1>2 DEF PortsStand, ProfilesAreOwned
<1>4. CASE UNCHANGED portConfigs
  <2>1. ConfigsStand'
    BY <1>1, <1>2, <1>4 DEF ConfigsStand
  <2>2. PatchesStand'
    BY <1>1, <1>2, <1>4, PatchesKept DEF PatchesStand
  <2>3. StreamsStand'
    BY <1>1, <1>2, <1>4, CountingKept
  <2> QED BY <1>3, <2>1, <2>2, <2>3 DEF ModuleInv
<1>5. CASE ~Open(c) /\ ~InUse(c) /\ c \in DOMAIN InitialConfigs
  <2>1. portConfigs' = [portConfigs EXCEPT ![c] = InitialConfigs[c]]
    BY <1>1, <1>5
  <2>2. c \in Attached /\ InitialConfigs[c] = [port |-> c, value |-> "initial"]
    BY <1>5 DEF InitialConfigs
  <2>3. /\ DOMAIN portConfigs' = DOMAIN portConfigs
        /\ \A e \in DOMAIN portConfigs : /\ portConfigs'[e] = [f \in {"port", "value"} |-> portConfigs'[e][f]]
                                         /\ portConfigs'[e].port = portConfigs[e].port
    BY <1>2, <2>1, <2>2 DEF ConfigsStand
  <2>4. ConfigsStand'
    BY <1>1, <1>2, <2>3 DEF ConfigsStand
  <2>5. PatchesStand'
    BY <1>1, <1>2, <2>3, PatchesKept DEF PatchesStand
  <2>6. StreamsStand'
    BY <1>1, <1>2, <2>3, CountingKept
  <2> QED BY <1>3, <2>4, <2>5, <2>6 DEF ModuleInv
<1>6. CASE ~Open(c) /\ ~InUse(c) /\ c \notin DOMAIN InitialConfigs
  <2>1. /\ DOMAIN portConfigs' = DOMAIN portConfigs \ {c}
        /\ \A e \in DOMAIN portConfigs \ {c} : portConfigs'[e] = portConfigs[e]
    BY <1>1, <1>6 DEF Without, Restrict
  <2>2. c \notin Attached
    BY <1>6 DEF InitialConfigs
  <2>3. ConfigsStand'
    BY <1>1, <1>2, <2>1, <2>2 DEF ConfigsStand
  <2>4. ASSUME NEW id \in DOMAIN patches PROVE c \notin patches[id].src \union patches[id].snk
    <3>1. \A e \in Indexed(portConfigs, id, patches[id]) : e \in mPatches
      BY <1>2 DEF PatchesStand, IndexStands
    <3>2. <<c, id>> \notin mPatches
      BY <1>6 DEF InUse
    <3> QED BY <3>1, <3>2 DEF Indexed
  <2>5. PatchesStand'
    <3>1. \A id \in DOMAIN patches : \A e \in patches[id].src \union patches[id].snk :
            e \in DOMAIN portConfigs' /\ portConfigs'[e].port = portConfigs[e].port
      BY <1>2, <2>1, <2>4 DEF PatchesStand
    <3> QED BY <1>1, <1>2, <3>1, PatchesKept
  <2>6. StreamsStand'
    BY <1>1, <1>2, <1>6, <2>1 DEF StreamsStand, CountedStreams, Restrict, Open
  <2> QED BY <1>3, <2>3, <2>5, <2>6 DEF ModuleInv
<1> QED BY <1>1, <1>4, <1>5, <1>6

----------------------------------------------------------------------------------
(* Patches *)
LEMMA StreamsRouted ==
  ASSUME StreamsStand, UNCHANGED portConfigs, NEW old, NEW new, updateStreamsConnectedState(old, new, TRUE)
  PROVE  StreamsStand'
<1>1. PICK S, is, T, others : mStreams' = Routed(S, is, T, others)
  BY DEF updateStreamsConnectedState
<1>2. DOMAIN mStreams' \subseteq DOMAIN mStreams
  BY <1>1 DEF Routed, CountedStreams, Restrict
<1>3. ASSUME NEW c \in DOMAIN mStreams'
      PROVE  /\ mStreams'[c] = [f \in {"port", "open", "devices", "gain"} |-> mStreams'[c][f]]
             /\ mStreams'[c].port = mStreams[c].port /\ (mStreams'[c].open => mStreams[c].open)
  <2>1. mStreams[c] = [f \in {"port", "open", "devices", "gain"} |-> mStreams[c][f]]
    BY <1>2 DEF StreamsStand
  <2>2. mStreams'[c] = mStreams[c] \/ \E v : mStreams'[c] = [mStreams[c] EXCEPT !.devices = v]
    <3>1. mStreams'[c] = IF c \in S THEN [mStreams[c] EXCEPT !.devices = Devices(is, c)]
                         ELSE IF c \in T THEN [mStreams[c] EXCEPT !.devices = Devices(others, c)] ELSE mStreams[c]
      BY <1>1, <1>3 DEF Routed
    <3> QED BY <3>1
  <2>3. ASSUME NEW v, mStreams'[c] = [mStreams[c] EXCEPT !.devices = v]
        PROVE  /\ mStreams'[c] = [f \in {"port", "open", "devices", "gain"} |-> mStreams'[c][f]]
               /\ mStreams'[c].port = mStreams[c].port /\ (mStreams'[c].open => mStreams[c].open)
    BY <2>1, <2>3
  <2> QED BY <2>1, <2>2, <2>3
<1> QED BY <1>2, <1>3, StreamsKept

LEMMA EntriesOfId ==
  \A j, p : Entries(j, p) = Indexed(portConfigs, j, p) /\ \A e \in Indexed(portConfigs, j, p) : e[2] = j
BY DEF Entries, Indexed, PortsOf, Under

\* The index after a patch was put under its id, or erased.
LEMMA PatchIndexed ==
  ASSUME PatchesStand, UNCHANGED portConfigs, NEW id, NEW patch,
         \A j \in DOMAIN patches' : j # id => j \in DOMAIN patches /\ patches'[j] = patches[j],
         \A j \in DOMAIN patches : j # id => j \in DOMAIN patches',
         IF id \in DOMAIN patches' THEN patches'[id] = patch /\ mPatches' = cleanUpPatch(id) \union Entries(id, patch)
         ELSE mPatches' = cleanUpPatch(id)
  PROVE  IndexStands'
<1>1. \A j, p : Entries(j, p) = Indexed(portConfigs, j, p) /\ \A e \in Indexed(portConfigs, j, p) : e[2] = j
  BY EntriesOfId
<1>2. \A e : e \in cleanUpPatch(id) <=> \E j \in DOMAIN patches \ {id} : e \in Indexed(portConfigs, j, patches[j])
  BY <1>1 DEF PatchesStand, IndexStands, cleanUpPatch
<1>3. \A e : e \in cleanUpPatch(id) <=> \E j \in DOMAIN patches' \ {id} : e \in Indexed(portConfigs, j, patches'[j])
  BY <1>2
<1>4. CASE id \in DOMAIN patches'
  <2>1. \A e : e \in mPatches' <=> e \in cleanUpPatch(id) \/ e \in Indexed(portConfigs, id, patches'[id])
    BY <1>1, <1>4
  <2> QED BY <1>3, <1>4, <2>1 DEF IndexStands
<1>5. CASE id \notin DOMAIN patches'
  BY <1>3, <1>5 DEF IndexStands
<1> QED BY <1>4, <1>5

\* An allowed patch goes to no sink of exclusive routes that another patch has.
LEMMA SinkAllowed ==
  ASSUME PatchesStand, UNCHANGED <<portConfigs, routes>>, NEW id, NEW src, NEW snk, PatchAllowed(id, src, snk),
         NEW new \in DOMAIN patches', patches'[new].snk = snk,
         \A j \in DOMAIN patches' : j # new => j # id /\ j \in DOMAIN patches /\ patches'[j] = patches[j]
  PROVE  SinksStand'
<1>1. ASSUME NEW k, OnlyExclusive(routes, k), k \in Under(portConfigs, snk),
             NEW j \in DOMAIN patches', j # new, k \in Under(portConfigs, patches'[j].snk)
      PROVE  FALSE
  <2>1. k \in Reached(src)
    BY <1>1 DEF PatchAllowed, PortsOf, Under
  <2>2. Exclusive(k, src)
    BY <1>1 DEF Exclusive, OnlyExclusive
  <2>3. j # id /\ j \in DOMAIN patches /\ patches'[j] = patches[j]
    BY <1>1
  <2>4. <<k, j>> \in Indexed(portConfigs, j, patches[j])
    BY <1>1, <2>3 DEF Indexed, Under
  <2>5. <<k, j>> \in mPatches
    BY <2>3, <2>4 DEF PatchesStand, IndexStands
  <2>6. <<k, j>> \in cleanUpPatch(id)
    BY <2>3, <2>5 DEF cleanUpPatch
  <2> QED BY <2>1, <2>2, <2>6 DEF PatchAllowed
<1>2. ASSUME NEW k, OnlyExclusive(routes, k), NEW i \in DOMAIN patches', NEW j \in DOMAIN patches',
             k \in Under(portConfigs, patches'[i].snk), k \in Under(portConfigs, patches'[j].snk)
      PROVE  i = j
  <2>1. CASE i # new /\ j # new
    BY <1>2, <2>1 DEF PatchesStand, SinksStand
  <2>2. CASE i = new \/ j = new
    BY <1>1, <1>2, <2>2
  <2> QED BY <2>1, <2>2
<1> QED BY <1>2 DEF SinksStand

\* Every patch is under an id that was given, and of configs that there are.
PatchIdsStand == \A id \in DOMAIN patches :
  id \in 1..(nextPatchId - 1) /\ patches[id].src \union patches[id].snk \subseteq DOMAIN portConfigs

LEMMA PatchAdded ==
  ASSUME ModuleInv, NEW src \in SUBSET DOMAIN portConfigs, NEW snk \in SUBSET DOMAIN portConfigs,
         setAudioPatchNew(src, snk, TRUE)
  PROVE  ModuleInv'
<1> DEFINE id == nextPatchId
           patch == [src |-> src, snk |-> snk]
<1>1. /\ id <= LastPatch /\ PatchAllowed(0, src, snk) /\ nextPatchId' = id + 1
      /\ updateStreamsConnectedState(NoPatch, patch, TRUE)
      /\ patches' = With(patches, id, patch) /\ mPatches' = mPatches \union Entries(id, patch)
      /\ UNCHANGED <<ports, routes, mConnectedDevicePorts, simulateDeviceConnections, portConfigs, nextPortId>>
  BY DEF setAudioPatchNew, registry
<1>2. PortsStand /\ ProfilesAreOwned /\ ConfigsStand /\ PatchesStand /\ StreamsStand
  BY DEF ModuleInv
<1>3. /\ id \in 1..(nextPatchId' - 1) /\ nextPatchId' \in 1..(LastPatch + 1) /\ id \notin DOMAIN patches
      /\ 0 \notin DOMAIN patches /\ 1..(nextPatchId - 1) \subseteq 1..(nextPatchId' - 1)
  BY <1>1, <1>2, ModuleIds DEF PatchesStand
<1>4. patch.src = src /\ patch.snk = snk
  OBVIOUS
<1> HIDE DEF id, patch
<1>5. /\ DOMAIN patches' = DOMAIN patches \union {id} /\ patches'[id] = patch
      /\ \A j \in DOMAIN patches : patches'[j] = patches[j]
  BY <1>1, <1>3 DEF With
<1>6. PortsStand' /\ ProfilesAreOwned' /\ ConfigsStand'
  BY <1>1, <1>2 DEF PortsStand, ProfilesAreOwned, ConfigsStand
<1>7. StreamsStand'
  BY <1>1, <1>2, StreamsRouted
<1>8. IndexStands'
  <2>1. cleanUpPatch(id) = mPatches
    <3>1. \A e \in mPatches : e[2] # id
      BY <1>2, <1>3, EntriesOfId DEF PatchesStand, IndexStands
    <3> QED BY <3>1 DEF cleanUpPatch
  <2> QED BY <1>1, <1>2, <1>5, <2>1, PatchIndexed
<1>9. SinksStand'
  BY <1>1, <1>2, <1>3, <1>4, <1>5, SinkAllowed
<1>10. PatchIdsStand'
  BY <1>1, <1>2, <1>3, <1>4, <1>5 DEF PatchesStand, PatchIdsStand
<1> QED BY <1>3, <1>6, <1>7, <1>8, <1>9, <1>10 DEF ModuleInv, PatchesStand, PatchIdsStand

LEMMA PatchChanged ==
  ASSUME ModuleInv, NEW id \in DOMAIN patches,
         NEW src \in SUBSET DOMAIN portConfigs, NEW snk \in SUBSET DOMAIN portConfigs,
         setAudioPatchExisting(id, src, snk, TRUE)
  PROVE  ModuleInv'
<1> DEFINE patch == [src |-> src, snk |-> snk]
<1>1. /\ PatchAllowed(id, src, snk) /\ updateStreamsConnectedState(patches[id], patch, TRUE)
      /\ patches' = With(patches, id, patch) /\ mPatches' = cleanUpPatch(id) \union Entries(id, patch)
      /\ UNCHANGED <<ports, routes, mConnectedDevicePorts, simulateDeviceConnections, portConfigs, nextPortId,
                     nextPatchId>>
  BY DEF setAudioPatchExisting, registry
<1>2. PortsStand /\ ProfilesAreOwned /\ ConfigsStand /\ PatchesStand /\ StreamsStand
  BY DEF ModuleInv
<1>3. patch.src = src /\ patch.snk = snk
  OBVIOUS
<1> HIDE DEF patch
<1>4. /\ DOMAIN patches' = DOMAIN patches /\ patches'[id] = patch
      /\ \A j \in DOMAIN patches \ {id} : patches'[j] = patches[j]
  BY <1>1 DEF With
<1>5. PortsStand' /\ ProfilesAreOwned' /\ ConfigsStand'
  BY <1>1, <1>2 DEF PortsStand, ProfilesAreOwned, ConfigsStand
<1>6. StreamsStand'
  BY <1>1, <1>2, StreamsRouted
<1>7. IndexStands'
  BY <1>1, <1>2, <1>4, PatchIndexed
<1>8. SinksStand'
  BY <1>1, <1>2, <1>3, <1>4, SinkAllowed
<1>9. PatchIdsStand'
  BY <1>1, <1>2, <1>3, <1>4 DEF PatchesStand, PatchIdsStand
<1> QED BY <1>1, <1>2, <1>5, <1>6, <1>7, <1>8, <1>9 DEF ModuleInv, PatchesStand, PatchIdsStand

LEMMA PatchErased ==
  ASSUME ModuleInv, NEW id \in DOMAIN patches, resetAudioPatch(id, TRUE) PROVE ModuleInv'
<1>1. /\ updateStreamsConnectedState(patches[id], NoPatch, TRUE)
      /\ patches' = Without(patches, {id}) /\ mPatches' = cleanUpPatch(id)
      /\ UNCHANGED <<ports, routes, mConnectedDevicePorts, simulateDeviceConnections, portConfigs, nextPortId,
                     nextPatchId>>
  BY DEF resetAudioPatch, registry
<1>2. PortsStand /\ ProfilesAreOwned /\ ConfigsStand /\ PatchesStand /\ StreamsStand
  BY DEF ModuleInv
<1>3. DOMAIN patches' = DOMAIN patches \ {id} /\ \A j \in DOMAIN patches \ {id} : patches'[j] = patches[j]
  BY <1>1 DEF Without, Restrict
<1>4. PortsStand' /\ ProfilesAreOwned' /\ ConfigsStand'
  BY <1>1, <1>2 DEF PortsStand, ProfilesAreOwned, ConfigsStand
<1>5. StreamsStand'
  BY <1>1, <1>2, StreamsRouted
<1>6. IndexStands'
  BY <1>1, <1>2, <1>3, PatchIndexed
<1>7. SinksStand'
  BY <1>1, <1>2, <1>3 DEF PatchesStand, SinksStand
<1>8. PatchIdsStand'
  BY <1>1, <1>2, <1>3 DEF PatchesStand, PatchIdsStand
<1> QED BY <1>1, <1>2, <1>4, <1>5, <1>6, <1>7, <1>8 DEF ModuleInv, PatchesStand, PatchIdsStand

----------------------------------------------------------------------------------
(* Streams, and the module *)
LEMMA StreamOpened ==
  ASSUME ModuleInv, NEW c \in DOMAIN portConfigs, NEW ok \in BOOLEAN, openStream(c, ok) PROVE ModuleInv'
<1> DEFINE stream == [port |-> portConfigs[c].port, open |-> TRUE, devices |-> findConnectedDevices(c),
                      gain |-> "unity"]
<1>1. /\ mStreams' = IF Openable(c) /\ ok THEN With(CountedStreams, c, stream) ELSE CountedStreams
      /\ UNCHANGED <<ports, routes, mConnectedDevicePorts, simulateDeviceConnections, portConfigs, patches,
                     mPatches, nextPortId, nextPatchId>>
  BY DEF openStream, registry
<1>2. PortsStand /\ ProfilesAreOwned /\ ConfigsStand /\ PatchesStand /\ StreamsStand
  BY DEF ModuleInv
<1>3. PortsStand' /\ ProfilesAreOwned' /\ ConfigsStand'
  BY <1>1, <1>2 DEF PortsStand, ProfilesAreOwned, ConfigsStand
<1>4. PatchesStand'
  BY <1>1, <1>2, PatchesKept DEF PatchesStand
<1>5. CASE ~(Openable(c) /\ ok)
  BY <1>1, <1>2, <1>3, <1>4, <1>5, CountingKept DEF ModuleInv
<1>6. CASE Openable(c) /\ ok
  <2>1. stream = [f \in {"port", "open", "devices", "gain"} |-> stream[f]] /\ stream.port \in Mixes
    BY <1>6 DEF Openable
  <2>2. mStreams' = With(CountedStreams, c, stream)
    BY <1>1, <1>6
  <2> HIDE DEF stream
  <2>3. \A d \in DOMAIN mStreams' : IF d = c THEN mStreams'[d] = stream
                                    ELSE d \in DOMAIN mStreams /\ mStreams'[d] = mStreams[d]
    BY <2>2 DEF With, CountedStreams, Restrict
  <2>4. StreamsStand'
    BY <1>1, <1>2, <2>1, <2>3 DEF StreamsStand
  <2> QED BY <1>3, <1>4, <2>4 DEF ModuleInv
<1> QED BY <1>5, <1>6

LEMMA StreamClosed ==
  ASSUME ModuleInv, NEW c \in DOMAIN mStreams, closeStream(c) PROVE ModuleInv'
<1>1. /\ mStreams' = [mStreams EXCEPT ![c].open = FALSE]
      /\ UNCHANGED <<ports, routes, mConnectedDevicePorts, simulateDeviceConnections, portConfigs, patches,
                     mPatches, nextPortId, nextPatchId>>
  BY DEF closeStream, registry
<1>2. PortsStand /\ ProfilesAreOwned /\ ConfigsStand /\ PatchesStand /\ StreamsStand
  BY DEF ModuleInv
<1>3. PortsStand' /\ ProfilesAreOwned' /\ ConfigsStand'
  BY <1>1, <1>2 DEF PortsStand, ProfilesAreOwned, ConfigsStand
<1>4. PatchesStand'
  BY <1>1, <1>2, PatchesKept DEF PatchesStand
<1>5. StreamsStand'
  BY ZenonT(60), <1>1, <1>2 DEF StreamsStand
<1> QED BY <1>3, <1>4, <1>5 DEF ModuleInv

LEMMA ModuleGoesOn == ~StreamsMayFail /\ ModuleInv /\ [ModuleNext]_moduleVars => ModuleInv'
<1> SUFFICES ASSUME ~StreamsMayFail, ModuleInv, [ModuleNext]_moduleVars PROVE ModuleInv'
  OBVIOUS
<1>1. CASE UNCHANGED moduleVars \/ \E simulate \in BOOLEAN : setModuleDebug(simulate)
  <2>1. /\ UNCHANGED <<ports, routes, mConnectedDevicePorts, portConfigs, patches, mPatches, mStreams,
                       nextPortId, nextPatchId>>
        /\ simulateDeviceConnections \in BOOLEAN => simulateDeviceConnections' \in BOOLEAN
    BY <1>1 DEF moduleVars, setModuleDebug
  <2>2. PortsStand' /\ ProfilesAreOwned' /\ ConfigsStand' /\ StreamsStand'
    BY <2>1 DEF ModuleInv, PortsStand, ProfilesAreOwned, ConfigsStand, StreamsStand
  <2>3. PatchesStand'
    BY <2>1, PatchesKept DEF ModuleInv, PatchesStand
  <2> QED BY <2>2, <2>3 DEF ModuleInv
<1>2. ASSUME NEW t \in DOMAIN ports, NEW a \in Addresses, NEW o, connectExternalDevice(t, a, o) PROVE ModuleInv'
  BY <1>2, DeviceConnected
<1>3. CASE \E d \in DOMAIN mConnectedDevicePorts : disconnectExternalDevice(d)
  BY <1>3, DeviceDisconnected
<1>4. CASE \E p \in DOMAIN ports, g \in {"keep", "set"}, b \in BOOLEAN : setAudioPortConfigNew(p, g, b)
  BY <1>4, ConfigAdded
<1>5. CASE \E c \in DOMAIN portConfigs, g \in {"keep", "set"}, b \in BOOLEAN : setAudioPortConfigExisting(c, g, b)
  BY <1>5, ConfigChanged
<1>6. CASE \E c \in DOMAIN portConfigs : resetAudioPortConfig(c)
  BY <1>6, ConfigReset
<1>7. ASSUME NEW s \in SUBSET DOMAIN portConfigs, NEW ok \in Accepted, NEW k \in SUBSET ReachedConfigs(s),
             setAudioPatchNew(s, k, ok) \/ \E id \in DOMAIN patches : setAudioPatchExisting(id, s, k, ok)
      PROVE  ModuleInv'
  <2>1. ok = TRUE /\ k \in SUBSET DOMAIN portConfigs
    BY DEF Accepted, ReachedConfigs
  <2>2. setAudioPatchNew(s, k, TRUE) \/ \E id \in DOMAIN patches : setAudioPatchExisting(id, s, k, TRUE)
    BY <1>7, <2>1
  <2> QED BY <2>1, <2>2, PatchAdded, PatchChanged
<1>8. ASSUME NEW id \in DOMAIN patches, NEW ok \in Accepted, resetAudioPatch(id, ok) PROVE ModuleInv'
  <2>1. resetAudioPatch(id, TRUE)
    BY <1>8 DEF Accepted
  <2> QED BY <2>1, PatchErased
<1>9. CASE \E c \in DOMAIN portConfigs, ok \in BOOLEAN : openStream(c, ok)
  BY <1>9, StreamOpened
<1>10. CASE \E c \in DOMAIN mStreams : closeStream(c)
  BY <1>10, StreamClosed
<1> QED BY <1>1, <1>2, <1>3, <1>4, <1>5, <1>6, <1>7, <1>8, <1>9, <1>10 DEF ModuleNext

LEMMA ModuleAgrees ==
  ModuleInv => ModuleTypeOK /\ ReferencesHold /\ PatchesIndexed /\ ProfilesAreOwned /\ ExclusiveSink
<1> SUFFICES ASSUME ModuleInv
             PROVE  ModuleTypeOK /\ ReferencesHold /\ PatchesIndexed /\ ProfilesAreOwned /\ ExclusiveSink
  OBVIOUS
<1>1. ModuleTypeOK
  <2>1. \A p \in DOMAIN ports : ports[p].tag \in {"mix", "attached", "template", "connected"}
    BY ModuleIds DEF ModuleInv, PortsStand
  <2> QED BY <2>1 DEF ModuleInv, PortsStand, PatchesStand, StreamsStand, ModuleTypeOK
<1>3. PatchesIndexed
  BY EntriesOfId DEF ModuleInv, PatchesStand, IndexStands, PatchesIndexed
<1>4. ReferencesHold
  <2>1. \A e \in mPatches : e[2] \in DOMAIN patches
    BY EntriesOfId DEF ModuleInv, PatchesStand, IndexStands
  <2> QED BY <2>1 DEF ModuleInv, ConfigsStand, PatchesStand, StreamsStand, ReferencesHold, Open
<1>5. ExclusiveSink
  <2>1. ASSUME NEW k \in Sinks(routes), \A r \in routes : r.sink = k => r.exclusive
        PROVE  Cardinality({id \in DOMAIN patches : k \in PortsOf(patches[id].snk)}) <= 1
    <3> DEFINE S == {id \in DOMAIN patches : k \in PortsOf(patches[id].snk)}
    <3>1. \A i, j \in S : i = j
      BY <2>1 DEF ModuleInv, PatchesStand, SinksStand, OnlyExclusive, PortsOf, Under
    <3>2. S = {} \/ \E x : S = {x}
      <4> HIDE DEF S
      <4> QED BY <3>1
    <3> HIDE DEF S
    <3>3. Cardinality(S) \in {0, 1}
      BY <3>2, FS_EmptySet, FS_Singleton
    <3> QED BY <3>3 DEF S
  <2> QED BY <2>1 DEF ExclusiveSink, Sinks
<1> QED BY <1>1, <1>3, <1>4, <1>5 DEF ModuleInv
----------------------------------------------------------------------------------
(* PolicyConfig: what is converted, for every policy file. The ports of a module   *)
(* stand at their ids, so that a name is found at the first port that has it.       *)
LEMMA ElementOfModule ==
  ASSUME NEW xml \in ModuleElements
  PROVE  /\ PortsIn(xml.devicePorts) \in Seq(DevicePortElements)
         /\ PortsIn(xml.mixPorts) \in Seq(MixPortElements)
         /\ xml.routes \in Seq(RouteElements)
         /\ \A i \in DOMAIN PortsIn(xml.devicePorts) :
              PortsIn(xml.devicePorts)[i].tag = xml.default => PortsIn(xml.devicePorts)[i].role = "sink"
<1>1. /\ xml.devicePorts \in Seq(Seq(DevicePortElements)) /\ xml.mixPorts \in Seq(Seq(MixPortElements))
      /\ xml.routes \in Seq(RouteElements)
      /\ \A i \in DOMAIN xml.devicePorts : \A j \in DOMAIN xml.devicePorts[i] :
           xml.devicePorts[i][j].tag = xml.default => xml.devicePorts[i][j].role = "sink"
  BY PolicyAssumption
<1>2. \A S : \A s \in Seq(Seq(S)) : PortsIn(s) \in Seq(S) /\ (s # <<>> => 1 \in DOMAIN s)
  BY DEF PortsIn
<1>3. PortsIn(xml.devicePorts) \in Seq(DevicePortElements) /\ PortsIn(xml.mixPorts) \in Seq(MixPortElements)
  BY <1>1, <1>2
<1>4. ASSUME NEW i \in DOMAIN PortsIn(xml.devicePorts)
      PROVE  PortsIn(xml.devicePorts)[i].tag = xml.default => PortsIn(xml.devicePorts)[i].role = "sink"
  <2>1. CASE xml.devicePorts = <<>>
    BY <1>4, <2>1 DEF PortsIn
  <2>2. CASE xml.devicePorts # <<>>
    BY <1>1, <1>2, <1>4, <2>2, Zenon DEF PortsIn
  <2> QED BY <2>1, <2>2
<1> QED BY <1>1, <1>3, <1>4

LEMMA MadeIsSequence ==
  ASSUME NEW n \in Nat, NEW q, q = [i \in 1..n |-> q[i]]
  PROVE  q \in Seq({q[i] : i \in 1..n}) /\ Len(q) = n /\ DOMAIN q = 1..n
<1>1. q \in [1..n -> {q[i] : i \in 1..n}]
  BY Zenon
<1>2. q \in Seq({q[i] : i \in 1..n})
  BY <1>1, SeqDef, Zenon
<1>3. DOMAIN q = 1..n
  BY <1>1
<1> QED BY <1>2, <1>3, LenProperties

LEMMA DevicesMade ==
  ASSUME NEW xml \in ModuleElements
  PROVE  LET d == DevicePortsInModule(xml) s == PortsIn(xml.devicePorts) IN
         /\ Len(s) \in Nat /\ d \in Seq({d[i] : i \in 1..Len(s)}) /\ Len(d) = Len(s)
         /\ \A i \in 1..Len(s) :
              d[i] = [id |-> i, name |-> s[i].tag, tag |-> "device", input |-> s[i].role = "source",
                      connection |-> s[i].connection, default |-> s[i].tag = xml.default]
<1> DEFINE d == DevicePortsInModule(xml) s == PortsIn(xml.devicePorts)
<1>1. Len(s) \in Nat /\ DOMAIN s = 1..Len(s)
  BY ElementOfModule
<1>2. d = [i \in 1..Len(s) |-> convertDevicePortToAidl(s[i], xml.default, i)]
  BY <1>1, Zenon DEF DevicePortsInModule
<1> HIDE DEF d, s
<1>3. \A i \in 1..Len(s) : d[i] = convertDevicePortToAidl(s[i], xml.default, i)
  BY <1>2, Zenon
<1>4. d = [i \in 1..Len(s) |-> d[i]]
  BY <1>2, Zenon
<1>5. d \in Seq({d[i] : i \in 1..Len(s)}) /\ Len(d) = Len(s)
  BY <1>1, <1>4, MadeIsSequence
<1> QED BY <1>1, <1>3, <1>5, Zenon DEF d, s, convertDevicePortToAidl

LEMMA MixesMade ==
  ASSUME NEW xml \in ModuleElements
  PROVE  LET m == MixPortsInModule(xml) s == PortsIn(xml.mixPorts) n == Len(PortsIn(xml.devicePorts)) IN
         /\ Len(s) \in Nat /\ m \in Seq({m[i] : i \in 1..Len(s)}) /\ Len(m) = Len(s)
         /\ \A i \in 1..Len(s) :
              m[i] = [id |-> n + i, name |-> s[i].name, tag |-> "mix", input |-> s[i].role = "sink",
                      connection |-> "", default |-> FALSE]
<1> DEFINE m == MixPortsInModule(xml) s == PortsIn(xml.mixPorts) n == Len(PortsIn(xml.devicePorts))
<1>1. Len(s) \in Nat /\ DOMAIN s = 1..Len(s)
  BY ElementOfModule
<1>2. m = [i \in 1..Len(s) |-> convertMixPortToAidl(s[i], n + i)]
  BY <1>1, Zenon DEF MixPortsInModule
<1> HIDE DEF m, s, n
<1>3. \A i \in 1..Len(s) : m[i] = convertMixPortToAidl(s[i], n + i)
  BY <1>2, Zenon
<1>4. m = [i \in 1..Len(s) |-> m[i]]
  BY <1>2, Zenon
<1>5. m \in Seq({m[i] : i \in 1..Len(s)}) /\ Len(m) = Len(s)
  BY <1>1, <1>4, MadeIsSequence
<1> QED BY <1>1, <1>3, <1>5, Zenon DEF m, s, n, convertMixPortToAidl

\* The fields of a device port, of which an input is the default when it is the first.
InputMade(p, i, e) ==
  /\ p.id = i /\ p.name = e.tag /\ p.tag = "device" /\ p.connection = e.connection
  /\ (p.input <=> e.role = "source")

LEMMA InputIsMade ==
  ASSUME NEW i, NEW e, NEW default
  PROVE  LET p == [id |-> i, name |-> e.tag, tag |-> "device", input |-> e.role = "source",
                   connection |-> e.connection, default |-> e.tag = default]
         IN  /\ InputMade(p, i, e) /\ (p.default <=> e.tag = default)
             /\ InputMade([p EXCEPT !.default = TRUE], i, e) /\ [p EXCEPT !.default = TRUE].default
<1> DEFINE A == e.role = "source" B == e.tag = default
           p == [id |-> i, name |-> e.tag, tag |-> "device", input |-> A,
                 connection |-> e.connection, default |-> B]
<1>1. A \in BOOLEAN /\ B \in BOOLEAN /\ (A <=> e.role = "source") /\ (B <=> e.tag = default)
  OBVIOUS
<1> HIDE DEF A, B
<1>2. InputMade(p, i, e) /\ (p.default <=> e.tag = default)
  BY <1>1 DEF InputMade
<1>3. InputMade([p EXCEPT !.default = TRUE], i, e) /\ [p EXCEPT !.default = TRUE].default
  BY <1>1 DEF InputMade
<1> QED BY <1>2, <1>3 DEF A, B

LEMMA DefaultMade ==
  ASSUME NEW xml \in ModuleElements
  PROVE  LET d == DevicePortsInModule(xml) s == PortsIn(xml.devicePorts) w == WithDefaultInput(d)
             first == SelectInSeq(d, AttachedInput)
             I == {i \in 1..Len(s) : s[i].role = "source" /\ s[i].connection = ""}
         IN  /\ w = [i \in 1..Len(s) |-> w[i]]
             /\ \A i \in 1..Len(s) : InputMade(w[i], i, s[i])
             /\ \A i \in 1..Len(s) : s[i].role = "source" => (w[i].default <=> i = first)
             /\ IF I = {} THEN first = 0 ELSE first \in I
<1> DEFINE d == DevicePortsInModule(xml) s == PortsIn(xml.devicePorts) w == WithDefaultInput(d)
           first == SelectInSeq(d, AttachedInput)
           I == {i \in 1..Len(s) : s[i].role = "source" /\ s[i].connection = ""}
           J == {i \in 1..Len(d) : AttachedInput(d[i])}
<1>1. /\ Len(s) \in Nat /\ d \in Seq({d[i] : i \in 1..Len(s)}) /\ Len(d) = Len(s)
      /\ \A i \in 1..Len(s) :
           d[i] = [id |-> i, name |-> s[i].tag, tag |-> "device", input |-> s[i].role = "source",
                   connection |-> s[i].connection, default |-> s[i].tag = xml.default]
  BY DevicesMade
<1>2. \A i \in 1..Len(s) : s[i].tag = xml.default => s[i].role = "sink"
  <2>1. s \in Seq(DevicePortElements) /\ \A i \in DOMAIN s : s[i].tag = xml.default => s[i].role = "sink"
    BY ElementOfModule, Zenon
  <2> HIDE DEF s
  <2> QED BY <2>1
<1>3. first = IF J # {} THEN Min(J) ELSE 0
  BY Zenon DEF SelectInSeq
<1>4. w = IF first = 0 THEN d ELSE [d EXCEPT ![first].default = TRUE]
  BY Zenon DEF WithDefaultInput
<1> HIDE DEF d, s, w, first
<1>5. \A i \in 1..Len(s) : InputMade(d[i], i, s[i]) /\ (d[i].default <=> s[i].tag = xml.default)
  <2> TAKE i \in 1..Len(s)
  <2> DEFINE p == [id |-> i, name |-> s[i].tag, tag |-> "device", input |-> s[i].role = "source",
                   connection |-> s[i].connection, default |-> s[i].tag = xml.default]
  <2>1. /\ InputMade(p, i, s[i]) /\ (p.default <=> s[i].tag = xml.default)
        /\ InputMade([p EXCEPT !.default = TRUE], i, s[i]) /\ [p EXCEPT !.default = TRUE].default
    BY InputIsMade
  <2>2. d[i] = p
    BY <1>1, Zenon
  <2> HIDE DEF p
  <2> QED BY <2>1, <2>2
<1>6. I = J
  <2>1. \A i \in 1..Len(s) : AttachedInput(d[i]) <=> s[i].role = "source" /\ s[i].connection = ""
    BY <1>5, Zenon DEF InputMade, AttachedInput
  <2> QED BY <1>1, <2>1
<1>7. IF I = {} THEN first = 0 ELSE first \in I
  <2>1. I # {} => FirstIn(I)
    BY <1>1, FirstIsThere
  <2> HIDE DEF I, J
  <2> QED BY <2>1, <1>3, <1>6, Zenon DEF FirstIn
<1>8. d = [i \in 1..Len(s) |-> d[i]] /\ first \notin 1..Len(s) => first = 0
  BY <1>1, <1>7
<1>9. \A i \in 1..Len(s) : s[i].role = "source" => ~d[i].default
  BY <1>2, <1>5
<1>10. w = [i \in 1..Len(s) |-> w[i]] /\ \A i \in 1..Len(s) :
         w[i] = IF i = first THEN [d[i] EXCEPT !.default = TRUE] ELSE d[i]
  <2>1. CASE first = 0
    <3>1. w = d /\ \A i \in 1..Len(s) : i # first
      BY <1>4, <2>1
    <3> QED BY <1>1, <3>1
  <2>2. CASE first # 0
    <3>1. w = [d EXCEPT ![first].default = TRUE] /\ DOMAIN d = 1..Len(s)
      BY <1>1, <1>4, <2>2
    <3>2. w = [i \in 1..Len(s) |-> IF i = first THEN [d[i] EXCEPT !.default = TRUE] ELSE d[i]]
      BY <3>1, Zenon
    <3> QED BY <3>2, Zenon
  <2> QED BY <2>1, <2>2
<1>11. \A i \in 1..Len(s) : InputMade([d[i] EXCEPT !.default = TRUE], i, s[i])
                             /\ [d[i] EXCEPT !.default = TRUE].default
  <2> TAKE i \in 1..Len(s)
  <2> DEFINE p == [id |-> i, name |-> s[i].tag, tag |-> "device", input |-> s[i].role = "source",
                   connection |-> s[i].connection, default |-> s[i].tag = xml.default]
  <2>1. /\ InputMade(p, i, s[i]) /\ (p.default <=> s[i].tag = xml.default)
        /\ InputMade([p EXCEPT !.default = TRUE], i, s[i]) /\ [p EXCEPT !.default = TRUE].default
    BY InputIsMade
  <2>2. d[i] = p
    BY <1>1, Zenon
  <2> HIDE DEF p
  <2> QED BY <2>1, <2>2
<1>12. \A i \in 1..Len(s) : InputMade(w[i], i, s[i]) /\ (s[i].role = "source" => (w[i].default <=> i = first))
  BY <1>5, <1>9, <1>10, <1>11, Zenon
<1> QED BY <1>7, <1>10, <1>12, Zenon DEF d, s, w, first, I

LEMMA PortsMade ==
  ASSUME NEW xml \in ModuleElements
  PROVE  LET d == DevicePortsInModule(xml) s == PortsIn(xml.devicePorts) t == PortsIn(xml.mixPorts)
             made == WithDefaultInput(d) \o MixPortsInModule(xml)
             first == SelectInSeq(d, AttachedInput)
         IN  /\ Len(s) \in Nat /\ Len(t) \in Nat /\ DOMAIN s = 1..Len(s) /\ DOMAIN t = 1..Len(t)
             /\ Len(made) = Len(s) + Len(t) /\ made = [i \in 1..Len(made) |-> made[i]]
             /\ \A i \in 1..Len(made) : made[i].id = i
             /\ \A i \in 1..Len(s) : InputMade(made[i], i, s[i])
             /\ \A i \in 1..Len(s) : s[i].role = "source" => (made[i].default <=> i = first)
             /\ \A i \in 1..Len(t) : made[Len(s) + i].name = t[i].name /\ made[Len(s) + i].tag = "mix"
             /\ \A i \in 1..Len(made) : i > Len(s) => made[i].tag = "mix"
<1> DEFINE d == DevicePortsInModule(xml) s == PortsIn(xml.devicePorts) t == PortsIn(xml.mixPorts)
           w == WithDefaultInput(d) m == MixPortsInModule(xml) made == w \o m
           first == SelectInSeq(d, AttachedInput)
<1>1. /\ Len(s) \in Nat /\ Len(t) \in Nat /\ DOMAIN s = 1..Len(s) /\ DOMAIN t = 1..Len(t)
  BY ElementOfModule
<1>2. /\ w = [i \in 1..Len(s) |-> w[i]]
      /\ \A i \in 1..Len(s) : InputMade(w[i], i, s[i])
      /\ \A i \in 1..Len(s) : s[i].role = "source" => (w[i].default <=> i = first)
  BY DefaultMade
<1>3. /\ m \in Seq({m[i] : i \in 1..Len(t)}) /\ Len(m) = Len(t)
      /\ \A i \in 1..Len(t) :
           m[i] = [id |-> Len(s) + i, name |-> t[i].name, tag |-> "mix", input |-> t[i].role = "sink",
                   connection |-> "", default |-> FALSE]
  BY MixesMade
<1>4. ASSUME NEW i \in 1..Len(t) PROVE m[i].id = Len(s) + i /\ m[i].name = t[i].name /\ m[i].tag = "mix"
  <2> DEFINE j == Len(s) + i input == t[i].role = "sink"
             p == [id |-> j, name |-> t[i].name, tag |-> "mix", input |-> input,
                   connection |-> "", default |-> FALSE]
  <2>1. m[i] = p
    BY <1>3, Zenon
  <2>2. input \in BOOLEAN
    OBVIOUS
  <2> HIDE DEF j, input
  <2>3. p.id = j /\ p.name = t[i].name /\ p.tag = "mix"
    BY <2>2
  <2> QED BY <2>1, <2>3, Zenon DEF j
<1> HIDE DEF s, t, w, m, first
<1>5. w \in Seq({w[i] : i \in 1..Len(s)}) /\ Len(w) = Len(s)
  BY <1>1, <1>2, MadeIsSequence, Zenon
<1> DEFINE S == {w[i] : i \in 1..Len(s)} \union {m[i] : i \in 1..Len(t)}
<1>6. w \in Seq(S) /\ m \in Seq(S)
  BY <1>3, <1>5, SeqMonotonic
<1> HIDE DEF S
<1>7. /\ made \in Seq(S) /\ Len(made) = Len(s) + Len(t)
      /\ \A i \in 1..Len(s) : made[i] = w[i]
      /\ \A i \in 1..Len(made) : i > Len(s) => made[i] = m[i - Len(s)]
  <2>1. /\ made \in Seq(S) /\ Len(made) = Len(w) + Len(m)
        /\ \A i \in 1..Len(made) : made[i] = IF i <= Len(w) THEN w[i] ELSE m[i - Len(w)]
    BY <1>6, ConcatProperties, Zenon
  <2> HIDE DEF made
  <2>2. Len(made) = Len(s) + Len(t)
    BY <1>3, <1>5, <2>1
  <2>3. Len(w) = Len(s)
    BY <1>5
  <2>4. \A i \in 1..Len(s) : i \in 1..Len(made) /\ i <= Len(w)
    BY <1>1, <2>2, <2>3
  <2>5. \A i \in 1..Len(s) : made[i] = w[i]
    BY <2>1, <2>4, Zenon
  <2>6. \A i \in 1..Len(made) : i > Len(s) => ~(i <= Len(w))
    BY <1>1, <2>2, <2>3
  <2>7. \A i \in 1..Len(made) : i > Len(s) => made[i] = m[i - Len(s)]
    BY <2>1, <2>3, <2>6, Zenon
  <2> QED BY <2>1, <2>2, <2>5, <2>7
<1>8. made = [i \in 1..Len(made) |-> made[i]]
  <2> HIDE DEF made
  <2> QED BY <1>7
<1> HIDE DEF made
<1>9. \A i \in 1..Len(made) : i > Len(s) => i - Len(s) \in 1..Len(t) /\ Len(s) + (i - Len(s)) = i
  BY <1>1, <1>7
<1>10. \A i \in 1..Len(made) : made[i].id = i
  <2> TAKE i \in 1..Len(made)
  <2>1. CASE i > Len(s)
    BY <1>4, <1>7, <1>9, <2>1
  <2>2. CASE ~(i > Len(s))
    <3>1. i \in 1..Len(s)
      BY <1>1, <1>7, <2>2
    <3> QED BY <1>2, <1>7, <3>1 DEF InputMade
  <2> QED BY <2>1, <2>2
<1>11. \A i \in 1..Len(s) : InputMade(made[i], i, s[i])
  BY <1>2, <1>7, Zenon
<1>12. \A i \in 1..Len(s) : s[i].role = "source" => (made[i].default <=> i = first)
  BY <1>2, <1>7, Zenon
<1>13. \A i \in 1..Len(t) : made[Len(s) + i].name = t[i].name /\ made[Len(s) + i].tag = "mix"
  <2> TAKE i \in 1..Len(t)
  <2>1. Len(s) + i \in 1..Len(made) /\ Len(s) + i > Len(s) /\ (Len(s) + i) - Len(s) = i
    BY <1>1, <1>7
  <2> QED BY <1>4, <1>7, <2>1
<1>14. \A i \in 1..Len(made) : i > Len(s) => made[i].tag = "mix"
  BY <1>4, <1>7, <1>9
<1> QED BY <1>1, <1>7, <1>8, <1>10, <1>11, <1>12, <1>13, <1>14, Zenon
        DEF d, s, t, w, m, made, first

LEMMA NameIsFound ==
  ASSUME NEW made, Len(made) \in Nat, \A i \in 1..Len(made) : made[i].id = i,
         NEW name, NEW j \in 1..Len(made), made[j].name = name
  PROVE  PortId(made, name) \in 1..Len(made) /\ made[PortId(made, name)].name = name
<1> DEFINE I == {i \in 1..Len(made) : made[i].name = name}
           k == SelectInSeq(made, LAMBDA p : p.name = name)
<1>1. k = IF I # {} THEN Min(I) ELSE 0
  BY Zenon DEF SelectInSeq
<1>2. I \in SUBSET (1..Len(made)) /\ I # {}
  OBVIOUS
<1>3. PortId(made, name) = made[k].id
  BY Zenon DEF PortId
<1> HIDE DEF I, k
<1>4. FirstIn(I)
  BY <1>2, FirstIsThere
<1>5. k \in I
  BY <1>1, <1>2, <1>4 DEF FirstIn
<1>6. k \in 1..Len(made) /\ made[k].name = name
  BY <1>5 DEF I
<1> QED BY <1>3, <1>6

\* The ports that a converted module gives a name, and those its file gives one.
PortsOfModule(xml) == WithDefaultInput(DevicePortsInModule(xml)) \o MixPortsInModule(xml)

LEMMA NamesArePorts ==
  ASSUME NEW xml \in ModuleElements,
         NEW name \in {PortsIn(xml.devicePorts)[i].tag : i \in DOMAIN PortsIn(xml.devicePorts)}
                        \union {PortsIn(xml.mixPorts)[i].name : i \in DOMAIN PortsIn(xml.mixPorts)}
  PROVE  \E j \in 1..Len(PortsOfModule(xml)) : PortsOfModule(xml)[j].name = name
<1> DEFINE s == PortsIn(xml.devicePorts) t == PortsIn(xml.mixPorts) made == PortsOfModule(xml)
<1>1. /\ Len(s) \in Nat /\ Len(t) \in Nat /\ DOMAIN s = 1..Len(s) /\ DOMAIN t = 1..Len(t)
      /\ Len(made) = Len(s) + Len(t) /\ \A i \in 1..Len(s) : InputMade(made[i], i, s[i])
      /\ \A i \in 1..Len(t) : made[Len(s) + i].name = t[i].name
  BY PortsMade, Zenon DEF PortsOfModule
<1>2. name \in {s[i].tag : i \in DOMAIN s} \union {t[i].name : i \in DOMAIN t}
  OBVIOUS
<1> HIDE DEF s, t, made
<1>3. ASSUME NEW i \in 1..Len(s), name = s[i].tag PROVE \E j \in 1..Len(made) : made[j].name = name
  <2>1. i \in 1..Len(made) /\ made[i].name = name
    BY <1>1, <1>3 DEF InputMade
  <2> QED BY <2>1
<1>4. ASSUME NEW i \in 1..Len(t), name = t[i].name PROVE \E j \in 1..Len(made) : made[j].name = name
  <2>1. Len(s) + i \in 1..Len(made) /\ made[Len(s) + i].name = name
    BY <1>1, <1>4
  <2> QED BY <2>1
<1>5. \E j \in 1..Len(made) : made[j].name = name
  BY <1>1, <1>2, <1>3, <1>4
<1> QED BY <1>5 DEF made

\* RoutesResolve and OneDefaultInput, of one module.
Resolved(xml, config) ==
  LET Names(id) == {p \in ToSet(config.ports) : p.id = id}
  IN /\ \A p, q \in ToSet(config.ports) : p.id = q.id => p = q
     /\ config = NoConfiguration \/
        \A i \in DOMAIN xml.routes :
          \E r \in config.routes :
            /\ \A p \in Names(r.sink) : p.name = xml.routes[i].sink
            /\ {p.name : p \in UNION {Names(id) : id \in r.srcs}} = ToSet(xml.routes[i].sources)
DefaultIsOne(config) ==
  LET inputs == {p \in ToSet(config.ports) : p.tag = "device" /\ p.input}
  IN Cardinality({p \in inputs : p.default}) = IF \E p \in inputs : AttachedInput(p) THEN 1 ELSE 0

LEMMA NothingResolves ==
  ASSUME NEW xml
  PROVE  Resolved(xml, NoConfiguration) /\ DefaultIsOne(NoConfiguration)
<1>1. ToSet(NoConfiguration.ports) = {}
  BY DEF NoConfiguration, ToSet
<1> QED BY <1>1, FS_EmptySet DEF Resolved, DefaultIsOne

LEMMA RoutesAreResolved ==
  ASSUME NEW xml \in ModuleElements, ModuleConverts(xml)
  PROVE  Resolved(xml, convertModuleConfigToAidl(xml))
<1> DEFINE config == convertModuleConfigToAidl(xml)
           made == config.ports P == ToSet(made) Names(id) == {p \in P : p.id = id}
           names == {PortsIn(xml.devicePorts)[i].tag : i \in DOMAIN PortsIn(xml.devicePorts)}
                    \union {PortsIn(xml.mixPorts)[i].name : i \in DOMAIN PortsIn(xml.mixPorts)}
<1>2. made = PortsOfModule(xml) /\ config.routes = {convertRouteToAidl(xml.routes[i], made) : i \in DOMAIN xml.routes}
  BY Zenon DEF convertModuleConfigToAidl, PortsOfModule
<1>1. /\ Len(made) \in Nat /\ made = [i \in 1..Len(made) |-> made[i]]
      /\ \A i \in 1..Len(made) : made[i].id = i
  <2> HIDE DEF made
  <2>1. /\ Len(PortsOfModule(xml)) \in Nat /\ PortsOfModule(xml) = [i \in 1..Len(PortsOfModule(xml)) |-> PortsOfModule(xml)[i]]
        /\ \A i \in 1..Len(PortsOfModule(xml)) : PortsOfModule(xml)[i].id = i
    BY PortsMade DEF PortsOfModule
  <2> QED BY <1>2, <2>1
<1>3. ASSUME NEW name \in names
      PROVE  PortId(made, name) \in 1..Len(made) /\ made[PortId(made, name)].name = name
  <2> HIDE DEF made
  <2>1. \E j \in 1..Len(PortsOfModule(xml)) : PortsOfModule(xml)[j].name = name
    BY <1>3, NamesArePorts
  <2>2. PICK j \in 1..Len(made) : made[j].name = name
    BY <1>2, <2>1
  <2> QED BY <1>1, <2>2, NameIsFound
<1>4. \A i \in DOMAIN xml.routes : xml.routes[i].sink \in names /\ ToSet(xml.routes[i].sources) \subseteq names
  BY DEF ModuleConverts, Every
<1> HIDE DEF made, names, config
<1>5. P = {made[i] : i \in 1..Len(made)}
  BY <1>1 DEF ToSet
<1>6. \A p, q \in P : p.id = q.id => p = q
  BY <1>1, <1>5
<1>7. \A k \in 1..Len(made) : Names(k) = {made[k]}
  BY <1>1, <1>5
<1> HIDE DEF P, Names
<1>8. ASSUME NEW i \in DOMAIN xml.routes
      PROVE  \E r \in config.routes :
               /\ \A p \in Names(r.sink) : p.name = xml.routes[i].sink
               /\ {p.name : p \in UNION {Names(id) : id \in r.srcs}} = ToSet(xml.routes[i].sources)
  <2> DEFINE r == convertRouteToAidl(xml.routes[i], made) from == xml.routes[i].sources
  <2>1. r \in config.routes /\ xml.routes[i].sink \in names /\ ToSet(from) \subseteq names
    BY <1>2, <1>4
  <2>2. r.sink = PortId(made, xml.routes[i].sink) /\ r.srcs = {PortId(made, from[j]) : j \in DOMAIN from}
    BY Zenon DEF convertRouteToAidl
  <2> HIDE DEF r, from
  <2>3. \A p \in Names(r.sink) : p.name = xml.routes[i].sink
    BY <1>3, <1>7, <2>1, <2>2
  <2>4. ToSet(from) = {from[j] : j \in DOMAIN from}
    BY DEF ToSet
  <2>5. {p.name : p \in UNION {Names(id) : id \in r.srcs}} = ToSet(from)
    <3>1. UNION {Names(id) : id \in r.srcs} = {made[PortId(made, from[j])] : j \in DOMAIN from}
      <4> DEFINE k(j) == PortId(made, from[j])
      <4>1. \A j \in DOMAIN from : Names(k(j)) = {made[k(j)]}
        BY <1>3, <1>7, <2>1, <2>4
      <4>2. r.srcs = {k(j) : j \in DOMAIN from}
        BY <2>2
      <4> HIDE DEF k
      <4>3. UNION {Names(id) : id \in r.srcs} = {made[k(j)] : j \in DOMAIN from}
        BY <4>1, <4>2
      <4> QED BY <4>3 DEF k
    <3>2. \A j \in DOMAIN from : made[PortId(made, from[j])].name = from[j]
      BY <1>3, <2>1, <2>4
    <3> QED BY <2>4, <3>1, <3>2
  <2> QED BY <2>1, <2>3, <2>5 DEF from
<1> QED BY <1>6, <1>8, Zenon DEF Resolved, P, Names, made, config

LEMMA DefaultsAreOne ==
  ASSUME NEW xml \in ModuleElements
  PROVE  DefaultIsOne(convertModuleConfigToAidl(xml))
<1> DEFINE d == DevicePortsInModule(xml) s == PortsIn(xml.devicePorts) t == PortsIn(xml.mixPorts)
           config == convertModuleConfigToAidl(xml) made == config.ports
           first == SelectInSeq(d, AttachedInput)
           I == {i \in 1..Len(s) : s[i].role = "source" /\ s[i].connection = ""}
           inputs == {p \in ToSet(made) : p.tag = "device" /\ p.input}
           found == {p \in inputs : p.default}
<1>1. /\ Len(s) \in Nat /\ Len(t) \in Nat /\ Len(made) = Len(s) + Len(t)
      /\ made = [i \in 1..Len(made) |-> made[i]]
      /\ \A i \in 1..Len(s) : InputMade(made[i], i, s[i])
      /\ \A i \in 1..Len(s) : s[i].role = "source" => (made[i].default <=> i = first)
      /\ \A i \in 1..Len(made) : i > Len(s) => made[i].tag = "mix"
  <2>1. made = WithDefaultInput(d) \o MixPortsInModule(xml)
    BY Zenon DEF convertModuleConfigToAidl
  <2> HIDE DEF made
  <2> QED BY <2>1, PortsMade, Zenon
<1>3. IF I = {} THEN first = 0 ELSE first \in I
  BY DefaultMade, Zenon
<1> HIDE DEF s, t, made, first, config
<1>4. ToSet(made) = {made[i] : i \in 1..Len(made)}
  BY <1>1 DEF ToSet
<1>5. inputs = {made[i] : i \in {k \in 1..Len(s) : s[k].role = "source"}}
  <2>1. \A i \in 1..Len(made) : made[i].tag = "device" /\ made[i].input <=>
                                   i \in 1..Len(s) /\ s[i].role = "source"
    BY <1>1 DEF InputMade
  <2>2. \A i \in 1..Len(s) : i \in 1..Len(made)
    BY <1>1
  <2> QED BY <1>4, <2>1, <2>2
<1> HIDE DEF inputs
<1>6. (\E p \in inputs : AttachedInput(p)) <=> I # {}
  <2>1. \A i \in 1..Len(s) : s[i].role = "source" => (AttachedInput(made[i]) <=> s[i].connection = "")
    BY <1>1 DEF InputMade, AttachedInput
  <2> QED BY <1>5, <2>1
<1>7. found = IF I = {} THEN {} ELSE {made[first]}
  <2>1. \A i \in 1..Len(s) : s[i].role = "source" => (made[i].default <=> i = first)
    BY <1>1
  <2>2. I # {} => first \in 1..Len(s) /\ s[first].role = "source"
    BY <1>3
  <2> HIDE DEF I
  <2>3. I = {} => \A i \in 1..Len(s) : i # first
    BY <1>1, <1>3
  <2>4. CASE I = {}
    BY <1>5, <2>1, <2>3, <2>4
  <2>5. CASE I # {}
    BY <1>5, <2>1, <2>2, <2>5
  <2> QED BY <2>4, <2>5
<1> HIDE DEF I, found
<1>8. Cardinality(found) = IF I = {} THEN 0 ELSE 1
  BY <1>7, FS_EmptySet, FS_Singleton
<1>9. Cardinality(found) = IF \E p \in inputs : AttachedInput(p) THEN 1 ELSE 0
  BY <1>6, <1>8
<1> QED BY <1>9, Zenon DEF DefaultIsOne, found, inputs, made, config
----------------------------------------------------------------------------------
(* The lists that grow. A strategy without an id of its own has the id that the map *)
(* holds for its name, and the map never gives an id twice: those of the platform    *)
(* are below the first one of a vendor, and the next one is above all. Only a file   *)
(* of the engine brings groups as elements.                                         *)
ConvertedModules ==
  {[xml |-> xml, config |-> IF xml.name = "r_submix" THEN NoConfiguration ELSE convertModuleConfigToAidl(xml)] :
     xml \in {x \in ModuleElements : x.name = "r_submix" \/ ModuleConverts(x)}}
ModulesAreConverted ==
  /\ pcLeft \in 0..MaxPolicyElements
  /\ pcPhase \in {"modules", "strategies", "groups", "serving", "ended"}
  /\ pcModules \in Seq(ConvertedModules) /\ pcHandled \in 0..Len(pcModules)
  /\ \A m \in 1..pcHandled : NameOf(pcModules[m].xml) \in typeFromString => NameOf(pcModules[m].xml) \in pcServed

Strategies == [name : STRING, id : Nat, given : BOOLEAN, default : BOOLEAN]
IdsOfDefaults(strategies) == {s.id : s \in {t \in ToSet(strategies) : t.default}}
StrategiesHaveIds ==
  /\ pcNext \in Nat /\ VendorStart <= pcNext /\ pcStrategies \in Seq(Strategies)
  /\ pcMap = [n \in DOMAIN pcMap |-> pcMap[n]] /\ \A n \in DOMAIN pcMap : pcMap[n] \in 0..(pcNext - 1)
  /\ \A m, n \in DOMAIN pcMap : pcMap[m] = pcMap[n] => m = n
  /\ \A i \in 1..Len(pcStrategies) :
       ~pcStrategies[i].given => /\ pcStrategies[i].name \in DOMAIN pcMap
                                 /\ pcStrategies[i].id = pcMap[pcStrategies[i].name]
  /\ IF IdsOfDefaults(pcStrategies) = {} THEN pcDefault = NoDefault
     ELSE pcDefault \in IdsOfDefaults(pcStrategies)

VolumeGroups == [name : STRING, curves : Seq(SUBSET Int)]
GroupsAreSingle ==
  /\ pcGroups \in Seq(VolumeGroups)
  /\ pcPhase \in {"strategies", "groups"} => pcSource = "engine"
  /\ pcSource = "policy" =>
       \A i, j \in 1..Len(pcGroups) : pcGroups[i].name = pcGroups[j].name => i = j

PolicyInv == ModulesAreConverted /\ StrategiesHaveIds /\ GroupsAreSingle

LEMMA ConvertedStand ==
  ASSUME NEW q \in ConvertedModules
  PROVE  Resolved(q.xml, q.config) /\ DefaultIsOne(q.config)
<1>1. PICK xml \in ModuleElements :
        /\ xml.name = "r_submix" \/ ModuleConverts(xml)
        /\ q = [xml |-> xml, config |-> IF xml.name = "r_submix" THEN NoConfiguration
                                         ELSE convertModuleConfigToAidl(xml)]
  BY Zenon DEF ConvertedModules
<1>2. q.xml = xml /\ q.config = IF xml.name = "r_submix" THEN NoConfiguration ELSE convertModuleConfigToAidl(xml)
  BY <1>1
<1>3. CASE xml.name = "r_submix"
  <2>1. q.config = NoConfiguration
    BY <1>2, <1>3
  <2> QED BY <1>2, <2>1, NothingResolves
<1>4. CASE xml.name # "r_submix"
  <2>1. q.config = convertModuleConfigToAidl(xml) /\ ModuleConverts(xml)
    BY <1>1, <1>2, <1>4
  <2> QED BY <1>2, <2>1, RoutesAreResolved, DefaultsAreOne
<1> QED BY <1>3, <1>4

LEMMA ModulesGoOn ==
  ASSUME ModulesAreConverted, [PolicyNext]_pcVars
  PROVE  ModulesAreConverted'
<1> DEFINE HandledServed(modules, handled, served) ==
             \A m \in 1..handled : NameOf(modules[m].xml) \in typeFromString => NameOf(modules[m].xml) \in served
<1>0. /\ pcLeft \in 0..MaxPolicyElements /\ pcModules \in Seq(ConvertedModules) /\ pcHandled \in 0..Len(pcModules)
      /\ pcPhase \in {"modules", "strategies", "groups", "serving", "ended"} /\ MaxPolicyElements \in Nat
      /\ HandledServed(pcModules, pcHandled, pcServed)
  BY PolicyAssumption DEF ModulesAreConverted
<1>1. ASSUME NEW xml \in ModuleElements, ConvertModule(xml) PROVE ModulesAreConverted'
  <2> DEFINE q == [xml |-> xml, config |-> IF xml.name = "r_submix" THEN NoConfiguration
                                           ELSE convertModuleConfigToAidl(xml)]
  <2>1. /\ pcLeft > 0 /\ pcLeft' = pcLeft - 1 /\ pcHandled' = pcHandled /\ pcServed' = pcServed
        /\ pcPhase' \in {"ended", pcPhase}
    BY <1>1 DEF ConvertModule, PolicyElement, End, pcService
  <2>5. \/ pcModules' = pcModules
        \/ pcModules' = Append(pcModules, q) /\ (xml.name = "r_submix" \/ ModuleConverts(xml))
    BY <1>1, Zenon DEF ConvertModule
  <2>2. xml.name = "r_submix" \/ ModuleConverts(xml) => q \in ConvertedModules
    BY Zenon DEF ConvertedModules
  <2> HIDE DEF q
  <2>3. CASE pcModules' = pcModules
    BY <1>0, <2>1, <2>3 DEF ModulesAreConverted
  <2>4. CASE pcModules' # pcModules
    <3>1. /\ pcModules' \in Seq(ConvertedModules) /\ Len(pcModules') = Len(pcModules) + 1
          /\ \A m \in 1..Len(pcModules) : pcModules'[m] = pcModules[m]
      BY <1>0, <2>2, <2>4, <2>5
    <3>2. HandledServed(pcModules', pcHandled, pcServed)
      BY <1>0, <3>1
    <3> HIDE DEF HandledServed
    <3>3. HandledServed(pcModules', pcHandled', pcServed')
      BY <2>1, <3>2
    <3>4. pcHandled' \in 0..Len(pcModules') /\ pcLeft' \in 0..MaxPolicyElements
      BY <1>0, <2>1, <3>1
    <3>5. pcPhase' \in {"modules", "strategies", "groups", "serving", "ended"}
      BY <1>0, <2>1
    <3> QED BY <3>1, <3>3, <3>4, <3>5 DEF ModulesAreConverted, HandledServed
  <2> QED BY <2>3, <2>4
<1>2. CASE createModule
  <2>1. /\ pcHandled < Len(pcModules) /\ pcHandled' = pcHandled + 1
        /\ pcServed' = pcServed \union ({NameOf(pcModules[pcHandled + 1].xml)} \intersect typeFromString)
        /\ UNCHANGED <<pcPhase, pcLeft, pcModules>>
    BY <1>2, Zenon DEF createModule
  <2>2. HandledServed(pcModules, pcHandled + 1, pcServed')
    BY <1>0, <2>1
  <2> HIDE DEF HandledServed
  <2>3. HandledServed(pcModules', pcHandled', pcServed')
    BY <2>1, <2>2
  <2>4. pcHandled' \in 0..Len(pcModules')
    BY <1>0, <2>1
  <2> QED BY <1>0, <2>1, <2>3, <2>4 DEF ModulesAreConverted, HandledServed
<1>3. ASSUME UNCHANGED <<pcModules, pcHandled, pcServed>>, pcLeft' \in {pcLeft, pcLeft - 1},
             pcLeft' = pcLeft - 1 => pcLeft > 0,
             pcPhase' \in {"modules", "strategies", "groups", "serving", "ended"}
      PROVE  ModulesAreConverted'
  <2>1. pcLeft' \in 0..MaxPolicyElements
    BY <1>0, <1>3
  <2> QED BY <1>0, <1>3, <2>1 DEF ModulesAreConverted
<1>4. ASSUME NEW xml \in StrategyElements, ConvertStrategy(xml) PROVE ModulesAreConverted'
  BY <1>0, <1>3, <1>4 DEF ConvertStrategy, PolicyElement, End, pcService
<1>5. ASSUME NEW xml \in GroupElements, convertVolumeGroupToAidl(xml) PROVE ModulesAreConverted'
  BY <1>0, <1>3, <1>5 DEF convertVolumeGroupToAidl, PolicyElement, End, pcService
<1>6. ASSUME NEW xml \in StreamVolumes, mapStreamToVolumeCurve(xml) PROVE ModulesAreConverted'
  BY <1>0, <1>3, <1>6 DEF mapStreamToVolumeCurve, PolicyElement, End, pcService
<1>7. CASE EndSection
  <2>1. SectionAfter(pcPhase) \in {"strategies", "groups", "serving"}
    BY DEF SectionAfter
  <2> QED BY <1>0, <1>3, <1>7, <2>1 DEF EndSection, pcService
<1>8. CASE getEngineConfig \/ addVolumeGroupstoEngineConfig
  BY <1>0, <1>3, <1>8 DEF getEngineConfig, addVolumeGroupstoEngineConfig
<1>9. CASE UNCHANGED pcVars
  BY <1>0, <1>3, <1>9 DEF pcVars, pcService
<1> QED BY <1>1, <1>2, <1>4, <1>5, <1>6, <1>7, <1>8, <1>9 DEF PolicyNext

LEMMA GroupsGoOn ==
  ASSUME GroupsAreSingle, [PolicyNext]_pcVars
  PROVE  GroupsAreSingle'
<1>1. ASSUME UNCHANGED <<pcGroups, pcSource>>, pcPhase' \in {pcPhase, "ended", "serving"}
      PROVE  GroupsAreSingle'
  BY <1>1 DEF GroupsAreSingle
<1>2. ASSUME NEW xml \in ModuleElements, ConvertModule(xml) PROVE GroupsAreSingle'
  BY <1>1, <1>2 DEF ConvertModule, PolicyElement, End
<1>3. ASSUME NEW xml \in StrategyElements, ConvertStrategy(xml) PROVE GroupsAreSingle'
  BY <1>1, <1>3 DEF ConvertStrategy, PolicyElement, End
<1>4. ASSUME NEW xml \in GroupElements, convertVolumeGroupToAidl(xml) PROVE GroupsAreSingle'
  <2> DEFINE g == [name |-> xml.name, curves |-> Mapped(xml.curves, Points)]
  <2>1. pcPhase = "groups" /\ pcSource' = pcSource /\ pcPhase' \in {pcPhase, "ended"}
    BY <1>4 DEF convertVolumeGroupToAidl, PolicyElement, End
  <2>4. \/ pcGroups' = pcGroups
        \/ Every(xml.curves, CurveConverts) /\ pcGroups' = Append(pcGroups, g)
    BY <1>4, Zenon DEF convertVolumeGroupToAidl
  <2>2. ASSUME Every(xml.curves, CurveConverts) PROVE g \in VolumeGroups
    <3>1. xml.name \in STRING /\ xml.curves \in Seq(CurveElements)
      BY PolicyAssumption
    <3>2. \A i \in DOMAIN xml.curves : Points(xml.curves[i]) \in SUBSET Int
      BY <2>2 DEF Every, CurveConverts
    <3>3. Mapped(xml.curves, Points) = [i \in DOMAIN xml.curves |-> Points(xml.curves[i])]
      BY Zenon DEF Mapped
    <3>4. Mapped(xml.curves, Points) \in Seq(SUBSET Int)
      <4>1. Mapped(xml.curves, Points) \in [1..Len(xml.curves) -> SUBSET Int] /\ Len(xml.curves) \in Nat
        BY <3>1, <3>2, <3>3
      <4> QED BY <4>1, SeqDef, Zenon
    <3> QED BY <3>1, <3>4 DEF VolumeGroups
  <2> HIDE DEF g
  <2>3. pcSource = "engine" /\ pcGroups \in Seq(VolumeGroups)
    BY <2>1 DEF GroupsAreSingle
  <2>5. pcGroups' \in Seq(VolumeGroups)
    BY <2>2, <2>3, <2>4
  <2> QED BY <2>1, <2>3, <2>5 DEF GroupsAreSingle
<1>5. ASSUME NEW xml \in StreamVolumes, mapStreamToVolumeCurve(xml) PROVE GroupsAreSingle'
  <2> DEFINE i == GroupOf(xml.stream) I == {k \in 1..Len(pcGroups) : pcGroups[k].name = xml.stream}
             points == Points(xml.curve) g == [name |-> xml.stream, curves |-> <<points>>]
  <2>1. /\ pcPhase = "serving" /\ pcSource' = pcSource /\ pcPhase' \in {pcPhase, "ended"}
        /\ \/ pcGroups' = pcGroups
           \/ CurveConverts(xml.curve) /\ pcGroups' = IF i = 0 THEN Append(pcGroups, g)
                                                      ELSE [pcGroups EXCEPT ![i].curves = Append(@, points)]
    BY <1>5 DEF mapStreamToVolumeCurve, PolicyElement, End
  <2>2. i = IF I # {} THEN Min(I) ELSE 0
    BY Zenon DEF GroupOf, SelectInSeq
  <2>3. pcGroups \in Seq(VolumeGroups) /\ Len(pcGroups) \in Nat
    BY DEF GroupsAreSingle
  <2>8. CurveConverts(xml.curve) => points \in SUBSET Int
    BY DEF CurveConverts
  <2>9. xml.stream \in STRING
    BY PolicyAssumption
  <2> HIDE DEF i
  <2>4. IF i = 0 THEN I = {} ELSE i \in I
    <3>1. I # {} => FirstIn(I)
      BY <2>3, FirstIsThere
    <3>2. 0 \notin I
      BY <2>3
    <3> HIDE DEF I
    <3> QED BY <2>2, <3>1, <3>2, Zenon DEF FirstIn
  <2>5. CASE pcGroups' = pcGroups
    BY <1>1, <2>1, <2>5
  <2>6. ASSUME CurveConverts(xml.curve), i = 0, pcGroups' = Append(pcGroups, g) PROVE GroupsAreSingle'
    <3>1. points \in SUBSET Int /\ xml.stream \in STRING
      BY <2>6, <2>8, <2>9
    <3> HIDE DEF points
    <3>2. g \in VolumeGroups /\ g.name = xml.stream
      BY <3>1 DEF VolumeGroups
    <3> HIDE DEF g
    <3>3. /\ pcGroups' \in Seq(VolumeGroups) /\ Len(pcGroups') = Len(pcGroups) + 1
          /\ \A k \in 1..Len(pcGroups) : pcGroups'[k] = pcGroups[k]
          /\ pcGroups'[Len(pcGroups) + 1] = g
      BY <2>3, <2>6, <3>2
    <3>4. \A k \in 1..Len(pcGroups) : pcGroups[k].name # xml.stream
      BY <2>4, <2>6
    <3> QED BY <2>1, <2>3, <3>2, <3>3, <3>4 DEF GroupsAreSingle
  <2>7. ASSUME CurveConverts(xml.curve), i # 0, pcGroups' = [pcGroups EXCEPT ![i].curves = Append(@, points)]
        PROVE  GroupsAreSingle'
    <3>1. points \in SUBSET Int
      BY <2>7, <2>8
    <3>2. i \in 1..Len(pcGroups)
      BY <2>4, <2>7
    <3> HIDE DEF points, I
    <3> DEFINE new == [pcGroups[i] EXCEPT !.curves = Append(@, points)]
    <3>4. pcGroups[i] \in VolumeGroups
      BY <2>3, <3>2
    <3>5. new \in VolumeGroups /\ new.name = pcGroups[i].name
      BY <3>1, <3>4 DEF VolumeGroups
    <3>6. pcGroups' = [pcGroups EXCEPT ![i] = new]
      BY <2>7, Zenon
    <3> HIDE DEF new
    <3>3. /\ pcGroups' \in Seq(VolumeGroups) /\ Len(pcGroups') = Len(pcGroups)
          /\ \A k \in 1..Len(pcGroups) : pcGroups'[k].name = pcGroups[k].name
      BY <2>3, <3>2, <3>5, <3>6
    <3> QED BY <2>1, <2>3, <3>3 DEF GroupsAreSingle
  <2> QED BY <2>1, <2>5, <2>6, <2>7
<1>6. CASE EndSection
  <2>1. /\ UNCHANGED <<pcGroups, pcSource>> /\ pcPhase' = SectionAfter(pcPhase) /\ pcPhase \in {"modules", "strategies", "groups"}
    BY <1>6 DEF EndSection
  <2>2. pcPhase' \in {"strategies", "groups"} => pcSource = "engine"
    BY <2>1 DEF SectionAfter, GroupsAreSingle
  <2> QED BY <2>1, <2>2 DEF GroupsAreSingle
<1>7. CASE createModule \/ getEngineConfig \/ addVolumeGroupstoEngineConfig
  BY <1>1, <1>7 DEF createModule, getEngineConfig, addVolumeGroupstoEngineConfig
<1>8. CASE UNCHANGED pcVars
  BY <1>1, <1>8 DEF pcVars
<1> QED BY <1>2, <1>3, <1>4, <1>5, <1>6, <1>7, <1>8 DEF PolicyNext

LEMMA IdsAreNumbers ==
  ASSUME NEW s \in Seq(Strategies)
  PROVE  IdsOfDefaults(s) \subseteq Nat
<1>1. ToSet(s) \subseteq Strategies
  BY DEF ToSet
<1>2. \A t \in Strategies : t.id \in Nat
  BY DEF Strategies
<1> QED BY <1>1, <1>2, Zenon DEF IdsOfDefaults

LEMMA StrategyConverted ==
  ASSUME StrategiesHaveIds, NEW xml \in StrategyElements, ConvertStrategy(xml), StrategyConverts(xml)
  PROVE  StrategiesHaveIds'
<1> DEFINE given == xml.id # Missing
           id == IF given THEN xml.id ELSE convertProductStrategyNameToAidl(xml.name)
           new == ~given /\ xml.name \notin DOMAIN pcMap
           mark == HasDefault(xml)
           r == [name |-> xml.name, id |-> id, given |-> given, default |-> mark]
<1>1. /\ pcMap' = IF new THEN [n \in DOMAIN pcMap \union {xml.name} |->
                                 IF n = xml.name THEN pcNext ELSE pcMap[n]] ELSE pcMap
      /\ pcNext' = IF new THEN pcNext + 1 ELSE pcNext
      /\ pcStrategies' = Append(pcStrategies, r)
      /\ pcDefault' = DefaultAfter(xml, id)
  BY Zenon DEF ConvertStrategy
<1>2. /\ pcNext \in Nat /\ VendorStart <= pcNext /\ VendorStart \in Nat /\ pcStrategies \in Seq(Strategies)
      /\ pcMap = [n \in DOMAIN pcMap |-> pcMap[n]] /\ \A n \in DOMAIN pcMap : pcMap[n] \in 0..(pcNext - 1)
      /\ \A m, n \in DOMAIN pcMap : pcMap[m] = pcMap[n] => m = n
  BY PolicyAssumption DEF StrategiesHaveIds
<1>3. given \in BOOLEAN /\ mark \in BOOLEAN /\ (new => ~given) /\ (given \/ xml.name \in DOMAIN pcMap \/ new)
  BY DEF HasDefault
<1>4. (given => id = xml.id) /\ (~given => id = IF new THEN pcNext ELSE pcMap[xml.name])
  BY DEF convertProductStrategyNameToAidl
<1>5. (given => xml.id \in Nat) /\ xml.name \in STRING
  BY <1>2, PolicyAssumption DEF StrategyConverts
<1>6. pcDefault' = IF mark \/ pcDefault = Marked THEN id ELSE pcDefault
  <2>1. pcDefault' = LET marker == IF mark THEN Marked ELSE pcDefault IN IF marker = Marked THEN id ELSE marker
    BY <1>1, Zenon DEF DefaultAfter
  <2> HIDE DEF mark, id
  <2> QED BY <1>3, <2>1
<1>7. new => xml.name \notin DOMAIN pcMap
  OBVIOUS
<1> HIDE DEF given, id, new, mark
<1>8. id \in Nat
  BY <1>2, <1>3, <1>4, <1>5
<1>9. r \in Strategies /\ r.name = xml.name /\ r.id = id /\ (r.given <=> given) /\ (r.default <=> mark)
  BY <1>3, <1>5, <1>8 DEF Strategies
<1> HIDE DEF r
<1>10. /\ pcNext' \in Nat /\ VendorStart <= pcNext' /\ pcMap' = [n \in DOMAIN pcMap' |-> pcMap'[n]]
       /\ \A n \in DOMAIN pcMap' : pcMap'[n] \in 0..(pcNext' - 1)
       /\ \A m, n \in DOMAIN pcMap' : pcMap'[m] = pcMap'[n] => m = n
       /\ \A n \in DOMAIN pcMap : n \in DOMAIN pcMap' /\ pcMap'[n] = pcMap[n]
       /\ ~given => xml.name \in DOMAIN pcMap' /\ id = pcMap'[xml.name]
  <2>1. CASE new
    <3>1. /\ pcMap' = [n \in DOMAIN pcMap \union {xml.name} |-> IF n = xml.name THEN pcNext ELSE pcMap[n]]
          /\ pcNext' = pcNext + 1
      BY <1>1, <2>1
    <3>2. /\ DOMAIN pcMap' = DOMAIN pcMap \union {xml.name} /\ pcMap'[xml.name] = pcNext
          /\ \A n \in DOMAIN pcMap : pcMap'[n] = pcMap[n]
      BY <1>7, <2>1, <3>1
    <3>3. pcMap' = [n \in DOMAIN pcMap' |-> pcMap'[n]]
      BY <3>1
    <3>4. \A n \in DOMAIN pcMap : pcMap[n] \in Nat /\ pcMap[n] < pcNext
      BY <1>2
    <3>5. \A n \in DOMAIN pcMap' : pcMap'[n] \in 0..(pcNext' - 1)
      BY <1>2, <3>1, <3>2, <3>4
    <3>6. \A m, n \in DOMAIN pcMap' : pcMap'[m] = pcMap'[n] => m = n
      BY <1>2, <3>2, <3>4
    <3> QED BY <1>2, <1>3, <1>4, <2>1, <3>1, <3>2, <3>3, <3>5, <3>6
  <2>2. CASE ~new
    BY <1>1, <1>2, <1>3, <1>4, <2>2
  <2> QED BY <2>1, <2>2
<1>11. /\ pcStrategies' \in Seq(Strategies) /\ Len(pcStrategies') = Len(pcStrategies) + 1
       /\ Len(pcStrategies) \in Nat /\ pcStrategies'[Len(pcStrategies) + 1] = r
       /\ \A i \in 1..Len(pcStrategies) : pcStrategies'[i] = pcStrategies[i]
  BY <1>1, <1>2, <1>9
<1>12. \A i \in 1..Len(pcStrategies') :
         ~pcStrategies'[i].given => /\ pcStrategies'[i].name \in DOMAIN pcMap'
                                    /\ pcStrategies'[i].id = pcMap'[pcStrategies'[i].name]
  <2> TAKE i \in 1..Len(pcStrategies')
  <2>1. CASE i = Len(pcStrategies) + 1
    BY <1>9, <1>10, <1>11, <2>1
  <2>2. CASE i # Len(pcStrategies) + 1
    <3>1. i \in 1..Len(pcStrategies) /\ pcStrategies'[i] = pcStrategies[i]
      BY <1>11, <2>2
    <3>2. ~pcStrategies[i].given => /\ pcStrategies[i].name \in DOMAIN pcMap
                                    /\ pcStrategies[i].id = pcMap[pcStrategies[i].name]
      BY <3>1 DEF StrategiesHaveIds
    <3> QED BY <1>10, <3>1, <3>2
  <2> QED BY <2>1, <2>2
<1>13. IdsOfDefaults(pcStrategies') = IF mark THEN IdsOfDefaults(pcStrategies) \union {id}
                                      ELSE IdsOfDefaults(pcStrategies)
  <2>1. ToSet(pcStrategies') = ToSet(pcStrategies) \union {r}
    <3>1. /\ DOMAIN pcStrategies = 1..Len(pcStrategies) /\ DOMAIN pcStrategies' = 1..Len(pcStrategies')
      BY <1>2, <1>11
    <3> QED BY <1>11, <3>1 DEF ToSet
  <2>2. {t \in ToSet(pcStrategies') : t.default} =
          IF mark THEN {t \in ToSet(pcStrategies) : t.default} \union {r} ELSE {t \in ToSet(pcStrategies) : t.default}
    BY <1>9, <2>1
  <2> QED BY <1>9, <2>2 DEF IdsOfDefaults
<1>14. IdsOfDefaults(pcStrategies) \subseteq Nat
  BY <1>2, IdsAreNumbers
<1>15. IF IdsOfDefaults(pcStrategies) = {} THEN pcDefault = NoDefault ELSE pcDefault \in IdsOfDefaults(pcStrategies)
  BY DEF StrategiesHaveIds
<1>16. pcDefault # Marked
  BY <1>14, <1>15 DEF Marked, NoDefault
<1>17. IF IdsOfDefaults(pcStrategies') = {} THEN pcDefault' = NoDefault
       ELSE pcDefault' \in IdsOfDefaults(pcStrategies')
  BY <1>6, <1>13, <1>15, <1>16
<1> QED BY <1>10, <1>11, <1>12, <1>17 DEF StrategiesHaveIds

LEMMA StrategiesGoOn ==
  ASSUME StrategiesHaveIds, [PolicyNext]_pcVars
  PROVE  StrategiesHaveIds'
<1>1. ASSUME UNCHANGED pcEngine PROVE StrategiesHaveIds'
  BY <1>1 DEF StrategiesHaveIds, pcEngine
<1>2. ASSUME NEW xml \in StrategyElements, ConvertStrategy(xml) PROVE StrategiesHaveIds'
  <2>1. CASE StrategyConverts(xml)
    BY <1>2, <2>1, StrategyConverted
  <2>2. CASE ~StrategyConverts(xml)
    BY <1>1, <1>2, <2>2, Zenon DEF ConvertStrategy
  <2> QED BY <2>1, <2>2
<1>3. ASSUME NEW xml \in ModuleElements, ConvertModule(xml) PROVE StrategiesHaveIds'
  BY <1>1, <1>3 DEF ConvertModule
<1>4. ASSUME NEW xml \in GroupElements, convertVolumeGroupToAidl(xml) PROVE StrategiesHaveIds'
  BY <1>1, <1>4 DEF convertVolumeGroupToAidl
<1>5. ASSUME NEW xml \in StreamVolumes, mapStreamToVolumeCurve(xml) PROVE StrategiesHaveIds'
  BY <1>1, <1>5 DEF mapStreamToVolumeCurve
<1>6. CASE EndSection \/ createModule \/ getEngineConfig \/ addVolumeGroupstoEngineConfig
  BY <1>1, <1>6 DEF EndSection, createModule, getEngineConfig, addVolumeGroupstoEngineConfig
<1>7. CASE UNCHANGED pcVars
  BY <1>1, <1>7 DEF pcVars
<1> QED BY <1>2, <1>3, <1>4, <1>5, <1>6, <1>7 DEF PolicyNext

LEMMA PolicyGoesOn == PolicyInv /\ [PolicyNext]_pcVars => PolicyInv'
BY ModulesGoOn, GroupsGoOn, StrategiesGoOn DEF PolicyInv

LEMMA PolicyBegins == PolicyInit => PolicyInv
<1> SUFFICES ASSUME PolicyInit PROVE PolicyInv
  OBVIOUS
<1>1. ModulesAreConverted /\ GroupsAreSingle
  BY PolicyAssumption DEF PolicyInit, ModulesAreConverted, GroupsAreSingle
<1>2. IdsOfDefaults(pcStrategies) = {}
  BY DEF PolicyInit, IdsOfDefaults, ToSet
<1>3. StrategiesHaveIds
  BY <1>2, PolicyAssumption DEF PolicyInit, StrategiesHaveIds, NoDefault
<1> QED BY <1>1, <1>3 DEF PolicyInv

LEMMA PolicyAgrees ==
  PolicyInv => /\ PolicyTypeOK /\ RoutesResolve /\ OneDefaultInput /\ StrategiesAreNamed
               /\ OneGroupPerStream /\ KnownModulesServed
<1> SUFFICES ASSUME PolicyInv
             PROVE  /\ PolicyTypeOK /\ RoutesResolve /\ OneDefaultInput /\ StrategiesAreNamed
                    /\ OneGroupPerStream /\ KnownModulesServed
  OBVIOUS
<1>1. /\ pcModules \in Seq(ConvertedModules) /\ DOMAIN pcModules = 1..Len(pcModules) /\ Len(pcModules) \in Nat
      /\ pcStrategies \in Seq(Strategies) /\ DOMAIN pcStrategies = 1..Len(pcStrategies)
      /\ DOMAIN pcGroups = 1..Len(pcGroups)
  BY DEF PolicyInv, ModulesAreConverted, StrategiesHaveIds, GroupsAreSingle
<1>2. \A m \in DOMAIN pcModules : Resolved(pcModules[m].xml, pcModules[m].config) /\ DefaultIsOne(pcModules[m].config)
  BY <1>1, ConvertedStand
<1>3. RoutesResolve
  BY <1>2, Zenon DEF Resolved, RoutesResolve
<1>4. OneDefaultInput
  BY <1>2, Zenon DEF DefaultIsOne, OneDefaultInput
<1>5. IF IdsOfDefaults(pcStrategies) = {} THEN pcDefault = NoDefault ELSE pcDefault \in IdsOfDefaults(pcStrategies)
  BY DEF PolicyInv, StrategiesHaveIds
<1>6. IdsOfDefaults(pcStrategies) \subseteq Nat
  BY <1>1, IdsAreNumbers
<1>7. PolicyTypeOK
  <2>1. pcDefault \in Int
    BY <1>5, <1>6 DEF NoDefault
  <2> QED BY <2>1 DEF PolicyInv, ModulesAreConverted, PolicyTypeOK
<1>8. StrategiesAreNamed
  <2>1. ASSUME NEW i \in DOMAIN pcStrategies, NEW j \in DOMAIN pcStrategies,
               ~pcStrategies[i].given, ~pcStrategies[j].given
        PROVE  pcStrategies[i].id = pcStrategies[j].id <=> pcStrategies[i].name = pcStrategies[j].name
    BY <1>1, <2>1 DEF PolicyInv, StrategiesHaveIds
  <2>2. IF IdsOfDefaults(pcStrategies) = {} THEN pcDefault = NoDefault ELSE pcDefault \in IdsOfDefaults(pcStrategies)
    BY <1>5
  <2> QED BY <2>1, <2>2, Zenon DEF StrategiesAreNamed, IdsOfDefaults
<1>9. OneGroupPerStream
  BY <1>1 DEF PolicyInv, GroupsAreSingle, OneGroupPerStream
<1>10. KnownModulesServed
  BY <1>1 DEF PolicyInv, ModulesAreConverted, KnownModulesServed
<1> QED BY <1>3, <1>4, <1>7, <1>8, <1>9, <1>10
----------------------------------------------------------------------------------
(* The service. The inductive invariants of the parts hold side by side.           *)
PartsInv ==
  /\ MixerInv /\ SwitcherInv /\ ProxiesInv
  /\ BundleInv /\ ReverbInv /\ DynamicsInv /\ CaptureInv /\ PastInv

LEMMA PartsStay == AudioSpec => []PartsInv
<1>1. Init => PartsInv
  BY MixerBegins, SwitcherBegins, ProxiesBegin, BundleBegins, ReverbBegins, DynamicsBegins, VisualizerBegins
  DEF Init, PartsInv
<1>2. PartsInv /\ [Next]_audioVars => PartsInv'
  <2> SUFFICES ASSUME PartsInv, [Next]_audioVars PROVE PartsInv'
    OBVIOUS
  <2>1. MixerInv /\ SwitcherInv /\ ProxiesInv /\ BundleInv /\ ReverbInv /\ DynamicsInv /\ CaptureInv /\ PastInv
    BY DEF PartsInv
  <2>2. /\ [UsbMixerNext]_umVars /\ [SwitcherNext]_swVars /\ [ProxiesNext]_bpVars
        /\ [BnNext]_bnVars /\ [RvNext]_rvVars /\ [DpNext]_dpVars /\ [VzNext]_vzVars
    BY Parts, PartsStutter
  <2>3. MixerInv' /\ SwitcherInv' /\ ProxiesInv'
    BY <2>1, <2>2, MixerGoesOn, SwitcherGoesOn, ProxiesGoOn
  <2>4. BundleInv' /\ ReverbInv' /\ DynamicsInv'
    BY <2>1, <2>2, BundleGoesOn, ReverbGoesOn, DynamicsGoesOn
  <2>5. CaptureInv' /\ PastInv'
    BY <2>1, <2>2, VisualizerGoesOn
  <2> QED BY <2>3, <2>4, <2>5 DEF PartsInv
<1> QED BY <1>1, <1>2, PTL DEF AudioSpec

(* No frame of an effect is held back or out of place, for every size of a block,   *)
(* a ring or a burst: the block converter keeps less than one advance of a block    *)
(* (DynamicsProcessing.cpp, DPFrequency.cpp), a burst of an enabled bundle effect   *)
(* reaches the library (BundleContext.cpp), and the visualizer shows what was        *)
(* played, in order and once (VisualizerContext.cpp).                               *)
THEOREM NoFrameIsLostEver == AudioSpec => []NoFrameIsLost
<1>1. PartsInv => NoFrameIsLost
  <2> SUFFICES ASSUME PartsInv PROVE NoFrameIsLost
    OBVIOUS
  <2>1. LatencyBounded
    BY DEF PartsInv, DynamicsInv, FillOK, Advance, LatencyBounded
  <2>2. BurstReachesLibrary
    BY BundleKeepsWord DEF PartsInv
  <2>3. CaptureIsInOrder /\ MeasuresAreRecent
    BY CaptureFollows, MeasuresFollow DEF PartsInv
  <2> QED BY <2>1, <2>2, <2>3 DEF NoFrameIsLost
<1> QED BY <1>1, PartsStay, PTL

(* What a client has set with success is what the library works with, for all      *)
(* tables, presets, architectures and levels (ReverbContext.cpp, BundleContext.cpp, *)
(* DynamicsProcessingContext.cpp).                                                  *)
THEOREM ParametersStayApplied == AudioSpec => []ParametersAreApplied
<1>1. PartsInv => ParametersAreApplied
  BY ReverbFollows, DynamicsStores, BundleKeepsWord DEF PartsInv, ParametersAreApplied
<1> QED BY <1>1, PartsStay, PTL

(* What was asked for holds for what serves it now: the inner stream keeps the      *)
(* effects (StreamSwitcher.cpp), a profile that was switched off is silent          *)
(* (ModuleBluetooth.cpp), a burst is shaped with the parameters last set: the       *)
(* buffer of a channel holds, next to the factors, what they were made with, so     *)
(* that a change is seen however long the stage was off (dsp/DPFrequency.cpp); and   *)
(* the chains of effects stay as the file gave them (EffectConfig.cpp).             *)
THEOREM RequestsStayFollowed == AudioSpec => RequestsAreFollowed
<1>1. PartsInv => SwitcherKeepsRequests
  BY DEF PartsInv, SwitcherInv
<1>2. PartsInv => [ShapesBurst]_dpVars
  BY DynamicsAreShaped DEF PartsInv
<1>3. PartsInv /\ [Next]_audioVars => [Silenced]_bpVars
  BY Parts, PartsStutter, ProxiesAreSilent DEF PartsInv
<1>4. [Next]_audioVars => [\A t \in DOMAIN cfChains : t \in DOMAIN cfChains' /\ cfChains'[t] = cfChains[t]]_cfVars
  BY Parts, PartsStutter, ChainsGoOn
<1> QED BY <1>1, <1>2, <1>3, <1>4, PartsStay, PTL
        DEF AudioSpec, RequestsAreFollowed, BurstIsShaped, SwitchedOffIsSilent, ChainsStay

(* What streams share follows them: a submix route counts its inputs and goes with  *)
(* its last stream, however many streams, addresses and routes there are            *)
(* (r_submix/SubmixRoute.cpp), and a Bluetooth port is in the hands of one stream    *)
(* (bluetooth/ModuleBluetooth.cpp). As in the run, a connected submix stream is not  *)
(* connected again, and a device's port is not configured anew while it plays.       *)
THEOREM SharedStaysWithStreams ==
  ~Reconnects /\ ~ConfiguresInUse /\ AudioSpec => []SharedFollowsStreams
<1> SUFFICES ASSUME ~Reconnects /\ ~ConfiguresInUse PROVE AudioSpec => []SharedFollowsStreams
  OBVIOUS
<1>1. Init => SubmixInv
  BY SubmixBegins DEF Init
<1>2. SubmixInv /\ [Next]_audioVars => SubmixInv'
  BY Parts, PartsStutter, SubmixGoesOn
<1>3. PartsInv /\ SubmixInv => SharedFollowsStreams
  BY SubmixFollows, ProxiesAreTyped
  DEF PartsInv, ProxiesInv, OneOwner, TablesOK, PortsAreGivenBack, SharedFollowsStreams
<1> QED BY <1>1, <1>2, <1>3, PartsStay, PTL DEF AudioSpec

(* The tables agree, for every configuration and every policy file: what the module *)
(* has of ports, configs, patches and streams refers to what is there (Module.cpp),  *)
(* and what is made of a policy file means what the file says (XsdcConversion.cpp,   *)
(* EngineConfigXmlConverter.cpp, AudioPolicyConfigXmlConverter.cpp). As in the run,  *)
(* a stream that is asked to follow a patch does.                                   *)
THEOREM TablesStayAgreed == ~StreamsMayFail /\ AudioSpec => []TablesAgree
<1> SUFFICES ASSUME ~StreamsMayFail PROVE AudioSpec => []TablesAgree
  OBVIOUS
<1>1. Init => ModuleInv /\ PolicyInv
  BY ModuleBegins, PolicyBegins DEF Init
<1>2. ModuleInv /\ PolicyInv /\ [Next]_audioVars => (ModuleInv /\ PolicyInv)'
  BY Parts, PartsStutter, ModuleGoesOn, PolicyGoesOn
<1>3. ModuleInv /\ PolicyInv => TablesAgree
  BY ModuleAgrees, PolicyAgrees DEF TablesAgree
<1> QED BY <1>1, <1>2, <1>3, PTL DEF AudioSpec

(* A card that was plugged in serves: whatever the rates, formats and channels of    *)
(* the device, a configuration of the profile that was read opens it                *)
(* (alsa_device_profile.c, alsa_device_proxy.c), and its mixer has the master volume *)
(* and mute of all cards (UsbAlsaMixerControl.cpp). As in the run, a device takes    *)
(* some count of channels that is not above FCC_LIMIT.                              *)
THEOREM CardsStayServed == ~WideDevices /\ AudioSpec => []CardsAreServed
<1> SUFFICES ASSUME ~WideDevices PROVE AudioSpec => []CardsAreServed
  OBVIOUS
<1>1. Init => AlsaInv
  BY AlsaBegins DEF Init
<1>2. AlsaInv /\ [Next]_audioVars => AlsaInv'
  BY Parts, PartsStutter, AlsaGoesOn
<1>3. AlsaInv /\ PartsInv => CardsAreServed
  BY DEF AlsaInv, PartsInv, MixerInv, CardsAreServed
<1> QED BY <1>1, <1>2, <1>3, PartsStay, PTL DEF AudioSpec

----------------------------------------------------------------------------------
(* The clips of an MP3 file: arithmetic of quotients, what a file consists of, what *)
(* a part of it and the clips last, then the invariant and a lemma for each step.   *)

LEMMA QuotientIs ==
  ASSUME NEW x \in Nat, NEW l \in Nat \ {0}
  PROVE  (x \div l) \in Nat /\ l * (x \div l) <= x /\ x < l * (x \div l) + l
<1>1. (x \div l) \in Nat
  BY Z3
<1>2. l * (x \div l) <= x
  BY Z3
<1>3. x < l * (x \div l) + l
  BY Z3
<1> QED
  BY <1>1, <1>2, <1>3

LEMMA MultiplesFollowOrder ==
  ASSUME NEW l \in Nat \ {0}, NEW a \in Nat, NEW b \in Nat, l * a < l * b + l
  PROVE  a <= b
<1>1. SUFFICES ASSUME b + 1 <= a PROVE FALSE
  OBVIOUS
<1>2. PICK c \in Nat : a = b + 1 + c
  <2>1. a - (b + 1) \in Nat /\ a = b + 1 + (a - (b + 1))
    BY <1>1
  <2> QED
    BY <2>1
<1>3. l * a = l * b + l + l * c
  BY <1>2, Z3
<1>4. l * c \in Nat /\ l * b \in Nat
  BY Z3
<1> QED
  BY <1>3, <1>4

LEMMA QuotientsAdd ==
  ASSUME NEW x \in Nat, NEW y \in Nat, NEW l \in Nat \ {0}
  PROVE  (x \div l) + (y \div l) <= (x + y) \div l
<1> DEFINE a == x \div l
           b == y \div l
           c == (x + y) \div l
<1>1. a \in Nat /\ l * a <= x
  BY QuotientIs
<1>2. b \in Nat /\ l * b <= y
  BY QuotientIs
<1>3. c \in Nat /\ x + y < l * c + l
  <2>1. x + y \in Nat
    OBVIOUS
  <2> QED
    BY <2>1, QuotientIs
<1> HIDE DEF a, b, c
<1>4. l * (a + b) = l * a + l * b
  BY <1>1, <1>2, Z3
<1>5. l * (a + b) < l * c + l
  <2>1. l * a \in Nat /\ l * b \in Nat /\ l * c \in Nat
    BY <1>1, <1>2, <1>3, Z3
  <2> QED
    BY <1>1, <1>2, <1>3, <1>4, <2>1
<1>6. a + b \in Nat
  BY <1>1, <1>2
<1>7. a + b <= c
  BY <1>3, <1>5, <1>6, MultiplesFollowOrder
<1> QED
  BY <1>7 DEF a, b, c

LEMMA QuotientOfMultiple ==
  ASSUME NEW n \in Nat, NEW l \in Nat \ {0}
  PROVE  (n * l) \div l = n
<1> DEFINE q == (n * l) \div l
<1>1. n * l \in Nat /\ n * l = l * n
  BY Z3
<1>2. q \in Nat /\ l * q <= n * l /\ n * l < l * q + l
  BY <1>1, QuotientIs
<1> HIDE DEF q
<1>3. l * q \in Nat
  BY <1>2, Z3
<1>4. l * q < l * n + l /\ l * n < l * q + l
  BY <1>1, <1>2, <1>3
<1>5. q <= n /\ n <= q
  BY <1>2, <1>4, MultiplesFollowOrder
<1>6. q = n
  BY <1>2, <1>5
<1> QED
  BY <1>6 DEF q

\* The parts of a frame do not last longer than the frame.
LEMMA SamplesAdd ==
  ASSUME NEW a \in Nat, NEW b \in Nat, NEW l \in Nat \ {0}
  PROVE  /\ SamplesOf(a, l) \in Nat /\ SamplesOf(0, l) = 0 /\ SamplesOf(l, l) = FrameSamples
         /\ SamplesOf(a, l) + SamplesOf(b, l) <= SamplesOf(a + b, l)
<1>1. FrameSamples \in Nat
  BY FilesAssumption
<1>2. FrameSamples * a \in Nat /\ FrameSamples * b \in Nat /\ FrameSamples * 0 = 0
  BY <1>1, Z3
<1>3. FrameSamples * (a + b) = FrameSamples * a + FrameSamples * b
  BY <1>1, Z3
<1>4. SamplesOf(a, l) \in Nat
  BY <1>2, QuotientIs DEF SamplesOf
<1>5. SamplesOf(0, l) = 0
  <2>1. 0 \div l = 0
    <3>1. (0 * l) \div l = 0
      BY QuotientOfMultiple
    <3>2. 0 * l = 0
      BY Z3
    <3> QED
      BY <3>1, <3>2
  <2> QED
    BY <1>2, <2>1 DEF SamplesOf
<1>6. SamplesOf(l, l) = FrameSamples
  BY <1>1, QuotientOfMultiple DEF SamplesOf
<1>7. SamplesOf(a, l) + SamplesOf(b, l) <= SamplesOf(a + b, l)
  BY <1>2, <1>3, QuotientsAdd DEF SamplesOf
<1> QED
  BY <1>4, <1>5, <1>6, <1>7

LEMMA HeaderSizes ==
  /\ TagHeader \in Nat \ {0} /\ TagIdentifier \in Nat \ {0} /\ FrameHeader \in Nat \ {0}
  /\ TagIdentifier <= FrameHeader
  /\ FrameSamples \in Nat /\ \A size \in BurstSizes : size \in Nat \ {0}
BY FilesAssumption

LEMMA ItemsOfFile ==
  ASSUME mgFile \in Files
  PROVE  /\ IsFiniteSet(mgFile)
         /\ \A i \in mgFile : /\ i.kind \in {"id3v2", "id3v1", "frame"} /\ i.start \in Nat
                              /\ i.length \in Nat \ {0} /\ StopOf(i) \in Nat /\ i.start < StopOf(i)
                              /\ MinLength(i.kind) <= i.length
         /\ \A i, j \in mgFile : i = j \/ StopOf(i) <= j.start \/ StopOf(j) <= i.start
         /\ \A i \in mgFile : \/ i.kind # "id3v2" /\ EndsFile(i, mgFile)
                              \/ \E j \in mgFile : MayFollow(i, j)
         /\ (\E i \in mgFile : i.start = 0) /\ (\E i \in mgFile : EndsFile(i, mgFile))
<1>1. /\ IsFiniteSet(mgFile)
      /\ mgFile \subseteq [kind : {"id3v2", "id3v1", "frame"}, start : Nat, length : Nat]
      /\ \A i \in mgFile : MinLength(i.kind) <= i.length
      /\ \A i, j \in mgFile : i = j \/ StopOf(i) <= j.start \/ StopOf(j) <= i.start
      /\ \A i \in mgFile : \/ i.kind # "id3v2" /\ EndsFile(i, mgFile)
                           \/ \E j \in mgFile : MayFollow(i, j)
      /\ (\E i \in mgFile : i.start = 0) /\ (\E i \in mgFile : EndsFile(i, mgFile))
  BY FilesAssumption, Zenon
<1>2. ASSUME NEW i \in mgFile
      PROVE  /\ i.kind \in {"id3v2", "id3v1", "frame"} /\ i.start \in Nat
             /\ i.length \in Nat \ {0} /\ StopOf(i) \in Nat /\ i.start < StopOf(i)
  <2>1. i.kind \in {"id3v2", "id3v1", "frame"} /\ i.start \in Nat /\ i.length \in Nat
    BY <1>1
  <2>2. MinLength(i.kind) \in Nat \ {0}
    BY <2>1, HeaderSizes DEF MinLength
  <2>3. MinLength(i.kind) <= i.length
    BY <1>1
  <2> QED
    BY <2>1, <2>2, <2>3 DEF StopOf
<1> QED
  BY <1>1, <1>2, Zenon

LEMMA LengthsOfItems ==
  ASSUME mgFile \in Files, NEW i \in mgFile
  PROVE  /\ i.kind = "id3v2" => i.start + TagHeader <= StopOf(i)
         /\ i.kind = "id3v1" => i.start + TagIdentifier <= StopOf(i)
         /\ i.kind = "frame" => i.start + FrameHeader <= StopOf(i)
BY ItemsOfFile, HeaderSizes DEF MinLength, StopOf

LEMMA OneItemThere ==
  ASSUME mgFile \in Files, NEW i \in mgFile, NEW j \in mgFile, i.start = j.start
  PROVE  i = j
BY ItemsOfFile

\* The end of the file is where its last item ends.
LEMMA EndOfFile ==
  ASSUME mgFile \in Files
  PROVE  /\ FileEnd \in Nat
         /\ \A i \in mgFile : StopOf(i) <= FileEnd
         /\ \A i \in mgFile : EndsFile(i, mgFile) <=> StopOf(i) = FileEnd
<1> DEFINE stops == {StopOf(i) : i \in mgFile}
           IsEnd(e) == \A i \in mgFile : StopOf(i) <= e
<1>1. PICK last \in mgFile : EndsFile(last, mgFile)
  BY ItemsOfFile
<1>2. \E e \in stops : IsEnd(e)
  BY <1>1 DEF EndsFile
<1>3. FileEnd \in stops /\ IsEnd(FileEnd)
  <2>1. FileEnd = CHOOSE e \in stops : IsEnd(e)
    BY DEF FileEnd
  <2> HIDE DEF stops, IsEnd
  <2> QED
    BY <1>2, <2>1, Zenon
<1>4. PICK end \in mgFile : FileEnd = StopOf(end)
  BY <1>3
<1>5. FileEnd \in Nat
  BY <1>4, ItemsOfFile
<1>6. ASSUME NEW i \in mgFile PROVE EndsFile(i, mgFile) <=> StopOf(i) = FileEnd
  <2>1. StopOf(i) <= FileEnd /\ StopOf(i) \in Nat
    BY <1>3, ItemsOfFile
  <2>2. EndsFile(i, mgFile) => StopOf(i) = FileEnd
    <3>1. ASSUME EndsFile(i, mgFile) PROVE FileEnd <= StopOf(i)
      BY <3>1, <1>4 DEF EndsFile
    <3> QED
      BY <3>1, <2>1, <1>5
  <2>3. StopOf(i) = FileEnd => EndsFile(i, mgFile)
    BY <1>3 DEF EndsFile
  <2> QED
    BY <2>2, <2>3
<1> QED
  BY <1>3, <1>5, <1>6

\* Byte p is the first of an item or the end of the file.
AtItem(p) == p = FileEnd \/ \E i \in mgFile : i.start = p

LEMMA ItemsAdjoin ==
  ASSUME mgFile \in Files, NEW i \in mgFile
  PROVE  AtItem(StopOf(i))
<1>1. CASE EndsFile(i, mgFile)
  BY <1>1, EndOfFile DEF AtItem
<1>2. CASE \E j \in mgFile : MayFollow(i, j)
  BY <1>2 DEF AtItem, MayFollow
<1> QED
  BY <1>1, <1>2, ItemsOfFile

----------------------------------------------------------------------------------
\* What the file lasts up to byte p.
LastsTo(p) == FrameSamples * Cardinality(TakenFrames(p)) + PartOfCut(p)

LEMMA TakenGrow ==
  ASSUME mgFile \in Files, NEW p \in Nat, NEW q \in Nat, p <= q
  PROVE  /\ IsFiniteSet(TakenFrames(q)) /\ TakenFrames(p) \subseteq TakenFrames(q)
         /\ Cardinality(TakenFrames(p)) \in Nat /\ Cardinality(TakenFrames(q)) \in Nat
         /\ Cardinality(TakenFrames(p)) <= Cardinality(TakenFrames(q))
<1>1. TakenFrames(q) \subseteq mgFile /\ TakenFrames(p) \subseteq mgFile
  BY DEF TakenFrames, Frames
<1>2. IsFiniteSet(TakenFrames(q)) /\ IsFiniteSet(TakenFrames(p))
  BY <1>1, ItemsOfFile, FS_Subset
<1>3. TakenFrames(p) \subseteq TakenFrames(q)
  BY ItemsOfFile DEF TakenFrames, Frames
<1>4. Cardinality(TakenFrames(p)) <= Cardinality(TakenFrames(q))
  BY <1>2, <1>3, FS_Subset
<1>5. Cardinality(TakenFrames(p)) \in Nat /\ Cardinality(TakenFrames(q)) \in Nat
  BY <1>2, FS_CardinalityType
<1> QED
  BY <1>2, <1>3, <1>4, <1>5

\* At most one frame is cut at a byte.
LEMMA CutIsOne ==
  ASSUME mgFile \in Files, NEW p \in Nat, NEW f \in CutFrames(p)
  PROVE  /\ CutFrames(p) = {f} /\ f \in mgFile /\ f.kind = "frame" /\ p - f.start \in Nat
         /\ PartOfCut(p) = SamplesOf(p - f.start, f.length) /\ PartOfCut(p) \in Nat
<1>1. f \in mgFile /\ f.kind = "frame" /\ f.start < p /\ p < StopOf(f)
  BY DEF CutFrames, Frames
<1>2. CutFrames(p) = {f}
  <2>1. ASSUME NEW g \in CutFrames(p) PROVE g = f
    <3>1. g \in mgFile /\ g.start < p /\ p < StopOf(g)
      BY DEF CutFrames, Frames
    <3> QED
      BY <1>1, <3>1, ItemsOfFile
  <2> QED
    BY <2>1
<1>3. p - f.start \in Nat /\ f.length \in Nat \ {0}
  BY <1>1, ItemsOfFile
<1>4. PartOfCut(p) = SamplesOf(p - f.start, f.length)
  <2>1. (CHOOSE g \in {f} : TRUE) = f
    BY Zenon
  <2> QED
    BY <1>2, <2>1, Zenon DEF PartOfCut
<1>5. PartOfCut(p) \in Nat
  BY <1>3, <1>4, SamplesAdd
<1> QED
  BY <1>1, <1>2, <1>3, <1>4, <1>5

LEMMA PartIsNat ==
  ASSUME mgFile \in Files, NEW p \in Nat
  PROVE  PartOfCut(p) \in Nat /\ (CutFrames(p) = {} => PartOfCut(p) = 0)
<1>1. CASE CutFrames(p) = {}
  BY <1>1 DEF PartOfCut
<1>2. CASE \E f \in CutFrames(p) : TRUE
  BY <1>2, CutIsOne
<1> QED
  BY <1>1, <1>2

LEMMA LastsIsNat ==
  ASSUME mgFile \in Files, NEW p \in Nat
  PROVE  LastsTo(p) \in Nat
<1>1. Cardinality(TakenFrames(p)) \in Nat /\ PartOfCut(p) \in Nat /\ FrameSamples \in Nat
  BY TakenGrow, PartIsNat, HeaderSizes
<1> QED
  BY <1>1 DEF LastsTo

\* It grows with p where no frame is cut ...
LEMMA LastsLonger ==
  ASSUME mgFile \in Files, NEW p \in Nat, NEW q \in Nat, p <= q, CutFrames(p) = {}
  PROVE  LastsTo(p) <= LastsTo(q)
<1>1. /\ Cardinality(TakenFrames(p)) \in Nat /\ Cardinality(TakenFrames(q)) \in Nat
      /\ Cardinality(TakenFrames(p)) <= Cardinality(TakenFrames(q))
  BY TakenGrow
<1>2. PartOfCut(p) = 0 /\ PartOfCut(q) \in Nat
  BY PartIsNat
<1>3. FrameSamples \in Nat
  BY HeaderSizes
<1>4. \A m, n, s \in Nat : m <= n => s * m <= s * n /\ s * m \in Nat /\ s * n \in Nat
  <2> SUFFICES ASSUME NEW m \in Nat, NEW n \in Nat, NEW s \in Nat, m <= n
               PROVE  s * m <= s * n /\ s * m \in Nat /\ s * n \in Nat
    OBVIOUS
  <2>1. PICK d \in Nat : n = m + d
    <3>1. n - m \in Nat /\ n = m + (n - m)
      OBVIOUS
    <3> QED
      BY <3>1
  <2>2. s * n = s * m + s * d /\ s * m \in Nat /\ s * d \in Nat
    BY <2>1, Z3
  <2> QED
    BY <2>2
<1> DEFINE m == Cardinality(TakenFrames(p))
           n == Cardinality(TakenFrames(q))
<1>5. FrameSamples * m <= FrameSamples * n /\ FrameSamples * m \in Nat /\ FrameSamples * n \in Nat
  BY <1>1, <1>3, <1>4
<1>6. LastsTo(p) = FrameSamples * m + PartOfCut(p) /\ LastsTo(q) = FrameSamples * n + PartOfCut(q)
  BY DEF LastsTo
<1> HIDE DEF m, n
<1> QED
  BY <1>2, <1>5, <1>6

\* ... and inside a frame by what the bytes taken of it last, at least.
LEMMA LastsOfFrame ==
  ASSUME mgFile \in Files, NEW f \in mgFile, f.kind = "frame", NEW p \in Nat, NEW q \in Nat,
         f.start <= p, p < q, q <= StopOf(f)
  PROVE  SamplesOf(q - p, f.length) \in Nat /\ LastsTo(p) + SamplesOf(q - p, f.length) <= LastsTo(q)
<1> DEFINE l == f.length
           a == p - f.start
           b == q - p
           m == Cardinality(TakenFrames(p))
           n == Cardinality(TakenFrames(q))
<1>1. f.start \in Nat /\ l \in Nat \ {0} /\ StopOf(f) = f.start + l
  BY ItemsOfFile DEF StopOf
<1>2. a \in Nat /\ b \in Nat /\ a + b = q - f.start /\ a < l /\ a + b <= l
  BY <1>1
<1>3. /\ SamplesOf(a, l) \in Nat /\ SamplesOf(b, l) \in Nat /\ SamplesOf(0, l) = 0
      /\ SamplesOf(l, l) = FrameSamples
      /\ SamplesOf(a, l) + SamplesOf(b, l) <= SamplesOf(a + b, l)
  <2> HIDE DEF a, b, l
  <2> QED
    BY <1>1, <1>2, SamplesAdd
<1>4. PartOfCut(p) = SamplesOf(a, l)
  <2>1. CASE f.start < p
    <3>1. f \in CutFrames(p)
      BY <2>1, <1>1 DEF CutFrames, Frames
    <3> QED
      BY <3>1, CutIsOne
  <2>2. CASE f.start = p
    <3>1. CutFrames(p) = {}
      BY <2>2, <1>1, ItemsOfFile DEF CutFrames, Frames
    <3>2. a = 0
      BY <2>2
    <3> QED
      BY <3>1, <3>2, <1>3, PartIsNat
  <2> QED
    BY <2>1, <2>2, <1>1
<1>5. FrameSamples \in Nat /\ m \in Nat /\ n \in Nat /\ m <= n
  BY HeaderSizes, TakenGrow
<1>6. LastsTo(p) = FrameSamples * m + PartOfCut(p) /\ LastsTo(q) = FrameSamples * n + PartOfCut(q)
  BY DEF LastsTo
<1>7. \A x, y, s \in Nat : /\ x <= y => s * x <= s * y
                           /\ s * (x + 1) = s * x + s /\ s * x \in Nat /\ s * y \in Nat
  <2> SUFFICES ASSUME NEW x \in Nat, NEW y \in Nat, NEW s \in Nat
               PROVE  /\ x <= y => s * x <= s * y
                      /\ s * (x + 1) = s * x + s /\ s * x \in Nat /\ s * y \in Nat
    OBVIOUS
  <2>1. s * (x + 1) = s * x + s /\ s * x \in Nat /\ s * y \in Nat
    BY Z3
  <2>2. ASSUME x <= y PROVE s * x <= s * y
    <3>1. PICK d \in Nat : y = x + d
      <4>1. y - x \in Nat /\ y = x + (y - x)
        BY <2>2
      <4> QED
        BY <4>1
    <3>2. s * y = s * x + s * d /\ s * d \in Nat
      BY <3>1, Z3
    <3> QED
      BY <2>1, <3>2
  <2> QED
    BY <2>1, <2>2
<1>8. CASE q < StopOf(f)
  <2>1. f \in CutFrames(q)
    BY <1>8, <1>1 DEF CutFrames, Frames
  <2>2. PartOfCut(q) = SamplesOf(a + b, l) /\ PartOfCut(q) \in Nat
    BY <2>1, <1>2, CutIsOne
  <2>3. FrameSamples * m <= FrameSamples * n /\ FrameSamples * m \in Nat /\ FrameSamples * n \in Nat
    BY <1>5, <1>7
  <2> HIDE DEF a, b, l, m, n
  <2>4. LastsTo(p) + SamplesOf(b, l) <= LastsTo(q)
    BY <1>3, <1>4, <1>6, <2>2, <2>3
  <2> QED
    BY <1>3, <2>4 DEF b, l
<1>9. CASE q = StopOf(f)
  <2>1. q - f.start = l /\ a + b = l
    BY <1>9, <1>1, <1>2
  <2>2. CutFrames(q) = {}
    BY <1>9, <1>1, ItemsOfFile DEF CutFrames, Frames
  <2>3. PartOfCut(q) = 0
    BY <2>2, PartIsNat
  <2>4. f \in TakenFrames(q) /\ f \notin TakenFrames(p)
    BY <1>9, <1>1 DEF TakenFrames, Frames
  <2>5. /\ IsFiniteSet(TakenFrames(q)) /\ TakenFrames(p) \subseteq TakenFrames(q)
        /\ IsFiniteSet(TakenFrames(p))
    BY TakenGrow, FS_Subset
  <2>6. m + 1 <= n
    <3>1. Cardinality(TakenFrames(p) \cup {f}) = m + 1
      BY <2>4, <2>5, FS_AddElement
    <3>2. TakenFrames(p) \cup {f} \subseteq TakenFrames(q)
      BY <2>4, <2>5
    <3>3. Cardinality(TakenFrames(p) \cup {f}) <= n
      BY <2>5, <3>2, FS_Subset
    <3> QED
      BY <3>1, <3>3
  <2>7. /\ FrameSamples * (m + 1) <= FrameSamples * n /\ FrameSamples * (m + 1) = FrameSamples * m + FrameSamples
        /\ FrameSamples * m \in Nat /\ FrameSamples * n \in Nat
    <3> HIDE DEF m, n
    <3>1. m + 1 \in Nat
      BY <1>5
    <3> QED
      BY <1>5, <1>7, <2>6, <3>1
  <2>8. SamplesOf(a, l) + SamplesOf(b, l) <= FrameSamples
    <3> HIDE DEF a, b, l
    <3> QED
      BY <1>3, <2>1
  <2> HIDE DEF a, b, l, m, n
  <2>9. LastsTo(p) + SamplesOf(b, l) <= LastsTo(q)
    BY <1>3, <1>4, <1>5, <1>6, <2>3, <2>7, <2>8
  <2> QED
    BY <1>3, <2>9 DEF b, l
<1> QED
  BY <1>1, <1>8, <1>9

----------------------------------------------------------------------------------
\* What the clips last.

ClipsOK(clips) == clips \in Seq(Nat) /\ IsFiniteSet(ClipFrames(clips))

LEMMA BeganClipLastsNothing ==
  ASSUME NEW clips, ClipsOK(clips)
  PROVE  ClipFrames(Append(clips, 0)) = ClipFrames(clips) /\ ClipsOK(Append(clips, 0))
<1> DEFINE longer == Append(clips, 0)
<1>1. clips \in Seq(Nat)
  BY DEF ClipsOK
<1>2. /\ longer \in Seq(Nat) /\ DOMAIN clips = 1..Len(clips) /\ DOMAIN longer = 1..(Len(clips) + 1)
      /\ \A k \in 1..Len(clips) : longer[k] = clips[k] /\ clips[k] \in Nat
      /\ longer[Len(clips) + 1] = 0 /\ Len(clips) \in Nat
  BY <1>1
<1>3. ASSUME NEW x \in ClipFrames(longer) PROVE x \in ClipFrames(clips)
  <2>1. PICK k \in DOMAIN longer : x \in {k} \X (1..longer[k])
    BY DEF ClipFrames
  <2>2. k # Len(clips) + 1
    BY <1>2, <2>1
  <2>3. k \in DOMAIN clips /\ longer[k] = clips[k]
    BY <1>2, <2>1, <2>2
  <2> QED
    BY <2>1, <2>3 DEF ClipFrames
<1>4. ASSUME NEW x \in ClipFrames(clips) PROVE x \in ClipFrames(longer)
  <2>1. PICK k \in DOMAIN clips : x \in {k} \X (1..clips[k])
    BY DEF ClipFrames
  <2>2. k \in DOMAIN longer /\ longer[k] = clips[k]
    BY <1>2, <2>1
  <2> QED
    BY <2>1, <2>2 DEF ClipFrames
<1>5. ClipFrames(longer) = ClipFrames(clips)
  BY <1>3, <1>4
<1> QED
  BY <1>2, <1>5 DEF ClipsOK

LEMMA LongerClip ==
  ASSUME NEW clips, ClipsOK(clips), NEW n \in Nat
  PROVE  /\ ClipsOK(LastLengthened(clips, n))
         /\ Cardinality(ClipFrames(clips)) \in Nat
         /\ Cardinality(ClipFrames(LastLengthened(clips, n))) <= Cardinality(ClipFrames(clips)) + n
<1> DEFINE longer == LastLengthened(clips, n)
           last == Len(clips)
           more == {last} \X ((clips[last] + 1)..(clips[last] + n))
<1>1. clips \in Seq(Nat) /\ IsFiniteSet(ClipFrames(clips)) /\ Cardinality(ClipFrames(clips)) \in Nat
  BY FS_CardinalityType DEF ClipsOK
<1>2. CASE clips = <<>>
  <2>1. longer = clips
    BY <1>2 DEF LastLengthened
  <2> QED
    BY <1>1, <2>1
<1>3. CASE clips # <<>>
  <2>1. longer = [clips EXCEPT ![last] = @ + n]
    BY <1>3 DEF LastLengthened
  <2>2. last \in 1..last /\ last \in Nat /\ DOMAIN clips = 1..last /\ \A k \in 1..last : clips[k] \in Nat
    BY <1>1, <1>3
  <2>3. /\ DOMAIN longer = 1..last /\ longer[last] = clips[last] + n
        /\ \A k \in 1..last : k # last => longer[k] = clips[k]
    BY <2>1, <2>2
  <2>4. longer \in Seq(Nat)
    <3> HIDE DEF longer, last
    <3>1. clips \in [1..last -> Nat]
      BY <1>1, <2>2
    <3>2. clips[last] + n \in Nat
      BY <2>2
    <3>3. longer \in [1..last -> Nat]
      BY <2>1, <3>1, <3>2
    <3> QED
      BY <2>2, <3>3 DEF Seq
  <2>5. IsFiniteSet(more) /\ Cardinality(more) = n
    <3> DEFINE c == clips[last]
    <3>1. c \in Nat
      BY <2>2
    <3> HIDE DEF c
    <3>2. IsFiniteSet((c + 1)..(c + n)) /\ Cardinality((c + 1)..(c + n)) = n
      <4>1. c + 1 \in Int /\ c + n \in Int
        BY <3>1
      <4>2. /\ IsFiniteSet((c + 1)..(c + n))
            /\ Cardinality((c + 1)..(c + n)) = IF c + 1 > c + n THEN 0 ELSE (c + n) - (c + 1) + 1
        BY <4>1, FS_Interval
      <4> QED
        BY <3>1, <4>2
    <3>3. IsFiniteSet({last}) /\ Cardinality({last}) = 1
      BY FS_Singleton
    <3>4. /\ IsFiniteSet({last} \X ((c + 1)..(c + n)))
          /\ Cardinality({last} \X ((c + 1)..(c + n))) = 1 * n
      <4>1. /\ IsFiniteSet({last} \X ((c + 1)..(c + n)))
            /\ Cardinality({last} \X ((c + 1)..(c + n))) = Cardinality({last}) * Cardinality((c + 1)..(c + n))
        BY <3>2, <3>3, FS_Product, Zenon
      <4> QED
        BY <4>1, <3>2, <3>3, Zenon
    <3>5. 1 * n = n
      OBVIOUS
    <3>6. more = {last} \X ((c + 1)..(c + n))
      BY Zenon DEF c
    <3> HIDE DEF more
    <3> QED
      BY <3>4, <3>5, <3>6, Zenon
  <2>6. ClipFrames(longer) \subseteq ClipFrames(clips) \cup more
    <3>1. ASSUME NEW x \in ClipFrames(longer) PROVE x \in ClipFrames(clips) \cup more
      <4>1. PICK k \in DOMAIN longer : x \in {k} \X (1..longer[k])
        BY DEF ClipFrames
      <4>2. PICK d \in 1..longer[k] : x = <<k, d>>
        BY <4>1
      <4>3. CASE k # last
        <5>1. k \in DOMAIN clips /\ longer[k] = clips[k]
          BY <2>2, <2>3, <4>1, <4>3
        <5> QED
          BY <4>1, <5>1 DEF ClipFrames
      <4>4. CASE k = last
        <5> HIDE DEF longer, last
        <5>1. clips[last] \in Nat /\ d \in 1..(clips[last] + n) /\ last \in DOMAIN clips
          BY <2>2, <2>3, <4>2, <4>4
        <5>2. d \in 1..clips[last] \/ d \in (clips[last] + 1)..(clips[last] + n)
          BY <5>1
        <5>3. CASE d \in 1..clips[last]
          BY <4>2, <4>4, <5>1, <5>3 DEF ClipFrames
        <5>4. CASE d \in (clips[last] + 1)..(clips[last] + n)
          BY <4>2, <4>4, <5>4
        <5> QED
          BY <5>2, <5>3, <5>4
      <4> QED
        BY <4>3, <4>4
    <3> QED
      BY <3>1
  <2> HIDE DEF longer, more
  <2>7. /\ IsFiniteSet(ClipFrames(clips) \cup more)
        /\ Cardinality(ClipFrames(clips) \cup more) =
             Cardinality(ClipFrames(clips)) + n - Cardinality(ClipFrames(clips) \cap more)
    BY <1>1, <2>5, FS_Union
  <2>8. Cardinality(ClipFrames(clips) \cap more) \in Nat
    <3>1. IsFiniteSet(ClipFrames(clips) \cap more)
      BY <1>1, FS_Intersection
    <3> QED
      BY <3>1, FS_CardinalityType
  <2>9. /\ IsFiniteSet(ClipFrames(longer))
        /\ Cardinality(ClipFrames(longer)) <= Cardinality(ClipFrames(clips) \cup more)
    BY <2>6, <2>7, FS_Subset
  <2>10. Cardinality(ClipFrames(longer)) \in Nat
    BY <2>9, FS_CardinalityType
  <2>11. Cardinality(ClipFrames(longer)) <= Cardinality(ClipFrames(clips)) + n
    <3>1. \A w, x, y, z, s \in Nat : y = x + n - z /\ w <= y => w <= x + n
      OBVIOUS
    <3>2. Cardinality(ClipFrames(clips) \cup more) \in Nat
      BY <2>7, FS_CardinalityType
    <3> QED
      BY <1>1, <2>7, <2>8, <2>9, <2>10, <3>1, <3>2
  <2> QED
    BY <1>1, <2>4, <2>9, <2>11 DEF longer, ClipsOK
<1> QED
  BY <1>2, <1>3

----------------------------------------------------------------------------------
\* Between bursts what is pending is the rest of the item that was cut, of which the
\* parser knows the length if it is a frame whose bytes count as audio; otherwise the
\* parser stands at the first byte of an item. A tag of version 2 in the part of a burst
\* that is still to be read is recognized, and passed with a frame's header or almost,
\* unless the burst begins with it.

CutItem(i) == /\ i.start < mgAt /\ mgAt + mgPending = StopOf(i)
              /\ mgFrame.audio /\ mgFrame.length > 0 => i.kind = "frame" /\ i.length = mgFrame.length
MpegTypeOK ==
  /\ mgFile \in Files /\ mgPosition \in Nat /\ mgAt \in Nat /\ mgEnd \in Nat /\ mgPending \in Nat
  /\ mgPosition <= mgAt /\ mgAt <= mgEnd /\ mgEnd <= FileEnd /\ (Between => mgPosition = mgAt)
  /\ mgFrame \in [audio : BOOLEAN, length : Nat] /\ ClipsOK(mgClips)
RestInv == /\ mgPending = 0 => AtItem(mgAt)
           /\ mgPending # 0 => Between /\ \E i \in mgFile : CutItem(i)
SeenInv ==
  ~Between => \A i \in mgFile :
    i.kind = "id3v2" /\ mgAt <= i.start /\ i.start < mgEnd =>
      StopOf(i) + FrameHeader <= mgEnd + 1 \/ (i.start = mgPosition /\ i.start + TagHeader <= mgEnd)
MpegInv == MpegTypeOK /\ RestInv /\ SeenInv /\ DurationIsBounded

LEMMA MpegInitially == MpegInit => MpegInv
<1> SUFFICES ASSUME MpegInit PROVE MpegInv
  OBVIOUS
<1>1. /\ mgFile \in Files /\ mgPosition = 0 /\ mgAt = 0 /\ mgEnd = 0 /\ mgPending = 0
      /\ mgFrame = [audio |-> FALSE, length |-> 0] /\ mgClips = <<>>
  BY DEF MpegInit
<1>2. ClipFrames(mgClips) = {}
  BY <1>1 DEF ClipFrames
<1>3. IsFiniteSet({}) /\ Cardinality({}) = 0
  BY FS_EmptySet
<1>4. MpegTypeOK
  <2>1. FileEnd \in Nat
    BY <1>1, EndOfFile
  <2>2. ClipsOK(mgClips)
    <3>1. <<>> \in Seq(Nat)
      OBVIOUS
    <3> QED
      BY <1>1, <1>2, <1>3, <3>1, Zenon DEF ClipsOK
  <2> QED
    BY <1>1, <2>1, <2>2 DEF MpegTypeOK
<1>5. RestInv
  BY <1>1, ItemsOfFile DEF RestInv, AtItem
<1>6. SeenInv
  BY <1>1 DEF SeenInv, Between
<1>7. DurationIsBounded
  <2>1. Durations = 0
    BY <1>2, <1>3 DEF Durations
  <2>2. LastsTo(mgAt) \in Nat
    BY <1>1, LastsIsNat
  <2> QED
    BY <2>1, <2>2 DEF LastsTo, DurationIsBounded
<1> QED
  BY <1>4, <1>5, <1>6, <1>7 DEF MpegInv

\* What is pending is the rest of an item.
LEMMA PendingIsRestThen == MpegInv => PendingIsRest
<1> SUFFICES ASSUME MpegInv, Between, mgPending > 0
             PROVE  \E i \in mgFile : i.start < mgPosition /\ mgPosition + mgPending = StopOf(i)
  BY DEF PendingIsRest
<1>1. mgPosition = mgAt /\ mgPending # 0
  BY DEF MpegInv, MpegTypeOK
<1>2. PICK i \in mgFile : CutItem(i)
  BY <1>1 DEF MpegInv, RestInv
<1> QED
  BY <1>1, <1>2 DEF CutItem

LEMMA SameFile ==
  ASSUME mgFile' = mgFile
  PROVE  /\ FileEnd' = FileEnd /\ (Durations' <= LastsTo(mgAt') => DurationIsBounded')
         /\ (AtItem(mgAt') => AtItem(mgAt)')
<1>1. FileEnd' = FileEnd
  BY DEF FileEnd
<1>2. AtItem(mgAt') => AtItem(mgAt)'
  BY <1>1 DEF AtItem
<1>3. Durations' <= LastsTo(mgAt') => DurationIsBounded'
  <2>1. Frames' = Frames
    BY DEF Frames
  <2>2. TakenFrames(mgAt)' = TakenFrames(mgAt')
    BY <2>1 DEF TakenFrames, StopOf
  <2>3. CutFrames(mgAt)' = CutFrames(mgAt')
    BY <2>1 DEF CutFrames, StopOf
  <2>4. PartOfCut(mgAt)' = PartOfCut(mgAt')
    BY <2>3 DEF PartOfCut, SamplesOf
  <2> QED
    BY <2>2, <2>4 DEF DurationIsBounded, LastsTo
<1> QED
  BY <1>1, <1>2, <1>3

\* Where an item begins no frame is cut.
LEMMA NoneCutThere ==
  ASSUME mgFile \in Files, NEW p \in Nat, AtItem(p)
  PROVE  CutFrames(p) = {}
<1>1. SUFFICES ASSUME NEW f \in CutFrames(p) PROVE FALSE
  OBVIOUS
<1>2. f \in mgFile /\ f.start < p /\ p < StopOf(f)
  BY DEF CutFrames, Frames
<1>3. CASE p = FileEnd
  BY <1>2, <1>3, EndOfFile, ItemsOfFile
<1>4. CASE \E i \in mgFile : i.start = p
  <2>1. PICK i \in mgFile : i.start = p
    BY <1>4
  <2> QED
    BY <1>2, <2>1, ItemsOfFile
<1> QED
  BY <1>3, <1>4 DEF AtItem

\* While a burst is read the handler stands at the first byte of an item.
LEMMA InBurst ==
  ASSUME MpegInv, ~Between
  PROVE  /\ mgFile \in Files /\ mgAt \in Nat /\ mgEnd \in Nat /\ mgAt < mgEnd /\ mgEnd <= FileEnd
         /\ mgPending = 0 /\ AtItem(mgAt) /\ CutFrames(mgAt) = {}
         /\ \E i \in mgFile : i.start = mgAt
<1>1. /\ mgFile \in Files /\ mgAt \in Nat /\ mgEnd \in Nat /\ mgAt < mgEnd /\ mgEnd <= FileEnd
      /\ mgPending = 0 /\ AtItem(mgAt)
  BY DEF MpegInv, MpegTypeOK, RestInv, Between
<1>2. FileEnd \in Nat
  BY <1>1, EndOfFile
<1>3. \E i \in mgFile : i.start = mgAt
  BY <1>1, <1>2 DEF AtItem
<1> QED
  BY <1>1, <1>3, NoneCutThere

\* A tag of version 2 is recognized where it begins; before that, all of it is in the
\* burst and, but for one byte, a frame's header behind it.
LEMMA SeenTag ==
  ASSUME MpegInv, ~Between, NEW i \in mgFile, i.kind = "id3v2", mgAt <= i.start, i.start < mgEnd
  PROVE  /\ i.start + TagHeader <= mgEnd
         /\ mgAt < i.start => StopOf(i) + FrameHeader <= mgEnd + 1
<1>1. /\ mgFile \in Files /\ mgAt \in Nat /\ mgEnd \in Nat /\ mgPosition \in Nat /\ mgPosition <= mgAt
  BY DEF MpegInv, MpegTypeOK
<1>2. StopOf(i) + FrameHeader <= mgEnd + 1 \/ (i.start = mgPosition /\ i.start + TagHeader <= mgEnd)
  BY DEF MpegInv, SeenInv
<1>3. i.start + TagHeader <= StopOf(i) /\ StopOf(i) \in Nat /\ i.start \in Nat
  BY <1>1, LengthsOfItems, ItemsOfFile
<1>4. TagHeader \in Nat /\ FrameHeader \in Nat \ {0}
  BY HeaderSizes
<1> QED
  BY <1>1, <1>2, <1>3, <1>4

\* The tag found is the item that begins there.
LEMMA TagFound ==
  ASSUME MpegInv, ~Between, NEW i \in mgFile, i.start = mgAt
  PROVE  \/ /\ TagAt(mgAt, mgEnd) = {} /\ BehindTag(mgAt, mgEnd) = mgAt
            /\ i.kind = "frame" \/ (i.kind = "id3v1" /\ mgEnd < mgAt + TagIdentifier)
         \/ /\ TagAt(mgAt, mgEnd) = {i} /\ BehindTag(mgAt, mgEnd) = Nearer(StopOf(i), mgEnd)
            /\ i.kind \in {"id3v1", "id3v2"}
<1>1. mgFile \in Files /\ mgAt \in Nat /\ mgEnd \in Nat /\ mgAt < mgEnd
  BY InBurst
<1>2. i.kind \in {"id3v2", "id3v1", "frame"} /\ StopOf(i) \in Nat
  BY <1>1, ItemsOfFile
<1>3. TagAt(mgAt, mgEnd) \subseteq {i}
  BY <1>1, OneItemThere DEF TagAt
<1>4. CASE i \in TagAt(mgAt, mgEnd)
  <2>1. TagAt(mgAt, mgEnd) = {i}
    BY <1>3, <1>4
  <2>2. i.kind \in {"id3v1", "id3v2"}
    BY <1>4 DEF TagAt
  <2>3. Nearer(StopOf(i), mgEnd) \in 0..mgEnd
    BY <1>1, <1>2 DEF Nearer
  <2> DEFINE IsBehind(q) == IF TagAt(mgAt, mgEnd) = {} THEN q = mgAt
                          ELSE \E t \in TagAt(mgAt, mgEnd) : q = Nearer(StopOf(t), mgEnd)
  <2>4. \A q : IsBehind(q) <=> q = Nearer(StopOf(i), mgEnd)
    BY <2>1
  <2>5. BehindTag(mgAt, mgEnd) = CHOOSE q \in 0..mgEnd : IsBehind(q)
    BY DEF BehindTag
  <2> HIDE DEF IsBehind
  <2>6. BehindTag(mgAt, mgEnd) = Nearer(StopOf(i), mgEnd)
    BY <2>3, <2>4, <2>5, Zenon
  <2> QED
    BY <2>1, <2>2, <2>6
<1>5. CASE i \notin TagAt(mgAt, mgEnd)
  <2>1. TagAt(mgAt, mgEnd) = {}
    BY <1>3, <1>5
  <2>2. mgAt \in 0..mgEnd
    BY <1>1
  <2>3. BehindTag(mgAt, mgEnd) = mgAt
    <3> DEFINE IsBehind(q) == IF TagAt(mgAt, mgEnd) = {} THEN q = mgAt
                            ELSE \E t \in TagAt(mgAt, mgEnd) : q = Nearer(StopOf(t), mgEnd)
    <3>1. \A q : IsBehind(q) <=> q = mgAt
      BY <2>1
    <3>2. BehindTag(mgAt, mgEnd) = CHOOSE q \in 0..mgEnd : IsBehind(q)
      BY DEF BehindTag
    <3> HIDE DEF IsBehind
    <3> QED
      BY <2>2, <3>1, <3>2, Zenon
  <2>4. i.kind # "id3v2"
    BY <1>1, <1>5, SeenTag DEF TagAt
  <2>5. i.kind = "id3v1" => mgEnd < mgAt + TagIdentifier
    BY <1>1, <1>5, HeaderSizes DEF TagAt
  <2> QED
    BY <1>2, <2>1, <2>3, <2>4, <2>5
<1> QED
  BY <1>4, <1>5

----------------------------------------------------------------------------------
\* The steps.

\* A burst of which nothing is known ends at the first byte of an item.
LEMMA UnreadIsItem ==
  ASSUME MpegInv, ~Between, NothingFound(mgAt, mgEnd)
  PROVE  /\ Unread(mgAt, mgEnd) \in Nat /\ mgAt <= Unread(mgAt, mgEnd)
         /\ Unread(mgAt, mgEnd) <= mgEnd /\ AtItem(Unread(mgAt, mgEnd))
<1> DEFINE p == mgAt
           e == mgEnd
           behind == BehindTag(p, e)
           tail == (e + 1) - Nearer(FrameHeader, e + 1)
<1>1. mgFile \in Files /\ p \in Nat /\ e \in Nat /\ p < e /\ e <= FileEnd /\ FileEnd \in Nat
  BY InBurst, EndOfFile
<1>2. PICK it \in mgFile : it.start = p
  BY InBurst
<1>3. /\ StopOf(it) \in Nat /\ p < StopOf(it)
      /\ it.kind = "id3v2" => p + TagHeader <= StopOf(it)
      /\ it.kind = "frame" => p + FrameHeader <= StopOf(it)
  BY <1>1, <1>2, ItemsOfFile, LengthsOfItems
<1>4. FrameHeader \in Nat \ {0} /\ TagIdentifier \in Nat \ {0} /\ TagIdentifier <= FrameHeader
  BY HeaderSizes
<1>5. tail \in Nat /\ tail <= e /\ \A q \in Nat : e < q + FrameHeader => tail <= q
  BY <1>1, <1>4 DEF Nearer
<1>6. Unread(p, e) = Farther(behind, tail)
  BY DEF Unread
<1>7. ~TagOnly(p, e) /\ \A f \in mgFile : f.kind = "frame" /\ behind <= f.start => ~(f.start + FrameHeader <= e)
  BY DEF NothingFound, FramesIn
<1>8. \A f \in mgFile : f.kind = "frame" /\ behind <= f.start => e < f.start + FrameHeader
  BY <1>1, <1>4, <1>7, ItemsOfFile
<1>9. CASE TagAt(p, e) = {} /\ behind = p /\ (it.kind = "frame" \/ (it.kind = "id3v1" /\ e < p + TagIdentifier))
  <2>1. e < p + FrameHeader
    BY <1>1, <1>2, <1>4, <1>8, <1>9
  <2>2. tail <= p
    BY <1>1, <1>5, <2>1
  <2> HIDE DEF tail, behind
  <2>3. Unread(p, e) = p
    BY <1>1, <1>5, <1>6, <1>9, <2>2 DEF Farther
  <2> QED
    BY <1>1, <1>2, <2>3 DEF AtItem
<1>10. CASE TagAt(p, e) = {it} /\ behind = Nearer(StopOf(it), e) /\ it.kind \in {"id3v1", "id3v2"}
  <2>1. behind = StopOf(it) /\ StopOf(it) < e
    BY <1>1, <1>3, <1>7, <1>10 DEF TagOnly, Nearer
  <2>2. ~EndsFile(it, mgFile)
    BY <1>1, <2>1, EndOfFile
  <2>3. PICK j \in mgFile : MayFollow(it, j)
    BY <1>1, <2>2, ItemsOfFile
  <2>4. j.start = StopOf(it) /\ (j.kind = "frame" \/ j.kind = "id3v2")
    BY <1>10, <2>3 DEF MayFollow
  <2>5. CASE j.kind = "frame"
    <3>1. tail <= StopOf(it)
      BY <1>3, <1>5, <1>8, <2>1, <2>4, <2>5
    <3> HIDE DEF tail, behind
    <3>2. Unread(p, e) = StopOf(it)
      BY <1>1, <1>3, <1>5, <1>6, <2>1, <3>1 DEF Farther
    <3> QED
      BY <1>1, <1>3, <2>1, <2>4, <3>2 DEF AtItem
  <2>6. CASE j.kind = "id3v2"
    <3>1. StopOf(j) + FrameHeader <= e + 1
      BY <1>1, <1>3, <2>1, <2>4, <2>6, SeenTag
    <3>2. StopOf(j) \in Nat /\ StopOf(it) < StopOf(j)
      BY <1>1, <2>4, ItemsOfFile
    <3>4. PICK k \in mgFile : MayFollow(j, k)
      BY <1>1, <2>6, ItemsOfFile
    <3>5. k.start = StopOf(j) /\ k.kind = "frame"
      BY <2>6, <3>4 DEF MayFollow
    <3>6. e < StopOf(j) + FrameHeader
      BY <1>3, <1>8, <2>1, <3>2, <3>5
    <3>7. tail = StopOf(j)
      BY <1>1, <1>4, <3>1, <3>2, <3>6 DEF Nearer
    <3> HIDE DEF tail, behind
    <3>8. Unread(p, e) = StopOf(j)
      BY <1>1, <1>3, <1>6, <2>1, <3>2, <3>7 DEF Farther
    <3> QED
      BY <1>1, <1>3, <1>5, <3>2, <3>5, <3>7, <3>8 DEF AtItem
  <2> QED
    BY <2>4, <2>5, <2>6
<1> QED
  BY <1>2, <1>9, <1>10, TagFound

LEMMA FindNothingStep ==
  ASSUME MpegInv, FindNothing
  PROVE  MpegInv'
<1> DEFINE u == Unread(mgAt, mgEnd)
<1>1. /\ ~Between /\ NothingFound(mgAt, mgEnd) /\ mgAt' = u /\ mgEnd' = u /\ mgPosition' = u
      /\ mgPending' = 0 /\ mgFile' = mgFile /\ mgFrame' = mgFrame /\ mgClips' = mgClips
  BY DEF FindNothing, EndBurst
<1>2. u \in Nat /\ mgAt <= u /\ u <= mgEnd /\ AtItem(u)
  BY <1>1, UnreadIsItem
<1> HIDE DEF u
<1>3. /\ mgFile \in Files /\ mgAt \in Nat /\ mgEnd \in Nat /\ mgEnd <= FileEnd /\ FileEnd \in Nat
      /\ mgFrame \in [audio : BOOLEAN, length : Nat] /\ ClipsOK(mgClips)
      /\ CutFrames(mgAt) = {} /\ Durations <= LastsTo(mgAt)
  BY <1>1, InBurst, EndOfFile DEF MpegInv, MpegTypeOK, DurationIsBounded, LastsTo
<1>4. MpegTypeOK'
  BY <1>1, <1>2, <1>3, SameFile DEF MpegTypeOK, Between
<1>5. RestInv'
  BY <1>1, <1>2, SameFile DEF RestInv
<1>6. SeenInv'
  BY <1>1 DEF SeenInv, Between
<1>7. DurationIsBounded'
  <2>1. Durations' = Durations /\ Durations \in Nat
    BY <1>1, <1>3, FS_CardinalityType DEF Durations, ClipsOK
  <2>2. LastsTo(mgAt) <= LastsTo(u) /\ LastsTo(mgAt) \in Nat /\ LastsTo(u) \in Nat
    BY <1>2, <1>3, LastsLonger, LastsIsNat
  <2>3. Durations' <= LastsTo(mgAt')
    BY <1>1, <1>3, <2>1, <2>2
  <2> QED
    BY <1>1, <2>3, SameFile
<1> QED
  BY <1>4, <1>5, <1>6, <1>7 DEF MpegInv

LEMMA FindTagOnlyStep ==
  ASSUME MpegInv, FindTagOnly
  PROVE  MpegInv'
<1>1. /\ ~Between /\ mgAt' = mgAt /\ mgEnd' = mgAt /\ mgPosition' = mgAt
      /\ mgPending' = mgPending /\ mgFile' = mgFile /\ mgClips' = mgClips
      /\ mgFrame' = [mgFrame EXCEPT !.audio = FALSE]
  BY DEF FindTagOnly, EndBurst
<1>2. /\ mgFile \in Files /\ mgAt \in Nat /\ mgEnd \in Nat /\ mgAt <= mgEnd /\ mgEnd <= FileEnd
      /\ FileEnd \in Nat /\ mgFrame \in [audio : BOOLEAN, length : Nat] /\ ClipsOK(mgClips)
      /\ mgPending = 0 /\ AtItem(mgAt) /\ Durations <= LastsTo(mgAt)
  BY <1>1, InBurst, EndOfFile DEF MpegInv, MpegTypeOK, DurationIsBounded, LastsTo
<1>3. mgFrame' \in [audio : BOOLEAN, length : Nat]
  BY <1>1, <1>2
<1>4. MpegTypeOK'
  BY <1>1, <1>2, <1>3, SameFile DEF MpegTypeOK, Between
<1>5. RestInv'
  BY <1>1, <1>2, SameFile DEF RestInv
<1>6. SeenInv'
  BY <1>1 DEF SeenInv, Between
<1>7. DurationIsBounded'
  BY <1>1, <1>2, SameFile DEF Durations
<1> QED
  BY <1>4, <1>5, <1>6, <1>7 DEF MpegInv

\* The part of an item that a burst brings: as audio it adds no more than it lasts.
LEMMA BurstBringsRest ==
  ASSUME MpegInv, Between, mgPending # 0, NEW n \in Nat, 0 < n, n <= mgPending
  PROVE  /\ LastsTo(mgAt) <= LastsTo(mgAt + n) /\ LastsTo(mgAt) \in Nat /\ LastsTo(mgAt + n) \in Nat
         /\ mgFrame.audio /\ mgFrame.length > 0 =>
              /\ SamplesOf(n, mgFrame.length) \in Nat
              /\ LastsTo(mgAt) + SamplesOf(n, mgFrame.length) <= LastsTo(mgAt + n)
<1>1. mgFile \in Files /\ mgAt \in Nat /\ mgPending \in Nat
  BY DEF MpegInv, MpegTypeOK
<1>2. PICK i \in mgFile : CutItem(i)
  BY DEF MpegInv, RestInv
<1>3. /\ i.start \in Nat /\ i.start < mgAt /\ mgAt + mgPending = StopOf(i)
      /\ mgFrame.audio /\ mgFrame.length > 0 => i.kind = "frame" /\ i.length = mgFrame.length
  BY <1>1, <1>2, ItemsOfFile DEF CutItem
<1>4. /\ mgAt + n \in Nat /\ i.start <= mgAt /\ mgAt < mgAt + n /\ mgAt + n <= StopOf(i)
      /\ (mgAt + n) - mgAt = n
  BY <1>1, <1>3
<1>5. LastsTo(mgAt) \in Nat /\ LastsTo(mgAt + n) \in Nat
  BY <1>1, <1>4, LastsIsNat
<1>6. i.kind = "frame" => /\ SamplesOf(n, i.length) \in Nat
                          /\ LastsTo(mgAt) + SamplesOf(n, i.length) <= LastsTo(mgAt + n)
  <2>1. ASSUME i.kind = "frame"
        PROVE  /\ SamplesOf((mgAt + n) - mgAt, i.length) \in Nat
               /\ LastsTo(mgAt) + SamplesOf((mgAt + n) - mgAt, i.length) <= LastsTo(mgAt + n)
    BY <1>1, <1>3, <1>4, <2>1, LastsOfFrame
  <2> QED
    BY <1>4, <2>1
<1>7. LastsTo(mgAt) <= LastsTo(mgAt + n)
  <2>1. CASE i.kind = "frame"
    BY <1>5, <1>6, <2>1
  <2>2. CASE i.kind # "frame"
    <3>1. CutFrames(mgAt) = {}
      <4>1. SUFFICES ASSUME NEW f \in CutFrames(mgAt) PROVE FALSE
        OBVIOUS
      <4>2. f \in mgFile /\ f.kind = "frame" /\ f.start < mgAt /\ mgAt < StopOf(f)
        BY DEF CutFrames, Frames
      <4>3. StopOf(i) <= f.start \/ StopOf(f) <= i.start
        BY <1>1, <2>2, <4>2, ItemsOfFile, Zenon
      <4>4. f.start \in Nat /\ StopOf(f) \in Nat /\ mgAt < StopOf(i) /\ StopOf(i) \in Nat
        BY <1>1, <1>3, <4>2, ItemsOfFile
      <4> QED
        BY <1>1, <1>3, <4>2, <4>3, <4>4
    <3> QED
      BY <1>1, <1>4, <3>1, LastsLonger
  <2> QED
    BY <2>1, <2>2
<1> QED
  BY <1>3, <1>5, <1>6, <1>7

LEMMA BeginBurstStep ==
  ASSUME MpegInv, NEW size \in BurstSizes, BeginBurst(size)
  PROVE  MpegInv'
<1> DEFINE n == Nearer(mgPending, size)
           e == mgPosition + size
           counts == mgFrame.audio /\ mgFrame.length > 0 /\ n > 0
<1>1. /\ Between /\ e <= FileEnd /\ ~HidesTag(e)
      /\ mgAt' = mgPosition + n /\ mgPosition' = mgPosition + n /\ mgEnd' = e
      /\ mgPending' = mgPending - n
      /\ mgClips' = IF counts THEN LastLengthened(mgClips, SamplesOf(n, mgFrame.length)) ELSE mgClips
      /\ mgFile' = mgFile /\ mgFrame' = mgFrame
  BY DEF BeginBurst, StillPending
<1>2. /\ mgFile \in Files /\ mgAt \in Nat /\ mgPosition = mgAt /\ mgPending \in Nat
      /\ FileEnd \in Nat /\ size \in Nat \ {0} /\ mgEnd = mgAt
      /\ mgFrame \in [audio : BOOLEAN, length : Nat] /\ ClipsOK(mgClips) /\ Durations <= LastsTo(mgAt)
      /\ (mgPending = 0 => AtItem(mgAt)) /\ (mgPending # 0 => \E i \in mgFile : CutItem(i))
  BY <1>1, EndOfFile, HeaderSizes
     DEF MpegInv, MpegTypeOK, RestInv, DurationIsBounded, LastsTo, Between
<1>3. n \in Nat /\ n <= size /\ n <= mgPending /\ (n = size \/ n = mgPending) /\ mgPending - n \in Nat
  BY <1>2 DEF Nearer
<1> HIDE DEF n
<1>4. Durations' <= LastsTo(mgAt') /\ ClipsOK(mgClips')
  <2>1. Durations \in Nat /\ LastsTo(mgAt) \in Nat
    BY <1>2, FS_CardinalityType, LastsIsNat DEF ClipsOK, Durations
  <2>2. CASE n = 0
    <3>1. mgClips' = mgClips /\ mgAt' = mgAt
      BY <1>1, <1>2, <2>2
    <3> QED
      BY <1>2, <3>1 DEF Durations
  <2>3. CASE n # 0
    <3>1. mgPending # 0 /\ 0 < n
      BY <1>2, <1>3, <2>3
    <3>2. /\ LastsTo(mgAt) <= LastsTo(mgAt + n) /\ LastsTo(mgAt + n) \in Nat
          /\ counts => /\ SamplesOf(n, mgFrame.length) \in Nat
                       /\ LastsTo(mgAt) + SamplesOf(n, mgFrame.length) <= LastsTo(mgAt + n)
      BY <1>1, <1>3, <3>1, BurstBringsRest
    <3>3. mgAt' = mgAt + n
      BY <1>1, <1>2
    <3>4. CASE counts
      <4> DEFINE s == SamplesOf(n, mgFrame.length)
      <4>1. mgClips' = LastLengthened(mgClips, s)
        BY <1>1, <3>4
      <4>2. s \in Nat /\ LastsTo(mgAt) + s <= LastsTo(mgAt + n)
        BY <3>2, <3>4
      <4> HIDE DEF s, counts
      <4>3. /\ ClipsOK(LastLengthened(mgClips, s))
            /\ Cardinality(ClipFrames(LastLengthened(mgClips, s))) <= Durations + s
        BY <1>2, <4>2, LongerClip DEF Durations
      <4>4. ClipsOK(mgClips') /\ Durations' <= Durations + s
        BY <4>1, <4>3, Zenon DEF Durations
      <4>5. Durations' \in Nat
        BY <4>4, FS_CardinalityType DEF ClipsOK, Durations
      <4> QED
        BY <1>2, <2>1, <3>2, <3>3, <4>2, <4>4, <4>5
    <3>5. CASE ~counts
      <4>1. mgClips' = mgClips
        BY <1>1, <3>5
      <4>2. Durations' = Durations
        BY <4>1 DEF Durations
      <4> QED
        BY <1>2, <2>1, <3>2, <3>3, <4>1, <4>2
    <3> QED
      BY <3>4, <3>5
  <2> QED
    BY <2>2, <2>3
<1>5. MpegTypeOK'
  <2>1. mgAt' \in Nat /\ mgAt' <= mgEnd' /\ mgEnd' \in Nat /\ mgEnd' <= FileEnd
    BY <1>1, <1>2, <1>3
  <2>2. FileEnd' = FileEnd
    BY <1>1, SameFile
  <2> QED
    BY <1>1, <1>2, <1>3, <1>4, <2>1, <2>2 DEF MpegTypeOK
<1>6. RestInv'
  <2>1. CASE mgPending = n
    <3>1. AtItem(mgAt')
      <4>1. CASE mgPending = 0
        BY <1>1, <1>2, <2>1, <4>1
      <4>2. CASE mgPending # 0
        <5>1. PICK i \in mgFile : CutItem(i)
          BY <1>2, <4>2
        <5>2. mgAt' = StopOf(i)
          BY <1>1, <1>2, <2>1, <5>1 DEF CutItem
        <5> QED
          BY <1>2, <5>2, ItemsAdjoin
      <4> QED
        BY <4>1, <4>2
    <3>2. AtItem(mgAt)' /\ mgPending' = 0
      BY <1>1, <1>2, <2>1, <3>1, SameFile
    <3> QED
      BY <3>2 DEF RestInv
  <2>2. CASE mgPending # n
    <3>1. n = size /\ mgPending # 0
      BY <1>2, <1>3, <2>2
    <3>2. PICK i \in mgFile : CutItem(i)
      BY <1>2, <3>1
    <3>3. /\ i.start < mgAt /\ mgAt + mgPending = StopOf(i)
          /\ mgFrame.audio /\ mgFrame.length > 0 => i.kind = "frame" /\ i.length = mgFrame.length
      BY <3>2 DEF CutItem
    <3>4. i.start < mgAt' /\ mgAt' + mgPending' = StopOf(i) /\ mgAt' = mgEnd' /\ mgPending' # 0
      BY <1>1, <1>2, <1>3, <2>2, <3>1, <3>3, ItemsOfFile
    <3>5. CutItem(i)' /\ Between' /\ i \in mgFile'
      BY <1>1, <3>3, <3>4 DEF CutItem, Between, StopOf
    <3> QED
      BY <3>4, <3>5 DEF RestInv
  <2> QED
    BY <2>1, <2>2
<1>7. SeenInv'
  <2>1. SUFFICES ASSUME NEW i \in mgFile, i.kind = "id3v2", mgAt' <= i.start, i.start < e
        PROVE  \/ StopOf(i) + FrameHeader <= e + 1
               \/ i.start = mgPosition' /\ i.start + TagHeader <= e
    <3>1. \A i \in mgFile : StopOf(i)' = StopOf(i)
      BY DEF StopOf
    <3> HIDE DEF e
    <3> QED
      BY <1>1, <3>1 DEF SeenInv
  <2>2. i.start \in Nat /\ StopOf(i) \in Nat /\ e \in Nat
    BY <1>2, ItemsOfFile
  <2>3. ~(e + 1 < StopOf(i) + FrameHeader) \/ (mgPosition = i.start /\ ~(e < i.start + TagHeader))
    BY <1>1, <2>1 DEF HidesTag
  <2>4. FrameHeader \in Nat /\ TagHeader \in Nat
    BY HeaderSizes
  <2> HIDE DEF e
  <2> QED
    BY <1>1, <1>2, <1>3, <2>1, <2>2, <2>3, <2>4
<1>8. DurationIsBounded'
  BY <1>1, <1>4, SameFile
<1> QED
  BY <1>5, <1>6, <1>7, <1>8 DEF MpegInv

\* The item found is in the burst, and if it is not a tag nor behind one it is the frame
\* that begins where the handler stands.
LEMMA ItemFound ==
  ASSUME MpegInv, ~Between, NEW i \in Found(mgAt, mgEnd)
  PROVE  /\ i \in mgFile /\ mgAt <= i.start /\ i.start < mgEnd
         /\ TagAt(mgAt, mgEnd) = {} => i.start = mgAt /\ i.kind = "frame"
<1>1. mgFile \in Files /\ mgAt \in Nat /\ mgEnd \in Nat /\ mgAt < mgEnd
  BY InBurst
<1>2. PICK it \in mgFile : it.start = mgAt
  BY InBurst
<1>3. StopOf(it) \in Nat /\ mgAt < StopOf(it) /\ (it.kind = "frame" => mgAt + FrameHeader <= StopOf(it))
  BY <1>1, <1>2, ItemsOfFile, LengthsOfItems
<1>4. FrameHeader \in Nat \ {0} /\ TagIdentifier \in Nat \ {0} /\ TagIdentifier <= FrameHeader
  BY HeaderSizes
<1>5. CASE TagOnly(mgAt, mgEnd)
  <2>1. i \in TagAt(mgAt, mgEnd)
    BY <1>5 DEF Found
  <2> QED
    BY <1>1, <2>1 DEF TagAt
<1>6. CASE ~TagOnly(mgAt, mgEnd)
  <2>1. i \in FirstFrame(mgAt, mgEnd)
    BY <1>6 DEF Found
  <2>2. /\ i \in mgFile /\ i.kind = "frame" /\ BehindTag(mgAt, mgEnd) <= i.start
        /\ i.start + FrameHeader <= mgEnd
        /\ \A g \in FramesIn(mgAt, mgEnd) : i.start <= g.start
    BY <2>1 DEF FirstFrame, FramesIn
  <2>3. i.start \in Nat /\ i.start < mgEnd
    BY <1>1, <1>4, <2>2, ItemsOfFile
  <2>4. CASE /\ TagAt(mgAt, mgEnd) = {} /\ BehindTag(mgAt, mgEnd) = mgAt
             /\ it.kind = "frame" \/ (it.kind = "id3v1" /\ mgEnd < mgAt + TagIdentifier)
    <3>1. mgAt <= i.start
      BY <2>2, <2>4
    <3>2. i.start = mgAt
      <4>1. SUFFICES ASSUME i.start # mgAt PROVE FALSE
        OBVIOUS
      <4>2. StopOf(it) <= i.start
        BY <1>1, <1>2, <2>2, <2>3, <3>1, <4>1, ItemsOfFile
      <4>3. CASE it.kind = "frame"
        <5>1. it \in FramesIn(mgAt, mgEnd)
          BY <1>1, <1>2, <1>3, <1>4, <2>2, <2>3, <2>4, <4>2, <4>3 DEF FramesIn
        <5> QED
          BY <1>1, <1>2, <1>3, <2>2, <2>3, <4>2, <5>1
      <4>4. CASE mgEnd < mgAt + TagIdentifier
        BY <1>1, <1>4, <2>2, <2>3, <3>1, <4>4
      <4> QED
        BY <2>4, <4>3, <4>4
    <3> QED
      BY <2>2, <2>3, <3>1, <3>2
  <2>5. CASE TagAt(mgAt, mgEnd) = {it} /\ BehindTag(mgAt, mgEnd) = Nearer(StopOf(it), mgEnd)
    <3>1. mgAt <= i.start
      BY <1>1, <1>3, <2>2, <2>3, <2>5 DEF Nearer
    <3>2. TagAt(mgAt, mgEnd) # {}
      BY <2>5
    <3> QED
      BY <2>2, <2>3, <3>1, <3>2
  <2> QED
    BY <1>2, <2>4, <2>5, TagFound
<1> QED
  BY <1>5, <1>6

LEMMA FindItemStep ==
  ASSUME MpegInv, FindItem
  PROVE  MpegInv'
<1> DEFINE tags == TagAt(mgAt, mgEnd)
           ends == \E t \in tags : t.kind = "id3v1"
           begins == ~ends /\ (tags # {} \/ mgClips = <<>> \/ mgEnded)
           clips == IF begins THEN Append(mgClips, 0) ELSE mgClips
           AfterItem(i) == Nearer(StopOf(i), mgEnd)
           LengthOf(i) == IF i.kind = "frame" THEN i.length ELSE 0
<1>1. PICK i \in Found(mgAt, mgEnd) :
        /\ ~Between
        /\ mgClips' = IF tags = {} THEN LastLengthened(clips, SamplesOf(AfterItem(i) - mgAt, LengthOf(i))) ELSE clips
        /\ IF AfterItem(i) = mgEnd
           THEN /\ EndBurst(AfterItem(i)) /\ mgPending' = RestOf(i, AfterItem(i))
                /\ mgFrame' = [audio |-> tags = {}, length |-> LengthOf(i)]
           ELSE /\ mgAt' = AfterItem(i) /\ mgFrame' = [mgFrame EXCEPT !.audio = tags = {}]
                /\ UNCHANGED <<mgPosition, mgEnd, mgPending>>
        /\ UNCHANGED <<mgFile, mgFailed>>
  BY Zenon DEF FindItem
<1> DEFINE after == AfterItem(i)
           length == LengthOf(i)
           n == SamplesOf(after - mgAt, length)
<1>2. /\ ~Between /\ mgFile' = mgFile /\ mgAt' = after
      /\ mgClips' = IF tags = {} THEN LastLengthened(clips, n) ELSE clips
  BY <1>1 DEF EndBurst
<1>3. /\ mgFile \in Files /\ mgAt \in Nat /\ mgEnd \in Nat /\ mgAt < mgEnd /\ mgEnd <= FileEnd
      /\ FileEnd \in Nat /\ mgPending = 0 /\ CutFrames(mgAt) = {}
      /\ mgPosition \in Nat /\ mgPosition <= mgAt
      /\ mgFrame \in [audio : BOOLEAN, length : Nat] /\ ClipsOK(mgClips) /\ Durations <= LastsTo(mgAt)
  BY <1>2, InBurst, EndOfFile DEF MpegInv, MpegTypeOK, DurationIsBounded, LastsTo
<1>4. /\ i \in mgFile /\ mgAt <= i.start /\ i.start < mgEnd
      /\ tags = {} => i.start = mgAt /\ i.kind = "frame"
  BY <1>2, ItemFound
<1>5. i.start \in Nat /\ StopOf(i) \in Nat /\ i.start < StopOf(i) /\ i.length \in Nat \ {0}
  BY <1>3, <1>4, ItemsOfFile
<1>6. /\ after \in Nat /\ mgAt < after /\ after <= mgEnd /\ after <= StopOf(i) /\ i.start < after
      /\ after # mgEnd => after = StopOf(i)
  BY <1>3, <1>4, <1>5 DEF Nearer
<1>7. length \in Nat /\ (i.kind = "frame" => length = i.length)
  BY <1>5
<1> HIDE DEF tags, ends, begins, AfterItem, LengthOf
<1>8. /\ ClipsOK(clips) /\ ClipFrames(clips) = ClipFrames(mgClips)
  BY <1>3, BeganClipLastsNothing
<1> HIDE DEF clips
<1>9. Durations' <= LastsTo(mgAt') /\ ClipsOK(mgClips')
  <2>1. Durations \in Nat /\ LastsTo(mgAt) \in Nat /\ LastsTo(after) \in Nat
    BY <1>3, <1>6, FS_CardinalityType, LastsIsNat DEF ClipsOK, Durations
  <2>2. CASE tags = {}
    <3>1. n \in Nat /\ LastsTo(mgAt) + n <= LastsTo(after)
      <4>1. i.start <= mgAt /\ i.kind = "frame" /\ length = i.length
        BY <1>3, <1>4, <1>7, <2>2
      <4> HIDE DEF after, length
      <4> QED
        BY <1>3, <1>4, <1>6, <4>1, LastsOfFrame
    <3> HIDE DEF n
    <3>2. ClipsOK(mgClips') /\ Durations' <= Durations + n
      <4>1. mgClips' = LastLengthened(clips, n)
        BY <1>2, <2>2
      <4>2. /\ ClipsOK(LastLengthened(clips, n))
            /\ Cardinality(ClipFrames(LastLengthened(clips, n))) <= Durations + n
        BY <1>8, <3>1, LongerClip DEF Durations
      <4> QED
        BY <4>1, <4>2, Zenon DEF Durations
    <3>3. Durations' \in Nat
      BY <3>2, FS_CardinalityType DEF ClipsOK, Durations
    <3> HIDE DEF after
    <3> QED
      BY <1>2, <1>3, <2>1, <3>1, <3>2, <3>3
  <2>3. CASE tags # {}
    <3>1. mgClips' = clips
      BY <1>2, <2>3
    <3>2. Durations' = Durations
      BY <1>8, <3>1, Zenon DEF Durations
    <3>3. LastsTo(mgAt) <= LastsTo(after)
      <4> HIDE DEF after
      <4> QED
        BY <1>3, <1>6, LastsLonger
    <3>4. ClipsOK(mgClips')
      BY <1>8, <3>1, Zenon
    <3> HIDE DEF after
    <3> QED
      BY <1>2, <1>3, <2>1, <3>2, <3>3, <3>4
  <2> QED
    BY <2>2, <2>3
<1>10. FileEnd' = FileEnd
  BY <1>2, SameFile
<1>11. DurationIsBounded'
  BY <1>2, <1>9, SameFile
<1> HIDE DEF n
<1>12. CASE after = mgEnd
  <2>1. /\ mgPosition' = after /\ mgEnd' = after /\ mgPending' = RestOf(i, after)
        /\ mgFrame' = [audio |-> tags = {}, length |-> length]
    BY <1>1, <1>12 DEF EndBurst
  <2>2. mgPending' = StopOf(i) - after /\ mgPending' \in Nat
    BY <1>5, <1>6, <2>1 DEF RestOf
  <2> HIDE DEF after, length
  <2>3. MpegTypeOK'
    <3>1. mgFrame' \in [audio : BOOLEAN, length : Nat]
      BY <1>7, <2>1
    <3> QED
      BY <1>2, <1>3, <1>6, <1>9, <1>10, <2>1, <2>2, <3>1 DEF MpegTypeOK
  <2>4. Between'
    BY <1>2, <2>1 DEF Between
  <2>5. RestInv'
    <3>1. CASE mgPending' = 0
      <4>1. mgAt' = StopOf(i)
        BY <1>2, <1>5, <1>6, <2>2, <3>1
      <4>2. AtItem(mgAt)'
        BY <1>2, <1>3, <1>4, <4>1, ItemsAdjoin, SameFile
      <4> QED
        BY <3>1, <4>2 DEF RestInv
    <3>2. CASE mgPending' # 0
      <4>1. i.start < mgAt' /\ mgAt' + mgPending' = StopOf(i)
        BY <1>2, <1>5, <1>6, <2>2
      <4>2. mgFrame'.audio /\ mgFrame'.length > 0 => i.kind = "frame" /\ i.length = mgFrame'.length
        <5>1. mgFrame'.audio = (tags = {}) /\ mgFrame'.length = length
          BY <2>1
        <5> QED
          BY <1>4, <1>7, <5>1
      <4>3. CutItem(i)' /\ i \in mgFile'
        BY <1>2, <1>4, <4>1, <4>2 DEF CutItem, StopOf
      <4> QED
        BY <2>4, <3>2, <4>3 DEF RestInv
    <3> QED
      BY <3>1, <3>2
  <2>6. SeenInv'
    BY <2>4 DEF SeenInv
  <2> QED
    BY <1>11, <2>3, <2>5, <2>6 DEF MpegInv
<1>13. CASE after # mgEnd
  <2>1. /\ mgPosition' = mgPosition /\ mgEnd' = mgEnd /\ mgPending' = mgPending
        /\ mgFrame' = [mgFrame EXCEPT !.audio = tags = {}]
    BY <1>1, <1>13
  <2> HIDE DEF after, length
  <2>2. MpegTypeOK'
    <3>1. mgFrame' \in [audio : BOOLEAN, length : Nat]
      BY <1>3, <2>1
    <3>2. mgAt' # mgEnd'
      BY <1>2, <1>13, <2>1
    <3>3. mgPosition' <= mgAt'
      BY <1>2, <1>3, <1>6, <2>1
    <3> QED
      BY <1>2, <1>3, <1>6, <1>9, <1>10, <2>1, <3>1, <3>2, <3>3 DEF MpegTypeOK, Between
  <2>3. RestInv'
    <3>1. AtItem(mgAt)'
      BY <1>2, <1>3, <1>4, <1>6, <1>13, ItemsAdjoin, SameFile
    <3> QED
      BY <1>3, <2>1, <3>1 DEF RestInv
  <2>4. SeenInv'
    <3>1. SUFFICES ASSUME NEW j \in mgFile, j.kind = "id3v2", mgAt' <= j.start, j.start < mgEnd
          PROVE  \/ StopOf(j) + FrameHeader <= mgEnd + 1
                 \/ j.start = mgPosition /\ j.start + TagHeader <= mgEnd
      BY <1>2, <2>1 DEF SeenInv, StopOf
    <3>2. mgAt <= j.start
      BY <1>2, <1>3, <1>6, <3>1, ItemsOfFile
    <3> QED
      BY <1>2, <3>1, <3>2 DEF MpegInv, SeenInv
  <2> QED
    BY <1>11, <2>2, <2>3, <2>4 DEF MpegInv
<1> QED
  BY <1>12, <1>13

LEMMA MpegStep == MpegInv /\ [MpegNext]_mgVars => MpegInv'
<1> SUFFICES ASSUME MpegInv, [MpegNext]_mgVars PROVE MpegInv'
  OBVIOUS
<1>1. CASE \E size \in BurstSizes : BeginBurst(size)
  BY <1>1, BeginBurstStep
<1>2. CASE FindNothing
  BY <1>2, FindNothingStep
<1>3. CASE FindTagOnly
  BY <1>3, FindTagOnlyStep
<1>4. CASE FindItem
  BY <1>4, FindItemStep
<1>5. CASE UNCHANGED mgVars
  <2>1. /\ mgFile' = mgFile /\ mgPosition' = mgPosition /\ mgAt' = mgAt /\ mgEnd' = mgEnd
        /\ mgPending' = mgPending /\ mgFrame' = mgFrame /\ mgClips' = mgClips
    BY <1>5 DEF mgVars
  <2>2. FileEnd' = FileEnd /\ Between' = Between /\ Durations' = Durations
    BY <2>1 DEF FileEnd, Between, Durations
  <2>3. MpegTypeOK'
    BY <2>1, <2>2 DEF MpegInv, MpegTypeOK
  <2>4. RestInv'
    BY <2>1, <2>2 DEF MpegInv, RestInv, AtItem, CutItem, StopOf
  <2>5. SeenInv'
    BY <2>1, <2>2 DEF MpegInv, SeenInv, StopOf
  <2>6. DurationIsBounded'
    <3>1. Durations <= LastsTo(mgAt)
      BY DEF MpegInv, DurationIsBounded, LastsTo
    <3> QED
      BY <2>1, <2>2, <3>1, SameFile
  <2> QED
    BY <2>3, <2>4, <2>5, <2>6 DEF MpegInv
<1> QED
  BY <1>1, <1>2, <1>3, <1>4, <1>5 DEF MpegNext

----------------------------------------------------------------------------------
(* However an MP3 file is cut into bursts and however often a part of it is sent    *)
(* again, what is pending between bursts is the rest of an item of the file, and     *)
(* together the clips last no longer than the frames taken of it, a part of one      *)
(* counted in proportion (handleMpegTransfer(), StreamOffloadStub.cpp).              *)
THEOREM MpegStaysExact == AudioSpec => []MpegClipsAreExact
<1>1. Init => MpegInv
  BY MpegInitially DEF Init
<1>2. MpegInv /\ [Next]_audioVars => MpegInv'
  BY Parts, PartsStutter, MpegStep
<1>3. MpegInv => MpegClipsAreExact
  BY PendingIsRestThen DEF MpegInv, MpegClipsAreExact
<1> QED BY <1>1, <1>2, <1>3, PTL DEF AudioSpec
==================================================================================
