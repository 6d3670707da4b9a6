------------------------------ MODULE EffectConfig ------------------------------
(* The effect factory before its first client: it parses the elements of the      *)
(* configuration file in their order, then opens the libraries of the effects.    *)
EXTENDS Naturals, Sequences, SequencesExt, Functions

CONSTANTS
  LibraryElements,  \* [name, found]: whether the path, if given, is readable
  EffectElements,   \* [name, proxy, libraries], a library is [library, uuid, type]
  ChainElements,    \* [type, apply] of preprocess, postprocess and deviceEffects
  KnownEffects,     \* the names that findUuid() has a type for
  Nil,              \* an attribute that is missing, a zero UUID, an unknown type
  MaxElements

VARIABLES
  cfPhase,      \* the section the parser is in, or "loaded"
  cfLeft,       \* bound: the elements that may follow
  cfLibraries,  \* mLibraryMap: the names that have a path
  cfEffects,    \* mEffectsMap
  cfChains,     \* mProcessingMap
  cfSkipped,    \* mSkippedElements, counted from its start value
  cfOpened,     \* mEffectLibMap: the library of each implementation
  cfIdentities  \* mIdentitySet
cfVars == <<cfPhase, cfLeft, cfLibraries, cfEffects, cfChains, cfSkipped, cfOpened, cfIdentities>>

NoEntries == [k \in {} |-> Nil]
CfInit ==
  /\ cfPhase = "libraries" /\ cfLeft = MaxElements /\ cfLibraries = {} /\ cfEffects = NoEntries
  /\ cfChains = NoEntries /\ cfSkipped = 0 /\ cfOpened = NoEntries /\ cfIdentities = {}

----------------------------------------------------------------------------------
\* A map with k set to v.
Set(f, k, v) == [x \in DOMAIN f \union {k} |-> IF x = k THEN v ELSE f[x]]
registerFailure(result) == cfSkipped' = IF result THEN cfSkipped ELSE cfSkipped + 1
Element(phase) == cfPhase = phase /\ cfLeft > 0 /\ cfLeft' = cfLeft - 1 /\ UNCHANGED cfPhase

parseLibrary(xml) ==
  /\ Element("libraries")
  /\ LET result == xml.name # Nil /\ xml.found
     IN /\ cfLibraries' = IF result THEN cfLibraries \union {xml.name} ELSE cfLibraries
        /\ registerFailure(result)
  /\ UNCHANGED <<cfEffects, cfChains, cfOpened, cfIdentities>>

\* The proxy's own library has no name; every other needs one, and each a UUID.
LibraryParses(lib) == lib.library # Nil /\ lib.uuid # Nil
EffectParses(xml) ==
  /\ xml.name # Nil /\ Len(xml.libraries) > 0 /\ \A i \in DOMAIN xml.libraries : LibraryParses(xml.libraries[i])
  /\ xml.proxy # Nil \/ Len(xml.libraries) = 1
parseEffect(xml) ==
  /\ Element("effects")
  /\ cfEffects' = IF EffectParses(xml)
                  THEN Set(cfEffects, xml.name, [proxy |-> xml.proxy, libraries |-> xml.libraries])
                  ELSE cfEffects
  /\ registerFailure(EffectParses(xml))
  /\ UNCHANGED <<cfLibraries, cfChains, cfOpened, cfIdentities>>

\* A type that has a chain is refused. Mutant: every chain of a known type is taken.
AnyChain(xml) == xml.type # Nil
ChainParses(xml) == xml.type # Nil /\ xml.type \notin DOMAIN cfChains
Chain(type) == IF type \in DOMAIN cfChains THEN cfChains[type] ELSE <<>>
\* An effect that does not exist is left out; without any the type stays free.
Applied(xml) ==
  LET there == SelectSeq(xml.apply, LAMBDA name : name \in DOMAIN cfEffects)
  IN [i \in DOMAIN there |-> cfEffects[there[i]]]
parseProcessing(xml) ==
  /\ Element("chains")
  /\ cfChains' = IF ChainParses(xml) /\ Applied(xml) # <<>>
                 THEN Set(cfChains, xml.type, Chain(xml.type) \o Applied(xml)) ELSE cfChains
  /\ registerFailure(ChainParses(xml))
  /\ UNCHANGED <<cfLibraries, cfEffects, cfOpened, cfIdentities>>

\* The sections of one audio_effects_conf follow each other; another may follow.
NextSection ==
  /\ \/ cfPhase = "libraries" /\ cfPhase' = "effects"
     \/ cfPhase = "effects" /\ cfPhase' = "chains"
     \/ cfPhase = "chains" /\ cfLeft > 0 /\ cfPhase' = "libraries"
     \/ cfPhase = "chains" /\ cfPhase' = "loading"
  /\ UNCHANGED <<cfLeft, cfLibraries, cfEffects, cfChains, cfSkipped, cfOpened, cfIdentities>>

----------------------------------------------------------------------------------
\* findUuid(): the table of names, then the first library that names its type.
findUuid(name, effect) ==
  LET typed == SelectSeq(effect.libraries, LAMBDA lib : lib.type # Nil)
  IN IF name \in KnownEffects THEN name ELSE IF typed = <<>> THEN Nil ELSE typed[1].type
\* createIdentityWithConfig() with openEffectLibrary(), where dlopen() may fail: an
\* implementation that is open stays with its library.
\* Mutant: the identity is inserted before the library is opened.
IdentifiedFirst(opens, lib) == lib.library \in cfLibraries
Identified(opens, lib) == lib.library \in cfLibraries /\ lib.library \in opens
\* openEffectLibrary(), of the libraries at some places: the first of a UUID stays.
openEffectLibrary(libs, places) ==
  LET first(uuid) == CHOOSE i \in places : /\ libs[i].uuid = uuid
                                           /\ \A k \in places : libs[k].uuid = uuid => i <= k
  IN [u \in DOMAIN cfOpened \union {libs[i].uuid : i \in places} |->
        IF u \in DOMAIN cfOpened THEN cfOpened[u] ELSE libs[first(u)].library]
loadEffect(name, opens) ==
  /\ cfPhase = "loading" /\ name \in DOMAIN cfEffects
  /\ LET effect == cfEffects[name]
         type == findUuid(name, effect)
         libs == effect.libraries
     IN /\ cfOpened' = openEffectLibrary(libs,
             {i \in DOMAIN libs : type # Nil /\ libs[i].library \in cfLibraries \intersect opens})
        /\ cfIdentities' = cfIdentities \union
             {[type |-> type, uuid |-> lib.uuid, proxy |-> effect.proxy] :
                lib \in {l \in Range(libs) : type # Nil /\ Identified(opens, l)}}
  \* the map of effects is gone through once, in an order of its own
  /\ cfEffects' = [n \in DOMAIN cfEffects \ {name} |-> cfEffects[n]]
  /\ UNCHANGED <<cfPhase, cfLeft, cfLibraries, cfChains, cfSkipped>>
CfLoaded ==
  /\ cfPhase = "loading" /\ cfEffects = NoEntries /\ cfPhase' = "loaded"
  /\ UNCHANGED <<cfLeft, cfLibraries, cfEffects, cfChains, cfSkipped, cfOpened, cfIdentities>>

CfNext ==
  \/ \E xml \in LibraryElements : parseLibrary(xml)
  \/ \E xml \in EffectElements : parseEffect(xml)
  \/ \E xml \in ChainElements : parseProcessing(xml)
  \/ NextSection \/ CfLoaded
  \/ \E name \in DOMAIN cfEffects, opens \in SUBSET cfLibraries : loadEffect(name, opens)
CfSpec == CfInit /\ [][CfNext]_cfVars

----------------------------------------------------------------------------------
\* queryEffects(): the identities whose implementation is open, which createEffect()
\* asks for as well.
queryEffects(type) == {id \in cfIdentities : (type = Nil \/ id.type = type) /\ id.uuid \in DOMAIN cfOpened}

(* What queryEffects() reports can be created: an identity whose library does not  *)
(* open, or is not in the file, is not offered.                                    *)
ReportedCanBeCreated == cfIdentities = queryEffects(Nil)

(* A chain of a stream, a source or a device is the chain of one element: no later *)
(* element, and no later section of the file, adds to it, nor does a new effect    *)
(* of the same name replace what it holds.                                         *)
ChainsStay == [][\A t \in DOMAIN cfChains : t \in DOMAIN cfChains' /\ cfChains'[t] = cfChains[t]]_cfVars
================================================================================
