------------------------------- MODULE AudioModule -------------------------------
(* The audio module's registry: device ports that come and go, port configs,   *)
(* patches with their index mPatches, and the streams that clients open on mix *)
(* port configs. Every call runs alone (the binder object is locked by its     *)
(* caller); what makes it hard is the order of the calls and the calls a       *)
(* stream's driver refuses half way through an update.                          *)
EXTENDS Naturals, FiniteSets, Functions, FiniteSetsExt
CONSTANTS
  InitialPorts,   \* port id -> [tag, device, profiles]; profiles: not only dynamic
  InitialRoutes,  \* a set of [srcs, sink, exclusive]
  Addresses,      \* addresses of external devices
  GainPorts,      \* device ports with a gain controller
  MaxOpen,        \* maxOpenStreamCount of every mix port
  FirstId, LastId, \* the range of nextPortId
  LastPatch,      \* the bound of nextPatchId
  StreamsMayFail  \* a driver may refuse setConnectedDevices()

VARIABLES ports, routes, portConfigs, patches, mPatches, mStreams,
          mConnectedDevicePorts, nextPortId, nextPatchId, simulateDeviceConnections
moduleVars == <<ports, routes, portConfigs, patches, mPatches, mStreams,
                mConnectedDevicePorts, nextPortId, nextPatchId, simulateDeviceConnections>>
registry == <<ports, routes, mConnectedDevicePorts, simulateDeviceConnections>>

Without(f, S) == Restrict(f, DOMAIN f \ S)
With(f, k, v) == [x \in DOMAIN f \union {k} |-> IF x = k THEN v ELSE f[x]]
Mixes == {p \in DOMAIN InitialPorts : InitialPorts[p].tag = "mix"}
Attached == {p \in DOMAIN InitialPorts : InitialPorts[p].tag = "attached"}
\* Ids of the configuration are below those given later; a route joins mix ports and
\* device ports.
ASSUME ModuleAssumption ==
  /\ FirstId \in Nat /\ LastId \in Nat /\ FirstId <= LastId + 1 /\ LastPatch \in Nat
  /\ \A p \in DOMAIN InitialPorts :
        /\ p \in 0..FirstId /\ p # FirstId
        /\ InitialPorts[p].tag \in {"mix", "attached", "template"}
        /\ LET q == InitialPorts[p]
           IN q = [tag |-> q.tag, device |-> q.device, profiles |-> q.profiles]
  /\ \A r \in InitialRoutes :
        /\ r = [srcs |-> r.srcs, sink |-> r.sink, exclusive |-> r.exclusive]
        /\ IF r.sink \in Mixes THEN r.srcs \intersect Mixes = {} ELSE r.srcs \subseteq Mixes
\* The configs of attached devices come with the configuration, under the port's id.
InitialConfigs == [p \in Attached |-> [port |-> p, value |-> "initial"]]
NoPatch == [src |-> {}, snk |-> {}]

ModuleTypeOK ==
  /\ \A p \in DOMAIN ports : ports[p].tag \in {"mix", "attached", "template", "connected"}
  /\ DOMAIN mConnectedDevicePorts = {p \in DOMAIN ports : ports[p].tag = "connected"}
  /\ \A d \in DOMAIN mConnectedDevicePorts : mConnectedDevicePorts[d] \subseteq Mixes
  /\ nextPortId \in FirstId..LastId + 1 /\ nextPatchId \in 1..LastPatch + 1
  /\ \A c \in DOMAIN mStreams : mStreams[c].port \in Mixes
  /\ simulateDeviceConnections \in BOOLEAN

ModuleInit ==
  /\ ports = InitialPorts /\ routes = InitialRoutes
  /\ portConfigs = InitialConfigs
  /\ patches = <<>> /\ mPatches = {} /\ mStreams = <<>> /\ mConnectedDevicePorts = <<>>
  /\ nextPortId = FirstId /\ nextPatchId = 1
  /\ simulateDeviceConnections = FALSE

----------------------------------------------------------------------------------
(* External devices *)
RoutesOf(p) == {r \in routes : p = r.sink \/ p \in r.srcs}
Routable(p) == UNION {IF r.sink = p THEN r.srcs ELSE {r.sink} : r \in RoutesOf(p)}

setModuleDebug(simulate) ==
  /\ simulate # simulateDeviceConnections => mConnectedDevicePorts = <<>>
  /\ simulateDeviceConnections' = simulate
  /\ UNCHANGED <<ports, routes, portConfigs, patches, mPatches, mStreams,
                 mConnectedDevicePorts, nextPortId, nextPatchId>>

(* The id is spent also when the driver reports nothing usable: no profiles    *)
(* while a mix port waits for them. A simulated device has standard profiles.  *)
connectExternalDevice(t, address, outcome) ==
  LET device == <<t, address>>
      id == nextPortId
      waiting == {m \in Routable(t) : ~ports[m].profiles}
      static == outcome = "profiles"
      used == {m \in Routable(t) : \E d \in DOMAIN mConnectedDevicePorts :
                                      m \in mConnectedDevicePorts[d]}
  IN /\ ports[t].tag = "template" /\ id <= LastId
     /\ \A d \in DOMAIN mConnectedDevicePorts : ports[d].device # device
     /\ simulateDeviceConnections => static
     /\ nextPortId' = id + 1
     /\ IF outcome = "fails" \/ (~static /\ waiting # {})
        THEN UNCHANGED <<ports, routes, mConnectedDevicePorts>>
        ELSE /\ ports' = With([p \in DOMAIN ports |->
                                 IF static /\ p \in waiting THEN [ports[p] EXCEPT !.profiles = TRUE]
                                 ELSE ports[p]],
                              id, [tag |-> "connected", device |-> device, profiles |-> static])
             /\ mConnectedDevicePorts' = With(mConnectedDevicePorts, id,
                                              IF static THEN waiting \union used ELSE {})
             /\ routes' = {IF t \in r.srcs THEN [r EXCEPT !.srcs = @ \union {id}] ELSE r : r \in routes}
                          \union {[r EXCEPT !.sink = id] : r \in {q \in routes : q.sink = t}}
     /\ UNCHANGED <<portConfigs, patches, mPatches, mStreams, nextPatchId,
                    simulateDeviceConnections>>

ClientConfig(c) == c \notin DOMAIN InitialConfigs \/ portConfigs[c] # InitialConfigs[c]
\* Mutant: the profiles go with the device that brought them.
NoOtherUsers(d) == {}
OtherUsers(d) == UNION {mConnectedDevicePorts[e] : e \in DOMAIN mConnectedDevicePorts \ {d}}
\* Mutant: the client's configs of the port are not looked for.
NeverHasConfig(d) == FALSE
HasClientConfig(d) == \E c \in DOMAIN portConfigs : portConfigs[c].port = d /\ ClientConfig(c)

disconnectExternalDevice(d) ==
  LET clear == mConnectedDevicePorts[d] \ OtherUsers(d)
  IN /\ d \in DOMAIN mConnectedDevicePorts
     /\ ~HasClientConfig(d)
     /\ ports' = [p \in DOMAIN ports \ {d} |->
                    IF p \in clear THEN [ports[p] EXCEPT !.profiles = FALSE] ELSE ports[p]]
     /\ routes' = {[r EXCEPT !.srcs = @ \ {d}] : r \in {q \in routes : q.sink # d}}
     /\ mConnectedDevicePorts' = Without(mConnectedDevicePorts, {d})
     /\ UNCHANGED <<portConfigs, patches, mPatches, mStreams, nextPortId,
                    nextPatchId, simulateDeviceConnections>>

----------------------------------------------------------------------------------
(* Port configs *)
Open(c) == c \in DOMAIN mStreams /\ mStreams[c].open
\* Streams::count() first erases the streams that were closed.
CountedStreams == Restrict(mStreams, {c \in DOMAIN mStreams : mStreams[c].open})

(* The gain goes to the stream that the multimap finds under each source port, *)
(* closed ones included, also when the config is then not applied.              *)
GainGoesTo(p, S) ==
  LET fed == {m \in Mixes : \E r \in routes : r.sink = p /\ m \in r.srcs}
      on(m) == {c \in DOMAIN mStreams : mStreams[c].port = m}
  IN /\ \A c \in S : mStreams[c].port \in fed
     /\ \A m \in fed : Cardinality(S \intersect on(m)) = IF on(m) = {} THEN 0 ELSE 1
WithGain(S, gain) == [c \in DOMAIN mStreams |->
                        IF c \in S THEN [mStreams[c] EXCEPT !.gain = gain] ELSE mStreams[c]]

Configurable(p) == /\ p \in DOMAIN ports /\ ports[p].tag # "template"
                   /\ ports[p].tag = "mix" => ports[p].profiles
ApplyGain(p, gain) ==
  \/ gain = "keep" /\ UNCHANGED mStreams
  \/ /\ gain # "keep" /\ p \in GainPorts
     /\ \E S \in SUBSET DOMAIN mStreams : GainGoesTo(p, S) /\ mStreams' = WithGain(S, gain)

setAudioPortConfigNew(p, gain, complete) ==
  /\ Configurable(p) /\ nextPortId <= LastId
  /\ ApplyGain(p, gain)
  /\ IF complete
     THEN /\ portConfigs' = With(portConfigs, nextPortId, [port |-> p, value |-> "client"])
          /\ nextPortId' = nextPortId + 1
     ELSE UNCHANGED <<portConfigs, nextPortId>>
  /\ UNCHANGED <<registry, patches, mPatches, nextPatchId>>

setAudioPortConfigExisting(c, gain, valid) ==
  /\ Configurable(portConfigs[c].port)
  /\ ApplyGain(portConfigs[c].port, gain)
  /\ portConfigs' = IF valid THEN [portConfigs EXCEPT ![c].value = "client"] ELSE portConfigs
  /\ UNCHANGED <<registry, patches, mPatches, nextPortId, nextPatchId>>

InUse(c) == \E e \in mPatches : e[1] = c
resetAudioPortConfig(c) ==
  /\ mStreams' = CountedStreams
  /\ IF Open(c) \/ InUse(c) THEN UNCHANGED portConfigs
     ELSE portConfigs' = IF c \in DOMAIN InitialConfigs
                         THEN [portConfigs EXCEPT ![c] = InitialConfigs[c]]
                         ELSE Without(portConfigs, {c})
  /\ UNCHANGED <<registry, patches, mPatches, nextPortId, nextPatchId>>
----------------------------------------------------------------------------------
(* Patches *)
PortsOf(S) == {portConfigs[c].port : c \in S}
Entries(id, patch) == {<<c, id>> : c \in patch.src \union patch.snk}
                      \union {<<p, id>> : p \in PortsOf(patch.src \union patch.snk)}
cleanUpPatch(id) == {e \in mPatches : e[2] # id}

(* The devices of a patch by mix port config: none if no stream is open on it. *)
Connections(patch) ==
  IF \E c \in patch.src : Open(c) THEN [c \in patch.src |-> patch.snk]
  ELSE IF \E c \in patch.snk : Open(c) THEN [c \in patch.snk |-> patch.src]
  ELSE <<>>
Devices(connections, c) == IF c \in DOMAIN connections THEN connections[c] ELSE {}
Routed(S, connections, T, others) ==
  [c \in DOMAIN CountedStreams |->
     IF c \in S THEN [mStreams[c] EXCEPT !.devices = Devices(connections, c)]
     ELSE IF c \in T THEN [mStreams[c] EXCEPT !.devices = Devices(others, c)] ELSE mStreams[c]]

(* The streams are told their devices one by one in the order of their ids,    *)
(* those that lose all of them first. If one refuses, it and the ones told so  *)
(* far are told the old patch's devices, which any of them may refuse.          *)
updateStreamsConnectedState(old, new, ok) ==
  LET was == Connections(old)
      is == Connections(new)
      left == DOMAIN was \ DOMAIN is
      joined == {c \in DOMAIN is : c \notin DOMAIN was \/ was[c] # is[c]}
      told(f) == IF f \in left THEN {c \in left : c < f}
                 ELSE left \union {c \in joined : c < f}
  IN IF ok THEN mStreams' = Routed(left \union joined, is, {}, is)
     ELSE /\ StreamsMayFail
          /\ \E f \in left \union joined, back \in SUBSET (left \union joined) :
                /\ Open(f) /\ back \subseteq told(f) \union {f}
                /\ mStreams' = Routed(back, was, told(f), is)

Exclusive(k, sources) == \A r \in routes : r.sink = k /\ r.srcs \intersect PortsOf(sources) # {}
                                             => r.exclusive
Reached(sources) == {r.sink : r \in {q \in routes : q.srcs \intersect PortsOf(sources) # {}}}
ReachedConfigs(sources) == {c \in DOMAIN portConfigs : portConfigs[c].port \in Reached(sources)}
\* Mutant: the patch that is changed is the only one looked at.
PatchAllowedAnyway(id, src, snk) == PortsOf(snk) \subseteq Reached(src)
PatchAllowed(id, src, snk) ==
  /\ PortsOf(snk) \subseteq Reached(src)
  /\ \A k \in Reached(src) : Exclusive(k, src) => ~\E e \in cleanUpPatch(id) : e[1] = k

(* A refused new patch is not taken back: existing, an iterator from before    *)
(* push_back(), no longer compares equal to end(). Either it points into the   *)
(* freed array, and the new patch stays, or at the new patch, which the empty  *)
(* patch overwrites.                                                            *)
setAudioPatchNew(src, snk, ok) ==
  LET id == nextPatchId
      patch == [src |-> src, snk |-> snk]
  IN /\ id <= LastPatch
     /\ PatchAllowed(0, src, snk)
     /\ nextPatchId' = id + 1
     /\ updateStreamsConnectedState(NoPatch, patch, ok)
     /\ IF ok THEN patches' = With(patches, id, patch)
        ELSE patches' \in {With(patches, id, patch), With(patches, 0, NoPatch)}
     /\ mPatches' = IF ok THEN mPatches \union Entries(id, patch) ELSE mPatches
     /\ UNCHANGED <<registry, portConfigs, nextPortId>>

(* The second backup of mPatches is taken after the old entries were removed.  *)
setAudioPatchExisting(id, src, snk, ok) ==
  LET patch == [src |-> src, snk |-> snk]
  IN /\ id # 0
     /\ PatchAllowed(id, src, snk)
     /\ updateStreamsConnectedState(patches[id], patch, ok)
     /\ patches' = IF ok THEN With(patches, id, patch) ELSE patches
     /\ mPatches' = cleanUpPatch(id) \union IF ok THEN Entries(id, patch) ELSE {}
     /\ UNCHANGED <<registry, portConfigs, nextPortId, nextPatchId>>

\* Mutant: the index keeps the entries of an erased patch.
resetAudioPatchOnly(id, ok) ==
  /\ updateStreamsConnectedState(patches[id], NoPatch, ok)
  /\ patches' = IF ok THEN Without(patches, {id}) ELSE patches
  /\ UNCHANGED <<registry, portConfigs, mPatches, nextPortId, nextPatchId>>
resetAudioPatch(id, ok) ==
  /\ updateStreamsConnectedState(patches[id], NoPatch, ok)
  /\ patches' = IF ok THEN Without(patches, {id}) ELSE patches
  /\ mPatches' = IF ok THEN cleanUpPatch(id) ELSE mPatches
  /\ UNCHANGED <<registry, portConfigs, nextPortId, nextPatchId>>

----------------------------------------------------------------------------------
(* Streams *)
Peers(id, c) == IF c \in patches[id].src THEN patches[id].snk ELSE patches[id].src
findConnectedDevices(c) == UNION {Peers(e[2], c) : e \in {f \in mPatches : f[1] = c}}

Openable(c) == LET p == portConfigs[c].port
               IN /\ p \in Mixes /\ ~Open(c)
                  /\ Cardinality({d \in DOMAIN mStreams : Open(d) /\ mStreams[d].port = p}) < MaxOpen
openStream(c, ok) ==
  /\ mStreams' = IF Openable(c) /\ ok
                 THEN With(CountedStreams, c, [port |-> portConfigs[c].port, open |-> TRUE,
                                        devices |-> findConnectedDevices(c), gain |-> "unity"])
                 ELSE CountedStreams
  /\ UNCHANGED <<registry, portConfigs, patches, mPatches, nextPortId, nextPatchId>>
closeStream(c) ==
  /\ Open(c)
  /\ mStreams' = [mStreams EXCEPT ![c].open = FALSE]
  /\ UNCHANGED <<registry, portConfigs, patches, mPatches, nextPortId, nextPatchId>>

----------------------------------------------------------------------------------
\* Whether the drivers of the streams take their new devices.
Accepted == IF StreamsMayFail THEN BOOLEAN ELSE {TRUE}
ModuleNext ==
  \/ \E simulate \in BOOLEAN : setModuleDebug(simulate)
  \/ \E t \in DOMAIN ports, a \in Addresses, o \in {"fails", "dynamic", "profiles"} :
        connectExternalDevice(t, a, o)
  \/ \E d \in DOMAIN mConnectedDevicePorts : disconnectExternalDevice(d)
  \/ \E p \in DOMAIN ports, g \in {"keep", "set"}, b \in BOOLEAN : setAudioPortConfigNew(p, g, b)
  \/ \E c \in DOMAIN portConfigs, g \in {"keep", "set"}, b \in BOOLEAN :
        setAudioPortConfigExisting(c, g, b)
  \/ \E c \in DOMAIN portConfigs : resetAudioPortConfig(c)
  \/ \E s \in SUBSET DOMAIN portConfigs \ {{}}, ok \in Accepted :
       \E k \in SUBSET ReachedConfigs(s) \ {{}} :
         \/ setAudioPatchNew(s, k, ok)
         \/ \E id \in DOMAIN patches : setAudioPatchExisting(id, s, k, ok)
  \/ \E id \in DOMAIN patches, ok \in Accepted : resetAudioPatch(id, ok)
  \/ \E c \in DOMAIN portConfigs, ok \in BOOLEAN : openStream(c, ok)
  \/ \E c \in DOMAIN mStreams : closeStream(c)
ModuleSpec == ModuleInit /\ [][ModuleNext]_moduleVars

(* What the module refers to by id exists: the configs of patches and open     *)
(* streams, the ports of configs, the patches of the index. The lookups that   *)
(* end the audio service (LOG(FATAL), CHECK, an unchecked iterator) find it.    *)
ReferencesHold ==
  /\ \A c \in DOMAIN portConfigs : portConfigs[c].port \in DOMAIN ports
  /\ \A id \in DOMAIN patches : patches[id].src \union patches[id].snk \subseteq DOMAIN portConfigs
  /\ \A c \in DOMAIN mStreams : Open(c) => c \in DOMAIN portConfigs
  /\ \A e \in mPatches : e[2] \in DOMAIN patches

(* A mix port without profiles of its own has some exactly while a device that *)
(* it took them from, or shares them with, is connected.                        *)
ProfilesAreOwned ==
  \A m \in Mixes : ~InitialPorts[m].profiles =>
     (ports[m].profiles <=> \E d \in DOMAIN mConnectedDevicePorts : m \in mConnectedDevicePorts[d])

(* A sink that only exclusive routes reach is in at most one patch.            *)
ExclusiveSink ==
  \A k \in {r.sink : r \in routes} : (\A r \in routes : r.sink = k => r.exclusive) =>
     Cardinality({id \in DOMAIN patches : k \in PortsOf(patches[id].snk)}) <= 1

(* The index holds every patch under each of its configs and their ports.      *)
PatchesIndexed == mPatches = UNION {Entries(id, patches[id]) : id \in DOMAIN patches}
==================================================================================
