------------------------------- MODULE PolicyConfig -------------------------------
(* The policy files. The converters read the modules of the policy file and what   *)
(* the file of the policy engine gives; main() then serves the modules, while the  *)
(* first client that asks for the engine's configuration may be the one that has   *)
(* the volumes of the policy file converted. An element that cannot be converted   *)
(* ends the service (VALUE_OR_FATAL, at() of a missing key). Profiles, gains and    *)
(* formats of an element are left out, so are the criteria, which the build leaves  *)
(* out unless a release flag asks for them.                                         *)
EXTENDS Integers, Sequences, SequencesExt, FiniteSets
CONSTANTS
  ModuleElements,   \* [name, devicePorts, mixPorts, attached, default, routes]
  StrategyElements, \* [name, id, groups], a group is a sequence of attributes
  References,       \* name of an attributesRef |-> whether its attributes are the default ones
  GroupElements,    \* <volumeGroup> of the engine's file: [name, curves], a curve is [ref, points]
  StreamVolumes,    \* <volume> of the policy file: [stream, curve]
  VolumeReferences, \* name of a reference |-> the indices of its points
  LegacyStrategies, \* getLegacyProductStrategyMap()
  VendorStart,      \* VENDOR_STRATEGY_ID_START
  Missing,          \* an attribute that is not given
  MaxPolicyElements

\* What the parser gives: sections and lists are sequences, in the order of the file.
DevicePortElements == [tag : STRING, role : {"source", "sink"}, connection : STRING]
MixPortElements == [name : STRING, role : {"source", "sink"}]
RouteElements == [sink : STRING, sources : Seq(STRING), type : {"mix", "mux"}]
CurveElements == [ref : STRING \union {Missing}, points : SUBSET Int]
\* The default of a module is an output; the legacy ids are those of an enumeration,
\* below the ones of vendors.
ASSUME PolicyAssumption ==
  /\ MaxPolicyElements \in Nat /\ VendorStart \in Nat
  /\ ModuleElements \subseteq
       [name : STRING, devicePorts : Seq(Seq(DevicePortElements)), mixPorts : Seq(Seq(MixPortElements)),
        attached : SUBSET STRING, default : STRING, routes : Seq(RouteElements)]
  /\ \A xml \in ModuleElements : \A i \in DOMAIN xml.devicePorts : \A j \in DOMAIN xml.devicePorts[i] :
       xml.devicePorts[i][j].tag = xml.default => xml.devicePorts[i][j].role = "sink"
  /\ \A xml \in StrategyElements : xml.name \in STRING /\ xml.id \in Int \union {Missing}
  /\ GroupElements \subseteq [name : STRING, curves : Seq(CurveElements)]
  /\ StreamVolumes \subseteq [stream : STRING, curve : CurveElements]
  /\ LegacyStrategies = [n \in DOMAIN LegacyStrategies |-> LegacyStrategies[n]]
  /\ \A n \in DOMAIN LegacyStrategies : LegacyStrategies[n] \in 0..(VendorStart - 1)
  /\ \A m, n \in DOMAIN LegacyStrategies : LegacyStrategies[m] = LegacyStrategies[n] => m = n

VARIABLES
  pcPhase,      \* the section that is converted, "serving" or "ended"
  pcSource,     \* where the engine's configuration is from: "engine", "policy" or "none"
  pcLeft,       \* bound: the elements that may follow
  pcModules,    \* mModuleConfigurations: [xml, config], NoConfiguration for r_submix
  pcHandled, pcServed,       \* main(): modules tried so far, those registered
  pcStrategies, \* productStrategies: [name, id, given, default]
  pcMap, pcNext, pcDefault,  \* mProductStrategyMap, mNextVendorStrategy, mDefaultProductStrategyId
  pcGroups,     \* volumeGroups: [name, curves]
  pcAnswer      \* getEngineConfig(): "none", "volumes" while they are converted, "returned"
pcEngine == <<pcStrategies, pcMap, pcNext, pcDefault>>
pcService == <<pcHandled, pcServed, pcAnswer>>
pcVars == <<pcPhase, pcSource, pcLeft, pcModules, pcService, pcEngine, pcGroups>>

NoConfiguration == [ports |-> <<>>, routes |-> {}]
NoDefault == -2   \* std::nullopt
Marked == -1      \* default attributes were met in the strategy that is converted
PolicyInit ==
  /\ pcPhase = "modules" /\ pcSource \in {"engine", "policy", "none"}
  /\ pcLeft = MaxPolicyElements /\ pcModules = <<>> /\ pcHandled = 0 /\ pcServed = {}
  /\ pcStrategies = <<>> /\ pcMap = LegacyStrategies /\ pcNext = VendorStart
  /\ pcDefault = NoDefault /\ pcGroups = <<>> /\ pcAnswer = "none"

Every(s, Test(_)) == \A i \in DOMAIN s : Test(s[i])
Mapped(s, Op(_)) == [i \in DOMAIN s |-> Op(s[i])]
----------------------------------------------------------------------------------
(* Modules *)
convertDevicePortToAidl(xml, default, id) ==
  [id |-> id, name |-> xml.tag, tag |-> "device", input |-> xml.role = "source",
   connection |-> xml.connection, default |-> xml.tag = default]
\* The role of a mix port is its side of a route: a sink is an input.
convertMixPortToAidl(xml, id) ==
  [id |-> id, name |-> xml.name, tag |-> "mix", input |-> xml.role = "sink",
   connection |-> "", default |-> FALSE]
\* <devicePorts> and <mixPorts> are there once or not at all.
PortsIn(sections) == IF sections = <<>> THEN <<>> ELSE sections[1]
DevicePortsInModule(xml) ==
  [i \in DOMAIN PortsIn(xml.devicePorts) |->
     convertDevicePortToAidl(PortsIn(xml.devicePorts)[i], xml.default, i)]
\* The ids go on where those of the devices ended.
\* Mutant: the counter is handed over by value.
MixPortsFromOne(xml) ==
  [i \in DOMAIN PortsIn(xml.mixPorts) |-> convertMixPortToAidl(PortsIn(xml.mixPorts)[i], i)]
MixPortsInModule(xml) ==
  [i \in DOMAIN PortsIn(xml.mixPorts) |->
     convertMixPortToAidl(PortsIn(xml.mixPorts)[i], Len(PortsIn(xml.devicePorts)) + i)]
AttachedInput(p) == p.input /\ p.connection = ""
\* Mutant: the loop does not end at the first one.
EveryInputDefault(ports) ==
  Mapped(ports, LAMBDA p : IF AttachedInput(p) THEN [p EXCEPT !.default = TRUE] ELSE p)
WithDefaultInput(ports) ==
  LET first == SelectInSeq(ports, AttachedInput)
  IN IF first = 0 THEN ports ELSE [ports EXCEPT ![first].default = TRUE]

\* Of ports with one name the map keeps the first.
PortId(ports, name) == ports[SelectInSeq(ports, LAMBDA p : p.name = name)].id
convertRouteToAidl(route, ports) ==
  [srcs |-> {PortId(ports, route.sources[i]) : i \in DOMAIN route.sources},
   sink |-> PortId(ports, route.sink), exclusive |-> route.type = "mux"]
convertModuleConfigToAidl(xml) ==
  LET ports == WithDefaultInput(DevicePortsInModule(xml)) \o MixPortsInModule(xml)
  IN [ports |-> ports,
      routes |-> {convertRouteToAidl(xml.routes[i], ports) : i \in DOMAIN xml.routes}]

\* The attached devices that the file lists are those whose type has no connection.
ModuleConverts(xml) ==
  LET devices == PortsIn(xml.devicePorts)
      mixes == PortsIn(xml.mixPorts)
      names == {devices[i].tag : i \in DOMAIN devices} \union {mixes[i].name : i \in DOMAIN mixes}
  IN /\ Len(xml.devicePorts) <= 1 /\ Len(xml.mixPorts) <= 1 /\ "" \notin names
     /\ Every(devices, LAMBDA d : d.tag \in xml.attached <=> d.connection = "")
     /\ Every(xml.routes, LAMBDA r : r.sink \in names /\ ToSet(r.sources) \subseteq names)

PolicyElement(phase) == pcPhase = phase /\ pcLeft > 0 /\ pcLeft' = pcLeft - 1 /\ UNCHANGED pcSource
End == pcPhase' = "ended"

\* r_submix keeps the configuration that the code gives it.
ConvertModule(xml) ==
  /\ PolicyElement("modules")
  /\ IF xml.name # "r_submix" /\ ~ModuleConverts(xml) THEN End /\ UNCHANGED pcModules
     ELSE /\ UNCHANGED pcPhase
          /\ pcModules' = Append(pcModules,
               [xml |-> xml, config |-> IF xml.name = "r_submix" THEN NoConfiguration
                                        ELSE convertModuleConfigToAidl(xml)])
  /\ UNCHANGED <<pcService, pcEngine, pcGroups>>
----------------------------------------------------------------------------------
(* Strategies. An attribute is [ref, default]. Default attributes leave a marker    *)
(* that becomes the id of the strategy they are in.                                 *)
AttributeConverts(a) == a.ref # Missing => a.ref \in DOMAIN References
isDefaultAudioAttributes(a) == IF a.ref # Missing THEN References[a.ref] ELSE a.default
HasDefault(xml) ==
  \E i \in DOMAIN xml.groups : \E j \in DOMAIN xml.groups[i] : isDefaultAudioAttributes(xml.groups[i][j])
StrategyConverts(xml) ==
  /\ xml.id # Missing => xml.id >= VendorStart
  /\ Every(xml.groups, LAMBDA g : g # <<>> /\ Every(g, AttributeConverts))

\* Mutant: the next id goes to every name that is not a legacy one.
NextEveryTime(name) == IF name \in DOMAIN LegacyStrategies THEN pcMap[name] ELSE pcNext
convertProductStrategyNameToAidl(name) == IF name \in DOMAIN pcMap THEN pcMap[name] ELSE pcNext
\* Mutant: the marker is turned into an id before the groups are converted.
LateMark(xml, id) == IF HasDefault(xml) THEN Marked ELSE IF pcDefault = Marked THEN id ELSE pcDefault
DefaultAfter(xml, id) ==
  LET marker == IF HasDefault(xml) THEN Marked ELSE pcDefault
  IN IF marker = Marked THEN id ELSE marker
ConvertStrategy(xml) ==
  LET given == xml.id # Missing
      id == IF given THEN xml.id ELSE convertProductStrategyNameToAidl(xml.name)
      new == ~given /\ xml.name \notin DOMAIN pcMap
  IN /\ PolicyElement("strategies")
     /\ IF ~StrategyConverts(xml) THEN End /\ UNCHANGED pcEngine
        ELSE /\ UNCHANGED pcPhase
             /\ pcMap' = IF new THEN [n \in DOMAIN pcMap \union {xml.name} |->
                                        IF n = xml.name THEN pcNext ELSE pcMap[n]] ELSE pcMap
             /\ pcNext' = IF new THEN pcNext + 1 ELSE pcNext
             /\ pcStrategies' = Append(pcStrategies, [name |-> xml.name, id |-> id,
                                         given |-> given, default |-> HasDefault(xml)])
             /\ pcDefault' = DefaultAfter(xml, id)
     /\ UNCHANGED <<pcModules, pcService, pcGroups>>
----------------------------------------------------------------------------------
(* Volumes: groups of the engine's file, or one group for each stream of the policy *)
(* file with the curves of all its <volume> elements.                               *)
Points(curve) == IF curve.ref # Missing THEN VolumeReferences[curve.ref] ELSE curve.points
CurveConverts(curve) ==
  /\ curve.ref # Missing => curve.ref \in DOMAIN VolumeReferences
  /\ Points(curve) \subseteq 0..100   \* MIN_INDEX, MAX_INDEX
convertVolumeGroupToAidl(xml) ==
  /\ PolicyElement("groups")
  /\ IF ~Every(xml.curves, CurveConverts) THEN End /\ UNCHANGED pcGroups
     ELSE UNCHANGED pcPhase
          /\ pcGroups' = Append(pcGroups, [name |-> xml.name, curves |-> Mapped(xml.curves, Points)])
  /\ UNCHANGED <<pcModules, pcService, pcEngine>>

\* Mutant: an element makes a group of its own.
NoGroupOf(stream) == 0
GroupOf(stream) == SelectInSeq(pcGroups, LAMBDA g : g.name = stream)
mapStreamToVolumeCurve(xml) ==
  LET i == GroupOf(xml.stream)
  IN /\ PolicyElement("serving") /\ pcAnswer = "volumes"
     /\ IF ~CurveConverts(xml.curve) THEN End /\ UNCHANGED pcGroups
        ELSE /\ UNCHANGED pcPhase
             /\ pcGroups' =
                  IF i = 0 THEN Append(pcGroups, [name |-> xml.stream, curves |-> <<Points(xml.curve)>>])
                  ELSE [pcGroups EXCEPT ![i].curves = Append(@, Points(xml.curve))]
     /\ UNCHANGED <<pcModules, pcService, pcEngine>>
----------------------------------------------------------------------------------
(* The service *)
SectionAfter(phase) ==
  CASE phase = "modules" /\ pcSource = "engine" -> "strategies"
    [] phase = "strategies" -> "groups"
    [] OTHER -> "serving"
EndSection ==
  /\ pcPhase \in {"modules", "strategies", "groups"} /\ pcPhase' = SectionAfter(pcPhase)
  /\ UNCHANGED <<pcSource, pcLeft, pcModules, pcService, pcEngine, pcGroups>>

NameOf(xml) == IF xml.name = "primary" THEN "default" ELSE xml.name
typeFromString == {"default", "r_submix", "stub", "usb", "bluetooth"}
\* main() goes on with the next module when the name of one is not known.
\* Mutant: it gives up.
CreateOrGiveUp ==
  LET name == NameOf(pcModules[pcHandled + 1].xml)
  IN /\ pcPhase = "serving" /\ pcHandled < Len(pcModules)
     /\ pcHandled' = IF name \in typeFromString THEN pcHandled + 1 ELSE Len(pcModules)
     /\ pcServed' = pcServed \union ({name} \intersect typeFromString)
     /\ UNCHANGED <<pcPhase, pcSource, pcLeft, pcModules, pcEngine, pcGroups, pcAnswer>>
createModule ==
  LET name == NameOf(pcModules[pcHandled + 1].xml)
  IN /\ pcPhase = "serving" /\ pcHandled < Len(pcModules)
     /\ pcHandled' = pcHandled + 1
     /\ pcServed' = pcServed \union ({name} \intersect typeFromString)
     /\ UNCHANGED <<pcPhase, pcSource, pcLeft, pcModules, pcEngine, pcGroups, pcAnswer>>

\* The first call makes the answer that every later one gets.
getEngineConfig ==
  /\ pcPhase = "serving" /\ pcAnswer = "none"
  /\ pcAnswer' = IF pcSource = "policy" THEN "volumes" ELSE "returned"
  /\ UNCHANGED <<pcPhase, pcSource, pcLeft, pcModules, pcHandled, pcServed, pcEngine, pcGroups>>
addVolumeGroupstoEngineConfig ==
  /\ pcPhase = "serving" /\ pcAnswer = "volumes" /\ pcAnswer' = "returned"
  /\ UNCHANGED <<pcPhase, pcSource, pcLeft, pcModules, pcHandled, pcServed, pcEngine, pcGroups>>

PolicyNext ==
  \/ \E xml \in ModuleElements : ConvertModule(xml)
  \/ \E xml \in StrategyElements : ConvertStrategy(xml)
  \/ \E xml \in GroupElements : convertVolumeGroupToAidl(xml)
  \/ \E xml \in StreamVolumes : mapStreamToVolumeCurve(xml)
  \/ EndSection \/ createModule \/ getEngineConfig \/ addVolumeGroupstoEngineConfig
PolicySpec == PolicyInit /\ [][PolicyNext]_pcVars
----------------------------------------------------------------------------------
PolicyTypeOK ==
  /\ pcPhase \in {"modules", "strategies", "groups", "serving", "ended"}
  /\ pcLeft \in 0..MaxPolicyElements /\ pcHandled \in 0..Len(pcModules)
  /\ pcDefault \in Int

\* A module's routes join the ports that its file names, by ids no other port has.
RoutesResolve ==
  \A m \in DOMAIN pcModules :
    LET config == pcModules[m].config
        Names(id) == {p \in ToSet(config.ports) : p.id = id}
    IN /\ \A p, q \in ToSet(config.ports) : p.id = q.id => p = q
       /\ config = NoConfiguration \/
          \A i \in DOMAIN pcModules[m].xml.routes : LET xml == pcModules[m].xml.routes[i] IN
            \E r \in config.routes :
              /\ \A p \in Names(r.sink) : p.name = xml.sink
              /\ {p.name : p \in UNION {Names(id) : id \in r.srcs}} = ToSet(xml.sources)

\* An attached input makes one default input, however many there are.
OneDefaultInput ==
  \A m \in DOMAIN pcModules :
    LET inputs == {p \in ToSet(pcModules[m].config.ports) : p.tag = "device" /\ p.input}
    IN Cardinality({p \in inputs : p.default}) =
         IF \E p \in inputs : AttachedInput(p) THEN 1 ELSE 0

\* Strategies without an id of their own have one id exactly when they have one name,
\* whatever is between them; the default is one with default attributes, if there is one.
StrategiesAreNamed ==
  /\ \A i, j \in DOMAIN pcStrategies : LET s == pcStrategies[i] t == pcStrategies[j] IN
       ~s.given /\ ~t.given => (s.id = t.id <=> s.name = t.name)
  /\ LET defaults == {s.id : s \in {t \in ToSet(pcStrategies) : t.default}}
     IN IF defaults = {} THEN pcDefault = NoDefault ELSE pcDefault \in defaults

\* Every stream has one group, wherever in the file its elements are.
OneGroupPerStream ==
  pcSource = "policy" =>
    \A i, j \in DOMAIN pcGroups : pcGroups[i].name = pcGroups[j].name => i = j

\* When main() has gone through the file every module it knows is served.
KnownModulesServed ==
  pcPhase = "serving" /\ pcHandled = Len(pcModules) =>
    \A m \in DOMAIN pcModules :
      NameOf(pcModules[m].xml) \in typeFromString => NameOf(pcModules[m].xml) \in pcServed
==================================================================================
