----------------------------- MODULE ReverbContext ------------------------------
(* One reverb: what the client sets is stored as it is and given to the library   *)
(* converted; a preset reverb takes up the client's preset with the next burst.   *)
EXTENDS Integers, Sequences, SequencesExt

CONSTANTS
  LevelMapping,  \* kLevelMapping up to the level that two parameters in range reach
  LPFMapping,    \* kLPFMapping
  Presets,       \* mReverbPresets: the parameters of each preset but NONE
  Settings       \* what a client sets: a set of values for each parameter
Parameters == {"roomLevel", "roomHfLevel", "decayTime", "decayHfRatio", "level", "diffusion", "density"}
ASSUME ReverbAssumption ==
  /\ DOMAIN Settings = Parameters
  /\ \A p \in DOMAIN Presets : DOMAIN Presets[p] = Parameters
  \* the tables end below 0, and the default levels are not above the first entry
  /\ LevelMapping \in Seq(Int) /\ (LevelMapping # <<>> => LevelMapping[1] >= -12000)
  /\ \A i \in 1..Len(LPFMapping) : LPFMapping[i].roomHf \in Int /\ LPFMapping[i].roomHf < 0

VARIABLES
  rvType,     \* mType
  rvEnabled,  \* mEnabled
  rvBypass,   \* mBypass
  rvPreset,   \* mPreset and mNextPreset
  rvSaved,    \* the parameters as they are read back
  rvLib       \* LVREV_ControlParams_st
rvVars == <<rvType, rvEnabled, rvBypass, rvPreset, rvSaved, rvLib>>

isPreset == rvType \in {"AUX_PRESET", "INSERT_PRESET"}
None == "NONE"

----------------------------------------------------------------------------------
\* convertLevel() and convertHfLevel(): the first entry that is not lower.
convertLevel(level) ==
  LET i == SelectInSeq(LevelMapping, LAMBDA l : level <= l) IN IF i = 0 THEN 0 ELSE i - 1
convertHfLevel(hf) ==
  LET i == SelectInSeq(LPFMapping, LAMBDA pair : hf <= pair.roomHf) IN IF i = 0 THEN 23999 ELSE LPFMapping[i].lpf
kMaxReverbLevel == 2000
\* Mutant: the level alone.
LevelOnly(saved) == convertLevel(saved.level - kMaxReverbLevel)
CombinedLevel(saved) == convertLevel(saved.roomLevel + saved.level - kMaxReverbLevel)

\* The library's parameter that a setter changes, from the parameters as they will be.
LibraryAfter(lib, name, saved) ==
  CASE name \in {"roomLevel", "level"} -> [lib EXCEPT !.Level = CombinedLevel(saved)]
    [] name = "roomHfLevel"  -> [lib EXCEPT !.LPF = convertHfLevel(saved.roomHfLevel)]
    [] name = "decayTime"    -> [lib EXCEPT !.T60 = saved.decayTime]
    [] name = "decayHfRatio" -> [lib EXCEPT !.Damping = saved.decayHfRatio \div 20]
    [] name = "diffusion"    -> [lib EXCEPT !.Density = saved.diffusion \div 10]
    [] name = "density"      -> [lib EXCEPT !.RoomSize = ((saved.density * 99) \div 1000) + 1]
\* setEnvironmentalReverbDecayTime() limits the time to kMaxT60.
Limited(name, value) == IF name = "decayTime" /\ value > 7000 THEN 7000 ELSE value

RvInit ==
  /\ rvType \in {"AUX_ENV", "INSERT_ENV", "AUX_PRESET", "INSERT_PRESET"}
  /\ rvEnabled = FALSE /\ rvBypass = FALSE /\ rvPreset = [loaded |-> None, next |-> None]
  /\ rvSaved = [roomLevel |-> -6000, roomHfLevel |-> 0, decayTime |-> 1490, decayHfRatio |-> 420,
                level |-> -6000, diffusion |-> 1000, density |-> 1000]
  /\ rvLib = [Level |-> 0, LPF |-> 23999, T60 |-> 1490, Damping |-> 21, Density |-> 100, RoomSize |-> 100]

\* A setter: the parameter is stored, then the library is given the converted value.
After(state, name, value) ==
  LET saved == [state.saved EXCEPT ![name] = Limited(name, value)]
  IN [saved |-> saved, lib |-> LibraryAfter(state.lib, name, saved)]
Now == [saved |-> rvSaved, lib |-> rvLib]
\* A setter of the environmental reverb, which a preset reverb takes as well.
setEnvironmentalReverb(name, value) ==
  /\ rvSaved' = After(Now, name, value).saved /\ rvLib' = After(Now, name, value).lib
  /\ UNCHANGED <<rvType, rvEnabled, rvBypass, rvPreset>>
setEnvironmentalReverbBypass(bypass) ==
  rvBypass' = bypass /\ UNCHANGED <<rvType, rvEnabled, rvPreset, rvSaved, rvLib>>
setPresetReverbPreset(preset) ==
  rvPreset' = [rvPreset EXCEPT !.next = preset] /\ UNCHANGED <<rvType, rvEnabled, rvBypass, rvSaved, rvLib>>
enableReverb == ~rvEnabled /\ rvEnabled' = TRUE /\ UNCHANGED <<rvType, rvBypass, rvPreset, rvSaved, rvLib>>
disableReverb == rvEnabled /\ rvEnabled' = FALSE /\ UNCHANGED <<rvType, rvBypass, rvPreset, rvSaved, rvLib>>

\* loadPreset() calls the setters in this order.
AfterPreset(preset) ==
  LET s1 == After(Now, "roomLevel", preset.roomLevel)
      s2 == After(s1, "roomHfLevel", preset.roomHfLevel)
      s3 == After(s2, "decayTime", preset.decayTime)
      s4 == After(s3, "decayHfRatio", preset.decayHfRatio)
      s5 == After(s4, "level", preset.level)
      s6 == After(s5, "diffusion", preset.diffusion)
  IN After(s6, "density", preset.density)
loadPreset ==
  /\ rvPreset' = [rvPreset EXCEPT !.loaded = rvPreset.next]
  /\ IF rvPreset.next = None THEN UNCHANGED <<rvSaved, rvLib>>
     ELSE LET last == AfterPreset(Presets[rvPreset.next])
          IN rvSaved' = last.saved /\ rvLib' = last.lib
processReverb ==
  /\ rvEnabled
  /\ IF ~rvBypass /\ isPreset /\ rvPreset.next # rvPreset.loaded THEN loadPreset
     ELSE UNCHANGED <<rvPreset, rvSaved, rvLib>>
  /\ UNCHANGED <<rvType, rvEnabled, rvBypass>>

RvNext ==
  \/ enableReverb \/ disableReverb \/ processReverb
  \/ \E name \in Parameters : \E value \in Settings[name] : setEnvironmentalReverb(name, value)
  \/ \E bypass \in BOOLEAN : setEnvironmentalReverbBypass(bypass)
  \/ \E preset \in DOMAIN Presets \union {None} : setPresetReverbPreset(preset)
RvSpec == RvInit /\ [][RvNext]_rvVars

----------------------------------------------------------------------------------
(* What the client reads back is what the library works with: in whatever order   *)
(* the parameters, the presets and the two levels that share one parameter of the *)
(* library came.                                                                  *)
LibraryFollowsParameters ==
  /\ rvLib.Level = convertLevel(rvSaved.roomLevel + rvSaved.level - kMaxReverbLevel)
  /\ rvLib.LPF = convertHfLevel(rvSaved.roomHfLevel) /\ rvLib.T60 = rvSaved.decayTime
  /\ rvLib.Damping = rvSaved.decayHfRatio \div 20 /\ rvLib.Density = rvSaved.diffusion \div 10
  /\ rvLib.RoomSize = ((rvSaved.density * 99) \div 1000) + 1
================================================================================
