--------------------------- MODULE DynamicsProcessing ---------------------------
(* The dynamics processing effect. The client's parameters go into the channels   *)
(* of the engine; the effect's thread takes up what changed before each burst and *)
(* processes the samples in blocks that overlap.                                  *)
EXTENDS Integers, Functions

CONSTANTS
  ChannelCounts,   \* channel counts of the common parameter
  Architectures,   \* [frequency, inUse, bandCount, limiter]
  BandValues,      \* [on, stop, gain]: stop is the bin of the cutoff frequency
  Gains, Groups,   \* input gains in dB; link groups of limiters
  StagesSet,       \* bounds: the stages that the client sets,
  MaxConfigs,      \*   and the configurations of one call
  HalfFft, BlockSize, OverlapSize,
  DpBursts         \* frames of a burst
Stages == {"preEq", "mbc", "postEq"}
Bins == 0..(HalfFft - 1)
ASSUME DpAssumption ==
  /\ ChannelCounts \subseteq Nat /\ DpBursts \subseteq Nat /\ StagesSet \subseteq Stages
  /\ OverlapSize \in Nat \ {0} /\ BlockSize \in Nat /\ OverlapSize < BlockSize
  /\ \A a \in Architectures : a.inUse \in [Stages -> BOOLEAN] /\ a.bandCount \in [Stages -> Nat]

VARIABLES
  dpState,     \* mState: INITIALIZED or ACTIVE
  dpCount,     \* mChannelCount
  dpInited,    \* mEngineInited
  dpArch,      \* mEngineArchitecture
  dpBuilt,     \* the architecture that mDpFreq was made with
  dpEngine,    \* mDpFreq: the channels, their buffers, and the linked limiters
  dpFill       \* frames that the input and the output buffers hold
dpVars == <<dpState, dpCount, dpInited, dpArch, dpBuilt, dpEngine, dpFill>>
dpContext == <<dpState, dpCount, dpInited, dpArch, dpBuilt>>

----------------------------------------------------------------------------------
BandsInUse(a, s) == IF a.inUse[s] THEN a.bandCount[s] ELSE 0
NewBands(a) ==
  [s \in Stages |-> [b \in 1..BandsInUse(a, s) |-> [on |-> FALSE, stop |-> 0, gain |-> 0]]]
AllOff == [s \in Stages |-> FALSE]
NewChannel(a) == [gain |-> 0, on |-> AllOff, bands |-> NewBands(a), limiter |-> [on |-> FALSE, group |-> 0]]
NewBuffer(a) ==
  [gain |-> 0, on |-> AllOff, bands |-> NewBands(a), limiter |-> [on |-> FALSE, group |-> -1],
   factor |-> [s \in {"preEq", "postEq"} |-> [k \in Bins |-> 0]]]
\* dpSetFreqDomainVariant_l()
NewEngine(a, n) ==
  [channels |-> [c \in 1..n |-> NewChannel(a)], buffers |-> [c \in 1..n |-> NewBuffer(a)], linked |-> {}]

\* setEngineArchitecture() for time resolution keeps whatever engine there is.
setEngineArchitecture(a) ==
  /\ IF ~dpInited \/ dpArch # a
     THEN /\ dpInited' = TRUE /\ dpArch' = a
          /\ IF a.frequency
             THEN dpEngine' = NewEngine(a, dpCount) /\ dpBuilt' = a /\ dpFill' = [in |-> 0, out |-> 0]
             ELSE UNCHANGED <<dpEngine, dpBuilt, dpFill>>
     ELSE UNCHANGED <<dpInited, dpArch, dpEngine, dpBuilt, dpFill>>
  /\ UNCHANGED <<dpState, dpCount>>
\* open() without a specific parameter sets the default architecture.
DpInit ==
  /\ dpState = "INITIALIZED" /\ dpCount \in ChannelCounts /\ dpInited = TRUE
  /\ dpArch \in {a \in Architectures : a.frequency} /\ dpBuilt = dpArch
  /\ dpEngine = NewEngine(dpArch, dpCount) /\ dpFill = [in |-> 0, out |-> 0]

enableDynamics ==
  /\ dpState = "INITIALIZED" /\ dpState' = "ACTIVE"
  /\ UNCHANGED <<dpCount, dpInited, dpArch, dpBuilt, dpEngine, dpFill>>
disableDynamics ==
  /\ dpState = "ACTIVE" /\ dpState' = "INITIALIZED"
  /\ UNCHANGED <<dpCount, dpInited, dpArch, dpBuilt, dpEngine, dpFill>>
resetDynamics ==
  /\ dpInited' = FALSE
  /\ UNCHANGED <<dpState, dpCount, dpArch, dpBuilt, dpEngine, dpFill>>
\* The engine keeps the channels it was made with.
setDynamicsCommon(n) ==
  /\ dpCount' = n
  /\ UNCHANGED <<dpState, dpInited, dpArch, dpBuilt, dpEngine, dpFill>>

----------------------------------------------------------------------------------
InEngine(c) == c \in DOMAIN dpEngine.channels
WithChannels(channels) == dpEngine' = [dpEngine EXCEPT !.channels = channels]
\* setDpChannels_l(): a configuration that is refused is skipped, the others are kept,
\* and the last one of a channel stays.
setDpChannels(s, configs) ==
  LET named(c) == {i \in DOMAIN configs : configs[i].channel = c /\ c <= dpCount}
      enabled(c) == \E i \in named(c) : configs[i].enable /\ \A k \in named(c) : k <= i
  IN /\ WithChannels([c \in DOMAIN dpEngine.channels |->
                         IF named(c) = {} THEN dpEngine.channels[c]
                         ELSE [dpEngine.channels[c] EXCEPT !.on[s] = enabled(c)]])
     /\ UNCHANGED <<dpContext, dpFill>>

\* A call names each band once, whatever its channel is. Mutant: one band too many.
ToCount(band, count) == band <= count + 1
validateBand(band, count) == band <= count
validateBandConfig(s, configs) ==
  /\ \A i \in DOMAIN configs : configs[i].channel <= dpCount /\ validateBand(configs[i].band, dpArch.bandCount[s])
  /\ \A i, j \in DOMAIN configs : configs[i].band = configs[j].band => i = j
\* DPEq::setBand() and DPMbc::setBand() leave out a band that the stage has not.
setBand(bands, c, configs) ==
  LET named(b) == {i \in DOMAIN configs : configs[i].channel = c /\ configs[i].band = b}
  IN [b \in DOMAIN bands |-> IF named(b) = {} THEN bands[b] ELSE configs[CHOOSE i \in named(b) : TRUE].value]
Stored(s, configs) ==
  [c \in DOMAIN dpEngine.channels |-> [dpEngine.channels[c] EXCEPT !.bands[s] = setBand(@, c, configs)]]
setBands(s, configs) ==
  /\ IF validateBandConfig(s, configs) THEN WithChannels(Stored(s, configs)) ELSE UNCHANGED dpEngine
  /\ UNCHANGED <<dpContext, dpFill>>
Succeeds(s, configs) == validateBandConfig(s, configs) /\ \A i \in DOMAIN configs : InEngine(configs[i].channel)
\* getEqBandConfigs() and getMbcBand(), with the channels as they are.
ReadBack(s, chs) ==
  UNION {{[channel |-> c, band |-> b, value |-> chs[c].bands[s][b]] :
            b \in 1..dpArch.bandCount[s] \intersect DOMAIN chs[c].bands[s]} :
         c \in 1..dpCount \intersect DOMAIN chs}
setLimiter(c, on, group) ==
  /\ c <= dpCount /\ InEngine(c)
  /\ WithChannels([dpEngine.channels EXCEPT ![c].limiter = [on |-> on, group |-> group]])
  /\ UNCHANGED <<dpContext, dpFill>>
setInputGain(c, gain) ==
  /\ c <= dpCount /\ InEngine(c)
  /\ WithChannels([dpEngine.channels EXCEPT ![c].gain = gain])
  /\ UNCHANGED <<dpContext, dpFill>>

----------------------------------------------------------------------------------
\* The bins of a band begin after those of the band before it; a later band is written
\* over an earlier one, and a bin of no band keeps its factor.
Covering(bands, k) == {b \in DOMAIN bands : k <= bands[b].stop /\ (b = 1 \/ bands[b - 1].stop < k)}
Upper(set) == CHOOSE b \in set : \A a \in set : a <= b
Shaped(bands, old, off, base) ==
  [k \in Bins |-> LET over == Covering(bands, k)
                  IN IF over = {} THEN old[k]
                     ELSE base + (IF bands[Upper(over)].on THEN bands[Upper(over)].gain ELSE off)]
\* The bands of a stage that is off are not looked at.
Taken(cb, p, s) == IF dpBuilt.inUse[s] /\ p.on[s] THEN p.bands[s] ELSE cb.bands[s]
On(cb, p, s) == IF dpBuilt.inUse[s] THEN p.on[s] ELSE cb.on[s]
\* IS_CHANGED over the parameters of a stage. Mutant: the input gain is no part of it.
StageChanged(cb, p, s) == On(cb, p, s) # cb.on[s] \/ Taken(cb, p, s) # cb.bands[s]
Changed(cb, p, s) ==
  On(cb, p, s) # cb.on[s] \/ Taken(cb, p, s) # cb.bands[s] \/ (s = "preEq" /\ p.gain # cb.gain)
updateParameters(cb, p) ==
  LET on == [s \in Stages |-> On(cb, p, s)]
      bands == [s \in Stages |-> Taken(cb, p, s)]
      preEq == IF ~Changed(cb, p, "preEq") THEN cb.factor["preEq"]
               ELSE IF on["preEq"] THEN Shaped(bands["preEq"], cb.factor["preEq"], p.gain, p.gain)
               ELSE [k \in Bins |-> p.gain]
      postEq == IF Changed(cb, p, "postEq") /\ on["postEq"]
                THEN Shaped(bands["postEq"], cb.factor["postEq"], 0, 0) ELSE cb.factor["postEq"]
      limiter == IF ~dpBuilt.limiter THEN cb.limiter
                 ELSE [on |-> p.limiter.on, group |-> IF p.limiter.on THEN p.limiter.group ELSE cb.limiter.group]
  IN [gain |-> p.gain, on |-> on, bands |-> bands, limiter |-> limiter,
      factor |-> [s \in {"preEq", "postEq"} |-> IF s = "preEq" THEN preEq ELSE postEq]]
Relinked(buffers) ==
  LET moved == {c \in DOMAIN buffers : buffers[c].limiter.group # dpEngine.buffers[c].limiter.group}
  IN {l \in dpEngine.linked : l[2] \notin moved} \union {<<buffers[c].limiter.group, c>> : c \in moved}
\* dpeProcess() in the active state: every whole advance of a block goes to the output,
\* which gives the burst as many frames as it has, after zeroes for those it has not.
\* Mutant: a burst that the output cannot fill is all zeroes.
AllOrNone(available, frames) == IF available < frames THEN 0 ELSE frames
FramesRead(available, frames) == IF available < frames THEN available ELSE frames
processDynamics(frames) ==
  LET advance == BlockSize - OverlapSize
      whole == ((dpFill.in + frames) \div advance) * advance
      buffers == [c \in DOMAIN dpEngine.channels |-> updateParameters(dpEngine.buffers[c], dpEngine.channels[c])]
  IN /\ dpState = "ACTIVE"
     /\ dpEngine' = [dpEngine EXCEPT !.buffers = buffers, !.linked = Relinked(buffers)]
     /\ dpFill' = [in |-> dpFill.in + frames - whole, out |-> dpFill.out + whole - FramesRead(dpFill.out + whole, frames)]
     /\ UNCHANGED <<dpContext>>

Configs(S) == UNION {[1..n -> S] : n \in 1..MaxConfigs}
Channels == 1..2
BandConfigs == [channel : Channels, band : 1..2, value : BandValues]
DpNext ==
  \/ enableDynamics \/ disableDynamics \/ resetDynamics
  \/ \E a \in Architectures : setEngineArchitecture(a)
  \/ \E n \in ChannelCounts : setDynamicsCommon(n)
  \/ \E s \in StagesSet : \/ \E configs \in Configs([channel : Channels, enable : BOOLEAN]) : setDpChannels(s, configs)
                          \/ \E configs \in Configs(BandConfigs) : setBands(s, configs)
  \/ \E c \in Channels : \/ \E on \in BOOLEAN, group \in Groups : setLimiter(c, on, group)
                         \/ \E gain \in Gains : setInputGain(c, gain)
  \/ \E frames \in DpBursts : processDynamics(frames)
DpSpec == DpInit /\ [][DpNext]_dpVars

----------------------------------------------------------------------------------
(* A call that answers success has stored its bands, where the engine was made     *)
(* with the architecture that is read back and the stage is in use.                *)
SuccessIsStored ==
  dpBuilt = dpArch =>
    \A s \in {t \in StagesSet : dpArch.inUse[t]} : \A configs \in Configs(BandConfigs) :
      Succeeds(s, configs) => Range(configs) \subseteq ReadBack(s, Stored(s, configs))

\* A burst is shaped with the parameters of its channel.
ShapesBurst ==
  (\E frames \in DpBursts : processDynamics(frames)) =>
    \A c \in DOMAIN dpEngine.channels :
      LET p == dpEngine.channels[c]
          made == dpEngine'.buffers[c].factor
          shaped(s, off, base) == \A k \in Bins : Covering(p.bands[s], k) # {}
                                    => made[s][k] = Shaped(p.bands[s], made[s], off, base)[k]
      IN /\ dpBuilt.inUse["preEq"] /\ p.on["preEq"] => shaped("preEq", p.gain, p.gain)
         /\ ~p.on["preEq"] => \A k \in Bins : made["preEq"][k] = p.gain
         /\ dpBuilt.inUse["postEq"] /\ p.on["postEq"] => shaped("postEq", 0, 0)
(* A burst is shaped with the parameters that the client last set, in every bin    *)
(* that a band of the stage covers, however often the stage was switched, the gain *)
(* changed or bands moved since the stage was last taken up.                       *)
BurstIsShaped == [][ShapesBurst]_dpVars

(* The blocks hold back less than one advance of a block in all: zeroes are put in *)
(* front of a burst only while the stream begins.                                  *)
LatencyBounded == dpFill.in + dpFill.out < BlockSize - OverlapSize
================================================================================
