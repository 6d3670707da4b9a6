-------------------------------- MODULE AlsaDevice --------------------------------
(* An external ALSA device, as the profile that the module reads from it tells:  *)
(* what is advertised for its port, and the device opened for a stream that asks  *)
(* for one of the advertised configurations. A device takes every channel count   *)
(* of a range, and sustains some of them only at lower rates.                      *)
EXTENDS Integers, FiniteSets, SequencesExt
CONSTANTS Sustainable, \* bound: the standard rates that devices may have
          FccLimit,    \* FCC_LIMIT
          MaxChannels, \* bound: channels of a device
          WideDevices  \* whether a device may take no fewer than FCC_LIMIT channels

std_sample_rates ==
  <<96000, 88200, 192000, 176400, 48000, 44100, 32000, 24000, 22050, 16000, 12000, 11025, 8000>>
StdRates == Range(std_sample_rates) \intersect Sustainable
\* Lists follow a table: they are sets, of which this is the first.
FirstOfTable(table, S) == table[Min({i \in DOMAIN table : table[i] \in S})]
Formats == <<"S8", "S16_LE", "S16_BE", "S24_3LE">>  \* bits of the format mask, in order
Known == {"S16_LE", "S24_3LE"}  \* pcm_format_value_map
Described == {"S16_LE", "S24_3LE"}  \* formats that an AudioFormatDescription has
NoFormat == "INVALID"

Cards == [isIn : BOOLEAN, channelsMin : 1..MaxChannels, channelsMax : 1..MaxChannels,
          formats : {{"S16_LE"}, {"S24_3LE"}, {"S16_BE", "S24_3LE"},
                     {"S8", "S16_LE", "S24_3LE"}},
          sustains : [StdRates -> 0..MaxChannels],
          tells : BOOLEAN]  \* whether pcm_params_get() is answered
RatesOf(card) == {r \in DOMAIN card.sustains : card.sustains[r] > 0}
Extreme(S, Least(_, _)) == CHOOSE x \in S : \A y \in S : Least(x, y)
MinRate(card) == Extreme(RatesOf(card), LAMBDA x, y : x <= y)
MaxRate(card) == Extreme(RatesOf(card), LAMBDA x, y : x >= y)

NoCard == [isIn |-> FALSE, channelsMin |-> 0, channelsMax |-> 0, formats |-> {},
           sustains |-> [r \in StdRates |-> 0], tells |-> FALSE]

ASSUME AlsaDeviceAssumption ==
  FccLimit \in Nat \ {0} /\ MaxChannels \in Nat /\ Sustainable \subseteq Nat

VARIABLES
  adCard,     \* the device, or NoCard while none is plugged in
  adOffered,  \* configurations of the profiles of its port
  adStatic,   \* whether these are the ones of the product's policy
  adAsked,    \* what a stream asks for, or NoConfig
  adProxy     \* the alsa_config of the open device, NoConfig when opening failed
adVars == <<adCard, adOffered, adStatic, adAsked, adProxy>>

NoConfig == [rate |-> 0, channels |-> 0, format |-> NoFormat]

(* A port and a stream name channels by a mask: positions, of which one and two     *)
(* channels are supported, or an index mask. Other masks are no channels.           *)
LayoutCounts == {1, 2}
IndexCounts == 1..24
Masks == {"layout", "index"} \X (1..MaxChannels)
\* A positional mask has a count only if it is in the table.
Supported(mask) == mask[2] \in IF mask[1] = "layout" THEN LayoutCounts ELSE IndexCounts
\* Mutant: one channel less in an index mask.
CountBelow(mask) == IF mask[1] = "index" THEN mask[2] - 1 ELSE mask[2]
getChannelCountFromChannelMask(mask) == IF Supported(mask) THEN mask[2] ELSE 0
getChannelMasksFromProfile(profile) ==
  {mask \in {"layout", "index"} \X profile.counts : Supported(mask)}
Requests == [rate : StdRates, mask : Masks, format : Described]
\* The profile that the policy has for outputs.
PolicyConfig == [rate |-> Extreme(StdRates, LAMBDA x, y : x <= y), mask |-> <<"layout", 2>>, format |-> "S16_LE"]
AlsaDeviceInit ==
  /\ adCard = NoCard /\ adOffered = {} /\ adStatic = FALSE
  /\ adAsked = NoConfig /\ adProxy = NoConfig

\* pcm_open() and pcm_is_ready(). A format that tinyalsa does not know is 16 bit.
pcm_open(card, config) ==
  /\ config.channels \in card.channelsMin..card.channelsMax
  /\ config.channels <= card.sustains[config.rate]
  /\ (IF config.format = NoFormat THEN "S16_LE" ELSE config.format) \in card.formats

----------------------------------------------------------------------------------
(* The profile                                                                   *)
get_pcm_format_for_mask(card) ==
  LET wide == card.formats \ {"S8"}
  IN IF wide # {} /\ FirstOfTable(Formats, wide) \in Known THEN FirstOfTable(Formats, wide) ELSE NoFormat
read_alsa_device_config(card) ==
  [channels |-> IF ~card.isIn /\ card.channelsMin < 2 /\ card.channelsMax >= 2 THEN 2
                ELSE card.channelsMin,
   rate |-> IF MinRate(card) < 48000 /\ MaxRate(card) >= 48000 THEN 48000
            ELSE IF MinRate(card) < 44100 /\ MaxRate(card) >= 44100 THEN 44100
            ELSE MinRate(card),
   format |-> get_pcm_format_for_mask(card)]
profile_enum_sample_formats(card) == card.formats \intersect Known

\* The largest count is taken when no count of the device is a standard one.
profile_enum_channel_counts(card) ==
  LET standard == (1..FccLimit) \intersect (card.channelsMin..card.channelsMax)
  IN IF standard = {} THEN {FccLimit} ELSE standard

\* Mutant: a rate is tested with the channels of the default configuration.
TestedWithDefault(card) == read_alsa_device_config(card).channels
TestedChannels(card) ==
  LET default == read_alsa_device_config(card).channels
  IN IF default >= FccLimit THEN default
     ELSE IF card.channelsMax > FccLimit THEN FccLimit ELSE card.channelsMax
profile_test_sample_rate(card, rate) ==
  pcm_open(card, [rate |-> rate, channels |-> TestedChannels(card),
                  format |-> get_pcm_format_for_mask(card)])
profile_enum_sample_rates(card) ==
  {r \in StdRates : r \in MinRate(card)..MaxRate(card) /\ profile_test_sample_rate(card, r)}

profile_read_device_info(card) ==
  [formats |-> profile_enum_sample_formats(card),
   counts |-> profile_enum_channel_counts(card),
   rates |-> profile_enum_sample_rates(card),
   channelsMin |-> card.channelsMin, channelsMax |-> card.channelsMax,
   default |-> read_alsa_device_config(card)]

(* ModuleAlsa::populateConnectedDevicePort()                                     *)
populateConnectedDevicePort(card) ==
  /\ card.tells /\ adCard' = card
  /\ LET profile == profile_read_device_info(card)
     IN adOffered' = {[rate |-> r, mask |-> m, format |-> f] :
                      r \in profile.rates, f \in profile.formats \intersect Described,
                      m \in getChannelMasksFromProfile(profile)}
  /\ adStatic' = FALSE /\ UNCHANGED <<adAsked, adProxy>>

(* ModuleUsb::populateConnectedDevicePort(): an output whose template has profiles *)
(* keeps them, whether the device tells what it takes or not.                       *)
keepStaticProfiles(card) ==
  /\ ~card.isIn /\ adCard' = card
  /\ adOffered' = {PolicyConfig} /\ adStatic' = TRUE
  /\ UNCHANGED <<adAsked, adProxy>>

----------------------------------------------------------------------------------
(* The proxy. proxy_prepare() in the two ways it can be asked: the value of the   *)
(* request where the profile has it, else an error, with the value that a caller   *)
(* who takes another one gets.                                                    *)
Prepared(has, asked, otherwise, exact) == IF has \/ exact THEN asked ELSE otherwise
Closest(profile, n) ==
  IF n < profile.channelsMin THEN profile.channelsMin
  ELSE IF n > profile.channelsMax THEN profile.channelsMax ELSE n
profile_is_channel_count_valid(profile, asked) ==
  asked.channels \in profile.channelsMin..profile.channelsMax
proxy_prepare(profile, asked, exact) ==
  LET rateOk == asked.rate \in profile.rates
      formatOk == asked.format \in profile.formats
      countOk == profile_is_channel_count_valid(profile, asked)
  IN [ok |-> rateOk /\ formatOk /\ countOk,
      config |->
        [rate |-> Prepared(rateOk, asked.rate, profile.default.rate, exact),
         format |-> Prepared(formatOk, asked.format, profile.default.format, exact),
         channels |-> Prepared(countOk, asked.channels, Closest(profile, asked.channels),
                               exact)]]
\* The first rate that opens, 0 when none does.
proxy_scan_rates(card, profile, config, exact) ==
  LET opens == {r \in profile.rates : /\ exact => r = config.rate
                                      /\ pcm_open(card, [config EXCEPT !.rate = r])}
  IN IF opens = {} THEN 0 ELSE FirstOfTable(std_sample_rates, opens)
LimitedChannels(config, highest) == highest # 0 /\ config.rate > highest

\* The configuration of a stream; one of no channels opens nothing.
getPcmConfig(asked) ==
  [rate |-> asked.rate, channels |-> getChannelCountFromChannelMask(asked.mask),
   format |-> asked.format]

(* openDeviceProxies() always requires an exact match, and the profile is read    *)
(* anew.                                                                          *)
openProxyForExternalDevice(asked) ==
  /\ adCard # NoCard /\ adAsked = NoConfig /\ adAsked' = asked
  /\ LET profile == profile_read_device_info(adCard)
         proxy == proxy_prepare(profile, getPcmConfig(asked), TRUE)
         highest == proxy_scan_rates(adCard, profile, proxy.config, TRUE)
     IN adProxy' = IF /\ getPcmConfig(asked).channels > 0 /\ adCard.tells /\ proxy.ok
                      /\ ~LimitedChannels(proxy.config, highest)
                      /\ pcm_open(adCard, proxy.config)
                   THEN proxy.config ELSE NoConfig
  /\ UNCHANGED <<adCard, adOffered, adStatic>>
closeProxy ==
  /\ adAsked # NoConfig /\ adAsked' = NoConfig /\ adProxy' = NoConfig
  /\ UNCHANGED <<adCard, adOffered, adStatic>>
unplug ==
  /\ adCard # NoCard /\ adAsked = NoConfig /\ adCard' = NoCard /\ adOffered' = {}
  /\ adStatic' = FALSE /\ UNCHANGED <<adAsked, adProxy>>

AlsaDeviceNext ==
  \/ /\ adCard = NoCard
     /\ \E card \in Cards : /\ card.channelsMin <= card.channelsMax /\ RatesOf(card) # {}
                            /\ WideDevices \/ card.channelsMin <= FccLimit
                            /\ populateConnectedDevicePort(card) \/ keepStaticProfiles(card)
  \/ \E asked \in Requests : openProxyForExternalDevice(asked)
  \/ closeProxy \/ unplug
AlsaDeviceSpec == AlsaDeviceInit /\ [][AlsaDeviceNext]_adVars

----------------------------------------------------------------------------------
(* A stream that asks for one of the configurations that the port of the device   *)
(* offers gets the device open with it, with as many channels as its mask has:     *)
(* "the configuration should be supported by the connected device". The policy's   *)
(* profiles come from no device.                                                   *)
Meant(asked) == [rate |-> asked.rate, channels |-> asked.mask[2], format |-> asked.format]
OfferedConfigOpens == adAsked \in adOffered /\ ~adStatic => adProxy = Meant(adAsked)

(* "Some USB Audio Class output endpoints reject the TinyALSA HW_REFINE ioctl even *)
(* though they open and play correctly with the static PCM profile": they open.     *)
StaticProfilesOpen ==
  adStatic /\ adAsked \in adOffered /\ pcm_open(adCard, Meant(adAsked)) => adProxy = Meant(adAsked)
=================================================================================
