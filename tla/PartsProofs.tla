---------------------------- MODULE PartsProofs ----------------------------
(***************************************************************************)
(* Proofs about Configuration, for any layers, units, directories,         *)
(* commands and edits, about RateGuards, for any senders, addresses,       *)
(* windows, thresholds, capacities, cooldowns and delays, and about        *)
(* Maintenance, for any devices, locations, days, retentions and schedule; *)
(* and that the parts which are checked together are of their types.       *)
(***************************************************************************)
EXTENDS MCParts, EvidenceProofs

-----------------------------------------------------------------------------
(***************************************************************************)
(* Durations                                                               *)
(***************************************************************************)

\* A duration is a number of seconds below the width, whatever was multiplied.
LEMMA ParseType ==
  ASSUME NEW text \in [n : Nat, unit : DOMAIN SecondsIn]
  PROVE  Parse(text) \in 0..Width - 1
<1>1. text.n \in Nat /\ SecondsIn[text.unit] \in Nat /\ Width \in Nat \ {0}
  BY ConfigurationAssumption
<1>2. text.n * SecondsIn[text.unit] \in Nat
  BY <1>1
<1> QED  BY <1>1, <1>2 DEF Parse

\* to_human chooses a unit that divides what is written in it.
LEMMA UnitDivides ==
  ASSUME NEW s \in Nat, s # 0
  PROVE  \E u \in DOMAIN SecondsIn :
           /\ s % SecondsIn[u] = 0
           /\ ToHuman(s) = [n |-> s \div SecondsIn[u], unit |-> u]
<1> DEFINE dividing == {u \in DOMAIN SecondsIn : s % SecondsIn[u] = 0}
           rest == {Width - SecondsIn[u] : u \in dividing}
<1>1. "s" \in dividing
  <2>1. s % 1 = 0  OBVIOUS
  <2> QED  BY <2>1, ConfigurationAssumption
<1>2. rest \in SUBSET Nat /\ rest # {}
  BY <1>1, ConfigurationAssumption
<1>3. PICK x \in rest : \A y \in rest : x <= y
  <2> HIDE DEF rest
  <2> QED  BY <1>2, LeastNumber
<1>4. PICK v \in dividing : x = Width - SecondsIn[v]
  BY <1>3
<1>5. \A w \in dividing : SecondsIn[w] <= SecondsIn[v]
  <2> TAKE w \in dividing
  <2>1. Width - SecondsIn[v] <= Width - SecondsIn[w]
    BY <1>3, <1>4
  <2> QED  BY <2>1, ConfigurationAssumption
<1> DEFINE u == CHOOSE v_1 \in dividing : \A w \in dividing : SecondsIn[w] <= SecondsIn[v_1]
<1>6. u \in dividing
  <2> HIDE DEF dividing
  <2> QED  BY <1>4, <1>5
<1>7. ToHuman(s) = [n |-> s \div SecondsIn[u], unit |-> u]
  BY DEF ToHuman
<1> HIDE DEF u
<1> QED  BY <1>6, <1>7

\* A duration that is written out reads back as itself (config.rs:118).
LEMMA RoundTrip ==
  ASSUME NEW s \in 0..Width - 1
  PROVE  /\ ToHuman(s) \in [n : Nat, unit : DOMAIN SecondsIn]
         /\ Parse(ToHuman(s)) = s
<1>1. Width \in Nat \ {0} /\ s \in Nat /\ s < Width
  BY ConfigurationAssumption
<1>2. s % Width = s
  BY <1>1
<1>3. CASE s = 0
  <2>1. ToHuman(s) = [n |-> 0, unit |-> "s"]
    BY <1>3 DEF ToHuman
  <2>2. Parse([n |-> 0, unit |-> "s"]) = 0 % Width
    BY ConfigurationAssumption DEF Parse
  <2> QED  BY <1>2, <1>3, <2>1, <2>2, ConfigurationAssumption
<1>4. CASE s # 0
  <2>1. PICK u \in DOMAIN SecondsIn : /\ s % SecondsIn[u] = 0
                                      /\ ToHuman(s) = [n |-> s \div SecondsIn[u], unit |-> u]
    BY <1>1, <1>4, UnitDivides
  <2>2. SecondsIn[u] \in Nat \ {0}
    BY ConfigurationAssumption
  <2>3. (s \div SecondsIn[u]) * SecondsIn[u] = s /\ s \div SecondsIn[u] \in Nat
    BY <1>1, <2>1, <2>2
  <2>4. Parse(ToHuman(s)) = ((s \div SecondsIn[u]) * SecondsIn[u]) % Width
    BY <2>1 DEF Parse
  <2> QED  BY <1>2, <2>1, <2>3, <2>4
<1> QED  BY <1>3, <1>4
-----------------------------------------------------------------------------
(***************************************************************************)
(* Quiet hours                                                             *)
(***************************************************************************)

ClockTimes == [hour : 0..1, minute : 0..(DayMinutes \div 2) - 1]

\* A clock time is a minute of the day.
LEMMA MinutesType ==
  ASSUME NEW t \in ClockTimes
  PROVE  Minutes(t) \in 0..DayMinutes - 1
BY ConfigurationAssumption DEF ClockTimes, Minutes

\* A quiet period is as long as from its start to its end, wherever midnight
\* falls, and is over at its end.
LEMMA QuietLength ==
  ASSUME NEW hours \in [start : ClockTimes, end : ClockTimes]
  PROVE  LET quiet == {now \in 0..DayMinutes - 1 : QuietContains(hours, now)}
             start == Minutes(hours.start)
             end == Minutes(hours.end)
         IN  /\ Cardinality(quiet) = (end - start) % DayMinutes
             /\ end \notin quiet /\ (quiet # {} => start \in quiet)
<1> DEFINE quiet == {now \in 0..DayMinutes - 1 : QuietContains(hours, now)}
           start == Minutes(hours.start)
           end == Minutes(hours.end)
<1>1. start \in 0..DayMinutes - 1 /\ end \in 0..DayMinutes - 1 /\ DayMinutes \in Nat \ {0}
  BY MinutesType, ConfigurationAssumption
<1>2. \A now : /\ start = end => ~QuietContains(hours, now)
               /\ start < end => (QuietContains(hours, now) <=> start <= now /\ now < end)
               /\ end < start => (QuietContains(hours, now) <=> start <= now \/ now < end)
  BY <1>1 DEF QuietContains
<1> HIDE DEF start, end
<1>3. CASE start = end
  <2>1. quiet = {}
    BY <1>2, <1>3
  <2>2. (end - start) % DayMinutes = 0
    BY <1>1, <1>3
  <2> QED  BY <2>1, <2>2, FS_EmptySet DEF start, end
<1>4. CASE start < end
  <2>1. quiet = start..(end - 1)
    BY <1>1, <1>2, <1>4
  <2>2. Cardinality(start..(end - 1)) = end - start
    BY <1>1, <1>4, FS_Interval
  <2>3. end - start \in Nat /\ end - start < DayMinutes
    BY <1>1, <1>4
  <2>4. (end - start) % DayMinutes = end - start
    BY <1>1, <2>3
  <2>5. end \notin start..(end - 1) /\ start \in start..(end - 1)
    BY <1>1, <1>4
  <2> QED  BY <2>1, <2>2, <2>4, <2>5 DEF start, end
<1>5. CASE end < start
  <2>1. quiet = (start..(DayMinutes - 1)) \cup (0..(end - 1))
    BY <1>1, <1>2, <1>5
  <2>2. /\ IsFiniteSet(start..(DayMinutes - 1))
        /\ Cardinality(start..(DayMinutes - 1)) = DayMinutes - start
    BY <1>1, FS_Interval
  <2>3. /\ IsFiniteSet(0..(end - 1))
        /\ Cardinality(0..(end - 1)) = end
    BY <1>1, FS_Interval
  <2>4. (start..(DayMinutes - 1)) \cap (0..(end - 1)) = {}
    BY <1>1, <1>5
  <2>5. Cardinality({}) = 0
    BY FS_EmptySet
  <2>6. Cardinality(quiet) = (DayMinutes - start) + end - Cardinality({})
    <3> DEFINE late == start..(DayMinutes - 1)
               first == 0..(end - 1)
    <3>1. /\ IsFiniteSet(late) /\ Cardinality(late) = DayMinutes - start
          /\ IsFiniteSet(first) /\ Cardinality(first) = end
          /\ quiet = late \cup first /\ late \cap first = {}
      BY <2>1, <2>2, <2>3, <2>4
    <3> HIDE DEF late, first, quiet
    <3> QED  BY <3>1, FS_Union
  <2>7. start - end \in Nat /\ start - end > 0 /\ start - end < DayMinutes
    BY <1>1, <1>5
  <2>8. (0 - (start - end)) % DayMinutes = DayMinutes - (start - end)
    BY <1>1, <2>7
  <2>9. end - start = 0 - (start - end)
    BY <1>1
  <2>10. Cardinality(quiet) = (end - start) % DayMinutes
    BY <1>1, <2>5, <2>6, <2>8, <2>9
  <2>11. end \notin quiet /\ start \in quiet
    BY <1>1, <1>2, <1>5
  <2> QED  BY <2>10, <2>11 DEF start, end
<1> QED  BY <1>1, <1>3, <1>4, <1>5
-----------------------------------------------------------------------------
(***************************************************************************)
(* Defaults and layers                                                     *)
(***************************************************************************)

\* The keys that are parsed and the ones that are looked up have a default.
LEMMA KeysHaveDefaults ==
  Durations \cup {"notify.quiet_hours", "people", "database.url"} \subseteq DOMAIN Defaults
<1>1. {"notify.quiet_hours", "people", "database.url"} \subseteq Keys(Sections)
  <2>1. /\ <<"notify.quiet_hours", [start |-> Time(0, 0), end |-> Time(0, 0)]>> \in Sections
        /\ <<"people", << >>>> \in Sections
        /\ <<"database.url", "compiled">> \in Sections
    BY DEF Sections, NotifyConfig, PeopleConfig, DatabaseConfig
  <2> QED  BY <2>1 DEF Keys
<1>2. Durations \subseteq Keys(Sections)
  <2>1. Keys(StateConfig) \subseteq Keys(Sections)
    BY DEF Keys, Sections
  <2>2. /\ <<"learning.duration", 3>> \in Sections
        /\ <<"identity.reverse_dns_ttl", 6>> \in Sections
        /\ <<"notify.debounce", 2>> \in Sections
        /\ <<"notify.batch_window", 1>> \in Sections
        /\ <<"runtime.status_interval", 2>> \in Sections
        /\ <<"enrichment.unifi.poll_interval", 2>> \in Sections
        /\ <<"security.arp_scan.window", 2>> \in Sections
        /\ <<"security.gratuitous_arp.window", 1>> \in Sections
        /\ <<"security.ip_conflict.active_within", 4>> \in Sections
    BY DEF Sections, LearningConfig, IdentityConfig, NotifyConfig, RuntimeConfig, UnifiConfig,
           AnalyzerConfigs
  <2>3. {"learning.duration", "identity.reverse_dns_ttl", "notify.debounce",
         "notify.batch_window", "runtime.status_interval", "enrichment.unifi.poll_interval",
         "security.arp_scan.window", "security.gratuitous_arp.window",
         "security.ip_conflict.active_within"} \subseteq Keys(Sections)
    BY <2>2 DEF Keys
  <2> QED  BY <2>1, <2>3 DEF Durations
<1> QED  BY <1>1, <1>2 DEF Defaults

\* There are no people and no quiet hours by default.
LEMMA NothingByDefault ==
  /\ Defaults["notify.quiet_hours"] = [start |-> Time(0, 0), end |-> Time(0, 0)]
  /\ Defaults["people"] = << >>
<1> DEFINE Silent(section) == \A pair \in section :
             pair[1] # "notify.quiet_hours" /\ pair[1] # "people"
           none == [start |-> Time(0, 0), end |-> Time(0, 0)]
<1>1. /\ \A pair \in Sections : pair[1] = "notify.quiet_hours" => pair[2] = none
      /\ \A pair \in Sections : pair[1] = "people" => pair[2] = << >>
  <2> HIDE DEF none
  <2>1. Silent(DatabaseConfig) /\ Silent(CaptureConfig)
    BY DEF DatabaseConfig, CaptureConfig
  <2>2. Silent(StateConfig)
    BY DEF StateConfig
  <2>3. Silent(IdentityConfig) /\ Silent(LearningConfig)
    BY DEF IdentityConfig, LearningConfig
  <2>4. Silent(NtfyConfig) /\ Silent(SecurityConfig)
    BY DEF NtfyConfig, SecurityConfig
  <2>5. Silent(AnalyzerConfigs)
    BY DEF AnalyzerConfigs
  <2>6. Silent(UnifiConfig) /\ Silent(MaintenanceConfig) /\ Silent(RuntimeConfig)
    BY DEF UnifiConfig, MaintenanceConfig, RuntimeConfig
  <2>7. \A pair \in NotifyConfig : /\ pair[1] = "notify.quiet_hours" => pair[2] = none
                                  /\ pair[1] # "people"
    <3> TAKE pair \in NotifyConfig
    <3>1. CASE pair = <<"notify.quiet_hours", none>>
      BY <3>1
    <3>2. CASE pair # <<"notify.quiet_hours", none>>
      <4>1. \/ pair = <<"notify.enabled", TRUE>>
            \/ pair = <<"notify.debounce", 2>> \/ pair = <<"notify.batch_window", 1>>
        BY <3>2 DEF NotifyConfig, none
      <4>2. /\ <<"notify.enabled", TRUE>>[1] = "notify.enabled"
            /\ <<"notify.debounce", 2>>[1] = "notify.debounce"
            /\ <<"notify.batch_window", 1>>[1] = "notify.batch_window"
        OBVIOUS
      <4>3. pair[1] \in {"notify.enabled", "notify.debounce", "notify.batch_window"}
        BY <4>1, <4>2
      <4> QED  BY <4>3
    <3> QED  BY <3>1, <3>2
  <2>8. \A pair \in PeopleConfig : pair[1] = "people" /\ pair[2] = << >>
    BY DEF PeopleConfig
  <2> HIDE DEF Silent
  <2>9. \A pair \in Sections \ (NotifyConfig \cup PeopleConfig) :
          pair[1] # "notify.quiet_hours" /\ pair[1] # "people"
    BY <2>1, <2>2, <2>3, <2>4, <2>5, <2>6 DEF Sections, Silent
  <2> QED  BY <2>7, <2>8, <2>9
<1>3. {"notify.quiet_hours", "people"} \subseteq Keys(Sections)
  BY KeysHaveDefaults DEF Defaults
<1>4. \A k \in Keys(Sections) : \E pair \in Sections : pair[1] = k
  BY DEF Keys
<1> QED  BY <1>1, <1>3, <1>4 DEF Defaults

\* The layer of the defaults is as well formed as what is parsed.
LEMMA DefaultsWellFormed == WellFormed(SerializedDefaults)
<1> SUFFICES ASSUME NEW k \in DOMAIN SerializedDefaults
             PROVE  /\ k \in Durations =>
                         SerializedDefaults[k] \in [n : Nat, unit : DOMAIN SecondsIn]
                    /\ k = "notify.quiet_hours" =>
                         SerializedDefaults[k] \in [start : ClockTimes, end : ClockTimes]
                    /\ k = "people" => SerializedDefaults[k] = << >>
  BY DEF WellFormed, ClockTimes
<1>1. k \in DOMAIN Defaults
  BY DEF SerializedDefaults
<1>2. CASE k \in Durations
  <2>1. SerializedDefaults[k] = ToHuman(Defaults[k])
    BY <1>1, <1>2 DEF SerializedDefaults
  <2>2. Defaults[k] \in 0..Width - 1
    BY <1>2, LayersAssumption
  <2>3. SerializedDefaults[k] \in [n : Nat, unit : DOMAIN SecondsIn]
    BY <2>1, <2>2, RoundTrip
  <2>4. k # "notify.quiet_hours" /\ k # "people"
    BY <1>2 DEF Durations, Keys, StateConfig
  <2> QED  BY <2>3, <2>4
<1>3. CASE k \notin Durations
  <2>1. SerializedDefaults[k] = Defaults[k]
    BY <1>1, <1>3 DEF SerializedDefaults
  <2>2. Time(0, 0) \in ClockTimes
    BY ConfigurationAssumption DEF Time, ClockTimes
  <2> QED  BY <1>3, <2>1, <2>2, NothingByDefault
<1> QED  BY <1>2, <1>3

\* Laying one layer over another keeps both well formed.
LEMMA OverWellFormed ==
  ASSUME NEW high, NEW low, WellFormed(high), WellFormed(low)
  PROVE  WellFormed(Over(high, low))
<1> SUFFICES ASSUME NEW k \in DOMAIN Over(high, low)
             PROVE  \/ k \in DOMAIN high /\ Over(high, low)[k] = high[k]
                    \/ k \in DOMAIN low /\ Over(high, low)[k] = low[k]
  BY DEF WellFormed
<1> QED  BY DEF Over
-----------------------------------------------------------------------------
(***************************************************************************)
(* What a command works with                                               *)
(***************************************************************************)

\* The files and the environment are layers.
LayersAre == file \in [Directories -> FileLayers \cup {Absent}] /\ env \in Environments

\* The types that the checks and the daemon rely on.
SoundConfig(c) ==
  /\ DOMAIN c = DOMAIN Defaults
  /\ \A k \in Durations : c[k] \in 0..Width - 1
  /\ c["notify.quiet_hours"] \in [start : ClockTimes, end : ClockTimes]
  /\ Len(c["people"]) \in Nat
  /\ \A i, j \in 1..Len(c["people"]) :
       c["people"][i].written = c["people"][j].written =>
         c["people"][i].name = c["people"][j].name

\* A command runs with what the layers came to when it started, and nobody has
\* edited a file since, or it is one of those that were running when one did.
Reading(r) ==
  /\ r.looked \in Directories
  /\ r.config = Merged(r.looked, r.flags)
  /\ r.source = Source(r.looked)

SettingsInv ==
  /\ LayersAre
  /\ edits \in 0..MaxEdits /\ edited \subseteq Commands
  /\ DOMAIN command = Commands
  /\ \A p \in Commands : command[p].pc \in {"ended", "refused", "runs"}
  /\ \A p \in Commands : command[p].pc = "runs" =>
       /\ SoundConfig(command[p].config) /\ Valid(command[p].config)
       /\ command[p].source \in {"file", "defaults"}
       /\ p \notin edited => Reading(command[p])

\* The flags passed on are well formed.
LEMMA PassedWellFormed ==
  ASSUME NEW p \in Commands, NEW passed \in FlagLayers
  PROVE  WellFormed(Overrides(p, passed))
<1>1. WellFormed(passed)
  BY LayersAssumption
<1>2. \A k \in DOMAIN Overrides(p, passed) :
        k \in DOMAIN passed /\ Overrides(p, passed)[k] = passed[k]
  BY DEF Overrides
<1> HIDE DEF Overrides
<1> QED  BY <1>1, <1>2 DEF WellFormed

\* Each layer of the settings is well formed.
LEMMA LayerWellFormed ==
  ASSUME LayersAre, NEW path \in Directories
  PROVE  WellFormed(Layer(path))
<1>1. CASE file[path] = Absent
  <2>1. DOMAIN Layer(path) = {}
    BY <1>1 DEF Layer
  <2> QED  BY <2>1 DEF WellFormed
<1>2. CASE file[path] # Absent
  BY <1>2, LayersAssumption DEF LayersAre, Layer
<1> QED  BY <1>1, <1>2

\* Whatever is accepted is of the types that are relied on.
LEMMA MergedUsable ==
  ASSUME LayersAre, NEW path \in Directories, NEW flags, WellFormed(flags),
         Known(path, flags)
  PROVE  SoundConfig(Merged(path, flags))
<1> DEFINE raw == Over(flags, Over(env, Over(Layer(path), SerializedDefaults)))
           c == Merged(path, flags)
<1>1. WellFormed(raw)
  <2>1. WellFormed(env) /\ WellFormed(Layer(path)) /\ WellFormed(SerializedDefaults)
    BY LayersAssumption, LayerWellFormed, DefaultsWellFormed DEF LayersAre
  <2>2. WellFormed(Over(Layer(path), SerializedDefaults))
    BY <2>1, OverWellFormed
  <2>3. WellFormed(Over(env, Over(Layer(path), SerializedDefaults)))
    BY <2>1, <2>2, OverWellFormed
  <2> QED  BY <2>3, OverWellFormed
<1> HIDE DEF raw
<1>2. /\ DOMAIN c = DOMAIN raw
      /\ \A k \in DOMAIN raw : c[k] = IF k \in Durations THEN Parse(raw[k]) ELSE raw[k]
  BY DEF Merged, raw
<1> HIDE DEF c
<1>3. DOMAIN c = DOMAIN Defaults
  BY DEF Known, c
<1>4. \A k \in Durations : c[k] \in 0..Width - 1
  <2> TAKE k \in Durations
  <2>1. k \in DOMAIN raw
    BY <1>2, <1>3, KeysHaveDefaults
  <2>2. raw[k] \in [n : Nat, unit : DOMAIN SecondsIn]
    BY <1>1, <2>1 DEF WellFormed
  <2> QED  BY <1>2, <2>1, <2>2, ParseType
<1>5. "notify.quiet_hours" \notin Durations /\ "people" \notin Durations
  BY DEF Durations, Keys, StateConfig
<1>6. "notify.quiet_hours" \in DOMAIN raw /\ "people" \in DOMAIN raw
  BY <1>2, <1>3, KeysHaveDefaults
<1>7. c["notify.quiet_hours"] = raw["notify.quiet_hours"] /\ c["people"] = raw["people"]
  BY <1>2, <1>5, <1>6
<1>8. raw["notify.quiet_hours"] \in [start : ClockTimes, end : ClockTimes]
  BY <1>1, <1>6 DEF WellFormed, ClockTimes
<1>9. /\ Len(raw["people"]) \in Nat
      /\ \A i, j \in 1..Len(raw["people"]) :
           raw["people"][i].written = raw["people"][j].written =>
             raw["people"][i].name = raw["people"][j].name
  BY <1>1, <1>6 DEF WellFormed
<1>10. SoundConfig(c)
  BY <1>3, <1>4, <1>7, <1>8, <1>9 DEF SoundConfig
<1> QED  BY <1>10 DEF c

\* Without a flag, two commands that read one file read one address of the database.
LEMMA OneFileOneDatabase ==
  ASSUME NEW path, NEW f, NEW g, "database.url" \notin DOMAIN f, "database.url" \notin DOMAIN g
  PROVE  Merged(path, f)["database.url"] = Merged(path, g)["database.url"]
<1> DEFINE low == Over(env, Over(Layer(path), SerializedDefaults))
<1>1. "database.url" \in DOMAIN low
  BY KeysHaveDefaults DEF Over, SerializedDefaults
<1>2. \A h : "database.url" \notin DOMAIN h =>
        /\ "database.url" \in DOMAIN Over(h, low)
        /\ Over(h, low)["database.url"] = low["database.url"]
  <2> HIDE DEF low
  <2> QED  BY <1>1 DEF Over
<1>3. "database.url" \notin Durations
  BY DEF Durations, Keys, StateConfig
<1>4. \A h : "database.url" \notin DOMAIN h => Merged(path, h)["database.url"] = low["database.url"]
  <2> HIDE DEF low
  <2>1. \A h : Merged(path, h) =
          [k \in DOMAIN Over(h, low) |->
             IF k \in Durations THEN Parse(Over(h, low)[k]) ELSE Over(h, low)[k]]
    BY DEF Merged, low
  <2> QED  BY <1>2, <1>3, <2>1
<1> QED  BY <1>4
-----------------------------------------------------------------------------
(***************************************************************************)
(* The invariant                                                           *)
(***************************************************************************)

\* At the start no process has read its settings.
LEMMA SettingsStart == ConfigInit => SettingsInv
BY ConfigurationAssumption DEF ConfigInit, SettingsInv, LayersAre, Ended

\* The files and the environment are as they were, so a command that is not
\* touched still has what it read.
LEMMA StillReading ==
  ASSUME UNCHANGED <<file, env>>, NEW q, command'[q] = command[q], Reading(command[q])
  PROVE  Reading(command[q])'
BY DEF Reading, Merged, Layer, Source

\* A command starts with what it has checked.
LEMMA LaunchKeeps ==
  ASSUME SettingsInv, NEW p \in Commands, Launch(p)
  PROVE  SettingsInv'
<1>1. PICK path \in Directories, passed \in FlagLayers :
        /\ Checks(path, Overrides(p, passed))
        /\ command' = [command EXCEPT ![p] =
             [pc |-> "runs", looked |-> path, config |-> Merged(path, Overrides(p, passed)),
              source |-> Source(path), flags |-> Overrides(p, passed)]]
  BY DEF Launch
<1> DEFINE flags == Overrides(p, passed)
<1>2. WellFormed(flags)
  BY PassedWellFormed
<1> HIDE DEF flags
<1>3. command' = [command EXCEPT ![p] =
        [pc |-> "runs", looked |-> path, config |-> Merged(path, flags),
         source |-> Source(path), flags |-> flags]]
  BY <1>1 DEF flags
<1>4. SoundConfig(Merged(path, flags)) /\ Valid(Merged(path, flags))
  BY <1>1, <1>2, MergedUsable DEF Checks, SettingsInv, flags
<1>5. UNCHANGED <<file, env, edits>> /\ edited' = edited \ {p}
  BY DEF Launch
<1>6. /\ LayersAre' /\ edits' \in 0..MaxEdits /\ edited' \subseteq Commands
      /\ DOMAIN command' = Commands
  BY <1>3, <1>5 DEF SettingsInv, LayersAre
<1>7. ASSUME NEW q \in Commands
      PROVE  /\ command'[q].pc \in {"ended", "refused", "runs"}
             /\ command'[q].pc = "runs" =>
                  /\ SoundConfig(command'[q].config) /\ Valid(command'[q].config)
                  /\ command'[q].source \in {"file", "defaults"}
                  /\ q \notin edited' => Reading(command[q])'
  <2>1. CASE q = p
    <3>1. command'[q] = [pc |-> "runs", looked |-> path, config |-> Merged(path, flags),
                         source |-> Source(path), flags |-> flags]
      BY <1>3, <2>1 DEF SettingsInv
    <3>2. Merged(path, flags)' = Merged(path, flags) /\ Source(path)' = Source(path)
      BY <1>5 DEF Merged, Layer, Source
    <3>3. Source(path) \in {"file", "defaults"}
      BY DEF Source
    <3>4. Reading(command[q])'
      BY <3>1, <3>2 DEF Reading
    <3> QED  BY <1>4, <3>1, <3>3, <3>4
  <2>2. CASE q # p
    <3>1. command'[q] = command[q] /\ (q \notin edited' => q \notin edited)
      BY <1>3, <1>5, <2>2 DEF SettingsInv
    <3> QED  BY <1>5, <3>1, StillReading DEF SettingsInv
  <2> QED  BY <2>1, <2>2
<1> QED  BY <1>6, <1>7 DEF SettingsInv

\* A command that ends, or never started, has nothing to be right about.
LEMMA RestKeeps ==
  ASSUME SettingsInv, NEW p \in Commands, Refuse(p) \/ End(p)
  PROVE  SettingsInv'
<1>1. PICK pc \in {"refused", "ended"} : command' = [command EXCEPT ![p] = [Ended EXCEPT !.pc = pc]]
  <2>1. Ended = [Ended EXCEPT !.pc = "ended"]
    BY DEF Ended
  <2> QED  BY <2>1 DEF Refuse, End
<1>2. UNCHANGED <<file, env, edits>> /\ edited' \in {edited, edited \ {p}}
  BY DEF Refuse, End
<1>3. /\ LayersAre' /\ edits' \in 0..MaxEdits /\ edited' \subseteq Commands
      /\ DOMAIN command' = Commands
  BY <1>1, <1>2 DEF SettingsInv, LayersAre
<1>4. ASSUME NEW q \in Commands
      PROVE  /\ command'[q].pc \in {"ended", "refused", "runs"}
             /\ command'[q].pc = "runs" =>
                  /\ SoundConfig(command'[q].config) /\ Valid(command'[q].config)
                  /\ command'[q].source \in {"file", "defaults"}
                  /\ q \notin edited' => Reading(command[q])'
  <2>1. CASE q = p
    <3>1. command'[q].pc = pc
      BY <1>1, <2>1 DEF SettingsInv, Ended
    <3> QED  BY <3>1
  <2>2. CASE q # p
    <3>1. command'[q] = command[q] /\ (q \notin edited' => q \notin edited)
      BY <1>1, <1>2, <2>2 DEF SettingsInv
    <3> QED  BY <1>2, <3>1, StillReading DEF SettingsInv
  <2> QED  BY <2>1, <2>2
<1> QED  BY <1>3, <1>4 DEF SettingsInv

\* An edit makes every command that runs one that has read something older.
LEMMA EditKeeps ==
  ASSUME SettingsInv, NEW path \in Directories, Edit(path)
  PROVE  SettingsInv'
<1>1. LayersAre' /\ edits' \in 0..MaxEdits
  BY ConfigurationAssumption DEF SettingsInv, LayersAre, Edit
<1>2. edited' \subseteq Commands /\ command' = command
  BY DEF Edit
<1>3. \A q \in Commands : command[q].pc = "runs" => q \in edited'
  BY DEF Edit
<1> QED  BY <1>1, <1>2, <1>3 DEF SettingsInv

\* Whatever layers an operator writes and wherever a command is started.
LEMMA SettingsAreKept == ConfigSpec => []SettingsInv
<1>1. SettingsInv /\ [ConfigNext]_configVars => SettingsInv'
  <2> SUFFICES ASSUME SettingsInv, [ConfigNext]_configVars PROVE SettingsInv'
    OBVIOUS
  <2>1. CASE UNCHANGED configVars
    BY <2>1 DEF configVars, SettingsInv, LayersAre, Reading, Merged, Layer, Source
  <2>2. CASE ConfigNext
    BY <2>2, LaunchKeeps, RestKeeps, EditKeeps DEF ConfigNext
  <2> QED  BY <2>1, <2>2
<1> QED  BY SettingsStart, <1>1, PTL DEF ConfigSpec
-----------------------------------------------------------------------------
(***************************************************************************)
(* What follows from it                                                    *)
(***************************************************************************)

\* No device is offline before it may be idle, and but for the router it is
\* idle first.
LEMMA IdleComesFirst ==
  ASSUME NEW c, SoundConfig(c), Valid(c)
  PROVE  /\ \A type \in {"router", "other"} : IdleTimeoutFor(c, type) <= OfflineTimeoutFor(c, type)
         /\ IdleTimeoutFor(c, "other") < OfflineTimeoutFor(c, "other")
<1>1. \A a, b \in Nat : Max({a, b}) \in {a, b} /\ Max({a, b}) >= a /\ Max({a, b}) >= b
  <2> TAKE a, b \in Nat
  <2>1. \E x \in {a, b} : \A y \in {a, b} : x >= y
    <3>1. CASE a >= b  BY <3>1
    <3>2. CASE b >= a  BY <3>2
    <3> QED  BY <3>1, <3>2
  <2> QED  BY <2>1 DEF Max
<1>2. /\ c["state.idle_timeout"] \in Nat /\ c["state.offline_timeout"] \in Nat
      /\ c["state.router.idle_timeout"] \in Nat /\ c["state.router.offline_timeout"] \in Nat
  <2>1. {"state.idle_timeout", "state.offline_timeout", "state.router.idle_timeout",
         "state.router.offline_timeout"} \subseteq Durations
    <3>1. /\ <<"state.idle_timeout", 1>> \in StateConfig
          /\ <<"state.offline_timeout", 3>> \in StateConfig
          /\ <<"state.router.idle_timeout", 4>> \in StateConfig
          /\ <<"state.router.offline_timeout", 4>> \in StateConfig
      BY DEF StateConfig
    <3> QED  BY <3>1 DEF Durations, Keys
  <2> QED  BY <2>1, ConfigurationAssumption DEF SoundConfig
<1>3. c["state.idle_timeout"] < c["state.offline_timeout"]
  BY DEF Valid
<1> QED  BY <1>1, <1>2, <1>3 DEF IdleTimeoutFor, OfflineTimeoutFor

\* A device that is listed is listed by one person, and no two are one.
LEMMA MacOwnedOnce ==
  ASSUME NEW c, SoundConfig(c), Valid(c)
  PROVE  /\ \A mac \in UNION {c["people"][i].macs : i \in 1..Len(c["people"])} :
              Cardinality(OwnersOf(c, mac)) = 1
         /\ Cardinality({c["people"][i].name : i \in 1..Len(c["people"])}) = Len(c["people"])
<1> DEFINE people == c["people"]
           n == Len(people)
<1>1. /\ n \in Nat
      /\ \A i, j \in 1..n : people[i].written = people[j].written => people[i].name = people[j].name
  BY DEF SoundConfig
<1>2. /\ \A i, j \in 1..n : i # j => people[i].name # people[j].name
      /\ \A i, j \in 1..n :
           people[i].macs \cap people[j].macs # {} => people[i].written = people[j].written
  BY DEF Valid, ValidPeople
<1>3. \A mac : OwnersOf(c, mac) = {people[i].name : i \in {j \in 1..n : mac \in people[j].macs}}
  BY DEF OwnersOf
<1> HIDE DEF people, n
<1>4. ASSUME NEW mac \in UNION {people[i].macs : i \in 1..n}
      PROVE  Cardinality(OwnersOf(c, mac)) = 1
  <2>1. PICK i \in 1..n : mac \in people[i].macs
    OBVIOUS
  <2>2. \A j \in 1..n : mac \in people[j].macs => people[j].name = people[i].name
    BY <1>1, <1>2, <2>1
  <2>3. OwnersOf(c, mac) = {people[i].name}
    BY <1>3, <2>1, <2>2
  <2> QED  BY <2>3, FS_Singleton
<1>5. Cardinality({people[i].name : i \in 1..n}) = n
  <2> DEFINE names == {people[i].name : i \in 1..n}
             f == [i \in 1..n |-> people[i].name]
  <2>1. f \in Surjection(1..n, names) /\ f \in Injection(1..n, names)
    BY <1>2 DEF Surjection, Injection, IsInjective
  <2>2. IsFiniteSet(1..n) /\ Cardinality(1..n) = n
    BY <1>1, FS_Interval
  <2> HIDE DEF names, f
  <2>3. Cardinality(names) = n
    BY <2>1, <2>2, FS_Surjection
  <2> QED  BY <2>3 DEF names
<1> QED  BY <1>4, <1>5 DEF people, n

\* Whatever is accepted can be run with.
LEMMA AcceptedCanRun == SettingsInv => AcceptedIsUsable
<1> SUFFICES ASSUME SettingsInv, NEW p \in Commands, command[p].pc = "runs",
                    NEW c, c = command[p].config
             PROVE  /\ \A k \in AtLeastOne \cup Keys(AnalyzerConfigs) : c[k] # 0
                    /\ \A type \in {"router", "other"} :
                         IdleTimeoutFor(c, type) <= OfflineTimeoutFor(c, type)
                    /\ IdleTimeoutFor(c, "other") < OfflineTimeoutFor(c, "other")
                    /\ \A mac \in UNION {c["people"][i].macs : i \in 1..Len(c["people"])} :
                         Cardinality(OwnersOf(c, mac)) = 1
                    /\ Cardinality({c["people"][i].name : i \in 1..Len(c["people"])})
                         = Len(c["people"])
  BY DEF AcceptedIsUsable
<1>1. SoundConfig(c) /\ Valid(c)
  BY DEF SettingsInv
<1>2. \A k \in AtLeastOne \cup Keys(AnalyzerConfigs) : c[k] > 0
  BY <1>1 DEF Valid, ValidSecurity
<1>3. \A k \in AtLeastOne \cup Keys(AnalyzerConfigs) : c[k] # 0
  BY <1>2
<1>4. /\ \A type \in {"router", "other"} : IdleTimeoutFor(c, type) <= OfflineTimeoutFor(c, type)
      /\ IdleTimeoutFor(c, "other") < OfflineTimeoutFor(c, "other")
  BY <1>1, IdleComesFirst
<1>5. /\ \A mac \in UNION {c["people"][i].macs : i \in 1..Len(c["people"])} :
           Cardinality(OwnersOf(c, mac)) = 1
      /\ Cardinality({c["people"][i].name : i \in 1..Len(c["people"])}) = Len(c["people"])
  BY <1>1, MacOwnedOnce
<1> QED  BY <1>3, <1>4, <1>5

\* Two databases have a reason that was said.
LEMMA DatabasesAreSaid == SettingsInv => AnotherDatabaseIsSaid
<1> SUFFICES ASSUME SettingsInv, NEW p \in Commands, NEW q \in Commands,
                    command[p].pc = "runs", command[q].pc = "runs",
                    Logged(p).url # Logged(q).url,
                    "database.url" \notin DOMAIN command[p].flags \cup DOMAIN command[q].flags,
                    "defaults" \notin {Logged(p).source, Logged(q).source},
                    {p, q} \cap edited = {}
             PROVE  /\ command[p].looked # command[q].looked
                    /\ Absent \notin {file[command[p].looked], file[command[q].looked]}
  BY DEF AnotherDatabaseIsSaid
<1>1. Reading(command[p]) /\ Reading(command[q])
  BY DEF SettingsInv
<1>2. /\ command[p].config["database.url"] # command[q].config["database.url"]
      /\ command[p].source # "defaults" /\ command[q].source # "defaults"
  BY DEF Logged
<1>3. Absent \notin {file[command[p].looked], file[command[q].looked]}
  BY <1>1, <1>2 DEF Reading, Source
<1>4. command[p].looked # command[q].looked
  <2> SUFFICES ASSUME command[p].looked = command[q].looked PROVE FALSE
    OBVIOUS
  <2>1. /\ command[p].config = Merged(command[p].looked, command[p].flags)
        /\ command[q].config = Merged(command[p].looked, command[q].flags)
    BY <1>1 DEF Reading
  <2>2. Merged(command[p].looked, command[p].flags)["database.url"]
          = Merged(command[p].looked, command[q].flags)["database.url"]
    BY OneFileOneDatabase
  <2> QED  BY <1>2, <2>1, <2>2
<1> QED  BY <1>3, <1>4

\* What is written is what is meant.
LEMMA MeaningIsKept == SettingsInv => ConversionsHold
<1> SUFFICES ASSUME SettingsInv, NEW p \in Commands, command[p].pc = "runs"
             PROVE  LET c == command[p].config
                        quiet == {now \in 0..DayMinutes - 1 :
                                    QuietContains(c["notify.quiet_hours"], now)}
                        start == Minutes(c["notify.quiet_hours"].start)
                        end == Minutes(c["notify.quiet_hours"].end)
                    IN  /\ \A k \in Durations : Parse(ToHuman(c[k])) = c[k]
                        /\ \A k \in Durations : Parse(SerializedDefaults[k]) = Defaults[k]
                        /\ Cardinality(quiet) = (end - start) % DayMinutes
                        /\ end \notin quiet /\ (quiet # {} => start \in quiet)
  BY DEF ConversionsHold
<1>1. SoundConfig(command[p].config)
  BY DEF SettingsInv
<1>2. \A k \in Durations : Parse(ToHuman(command[p].config[k])) = command[p].config[k]
  BY <1>1, RoundTrip DEF SoundConfig
<1>3. ASSUME NEW k \in Durations PROVE Parse(SerializedDefaults[k]) = Defaults[k]
  <2>1. SerializedDefaults[k] = ToHuman(Defaults[k])
    BY KeysHaveDefaults DEF SerializedDefaults
  <2> QED  BY <2>1, LayersAssumption, RoundTrip
<1> DEFINE hours == command[p].config["notify.quiet_hours"]
<1>4. hours \in [start : ClockTimes, end : ClockTimes]
  BY <1>1 DEF SoundConfig
<1> HIDE DEF hours
<1>5. LET quiet == {now \in 0..DayMinutes - 1 : QuietContains(hours, now)}
      IN  /\ Cardinality(quiet) = (Minutes(hours.end) - Minutes(hours.start)) % DayMinutes
          /\ Minutes(hours.end) \notin quiet
          /\ (quiet # {} => Minutes(hours.start) \in quiet)
  BY <1>4, QuietLength
<1> QED  BY <1>2, <1>3, <1>5 DEF hours

\* The settings of a command that runs are of their types and in their ranges,
\* whatever layers they come from (config.rs Config::load_with_source).
THEOREM SettingsTypes == ConfigSpec => []ConfigTypeOK
<1>1. SettingsInv => ConfigTypeOK
  BY DEF SettingsInv, ConfigTypeOK, SoundConfig
<1> QED  BY SettingsAreKept, <1>1, PTL

\* A command that runs has settings it can work with, has said where they are
\* from, and means by them what was written (config.rs, cli log_config_provenance).
THEOREM SettingsHold == ConfigSpec => []SettingsAreSound
<1>1. SettingsInv => SettingsAreSound
  BY AcceptedCanRun, DatabasesAreSaid, MeaningIsKept DEF SettingsAreSound
<1> QED  BY SettingsAreKept, <1>1, PTL
-----------------------------------------------------------------------------
(***************************************************************************)
(* Rearranged lists                                                        *)
(***************************************************************************)

\* Those positions of a list in the order of the list.
Positions(p, q, I) ==
  /\ Cardinality(I) \in Nat
  /\ p \in [1..Cardinality(I) -> I]
  /\ Those(q, I) = [k \in 1..Cardinality(I) |-> q[p[k]]]
  /\ \A i \in I : \E k \in 1..Cardinality(I) : p[k] = i
  /\ \A k, l \in 1..Cardinality(I) : k < l => p[k] < p[l]

\* Those keeps the elements at the chosen positions, each once and in order.
LEMMA ThoseInOrder ==
  ASSUME NEW S, NEW q \in Seq(S), NEW I \in SUBSET (DOMAIN q)
  PROVE  \E p : Positions(p, q, I)
<1> DEFINE n == Cardinality(I)
           ahead == [i \in I |-> {j \in I : j < i}]
           place == [i \in I |-> Cardinality(ahead[i]) + 1]
           p == [k \in 1..n |-> CHOOSE i \in I : place[i] = k]
<1>0. I \in SUBSET Nat /\ IsFiniteSet(I) /\ n \in Nat
  <2>1. I \in SUBSET (1..Len(q)) /\ Len(q) \in Nat
    OBVIOUS
  <2>2. IsFiniteSet(1..Len(q))
    BY <2>1, FS_Interval
  <2> QED  BY <2>1, <2>2, FS_Subset, FS_CardinalityType
<1>1. \A i \in I : IsFiniteSet(ahead[i]) /\ Cardinality(ahead[i]) \in Nat
  <2> TAKE i \in I
  <2>1. ahead[i] \in SUBSET I
    OBVIOUS
  <2> HIDE DEF ahead
  <2> QED  BY <1>0, <2>1, FS_Subset, FS_CardinalityType
<1>2. \A i \in I : Cardinality(ahead[i]) < n
  <2> TAKE i \in I
  <2>1. ahead[i] \in SUBSET I /\ ahead[i] # I
    BY <1>0
  <2> HIDE DEF ahead
  <2>2. Cardinality(ahead[i]) <= n /\ n # Cardinality(ahead[i])
    BY <1>0, <2>1, FS_Subset
  <2> QED  BY <1>0, <1>1, <2>2
<1>3. place \in [I -> 1..n]
  <2> HIDE DEF ahead
  <2> QED  BY <1>0, <1>1, <1>2
<1>4. ASSUME NEW i \in I, NEW j \in I, i < j  PROVE place[i] < place[j]
  <2>1. ahead[i] \in SUBSET ahead[j] /\ ahead[i] # ahead[j]
    BY <1>0, <1>4
  <2> HIDE DEF ahead
  <2>2. /\ Cardinality(ahead[i]) <= Cardinality(ahead[j])
        /\ Cardinality(ahead[j]) # Cardinality(ahead[i])
    BY <1>1, <2>1, FS_Subset
  <2> QED  BY <1>1, <2>2
<1>5. \A i, j \in I : place[i] = place[j] => i = j
  <2> SUFFICES ASSUME NEW i \in I, NEW j \in I, i # j  PROVE place[i] # place[j]
    OBVIOUS
  <2>1. i < j \/ j < i
    BY <1>0
  <2>2. place[i] < place[j] \/ place[j] < place[i]
    BY <1>4, <2>1
  <2>3. place[i] \in Int /\ place[j] \in Int
    BY <1>0, <1>3
  <2> HIDE DEF place
  <2> QED  BY <2>2, <2>3
<1>6. place \in Injection(I, 1..n)
  <2> HIDE DEF place
  <2> QED  BY <1>3, <1>5 DEF Injection, IsInjective
<1>7. \A k \in 1..n : \E i \in I : place[i] = k
  <2> HIDE DEF place
  <2>1. IsFiniteSet(1..n) /\ Cardinality(1..n) = n
    BY <1>0, FS_Interval
  <2>2. place \in Surjection(I, 1..n)
    BY <1>0, <1>6, <2>1, FS_Injection
  <2> QED  BY <2>2 DEF Surjection
<1>8. p \in [1..n -> I] /\ \A k \in 1..n : place[p[k]] = k
  <2> HIDE DEF place
  <2> QED  BY <1>7
<1>9. Those(q, I) = [k \in 1..n |-> q[p[k]]]
  BY DEF Those, Arranged
<1>10. ASSUME NEW i \in I  PROVE \E k \in 1..n : p[k] = i
  <2> HIDE DEF place, p, n
  <2>1. place[i] \in 1..n
    BY <1>3
  <2>2. place[p[place[i]]] = place[i] /\ p[place[i]] \in I
    BY <1>8, <2>1
  <2> QED  BY <2>1, <2>2, <1>5
<1>11. ASSUME NEW k \in 1..n, NEW l \in 1..n, k < l  PROVE p[k] < p[l]
  <2> HIDE DEF place, p
  <2>1. p[k] \in I /\ p[l] \in I /\ place[p[k]] = k /\ place[p[l]] = l
    BY <1>8
  <2>2. p[k] # p[l]
    BY <2>1, <1>11, <1>0
  <2>3. ~(p[l] < p[k])
    BY <2>1, <1>4, <1>11, <1>0
  <2> QED  BY <1>0, <2>1, <2>2, <2>3
<1> HIDE DEF p
<1> QED  BY <1>0, <1>8, <1>9, <1>10, <1>11 DEF Positions
-----------------------------------------------------------------------------
(***************************************************************************)
(* Sliding windows                                                         *)
(***************************************************************************)
Entries(values) == [value : values, at : Times]

\* At most one entry of each value.
EachOnce(seen) == \A i, j \in DOMAIN seen : seen[i].value = seen[j].value => i = j

\* How many entries are of a time.
CountAt(seen, t) == Cardinality({i \in DOMAIN seen : seen[i].at = t})

\* What is in the window stays, in its order, and what is not goes.
LEMMA InWindowKeeps ==
  ASSUME NEW values, NEW seen \in Seq(Entries(values)), NEW at \in Times, NEW window \in Nat,
         NEW kept, kept = InWindow(seen, at, window)
  PROVE  /\ kept \in Seq(Entries(values)) /\ Len(kept) <= Len(seen)
         /\ \A k \in DOMAIN kept : at - kept[k].at <= window
         /\ \A k \in DOMAIN kept : \E i \in DOMAIN seen : kept[k] = seen[i]
         /\ \A i \in DOMAIN seen :
              at - seen[i].at <= window => \E k \in DOMAIN kept : kept[k] = seen[i]
         /\ EachOnce(seen) => EachOnce(kept)
         /\ \A t \in Times : at - t <= window => CountAt(seen, t) <= CountAt(kept, t)
<1> DEFINE I == {i \in DOMAIN seen : at - seen[i].at <= window}
           n == Cardinality(I)
<1>1. PICK p : Positions(p, seen, I)
  BY ThoseInOrder
<1>2. kept = [k \in 1..n |-> seen[p[k]]] /\ n \in Nat
  BY <1>1 DEF Positions, InWindow
<1>3. /\ p \in [1..n -> I]
      /\ \A i \in I : \E k \in 1..n : p[k] = i
      /\ \A k, l \in 1..n : k < l => p[k] < p[l]
  BY <1>1 DEF Positions
<1>4. \A i \in DOMAIN seen : i \in Nat /\ seen[i] \in Entries(values)
  OBVIOUS
<1>5. \A k \in 1..n : /\ p[k] \in DOMAIN seen /\ at - seen[p[k]].at <= window
                      /\ seen[p[k]] \in Entries(values)
  BY <1>3
<1>6. kept \in Seq(Entries(values)) /\ DOMAIN kept = 1..n /\ Len(kept) = n
  <2> HIDE DEF I, n
  <2>1. \A k \in 1..n : seen[p[k]] \in Entries(values)
    BY <1>5
  <2>2. kept \in [1..n -> Entries(values)]
    BY <1>2, <2>1
  <2> QED  BY <1>2, <2>2
<1>7. n <= Len(seen)
  <2> DEFINE m == Len(seen)
  <2>1. I \in SUBSET (1..m) /\ m \in Nat
    OBVIOUS
  <2> HIDE DEF I, m
  <2>2. IsFiniteSet(1..m) /\ Cardinality(1..m) = m
    BY <2>1, FS_Interval
  <2>3. n <= m
    BY <2>1, <2>2, FS_Subset
  <2> QED  BY <2>3 DEF m
<1>8. ASSUME NEW i \in DOMAIN seen, at - seen[i].at <= window
      PROVE  \E k \in DOMAIN kept : kept[k] = seen[i]
  <2>1. i \in I
    BY <1>8
  <2> HIDE DEF I, n
  <2>2. PICK k \in 1..n : p[k] = i
    BY <1>3, <2>1
  <2>3. kept[k] = seen[i]
    BY <1>2, <2>2
  <2> QED  BY <1>6, <2>3
<1>9. \A k, l \in 1..n : p[k] = p[l] => k = l
  <2> HIDE DEF I, n
  <2> SUFFICES ASSUME NEW k \in 1..n, NEW l \in 1..n, k # l PROVE p[k] # p[l]
    OBVIOUS
  <2>1. k < l \/ l < k
    BY <1>2
  <2>2. p[k] \in Nat /\ p[l] \in Nat
    BY <1>4, <1>5
  <2> QED  BY <1>3, <2>1, <2>2
<1>10. EachOnce(seen) => EachOnce(kept)
  BY <1>2, <1>5, <1>6, <1>9 DEF EachOnce
<1>11. ASSUME NEW t \in Times, at - t <= window  PROVE CountAt(seen, t) <= CountAt(kept, t)
  <2> DEFINE A == {i \in DOMAIN seen : seen[i].at = t}
             B == {k \in DOMAIN kept : kept[k].at = t}
  <2>1. A \in SUBSET I
    BY <1>11
  <2> DEFINE back == [i \in A |-> CHOOSE k \in 1..n : p[k] = i]
  <2>2. \A i \in A : back[i] \in 1..n /\ p[back[i]] = i
    BY <1>3, <2>1
  <2>3. back \in [A -> B]
    <3> SUFFICES ASSUME NEW i \in A PROVE back[i] \in B
      OBVIOUS
    <3>1. kept[back[i]] = seen[i]
      <4> HIDE DEF I, n, A, back
      <4> QED  BY <1>2, <2>2
    <3> QED  BY <1>6, <2>2, <3>1
  <2>4. \A i, j \in A : back[i] = back[j] => i = j
    BY <2>2
  <2>5. IsFiniteSet(B)
    <3>1. B \in SUBSET (1..n) /\ IsFiniteSet(1..n)
      BY <1>2, <1>6, FS_Interval
    <3> HIDE DEF B
    <3> QED  BY <3>1, FS_Subset
  <2> HIDE DEF back
  <2>6. back \in Injection(A, B)
    BY <2>3, <2>4 DEF Injection, IsInjective
  <2> HIDE DEF A, B
  <2>7. Cardinality(A) <= Cardinality(B)
    BY <2>5, <2>6, FS_Injection
  <2> QED  BY <2>7 DEF A, B, CountAt
<1> HIDE DEF I, n
<1> QED  BY <1>2, <1>5, <1>6, <1>7, <1>8, <1>10, <1>11

\* A full window gives up its first entry for the new one.
LEMMA PushBackKeeps ==
  ASSUME NEW values, NEW kept \in Seq(Entries(values)), NEW entry \in Entries(values),
         NEW capacity \in Nat \ {0}, Len(kept) <= capacity,
         NEW after, after = PushBack(kept, entry, capacity)
  PROVE  /\ after \in Seq(Entries(values)) /\ Len(after) \in 1..capacity
         /\ after[Len(after)] = entry
         /\ Len(after) <= Len(kept) + 1
         /\ Len(kept) < capacity =>
              /\ Len(after) = Len(kept) + 1
              /\ \A i \in DOMAIN kept : after[i] = kept[i]
         /\ Len(kept) >= capacity =>
              /\ Len(after) = Len(kept) /\ kept # <<>>
              /\ \A i \in DOMAIN kept : i # 1 => after[i - 1] = kept[i]
<1>1. CASE Len(kept) < capacity
  <2>1. after = Append(kept, entry)
    BY <1>1 DEF PushBack
  <2> QED  BY <1>1, <2>1
<1>2. CASE Len(kept) >= capacity
  <2>1. after = Append(Tail(kept), entry)
    BY <1>2 DEF PushBack
  <2>2. kept # <<>> /\ Len(kept) = capacity
    BY <1>2
  <2>3. /\ Tail(kept) \in Seq(Entries(values)) /\ Len(Tail(kept)) = Len(kept) - 1
        /\ \A i \in 1..(Len(kept) - 1) : Tail(kept)[i] = kept[i + 1]
    BY <2>2
  <2> QED  BY <1>2, <2>1, <2>2, <2>3
<1> QED  BY <1>1, <1>2

\* What a list or a window holds of a value is replaced, or pushed back.
Renewed(after, list, values, entry, capacity) ==
  /\ after \in Seq(Entries(values)) /\ Len(after) \in 1..capacity /\ EachOnce(after)
  /\ Len(after) <= Len(list) + 1
  /\ \E i \in DOMAIN after : after[i] = entry
  /\ \A i \in DOMAIN after : \/ after[i] = entry
                             \/ /\ after[i].value # entry.value
                                /\ \E k \in DOMAIN list : after[i] = list[k]
  /\ \A k \in DOMAIN list : list[k].value \in ValuesOf(after) /\ list[k].value # entry.value
                              => \E i \in DOMAIN after : after[i] = list[k]

\* One entry of each value, and the new one, whatever had to go.
LEMMA NotedKeeps ==
  ASSUME NEW values, NEW list \in Seq(Entries(values)), EachOnce(list),
         NEW value \in values, NEW at \in Times,
         NEW capacity \in Nat \ {0}, Len(list) <= capacity,
         NEW after, after = Noted(list, value, at, capacity)
  PROVE  Renewed(after, list, values, [value |-> value, at |-> at], capacity)
<1> DEFINE own == {i \in DOMAIN list : list[i].value = value}
           entry == [value |-> value, at |-> at]
<1>0. entry \in Entries(values)
  BY DEF Entries
<1>1. CASE own = {}
  <2>1. after = PushBack(list, entry, capacity)
    BY <1>1 DEF Noted
  <2>2. \A i \in DOMAIN list : list[i].value # value
    BY <1>1
  <2> HIDE DEF own, entry
  <2>3. /\ after \in Seq(Entries(values)) /\ Len(after) \in 1..capacity
        /\ after[Len(after)] = entry /\ Len(after) <= Len(list) + 1
        /\ Len(list) < capacity =>
             Len(after) = Len(list) + 1 /\ \A i \in DOMAIN list : after[i] = list[i]
        /\ Len(list) >= capacity =>
             /\ Len(after) = Len(list) /\ list # <<>>
             /\ \A i \in DOMAIN list : i # 1 => after[i - 1] = list[i]
    BY <1>0, <2>1, PushBackKeeps
  <2> DEFINE shift == IF Len(list) < capacity THEN 0 ELSE 1
  <2>4. \A i \in DOMAIN after :
          i # Len(after) => i + shift \in DOMAIN list /\ after[i] = list[i + shift]
    <3> SUFFICES ASSUME NEW i \in DOMAIN after, i # Len(after)
                 PROVE  i + shift \in DOMAIN list /\ after[i] = list[i + shift]
      OBVIOUS
    <3>1. i \in 1..(Len(after) - 1) /\ Len(list) \in Nat
      BY <2>3
    <3>2. CASE Len(list) < capacity
      BY <2>3, <3>1, <3>2
    <3>3. CASE ~(Len(list) < capacity)
      <4>1. Len(after) = Len(list)
        BY <2>3, <3>3
      <4>2. i + 1 \in DOMAIN list /\ i + 1 # 1 /\ shift = 1
        BY <3>1, <3>3, <4>1
      <4>3. after[(i + 1) - 1] = list[i + 1]
        BY <2>3, <3>3, <4>2
      <4> QED  BY <3>1, <4>2, <4>3
    <3> QED  BY <3>2, <3>3
  <2>5. ASSUME NEW i \in DOMAIN after, i # Len(after)
        PROVE  after[i].value # value /\ \E k \in DOMAIN list : after[i] = list[k]
    <3>1. i + shift \in DOMAIN list /\ after[i] = list[i + shift]
      BY <2>4, <2>5
    <3> HIDE DEF shift
    <3> QED  BY <2>2, <3>1
  <2>6. EachOnce(after)
    <3> SUFFICES ASSUME NEW i \in DOMAIN after, NEW j \in DOMAIN after,
                        after[i].value = after[j].value
                 PROVE  i = j
      BY DEF EachOnce
    <3>1. DOMAIN after \subseteq Nat /\ Len(after) \in DOMAIN after /\ shift \in Nat
      BY <2>3
    <3>2. CASE i = Len(after) \/ j = Len(after)
      BY <2>2, <2>3, <2>4, <3>2 DEF entry
    <3>3. CASE i # Len(after) /\ j # Len(after)
      <4>1. i + shift = j + shift
        BY <2>4, <3>3 DEF EachOnce
      <4> HIDE DEF shift
      <4> QED  BY <3>1, <4>1
    <3> QED  BY <3>2, <3>3
  <2>7. ASSUME NEW k \in DOMAIN list, list[k].value \in ValuesOf(after)
        PROVE  \E i \in DOMAIN after : after[i] = list[k]
    <3>1. PICK i \in DOMAIN after : after[i].value = list[k].value
      BY <2>7 DEF ValuesOf
    <3>2. i # Len(after)
      BY <2>2, <2>3, <3>1 DEF entry
    <3>3. i + shift = k
      BY <2>4, <3>1, <3>2 DEF EachOnce
    <3> QED  BY <2>4, <3>2, <3>3
  <2>8. Len(after) \in DOMAIN after
    BY <2>3
  <2>9. \A i \in DOMAIN after :
          after[i] = entry \/ (after[i].value # value /\ \E k \in DOMAIN list : after[i] = list[k])
    BY <2>3, <2>5
  <2> QED  BY <2>3, <2>6, <2>7, <2>8, <2>9 DEF Renewed, entry
<1>2. CASE own # {}
  <2>1. own \in SUBSET Nat
    OBVIOUS
  <2> DEFINE x == Min(own)
  <2>2. x \in own
    <3> HIDE DEF own
    <3> QED  BY <1>2, <2>1, LeastNumber DEF Min
  <2>3. after = [list EXCEPT ![x].at = at]
    BY <1>2 DEF Noted
  <2> HIDE DEF x
  <2>4. x \in DOMAIN list /\ list[x].value = value
    BY <2>2
  <2>5. \A i \in DOMAIN list : i # x => list[i].value # value
    BY <2>4 DEF EachOnce
  <2>6. /\ list \in [1..Len(list) -> Entries(values)] /\ Len(list) \in Nat
        /\ DOMAIN list = 1..Len(list)
    OBVIOUS
  <2>7. list[x] = [value |-> value, at |-> list[x].at]
    BY <2>4, <2>6 DEF Entries
  <2>8. after = [i \in DOMAIN list |-> IF i = x THEN entry ELSE list[i]]
    BY <2>3, <2>4, <2>7
  <2> HIDE DEF own, entry
  <2>9. after \in Seq(Entries(values)) /\ DOMAIN after = DOMAIN list /\ Len(after) = Len(list)
    BY <1>0, <2>6, <2>8
  <2>10. after[x] = entry /\ \A i \in DOMAIN list : i # x => after[i] = list[i]
    BY <2>4, <2>8
  <2>11. EachOnce(after)
    BY <2>4, <2>5, <2>9, <2>10 DEF EachOnce, entry
  <2>12. Len(after) \in 1..capacity
    BY <2>4, <2>6, <2>9
  <2> QED  BY <2>4, <2>5, <2>6, <2>9, <2>10, <2>11, <2>12 DEF Renewed, ValuesOf, entry
<1> QED  BY <1>1, <1>2

\* A list with one entry of each value has as many values as entries.
LEMMA DistinctCount ==
  ASSUME NEW values, NEW seen \in Seq(Entries(values)), EachOnce(seen)
  PROVE  IsFiniteSet(ValuesOf(seen)) /\ Cardinality(ValuesOf(seen)) = Len(seen)
<1> DEFINE n == Len(seen)
           f == [i \in 1..n |-> seen[i].value]
<1>1. n \in Nat /\ DOMAIN seen = 1..n
  OBVIOUS
<1>2. f \in [1..n -> ValuesOf(seen)] /\ (\A v \in ValuesOf(seen) : \E i \in 1..n : f[i] = v)
  BY <1>1 DEF ValuesOf
<1>3. \A i, j \in 1..n : f[i] = f[j] => i = j
  BY <1>1 DEF EachOnce
<1> HIDE DEF f, n
<1>4. f \in Bijection(1..n, ValuesOf(seen))
  BY <1>2, <1>3 DEF Bijection, Injection, Surjection, IsInjective
<1>5. ExistsBijection(1..n, ValuesOf(seen))
  BY <1>4 DEF ExistsBijection
<1>6. IsFiniteSet(1..n) /\ Cardinality(1..n) = n
  BY <1>1, FS_Interval
<1>7. IsFiniteSet(ValuesOf(seen)) /\ Cardinality(ValuesOf(seen)) = n
  BY <1>5, <1>6, FS_Bijection
<1> QED  BY <1>7 DEF n

\* Of each time, a full window has one less than it would, of that of its first.
LEMMA PushBackCounts ==
  ASSUME NEW values, NEW kept \in Seq(Entries(values)), NEW entry \in Entries(values),
         NEW capacity \in Nat \ {0}, Len(kept) <= capacity, NEW t,
         NEW after, after = PushBack(kept, entry, capacity),
         NEW c \in Nat, c <= CountAt(kept, t),
         NEW d \in Nat, d = (IF t = entry.at THEN c + 1 ELSE c)
                              - (IF Len(kept) >= capacity /\ kept[1].at = t /\ c # 0 THEN 1 ELSE 0)
  PROVE  d <= CountAt(after, t)
<1> DEFINE A == {i \in DOMAIN kept : kept[i].at = t}
           B == {i \in DOMAIN after : after[i].at = t}
           n == Len(after)
           s == IF Len(kept) < capacity THEN 0 ELSE 1
           E == IF t = entry.at THEN {n} ELSE {}
           shifted == {i \in DOMAIN after : i # n /\ after[i].at = t}
<1>0. /\ after \in Seq(Entries(values)) /\ n \in 1..capacity
      /\ after[n] = entry /\ n <= Len(kept) + 1
      /\ Len(kept) < capacity =>
           n = Len(kept) + 1 /\ \A i \in DOMAIN kept : after[i] = kept[i]
      /\ Len(kept) >= capacity =>
           /\ n = Len(kept) /\ kept # <<>>
           /\ \A i \in DOMAIN kept : i # 1 => after[i - 1] = kept[i]
  BY PushBackKeeps
<1>1. Len(kept) \in Nat /\ DOMAIN kept = 1..Len(kept) /\ n \in Nat /\ DOMAIN after = 1..n
  BY <1>0
<1>n. n >= 1
  <2>1. \A k : k \in 1..capacity => k >= 1
    OBVIOUS
  <2> HIDE DEF n
  <2> QED  BY <1>0, <2>1
<1> HIDE DEF n
<1>2. IsFiniteSet(A) /\ IsFiniteSet(B) /\ IsFiniteSet(shifted)
  <2>1. A \in SUBSET (1..Len(kept)) /\ B \in SUBSET (1..n) /\ shifted \in SUBSET (1..n)
    BY <1>1
  <2>2. IsFiniteSet(1..Len(kept)) /\ IsFiniteSet(1..n)
    BY <1>1, FS_Interval
  <2> HIDE DEF A, B, shifted
  <2> QED  BY <2>1, <2>2, FS_Subset
<1>3. Cardinality(A) \in Nat /\ Cardinality(B) \in Nat /\ Cardinality(shifted) \in Nat
  BY <1>2, FS_CardinalityType
<1>4. Cardinality(B) = Cardinality(shifted) + (IF t = entry.at THEN 1 ELSE 0)
  <2>0. n \in DOMAIN after /\ after[n].at = entry.at
    <3>1. n \in 1..n
      BY <1>1, <1>n
    <3> QED  BY <1>0, <1>1, <3>1
  <2>1. B = IF t = entry.at THEN shifted \cup {n} ELSE shifted
    <3>1. CASE t = entry.at
      BY <2>0, <3>1
    <3>2. CASE t # entry.at
      BY <2>0, <3>2
    <3> QED  BY <3>1, <3>2
  <2>2. n \notin shifted
    OBVIOUS
  <2> HIDE DEF B, shifted
  <2> QED  BY <1>2, <1>3, <2>1, <2>2, FS_AddElement
<1> DEFINE stay == IF s = 1 THEN A \ {1} ELSE A
           f == [i \in stay |-> i - s]
<1>5. f \in [stay -> shifted] /\ (\A i, j \in stay : f[i] = f[j] => i = j)
  <2>1. ASSUME NEW i \in stay  PROVE i \in Nat /\ s \in Nat /\ i - s \in shifted
    <3>1. CASE Len(kept) < capacity
      <4>1. n = Len(kept) + 1 /\ after[i] = kept[i] /\ i \in 1..Len(kept)
        BY <1>0, <1>1, <3>1
      <4>2. i \in 1..n /\ i # n
        BY <1>1, <4>1
      <4>3. i - 0 = i /\ i \in Nat
        BY <4>1
      <4> QED  BY <1>1, <3>1, <4>1, <4>2, <4>3
    <3>2. CASE ~(Len(kept) < capacity)
      <4>0. Len(kept) >= capacity
        BY <1>1, <3>2
      <4>1. n = Len(kept) /\ i \in 1..Len(kept) /\ i # 1 /\ after[i - 1] = kept[i]
        BY <1>0, <1>1, <3>2, <4>0
      <4>2. i - 1 \in 1..n /\ i - 1 # n /\ i \in Nat
        BY <1>1, <4>1
      <4> QED  BY <1>1, <3>2, <4>1, <4>2
    <3> QED  BY <3>1, <3>2
  <2>2. \A i \in stay : f[i] = i - s
    OBVIOUS
  <2> HIDE DEF stay, shifted, s
  <2>3. f \in [stay -> shifted]
    BY <2>1
  <2> HIDE DEF f
  <2> QED  BY <2>1, <2>2, <2>3
<1>6. Cardinality(stay) <= Cardinality(shifted)
  <2> HIDE DEF f, stay, shifted
  <2>1. f \in Injection(stay, shifted)
    BY <1>5 DEF Injection, IsInjective
  <2> QED  BY <1>2, <2>1, FS_Injection
<1>7. Cardinality(stay) = Cardinality(A) - (IF s = 1 /\ 1 \in A THEN 1 ELSE 0)
  <2> HIDE DEF A
  <2>1. Cardinality(A \ {1}) = IF 1 \in A THEN Cardinality(A) - 1 ELSE Cardinality(A)
    BY <1>2, FS_RemoveElement
  <2> HIDE DEF s
  <2> QED  BY <1>3, <2>1
<1>8. s = 1 /\ 1 \in A <=> Len(kept) >= capacity /\ kept[1].at = t
  <2>1. CASE Len(kept) < capacity
    BY <1>1, <2>1
  <2>2. CASE ~(Len(kept) < capacity)
    <3>0. Len(kept) >= capacity
      BY <1>1, <2>2
    <3>1. kept # <<>>
      BY <1>0, <3>0
    <3>2. 1 \in DOMAIN kept
      BY <1>1, <3>1
    <3> QED  BY <2>2, <3>1, <3>2
  <2> QED  BY <2>1, <2>2
<1>9. CountAt(kept, t) = Cardinality(A) /\ CountAt(after, t) = Cardinality(B)
  BY DEF CountAt
<1> HIDE DEF A, B, shifted, stay, f, s
<1> QED  BY <1>3, <1>4, <1>6, <1>7, <1>8, <1>9
-----------------------------------------------------------------------------
(***************************************************************************)
(* Bounded maps                                                            *)
(***************************************************************************)
Windows(values, capacity) ==
  [seen : {q \in Seq(Entries(values)) : Len(q) <= capacity},
   last : Times \cup {NeverYet}, touched : Times \cup {NeverYet}]

TrackedIn(map) == {m \in Senders : map[m].touched # NeverYet}

Bounded(map, values, capacity) ==
  /\ map \in [Senders -> Windows(values, capacity)]
  /\ Cardinality(TrackedIn(map)) <= MaxSenders

RoomMade(map, values, capacity, m, room) ==
  /\ room \in [Senders -> Windows(values, capacity)] /\ room[m] = map[m]
  /\ m \notin Evicted(map, room)
  /\ \A o \in Senders : room[o] = IF o \in Evicted(map, room) THEN Untracked ELSE map[o]
  /\ Cardinality(TrackedIn(room) \cup {m}) <= MaxSenders

\* Room is made by forgetting somebody else, if by forgetting anybody.
LEMMA RoomIsMade ==
  ASSUME NEW values, NEW capacity \in Nat, NEW map, Bounded(map, values, capacity),
         NEW m \in Senders, NEW room \in RoomFor(map, m)
  PROVE  RoomMade(map, values, capacity, m, room)
<1>0. IsFiniteSet(Senders) /\ MaxSenders \in Nat
  BY RateAssumption
<1>1. map \in [Senders -> Windows(values, capacity)] /\ Cardinality(TrackedIn(map)) <= MaxSenders
  BY DEF Bounded
<1>2. IsFiniteSet(TrackedIn(map)) /\ Cardinality(TrackedIn(map)) \in Nat
  BY <1>0, FS_Subset, FS_CardinalityType DEF TrackedIn
<1>3. Untracked \in Windows(values, capacity)
  BY DEF Untracked, Windows
<1>4. CASE m \in TrackedIn(map) \/ Cardinality(TrackedIn(map)) < MaxSenders
  <2>1. room = map
    BY <1>4 DEF RoomFor, TrackedIn
  <2>2. Evicted(map, room) = {}
    BY <2>1 DEF Evicted
  <2>3. Cardinality(TrackedIn(map) \cup {m})
          = IF m \in TrackedIn(map) THEN Cardinality(TrackedIn(map))
            ELSE Cardinality(TrackedIn(map)) + 1
    BY <1>2, FS_AddElement
  <2>4. Cardinality(TrackedIn(map) \cup {m}) <= MaxSenders
    BY <1>0, <1>1, <1>2, <1>4, <2>3
  <2> QED  BY <1>1, <2>1, <2>2, <2>4 DEF RoomMade
<1>5. CASE ~(m \in TrackedIn(map) \/ Cardinality(TrackedIn(map)) < MaxSenders)
  <2>1. PICK o \in TrackedIn(map) : room = [map EXCEPT ![o] = Untracked]
    BY <1>5 DEF RoomFor, TrackedIn
  <2>2. o \in Senders /\ o # m /\ map[o].touched # NeverYet /\ map[m].touched = NeverYet
    BY <1>5, <2>1 DEF TrackedIn
  <2>3. room \in [Senders -> Windows(values, capacity)] /\ room[o] = Untracked
        /\ \A p \in Senders \ {o} : room[p] = map[p]
    BY <1>1, <1>3, <2>1, <2>2
  <2>4. Untracked.touched = NeverYet
    BY DEF Untracked
  <2>5. Evicted(map, room) = {o}
    BY <2>2, <2>3, <2>4 DEF Evicted
  <2>6. TrackedIn(room) = TrackedIn(map) \ {o}
    BY <2>2, <2>3, <2>4 DEF TrackedIn
  <2>7. /\ IsFiniteSet(TrackedIn(room))
        /\ Cardinality(TrackedIn(room)) = Cardinality(TrackedIn(map)) - 1
    <3>1. o \in TrackedIn(map)
      BY <2>1
    <3> QED  BY <1>2, <2>6, <3>1, FS_RemoveElement
  <2>8. Cardinality(TrackedIn(room) \cup {m})
          = IF m \in TrackedIn(room) THEN Cardinality(TrackedIn(room))
            ELSE Cardinality(TrackedIn(room)) + 1
    BY <2>7, FS_AddElement
  <2>9. Cardinality(TrackedIn(room) \cup {m}) <= MaxSenders
    BY <1>0, <1>1, <1>2, <2>7, <2>8
  <2> QED  BY <2>2, <2>3, <2>5, <2>9 DEF RoomMade
<1> QED  BY <1>4, <1>5
-----------------------------------------------------------------------------
(***************************************************************************)
(* The cooldown                                                            *)
(***************************************************************************)
Spans == Times \cup {NeverYet}

\* What was let through is what the analyzer remembers, but for the exempt.
Remembers(alerts, guard, last) ==
  \A m \in Senders : alerts[guard][m] = IF m \in ExemptSenders THEN NeverYet ELSE last[m]

\* The alerts of a kind that a step raises are a cooldown after the last.
Spaced(guard) ==
  \A m \in Senders :
    raised[guard][m] # NeverYet /\ raised'[guard][m] # raised[guard][m]
      => \/ raised'[guard][m] = NeverYet
         \/ raised'[guard][m] - raised[guard][m] >= CooldownOf(guard)

\* Whoever has cooled down has had no alert, or none for a cooldown.
LEMMA CooledIsSpaced ==
  ASSUME NEW last \in Spans, NEW at \in Times, NEW cooldown \in Nat
  PROVE  Cooled(last, at, cooldown) /\ last # NeverYet => at - last >= cooldown
BY RateAssumption DEF Cooled, Spans, Times, NeverYet

\* Cooldowns are numbers.
LEMMA CooldownsAre ==
  ASSUME NEW guard \in Guards
  PROVE  CooldownOf(guard) \in Nat \ {0}
<1>1. /\ ScanWindow \in Nat \ {0} /\ FloodWindow \in Nat \ {0}
      /\ RogueCooldown \in Nat \ {0} /\ ChangeCooldown \in Nat \ {0}
  BY RateAssumption
<1>2. 10 * FloodWindow \in Nat \ {0}
  BY <1>1
<1> QED  BY <1>1, <1>2 DEF CooldownOf, Guards

\* An alert is noted by the analyzer and let through, or noted and not let through.
LEMMA RaiseKeeps ==
  ASSUME NEW guard \in Guards, NEW m \in Senders, NEW at \in Times, NEW forgotten,
         raised \in [Guards -> [Senders -> Spans]],
         NEW earlier \in [Senders -> Spans], NEW after,
         after = [o \in Senders |-> IF o = m THEN at ELSE IF o \in forgotten THEN NeverYet
                                    ELSE earlier[o]],
         Remembers(raised, guard, earlier),
         Cooled(earlier[m], at, CooldownOf(guard)),
         Raise(guard, m, at, forgotten)
  PROVE  /\ raised' \in [Guards -> [Senders -> Spans]]
         /\ \A other \in Guards \ {guard} : raised'[other] = raised[other]
         /\ Remembers(raised', guard, after)
         /\ Spaced(guard)
<1>1. raised' = [raised EXCEPT ![guard] =
        [o \in Senders |-> IF o = m /\ m \notin ExemptSenders THEN at
                           ELSE IF o \in forgotten THEN NeverYet ELSE raised[guard][o]]]
  BY DEF Raise
<1>2. NeverYet \in Spans /\ at \in Spans /\ raised[guard] \in [Senders -> Spans]
  BY DEF Spans
<1>3. \A o \in Senders : raised'[guard][o] =
        IF o = m /\ m \notin ExemptSenders THEN at
        ELSE IF o \in forgotten THEN NeverYet ELSE raised[guard][o]
  BY <1>1
<1>4. raised' \in [Guards -> [Senders -> Spans]]
  BY <1>1, <1>2
<1>5. \A other \in Guards \ {guard} : raised'[other] = raised[other]
  BY <1>1
<1>6. Remembers(raised', guard, after)
  BY <1>3 DEF Remembers
<1>7. Spaced(guard)
  <2> SUFFICES ASSUME NEW o \in Senders, raised[guard][o] # NeverYet,
                      raised'[guard][o] # raised[guard][o], raised'[guard][o] # NeverYet
               PROVE  raised'[guard][o] - raised[guard][o] >= CooldownOf(guard)
    BY DEF Spaced
  <2>1. o = m /\ raised'[guard][o] = at
    BY <1>3
  <2>2. raised[guard][o] = earlier[m] /\ earlier[m] \in Spans
    BY <2>1 DEF Remembers
  <2>3. CooldownOf(guard) \in Nat
    BY CooldownsAre
  <2> QED  BY <2>1, <2>2, <2>3, CooledIsSpaced
<1> QED  BY <1>4, <1>5, <1>6, <1>7

\* Without an alert, those whom the analyzer forgets are forgotten.
LEMMA KeepRaisedKeeps ==
  ASSUME NEW guard \in Guards, NEW forgotten,
         raised \in [Guards -> [Senders -> Spans]],
         NEW earlier \in [Senders -> Spans], NEW after,
         after = [o \in Senders |-> IF o \in forgotten THEN NeverYet ELSE earlier[o]],
         Remembers(raised, guard, earlier),
         KeepRaised(guard, forgotten)
  PROVE  /\ raised' \in [Guards -> [Senders -> Spans]]
         /\ \A other \in Guards \ {guard} : raised'[other] = raised[other]
         /\ Remembers(raised', guard, after)
         /\ Spaced(guard)
<1>1. raised' = [raised EXCEPT ![guard] =
        [o \in Senders |-> IF o \in forgotten THEN NeverYet ELSE raised[guard][o]]]
  BY DEF KeepRaised
<1>2. NeverYet \in Spans /\ raised[guard] \in [Senders -> Spans]
  BY DEF Spans
<1>3. \A o \in Senders : raised'[guard][o] =
        IF o \in forgotten THEN NeverYet ELSE raised[guard][o]
  BY <1>1
<1>4. raised' \in [Guards -> [Senders -> Spans]]
  BY <1>1, <1>2
<1>5. \A other \in Guards \ {guard} : raised'[other] = raised[other]
  BY <1>1
<1>6. Remembers(raised', guard, after)
  BY <1>3 DEF Remembers
<1>7. Spaced(guard)
  BY <1>3 DEF Spaced
<1> QED  BY <1>4, <1>5, <1>6, <1>7

\* Whatever the analyzer remembers of whoever has not cooled down is recent.
LEMMA WarmIsRecent ==
  ASSUME NEW guard \in Guards, NEW m \in Senders \ ExemptSenders, NEW at \in Times,
         NEW alerts, NEW last \in [Senders -> Spans], Remembers(alerts, guard, last),
         \/ last[m] = at
         \/ ~Cooled(last[m], at, CooldownOf(guard))
  PROVE  alerts[guard][m] # NeverYet /\ at - alerts[guard][m] < CooldownOf(guard)
<1>1. alerts[guard][m] = last[m] /\ last[m] \in Spans
  BY DEF Remembers
<1>2. CooldownOf(guard) \in Nat \ {0}
  BY CooldownsAre
<1>3. at # NeverYet /\ at \in Nat
  BY RateAssumption DEF Times, NeverYet
<1>4. CASE last[m] = at
  BY <1>1, <1>2, <1>3, <1>4
<1>5. CASE ~Cooled(last[m], at, CooldownOf(guard))
  BY <1>1, <1>2, <1>3, <1>5, RateAssumption DEF Cooled, Spans, Times, NeverYet
<1> QED  BY <1>4, <1>5
-----------------------------------------------------------------------------
(***************************************************************************)
(* Lists of alerts                                                         *)
(***************************************************************************)
AlertList(list, capacity) ==
  list \in Seq(Entries(Senders)) /\ Len(list) <= capacity /\ EachOnce(list)

\* The last alert about a device is that of its entry.
LEMMA LastInIs ==
  ASSUME NEW list \in Seq(Entries(Senders)), EachOnce(list), NEW m \in Senders
  PROVE  /\ LastIn(list, m) \in Spans
         /\ \A i \in DOMAIN list : list[i].value = m => LastIn(list, m) = list[i].at
         /\ m \notin ValuesOf(list) => LastIn(list, m) = NeverYet
         /\ m \in ValuesOf(list) => LastIn(list, m) # NeverYet
<1> DEFINE own == {i \in DOMAIN list : list[i].value = m}
<1>0. own \in SUBSET Nat /\ \A i \in DOMAIN list : list[i] \in Entries(Senders)
  OBVIOUS
<1>1. CASE own = {}
  BY <1>1 DEF LastIn, ValuesOf, Spans
<1>2. CASE own # {}
  <2>1. Min(own) \in own
    <3> HIDE DEF own
    <3> QED  BY <1>0, <1>2, LeastNumber DEF Min
  <2>2. LastIn(list, m) = list[Min(own)].at
    BY <1>2 DEF LastIn
  <2> DEFINE x == Min(own)
  <2> HIDE DEF x
  <2>3. x \in DOMAIN list /\ list[x].value = m /\ LastIn(list, m) = list[x].at
    BY <2>1, <2>2 DEF x
  <2>4. list[x].at \in Times /\ NeverYet \notin Times
    BY <1>0, <2>3 DEF Entries, Times, NeverYet
  <2>5. \A i \in DOMAIN list : list[i].value = m => i = x
    BY <2>3 DEF EachOnce
  <2> QED  BY <2>3, <2>4, <2>5 DEF ValuesOf, Spans
<1> QED  BY <1>1, <1>2

\* A new alert is the last; those of others stay, but for whoever is dropped.
LEMMA NotedIsLast ==
  ASSUME NEW list, NEW capacity \in Nat \ {0}, AlertList(list, capacity),
         NEW m \in Senders, NEW at \in Times,
         NEW after, after = Noted(list, m, at, capacity)
  PROVE  /\ AlertList(after, capacity)
         /\ [o \in Senders |-> LastIn(after, o)] =
              [o \in Senders |-> IF o = m THEN at
                                 ELSE IF o \in Dropped(list, after) THEN NeverYet
                                 ELSE LastIn(list, o)]
<1> DEFINE entry == [value |-> m, at |-> at]
<1>0. list \in Seq(Entries(Senders)) /\ Len(list) <= capacity /\ EachOnce(list)
  BY DEF AlertList
<1>1. Renewed(after, list, Senders, entry, capacity)
  BY <1>0, NotedKeeps
<1>2. /\ after \in Seq(Entries(Senders)) /\ Len(after) \in 1..capacity /\ EachOnce(after)
      /\ \E i \in DOMAIN after : after[i] = entry
      /\ \A i \in DOMAIN after : \/ after[i] = entry
                                 \/ after[i].value # m /\ \E k \in DOMAIN list : after[i] = list[k]
      /\ \A k \in DOMAIN list : list[k].value \in ValuesOf(after) /\ list[k].value # m
                                  => \E i \in DOMAIN after : after[i] = list[k]
  BY <1>1 DEF Renewed
<1>3. AlertList(after, capacity)
  BY <1>2 DEF AlertList
<1>4. LastIn(after, m) = at
  <2>1. PICK i \in DOMAIN after : after[i] = entry
    BY <1>2
  <2>2. after[i].value = m /\ after[i].at = at
    BY <2>1
  <2> QED  BY <1>2, <2>2, LastInIs
<1>5. ASSUME NEW o \in Senders, o # m
      PROVE  LastIn(after, o) = IF o \in Dropped(list, after) THEN NeverYet ELSE LastIn(list, o)
  <2>1. CASE o \in ValuesOf(after)
    <3>1. PICK i \in DOMAIN after : after[i].value = o
      BY <2>1 DEF ValuesOf
    <3>2. after[i] # entry
      BY <1>5, <3>1
    <3>3. PICK k \in DOMAIN list : after[i] = list[k]
      BY <1>2, <3>2
    <3>4. LastIn(after, o) = after[i].at /\ LastIn(list, o) = list[k].at
      BY <1>0, <1>2, <3>1, <3>3, LastInIs
    <3>5. LastIn(after, o) # NeverYet
      BY <1>2, <2>1, LastInIs
    <3> QED  BY <3>3, <3>4, <3>5 DEF Dropped
  <2>2. CASE o \notin ValuesOf(after)
    <3>1. LastIn(after, o) = NeverYet
      BY <1>2, <2>2, LastInIs
    <3> QED  BY <3>1 DEF Dropped
  <2> QED  BY <2>1, <2>2
<1> HIDE DEF entry
<1> QED  BY <1>3, <1>4, <1>5
-----------------------------------------------------------------------------
(***************************************************************************)
(* The windows of arp_scan and gratuitous_arp                              *)
(***************************************************************************)

MapKept(map, values, capacity, m, at, room, after, alert, next) ==
  /\ Bounded(next, values, capacity)
  /\ room[m] = map[m] /\ m \notin Evicted(map, room)
  /\ next[m].seen = IF alert THEN <<>> ELSE after
  /\ \A o \in Senders \ {m} :
       next[o] = IF o \in Evicted(map, room) THEN Untracked ELSE map[o]
  /\ [o \in Senders |-> next[o].last] =
       [o \in Senders |-> IF alert /\ o = m THEN at
                          ELSE IF o \in Evicted(map, room) THEN NeverYet
                          ELSE map[o].last]

\* A map of windows in which the window of m is started again, or added to.
LEMMA MapKeeps ==
  ASSUME NEW values, NEW capacity \in Nat, NEW map, Bounded(map, values, capacity),
         NEW m \in Senders, NEW at \in Times, NEW room \in RoomFor(map, m),
         NEW after \in Seq(Entries(values)), Len(after) <= capacity,
         NEW alert \in BOOLEAN, NEW next,
         next = [room EXCEPT ![m] = [seen |-> IF alert THEN <<>> ELSE after,
                                     last |-> IF alert THEN at ELSE room[m].last,
                                     touched |-> at]]
  PROVE  MapKept(map, values, capacity, m, at, room, after, alert, next)
<1>0. IsFiniteSet(Senders) /\ MaxSenders \in Nat
  BY RateAssumption
<1>1. /\ room \in [Senders -> Windows(values, capacity)] /\ room[m] = map[m]
      /\ m \notin Evicted(map, room)
      /\ \A o \in Senders : room[o] = IF o \in Evicted(map, room) THEN Untracked ELSE map[o]
      /\ Cardinality(TrackedIn(room) \cup {m}) <= MaxSenders
  BY RoomIsMade DEF RoomMade
<1> DEFINE mine == [seen |-> IF alert THEN <<>> ELSE after,
                    last |-> IF alert THEN at ELSE room[m].last, touched |-> at]
<1>2. mine \in Windows(values, capacity)
  <2>1. /\ <<>> \in Seq(Entries(values)) /\ Len(<<>>) <= capacity
        /\ after \in Seq(Entries(values)) /\ Len(after) <= capacity
    OBVIOUS
  <2>2. room[m].last \in Times \cup {NeverYet}
    BY <1>1 DEF Windows
  <2> QED  BY <2>1, <2>2 DEF Windows
<1>3. mine.seen = (IF alert THEN <<>> ELSE after) /\ mine.last = IF alert THEN at ELSE map[m].last
  BY <1>1
<1> HIDE DEF mine
<1>4. next \in [Senders -> Windows(values, capacity)] /\ next[m] = mine
      /\ \A o \in Senders \ {m} : next[o] = room[o]
  BY <1>1, <1>2 DEF mine
<1>5. Cardinality(TrackedIn(next)) <= MaxSenders
  <2>1. TrackedIn(next) \in SUBSET (TrackedIn(room) \cup {m})
    BY <1>4 DEF TrackedIn
  <2>2. TrackedIn(room) \cup {m} \in SUBSET Senders
    BY DEF TrackedIn
  <2>3. IsFiniteSet(TrackedIn(room) \cup {m})
    BY <1>0, <2>2, FS_Subset
  <2>4. Cardinality(TrackedIn(next)) <= Cardinality(TrackedIn(room) \cup {m})
        /\ IsFiniteSet(TrackedIn(next))
    BY <2>1, <2>3, FS_Subset
  <2>5. Cardinality(TrackedIn(next)) \in Nat /\ Cardinality(TrackedIn(room) \cup {m}) \in Nat
    BY <2>3, <2>4, FS_CardinalityType
  <2> QED  BY <1>0, <1>1, <2>4, <2>5
<1>6. Bounded(next, values, capacity)
  BY <1>4, <1>5 DEF Bounded
<1>7. \A o \in Senders \ {m} :
        next[o] = IF o \in Evicted(map, room) THEN Untracked ELSE map[o]
  BY <1>1, <1>4
<1>8. \A o \in Senders : next[o].last = IF alert /\ o = m THEN at
                                        ELSE IF o \in Evicted(map, room) THEN NeverYet
                                        ELSE map[o].last
  BY <1>1, <1>3, <1>4, <1>7 DEF Untracked
<1> QED  BY <1>1, <1>3, <1>4, <1>6, <1>7, <1>8 DEF MapKept

\* What a window of addresses holds was asked for when it says,
Faithful(seen, of) == \A i \in DOMAIN seen : of[seen[i].value] = seen[i].at

\* and what was asked for of late is in it.
Complete(seen, of, now) ==
  \A t \in Targets : of[t] # NeverYet /\ now - of[t] <= ScanWindow => t \in ValuesOf(seen)

OfLate(of, now) == {t \in Targets : of[t] # NeverYet /\ now - of[t] <= ScanWindow}

\* When each address was last asked for, after one is asked for: what the window
\* pushes out counts as never asked for.
Recalled(of, kept, after, target, at) ==
  [t \in Targets |-> IF t \in ValuesOf(kept) \ ValuesOf(after) THEN NeverYet
                    ELSE IF t = target THEN at ELSE of[t]]

\* A window that is faithful, complete and counts what was asked for of late.
Swept(after, next, of, at, now) ==
  /\ after \in Seq(Entries(Targets)) /\ Len(after) <= ScanCapacity /\ EachOnce(after)
  /\ Faithful(after, next) /\ Complete(after, next, now)
  /\ Len(after) <= Cardinality(OfLate(of, at)) + 1

\* A request leaves the window so, but for what it pushes out.
LEMMA SweepKeeps ==
  ASSUME NEW seen \in Seq(Entries(Targets)), Len(seen) <= ScanCapacity, EachOnce(seen),
         NEW of \in [Targets -> Spans], NEW now \in Times, NEW at \in Times, at <= now,
         Faithful(seen, of), Complete(seen, of, now), NEW target \in Targets,
         NEW kept, kept = InWindow(seen, at, ScanWindow),
         NEW after, after = RecordDistinct(seen, target, at, ScanWindow, ScanCapacity),
         NEW next, next = Recalled(of, kept, after, target, at)
  PROVE  Swept(after, next, of, at, now)
<1> USE DEF Recalled
<1>0. ScanWindow \in Nat /\ ScanCapacity \in Nat \ {0} /\ IsFiniteSet(Targets)
  BY RateAssumption
<1>1. /\ kept \in Seq(Entries(Targets)) /\ Len(kept) <= Len(seen)
      /\ \A k \in DOMAIN kept : at - kept[k].at <= ScanWindow
      /\ \A k \in DOMAIN kept : \E i \in DOMAIN seen : kept[k] = seen[i]
      /\ \A i \in DOMAIN seen :
           at - seen[i].at <= ScanWindow => \E k \in DOMAIN kept : kept[k] = seen[i]
      /\ EachOnce(kept)
  BY <1>0, InWindowKeeps
<1>2. Len(kept) <= ScanCapacity
  BY <1>0, <1>1
<1> DEFINE entry == [value |-> target, at |-> at]
<1>3. after = Noted(kept, target, at, ScanCapacity)
  BY DEF RecordDistinct, Noted
<1>4. Renewed(after, kept, Targets, entry, ScanCapacity)
  BY <1>0, <1>1, <1>2, <1>3, NotedKeeps
<1>5. /\ after \in Seq(Entries(Targets)) /\ Len(after) \in 1..ScanCapacity /\ EachOnce(after)
      /\ \E i \in DOMAIN after : after[i] = entry
      /\ \A i \in DOMAIN after : \/ after[i] = entry
                                 \/ after[i].value # target
                                    /\ \E k \in DOMAIN kept : after[i] = kept[k]
  BY <1>4 DEF Renewed
<1>6. target \in ValuesOf(after)
  BY <1>5 DEF ValuesOf
<1>7. \A k \in DOMAIN kept : of[kept[k].value] = kept[k].at /\ kept[k] \in Entries(Targets)
  BY <1>1 DEF Faithful
<1>8. Faithful(after, next)
  <2> SUFFICES ASSUME NEW i \in DOMAIN after  PROVE next[after[i].value] = after[i].at
    BY DEF Faithful
  <2>1. after[i].value \in Targets /\ after[i].value \in ValuesOf(after)
    <3>1. after[i] \in Entries(Targets)
      BY <1>5
    <3> QED  BY <3>1 DEF Entries, ValuesOf
  <2>2. CASE after[i] = entry
    BY <1>6, <2>1, <2>2
  <2>3. CASE after[i].value # target /\ \E k \in DOMAIN kept : after[i] = kept[k]
    BY <1>7, <2>1, <2>3
  <2> QED  BY <1>5, <2>2, <2>3
<1>9. Complete(after, next, now)
  <2> SUFFICES ASSUME NEW t \in Targets, next[t] # NeverYet, now - next[t] <= ScanWindow
               PROVE  t \in ValuesOf(after)
    BY DEF Complete
  <2>1. CASE t = target
    BY <1>6, <2>1
  <2>2. CASE t # target
    <3>1. next[t] = of[t] /\ ~(t \in ValuesOf(kept) \ ValuesOf(after))
      BY <2>2
    <3>2. t \in ValuesOf(seen)
      BY <3>1 DEF Complete
    <3>3. PICK i \in DOMAIN seen : seen[i].value = t
      BY <3>2 DEF ValuesOf
    <3>4. seen[i].at = of[t] /\ seen[i].at \in Times
      <4>1. seen[i] \in Entries(Targets)
        OBVIOUS
      <4> QED  BY <3>3, <4>1 DEF Faithful, Entries
    <3>5. at - seen[i].at <= ScanWindow
      <4>1. seen[i].at \in Int /\ at \in Int /\ now \in Int
        BY <3>4, RateAssumption DEF Times
      <4> QED  BY <1>0, <3>1, <3>4, <4>1
    <3>6. t \in ValuesOf(kept)
      BY <1>1, <3>3, <3>5 DEF ValuesOf
    <3> QED  BY <3>1, <3>6
  <2> QED  BY <2>1, <2>2
<1>10. Len(after) <= Cardinality(OfLate(of, at)) + 1
  <2>1. Cardinality(ValuesOf(after)) = Len(after) /\ Len(after) \in Nat
    BY <1>5, DistinctCount
  <2>2. ValuesOf(after) \in SUBSET (OfLate(of, at) \cup {target})
    <3> SUFFICES ASSUME NEW i \in DOMAIN after, after[i].value # target
                 PROVE  after[i].value \in OfLate(of, at)
      BY DEF ValuesOf
    <3>1. PICK k \in DOMAIN kept : after[i] = kept[k]
      BY <1>5
    <3>2. kept[k].value \in Targets /\ kept[k].at \in Times /\ NeverYet \notin Times
      BY <1>7 DEF Entries, Times, NeverYet
    <3> QED  BY <1>1, <1>7, <3>1, <3>2 DEF OfLate
  <2>3. IsFiniteSet(OfLate(of, at)) /\ Cardinality(OfLate(of, at)) \in Nat
    BY <1>0, FS_Subset, FS_CardinalityType DEF OfLate
  <2>4. /\ IsFiniteSet(OfLate(of, at) \cup {target})
        /\ Cardinality(OfLate(of, at) \cup {target}) =
             IF target \in OfLate(of, at) THEN Cardinality(OfLate(of, at))
             ELSE Cardinality(OfLate(of, at)) + 1
    BY <2>3, FS_AddElement
  <2>5. Cardinality(ValuesOf(after)) <= Cardinality(OfLate(of, at) \cup {target})
    BY <2>2, <2>4, FS_Subset
  <2> QED  BY <2>1, <2>3, <2>4, <2>5
<1> QED  BY <1>5, <1>8, <1>9, <1>10 DEF Swept

\* A complete window has at least as many addresses as were asked for of late.
LEMMA SweepCounts ==
  ASSUME NEW seen \in Seq(Entries(Targets)), EachOnce(seen),
         NEW of \in [Targets -> Spans], NEW now \in Times, Complete(seen, of, now)
  PROVE  Cardinality(OfLate(of, now)) <= Len(seen) /\ Cardinality(OfLate(of, now)) \in Nat
<1>1. OfLate(of, now) \in SUBSET ValuesOf(seen)
  BY DEF OfLate, Complete
<1>2. IsFiniteSet(ValuesOf(seen)) /\ Cardinality(ValuesOf(seen)) = Len(seen)
  BY DistinctCount
<1> QED  BY <1>1, <1>2, FS_Subset, FS_CardinalityType
\* A window of announcements has as many of each recent time as are told of it.
Heeded(seen, each, now) ==
  \A t \in Times : now - t <= FloodWindow => each[t] <= CountAt(seen, t)

\* What is told of a time when a window is pushed, and when it is added to.
Pushed(of, kept) ==
  IF Len(kept) < FloodCapacity THEN of
  ELSE [of EXCEPT ![kept[1].at] = IF @ = 0 THEN 0 ELSE @ - 1]
OneMore(each, at) == [each EXCEPT ![at] = IF @ = FloodCapacity THEN @ ELSE @ + 1]

\* An announcement that is added to a window is told of it, and one that a
\* full window pushes out no longer is.
LEMMA FloodKeeps ==
  ASSUME NEW seen \in Seq(Entries({"event"})), Len(seen) <= FloodCapacity,
         NEW of \in [Times -> 0..FloodCapacity],
         NEW now \in Times, NEW at \in Times, at <= now, Heeded(seen, of, now),
         NEW kept, kept = InWindow(seen, at, FloodWindow),
         NEW after, after = RecordEvent(seen, at, FloodWindow, FloodCapacity),
         NEW each, each = Pushed(of, kept), NEW next, next = OneMore(each, at)
  PROVE  /\ after \in Seq(Entries({"event"})) /\ Len(after) <= FloodCapacity
         /\ next \in [Times -> 0..FloodCapacity]
         /\ Heeded(after, next, now)
<1>0. FloodWindow \in Nat /\ FloodCapacity \in Nat \ {0}
  BY RateAssumption
<1>1. /\ kept \in Seq(Entries({"event"})) /\ Len(kept) <= Len(seen)
      /\ \A t \in Times : at - t <= FloodWindow => CountAt(seen, t) <= CountAt(kept, t)
  BY <1>0, InWindowKeeps
<1>2. Len(kept) <= FloodCapacity /\ Len(kept) \in Nat
  BY <1>0, <1>1
<1> DEFINE entry == [value |-> "event", at |-> at]
<1>3. entry \in Entries({"event"}) /\ entry.at = at
  BY DEF Entries
<1>4. after = PushBack(kept, entry, FloodCapacity)
  BY DEF RecordEvent
<1> HIDE DEF entry
<1>5. after \in Seq(Entries({"event"})) /\ Len(after) \in 1..FloodCapacity
  BY <1>0, <1>1, <1>2, <1>3, <1>4, PushBackKeeps
<1>6. Len(kept) >= FloodCapacity => kept[1].at \in Times
  <2> SUFFICES ASSUME Len(kept) >= FloodCapacity  PROVE kept[1].at \in Times
    OBVIOUS
  <2>1. 1 \in DOMAIN kept
    BY <1>0, <1>1, <1>2
  <2>2. kept[1] \in Entries({"event"})
    BY <1>1, <2>1
  <2> QED  BY <2>2 DEF Entries
<1>7. each \in [Times -> 0..FloodCapacity]
      /\ \A t \in Times : each[t] =
           of[t] - (IF Len(kept) >= FloodCapacity /\ kept[1].at = t /\ of[t] # 0 THEN 1 ELSE 0)
  <2>1. CASE Len(kept) < FloodCapacity
    <3>1. each = of /\ ~(Len(kept) >= FloodCapacity)
      BY <1>0, <1>2, <2>1 DEF Pushed
    <3>2. \A t \in Times : of[t] - 0 = of[t]
      BY <1>0
    <3> QED  BY <3>1, <3>2
  <2>2. CASE ~(Len(kept) < FloodCapacity)
    <3>1. Len(kept) >= FloodCapacity /\ kept[1].at \in Times
      BY <1>0, <1>2, <1>6, <2>2
    <3>2. each = [of EXCEPT ![kept[1].at] = IF @ = 0 THEN 0 ELSE @ - 1]
      BY <2>2 DEF Pushed
    <3> DEFINE x == kept[1].at
    <3> HIDE DEF x
    <3>3. each = [t \in Times |-> IF t = x THEN (IF of[t] = 0 THEN 0 ELSE of[t] - 1) ELSE of[t]]
      BY <3>1, <3>2 DEF x
    <3>4. \A t \in Times : of[t] \in 0..FloodCapacity
      OBVIOUS
    <3>5. each \in [Times -> 0..FloodCapacity]
      <4>1. \A k \in 0..FloodCapacity :
              0 \in 0..FloodCapacity /\ (k # 0 => k - 1 \in 0..FloodCapacity)
        BY <1>0
      <4>2. \A t \in Times : each[t] \in 0..FloodCapacity
        BY <3>3, <3>4, <4>1
      <4> QED  BY <3>3, <4>2
    <3>6. \A t \in Times : each[t] = of[t] - (IF x = t /\ of[t] # 0 THEN 1 ELSE 0)
      BY <1>0, <3>3, <3>4
    <3> QED  BY <3>1, <3>5, <3>6 DEF x
  <2> QED  BY <2>1, <2>2
<1>8. next = [t \in Times |-> IF t = at /\ each[t] # FloodCapacity THEN each[t] + 1 ELSE each[t]]
  BY <1>7 DEF OneMore
<1>9. next \in [Times -> 0..FloodCapacity]
  <2>1. \A t \in Times : each[t] \in 0..FloodCapacity
    BY <1>7
  <2> QED  BY <1>0, <1>8, <2>1
<1>10. Heeded(after, next, now)
  <2> SUFFICES ASSUME NEW t \in Times, now - t <= FloodWindow  PROVE next[t] <= CountAt(after, t)
    BY DEF Heeded
  <2>1. at - t <= FloodWindow
    <3>1. at \in Int /\ now \in Int /\ t \in Int
      BY RateAssumption DEF Times
    <3> QED  BY <1>0, <3>1
  <2> DEFINE c == of[t]
             pushed == IF Len(kept) >= FloodCapacity /\ kept[1].at = t /\ c # 0 THEN 1 ELSE 0
             d == (IF t = entry.at THEN c + 1 ELSE c) - pushed
  <2>2. c \in Nat /\ c <= CountAt(seen, t)
    BY <1>0 DEF Heeded
  <2>3. CountAt(seen, t) <= CountAt(kept, t) /\ CountAt(seen, t) \in Nat /\ CountAt(kept, t) \in Nat
    <3>1. IsFiniteSet(DOMAIN seen) /\ IsFiniteSet(DOMAIN kept)
      <4>1. DOMAIN seen = 1..Len(seen) /\ DOMAIN kept = 1..Len(kept) /\ Len(seen) \in Nat
        BY <1>1
      <4>2. IsFiniteSet(1..Len(seen)) /\ IsFiniteSet(1..Len(kept))
        BY <1>2, <4>1, FS_Interval
      <4> QED  BY <4>1, <4>2
    <3>2. /\ IsFiniteSet({i \in DOMAIN seen : seen[i].at = t})
          /\ IsFiniteSet({i \in DOMAIN kept : kept[i].at = t})
      BY <3>1, FS_Subset
    <3> QED  BY <1>1, <2>1, <3>2, FS_CardinalityType DEF CountAt
  <2>4. c <= CountAt(kept, t)
    BY <2>2, <2>3
  <2>5. d \in Nat /\ pushed \in {0, 1} /\ (pushed = 1 => c # 0)
    BY <2>2
  <2>6. d = (IF t = entry.at THEN c + 1 ELSE c)
              - (IF Len(kept) >= FloodCapacity /\ kept[1].at = t /\ c # 0 THEN 1 ELSE 0)
    OBVIOUS
  <2>7. each[t] = c - pushed
    BY <1>7
  <2> HIDE DEF c, pushed, d
  <2>8. d <= CountAt(after, t)
    BY <1>0, <1>1, <1>2, <1>3, <1>4, <2>2, <2>4, <2>5, <2>6, PushBackCounts
  <2>9. CountAt(after, t) \in Nat
    <3>1. IsFiniteSet(DOMAIN after)
      <4>1. DOMAIN after = 1..Len(after) /\ Len(after) \in Nat
        BY <1>5
      <4> QED  BY <4>1, FS_Interval
    <3>2. IsFiniteSet({i \in DOMAIN after : after[i].at = t})
      BY <3>1, FS_Subset
    <3> QED  BY <3>2, FS_CardinalityType DEF CountAt
  <2>10. d = (IF t = at THEN c + 1 ELSE c) - pushed
    BY <1>3 DEF d
  <2>11. next[t] <= d
    BY <1>8, <2>2, <2>5, <2>7, <2>10
  <2>12. next[t] \in Nat
    BY <1>0, <1>9
  <2> QED  BY <2>5, <2>8, <2>9, <2>11, <2>12
<1> QED  BY <1>5, <1>9, <1>10

\* The announcements that are told of the last FloodWindow, numbered at each time.
ToldLately(of, now) ==
  {x \in Times \X (1..FloodCapacity) :
     x[1] <= now /\ now - x[1] <= FloodWindow /\ x[2] <= of[x[1]]}

\* The announcements told of recent times are at most those in the window.
LEMMA FloodCounts ==
  ASSUME NEW seen \in Seq(Entries({"event"})), NEW of \in [Times -> 0..FloodCapacity],
         NEW now \in Times, Heeded(seen, of, now)
  PROVE  Cardinality(ToldLately(of, now)) \in 0..Len(seen)
<1> DEFINE R == ToldLately(of, now)
           n == Len(seen)
           at(t) == {i \in 1..n : seen[i].at = t}
           nth == [t \in Times |-> CHOOSE p : Positions(p, seen, at(t))]
           f == [x \in R |-> nth[x[1]][x[2]]]
<1>0. n \in Nat /\ DOMAIN seen = 1..n /\ FloodCapacity \in Nat
  BY RateAssumption
<1>1. ASSUME NEW t \in Times
      PROVE  /\ Positions(nth[t], seen, at(t))
             /\ Cardinality(at(t)) = CountAt(seen, t)
  <2>1. at(t) \in SUBSET (DOMAIN seen)
    BY <1>0
  <2>2. at(t) = {i \in DOMAIN seen : seen[i].at = t}
    BY <1>0
  <2>3. \E p : Positions(p, seen, at(t))
    <3> HIDE DEF at
    <3> QED  BY <2>1, ThoseInOrder
  <2> QED  BY <2>2, <2>3 DEF CountAt
<1>2. ASSUME NEW x \in R
      PROVE  /\ x[1] \in Times /\ x[2] \in 1..CountAt(seen, x[1])
             /\ x = <<x[1], x[2]>>
  <2>1. /\ x[1] \in Times /\ x[2] \in 1..FloodCapacity /\ x = <<x[1], x[2]>>
        /\ now - x[1] <= FloodWindow /\ x[2] <= of[x[1]]
    BY DEF ToldLately
  <2>2. of[x[1]] <= CountAt(seen, x[1]) /\ of[x[1]] \in Nat
    BY <1>0, <2>1 DEF Heeded
  <2>3. CountAt(seen, x[1]) \in Nat
    <3> HIDE DEF at, nth
    <3> QED  BY <1>1, <2>1 DEF Positions
  <2> QED  BY <1>0, <2>1, <2>2, <2>3
<1>3. ASSUME NEW x \in R
      PROVE  f[x] \in at(x[1]) /\ f[x] \in 1..n /\ seen[f[x]].at = x[1]
  <2>1. nth[x[1]] \in [1..CountAt(seen, x[1]) -> at(x[1])]
    BY <1>1, <1>2 DEF Positions
  <2>2. f[x] = nth[x[1]][x[2]]
    OBVIOUS
  <2>3. f[x] \in at(x[1])
    <3> HIDE DEF f, nth, at
    <3> QED  BY <1>2, <2>1, <2>2
  <2> QED  BY <2>3
<1>4. ASSUME NEW x \in R, NEW y \in R, f[x] = f[y]  PROVE x = y
  <2>1. x[1] = y[1]
    <3> HIDE DEF f, at
    <3> QED  BY <1>3, <1>4
  <2> DEFINE t == x[1]
             m == CountAt(seen, t)
  <2>2. t \in Times /\ x[2] \in 1..m /\ y[2] \in 1..m
    BY <1>2, <2>1
  <2>3. /\ m \in Nat /\ nth[t] \in [1..m -> at(t)]
        /\ \A k, l \in 1..m : k < l => nth[t][k] < nth[t][l]
    <3> HIDE DEF at, nth, t
    <3> QED  BY <1>1, <2>2 DEF Positions
  <2>4. nth[t][x[2]] = nth[t][y[2]]
    BY <1>4, <2>1
  <2>5. \A i \in at(t) : i \in Nat
    OBVIOUS
  <2>6. x[2] = y[2]
    <3> HIDE DEF at, nth, f, m, t
    <3>1. nth[t][x[2]] \in Nat
      BY <2>2, <2>3, <2>5
    <3>2. ~(x[2] < y[2]) /\ ~(y[2] < x[2])
      BY <2>2, <2>3, <2>4, <3>1
    <3> QED  BY <2>2, <2>3, <3>2
  <2> QED  BY <1>2, <2>1, <2>6
<1> HIDE DEF f, n, R
<1>5. f \in Injection(R, 1..n)
  <2>1. f \in [R -> 1..n]
    BY <1>3 DEF f
  <2> QED  BY <1>4, <2>1 DEF Injection, IsInjective
<1>6. IsFiniteSet(1..n) /\ Cardinality(1..n) = n
  BY <1>0, FS_Interval
<1>7. IsFiniteSet(R) /\ Cardinality(R) <= n
  BY <1>5, <1>6, FS_Injection
<1>8. Cardinality(R) \in Nat /\ n \in Nat
  BY <1>0, <1>7, FS_CardinalityType
<1> QED  BY <1>7, <1>8 DEF n, R
-----------------------------------------------------------------------------
(***************************************************************************)
(* The rate and reference analyzers                                        *)
(***************************************************************************)
RateTypes ==
  /\ enabled \in Configurations /\ clock \in Times
  /\ Bounded(scanners, Targets, ScanCapacity)
  /\ \A m \in Senders : EachOnce(scanners[m].seen)
  /\ Bounded(flooders, {"event"}, FloodCapacity)
  /\ learned \in SUBSET Senders /\ Cardinality(learned) <= 1
  /\ AlertList(rogues, MaxRogues) /\ AlertList(changed, MaxChanged)
  /\ category \in [Senders -> Classes \cup {Uncategorised}]
  /\ asked \in [Senders -> [Targets -> Spans]]
  /\ announced \in [Senders -> [Times -> 0..FloodCapacity]]
  /\ raised \in [Guards -> [Senders -> Spans]]

\* The last alerts that each analyzer remembers.
ScanAlerts == [m \in Senders |-> scanners[m].last]
FloodAlerts == [m \in Senders |-> flooders[m].last]
RogueAlerts == [m \in Senders |-> LastIn(rogues, m)]
ChangeAlerts == [m \in Senders |-> LastIn(changed, m)]

Remembered ==
  /\ Remembers(raised, "arp_scan", ScanAlerts)
  /\ Remembers(raised, "gratuitous_arp", FloodAlerts)
  /\ Remembers(raised, "rogue_dhcp", RogueAlerts)
  /\ Remembers(raised, "identity_change", ChangeAlerts)

Watched ==
  \A m \in Senders :
    /\ Faithful(scanners[m].seen, asked[m]) /\ Complete(scanners[m].seen, asked[m], clock)
    /\ Heeded(flooders[m].seen, announced[m], clock)

RateInv == RateTypes /\ Remembered /\ Watched

\* What ScansAreSweeps and HoldsItselfBack say of a step.
SweepStep ==
  \A m \in Senders :
    scanners'[m].last # scanners[m].last /\ scanners'[m].last # NeverYet =>
      LET at == scanners'[m].last
          target == {t \in Targets : asked[m][t] # NeverYet /\ at - asked[m][t] =< ScanWindow}
      IN Cardinality(target) + 1 >= ThresholdOf(m)

SpacedStep == \A guard \in Guards : Spaced(guard)

\* What is to be shown of every step.
SoundStep == RateInv' /\ AlarmsAreRaised' /\ SweepStep /\ SpacedStep

\* Thresholds are numbers.
LEMMA ThresholdsAre == \A m : ThresholdOf(m) \in Nat
<1>1. RouterThreshold \in Nat /\ ScanThreshold \in Nat
  BY RateAssumption
<1>2. Max({RouterThreshold, ScanThreshold}) \in {RouterThreshold, ScanThreshold}
  <2>1. \E x \in {RouterThreshold, ScanThreshold} :
          \A y \in {RouterThreshold, ScanThreshold} : x >= y
    BY <1>1
  <2> QED  BY <2>1 DEF Max
<1> QED  BY <1>1, <1>2 DEF ThresholdOf

\* What the analyzers remember are times.
LEMMA AlertsAreTimes ==
  ASSUME RateTypes
  PROVE  /\ ScanAlerts \in [Senders -> Spans] /\ FloodAlerts \in [Senders -> Spans]
         /\ RogueAlerts \in [Senders -> Spans] /\ ChangeAlerts \in [Senders -> Spans]
<1>1. \A m \in Senders : scanners[m].last \in Spans /\ flooders[m].last \in Spans
  BY DEF RateTypes, Bounded, Windows, Spans
<1>2. \A m \in Senders : LastIn(rogues, m) \in Spans /\ LastIn(changed, m) \in Spans
  BY LastInIs DEF RateTypes, AlertList
<1> QED  BY <1>1, <1>2 DEF ScanAlerts, FloodAlerts, RogueAlerts, ChangeAlerts

\* Nothing that an analyzer has not seen of late is missing from an empty window.
LEMMA NothingIsMissed ==
  ASSUME NEW now \in Times
  PROVE  /\ Faithful(<<>>, [t \in Targets |-> NeverYet])
         /\ Complete(<<>>, [t \in Targets |-> NeverYet], now)
         /\ Heeded(<<>>, [t \in Times |-> 0], now)
<1>1. \A t \in Times : CountAt(<<>>, t) = 0
  <2>1. \A t \in Times : {i \in DOMAIN <<>> : <<>>[i].at = t} = {}
    OBVIOUS
  <2> QED  BY <2>1, FS_EmptySet DEF CountAt
<1> QED  BY <1>1 DEF Faithful, Complete, Heeded
\* The effect of a request, once there is room for its sender.
Asks(m, target, at, room) ==
  LET kept == InWindow(room[m].seen, at, ScanWindow)
      seen == RecordDistinct(room[m].seen, target, at, ScanWindow, ScanCapacity)
      pushedOut == ValuesOf(kept) \ ValuesOf(seen)
      alert == Len(seen) >= ThresholdOf(m) /\ Cooled(room[m].last, at, ScanWindow)
      gone == Evicted(scanners, room)
  IN /\ scanners' = [room EXCEPT ![m] = [seen |-> IF alert THEN <<>> ELSE seen,
                                         last |-> IF alert THEN at ELSE room[m].last,
                                         touched |-> at]]
     /\ asked' = [o \in Senders |-> [t \in Targets |->
          IF o \in gone \/ (o = m /\ (alert \/ t \in pushedOut)) THEN NeverYet
          ELSE IF o = m /\ t = target THEN at ELSE asked[o][t]]]
     /\ IF alert THEN Raise("arp_scan", m, at, gone) ELSE KeepRaised("arp_scan", gone)

\* arp_scan raises what deserves an alert, and nothing else.
LEMMA RequestKeeps ==
  ASSUME RateInv, NEW m \in Senders, NEW target \in Targets, NEW at \in Times, at <= clock,
         Request(m, target, at)
  PROVE  SoundStep
<1>0. RateTypes /\ Remembered /\ Watched
  BY DEF RateInv
<1>1. PICK room \in RoomFor(scanners, m) : Asks(m, target, at, room)
  BY DEF Request, Asks
<1>3. /\ stimulus' = [kind |-> "arp_scan", mac |-> m, at |-> at, from |-> category[m]]
      /\ enabled' = enabled /\ clock' = clock /\ flooders' = flooders /\ learned' = learned
      /\ rogues' = rogues /\ changed' = changed /\ category' = category
      /\ announced' = announced
  BY DEF Request, Processing
<1> DEFINE kept == InWindow(scanners[m].seen, at, ScanWindow)
           seen == RecordDistinct(scanners[m].seen, target, at, ScanWindow, ScanCapacity)
           alert == Len(seen) >= ThresholdOf(m) /\ Cooled(scanners[m].last, at, ScanWindow)
           gone == Evicted(scanners, room)
           mine == [t \in Targets |-> IF t \in ValuesOf(kept) \ ValuesOf(seen) THEN NeverYet
                                      ELSE IF t = target THEN at ELSE asked[m][t]]
<1>4. /\ Bounded(scanners, Targets, ScanCapacity) /\ ScanCapacity \in Nat \ {0}
      /\ ScanWindow \in Nat \ {0} /\ clock \in Times /\ asked[m] \in [Targets -> Spans]
      /\ scanners[m].seen \in Seq(Entries(Targets)) /\ Len(scanners[m].seen) <= ScanCapacity
      /\ EachOnce(scanners[m].seen)
  BY <1>0, RateAssumption DEF RateTypes, Bounded, Windows
<1>5. room[m] = scanners[m]
  <2>1. /\ Bounded(scanners, Targets, ScanCapacity) /\ ScanCapacity \in Nat
        /\ room \in RoomFor(scanners, m)
    BY <1>1, <1>4
  <2> HIDE DEF kept, seen, alert, gone, mine
  <2>2. RoomMade(scanners, Targets, ScanCapacity, m, room)
    BY <2>1, RoomIsMade
  <2> QED  BY <2>2 DEF RoomMade
<1>6. /\ scanners' = [room EXCEPT ![m] = [seen |-> IF alert THEN <<>> ELSE seen,
                                          last |-> IF alert THEN at ELSE room[m].last,
                                          touched |-> at]]
      /\ asked' = [o \in Senders |-> [t \in Targets |->
           IF o \in gone \/ (o = m /\ (alert \/ t \in ValuesOf(kept) \ ValuesOf(seen)))
           THEN NeverYet
           ELSE IF o = m /\ t = target THEN at ELSE asked[o][t]]]
      /\ IF alert THEN Raise("arp_scan", m, at, gone) ELSE KeepRaised("arp_scan", gone)
  BY <1>1, <1>5 DEF Asks
<1> HIDE DEF kept, seen, alert, gone, mine
<1>7. /\ seen \in Seq(Entries(Targets)) /\ Len(seen) <= ScanCapacity /\ EachOnce(seen)
      /\ Faithful(seen, mine) /\ Complete(seen, mine, clock)
      /\ Len(seen) <= Cardinality(OfLate(asked[m], at)) + 1
  <2>1. Faithful(scanners[m].seen, asked[m]) /\ Complete(scanners[m].seen, asked[m], clock)
    BY <1>0 DEF Watched
  <2>2. /\ kept = InWindow(scanners[m].seen, at, ScanWindow)
        /\ seen = RecordDistinct(scanners[m].seen, target, at, ScanWindow, ScanCapacity)
        /\ mine = Recalled(asked[m], kept, seen, target, at)
    BY DEF kept, seen, mine, Recalled
  <2> DEFINE was == scanners[m].seen
             of == asked[m]
  <2>3. /\ was \in Seq(Entries(Targets)) /\ Len(was) <= ScanCapacity /\ EachOnce(was)
        /\ of \in [Targets -> Spans] /\ at <= clock /\ clock \in Times
        /\ Faithful(was, of) /\ Complete(was, of, clock)
        /\ kept = InWindow(was, at, ScanWindow)
        /\ seen = RecordDistinct(was, target, at, ScanWindow, ScanCapacity)
        /\ mine = Recalled(of, kept, seen, target, at)
    BY <1>4, <2>1, <2>2
  <2> HIDE DEF was, of
  <2>4. Swept(seen, mine, of, at, clock)
    BY <2>3, SweepKeeps
  <2> QED  BY <2>4 DEF Swept, of
<1>8. alert \in BOOLEAN /\ (alert <=> Len(seen) >= ThresholdOf(m)
                                      /\ Cooled(scanners[m].last, at, ScanWindow))
  BY DEF alert, Cooled
<1>9. /\ Bounded(scanners', Targets, ScanCapacity) /\ m \notin gone
      /\ scanners'[m].seen = IF alert THEN <<>> ELSE seen
      /\ \A o \in Senders \ {m} : scanners'[o] = IF o \in gone THEN Untracked ELSE scanners[o]
      /\ [o \in Senders |-> scanners'[o].last] =
           [o \in Senders |-> IF alert /\ o = m THEN at ELSE IF o \in gone THEN NeverYet
                              ELSE scanners[o].last]
  <2>1. scanners' = [room EXCEPT ![m] = [seen |-> IF alert THEN <<>> ELSE seen,
                                         last |-> IF alert THEN at ELSE room[m].last,
                                         touched |-> at]]
    BY <1>6
  <2>2. gone = Evicted(scanners, room)
    BY DEF gone
  <2>3. /\ Bounded(scanners, Targets, ScanCapacity) /\ ScanCapacity \in Nat
        /\ room \in RoomFor(scanners, m)
        /\ seen \in Seq(Entries(Targets)) /\ Len(seen) <= ScanCapacity
    BY <1>1, <1>4, <1>7
  <2>4. alert \in BOOLEAN
    BY <1>8
  <2>5. MapKept(scanners, Targets, ScanCapacity, m, at, room, seen, alert, scanners')
    BY <2>1, <2>3, <2>4, MapKeeps
  <2> QED  BY <2>2, <2>5 DEF MapKept
<1>10. /\ ScanAlerts \in [Senders -> Spans]
       /\ ScanAlerts = [o \in Senders |-> scanners[o].last]
       /\ ScanAlerts' = [o \in Senders |-> scanners'[o].last]
  BY <1>0, AlertsAreTimes DEF ScanAlerts
<1>11. ScanAlerts' = [o \in Senders |-> IF alert /\ o = m THEN at ELSE IF o \in gone THEN NeverYet
                                        ELSE ScanAlerts[o]]
  BY <1>9, <1>10
<1>12. /\ "arp_scan" \in Guards /\ CooldownOf("arp_scan") = ScanWindow
       /\ raised \in [Guards -> [Senders -> Spans]]
       /\ Remembers(raised, "arp_scan", ScanAlerts)
  BY <1>0 DEF Guards, CooldownOf, RateTypes, Remembered
<1>13. /\ raised' \in [Guards -> [Senders -> Spans]]
       /\ \A other \in Guards \ {"arp_scan"} : raised'[other] = raised[other]
       /\ Remembers(raised', "arp_scan", ScanAlerts')
       /\ Spaced("arp_scan")
  <2>1. CASE alert
    <3>1. Cooled(ScanAlerts[m], at, CooldownOf("arp_scan"))
      BY <1>8, <1>10, <1>12, <2>1
    <3>2. ScanAlerts' = [o \in Senders |-> IF o = m THEN at ELSE IF o \in gone THEN NeverYet
                                           ELSE ScanAlerts[o]]
      BY <1>11, <2>1
    <3>3. Raise("arp_scan", m, at, gone)
      BY <1>6, <2>1
    <3>4. /\ ScanAlerts \in [Senders -> Spans] /\ "arp_scan" \in Guards
          /\ raised \in [Guards -> [Senders -> Spans]]
          /\ Remembers(raised, "arp_scan", ScanAlerts)
      BY <1>10, <1>12
    <3> QED  BY <3>1, <3>2, <3>3, <3>4, RaiseKeeps
  <2>2. CASE ~alert
    <3>1. ScanAlerts' = [o \in Senders |-> IF o \in gone THEN NeverYet ELSE ScanAlerts[o]]
      BY <1>11, <2>2
    <3>2. KeepRaised("arp_scan", gone)
      BY <1>6, <2>2
    <3> QED  BY <1>10, <1>12, <3>1, <3>2, KeepRaisedKeeps
  <2> QED  BY <1>8, <2>1, <2>2
<1>14. SpacedStep
  BY <1>13 DEF SpacedStep, Spaced
<1>15. Remembered'
  <2>1. /\ FloodAlerts' = FloodAlerts /\ RogueAlerts' = RogueAlerts
        /\ ChangeAlerts' = ChangeAlerts
    BY <1>3 DEF FloodAlerts, RogueAlerts, ChangeAlerts
  <2>2. /\ raised'["gratuitous_arp"] = raised["gratuitous_arp"]
        /\ raised'["rogue_dhcp"] = raised["rogue_dhcp"]
        /\ raised'["identity_change"] = raised["identity_change"]
    BY <1>13 DEF Guards
  <2> QED  BY <1>0, <1>13, <2>1, <2>2 DEF Remembered, Remembers
<1>16. asked' \in [Senders -> [Targets -> Spans]]
       /\ asked'[m] = (IF alert THEN [t \in Targets |-> NeverYet] ELSE mine)
       /\ \A o \in Senders \ {m} :
            asked'[o] = IF o \in gone THEN [t \in Targets |-> NeverYet] ELSE asked[o]
  <2>1. asked \in [Senders -> [Targets -> Spans]] /\ at \in Spans /\ NeverYet \in Spans
    BY <1>0 DEF RateTypes, Spans
  <2>2. asked' = [o \in Senders |-> [t \in Targets |->
           IF o \in gone \/ (o = m /\ (alert \/ t \in ValuesOf(kept) \ ValuesOf(seen)))
           THEN NeverYet
           ELSE IF o = m /\ t = target THEN at ELSE asked[o][t]]]
    BY <1>6 DEF kept
  <2>3. asked' \in [Senders -> [Targets -> Spans]]
    BY <2>1, <2>2
  <2>4. asked'[m] = IF alert THEN [t \in Targets |-> NeverYet] ELSE mine
    BY <1>8, <1>9, <2>2 DEF mine
  <2>5. \A o \in Senders \ {m} :
            asked'[o] = IF o \in gone THEN [t \in Targets |-> NeverYet] ELSE asked[o]
    BY <2>1, <2>2
  <2> QED  BY <2>3, <2>4, <2>5
<1>17. ASSUME NEW o \in Senders
       PROVE  /\ EachOnce(scanners'[o].seen)
              /\ Faithful(scanners'[o].seen, asked'[o])
              /\ Complete(scanners'[o].seen, asked'[o], clock)
  <2>0. EachOnce(<<>>)
    BY DEF EachOnce
  <2>1. CASE o = m
    BY <1>4, <1>7, <1>8, <1>9, <1>16, <2>0, <2>1, NothingIsMissed
  <2>2. CASE o # m
    <3>1. EachOnce(scanners[o].seen) /\ Faithful(scanners[o].seen, asked[o])
          /\ Complete(scanners[o].seen, asked[o], clock)
      BY <1>0 DEF RateTypes, Watched
    <3> QED  BY <1>4, <1>9, <1>16, <2>0, <2>2, <3>1, NothingIsMissed DEF Untracked
  <2> QED  BY <2>1, <2>2
<1>18. RateTypes'
  BY <1>0, <1>3, <1>9, <1>13, <1>16, <1>17 DEF RateTypes
<1>19. Watched'
  BY <1>0, <1>3, <1>17 DEF Watched
<1>20. AlarmsAreRaised'
  <2>1. SUFFICES ASSUME Heard("arp_scan")'
                 PROVE  \/ Cardinality(RecentTargets(m))' < ThresholdOf(m)
                        \/ Recently("arp_scan", m, ScanWindow)'
    BY <1>3 DEF AlarmsAreRaised, Heard
  <2>2. m \in Senders \ ExemptSenders /\ at = clock
    BY <1>3, <2>1 DEF Heard
  <2>3. Recently("arp_scan", m, ScanWindow)' <=>
          raised'["arp_scan"][m] # NeverYet /\ clock - raised'["arp_scan"][m] < ScanWindow
    BY <1>3 DEF Recently
  <2>4. ScanAlerts' \in [Senders -> Spans]
    <3>1. at \in Spans /\ NeverYet \in Spans
      BY DEF Spans
    <3> QED  BY <1>10, <1>11, <3>1
  <2>5. CASE alert \/ Len(seen) >= ThresholdOf(m)
    <3>1. ScanAlerts'[m] = at \/ ~Cooled(ScanAlerts'[m], at, ScanWindow)
      BY <1>8, <1>9, <1>10, <1>11, <2>5
    <3>2. raised'["arp_scan"][m] # NeverYet /\ at - raised'["arp_scan"][m] < ScanWindow
      BY <1>12, <1>13, <2>2, <2>4, <3>1, WarmIsRecent
    <3> QED  BY <2>2, <2>3, <3>2
  <2>6. CASE ~alert /\ ~(Len(seen) >= ThresholdOf(m))
    <3>1. RecentTargets(m)' = OfLate(mine, clock)
      BY <1>3, <1>16, <2>6 DEF RecentTargets, OfLate
    <3>2. mine \in [Targets -> Spans]
      BY <1>4 DEF mine, Spans
    <3>3. Cardinality(OfLate(mine, clock)) <= Len(seen) /\ Cardinality(OfLate(mine, clock)) \in Nat
      BY <1>4, <1>7, <3>2, SweepCounts
    <3>4. Len(seen) \in Nat /\ ThresholdOf(m) \in Nat
      BY <1>7, ThresholdsAre
    <3> QED  BY <2>6, <3>1, <3>3, <3>4
  <2> QED  BY <2>5, <2>6
<1>21. SweepStep
  <2> SUFFICES ASSUME NEW o \in Senders, scanners'[o].last # scanners[o].last,
                      scanners'[o].last # NeverYet
               PROVE  Cardinality(OfLate(asked[o], scanners'[o].last)) + 1 >= ThresholdOf(o)
    BY DEF SweepStep, OfLate
  <2>1. scanners'[o].last = IF alert /\ o = m THEN at ELSE IF o \in gone THEN NeverYet
                            ELSE scanners[o].last
    BY <1>10, <1>11
  <2>2. alert /\ o = m /\ scanners'[o].last = at
    BY <2>1
  <2>3. Len(seen) >= ThresholdOf(m) /\ Len(seen) \in Nat /\ ThresholdOf(m) \in Nat
    BY <1>7, <1>8, <2>2, ThresholdsAre
  <2>4. Cardinality(OfLate(asked[m], at)) \in Nat
    <3>1. IsFiniteSet(Targets)
      BY RateAssumption
    <3>2. IsFiniteSet(OfLate(asked[m], at))
      BY <3>1, FS_Subset DEF OfLate
    <3> QED  BY <3>2, FS_CardinalityType
  <2> QED  BY <1>7, <2>2, <2>3, <2>4
<1> QED  BY <1>14, <1>15, <1>18, <1>19, <1>20, <1>21 DEF SoundStep, RateInv
\* The effect of an announcement, once there is room for its sender.
Announces(m, at, room) ==
  LET kept == InWindow(room[m].seen, at, FloodWindow)
      seen == RecordEvent(room[m].seen, at, FloodWindow, FloodCapacity)
      each == IF Len(kept) < FloodCapacity THEN announced[m]
              ELSE [announced[m] EXCEPT ![kept[1].at] = IF @ = 0 THEN 0 ELSE @ - 1]
      alert == Len(seen) >= FloodThreshold /\ Cooled(room[m].last, at, 10 * FloodWindow)
      gone == Evicted(flooders, room)
  IN /\ flooders' = [room EXCEPT ![m] = [seen |-> IF alert THEN <<>> ELSE seen,
                                         last |-> IF alert THEN at ELSE room[m].last,
                                         touched |-> at]]
     /\ announced' = [o \in Senders |->
          IF o \in gone \/ (o = m /\ alert) THEN [t \in Times |-> 0]
          ELSE IF o = m THEN [each EXCEPT ![at] = IF @ = FloodCapacity THEN @ ELSE @ + 1]
          ELSE announced[o]]
     /\ IF alert THEN Raise("gratuitous_arp", m, at, gone)
        ELSE KeepRaised("gratuitous_arp", gone)

\* gratuitous_arp raises what deserves an alert.
LEMMA AnnounceKeeps ==
  ASSUME RateInv, NEW m \in Senders, NEW at \in Times, at <= clock, AnnounceOneself(m, at)
  PROVE  SoundStep
<1>0. RateTypes /\ Remembered /\ Watched
  BY DEF RateInv
<1>1. PICK room \in RoomFor(flooders, m) : Announces(m, at, room)
  BY DEF AnnounceOneself, Announces
<1>3. /\ stimulus' = [kind |-> "gratuitous_arp", mac |-> m, at |-> at, from |-> category[m]]
      /\ enabled' = enabled /\ clock' = clock /\ scanners' = scanners /\ learned' = learned
      /\ rogues' = rogues /\ changed' = changed /\ category' = category /\ asked' = asked
  BY DEF AnnounceOneself, Processing
<1> DEFINE kept == InWindow(flooders[m].seen, at, FloodWindow)
           seen == RecordEvent(flooders[m].seen, at, FloodWindow, FloodCapacity)
           each == IF Len(kept) < FloodCapacity THEN announced[m]
                   ELSE [announced[m] EXCEPT ![kept[1].at] = IF @ = 0 THEN 0 ELSE @ - 1]
           mine == [each EXCEPT ![at] = IF @ = FloodCapacity THEN @ ELSE @ + 1]
           alert == Len(seen) >= FloodThreshold
                      /\ Cooled(flooders[m].last, at, 10 * FloodWindow)
           gone == Evicted(flooders, room)
<1>4. /\ Bounded(flooders, {"event"}, FloodCapacity) /\ FloodCapacity \in Nat \ {0}
      /\ FloodWindow \in Nat \ {0} /\ FloodThreshold \in Nat /\ clock \in Times
      /\ announced[m] \in [Times -> 0..FloodCapacity]
      /\ flooders[m].seen \in Seq(Entries({"event"})) /\ Len(flooders[m].seen) <= FloodCapacity
  BY <1>0, RateAssumption DEF RateTypes, Bounded, Windows
<1>5. room[m] = flooders[m]
  <2>1. /\ Bounded(flooders, {"event"}, FloodCapacity) /\ FloodCapacity \in Nat
        /\ room \in RoomFor(flooders, m)
    BY <1>1, <1>4
  <2> HIDE DEF kept, seen, alert, gone, mine, each
  <2>2. RoomMade(flooders, {"event"}, FloodCapacity, m, room)
    BY <2>1, RoomIsMade
  <2> QED  BY <2>2 DEF RoomMade
<1>6. /\ flooders' = [room EXCEPT ![m] = [seen |-> IF alert THEN <<>> ELSE seen,
                                          last |-> IF alert THEN at ELSE room[m].last,
                                          touched |-> at]]
      /\ announced' = [o \in Senders |->
           IF o \in gone \/ (o = m /\ alert) THEN [t \in Times |-> 0]
           ELSE IF o = m THEN mine ELSE announced[o]]
      /\ IF alert THEN Raise("gratuitous_arp", m, at, gone)
         ELSE KeepRaised("gratuitous_arp", gone)
  BY <1>1, <1>5 DEF Announces
<1> HIDE DEF kept, seen, alert, gone, mine, each
<1>7. /\ seen \in Seq(Entries({"event"})) /\ Len(seen) <= FloodCapacity
      /\ mine \in [Times -> 0..FloodCapacity] /\ Heeded(seen, mine, clock)
  <2>1. Heeded(flooders[m].seen, announced[m], clock)
    BY <1>0 DEF Watched
  <2>2. /\ kept = InWindow(flooders[m].seen, at, FloodWindow)
        /\ seen = RecordEvent(flooders[m].seen, at, FloodWindow, FloodCapacity)
        /\ each = Pushed(announced[m], kept) /\ mine = OneMore(each, at)
    BY DEF kept, seen, each, mine, Pushed, OneMore
  <2> QED  BY <1>4, <2>1, <2>2, FloodKeeps
<1>8. alert \in BOOLEAN /\ (alert <=> Len(seen) >= FloodThreshold
                                      /\ Cooled(flooders[m].last, at, 10 * FloodWindow))
  BY DEF alert, Cooled
<1>9. /\ Bounded(flooders', {"event"}, FloodCapacity) /\ m \notin gone
      /\ flooders'[m].seen = IF alert THEN <<>> ELSE seen
      /\ \A o \in Senders \ {m} : flooders'[o] = IF o \in gone THEN Untracked ELSE flooders[o]
      /\ [o \in Senders |-> flooders'[o].last] =
           [o \in Senders |-> IF alert /\ o = m THEN at ELSE IF o \in gone THEN NeverYet
                              ELSE flooders[o].last]
  <2>1. flooders' = [room EXCEPT ![m] = [seen |-> IF alert THEN <<>> ELSE seen,
                                         last |-> IF alert THEN at ELSE room[m].last,
                                         touched |-> at]]
    BY <1>6
  <2>2. gone = Evicted(flooders, room)
    BY DEF gone
  <2>3. /\ Bounded(flooders, {"event"}, FloodCapacity) /\ FloodCapacity \in Nat
        /\ room \in RoomFor(flooders, m)
        /\ seen \in Seq(Entries({"event"})) /\ Len(seen) <= FloodCapacity
    BY <1>1, <1>4, <1>7
  <2>4. alert \in BOOLEAN
    BY <1>8
  <2>5. MapKept(flooders, {"event"}, FloodCapacity, m, at, room, seen, alert, flooders')
    BY <2>1, <2>3, <2>4, MapKeeps
  <2> QED  BY <2>2, <2>5 DEF MapKept
<1>10. /\ FloodAlerts \in [Senders -> Spans]
       /\ FloodAlerts = [o \in Senders |-> flooders[o].last]
       /\ FloodAlerts' = [o \in Senders |-> flooders'[o].last]
  BY <1>0, AlertsAreTimes DEF FloodAlerts
<1>11. FloodAlerts' = [o \in Senders |-> IF alert /\ o = m THEN at ELSE IF o \in gone THEN NeverYet
                                         ELSE FloodAlerts[o]]
  BY <1>9, <1>10
<1>12. /\ "gratuitous_arp" \in Guards /\ CooldownOf("gratuitous_arp") = 10 * FloodWindow
       /\ raised \in [Guards -> [Senders -> Spans]]
       /\ Remembers(raised, "gratuitous_arp", FloodAlerts)
  BY <1>0 DEF Guards, CooldownOf, RateTypes, Remembered
<1>13. /\ raised' \in [Guards -> [Senders -> Spans]]
       /\ \A other \in Guards \ {"gratuitous_arp"} : raised'[other] = raised[other]
       /\ Remembers(raised', "gratuitous_arp", FloodAlerts')
       /\ Spaced("gratuitous_arp")
  <2>4. /\ FloodAlerts \in [Senders -> Spans] /\ "gratuitous_arp" \in Guards
        /\ raised \in [Guards -> [Senders -> Spans]]
        /\ Remembers(raised, "gratuitous_arp", FloodAlerts)
    BY <1>10, <1>12
  <2>1. CASE alert
    <3>1. Cooled(FloodAlerts[m], at, CooldownOf("gratuitous_arp"))
      BY <1>8, <1>10, <1>12, <2>1
    <3>2. FloodAlerts' = [o \in Senders |-> IF o = m THEN at ELSE IF o \in gone THEN NeverYet
                                            ELSE FloodAlerts[o]]
      BY <1>11, <2>1
    <3>3. Raise("gratuitous_arp", m, at, gone)
      BY <1>6, <2>1
    <3> QED  BY <2>4, <3>1, <3>2, <3>3, RaiseKeeps
  <2>2. CASE ~alert
    <3>1. FloodAlerts' = [o \in Senders |-> IF o \in gone THEN NeverYet ELSE FloodAlerts[o]]
      BY <1>11, <2>2
    <3>2. KeepRaised("gratuitous_arp", gone)
      BY <1>6, <2>2
    <3> QED  BY <2>4, <3>1, <3>2, KeepRaisedKeeps
  <2> QED  BY <1>8, <2>1, <2>2
<1>14. SpacedStep
  BY <1>13 DEF SpacedStep, Spaced
<1>15. Remembered'
  <2>1. ScanAlerts' = ScanAlerts /\ RogueAlerts' = RogueAlerts /\ ChangeAlerts' = ChangeAlerts
    BY <1>3 DEF ScanAlerts, RogueAlerts, ChangeAlerts
  <2>2. /\ raised'["arp_scan"] = raised["arp_scan"]
        /\ raised'["rogue_dhcp"] = raised["rogue_dhcp"]
        /\ raised'["identity_change"] = raised["identity_change"]
    BY <1>13 DEF Guards
  <2> QED  BY <1>0, <1>13, <2>1, <2>2 DEF Remembered, Remembers
<1>16. announced' \in [Senders -> [Times -> 0..FloodCapacity]]
       /\ announced'[m] = (IF alert THEN [t \in Times |-> 0] ELSE mine)
       /\ \A o \in Senders \ {m} :
            announced'[o] = IF o \in gone THEN [t \in Times |-> 0] ELSE announced[o]
  <2>1. announced \in [Senders -> [Times -> 0..FloodCapacity]]
    BY <1>0 DEF RateTypes
  <2>2. [t \in Times |-> 0] \in [Times -> 0..FloodCapacity]
    BY <1>4
  <2> QED  BY <1>6, <1>7, <1>8, <1>9, <2>1, <2>2
<1>17. ASSUME NEW o \in Senders
       PROVE  Heeded(flooders'[o].seen, announced'[o], clock)
  <2>1. CASE o = m
    BY <1>4, <1>7, <1>8, <1>9, <1>16, <2>1, NothingIsMissed
  <2>2. CASE o # m
    <3>1. Heeded(flooders[o].seen, announced[o], clock)
      BY <1>0 DEF Watched
    <3>2. o \notin gone => flooders'[o] = flooders[o] /\ announced'[o] = announced[o]
      BY <1>9, <1>16, <2>2
    <3>3. o \in gone => flooders'[o].seen = <<>> /\ announced'[o] = [t \in Times |-> 0]
      BY <1>9, <1>16, <2>2 DEF Untracked
    <3>4. Heeded(<<>>, [t \in Times |-> 0], clock)
      BY <1>4, NothingIsMissed
    <3> QED  BY <3>1, <3>2, <3>3, <3>4
  <2> QED  BY <2>1, <2>2
<1>18. RateTypes'
  BY <1>0, <1>3, <1>9, <1>13, <1>16 DEF RateTypes
<1>19. Watched'
  BY <1>0, <1>3, <1>17 DEF Watched
<1>20. AlarmsAreRaised'
  <2>1. SUFFICES ASSUME Heard("gratuitous_arp")'
                 PROVE  \/ RecentAnnouncements(m)' < FloodThreshold
                        \/ Recently("gratuitous_arp", m, 10 * FloodWindow)'
    BY <1>3 DEF AlarmsAreRaised, Heard
  <2>2. m \in Senders \ ExemptSenders /\ at = clock
    BY <1>3, <2>1 DEF Heard
  <2>3. Recently("gratuitous_arp", m, 10 * FloodWindow)' <=>
          /\ raised'["gratuitous_arp"][m] # NeverYet
          /\ clock - raised'["gratuitous_arp"][m] < 10 * FloodWindow
    BY <1>3 DEF Recently
  <2>4. FloodAlerts' \in [Senders -> Spans]
    <3>1. at \in Spans /\ NeverYet \in Spans
      BY DEF Spans
    <3> QED  BY <1>10, <1>11, <3>1
  <2>5. CASE alert \/ Len(seen) >= FloodThreshold
    <3>1. FloodAlerts'[m] = at \/ ~Cooled(FloodAlerts'[m], at, CooldownOf("gratuitous_arp"))
      BY <1>8, <1>9, <1>10, <1>11, <1>12, <2>5
    <3>2. /\ raised'["gratuitous_arp"][m] # NeverYet
          /\ at - raised'["gratuitous_arp"][m] < CooldownOf("gratuitous_arp")
      BY <1>12, <1>13, <2>2, <2>4, <3>1, WarmIsRecent
    <3> QED  BY <1>12, <2>2, <2>3, <3>2
  <2>6. CASE ~alert /\ ~(Len(seen) >= FloodThreshold)
    <3>1. RecentAnnouncements(m)' = Cardinality(ToldLately(mine, clock))
      BY <1>3, <1>16, <2>6 DEF RecentAnnouncements, ToldLately
    <3>2. Cardinality(ToldLately(mine, clock)) \in 0..Len(seen)
      BY <1>4, <1>7, FloodCounts
    <3>3. Len(seen) \in Nat
      BY <1>7
    <3> QED  BY <1>4, <2>6, <3>1, <3>2, <3>3
  <2> QED  BY <2>5, <2>6
<1>21. SweepStep
  BY <1>3 DEF SweepStep
<1> QED  BY <1>14, <1>15, <1>18, <1>19, <1>20, <1>21 DEF SoundStep, RateInv
\* What no other step has a part in: the windows and what is told of them.
WindowsKept ==
  /\ enabled' = enabled /\ clock' = clock /\ scanners' = scanners /\ flooders' = flooders
  /\ asked' = asked /\ announced' = announced

\* The windows stay what they were.
LEMMA WindowsStay ==
  ASSUME RateInv, WindowsKept,
         learned' \in SUBSET Senders, Cardinality(learned)' <= 1,
         AlertList(rogues, MaxRogues)', AlertList(changed, MaxChanged)',
         category' \in [Senders -> Classes \cup {Uncategorised}],
         raised' \in [Guards -> [Senders -> Spans]]
  PROVE  RateTypes' /\ Watched' /\ SweepStep /\ ScanAlerts' = ScanAlerts
         /\ FloodAlerts' = FloodAlerts
<1>1. RateTypes'
  BY DEF RateInv, RateTypes, WindowsKept
<1>2. Watched' /\ SweepStep /\ ScanAlerts' = ScanAlerts /\ FloodAlerts' = FloodAlerts
  BY DEF RateInv, Watched, WindowsKept, SweepStep, ScanAlerts, FloodAlerts
<1> QED  BY <1>1, <1>2

LastOf(list) == [o \in Senders |-> LastIn(list, o)]

\* A list of alerts with an alert about m added, or as it is.
Alerted(guard, list, next, capacity, m, at) ==
  \/ /\ Cooled(LastIn(list, m), at, CooldownOf(guard))
     /\ next = Noted(list, m, at, capacity)
     /\ Raise(guard, m, at, Dropped(list, next))
  \/ next = list /\ raised' = raised

ListKept(guard, next, capacity) ==
  /\ AlertList(next, capacity)
  /\ raised' \in [Guards -> [Senders -> Spans]]
  /\ \A other \in Guards \ {guard} : raised'[other] = raised[other]
  /\ Remembers(raised', guard, LastOf(next)) /\ LastOf(next) \in [Senders -> Spans]
  /\ SpacedStep

\* The list of alerts remembers what was let through.
LEMMA ListKeeps ==
  ASSUME NEW guard \in Guards, NEW list, NEW next, NEW capacity \in Nat \ {0},
         NEW m \in Senders, NEW at \in Times, AlertList(list, capacity),
         raised \in [Guards -> [Senders -> Spans]], Remembers(raised, guard, LastOf(list)),
         Alerted(guard, list, next, capacity, m, at)
  PROVE  ListKept(guard, next, capacity)
<1>1. LastOf(list) \in [Senders -> Spans]
  BY LastInIs DEF AlertList, LastOf
<1>2. CASE /\ Cooled(LastIn(list, m), at, CooldownOf(guard))
           /\ next = Noted(list, m, at, capacity)
           /\ Raise(guard, m, at, Dropped(list, next))
  <2>1. /\ AlertList(next, capacity)
        /\ LastOf(next) =
              [o \in Senders |-> IF o = m THEN at
                                 ELSE IF o \in Dropped(list, next) THEN NeverYet
                                 ELSE LastIn(list, o)]
    BY <1>2, NotedIsLast DEF LastOf
  <2>2. LastOf(next) = [o \in Senders |-> IF o = m THEN at
                                          ELSE IF o \in Dropped(list, next) THEN NeverYet
                                          ELSE LastOf(list)[o]]
    BY <2>1 DEF LastOf
  <2>3. LastOf(list)[m] = LastIn(list, m)
    BY DEF LastOf
  <2>4. /\ raised' \in [Guards -> [Senders -> Spans]]
        /\ \A other \in Guards \ {guard} : raised'[other] = raised[other]
        /\ Remembers(raised', guard, LastOf(next))
        /\ Spaced(guard)
    BY <1>1, <1>2, <2>2, <2>3, RaiseKeeps
  <2>5. LastOf(next) \in [Senders -> Spans]
    <3>1. at \in Spans /\ NeverYet \in Spans
      BY DEF Spans
    <3> QED  BY <1>1, <2>2, <3>1
  <2>6. SpacedStep
    BY <2>4 DEF SpacedStep, Spaced
  <2> QED  BY <2>1, <2>4, <2>5, <2>6 DEF ListKept
<1>3. CASE next = list /\ raised' = raised
  BY <1>1, <1>3 DEF ListKept, SpacedStep, Spaced
<1> QED  BY <1>2, <1>3 DEF Alerted

\* Whoever has not cooled down, or has just had an alert, has had one of late.
LEMMA AlertIsRecent ==
  ASSUME NEW guard \in Guards, NEW list, NEW next, NEW capacity \in Nat \ {0},
         NEW m \in Senders \ ExemptSenders, NEW at \in Times, AlertList(list, capacity),
         ListKept(guard, next, capacity),
         \/ next = Noted(list, m, at, capacity)
         \/ next = list /\ ~Cooled(LastIn(list, m), at, CooldownOf(guard))
  PROVE  raised'[guard][m] # NeverYet /\ at - raised'[guard][m] < CooldownOf(guard)
<1>1. LastOf(next)[m] = at \/ ~Cooled(LastOf(next)[m], at, CooldownOf(guard))
  <2>1. CASE next = Noted(list, m, at, capacity)
    <3>1. LastOf(next) =
            [o \in Senders |-> IF o = m THEN at
                               ELSE IF o \in Dropped(list, next) THEN NeverYet
                               ELSE LastIn(list, o)]
      BY <2>1, NotedIsLast DEF LastOf
    <3> QED  BY <3>1
  <2>2. CASE next = list /\ ~Cooled(LastIn(list, m), at, CooldownOf(guard))
    BY <2>2 DEF LastOf
  <2> QED  BY <2>1, <2>2
<1>2. Remembers(raised', guard, LastOf(next)) /\ LastOf(next) \in [Senders -> Spans]
  BY DEF ListKept
<1> QED  BY <1>1, <1>2, WarmIsRecent

\* rogue_dhcp raises what deserves an alert.
LEMMA ServeKeeps ==
  ASSUME RateInv, NEW m \in Senders, NEW at \in Times, Serve(m, at)
  PROVE  SoundStep
<1>0. RateTypes /\ Remembered
  BY DEF RateInv
<1>1. /\ stimulus' = [kind |-> "rogue_dhcp", mac |-> m, at |-> at, from |-> category[m]]
      /\ WindowsKept /\ changed' = changed /\ category' = category
  BY DEF Serve, Processing, WindowsKept
<1>2. /\ "rogue_dhcp" \in Guards /\ CooldownOf("rogue_dhcp") = RogueCooldown
      /\ raised \in [Guards -> [Senders -> Spans]]
      /\ Remembers(raised, "rogue_dhcp", LastOf(rogues))
      /\ AlertList(rogues, MaxRogues) /\ MaxRogues \in Nat \ {0}
      /\ clock \in Times
  BY <1>0, RateAssumption DEF Guards, CooldownOf, RateTypes, Remembered, RogueAlerts, LastOf
<1>3. Alerted("rogue_dhcp", rogues, rogues', MaxRogues, m, at)
  BY <1>2 DEF Serve, Alerted
<1>4. ListKept("rogue_dhcp", rogues', MaxRogues)
  BY <1>2, <1>3, ListKeeps
<1>5. learned' \in SUBSET Senders /\ Cardinality(learned') <= 1
      /\ (learned' = learned \/ (learned' = {m} /\ KnownServers = {}))
  <2>1. learned' = learned \/ (learned' = {m} /\ KnownServers = {})
    BY DEF Serve, LearnsFirst
  <2>2. Cardinality({m}) = 1
    BY FS_Singleton
  <2>3. learned \in SUBSET Senders /\ Cardinality(learned) <= 1
    BY <1>0 DEF RateTypes
  <2>4. CASE learned' = learned
    BY <2>1, <2>3, <2>4
  <2>5. CASE learned' = {m}
    BY <2>1, <2>2, <2>5
  <2> QED  BY <2>1, <2>4, <2>5
<1>6. RateTypes' /\ Watched' /\ SweepStep /\ ScanAlerts' = ScanAlerts /\ FloodAlerts' = FloodAlerts
  BY <1>0, <1>1, <1>4, <1>5, WindowsStay DEF ListKept, RateTypes
<1>7. Remembered'
  <2>1. Remembers(raised', "rogue_dhcp", RogueAlerts')
    BY <1>4 DEF ListKept, RogueAlerts, LastOf
  <2>2. /\ raised'["arp_scan"] = raised["arp_scan"]
        /\ raised'["gratuitous_arp"] = raised["gratuitous_arp"]
        /\ raised'["identity_change"] = raised["identity_change"]
    BY <1>4 DEF ListKept, Guards
  <2>3. ChangeAlerts' = ChangeAlerts
    BY <1>1 DEF ChangeAlerts
  <2> QED  BY <1>0, <1>6, <2>1, <2>2, <2>3 DEF Remembered, Remembers
<1>8. AlarmsAreRaised'
  <2> SUFFICES ASSUME Heard("rogue_dhcp")', ~IsLegitimate(m)'
               PROVE  Recently("rogue_dhcp", m, RogueCooldown)'
    BY <1>1 DEF AlarmsAreRaised, Heard
  <2>1. m \in Senders \ ExemptSenders /\ at = clock /\ clock' = clock
    BY <1>1 DEF Heard, WindowsKept
  <2>2. learned' = learned /\ ~IsLegitimate(m)
    BY <1>5 DEF IsLegitimate
  <2>3. ~LearnsFirst(m)
    <3> SUFFICES ASSUME LearnsFirst(m)  PROVE FALSE
      OBVIOUS
    <3>1. learned' = {m} /\ learned = {}
      BY <2>2 DEF Serve, LearnsFirst
    <3> QED  BY <2>2, <3>1
  <2>4. \/ rogues' = Noted(rogues, m, at, MaxRogues)
        \/ rogues' = rogues /\ ~Cooled(LastIn(rogues, m), at, CooldownOf("rogue_dhcp"))
    BY <1>2, <2>2, <2>3 DEF Serve
  <2>5. /\ raised'["rogue_dhcp"][m] # NeverYet
        /\ at - raised'["rogue_dhcp"][m] < CooldownOf("rogue_dhcp")
    BY <1>2, <1>4, <2>1, <2>4, AlertIsRecent
  <2> QED  BY <1>2, <2>1, <2>5 DEF Recently
<1>9. SpacedStep
  BY <1>4 DEF ListKept
<1> QED  BY <1>6, <1>7, <1>8, <1>9 DEF SoundStep, RateInv

\* identity_change raises what deserves an alert.
LEMMA ReclassifyKeeps ==
  ASSUME RateInv, NEW m \in Senders, NEW kind \in Classes, NEW at \in Times,
         Reclassify(m, kind, at)
  PROVE  SoundStep
<1>0. RateTypes /\ Remembered
  BY DEF RateInv
<1>1. /\ stimulus' = [kind |-> "identity_change", mac |-> m, at |-> at, from |-> category[m]]
      /\ WindowsKept /\ rogues' = rogues /\ learned' = learned
  BY DEF Reclassify, Processing, WindowsKept
<1>2. /\ "identity_change" \in Guards /\ CooldownOf("identity_change") = ChangeCooldown
      /\ raised \in [Guards -> [Senders -> Spans]]
      /\ Remembers(raised, "identity_change", LastOf(changed))
      /\ AlertList(changed, MaxChanged) /\ MaxChanged \in Nat \ {0}
      /\ clock \in Times
  BY <1>0, RateAssumption DEF Guards, CooldownOf, RateTypes, Remembered, ChangeAlerts, LastOf
<1>3. Alerted("identity_change", changed, changed', MaxChanged, m, at)
  BY <1>2 DEF Reclassify, Alerted
<1>4. ListKept("identity_change", changed', MaxChanged)
  BY <1>2, <1>3, ListKeeps
<1>5. category' \in [Senders -> Classes \cup {Uncategorised}]
  BY <1>0 DEF Reclassify, RateTypes
<1>6. RateTypes' /\ Watched' /\ SweepStep /\ ScanAlerts' = ScanAlerts /\ FloodAlerts' = FloodAlerts
  BY <1>0, <1>1, <1>4, <1>5, WindowsStay DEF ListKept, RateTypes
<1>7. Remembered'
  <2>1. Remembers(raised', "identity_change", ChangeAlerts')
    BY <1>4 DEF ListKept, ChangeAlerts, LastOf
  <2>2. /\ raised'["arp_scan"] = raised["arp_scan"]
        /\ raised'["gratuitous_arp"] = raised["gratuitous_arp"]
        /\ raised'["rogue_dhcp"] = raised["rogue_dhcp"]
    BY <1>4 DEF ListKept, Guards
  <2>3. RogueAlerts' = RogueAlerts
    BY <1>1 DEF RogueAlerts
  <2> QED  BY <1>0, <1>6, <2>1, <2>2, <2>3 DEF Remembered, Remembers
<1>8. AlarmsAreRaised'
  <2> SUFFICES ASSUME Heard("identity_change")', category[m] # Uncategorised
               PROVE  Recently("identity_change", m, ChangeCooldown)'
    BY <1>1 DEF AlarmsAreRaised, Heard
  <2>1. m \in Senders \ ExemptSenders /\ at = clock /\ clock' = clock
    BY <1>1 DEF Heard, WindowsKept
  <2>2. IsWorthAnAlert(category[m])
    BY DEF IsWorthAnAlert
  <2>3. \/ changed' = Noted(changed, m, at, MaxChanged)
        \/ changed' = changed /\ ~Cooled(LastIn(changed, m), at, CooldownOf("identity_change"))
    BY <1>2, <2>2 DEF Reclassify
  <2>4. /\ raised'["identity_change"][m] # NeverYet
        /\ at - raised'["identity_change"][m] < CooldownOf("identity_change")
    BY <1>2, <1>4, <2>1, <2>3, AlertIsRecent
  <2> QED  BY <1>2, <2>1, <2>4 DEF Recently
<1>9. SpacedStep
  BY <1>4 DEF ListKept
<1> QED  BY <1>6, <1>7, <1>8, <1>9 DEF SoundStep, RateInv

\* Time makes nothing more recent, and nothing is heard of it.
LEMMA PassKeeps ==
  ASSUME RateInv, Pass
  PROVE  SoundStep
<1>0. RateTypes /\ Remembered /\ Watched
  BY DEF RateInv
<1>1. /\ clock \in Times /\ clock' \in Times /\ clock' = clock + 1 /\ clock \in Int
      /\ enabled' = enabled /\ scanners' = scanners /\ flooders' = flooders
      /\ learned' = learned /\ rogues' = rogues /\ changed' = changed /\ category' = category
      /\ asked' = asked /\ announced' = announced /\ raised' = raised
  <2>1. MaxClock \in Nat
    BY RateAssumption
  <2>2. clock \in 0..MaxClock
    BY <1>0 DEF RateTypes, Times
  <2>3. clock < MaxClock /\ clock' = clock + 1
    BY DEF Pass
  <2>4. clock \in Times /\ clock' \in Times /\ clock \in Int
    BY <2>1, <2>2, <2>3 DEF Times
  <2>5. /\ enabled' = enabled /\ scanners' = scanners /\ flooders' = flooders
        /\ learned' = learned /\ rogues' = rogues /\ changed' = changed /\ category' = category
        /\ asked' = asked /\ announced' = announced /\ raised' = raised
    BY DEF Pass
  <2> QED  BY <2>3, <2>4, <2>5
<1>2. RateTypes' /\ Remembered'
  BY <1>0, <1>1 DEF RateTypes, Remembered, ScanAlerts, FloodAlerts, RogueAlerts, ChangeAlerts
<1>3. \A m \in Senders, t \in Targets : asked[m][t] \in Int
  BY <1>0, RateAssumption DEF RateTypes, Spans, Times, NeverYet
<1>4. ScanWindow \in Int /\ FloodWindow \in Int /\ (\A t \in Times : t \in Int)
  BY RateAssumption DEF Times
<1>5. Watched'
  <2> SUFFICES ASSUME NEW m \in Senders
               PROVE  /\ Faithful(scanners[m].seen, asked[m])
                      /\ Complete(scanners[m].seen, asked[m], clock + 1)
                      /\ Heeded(flooders[m].seen, announced[m], clock + 1)
    BY <1>1 DEF Watched
  <2>1. /\ Faithful(scanners[m].seen, asked[m]) /\ Complete(scanners[m].seen, asked[m], clock)
        /\ Heeded(flooders[m].seen, announced[m], clock)
    BY <1>0 DEF Watched
  <2>2. \A t \in Targets :
          (clock + 1) - asked[m][t] <= ScanWindow => clock - asked[m][t] <= ScanWindow
    BY <1>1, <1>3, <1>4
  <2>3. \A t \in Times : (clock + 1) - t <= FloodWindow => clock - t <= FloodWindow
    BY <1>1, <1>4
  <2>4. Complete(scanners[m].seen, asked[m], clock + 1)
    BY <2>1, <2>2 DEF Complete
  <2>5. Heeded(flooders[m].seen, announced[m], clock + 1)
    BY <2>1, <2>3 DEF Heeded
  <2> QED  BY <2>1, <2>4, <2>5
<1>6. AlarmsAreRaised'
  BY DEF Pass, NoStimulus, AlarmsAreRaised, Heard
<1>7. SweepStep /\ SpacedStep
  BY <1>1 DEF SweepStep, SpacedStep, Spaced
<1> QED  BY <1>2, <1>5, <1>6, <1>7 DEF SoundStep, RateInv

\* To begin with, no analyzer has seen anything.
LEMMA RateInvInit == RateInit => RateInv /\ AlarmsAreRaised
<1> SUFFICES ASSUME RateInit  PROVE RateInv /\ AlarmsAreRaised
  OBVIOUS
<1>0. 0 \in Times /\ NeverYet \in Spans
  BY RateAssumption DEF Times, Spans
<1>1. /\ \A values, capacity : capacity \in Nat => Untracked \in Windows(values, capacity)
      /\ Untracked.seen = <<>> /\ Untracked.touched = NeverYet /\ Untracked.last = NeverYet
  BY DEF Untracked, Windows
<1>2. Bounded(scanners, Targets, ScanCapacity) /\ Bounded(flooders, {"event"}, FloodCapacity)
  <2>1. ScanCapacity \in Nat /\ FloodCapacity \in Nat /\ MaxSenders \in Nat
    BY RateAssumption
  <2>2. TrackedIn(scanners) = {} /\ TrackedIn(flooders) = {}
    BY <1>1 DEF RateInit, TrackedIn
  <2>3. Cardinality({}) = 0
    BY FS_EmptySet
  <2>4. /\ scanners \in [Senders -> Windows(Targets, ScanCapacity)]
        /\ flooders \in [Senders -> Windows({"event"}, FloodCapacity)]
    BY <1>1, <2>1 DEF RateInit
  <2>5. /\ Cardinality(TrackedIn(scanners)) <= MaxSenders
        /\ Cardinality(TrackedIn(flooders)) <= MaxSenders
    BY <2>1, <2>2, <2>3
  <2> QED  BY <2>4, <2>5 DEF Bounded
<1>3. \A m \in Senders : /\ scanners[m].seen = <<>> /\ flooders[m].seen = <<>>
                         /\ scanners[m].last = NeverYet /\ flooders[m].last = NeverYet
  BY <1>1 DEF RateInit
<1>4. \A list, capacity : list = <<>> /\ capacity \in Nat => AlertList(list, capacity)
  BY DEF AlertList, EachOnce
<1>5. RateTypes
  <2>1. Cardinality(learned) <= 1
    BY FS_EmptySet DEF RateInit
  <2>2. AlertList(rogues, MaxRogues) /\ AlertList(changed, MaxChanged)
    BY <1>4, RateAssumption DEF RateInit
  <2>3. \A m \in Senders : EachOnce(scanners[m].seen)
    BY <1>3 DEF EachOnce
  <2>4. announced \in [Senders -> [Times -> 0..FloodCapacity]]
    BY RateAssumption DEF RateInit
  <2> QED  BY <1>0, <1>2, <2>1, <2>2, <2>3, <2>4 DEF RateInit, RateTypes
<1>6. Remembered
  <2>1. \A m : LastIn(<<>>, m) = NeverYet
    BY DEF LastIn
  <2>2. /\ ScanAlerts = [m \in Senders |-> NeverYet] /\ FloodAlerts = [m \in Senders |-> NeverYet]
        /\ RogueAlerts = [m \in Senders |-> NeverYet]
        /\ ChangeAlerts = [m \in Senders |-> NeverYet]
    BY <1>3, <2>1 DEF ScanAlerts, FloodAlerts, RogueAlerts, ChangeAlerts, RateInit
  <2>3. \A guard \in Guards, m \in Senders : raised[guard][m] = NeverYet
    BY DEF RateInit
  <2> QED  BY <2>2, <2>3 DEF Remembered, Remembers, Guards
<1>7. Watched
  BY <1>0, <1>3, NothingIsMissed DEF Watched, RateInit
<1>8. AlarmsAreRaised
  BY DEF RateInit, NoStimulus, AlarmsAreRaised, Heard
<1> QED  BY <1>5, <1>6, <1>7, <1>8 DEF RateInv

\* Every step of the analyzers is sound.
LEMMA RateSteps == RateInv /\ [RateNext]_rateVars => RateInv' /\ SweepStep /\ SpacedStep
<1> SUFFICES ASSUME RateInv, [RateNext]_rateVars  PROVE RateInv' /\ SweepStep /\ SpacedStep
  OBVIOUS
<1>1. CASE \E m \in Senders, at \in {t \in Times : t =< clock /\ clock - t =< MaxLate} :
             \/ \E target \in Targets : Request(m, target, at)
             \/ AnnounceOneself(m, at)
             \/ Serve(m, at)
             \/ \E kind \in Classes : Reclassify(m, kind, at)
  BY <1>1, RequestKeeps, AnnounceKeeps, ServeKeeps, ReclassifyKeeps DEF SoundStep
<1>2. CASE Pass
  BY <1>2, PassKeeps DEF SoundStep
<1>3. CASE UNCHANGED rateVars
  BY <1>3 DEF rateVars, RateInv, RateTypes, Remembered, Watched, SweepStep, SpacedStep, Spaced,
              ScanAlerts, FloodAlerts, RogueAlerts, ChangeAlerts
<1> QED  BY <1>1, <1>2, <1>3 DEF RateNext

\* What deserves an alert has one after every step.
LEMMA AlarmSteps == RateInv /\ AlarmsAreRaised /\ [RateNext]_rateVars => AlarmsAreRaised'
<1> SUFFICES ASSUME RateInv, AlarmsAreRaised, [RateNext]_rateVars  PROVE AlarmsAreRaised'
  OBVIOUS
<1>1. CASE \E m \in Senders, at \in {t \in Times : t =< clock /\ clock - t =< MaxLate} :
             \/ \E target \in Targets : Request(m, target, at)
             \/ AnnounceOneself(m, at)
             \/ Serve(m, at)
             \/ \E kind \in Classes : Reclassify(m, kind, at)
  BY <1>1, RequestKeeps, AnnounceKeeps, ServeKeeps, ReclassifyKeeps DEF SoundStep
<1>2. CASE Pass
  BY <1>2, PassKeeps DEF SoundStep
<1>3. CASE UNCHANGED rateVars
  BY <1>3 DEF rateVars, AlarmsAreRaised, Heard, RecentTargets, RecentAnnouncements, Recently,
              IsLegitimate
<1> QED  BY <1>1, <1>2, <1>3 DEF RateNext

\* The invariant says what the type invariant does.
LEMMA RateTypesAre == RateTypes => RateTypeOK
<1> SUFFICES ASSUME RateTypes  PROVE RateTypeOK
  OBVIOUS
<1>1. ASSUME NEW m \in Senders
      PROVE  /\ Len(scanners[m].seen) =< ScanCapacity
             /\ Len(flooders[m].seen) =< FloodCapacity
             /\ ToSet(scanners[m].seen) \subseteq Stamped(Targets)
             /\ IsInjective([i \in DOMAIN scanners[m].seen |-> scanners[m].seen[i].value])
  <2>1. /\ scanners[m].seen \in Seq(Entries(Targets)) /\ Len(scanners[m].seen) =< ScanCapacity
        /\ Len(flooders[m].seen) =< FloodCapacity /\ EachOnce(scanners[m].seen)
    BY DEF RateTypes, Bounded, Windows
  <2>2. ToSet(scanners[m].seen) \subseteq Stamped(Targets)
    <3>1. \A i \in DOMAIN scanners[m].seen : scanners[m].seen[i] \in Entries(Targets)
      BY <2>1
    <3> QED  BY <3>1 DEF ToSet, Stamped, Entries
  <2>3. IsInjective([i \in DOMAIN scanners[m].seen |-> scanners[m].seen[i].value])
    BY <2>1 DEF IsInjective, EachOnce
  <2> QED  BY <2>1, <2>2, <2>3
<1>2. \A map \in {scanners, flooders} :
        Cardinality({m \in Senders : map[m].touched # NeverYet}) =< MaxSenders
  BY DEF RateTypes, Bounded, TrackedIn
<1> QED  BY <1>1, <1>2 DEF RateTypeOK, RateTypes, AlertList

\* The bounded windows and maps of the analyzers keep to their capacities, and
\* a scan window has each address once.
THEOREM RateTypesHold == RateSpec => []RateTypeOK
<1>1. RateInit => RateInv
  BY RateInvInit
<1>2. RateInv /\ [RateNext]_rateVars => RateInv'
  BY RateSteps
<1>3. RateInv => RateTypeOK
  BY RateTypesAre DEF RateInv
<1> QED  BY <1>1, <1>2, <1>3, PTL DEF RateSpec

\* What deserves an alert has one, an alert of a scan is deserved, and none
\* follows too soon, whatever the windows, the thresholds and the delays.
THEOREM AlertsSound == RateSpec => AlertsAreSound
<1>1. RateInit => RateInv /\ AlarmsAreRaised
  BY RateInvInit
<1>2. RateInv /\ AlarmsAreRaised /\ [RateNext]_rateVars => RateInv' /\ AlarmsAreRaised'
  BY RateSteps, AlarmSteps
<1>3. RateInv /\ [RateNext]_rateVars =>
        [\A m \in Senders :
           scanners'[m].last # scanners[m].last /\ scanners'[m].last # NeverYet =>
             LET at == scanners'[m].last
                 target == {t \in Targets :
                              asked[m][t] # NeverYet /\ at - asked[m][t] =< ScanWindow}
             IN Cardinality(target) + 1 >= ThresholdOf(m)]_rateVars
  BY RateSteps DEF SweepStep
<1>4. RateInv /\ [RateNext]_rateVars =>
        [\A guard \in Guards, m \in Senders :
           raised[guard][m] # NeverYet /\ raised'[guard][m] # raised[guard][m]
             => \/ raised'[guard][m] = NeverYet
                \/ raised'[guard][m] - raised[guard][m] >= CooldownOf(guard)]_rateVars
  BY RateSteps DEF SpacedStep, Spaced
<1> QED  BY <1>1, <1>2, <1>3, <1>4, PTL
         DEF RateSpec, AlertsAreSound, ScansAreSweeps, HoldsItselfBack

-----------------------------------------------------------------------------
(***************************************************************************)
(* What a table tells of a day                                             *)
(***************************************************************************)

\* The least of a set of ticks.
LEMMA LeastOf ==
  ASSUME NEW A \in SUBSET Ticks, A # {}
  PROVE  Min(A) \in A /\ (\A a \in A : Min(A) <= a) /\ Min(A) \in Nat
<1>1. A \in SUBSET Nat
  BY MaintenanceAssumption DEF Ticks
<1>2. \E x \in A : \A y \in A : x <= y
  BY <1>1, LeastNumber
<1> QED  BY <1>1, <1>2 DEF Min

\* The greatest of a set of ticks.
LEMMA GreatestOf ==
  ASSUME NEW A \in SUBSET Ticks, A # {}
  PROVE  Max(A) \in A /\ (\A a \in A : Max(A) >= a) /\ Max(A) \in Nat
<1>1. A \in SUBSET Nat /\ MaxTick \in Nat /\ \A a \in A : a <= MaxTick
  BY MaintenanceAssumption DEF Ticks
<1> DEFINE T == {n \in Nat : MaxTick - n \in A}
<1>2. T # {}
  <2>1. PICK a \in A : TRUE
    OBVIOUS
  <2>2. MaxTick - a \in Nat /\ MaxTick - (MaxTick - a) = a
    BY <1>1, <2>1
  <2>3. MaxTick - a \in T
    BY <2>1, <2>2
  <2> QED  BY <2>3
<1>3. PICK n \in T : \A m \in T : n <= m
  BY <1>2, LeastNumber
<1>4. ASSUME NEW a \in A  PROVE MaxTick - n >= a
  <2>1. MaxTick - a \in Nat /\ MaxTick - (MaxTick - a) = a
    BY <1>1
  <2>2. MaxTick - a \in T
    BY <2>1
  <2>3. n <= MaxTick - a /\ n \in Nat /\ a \in Nat
    BY <1>1, <1>3, <2>2
  <2> QED  BY <1>1, <2>3
<1>5. MaxTick - n \in A
  BY <1>3
<1>6. \E x \in A : \A y \in A : x >= y
  BY <1>4, <1>5
<1> QED  BY <1>1, <1>6 DEF Max

SetsOfTicks(A, B, C) ==
  A \in SUBSET Ticks /\ B \in SUBSET Ticks /\ C \in SUBSET Ticks /\ A # {} /\ B # {}

\* The least of two sets together depends on each only through its least.
LEMMA LeastTogether ==
  ASSUME NEW A, NEW B, NEW C, SetsOfTicks(A, B, C), Min(A) = Min(B)
  PROVE  Min(A \cup C) = Min(B \cup C)
<1>0. /\ A \in SUBSET Ticks /\ B \in SUBSET Ticks /\ C \in SUBSET Ticks /\ A # {} /\ B # {}
  BY DEF SetsOfTicks
<1>1. A \cup C \in SUBSET Ticks /\ A \cup C # {} /\ B \cup C \in SUBSET Ticks /\ B \cup C # {}
  BY <1>0
<1> DEFINE a == Min(A)
           x == Min(A \cup C)
           y == Min(B \cup C)
<1>2. /\ a \in A /\ a \in B /\ (\A t \in A : a <= t) /\ (\A t \in B : a <= t) /\ a \in Nat
      /\ x \in A \cup C /\ (\A t \in A \cup C : x <= t) /\ x \in Nat
      /\ y \in B \cup C /\ (\A t \in B \cup C : y <= t) /\ y \in Nat
  BY <1>0, <1>1, LeastOf
<1> HIDE DEF a, x, y
<1>3. x <= y /\ y <= x
  BY <1>2
<1>4. x = y
  BY <1>2, <1>3
<1> QED  BY <1>4 DEF x, y

\* And the greatest through its greatest.
LEMMA GreatestTogether ==
  ASSUME NEW A, NEW B, NEW C, SetsOfTicks(A, B, C), Max(A) = Max(B)
  PROVE  Max(A \cup C) = Max(B \cup C)
<1>0. /\ A \in SUBSET Ticks /\ B \in SUBSET Ticks /\ C \in SUBSET Ticks /\ A # {} /\ B # {}
  BY DEF SetsOfTicks
<1>1. A \cup C \in SUBSET Ticks /\ A \cup C # {} /\ B \cup C \in SUBSET Ticks /\ B \cup C # {}
  BY <1>0
<1> DEFINE a == Max(A)
           x == Max(A \cup C)
           y == Max(B \cup C)
<1>2. /\ a \in A /\ a \in B /\ (\A t \in A : a >= t) /\ (\A t \in B : a >= t) /\ a \in Nat
      /\ x \in A \cup C /\ (\A t \in A \cup C : x >= t) /\ x \in Nat
      /\ y \in B \cup C /\ (\A t \in B \cup C : y >= t) /\ y \in Nat
  BY <1>0, <1>1, GreatestOf
<1> HIDE DEF a, x, y
<1>3. x <= y /\ y <= x
  BY <1>2
<1>4. x = y
  BY <1>2, <1>3
<1> QED  BY <1>4 DEF x, y

EndedRows == {row \in Row : row.end # Open}

Starts(S) == {row.start : row \in S}
Ends(S) == {row.end : row \in S}

\* What DayAsTold says of the rows of a day.
TellOf(S) ==
  IF S = {} THEN <<>>
  ELSE <<Min(Starts(S)), Max(Ends(S)), Cardinality(Observations(S))>>

\* Ended rows start and end at ticks.
LEMMA EndedAt ==
  ASSUME NEW S \in SUBSET EndedRows
  PROVE  /\ Starts(S) \in SUBSET Ticks /\ Ends(S) \in SUBSET Ticks
         /\ S # {} => Starts(S) # {} /\ Ends(S) # {}
BY DEF EndedRows, Row, Starts, Ends

\* Finitely many rows have finitely many observations.
LEMMA FinitelyObserved ==
  ASSUME NEW S \in SUBSET Row, IsFiniteSet(S)
  PROVE  /\ IsFiniteSet(Observations(S)) /\ Cardinality(Observations(S)) \in Nat
         /\ Observations(S) = {x \in S \X Nat : x[2] \in 1..x[1].heard}
<1> DEFINE P == {{row} \X (1..row.heard) : row \in S}
           f == [row \in S |-> {row} \X (1..row.heard)]
<1>1. \A row \in S : row.heard \in Nat
  BY DEF Row
<1>2. f \in Surjection(S, P)
  BY DEF Surjection
<1>3. IsFiniteSet(P)
  <2> HIDE DEF f, P
  <2> QED  BY <1>2, FS_Surjection
<1>4. \A T \in P : IsFiniteSet(T)
  <2> SUFFICES ASSUME NEW row \in S  PROVE IsFiniteSet({row} \X (1..row.heard))
    OBVIOUS
  <2>1. IsFiniteSet({row}) /\ IsFiniteSet(1..row.heard)
    <3>1. row.heard \in Nat
      BY <1>1
    <3>2. IsFiniteSet(1..row.heard)
      <4> DEFINE h == row.heard
      <4>1. h \in Int
        BY <3>1
      <4> HIDE DEF h
      <4>2. IsFiniteSet(1..h)
        BY <4>1, FS_Interval
      <4> QED  BY <4>2 DEF h
    <3> QED  BY <3>2, FS_Singleton
  <2> QED  BY <2>1, FS_Product
<1>5. IsFiniteSet(UNION P)
  <2> HIDE DEF P
  <2> QED  BY <1>3, <1>4, FS_UNION
<1>6. Observations(S) = UNION P
  BY DEF Observations
<1>7. UNION P = {x \in S \X Nat : x[2] \in 1..x[1].heard}
  <2>1. ASSUME NEW x \in UNION P  PROVE x \in S \X Nat /\ x[2] \in 1..x[1].heard
    <3>1. PICK row \in S : x \in {row} \X (1..row.heard)
      OBVIOUS
    <3> QED  BY <1>1, <3>1
  <2>2. ASSUME NEW x \in S \X Nat, x[2] \in 1..x[1].heard  PROVE x \in UNION P
    <3>1. x[1] \in S /\ x \in {x[1]} \X (1..x[1].heard)
      BY <2>2
    <3> QED  BY <3>1
  <2> HIDE DEF P
  <2> QED  BY <2>1, <2>2
<1> HIDE DEF P
<1> QED  BY <1>5, <1>6, <1>7, FS_CardinalityType

\* Rows that are not the same are observed one by one.
LEMMA ObservedTogether ==
  ASSUME NEW S \in SUBSET Row, NEW C \in SUBSET Row, IsFiniteSet(S), IsFiniteSet(C), S \cap C = {}
  PROVE  Cardinality(Observations(S \cup C))
           = Cardinality(Observations(S)) + Cardinality(Observations(C))
<1>1. IsFiniteSet(S \cup C) /\ S \cup C \in SUBSET Row
  BY FS_Union
<1>2. /\ Observations(S) = {x \in S \X Nat : x[2] \in 1..x[1].heard}
      /\ Observations(C) = {x \in C \X Nat : x[2] \in 1..x[1].heard}
      /\ Observations(S \cup C) = {x \in (S \cup C) \X Nat : x[2] \in 1..x[1].heard}
      /\ IsFiniteSet(Observations(S)) /\ IsFiniteSet(Observations(C))
      /\ Cardinality(Observations(S)) \in Nat /\ Cardinality(Observations(C)) \in Nat
  BY <1>1, FinitelyObserved
<1>3. Observations(S \cup C) = Observations(S) \cup Observations(C)
  BY <1>2
<1>4. Observations(S) \cap Observations(C) = {}
  BY <1>2
<1>5. Cardinality(Observations(S) \cup Observations(C))
        = Cardinality(Observations(S)) + Cardinality(Observations(C))
            - Cardinality(Observations(S) \cap Observations(C))
  BY <1>2, FS_Union
<1>6. Cardinality(Observations(S) \cap Observations(C)) = 0
  BY <1>4, FS_EmptySet
<1> DEFINE s == Cardinality(Observations(S))
           c == Cardinality(Observations(C))
           o == Cardinality(Observations(S) \cap Observations(C))
           u == Cardinality(Observations(S) \cup Observations(C))
<1>7. s \in Nat /\ c \in Nat /\ o = 0 /\ u = s + c - o
  BY <1>2, <1>5, <1>6
<1> HIDE DEF s, c, o, u
<1>8. u = s + c
  BY <1>7
<1> QED  BY <1>3, <1>8 DEF s, c, u

\* Rows that tell the same of a day still do when others are added to both.
LEMMA ToldTogether ==
  ASSUME NEW S \in SUBSET EndedRows, NEW T \in SUBSET EndedRows, NEW C \in SUBSET EndedRows,
         IsFiniteSet(S), IsFiniteSet(T), IsFiniteSet(C), S \cap C = {}, T \cap C = {},
         TellOf(S) = TellOf(T)
  PROVE  TellOf(S \cup C) = TellOf(T \cup C)
<1>1. CASE S = {} \/ T = {}
  <2>1. S = {} /\ T = {}
    BY <1>1 DEF TellOf
  <2> QED  BY <2>1
<1>2. CASE S # {} /\ T # {}
  <2>1. /\ Min(Starts(S)) = Min(Starts(T)) /\ Max(Ends(S)) = Max(Ends(T))
        /\ Cardinality(Observations(S)) = Cardinality(Observations(T))
    BY <1>2 DEF TellOf
  <2>2. /\ Starts(S \cup C) = Starts(S) \cup Starts(C) /\ Ends(S \cup C) = Ends(S) \cup Ends(C)
        /\ Starts(T \cup C) = Starts(T) \cup Starts(C) /\ Ends(T \cup C) = Ends(T) \cup Ends(C)
    BY DEF Starts, Ends
  <2>3. /\ Starts(S) \in SUBSET Ticks /\ Starts(T) \in SUBSET Ticks /\ Starts(C) \in SUBSET Ticks
        /\ Ends(S) \in SUBSET Ticks /\ Ends(T) \in SUBSET Ticks /\ Ends(C) \in SUBSET Ticks
        /\ Starts(S) # {} /\ Starts(T) # {} /\ Ends(S) # {} /\ Ends(T) # {}
    BY <1>2, EndedAt
  <2>4. Min(Starts(S \cup C)) = Min(Starts(T \cup C))
    <3>1. Min(Starts(S) \cup Starts(C)) = Min(Starts(T) \cup Starts(C))
      <4>1. SetsOfTicks(Starts(S), Starts(T), Starts(C))
        BY <2>3 DEF SetsOfTicks
      <4> QED  BY <2>1, <4>1, LeastTogether
    <3> QED  BY <2>2, <3>1
  <2>5. Max(Ends(S \cup C)) = Max(Ends(T \cup C))
    <3>1. Max(Ends(S) \cup Ends(C)) = Max(Ends(T) \cup Ends(C))
      <4>1. SetsOfTicks(Ends(S), Ends(T), Ends(C))
        BY <2>3 DEF SetsOfTicks
      <4> QED  BY <2>1, <4>1, GreatestTogether
    <3> QED  BY <2>2, <3>1
  <2>6. Cardinality(Observations(S \cup C)) = Cardinality(Observations(T \cup C))
    <3>1. S \in SUBSET Row /\ T \in SUBSET Row /\ C \in SUBSET Row
      BY DEF EndedRows
    <3> QED  BY <2>1, <3>1, ObservedTogether
  <2> QED  BY <1>2, <2>4, <2>5, <2>6 DEF TellOf
<1> QED  BY <1>1, <1>2
-----------------------------------------------------------------------------
(***************************************************************************)
(* Two tables that tell the same                                           *)
(***************************************************************************)
SameKey(v, w) == v.resident = w.resident /\ v.place = w.place /\ v.start = w.start

Keyed(those) == \A v, w \in those : SameKey(v, w) => v = w

Opened(those) == {row \in those : row.end = Open}

DayRows(those, r, place, day) ==
  {row \in those : /\ row.resident = r /\ row.place = place
                   /\ row.end # Open /\ DayOf(row.start) = day}

Table(T) == T \in SUBSET Row /\ IsFiniteSet(T) /\ Keyed(T)

\* The history and the history that no night has touched.
Agrees(R, L) ==
  /\ Table(R) /\ Table(L)
  /\ \A v \in R : \E w \in L : SameKey(v, w)
  /\ Opened(R) = Opened(L)
  /\ \A v \in Opened(R) : ~v.summary
  /\ \A r, place, day : TellOf(DayRows(R, r, place, day)) = TellOf(DayRows(L, r, place, day))

\* A session or a stay begins in both.
LEMMA InsertKeeps ==
  ASSUME NEW R, NEW L, Agrees(R, L), NEW n \in Row, n.end = Open, ~n.summary,
         \A w \in L : ~SameKey(w, n)
  PROVE  Agrees(R \cup {n}, L \cup {n})
<1>0. /\ R \in SUBSET Row /\ IsFiniteSet(R) /\ Keyed(R)
      /\ L \in SUBSET Row /\ IsFiniteSet(L) /\ Keyed(L)
      /\ \A v \in R : \E w \in L : SameKey(v, w)
      /\ Opened(R) = Opened(L)
      /\ \A v \in Opened(R) : ~v.summary
      /\ \A r, place, day : TellOf(DayRows(R, r, place, day)) = TellOf(DayRows(L, r, place, day))
  BY DEF Agrees, Table
<1>1. \A v \in R : ~SameKey(v, n)
  BY <1>0 DEF SameKey
<1>2. Table(R \cup {n}) /\ Table(L \cup {n})
  <2>1. IsFiniteSet(R \cup {n}) /\ IsFiniteSet(L \cup {n})
    BY <1>0, FS_AddElement
  <2>2. Keyed(R \cup {n}) /\ Keyed(L \cup {n})
    BY <1>0, <1>1 DEF Keyed, SameKey
  <2> QED  BY <1>0, <2>1, <2>2 DEF Table
<1>3. \A v \in R \cup {n} : \E w \in L \cup {n} : SameKey(v, w)
  BY <1>0 DEF SameKey
<1>4. Opened(R \cup {n}) = Opened(R) \cup {n} /\ Opened(L \cup {n}) = Opened(L) \cup {n}
  BY DEF Opened
<1>5. \A T, r, place, day : DayRows(T \cup {n}, r, place, day) = DayRows(T, r, place, day)
  BY DEF DayRows
<1>6. \A r, place, day : TellOf(DayRows(R \cup {n}, r, place, day))
                           = TellOf(DayRows(L \cup {n}, r, place, day))
  BY <1>0, <1>5
<1>7. /\ Opened(R \cup {n}) = Opened(L \cup {n})
      /\ \A v \in Opened(R \cup {n}) : ~v.summary
  BY <1>0, <1>4
<1> QED  BY <1>2, <1>3, <1>6, <1>7 DEF Agrees

\* Open rows are counted on, or end, in both.
Replaced(T, A, f) == (T \ A) \cup {f[w] : w \in A}

ReplacedWell(T, A, f) ==
         /\ Table(Replaced(T, A, f))
         /\ \A v \in T : \E w \in Replaced(T, A, f) : SameKey(v, w)
         /\ \A v \in Replaced(T, A, f) : \E w \in T : SameKey(v, w)
         /\ Opened(Replaced(T, A, f)) = (Opened(T) \ A) \cup Opened({f[w] : w \in A})
         /\ \A r, place, day :
              /\ DayRows(Replaced(T, A, f), r, place, day) =
                   DayRows(T, r, place, day) \cup DayRows({f[w] : w \in A}, r, place, day)
              /\ DayRows(T, r, place, day) \cap DayRows({f[w] : w \in A}, r, place, day) = {}
         /\ IsFiniteSet({f[w] : w \in A})
\* What is ended by it is told of in addition.
LEMMA ReplacedTable ==
  ASSUME NEW T, NEW A, NEW f, Table(T), A \in SUBSET Opened(T), f \in [A -> Row],
         \A w \in A : SameKey(w, f[w])
  PROVE  ReplacedWell(T, A, f)
<1> DEFINE F == {f[w] : w \in A}
<1>0. T \in SUBSET Row /\ IsFiniteSet(T) /\ Keyed(T) /\ A \in SUBSET T
  BY DEF Table, Opened
<1>1. IsFiniteSet(A) /\ f \in Surjection(A, F)
  BY <1>0, FS_Subset DEF Surjection
<1>2. IsFiniteSet(F)
  <2> HIDE DEF F
  <2> QED  BY <1>1, FS_Surjection
<1>3. IsFiniteSet(T \ A)
  BY <1>0, FS_Subset
<1>4. IsFiniteSet(Replaced(T, A, f))
  <2> HIDE DEF F
  <2>1. IsFiniteSet((T \ A) \cup F)
    BY <1>2, <1>3, FS_Union
  <2> QED  BY <2>1 DEF Replaced, F
<1>5. \A v \in F : \E w \in A : v = f[w] /\ SameKey(w, v)
  OBVIOUS
<1>6. Keyed(Replaced(T, A, f))
  <2> SUFFICES ASSUME NEW v \in (T \ A) \cup F, NEW w \in (T \ A) \cup F, SameKey(v, w)
               PROVE  v = w
    BY DEF Keyed, Replaced
  <2>1. CASE v \in T \ A /\ w \in T \ A
    BY <1>0, <2>1 DEF Keyed
  <2>2. CASE v \in F /\ w \in T \ A
    <3>1. PICK x \in A : v = f[x] /\ SameKey(x, v)
      BY <1>5, <2>2
    <3>2. SameKey(x, w)
      BY <3>1 DEF SameKey
    <3> QED  BY <1>0, <2>2, <3>2 DEF Keyed
  <2>3. CASE v \in T \ A /\ w \in F
    <3>1. PICK x \in A : w = f[x] /\ SameKey(x, w)
      BY <1>5, <2>3
    <3>2. SameKey(x, v)
      BY <3>1 DEF SameKey
    <3> QED  BY <1>0, <2>3, <3>2 DEF Keyed
  <2>4. CASE v \in F /\ w \in F
    <3>1. PICK x \in A : v = f[x] /\ SameKey(x, v)
      BY <1>5, <2>4
    <3>2. PICK y \in A : w = f[y] /\ SameKey(y, w)
      BY <1>5, <2>4
    <3>3. SameKey(x, y)
      BY <3>1, <3>2 DEF SameKey
    <3>4. x = y
      BY <1>0, <3>3 DEF Keyed
    <3> QED  BY <3>1, <3>2, <3>4
  <2> QED  BY <2>1, <2>2, <2>3, <2>4
<1>7. Replaced(T, A, f) \in SUBSET Row
  BY <1>0 DEF Replaced
<1>8. \A v \in T : \E w \in Replaced(T, A, f) : SameKey(v, w)
  BY DEF Replaced, SameKey
<1>9. \A v \in Replaced(T, A, f) : \E w \in T : SameKey(v, w)
  BY <1>0, <1>5 DEF Replaced, SameKey
<1>10. Opened(Replaced(T, A, f)) = (Opened(T) \ A) \cup Opened(F)
  <2> HIDE DEF F
  <2> QED  BY DEF Replaced, Opened, F
<1>11. ASSUME NEW r, NEW place, NEW day
       PROVE  /\ DayRows(Replaced(T, A, f), r, place, day) =
                   DayRows(T, r, place, day) \cup DayRows(F, r, place, day)
              /\ DayRows(T, r, place, day) \cap DayRows(F, r, place, day) = {}
  <2>1. \A w \in A : w.end = Open
    BY DEF Opened
  <2>2. ASSUME NEW v \in F, v \in T  PROVE v.end = Open
    <3>1. PICK x \in A : v = f[x] /\ SameKey(x, v)
      BY <1>5
    <3>2. x = v
      BY <1>0, <2>2, <3>1 DEF Keyed
    <3> QED  BY <2>1, <3>2
  <2> HIDE DEF F
  <2>3. Replaced(T, A, f) = (T \ A) \cup F
    BY DEF Replaced, F
  <2> QED  BY <2>1, <2>2, <2>3 DEF DayRows
<1> QED  BY <1>2, <1>4, <1>6, <1>7, <1>8, <1>9, <1>10, <1>11 DEF Table, ReplacedWell

\* Rows of a day that have ended have ended.
LEMMA DayRowsEnded ==
  ASSUME NEW T \in SUBSET Row, IsFiniteSet(T), NEW r, NEW place, NEW day
  PROVE  DayRows(T, r, place, day) \in SUBSET EndedRows /\ IsFiniteSet(DayRows(T, r, place, day))
<1>1. DayRows(T, r, place, day) \in SUBSET T
  BY DEF DayRows
<1>2. IsFiniteSet(DayRows(T, r, place, day))
  BY <1>1, FS_Subset
<1> QED  BY <1>2 DEF DayRows, EndedRows

\* What happens to the same open rows in both is told of both.
LEMMA ReplaceKeeps ==
  ASSUME NEW R, NEW L, NEW A, NEW f, Agrees(R, L), A \in SUBSET Opened(R), f \in [A -> Row],
         \A w \in A : SameKey(w, f[w]) /\ ~f[w].summary
  PROVE  /\ Agrees(Replaced(R, A, f), Replaced(L, A, f))
         /\ \A v \in Replaced(L, A, f) : \E w \in L : SameKey(v, w)
<1> DEFINE F == {f[w] : w \in A}
           Rf == Replaced(R, A, f)
           Lf == Replaced(L, A, f)
<1>0. /\ Table(R) /\ Table(L) /\ Opened(R) = Opened(L)
      /\ \A v \in R : \E w \in L : SameKey(v, w)
      /\ \A v \in Opened(R) : ~v.summary
      /\ \A r, place, day : TellOf(DayRows(R, r, place, day)) = TellOf(DayRows(L, r, place, day))
      /\ A \in SUBSET Opened(L)
  BY DEF Agrees
<1>1. F \in SUBSET Row /\ \A v \in F : ~v.summary
  OBVIOUS
<1> HIDE DEF F, Rf, Lf
<1>2. /\ Table(Rf) /\ Opened(Rf) = (Opened(R) \ A) \cup Opened(F) /\ IsFiniteSet(F)
      /\ \A v \in Rf : \E w \in R : SameKey(v, w)
      /\ \A r, place, day :
           /\ DayRows(Rf, r, place, day) = DayRows(R, r, place, day) \cup DayRows(F, r, place, day)
           /\ DayRows(R, r, place, day) \cap DayRows(F, r, place, day) = {}
  <2>1. ReplacedWell(R, A, f)
    BY <1>0, ReplacedTable
  <2> QED  BY <2>1 DEF ReplacedWell, Rf, F
<1>3. /\ Table(Lf) /\ Opened(Lf) = (Opened(L) \ A) \cup Opened(F)
      /\ \A v \in L : \E w \in Lf : SameKey(v, w)
      /\ \A v \in Lf : \E w \in L : SameKey(v, w)
      /\ \A r, place, day :
           /\ DayRows(Lf, r, place, day) = DayRows(L, r, place, day) \cup DayRows(F, r, place, day)
           /\ DayRows(L, r, place, day) \cap DayRows(F, r, place, day) = {}
  <2>1. ReplacedWell(L, A, f)
    BY <1>0, ReplacedTable
  <2> QED  BY <2>1 DEF ReplacedWell, Lf, F
<1>4. \A v \in Rf : \E w \in Lf : SameKey(v, w)
  BY <1>0, <1>2, <1>3 DEF SameKey
<1>5. \A v \in Opened(Rf) : ~v.summary
  BY <1>0, <1>1, <1>2 DEF Opened
<1>6. ASSUME NEW r, NEW place, NEW day
      PROVE  TellOf(DayRows(Rf, r, place, day)) = TellOf(DayRows(Lf, r, place, day))
  <2>1. /\ R \in SUBSET Row /\ IsFiniteSet(R) /\ L \in SUBSET Row /\ IsFiniteSet(L)
    BY <1>0 DEF Table
  <2> DEFINE S == DayRows(R, r, place, day)
             T == DayRows(L, r, place, day)
             C == DayRows(F, r, place, day)
  <2>2. /\ S \in SUBSET EndedRows /\ T \in SUBSET EndedRows /\ C \in SUBSET EndedRows
        /\ IsFiniteSet(S) /\ IsFiniteSet(T) /\ IsFiniteSet(C)
    BY <1>1, <1>2, <2>1, DayRowsEnded
  <2>3. S \cap C = {} /\ T \cap C = {} /\ TellOf(S) = TellOf(T)
    BY <1>0, <1>2, <1>3
  <2>4. DayRows(Rf, r, place, day) = S \cup C /\ DayRows(Lf, r, place, day) = T \cup C
    BY <1>2, <1>3
  <2> HIDE DEF S, T, C
  <2>5. TellOf(S \cup C) = TellOf(T \cup C)
    BY <2>2, <2>3, ToldTogether
  <2> QED  BY <2>4, <2>5
<1>7. Agrees(Rf, Lf)
  BY <1>0, <1>2, <1>3, <1>4, <1>5, <1>6 DEF Agrees
<1> QED  BY <1>3, <1>7 DEF Rf, Lf
-----------------------------------------------------------------------------
(***************************************************************************)
(* A rollup                                                                *)
(***************************************************************************)
OfDay(g, r, place, day) ==
  \A w \in g : w.resident = r /\ w.place = place /\ DayOf(w.start) = day

\* A summary is the ended row of a day that has the key of one of its rows,
\* and tells of them what they tell.
Summarized(g, s, r, place, day) ==
  /\ s \in EndedRows /\ s.summary /\ \E u \in g : SameKey(u, s)
  /\ s.resident = r /\ s.place = place /\ DayOf(s.start) = day
  /\ TellOf({s}) = TellOf(g)

\* The summary of rows of a day tells what they tell.
LEMMA SummaryTells ==
  ASSUME NEW g \in SUBSET EndedRows, IsFiniteSet(g), g # {}, NEW r, NEW place, NEW day,
         OfDay(g, r, place, day)
  PROVE  Summarized(g, Summary(g), r, place, day)
<1> DEFINE s == Summary(g)
           any == CHOOSE row \in g : TRUE
           first == Min(Starts(g))
           last == Max(Ends(g))
           n == Cardinality(Observations(g))
<1>1. any \in g
  OBVIOUS
<1>2. any.resident = r /\ any.place = place
  BY <1>1 DEF OfDay
<1>3. any.resident \in Residents /\ any.place \in RowPlaces
  BY <1>1 DEF EndedRows, Row
<1>4. /\ Starts(g) \in SUBSET Ticks /\ Ends(g) \in SUBSET Ticks
      /\ Starts(g) # {} /\ Ends(g) # {}
  BY EndedAt
<1>5. first \in Starts(g) /\ first \in Ticks
  BY <1>4, LeastOf
<1>6. last \in Ticks
  BY <1>4, GreatestOf
<1>7. n \in Nat
  <2>1. g \in SUBSET Row
    BY DEF EndedRows
  <2> QED  BY <2>1, FinitelyObserved
<1>8. s = [resident |-> any.resident, place |-> any.place, start |-> first, end |-> last,
           summary |-> TRUE, heard |-> n]
  BY DEF Summary, Starts, Ends
<1> HIDE DEF s, any, first, last, n
<1>9. last # Open
  BY <1>6, MaintenanceAssumption DEF Ticks
<1>10. s \in EndedRows /\ s.summary /\ s.resident = r /\ s.place = place
  BY <1>2, <1>3, <1>5, <1>6, <1>7, <1>8, <1>9 DEF EndedRows, Row
<1>11. PICK u \in g : u.start = first
  BY <1>5 DEF Starts
<1>12. SameKey(u, s) /\ DayOf(s.start) = day
  BY <1>2, <1>8, <1>11 DEF SameKey, OfDay
<1>13. Starts({s}) = {first} /\ Ends({s}) = {last} /\ s.heard = n
  BY <1>8 DEF Starts, Ends
<1>14. Min({first}) = first
  <2>1. {first} \in SUBSET Ticks /\ {first} # {}
    BY <1>5
  <2> QED  BY <2>1, LeastOf
<1>15. Max({last}) = last
  <2>1. {last} \in SUBSET Ticks /\ {last} # {}
    BY <1>6
  <2> QED  BY <2>1, GreatestOf
<1>16. Cardinality(Observations({s})) = n
  <2>1. Observations({s}) = {s} \X (1..n)
    BY <1>13 DEF Observations
  <2>2. IsFiniteSet({s}) /\ Cardinality({s}) = 1
    BY FS_Singleton
  <2>3. IsFiniteSet(1..n) /\ Cardinality(1..n) = n
    <3>1. n \in Int /\ 1 \in Int
      BY <1>7
    <3>2. IsFiniteSet(1..n) /\ Cardinality(1..n) = IF 1 > n THEN 0 ELSE n - 1 + 1
      BY <3>1, FS_Interval
    <3>3. (IF 1 > n THEN 0 ELSE n - 1 + 1) = n
      BY <1>7
    <3> QED  BY <3>2, <3>3
  <2> DEFINE c == Cardinality({s})
             d == Cardinality(1..n)
  <2>4. Cardinality({s} \X (1..n)) = c * d
    BY <2>2, <2>3, FS_Product
  <2>5. c = 1 /\ d = n
    BY <2>2, <2>3
  <2> HIDE DEF c, d
  <2>6. c * d = n
    BY <1>7, <2>5
  <2> QED  BY <2>1, <2>4, <2>6
<1>17. TellOf({s}) = <<first, last, n>>
  BY <1>13, <1>14, <1>15, <1>16 DEF TellOf
<1>18. TellOf(g) = <<first, last, n>>
  BY DEF TellOf, first, last, n
<1>19. TellOf({s}) = TellOf(g)
  BY <1>17, <1>18
<1> QED  BY <1>10, <1>12, <1>19 DEF s, Summarized
GroupOf(V, v) ==
  {w \in V : w.resident = v.resident /\ w.place = v.place /\ DayOf(w.start) = DayOf(v.start)}

Summaries(V) == {Summary(GroupOf(V, v)) : v \in V}

RolledUp(R, V) == (R \ V) \cup Summaries(V)

\* There is a summary of each group, and of each row's group.
LEMMA SummariesOfGroups ==
  ASSUME NEW V
  PROVE  {Summary(g) : g \in Groups(V)} = Summaries(V)
BY DEF Summaries, Groups, GroupOf

\* Each row of a rollup is in one summary, with the day it is of.
SummaryOf(V, v) ==
  /\ GroupOf(V, v) \in SUBSET EndedRows /\ v \in GroupOf(V, v)
  /\ GroupOf(V, v) = DayRows(V, v.resident, v.place, DayOf(v.start))
  /\ Summarized(GroupOf(V, v), Summary(GroupOf(V, v)), v.resident, v.place, DayOf(v.start))

\* A row of a rollup is in the summary of its day.
LEMMA RowsSummarized ==
  ASSUME NEW V \in SUBSET EndedRows, IsFiniteSet(V), NEW v \in V
  PROVE  SummaryOf(V, v)
<1> DEFINE g == GroupOf(V, v)
<1>1. g \in SUBSET V /\ g \in SUBSET EndedRows /\ v \in g /\ IsFiniteSet(g)
  <2>1. g \in SUBSET V /\ v \in g
    BY DEF GroupOf
  <2>2. IsFiniteSet(g)
    <3> HIDE DEF g
    <3> QED  BY <2>1, FS_Subset
  <2> QED  BY <2>1, <2>2
<1>2. OfDay(g, v.resident, v.place, DayOf(v.start))
  BY DEF OfDay, GroupOf
<1>3. g = DayRows(V, v.resident, v.place, DayOf(v.start))
  BY DEF GroupOf, DayRows, EndedRows
<1>4. Summarized(g, Summary(g), v.resident, v.place, DayOf(v.start))
  <2> HIDE DEF g
  <2>1. g # {}
    BY <1>1
  <2> QED  BY <1>1, <1>2, <2>1, SummaryTells
<1> QED  BY <1>1, <1>3, <1>4 DEF SummaryOf

\* A rollup replaces ended rows by summaries with keys of theirs.
SummariesWell(V) ==
  /\ Summaries(V) \in SUBSET EndedRows /\ IsFiniteSet(Summaries(V))
  /\ \A s \in Summaries(V) :
       /\ s.summary
       /\ \E v \in V : s = Summary(GroupOf(V, v)) /\ \E u \in GroupOf(V, v) : SameKey(u, s)
  /\ Keyed(Summaries(V))

\* Two summaries of a rollup have different keys.
LEMMA SummariesKeyed ==
  ASSUME NEW V \in SUBSET EndedRows, IsFiniteSet(V), Keyed(V)
  PROVE  SummariesWell(V)
<1> DEFINE S == Summaries(V)
           f == [v \in V |-> Summary(GroupOf(V, v))]
<1>1. \A v \in V : SummaryOf(V, v)
  BY RowsSummarized
<1>2. f \in Surjection(V, S)
  BY DEF Summaries, Surjection
<1>3. IsFiniteSet(S)
  <2> HIDE DEF f, S
  <2> QED  BY <1>2, FS_Surjection
<1>4. S \in SUBSET EndedRows
  BY <1>1 DEF Summaries, SummaryOf, Summarized
<1>5. \A s \in S :
        /\ s.summary
        /\ \E v \in V : s = Summary(GroupOf(V, v)) /\ \E u \in GroupOf(V, v) : SameKey(u, s)
  BY <1>1 DEF Summaries, SummaryOf, Summarized
<1>6. Keyed(S)
  <2> SUFFICES ASSUME NEW s \in S, NEW t \in S, SameKey(s, t)  PROVE s = t
    BY DEF Keyed
  <2> HIDE DEF S
  <2>1. PICK v \in V : s = Summary(GroupOf(V, v)) /\ \E u \in GroupOf(V, v) : SameKey(u, s)
    BY <1>5
  <2>2. PICK w \in V : t = Summary(GroupOf(V, w)) /\ \E u \in GroupOf(V, w) : SameKey(u, t)
    BY <1>5
  <2>3. PICK x \in GroupOf(V, v) : SameKey(x, s)
    BY <2>1
  <2>4. PICK y \in GroupOf(V, w) : SameKey(y, t)
    BY <2>2
  <2>5. x \in V /\ y \in V /\ SameKey(x, y)
    BY <2>3, <2>4 DEF SameKey, GroupOf
  <2>6. x = y
    BY <2>5 DEF Keyed
  <2>7. GroupOf(V, v) = GroupOf(V, w)
    BY <2>3, <2>4, <2>6 DEF GroupOf
  <2> QED  BY <2>1, <2>2, <2>7
<1> QED  BY <1>3, <1>4, <1>5, <1>6 DEF SummariesWell

\* What a table tells of a day is what it told before the rollup.
LEMMA RollUpTells ==
  ASSUME NEW R, NEW V, Table(R), V \in SUBSET R, V \in SUBSET EndedRows, NEW r, NEW place, NEW day
  PROVE  TellOf(DayRows(RolledUp(R, V), r, place, day)) = TellOf(DayRows(R, r, place, day))
<1>0. R \in SUBSET Row /\ IsFiniteSet(R) /\ Keyed(R) /\ IsFiniteSet(V) /\ Keyed(V)
  BY FS_Subset DEF Table, Keyed
<1> DEFINE D == DayRows(R, r, place, day)
           G == DayRows(V, r, place, day)
           C == D \ V
           S == DayRows(Summaries(V), r, place, day)
<1>1. /\ D \in SUBSET EndedRows /\ G \in SUBSET EndedRows /\ IsFiniteSet(D) /\ IsFiniteSet(G)
  <2>1. V \in SUBSET Row
    BY <1>0
  <2> QED  BY <1>0, <2>1, DayRowsEnded
<1>2. C \in SUBSET EndedRows /\ IsFiniteSet(C) /\ D = G \cup C /\ G \cap C = {}
  <2>1. G = D \cap V
    BY DEF DayRows
  <2> HIDE DEF D, G
  <2>2. IsFiniteSet(C)
    BY <1>1, FS_Subset
  <2> QED  BY <1>1, <2>1, <2>2
<1>3. DayRows(RolledUp(R, V), r, place, day) = S \cup C
  BY DEF DayRows, RolledUp
<1>4. CASE G = {}
  <2>1. S = {}
    <3> SUFFICES ASSUME NEW s \in S  PROVE FALSE
      OBVIOUS
    <3>1. PICK v \in V : s = Summary(GroupOf(V, v))
      BY DEF DayRows, Summaries
    <3>2. SummaryOf(V, v)
      BY <1>0, RowsSummarized
    <3>3. s.resident = r /\ s.place = place /\ DayOf(s.start) = day
      BY DEF DayRows
    <3>4. v.resident = r /\ v.place = place /\ DayOf(v.start) = day /\ v \in EndedRows
      BY <3>1, <3>2, <3>3 DEF SummaryOf, Summarized
    <3>5. v \in G
      BY <3>4 DEF DayRows, EndedRows
    <3> QED  BY <1>4, <3>5
  <2> HIDE DEF S, G, C, D
  <2>2. S \cup C = D
    BY <1>2, <1>4, <2>1
  <2> QED  BY <1>3, <2>2 DEF D
<1>5. CASE G # {}
  <2> DEFINE s == Summary(G)
  <2>1. PICK v \in V : v \in G
    BY <1>5 DEF DayRows
  <2>2. v.resident = r /\ v.place = place /\ DayOf(v.start) = day
    BY <2>1 DEF DayRows
  <2>3. SummaryOf(V, v) /\ GroupOf(V, v) = G
    <3>1. SummaryOf(V, v)
      BY <1>0, RowsSummarized
    <3> QED  BY <2>2, <3>1 DEF SummaryOf
  <2>4. Summarized(G, s, r, place, day)
    BY <2>2, <2>3 DEF SummaryOf
  <2>5. S = {s}
    <3>1. s \in S
      BY <2>3, <2>4 DEF DayRows, Summaries, Summarized, EndedRows
    <3>2. ASSUME NEW t \in S  PROVE t = s
      <4>1. PICK w \in V : t = Summary(GroupOf(V, w))
        BY DEF DayRows, Summaries
      <4>2. SummaryOf(V, w)
        BY <1>0, RowsSummarized
      <4>3. t.resident = r /\ t.place = place /\ DayOf(t.start) = day
        BY DEF DayRows
      <4>4. w.resident = r /\ w.place = place /\ DayOf(w.start) = day
        BY <4>1, <4>2, <4>3 DEF SummaryOf, Summarized
      <4>5. GroupOf(V, w) = G
        BY <4>2, <4>4 DEF SummaryOf
      <4> QED  BY <4>1, <4>5
    <3> HIDE DEF S, s
    <3> QED  BY <3>1, <3>2
  <2>6. s \in EndedRows /\ TellOf({s}) = TellOf(G)
    BY <2>4 DEF Summarized
  <2>7. s \notin C
    <3> SUFFICES ASSUME s \in C  PROVE FALSE
      OBVIOUS
    <3>1. PICK u \in G : SameKey(u, s)
      BY <2>4 DEF Summarized
    <3>2. u \in V /\ s \in R /\ s \notin V
      BY <3>1 DEF DayRows
    <3>3. u = s
      BY <1>0, <3>1, <3>2 DEF Keyed
    <3> QED  BY <3>2, <3>3
  <2> HIDE DEF S, G, C, D, s
  <2>8. {s} \in SUBSET EndedRows /\ IsFiniteSet({s}) /\ {s} \cap C = {}
    BY <2>6, <2>7, FS_Singleton
  <2>9. TellOf({s} \cup C) = TellOf(G \cup C)
    BY <1>1, <1>2, <2>6, <2>8, ToldTogether
  <2> QED  BY <1>2, <1>3, <2>5, <2>9 DEF D
<1> QED  BY <1>4, <1>5

\* A rollup keeps the history what it is told to be.
LEMMA RollUpKeeps ==
  ASSUME NEW R, NEW L, NEW V, Agrees(R, L), V \in SUBSET R, V \in SUBSET EndedRows
  PROVE  Agrees(RolledUp(R, V), L)
<1>0. /\ Table(R) /\ Table(L) /\ Opened(R) = Opened(L)
      /\ \A v \in R : \E w \in L : SameKey(v, w)
      /\ \A v \in Opened(R) : ~v.summary
      /\ \A r, place, day : TellOf(DayRows(R, r, place, day)) = TellOf(DayRows(L, r, place, day))
  BY DEF Agrees
<1>1. R \in SUBSET Row /\ IsFiniteSet(R) /\ Keyed(R) /\ IsFiniteSet(V) /\ Keyed(V)
  BY <1>0, FS_Subset DEF Table, Keyed
<1>2. SummariesWell(V)
  BY <1>1, SummariesKeyed
<1> DEFINE S == Summaries(V)
<1>3. /\ S \in SUBSET EndedRows /\ IsFiniteSet(S) /\ Keyed(S)
      /\ \A s \in S : s.summary /\ \E u \in V : SameKey(u, s)
  BY <1>2 DEF SummariesWell, GroupOf
<1>4. RolledUp(R, V) = (R \ V) \cup S
  BY DEF RolledUp
<1> HIDE DEF S
<1>5. Table(RolledUp(R, V))
  <2>1. IsFiniteSet((R \ V) \cup S)
    <3>1. IsFiniteSet(R \ V)
      BY <1>1, FS_Subset
    <3> QED  BY <1>3, <3>1, FS_Union
  <2>2. (R \ V) \cup S \in SUBSET Row
    BY <1>1, <1>3 DEF EndedRows
  <2>3. ASSUME NEW v \in R \ V, NEW s \in S, SameKey(v, s) \/ SameKey(s, v)  PROVE FALSE
    <3>1. PICK u \in V : SameKey(u, s)
      BY <1>3
    <3>2. SameKey(u, v)
      BY <2>3, <3>1 DEF SameKey
    <3>3. u = v
      BY <1>1, <3>2 DEF Keyed
    <3> QED  BY <3>3
  <2>4. Keyed((R \ V) \cup S)
    BY <1>1, <1>3, <2>3 DEF Keyed
  <2> QED  BY <1>4, <2>1, <2>2, <2>4 DEF Table
<1>6. \A v \in RolledUp(R, V) : \E w \in L : SameKey(v, w)
  <2>1. \A s \in S : \E w \in L : SameKey(s, w)
    <3> SUFFICES ASSUME NEW s \in S  PROVE \E w \in L : SameKey(s, w)
      OBVIOUS
    <3>1. PICK u \in V : SameKey(u, s)
      BY <1>3
    <3>2. PICK w \in L : SameKey(u, w)
      BY <1>0
    <3> QED  BY <3>1, <3>2 DEF SameKey
  <2> QED  BY <1>0, <1>4, <2>1
<1>7. Opened(RolledUp(R, V)) = Opened(R)
  BY <1>3, <1>4 DEF Opened, EndedRows
<1>8. \A r, place, day : TellOf(DayRows(RolledUp(R, V), r, place, day))
                           = TellOf(DayRows(L, r, place, day))
  BY <1>0, RollUpTells
<1> QED  BY <1>0, <1>5, <1>6, <1>7, <1>8 DEF Agrees
-----------------------------------------------------------------------------
(***************************************************************************)
(* The statements of the day                                               *)
(***************************************************************************)
\* The rows and the ledger after a step agree, have no key that is new and
\* no summary that is.
Follows(R2, L2, R, L) ==
  /\ Agrees(R2, L2)
  /\ \A v \in L2 : \E w \in L : SameKey(v, w)
  /\ \A v \in R2 : v.summary => v \in R

\* The open rows of a device are the same rows in both.
OpenInBoth(R, L, r) ==
  /\ \A place : OpenRows(R, r, place) = OpenRows(L, r, place)
  /\ OpenStays(R, r) = OpenStays(L, r)
  /\ \A place : OpenRows(R, r, place) \in SUBSET Opened(R)
  /\ OpenStays(R, r) \in SUBSET Opened(R)

\* Tables that agree have the same rows open.
LEMMA SameRowsOpen ==
  ASSUME NEW R, NEW L, NEW r, Agrees(R, L)
  PROVE  OpenInBoth(R, L, r)
<1>1. Opened(R) = Opened(L)
  BY DEF Agrees
<1>2. \A T, place : OpenRows(T, r, place) = OpenRows(Opened(T), r, place)
  BY DEF OpenRows, Opened
<1>3. \A T, place : OpenRows(T, r, place) \in SUBSET Opened(T)
  BY DEF OpenRows, Opened
<1>4. \A place : OpenRows(R, r, place) = OpenRows(L, r, place)
  BY <1>1, <1>2
<1>5. OpenStays(R, r) = OpenStays(L, r) /\ OpenStays(R, r) \in SUBSET Opened(R)
  BY <1>3, <1>4 DEF OpenStays
<1> QED  BY <1>3, <1>4, <1>5 DEF OpenInBoth

\* Rows that end, end in both.
LEMMA CloseKeeps ==
  ASSUME NEW R, NEW L, NEW A, Agrees(R, L), A \in SUBSET Opened(R), tick \in Ticks
  PROVE  Follows(CloseRows(R, A), CloseRows(L, A), R, L)
<1> DEFINE f == [row \in A |-> [row EXCEPT !.end = tick]]
<1>1. A \in SUBSET Row /\ \A w \in A : ~w.summary
  BY DEF Agrees, Table, Opened
<1>2. \A w \in A : [w EXCEPT !.end = tick] \in Row
  BY <1>1 DEF Row
<1>3. f \in [A -> Row] /\ \A w \in A : SameKey(w, f[w]) /\ ~f[w].summary
  BY <1>1, <1>2 DEF SameKey, Row
<1>4. CloseRows(R, A) = Replaced(R, A, f) /\ CloseRows(L, A) = Replaced(L, A, f)
  BY DEF CloseRows, Replaced
<1> HIDE DEF f
<1>5. /\ Agrees(Replaced(R, A, f), Replaced(L, A, f))
      /\ \A v \in Replaced(L, A, f) : \E w \in L : SameKey(v, w)
  BY <1>3, ReplaceKeeps
<1>6. \A v \in Replaced(R, A, f) : v.summary => v \in R
  BY <1>3 DEF Replaced
<1> QED  BY <1>4, <1>5, <1>6 DEF Follows

\* An open session is counted on in both.
LEMMA BumpKeeps ==
  ASSUME NEW R, NEW L, NEW r, Agrees(R, L)
  PROVE  Follows(Bumped(R, r), Bumped(L, r), R, L)
<1> DEFINE A == OpenRows(R, r, NoPlace)
           f == [row \in A |-> [row EXCEPT !.heard = @ + 1]]
<1>0. A = OpenRows(L, r, NoPlace) /\ A \in SUBSET Opened(R)
  BY SameRowsOpen DEF OpenInBoth
<1>1. A \in SUBSET Row /\ \A w \in A : ~w.summary
  BY <1>0 DEF Agrees, Table, Opened
<1>2. \A w \in A : [w EXCEPT !.heard = @ + 1] \in Row
  BY <1>1 DEF Row
<1>3. f \in [A -> Row] /\ \A w \in A : SameKey(w, f[w]) /\ ~f[w].summary
  BY <1>1, <1>2 DEF SameKey, Row
<1>4. Bumped(R, r) = Replaced(R, A, f) /\ Bumped(L, r) = Replaced(L, A, f)
  BY <1>0 DEF Bumped, Replaced
<1> HIDE DEF f, A
<1>5. /\ Agrees(Replaced(R, A, f), Replaced(L, A, f))
      /\ \A v \in Replaced(L, A, f) : \E w \in L : SameKey(v, w)
  BY <1>0, <1>3, ReplaceKeeps
<1>6. \A v \in Replaced(R, A, f) : v.summary => v \in R
  BY <1>3 DEF Replaced
<1> QED  BY <1>4, <1>5, <1>6 DEF Follows

NoneBegun(L, r, place) == \A w \in L : ~(w.resident = r /\ w.place = place /\ w.start = tick)

\* A session or a stay that begins in both.
LEMMA BeginKeeps ==
  ASSUME NEW R, NEW L, NEW r \in Residents, NEW place \in RowPlaces, Agrees(R, L),
         tick \in Ticks, NoneBegun(L, r, place)
  PROVE  /\ Agrees(Insert(R, r, place), Insert(L, r, place))
         /\ \A v \in Insert(R, r, place) : v.summary => v \in R
<1> DEFINE n == [resident |-> r, place |-> place, start |-> tick, end |-> Open,
                 summary |-> FALSE, heard |-> 0]
<1>1. n \in Row /\ n.end = Open /\ ~n.summary
  BY DEF Row
<1>2. \A w \in L : ~SameKey(w, n)
  BY DEF SameKey, NoneBegun
<1>3. Insert(R, r, place) = R \cup {n} /\ Insert(L, r, place) = L \cup {n}
  BY DEF Insert
<1> HIDE DEF n
<1>4. Agrees(R \cup {n}, L \cup {n})
  BY <1>1, <1>2, InsertKeeps
<1> QED  BY <1>1, <1>3, <1>4

\* What a fresh row is not.
LEMMA FreshIsNew ==
  ASSUME NEW r, NEW place \in RowPlaces, Fresh(r, place)
  PROVE  NoneBegun(ledger.rows, r, place)
BY DEF Fresh, NoneBegun

\* A device that moves ends its stay, and begins the next unless that is lost.
LEMMA MoveKeeps ==
  ASSUME NEW R, NEW L, NEW r \in Residents, NEW place \in RowPlaces, NEW second \in BOOLEAN,
         Agrees(R, L), tick \in Ticks, NoneBegun(L, r, place)
  PROVE  /\ Agrees(Moved(R, r, place, second), Moved(L, r, place, second))
         /\ \A v \in Moved(R, r, place, second) : v.summary => v \in R
<1> DEFINE A == OpenStays(R, r)
           R2 == CloseRows(R, A)
           L2 == CloseRows(L, A)
<1>1. A = OpenStays(L, r) /\ A \in SUBSET Opened(R)
  BY SameRowsOpen DEF OpenInBoth
<1>2. Follows(R2, L2, R, L)
  <2> HIDE DEF A
  <2> QED  BY <1>1, CloseKeeps
<1>3. NoneBegun(L2, r, place)
  <2> HIDE DEF L2
  <2> QED  BY <1>2 DEF Follows, NoneBegun, SameKey
<1>4. /\ Moved(R, r, place, second) = IF second THEN Insert(R2, r, place) ELSE R2
      /\ Moved(L, r, place, second) = IF second THEN Insert(L2, r, place) ELSE L2
  BY <1>1 DEF Moved
<1> HIDE DEF R2, L2
<1>5. /\ Agrees(Insert(R2, r, place), Insert(L2, r, place))
      /\ \A v \in Insert(R2, r, place) : v.summary => v \in R2
  BY <1>2, <1>3, BeginKeeps DEF Follows
<1> QED  BY <1>2, <1>4, <1>5 DEF Follows

\* A departure ends the session, and the stay unless that is lost.
LEMMA DepartKeeps ==
  ASSUME NEW R, NEW L, NEW r, NEW stayToo \in BOOLEAN, Agrees(R, L), tick \in Ticks
  PROVE  Follows(Departed(R, r, stayToo), Departed(L, r, stayToo), R, L)
<1> DEFINE A == OpenRows(R, r, NoPlace) \cup IF stayToo THEN OpenStays(R, r) ELSE {}
<1>1. A \in SUBSET Opened(R)
  BY SameRowsOpen DEF OpenInBoth
<1>2. /\ OpenRows(R, r, NoPlace) = OpenRows(L, r, NoPlace)
      /\ OpenStays(R, r) = OpenStays(L, r)
  BY SameRowsOpen DEF OpenInBoth
<1>3. Departed(R, r, stayToo) = CloseRows(R, A) /\ Departed(L, r, stayToo) = CloseRows(L, A)
  BY <1>2 DEF Departed
<1> HIDE DEF A
<1> QED  BY <1>1, <1>3, CloseKeeps
-----------------------------------------------------------------------------
(***************************************************************************)
(* The clock                                                               *)
(***************************************************************************)
\* A later tick is of no earlier day.
LEMMA LaterDay ==
  ASSUME NEW a \in Nat, NEW b \in Nat, NEW d \in Nat \ {0}, a <= b
  PROVE  a \div d \in Nat /\ b \div d \in Nat /\ a \div d <= b \div d
OBVIOUS

\* The cutoff of a day is not before the cutoff of an earlier one.
LEMMA LaterCutoff ==
  ASSUME NEW p \in Nat, NEW q \in Nat, NEW days \in Nat, NEW d \in Nat, p <= q
  PROVE  (p - days) * d \in Int /\ (q - days) * d \in Int /\ (p - days) * d <= (q - days) * d
OBVIOUS

\* The cutoffs move with the clock, and never back.
LEMMA CutoffsGrow ==
  ASSUME tick \in Nat, tick' \in Nat, tick <= tick'
  PROVE  /\ Cutoff(RollupAfter) \in Int /\ Cutoff(RollupAfter)' \in Int
         /\ Cutoff(RetainEvents) \in Int /\ Cutoff(RetainEvents)' \in Int
         /\ Cutoff(RollupAfter) <= Cutoff(RollupAfter)'
         /\ Cutoff(RetainEvents) <= Cutoff(RetainEvents)'
<1> DEFINE p == tick \div TicksPerDay
           q == tick' \div TicksPerDay
<1>1. p \in Nat /\ q \in Nat /\ p <= q
  BY LaterDay, MaintenanceAssumption
<1>2. /\ Cutoff(RollupAfter) = (p - RollupAfter) * TicksPerDay
      /\ Cutoff(RollupAfter)' = (q - RollupAfter) * TicksPerDay
      /\ Cutoff(RetainEvents) = (p - RetainEvents) * TicksPerDay
      /\ Cutoff(RetainEvents)' = (q - RetainEvents) * TicksPerDay
  BY DEF Cutoff, DayOf
<1>3. RollupAfter \in Nat /\ RetainEvents \in Nat /\ TicksPerDay \in Nat
  BY MaintenanceAssumption
<1> HIDE DEF p, q
<1> QED  BY <1>1, <1>2, <1>3, LaterCutoff

-----------------------------------------------------------------------------
(***************************************************************************)
(* The nights                                                              *)
(***************************************************************************)
NightTypes ==
  /\ tick \in Ticks
  /\ ledger \in [rows : SUBSET Row, events : SUBSET Ticks]
  /\ events \subseteq ledger.events
  /\ spans \subseteq [resident : Residents, first : Ticks, last : Ticks]
  /\ \A s, t \in spans : s.resident = t.resident => s = t
  /\ offline \subseteq Residents
  /\ job \in Jobs \cup {"idle"}
  /\ before \in [rollup : Int, events : Int]
  /\ lastNight \in Ticks \cup {Never}
  /\ lastNight # Never => lastNight <= tick
  /\ mishaps \in 0..MaxMishaps

\* The cutoffs of a night are no later than those of now, and nothing later
\* than these is a summary or a pruned event.
CutoffsHeld ==
  /\ job # "idle" => /\ before.rollup <= Cutoff(RollupAfter)
                     /\ before.events <= Cutoff(RetainEvents)
  /\ \A row \in rows : row.summary => row.start < Cutoff(RollupAfter)
  /\ \A e \in ledger.events \ events : e < Cutoff(RetainEvents)

NightInv == NightTypes /\ CutoffsHeld /\ Agrees(rows, ledger.rows)

\* Nothing is recorded yet.
LEMMA NightInvInit ==
  ASSUME MaintenanceInit
  PROVE  NightInv
<1>1. NightTypes
  BY MaintenanceAssumption DEF MaintenanceInit, NightTypes, Ticks
<1>2. CutoffsHeld
  BY DEF MaintenanceInit, CutoffsHeld
<1>3. Agrees({}, {})
  BY FS_EmptySet DEF Agrees, Table, Keyed, Opened, DayRows
<1> QED  BY <1>1, <1>2, <1>3 DEF NightInv, MaintenanceInit

\* The clock goes on, or stands.
LEMMA CutoffsStay ==
  ASSUME NightInv, tick' \in Ticks, tick <= tick', job' = "idle" \/ UNCHANGED <<job, before>>,
         \A row \in rows' : row.summary => row \in rows,
         \A e \in ledger'.events \ events' : e \in ledger.events \ events
  PROVE  CutoffsHeld'
<1>1. tick \in Nat /\ tick' \in Nat
  BY MaintenanceAssumption DEF NightInv, NightTypes, Ticks
<1>2. /\ Cutoff(RollupAfter) \in Int /\ Cutoff(RollupAfter)' \in Int
      /\ Cutoff(RetainEvents) \in Int /\ Cutoff(RetainEvents)' \in Int
      /\ Cutoff(RollupAfter) <= Cutoff(RollupAfter)'
      /\ Cutoff(RetainEvents) <= Cutoff(RetainEvents)'
  BY <1>1, CutoffsGrow
<1>3. /\ before.rollup \in Int /\ before.events \in Int /\ ledger.events \in SUBSET Int
      /\ \A row \in rows : row.start \in Int
  BY MaintenanceAssumption DEF NightInv, NightTypes, Agrees, Table, Row, Ticks
<1>4. job' # "idle" => /\ before'.rollup <= Cutoff(RollupAfter)'
                       /\ before'.events <= Cutoff(RetainEvents)'
  <2>1. before.rollup <= Cutoff(RollupAfter) => before.rollup <= Cutoff(RollupAfter)'
    BY <1>2, <1>3
  <2>2. before.events <= Cutoff(RetainEvents) => before.events <= Cutoff(RetainEvents)'
    BY <1>2, <1>3
  <2> QED  BY <2>1, <2>2 DEF NightInv, CutoffsHeld
<1>5. ASSUME NEW row \in rows', row.summary  PROVE row.start < Cutoff(RollupAfter)'
  <2>1. row \in rows /\ row.start < Cutoff(RollupAfter)
    BY <1>5 DEF NightInv, CutoffsHeld
  <2> QED  BY <1>2, <1>3, <2>1
<1>6. ASSUME NEW e \in ledger'.events \ events'  PROVE e < Cutoff(RetainEvents)'
  <2>1. e \in ledger.events /\ e < Cutoff(RetainEvents)
    BY DEF NightInv, CutoffsHeld
  <2> QED  BY <1>2, <1>3, <2>1
<1> QED  BY <1>4, <1>5, <1>6 DEF CutoffsHeld

\* What the loop writes by day, it writes to both.
LEMMA NightDaytime ==
  ASSUME NightInv, Daytime
  PROVE  NightInv'
<1>0. /\ tick \in Ticks /\ tick' = tick /\ job' = job /\ before' = before
      /\ lastNight' = lastNight /\ job = "idle"
      /\ Agrees(rows, ledger.rows) /\ mishaps \in 0..MaxMishaps /\ MaxMishaps \in Nat
      /\ ledger.rows \in SUBSET Row /\ ledger.events \in SUBSET Ticks
      /\ events \subseteq ledger.events /\ tick <= tick'
  BY MaintenanceAssumption DEF NightInv, NightTypes, Daytime, night, Ticks
<1>1. PICK r \in Residents :
        \/ OpenPresence(r) /\ UNCHANGED mishaps
        \/ BumpPresence(r) /\ UNCHANGED mishaps
        \/ ClosePresence(r)
        \/ \E place \in Locations : ChangeLocation(r, place)
  BY DEF Daytime
<1> DEFINE Kept == /\ Agrees(rows', ledger'.rows)
                   /\ \A v \in rows' : v.summary => v \in rows
                   /\ events' \subseteq ledger'.events /\ ledger'.events \in SUBSET Ticks
                   /\ \A e \in ledger'.events \ events' : e \in ledger.events \ events
                   /\ ledger' = [rows |-> ledger'.rows, events |-> ledger'.events]
                   /\ mishaps' \in 0..MaxMishaps
                   /\ offline' \subseteq Residents
                   /\ spans' \subseteq [resident : Residents, first : Ticks, last : Ticks]
                   /\ \A s, t \in spans' : s.resident = t.resident => s = t
<1>2. ASSUME OpenPresence(r) /\ UNCHANGED mishaps  PROVE Kept
  <2>1. NoneBegun(ledger.rows, r, NoPlace) /\ NoPlace \in RowPlaces
    <3>1. NoPlace \in RowPlaces
      BY DEF RowPlaces
    <3> QED  BY <1>2, <3>1, FreshIsNew DEF OpenPresence
  <2>2. /\ Agrees(Insert(rows, r, NoPlace), Insert(ledger.rows, r, NoPlace))
        /\ \A v \in Insert(rows, r, NoPlace) : v.summary => v \in rows
    BY <1>0, <2>1, BeginKeeps
  <2>3. /\ rows' = Insert(rows, r, NoPlace)
        /\ ledger' = [rows |-> Insert(ledger.rows, r, NoPlace),
                      events |-> ledger.events \cup {tick}]
        /\ events' = events \cup {tick}
        /\ offline' = offline \ {r}
    BY <1>2 DEF OpenPresence
  <2>4. ledger'.rows = Insert(ledger.rows, r, NoPlace)
        /\ ledger'.events = ledger.events \cup {tick}
    BY <2>3
  <2>5. /\ spans' \subseteq [resident : Residents, first : Ticks, last : Ticks]
        /\ \A s, t \in spans' : s.resident = t.resident => s = t
    <3>1. CASE \E s \in spans : s.resident = r
      <4>1. spans' = {IF s.resident = r THEN [s EXCEPT !.last = tick] ELSE s : s \in spans}
        BY <1>2, <3>1 DEF OpenPresence
      <4> QED  BY <1>0, <4>1 DEF NightInv, NightTypes
    <3>2. CASE ~(\E s \in spans : s.resident = r)
      <4>1. spans' = spans \cup {[resident |-> r, first |-> tick, last |-> tick]}
        BY <1>2, <3>2 DEF OpenPresence
      <4> QED  BY <1>0, <3>2, <4>1 DEF NightInv, NightTypes
    <3> QED  BY <3>1, <3>2
  <2>6. Agrees(rows', ledger'.rows) /\ \A v \in rows' : v.summary => v \in rows
    BY <2>2, <2>3, <2>4
  <2>7. /\ events' \subseteq ledger'.events /\ ledger'.events \in SUBSET Ticks
        /\ \A e \in ledger'.events \ events' : e \in ledger.events \ events
    BY <1>0, <2>3, <2>4
  <2>8. ledger' = [rows |-> ledger'.rows, events |-> ledger'.events]
    BY <2>3, <2>4
  <2>9. mishaps' \in 0..MaxMishaps /\ offline' \subseteq Residents
    BY <1>0, <1>2, <2>3 DEF NightInv, NightTypes
  <2> QED  BY <2>5, <2>6, <2>7, <2>8, <2>9
<1>3. ASSUME BumpPresence(r) /\ UNCHANGED mishaps  PROVE Kept
  <2>1. Follows(Bumped(rows, r), Bumped(ledger.rows, r), rows, ledger.rows)
    BY <1>0, BumpKeeps
  <2>2. /\ rows' = Bumped(rows, r) /\ UNCHANGED <<events, spans, offline, mishaps>>
        /\ ledger' = [ledger EXCEPT !.rows = Bumped(ledger.rows, r)]
    BY <1>3 DEF BumpPresence
  <2>3. ledger'.rows = Bumped(ledger.rows, r) /\ ledger'.events = ledger.events
        /\ ledger' = [rows |-> ledger'.rows, events |-> ledger'.events]
    BY <2>2 DEF NightInv, NightTypes
  <2>4. Agrees(rows', ledger'.rows) /\ \A v \in rows' : v.summary => v \in rows
    BY <2>1, <2>2, <2>3 DEF Follows
  <2> QED  BY <1>0, <2>2, <2>3, <2>4 DEF NightInv, NightTypes
<1>4. ASSUME ClosePresence(r)  PROVE Kept
  <2>1. PICK stayToo \in BOOLEAN :
          /\ stayToo \/ (OpenStays(rows, r) # {} /\ mishaps < MaxMishaps)
          /\ mishaps' = IF stayToo THEN mishaps ELSE mishaps + 1
          /\ rows' = Departed(rows, r, stayToo)
          /\ ledger' = [rows |-> Departed(ledger.rows, r, stayToo),
                        events |-> ledger.events \cup {tick}]
    BY <1>4 DEF ClosePresence
  <2>2. Follows(Departed(rows, r, stayToo), Departed(ledger.rows, r, stayToo),
                rows, ledger.rows)
    BY <1>0, DepartKeeps
  <2>3. ledger'.rows = Departed(ledger.rows, r, stayToo)
        /\ ledger'.events = ledger.events \cup {tick}
    BY <2>1
  <2>4. Agrees(rows', ledger'.rows) /\ \A v \in rows' : v.summary => v \in rows
    BY <2>1, <2>2, <2>3 DEF Follows
  <2>5. mishaps' \in 0..MaxMishaps
    BY <1>0, <2>1
  <2>6. events' = events \cup {tick} /\ offline' = offline \cup {r} /\ spans' = spans
    BY <1>4 DEF ClosePresence
  <2>7. /\ events' \subseteq ledger'.events /\ ledger'.events \in SUBSET Ticks
        /\ \A e \in ledger'.events \ events' : e \in ledger.events \ events
    BY <1>0, <2>3, <2>6
  <2>8. ledger' = [rows |-> ledger'.rows, events |-> ledger'.events]
    BY <2>1, <2>3
  <2> QED  BY <2>4, <2>5, <2>6, <2>7, <2>8 DEF NightInv, NightTypes
<1>5. ASSUME \E place \in Locations : ChangeLocation(r, place)  PROVE Kept
  <2>0. PICK place \in Locations : ChangeLocation(r, place)
    BY <1>5
  <2>1. PICK second \in BOOLEAN :
          /\ second \/ mishaps < MaxMishaps
          /\ mishaps' = IF second THEN mishaps ELSE mishaps + 1
          /\ rows' = Moved(rows, r, place, second)
          /\ ledger' = [ledger EXCEPT !.rows = Moved(ledger.rows, r, place, second)]
    BY <2>0 DEF ChangeLocation
  <2>2. place \in RowPlaces /\ NoneBegun(ledger.rows, r, place)
    <3>1. place \in RowPlaces
      BY DEF RowPlaces
    <3> QED  BY <2>0, <3>1, FreshIsNew DEF ChangeLocation
  <2>3. /\ Agrees(Moved(rows, r, place, second), Moved(ledger.rows, r, place, second))
        /\ \A v \in Moved(rows, r, place, second) : v.summary => v \in rows
    BY <1>0, <2>2, MoveKeeps
  <2>4. ledger'.rows = Moved(ledger.rows, r, place, second) /\ ledger'.events = ledger.events
        /\ ledger' = [rows |-> ledger'.rows, events |-> ledger'.events]
    BY <2>1 DEF NightInv, NightTypes
  <2>5. Agrees(rows', ledger'.rows) /\ \A v \in rows' : v.summary => v \in rows
    BY <2>1, <2>3, <2>4
  <2>6. mishaps' \in 0..MaxMishaps
    BY <1>0, <2>1
  <2>7. UNCHANGED <<events, spans, offline>>
    BY <2>0 DEF ChangeLocation
  <2> QED  BY <1>0, <2>4, <2>5, <2>6, <2>7 DEF NightInv, NightTypes
<1>6. Kept
  BY <1>1, <1>2, <1>3, <1>4, <1>5
<1>7. CutoffsHeld'
  BY <1>0, <1>6, CutoffsStay
<1>8. ledger' \in [rows : SUBSET Row, events : SUBSET Ticks]
  <2>1. ledger'.rows \in SUBSET Row
    BY <1>6 DEF Agrees, Table
  <2> QED  BY <1>6, <2>1
<1>9. NightTypes'
  BY <1>0, <1>6, <1>8 DEF NightInv, NightTypes
<1> QED  BY <1>6, <1>7, <1>9 DEF NightInv
\* A rollup replaces rows that ended and began before the cutoff.
LEMMA NightRollUp ==
  ASSUME NightInv, NEW places, RollUp(places), job # "idle", job' \in Jobs,
         UNCHANGED <<tick, ledger, events, spans, offline, before, lastNight, mishaps>>
  PROVE  NightInv'
<1> DEFINE V == Victims(places)
<1>1. V \in SUBSET rows /\ \A v \in V : v.end # Open /\ v.start < before.rollup
  BY DEF Victims
<1>2. rows \in SUBSET Row /\ Agrees(rows, ledger.rows) /\ Table(rows) /\ IsFiniteSet(rows)
  BY DEF NightInv, Agrees, Table
<1>3. V \in SUBSET EndedRows
  BY <1>1, <1>2 DEF EndedRows
<1>4. rows' = RolledUp(rows, V)
  BY SummariesOfGroups DEF RollUp, RolledUp
<1> HIDE DEF V
<1>5. Agrees(RolledUp(rows, V), ledger.rows)
  BY <1>1, <1>2, <1>3, RollUpKeeps
<1>6. Agrees(rows', ledger'.rows)
  BY <1>4, <1>5
<1>7. ASSUME NEW s \in rows', s.summary  PROVE s.start < Cutoff(RollupAfter)
  <2>1. CASE s \in rows
    BY <1>7, <2>1 DEF NightInv, CutoffsHeld
  <2>2. CASE s \in Summaries(V)
    <3>1. IsFiniteSet(V) /\ Keyed(V)
      BY <1>1, <1>2, FS_Subset DEF Table, Keyed
    <3>2. SummariesWell(V)
      BY <1>3, <3>1, SummariesKeyed
    <3>3. PICK u \in V : SameKey(u, s)
      BY <2>2, <3>2 DEF SummariesWell, GroupOf
    <3>4. s.start = u.start /\ u.start < before.rollup /\ u.start \in Nat
      BY <1>1, <1>2, <3>3, MaintenanceAssumption DEF SameKey, Row, Ticks
    <3>5. before.rollup <= Cutoff(RollupAfter) /\ before.rollup \in Int
      BY DEF NightInv, CutoffsHeld, NightTypes
    <3>6. Cutoff(RollupAfter) \in Int
      <4>1. tick \in Nat /\ tick' \in Nat /\ tick <= tick'
        BY MaintenanceAssumption DEF NightInv, NightTypes, Ticks
      <4> QED  BY <4>1, CutoffsGrow
    <3> HIDE DEF Cutoff
    <3> QED  BY <3>4, <3>5, <3>6
  <2> QED  BY <1>4, <2>1, <2>2 DEF RolledUp
<1>8. Cutoff(RollupAfter)' = Cutoff(RollupAfter) /\ Cutoff(RetainEvents)' = Cutoff(RetainEvents)
  BY DEF Cutoff, DayOf
<1>9. CutoffsHeld'
  BY <1>7, <1>8 DEF NightInv, CutoffsHeld
<1>10. NightTypes'
  BY DEF NightInv, NightTypes
<1> QED  BY <1>6, <1>9, <1>10 DEF NightInv

\* A pruned event was recorded before the cutoff.
LEMMA NightPrune ==
  ASSUME NightInv, PruneEvents,
         UNCHANGED <<tick, ledger, offline, before, lastNight, mishaps>>
  PROVE  NightInv'
<1>1. /\ job # "idle" /\ job' = "addresses" /\ rows' = rows /\ spans' = spans
      /\ events' = {e \in events : e >= before.events}
  BY DEF PruneEvents
<1>2. Cutoff(RollupAfter)' = Cutoff(RollupAfter) /\ Cutoff(RetainEvents)' = Cutoff(RetainEvents)
  BY DEF Cutoff, DayOf
<1>3. Cutoff(RetainEvents) \in Int
  <2>1. tick \in Nat /\ tick' \in Nat /\ tick <= tick'
    BY MaintenanceAssumption DEF NightInv, NightTypes, Ticks
  <2> QED  BY <2>1, CutoffsGrow
<1>4. ASSUME NEW e \in ledger.events \ events'  PROVE e < Cutoff(RetainEvents)
  <2>1. e \in Nat /\ before.events \in Int
    BY MaintenanceAssumption DEF NightInv, NightTypes, Ticks
  <2>2. before.events <= Cutoff(RetainEvents)
    BY <1>1 DEF NightInv, CutoffsHeld
  <2>3. CASE e \in events
    <3>1. e < before.events
      BY <1>1, <2>1, <2>3
    <3> HIDE DEF Cutoff
    <3> QED  BY <1>3, <2>1, <2>2, <3>1
  <2>4. CASE e \notin events
    BY <2>4 DEF NightInv, CutoffsHeld
  <2> QED  BY <2>3, <2>4
<1>5. CutoffsHeld'
  BY <1>1, <1>2, <1>4 DEF NightInv, CutoffsHeld
<1>6. NightTypes'
  BY <1>1 DEF NightInv, NightTypes, Jobs
<1> QED  BY <1>1, <1>5, <1>6 DEF NightInv

\* There is one range of a device, which the merge leaves as it is.
LEMMA NightMerge ==
  ASSUME NightInv, MergeIpHistory,
         UNCHANGED <<tick, ledger, offline, before, lastNight, mishaps>>
  PROVE  NightInv'
<1> DEFINE Same(r) == {s \in spans : s.resident = r}
           Widest(r) == [resident |-> r, first |-> Min({s.first : s \in Same(r)}),
                         last |-> Max({s.last : s \in Same(r)})]
<1>1. /\ job # "idle" /\ job' \in Jobs \cup {"idle"} /\ rows' = rows /\ events' = events
      /\ spans' = {Widest(r) : r \in {s.resident : s \in spans}}
  BY DEF MergeIpHistory, Jobs
<1>2. spans \subseteq [resident : Residents, first : Ticks, last : Ticks]
  BY DEF NightInv, NightTypes
<1>3. ASSUME NEW r \in {s.resident : s \in spans}
      PROVE  Widest(r) \in [resident : Residents, first : Ticks, last : Ticks]
  <2> DEFINE A == {s.first : s \in Same(r)}
             B == {s.last : s \in Same(r)}
  <2>1. /\ A \in SUBSET Ticks /\ A # {} /\ B \in SUBSET Ticks /\ B # {} /\ r \in Residents
    BY <1>2
  <2> HIDE DEF A, B
  <2>2. Min(A) \in Ticks /\ Max(B) \in Ticks
    BY <2>1, LeastOf, GreatestOf
  <2>3. [resident |-> r, first |-> Min(A), last |-> Max(B)]
          \in [resident : Residents, first : Ticks, last : Ticks]
    BY <2>1, <2>2
  <2> QED  BY <2>3 DEF A, B
<1>4. \A r : Widest(r).resident = r
  OBVIOUS
<1> HIDE DEF Widest
<1>5. /\ spans' \subseteq [resident : Residents, first : Ticks, last : Ticks]
      /\ \A s, t \in spans' : s.resident = t.resident => s = t
  BY <1>1, <1>3, <1>4
<1>6. NightTypes'
  BY <1>1, <1>5 DEF NightInv, NightTypes
<1>7. CutoffsHeld'
  <2>1. Cutoff(RollupAfter)' = Cutoff(RollupAfter) /\ Cutoff(RetainEvents)' = Cutoff(RetainEvents)
    BY DEF Cutoff, DayOf
  <2> QED  BY <1>1, <2>1 DEF NightInv, CutoffsHeld
<1> QED  BY <1>1, <1>6, <1>7 DEF NightInv

\* No statement of a night loses anything.
LEMMA NightStatement ==
  ASSUME NightInv, Statement
  PROVE  NightInv'
<1>0. UNCHANGED <<tick, ledger, offline, before, lastNight, mishaps>>
  BY DEF Statement
<1>1. CASE RollUpPresence
  <2>1. RollUp({NoPlace}) /\ job # "idle" /\ job' \in Jobs /\ UNCHANGED <<events, spans>>
    BY <1>1 DEF RollUpPresence, Jobs
  <2> QED  BY <1>0, <2>1, NightRollUp
<1>2. CASE RollUpLocationHistory
  <2>1. RollUp(Locations) /\ job # "idle" /\ job' \in Jobs /\ UNCHANGED <<events, spans>>
    BY <1>2 DEF RollUpLocationHistory, Jobs
  <2> QED  BY <1>0, <2>1, NightRollUp
<1>3. CASE PruneEvents
  BY <1>0, <1>3, NightPrune
<1>4. CASE MergeIpHistory
  BY <1>0, <1>4, NightMerge
<1>5. CASE Vacuum
  <2>1. job' = "idle" /\ rows' = rows /\ events' = events /\ spans' = spans
    BY <1>5 DEF Vacuum
  <2>2. tick <= tick' /\ tick' \in Ticks
    BY <1>0, MaintenanceAssumption DEF NightInv, NightTypes, Ticks
  <2>3. CutoffsHeld'
    BY <1>0, <2>1, <2>2, CutoffsStay
  <2>4. NightTypes'
    BY <1>0, <2>1 DEF NightInv, NightTypes
  <2> QED  BY <1>0, <2>1, <2>3, <2>4 DEF NightInv
<1> QED  BY <1>1, <1>2, <1>3, <1>4, <1>5 DEF Statement

\* The stays that devices which are offline have left open end in both.
LEMMA NightCrash ==
  ASSUME NightInv, CrashAndRestart
  PROVE  NightInv'
<1> DEFINE A == UNION {OpenStays(rows, r) : r \in offline}
           B == UNION {OpenStays(ledger.rows, r) : r \in offline}
<1>0. tick \in Ticks /\ Agrees(rows, ledger.rows)
  BY DEF NightInv, NightTypes
<1>1. A = B /\ A \in SUBSET Opened(rows)
  <2>1. \A r : OpenInBoth(rows, ledger.rows, r)
    BY <1>0, SameRowsOpen
  <2> QED  BY <2>1 DEF OpenInBoth
<1>2. /\ rows' = CloseRows(rows, A)
      /\ ledger' = [ledger EXCEPT !.rows = CloseRows(ledger.rows, B)]
      /\ job' = "idle" /\ lastNight' = Never /\ mishaps < MaxMishaps /\ mishaps' = mishaps + 1
      /\ UNCHANGED <<tick, events, spans, offline, before, moved>>
  BY DEF CrashAndRestart
<1> HIDE DEF A, B
<1>3. Follows(CloseRows(rows, A), CloseRows(ledger.rows, A), rows, ledger.rows)
  BY <1>0, <1>1, CloseKeeps
<1>4. ledger'.rows = CloseRows(ledger.rows, A) /\ ledger'.events = ledger.events
      /\ ledger' = [rows |-> ledger'.rows, events |-> ledger'.events]
  BY <1>1, <1>2 DEF NightInv, NightTypes
<1>5. Agrees(rows', ledger'.rows) /\ \A v \in rows' : v.summary => v \in rows
  BY <1>2, <1>3, <1>4 DEF Follows
<1>6. tick <= tick' /\ tick' \in Ticks
  BY <1>2, MaintenanceAssumption DEF NightInv, NightTypes, Ticks
<1>7. CutoffsHeld'
  BY <1>2, <1>4, <1>5, <1>6, CutoffsStay
<1>8. ledger' \in [rows : SUBSET Row, events : SUBSET Ticks]
  <2>1. ledger'.rows \in SUBSET Row
    BY <1>5 DEF Agrees, Table
  <2> QED  BY <1>4, <2>1 DEF NightInv, NightTypes
<1>9. NightTypes'
  BY <1>2, <1>4, <1>8, MaintenanceAssumption DEF NightInv, NightTypes
<1> QED  BY <1>5, <1>7, <1>9 DEF NightInv

\* A night begins with the cutoffs of now.
LEMMA NightBegin ==
  ASSUME NightInv, Begin
  PROVE  NightInv'
<1>0. /\ lastNight' = tick /\ job' = "presence" /\ UNCHANGED <<tick, history, mishaps>>
      /\ before' = [rollup |-> Cutoff(RollupAfter), events |-> Cutoff(RetainEvents)]
  BY DEF Begin
<1>1. tick \in Nat /\ tick' = tick
  BY <1>0, MaintenanceAssumption DEF NightInv, NightTypes, Ticks
<1>2. /\ Cutoff(RollupAfter) \in Int /\ Cutoff(RollupAfter)' = Cutoff(RollupAfter)
      /\ Cutoff(RetainEvents) \in Int /\ Cutoff(RetainEvents)' = Cutoff(RetainEvents)
  <2>1. tick <= tick' /\ tick' \in Nat
    BY <1>1
  <2> QED  BY <1>1, <2>1, CutoffsGrow DEF Cutoff, DayOf
<1>3. CutoffsHeld'
  <2> HIDE DEF Cutoff
  <2>1. Cutoff(RollupAfter) <= Cutoff(RollupAfter) /\ Cutoff(RetainEvents) <= Cutoff(RetainEvents)
    BY <1>2
  <2>2. rows' = rows /\ ledger' = ledger /\ events' = events
    BY <1>0 DEF history
  <2> QED  BY <1>0, <1>2, <2>1, <2>2 DEF NightInv, CutoffsHeld
<1>4. NightTypes'
  <2> HIDE DEF Cutoff
  <2> QED  BY <1>0, <1>1, <1>2 DEF NightInv, NightTypes, history, Jobs
<1> QED  BY <1>0, <1>3, <1>4 DEF NightInv, history

\* The invariant is inductive.
LEMMA NightStep ==
  ASSUME NightInv, [MaintenanceNext]_maintenanceVars
  PROVE  NightInv'
<1>0. tick \in Nat /\ MaxTick \in Nat /\ tick \in Ticks /\ MaxMishaps \in Nat
  BY MaintenanceAssumption DEF NightInv, NightTypes, Ticks
<1>1. CASE Begin
  BY <1>1, NightBegin
<1>2. CASE Statement
  BY <1>2, NightStatement
<1>3. CASE StatementFails
  <2>1. /\ UNCHANGED <<tick, rows, events, spans, ledger, offline, before, lastNight>>
        /\ job' = "idle" /\ mishaps < MaxMishaps /\ mishaps' = mishaps + 1
    BY <1>3 DEF StatementFails, history
  <2>2. CutoffsHeld'
    BY <1>0, <2>1, CutoffsStay
  <2>3. NightTypes'
    BY <1>0, <2>1 DEF NightInv, NightTypes
  <2> QED  BY <2>1, <2>2, <2>3 DEF NightInv
<1>4. CASE CrashAndRestart
  BY <1>4, NightCrash
<1>5. CASE NextTick
  <2>1. /\ tick < MaxTick /\ tick' = tick + 1
        /\ UNCHANGED <<rows, events, spans, ledger, offline, job, before, lastNight, mishaps>>
    BY <1>5 DEF NextTick, history, night
  <2>2. tick' \in Ticks /\ tick <= tick'
    BY <1>0, <2>1 DEF Ticks
  <2>3. CutoffsHeld'
    BY <2>1, <2>2, CutoffsStay
  <2>4. lastNight # Never => lastNight <= tick'
    BY <1>0, <2>1 DEF NightInv, NightTypes, Ticks
  <2>5. NightTypes'
    BY <2>1, <2>2, <2>4 DEF NightInv, NightTypes
  <2> QED  BY <2>1, <2>3, <2>5 DEF NightInv
<1>6. CASE Daytime
  BY <1>6, NightDaytime
<1>7. CASE UNCHANGED maintenanceVars
  <2>1. UNCHANGED <<tick, rows, events, spans, ledger, offline, job, before, lastNight, mishaps>>
    BY <1>7 DEF maintenanceVars, history, night
  <2>2. CutoffsHeld'
    BY <1>0, <2>1, CutoffsStay
  <2>3. NightTypes'
    BY <2>1 DEF NightInv, NightTypes
  <2> QED  BY <2>1, <2>2, <2>3 DEF NightInv
<1> QED  BY <1>1, <1>2, <1>3, <1>4, <1>5, <1>6, <1>7 DEF MaintenanceNext
\* Nothing is lost in a state of the invariant.
LEMMA NightsKeepTold ==
  ASSUME NightInv
  PROVE  NightsLoseNothing
<1>1. \A T, r, place, day : DayAsTold(T, r, place, day) = TellOf(DayRows(T, r, place, day))
  BY DEF DayAsTold, TellOf, DayRows, Summary, Starts, Ends
<1>2. \A r, place, day : DayAsTold(rows, r, place, day) = DayAsTold(ledger.rows, r, place, day)
  BY <1>1 DEF NightInv, Agrees
<1>3. {row \in rows : row.end = Open} = {row \in ledger.rows : row.end = Open}
  BY DEF NightInv, Agrees, Opened
<1> QED  BY <1>2, <1>3 DEF NightInv, CutoffsHeld, NightsLoseNothing

\* A night that begins begins on a later day than the one before it.
LEMMA NightOnce ==
  ASSUME NightInv, [MaintenanceNext]_maintenanceVars, job = "idle", job' = "presence"
  PROVE  lastNight = Never \/ LocalDay(lastNight) < LocalDay(tick)
<1>1. Begin
  BY DEF MaintenanceNext, Statement, StatementFails, CrashAndRestart, NextTick, Daytime, night,
         maintenanceVars, RollUpPresence, RollUpLocationHistory, PruneEvents, MergeIpHistory,
         Vacuum
<1>2. SUFFICES ASSUME lastNight # Never  PROVE LocalDay(lastNight) < LocalDay(tick)
  OBVIOUS
<1>3. /\ lastNight \in Nat /\ tick \in Nat /\ lastNight <= tick
      /\ LocalDay(lastNight) # LocalDay(tick)
  BY <1>1, <1>2, MaintenanceAssumption DEF NightInv, NightTypes, Ticks, Begin, IsDue
<1> DEFINE a == lastNight + LocalOffset
           b == tick + LocalOffset
<1>4. a \in Nat /\ b \in Nat /\ a <= b /\ TicksPerDay \in Nat \ {0}
  BY <1>3, MaintenanceAssumption
<1>5. LocalDay(lastNight) = a \div TicksPerDay /\ LocalDay(tick) = b \div TicksPerDay
  BY DEF LocalDay
<1> HIDE DEF a, b
<1>6. /\ a \div TicksPerDay \in Nat /\ b \div TicksPerDay \in Nat
      /\ a \div TicksPerDay <= b \div TicksPerDay
  BY <1>4, LaterDay
<1> QED  BY <1>3, <1>5, <1>6

\* The nightly jobs keep their types, and one range of addresses a device.
THEOREM MaintenanceTypes == MaintenanceSpec => []MaintenanceTypeOK
<1>1. NightInv => MaintenanceTypeOK
  BY DEF NightInv, NightTypes, Agrees, Table, MaintenanceTypeOK
<1> QED  BY <1>1, NightInvInit, NightStep, PTL DEF MaintenanceSpec

\* NightsAreSafe: through every order of sessions, moves, nights, failed
\* statements and crashes the history tells of every day what it would had no
\* night run (NightsLoseNothing), and no night is run twice on a local day.
THEOREM NightsSafe == MaintenanceSpec => NightsAreSafe
<1>1. NightInv => NightsLoseNothing
  BY NightsKeepTold
<1>2. NightInv /\ [MaintenanceNext]_maintenanceVars
        => [ job = "idle" /\ job' = "presence"
               => lastNight = Never \/ LocalDay(lastNight) < LocalDay(tick) ]_maintenanceVars
  BY NightOnce
<1> QED  BY <1>1, <1>2, NightInvInit, NightStep, PTL
         DEF MaintenanceSpec, NightsAreSafe, OneNightADay
-----------------------------------------------------------------------------
(***************************************************************************)
(* The types of the modules together                                       *)
(***************************************************************************)
\* What the tracker is told of a frame keeps it a tracker.
LEMMA GatewayTyped ==
  ASSUME GatewayType, NEW f \in Frames, Learn(f)
  PROVE  GatewayType'
<1> DEFINE T == [ip : IPs \union {None}, ipSource : Sources,
                 mac : MACs \union {None}, macSource : Sources,
                 askers : [IPs -> SUBSET MACs], proxied : SUBSET IPs]
<1>1. /\ f.src \in MACs /\ f.ip \in IPs \union {None} /\ f.router \in IPs \union {None}
      /\ f.kind = "request" => f.target \in IPs
  BY DEF Frames
<1>2. {Unknown, Inferred, Dhcp, Configured} \subseteq Sources
  BY DEF Sources, Unknown, Inferred, Dhcp, Configured
<1>3. ASSUME NEW g \in T, NEW a \in IPs, NEW source \in Sources
      PROVE  SetIp(g, a, source) \in T
  <2>1. NoAskers \in [IPs -> SUBSET MACs]
    BY DEF NoAskers
  <2> QED  BY <1>2, <1>3, <2>1 DEF SetIp
<1>4. ASSUME NEW g \in T  PROVE Leased(g, f) \in T
  BY <1>1, <1>2, <1>3, <1>4 DEF Leased
<1>5. ASSUME NEW g \in T  PROVE Asked(g, f) \in T
  <2> HIDE DEF T
  <2>1. ASSUME NEW a \in IPs  PROVE RecordAsker(g, a, f.src) \in T
    <3> DEFINE wanted == [g EXCEPT !.askers = Counted(g, a, f.src)]
    <3>1. wanted \in T
      <4>1. Counted(g, a, f.src) \in [IPs -> SUBSET MACs]
        BY <1>1, <1>5 DEF Counted, T
      <4> QED  BY <1>5, <4>1 DEF T
    <3> HIDE DEF wanted
    <3>2. SetIp(wanted, a, Inferred) \in T
      BY <1>2, <1>3, <3>1
    <3> QED  BY <1>5, <3>1, <3>2 DEF RecordAsker, wanted
  <2> QED  BY <1>1, <1>5, <2>1 DEF Asked
<1>6. ASSUME NEW g \in T  PROVE Spoken(g, f) \in T
  BY <1>1, <1>6 DEF Spoken, SetMac
<1>7. ASSUME NEW g \in T  PROVE NoteProxyArp(g, f) \in T
  BY <1>1, <1>7 DEF NoteProxyArp, ProxyArpFor
<1>8. gateway \in T /\ (gateway' \in T => GatewayType')
  BY DEF GatewayType
<1> HIDE DEF T
<1>9. gateway' \in T
  BY <1>4, <1>5, <1>6, <1>7, <1>8 DEF Learn, Observed
<1> QED  BY <1>8, <1>9

\* The tracker is one from the start.
LEMMA GatewayTypes == GatewaySpec => []GatewayType
<1>1. GatewayInit => GatewayType
  BY GatewayConstants DEF GatewayInit, GatewayType, NoAskers, SourceOf, Sources, Unknown,
     Inferred, Dhcp, Configured
<1>2. GatewayType /\ [GatewayNext]_gatewayVars => GatewayType'
  <2>1. GatewayType /\ UNCHANGED gatewayVars => GatewayType'
    BY DEF GatewayType, gatewayVars
  <2> QED  BY <2>1, GatewayTyped DEF GatewayNext
<1> QED  BY <1>1, <1>2, PTL DEF GatewaySpec

\* Whichever of the parts runs, the beliefs, the windows, the evidence, the history and
\* the settings are of their types: nothing is looked up that is not there, and what is
\* the key of a row or of an entry is its key (gateway.rs, rates, classify.rs, config.rs).
THEOREM PartsTypes == PartsSpec => []PartsTypesHold
<1>1. PartsInit => GatewayInit /\ RateInit /\ ClassInit /\ MaintenanceInit /\ ConfigInit
  BY DEF PartsInit
<1>2. [PartsNext]_partsVars =>
        /\ [GatewayNext]_gatewayVars /\ [RateNext]_rateVars /\ [ClassNext]_classVars
        /\ [MaintenanceNext]_maintenanceVars /\ [ConfigNext]_configVars
  BY DEF PartsNext, partsVars
<1>3. PartsSpec =>
        GatewaySpec /\ RateSpec /\ ClassSpec /\ MaintenanceSpec /\ ConfigSpec
  BY <1>1, <1>2, PTL DEF PartsSpec, GatewaySpec, RateSpec, ClassSpec, MaintenanceSpec, ConfigSpec
<1>4. GatewayType /\ RateTypeOK /\ ClassTypeOK /\ MaintenanceTypeOK /\ ConfigTypeOK
        <=> PartsTypesHold
  BY DEF PartsTypesHold
<1> QED
  BY <1>3, <1>4, GatewayTypes, RateTypesHold, ClassTypes, MaintenanceTypes, SettingsTypes, PTL
=============================================================================
