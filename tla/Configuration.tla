--------------------------- MODULE Configuration ---------------------------
(***************************************************************************)
(* What a command of netgraspd works with (config.rs Config::load, cli     *)
(* overrides): the compiled defaults, under the file, under the            *)
(* environment, under the flags; read once when the command starts, and    *)
(* refused as a whole if the result would misbehave.                       *)
(*                                                                         *)
(* The daemon and a command that reads are two processes that may start in *)
(* two directories, with the file edited in between.                       *)
(*                                                                         *)
(* A configuration is a function from dotted keys to values.  A duration   *)
(* is written [n, unit] and is a number of seconds once it is read.        *)
(***************************************************************************)
EXTENDS Integers, Sequences, FiniteSets, FiniteSetsExt

CONSTANTS
  Commands,        \* the processes
  Daemon,          \* `run`, the one of them that observes and writes
  Width,           \* the values of an unsigned number, 2^64
  SecondsIn,       \* the unit sizes: s, m, h and d
  DayMinutes,      \* minutes of a day
  Directories,     \* where a command may be started
  FileLayers,      \* the settings an operator may write to a file
  Environments,    \* those of the environment
  FlagLayers,      \* those of the command line
  Absent,          \* no file, or no --config
  MaxEdits         \* bound: edits of a file

ASSUME ConfigurationAssumption ==
  /\ Width \in Nat /\ DayMinutes \in Nat \ {0} /\ DayMinutes % 2 = 0
  /\ "s" \in DOMAIN SecondsIn /\ SecondsIn["s"] = 1
  /\ \A u \in DOMAIN SecondsIn : SecondsIn[u] \in 1..Width - 1
  /\ Daemon \in Commands /\ MaxEdits \in Nat
  /\ Absent \notin Directories /\ Absent \notin FileLayers
  /\ \A flags \in FlagLayers :
       DOMAIN flags \subseteq {"database.url", "capture.interfaces", "learning.duration",
                             "notify.enabled"}

VARIABLES
  file,      \* netgrasp.toml in each directory
  env,       \* the environment of every process
  command,   \* [Commands -> [pc, given, flags, looked, config, source]]
  edits,
  edited     \* the commands that were running when a file last changed

configVars == <<file, env, command, edits, edited>>

----------------------------------------------------------------------------
(* Durations and clock times                                               *)

\* "s" is what a bare integer means; the multiplication wraps in a release.
Parse(text) == (text.n * SecondsIn[text.unit]) % Width

\* Mutant: the largest unit that fits, whether it divides or not.
ToHumanRounded(s) ==
  LET u == CHOOSE v \in DOMAIN SecondsIn :
             /\ SecondsIn[v] <= Max({s, 1})
             /\ \A w \in DOMAIN SecondsIn :
                  SecondsIn[w] <= Max({s, 1}) => SecondsIn[w] <= SecondsIn[v]
  IN  [n |-> s \div SecondsIn[u], unit |-> u]

\* to_human: the largest unit that divides.
ToHuman(s) ==
  IF s = 0 THEN [n |-> 0, unit |-> "s"]
  ELSE LET dividing == {u \in DOMAIN SecondsIn : s % SecondsIn[u] = 0}
           u == CHOOSE v \in dividing : \A w \in dividing : SecondsIn[w] <= SecondsIn[v]
       IN  [n |-> s \div SecondsIn[u], unit |-> u]

Time(h, m) == [hour |-> h, minute |-> m]

\* Minutes since local midnight, in a day of hours of SecondsIn["h"] minutes.
Minutes(t) == t.hour * (DayMinutes \div 2) + t.minute

\* QuietHours::contains: half open, and past midnight if the end comes first.
QuietContains(hours, now) ==
  LET s == Minutes(hours.start)
      e == Minutes(hours.end)
  IN  CASE s = e -> FALSE
        [] s < e -> s <= now /\ now < e
        [] OTHER -> s <= now \/ now < e

----------------------------------------------------------------------------
(* The sections and their defaults, as pairs of a key and a value.  Of a   *)
(* number it only matters whether it is zero, of a word what it is         *)
(* compared with.                                                          *)

Keys(section) == {pair[1] : pair \in section}

DatabaseConfig == {<<"database.url", "compiled">>, <<"database.pool_size", 1>>}

CaptureConfig ==
  {<<"capture.interfaces", 0>>, <<"capture.sources", 2>>, <<"capture.channel_capacity", 1>>}

\* The router goes idle and offline at once.
StateConfig ==
  {<<"state.idle_timeout", 1>>, <<"state.offline_timeout", 3>>,
   <<"state.router.idle_timeout", 4>>, <<"state.router.offline_timeout", 4>>,
   <<"state.flush_interval", 2>>, <<"state.sweep_interval", 1>>,
   <<"state.reconcile_interval", 1>>}

IdentityConfig == {<<"identity.reverse_dns", FALSE>>, <<"identity.reverse_dns_ttl", 6>>}

LearningConfig == {<<"learning.duration", 3>>}

\* Quiet hours that end where they start are as good as none.
NotifyConfig ==
  {<<"notify.enabled", TRUE>>, <<"notify.debounce", 2>>, <<"notify.batch_window", 1>>,
   <<"notify.quiet_hours", [start |-> Time(0, 0), end |-> Time(0, 0)]>>}

\* No transport is configured: the priorities are those it would get.
NtfyConfig ==
  {<<"notify.ntfy", FALSE>>, <<"notify.ntfy.priority", 3>>,
   <<"notify.ntfy.urgent_priority", 5>>, <<"notify.ntfy.server", "public">>}

\* Addresses are "blank", "good" or "bad".
SecurityConfig ==
  {<<"security.gateway_mac", "blank">>, <<"security.exempt_macs", "blank">>,
   <<"security.max_tracked", 1>>, <<"security.identity_change.sensitivity", "category">>}

\* The windows and thresholds of the analyzers.
AnalyzerConfigs ==
  {<<"security.arp_scan.window", 2>>, <<"security.arp_scan.threshold", 1>>,
   <<"security.gratuitous_arp.window", 1>>, <<"security.gratuitous_arp.threshold", 1>>,
   <<"security.ip_conflict.active_within", 4>>}

UnifiConfig ==
  {<<"enrichment.unifi.enabled", FALSE>>, <<"enrichment.unifi.controller_url", "blank">>,
   <<"enrichment.unifi.credentials", "none">>, <<"enrichment.unifi.poll_interval", 2>>}

MaintenanceConfig ==
  {<<"maintenance.rollup_after_days", 1>>, <<"maintenance.event_retention_days", 3>>}

RuntimeConfig == {<<"runtime.status_interval", 2>>}

\* [[people]]: a list, which a layer above replaces as a whole.
PeopleConfig == {<<"people", << >>>>}

Sections ==
  DatabaseConfig \cup CaptureConfig \cup StateConfig \cup IdentityConfig \cup LearningConfig
    \cup NotifyConfig \cup NtfyConfig \cup SecurityConfig \cup AnalyzerConfigs
    \cup UnifiConfig \cup MaintenanceConfig \cup RuntimeConfig \cup PeopleConfig

Defaults == [k \in Keys(Sections) |-> (CHOOSE pair \in Sections : pair[1] = k)[2]]

Durations ==
  {"learning.duration", "identity.reverse_dns_ttl", "notify.debounce",
   "notify.batch_window", "runtime.status_interval", "enrichment.unifi.poll_interval",
   "security.arp_scan.window", "security.gratuitous_arp.window",
   "security.ip_conflict.active_within"}
  \cup Keys(StateConfig)

\* What a value is once it is parsed: a whole number of units, two times of a
\* day, and names that are the same in lower case if they are the same.
WellFormed(layer) == \A k \in DOMAIN layer :
  /\ k \in Durations => layer[k] \in [n : Nat, unit : DOMAIN SecondsIn]
  /\ k = "notify.quiet_hours" =>
       LET clock == [hour : 0..1, minute : 0..(DayMinutes \div 2) - 1]
       IN  layer[k] \in [start : clock, end : clock]
  /\ k = "people" =>
       /\ Len(layer[k]) \in Nat
       /\ \A i, j \in 1..Len(layer[k]) :
            layer[k][i].written = layer[k][j].written => layer[k][i].name = layer[k][j].name

ASSUME LayersAssumption ==
  /\ \A layer \in FileLayers \cup Environments \cup FlagLayers : WellFormed(layer)
  /\ \A k \in Durations : Defaults[k] \in 0..Width - 1

\* The default layer is written out and read back like every other.
SerializedDefaults ==
  [k \in DOMAIN Defaults |-> IF k \in Durations THEN ToHuman(Defaults[k]) ELSE Defaults[k]]

----------------------------------------------------------------------------
(* What is refused                                                         *)

\* Must be at least 1.
AtLeastOne ==
  {"database.pool_size", "capture.channel_capacity", "capture.sources",
   "state.flush_interval", "state.sweep_interval", "state.reconcile_interval",
   "learning.duration", "runtime.status_interval"}

ValidSecurity(c) ==
  /\ c["security.gateway_mac"] # "bad" /\ c["security.exempt_macs"] # "bad"
  /\ c["security.max_tracked"] > 0
  /\ \A k \in Keys(AnalyzerConfigs) : c[k] > 0
  /\ c["security.identity_change.sensitivity"] \in {"category", "any"}

\* Only an enricher that runs has to be able to.
ValidUnifi(c) ==
  c["enrichment.unifi.enabled"] =>
    /\ c["enrichment.unifi.controller_url"] = "good"
    /\ c["enrichment.unifi.credentials"] # "none"
    /\ c["enrichment.unifi.poll_interval"] > 0

ValidMaintenance(c) == \A k \in Keys(MaintenanceConfig) : c[k] > 0

\* Mutant: a name is compared as it is written.
PeopleByName(people) ==
  /\ \A i, j \in 1..Len(people) : i # j => people[i].written # people[j].written
  /\ \A i, j \in 1..Len(people) :
       people[i].macs \cap people[j].macs # {} => people[i].name = people[j].name

\* validate_people: names are unique but for their case, and a device that is
\* listed twice is listed by one person.  `name` is the name in lower case.
ValidPeople(people) ==
  /\ \A i \in 1..Len(people) : people[i].name # "blank"
  /\ \A i, j \in 1..Len(people) : i # j => people[i].name # people[j].name
  /\ \A i, j \in 1..Len(people) :
       people[i].macs \cap people[j].macs # {} => people[i].written = people[j].written

Valid(c) ==
  /\ c["database.url"] # "blank"
  /\ \A k \in AtLeastOne : c[k] > 0
  /\ c["state.idle_timeout"] < c["state.offline_timeout"]
  /\ c["notify.ntfy"] => /\ c["notify.ntfy.priority"] \in 1..5
                         /\ c["notify.ntfy.urgent_priority"] \in 1..5
                         /\ c["notify.ntfy.server"] # "blank"
  /\ ValidSecurity(c)
  /\ ValidUnifi(c)
  /\ ValidMaintenance(c)
  /\ ValidPeople(c["people"])

----------------------------------------------------------------------------
(* What the daemon makes of it                                             *)

\* idle_timeout_for; the router stands for the types that have an override.
IdleTimeoutFor(c, type) ==
  IF type = "router" THEN c["state.router.idle_timeout"] ELSE c["state.idle_timeout"]

\* Mutant: as it is configured.
OfflineAsConfigured(c, type) ==
  IF type = "router" THEN c["state.router.offline_timeout"] ELSE c["state.offline_timeout"]

\* offline_timeout_for: never before the device may be idle.
OfflineTimeoutFor(c, type) ==
  LET base == IF type = "router" THEN c["state.router.offline_timeout"]
              ELSE c["state.offline_timeout"]
  IN  Max({base, IdleTimeoutFor(c, type)})

\* PersonConfig::macs, as the registry is built from it.
OwnersOf(c, mac) == {c["people"][i].name : i \in {j \in 1..Len(c["people"]) :
                                                    mac \in c["people"][j].macs}}

----------------------------------------------------------------------------
(* Config::load_with_source                                                *)

Layer(path) == IF file[path] = Absent THEN << >> ELSE file[path]

\* Cli::overrides: only a flag that was passed is a value, and some commands
\* have no others than the one of the database.
Overrides(p, flags) ==
  [k \in {f \in DOMAIN flags : p = Daemon \/ f = "database.url"} |-> flags[k]]

\* A setting of the higher layer hides the lower one's.
Over(high, low) ==
  [k \in DOMAIN high \cup DOMAIN low |-> IF k \in DOMAIN high THEN high[k] ELSE low[k]]

\* Highest wins, key by key.
Merged(path, flags) ==
  LET raw == Over(flags, Over(env, Over(Layer(path), SerializedDefaults)))
  IN  [k \in DOMAIN raw |-> IF k \in Durations THEN Parse(raw[k]) ELSE raw[k]]

\* deny_unknown_fields, whatever layer the field is in.
Known(path, flags) == DOMAIN Merged(path, flags) = DOMAIN Defaults

\* Mutant: what the file says is validated, and the rest is laid over it.
ChecksTheFile(path, flags) == Known(path, flags) /\ Valid([k \in DOMAIN Merged(path, flags) |->
  IF k \in DOMAIN Layer(path) \/ k \notin (DOMAIN flags \cup DOMAIN env)
  THEN Merged(path, flags)[k]
  ELSE Defaults[k]])

\* Config::validate, of all the layers together.
Checks(path, flags) == Known(path, flags) /\ Valid(Merged(path, flags))

\* Mutant: the path that was looked for is taken for the one that was read.
SourceAlwaysFile(path) == "file"

\* ConfigSource, which every command logs: a file, or that there was none.
Source(path) == IF file[path] = Absent THEN "defaults" ELSE "file"

\* log_config_provenance, before anything connects.
Logged(p) == [source |-> command[p].source, url |-> command[p].config["database.url"]]

Ended == [pc |-> "ended", looked |-> Absent, config |-> << >>, source |-> "none",
          flags |-> << >>]

\* The default file is looked for where the command is started, and may be
\* missing; a file that was named must exist.
Launch(p) ==
  /\ command[p].pc = "ended"
  /\ \E here \in Directories, given \in Directories \cup {Absent}, passed \in FlagLayers :
       LET path == IF given = Absent THEN here ELSE given
           flags == Overrides(p, passed)
       IN  /\ given # Absent => file[path] # Absent
           /\ Checks(path, flags)
           /\ command' = [command EXCEPT ![p] =
                [pc |-> "runs", looked |-> path, config |-> Merged(path, flags),
                 source |-> Source(path), flags |-> flags]]
  /\ edited' = edited \ {p}
  /\ UNCHANGED <<file, env, edits>>

\* It says what is wrong and exits: with a setting, or with the file it was named.
Refuse(p) ==
  /\ command[p].pc = "ended"
  /\ \E path \in Directories, passed \in FlagLayers :
       file[path] = Absent \/ ~Checks(path, Overrides(p, passed))
  /\ command' = [command EXCEPT ![p] = [Ended EXCEPT !.pc = "refused"]]
  /\ UNCHANGED <<file, env, edits, edited>>

End(p) ==
  /\ command[p].pc \in {"runs", "refused"}
  /\ command' = [command EXCEPT ![p] = Ended]
  /\ edited' = edited \ {p}
  /\ UNCHANGED <<file, env, edits>>

\* The operator writes, moves or removes a file; nobody reads it again.
Edit(path) ==
  /\ edits < MaxEdits /\ edits' = edits + 1
  /\ \E layer \in FileLayers \cup {Absent} : file' = [file EXCEPT ![path] = layer]
  /\ edited' = {p \in Commands : command[p].pc = "runs"}
  /\ UNCHANGED <<env, command>>

ConfigInit ==
  /\ file \in [Directories -> FileLayers \cup {Absent}]
  /\ env \in Environments
  /\ command = [p \in Commands |-> Ended]
  /\ edits = 0 /\ edited = {}

ConfigNext ==
  \/ \E p \in Commands : Launch(p) \/ Refuse(p) \/ End(p)
  \/ \E path \in Directories : Edit(path)

ConfigSpec == ConfigInit /\ [][ConfigNext]_configVars

----------------------------------------------------------------------------
\* The types of what a command runs with.
ConfigTypeOK ==
  /\ \A p \in Commands :
       /\ command[p].pc \in {"ended", "refused", "runs"}
       /\ command[p].pc = "runs" => /\ DOMAIN command[p].config = DOMAIN Defaults
                                    /\ \A k \in Durations : command[p].config[k] \in 0..Width - 1
  /\ edits \in 0..MaxEdits /\ edited \subseteq Commands

\* Whatever layers a value came from, a daemon that runs has timers that fire,
\* channels that hold something, an idle state before the offline one for every
\* type of device, and one owner for a device, however their names are written
\* (config.rs Config::validate, offline_timeout_for, validate_people).
AcceptedIsUsable ==
  \A p \in Commands : command[p].pc = "runs" =>
    LET c == command[p].config
    IN  /\ \A k \in AtLeastOne \cup Keys(AnalyzerConfigs) : c[k] # 0
        /\ \A type \in {"router", "other"} : IdleTimeoutFor(c, type) <= OfflineTimeoutFor(c, type)
        /\ IdleTimeoutFor(c, "other") < OfflineTimeoutFor(c, "other")
        /\ \A mac \in UNION {c["people"][i].macs : i \in 1..Len(c["people"])} :
             Cardinality(OwnersOf(c, mac)) = 1
        /\ Cardinality({c["people"][i].name : i \in 1..Len(c["people"])}) = Len(c["people"])

\* A command that reads another database than the daemon writes has said so: it
\* has a flag that names one, or has read another file that is there, or has logged that it
\* found none - unless somebody edited a file since one of them started
\* (config.rs ConfigSource, cli log_config_provenance).
AnotherDatabaseIsSaid ==
  \A p, q \in Commands :
    /\ command[p].pc = "runs" /\ command[q].pc = "runs"
    /\ Logged(p).url # Logged(q).url
    => \/ "database.url" \in DOMAIN command[p].flags \cup DOMAIN command[q].flags
       \/ "defaults" \in {Logged(p).source, Logged(q).source}
       \/ /\ command[p].looked # command[q].looked
          /\ Absent \notin {file[command[p].looked], file[command[q].looked]}
       \/ {p, q} \cap edited # {}

\* What is written is what is meant.  A duration that is written out, as the
\* defaults are, reads back as itself (config.rs:118); a quiet period is as long
\* as from its start to its end, wherever midnight falls, and is over at its end
\* (config.rs QuietHours).
ConversionsHold ==
  \A p \in Commands : command[p].pc = "runs" =>
    LET c == command[p].config
        quiet == {now \in 0..DayMinutes - 1 : QuietContains(c["notify.quiet_hours"], now)}
        start == Minutes(c["notify.quiet_hours"].start)
        end == Minutes(c["notify.quiet_hours"].end)
    IN  /\ \A k \in Durations : Parse(ToHuman(c[k])) = c[k]
        /\ \A k \in Durations : Parse(SerializedDefaults[k]) = Defaults[k]
        /\ Cardinality(quiet) = (end - start) % DayMinutes
        /\ end \notin quiet /\ (quiet # {} => start \in quiet)

\* A command that runs has settings it can work with, has said where they are
\* from, and means by them what was written: the three together.
SettingsAreSound == AcceptedIsUsable /\ AnotherDatabaseIsSaid /\ ConversionsHold
=============================================================================
