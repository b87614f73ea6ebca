# Verification of netgraspd

TLA+ models of the netgraspd daemon, model-checked with TLC and, for most
components, proved with TLAPS. Paths below are relative to the repository.

- [The system](#the-system)
- [Modules and the code they model](#modules-and-the-code-they-model)
- [Runs](#runs)
- [Fairness and deadlock](#fairness-and-deadlock)
- [Proofs](#proofs)
- [Where the code and its words disagree](#where-the-code-and-its-words-disagree)
- [What is not modelled](#what-is-not-modelled)
- [Plan](#plan)

## The system

netgraspd watches a LAN without sending anything. It learns which devices exist,
what they are called, who owns them, whether they are there and where, and tells
somebody when that changes or when a frame looks hostile.

### How it runs

```
 capture threads -> observation channel -> dedup -> device Manager -> Persister -> Postgres
   (libpcap)          (bounded)              |          ^  |   ^                     ^  |
                        |                    |          |  |   +-- sweep, flush,     |  |
                        v                    |          |  |       maintenance       |  v
              analyzer chain (every frame,   |          |  +--> People registry -----+ reconcile
              also what dedup drops)         |          |                     (plugin's edits)
                        |                    |          +-- enrichment task (channel of one)
                        |                    |          +-- reverse-DNS tasks
                        +--------------------+--> event bus (broadcast) -> notifier task -> ntfy
```

One tokio task (`src/src/daemon.rs`, `run`) owns every table in memory. It is a
biased `select!`: shutdown, an observation, a signal from reverse DNS, the sweep,
the flush, the reconcile, the enrichment tick, an enrichment result, maintenance,
the status file, the end of the learning window, the table on a terminal, in that
order. An arm runs to its end, and its database calls are awaited inside it, so that
arms never overlap; but everything else goes on meanwhile: the plugin edits the same tables,
an enricher measures, the notifier sends, the process dies.

A change of state goes to Postgres at once, as a list of effects that the
persister writes one statement at a time, without a transaction. The `ng_devices`
row is different: its volatile columns wait for the flush. A restart rebuilds
memory from that row alone. Most of what can go wrong here is between those two
ways of writing.

### Components

| Component | State it keeps | Operations | What makes it correct |
|---|---|---|---|
| Device table (`device/mod.rs`) | per MAC: state, last heard, access point, addresses, names, dirty flag, unwritten counts; ignored MACs; learning window | observe, add_signal, sweep, set_location, take_dirty, restore | presence follows what was heard; each change gives its effects once; a flush never loses what it did not write |
| Persister and rows (`device/persist.rs`, `db/queries.rs`) | MAC to id; `ng_devices`, `ng_presence`, `ng_location_history`, `ng_events`, `ng_signals` | the effects, flush | the four copies agree except where a fault hit; every session told once |
| Identity (`device/mod.rs`, `identity/scorer.rs`) | address index, ordered signals, pending rival and since when | attribution, re-scoring, settling, restore | names go to the machine they belong to; no flapping; a restart does not demote |
| Classification (`identity/classify.rs`, `fingerprint.rs`) | the last result per device, the fingerprint table and its file | resolve by rank, look up by similarity, install, replace | the strongest and latest evidence wins, through restarts; a change is announced only when something was heard |
| Reverse DNS (`identity/rdns.rs`) | addresses asked, a cache, tasks in flight | ask, answer | one query per address; an answer goes to the device that was asked about |
| People registry (`people/mod.rs`) | owner of each device, a view of each owned device, home or away per person | track, reconcile, restore | the view is what the table says; a person is home iff a device is |
| Whereabouts (`people/mod.rs`, `location/mod.rs`) | place and last activity of each device, last edge seen, location and way of a person | sighting, move, refresh, arrival and departure evidence | a person is where one of their devices is; evidence is theirs, recent, and of this visit |
| Gateway tracker (`analyze/gateway.rs`) | address and MAC with the source of each, askers per candidate address, proxied addresses | observe | better evidence is never displaced by weaker; no election without its quorum |
| Address analyzers (`analyze/arp_spoof.rs`, `ip_conflict.rs`, `window.rs`, `mod.rs`) | bounded tables of who used an address, when, and the last alert | the chain, cooldowns, eviction, exemptions | two users are reported, once per cooldown; proxy ARP accuses nobody |
| Rate and reference analyzers (`arp_scan.rs`, `gratuitous_arp.rs`, `rogue_dhcp.rs`, `identity_change.rs`) | sliding windows, a reference server, what each device was, the last alerts | the chain | what deserves an alert has one, only that does, and not twice in a cooldown |
| Event bus and notifications (`events/mod.rs`, `notify/mod.rs`, `daemon.rs`) | bounded broadcast, debounce table, pending batch and its window | offer, drain, deliver, mark | every event has one fate; nothing held for ever; security is not held up by the rest |
| Transport (`notify/ntfy.rs`) | none | one request per delivery | refused or accepted |
| Daemon loop (`daemon.rs`) | channels, timers, the unpublished events of a batch | the select, the stop | the stop comes first and leaves nothing unwritten; what is counted was published |
| Enrichment (`enrich/mod.rs`, `unifi.rs`) | schedule, one poll in flight, a session with a controller | poll, log in, hand over | a wrong password is tried once; the controller is found again; a late answer is harmless |
| Capture, parsers, dedup (`capture/*`) | a bounded set of recent keys; one thread per handle | read, parse, admit | a frame is read as it was written or not at all, and is evidence about whom it names; what is dropped was admitted before |
| Maintenance (`maintenance/mod.rs`) | time of the last night, summaries, rollups | roll up, prune, merge, vacuum | nothing a summary can keep is lost, whatever fails; one night a day |
| Schema (`db/mod.rs`, `db/schema.rs`) | applied versions, tables and columns | guard, migrate, preflight, check before reading | nobody works on half a schema or takes another program's tables |
| Configuration, commands, status (`config.rs`, `cli/*`, `runtime/mod.rs`) | files, environment, flags | load, validate, print | what is accepted can be run with; where it came from is said |

### What is hard about it

- **Order of writes.** The persister's list of statements stops at the first one
  that fails; the rest of it is lost, and memory already has the new state.
- **Crashes.** `ng_devices.state` is as old as the last flush, while sessions and
  events are as new as the last effect. A restart believes the row.
- **Views of views.** The registry hears transitions and never looks at the table;
  the table hears frames and never looks at the row. What one of them missed it
  does not learn later.
- **Reads before awaits.** Reconcile reads owners, then settings, then applies
  both, while the plugin writes.
- **Late data.** Packets wait in the channel, enrichment answers describe the past,
  reverse DNS answers about an address that may have moved on.
- **Bounds.** The bus overwrites, the analyzers' tables evict, the candidate list
  of the gateway is capped: each has a rule about what it forgets.
- **Time.** Debounce, batch window, quiet hours, cooldown, settle window and
  evidence window race each other and the answers.
- **Others.** A controller that drops sessions, a plugin that creates the same
  tables, an operator with four places to set a value, a sender that writes
  messages its own way.

`PROJECT.json` lists each as a hazard, at the line where it bites, with the
properties that watch it.

## Modules and the code they model

### DeviceLifecycle: presence, persister and restart

State: `state`, `silence`, `ap`, `dirty` are the fields of `Device` and the dirty
set; `ids` and `todo` are the persister's map and the effects it has yet to write,
`cursor` says in whose list it is, `flushing` the entries a flush took; `row`,
`session`, `stay`, `log`, `announced` are the tables. `torn` is history: the copies
of a device that a fault has put out of step since they were last written.

| Action | Code |
|---|---|
| `Discover`, `Observe` | `Manager::observe` for an unknown and a known MAC; the frame may be `lag` old |
| `Sweep` | `Manager::sweep`, all devices in one step, offline before idle |
| `SetLocation` | `Manager::set_location`, including a device that is offline (late answer) |
| `InsertDevice` .. `InsertEvent` | one statement each of `Persister::apply`, with what the SQL does: `ON CONFLICT`, the `WHERE` of a close, the parent id that may be missing |
| `DropBatch` | a statement fails: the effects that are left are lost |
| `TakeDirty`, `FlushDevice`, `DropFlush` | the flush and its failure |
| `Crash`, `Shutdown`, `Start` | death between any two statements; the final flush; `restore` from `ng_devices` |

Time is silence in units that tell the timeouts apart. Addresses, counters and
signals are left out: no branch of presence reads them.

### PresenceLedger and LifecycleLedger: what the database promises

`PresenceLedger` is what V1 of the schema says of `ng_presence` and `ng_events` in
words: sessions open and close in turn, each is told once and before the next
change, first as `new_device`, then as `returned`. `LifecycleLedger` maps the
detailed module to it (`open` from `session`, `told` from `log`) and the run checks
`Ledger!Spec`, its fairness included, as a property. The mapping holds only
without faults, which is the point of it: `FaultsAreContained` says what remains
with them.

### PeopleRegistry: who is home

State: `device` is what the registry can hear of the table; `view`, `owner`,
`configured`, `people`, `home` are the fields of `PeopleRegistry`; `updates` and
`events` the statements it has asked for and the loop has not yet made;
`reconciling` and `reading` the owners read and not yet applied; `row*` the tables,
which the plugin writes as well.

| Action | Code |
|---|---|
| `Observe`, `Sweep` | `apply_and_track`: transitions, with the early return of a registry that is not active |
| `UpdatePerson`, `RecordEvent` | the writes after it, each of which may fail |
| `Assign`, `Mirror`, `Unmirror` | the plugin edits `ng_devices.owner_item_id` and `ng_people`, at any time |
| `ReadSettings`, `ReadFails`, `Reconcile` | the reconcile arm with its two reads, and `reconcile` |
| `Exit`, `Start` | crash or shutdown; start with the people adopted from the configuration, the row's owners and states |

### Whereabouts: where, and which way

The place of a device, in the table and in the registry, the location derived for
a person, and the crossings of the edge of the house. One person owns every device
(ownership is the module above); times are absolute since two are subtracted.
`Hear` and `ComeOnline` are an observation of a present and an absent device with
a packet up to `MaxLag` old, `Sweep` the departure, `Enrich` one answer of a poll (a
move, or a repeat that the daemon skips), `Restart` a clean one.

### Notifications: from the bus to a phone

`published` and `bus` are the broadcast channel of `events/mod.rs`, with `Push`
overwriting the oldest and `Lag` the receiver's error; `accepted`, `pending`,
`window`, `suppressed` the dispatcher; `sending`, `sent`, `failed`, `marked` the loop
`send_all` and the column it writes. `Offer` is `Dispatcher::offer` with
debounce, quiet hours, bypasses and the batch; `CloseWindow` its timer; `Send` one
delivery, during which the clock and the bus run on; `Shutdown` and `End` the last
drain. The five kinds of event are those that the rules tell apart.

### Identity: what a device is called

`entry` is a device's names, `index` the address index, `heard` the order in which
devices were seen, `row` and `stored` what is in Postgres. `Announce` is a frame with
claims, attributed by `SubjectOf` as `observe` does: a claim that names an address
goes to its holder, a frame that speaks for others gives its sender nothing.
`Rescored` is `rescore` with the settle window; `Flush` and `Restart` file and reload.
`won` is a history: how long ago each shown name last won a judgement. Evidence is kept kind by
kind, in the order of the ranks.
The network is part of the model, because whether an attribution is right depends
on it: `uses` says which address a machine really has and `Owner` whose name it is.
It is assumed to be honest, that is machines announce an address when they take
it and the announcement is heard, they leave without a word, and they answer for
one another as a sleep proxy does.

### Gateway and AddressGuards: who is the gateway, who is accused

`Gateway` is the tracker: one step is one `observe`, written as the composition of
its parts `Leased` (DHCP's router), `Asked` (the count of askers), `Spoken` (a MAC
for the address) and `NoteProxyArp`. `AddressGuards` extends it with `arp_spoof`,
`ip_conflict`, the bounded tables they keep and the chain that shows a frame to the
tracker first and drops the alerts about exempt devices last. `Rooms` is
`BoundedMap`'s eviction: the oldest goes, any of them when several are.

### Intake: one observation, from the channel to the bus

`seen`, `order` and `dropped` are `ObservationDedup`; `asked`, `lookups`, `cache` and
`signals` the reverse look-ups; `rowId` is `Persister::ids`; `stored`, `announced`,
`counted` and `alarms` what reached `ng_events`, the bus and the counters.
`Observed` is the whole observation arm: count the frame, `Admit` or `Drop` it, ask
about its address once, apply the effects of the state machine until one fails and
announce the batch only if none did, and then, also for a frame that was dropped,
apply what the analyzers say (`Alarm`). `Lookup` is one task of the resolver with its
cache, `TakeSignal` its arm of the loop.

### RunLoop: the select, and the stop

`thread` is the capture threads, `queued` the bounded channel, `loop` where `run` is,
`snapshot`, `poller` and `answers` the two channels of the enrichment task. `Arms` is
the order of the biased select and `Takes` its rule: the first arm that is ready.
A timer may or may not have fired at any turn; `HandleUpkeep` stands for maintenance, the
status file, the learning window and the terminal's table, which change nothing that
is flushed. `Break` is what follows the loop before the first await, the last flush included,
`JoinThreads` and `Return` the joins. A thread whose send finds the channel full is
in `blocking_send` and does not look at the flag.

### RateGuards: the other four analyzers

`scanners` and the flood windows are `DistinctWindow` and `RateWindow` in bounded
maps, the lists of `rogue_dhcp` and `identity_change` hold servers and alerts, and
`Cooled` is `cooled_down` with the sign of the gap. A frame carries its own time,
up to `MaxLate` before the clock's. Each analyzer is one action: `Request`,
`AnnounceOneself`, `Serve`, `Reclassify`. `asked`, `announced` and `raised` are
histories: what a sender asked for and announced since its window was last forgotten,
but for what a full window pushed out, and the last alerts that were let through.
`Lists` has the rearranged lists of windows and of a device's signals.

### Classification: what kind of device

`signals` is what the daemon keeps of one device, the most recently confirmed first;
`stored` what the database keeps, with times. `Hear` is a frame's signals recorded,
stored and classified again; `Restart` loads them in the order of the query and
classifies with the table found on disk (`Install`); `Download` and `Write` replace the
file. `Common` is the length of the longest common subsequence by the table the code
fills row after row (`Rows`), and similarities are compared as fractions over the
longer list. Where the code pushes candidates onto a list and takes the first, the model
has the set of their places (`OfKinds`) and its least member (`First`). Which value
speaks for which type, the vendor table and the patterns of text, are the constants
`Says` and `SaysOs`.

### Messages, Claims, Leases, Voices, Credit: the parsers

`Messages` reads names, records and TXT strings of every message of up to
`MaxOctets` octets, with pointers, as `capture/dns.rs` does: `Turn` is one round of the
loop in `read_name`, and `ReadQuestion`, `ReadOneMore` and `ReadString` are the rounds of
those over questions, records and TXT strings. `Claims` builds messages record by record and evaluates
`extract_claims` of `capture/mdns.rs`: names and their owners are collected first and
addresses resolved through them afterwards. `Leases` lets a sender write options
and spill them into the fields of the boot file and the server's name, lets a
capture lose the end, and reads the result as `capture/dhcp.rs` does. The state of
these is the message; the parser is an operator.

`Voices` has the three parsers that tell what a station says of itself from what it
says of others: `ndp`, `nbns` and `ssdp`, chosen by `parse_frame`. Values carry
whose they are, which the parsers do not see, and a frame comes with what its
sender told in it, so that too much and too little both show. What stations send
is external (`NdpFrames`, `NetbiosFrames`, `SsdpFrames`): each message a station of the
protocol sends about itself and about another, directly or behind a bridge that
rewrites the frame's source. The stations register names with the suffixes the
code knows them by and address datagrams to their own workgroup. `Credit` is Claims and
Voices side by side, and states what they have in common, `NobodySpeaksForAnother`.

### ControllerPoll: the UniFi client and its schedule

`pc`, `path` and `attempt` are where a poll is, `prefix` and `loggedIn` the session.
Every request is a step (`Login`, `Probe`, `Get`), so that the controller
(`Trouble`, external: it restarts, loses its application, refuses the account, drops
the session or becomes the other shape) may change between any two. `GiveUp` tells the
question that fails the poll from the one that does not.

### SchemaStartup: who builds the tables

`database` and `recorded` are the tables and refinery's history. A starter is the
daemon or `netgraspd migrate`: `GuardTable`, `GuardHistory`, `Runner`, one
`ApplyMigration` per version, each a transaction, and `Preflight` table by table; a
reader is a command and its checks. The plugin (`PluginCreates`), a lost connection
(`FailsMidway`) and the operator who follows the advice (`Reconcile`) act between any
two of them.

### Maintenance: the nights

`rows`, `events` and `spans` are the tables the jobs compact; `Daytime` opens, moves,
bumps and closes sessions and stays with the statements of `queries.rs`; `Begin` is
`is_due`, each `Statement` a job's transaction, `StatementFails` and `CrashAndRestart`
what may come between. `ledger` is history: the tables had no night ever run.

### Configuration: what a command works with

A configuration is a function from keys to values. `Launch` lays the defaults, the
file, the environment and the flags over one another (`Merged`), checks the result
(`Checks`, `Valid`) and remembers where it looked and what it found; the daemon and a
command that reads may start in two directories with the file edited in between.
The conversions, durations, clock times and quiet periods, are operators.

## Runs

Modules that do not share state are checked side by side, one of them in each
behaviour: `MCHousehold`, `MCDaemon`, `MCServices` and `MCParts` choose a `part` at the
start, its actions are the only ones, and the variables of the others stay in their
initial state. It is the same as a run of each module of its own, in fewer runs.
A property of such a module is of the chosen part; of the others it holds of the initial
state.

Several invariants of one module are checked as one named conjunction
(`RegistryAgrees`, `EventsHaveOneFate`, ...). The conjuncts have names and comments
of their own in the module, and each was seen to fail, alone, for a definition
mutated the way a plausible mistake in the code would. Those definitions stand before
the ones they replace (`RoomForOneMore` before `Rooms`); `PROJECT.json` names one for
every property of every passing run.

| Run | Instance | Shows |
|---|---|---|
| `lifecycle` | 1 device, 2 access points, `MaxSilence` 2, `MaxLag` 1, 2 stops, 1 failed write | only what a fault hit is out of step (`FaultsAreContained`), no device is announced twice (`AnnouncedOnce`), silence for good ends as `offline` in the row (`SilenceIsRecorded`) |
| `ledger` | 2 devices with different timeouts, no access points, no faults, 1 shutdown | the lifecycle implements `PresenceLedger` |
| `household` | PeopleRegistry: 2 devices, 2 people, one device configured, 2 edits, 2 stops, 1 failure. Whereabouts: 2 devices, 3 access points of which 2 are one location, times to 4, lag 1, 1 restart | the view follows the table, home the devices heard of, rows the registry except where a fault hit (`RegistryAgrees`); arrivals and departures alternate and the first reconcile keeps owners (`HouseholdIsSteady`); a person is where an online device of theirs is, and registry and table agree on places and activity (`WhereaboutsAgree`); crossings alternate and evidence is fresh (`CrossingsMeanSomething`) |
| `daemon` | Intake: 2 hosts, 1 kind, 1 address, 2 keys remembered, 4 frames, 2 seconds, 1 failure. RunLoop: 2 threads, room for 2. Notifications: 2 devices, 3 events of any kind, a bus of 2, debounce 2, window 1, threshold 2, day of 2 moments with 1 quiet, 1 failure | from channel to bus everything is counted once, remembered as long as promised and stored before it is told (`IntakeKeepsAccount`); a signal ends the loop whatever else is ready (`SignalEndsTheLoop`), and the stop completes if the channel has room for the threads' sends, with everything flushed (`StopIsClean`); every event has one fate, held iff the window is open, marked only if sent, security alone (`EventsHaveOneFate`) and not rate-limited, and what is held goes in the end (`HeldEventsGo`) |
| `services` | ControllerPoll: 1 client, 2 access points, both ways to log in, both shapes. SchemaStartup: 2 starters, 1 reader, 1 lost connection, 2 tables of the plugin; an empty, an older and an altered database | one refused login per poll (`OneRefusalPerPoll`); a controller that works again is found again (`Recovers`); who is up or reads has the whole schema, the plugin's tables stand, raw errors are left to races and upgrades (`StartIsGuarded`); the advice of a refusal leads to a daemon that is up or names a divergence (`AdviceHelps`) |
| `parts` | Gateway: 3 MACs, 3 addresses, quorum 3, 2 candidates, nothing configured. RateGuards: 3 senders, one a router and one exempt, 3 targets, windows of 2 and 1, moments to 4, frames 2 late, one analyzer at a time. Classification: 8 frames of 7 kinds of evidence, 3 frames and 3 turns. Messages: 6 octets of 5 values, 2 pointers, 2 labels. Claims: 4 of 8 records, 1 question. Leases: 3 of 6 options, 4 octets lost. Voices: a router and a host of two workgroups, 2 options looked at, 2 frames. Maintenance: 1 device, 1 location, days of 2 ticks, times to 6, 2 rows, 1 mishap. Configuration: 2 commands, 2 directories, 7 files, 3 environments, 3 sets of flags | what the tracker believes hangs together (`BeliefsHangTogether`) and a known MAC gives way only to better evidence (`KnownMacStands`); what deserves an alert has one, alerts are deserved, none follows too soon (`AlertsAreSound`); strongest and latest evidence decides (`EvidenceDecides`), changes are heard and not restored (`AlarmsAreHeard`); names and records are read in step and short captures yield heads (`ReaderKeepsItsPlace`); claims reach only addresses the message proves, in any order, and a station is credited with what it says of itself and nothing else (`NobodySpeaksForAnother`); options are read as written and servers name nobody (`LeasesStand`); nights lose nothing and come once a day (`NightsAreSafe`); accepted settings are usable, their origin said, conversions inverse (`SettingsAreSound`) |
| `addresses` | 2 MACs, 2 addresses, tables that remember 1, times to 3, one exempt device, gateway address configured | nobody is accused for proxy ARP, a shared address is reported, one alert per cooldown |
| `names` | 2 devices, 2 addresses, 3 names (two of one rank, one weaker), settle window 2, 1 restart, symmetry of addresses | a name follows from its evidence and belongs to its machine (`NamesAreEarned`); rivals of one rank do not flap, a restart keeps the rank (`NamesLast`) |

Four runs end in a violation on purpose; see
[below](#where-the-code-and-its-words-disagree).

### Why the bounds are enough

- **lifecycle.** Devices do not read each other's state, except through the
  persister's list, and that stops at a failed statement whoever owns it. The
  cross-device case (a failure in one device's effects takes another's along) needs
  two devices and is covered by the theorem `Containment`, for any number of them.
  Two access points make a move and a move back. Two stops and one failure give a
  crash after a failure, a failure after a crash and a crash of a restored process.
- **ledger.** Fault-free, one shutdown; two devices because one type's timeouts
  coincide, so that a sweep skips idle.
- **household.** Two people and two devices are enough for a device to change hands
  while the other keeps its owner home; two edits fit between the two reads of one
  reconcile, or before and after it. The evidence window is 1 and the offline timeout
  2, so four moments hold an edge, a departure, a return and a second crossing. Two
  access points of one location tell a move between places from a move between
  locations.
- **daemon.** Four frames of two hosts in two seconds are four keys, two more than
  are remembered, and a repetition of one that was evicted. With two threads and room
  for two the channel is full with one or both in `blocking_send`. Three events
  overflow a bus of two, and reach a batch threshold of two with one left over. The
  clock goes round, so quiet hours begin and end again.
- **services.** Nothing bounds the controller's troubles, except that it becomes
  the other shape once. Two starters meet at every pair of steps; two tables of the
  plugin are one before the daemon's first start and one on its way up.
- **parts.** The quorum of 3 is the code's `INFERENCE_QUORUM`; other caps are smaller
  than the code's so that they are reached: the scan's window is full one address after
  its threshold, in the cooldown, and drops an entry. Three
  frames of evidence in two kinds, then a restart and a new table; six octets hold
  a name that points into another one, and a record cut short; four records are a
  service, its host, the host's address and somebody else's; three options and an
  overload fill all three blocks; one frame per kind shows what its parser does, a second
  that it adds to the first. Six ticks are three days with two nights.
- **addresses.** The clock goes past both cooldowns; the theorems hold for every
  value.
- **names.** A rival needs a name of the same rank, a promotion one of another, an
  address that changes hands two devices.

## Fairness and deadlock

`DeviceLifecycle.FairSpec` assumes that the process is started again (a service
manager restarts it), that a statement that can be made is made or fails, and that
the sweep and flush timers are served *again and again when possible*: strong
fairness, since they are behind the observation arm of a biased select and disabled
while the persister works. It is justified while the channel is found empty again and
again; on a network that never lets it be empty they wait, which RunLoop has too: its
`Takes` serves no timer while an observation is queued, and no property of the
run promises otherwise. Nothing is assumed about packets, answers, crashes or failures,
and the property speaks only of a device that is silent from some time on.

`RunLoopFairness` assumes that each thread, the loop and the notifier are scheduled,
and that some timer goes on ticking; which of them has, is open at every turn.
A poll may take for ever, and a thread in `blocking_send` is owed nothing but its
place when there is room.

`Notifications.Fairness` assumes that the clock goes on, that the notifier's task is
scheduled and that a delivery ends, which the HTTP client's timeout provides. The
closing of the window is strongly fair because the bus has the same `select!`.

`ControllerFairness` assumes that requests end (`REQUEST_TIMEOUT`) and the interval
comes round; the controller owes nothing. `SchemaFairness` assumes a supervisor that
starts an ended daemon again and, strongly, an operator who follows the advice when it
is given again and again.

The invariants of the other modules need no fairness and are checked without it.

Deadlock is checked in `lifecycle`, `ledger`, `addresses` and `names`. In the others the
clocks, frames or messages of a part end at its bound, a loop that has returned does
nothing more, and the notifier has ended when all events are published.

## Proofs

Eight proof modules, for every value of the constants that satisfies the named
assumptions of the module (`ASSUME`). Where a run composes modules that share nothing,
the theorems are about each module's own specification, and `HouseholdTypes`,
`DaemonTypes` and `ServicesTypes` about the composition.

**DeviceLifecycleProofs.** `TypeCorrect`, `Containment` (the invariant
`FaultsAreContained`) and `Announcement` (`AnnouncedOnce`), for any devices, timeouts
and numbers of crashes and failures. None is inductive alone. `IInv` adds:
`BatchFits`, what is still to be written of a device is a tail of one of the four
batches and leads to the state the table is in; `NothingBeforeTheRow`, nothing is
in a table whose parent row was never inserted unless an insert is pending; `AtMostOnce`,
no second open session or announcement; and `SavedFollows`, while the process is
down, what a restart will believe is what the tables say, unless torn. Each action is
a lemma; `Frame` says that a device whose variables do not change keeps its part of
the invariant, so that a lemma reasons about one device. Containment follows from
`IInv` at the facets with nothing pending. `LedgerIsKept` is the refinement of
`PresenceLedger` when nothing fails (`NoFaults`): initial states map to initial
states and every step to a step or a stutter, so the safety part of
`KeepsTheLedger` holds for any devices. What is needed is that what remains to be written
is the rest of one batch and the tables tell its story so far (`LedgerInv`).

**AddressGuardsProofs.** Of the tracker, `GatewayTypeCorrect`, `TrustIsEarned` (`MacSpokeForTheAddress`),
`RankOfTheMac` (`MacRestsOnTheAddress`), `ElectionsAreHeld` (`CountIsOpen`), the three
of them together as `BeliefsHold` (`BeliefsHangTogether`), `OperatorDecides`
(`ConfigurationStands`) and the action property `NoTakeover` (`KnownMacStands`). The
parts of `observe` are functions of a tracker, so the invariant is a predicate on a
tracker, `Sound(g)`, and each part has a lemma that it keeps it; a step is their
composition. Two relations carry the action property: a part either keeps the address
and what is known of its MAC or adopts another address and drops the MAC, and a MAC
is replaced only by one that ranks higher.

Of the chain, `GuardsKeepTheTracker` is a refinement: the chain with its
alerts implements `GatewaySpec`, whence the tracker's theorems hold in it
(`OperatorDecidesInTheChain`). `GuardsTypeCorrect`, `NobodyIsBlamed` and the action
property `AlertsAreSpaced` follow from `GuardInv`: tables are bounded
(`RoomIsMade` proves that eviction leaves room, by cardinality), an entry names
a device that did use the address (`NamesAUser`), and the alert it remembers is the
latest one raised while it was remembered (`RemembersTheAlert`). `SharingIsReported`
(`SharedAddressIsReported`) adds what a table has forgotten: it is older than all
the table keeps, so that as many addresses have been heard since as there is
room for, by counting. It is for a positive cooldown.

**HouseholdProofs.** `RegistryIsSafe` (types and `RegistryAgrees`: the views follow the
table, a person is home iff a device of theirs is, the rows follow the registry) and
the action property `RegistryIsSteady` (`HouseholdIsSteady`). The heart of the invariant
is `HomeFollowsViews`: whatever the registry has missed, a person is home iff it
believes a device of theirs online. It is inductive with `OneHandler` (nothing is
in the hands of a handler that is not running), `RowsStay` and `RowsAreKnown` (rows
appear and never go, and who has none is known to be out of step), `LogFollowsHome`
(the last event about a person, but for the one still to be recorded, is about where
they are), `RowsAwaitTheStart` (what a stopped daemon leaves is what the next
start will conclude) and `FreshOwners` (what the first reconcile has read).

`PlacesAreSafe` holds however late packets are. `WhereaboutsAreSafe` (`WhereaboutsAgree`)
and the action property `CrossingsAreSound` are stated under `PacketsArriveInTime`: no
packet is handled more than an offline timeout after it was sent. That is an assumption on
the environment; of an older packet the two copies of the last activity may differ.
The invariant says how long a device has been silent (`SilentFor`) and on which side
of the edge it was seen last (`SideOfTheEdge`). Both modules need finitely many devices
(`HouseholdAssumption`, `CarriedAssumption`).

**DaemonProofs.** Of notifications, `EventsAreKept` for any settings: types, each event in
one place only (`OneFate`), a window exactly when something is held, and the column
marked only of what was sent. The invariant partitions the published events into bus,
pending batch, deliveries and fates (`EachInOnePlace`), with no event twice in a
sequence (`Distinct`) nor in two deliveries (`BatchesApart`). `EventsHaveTheirFate`
(`EventsHaveOneFate`) needs `batch_bypass` to be on, for what bypasses the batch is then
never pending, and `SecurityGoesAtOnce` (`SecurityIsNotRateLimited`) the three bypasses of
security events: without them the settings say otherwise. Of the loop, `LoopIsSafe`:
types, the bound of the channel and `StopLeavesNothing`. Of one observation,
`IntakeIsSafe`: types and `IntakeKeepsAccount`. Its invariant reads the bounded set of
recent keys as the latest admissions (`DedupInv`), ties the ids in memory to the rows
(`StoreInv`), and says whose names an answer of reverse DNS may be (`LookupInv`).

**ServicesProofs.** `ControllerIsSafe` (types and `OneRefusalPerPoll`): a request that is
refused ends the poll on every path, through one renewal of the session at most
(`RefusalEndsThePoll`). `SchemaIsSafe` (types and `StartIsGuarded`): `HistoryIsTrue` ties the list of applied versions to the tables,
`StarterIsRight` what a start has gone past to what it found, `AloneIsRight` says what one
that met nobody still knows, `ReaderIsRight` what a command that reads has seen.

**IdentityProofs.** `IdentityTypes`, `NamesEarned` (`NamesAreEarned`) and the action
property `NamesLasting` (`NamesLast`), for any machines, addresses, names, ranks and
settle window. The invariant is of three parts. `EvidenceInv`: evidence is sorted,
the rank of the name shown is that of the name resolved, a rival has
not waited longer than the shown name has gone without winning, and the database has what a restart needs.
`NetworkInv`: no two machines have one address. `ListeningInv`: until a restart the
index knows where every machine is, and every name is with its owner. The lists are
arranged by counting (`ArrangedInOrder`: it is a permutation), and a batch of
signals is a recursive function whose value the provers find by a least counterexample
(`AdditionsUnfold`); that names last is a relation between two entries that composes
along it (`Lasts`). `NoneIsNoEntry` is all that is assumed of the constants.

**PartsProofs.** Of the configuration, `SettingsTypes` and `SettingsHold`
(`SettingsAreSound`), for any layers, units, directories, commands and edits. The
invariant (`SettingsInv`) is that a command that runs works with what was merged and
checked when it started, whatever was edited since. `WellFormed` layers are assumed
(`LayersAssumption`), which the deserialiser sees to, and of the constants that
a second is a unit and no unit exceeds the width (`ConfigurationAssumption`).

Of the rate analyzers, `RateTypesHold` and `AlertsSound` (`AlertsAreSound`), for any
windows, thresholds, capacities, cooldowns and delays. The invariant (`RateInv`) says
that an entry of a scan window is the last time its address was asked for
(`Faithful`), that an address asked for of late is in the window (`Complete`), that the
announcements told of each recent time are in the flood window (`Heeded`), and that
what an analyzer remembers as its last alert is the last one let through, but for the exempt
(`Remembers`). A late frame only keeps more than a timely one would. What a window
holds is counted: `ThoseInOrder` says that `retain` keeps the chosen entries, each
once and in their order, `PushBackCounts` what a full window loses of each time.

Of the nights, `MaintenanceTypes` and `NightsSafe` (`NightsAreSafe`), for any devices,
locations, schedule, retentions and number of failures. The invariant (`NightInv`) says
that the history and the ledger, which no night touches, tell the same of every day
(`Agrees`), that a device, a place and a start are the key of a row and every row of the
history has the key of one of the ledger's, and that the cutoffs a night began with are
no later than those of now (`CutoffsHeld`). The key is why a summary, which has the key
of one of the rows it replaces, can fall together with no row that stays. What a day is
told to be depends on a part of its rows only through what is told of that part
(`ToldTogether`): so a group may give way to its summary (`SummaryTells`), and what is
opened, counted on and closed afterwards is told of both. The sum of the observations
of a set of rows is the number of pairs of a row and one of its observations, which
the library's facts on cardinality reach and a fold does not.

`PartsTypes` (`PartsTypesHold`) is the types of the five parts with state of their own,
where they are checked side by side.

**EvidenceProofs.** Of the mDNS claims, `ClaimsHold` (`ClaimsStand`), for any records and
questions in any number. What a record offers is a set (`RecordOffer`), what a message
offers the union over its records, and, of a query, its questions (`AllOffered`).
Each list of the collection keeps every offered value once, for one of the owners it was
offered with (`Keeps`), so `Holds` relates what was collected to what was offered
without the order. An address of a claim then leads back to a record of a host
and the location that names it (`Proves`); and in a message that is `Consistent`, where every
claim has one bearer, an offered value has one owner (`OneOwner`), so any order of
the records makes the same claims (`OrderProvesNothing`). `Consistent` asks
that only instances have locations and texts: a text of a service's own name is
its sender's, which one bearer would not tell. All that is assumed of records is that
they have a name and a list of models (`ClaimsAssumption`).

Of the three parsers of what stations say, `VoicesHold` (`VoicesAreTheirOwn`), for
any stations, routers, workgroups and bounds. A frame is `Fair` when what is read from it is
about its sender and the sender's own, and is all that the sender told of itself unless a
bridge has hidden who sent it. `FramesAreFair` says so of every frame, one lemma per protocol.
The lines of an SSDP message are read one after the other by a recursive function, of which
`LinesUnfold` says that it has a value. `VoicesAssumption` says that stations differ from what
stands for no address and for a rewritten one, and that nothing a station says is what
stands for nothing.

`CreditIsDue` (`NobodySpeaksForAnother`) is of both at once.

Of Classification, `ClassTypes`, `EvidenceHolds` (`EvidenceDecides`) and `AlarmsHold`
(`AlarmsAreHeard`), for any evidence, vocabulary, tables of any size and number of
restarts. The invariant (`ClassIInv`) says that the daemon's list and the database's rows
hold the same signals, each once (`ListsMatch`), and that of two signals the one that leads
was confirmed no earlier (`LatestFirst`), which is why the first candidate of a list is
the latest of the strongest kind among the rows (`FirstIsLatest`). A frame keeps
both: what it carries leads and is confirmed now, the rest keeps its order (`RecordOrder`,
`StoreRows`); and a restart keeps both, for the query's order is by the same times
(`LoadedMatches`). It does not keep the order of two signals confirmed at one time, and so
`AlarmsAreHeard` excepts them: where no two of a kind are, a verdict that is drawn
anew from what was held before says what it said (`OldDecides`).

That a fingerprint speaks for the nearest class rests on what the similarity is. The
two recursions of the table have values (`RowUnfolds`, `RowsUnfold`: the steps a
recursion takes exist up to any number, or a least number would have none). A cell holds
the most positions of one beginning that can be laid in order onto the other
(`MostLaid`): equal last options are laid onto each other (`EqualLaid`), of different ones one
is left out (`OtherLaid`), and no least cell can break this (`RowsHoldMost`). So `Common` is the
reference definition (`CommonIsLongest`), and an equal list is as near as a list can
be (`FirstIsNearest`). `ClassificationAssumption` says that the tables are nonempty lists of
lists of octets, that a fingerprint is one, and that one address has one vendor.

Of Leases, `LeasesHold` (`LeasesStand`), for any options, in any number, cut anywhere into
two or three blocks, and for a capture that loses any part of the end. Two things are
apart. A walk reads a beginning of the options: of a block that begins with them, as far as
it goes (`Framed`), each turn of the loop leads from the end of one option to the end of
the next or stays for good (`ReadOn`), so that after as many turns as there are octets it has
read a number of the options, and of a block that is whole all (`WalkReads`). What that leads
to is a parameter: sets of what may have been read after each option, of which an option
leads from one to the next (`LeadsOn`). And what may be known after the options of a set `J`
is, of every field, the first usable value among them (`Knows`), which one more option that
follows them keeps (`AbsorbKnows`). The blocks are read one after the other only if they
were announced, which `AnnouncedIs` relates to where the options were cut. The
invariant (`LeasesInv`) is where that was and that no more was lost than there was.
`LeasesAssumption` says that an option is an octet and octets whose number is an octet, that
a usable value is not what stands for none, and that the three codes of the framing are
none of those that are read.

Of Messages, `MessagesHold` (`ReaderKeepsItsPlace`), for a message of any octets, any
length and any limits. Reading a name is a list of turns (`NameUnfolds`), of which each is a
label, a pointer, the end, or nothing that can be read (`TurnIs`). While a name is being read
it has as many labels and pointers as turns (`TurnCounts`), so that it is not being read any
more after `Turns` of them, however its pointers run (`WalkCounts`). Up to its first pointer
or its end its labels follow each other (`OwnLabels`), and those are the places the property
speaks of, for no other set is closed in its way (`LabelsLie`). From the pointer on every
turn is a turn of the pointed name, with more labels before and one pointer more, and with
its end fixed (`TurnFollows`, `PointerFollowed`). With one octet more, a turn that led to
something leads to the same (`TurnLonger`), so a name that was read is read alike
(`NameLonger`), and so is each question, record and string, up to where the shorter message
stopped (`QuestionsLonger`, `RecordsLonger`, `StringsLonger`). The invariant is only that what
is captured is octets (`MessagesTypes`). `MessagesAssumption` says what the constants are:
octets are octets, sizes and limits numbers, and `Unread` nothing that can be read.

**Only model-checked.** Liveness (`SilenceIsRecorded`, `HeldEventsGo`,
`SignalEndsTheLoop`, `StopIsClean`, `Recovers`, `AdviceHelps`, and the part of
`KeepsTheLedger` that is the fairness of `PresenceLedger`), for the prover does not
handle `ENABLED`. Every other property that a run finds to hold is a theorem.

## Where the code and its words disagree

Each of the first four is a run that ends in a counterexample.

1. `lifecycle_statechange`. `src/src/daemon.rs:11` says a crash loses "never a state
   change", but `ng_devices.state` is written at a flush: a device recorded as gone
   is online again after a crash.
2. `people_everydevice`. `src/README.md:421` says a person is home when any device
   they own is online. A registry without anybody to track drops transitions
   (`src/src/daemon.rs:486`), and seeds a view only when an owner changes: a device
   online since before its owner was mirrored does not count until it returns.
3. `names_index`. `src/src/device/mod.rs:547` says the index tells which device last
   held an address. `restore` inserts rows most recently seen first, so the least
   recent of two holders stays in it.
4. `loop_return`. `src/src/daemon.rs:103` says `run` returns when shutdown is signalled.
   It joins the capture threads (`:422`) while it holds the receiver it no longer
   reads. A thread in `blocking_send` on a full channel never comes back to the flag,
   and the comment at `src/src/capture/mod.rs:221` expects a receiver that is gone.
   `StopCompletes` says what does hold.

Seen while modelling, and either part of what the models allow or outside them.

Device table, names and people:

- A crash between the two statements of a move leaves a device with no open stay,
  "which the next enrichment poll fixes" (`src/src/db/queries.rs:757`); it does not
  when the device is back at the access point of the row, for a repeat has no
  effects (`src/src/device/mod.rs:1184`). `FaultsAreContained` allows it as a torn
  `location`.
- A late answer gives an offline device an access point (`src/src/device/mod.rs:214`
  against `:1173`).
- A device restored as offline whose session is open (crash after the flush and before
  the close) is never swept, so its session stays open, although "a restored open
  session is closed by the first sweep" (`src/README.md:313`). The same of a stay
  (`src/src/device/mod.rs:1336`).
- A person whose last device went offline just before a crash is home in the row
  until a device moves (`src/src/people/mod.rs:69`).
- The first reconcile moves a device from its configured owner to the row's owner,
  also when that owner is not mirrored (`src/src/people/mod.rs:363` against `:791`);
  `FirstReconcileKeepsOwners` states what does hold.
- `src/src/people/mod.rs:634` says an unknown location is an enricher that has not
  answered. After a restart the registry has no places, the table has, and the
  answer that repeats the table's is skipped (`src/src/daemon.rs:611`).
- The location of a person is refreshed by moves and departures, not by activity,
  so it need not be that of the device most recently active (`src/README.md:424`).
- The evidence of a departure may come from another device's crossing than the
  one that left last.
- `add_signal` does not refresh a pending rival as `observe` does
  (`src/src/device/mod.rs:1118` against `:443`).

Classification and parsers:

- "Strongest evidence first" (`src/src/identity/classify.rs:289`): a fingerprint, of
  confidence 0.68, comes before text, of 0.7. "An exact match always wins"
  (`src/src/identity/fingerprint.rs:35`) within one request list only: of two lists the
  latest speaks, however it matched.
- The order of `MDNS_SERVICES` decides nothing between two services: the one
  heard later speaks. Two signals of a kind from one frame may come back from the
  database the other way round, which `AlarmsAreHeard` excepts.
- The downloaded fingerprint table is written over the old one in place
  (`src/src/cli/mod.rs:593`): a crash leaves half of it, which the daemon refuses
  for the one it was built with.
- A first owner of a repeated value keeps it (`src/src/capture/mdns.rs:369`), so what a
  message that contradicts itself claims depends on its order; and a query for another
  host's name names the asker after it (`src/src/capture/mdns.rs:199`).
- A capture that loses the overload option loses what was spilled into the fixed
  fields with it, although those were captured (`src/src/capture/dhcp.rs:171`).
- A NetBIOS name is read from its suffix alone: a workgroup that a machine registers
  with the suffix of a workstation, as a group name, becomes the machine's own
  (`src/src/capture/nbns.rs:105`); a datagram to another domain's browser puts the
  sender into that domain (`:232`); and a response counts as the "positive query
  response" of `:186` whatever its code. A friendly name in the clear that is
  also base64 is decoded (`src/src/capture/ssdp.rs:175`). `Voices` has stations that send
  none of these.

Analyzers:

- An inferred gateway address is replaced by any other that the quorum asks for
  (`src/src/analyze/gateway.rs:302`).
- The alerts about exempt devices are dropped after the analyzers have started
  their cooldown (`src/src/analyze/mod.rs:272`).
- A full window drops its first entry, which need not be its oldest: a scan window keeps
  the place of an address that is asked for again (`src/src/analyze/window.rs:160`), a
  flood window that of a late frame. The comment there says the oldest is dropped,
  and `src/src/analyze/gratuitous_arp.rs:27` that any capacity above the threshold works; a
  scan or a flood that fills the window during the cooldown can lose recent entries and be
  missed after it. `AlarmsAreRaised` does not count what was pushed out. Late
  frames can miss their own alarm (`src/src/analyze/mod.rs:283`): it is stated of timely
  ones.

Notifications, loop and enrichment:

- With `batch_threshold = 0` a first event still waits for the window
  (`src/README.md:687`); the debounce starts when an event is accepted, not when it
  is delivered (`src/src/config.rs:511`); quiet hours are a period "during which
  notifications are held" (`src/src/config.rs:540`) and what arrives in them is
  dropped, while what was held before may be delivered in them. Their local offset
  is sampled once (`src/src/notify/mod.rs:195`).
- When every capture source has ended, `run` waits for a notifier nobody tells to stop
  (`src/src/daemon.rs:431`), although a source that fails to start is to be an error
  of `run` (`:108`).
- Of two frames of a kind from one device within a second the second is dropped with
  what only it carries (`src/src/capture/dedup.rs:82`), though its header says that
  neither adds information (`:5`).
- `reverse_dns_ttl` (`src/src/config.rs:459`) has no effect while the set of addresses
  already asked is never cleared (`src/src/daemon.rs:288`).
- `prefix` of a UniFi session is never cleared (`src/src/enrich/unifi.rs:79`): a
  controller that becomes the other shape may not be found again, which `Recovers`
  excepts. A poll without the inventory renames every access point to its MAC
  (`src/src/enrich/unifi.rs:288`), a move for the table, though a failure is not
  to clear anything and the last known values are kept (`src/src/enrich/mod.rs:262`).

Maintenance, schema and configuration:

- A session open past the cutoff is rolled up into a second summary of its day;
  `src/src/maintenance/mod.rs:10` says one. `NightsLoseNothing` is stated of their union.
- An upgrade whose new table the plugin has created ends in the raw error the guard is
  there to prevent (`src/src/db/schema.rs:366`), again and again; so does a race
  between the guard's look and the migration, once. `RawErrorsAreMeetings` and
  `AdviceHelps` except them.
- The overrides of routers and printers have one effective timeout, so they are never
  idle (`src/src/config.rs:417`); a duration of more than 2^64 seconds wraps in a
  release build; an unknown `NETGRASP_` variable refuses every command; a huge
  `rollup_after_days` panics in the subtraction; and the provenance log prints the
  path as it was given, relative to a directory it does not name.

## What is not modelled

- **Framing.** Ethernet, IP, UDP and ARP are fixed layouts, as are the offsets of the
  protocols on top of them; what they yield is the input of the modules. `names.rs` decides which strings are names: a
  member of a small set.
- **Data.** The vendor table, the patterns of text and the services of classification
  are constants; ntfy's headers and HTTP's are left out, a request has one outcome.
- **State abstractions.** Classification keeps a device's verdict with its signals and
  leaves out letter case, as Claims does. Messages shortens the
  fixed fields. Configuration keeps the keys a check, a conversion or an override
  reads.
- **Of the device table:** address history, the learning window, ignored devices and the
  user's columns; of Identity the signal cap, name normalisation and ignore rules.
- **Commands and files.** What commands print, the status file, the terminal's table,
  process start-up.
- **The pool.** A statement is made or fails.
- **Time going back.** The clock of a machine that is set back is not modelled;
  packets that are late are.

## Plan

The order is by what the daemon is for: presence first, then people, then what is
told, then who is accused, then the rest of the machinery. All modules of the
first plan exist. What is left to model, most important first:

1. The learning window and ignored devices in DeviceLifecycle, which suppress effects
   of the batches there; address history next to them.
2. The signal cap and the ignore rules in Identity.
