----------------------------- MODULE RateGuards -----------------------------
(***************************************************************************)
(* The four analyzers that hold a window or a reference: arp_scan (how     *)
(* many addresses one sender asks for), gratuitous_arp (how often one      *)
(* announces itself), rogue_dhcp (a second DHCP server) and                *)
(* identity_change (a device that becomes another kind of device), with    *)
(* the sliding windows of window.rs and the cooldown and the exemption of  *)
(* the chain.  A frame may be late: its time is then before that of a      *)
(* frame already processed, and the gaps the analyzers compute are         *)
(* negative.                                                               *)
(***************************************************************************)
EXTENDS Lists, SequencesExt, FiniteSetsExt

CONSTANTS
  Senders,           \* MAC addresses
  Routers,           \* those context.gateway.is_gateway holds of
  ExemptSenders,     \* security.exempt
  Configurations,    \* which analyzers the configurations enable
  Targets,           \* the addresses asked for
  ScanWindow, ScanThreshold, RouterThreshold, ScanCapacity,
  FloodWindow, FloodThreshold, FloodCapacity,
  KnownServers,      \* security.rogue_dhcp.known_servers
  RogueCooldown, MaxRogues,
  Classes,           \* classifications
  AnyChange,         \* security.identity_change.sensitivity is "any"
  ChangeCooldown, MaxChanged,
  MaxSenders,        \* security.max_tracked
  MaxClock, MaxLate  \* bounds: the clock, and how late a frame may be

Guards == {"arp_scan", "gratuitous_arp", "rogue_dhcp", "identity_change"}

\* The thresholds stay below the capacities: Config::validate does not see to it.
ASSUME RateAssumption ==
  /\ IsFiniteSet(Senders) /\ IsFiniteSet(Targets) /\ Routers \subseteq Senders
  /\ KnownServers \subseteq Senders /\ ExemptSenders \subseteq Senders
  /\ Configurations \subseteq SUBSET Guards
  /\ {ScanWindow, ScanThreshold, RouterThreshold, ScanCapacity, FloodWindow,
      FloodThreshold, FloodCapacity, RogueCooldown, ChangeCooldown, MaxRogues,
      MaxChanged, MaxSenders}
       \subseteq Nat \ {0}
  /\ {MaxClock, MaxLate} \subseteq Nat
  /\ AnyChange \in BOOLEAN

NeverYet == 0 - 1
Uncategorised == "unclassified"
Times == 0 .. MaxClock

VARIABLES
  enabled,   \* the analyzers the chain was built with
  clock,
  scanners,  \* ArpScan.tracked: window, last alert and recency of each sender
  flooders,  \* GratuitousArp.tracked
  learned,   \* RogueDhcp.learned, as a set of at most one
  rogues,    \* RogueDhcp.alerted
  changed,   \* IdentityChange.alerted
  category,     \* the classification of each device
  stimulus,  \* what was processed last
  asked,     \* history: when a sender last asked for an address, since its
             \* window was last forgotten, but for what a full window pushed out
  announced, \* history: how often a sender announced itself at each time, up
             \* to the capacity, likewise
  raised     \* history: the last alert of each kind about a sender that the
             \* chain let through, while its analyzer remembers one

rateVars == <<enabled, clock, scanners, flooders, learned, rogues, changed,
              category, stimulus, asked, announced, raised>>

Untracked == [seen |-> <<>>, last |-> NeverYet, touched |-> NeverYet]
NoStimulus == [kind |-> "none", mac |-> "", at |-> NeverYet, from |-> Uncategorised]

Stamped(value) == [value : value, at : Times]

RateTypeOK ==
  /\ enabled \in Configurations /\ clock \in Times
  /\ \A m \in Senders :
       /\ Len(scanners[m].seen) =< ScanCapacity
       /\ Len(flooders[m].seen) =< FloodCapacity
       /\ ToSet(scanners[m].seen) \subseteq Stamped(Targets)
       /\ IsInjective([i \in DOMAIN scanners[m].seen |-> scanners[m].seen[i].value])
  /\ \A map \in {scanners, flooders} :
       Cardinality({m \in Senders : map[m].touched # NeverYet}) =< MaxSenders
  /\ Cardinality(learned) =< 1
  /\ Len(rogues) =< MaxRogues /\ Len(changed) =< MaxChanged
  /\ category \in [Senders -> Classes \cup {Uncategorised}]

RateInit ==
  /\ enabled \in Configurations /\ clock = 0
  /\ scanners = [m \in Senders |-> Untracked]
  /\ flooders = [m \in Senders |-> Untracked]
  /\ learned = {} /\ rogues = <<>> /\ changed = <<>>
  /\ category = [m \in Senders |-> Uncategorised]
  /\ stimulus = NoStimulus
  /\ asked = [m \in Senders |-> [t \in Targets |-> NeverYet]]
  /\ announced = [m \in Senders |-> [t \in Times |-> 0]]
  /\ raised = [guard \in Guards |-> [m \in Senders |-> NeverYet]]
-----------------------------------------------------------------------------
(* window.rs                                                               *)

ValuesOf(seen) == {seen[i].value : i \in DOMAIN seen}

InWindow(seen, at, window) == Those(seen, {i \in DOMAIN seen : at - seen[i].at =< window})

\* A full window drops its first entry, which need not be its oldest.
PushBack(seen, entry, capacity) ==
  Append(IF Len(seen) >= capacity THEN Tail(seen) ELSE seen, entry)

\* Mutant: every request counts, not every address.
RecordEveryRequest(seen, value, at, window, capacity) ==
  PushBack(InWindow(seen, at, window), [value |-> value, at |-> at], capacity)

\* Mutant: an address asked for again keeps the time it was first asked for.
RecordTheFirst(seen, value, at, window, capacity) ==
  LET kept == InWindow(seen, at, window)
  IN IF \E i \in DOMAIN kept : kept[i].value = value THEN kept
     ELSE PushBack(kept, [value |-> value, at |-> at], capacity)

RecordDistinct(seen, value, at, window, capacity) ==
  LET kept == InWindow(seen, at, window)
      same == {i \in DOMAIN kept : kept[i].value = value}
  IN IF same = {} THEN PushBack(kept, [value |-> value, at |-> at], capacity)
     ELSE [kept EXCEPT ![Min(same)].at = at]

RecordEvent(seen, at, window, capacity) ==
  PushBack(InWindow(seen, at, window), [value |-> "event", at |-> at], capacity)

\* BoundedMap.entry_or_insert_with: a new key takes the place of the one
\* touched least recently, of several of them any.
RoomFor(map, m) ==
  LET tracked == {o \in Senders : map[o].touched # NeverYet}
      oldest == {o \in tracked : \A p \in tracked : map[o].touched =< map[p].touched}
  IN IF m \in tracked \/ Cardinality(tracked) < MaxSenders THEN {map}
     ELSE {[map EXCEPT ![o] = Untracked] : o \in oldest}

Evicted(map, room) == {m \in Senders : map[m].touched # NeverYet /\ room[m].touched = NeverYet}
-----------------------------------------------------------------------------
(* mod.rs: the cooldown, and the exemption of the chain                    *)

\* Mutant: the gap without its sign.
CooledEitherWay(last, at, cooldown) ==
  last = NeverYet \/ at - last >= cooldown \/ last - at >= cooldown

\* A negative gap never counts as cooled down.
Cooled(last, at, cooldown) == last = NeverYet \/ (at >= last /\ at - last >= cooldown)

Raise(guard, m, at, forgotten) ==
  raised' = [raised EXCEPT ![guard] =
    [o \in Senders |-> IF o = m /\ m \notin ExemptSenders THEN at
                       ELSE IF o \in forgotten THEN NeverYet ELSE @[o]]]

KeepRaised(guard, forgotten) ==
  raised' = [raised EXCEPT ![guard] =
    [o \in Senders |-> IF o \in forgotten THEN NeverYet ELSE @[o]]]

Processing(kind, m, at) ==
  stimulus' = [kind |-> kind, mac |-> m, at |-> at, from |-> category[m]]
-----------------------------------------------------------------------------
(* arp_scan                                                                *)

ThresholdOf(m) ==
  IF m \in Routers THEN Max({RouterThreshold, ScanThreshold}) ELSE ScanThreshold

\* An ordinary request, for a unicast address.
Request(m, target, at) ==
  /\ "arp_scan" \in enabled
  /\ Processing("arp_scan", m, at)
  /\ \E room \in RoomFor(scanners, m) :
       LET kept == InWindow(room[m].seen, at, ScanWindow)
           seen == RecordDistinct(room[m].seen, target, at, ScanWindow, ScanCapacity)
           pushedOut == ValuesOf(kept) \ ValuesOf(seen)
           alert == Len(seen) >= ThresholdOf(m) /\ Cooled(room[m].last, at, ScanWindow)
           gone == Evicted(scanners, room)
       IN /\ scanners' = [room EXCEPT ![m] =
               [seen |-> IF alert THEN <<>> ELSE seen,
                last |-> IF alert THEN at ELSE room[m].last,
                touched |-> at]]
          /\ asked' = [o \in Senders |-> [t \in Targets |->
               IF o \in gone \/ (o = m /\ (alert \/ t \in pushedOut)) THEN NeverYet
               ELSE IF o = m /\ t = target THEN at ELSE asked[o][t]]]
          /\ IF alert THEN Raise("arp_scan", m, at, gone) ELSE KeepRaised("arp_scan", gone)
  /\ UNCHANGED <<enabled, clock, flooders, learned, rogues, changed, category, announced>>
-----------------------------------------------------------------------------
(* gratuitous_arp                                                          *)

AnnounceOneself(m, at) ==
  /\ "gratuitous_arp" \in enabled
  /\ Processing("gratuitous_arp", m, at)
  /\ \E room \in RoomFor(flooders, m) :
       LET kept == InWindow(room[m].seen, at, FloodWindow)
           seen == RecordEvent(room[m].seen, at, FloodWindow, FloodCapacity)
           told == IF Len(kept) < FloodCapacity THEN announced[m]
                   ELSE [announced[m] EXCEPT ![kept[1].at] = IF @ = 0 THEN 0 ELSE @ - 1]
           alert == Len(seen) >= FloodThreshold /\ Cooled(room[m].last, at, 10 * FloodWindow)
           gone == Evicted(flooders, room)
       IN /\ flooders' = [room EXCEPT ![m] =
               [seen |-> IF alert THEN <<>> ELSE seen,
                last |-> IF alert THEN at ELSE room[m].last,
                touched |-> at]]
          /\ announced' = [o \in Senders |->
               IF o \in gone \/ (o = m /\ alert) THEN [t \in Times |-> 0]
               ELSE IF o = m THEN [told EXCEPT ![at] = IF @ = FloodCapacity THEN @ ELSE @ + 1]
               ELSE announced[o]]
          /\ IF alert THEN Raise("gratuitous_arp", m, at, gone)
             ELSE KeepRaised("gratuitous_arp", gone)
  /\ UNCHANGED <<enabled, clock, scanners, learned, rogues, changed, category, asked>>
-----------------------------------------------------------------------------
(* The lists of alerts of rogue_dhcp and identity_change                   *)

LastIn(list, m) ==
  LET own == {i \in DOMAIN list : list[i].value = m}
  IN IF own = {} THEN NeverYet ELSE list[Min(own)].at

\* Mutant: an entry for each alert, of which the first is the one that is read.
NotedTwice(list, m, at, capacity) == PushBack(list, [value |-> m, at |-> at], capacity)

\* The entry of a device is updated in place; a new one may push out the
\* device that was first reported.
Noted(list, m, at, capacity) ==
  LET own == {i \in DOMAIN list : list[i].value = m}
  IN IF own = {} THEN PushBack(list, [value |-> m, at |-> at], capacity)
     ELSE [list EXCEPT ![Min(own)].at = at]

Dropped(before, after) ==
  {m \in Senders : LastIn(before, m) # NeverYet /\ LastIn(after, m) = NeverYet}
-----------------------------------------------------------------------------
(* rogue_dhcp                                                              *)

IsLegitimate(m) == IF KnownServers = {} THEN m \in learned ELSE m \in KnownServers

LearnsFirst(m) == KnownServers = {} /\ learned = {}

\* An Offer, an Ack or a Nak.
Serve(m, at) ==
  /\ "rogue_dhcp" \in enabled
  /\ Processing("rogue_dhcp", m, at)
  /\ IF ~IsLegitimate(m) /\ LearnsFirst(m)
     THEN learned' = {m} /\ UNCHANGED <<rogues, raised>>
     ELSE /\ UNCHANGED learned
          /\ IF ~IsLegitimate(m) /\ Cooled(LastIn(rogues, m), at, RogueCooldown)
             THEN /\ rogues' = Noted(rogues, m, at, MaxRogues)
                  /\ Raise("rogue_dhcp", m, at, Dropped(rogues, rogues'))
             ELSE UNCHANGED <<rogues, raised>>
  /\ UNCHANGED <<enabled, clock, scanners, flooders, changed, category, asked, announced>>
-----------------------------------------------------------------------------
(* identity_change                                                         *)

IsWorthAnAlert(from) == AnyChange \/ from # Uncategorised

Reclassify(m, kind, at) ==
  /\ "identity_change" \in enabled
  /\ kind # category[m]
  /\ category' = [category EXCEPT ![m] = kind]
  /\ Processing("identity_change", m, at)
  /\ IF IsWorthAnAlert(category[m]) /\ Cooled(LastIn(changed, m), at, ChangeCooldown)
     THEN /\ changed' = Noted(changed, m, at, MaxChanged)
          /\ Raise("identity_change", m, at, Dropped(changed, changed'))
     ELSE UNCHANGED <<changed, raised>>
  /\ UNCHANGED <<enabled, clock, scanners, flooders, learned, rogues, asked, announced>>
-----------------------------------------------------------------------------
\* Time passes between two stimuli.
Pass ==
  /\ clock < MaxClock
  /\ clock' = clock + 1
  /\ stimulus' = NoStimulus
  /\ UNCHANGED <<enabled, scanners, flooders, learned, rogues, changed, category,
                 asked, announced, raised>>

RateNext ==
  \/ \E m \in Senders, at \in {t \in Times : t =< clock /\ clock - t =< MaxLate} :
       \/ \E target \in Targets : Request(m, target, at)
       \/ AnnounceOneself(m, at)
       \/ Serve(m, at)
       \/ \E kind \in Classes : Reclassify(m, kind, at)
  \/ Pass

RateSpec == RateInit /\ [][RateNext]_rateVars
-----------------------------------------------------------------------------
\* A frame that was not late, of a sender nobody exempted.
Heard(kind) ==
  stimulus.kind = kind /\ stimulus.at = clock /\ stimulus.mac \notin ExemptSenders

Recently(guard, m, span) ==
  raised[guard][m] # NeverYet /\ clock - raised[guard][m] < span

RecentTargets(m) == {t \in Targets : asked[m][t] # NeverYet /\ clock - asked[m][t] =< ScanWindow}

RecentAnnouncements(m) ==
  Cardinality({x \in Times \X (1..FloodCapacity) :
                 x[1] =< clock /\ clock - x[1] =< FloodWindow /\ x[2] =< announced[m][x[1]]})

(* What deserves an alert has one, of the last cooldown at the latest: a   *)
(* sender that has asked for as many addresses as the threshold within the *)
(* window, one that has announced itself as often, a server that is not    *)
(* the reference, and a device that was one kind of device and is another; *)
(* however late other frames were.  What a full window has pushed out, and *)
(* who was pushed out of a full table, does not count (arp_scan.rs,        *)
(* gratuitous_arp.rs, rogue_dhcp.rs and identity_change.rs analyze).       *)
AlarmsAreRaised ==
  LET m == stimulus.mac
  IN /\ Heard("arp_scan") =>
          Cardinality(RecentTargets(m)) < ThresholdOf(m) \/ Recently("arp_scan", m, ScanWindow)
     /\ Heard("gratuitous_arp") =>
          \/ RecentAnnouncements(m) < FloodThreshold
          \/ Recently("gratuitous_arp", m, 10 * FloodWindow)
     /\ Heard("rogue_dhcp") => IsLegitimate(m) \/ Recently("rogue_dhcp", m, RogueCooldown)
     /\ Heard("identity_change") =>
          stimulus.from = Uncategorised \/ Recently("identity_change", m, ChangeCooldown)

(* An alert of arp_scan says that the sender has asked for as many         *)
(* different addresses as the threshold, each within a window of the alert *)
(* and since the last one; a request repeated for one address is not a     *)
(* scan (arp_scan.rs analyze, window.rs DistinctWindow).                   *)
ScansAreSweeps ==
  [][\A m \in Senders :
       scanners'[m].last # scanners[m].last /\ scanners'[m].last # NeverYet =>
         LET at == scanners'[m].last
             target == {t \in Targets : asked[m][t] # NeverYet /\ at - asked[m][t] =< ScanWindow}
         IN Cardinality(target) + 1 >= ThresholdOf(m)]_rateVars

(* Two alerts of a kind about one sender are a cooldown apart in the time  *)
(* of their frames, in whatever order the frames came, as long as the      *)
(* analyzer remembers the first (mod.rs cooled_down).                      *)
CooldownOf(guard) ==
  CASE guard = "arp_scan" -> ScanWindow
    [] guard = "gratuitous_arp" -> 10 * FloodWindow
    [] guard = "rogue_dhcp" -> RogueCooldown
    [] OTHER -> ChangeCooldown
HoldsItselfBack ==
  [][\A guard \in Guards, m \in Senders :
       raised[guard][m] # NeverYet /\ raised'[guard][m] # raised[guard][m]
         => \/ raised'[guard][m] = NeverYet
            \/ raised'[guard][m] - raised[guard][m] >= CooldownOf(guard)]_rateVars

(* What deserves an alert has one, every alert is deserved, and none       *)
(* follows too soon: the three together.                                   *)
AlertsAreSound == []AlarmsAreRaised /\ ScansAreSweeps /\ HoldsItselfBack
=============================================================================
