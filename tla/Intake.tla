------------------------------- MODULE Intake -------------------------------
(***************************************************************************)
(* What happens to one observation between the channel and the event bus   *)
(* (daemon.rs run, the arms of the observation and of the reverse lookup): *)
(* it is counted for its source, dropped for the state machine if it       *)
(* repeats one of the same second (capture/dedup.rs), may start a reverse  *)
(* lookup (identity/rdns.rs), becomes effects that are applied in order    *)
(* until one fails (device/persist.rs), and is looked at by the analyzers  *)
(* whether or not it was a repetition.  Only a batch that was applied to   *)
(* the end reaches the bus.                                                *)
(*                                                                         *)
(* What the state machine makes of an observation is in DeviceLifecycle;   *)
(* here it is any of a few batches of statements.  Observations come from  *)
(* several threads, so one may be older than those already processed.      *)
(***************************************************************************)
EXTENDS Integers, SequencesExt, FiniteSetsExt

CONSTANTS
  Hosts,          \* the MAC addresses of the network
  ObsKinds,       \* kinds of observation
  Addresses,      \* IPv4 addresses
  NoAddress,      \* an observation without one
  Retained,       \* capture.dedup_capacity
  Ttl,            \* identity.reverse_dns_ttl, in seconds
  MaxFrames,      \* bound: observations processed
  MaxSeconds,     \* bound: the clock
  MaxFaults       \* bound: batches that fail

ASSUME IntakeAssumption ==
  /\ IsFiniteSet(Hosts) /\ IsFiniteSet(ObsKinds) /\ IsFiniteSet(Addresses)
  /\ NoAddress \notin Addresses
  /\ Retained \in Nat \ {0}
  /\ {Ttl, MaxFrames, MaxSeconds, MaxFaults} \subseteq Nat

VARIABLES
  second,
  seen, order, dropped,  \* ObservationDedup: seen, order, duplicates
  admissions,            \* history: every key that was admitted, in order
  frames,                \* the sum of RunSummary.sources
  admitted,              \* RunSummary.observations
  device,                \* the devices of the manager
  rowId,                 \* Persister.ids: those whose row was inserted
  unborn,                \* history: those whose insert failed
  stored,                \* ng_events, in the order of the inserts
  announced,             \* what was published: positions in stored
  counted, alarms,       \* RunSummary.events, security_events
  asked,                 \* asked_for_rdns
  lookups,               \* the tasks that look an address up
  queries,               \* history: the queries sent to the resolver, per address
  cache,                 \* ReverseResolver.cache: until when an answer holds
  signals,               \* the channel of answers
  faults

dedupVars == <<seen, order, dropped, admissions, frames, admitted>>
storeVars == <<device, rowId, unborn, stored, announced, counted, alarms, faults>>
lookupVars == <<asked, lookups, queries, cache, signals>>
intakeVars == <<second, dedupVars, storeVars, lookupVars>>

Keys == Hosts \X ObsKinds \X Nat

IntakeTypeOK ==
  /\ seen \subseteq Keys /\ Cardinality(seen) =< Retained
  /\ rowId \subseteq device /\ device \subseteq Hosts
  /\ stored \in Seq([about : Hosts, named : BOOLEAN])
  /\ ToSet(announced) \subseteq DOMAIN stored
  /\ lookups \subseteq Hosts \X Addresses /\ asked \subseteq Addresses

IntakeInit ==
  /\ second = 0
  /\ seen = {} /\ order = <<>> /\ dropped = 0 /\ admissions = <<>>
  /\ frames = 0 /\ admitted = 0
  /\ device = {} /\ rowId = {} /\ unborn = {}
  /\ stored = <<>> /\ announced = <<>> /\ counted = 0 /\ alarms = 0
  /\ asked = {} /\ lookups = {} /\ signals = <<>>
  /\ queries = [a \in Addresses |-> 0]
  /\ cache = [a \in Addresses |-> 0]
  /\ faults = 0
-----------------------------------------------------------------------------
(* capture/dedup.rs: the key leaves out the address, the source and the    *)
(* interface.                                                              *)

KeyOf(m, kind, at) == <<m, kind, at>>

\* Mutant: a key that is evicted is forgotten by the queue and not by the set.
RememberInTheQueue(key) ==
  LET longer == Append(order, key)
  IN /\ order' = IF Len(longer) > Retained THEN Tail(longer) ELSE longer
     /\ seen' = seen \cup {key}

Remember(key) ==
  LET longer == Append(order, key)
  IN IF Len(longer) > Retained
     THEN order' = Tail(longer) /\ seen' = (seen \cup {key}) \ {Head(longer)}
     ELSE order' = longer /\ seen' = seen \cup {key}

Drop ==
  /\ dropped' = dropped + 1
  /\ UNCHANGED <<seen, order, admissions, admitted>>

Admit(key) ==
  /\ Remember(key)
  /\ admissions' = Append(admissions, key)
  /\ admitted' = admitted + 1
  /\ UNCHANGED dropped
-----------------------------------------------------------------------------
(* device/persist.rs and daemon.rs apply                                   *)

\* What one observation can come to: a new device is inserted and told, a known
\* one may have come back or moved; addresses and evidence are written last.
Batches(m) ==
  IF m \notin device THEN {<<"insert", "event", "write">>}
  ELSE {<<"write">>, <<"event", "write">>}

EventsOf(batch, m, ids) ==
  LET listed == {n \in DOMAIN batch : batch[n] \in {"event", "alert"}}
  IN [i \in 1 .. Cardinality(listed) |-> [about |-> m, named |-> m \in ids]]

\* Mutant: the rows of a batch of which a statement fails are announced all the same.
AnnounceAnyway(batch, done, first, last) == announced \o [i \in 1 .. last - first |-> first + i]

\* What is recorded is published when the whole batch was applied.
Announce(batch, done, first, last) ==
  IF done = Len(batch) THEN announced \o [i \in 1 .. last - first |-> first + i] ELSE announced

\* Persister.apply: the first "done" statements of the batch succeed.  A
\* connection that cannot be had fails the batch before its first statement.
Apply(m, batch, done) ==
  LET prefix == SubSeq(batch, 1, done)
      ids == IF "insert" \in ToSet(prefix) THEN rowId \cup {m} ELSE rowId
      new == EventsOf(prefix, m, ids)
      complete == done = Len(batch)
  IN /\ done < Len(batch) => faults < MaxFaults
     /\ faults' = IF complete THEN faults ELSE faults + 1
     /\ rowId' = ids
     /\ unborn' = IF "insert" \in ToSet(batch) /\ m \notin ids THEN unborn \cup {m} ELSE unborn
     /\ stored' = stored \o new
     /\ announced' = Announce(batch, done, Len(stored), Len(stored) + Len(new))
     /\ LET count == IF complete THEN Len(new) ELSE 0
        IN IF ToSet(batch) = {"alert"}
           THEN alarms' = alarms + count /\ counted' = counted
           ELSE counted' = counted + count /\ alarms' = alarms
-----------------------------------------------------------------------------
(* daemon.rs run                                                           *)

\* Mutant: asked_for_rdns is not looked at.
AskEveryTime(m, a) == a # NoAddress

AskOnce(m, a) == a # NoAddress /\ a \notin asked

Observed(m, kind, a, at) ==
  /\ frames < MaxFrames
  /\ frames' = frames + 1
  /\ IF KeyOf(m, kind, at) \in seen
     THEN Drop /\ UNCHANGED <<storeVars, lookupVars>>
     ELSE /\ Admit(KeyOf(m, kind, at))
          /\ IF AskOnce(m, a)
             THEN asked' = asked \cup {a} /\ lookups' = lookups \cup {<<m, a>>}
             ELSE UNCHANGED <<asked, lookups>>
          /\ device' = device \cup {m}
          /\ \E batch \in Batches(m) : \E done \in 0 .. Len(batch) : Apply(m, batch, done)
          /\ UNCHANGED <<queries, cache, signals>>
  /\ UNCHANGED second

\* Mutant: the analyzers see the observation before the state machine does.
AlarmFirst(m, kind, at) ==
  /\ Len(stored) < MaxFrames
  /\ \E done \in 0 .. 1 : Apply(m, <<"alert">>, done)
  /\ UNCHANGED <<second, dedupVars, device, lookupVars>>

\* The analyzers see the observation after the state machine, and see it even
\* if it was dropped: any frame of the device can raise an alarm.
Alarm(m, kind, at) ==
  /\ KeyOf(m, kind, at) \in seen
  /\ Len(stored) < MaxFrames
  /\ \E done \in 0 .. 1 : Apply(m, <<"alert">>, done)
  /\ UNCHANGED <<second, dedupVars, device, lookupVars>>

\* ReverseResolver.lookup: an answer is cached, positive or negative, until it
\* is too old, and a name worth showing goes to the device that was heard.
Lookup(m, a) ==
  /\ <<m, a>> \in lookups
  /\ lookups' = lookups \ {<<m, a>>}
  /\ IF second < cache[a] THEN UNCHANGED <<queries, cache>>
     ELSE /\ queries' = [queries EXCEPT ![a] = @ + 1]
          /\ cache' = [cache EXCEPT ![a] = second + Ttl]
  /\ signals' \in {signals, Append(signals, m)}
  /\ UNCHANGED <<second, dedupVars, storeVars, asked>>

\* The arm of the answers: one more piece of evidence about the device, which
\* may change its name.
TakeSignal ==
  /\ signals # <<>>
  /\ signals' = Tail(signals)
  /\ \E batch \in {<<"write">>, <<"write", "event">>} : \E done \in 0 .. Len(batch) :
       Apply(Head(signals), batch, done)
  /\ UNCHANGED <<second, dedupVars, device, asked, lookups, queries, cache>>

NextSecond ==
  /\ second < MaxSeconds
  /\ second' = second + 1
  /\ UNCHANGED <<dedupVars, storeVars, lookupVars>>

IntakeNext ==
  \/ \E m \in Hosts, kind \in ObsKinds, at \in 0 .. second :
       \/ \E a \in Addresses \cup {NoAddress} : Observed(m, kind, a, at)
       \/ Alarm(m, kind, at)
  \/ \E m \in Hosts, a \in Addresses : Lookup(m, a)
  \/ TakeSignal
  \/ NextSecond

IntakeSpec == IntakeInit /\ [][IntakeNext]_intakeVars
-----------------------------------------------------------------------------
Latest(s, n) == SubSeq(s, (IF Len(s) > n THEN Len(s) - n ELSE 0) + 1, Len(s))

(* The set of keys is at all times exactly the last capture.dedup_capacity *)
(* keys that were admitted, none of them twice: a repetition within them   *)
(* never reaches the state machine, and nothing else is kept from it       *)
(* (capture/dedup.rs admit).                                               *)
RemembersTheLatest ==
  /\ seen = ToSet(Latest(admissions, Retained))
  /\ IsInjective(Latest(admissions, Retained))

(* What `netgraspd stats` adds up does: every observation was admitted or  *)
(* was a duplicate, every event and alarm counted is on the bus, the bus   *)
(* has the rows of ng_events in their order and none twice, and is without *)
(* a row only because its batch failed later on (daemon.rs apply, analyze  *)
(* and write_status).                                                      *)
WhatIsCountedIsPublished ==
  /\ frames = admitted + dropped
  /\ Len(announced) = counted + alarms
  /\ \A i \in 1 .. Len(announced) - 1 : announced[i] < announced[i + 1]
  /\ Len(stored) - Len(announced) =< faults

(* An event in ng_events is without its device only if the device's own    *)
(* row could not be written: an alert about a device heard for the first   *)
(* time finds its row, in the second of a dropped repetition too           *)
(* (daemon.rs run, device/persist.rs apply).                               *)
AlertsNameTheirDevice ==
  \A i \in DOMAIN stored : ~stored[i].named => stored[i].about \in unborn

(* A device without a PTR record does not cost a query per packet: the     *)
(* resolver is asked once about an address, whoever uses it (daemon.rs     *)
(* asked_for_rdns, identity/rdns.rs lookup).                               *)
OneQueryPerAddress == \A a \in Addresses : queries[a] =< 1

(* The four of them: from the channel to the bus an observation is counted *)
(* once, remembered as long as promised, and stored before it is told.     *)
IntakeKeepsAccount ==
  /\ RemembersTheLatest /\ WhatIsCountedIsPublished
  /\ AlertsNameTheirDevice /\ OneQueryPerAddress
=============================================================================
