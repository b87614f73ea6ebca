--------------------------- MODULE Classification ---------------------------
(***************************************************************************)
(* What kind of device this is (identity/classify.rs, fingerprint.rs): the *)
(* conclusion drawn from one device's signals each time a frame of its is  *)
(* heard, from a fingerprint table that is replaced between two runs, and  *)
(* taken up again after a restart from what the database kept.             *)
(*                                                                         *)
(* A signal is [kind, value].  The daemon keeps them with the most         *)
(* recently confirmed first; the database keeps when each was confirmed    *)
(* last, in the order they were first inserted.                            *)
(***************************************************************************)
EXTENDS Lists, SequencesExt, FiniteSetsExt

CONSTANTS
  FrameSignals,        \* the signals a frame carries: sequences of signals
  Says,          \* device type each value speaks for, by the tables of classify.rs
  SaysOs,        \* and the operating system
  Embedded,      \* the fingerprint table of the build
  Downloaded,    \* the one `update-fingerprints` is served
  DeviceTypes,   \* the closed vocabulary
  Fixture,       \* is the vendor one of IOT_VENDORS?
  Unsaid,
  Threshold,     \* NEAREST_THRESHOLD, in hundredths
  MaxFramesHeard,      \* bound: frames
  MaxTurns       \* bound: restarts, updates and departures

OptionCodes == 0..255

\* A table is a sequence of classes [lists, type, os]; a fingerprint's value is
\* a list of options.  A build knows one vendor for the address of a device.
ASSUME ClassificationAssumption ==
  /\ Unsaid \notin DeviceTypes
  /\ \A t \in {Embedded, Downloaded} :
       /\ t # << >> /\ t \in Seq(ToSet(t))
       /\ \A class \in ToSet(t) : class.lists \in Seq(Seq(OptionCodes))
  /\ Threshold \in 1..100
  /\ \A f \in FrameSignals : \A s \in ToSet(f) :
       s.kind = "fingerprint" => s.value \in Seq(OptionCodes)
  /\ \A f \in FrameSignals : f \in Seq(ToSet(f))
  /\ \A f, g \in FrameSignals : \A s \in ToSet(f), v \in ToSet(g) :
       s.kind = "vendor" /\ v.kind = "vendor" => s = v

VARIABLES
  signals,     \* Entry.signals
  stored,      \* ng_device_signals: [signal, seen], in the order of their ids
  verdict,       \* Entry.classification: [type, os]
  known,       \* has the device been known for a day?
  away,     \* has it been offline since the daemon started?
  table,       \* the installed fingerprint table
  concluded,   \* history: the table `verdict` was concluded from
  alarm,       \* history: has the last frame changed the category?
  tableFile,        \* fingerprint_path: how much of Downloaded it holds, or -1
  writing,     \* how much update-fingerprints is writing, or -1
  heard, turns

classVars == <<signals, stored, verdict, known, away, table, concluded, alarm, tableFile,
               writing, heard, turns>>
deviceVars == <<signals, stored, verdict, known, away, alarm, heard>>

Unclassified == [type |-> Unsaid, os |-> Unsaid]

----------------------------------------------------------------------------
(* fingerprint.rs                                                          *)

Larger(m, n) == IF m >= n THEN m ELSE n

\* A row of lengths, from the one before: the longest common subsequences of the
\* beginnings of b with one more option of the other list.
NextRow(row, x, b) ==
  LET cell[j \in 0..Len(b)] ==
        IF j = 0 THEN 0
        ELSE IF x = b[j] THEN row[j - 1] + 1
        ELSE Larger(cell[j - 1], row[j])
  IN  cell

Rows(a, b) ==
  LET row[i \in 0..Len(a)] ==
        IF i = 0 THEN [j \in 0..Len(b) |-> 0] ELSE NextRow(row[i - 1], a[i], b)
  IN  row

Common(a, b) == Rows(a, b)[Len(a)][Len(b)]

\* Mutant: normalised by the shorter list.
ShorterLength(a, b) == Len(a) + Len(b) - Larger(Len(a), Len(b))

LongerLength(a, b) == Larger(Len(a), Len(b))

\* Similarities are Common over LongerLength, compared as fractions, as 64 options
\* at most let floats be.
AsNear(list, x, y) ==
  Common(list, y) * LongerLength(list, x) <= Common(list, x) * LongerLength(list, y)

IsNear(list, x) == Threshold * LongerLength(list, x) <= 100 * Common(list, x)

\* The lists of a table, in its order.
Lists(t) == UNION {{c} \X (1..Len(t[c].lists)) : c \in 1..Len(t)}

ListAt(t, at) == t[at[1]].lists[at[2]]

Before(x, y) == x[1] < y[1] \/ (x[1] = y[1] /\ x[2] < y[2])

First(found) == CHOOSE at \in found : \A o \in found : o = at \/ Before(at, o)

\* Equal lists, or else those nearest to the list, if they are near enough.  Of
\* several the first is found.
Matches(t, list) ==
  LET exact == {at \in Lists(t) : ListAt(t, at) = list}
      near == {at \in Lists(t) :
                 /\ IsNear(list, ListAt(t, at))
                 /\ \A o \in Lists(t) : AsNear(list, ListAt(t, at), ListAt(t, o))}
  IN  IF exact # {} THEN exact ELSE near

\* The table of a file: classes without a list are dropped, and text without a
\* class is refused.
FromFile(part) == SubSeq(Downloaded, 1, part)

\* Mutant: what does not parse is a table of nothing.
InstallAnything(part) == IF part = -1 THEN Embedded ELSE FromFile(part)

\* install_fingerprints, once in a run: a file that does not parse is as good
\* as none.
Install(part) == IF part <= 0 THEN Embedded ELSE FromFile(part)

----------------------------------------------------------------------------
(* classify.rs                                                             *)

\* The kinds in the order of the evidence, the hardest to be wrong about first.
\* "netbios" is a NetBIOS name.
Ranked == <<"ndp_role", "ssdp_type", "mdns_service", "fingerprint", "vendor_class", "model",
            "server", "netbios", "vendor">>

OsRanked == <<"fingerprint", "model", "vendor_class", "server", "workgroup">>

TypeSaid(t, s) ==
  IF s.kind # "fingerprint" THEN Says[s.kind, s.value]
  ELSE LET found == Matches(t, s.value)
       IN  IF found = {} THEN Unsaid ELSE t[First(found)[1]].type

OsSaid(t, s) ==
  IF s.kind # "fingerprint" THEN SaysOs[s.kind, s.value]
  ELSE LET found == Matches(t, s.value)
       IN  IF found = {} THEN Unsaid ELSE t[First(found)[1]].os

\* The signals at I as [kind, position], by the order of their kinds.
OfKinds(list, kinds, I) == {at \in (1..Len(kinds)) \X I : list[at[2]].kind = kinds[at[1]]}

\* Mutant: text comes before a fingerprint.
CandidatesTextFirst(t, list) ==
  OfKinds(list, <<"ndp_role", "ssdp_type", "mdns_service", "vendor_class", "model", "server",
                  "fingerprint", "netbios", "vendor">>,
          {i \in 1..Len(list) : TypeSaid(t, list[i]) # Unsaid})

\* device_type_candidates, but for the last one.
device_type_candidates(t, list) ==
  OfKinds(list, Ranked, {i \in 1..Len(list) : TypeSaid(t, list[i]) # Unsaid})

\* Behaviour comes last, and only with a vendor.
Behaves(list, alwaysOn) ==
  alwaysOn /\ \E i \in 1..Len(list) : list[i].kind = "vendor" /\ Fixture[list[i].value]

\* classify: the first candidate of the vocabulary, and the first system.
Classify(t, list, alwaysOn) ==
  LET candidates == {at \in device_type_candidates(t, list) :
                       TypeSaid(t, list[at[2]]) \in DeviceTypes}
      systems == OfKinds(list, OsRanked, {i \in 1..Len(list) : OsSaid(t, list[i]) # Unsaid})
  IN  [type |-> IF candidates # {} THEN TypeSaid(t, list[First(candidates)[2]])
                ELSE IF Behaves(list, alwaysOn) /\ "smart_home_device" \in DeviceTypes
                     THEN "smart_home_device" ELSE Unsaid,
       os |-> IF systems = {} THEN Unsaid ELSE OsSaid(t, list[First(systems)[2]])]

\* One known value became a different known value.
Changed(before, after) == before # Unsaid /\ after # Unsaid /\ before # after

ChangedCategory(before, after) ==
  Changed(before.type, after.type) \/ Changed(before.os, after.os)

----------------------------------------------------------------------------
(* device/mod.rs                                                           *)

\* Mutant: a signal that is known stays where it is.
RecordNewOnly(list, frame) ==
  Those(frame, {i \in 1..Len(frame) : frame[i] \notin ToSet(list)}) \o list

\* The first of each signal of a frame.
Firsts(frame) == {i \in 1..Len(frame) : \A j \in 1..(i - 1) : frame[j] # frame[i]}

\* record_signals: those of the frame lead, in the order it lists them.
Record(list, frame) ==
  Those(frame, Firsts(frame))
    \o Those(list, {i \in 1..Len(list) : list[i] \notin ToSet(frame)})

\* upsert_signal, for each: confirmed now, or inserted.
Store(frame) ==
  LET now == heard + 1
      new == Those(frame, {i \in Firsts(frame) :
                             \A j \in 1..Len(stored) : stored[j].signal # frame[i]})
  IN  [i \in 1..Len(stored) |->
         IF stored[i].signal \in ToSet(frame) THEN [stored[i] EXCEPT !.seen = now] ELSE stored[i]]
        \o [i \in 1..Len(new) |-> [signal |-> new[i], seen |-> now]]

AlwaysOn == known /\ ~away

\* observe, and add_signal: recorded and concluded anew.
Hear(frame) ==
  /\ heard < MaxFramesHeard /\ heard' = heard + 1
  /\ signals' = Record(signals, frame)
  /\ stored' = Store(frame)
  /\ verdict' = Classify(table, signals', AlwaysOn)
  /\ alarm' = ChangedCategory(verdict, verdict')
  /\ concluded' = table
  /\ UNCHANGED <<known, away, table, tableFile, writing, turns>>

\* Mutant: ORDER BY last_seen_at.
LoadedOldestFirst(rows) ==
  Arranged(rows, [i \in 1..Len(rows) |->
    {j \in 1..Len(rows) : rows[j].seen < rows[i].seen
                             \/ (rows[j].seen = rows[i].seen /\ j < i)}])

\* load_all_signals: ORDER BY last_seen_at DESC, id.
Loaded(rows) ==
  Arranged(rows, [i \in 1..Len(rows) |->
    {j \in 1..Len(rows) : rows[j].seen > rows[i].seen
                             \/ (rows[j].seen = rows[i].seen /\ j < i)}])

\* The daemon stops, at whatever moment, and starts: the class is the stored
\* one, and that it was ever offline is forgotten.
Restart ==
  /\ turns < MaxTurns /\ turns' = turns + 1
  /\ signals' = [i \in 1..Len(stored) |-> Loaded(stored)[i].signal]
  /\ away' = FALSE
  /\ table' = Install(tableFile)
  /\ alarm' = FALSE
  /\ UNCHANGED <<stored, verdict, known, concluded, tableFile, writing, heard>>

\* It goes offline; the next frame brings it back.
GoOffline ==
  /\ turns < MaxTurns /\ turns' = turns + 1
  /\ ~away /\ away' = TRUE
  /\ UNCHANGED <<signals, stored, verdict, known, table, concluded, alarm, tableFile,
                 writing, heard>>

DayPasses ==
  /\ ~known /\ known' = TRUE
  /\ UNCHANGED <<signals, stored, verdict, away, table, concluded, alarm, tableFile, writing,
                 heard, turns>>

----------------------------------------------------------------------------
(* update_fingerprints, a process of its own                               *)

\* What is served is parsed before anything is written: an error page is not a
\* table, the beginning of one is.
Download ==
  /\ writing = -1
  /\ turns < MaxTurns /\ turns' = turns + 1
  /\ \E served \in 1..Len(Downloaded) : writing' = served
  /\ UNCHANGED <<deviceVars, table, concluded, tableFile>>

\* The file is truncated first and written then.
Write ==
  /\ writing # -1
  /\ writing' = -1
  /\ \E written \in 0..writing : tableFile' = written
  /\ UNCHANGED <<deviceVars, table, concluded, turns>>

----------------------------------------------------------------------------
ClassInit ==
  /\ signals = << >> /\ stored = << >>
  /\ verdict = Unclassified /\ alarm = FALSE
  /\ known = FALSE /\ away = FALSE
  /\ table = Embedded /\ concluded = Embedded
  /\ tableFile = -1 /\ writing = -1
  /\ heard = 0 /\ turns = 0

ClassNext ==
  \/ \E frame \in FrameSignals : Hear(frame)
  \/ Restart
  \/ GoOffline
  \/ DayPasses
  \/ Download
  \/ Write

ClassSpec == ClassInit /\ [][ClassNext]_classVars

----------------------------------------------------------------------------
\* The types, and that what the daemon looks fingerprints up in is never nothing,
\* whatever was on its way to the disk when a machine went down (cli
\* update_fingerprints, daemon.rs install_fingerprints).
ClassTypeOK ==
  /\ verdict.type \in DeviceTypes \cup {Unsaid}
  /\ Len(stored) = Len(signals) /\ ToSet(signals) = {stored[i].signal : i \in 1..Len(stored)}
  /\ Len(table) > 0
  /\ tableFile \in -1..Len(Downloaded) /\ writing \in -1..Len(Downloaded)

\* A second reading of the similarity: the most positions of a that can be laid
\* onto b in order.
CommonByPositions(a, b) ==
  Max({Cardinality(P) : P \in {Q \in SUBSET (1..Len(a)) :
    \E lay \in [Q -> 1..Len(b)] :
      \A i, j \in Q : a[i] = b[lay[i]] /\ (i < j => lay[i] < lay[j])}})

\* Of the rows at I, the latest of the strongest kind.
LatestOf(rows, kinds, I) ==
  LET ranked == {at \in (1..Len(kinds)) \X I : rows[at[2]].signal.kind = kinds[at[1]]}
      top == {at \in ranked : \A o \in ranked :
                \/ at[1] < o[1]
                \/ at[1] = o[1] /\ rows[o[2]].seen <= rows[at[2]].seen}
  IN  {at[2] : at \in top}

TypeRows(t, rows) == {i \in 1..Len(rows) : TypeSaid(t, rows[i].signal) \in DeviceTypes}
OsRows(t, rows) == {i \in 1..Len(rows) : OsSaid(t, rows[i].signal) # Unsaid}

\* The evidence decides and not the order it came in: what a device is, is what the
\* most recent of its strongest speaking signals says, whatever else was heard since
\* and through restarts (classify.rs:8-29).
StrongestDecides ==
  heard > 0 =>
    LET top == LatestOf(stored, Ranked, TypeRows(concluded, stored))
        systems == LatestOf(stored, OsRanked, OsRows(concluded, stored))
    IN  /\ IF top = {} THEN verdict.type \in {Unsaid, "smart_home_device"}
           ELSE \E i \in top : verdict.type = TypeSaid(concluded, stored[i].signal)
        /\ IF systems = {} THEN verdict.os = Unsaid
           ELSE \E i \in systems : verdict.os = OsSaid(concluded, stored[i].signal)

\* And a fingerprint speaks for a class that no other list of the table is nearer to
\* (fingerprint.rs:292-299).
NearestSpeaks ==
  \A i \in 1..Len(stored) : stored[i].signal.kind = "fingerprint" =>
    LET list == stored[i].signal.value
        found == Matches(table, list)
        longer(at) == Max({Len(list), Len(ListAt(table, at))})
        common(at) == CommonByPositions(list, ListAt(table, at))
    IN  found # {} => \A at \in Lists(table) :
          common(at) * longer(First(found)) <= common(First(found)) * longer(at)

\* The type of a device is the strongest evidence's, and a fingerprint the nearest's.
EvidenceDecides == StrongestDecides /\ NearestSpeaks

\* A device is said to have changed because of what was just heard, never because
\* of a restart or of a day gone by (device/mod.rs:702, "so that a device does not
\* appear to change identity every time the daemon restarts").  Two exceptions
\* are real: a fingerprint table replaced since, and two signals of a kind in one
\* frame, whose order the database may restore the other way round.
AlarmsAreHeard ==
  [][ heard' > heard /\ alarm' /\ concluded = table =>
        \/ \E i \in 1..Len(stored') :
              LET s == stored'[i].signal IN
              /\ stored'[i].seen = heard'
              /\ \/ Changed(verdict.type, verdict'.type) /\ TypeSaid(table, s) = verdict'.type
                 \/ Changed(verdict.os, verdict'.os) /\ OsSaid(table, s) = verdict'.os
        \/ \E i, j \in 1..Len(stored) :
              /\ i < j /\ stored[i].signal.kind = stored[j].signal.kind
              /\ stored[i].seen = stored[j].seen ]_classVars
=============================================================================
