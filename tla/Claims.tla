------------------------------- MODULE Claims -------------------------------
(***************************************************************************)
(* What an mDNS message is evidence of, and about whom (capture/mdns.rs):  *)
(* the claims extract_claims draws from the records that were read, each   *)
(* with the addresses the message itself gave it.                          *)
(*                                                                         *)
(* A name is [shape, label, service].  An instance is                      *)
(* label.service.local, a host label.local, a service the name of a kind   *)
(* of service; anything else names nothing.  Letter case is left out: the  *)
(* code folds it wherever it compares two names.                           *)
(***************************************************************************)
EXTENDS Integers, Sequences, SequencesExt

CONSTANTS
  Records,      \* [type, name, target, address, models], what is not there as Absent
  Questions,    \* names
  Missing,
  MaxRecords,   \* bound: records in a message
  MaxQuestions  \* bound: and questions

\* Every record has a name, and a list of models, which may be empty.
ASSUME ClaimsAssumption ==
  /\ MaxRecords \in Nat /\ MaxQuestions \in Nat
  /\ \A r \in Records : r.name # Missing /\ r.models \in Seq(ToSet(r.models))

VARIABLES
  response,     \* the QR bit
  questions, records

claimVars == <<response, questions, records>>

Sender == [by |-> "sender", name |-> Missing]
Host(name) == [by |-> "host", name |-> name]
Instance(name) == [by |-> "instance", name |-> name]

\* push_owned: the first owner of a value keeps it; a value clean_name refuses is
\* none.
Push(list, value, owner) ==
  IF value = Missing \/ \E i \in 1..Len(list) : list[i].value = value THEN list
  ELSE Append(list, [value |-> value, owner |-> owner])

instance_owner(name) == IF name.shape = "instance" THEN Instance(name) ELSE Sender

CollectService(found, name, owner) ==
  IF name.shape # "service" THEN found
  ELSE [found EXCEPT !.services = Push(@, name.service, owner)]

CollectInstance(found, name) ==
  IF name.shape # "instance" THEN CollectService(found, name, Sender)
  ELSE [found EXCEPT !.instances = Push(@, name.label, Instance(name)),
                     !.services = Push(@, name.service, Instance(name))]

CollectHost(found, name, owner) ==
  IF name.shape # "host" THEN found
  ELSE [found EXCEPT !.hosts = Push(@, name.label, owner)]

\* A list after each of some models, from the list itself to the last.
ModelsPushed(list, models, owner) ==
  LET after[i \in 0..Len(models)] ==
        IF i = 0 THEN list ELSE Push(after[i - 1], models[i], owner)
  IN  after

CollectModels(found, record) ==
  [found EXCEPT !.models =
     ModelsPushed(@, record.models, instance_owner(record.name))[Len(record.models)]]

\* The first pass, record by record.
Pointer(found, r) ==
  IF r.target = Missing THEN CollectService(found, r.name, Sender)
  ELSE CollectService(CollectInstance(found, r.target), r.name, instance_owner(r.target))

Location(found, r) ==
  LET named == CollectInstance(found, r.name)
  IN  IF r.target = Missing THEN named
      ELSE [named EXCEPT !.targets = Append(@, [named |-> r.name, host |-> r.target])]

Address(found, r) ==
  LET given == IF r.address = Missing THEN found
               ELSE [found EXCEPT !.addresses =
                       Append(@, [named |-> r.name, address |-> r.address])]
  IN  CollectHost(given, r.name, Host(r.name))

Collect(found, r) ==
  CASE r.type = "PTR" -> Pointer(found, r)
    [] r.type = "SRV" -> Location(found, r)
    [] r.type = "TXT" -> CollectModels(CollectInstance(found, r.name), r)
    [] r.type = "A" -> Address(found, r)
    [] OTHER -> found

\* A probe asks for the name it means to take; so, it is supposed, does a query.
CollectQuestion(found, name) == CollectHost(CollectInstance(found, name), name, Sender)

Nothing == [instances |-> << >>, hosts |-> << >>, services |-> << >>, models |-> << >>,
            addresses |-> << >>, targets |-> << >>]

\* What was found after each record, and after each question behind them.
Readings(list) ==
  LET after[i \in 0..Len(list) + Len(questions)] ==
        IF i = 0 THEN Nothing
        ELSE IF i <= Len(list) THEN Collect(after[i - 1], list[i])
        ELSE CollectQuestion(after[i - 1], questions[i - Len(list)])
  IN  after

Collected(list) == Readings(list)[Len(list) + IF response THEN 0 ELSE Len(questions)]

addresses_of(found, host) ==
  {found.addresses[i].address : i \in {j \in 1..Len(found.addresses) :
                                         found.addresses[j].named = host}}

\* Mutant: any target will do.
ResolveAnywhere(found, owner) ==
  IF owner.by = "sender" THEN {}
  ELSE IF owner.by = "host" THEN addresses_of(found, owner.name)
  ELSE IF found.targets = << >> THEN {} ELSE addresses_of(found, found.targets[1].host)

\* Mutant: a target is looked for among the first records only.
ResolveEarly(found, owner) ==
  IF owner.by = "sender" THEN {}
  ELSE IF owner.by = "host" THEN addresses_of(found, owner.name)
  ELSE IF found.targets # << >> /\ found.targets[1].named = owner.name
       THEN addresses_of(found, found.targets[1].host) ELSE {}

\* The second pass: an instance lives where its first SRV record says.
Resolve(found, owner) ==
  LET at == {i \in 1..Len(found.targets) : found.targets[i].named = owner.name}
      first == CHOOSE i \in at : \A j \in at : i <= j
  IN  CASE owner.by = "sender" -> {}
        [] owner.by = "host" -> addresses_of(found, owner.name)
        [] owner.by = "instance" ->
             IF at = {} THEN {} ELSE addresses_of(found, found.targets[first].host)

extract_claims(list) ==
  LET found == Collected(list)
      claims(kind, values) ==
        [i \in 1..Len(values) |->
           [kind |-> kind, value |-> values[i].value,
            addresses |-> Resolve(found, values[i].owner)]]
  IN  claims("mdns_name", found.instances) \o claims("mdns_name", found.hosts)
        \o claims("mdns_service", found.services) \o claims("mdns_model", found.models)

----------------------------------------------------------------------------
Carry(r) ==
  /\ Len(records) < MaxRecords
  /\ records' = Append(records, r)
  /\ UNCHANGED <<response, questions>>

Ask(name) ==
  /\ Len(questions) < MaxQuestions /\ records = << >>
  /\ questions' = Append(questions, name)
  /\ UNCHANGED <<response, records>>

ClaimsInit == response \in BOOLEAN /\ questions = << >> /\ records = << >>

ClaimsNext == (\E r \in Records : Carry(r)) \/ (\E name \in Questions : Ask(name))

ClaimsSpec == ClaimsInit /\ [][ClaimsNext]_claimVars

----------------------------------------------------------------------------
\* The names the message uses for a claim: those its label, its service or its
\* models were read from.
Bearers(c) ==
  LET all == ToSet(records)
      used == {r.name : r \in all} \cup {r.target : r \in {p \in all : p.type = "PTR"}}
  IN  CASE c.kind = "mdns_name" -> {n \in used \ {Missing} : n.label = c.value}
        [] c.kind = "mdns_service" ->
             {n \in used \ {Missing} : n.shape = "instance" /\ n.service = c.value}
               \cup {p.target : p \in {r \in all : /\ r.type = "PTR"
                                                    /\ r.name.service = c.value}}
        [] c.kind = "mdns_model" ->
             {t.name : t \in {r \in all : r.type = "TXT" /\ c.value \in ToSet(r.models)}}

\* A claim reaches an address only when records of this very message lead from one
\* to the other: the address record of the host itself, or a service location
\* whose host has one.  So a sleep proxy's answer is evidence about the sleeping
\* host and never about another it answers for (mdns.rs:26-38).
ClaimsAreProven ==
  \A c \in ToSet(extract_claims(records)) : \A a \in c.addresses :
    \E r \in ToSet(records) :
      /\ r.type = "A" /\ r.address = a
      /\ \/ r.name \in Bearers(c) /\ r.name.shape = "host"
         \/ \E s \in ToSet(records) :
              s.type = "SRV" /\ s.target = r.name /\ s.name \in Bearers(c)

\* No name has two targets, no value two bearers, and what has a location or a text
\* is an instance: the message does not contradict itself, and leaves nothing to its
\* sender.
Consistent ==
  /\ \A r, s \in ToSet(records) : r.type = "SRV" /\ s.type = "SRV" /\ r.name = s.name => r = s
  /\ \A r \in ToSet(records) : r.type = "PTR" => r.target # Missing /\ r.target.shape = "instance"
  /\ \A r \in ToSet(records) : r.type \in {"SRV", "TXT"} => r.name.shape = "instance"
  /\ \A c \in ToSet(extract_claims(records)) : \E n \in Bearers(c) : Bearers(c) = {n}
  /\ response

\* The order of the records is no evidence: a message routinely names a host before
\* it carries its address (mdns.rs:127), and in whatever order a consistent one
\* lists its records, the same claims reach the same addresses.
OrderIsNoEvidence ==
  Consistent =>
    \A order \in [1..Len(records) -> 1..Len(records)] :
      LET listed == [i \in 1..Len(records) |-> records[order[i]]]
      IN  ToSet(order) = 1..Len(records) =>
            ToSet(extract_claims(listed)) = ToSet(extract_claims(records))

\* An address is claimed for whoever proves it, in whatever order: the two together.
ClaimsStand == ClaimsAreProven /\ OrderIsNoEvidence
=============================================================================
