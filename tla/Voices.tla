------------------------------- MODULE Voices -------------------------------
(***************************************************************************)
(* Whom a frame is evidence about: the parsers of neighbour discovery      *)
(* (capture/ndp.rs), NetBIOS (capture/nbns.rs) and SSDP (capture/ssdp.rs). *)
(* All three mix what a station says of itself with what it asks about     *)
(* others, in fields of the same form, and keep only the former.           *)
(*                                                                         *)
(* A value (an address, a name, a type) is [is, of]: what it is and whose. *)
(* The parsers never look at "of".  The stations and what they send are    *)
(* the environment: NdpFrames, NetbiosFrames, SsdpFrames.                  *)
(***************************************************************************)
EXTENDS Integers, Sequences

CONSTANTS
  Stations,    \* by hardware address
  Advertisers, \* those that route
  Workgroup,   \* of each station
  Rewritten,   \* the source of a frame behind a bridge that rewrites it
  Untold,      \* nothing, and an address that is no device's
  MaxWalked,   \* options looked at, 16 in the code
  MaxSaid      \* bound: frames

VARIABLES
  present,     \* stations that were observed
  evidence,    \* of each, the values its observations carried
  spoke, told, \* history: who sent a frame, and what it said of itself
  said         \* how many frames

voiceVars == <<present, evidence, spoke, told, said>>

Value(is, of) == [is |-> is, of |-> of]
Sighting(mac, values) == [mac |-> mac, values |-> values \ {Untold}]

\* All that is said of themselves by the station of an address.
Own(s) ==
  {Value(is, s) : is \in {"link", "global", "name", "friendly", "rootdevice", "device", "dial",
                         "stack"}}
    \union {Value("workgroup", Workgroup[s])}
    \union {Value("router", r) : r \in {s} \intersect Advertisers}

\* What is untold is no address, no value and no sighting.
ASSUME VoicesAssumption ==
  /\ Advertisers \subseteq Stations /\ {MaxWalked, MaxSaid} \subseteq Nat
  /\ {Rewritten, Untold} \intersect Stations = {}
  /\ \A s \in Stations : Untold \notin Own(s) \union [mac : {s}, values : SUBSET Own(s)]

----------------------------------------------------------------------------
\* Neighbour discovery.  An option without a length ends the list.
Walked(options) ==
  {i \in 1..Len(options) : i <= MaxWalked /\ \A j \in 1..i : options[j].units > 0}

\* Mutant: the target's address will do in every message.
AnyLinkAddress(f) ==
  LET usable == {i \in Walked(f.options) : f.options[i].mac \in Stations}
  IN  IF usable = {} THEN Untold
      ELSE f.options[CHOOSE i \in usable : \A j \in usable : i <= j].mac

link_layer_address(f) ==
  LET wanted == {"source"} \union IF f.type = "advertisement" THEN {"target"} ELSE {}
      usable == {i \in Walked(f.options) :
                   f.options[i].kind \in wanted /\ f.options[i].mac \in Stations}
  IN  IF usable = {} THEN Untold
      ELSE f.options[CHOOSE i \in usable : \A j \in usable : i <= j].mac

\* Mutant: whatever a message is about is its sender's.
TargetIsTheSender(f) == IF f.target # Untold THEN f.target ELSE f.source

sender_address(f) ==
  IF f.type = "advertisement" /\ f.target # Untold THEN f.target ELSE f.source

ndp(f) ==
  LET mac == IF f.from = Rewritten THEN link_layer_address(f) ELSE f.from
      role == IF f.type = "router_advertisement" THEN Value("router", mac) ELSE Untold
  IN  IF mac = Untold THEN Untold ELSE Sighting(mac, {sender_address(f), role})

----------------------------------------------------------------------------
\* NetBIOS.  A name is [scope, value], its scope read from the service suffix.
MSBROWSE == Value("msbrowse", Untold)

Signal(name) == IF name.scope = "other" THEN Untold ELSE name.value

\* Mutant: every message about a name claims it.
EveryNameIsAClaim(f) == IF f.name.value = MSBROWSE THEN {} ELSE {Signal(f.name)}

parse_name_service(f) ==
  LET claims == \/ f.opcode \in {"registration", "refresh"}
                \/ f.opcode = "query" /\ f.response
  IN  IF claims /\ f.name.value # MSBROWSE THEN {Signal(f.name)} ELSE {}

\* Mutant: the name a datagram is for is taken whatever it names.
BothEnds(f) == {Signal(n) : n \in {m \in {f.source, f.dest} : m.value # MSBROWSE}}

parse_datagram_service(f) ==
  LET names == {f.source} \union {n \in {f.dest} : n.scope = "workgroup"}
  IN  {Signal(n) : n \in {m \in names : m.value # MSBROWSE}}

nbns(f) ==
  LET read == IF f.port = "name" THEN parse_name_service(f) ELSE parse_datagram_service(f)
  IN  IF \/ f.from = Rewritten
         \/ f.port = "datagram" /\ (f.type = "error" \/ read = {})
      THEN Untold ELSE Sighting(f.from, read)

----------------------------------------------------------------------------
\* SSDP.  A line is [field, value]; the first of a kind counts.
Nameless == [type |-> Untold, server |-> Untold, friendly |-> Untold]

\* A value that is not base64 is used as it is.
base64_text(value) == IF value.is = "coded" THEN Value("friendly", value.of) ELSE Untold

set_device_type(m, value) ==
  IF m.type = Untold /\ value.is \in {"rootdevice", "dial", "device"}
  THEN [m EXCEPT !.type = value] ELSE m

Keep(m, slot, value) == IF m[slot] = Untold THEN [m EXCEPT ![slot] = value] ELSE m

\* Mutant: what a station searches for is its type.
SearchedIsTheType(start, m, line) ==
  CASE line.field \in {"NT", "ST"} -> set_device_type(m, line.value)
    [] line.field \in {"SERVER", "USER-AGENT"} -> Keep(m, "server", line.value)
    [] OTHER -> m

ReadLine(start, m, line) ==
  CASE \/ line.field = "NT" /\ start = "NOTIFY"
       \/ line.field = "ST" /\ start = "HTTP/1.1" -> set_device_type(m, line.value)
    [] \/ line.field = "SERVER"
       \/ line.field = "USER-AGENT" /\ start = "M-SEARCH" -> Keep(m, "server", line.value)
    [] line.field = "X-FRIENDLY-NAME" ->
         Keep(m, "friendly", IF base64_text(line.value) = Untold THEN line.value
                             ELSE base64_text(line.value))
    [] line.field = "FRIENDLYNAME.DLNA.ORG" -> Keep(m, "friendly", line.value)
    [] OTHER -> m

\* The message after each of its lines.
LinesRead(start, lines) ==
  LET after[i \in 0..Len(lines)] ==
        IF i = 0 THEN Nameless ELSE ReadLine(start, after[i - 1], lines[i])
  IN  after

ssdp_message(f) == LinesRead(f.start, f.lines)[Len(f.lines)]

ssdp(f) ==
  LET m == ssdp_message(f)
  IN  IF f.from = Rewritten \/ f.start \notin {"NOTIFY", "M-SEARCH", "HTTP/1.1"} THEN Untold
      ELSE Sighting(f.from, {m.friendly, m.type, m.server})

parse_frame(f) ==
  CASE f.protocol = "ndp" -> ndp(f)
    [] f.protocol = "nbns" -> nbns(f)
    [] f.protocol = "ssdp" -> ssdp(f)
----------------------------------------------------------------------------
(* The stations.  A frame comes with what its sender says of itself in it. *)

Utterance(frame, own) == [frame |-> frame, own |-> own \ {Untold}]

LinkOption(kind, mac, units) == [kind |-> kind, mac |-> mac, units |-> units]
OwnLink(s) == {<<LinkOption("source", s, 1)>>,
               <<LinkOption("mtu", Untold, 1), LinkOption("source", s, 1)>>,
               <<LinkOption("prefix", Untold, 4), LinkOption("mtu", Untold, 1),
                 LinkOption("source", s, 1)>>}

NdpFrames(s, from, other) ==
  LET link == Value("link", s)
      frame(type, source, target, options) ==
        [protocol |-> "ndp", from |-> from, type |-> type, source |-> source,
         target |-> target, options |-> options]
  IN  {Utterance(frame("solicitation", link, Value("global", other), o), {link}) :
         o \in OwnLink(s)}
        \* Is the address I mean to take free?
        \union {Utterance(frame("solicitation", Untold, Value("global", s), << >>), {})}
        \union {Utterance(frame("advertisement", link, Value("global", s), o),
                         {Value("global", s)}) :
                  o \in {<< >>, <<LinkOption("target", s, 1)>>}}
        \union {Utterance(frame("router_solicitation", link, Untold, o), {link}) :
                  o \in OwnLink(s)}
        \union (IF s \notin Advertisers THEN {}
               ELSE {Utterance(frame("router_advertisement", link, Untold, o),
                          {link, Value("router", s)}) : o \in OwnLink(s)}
                 \* The other is nearer to where you are going.
                 \union {Utterance(frame("redirect", link, Value("link", other),
                                   <<LinkOption("target", other, 1)>>), {link})})

NetbiosFrames(s, from, other) ==
  LET name(scope, value) == [scope |-> scope, value |-> value]
      mine == name("machine", Value("name", s))
      theirs == name("machine", Value("name", other))
      group == name("workgroup", Value("workgroup", Workgroup[s]))
      service(opcode, response, n) ==
        [protocol |-> "nbns", port |-> "name", from |-> from, opcode |-> opcode,
         response |-> response, name |-> n]
      datagram(type, dest) ==
        [protocol |-> "nbns", port |-> "datagram", from |-> from, type |-> type,
         source |-> mine, dest |-> dest]
  IN  {Utterance(service(o, FALSE, n), {n.value}) :
         o \in {"registration", "refresh"}, n \in {mine, group}}
        \union {Utterance(service("registration", FALSE, name("other", Value("name", s))), {}),
               Utterance(service("query", FALSE, theirs), {}),
               Utterance(service("query", TRUE, mine), {mine.value}),
               Utterance(service("release", FALSE, mine), {}),
               Utterance(datagram("broadcast", group), {mine.value, group.value}),
               Utterance(datagram("direct_unique", theirs), {mine.value}),
               Utterance(datagram("broadcast", name("workgroup", MSBROWSE)), {mine.value}),
               Utterance(datagram("error", theirs), {})}

SsdpFrames(s, from, other) ==
  LET frame(start, lines) ==
        [protocol |-> "ssdp", from |-> from, start |-> start, lines |-> lines]
      line(field, value) == [field |-> field, value |-> value]
      types == {Value(is, s) : is \in {"rootdevice", "device", "dial", "service", "uuid"}}
      told_type(v) == IF v.is \in {"service", "uuid"} THEN Untold ELSE v
      stack == Value("stack", s)
      friendly == {<< >>, <<line("X-FRIENDLY-NAME", Value("coded", s))>>,
                   <<line("X-FRIENDLY-NAME", Value("friendly", s))>>,
                   <<line("FRIENDLYNAME.DLNA.ORG", Value("friendly", s)),
                     line("X-FRIENDLY-NAME", Value("coded", s))>>}
  IN  {Utterance(frame("NOTIFY", <<line("NT", v), line("SERVER", stack)>> \o n),
            {told_type(v), stack, IF n = << >> THEN Untold ELSE Value("friendly", s)}) :
         v \in types, n \in friendly}
        \union {Utterance(frame("HTTP/1.1", n \o <<line("SERVER", stack), line("ST", v)>>),
                    {told_type(v), stack, IF n = << >> THEN Untold ELSE Value("friendly", s)}) :
                 v \in types, n \in friendly}
        \union {Utterance(frame("M-SEARCH", <<line("ST", Value("device", other)),
                                        line("USER-AGENT", stack)>>), {stack}),
               Utterance(frame("GET", <<line("USER-AGENT", stack)>>), {})}

FramesFrom(s) ==
  UNION {NdpFrames(s, from, other) \union NetbiosFrames(s, from, other)
           \union SsdpFrames(s, from, other) :
         from \in {s, Rewritten}, other \in Stations \ {s}}

----------------------------------------------------------------------------
Overhear(s, sent) ==
  LET seen == parse_frame(sent.frame)
  IN  /\ said < MaxSaid
      /\ said' = said + 1
      /\ spoke' = spoke \union {s}
      /\ told' = [told EXCEPT ![s] =
                    @ \union IF sent.frame.from = s THEN sent.own ELSE {}]
      /\ IF seen = Untold THEN UNCHANGED <<present, evidence>>
         ELSE /\ present' = present \union {seen.mac}
              /\ evidence' = [evidence EXCEPT ![seen.mac] = @ \union seen.values]

VoicesInit ==
  /\ present = {} /\ spoke = {} /\ said = 0
  /\ evidence = [s \in Stations |-> {}] /\ told = [s \in Stations |-> {}]

VoicesNext == \E s \in Stations : \E sent \in FramesFrom(s) : Overhear(s, sent)

VoicesSpec == VoicesInit /\ [][VoicesNext]_voiceVars

----------------------------------------------------------------------------
\* Only the sender is a sighting (ndp.rs:3), and only what it says of itself is
\* evidence about it: not the address it asks for, the name it looks for, the
\* service it searches, the router it recommends, nor whoever a bridge hides.
OnlyTheSpeakerIsHeard ==
  /\ present \subseteq spoke
  /\ \A s \in Stations : evidence[s] \subseteq Own(s)

\* And all of that is: whatever protocol a station names itself in, and wherever
\* in the message, it is recorded, if the frame still says whose it is.
SpeakersAreHeard == \A s \in Stations : told[s] \subseteq evidence[s]

\* A station is credited with what it says of itself, and with nothing else.
VoicesAreTheirOwn == OnlyTheSpeakerIsHeard /\ SpeakersAreHeard
=============================================================================
