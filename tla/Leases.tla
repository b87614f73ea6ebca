------------------------------- MODULE Leases -------------------------------
(***************************************************************************)
(* The reader of DHCP messages (capture/dhcp.rs) over what a sender may    *)
(* write: options in the block that is theirs or, when they do not fit,    *)
(* spilled into the fields of the boot file and of the server's name, with *)
(* an option that says so; and over captures that end before the message.  *)
(*                                                                         *)
(* The fixed header with the two fields comes first, and its magic number  *)
(* has been seen: what a capture can lose is the end of the options.       *)
(***************************************************************************)
EXTENDS Integers, Sequences, FiniteSets

CONSTANTS
  Options,       \* what a sender may say: [code, value], the value a list of octets
  Usable,        \* those that clean_name, address or from_code accept
  ServerTypes,   \* values of OPT_MESSAGE_TYPE a server sends
  Addresses,     \* hardware addresses; those in Groups name no device
  GroupMacs,
  NotSaid,
  MaxOptions,    \* bound: options in a message
  MaxLost        \* bound: octets lost

OPT_PAD == 0
OPT_OVERLOAD == 52
OPT_MESSAGE_TYPE == 53
OPT_END == 255

Codes == {o.code : o \in Options}

Byte == 0..255

ASSUME LeasesAssumption ==
  /\ Options \subseteq [code : Byte, value : Seq(Byte)]
  /\ \A o \in Options : Len(o.value) \in Byte
  /\ Usable \subseteq Options /\ \A o \in Usable : o.value # NotSaid
  /\ Codes \cap {OPT_PAD, OPT_OVERLOAD, OPT_END} = {}
  /\ OPT_MESSAGE_TYPE \in Codes
  /\ MaxOptions \in Nat /\ MaxLost \in Nat

VARIABLES
  options,      \* what the sender has to say, in its order
  filed,        \* from which option on it is in the boot file field,
  named,        \* and from which on in the server's name: beyond the last for none
  early,        \* does the option that says so come first in its block?
  chaddr, frameSrc,
  lost          \* octets missing at the end of the capture

leaseVars == <<options, filed, named, early, chaddr, frameSrc, lost>>

----------------------------------------------------------------------------
(* What is on the wire                                                     *)

Written(o) == <<o.code, Len(o.value)>> \o o.value

\* Options one after the other.
Joined(items) ==
  LET upto[k \in 0..Len(items)] ==
        IF k = 0 THEN << >> ELSE upto[k - 1] \o Written(items[k])
  IN  upto[Len(items)]

\* The options from i on and before j.
Between(i, j) == SubSeq(options, i, j - 1)

Overload ==
  LET inFile == IF filed < named THEN 1 ELSE 0
      inName == IF named <= Len(options) THEN 2 ELSE 0
  IN  IF inFile + inName = 0 THEN << >>
      ELSE <<[code |-> OPT_OVERLOAD, value |-> <<inFile + inName>>]>>

OwnField ==
  IF early THEN Overload \o Between(1, filed) ELSE Between(1, filed) \o Overload

Block ==
  LET whole == Joined(OwnField) \o <<OPT_END>> IN SubSeq(whole, 1, Len(whole) - lost)

File == Joined(Between(filed, named)) \o <<OPT_END, OPT_PAD>>

Sname == <<OPT_PAD>> \o Joined(Between(named, Len(options) + 1)) \o <<OPT_END>>

----------------------------------------------------------------------------
(* Options::walk and absorb                                                *)

NothingKnown == [c \in Codes |-> NotSaid]

\* Mutant: the last one wins.
AbsorbTheLast(read, code, value) ==
  IF code = OPT_OVERLOAD
  THEN IF value = << >> THEN read ELSE [read EXCEPT !.overload = @ \cup {value[1]}]
  ELSE IF code \in Codes /\ [code |-> code, value |-> value] \in Usable
  THEN [read EXCEPT !.known[code] = value]
  ELSE read

\* A field that is set is not overwritten; one that is unusable sets nothing.
Absorb(read, code, value) ==
  IF code = OPT_OVERLOAD
  THEN IF value = << >> THEN read ELSE [read EXCEPT !.overload = @ \cup {value[1]}]
  ELSE IF /\ code \in Codes /\ read.known[code] = NotSaid
          /\ [code |-> code, value |-> value] \in Usable
  THEN [read EXCEPT !.known[code] = value]
  ELSE read

\* One turn of the loop, at an octet of the block with what was read before it.
\* Padding is skipped; the walk stays at the end option, and at a length that is
\* missing or runs past the block.
ReadOption(block, w) ==
  LET end == w.at + 1 + block[w.at + 1]
  IN  IF w.at > Len(block) \/ block[w.at] = OPT_END THEN w
      ELSE IF block[w.at] = OPT_PAD THEN [w EXCEPT !.at = @ + 1]
      ELSE IF w.at = Len(block) \/ end > Len(block) THEN w
      ELSE [at |-> end + 1,
            read |-> Absorb(w.read, block[w.at], SubSeq(block, w.at + 2, end))]

\* A turn leads on or nowhere, so there are no more of them than octets.
Walk(read, block) ==
  LET places[n \in 0..Len(block)] ==
        IF n = 0 THEN [at |-> 1, read |-> read] ELSE ReadOption(block, places[n - 1])
  IN  places[Len(block)].read

Spilled(read, bit) == \E v \in read.overload : (v \div bit) % 2 = 1

\* parse_message: the file is read before the name, and may announce it.
ParseOptions ==
  LET main == Walk([known |-> NothingKnown, overload |-> {}], Block)
      file == IF Spilled(main, 1) THEN Walk(main, File) ELSE main
      all == IF Spilled(file, 2) THEN Walk(file, Sname) ELSE file
  IN  IF all.known[OPT_MESSAGE_TYPE] = NotSaid THEN NotSaid ELSE all.known

\* build: a client's message is about the client, a relay's copy of it too; a
\* server's is about the server.
DeviceOf(message) ==
  IF message[OPT_MESSAGE_TYPE] \in ServerTypes \/ chaddr \in GroupMacs THEN frameSrc ELSE chaddr

SignalsOf(message) ==
  IF message[OPT_MESSAGE_TYPE] \in ServerTypes THEN {}
  ELSE {[code |-> c, value |-> message[c]] :
          c \in {d \in Codes \ {OPT_MESSAGE_TYPE} : message[d] # NotSaid}}

----------------------------------------------------------------------------
Say(o) ==
  /\ Len(options) < MaxOptions /\ lost = 0 /\ filed > Len(options)
  /\ options' = Append(options, o)
  /\ filed' = filed + 1 /\ named' = named + 1
  /\ UNCHANGED <<early, chaddr, frameSrc, lost>>

Spill(i, j, first) ==
  /\ filed > Len(options) /\ lost = 0
  /\ filed' = i /\ named' = j /\ early' = first
  /\ UNCHANGED <<options, chaddr, frameSrc, lost>>

Lose ==
  /\ lost < MaxLost /\ Block # << >>
  /\ lost' = lost + 1
  /\ UNCHANGED <<options, filed, named, early, chaddr, frameSrc>>

LeasesInit ==
  /\ options = << >> /\ filed = 1 /\ named = 1 /\ early = FALSE
  /\ chaddr \in Addresses /\ frameSrc \in Addresses \ GroupMacs
  /\ lost = 0

LeasesNext ==
  \/ \E o \in Options : Say(o)
  \/ \E i \in 1..Len(options), j \in 1..(Len(options) + 1), first \in BOOLEAN :
       i <= j /\ Spill(i, j, first)
  \/ Lose

LeasesSpec == LeasesInit /\ [][LeasesNext]_leaseVars

----------------------------------------------------------------------------
Said(code) == {i \in 1..Len(options) : options[i].code = code /\ options[i] \in Usable}

FirstSaid(code) ==
  options[CHOOSE i \in Said(code) : \A j \in Said(code) : i <= j].value

\* Spilling changes nothing and losing makes nothing up.  In a whole message every
\* option has the first usable value its sender wrote, wherever the options were
\* cut in two or in three and wherever the cut is announced (dhcp.rs:171, :206);
\* in a part of one, a value some option of the message has.
OptionsAreRead ==
  LET message == ParseOptions IN
  message # NotSaid => \A c \in Codes :
    /\ message[c] # NotSaid => \E i \in Said(c) : options[i].value = message[c]
    /\ lost = 0 /\ Said(c) # {} => message[c] = FirstSaid(c)

\* Nothing a server says names anybody, whatever of its message is captured, and
\* what a client says names the client and not the relay (dhcp.rs:16-30, "attributing
\* it to the server would name the router after the laptop").  A sender states
\* one type.
ServersNameNobody ==
  LET message == ParseOptions
      types == {options[i].value : i \in Said(OPT_MESSAGE_TYPE)}
  IN  message # NotSaid /\ Cardinality(types) = 1 =>
        IF types \subseteq ServerTypes
        THEN SignalsOf(message) = {} /\ DeviceOf(message) = frameSrc
        ELSE /\ chaddr \notin GroupMacs => DeviceOf(message) = chaddr
             /\ DeviceOf(message) \notin GroupMacs
             /\ lost = 0 => \A c \in Codes \ {OPT_MESSAGE_TYPE} :
                  Said(c) # {} => [code |-> c, value |-> FirstSaid(c)] \in SignalsOf(message)

\* A message is read as its sender wrote it, and speaks for its sender: the two
\* together.
LeasesStand == OptionsAreRead /\ ServersNameNobody
=============================================================================
