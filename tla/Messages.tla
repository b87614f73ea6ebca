------------------------------ MODULE Messages ------------------------------
(***************************************************************************)
(* The reader of DNS messages (capture/dns.rs) over messages that are cut  *)
(* off anywhere: a capture holds the first octets of a frame, and mDNS     *)
(* names are compressed by pointers back into the message.                 *)
(*                                                                         *)
(* A message is a sequence of octets, counted from zero as in the code.    *)
(* The counts of its header are variables; the header and the fields of    *)
(* fixed size are shorter than the twelve, four and ten octets they take,  *)
(* and the last octet of a record's is the length of its data.             *)
(***************************************************************************)
EXTENDS Integers, Sequences, SequencesExt, FiniteSets

CONSTANTS
  Octets,          \* the values an octet takes
  HeaderSize, QuestionFixed, RecordFixed,
  MaxPointers,     \* MAX_POINTERS
  MaxLabels,       \* MAX_LABELS
  Unread,          \* what is not there
  MaxOctets        \* bound: octets captured

\* What the parts of a message are read as, and how far.
NamesRead == Seq(Seq(Octets))
QuestionsRead == [offset : Nat, names : Seq(NamesRead)]
RecordsRead == [from : Nat, name : NamesRead, data : Seq(Octets), next : Nat]
MessagesRead == [questions : Seq(NamesRead), records : Seq(RecordsRead)]

ASSUME MessagesAssumption ==
  /\ Octets \subseteq 0..255
  /\ {HeaderSize, QuestionFixed, RecordFixed} \subseteq Nat /\ RecordFixed > 0
  /\ {MaxPointers, MaxLabels, MaxOctets} \subseteq Nat
  /\ Unread \notin Nat \cup QuestionsRead \cup RecordsRead \cup MessagesRead

VARIABLES
  octets,      \* what was captured of the message
  qdcount,     \* questions it says it has
  total        \* and records

messageVars == <<octets, qdcount, total>>

Octet(b, p) == b[p + 1]

Has(b, p) == p < Len(b)

\* b.get(from..to)
Cut(b, from, to) == SubSeq(b, from + 1, to)

----------------------------------------------------------------------------
(* read_name: one turn of its loop, from a position in the message          *)

Bad(w) == [w EXCEPT !.state = "bad"]

\* A name ends where it began, after the first pointer it follows.
EndsAt(w) == IF w.end = Unread THEN w.at + 2 ELSE w.end

TooMany(labels) == Len(labels) > MaxLabels

TakeLabel(b, w) ==
  LET to == w.at + 1 + Octet(b, w.at)
      labels == Append(w.labels, Cut(b, w.at + 1, to))
  IN  IF to > Len(b) \/ TooMany(labels) THEN Bad(w)
      ELSE [w EXCEPT !.labels = labels, !.at = to]

FollowPointer(b, w) ==
  LET target == (Octet(b, w.at) - 192) * 256 + Octet(b, w.at + 1)
  IN  IF ~Has(b, w.at + 1) \/ target >= w.at \/ w.pointers = MaxPointers THEN Bad(w)
      ELSE [w EXCEPT !.pointers = @ + 1, !.end = EndsAt(w), !.at = target]

Turn(b, w) ==
  IF w.state # "reading" THEN w
  ELSE IF ~Has(b, w.at) THEN Bad(w)
  ELSE IF Octet(b, w.at) = 0
  THEN [w EXCEPT !.state = "read", !.end = IF @ = Unread THEN w.at + 1 ELSE @]
  ELSE IF Octet(b, w.at) \in 1..63 THEN TakeLabel(b, w)
  ELSE IF Octet(b, w.at) >= 192 THEN FollowPointer(b, w)
  ELSE Bad(w)

\* The turns a name may take: each is a label, a pointer, or the last.
Turns == MaxLabels + MaxPointers + 2

read_name(b, start) ==
  LET walk[n \in 0..Turns] ==
        IF n = 0
        THEN [state |-> "reading", at |-> start, labels |-> << >>, end |-> Unread, pointers |-> 0]
        ELSE Turn(b, walk[n - 1])
  IN  walk[Turns]

----------------------------------------------------------------------------
(* The sections                                                             *)

\* Mutant: of data cut short, what is there.
RecordOfWhatIsThere(b, offset) ==
  LET name == read_name(b, offset)
      data == name.end + RecordFixed
      full == data + Octet(b, data - 1)
      end == IF full > Len(b) THEN Len(b) ELSE full
  IN  IF name.state # "read" \/ ~Has(b, data - 1) THEN Unread
      ELSE [from |-> offset, name |-> name.labels, data |-> Cut(b, data, end), next |-> end]

read_record(b, offset) ==
  LET name == read_name(b, offset)
      data == name.end + RecordFixed
      end == data + Octet(b, data - 1)
  IN  IF name.state # "read" \/ ~Has(b, data - 1) \/ end > Len(b) THEN Unread
      ELSE [from |-> offset, name |-> name.labels, data |-> Cut(b, data, end), next |-> end]

\* One question that cannot be read, and nothing of the message is.
ReadQuestion(b, before) ==
  LET name == read_name(b, before.offset)
      next == name.end + QuestionFixed
  IN  IF before = Unread \/ name.state # "read" \/ next > Len(b) THEN Unread
      ELSE [offset |-> next, names |-> Append(before.names, name.labels)]

read_questions(b) ==
  LET read[n \in 0..qdcount] ==
        IF n = 0 THEN [offset |-> HeaderSize, names |-> << >>] ELSE ReadQuestion(b, read[n - 1])
  IN  IF Len(b) < HeaderSize THEN Unread ELSE read[qdcount]

\* The records that are there, up to the first that is not.
ReadOneMore(b, before) ==
  LET record == read_record(b, before.offset)
  IN  IF ~before.more \/ record = Unread THEN [before EXCEPT !.more = FALSE]
      ELSE [before EXCEPT !.offset = record.next, !.list = Append(@, record)]

read_records(b, offset) ==
  LET read[n \in 0..total] ==
        IF n = 0 THEN [offset |-> offset, list |-> << >>, more |-> TRUE]
        ELSE ReadOneMore(b, read[n - 1])
  IN  read[total].list

parse_message(b) ==
  LET questions == read_questions(b)
  IN  IF questions = Unread THEN Unread
      ELSE [questions |-> questions.names, records |-> read_records(b, questions.offset)]

\* The strings of a TXT record: the last may run past the data and is left out.
ReadString(data, w) ==
  LET to == w.at + 1 + Octet(data, w.at)
  IN  IF ~Has(data, w.at) \/ to > Len(data) THEN w
      ELSE [at |-> to, strings |-> Append(w.strings, Cut(data, w.at + 1, to))]

txt_strings(data) ==
  LET walk[n \in 0..Len(data)] ==
        IF n = 0 THEN [at |-> 0, strings |-> << >>] ELSE ReadString(data, walk[n - 1])
  IN  walk[Len(data)].strings

----------------------------------------------------------------------------
\* The capture might have held one octet more.
Longer(o) ==
  /\ Len(octets) < MaxOctets
  /\ octets' = Append(octets, o)
  /\ UNCHANGED <<qdcount, total>>

MessagesInit ==
  /\ octets = << >>
  /\ qdcount \in 0..1 /\ total \in 1..2

MessagesNext == \E o \in Octets : Longer(o)

MessagesSpec == MessagesInit /\ [][MessagesNext]_messageVars

----------------------------------------------------------------------------
\* Where the labels of the name at p lie, without following a pointer, and the
\* octet after them.
LabelsFrom(b, p) ==
  CHOOSE S \in SUBSET (p..Len(b)) :
    /\ p \in S
    /\ \A q \in S : Has(b, q) /\ Octet(b, q) \in 1..63 =>
                     q + 1 + Octet(b, q) \in S \cup {Len(b) + 1}
    /\ \A q \in S \ {p} : \E r \in S : r < q /\ Octet(b, r) \in 1..63 /\ q = r + 1 + Octet(b, r)

\* The last of them, where the name ends or goes on elsewhere.
LastFrom(b, p) == CHOOSE q \in LabelsFrom(b, p) : \A r \in LabelsFrom(b, p) : r <= q

\* The reader stays in step with the message and comes to an end: a name is read in
\* as many turns as it may have labels and pointers, however its pointers run in
\* circles (dns.rs:19, "a chain longer than this is an attack"); it ends, for what
\* follows it, where it was written and not where its pointers led (dns.rs:153);
\* and it spells its own labels and then those of the name it points to.
NamesLineUp ==
  \A p \in 0..Len(octets) :
    LET name == read_name(octets, p)
        last == LastFrom(octets, p)
        target == (Octet(octets, last) - 192) * 256 + Octet(octets, last + 1)
        own == Cardinality(LabelsFrom(octets, p)) - 1
    IN  /\ name.state # "reading"
        /\ name.state = "read" =>
             /\ own <= MaxLabels /\ Has(octets, last)
             /\ IF Octet(octets, last) = 0
                THEN name.end = last + 1 /\ Len(name.labels) = own
                ELSE /\ name.end = last + 2
                     /\ target < last
                     /\ read_name(octets, target).state = "read"
                     /\ SubSeq(name.labels, own + 1, Len(name.labels))
                          = read_name(octets, target).labels

\* What a short capture yields is the head of what the whole frame would have: no
\* record is altered by octets that come later, and none is made up of what is
\* missing (dns.rs:76, "a snaplen-truncated capture is normal and its first
\* records are still good").
HeadsStand ==
  [][ LET before == parse_message(octets)
          after == parse_message(octets')
      IN  /\ before # Unread =>
               /\ after # Unread /\ after.questions = before.questions
               /\ IsPrefix(before.records, after.records)
          /\ IsPrefix(txt_strings(octets), txt_strings(octets')) ]_messageVars
\* The reader keeps its place, in the whole message and in any head of it: the two
\* together.
ReaderKeepsItsPlace == []NamesLineUp /\ HeadsStand
=============================================================================
