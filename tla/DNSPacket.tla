------------------------------- MODULE DNSPacket -------------------------------
(***************************************************************************)
(* DNSPacket (src/dns.cpp) and the loop of Query::operator() that turns    *)
(* the A records of an answer into AAAA records (src/mtd64-ng/query.cpp).  *)
(*                                                                         *)
(* A DNSPacket is a set of pointers into the buffer the answer was         *)
(* received in.  Rewriting one record's rdata moves the rest of the packet *)
(* by 12 bytes, so resize() must move every pointer after it, and patch    *)
(* every compression pointer of the message that points after it.          *)
(*                                                                         *)
(* The model keeps the bytes, because the layout is what it is about.      *)
(***************************************************************************)
EXTENDS FiniteSets, DNSMessage

CONSTANTS Datagrams,  \* what a name server sends: sequences of bytes
          Malformed,  \* those of them that are not proper DNS answers
          Rooms,      \* response_maxlength_, less the length of the datagram
          Prefix      \* the 12 bytes of a /96 dns64-prefix

ASSUME DatagramsAssumption ==
  /\ Datagrams \subseteq Seq(Bytes)
  /\ Malformed \subseteq Datagrams
  /\ Rooms \subseteq Int
  /\ Prefix \in [1..12 -> Bytes]

\* d is a whole DNS message with a question, nothing behind its last record, and addresses of
\* four bytes in its A records.
WellFormed(d) ==
  LET b == BufferOf(d)
      n == Len(d)
      es == EntriesOf(b, n)
      c == Counts(b)
  IN /\ n >= HeaderSize
     /\ Count(b, 1) >= 1
     /\ \A i \in 1..c : Fits(b, es[i], n, SectionOf(b, i))
     /\ EntryEnd(b, es[c], SectionOf(b, c)) = n
     /\ \A i \in AddressRecords(b, n) : U16(b, es[i].rdlength) = 4

ASSUME ProperAssumption == \A d \in Datagrams \ Malformed : WellFormed(d)

VARIABLES
  dgram,      \* history: the datagram
  buflen,     \* buflen_
  len,        \* len_
  bytes,      \* the buffer, begin_ at 0
  question, answer, authority, additional,  \* the entries, as pointers
  labels,     \* labels_
  begin,      \* the constructor's begin: where the next entry is
  next,       \* the index of the loop over answer_
  pc

vars == <<dgram, buflen, len, bytes, question, answer, authority, additional,
          labels, begin, next, pc>>
entries == <<question, answer, authority, additional>>

Init ==
  \E d \in Datagrams, room \in Rooms :
    /\ Len(d) + room > 0
    /\ dgram = d
    /\ buflen = Len(d) + room
    /\ len = IF room < 0 THEN buflen ELSE Len(d)     \* recvfrom() cuts it
    /\ bytes = [o \in 0..buflen - 1 |-> IF o < Len(d) THEN d[o + 1] ELSE 0]
    /\ question = <<>> /\ answer = <<>> /\ authority = <<>> /\ additional = <<>>
    /\ labels = <<>>
    /\ begin = HeaderSize
    /\ next = 1
    /\ pc = "header"
-------------------------------------------------------------------------------
Unparsed == {s \in 1..4 : Len(entries[s]) < Count(bytes, s)}

Section == CHOOSE s \in Unparsed : \A t \in Unparsed : s <= t
-------------------------------------------------------------------------------
(* DNSPacket::DNSPacket.  What it throws, operator() catches: no reply. *)

HeaderTooSmall ==
  /\ pc = "header"
  /\ len < HeaderSize
  /\ pc' = "dropped"
  /\ UNCHANGED <<dgram, buflen, len, bytes, entries, labels, begin, next>>

ReadHeader ==
  /\ pc = "header"
  /\ len >= HeaderSize
  /\ pc' = "entries"
  /\ UNCHANGED <<dgram, buflen, len, bytes, entries, labels, begin, next>>

ReadEntry ==
  /\ pc = "entries"
  /\ Unparsed # {}
  /\ LET s == Section
         e == EntryAt(bytes, begin, len, s)
     IN /\ Fits(bytes, e, len, s)
        /\ question' = IF s = 1 THEN Append(question, e) ELSE question
        /\ answer' = IF s = 2 THEN Append(answer, e) ELSE answer
        /\ authority' = IF s = 3 THEN Append(authority, e) ELSE authority
        /\ additional' = IF s = 4 THEN Append(additional, e) ELSE additional
        /\ labels' = labels \o NameLabels(bytes, begin, len)
        /\ begin' = EntryEnd(bytes, e, s)
  /\ UNCHANGED <<dgram, buflen, len, bytes, next, pc>>

EntryTooLong ==
  /\ pc = "entries"
  /\ Unparsed # {}
  /\ ~Fits(bytes, EntryAt(bytes, begin, len, Section), len, Section)
  /\ pc' = "dropped"
  /\ UNCHANGED <<dgram, buflen, len, bytes, entries, labels, begin, next>>

\* apacket.question_[0].qtype(QType::AAAA).  Datagrams have a question.
SetQuestionType ==
  /\ pc = "entries"
  /\ Unparsed = {}
  /\ bytes' = Write16(bytes, question[1].qtype, TypeAAAA)
  /\ pc' = "answers"
  /\ UNCHANGED <<dgram, buflen, len, entries, labels, begin, next>>
-------------------------------------------------------------------------------
(* DNSPacket::resize and the rdata setter *)

\* Bug: counting the old rdata as new.
TooLongWholeRdata(old, new) == new < old \/ new > buflen - len

\* Bug: comparing with the whole buffer.
TooLongForEmptyBuffer(old, new) == new < old \/ new - old > buflen

\* The difference is a size_t: to shrink is to grow by almost 2^64.
TooLong(old, new) == new < old \/ new - old > buflen - len

\* Bug: rdata_ is forgotten.
MovedButRdata(e, at, d) ==
  IF e.begin > at
  THEN [f \in DOMAIN e |-> IF f \in {"name", "rdata"} THEN e[f] ELSE e[f] + d]
  ELSE e

\* An entry behind at, moved by d.  The begin_ of its name is not.
Moved(e, at, d) ==
  IF e.begin > at
  THEN [f \in DOMAIN e |-> IF f = "name" THEN e[f] ELSE e[f] + d]
  ELSE e

AllMoved(es, at, d) == [i \in DOMAIN es |-> Moved(es[i], at, d)]

\* Bug: going by where the pointer is and not by where it points.
RepointedByPlace(b, l, at, d) ==
  IF IsPointer(b, l) /\ l > at
  THEN WithOffset(b, l, Offset(b, l) + d)
  ELSE b

\* The compression pointer at l, if it is one and points behind at.
Repointed(b, l, at, d) ==
  IF IsPointer(b, l) /\ Offset(b, l) > at
  THEN WithOffset(b, l, Offset(b, l) + d)
  ELSE b

LabelsMoved(at, d) == [i \in DOMAIN labels |-> IF labels[i] > at THEN labels[i] + d ELSE labels[i]]

\* The buffer b after the old bytes at at have made room for new ones.
Resized(b, at, old, new) ==
  LET after[i \in 0..Len(labels)] ==
        IF i = 0 THEN Move(b, at + new, at + old, len - (at + old))
        ELSE Repointed(after[i - 1], LabelsMoved(at, new - old)[i], at, new - old)
  IN after[Len(labels)]
-------------------------------------------------------------------------------
(* The loop over apacket.answer_ *)

AtA == /\ pc = "answers"
       /\ next <= Len(answer)
       /\ U16(bytes, answer[next].qtype) = TypeA

NextRecord ==
  /\ pc = "answers"
  /\ next <= Len(answer)
  /\ U16(bytes, answer[next].qtype) # TypeA
  /\ next' = next + 1
  /\ UNCHANGED <<dgram, buflen, len, bytes, entries, labels, begin, pc>>

Synthesized == Len(Prefix) + 4

SynthesizeRecord ==
  /\ AtA
  /\ LET e == answer[next]
         at == e.rdata
         old == U16(bytes, e.rdlength)
         d == Synthesized - old
         ipv6 == Prefix \o [i \in 1..4 |-> bytes[at + i - 1]]
         typed == Write16(bytes, e.qtype, TypeAAAA)
         resized == Resized(typed, at, old, Synthesized)
     IN /\ ~TooLong(old, Synthesized)
        /\ question' = AllMoved(question, at, d)
        /\ answer' = AllMoved(answer, at, d)
        /\ authority' = AllMoved(authority, at, d)
        /\ additional' = AllMoved(additional, at, d)
        /\ labels' = LabelsMoved(at, d)
        /\ bytes' = Write(Write16(resized, answer'[next].rdlength, Synthesized),
                          answer'[next].rdata, ipv6)
        /\ len' = len + d
  /\ next' = next + 1
  /\ UNCHANGED <<dgram, buflen, begin, pc>>

\* resize() throws.
NoRoom ==
  /\ AtA
  /\ TooLong(U16(bytes, answer[next].rdlength), Synthesized)
  /\ pc' = "dropped"
  /\ UNCHANGED <<dgram, buflen, len, bytes, entries, labels, begin, next>>

SendReply ==
  /\ pc = "answers"
  /\ next > Len(answer)
  /\ pc' = "sent"
  /\ UNCHANGED <<dgram, buflen, len, bytes, entries, labels, begin, next>>

Next ==
  \/ HeaderTooSmall \/ ReadHeader \/ ReadEntry \/ EntryTooLong \/ SetQuestionType
  \/ NextRecord \/ SynthesizeRecord \/ NoRoom \/ SendReply

Spec == Init /\ [][Next]_vars
-------------------------------------------------------------------------------
\* What DNS64 makes of a message: the question is for AAAA, and so are the A
\* records of the answer, their addresses embedded in the prefix (RFC 6147).
Translated(m) ==
  [i \in DOMAIN m |->
     IF i = 1 THEN [m[i] EXCEPT !.type = TypeAAAA]
     ELSE IF m[i].section = 2 /\ m[i].type = TypeA
     THEN [m[i] EXCEPT !.type = TypeAAAA, !.data = Prefix \o @]
     ELSE m[i]]

\* The datagram as the buffer would hold it, had it been long enough.
Received == BufferOf(dgram)

-------------------------------------------------------------------------------
(* Properties *)

\* The variables have their types; the packet never outgrows its buffer, so that
\* memmove() and memcpy() stay inside it.
TypeOK ==
  /\ dgram \in Seq(Bytes)
  /\ bytes \in [0..buflen - 1 -> Bytes]
  /\ len \in 0..buflen
  /\ labels \in Seq(Nat)
  /\ Len(question) + Len(answer) + Len(authority) + Len(additional) <= Len(labels)
  /\ begin \in Nat
  /\ next \in 1..Len(answer) + 1
  /\ pc \in {"header", "entries", "answers", "sent", "dropped"}

\* The length of what recvfrom() has put into the buffer.
ReceivedLength == IF buflen < Len(dgram) THEN buflen ELSE Len(dgram)

ButName(es) == [i \in DOMAIN es |-> [f \in DOMAIN es[i] \ {"name"} |-> es[i][f]]]

\* While the A records are rewritten one after another, every pointer the packet
\* keeps - to the fields of each entry and to each label - is where the
\* constructor would put it if it read the packet again, and behind the last entry
\* there is as much as was received there: what the next iteration reads through them
\* is the next record.
\* (The begin_ of a name is left behind by resize(); nothing reads it again.)
PointersFollow ==
  pc = "answers" =>
    LET found == EntriesOf(bytes, len)
        last == Len(found)
    IN /\ ButName(question \o answer \o authority \o additional) = ButName(found)
       /\ len - EntryEnd(bytes, found[last], SectionOf(bytes, last)) = ReceivedLength - begin
       /\ \A i, j \in DOMAIN labels : i < j => labels[i] < labels[j]
       /\ ToSet(labels) =
            UNION {ToSet(NameLabels(bytes, found[i].begin, len)) : i \in DOMAIN found}

\* The reply means what DNS64 makes of the answer received: the same records, in
\* order, under the same names, the A records of the answer section translated,
\* however the message is compressed - as long as no name inside rdata is compressed
\* against something behind a translated address (see RdataNamesKept).
RecordsKept ==
  pc = "sent" /\ ~RdataPointsBehindAddress(Received, Len(dgram)) =>
    Meaning(bytes, len) = Translated(Meaning(Received, Len(dgram)))

\* What dns.h says of the rdata setter, that it "sets the Questions, Resources and
\* Labels accordingly", for every well-formed answer: all names keep their meaning.
RdataNamesKept ==
  pc = "sent" => Meaning(bytes, len) = Translated(Meaning(Received, Len(dgram)))

TranslatedLength ==
  Len(dgram) + (Synthesized - 4) * Cardinality(AddressesOf(Received, Len(dgram)))

\* A proper answer is thrown away only if it or its translation is longer than the buffer, and
\* a reply is as long as that translation: nothing is missing at its end, whatever has moved.
SentWholeIfItFits ==
  dgram \notin Malformed =>
    /\ pc = "dropped" => TranslatedLength > buflen
    /\ pc = "sent" => len = TranslatedLength
===============================================================================
