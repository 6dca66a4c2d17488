------------------------------ MODULE DNSMessage -------------------------------
(***************************************************************************)
(* The layout of a DNS message in a buffer (src/dns.h, src/dns.cpp), as    *)
(* operators: labels, names and entries the way the classes of the library *)
(* find them, and the meaning of a message the way any resolver reads it,  *)
(* to compare with.                                                        *)
(*                                                                         *)
(* A buffer is a function from offsets to bytes; a C++ pointer into it is  *)
(* the offset from the beginning of the message.  Integers in a message    *)
(* are big-endian.                                                         *)
(***************************************************************************)
EXTENDS Integers, Sequences, SequencesExt

Bytes == 0..255

HeaderSize == 12
TypeA == 1
TypeNS == 2
TypeCNAME == 5
TypeAAAA == 28
-------------------------------------------------------------------------------
(* Reading and writing the buffer b *)

\* A datagram as a buffer of its length holds it.
BufferOf(d) == [o \in 0..Len(d) - 1 |-> d[o + 1]]

U16(b, o) == 256 * b[o] + b[o + 1]

Write16(b, o, v) == [b EXCEPT ![o] = v \div 256, ![o + 1] = v % 256]

\* memcpy of the sequence data to o.
Write(b, o, data) ==
  [i \in DOMAIN b |-> IF i - o \in 0..Len(data) - 1 THEN data[i - o + 1] ELSE b[i]]

\* memmove of the n bytes at from to to.
Move(b, to, from, n) ==
  [i \in DOMAIN b |-> IF i - to \in 0..n - 1 THEN b[i - to + from] ELSE b[i]]
-------------------------------------------------------------------------------
(* DNSHeader *)

\* A field of the flags, of some bits from the bit at on: qr 15, opcode 11 (4 bits), aa 10,
\* tc 9, rd 8, ra 7, rcode 0 (4 bits).
Field(b, at, bits) == (U16(b, 2) \div 2^at) % 2^bits

WithField(b, at, bits, v) == Write16(b, 2, U16(b, 2) + (v - Field(b, at, bits)) * 2^at)

StandardQuery(b) == Field(b, 15, 1) = 0 /\ Field(b, 11, 4) = 0

NXDomain == 3

\* qdcount, ancount, nscount, arcount.
Count(b, section) == U16(b, 2 * section + 2)
-------------------------------------------------------------------------------
(* Labels and names *)

IsPointer(b, l) == b[l] >= 192

Offset(b, l) == U16(b, l) % 2^14

WithOffset(b, l, offset) == Write16(b, l, 3 * 2^14 + (offset % 2^14))

LabelSize(b, l) == IF IsPointer(b, l) THEN 2 ELSE b[l] + 1

\* The labels of the name at o, up to its root, a pointer, an illegal size or the
\* end of the packet.
NameLabels(b, o, end) ==
  LET from[l \in Nat] ==
        IF l >= end THEN <<>>
        ELSE IF b[l] = 0 \/ b[l] >= 64 THEN <<l>>
        ELSE <<l>> \o from[l + LabelSize(b, l)]
  IN from[o]

InvalidLabel(b, ls) == \E i \in DOMAIN ls : b[ls[i]] \in 64..191

NameEnd(b, o, end) ==
  LET ls == NameLabels(b, o, end)
  IN IF ls = <<>> THEN o ELSE Last(ls) + LabelSize(b, Last(ls))
-------------------------------------------------------------------------------
(* Entries.  Section 1 holds questions, sections 2 to 4 resources. *)

EntryAt(b, o, end, section) ==
  LET n == NameEnd(b, o, end)
  IN IF section = 1
     THEN [begin |-> o, name |-> o, qtype |-> n, qclass |-> n + 2]
     ELSE [begin |-> o, name |-> o, qtype |-> n, qclass |-> n + 2, ttl |-> n + 4,
           rdlength |-> n + 8, rdata |-> n + 10]

\* The end of the fields of fixed size, and of the rdata.
FixedEnd(e, section) == IF section = 1 THEN e.qclass + 2 ELSE e.rdata

EntryEnd(b, e, section) ==
  FixedEnd(e, section) + (IF section = 1 THEN 0 ELSE U16(b, e.rdlength))

\* What the constructors of an entry check before they read on.
Fits(b, e, end, section) ==
  /\ ~InvalidLabel(b, NameLabels(b, e.begin, end))
  /\ FixedEnd(e, section) <= end
  /\ EntryEnd(b, e, section) <= end
-------------------------------------------------------------------------------
(* What the bytes mean, read as a resolver reads them *)

\* The labels from l on, if f says those from any label on with a hop less; <<>> stands for
\* a label that is not there.
Followed(b, f, l) ==
  IF l \notin DOMAIN b THEN << <<>> >>
  ELSE IF b[l] = 0 THEN <<>>
  ELSE IF l + LabelSize(b, l) - 1 \notin DOMAIN b THEN << <<>> >>
  ELSE IF IsPointer(b, l) THEN f[Offset(b, l)]
  ELSE << [i \in 1..b[l] |-> b[l + i]] >> \o f[l + LabelSize(b, l)]

\* The labels of the name at o, its pointers followed, at most 16 of both.
Name(b, o) ==
  LET from[hops \in 0..16] ==
        [l \in Nat |-> IF hops = 0 THEN << <<>> >> ELSE Followed(b, from[hops - 1], l)]
  IN from[16][o]

HoldsName(type) == type \in {TypeNS, TypeCNAME}

Slice(b, o, n) == [i \in 1..n |-> b[o + i - 1]]

\* How many entries b has.
Counts(b) == Count(b, 1) + Count(b, 2) + Count(b, 3) + Count(b, 4)

\* The section of the i-th entry of b.
SectionOf(b, i) ==
  IF i <= Count(b, 1) THEN 1
  ELSE IF i <= Count(b, 1) + Count(b, 2) THEN 2
  ELSE IF i <= Count(b, 1) + Count(b, 2) + Count(b, 3) THEN 3 ELSE 4

\* The entries of the n bytes of b, in order, as they are found by reading it again.
EntriesOf(b, n) ==
  LET start[i \in 1..Counts(b)] ==
        IF i = 1 THEN HeaderSize
        ELSE EntryEnd(b, EntryAt(b, start[i - 1], n, SectionOf(b, i - 1)), SectionOf(b, i - 1))
  IN [i \in 1..Counts(b) |-> EntryAt(b, start[i], n, SectionOf(b, i))]

MeaningOf(b, e, section) ==
  LET type == U16(b, e.qtype)
      name == section # 1 /\ HoldsName(type)
  IN [section |-> section, owner |-> Name(b, e.begin), type |-> type,
      class |-> U16(b, e.qclass),
      ttl |-> IF section = 1 THEN <<>> ELSE Slice(b, e.ttl, 4),
      target |-> IF name THEN Name(b, e.rdata) ELSE <<>>,
      data |-> IF section = 1 \/ name THEN <<>> ELSE Slice(b, e.rdata, U16(b, e.rdlength))]

Meaning(b, n) ==
  LET es == EntriesOf(b, n)
  IN [i \in DOMAIN es |-> MeaningOf(b, es[i], SectionOf(b, i))]

\* The entries that are A records of the answer section, by their numbers.
AddressRecords(b, n) ==
  {i \in 1..Counts(b) : SectionOf(b, i) = 2 /\ U16(b, EntriesOf(b, n)[i].qtype) = TypeA}

\* The places of the A records' rdata in the datagram.
AddressesOf(b, n) ==
  LET es == EntriesOf(b, n)
  IN {es[i].rdata : i \in AddressRecords(b, n)}

\* Some name in the rdata of b ends in a pointer to behind an address of the answer.
RdataPointsBehindAddress(b, n) ==
  LET es == EntriesOf(b, n)
  IN \E i \in DOMAIN es :
       /\ SectionOf(b, i) # 1
       /\ HoldsName(U16(b, es[i].qtype))
       /\ LET l == Last(NameLabels(b, es[i].rdata, n))
          IN IsPointer(b, l) /\ \E a \in AddressesOf(b, n) : Offset(b, l) > a
===============================================================================
