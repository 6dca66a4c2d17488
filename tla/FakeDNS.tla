-------------------------------- MODULE FakeDNS --------------------------------
(***************************************************************************)
(* Query::operator() of fakedns (src/fakedns/query.cpp), the name server   *)
(* mtd64-ng is tested against: it answers a question for                   *)
(* a-b-c-d.dns64perf.test with the address a.b.c.d, or a record made of    *)
(* it.  What is sent depends on nothing but the query, the AAAA mode and,  *)
(* if the name has no text, what the handler's buffer happened to hold; so *)
(* the handler is an operator from these to what is sent.                  *)
(*                                                                         *)
(* The queries considered have a question, if they have a header, and are  *)
(* no longer than MaxQuery: question_[0] of a query without one, and       *)
(* answer_data with a longer one, are used beyond their end.  Labels have  *)
(* no zero bytes and no white space, and pointers do not go in circles.    *)
(***************************************************************************)
EXTENDS DNSMessage

Dot == 46
Plus == 43
Minus == 45
Digit == 48..57

\* The answer is put together in 512 bytes: the header, the question and a record, which takes
\* 28 bytes with an IPv6 address.
MaxQuery == 512 - 28

\* d has a question, if it has a header.
HasQuestion(d) == Len(d) >= HeaderSize => Count(BufferOf(d), 1) >= 1

-------------------------------------------------------------------------------
(* The text of a name *)

\* What labelsToString() looks at in each of the labels ls: the first byte, the characters and,
\* if it is a pointer, which of ls it points to.
LabelTexts(b, ls) ==
  [i \in DOMAIN ls |->
     [first |-> b[ls[i]],
      text |-> IF IsPointer(b, ls[i]) THEN <<>> ELSE Slice(b, ls[i] + 1, b[ls[i]]),
      to |-> IF IsPointer(b, ls[i]) THEN {k \in DOMAIN ls : ls[k] = Offset(b, ls[i])} ELSE {}]]

\* The labels from the first on, each followed by a dot, up to the root.  A pointer goes on
\* with the label it points to, if that is there.  A name with more than 16 pointers does not end.
TextOf(ts) ==
  LET from[hops \in Nat, i \in Nat] ==
        IF i > Len(ts) \/ hops = 0 THEN <<>>
        ELSE IF ts[i].first = 0 THEN <<>>
        ELSE IF ts[i].first >= 192
        THEN IF ts[i].to = {} THEN <<>> ELSE from[hops - 1, Min(ts[i].to)]
        ELSE ts[i].text \o <<Dot>> \o from[hops, i + 1]
  IN from[16, 1]

\* DNSQName::labelsToString from the first of the labels ls.
LabelsToString(b, ls) == TextOf(LabelTexts(b, ls))

\* What is in the buffer after that.  The root has no text: for it, and what points to it,
\* nothing is written, and the buffer was never initialized.
Text(b, ls, leftover) ==
  IF LabelsToString(b, ls) = <<>> THEN leftover ELSE LabelsToString(b, ls)
-------------------------------------------------------------------------------
(* sscanf(buffer, "%hhu-%hhu-%hhu-%hhu.dns64perf.test.", ...) *)

CharAt(text, i) == IF i \in DOMAIN text THEN text[i] ELSE 0

\* The value of one %hhu: an optional sign and digits, modulo 2^8.
HHU(digits, sign) ==
  LET value == FoldLeft(LAMBDA v, d : (10 * v + d - 48) % 2^8, 0, digits)
  IN IF sign = Minus THEN (2^8 - value) % 2^8 ELSE value

\* What sscanf() has read of the text: up to where, and the numbers.  Without a digit it
\* stays where it is.
ScanNumber(text, s) ==
  LET first == s.at + (IF CharAt(text, s.at) \in {Plus, Minus} THEN 1 ELSE 0)
      end == CHOOSE e \in first..Len(text) + 1 :
               /\ CharAt(text, e) \notin Digit
               /\ \A i \in first..e - 1 : text[i] \in Digit
  IN IF first > Len(text) \/ end = first THEN s
     ELSE [at |-> end,
           ip |-> Append(s.ip, HHU(SubSeq(text, first, end - 1), CharAt(text, s.at)))]

\* The hyphen of the pattern; without it nothing more is read.
Separator(text, s) ==
  IF CharAt(text, s.at) = Minus THEN [s EXCEPT !.at = @ + 1]
  ELSE [s EXCEPT !.at = Len(text) + 1]

\* The numbers converted, of which there must be four: what follows the fourth is in the
\* pattern but does not count.
Scanned(text) ==
  LET first == ScanNumber(text, [at |-> 1, ip |-> <<>>])
      more(s, i) == ScanNumber(text, Separator(text, s))
  IN FoldLeft(more, first, <<2, 3, 4>>).ip
-------------------------------------------------------------------------------
(* The answer *)

\* Server::ipv6_, 2001:db8::
IPv6Prefix == <<32, 1, 13, 184, 0, 0, 0, 0, 0, 0, 0, 0>>

\* Server::synth
FakeSynth(ip) == IPv6Prefix \o ip

\* The 16 bits of v.
Two(v) == <<v \div 256, v % 256>>

\* The id of the query; of the flags qr and rd are set; one question, ancount answers.
AnswerHeader(b, ancount) ==
  LET zero == [o \in 0..HeaderSize - 1 |-> 0]
      id == Write16(zero, 0, U16(b, 0))
      qr == WithField(id, 15, 1, 1)
      opcode == WithField(qr, 11, 4, 0)
      aa == WithField(opcode, 10, 1, 0)
      tc == WithField(aa, 9, 1, 0)
      rd == WithField(tc, 8, 1, 1)
      ra == WithField(rd, 7, 1, 0)
      rcode == WithField(ra, 0, 4, 0)
      counts == Write16(Write16(rcode, 4, 1), 6, ancount)
  IN Slice(counts, 0, HeaderSize)

\* A record under the name of the question at o: class IN, time to live 0.
AnswerRecord(o, type, rdata) ==
  Two(3 * 2^14 + o) \o Two(type) \o Two(1) \o <<0, 0, 0, 0>> \o Two(Len(rdata)) \o rdata

\* What the constructor of DNSPacket reads of the n bytes of b: every entry must fit,
AllFit(b, n) ==
  /\ Fits(b, EntryAt(b, HeaderSize, n, 1), n, 1)
  /\ \A i \in 2..Counts(b) : Fits(b, EntriesOf(b, n)[i], n, SectionOf(b, i))

\* and the labels of all their names are kept, from those of the first question on.
AllLabels(b, n) ==
  NameLabels(b, HeaderSize, n) \o
    FlattenSeq([i \in 1..Counts(b) - 1 |-> NameLabels(b, EntriesOf(b, n)[i + 1].begin, n)])


\* sscanf() has converted all four numbers.
AllConverted(ip) == Len(ip) = 4

\* Query::operator(): what is sent for query, <<>> if nothing.  If native, the mode -
\* or, for PROBABILITY, the random number - is for a AAAA record; leftover is what the buffer
\* for the name's text held before.
FakeAnswer(query, native, leftover) ==
  LET b == BufferOf(query)
      n == Len(query)
      q == EntryAt(b, HeaderSize, n, 1)
      asked == Slice(b, q.begin, EntryEnd(b, q, 1) - q.begin)
      ip == Scanned(Text(b, AllLabels(b, n), leftover))
      type == U16(b, q.qtype)
      records == IF type = TypeA THEN AnswerRecord(q.begin, TypeA, ip)
                 ELSE IF type = TypeAAAA /\ native
                 THEN AnswerRecord(q.begin, TypeAAAA, FakeSynth(ip))
                 ELSE <<>>
  IN IF n >= HeaderSize /\ StandardQuery(b) /\ AllFit(b, n) /\ AllConverted(ip)
     THEN AnswerHeader(b, IF records = <<>> THEN 0 ELSE 1) \o asked \o records
     ELSE <<>>
===============================================================================
