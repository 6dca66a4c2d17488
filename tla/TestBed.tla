-------------------------------- MODULE TestBed --------------------------------
(***************************************************************************)
(* mtd64-ng in front of a name server, byte for byte: a client's datagram  *)
(* goes through Query::operator() (src/mtd64-ng/query.cpp) to fakedns and  *)
(* back.  fakedns has read its configuration before; what it sends is      *)
(* parsed, looked through and, if it holds no AAAA record, asked for again *)
(* with another type and translated.                                       *)
(*                                                                         *)
(* In place of fakedns there may be any other name server: the bed then    *)
(* starts with its answer to the A question.  No answer is late or lost    *)
(* here (see Query).                                                       *)
(***************************************************************************)
EXTENDS DNSPacket, FakeDNS

CONSTANTS TestQueries,   \* what a client sends, and what it means by it
          Confs,         \* the configuration files of fakedns
          Maxlengths,    \* the response_maxlength_ of mtd64-ng
          Leftovers,     \* the text that fakedns' buffer for a name may hold from before
          NoNumber, NoClient

\* If proper, the bytes ask for the type of address' name.
TestQuery == [address : [1..4 -> Bytes], type : Nat, proper : BOOLEAN, bytes : Seq(Bytes)]

VARIABLES
  conf, at, config,   \* of fakedns, see FakeConfig
  client,             \* the query of the client
  data,               \* data_, the client's datagram in its buffer
  phase

confVars == <<conf, at, config>>
bedVars == <<confVars, client, data, phase, vars>>

Conf == INSTANCE FakeConfig

ASSUME TestBedAssumption ==
  /\ TestQueries \subseteq TestQuery /\ NoClient \notin TestQueries
  /\ Confs \subseteq Seq(Conf!FakeLine)
  /\ Maxlengths \subseteq Nat
  /\ NoNumber \notin Int

\* The bytes of q are a whole query with one question, which fakedns has room for.  The name is
\* spelt out, in labels that a resolver follows to the end (see Name), and read as the address.
Asks(q) ==
  LET b == BufferOf(q.bytes)
      n == Len(q.bytes)
      e == EntryAt(b, HeaderSize, n, 1)
      ls == NameLabels(b, HeaderSize, n)
  IN /\ n \in HeaderSize .. MaxQuery
     /\ StandardQuery(b) /\ Count(b, 1) = 1 /\ Counts(b) = 1
     /\ Fits(b, e, n, 1) /\ EntryEnd(b, e, 1) = n
     /\ U16(b, e.qtype) = q.type
     /\ Len(ls) <= 15 /\ \A i \in DOMAIN ls : ~IsPointer(b, ls[i])
     /\ LabelsToString(b, ls) # <<>> /\ Scanned(LabelsToString(b, ls)) = q.address

ASSUME TestQueriesAssumption ==
  \A q \in TestQueries :
    /\ Len(q.bytes) <= MaxQuery /\ HasQuestion(q.bytes)
    /\ q.proper => Asks(q)

Phases == {"config",    \* fakedns reads its configuration
           "forward",   \* the client's datagram is there
           "first",     \* the answer to it is parsed
           "second",    \* the answer to the A question is parsed and translated
           "passed",    \* the first answer was sent to the client as it was
           "silent"}    \* nothing comes back

BedInit ==
  /\ client = NoClient
  /\ data = <<>>
  /\ \/ /\ phase = "second"
        /\ conf = <<>> /\ at = 0 /\ config = Conf!Defaults("NO")
        /\ Init
     \/ /\ phase = "config"
        /\ Conf!Init
        /\ dgram = <<>>
        /\ buflen \in Maxlengths
        /\ len = 0
        /\ bytes = [o \in 0..buflen - 1 |-> 0]
        /\ question = <<>> /\ answer = <<>> /\ authority = <<>> /\ additional = <<>>
        /\ labels = <<>>
        /\ begin = HeaderSize
        /\ next = 1
        /\ pc = "header"
-------------------------------------------------------------------------------
(* fakedns *)

ReadLine ==
  /\ phase = "config"
  /\ Conf!ReadLine
  /\ UNCHANGED <<client, data, phase, vars>>

\* Whether the condition of the AAAA branch holds.  A random number may be 0.
Natives ==
  CASE config.aaaa_mode = "YES" -> {TRUE}
    [] config.aaaa_mode = "NO" -> {FALSE}
    [] config.aaaa_mode = "PROBABILITY" -> IF config.aaaa_probability = 100 THEN {TRUE} ELSE BOOLEAN
-------------------------------------------------------------------------------
(* Query::operator() of mtd64-ng *)

\* recvfrom() cuts the datagram to response_maxlength_.
ClientSends(q) ==
  /\ phase = "config"
  /\ Conf!Loaded
  /\ client' = q
  /\ data' = SubSeq(q.bytes, 1, Min({buflen, Len(q.bytes)}))
  /\ phase' = "forward"
  /\ UNCHANGED <<confVars, vars>>

\* The bytes of data_ as a buffer.
Data == BufferOf(data)

\* recvfrom() writes a to the answer buffer, over what was there.  The DNSPacket is new.
ReceiveAnswer(a) ==
  /\ dgram' = a
  /\ len' = Min({buflen, Len(a)})
  /\ bytes' = Write(bytes, 0, SubSeq(a, 1, len'))
  /\ question' = <<>> /\ answer' = <<>> /\ authority' = <<>> /\ additional' = <<>>
  /\ labels' = <<>>
  /\ begin' = HeaderSize
  /\ next' = 1
  /\ pc' = "header"
  /\ UNCHANGED buflen

\* No answer comes: fakedns throws away what it cannot parse and names that are no address.
\* Both programs look for a standard query first, so what is none stops at mtd64-ng; a
\* datagram without a whole header stops here or there, as the rest of the buffer has it.
Ignore ==
  /\ phase = "forward"
  /\ \E leftover \in Leftovers : FakeAnswer(data, TRUE, leftover) = <<>>
  /\ phase' = "silent"
  /\ UNCHANGED <<confVars, client, data, vars>>

Forward ==
  /\ phase = "forward"
  /\ \E native \in Natives, leftover \in Leftovers :
       /\ FakeAnswer(data, native, leftover) # <<>>
       /\ ReceiveAnswer(FakeAnswer(data, native, leftover))
  /\ phase' = "first"
  /\ UNCHANGED <<confVars, client, data>>

\* DNSPacket packet{answer.get(), ...}
Parse ==
  /\ phase = "first"
  /\ HeaderTooSmall \/ ReadHeader \/ ReadEntry \/ EntryTooLong
  /\ UNCHANGED <<confVars, client, data, phase>>

Parsed == phase = "first" /\ pc = "entries" /\ Unparsed = {}

\* Bug: the type asked for is not looked at.
SynthesizesForAnyType ==
  /\ Field(bytes, 0, 4) # NXDomain
  /\ ~(/\ Count(bytes, 2) >= 1
       /\ \E i \in DOMAIN answer : U16(bytes, answer[i].qtype) = TypeAAAA)

\* The condition of the if.
Synthesizes ==
  /\ U16(bytes, question[1].qtype) = TypeAAAA
  /\ Field(bytes, 0, 4) # NXDomain
  /\ ~(/\ Count(bytes, 2) >= 1
       /\ \E i \in DOMAIN answer : U16(bytes, answer[i].qtype) = TypeAAAA)

PassOn ==
  /\ Parsed
  /\ ~Synthesizes
  /\ phase' = "passed"
  /\ UNCHANGED <<confVars, client, data, vars>>

\* qpacket.question_[0].qtype(QType::A) writes into data_, where the question is found
\* as in any packet.
Retyped ==
  LET q == EntryAt(Data, HeaderSize, Len(data), 1)
  IN Slice(Write16(Data, q.qtype, TypeA), 0, Len(data))

LookUpA ==
  /\ Parsed
  /\ Synthesizes
  /\ data' = Retyped
  /\ \E leftover \in Leftovers :
       \/ /\ FakeAnswer(Retyped, TRUE, leftover) # <<>>
          /\ ReceiveAnswer(FakeAnswer(Retyped, TRUE, leftover))
          /\ phase' = "second"
       \/ /\ FakeAnswer(Retyped, TRUE, leftover) = <<>>
          /\ phase' = "silent"
          /\ UNCHANGED vars
  /\ UNCHANGED <<confVars, client>>

Translate ==
  /\ phase = "second"
  /\ Next
  /\ UNCHANGED <<confVars, client, data, phase>>

BedNext ==
  \/ ReadLine
  \/ \E q \in TestQueries : ClientSends(q)
  \/ Ignore \/ Forward \/ Parse \/ PassOn \/ LookUpA \/ Translate

BedSpec == BedInit /\ [][BedNext]_bedVars
-------------------------------------------------------------------------------
(* Properties *)

Replied == client # NoClient /\ (phase = "passed" \/ (phase = "second" /\ pc = "sent"))

\* What line l says of AAAA records: that there are, that there may be or, also if it cannot be
\* read, that there are none.
NativeSaid(l) ==
  IF l.begin = "1" THEN {TRUE}
  ELSE IF l.begin # "0" /\ l.num \in 0..100 THEN BOOLEAN ELSE {FALSE}

\* The last have-AAAA line decides.  Without one there may be AAAA records or not.
NativeAsSaid ==
  LET lines == Conf!LastLines("have-AAAA")
  IN IF lines = {} THEN BOOLEAN ELSE UNION {NativeSaid(conf[i]) : i \in lines}

\* The question of the client and, if it was one for an address, a record with it: native or
\* in the prefix of mtd64-ng.
Expected(q, native) ==
  LET question1 == Meaning(BufferOf(q.bytes), Len(q.bytes))[1]
      record(data1) == <<[section |-> 2, owner |-> question1.owner, type |-> q.type, class |-> 1,
                          ttl |-> <<0, 0, 0, 0>>, target |-> <<>>, data |-> data1]>>
  IN <<question1>> \o
       IF q.type = TypeA THEN record(q.address)
       ELSE IF q.type = TypeAAAA THEN record((IF native THEN IPv6Prefix ELSE Prefix) \o q.address)
       ELSE <<>>

\* The pair of programs does what a test client checks: the address it spelt in the name
\* comes back in one record of that name and of the type it asked for, native or
\* synthesized as the last have-AAAA line of fakedns has it, in a response with the
\* client's id, and never in answer to a datagram that was cut off.  The text of the name, the
\* type overwritten in the client's packet, the compression pointer of fakedns' record, what
\* the first answer left in the buffer, and the resizing and repointing must all agree for it.
ReplyAsConfigured ==
  Replied /\ client.proper =>
    /\ Len(client.bytes) <= buflen
    /\ \E native \in NativeAsSaid : Meaning(bytes, len) = Expected(client, native)
    /\ U16(bytes, 0) = U16(BufferOf(client.bytes), 0)
    /\ Field(bytes, 15, 1) = 1 /\ Field(bytes, 0, 4) = 0

\* The name asked for by the bytes of q has no text.
AsksForRoot(q) ==
  LET b == BufferOf(q.bytes)
      n == Len(q.bytes)
  IN n >= HeaderSize /\ AllFit(b, n) /\ LabelsToString(b, AllLabels(b, n)) = <<>>


\* The settings of fakedns are those of the last line that names them (FakeConfig).
LastFakeLineDecides == Conf!LastFakeLineDecides
===============================================================================
