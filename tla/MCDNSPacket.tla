------------------------------ MODULE MCDNSPacket ------------------------------
(***************************************************************************)
(* Values of the constants of DNSPacket for TLC: the answers of a name     *)
(* server to a question about one name, encoded with or without            *)
(* compression of the owners' names and of the names in rdata.             *)
(***************************************************************************)
EXTENDS DNSPacket

\* A name is a sequence of labels, each of one byte.
Zone == <<122>>
Host == <<104>> \o Zone
Alias == <<97>> \o Zone
Provider == <<112>>
NS1 == <<110>> \o Provider
NS2 == <<109>> \o Provider

Address(owner, last) == [owner |-> owner, type |-> TypeA, target |-> <<>>, data |-> <<192, 0, 2, last>>]
Native(owner) == [owner |-> owner, type |-> TypeAAAA, target |-> <<>>, data |-> [i \in 1..16 |-> i]]
Points(owner, type, target) == [owner |-> owner, type |-> type, target |-> target, data |-> <<>>]

AnswerSections ==
  {<<>>,
   <<Address(Host, 1)>>,
   <<Address(Host, 1), Address(Host, 2)>>,
   <<Address(Host, 1), Native(Host)>>,
   <<Points(Host, TypeCNAME, Alias)>>,
   <<Points(Host, TypeCNAME, Alias), Address(Alias, 1), Address(Alias, 2)>>,
   <<Address(Alias, 1), Points(Host, TypeCNAME, Alias), Address(Alias, 2)>>}

AuthoritySections ==
  {<<>>,
   <<Points(Zone, TypeNS, NS1)>>,
   <<Points(Zone, TypeNS, NS1), Points(Zone, TypeNS, NS2)>>}

AdditionalSections == {<<>>, <<Address(NS1, 53)>>}

\* The 16 bits of v.
Sixteen(v) == <<v \div 256, v % 256>>

\* A message under construction: its bytes, and where a suffix of a name was written.
Suffix(name, k) == SubSeq(name, k, Len(name))

AddName(m, name, compress) ==
  LET known == IF compress
               THEN {k \in DOMAIN name : Suffix(name, k) \in DOMAIN m.written}
               ELSE {}
      cut == IF known = {} THEN Len(name) + 1 ELSE CHOOSE k \in known : \A j \in known : k <= j
      places == [s \in {Suffix(name, k) : k \in 1..cut - 1} |->
                   Len(m.bytes) + 2 * (Len(name) - Len(s))]
  IN [bytes |-> m.bytes \o FlattenSeq([k \in 1..cut - 1 |-> <<1, name[k]>>])
                  \o (IF known = {} THEN <<0>>
                      ELSE Sixteen(3 * 2^14 + m.written[Suffix(name, cut)])),
      written |-> [s \in DOMAIN m.written \cup DOMAIN places |->
                     IF s \in DOMAIN m.written THEN m.written[s] ELSE places[s]]]

AddBytes(m, data) == [m EXCEPT !.bytes = @ \o data]

\* Type, class IN and a time to live follow the owner; the rdlength is filled in last.
AddRecord(m, r, compress) ==
  LET head == AddBytes(AddName(m, r.owner, "owners" \in compress),
                       Sixteen(r.type) \o <<0, 1, 0, 0, 1, 44, 0, 0>>)
      full == IF r.target = <<>> THEN AddBytes(head, r.data)
              ELSE AddName(head, r.target, "rdata" \in compress)
      size == Len(full.bytes) - Len(head.bytes)
  IN [full EXCEPT !.bytes[Len(head.bytes)] = size]

Header(an, ns, ar) == <<0, 7, 129, 128, 0, 1, 0, Len(an), 0, Len(ns), 0, Len(ar)>>

Message(an, ns, ar, compress) ==
  LET asked == AddBytes(AddName([bytes |-> Header(an, ns, ar), written |-> <<>>], Host, FALSE),
                        Sixteen(TypeA) \o <<0, 1>>)
  IN FoldLeft(LAMBDA m, r : AddRecord(m, r, compress), asked, an \o ns \o ar).bytes

Proper ==
  {Message(an, ns, ar, compress) :
     an \in AnswerSections, ns \in AuthoritySections, ar \in AdditionalSections,
     compress \in SUBSET {"owners", "rdata"}}

\* A record more than is there, a label of illegal size, an A record too long for AAAA,
\* bytes behind the last record.
SomeMalformed ==
  {[Message(<<Address(Host, 1)>>, <<>>, <<>>, {}) EXCEPT ![8] = 2],
   [Message(<<Address(Host, 1)>>, <<>>, <<>>, {}) EXCEPT ![13] = 64],
   Message(<<[Address(Host, 1) EXCEPT !.data = [i \in 1..20 |-> i]]>>, <<>>, <<>>, {}),
   Message(<<Address(Host, 1)>>, <<>>, <<>>, {"owners"}) \o <<192, 12, 0>>}

SomeDatagrams == Proper \cup SomeMalformed

\* On either side of no room, room for one more address and room for two.
SomeRooms == {-40, -1, 0, 11, 12, 23, 24, 60}

WellKnownPrefix == <<0, 100, 255, 155, 0, 0, 0, 0, 0, 0, 0, 0>>
===============================================================================
