------------------------------- MODULE MCTestBed -------------------------------
(* Values of the constants of TestBed for TLC; those of DNSPacket are in MCDNSPacket. *)
EXTENDS TestBed, MCDNSPacket

Decimal(n, padded) ==
  IF n >= 100 \/ padded THEN <<48 + n \div 100, 48 + ((n \div 10) % 10), 48 + (n % 10)>>
  ELSE IF n >= 10 THEN <<48 + n \div 10, 48 + (n % 10)>> ELSE <<48 + n>>

\* The test client's name of an address, 192-000-002-001.dns64perf.test, with and
\* without the leading zeros.
HostLabel(a, padded) ==
  Decimal(a[1], padded) \o <<Minus>> \o Decimal(a[2], padded) \o <<Minus>>
    \o Decimal(a[3], padded) \o <<Minus>> \o Decimal(a[4], padded)

Dns64perf == <<9, 100, 110, 115, 54, 52, 112, 101, 114, 102>>
Test == <<4, 116, 101, 115, 116>>

Ask(a, type, flags, label) ==
  [address |-> a, type |-> type, proper |-> flags = 1 /\ Len(label) > 1,
   bytes |-> <<0, 9, flags, 0, 0, 1, 0, 0, 0, 0, 0, 0>>
               \o <<Len(label)>> \o label
               \o Dns64perf \o Test \o <<0>> \o Two(type) \o <<0, 1>>]

Addresses == {<<192, 0, 2, 1>>, <<10, 99, 100, 255>>, <<0, 0, 0, 0>>}

Zeros == Ask(<<0, 0, 0, 0>>, TypeAAAA, 1, HostLabel(<<0, 0, 0, 0>>, TRUE))

\* A question for the root.
Root == [Zeros EXCEPT !.proper = FALSE, !.bytes = SubSeq(@, 1, 12) \o <<0>> \o Two(TypeAAAA) \o <<0, 1>>]

\* What an earlier name has left of its text, or nothing that is an address.
SomeLeftovers == {HostLabel(<<192, 0, 2, 1>>, FALSE) \o <<Dot>>, <<Dot>>}

\* Besides, a response, another opcode, names that are no address or half of one, a query with a
\* record less than its header says, the root, and queries that end in the header, in the name
\* and in the type.
SomeTestQueries ==
  {Ask(a, type, 1, HostLabel(a, padded)) :
     a \in Addresses, type \in {TypeA, TypeNS, TypeAAAA}, padded \in BOOLEAN}
  \cup {Ask(<<0, 0, 0, 0>>, TypeAAAA, flags, HostLabel(<<0, 0, 0, 0>>, TRUE)) : flags \in {129, 17}}
  \cup {Ask(<<0, 0, 0, 0>>, TypeAAAA, 1, <<Minus>>)}
  \cup {[Ask(<<0, 0, 0, 0>>, TypeAAAA, 1, Decimal(10, FALSE) \o <<Minus>> \o Decimal(99, FALSE))
           EXCEPT !.proper = FALSE]}
  \cup {[Zeros EXCEPT !.proper = FALSE, !.bytes[12] = 1], Root}
  \cup {[Zeros EXCEPT !.proper = FALSE, !.bytes = SubSeq(@, 1, n)] : n \in {2, 11, 30, 45}}

Say(key, start, num) == [key |-> key, begin |-> start, num |-> num]

\* 1, 0, 0.5, 1 with a sign, no number, not a number, out of range.
ModeLines ==
  {Say("have-AAAA", "1", 100), Say("have-AAAA", "0", 0), Say("have-AAAA", "0.", 50),
   Say("have-AAAA", "other", 100), Say("have-AAAA", "other", NoNumber),
   Say("have-AAAA", "other", 200)}

\* The other settings, each set twice: to what can be read, and to what cannot or wraps.
OtherFiles ==
  {<<Say("debug", "yes", NoNumber), Say("num-threads", "other", m), Say("port", "other", 54),
     Say("debug", "other", NoNumber), Say("num-threads", "other", n), Say("port", "other", p)>> :
     m \in {5, 32768}, n \in {65538, NoNumber}, p \in {65590, NoNumber}}

SomeConfs ==
  {<<>>} \cup {<<l>> : l \in ModeLines} \cup {<<k, l>> : k, l \in ModeLines} \cup OtherFiles
===============================================================================
