------------------------------ MODULE ServerConfig ----------------------------
(***************************************************************************)
(* Server::loadConfig() and Server::synth() (src/mtd64-ng/server.cpp): how *)
(* the settings come about line by line, what a line that cannot be read   *)
(* does to them, and the IPv6 address they lead to.                        *)
(*                                                                         *)
(* A line is its key and what follows it: a word, or the numbers scanf()   *)
(* reads.  Comments, blank lines and unknown keys change nothing and are   *)
(* left out.  /etc/resolv.conf is read by the same function when a line    *)
(* says "nameserver default"; it does not say so itself.                   *)
(***************************************************************************)
EXTENDS Integers, FiniteSets, Sequences, SequencesExt, Scanf

CONSTANTS ConfLines,     \* the lines of /etc/mtd64-ng.conf that are considered
          ResolvLines,   \* those of /etc/resolv.conf
          Garbage,       \* what a variable holds that was never set
          MaxLines       \* bound: lines read altogether

\* After the key: a word, or a number, with the digits after its decimal point.
Line == [key : STRING, word : STRING, num : Int, frac : Nat, digits : Nat]

ASSUME LinesAssumption ==
  /\ ConfLines \cup ResolvLines \subseteq Line
  /\ \A l \in ResolvLines : ~(l.key = "nameserver" /\ l.word = "default")

VARIABLES config,    \* the members of Server
          file,      \* the file that is being read
          success,   \* loadConfig()'s `success`
          read       \* history: the lines read, in order

vars == <<config, file, success, read>>

ValidPrefixes == {32, 40, 48, 56, 64, 96}
MaxSec == 32767
MaxUsec == 999999

Config ==
  [dns_servers : Seq(STRING), sel_mode : {"ROUND_ROBIN", "RANDOM"},
   prefix : (0 .. UCharMax) \cup {Garbage}, ipv6 : {"address", Garbage}, debug : BOOLEAN,
   timeout : [sec : 0 .. MaxSec, usec : 0 .. MaxUsec], resend_attempts : 0 .. ShortMax,
   num_threads : 0 .. ShortMax, response_maxlength : 0 .. ShortMax, port : 0 .. UShortMax]

TypeOK ==
  /\ config \in Config
  /\ file \in {"conf", "resolv", "closed", "threw"}
  /\ success \in BOOLEAN
  /\ read \in Seq(Line)

\* The constructor of Server. ipv6_ and ipv6_prefix_ are left as they are.
Defaults ==
  [dns_servers |-> <<>>, sel_mode |-> "RANDOM", prefix |-> Garbage, ipv6 |-> Garbage,
   debug |-> FALSE, timeout |-> [sec |-> 1, usec |-> 0], resend_attempts |-> 2,
   num_threads |-> 10, response_maxlength |-> 512, port |-> 53]

Init ==
  /\ config = Defaults
  /\ file = "conf"
  /\ success = TRUE
  /\ read = <<>>
-------------------------------------------------------------------------------
(* Numbers *)

\* Bug: the sign of the number is looked at, not that of what was stored.
ShortOrUnchecked(l, default) ==
  IF l.word = "number" /\ l.num >= 0 THEN Short(l.num) ELSE default

\* A number that was stored as a negative short, or none: the default.
ShortOr(l, default) ==
  IF l.word = "number" /\ Short(l.num) >= 0 THEN Short(l.num) ELSE default

\* "%ld.%ld" seconds and microseconds, or 1 s.
TimeoutOf(l) ==
  IF l.word = "decimal" /\ l.num \in 0 .. MaxSec /\ l.frac <= MaxUsec
    THEN [sec |-> l.num, usec |-> l.frac]
    ELSE [sec |-> 1, usec |-> 0]
-------------------------------------------------------------------------------
(* The branches of the loop *)

Key(l, k) == l.key = k /\ UNCHANGED <<file, success>>

\* Bug: the servers of /etc/resolv.conf take the place of those before.
NameserverInstead(l) ==
  /\ l.key = "nameserver"
  /\ l.word # "default"
  /\ config' = IF l.word = "invalid" THEN config
               ELSE [config EXCEPT !.dns_servers =
                       IF file = "resolv" THEN <<l.word>> ELSE Append(@, l.word)]
  /\ UNCHANGED <<file, success>>

\* An address that inet_pton() does not take is skipped.
Nameserver(l) ==
  /\ l.key = "nameserver"
  /\ l.word # "default"
  /\ config' = IF l.word = "invalid" THEN config
               ELSE [config EXCEPT !.dns_servers = Append(@, l.word)]
  /\ UNCHANGED <<file, success>>

\* loadConfig("/etc/resolv.conf"), which throws if there is no such file.
NameserverDefault(l) ==
  /\ l.key = "nameserver"
  /\ l.word = "default"
  /\ file' \in {"resolv", "threw"}
  /\ UNCHANGED <<config, success>>

SelectionMode(l) ==
  /\ Key(l, "selection-mode")
  /\ config' = [config EXCEPT !.sel_mode =
                  IF l.word = "round-robin" THEN "ROUND_ROBIN" ELSE "RANDOM"]

\* Bug: a bad length is reported and the reading goes on.
Dns64PrefixGoingOn(l) ==
  /\ l.key = "dns64-prefix"
  /\ config' = [config EXCEPT !.prefix = IF l.word = "nolength" THEN @ ELSE UChar(l.num),
                              !.ipv6 = IF l.word = "address" THEN "address" ELSE @]
  /\ UNCHANGED <<file, success>>

\* The length is stored before it is checked, and checked before the address is
\* read. Any error fails the loading of this file and breaks out of the loop: no
\* further line of it is read. That of /etc/resolv.conf fails unnoticed.
Dns64Prefix(l) ==
  /\ l.key = "dns64-prefix"
  /\ LET valid == l.word # "nolength" /\ UChar(l.num) \in ValidPrefixes
     IN  /\ config' = [config EXCEPT
              !.prefix = IF l.word = "nolength" THEN @ ELSE UChar(l.num),
              !.ipv6 = IF valid /\ l.word = "address" THEN "address" ELSE @]
         /\ IF valid /\ l.word = "address"
              THEN UNCHANGED <<file, success>>
              ELSE \/ file = "conf" /\ file' = "closed" /\ success' = FALSE
                   \/ file = "resolv" /\ file' = "conf" /\ UNCHANGED success

Debugging(l) ==
  /\ Key(l, "debugging")
  /\ config' = [config EXCEPT !.debug = (l.word = "yes")]

TimeoutTime(l) ==
  /\ Key(l, "timeout-time")
  /\ config' = [config EXCEPT !.timeout = TimeoutOf(l)]

\* Bug: a line that cannot be read leaves the setting as it was.
ResendAttemptsKept(l) ==
  /\ Key(l, "resend-attempts")
  /\ config' = [config EXCEPT !.resend_attempts = ShortOr(l, @)]

ResendAttempts(l) ==
  /\ Key(l, "resend-attempts")
  /\ config' = [config EXCEPT !.resend_attempts = ShortOr(l, 2)]

NumThreads(l) ==
  /\ Key(l, "num-threads")
  /\ config' = [config EXCEPT !.num_threads = ShortOr(l, 10)]

ResponseMaxlength(l) ==
  /\ Key(l, "response-maxlength")
  /\ config' = [config EXCEPT !.response_maxlength = ShortOr(l, 512)]

Port(l) ==
  /\ Key(l, "port")
  /\ config' = [config EXCEPT !.port = IF l.word = "number" THEN UShort(l.num) ELSE 53]

\* while (fgets(...))
ReadLine(l) ==
  /\ Len(read) < MaxLines
  /\ read' = Append(read, l)
  /\ \/ Nameserver(l)
     \/ NameserverDefault(l)
     \/ SelectionMode(l)
     \/ Dns64Prefix(l)
     \/ Debugging(l)
     \/ TimeoutTime(l)
     \/ ResendAttempts(l)
     \/ NumThreads(l)
     \/ ResponseMaxlength(l)
     \/ Port(l)

\* The recursive call returns, its result unused, and the outer loop goes on.
EndOfResolv ==
  /\ file = "resolv"
  /\ file' = "conf"
  /\ UNCHANGED <<config, success, read>>

EndOfConf ==
  /\ file = "conf"
  /\ file' = "closed"
  /\ success' = (success /\ config.dns_servers # <<>>)
  /\ UNCHANGED <<config, read>>

Next ==
  \/ file = "conf" /\ \E l \in ConfLines : ReadLine(l)
  \/ file = "resolv" /\ \E l \in ResolvLines : ReadLine(l)
  \/ EndOfResolv
  \/ EndOfConf

Spec == Init /\ [][Next]_vars
-------------------------------------------------------------------------------
(* Server::synth() *)

\* The bytes of v4, and those of ipv6_, by number.
V4 == [i \in 0 .. 3 |-> <<"v4", i>>]
IPv6 == [i \in 0 .. 15 |-> <<"ipv6", i>>]
Zero == <<"zero", 0>>

\* The copies of the switch: <<length of the prefix, to, from, count>>.
Copies ==
  {<<32, 4, 0, 4>>, <<40, 5, 0, 3>>, <<40, 9, 3, 1>>, <<48, 6, 0, 2>>, <<48, 9, 2, 2>>,
   <<56, 7, 0, 1>>, <<56, 9, 1, 3>>, <<64, 9, 0, 4>>, <<96, 12, 0, 4>>}

\* Copy c of the branch for length writes byte i.
Writes(c, length, i) == c[1] = length /\ i \in c[2] .. c[2] + c[4] - 1

\* memset(), memcpy() of the prefix, then the copies of the switch.
Synth(length) ==
  [i \in 0 .. 15 |->
     IF \E c \in Copies : Writes(c, length, i)
       THEN LET c == CHOOSE c \in Copies : Writes(c, length, i)
            IN  V4[c[3] + i - c[2]]
       ELSE IF i < length \div 8 THEN IPv6[i] ELSE Zero]

\* RFC 6052, 2.2: the prefix, the four bytes of the address with byte 8 left out,
\* and zeros.  The k-th byte of the address is at Place(p, k).
Place(p, k) == IF p <= 8 /\ 8 <= p + k THEN p + k + 1 ELSE p + k

EmbeddedAddress(length) ==
  LET p == length \div 8
  IN  [i \in 0 .. 15 |->
         IF i < p THEN IPv6[i]
         ELSE IF \E k \in 0 .. 3 : Place(p, k) = i
                THEN V4[CHOOSE k \in 0 .. 3 : Place(p, k) = i]
                ELSE Zero]
-------------------------------------------------------------------------------
(* Properties *)

\* Line i of ls is the last with key k.
LastWith(ls, k, i) ==
  i \in 1 .. Len(ls) /\ ls[i].key = k /\ \A j \in i + 1 .. Len(ls) : ls[j].key # k

\* The settings by their keys.
Setting(c, k) ==
  CASE k = "resend-attempts" -> c.resend_attempts
    [] k = "num-threads" -> c.num_threads
    [] k = "response-maxlength" -> c.response_maxlength
    [] k = "port" -> c.port
    [] k = "selection-mode" -> c.sel_mode
    [] k = "debugging" -> c.debug
    [] k = "timeout-time" -> c.timeout
    [] k = "dns64-prefix" -> [length |-> c.prefix, ipv6 |-> c.ipv6]

Shorts == {"resend-attempts", "num-threads", "response-maxlength"}
Keys == Shorts \cup {"port", "selection-mode", "debugging", "timeout-time", "dns64-prefix"}

\* The lengths that a prefix line may be taken to give, and whether it gives a prefix.
LengthsSaid(l) == {p \in ValidPrefixes : (l.num - p) % 256 = 0}
GoodPrefix(l) == l.word = "address" /\ LengthsSaid(l) # {}

\* l says the number v, up to the width of a variable.
SaysNumber(l, v) == l.word = "number" /\ (l.num - v) % 65536 = 0

DefaultOf(l) == Setting(Defaults, l.key)

\* The number, or the default if there is none, or one that is stored as a negative one.
SaysShort(l, v) ==
  \/ SaysNumber(l, v) /\ v \in 0 .. ShortMax
  \/ (l.word = "number" => l.num % 65536 > ShortMax) /\ v = DefaultOf(l)

SaysPort(l, v) ==
  \/ SaysNumber(l, v) /\ v \in 0 .. UShortMax
  \/ l.word # "number" /\ v = DefaultOf(l)

\* A fraction of a second is one if it has six digits.
SaysTimeout(l, v) ==
  \/ l.word = "decimal" /\ v.sec = l.num /\ (l.digits = 6 => v.usec = l.frac)
  \/ (l.word = "decimal" => l.num \notin 0 .. MaxSec \/ l.frac > MaxUsec) /\ v = DefaultOf(l)

\* Line l makes its setting v.  After a bad prefix there may be any.
Says(l, v) ==
  \/ l.key \in Shorts /\ SaysShort(l, v)
  \/ l.key = "port" /\ SaysPort(l, v)
  \/ l.key = "selection-mode" /\ (v = "ROUND_ROBIN" <=> l.word = "round-robin")
  \/ l.key = "debugging" /\ v = (l.word = "yes")
  \/ l.key = "timeout-time" /\ SaysTimeout(l, v)
  \/ l.key = "dns64-prefix" /\
       (GoodPrefix(l) => v.ipv6 = "address" /\ v.length \in LengthsSaid(l))

\* v is what the last of the lines ls with key k says, or else the default.
Decided(ls, k, v) ==
  /\ \A i \in 1 .. Len(ls) : LastWith(ls, k, i) => Says(ls[i], v)
  /\ (\A i \in 1 .. Len(ls) : ls[i].key # k) => v = Setting(Defaults, k)

\* For each setting the last line decides, whatever lines came before, in either
\* file, and a line that cannot be read brings the default back.
LastLineDecides == \A k \in Keys : Decided(read, k, Setting(config, k))

\* A line that names a server, by an address inet_pton() takes.
Names(l) == l.key = "nameserver" /\ l.word \notin {"default", "invalid"}

NamingLines(ls) == {i \in 1 .. Len(ls) : Names(ls[i])}

\* The k-th of the lines ls that names a server gives the k-th of the servers.
InOrderOf(servers, ls) ==
  /\ Len(servers) = Cardinality(NamingLines(ls))
  /\ \A i \in NamingLines(ls) : servers[Cardinality(NamingLines(ls) \cap 1 .. i)] = ls[i].word

\* The name servers are those of both files, in the order of the lines, those of
\* /etc/resolv.conf where it is referred to.
ServersInOrder == InOrderOf(config.dns_servers, read)

\* If loading succeeds there is a name server to ask, every prefix line that was no good
\* stands in /etc/resolv.conf, and if the last prefix line of all is good the addresses
\* synthesized are those of RFC 6052 for its length.  Without a prefix line, or after
\* the bad one, synth() works with what ipv6_ and ipv6_prefix_ happen to hold.
SuccessMeansUsable ==
  file = "closed" /\ success =>
    /\ config.dns_servers # <<>>
    /\ \A i \in 1 .. Len(read) :
         /\ read[i].key = "dns64-prefix" /\ ~GoodPrefix(read[i]) => read[i] \in ResolvLines
         /\ LastWith(read, "dns64-prefix", i) /\ GoodPrefix(read[i]) =>
              /\ config.ipv6 = "address"
              /\ \E p \in LengthsSaid(read[i]) : Synth(config.prefix) = EmbeddedAddress(p)
===============================================================================
