-------------------------- MODULE ServerConfigProofs --------------------------
(***************************************************************************)
(* ServerConfig for files of any length with any lines: the settings keep  *)
(* their types whatever is written in the file, the last line decides, and *)
(* a configuration that was loaded can be used.                            *)
(***************************************************************************)
EXTENDS ServerConfig, FiniteSetTheorems, TLAPS

\* The branches of the loop.
LineRead(l) ==
  \/ Nameserver(l) \/ NameserverDefault(l) \/ SelectionMode(l) \/ Dns64Prefix(l)
  \/ Debugging(l) \/ TimeoutTime(l) \/ ResendAttempts(l) \/ NumThreads(l)
  \/ ResponseMaxlength(l) \/ Port(l)

\* A bad prefix in /etc/mtd64-ng.conf fails the loading for good.
BadPrefixes ==
  success => \A i \in 1 .. Len(read) :
    read[i].key = "dns64-prefix" /\ ~GoodPrefix(read[i]) => read[i] \in ResolvLines

ServersThere == file = "closed" /\ success => config.dns_servers # <<>>

IInv == TypeOK /\ LastLineDecides /\ ServersInOrder /\ BadPrefixes /\ ServersThere
-------------------------------------------------------------------------------
(* Numbers *)

\* What a conversion stores fits its variable, whatever number the line holds.
LEMMA ShortRange == \A n \in Int : Short(n) \in Int /\ Short(n) <= ShortMax
BY DEF Short, ShortMax

LEMMA UShortRange == \A n \in Int : UShort(n) \in Nat /\ UShort(n) <= UShortMax
BY DEF UShort, UShortMax

LEMMA UCharRange == \A n \in Int : UChar(n) \in Nat /\ UChar(n) <= UCharMax
BY DEF UChar, UCharMax

\* The defaults are in the ranges.
LEMMA Limits ==
  /\ ShortMax \in Nat /\ UShortMax \in Nat /\ UCharMax \in Nat /\ MaxSec \in Nat /\ MaxUsec \in Nat
  /\ 512 <= ShortMax /\ 53 <= UShortMax /\ 1 <= MaxSec
BY DEF ShortMax, UShortMax, UCharMax, MaxSec, MaxUsec

\* What is stored differs from what was written by a multiple of the width.
LEMMA ShortStored ==
  \A n \in Int : /\ (n - Short(n)) % 65536 = 0
                 /\ Short(n) < 0 => n % 65536 > ShortMax
<1>1. \A n \in Int : (n - Short(n)) % 65536 = 0
  BY DEF Short
<1>2. \A n \in Int : Short(n) < 0 => n % 65536 > ShortMax
  BY DEF Short, ShortMax
<1>3. QED
  BY <1>1, <1>2

LEMMA UShortStored == \A n \in Int : (n - UShort(n)) % 65536 = 0
BY DEF UShort

LEMMA UCharStored ==
  \A n \in Int, p \in ValidPrefixes : (n - p) % 256 = 0 <=> UChar(n) = p
<1>1. \A n \in Int, p \in 0 .. 255 : (n - p) % 256 = 0 <=> UChar(n) = p
  BY DEF UChar
<1>2. ValidPrefixes \subseteq 0 .. 255
  BY DEF ValidPrefixes
<1>3. QED
  BY <1>1, <1>2

LEMMA ShortOrType ==
  ASSUME NEW l \in Line, NEW d \in Nat, d <= 512
  PROVE  ShortOr(l, d) \in 0 .. ShortMax
<1>1. l.num \in Int
  BY DEF Line
<1>2. Short(l.num) \in Int /\ Short(l.num) <= ShortMax
  BY <1>1, ShortRange
<1>3. QED
  BY <1>2, Limits DEF ShortOr

LEMMA TimeoutOfType ==
  ASSUME NEW l \in Line
  PROVE  TimeoutOf(l) \in [sec : 0 .. MaxSec, usec : 0 .. MaxUsec]
BY Limits DEF TimeoutOf, Line
-------------------------------------------------------------------------------
(* Lines *)

\* A line keeps the types of the settings.
LEMMA LineKeepsTypes ==
  ASSUME TypeOK, NEW l \in Line, LineRead(l)
  PROVE  config' \in Config /\ file' \in {"conf", "resolv", "closed", "threw"} /\ success' \in BOOLEAN
<1> USE DEF TypeOK
<1>0. l.key \in STRING /\ l.word \in STRING /\ l.num \in Int
  BY DEF Line
<1>1. CASE Nameserver(l)
  <2> DEFINE servers == Append(config.dns_servers, l.word)
  <2>1. config.dns_servers \in Seq(STRING)
    BY DEF Config
  <2>2. servers \in Seq(STRING)
    BY <1>0, <2>1
  <2>3. config' = config \/ config' = [config EXCEPT !.dns_servers = servers]
    BY <1>1 DEF Nameserver
  <2> HIDE DEF servers
  <2>4. config' \in Config
    BY <2>2, <2>3 DEF Config
  <2>5. QED
    BY <1>1, <2>4 DEF Nameserver
<1>2. CASE NameserverDefault(l)
  BY <1>2 DEF NameserverDefault
<1>3. CASE SelectionMode(l)
  BY <1>3 DEF SelectionMode, Key, Config
<1>4. CASE Dns64Prefix(l)
  <2>1. UChar(l.num) \in 0 .. UCharMax
    <3>1. UChar(l.num) \in Nat /\ UChar(l.num) <= UCharMax
      BY <1>0, UCharRange
    <3>2. QED
      BY <3>1, Limits
  <2>2. PICK p, a :
          /\ p = config.prefix \/ p = UChar(l.num)
          /\ a = config.ipv6 \/ a = "address"
          /\ config' = [config EXCEPT !.prefix = p, !.ipv6 = a]
    BY <1>4, Zenon DEF Dns64Prefix
  <2>3. p \in (0 .. UCharMax) \cup {Garbage} /\ a \in {"address", Garbage}
    BY <2>1, <2>2 DEF Config
  <2>4. config' \in Config
    BY <2>2, <2>3 DEF Config
  <2>5. QED
    BY <1>4, <2>4 DEF Dns64Prefix
<1>5. CASE Debugging(l)
  BY <1>5 DEF Debugging, Key, Config
<1>6. CASE TimeoutTime(l)
  BY <1>6, TimeoutOfType DEF TimeoutTime, Key, Config
<1>7. CASE ResendAttempts(l)
  <2> DEFINE v == ShortOr(l, 2)
  <2>1. v \in 0 .. ShortMax
    BY ShortOrType
  <2>2. config' = [config EXCEPT !.resend_attempts = v] /\ UNCHANGED <<file, success>>
    BY <1>7 DEF ResendAttempts, Key
  <2> HIDE DEF v
  <2>3. QED
    BY <2>1, <2>2 DEF Config
<1>8. CASE NumThreads(l)
  <2> DEFINE v == ShortOr(l, 10)
  <2>1. v \in 0 .. ShortMax
    BY ShortOrType
  <2>2. config' = [config EXCEPT !.num_threads = v] /\ UNCHANGED <<file, success>>
    BY <1>8 DEF NumThreads, Key
  <2> HIDE DEF v
  <2>3. QED
    BY <2>1, <2>2 DEF Config
<1>9. CASE ResponseMaxlength(l)
  <2> DEFINE v == ShortOr(l, 512)
  <2>1. v \in 0 .. ShortMax
    BY ShortOrType
  <2>2. config' = [config EXCEPT !.response_maxlength = v] /\ UNCHANGED <<file, success>>
    BY <1>9 DEF ResponseMaxlength, Key
  <2> HIDE DEF v
  <2>3. QED
    BY <2>1, <2>2 DEF Config
<1>10. CASE Port(l)
  <2> DEFINE port == IF l.word = "number" THEN UShort(l.num) ELSE 53
  <2>1. UShort(l.num) \in Nat /\ UShort(l.num) <= UShortMax
    BY <1>0, UShortRange
  <2>2. port \in 0 .. UShortMax
    BY <2>1, Limits
  <2>3. config' = [config EXCEPT !.port = port] /\ UNCHANGED <<file, success>>
    BY <1>10 DEF Port, Key
  <2> HIDE DEF port
  <2>4. QED
    BY <2>2, <2>3 DEF Config
<1>11. QED
  BY <1>1, <1>2, <1>3, <1>4, <1>5, <1>6, <1>7, <1>8, <1>9, <1>10 DEF LineRead

\* What a line stores, and what it leaves alone.
LEMMA LineStores ==
  ASSUME TypeOK, NEW l \in Line, LineRead(l)
  PROVE  /\ config'.resend_attempts =
              IF l.key = "resend-attempts" THEN ShortOr(l, 2) ELSE config.resend_attempts
         /\ config'.num_threads =
              IF l.key = "num-threads" THEN ShortOr(l, 10) ELSE config.num_threads
         /\ config'.response_maxlength =
              IF l.key = "response-maxlength" THEN ShortOr(l, 512) ELSE config.response_maxlength
         /\ config'.port =
              IF l.key = "port" THEN IF l.word = "number" THEN UShort(l.num) ELSE 53
              ELSE config.port
         /\ config'.sel_mode =
              IF l.key = "selection-mode"
                THEN IF l.word = "round-robin" THEN "ROUND_ROBIN" ELSE "RANDOM"
                ELSE config.sel_mode
         /\ config'.debug = IF l.key = "debugging" THEN l.word = "yes" ELSE config.debug
         /\ config'.timeout = IF l.key = "timeout-time" THEN TimeoutOf(l) ELSE config.timeout
         /\ l.key # "dns64-prefix" =>
              config'.prefix = config.prefix /\ config'.ipv6 = config.ipv6
         /\ l.key = "dns64-prefix" /\ UChar(l.num) \in ValidPrefixes /\ l.word = "address" =>
              config'.prefix = UChar(l.num) /\ config'.ipv6 = "address"
<1>0. config \in Config
  BY DEF TypeOK
<1>1. CASE Nameserver(l)
  BY <1>1, <1>0 DEF Nameserver, Config
<1>2. CASE NameserverDefault(l)
  BY <1>2 DEF NameserverDefault
<1>3. CASE SelectionMode(l)
  BY <1>3, <1>0 DEF SelectionMode, Key, Config
<1>4. CASE Dns64Prefix(l)
  BY <1>4, <1>0 DEF Dns64Prefix, Config
<1>5. CASE Debugging(l)
  BY <1>5, <1>0 DEF Debugging, Key, Config
<1>6. CASE TimeoutTime(l)
  BY <1>6, <1>0 DEF TimeoutTime, Key, Config
<1>7. CASE ResendAttempts(l)
  BY <1>7, <1>0 DEF ResendAttempts, Key, Config
<1>8. CASE NumThreads(l)
  BY <1>8, <1>0 DEF NumThreads, Key, Config
<1>9. CASE ResponseMaxlength(l)
  BY <1>9, <1>0 DEF ResponseMaxlength, Key, Config
<1>10. CASE Port(l)
  BY <1>10, <1>0 DEF Port, Key, Config
<1>11. QED
  BY <1>1, <1>2, <1>3, <1>4, <1>5, <1>6, <1>7, <1>8, <1>9, <1>10 DEF LineRead

\* The settings by their keys, one by one.
LEMMA Settings ==
  ASSUME NEW c
  PROVE  /\ Setting(c, "resend-attempts") = c.resend_attempts
         /\ Setting(c, "num-threads") = c.num_threads
         /\ Setting(c, "response-maxlength") = c.response_maxlength
         /\ Setting(c, "port") = c.port
         /\ Setting(c, "selection-mode") = c.sel_mode
         /\ Setting(c, "debugging") = c.debug
         /\ Setting(c, "timeout-time") = c.timeout
         /\ Setting(c, "dns64-prefix") = [length |-> c.prefix, ipv6 |-> c.ipv6]
BY DEF Setting

\* A line leaves the settings of other keys alone.
LEMMA OthersStay ==
  ASSUME TypeOK, NEW l \in Line, LineRead(l), NEW k \in Keys, l.key # k
  PROVE  Setting(config', k) = Setting(config, k)
<1> USE LineStores, Settings
<1>1. CASE k = "resend-attempts"
  BY <1>1
<1>2. CASE k = "num-threads"
  BY <1>2
<1>3. CASE k = "response-maxlength"
  BY <1>3
<1>4. CASE k = "port"
  BY <1>4
<1>5. CASE k = "selection-mode"
  BY <1>5
<1>6. CASE k = "debugging"
  BY <1>6
<1>7. CASE k = "timeout-time"
  BY <1>7
<1>8. CASE k = "dns64-prefix"
  BY <1>8
<1>9. QED
  BY <1>1, <1>2, <1>3, <1>4, <1>5, <1>6, <1>7, <1>8 DEF Keys, Shorts

\* The value stored of a short number is one the line says.
LEMMA ShortSaid ==
  ASSUME NEW l \in Line, l.key \in Shorts, NEW d \in Nat, d <= 512,
         d = Setting(Defaults, l.key)
  PROVE  Says(l, ShortOr(l, d))
<1> DEFINE v == ShortOr(l, d)
<1>1. l.num \in Int
  BY DEF Line
<1>2. v \in 0 .. ShortMax
  BY ShortOrType
<1>3. CASE l.word = "number" /\ Short(l.num) >= 0
  <2>1. v = Short(l.num)
    BY <1>3 DEF ShortOr
  <2>2. (l.num - v) % 65536 = 0
    BY <1>1, <2>1, ShortStored
  <2> HIDE DEF v
  <2>3. SaysShort(l, v)
    BY <1>2, <1>3, <2>2 DEF SaysShort, SaysNumber
  <2>4. QED
    BY <2>3, Zenon DEF v, Says
<1>4. CASE ~(l.word = "number" /\ Short(l.num) >= 0)
  <2>1. v = d
    BY <1>4 DEF ShortOr
  <2>2. l.word = "number" => l.num % 65536 > ShortMax
    <3>1. Short(l.num) \in Int
      BY <1>1, ShortRange
    <3>2. QED
      BY <1>1, <1>4, <3>1, ShortStored, SMT
  <2> HIDE DEF v
  <2>3. SaysShort(l, v)
    BY <2>1, <2>2 DEF SaysShort, DefaultOf
  <2>4. QED
    BY <2>3, Zenon DEF v, Says
<1>5. QED
  BY <1>3, <1>4

\* A line makes its setting what it says.
LEMMA LineSays ==
  ASSUME TypeOK, NEW l \in Line, LineRead(l), l.key \in Keys
  PROVE  Says(l, Setting(config', l.key))
<1>0. l.num \in Int
  BY DEF Line
<1>1. CASE l.key = "resend-attempts"
  <2>1. Setting(config', l.key) = ShortOr(l, 2)
    BY <1>1, LineStores, Settings
  <2>2. Setting(Defaults, l.key) = 2
    BY <1>1, Settings DEF Defaults
  <2>3. QED
    BY <1>1, <2>1, <2>2, ShortSaid DEF Shorts
<1>2. CASE l.key = "num-threads"
  <2>1. Setting(config', l.key) = ShortOr(l, 10) /\ Setting(Defaults, l.key) = 10
    BY <1>2, LineStores, Settings DEF Defaults
  <2>2. QED
    BY <1>2, <2>1, ShortSaid DEF Shorts
<1>3. CASE l.key = "response-maxlength"
  <2>1. Setting(config', l.key) = ShortOr(l, 512) /\ Setting(Defaults, l.key) = 512
    BY <1>3, LineStores, Settings DEF Defaults
  <2>2. QED
    BY <1>3, <2>1, ShortSaid DEF Shorts
<1>4. CASE l.key = "port"
  <2> DEFINE v == Setting(config', l.key)
  <2>1. v = (IF l.word = "number" THEN UShort(l.num) ELSE 53) /\ Setting(Defaults, l.key) = 53
    BY <1>4, LineStores, Settings DEF Defaults
  <2>2. UShort(l.num) \in 0 .. UShortMax /\ (l.num - UShort(l.num)) % 65536 = 0
    <3>1. UShort(l.num) \in Nat /\ UShort(l.num) <= UShortMax
      BY <1>0, UShortRange
    <3>2. QED
      BY <1>0, <3>1, UShortStored, Limits
  <2> HIDE DEF v
  <2>3. Says(l, v)
    <3>1. SaysPort(l, v)
      BY <2>1, <2>2 DEF SaysPort, SaysNumber, DefaultOf
    <3>2. QED
      BY <1>4, <3>1, Zenon DEF Says
  <2>4. QED
    BY <2>3 DEF v
<1>5. CASE l.key = "selection-mode"
  <2>1. Setting(config', l.key) = IF l.word = "round-robin" THEN "ROUND_ROBIN" ELSE "RANDOM"
    BY <1>5, LineStores, Settings
  <2>2. QED
    BY <1>5, <2>1, Zenon DEF Says
<1>6. CASE l.key = "debugging"
  <2>1. Setting(config', l.key) = (l.word = "yes")
    BY <1>6, LineStores, Settings
  <2>2. QED
    BY <1>6, <2>1, Zenon DEF Says
<1>7. CASE l.key = "timeout-time"
  <2> DEFINE v == Setting(config', l.key)
  <2>1. v = TimeoutOf(l) /\ Setting(Defaults, l.key) = [sec |-> 1, usec |-> 0]
    BY <1>7, LineStores, Settings DEF Defaults
  <2>2. \/ l.word = "decimal" /\ v.sec = l.num /\ v.usec = l.frac
        \/ /\ l.word = "decimal" => l.num \notin 0 .. MaxSec \/ ~(l.frac <= MaxUsec)
           /\ v = [sec |-> 1, usec |-> 0]
    BY <2>1 DEF TimeoutOf
  <2>3. l.frac \in Nat /\ MaxUsec \in Nat
    BY Limits DEF Line
  <2> HIDE DEF v
  <2>4. Says(l, v)
    <3>1. SaysTimeout(l, v)
      BY <2>1, <2>2, <2>3 DEF SaysTimeout, DefaultOf
    <3>2. QED
      BY <1>7, <3>1, Zenon DEF Says
  <2>5. QED
    BY <2>4 DEF v
<1>8. CASE l.key = "dns64-prefix"
  <2> DEFINE v == Setting(config', l.key)
  <2>1. v = [length |-> config'.prefix, ipv6 |-> config'.ipv6]
    BY <1>8, Settings
  <2>2. ASSUME GoodPrefix(l) PROVE v.ipv6 = "address" /\ v.length \in LengthsSaid(l)
    <3>1. PICK p \in ValidPrefixes : (l.num - p) % 256 = 0
      BY <2>2 DEF GoodPrefix, LengthsSaid
    <3>2. UChar(l.num) = p
      BY <1>0, <3>1, UCharStored
    <3>3. config'.prefix = p /\ config'.ipv6 = "address"
      BY <1>8, <2>2, <3>2, LineStores DEF GoodPrefix
    <3>4. QED
      BY <2>1, <3>1, <3>3 DEF LengthsSaid
  <2> HIDE DEF v
  <2>3. Says(l, v)
    BY <1>8, <2>2, Zenon DEF Says
  <2>4. QED
    BY <2>3 DEF v
<1>9. QED
  BY <1>1, <1>2, <1>3, <1>4, <1>5, <1>6, <1>7, <1>8 DEF Keys, Shorts

\* With another line, what it says is decided, or what was decided before.
LEMMA DecidedOneMore ==
  ASSUME NEW ls \in Seq(Line), NEW l \in Line, NEW k, NEW v, NEW w, Decided(ls, k, v),
         l.key = k => Says(l, w),
         l.key # k => w = v
  PROVE  Decided(Append(ls, l), k, w)
<1> DEFINE more == Append(ls, l)
<1>1. Len(more) = Len(ls) + 1 /\ Len(ls) \in Nat /\ more[Len(ls) + 1] = l
  OBVIOUS
<1>2. \A i \in 1 .. Len(ls) : more[i] = ls[i]
  OBVIOUS
<1> HIDE DEF more
<1>3. ASSUME NEW i \in 1 .. Len(more), LastWith(more, k, i)
      PROVE  Says(more[i], w)
  <2>1. CASE i = Len(ls) + 1
    BY <2>1, <1>1, <1>3 DEF LastWith
  <2>2. CASE i # Len(ls) + 1
    <3>1. i \in 1 .. Len(ls) /\ Len(ls) + 1 \in i + 1 .. Len(more)
      BY <2>2, <1>1
    <3>2. l.key # k
      BY <3>1, <1>1, <1>3 DEF LastWith
    <3>3. LastWith(ls, k, i)
      BY <3>1, <1>1, <1>2, <1>3 DEF LastWith
    <3>4. Says(ls[i], v)
      BY <3>1, <3>3 DEF Decided
    <3>5. QED
      BY <3>1, <3>2, <3>4, <1>2
  <2>3. QED
    BY <2>1, <2>2
<1>4. ASSUME \A i \in 1 .. Len(more) : more[i].key # k
      PROVE  w = Setting(Defaults, k)
  <2>1. l.key # k
    BY <1>1, <1>4
  <2>2. \A i \in 1 .. Len(ls) : ls[i].key # k
    BY <1>1, <1>2, <1>4
  <2>3. QED
    BY <2>1, <2>2 DEF Decided
<1>5. Decided(more, k, w)
  BY <1>3, <1>4 DEF Decided
<1>6. QED
  BY <1>5 DEF more

\* What a line does to the servers.
LEMMA LineNames ==
  ASSUME TypeOK, NEW l \in Line, LineRead(l)
  PROVE  config'.dns_servers =
           IF Names(l) THEN Append(config.dns_servers, l.word) ELSE config.dns_servers
<1>1. config \in Config
  BY DEF TypeOK
<1>2. CASE Nameserver(l)
  BY <1>1, <1>2 DEF Nameserver, Names, Config
<1>3. CASE NameserverDefault(l)
  BY <1>3 DEF NameserverDefault, Names
<1>4. CASE ~ Nameserver(l) /\ ~ NameserverDefault(l)
  <2>1. l.key # "nameserver"
    BY <1>4
    DEF LineRead, SelectionMode, Dns64Prefix, Debugging, TimeoutTime, ResendAttempts,
        NumThreads, ResponseMaxlength, Port, Key
  <2>2. config'.dns_servers = config.dns_servers
    BY <1>1, <1>4
    DEF LineRead, SelectionMode, Dns64Prefix, Debugging, TimeoutTime, ResendAttempts,
        NumThreads, ResponseMaxlength, Port, Key, Config
  <2>3. QED
    BY <2>1, <2>2 DEF Names
<1>5. QED
  BY <1>2, <1>3, <1>4

\* With another line there is one more that names a server, or there is not.
LEMMA NamingOneMore ==
  ASSUME NEW ls \in Seq(Line), NEW l \in Line
  PROVE  NamingLines(Append(ls, l)) =
           IF Names(l) THEN NamingLines(ls) \cup {Len(ls) + 1} ELSE NamingLines(ls)
<1> DEFINE more == Append(ls, l)
<1>1. Len(more) = Len(ls) + 1 /\ Len(ls) \in Nat /\ more[Len(ls) + 1] = l
  OBVIOUS
<1>2. \A i \in 1 .. Len(ls) : more[i] = ls[i]
  OBVIOUS
<1> HIDE DEF more
<1>3. NamingLines(more) =
        IF Names(l) THEN NamingLines(ls) \cup {Len(ls) + 1} ELSE NamingLines(ls)
  BY <1>1, <1>2 DEF NamingLines
<1>4. QED
  BY <1>3 DEF more

\* The line appended names the server appended, and the others keep their places.
LEMMA InOrderOneMore ==
  ASSUME NEW ls \in Seq(Line), NEW l \in Line, NEW servers \in Seq(STRING),
         InOrderOf(servers, ls)
  PROVE  InOrderOf(IF Names(l) THEN Append(servers, l.word) ELSE servers, Append(ls, l))
<1> DEFINE more == Append(ls, l)
           N == NamingLines(ls)
           M == NamingLines(more)
           n == Len(ls) + 1
<1>1. n \in Nat /\ 1 <= n /\ l.word \in STRING
  BY DEF Line
<1>2. more[n] = l /\ \A i \in N : i \in 1 .. n - 1 /\ more[i] = ls[i]
  BY DEF NamingLines
<1>3. M = IF Names(l) THEN N \cup {n} ELSE N
  BY NamingOneMore
<1>4. IsFiniteSet(N)
  <2>1. IsFiniteSet(1 .. Len(ls))
    BY FS_Interval
  <2>2. QED
    BY <2>1, FS_Subset DEF NamingLines
<1>5. /\ Len(servers) = Cardinality(N)
      /\ \A i \in N : servers[Cardinality(N \cap 1 .. i)] = ls[i].word
  BY DEF InOrderOf
<1> HIDE DEF more, N, M, n
<1>6. CASE ~ Names(l)
  <2>1. M = N
    BY <1>3, <1>6
  <2>2. InOrderOf(servers, more)
    BY <1>2, <1>5, <2>1 DEF InOrderOf, M
  <2>3. QED
    BY <1>6, <2>2 DEF more
<1>7. CASE Names(l)
  <2> DEFINE all == Append(servers, l.word)
  <2>1. M = N \cup {n} /\ n \notin N
    BY <1>1, <1>2, <1>3, <1>7
  <2>2. Cardinality(M) = Cardinality(N) + 1
    BY <1>4, <2>1, FS_AddElement
  <2>3. Len(all) = Len(servers) + 1 /\ all[Len(servers) + 1] = l.word
        /\ \A k \in 1 .. Len(servers) : all[k] = servers[k]
    BY <1>1
  <2> HIDE DEF all
  <2>4. ASSUME NEW i \in M PROVE all[Cardinality(M \cap 1 .. i)] = more[i].word
    <3>1. CASE i = n
      <4>1. M \cap 1 .. i = M
        <5>1. \A x \in M : x \in 1 .. n
          BY <1>1, <1>2, <2>1
        <5>2. QED
          BY <3>1, <5>1
      <4>2. QED
        BY <1>2, <1>5, <2>2, <2>3, <3>1, <4>1
    <3>2. CASE i # n
      <4>1. i \in N /\ i \in N \cap 1 .. i /\ M \cap 1 .. i = N \cap 1 .. i
        BY <1>1, <1>2, <2>1, <3>2
      <4>2. IsFiniteSet(N \cap 1 .. i) /\ Cardinality(N \cap 1 .. i) <= Cardinality(N)
        <5>1. N \cap 1 .. i \subseteq N
          OBVIOUS
        <5>2. QED
          BY <1>4, <5>1, FS_Subset
      <4>3. Cardinality(N \cap 1 .. i) \in Nat /\ Cardinality(N \cap 1 .. i) # 0
        BY <4>1, <4>2, FS_CardinalityType, FS_EmptySet
      <4> DEFINE k == Cardinality(N \cap 1 .. i)
      <4>4. k \in 1 .. Len(servers)
        <5> HIDE DEF k
        <5>1. k \in Nat /\ k # 0 /\ k <= Len(servers) /\ Len(servers) \in Nat
          BY <1>5, <4>2, <4>3 DEF k
        <5>2. QED
          BY <5>1
      <4>5. servers[k] = ls[i].word
        BY <1>5, <4>1
      <4> HIDE DEF k
      <4>6. all[k] = ls[i].word /\ more[i] = ls[i]
        BY <1>2, <2>3, <4>1, <4>4, <4>5
      <4>7. QED
        BY <4>1, <4>6 DEF k
    <3>3. QED
      BY <3>1, <3>2
  <2>5. InOrderOf(all, more)
    BY <1>5, <2>2, <2>3, <2>4 DEF InOrderOf, M
  <2>6. QED
    BY <1>7, <2>5 DEF all, more
<1>8. QED
  BY <1>6, <1>7

\* A bad prefix is noticed, or it is one of /etc/resolv.conf.
LEMMA LineKeepsPrefix ==
  ASSUME TypeOK, BadPrefixes, NEW l \in Line, LineRead(l), read' = Append(read, l),
         file = "conf" \/ l \in ResolvLines
  PROVE  BadPrefixes'
<1>1. read \in Seq(Line) /\ l.num \in Int
  BY DEF TypeOK, Line
<1>2. \A i \in 1 .. Len(read') : read'[i] = l \/ \E j \in 1 .. Len(read) : read'[i] = read[j]
  BY <1>1
<1>3. CASE Dns64Prefix(l)
  <2>1. CASE success'
    <3>1. ASSUME ~GoodPrefix(l) PROVE l \in ResolvLines
      <4>1. ~(UChar(l.num) \in ValidPrefixes /\ l.word = "address")
        BY <1>1, <3>1, UCharStored DEF GoodPrefix, LengthsSaid
      <4>2. file # "conf"
        BY <1>3, <2>1, <4>1 DEF Dns64Prefix
      <4>3. QED
        BY <4>2
    <3>2. success
      BY <1>3, <2>1 DEF Dns64Prefix
    <3>3. QED
      BY <1>2, <3>1, <3>2 DEF BadPrefixes
  <2>2. CASE ~success'
    BY <2>2 DEF BadPrefixes
  <2>3. QED
    BY <2>1, <2>2
<1>4. CASE ~ Dns64Prefix(l)
  <2>1. l.key # "dns64-prefix" /\ UNCHANGED success
    BY <1>4
    DEF LineRead, Nameserver, NameserverDefault, SelectionMode, Debugging, TimeoutTime,
        ResendAttempts, NumThreads, ResponseMaxlength, Port, Key
  <2>2. QED
    BY <1>2, <2>1 DEF BadPrefixes
<1>5. QED
  BY <1>3, <1>4

\* A line closes the file only when it fails the loading.
LEMMA LineKeepsServers ==
  ASSUME file # "closed", NEW l \in Line, LineRead(l)
  PROVE  ServersThere'
BY DEF ServersThere, LineRead, Nameserver, NameserverDefault, SelectionMode, Dns64Prefix,
       Debugging, TimeoutTime, ResendAttempts, NumThreads, ResponseMaxlength, Port, Key
-------------------------------------------------------------------------------
(* The loop *)

LEMMA InitInv == Init => IInv
<1> SUFFICES ASSUME Init
             PROVE  IInv
  OBVIOUS
<1> USE DEF Init
<1>1. TypeOK
  BY Limits DEF TypeOK, Config, Defaults
<1>2. LastLineDecides
  BY DEF LastLineDecides, Decided, LastWith
<1>3. ServersInOrder
  <2>1. NamingLines(<<>>) = {}
    BY DEF NamingLines
  <2>2. InOrderOf(<<>>, <<>>)
    BY <2>1, FS_EmptySet DEF InOrderOf
  <2>3. QED
    BY <2>2 DEF ServersInOrder, Defaults
<1>4. BadPrefixes /\ ServersThere
  BY DEF BadPrefixes, ServersThere
<1>5. QED
  BY <1>1, <1>2, <1>3, <1>4 DEF IInv

LEMMA NextInv == IInv /\ [Next]_vars => IInv'
<1> SUFFICES ASSUME IInv, [Next]_vars
             PROVE  IInv'
  OBVIOUS
<1>0. TypeOK /\ LastLineDecides /\ ServersInOrder /\ BadPrefixes /\ ServersThere
  BY DEF IInv
<1>1. ASSUME NEW l \in ConfLines \cup ResolvLines, file # "closed", ReadLine(l),
             file = "conf" \/ l \in ResolvLines
      PROVE  IInv'
  <2>1. l \in Line /\ LineRead(l) /\ read' = Append(read, l) /\ read \in Seq(Line)
    BY <1>0, <1>1, LinesAssumption DEF ReadLine, LineRead, TypeOK
  <2>2. TypeOK'
    <3>1. read' \in Seq(Line)
      BY <2>1
    <3>2. QED
      BY <3>1, <1>0, <2>1, LineKeepsTypes DEF TypeOK
  <2>3. LastLineDecides'
    <3> SUFFICES ASSUME NEW k \in Keys PROVE Decided(read', k, Setting(config', k))
      BY DEF LastLineDecides
    <3> DEFINE v == Setting(config, k)
               w == Setting(config', k)
    <3>1. Decided(read, k, v)
      BY <1>0 DEF LastLineDecides
    <3>2. l.key = k => Says(l, w)
      BY <1>0, <2>1, LineSays
    <3>3. l.key # k => w = v
      BY <1>0, <2>1, OthersStay
    <3> HIDE DEF v, w
    <3>4. Decided(Append(read, l), k, w)
      BY <2>1, <3>1, <3>2, <3>3, DecidedOneMore
    <3>5. QED
      BY <2>1, <3>4 DEF w
  <2>4. ServersInOrder'
    <3>1. config.dns_servers \in Seq(STRING)
      BY <1>0 DEF TypeOK, Config
    <3>2. InOrderOf(config'.dns_servers, Append(read, l))
      <4>1. InOrderOf(IF Names(l) THEN Append(config.dns_servers, l.word)
                      ELSE config.dns_servers, Append(read, l))
        BY <1>0, <2>1, <3>1, InOrderOneMore DEF ServersInOrder
      <4>2. QED
        BY <1>0, <2>1, <4>1, LineNames
    <3>3. QED
      BY <2>1, <3>2 DEF ServersInOrder
  <2>5. BadPrefixes'
    BY <1>0, <1>1, <2>1, LineKeepsPrefix
  <2>6. ServersThere'
    BY <1>1, <2>1, LineKeepsServers
  <2>7. QED
    BY <2>2, <2>3, <2>4, <2>5, <2>6 DEF IInv
<1>2. CASE EndOfResolv
  BY <1>0, <1>2
  DEF EndOfResolv, IInv, TypeOK, LastLineDecides, ServersInOrder, BadPrefixes, ServersThere
<1>3. CASE EndOfConf
  BY <1>0, <1>3
  DEF EndOfConf, IInv, TypeOK, LastLineDecides, ServersInOrder, BadPrefixes, ServersThere
<1>4. CASE UNCHANGED vars
  BY <1>0, <1>4
  DEF vars, IInv, TypeOK, LastLineDecides, ServersInOrder, BadPrefixes, ServersThere
<1>5. QED
  BY <1>1, <1>2, <1>3, <1>4 DEF Next

LEMMA Invariance == Spec => []IInv
BY InitInv, NextInv, PTL DEF Spec
-------------------------------------------------------------------------------
(* Server::synth() *)

LEMMA PlaceOfOne ==
  ASSUME NEW p \in Nat, NEW k \in 0 .. 3, NEW m \in 0 .. 3, Place(p, k) = Place(p, m)
  PROVE  k = m
BY DEF Place

\* The copies of the switch put every byte where RFC 6052 puts it, for each of
\* the lengths loadConfig() takes.
LEMMA SynthIsRFC6052 ==
  ASSUME NEW length \in ValidPrefixes
  PROVE  Synth(length) = EmbeddedAddress(length)
<1> DEFINE p == length \div 8
<1>1. /\ length = 32 => p = 4
      /\ length = 40 => p = 5
      /\ length = 48 => p = 6
      /\ length = 56 => p = 7
      /\ length = 64 => p = 8
      /\ length = 96 => p = 12
  OBVIOUS
<1>2. length \in {32, 40, 48, 56, 64, 96} /\ p \in Nat
  BY <1>1 DEF ValidPrefixes
<1> HIDE DEF p
<1>3. ASSUME NEW i \in 0 .. 15, NEW c \in Copies, Writes(c, length, i)
      PROVE  /\ i >= p
             /\ c[3] + i - c[2] \in 0 .. 3
             /\ Place(p, c[3] + i - c[2]) = i
  BY <1>1, <1>2, <1>3 DEF Copies, Writes, Place
<1>4. ASSUME NEW i \in 0 .. 15, NEW k \in 0 .. 3, Place(p, k) = i
      PROVE  \E c \in Copies : Writes(c, length, i)
  BY <1>1, <1>2, <1>4 DEF Copies, Writes, Place
<1>5. ASSUME NEW i \in 0 .. 15
      PROVE  Synth(length)[i] = EmbeddedAddress(length)[i]
  <2>1. CASE \E c \in Copies : Writes(c, length, i)
    <3> DEFINE c == CHOOSE c \in Copies : Writes(c, length, i)
               k == c[3] + i - c[2]
               m == CHOOSE m \in 0 .. 3 : Place(p, m) = i
    <3>1. c \in Copies /\ Writes(c, length, i)
      BY <2>1
    <3>2. Synth(length)[i] = V4[k]
      BY <2>1 DEF Synth
    <3> HIDE DEF c
    <3>3. i >= p /\ k \in 0 .. 3 /\ Place(p, k) = i
      BY <3>1, <1>3
    <3>4. m \in 0 .. 3 /\ Place(p, m) = i
      BY <3>3
    <3>5. EmbeddedAddress(length)[i] = V4[m]
      BY <3>3, <1>2 DEF EmbeddedAddress, p
    <3>6. k = m
      BY <3>3, <3>4, <1>2, PlaceOfOne
    <3>7. QED
      BY <3>2, <3>5, <3>6
  <2>2. CASE ~ \E c \in Copies : Writes(c, length, i)
    <3>1. ~ \E k \in 0 .. 3 : Place(p, k) = i
      BY <2>2, <1>4
    <3>2. Synth(length)[i] = IF i < p THEN IPv6[i] ELSE Zero
      BY <2>2 DEF Synth, p
    <3>3. EmbeddedAddress(length)[i] = IF i < p THEN IPv6[i] ELSE Zero
      BY <3>1 DEF EmbeddedAddress, p
    <3>4. QED
      BY <3>2, <3>3
  <2>3. QED
    BY <2>1, <2>2
<1>6. QED
  BY <1>5 DEF Synth, EmbeddedAddress
-------------------------------------------------------------------------------
(* The properties *)

\* loadConfig() gives every member of Server a value of its type, whatever
\* numbers the file holds: the conversions of scanf() and the tests on what they
\* stored cut them all down.
THEOREM ConfigTypeCorrect == Spec => []TypeOK
BY Invariance, PTL DEF IInv

\* For any number of lines, the last line with a key decides each setting, in spite of the
\* continue of the error branches and of /etc/resolv.conf being read in the middle of the
\* file: what is stored is the number written, cut to the variable, or the default.
THEOREM LastLineWins == Spec => []LastLineDecides
BY Invariance, PTL DEF IInv

\* For any number of lines in either file, the servers asked are those of the lines,
\* in their order: none is left out, doubled or displaced where the one file is read in
\* the middle of the other.
THEOREM ServersAsWritten == Spec => []ServersInOrder
BY Invariance, PTL DEF IInv

\* If loadConfig() returns true there is a server to ask, any bad prefix stands in
\* /etc/resolv.conf, and a good prefix in the last prefix line leads synth() to the
\* addresses of RFC 6052, for every length it takes.
THEOREM LoadedIsUsable == Spec => []SuccessMeansUsable
<1>1. IInv => SuccessMeansUsable
  <2> SUFFICES ASSUME IInv, file = "closed", success PROVE SuccessMeansUsable
    BY DEF SuccessMeansUsable
  <2>1. config.dns_servers # <<>>
    BY DEF IInv, ServersThere
  <2>2. ASSUME NEW i \in 1 .. Len(read)
        PROVE  read[i].key = "dns64-prefix" /\ ~GoodPrefix(read[i]) => read[i] \in ResolvLines
    BY DEF IInv, BadPrefixes
  <2>3. ASSUME NEW i \in 1 .. Len(read), LastWith(read, "dns64-prefix", i), GoodPrefix(read[i])
        PROVE  /\ config.ipv6 = "address"
               /\ \E p \in LengthsSaid(read[i]) : Synth(config.prefix) = EmbeddedAddress(p)
    <3> DEFINE v == Setting(config, "dns64-prefix")
    <3>1. Decided(read, "dns64-prefix", v)
      BY DEF IInv, LastLineDecides, Keys
    <3>2. v = [length |-> config.prefix, ipv6 |-> config.ipv6]
      BY Settings
    <3> HIDE DEF v
    <3>3. Says(read[i], v) /\ read[i].key = "dns64-prefix"
      BY <2>3, <3>1 DEF Decided, LastWith
    <3>4. v.ipv6 = "address" /\ v.length \in LengthsSaid(read[i])
      BY <2>3, <3>3 DEF Says, Shorts
    <3>5. config.prefix \in LengthsSaid(read[i]) /\ config.prefix \in ValidPrefixes
      BY <3>2, <3>4 DEF LengthsSaid
    <3>6. QED
      BY <3>2, <3>4, <3>5, SynthIsRFC6052
  <2>4. QED
    BY <2>1, <2>2, <2>3 DEF SuccessMeansUsable
<1>2. QED
  BY <1>1, Invariance, PTL
===============================================================================
