----------------------------- MODULE TestBedProofs ----------------------------
(***************************************************************************)
(* Theorems about the test bed: the settings of fakedns, for a             *)
(* configuration file of any length with any lines; and that a client's    *)
(* query through both programs comes back as a reply with the address it   *)
(* asked for, for any queries, any addresses and any length of the         *)
(* buffers.                                                                *)
(*                                                                         *)
(* What fakedns sends is first described byte by byte, then as what the    *)
(* constructor of DNSPacket reads of it, then as what it means; what       *)
(* becomes of it is taken from DNSPacketProofs.                            *)
(***************************************************************************)
EXTENDS TestBed, DNSPacketProofs

Settings ==
  [aaaa_mode : Conf!Modes, aaaa_probability : Int \cup {NoNumber}, num_threads : Int, port : Int,
   debug : BOOLEAN]

ConfTypes == conf \in Seq(Conf!FakeLine) /\ at \in 0 .. Len(conf) /\ config \in Settings

ConfInv == ConfTypes /\ LastFakeLineDecides
-------------------------------------------------------------------------------
\* The constructor of Server.
LEMMA DefaultsTyped ==
  ASSUME NEW mode \in Conf!Modes
  PROVE  Conf!Defaults(mode) \in Settings
BY DEF Conf!Defaults, Settings

\* Before the first line every setting has its default, but for the mode.
LEMMA NothingRead ==
  ASSUME conf \in Seq(Conf!FakeLine), at = 0, NEW mode \in Conf!Modes,
         config = Conf!Defaults(mode)
  PROVE  ConfInv
<1>1. ConfTypes
  BY DefaultsTyped DEF ConfTypes
<1>2. \A k : Conf!LastLines(k) = {}
  BY DEF Conf!LastLines
<1>3. config.num_threads = 10 /\ config.port = 53 /\ config.debug = FALSE
  BY DEF Conf!Defaults
<1>4. LastFakeLineDecides
  BY <1>2, <1>3 DEF LastFakeLineDecides, Conf!LastFakeLineDecides
<1>5. QED
  BY <1>1, <1>4 DEF ConfInv

\* fakedns starts with a file and the defaults.
LEMMA ConfInitially == BedInit => ConfInv
<1> SUFFICES ASSUME BedInit PROVE ConfInv
  OBVIOUS
<1>1. CASE conf = <<>> /\ at = 0 /\ config = Conf!Defaults("NO")
  <2>1. conf \in Seq(Conf!FakeLine) /\ "NO" \in Conf!Modes
    BY <1>1 DEF Conf!Modes
  <2>2. QED
    BY <1>1, <2>1, NothingRead
<1>2. CASE Conf!Init
  BY <1>2, NothingRead, TestBedAssumption DEF Conf!Init
<1>3. QED
  BY <1>1, <1>2 DEF BedInit
-------------------------------------------------------------------------------
\* A line is the last of its key when it has been read, and leaves the other keys theirs.
LEMMA LastLineRead ==
  ASSUME ConfTypes, Conf!ReadLine, NEW k
  PROVE  Conf!LastLines(k)' = IF conf[at + 1].key = k THEN {at + 1} ELSE Conf!LastLines(k)
BY DEF ConfTypes, Conf!ReadLine, Conf!LastLines

\* What a conversion stores.
LEMMA StoredShort ==
  ASSUME NEW n \in Int
  PROVE  /\ Conf!Short(n) \in Int /\ Conf!Short(n) <= 32767 /\ (n - Conf!Short(n)) % 65536 = 0
         /\ Conf!Short(n) < 0 => n % 65536 > 32767
BY DEF Conf!Short

LEMMA StoredUShort ==
  ASSUME NEW n \in Int
  PROVE  Conf!UShort(n) \in 0 .. Conf!UShortMax /\ (n - Conf!UShort(n)) % 65536 = 0
<1>1. Conf!UShort(n) \in Nat /\ Conf!UShort(n) <= 65535
  BY DEF Conf!UShort
<1>2. (n - Conf!UShort(n)) % 65536 = 0
  BY DEF Conf!UShort
<1>3. Conf!UShortMax \in Nat /\ 65535 <= Conf!UShortMax
  BY DEF Conf!UShortMax
<1>4. Conf!UShort(n) \in 0 .. Conf!UShortMax
  BY <1>1, <1>3
<1>5. QED
  BY <1>2, <1>4

\* The numbers that are stored are ones the line says.
LEMMA NumbersSaid ==
  ASSUME NEW l \in Conf!FakeLine
  PROVE  /\ LET v == IF l.num = NoNumber \/ Conf!Short(l.num) < 0 THEN 10 ELSE Conf!Short(l.num)
            IN v \in Int /\ Conf!SaysThreads(l, v)
         /\ LET v == IF l.num = NoNumber THEN 53 ELSE Conf!UShort(l.num)
            IN v \in Int /\ Conf!SaysPort(l, v)
<1> DEFINE s == Conf!Short(l.num)
           u == Conf!UShort(l.num)
<1>1. l.num \in Int \/ l.num = NoNumber
  BY DEF Conf!FakeLine
<1>2. CASE l.num = NoNumber
  BY <1>2 DEF Conf!SaysThreads, Conf!SaysPort, Conf!SaysNumber
<1>3. CASE l.num # NoNumber
  <2>1. l.num \in Int
    BY <1>1, <1>3
  <2>2. s \in Int /\ s <= 32767 /\ (l.num - s) % 65536 = 0 /\ (s < 0 => l.num % 65536 > 32767)
    BY <2>1, StoredShort
  <2>3. u \in 0 .. Conf!UShortMax /\ (l.num - u) % 65536 = 0
    BY <2>1, StoredUShort
  <2> HIDE DEF s, u
  <2>4. s < 0 => Conf!SaysThreads(l, 10)
    BY <2>2 DEF Conf!SaysThreads, Conf!ShortMax
  <2>5. ~(s < 0) => Conf!SaysThreads(l, s)
    BY <1>3, <2>2 DEF Conf!SaysThreads, Conf!SaysNumber, Conf!ShortMax
  <2>6. u \in Int /\ Conf!SaysPort(l, u)
    BY <1>3, <2>3 DEF Conf!SaysPort, Conf!SaysNumber
  <2>7. CASE s < 0
    BY <1>3, <2>4, <2>6, <2>7 DEF s, u
  <2>8. CASE ~(s < 0)
    BY <1>3, <2>2, <2>5, <2>6, <2>8 DEF s, u
  <2>9. QED
    BY <2>7, <2>8
<1>4. QED
  BY <1>2, <1>3

\* What a have-AAAA line says of the mode.
ModeOf(c, l) ==
  /\ c.aaaa_mode = "YES" <=> l.begin = "1"
  /\ c.aaaa_mode = "PROBABILITY" <=> Conf!SaysProbability(l)
  /\ c.aaaa_mode = "PROBABILITY" => c.aaaa_probability = l.num

\* What a line leaves of the settings.
LEMMA LineSettles ==
  ASSUME ConfTypes, Conf!ReadLine, NEW l, l = conf[at + 1]
  PROVE  /\ l \in Conf!FakeLine
         /\ config' \in Settings
         /\ IF l.key = "num-threads" THEN Conf!SaysThreads(l, config'.num_threads)
            ELSE config'.num_threads = config.num_threads
         /\ IF l.key = "port" THEN Conf!SaysPort(l, config'.port) ELSE config'.port = config.port
         /\ config'.debug = IF l.key = "debug" THEN l.begin = "yes" ELSE config.debug
         /\ l.key = "have-AAAA" => ModeOf(config', l)
         /\ l.key # "have-AAAA" => /\ config'.aaaa_mode = config.aaaa_mode
                                   /\ config'.aaaa_probability = config.aaaa_probability
<1>1. l \in Conf!FakeLine /\ config \in Settings
  BY DEF ConfTypes, Conf!ReadLine
<1>2. CASE Conf!HaveAAAA(l)
  <2> DEFINE mode == Conf!Mode(l, config.aaaa_mode)
             probability == IF l.begin \in {"0", "1"} \/ l.num = NoNumber
                            THEN config.aaaa_probability ELSE l.num
  <2>1. l.key = "have-AAAA"
        /\ config' = [config EXCEPT !.aaaa_mode = mode, !.aaaa_probability = probability]
    BY <1>2 DEF Conf!HaveAAAA
  <2>2. mode \in Conf!Modes
    BY DEF Conf!Mode, Conf!Modes
  <2>3. mode = "YES" <=> l.begin = "1"
    BY DEF Conf!Mode
  <2>4. mode = "PROBABILITY" <=> Conf!SaysProbability(l)
    BY DEF Conf!Mode, Conf!SaysProbability
  <2>5. probability \in Int \cup {NoNumber}
    BY <1>1 DEF Settings, Conf!FakeLine
  <2>6. Conf!SaysProbability(l) => probability = l.num
    BY TestBedAssumption DEF Conf!SaysProbability
  <2> HIDE DEF mode, probability
  <2>7. config'.aaaa_mode = mode /\ config'.aaaa_probability = probability
    BY <1>1, <2>1 DEF Settings
  <2>8. ModeOf(config', l)
    BY <2>3, <2>4, <2>6, <2>7 DEF ModeOf
  <2>9. QED
    BY <1>1, <2>1, <2>2, <2>5, <2>8 DEF Settings
<1>3. CASE Conf!Debug(l)
  BY <1>1, <1>3 DEF Conf!Debug, Settings
<1>4. CASE Conf!NumThreads(l)
  <2> DEFINE v == IF l.num = NoNumber \/ Conf!Short(l.num) < 0 THEN 10 ELSE Conf!Short(l.num)
  <2>1. l.key = "num-threads" /\ config' = [config EXCEPT !.num_threads = v]
    BY <1>4 DEF Conf!NumThreads
  <2>2. v \in Int /\ Conf!SaysThreads(l, v)
    BY <1>1, NumbersSaid
  <2> HIDE DEF v
  <2>3. config'.num_threads = v
    BY <1>1, <2>1 DEF Settings
  <2>4. QED
    BY <1>1, <2>1, <2>2, <2>3 DEF Settings
<1>5. CASE Conf!Port(l)
  <2> DEFINE v == IF l.num = NoNumber THEN 53 ELSE Conf!UShort(l.num)
  <2>1. l.key = "port" /\ config' = [config EXCEPT !.port = v]
    BY <1>5 DEF Conf!Port
  <2>2. v \in Int /\ Conf!SaysPort(l, v)
    BY <1>1, NumbersSaid
  <2> HIDE DEF v
  <2>3. config'.port = v
    BY <1>1, <2>1 DEF Settings
  <2>4. QED
    BY <1>1, <2>1, <2>2, <2>3 DEF Settings
<1>6. QED
  BY <1>2, <1>3, <1>4, <1>5 DEF Conf!ReadLine

\* One more line decides, or leaves decided what was.
LEMMA ReadLineInv ==
  ASSUME ConfInv, Conf!ReadLine
  PROVE  ConfInv'
<1> DEFINE l == conf[at + 1]
<1>1. ConfTypes /\ conf' = conf /\ at' = at + 1 /\ at < Len(conf)
  BY DEF ConfInv, Conf!ReadLine
<1>2. ConfTypes'
  BY <1>1, LineSettles DEF ConfTypes
<1>3. \A k : Conf!LastLines(k)' = IF l.key = k THEN {at + 1} ELSE Conf!LastLines(k)
  BY <1>1, LastLineRead
<1>4. /\ l.key = "num-threads" => Conf!SaysThreads(l, config'.num_threads)
      /\ l.key = "port" => Conf!SaysPort(l, config'.port)
      /\ l.key = "debug" => config'.debug = (l.begin = "yes")
      /\ l.key = "have-AAAA" => ModeOf(config', l)
      /\ l.key # "num-threads" => config'.num_threads = config.num_threads
      /\ l.key # "port" => config'.port = config.port
      /\ l.key # "debug" => config'.debug = config.debug
      /\ l.key # "have-AAAA" => /\ config'.aaaa_mode = config.aaaa_mode
                                /\ config'.aaaa_probability = config.aaaa_probability
  BY <1>1, LineSettles
<1>5. LastFakeLineDecides
  BY DEF ConfInv
<1> HIDE DEF l
<1>6. conf'[at + 1] = l
  BY <1>1 DEF l
<1>7. /\ \A i \in Conf!LastLines("num-threads")' : Conf!SaysThreads(conf'[i], config'.num_threads)
      /\ Conf!LastLines("num-threads")' = {} => config'.num_threads = 10
  BY <1>1, <1>3, <1>4, <1>5, <1>6 DEF LastFakeLineDecides, Conf!LastFakeLineDecides
<1>8. /\ \A i \in Conf!LastLines("port")' : Conf!SaysPort(conf'[i], config'.port)
      /\ Conf!LastLines("port")' = {} => config'.port = 53
  BY <1>1, <1>3, <1>4, <1>5, <1>6 DEF LastFakeLineDecides, Conf!LastFakeLineDecides
<1>9. /\ \A i \in Conf!LastLines("debug")' : config'.debug = (conf'[i].begin = "yes")
      /\ Conf!LastLines("debug")' = {} => config'.debug = FALSE
  BY <1>1, <1>3, <1>4, <1>5, <1>6 DEF LastFakeLineDecides, Conf!LastFakeLineDecides
<1>10. \A i \in Conf!LastLines("have-AAAA")' : ModeOf(config', conf'[i])
  BY <1>1, <1>3, <1>4, <1>5, <1>6 DEF LastFakeLineDecides, Conf!LastFakeLineDecides, ModeOf
<1>11. LastFakeLineDecides'
  BY <1>7, <1>8, <1>9, <1>10 DEF LastFakeLineDecides, Conf!LastFakeLineDecides, ModeOf,
                                 Conf!SaysThreads, Conf!SaysPort, Conf!SaysNumber, Conf!SaysProbability
<1>12. QED
  BY <1>2, <1>11 DEF ConfInv

\* Nothing but fakedns' own loop touches its settings.
LEMMA ConfNext == ConfInv /\ [BedNext]_bedVars => ConfInv'
<1> SUFFICES ASSUME ConfInv, [BedNext]_bedVars PROVE ConfInv'
  OBVIOUS
<1>1. Conf!ReadLine \/ UNCHANGED confVars
  BY DEF BedNext, ReadLine, ClientSends, Ignore, Forward, Parse, PassOn, LookUpA, Translate,
         bedVars
<1>2. CASE UNCHANGED confVars
  BY <1>2 DEF confVars, ConfInv, ConfTypes, LastFakeLineDecides, Conf!LastFakeLineDecides,
             Conf!LastLines
<1>3. QED
  BY <1>1, <1>2, ReadLineInv

\* For any configuration file: each of the settings of fakedns - threads, port, debugging and
\* whether there are AAAA records - is what the last line that names it says, also where such a
\* line cannot be read, and the probability it uses is never one that is out of range.
THEOREM FakeSettings == BedSpec => []LastFakeLineDecides
<1>1. ConfInv => LastFakeLineDecides
  BY DEF ConfInv
<1>2. QED
  BY <1>1, ConfInitially, ConfNext, PTL DEF BedSpec
-------------------------------------------------------------------------------
(* Buffers *)

\* The bytes of a sequence are those of a buffer.
LEMMA BufferTyped ==
  ASSUME NEW d \in Seq(Bytes)
  PROVE  BufferOf(d) \in Buffer(Len(d)) /\ Len(d) \in Nat
<1>1. ASSUME NEW p \in 0 .. Len(d) - 1 PROVE d[p + 1] \in Bytes
  <2>1. Len(d) \in Nat
    OBVIOUS
  <2>2. p + 1 \in 1 .. Len(d)
    BY <1>1, <2>1
  <2>3. QED
    BY <2>2, ElementOfSeq
<1>2. QED
  BY <1>1 DEF BufferOf, Buffer
-------------------------------------------------------------------------------
(* Names without pointers *)

\* ls are the labels of a name at o that is spelt out up to z, not too long to be followed.
Spelt(b, o, ls, z) ==
  /\ Named(b, o, ls) /\ Len(ls) <= 15
  /\ b[ls[Len(ls)]] = 0 /\ z = ls[Len(ls)] + 1

\* Label k of such a name, and the next one.
LabelSpelt(b, ls, z, k) ==
  /\ ls[k] \in Nat /\ b[ls[k]] \in Nat
  /\ k < Len(ls) => /\ b[ls[k]] >= 1 /\ b[ls[k]] <= 63
                    /\ ls[k] + b[ls[k]] + 1 = ls[k + 1] /\ ls[k] + b[ls[k]] + 1 < z
  /\ k = Len(ls) => b[ls[k]] = 0 /\ ls[k] + 1 = z

\* The labels of a name that is spelt out are all of this kind.
LEMMA SpeltLabels ==
  ASSUME NEW n \in Nat, NEW b \in Buffer(n), NEW o \in Nat, NEW ls, NEW z \in Nat, z <= n,
         Spelt(b, o, ls, z), NEW k \in 1 .. Len(ls), \A i \in 1 .. Len(ls) : ls[i] < n
  PROVE  LabelSpelt(b, ls, z, k) /\ o <= ls[k]
<1>1. ls \in Seq(Nat) /\ Len(ls) \in Nat /\ Len(ls) >= 1 /\ n \in 0 .. n
  BY DEF Spelt, Named
<1>2. NameEnd(b, o, n) = z
  <2>1. b[ls[Len(ls)]] < 192
    BY DEF Spelt
  <2>2. Named(b, o, ls) /\ z = ls[Len(ls)] + 1
    BY DEF Spelt
  <2>3. QED
    BY <1>1, <2>1, <2>2, NamedEnd
<1>3. Spanned(b, o, ls, k, z)
  BY <1>1, <1>2, NamedSpan DEF Spelt
<1>4. k < Len(ls) => Plain(b, ls[k]) /\ ls[k + 1] = ls[k] + b[ls[k]] + 1
  BY <1>1 DEF Spelt, Named
<1>5. CASE k < Len(ls)
  <2>1. k + 1 \in 1 .. Len(ls)
    BY <1>1, <1>5
  <2>2. Spanned(b, o, ls, k + 1, z)
    BY <1>1, <1>2, <2>1, NamedSpan DEF Spelt
  <2>3. ls[k + 1] < z
    <3> DEFINE l == ls[k + 1]
    <3>1. /\ l \in Nat /\ b[l] \in Nat
          /\ b[l] >= 192 => l + 2 <= z
          /\ b[l] < 192 => l + b[l] + 1 <= z
      BY <2>2 DEF Spanned
    <3> HIDE DEF l
    <3>2. l < z
      BY <3>1
    <3>3. QED
      BY <3>2 DEF l
  <2>4. QED
    BY <1>3, <1>4, <1>5, <2>3 DEF Spanned, LabelSpelt, Plain
<1>6. CASE k = Len(ls)
  <2>1. b[ls[k]] = 0 /\ ls[k] + 1 = z
    BY <1>6 DEF Spelt
  <2>2. QED
    BY <1>3, <1>6, <2>1 DEF Spanned, LabelSpelt
<1>7. QED
  BY <1>1, <1>5, <1>6

\* What is spelt in b at o up to z is spelt in c.
SpeltAlike(b, c, o, z) == \A p \in Nat : o <= p /\ p < z => c[p] = b[p]

\* f says what is read from each label with each number of hops.
ReadBy(b, f) == f = [h \in 0 .. 16 |-> Read(b, f, h)]

\* Names are read by such a function.
LEMMA NameRead ==
  ASSUME NEW b
  PROVE  \E f : ReadBy(b, f) /\ \A o : Name(b, o) = f[16][o]
<1> DEFINE f == CHOOSE f : f = [h \in 0 .. 16 |-> Read(b, f, h)]
<1>1. f = [h \in 0 .. 16 |-> Read(b, f, h)]
  BY ReadExists
<1>2. \A o : Name(b, o) = f[16][o]
  BY DEF Name, Read
<1> HIDE DEF f
<1>3. QED
  BY <1>1, <1>2 DEF ReadBy

\* What f says of label k with h hops.
SpeltRead(b, ls, k, f, h) ==
  /\ k = Len(ls) => f[h][ls[k]] = <<>>
  /\ k < Len(ls) =>
       f[h][ls[k]] = << [i \in 1 .. b[ls[k]] |-> b[ls[k] + i]] >> \o f[h - 1][ls[k + 1]]

\* What is said of a label of the name, of its root and of a pointer to it.
LEMMA ReadSpelt ==
  ASSUME NEW n \in Nat, NEW b \in Buffer(n), NEW z \in Nat, z <= n, NEW ls,
         NEW k \in 1 .. Len(ls), LabelSpelt(b, ls, z, k), Len(ls) \in Nat,
         NEW f, ReadBy(b, f), NEW h \in 1 .. 16
  PROVE  SpeltRead(b, ls, k, f, h)
<1> DEFINE l == ls[k]
<1>1. l \in Nat /\ b[l] \in Nat
  BY DEF LabelSpelt
<1>2. h \in 0 .. 16 /\ h # 0
  OBVIOUS
<1>3. f[h][l] = Followed(b, f[h - 1], l)
  <2>1. f[h] = Read(b, f, h)
    BY <1>2 DEF ReadBy
  <2> HIDE DEF l
  <2>2. QED
    BY <1>1, <1>2, <2>1 DEF Read
<1>4. CASE k = Len(ls)
  <2>1. b[l] = 0 /\ l + 1 = z
    BY <1>4 DEF LabelSpelt
  <2> HIDE DEF l
  <2>2. l \in DOMAIN b
    BY <1>1, <2>1 DEF Buffer
  <2>3. Followed(b, f[h - 1], l) = <<>>
    BY <2>1, <2>2 DEF Followed
  <2>4. QED
    BY <1>3, <1>4, <2>3 DEF l, SpeltRead
<1>5. CASE k < Len(ls)
  <2>1. b[l] >= 1 /\ b[l] <= 63 /\ l + b[l] + 1 = ls[k + 1] /\ l + b[l] + 1 < z
    BY <1>5 DEF LabelSpelt
  <2> HIDE DEF l
  <2>2. LabelSize(b, l) = b[l] + 1 /\ ~IsPointer(b, l) /\ b[l] # 0
    BY <1>1, <2>1 DEF LabelSize, IsPointer
  <2>3. l \in DOMAIN b /\ l + LabelSize(b, l) - 1 \in DOMAIN b
    <3> DEFINE size == b[l]
    <3>1. l \in Nat /\ size \in Nat /\ l + size + 1 < z
      BY <1>1, <2>1
    <3> HIDE DEF size
    <3>2. l \in 0 .. n - 1 /\ l + (size + 1) - 1 \in 0 .. n - 1
      BY <3>1
    <3>3. QED
      BY <2>2, <3>2 DEF Buffer, size
  <2>4. l + LabelSize(b, l) = ls[k + 1]
    BY <1>1, <2>1, <2>2
  <2> DEFINE g == f[h - 1]
  <2> HIDE DEF g
  <2>5. Followed(b, g, l) = << [i \in 1 .. b[l] |-> b[l + i]] >> \o g[ls[k + 1]]
    BY <2>2, <2>3, <2>4 DEF Followed
  <2>6. QED
    BY <1>3, <1>5, <2>5 DEF l, g, SpeltRead
<1>6. QED
  BY <1>4, <1>5

\* A name that is spelt alike in two buffers is the same, also where a pointer to it is.
LEMMA SpeltSame ==
  ASSUME NEW m \in Nat, NEW b \in Buffer(m), NEW n \in Nat, NEW c \in Buffer(n),
         NEW o \in Nat, NEW z \in Nat, z <= m, z <= n, NEW ls, Spelt(b, o, ls, z),
         SpeltAlike(b, c, o, z), \A i \in 1 .. Len(ls) : ls[i] < m
  PROVE  /\ Name(c, o) = Name(b, o)
         /\ \A p \in Nat : p + 1 < n /\ c[p] >= 192 /\ Offset(c, p) = o => Name(c, p) = Name(b, o)
<1>1. PICK f : ReadBy(b, f) /\ \A p : Name(b, p) = f[16][p]
  BY NameRead
<1>2. PICK g : ReadBy(c, g) /\ \A p : Name(c, p) = g[16][p]
  BY NameRead
<1>3. ReadBy(b, f) /\ ReadBy(c, g)
  BY <1>1, <1>2
<1>4. ls \in Seq(Nat) /\ Len(ls) \in Nat /\ Len(ls) >= 1 /\ Len(ls) <= 15 /\ ls[1] = o
  BY DEF Spelt, Named
<1>5. ASSUME NEW k \in 1 .. Len(ls)
      PROVE  /\ LabelSpelt(b, ls, z, k) /\ LabelSpelt(c, ls, z, k)
             /\ \A i \in 0 .. b[ls[k]] : c[ls[k] + i] = b[ls[k] + i]
  <2> DEFINE l == ls[k]
  <2>1. LabelSpelt(b, ls, z, k) /\ o <= l
    BY SpeltLabels
  <2>2. l \in Nat /\ b[l] \in Nat /\ l + b[l] + 1 <= z
    <3>1. CASE k < Len(ls)
      BY <2>1, <3>1 DEF LabelSpelt
    <3>2. CASE k = Len(ls)
      BY <2>1, <3>2 DEF LabelSpelt
    <3>3. QED
      BY <1>4, <3>1, <3>2
  <2> HIDE DEF l
  <2>3. ASSUME NEW i \in 0 .. b[l] PROVE c[l + i] = b[l + i]
    <3> DEFINE size == b[l]
    <3>1. size \in Nat /\ i \in 0 .. size /\ l + size + 1 <= z
      BY <2>2, <2>3
    <3> HIDE DEF size
    <3>2. l + i \in Nat /\ o <= l + i /\ l + i < z
      BY <2>1, <2>2, <3>1
    <3>3. QED
      BY <3>2 DEF SpeltAlike
  <2>4. c[l] = b[l]
    <3>1. 0 \in 0 .. b[l] /\ l + 0 = l
      BY <2>2
    <3>2. QED
      BY <2>3, <3>1
  <2>5. QED
    BY <2>1, <2>3, <2>4 DEF LabelSpelt, l
<1> DEFINE Same(j) == \A h, i \in j + 1 .. 16 : g[i][ls[Len(ls) - j]] = f[h][ls[Len(ls) - j]]
           S == {j \in Nat : j < Len(ls) => Same(j)}
<1>6. 0 \in S
  <2>1. SUFFICES ASSUME NEW h \in 0 + 1 .. 16, NEW i \in 0 + 1 .. 16
                 PROVE  g[i][ls[Len(ls) - 0]] = f[h][ls[Len(ls) - 0]]
    OBVIOUS
  <2>2. Len(ls) - 0 = Len(ls) /\ Len(ls) \in 1 .. Len(ls) /\ h \in 1 .. 16 /\ i \in 1 .. 16
    BY <1>4
  <2>3. f[h][ls[Len(ls)]] = <<>>
    <3>1. SpeltRead(b, ls, Len(ls), f, h)
      <4>1. LabelSpelt(b, ls, z, Len(ls))
        BY <1>5, <2>2
      <4>2. QED
        BY <1>3, <1>4, <2>2, <4>1, ReadSpelt
    <3>2. QED
      BY <3>1 DEF SpeltRead
  <2>4. g[i][ls[Len(ls)]] = <<>>
    <3>1. SpeltRead(c, ls, Len(ls), g, i)
      <4>1. LabelSpelt(c, ls, z, Len(ls))
        BY <1>5, <2>2
      <4>2. QED
        BY <1>3, <1>4, <2>2, <4>1, ReadSpelt
    <3>2. QED
      BY <3>1 DEF SpeltRead
  <2>5. QED
    BY <2>2, <2>3, <2>4
<1>7. ASSUME NEW j \in Nat, j \in S PROVE j + 1 \in S
  <2>1. SUFFICES ASSUME j + 1 < Len(ls), NEW h \in (j + 1) + 1 .. 16, NEW i \in (j + 1) + 1 .. 16
                 PROVE  g[i][ls[Len(ls) - (j + 1)]] = f[h][ls[Len(ls) - (j + 1)]]
    OBVIOUS
  <2> DEFINE k == Len(ls) - (j + 1)
  <2>2. /\ k \in 1 .. Len(ls) /\ k < Len(ls) /\ k + 1 = Len(ls) - j
        /\ h \in 1 .. 16 /\ i \in 1 .. 16 /\ h - 1 \in j + 1 .. 16 /\ i - 1 \in j + 1 .. 16
    BY <1>4, <2>1
  <2>3. Same(j)
    BY <1>7, <2>1
  <2>4. g[i - 1][ls[k + 1]] = f[h - 1][ls[k + 1]]
    BY <2>2, <2>3
  <2> HIDE DEF k, Same, S
  <2>5. /\ LabelSpelt(b, ls, z, k) /\ LabelSpelt(c, ls, z, k)
        /\ \A x \in 0 .. b[ls[k]] : c[ls[k] + x] = b[ls[k] + x]
    BY <1>5, <2>2
  <2>6. f[h][ls[k]] = << [x \in 1 .. b[ls[k]] |-> b[ls[k] + x]] >> \o f[h - 1][ls[k + 1]]
    <3>1. SpeltRead(b, ls, k, f, h)
      BY <1>3, <1>4, <2>2, <2>5, ReadSpelt
    <3>2. QED
      BY <2>2, <3>1 DEF SpeltRead
  <2>7. g[i][ls[k]] = << [x \in 1 .. c[ls[k]] |-> c[ls[k] + x]] >> \o g[i - 1][ls[k + 1]]
    <3>1. SpeltRead(c, ls, k, g, i)
      BY <1>3, <1>4, <2>2, <2>5, ReadSpelt
    <3>2. QED
      BY <2>2, <3>1 DEF SpeltRead
  <2>8. [x \in 1 .. c[ls[k]] |-> c[ls[k] + x]] = [x \in 1 .. b[ls[k]] |-> b[ls[k] + x]]
    <3>1. ls[k] \in Nat /\ b[ls[k]] \in Nat
      BY <2>5 DEF LabelSpelt
    <3>2. c[ls[k]] = b[ls[k]]
      <4>1. 0 \in 0 .. b[ls[k]] /\ ls[k] + 0 = ls[k]
        BY <3>1
      <4>2. QED
        BY <2>5, <4>1
    <3>3. \A x \in 1 .. b[ls[k]] : x \in 0 .. b[ls[k]]
      BY <3>1
    <3>4. QED
      BY <2>5, <3>2, <3>3
  <2>9. QED
    BY <2>4, <2>6, <2>7, <2>8 DEF k
<1>8. Same(Len(ls) - 1)
  <2> HIDE DEF Same
  <2>1. Nat \subseteq S
    <3> HIDE DEF S
    <3>1. QED
      BY <1>6, <1>7, SetInduction
  <2>2. Len(ls) - 1 \in Nat /\ Len(ls) - 1 < Len(ls)
    BY <1>4
  <2>3. QED
    BY <2>1, <2>2
<1>9. \A h, i \in 15 .. 16 : g[i][o] = f[h][o]
  <2>1. Len(ls) - (Len(ls) - 1) = 1 /\ ls[1] = o
    BY <1>4
  <2>2. \A h \in 15 .. 16 : h \in (Len(ls) - 1) + 1 .. 16
    BY <1>4
  <2>3. QED
    BY <1>8, <2>1, <2>2
<1>10. Name(c, o) = Name(b, o)
  BY <1>1, <1>2, <1>9
<1>11. ASSUME NEW p \in Nat, p + 1 < n, c[p] >= 192, Offset(c, p) = o PROVE Name(c, p) = Name(b, o)
  <2>1. g[16][p] = Followed(c, g[15], p)
    <3>1. g[16] = Read(c, g, 16)
      <4>1. 16 \in 0 .. 16
        OBVIOUS
      <4>2. QED
        BY <1>3, <4>1 DEF ReadBy
    <3>2. 16 # 0 /\ 16 - 1 = 15
      OBVIOUS
    <3>3. QED
      BY <3>1, <3>2 DEF Read
  <2>2. p \in DOMAIN c /\ LabelSize(c, p) = 2 /\ p + 2 - 1 \in DOMAIN c /\ IsPointer(c, p)
    BY <1>11 DEF Buffer, LabelSize, IsPointer
  <2>3. c[p] # 0
    BY <1>11
  <2>4. Followed(c, g[15], p) = g[15][o]
    BY <1>11, <2>2, <2>3 DEF Followed
  <2>5. g[15][o] = f[16][o]
    BY <1>9
  <2>6. QED
    BY <1>1, <1>2, <2>1, <2>4, <2>5
<1>12. QED
  BY <1>10, <1>11
-------------------------------------------------------------------------------
(* The question of a query, and where it is found *)

\* Where the constructor finds a question whose type is at t.
QuestionOf(t) == [begin |-> 12, name |-> 12, qtype |-> t, qclass |-> t + 2]

\* The n bytes of b are those of a query with the labels ls, and its type is at t.
Asking(b, n, t, ls) ==
  /\ n \in Nat /\ n <= 512 /\ b \in Buffer(n)
  /\ t \in Nat /\ 12 < t /\ t + 4 = n
  /\ Spelt(b, 12, ls, t) /\ \A i \in 1 .. Len(ls) : ls[i] < t

\* c has the question of b, but for its type.
SameQuestion(b, c, t) == SpeltAlike(b, c, 12, t) /\ c[t + 2] = b[t + 2] /\ c[t + 3] = b[t + 3]

\* Label k of the question in b, and in any c that has it.
AskedLabel(b, t, ls, k) ==
  /\ ls[k] \in Nat /\ 12 <= ls[k] /\ ls[k] < t
  /\ b[ls[k]] \in Nat /\ b[ls[k]] <= 63 /\ ls[k] + b[ls[k]] + 1 <= t

\* Each label of the question is one of these.
LEMMA AskingLabel ==
  ASSUME NEW b, NEW n, NEW t, NEW ls, Asking(b, n, t, ls), NEW k \in 1 .. Len(ls)
  PROVE  AskedLabel(b, t, ls, k) /\ LabelSpelt(b, ls, t, k)
<1>1. /\ n \in Nat /\ b \in Buffer(n) /\ t \in Nat /\ t <= n /\ 12 \in Nat /\ 12 < t
      /\ Spelt(b, 12, ls, t)
  BY DEF Asking
<1>2. \A i \in 1 .. Len(ls) : ls[i] < n
  <2>1. ASSUME NEW i \in 1 .. Len(ls) PROVE ls[i] < n
    <3>1. ls \in Seq(Nat) /\ Len(ls) \in Nat
      BY <1>1 DEF Spelt, Named
    <3>2. ls[i] \in Nat /\ ls[i] < t
      BY <3>1, ElementOfSeq DEF Asking
    <3>3. QED
      BY <1>1, <3>2
  <2>2. QED
    BY <2>1
<1>3. LabelSpelt(b, ls, t, k) /\ 12 <= ls[k]
  BY <1>1, <1>2, SpeltLabels
<1>4. Len(ls) \in Nat /\ ls[k] < t
  BY <1>1 DEF Spelt, Named, Asking
<1>5. CASE k < Len(ls)
  <2> DEFINE l == ls[k]
             size == b[l]
  <2>1. size \in Nat /\ l \in Nat /\ size <= 63 /\ l + size + 1 < t
    BY <1>3, <1>5 DEF LabelSpelt
  <2> HIDE DEF size
  <2>2. l + size + 1 <= t
    BY <1>1, <2>1
  <2>3. QED
    BY <1>3, <1>4, <2>1, <2>2 DEF AskedLabel, size
<1>6. CASE k = Len(ls)
  BY <1>3, <1>4, <1>6 DEF LabelSpelt, AskedLabel
<1>7. QED
  BY <1>4, <1>5, <1>6

\* The constructor reads the question of b in c.
QuestionRead(c, stop, t, ls) ==
  /\ Named(c, 12, ls) /\ NameLabels(c, 12, stop) = ls /\ NameEnd(c, 12, stop) = t
  /\ EntryAt(c, 12, stop, 1) = QuestionOf(t)
  /\ Fits(c, QuestionOf(t), stop, 1) /\ EntryEnd(c, QuestionOf(t), 1) = t + 4

\* As names are followed by their labels only, what is behind the question does not matter.
LEMMA QuestionFound ==
  ASSUME NEW b, NEW n, NEW t, NEW ls, Asking(b, n, t, ls), NEW m \in Nat, NEW c \in Buffer(m),
         NEW stop \in 0 .. m, n <= stop, SameQuestion(b, c, t)
  PROVE  QuestionRead(c, stop, t, ls)
<1>1. /\ n \in Nat /\ b \in Buffer(n) /\ t \in Nat /\ 12 < t /\ t + 4 = n /\ stop \in Nat
      /\ Spelt(b, 12, ls, t)
  BY DEF Asking
<1>2. ls \in Seq(Nat) /\ Len(ls) \in Nat /\ Len(ls) >= 1 /\ ls[1] = 12 /\ Named(b, 12, ls)
  BY <1>1 DEF Spelt, Named
<1>3. ASSUME NEW k \in 1 .. Len(ls)
      PROVE  /\ c[ls[k]] = b[ls[k]] /\ ls[k] < stop /\ b[ls[k]] \in Nat /\ b[ls[k]] <= 63
             /\ ls[k] \in Nat
  <2>1. AskedLabel(b, t, ls, k)
    BY AskingLabel
  <2>2. ls[k] \in Nat /\ 12 <= ls[k] /\ ls[k] < t
    BY <2>1 DEF AskedLabel
  <2>3. c[ls[k]] = b[ls[k]]
    BY <2>2 DEF SameQuestion, SpeltAlike
  <2>4. QED
    BY <1>1, <2>1, <2>2, <2>3 DEF AskedLabel
<1>4. Named(c, 12, ls)
  <2>1. ASSUME NEW i \in 1 .. Len(ls) - 1
        PROVE  Plain(c, ls[i]) /\ ls[i + 1] = ls[i] + c[ls[i]] + 1
    <3>1. i \in 1 .. Len(ls)
      BY <1>2
    <3>2. Plain(b, ls[i]) /\ ls[i + 1] = ls[i] + b[ls[i]] + 1
      BY <1>2 DEF Named
    <3>3. QED
      BY <1>3, <3>1, <3>2 DEF Plain
  <2>2. c[ls[Len(ls)]] = 0
    <3>1. Len(ls) \in 1 .. Len(ls) /\ b[ls[Len(ls)]] = 0
      BY <1>1, <1>2 DEF Spelt
    <3>2. QED
      BY <1>3, <3>1
  <2>3. QED
    BY <1>2, <2>1, <2>2 DEF Named
<1>5. NameLabels(c, 12, stop) = ls
  <2>1. \A k \in 1 .. Len(ls) : ls[k] < stop
    BY <1>3
  <2>2. QED
    BY <1>4, <2>1, NamedUnique
<1>6. NameEnd(c, 12, stop) = t
  <2>1. \A k \in 1 .. Len(ls) : ls[k] < stop
    BY <1>3
  <2>2. c[ls[Len(ls)]] = 0 /\ t = ls[Len(ls)] + 1
    <3>1. Len(ls) \in 1 .. Len(ls) /\ b[ls[Len(ls)]] = 0 /\ t = ls[Len(ls)] + 1
      BY <1>1, <1>2 DEF Spelt
    <3>2. QED
      BY <1>3, <3>1
  <2>3. c[ls[Len(ls)]] < 192
    BY <2>2
  <2>4. NameEnd(c, 12, stop) = ls[Len(ls)] + 1
    BY <1>4, <2>1, <2>3, NamedEnd
  <2>5. QED
    BY <2>2, <2>4
<1>7. EntryAt(c, 12, stop, 1) = QuestionOf(t)
  BY <1>6 DEF EntryAt, QuestionOf
<1>8. EntryEnd(c, QuestionOf(t), 1) = t + 4 /\ FixedEnd(QuestionOf(t), 1) = t + 4
  BY <1>1 DEF EntryEnd, FixedEnd, QuestionOf
<1>9. ~InvalidLabel(c, ls)
  <2>1. ASSUME NEW i \in DOMAIN ls PROVE c[ls[i]] \notin 64 .. 191
    <3>1. i \in 1 .. Len(ls)
      BY <1>2
    <3>2. c[ls[i]] <= 63
      BY <1>3, <3>1
    <3>3. QED
      BY <3>2
  <2>2. QED
    BY <2>1 DEF InvalidLabel
<1>10. Fits(c, QuestionOf(t), stop, 1)
  <2>1. QuestionOf(t).begin = 12
    BY DEF QuestionOf
  <2>2. t + 4 <= stop
    BY <1>1
  <2>3. QED
    BY <1>5, <1>8, <1>9, <2>1, <2>2 DEF Fits
<1>11. QED
  BY <1>4, <1>5, <1>6, <1>7, <1>8, <1>10 DEF QuestionRead

\* What Asks says of the bytes of q.
LEMMA AsksAsking ==
  ASSUME NEW q, q.bytes \in Seq(Bytes), Asks(q)
  PROVE  LET b == BufferOf(q.bytes)
             n == Len(q.bytes)
             ls == NameLabels(b, 12, n)
             t == EntryAt(b, 12, n, 1).qtype
         IN Asking(b, n, t, ls) /\ EntryAt(b, 12, n, 1) = QuestionOf(t)
<1> DEFINE b == BufferOf(q.bytes)
           n == Len(q.bytes)
           e == EntryAt(b, 12, n, 1)
           ls == NameLabels(b, 12, n)
<1>1. /\ n \in 12 .. 512 /\ Fits(b, e, n, 1) /\ EntryEnd(b, e, 1) = n
      /\ Len(ls) <= 15 /\ \A i \in DOMAIN ls : ~IsPointer(b, ls[i])
  <2>1. n \in 12 .. 512
    <3>1. n \in HeaderSize .. MaxQuery
      BY DEF Asks
    <3> HIDE DEF n
    <3>2. HeaderSize = 12 /\ MaxQuery <= 512 /\ MaxQuery \in Nat
      BY DEF HeaderSize, MaxQuery
    <3>3. n \in Nat /\ 12 <= n /\ n <= 512
      BY <3>1, <3>2
    <3>4. QED
      BY <3>3
  <2>2. Fits(b, e, n, 1) /\ EntryEnd(b, e, 1) = n
    BY DEF Asks, HeaderSize
  <2>3. Len(ls) <= 15 /\ \A i \in DOMAIN ls : ~IsPointer(b, ls[i])
    BY DEF Asks, HeaderSize
  <2>4. QED
    BY <2>1, <2>2, <2>3
<1>2. b \in Buffer(n)
  BY BufferTyped
<1> HIDE DEF b, n
<1>3. n \in Nat /\ n \in 0 .. n /\ 12 \in Nat /\ 1 \in 1 .. 4
  BY <1>1
<1>4. /\ Named(b, 12, ls) /\ \A i \in 1 .. Len(ls) : ls[i] < e.qtype /\ ls[i] + 4 < n
      /\ e \in Questions(n)
  BY <1>1, <1>2, <1>3, EntryFits
<1>5. e.qtype = NameEnd(b, 12, n) /\ e = QuestionOf(e.qtype)
  BY DEF EntryAt, QuestionOf
<1>6. e.qtype \in Nat /\ 12 < e.qtype /\ e.qtype + 4 = n
  <2>1. e.begin = 12
    BY <1>5 DEF QuestionOf
  <2>2. e.qtype \in Nat /\ e.begin < e.qtype /\ e.qclass = e.qtype + 2
    BY <1>4 DEF Questions
  <2> HIDE DEF e
  <2>3. EntryEnd(b, e, 1) = e.qclass + 2 + 0
    BY DEF EntryEnd, FixedEnd
  <2>4. QED
    BY <1>1, <2>1, <2>2, <2>3
<1> HIDE DEF ls
<1>7. ls \in Seq(Nat) /\ Len(ls) \in Nat /\ Len(ls) >= 1
  BY <1>4 DEF Named
<1>8. b[ls[Len(ls)]] = 0
  <2>1. Len(ls) \in 1 .. Len(ls) /\ Len(ls) \in DOMAIN ls
    BY <1>7
  <2>2. ~(b[ls[Len(ls)]] >= 192)
    BY <1>1, <2>1 DEF IsPointer
  <2>3. QED
    BY <1>4, <2>2 DEF Named
<1>9. NameEnd(b, 12, n) = ls[Len(ls)] + 1
  <2>1. ASSUME NEW k \in 1 .. Len(ls) PROVE ls[k] < n
    <3>1. ls[k] \in Nat /\ ls[k] + 4 < n
      BY <1>4, <1>7, ElementOfSeq
    <3>2. QED
      BY <1>3, <3>1
  <2>2. b[ls[Len(ls)]] < 192
    BY <1>8
  <2> HIDE DEF e
  <2>3. QED
    BY <1>2, <1>3, <1>4, <2>1, <2>2, NamedEnd
<1>10. Spelt(b, 12, ls, e.qtype)
  BY <1>1, <1>4, <1>5, <1>8, <1>9 DEF Spelt
<1>11. Asking(b, n, e.qtype, ls)
  <2>1. n <= 512 /\ e.qtype \in Nat /\ 12 < e.qtype /\ e.qtype + 4 = n
    BY <1>1, <1>6
  <2>2. \A i \in 1 .. Len(ls) : ls[i] < e.qtype
    BY <1>4
  <2> HIDE DEF e
  <2>3. QED
    BY <1>2, <1>3, <1>10, <2>1, <2>2 DEF Asking
<1>12. QED
  BY <1>5, <1>11 DEF b, n, ls
-------------------------------------------------------------------------------
(* The record of an answer *)

\* Where the constructor finds a record at n.
RecordOf(n) ==
  [begin |-> n, name |-> n, qtype |-> n + 2, qclass |-> n + 4, ttl |-> n + 6, rdlength |-> n + 10,
   rdata |-> n + 12]

\* The bytes of r are in c at n.
Held(c, n, r) == \A p \in Nat : n <= p /\ p < n + Len(r) => c[p] = r[p - n + 1]

\* What fakedns puts into its records.
Small(type, octets) == type \in 0 .. 255 /\ octets \in Seq(Bytes) /\ Len(octets) <= 255

\* A small number has no high byte.
LEMMA SmallHalves ==
  ASSUME NEW v \in 0 .. 255
  PROVE  Two(v) = <<0, v>>
<1>1. v \in Nat /\ v < 256
  OBVIOUS
<1>2. v \div 256 = 0 /\ v % 256 = v
  BY <1>1, SMT
<1>3. QED
  BY <1>2 DEF Two

\* r is s with two more numbers.
TwoMore(s, x, y, r) ==
  /\ r \in Seq(Nat) /\ Len(r) = Len(s) + 2 /\ \A i \in 1 .. Len(s) : r[i] = s[i]
  /\ r[Len(s) + 1] = x /\ r[Len(s) + 2] = y

\* That is what concatenation gives.
LEMMA TwoConcat ==
  ASSUME NEW s \in Seq(Nat), NEW x \in Nat, NEW y \in Nat
  PROVE  TwoMore(s, x, y, s \o <<x, y>>)
<1>1. s \o <<x, y>> \in Seq(Nat) /\ Len(s \o <<x, y>>) = Len(s) + 2
  OBVIOUS
<1>2. \A i \in 1 .. Len(s) : (s \o <<x, y>>)[i] = s[i]
  OBVIOUS
<1>3. (s \o <<x, y>>)[Len(s) + 1] = x
  OBVIOUS
<1>4. (s \o <<x, y>>)[Len(s) + 2] = y
  OBVIOUS
<1>5. QED
  BY <1>1, <1>2, <1>3, <1>4 DEF TwoMore

FourMore(s, u, v, x, y, r) ==
  /\ r \in Seq(Nat) /\ Len(r) = Len(s) + 4 /\ \A i \in 1 .. Len(s) : r[i] = s[i]
  /\ r[Len(s) + 1] = u /\ r[Len(s) + 2] = v /\ r[Len(s) + 3] = x /\ r[Len(s) + 4] = y

\* So it does with four numbers.
LEMMA FourConcat ==
  ASSUME NEW s \in Seq(Nat), NEW u \in Nat, NEW v \in Nat, NEW x \in Nat, NEW y \in Nat
  PROVE  FourMore(s, u, v, x, y, s \o <<u, v, x, y>>)
<1>1. s \o <<u, v, x, y>> \in Seq(Nat) /\ Len(s \o <<u, v, x, y>>) = Len(s) + 4
  OBVIOUS
<1>2. \A i \in 1 .. Len(s) : (s \o <<u, v, x, y>>)[i] = s[i]
  OBVIOUS
<1>3. (s \o <<u, v, x, y>>)[Len(s) + 1] = u /\ (s \o <<u, v, x, y>>)[Len(s) + 2] = v
  OBVIOUS
<1>4. (s \o <<u, v, x, y>>)[Len(s) + 3] = x /\ (s \o <<u, v, x, y>>)[Len(s) + 4] = y
  OBVIOUS
<1>6. QED
  BY <1>1, <1>2, <1>3, <1>4 DEF FourMore

\* The bytes of a record under the name behind the header.
RecordHead(type, size) == <<192, 12, 0, type, 0, 1, 0, 0, 0, 0, 0, size>>

\* The record is put together of two bytes at a time.
LEMMA RecordBytes ==
  ASSUME NEW type, NEW octets, Small(type, octets)
  PROVE  /\ AnswerRecord(12, type, octets) = RecordHead(type, Len(octets)) \o octets
         /\ RecordHead(type, Len(octets)) \in Seq(Bytes) /\ Len(RecordHead(type, Len(octets))) = 12
<1>1. Len(octets) \in 0 .. 255 /\ type \in 0 .. 255 /\ 1 \in 0 .. 255
  <2>1. octets \in Seq(Bytes) /\ Len(octets) <= 255 /\ type \in 0 .. 255
    BY DEF Small
  <2>2. Len(octets) \in Nat
    BY <2>1
  <2> DEFINE size == Len(octets)
  <2> HIDE DEF size
  <2>3. size \in Nat /\ size <= 255 => size \in 0 .. 255
    OBVIOUS
  <2>4. 1 \in 0 .. 255
    OBVIOUS
  <2>5. QED
    BY <2>1, <2>2, <2>3, <2>4 DEF size
<1>2. Two(type) = <<0, type>> /\ Two(Len(octets)) = <<0, Len(octets)>> /\ Two(1) = <<0, 1>>
  BY <1>1, SmallHalves
<1>3. Two(3 * 2^14 + 12) = <<192, 12>>
  <2>1. (3 * 2^14 + 12) \div 256 = 192 /\ (3 * 2^14 + 12) % 256 = 12
    BY SMT
  <2>2. QED
    BY <2>1 DEF Two
<1>4. AnswerRecord(12, type, octets)
        = <<192, 12>> \o <<0, type>> \o <<0, 1>> \o <<0, 0, 0, 0>> \o <<0, Len(octets)>> \o octets
  BY <1>2, <1>3 DEF AnswerRecord
<1>5. <<192, 12>> \o <<0, type>> \o <<0, 1>> \o <<0, 0, 0, 0>> \o <<0, Len(octets)>>
        = RecordHead(type, Len(octets))
  <2> DEFINE size == Len(octets)
             r1 == <<192, 12>>
             r2 == r1 \o <<0, type>>
             r3 == r2 \o <<0, 1>>
             r4 == r3 \o <<0, 0, 0, 0>>
             r5 == r4 \o <<0, size>>
             r == RecordHead(type, size)
  <2>1. /\ size \in Nat /\ type \in Nat /\ 0 \in Nat /\ 1 \in Nat
    BY <1>1
  <2> HIDE DEF size
  <2>2. r1 \in Seq(Nat) /\ Len(r1) = 2 /\ r1[1] = 192 /\ r1[2] = 12
    OBVIOUS
  <2> HIDE DEF r1
  <2>3. TwoMore(r1, 0, type, r2)
    BY <2>1, <2>2, TwoConcat
  <2> HIDE DEF r2
  <2>4. r2 \in Seq(Nat) /\ Len(r2) = 4 /\ r2[1] = 192 /\ r2[2] = 12 /\ r2[3] = 0 /\ r2[4] = type
    BY <2>2, <2>3 DEF TwoMore
  <2>5. TwoMore(r2, 0, 1, r3)
    BY <2>1, <2>4, TwoConcat
  <2> HIDE DEF r3
  <2>6. /\ r3 \in Seq(Nat) /\ Len(r3) = 6 /\ r3[1] = 192 /\ r3[2] = 12 /\ r3[3] = 0 /\ r3[4] = type
        /\ r3[5] = 0 /\ r3[6] = 1
    BY <2>4, <2>5 DEF TwoMore
  <2>7. FourMore(r3, 0, 0, 0, 0, r4)
    BY <2>1, <2>6, FourConcat
  <2> HIDE DEF r4
  <2>8. /\ r4 \in Seq(Nat) /\ Len(r4) = 10 /\ r4[1] = 192 /\ r4[2] = 12 /\ r4[3] = 0 /\ r4[4] = type
        /\ r4[5] = 0 /\ r4[6] = 1 /\ r4[7] = 0 /\ r4[8] = 0 /\ r4[9] = 0 /\ r4[10] = 0
    BY <2>6, <2>7 DEF FourMore
  <2>9. TwoMore(r4, 0, size, r5)
    BY <2>1, <2>8, TwoConcat
  <2> HIDE DEF r5
  <2>10. /\ r5 \in Seq(Nat) /\ Len(r5) = 12
         /\ r5[1] = 192 /\ r5[2] = 12 /\ r5[3] = 0 /\ r5[4] = type
        /\ r5[5] = 0 /\ r5[6] = 1 /\ r5[7] = 0 /\ r5[8] = 0 /\ r5[9] = 0 /\ r5[10] = 0
        /\ r5[11] = 0 /\ r5[12] = size
    BY <2>8, <2>9 DEF TwoMore
  <2>11. /\ r \in Seq(Nat) /\ Len(r) = 12 /\ r[1] = 192 /\ r[2] = 12 /\ r[3] = 0 /\ r[4] = type
        /\ r[5] = 0 /\ r[6] = 1 /\ r[7] = 0 /\ r[8] = 0 /\ r[9] = 0 /\ r[10] = 0
        /\ r[11] = 0 /\ r[12] = size
    BY <2>1 DEF RecordHead
  <2> HIDE DEF r
  <2>12. \A i \in 1 .. 12 : r5[i] = r[i]
    <3>1. SUFFICES ASSUME NEW i \in 1 .. 12 PROVE r5[i] = r[i]
      OBVIOUS
    <3>2. i \in {1, 2, 3, 4, 5, 6, 7, 8, 9, 10, 11, 12}
      OBVIOUS
    <3>3. QED
      BY <2>10, <2>11, <3>2
  <2>13. r5 = r
    <3>1. Len(r5) = Len(r) /\ \A i \in 1 .. Len(r5) : r5[i] = r[i]
      BY <2>10, <2>11, <2>12
    <3> HIDE DEF r
    <3>2. QED
      BY <2>10, <2>11, <3>1, SeqEqual
  <2>14. QED
    BY <2>13 DEF r, r1, r2, r3, r4, r5, size
<1>6. RecordHead(type, Len(octets)) \in Seq(Bytes) /\ Len(RecordHead(type, Len(octets))) = 12
  BY <1>1 DEF RecordHead, Bytes
<1>7. QED
  BY <1>4, <1>5, <1>6

\* The constructor reads it.
RecordRead(c, stop, n, type, octets) ==
  /\ Named(c, n, <<n>>) /\ NameLabels(c, n, stop) = <<n>>
  /\ EntryAt(c, n, stop, 2) = RecordOf(n)
  /\ Fits(c, RecordOf(n), stop, 2) /\ EntryEnd(c, RecordOf(n), 2) = n + 12 + Len(octets)
  /\ c[n] = 192 /\ Offset(c, n) = 12
  /\ U16(c, n + 2) = type /\ U16(c, n + 4) = 1 /\ U16(c, n + 10) = Len(octets)
  /\ Slice(c, n + 6, 4) = <<0, 0, 0, 0>> /\ Slice(c, n + 12, Len(octets)) = octets

\* Where its bytes are, it is read, whatever is around it.
LEMMA RecordFound ==
  ASSUME NEW m \in Nat, NEW c \in Buffer(m), NEW stop \in 0 .. m, NEW n \in Nat,
         NEW type, NEW octets, Small(type, octets), n + 12 + Len(octets) <= stop,
         Held(c, n, AnswerRecord(12, type, octets))
  PROVE  RecordRead(c, stop, n, type, octets)
<1> DEFINE r == RecordHead(type, Len(octets))
           size == Len(octets)
<1>1. /\ Len(octets) \in Nat /\ octets \in Seq(Bytes) /\ type \in 0 .. 255 /\ Len(octets) <= 255
      /\ stop \in Nat
  BY DEF Small
<1>2. AnswerRecord(12, type, octets) = r \o octets /\ r \in Seq(Bytes) /\ Len(r) = 12
  BY RecordBytes
<1>3. Len(r \o octets) = 12 + size /\ \A i \in 1 .. 12 + size :
        (r \o octets)[i] = IF i <= 12 THEN r[i] ELSE octets[i - 12]
  <2> HIDE DEF r
  <2>1. Len(r \o octets) = Len(r) + Len(octets) /\ \A i \in 1 .. Len(r) + Len(octets) :
          (r \o octets)[i] = IF i <= Len(r) THEN r[i] ELSE octets[i - Len(r)]
    BY <1>1, <1>2, ConcatProperties
  <2>2. QED
    BY <1>2, <2>1
<1>4. \A i \in 1 .. size : c[n + 12 + i - 1] = octets[i]
  <2>1. ASSUME NEW i \in 1 .. size PROVE c[n + 12 + i - 1] = octets[i]
    <3> DEFINE p == n + 12 + i - 1
    <3>1. /\ p \in Nat /\ n <= p /\ p < n + (12 + size) /\ p - n + 1 = 12 + i
          /\ 12 + i \in 1 .. 12 + size /\ ~(12 + i <= 12) /\ (12 + i) - 12 = i
      BY <1>1, <2>1
    <3> HIDE DEF p, r, size
    <3>2. c[p] = (r \o octets)[p - n + 1]
      BY <1>2, <1>3, <3>1 DEF Held
    <3>3. (r \o octets)[12 + i] = octets[i]
      BY <1>3, <3>1
    <3>4. QED
      BY <3>1, <3>2, <3>3 DEF p
  <2>2. QED
    BY <2>1
<1>5. /\ c[n] = 192 /\ c[n + 1] = 12 /\ c[n + 2] = 0 /\ c[n + 3] = type /\ c[n + 4] = 0
      /\ c[n + 5] = 1 /\ c[n + 6] = 0 /\ c[n + 7] = 0 /\ c[n + 8] = 0 /\ c[n + 9] = 0
      /\ c[n + 10] = 0 /\ c[n + 11] = size
  <2>1. /\ r[1] = 192 /\ r[2] = 12 /\ r[3] = 0 /\ r[4] = type /\ r[5] = 0 /\ r[6] = 1 /\ r[7] = 0
        /\ r[8] = 0 /\ r[9] = 0 /\ r[10] = 0 /\ r[11] = 0 /\ r[12] = size
    BY DEF RecordHead
  <2> HIDE DEF r, size
  <2>2. ASSUME NEW k \in 0 .. 11 PROVE c[n + k] = r[k + 1]
    <3> DEFINE p == n + k
    <3>1. /\ p \in Nat /\ n <= p /\ p < n + (12 + size) /\ p - n + 1 = k + 1
          /\ k + 1 \in 1 .. 12 + size /\ k + 1 <= 12
      BY <1>1, <2>2 DEF size
    <3> HIDE DEF p
    <3>2. p < n + Len(r \o octets)
      BY <1>3, <3>1
    <3>3. c[p] = (r \o octets)[p - n + 1]
      BY <1>2, <3>1, <3>2 DEF Held
    <3>4. (r \o octets)[k + 1] = r[k + 1]
      BY <1>3, <3>1
    <3>5. QED
      BY <3>1, <3>3, <3>4 DEF p
  <2>3. /\ c[n + 0] = r[0 + 1] /\ c[n + 1] = r[1 + 1] /\ c[n + 2] = r[2 + 1] /\ c[n + 3] = r[3 + 1]
        /\ c[n + 4] = r[4 + 1] /\ c[n + 5] = r[5 + 1] /\ c[n + 6] = r[6 + 1] /\ c[n + 7] = r[7 + 1]
        /\ c[n + 8] = r[8 + 1] /\ c[n + 9] = r[9 + 1] /\ c[n + 10] = r[10 + 1]
        /\ c[n + 11] = r[11 + 1]
    <3>1. /\ 0 \in 0 .. 11 /\ 1 \in 0 .. 11 /\ 2 \in 0 .. 11 /\ 3 \in 0 .. 11 /\ 4 \in 0 .. 11
          /\ 5 \in 0 .. 11 /\ 6 \in 0 .. 11 /\ 7 \in 0 .. 11 /\ 8 \in 0 .. 11 /\ 9 \in 0 .. 11
          /\ 10 \in 0 .. 11 /\ 11 \in 0 .. 11
      OBVIOUS
    <3>2. QED
      BY <2>2, <3>1
  <2>4. n + 0 = n
    OBVIOUS
  <2>5. /\ c[n] = r[1] /\ c[n + 1] = r[2] /\ c[n + 2] = r[3] /\ c[n + 3] = r[4]
        /\ c[n + 4] = r[5] /\ c[n + 5] = r[6] /\ c[n + 6] = r[7] /\ c[n + 7] = r[8]
        /\ c[n + 8] = r[9] /\ c[n + 9] = r[10] /\ c[n + 10] = r[11] /\ c[n + 11] = r[12]
    BY <2>3, <2>4
  <2>6. QED
    BY <2>1, <2>5
<1> HIDE DEF r
<1>6. /\ U16(c, n + 2) = type /\ U16(c, n + 4) = 1 /\ U16(c, n + 10) = size
  <2>1. n + 2 + 1 = n + 3 /\ n + 4 + 1 = n + 5 /\ n + 10 + 1 = n + 11
    OBVIOUS
  <2>2. U16(c, n + 2) = 256 * c[n + 2] + c[n + 3] /\ U16(c, n + 4) = 256 * c[n + 4] + c[n + 5]
        /\ U16(c, n + 10) = 256 * c[n + 10] + c[n + 11]
    BY <2>1 DEF U16
  <2>3. 256 * 0 + type = type /\ 256 * 0 + 1 = 1 /\ 256 * 0 + size = size
    BY <1>1
  <2> HIDE DEF size
  <2>4. QED
    BY <1>5, <2>2, <2>3
<1>7. Offset(c, n) = 12
  <2>1. U16(c, n) = 256 * 192 + 12
    BY <1>5 DEF U16
  <2>2. (256 * 192 + 12) % 2^14 = 12
    BY SMT
  <2>3. QED
    BY <2>1, <2>2 DEF Offset
<1>8. Slice(c, n + 6, 4) = <<0, 0, 0, 0>>
  <2>1. /\ n + 6 + 1 - 1 = n + 6 /\ n + 6 + 2 - 1 = n + 7 /\ n + 6 + 3 - 1 = n + 8
        /\ n + 6 + 4 - 1 = n + 9
    OBVIOUS
  <2>2. \A i \in 1 .. 4 : c[n + 6 + i - 1] = 0
    <3>1. ASSUME NEW i \in 1 .. 4 PROVE c[n + 6 + i - 1] = 0
      <4>1. i = 1 \/ i = 2 \/ i = 3 \/ i = 4
        OBVIOUS
      <4>2. c[n + 6] = 0 /\ c[n + 7] = 0 /\ c[n + 8] = 0 /\ c[n + 9] = 0
        BY <1>5
      <4>3. n + 6 + i - 1 \in {n + 6, n + 7, n + 8, n + 9}
        BY <4>1
      <4> DEFINE p == n + 6 + i - 1
      <4> HIDE DEF p
      <4>4. c[p] = 0
        BY <4>2, <4>3 DEF p
      <4>5. QED
        BY <4>4 DEF p
    <3>2. QED
      BY <3>1
  <2>3. Slice(c, n + 6, 4) = [i \in 1 .. 4 |-> 0]
    BY <2>2 DEF Slice
  <2>4. QED
    BY <2>3
<1>9. Slice(c, n + 12, size) = octets
  <2>1. octets = [i \in 1 .. size |-> octets[i]]
    BY <1>1
  <2>2. Slice(c, n + 12, size) = [i \in 1 .. size |-> c[n + 12 + i - 1]]
    BY DEF Slice
  <2> HIDE DEF size
  <2>3. QED
    BY <1>4, <2>1, <2>2
<1>10. Named(c, n, <<n>>)
  <2>1. <<n>> \in Seq(Nat) /\ Len(<<n>>) = 1 /\ <<n>>[1] = n
    OBVIOUS
  <2>2. \A i \in 1 .. Len(<<n>>) - 1 : FALSE
    BY <2>1
  <2>3. c[<<n>>[Len(<<n>>)]] >= 192
    BY <1>5, <2>1
  <2>4. QED
    BY <2>1, <2>2, <2>3 DEF Named
<1>11. NameLabels(c, n, stop) = <<n>> /\ NameEnd(c, n, stop) = n + 2
  <2>1. \A k \in 1 .. Len(<<n>>) : <<n>>[k] < stop
    BY <1>1
  <2>2. c[<<n>>[Len(<<n>>)]] >= 192 /\ <<n>>[Len(<<n>>)] = n
    BY <1>5
  <2>3. NameLabels(c, n, stop) = <<n>>
    BY <1>10, <2>1, NamedUnique
  <2>4. NameEnd(c, n, stop) = n + 2
    <3> DEFINE ls == <<n>>
    <3>1. Named(c, n, ls) /\ \A k \in 1 .. Len(ls) : ls[k] < stop
      BY <1>10, <2>1
    <3>2. c[ls[Len(ls)]] >= 192 /\ ls[Len(ls)] = n
      BY <2>2
    <3> HIDE DEF ls
    <3>3. NameEnd(c, n, stop) = ls[Len(ls)] + 2
      BY <3>1, <3>2, NamedEnd
    <3>4. QED
      BY <3>2, <3>3
  <2>5. QED
    BY <2>3, <2>4
<1>12. EntryAt(c, n, stop, 2) = RecordOf(n)
  <2>1. /\ n + 2 + 2 = n + 4 /\ n + 2 + 4 = n + 6 /\ n + 2 + 8 = n + 10 /\ n + 2 + 10 = n + 12
    OBVIOUS
  <2>2. QED
    BY <1>11, <2>1 DEF EntryAt, RecordOf
<1>13. FixedEnd(RecordOf(n), 2) = n + 12 /\ EntryEnd(c, RecordOf(n), 2) = n + 12 + size
  BY <1>6 DEF FixedEnd, EntryEnd, RecordOf
<1>14. Fits(c, RecordOf(n), stop, 2)
  <2>1. RecordOf(n).begin = n
    BY DEF RecordOf
  <2>2. ~InvalidLabel(c, <<n>>)
    <3>1. \A i \in DOMAIN <<n>> : <<n>>[i] = n
      OBVIOUS
    <3>2. c[n] \notin 64 .. 191
      BY <1>5
    <3>3. QED
      BY <3>1, <3>2 DEF InvalidLabel
  <2>3. n + 12 <= stop /\ n + 12 + size <= stop
    BY <1>1
  <2>4. QED
    BY <1>11, <1>13, <2>1, <2>2, <2>3 DEF Fits
<1>15. QED
  BY <1>5, <1>6, <1>7, <1>8, <1>9, <1>10, <1>11, <1>12, <1>13, <1>14 DEF RecordRead
-------------------------------------------------------------------------------
(* The header of an answer *)

\* Cutting all of a buffer out of it and putting it into one changes nothing.
LEMMA SliceBack ==
  ASSUME NEW n \in Nat, NEW c \in Buffer(n)
  PROVE  Slice(c, 0, n) \in Seq(Bytes) /\ Len(Slice(c, 0, n)) = n /\ BufferOf(Slice(c, 0, n)) = c
<1> DEFINE s == Slice(c, 0, n)
<1>1. s = [i \in 1 .. n |-> c[0 + i - 1]]
  BY DEF Slice
<1>2. ASSUME NEW i \in 1 .. n PROVE c[0 + i - 1] = c[i - 1] /\ c[i - 1] \in Bytes
  <2>1. 0 + i - 1 = i - 1 /\ i - 1 \in 0 .. n - 1
    BY <1>2
  <2>2. QED
    BY <2>1 DEF Buffer
<1>3. s = [i \in 1 .. n |-> c[i - 1]]
  BY <1>1, <1>2
<1> HIDE DEF s
<1>4. s \in Seq(Bytes) /\ Len(s) = n
  BY <1>2, <1>3
<1>5. ASSUME NEW p \in 0 .. n - 1 PROVE s[p + 1] = c[p]
  <2>1. p + 1 \in 1 .. n /\ (p + 1) - 1 = p
    BY <1>5
  <2>2. s[p + 1] = c[(p + 1) - 1]
    BY <1>3, <2>1
  <2>3. QED
    BY <2>1, <2>2
<1>6. BufferOf(s) = c
  <2>1. BufferOf(s) = [p \in 0 .. n - 1 |-> s[p + 1]]
    BY <1>4 DEF BufferOf
  <2>2. c = [p \in 0 .. n - 1 |-> c[p]]
    BY DEF Buffer
  <2>3. QED
    BY <1>5, <2>1, <2>2
<1>7. QED
  BY <1>4, <1>6 DEF s

\* The header c has the id i and the flags v, and no counts.
Flags(c, i, v) ==
  /\ c \in Buffer(12) /\ U16(c, 0) = i /\ U16(c, 2) = v
  /\ \A p \in 4 .. 11 : c[p] = 0

\* w are the flags v with another value x of a field.
WithFlag(v, pos, bits, x, w) == Word(w) /\ w = v + (x - ((v \div 2^pos) % 2^bits)) * 2^pos

\* Setting a field of the flags leaves id and counts alone.
LEMMA FlagSet ==
  ASSUME NEW c, NEW i, NEW v, Flags(c, i, v), NEW pos, NEW bits, NEW x, NEW w,
         WithFlag(v, pos, bits, x, w)
  PROVE  Flags(WithField(c, pos, bits, x), i, w)
<1> DEFINE d == Write16(c, 2, w)
<1>1. WithField(c, pos, bits, x) = d
  BY DEF WithField, Field, Flags, WithFlag
<1>2. c \in Buffer(12) /\ Word(w) /\ 12 \in Nat /\ 2 \in Nat /\ 2 + 1 < 12
  BY DEF Flags, WithFlag
<1>3. d \in Buffer(12)
  BY <1>2, Write16Typed
<1>4. U16(d, 2) = w /\ \A p \in Nat : p < 12 /\ p # 2 /\ p # 2 + 1 => d[p] = c[p]
  BY <1>2, Write16At
<1> HIDE DEF d
<1>5. d[0] = c[0] /\ d[0 + 1] = c[0 + 1]
  BY <1>4
<1>6. \A p \in 4 .. 11 : d[p] = c[p]
  BY <1>4
<1>7. QED
  BY <1>1, <1>3, <1>4, <1>5, <1>6 DEF Flags, U16

\* The header c of an answer with the id i and k records.
HeaderOf(c, i, k) ==
  /\ U16(c, 0) = i /\ U16(c, 2) = 33024
  /\ Count(c, 1) = 1 /\ Count(c, 2) = k /\ Count(c, 3) = 0 /\ Count(c, 4) = 0

\* The flags as the handler sets them, one after the other: a response, recursion desired.
LEMMA FlagWords ==
  /\ Word(0) /\ Word(1) /\ Word(32768) /\ Word(33024)
  /\ WithFlag(0, 15, 1, 1, 32768) /\ WithFlag(32768, 11, 4, 0, 32768)
  /\ WithFlag(32768, 10, 1, 0, 32768) /\ WithFlag(32768, 9, 1, 0, 32768)
  /\ WithFlag(32768, 8, 1, 1, 33024) /\ WithFlag(33024, 7, 1, 0, 33024)
  /\ WithFlag(33024, 0, 4, 0, 33024)
<1>1. Word(0) /\ Word(1)
  BY SmallWord
<1>2. Word(32768) /\ Word(33024)
  <2>1. 32768 \in Nat /\ 33024 \in Nat /\ 32768 \div 256 = 128 /\ 33024 \div 256 = 129
    BY SMT
  <2>2. 128 \in Bytes /\ 129 \in Bytes
    BY ByteRange, SMT
  <2>3. QED
    BY <2>1, <2>2 DEF Word
<1>3. /\ 32768 = 0 + (1 - ((0 \div 2^15) % 2^1)) * 2^15
      /\ 32768 = 32768 + (0 - ((32768 \div 2^11) % 2^4)) * 2^11
      /\ 32768 = 32768 + (0 - ((32768 \div 2^10) % 2^1)) * 2^10
      /\ 32768 = 32768 + (0 - ((32768 \div 2^9) % 2^1)) * 2^9
      /\ 33024 = 32768 + (1 - ((32768 \div 2^8) % 2^1)) * 2^8
      /\ 33024 = 33024 + (0 - ((33024 \div 2^7) % 2^1)) * 2^7
      /\ 33024 = 33024 + (0 - ((33024 \div 2^0) % 2^4)) * 2^0
  BY SMT
<1>4. QED
  BY <1>1, <1>2, <1>3 DEF WithFlag

\* The header has the id of the query, these flags and the two counts.
LEMMA HeaderMade ==
  ASSUME NEW b, Word(U16(b, 0)), NEW k \in 0 .. 1
  PROVE  LET h == AnswerHeader(b, k)
         IN h \in Seq(Bytes) /\ Len(h) = 12 /\ HeaderOf(BufferOf(h), U16(b, 0), k)
<1> DEFINE i == U16(b, 0)
           zero == [o \in 0 .. 12 - 1 |-> 0]
           id == Write16(zero, 0, i)
           qr == WithField(id, 15, 1, 1)
           opcode == WithField(qr, 11, 4, 0)
           aa == WithField(opcode, 10, 1, 0)
           tc == WithField(aa, 9, 1, 0)
           rd == WithField(tc, 8, 1, 1)
           ra == WithField(rd, 7, 1, 0)
           rcode == WithField(ra, 0, 4, 0)
           one == Write16(rcode, 4, 1)
           c == Write16(one, 6, k)
<1>1. AnswerHeader(b, k) = Slice(c, 0, 12)
  BY DEF AnswerHeader, HeaderSize
<1> HIDE DEF i
<1>2. Word(i)
  BY DEF i
<1>3. Flags(id, i, 0)
  <2>1. zero \in Buffer(12)
    <3>1. 0 \in Bytes
      BY DEF Bytes
    <3>2. QED
      BY <3>1 DEF Buffer
  <2>2. \A p \in 0 .. 11 : zero[p] = 0
    OBVIOUS
  <2> HIDE DEF zero
  <2>3. 12 \in Nat /\ 0 \in Nat /\ 0 + 1 < 12
    OBVIOUS
  <2>4. id \in Buffer(12)
    BY <1>2, <2>1, <2>3, Write16Typed
  <2>5. U16(id, 0) = i /\ \A p \in Nat : p < 12 /\ p # 0 /\ p # 0 + 1 => id[p] = zero[p]
    BY <1>2, <2>1, <2>3, Write16At
  <2> HIDE DEF id
  <2>6. \A p \in 2 .. 11 : id[p] = 0
    BY <2>2, <2>5
  <2>7. U16(id, 2) = 0
    BY <2>6 DEF U16
  <2>8. QED
    BY <2>4, <2>5, <2>6, <2>7 DEF Flags
<1> HIDE DEF id
<1>4. Flags(qr, i, 32768)
  BY <1>3, FlagSet, FlagWords
<1> HIDE DEF qr
<1>5. Flags(opcode, i, 32768)
  BY <1>4, FlagSet, FlagWords
<1> HIDE DEF opcode
<1>6. Flags(aa, i, 32768)
  BY <1>5, FlagSet, FlagWords
<1> HIDE DEF aa
<1>7. Flags(tc, i, 32768)
  BY <1>6, FlagSet, FlagWords
<1> HIDE DEF tc
<1>8. Flags(rd, i, 33024)
  BY <1>7, FlagSet, FlagWords
<1> HIDE DEF rd
<1>9. Flags(ra, i, 33024)
  BY <1>8, FlagSet, FlagWords
<1> HIDE DEF ra
<1>10. Flags(rcode, i, 33024)
  BY <1>9, FlagSet, FlagWords
<1> HIDE DEF rcode
<1>11. Word(k) /\ 12 \in Nat /\ 4 \in Nat /\ 6 \in Nat /\ 4 + 1 < 12 /\ 6 + 1 < 12
  BY SmallWord
<1>12. /\ rcode \in Buffer(12) /\ U16(rcode, 0) = i /\ U16(rcode, 2) = 33024
       /\ \A p \in 4 .. 11 : rcode[p] = 0
  BY <1>10 DEF Flags
<1>13. one \in Buffer(12)
  BY <1>11, <1>12, FlagWords, Write16Typed
<1>14. U16(one, 4) = 1 /\ \A p \in Nat : p < 12 /\ p # 4 /\ p # 4 + 1 => one[p] = rcode[p]
  BY <1>11, <1>12, FlagWords, Write16At
<1> HIDE DEF one
<1>15. c \in Buffer(12)
  BY <1>11, <1>13, Write16Typed
<1>16. U16(c, 6) = k /\ \A p \in Nat : p < 12 /\ p # 6 /\ p # 6 + 1 => c[p] = one[p]
  BY <1>11, <1>13, Write16At
<1> HIDE DEF c
<1>17. /\ c[0] = rcode[0] /\ c[1] = rcode[1] /\ c[2] = rcode[2] /\ c[3] = rcode[3]
       /\ c[4] = one[4] /\ c[5] = one[5] /\ c[8] = 0 /\ c[9] = 0 /\ c[10] = 0 /\ c[11] = 0
  BY <1>12, <1>14, <1>16
<1>18. U16(c, 0) = i /\ U16(c, 2) = 33024 /\ U16(c, 4) = 1 /\ U16(c, 8) = 0 /\ U16(c, 10) = 0
  <2>1. 0 + 1 = 1 /\ 2 + 1 = 3 /\ 4 + 1 = 5 /\ 8 + 1 = 9 /\ 10 + 1 = 11
    OBVIOUS
  <2>2. U16(c, 0) = U16(rcode, 0) /\ U16(c, 2) = U16(rcode, 2) /\ U16(c, 4) = U16(one, 4)
    BY <1>17, <2>1 DEF U16
  <2>3. U16(c, 8) = 0 /\ U16(c, 10) = 0
    BY <1>17, <2>1 DEF U16
  <2>4. QED
    BY <1>12, <1>14, <2>2, <2>3
<1>19. HeaderOf(c, i, k)
  <2>1. 2 * 1 + 2 = 4 /\ 2 * 2 + 2 = 6 /\ 2 * 3 + 2 = 8 /\ 2 * 4 + 2 = 10
    OBVIOUS
  <2>2. QED
    BY <1>16, <1>18, <2>1 DEF HeaderOf, Count
<1>20. QED
  BY <1>1, <1>11, <1>15, <1>19, SliceBack DEF i
-------------------------------------------------------------------------------
(* What fakedns answers *)

\* The bytes of s and then those of r.
Followed2(c, s, r) ==
  /\ \A p \in Nat : p < Len(s) => c[p] = BufferOf(s)[p] /\ c[p] = s[p + 1]
  /\ \A p \in Nat : Len(s) <= p /\ p < Len(s) + Len(r) => c[p] = r[p - Len(s) + 1]

\* That is where the bytes of two sequences are in the buffer of both.
LEMMA JoinedBytes ==
  ASSUME NEW s \in Seq(Bytes), NEW r \in Seq(Bytes)
  PROVE  /\ s \o r \in Seq(Bytes) /\ Len(s \o r) = Len(s) + Len(r)
         /\ Len(s) \in Nat /\ Len(r) \in Nat
         /\ Followed2(BufferOf(s \o r), s, r)
<1> DEFINE x == s \o r
           n == Len(s)
           k == Len(r)
<1>1. x \in Seq(Bytes) /\ Len(x) = n + k /\ n \in Nat /\ k \in Nat
  BY ConcatProperties
<1>2. \A i \in 1 .. n + k : x[i] = IF i <= n THEN s[i] ELSE r[i - n]
  BY ConcatProperties
<1>3. /\ BufferOf(x) = [p \in 0 .. n + k - 1 |-> x[p + 1]]
      /\ BufferOf(s) = [p \in 0 .. n - 1 |-> s[p + 1]]
  BY <1>1 DEF BufferOf
<1> HIDE DEF x, n, k
<1>4. ASSUME NEW p \in Nat, p < n
      PROVE  BufferOf(x)[p] = BufferOf(s)[p] /\ BufferOf(x)[p] = s[p + 1]
  <2>1. p \in 0 .. n + k - 1 /\ p \in 0 .. n - 1 /\ p + 1 \in 1 .. n + k /\ p + 1 <= n
    BY <1>1, <1>4
  <2>2. x[p + 1] = s[p + 1]
    BY <1>2, <2>1
  <2>3. QED
    BY <1>3, <2>1, <2>2
<1>5. ASSUME NEW p \in Nat, n <= p, p < n + k
      PROVE  BufferOf(x)[p] = r[p - n + 1]
  <2>1. p \in 0 .. n + k - 1 /\ p + 1 \in 1 .. n + k /\ ~(p + 1 <= n) /\ (p + 1) - n = p - n + 1
    BY <1>1, <1>5
  <2>2. x[p + 1] = r[(p + 1) - n]
    BY <1>2, <2>1
  <2>3. QED
    BY <1>3, <2>1, <2>2
<1>6. QED
  BY <1>1, <1>4, <1>5 DEF Followed2, x, n, k

\* c begins with an answer to the question of b, with k records, whose bytes are r.
Answering(c, b, n, t, k, r) ==
  /\ HeaderOf(c, U16(b, 0), k) /\ SameQuestion(b, c, t) /\ U16(c, t) = U16(b, t)
  /\ Held(c, n, r)

\* The number of records.
Records(r) == IF r = <<>> THEN 0 ELSE 1

\* a is such an answer.
FakeAnswered(a, b, n, t, r) ==
  a \in Seq(Bytes) /\ Len(a) = n + Len(r) /\ Answering(BufferOf(a), b, n, t, Records(r), r)

\* Header, question and record, one behind the other, are such an answer.
LEMMA AnswerHeld ==
  ASSUME NEW b, NEW n, NEW t, NEW ls, Asking(b, n, t, ls), NEW r \in Seq(Bytes)
  PROVE  FakeAnswered(AnswerHeader(b, Records(r)) \o Slice(b, 12, n - 12) \o r, b, n, t, r)
<1> DEFINE k == Records(r)
<1>0. k \in 0 .. 1
  BY DEF Records
<1> HIDE DEF k
<1> DEFINE h == AnswerHeader(b, k)
           s == Slice(b, 12, n - 12)
           x == h \o s
           c == BufferOf(x \o r)
<1>1. n \in Nat /\ b \in Buffer(n) /\ t \in Nat /\ 12 < t /\ t + 4 = n
  BY DEF Asking
<1>2. h \in Seq(Bytes) /\ Len(h) = 12 /\ HeaderOf(BufferOf(h), U16(b, 0), k)
  <2>1. 0 \in Nat /\ 0 + 1 < n
    BY <1>1
  <2>2. Word(U16(b, 0))
    BY <1>1, <2>1, U16Word
  <2>3. QED
    BY <1>0, <2>2, HeaderMade
<1>3. s \in Seq(Bytes) /\ Len(s) = n - 12 /\ \A i \in 1 .. n - 12 : s[i] = b[12 + i - 1]
  <2>1. n - 12 \in Nat
    BY <1>1
  <2>2. ASSUME NEW i \in 1 .. n - 12 PROVE b[12 + i - 1] \in Bytes
    <3>1. 12 + i - 1 \in 0 .. n - 1
      BY <1>1, <2>2
    <3>2. QED
      BY <1>1, <3>1 DEF Buffer
  <2>3. s = [i \in 1 .. n - 12 |-> b[12 + i - 1]]
    BY DEF Slice
  <2> HIDE DEF s
  <2>4. QED
    BY <2>1, <2>2, <2>3
<1> HIDE DEF h, s
<1>4. x \in Seq(Bytes) /\ Len(x) = n /\ Followed2(BufferOf(x), h, s)
  <2>1. x \in Seq(Bytes) /\ Len(x) = 12 + (n - 12) /\ Followed2(BufferOf(x), h, s)
    BY <1>2, <1>3, JoinedBytes
  <2>2. 12 + (n - 12) = n
    BY <1>1
  <2>3. QED
    BY <2>1, <2>2
<1> HIDE DEF x
<1>5. x \o r \in Seq(Bytes) /\ Len(x \o r) = n + Len(r) /\ Followed2(c, x, r)
  BY <1>4, JoinedBytes
<1> HIDE DEF c
<1>6. ASSUME NEW p \in Nat, p < 12 PROVE c[p] = BufferOf(h)[p]
  <2>1. p < n
    BY <1>1, <1>6
  <2>2. c[p] = BufferOf(x)[p]
    BY <1>4, <1>5, <2>1 DEF Followed2
  <2>3. QED
    BY <1>2, <1>4, <1>6, <2>2 DEF Followed2
<1>7. ASSUME NEW p \in Nat, 12 <= p, p < n PROVE c[p] = b[p]
  <2>1. p < 12 + (n - 12) /\ p - 12 + 1 \in 1 .. n - 12 /\ 12 + (p - 12 + 1) - 1 = p
    BY <1>1, <1>7
  <2>2. c[p] = BufferOf(x)[p]
    BY <1>4, <1>5, <1>7 DEF Followed2
  <2>3. BufferOf(x)[p] = s[p - 12 + 1]
    BY <1>2, <1>3, <1>4, <1>7, <2>1 DEF Followed2
  <2>4. s[p - 12 + 1] = b[p]
    BY <1>3, <2>1
  <2>5. QED
    BY <2>2, <2>3, <2>4
<1>8. HeaderOf(c, U16(b, 0), k)
  <2> DEFINE hb == BufferOf(h)
  <2> HIDE DEF hb
  <2>1. \A p \in Nat : p < 12 => c[p] = hb[p]
    BY <1>6 DEF hb
  <2>2. \A i \in 1 .. 4 : Count(c, i) = Count(hb, i)
    BY <2>1, CountKept
  <2>3. c[0] = hb[0] /\ c[0 + 1] = hb[0 + 1] /\ c[2] = hb[2] /\ c[2 + 1] = hb[2 + 1]
    BY <2>1
  <2>4. U16(c, 0) = U16(hb, 0) /\ U16(c, 2) = U16(hb, 2)
    BY <2>3 DEF U16
  <2>5. 1 \in 1 .. 4 /\ 2 \in 1 .. 4 /\ 3 \in 1 .. 4 /\ 4 \in 1 .. 4
    OBVIOUS
  <2>6. HeaderOf(hb, U16(b, 0), k)
    BY <1>2 DEF hb
  <2>7. QED
    BY <2>2, <2>4, <2>5, <2>6 DEF HeaderOf
<1>9. SameQuestion(b, c, t) /\ U16(c, t) = U16(b, t)
  <2>1. \A p \in Nat : 12 <= p /\ p < t => c[p] = b[p]
    <3>1. ASSUME NEW p \in Nat, 12 <= p, p < t PROVE c[p] = b[p]
      <4>1. p < n
        BY <1>1, <3>1
      <4>2. QED
        BY <1>7, <3>1, <4>1
    <3>2. QED
      BY <3>1
  <2>2. c[t] = b[t] /\ c[t + 1] = b[t + 1] /\ c[t + 2] = b[t + 2] /\ c[t + 3] = b[t + 3]
    <3>1. /\ t + 1 \in Nat /\ t + 2 \in Nat /\ t + 3 \in Nat
          /\ 12 <= t /\ 12 <= t + 1 /\ 12 <= t + 2 /\ 12 <= t + 3
          /\ t < n /\ t + 1 < n /\ t + 2 < n /\ t + 3 < n
      BY <1>1
    <3>2. QED
      BY <1>1, <1>7, <3>1
  <2>3. QED
    BY <2>1, <2>2 DEF SameQuestion, SpeltAlike, U16
<1>10. Held(c, n, r)
  BY <1>4, <1>5 DEF Followed2, Held
<1>11. QED
  BY <1>5, <1>8, <1>9, <1>10 DEF Answering, FakeAnswered, h, s, x, c, k

\* The datagram d is a whole query for the address ip, with one question and nothing else.
AskedFor(d, b, n, t, ls, ip) ==
  /\ d \in Seq(Bytes) /\ b = BufferOf(d) /\ n = Len(d) /\ Asking(b, n, t, ls)
  /\ EntryAt(b, 12, n, 1) = QuestionOf(t) /\ NameLabels(b, 12, n) = ls
  /\ StandardQuery(b) /\ Count(b, 1) = 1 /\ Counts(b) = 1 /\ LabelsToString(b, ls) # <<>>
  /\ Scanned(LabelsToString(b, ls)) = ip /\ ip \in [1 .. 4 -> Bytes]

\* The bytes of the record in the answer.
FakeRecord(type, ip, native) ==
  IF type = TypeA THEN AnswerRecord(12, TypeA, ip)
  ELSE IF type = TypeAAAA /\ native THEN AnswerRecord(12, TypeAAAA, FakeSynth(ip))
  ELSE <<>>

\* What it is made of.
OneRecord(r, type, octets) ==
  /\ Small(type, octets) /\ r = AnswerRecord(12, type, octets)
  /\ r \in Seq(Bytes) /\ Len(r) = 12 + Len(octets) /\ Len(octets) \in Nat /\ r # <<>>

\* It is as long as its head and its data.
LEMMA RecordMade ==
  ASSUME NEW type, NEW octets, Small(type, octets)
  PROVE  OneRecord(AnswerRecord(12, type, octets), type, octets)
<1> DEFINE h == RecordHead(type, Len(octets))
           r == AnswerRecord(12, type, octets)
<1>1. r = h \o octets /\ h \in Seq(Bytes) /\ Len(h) = 12
  BY RecordBytes
<1>2. octets \in Seq(Bytes)
  BY DEF Small
<1> HIDE DEF h
<1>3. h \o octets \in Seq(Bytes) /\ Len(h \o octets) = Len(h) + Len(octets) /\ Len(octets) \in Nat
  BY <1>1, <1>2, JoinedBytes
<1> HIDE DEF r
<1>4. r \in Seq(Bytes) /\ Len(r) = 12 + Len(octets) /\ Len(octets) \in Nat
  BY <1>1, <1>3
<1>5. r # <<>>
  BY <1>4
<1>6. QED
  BY <1>4, <1>5 DEF OneRecord, r

\* An address and what is synthesized from it.
LEMMA AddressSmall ==
  ASSUME NEW ip \in [1 .. 4 -> Bytes]
  PROVE  /\ ip \in Seq(Bytes) /\ Len(ip) = 4
         /\ FakeSynth(ip) \in Seq(Bytes) /\ Len(FakeSynth(ip)) = 16
         /\ Small(TypeA, ip) /\ Small(TypeAAAA, FakeSynth(ip))
<1>1. ip \in Seq(Bytes) /\ Len(ip) = 4
  <2>1. \A i \in 1 .. 4 : ip[i] \in Bytes
    OBVIOUS
  <2>2. 4 \in Nat /\ DOMAIN ip = 1 .. 4 /\ ip = [i \in 1 .. 4 |-> ip[i]]
    OBVIOUS
  <2>3. QED
    BY <2>1, <2>2, FunctionIsSeq
<1>2. IPv6Prefix \in Seq(Bytes) /\ Len(IPv6Prefix) = 12
  <2>1. 32 \in Bytes /\ 1 \in Bytes /\ 13 \in Bytes /\ 184 \in Bytes /\ 0 \in Bytes
    BY ByteRange, SMT
  <2>2. QED
    BY <2>1 DEF IPv6Prefix
<1>3. FakeSynth(ip) \in Seq(Bytes) /\ Len(FakeSynth(ip)) = 16
  <2>1. IPv6Prefix \o ip \in Seq(Bytes) /\ Len(IPv6Prefix \o ip) = Len(IPv6Prefix) + Len(ip)
    BY <1>1, <1>2, JoinedBytes
  <2>2. QED
    BY <1>1, <1>2, <2>1 DEF FakeSynth
<1>4. TypeA \in 0 .. 255 /\ TypeAAAA \in 0 .. 255
  BY DEF TypeA, TypeAAAA
<1>5. QED
  BY <1>1, <1>3, <1>4 DEF Small

\* The octets of the record, if there is one.
FakeData(type, ip) == IF type = TypeA THEN ip ELSE FakeSynth(ip)

\* There is a record for a question for an address, and it holds the address.
LEMMA RecordIfAny ==
  ASSUME NEW type, NEW ip \in [1 .. 4 -> Bytes], NEW native
  PROVE  LET r == FakeRecord(type, ip, native)
         IN IF type = TypeA \/ (type = TypeAAAA /\ native)
            THEN OneRecord(r, type, FakeData(type, ip))
            ELSE r = <<>>
<1>1. OneRecord(AnswerRecord(12, TypeA, ip), TypeA, ip)
  BY AddressSmall, RecordMade
<1>2. OneRecord(AnswerRecord(12, TypeAAAA, FakeSynth(ip)), TypeAAAA, FakeSynth(ip))
  BY AddressSmall, RecordMade
<1>3. TypeA # TypeAAAA
  BY DEF TypeA, TypeAAAA
<1>4. QED
  BY <1>1, <1>2, <1>3, Zenon DEF FakeRecord, FakeData

\* Of such a query the constructor reads the question and nothing else.
LEMMA OnlyQuestion ==
  ASSUME NEW b, NEW n, Counts(b) = 1, NEW ls \in Seq(Nat), NameLabels(b, 12, n) = ls
  PROVE  AllLabels(b, n) = ls /\ (AllFit(b, n) <=> Fits(b, EntryAt(b, 12, n, 1), n, 1))
<1> DEFINE more == [i \in 1 .. Counts(b) - 1 |-> NameLabels(b, EntriesOf(b, n)[i + 1].begin, n)]
<1>1. more = <<>>
  <2> DEFINE at1(i) == NameLabels(b, EntriesOf(b, n)[i + 1].begin, n)
  <2>1. more = [i \in 1 .. 0 |-> at1(i)]
    BY SMT
  <2> HIDE DEF at1, more
  <2>2. QED
    BY <2>1
<1>2. FlattenSeq(<<>>) = <<>>
  BY DEF FlattenSeq
<1>3. AllLabels(b, n) = ls \o FlattenSeq(more)
  BY DEF AllLabels, HeaderSize
<1> HIDE DEF more
<1>4. AllLabels(b, n) = ls
  BY <1>1, <1>2, <1>3
<1>5. \A i : i \notin 2 .. Counts(b)
  OBVIOUS
<1>6. QED
  BY <1>4, <1>5 DEF AllFit, HeaderSize

\* That is what the handler answers to a whole query for an address, whatever its buffer held.
LEMMA AnswerMade ==
  ASSUME NEW d, NEW b, NEW n, NEW t, NEW ls, NEW ip, AskedFor(d, b, n, t, ls, ip), NEW native,
         NEW leftover
  PROVE  FakeAnswered(FakeAnswer(d, native, leftover), b, n, t, FakeRecord(U16(b, t), ip, native))
<1> DEFINE r == FakeRecord(U16(b, t), ip, native)
<1>1. /\ d \in Seq(Bytes) /\ b = BufferOf(d) /\ n = Len(d) /\ Asking(b, n, t, ls)
      /\ EntryAt(b, 12, n, 1) = QuestionOf(t) /\ NameLabels(b, 12, n) = ls
      /\ StandardQuery(b) /\ Scanned(LabelsToString(b, ls)) = ip /\ ip \in [1 .. 4 -> Bytes]
      /\ Counts(b) = 1 /\ LabelsToString(b, ls) # <<>>
  BY DEF AskedFor
<1>2. n \in Nat /\ b \in Buffer(n) /\ t \in Nat /\ 12 < t /\ t + 4 = n /\ ls \in Seq(Nat)
  BY <1>1 DEF Asking, Spelt, Named
<1>3. Fits(b, QuestionOf(t), n, 1) /\ EntryEnd(b, QuestionOf(t), 1) = n
  <2>1. SameQuestion(b, b, t) /\ n \in 0 .. n /\ n <= n
    BY <1>2 DEF SameQuestion, SpeltAlike
  <2>2. QuestionRead(b, n, t, ls)
    BY <1>1, <1>2, <2>1, QuestionFound
  <2>3. QED
    BY <1>2, <2>2 DEF QuestionRead
<1>4. QuestionOf(t).begin = 12 /\ QuestionOf(t).qtype = t
  BY DEF QuestionOf
<1>5. /\ n >= 12 /\ AllFit(b, n) /\ AllConverted(ip)
      /\ Scanned(Text(b, AllLabels(b, n), leftover)) = ip
  <2>1. AllConverted(ip)
    BY <1>1, AddressSmall DEF AllConverted
  <2>2. n >= 12
    BY <1>2
  <2>3. AllFit(b, n) /\ AllLabels(b, n) = ls
    BY <1>1, <1>2, <1>3, OnlyQuestion
  <2>4. QED
    BY <1>1, <2>1, <2>2, <2>3 DEF Text
<1>6. FakeAnswer(d, native, leftover) = AnswerHeader(b, Records(r)) \o Slice(b, 12, n - 12) \o r
  <2> DEFINE q == QuestionOf(t)
             asked == Slice(b, q.begin, EntryEnd(b, q, 1) - q.begin)
             records == IF U16(b, q.qtype) = TypeA THEN AnswerRecord(q.begin, TypeA, ip)
                        ELSE IF U16(b, q.qtype) = TypeAAAA /\ native
                        THEN AnswerRecord(q.begin, TypeAAAA, FakeSynth(ip))
                        ELSE <<>>
  <2>1. FakeAnswer(d, native, leftover) =
          IF n >= 12 /\ StandardQuery(b) /\ AllFit(b, n) /\ AllConverted(ip)
          THEN AnswerHeader(b, IF records = <<>> THEN 0 ELSE 1) \o asked \o records
          ELSE <<>>
    <3>1. /\ BufferOf(d) = b /\ Len(d) = n /\ EntryAt(b, 12, n, 1) = q
          /\ Scanned(Text(b, AllLabels(b, n), leftover)) = ip
      BY <1>1, <1>5
    <3> HIDE DEF q
    <3>2. QED
      BY <3>1, SMT DEF FakeAnswer, HeaderSize
  <2>2. asked = Slice(b, 12, n - 12) /\ records = r
    BY <1>3, <1>4 DEF FakeRecord
  <2> HIDE DEF asked, records, r, q
  <2>3. FakeAnswer(d, native, leftover)
          = AnswerHeader(b, IF records = <<>> THEN 0 ELSE 1) \o asked \o records
    BY <1>1, <1>5, <2>1
  <2>4. QED
    BY <2>2, <2>3 DEF Records
<1>7. r \in Seq(Bytes) /\ Records(r) \in 0 .. 1
  <2> DEFINE octets == FakeData(U16(b, t), ip)
  <2>1. OneRecord(r, U16(b, t), octets) \/ r = <<>>
    BY <1>1, RecordIfAny
  <2> HIDE DEF r, octets
  <2>2. r \in Seq(Bytes)
    <3>1. CASE r = <<>>
      BY <3>1
    <3>2. CASE OneRecord(r, U16(b, t), octets)
      BY <3>2 DEF OneRecord
    <3>3. QED
      BY <2>1, <3>1, <3>2
  <2>3. QED
    BY <2>2 DEF Records
<1> HIDE DEF r
<1>8. FakeAnswered(AnswerHeader(b, Records(r)) \o Slice(b, 12, n - 12) \o r, b, n, t, r)
  BY <1>1, <1>7, AnswerHeld
<1>9. QED
  BY <1>6, <1>8 DEF r
-------------------------------------------------------------------------------
(* The query asked again for an address *)

\* The text of a name that is spelt alike is the same.
LEMMA TextsSame ==
  ASSUME NEW b, NEW c, NEW n, NEW t, NEW ls, Asking(b, n, t, ls), SameQuestion(b, c, t)
  PROVE  LabelsToString(c, ls) = LabelsToString(b, ls)
<1>1. ls \in Seq(Nat) /\ Len(ls) \in Nat /\ DOMAIN ls = 1 .. Len(ls)
  BY DEF Asking, Spelt, Named
<1> DEFINE told(x, i) ==
             [first |-> x[ls[i]],
              text |-> IF IsPointer(x, ls[i]) THEN <<>> ELSE Slice(x, ls[i] + 1, x[ls[i]]),
              to |-> IF IsPointer(x, ls[i])
                      THEN {k \in DOMAIN ls : ls[k] = Offset(x, ls[i])} ELSE {}]
<1>2. ASSUME NEW i \in 1 .. Len(ls) PROVE told(c, i) = told(b, i)
  <2> DEFINE l == ls[i]
             size == b[l]
  <2>1. AskedLabel(b, t, ls, i)
    BY AskingLabel
  <2>2. /\ l \in Nat /\ 12 <= l /\ l < t /\ size \in Nat /\ size <= 63
        /\ l + size + 1 <= t /\ t \in Nat
    BY <2>1 DEF AskedLabel, Asking
  <2>3. \A p \in Nat : 12 <= p /\ p < t => c[p] = b[p]
    BY DEF SameQuestion, SpeltAlike
  <2>4. c[l] = size
    BY <2>2, <2>3
  <2>5. Slice(c, l + 1, size) = Slice(b, l + 1, size)
    <3> HIDE DEF l, size
    <3>1. ASSUME NEW j \in 1 .. size PROVE c[l + 1 + j - 1] = b[l + 1 + j - 1]
      <4> DEFINE p == l + 1 + j - 1
      <4>1. p \in Nat /\ 12 <= p /\ p < t
        BY <2>2, <3>1
      <4> HIDE DEF p
      <4>2. c[p] = b[p]
        BY <2>3, <4>1
      <4>3. QED
        BY <4>2 DEF p
    <3>2. QED
      BY <3>1 DEF Slice
  <2>6. ~IsPointer(c, l) /\ ~IsPointer(b, l)
    BY <2>2, <2>4 DEF IsPointer
  <2>7. QED
    BY <2>4, <2>5, <2>6
<1>3. LabelTexts(c, ls) = [i \in 1 .. Len(ls) |-> told(c, i)]
      /\ LabelTexts(b, ls) = [i \in 1 .. Len(ls) |-> told(b, i)]
  BY <1>1 DEF LabelTexts
<1> HIDE DEF told
<1>4. LabelTexts(c, ls) = LabelTexts(b, ls)
  BY <1>2, <1>3
<1>5. QED
  BY <1>4 DEF LabelsToString

\* The same query, but for its type.
AskedAgain(b, c, n, t) ==
  /\ c \in Buffer(n) /\ SameQuestion(b, c, t) /\ U16(c, t) = TypeA
  /\ \A o \in {0, 2, 4, 6, 8, 10} : U16(c, o) = U16(b, o)

\* Setting the type of the question makes that of it.
LEMMA TypeChanged ==
  ASSUME NEW b, NEW n, NEW t, NEW ls, Asking(b, n, t, ls)
  PROVE  AskedAgain(b, Write16(b, t, TypeA), n, t)
<1> DEFINE c == Write16(b, t, TypeA)
<1>1. n \in Nat /\ b \in Buffer(n) /\ t \in Nat /\ 12 < t /\ t + 4 = n /\ t + 1 < n
  BY DEF Asking
<1>2. Word(TypeA)
  BY SmallWord DEF TypeA
<1>3. c \in Buffer(n)
  BY <1>1, <1>2, Write16Typed
<1>4. U16(c, t) = TypeA /\ \A p \in Nat : p < n /\ p # t /\ p # t + 1 => c[p] = b[p]
  BY <1>1, <1>2, Write16At
<1> HIDE DEF c
<1>5. \A p \in Nat : p < t => c[p] = b[p]
  <2>1. ASSUME NEW p \in Nat, p < t PROVE p < n /\ p # t /\ p # t + 1
    BY <1>1, <2>1
  <2>2. QED
    BY <1>4, <2>1
<1>6. c[t + 2] = b[t + 2] /\ c[t + 3] = b[t + 3]
  <2>1. /\ t + 2 \in Nat /\ t + 2 < n /\ t + 2 # t /\ t + 2 # t + 1
        /\ t + 3 \in Nat /\ t + 3 < n /\ t + 3 # t /\ t + 3 # t + 1
    BY <1>1
  <2>2. QED
    BY <1>4, <2>1
<1>7. SameQuestion(b, c, t)
  BY <1>5, <1>6 DEF SameQuestion, SpeltAlike
<1>8. ASSUME NEW o \in {0, 2, 4, 6, 8, 10} PROVE U16(c, o) = U16(b, o)
  <2>1. o \in Nat /\ o < t /\ o + 1 \in Nat /\ o + 1 < t
    BY <1>1
  <2>2. c[o] = b[o] /\ c[o + 1] = b[o + 1]
    BY <1>5, <2>1
  <2>3. QED
    BY <2>2 DEF U16
<1>9. QED
  BY <1>3, <1>4, <1>7, <1>8 DEF AskedAgain, c

\* It is a whole query for the same address, as a datagram.
LEMMA AskedAnewFor ==
  ASSUME NEW d, NEW b, NEW n, NEW t, NEW ls, NEW ip, AskedFor(d, b, n, t, ls, ip),
         NEW c, AskedAgain(b, c, n, t)
  PROVE  AskedFor(Slice(c, 0, n), c, n, t, ls, ip)
<1>1. /\ Asking(b, n, t, ls) /\ StandardQuery(b) /\ Scanned(LabelsToString(b, ls)) = ip
      /\ ip \in [1 .. 4 -> Bytes]
      /\ Count(b, 1) = 1 /\ Counts(b) = 1 /\ LabelsToString(b, ls) # <<>>
  BY DEF AskedFor
<1>2. n \in Nat /\ n <= 512 /\ t \in Nat /\ 12 < t /\ t + 4 = n /\ Spelt(b, 12, ls, t)
      /\ \A i \in 1 .. Len(ls) : ls[i] < t
  BY <1>1 DEF Asking
<1>3. c \in Buffer(n) /\ SameQuestion(b, c, t) /\ U16(c, 2) = U16(b, 2)
  <2>1. 2 \in {0, 2, 4, 6, 8, 10}
    OBVIOUS
  <2>2. QED
    BY <2>1 DEF AskedAgain
<1>4. Slice(c, 0, n) \in Seq(Bytes) /\ Len(Slice(c, 0, n)) = n /\ BufferOf(Slice(c, 0, n)) = c
  BY <1>2, <1>3, SliceBack
<1>5. QuestionRead(c, n, t, ls)
  <2>1. n \in 0 .. n /\ n <= n
    BY <1>2
  <2>2. QED
    BY <1>1, <1>2, <1>3, <2>1, QuestionFound
<1>6. Spelt(c, 12, ls, t)
  <2>1. Len(ls) \in 1 .. Len(ls)
    BY <1>2 DEF Spelt, Named
  <2>2. AskedLabel(b, t, ls, Len(ls))
    BY <1>1, <2>1, AskingLabel
  <2>3. c[ls[Len(ls)]] = b[ls[Len(ls)]]
    BY <1>3, <2>2 DEF AskedLabel, SameQuestion, SpeltAlike
  <2>4. Named(c, 12, ls)
    BY <1>5 DEF QuestionRead
  <2>5. QED
    BY <1>2, <2>3, <2>4 DEF Spelt
<1>7. Asking(c, n, t, ls)
  BY <1>2, <1>3, <1>6 DEF Asking
<1>8. StandardQuery(c)
  BY <1>1, <1>3 DEF StandardQuery, Field
<1>9. LabelsToString(c, ls) = LabelsToString(b, ls)
  BY <1>1, <1>3, TextsSame
<1>10. EntryAt(c, 12, n, 1) = QuestionOf(t) /\ NameLabels(c, 12, n) = ls
  BY <1>5 DEF QuestionRead
<1>11. Count(c, 1) = 1 /\ Counts(c) = 1
  <2>1. ASSUME NEW k \in 1 .. 4 PROVE Count(c, k) = Count(b, k)
    <3>1. 2 + 2 * k \in {0, 2, 4, 6, 8, 10}
      OBVIOUS
    <3>2. U16(c, 2 + 2 * k) = U16(b, 2 + 2 * k)
      BY <3>1 DEF AskedAgain
    <3>3. QED
      BY <3>2 DEF Count
  <2>2. Counts(c) = Counts(b)
    BY <2>1 DEF Counts
  <2>3. QED
    BY <1>1, <2>1, <2>2
<1>12. QED
  BY <1>1, <1>4, <1>7, <1>8, <1>9, <1>10, <1>11 DEF AskedFor
-------------------------------------------------------------------------------
(* What an answer of fakedns says *)

\* The first bytes of c, of m, are such an answer.
FakeHeld(c, m, b, n, t, ls, r, octets) ==
  /\ Asking(b, n, t, ls) /\ m \in Nat /\ c \in Buffer(m) /\ n + Len(r) <= m
  /\ Answering(c, b, n, t, Records(r), r)
  /\ r = <<>> \/ OneRecord(r, U16(b, t), octets)
  /\ r # <<>> => U16(b, t) = TypeAAAA \/ (U16(b, t) = TypeA /\ Len(octets) = 4)

\* What is read of it.
AnswerRead(c, stop, b, n, t, ls, r, octets) ==
  /\ Count(c, 1) = 1 /\ Count(c, 2) = Records(r) /\ Counts(c) = 1 + Records(r)
  /\ QuestionRead(c, stop, t, ls) /\ SectionOf(c, 1) = 1 /\ EntriesOf(c, stop)[1] = QuestionOf(t)
  /\ r # <<>> =>
       /\ RecordRead(c, stop, n, U16(b, t), octets) /\ SectionOf(c, 2) = 2
       /\ EntriesOf(c, stop)[2] = RecordOf(n)
  /\ DOMAIN EntriesOf(c, stop) = 1 .. 1 + Records(r) /\ Len(EntriesOf(c, stop)) = 1 + Records(r)
  /\ EntryEnd(c, EntriesOf(c, stop)[1 + Records(r)], SectionOf(c, 1 + Records(r))) = stop

\* The constructor reads the question and the record, and ends where the answer does.
LEMMA FakeRead ==
  ASSUME NEW c, NEW m, NEW b, NEW n, NEW t, NEW ls, NEW r, NEW octets,
         FakeHeld(c, m, b, n, t, ls, r, octets)
  PROVE  AnswerRead(c, n + Len(r), b, n, t, ls, r, octets)
<1> DEFINE stop == n + Len(r)
           k == Records(r)
           es == EntriesOf(c, stop)
<1>1. /\ Asking(b, n, t, ls) /\ m \in Nat /\ c \in Buffer(m) /\ stop <= m
      /\ SameQuestion(b, c, t) /\ Held(c, n, r) /\ HeaderOf(c, U16(b, 0), k)
      /\ r = <<>> \/ OneRecord(r, U16(b, t), octets)
  BY DEF FakeHeld, Answering
<1>2. n \in Nat /\ t \in Nat /\ t + 4 = n
  BY <1>1 DEF Asking
<1>3. Len(r) \in Nat /\ (r = <<>> => Len(r) = 0)
  BY <1>1 DEF OneRecord
<1>4. stop \in 0 .. m /\ n <= stop /\ stop \in Nat
  BY <1>1, <1>2, <1>3
<1>5. k \in 0 .. 1 /\ (r = <<>> => k = 0) /\ (r # <<>> => k = 1)
  BY DEF Records
<1> HIDE DEF stop, k
<1>6. Count(c, 1) = 1 /\ Count(c, 2) = k /\ Count(c, 3) = 0 /\ Count(c, 4) = 0
  BY <1>1 DEF HeaderOf
<1>7. Counts(c) = 1 + k /\ Counts(c) \in Nat
  <2>1. Counts(c) = 1 + k + 0 + 0
    BY <1>6 DEF Counts
  <2>2. QED
    BY <1>5, <2>1
<1>8. SectionOf(c, 1) = 1 /\ (r # <<>> => SectionOf(c, 2) = 2)
  <2>1. SectionOf(c, 1) = 1
    BY <1>6 DEF SectionOf
  <2>2. ASSUME r # <<>> PROVE SectionOf(c, 2) = 2
    BY <1>5, <1>6, <2>2 DEF SectionOf
  <2>3. QED
    BY <2>1, <2>2
<1>9. QuestionRead(c, stop, t, ls)
  BY <1>1, <1>4, QuestionFound
<1>10. es[1] = QuestionOf(t)
  <2>1. 1 \in 1 .. Counts(c)
    BY <1>5, <1>7
  <2>2. es[1] = EntryAt(c, Where(c, stop, 1), stop, SectionOf(c, 1))
    BY <1>7, <2>1, EntryNext
  <2>3. Where(c, stop, 1) = 12
    BY DEF Where, HeaderSize
  <2>4. QED
    BY <1>8, <1>9, <2>2, <2>3 DEF QuestionRead
<1>11. DOMAIN es = 1 .. 1 + k /\ Len(es) = 1 + k
  <2>1. DOMAIN es = 1 .. Counts(c)
    BY DEF EntriesOf
  <2>2. 1 + k \in Nat
    BY <1>5
  <2>3. DOMAIN es = 1 .. 1 + k
    BY <1>7, <2>1
  <2> HIDE DEF es
  <2>4. QED
    BY <2>2, <2>3
<1>12. ASSUME r # <<>>
       PROVE  RecordRead(c, stop, n, U16(b, t), octets) /\ es[2] = RecordOf(n)
  <2>1. OneRecord(r, U16(b, t), octets)
    BY <1>1, <1>12
  <2>2. /\ Small(U16(b, t), octets) /\ r = AnswerRecord(12, U16(b, t), octets)
        /\ Len(r) = 12 + Len(octets) /\ Len(octets) \in Nat
    BY <2>1 DEF OneRecord
  <2>3. n + 12 + Len(octets) <= stop
    BY <1>2, <1>4, <2>2 DEF stop
  <2>4. Held(c, n, AnswerRecord(12, U16(b, t), octets))
    BY <1>1, <2>2
  <2>5. RecordRead(c, stop, n, U16(b, t), octets)
    BY <1>1, <1>2, <1>4, <2>2, <2>3, <2>4, RecordFound
  <2>6. 2 \in 1 .. Counts(c)
    BY <1>5, <1>7, <1>12
  <2>7. es[2] = EntryAt(c, Where(c, stop, 2), stop, SectionOf(c, 2))
    BY <1>7, <2>6, EntryNext
  <2>8. Where(c, stop, 2) = EntryEnd(c, es[2 - 1], SectionOf(c, 2 - 1))
    BY DEF Where
  <2>9. 2 - 1 = 1
    OBVIOUS
  <2>10. Where(c, stop, 2) = n
    BY <1>2, <1>8, <1>9, <1>10, <2>8, <2>9 DEF QuestionRead
  <2>11. QED
    BY <1>8, <1>12, <2>5, <2>7, <2>10 DEF RecordRead
<1>13. EntryEnd(c, es[1 + k], SectionOf(c, 1 + k)) = stop
  <2>1. CASE r = <<>>
    <3>1. 1 + k = 1 /\ stop = n
      BY <1>2, <1>3, <1>5, <2>1 DEF stop
    <3>2. EntryEnd(c, QuestionOf(t), 1) = t + 4
      BY <1>9 DEF QuestionRead
    <3>3. QED
      BY <1>2, <1>8, <1>10, <3>1, <3>2
  <2>2. CASE r # <<>>
    <3>1. 1 + k = 2
      BY <1>5, <2>2
    <3>2. OneRecord(r, U16(b, t), octets)
      BY <1>1, <2>2
    <3>3. Len(r) = 12 + Len(octets) /\ Len(octets) \in Nat
      BY <3>2 DEF OneRecord
    <3>4. stop = n + 12 + Len(octets)
      BY <1>2, <3>3 DEF stop
    <3>5. EntryEnd(c, RecordOf(n), 2) = n + 12 + Len(octets)
      BY <1>12, <2>2 DEF RecordRead
    <3>6. QED
      BY <1>8, <1>12, <2>2, <3>1, <3>4, <3>5
  <2>3. QED
    BY <2>1, <2>2
<1>14. QED
  BY <1>6, <1>7, <1>8, <1>9, <1>10, <1>11, <1>12, <1>13 DEF AnswerRead, es, stop, k

\* What its question says, and its record.
QuestionSaid(b, t) ==
  [section |-> 1, owner |-> Name(b, 12), type |-> U16(b, t), class |-> U16(b, t + 2),
   ttl |-> <<>>, target |-> <<>>, data |-> <<>>]

RecordSaid(b, t, octets) ==
  [section |-> 2, owner |-> Name(b, 12), type |-> U16(b, t), class |-> 1,
   ttl |-> <<0, 0, 0, 0>>, target |-> <<>>, data |-> octets]

\* The type of its record is none of a name.
LEMMA NoNameHeld ==
  ASSUME NEW c, NEW m, NEW b, NEW n, NEW t, NEW ls, NEW r, NEW octets,
         FakeHeld(c, m, b, n, t, ls, r, octets), r # <<>>
  PROVE  HoldsName(U16(b, t)) = FALSE
<1>1. U16(b, t) = TypeAAAA \/ U16(b, t) = TypeA
  BY DEF FakeHeld
<1>2. QED
  BY <1>1 DEF HoldsName, TypeA, TypeAAAA, TypeNS, TypeCNAME

\* The name of the question is the client's, and the pointer of the record is to it.
LEMMA FakeNames ==
  ASSUME NEW c, NEW m, NEW b, NEW n, NEW t, NEW ls, NEW r, NEW octets,
         FakeHeld(c, m, b, n, t, ls, r, octets)
  PROVE  Name(c, 12) = Name(b, 12) /\ (r # <<>> => Name(c, n) = Name(b, 12))
<1>1. /\ Asking(b, n, t, ls) /\ m \in Nat /\ c \in Buffer(m) /\ n + Len(r) <= m
      /\ SameQuestion(b, c, t) /\ (r = <<>> \/ OneRecord(r, U16(b, t), octets))
  BY DEF FakeHeld, Answering
<1>2. /\ n \in Nat /\ b \in Buffer(n) /\ t \in Nat /\ 12 < t /\ t + 4 = n
      /\ Spelt(b, 12, ls, t) /\ \A i \in 1 .. Len(ls) : ls[i] < t
  BY <1>1 DEF Asking
<1>3. Len(r) \in Nat /\ (r # <<>> => Len(r) >= 12)
  BY <1>1 DEF OneRecord
<1>4. t <= n /\ t <= m /\ 12 \in Nat
  BY <1>1, <1>2, <1>3
<1>5. \A i \in 1 .. Len(ls) : ls[i] < n
  <2>1. ls \in Seq(Nat)
    BY <1>2 DEF Spelt, Named
  <2>2. ASSUME NEW i \in 1 .. Len(ls) PROVE ls[i] < n
    <3>1. ls[i] \in Nat /\ ls[i] < t
      BY <1>2, <2>1, <2>2, ElementOfSeq
    <3>2. QED
      BY <1>2, <3>1
  <2>3. QED
    BY <2>2
<1>6. SpeltAlike(b, c, 12, t)
  BY <1>1 DEF SameQuestion
<1>7. /\ Name(c, 12) = Name(b, 12)
      /\ \A p \in Nat : p + 1 < m /\ c[p] >= 192 /\ Offset(c, p) = 12 => Name(c, p) = Name(b, 12)
  BY <1>1, <1>2, <1>4, <1>5, <1>6, SpeltSame
<1>8. ASSUME r # <<>> PROVE Name(c, n) = Name(b, 12)
  <2>1. AnswerRead(c, n + Len(r), b, n, t, ls, r, octets)
    BY FakeRead
  <2>2. RecordRead(c, n + Len(r), n, U16(b, t), octets)
    BY <1>8, <2>1 DEF AnswerRead
  <2>3. c[n] = 192 /\ Offset(c, n) = 12
    BY <2>2 DEF RecordRead
  <2>4. n + 1 < m /\ c[n] >= 192
    BY <1>1, <1>2, <1>3, <1>8, <2>3
  <2>5. QED
    BY <1>2, <1>7, <2>3, <2>4
<1>9. QED
  BY <1>7, <1>8

\* What an answer of fakedns means.
FakeMeans(b, t, r, octets) ==
  IF r = <<>> THEN <<QuestionSaid(b, t)>> ELSE <<QuestionSaid(b, t), RecordSaid(b, t, octets)>>

\* It says what was asked and the address.
LEMMA FakeMeaning ==
  ASSUME NEW c, NEW m, NEW b, NEW n, NEW t, NEW ls, NEW r, NEW octets,
         FakeHeld(c, m, b, n, t, ls, r, octets)
  PROVE  Meaning(c, n + Len(r)) = FakeMeans(b, t, r, octets)
<1> DEFINE stop == n + Len(r)
           es == EntriesOf(c, stop)
           k == Records(r)
<1>1. AnswerRead(c, stop, b, n, t, ls, r, octets)
  BY FakeRead
<1>2. /\ SectionOf(c, 1) = 1 /\ es[1] = QuestionOf(t)
      /\ r # <<>> => /\ RecordRead(c, stop, n, U16(b, t), octets)
                     /\ SectionOf(c, 2) = 2 /\ es[2] = RecordOf(n)
      /\ DOMAIN es = 1 .. 1 + k
  BY <1>1 DEF AnswerRead
<1>3. Name(c, 12) = Name(b, 12) /\ (r # <<>> => Name(c, n) = Name(b, 12))
  BY FakeNames
<1>4. MeaningOf(c, QuestionOf(t), 1) = QuestionSaid(b, t)
  <2>1. U16(c, t) = U16(b, t) /\ c[t + 2] = b[t + 2] /\ c[t + 3] = b[t + 3] /\ t \in Nat
    BY DEF FakeHeld, Answering, SameQuestion, Asking
  <2>2. t + 2 + 1 = t + 3
    BY <2>1
  <2>3. U16(c, t + 2) = U16(b, t + 2)
    BY <2>1, <2>2 DEF U16
  <2>4. QuestionOf(t).begin = 12 /\ QuestionOf(t).qtype = t /\ QuestionOf(t).qclass = t + 2
    BY DEF QuestionOf
  <2>5. QED
    BY <1>3, <2>1, <2>3, <2>4 DEF MeaningOf, QuestionSaid
<1>5. ASSUME r # <<>> PROVE MeaningOf(c, RecordOf(n), 2) = RecordSaid(b, t, octets)
  <2>1. /\ U16(c, n + 2) = U16(b, t) /\ U16(c, n + 4) = 1 /\ U16(c, n + 10) = Len(octets)
        /\ Slice(c, n + 6, 4) = <<0, 0, 0, 0>> /\ Slice(c, n + 12, Len(octets)) = octets
    BY <1>2, <1>5 DEF RecordRead
  <2>2. /\ RecordOf(n).begin = n /\ RecordOf(n).qtype = n + 2 /\ RecordOf(n).qclass = n + 4
        /\ RecordOf(n).ttl = n + 6 /\ RecordOf(n).rdlength = n + 10 /\ RecordOf(n).rdata = n + 12
    BY DEF RecordOf
  <2>3. HoldsName(U16(b, t)) = FALSE
    BY <1>5, NoNameHeld
  <2>4. Name(c, n) = Name(b, 12) /\ 2 # 1
    BY <1>3, <1>5
  <2>5. QED
    BY <2>1, <2>2, <2>3, <2>4 DEF MeaningOf, RecordSaid
<1> HIDE DEF stop
<1>6. Meaning(c, stop) = [i \in 1 .. 1 + k |-> MeaningOf(c, es[i], SectionOf(c, i))]
  BY <1>2 DEF Meaning
<1> HIDE DEF es
<1>7. CASE r = <<>>
  <2>1. 1 + k = 1
    BY <1>7 DEF Records
  <2>2. Meaning(c, stop) = [i \in 1 .. 1 |-> QuestionSaid(b, t)]
    <3>1. \A i \in 1 .. 1 : i = 1
      OBVIOUS
    <3>2. QED
      BY <1>2, <1>4, <1>6, <2>1, <3>1
  <2>3. QED
    BY <1>7, <2>2 DEF FakeMeans, stop
<1>8. CASE r # <<>>
  <2>1. 1 + k = 2
    BY <1>8 DEF Records
  <2> DEFINE said(i) == IF i = 1 THEN QuestionSaid(b, t) ELSE RecordSaid(b, t, octets)
  <2>2. ASSUME NEW i \in 1 .. 2 PROVE MeaningOf(c, es[i], SectionOf(c, i)) = said(i)
    <3>1. i = 1 \/ i = 2
      OBVIOUS
    <3>2. QED
      BY <1>2, <1>4, <1>5, <1>8, <3>1
  <2>3. Meaning(c, stop) = [i \in 1 .. 2 |-> said(i)]
    BY <1>6, <2>1, <2>2
  <2>4. [i \in 1 .. 2 |-> said(i)] = <<QuestionSaid(b, t), RecordSaid(b, t, octets)>>
    <3> DEFINE x == QuestionSaid(b, t)
               y == RecordSaid(b, t, octets)
    <3> HIDE DEF x, y
    <3>1. [i \in 1 .. 2 |-> IF i = 1 THEN x ELSE y] = <<x, y>>
      OBVIOUS
    <3>2. QED
      BY <3>1 DEF x, y
  <2>5. QED
    BY <1>8, <2>3, <2>4 DEF FakeMeans, stop
<1>9. QED
  BY <1>7, <1>8

\* Each of its entries fits.
LEMMA FakeProper ==
  ASSUME NEW a \in Seq(Bytes), NEW b, NEW n, NEW t, NEW ls, NEW r, NEW octets,
         FakeHeld(BufferOf(a), Len(a), b, n, t, ls, r, octets), Len(a) = n + Len(r)
  PROVE  WellFormed(a)
<1> DEFINE c == BufferOf(a)
           stop == Len(a)
           es == EntriesOf(c, stop)
           k == Records(r)
<1>1. AnswerRead(c, stop, b, n, t, ls, r, octets)
  BY FakeRead
<1>2. /\ Count(c, 1) = 1 /\ Counts(c) = 1 + k
      /\ QuestionRead(c, stop, t, ls) /\ SectionOf(c, 1) = 1 /\ es[1] = QuestionOf(t)
      /\ r # <<>> => /\ RecordRead(c, stop, n, U16(b, t), octets)
                     /\ SectionOf(c, 2) = 2 /\ es[2] = RecordOf(n)
      /\ EntryEnd(c, es[1 + k], SectionOf(c, 1 + k)) = stop
  BY <1>1 DEF AnswerRead
<1>3. stop >= 12
  <2>1. n \in Nat /\ n >= 12 /\ Len(r) \in Nat
    BY DEF FakeHeld, Asking, OneRecord
  <2>2. QED
    BY <2>1
<1> HIDE DEF c, stop, es, k
<1>4. k = IF r = <<>> THEN 0 ELSE 1
  BY DEF k, Records
<1>5. ASSUME NEW i \in 1 .. 1 + k
      PROVE  /\ Fits(c, es[i], stop, SectionOf(c, i))
             /\ SectionOf(c, i) = 2 /\ U16(c, es[i].qtype) = TypeA => U16(c, es[i].rdlength) = 4
  <2>1. CASE i = 1
    BY <1>2, <2>1 DEF QuestionRead
  <2>2. CASE i # 1
    <3>1. i = 2 /\ r # <<>>
      BY <1>4, <1>5, <2>2
    <3>2. /\ Fits(c, RecordOf(n), stop, 2)
          /\ U16(c, n + 2) = U16(b, t) /\ U16(c, n + 10) = Len(octets)
      BY <1>2, <3>1 DEF RecordRead
    <3>3. RecordOf(n).qtype = n + 2 /\ RecordOf(n).rdlength = n + 10
      BY DEF RecordOf
    <3>4. U16(b, t) = TypeA => Len(octets) = 4
      <4>1. U16(b, t) = TypeAAAA \/ (U16(b, t) = TypeA /\ Len(octets) = 4)
        BY <3>1 DEF FakeHeld
      <4>2. QED
        BY <4>1 DEF TypeA, TypeAAAA
    <3>5. QED
      BY <1>2, <3>1, <3>2, <3>3, <3>4
  <2>3. QED
    BY <2>1, <2>2
<1>6. \A i \in AddressRecords(c, stop) : U16(c, es[i].rdlength) = 4
  BY <1>2, <1>5 DEF AddressRecords, es
<1>7. QED
  BY <1>2, <1>3, <1>5, <1>6 DEF WellFormed, c, stop, es, HeaderSize

\* Its names can be followed.
LEMMA FakeReadable ==
  ASSUME dgram \in Seq(Bytes), NEW b, NEW n, NEW t, NEW ls, NEW r, NEW octets,
         FakeHeld(Received, Size, b, n, t, ls, r, octets), Size = n + Len(r)
  PROVE  Readable
<1> DEFINE c == Received
           stop == Size
           es == Sent
           k == Records(r)
<1>1. ProperDatagram
  BY FakeProper DEF ProperDatagram, Received, Size
<1>2. AnswerRead(c, stop, b, n, t, ls, r, octets)
  BY FakeRead
<1>3. /\ Count(c, 1) = 1 /\ Counts(c) = 1 + k /\ NameLabels(c, 12, stop) = ls
      /\ SectionOf(c, 1) = 1 /\ es[1] = QuestionOf(t)
      /\ r # <<>> => /\ RecordRead(c, stop, n, U16(b, t), octets)
                     /\ SectionOf(c, 2) = 2 /\ es[2] = RecordOf(n)
      /\ DOMAIN es = 1 .. 1 + k /\ Len(es) = 1 + k
  BY <1>2 DEF AnswerRead, Sent, QuestionRead
<1>4. /\ Asking(b, n, t, ls) /\ SameQuestion(b, c, t)
      /\ r = <<>> \/ OneRecord(r, U16(b, t), octets)
  BY DEF FakeHeld, Answering
<1>5. /\ n \in Nat /\ n <= 512 /\ Len(r) \in Nat /\ Len(r) <= 12 + 255 /\ stop = n + Len(r)
      /\ ls \in Seq(Nat) /\ Len(ls) >= 1 /\ ls[1] = 12
  <2>1. n \in Nat /\ n <= 512 /\ Spelt(b, 12, ls, t)
    BY <1>4 DEF Asking
  <2>2. Len(r) \in Nat /\ Len(r) <= 12 + 255
    <3>1. CASE r = <<>>
      BY <3>1
    <3>2. CASE OneRecord(r, U16(b, t), octets)
      <4>1. Len(r) = 12 + Len(octets) /\ Len(octets) \in Nat /\ Len(octets) <= 255
        BY <3>2 DEF OneRecord, Small
      <4>2. QED
        BY <4>1
    <3>3. QED
      BY <1>4, <3>1, <3>2
  <2>3. QED
    BY <2>1, <2>2 DEF Spelt, Named
<1> HIDE DEF c, stop, es, k
<1>6. k = IF r = <<>> THEN 0 ELSE 1
  BY DEF k, Records
<1>7. QuestionOf(t).begin = 12 /\ RecordOf(n).begin = n /\ RecordOf(n).qtype = n + 2
      /\ RecordOf(n).rdata = n + 12
  BY DEF QuestionOf, RecordOf
<1>8. ASSUME NEW i \in 1 .. 1 + k, i # 1
      PROVE  /\ i = 2 /\ r # <<>> /\ es[i] = RecordOf(n)
             /\ HoldsName(U16(c, es[i].qtype)) = FALSE
             /\ NameLabels(c, es[i].begin, stop) = <<n>> /\ Offset(c, n) = 12
  <2>1. i = 2 /\ r # <<>>
    BY <1>6, <1>8
  <2>2. es[i] = RecordOf(n) /\ RecordRead(c, stop, n, U16(b, t), octets)
    BY <1>3, <2>1
  <2>3. HoldsName(U16(b, t)) = FALSE
    BY <2>1, NoNameHeld
  <2>4. QED
    BY <1>7, <2>1, <2>2, <2>3 DEF RecordRead
<1>9. Labelled(c, stop, 1, es, 12)
  <2>1. 1 \in 1 .. Len(ls) /\ 1 \in 1 .. Len(es)
    BY <1>3, <1>5, <1>6
  <2>2. HasLabel(c, stop, es[1], 12)
    BY <1>3, <1>5, <1>7, <2>1 DEF HasLabel
  <2>3. QED
    BY <2>1, <2>2 DEF Labelled
<1>10. ASSUME NEW l \in Nat, Labelled(c, stop, 1, es, l), c[l] >= 192
       PROVE  Labelled(c, stop, 1, es, Offset(c, l))
  <2>1. PICK i \in 1 .. Len(es) : HasLabel(c, stop, es[i], l) \/ InRdata(c, stop, 1, es, i, l)
    BY <1>10 DEF Labelled
  <2>2. i \in 1 .. 1 + k
    BY <1>3, <2>1
  <2>3. ~InRdata(c, stop, 1, es, i, l)
    <3>1. i # 1 => HoldsName(U16(c, es[i].qtype)) = FALSE
      BY <1>8, <2>2
    <3>2. ~(1 < 1)
      OBVIOUS
    <3>3. QED
      BY <3>1, <3>2, Zenon DEF InRdata
  <2>4. CASE i = 1
    <3>1. PICK j \in 1 .. Len(ls) : ls[j] = l
      BY <1>3, <1>7, <2>1, <2>3, <2>4 DEF HasLabel
    <3>2. AskedLabel(b, t, ls, j)
      BY <1>4, AskingLabel
    <3>3. l \in Nat /\ 12 <= l /\ l < t /\ b[l] \in Nat /\ b[l] <= 63
      BY <3>1, <3>2 DEF AskedLabel
    <3>4. c[l] = b[l]
      BY <1>4, <3>3 DEF SameQuestion, SpeltAlike
    <3>5. QED
      BY <1>10, <3>3, <3>4
  <2>5. CASE i # 1
    <3>1. NameLabels(c, es[i].begin, stop) = <<n>> /\ Offset(c, n) = 12
      BY <1>8, <2>2, <2>5
    <3>2. PICK j \in 1 .. Len(<<n>>) : <<n>>[j] = l
      BY <2>1, <2>3, <3>1 DEF HasLabel
    <3>3. l = n
      BY <3>2
    <3>4. QED
      BY <1>9, <3>1, <3>3
  <2>6. QED
    BY <2>4, <2>5
<1>11. NamesWhole(c, stop, Count(c, 1), es)
  <2>1. \A i \in 1 .. Len(es) : ~(1 < i /\ HoldsName(U16(c, es[i].qtype)))
    <3>1. ASSUME NEW i \in 1 .. Len(es), 1 < i PROVE HoldsName(U16(c, es[i].qtype)) = FALSE
      <4>1. i \in 1 .. 1 + k /\ i # 1
        BY <1>3, <3>1
      <4>2. QED
        BY <1>8, <4>1
    <3>2. QED
      BY <3>1
  <2>2. NamesWhole(c, stop, 1, es)
    BY <1>10, <2>1 DEF NamesWhole
  <2>3. QED
    BY <1>3, <2>2
<1>12. ~RdataPointsBehindAddress(c, stop)
  <2>1. \A i \in DOMAIN es : ~(SectionOf(c, i) # 1 /\ HoldsName(U16(c, es[i].qtype)))
    <3>1. ASSUME NEW i \in 1 .. 1 + k, SectionOf(c, i) # 1
          PROVE  HoldsName(U16(c, es[i].qtype)) = FALSE
      <4>1. i # 1
        BY <1>3, <3>1
      <4>2. QED
        BY <1>8, <4>1
    <3>2. QED
      BY <1>3, <3>1
  <2>2. EntriesOf(c, stop) = es
    BY DEF es, c, stop, Sent
  <2>3. QED
    BY <2>1, <2>2, Zenon DEF RdataPointsBehindAddress
<1>13. TranslatedLength <= 2^14
  <2> DEFINE A == AddressesOf(c, stop)
  <2>1. EntriesOf(c, stop) = es
    BY DEF es, c, stop, Sent
  <2>2. A \subseteq {n + 12}
    <3>1. ASSUME NEW i \in AddressRecords(c, stop) PROVE es[i].rdata = n + 12
      <4>1. i \in 1 .. 1 + k /\ SectionOf(c, i) = 2
        BY <1>3, <3>1 DEF AddressRecords
      <4>2. i # 1
        BY <1>3, <4>1
      <4>3. QED
        BY <1>7, <1>8, <4>1, <4>2
    <3>2. A = {es[i].rdata : i \in AddressRecords(c, stop)}
      BY <2>1 DEF AddressesOf
    <3>3. QED
      BY <3>1, <3>2
  <2> HIDE DEF A
  <2>3. Cardinality(A) \in Nat /\ Cardinality(A) <= 1
    <3>1. CASE A = {}
      <4>1. Cardinality(A) = 0
        BY <3>1, FS_EmptySet
      <4>2. QED
        BY <4>1
    <3>2. CASE A = {n + 12}
      <4>1. Cardinality(A) = 1
        BY <3>2, FS_Singleton
      <4>2. QED
        BY <4>1
    <3>3. QED
      BY <2>2, <3>1, <3>2
  <2>4. TranslatedLength = Size + (16 - 4) * Cardinality(A)
    BY PrefixTyped DEF TranslatedLength, Size, A, c, stop
  <2> DEFINE x == Cardinality(A)
             z == Len(r)
  <2>5. x \in Nat /\ x <= 1 /\ TranslatedLength = (n + z) + (16 - 4) * x /\ z \in Nat /\ z <= 267
    BY <1>5, <2>3, <2>4 DEF stop
  <2> HIDE DEF x, z
  <2>6. TranslatedLength <= 16384
    BY <1>5, <2>5
  <2>7. 2^14 = 16384
    BY SMT
  <2>8. QED
    BY <2>6, <2>7
<1>14. QED
  BY <1>1, <1>11, <1>12, <1>13 DEF Readable, c, stop, es
-------------------------------------------------------------------------------
(* The queries *)

\* The less of two numbers.
LEMMA LeastOfTwo ==
  ASSUME NEW x \in Nat, NEW y \in Nat
  PROVE  Min({x, y}) = IF x <= y THEN x ELSE y
<1> DEFINE z == IF x <= y THEN x ELSE y
<1>1. z \in {x, y} /\ \A u \in {x, y} : z <= u
  OBVIOUS
<1>2. ASSUME NEW v \in {x, y}, \A u \in {x, y} : v <= u PROVE v = z
  BY <1>2
<1>3. Min({x, y}) = CHOOSE v \in {x, y} : \A u \in {x, y} : v <= u
  BY DEF Min
<1> HIDE DEF z
<1>4. (CHOOSE v \in {x, y} : \A u \in {x, y} : v <= u) = z
  BY <1>1, <1>2
<1>5. QED
  BY <1>3, <1>4 DEF z

\* A query that asks is a query for the address.
LEMMA AsksFor ==
  ASSUME NEW q \in TestQuery, Asks(q)
  PROVE  \E t, ls : /\ AskedFor(q.bytes, BufferOf(q.bytes), Len(q.bytes), t, ls, q.address)
                    /\ U16(BufferOf(q.bytes), t) = q.type
<1> DEFINE b == BufferOf(q.bytes)
           n == Len(q.bytes)
           ls == NameLabels(b, 12, n)
           t == EntryAt(b, 12, n, 1).qtype
<1>1. q.bytes \in Seq(Bytes) /\ q.address \in [1 .. 4 -> Bytes]
  BY DEF TestQuery
<1>2. Asking(b, n, t, ls) /\ EntryAt(b, 12, n, 1) = QuestionOf(t)
  BY <1>1, AsksAsking
<1>3. /\ StandardQuery(b) /\ U16(b, t) = q.type /\ Scanned(LabelsToString(b, ls)) = q.address
      /\ Count(b, 1) = 1 /\ Counts(b) = 1 /\ LabelsToString(b, ls) # <<>>
  BY DEF Asks, HeaderSize
<1> HIDE DEF b, n, ls, t
<1>4. NameLabels(b, 12, n) = ls
  BY DEF ls
<1>5. AskedFor(q.bytes, b, n, t, ls, q.address)
  BY <1>1, <1>2, <1>3, <1>4 DEF AskedFor, b, n
<1>6. QED
  BY <1>3, <1>5 DEF b, n

\* A query that was cut off is answered with nothing.
LEMMA CutUnanswered ==
  ASSUME NEW q \in TestQuery, Asks(q), NEW k \in Nat, k < Len(q.bytes), NEW native,
         NEW leftover
  PROVE  FakeAnswer(SubSeq(q.bytes, 1, k), native, leftover) = <<>>
<1> DEFINE d == SubSeq(q.bytes, 1, k)
           c == BufferOf(d)
           b == BufferOf(q.bytes)
           n == Len(q.bytes)
           e == EntryAt(c, 12, k, 1)
<1>1. q.bytes \in Seq(Bytes) /\ n \in Nat /\ b \in Buffer(n)
  BY BufferTyped DEF TestQuery
<1>2. d \in Seq(Bytes) /\ Len(d) = k /\ \A i \in 1 .. k : d[i] = q.bytes[i]
  <2>1. k <= n /\ 1 <= k + 1
    BY <1>1
  <2>2. QED
    BY <1>1, <2>1, SubSeqProperties
<1>3. c \in Buffer(k)
  BY <1>2, BufferTyped
<1>4. Agree(c, b, k)
  <2>1. c = [p \in 0 .. k - 1 |-> d[p + 1]]
    BY <1>2 DEF BufferOf
  <2>2. b = [p \in 0 .. n - 1 |-> q.bytes[p + 1]]
    BY DEF BufferOf
  <2> HIDE DEF b, c, d, n
  <2>3. ASSUME NEW p \in Nat, p < k PROVE b[p] = c[p]
    <3>1. p \in 0 .. k - 1 /\ p + 1 \in 1 .. k
      BY <2>3
    <3>2. p \in 0 .. n - 1
      BY <1>1, <2>3 DEF n
    <3>3. QED
      BY <1>2, <2>1, <2>2, <3>1, <3>2
  <2>4. QED
    BY <2>3 DEF Agree
<1>5. EntryEnd(b, EntryAt(b, 12, n, 1), 1) = n
  BY DEF Asks, HeaderSize
<1> HIDE DEF d, c, b, n, e
<1>6. ~Fits(c, e, k, 1)
  <2>1. SUFFICES ASSUME Fits(c, e, k, 1) PROVE FALSE
    OBVIOUS
  <2>2. k \in 0 .. k /\ n \in 0 .. n /\ k <= n /\ 1 \in 1 .. 4 /\ 12 \in Nat
    BY <1>1 DEF n
  <2>3. Fits(c, EntryAt(c, 12, k, 1), k, 1)
    BY <2>1 DEF e
  <2>4. Taken(c, b, n, 1, 12, EntryAt(c, 12, k, 1))
    BY <1>1, <1>3, <1>4, <2>2, <2>3, EntryTaken
  <2>5. EntryAt(b, 12, n, 1) = e /\ EntryEnd(b, e, 1) = EntryEnd(c, e, 1)
    BY <2>4 DEF Taken, e
  <2>6. EntryEnd(c, e, 1) <= k
    BY <2>1 DEF Fits
  <2>7. n <= k
    BY <1>5, <2>5, <2>6
  <2>8. QED
    BY <1>1, <2>7 DEF n
<1>7. FakeAnswer(d, native, leftover) = <<>>
  <2>1. Len(d) = k /\ BufferOf(d) = c /\ EntryAt(c, 12, k, 1) = e
    BY <1>2 DEF c, e
  <2>2. ~AllFit(c, k)
    BY <1>6, <2>1 DEF AllFit, HeaderSize
  <2>3. QED
    BY <2>1, <2>2 DEF FakeAnswer
<1>8. QED
  BY <1>7 DEF d
-------------------------------------------------------------------------------
(* What a client expects *)

\* Short sequences.
LEMMA OneAndOne ==
  ASSUME NEW x, NEW y
  PROVE  <<x>> \o <<y>> = <<x, y>> /\ <<x>> \o <<>> = <<x>>
<1> DEFINE S == {x, y}
           s == <<x>>
           r == <<y>>
           z == <<x, y>>
<1>1. s \in Seq(S) /\ r \in Seq(S) /\ z \in Seq(S) /\ Len(s) = 1 /\ Len(r) = 1 /\ Len(z) = 2
      /\ s[1] = x /\ r[1] = y /\ z[1] = x /\ z[2] = y
  OBVIOUS
<1> HIDE DEF s, r, z
<1>2. s \o r \in Seq(S) /\ Len(s \o r) = 2 /\ (s \o r)[1] = x /\ (s \o r)[2] = y
  <2> HIDE DEF S
  <2>1. /\ s \o r \in Seq(S) /\ Len(s \o r) = Len(s) + Len(r)
        /\ \A i \in 1 .. Len(s) + Len(r) :
             (s \o r)[i] = IF i <= Len(s) THEN s[i] ELSE r[i - Len(s)]
    BY <1>1, ConcatProperties
  <2>2. 1 \in 1 .. 2 /\ 2 \in 1 .. 2 /\ 1 + 1 = 2 /\ 1 <= 1 /\ ~(2 <= 1) /\ 2 - 1 = 1
    OBVIOUS
  <2>3. QED
    BY <1>1, <2>1, <2>2
<1>3. s \o r = z
  <2> HIDE DEF S
  <2>1. \A i \in 1 .. Len(s \o r) : (s \o r)[i] = z[i]
    <3>1. \A i \in 1 .. 2 : i = 1 \/ i = 2
      OBVIOUS
    <3>2. QED
      BY <1>1, <1>2, <3>1
  <2>2. QED
    BY <1>1, <1>2, <2>1, SeqEqual
<1>4. s \o <<>> = s
  BY <1>1
<1>5. QED
  BY <1>3, <1>4 DEF s, r, z

\* What the question of a query means.
LEMMA QuestionMeant ==
  ASSUME NEW b, NEW n, NEW t, EntryAt(b, 12, n, 1) = QuestionOf(t), Count(b, 1) = 1, Counts(b) = 1
  PROVE  Meaning(b, n)[1] = QuestionSaid(b, t)
<1> DEFINE es == EntriesOf(b, n)
<1>1. 1 \in 1 .. Counts(b) /\ Counts(b) \in Nat
  OBVIOUS
<1>2. es[1] = EntryAt(b, Where(b, n, 1), n, SectionOf(b, 1))
  BY <1>1, EntryNext
<1>3. Where(b, n, 1) = 12 /\ SectionOf(b, 1) = 1
  BY DEF Where, HeaderSize, SectionOf
<1>4. DOMAIN es = 1 .. Counts(b)
  BY DEF EntriesOf
<1> HIDE DEF es
<1>5. Meaning(b, n) = [i \in 1 .. Counts(b) |-> MeaningOf(b, es[i], SectionOf(b, i))]
  BY <1>4 DEF Meaning, es
<1>6. Meaning(b, n)[1] = MeaningOf(b, QuestionOf(t), 1)
  BY <1>1, <1>2, <1>3, <1>5
<1>7. QuestionOf(t).begin = 12 /\ QuestionOf(t).qtype = t /\ QuestionOf(t).qclass = t + 2
  BY DEF QuestionOf
<1>8. QED
  BY <1>6, <1>7 DEF MeaningOf, QuestionSaid

\* The answer to a query is expected, if its record is that of its type.
LEMMA ExpectedAtOnce ==
  ASSUME NEW q \in TestQuery, Asks(q), NEW t, NEW ls,
         AskedFor(q.bytes, BufferOf(q.bytes), Len(q.bytes), t, ls, q.address),
         U16(BufferOf(q.bytes), t) = q.type, NEW native \in BOOLEAN,
         q.type # TypeAAAA \/ native
  PROVE  FakeMeans(BufferOf(q.bytes), t, FakeRecord(q.type, q.address, native),
                   FakeData(q.type, q.address))
           = Expected(q, native)
<1> DEFINE b == BufferOf(q.bytes)
           n == Len(q.bytes)
           asked == QuestionSaid(b, t)
           record(data1) == [section |-> 2, owner |-> asked.owner, type |-> q.type, class |-> 1,
                             ttl |-> <<0, 0, 0, 0>>, target |-> <<>>, data |-> data1]
           r == FakeRecord(q.type, q.address, native)
           octets == FakeData(q.type, q.address)
<1>1. EntryAt(b, 12, n, 1) = QuestionOf(t) /\ Count(b, 1) = 1 /\ Counts(b) = 1
  BY DEF AskedFor, Asks
<1>2. Meaning(b, n)[1] = asked
  BY <1>1, QuestionMeant
<1>3. asked.owner = Name(b, 12)
  BY DEF QuestionSaid
<1>4. record(octets) = RecordSaid(b, t, octets)
  BY <1>3 DEF RecordSaid
<1>5. q.address \in [1 .. 4 -> Bytes]
  BY DEF TestQuery
<1> HIDE DEF b, n, asked
<1>6. CASE q.type = TypeA
  <2>1. Expected(q, native) = <<asked>> \o <<record(octets)>>
    BY <1>2, <1>6 DEF Expected, FakeData, b, n
  <2>2. r # <<>>
    BY <1>5, <1>6, RecordIfAny DEF OneRecord
  <2> HIDE DEF r, octets, record
  <2>3. FakeMeans(b, t, r, octets) = <<asked, record(octets)>>
    BY <1>4, <2>2 DEF FakeMeans, asked
  <2>4. QED
    BY <2>1, <2>3, OneAndOne DEF r, octets, b
<1>7. CASE q.type = TypeAAAA /\ native
  <2>1. Expected(q, native) = <<asked>> \o <<record(octets)>>
    <3>1. q.type # TypeA /\ q.type = TypeAAAA /\ native
      BY <1>7 DEF TypeA, TypeAAAA
    <3>2. QED
      BY <1>2, <3>1 DEF Expected, FakeData, FakeSynth, b, n
  <2>2. r # <<>>
    <3>1. OneRecord(r, q.type, octets)
      BY <1>5, <1>7, RecordIfAny
    <3> HIDE DEF r, octets
    <3>2. QED
      BY <3>1 DEF OneRecord
  <2> HIDE DEF r, octets, record
  <2>3. FakeMeans(b, t, r, octets) = <<asked, record(octets)>>
    BY <1>4, <2>2 DEF FakeMeans, asked
  <2>4. QED
    BY <2>1, <2>3, OneAndOne DEF r, octets, b
<1>8. CASE q.type # TypeA /\ q.type # TypeAAAA
  <2>1. Expected(q, native) = <<asked>> \o <<>>
    BY <1>2, <1>8 DEF Expected, b, n
  <2>2. r = <<>>
    BY <1>8 DEF FakeRecord
  <2> HIDE DEF r, octets, record
  <2>3. FakeMeans(b, t, r, octets) = <<asked>>
    BY <2>2 DEF FakeMeans, asked
  <2>4. QED
    BY <2>1, <2>3, OneAndOne DEF r, octets, b
<1>9. QED
  BY <1>6, <1>7, <1>8

\* So is the translation of the answer to the query asked again for an address.
LEMMA ExpectedTranslated ==
  ASSUME NEW q \in TestQuery, Asks(q), NEW t, NEW ls,
         AskedFor(q.bytes, BufferOf(q.bytes), Len(q.bytes), t, ls, q.address),
         q.type = TypeAAAA, U16(BufferOf(q.bytes), t) = q.type,
         NEW c, AskedAgain(BufferOf(q.bytes), c, Len(q.bytes), t), NEW r, r # <<>>
  PROVE  Translated(FakeMeans(c, t, r, q.address)) = Expected(q, FALSE)
<1> DEFINE b == BufferOf(q.bytes)
           n == Len(q.bytes)
           asked == QuestionSaid(b, t)
           record(data1) == [section |-> 2, owner |-> asked.owner, type |-> q.type, class |-> 1,
                             ttl |-> <<0, 0, 0, 0>>, target |-> <<>>, data |-> data1]
           x == QuestionSaid(c, t)
           y == RecordSaid(c, t, q.address)
<1>1. /\ EntryAt(b, 12, n, 1) = QuestionOf(t) /\ Count(b, 1) = 1 /\ Counts(b) = 1
      /\ Asking(b, n, t, ls)
  BY DEF AskedFor, Asks
<1>2. Meaning(b, n)[1] = asked
  BY <1>1, QuestionMeant
<1>3. c \in Buffer(n) /\ SameQuestion(b, c, t) /\ U16(c, t) = TypeA
  BY DEF AskedAgain
<1> HIDE DEF b, n
<1>4. Name(c, 12) = Name(b, 12)
  <2>1. /\ n \in Nat /\ b \in Buffer(n) /\ t \in Nat /\ t <= n /\ 12 \in Nat
        /\ Spelt(b, 12, ls, t) /\ \A i \in 1 .. Len(ls) : ls[i] < t
    BY <1>1 DEF Asking
  <2>2. \A i \in 1 .. Len(ls) : ls[i] < n
    <3>1. ls \in Seq(Nat)
      BY <2>1 DEF Spelt, Named
    <3>2. ASSUME NEW i \in 1 .. Len(ls) PROVE ls[i] < n
      <4>1. ls[i] \in Nat /\ ls[i] < t
        BY <2>1, <3>1, <3>2, ElementOfSeq
      <4>2. QED
        BY <2>1, <4>1
    <3>3. QED
      BY <3>2
  <2>3. SpeltAlike(b, c, 12, t)
    BY <1>3 DEF SameQuestion
  <2>4. QED
    BY <1>3, <2>1, <2>2, <2>3, SpeltSame
<1>5. U16(c, t + 2) = U16(b, t + 2)
  <2>1. t \in Nat /\ t + 2 + 1 = t + 3
    BY <1>1 DEF Asking
  <2>2. QED
    BY <1>3, <2>1 DEF SameQuestion, U16
<1>6. [x EXCEPT !.type = TypeAAAA] = asked
  BY <1>4, <1>5 DEF QuestionSaid, b
<1>7. [y EXCEPT !.type = TypeAAAA, !.data = Prefix \o @] = record(Prefix \o q.address)
  <2> DEFINE owner == Name(b, 12)
             ip == q.address
             p == Prefix \o ip
  <2>1. asked.owner = owner
    BY DEF QuestionSaid
  <2>2. y = [section |-> 2, owner |-> owner, type |-> TypeA, class |-> 1,
             ttl |-> <<0, 0, 0, 0>>, target |-> <<>>, data |-> ip]
    BY <1>3, <1>4 DEF RecordSaid
  <2>3. record(p) = [section |-> 2, owner |-> owner, type |-> TypeAAAA, class |-> 1,
                     ttl |-> <<0, 0, 0, 0>>, target |-> <<>>, data |-> p]
    BY <2>1
  <2> DEFINE four == <<0, 0, 0, 0>>
             none == <<>>
  <2> HIDE DEF y, record, asked, owner, ip
  <2>4. y.data = ip
    BY <2>2
  <2> HIDE DEF p
  <2>5. [y EXCEPT !.type = TypeAAAA, !.data = Prefix \o @]
          = [y EXCEPT !.type = TypeAAAA, !.data = p]
    BY <2>4 DEF p
  <2> DEFINE z == [y EXCEPT !.type = TypeAAAA]
  <2> HIDE DEF four, none
  <2>6. z = [section |-> 2, owner |-> owner, type |-> TypeAAAA, class |-> 1,
             ttl |-> four, target |-> none, data |-> ip]
    BY <2>2 DEF four, none
  <2>7. [y EXCEPT !.type = TypeAAAA, !.data = p] = [z EXCEPT !.data = p]
    OBVIOUS
  <2> HIDE DEF z
  <2>8. [z EXCEPT !.data = p]
          = [section |-> 2, owner |-> owner, type |-> TypeAAAA, class |-> 1,
             ttl |-> four, target |-> none, data |-> p]
    BY <2>6
  <2>9. [y EXCEPT !.type = TypeAAAA, !.data = Prefix \o @] = record(p)
    BY <2>3, <2>5, <2>7, <2>8 DEF four, none
  <2>10. QED
    BY <2>9 DEF p, ip
<1>8. y.section = 2 /\ y.type = TypeA
  BY <1>3 DEF RecordSaid
<1>9. Expected(q, FALSE) = <<asked>> \o <<record(Prefix \o q.address)>>
  <2>1. q.type # TypeA /\ q.type = TypeAAAA
    BY DEF TypeA, TypeAAAA
  <2>2. QED
    BY <1>2, <2>1 DEF Expected, b, n
<1>10. FakeMeans(c, t, r, q.address) = <<x, y>>
  BY DEF FakeMeans
<1> HIDE DEF x, y, asked, record
<1>11. Translated(<<x, y>>) = <<asked, record(Prefix \o q.address)>>
  <2> DEFINE one(i) == IF i = 1 THEN [x EXCEPT !.type = TypeAAAA]
                       ELSE [y EXCEPT !.type = TypeAAAA, !.data = Prefix \o @]
  <2>1. Translated(<<x, y>>) = [i \in 1 .. 2 |-> one(i)]
    <3> DEFINE m == <<x, y>>
    <3>1. DOMAIN m = 1 .. 2 /\ m[1] = x /\ m[2] = y
      OBVIOUS
    <3> HIDE DEF m
    <3>2. \A i \in 1 .. 2 : i = 1 \/ (i # 1 /\ i = 2)
      OBVIOUS
    <3>3. Translated(m) = [i \in 1 .. 2 |-> one(i)]
      BY <1>8, <3>1, <3>2 DEF Translated
    <3>4. QED
      BY <3>3 DEF m
  <2>2. one(1) = asked /\ one(2) = record(Prefix \o q.address)
    BY <1>6, <1>7
  <2> DEFINE u == record(Prefix \o q.address)
  <2> HIDE DEF one, u
  <2>3. [i \in 1 .. 2 |-> one(i)] = <<one(1), one(2)>>
    OBVIOUS
  <2>4. QED
    BY <2>1, <2>2, <2>3 DEF u
<1>12. QED
  BY <1>9, <1>10, <1>11, OneAndOne DEF x, y
-------------------------------------------------------------------------------
(* The answer is received *)

\* As much of it as there is room for, over what was there before.
LEMMA AnswerReceived ==
  ASSUME buflen \in Nat, bytes \in Buffer(buflen), NEW a \in Seq(Bytes), ReceiveAnswer(a)
  PROVE  IInv' /\ SentInv' /\ pc' = "header" /\ dgram' = a
<1> DEFINE k == IF buflen < Len(a) THEN buflen ELSE Len(a)
           d == SubSeq(a, 1, k)
<1>1. /\ dgram' = a /\ buflen' = buflen /\ len' = Min({buflen, Len(a)})
      /\ bytes' = Write(bytes, 0, SubSeq(a, 1, len'))
      /\ question' = <<>> /\ answer' = <<>> /\ authority' = <<>> /\ additional' = <<>>
      /\ labels' = <<>> /\ begin' = HeaderSize /\ next' = 1 /\ pc' = "header"
  BY DEF ReceiveAnswer
<1>2. Len(a) \in Nat /\ k \in Nat /\ k <= buflen /\ k <= Len(a)
  OBVIOUS
<1>3. len' = k
  <2>1. Min({buflen, Len(a)}) = IF buflen <= Len(a) THEN buflen ELSE Len(a)
    BY <1>2, LeastOfTwo
  <2>2. QED
    BY <1>1, <1>2, <2>1
<1>4. d \in Seq(Bytes) /\ Len(d) = k /\ \A i \in 1 .. k : d[i] = a[i]
  <2> HIDE DEF k
  <2>1. k <= Len(a) /\ 1 <= k + 1
    BY <1>2
  <2>2. QED
    BY <1>2, <2>1, SubSeqProperties
<1> HIDE DEF k, d
<1>5. bytes' = Write(bytes, 0, d)
  BY <1>1, <1>3 DEF d
<1>6. bytes' \in Buffer(buflen)
  BY <1>4, <1>5, WriteAt
<1>7. \A p \in Nat : p < k => bytes'[p] = a[p + 1]
  <2>1. ASSUME NEW p \in Nat, p < k PROVE bytes'[p] = a[p + 1]
    <3>1. p \in 0 .. buflen - 1 /\ p - 0 \in 0 .. k - 1 /\ p - 0 + 1 = p + 1 /\ p + 1 \in 1 .. k
      BY <1>2, <2>1
    <3>2. DOMAIN bytes = 0 .. buflen - 1
      BY DEF Buffer
    <3>3. Write(bytes, 0, d)[p] = d[p + 1]
      BY <1>4, <3>1, <3>2 DEF Write
    <3>4. QED
      BY <1>4, <1>5, <3>1, <3>3
  <2>2. QED
    BY <2>1
<1>8. TypeInv'
  <2>1. bytes' \in [0 .. buflen' - 1 -> Bytes] /\ len' \in 0 .. buflen'
    BY <1>1, <1>2, <1>3, <1>6 DEF Buffer
  <2>2. TypeOK'
    BY <1>1, <2>1 DEF TypeOK, HeaderSize
  <2>3. InBuffer'
    BY <1>1 DEF InBuffer
  <2>4. QED
    BY <1>1, <2>2, <2>3 DEF TypeInv
<1>9. ReceivedLength' = k
  BY <1>1 DEF ReceivedLength, k
<1>10. LayoutInv'
  BY <1>1, <1>3, <1>9 DEF LayoutInv
<1>11. Received' = BufferOf(a)
  BY <1>1 DEF Received
<1>12. Agree(Received', bytes', len')
  <2>1. ASSUME NEW p \in Nat, p < k PROVE bytes'[p] = BufferOf(a)[p]
    <3>1. p \in 0 .. Len(a) - 1
      BY <1>2, <2>1
    <3>2. QED
      BY <1>7, <2>1, <3>1 DEF BufferOf
  <2>2. QED
    BY <1>3, <1>11, <2>1 DEF Agree
<1>13. SentInv'
  BY <1>1, <1>12 DEF SentInv, SentWholeIfItFits
<1>14. QED
  BY <1>1, <1>8, <1>10, <1>13 DEF IInv
-------------------------------------------------------------------------------
(* The header is left alone *)

Headed == pc \in {"entries", "answers", "sent"} => Agree(Received, bytes, 12)

\* The steps of DNSPacket write behind it: into the question's type, or further on.
LEMMA HeadedNext ==
  ASSUME ProperDatagram, IInv, SentInv, Headed, [Next]_vars
  PROVE  Headed'
<1>1. TypeInv
  BY DEF IInv
<1>2. CASE ReadHeader
  <2>1. /\ pc = "header" /\ len >= HeaderSize
        /\ UNCHANGED <<dgram, bytes>>
    BY <1>2 DEF ReadHeader
  <2>2. Agree(Received, bytes, len) /\ len \in Nat
    BY <1>1, <2>1 DEF SentInv, TypeInv, TypeOK
  <2>3. Agree(Received, bytes, 12)
    BY <2>1, <2>2 DEF Agree, HeaderSize
  <2>4. Received' = Received
    BY <2>1 DEF Received
  <2>5. QED
    BY <2>1, <2>3, <2>4 DEF Headed
<1>3. CASE SetQuestionType
  <2>1. pc = "entries" /\ Unparsed = {} /\ dgram' = dgram
    BY <1>3 DEF SetQuestionType
  <2>2. question # <<>>
    BY <2>1, SentTranslatable DEF Translatable
  <2> DEFINE qt == question[1].qtype
  <2>3. TypeSet(qt)
    BY <1>3, <2>2, QuestionWritten
  <2> HIDE DEF qt
  <2>4. qt \in Nat /\ qt >= 12 /\ qt + 1 < buflen /\ SameBut(bytes, bytes', buflen, qt)
    BY <2>3 DEF TypeSet
  <2>5. buflen \in Nat
    BY <1>1 DEF TypeInv
  <2>6. ASSUME NEW p \in Nat, p < 12 PROVE bytes'[p] = bytes[p]
    <3>1. p < buflen /\ p # qt /\ p # qt + 1
      BY <2>4, <2>5, <2>6
    <3>2. QED
      BY <2>4, <2>6, <3>1 DEF SameBut
  <2>7. Agree(Received, bytes, 12) /\ Received' = Received
    BY <2>1 DEF Headed, Received
  <2>8. QED
    BY <2>6, <2>7 DEF Headed, Agree
<1>4. CASE SynthesizeRecord
  <2> DEFINE e == answer[next]
             old == U16(bytes, e.rdlength)
             qt == e.qtype
             at2 == e.rdata
             from == at2 + old
             d == Synthesized - old
  <2>1. AtA /\ dgram' = dgram
    BY <1>4 DEF SynthesizeRecord
  <2>2. pc = "answers" /\ Laid /\ Ahead
    BY <2>1 DEF IInv, LayoutInv, AtA
  <2>3. qt \in Nat /\ at2 \in Nat
    <3>1. e \in Resources(len)
      BY <1>1, <2>1, RecordTypes
    <3> HIDE DEF e
    <3>2. QED
      BY <3>1 DEF Resources
  <2>4. Record(qt, at2, from, d)
    BY DEF Record
  <2> HIDE DEF e, old, qt, at2, from, d
  <2>5. Reworked(qt, at2, from, d)
    BY <1>4, <2>3, <2>4, RecordReworked
  <2>6. /\ from \in Nat /\ d \in Nat
        /\ Around(bytes, len, Len(question), Entries, Stop, labels, Len(question) + next,
                  qt, at2, from, d)
        /\ Rewritten(bytes, bytes', len, labels, qt, at2, from, d)
    BY <2>5 DEF Reworked
  <2>7. /\ buflen \in Nat /\ bytes \in Buffer(buflen) /\ len \in 0 .. buflen /\ Stop \in Nat
        /\ Len(question) \in Nat /\ Len(question) + next \in Nat
    <3>1. /\ buflen \in Nat /\ bytes \in Buffer(buflen) /\ len \in 0 .. buflen /\ begin \in Nat
          /\ next \in 1 .. Len(answer) + 1
      BY <1>1 DEF TypeInv, TypeOK, Buffer
    <3>2. Len(question) \in Nat /\ Len(answer) \in Nat
      BY <1>1, SectionsTyped
    <3>3. ReceivedLength \in begin .. len
      BY <2>2 DEF Laid
    <3>4. Stop \in Nat
      BY <3>1, <3>3 DEF Stop
    <3>5. QED
      BY <3>1, <3>2, <3>4
  <2>8. ASSUME NEW p \in Nat, p < 12 PROVE bytes'[p] = bytes[p]
    BY <2>3, <2>6, <2>7, <2>8, HeaderKept
  <2>9. Agree(Received, bytes, 12) /\ Received' = Received
    BY <2>1, <2>2 DEF Headed, Received
  <2>10. QED
    BY <2>8, <2>9 DEF Headed, Agree
<1>5. CASE HeaderTooSmall \/ EntryTooLong \/ NoRoom
  BY <1>5 DEF HeaderTooSmall, EntryTooLong, NoRoom, Headed
<1>6. CASE ReadEntry \/ NextRecord \/ SendReply
  <2>1. bytes' = bytes /\ dgram' = dgram /\ pc \in {"entries", "answers"}
    BY <1>6 DEF ReadEntry, NextRecord, SendReply
  <2>2. Received' = Received
    BY <2>1 DEF Received
  <2>3. QED
    BY <2>1, <2>2 DEF Headed
<1>7. CASE UNCHANGED vars
  <2>1. bytes' = bytes /\ dgram' = dgram /\ pc' = pc
    BY <1>7 DEF vars
  <2>2. QED
    BY <2>1 DEF Headed, Received
<1>8. QED
  BY <1>2, <1>3, <1>4, <1>5, <1>6, <1>7 DEF Next
-------------------------------------------------------------------------------
(* What the configuration says of AAAA records *)

ModeSaid == Natives \subseteq NativeAsSaid

\* There are those and there are not.
LEMMA NativesAny ==
  ASSUME config.aaaa_mode \in {"YES", "NO", "PROBABILITY"}
  PROVE  Natives \subseteq BOOLEAN
BY DEF Natives

\* A have-AAAA line makes of the mode what it says.
LEMMA NativesRead ==
  ASSUME NEW l, Conf!HaveAAAA(l), config \in Settings
  PROVE  Natives' \subseteq NativeSaid(l)
<1> DEFINE mode == Conf!Mode(l, config.aaaa_mode)
<1>1. config'.aaaa_mode = mode
  BY DEF Conf!HaveAAAA, Settings
<1>2. CASE l.begin = "1"
  <2>1. mode = "YES"
    BY <1>2 DEF Conf!Mode
  <2>2. QED
    BY <1>1, <1>2, <2>1 DEF Natives, NativeSaid
<1>3. CASE l.begin = "0"
  <2>1. mode = "NO"
    BY <1>3 DEF Conf!Mode
  <2>2. QED
    BY <1>1, <1>3, <2>1 DEF Natives, NativeSaid
<1>4. CASE l.begin \notin {"0", "1"} /\ l.num \in 0 .. 100
  <2>1. mode = "PROBABILITY"
    BY <1>4 DEF Conf!Mode
  <2>2. NativeSaid(l) = BOOLEAN
    BY <1>4 DEF NativeSaid
  <2>3. QED
    BY <1>1, <2>1, <2>2 DEF Natives
<1>5. CASE l.begin \notin {"0", "1"} /\ l.num \notin 0 .. 100
  <2>1. mode = "NO"
    BY <1>5 DEF Conf!Mode
  <2>2. NativeSaid(l) = {FALSE}
    BY <1>5 DEF NativeSaid
  <2>3. QED
    BY <1>1, <2>1, <2>2 DEF Natives
<1>6. QED
  BY <1>2, <1>3, <1>4, <1>5

\* Nothing but a line of the file changes what there is to answer with.
LEMMA ModeNext == ConfInv /\ ModeSaid /\ [BedNext]_bedVars => ModeSaid'
<1> SUFFICES ASSUME ConfInv, ModeSaid, [BedNext]_bedVars PROVE ModeSaid'
  OBVIOUS
<1>1. Conf!ReadLine \/ UNCHANGED confVars
  BY DEF BedNext, ReadLine, ClientSends, Ignore, Forward, Parse, PassOn, LookUpA, Translate,
         bedVars
<1>2. CASE UNCHANGED confVars
  BY <1>2 DEF confVars, ModeSaid, Natives, NativeAsSaid, Conf!LastLines
<1>3. CASE Conf!ReadLine
  <2> DEFINE l == conf[at + 1]
             lines == Conf!LastLines("have-AAAA")
  <2>1. ConfTypes /\ conf' = conf
    BY <1>3 DEF ConfInv, Conf!ReadLine
  <2>2. lines' = IF l.key = "have-AAAA" THEN {at + 1} ELSE lines
    BY <1>3, <2>1, LastLineRead
  <2>3. NativeAsSaid' = IF lines' = {} THEN BOOLEAN ELSE UNION {NativeSaid(conf[i]) : i \in lines'}
    BY <2>1 DEF NativeAsSaid
  <2>4. NativeAsSaid = IF lines = {} THEN BOOLEAN ELSE UNION {NativeSaid(conf[i]) : i \in lines}
    BY DEF NativeAsSaid
  <2> HIDE DEF lines
  <2>5. CASE l.key = "have-AAAA"
    <3>1. Conf!HaveAAAA(l)
      BY <1>3, <2>5 DEF Conf!ReadLine, Conf!Debug, Conf!NumThreads, Conf!Port
    <3>2. Natives' \subseteq NativeSaid(l)
      BY <2>1, <3>1, NativesRead DEF ConfTypes
    <3>3. NativeAsSaid' = NativeSaid(l)
      BY <2>2, <2>3, <2>5
    <3>4. QED
      BY <3>2, <3>3 DEF ModeSaid
  <2>6. CASE l.key # "have-AAAA"
    <3>1. config'.aaaa_mode = config.aaaa_mode /\ config'.aaaa_probability = config.aaaa_probability
      BY <1>3, <2>1, <2>6, LineSettles
    <3>2. Natives' = Natives
      BY <3>1 DEF Natives
    <3>3. NativeAsSaid' = NativeAsSaid
      BY <2>2, <2>3, <2>4, <2>6
    <3>4. QED
      BY <3>2, <3>3 DEF ModeSaid
  <2>7. QED
    BY <2>5, <2>6
<1>4. QED
  BY <1>1, <1>2, <1>3

\* Nothing is said before the first line is read.
LEMMA ModeInitially == BedInit => ModeSaid
<1> SUFFICES ASSUME BedInit PROVE ModeSaid
  OBVIOUS
<1>1. at = 0 /\ config.aaaa_mode \in {"YES", "NO", "PROBABILITY"}
  <2>1. CASE at = 0 /\ config = Conf!Defaults("NO")
    BY <2>1 DEF Conf!Defaults
  <2>2. CASE Conf!Init
    BY <2>2 DEF Conf!Init, Conf!Defaults, Conf!Modes
  <2>3. QED
    BY <2>1, <2>2 DEF BedInit
<1>2. Conf!LastLines("have-AAAA") = {}
  BY <1>1 DEF Conf!LastLines
<1>3. NativeAsSaid = BOOLEAN
  BY <1>2 DEF NativeAsSaid
<1>4. QED
  BY <1>1, <1>3, NativesAny DEF ModeSaid
-------------------------------------------------------------------------------
(* What fakedns has sent *)

\* a is its answer to the query b, with the bytes r of a record or without one.
FakeSent(a, b, n, t, ls, r, octets) ==
  /\ a \in Seq(Bytes) /\ Len(a) = n + Len(r)
  /\ FakeHeld(BufferOf(a), Len(a), b, n, t, ls, r, octets)

\* Any answer to a whole query is one.
LEMMA AnswerSent ==
  ASSUME NEW d, NEW b, NEW n, NEW t, NEW ls, NEW ip, AskedFor(d, b, n, t, ls, ip),
         NEW native \in BOOLEAN, NEW leftover
  PROVE  FakeSent(FakeAnswer(d, native, leftover), b, n, t, ls,
                  FakeRecord(U16(b, t), ip, native), FakeData(U16(b, t), ip))
<1> DEFINE a == FakeAnswer(d, native, leftover)
           type == U16(b, t)
           r == FakeRecord(type, ip, native)
           octets == FakeData(type, ip)
<1>1. FakeAnswered(a, b, n, t, r)
  BY AnswerMade
<1>2. Asking(b, n, t, ls) /\ ip \in [1 .. 4 -> Bytes]
  BY DEF AskedFor
<1>3. IF type = TypeA \/ (type = TypeAAAA /\ native) THEN OneRecord(r, type, octets) ELSE r = <<>>
  BY <1>2, RecordIfAny
<1>4. type = TypeA => Len(octets) = 4
  BY <1>2, AddressSmall DEF FakeData
<1> HIDE DEF a, type, r, octets
<1>5. a \in Seq(Bytes) /\ Len(a) = n + Len(r) /\ Answering(BufferOf(a), b, n, t, Records(r), r)
  BY <1>1 DEF FakeAnswered
<1>6. Len(a) \in Nat /\ BufferOf(a) \in Buffer(Len(a)) /\ n + Len(r) <= Len(a)
  BY <1>5, BufferTyped
<1>7. /\ r = <<>> \/ OneRecord(r, type, octets)
      /\ r # <<>> => type = TypeAAAA \/ (type = TypeA /\ Len(octets) = 4)
  BY <1>3, <1>4
<1>8. FakeHeld(BufferOf(a), Len(a), b, n, t, ls, r, octets)
  BY <1>2, <1>5, <1>6, <1>7 DEF FakeHeld, type
<1>9. QED
  BY <1>5, <1>8 DEF FakeSent, a, type, r, octets

\* What begins with the same bytes is the same answer.
LEMMA HeldAlike ==
  ASSUME NEW c, NEW k, NEW b, NEW n, NEW t, NEW ls, NEW r, NEW octets,
         FakeHeld(c, k, b, n, t, ls, r, octets), NEW m \in Nat, NEW x \in Buffer(m),
         n + Len(r) <= m, Agree(c, x, n + Len(r))
  PROVE  FakeHeld(x, m, b, n, t, ls, r, octets)
<1> DEFINE size == Len(r)
<1>1. /\ Asking(b, n, t, ls) /\ Answering(c, b, n, t, Records(r), r)
      /\ r = <<>> \/ OneRecord(r, U16(b, t), octets)
      /\ r # <<>> => U16(b, t) = TypeAAAA \/ (U16(b, t) = TypeA /\ Len(octets) = 4)
  BY DEF FakeHeld
<1>2. n \in Nat /\ t \in Nat /\ 12 < t /\ t + 4 = n
  BY <1>1 DEF Asking
<1>3. size \in Nat
  <2>1. CASE r = <<>>
    BY <2>1
  <2>2. CASE OneRecord(r, U16(b, t), octets)
    BY <2>2 DEF OneRecord
  <2>3. QED
    BY <1>1, <2>1, <2>2
<1>4. \A p \in Nat : p < n + size => x[p] = c[p]
  BY DEF Agree
<1>5. /\ HeaderOf(c, U16(b, 0), Records(r)) /\ SameQuestion(b, c, t) /\ U16(c, t) = U16(b, t)
      /\ Held(c, n, r)
  BY <1>1 DEF Answering
<1>6. HeaderOf(x, U16(b, 0), Records(r))
  <2>1. ASSUME NEW p \in Nat, p < 12 PROVE x[p] = c[p]
    <3>1. p < n + size
      BY <1>2, <1>3, <2>1
    <3>2. QED
      BY <1>4, <3>1
  <2>2. U16(x, 0) = U16(c, 0) /\ U16(x, 2) = U16(c, 2)
    <3>1. 0 < 12 /\ 1 < 12 /\ 2 < 12 /\ 3 < 12 /\ 0 + 1 = 1 /\ 2 + 1 = 3
      OBVIOUS
    <3>2. x[0] = c[0] /\ x[1] = c[1] /\ x[2] = c[2] /\ x[3] = c[3]
      BY <2>1
    <3>3. QED
      BY <3>1, <3>2 DEF U16
  <2>3. 1 \in 1 .. 4 /\ 2 \in 1 .. 4 /\ 3 \in 1 .. 4 /\ 4 \in 1 .. 4
    OBVIOUS
  <2>4. /\ Count(x, 1) = Count(c, 1) /\ Count(x, 2) = Count(c, 2)
        /\ Count(x, 3) = Count(c, 3) /\ Count(x, 4) = Count(c, 4)
    BY <2>1, <2>3, CountKept
  <2>5. QED
    BY <1>5, <2>2, <2>4 DEF HeaderOf
<1> HIDE DEF size
<1>7. ASSUME NEW p \in Nat, p < t + 4 PROVE x[p] = c[p]
  <2>1. p < n + size
    BY <1>2, <1>3, <1>7
  <2>2. QED
    BY <1>4, <2>1
<1>8. SameQuestion(b, x, t)
  <2>1. SpeltAlike(b, c, 12, t) /\ c[t + 2] = b[t + 2] /\ c[t + 3] = b[t + 3]
    BY <1>5 DEF SameQuestion
  <2>2. ASSUME NEW p \in Nat, 12 <= p, p < t PROVE x[p] = b[p]
    <3>1. p < t + 4
      BY <1>2, <2>2
    <3>2. QED
      BY <1>7, <2>1, <2>2, <3>1 DEF SpeltAlike
  <2>3. t + 2 \in Nat /\ t + 2 < t + 4 /\ t + 3 \in Nat /\ t + 3 < t + 4
    BY <1>2
  <2>4. x[t + 2] = c[t + 2] /\ x[t + 3] = c[t + 3]
    BY <1>7, <2>3
  <2>5. QED
    BY <2>1, <2>2, <2>4 DEF SameQuestion, SpeltAlike
<1>9. U16(x, t) = U16(b, t)
  <2>1. t < t + 4 /\ t + 1 \in Nat /\ t + 1 < t + 4
    BY <1>2
  <2>2. x[t] = c[t] /\ x[t + 1] = c[t + 1]
    BY <1>2, <1>7, <2>1
  <2>3. QED
    BY <1>5, <2>2 DEF U16
<1>10. Held(x, n, r)
  BY <1>4, <1>5 DEF Held, size
<1>11. QED
  BY <1>1, <1>6, <1>8, <1>9, <1>10 DEF FakeHeld, Answering
-------------------------------------------------------------------------------
(* The inductive invariant *)

\* A client has asked properly, and all of its datagram has been received.
Asked == client \in TestQueries /\ client.proper /\ Len(client.bytes) <= buflen

\* What is parsed is the answer to it,
AnsweredOnce ==
  \E native \in NativeAsSaid, leftover \in Leftovers :
    dgram = FakeAnswer(client.bytes, native, leftover)

\* b, of length n, are the bytes of the client, who asks for the address in the labels ls and
\* for the type at t.
ClientAsks(b, n, t, ls) ==
  /\ AskedFor(client.bytes, b, n, t, ls, client.address) /\ U16(b, t) = client.type
  /\ client.type \in Nat

\* or that to the same question with another type.
AnsweredAgain ==
  /\ client.type = TypeAAAA /\ FALSE \in NativeAsSaid
  /\ \E b, n, t, ls, c, leftover : /\ ClientAsks(b, n, t, ls) /\ AskedAgain(b, c, n, t)
                                   /\ dgram = FakeAnswer(Slice(c, 0, n), TRUE, leftover)

\* What ReplyAsConfigured says of a reply to who asks properly.
Served ==
  /\ Len(client.bytes) <= buflen
  /\ \E native \in NativeAsSaid : Meaning(bytes, len) = Expected(client, native)
  /\ U16(bytes, 0) = U16(BufferOf(client.bytes), 0)
  /\ Field(bytes, 15, 1) = 1 /\ Field(bytes, 0, 4) = 0

\* No answer is there yet, or none comes.
Idle == phase \in {"config", "forward", "silent"} /\ dgram = <<>> /\ IInv /\ pc = "header"

Waiting ==
  phase = "forward" =>
    client \in TestQueries /\ data = SubSeq(client.bytes, 1, Min({buflen, Len(client.bytes)}))

\* The answer of fakedns is parsed.
Parsing ==
  /\ phase = "first" /\ IInv /\ SentInv /\ pc \in {"header", "entries", "dropped"}
  /\ Asked /\ data = client.bytes /\ AnsweredOnce

Passed == phase = "passed" /\ IInv /\ SentInv /\ pc = "entries" /\ Served

\* An answer is parsed and translated: that of any name server, or that of fakedns.
Alone == client = NoClient /\ ProperSent

Anew == Asked /\ AnsweredAgain /\ Headed

Translating == phase = "second" /\ LegibleInv /\ (Alone \/ Anew)

\* The client did not ask properly, and something may come back all the same.
Odd ==
  /\ phase \in {"first", "second", "passed", "silent"}
  /\ client \in TestQueries /\ ~client.proper

Course == (Idle /\ Waiting) \/ Parsing \/ Passed \/ Translating \/ Odd

\* The inductive invariant.
BedInv == ConfInv /\ ModeSaid /\ Course
-------------------------------------------------------------------------------
(* What it says of the answers *)

\* A client who asks.
LEMMA WhoAsks ==
  ASSUME Asked
  PROVE  /\ client \in TestQuery /\ Asks(client)
         /\ \E b, n, t, ls : /\ b = BufferOf(client.bytes) /\ n = Len(client.bytes)
                             /\ ClientAsks(b, n, t, ls)
<1>1. client \in TestQuery /\ client.proper /\ client \in TestQueries
  BY TestBedAssumption DEF Asked
<1>2. Asks(client)
  BY <1>1, TestQueriesAssumption
<1>3. PICK t, ls : /\ AskedFor(client.bytes, BufferOf(client.bytes), Len(client.bytes), t, ls,
                               client.address)
                   /\ U16(BufferOf(client.bytes), t) = client.type
  BY <1>1, <1>2, AsksFor
<1>4. client.type \in Nat
  BY <1>1 DEF TestQuery
<1>5. QED
  BY <1>1, <1>2, <1>3, <1>4 DEF ClientAsks

\* The first answer is one of fakedns,
FirstSent(b, n, t, ls, native) ==
  FakeSent(dgram, b, n, t, ls, FakeRecord(client.type, client.address, native),
           FakeData(client.type, client.address))

\* for the type the client asked for.
LEMMA OnceSent ==
  ASSUME NEW b, NEW n, NEW t, NEW ls, ClientAsks(b, n, t, ls), NEW native \in BOOLEAN,
         NEW leftover, dgram = FakeAnswer(client.bytes, native, leftover)
  PROVE  FirstSent(b, n, t, ls, native)
<1>1. AskedFor(client.bytes, b, n, t, ls, client.address) /\ U16(b, t) = client.type
  BY DEF ClientAsks
<1>2. FakeSent(FakeAnswer(client.bytes, native, leftover), b, n, t, ls,
               FakeRecord(U16(b, t), client.address, native), FakeData(U16(b, t), client.address))
  BY <1>1, AnswerSent
<1>3. QED
  BY <1>1, <1>2 DEF FirstSent

\* and so is the second, with one record.
SecondSent(c, n, t, ls, r) == FakeSent(dgram, c, n, t, ls, r, client.address) /\ r # <<>>

\* As the question is for an address now, there is a record.
LEMMA AgainSent ==
  ASSUME NEW b, NEW n, NEW t, NEW ls, ClientAsks(b, n, t, ls), NEW c, AskedAgain(b, c, n, t),
         NEW leftover, dgram = FakeAnswer(Slice(c, 0, n), TRUE, leftover)
  PROVE  \E r : SecondSent(c, n, t, ls, r)
<1> DEFINE ip == client.address
           r == FakeRecord(TypeA, ip, TRUE)
<1>1. AskedFor(client.bytes, b, n, t, ls, ip)
  BY DEF ClientAsks
<1>2. U16(c, t) = TypeA /\ ip \in [1 .. 4 -> Bytes]
  BY <1>1 DEF AskedAgain, AskedFor
<1>3. AskedFor(Slice(c, 0, n), c, n, t, ls, ip)
  BY <1>1, AskedAnewFor
<1>4. FakeSent(FakeAnswer(Slice(c, 0, n), TRUE, leftover), c, n, t, ls,
               FakeRecord(U16(c, t), ip, TRUE), FakeData(U16(c, t), ip))
  BY <1>3, AnswerSent
<1>5. FakeData(TypeA, ip) = ip
  BY DEF FakeData
<1>6. r # <<>>
  <2>1. OneRecord(r, TypeA, FakeData(TypeA, ip))
    BY <1>2, RecordIfAny
  <2> HIDE DEF r
  <2>2. QED
    BY <2>1 DEF OneRecord
<1>7. FakeSent(dgram, c, n, t, ls, r, ip)
  BY <1>2, <1>4, <1>5
<1>8. QED
  BY <1>6, <1>7 DEF SecondSent

\* Both are proper datagrams, whose names can be followed.
LEMMA SentReadable ==
  ASSUME NEW b, NEW n, NEW t, NEW ls, NEW r, NEW octets,
         FakeSent(dgram, b, n, t, ls, r, octets)
  PROVE  ProperDatagram /\ Readable
<1>1. dgram \in Seq(Bytes) /\ Size = n + Len(r) /\ FakeHeld(Received, Size, b, n, t, ls, r, octets)
  BY DEF FakeSent, Received, Size
<1>2. Readable
  BY <1>1, FakeReadable
<1>3. QED
  BY <1>2 DEF Readable

\* There are answers with AAAA records and those without.
LEMMA NativeBoolean ==
  ASSUME ConfTypes
  PROVE  NativeAsSaid \subseteq BOOLEAN
BY DEF NativeAsSaid, NativeSaid

\* So the first answer is proper, and parses if there is room for it,
LEMMA OnceProper ==
  ASSUME ConfTypes, Asked, AnsweredOnce
  PROVE  ProperDatagram
<1>1. PICK b, n, t, ls : ClientAsks(b, n, t, ls)
  BY WhoAsks
<1>2. PICK native \in NativeAsSaid, leftover \in Leftovers :
        dgram = FakeAnswer(client.bytes, native, leftover)
  BY DEF AnsweredOnce
<1>3. native \in BOOLEAN
  BY NativeBoolean
<1>4. FirstSent(b, n, t, ls, native)
  BY <1>1, <1>2, <1>3, OnceSent
<1>5. QED
  BY <1>4, SentReadable DEF FirstSent

\* and what is made of the second means what DNS64 makes of it.
LEMMA AgainReadable ==
  ASSUME AnsweredAgain
  PROVE  ProperDatagram /\ Readable
<1>1. PICK b, n, t, ls, c, leftover :
        /\ ClientAsks(b, n, t, ls) /\ AskedAgain(b, c, n, t)
        /\ dgram = FakeAnswer(Slice(c, 0, n), TRUE, leftover)
  BY DEF AnsweredAgain
<1>2. PICK r : SecondSent(c, n, t, ls, r)
  BY <1>1, AgainSent
<1>3. QED
  BY <1>2, SentReadable DEF SecondSent
-------------------------------------------------------------------------------
(* An answer of fakedns has been parsed *)

\* The packet has it whole, and the entries that are in it.
PacketRead(b, n, t, ls, r, octets) ==
  /\ FakeHeld(bytes, buflen, b, n, t, ls, r, octets) /\ len = n + Len(r)
  /\ question[1] = QuestionOf(t) /\ Len(answer) = Records(r)
  /\ r # <<>> => answer[1] = RecordOf(n)

\* As the datagram is proper, all of it was received.
LEMMA SentRead ==
  ASSUME IInv, SentInv, pc = "entries", Unparsed = {}, NEW b, NEW n, NEW t, NEW ls, NEW r,
         NEW octets, FakeSent(dgram, b, n, t, ls, r, octets)
  PROVE  PacketRead(b, n, t, ls, r, octets)
<1>1. ProperDatagram /\ TypeInv
  BY SentReadable DEF IInv
<1>2. dgram \in Seq(Bytes) /\ Size = n + Len(r) /\ FakeHeld(Received, Size, b, n, t, ls, r, octets)
  BY DEF FakeSent, Received, Size
<1>3. Entries = Sent /\ len = Size /\ \A p \in Nat : p < len => bytes[p] = Received[p]
  <2>1. Unread
    BY <1>1, AllUnread
  <2>2. QED
    BY <2>1 DEF Unread
<1>4. /\ Len(question) = Count(Received, 1) /\ Len(answer) = Count(Received, 2)
      /\ \A i \in 1 .. Len(answer) : answer[i] = Sent[Len(question) + i]
  BY <1>1, AllRead
<1>5. AnswerRead(Received, n + Len(r), b, n, t, ls, r, octets)
  BY <1>2, FakeRead
<1>6. /\ Count(Received, 1) = 1 /\ Count(Received, 2) = Records(r)
      /\ Sent[1] = QuestionOf(t) /\ (r # <<>> => Sent[2] = RecordOf(n))
  BY <1>2, <1>5 DEF AnswerRead, Sent
<1>7. question[1] = QuestionOf(t)
  <2>1. \A i \in 1 .. Len(question) : Entries[i] = question[i]
    BY <1>1, EntriesTyped
  <2>2. 1 \in 1 .. Len(question)
    BY <1>4, <1>6
  <2>3. QED
    BY <1>3, <1>6, <2>1, <2>2
<1>8. r # <<>> => answer[1] = RecordOf(n)
  <2>1. ASSUME r # <<>> PROVE answer[1] = RecordOf(n)
    <3>1. Len(answer) = 1 /\ Len(question) = 1
      BY <1>4, <1>6, <2>1 DEF Records
    <3>2. 1 \in 1 .. Len(answer) /\ Len(question) + 1 = 2
      BY <3>1
    <3>3. QED
      BY <1>4, <1>6, <2>1, <3>2
  <2>2. QED
    BY <2>1
<1>9. FakeHeld(bytes, buflen, b, n, t, ls, r, octets)
  <2>1. buflen \in Nat /\ bytes \in Buffer(buflen) /\ len \in 0 .. buflen
    BY <1>1 DEF TypeInv, TypeOK, Buffer
  <2>2. n + Len(r) <= buflen
    BY <1>2, <1>3, <2>1
  <2>3. Agree(Received, bytes, n + Len(r))
    BY <1>2, <1>3 DEF Agree
  <2>4. QED
    BY <1>2, <2>1, <2>2, <2>3, HeldAlike
<1>10. QED
  BY <1>2, <1>3, <1>4, <1>6, <1>7, <1>8, <1>9 DEF PacketRead

\* It is a response without an error.
LEMMA ResponseFlags ==
  ASSUME NEW b, U16(b, 2) = 33024
  PROVE  Field(b, 15, 1) = 1 /\ Field(b, 0, 4) = 0
<1>1. Field(b, 15, 1) = (33024 \div 2^15) % 2^1 /\ Field(b, 0, 4) = (33024 \div 2^0) % 2^4
  BY DEF Field
<1>2. 2^15 = 32768 /\ 2^1 = 2 /\ 2^0 = 1 /\ 2^4 = 16
  BY SMT
<1>3. (33024 \div 32768) % 2 = 1 /\ (33024 \div 1) % 16 = 0
  BY SMT
<1>4. QED
  BY <1>1, <1>2, <1>3, SMT

\* It is asked again only if there is no record for a question for AAAA.
LEMMA WhenSynthesized ==
  ASSUME NEW b, NEW n, NEW t, NEW ls, NEW r, NEW octets, PacketRead(b, n, t, ls, r, octets)
  PROVE  Synthesizes <=> U16(b, t) = TypeAAAA /\ r = <<>>
<1>1. FakeHeld(bytes, buflen, b, n, t, ls, r, octets) /\ question[1] = QuestionOf(t)
  BY DEF PacketRead
<1>2. HeaderOf(bytes, U16(b, 0), Records(r)) /\ U16(bytes, t) = U16(b, t)
  BY <1>1 DEF FakeHeld, Answering
<1>3. Count(bytes, 2) = Records(r) /\ U16(bytes, 2) = 33024
  BY <1>2 DEF HeaderOf
<1>4. Field(bytes, 0, 4) # NXDomain
  BY <1>3, ResponseFlags DEF NXDomain
<1>5. U16(bytes, question[1].qtype) = U16(b, t)
  BY <1>1, <1>2 DEF QuestionOf
<1>6. CASE r = <<>>
  <2>1. Count(bytes, 2) = 0
    BY <1>3, <1>6 DEF Records
  <2>2. QED
    BY <1>4, <1>5, <1>6, <2>1 DEF Synthesizes
<1>7. CASE r # <<>>
  <2>1. AnswerRead(bytes, n + Len(r), b, n, t, ls, r, octets)
    BY <1>1, FakeRead
  <2>2. RecordRead(bytes, n + Len(r), n, U16(b, t), octets)
    BY <1>7, <2>1 DEF AnswerRead
  <2>3. U16(bytes, n + 2) = U16(b, t)
    BY <2>2 DEF RecordRead
  <2>4. answer[1] = RecordOf(n) /\ Len(answer) = 1 /\ Count(bytes, 2) = 1
    BY <1>3, <1>7 DEF PacketRead, Records
  <2>5. U16(bytes, answer[1].qtype) = U16(b, t)
    BY <2>3, <2>4 DEF RecordOf
  <2>6. CASE U16(b, t) = TypeAAAA
    <3>1. 1 \in DOMAIN answer
      BY <2>4
    <3>2. QED
      BY <1>7, <2>4, <2>5, <2>6, <3>1 DEF Synthesizes
  <2>7. CASE U16(b, t) # TypeAAAA
    BY <1>5, <2>7 DEF Synthesizes
  <2>8. QED
    BY <2>6, <2>7
<1>8. QED
  BY <1>6, <1>7

\* What is sent as it was received serves the client.
LEMMA PassOnServed ==
  ASSUME ConfTypes, Parsing, PassOn
  PROVE  Served
<1>1. IInv /\ SentInv /\ Asked /\ AnsweredOnce
  BY DEF Parsing
<1>2. pc = "entries" /\ Unparsed = {} /\ ~Synthesizes
  BY DEF PassOn, Parsed
<1>3. client \in TestQuery /\ Asks(client)
  BY <1>1, WhoAsks
<1>4. PICK b, n, t, ls : b = BufferOf(client.bytes) /\ n = Len(client.bytes)
                         /\ ClientAsks(b, n, t, ls)
  BY <1>1, WhoAsks
<1>5. PICK native \in NativeAsSaid, leftover \in Leftovers :
        dgram = FakeAnswer(client.bytes, native, leftover)
  BY <1>1 DEF AnsweredOnce
<1>6. native \in BOOLEAN
  BY NativeBoolean
<1> DEFINE r == FakeRecord(client.type, client.address, native)
           octets == FakeData(client.type, client.address)
<1>7. FakeSent(dgram, b, n, t, ls, r, octets)
  BY <1>4, <1>5, <1>6, OnceSent DEF FirstSent
<1>8. /\ U16(b, t) = client.type /\ client.address \in [1 .. 4 -> Bytes]
      /\ AskedFor(client.bytes, b, n, t, ls, client.address)
  BY <1>4 DEF ClientAsks, AskedFor
<1>9. client.type # TypeAAAA \/ native
  <2>1. SUFFICES ASSUME client.type = TypeAAAA, ~native PROVE FALSE
    OBVIOUS
  <2>2. r = <<>>
    BY <2>1 DEF FakeRecord, TypeA, TypeAAAA
  <2> HIDE DEF r, octets
  <2>3. PacketRead(b, n, t, ls, r, octets)
    BY <1>1, <1>2, <1>7, SentRead
  <2>4. Synthesizes
    BY <1>8, <2>1, <2>2, <2>3, WhenSynthesized
  <2>5. QED
    BY <1>2, <2>4
<1>10. FakeMeans(b, t, r, octets) = Expected(client, native)
  BY <1>3, <1>4, <1>6, <1>8, <1>9, ExpectedAtOnce
<1> HIDE DEF r, octets
<1>11. PacketRead(b, n, t, ls, r, octets)
  BY <1>1, <1>2, <1>7, SentRead
<1>12. FakeHeld(bytes, buflen, b, n, t, ls, r, octets) /\ len = n + Len(r)
  BY <1>11 DEF PacketRead
<1>13. Meaning(bytes, len) = Expected(client, native)
  BY <1>10, <1>12, FakeMeaning
<1>14. U16(bytes, 0) = U16(b, 0) /\ U16(bytes, 2) = 33024
  BY <1>12 DEF FakeHeld, Answering, HeaderOf
<1>15. Field(bytes, 15, 1) = 1 /\ Field(bytes, 0, 4) = 0
  BY <1>14, ResponseFlags
<1>16. QED
  BY <1>1, <1>4, <1>13, <1>14, <1>15 DEF Served, Asked

\* So does the translation of the answer to the second question.
LEMMA AnewServed ==
  ASSUME LegibleInv, Anew, pc = "sent"
  PROVE  Served
<1>1. Asked /\ AnsweredAgain /\ Headed
  BY DEF Anew
<1>2. client \in TestQuery /\ Asks(client)
  BY <1>1, WhoAsks
<1>3. client.type = TypeAAAA /\ FALSE \in NativeAsSaid
  BY <1>1 DEF AnsweredAgain
<1>4. PICK b, n, t, ls, c, leftover :
        /\ ClientAsks(b, n, t, ls) /\ AskedAgain(b, c, n, t)
        /\ dgram = FakeAnswer(Slice(c, 0, n), TRUE, leftover)
  BY <1>1 DEF AnsweredAgain
<1>5. PICK r : SecondSent(c, n, t, ls, r)
  BY <1>4, AgainSent
<1>6. /\ Size = n + Len(r) /\ FakeHeld(Received, Size, c, n, t, ls, r, client.address)
      /\ r # <<>>
  BY <1>5 DEF SecondSent, FakeSent, Received, Size
<1>7. Meaning(bytes, len) = Translated(Meaning(Received, Size))
  <2>1. Readable
    BY <1>1, AgainReadable
  <2>2. QED
    BY <2>1 DEF LegibleInv, MeaningInv, SameMeaning
<1>8. Meaning(Received, Size) = FakeMeans(c, t, r, client.address)
  BY <1>6, FakeMeaning
<1>9. /\ AskedFor(client.bytes, b, n, t, ls, client.address) /\ U16(b, t) = client.type
      /\ b = BufferOf(client.bytes) /\ n = Len(client.bytes)
  BY <1>4 DEF ClientAsks, AskedFor
<1>10. Translated(FakeMeans(c, t, r, client.address)) = Expected(client, FALSE)
  BY <1>2, <1>3, <1>4, <1>6, <1>9, ExpectedTranslated
<1>11. U16(Received, 0) = U16(c, 0) /\ U16(Received, 2) = 33024 /\ U16(c, 0) = U16(b, 0)
  <2>1. U16(c, 0) = U16(b, 0)
    <3>1. 0 \in {0, 2, 4, 6, 8, 10}
      OBVIOUS
    <3>2. QED
      BY <1>4, <3>1 DEF AskedAgain
  <2>2. QED
    BY <1>6, <2>1 DEF FakeHeld, Answering, HeaderOf
<1>12. U16(bytes, 0) = U16(Received, 0) /\ U16(bytes, 2) = U16(Received, 2)
  <2>1. Agree(Received, bytes, 12)
    BY <1>1 DEF Headed
  <2>2. /\ 0 \in Nat /\ 0 + 1 \in Nat /\ 0 < 12 /\ 0 + 1 < 12
        /\ 2 \in Nat /\ 2 + 1 \in Nat /\ 2 < 12 /\ 2 + 1 < 12
    OBVIOUS
  <2>3. QED
    BY <2>1, <2>2 DEF Agree, U16
<1>13. Field(bytes, 15, 1) = 1 /\ Field(bytes, 0, 4) = 0
  BY <1>11, <1>12, ResponseFlags
<1>14. Meaning(bytes, len) = Expected(client, FALSE)
  BY <1>7, <1>8, <1>10
<1>15. U16(bytes, 0) = U16(BufferOf(client.bytes), 0)
  BY <1>9, <1>11, <1>12
<1>16. Len(client.bytes) <= buflen
  BY <1>1 DEF Asked
<1>17. QED
  BY <1>3, <1>13, <1>14, <1>15, <1>16 DEF Served
-------------------------------------------------------------------------------
(* The steps *)

\* A packet that is left alone keeps what it has.
LEMMA PacketKept ==
  ASSUME UNCHANGED vars
  PROVE  /\ IInv' = IInv /\ SentInv' = SentInv /\ LegibleInv' = LegibleInv /\ Headed' = Headed
         /\ ProperSent' = ProperSent
<1>1. UNCHANGED <<dgram, buflen, len, bytes, question, answer, authority, additional,
                  labels, begin, next, pc>>
  BY DEF vars
<1>2. /\ Received' = Received /\ Size' = Size /\ Sent' = Sent /\ Entries' = Entries
      /\ TranslatedLength' = TranslatedLength /\ ReceivedLength' = ReceivedLength
  BY <1>1 DEF Received, Size, Sent, Entries, TranslatedLength, ReceivedLength
<1>3. Stop' = Stop /\ ProperDatagram' = ProperDatagram
  BY <1>1, <1>2 DEF Stop, ProperDatagram
<1>4. TypeInv' = TypeInv
  BY <1>1 DEF TypeInv, TypeOK, InBuffer
<1>5. LayoutInv' = LayoutInv
  BY <1>1, <1>2, <1>3 DEF LayoutInv, Laid, InOrder, Complete, Ahead, Addressed
<1>6. SentInv' = SentInv
  BY <1>1, <1>2 DEF SentInv, ReadAsSent, GrownAsSent, SameAsSent, Before, SentWholeIfItFits
<1>7. Readable' = Readable
  BY <1>2, <1>3 DEF Readable
<1>8. MeaningInv' = MeaningInv
  BY <1>1, <1>2 DEF MeaningInv, SameCounts, SameNames, SameMeaning, Says, ToSay, Before
<1>9. Headed' = Headed
  BY <1>1, <1>2 DEF Headed
<1>10. QED
  BY <1>1, <1>3, <1>4, <1>5, <1>6, <1>7, <1>8, <1>9 DEF IInv, LegibleInv, ProperInv, ProperSent

\* So does what the client was answered.
LEMMA AskingKept ==
  ASSUME UNCHANGED <<conf, at, client, buflen>>
  PROVE  Asked' = Asked /\ NativeAsSaid' = NativeAsSaid
<1>1. NativeAsSaid' = NativeAsSaid
  BY DEF NativeAsSaid, Conf!LastLines
<1>2. QED
  BY <1>1 DEF Asked

\* The course begins with the configuration of fakedns, or with another name server's answer.
LEMMA StartCourse == BedInit => Course
<1> SUFFICES ASSUME BedInit PROVE Course
  OBVIOUS
<1>1. CASE phase = "second" /\ Init
  <2>1. ProperInv /\ ProperSent /\ pc = "header"
    BY <1>1, InitSent DEF Init
  <2>2. LegibleInv
    BY <2>1 DEF LegibleInv, MeaningInv
  <2>3. Alone
    BY <2>1 DEF BedInit, Alone
  <2>4. QED
    BY <1>1, <2>2, <2>3 DEF Course, Translating
<1>2. CASE /\ phase = "config" /\ dgram = <<>> /\ buflen \in Maxlengths /\ len = 0
           /\ bytes = [o \in 0 .. buflen - 1 |-> 0]
           /\ question = <<>> /\ answer = <<>> /\ authority = <<>> /\ additional = <<>>
           /\ labels = <<>> /\ begin = HeaderSize /\ next = 1 /\ pc = "header"
  <2>1. buflen \in Nat
    BY <1>2, TestBedAssumption
  <2>2. bytes \in [0 .. buflen - 1 -> Bytes]
    BY <1>2, ByteRange
  <2>3. dgram \in Seq(Bytes) /\ Len(dgram) = 0
    BY <1>2
  <2>4. TypeInv
    BY <1>2, <2>1, <2>2, <2>3 DEF TypeInv, TypeOK, InBuffer, HeaderSize
  <2>5. LayoutInv
    BY <1>2, <2>1, <2>3 DEF LayoutInv, ReceivedLength
  <2>6. QED
    BY <1>2, <2>4, <2>5 DEF Course, Idle, Waiting, IInv
<1>3. QED
  BY <1>1, <1>2 DEF BedInit

\* The client's datagram is thrown away, or not yet there.
LEMMA IdleCourse ==
  ASSUME Idle, Waiting, ReadLine \/ (\E q \in TestQueries : ClientSends(q)) \/ Ignore
  PROVE  Course'
<1>1. UNCHANGED vars /\ phase' \in {"config", "forward", "silent"}
  BY DEF ReadLine, ClientSends, Ignore, Idle
<1>2. IInv' = IInv
  BY <1>1, PacketKept
<1>3. dgram' = dgram /\ pc' = pc /\ buflen' = buflen
  BY <1>1 DEF vars
<1>4. Idle'
  BY <1>1, <1>2, <1>3 DEF Idle
<1>5. Waiting'
  BY <1>3 DEF ReadLine, ClientSends, Ignore, Waiting
<1>6. QED
  BY <1>4, <1>5 DEF Course

\* fakedns answers: if the client asked properly, all of its datagram is there.
LEMMA ForwardCourse ==
  ASSUME ConfTypes, ModeSaid, Idle, Waiting, Forward, client.proper
  PROVE  Course'
<1> DEFINE k == IF buflen <= Len(client.bytes) THEN buflen ELSE Len(client.bytes)
<1>1. /\ phase = "forward" /\ phase' = "first" /\ UNCHANGED <<confVars, client, data>>
      /\ \E native \in Natives, leftover \in Leftovers :
           /\ FakeAnswer(data, native, leftover) # <<>>
           /\ ReceiveAnswer(FakeAnswer(data, native, leftover))
  BY DEF Forward
<1>2. client \in TestQueries /\ data = SubSeq(client.bytes, 1, Min({buflen, Len(client.bytes)}))
  BY <1>1 DEF Waiting
<1>3. client \in TestQuery /\ client.bytes \in Seq(Bytes) /\ Len(client.bytes) \in Nat
  BY <1>2, TestBedAssumption DEF TestQuery
<1>4. buflen \in Nat /\ bytes \in Buffer(buflen)
  BY DEF Idle, IInv, TypeInv, TypeOK, Buffer
<1>5. k \in 0 .. Len(client.bytes) /\ k \in Nat
  BY <1>3, <1>4
<1>6. data = SubSeq(client.bytes, 1, k)
  <2>1. Min({buflen, Len(client.bytes)}) = k
    BY <1>3, <1>4, LeastOfTwo
  <2>2. QED
    BY <1>2, <2>1
<1>7. Asks(client)
  BY <1>2, TestQueriesAssumption
<1>8. k = Len(client.bytes)
  <2>1. ASSUME k < Len(client.bytes) PROVE FALSE
    <3>1. \A native, leftover : FakeAnswer(SubSeq(client.bytes, 1, k), native, leftover) = <<>>
      BY <1>3, <1>5, <1>7, <2>1, CutUnanswered
    <3>2. QED
      BY <1>1, <1>6, <3>1
  <2>2. QED
    BY <1>3, <1>5, <2>1
<1>9. Asked
  BY <1>2, <1>3, <1>4, <1>8 DEF Asked
<1> HIDE DEF k
<1>10. data = client.bytes
  <2>1. data \in Seq(Bytes) /\ Len(data) = k /\ \A i \in 1 .. k : data[i] = client.bytes[i]
    <3>1. k <= Len(client.bytes) /\ 1 <= k + 1
      BY <1>5
    <3>2. QED
      BY <1>3, <1>5, <1>6, <3>1, SubSeqProperties
  <2>2. QED
    BY <1>3, <1>8, <2>1, SeqEqual
<1>11. PICK native \in Natives, leftover \in Leftovers :
         ReceiveAnswer(FakeAnswer(client.bytes, native, leftover))
  BY <1>1, <1>10
<1>12. native \in NativeAsSaid /\ native \in BOOLEAN
  BY NativeBoolean DEF ModeSaid
<1>13. FakeAnswer(client.bytes, native, leftover) \in Seq(Bytes)
  <2>1. PICK b, n, t, ls : ClientAsks(b, n, t, ls)
    BY <1>9, WhoAsks
  <2>2. AskedFor(client.bytes, b, n, t, ls, client.address)
    BY <2>1 DEF ClientAsks
  <2>3. QED
    BY <1>12, <2>2, AnswerSent DEF FakeSent
<1>14. IInv' /\ SentInv' /\ pc' = "header" /\ dgram' = FakeAnswer(client.bytes, native, leftover)
  BY <1>4, <1>11, <1>13, AnswerReceived
<1>15. UNCHANGED <<conf, at, client, buflen>> /\ data' = client'.bytes
  BY <1>1, <1>10, <1>11 DEF confVars, ReceiveAnswer
<1>16. Asked' = Asked /\ NativeAsSaid' = NativeAsSaid
  BY <1>15, AskingKept
<1>17. AnsweredOnce'
  BY <1>12, <1>14, <1>15, <1>16 DEF AnsweredOnce
<1>18. Parsing'
  BY <1>1, <1>9, <1>14, <1>15, <1>16, <1>17 DEF Parsing
<1>19. QED
  BY <1>18 DEF Course

\* The constructor reads the answer.
LEMMA ParseCourse ==
  ASSUME ConfTypes, Parsing, Parse
  PROVE  Course'
<1>1. /\ IInv /\ SentInv /\ Asked /\ data = client.bytes /\ AnsweredOnce
      /\ UNCHANGED <<confVars, client, data, phase>>
      /\ HeaderTooSmall \/ ReadHeader \/ ReadEntry \/ EntryTooLong
  BY DEF Parsing, Parse
<1>2. ProperDatagram
  BY <1>1, OnceProper
<1>3. dgram' = dgram /\ buflen' = buflen /\ pc' \in {"header", "entries", "dropped"}
  <2>1. CASE HeaderTooSmall \/ ReadHeader \/ EntryTooLong
    BY <2>1 DEF HeaderTooSmall, ReadHeader, EntryTooLong
  <2>2. CASE ReadEntry
    BY <2>2 DEF ReadEntry
  <2>3. QED
    BY <1>1, <2>1, <2>2
<1>4. ProperDatagram'
  BY <1>2, <1>3 DEF ProperDatagram
<1>5. IInv' /\ SentInv'
  <2>1. ProperInv
    BY <1>1 DEF ProperInv
  <2>2. [Next]_vars
    BY <1>1 DEF Next
  <2>3. ProperInv'
    BY <2>1, <2>2, NextProper
  <2>4. QED
    BY <1>4, <2>3 DEF ProperInv
<1>6. UNCHANGED <<conf, at, client, buflen>>
  BY <1>1, <1>3 DEF confVars
<1>7. Asked' = Asked /\ NativeAsSaid' = NativeAsSaid
  BY <1>6, AskingKept
<1>8. AnsweredOnce'
  BY <1>1, <1>3, <1>6, <1>7 DEF AnsweredOnce
<1>9. Parsing'
  BY <1>1, <1>3, <1>5, <1>7, <1>8 DEF Parsing
<1>10. QED
  BY <1>9 DEF Course

\* The answer is sent as it was received.
LEMMA PassOnCourse ==
  ASSUME ConfTypes, Parsing, PassOn
  PROVE  Course'
<1>1. /\ IInv /\ SentInv /\ pc = "entries" /\ phase' = "passed"
      /\ UNCHANGED <<confVars, client, data, vars>>
  BY DEF Parsing, PassOn, Parsed
<1>2. IInv' /\ SentInv'
  BY <1>1, PacketKept
<1>3. UNCHANGED <<conf, at, client, buflen, bytes, len, pc>>
  BY <1>1 DEF confVars, vars
<1>4. NativeAsSaid' = NativeAsSaid
  BY <1>3, AskingKept
<1>5. Served
  BY PassOnServed
<1>6. Served'
  BY <1>3, <1>4, <1>5 DEF Served
<1>7. Passed'
  BY <1>1, <1>2, <1>3, <1>6 DEF Passed
<1>8. QED
  BY <1>7 DEF Course

\* The question is asked again for addresses.
LEMMA LookUpACourse ==
  ASSUME ConfTypes, Parsing, LookUpA
  PROVE  Course'
<1>1. /\ IInv /\ SentInv /\ Asked /\ data = client.bytes /\ AnsweredOnce
  BY DEF Parsing
<1>2. /\ pc = "entries" /\ Unparsed = {} /\ Synthesizes /\ UNCHANGED <<confVars, client>>
      /\ \E leftover \in Leftovers :
           \/ ReceiveAnswer(FakeAnswer(Retyped, TRUE, leftover)) /\ phase' = "second"
           \/ FakeAnswer(Retyped, TRUE, leftover) = <<>>
  BY DEF LookUpA, Parsed
<1>3. PICK b, n, t, ls : b = BufferOf(client.bytes) /\ n = Len(client.bytes)
                         /\ ClientAsks(b, n, t, ls)
  BY <1>1, WhoAsks
<1>4. PICK native \in NativeAsSaid, leftover \in Leftovers :
        dgram = FakeAnswer(client.bytes, native, leftover)
  BY <1>1 DEF AnsweredOnce
<1>5. native \in BOOLEAN
  BY NativeBoolean
<1> DEFINE r == FakeRecord(client.type, client.address, native)
           octets == FakeData(client.type, client.address)
           c == Write16(b, t, TypeA)
<1>6. FakeSent(dgram, b, n, t, ls, r, octets)
  BY <1>3, <1>4, <1>5, OnceSent DEF FirstSent
<1>7. /\ U16(b, t) = client.type /\ client.address \in [1 .. 4 -> Bytes]
      /\ AskedFor(client.bytes, b, n, t, ls, client.address)
      /\ Asking(b, n, t, ls) /\ EntryAt(b, 12, n, 1) = QuestionOf(t)
  BY <1>3 DEF ClientAsks, AskedFor
<1>8. client.type = TypeAAAA /\ r = <<>>
  <2> HIDE DEF r, octets
  <2>1. PacketRead(b, n, t, ls, r, octets)
    BY <1>1, <1>2, <1>6, SentRead
  <2>2. QED
    BY <1>2, <1>7, <2>1, WhenSynthesized
<1>9. ~native
  <2>1. ASSUME native PROVE FALSE
    <3>1. OneRecord(r, client.type, octets)
      BY <1>7, <1>8, <2>1, RecordIfAny
    <3> HIDE DEF r, octets
    <3>2. QED
      BY <1>8, <3>1 DEF OneRecord
  <2>2. QED
    BY <2>1
<1>10. FALSE \in NativeAsSaid
  BY <1>5, <1>9
<1> HIDE DEF r, octets, c
<1>11. AskedAgain(b, c, n, t)
  BY <1>7, TypeChanged DEF c
<1>12. Retyped = Slice(c, 0, n)
  <2>1. Data = b /\ Len(data) = n
    BY <1>1, <1>3 DEF Data
  <2>2. QuestionOf(t).qtype = t
    BY DEF QuestionOf
  <2>3. QED
    BY <1>7, <2>1, <2>2 DEF Retyped, HeaderSize, c
<1>13. ASSUME NEW other
       PROVE  /\ FakeAnswer(Slice(c, 0, n), TRUE, other) \in Seq(Bytes)
              /\ FakeAnswer(Slice(c, 0, n), TRUE, other) # <<>>
  <2> DEFINE a == FakeAnswer(Slice(c, 0, n), TRUE, other)
             one == FakeRecord(U16(c, t), client.address, TRUE)
  <2>1. AskedFor(Slice(c, 0, n), c, n, t, ls, client.address)
    BY <1>7, <1>11, AskedAnewFor
  <2>2. FakeSent(a, c, n, t, ls, one, FakeData(U16(c, t), client.address))
    BY <2>1, AnswerSent
  <2>3. n \in Nat /\ 12 < n
    BY <1>7 DEF Asking
  <2> HIDE DEF a, one
  <2>4. a \in Seq(Bytes) /\ Len(a) = n + Len(one)
    BY <2>2 DEF FakeSent
  <2>5. Len(one) \in Nat
    <3>1. one = <<>> \/ OneRecord(one, U16(c, t), FakeData(U16(c, t), client.address))
      BY <2>2 DEF FakeSent, FakeHeld
    <3>2. QED
      BY <3>1 DEF OneRecord
  <2>6. a # <<>>
    BY <2>3, <2>4, <2>5
  <2>7. QED
    BY <2>4, <2>6 DEF a
<1>14. buflen \in Nat /\ bytes \in Buffer(buflen)
  BY <1>1 DEF IInv, TypeInv, TypeOK, Buffer
<1>15. PICK again \in Leftovers :
         ReceiveAnswer(FakeAnswer(Slice(c, 0, n), TRUE, again)) /\ phase' = "second"
  BY <1>2, <1>12, <1>13
<1>16. IInv' /\ SentInv' /\ pc' = "header" /\ dgram' = FakeAnswer(Slice(c, 0, n), TRUE, again)
  BY <1>13, <1>14, <1>15, AnswerReceived
<1>17. UNCHANGED <<conf, at, client, buflen>>
  BY <1>2, <1>15 DEF confVars, ReceiveAnswer
<1>18. Asked' = Asked /\ NativeAsSaid' = NativeAsSaid
  BY <1>17, AskingKept
<1>19. ClientAsks(b, n, t, ls)'
  BY <1>3, <1>17 DEF ClientAsks
<1>20. AnsweredAgain'
  BY <1>8, <1>10, <1>11, <1>16, <1>17, <1>18, <1>19 DEF AnsweredAgain
<1>21. Anew'
  BY <1>1, <1>16, <1>18, <1>20 DEF Anew, Headed
<1>22. LegibleInv'
  BY <1>16 DEF LegibleInv, ProperInv, MeaningInv
<1>23. QED
  BY <1>21, <1>22, <1>15 DEF Course, Translating

\* The second answer is translated.
LEMMA TranslateCourse ==
  ASSUME Translating, Translate
  PROVE  Course'
<1>1. /\ LegibleInv /\ (Alone \/ Anew) /\ phase = "second" /\ Next
      /\ UNCHANGED <<confVars, client, data, phase>>
  BY DEF Translating, Translate
<1>2. LegibleInv'
  BY <1>1, NextLegible
<1>3. dgram' = dgram /\ buflen' = buflen
  BY <1>1 DEF Next, HeaderTooSmall, ReadHeader, ReadEntry, EntryTooLong, SetQuestionType,
              NextRecord, SynthesizeRecord, NoRoom, SendReply
<1>4. CASE Alone
  <2>1. Alone'
    BY <1>1, <1>3, <1>4 DEF Alone, ProperSent, ProperDatagram
  <2>2. QED
    BY <1>1, <1>2, <2>1 DEF Course, Translating
<1>5. CASE Anew
  <2>1. Asked /\ AnsweredAgain /\ Headed
    BY <1>5 DEF Anew
  <2>2. ProperDatagram /\ IInv /\ SentInv
    BY <1>1, <2>1, AgainReadable DEF LegibleInv, ProperInv
  <2>3. Headed'
    BY <1>1, <2>1, <2>2, HeadedNext
  <2>4. UNCHANGED <<conf, at, client, buflen>>
    BY <1>1, <1>3 DEF confVars
  <2>5. Asked' = Asked /\ NativeAsSaid' = NativeAsSaid
    BY <2>4, AskingKept
  <2>6. AnsweredAgain'
    BY <1>3, <2>1, <2>4, <2>5 DEF AnsweredAgain, ClientAsks
  <2>7. QED
    BY <1>1, <1>2, <2>1, <2>3, <2>5, <2>6 DEF Course, Translating, Anew
<1>6. QED
  BY <1>1, <1>4, <1>5

\* Nothing happens.
LEMMA CourseKept ==
  ASSUME Course, UNCHANGED bedVars
  PROVE  Course'
<1>1. UNCHANGED <<conf, at, config, client, data, phase, vars>>
  BY DEF bedVars, confVars
<1>2. /\ IInv' = IInv /\ SentInv' = SentInv /\ LegibleInv' = LegibleInv /\ Headed' = Headed
      /\ ProperSent' = ProperSent
  BY <1>1, PacketKept
<1>3. UNCHANGED <<dgram, buflen, len, bytes, pc>>
  BY <1>1 DEF vars
<1>4. Asked' = Asked /\ NativeAsSaid' = NativeAsSaid
  BY <1>1, <1>3, AskingKept
<1>5. Idle' = Idle /\ Waiting' = Waiting
  BY <1>1, <1>2, <1>3 DEF Idle, Waiting
<1>6. AnsweredOnce' = AnsweredOnce /\ AnsweredAgain' = AnsweredAgain
  BY <1>1, <1>3, <1>4 DEF AnsweredOnce, AnsweredAgain, ClientAsks
<1>7. Served' = Served
  BY <1>1, <1>3, <1>4 DEF Served
<1>8. Odd' = Odd
  BY <1>1 DEF Odd
<1>9. QED
  BY <1>1, <1>2, <1>3, <1>4, <1>5, <1>6, <1>7, <1>8
  DEF Course, Parsing, Passed, Translating, Alone, Anew

\* A client who does not ask properly.
LEMMA OddCourse ==
  ASSUME \/ Odd /\ BedNext
         \/ Idle /\ Waiting /\ Forward /\ ~client.proper
  PROVE  Course'
<1>1. CASE Odd /\ BedNext
  <2>1. CASE Parse \/ PassOn \/ LookUpA \/ Translate
    BY <1>1, <2>1 DEF Odd, Course, Parse, PassOn, LookUpA, Translate
  <2>2. phase # "config" /\ phase # "forward"
    BY <1>1 DEF Odd
  <2>3. QED
    BY <1>1, <2>1, <2>2 DEF BedNext, ReadLine, ClientSends, Ignore, Forward
<1>2. CASE Idle /\ Waiting /\ Forward /\ ~client.proper
  BY <1>2 DEF Waiting, Forward, Odd, Course
<1>3. QED
  BY <1>1, <1>2

\* Each step takes the course on.
LEMMA NextCourse ==
  ASSUME ConfTypes, ModeSaid, Course, [BedNext]_bedVars
  PROVE  Course'
<1>1. CASE UNCHANGED bedVars
  BY <1>1, CourseKept
<1>2. CASE Odd /\ BedNext
  BY <1>2, OddCourse
<1> SUFFICES ASSUME ~Odd, BedNext PROVE Course'
  BY <1>1, <1>2
<1>3. CASE ReadLine \/ (\E q \in TestQueries : ClientSends(q)) \/ Ignore
  <2>1. phase \in {"config", "forward"}
    BY <1>3 DEF ReadLine, ClientSends, Ignore
  <2>2. Idle /\ Waiting
    BY <2>1 DEF Course, Parsing, Passed, Translating
  <2>3. QED
    BY <1>3, <2>2, IdleCourse
<1>4. CASE Forward
  <2>1. Idle /\ Waiting
    BY <1>4 DEF Forward, Course, Parsing, Passed, Translating
  <2>2. QED
    BY <1>4, <2>1, ForwardCourse, OddCourse
<1>5. CASE Parse \/ PassOn \/ LookUpA
  <2>1. Parsing
    BY <1>5 DEF Parse, PassOn, LookUpA, Parsed, Course, Idle, Passed, Translating
  <2>2. QED
    BY <1>5, <2>1, ParseCourse, PassOnCourse, LookUpACourse
<1>6. CASE Translate
  <2>1. Translating
    BY <1>6 DEF Translate, Course, Idle, Passed, Parsing
  <2>2. QED
    BY <1>6, <2>1, TranslateCourse
<1>7. QED
  BY <1>3, <1>4, <1>5, <1>6 DEF BedNext

\* The invariant holds at the start
LEMMA BedInitially == BedInit => BedInv
BY ConfInitially, ModeInitially, StartCourse DEF BedInv

\* and after every step.
LEMMA BedNextInv == BedInv /\ [BedNext]_bedVars => BedInv'
<1> SUFFICES ASSUME BedInv, [BedNext]_bedVars PROVE BedInv'
  OBVIOUS
<1>1. ConfInv /\ ModeSaid /\ Course /\ ConfTypes
  BY DEF BedInv, ConfInv
<1>2. ConfInv' /\ ModeSaid'
  BY <1>1, ConfNext, ModeNext
<1>3. Course'
  BY <1>1, NextCourse
<1>4. QED
  BY <1>2, <1>3 DEF BedInv
-------------------------------------------------------------------------------
(* The properties *)

\* Who replies to a client who asked properly has served it.
LEMMA BedServes == BedInv => ReplyAsConfigured
<1> SUFFICES ASSUME Course, Replied, client.proper PROVE Served
  BY DEF BedInv, ReplyAsConfigured, Served
<1>1. ~Odd
  BY DEF Odd
<1>2. CASE phase = "passed"
  BY <1>1, <1>2 DEF Course, Idle, Parsing, Translating, Passed
<1>3. CASE phase = "second" /\ pc = "sent" /\ client # NoClient
  <2>1. LegibleInv /\ (Alone \/ Anew)
    BY <1>1, <1>3 DEF Course, Idle, Parsing, Translating, Passed
  <2>2. Anew
    BY <1>3, <2>1 DEF Alone
  <2>3. QED
    BY <1>3, <2>1, <2>2, AnewServed
<1>4. QED
  BY <1>2, <1>3 DEF Replied

\* Whatever a client sends who asks for a name that spells an address, in a query that fakedns
\* has room for, whatever is in the configuration file of fakedns and in its buffers and however
\* short those of mtd64-ng are: if there is a reply, the whole query was received, and the
\* client finds the address in the reply as the last have-AAAA line has it, native or
\* synthesized, under the name and the type asked for, in a response with its id.  Nothing is
\* said of a client who asks in another way (see OnlyAskersAnswered).
THEOREM BedReply == BedSpec => []ReplyAsConfigured
<1>1. QED
  BY BedInitially, BedNextInv, BedServes, PTL DEF BedSpec

\* The packet is a proper one of any name server, or an answer of fakedns to a client who asked
\* properly.
OfClient == IF client = NoClient THEN dgram \notin Malformed ELSE client.proper

\* Such a client is not an odd one.
LEMMA NotOdd ==
  ASSUME client = NoClient \/ client.proper
  PROVE  ~Odd
BY TestBedAssumption DEF Odd

\* What the invariant says of that packet.
LEMMA BedPacket ==
  ASSUME BedInv, OfClient
  PROVE  IInv /\ (SentInv \/ pc = "header")
<1>1. Course /\ ConfTypes
  BY DEF BedInv, ConfInv
<1>2. CASE Idle
  BY <1>2 DEF Idle
<1>3. CASE Parsing \/ Passed
  BY <1>3 DEF Parsing, Passed
<1>4. CASE Translating
  <2>1. ProperDatagram
    <3>1. CASE Alone
      BY <3>1 DEF Alone, ProperSent, OfClient
    <3>2. CASE Anew
      BY <3>2, AgainReadable DEF Anew
    <3>3. QED
      BY <1>4, <3>1, <3>2 DEF Translating
  <2>2. QED
    BY <1>4, <2>1 DEF Translating, LegibleInv, ProperInv
<1>5. ~Odd
  BY NotOdd DEF OfClient
<1>6. QED
  BY <1>1, <1>2, <1>3, <1>4, <1>5 DEF Course

\* In the whole course of a query that was asked properly the buffer of the answer is used as
\* one packet after the other, and each keeps inside it and its pointers in their places.  So
\* does any proper datagram of another name server.
THEOREM BedProper == BedSpec => [](OfClient => TypeOK /\ PointersFollow)
<1>1. BedInv => (OfClient => TypeOK /\ PointersFollow)
  BY BedPacket, LayoutFollows DEF IInv, TypeInv
<1>2. QED
  BY <1>1, BedInitially, BedNextInv, PTL DEF BedSpec

\* No answer of fakedns to a proper question is thrown away, and none of another name server
\* that is proper, but for its length or that of its translation; and what is sent is whole.
THEOREM BedSentWhole ==
  BedSpec => [](client = NoClient \/ client.proper => SentWholeIfItFits)
<1>1. BedInv => (client = NoClient \/ client.proper => SentWholeIfItFits)
  BY BedPacket DEF OfClient, SentInv, SentWholeIfItFits
<1>2. QED
  BY <1>1, BedInitially, BedNextInv, PTL DEF BedSpec

\* What is translated means what DNS64 makes of it: any answer of fakedns to a proper question,
\* and any legible one of another name server.
THEOREM BedRecordsKept ==
  BedSpec => []((IF client = NoClient THEN Legible ELSE client.proper) => RecordsKept)
<1>1. ASSUME BedInv, IF client = NoClient THEN Legible ELSE client.proper PROVE RecordsKept
  <2>1. Course /\ ~Odd
    BY <1>1, NotOdd DEF BedInv
  <2>2. SUFFICES ASSUME pc = "sent", ~RdataPointsBehindAddress(Received, Len(dgram))
                 PROVE  SameMeaning
    BY DEF RecordsKept, SameMeaning, Size
  <2>3. Translating
    BY <2>1, <2>2 DEF Course, Idle, Parsing, Passed
  <2>4. Readable
    <3>1. CASE Alone
      BY <1>1, <2>2, <3>1 DEF Alone, ProperSent, Legible, Readable, Size
    <3>2. CASE Anew
      BY <3>2, AgainReadable DEF Anew
    <3>3. QED
      BY <2>3, <3>1, <3>2 DEF Translating
  <2>5. QED
    BY <2>2, <2>3, <2>4 DEF Translating, LegibleInv, MeaningInv
<1>2. QED
  BY <1>1, BedInitially, BedNextInv, PTL DEF BedSpec
===============================================================================
