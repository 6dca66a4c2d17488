------------------------------- MODULE FakeConfig ------------------------------
(***************************************************************************)
(* Server::loadConfig() of fakedns (src/fakedns/server.cpp).  Unlike that  *)
(* of mtd64-ng it reads one file, always to its end, and always succeeds.  *)
(* Comments and unknown keys change nothing and are left out.              *)
(***************************************************************************)
EXTENDS Integers, Sequences, Scanf

CONSTANTS Confs,      \* the configuration files that are considered, sequences of FakeLine
          NoNumber    \* where a number is expected and none is there

\* After the key: how the text begins, and the number it is read as.  The number of a
\* have-AAAA line is counted in hundredths.
FakeLine == [key : {"have-AAAA", "debug", "num-threads", "port"},
             begin : {"1", "0.", "0", "yes", "other"}, num : Int \cup {NoNumber}]

Modes == {"YES", "NO", "PROBABILITY"}

VARIABLES conf,     \* the file
          at,       \* how many of its lines are read
          config    \* the members of Server

vars == <<conf, at, config>>

\* The constructor of Server.  The mode is not initialized, nor is the probability.
Defaults(mode) ==
  [aaaa_mode |-> mode, aaaa_probability |-> NoNumber, num_threads |-> 10, port |-> 53,
   debug |-> FALSE]

Init ==
  /\ conf \in Confs
  /\ at = 0
  /\ \E mode \in Modes : config = Defaults(mode)

\* Bug: an invalid value leaves the mode as it was.
ModeKept(l, mode) ==
  CASE l.begin = "1" -> "YES"
    [] l.begin = "0" -> "NO"
    [] l.begin \notin {"0", "1"} /\ l.num \in 0 .. 100 -> "PROBABILITY"
    [] OTHER -> mode

\* What is not a probability stands for 0.
Mode(l, mode) ==
  CASE l.begin = "1" -> "YES"
    [] l.begin = "0" -> "NO"
    [] l.begin \notin {"0", "1"} /\ l.num \in 0 .. 100 -> "PROBABILITY"
    [] OTHER -> "NO"

\* A number out of range is stored all the same.
HaveAAAA(l) ==
  /\ l.key = "have-AAAA"
  /\ config' = [config EXCEPT
       !.aaaa_mode = Mode(l, @),
       !.aaaa_probability = IF l.begin \in {"0", "1"} \/ l.num = NoNumber THEN @ ELSE l.num]

Debug(l) ==
  /\ l.key = "debug"
  /\ config' = [config EXCEPT !.debug = (l.begin = "yes")]

NumThreads(l) ==
  /\ l.key = "num-threads"
  /\ config' = [config EXCEPT !.num_threads =
                  IF l.num = NoNumber \/ Short(l.num) < 0 THEN 10 ELSE Short(l.num)]

Port(l) ==
  /\ l.key = "port"
  /\ config' = [config EXCEPT !.port = IF l.num = NoNumber THEN 53 ELSE UShort(l.num)]

\* while (fgets(...))
ReadLine ==
  /\ at < Len(conf)
  /\ at' = at + 1
  /\ LET l == conf[at + 1] IN HaveAAAA(l) \/ Debug(l) \/ NumThreads(l) \/ Port(l)
  /\ UNCHANGED conf

Loaded == at = Len(conf)
-------------------------------------------------------------------------------
(* Properties *)

\* The last of the lines read that has key k, if there is one.
LastLines(k) == {i \in 1 .. at : conf[i].key = k /\ \A j \in i + 1 .. at : conf[j].key # k}

\* Line l gives the number v, up to the width of a variable.
SaysNumber(l, v) == l.num # NoNumber /\ (l.num - v) % 65536 = 0

\* The number of threads that l says: 10 if it says none, or one that is stored as a
\* negative one; and the port.
SaysThreads(l, v) ==
  \/ SaysNumber(l, v) /\ v \in 0..ShortMax
  \/ (l.num # NoNumber => l.num % 65536 > ShortMax) /\ v = 10

SaysPort(l, v) ==
  \/ SaysNumber(l, v) /\ v \in 0..UShortMax
  \/ l.num = NoNumber /\ v = 53

\* l leaves it to chance whether there is a AAAA record.
SaysProbability(l) == l.begin \notin {"0", "1"} /\ l.num \in 0..100

\* For each setting the last line decides, by the number that fits the variable, and a
\* line that cannot be read brings the default back: that of have-AAAA is that there are no
\* AAAA records.  A random number is compared with the probability of the line that set the
\* mode, and never with one out of range that another line has left in the variable.
LastFakeLineDecides ==
  /\ \A i \in LastLines("num-threads") : SaysThreads(conf[i], config.num_threads)
  /\ LastLines("num-threads") = {} => config.num_threads = 10
  /\ \A i \in LastLines("port") : SaysPort(conf[i], config.port)
  /\ LastLines("port") = {} => config.port = 53
  /\ \A i \in LastLines("debug") : config.debug = (conf[i].begin = "yes")
  /\ LastLines("debug") = {} => config.debug = FALSE
  /\ \A i \in LastLines("have-AAAA") :
       /\ config.aaaa_mode = "YES" <=> conf[i].begin = "1"
       /\ config.aaaa_mode = "PROBABILITY" <=> SaysProbability(conf[i])
       /\ config.aaaa_mode = "PROBABILITY" => config.aaaa_probability = conf[i].num
===============================================================================
