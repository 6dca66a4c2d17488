---------------------------- MODULE MCServerConfig ----------------------------
(* Values of the constants of ServerConfig for TLC. *)
EXTENDS ServerConfig

Word(k, w) == [key |-> k, word |-> w, num |-> 0, frac |-> 0, digits |-> 0]
Number(k, n) == [key |-> k, word |-> "number", num |-> n, frac |-> 0, digits |-> 0]
Decimal(n, f, d) ==
  [key |-> "timeout-time", word |-> "decimal", num |-> n, frac |-> f, digits |-> d]
Prefix(w, n) == [key |-> "dns64-prefix", word |-> w, num |-> n, frac |-> 0, digits |-> 0]

\* On either side of the limits of a short int, of its wrapping and of no number.
Limits == {-1, 0, 32767, 32768, 65538}

SomeConfLines ==
  {Word("nameserver", w) : w \in {"8.8.8.8", "8.8.4.4", "invalid", "default"}}
    \cup {Word("selection-mode", w) : w \in {"random", "round-robin", "other"}}
    \cup {Prefix("address", n) : n \in ValidPrefixes \cup {33, 288}}
    \cup {Prefix("noaddress", 96), Prefix("nolength", 0)}
    \cup {Word("debugging", w) : w \in {"yes", "no"}}
    \cup {Decimal(2, 500000, 6), Decimal(1, 35, 2), Decimal(32768, 0, 1),
           Word("timeout-time", "invalid")}
    \cup {Number("resend-attempts", n) : n \in Limits}
    \cup {Number("num-threads", n) : n \in Limits}
    \cup {Number("response-maxlength", n) : n \in Limits}
    \cup {Number("port", n) : n \in {53, 65536}}
    \cup {Word(k, "invalid") : k \in {"resend-attempts", "num-threads", "response-maxlength", "port"}}

\* /etc/resolv.conf has servers; the rest is what its author did not mean for us.
SomeResolvLines ==
  {Word("nameserver", w) : w \in {"192.0.2.1", "invalid"}}
    \cup {Prefix("address", 64), Prefix("noaddress", 40), Number("num-threads", 4)}
===============================================================================
