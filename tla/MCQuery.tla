-------------------------------- MODULE MCQuery --------------------------------
(* Values of the constants of Query for TLC. *)
EXTENDS Query

\* All standard queries that parse, and one datagram of each other sort.
SomeRequests ==
  {d \in ClientDatagrams : d.query /\ d.parses}
    \cup {[query |-> TRUE, qtype |-> "AAAA", parses |-> FALSE, name |-> "v4only"],
          [query |-> FALSE, qtype |-> "AAAA", parses |-> TRUE, name |-> "dual"]}

\* One name, looked up over IPv6.
OneRequest == {[query |-> TRUE, qtype |-> "AAAA", parses |-> TRUE, name |-> "v4only"]}
===============================================================================
