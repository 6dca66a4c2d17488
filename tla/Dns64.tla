--------------------------------- MODULE Dns64 ---------------------------------
(***************************************************************************)
(* What mtd64-ng promises a client, without packets, servers, resends or   *)
(* sockets: a question gets one reply or none.  The reply is what the name *)
(* servers hold; or, to an AAAA question about a name without AAAA records *)
(* (or with servers that failed to say so), AAAA records made from its A   *)
(* records.  Which of the two is settled once, before anything is sent.    *)
(***************************************************************************)

CONSTANTS Questions,   \* the questions clients ask
          NoReply

VARIABLES asked,     \* what each asks for, and what there is under the name
          stage,     \* "asked", "noNative" (it is settled to synthesize) or "closed"
          failed,    \* a server has failed instead of answering the question
          reply

vars == <<asked, stage, failed, reply>>

Init ==
  /\ asked \in [Questions -> [type : {"A", "AAAA"}, name : {"dual", "v4only", "nxdomain"}]]
  /\ stage = [q \in Questions |-> "asked"]
  /\ failed = [q \in Questions |-> FALSE]
  /\ reply = [q \in Questions |-> NoReply]

\* The records a name has; the code that goes with them.
Held(name, type) ==
  CASE name = "dual" -> {type}
    [] name = "v4only" -> {type} \cap {"A"}
    [] name = "nxdomain" -> {}

Code(name) == IF name = "nxdomain" THEN "NXDomain" ELSE "NoError"

\* The reply to q, should the client be reached: sending may fail.
Close(q, r) ==
  /\ stage' = [stage EXCEPT ![q] = "closed"]
  /\ reply' \in {reply, [reply EXCEPT ![q] = r]}
  /\ UNCHANGED asked

Answer(q, code, records) == [question |-> asked[q].type, rcode |-> code, records |-> records]

\* What the servers hold: for AAAA only if that is an address or that there is no such name.
Native(q) ==
  /\ stage[q] = "asked"
  /\ asked[q].type = "AAAA" => asked[q].name # "v4only"
  /\ Close(q, Answer(q, Code(asked[q].name), Held(asked[q].name, asked[q].type)))
  /\ UNCHANGED failed

\* That a server failed is told to who asked for A.
Failure(q) ==
  /\ stage[q] = "asked"
  /\ asked[q].type = "A"
  /\ failed' = [failed EXCEPT ![q] = TRUE]
  /\ Close(q, Answer(q, "ServFail", {}))

NoNative(q) ==
  /\ stage[q] = "asked"
  /\ asked[q].type = "AAAA"
  /\ stage' = [stage EXCEPT ![q] = "noNative"]
  /\ \/ failed' = [failed EXCEPT ![q] = TRUE]
     \/ asked[q].name = "v4only" /\ UNCHANGED failed
  /\ UNCHANGED <<asked, reply>>

\* AAAA records made from the A records, none if a server fails now; or the answer to the
\* AAAA question after all, if it comes late.
Synthesized(q) ==
  LET name == asked[q].name
  IN /\ stage[q] = "noNative"
     /\ \/ Close(q, Answer(q, Code(name), {"synthesized" : t \in Held(name, "A")}))
        \/ Close(q, Answer(q, "ServFail", {}))
        \/ Close(q, Answer(q, Code(name), Held(name, "AAAA")))
     /\ UNCHANGED failed

\* No server answers, or not legibly; or what was asked is not a query.
Silent(q) ==
  /\ stage[q] # "closed"
  /\ stage' = [stage EXCEPT ![q] = "closed"]
  /\ \E f \in BOOLEAN : failed' = [failed EXCEPT ![q] = @ \/ f]
  /\ UNCHANGED <<asked, reply>>

Next ==
  \E q \in Questions :
    Native(q) \/ Failure(q) \/ NoNative(q) \/ Synthesized(q) \/ Silent(q)

Spec == Init /\ [][Next]_vars
===============================================================================
