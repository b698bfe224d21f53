----------------------------- MODULE RemoteCall -----------------------------
(***************************************************************************)
(* What a request over UDP promises to the code that awaits it: it settles *)
(* at most once, and it succeeds only after the other node has carried the *)
(* request out.  A failure says nothing: the request may have been carried *)
(* out, may be carried out later, or never.                                *)
(***************************************************************************)
CONSTANT Calls

VARIABLES
  status,    \* of each call: "unused", "pending", "resolved", "rejected"
  executed   \* the calls that have been carried out at least once

Init ==
  /\ status = [c \in Calls |-> "unused"]
  /\ executed = {}

(* Several calls are made at once: sendManyUdp.                            *)
Invoke(C) ==
  /\ \A c \in C : status[c] = "unused"
  /\ status' = [c \in Calls |-> IF c \in C THEN "pending" ELSE status[c]]
  /\ UNCHANGED executed

Execute(c) ==
  /\ status[c] # "unused"
  /\ executed' = executed \cup {c}
  /\ UNCHANGED status

Succeed(c) ==
  /\ status[c] = "pending"
  /\ c \in executed
  /\ status' = [status EXCEPT ![c] = "resolved"]
  /\ UNCHANGED executed

Fail(c) ==
  /\ status[c] = "pending"
  /\ status' = [status EXCEPT ![c] = "rejected"]
  /\ UNCHANGED executed

Next ==
  \/ \E C \in SUBSET Calls : Invoke(C)
  \/ \E c \in Calls : Execute(c) \/ Succeed(c) \/ Fail(c)

Spec == Init /\ [][Next]_<<status, executed>>

=============================================================================
