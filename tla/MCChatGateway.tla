---------------------------- MODULE MCChatGateway ----------------------------
(* An instance of ChatGateway for TLC: three messages, in any order.       *)
EXTENDS ChatGateway, TLC

CONSTANTS m1, m2, m3, u1, u2

Talk(i, j, k, u) ==
  (m1 :> [kind |-> i, user |-> u1]) @@
  (m2 :> [kind |-> j, user |-> u1]) @@
  (m3 :> [kind |-> k, user |-> u])

(* One user queries again, stops or resets while tasks run; another user's *)
(* query runs and asks beside a user's tasks.                              *)
Conversations ==
  {Talk("query", "file", k, u1) : k \in {"stop", "reset"}} \cup
  {Talk("query", j, "query", u2) : j \in {"query", "stop", "reset"}}
=============================================================================
