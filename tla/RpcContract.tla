----------------------------- MODULE RpcContract -----------------------------
(***************************************************************************)
(* What a page is entitled to expect of the pair                           *)
(*     await Service.request(data) ; let API = apiHelper.getAPI()          *)
(* written in every page: each call comes back exactly once, with the      *)
(* outcome the network brought for that very call.  How the pages get it,  *)
(* through three global variables shared by all calls, is ApiHelper.       *)
(***************************************************************************)
CONSTANTS Call,      \* the requests the application makes in one life
          Answer,    \* the answers the server may give
          Failed,    \* what a page is told when the request failed
          NoAnswer   \* no outcome yet

VARIABLES stage,     \* stage[c]: how far call c has come
          answer,    \* answer[c]: the outcome the network brought for c
          result     \* result[c]: what the page that made call c was told

vars == <<stage, answer, result>>

Outcome == Answer \cup {Failed}

Init == /\ stage = [c \in Call |-> "idle"]
        /\ answer = [c \in Call |-> NoAnswer]
        /\ result = [c \in Call |-> NoAnswer]

\* The page makes the call.
Begin(c) == /\ stage[c] = "idle"
            /\ stage' = [stage EXCEPT ![c] = "waiting"]
            /\ UNCHANGED <<answer, result>>

\* The network has brought the whole answer, or has given up.
Settle(c, a) == /\ stage[c] = "waiting"
                /\ stage' = [stage EXCEPT ![c] = "settled"]
                /\ answer' = [answer EXCEPT ![c] = a]
                /\ UNCHANGED result

\* The page goes on, holding the outcome of its own call.
Return(c) == /\ stage[c] = "settled"
             /\ stage' = [stage EXCEPT ![c] = "returned"]
             /\ result' = [result EXCEPT ![c] = answer[c]]
             /\ UNCHANGED answer

Next == \E c \in Call : \/ Begin(c)
                        \/ \E a \in Outcome : Settle(c, a)
                        \/ Return(c)

Spec == Init /\ [][Next]_vars
==============================================================================
