------------------------------ MODULE ApiHelper ------------------------------
(***************************************************************************)
(* src/common/apiHelper.js and the services above it.                      *)
(*                                                                         *)
(* Every request of the application reports through three globals (status, *)
(* result_kind, result), here one `register`: fetch_POST_URL and           *)
(* fetch_GET_URL write it when the answer is there, and the page reads it  *)
(* with getAPI() once its awaits have returned.  Between the write and the *)
(* read lie several promise continuations, and any number of calls may be  *)
(* in flight.  What keeps a page from reading another call's answer is the *)
(* event loop, so the event loop is modelled:                              *)
(*  - continuations run in the order in which they became ready (`queue`); *)
(*  - a native event (a body that has been read) is handled only when the  *)
(*    queue is empty;                                                      *)
(*  - timers that are due run in one batch before the continuations they   *)
(*    release; `fetch` settles its promise in a timer, so several requests *)
(*    may fail, or see their headers, in the same batch.                   *)
(***************************************************************************)
EXTENDS Sequences, Naturals

CONSTANTS Call, Answer, Failed, NoAnswer

ASSUME DistinctOutcomes == /\ Failed \notin Answer
                           /\ NoAnswer \notin Answer \cup {Failed}

VARIABLES phase,      \* phase[c]: where the request of call c is
          queue,      \* the continuations that are ready, oldest first
          inTimers,   \* the event loop is still running a batch of timers
          register,   \* the globals status, result_kind and result
          answer,     \* answer[c]: the outcome the network brought for c
          result      \* result[c]: what getAPI() returned to c's page

vars == <<phase, queue, inTimers, register, answer, result>>

Outcome == Answer \cup {Failed}

Phases == {"idle", "sent", "headers", "reading", "settled", "returned"}

\* The steps of a call's chain of continuations: response.json(); the .then
\* that writes the globals; the .catch, which a success passes and which a
\* failure reaches past the two .then's; the return of the helper, of the
\* service function, and the page's getAPI().
Steps == {"json", "store", "pass", "skipJson", "skipStore", "catch",
          "helper", "service", "page"}

Continuation == [call : Call, step : Steps]

\* The steps of a chain that has written the register.
Written == {"pass", "helper", "service", "page"}

\* Mutant: the service calls the helper without awaiting it.
FollowedByNoAwait == [pass     |-> "helper",  skipJson |-> "page",
                      skipStore |-> "catch",  helper   |-> "service",
                      service  |-> "page"]

FollowedBy == [pass     |-> "helper",  skipJson |-> "skipStore",
               skipStore |-> "catch",  helper   |-> "service",
               service  |-> "page"]

TypeOK == /\ phase \in [Call -> Phases]
          /\ queue \in Seq(Continuation)
          /\ inTimers \in BOOLEAN
          /\ register \in Outcome \cup {NoAnswer}
          /\ answer \in [Call -> Outcome \cup {NoAnswer}]
          /\ result \in [Call -> Outcome \cup {NoAnswer}]

Init == /\ phase = [c \in Call |-> "idle"]
        /\ queue = <<>>
        /\ inTimers = FALSE
        /\ register = NoAnswer
        /\ answer = [c \in Call |-> NoAnswer]
        /\ result = [c \in Call |-> NoAnswer]
------------------------------------------------------------------------------
\* A handler, or the continuation of an earlier call, calls a service.
Fetch(c) == /\ phase[c] = "idle"
            /\ phase' = [phase EXCEPT ![c] = "sent"]
            /\ UNCHANGED <<queue, inTimers, register, answer, result>>

\* c's promise is settled: its first continuation becomes ready.
Ready(c, step) == queue' = Append(queue, [call |-> c, step |-> step])

\* The timer that resolves fetch's promise: status and headers are there.
HeadersArrive(c) == /\ phase[c] = "sent"
                    /\ queue = <<>> \/ inTimers
                    /\ phase' = [phase EXCEPT ![c] = "headers"]
                    /\ inTimers' = TRUE
                    /\ Ready(c, "json")
                    /\ UNCHANGED <<register, answer, result>>

\* The timer that rejects fetch's promise: the request could not be sent or
\* the connection was lost before the headers.
RequestFails(c) == /\ phase[c] = "sent"
                   /\ queue = <<>> \/ inTimers
                   /\ phase' = [phase EXCEPT ![c] = "settled"]
                   /\ answer' = [answer EXCEPT ![c] = Failed]
                   /\ inTimers' = TRUE
                   /\ Ready(c, "skipJson")
                   /\ UNCHANGED <<register, result>>

\* Mutant: the native event is handled while continuations are waiting.
BodyArrivesAnyTime(c, a) == /\ phase[c] = "reading"
                            /\ phase' = [phase EXCEPT ![c] = "settled"]
                            /\ answer' = [answer EXCEPT ![c] = a]
                            /\ Ready(c, "store")
                            /\ UNCHANGED <<inTimers, register, result>>

\* The native event that delivers the body, which parses.
BodyArrives(c, a) == /\ phase[c] = "reading"
                     /\ queue = <<>>
                     /\ phase' = [phase EXCEPT ![c] = "settled"]
                     /\ answer' = [answer EXCEPT ![c] = a]
                     /\ Ready(c, "store")
                     /\ UNCHANGED <<inTimers, register, result>>

\* The body cannot be read, or is not JSON.
BodyBroken(c) == /\ phase[c] = "reading"
                 /\ queue = <<>>
                 /\ phase' = [phase EXCEPT ![c] = "settled"]
                 /\ answer' = [answer EXCEPT ![c] = Failed]
                 /\ Ready(c, "skipStore")
                 /\ UNCHANGED <<inTimers, register, result>>
------------------------------------------------------------------------------
\* The batch of timers is over and c's continuation `step` is the next to run.
Runs(c, step) == /\ queue # <<>>
                 /\ Head(queue) = [call |-> c, step |-> step]
                 /\ inTimers' = FALSE

\* The chain of c goes on at the end of the queue.
GoesOn(c, step) == queue' = Append(Tail(queue), [call |-> c, step |-> step])

\* (response) => response.json(): the body is asked for.
AskBody(c) == /\ Runs(c, "json")
              /\ queue' = Tail(queue)
              /\ phase' = [phase EXCEPT ![c] = "reading"]
              /\ UNCHANGED <<register, answer, result>>

\* Mutant: the .then copies the wrong object, not an answer.
StoreAnswerWrong(c) == /\ Runs(c, "store")
                       /\ register' = c
                       /\ GoesOn(c, "pass")
                       /\ UNCHANGED <<phase, answer, result>>

\* The .then that copies status, result_kind and result into the globals.
StoreAnswer(c) == /\ Runs(c, "store")
                  /\ register' = answer[c]
                  /\ GoesOn(c, "pass")
                  /\ UNCHANGED <<phase, answer, result>>

\* The .catch that writes 404 and "ERROR" into the globals.
StoreFailure(c) == /\ Runs(c, "catch")
                   /\ register' = Failed
                   /\ GoesOn(c, "helper")
                   /\ UNCHANGED <<phase, answer, result>>

\* Mutant: a promise of the chain is never resolved.
HandOverLost(c) == \E step \in DOMAIN FollowedBy :
                      /\ Runs(c, step)
                      /\ queue' = Tail(queue)
                      /\ UNCHANGED <<phase, register, answer, result>>

\* A step that only hands over to the next one: a .then or .catch that does
\* not apply, and the awaits of the helper and of the service.
HandOver(c) == \E step \in DOMAIN FollowedBy :
                  /\ Runs(c, step)
                  /\ GoesOn(c, FollowedBy[step])
                  /\ UNCHANGED <<phase, register, answer, result>>

\* The page goes on and reads the globals with getAPI().
GetAPI(c) == /\ Runs(c, "page")
             /\ queue' = Tail(queue)
             /\ phase' = [phase EXCEPT ![c] = "returned"]
             /\ result' = [result EXCEPT ![c] = register]
             /\ UNCHANGED <<register, answer>>

Event(c) == \/ HeadersArrive(c)
            \/ RequestFails(c)
            \/ \E a \in Answer : BodyArrives(c, a)
            \/ BodyBroken(c)

Microtask(c) == \/ AskBody(c)
                \/ StoreAnswer(c)
                \/ StoreFailure(c)
                \/ HandOver(c)
                \/ GetAPI(c)

Next == \E c \in Call : Fetch(c) \/ Event(c) \/ Microtask(c)

Spec == Init /\ [][Next]_vars

\* The event loop runs every continuation that is ready.  Nothing is assumed
\* of the user or of the network.
FairSpec == Spec /\ WF_vars(\E c \in Call : Microtask(c))
------------------------------------------------------------------------------
(* Properties *)

\* The status and result a page handles are those of the request it made
\* itself, whatever other requests were answered or failed meanwhile (the
\* pages' `await Service...` followed by `getAPI()`).
OwnAnswer == \A c \in Call : phase[c] = "returned" => result[c] = answer[c]

\* A continuation in the queue belongs to a call that is waiting for it, and a
\* chain on its way to the .catch, to a call that failed.
QueueMatchesPhase ==
    \A i \in 1..Len(queue) :
       /\ phase[queue[i].call] = IF queue[i].step = "json" THEN "headers" ELSE "settled"
       /\ queue[i].step # "json" => answer[queue[i].call] \in Outcome
       /\ queue[i].step \in {"skipJson", "skipStore", "catch"} => answer[queue[i].call] = Failed
       /\ \A j \in 1..Len(queue) : queue[i].call = queue[j].call => i = j

\* While timers run, the queue holds only what timers released.
TimersReleaseOnly ==
    inTimers => /\ queue # <<>>
                /\ \A i \in 1..Len(queue) : queue[i].step \in {"json", "skipJson"}

\* A chain that carries an answer of the server has the queue for itself, from
\* the event that delivered the body to the page's getAPI().
SuccessRunsAlone ==
    \A i \in 1..Len(queue) :
       queue[i].step # "json" /\ answer[queue[i].call] # Failed => Len(queue) = 1

\* Between a chain's write of the globals and its page's read, the globals
\* hold the outcome of that chain's call.
RegisterIsOwn ==
    \A i \in 1..Len(queue) : queue[i].step \in Written => register = answer[queue[i].call]

IndInv == /\ TypeOK
          /\ QueueMatchesPhase
          /\ TimersReleaseOnly
          /\ SuccessRunsAlone
          /\ RegisterIsOwn
          /\ OwnAnswer

\* Once the network has delivered or given up, the page is resumed.
SettledReturns == \A c \in Call : phase[c] = "settled" ~> phase[c] = "returned"

\* The refinement mapping: a call waits until its body, or its failure, is there.
ContractStage ==
    [c \in Call |-> IF phase[c] \in {"sent", "headers", "reading"} THEN "waiting" ELSE phase[c]]

Contract == INSTANCE RpcContract WITH stage <- ContractStage

\* The shared globals implement a private answer per call.
ImplementsContract == Contract!Spec
==============================================================================
