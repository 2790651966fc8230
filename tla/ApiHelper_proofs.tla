--------------------------- MODULE ApiHelper_proofs ---------------------------
(***************************************************************************)
(* For any set of calls and any set of answers: IndInv is an inductive     *)
(* invariant of ApiHelper, so every page reads its own answer, and the     *)
(* shared globals implement RpcContract.                                   *)
(***************************************************************************)
EXTENDS ApiHelper, SequenceTheorems, TLAPS

\* The queue after a continuation has become ready.
LEMMA AppendElements ==
    ASSUME NEW S, NEW s \in Seq(S), NEW e \in S
    PROVE  /\ Append(s, e) \in Seq(S)
           /\ Len(Append(s, e)) = Len(s) + 1
           /\ \A i \in 1..Len(s) : Append(s, e)[i] = s[i]
           /\ Append(s, e)[Len(s) + 1] = e
  OBVIOUS

\* The queue after its first continuation has run.
LEMMA TailElements ==
    ASSUME NEW S, NEW s \in Seq(S), s # <<>>
    PROVE  /\ Tail(s) \in Seq(S)
           /\ Len(s) \in Nat
           /\ Len(s) >= 1
           /\ Len(Tail(s)) = Len(s) - 1
           /\ \A i \in 1..(Len(s) - 1) : Tail(s)[i] = s[i + 1]
           /\ Head(s) = s[1]
  BY HeadTailProperties, EmptySeq

\* The queue after its first continuation has handed over to the next one.
LEMMA RotateElements ==
    ASSUME NEW S, NEW s \in Seq(S), s # <<>>, NEW e \in S
    PROVE  /\ Append(Tail(s), e) \in Seq(S)
           /\ Len(Append(Tail(s), e)) = Len(s)
           /\ \A i \in 1..(Len(s) - 1) : Append(Tail(s), e)[i] = s[i + 1]
           /\ Append(Tail(s), e)[Len(s)] = e
  <1>1. /\ Tail(s) \in Seq(S)
        /\ Len(s) \in Nat
        /\ Len(s) >= 1
        /\ Len(Tail(s)) = Len(s) - 1
        /\ \A i \in 1..(Len(s) - 1) : Tail(s)[i] = s[i + 1]
    BY TailElements
  <1>2. /\ Append(Tail(s), e) \in Seq(S)
        /\ Len(Append(Tail(s), e)) = Len(Tail(s)) + 1
        /\ \A i \in 1..Len(Tail(s)) : Append(Tail(s), e)[i] = Tail(s)[i]
        /\ Append(Tail(s), e)[Len(Tail(s)) + 1] = e
    BY <1>1, AppendElements
  <1> QED BY <1>1, <1>2

LEMMA InitIndInv == Init => IndInv
  <1> SUFFICES ASSUME Init PROVE IndInv
    OBVIOUS
  <1>1. queue = <<>> /\ Len(queue) = 0 /\ queue \in Seq(Continuation)
    BY EmptySeq DEF Init
  <1>2. TypeOK
    BY <1>1 DEF Init, TypeOK, Phases
  <1>3. QueueMatchesPhase /\ SuccessRunsAlone /\ RegisterIsOwn
    BY <1>1 DEF QueueMatchesPhase, SuccessRunsAlone, RegisterIsOwn
  <1>4. TimersReleaseOnly /\ OwnAnswer
    BY DEF Init, TimersReleaseOnly, OwnAnswer
  <1> QED BY <1>2, <1>3, <1>4 DEF IndInv

\* An event that makes the first continuation of a waiting call ready.
LEMMA EventIndInv ==
    ASSUME IndInv, NEW c \in Call, Event(c)
    PROVE  IndInv'
  <1> USE DEF IndInv
  <1>t. queue \in Seq(Continuation) /\ Len(queue) \in Nat
    BY DEF TypeOK
  <1>e. queue = <<>> => Len(queue) = 0
    OBVIOUS
  <1>1. CASE HeadersArrive(c)
    <2> DEFINE k == [call |-> c, step |-> "json"]
    <2>1. k \in Continuation /\ queue' = Append(queue, k)
      BY <1>1 DEF HeadersArrive, Ready, Continuation, Steps
    <2>2. /\ queue' \in Seq(Continuation)
          /\ Len(queue') = Len(queue) + 1
          /\ \A i \in 1..Len(queue) : queue'[i] = queue[i]
          /\ queue'[Len(queue) + 1] = k
      BY <1>t, <2>1, AppendElements
    <2>3. \A i \in 1..Len(queue) : queue[i].step \in {"json", "skipJson"} /\ queue[i] \in Continuation
      BY <1>1, <1>t, <1>e DEF HeadersArrive, TimersReleaseOnly
    <2>4. \A i \in 1..Len(queue) : queue[i].call # c
      BY <1>1, <1>t DEF HeadersArrive, QueueMatchesPhase
    <2>5. TypeOK'
      BY <1>1, <2>2 DEF HeadersArrive, TypeOK, Phases
    <2>6. QueueMatchesPhase'
      <3>1. phase'[c] = "headers" /\ \A d \in Call \ {c} : phase'[d] = phase[d]
        BY <1>1 DEF HeadersArrive, TypeOK
      <3>2. answer' = answer
        BY <1>1 DEF HeadersArrive
      <3> SUFFICES ASSUME NEW i \in 1..Len(queue'), NEW j \in 1..Len(queue')
                 PROVE  /\ phase'[queue'[i].call] = IF queue'[i].step = "json" THEN "headers" ELSE "settled"
                        /\ queue'[i].step # "json" => answer'[queue'[i].call] \in Outcome
                        /\ queue'[i].step \in {"skipJson", "skipStore", "catch"} => answer'[queue'[i].call] = Failed
                        /\ queue'[i].call = queue'[j].call => i = j
        BY DEF QueueMatchesPhase, Outcome
      <3>3. \A n \in 1..Len(queue) : queue'[n] = queue[n] /\ queue[n].call \in Call \ {c}
        BY <2>2, <2>3, <2>4 DEF Continuation
      <3>4. queue'[i].call = queue'[j].call => i = j
        BY <1>t, <2>2, <3>3 DEF QueueMatchesPhase
      <3>5. CASE i = Len(queue) + 1
        BY <2>2, <3>1, <3>4, <3>5
      <3>6. CASE i # Len(queue) + 1
        <4>1. i \in 1..Len(queue)
          BY <1>t, <2>2, <3>6
        <4> QED BY <3>1, <3>2, <3>3, <3>4, <4>1 DEF QueueMatchesPhase
      <3> QED BY <3>5, <3>6
    <2>i. \A i \in 1..Len(queue') : queue'[i].step \in {"json", "skipJson"}
      BY <1>t, <2>2, <2>3
    <2>7. TimersReleaseOnly' /\ RegisterIsOwn'
      <3>1. queue' # <<>>
        BY <1>t, <2>2
      <3> QED BY <2>i, <3>1 DEF TimersReleaseOnly, RegisterIsOwn, Written
    <2>8. SuccessRunsAlone'
      BY <1>1, <1>t, <2>2, <2>3 DEF HeadersArrive, SuccessRunsAlone, QueueMatchesPhase
    <2>9. OwnAnswer'
      BY <1>1 DEF HeadersArrive, OwnAnswer, TypeOK
    <2> QED BY <2>5, <2>6, <2>7, <2>8, <2>9
  <1>2. CASE RequestFails(c)
    <2> DEFINE k == [call |-> c, step |-> "skipJson"]
    <2>1. k \in Continuation /\ queue' = Append(queue, k)
      BY <1>2 DEF RequestFails, Ready, Continuation, Steps
    <2>2. /\ queue' \in Seq(Continuation)
          /\ Len(queue') = Len(queue) + 1
          /\ \A i \in 1..Len(queue) : queue'[i] = queue[i]
          /\ queue'[Len(queue) + 1] = k
      BY <1>t, <2>1, AppendElements
    <2>3. \A i \in 1..Len(queue) : queue[i].step \in {"json", "skipJson"} /\ queue[i] \in Continuation
      BY <1>2, <1>t, <1>e DEF RequestFails, TimersReleaseOnly
    <2>4. \A i \in 1..Len(queue) : queue[i].call # c
      BY <1>2, <1>t DEF RequestFails, QueueMatchesPhase
    <2>5. TypeOK'
      BY <1>2, <2>2 DEF RequestFails, TypeOK, Phases, Outcome
    <2>6. QueueMatchesPhase'
      BY <1>2, <1>t, <2>2, <2>3, <2>4 DEF RequestFails, QueueMatchesPhase, TypeOK, Continuation, Outcome
    <2>i. \A i \in 1..Len(queue') : queue'[i].step \in {"json", "skipJson"}
      BY <1>t, <2>2, <2>3
    <2>7. TimersReleaseOnly' /\ RegisterIsOwn'
      <3>1. queue' # <<>>
        BY <1>t, <2>2
      <3> QED BY <2>i, <3>1 DEF TimersReleaseOnly, RegisterIsOwn, Written
    <2>8. SuccessRunsAlone'
      BY <1>2, <1>t, <2>2, <2>3, <2>4 DEF RequestFails, SuccessRunsAlone, QueueMatchesPhase, TypeOK, Continuation
    <2>9. OwnAnswer'
      BY <1>2 DEF RequestFails, OwnAnswer, TypeOK
    <2> QED BY <2>5, <2>6, <2>7, <2>8, <2>9
  <1>3. ASSUME NEW a \in Answer, BodyArrives(c, a)
        PROVE  IndInv'
    <2> DEFINE k == [call |-> c, step |-> "store"]
    <2>1. k \in Continuation /\ queue' = Append(queue, k) /\ queue = <<>>
      BY <1>3 DEF BodyArrives, Ready, Continuation, Steps
    <2>2. queue' \in Seq(Continuation) /\ Len(queue') = 1 /\ queue'[1] = k
      BY <1>t, <1>e, <2>1, AppendElements
    <2>3. TypeOK'
      BY <1>3, <2>2 DEF BodyArrives, TypeOK, Phases, Outcome
    <2>4. QueueMatchesPhase'
      BY <1>3, <2>2 DEF BodyArrives, QueueMatchesPhase, TypeOK, Outcome
    <2>5. TimersReleaseOnly' /\ SuccessRunsAlone' /\ RegisterIsOwn'
      BY <1>3, <2>1, <2>2 DEF BodyArrives, TimersReleaseOnly, SuccessRunsAlone, RegisterIsOwn, Written
    <2>6. OwnAnswer'
      BY <1>3 DEF BodyArrives, OwnAnswer, TypeOK
    <2> QED BY <2>3, <2>4, <2>5, <2>6
  <1>4. CASE BodyBroken(c)
    <2> DEFINE k == [call |-> c, step |-> "skipStore"]
    <2>1. k \in Continuation /\ queue' = Append(queue, k) /\ queue = <<>>
      BY <1>4 DEF BodyBroken, Ready, Continuation, Steps
    <2>2. queue' \in Seq(Continuation) /\ Len(queue') = 1 /\ queue'[1] = k
      BY <1>t, <1>e, <2>1, AppendElements
    <2>3. TypeOK'
      BY <1>4, <2>2 DEF BodyBroken, TypeOK, Phases, Outcome
    <2>4. QueueMatchesPhase'
      BY <1>4, <2>2 DEF BodyBroken, QueueMatchesPhase, TypeOK, Outcome
    <2>5. TimersReleaseOnly' /\ SuccessRunsAlone' /\ RegisterIsOwn'
      BY <1>4, <2>1, <2>2 DEF BodyBroken, TimersReleaseOnly, SuccessRunsAlone, RegisterIsOwn, Written
    <2>6. OwnAnswer'
      BY <1>4 DEF BodyBroken, OwnAnswer, TypeOK
    <2> QED BY <2>3, <2>4, <2>5, <2>6
  <1> QED BY <1>1, <1>2, <1>3, <1>4 DEF Event

\* A continuation that leaves the queue without a successor of its chain.
LEMMA LeaveIndInv ==
    ASSUME IndInv, NEW c \in Call, AskBody(c) \/ GetAPI(c)
    PROVE  IndInv'
  <1> USE DEF IndInv
  <1>t. queue \in Seq(Continuation) /\ queue # <<>>
    BY DEF TypeOK, AskBody, GetAPI, Runs
  <1>q. /\ queue' \in Seq(Continuation)
        /\ Len(queue) \in Nat
        /\ Len(queue) >= 1
        /\ Len(queue') = Len(queue) - 1
        /\ \A i \in 1..(Len(queue) - 1) : queue'[i] = queue[i + 1]
        /\ Head(queue) = queue[1]
    <2>1. queue' = Tail(queue)
      BY DEF AskBody, GetAPI
    <2> QED BY <1>t, <2>1, TailElements
  <1>h. queue[1].call = c /\ inTimers' = FALSE /\ answer' = answer /\ register' = register
    BY <1>q DEF AskBody, GetAPI, Runs
  <1>o. \A i \in 1..(Len(queue) - 1) : queue[i + 1].call # c
    BY <1>q, <1>h DEF QueueMatchesPhase
  <1>p. /\ phase' = [phase EXCEPT ![c] = IF AskBody(c) THEN "reading" ELSE "returned"]
        /\ \A d \in Call \ {c} : result'[d] = result[d]
    BY DEF AskBody, GetAPI, TypeOK, Runs
  <1>1. TypeOK'
    <2>1. register \in Outcome \cup {NoAnswer}
      BY DEF TypeOK
    <2> QED BY <1>q, <2>1 DEF TypeOK, Phases, AskBody, GetAPI, Runs
  <1>2. QueueMatchesPhase'
    <2> SUFFICES ASSUME NEW i \in 1..Len(queue')
                 PROVE  /\ phase'[queue'[i].call] = IF queue'[i].step = "json" THEN "headers" ELSE "settled"
                        /\ queue'[i].step # "json" => answer'[queue'[i].call] \in Outcome
                        /\ queue'[i].step \in {"skipJson", "skipStore", "catch"} => answer'[queue'[i].call] = Failed
                        /\ \A j \in 1..Len(queue') : queue'[i].call = queue'[j].call => i = j
      BY DEF QueueMatchesPhase, Outcome
    <2>1. i + 1 \in 1..Len(queue) /\ queue'[i] = queue[i + 1] /\ queue[i + 1] \in Continuation
      BY <1>t, <1>q
    <2>2. phase'[queue'[i].call] = phase[queue'[i].call]
      BY <1>o, <1>p, <1>q, <2>1 DEF TypeOK, Continuation
    <2>3. \A j \in 1..Len(queue') : queue'[i].call = queue'[j].call => i = j
      BY <1>q, <2>1 DEF QueueMatchesPhase
    <2> QED BY <1>h, <2>1, <2>2, <2>3 DEF QueueMatchesPhase
  <1>3. TimersReleaseOnly' /\ SuccessRunsAlone' /\ RegisterIsOwn'
    BY <1>q, <1>h DEF TimersReleaseOnly, SuccessRunsAlone, RegisterIsOwn
  <1>4. OwnAnswer'
    <2>1. GetAPI(c) => result'[c] = answer[c]
      BY <1>q DEF GetAPI, Runs, RegisterIsOwn, Written, TypeOK
    <2>2. AskBody(c) => phase'[c] # "returned"
      BY DEF AskBody, TypeOK
    <2>3. \A d \in Call \ {c} : phase'[d] = phase[d]
      BY <1>p DEF TypeOK
    <2> QED BY <1>h, <1>p, <2>1, <2>2, <2>3 DEF OwnAnswer
  <1> QED BY <1>1, <1>2, <1>3, <1>4

\* A continuation whose chain goes on at the end of the queue.
LEMMA RotateIndInv ==
    ASSUME IndInv, NEW c \in Call, StoreAnswer(c) \/ StoreFailure(c) \/ HandOver(c)
    PROVE  IndInv'
  <1> USE DEF IndInv
  <1>1. PICK step \in Steps \ {"json", "page"}, next \in Steps \ {"json"} :
           /\ Runs(c, step)
           /\ GoesOn(c, next)
           /\ UNCHANGED <<phase, answer, result>>
           /\ register' = CASE step = "store" -> answer[c]
                            [] step = "catch" -> Failed
                            [] OTHER          -> register
           /\ next \in {"skipJson", "skipStore", "catch"} => step \in {"skipJson", "skipStore"}
           /\ next \in Written => step \in Written \cup {"store", "catch"}
    <2>1. CASE StoreAnswer(c)
      BY <2>1 DEF StoreAnswer, Steps, Written
    <2>2. CASE StoreFailure(c)
      BY <2>2 DEF StoreFailure, Steps, Written
    <2>3. CASE HandOver(c)
      <3>1. PICK step \in DOMAIN FollowedBy :
               /\ Runs(c, step)
               /\ GoesOn(c, FollowedBy[step])
               /\ UNCHANGED <<phase, register, answer, result>>
        BY <2>3 DEF HandOver
      <3>2. step \in {"pass", "skipJson", "skipStore", "helper", "service"}
        BY <3>1 DEF FollowedBy
      <3>3. FollowedBy[step] = CASE step = "pass"      -> "helper"
                                 [] step = "skipJson"  -> "skipStore"
                                 [] step = "skipStore" -> "catch"
                                 [] step = "helper"    -> "service"
                                 [] step = "service"   -> "page"
        BY <3>2 DEF FollowedBy
      <3> QED BY <3>1, <3>2, <3>3 DEF Steps, Written
    <2> QED BY <2>1, <2>2, <2>3
  <1> DEFINE k == [call |-> c, step |-> next]
  <1>t. /\ queue \in Seq(Continuation)
        /\ queue # <<>>
        /\ k \in Continuation
        /\ queue' = Append(Tail(queue), k)
    BY <1>1 DEF TypeOK, Runs, GoesOn, Continuation
  <1>h. /\ Len(queue) \in Nat
        /\ Len(queue) >= 1
        /\ queue[1] = [call |-> c, step |-> step]
    BY <1>1, <1>t, TailElements DEF Runs
  <1>q. /\ queue' \in Seq(Continuation)
        /\ Len(queue') = Len(queue)
        /\ \A i \in 1..(Len(queue) - 1) : queue'[i] = queue[i + 1]
        /\ queue'[Len(queue)] = k
    BY <1>t, RotateElements
  <1>o. \A i \in 1..(Len(queue) - 1) : /\ i + 1 \in 1..Len(queue)
                                       /\ queue[i + 1] \in Continuation
                                       /\ queue[i + 1].call # c
    BY <1>t, <1>h DEF QueueMatchesPhase
  <1>s. /\ phase[c] = "settled"
        /\ answer[c] \in Outcome
        /\ step \in {"skipJson", "skipStore", "catch"} => answer[c] = Failed
        /\ answer[c] # Failed => Len(queue) = 1
        /\ step \in Written => register = answer[c]
    BY <1>h DEF QueueMatchesPhase, SuccessRunsAlone, RegisterIsOwn
  <1>2. TypeOK'
    BY <1>1, <1>q, <1>s DEF TypeOK, Runs, Outcome
  <1>3. QueueMatchesPhase'
    <2> SUFFICES ASSUME NEW i \in 1..Len(queue'), NEW j \in 1..Len(queue')
                 PROVE  /\ phase'[queue'[i].call] = IF queue'[i].step = "json" THEN "headers" ELSE "settled"
                        /\ queue'[i].step # "json" => answer'[queue'[i].call] \in Outcome
                        /\ queue'[i].step \in {"skipJson", "skipStore", "catch"} => answer'[queue'[i].call] = Failed
                        /\ queue'[i].call = queue'[j].call => i = j
      BY DEF QueueMatchesPhase, Outcome
    <2>1. ASSUME NEW n \in 1..(Len(queue) - 1)
          PROVE  /\ queue'[n] = queue[n + 1]
                 /\ n + 1 \in 1..Len(queue)
                 /\ queue[n + 1].call # c
      BY <1>q, <1>o
    <2>2. queue'[Len(queue)].call = c /\ queue'[Len(queue)].step = next
      BY <1>q
    <2>3. i \in 1..Len(queue) /\ j \in 1..Len(queue) /\ phase' = phase /\ answer' = answer
      BY <1>1, <1>q
    <2>4. queue'[i].call = queue'[j].call => i = j
      BY <1>h, <2>1, <2>2, <2>3 DEF QueueMatchesPhase
    <2>5. CASE i = Len(queue)
      BY <1>1, <1>s, <2>2, <2>3, <2>4, <2>5
    <2>6. CASE i # Len(queue)
      <3>1. i \in 1..(Len(queue) - 1)
        BY <1>h, <2>3, <2>6
      <3> QED BY <2>1, <2>3, <2>4, <3>1 DEF QueueMatchesPhase
    <2> QED BY <2>5, <2>6
  <1>4. TimersReleaseOnly' /\ SuccessRunsAlone'
    BY <1>1, <1>h, <1>q, <1>o, <1>s DEF TimersReleaseOnly, SuccessRunsAlone, Runs
  <1>5. RegisterIsOwn'
    BY <1>1, <1>h, <1>q, <1>o, <1>s DEF RegisterIsOwn, SuccessRunsAlone, QueueMatchesPhase, Written
  <1>6. OwnAnswer'
    BY <1>1 DEF OwnAnswer
  <1> QED BY <1>2, <1>3, <1>4, <1>5, <1>6

\* IndInv is inductive.
LEMMA StepIndInv == IndInv /\ [Next]_vars => IndInv'
  <1> SUFFICES ASSUME IndInv, [Next]_vars PROVE IndInv'
    OBVIOUS
  <1>1. ASSUME NEW c \in Call, Fetch(c)
        PROVE  IndInv'
    <2> USE <1>1 DEF Fetch, IndInv
    <2>1. TypeOK'
      BY DEF TypeOK, Phases
    <2>2. QueueMatchesPhase'
      <3>1. \A i \in 1..Len(queue) : queue[i].call # c /\ phase'[queue[i].call] = phase[queue[i].call]
        BY DEF QueueMatchesPhase, TypeOK, Continuation
      <3> QED BY <3>1 DEF QueueMatchesPhase
    <2>3. TimersReleaseOnly' /\ SuccessRunsAlone' /\ RegisterIsOwn'
      BY DEF TimersReleaseOnly, SuccessRunsAlone, RegisterIsOwn
    <2>4. OwnAnswer'
      BY DEF OwnAnswer, TypeOK
    <2> QED BY <2>1, <2>2, <2>3, <2>4
  <1>2. ASSUME NEW c \in Call, Event(c)
        PROVE  IndInv'
    BY <1>2, EventIndInv
  <1>3. ASSUME NEW c \in Call, Microtask(c)
        PROVE  IndInv'
    BY <1>3, LeaveIndInv, RotateIndInv DEF Microtask
  <1>4. CASE UNCHANGED vars
    BY <1>4 DEF vars, IndInv, TypeOK, QueueMatchesPhase, TimersReleaseOnly,
                SuccessRunsAlone, RegisterIsOwn, OwnAnswer
  <1> QED BY <1>1, <1>2, <1>3, <1>4 DEF Next

\* The state of the event loop is always well-formed (apiHelper.js as a whole).
THEOREM TypeCorrect == Spec => []TypeOK
  <1>1. IndInv => TypeOK
    BY DEF IndInv
  <1> QED BY <1>1, InitIndInv, StepIndInv, PTL DEF Spec

\* A page never handles the status or the result of another call, however many
\* calls overlap, fail or come back out of order (the `await Service...` and
\* `getAPI()` of every page).
THEOREM OwnAnswerHolds == Spec => []OwnAnswer
  <1>1. IndInv => OwnAnswer
    BY DEF IndInv
  <1> QED BY <1>1, InitIndInv, StepIndInv, PTL DEF Spec

\* The three shared globals behave as a private answer per call: ApiHelper
\* implements RpcContract.
THEOREM GlobalsImplementContract == Spec => ImplementsContract
  <1>1. Init => Contract!Init
    BY DEF Init, Contract!Init, ContractStage
  <1>2. IndInv /\ [Next]_vars => [Contract!Next]_(Contract!vars)
    <2> SUFFICES ASSUME IndInv, [Next]_vars
                 PROVE  \/ Contract!Next
                        \/ UNCHANGED <<ContractStage, answer, result>>
      BY DEF Contract!vars
    <2> USE DEF IndInv
    <2>1. ASSUME NEW c \in Call, Fetch(c)
          PROVE  Contract!Begin(c)
      BY <2>1 DEF Fetch, Contract!Begin, ContractStage, TypeOK
    <2>2. ASSUME NEW c \in Call, HeadersArrive(c) \/ AskBody(c)
          PROVE  UNCHANGED <<ContractStage, answer, result>>
      <3>1. AskBody(c) => phase[c] = "headers"
        BY TailElements DEF AskBody, Runs, QueueMatchesPhase, TypeOK
      <3> QED BY <2>2, <3>1 DEF HeadersArrive, AskBody, ContractStage, TypeOK
    <2>3. ASSUME NEW c \in Call, RequestFails(c) \/ BodyBroken(c)
          PROVE  Contract!Settle(c, Failed)
      BY <2>3 DEF RequestFails, BodyBroken, Contract!Settle, ContractStage, TypeOK
    <2>4. ASSUME NEW c \in Call, NEW a \in Answer, BodyArrives(c, a)
          PROVE  Contract!Settle(c, a)
      BY <2>4 DEF BodyArrives, Contract!Settle, ContractStage, TypeOK
    <2>5. ASSUME NEW c \in Call, StoreAnswer(c) \/ StoreFailure(c) \/ HandOver(c)
          PROVE  UNCHANGED <<ContractStage, answer, result>>
      BY <2>5 DEF StoreAnswer, StoreFailure, HandOver, ContractStage
    <2>6. ASSUME NEW c \in Call, GetAPI(c)
          PROVE  Contract!Return(c)
      <3>1. phase[c] = "settled" /\ register = answer[c]
        BY <2>6, TailElements DEF GetAPI, Runs, QueueMatchesPhase, RegisterIsOwn, Written, TypeOK
      <3> QED BY <2>6, <3>1 DEF GetAPI, Contract!Return, ContractStage, TypeOK
    <2>7. CASE UNCHANGED vars
      BY <2>7 DEF vars, ContractStage
    <2> QED BY <2>1, <2>2, <2>3, <2>4, <2>5, <2>6, <2>7
            DEF Next, Event, Microtask, Contract!Next, Contract!Outcome
  <1> QED BY <1>1, <1>2, InitIndInv, StepIndInv, PTL DEF Spec, ImplementsContract, Contract!Spec
==============================================================================
