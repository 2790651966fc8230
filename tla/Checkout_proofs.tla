--------------------------- MODULE Checkout_proofs ---------------------------
(***************************************************************************)
(* Of the cart pages, for any goods, any number of requests under way, any *)
(* order and any loss of them: what is rendered and handed to OrderPage is *)
(* a cart, and the page waits only for a reason; and, if the network keeps *)
(* the order of the requests, a page that has settled shows the cart of    *)
(* the server.                                                             *)
(*                                                                         *)
(* Of a cart page and the order page that it opens, for any goods, any     *)
(* number of presses and addresses, and any losses: on a network that      *)
(* keeps the order of the requests, with taps that come after the overlay  *)
(* and a user who waits, the two pages implement the contract of a         *)
(* purchase.                                                               *)
(***************************************************************************)
EXTENDS Checkout, SequenceTheorems, TLAPS
------------------------------------------------------------------------------
(* The requests under way *)

\* A sequence without its element at i.
LEMMA RemoveAtElements ==
    ASSUME NEW S, NEW s \in Seq(S), NEW i \in 1..Len(s)
    PROVE  /\ RemoveAt(s, i) \in Seq(S)
           /\ Len(s) \in Nat
           /\ Len(RemoveAt(s, i)) = Len(s) - 1
           /\ \A j \in 1..(Len(s) - 1) : RemoveAt(s, i)[j] = s[IF j < i THEN j ELSE j + 1]
  <1> DEFINE a == SubSeq(s, 1, i - 1)
             b == SubSeq(s, i + 1, Len(s))
  <1>1. /\ a \in Seq(S) /\ Len(a) = i - 1 /\ \A j \in 1..(i - 1) : a[j] = s[j]
        /\ b \in Seq(S) /\ Len(b) = Len(s) - i /\ \A j \in 1..(Len(s) - i) : b[j] = s[i + j]
    BY SubSeqProperties
  <1>2. RemoveAt(s, i) = a \o b
    BY DEF RemoveAt
  <1> HIDE DEF a, b
  <1>3. /\ a \o b \in Seq(S)
        /\ Len(a \o b) = Len(a) + Len(b)
        /\ \A j \in 1..(Len(a) + Len(b)) : (a \o b)[j] = IF j <= Len(a) THEN a[j] ELSE b[j - Len(a)]
    BY <1>1, ConcatProperties
  <1>4. ASSUME NEW j \in 1..(Len(s) - 1)
        PROVE  (a \o b)[j] = s[IF j < i THEN j ELSE j + 1]
    <2>1. CASE j < i
      BY <1>1, <1>3, <2>1
    <2>2. CASE j >= i
      <3>1. j - (i - 1) \in 1..(Len(s) - i) /\ i + (j - (i - 1)) = j + 1 /\ ~ (j <= i - 1)
            /\ j \in 1..((i - 1) + (Len(s) - i)) /\ ~ (j < i)
        BY <2>2
      <3>2. (a \o b)[j] = b[j - (i - 1)]
        BY <1>1, <1>3, <3>1
      <3> QED BY <1>1, <3>1, <3>2
    <2>3. j < i \/ j >= i
      OBVIOUS
    <2> QED BY <2>1, <2>2, <2>3
  <1> QED BY <1>1, <1>2, <1>3, <1>4

\* What remains was there, and all but element i remains.
LEMMA RemoveAtKeeps ==
    ASSUME NEW S, NEW s \in Seq(S), NEW i \in 1..Len(s)
    PROVE  /\ RemoveAt(s, i) \in Seq(S)
           /\ \A j \in 1..Len(RemoveAt(s, i)) : \E m \in 1..Len(s) : RemoveAt(s, i)[j] = s[m]
           /\ \A m \in 1..Len(s) : m # i => \E j \in 1..Len(RemoveAt(s, i)) : RemoveAt(s, i)[j] = s[m]
  <1> DEFINE t == RemoveAt(s, i)
  <1>1. /\ t \in Seq(S) /\ Len(s) \in Nat /\ Len(t) = Len(s) - 1
        /\ \A j \in 1..(Len(s) - 1) : t[j] = s[IF j < i THEN j ELSE j + 1]
    BY RemoveAtElements
  <1> HIDE DEF t
  <1>2. ASSUME NEW m \in 1..Len(s), m # i
        PROVE  \E j \in 1..Len(t) : t[j] = s[m]
    <2>1. (m \in 1..Len(t) /\ t[m] = s[m]) \/ (m - 1 \in 1..Len(t) /\ t[m - 1] = s[m])
      BY <1>1, <1>2
    <2> QED BY <2>1
  <1>3. \A j \in 1..Len(t) : (IF j < i THEN j ELSE j + 1) \in 1..Len(s)
    BY <1>1
  <1> QED BY <1>1, <1>2, <1>3 DEF t

\* The elements of t, which is s with one more appended.
LEMMA SendKeeps ==
    ASSUME NEW S, NEW s \in Seq(S), NEW e \in S, NEW t \in Seq(S), t = Append(s, e)
    PROVE  /\ DOMAIN t = 1..Len(t)
           /\ \A j \in 1..Len(t) : t[j] = e \/ \E m \in 1..Len(s) : t[j] = s[m]
           /\ \A m \in 1..Len(s) : \E j \in 1..Len(t) : t[j] = s[m]
           /\ \E j \in 1..Len(t) : t[j] = e
  OBVIOUS

------------------------------------------------------------------------------
(* The cart pages *)

\* A cart that a load brings is a cart.
AnswersAreCarts ==
    \A i \in 1..Len(net) : net[i].op = "load" /\ net[i].answer = "SUCCESS" => net[i].cart \in Cart

IndInv == TypeOK /\ AnswersAreCarts /\ PayGetsCart /\ LoadingHasReason

LEMMA InitIndInv == Init => IndInv
  <1> SUFFICES ASSUME Init PROVE IndInv
    OBVIOUS
  <1>1. net = <<>> /\ net \in Seq(Request) /\ Len(net) = 0
    BY EmptySeq DEF Init
  <1>2. TypeOK /\ AnswersAreCarts
    <2>1. AnswersAreCarts
      BY <1>1 DEF AnswersAreCarts
    <2>2. TypeOK
      BY <1>1 DEF Init, TypeOK
    <2> QED BY <2>1, <2>2
  <1>3. PayGetsCart /\ LoadingHasReason
    BY CartAssumption DEF Init, PayGetsCart, LoadingHasReason, Rendered
  <1> QED BY <1>2, <1>3 DEF IndInv

LEMMA LoadIsRequest ==
    ASSUME NEW own \in BOOLEAN
    PROVE  /\ Load(own) \in Request
           /\ Load(own).op = "load"
           /\ Load(own).own = own
           /\ Load(own).answer = "none"
  <1>1. (CHOOSE g \in Good : TRUE) \in Good
    BY CartAssumption
  <1> QED BY <1>1 DEF Load, NewRequest, Request

\* The user's actions.
LEMMA UserIndInv ==
    ASSUME IndInv, User
    PROVE  IndInv'
  <1> USE DEF IndInv
  <1>n. net \in Seq(Request)
    BY DEF TypeOK
  <1>1. CASE Focus
    <2>1. /\ net' = Append(net, Load(TRUE))
          /\ UNCHANGED <<cartList, cart, handed, failed>>
          /\ shown' = TRUE /\ loaded' = FALSE
      BY <1>1 DEF Focus, Send
    <2>2. Load(TRUE) \in Request /\ Load(TRUE).op = "load" /\ Load(TRUE).own = TRUE /\ Load(TRUE).answer = "none"
      BY LoadIsRequest
    <2> DEFINE r == Load(TRUE)
    <2> HIDE DEF r
    <2>a. net' = Append(net, r) /\ net' \in Seq(Request) /\ r \in Request
      BY <1>n, <2>1, <2>2, AppendProperties DEF r
    <2>3. /\ DOMAIN net' = 1..Len(net')
          /\ \A j \in 1..Len(net') : net'[j] = r \/ \E m \in 1..Len(net) : net'[j] = net[m]
          /\ \E j \in 1..Len(net') : net'[j] = r
      BY <1>n, <2>a, SendKeeps
    <2>4. TypeOK' /\ PayGetsCart'
      BY <2>1, <2>a DEF TypeOK, PayGetsCart, Rendered
    <2>5. AnswersAreCarts'
      BY <2>2, <2>3 DEF AnswersAreCarts, r
    <2>6. LoadingHasReason'
      BY <2>2, <2>3 DEF LoadingHasReason, TypeOK, r
    <2> QED BY <2>4, <2>5, <2>6
  <1>2. CASE Blur
    BY <1>2 DEF Blur, TypeOK, AnswersAreCarts, PayGetsCart, LoadingHasReason, Rendered
  <1>3. CASE Unmount
    <2>1. /\ net' \in Seq(Request)
          /\ Len(net') = Len(net)
          /\ \A i \in 1..Len(net) : net'[i] = [net[i] EXCEPT !.own = FALSE] /\ net[i] \in Request
      <3>1. Len(net) \in Nat /\ DOMAIN net = 1..Len(net) /\ \A i \in 1..Len(net) : net[i] \in Request
        BY <1>n
      <3>2. \A i \in 1..Len(net) : [net[i] EXCEPT !.own = FALSE] \in Request
        BY <3>1 DEF Request
      <3>3. net' = [i \in 1..Len(net) |-> [net[i] EXCEPT !.own = FALSE]]
        BY <1>3, <3>1 DEF Unmount
      <3>4. net' \in [1..Len(net) -> Request]
        BY <3>2, <3>3
      <3> QED BY <3>1, <3>3, <3>4
    <2>2. TypeOK' /\ PayGetsCart' /\ LoadingHasReason'
      BY <1>3, <2>1 DEF Unmount, TypeOK, PayGetsCart, LoadingHasReason, Rendered
    <2>3. AnswersAreCarts'
      BY <2>1 DEF AnswersAreCarts, Request
    <2> QED BY <2>2, <2>3
  <1>4. ASSUME NEW r \in Request, r.answer = "none", Send(r), UNCHANGED <<page, cart, handed, failed>>
        PROVE  IndInv'
    <2>a. net' = Append(net, r) /\ net' \in Seq(Request)
      BY <1>n, <1>4, AppendProperties DEF Send
    <2>1. /\ DOMAIN net = 1..Len(net) /\ DOMAIN net' = 1..Len(net')
          /\ \A j \in 1..Len(net') : net'[j] = r \/ \E m \in 1..Len(net) : net'[j] = net[m]
          /\ \A m \in 1..Len(net) : \E j \in 1..Len(net') : net'[j] = net[m]
      BY <1>n, <1>4, <2>a, SendKeeps
    <2>2. TypeOK' /\ PayGetsCart'
      BY <1>4, <2>a DEF TypeOK, PayGetsCart, Rendered, page
    <2>3. AnswersAreCarts'
      BY <1>4, <2>1 DEF AnswersAreCarts
    <2>4. LoadingHasReason'
      BY <1>4, <1>n, <2>1 DEF LoadingHasReason, page
    <2> QED BY <2>2, <2>3, <2>4
  <1>5. ASSUME NEW op \in Commands, NEW g \in Good, Press(op, g)
        PROVE  IndInv'
    <2>1. NewRequest(op, g, TRUE) \in Request /\ NewRequest(op, g, TRUE).answer = "none"
      BY DEF NewRequest, Request
    <2> QED BY <1>4, <1>5, <2>1 DEF Press
  <1>6. CASE GoToPay
    BY <1>6 DEF GoToPay, TypeOK, AnswersAreCarts, PayGetsCart, LoadingHasReason, Rendered, page
  <1>7. ASSUME NEW g \in Good, AddElsewhere(g)
        PROVE  IndInv'
    <2>1. NewRequest("add", g, FALSE) \in Request /\ NewRequest("add", g, FALSE).answer = "none"
      BY DEF NewRequest, Request
    <2> QED BY <1>4, <1>7, <2>1 DEF AddElsewhere
  <1> QED BY <1>1, <1>2, <1>3, <1>5, <1>6, <1>7 DEF User

\* The handlers after their awaits.
LEMMA AnswerIndInv ==
    ASSUME IndInv, NEW i \in DOMAIN net, Answer(i)
    PROVE  IndInv'
  <1> USE DEF IndInv
  <1> DEFINE rest == RemoveAt(net, i)
  <1>n. net \in Seq(Request) /\ i \in 1..Len(net) /\ net[i] \in Request
    BY DEF TypeOK
  <1>r. /\ rest \in Seq(Request)
        /\ \A j \in 1..Len(rest) : \E m \in 1..Len(net) : rest[j] = net[m]
        /\ \A m \in 1..Len(net) : m # i => \E j \in 1..Len(rest) : rest[j] = net[m]
    BY <1>n, RemoveAtKeeps
  <1>d. /\ DOMAIN net = 1..Len(net)
        /\ DOMAIN rest = 1..Len(rest)
    BY <1>n, <1>r
  <1> HIDE DEF rest
  <1>a. \A j \in 1..Len(rest) : rest[j].op = "load" /\ rest[j].answer = "SUCCESS" => rest[j].cart \in Cart
    BY <1>r DEF AnswersAreCarts
  <1>1. CASE LoadAnswered(i)
    <2>1. /\ net' = rest
          /\ net[i].op = "load" /\ net[i].cart \in Cart
          /\ UNCHANGED <<shown, cart, handed>>
          /\ IF net[i].own
             THEN cartList' = net[i].cart /\ loaded' = TRUE /\ failed' = FALSE
             ELSE UNCHANGED <<cartList, loaded, failed>>
      BY <1>1, <1>n DEF LoadAnswered, AnswersAreCarts, rest
    <2>2. TypeOK' /\ AnswersAreCarts'
      BY <1>r, <1>a, <2>1 DEF TypeOK, AnswersAreCarts
    <2>3. PayGetsCart'
      BY <2>1, CartAssumption DEF PayGetsCart, Rendered
    <2>4. LoadingHasReason'
      BY <1>r, <1>d, <1>n, <2>1 DEF LoadingHasReason
    <2> QED BY <2>2, <2>3, <2>4
  <1>2. CASE LoadFailed(i)
    <2>1. net' = rest
      BY <1>2 DEF LoadFailed, rest
    <2>2. TypeOK' /\ AnswersAreCarts'
      BY <1>2, <1>r, <1>a, <2>1 DEF LoadFailed, TypeOK, AnswersAreCarts
    <2>3. PayGetsCart'
      BY <1>2 DEF LoadFailed, PayGetsCart, Rendered
    <2>4. LoadingHasReason'
      <3>1. CASE net[i].own
        BY <1>2, <3>1 DEF LoadFailed, LoadingHasReason
      <3>2. CASE ~ net[i].own
        <4>1. UNCHANGED <<shown, loaded, cartList, failed>>
          BY <1>2, <3>2 DEF LoadFailed
        <4> QED BY <1>r, <1>d, <2>1, <3>2, <4>1 DEF LoadingHasReason
      <3> QED BY <3>1, <3>2
    <2> QED BY <2>2, <2>3, <2>4
  <1>3. CASE CommandDone(i)
    <2> DEFINE r == Load(net[i].own)
    <2>1. /\ net' = Append(rest, r)
          /\ loaded' = (loaded /\ ~ net[i].own)
          /\ net[i].op # "load"
          /\ UNCHANGED <<shown, cartList, cart, handed, failed>>
      BY <1>3 DEF CommandDone, rest, Commands
    <2>2. net[i].own \in BOOLEAN
      BY <1>n DEF Request
    <2>3. r \in Request /\ r.op = "load" /\ r.own = net[i].own /\ r.answer = "none"
      BY <2>2, LoadIsRequest
    <2> HIDE DEF r
    <2>a. net' \in Seq(Request)
      BY <1>r, <2>1, <2>3, AppendProperties
    <2>4. /\ DOMAIN net' = 1..Len(net')
          /\ \A j \in 1..Len(net') : net'[j] = r \/ \E m \in 1..Len(rest) : net'[j] = rest[m]
          /\ \A m \in 1..Len(rest) : \E j \in 1..Len(net') : net'[j] = rest[m]
          /\ \E j \in 1..Len(net') : net'[j] = r
      BY <1>r, <2>1, <2>3, <2>a, SendKeeps
    <2>5. TypeOK' /\ AnswersAreCarts'
      BY <1>a, <2>1, <2>3, <2>a, <2>4 DEF TypeOK, AnswersAreCarts
    <2>6. PayGetsCart'
      BY <2>1 DEF PayGetsCart, Rendered
    <2>7. LoadingHasReason'
      <3> SUFFICES ASSUME shown', ~ loaded', ~ (failed' /\ cartList' = NoCart)
                   PROVE  \E j \in 1..Len(net') : net'[j].op = "load" /\ net'[j].own
        BY <2>4 DEF LoadingHasReason
      <3>1. CASE net[i].own
        <4>1. r.op = "load" /\ r.own
          BY <2>3, <3>1
        <4>2. PICK j \in 1..Len(net') : net'[j] = r
          BY <2>4
        <4> QED BY <4>1, <4>2
      <3>2. CASE ~ net[i].own
        <4>1. PICK m \in 1..Len(net) : net[m].op = "load" /\ net[m].own
          BY <1>d, <2>1, <3>2 DEF LoadingHasReason
        <4>2. m # i
          BY <2>1, <4>1
        <4> QED BY <1>r, <2>4, <4>1, <4>2
      <3> QED BY <3>1, <3>2
    <2> QED BY <2>5, <2>6, <2>7
  <1>4. CASE CommandOver(i)
    <2>1. /\ net' = rest
          /\ net[i].op # "load"
          /\ UNCHANGED <<shown, loaded, cartList, cart, handed>>
          /\ failed' = (failed \/ (net[i].own /\ net[i].answer = "FAILED"))
      BY <1>4 DEF CommandOver, rest, Commands, page
    <2>2. TypeOK' /\ AnswersAreCarts' /\ PayGetsCart'
      BY <1>r, <1>a, <2>1 DEF TypeOK, AnswersAreCarts, PayGetsCart, Rendered
    <2>3. LoadingHasReason'
      BY <1>r, <1>d, <2>1 DEF LoadingHasReason
    <2> QED BY <2>2, <2>3
  <1> QED BY <1>1, <1>2, <1>3, <1>4 DEF Answer

\* The server's actions.
LEMMA ServerIndInv ==
    ASSUME IndInv, NEW i \in DOMAIN net, Server(i)
    PROVE  IndInv'
  <1> USE DEF IndInv
  <1>n. net \in Seq(Request) /\ i \in 1..Len(net) /\ net[i] \in Request
    BY DEF TypeOK
  <1>e. Executed(net[i]) \in Cart
    <2>1. cart \in Cart /\ MaxAmount \in Nat \ {0} /\ net[i].good \in Good
      BY <1>n, CartAssumption DEF TypeOK, Request
    <2>2. net[i].op \in {"delete", "minus", "plus", "add", "clear", "load"}
      BY <1>n DEF Request, Commands
    <2>3. CASE net[i].op = "delete"
      BY <2>1, <2>3 DEF Executed, Cart
    <2>4. CASE net[i].op = "minus"
      BY <2>1, <2>4 DEF Executed, Cart
    <2>5. CASE net[i].op \in {"plus", "add"}
      BY <2>1, <2>5 DEF Executed, Cart
    <2>6. CASE net[i].op = "clear"
      BY <2>1, <2>6 DEF Executed, Cart
    <2>7. CASE net[i].op = "load"
      BY <2>1, <2>7 DEF Executed
    <2> QED BY <2>2, <2>3, <2>4, <2>5, <2>6, <2>7
  <1>1. PICK r \in Request :
           /\ net' = [net EXCEPT ![i] = r]
           /\ r.op = net[i].op /\ r.own = net[i].own
           /\ r.op = "load" /\ r.answer = "SUCCESS" => r.cart \in Cart
    <2>1. CASE Serve(i)
      <3> DEFINE r == [net[i] EXCEPT !.answer = "SUCCESS",
                                     !.cart = IF net[i].op = "load" THEN cart ELSE NoCart]
      <3>1. net' = [net EXCEPT ![i] = r]
        BY <1>n, <2>1 DEF Serve
      <3>2. /\ r \in Request /\ r.op = net[i].op /\ r.own = net[i].own
            /\ r.op = "load" => r.cart \in Cart
        BY <1>n DEF Request, TypeOK
      <3> QED BY <3>1, <3>2
    <2>2. CASE Refuse(i)
      <3> DEFINE r == [net[i] EXCEPT !.answer = "WARNING"]
      <3>1. net' = [net EXCEPT ![i] = r]
        BY <1>n, <2>2 DEF Refuse
      <3>2. r \in Request /\ r.op = net[i].op /\ r.own = net[i].own /\ r.answer = "WARNING"
        BY <1>n DEF Request
      <3> QED BY <3>1, <3>2
    <2>3. CASE Lose(i)
      <3> DEFINE r == [net[i] EXCEPT !.answer = "FAILED"]
      <3>1. net' = [net EXCEPT ![i] = r]
        BY <1>n, <2>3 DEF Lose
      <3>2. r \in Request /\ r.op = net[i].op /\ r.own = net[i].own /\ r.answer = "FAILED"
        BY <1>n DEF Request
      <3> QED BY <3>1, <3>2
    <2> QED BY <2>1, <2>2, <2>3 DEF Server
  <1>2. cart' \in Cart /\ UNCHANGED <<page, handed, failed>>
    BY <1>e DEF Server, Serve, Refuse, Lose, TypeOK
  <1>3. /\ net' \in Seq(Request)
        /\ Len(net') = Len(net)
        /\ DOMAIN net = 1..Len(net) /\ DOMAIN net' = 1..Len(net)
        /\ \A j \in 1..Len(net) : net'[j] = IF j = i THEN r ELSE net[j]
    BY <1>n, <1>1
  <1>4. TypeOK' /\ PayGetsCart'
    BY <1>2, <1>3 DEF TypeOK, PayGetsCart, Rendered, page
  <1>5. AnswersAreCarts'
    BY <1>1, <1>3 DEF AnswersAreCarts
  <1>6. LoadingHasReason'
    BY <1>1, <1>2, <1>3 DEF LoadingHasReason, page
  <1> QED BY <1>4, <1>5, <1>6

\* IndInv is inductive.
LEMMA StepIndInv == IndInv /\ [Next]_vars => IndInv'
  <1>1. ASSUME IndInv, UNCHANGED vars PROVE IndInv'
    BY <1>1 DEF vars, page, IndInv, TypeOK, AnswersAreCarts, PayGetsCart, LoadingHasReason, Rendered
  <1> QED BY <1>1, UserIndInv, AnswerIndInv, ServerIndInv DEF Next

\* The page's state and the requests under way are always well-formed
\* (CartPage.js:17-22).
THEOREM TypeCorrect == Spec => []TypeOK
  <1>1. IndInv => TypeOK
    BY DEF IndInv
  <1> QED BY <1>1, InitIndInv, StepIndInv, PTL DEF Spec

\* What is rendered and what OrderPage is given is a cart, however loads,
\* blurs and failures interleave (CartPage.js:57-75, 270-278).
THEOREM PayGetsCartHolds == Spec => []PayGetsCart
  <1>1. IndInv => PayGetsCart
    BY DEF IndInv
  <1> QED BY <1>1, InitIndInv, StepIndInv, PTL DEF Spec

\* The page shows "loading" only while its load is under way, or after a failure
\* that left it without any cart (CartPage.js:57-67).
THEOREM LoadingHasReasonHolds == Spec => []LoadingHasReason
  <1>1. IndInv => LoadingHasReason
    BY DEF IndInv
  <1> QED BY <1>1, InitIndInv, StepIndInv, PTL DEF Spec
------------------------------------------------------------------------------
(* The settled page, on a network that keeps the order of the requests *)

\* The answer to r will bring the cart, make the page load it, or is a failure.
Renewal(r) == \/ r.own /\ r.op = "load"
              \/ r.own /\ r.op \in Commands /\ r.answer = "SUCCESS"
              \/ r.own /\ r.answer = "FAILED"

\* One of the requests after the first n is a renewal.
RenewedAfter(n) == \E j \in 1..Len(net) : j > n /\ Renewal(net[j])

\* The requests are answered in the order in which they were sent.
AnsweredFirst ==
    \A i, j \in 1..Len(net) : i < j /\ net[j].answer # "none" => net[i].answer # "none"

\* A cart that is on its way to the page is the server's or will be renewed.
CarriedIsCurrent ==
    \A i \in 1..Len(net) :
       net[i].own /\ net[i].op = "load" /\ net[i].answer = "SUCCESS" =>
           net[i].cart = cart \/ RenewedAfter(i)

\* So is the cart on the page.
ShownIsCurrent == ~ failed => cartList = cart \/ RenewedAfter(0)

\* A request that may change the cart without the page hearing of it was sent
\* before the page's latest visit, whose load follows it.
StrangersFirst ==
    \A i \in 1..Len(net) :
       net[i].answer = "none" /\ net[i].op # "load" /\ (net[i].own => net[i].op \notin Commands) =>
           \E j \in 1..Len(net) : j > i /\ net[j].own /\ net[j].op = "load"

Renewing == /\ AnsweredFirst
            /\ shown => CarriedIsCurrent /\ ShownIsCurrent /\ StrangersFirst

LEMMA InitRenewing == Init => Renewing
  <1> SUFFICES ASSUME Init PROVE Renewing
    OBVIOUS
  <1>1. net = <<>> /\ Len(net) = 0
    BY EmptySeq DEF Init
  <1> QED BY <1>1 DEF Init, Renewing, AnsweredFirst

\* A request is sent: by the page that is shown, or by another one.
LEMMA SendRenewing ==
    ASSUME TypeOK, Renewing, NEW r \in Request, r.answer = "none",
           net' = Append(net, r), UNCHANGED <<cartList, cart, failed>>,
           shown' => r.own /\ (r.op = "load" \/ (shown /\ r.op \in Commands))
    PROVE  Renewing'
  <1>n. /\ net \in Seq(Request) /\ Len(net) \in Nat
        /\ Len(net') = Len(net) + 1
        /\ \A j \in 1..Len(net) : net'[j] = net[j]
        /\ net'[Len(net) + 1] = r
    <2>1. net \in Seq(Request)
      BY DEF TypeOK
    <2> QED BY <2>1, AppendProperties, LenProperties
  <1>m. \A j \in 1..Len(net') : j \in 1..Len(net) \/ j = Len(net) + 1
    BY <1>n
  <1>1. AnsweredFirst'
    BY <1>n, <1>m DEF Renewing, AnsweredFirst
  <1>2. ASSUME shown', r.op = "load"
        PROVE  CarriedIsCurrent' /\ ShownIsCurrent' /\ StrangersFirst'
    <2>1. Len(net) + 1 \in 1..Len(net') /\ r.own
      BY <1>n, <1>2
    <2>2. \A i \in 1..Len(net) : RenewedAfter(i)' /\ RenewedAfter(0)'
      BY <1>n, <1>2, <2>1 DEF RenewedAfter, Renewal
    <2>3. RenewedAfter(0)'
      BY <1>n, <1>2, <2>1 DEF RenewedAfter, Renewal
    <2>4. CarriedIsCurrent'
      BY <1>n, <1>m, <2>2 DEF CarriedIsCurrent
    <2>5. StrangersFirst'
      BY <1>n, <1>m, <1>2, <2>1 DEF StrangersFirst
    <2> QED BY <2>3, <2>4, <2>5 DEF ShownIsCurrent
  <1>3. ASSUME shown', shown, r.op \in Commands
        PROVE  CarriedIsCurrent' /\ ShownIsCurrent' /\ StrangersFirst'
    <2>1. CarriedIsCurrent /\ ShownIsCurrent /\ StrangersFirst /\ r.op # "load"
      BY <1>3 DEF Renewing, Commands
    <2>2. \A i \in 0..Len(net) : RenewedAfter(i) => RenewedAfter(i)'
      <3> SUFFICES ASSUME NEW i \in 0..Len(net), RenewedAfter(i)
                   PROVE  RenewedAfter(i)'
        OBVIOUS
      <3>1. PICK j \in 1..Len(net) : j > i /\ Renewal(net[j])
        BY DEF RenewedAfter
      <3>2. j \in 1..Len(net') /\ net'[j] = net[j]
        BY <1>n
      <3> QED BY <3>1, <3>2 DEF RenewedAfter, Renewal
    <2>3. ShownIsCurrent'
      BY <1>n, <2>1, <2>2 DEF ShownIsCurrent
    <2>4. CarriedIsCurrent'
      BY <1>n, <1>m, <2>1, <2>2 DEF CarriedIsCurrent
    <2>5. StrangersFirst'
      BY <1>n, <1>m, <1>3, <2>1 DEF StrangersFirst
    <2> QED BY <2>3, <2>4, <2>5
  <1> QED BY <1>1, <1>2, <1>3 DEF Renewing

\* The oldest request is answered.
LEMMA AnswerRenewing ==
    ASSUME InOrder, TypeOK, Renewing, NEW i \in DOMAIN net, Answer(i)
    PROVE  Renewing'
  <1> DEFINE rest == RemoveAt(net, 1)
             grows == net[1].op \in Commands /\ net[1].answer = "SUCCESS"
  <1>n. net \in Seq(Request) /\ Len(net) \in Nat /\ i = 1 /\ 1 \in 1..Len(net) /\ net[1] \in Request
    BY DEF TypeOK, Answer, InTurn
  <1>r. /\ rest \in Seq(Request)
        /\ Len(rest) = Len(net) - 1
        /\ \A j \in 1..(Len(net) - 1) : rest[j] = net[j + 1]
    <2>1. /\ rest \in Seq(Request)
          /\ Len(rest) = Len(net) - 1
          /\ \A j \in 1..(Len(net) - 1) : rest[j] = net[IF j < 1 THEN j ELSE j + 1]
      <3> HIDE DEF rest
      <3>1. net \in Seq(Request) /\ 1 \in 1..Len(net)
        BY <1>n
      <3> USE DEF rest
      <3> QED BY ONLY <3>1, RemoveAtElements
    <2> HIDE DEF rest
    <2>2. \A j \in 1..(Len(net) - 1) : (IF j < 1 THEN j ELSE j + 1) = j + 1
      BY <1>n
    <2> QED BY <2>1, <2>2, Zenon
  <1>l. /\ Load(net[1].own) \in Request /\ Load(net[1].own).op = "load"
        /\ Load(net[1].own).own = net[1].own /\ Load(net[1].own).answer = "none"
    BY <1>n, LoadIsRequest DEF Request
  <1> HIDE DEF rest
  <1>1. net' = IF grows THEN Append(rest, Load(net[1].own)) ELSE rest
    BY <1>n DEF Answer, LoadAnswered, LoadFailed, CommandDone, CommandOver, rest, Commands
  <1>2. UNCHANGED <<shown, cart>>
    BY DEF Answer, LoadAnswered, LoadFailed, CommandDone, CommandOver, page
  <1>3. /\ Len(net') = IF grows THEN Len(net) ELSE Len(net) - 1
        /\ \A j \in 1..(Len(net) - 1) : net'[j] = net[j + 1]
        /\ grows => /\ net'[Len(net)].op = "load" /\ net'[Len(net)].answer = "none"
                    /\ net'[Len(net)].own = net[1].own
    <2>1. CASE grows
      <3> DEFINE e == Load(net[1].own)
      <3> HIDE DEF e
      <3>1. net' = Append(rest, e) /\ e \in Request
        BY <1>1, <1>l, <2>1 DEF e
      <3>2. /\ Len(Append(rest, e)) = Len(rest) + 1
            /\ \A j \in 1..Len(rest) : Append(rest, e)[j] = rest[j]
            /\ Append(rest, e)[Len(rest) + 1] = e
        BY <1>r, <3>1, AppendProperties
      <3>3. Len(rest) + 1 = Len(net)
        BY <1>n, <1>r
      <3> QED BY <1>r, <1>l, <2>1, <3>1, <3>2, <3>3 DEF e
    <2>2. CASE ~ grows
      BY <1>1, <1>r, <2>2
    <2> QED BY <2>1, <2>2
  <1>s. /\ \A j \in 1..(Len(net) - 1) : j + 1 \in 1..Len(net)
        /\ \A j \in 1..Len(net') : j \in 1..(Len(net) - 1) \/ (j = Len(net) /\ grows)
        /\ \A j \in 1..(Len(net) - 1) : j \in 1..Len(net')
    BY <1>n, <1>3
  <1> HIDE DEF grows
  <1>4. AnsweredFirst'
    <2> SUFFICES ASSUME NEW j \in 1..Len(net'), NEW k \in 1..Len(net'), j < k, net'[k].answer # "none"
                 PROVE  net'[j].answer # "none"
      BY DEF AnsweredFirst
    <2>1. k \in 1..(Len(net) - 1) /\ net'[k] = net[k + 1] /\ k + 1 \in 1..Len(net)
      BY <1>3, <1>s
    <2>2. j \in 1..(Len(net) - 1) /\ net'[j] = net[j + 1] /\ j + 1 \in 1..Len(net) /\ j + 1 < k + 1
      BY <1>n, <1>3, <1>s, <2>1
    <2> QED BY <2>1, <2>2 DEF Renewing, AnsweredFirst
  <1>5. ASSUME NEW k \in 0..(Len(net) - 1), RenewedAfter(k + 1)
        PROVE  RenewedAfter(k)'
    <2>1. PICK j \in 1..Len(net) : j > k + 1 /\ Renewal(net[j])
      BY <1>5 DEF RenewedAfter
    <2>2. j - 1 \in 1..(Len(net) - 1) /\ j - 1 > k /\ (j - 1) + 1 = j
      BY <1>n, <2>1
    <2> DEFINE h == j - 1
    <2> HIDE DEF h
    <2>3. h \in 1..(Len(net) - 1) /\ h > k /\ net'[h] = net[j] /\ h \in 1..Len(net')
      BY <1>3, <1>s, <2>2 DEF h
    <2> QED BY <2>1, <2>3 DEF RenewedAfter, Renewal
  <1>6. ASSUME shown PROVE CarriedIsCurrent'
    <2> SUFFICES ASSUME NEW j \in 1..Len(net'), net'[j].own, net'[j].op = "load", net'[j].answer = "SUCCESS"
                 PROVE  net'[j].cart = cart \/ RenewedAfter(j)'
      BY <1>2 DEF CarriedIsCurrent
    <2>1. j \in 1..(Len(net) - 1) /\ net'[j] = net[j + 1] /\ j + 1 \in 1..Len(net)
      BY <1>3, <1>s
    <2>2. net[j + 1].cart = cart \/ RenewedAfter(j + 1)
      BY <1>6, <2>1 DEF Renewing, CarriedIsCurrent
    <2> QED BY <1>5, <1>n, <2>1, <2>2
  <1>7. ASSUME shown PROVE ShownIsCurrent'
    <2> SUFFICES ASSUME ~ failed' PROVE cartList' = cart \/ RenewedAfter(0)'
      BY <1>2 DEF ShownIsCurrent
    <2>0. RenewedAfter(1) => RenewedAfter(0)'
      <3>1. 0 \in 0..(Len(net) - 1) /\ 0 + 1 = 1
        BY <1>n
      <3> QED BY <1>5, <3>1
    <2>1. net[1].own => net[1].answer # "FAILED"
      BY <1>n DEF Answer, LoadAnswered, LoadFailed, CommandDone, CommandOver
    <2>2. CASE net[1].own /\ net[1].op = "load"
      <3>1. cartList' = net[1].cart /\ net[1].answer = "SUCCESS"
        BY <1>n, <2>1, <2>2 DEF Answer, LoadAnswered, LoadFailed, CommandDone, CommandOver, Commands
      <3> QED BY <1>7, <1>n, <2>0, <2>2, <3>1 DEF Renewing, CarriedIsCurrent
    <2>3. CASE net[1].own /\ grows
      <3>1. Len(net) \in 1..Len(net') /\ Len(net) > 0
        BY <1>n, <1>3, <2>3
      <3> QED BY <1>3, <2>3, <3>1 DEF RenewedAfter, Renewal
    <2>4. CASE ~ (net[1].own /\ net[1].op = "load") /\ ~ (net[1].own /\ grows)
      <3>1. ~ Renewal(net[1])
        BY <2>1, <2>4 DEF Renewal, grows
      <3>2. RenewedAfter(0) => RenewedAfter(1)
        BY <3>1, <1>n DEF RenewedAfter
      <3>3. cartList' = cartList /\ ~ failed
        <4>1. CASE LoadAnswered(i)
          BY <1>n, <2>4, <4>1 DEF LoadAnswered
        <4>2. CASE LoadFailed(i)
          BY <1>n, <2>4, <4>2 DEF LoadFailed
        <4>3. CASE CommandDone(i)
          BY <4>3 DEF CommandDone
        <4>4. CASE CommandOver(i)
          BY <4>4 DEF CommandOver, page
        <4> QED BY <4>1, <4>2, <4>3, <4>4 DEF Answer
      <3> QED BY <1>7, <2>0, <3>2, <3>3 DEF Renewing, ShownIsCurrent
    <2> QED BY <2>2, <2>3, <2>4
  <1>8. ASSUME shown PROVE StrangersFirst'
    <2> SUFFICES ASSUME NEW j \in 1..Len(net'), net'[j].answer = "none", net'[j].op # "load",
                        net'[j].own => net'[j].op \notin Commands
                 PROVE  \E m \in 1..Len(net') : m > j /\ net'[m].own /\ net'[m].op = "load"
      BY DEF StrangersFirst
    <2>1. j \in 1..(Len(net) - 1) /\ net'[j] = net[j + 1] /\ j + 1 \in 1..Len(net)
      BY <1>3, <1>s
    <2>2. PICK m \in 1..Len(net) : m > j + 1 /\ net[m].own /\ net[m].op = "load"
      BY <1>8, <2>1 DEF Renewing, StrangersFirst
    <2>3. m - 1 \in 1..(Len(net) - 1) /\ m - 1 > j /\ (m - 1) + 1 = m
      BY <1>n, <2>2
    <2> DEFINE h == m - 1
    <2> HIDE DEF h
    <2>4. h \in 1..Len(net') /\ h > j /\ net'[h] = net[m]
      BY <1>3, <1>s, <2>3 DEF h
    <2> QED BY <2>2, <2>4
  <1> QED BY <1>2, <1>4, <1>6, <1>7, <1>8 DEF Renewing

\* The server answers the oldest request that has no answer.
LEMMA ServerRenewing ==
    ASSUME InOrder, TypeOK, Renewing, NEW i \in DOMAIN net, Server(i)
    PROVE  Renewing'
  <1>n. /\ net \in Seq(Request) /\ Len(net) \in Nat /\ i \in 1..Len(net) /\ net[i] \in Request
        /\ net[i].answer = "none"
        /\ \A j \in 1..Len(net) : j < i => net[j].answer # "none"
        /\ \A j \in 1..Len(net) : j >= i => net[j].answer = "none"
    <2>1. net \in Seq(Request) /\ Len(net) \in Nat /\ i \in 1..Len(net) /\ net[i] \in Request
      BY DEF TypeOK
    <2>2. Arrives(i)
      BY DEF Server, Serve, Refuse, Lose
    <2>3. net[i].answer = "none" /\ \A j \in 1..(i - 1) : net[j].answer # "none"
      BY <2>2 DEF Arrives
    <2>4. \A j \in 1..Len(net) : j < i => j \in 1..(i - 1)
      BY <2>1
    <2>5. \A j \in 1..Len(net) : j > i => net[j].answer = "none"
      BY <2>1, <2>3 DEF Renewing, AnsweredFirst
    <2>6. \A j \in 1..Len(net) : j >= i => j = i \/ j > i
      BY <2>1
    <2> QED BY <2>1, <2>3, <2>4, <2>5, <2>6
  <1>1. PICK r \in Request :
           /\ net' = [net EXCEPT ![i] = r]
           /\ r.op = net[i].op /\ r.own = net[i].own
           /\ r.answer # "none"
           /\ r.op = "load" => cart' = cart /\ (r.answer = "SUCCESS" => r.cart = cart)
           /\ cart' = cart \/ r.answer \in {"SUCCESS", "FAILED"}
    <2>c. cart \in Cart
      BY DEF TypeOK
    <2>1. CASE Serve(i)
      <3> DEFINE r == [net[i] EXCEPT !.answer = "SUCCESS",
                                     !.cart = IF net[i].op = "load" THEN cart ELSE NoCart]
      <3>1. net' = [net EXCEPT ![i] = r]
        BY <1>n, <2>1 DEF Serve
      <3>2. /\ r \in Request /\ r.op = net[i].op /\ r.own = net[i].own /\ r.answer = "SUCCESS"
            /\ r.op = "load" => r.cart = cart
        BY <1>n, <2>c DEF Request
      <3>3. r.op = "load" => cart' = cart
        BY <2>1, <3>2 DEF Serve, Executed
      <3> QED BY <3>1, <3>2, <3>3
    <2>2. CASE Refuse(i)
      <3> DEFINE r == [net[i] EXCEPT !.answer = "WARNING"]
      <3>1. net' = [net EXCEPT ![i] = r] /\ cart' = cart
        BY <1>n, <2>2 DEF Refuse
      <3>2. r \in Request /\ r.op = net[i].op /\ r.own = net[i].own /\ r.answer = "WARNING"
        BY <1>n DEF Request
      <3> QED BY <3>1, <3>2
    <2>3. CASE Lose(i)
      <3> DEFINE r == [net[i] EXCEPT !.answer = "FAILED"]
      <3>1. net' = [net EXCEPT ![i] = r]
        BY <1>n, <2>3 DEF Lose
      <3>2. r \in Request /\ r.op = net[i].op /\ r.own = net[i].own /\ r.answer = "FAILED"
        BY <1>n DEF Request
      <3>3. r.op = "load" => cart' = cart
        BY <2>3, <3>2 DEF Lose, Executed
      <3> QED BY <3>1, <3>2, <3>3
    <2> QED BY <2>1, <2>2, <2>3 DEF Server
  <1>2. UNCHANGED <<shown, cartList, failed>>
    BY DEF Server, Serve, Refuse, Lose, page
  <1>3. /\ Len(net') = Len(net)
        /\ net'[i] = r
        /\ \A j \in 1..Len(net) : j # i => net'[j] = net[j]
    BY <1>n, <1>1
  <1>4. AnsweredFirst'
    <2> SUFFICES ASSUME NEW j \in 1..Len(net), NEW k \in 1..Len(net), j < k, net'[k].answer # "none"
                 PROVE  net'[j].answer # "none"
      BY <1>3 DEF AnsweredFirst
    <2>1. k <= i
      BY <1>n, <1>3
    <2> QED BY <1>n, <1>3, <2>1
  <1>5. \A k \in 0..Len(net) : RenewedAfter(k) => RenewedAfter(k)'
    <2> SUFFICES ASSUME NEW k \in 0..Len(net), RenewedAfter(k)
                 PROVE  RenewedAfter(k)'
      OBVIOUS
    <2>1. PICK j \in 1..Len(net) : j > k /\ Renewal(net[j])
      BY DEF RenewedAfter
    <2>2. CASE j # i
      BY <1>3, <2>1, <2>2 DEF RenewedAfter, Renewal
    <2>3. CASE j = i
      <3>1. net[i].own /\ net[i].op = "load"
        BY <1>n, <2>1, <2>3 DEF Renewal
      <3>2. Renewal(r)
        BY <1>1, <3>1 DEF Renewal
      <3> QED BY <1>3, <2>1, <2>3, <3>2 DEF RenewedAfter, Renewal
    <2> QED BY <2>2, <2>3
  \* A change of the cart is followed by a renewal, and so is all that was
  \* answered before it.
  <1>6. ASSUME shown, cart' # cart
        PROVE  \A k \in 0..(i - 1) : RenewedAfter(k)'
    <2>1. r.op # "load" /\ r.answer \in {"SUCCESS", "FAILED"}
      BY <1>1, <1>6
    <2>2. CASE Renewal(r)
      BY <1>n, <1>3, <2>2 DEF RenewedAfter, Renewal
    <2>3. CASE ~ Renewal(r)
      <3>1. net[i].own => net[i].op \notin Commands
        BY <1>1, <2>1, <2>3 DEF Renewal
      <3>2. PICK j \in 1..Len(net) : j > i /\ net[j].own /\ net[j].op = "load"
        BY <1>6, <1>n, <1>1, <2>1, <3>1 DEF Renewing, StrangersFirst
      <3>3. net'[j] = net[j] /\ \A k \in 0..(i - 1) : j > k
        BY <1>n, <1>3, <3>2
      <3> QED BY <1>3, <3>2, <3>3 DEF RenewedAfter, Renewal
    <2> QED BY <2>2, <2>3
  <1>7. ASSUME shown PROVE CarriedIsCurrent'
    <2> SUFFICES ASSUME NEW j \in 1..Len(net), net'[j].own, net'[j].op = "load", net'[j].answer = "SUCCESS"
                 PROVE  net'[j].cart = cart' \/ RenewedAfter(j)'
      BY <1>3 DEF CarriedIsCurrent
    <2>1. j <= i
      BY <1>n, <1>3
    <2>2. CASE j = i
      BY <1>1, <1>3, <2>2
    <2>3. CASE j < i
      <3>1. net'[j] = net[j] /\ j \in 0..(i - 1) /\ j \in 0..Len(net)
        BY <1>n, <1>3, <2>3
      <3>2. net[j].cart = cart \/ RenewedAfter(j)
        BY <1>7, <3>1 DEF Renewing, CarriedIsCurrent
      <3> QED BY <1>5, <1>6, <1>7, <3>1, <3>2
    <2> QED BY <1>n, <2>1, <2>2, <2>3
  <1>8. ASSUME shown PROVE ShownIsCurrent'
    <2>1. 0 \in 0..(i - 1) /\ 0 \in 0..Len(net)
      BY <1>n
    <2> QED BY <1>2, <1>5, <1>6, <1>8, <2>1 DEF Renewing, ShownIsCurrent
  <1>9. ASSUME shown PROVE StrangersFirst'
    <2> SUFFICES ASSUME NEW j \in 1..Len(net), net'[j].answer = "none", net'[j].op # "load",
                        net'[j].own => net'[j].op \notin Commands
                 PROVE  \E m \in 1..Len(net) : m > j /\ net'[m].own /\ net'[m].op = "load"
      BY <1>3 DEF StrangersFirst
    <2>1. j # i /\ net'[j] = net[j]
      BY <1>1, <1>3
    <2>2. PICK m \in 1..Len(net) : m > j /\ net[m].own /\ net[m].op = "load"
      BY <1>9, <2>1 DEF Renewing, StrangersFirst
    <2>3. net'[m].own = net[m].own /\ net'[m].op = net[m].op
      BY <1>1, <1>3
    <2> QED BY <2>2, <2>3
  <1> QED BY <1>2, <1>4, <1>7, <1>8, <1>9 DEF Renewing

LEMMA UserRenewing ==
    ASSUME TypeOK, Renewing, User
    PROVE  Renewing'
  <1>1. CASE Focus
    <2>1. /\ Load(TRUE) \in Request /\ Load(TRUE).op = "load"
          /\ Load(TRUE).own = TRUE /\ Load(TRUE).answer = "none"
      BY LoadIsRequest
    <2>2. net' = Append(net, Load(TRUE)) /\ UNCHANGED <<cartList, cart, failed>>
      BY <1>1 DEF Focus, Send
    <2> DEFINE r == Load(TRUE)
    <2>3. r \in Request /\ r.op = "load" /\ r.own /\ r.answer = "none" /\ net' = Append(net, r)
      BY <2>1, <2>2
    <2> HIDE DEF r
    <2>4. shown' => r.own /\ (r.op = "load" \/ (shown /\ r.op \in Commands))
      BY <2>3
    <2> QED BY <2>2, <2>3, <2>4, SendRenewing
  <1>2. CASE Blur
    BY <1>2 DEF Blur, Renewing, AnsweredFirst
  <1>3. CASE Unmount
    <2>1. /\ Len(net) \in Nat /\ DOMAIN net = 1..Len(net)
          /\ \A i \in 1..Len(net) : net[i] \in Request
      BY DEF TypeOK
    <2>2. net' = [i \in 1..Len(net) |-> [net[i] EXCEPT !.own = FALSE]] /\ ~ shown'
      BY <1>3, <2>1 DEF Unmount
    <2>3. Len(net') = Len(net) /\ \A i \in 1..Len(net) : net'[i].answer = net[i].answer
      BY <2>1, <2>2 DEF Request
    <2> QED BY <2>2, <2>3 DEF Renewing, AnsweredFirst
  <1>4. ASSUME NEW op \in Commands, NEW g \in Good, Press(op, g)
        PROVE  Renewing'
    <2> DEFINE r == NewRequest(op, g, TRUE)
    <2>1. r \in Request /\ r.answer = "none" /\ r.own /\ r.op \in Commands
      BY DEF NewRequest, Request
    <2>2. net' = Append(net, r) /\ shown /\ UNCHANGED <<cartList, cart, failed>>
      BY <1>4 DEF Press, Send, Rendered, page
    <2> HIDE DEF r
    <2> QED BY <2>1, <2>2, SendRenewing
  <1>5. CASE GoToPay
    BY <1>5 DEF GoToPay, page, Renewing, AnsweredFirst, CarriedIsCurrent, ShownIsCurrent,
                StrangersFirst, RenewedAfter, Renewal
  <1>6. ASSUME NEW g \in Good, AddElsewhere(g)
        PROVE  Renewing'
    <2> DEFINE r == NewRequest("add", g, FALSE)
    <2>1. r \in Request /\ r.answer = "none"
      BY DEF NewRequest, Request
    <2>2. net' = Append(net, r) /\ ~ shown' /\ UNCHANGED <<cartList, cart, failed>>
      BY <1>6 DEF AddElsewhere, Send, page
    <2> HIDE DEF r
    <2> QED BY <2>1, <2>2, SendRenewing
  <1> QED BY <1>1, <1>2, <1>3, <1>4, <1>5, <1>6 DEF User

LEMMA StepRenewing == TypeOK /\ (InOrder => Renewing) /\ [Next]_vars => (InOrder => Renewing)'
  <1> SUFFICES ASSUME InOrder, TypeOK, Renewing, [Next]_vars PROVE Renewing'
    OBVIOUS
  <1>1. CASE UNCHANGED vars
    BY <1>1 DEF vars, page, Renewing, AnsweredFirst, CarriedIsCurrent, ShownIsCurrent,
                StrangersFirst, RenewedAfter, Renewal
  <1> QED BY <1>1, UserRenewing, AnswerRenewing, ServerRenewing DEF Next

LEMMA RenewingSettles == (InOrder => Renewing) => SettledShowsServerCart
  <1>1. Len(<<>>) = 0 /\ 1..0 = {}
    OBVIOUS
  <1> QED BY <1>1 DEF Renewing, ShownIsCurrent, RenewedAfter, SettledShowsServerCart, Rendered

\* However commands, reloads, visits and purchases overlap and fail, a page
\* that has heard of everything and of no failure shows the server's cart
\* (CartPage.js:219-302).
THEOREM SettledShowsServerCartHolds == Spec => []SettledShowsServerCart
  <1>1. Init => (InOrder => Renewing)
    BY InitRenewing
  <1>2. IndInv => TypeOK
    BY DEF IndInv
  <1> QED BY <1>1, <1>2, InitIndInv, StepIndInv, StepRenewing, RenewingSettles, PTL DEF Spec
------------------------------------------------------------------------------
(* The purchase *)

\* What the contract is promised under.
Orderly == InOrder /\ Careful /\ ~ FastTaps

PaymentTypes ==
    /\ phase \in [Attempt -> {"unused", "creating", "cleaning", "bought", "refused", "notCleaned"}]
    /\ answer \in [Attempt -> {"none", "SUCCESS", "WARNING", "FAILED"}]
    /\ ordered \subseteq Attempt
    /\ cleared \subseteq Attempt

Pays(k) == phase[k] \in {"creating", "cleaning"}

NothingRefused == \A k \in Attempt : phase[k] \notin {"refused", "notCleaned"}

\* Before the page is opened nothing of it has happened.
NotOpenedYet == ~ Opened => /\ nav = "gone"
                            /\ ~ disabled
                            /\ phase = [k \in Attempt |-> "unused"]
                            /\ answer = [k \in Attempt |-> "none"]
                            /\ ordered = {}
                            /\ cleared = {}

\* What the server has recorded of an attempt.
RecordsMatch ==
    \A k \in Attempt :
       /\ ~ Pays(k) => answer[k] = "none"
       /\ k \in ordered => \/ phase[k] \in {"cleaning", "bought", "refused", "notCleaned"}
                           \/ phase[k] = "creating" /\ answer[k] # "none"
       /\ phase[k] = "creating" /\ answer[k] = "SUCCESS" => k \in ordered
       /\ phase[k] = "cleaning" => k \in ordered
       /\ k \in cleared => \/ phase[k] \in {"bought", "notCleaned"}
                           \/ phase[k] = "cleaning" /\ answer[k] # "none"

\* The flags let the overlay down only after a failure, and until then it
\* keeps the second attempt away.
OneAttempt ==
    /\ disabled => fetched \/ ~ NothingRefused
    /\ (\E k \in Attempt : phase[k] # "unused") /\ nav # "gone" /\ NothingRefused => overlay
    /\ \A j, k \in Attempt : phase[j] # "unused" /\ phase[k] # "unused" => j = k

\* While the order page is there nothing else reaches the cart.
CartAwaitsPurchase ==
    /\ OnTop => net = <<>> /\ (cleared = {} => cart = handed)
    /\ (\E k \in Attempt : Pays(k)) => OnTop /\ ~ shown

CheckoutInv == /\ IndInv
               /\ PaymentTypes
               /\ NotOpenedYet
               /\ Orderly => Renewing /\ RecordsMatch /\ OneAttempt /\ CartAwaitsPurchase

LEMMA InitCheckoutInv == CheckoutInit => CheckoutInv
  <1> SUFFICES ASSUME CheckoutInit PROVE CheckoutInv
    OBVIOUS
  <1>1. IndInv /\ Renewing
    BY InitIndInv, InitRenewing DEF CheckoutInit
  <1>2. /\ nav = "gone" /\ ~ disabled /\ handed = NotHanded
        /\ phase = [k \in Attempt |-> "unused"]
        /\ answer = [k \in Attempt |-> "none"]
        /\ ordered = {} /\ cleared = {}
    BY DEF CheckoutInit, Init, Order!Mount
  <1>3. PaymentTypes /\ NotOpenedYet
    BY <1>2 DEF PaymentTypes, NotOpenedYet
  <1>4. RecordsMatch /\ OneAttempt /\ CartAwaitsPurchase
    BY <1>2 DEF RecordsMatch, OneAttempt, CartAwaitsPurchase, Opened, OnTop, Pays
  <1> QED BY <1>1, <1>3, <1>4 DEF CheckoutInv

\* The cart page's steps and those of its requests.
LEMMA CartStepInv ==
    ASSUME CheckoutInv, UNCHANGED orderVars, UNCHANGED handed,
           \/ Blur
           \/ ~ OnTop /\ User
           \/ \E i \in DOMAIN net : Answer(i) \/ Server(i)
    PROVE  CheckoutInv'
  <1> USE DEF CheckoutInv
  <1>1. Next
    BY DEF Next, User
  <1>2. IndInv' /\ (Orderly => Renewing)'
    BY <1>1, StepIndInv, StepRenewing DEF IndInv, Orderly
  <1>3. PaymentTypes' /\ NotOpenedYet'
    BY DEF orderVars, PaymentTypes, NotOpenedYet, Opened
  <1>4. ASSUME Orderly PROVE RecordsMatch' /\ OneAttempt' /\ CartAwaitsPurchase'
    <2>1. RecordsMatch' /\ OneAttempt'
      BY <1>4 DEF orderVars, RecordsMatch, OneAttempt, NothingRefused, Pays
    <2>2. CartAwaitsPurchase'
      <3>1. CASE ~ OnTop
        BY <1>4, <3>1 DEF orderVars, CartAwaitsPurchase, OnTop, Opened, Pays
      <3>2. CASE OnTop
        <4>1. net = <<>> /\ DOMAIN net = {}
          BY <1>4, <3>2 DEF CartAwaitsPurchase
        <4>2. Blur
          BY <3>2, <4>1
        <4> QED BY <1>4, <3>2, <4>1, <4>2 DEF orderVars, CartAwaitsPurchase, OnTop, Opened, Pays, Blur
      <3> QED BY <3>1, <3>2
    <2> QED BY <2>1, <2>2
  <1> QED BY <1>2, <1>3, <1>4

LEMMA PayInv ==
    ASSUME CheckoutInv, Pay
    PROVE  CheckoutInv'
  <1> USE DEF CheckoutInv
  <1>1. GoToPay /\ ~ Opened /\ nav' = "shown"
        /\ UNCHANGED <<disabled, fetched, overlay, phase, answer, ordered, cleared>>
    BY DEF Pay
  <1>2. IndInv' /\ (Orderly => Renewing)'
    BY <1>1, StepIndInv, StepRenewing DEF IndInv, Orderly, Next, User
  <1>3. handed' = cartList /\ handed' # NotHanded /\ UNCHANGED <<net, cart>> /\ Rendered
    <2>1. Rendered /\ handed' = cartList /\ UNCHANGED <<net, cart>>
      BY <1>1 DEF GoToPay
    <2> QED BY <2>1, CartAssumption DEF IndInv, TypeOK
  <1>4. PaymentTypes' /\ NotOpenedYet'
    BY <1>1, <1>3 DEF PaymentTypes, NotOpenedYet, Opened
  <1>5. ASSUME Orderly PROVE RecordsMatch' /\ OneAttempt' /\ CartAwaitsPurchase'
    <2>1. RecordsMatch' /\ OneAttempt'
      BY <1>1, <1>5 DEF NotOpenedYet, RecordsMatch, OneAttempt, NothingRefused, Pays
    <2>2. net = <<>> /\ cartList = cart
      BY <1>3, <1>5, RenewingSettles DEF Orderly, Pay, SettledShowsServerCart
    <2>3. CartAwaitsPurchase'
      BY <1>1, <1>3, <2>2 DEF CartAwaitsPurchase, OnTop, Opened, NotOpenedYet, Pays
    <2> QED BY <2>1, <2>3
  <1> QED BY <1>2, <1>4, <1>5

\* The order page's own steps leave the server's records alone, and are one of
\* these: a payment begins; its requests are answered; its animation ends; or
\* the user moves about.
MovesAbout ==
    /\ UNCHANGED <<overlay, disabled, fetched, phase, answer>>
    /\ nav = "gone" => nav' = "gone"
    /\ Careful /\ nav # "gone" /\ nav' = "gone" => \A k \in Attempt : ~ Pays(k)

Begins(k) == /\ ~ shown
             /\ Careful => NothingRefused
             /\ nav = "shown" /\ nav' = nav
             /\ FastTaps \/ ~ overlay
             /\ phase[k] = "unused"
             /\ overlay'
             /\ phase' = [phase EXCEPT ![k] = "creating"]
             /\ UNCHANGED <<disabled, fetched, answer>>

GoesOn(k) == /\ phase[k] = "creating"
             /\ answer[k] = "SUCCESS"
             /\ phase' = [phase EXCEPT ![k] = "cleaning"]
             /\ answer' = [answer EXCEPT ![k] = "none"]
             /\ UNCHANGED <<nav, overlay, disabled, fetched>>

Ends(k, end) == /\ Pays(k)
                /\ answer[k] # "none"
                /\ phase[k] = "creating" => end = "refused" \/ answer[k] = "SUCCESS"
                /\ phase[k] = "cleaning" => end # "refused"
                /\ phase' = [phase EXCEPT ![k] = end]
                /\ answer' = [answer EXCEPT ![k] = "none"]
                /\ end = "bought" => fetched' = (fetched \/ nav # "gone")
                /\ end = "bought" => disabled' = (disabled \/ nav # "gone")
                /\ UNCHANGED <<nav, overlay>>

OverlayMayFall == /\ (disabled /\ ~ fetched) \/ overlay' = overlay
                  /\ nav = "gone" <=> nav' = "gone"
                  /\ UNCHANGED <<disabled, fetched, phase, answer>>

LEMMA OrderStepShapes ==
    ASSUME AtOrder
    PROVE  \/ MovesAbout
           \/ \E k \in Attempt : \/ Begins(k)
                                 \/ GoesOn(k)
                                 \/ \E end \in {"bought", "refused", "notCleaned"} : Ends(k, end)
           \/ OverlayMayFall
  <1>1. ASSUME \/ Order!OpenAddressPage
               \/ \E a \in Address : Order!ChooseAddress(a)
               \/ Order!BackFromAddressPage
               \/ Order!BackFromSuccessPage
               \/ \E s \in LoadSlot : Order!LoadAnswered(s) \/ Order!ServeLoad(s)
               \/ Order!Paint
               \/ Order!ServeChange
        PROVE  MovesAbout
    BY <1>1 DEF Order!OpenAddressPage, Order!ChooseAddress, Order!BackFromAddressPage,
                Order!BackFromSuccessPage, Order!LoadAnswered, Order!ServeLoad, Order!Paint,
                Order!ServeChange, Order!Return, Order!Touchable, Order!payment, Order!screen,
                Order!server, MovesAbout
  <1>2. ASSUME LeaveOrder
        PROVE  MovesAbout
    BY <1>2 DEF LeaveOrder, Order!Leave, Order!payment, Order!Waiting, MovesAbout, Pays
  <1>3. ASSUME NEW k \in Attempt, PressPay(k)
        PROVE  Begins(k)
    BY <1>3 DEF PressPay, Order!PressPay, Order!Touchable, Order!screen, Begins, NothingRefused
  <1>4. ASSUME NEW k \in Attempt, Order!GoOnToClean(k)
        PROVE  GoesOn(k)
    BY <1>4 DEF Order!GoOnToClean, Order!screen, GoesOn
  <1>5. ASSUME NEW k \in Attempt, Order!PayEnds(k)
        PROVE  \E end \in {"bought", "refused", "notCleaned"} : Ends(k, end)
    BY <1>5 DEF Order!PayEnds, Order!Waiting, Order!Report, Order!Mounted, Order!screen, Ends, Pays
  <1>6. ASSUME NEW k \in Attempt, Order!AnimationEnds(k)
        PROVE  OverlayMayFall
    BY <1>6 DEF Order!AnimationEnds, Order!Mounted, OverlayMayFall
  <1> QED BY <1>1, <1>2, <1>3, <1>4, <1>5, <1>6 DEF AtOrder, Order!Answered

LEMMA OrderStepRecords ==
    ASSUME AtOrder
    PROVE  UNCHANGED <<ordered, cleared>>
  BY DEF AtOrder, LeaveOrder, PressPay, Order!OpenAddressPage, Order!ChooseAddress,
         Order!BackFromAddressPage, Order!BackFromSuccessPage, Order!Leave,
         Order!LoadAnswered, Order!ServeLoad, Order!PressPay, Order!Answered,
         Order!GoOnToClean, Order!PayEnds, Order!AnimationEnds, Order!Paint,
         Order!ServeChange, Order!server

\* The order page's own steps.
LEMMA OrderStepInv ==
    ASSUME CheckoutInv, AtOrder
    PROVE  CheckoutInv'
  <1> USE DEF CheckoutInv
  <1>0. Opened /\ UNCHANGED <<shown, loaded, cartList, net, cart, handed, failed>>
    BY DEF AtOrder, vars, page
  <1>1. IndInv' /\ (Orderly => Renewing)'
    <2>1. UNCHANGED vars
      BY DEF AtOrder
    <2> QED BY <2>1, StepIndInv, StepRenewing DEF IndInv, Orderly
  <1>2. UNCHANGED <<ordered, cleared>>
    BY OrderStepRecords
  <1>3. NotOpenedYet'
    BY <1>0 DEF NotOpenedYet, Opened
  <1>4. CASE MovesAbout
    <2>1. PaymentTypes'
      BY <1>2, <1>4 DEF MovesAbout, PaymentTypes
    <2>2. ASSUME Orderly PROVE RecordsMatch' /\ OneAttempt' /\ CartAwaitsPurchase'
      <3>1. RecordsMatch' /\ OneAttempt'
        BY <1>2, <1>4, <2>2 DEF MovesAbout, RecordsMatch, OneAttempt, NothingRefused, Pays
      <3>2. CartAwaitsPurchase'
        BY <1>0, <1>2, <1>4, <2>2 DEF Orderly, MovesAbout, CartAwaitsPurchase, OnTop, Opened, Pays
      <3> QED BY <3>1, <3>2
    <2> QED BY <1>1, <1>3, <2>1, <2>2
  <1>5. ASSUME NEW k \in Attempt, Begins(k)
        PROVE  CheckoutInv'
    <2>1. PaymentTypes'
      BY <1>2, <1>5 DEF Begins, PaymentTypes
    <2>2. ASSUME Orderly PROVE RecordsMatch' /\ OneAttempt' /\ CartAwaitsPurchase'
      <3>1. \A j \in Attempt : phase[j] = "unused"
        BY <1>5, <2>2 DEF Orderly, Begins, OneAttempt
      <3>2. \A j \in Attempt : phase'[j] = IF j = k THEN "creating" ELSE "unused"
        BY <1>5, <3>1 DEF Begins, PaymentTypes
      <3>3. RecordsMatch'
        BY <1>2, <1>5, <2>2, <3>1, <3>2 DEF Begins, RecordsMatch, Pays
      <3>4. OneAttempt'
        BY <1>5, <2>2, <3>1, <3>2 DEF Begins, OneAttempt, NothingRefused
      <3>5. CartAwaitsPurchase'
        BY <1>0, <1>2, <1>5, <2>2 DEF Begins, CartAwaitsPurchase, OnTop, Opened
      <3> QED BY <3>3, <3>4, <3>5
    <2> QED BY <1>1, <1>3, <2>1, <2>2
  <1>6. ASSUME NEW k \in Attempt, GoesOn(k)
        PROVE  CheckoutInv'
    <2>1. PaymentTypes'
      BY <1>2, <1>6 DEF GoesOn, PaymentTypes
    <2>2. ASSUME Orderly PROVE RecordsMatch' /\ OneAttempt' /\ CartAwaitsPurchase'
      <3>1. RecordsMatch'
        BY <1>2, <1>6, <2>2 DEF GoesOn, RecordsMatch, PaymentTypes, Pays
      <3>2. OneAttempt'
        BY <1>6, <2>2 DEF GoesOn, OneAttempt, NothingRefused, PaymentTypes
      <3>3. CartAwaitsPurchase'
        <4>1. \A j \in Attempt : Pays(j)' => \E m \in Attempt : Pays(m)
          BY <1>6 DEF GoesOn, Pays, PaymentTypes
        <4> QED BY <1>0, <1>2, <1>6, <2>2, <4>1 DEF GoesOn, CartAwaitsPurchase, OnTop, Opened
      <3> QED BY <3>1, <3>2, <3>3
    <2> QED BY <1>1, <1>3, <2>1, <2>2
  <1>7. ASSUME NEW k \in Attempt, NEW end \in {"bought", "refused", "notCleaned"}, Ends(k, end)
        PROVE  CheckoutInv'
    <2>1. PaymentTypes'
      BY <1>2, <1>7 DEF Ends, PaymentTypes
    <2>2. ASSUME Orderly PROVE RecordsMatch' /\ OneAttempt' /\ CartAwaitsPurchase'
      <3>0. \A j \in Attempt : /\ phase'[j] = IF j = k THEN end ELSE phase[j]
                               /\ answer'[j] = IF j = k THEN "none" ELSE answer[j]
        BY <1>7 DEF Ends, PaymentTypes
      <3>1. RecordsMatch'
        BY <1>2, <1>7, <2>2, <3>0 DEF Ends, RecordsMatch, Pays
      <3>2. OneAttempt'
        <4>1. disabled' => fetched' \/ ~ NothingRefused'
          BY <1>7, <2>2, <3>0 DEF Ends, OneAttempt, NothingRefused, Pays
        <4>2. (\E j \in Attempt : phase'[j] # "unused") /\ nav' # "gone" /\ NothingRefused' => overlay'
          BY <1>7, <2>2, <3>0 DEF Ends, OneAttempt, NothingRefused, Pays
        <4>3. \A i, j \in Attempt : phase'[i] # "unused" /\ phase'[j] # "unused" => i = j
          BY <1>7, <2>2, <3>0 DEF Ends, OneAttempt, Pays
        <4> QED BY <4>1, <4>2, <4>3 DEF OneAttempt
      <3>3. CartAwaitsPurchase'
        <4>1. \A j \in Attempt : Pays(j)' => Pays(j)
          BY <3>0 DEF Pays
        <4> QED BY <1>0, <1>2, <1>7, <2>2, <4>1 DEF Ends, CartAwaitsPurchase, OnTop, Opened
      <3> QED BY <3>1, <3>2, <3>3
    <2> QED BY <1>1, <1>3, <2>1, <2>2
  <1>8. CASE OverlayMayFall
    <2>1. PaymentTypes'
      BY <1>2, <1>8 DEF OverlayMayFall, PaymentTypes
    <2>2. ASSUME Orderly PROVE RecordsMatch' /\ OneAttempt' /\ CartAwaitsPurchase'
      <3>1. RecordsMatch' /\ OneAttempt'
        BY <1>2, <1>8, <2>2 DEF OverlayMayFall, RecordsMatch, OneAttempt, NothingRefused, Pays
      <3>2. CartAwaitsPurchase'
        BY <1>0, <1>2, <1>8, <2>2 DEF OverlayMayFall, CartAwaitsPurchase, OnTop, Opened, Pays
      <3> QED BY <3>1, <3>2
    <2> QED BY <1>1, <1>3, <2>1, <2>2
  <1> QED BY <1>4, <1>5, <1>6, <1>7, <1>8, OrderStepShapes

\* What the server makes of a payment's request.
Creates(k) == phase[k] = "creating" /\ ordered' = ordered \cup {k} /\ cleared' = cleared

Empties(k) == phase[k] = "cleaning" /\ cleared' = cleared \cup {k} /\ ordered' = ordered

LEMMA ServerStepShapes ==
    ASSUME NEW k \in Attempt, PaymentReachesServer(k)
    PROVE  /\ Opened /\ Pays(k)
           /\ answer[k] = "none"
           /\ \E a \in {"SUCCESS", "WARNING", "FAILED"} :
                 /\ answer' = [answer EXCEPT ![k] = a]
                 /\ \/ Creates(k)
                    \/ Empties(k)
                    \/ a # "SUCCESS" /\ UNCHANGED <<ordered, cleared>>
           /\ cart' = IF cleared' = cleared THEN cart ELSE EmptyCart
           /\ UNCHANGED <<nav, overlay, disabled, fetched, phase>>
           /\ UNCHANGED <<shown, loaded, cartList, net, handed, failed>>
  <1>1. Order!Server(k) /\ Opened /\ cart' = (IF cleared' = cleared THEN cart ELSE EmptyCart)
        /\ UNCHANGED <<shown, loaded, cartList, net, handed, failed>>
    BY DEF PaymentReachesServer, page
  <1>2. CASE Order!Serve(k)
    BY <1>1, <1>2 DEF Order!Serve, Order!Waiting, Order!Execute, Order!screen, Pays, Creates, Empties
  <1>3. CASE Order!Refuse(k)
    BY <1>1, <1>3 DEF Order!Refuse, Order!Waiting, Order!screen, Order!server, Pays
  <1>4. CASE Order!Lose(k)
    BY <1>1, <1>4 DEF Order!Lose, Order!Waiting, Order!Execute, Order!screen, Pays, Creates, Empties
  <1> QED BY <1>1, <1>2, <1>3, <1>4 DEF Order!Server

LEMMA EmptyCartIsCart == EmptyCart \in Cart
  BY CartAssumption DEF EmptyCart, Cart

\* The cart page does not notice that the server's cart is emptied.
LEMMA EmptiedKeepsIndInv ==
    ASSUME IndInv, cart' \in Cart, UNCHANGED <<shown, loaded, cartList, net, handed, failed>>
    PROVE  IndInv'
  BY DEF IndInv, TypeOK, AnswersAreCarts, PayGetsCart, LoadingHasReason, Rendered

LEMMA ServerStepInv ==
    ASSUME CheckoutInv, NEW k \in Attempt, PaymentReachesServer(k)
    PROVE  CheckoutInv'
  <1> USE DEF CheckoutInv
  <1>1. PICK a \in {"SUCCESS", "WARNING", "FAILED"} :
           /\ answer' = [answer EXCEPT ![k] = a]
           /\ \/ Creates(k)
              \/ Empties(k)
              \/ a # "SUCCESS" /\ UNCHANGED <<ordered, cleared>>
    BY ServerStepShapes
  <1>2. /\ Opened /\ Pays(k) /\ answer[k] = "none"
        /\ cart' = IF cleared' = cleared THEN cart ELSE EmptyCart
        /\ UNCHANGED <<nav, overlay, disabled, fetched, phase>>
        /\ UNCHANGED <<shown, loaded, cartList, net, handed, failed>>
    BY ServerStepShapes
  <1>3. cart' \in Cart
    BY <1>2, EmptyCartIsCart DEF IndInv, TypeOK
  <1>4. IndInv'
    BY <1>2, <1>3, EmptiedKeepsIndInv
  <1>5. PaymentTypes' /\ NotOpenedYet'
    BY <1>1, <1>2 DEF PaymentTypes, NotOpenedYet, Opened, Creates, Empties
  <1>6. ASSUME Orderly PROVE Renewing' /\ RecordsMatch' /\ OneAttempt' /\ CartAwaitsPurchase'
    <2>0. \A j \in Attempt : answer'[j] = IF j = k THEN a ELSE answer[j]
      BY <1>1 DEF PaymentTypes
    <2>1. RecordsMatch'
      BY <1>1, <1>2, <1>6, <2>0 DEF RecordsMatch, Creates, Empties, Pays
    <2>2. OneAttempt'
      BY <1>2, <1>6 DEF OneAttempt, NothingRefused
    <2>3. OnTop /\ ~ shown /\ net = <<>>
      BY <1>2, <1>6 DEF CartAwaitsPurchase
    <2>4. CartAwaitsPurchase'
      <3>1. (cleared = {} => cart = handed) => (cleared' = {} => cart' = handed)
        BY <1>1, <1>2 DEF Creates, Empties
      <3> QED BY <1>2, <1>6, <2>3, <3>1 DEF CartAwaitsPurchase, OnTop, Opened, Pays
    <2>5. Renewing'
      BY <1>2, <1>6, <2>3 DEF Renewing, AnsweredFirst
    <2> QED BY <2>1, <2>2, <2>4, <2>5
  <1> QED BY <1>4, <1>5, <1>6

LEMMA BelowOrderHandsNothing ==
    ASSUME BelowOrder
    PROVE  handed' = handed
  <1>1. ASSUME Blur PROVE handed' = handed
    BY <1>1 DEF Blur
  <1>2. ASSUME NEW i \in DOMAIN net, Answer(i) PROVE handed' = handed
    BY <1>2 DEF Answer, LoadAnswered, LoadFailed, CommandDone, CommandOver
  <1>3. ASSUME NEW i \in DOMAIN net, Server(i) PROVE handed' = handed
    BY <1>3 DEF Server, Serve, Refuse, Lose
  <1> QED BY <1>1, <1>2, <1>3 DEF BelowOrder

LEMMA StepCheckoutInv == CheckoutInv /\ [CheckoutNext]_checkoutVars => CheckoutInv'
  <1> SUFFICES ASSUME CheckoutInv, [CheckoutNext]_checkoutVars PROVE CheckoutInv'
    OBVIOUS
  <1>1. CASE AtCart
    <2>1. ~ OnTop /\ User /\ UNCHANGED orderVars /\ UNCHANGED handed
      BY <1>1 DEF AtCart, User, Focus, Unmount, Press, AddElsewhere
    <2> QED BY <2>1, CartStepInv
  <1>2. CASE BelowOrder
    <2>1. UNCHANGED orderVars /\ UNCHANGED handed /\ (Blur \/ \E i \in DOMAIN net : Answer(i) \/ Server(i))
      BY <1>2, BelowOrderHandsNothing DEF BelowOrder
    <2> QED BY <2>1, CartStepInv
  <1>3. CASE UNCHANGED checkoutVars
    <2>1. UNCHANGED vars /\ UNCHANGED orderVars
      BY <1>3 DEF checkoutVars
    <2>2. IndInv' /\ (Orderly => Renewing)'
      BY <2>1, StepIndInv, StepRenewing DEF IndInv, Orderly, CheckoutInv
    <2>3. PaymentTypes' /\ NotOpenedYet' /\ (Orderly => RecordsMatch /\ OneAttempt /\ CartAwaitsPurchase)'
      BY <2>1 DEF CheckoutInv, vars, page, orderVars, PaymentTypes, NotOpenedYet, Opened, RecordsMatch,
                  OneAttempt, NothingRefused, CartAwaitsPurchase, OnTop, Pays, Orderly
    <2> QED BY <2>2, <2>3 DEF CheckoutInv
  <1> QED BY <1>1, <1>2, <1>3, PayInv, OrderStepInv, ServerStepInv DEF CheckoutNext
------------------------------------------------------------------------------
(* The refinement *)

Sold == [k \in Attempt |-> IF k \in ordered THEN handed ELSE NotHanded]

LEMMA InitContract == CheckoutInit => Contract!Init
  <1> SUFFICES ASSUME CheckoutInit PROVE Contract!Init
    OBVIOUS
  <1>1. cart \in Cart /\ ordered = {} /\ cleared = {}
    BY DEF CheckoutInit, Init, Order!Mount
  <1> QED BY <1>1 DEF Contract!Init

\* Whatever the user and the cart page's requests do to the cart is a change by
\* the user; opening the order page and the page's own steps sell nothing.
LEMMA OtherStepsContract ==
    ASSUME CheckoutInv, CheckoutInv', UNCHANGED <<ordered, cleared>>,
           ordered = {} \/ handed' = handed
    PROVE  Contract!Change
  <1>1. cart' \in Cart
    BY DEF CheckoutInv, IndInv, TypeOK
  <1>2. Sold' = Sold
    BY DEF Sold
  <1> QED BY <1>1, <1>2 DEF Contract!Change, Sold

LEMMA PaymentContract ==
    ASSUME CheckoutInv, CheckoutInv', Orderly, NEW k \in Attempt, PaymentReachesServer(k)
    PROVE  Contract!Next
  <1>1. /\ Pays(k) /\ answer[k] = "none" /\ Opened
        /\ Creates(k) \/ Empties(k) \/ UNCHANGED <<ordered, cleared>>
        /\ cart' = IF cleared' = cleared THEN cart ELSE EmptyCart
        /\ handed' = handed
    BY ServerStepShapes
  <1>2. /\ RecordsMatch /\ OneAttempt /\ CartAwaitsPurchase
        /\ ordered \subseteq Attempt /\ cleared \subseteq Attempt
    BY DEF CheckoutInv, PaymentTypes
  <1>3. k \notin cleared /\ \A j \in Attempt : j \in ordered \cup cleared => j = k
    BY <1>1, <1>2 DEF RecordsMatch, OneAttempt, Pays
  <1>4. cleared = {} /\ cart = handed
    BY <1>1, <1>2, <1>3 DEF CartAwaitsPurchase
  <1>5. CASE Creates(k)
    <2>1. ordered = {}
      BY <1>1, <1>2, <1>3, <1>5 DEF RecordsMatch, Creates
    <2>2. Sold = [j \in Attempt |-> NotHanded]
      BY <2>1 DEF Sold
    <2>3. Sold' = [Sold EXCEPT ![k] = cart]
      BY <1>1, <1>4, <1>5, <2>1 DEF Sold, Creates
    <2>4. cart' = cart /\ cleared' = cleared
      BY <1>1, <1>5 DEF Creates
    <2>5. Contract!Sell(k)
      BY <2>2, <2>3, <2>4 DEF Contract!Sell, Sold
    <2> QED BY <2>5 DEF Contract!Next
  <1>6. CASE Empties(k)
    <2>1. k \in ordered
      BY <1>2, <1>6 DEF RecordsMatch, Empties
    <2>2. Sold[k] = cart /\ Sold' = Sold
      BY <1>1, <1>4, <1>6, <2>1 DEF Sold, Empties
    <2>3. cart' = EmptyCart /\ cleared' = cleared \cup {k}
      BY <1>1, <1>3, <1>6 DEF Empties
    <2>4. Contract!TakeOut(k)
      BY <1>3, <2>2, <2>3 DEF Contract!TakeOut, Sold
    <2> QED BY <2>4 DEF Contract!Next
  <1>7. CASE UNCHANGED <<ordered, cleared>>
    BY <1>1, <1>7, OtherStepsContract DEF Contract!Next
  <1> QED BY <1>1, <1>5, <1>6, <1>7

LEMMA StepContract ==
    CheckoutInv /\ CheckoutInv' /\ Orderly /\ [CheckoutNext]_checkoutVars => [Contract!Next]_(Contract!vars)
  <1> SUFFICES ASSUME CheckoutInv, CheckoutInv', Orderly, [CheckoutNext]_checkoutVars
               PROVE  [Contract!Next]_(Contract!vars)
    OBVIOUS
  <1>1. CASE Pay
    <2>1. UNCHANGED <<ordered, cleared>> /\ ordered = {}
      BY <1>1 DEF Pay, CheckoutInv, NotOpenedYet
    <2> QED BY <2>1, OtherStepsContract DEF Contract!Next
  <1>2. CASE AtCart
    <2>1. UNCHANGED <<ordered, cleared, handed>>
      BY <1>2 DEF AtCart, orderVars, Focus, Unmount, Press, AddElsewhere
    <2> QED BY <2>1, OtherStepsContract DEF Contract!Next
  <1>3. CASE BelowOrder
    <2>1. UNCHANGED <<ordered, cleared, handed>>
      BY <1>3, BelowOrderHandsNothing DEF BelowOrder, orderVars
    <2> QED BY <2>1, OtherStepsContract DEF Contract!Next
  <1>4. CASE AtOrder
    <2>1. UNCHANGED <<ordered, cleared, handed>>
      BY <1>4, OrderStepRecords DEF AtOrder, vars
    <2> QED BY <2>1, OtherStepsContract DEF Contract!Next
  <1>5. CASE UNCHANGED checkoutVars
    <2>1. UNCHANGED <<cart, handed, ordered, cleared>>
      BY <1>5 DEF checkoutVars, vars, orderVars
    <2>2. Sold' = Sold
      BY <2>1 DEF Sold
    <2> QED BY <2>1, <2>2 DEF Contract!vars, Sold
  <1> QED BY <1>1, <1>2, <1>3, <1>4, <1>5, PaymentContract DEF CheckoutNext

\* A user who waits for the cart page's requests and for the payment, on a
\* network that keeps the order of the requests, buys exactly the cart on the
\* server, at most once, and the purchase takes exactly those goods out of the
\* cart, whatever is lost (CartPage.js:270-278, OrderPage.js:186-226).
THEOREM CheckoutImplementsContract ==
    ASSUME InOrder, Careful, ~ FastTaps
    PROVE  CheckoutSpec => ImplementsContract
  <1>1. Orderly
    BY DEF Orderly
  <1> QED BY <1>1, InitCheckoutInv, StepCheckoutInv, InitContract, StepContract, PTL
          DEF CheckoutSpec, ImplementsContract, Contract!Spec
==============================================================================
