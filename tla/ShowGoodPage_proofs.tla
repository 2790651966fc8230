------------------------- MODULE ShowGoodPage_proofs -------------------------
(***************************************************************************)
(* For any number of loads and adds under way, in any order and with any   *)
(* loss: the page waits, and keeps its cart button shut, only for a reason,*)
(* and for a user who waits the button is shut during the animation. Where *)
(* no answer overtakes another, the circle settles on the server's amount. *)
(***************************************************************************)
EXTENDS ShowGoodPage, SequenceTheorems, TLAPS

\* The requests behind the cart button.
OfButton == {"add", "badge"}

\* At most one of the requests is of these kinds.
AtMostOne(requests, kinds) ==
    \A i, j \in DOMAIN requests :
        requests[i].kind \in kinds /\ requests[j].kind \in kinds => i = j

\* Whoever could touch the page has seen its shop.
ShopKnown == painted \/ animating \/ UnderWay(net, OfButton) => shop

\* For a user who waits, one thing at a time is under way for the cart button: a
\* request to add, the animation, the request for the amount after it.
OneAdd == ~ doubled => /\ AtMostOne(net, OfButton)
                       /\ animating => ~ gate /\ ~ UnderWay(net, OfButton)
                       /\ UnderWay(net, {"badge"}) => ~ gate

IndInv == TypeOK /\ LoadingHasReason /\ ShutHasReason /\ ShopKnown /\ OneAdd
------------------------------------------------------------------------------
(* The requests under way *)

\* A sequence without its element at i.
LEMMA RemoveAtElements ==
    ASSUME NEW S, NEW s \in Seq(S), NEW i \in 1..Len(s)
    PROVE  /\ RemoveAt(s, i) \in Seq(S)
           /\ Len(s) \in Nat
           /\ Len(RemoveAt(s, i)) = Len(s) - 1
           /\ \A j \in 1..(Len(s) - 1) : RemoveAt(s, i)[j] = s[IF j < i THEN j ELSE j + 1]
  <1> DEFINE a == SubSeq(s, 1, i - 1)
             b == SubSeq(s, i + 1, Len(s))
  <1>1. /\ a \in Seq(S) /\ Len(a) = i - 1 /\ \A j \in 1..(i - 1) : a[j] = s[j]
        /\ b \in Seq(S) /\ Len(b) = Len(s) - i /\ \A j \in 1..(Len(s) - i) : b[j] = s[i + j]
    BY SubSeqProperties
  <1>2. RemoveAt(s, i) = a \o b
    BY DEF RemoveAt
  <1> HIDE DEF a, b
  <1>3. /\ a \o b \in Seq(S)
        /\ Len(a \o b) = Len(a) + Len(b)
        /\ \A j \in 1..(Len(a) + Len(b)) : (a \o b)[j] = IF j <= Len(a) THEN a[j] ELSE b[j - Len(a)]
    BY <1>1, ConcatProperties
  <1>4. ASSUME NEW j \in 1..(Len(s) - 1)
        PROVE  (a \o b)[j] = s[IF j < i THEN j ELSE j + 1]
    <2>1. CASE j < i
      BY <1>1, <1>3, <2>1
    <2>2. CASE j >= i
      <3>1. j - (i - 1) \in 1..(Len(s) - i) /\ i + (j - (i - 1)) = j + 1 /\ ~ (j <= i - 1)
            /\ j \in 1..((i - 1) + (Len(s) - i)) /\ ~ (j < i)
        BY <2>2
      <3>2. (a \o b)[j] = b[j - (i - 1)]
        BY <1>1, <1>3, <3>1
      <3> QED BY <1>1, <3>1, <3>2
    <2>3. j < i \/ j >= i
      OBVIOUS
    <2> QED BY <2>1, <2>2, <2>3
  <1> QED BY <1>1, <1>2, <1>3, <1>4

LEMMA NewIsRequest ==
    ASSUME NEW kind \in Loads \cup OfButton
    PROVE  New(kind) \in Request /\ New(kind).kind = kind
  BY DEF New, Request, OfButton

\* One more request is under way.
LEMMA OneMore ==
    ASSUME NEW s \in Seq(Request), NEW r \in Request, NEW t \in Seq(Request),
           t = Append(s, r)
    PROVE  /\ \A kinds : UnderWay(t, kinds) <=> UnderWay(s, kinds) \/ r.kind \in kinds
           /\ \A kinds : AtMostOne(s, kinds) /\ (r.kind \in kinds => ~ UnderWay(s, kinds))
                            => AtMostOne(t, kinds)
  <1>1. /\ DOMAIN s = 1..Len(s) /\ DOMAIN t = 1..Len(t)
        /\ Len(s) \in Nat
        /\ Len(t) = Len(s) + 1
        /\ \A i \in 1..Len(s) : t[i] = s[i]
        /\ t[Len(s) + 1] = r
    OBVIOUS
  <1>2. \A j \in 1..(Len(s) + 1) : j \in 1..Len(s) \/ j = Len(s) + 1
    BY <1>1
  <1>3. Len(s) + 1 \in 1..(Len(s) + 1) /\ \A m \in 1..Len(s) : m \in 1..(Len(s) + 1)
    BY <1>1
  <1> QED BY <1>1, <1>2, <1>3 DEF UnderWay, AtMostOne

\* Request i is over.
LEMMA OneLess ==
    ASSUME NEW s \in Seq(Request), NEW i \in 1..Len(s), NEW t, t = RemoveAt(s, i)
    PROVE  /\ t \in Seq(Request)
           /\ \A kinds : UnderWay(t, kinds) => UnderWay(s, kinds)
           /\ \A kinds : UnderWay(s, kinds) /\ s[i].kind \notin kinds => UnderWay(t, kinds)
           /\ \A kinds : AtMostOne(s, kinds) => AtMostOne(t, kinds)
           /\ \A kinds : AtMostOne(s, kinds) /\ s[i].kind \in kinds => ~ UnderWay(t, kinds)
  <1>1. /\ t \in Seq(Request)
        /\ Len(s) \in Nat
        /\ Len(t) = Len(s) - 1
        /\ \A j \in 1..(Len(s) - 1) : t[j] = s[IF j < i THEN j ELSE j + 1]
    BY RemoveAtElements
  <1>2. DOMAIN s = 1..Len(s) /\ DOMAIN t = 1..(Len(s) - 1)
    BY <1>1
  <1> DEFINE From(j) == IF j < i THEN j ELSE j + 1
  <1>3. \A j \in 1..(Len(s) - 1) : From(j) \in 1..Len(s) /\ From(j) # i /\ t[j] = s[From(j)]
    BY <1>1
  <1>4. \A j, k \in 1..(Len(s) - 1) : From(j) = From(k) => j = k
    BY <1>1
  <1>5. \A m \in 1..Len(s) : m # i => \E j \in 1..(Len(s) - 1) : From(j) = m
    <2> SUFFICES ASSUME NEW m \in 1..Len(s), m # i
                 PROVE  \E j \in 1..(Len(s) - 1) : From(j) = m
      OBVIOUS
    <2>1. CASE m < i
      <3>1. m \in 1..(Len(s) - 1) /\ From(m) = m
        BY <1>1, <2>1
      <3> QED BY <3>1
    <2>2. CASE m > i
      <3>1. m - 1 \in 1..(Len(s) - 1) /\ From(m - 1) = m
        BY <1>1, <2>2
      <3> QED BY <3>1
    <2> QED BY <1>1, <2>1, <2>2
  <1> HIDE DEF From
  <1>6. \A kinds : UnderWay(t, kinds) => UnderWay(s, kinds)
    BY <1>2, <1>3 DEF UnderWay
  <1>7. \A kinds : UnderWay(s, kinds) /\ s[i].kind \notin kinds => UnderWay(t, kinds)
    <2> SUFFICES ASSUME NEW kinds, NEW m \in 1..Len(s), s[m].kind \in kinds, s[i].kind \notin kinds
                 PROVE  UnderWay(t, kinds)
      BY <1>2 DEF UnderWay
    <2>1. PICK j \in 1..(Len(s) - 1) : From(j) = m
      BY <1>5
    <2> QED BY <1>2, <1>3, <2>1 DEF UnderWay
  <1>8. \A kinds : AtMostOne(s, kinds) => AtMostOne(t, kinds)
    BY <1>2, <1>3, <1>4 DEF AtMostOne
  <1>9. \A kinds : AtMostOne(s, kinds) /\ s[i].kind \in kinds => ~ UnderWay(t, kinds)
    BY <1>2, <1>3 DEF AtMostOne, UnderWay
  <1> QED BY <1>1, <1>6, <1>7, <1>8, <1>9

\* Request i is answered.
LEMMA Replaced ==
    ASSUME NEW s \in Seq(Request), NEW i \in 1..Len(s), NEW r \in Request,
           r.kind = s[i].kind, NEW t, t = [s EXCEPT ![i] = r]
    PROVE  /\ t \in Seq(Request)
           /\ \A kinds : UnderWay(t, kinds) <=> UnderWay(s, kinds)
           /\ \A kinds : AtMostOne(s, kinds) => AtMostOne(t, kinds)
  <1>1. DOMAIN s = 1..Len(s) /\ Len(s) \in Nat
    OBVIOUS
  <1>2. t \in Seq(Request)
    BY ExceptSeq
  <1>3. DOMAIN t = DOMAIN s /\ \A j \in DOMAIN s : t[j].kind = s[j].kind
    BY <1>1
  <1> QED BY <1>2, <1>3 DEF UnderWay, AtMostOne
------------------------------------------------------------------------------
(* The invariant *)

LEMMA InitIndInv == Init => IndInv
  <1> SUFFICES ASSUME Init PROVE IndInv
    OBVIOUS
  <1>1. net = <<>> /\ net \in Seq(Request) /\ DOMAIN net = {}
    BY EmptySeq DEF Init
  <1>2. \A kinds : ~ UnderWay(net, kinds) /\ AtMostOne(net, kinds)
    BY <1>1 DEF UnderWay, AtMostOne
  <1>3. TypeOK
    <2>1. bought \in 0..MaxAmount
      BY GoodPageAssumption DEF Init
    <2>2. cart \in Amount /\ cartAmount \in Amount \cup {NoAmount}
      BY DEF Init
    <2>3. nav \in {"shown", "order", "other", "gone"} /\ good \in {"none", "missing", "there"}
      BY DEF Init
    <2>4. loaded \in BOOLEAN /\ shop \in BOOLEAN /\ painted \in BOOLEAN
          /\ gate \in BOOLEAN /\ animating \in BOOLEAN /\ refresh \in BOOLEAN
      BY DEF Init
    <2>5. failed \in BOOLEAN /\ overtaken \in BOOLEAN /\ doubled \in BOOLEAN
      BY DEF Init
    <2> QED BY <1>1, <2>1, <2>2, <2>3, <2>4, <2>5 DEF TypeOK
  <1> QED BY <1>2, <1>3 DEF Init, IndInv, LoadingHasReason, ShutHasReason, ShopKnown, OneAdd

\* A page that is alive and loaded has its shop.
LEMMA LoadedHasShop == Alive /\ loaded => shop
  BY DEF Alive, Crashed

\* The actions that leave the requests as they are.
LEMMA QuietIndInv ==
    ASSUME IndInv, Paint \/ Pull \/ GoToOther \/ Purchase \/ ChangeElsewhere \/ UNCHANGED vars
    PROVE  IndInv'
  <1> USE DEF IndInv
  <1>1. net' = net
    BY DEF Paint, Pull, GoToOther, Purchase, ChangeElsewhere, vars
  <1>2. ~ loaded' /\ nav' = "shown" => ~ loaded /\ nav = "shown"
    BY DEF Paint, Pull, GoToOther, Purchase, ChangeElsewhere, vars
  <1>3. /\ UNCHANGED <<shop, good, cartAmount, button, doubled>>
        /\ painted' => painted \/ (Alive /\ loaded)
    BY DEF Paint, Pull, GoToOther, Purchase, ChangeElsewhere, vars, data, button, history, TypeOK
  <1>4. TypeOK'
    <2>1. CASE Paint
      BY <2>1 DEF Paint, TypeOK, data, button, history
    <2>2. CASE Pull
      BY <2>2 DEF Pull, TypeOK, data, button, history
    <2>3. CASE GoToOther
      BY <2>3 DEF GoToOther, TypeOK, data, button, history
    <2>4. CASE Purchase
      BY <2>4, GoodPageAssumption DEF Purchase, TypeOK, data, button, history
    <2>5. CASE ChangeElsewhere
      BY <2>5 DEF ChangeElsewhere, TypeOK, data, button, history
    <2>6. CASE UNCHANGED vars
      BY <2>6 DEF vars, TypeOK, data, button, history
    <2> QED BY <2>1, <2>2, <2>3, <2>4, <2>5, <2>6
  <1>5. LoadingHasReason'
    BY <1>1, <1>2, <1>3 DEF LoadingHasReason, HasGood
  <1>6. ShutHasReason' /\ OneAdd'
    BY <1>1, <1>3 DEF ShutHasReason, OneAdd, button
  <1>7. ShopKnown'
    BY <1>1, <1>3, LoadedHasShop DEF ShopKnown, button
  <1> QED BY <1>4, <1>5, <1>6, <1>7

LEMMA LeaveIndInv ==
    ASSUME IndInv, Leave
    PROVE  IndInv'
  <1>1. net' = <<>> /\ net' \in Seq(Request) /\ DOMAIN net' = {}
    BY EmptySeq DEF Leave
  <1>2. \A kinds : ~ UnderWay(net', kinds) /\ AtMostOne(net', kinds)
    BY <1>1 DEF UnderWay, AtMostOne
  <1>3. TypeOK'
    <2>1. bought' \in 0..MaxAmount
      BY GoodPageAssumption DEF Leave
    <2>2. cart' \in Amount /\ cartAmount' \in Amount \cup {NoAmount}
      BY DEF Leave, TypeOK, IndInv
    <2>3. nav' \in {"shown", "order", "other", "gone"} /\ good' \in {"none", "missing", "there"}
      BY DEF Leave
    <2>4. loaded' \in BOOLEAN /\ shop' \in BOOLEAN /\ painted' \in BOOLEAN
          /\ gate' \in BOOLEAN /\ animating' \in BOOLEAN /\ refresh' \in BOOLEAN
      BY DEF Leave
    <2>5. failed' \in BOOLEAN /\ overtaken' \in BOOLEAN /\ doubled' \in BOOLEAN
      BY DEF Leave, TypeOK, IndInv, history
    <2> QED BY <1>1, <2>1, <2>2, <2>3, <2>4, <2>5 DEF TypeOK
  <1> QED BY <1>2, <1>3 DEF Leave, IndInv, LoadingHasReason, ShutHasReason, ShopKnown, OneAdd

\* The requests under way after one more is sent.
LEMMA Sent ==
    ASSUME TypeOK, NEW kind \in Loads \cup OfButton, net' = Append(net, New(kind))
    PROVE  /\ net' \in Seq(Request)
           /\ \A kinds : UnderWay(net', kinds) <=> UnderWay(net, kinds) \/ kind \in kinds
           /\ \A kinds : AtMostOne(net, kinds) /\ (kind \in kinds => ~ UnderWay(net, kinds))
                            => AtMostOne(net', kinds)
  <1>1. net \in Seq(Request)
    BY DEF TypeOK
  <1>2. New(kind) \in Request /\ New(kind).kind = kind
    BY NewIsRequest
  <1> DEFINE r == New(kind)
  <1> HIDE DEF r
  <1>3. net' = Append(net, r) /\ r \in Request /\ r.kind = kind
    BY <1>2 DEF r
  <1>4. net' \in Seq(Request)
    BY <1>1, <1>3, AppendProperties
  <1> QED BY <1>1, <1>3, <1>4, OneMore

\* A load begins.
LEMMA StartLoadIndInv ==
    ASSUME IndInv, Focus \/ Refresh
    PROVE  IndInv'
  <1> USE DEF IndInv
  <1>1. /\ net' = Append(net, New("good")) /\ loaded' = FALSE
        /\ UNCHANGED <<data, cartAmount, button, cart, history>>
        /\ painted' => painted \/ (Alive /\ loaded)
        /\ nav' \in {nav, "shown"} /\ refresh' \in BOOLEAN /\ painted' \in BOOLEAN
    <2>1. CASE Focus
      BY <2>1 DEF Focus, StartLoad, Send, TypeOK
    <2>2. CASE Refresh
      BY <2>2 DEF Refresh, StartLoad, Send, TypeOK
    <2> QED BY <2>1, <2>2
  <1>2. /\ net' \in Seq(Request)
        /\ \A kinds : UnderWay(net', kinds) <=> UnderWay(net, kinds) \/ "good" \in kinds
        /\ \A kinds : AtMostOne(net, kinds) /\ ("good" \in kinds => ~ UnderWay(net, kinds))
                         => AtMostOne(net', kinds)
    BY <1>1, Sent DEF Loads
  <1>3. "good" \in Loads /\ "good" \notin OfButton /\ "good" \notin {"badge"}
    BY DEF Loads, OfButton
  <1>4. TypeOK'
    BY <1>1, <1>2 DEF TypeOK, data, button, history
  <1>5. LoadingHasReason'
    BY <1>2, <1>3 DEF LoadingHasReason
  <1>6. ShutHasReason' /\ OneAdd'
    BY <1>1, <1>2, <1>3 DEF ShutHasReason, OneAdd, button, history
  <1>7. ShopKnown'
    BY <1>1, <1>2, <1>3, LoadedHasShop DEF ShopKnown, button, data
  <1> QED BY <1>4, <1>5, <1>6, <1>7

LEMMA AddToCartIndInv ==
    ASSUME IndInv, AddToCart
    PROVE  IndInv'
  <1> USE DEF IndInv
  <1>1. /\ net' = Append(net, New("add")) /\ painted /\ gate
        /\ doubled' = (doubled \/ UnderWay(net, {"add"}))
        /\ UNCHANGED <<nav, loaded, data, cartAmount, button, refresh, painted, cart,
                       failed, overtaken>>
    BY DEF AddToCart, Send
  <1>2. /\ net' \in Seq(Request)
        /\ \A kinds : UnderWay(net', kinds) <=> UnderWay(net, kinds) \/ "add" \in kinds
        /\ \A kinds : AtMostOne(net, kinds) /\ ("add" \in kinds => ~ UnderWay(net, kinds))
                         => AtMostOne(net', kinds)
    BY <1>1, Sent DEF OfButton
  <1>3. UnderWay(net, OfButton) => UnderWay(net, {"add"}) \/ UnderWay(net, {"badge"})
    BY DEF UnderWay, OfButton
  <1>4. TypeOK'
    BY <1>1, <1>2 DEF TypeOK, data, button
  <1>5. LoadingHasReason'
    BY <1>1, <1>2 DEF LoadingHasReason, HasGood, data
  <1>6. ShutHasReason'
    BY <1>1 DEF ShutHasReason, button
  <1>7. ShopKnown'
    BY <1>1 DEF ShopKnown, button, data
  <1>8. OneAdd'
    <2> SUFFICES ASSUME ~ doubled' PROVE OneAdd'
      BY DEF OneAdd
    <2>1. ~ doubled /\ ~ UnderWay(net, OfButton) /\ ~ animating
      BY <1>1, <1>3 DEF OneAdd
    <2> QED BY <1>1, <1>2, <1>3, <2>1 DEF OneAdd, button, OfButton
  <1> QED BY <1>4, <1>5, <1>6, <1>7, <1>8

LEMMA AnimationEndsIndInv ==
    ASSUME IndInv, AnimationEnds
    PROVE  IndInv'
  <1> USE DEF IndInv
  <1>1. /\ net' = Append(net, New("badge")) /\ animating /\ animating' = FALSE
        /\ UNCHANGED <<nav, loaded, data, cartAmount, gate, refresh, painted, cart, history>>
    BY DEF AnimationEnds
  <1>2. /\ net' \in Seq(Request)
        /\ \A kinds : UnderWay(net', kinds) <=> UnderWay(net, kinds) \/ "badge" \in kinds
        /\ \A kinds : AtMostOne(net, kinds) /\ ("badge" \in kinds => ~ UnderWay(net, kinds))
                         => AtMostOne(net', kinds)
    BY <1>1, Sent DEF OfButton
  <1>4. TypeOK'
    <2>1. UNCHANGED <<good, bought, shop>> /\ UNCHANGED <<failed, overtaken, doubled>>
      BY <1>1 DEF data, history
    <2>2. animating' \in BOOLEAN
      BY <1>1
    <2> QED BY <1>1, <1>2, <2>1, <2>2 DEF TypeOK
  <1>5. LoadingHasReason'
    BY <1>1, <1>2 DEF LoadingHasReason, HasGood, data
  <1>6. ShutHasReason'
    BY <1>2 DEF ShutHasReason
  <1>7. ShopKnown'
    BY <1>1 DEF ShopKnown, data
  <1>8. OneAdd'
    BY <1>1, <1>2 DEF OneAdd, history
  <1> QED BY <1>4, <1>5, <1>6, <1>7, <1>8

\* The server.
LEMMA ServerIndInv ==
    ASSUME IndInv, NEW i \in DOMAIN net, Server(i)
    PROVE  IndInv'
  <1> USE DEF IndInv
  <1>0. /\ net \in Seq(Request) /\ i \in 1..Len(net) /\ net[i] \in Request
        /\ cart \in Amount
    BY DEF TypeOK
  <1>1. PICK r \in Request : r.kind = net[i].kind /\ net' = [net EXCEPT ![i] = r]
    <2>1. CASE Serve(i)
      <3> DEFINE a == IF net[i].kind \in {"amount", "badge"} THEN cart ELSE NoAmount
                 r == [net[i] EXCEPT !.answer = "SUCCESS", !.amount = a]
      <3>1. a \in Amount \cup {NoAmount}
        BY <1>0
      <3> HIDE DEF a
      <3>2. r \in Request /\ r.kind = net[i].kind
        BY <1>0, <3>1 DEF Request
      <3>3. net' = [net EXCEPT ![i] = r]
        BY <1>0, <2>1 DEF Serve, a
      <3> QED BY <3>2, <3>3
    <2>2. CASE Refuse(i)
      <3> DEFINE r == [net[i] EXCEPT !.answer = "WARNING"]
      <3>1. r \in Request /\ r.kind = net[i].kind
        BY <1>0 DEF Request
      <3> QED BY <2>2, <3>1 DEF Refuse
    <2>3. CASE Lose(i)
      <3> DEFINE r == [net[i] EXCEPT !.answer = "FAILED"]
      <3>1. r \in Request /\ r.kind = net[i].kind
        BY <1>0 DEF Request
      <3> QED BY <2>3, <3>1 DEF Lose
    <2> QED BY <2>1, <2>2, <2>3 DEF Server
  <1>2. /\ net' \in Seq(Request)
        /\ \A kinds : UnderWay(net', kinds) <=> UnderWay(net, kinds)
        /\ \A kinds : AtMostOne(net, kinds) => AtMostOne(net', kinds)
    BY <1>0, <1>1, Replaced
  <1>3. /\ UNCHANGED <<nav, loaded, data, cartAmount, button, refresh, painted, failed, doubled>>
        /\ overtaken' \in BOOLEAN
        /\ cart' \in Amount
    BY <1>0 DEF Server, Serve, Refuse, Lose, Arrives
  <1>4. TypeOK'
    <2>1. UNCHANGED <<good, bought, shop>> /\ UNCHANGED <<gate, animating>>
      BY <1>3 DEF data, button
    <2> QED BY <1>2, <1>3, <2>1 DEF TypeOK
  <1>5. LoadingHasReason' /\ ShutHasReason' /\ ShopKnown' /\ OneAdd'
    BY <1>2, <1>3 DEF LoadingHasReason, ShutHasReason, ShopKnown, OneAdd, HasGood, data, button
  <1> QED BY <1>4, <1>5

\* Request i is over.
LEMMA Over ==
    ASSUME TypeOK, NEW i \in DOMAIN net, NEW t, t = RemoveAt(net, i)
    PROVE  /\ t \in Seq(Request)
           /\ \A kinds : UnderWay(t, kinds) => UnderWay(net, kinds)
           /\ \A kinds : UnderWay(net, kinds) /\ net[i].kind \notin kinds => UnderWay(t, kinds)
           /\ \A kinds : AtMostOne(net, kinds) => AtMostOne(t, kinds)
           /\ \A kinds : AtMostOne(net, kinds) /\ net[i].kind \in kinds => ~ UnderWay(t, kinds)
  <1>1. net \in Seq(Request) /\ i \in 1..Len(net)
    BY DEF TypeOK
  <1> QED BY <1>1, OneLess

\* Request i is over and one of another kind begins.
LEMMA OverAndSent ==
    ASSUME TypeOK, NEW i \in DOMAIN net, NEW kind \in Loads \cup OfButton,
           net' = Append(RemoveAt(net, i), New(kind))
    PROVE  /\ net' \in Seq(Request)
           /\ \A kinds : UnderWay(net', kinds) => UnderWay(net, kinds) \/ kind \in kinds
           /\ \A kinds : UnderWay(net, kinds) /\ net[i].kind \notin kinds => UnderWay(net', kinds)
           /\ \A kinds : kind \in kinds => UnderWay(net', kinds)
           /\ \A kinds : AtMostOne(net, kinds) /\ (kind \in kinds => ~ UnderWay(net, kinds))
                            => AtMostOne(net', kinds)
  <1>1. PICK t : t = RemoveAt(net, i)
    OBVIOUS
  <1>2. PICK r \in Request : r = New(kind) /\ r.kind = kind
    BY NewIsRequest
  <1>3. net' = Append(t, r)
    BY <1>1, <1>2
  <1>4. /\ t \in Seq(Request)
        /\ \A kinds : UnderWay(t, kinds) => UnderWay(net, kinds)
        /\ \A kinds : UnderWay(net, kinds) /\ net[i].kind \notin kinds => UnderWay(t, kinds)
        /\ \A kinds : AtMostOne(net, kinds) => AtMostOne(t, kinds)
    BY <1>1, Over
  <1>5. net' \in Seq(Request)
    BY <1>3, <1>4, AppendProperties
  <1>6. /\ \A kinds : UnderWay(net', kinds) <=> UnderWay(t, kinds) \/ kind \in kinds
        /\ \A kinds : AtMostOne(t, kinds) /\ (kind \in kinds => ~ UnderWay(t, kinds))
                         => AtMostOne(net', kinds)
    <2>1. /\ \A kinds : UnderWay(net', kinds) <=> UnderWay(t, kinds) \/ r.kind \in kinds
          /\ \A kinds : AtMostOne(t, kinds) /\ (r.kind \in kinds => ~ UnderWay(t, kinds))
                           => AtMostOne(net', kinds)
      BY <1>3, <1>4, <1>5, OneMore
    <2> QED BY <1>2, <2>1
  <1> QED BY <1>4, <1>5, <1>6

\* The handlers of a load do not disturb what is said of the cart button.
LEMMA LoadLeavesButton ==
    ASSUME IndInv, NEW i \in DOMAIN net, net[i].kind \in Loads,
           \/ net' = RemoveAt(net, i)
           \/ \E kind \in Loads : net' = Append(RemoveAt(net, i), New(kind)),
           UNCHANGED <<button, painted, doubled>>, shop => shop'
    PROVE  net' \in Seq(Request) /\ ShutHasReason' /\ ShopKnown' /\ OneAdd'
  <1> USE DEF IndInv
  <1>1. /\ net[i].kind \notin OfButton /\ net[i].kind \notin {"badge"}
        /\ \A kind \in Loads : kind \notin OfButton /\ kind \notin {"badge"}
    BY DEF Loads, OfButton
  <1> DEFINE Kept == /\ net' \in Seq(Request)
                     /\ UnderWay(net', OfButton) => UnderWay(net, OfButton)
                     /\ UnderWay(net', {"badge"}) => UnderWay(net, {"badge"})
                     /\ UnderWay(net, {"badge"}) => UnderWay(net', {"badge"})
                     /\ AtMostOne(net, OfButton) => AtMostOne(net', OfButton)
  <1>2. Kept
    <2>1. CASE net' = RemoveAt(net, i)
      BY <1>1, <2>1, Over
    <2>2. ASSUME NEW kind \in Loads, net' = Append(RemoveAt(net, i), New(kind))
          PROVE  Kept
      BY <1>1, <2>2, OverAndSent
    <2> QED BY <2>1, <2>2
  <1> QED BY <1>2 DEF ShutHasReason, ShopKnown, OneAdd, button

LEMMA LoadedGoodIndInv ==
    ASSUME IndInv, NEW i \in DOMAIN net, NEW found \in {"there", "missing"}, LoadedGood(i, found),
           UNCHANGED <<nav, refresh, painted, cart, doubled>>, overtaken' \in BOOLEAN
    PROVE  IndInv'
  <1> USE DEF IndInv
  <1>1. /\ net[i].kind \in Loads
        /\ UNCHANGED <<loaded, shop, cartAmount, button, failed>>
        /\ good' \in {"none", "missing", "there"}
        /\ bought' \in 0..MaxAmount
        /\ HasGood' => net' = Append(RemoveAt(net, i), New("shop"))
        /\ ~ HasGood' => net' = RemoveAt(net, i)
    BY GoodPageAssumption DEF LoadedGood, TypeOK, Loads
  <1>2. "shop" \in Loads
    BY DEF Loads
  <1>3. net' \in Seq(Request) /\ ShutHasReason' /\ ShopKnown' /\ OneAdd'
    BY <1>1, <1>2, LoadLeavesButton
  <1>4. TypeOK'
    <2>1. UNCHANGED <<gate, animating>>
      BY <1>1 DEF button
    <2> QED BY <1>1, <1>3, <2>1 DEF TypeOK
  <1>5. HasGood' => UnderWay(net', Loads)
    BY <1>1, <1>2, OverAndSent
  <1> QED BY <1>3, <1>4, <1>5 DEF LoadingHasReason

LEMMA LoadedShopIndInv ==
    ASSUME IndInv, NEW i \in DOMAIN net, LoadedShop(i),
           UNCHANGED <<nav, refresh, painted, cart, doubled>>, overtaken' \in BOOLEAN
    PROVE  IndInv'
  <1> USE DEF IndInv
  <1>1. /\ net[i].kind \in Loads
        /\ UNCHANGED <<loaded, good, bought, cartAmount, button, failed>>
        /\ shop' \in BOOLEAN
        /\ shop => shop'
        /\ net' = Append(RemoveAt(net, i), New("amount"))
    BY DEF LoadedShop, TypeOK, Loads
  <1>2. "amount" \in Loads
    BY DEF Loads
  <1>3. net' \in Seq(Request) /\ ShutHasReason' /\ ShopKnown' /\ OneAdd'
    BY <1>1, <1>2, LoadLeavesButton
  <1>4. TypeOK'
    <2>1. UNCHANGED <<gate, animating>>
      BY <1>1 DEF button
    <2> QED BY <1>1, <1>3, <2>1 DEF TypeOK
  <1>5. UnderWay(net', Loads)
    BY <1>1, <1>2, OverAndSent
  <1> QED BY <1>3, <1>4, <1>5 DEF LoadingHasReason

\* The amount that an answer brings, or the one before it.
LEMMA TakeAmountType ==
    ASSUME TypeOK, NEW i \in DOMAIN net, TakeAmount(i)
    PROVE  /\ cartAmount' \in Amount \cup {NoAmount}
           /\ failed' \in BOOLEAN
           /\ net' = RemoveAt(net, i)
  <1>1. net[i] \in Request
    BY DEF TypeOK
  <1>2. net[i].amount \in Amount \cup {NoAmount}
    BY <1>1 DEF Request
  <1> QED BY <1>2 DEF TakeAmount, TypeOK, Ok

LEMMA LoadedAmountIndInv ==
    ASSUME IndInv, NEW i \in DOMAIN net, LoadedAmount(i),
           UNCHANGED <<nav, refresh, painted, cart, doubled>>, overtaken' \in BOOLEAN
    PROVE  IndInv'
  <1> USE DEF IndInv
  <1>1. /\ net[i].kind \in Loads
        /\ UNCHANGED <<good, bought, shop>>
        /\ UNCHANGED button
        /\ loaded' = (loaded \/ ((shop \/ cartAmount' # NoAmount) /\ HasGood))
        /\ cartAmount' \in Amount \cup {NoAmount}
        /\ failed' \in BOOLEAN
        /\ net' = RemoveAt(net, i)
    BY TakeAmountType DEF LoadedAmount, Loads, data
  <1>2. net' \in Seq(Request) /\ ShutHasReason' /\ ShopKnown' /\ OneAdd'
    BY <1>1, LoadLeavesButton
  <1>3. loaded' \in BOOLEAN
    BY <1>1
  <1>4. TypeOK'
    <2>1. UNCHANGED <<gate, animating>>
      BY <1>1 DEF button
    <2> QED BY <1>1, <1>2, <1>3, <2>1 DEF TypeOK
  <1>5. LoadingHasReason'
    BY <1>1 DEF LoadingHasReason, HasGood
  <1> QED BY <1>2, <1>4, <1>5

LEMMA LoadedBadgeIndInv ==
    ASSUME IndInv, NEW i \in DOMAIN net, LoadedBadge(i),
           UNCHANGED <<nav, refresh, painted, cart, doubled>>, overtaken' \in BOOLEAN
    PROVE  IndInv'
  <1> USE DEF IndInv
  <1>1. /\ net[i].kind = "badge"
        /\ UNCHANGED <<good, bought, shop>>
        /\ UNCHANGED <<loaded, animating>>
        /\ gate' = TRUE
        /\ cartAmount' \in Amount \cup {NoAmount}
        /\ failed' \in BOOLEAN
        /\ net' = RemoveAt(net, i)
    BY TakeAmountType DEF LoadedBadge, data
  <1>2. /\ net[i].kind \notin Loads
        /\ net[i].kind \in OfButton
        /\ UnderWay(net, OfButton) /\ UnderWay(net, {"badge"})
    BY <1>1 DEF Loads, OfButton, UnderWay
  <1>3. /\ net' \in Seq(Request)
        /\ UnderWay(net, Loads) => UnderWay(net', Loads)
        /\ UnderWay(net', {"badge"}) => UnderWay(net', OfButton)
        /\ AtMostOne(net, OfButton) => AtMostOne(net', OfButton) /\ ~ UnderWay(net', OfButton)
    <2>1. UnderWay(net', {"badge"}) => UnderWay(net', OfButton)
      BY DEF UnderWay, OfButton
    <2> QED BY <1>1, <1>2, <2>1, Over
  <1>4. TypeOK'
    <2>1. gate' \in BOOLEAN
      BY <1>1
    <2> QED BY <1>1, <1>3, <2>1 DEF TypeOK
  <1>5. LoadingHasReason'
    BY <1>1, <1>2, <1>3 DEF LoadingHasReason, ShopKnown, HasGood
  <1>6. ShutHasReason' /\ ShopKnown'
    BY <1>1, <1>2 DEF ShutHasReason, ShopKnown
  <1>7. OneAdd'
    BY <1>1, <1>2, <1>3 DEF OneAdd
  <1> QED BY <1>4, <1>5, <1>6, <1>7

LEMMA AddedIndInv ==
    ASSUME IndInv, NEW i \in DOMAIN net, Added(i),
           UNCHANGED <<nav, refresh, painted, cart, doubled>>, overtaken' \in BOOLEAN
    PROVE  IndInv'
  <1> USE DEF IndInv
  <1>1. /\ net[i].kind = "add"
        /\ gate' = (gate /\ ~ Ok(i))
        /\ animating' = (animating \/ Ok(i))
        /\ Ok(i) /\ animating => net' = Append(RemoveAt(net, i), New("badge"))
        /\ ~ (Ok(i) /\ animating) => net' = RemoveAt(net, i)
        /\ UNCHANGED <<loaded, data, cartAmount>>
        /\ failed' \in BOOLEAN
    BY DEF Added, TypeOK
  <1>2. /\ net[i].kind \notin Loads /\ net[i].kind \notin {"badge"}
        /\ net[i].kind \in OfButton /\ UnderWay(net, OfButton)
        /\ "badge" \in OfButton
    BY <1>1 DEF Loads, OfButton, UnderWay
  <1>3. /\ net' \in Seq(Request)
        /\ UnderWay(net, Loads) => UnderWay(net', Loads)
        /\ UnderWay(net, {"badge"}) => UnderWay(net', {"badge"})
    <2>1. CASE Ok(i) /\ animating
      BY <1>1, <1>2, <2>1, OverAndSent
    <2>2. CASE ~ (Ok(i) /\ animating)
      BY <1>1, <1>2, <2>2, Over
    <2> QED BY <2>1, <2>2
  <1>4. TypeOK'
    <2>1. UNCHANGED <<good, bought, shop>>
      BY <1>1 DEF data
    <2>2. gate' \in BOOLEAN /\ animating' \in BOOLEAN
      BY <1>1
    <2> QED BY <1>1, <1>3, <2>1, <2>2 DEF TypeOK
  <1>5. LoadingHasReason'
    BY <1>1, <1>3 DEF LoadingHasReason, HasGood, data
  <1>6. ShutHasReason'
    BY <1>1, <1>3 DEF ShutHasReason, TypeOK
  <1>7. ShopKnown'
    BY <1>1, <1>2 DEF ShopKnown, data
  <1>8. OneAdd'
    <2> SUFFICES ASSUME ~ doubled' PROVE OneAdd'
      BY DEF OneAdd
    <2>1. AtMostOne(net, OfButton) /\ ~ animating
      BY <1>2 DEF OneAdd
    <2>2. net' = RemoveAt(net, i)
      BY <1>1, <2>1
    <2>3. AtMostOne(net', OfButton) /\ ~ UnderWay(net', OfButton)
      BY <1>2, <2>1, <2>2, Over
    <2>4. ~ UnderWay(net', {"badge"})
      BY <2>3 DEF UnderWay, OfButton
    <2> QED BY <1>1, <2>1, <2>3, <2>4 DEF OneAdd, TypeOK
  <1> QED BY <1>4, <1>5, <1>6, <1>7, <1>8

\* The handlers after their awaits.
LEMMA AnswerIndInv ==
    ASSUME IndInv, NEW i \in DOMAIN net, Answer(i)
    PROVE  IndInv'
  <1>1. UNCHANGED <<nav, refresh, painted, cart, doubled>> /\ overtaken' \in BOOLEAN
    BY DEF Answer, IndInv, TypeOK
  <1>2. CASE \E found \in {"there", "missing"} : LoadedGood(i, found)
    BY <1>1, <1>2, LoadedGoodIndInv
  <1>3. CASE LoadedShop(i)
    BY <1>1, <1>3, LoadedShopIndInv
  <1>4. CASE LoadedAmount(i)
    BY <1>1, <1>4, LoadedAmountIndInv
  <1>5. CASE LoadedBadge(i)
    BY <1>1, <1>5, LoadedBadgeIndInv
  <1>6. CASE Added(i)
    BY <1>1, <1>6, AddedIndInv
  <1> QED BY <1>2, <1>3, <1>4, <1>5, <1>6 DEF Answer

LEMMA NextIndInv == IndInv /\ [Next]_vars => IndInv'
  <1> SUFFICES ASSUME IndInv, [Next]_vars PROVE IndInv'
    OBVIOUS
  <1>1. CASE Paint \/ Pull \/ GoToOther \/ Purchase \/ ChangeElsewhere \/ UNCHANGED vars
    BY <1>1, QuietIndInv
  <1>2. CASE Leave
    BY <1>2, LeaveIndInv
  <1>3. CASE Focus \/ Refresh
    BY <1>3, StartLoadIndInv
  <1>4. CASE AddToCart
    BY <1>4, AddToCartIndInv
  <1>5. CASE AnimationEnds
    BY <1>5, AnimationEndsIndInv
  <1>6. CASE \E i \in DOMAIN net : Answer(i) \/ Server(i)
    BY <1>6, AnswerIndInv, ServerIndInv
  <1> QED BY <1>1, <1>2, <1>3, <1>4, <1>5, <1>6 DEF Next, User

LEMMA Invariance == Spec => []IndInv
  BY InitIndInv, NextIndInv, PTL DEF Spec
------------------------------------------------------------------------------
(* The circle *)

\* The handling of the request will bring another look at the cart, or an error:
\* any request but one to add that has no answer yet, or was refused.
Tells(r) == r.kind = "add" => r.answer \in {"SUCCESS", "FAILED"}

Quiet(requests) == \A i \in DOMAIN requests : ~ Tells(requests[i])

LastTelling(requests, i) ==
    Tells(requests[i]) /\ \A j \in DOMAIN requests : Tells(requests[j]) => j <= i

\* If the last look at the cart was answered, it was answered with amount c.
LastIsKnown(requests, c) ==
    \A i \in DOMAIN requests :
        LastTelling(requests, i) /\ requests[i].kind \in {"amount", "badge"}
                                 /\ requests[i].answer = "SUCCESS" => requests[i].amount = c

InOrder(requests) ==
    \A i, j \in DOMAIN requests :
        i < j /\ requests[j].answer # "none" => requests[i].answer # "none"

\* The circle is right unless an error was reported, an animation runs or
\* another look at the cart is to come; the last of these is right.
AmountKnown ==
    ~ overtaken => /\ InOrder(net)
                   /\ nav = "shown" /\ HasGood /\ ~ animating =>
                          /\ Quiet(net) /\ ~ failed => cartAmount = cart
                          /\ LastIsKnown(net, cart)

\* A request that looks at the cart, now or at the end of its load, is sent.
LEMMA LookSent ==
    ASSUME NEW s \in Seq(Request), NEW r \in Request, r.answer = "none", r.kind # "add",
           NEW t, t = Append(s, r)
    PROVE  /\ InOrder(s) => InOrder(t)
           /\ ~ Quiet(t)
           /\ \A c : LastIsKnown(t, c)
  <1>1. /\ DOMAIN s = 1..Len(s) /\ DOMAIN t = 1..Len(t)
        /\ Len(s) \in Nat
        /\ Len(t) = Len(s) + 1
        /\ \A i \in 1..Len(s) : t[i] = s[i]
        /\ t[Len(t)] = r
    OBVIOUS
  <1>2. Len(t) \in DOMAIN t /\ Tells(t[Len(t)])
    BY <1>1 DEF Tells
  <1>3. \A i \in DOMAIN t : LastTelling(t, i) => i = Len(t)
    BY <1>1, <1>2 DEF LastTelling
  <1>4. \A i \in DOMAIN t : i # Len(t) => i \in DOMAIN s /\ t[i] = s[i]
    BY <1>1
  <1> QED BY <1>1, <1>2, <1>3, <1>4 DEF InOrder, Quiet, LastIsKnown

\* A request to add is sent.
LEMMA AddSent ==
    ASSUME NEW s \in Seq(Request), NEW r \in Request, r.answer = "none", r.kind = "add",
           NEW t, t = Append(s, r)
    PROVE  /\ InOrder(s) => InOrder(t)
           /\ Quiet(t) => Quiet(s)
           /\ \A c : LastIsKnown(s, c) => LastIsKnown(t, c)
  <1>1. /\ DOMAIN s = 1..Len(s) /\ DOMAIN t = 1..Len(t)
        /\ Len(s) \in Nat
        /\ Len(t) = Len(s) + 1
        /\ \A i \in 1..Len(s) : t[i] = s[i]
        /\ t[Len(t)] = r
    OBVIOUS
  <1>2. \A i \in DOMAIN t : i # Len(t) => i \in DOMAIN s /\ t[i] = s[i]
    BY <1>1
  <1>3. \A i \in DOMAIN s : i \in DOMAIN t /\ t[i] = s[i]
    BY <1>1
  <1>4. ~ Tells(t[Len(t)])
    BY <1>1 DEF Tells
  <1>5. \A i \in DOMAIN t : LastTelling(t, i) => i \in DOMAIN s /\ LastTelling(s, i)
    BY <1>2, <1>3, <1>4 DEF LastTelling
  <1> QED BY <1>1, <1>2, <1>3, <1>5 DEF InOrder, Quiet, LastIsKnown

\* The oldest request is over.
LEMMA OldestOver ==
    ASSUME NEW s \in Seq(Request), 1 \in DOMAIN s, NEW t, t = RemoveAt(s, 1)
    PROVE  /\ t \in Seq(Request)
           /\ InOrder(s) => InOrder(t)
           /\ Quiet(t) => Quiet(s) \/ LastTelling(s, 1)
           /\ \A c : LastIsKnown(s, c) => LastIsKnown(t, c)
  <1>1. /\ t \in Seq(Request)
        /\ Len(s) \in Nat
        /\ Len(t) = Len(s) - 1
        /\ \A j \in 1..(Len(s) - 1) : t[j] = s[j + 1]
    <2>1. 1 \in 1..Len(s)
      OBVIOUS
    <2>2. /\ t \in Seq(Request)
          /\ Len(s) \in Nat
          /\ Len(t) = Len(s) - 1
          /\ \A j \in 1..(Len(s) - 1) : t[j] = s[IF j < 1 THEN j ELSE j + 1]
      BY <2>1, RemoveAtElements
    <2> QED BY <2>2
  <1>2. DOMAIN s = 1..Len(s) /\ DOMAIN t = 1..(Len(s) - 1)
    BY <1>1
  <1>3. \A j \in DOMAIN t : j + 1 \in DOMAIN s /\ t[j] = s[j + 1] /\ j \in Nat
    BY <1>1, <1>2
  <1>4. \A m \in DOMAIN s : m # 1 => m - 1 \in DOMAIN t /\ t[m - 1] = s[m] /\ m \in Nat
    BY <1>1, <1>2
  <1>5. InOrder(s) => InOrder(t)
    BY <1>3 DEF InOrder
  <1>6. Quiet(t) => Quiet(s) \/ LastTelling(s, 1)
    BY <1>4 DEF Quiet, LastTelling
  <1>7. \A j \in DOMAIN t : LastTelling(t, j) => LastTelling(s, j + 1)
    <2> SUFFICES ASSUME NEW j \in DOMAIN t, LastTelling(t, j), NEW m \in DOMAIN s, Tells(s[m])
                 PROVE  m <= j + 1
      BY <1>3 DEF LastTelling
    <2>1. CASE m = 1
      BY <1>3, <2>1
    <2>2. CASE m # 1
      <3>1. m - 1 <= j
        BY <1>4, <2>2 DEF LastTelling
      <3> QED BY <1>3, <1>4, <2>2, <3>1
    <2> QED BY <2>1, <2>2
  <1> QED BY <1>1, <1>3, <1>5, <1>6, <1>7 DEF LastIsKnown

\* Request i is answered in its turn; the cart was c and is d.
LEMMA AnsweredInTurn ==
    ASSUME NEW s \in Seq(Request), NEW i \in DOMAIN s, s[i].answer = "none",
           InOrder(s), \A j \in 1..(i - 1) : s[j].answer # "none",
           NEW r \in Request, r.kind = s[i].kind, r.answer # "none",
           NEW t, t = [s EXCEPT ![i] = r]
    PROVE  /\ t \in Seq(Request)
           /\ InOrder(t)
           /\ Quiet(t) => Quiet(s) /\ ~ Tells(r)
           /\ \A c, d : /\ LastIsKnown(s, c)
                        /\ d # c => r.kind = "add" /\ Tells(r)
                        /\ r.kind \in {"amount", "badge"} /\ r.answer = "SUCCESS" => r.amount = d
                        => LastIsKnown(t, d)
  <1>1. DOMAIN s = 1..Len(s) /\ Len(s) \in Nat /\ i \in 1..Len(s)
    OBVIOUS
  <1>2. t \in Seq(Request)
    BY ExceptSeq
  <1>3. DOMAIN t = DOMAIN s /\ t[i] = r /\ \A j \in DOMAIN s : j # i => t[j] = s[j]
    BY <1>1
  <1>4. \A j \in DOMAIN s : j < i => s[j].answer # "none"
    BY <1>1
  <1>5. \A j \in DOMAIN s : i < j => s[j].answer = "none"
    BY DEF InOrder
  <1>6. InOrder(t)
    BY <1>3, <1>4, <1>5 DEF InOrder
  <1>7. Tells(s[i]) => Tells(r)
    BY DEF Tells
  <1>8. Quiet(t) => Quiet(s) /\ ~ Tells(r)
    BY <1>3, <1>7 DEF Quiet
  <1>9. ASSUME NEW c, NEW d, LastIsKnown(s, c), d # c => r.kind = "add" /\ Tells(r),
               r.kind \in {"amount", "badge"} /\ r.answer = "SUCCESS" => r.amount = d
        PROVE  LastIsKnown(t, d)
    <2> SUFFICES ASSUME NEW k \in DOMAIN t, LastTelling(t, k),
                        t[k].kind \in {"amount", "badge"}, t[k].answer = "SUCCESS"
                 PROVE  t[k].amount = d
      BY DEF LastIsKnown
    <2>1. CASE k = i
      BY <1>3, <1>9, <2>1
    <2>2. CASE k # i
      <3>1. ~ (i < k)
        BY <1>3, <1>5, <2>2
      <3>2. ~ Tells(r)
        BY <1>1, <1>3, <2>2, <3>1 DEF LastTelling
      <3>3. LastTelling(s, k)
        BY <1>3, <1>7, <2>2, <3>2 DEF LastTelling
      <3> QED BY <1>3, <1>9, <2>2, <3>2, <3>3 DEF LastIsKnown
    <2> QED BY <2>1, <2>2
  <1> QED BY <1>2, <1>6, <1>8, <1>9

LEMMA InitAmountKnown == Init => AmountKnown
  <1> SUFFICES ASSUME Init PROVE AmountKnown
    OBVIOUS
  <1>1. DOMAIN net = {}
    BY EmptySeq DEF Init
  <1> QED BY <1>1 DEF Init, AmountKnown, InOrder

\* The actions that leave the requests as they are.
LEMMA QuietAmountKnown ==
    ASSUME AmountKnown, Paint \/ Pull \/ GoToOther \/ Purchase \/ ChangeElsewhere \/ UNCHANGED vars
    PROVE  AmountKnown'
  <1>1. net' = net /\ UNCHANGED history
    BY DEF Paint, Pull, GoToOther, Purchase, ChangeElsewhere, vars
  <1>2. nav' = "shown" => UNCHANGED <<nav, good, animating, cartAmount, cart>>
    BY DEF Paint, Pull, GoToOther, Purchase, ChangeElsewhere, Covered, vars, data, button
  <1>3. UNCHANGED <<failed, overtaken>>
    BY <1>1 DEF history
  <1> QED BY <1>1, <1>2, <1>3 DEF AmountKnown, HasGood

\* The actions that send a request.
LEMMA SendAmountKnown ==
    ASSUME TypeOK, AmountKnown, Focus \/ Refresh \/ AddToCart \/ AnimationEnds
    PROVE  AmountKnown'
  <1>1. net \in Seq(Request) /\ UNCHANGED <<failed, overtaken>>
    BY DEF TypeOK, Focus, Refresh, AddToCart, AnimationEnds, history
  <1>2. CASE Focus \/ Refresh \/ AnimationEnds
    <2>1. PICK kind \in {"good", "badge"} : net' = Append(net, New(kind))
      BY <1>2 DEF Focus, Refresh, AnimationEnds, StartLoad, Send
    <2>2. New(kind) \in Request /\ New(kind).answer = "none" /\ New(kind).kind # "add"
      BY DEF New, Request, Loads
    <2> HIDE DEF New
    <2>3. (InOrder(net) => InOrder(net')) /\ ~ Quiet(net') /\ \A c : LastIsKnown(net', c)
      BY <1>1, <2>1, <2>2, LookSent
    <2> QED BY <1>1, <2>3 DEF AmountKnown
  <1>3. CASE AddToCart
    <2>1. /\ net' = Append(net, New("add"))
          /\ UNCHANGED <<nav, good, animating, cartAmount, cart>>
      BY <1>3 DEF AddToCart, Send, data, button
    <2>2. New("add") \in Request /\ New("add").answer = "none" /\ New("add").kind = "add"
      BY DEF New, Request, Loads
    <2>3. /\ InOrder(net) => InOrder(net')
          /\ Quiet(net') => Quiet(net)
          /\ \A c : LastIsKnown(net, c) => LastIsKnown(net', c)
      BY <1>1, <2>1, <2>2, AddSent
    <2> QED BY <1>1, <2>1, <2>3 DEF AmountKnown, HasGood
  <1> QED BY <1>2, <1>3

LEMMA ServerAmountKnown ==
    ASSUME TypeOK, AmountKnown, NEW i \in DOMAIN net, Server(i)
    PROVE  AmountKnown'
  <1> SUFFICES ASSUME ~ overtaken' PROVE AmountKnown'
    BY DEF AmountKnown
  <1>1. /\ net \in Seq(Request) /\ net[i] \in Request /\ cart \in Amount
        /\ i \in 1..Len(net)
    BY DEF TypeOK
  <1>2. /\ ~ overtaken
        /\ net[i].answer = "none"
        /\ \A j \in 1..(i - 1) : net[j].answer # "none"
        /\ UNCHANGED <<nav, good, animating, cartAmount, failed>>
    BY DEF Server, Serve, Refuse, Lose, Arrives, data, button, TypeOK
  <1>3. PICK r \in Request : /\ r.kind = net[i].kind /\ r.answer # "none"
                             /\ net' = [net EXCEPT ![i] = r]
                             /\ cart' # cart => r.kind = "add" /\ Tells(r)
                             /\ r.kind \in {"amount", "badge"} /\ r.answer = "SUCCESS" => r.amount = cart'
    <2>1. CASE Serve(i)
      <3> DEFINE a == IF net[i].kind \in {"amount", "badge"} THEN cart ELSE NoAmount
                 r == [net[i] EXCEPT !.answer = "SUCCESS", !.amount = a]
      <3>1. a \in Amount \cup {NoAmount}
        BY <1>1
      <3>2. /\ r \in Request /\ r.kind = net[i].kind /\ r.answer = "SUCCESS"
            /\ r.kind \in {"amount", "badge"} => r.amount = cart
        BY <1>1, <3>1 DEF Request
      <3>3. net' = [net EXCEPT ![i] = r]
        BY <1>1, <2>1 DEF Serve
      <3>4. cart' # cart => net[i].kind = "add"
        BY <2>1 DEF Serve, Executed
      <3> HIDE DEF r
      <3> QED BY <3>2, <3>3, <3>4 DEF Tells
    <2>2. CASE Refuse(i)
      <3> DEFINE r == [net[i] EXCEPT !.answer = "WARNING"]
      <3>1. r \in Request /\ r.kind = net[i].kind /\ r.answer = "WARNING"
        BY <1>1 DEF Request
      <3>2. net' = [net EXCEPT ![i] = r] /\ cart' = cart
        BY <1>1, <2>2 DEF Refuse
      <3> HIDE DEF r
      <3> QED BY <3>1, <3>2
    <2>3. CASE Lose(i)
      <3> DEFINE r == [net[i] EXCEPT !.answer = "FAILED"]
      <3>1. r \in Request /\ r.kind = net[i].kind /\ r.answer = "FAILED"
        BY <1>1 DEF Request
      <3>2. net' = [net EXCEPT ![i] = r] /\ (cart' # cart => net[i].kind = "add")
        BY <1>1, <2>3 DEF Lose, Executed
      <3> HIDE DEF r
      <3> QED BY <3>1, <3>2 DEF Tells
    <2> QED BY <2>1, <2>2, <2>3 DEF Server
  <1>4. InOrder(net)
    BY <1>2 DEF AmountKnown
  <1>5. /\ InOrder(net')
        /\ Quiet(net') => Quiet(net) /\ ~ Tells(r)
        /\ LastIsKnown(net, cart) => LastIsKnown(net', cart')
    BY <1>1, <1>2, <1>3, <1>4, AnsweredInTurn
  <1> QED BY <1>2, <1>3, <1>5 DEF AmountKnown, HasGood

LEMMA AnswerAmountKnown ==
    ASSUME TypeOK, AmountKnown, NEW i \in DOMAIN net, Answer(i)
    PROVE  AmountKnown'
  <1> SUFFICES ASSUME ~ overtaken' PROVE AmountKnown'
    BY DEF AmountKnown
  <1>1. net \in Seq(Request) /\ i = 1 /\ ~ overtaken /\ UNCHANGED <<nav, cart>>
    BY DEF Answer, TypeOK
  <1> DEFINE rest == RemoveAt(net, 1)
  <1>2. /\ rest \in Seq(Request)
        /\ InOrder(net) => InOrder(rest)
        /\ Quiet(rest) => Quiet(net) \/ LastTelling(net, 1)
        /\ \A c : LastIsKnown(net, c) => LastIsKnown(rest, c)
    BY <1>1, OldestOver
  <1> HIDE DEF rest
  <1>3. InOrder(rest)
    BY <1>1, <1>2 DEF AmountKnown
  <1>4. ASSUME NEW kind \in {"shop", "amount", "badge"}, net' = Append(rest, New(kind))
        PROVE  AmountKnown'
    <2>1. New(kind) \in Request /\ New(kind).answer = "none" /\ New(kind).kind # "add"
      BY DEF New, Request, Loads
    <2> HIDE DEF New
    <2>2. InOrder(net') /\ ~ Quiet(net') /\ \A c : LastIsKnown(net', c)
      BY <1>2, <1>3, <1>4, <2>1, LookSent
    <2> QED BY <2>2 DEF AmountKnown
  <1>5. ASSUME NEW found \in {"there", "missing"}, LoadedGood(i, found)
        PROVE  AmountKnown'
    <2>1. CASE HasGood'
      BY <1>1, <1>4, <1>5, <2>1 DEF LoadedGood, rest
    <2>2. CASE ~ HasGood'
      <3>1. net' = rest
        BY <1>1, <1>5, <2>2 DEF LoadedGood, rest
      <3> QED BY <1>3, <2>2, <3>1 DEF AmountKnown
    <2> QED BY <2>1, <2>2
  <1>6. CASE LoadedShop(i)
    BY <1>1, <1>4, <1>6 DEF LoadedShop, rest
  <1>7. CASE LoadedAmount(i) \/ LoadedBadge(i)
    <2>1. /\ net[1].kind \in {"amount", "badge"}
          /\ net' = rest
          /\ UNCHANGED <<good, animating>>
          /\ failed' = ~ Ok(1)
          /\ Ok(1) => cartAmount' = net[1].amount
      BY <1>1, <1>7 DEF LoadedAmount, LoadedBadge, TakeAmount, data, button, rest
    <2>2. ~ Quiet(net)
      BY <1>1, <2>1 DEF Quiet, Tells
    <2>3. ASSUME nav = "shown", HasGood, ~ animating, Quiet(rest), ~ failed'
          PROVE  cartAmount' = cart
      <3>1. LastTelling(net, 1) /\ net[1].answer = "SUCCESS"
        BY <1>2, <2>1, <2>2, <2>3 DEF Ok
      <3>2. LastIsKnown(net, cart)
        BY <1>1, <2>3 DEF AmountKnown
      <3>3. net[1].amount = cart
        BY <1>1, <2>1, <3>1, <3>2 DEF LastIsKnown
      <3> QED BY <2>1, <3>1, <3>3 DEF Ok
    <2> QED BY <1>1, <1>2, <1>3, <2>1, <2>3 DEF AmountKnown, HasGood
  <1>8. CASE Added(i)
    <2>1. CASE Ok(i) /\ animating
      BY <1>1, <1>4, <1>8, <2>1 DEF Added, rest
    <2>2. CASE ~ (Ok(i) /\ animating)
      <3>1. /\ net[1].kind = "add"
            /\ net' = rest
            /\ UNCHANGED <<good, cartAmount>>
            /\ animating' = (animating \/ Ok(1))
            /\ failed' = (failed \/ net[1].answer = "FAILED")
        BY <1>1, <1>8, <2>2 DEF Added, data, rest
      <3>2. ~ animating' /\ ~ failed' => ~ Tells(net[1])
        BY <3>1 DEF Tells, Ok
      <3>3. ~ animating' /\ ~ failed' /\ Quiet(rest) => Quiet(net)
        BY <1>2, <3>2 DEF LastTelling
      <3> QED BY <1>1, <1>2, <1>3, <3>1, <3>3 DEF AmountKnown, HasGood
    <2> QED BY <2>1, <2>2
  <1> QED BY <1>5, <1>6, <1>7, <1>8 DEF Answer

LEMMA LeaveAmountKnown ==
    ASSUME Leave
    PROVE  AmountKnown'
  <1>1. DOMAIN net' = {} /\ nav' = "gone"
    BY EmptySeq DEF Leave
  <1> QED BY <1>1 DEF AmountKnown, InOrder

LEMMA NextAmountKnown == TypeOK /\ AmountKnown /\ [Next]_vars => AmountKnown'
  <1> SUFFICES ASSUME TypeOK, AmountKnown, [Next]_vars PROVE AmountKnown'
    OBVIOUS
  <1>1. CASE Paint \/ Pull \/ GoToOther \/ Purchase \/ ChangeElsewhere \/ UNCHANGED vars
    BY <1>1, QuietAmountKnown
  <1>2. CASE Leave
    BY <1>2, LeaveAmountKnown
  <1>3. CASE Focus \/ Refresh \/ AddToCart \/ AnimationEnds
    BY <1>3, SendAmountKnown
  <1>4. CASE \E i \in DOMAIN net : Answer(i) \/ Server(i)
    BY <1>4, AnswerAmountKnown, ServerAmountKnown
  <1> QED BY <1>1, <1>2, <1>3, <1>4 DEF Next, User

------------------------------------------------------------------------------
(* The theorems *)

\* Type correctness of the page (ShowGoodPage.js:18-55).
THEOREM TypeCorrect == Spec => []TypeOK
  <1>1. IndInv => TypeOK
    BY DEF IndInv
  <1> QED BY Invariance, <1>1, PTL

\* The page stays on "loading" only for a request, or for want of a good or of
\* both shop and amount (ShowGoodPage.js:57-78).
THEOREM LoadingHasReasonHolds == Spec => []LoadingHasReason
  <1>1. IndInv => LoadingHasReason
    BY DEF IndInv
  <1> QED BY Invariance, <1>1, PTL

\* The cart button is shut only for an animation or the request after one
\* (ShowGoodPage.js:366-432).
THEOREM ShutHasReasonHolds == Spec => []ShutHasReason
  <1>1. IndInv => ShutHasReason
    BY DEF IndInv
  <1> QED BY Invariance, <1>1, PTL

\* For a user who waits for the answer the cart button is shut during the whole
\* animation (ShowGoodPage.js:24, 409).
THEOREM GateCoversAnimationHolds == Spec => []GateCoversAnimation
  <1>1. IndInv => GateCoversAnimation
    BY DEF IndInv, OneAdd, GateCoversAnimation, OfButton
  <1> QED BY Invariance, <1>1, PTL

\* On a network that keeps the order of requests the circle shows what the cart
\* holds, when all is answered and nothing failed (ShowGoodPage.js:64, 400-404).
THEOREM CircleShowsCartHolds == Spec => []CircleShowsCart
  <1>1. AmountKnown => CircleShowsCart
    <2> SUFFICES ASSUME AmountKnown, Alive, nav = "shown", loaded, ~ animating, net = <<>>,
                        ~ failed, ~ overtaken
                 PROVE  cartAmount = cart
      BY DEF CircleShowsCart
    <2>1. HasGood
      BY DEF Alive, Crashed
    <2>2. Quiet(net)
      <3>1. DOMAIN net = {}
        BY EmptySeq
      <3> QED BY <3>1 DEF Quiet
    <2> QED BY <2>1, <2>2 DEF AmountKnown
  <1>2. Spec => []TypeOK
    BY TypeCorrect
  <1>3. Spec => []AmountKnown
    BY <1>2, InitAmountKnown, NextAmountKnown, PTL DEF Spec
  <1> QED BY <1>1, <1>3, PTL
==============================================================================
