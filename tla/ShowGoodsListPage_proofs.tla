------------------------ MODULE ShowGoodsListPage_proofs ------------------------
(***************************************************************************)
(* For any searches and any number of overlapping requests: the list on    *)
(* the page is the one its buttons ask for, and LoadingPage has a reason.  *)
(*                                                                         *)
(* The invariant follows the one request that a visit without double taps  *)
(* has under way: it carries the list that search and buttons ask for, and *)
(* the global lists it was made from are those of the last search.         *)
(***************************************************************************)
EXTENDS ShowGoodsListPage, TLAPS

Own(s) == req[s] # Free /\ req[s].own

AllNormal == \A r \in References : button[r] = "normal"

\* Without double taps a visit has one request under way at most, and shows its
\* list only when it has none.
OneAtATime ==
    /\ OwnPending \/ painted \/ loaded => open
    /\ loaded => goodsList # NoList
    /\ ~ hurried => /\ \A s, t \in Slot : Own(s) /\ Own(t) => s = t
                    /\ OwnPending => ~ loaded /\ goodsList = NoList

\* The hot goods are shown when both presses are made.
HotGoodsFirst == \A s \in Slot : Own(s) /\ req[s].more # 0
                                   => ~ painted /\ ~ hurried /\ stock = "all"

\* Once the search was answered there is a list to work on, and it takes another
\* answer to bring a failure into the globals.
ListKnown ==
    open /\ ~ failed /\ (painted \/ loaded \/ \E s \in Slot : Own(s) /\ req[s].kind # "search")
       => origin # NoList /\ (disturbed \/ overtaken \/ register # Failed)

\* The visits that ListMatchesButtons speaks of.
Sound == open /\ ~ hurried /\ ~ overtaken /\ (failed => query # AllGoods)

\* The global lists are those of the last search, and one sort button at most is
\* on.
ListsAreOfSearch ==
    /\ origin = Found(query)
    /\ stock = "exist" => existed = Stocked(origin)
    /\ button["sales"] = "normal" \/ button["price"] = "normal"

\* While the list is shown; where the sort buttons make no request, the globals
\* hold an empty list too, or another page's answer.
Settled == /\ ListsAreOfSearch
           /\ Empty(Source) => AllNormal
           /\ Empty(Source) /\ ~ disturbed => register \in List /\ Empty(register)
           /\ ShowsAsked \/ (Empty(Source) /\ disturbed)

ShownIsRight == Sound /\ loaded => Settled

\* While request r is under way.
RightRequest(r) ==
    /\ r.kind = "search" => /\ r.goods = Found(query)
                            /\ stock = "all" /\ AllNormal
                            /\ r.more # 0 => query = AllGoods
    /\ r.kind = "sort"   => /\ ListsAreOfSearch
                            /\ r.goods = Asked
                            /\ ~ Empty(Source) /\ ~ AllNormal
                            /\ r.more # 0 => query = AllGoods /\ button["sales"] = "up"
    /\ r.kind = "stock"  => /\ ListsAreOfSearch
                            /\ r.goods = Stocked(origin)
                            /\ stock = "all" /\ AllNormal

PendingIsRight == Sound => \A s \in Slot : Own(s) => RightRequest(req[s])

IndInv == /\ TypeOK
          /\ OneAtATime
          /\ HotGoodsFirst
          /\ ListKnown
          /\ LoadingHasReason
          /\ ShownIsRight
          /\ PendingIsRight

USE DEF References, Unsorted

------------------------------------------------------------------------------
(* The lists *)

LEMMA FoundType == ASSUME NEW q \in Query PROVE Found(q) \in List /\ Found(q) # NoList
  <1>1. Found(q) \in List
    BY DEF Found, List
  <1> QED BY <1>1, DistinctValues

LEMMA StockedType ==
    ASSUME NEW l \in List \cup {NoList}
    PROVE  /\ Stocked(l) \in List \cup {NoList}
           /\ l \in List => Stocked(l) \in List
  BY DEF Stocked, List

LEMMA SortedType ==
    ASSUME NEW l \in List \cup {NoList}, NEW order \in References \X {"up", "down"}
    PROVE  /\ Sorted(l, order) \in List \cup {NoList}
           /\ l \in List => Sorted(l, order) \in List
  BY DEF Sorted, List

LEMMA AskedType ==
    ASSUME query \in Query, button \in [References -> {"normal", "up", "down"}]
    PROVE  Asked \in List /\ Asked # NoList
  <1> DEFINE order == IF button["sales"] # "normal" THEN <<"sales", button["sales"]>>
                      ELSE IF button["price"] # "normal" THEN <<"price", button["price"]>>
                      ELSE Unsorted
  <1>1. order \in {Unsorted} \cup (References \X {"up", "down"})
    <2>1. {button["sales"], button["price"]} \subseteq {"normal", "up", "down"}
      OBVIOUS
    <2> QED BY <2>1
  <1>2. (stock = "exist") \in BOOLEAN
    OBVIOUS
  <1> HIDE DEF order
  <1>3. [query |-> query, stocked |-> stock = "exist", order |-> order] \in List
    BY <1>1, <1>2 DEF List
  <1>4. Asked \in List
    BY <1>3 DEF Asked, order
  <1> QED BY <1>4, DistinctValues

\* A request that is sent takes a slot that was free.
LEMMA SendType ==
    ASSUME NEW slots \in [Slot -> Request \cup {Free}], NEW r \in Request, Send(slots, r)
    PROVE  /\ req' \in [Slot -> Request \cup {Free}]
           /\ \E s \in Slot : /\ slots[s] = Free
                              /\ req'[s] = r
                              /\ \A t \in Slot : t # s => req'[t] = slots[t]
  BY DEF Send
------------------------------------------------------------------------------
(* Type correctness *)

LEMMA SortTypeOK ==
    ASSUME TypeOK, NEW reference \in References, NEW goods \in List \cup {NoList},
           NEW slots \in [Slot -> Request \cup {Free}], NEW more \in 0..2,
           register' \in List \cup {Failed},
           Sort(reference, goods, slots, more)
    PROVE  /\ button' \in [References -> {"normal", "up", "down"}]
           /\ goodsList' \in List \cup {NoList}
           /\ loaded' \in BOOLEAN
           /\ req' \in [Slot -> Request \cup {Free}]
  <1> DEFINE command == NextCommand(button[reference], goods)
  <1>1. command \in {"normal", "up", "down"}
    BY DEF TypeOK, NextCommand
  <1>2. button' \in [References -> {"normal", "up", "down"}]
    BY <1>1 DEF Sort
  <1>3. CASE command = "normal"
    BY <1>2, <1>3 DEF Sort
  <1>4. CASE command # "normal"
    <2> DEFINE r == [kind |-> "sort", goods |-> Sorted(goods, <<reference, command>>),
                     more |-> more, own |-> TRUE]
    <2>1. r \in Request
      <3>1. Sorted(goods, <<reference, command>>) \in List \cup {NoList}
        BY <1>1, <1>4, SortedType
      <3> QED BY <3>1 DEF Request
    <2>2. Send(slots, r) /\ goodsList' = NoList /\ loaded' = FALSE
      BY <1>4 DEF Sort
    <2> QED BY <1>2, <2>1, <2>2, SendType
  <1> QED BY <1>3, <1>4

LEMMA SearchType == ASSUME NEW q \in Query, NEW more \in 0..2 PROVE Search(q, more) \in Request
  BY FoundType DEF Search, Request

LEMMA FreshTypeOK ==
    ASSUME Fresh
    PROVE  /\ loaded' = FALSE
           /\ goodsList' = NoList
           /\ button' \in [References -> {"normal", "up", "down"}]
           /\ stock' \in {"all", "exist"}
  BY DEF Fresh

LEMMA SourceType == ASSUME TypeOK PROVE Source \in List \cup {NoList}
  BY DEF TypeOK, Source

\* What an answer leaves of the request it answers.
LEMMA FreedType ==
    ASSUME TypeOK, NEW s \in Slot
    PROVE  /\ Freed(s) \in [Slot -> Request \cup {Free}]
           /\ Freed(s)[s] = Free
           /\ \A t \in Slot : t # s => Freed(s)[t] = req[t]
  BY DEF TypeOK, Freed

LEMMA OutcomeTypeOK ==
    ASSUME TypeOK, NEW s \in Slot, NEW ok \in BOOLEAN, Outcome(s, ok)
    PROVE  /\ req[s] \in Request
           /\ req[s].own \in BOOLEAN
           /\ req[s].more \in 0..2
           /\ req[s].goods \in List \cup {NoList}
           /\ ok => req[s].goods \in List
           /\ register' \in List \cup {Failed}
           /\ failed' \in BOOLEAN
           /\ disturbed' \in BOOLEAN
           /\ overtaken' \in BOOLEAN
           /\ open' \in BOOLEAN
           /\ painted' \in BOOLEAN
           /\ hurried' \in BOOLEAN
           /\ query' \in Query
  <1>1. req[s] \in Request
    BY DEF TypeOK, Outcome
  <1> QED BY <1>1 DEF TypeOK, Outcome, Request

\* The second press of an unmounted page, in the slot of the first.
LEMMA InVainType ==
    ASSUME TypeOK, NEW s \in Slot, PressInVain(s)
    PROVE  /\ req' \in [Slot -> Request \cup {Free}]
           /\ ~ req'[s].own
           /\ \A t \in Slot : t # s => req'[t] = req[t]
  <1> DEFINE r == [kind |-> "sort", more |-> 0, own |-> FALSE,
                   goods |-> Sorted(origin, <<"sales", "up">>)]
  <1>1. Sorted(origin, <<"sales", "up">>) \in List \cup {NoList}
    BY SortedType DEF TypeOK
  <1>2. r \in Request /\ ~ r.own
    BY <1>1 DEF Request
  <1>3. req' = [req EXCEPT ![s] = r]
    BY DEF PressInVain
  <1> HIDE DEF r
  <1> QED BY <1>2, <1>3 DEF TypeOK

LEMMA ShowTypeOK ==
    ASSUME TypeOK, NEW s \in Slot, NEW ok \in BOOLEAN, Outcome(s, ok),
           Show(s, ok) \/ Ignore(s) \/ PressInVain(s)
    PROVE  /\ button' \in [References -> {"normal", "up", "down"}]
           /\ goodsList' \in List \cup {NoList}
           /\ loaded' \in BOOLEAN
           /\ req' \in [Slot -> Request \cup {Free}]
  <1>1. CASE Show(s, ok) \/ Ignore(s)
    BY <1>1, OutcomeTypeOK, FreedType DEF TypeOK, Show, Ignore
  <1>2. CASE PressInVain(s)
    BY <1>2, InVainType DEF TypeOK, PressInVain
  <1> QED BY <1>1, <1>2

LEMMA TypeInductive == ASSUME TypeOK, [Next]_vars PROVE TypeOK'
  <1>1. ASSUME NEW q \in Query, Open(q)
        PROVE  TypeOK'
    <2>1. Search(q, IF q = AllGoods THEN 2 ELSE 0) \in Request
      BY SearchType
    <2>2. req' \in [Slot -> Request \cup {Free}]
      BY <1>1, <2>1, SendType DEF Open, TypeOK
    <2> QED BY <1>1, <2>2, FreshTypeOK DEF Open, TypeOK, globals
  <1>2. ASSUME NEW q \in Query, SearchFromSearchHeader(q)
        PROVE  TypeOK'
    <2>1. Search(q, 0) \in Request
      BY SearchType
    <2>2. req' \in [Slot -> Request \cup {Free}]
      BY <1>2, <2>1, SendType DEF SearchFromSearchHeader, TypeOK
    <2> QED BY <1>2, <2>2, FreshTypeOK DEF SearchFromSearchHeader, Touched, TypeOK, globals
  <1>3. CASE Leave
    <2>1. req' \in [Slot -> Request \cup {Free}]
      BY <1>3 DEF Leave, TypeOK, Request
    <2> QED BY <1>3, <2>1, FreshTypeOK DEF Leave, TypeOK, globals, history
  <1>4. CASE Paint
    BY <1>4 DEF Paint, TypeOK, page, globals, history
  <1>5. ASSUME NEW reference \in References, PressSort(reference)
        PROVE  TypeOK'
    <2>1. /\ button' \in [References -> {"normal", "up", "down"}]
          /\ goodsList' \in List \cup {NoList}
          /\ loaded' \in BOOLEAN
          /\ req' \in [Slot -> Request \cup {Free}]
      BY <1>5, SortTypeOK, SourceType DEF PressSort, Touched, globals, TypeOK
    <2> QED BY <1>5, <2>1 DEF PressSort, Touched, globals, TypeOK
  <1>6. CASE CheckByStock
    <2>1. CASE stock = "exist"
      BY <1>6, <2>1 DEF CheckByStock, Touched, globals, TypeOK
    <2>2. CASE stock # "exist"
      <3>1. [kind |-> "stock", goods |-> Stocked(origin), more |-> 0, own |-> TRUE] \in Request
        BY StockedType DEF TypeOK, Request
      <3>2. req' \in [Slot -> Request \cup {Free}]
        BY <1>6, <2>2, <3>1, SendType DEF CheckByStock, TypeOK
      <3> QED BY <1>6, <2>2, <3>2 DEF CheckByStock, Touched, globals, TypeOK
    <2> QED BY <2>1, <2>2
  <1>7. ASSUME NEW s \in Slot, NEW ok \in BOOLEAN, SearchAnswered(s, ok)
        PROVE  TypeOK'
    <2>1. Outcome(s, ok)
      BY <1>7 DEF SearchAnswered
    <2>2. origin' \in List \cup {NoList}
      BY <1>7, <2>1, OutcomeTypeOK DEF SearchAnswered, TypeOK
    <2>3. /\ button' \in [References -> {"normal", "up", "down"}]
          /\ goodsList' \in List \cup {NoList}
          /\ loaded' \in BOOLEAN
          /\ req' \in [Slot -> Request \cup {Free}]
      <3>1. CASE req[s].own /\ req[s].more # 0
        <4>1. Sort("sales", origin', Freed(s), 1)
          BY <1>7, <3>1 DEF SearchAnswered
        <4> QED BY <2>1, <2>2, <4>1, SortTypeOK, FreedType, OutcomeTypeOK
      <3>2. CASE ~ (req[s].own /\ req[s].more # 0)
        BY <1>7, <2>1, <3>2, ShowTypeOK DEF SearchAnswered
      <3> QED BY <3>1, <3>2
    <2> QED BY <1>7, <2>1, <2>2, <2>3, OutcomeTypeOK DEF SearchAnswered, TypeOK
  <1>8. ASSUME NEW s \in Slot, NEW ok \in BOOLEAN, SortAnswered(s, ok)
        PROVE  TypeOK'
    <2>1. Outcome(s, ok)
      BY <1>8 DEF SortAnswered
    <2>2. /\ button' \in [References -> {"normal", "up", "down"}]
          /\ goodsList' \in List \cup {NoList}
          /\ loaded' \in BOOLEAN
          /\ req' \in [Slot -> Request \cup {Free}]
      <3>1. CASE req[s].own /\ req[s].more # 0
        <4>1. Sort("sales", Source, Freed(s), 0)
          BY <1>8, <3>1 DEF SortAnswered
        <4> QED BY <2>1, <4>1, SortTypeOK, SourceType, FreedType, OutcomeTypeOK
      <3>2. CASE ~ (req[s].own /\ req[s].more # 0)
        BY <1>8, <2>1, <3>2, ShowTypeOK DEF SortAnswered
      <3> QED BY <3>1, <3>2
    <2> QED BY <1>8, <2>1, <2>2, OutcomeTypeOK DEF SortAnswered, TypeOK
  <1>9. ASSUME NEW s \in Slot, NEW ok \in BOOLEAN, StockAnswered(s, ok)
        PROVE  TypeOK'
    <2>1. Outcome(s, ok)
      BY <1>9 DEF StockAnswered
    <2>2. /\ button' \in [References -> {"normal", "up", "down"}]
          /\ goodsList' \in List \cup {NoList}
          /\ loaded' \in BOOLEAN
          /\ req' \in [Slot -> Request \cup {Free}]
      BY <1>9, <2>1, ShowTypeOK DEF StockAnswered
    <2> QED BY <1>9, <2>1, <2>2, OutcomeTypeOK DEF StockAnswered, TypeOK
  <1>10. CASE Elsewhere
    BY <1>10, FoundType DEF Elsewhere, TypeOK, page
  <1>11. CASE UNCHANGED vars
    BY <1>11 DEF vars, page, globals, history, TypeOK
  <1> QED BY <1>1, <1>2, <1>3, <1>4, <1>5, <1>6, <1>7, <1>8, <1>9, <1>10, <1>11 DEF Next, Answered

\* All the variables keep to their types.
THEOREM TypeCorrect == Spec => []TypeOK
  <1>1. Init => TypeOK
    BY GoodsListAssumption DEF Init, TypeOK
  <1> QED BY <1>1, TypeInductive, PTL DEF Spec
------------------------------------------------------------------------------
(* The invariant *)

\* What ListKnown says once the page has been painted.
Known == open /\ ~ failed => origin # NoList /\ (disturbed \/ overtaken \/ register # Failed)

NoneOwn(slots) == \A t \in Slot : slots[t] # Free => ~ slots[t].own

\* After a request was sent by a page that had none under way, or whose user is
\* in a hurry.
LEMMA SentIndInv ==
    ASSUME TypeOK', HotGoodsFirst', open', ~ loaded', goodsList' = NoList, ListKnown',
           NEW slots \in [Slot -> Request \cup {Free}], NEW r \in Request, Send(slots, r),
           r.own = TRUE,
           ~ hurried' => NoneOwn(slots),
           Sound' => RightRequest(r)'
    PROVE  IndInv'
  <1>1. PICK s \in Slot : /\ slots[s] = Free
                          /\ req'[s] = r
                          /\ \A t \in Slot : t # s => req'[t] = slots[t]
    BY SendType
  <1>2. r # Free
    BY DistinctValues
  <1>3. OwnPending'
    BY <1>1, <1>2 DEF OwnPending
  <1>4. ~ hurried' => \A t \in Slot : Own(t)' => t = s
    BY <1>1 DEF Own, NoneOwn
  <1>5. OneAtATime'
    BY <1>4 DEF OneAtATime
  <1>6. PendingIsRight'
    BY <1>1, <1>4 DEF PendingIsRight, Sound
  <1> QED BY <1>3, <1>5, <1>6 DEF IndInv, LoadingHasReason, ShownIsRight

\* After a step that leaves the page without a request, or its user in a hurry.
LEMMA RestIndInv ==
    ASSUME TypeOK', HotGoodsFirst', open', loaded' => goodsList' # NoList, ListKnown',
           LoadingHasReason',
           ~ hurried' => NoneOwn(req)',
           Sound' /\ loaded' => Settled'
    PROVE  IndInv'
  <1>1. ~ hurried' => \A t \in Slot : ~ Own(t)'
    BY DEF NoneOwn, Own
  <1>2. ~ hurried' => ~ OwnPending'
    BY <1>1 DEF OwnPending, Own
  <1>3. OneAtATime'
    BY <1>1, <1>2 DEF OneAtATime
  <1>4. PendingIsRight'
    BY <1>1 DEF PendingIsRight, Sound
  <1> QED BY <1>3, <1>4 DEF IndInv, ShownIsRight

\* After a press of a sort button, by the user or for the hot goods.
LEMMA SortIndInv ==
    ASSUME TypeOK, TypeOK', HotGoodsFirst', open', Known',
           NEW reference \in References, NEW goods \in List \cup {NoList},
           goods = Source',
           NEW slots \in [Slot -> Request \cup {Free}], NEW more \in 0..2,
           NEW command, command = NextCommand(button[reference], goods),
           Sort(reference, goods, slots, more),
           ~ hurried' => NoneOwn(slots),
           Sound' /\ command = "normal" /\ register' # Failed => Settled',
           Sound' /\ command # "normal"
              => RightRequest([kind |-> "sort", goods |-> Sorted(goods, <<reference, command>>),
                               more |-> more, own |-> TRUE])'
    PROVE  IndInv'
  <1>1. command \in {"normal", "up", "down"}
    BY DEF TypeOK, NextCommand
  <1>2. ListKnown'
    BY DEF ListKnown, Known
  <1>3. CASE command = "normal"
    <2>1. /\ goodsList' = IF register' = Failed THEN NoList ELSE register'
          /\ loaded' = (register' # Failed)
          /\ req' = slots
      BY <1>3 DEF Sort
    <2>2. loaded' => goodsList' # NoList
      BY <2>1, DistinctValues DEF TypeOK
    <2>3. LoadingHasReason'
      <3>1. Empty(Source)'
        BY <1>3 DEF NextCommand, Empty
      <3> QED BY <2>1, <3>1 DEF LoadingHasReason, Known
    <2>4. ~ hurried' => NoneOwn(req)'
      BY <2>1 DEF NoneOwn
    <2> QED BY <1>2, <1>3, <2>1, <2>2, <2>3, <2>4, RestIndInv
  <1>4. CASE command # "normal"
    <2> DEFINE r == [kind |-> "sort", goods |-> Sorted(goods, <<reference, command>>),
                     more |-> more, own |-> TRUE]
    <2>1. r \in Request
      <3>1. Sorted(goods, <<reference, command>>) \in List \cup {NoList}
        BY <1>1, <1>4, SortedType
      <3> QED BY <3>1 DEF Request
    <2>2. Send(slots, r) /\ goodsList' = NoList /\ loaded' = FALSE
      BY <1>4 DEF Sort
    <2>3. r.own = TRUE
      OBVIOUS
    <2>4. Sound' => RightRequest(r)'
      BY <1>4
    <2> HIDE DEF r
    <2> QED BY <1>2, <2>1, <2>2, <2>3, <2>4, SentIndInv
  <1> QED BY <1>3, <1>4

\* The list that search and buttons ask for is made from the list they work on.
LEMMA AskedSource ==
    TypeOK /\ ListsAreOfSearch =>
       /\ Source \in List
       /\ origin \in List
       /\ Empty(Asked) <=> Empty(Source)
       /\ AllNormal => Asked = Source
  <1> SUFFICES ASSUME TypeOK, ListsAreOfSearch
               PROVE  /\ Source \in List
                      /\ origin \in List
                      /\ Empty(Asked) <=> Empty(Source)
                      /\ AllNormal => Asked = Source
    OBVIOUS
  <1>1. origin = Found(query) /\ origin \in List /\ origin # NoList
    BY FoundType DEF ListsAreOfSearch, TypeOK
  <1>2. Source = [query |-> query, stocked |-> (stock = "exist"), order |-> Unsorted]
    <2>1. CASE stock = "all"
      BY <1>1, <2>1 DEF Source, Found
    <2>2. CASE stock = "exist"
      <3>1. Source = [origin EXCEPT !.stocked = TRUE]
        BY <1>1, <2>2 DEF Source, Stocked, ListsAreOfSearch
      <3> QED BY <1>1, <2>2, <3>1 DEF Found
    <2> QED BY <2>1, <2>2 DEF TypeOK
  <1>3. Source \in List /\ Source # NoList
    <2>1. Source \in List
      BY <1>1, <1>2, StockedType DEF Source, ListsAreOfSearch, TypeOK
    <2> QED BY <2>1, DistinctValues
  <1>4. Asked # NoList /\ Asked.query = query /\ Asked.stocked = (stock = "exist")
    BY AskedType DEF Asked, TypeOK
  <1>5. Empty(Asked) <=> Empty(Source)
    BY <1>2, <1>3, <1>4 DEF Empty
  <1>6. AllNormal => Asked = Source
    BY <1>2 DEF Asked, AllNormal
  <1> QED BY <1>1, <1>3, <1>5, <1>6

LEMMA AskedSourceNext ==
    (TypeOK /\ ListsAreOfSearch =>
       /\ Source \in List
       /\ origin \in List
       /\ Empty(Asked) <=> Empty(Source)
       /\ AllNormal => Asked = Source)'
  BY AskedSource, PTL

\* What a sort button asks for is what it sends.
LEMMA SortRight ==
    ASSUME TypeOK', ListsAreOfSearch', ~ Empty(Source)',
           NEW reference \in References, NEW command \in {"up", "down"},
           button' = [r \in References |-> IF r = reference THEN command ELSE "normal"],
           NEW goods, goods = Source', NEW more,
           more # 0 => query' = AllGoods /\ button'["sales"] = "up"
    PROVE  RightRequest([kind |-> "sort", goods |-> Sorted(goods, <<reference, command>>),
                         more |-> more, own |-> TRUE])'
  <1>1. goods = [query |-> query', stocked |-> (stock' = "exist"), order |-> Unsorted]
    <2>1. CASE stock' = "all"
      BY <2>1 DEF Source, Found, ListsAreOfSearch
    <2>2. CASE stock' = "exist"
      <3>1. goods = [origin' EXCEPT !.stocked = TRUE]
        BY <2>2, FoundType DEF Source, Stocked, ListsAreOfSearch, TypeOK
      <3> QED BY <2>2, <3>1 DEF Found, ListsAreOfSearch
    <2> QED BY <2>1, <2>2 DEF TypeOK
  <1>2. goods # NoList
    BY AskedSourceNext, DistinctValues
  <1>3. Sorted(goods, <<reference, command>>)
           = [query |-> query', stocked |-> (stock' = "exist"), order |-> <<reference, command>>]
    BY <1>1, <1>2 DEF Sorted
  <1>4. Asked' = [query |-> query', stocked |-> (stock' = "exist"), order |-> <<reference, command>>]
    BY DEF Asked
  <1>5. ~ AllNormal'
    BY DEF AllNormal
  <1> QED BY <1>3, <1>4, <1>5 DEF RightRequest

LEMMA InitIndInv == Init => IndInv
  BY GoodsListAssumption
  DEF Init, IndInv, TypeOK, OneAtATime, ListKnown, LoadingHasReason, ShownIsRight,
      PendingIsRight, HotGoodsFirst, Sound, Own, OwnPending

LEMMA OpenIndInv == ASSUME IndInv, TypeOK', HotGoodsFirst', NEW q \in Query, Open(q) PROVE IndInv'
  <1> DEFINE more == IF q = AllGoods THEN 2 ELSE 0
  <1>1. Search(q, more) \in Request
    BY SearchType
  <1>2. NoneOwn(req) /\ ~ painted
    BY DEF Open, IndInv, OneAtATime, OwnPending, NoneOwn
  <1>3. req \in [Slot -> Request \cup {Free}] /\ Send(req, Search(q, more))
    BY DEF IndInv, TypeOK, Open
  <1>4. /\ open' /\ ~ loaded' /\ goodsList' = NoList /\ ~ painted' /\ query' = q
        /\ AllNormal' /\ stock' = "all"
    BY <1>2 DEF Open, Fresh, AllNormal
  <1>5. \A t \in Slot : Own(t)' => req'[t].kind = "search"
    BY <1>2, <1>3, <1>1, SendType DEF Own, NoneOwn, Search
  <1>6. ListKnown'
    BY <1>4, <1>5 DEF ListKnown
  <1>7. RightRequest(Search(q, more))'
    BY <1>4 DEF RightRequest, Search
  <1>8. Search(q, more).own = TRUE
    BY DEF Search
  <1> HIDE DEF more
  <1> QED BY <1>1, <1>2, <1>3, <1>4, <1>6, <1>7, <1>8, SentIndInv

LEMMA LeaveIndInv == ASSUME IndInv, TypeOK', HotGoodsFirst', Leave PROVE IndInv'
  <1>1. ~ open' /\ ~ painted' /\ ~ loaded'
    BY DEF Leave, Fresh
  <1>2. \A s \in Slot : ~ Own(s)'
    BY DEF Leave, Own, IndInv, TypeOK, Request
  <1>3. ~ OwnPending'
    BY <1>2 DEF OwnPending, Own
  <1> QED BY <1>1, <1>2, <1>3 DEF IndInv, OneAtATime, ListKnown, LoadingHasReason, ShownIsRight,
                                 PendingIsRight, Sound

LEMMA PaintIndInv == ASSUME IndInv, TypeOK', HotGoodsFirst', Paint PROVE IndInv'
  BY DEF Paint, page, globals, history, IndInv, OneAtATime, ListKnown, LoadingHasReason,
         ShownIsRight, PendingIsRight, Sound, Own, OwnPending, Settled, RightRequest,
         ListsAreOfSearch, ShowsAsked, Asked, Source, AllNormal

LEMMA ElsewhereIndInv ==
    ASSUME IndInv, TypeOK', HotGoodsFirst', Elsewhere PROVE IndInv'
  <1>1. OneAtATime' /\ ListKnown' /\ LoadingHasReason'
    BY DEF Elsewhere, page, IndInv, OneAtATime, ListKnown, LoadingHasReason, Own, OwnPending,
           Source, Empty
  <1>2. Sound' => Sound /\ disturbed'
    BY DEF Elsewhere, page, Sound
  <1>3. Settled /\ disturbed' => Settled'
    BY DEF Elsewhere, page, Settled, ListsAreOfSearch, ShowsAsked, Asked, Source, Empty, AllNormal
  <1>4. ShownIsRight' /\ PendingIsRight'
    BY <1>2, <1>3 DEF Elsewhere, page, IndInv, ShownIsRight, PendingIsRight, Own, RightRequest,
           ListsAreOfSearch, Asked, Source, Empty, AllNormal
  <1> QED BY <1>1, <1>4 DEF IndInv

\* A press on the painted page.
LEMMA TouchedFacts ==
    ASSUME IndInv, Touched
    PROVE  /\ open' /\ Known
           /\ ~ hurried' => NoneOwn(req)
           /\ Sound' /\ query' = query => Sound /\ loaded
  BY DEF Touched, globals, Known, IndInv, OneAtATime, ListKnown, OwnPending, NoneOwn, Sound

LEMMA SearchFromSearchHeaderIndInv ==
    ASSUME IndInv, TypeOK', HotGoodsFirst', NEW q \in Query, SearchFromSearchHeader(q) PROVE IndInv'
  <1>1. Search(q, 0) \in Request
    BY SearchType
  <1>7. Search(q, 0).own = TRUE
    BY DEF Search
  <1>2. req \in [Slot -> Request \cup {Free}] /\ Send(req, Search(q, 0))
    BY DEF IndInv, TypeOK, SearchFromSearchHeader
  <1>3. /\ ~ loaded' /\ goodsList' = NoList /\ query' = q /\ AllNormal' /\ stock' = "all"
    BY DEF SearchFromSearchHeader, Fresh, AllNormal
  <1>4. open' /\ Known /\ (~ hurried' => NoneOwn(req))
    BY TouchedFacts DEF SearchFromSearchHeader
  <1>5. ListKnown'
    BY <1>4 DEF ListKnown, Known, SearchFromSearchHeader, Touched, globals
  <1>6. RightRequest(Search(q, 0))'
    BY <1>3 DEF RightRequest, Search
  <1> QED BY <1>1, <1>2, <1>3, <1>4, <1>5, <1>6, <1>7, SentIndInv

LEMMA PressSortIndInv ==
    ASSUME IndInv, TypeOK', HotGoodsFirst', NEW reference \in References, PressSort(reference) PROVE IndInv'
  <1>1. PICK goods : goods = Source
    OBVIOUS
  <1>2. PICK command : command = NextCommand(button[reference], goods)
    OBVIOUS
  <1>3. goods \in List \cup {NoList} /\ req \in [Slot -> Request \cup {Free}] /\ TypeOK
    BY <1>1, SourceType DEF IndInv, TypeOK
  <1>4. Sort(reference, goods, req, 0)
    BY <1>1 DEF PressSort
  <1>5. /\ UNCHANGED <<query, stock, origin, existed, register, failed, disturbed, overtaken, open>>
        /\ Source' = Source
    BY DEF PressSort, Touched, globals, Source
  <1>6. open' /\ Known /\ (~ hurried' => NoneOwn(req)) /\ (Sound' => Sound /\ loaded)
    BY <1>5, TouchedFacts DEF PressSort
  <1>7. Known'
    BY <1>5, <1>6 DEF Known
  <1>8. button' = [r \in References |-> IF r = reference THEN command ELSE "normal"]
    BY <1>2, <1>4 DEF Sort
  <1>9. Sound' => Settled
    BY <1>6 DEF IndInv, ShownIsRight
  <1>10. Sound' /\ command = "normal" /\ register' # Failed => Settled'
    <2> HAVE Sound' /\ command = "normal" /\ register' # Failed
    <2>1. Empty(Source)
      BY <1>1, <1>2 DEF NextCommand
    <2>2. /\ AllNormal /\ ListsAreOfSearch
          /\ ~ disturbed => register \in List /\ Empty(register)
      BY <1>9, <2>1 DEF Settled
    <2>3. goodsList' = register
      BY <1>2, <1>4, <1>5 DEF Sort
    <2>4. button' = button
      BY <1>3, <1>8, <2>2 DEF AllNormal, TypeOK
    <2>5. ListsAreOfSearch' /\ AllNormal' /\ Asked' = Asked
      BY <1>5, <2>2, <2>4 DEF ListsAreOfSearch, AllNormal, Asked
    <2>6. Empty(Asked)
      BY <1>3, <2>1, <2>2, AskedSource
    <2> QED BY <1>5, <2>1, <2>2, <2>3, <2>5, <2>6 DEF Settled, ShowsAsked, Empty
  <1>11. Sound' /\ command # "normal"
           => RightRequest([kind |-> "sort", goods |-> Sorted(goods, <<reference, command>>),
                            more |-> 0, own |-> TRUE])'
    <2> HAVE Sound' /\ command # "normal"
    <2>1. command \in {"up", "down"}
      BY <1>2, <1>3 DEF NextCommand, TypeOK
    <2>2. ListsAreOfSearch'
      BY <1>5, <1>8, <1>9 DEF Settled, ListsAreOfSearch
    <2>3. ~ Empty(Source)
      BY <1>1, <1>2, <1>9 DEF Settled, AllNormal, NextCommand
    <2>4. ~ Empty(Source)'
      BY <1>5, <2>3 DEF Empty
    <2> QED BY <1>1, <1>5, <1>8, <2>1, <2>2, <2>4, SortRight
  <1> QED BY <1>1, <1>2, <1>3, <1>4, <1>5, <1>6, <1>7, <1>10, <1>11, SortIndInv

LEMMA CheckByStockIndInv == ASSUME IndInv, TypeOK', HotGoodsFirst', CheckByStock PROVE IndInv'
  <1>1. /\ UNCHANGED <<query, origin, existed, register, failed, disturbed, overtaken, open>>
        /\ AllNormal'
    BY DEF CheckByStock, Touched, globals, AllNormal
  <1>2. open' /\ Known /\ (~ hurried' => NoneOwn(req)) /\ (Sound' => Sound /\ loaded)
    BY <1>1, TouchedFacts DEF CheckByStock
  <1>3. ListKnown'
    BY <1>1, <1>2 DEF ListKnown, Known
  <1>4. Sound' => Settled
    BY <1>2 DEF IndInv, ShownIsRight
  <1>5. CASE stock = "exist"
    <2>1. goodsList' = origin /\ stock' = "all" /\ loaded' = (origin # NoList) /\ req' = req
      BY <1>5 DEF CheckByStock
    <2>2. LoadingHasReason'
      BY <1>1, <1>2, <2>1 DEF LoadingHasReason, Known
    <2>3. Sound' /\ loaded' => Settled'
      <3> HAVE Sound' /\ loaded'
      <3>1. ListsAreOfSearch'
        BY <1>1, <1>4, <2>1 DEF Settled, ListsAreOfSearch, AllNormal
      <3>2. Source' = goodsList' /\ Asked' = Source'
        BY <1>1, <2>1, <3>1, AskedSourceNext DEF Source
      <3>3. Empty(Source') => Empty(Source)
        <4>1. Source = [origin EXCEPT !.stocked = TRUE] /\ Source # NoList
          BY <1>4, <1>5, AskedSource, DistinctValues
             DEF Settled, ListsAreOfSearch, Source, Stocked, IndInv
        <4>2. origin \in List /\ Source' = origin
          BY <1>1, <1>4, <2>1, <3>2, AskedSource DEF Settled, IndInv
        <4>3. Source.query = origin.query /\ Source.stocked = TRUE
          BY <4>1, <4>2 DEF List
        <4>4. ~ origin.stocked
          BY <1>4 DEF Settled, ListsAreOfSearch, Found
        <4> QED BY <4>1, <4>2, <4>3, <4>4 DEF Empty
      <3> QED BY <1>1, <1>4, <3>1, <3>2, <3>3 DEF Settled, ShowsAsked, Empty
    <2>4. ~ hurried' => NoneOwn(req)'
      BY <1>2, <2>1 DEF NoneOwn
    <2> QED BY <1>2, <1>3, <2>1, <2>2, <2>3, <2>4, RestIndInv
  <1>6. CASE stock # "exist"
    <2>1. PICK r : r = [kind |-> "stock", goods |-> Stocked(origin), more |-> 0, own |-> TRUE]
      OBVIOUS
    <2>2. r \in Request
      BY <2>1, StockedType DEF IndInv, TypeOK, Request
    <2>3. Send(req, r) /\ ~ loaded' /\ goodsList' = NoList /\ stock' = "all"
      BY <1>6, <2>1 DEF CheckByStock, IndInv, TypeOK
    <2>4. req \in [Slot -> Request \cup {Free}]
      BY DEF IndInv, TypeOK
    <2>5. Sound' => ListsAreOfSearch'
      BY <1>1, <1>4, <2>3 DEF Settled, ListsAreOfSearch, AllNormal
    <2>6. Sound' => RightRequest(r)'
      BY <1>1, <2>1, <2>3, <2>5 DEF RightRequest
    <2> QED BY <1>2, <1>3, <2>1, <2>2, <2>3, <2>4, <2>6, SentIndInv
  <1> QED BY <1>5, <1>6
------------------------------------------------------------------------------
(* The answers *)

\* An answer that the page in front of the user did not ask for.
LEMMA IgnoredIndInv ==
    ASSUME IndInv, TypeOK', HotGoodsFirst', NEW s \in Slot, NEW ok \in BOOLEAN, Outcome(s, ok),
           ~ req[s].own, Ignore(s) \/ PressInVain(s), origin' = origin \/ origin' # NoList
    PROVE  IndInv'
  <1>1. /\ \A t \in Slot : t # s => req'[t] = req[t]
        /\ req'[s] # Free => ~ req'[s].own
    <2>1. CASE Ignore(s)
      BY <2>1, FreedType DEF Ignore, IndInv
    <2>2. CASE PressInVain(s)
      BY <2>2, InVainType DEF IndInv
    <2> QED BY <2>1, <2>2
  <1>2. \A t \in Slot : (Own(t)' <=> Own(t)) /\ (Own(t)' => req'[t] = req[t])
    BY <1>1 DEF Own
  <1>3. OwnPending' <=> OwnPending
    BY <1>2 DEF OwnPending, Own
  <1>4. UNCHANGED <<open, query, painted, hurried, loaded, goodsList, button, failed>>
    BY DEF Outcome, Ignore, PressInVain, IndInv, TypeOK
  <1>5. open' => overtaken'
    BY DEF Outcome
  <1>6. OneAtATime'
    BY <1>2, <1>3, <1>4 DEF IndInv, OneAtATime
  <1>7. ListKnown'
    BY <1>2, <1>4, <1>5 DEF IndInv, ListKnown
  <1> QED BY <1>5, <1>6, <1>7 DEF IndInv, LoadingHasReason, ShownIsRight, PendingIsRight, Sound

\* What is known when an answer of the visit in front of the user arrives.
LEMMA OwnAnswer ==
    ASSUME IndInv, NEW s \in Slot, NEW ok \in BOOLEAN, Outcome(s, ok), req[s].own
    PROVE  /\ open /\ open' /\ Own(s)
           /\ ~ failed' => ~ failed /\ ok /\ register' # Failed
           /\ ~ ok => failed'
           /\ ~ hurried' => NoneOwn(Freed(s)) /\ goodsList = NoList /\ ~ loaded
           /\ Sound' => Sound /\ RightRequest(req[s])
  <1>1. Own(s) /\ OwnPending
    BY DEF Own, OwnPending, Outcome
  <1>2. ~ failed' => ~ failed /\ ok /\ register' # Failed
    BY OutcomeTypeOK, DistinctValues DEF Outcome, IndInv, TypeOK
  <1>3. ~ hurried' => \A t \in Slot : t # s => ~ Own(t)
    BY <1>1 DEF IndInv, OneAtATime, Outcome
  <1>4. ~ hurried' => NoneOwn(Freed(s))
    BY <1>3, FreedType DEF NoneOwn, Own, IndInv
  <1>5. Sound' => Sound /\ RightRequest(req[s])
    BY <1>1 DEF Sound, Outcome, IndInv, PendingIsRight
  <1> QED BY <1>1, <1>2, <1>4, <1>5 DEF IndInv, OneAtATime, Outcome

LEMMA ShownIndInv ==
    ASSUME IndInv, TypeOK', HotGoodsFirst', NEW s \in Slot, NEW ok \in BOOLEAN, Outcome(s, ok),
           req[s].own, Show(s, ok),
           ~ failed' => origin' # NoList,
           Sound' /\ ok => Settled'
    PROVE  IndInv'
  <1>1. TypeOK /\ (ok => req[s].goods # NoList)
    BY DEF Outcome, IndInv
  <1>2. /\ goodsList' = IF ok THEN req[s].goods ELSE goodsList
        /\ loaded' = (loaded \/ goodsList' # NoList)
        /\ req' = Freed(s)
    BY DEF Show
  <1>3. loaded' => goodsList' # NoList
    BY <1>1, <1>2 DEF IndInv, OneAtATime
  <1>4. LoadingHasReason'
    BY <1>1, <1>2, OwnAnswer DEF LoadingHasReason
  <1>5. ListKnown'
    BY OwnAnswer DEF ListKnown
  <1>6. Sound' /\ loaded' => Settled'
    BY <1>2, OwnAnswer DEF Sound
  <1>7. ~ hurried' => NoneOwn(req)'
    BY <1>2, OwnAnswer DEF NoneOwn
  <1>8. open'
    BY OwnAnswer
  <1> QED BY <1>3, <1>4, <1>5, <1>6, <1>7, <1>8, RestIndInv

LEMMA StockAnsweredIndInv ==
    ASSUME IndInv, TypeOK', HotGoodsFirst', NEW s \in Slot, NEW ok \in BOOLEAN, StockAnswered(s, ok)
    PROVE  IndInv'
  <1>1. Outcome(s, ok) /\ req[s].kind = "stock" /\ origin' = origin
    BY DEF StockAnswered
  <1>2. CASE ~ req[s].own
    BY <1>1, <1>2, IgnoredIndInv DEF StockAnswered
  <1>3. CASE req[s].own
    <2>1. Show(s, ok) /\ stock' = "exist" /\ button' = button /\ query' = query
      BY <1>1, <1>3 DEF StockAnswered, Show, Outcome
    <2>2. ~ failed' => origin' # NoList
      BY <1>1, <1>3, OwnAnswer DEF IndInv, ListKnown
    <2>3. Sound' /\ ok => Settled'
      <3> HAVE Sound' /\ ok
      <3>1. ListsAreOfSearch /\ req[s].goods = Stocked(origin) /\ AllNormal
        BY <1>1, <1>3, OwnAnswer DEF RightRequest
      <3>2. existed' = Stocked(origin) /\ goodsList' = existed' /\ register' = existed'
        BY <1>1, <2>1, <3>1 DEF StockAnswered, Show, Outcome
      <3>3. ListsAreOfSearch' /\ AllNormal'
        BY <1>1, <2>1, <3>1, <3>2 DEF ListsAreOfSearch, AllNormal
      <3>4. Source' = goodsList' /\ Asked' = Source' /\ Source' \in List
        BY <2>1, <3>2, <3>3, AskedSourceNext DEF Source
      <3>5. register' = goodsList'
        BY <3>2
      <3> QED BY <3>3, <3>4, <3>5 DEF Settled, ShowsAsked, Empty
    <2> QED BY <1>1, <1>3, <2>1, <2>2, <2>3, ShownIndInv
  <1> QED BY <1>2, <1>3

LEMMA SortAnsweredIndInv ==
    ASSUME IndInv, TypeOK', HotGoodsFirst', NEW s \in Slot, NEW ok \in BOOLEAN, SortAnswered(s, ok)
    PROVE  IndInv'
  <1>1. /\ Outcome(s, ok) /\ req[s].kind = "sort"
        /\ UNCHANGED <<query, stock, origin, existed>> /\ TypeOK
    BY DEF SortAnswered, Outcome, IndInv
  <1>2. CASE ~ req[s].own
    BY <1>1, <1>2, IgnoredIndInv DEF SortAnswered
  <1>3. ASSUME req[s].own PROVE ~ failed' => origin' # NoList
    BY <1>1, <1>3, OwnAnswer DEF IndInv, ListKnown
  <1>4. ASSUME req[s].own, Sound'
        PROVE  /\ ListsAreOfSearch /\ req[s].goods = Asked
               /\ ~ Empty(Source) /\ ~ AllNormal
               /\ req[s].more # 0 => query = AllGoods /\ button["sales"] = "up"
    BY <1>1, <1>4, OwnAnswer DEF RightRequest
  <1>5. CASE req[s].own /\ req[s].more = 0
    <2>1. Show(s, ok) /\ button' = button
      BY <1>1, <1>5 DEF SortAnswered, Show
    <2>2. Sound' /\ ok => Settled'
      <3> HAVE Sound' /\ ok
      <3>1. Source' = Source /\ Asked' = Asked /\ ListsAreOfSearch'
        BY <1>1, <1>4, <1>5, <2>1 DEF Source, Asked, ListsAreOfSearch
      <3>2. goodsList' = Asked' /\ ~ Empty(Source')
        BY <1>1, <1>4, <1>5, <2>1, <3>1 DEF Show
      <3> QED BY <3>1, <3>2 DEF Settled, ShowsAsked, Empty
    <2> QED BY <1>1, <1>3, <1>5, <2>1, <2>2, ShownIndInv
  <1>6. CASE req[s].own /\ req[s].more # 0
    <2>1. PICK goods : goods = Source
      OBVIOUS
    <2>2. PICK command : command = NextCommand(button["sales"], goods)
      OBVIOUS
    <2>3. PICK slots : slots = Freed(s)
      OBVIOUS
    <2>4. Sort("sales", goods, slots, 0)
      BY <1>1, <1>6, <2>1, <2>3 DEF SortAnswered
    <2>5. goods \in List \cup {NoList} /\ slots \in [Slot -> Request \cup {Free}]
      BY <1>1, <2>1, <2>3, SourceType, FreedType
    <2>6. open' /\ Known' /\ (~ hurried' => NoneOwn(slots))
      BY <1>1, <1>3, <1>6, <2>3, OwnAnswer DEF Known
    <2>7. Sound' => command = "down"
      BY <1>4, <1>6, <2>2 DEF NextCommand
    <2>8. button' = [r \in References |-> IF r = "sales" THEN command ELSE "normal"]
      BY <2>2, <2>4 DEF Sort
    <2>9. Source' = goods
      BY <1>1, <2>1 DEF Source
    <2>10. Sound' => RightRequest([kind |-> "sort", goods |-> Sorted(goods, <<"sales", command>>),
                                   more |-> 0, own |-> TRUE])'
      <3> HAVE Sound'
      <3>1. ListsAreOfSearch'
        BY <1>1, <1>4, <1>6, <2>8 DEF ListsAreOfSearch
      <3>2. ~ Empty(Source)'
        BY <1>4, <1>6, <2>1, <2>9 DEF Empty
      <3> QED BY <2>7, <2>8, <2>9, <3>1, <3>2, SortRight
    <2> QED BY <1>1, <2>2, <2>4, <2>5, <2>6, <2>7, <2>9, <2>10, SortIndInv
  <1> QED BY <1>2, <1>5, <1>6

LEMMA SearchAnsweredIndInv ==
    ASSUME IndInv, TypeOK', HotGoodsFirst', NEW s \in Slot, NEW ok \in BOOLEAN, SearchAnswered(s, ok)
    PROVE  IndInv'
  <1>1. /\ Outcome(s, ok) /\ req[s].kind = "search"
        /\ UNCHANGED <<query, stock, existed>> /\ TypeOK
        /\ origin' = IF ok THEN req[s].goods ELSE origin
        /\ ok => req[s].goods # NoList
        /\ ok => register' = req[s].goods
    BY DEF SearchAnswered, Outcome, IndInv
  <1>2. CASE ~ req[s].own
    BY <1>1, <1>2, IgnoredIndInv DEF SearchAnswered
  <1>3. ASSUME req[s].own PROVE ~ failed' => origin' # NoList
    BY <1>1, <1>3, OwnAnswer
  <1>4. ASSUME req[s].own, Sound'
        PROVE  /\ req[s].goods = Found(query)
               /\ stock = "all" /\ AllNormal
               /\ req[s].more # 0 => query = AllGoods /\ ok
    BY <1>1, <1>4, OwnAnswer DEF RightRequest, Sound
  <1>5. ASSUME req[s].own, Sound', ok, button' = button
        PROVE  /\ ListsAreOfSearch' /\ AllNormal'
               /\ Source' = req[s].goods /\ Asked' = Source' /\ Source' \in List
    <2>1. ListsAreOfSearch' /\ AllNormal'
      BY <1>1, <1>4, <1>5 DEF ListsAreOfSearch, AllNormal, Found
    <2>2. Source' = req[s].goods
      BY <1>1, <1>4, <1>5 DEF Source
    <2> QED BY <2>1, <2>2, AskedSourceNext
  <1>6. CASE req[s].own /\ req[s].more = 0
    <2>1. Show(s, ok) /\ button' = button
      BY <1>1, <1>6 DEF SearchAnswered, Show
    <2>2. Sound' /\ ok => Settled'
      <3> HAVE Sound' /\ ok
      <3>1. goodsList' = req[s].goods
        BY <2>1 DEF Show
      <3> QED BY <1>1, <1>5, <1>6, <2>1, <3>1 DEF Settled, ShowsAsked, Empty
    <2> QED BY <1>1, <1>3, <1>6, <2>1, <2>2, ShownIndInv
  <1>7. CASE req[s].own /\ req[s].more # 0
    <2>1. PICK goods : goods = origin'
      OBVIOUS
    <2>2. PICK command : command = NextCommand(button["sales"], goods)
      OBVIOUS
    <2>3. PICK slots : slots = Freed(s)
      OBVIOUS
    <2>4. Sort("sales", goods, slots, 1)
      BY <1>1, <1>7, <2>1, <2>3 DEF SearchAnswered
    <2>5. goods \in List \cup {NoList} /\ slots \in [Slot -> Request \cup {Free}]
      BY <1>1, <2>1, <2>3, FreedType DEF TypeOK
    <2>6. open' /\ Known' /\ (~ hurried' => NoneOwn(slots))
      BY <1>1, <1>3, <1>7, <2>3, OwnAnswer DEF Known
    <2>7. button' = [r \in References |-> IF r = "sales" THEN command ELSE "normal"]
      BY <2>2, <2>4 DEF Sort
    <2>8. Sound' => /\ ok /\ AllNormal /\ goods = req[s].goods /\ stock' = "all"
                    /\ query' = AllGoods /\ origin' = Found(query')
      BY <1>1, <1>4, <1>7, <2>1
    <2>9. Sound' /\ command = "normal" /\ register' # Failed => Settled'
      <3> HAVE Sound' /\ command = "normal"
      <3>1. Empty(goods)
        BY <2>2 DEF NextCommand
      <3>2. button' = button
        BY <1>1, <2>7, <2>8 DEF AllNormal, TypeOK
      <3>3. goodsList' = IF register' = Failed THEN NoList ELSE register'
        BY <2>2, <2>4 DEF Sort
      <3>4. register' = goods /\ goods \in List
        BY <1>1, <2>5, <2>8
      <3>5. goodsList' = goods
        BY <3>3, <3>4, DistinctValues
      <3> QED BY <1>5, <1>7, <2>8, <3>1, <3>2, <3>4, <3>5 DEF Settled, ShowsAsked, Empty
    <2>10. Sound' /\ command # "normal"
             => RightRequest([kind |-> "sort", goods |-> Sorted(goods, <<"sales", command>>),
                              more |-> 1, own |-> TRUE])'
      <3> HAVE Sound' /\ command # "normal"
      <3>1. button["sales"] = "normal"
        BY <2>8 DEF AllNormal
      <3>2. command = "up" /\ ~ Empty(goods)
        BY <2>2, <3>1 DEF NextCommand
      <3>3. ListsAreOfSearch'
        BY <2>7, <2>8 DEF ListsAreOfSearch
      <3>4. goods = Source'
        BY <2>1, <2>8 DEF Source
      <3>5. ~ Empty(Source)'
        BY <3>2, <3>4 DEF Empty
      <3>6. button'["sales"] = "up"
        BY <2>7, <3>2
      <3> QED BY <2>7, <2>8, <3>2, <3>3, <3>4, <3>5, <3>6, SortRight
    <2>11. goods = Source'
      BY <1>1, <1>7, <2>1 DEF IndInv, HotGoodsFirst, Own, Outcome, Source
    <2> QED BY <1>1, <2>2, <2>4, <2>5, <2>6, <2>9, <2>10, <2>11, SortIndInv
  <1> QED BY <1>2, <1>6, <1>7
------------------------------------------------------------------------------
(* The theorems *)

\* The two presses are made before the page is painted.
LEMMA HotGoodsFirstNext == ASSUME IndInv, Next PROVE HotGoodsFirst'
  <1> DEFINE Pending == \E s \in Slot : Own(s) /\ req[s].more # 0
  <1>1. TypeOK /\ (Pending => OwnPending /\ ~ painted /\ ~ hurried /\ ~ loaded /\ stock = "all")
    BY DEF IndInv, HotGoodsFirst, OneAtATime, Own, OwnPending
  <1>2. ASSUME NEW q \in Query, Open(q)
        PROVE  HotGoodsFirst'
    BY <1>2 DEF Open, Fresh, IndInv, OneAtATime, HotGoodsFirst
  <1>3. CASE Leave
    BY <1>3, <1>1 DEF Leave, TypeOK, Request, Own, HotGoodsFirst
  <1>4. CASE Paint
    BY <1>4, <1>1 DEF Paint, page, history, HotGoodsFirst, Own
  <1>5. CASE Elsewhere
    BY <1>5, <1>1 DEF Elsewhere, page, HotGoodsFirst, Own
  <1>6. ASSUME NEW r \in Request, r.more = 0, painted, Send(req, r) \/ UNCHANGED req
        PROVE  HotGoodsFirst'
    <2>1. \A s \in Slot : Own(s) => req[s].more = 0
      BY <1>1, <1>6
    <2>2. req \in [Slot -> Request \cup {Free}]
      BY <1>1 DEF TypeOK
    <2>3. \A s \in Slot : Own(s)' => req'[s].more = 0
      BY <1>6, <2>1, <2>2, SendType DEF Own
    <2> QED BY <2>3 DEF HotGoodsFirst
  <1>7. ASSUME NEW q \in Query, SearchFromSearchHeader(q)
        PROVE  HotGoodsFirst'
    <2>1. Search(q, 0) \in Request
      BY SearchType
    <2>2. Search(q, 0).more = 0
      BY DEF Search
    <2> QED BY <1>6, <1>7, <2>1, <2>2 DEF SearchFromSearchHeader, Touched
  <1>8. ASSUME NEW reference \in References, PressSort(reference)
        PROVE  HotGoodsFirst'
    <2>1. PICK command : command = NextCommand(button[reference], Source)
      OBVIOUS
    <2>2. CASE command = "normal"
      BY <1>1, <1>8, <2>1, <2>2 DEF PressSort, Touched, Sort, HotGoodsFirst, Own
    <2>3. CASE command # "normal"
      <3>1. PICK r : r = [kind |-> "sort", goods |-> Sorted(Source, <<reference, command>>),
                          more |-> 0, own |-> TRUE]
        OBVIOUS
      <3>2. Sorted(Source, <<reference, command>>) \in List \cup {NoList}
        BY <1>1, <2>1, <2>3, SortedType, SourceType DEF TypeOK, NextCommand
      <3>3. r \in Request /\ r.more = 0
        BY <3>1, <3>2 DEF Request
      <3> QED BY <1>6, <1>8, <2>1, <2>3, <3>1, <3>3 DEF PressSort, Touched, Sort
    <2> QED BY <2>2, <2>3
  <1>9. CASE CheckByStock
    <2>1. PICK r : r = [kind |-> "stock", goods |-> Stocked(origin), more |-> 0, own |-> TRUE]
      OBVIOUS
    <2>2. r \in Request /\ r.more = 0
      BY <1>1, <2>1, StockedType DEF TypeOK, Request
    <2> QED BY <1>6, <1>9, <2>1, <2>2 DEF CheckByStock, Touched
  <1>10. ASSUME NEW s \in Slot, NEW ok \in BOOLEAN, Outcome(s, ok),
                UNCHANGED stock \/ req[s].own,
                Show(s, ok) \/ Ignore(s) \/ PressInVain(s)
         PROVE  HotGoodsFirst'
    <2>1. /\ \A t \in Slot : t # s => req'[t] = req[t]
          /\ req'[s] # Free => ~ req'[s].own
      <3>1. CASE Show(s, ok) \/ Ignore(s)
        BY <1>1, <3>1, FreedType DEF Show, Ignore
      <3>2. CASE PressInVain(s)
        BY <1>1, <3>2, InVainType
      <3> QED BY <1>10, <3>1, <3>2
    <2>2. UNCHANGED <<painted, hurried>> /\ req[s] # Free
      BY <1>10 DEF Outcome
    <2>3. ASSUME NEW t \in Slot, Own(t)', (req[t].more # 0)'
          PROVE  ~ painted /\ ~ hurried /\ stock = "all" /\ UNCHANGED stock
      <3>1. t # s /\ Own(t) /\ req[t].more # 0
        BY <2>1, <2>3 DEF Own
      <3>2. ~ painted /\ ~ hurried /\ stock = "all"
        BY <3>1 DEF IndInv, HotGoodsFirst
      <3>3. ~ req[s].own
        BY <2>2, <3>1, <3>2 DEF IndInv, OneAtATime, Own
      <3> QED BY <1>10, <3>2, <3>3
    <2> QED BY <2>2, <2>3 DEF HotGoodsFirst
  <1>11. ASSUME NEW s \in Slot, NEW ok \in BOOLEAN, Outcome(s, ok),
                req[s].own, req[s].more # 0, UNCHANGED stock
         PROVE  HotGoodsFirst'
    BY <1>11 DEF IndInv, HotGoodsFirst, Own, Outcome
  <1>12. ASSUME NEW s \in Slot, NEW ok \in BOOLEAN, SearchAnswered(s, ok)
         PROVE  HotGoodsFirst'
    BY <1>10, <1>11, <1>12 DEF SearchAnswered
  <1>13. ASSUME NEW s \in Slot, NEW ok \in BOOLEAN, SortAnswered(s, ok)
         PROVE  HotGoodsFirst'
    BY <1>10, <1>11, <1>13 DEF SortAnswered
  <1>14. ASSUME NEW s \in Slot, NEW ok \in BOOLEAN, StockAnswered(s, ok)
         PROVE  HotGoodsFirst'
    BY <1>10, <1>14 DEF StockAnswered
  <1> QED BY <1>2, <1>3, <1>4, <1>5, <1>7, <1>8, <1>9, <1>12, <1>13, <1>14 DEF Next, Answered

LEMMA NextIndInv == IndInv /\ [Next]_vars => IndInv'
  <1> SUFFICES ASSUME IndInv, [Next]_vars PROVE IndInv'
    OBVIOUS
  <1>1. TypeOK'
    BY TypeInductive DEF IndInv
  <1>2. CASE UNCHANGED vars
    BY <1>2 DEF vars, page, globals, history, IndInv, TypeOK, OneAtATime, HotGoodsFirst,
                ListKnown, LoadingHasReason, Empty, ShownIsRight, PendingIsRight, Sound, Own, OwnPending, Settled,
                RightRequest, ListsAreOfSearch, ShowsAsked, Asked, Source, AllNormal
  <1>3. CASE Next
    BY <1>1, <1>3, OpenIndInv, SearchFromSearchHeaderIndInv, LeaveIndInv, PaintIndInv,
       PressSortIndInv, CheckByStockIndInv, SearchAnsweredIndInv, SortAnsweredIndInv,
       StockAnsweredIndInv, ElsewhereIndInv, HotGoodsFirstNext DEF Next, Answered
  <1> QED BY <1>2, <1>3

\* In a visit without double taps, and while no answer to an earlier visit comes
\* in, the list on the page is of the last search, filtered and sorted as the
\* buttons say; not so for the hot goods after a failure, nor for an empty list
\* after another page's answer (ShowGoodsListPage.js:374-508).
THEOREM ListMatchesButtonsHolds == Spec => []ListMatchesButtons
  <1>1. IndInv => ListMatchesButtons
    BY AskedSource DEF IndInv, ShownIsRight, Sound, Settled, ListMatchesButtons
  <1> QED BY <1>1, InitIndInv, NextIndInv, PTL DEF Spec

\* LoadingPage stays only for a request that is under way, after one that failed,
\* or where a sort button that made no request found the failure of another
\* (ShowGoodsListPage.js:99-144, 417, 466, 502).
THEOREM LoadingHasReasonHolds == Spec => []LoadingHasReason
  <1>1. IndInv => LoadingHasReason
    BY DEF IndInv
  <1> QED BY <1>1, InitIndInv, NextIndInv, PTL DEF Spec
==============================================================================
