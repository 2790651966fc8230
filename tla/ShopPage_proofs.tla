--------------------------- MODULE ShopPage_proofs ---------------------------
(***************************************************************************)
(* For any shops with any numbers of kinds, any visits, any loads that     *)
(* overlap and any failures: the list that is reordered in place keeps     *)
(* every kind of the shop, the chosen kind comes first after a load, and   *)
(* the page breaks only on an index that was taken in another shop.        *)
(***************************************************************************)
EXTENDS ShopPage, TLAPS

\* The index in the state is the parameter; away from the page neither is set.
IndexIsParameter == /\ chosen = kindParam
                    /\ place = "away" => chosen = None /\ goods = NoGoods
                    /\ place # "away" => shopName \in Shop

\* Only a page that is there waits.
WaitsOnStack == place = "away" => loads = 0 /\ ~ loaded

\* The index is one of the shop's if it was taken there, or has been rendered.
IndexIsOfShop == place # "away" /\ (loaded \/ indexShop = shopName) => chosen \in Choice(shopName)

\* ChosenKindFirst, of a page that is covered too.
ChosenFirst == loaded /\ ~ stale => goods[1] = IF chosen = None THEN 1 ELSE chosen

\* The list has each kind of the shop once, in whatever order.
IsOrderOf(list, s) == /\ list \in [KindOf(s) -> KindOf(s)]
                      /\ \A k \in KindOf(s) : \E i \in KindOf(s) : list[i] = k

GoodsInOrder == goods # NoGoods => IsOrderOf(goods, shopName)

IndInv == /\ TypeOK
          /\ IndexIsParameter
          /\ WaitsOnStack
          /\ IndexIsOfShop
          /\ ChosenFirst
          /\ GoodsInOrder
          /\ BreaksOnlyForAnotherShop
------------------------------------------------------------------------------
(* The list *)

\* The indices of a shop's kinds.
LEMMA Indices ==
    ASSUME NEW s \in Shop
    PROVE  /\ Kinds[s] \in Nat \ {0}
           /\ 1 \in KindOf(s)
           /\ KindOf(s) \subseteq Nat
           /\ None \notin KindOf(s)
  BY ShopAssumption DEF KindOf

\* Two kinds change places: no kind is lost, and the chosen one comes first.
LEMMA SwapKeepsKinds ==
    ASSUME NEW s \in Shop, NEW list, IsOrderOf(list, s), NEW k \in Choice(s)
    PROVE  /\ IsOrderOf(Swapped(list, k), s)
           /\ k # None => Swapped(list, k)[1] = list[k]
           /\ k = None => Swapped(list, k) = list
  <1>1. CASE k = None
    BY <1>1 DEF Swapped
  <1>2. CASE k # None
    <2> DEFINE swapped == [list EXCEPT ![1] = list[k], ![k] = list[1]]
    <2>1. Swapped(list, k) = swapped
      BY <1>2 DEF Swapped
    <2>2. k \in KindOf(s) /\ 1 \in KindOf(s)
      BY <1>2, Indices DEF Choice
    <2>3. list \in [KindOf(s) -> KindOf(s)] /\ \A j \in KindOf(s) : \E i \in KindOf(s) : list[i] = j
      BY DEF IsOrderOf
    <2>4. /\ swapped \in [KindOf(s) -> KindOf(s)]
          /\ swapped[1] = list[k]
          /\ swapped[k] = list[1]
          /\ \A i \in KindOf(s) : i # 1 /\ i # k => swapped[i] = list[i]
      BY <2>2, <2>3
    <2> HIDE DEF swapped
    <2>5. ASSUME NEW j \in KindOf(s)
          PROVE  \E i \in KindOf(s) : swapped[i] = j
      <3>1. PICK i \in KindOf(s) : list[i] = j
        BY <2>3
      <3>2. CASE i = 1
        BY <2>2, <2>4, <3>1, <3>2
      <3>3. CASE i = k
        BY <2>2, <2>4, <3>1, <3>3
      <3>4. CASE i # 1 /\ i # k
        BY <2>4, <3>1, <3>4
      <3> QED BY <3>2, <3>3, <3>4
    <2> QED BY <1>2, <2>1, <2>4, <2>5 DEF IsOrderOf
  <1> QED BY <1>1, <1>2

LEMMA OrderIsList ==
    ASSUME NEW s \in Shop, NEW list, IsOrderOf(list, s)
    PROVE  list \in Lists /\ DOMAIN list = KindOf(s)
  BY DEF IsOrderOf, Lists
------------------------------------------------------------------------------
(* The loads that overlap *)

LEMMA LoadsCounted ==
    /\ 0 \in 0..MaxLoads
    /\ \A n \in 0..MaxLoads : n < MaxLoads => n + 1 \in 0..MaxLoads
    /\ \A n \in 0..MaxLoads : n > 0 => n - 1 \in 0..MaxLoads
  <1>1. MaxLoads \in Nat \ {0}
    BY ShopAssumption
  <1> QED BY <1>1
------------------------------------------------------------------------------
(* The invariant *)

LEMMA InitIndInv == Init => IndInv
  BY LoadsCounted DEF Init, IndInv, TypeOK, IndexIsParameter, WaitsOnStack, IndexIsOfShop, Choice, ChosenFirst,
         GoodsInOrder, BreaksOnlyForAnotherShop

LEMMA OpenIndInv ==
    ASSUME IndInv, NEW s \in Shop, NEW k \in UNION {Choice(t) : t \in Shop}, Open(s, k) \/ Jump(s, k)
    PROVE  IndInv'
  <1> USE DEF IndInv
  <1>1. k \in Choice(s) /\ k \in (UNION {KindOf(t) : t \in Shop}) \cup {None}
    BY DEF Open, Jump, Choice
  <1>2. CASE Open(s, k)
    BY <1>1, <1>2, LoadsCounted
    DEF Open, Focus, TypeOK, IndexIsParameter, WaitsOnStack, IndexIsOfShop, ChosenFirst, GoodsInOrder,
        BreaksOnlyForAnotherShop
  <1>3. CASE Jump(s, k)
    BY <1>1, <1>3, LoadsCounted
    DEF Jump, Focus, TypeOK, IndexIsParameter, WaitsOnStack, IndexIsOfShop, ChosenFirst, GoodsInOrder,
        BreaksOnlyForAnotherShop, IsOrderOf, KindOf, Choice
  <1> QED BY <1>2, <1>3

LEMMA ComesAndGoesIndInv ==
    ASSUME IndInv, OpenGood \/ Back \/ Paint \/ Leave
    PROVE  IndInv'
  <1> USE DEF IndInv
  <1>1. CASE OpenGood
    BY <1>1 DEF OpenGood, param, TypeOK, Lists, IndexIsParameter, WaitsOnStack, IndexIsOfShop, ChosenFirst,
                GoodsInOrder, BreaksOnlyForAnotherShop, IsOrderOf, KindOf, Choice
  <1>2. CASE Back
    BY <1>2, LoadsCounted
    DEF Back, Focus, param, TypeOK, Lists, IndexIsParameter, WaitsOnStack, IndexIsOfShop, ChosenFirst, GoodsInOrder,
        BreaksOnlyForAnotherShop, IsOrderOf, KindOf, Choice
  <1>3. CASE Leave
    BY <1>3, LoadsCounted
    DEF Leave, Gone, TypeOK, IndexIsParameter, WaitsOnStack, IndexIsOfShop, Choice, ChosenFirst, GoodsInOrder,
        BreaksOnlyForAnotherShop
  <1>4. CASE Paint
    BY <1>4 DEF Paint, param, TypeOK, Lists, IndexIsParameter, WaitsOnStack, IndexIsOfShop, ChosenFirst,
                GoodsInOrder, BreaksOnlyForAnotherShop, IsOrderOf, KindOf, Choice
  <1> QED BY <1>1, <1>2, <1>3, <1>4

\* The end of a load: a list of the shop's kinds is put in order.
LEMMA ShowIndInv ==
    ASSUME IndInv, LoadEnds, NEW list, IsOrderOf(list, shopName), Show(list),
           stale' \in BOOLEAN,
           stale' \/ \A i \in KindOf(shopName) : list[i] = i,
           UNCHANGED <<param, shopName, chosen, painted>>
    PROVE  IndInv'
  <1> USE DEF IndInv
  <1>1. /\ shopName \in Shop /\ place \in {"top", "below"}
        /\ loads' \in 0..MaxLoads
        /\ UNCHANGED <<title, kindParam, indexShop, shopName, chosen, painted>>
    BY LoadsCounted DEF LoadEnds, TypeOK, IndexIsParameter, WaitsOnStack, param
  <1>2. DOMAIN list = KindOf(shopName) /\ chosen \in (UNION {KindOf(s) : s \in Shop}) \cup {None}
    BY <1>1, OrderIsList DEF TypeOK
  <1>3. CASE chosen = None \/ chosen \in DOMAIN list
    <2>1. chosen \in Choice(shopName)
      BY <1>2, <1>3 DEF Choice
    <2>2. goods' = Swapped(list, chosen) /\ loaded' = TRUE /\ place' = place
      BY <1>3 DEF Show
    <2>3. IsOrderOf(goods', shopName) /\ goods' \in Lists
      BY <1>1, <2>1, <2>2, SwapKeepsKinds, OrderIsList
    <2>4. stale' \/ goods'[1] = IF chosen = None THEN 1 ELSE chosen
      <3>1. 1 \in KindOf(shopName)
        BY <1>1, Indices
      <3>2. CASE chosen = None
        BY <1>1, <2>1, <2>2, <3>1, <3>2, SwapKeepsKinds
      <3>3. CASE chosen # None
        <4>1. goods'[1] = list[chosen] /\ chosen \in KindOf(shopName)
          BY <1>1, <1>2, <1>3, <2>1, <2>2, <3>3, SwapKeepsKinds
        <4> QED BY <3>3, <4>1
      <3> QED BY <3>2, <3>3
    <2>5. TypeOK'
      BY <1>1, <2>2, <2>3 DEF TypeOK, Lists, KindOf
    <2>6. GoodsInOrder'
      BY <2>3 DEF GoodsInOrder, IsOrderOf, KindOf
    <2>7. IndexIsOfShop'
      BY <2>1 DEF IndexIsOfShop, Choice, KindOf
    <2> QED BY <1>1, <2>2, <2>4, <2>5, <2>6, <2>7
            DEF IndexIsParameter, WaitsOnStack, ChosenFirst, BreaksOnlyForAnotherShop
  <1>4. CASE chosen # None /\ chosen \notin DOMAIN list
    <2>1. place' = "broken" /\ UNCHANGED <<goods, loaded>>
      BY <1>4 DEF Show
    <2>2. indexShop # shopName /\ ~ loaded
      BY <1>1, <1>2, <1>4 DEF IndexIsOfShop, Choice
    <2> QED BY <1>1, <2>1, <2>2
            DEF TypeOK, Lists, IndexIsParameter, WaitsOnStack, IndexIsOfShop, ChosenFirst, GoodsInOrder,
                BreaksOnlyForAnotherShop, IsOrderOf, KindOf, Choice
  <1> QED BY <1>3, <1>4

LEMMA LoadIndInv ==
    ASSUME IndInv, LoadAnswered \/ LoadFailed
    PROVE  IndInv'
  <1> USE DEF IndInv
  <1>1. CASE LoadAnswered
    <2>1. IsOrderOf(InServersOrder, shopName) /\ \A i \in KindOf(shopName) : InServersOrder[i] = i
      BY DEF IsOrderOf, InServersOrder
    <2> QED BY <1>1, <2>1, ShowIndInv DEF LoadAnswered
  <1>2. CASE LoadFailed /\ goods = NoGoods
    BY <1>2, LoadsCounted DEF LoadFailed, LoadEnds, param, TypeOK, Lists, IndexIsParameter, WaitsOnStack, IndexIsOfShop, ChosenFirst,
                GoodsInOrder, BreaksOnlyForAnotherShop, IsOrderOf, KindOf, Choice
  <1>3. CASE LoadFailed /\ goods # NoGoods
    BY <1>3, ShowIndInv DEF LoadFailed, GoodsInOrder
  <1> QED BY <1>1, <1>2, <1>3

LEMMA StepIndInv == IndInv /\ [Next]_vars => IndInv'
  <1> SUFFICES ASSUME IndInv, [Next]_vars PROVE IndInv'
    OBVIOUS
  <1>1. CASE \E s \in Shop, k \in UNION {Choice(t) : t \in Shop} : Open(s, k) \/ Jump(s, k)
    BY <1>1, OpenIndInv
  <1>2. CASE OpenGood \/ Back \/ Paint \/ Leave
    BY <1>2, ComesAndGoesIndInv
  <1>3. CASE LoadAnswered \/ LoadFailed
    BY <1>3, LoadIndInv
  <1>4. CASE UNCHANGED vars
    BY <1>4 DEF vars, param, IndInv, TypeOK, Lists, IndexIsParameter, WaitsOnStack, IndexIsOfShop, ChosenFirst,
                GoodsInOrder, BreaksOnlyForAnotherShop, IsOrderOf, KindOf, Choice
  <1> QED BY <1>1, <1>2, <1>3, <1>4 DEF Next

LEMMA IndInvHolds == Spec => []IndInv
  BY InitIndInv, StepIndInv, PTL DEF Spec
------------------------------------------------------------------------------
(* The properties *)

\* The values of the page's state; in particular the index is one of some
\* shop's or none.
THEOREM TypeCorrect == Spec => []TypeOK
  <1>1. IndInv => TypeOK
    BY DEF IndInv
  <1> QED BY <1>1, IndInvHolds, PTL

\* However often the array is reordered in place, it has each kind of the shop
\* once (ShopPage.js:111-127).
THEOREM KindsCompleteHolds == Spec => []KindsComplete
  <1>1. IndInv => KindsComplete
    <2> SUFFICES ASSUME IndInv, goods # NoGoods
                 PROVE  /\ DOMAIN goods = KindOf(shopName)
                        /\ {goods[i] : i \in DOMAIN goods} = KindOf(shopName)
      BY DEF KindsComplete
    <2> QED BY DEF IndInv, GoodsInOrder, IsOrderOf
  <1> QED BY <1>1, IndInvHolds, PTL

\* After a load that did not fail the chosen kind comes first (ShopPage.js:74-92,
\* 111-127).
THEOREM ChosenKindFirstHolds == Spec => []ChosenKindFirst
  <1>1. IndInv => ChosenKindFirst
    BY DEF IndInv, ChosenFirst, ChosenKindFirst, Rendered
  <1> QED BY <1>1, IndInvHolds, PTL

\* A page breaks only on an index that was taken in another shop
\* (ShopPage.js:43-48, 74-92, ShowGoodPage.js:340-344).
THEOREM BreaksOnlyForAnotherShopHolds == Spec => []BreaksOnlyForAnotherShop
  <1>1. IndInv => BreaksOnlyForAnotherShop
    BY DEF IndInv
  <1> QED BY <1>1, IndInvHolds, PTL
==============================================================================
