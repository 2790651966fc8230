------------------------------- MODULE ShopPage -------------------------------
(***************************************************************************)
(* src/ShopPage.js: the kinds of goods of a shop, the kind that the user   *)
(* chose on the page of a good first.                                      *)
(*                                                                         *)
(* One instance of the page is followed: the one lowest on the stack.  The *)
(* page of a good calls navigate('ShopPage'), which comes back to that     *)
(* instance, pops what is above it and merges the parameters; the page     *)
(* loads on every focus.  The shop it loads is kept in the state and taken *)
(* from the parameters only when the page is mounted; its title is the     *)
(* parameter itself.                                                       *)
(*                                                                         *)
(* LoadingPage covers the kinds during a load.  A press before it is       *)
(* painted still opens a good, so that loads may overlap.                  *)
(*                                                                         *)
(* GoodsAPIData and GoodsInfo are one array, in which the chosen kind and  *)
(* the first change places after every load, successful or not.            *)
(*                                                                         *)
(* Kinds are numbered from 1 in the order in which the server sends them,  *)
(* and so is the index of the chosen kind.                                 *)
(***************************************************************************)
EXTENDS Naturals

CONSTANTS Shop,
          Kinds,   \* the number of kinds of goods of each shop
          None,    \* no shop, and an undefined parameter
          NoGoods, \* the -1 of GoodsInfo
          MaxLoads \* bound: loads that overlap

ASSUME ShopAssumption == /\ Kinds \in [Shop -> Nat \ {0}]
                         /\ MaxLoads \in Nat \ {0}
                         /\ None \notin Shop \cup Nat

VARIABLES place,     \* where the page is: on top of the stack or not, or away
          title,     \* the parameter shopName
          kindParam, \* the parameter g_smallkind_index
          shopName,  \* state.shopName
          chosen,    \* state.ShopPageIndex; None for -1
          goods,     \* the kinds in GoodsAPIData and GoodsInfo
          loaded,    \* state.Is_LoadingFinsh
          painted,   \* the kinds and their buttons are on the screen
          loads,     \* the loads whose answer is outstanding
          stale,     \* the last load that ended failed
          indexShop  \* history: the shop in which the chosen index was taken

param == <<title, kindParam, indexShop>>
vars  == <<place, param, shopName, chosen, goods, loaded, painted, loads, stale>>

KindOf(s) == 1..Kinds[s]

Lists == UNION {[KindOf(s) -> KindOf(s)] : s \in Shop}

TypeOK == /\ place \in {"away", "top", "below", "broken"}
          /\ title \in Shop \cup {None}
          /\ shopName \in Shop \cup {None}
          /\ kindParam \in (UNION {KindOf(s) : s \in Shop}) \cup {None}
          /\ chosen \in (UNION {KindOf(s) : s \in Shop}) \cup {None}
          /\ goods = NoGoods \/ goods \in Lists
          /\ loaded \in BOOLEAN
          /\ painted \in BOOLEAN
          /\ loads \in 0..MaxLoads
          /\ stale \in BOOLEAN
          /\ indexShop \in Shop \cup {None}

Init == /\ place = "away"
        /\ title = None
        /\ kindParam = None
        /\ shopName = None
        /\ chosen = None
        /\ goods = NoGoods
        /\ loaded = FALSE
        /\ painted = FALSE
        /\ loads = 0
        /\ stale = FALSE
        /\ indexShop = None
------------------------------------------------------------------------------
(* The stack *)

\* willFocus: freshPageFunction up to its await, with parameter k.
Focus(k) == /\ place' = "top"
            /\ chosen' = IF k = None THEN chosen ELSE k
            /\ loaded' = FALSE
            /\ loads < MaxLoads
            /\ loads' = loads + 1

\* What the pages that lead here pass: a shop, and one of its kinds or none.
Choice(s) == KindOf(s) \cup {None}

\* The page is mounted: pushed by a cart or a list of goods, or by navigate.
Open(s, k) == /\ place = "away"
              /\ k \in Choice(s)
              /\ title' = s
              /\ shopName' = s
              /\ kindParam' = k
              /\ indexShop' = s
              /\ Focus(k)
              /\ UNCHANGED <<goods, painted, stale>>

\* navigate('ShopPage') on the page of a good of shop s.  By way of
\* StackCartPage that may be another shop.  Without an index the one before stays.
Jump(s, k) == /\ place = "below"
              /\ k \in Choice(s)
              /\ title' = s
              /\ IF k = None THEN UNCHANGED <<kindParam, indexShop>> ELSE kindParam' = k /\ indexShop' = s
              /\ Focus(kindParam')
              /\ UNCHANGED <<shopName, goods, painted, stale>>

\* _onsectionListBtnPress, on what is painted.
OpenGood == /\ place = "top"
            /\ painted
            /\ place' = "below"
            /\ UNCHANGED <<param, shopName, chosen, goods, loaded, painted, loads, stale>>

\* The user comes back to the page.
Back == /\ place = "below"
        /\ Focus(kindParam)
        /\ UNCHANGED <<param, shopName, goods, painted, stale>>

\* What render returned last comes on the screen.
Paint == /\ place \in {"top", "below"}
         /\ painted # loaded
         /\ painted' = loaded
         /\ UNCHANGED <<place, param, shopName, chosen, goods, loaded, loads, stale>>

\* The instance is gone, and its requests with it; the next one has the index k.
Gone(k) == /\ place # "away"
           /\ place' = "away"
           /\ title' = None
           /\ kindParam' = None
           /\ indexShop' = None
           /\ shopName' = None
           /\ chosen' = k
           /\ goods' = NoGoods
           /\ loaded' = FALSE
           /\ painted' = FALSE
           /\ loads' = 0
           /\ stale' = FALSE

\* Mutant: the index is reset to the first kind's place before it.
LeaveZero == Gone(0)

\* Mutant: the index is a variable of the module, as the flags of OrderPage are.
LeaveKeepsIndex == Gone(chosen)

\* The page is popped, or the application that its render broke is started again.
Leave == Gone(None)
------------------------------------------------------------------------------
(* The load *)

InServersOrder == [i \in KindOf(shopName) |-> i]

\* Mutant: the first kind is not kept.
SwappedLosing(list, k) == IF k = None THEN list ELSE [list EXCEPT ![1] = list[k]]

\* createGoodsInfoByGoodsAPIData.
Swapped(list, k) == IF k = None THEN list ELSE [list EXCEPT ![1] = list[k], ![k] = list[1]]

\* The kinds are put in order and rendered.  An index that is not one of list's
\* puts an undefined element first, which render dereferences.
Show(list) == IF chosen = None \/ chosen \in DOMAIN list
              THEN /\ goods' = Swapped(list, chosen)
                   /\ loaded' = TRUE
                   /\ UNCHANGED place
              ELSE /\ place' = "broken"
                   /\ UNCHANGED <<goods, loaded>>

\* A load ends; an application that is broken does not go on.
LoadEnds == /\ loads > 0
            /\ place # "broken"
            /\ loads' = loads - 1

\* Mutant: the kinds that the page has are put in order again.
LoadAnsweredKeeps == /\ LoadEnds
                     /\ stale' = FALSE
                     /\ Show(IF goods = NoGoods THEN InServersOrder ELSE goods)
                     /\ UNCHANGED <<param, shopName, chosen, painted>>

\* fetchGoodsAPIData with status 200, and the rest of freshPageFunction.
LoadAnswered == /\ LoadEnds
                /\ stale' = FALSE
                /\ Show(InServersOrder)
                /\ UNCHANGED <<param, shopName, chosen, painted>>

\* The same with status 404 or 500: what was loaded before is shown again.
LoadFailed == /\ LoadEnds
              /\ stale' = TRUE
              /\ IF goods = NoGoods THEN UNCHANGED <<place, goods, loaded>> ELSE Show(goods)
              /\ UNCHANGED <<param, shopName, chosen, painted>>
------------------------------------------------------------------------------
Next == \/ \E s \in Shop, k \in UNION {Choice(t) : t \in Shop} : Open(s, k) \/ Jump(s, k)
        \/ OpenGood
        \/ Back
        \/ Paint
        \/ Leave
        \/ LoadAnswered
        \/ LoadFailed

Spec == Init /\ [][Next]_vars
------------------------------------------------------------------------------
(* Properties *)

Rendered == place = "top" /\ loaded

\* However often the array was reordered in place, by reloads that failed and
\* for choices that changed, it has each kind of the shop once
\* (ShopPage.js:111-127).
KindsComplete == goods # NoGoods => /\ DOMAIN goods = KindOf(shopName)
                                    /\ {goods[i] : i \in DOMAIN goods} = KindOf(shopName)

\* The kind the user chose comes first, if the last load did not fail
\* (ShopPage.js:74-92, 111-127).
ChosenKindFirst == Rendered /\ ~ stale => goods[1] = IF chosen = None THEN 1 ELSE chosen

\* The page breaks only on an index that was taken in another shop, after
\* navigate came back to an instance that keeps the shop it was opened for
\* (ShopPage.js:43-48, 74-92, ShowGoodPage.js:340-344).
BreaksOnlyForAnotherShop == place = "broken" => indexShop # shopName
==============================================================================
