----------------------------- MODULE ShowGoodPage -----------------------------
(***************************************************************************)
(* src/ShowGoodPage.js: one visit to the page of a good, with the buttons  *)
(* that put it into the cart and that buy it at once.                      *)
(*                                                                         *)
(* A load is three requests one after the other: the good, its shop, the   *)
(* amount in the cart.  It runs each time the page gets the focus and a    *)
(* second after the page was pulled down, so loads overlap; they share     *)
(* Is_LoadingFinsh.  The cart button is kept shut by                       *)
(* Is_AddCartAnimatedFinish while its animation runs, but only from the    *)
(* answer on: until then more presses pass.  React Native stops an         *)
(* animation when another is started on its values, and calls its callback.*)
(*                                                                         *)
(* What follows an await is one step, taken when the answer is there; the  *)
(* answer is the request's own (module ApiHelper).  The server is external.*)
(***************************************************************************)
EXTENDS Naturals, Sequences, SequencesExt

CONSTANTS MaxCart,    \* bound of the model: the most goods in the cart
          MaxAmount,  \* bound of the model: the most pieces bought at once
          NoAmount,   \* the -1 of state.cartAmount
          MaxFlight   \* bound of the model: requests the user may have started

ASSUME GoodPageAssumption == /\ MaxCart \in Nat
                             /\ MaxAmount \in Nat
                             /\ MaxFlight \in Nat
                             /\ NoAmount \notin Nat

VARIABLES nav,        \* the page on top: this one ("shown"), OrderPage or another
          loaded,     \* state.Is_LoadingFinsh
          good,       \* state.goodInfo: "none" is -1, "missing" is undefined
          bought,     \* its g_cartAmount, which OrderPage sees as well
          shop,       \* state.shopInfo is not -1
          cartAmount, \* state.cartAmount
          gate,       \* state.Is_AddCartAnimatedFinish
          animating,  \* an animation is running
          refresh,    \* state.Is_Refresh: the timer of a refresh is running
          painted,    \* the buttons of the page are on the screen
          net,        \* the requests under way, oldest first
          cart,       \* how many goods the user's cart on the server holds
          failed,     \* a request failed since the amount was last loaded
          overtaken,  \* the network has changed the order of requests
          doubled     \* the cart button was pressed while an add was under way

data    == <<good, bought, shop>>
button  == <<gate, animating>>
history == <<failed, overtaken, doubled>>
vars    == <<nav, loaded, data, cartAmount, button, refresh, painted, net, cart, history>>

Amount == 0..MaxCart

Loads == {"good", "shop", "amount"}

\* "badge" is the request for the amount that follows an animation.
Request == [kind : Loads \cup {"add", "badge"},
            answer : {"none", "SUCCESS", "WARNING", "FAILED"},
            amount : Amount \cup {NoAmount}]

New(kind) == [kind |-> kind, answer |-> "none", amount |-> NoAmount]

TypeOK == /\ nav \in {"shown", "order", "other", "gone"}
          /\ loaded \in BOOLEAN /\ shop \in BOOLEAN /\ painted \in BOOLEAN
          /\ gate \in BOOLEAN /\ animating \in BOOLEAN /\ refresh \in BOOLEAN
          /\ good \in {"none", "missing", "there"}
          /\ bought \in 0..MaxAmount
          /\ cartAmount \in Amount \cup {NoAmount}
          /\ net \in Seq(Request)
          /\ cart \in Amount
          /\ failed \in BOOLEAN /\ overtaken \in BOOLEAN /\ doubled \in BOOLEAN

\* The page is pushed and does not have the focus yet.
Init == /\ nav = "other"
        /\ loaded = FALSE
        /\ good = "none"
        /\ bought = 0
        /\ shop = FALSE
        /\ cartAmount = NoAmount
        /\ gate = TRUE
        /\ animating = FALSE
        /\ refresh = FALSE
        /\ painted = FALSE
        /\ net = <<>>
        /\ cart \in Amount
        /\ failed = FALSE
        /\ overtaken = FALSE
        /\ doubled = FALSE

HasGood == good = "there"

Covered == nav \in {"order", "other"}

\* render reads the good's comments and maps over shopInfo: without them it
\* throws, and React takes the application off the screen.
Crashed == loaded /\ ~ (HasGood /\ shop)

Alive == nav # "gone" /\ ~ Crashed

\* One of these requests is a request of these kinds.
UnderWay(requests, kinds) == \E i \in DOMAIN requests : requests[i].kind \in kinds
------------------------------------------------------------------------------
(* Loading and leaving *)

\* A request of the user is sent.
Send(kind) == /\ Len(net) < MaxFlight
              /\ net' = Append(net, New(kind))

\* freshPageFunction up to its first await.
StartLoad == /\ loaded' = FALSE
             /\ Send("good")

\* didFocus.  What was rendered before is still on the screen.
Focus == /\ Alive
         /\ Covered
         /\ nav' = "shown"
         /\ painted' = loaded
         /\ StartLoad
         /\ UNCHANGED <<data, cartAmount, button, refresh, cart, history>>

\* The screen catches up with the state.
Paint == /\ Alive
         /\ painted' = (nav = "shown" /\ loaded)
         /\ painted' # painted
         /\ UNCHANGED <<nav, loaded, data, cartAmount, button, refresh, net, cart, history>>

\* reFreshFunction, for the user who pulls the page down.
Pull == /\ Alive
        /\ painted
        /\ ~ refresh
        /\ refresh' = TRUE
        /\ UNCHANGED <<nav, loaded, data, cartAmount, button, painted, net, cart, history>>

\* Its timer, a second later; wherever the user is by then.
Refresh == /\ Alive
           /\ refresh
           /\ refresh' = FALSE
           /\ StartLoad
           /\ UNCHANGED <<nav, data, cartAmount, button, painted, cart, history>>

\* To the cart or to the shop: _goToCartPress, _onGoodsDetailShopPress and
\* _onGoodsDetailShopKindBtnPress.
GoToOther == /\ Alive
             /\ painted
             /\ nav = "shown"
             /\ nav' = "other"
             /\ UNCHANGED <<loaded, data, cartAmount, button, refresh, painted,
                            net, cart, history>>

\* Back, or a reset of the stack by a page above.  The page is unmounted, and
\* what is under way no longer finds it.
Leave == /\ Alive
         /\ nav' = "gone"
         /\ loaded' = FALSE
         /\ good' = "none"
         /\ bought' = 0
         /\ shop' = FALSE
         /\ cartAmount' = NoAmount
         /\ gate' = TRUE
         /\ animating' = FALSE
         /\ refresh' = FALSE
         /\ painted' = FALSE
         /\ net' = <<>>
         /\ UNCHANGED <<cart, history>>
------------------------------------------------------------------------------
(* The two buttons *)

\* _addToCartPress up to its await.
AddToCart == /\ Alive
             /\ painted
             /\ gate
             /\ doubled' = (doubled \/ UnderWay(net, {"add"}))
             /\ Send("add")
             /\ UNCHANGED <<nav, loaded, data, cartAmount, button, refresh,
                            painted, cart, failed, overtaken>>

\* _onPurchasePress with a good in stock: one more piece in the good's own
\* object, of which OrderPage is handed the price of one.  Without stock it is
\* an alert.
Purchase == /\ Alive
            /\ painted
            /\ HasGood
            /\ bought < MaxAmount
            /\ bought' = bought + 1
            /\ nav' = "order"
            /\ UNCHANGED <<loaded, good, shop, cartAmount, button, refresh,
                           painted, net, cart, history>>

\* Mutant: the amount is not loaded again.
AnimationEndsOnly == /\ Alive
                     /\ animating
                     /\ animating' = FALSE
                     /\ gate' = TRUE
                     /\ UNCHANGED <<nav, loaded, data, cartAmount, refresh,
                                    painted, net, cart, history>>

\* The callback of the animation, up to its await.
AnimationEnds == /\ Alive
                 /\ animating
                 /\ animating' = FALSE
                 /\ net' = Append(net, New("badge"))
                 /\ UNCHANGED <<nav, loaded, data, cartAmount, gate, refresh,
                                painted, cart, history>>
------------------------------------------------------------------------------
(* The handlers after their awaits *)

Ok(i) == net[i].answer = "SUCCESS"

\* Mutant: the whole list of goods is taken for the good.
LoadedGoodList(i, found) ==
    /\ net[i].kind = "good"
    /\ good' = IF Ok(i) THEN "list" ELSE good
    /\ bought' = IF Ok(i) THEN 0 ELSE bought
    /\ net' = RemoveAt(net, i)
    /\ UNCHANGED <<loaded, shop, cartAmount, button, failed>>

\* fetchGoodInfo, and freshPageFunction up to its next await.  Without a good
\* that is its end; the undefined of an empty answer is not -1, and throws.
LoadedGood(i, found) ==
    /\ net[i].kind = "good"
    /\ good' = IF Ok(i) THEN found ELSE good
    /\ bought' = IF Ok(i) THEN 0 ELSE bought
    /\ net' = IF HasGood' THEN Append(RemoveAt(net, i), New("shop"))
                          ELSE RemoveAt(net, i)
    /\ UNCHANGED <<loaded, shop, cartAmount, button, failed>>

\* fetchShopInfo, and freshPageFunction up to its next await.
LoadedShop(i) == /\ net[i].kind = "shop"
                 /\ shop' = (shop \/ Ok(i))
                 /\ net' = Append(RemoveAt(net, i), New("amount"))
                 /\ UNCHANGED <<loaded, good, bought, cartAmount, button, failed>>

\* fetchCartAmountByUsername after its await.
TakeAmount(i) == /\ cartAmount' = IF Ok(i) THEN net[i].amount ELSE cartAmount
                 /\ failed' = ~ Ok(i)
                 /\ net' = RemoveAt(net, i)

\* Mutant: the page is shown only after an amount was loaded.
LoadedAmountOrWaits(i) ==
    /\ net[i].kind = "amount"
    /\ TakeAmount(i)
    /\ loaded' = (loaded \/ (Ok(i) /\ HasGood))
    /\ UNCHANGED <<data, button>>

\* The same and the end of freshPageFunction, which shows the page if it has the
\* shop or the amount; the comments of an undefined good throw.
LoadedAmount(i) ==
    /\ net[i].kind = "amount"
    /\ TakeAmount(i)
    /\ loaded' = (loaded \/ ((shop \/ cartAmount' # NoAmount) /\ HasGood))
    /\ UNCHANGED <<data, button>>

\* Mutant: a failure leaves the button shut.
LoadedBadgeOrStays(i) ==
    /\ net[i].kind = "badge"
    /\ TakeAmount(i)
    /\ gate' = (gate \/ Ok(i))
    /\ UNCHANGED <<loaded, data, animating>>

\* The rest of the animation's callback.
LoadedBadge(i) == /\ net[i].kind = "badge"
                  /\ TakeAmount(i)
                  /\ gate' = TRUE
                  /\ UNCHANGED <<loaded, data, animating>>

\* Mutant: the button is not shut.
AddedGateOpen(i) ==
    /\ net[i].kind = "add"
    /\ animating' = (animating \/ Ok(i))
    /\ net' = IF Ok(i) /\ animating THEN Append(RemoveAt(net, i), New("badge"))
                                    ELSE RemoveAt(net, i)
    /\ failed' = (failed \/ net[i].answer = "FAILED")
    /\ UNCHANGED <<loaded, data, cartAmount, gate>>

\* _addToCartPress after its await, and _addToCartPressAnimated: the animation
\* that was running is stopped, and its callback called.
Added(i) == /\ net[i].kind = "add"
            /\ gate' = (gate /\ ~ Ok(i))
            /\ animating' = (animating \/ Ok(i))
            /\ net' = IF Ok(i) /\ animating THEN Append(RemoveAt(net, i), New("badge"))
                                            ELSE RemoveAt(net, i)
            /\ failed' = (failed \/ net[i].answer = "FAILED")
            /\ UNCHANGED <<loaded, data, cartAmount>>

Answer(i) == /\ Alive
             /\ net[i].answer # "none"
             /\ \/ \E found \in {"there", "missing"} : LoadedGood(i, found)
                \/ LoadedShop(i)
                \/ LoadedAmount(i)
                \/ LoadedBadge(i)
                \/ Added(i)
             /\ overtaken' = (overtaken \/ i # 1)
             /\ UNCHANGED <<nav, refresh, painted, cart, doubled>>
------------------------------------------------------------------------------
(* The server and the network (external) *)

Arrives(i) == /\ Alive
              /\ net[i].answer = "none"
              /\ overtaken' = (overtaken \/ \E j \in 1..(i - 1) : net[j].answer = "none")
              /\ UNCHANGED <<nav, loaded, data, cartAmount, button, refresh,
                             painted, failed, doubled>>

\* The cart after request i.
Executed(i) == IF net[i].kind = "add" THEN cart + 1 ELSE cart

\* The server executes request i, within the bound of the model.
Serve(i) == /\ Arrives(i)
            /\ cart' = Executed(i)
            /\ cart' \in Amount
            /\ net' = [net EXCEPT ![i].answer = "SUCCESS",
                                  ![i].amount = IF net[i].kind \in {"amount", "badge"}
                                                THEN cart ELSE NoAmount]

\* The server refuses to add the good, and changes nothing.
Refuse(i) == /\ Arrives(i)
             /\ net[i].kind = "add"
             /\ net' = [net EXCEPT ![i].answer = "WARNING"]
             /\ UNCHANGED cart

\* The request or its answer is lost (404), or the server fails (500).
Lose(i) == /\ Arrives(i)
           /\ cart' \in {cart, Executed(i)} \cap Amount
           /\ net' = [net EXCEPT ![i].answer = "FAILED"]

Server(i) == Serve(i) \/ Refuse(i) \/ Lose(i)

\* The pages above this one change the cart.
ChangeElsewhere == /\ Alive
                   /\ Covered
                   /\ cart' \in Amount
                   /\ UNCHANGED <<nav, loaded, data, cartAmount, button, refresh,
                                  painted, net, history>>
------------------------------------------------------------------------------
User == Focus \/ Pull \/ GoToOther \/ Leave \/ AddToCart \/ Purchase

Next == \/ User
        \/ Paint
        \/ Refresh
        \/ AnimationEnds
        \/ ChangeElsewhere
        \/ \E i \in DOMAIN net : Answer(i) \/ Server(i)

Spec == Init /\ [][Next]_vars
------------------------------------------------------------------------------
(* Properties *)

\* The page stays on "loading" only while a load is under way, or without a good,
\* or without shop and amount: an overlapping load or a failure does not leave it
\* there (ShowGoodPage.js:57-78).
LoadingHasReason ==
    ~ loaded /\ nav = "shown" => \/ UnderWay(net, Loads)
                                 \/ ~ HasGood
                                 \/ ~ shop /\ cartAmount = NoAmount

\* The cart button is shut only while an animation runs or the amount is being
\* asked for after one (ShowGoodPage.js:366-432).
ShutHasReason == ~ gate => animating \/ UnderWay(net, {"badge"})

\* For a user who waits for the answer before pressing again, the button is shut
\* during the whole animation and nothing else is under way for it
\* (ShowGoodPage.js:24, 409).
GateCoversAnimation ==
    animating /\ ~ doubled => ~ gate /\ ~ UnderWay(net, {"add", "badge"})

\* On a network that keeps the order of requests: when all is answered and nothing
\* failed since, the red circle shows how many goods the cart holds, also after
\* adds that overlapped and after a visit to the cart (ShowGoodPage.js:64, 400-404).
CircleShowsCart ==
    /\ Alive /\ nav = "shown" /\ loaded
    /\ ~ animating /\ net = <<>>
    /\ ~ failed /\ ~ overtaken
    => cartAmount = cart

\* The comment at OrderPage.js:21: totalPrice is the total price of the goods that
\* come with it.  It is the price of one piece, so OrderPage is given one.
PriceFitsAmount == nav = "order" => bought <= 1
==============================================================================
