------------------------------- MODULE Checkout -------------------------------
(***************************************************************************)
(* The cart page, the order page that it opens, and the server's one cart. *)
(*                                                                         *)
(* The order page is handed a copy of the cart that the cart page shows.   *)
(* It asks the server to create an order of that copy and then to empty    *)
(* the cart, whatever the cart holds when that request arrives.  Meanwhile *)
(* the cart page is still mounted below it and its requests are answered.  *)
(*                                                                         *)
(* The model follows one visit to the order page (module OrderPage) from a *)
(* cart page (module CartPage, whose names are used as they are).          *)
(***************************************************************************)
EXTENDS CartPage

CONSTANTS Attempt, LoadSlot, Address, NoAddress, NoInfo,
          LossyLoads, FastTaps, MayLeave, Patient, \* those of OrderPage
          Careful     \* the user waits for requests before opening and leaving
                      \* the order page, and does not retry after a failure

VARIABLES nav, addressLoaded, info, loads, overlay, painted, disabled, fetched,
          anim, phase, answer, fromGood, celebrated, default, change, ordered,
          cleared

Order == INSTANCE OrderPage WITH loaded <- addressLoaded

orderVars == <<nav, addressLoaded, info, loads, overlay, painted, disabled, fetched,
               anim, phase, answer, fromGood, celebrated, default, change, ordered, cleared>>

checkoutVars == <<vars, orderVars>>

EmptyCart == [g \in Good |-> 0]

\* The order page has been opened; it is mounted.
Opened == handed # NotHanded

OnTop == Opened /\ nav # "gone"

AllTypesOK == TypeOK /\ Order!TypeOK /\ ~ fromGood

\* No order page; its variables hold what it is going to be mounted with.
CheckoutInit == /\ Init
                /\ nav = "gone"
                /\ Order!Mount
                /\ ~ fromGood
------------------------------------------------------------------------------
\* Mutant: the cart is handed over while it may still change.
PayAnyTime == /\ ~ Opened
              /\ GoToPay
              /\ nav' = "shown"
              /\ UNCHANGED <<addressLoaded, info, loads, overlay, painted, disabled, fetched, anim,
                             phase, answer, fromGood, celebrated, default, change, ordered, cleared>>

\* _onGoToPayPress: the cart that is shown is handed to a new order page.
Pay == /\ ~ Opened
       /\ Careful => net = <<>> /\ ~ failed
       /\ GoToPay
       /\ nav' = "shown"
       /\ UNCHANGED <<addressLoaded, info, loads, overlay, painted, disabled, fetched, anim,
                      phase, answer, fromGood, celebrated, default, change, ordered, cleared>>

\* The cart page, while it is the user's; other pages put goods into the cart
\* only then.
AtCart == /\ ~ OnTop
          /\ \/ Focus
             \/ Unmount
             \/ \E op \in Commands, g \in Good : Press(op, g)
             \/ \E g \in Good : AddElsewhere(g)
          /\ UNCHANGED orderVars

\* What happens to the cart page and its requests on any page.
BelowOrder == /\ \/ Blur
                 \/ \E i \in DOMAIN net : Answer(i) \/ Server(i)
              /\ UNCHANGED orderVars
------------------------------------------------------------------------------
\* _onPayPress: only a cart with goods is paid for.  The transition to the
\* order page is over.
PressPay(k) == /\ ~ shown
               /\ \E g \in Good : handed[g] > 0
               /\ Careful => \A j \in Attempt : phase[j] \notin {"refused", "notCleaned"}
               /\ Order!PressPay(k)

LeaveOrder == /\ ~ shown
              /\ Careful => \A k \in Attempt : ~ Order!Waiting(k)
              /\ Order!Leave

\* The order page's steps that do not reach the server's cart.
AtOrder == /\ Opened
           /\ \/ Order!OpenAddressPage
              \/ \E a \in Address : Order!ChooseAddress(a)
              \/ Order!BackFromAddressPage
              \/ Order!BackFromSuccessPage
              \/ LeaveOrder
              \/ \E s \in LoadSlot : Order!LoadAnswered(s) \/ Order!ServeLoad(s)
              \/ \E k \in Attempt : PressPay(k) \/ Order!Answered(k) \/ Order!AnimationEnds(k)
              \/ Order!Paint
              \/ Order!ServeChange
           /\ UNCHANGED vars

\* The server creates the order of attempt k, or empties the cart for it
\* (external).
PaymentReachesServer(k) == /\ Opened
                           /\ Order!Server(k)
                           /\ cart' = IF cleared' = cleared THEN cart ELSE EmptyCart
                           /\ UNCHANGED <<page, net, handed, failed>>

CheckoutNext == \/ Pay
                \/ AtCart
                \/ BelowOrder
                \/ AtOrder
                \/ \E k \in Attempt : PaymentReachesServer(k)

CheckoutSpec == CheckoutInit /\ [][CheckoutNext]_checkoutVars
------------------------------------------------------------------------------
(* Properties *)

\* The refinement mapping: an attempt has bought the cart that was handed to
\* its page once the server has recorded the order.
Contract == INSTANCE PurchaseContract
            WITH sold <- [k \in Attempt |-> IF k \in ordered THEN handed ELSE NotHanded],
                 emptied <- cleared,
                 NotSold <- NotHanded

\* A careful user buys the whole cart, once, and the cart loses what was bought
\* and nothing else (CartPage.js:270-278, OrderPage.js:186-226).
ImplementsContract == Contract!Spec
==============================================================================
