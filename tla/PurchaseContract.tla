--------------------------- MODULE PurchaseContract ---------------------------
(***************************************************************************)
(* What the shop promises about a cart that is paid for: what is sold is   *)
(* the whole cart, once, and what the cart loses to the purchase is what   *)
(* was sold.  How the cart page and the order page bring it about with two *)
(* independent requests is Checkout.                                       *)
(***************************************************************************)
CONSTANTS Attempt,   \* the presses of the pay button
          Cart,      \* the possible carts
          EmptyCart, \* the one without goods
          NotSold    \* no purchase

VARIABLES cart,      \* the user's cart
          sold,      \* sold[k]: the cart that attempt k has bought
          emptied    \* the attempts whose goods have left the cart

vars == <<cart, sold, emptied>>

Init == /\ cart \in Cart
        /\ sold = [k \in Attempt |-> NotSold]
        /\ emptied = {}

\* The user changes the cart.
Change == /\ cart' \in Cart
          /\ UNCHANGED <<sold, emptied>>

\* The cart as it stands is sold, which happens once.
Sell(k) == /\ sold = [j \in Attempt |-> NotSold]
           /\ sold' = [sold EXCEPT ![k] = cart]
           /\ UNCHANGED <<cart, emptied>>

\* The goods that k has bought, and no others, leave the cart.
TakeOut(k) == /\ sold[k] = cart
              /\ k \notin emptied
              /\ cart' = EmptyCart
              /\ emptied' = emptied \cup {k}
              /\ UNCHANGED sold

Next == \/ Change
        \/ \E k \in Attempt : Sell(k) \/ TakeOut(k)

Spec == Init /\ [][Next]_vars
==============================================================================
