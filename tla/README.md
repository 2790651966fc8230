# A verification development of RN-ShoppingMall

RN-ShoppingMall is the React-Native client of a shopping mall: pages that show
goods, a cart, an order with its payment, addresses and past orders. The
back-end lives in another repository. This directory models the client: the
request layer, the two cart pages, the order page, the goods list page, the page
of a good, the pages with an editor (addresses, past orders and comments), the
page of a shop, the home tab and the tab of kinds; and it composes the cart page
with the order page, and the two tabs with each other.
TLC checks the models on small instances; TLAPS proves the main invariants for
every value of the constants.

* [The program and how it runs](#the-program-and-how-it-runs)
* [Inventory](#inventory)
* [The modules](#the-modules)
* [The runs](#the-runs)
* [Where code and comments disagree](#where-code-and-comments-disagree)
* [Fairness](#fairness)
* [The proofs](#the-proofs)
* [What is not modelled](#what-is-not-modelled)
* [Plan](#plan)

## The program and how it runs

The application's own code is some 6,700 lines of JavaScript in `src/*.js`,
`src/common`, `src/service` and `src/viewModel`. The rest of the repository is
generated (`ios`, `android`) or vendored (`ios/Pods`, most of the lines: boost,
folly and other C++ libraries that React Native builds upon). That code is no part
of the application's logic and is not modelled.

All JavaScript runs on one thread. A *task* (a touch, a timer, a native event)
runs to completion, and the promise continuations it makes ready run before the
next task. Three consequences shape the models.

* A handler is atomic between two awaits of the network. `await this.setState(..)`
  only yields to other continuations; it gives no native event a chance. So a
  handler is cut into one step up to its request and one step after the answer.
* Between those steps anything may happen: other handlers, other answers, blur,
  unmount. Nothing in the pages serialises handlers; there are no locks, no
  request identifiers and no cancellation.
* All requests report through three globals (`status`, `result_kind`, `result`).
  A page does `await Service.f(data)` and then reads the globals with
  `apiHelper.getAPI()`. That it reads its own answer depends on the event loop,
  which is why `ApiHelper` models the loop. The page modules then rely on it:
  an answer is delivered to the handler that asked for it.

`setState` of an unmounted component does nothing. React-navigation is external:
its `willFocus`, `didBlur` and unmounting are actions of the models. A touch goes
to what is painted, which may be behind the state: a second tap may reach a
button that the state has already taken away. The client sets no timeouts. The
network may lose a request or its answer, which the client sees as 404 (from
`.catch`); the server may answer 500; on `result_kind` `WARNING` it has refused.

## Inventory

| Component | State | Operations | Hard behaviour | What makes it correct |
|---|---|---|---|---|
| Request layer: `common/apiHelper.js`, `service/*.js` | three globals | `fetch_POST_URL`, `fetch_GET_URL`, `getAPI`, the one-request services | overlapping requests share the globals | a page reads the outcome of its own request; a settled request resumes its page |
| Cart pages: `CartPage.js`, `StackCartPage.js` | cart, total, loading flag; the server's cart | focus, blur, unmount, delete, minus, plus, clear, go to pay | commands and reloads overlap; one flag for all loads; blur clears the cart and not the flag | never pays an absent cart; settles on the server's cart; does not stay on "loading" |
| Order page: `OrderPage.js` | address, overlay, two animation flags | load address, pay (two requests), animation, restore | animation and answers meet in any order; flags never reset; first of two requests succeeds and the second fails | no false success, no lost overlay, one order, right address |
| Goods list page: `ShowGoodsListPage.js` | list, loading flag, three buttons; two module-level lists | three searches, sort by sales, sort by price, stock filter | globals outlive the page; a path that reads the shared globals without a request; presses in a hurry | the list is what search and buttons say |
| Good page: `ShowGoodPage.js` | good, shop, amount in the cart, loading flag, the gate of the cart button | load (three requests), pull to refresh, add to cart, animation, buy now | loads overlap over one flag; the gate is shut by the answer only; the good's object is shared with OrderPage | "loading" and a shut gate have a reason; the circle shows the cart; the price fits the pieces |
| Address page: `AddressPage.js` | address list, edited text | load, choose default, add, edit | text kept after closing the editor | what is sent is what is shown |
| Orders and comments: `MyOrderListPage.js` | orders, comment text | load, comment | text kept between goods | comment goes to the right good |
| Shop page: `ShopPage.js` | shop, kinds, goods | load, reorder | in-place swap on a list that a failed reload leaves; an instance that `navigate` reuses for another shop | no kind lost, chosen kind first |
| Home tab: `ShowPage.js` | goods, hot list, rows | load, pull to refresh, cut rows | fixed indices, equal sales, overlapping loads | the four best goods |
| Kinds tab: `ShowKindsPage.js` | main kinds, small kinds, highlight, the home tab's parameter | load (two requests), choose | a parameter that stays set; an index taken from another list; visits overlap | the kind that was asked for is shown |
| Login, registration, user: `HomePage.js`, `RegisterPage.js`, `UserInfoPage.js` | inputs | one request each | - | navigates only on success |
| View models: `viewModel/*.js` | none | convert the server's JSON | missing records | total conversions |
| Success page, navigation, shell, components | none | navigate | pops two pages; `navigate` comes back to a mounted page | - |
| Back-end (external) | carts, orders, addresses | its URLs | may execute and lose the answer | - |

Interactions: pages call services, services call `apiHelper`, which writes the
globals the pages read. Pages call each other by navigation with parameters:
CartPage hands its cart to OrderPage, ShowGoodPage hands one good, search
headers and tabs open ShowGoodsListPage with a command. The pages share state
only through the globals and through the back-end: ShowGoodPage adds to the cart
that CartPage shows, AddressPage changes the default that OrderPage loads,
OrderPage empties the cart.

`PROJECT.json` lists, under `hazards`, every place of this code that a test would
hardly reach, at its line, with the properties aimed at it.

## The modules

The modules are written so that they can be checked and proved about: constants
with named assumptions, one action per handler or part of a handler, invariants
as conjunctions of named parts, no RECURSIVE operator. `Mutant:` definitions are
plausible bugs; each stands before the definition it would replace and shows
that a property can fail. Theorems and proofs are in `*_proofs` modules, instances
for TLC in `MC*` modules.

### `RpcContract` and `ApiHelper`: the request layer

`RpcContract` is what the pages assume: a call begins, the network settles it,
the page is resumed with the outcome of that very call.

`ApiHelper` is how they get it. `register` is the three globals. The promise
chain of a call is a sequence of continuations named after the code (`json`,
`store`, `catch`, `helper`, `service`, `page`), with the steps that a success or
a failure passes over (`pass`, `skipJson`, `skipStore`); `queue` is the
microtask queue. Continuations run in order. The body of a response arrives in a
native event of its own, which waits until the queue is empty. whatwg-fetch
settles `fetch` in timers, and a batch of timers may release several calls at
once. So several failures may be in the queue together, each writing the globals
before the first page reads them. That is harmless because every failure writes
the same value, and because a call that carries an answer always has the queue
to itself (`SuccessRunsAlone`). `ImplementsContract` is the refinement of
`RpcContract` under a mapping of the phases.

### `CartPage`: both cart pages

`Stacked` chooses between the tab page, which clears `cartList` on blur and stays
mounted, and the stacked page, which keeps it and is unmounted on back. `net` is
the sequence of requests under way; a request carries its answer once the server
has made it, and `own` until its page is unmounted. `failed` is a history variable: a
request of the page itself failed since the cart was last loaded. `Press` stands for
the delete, minus, plus and clear handlers up to their awaits, `CommandDone` and
`CommandOver` for what follows, `Focus` and `LoadAnswered`/`LoadFailed` for
`freshPageFunction`. The reload that follows a successful command belongs to the
same step as the command's answer, as in the code. A cart is the amount of each
good. The server's actions execute, refuse or lose a request; "executed and the
answer lost" covers a request that is executed after the client gave up.

### `OrderPage`: one visit to the order page

`Attempt` are the presses of the pay button, each with its `_onPay` (`phase`,
`answer`) and its animation (`anim`). `disabled` and `fetched` are
`AnimatedDisabled` and `FetchDataInAnimted`, through which `_onPay` tells the
animation's callback what to do. `overlay` is the state and `painted` the screen:
with `FastTaps` a second tap may come in between. `fromGood` tells a purchase from
ShowGoodPage, which does not empty the cart. AddressPage appears as far as it
changes the default; one change is under way at a time.

### `ShowGoodsListPage`: searching, sorting, filtering

A list is an abstract value: the search that found it, whether it was filtered,
and its order. The server's sorting and filtering act on these. `origin` and
`existed` are the module-level lists `OriginGoodsList` and
`OriginExistedGoodsList`, `register` the globals of the request layer (a sort
button on an empty list makes no request and reads them). A request carries the
list it will be answered with and, for the hot goods, the presses of the sale
button that the handler makes after it. Several visits follow each other;
requests of an earlier visit still write the globals when they are answered, and
the second press of an unmounted page repeats the first (`PressInVain`).
`goodsList` stands for `showGoodsList` as well, which is cut from it wherever the
loading flag is set.

### `ShowGoodPage`: one visit to the page of a good

A load is a chain of three requests, `LoadedGood`, `LoadedShop` and
`LoadedAmount`; `Focus` and `Refresh` start one whether or not another is under
way. `good` is `none` (-1), `missing` (the `undefined` that an answer without
goods leaves) or `there`; `bought` is the `g_cartAmount` of the loaded object,
which OrderPage sees as well. `Crashed` is a page that is rendered without what
`render` reads: nothing happens after it. `gate` is `Is_AddCartAnimatedFinish`. An
add that succeeds shuts it and starts the animation; if one is running React
Native stops it, and its callback asks for the amount at once (`Added`).
`ChangeElsewhere` is the cart changed by the pages above. The stock that
`_onPurchasePress` looks at appears as the purchase not being made.

### `PurchaseContract` and `Checkout`: paying for the cart

`PurchaseContract` is what a purchase promises: the cart as it stands is sold,
once, and what the cart loses to the purchase is what was sold. `Checkout` EXTENDS
`CartPage` and instantiates `OrderPage`: one visit to the order page from a cart
page, over one server. The order page is handed a copy of the cart (`handed`),
asks the server to create an order of the copy, and then to empty the cart,
whatever that holds. The cart page stays mounted below and its requests are
answered meanwhile. `Careful` is the user for whom this implements the contract
(`ImplementsContract`): one who opens and leaves the order page with nothing under
way and does not retry after a failure. With `Careful` FALSE TLC refutes it: a good
that a late command puts back is removed without having been sold.

### `EditorPages`: addresses, and comments on orders

AddressPage and MyOrderListPage are one module: a list, and an editor that slides
over it. `page` says which one is visited, and stays the same in a behaviour. What
the user typed is kept twice, in the inputs (`input`) and in the state (`text`); what
is sent is the state. `Close` clears the inputs only, `StartLoading` takes them off
the screen. `typedFor` is a history variable: what the editor was for when the input
was typed. `target` is the module-level `needEditAddress` or
`needPostCommentGoodId`. `Confirm` stands for the three confirm buttons up to their
awaits, `EditDone` and `CommandOver` for what follows; the reload and the closing of
the editor after it belong to the handler (`closes`). The list is the set of rows: the
names of the addresses, or the goods that still have a comment button. `failed` counts
the failures of the page's own requests, as in `CartPage`.

### `ShopPage`: the kinds of a shop

One instance of the page is followed, the lowest on the stack. `Open` mounts it;
`Jump` is `navigate('ShopPage')` on the page of a good above it, which comes back to
it and merges the parameters. `title` and `kindParam` are parameters, `shopName` and
`chosen` the state: the shop is copied when the page is mounted, the index on every
focus. `goods` is the one array that `GoodsAPIData` and `GoodsInfo` both are, reordered
in place after every load, also one that failed. A good may be pressed as long as the
kinds are `painted`, so `loads` may overlap. `broken` is a render that
dereferences an undefined element. `indexShop` is a history variable, the shop whose kind
the index is.

### `ShowPage`, `ShowKindsPage` and `Tabs`: the two tabs

`ShowPage` has the loads of the home tab and its rows as pure operators: `KindsOf` is
the Map that keeps the order of insertion, `HotGoodsOf` takes the best good out of the
list four times. `HotGoodsAreBest` says what that comes to. `ShowKindsPage` has the
two requests of a focus, the one of a press and the parameter `pressIndex`. Neither has
a next-state relation of its own: `Tabs` instantiates both, with `shown` of each being
what `tab` says, and adds the tab bar and the press on a kind, which blurs the one and
focuses the other. `asked` is a history variable, the kind whose picture was pressed.

Of the server's lists `TabsAssumption` says that there is a main kind and that no list has a
good twice. Both are facts about a mall's data base rather than the client: without a main
kind the tab of kinds stays on "loading" (`ShowKindsPage.js:65`), and a good that is sent twice
may be two of the four hot goods.

### The proofs

`ApiHelper_proofs`, `Checkout_proofs` (with the cart page, which it extends through
`Checkout`), `OrderPage_proofs`, `ShowGoodsListPage_proofs`, `ShowGoodPage_proofs`,
`EditorPages_proofs`, `ShopPage_proofs` and `Tabs_proofs`. The few lemmas about `RemoveAt` and
`Append`, what becomes of the requests under way when one is answered or sent, stand
in each module that needs them.

## The runs

| Run | Instance | Checks |
|---|---|---|
| `api_calls` | 3 calls, 2 answers | a page reads its own answer; refinement of `RpcContract`; a settled call returns |
| `cart` | tab page, 1 good, 3 requests, lossy, in order | no payment without a cart; "loading" has a reason and ends; settles on the server's cart |
| `checkout` | stacked page, 1 good, 2 requests, 2 attempts, lossy, in order, careful user | refinement of `PurchaseContract`; the cart page settles on what the purchase left |
| `order` | 3 attempts, 2 loads, 2 addresses, lost payments | success means ordered; the cart is emptied only for an order; the overlay; at most one order until one is refused; the address; termination of a payment |
| `goods_list` | hot goods and a sold-out search, 2 requests | types; the list is what search and buttons say; "loading" has a reason |
| `good_page` | 2 requests started by the user, cart of at most 1, 1 piece, lossy, any order | types; "loading" and the shut button have a reason; the button covers the animation; the circle shows the cart |
| `shop` | 3 shops, of 3, 3 and 1 kinds, 3 loads that overlap | no kind is lost, the chosen kind first, what may break |
| `editors` | 2 words, 2 requests, lossy, in order | what is shown is what is meant; "loading" has a reason; settles on the server's list |
| `tabs` | 5 goods of 2 kinds (two sell equally well), 3 catalogues, 1 barren kind, 2 requests per tab, lossy | the hot goods; "loading" has a reason; highlight and small kinds fit; the kind that was pressed opens |
| `order_success`, `good_price`, `editor_stale` | see below | violations of what comments, or alerts, say |

Bounds, and why they are enough.

* `ApiHelper`: the hazard needs one chain between its write and its read and
  others that may write: a success and two failures that settle in one timer
  batch. Two answers tell a wrong answer from a right one.
* `CartPage`: `MaxFlight` bounds the requests under way. Two are enough for a
  command to overtake a load; three for two commands, or two loads and a command,
  with their reloads. `MaxAmount` is 1: amounts matter only in being equal to the
  server's or not, and plus and minus saturate at both ends, which includes a
  minus on a good that is already gone.
* `Checkout`: one good and `MaxAmount` 1 tell the empty cart from the cart that was
  sold. Two attempts can sell twice; two requests are a command and a load, or the
  command of another page, under way during the payment.
* `OrderPage`: the flags are set once and never reset, so the first attempt
  and a second one show all there is; the third lets a refused attempt be
  followed by two others. Two loads let the load of a return overtake the first.
* `EditorPages`: two words are two rows, or a row and a text that is not one; two
  requests are two commands, or a command and a refresh.
* `ShopPage`: three kinds let two choices differ from each other and from the first;
  the shop with one kind is the one that an index may miss. Three loads are those of a
  visit and of two returns in a hurry.
* `Tabs`: five goods leave one that is not hot; the short catalogue breaks the
  render, the empty one leaves "loading". Two kinds, one of them barren, tell the
  highlighted kind from the other; two requests are those of two visits.
* `ShowGoodsListPage`: two requests are a press in a hurry, or an earlier visit's
  request beside the present one. The two searches of `goods_list` are the hot
  goods with their two presses and one whose filtered list is empty.
* `ShowGoodPage`: two requests started by the user are two loads, two adds, or one
  of each; the request after an animation may be a third. `MaxCart` is a guard of
  the server's steps, and the shop knows no such limit: with 1 the second of two adds
  that overlap is executed once the cart page has taken the first good out, or is lost
  or refused. 0 and 1 tell a stale circle from a right one; `CircleShowsCartHolds` is
  for any `MaxCart`. One piece is bought in
  `good_page`; `good_price` needs two.

`CircleShowsCart`, `SettledShowsServerCart`, `SettledShowsServerList`,
`SettledShowsHighlighted` and `ImplementsContract` assume a network that keeps the order of
requests. On one that does not, an older answer may arrive last and stay; nothing in the client
prevents it. `ShownAddressIsDefault` assumes a user who stays on AddressPage
until its request is answered and a network without losses, since the page's
load may otherwise overtake the change, or fail and leave the old address.
`OneOrderUnlessRefused` ends with the first refusal or failure because the client
cannot know whether a failed order was created, and sends no key by which the
server could recognise the retry. `ListMatchesButtons` excludes visits with a
press before LoadingPage is painted (both requests then answer into the list, and
the last answer wins), hot goods after a
failure (see below), an answer to an earlier visit, and an empty list
after another page's answer, where a sort button shows that answer's goods.

Deadlock checking is on wherever the user can always do something. It is off where
the instance really ends: all calls have returned, or the visit is over
(`ApiHelper`, `OrderPage`, `ShowGoodPage`).

`OpensPressedKind` assumes that the goods of the home tab come in the order of the
server's main kinds (`ServersOrder`): the client uses an index of the one list as
an index of the other and has nothing that makes them agree.

## Where code and comments disagree

* **`order_success`** (`OrderPage.js:283`). The animation's callback is what opens
  the success page. `AnimatedDisabled` is set by the first attempt and never
  reset. After a refused attempt the second one's animation ends after one
  round; if the server answers later, the purchase succeeds and the user is left
  on the order page. The same flag takes the overlay down while the second
  attempt is still under way, so the pay button can be pressed again, although
  `:279` says the animation goes on until the data is there.
* **`good_price`** (`ShowGoodPage.js:442`). `OrderPage.js:21` calls `totalPrice` the
  total price of the goods. A purchase counts up the amount inside the page's own
  object and hands over the price of one piece. If the same object is bought
  twice, OrderPage gets two pieces at the price of one: a second tap before OrderPage
  is there, or a purchase after coming back when the good could not be loaded
  again, or when an older load has put the page back before the new one.
* **`editor_stale`** (`AddressPage.js:237`, `MyOrderListPage.js:203`). An empty form is
  answered with an alert ("please fill in everything", `AddressPage.js:277`, "please
  enter a comment", `MyOrderListPage.js:251`). The test is on the state, which keeps
  what was typed when the editor was closed. Opened again, for the same row or
  another, the editor is empty, and its confirm button sends the old text.

Four more disagreements were found while modelling; the models contain them, and
the properties are stated so that they exclude or bound them.

* `OrderPage.js:289` restores the page "when the purchase failed". It is also restored
  when the order was created and only emptying the cart failed (`:200`); the user
  sees the pay button of an order that exists.
* `ShowGoodsListPage.js:13` calls `OriginGoodsList` the result of the search. It is not
  reset when the page is opened. If the hot goods fail to load, the two presses that
  follow sort the list of an earlier search, and the page shows it as hot goods.
* `ShowGoodPage.js:65` says that the page is shown if good and shop were loaded. The
  test is `||` over shop and amount: with the amount alone the page is rendered and
  maps over -1.
* `ShopPage.js:53` copies the shop when the page is mounted; `:286` takes the title from
  the parameters. An instance that `navigate` reuses for another shop shows the
  goods of the old one under the name of the new one, or breaks on an index of the new
  one (`BreaksOnlyForAnotherShop`).

## Fairness

Safety runs use `Spec`. The liveness properties use `FairSpec`.

* `ApiHelper`: weak fairness of the microtasks. The engine runs every ready
  continuation. Nothing is assumed of the network, so `SettledReturns` speaks of
  calls that are settled.
* `CartPage`: weak fairness of the server's and of the handlers' steps for each
  place in `net`. A request is answered or reported as failed; the engine runs
  the continuation. The client sets no timeout, so the first is an assumption
  about the network stack. `LoadingEnds` excludes the failures, after which the
  page does stay on "loading" if it has no older cart.
* `OrderPage`: weak fairness of painting, of the end of each animation (React
  Native calls the callback of `Animated.start`), of the server and of the
  handlers. The replay of an animation is a stuttering step.

The other modules state safety only. No fairness is assumed of the user.

## The proofs

All theorems hold for every value of the constants under the assumptions named
in the modules: that the markers (`NoCart`, `Failed`, ...) differ from the values
they stand beside, that flags are Booleans, that there is a good and `MaxAmount`
is positive, and of the tabs that there are main kinds and no list has a good
twice. No bound on the number of calls, requests, attempts or queries, or on the
length of a list, is used. Each is proved from an inductive invariant that contains
the properties as conjuncts, or implies them; TLC was used to test each invariant
before it was proved. Every safety invariant that a passing run checks is a theorem.

* `ApiHelper_proofs`: `TypeCorrect`, `OwnAnswerHolds` and `GlobalsImplementContract`.
  `OwnAnswer` speaks of calls that have returned; to be inductive it needs to know
  what the globals hold while a chain is between its write and its read
  (`RegisterIsOwn`). That is kept because a chain with an answer is alone in the
  queue (`SuccessRunsAlone`) and all other chains are failures, which write the
  same value. That a success is alone needs `TimersReleaseOnly` and
  `QueueMatchesPhase`. The refinement theorem maps each step of the event loop to
  a step of the contract or a stutter.
* `Checkout_proofs`, first part, of the cart pages: `TypeCorrect`, `PayGetsCartHolds`,
  `LoadingHasReasonHolds` and `SettledShowsServerCartHolds`. The invariant adds
  `AnswersAreCarts`: what a load has been answered with is a cart. For the last theorem
  it follows the newest of the loads under way: what it was answered with is the
  server's cart unless a command that was executed after it is still to be reported,
  which starts another load. The lemmas about `RemoveAt` and `Append` say that the
  requests after an answer are those before it less one.
* `OrderPage_proofs`: `TypeCorrect` and six properties. The invariant relates
  three layers: `PhaseMatchesServer` (what an attempt has seen and what the
  server recorded), `FlagsMatchAttempts` (a flag is set only by an attempt that
  ended accordingly) and `OverlayHolds` (until a refusal the first attempt's
  overlay keeps all others away). `ShownAddressIsDefaultHolds` is for a user who waits
  on AddressPage and taps what is painted, and loads that do not fail (`Patient`,
  `~ FastTaps`, `~ LossyLoads`: it is false without them). Its invariant
  `AddressFollows` says that a page which can be left for AddressPage has no load under
  way, so that a visit that changes the default meets no older answer, and that an
  answer under way is the default address. The overlay is part of it: during an
  animation the page is in front and covered.
* `Checkout_proofs`, second part: `CheckoutImplementsContract`, from the assumptions that the network
  keeps order and that the user is careful and taps once. Each step of the
  composition maps to `Sell`, `TakeOut`, `Change` or a stutter. The invariant says
  that from the moment the cart is handed over until it is emptied the server's cart
  is the one that was handed over, because nothing that changes it is under way.
* `EditorPages_proofs`: `TypeCorrect`, `ShownTextIsMeantHolds`, `LoadingHasReasonHolds`
  and `SettledShowsServerListHolds`, the last along the argument of the cart page.
* `ShowGoodsListPage_proofs`: `TypeCorrect`, `ListMatchesButtonsHolds` and
  `LoadingHasReasonHolds`. The invariant follows the one request that a visit
  without double taps has under way (`OneAtATime`): it carries the list that the
  search and the buttons ask for (`RightRequest`), the module-level lists belong to
  the last search (`ListsAreOfSearch`), and where a sort button makes no request
  the globals hold an empty list (`Settled`). `ListKnown` says that there is a list
  to work on, `HotGoodsFirst` that both presses for the hot goods are made before
  the page can be touched.
* `ShowGoodPage_proofs`: `TypeCorrect`, `LoadingHasReasonHolds`, `ShutHasReasonHolds`,
  `GateCoversAnimationHolds` and `CircleShowsCartHolds`. The invariant adds `ShopKnown` (whoever could touch
  the page has seen its shop, so the amount that an animation brings cannot
  turn a reason to wait into none) and `OneAdd` (for a user who waits one thing at a
  time is under way for the cart button).
  For the circle `AmountKnown` follows the last look at the cart: of the requests that
  will tell the page an amount, now or by the look that an add or a load still leads to, the
  last one, if it is answered, was answered with what the cart holds; if there is none, the
  circle has it already. It supposes what the property does, that no answer
  overtakes another and that the page and its good are there.
* `ShopPage_proofs`: `TypeCorrect`, `KindsCompleteHolds`, `ChosenKindFirstHolds` and
  `BreaksOnlyForAnotherShopHolds`. The list that is reordered in place stays an order of
  the kinds of the shop that was copied when the page was mounted (`GoodsInOrder`); the
  index is one of that shop's if it was taken there or has been rendered (`IndexIsOfShop`),
  which is what a step that breaks the page contradicts.
* `Tabs_proofs`: `TypeCorrect`, `HotGoodsAreBestHolds`, `GoodsKindsComplete`,
  `LoadingHasReasonHolds`, `SettledShowsHighlightedHolds` and `OpensPressedKindHolds`. The last
  two rest on `LastIsHighlighted` (the request that was sent last is for the highlighted
  kind, or for all kinds, which asks for the highlighted one next), and on
  `AskedIsHighlighted` (the highlighted kind of a visit that began with a press on the home
  tab is the pressed one, if the server's two lists agree). The first
  two need to know what the operators make of a list: `KindsOfEachOnce`, that the row
  has each kind of the goods once, and `HotGoodsOfFindsBest`, that taking the best good out four
  times gives four that sell no worse than the rest. Both are inductions over
  the length of the list, done without an operator parameter: `Induction` speaks of a
  set of numbers and follows from the library's theorem on well-founded relations. The folds
  are recursive functions, which are chosen to satisfy an equation; `FoldExists` builds one
  that does, list by list, so that the choice is known to satisfy it too.

Only model-checked: the liveness properties (`SettledReturns`, `LoadingEnds` and
`PaymentEnds`), which are out of the prover's reach. Not provable at all are the three
runs that expect a violation.

## What is not modelled

* Layout, wording, alerts, images: no property is about them.
* Login, registration and the user page: one request and one navigation each, from
  state that nothing else writes; what could go wrong there is the request layer.
* Of EditorPages: goods that are bought while the list is open (a visit starts with any
  list); what an unmounted page still loads after a refresh. Of ShowPage: the
  advertisements, a random choice of goods. Of ShopPage: the scrolling of its two lists,
  and the instances above the lowest one.
* The success page's back button pops two pages. If AddressPage was opened over the
  order page in a hurry, the model returns to the order page all the same.
* Of ShowGoodPage: scrolling, the overlay with the comments, the timer that measures
  the place of the cart's picture, and what an unmounted page still sends.
* The goods and shops inside a cart and an order, and prices: CartPage writes
  list and total together in every place, and OrderPage does not change them.
* The back-end: its actions are external and taken from what the pages send and
  expect.
* The animation that a visit left during a payment replays for ever: a leak that
  the user does not see.
* `Storage.js` (unused), the smoke test (asserts nothing), the native projects.

## Plan

Done, in this order: `RpcContract` and `ApiHelper` (every page rests on them),
`CartPage`, `OrderPage`, `ShowGoodsListPage`, `ShowGoodPage`, `EditorPages`; `Checkout` with its
refinement; `ShopPage`; `ShowPage` and `ShowKindsPage` in `Tabs`; the proofs of each.

Left: a model of the stack of pages as a whole, with its resets, which today appears
where a page depends on it; and, of the proofs, the order in which the row of
kinds shows them (`GoodsKindsComplete` says only that each is there once).
