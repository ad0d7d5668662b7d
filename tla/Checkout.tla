------------------------------ MODULE Checkout ------------------------------
(* Ordering from a browser: the cart every tab keeps in memory and all tabs  *)
(* share in localStorage (CartContext), the cart page (CartPage) and the     *)
(* form for a single product (PlaceOrderPage).  Tabs are opened and closed,  *)
(* pages left and entered while requests are under way.  The Order Service   *)
(* is what it promises: a request with a key of its own becomes one order.   *)
EXTENDS Naturals, FiniteSets

CONSTANTS
  Tabs, Products, None,
  MaxQuantity,  \* 100 in the code
  MaxAttempts,  \* bounds: orders asked for, changes of a cart, pages entered
  MaxEdits, MaxVisits

VARIABLES
  page,       \* what each tab shows: "closed", "products", "cart", "orders", the
              \* form ("place") or its spinner ("loading")
  lines,      \* CartProvider's state, by product (0: no line)
  stored,     \* localStorage, shared by the tabs
  writer,     \* history: the tab that wrote it last
  busy,       \* busy of the cart page, submitting of the form
  error,      \* the attempt whose failure the page reports
  confirmed,  \* the attempt whose order the cart page confirms
  attempts,   \* the checkouts, in the order they were started
  edits, visits  \* for the bounds

pageVars == <<page, busy, error, confirmed>>
cartVars == <<lines, stored, writer>>
bounds == <<edits, visits>>
vars == <<pageVars, cartVars, attempts, bounds>>

Attempts == 1..MaxAttempts
Cart == [Products -> 0..MaxQuantity]
Empty == [p \in Products |-> 0]

ASSUME CheckoutAssumption ==
  /\ MaxQuantity \in Nat \ {0}
  /\ MaxAttempts \in Nat /\ MaxEdits \in Nat /\ MaxVisits \in Nat
  /\ None \notin Tabs \cup Attempts \cup (0..MaxQuantity) /\ None \notin {"cart", "place"}

Unused == [tab |-> None, from |-> None, items |-> Empty, covered |-> FALSE, at |-> "unused",
           left |-> FALSE, placed |-> FALSE, retries |-> None]

AttemptType ==
  [tab : Tabs \cup {None}, from : {"cart", "place", None}, items : Cart,
   covered : BOOLEAN,  \* history: the availability that was read covers the items
   at : {"unused", "checking", "posting", "answered", "done"},
   left : BOOLEAN, placed : BOOLEAN, retries : Attempts \cup {None}]

TypeOK ==
  /\ page \in [Tabs -> {"closed", "products", "cart", "loading", "place", "orders"}]
  /\ lines \in [Tabs -> Cart] /\ stored \in Cart /\ writer \in Tabs \cup {None}
  /\ busy \in [Tabs -> BOOLEAN]
  /\ error \in [Tabs -> Attempts \cup {None}]
  /\ confirmed \in [Tabs -> Attempts \cup {None}]
  /\ attempts \in [Attempts -> AttemptType]
  /\ edits \in 0..MaxEdits /\ visits \in 0..MaxVisits

Init ==
  /\ page = [t \in Tabs |-> "closed"]
  /\ lines = [t \in Tabs |-> Empty] /\ stored = Empty /\ writer = None
  /\ busy = [t \in Tabs |-> FALSE]
  /\ error = [t \in Tabs |-> None] /\ confirmed = [t \in Tabs |-> None]
  /\ attempts = [i \in Attempts |-> Unused]
  /\ edits = 0 /\ visits = 0

----------------------------------------------------------------------------
(* Tabs and pages.                                                         *)

\* The state of the page that a tab leaves is lost; its requests go on, and know
\* nothing of it.
Enter(t, p) ==
  /\ page' = [page EXCEPT ![t] = p]
  /\ busy' = [busy EXCEPT ![t] = FALSE]
  /\ error' = [error EXCEPT ![t] = None]
  /\ confirmed' = [confirmed EXCEPT ![t] = None]

Leaving(t) ==
  [i \in Attempts |-> IF attempts[i].tab = t THEN [attempts[i] EXCEPT !.left = TRUE] ELSE attempts[i]]

Visit == visits < MaxVisits /\ visits' = visits + 1 /\ UNCHANGED edits
Edit == edits < MaxEdits /\ edits' = edits + 1 /\ UNCHANGED visits

\* The provider starts from readStoredLines.
OpenTab(t) ==
  /\ page[t] = "closed" /\ Visit /\ Enter(t, "products")
  /\ lines' = [lines EXCEPT ![t] = stored]
  /\ writer' = t   \* the first run of the effect stores what was read
  /\ UNCHANGED <<stored, attempts>>

\* A closed tab sends nothing more and takes no answer; what it sent is out.
CloseTab(t) ==
  /\ page[t] # "closed" /\ Enter(t, "closed")
  /\ lines' = [lines EXCEPT ![t] = Empty]
  /\ attempts' = [i \in Attempts |->
       IF attempts[i].tab # t THEN attempts[i]
       ELSE [attempts[i] EXCEPT !.tab = None, !.left = TRUE, !.at = IF @ = "posting" THEN @ ELSE "done"]]
  /\ UNCHANGED <<stored, writer, bounds>>

Go(t, p) ==
  /\ page[t] # "closed" /\ page[t] # p /\ ~(page[t] = "place" /\ p = "loading")
  /\ p \in {"products", "cart", "loading"}
  /\ Visit /\ Enter(t, p) /\ attempts' = Leaving(t)
  /\ UNCHANGED cartVars

----------------------------------------------------------------------------
(* The cart.                                                               *)

\* Seeded mistake: an emptied cart is not stored.
PutUnlessEmpty(t, cart) ==
  /\ lines' = [lines EXCEPT ![t] = cart]
  /\ stored' = (IF cart = Empty THEN stored ELSE cart) /\ writer' = t

\* setLines and the effect that follows: every tab overwrites the stored cart.
Put(t, cart) ==
  /\ lines' = [lines EXCEPT ![t] = cart]
  /\ stored' = cart /\ writer' = t

Add(t, p) ==
  /\ page[t] = "products"
  /\ Put(t, [lines[t] EXCEPT ![p] = IF @ < MaxQuantity THEN @ + 1 ELSE MaxQuantity])
  /\ Edit /\ UNCHANGED <<pageVars, attempts>>

\* The cart page's inputs and buttons stay usable during a checkout.
OnCart(t) == page[t] = "cart" /\ confirmed[t] = None

SetQuantity(t, p, q) ==
  /\ OnCart(t) /\ lines[t][p] > 0 /\ q \in 1..MaxQuantity
  /\ Put(t, [lines[t] EXCEPT ![p] = q])
  /\ Edit /\ UNCHANGED <<pageVars, attempts>>

Remove(t, p) ==
  /\ OnCart(t) /\ lines[t][p] > 0
  /\ Put(t, [lines[t] EXCEPT ![p] = 0])
  /\ Edit /\ UNCHANGED <<pageVars, attempts>>

----------------------------------------------------------------------------
(* Checking out.                                                           *)

\* A new attempt, and the failed one it repeats unchanged, if any.
Start(t, from, items, at) ==
  /\ \E i \in Attempts :
       /\ attempts[i].at = "unused" /\ \A j \in 1..(i - 1) : attempts[j].at # "unused"
       /\ attempts' = [attempts EXCEPT ![i] =
            [Unused EXCEPT !.tab = t, !.from = from, !.items = items, !.at = at,
                           !.retries = IF error[t] # None /\ attempts[error[t]].items = items
                                       THEN error[t] ELSE None]]
  /\ busy' = [busy EXCEPT ![t] = TRUE]
  /\ error' = [error EXCEPT ![t] = None]
  /\ UNCHANGED <<page, confirmed, cartVars, bounds>>

\* Seeded mistake: the button is not disabled while busy.
CheckoutTwice(t) == OnCart(t) /\ lines[t] # Empty /\ Start(t, "cart", lines[t], "checking")

\* checkout of the cart as it is shown now
Checkout(t) ==
  /\ OnCart(t) /\ lines[t] # Empty /\ ~busy[t]
  /\ Start(t, "cart", lines[t], "checking")

\* Seeded mistake: a product missing from the answer passes.
validateAvailabilityLax(items, available) ==
  \A p \in Products : items[p] > 0 =>
    available[p] = None \/ items[p] <= available[p]

\* Every line is confirmed to be available.
validateAvailability(items, available) ==
  \A p \in Products : items[p] > 0 =>
    available[p] # None /\ available[p] > 0 /\ items[p] <= available[p]

\* catch, finally and setConfirmed; they reach a page that is still there only.
Finish(i, ok) ==
  LET t == attempts[i].tab IN
  IF attempts[i].left THEN UNCHANGED <<busy, error, confirmed>>
  ELSE /\ busy' = [busy EXCEPT ![t] = FALSE]
       /\ error' = [error EXCEPT ![t] = IF ok THEN @ ELSE i]
       /\ confirmed' = [confirmed EXCEPT ![t] = IF ok THEN i ELSE @]

\* What the stock behind an order has to be.
Covers(available, items) ==
  \A p \in Products : items[p] > 0 => available[p] \in (items[p])..MaxQuantity

\* The availability of the attempt's lines arrives: the order is sent, with the
\* lines of the click, or the page says why not.  The left page goes on as well.
Availability(i) ==
  /\ attempts[i].at = "checking"
  /\ \E available \in [Products -> {None, 0, 1, MaxQuantity}] :
       /\ \A p \in Products : attempts[i].items[p] = 0 => available[p] = None
       /\ IF validateAvailability(attempts[i].items, available)
          THEN /\ attempts' = [attempts EXCEPT ![i].at = "posting",
                                          ![i].covered = Covers(available, attempts[i].items)]
               /\ UNCHANGED <<busy, error, confirmed>>
          ELSE /\ attempts' = [attempts EXCEPT ![i].at = "done"]
               /\ Finish(i, FALSE)
  /\ UNCHANGED <<page, cartVars, bounds>>

\* Availability could not be read.
AvailabilityFails(i) ==
  /\ attempts[i].at = "checking"
  /\ attempts' = [attempts EXCEPT ![i].at = "done"] /\ Finish(i, FALSE)
  /\ UNCHANGED <<page, cartVars, bounds>>

\* The products of the form arrive; when they do not, the spinner stays.
FormLoaded(t) ==
  /\ page[t] = "loading" /\ page' = [page EXCEPT ![t] = "place"]
  /\ UNCHANGED <<busy, error, confirmed, cartVars, attempts, bounds>>

\* Neither the spinner nor "No Products Available" is shown.
FormShown(t) == page[t] = "place"

SubmitEnabled(t) == FormShown(t) /\ ~busy[t]

\* What the form's product and quantity can be when it is submitted.
Fields == Products \X (1..MaxQuantity)

\* submit of the form
Submit(t, p, q) ==
  /\ SubmitEnabled(t) /\ <<p, q>> \in Fields
  /\ Start(t, "place", [Empty EXCEPT ![p] = q], "posting")

----------------------------------------------------------------------------
(* The Order Service and its answer.                                       *)

\* The request, under the key newIdempotencyKey made for it, becomes an order, or is
\* refused (or lost on its way).
Place(i) ==
  /\ attempts[i].at = "posting"
  /\ \E accepted \in BOOLEAN :
       attempts' = [attempts EXCEPT ![i].at = IF attempts[i].tab = None THEN "done" ELSE "answered",
                                    ![i].placed = accepted]
  /\ UNCHANGED <<pageVars, cartVars, bounds>>

\* Seeded mistake: the cart is emptied whatever the answer is.
CartAnsweredClears(i, ok) ==
  /\ attempts[i].from = "cart" /\ Finish(i, ok)
  /\ Put(attempts[i].tab, Empty)
  /\ UNCHANGED page

\* The cart is emptied, also of what was added since the click.
CartAnswered(i, ok) ==
  /\ attempts[i].from = "cart" /\ Finish(i, ok)
  /\ IF ok THEN Put(attempts[i].tab, Empty) ELSE UNCHANGED cartVars
  /\ UNCHANGED page

\* navigate() moves the tab to the orders, wherever it is by now.
FormAnswered(i, ok) ==
  /\ attempts[i].from = "place"
  /\ IF ok THEN Enter(attempts[i].tab, "orders") ELSE Finish(i, FALSE) /\ UNCHANGED page
  /\ UNCHANGED cartVars

\* The answer, or word that it was lost, arrives.
Answered(i) ==
  /\ attempts[i].at = "answered"
  /\ \E ok \in {FALSE, attempts[i].placed} :
       /\ CartAnswered(i, ok) \/ FormAnswered(i, ok)
       /\ LET moved == attempts[i].from = "place" /\ ok IN
          attempts' = [(IF moved THEN Leaving(attempts[i].tab) ELSE attempts) EXCEPT ![i].at = "done"]
  /\ UNCHANGED bounds

----------------------------------------------------------------------------
Next ==
  \/ \E t \in Tabs :
       \/ OpenTab(t) \/ CloseTab(t) \/ Checkout(t) \/ FormLoaded(t)
       \/ \E p \in {"products", "cart", "loading"} : Go(t, p)
       \/ \E p \in Products : \/ Add(t, p) \/ Remove(t, p)
                              \/ \E q \in 1..MaxQuantity : SetQuantity(t, p, q) \/ Submit(t, p, q)
  \/ \E i \in Attempts : Availability(i) \/ AvailabilityFails(i) \/ Place(i) \/ Answered(i)

Spec == Init /\ [][Next]_vars

----------------------------------------------------------------------------
InFlight(i) == attempts[i].at \in {"checking", "posting", "answered"}
OfVisit(t) == {i \in Attempts : attempts[i].tab = t /\ ~attempts[i].left /\ InFlight(i)}

\* Whatever is edited during a checkout, the cart that is ordered is not empty and
\* every line of it was covered by the availability that was read after the click.
OrderedAsChecked ==
  \A i \in Attempts : attempts[i].placed /\ attempts[i].from = "cart" =>
    attempts[i].items # Empty /\ attempts[i].covered

\* A reload of the tab that changed the cart last shows the same cart, whatever the
\* other tabs hold.
StoredIsLastCart ==
  writer # None /\ page[writer] # "closed" => stored = lines[writer]

\* A page has one checkout under way at most, and exactly while its button is off:
\* a second order needs the page to be left, or another tab.
OnePerVisit ==
  \A t \in Tabs : /\ Cardinality(OfVisit(t)) <= 1
                  /\ busy[t] <=> OfVisit(t) # {}

\* The cart page confirms orders that exist, and the ordered cart is gone from the
\* tab by then.
ConfirmedIsPlaced ==
  \A t \in Tabs : confirmed[t] # None =>
    attempts[confirmed[t]].placed /\ lines[t] = Empty

\* What a checkout never breaks: types, one checkout of a page at a time behind its
\* disabled button, and a confirmation of a placed order with its cart gone.
CheckoutInv == TypeOK /\ OnePerVisit /\ ConfirmedIsPlaced

\* A cart is emptied at once only by an answer that says it was ordered.
CartKept ==
  [][\A t \in Tabs :
       page[t] # "closed" /\ page'[t] # "closed" /\ lines[t] # Empty /\ lines'[t] = Empty =>
         \/ \E p \in Products : \A q \in Products \ {p} : lines[t][q] = 0
         \/ \E i \in Attempts : /\ attempts[i].tab = t /\ attempts[i].placed
                                /\ attempts[i].at = "answered" /\ attempts'[i].at = "done"]_vars

\* "Includes automated Idempotency-Key header to prevent double charges on retries":
\* an order that is submitted again, unchanged, after its failure was shown, is
\* placed once.
RetryIsOneOrder ==
  \A i \in Attempts : attempts[i].retries # None /\ attempts[i].from = "place" =>
    ~(attempts[i].placed /\ attempts[attempts[i].retries].placed)
=============================================================================
