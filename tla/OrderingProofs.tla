--------------------------- MODULE OrderingProofs ---------------------------
(* The two ends of ordering.  In the browser, for any number of tabs,        *)
(* products and checkouts: what is ordered was checked, the stored cart is   *)
(* the one changed last, a page has one checkout at a time, and a cart is    *)
(* emptied at once only by the answer that it was ordered.  In the Order     *)
(* Service, for any number of requests with one Idempotency-Key: until a     *)
(* fault takes a claim away, the key makes at most one order and no request  *)
(* is answered with another body's order; and without a fault in the         *)
(* record's own calls no claim is left behind, whatever else fails.          *)
EXTENDS Checkout, OrderKeys, FiniteSetTheorems, TLAPS

----------------------------------------------------------------------------
(* Checkout: the browser.                                                  *)

Flying(a) == a.at \in {"checking", "posting", "answered"}
Own(a, t) == a.tab = t /\ ~a.left /\ Flying(a)

\* An attempt by itself.
Sound(a) ==
  /\ a.at = "unused" => a.tab = None
  /\ a.at \in {"checking", "answered"} => a.tab \in Tabs
  /\ a.at \in {"unused", "checking", "posting"} => ~a.placed
  /\ a.from = "cart" => a.items # Empty /\ (a.at \in {"posting", "answered"} \/ a.placed => a.covered)
  /\ Flying(a) => a.from \in {"cart", "place"}

AttemptsInv ==
  \A i \in Attempts :
    LET a == attempts[i] IN
    /\ Sound(a)
    /\ a.tab \in Tabs => page[a.tab] # "closed"
    /\ a.tab \in Tabs /\ a.from = "cart" /\ ~a.left /\ Flying(a) => page[a.tab] = "cart"

\* The button of a page and the checkout behind it.
VisitInv ==
  \A t \in Tabs :
    /\ \A i \in Attempts : \A j \in Attempts : Own(attempts[i], t) /\ Own(attempts[j], t) => i = j
    /\ busy[t] <=> \E i \in Attempts : Own(attempts[i], t)

\* A confirmation is of a placed order, on the cart page, of a tab with an empty cart.
ConfirmInv ==
  \A t \in Tabs : confirmed[t] # None =>
    page[t] = "cart" /\ attempts[confirmed[t]].placed /\ lines[t] = Empty

Inv == TypeOK /\ AttemptsInv /\ VisitInv /\ ConfirmInv /\ StoredIsLastCart

----------------------------------------------------------------------------
\* Nothing is a number or a tab.
LEMMA Nothing == /\ None \notin Tabs /\ None \notin Attempts /\ Empty \in Cart
                 /\ None # "cart" /\ None # "place"
BY CheckoutAssumption DEF Attempts, Empty, Cart

\* At first all is empty.
LEMMA InitInv == Init => Inv
<1> SUFFICES ASSUME Init PROVE Inv
  OBVIOUS
<1>1. Unused \in AttemptType /\ Sound(Unused)
  BY Nothing DEF Unused, AttemptType, Sound, Flying
<1>2. TypeOK
  BY <1>1, Nothing, CheckoutAssumption DEF Init, TypeOK, Cart, Empty
<1>3. \A i \in Attempts : attempts[i] = Unused
  BY DEF Init
<1>4. AttemptsInv
  <2>1. Unused.tab = None /\ Unused.at = "unused"
    BY DEF Unused
  <2>2. QED
    BY <1>1, <1>3, <2>1, Nothing DEF AttemptsInv, Flying
<1>5. VisitInv
  BY <1>3 DEF Init, VisitInv, Own, Unused, Flying
<1>6. ConfirmInv /\ StoredIsLastCart
  BY DEF Init, ConfirmInv, StoredIsLastCart
<1>7. QED
  BY <1>2, <1>4, <1>5, <1>6 DEF Inv

\* Every answered availability that passes covers what is ordered.
LEMMA CheckedIsCovered ==
  ASSUME NEW items \in Cart, NEW available \in [Products -> {None, 0, 1, MaxQuantity}],
         validateAvailability(items, available)
  PROVE  Covers(available, items)
<1> SUFFICES ASSUME NEW p \in Products, items[p] > 0
             PROVE  available[p] \in (items[p])..MaxQuantity
  BY DEF Covers
<1>1. items[p] \in Nat /\ MaxQuantity \in Nat /\ MaxQuantity >= 1
  BY CheckoutAssumption DEF Cart
<1>2. available[p] \in {0, 1, MaxQuantity} /\ items[p] <= available[p]
  BY DEF validateAvailability
<1>3. QED
  BY <1>1, <1>2

----------------------------------------------------------------------------
(* Tabs and pages.                                                         *)

\* Entering a page keeps the types of what it resets.
LEMMA EnterTypes ==
  ASSUME TypeOK, NEW t \in Tabs, NEW p \in {"closed", "products", "cart", "loading", "place", "orders"}, Enter(t, p)
  PROVE  /\ page' \in [Tabs -> {"closed", "products", "cart", "loading", "place", "orders"}]
         /\ busy' \in [Tabs -> BOOLEAN]
         /\ error' \in [Tabs -> Attempts \cup {None}] /\ confirmed' \in [Tabs -> Attempts \cup {None}]
         /\ page'[t] = p /\ ~busy'[t] /\ confirmed'[t] = None
         /\ \A s \in Tabs \ {t} : page'[s] = page[s] /\ busy'[s] = busy[s] /\ confirmed'[s] = confirmed[s]
BY DEF TypeOK, Enter

\* An opened tab reads the stored cart.
LEMMA OpenStep == ASSUME Inv, NEW t \in Tabs, OpenTab(t) PROVE Inv'
<1>1. /\ page[t] = "closed" /\ Enter(t, "products") /\ Visit
      /\ lines' = [lines EXCEPT ![t] = stored] /\ writer' = t /\ UNCHANGED <<stored, attempts>>
  BY DEF OpenTab
<1>2. /\ page'[t] = "products" /\ ~busy'[t] /\ confirmed'[t] = None
      /\ \A s \in Tabs \ {t} : page'[s] = page[s] /\ busy'[s] = busy[s] /\ confirmed'[s] = confirmed[s]
  BY <1>1, EnterTypes DEF Inv
<1>3. lines'[t] = stored /\ \A s \in Tabs \ {t} : lines'[s] = lines[s]
  BY <1>1 DEF Inv, TypeOK
<1>4. visits' \in 0..MaxVisits /\ edits' \in 0..MaxEdits
  BY <1>1, CheckoutAssumption DEF Visit, Inv, TypeOK
<1>5. TypeOK'
  BY <1>1, <1>4, EnterTypes DEF Inv, TypeOK
<1>6. \A i \in Attempts : attempts[i].tab # t
  BY <1>1 DEF Inv, AttemptsInv
<1>7. AttemptsInv'
  BY <1>1, <1>2, <1>6 DEF Inv, AttemptsInv
<1>8. VisitInv'
  BY <1>1, <1>2, <1>6 DEF Inv, VisitInv, Own
<1>9. ConfirmInv'
  BY <1>1, <1>2, <1>3 DEF Inv, ConfirmInv
<1>10. StoredIsLastCart'
  BY <1>1, <1>3 DEF StoredIsLastCart
<1>11. QED
  BY <1>5, <1>7, <1>8, <1>9, <1>10 DEF Inv

\* A closed tab has no checkout any more.
LEMMA CloseStep == ASSUME Inv, NEW t \in Tabs, CloseTab(t) PROVE Inv'
<1> DEFINE Closed(a) == [a EXCEPT !.tab = None, !.left = TRUE, !.at = IF @ = "posting" THEN @ ELSE "done"]
<1>1. /\ Enter(t, "closed") /\ lines' = [lines EXCEPT ![t] = Empty]
      /\ attempts' = [i \in Attempts |-> IF attempts[i].tab # t THEN attempts[i] ELSE Closed(attempts[i])]
      /\ UNCHANGED <<stored, writer, bounds>>
  BY DEF CloseTab
<1>2. /\ page'[t] = "closed" /\ ~busy'[t] /\ confirmed'[t] = None
      /\ \A s \in Tabs \ {t} : page'[s] = page[s] /\ busy'[s] = busy[s] /\ confirmed'[s] = confirmed[s]
  BY <1>1, EnterTypes DEF Inv
<1>3. \A s \in Tabs \ {t} : lines'[s] = lines[s]
  BY <1>1 DEF Inv, TypeOK
<1>4. ASSUME NEW i \in Attempts
      PROVE  /\ attempts'[i] \in AttemptType /\ Sound(attempts'[i]) /\ attempts'[i].placed = attempts[i].placed
             /\ attempts[i].tab # t => attempts'[i] = attempts[i]
             /\ attempts[i].tab = t => attempts'[i].tab = None
  <2>1. attempts[i] \in AttemptType /\ Sound(attempts[i])
    BY DEF Inv, TypeOK, AttemptsInv
  <2>2. CASE attempts[i].tab # t
    BY <1>1, <2>1, <2>2
  <2>3. CASE attempts[i].tab = t
    <3> DEFINE c == Closed(attempts[i])
    <3>1. attempts'[i] = c
      BY <1>1, <2>3
    <3>2. c \in AttemptType
      BY <2>1 DEF AttemptType
    <3>3. /\ c.tab = None /\ c.left /\ c.at \in {"posting", "done"} /\ (c.at = "posting" <=> attempts[i].at = "posting")
          /\ c.placed = attempts[i].placed /\ c.from = attempts[i].from /\ c.items = attempts[i].items
          /\ c.covered = attempts[i].covered
      BY <2>1 DEF AttemptType
    <3> HIDE DEF c
    <3>4. Sound(c)
      BY <2>1, <3>3 DEF Sound, Flying
    <3>5. QED
      BY <2>3, <3>1, <3>2, <3>3, <3>4
  <2>4. QED
    BY <2>2, <2>3
<1>5. attempts' \in [Attempts -> AttemptType]
  <2> HIDE DEF Closed
  <2>1. QED
    BY <1>1, <1>4
<1> HIDE DEF Closed
<1>6. TypeOK'
  BY <1>1, <1>5, EnterTypes, Nothing DEF Inv, TypeOK, bounds
<1>7. AttemptsInv'
  <2> SUFFICES ASSUME NEW i \in Attempts
               PROVE  LET a == attempts'[i] IN
                      /\ Sound(a) /\ (a.tab \in Tabs => page'[a.tab] # "closed")
                      /\ (a.tab \in Tabs /\ a.from = "cart" /\ ~a.left /\ Flying(a) => page'[a.tab] = "cart")
    BY DEF AttemptsInv
  <2>1. CASE attempts[i].tab = t
    BY <1>4, <2>1, Nothing
  <2>2. CASE attempts[i].tab # t
    BY <1>2, <1>4, <2>2 DEF Inv, AttemptsInv
  <2>3. QED
    BY <2>1, <2>2
<1>8. VisitInv'
  <2>1. ASSUME NEW s \in Tabs, NEW i \in Attempts
        PROVE  Own(attempts'[i], s) <=> s # t /\ Own(attempts[i], s)
    BY <1>4, Nothing DEF Own
  <2>2. QED
    BY <1>2, <2>1 DEF Inv, VisitInv
<1>9. ConfirmInv'
  <2> SUFFICES ASSUME NEW s \in Tabs, confirmed'[s] # None
               PROVE  page'[s] = "cart" /\ attempts'[confirmed'[s]].placed /\ lines'[s] = Empty
    BY DEF ConfirmInv
  <2>1. s # t /\ confirmed'[s] = confirmed[s] /\ confirmed[s] \in Attempts
    BY <1>2 DEF Inv, TypeOK
  <2>2. QED
    BY <1>2, <1>3, <1>4, <2>1 DEF Inv, ConfirmInv
<1>10. StoredIsLastCart'
  BY <1>1, <1>2, <1>3 DEF Inv, StoredIsLastCart, TypeOK
<1>11. QED
  BY <1>6, <1>7, <1>8, <1>9, <1>10 DEF Inv

\* What leaving does to an attempt.
LEMMA LeftAttempts ==
  ASSUME Inv, NEW t \in Tabs, NEW i \in Attempts
  PROVE  LET a == Leaving(t)[i] IN
         /\ a \in AttemptType /\ Sound(a)
         /\ a.tab = attempts[i].tab /\ a.from = attempts[i].from /\ a.placed = attempts[i].placed /\ a.at = attempts[i].at
         /\ attempts[i].tab # t => a = attempts[i]
         /\ attempts[i].tab = t => a.left
<1> DEFINE a == Leaving(t)[i]
<1>1. attempts[i] \in AttemptType /\ Sound(attempts[i])
  BY DEF Inv, TypeOK, AttemptsInv
<1>2. a = IF attempts[i].tab = t THEN [attempts[i] EXCEPT !.left = TRUE] ELSE attempts[i]
  BY DEF Leaving
<1> HIDE DEF a
<1>3. /\ a \in AttemptType
      /\ a.tab = attempts[i].tab /\ a.from = attempts[i].from /\ a.placed = attempts[i].placed /\ a.at = attempts[i].at
      /\ a.items = attempts[i].items /\ a.covered = attempts[i].covered
      /\ attempts[i].tab # t => a = attempts[i]
      /\ attempts[i].tab = t => a.left
  BY <1>1, <1>2 DEF AttemptType
<1>4. Sound(a)
  BY <1>1, <1>3 DEF Sound, Flying
<1>5. QED
  BY <1>3, <1>4 DEF a

\* A page that is left has no checkout any more.
LEMMA GoStep == ASSUME Inv, NEW t \in Tabs, NEW p \in {"products", "cart", "loading"}, Go(t, p) PROVE Inv'
<1>1. page[t] # "closed" /\ Enter(t, p) /\ Visit /\ attempts' = Leaving(t) /\ UNCHANGED cartVars
  BY DEF Go
<1>2. /\ page'[t] = p /\ ~busy'[t] /\ confirmed'[t] = None
      /\ \A s \in Tabs \ {t} : page'[s] = page[s] /\ busy'[s] = busy[s] /\ confirmed'[s] = confirmed[s]
  BY <1>1, EnterTypes DEF Inv
<1>3. visits' \in 0..MaxVisits /\ edits' \in 0..MaxEdits
  BY <1>1, CheckoutAssumption DEF Visit, Inv, TypeOK
<1>4. attempts' \in [Attempts -> AttemptType]
  BY <1>1, LeftAttempts DEF Leaving
<1>5. TypeOK'
  BY <1>1, <1>3, <1>4, EnterTypes DEF Inv, TypeOK, cartVars
<1>6. AttemptsInv'
  <2> SUFFICES ASSUME NEW i \in Attempts
               PROVE  LET a == attempts'[i] IN
                      /\ Sound(a) /\ (a.tab \in Tabs => page'[a.tab] # "closed")
                      /\ (a.tab \in Tabs /\ a.from = "cart" /\ ~a.left /\ Flying(a) => page'[a.tab] = "cart")
    BY DEF AttemptsInv
  <2>1. CASE attempts[i].tab = t
    BY <1>1, <1>2, <2>1, LeftAttempts
  <2>2. CASE attempts[i].tab # t
    BY <1>1, <1>2, <2>2, LeftAttempts DEF Inv, AttemptsInv
  <2>3. QED
    BY <2>1, <2>2
<1>7. VisitInv'
  <2>1. ASSUME NEW s \in Tabs, NEW i \in Attempts
        PROVE  Own(attempts'[i], s) <=> s # t /\ Own(attempts[i], s)
    BY <1>1, LeftAttempts DEF Own, Flying
  <2>2. QED
    BY <1>2, <2>1 DEF Inv, VisitInv
<1>8. ConfirmInv'
  <2> SUFFICES ASSUME NEW s \in Tabs, confirmed'[s] # None
               PROVE  page'[s] = "cart" /\ attempts'[confirmed'[s]].placed /\ lines'[s] = Empty
    BY DEF ConfirmInv
  <2>1. s # t /\ confirmed'[s] = confirmed[s] /\ confirmed[s] \in Attempts
    BY <1>2 DEF Inv, TypeOK
  <2>2. QED
    BY <1>1, <1>2, <2>1, LeftAttempts DEF Inv, ConfirmInv, cartVars
<1>9. StoredIsLastCart'
  BY <1>1, <1>2 DEF Inv, StoredIsLastCart, TypeOK, cartVars
<1>10. QED
  BY <1>5, <1>6, <1>7, <1>8, <1>9 DEF Inv

----------------------------------------------------------------------------
(* The cart.                                                               *)

\* A changed cart is stored, and no confirmation is on its page.
LEMMA PutStep ==
  ASSUME Inv, NEW t \in Tabs, NEW cart \in Cart, Put(t, cart), confirmed[t] = None \/ cart = Empty,
         Edit, UNCHANGED <<pageVars, attempts>>
  PROVE  Inv'
<1>1. /\ lines' = [lines EXCEPT ![t] = cart] /\ stored' = cart /\ writer' = t
      /\ UNCHANGED <<page, busy, error, confirmed, attempts>>
  BY DEF Put, pageVars
<1>2. lines'[t] = cart /\ \A s \in Tabs \ {t} : lines'[s] = lines[s]
  BY <1>1 DEF Inv, TypeOK
<1>3. visits' \in 0..MaxVisits /\ edits' \in 0..MaxEdits
  BY CheckoutAssumption DEF Edit, Inv, TypeOK
<1>4. TypeOK'
  BY <1>1, <1>3 DEF Inv, TypeOK
<1>5. AttemptsInv' /\ VisitInv'
  BY <1>1 DEF Inv, AttemptsInv, VisitInv
<1>6. ConfirmInv'
  BY <1>1, <1>2 DEF Inv, ConfirmInv
<1>7. StoredIsLastCart'
  BY <1>1, <1>2 DEF StoredIsLastCart
<1>8. QED
  BY <1>4, <1>5, <1>6, <1>7 DEF Inv

\* The three changes of a cart.
LEMMA EditStep ==
  ASSUME Inv, NEW t \in Tabs, NEW p \in Products,
         Add(t, p) \/ Remove(t, p) \/ \E q \in 1..MaxQuantity : SetQuantity(t, p, q)
  PROVE  Inv'
<1>0. lines[t] \in Cart /\ lines[t][p] \in 0..MaxQuantity /\ MaxQuantity \in Nat
  BY CheckoutAssumption DEF Inv, TypeOK, Cart
<1>1. CASE Add(t, p)
  <2> DEFINE n == IF lines[t][p] < MaxQuantity THEN lines[t][p] + 1 ELSE MaxQuantity
             cart == [lines[t] EXCEPT ![p] = n]
  <2>1. n \in 0..MaxQuantity
    BY <1>0
  <2>2. Put(t, cart) /\ Edit /\ UNCHANGED <<pageVars, attempts>> /\ page[t] = "products"
    BY <1>1 DEF Add
  <2> HIDE DEF n
  <2>3. cart \in Cart
    BY <1>0, <2>1 DEF Cart
  <2>4. confirmed[t] = None
    BY <2>2 DEF Inv, ConfirmInv
  <2> HIDE DEF cart
  <2>5. QED
    BY <2>2, <2>3, <2>4, PutStep
<1>2. CASE Remove(t, p)
  <2> DEFINE cart == [lines[t] EXCEPT ![p] = 0]
  <2>1. Put(t, cart) /\ Edit /\ UNCHANGED <<pageVars, attempts>> /\ confirmed[t] = None
    BY <1>2 DEF Remove, OnCart
  <2>2. 0 \in 0..MaxQuantity
    BY <1>0
  <2>3. cart \in Cart
    BY <1>0, <2>2 DEF Cart
  <2> HIDE DEF cart
  <2>4. QED
    BY <2>1, <2>3, PutStep
<1>3. ASSUME NEW q \in 1..MaxQuantity, SetQuantity(t, p, q) PROVE Inv'
  <2> DEFINE cart == [lines[t] EXCEPT ![p] = q]
  <2>1. Put(t, cart) /\ Edit /\ UNCHANGED <<pageVars, attempts>> /\ confirmed[t] = None
    BY <1>3 DEF SetQuantity, OnCart
  <2>2. q \in 0..MaxQuantity
    BY <1>0
  <2>3. cart \in Cart
    BY <1>0, <2>2 DEF Cart
  <2> HIDE DEF cart
  <2>4. QED
    BY <2>1, <2>3, PutStep
<1>4. QED
  BY <1>1, <1>2, <1>3

----------------------------------------------------------------------------
(* Checking out.                                                           *)

\* A checkout starts where none is under way: its page's button was on.
LEMMA StartStep ==
  ASSUME Inv, NEW t \in Tabs, NEW from \in {"cart", "place"}, NEW items \in Cart, NEW at \in {"checking", "posting"},
         Start(t, from, items, at), ~busy[t], page[t] # "closed",
         from = "cart" => items # Empty /\ at = "checking" /\ page[t] = "cart"
  PROVE  Inv'
<1>1. PICK i \in Attempts :
        /\ attempts[i].at = "unused"
        /\ attempts' = [attempts EXCEPT ![i] =
             [Unused EXCEPT !.tab = t, !.from = from, !.items = items, !.at = at,
                            !.retries = IF error[t] # None /\ attempts[error[t]].items = items
                                        THEN error[t] ELSE None]]
  BY DEF Start
<1> DEFINE r == IF error[t] # None /\ attempts[error[t]].items = items THEN error[t] ELSE None
           a == [Unused EXCEPT !.tab = t, !.from = from, !.items = items, !.at = at, !.retries = r]
<1>2. r \in Attempts \cup {None}
  BY DEF Inv, TypeOK
<1> HIDE DEF r
<1>3. a \in AttemptType /\ a.tab = t /\ a.from = from /\ a.items = items /\ a.at = at /\ ~a.left /\ ~a.placed
  BY <1>2 DEF Unused, AttemptType
<1>4. attempts' = [attempts EXCEPT ![i] = a]
  BY <1>1 DEF r
<1> HIDE DEF a
<1>5. attempts'[i] = a /\ \A j \in Attempts \ {i} : attempts'[j] = attempts[j]
  BY <1>4 DEF Inv, TypeOK
<1>6. /\ busy' = [busy EXCEPT ![t] = TRUE] /\ error' = [error EXCEPT ![t] = None]
      /\ UNCHANGED <<page, confirmed, lines, stored, writer, edits, visits>>
  BY DEF Start, cartVars, bounds
<1>7. TypeOK'
  BY <1>3, <1>4, <1>6 DEF Inv, TypeOK
<1>8. Sound(a)
  BY <1>3 DEF Sound, Flying
<1>9. AttemptsInv'
  BY <1>3, <1>5, <1>6, <1>8 DEF Inv, AttemptsInv
<1>10. VisitInv'
  <2>1. ~Flying(attempts[i]) /\ \A j \in Attempts : ~Own(attempts[j], t)
    BY <1>1 DEF Inv, VisitInv, Flying
  <2>2. Own(a, t) /\ \A s \in Tabs \ {t} : ~Own(a, s)
    BY <1>3 DEF Own, Flying
  <2>3. busy'[t] /\ \A s \in Tabs \ {t} : busy'[s] = busy[s]
    BY <1>6 DEF Inv, TypeOK
  <2>4. QED
    BY <1>5, <2>1, <2>2, <2>3 DEF Inv, VisitInv, Own
<1>11. ConfirmInv'
  <2> SUFFICES ASSUME NEW s \in Tabs, confirmed'[s] # None
               PROVE  page'[s] = "cart" /\ attempts'[confirmed'[s]].placed /\ lines'[s] = Empty
    BY DEF ConfirmInv
  <2>1. confirmed'[s] = confirmed[s] /\ confirmed[s] \in Attempts /\ attempts[confirmed[s]].placed
    BY <1>6 DEF Inv, TypeOK, ConfirmInv
  <2>2. confirmed[s] # i
    BY <1>1, <2>1 DEF Inv, AttemptsInv, Sound
  <2>3. QED
    BY <1>5, <1>6, <2>1, <2>2 DEF Inv, ConfirmInv
<1>12. StoredIsLastCart'
  BY <1>6 DEF Inv, StoredIsLastCart
<1>13. QED
  BY <1>7, <1>9, <1>10, <1>11, <1>12 DEF Inv

\* From the cart, or from the form.
LEMMA BeginStep ==
  ASSUME Inv, NEW t \in Tabs,
         Checkout(t) \/ \E p \in Products : \E q \in 1..MaxQuantity : Submit(t, p, q)
  PROVE  Inv'
<1>1. CASE Checkout(t)
  <2>1. lines[t] \in Cart
    BY DEF Inv, TypeOK
  <2>2. QED
    BY <1>1, <2>1, StartStep DEF Checkout, OnCart
<1>2. ASSUME NEW p \in Products, NEW q \in 1..MaxQuantity, Submit(t, p, q) PROVE Inv'
  <2> DEFINE items == [Empty EXCEPT ![p] = q]
  <2>1. q \in 0..MaxQuantity
    BY CheckoutAssumption
  <2>2. items \in Cart
    BY <2>1, Nothing DEF Cart
  <2>3. Start(t, "place", items, "posting") /\ ~busy[t] /\ page[t] = "place"
    BY <1>2 DEF Submit, SubmitEnabled, FormShown
  <2> HIDE DEF items
  <2>4. QED
    BY <2>2, <2>3, StartStep
<1>3. QED
  BY <1>1, <1>2

\* A change of one attempt that keeps its tab, its page and its items.
LEMMA OneAttempt ==
  ASSUME Inv, NEW i \in Attempts, NEW a \in AttemptType, attempts' = [attempts EXCEPT ![i] = a],
         Sound(a), a.tab = attempts[i].tab, a.from = attempts[i].from, a.left = attempts[i].left,
         Flying(a) => Flying(attempts[i]), attempts[i].placed => a.placed
  PROVE  /\ attempts' \in [Attempts -> AttemptType] /\ attempts'[i] = a
         /\ \A j \in Attempts \ {i} : attempts'[j] = attempts[j]
         /\ \A j \in Attempts : attempts[j].placed => attempts'[j].placed
         /\ \A j \in Attempts : Sound(attempts'[j])
         /\ UNCHANGED page => AttemptsInv'
<1>1. /\ attempts' \in [Attempts -> AttemptType] /\ attempts'[i] = a
      /\ \A j \in Attempts \ {i} : attempts'[j] = attempts[j]
  BY DEF Inv, TypeOK
<1>2. \A j \in Attempts : Sound(attempts'[j]) /\ (attempts[j].placed => attempts'[j].placed)
  BY <1>1 DEF Inv, AttemptsInv
<1>3. ASSUME UNCHANGED page PROVE AttemptsInv'
  BY <1>1, <1>2, <1>3 DEF Inv, AttemptsInv
<1>4. QED
  BY <1>1, <1>2, <1>3

\* An attempt that goes on, with nothing for its page.
LEMMA GoesOn ==
  ASSUME Inv, NEW i \in Attempts, NEW a \in AttemptType, attempts' = [attempts EXCEPT ![i] = a],
         Sound(a), a.tab = attempts[i].tab, a.from = attempts[i].from, a.left = attempts[i].left,
         Flying(a) => Flying(attempts[i]), attempts[i].placed => a.placed,
         a.tab \in Tabs => (Flying(a) <=> Flying(attempts[i])),
         UNCHANGED <<pageVars, cartVars, bounds>>
  PROVE  Inv'
<1>1. /\ attempts' \in [Attempts -> AttemptType] /\ attempts'[i] = a
      /\ \A j \in Attempts \ {i} : attempts'[j] = attempts[j]
      /\ \A j \in Attempts : attempts[j].placed => attempts'[j].placed
      /\ AttemptsInv'
  BY OneAttempt DEF pageVars
<1>2. TypeOK'
  BY <1>1 DEF Inv, TypeOK, pageVars, cartVars, bounds
<1>3. VisitInv'
  <2>1. \A s \in Tabs : \A j \in Attempts : Own(attempts'[j], s) <=> Own(attempts[j], s)
    BY <1>1 DEF Own
  <2>2. QED
    BY <2>1 DEF Inv, VisitInv, pageVars
<1>4. ConfirmInv' /\ StoredIsLastCart'
  BY <1>1 DEF Inv, TypeOK, ConfirmInv, StoredIsLastCart, pageVars, cartVars
<1>5. QED
  BY <1>1, <1>2, <1>3, <1>4 DEF Inv

\* An attempt that ends with word for its page.
LEMMA EndsStep ==
  ASSUME Inv, NEW i \in Attempts, attempts' = [attempts EXCEPT ![i].at = "done"],
         attempts[i].at \in {"checking", "answered"}, NEW ok \in BOOLEAN,
         ok => attempts[i].placed /\ attempts[i].from = "cart", Finish(i, ok), UNCHANGED <<page, bounds>>,
         IF ok THEN Put(attempts[i].tab, Empty) ELSE UNCHANGED cartVars
  PROVE  Inv'
<1> DEFINE a == [attempts[i] EXCEPT !.at = "done"]
           t == attempts[i].tab
<1>1. attempts[i] \in AttemptType /\ Sound(attempts[i]) /\ t \in Tabs /\ page[t] # "closed"
  BY DEF Inv, TypeOK, AttemptsInv, Sound
<1>2. /\ a \in AttemptType /\ a.tab = attempts[i].tab /\ a.from = attempts[i].from /\ a.left = attempts[i].left
      /\ a.placed = attempts[i].placed /\ a.items = attempts[i].items /\ a.covered = attempts[i].covered
      /\ a.at = "done" /\ ~Flying(a)
  BY <1>1 DEF AttemptType, Flying
<1>3. attempts' = [attempts EXCEPT ![i] = a]
  BY DEF Inv, TypeOK
<1> HIDE DEF a
<1>4. Sound(a)
  BY <1>1, <1>2 DEF Sound
<1>5. /\ attempts' \in [Attempts -> AttemptType] /\ attempts'[i] = a
      /\ \A j \in Attempts \ {i} : attempts'[j] = attempts[j]
      /\ \A j \in Attempts : attempts[j].placed => attempts'[j].placed
      /\ AttemptsInv'
  BY <1>2, <1>3, <1>4, OneAttempt
<1>6. /\ lines' \in [Tabs -> Cart] /\ stored' \in Cart /\ writer' \in Tabs \cup {None}
      /\ \A s \in Tabs : lines'[s] = lines[s] \/ lines'[s] = Empty
      /\ ok => lines'[t] = Empty
      /\ StoredIsLastCart'
  <2>1. CASE ok
    <3>1. lines' = [lines EXCEPT ![t] = Empty] /\ stored' = Empty /\ writer' = t
      BY <2>1 DEF Put
    <3>2. QED
      BY <1>1, <3>1, Nothing DEF Inv, TypeOK, StoredIsLastCart
  <2>2. CASE ~ok
    BY <2>2 DEF Inv, TypeOK, StoredIsLastCart, cartVars
  <2>3. QED
    BY <2>1, <2>2
<1>7. CASE attempts[i].left
  <2>1. UNCHANGED <<busy, error, confirmed>>
    BY <1>7 DEF Finish
  <2>2. TypeOK'
    BY <1>5, <1>6, <2>1 DEF Inv, TypeOK, bounds
  <2>3. VisitInv'
    <3>1. \A s \in Tabs : \A j \in Attempts : Own(attempts'[j], s) <=> Own(attempts[j], s)
      BY <1>2, <1>5, <1>7 DEF Own
    <3>2. QED
      BY <2>1, <3>1 DEF Inv, VisitInv
  <2>4. ConfirmInv'
    BY <1>5, <1>6, <2>1 DEF Inv, TypeOK, ConfirmInv
  <2>5. QED
    BY <1>5, <1>6, <2>2, <2>3, <2>4 DEF Inv
<1>8. CASE ~attempts[i].left
  <2>1. /\ busy' = [busy EXCEPT ![t] = FALSE] /\ error' = [error EXCEPT ![t] = IF ok THEN @ ELSE i]
        /\ confirmed' = [confirmed EXCEPT ![t] = IF ok THEN i ELSE @]
    BY <1>8 DEF Finish
  <2>2. TypeOK'
    BY <1>5, <1>6, <2>1 DEF Inv, TypeOK, bounds
  <2>3. VisitInv'
    <3>1. \A s \in Tabs : \A j \in Attempts : Own(attempts'[j], s) <=> j # i /\ Own(attempts[j], s)
      BY <1>2, <1>5 DEF Own
    <3>2. Own(attempts[i], t) /\ \A s \in Tabs \ {t} : ~Own(attempts[i], s)
      BY <1>8 DEF Own, Flying
    <3>3. ~busy'[t] /\ \A s \in Tabs \ {t} : busy'[s] = busy[s]
      BY <1>1, <2>1 DEF Inv, TypeOK
    <3>4. QED
      BY <1>1, <3>1, <3>2, <3>3 DEF Inv, VisitInv
  <2>4. ConfirmInv'
    <3> SUFFICES ASSUME NEW s \in Tabs, confirmed'[s] # None
                 PROVE  page'[s] = "cart" /\ attempts'[confirmed'[s]].placed /\ lines'[s] = Empty
      BY DEF ConfirmInv
    <3>1. CASE ok /\ s = t
      <4>1. confirmed'[s] = i
        BY <1>1, <2>1, <3>1 DEF Inv, TypeOK
      <4>2. page[t] = "cart"
        BY <1>1, <1>8, <3>1 DEF Inv, AttemptsInv, Flying
      <4>3. QED
        BY <1>5, <1>6, <3>1, <4>1, <4>2
    <3>2. CASE ~(ok /\ s = t)
      <4>1. confirmed'[s] = confirmed[s] /\ confirmed'[s] \in Attempts
        BY <1>1, <2>1, <2>2, <3>2 DEF Inv, TypeOK
      <4>2. QED
        BY <1>5, <1>6, <4>1 DEF Inv, ConfirmInv
    <3>3. QED
      BY <3>1, <3>2
  <2>5. QED
    BY <1>5, <1>6, <2>2, <2>3, <2>4 DEF Inv
<1>9. QED
  BY <1>7, <1>8

\* The answer on what is available.
LEMMA AvailabilityStep == ASSUME Inv, NEW i \in Attempts, Availability(i) \/ AvailabilityFails(i) PROVE Inv'
<1>0. attempts[i] \in AttemptType /\ Sound(attempts[i])
  BY DEF Inv, TypeOK, AttemptsInv
<1>1. CASE AvailabilityFails(i)
  BY <1>1, EndsStep DEF AvailabilityFails
<1>2. CASE Availability(i)
  <2>1. PICK available \in [Products -> {None, 0, 1, MaxQuantity}] :
          IF validateAvailability(attempts[i].items, available)
          THEN /\ attempts' = [attempts EXCEPT ![i].at = "posting",
                                          ![i].covered = Covers(available, attempts[i].items)]
               /\ UNCHANGED <<busy, error, confirmed>>
          ELSE /\ attempts' = [attempts EXCEPT ![i].at = "done"]
               /\ Finish(i, FALSE)
    BY <1>2 DEF Availability
  <2>2. attempts[i].at = "checking" /\ UNCHANGED <<page, cartVars, bounds>>
    BY <1>2 DEF Availability
  <2>3. CASE ~validateAvailability(attempts[i].items, available)
    BY <2>1, <2>2, <2>3, EndsStep
  <2>4. CASE validateAvailability(attempts[i].items, available)
    <3>1. Covers(available, attempts[i].items) = TRUE
      <4>1. attempts[i].items \in Cart
        BY <1>0 DEF AttemptType
      <4>2. Covers(available, attempts[i].items)
        BY <2>4, <4>1, CheckedIsCovered
      <4>3. QED
        BY <4>2 DEF Covers
    <3> DEFINE a == [attempts[i] EXCEPT !.at = "posting", !.covered = TRUE]
    <3>2. attempts' = [attempts EXCEPT ![i] = a]
      <4>1. attempts' = [attempts EXCEPT ![i].at = "posting", ![i].covered = TRUE]
        BY <2>1, <2>4, <3>1
      <4>2. QED
        BY <4>1 DEF Inv, TypeOK
    <3>3. /\ a \in AttemptType /\ a.tab = attempts[i].tab /\ a.from = attempts[i].from /\ a.left = attempts[i].left
          /\ a.placed = attempts[i].placed /\ a.items = attempts[i].items /\ a.covered
          /\ a.at = "posting"
      BY <1>0 DEF AttemptType
    <3> HIDE DEF a
    <3>4. Sound(a) /\ Flying(a) /\ Flying(attempts[i])
      BY <1>0, <2>2, <3>3 DEF Sound, Flying
    <3>5. UNCHANGED <<pageVars, cartVars, bounds>>
      BY <2>1, <2>2, <2>4 DEF pageVars
    <3>6. QED
      BY <3>2, <3>3, <3>4, <3>5, GoesOn
  <2>5. QED
    BY <2>3, <2>4
<1>3. QED
  BY <1>1, <1>2

\* The Order Service takes the order or refuses it.
LEMMA PlaceStep == ASSUME Inv, NEW i \in Attempts, Place(i) PROVE Inv'
<1>0. attempts[i] \in AttemptType /\ Sound(attempts[i]) /\ attempts[i].at = "posting"
  BY DEF Inv, TypeOK, AttemptsInv, Place
<1>1. PICK accepted \in BOOLEAN :
        attempts' = [attempts EXCEPT ![i].at = IF attempts[i].tab = None THEN "done" ELSE "answered",
                                     ![i].placed = accepted]
  BY DEF Place
<1> DEFINE to == IF attempts[i].tab = None THEN "done" ELSE "answered"
           a == [attempts[i] EXCEPT !.at = to, !.placed = accepted]
<1>2. attempts' = [attempts EXCEPT ![i] = a]
  BY <1>1 DEF Inv, TypeOK
<1>3. /\ a \in AttemptType /\ a.tab = attempts[i].tab /\ a.from = attempts[i].from /\ a.left = attempts[i].left
      /\ a.items = attempts[i].items /\ a.covered = attempts[i].covered
      /\ a.at = to
  BY <1>0 DEF AttemptType
<1>4. a.tab \in Tabs \cup {None} /\ ~attempts[i].placed
  BY <1>0, <1>3 DEF AttemptType, Sound
<1> HIDE DEF a
<1>5. Sound(a)
  BY <1>0, <1>3, <1>4 DEF Sound, Flying
<1>6. Flying(attempts[i]) /\ (a.tab \in Tabs => Flying(a))
  BY <1>0, <1>3, Nothing DEF Flying
<1>7. UNCHANGED <<pageVars, cartVars, bounds>>
  BY DEF Place
<1>8. QED
  BY <1>2, <1>3, <1>4, <1>5, <1>6, <1>7, GoesOn

\* The form's order is placed: the tab goes to the orders.
LEMMA MovedStep ==
  ASSUME Inv, NEW i \in Attempts, attempts[i].at = "answered", Enter(attempts[i].tab, "orders"),
         attempts' = [Leaving(attempts[i].tab) EXCEPT ![i].at = "done"], UNCHANGED <<cartVars, bounds>>
  PROVE  Inv'
<1> DEFINE t == attempts[i].tab
           l == Leaving(t)
<1>1. t \in Tabs /\ page[t] # "closed"
  BY DEF Inv, AttemptsInv, Sound
<1>2. /\ page'[t] = "orders" /\ ~busy'[t] /\ confirmed'[t] = None
      /\ \A s \in Tabs \ {t} : page'[s] = page[s] /\ busy'[s] = busy[s] /\ confirmed'[s] = confirmed[s]
  BY <1>1, EnterTypes DEF Inv
<1>3. l \in [Attempts -> AttemptType] /\ attempts' = [l EXCEPT ![i].at = "done"]
  <2>1. l = [j \in Attempts |-> l[j]]
    BY DEF Leaving
  <2> HIDE DEF l
  <2>2. \A j \in Attempts : l[j] \in AttemptType
    BY <1>1, LeftAttempts DEF l
  <2>3. QED
    BY <2>1, <2>2 DEF l
<1>4. ASSUME NEW j \in Attempts
      PROVE  /\ attempts'[j] \in AttemptType /\ Sound(attempts'[j])
             /\ attempts'[j].tab = attempts[j].tab /\ attempts'[j].placed = attempts[j].placed
             /\ attempts[j].tab # t => attempts'[j] = attempts[j]
             /\ attempts[j].tab = t => attempts'[j].left
  <2>1. /\ l[j] \in AttemptType /\ Sound(l[j])
        /\ l[j].tab = attempts[j].tab /\ l[j].from = attempts[j].from
        /\ l[j].placed = attempts[j].placed /\ l[j].at = attempts[j].at
        /\ attempts[j].tab # t => l[j] = attempts[j]
        /\ attempts[j].tab = t => l[j].left
    BY <1>1, LeftAttempts
  <2> HIDE DEF l
  <2>2. CASE j # i
    BY <1>3, <2>1, <2>2
  <2>3. CASE j = i
    <3> DEFINE a == [l[i] EXCEPT !.at = "done"]
    <3>1. attempts'[j] = a
      BY <1>3, <2>3
    <3>2. /\ a \in AttemptType /\ a.tab = l[i].tab /\ a.from = l[i].from /\ a.left = l[i].left
          /\ a.placed = l[i].placed /\ a.items = l[i].items /\ a.covered = l[i].covered /\ a.at = "done"
      BY <2>1, <2>3 DEF AttemptType
    <3> HIDE DEF a
    <3>3. Sound(a)
      BY <2>1, <2>3, <3>2 DEF Sound, Flying
    <3>4. QED
      BY <2>1, <2>3, <3>1, <3>2, <3>3
  <2>4. QED
    BY <2>2, <2>3
<1>5. attempts' \in [Attempts -> AttemptType]
  <2> HIDE DEF l
  <2>1. QED
    BY <1>3, <1>4
<1> HIDE DEF l
<1>6. TypeOK'
  BY <1>1, <1>5, EnterTypes DEF Inv, TypeOK, cartVars, bounds
<1>7. AttemptsInv'
  <2> SUFFICES ASSUME NEW j \in Attempts
               PROVE  LET a == attempts'[j] IN
                      /\ Sound(a) /\ (a.tab \in Tabs => page'[a.tab] # "closed")
                      /\ (a.tab \in Tabs /\ a.from = "cart" /\ ~a.left /\ Flying(a) => page'[a.tab] = "cart")
    BY DEF AttemptsInv
  <2>1. CASE attempts[j].tab = t
    BY <1>2, <1>4, <2>1
  <2>2. CASE attempts[j].tab # t
    BY <1>2, <1>4, <2>2 DEF Inv, AttemptsInv
  <2>3. QED
    BY <2>1, <2>2
<1>8. VisitInv'
  <2>1. ASSUME NEW s \in Tabs, NEW j \in Attempts
        PROVE  Own(attempts'[j], s) <=> s # t /\ Own(attempts[j], s)
    BY <1>4 DEF Own
  <2>2. QED
    BY <1>2, <2>1 DEF Inv, VisitInv
<1>9. ConfirmInv'
  <2> SUFFICES ASSUME NEW s \in Tabs, confirmed'[s] # None
               PROVE  page'[s] = "cart" /\ attempts'[confirmed'[s]].placed /\ lines'[s] = Empty
    BY DEF ConfirmInv
  <2>1. s # t /\ confirmed'[s] = confirmed[s] /\ confirmed[s] \in Attempts
    BY <1>2 DEF Inv, TypeOK
  <2>2. QED
    BY <1>2, <1>4, <2>1 DEF Inv, ConfirmInv, cartVars
<1>10. StoredIsLastCart'
  <2>1. UNCHANGED <<lines, stored, writer>>
    BY DEF cartVars
  <2>2. ASSUME writer # None, page'[writer] # "closed" PROVE page[writer] # "closed"
    BY <1>1, <1>2, <2>2 DEF Inv, TypeOK
  <2>3. QED
    BY <2>1, <2>2 DEF Inv, StoredIsLastCart
<1>11. QED
  BY <1>6, <1>7, <1>8, <1>9, <1>10 DEF Inv

\* The answer arrives.
LEMMA AnsweredStep == ASSUME Inv, NEW i \in Attempts, Answered(i) PROVE Inv'
<1>0. attempts[i] \in AttemptType /\ attempts[i].at = "answered"
  BY DEF Inv, TypeOK, Answered
<1>1. PICK ok \in {FALSE, attempts[i].placed} :
        /\ CartAnswered(i, ok) \/ FormAnswered(i, ok)
        /\ LET moved == attempts[i].from = "place" /\ ok IN
           attempts' = [(IF moved THEN Leaving(attempts[i].tab) ELSE attempts) EXCEPT ![i].at = "done"]
  BY DEF Answered
<1>2. ok \in BOOLEAN /\ (ok => attempts[i].placed) /\ UNCHANGED bounds
  BY <1>0, <1>1 DEF AttemptType, Answered
<1>3. CASE CartAnswered(i, ok)
  <2>1. attempts' = [attempts EXCEPT ![i].at = "done"]
    BY <1>1, <1>3 DEF CartAnswered
  <2>2. /\ attempts[i].from = "cart" /\ Finish(i, ok) /\ UNCHANGED page
        /\ IF ok THEN Put(attempts[i].tab, Empty) ELSE UNCHANGED cartVars
    BY <1>3 DEF CartAnswered
  <2>3. QED
    BY <1>0, <1>2, <2>1, <2>2, EndsStep
<1>4. CASE FormAnswered(i, ok) /\ ok
  BY <1>0, <1>1, <1>2, <1>4, MovedStep DEF FormAnswered
<1>5. CASE FormAnswered(i, ok) /\ ~ok
  <2>1. attempts' = [attempts EXCEPT ![i].at = "done"] /\ Finish(i, FALSE) /\ UNCHANGED <<page, cartVars>>
    BY <1>1, <1>5 DEF FormAnswered
  <2>2. QED
    BY <1>0, <1>2, <2>1, EndsStep
<1>6. QED
  BY <1>1, <1>2, <1>3, <1>4, <1>5

\* The form's products arrive.
LEMMA FormLoadedStep == ASSUME Inv, NEW t \in Tabs, FormLoaded(t) PROVE Inv'
<1>1. /\ page[t] = "loading" /\ page' = [page EXCEPT ![t] = "place"]
      /\ UNCHANGED <<busy, error, confirmed, lines, stored, writer, attempts, edits, visits>>
  BY DEF FormLoaded, cartVars, bounds
<1>2. page'[t] = "place" /\ \A s \in Tabs \ {t} : page'[s] = page[s]
  BY <1>1 DEF Inv, TypeOK
<1>3. TypeOK'
  BY <1>1 DEF Inv, TypeOK
<1>4. AttemptsInv'
  BY <1>1, <1>2 DEF Inv, AttemptsInv
<1>5. VisitInv'
  BY <1>1 DEF Inv, VisitInv
<1>6. ConfirmInv'
  BY <1>1, <1>2 DEF Inv, ConfirmInv
<1>7. StoredIsLastCart'
  BY <1>1, <1>2 DEF Inv, TypeOK, StoredIsLastCart
<1>8. QED
  BY <1>3, <1>4, <1>5, <1>6, <1>7 DEF Inv

\* The invariant behind the properties of the module.
LEMMA Invariant == Spec => []Inv
<1>1. Inv /\ UNCHANGED vars => Inv'
  <2> SUFFICES ASSUME Inv, UNCHANGED vars PROVE Inv'
    OBVIOUS
  <2>1. UNCHANGED <<page, busy, error, confirmed, lines, stored, writer, attempts, edits, visits>>
    BY DEF vars, pageVars, cartVars, bounds
  <2>2. TypeOK'
    BY <2>1 DEF Inv, TypeOK
  <2>3. QED
    BY <2>1, <2>2 DEF Inv, AttemptsInv, VisitInv, ConfirmInv, StoredIsLastCart
<1>2. Inv /\ [Next]_vars => Inv'
  BY <1>1, OpenStep, CloseStep, GoStep, EditStep, BeginStep, AvailabilityStep, PlaceStep, AnsweredStep, FormLoadedStep
     DEF Next
<1>3. QED
  BY <1>2, InitInv, PTL DEF Spec

----------------------------------------------------------------------------
(* The theorems.                                                           *)

\* CartPage's checkout and validateAvailability: what a cart page orders is not empty,
\* and every line was covered by the availability that was read after the click.
THEOREM WhatIsOrderedWasChecked == Spec => []OrderedAsChecked
<1>1. Inv => OrderedAsChecked
  BY DEF Inv, AttemptsInv, Sound, OrderedAsChecked
<1>2. QED
  BY <1>1, Invariant, PTL

\* CartContext's effect: the stored cart is the cart of the tab that changed its own
\* last, as long as that tab is open.
THEOREM LastCartIsStored == Spec => []StoredIsLastCart
<1>1. Inv => StoredIsLastCart
  BY DEF Inv
<1>2. QED
  BY <1>1, Invariant, PTL

\* The cart page's and the form's checkouts keep CheckoutInv: types, one checkout of a
\* page behind its disabled button, and confirmations of placed orders only.
THEOREM CheckoutsAreSound == Spec => []CheckoutInv
<1>1. Inv => OnePerVisit
  <2> SUFFICES ASSUME Inv, NEW t \in Tabs PROVE Cardinality(OfVisit(t)) <= 1 /\ (busy[t] <=> OfVisit(t) # {})
    BY DEF OnePerVisit
  <2>1. OfVisit(t) = {i \in Attempts : Own(attempts[i], t)}
    BY DEF OfVisit, InFlight, Own, Flying
  <2>2. CASE busy[t]
    <3>1. PICK i \in Attempts : OfVisit(t) = {i}
      BY <2>1, <2>2 DEF Inv, VisitInv
    <3>2. Cardinality(OfVisit(t)) = 1
      BY <3>1, FS_Singleton
    <3>3. QED
      BY <2>2, <3>1, <3>2
  <2>3. CASE ~busy[t]
    <3>1. OfVisit(t) = {}
      BY <2>1, <2>3 DEF Inv, VisitInv
    <3>2. Cardinality(OfVisit(t)) = 0
      BY <3>1, FS_EmptySet
    <3>3. QED
      BY <2>3, <3>1, <3>2
  <2>4. QED
    BY <2>2, <2>3
<1>2. Inv => CheckoutInv
  BY <1>1 DEF Inv, ConfirmInv, ConfirmedIsPlaced, CheckoutInv
<1>3. QED
  BY <1>2, Invariant, PTL

\* setLines([]) of the cart page, the one place that empties a cart at once: it takes
\* the answer that the order was placed.
THEOREM CartsAreKept == Spec => CartKept
<1> DEFINE Once(t) ==
      page[t] # "closed" /\ page'[t] # "closed" /\ lines[t] # Empty /\ lines'[t] = Empty =>
         \/ \E p \in Products : \A q \in Products \ {p} : lines[t][q] = 0
         \/ \E i \in Attempts : /\ attempts[i].tab = t /\ attempts[i].placed
                                /\ attempts[i].at = "answered" /\ attempts'[i].at = "done"
<1>1. ASSUME Inv, [Next]_vars, NEW t \in Tabs PROVE Once(t)
  <2> SUFFICES ASSUME page[t] # "closed", page'[t] # "closed", lines[t] # Empty, lines'[t] = Empty
               PROVE  \/ \E p \in Products : \A q \in Products \ {p} : lines[t][q] = 0
                      \/ \E i \in Attempts : /\ attempts[i].tab = t /\ attempts[i].placed
                                             /\ attempts[i].at = "answered" /\ attempts'[i].at = "done"
    OBVIOUS
  <2>0. lines \in [Tabs -> Cart] /\ lines[t] \in Cart /\ lines' # lines
    BY <1>1 DEF Inv, TypeOK
  <2>1. ASSUME NEW s \in Tabs, OpenTab(s) \/ CloseTab(s) PROVE FALSE
    <3>1. s = t => page[t] = "closed" \/ page'[t] = "closed"
      BY <1>1, <2>1 DEF OpenTab, CloseTab, Enter, Inv, TypeOK
    <3>2. s # t => lines'[t] = lines[t]
      BY <2>0, <2>1 DEF OpenTab, CloseTab
    <3>3. QED
      BY <3>1, <3>2
  <2>2. ASSUME NEW s \in Tabs, NEW p \in Products, NEW c, lines' = [lines EXCEPT ![s] = [@ EXCEPT ![p] = c]]
        PROVE  \A q \in Products \ {p} : lines[t][q] = 0
    BY <2>0, <2>2 DEF Cart, Empty
  <2>3. ASSUME NEW s \in Tabs, NEW p \in Products,
               Add(s, p) \/ Remove(s, p) \/ \E q \in 1..MaxQuantity : SetQuantity(s, p, q)
        PROVE  \E r \in Products : \A q \in Products \ {r} : lines[t][q] = 0
    BY <2>2, <2>3 DEF Add, Remove, SetQuantity, Put
  <2>4. ASSUME NEW i \in Attempts, Answered(i)
        PROVE  /\ attempts[i].tab = t /\ attempts[i].placed
               /\ attempts[i].at = "answered" /\ attempts'[i].at = "done"
    <3>1. PICK ok \in {FALSE, attempts[i].placed} :
            /\ CartAnswered(i, ok) \/ FormAnswered(i, ok)
            /\ LET moved == attempts[i].from = "place" /\ ok IN
               attempts' = [(IF moved THEN Leaving(attempts[i].tab) ELSE attempts) EXCEPT ![i].at = "done"]
      BY <2>4 DEF Answered
    <3>2. attempts[i].from = "cart" /\ ok /\ Put(attempts[i].tab, Empty)
      BY <2>0, <3>1 DEF CartAnswered, FormAnswered, cartVars
    <3>3. attempts' = [attempts EXCEPT ![i].at = "done"]
      BY <3>1, <3>2
    <3>4. attempts[i] \in AttemptType /\ attempts \in [Attempts -> AttemptType]
      BY <1>1 DEF Inv, TypeOK
    <3>5. attempts'[i].at = "done"
      BY <3>3, <3>4 DEF AttemptType
    <3>6. attempts[i].tab = t
      BY <2>0, <3>2 DEF Put
    <3>7. QED
      BY <2>4, <3>1, <3>2, <3>5, <3>6 DEF Answered
  <2>5. QED
    BY <1>1, <2>0, <2>1, <2>3, <2>4
       DEF Next, vars, cartVars, Go, Checkout, Submit, Start, FormLoaded, Availability, AvailabilityFails, Place
<1>2. Inv /\ [Next]_vars => [\A t \in Tabs : Once(t)]_vars
  BY <1>1
<1>3. QED
  BY <1>2, Invariant, PTL DEF Spec, CartKept

----------------------------------------------------------------------------
(* OrderKeys: the requests with one key.                                   *)

Replies == [code : Codes, order : Requests \cup {Absent}]

\* An answer has the code and the order it was made of.
LEMMA Answers ==
  ASSUME NEW code \in Codes, NEW o \in Requests \cup {Absent}
  PROVE  Answer(code, o) \in Replies /\ Answer(code, o).order = o
BY DEF Answer, Replies

\* What can be in the table, and the fields it has.
LEMMA RecordsOf ==
  /\ \A r \in Requests : InProgress(Body[r]) \in Records
  /\ \A rec \in Records : /\ rec.state \in {"IN_PROGRESS", "COMPLETED"}
                          /\ rec.orderId \in Requests \cup {Absent}
  /\ \A r \in Requests : InProgress(Body[r]) # Absent
BY KeysAssumption DEF InProgress, Records

\* Nothing was claimed or created yet.
LEMMA InitKeys == KeysInit => KeysInv
<1> SUFFICES ASSUME KeysInit PROVE KeysInv
  OBVIOUS
<1> USE DEF KeysInit
<1>1. KeysTypeOK
  BY KeysAssumption DEF KeysTypeOK, Silence, Answer, Codes
<1>2. NamedExists
  BY KeysAssumption DEF NamedExists, ReplyIsReal, Silence, Answer
<1>3. ClaimInv
  BY KeysAssumption DEF ClaimInv, OneOrder, BodyHonoured, Working, Silence, Answer
<1>4. OwnedInv
  BY DEF OwnedInv
<1>5. QED
  BY <1>1, <1>2, <1>3, <1>4 DEF KeysInv

\* Every step keeps the types.
LEMMA TypeKeys == KeysTypeOK /\ KeysNext => KeysTypeOK'
<1> SUFFICES ASSUME KeysTypeOK, KeysNext PROVE KeysTypeOK'
  OBVIOUS
<1> USE DEF KeysTypeOK, Goto, Fault, faultVars
<1>0. ASSUME NEW r \in Requests, NEW code \in Codes, NEW o \in Requests \cup {Absent},
             Reply(r, code, o)
      PROVE  /\ pc' = [pc EXCEPT ![r] = "done"]
             /\ reply' \in [Requests -> [code : Codes, order : Requests \cup {Absent}]]
  <2>1. Answer(code, o) \in Replies
    BY Answers
  <2>2. QED
    BY <1>0, <2>1 DEF Reply, Replies
<1>1. ASSUME NEW r \in Requests, Claim(r) PROVE KeysTypeOK'
  <2>1. record' \in Records \cup {Absent}
    BY <1>1, RecordsOf DEF Claim
  <2>2. QED
    BY <1>1, <2>1 DEF Claim
<1>2. ASSUME NEW r \in Requests, InspectMissing(r) PROVE KeysTypeOK'
  BY <1>2, KeysAssumption DEF InspectMissing
<1>3. ASSUME NEW r \in Requests, Inspect(r) PROVE KeysTypeOK'
  <2>1. record.orderId \in Requests \cup {Absent}
    BY <1>3, RecordsOf DEF Inspect
  <2>2. /\ pc' \in [Requests -> {"idle", "inspect", "replay", "price", "put", "complete",
                                 "release", "done"}]
        /\ found' \in [Requests -> Requests \cup {Absent}]
        /\ reply' \in [Requests -> [code : Codes, order : Requests \cup {Absent}]]
    BY <1>0, <1>3, <2>1 DEF Inspect, Codes
  <2>3. QED
    BY <1>3, <2>2 DEF Inspect
<1>4. ASSUME NEW r \in Requests, Replay(r) PROVE KeysTypeOK'
  <2>1. /\ pc' \in [Requests -> {"idle", "inspect", "replay", "price", "put", "complete",
                                 "release", "done"}]
        /\ reply' \in [Requests -> [code : Codes, order : Requests \cup {Absent}]]
    BY <1>0, <1>4 DEF Replay, Codes
  <2>2. faults' \in 0..MaxFaults /\ struck' \subseteq FaultKinds
    BY <1>4, KeysAssumption DEF Replay
  <2>3. QED
    BY <1>4, <2>1, <2>2 DEF Replay
<1>5. ASSUME NEW r \in Requests, Price(r) \/ PricingFails(r) PROVE KeysTypeOK'
  BY <1>5, KeysAssumption DEF Price, PricingFails
<1>6. ASSUME NEW r \in Requests, PutOrder(r) \/ PutFails(r) PROVE KeysTypeOK'
  <2>1. faults' \in 0..MaxFaults /\ struck' \subseteq FaultKinds
    BY <1>6, KeysAssumption DEF PutOrder, PutFails
  <2>2. QED
    BY <1>6, <2>1 DEF PutOrder, PutFails
<1>7. ASSUME NEW r \in Requests, Complete(r) PROVE KeysTypeOK'
  <2>1. record' \in Records
    BY <1>7 DEF Complete, Records
  <2>2. QED
    BY <1>0, <1>7, <2>1 DEF Complete, Codes
<1>8. ASSUME NEW r \in Requests, Release(r) \/ RecordFails(r) \/ Crash(r) PROVE KeysTypeOK'
  <2>1. /\ pc' \in [Requests -> {"idle", "inspect", "replay", "price", "put", "complete",
                                 "release", "done"}]
        /\ reply' \in [Requests -> [code : Codes, order : Requests \cup {Absent}]]
    BY <1>0, <1>8 DEF Release, RecordFails, Crash, Codes
  <2>2. faults' \in 0..MaxFaults /\ struck' \subseteq FaultKinds
    BY <1>8, KeysAssumption DEF Release, RecordFails, Crash
  <2>3. QED
    BY <1>8, <2>1, <2>2 DEF Release, RecordFails, Crash
<1>9. CASE Expire
  BY <1>9, KeysAssumption DEF Expire
<1>10. QED
  BY <1>1, <1>2, <1>3, <1>4, <1>5, <1>6, <1>7, <1>8, <1>9 DEF KeysNext, CreateOrder

\* What a step of r does to the labels, the orders to replay and the replies of
\* others: nothing.
LEMMA OthersStay ==
  ASSUME KeysTypeOK, NEW r \in Requests, CreateOrder(r), NEW q \in Requests, q # r
  PROVE  pc'[q] = pc[q] /\ found'[q] = found[q] /\ reply'[q] = reply[q]
BY DEF KeysTypeOK, CreateOrder, Claim, InspectMissing, Inspect, Replay, Price, PricingFails, PutOrder,
       PutFails, Complete, Release, RecordFails, Crash, Goto, Reply

\* An order is named only once it exists.
LEMMA NamedKeys == KeysTypeOK /\ NamedExists /\ KeysNext => NamedExists'
<1> SUFFICES ASSUME KeysTypeOK, NamedExists, KeysNext PROVE NamedExists'
  OBVIOUS
<1> USE KeysAssumption DEF NamedExists, ReplyIsReal, KeysTypeOK, Goto, Reply, Answer
<1>1. ASSUME NEW r \in Requests, Claim(r) PROVE NamedExists'
  BY <1>1 DEF Claim, InProgress
<1>2. ASSUME NEW r \in Requests, InspectMissing(r) PROVE NamedExists'
  BY <1>2 DEF InspectMissing
<1>3. ASSUME NEW r \in Requests, Inspect(r) PROVE NamedExists'
  BY <1>3 DEF Inspect, Records
<1>4. ASSUME NEW r \in Requests, Replay(r) PROVE NamedExists'
  <2>1. CASE found[r] \in orders /\ Reply(r, "200", found[r])
    BY <1>4, <2>1 DEF Replay
  <2>2. CASE Goto(r, "price") /\ UNCHANGED reply
    BY <1>4, <2>2 DEF Replay
  <2>3. QED
    BY <1>4, <2>1, <2>2 DEF Replay
<1>5. ASSUME NEW r \in Requests, Price(r) \/ PricingFails(r) PROVE NamedExists'
  BY <1>5 DEF Price, PricingFails
<1>6. ASSUME NEW r \in Requests, PutOrder(r) \/ PutFails(r) PROVE NamedExists'
  BY <1>6 DEF PutOrder, PutFails
<1>7. ASSUME NEW r \in Requests, Complete(r) PROVE NamedExists'
  BY <1>7 DEF Complete
<1>8. ASSUME NEW r \in Requests, Release(r) \/ RecordFails(r) \/ Crash(r) PROVE NamedExists'
  BY <1>8 DEF Release, RecordFails, Crash
<1>9. CASE Expire
  BY <1>9 DEF Expire
<1>10. QED
  BY <1>1, <1>2, <1>3, <1>4, <1>5, <1>6, <1>7, <1>8, <1>9 DEF KeysNext, CreateOrder

----------------------------------------------------------------------------
(* Exclusive claims.                                                       *)

\* In a step after which claims are still exclusive, these faults do not strike.
LEMMA NoLoss ==
  ASSUME Exclusive'
  PROVE  \A kind \in {"pricing", "put", "lost_reply", "stale_read", "expiry"} : ~ Fault(kind)
BY DEF Exclusive, Fault

\* What struck is never forgotten.
LEMMA StruckStays == KeysNext => struck \subseteq struck'
BY DEF KeysNext, CreateOrder, Claim, InspectMissing, Inspect, Replay, Price, PricingFails, PutOrder,
       PutFails, Complete, Release, RecordFails, Crash, Expire, Fault, faultVars

\* A step of the request at work, or of one that is not, keeps the claim.
LEMMA ClaimKeys ==
  ASSUME KeysTypeOK, NamedExists, ClaimInv, Exclusive', NEW r \in Requests, CreateOrder(r)
  PROVE  ClaimInv'
<1>1. CASE Claim(r)
  <2>1. CASE record = Absent
    <3>1. /\ \A q \in Requests : pc[q] = "idle"
          /\ record' = InProgress(Body[r]) /\ UNCHANGED <<orders, found, reply>>
          /\ \A q \in Requests : pc'[q] = IF q = r THEN "price" ELSE pc[q]
      BY <1>1, <2>1 DEF Claim, ClaimInv, Goto, KeysTypeOK
    <3>2. orders = {}
      BY <3>1 DEF NamedExists, KeysTypeOK
    <3>3. record' # Absent
      BY <3>1, RecordsOf
    <3>4. Working' = {r}
      BY <3>1 DEF Working
    <3>5. QED
      BY <3>1, <3>2, <3>3, <3>4 DEF ClaimInv, OneOrder, BodyHonoured
  <2>2. CASE record # Absent
    <3>1. /\ UNCHANGED <<record, orders, found, reply>>
          /\ \A q \in Requests : pc'[q] = IF q = r THEN "inspect" ELSE pc[q]
          /\ pc[r] = "idle"
      BY <1>1, <2>2 DEF Claim, Goto, KeysTypeOK
    <3>2. Working' = Working
      BY <3>1 DEF Working
    <3>3. \A q \in Working : pc'[q] = pc[q]
      BY <3>1 DEF Working
    <3>4. QED
      BY <2>2, <3>1, <3>2, <3>3 DEF ClaimInv, OneOrder, BodyHonoured
  <2>3. QED
    BY <2>1, <2>2
<1>2. CASE InspectMissing(r)
  BY <1>2, NoLoss DEF InspectMissing, ClaimInv
<1>3. CASE Inspect(r)
  <2>1. /\ UNCHANGED <<record, orders>> /\ record # Absent
        /\ \A q \in Requests : q # r => pc'[q] = pc[q]
        /\ pc[r] = "inspect" /\ pc'[r] \in {"done", "replay"}
    BY <1>3 DEF Inspect, Goto, Reply, KeysTypeOK
  <2>2. Working' = Working /\ \A q \in Working : pc'[q] = pc[q]
    BY <2>1 DEF Working
  <2>3. \A q \in Requests : reply'[q].order # Absent => reply'[q] = reply[q]
    BY <1>3, Answers DEF Inspect, Reply, KeysTypeOK, Codes
  <2>4. \A q \in Requests : found'[q] # Absent => Body[found'[q]] = Body[q]
    <3>1. CASE UNCHANGED found
      BY <3>1 DEF ClaimInv
    <3>2. CASE record.payloadHash = Body[r] /\ record.state = "COMPLETED"
               /\ found' = [found EXCEPT ![r] = record.orderId]
      <4>1. record.orderId \in orders
        BY <2>1, <3>2 DEF NamedExists
      <4>2. Body[record.orderId] = Body[r]
        BY <3>2, <4>1 DEF ClaimInv
      <4>3. QED
        BY <3>2, <4>2 DEF ClaimInv, KeysTypeOK
    <3>3. QED
      BY <1>3, <3>1, <3>2 DEF Inspect
  <2>5. QED
    BY <2>1, <2>2, <2>3, <2>4 DEF ClaimInv, OneOrder, BodyHonoured
<1>4. CASE Replay(r)
  <2>1. found[r] \in orders
    BY <1>4, NoLoss DEF Replay, NamedExists
  <2>2. pc[r] = "replay" /\ Reply(r, "200", found[r]) /\ UNCHANGED <<record, orders, found>>
    BY <1>4, <2>1, NoLoss DEF Replay
  <2>3. \A q \in Requests : pc'[q] = IF q = r THEN "done" ELSE pc[q]
    BY <2>2 DEF Reply, Goto, KeysTypeOK
  <2>4. Working' = Working /\ \A q \in Working : pc'[q] = pc[q]
    BY <2>2, <2>3 DEF Working
  <2>5. \A q \in Requests : reply'[q].order # Absent => Body[reply'[q].order] = Body[q]
    <3>1. reply'[r].order = found[r] /\ found[r] # Absent
      BY <2>1, <2>2, Answers, KeysAssumption DEF Reply, KeysTypeOK, Codes
    <3>2. \A q \in Requests : q # r => reply'[q] = reply[q]
      BY <2>2 DEF Reply, KeysTypeOK
    <3>3. QED
      BY <3>1, <3>2 DEF ClaimInv, BodyHonoured
  <2>6. record # Absent
    BY <2>2 DEF ClaimInv
  <2>7. QED
    BY <2>2, <2>4, <2>5, <2>6 DEF ClaimInv, OneOrder, BodyHonoured
<1>5. CASE Price(r)
  <2>1. /\ UNCHANGED <<record, orders, found, reply>> /\ pc[r] = "price"
        /\ \A q \in Requests : pc'[q] = IF q = r THEN "put" ELSE pc[q]
    BY <1>5 DEF Price, Goto, KeysTypeOK
  <2>2. Working' = Working /\ r \in Working
    BY <2>1 DEF Working
  <2>3. record # Absent /\ r \notin orders
    BY <2>1, <2>2 DEF ClaimInv
  <2>4. QED
    BY <2>1, <2>2, <2>3 DEF ClaimInv, OneOrder, BodyHonoured
<1>6. CASE PricingFails(r)
  BY <1>6, NoLoss DEF PricingFails
<1>7. CASE PutOrder(r)
  <2>1. /\ UNCHANGED <<record, found, reply>> /\ pc[r] = "put" /\ orders' = orders \cup {r}
        /\ \A q \in Requests : pc'[q] = IF q = r THEN "complete" ELSE pc[q]
    BY <1>7 DEF PutOrder, Goto, KeysTypeOK
  <2>2. Working' = Working /\ r \in Working
    BY <2>1 DEF Working
  <2>3. record = InProgress(Body[r]) /\ orders \subseteq {r} /\ Working = {r}
    BY <2>1, <2>2 DEF ClaimInv
  <2>4. record.payloadHash = Body[r]
    BY <2>3 DEF InProgress
  <2>5. record # Absent
    BY <2>1 DEF ClaimInv
  <2>6. orders' = {r}
    BY <2>1, <2>3
  <2>7. QED
    BY <2>1, <2>2, <2>3, <2>4, <2>5, <2>6 DEF ClaimInv, OneOrder, BodyHonoured
<1>8. CASE PutFails(r)
  BY <1>8, NoLoss DEF PutFails
<1>9. CASE Complete(r)
  <2>1. /\ UNCHANGED <<orders, found>> /\ pc[r] = "complete"
        /\ \A q \in Requests : pc'[q] = IF q = r THEN "done" ELSE pc[q]
    BY <1>9 DEF Complete, Reply, Goto, KeysTypeOK
  <2>2. r \in Working
    BY <2>1 DEF Working
  <2>3. Working = {r} /\ record # Absent
    BY <2>1, <2>2 DEF ClaimInv, Working
  <2>4. Working' = {}
    BY <2>1, <2>3 DEF Working
  <2>5. record' = [state |-> "COMPLETED", orderId |-> r, payloadHash |-> record.payloadHash]
    BY <1>9, <2>3 DEF Complete
  <2>6. record'.payloadHash = record.payloadHash /\ record'.orderId = r
    BY <2>5
  <2>7. record' # Absent
    <3>1. record.payloadHash = Body[r]
      BY <2>2 DEF ClaimInv, InProgress
    <3>2. record' \in Records
      BY <2>5, <3>1 DEF Records
    <3>3. Absent \notin Records
      BY KeysAssumption
    <3>4. QED
      BY <3>2, <3>3
  <2>8. \A q \in Requests : reply'[q].order # Absent => Body[reply'[q].order] = Body[q]
    <3>1. reply'[r].order = r
      BY <1>9, Answers DEF Complete, Reply, KeysTypeOK, Codes
    <3>2. \A q \in Requests : q # r => reply'[q] = reply[q]
      BY <1>9 DEF Complete, Reply, KeysTypeOK
    <3>3. QED
      BY <3>1, <3>2 DEF ClaimInv, BodyHonoured
  <2>9. QED
    BY <2>1, <2>4, <2>6, <2>7, <2>8 DEF ClaimInv, OneOrder, BodyHonoured
<1>10. CASE Release(r)
  BY <1>10 DEF Release, ClaimInv, Working
<1>11. CASE RecordFails(r) \/ Crash(r)
  <2>1. /\ UNCHANGED <<record, orders, found>> /\ pc[r] \notin {"idle", "done"}
        /\ \A q \in Requests : pc'[q] = IF q = r THEN "done" ELSE pc[q]
    BY <1>11 DEF RecordFails, Crash, Reply, Goto, KeysTypeOK
  <2>2. \A q \in Requests : reply'[q].order # Absent => reply'[q] = reply[q]
    BY <1>11, Answers DEF RecordFails, Crash, Reply, KeysTypeOK, Codes
  <2>3. record # Absent
    BY <2>1 DEF ClaimInv
  <2>4. Working' \subseteq Working /\ \A q \in Working' : pc'[q] = pc[q]
    BY <2>1 DEF Working
  <2>5. QED
    BY <2>1, <2>2, <2>3, <2>4 DEF ClaimInv, OneOrder, BodyHonoured
<1>12. QED
  BY <1>1, <1>2, <1>3, <1>4, <1>5, <1>6, <1>7, <1>8, <1>9, <1>10, <1>11 DEF CreateOrder

----------------------------------------------------------------------------
(* Tidy requests.                                                          *)

\* A claim that is not completed or released has its request, or another that
\* will complete or release it, at work.
LEMMA OwnedKeys ==
  ASSUME KeysTypeOK, OwnedInv, Tidy', NEW r \in Requests, CreateOrder(r)
  PROVE  OwnedInv'
<1>1. CASE Claim(r)
  <2>1. CASE record = Absent
    <3>1. pc'[r] = "price"
      BY <1>1, <2>1 DEF Claim, Goto, KeysTypeOK
    <3>2. QED
      BY <3>1 DEF OwnedInv, Working
  <2>2. CASE record # Absent
    BY <1>1, <2>2 DEF Claim, Goto, KeysTypeOK, OwnedInv, Working
  <2>3. QED
    BY <2>1, <2>2
<1>2. CASE InspectMissing(r) \/ Inspect(r) \/ Replay(r) \/ Price(r) \/ PricingFails(r)
           \/ PutOrder(r) \/ PutFails(r)
  <2>1. UNCHANGED record
    BY <1>2 DEF InspectMissing, Inspect, Replay, Price, PricingFails, PutOrder, PutFails
  <2>2. r \in Working => r \in Working'
    BY <1>2 DEF InspectMissing, Inspect, Replay, Price, PricingFails, PutOrder, PutFails, Goto,
                Reply, KeysTypeOK, Working
  <2>3. \A q \in Requests : q # r => pc'[q] = pc[q]
    BY <1>2, OthersStay
  <2>4. Working \subseteq Working'
    BY <2>2, <2>3 DEF Working
  <2>5. QED
    BY <2>1, <2>4 DEF OwnedInv
<1>3. CASE Complete(r)
  <2>1. record'.state = "COMPLETED"
    BY <1>3 DEF Complete
  <2>2. QED
    BY <2>1 DEF OwnedInv
<1>4. CASE Release(r)
  BY <1>4 DEF Release, OwnedInv
<1>5. CASE RecordFails(r) \/ Crash(r)
  BY <1>5 DEF RecordFails, Crash, Fault, Tidy
<1>6. QED
  BY <1>1, <1>2, <1>3, <1>4, <1>5 DEF CreateOrder

----------------------------------------------------------------------------
(* The invariant.                                                          *)

\* KeysInv holds in every reachable state, whatever faults are considered.
THEOREM KeysInvariant == KeysSpec => []KeysInv
<1>1. KeysInv /\ [KeysNext]_keysVars => KeysInv'
  <2> SUFFICES ASSUME KeysInv, [KeysNext]_keysVars PROVE KeysInv'
    OBVIOUS
  <2>1. CASE UNCHANGED keysVars
    BY <2>1 DEF keysVars, faultVars, KeysInv, KeysTypeOK, NamedExists, ReplyIsReal, ClaimInv,
                OneOrder, BodyHonoured, Working, OwnedInv, Exclusive, Tidy
  <2>2. CASE KeysNext
    <3>1. KeysTypeOK' /\ NamedExists'
      BY <2>2, TypeKeys, NamedKeys DEF KeysInv
    <3>2. (Exclusive' => Exclusive) /\ (Tidy' => Tidy)
      BY <2>2, StruckStays DEF Exclusive, Tidy
    <3>3. Exclusive' => ClaimInv'
      <4> SUFFICES ASSUME Exclusive' PROVE ClaimInv'
        OBVIOUS
      <4>1. PICK r \in Requests : CreateOrder(r)
        BY <2>2, NoLoss DEF KeysNext, Expire
      <4>2. QED
        BY <3>2, <4>1, ClaimKeys DEF KeysInv
    <3>4. Tidy' => OwnedInv'
      <4> SUFFICES ASSUME Tidy' PROVE OwnedInv'
        OBVIOUS
      <4>1. CASE Expire
        BY <4>1 DEF Expire, OwnedInv
      <4>2. ASSUME NEW r \in Requests, CreateOrder(r) PROVE OwnedInv'
        BY <3>2, <4>2, OwnedKeys DEF KeysInv
      <4>3. QED
        BY <2>2, <4>1, <4>2 DEF KeysNext
    <3>5. QED
      BY <3>1, <3>3, <3>4 DEF KeysInv
  <2>3. QED
    BY <2>1, <2>2
<1>2. QED
  BY <1>1, InitKeys, PTL DEF KeysSpec

\* Concurrent duplicates, retries and crashes make one order per key, and no
\* request is answered with another body's order, until a failure takes the
\* claim away from a request that goes on.
THEOREM OneOrderPerKey == KeysSpec => []ExclusiveSafe
<1>1. KeysInv => ExclusiveSafe
  BY DEF KeysInv, ClaimInv, ExclusiveSafe
<1>2. QED
  BY <1>1, KeysInvariant, PTL

\* A client is only ever told of orders that exist, whatever fails.
THEOREM RepliesAreReal == KeysSpec => []ReplyIsReal
<1>1. KeysInv => ReplyIsReal
  BY DEF KeysInv, NamedExists
<1>2. QED
  BY <1>1, KeysInvariant, PTL

\* Failed pricing, failed transactions, lost replies and stale reads leave no
\* claim behind that a retry would meet.
THEOREM ClaimsAreReleased == KeysSpec => []TidySafe
<1>1. KeysInv => TidySafe
  <2> SUFFICES ASSUME KeysInv, Tidy, \A r \in Requests : pc[r] \in {"idle", "done"},
                      record # Absent
               PROVE  record.state = "COMPLETED"
    BY DEF TidySafe, NoClaimLeft
  <2>1. Working = {}
    BY DEF Working
  <2>2. record.state # "IN_PROGRESS"
    BY <2>1 DEF KeysInv, OwnedInv
  <2>3. record.state \in {"IN_PROGRESS", "COMPLETED"}
    BY RecordsOf DEF KeysInv, KeysTypeOK
  <2>4. QED
    BY <2>2, <2>3
<1>2. QED
  BY <1>1, KeysInvariant, PTL

\* A completed record is final until a failure takes a claim away: whoever is
\* about to write the record still has its own unfinished claim in it.
THEOREM CompletedIsFinal == KeysSpec => CompletedStays
<1>1. KeysInv /\ [KeysNext]_keysVars =>
        [Exclusive' /\ record # Absent /\ record.state = "COMPLETED" => record' = record]_keysVars
  <2> SUFFICES ASSUME KeysInv, KeysNext, Exclusive', record # Absent, record.state = "COMPLETED"
               PROVE  record' = record
    OBVIOUS
  <2>1. PICK r \in Requests : CreateOrder(r)
    BY NoLoss DEF KeysNext, Expire
  <2>2. ClaimInv
    BY StruckStays DEF KeysInv, Exclusive
  <2>3. r \notin Working
    BY <2>2 DEF ClaimInv, InProgress
  <2>4. QED
    BY <2>1, <2>3 DEF CreateOrder, Claim, InspectMissing, Inspect, Replay, Price, PricingFails,
                      PutOrder, PutFails, Complete, Release, RecordFails, Crash, Working
<1>2. QED
  BY <1>1, KeysInvariant, PTL DEF KeysSpec, CompletedStays
=============================================================================
