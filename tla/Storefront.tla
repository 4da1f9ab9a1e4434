------------------------------ MODULE Storefront ------------------------------
(***************************************************************************)
(* The shop's front: the cart endpoints, the reviews and the merchants'    *)
(* writes at the same time, and clients that walk through the pages of     *)
(* GET /products and GET /products/{id}/reviews meanwhile.                 *)
(*                                                                         *)
(* A walk is one request here, from its first page to its last; the client *)
(* hands back the cursor of a page to get the next one.  A page is one     *)
(* SELECT.  Keys rank the rows in the order of the listing: the id of a    *)
(* product, and for reviews, newest first, the clock counted down.         *)
(***************************************************************************)
EXTENDS Cart, Reviews

CONSTANT Limit   \* rows on a page

ASSUME LimitAssumption == Limit \in Nat \ {0}

VARIABLES
  cursor,   \* the cursor of the last page r has got; 0 before the first
  page,     \* the keys on that page
  listed,   \* the keys on the pages before it
  steady    \* history: the rows that were there from the first page on

listVars == <<cursor, page, listed, steady>>
vars == <<product, pc, localVars, cartVars, withdrawn, reviewVars, listVars>>

ListPoints == {"products", "reviews"}
ProductKeys == {p \in Products : Visible(p)}
ReviewKeys(p) ==
  {Horizon - review[i].created : i \in {j \in Existing : review[j].product = p}}

\* What a walk of r goes through: item[r] is the product, or 0 for the catalogue.
KeysFor(p) == IF p = 0 THEN ProductKeys ELSE ReviewKeys(p)
Keys == Products \cup 1..Horizon

TypeOK ==
  /\ CatalogueTypeOK /\ CartTypeOK /\ ReviewsTypeOK
  /\ pc \in [Requests -> {"idle"} \cup Ended \cup EditPoints \cup CartPoints
                           \cup ReviewPoints \cup ListPoints]
  /\ cursor \in [Requests -> Keys \cup {0}]
  /\ page \in [Requests -> SUBSET Keys]
  /\ listed \in [Requests -> SUBSET Keys]
  /\ steady \in [Requests -> SUBSET Keys]

Init ==
  /\ CatalogueInit /\ CartInit /\ ReviewsInit
  /\ cursor = [r \in Requests |-> 0]
  /\ page = [r \in Requests |-> {}]
  /\ listed = [r \in Requests |-> {}]
  /\ steady = [r \in Requests |-> {}]

-----------------------------------------------------------------------------
(* Keyset pages *)

RestFrom(keys, after) == {k \in keys : k >= after}  \* Mutant: the cursor's own row again
Rest(keys, after) == {k \in keys : k > after}

\* ORDER BY key LIMIT Limit of the rest.
Before(rest, k) == {j \in rest : j < k}
FirstOf(rest) == {k \in rest : Cardinality(Before(rest, k)) < Limit}
PageOf(keys, after) == FirstOf(Rest(keys, after))

Greatest(ks) == CHOOSE k \in ks : \A j \in ks : j <= k

\* The cursor of a page that is not the last names its last row.
NextCursorBeyond(keys, after) ==  \* Mutant: the row after the page, read to see if there is one
  LET more == Rest(keys, after) \ PageOf(keys, after)
  IN CHOOSE k \in more : \A j \in more : k <= j
NextCursor(keys, after) == Greatest(PageOf(keys, after))

LastPage(keys, after) == Rest(keys, after) = PageOf(keys, after)

GetPage(r, p, to) ==
  LET keys == KeysFor(p)
  IN /\ page' = [page EXCEPT ![r] = PageOf(keys, cursor[r])]
     /\ listed' = [listed EXCEPT ![r] = @ \cup page[r]]
     /\ IF LastPage(keys, cursor[r])
        THEN Goto(r, "listed") /\ UNCHANGED cursor
        ELSE /\ Goto(r, to)
             /\ cursor' = [cursor EXCEPT ![r] = NextCursor(keys, cursor[r])]
     /\ UNCHANGED <<product, who, form, seen, cartVars, reviewVars>>

\* GET /products and /products/search, the first page and the next ones.
ListProducts(r) ==
  /\ \/ MayBegin(r) /\ steady' = [steady EXCEPT ![r] = ProductKeys]
     \/ pc[r] = "products" /\ UNCHANGED steady
  /\ GetPage(r, 0, "products")
  /\ UNCHANGED item

\* GET /products/{id}/reviews.
ListReviews(r, p) ==
  /\ \/ MayBegin(r) /\ steady' = [steady EXCEPT ![r] = ReviewKeys(p)]
     \/ pc[r] = "reviews" /\ item[r] = p /\ UNCHANGED steady
  /\ Visible(p)
  /\ item' = [item EXCEPT ![r] = p]
  /\ GetPage(r, p, "reviews")

\* The product is not to be seen any more: 404 in the middle of the walk.
LoseListing(r) ==
  /\ pc[r] = "reviews" /\ ~Visible(item[r])
  /\ Answer(r, "refused")
  /\ cursor' = [cursor EXCEPT ![r] = 0]
  /\ page' = [page EXCEPT ![r] = {}]
  /\ listed' = [listed EXCEPT ![r] = {}]
  /\ steady' = [steady EXCEPT ![r] = {}]
  /\ UNCHANGED <<product, cartVars, reviewVars>>

-----------------------------------------------------------------------------
\* The process dies.  "crashed" is the end of a handler that died before its EXPIRE.
Crash(r) ==
  /\ r \in Busy /\ pc[r] \notin ListPoints
  /\ Goto(r, IF pc[r] = "expire" THEN "crashed" ELSE "failed")
  /\ alone' = alone \ {r}
  /\ UNCHANGED <<product, localVars, cart, armed, amount, raw, stale, expected,
                 reviewVars, listVars>>

\* What a write takes out of a listing is not steady.
KeepSteady ==
  /\ steady' = [r \in Requests |-> steady[r] \cap KeysFor(item[r])']
  /\ UNCHANGED <<cursor, page, listed>>

ListStep(r) ==
  ListProducts(r) \/ LoseListing(r) \/ \E p \in Products : ListReviews(r, p)

\* Nothing is under way, and nobody has to begin anything.
Idle == Busy = {} /\ UNCHANGED vars

Work ==
  /\ \E r \in Requests :
       \/ /\ CatalogueBegin(r) \/ CatalogueStep(r)
          /\ UNCHANGED <<cartVars, reviewVars>> /\ KeepSteady
       \/ /\ CartBegin(r) \/ CartStep(r)
          /\ UNCHANGED <<reviewVars, listVars>>
       \/ /\ ReviewBegin(r) \/ ReviewStep(r)
          /\ UNCHANGED cartVars /\ KeepSteady
       \/ ListStep(r) \/ Crash(r)
  /\ withdrawn' = withdrawn \cup {p \in Products : ~Visible(p)'}

Next == Work \/ Idle

Spec == Init /\ [][Next]_vars

-----------------------------------------------------------------------------
(* Properties of the listings *)

\* A walk to the last page has shown every row that was there all the while, whatever
\* was inserted, withdrawn and deleted between two pages (_paginate_by_id, list_reviews).
WalkMissesNothing ==
  \A r \in Requests : pc[r] = "listed" => steady[r] \subseteq listed[r] \cup page[r]

\* No row is on two pages of a walk, even one that was withdrawn and put back.
WalkRepeatsNothing == \A r \in Requests : listed[r] \cap page[r] = {}
=============================================================================
