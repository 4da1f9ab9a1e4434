--------------------------- MODULE StorefrontProofs ---------------------------
(***************************************************************************)
(* Proofs about Storefront, for any products, customers, requests and page *)
(* size.  AInv is what is known of a handler at each of its points, CInv   *)
(* what the cart requests that run by themselves rely on, WInv what a walk *)
(* through the pages has shown; each is inductive on top of the ones       *)
(* before it.                                                              *)
(***************************************************************************)
EXTENDS Storefront, FiniteSetTheorems, TLAPS

-----------------------------------------------------------------------------
(* Keyset pages *)

\* A set of natural numbers that is not empty has a least member ...
LEMMA LeastExists ==
  ASSUME NEW S \in SUBSET Nat, S # {}
  PROVE  \E k \in S : \A j \in S : k <= j
<1> DEFINE Below == {ss \in Nat \X Nat : ss[1] < ss[2]}
<1>1. IsWellFoundedOn(Below, Nat)
  BY NatLessThanWellFounded, Zenon DEF OpToRel
<1>2. PICK k \in S : \A j \in S : <<j, k>> \notin Below
  BY <1>1, WFMin, Zenon
<1>3. \A j \in S : ~(j < k)
  BY <1>2
<1> QED
  BY <1>3

\* ... and a finite one a greatest: otherwise take the smallest set without.
LEMMA GreatestExists ==
  ASSUME NEW S \in SUBSET Nat, IsFiniteSet(S), S # {}
  PROVE  \E k \in S : \A j \in S : j <= k
<1> DEFINE Bad == {T \in SUBSET S : T # {} /\ \A k \in T : \E j \in T : j > k}
           Sizes == {Cardinality(T) : T \in Bad}
<1> SUFFICES ASSUME S \in Bad PROVE FALSE
  OBVIOUS
<1>1. Sizes \in SUBSET Nat /\ Sizes # {}
  <2>1. \A T \in SUBSET S : Cardinality(T) \in Nat
    BY FS_Subset, FS_CardinalityType
  <2> QED
    BY <2>1
<1>2. PICK n \in Sizes : \A m \in Sizes : n <= m
  <2> HIDE DEF Sizes
  <2> QED
    BY <1>1, LeastExists
<1>3. PICK T \in Bad : Cardinality(T) = n
  BY <1>2
<1>4. PICK k \in T : TRUE
  BY <1>3
<1> DEFINE U == T \ {k}
<1>5. Cardinality(U) = Cardinality(T) - 1 /\ Cardinality(T) \in Nat
  <2>1. IsFiniteSet(T)
    BY <1>3, FS_Subset
  <2> QED
    BY <1>4, <2>1, FS_RemoveElement, FS_CardinalityType
<1>6. U \notin Bad
  <2> SUFFICES ASSUME U \in Bad PROVE FALSE
    OBVIOUS
  <2>1. n <= Cardinality(U)
    BY <1>2
  <2> QED
    BY <1>3, <1>5, <2>1
<1>7. \E i \in T : i > k
  BY <1>3, <1>4
<1>8. PICK i \in U : \A j \in U : j <= i
  BY <1>3, <1>4, <1>6, <1>7
<1>9. PICK j \in T : j > i
  BY <1>3, <1>8
<1>10. j = k
  BY <1>3, <1>8, <1>9
<1>11. PICK l \in T : l > k
  BY <1>7
<1> QED
  BY <1>3, <1>4, <1>8, <1>9, <1>10, <1>11

\* The first rows of what is left: any row before one of them is one of them, and
\* there is one if anything is left.
LEMMA FirstRows ==
  ASSUME NEW rest \in SUBSET Nat, IsFiniteSet(rest)
  PROVE  /\ FirstOf(rest) \subseteq rest
         /\ \A k \in FirstOf(rest), j \in rest : j < k => j \in FirstOf(rest)
         /\ rest # {} => FirstOf(rest) # {}
<1>1. FirstOf(rest) \subseteq rest
  BY DEF FirstOf
<1>2. ASSUME NEW k \in FirstOf(rest), NEW j \in rest, j < k PROVE j \in FirstOf(rest)
  <2> DEFINE A == Before(rest, j)
             B == Before(rest, k)
  <2>1. A \subseteq B /\ A \in SUBSET rest /\ B \in SUBSET rest
    <3>1. j \in Nat /\ k \in Nat
      BY <1>1
    <3>2. \A i \in Nat : i < j => i < k
      BY <1>2, <3>1
    <3> QED
      BY <3>2 DEF Before
  <2>2. IsFiniteSet(B) /\ IsFiniteSet(A)
    BY <2>1, FS_Subset
  <2>3. Cardinality(A) <= Cardinality(B)
    BY <2>1, <2>2, FS_Subset
  <2>4. Cardinality(A) \in Nat /\ Cardinality(B) \in Nat /\ Cardinality(B) < Limit
    BY <2>2, FS_CardinalityType DEF FirstOf
  <2> QED
    BY <2>3, <2>4, LimitAssumption DEF FirstOf
<1>3. ASSUME rest # {} PROVE FirstOf(rest) # {}
  <2>1. PICK k \in rest : \A j \in rest : k <= j
    BY <1>3, LeastExists
  <2>2. Before(rest, k) = {}
    <3>1. \A j \in rest : ~(j < k)
      BY <2>1
    <3> QED
      BY <3>1 DEF Before
  <2>3. Cardinality(Before(rest, k)) = 0
    BY <2>2, FS_EmptySet
  <2> QED
    BY <2>1, <2>3, LimitAssumption DEF FirstOf
<1> QED
  BY <1>1, <1>2, <1>3

\* A page holds the keys after its cursor up to the next one, and if there is no next
\* one then all of them.
LEMMA PageHolds ==
  ASSUME NEW keys \in SUBSET Nat, IsFiniteSet(keys), NEW after \in Nat
  PROVE  /\ PageOf(keys, after) \in SUBSET keys
         /\ \A k \in PageOf(keys, after) : k > after
         /\ LastPage(keys, after) => \A k \in keys : k > after => k \in PageOf(keys, after)
         /\ ~LastPage(keys, after) =>
              /\ NextCursor(keys, after) \in keys
              /\ NextCursor(keys, after) > after
              /\ \A k \in PageOf(keys, after) : k <= NextCursor(keys, after)
              /\ \A k \in keys : k > after /\ k <= NextCursor(keys, after)
                                   => k \in PageOf(keys, after)
<1> DEFINE rest == Rest(keys, after)
           shown == PageOf(keys, after)
<1>1. rest \in SUBSET Nat /\ rest \subseteq keys /\ IsFiniteSet(rest)
  BY FS_Subset DEF Rest
<1>2. /\ shown \subseteq rest
      /\ \A k \in shown, j \in rest : j < k => j \in shown
      /\ rest # {} => shown # {}
  BY <1>1, FirstRows DEF PageOf
<1>3. \A k \in shown : k \in keys /\ k > after
  BY <1>2 DEF Rest
<1>4. LastPage(keys, after) => \A k \in keys : k > after => k \in shown
  BY DEF LastPage, Rest
<1>5. ASSUME ~LastPage(keys, after)
      PROVE  LET n == NextCursor(keys, after)
             IN  n \in shown /\ \A k \in shown : k <= n
  <2>1. shown # {} /\ IsFiniteSet(shown) /\ shown \in SUBSET Nat
    BY <1>1, <1>2, <1>5, FS_Subset DEF LastPage
  <2>2. \E k \in shown : \A j \in shown : j <= k
    <3> HIDE DEF shown
    <3> QED
      BY <2>1, GreatestExists
  <2> QED
    BY <2>2 DEF NextCursor, Greatest
<1>6. ASSUME ~LastPage(keys, after), NEW k \in keys, k > after, k <= NextCursor(keys, after)
      PROVE  k \in shown
  <2>1. k \in rest
    BY <1>6 DEF Rest
  <2>2. NextCursor(keys, after) \in shown
    BY <1>5, <1>6
  <2>3. NextCursor(keys, after) \in Nat
    BY <1>1, <1>2, <2>2
  <2> QED
    BY <1>2, <1>6, <2>1, <2>2, <2>3
<1> QED
  BY <1>3, <1>4, <1>5, <1>6

-----------------------------------------------------------------------------
(* The rows, and the locals that every handler has *)

Points == {"idle"} \cup Ended \cup EditPoints \cup CartPoints \cup ReviewPoints \cup ListPoints

\* What a handler has in hand, by the point it stands at.
InHand(r) ==
  /\ pc[r] = "idle" => item[r] = 0
  /\ pc[r] \in EditPoints => item[r] \in Products /\ product[item[r]] # NoRow /\ seen[r] # NoRow
  /\ pc[r] \in CartPoints \cup {"crashed", "look", "insert"} => who[r] \in Customers
  /\ pc[r] \in {"hget", "fields", "hset", "look", "insert", "reviews"} => item[r] \in Products
  /\ pc[r] = "hget" => seen[r] # NoRow
  /\ pc[r] = "products" => item[r] = 0

AInv == CatalogueTypeOK /\ pc \in [Requests -> Points] /\ \A r \in Requests : InHand(r)

\* No write takes a row away.
RowsStay ==
  /\ product' \in [Products -> ProductRow \cup {NoRow}]
  /\ \A p \in Products : product[p] # NoRow => product'[p] # NoRow

LEMMA SameRows == AInv /\ UNCHANGED product => RowsStay
BY DEF AInv, CatalogueTypeOK, RowsStay

\* A step of one handler leaves the others what they have.
LEMMA OneHand ==
  ASSUME AInv, NEW r \in Requests, RowsStay, CatalogueTypeOK', pc' \in [Requests -> Points],
         \A q \in Requests \ {r} : /\ pc'[q] = pc[q] /\ who'[q] = who[q]
                                   /\ item'[q] = item[q] /\ seen'[q] = seen[q],
         InHand(r)'
  PROVE  AInv'
<1>1. ASSUME NEW q \in Requests \ {r} PROVE InHand(q)'
  BY DEF AInv, InHand, RowsStay
<1> QED
  BY <1>1 DEF AInv

\* A handler answers.
LEMMA AnswerHand ==
  ASSUME AInv, NEW r \in Requests, NEW how \in {"done", "refused", "failed"},
         Answer(r, how), RowsStay
  PROVE  AInv'
<1> USE DEF AInv, CatalogueTypeOK, Answer, Goto
<1>1. CatalogueTypeOK'
  BY DEF NoForm, ProductForm, RowsStay
<1>2. pc' \in [Requests -> Points]
  BY DEF Points, Ended
<1>3. InHand(r)'
  BY DEF InHand, EditPoints, CartPoints
<1> QED
  BY <1>1, <1>2, <1>3, OneHand

\* A handler goes on with what it has, which is what it needs there.
LEMMA ProceedHand ==
  ASSUME AInv, NEW r \in Requests, NEW to \in Points \ {"idle", "hget", "products"},
         Proceed(r, to), RowsStay, to \notin EditPoints,
         to \in CartPoints \cup {"crashed", "look", "insert"} => who[r] \in Customers,
         to \in {"fields", "hset", "look", "insert", "reviews"} => item[r] \in Products
  PROVE  AInv'
<1> USE DEF AInv, CatalogueTypeOK, Proceed, Goto, localVars
<1>1. CatalogueTypeOK' /\ pc' \in [Requests -> Points]
  BY DEF RowsStay
<1>2. InHand(r)'
  BY DEF InHand
<1> QED
  BY <1>1, <1>2, OneHand

\* A cart request begins.
LEMMA EnterHand ==
  ASSUME AInv, NEW r \in Requests, NEW c \in Customers, NEW p \in Products \cup {0},
         NEW to \in CartPoints, Enter(r, c, p, to),
         seen' \in [Requests -> ProductRow \cup {NoRow}],
         \A q \in Requests \ {r} : seen'[q] = seen[q],
         to \in {"hget", "fields"} => p \in Products, to # "hset",
         to = "hget" => seen'[r] # NoRow
  PROVE  AInv'
<1> USE DEF AInv, CatalogueTypeOK, Enter, Goto
<1>1. CatalogueTypeOK'
  OBVIOUS
<1>2. pc' \in [Requests -> Points]
  BY DEF Points
<1>3. InHand(r)'
  BY DEF InHand, EditPoints, CartPoints
<1> QED
  BY <1>1, <1>2, <1>3, OneHand, SameRows

LEMMA EditRows ==
  ASSUME AInv, NEW r \in Requests, CommitEdit(r) \/ CommitWithdrawal(r)
  PROVE  RowsStay
<1> USE DEF AInv, CatalogueTypeOK, InHand
<1>1. /\ product[item[r]] \in ProductRow /\ item[r] \in Products
      /\ seen[r] \in ProductRow \cup {NoRow} /\ form[r] \in ProductForm
  BY DEF CommitEdit, CommitWithdrawal, EditPoints
<1>2. CASE CommitEdit(r)
  <2>1. seen[r] \in ProductRow
    BY <1>2 DEF CommitEdit, EditPoints
  <2> QED
    BY <1>1, <1>2, <2>1, NothingAssumption
       DEF CommitEdit, RowsStay, Column, ProductForm, ProductRow
<1>3. CASE CommitWithdrawal(r)
  BY <1>1, <1>3, NothingAssumption DEF CommitWithdrawal, RowsStay, ProductRow
<1> QED
  BY <1>2, <1>3

LEMMA CatalogueHand ==
  ASSUME AInv, NEW r \in Requests, CatalogueBegin(r) \/ CatalogueStep(r)
  PROVE  AInv'
<1> USE DEF AInv, CatalogueTypeOK, InHand
<1>1. ASSUME NEW p \in Products, NEW f \in ProductForms, CreateProduct(r, p, f) PROVE AInv'
  <2>1. RowsStay
    BY <1>1, FormsAssumption, NothingAssumption
       DEF CreateProduct, RowsStay, ProductForm, ProductRow
  <2> QED
    BY <1>1, <2>1, ProceedHand DEF CreateProduct, Points, Ended, EditPoints, CartPoints
<1>2. ASSUME NEW p \in Products, NEW f \in ProductForm, NEW to \in EditPoints,
             LoadOwned(r, p, f, to)
      PROVE  AInv'
  <2>1. CatalogueTypeOK' /\ pc' \in [Requests -> Points]
    BY <1>2 DEF LoadOwned, Goto, Points
  <2>2. InHand(r)'
    BY <1>2 DEF LoadOwned, Goto, EditPoints, CartPoints
  <2> QED
    BY <1>2, <2>1, <2>2, OneHand, SameRows DEF LoadOwned, Goto
<1>3. ASSUME CommitEdit(r) PROVE AInv'
  BY <1>3, EditRows, AnswerHand DEF CommitEdit
<1>4. ASSUME CommitWithdrawal(r) PROVE AInv'
  BY <1>4, EditRows, AnswerHand DEF CommitWithdrawal
<1>5. ProductForms \subseteq ProductForm /\ NoForm \in ProductForm
  BY FormsAssumption DEF NoForm, ProductForm
<1> QED
  BY <1>1, <1>2, <1>3, <1>4, <1>5 DEF CatalogueBegin, CatalogueStep, EditPoints

LEMMA CartHand ==
  ASSUME AInv, NEW r \in Requests, CartBegin(r) \/ CartStep(r)
  PROVE  AInv'
<1> USE DEF AInv, CatalogueTypeOK, InHand, KeepLocals
<1>1. \A p \in Products : Visible(p) => product[p] # NoRow
  BY DEF Visible
<1>2. ASSUME NEW c \in Customers, ViewCart(r, c) \/ ClearCart(r, c) PROVE AInv'
  <2>1. CASE ViewCart(r, c)
    BY <2>1, EnterHand DEF ViewCart, CartPoints
  <2>2. CASE ClearCart(r, c)
    BY <2>2, ProceedHand, SameRows DEF ClearCart, Points, Ended, EditPoints, CartPoints
  <2> QED
    BY <1>2, <2>1, <2>2
<1>3. ASSUME NEW c \in Customers, NEW p \in Products, RemoveLine(r, c, p) PROVE AInv'
  BY <1>3, EnterHand DEF RemoveLine, CartPoints
<1>4. ASSUME NEW c \in Customers, NEW p \in Products, NEW n \in Amounts, LoadForAdd(r, c, p, n)
      PROVE  AInv'
  BY <1>1, <1>4, EnterHand DEF LoadForAdd, CartPoints
<1>5. ASSUME NEW c \in Customers, NEW p \in Products, NEW n \in Amounts, LineExists(r, c, p, n)
      PROVE  AInv'
  BY <1>5, EnterHand DEF LineExists, CartPoints
<1>6. ASSUME NEW how \in {"done", "refused"}, CartAnswer(r, how) PROVE AInv'
  BY <1>6, AnswerHand, SameRows DEF CartAnswer
<1>7. ASSUME NEW to \in CartPoints \ {"hget"}, Proceed(r, to), UNCHANGED product,
             pc[r] \in CartPoints, pc[r] \in {"hget", "fields", "hset"} \/ to # "hset", to # "fields"
      PROVE  AInv'
  BY <1>7, ProceedHand, SameRows DEF Points, CartPoints, EditPoints
<1>8. ASSUME ReadLine(r) PROVE AInv'
  BY <1>6, <1>7, <1>8 DEF ReadLine, CartPoints
<1>9. ASSUME LoadForUpdate(r) PROVE AInv'
  BY <1>6, <1>7, <1>9 DEF LoadForUpdate, CartPoints
<1>10. ASSUME WriteLine(r) \/ ArmCart(r) PROVE AInv'
  BY <1>7, <1>10 DEF WriteLine, ArmCart, CartPoints
<1>11. ASSUME ReadCart(r) \/ SelectLines(r) PROVE AInv'
  BY <1>6, <1>7, <1>11 DEF ReadCart, SelectLines, CartPoints
<1>12. ASSUME Prune(r) PROVE AInv'
  BY <1>6, <1>12 DEF Prune
<1> QED
  BY <1>2, <1>3, <1>4, <1>5, <1>8, <1>9, <1>10, <1>11, <1>12 DEF CartBegin, CartStep

LEMMA ReviewHand ==
  ASSUME AInv, NEW r \in Requests, ReviewBegin(r) \/ ReviewStep(r)
  PROVE  AInv'
<1> USE DEF AInv, CatalogueTypeOK, InHand
<1>1. ASSUME NEW how \in {"done", "refused", "failed"}, ReviewAnswer(r, how) PROVE AInv'
  BY <1>1, AnswerHand, SameRows DEF ReviewAnswer
<1>2. ASSUME NEW c \in Customers, NEW p \in Products, BeginReview(r, c, p) PROVE AInv'
  <2>1. CatalogueTypeOK' /\ pc' \in [Requests -> Points]
    BY <1>2 DEF BeginReview, Goto, Points, ReviewPoints
  <2>2. InHand(r)'
    BY <1>2 DEF BeginReview, Goto, EditPoints, CartPoints
  <2> QED
    BY <1>2, <2>1, <2>2, OneHand, SameRows DEF BeginReview, Goto
<1>3. ASSUME NEW i \in ReviewIds, NEW f, NEW to \in {"erase", "revise"}, LoadReview(r, i, f, to)
      PROVE  AInv'
  BY <1>3, ProceedHand, SameRows
     DEF LoadReview, Points, ReviewPoints, EditPoints, CartPoints
<1>4. ASSUME LookForReview(r) PROVE AInv'
  <2>1. CASE OfPair(item[r], who[r]) = {}
    BY <1>4, <2>1, ProceedHand, SameRows
       DEF LookForReview, Points, ReviewPoints, EditPoints, CartPoints
  <2>2. CASE OfPair(item[r], who[r]) # {}
    BY <1>1, <1>4, <2>2 DEF LookForReview
  <2> QED
    BY <2>1, <2>2
<1>5. ASSUME InsertReview(r) \/ ViolatePair(r) \/ CommitRevision(r) \/ LoseReview(r) \/ EraseReview(r)
      PROVE  AInv'
  BY <1>1, <1>5 DEF InsertReview, ViolatePair, CommitRevision, LoseReview, EraseReview
<1> QED
  BY <1>2, <1>3, <1>4, <1>5 DEF ReviewBegin, ReviewStep

LEMMA ListHand ==
  ASSUME AInv, NEW r \in Requests, ListStep(r) \/ Crash(r)
  PROVE  AInv'
<1> USE DEF AInv, CatalogueTypeOK, InHand
<1>1. ASSUME ListProducts(r) PROVE AInv'
  <2>1. pc'[r] \in {"products", "listed"} /\ item[r] = 0
    BY <1>1 DEF ListProducts, GetPage, Goto, MayBegin
  <2>2. CatalogueTypeOK' /\ pc' \in [Requests -> Points]
    BY <1>1 DEF ListProducts, GetPage, Goto, Points, ListPoints, Ended
  <2>3. InHand(r)'
    BY <1>1, <2>1 DEF ListProducts, EditPoints, CartPoints
  <2> QED
    BY <1>1, <2>2, <2>3, OneHand, SameRows DEF ListProducts, GetPage, Goto
<1>2. ASSUME NEW p \in Products, ListReviews(r, p) PROVE AInv'
  <2>1. pc'[r] \in {"reviews", "listed"} /\ item'[r] = p
    BY <1>2 DEF ListReviews, GetPage, Goto
  <2>2. CatalogueTypeOK' /\ pc' \in [Requests -> Points]
    BY <1>2 DEF ListReviews, GetPage, Goto, Points, ListPoints, Ended
  <2>3. InHand(r)'
    BY <1>2, <2>1 DEF EditPoints, CartPoints
  <2> QED
    BY <1>2, <2>2, <2>3, OneHand, SameRows DEF ListReviews, GetPage, Goto
<1>3. ASSUME LoseListing(r) PROVE AInv'
  BY <1>3, AnswerHand, SameRows DEF LoseListing
<1>4. ASSUME Crash(r) PROVE AInv'
  <2>1. CASE pc[r] = "expire"
    BY <1>4, <2>1, ProceedHand, SameRows
       DEF Crash, Proceed, Points, Ended, EditPoints, CartPoints
  <2>2. CASE pc[r] # "expire"
    BY <1>4, <2>2, ProceedHand, SameRows
       DEF Crash, Proceed, Points, Ended, EditPoints, CartPoints
  <2> QED
    BY <2>1, <2>2
<1> QED
  BY <1>1, <1>2, <1>3, <1>4 DEF ListStep

LEMMA NextHand == AInv /\ [Next]_vars => AInv'
<1>1. ASSUME AInv, UNCHANGED vars PROVE AInv'
  BY <1>1 DEF AInv, CatalogueTypeOK, InHand, vars, localVars
<1> QED
  BY <1>1, CatalogueHand, CartHand, ReviewHand, ListHand DEF Next, Work, Idle

LEMMA InitHand == Init => AInv
BY ShelvedAssumption DEF Init, CatalogueInit, AInv, CatalogueTypeOK, InHand, Points,
   EditPoints, CartPoints, NoForm, ProductForm

-----------------------------------------------------------------------------
(* The cart *)

LEMMA StoreTypes ==
  ASSUME CartTypeOK, NEW c \in Customers, NEW lines \in [Products -> Nat], Store(c, lines)
  PROVE  cart' \in [Customers -> [Products -> Nat]] /\ armed' \subseteq Customers
BY DEF CartTypeOK, Store

\* Only handlers that are before their EXPIRE, or died there, leave a key without a TTL.
LEMMA StoreArmed ==
  ASSUME AInv, CartTypeOK, CartsExpire, NEW r \in Requests, NEW c \in Customers,
         NEW lines \in [Products -> Nat], Store(c, lines),
         Fields(lines) # {} => Fields(cart[c]) # {} \/ (pc'[r] = "expire" /\ who'[r] = c),
         pc[r] \notin {"expire", "crashed"},
         \A q \in Requests \ {r} : pc'[q] = pc[q] /\ who'[q] = who[q]
  PROVE  CartsExpire'
<1> SUFFICES ASSUME NEW d \in Customers, Fields(cart[d])' # {}, d \notin armed'
             PROVE  \E q \in Requests : who'[q] = d /\ pc'[q] \in {"expire", "crashed"}
  BY DEF CartsExpire
<1>1. CASE d = c
  <2>1. cart'[d] = lines /\ Fields(cart[d])' = Fields(lines)
    BY <1>1 DEF Store, CartTypeOK, Fields
  <2>2. CASE Fields(cart[c]) = {}
    BY <1>1, <2>1, <2>2
  <2>3. CASE Fields(cart[c]) # {}
    BY <1>1, <2>1, <2>3 DEF Store, CartsExpire
  <2> QED
    BY <2>2, <2>3
<1>2. CASE d # c
  <2>1. cart'[d] = cart[d] /\ (d \in armed' <=> d \in armed)
    BY <1>2 DEF Store, CartTypeOK
  <2>2. Fields(cart[d])' = Fields(cart[d])
    BY <2>1 DEF Fields
  <2> QED
    BY <2>1, <2>2 DEF CartsExpire
<1> QED
  BY <1>1, <1>2

\* A handler that does not stand at its EXPIRE, and does not touch the key.
LEMMA OtherArmed ==
  ASSUME CartsExpire, NEW r \in Requests, UNCHANGED <<cart, armed>>,
         pc[r] \notin {"expire", "crashed"} \/ (pc'[r] = "crashed" /\ who'[r] = who[r]),
         \A q \in Requests \ {r} : pc'[q] = pc[q] /\ who'[q] = who[q]
  PROVE  CartsExpire'
BY DEF CartsExpire, Fields

CInv == CartTypeOK /\ CartsExpire

LEMMA CartKeeps ==
  ASSUME AInv, CInv, NEW r \in Requests, CartBegin(r) \/ CartStep(r),
         withdrawn' \in SUBSET Products
  PROVE  CInv'
<1> USE DEF CInv, CartTypeOK
<1>1. ASSUME NEW c \in Customers, NEW p \in Products \cup {0}, NEW to, Enter(r, c, p, to)
      PROVE  /\ raw' \in [Requests -> SUBSET Products] /\ stale' \in [Requests -> SUBSET Products]
             /\ alone' \subseteq Requests /\ pc[r] \notin {"expire", "crashed"}
             /\ \A q \in Requests \ {r} : pc'[q] = pc[q] /\ who'[q] = who[q]
  BY <1>1 DEF Enter, MayBegin, Goto, AInv, CatalogueTypeOK
<1>2. ASSUME NEW how, CartAnswer(r, how)
      PROVE  /\ amount' \in [Requests -> Nat] /\ raw' \in [Requests -> SUBSET Products]
             /\ stale' \in [Requests -> SUBSET Products] /\ alone' \subseteq Requests
             /\ expected' \in [Requests -> Nat]
             /\ \A q \in Requests \ {r} : pc'[q] = pc[q] /\ who'[q] = who[q]
  BY <1>2 DEF CartAnswer, Answer, Goto, AInv, CatalogueTypeOK
<1>3. ASSUME NEW to, Proceed(r, to)
      PROVE  \A q \in Requests : who'[q] = who[q] /\ (q # r => pc'[q] = pc[q])
  BY <1>3 DEF Proceed, localVars, Goto, AInv
<1>4. ASSUME NEW c \in Customers, ViewCart(r, c) PROVE CInv'
  <2>1. CartTypeOK'
    BY <1>1, <1>4 DEF ViewCart
  <2>2. CartsExpire'
    BY <1>1, <1>4, OtherArmed DEF ViewCart
  <2> QED
    BY <2>1, <2>2
<1>5. ASSUME NEW c \in Customers, ClearCart(r, c) PROVE CInv'
  <2>1. Empty \in [Products -> Nat] /\ Fields(Empty) = {}
    BY DEF Empty, Fields
  <2>2. CartTypeOK'
    BY <1>5, <2>1, StoreTypes DEF ClearCart
  <2>3. CartsExpire'
    BY <1>3, <1>5, <2>1, StoreArmed DEF ClearCart, MayBegin
  <2> QED
    BY <2>2, <2>3
<1>6. ASSUME NEW c \in Customers, NEW p \in Products, RemoveLine(r, c, p) PROVE CInv'
  <2> DEFINE lines == [cart[c] EXCEPT ![p] = 0]
  <2>1. lines \in [Products -> Nat] /\ Fields(cart[c]) # {}
    BY <1>6 DEF RemoveLine, Fields
  <2>2. CartTypeOK'
    BY <1>1, <1>6, <2>1, StoreTypes DEF RemoveLine
  <2>3. CartsExpire'
    BY <1>1, <1>6, <2>1, StoreArmed DEF RemoveLine
  <2> QED
    BY <2>2, <2>3
<1>7. ASSUME NEW c \in Customers, NEW p \in Products, NEW n \in Amounts,
             LoadForAdd(r, c, p, n) \/ LineExists(r, c, p, n)
      PROVE  CInv'
  <2>1. n \in Nat /\ cart[c][p] + n \in Nat
    BY AmountsAssumption
  <2>2. CartTypeOK'
    BY <1>1, <1>7, <2>1 DEF LoadForAdd, LineExists
  <2>3. CartsExpire'
    BY <1>1, <1>7, OtherArmed DEF LoadForAdd, LineExists
  <2> QED
    BY <2>2, <2>3
<1>8. ASSUME ReadLine(r) PROVE CInv'
  <2>1. who[r] \in Customers /\ item[r] \in Products
    BY <1>8 DEF AInv, InHand, ReadLine, CartPoints
  <2>2. CartTypeOK'
    <3>1. CASE CartAnswer(r, "refused")
      BY <1>2, <1>8, <3>1 DEF ReadLine
    <3>2. CASE ~CartAnswer(r, "refused")
      <4>1. cart[who[r]][item[r]] + amount[r] \in Nat
        BY <2>1
      <4> QED
        BY <1>8, <3>2, <4>1 DEF ReadLine, cartHistory
    <3> QED
      BY <3>1, <3>2
  <2>3. CartsExpire'
    BY <1>2, <1>3, <1>8, OtherArmed DEF ReadLine
  <2> QED
    BY <2>2, <2>3
<1>9. ASSUME LoadForUpdate(r) \/ ReadCart(r) \/ SelectLines(r) PROVE CInv'
  <2>1. CartTypeOK'
    BY <1>2, <1>9 DEF LoadForUpdate, ReadCart, SelectLines, KeepLocals, cartLocals, cartHistory,
                      Fields
  <2>2. CartsExpire'
    BY <1>2, <1>3, <1>9, OtherArmed DEF LoadForUpdate, ReadCart, SelectLines
  <2> QED
    BY <2>1, <2>2
<1>10. ASSUME WriteLine(r) PROVE CInv'
  <2> DEFINE lines == [cart[who[r]] EXCEPT ![item[r]] = amount[r]]
  <2>1. who[r] \in Customers /\ lines \in [Products -> Nat]
    BY <1>10 DEF AInv, InHand, WriteLine, CartPoints
  <2>2. CartTypeOK'
    BY <1>10, <2>1, StoreTypes DEF WriteLine, KeepLocals, cartLocals, cartHistory
  <2>3. pc'[r] = "expire"
    BY <1>10 DEF WriteLine, Proceed, Goto, AInv
  <2>4. CartsExpire'
    BY <1>3, <1>10, <2>1, <2>3, StoreArmed DEF WriteLine
  <2> QED
    BY <2>2, <2>4
<1>11. ASSUME ArmCart(r) PROVE CInv'
  <2>1. who[r] \in Customers
    BY <1>11 DEF AInv, InHand, ArmCart, CartPoints
  <2>2. CartTypeOK'
    BY <1>11, <2>1 DEF ArmCart, KeepLocals, cartLocals, cartHistory
  <2>3. CartsExpire'
    BY <1>3, <1>11, <2>1 DEF ArmCart, CartsExpire, Fields
  <2> QED
    BY <2>2, <2>3
<1>12. ASSUME Prune(r) PROVE CInv'
  <2> DEFINE lines == [p \in Products |-> IF p \in stale[r] THEN 0 ELSE cart[who[r]][p]]
  <2>1. who[r] \in Customers
    BY <1>12 DEF AInv, InHand, Prune, CartPoints
  <2>2. lines \in [Products -> Nat] /\ Fields(lines) \subseteq Fields(cart[who[r]])
    BY <2>1 DEF Fields
  <2>3. CartTypeOK'
    BY <1>2, <1>12, <2>1, <2>2, StoreTypes DEF Prune
  <2>4. CartsExpire'
    BY <1>2, <1>12, <2>1, <2>2, StoreArmed DEF Prune
  <2> QED
    BY <2>3, <2>4
<1> QED
  BY <1>4, <1>5, <1>6, <1>7, <1>8, <1>9, <1>10, <1>11, <1>12 DEF CartBegin, CartStep

\* The other handlers stay away from the carts.
LEMMA OthersArmed ==
  ASSUME AInv, CInv, NEW r \in Requests, UNCHANGED <<cart, armed>>,
         \/ CatalogueBegin(r) \/ CatalogueStep(r) \/ ReviewBegin(r) \/ ReviewStep(r)
         \/ ListStep(r) \/ Crash(r)
  PROVE  CartsExpire'
<1> USE DEF CInv, AInv, CatalogueTypeOK, Goto
<1>1. ASSUME CatalogueBegin(r) \/ CatalogueStep(r) PROVE CartsExpire'
  BY <1>1, OtherArmed DEF CatalogueBegin, CatalogueStep, CreateProduct, LoadOwned, CommitEdit,
     CommitWithdrawal, MayBegin, Proceed, Answer, localVars
<1>2. ASSUME ReviewBegin(r) PROVE CartsExpire'
  BY <1>2, OtherArmed DEF ReviewBegin, BeginReview, LoadReview, MayBegin, Proceed, localVars
<1>3. ASSUME ReviewStep(r) PROVE CartsExpire'
  BY <1>3, OtherArmed DEF ReviewStep, LookForReview, InsertReview, ViolatePair, CommitRevision,
     LoseReview, EraseReview, Proceed, ReviewAnswer, Answer, localVars
<1>4. ASSUME ListStep(r) PROVE CartsExpire'
  BY <1>4, OtherArmed DEF ListStep, ListProducts, ListReviews, LoseListing, GetPage, MayBegin, Answer
<1>5. ASSUME Crash(r) PROVE CartsExpire'
  BY <1>5, OtherArmed DEF Crash, localVars, Busy, Ended
<1> QED
  BY <1>1, <1>2, <1>3, <1>4, <1>5

LEMMA NextCart == AInv /\ CInv /\ [Next]_vars => CInv'
<1> SUFFICES ASSUME AInv, CInv, [Next]_vars PROVE CInv'
  OBVIOUS
<1>1. CASE UNCHANGED vars
  BY <1>1 DEF CInv, CartTypeOK, CartsExpire, Fields, vars, cartVars, cartLocals, cartHistory,
              localVars
<1>2. CASE Work
  <2>1. withdrawn' \in SUBSET Products
    BY <1>2 DEF Work, CInv, CartTypeOK
  <2>2. ASSUME NEW r \in Requests, CartBegin(r) \/ CartStep(r) PROVE CInv'
    BY <2>1, <2>2, CartKeeps
  <2>3. ASSUME NEW r \in Requests, UNCHANGED cartVars,
               \/ CatalogueBegin(r) \/ CatalogueStep(r) \/ ReviewBegin(r) \/ ReviewStep(r)
               \/ ListStep(r)
        PROVE  CInv'
    BY <2>1, <2>3, OthersArmed DEF cartVars, cartLocals, cartHistory, CInv, CartTypeOK
  <2>4. ASSUME NEW r \in Requests, Crash(r) PROVE CInv'
    BY <2>1, <2>4, OthersArmed DEF Crash, CInv, CartTypeOK
  <2>5. ASSUME NEW r \in Requests, ListStep(r) PROVE UNCHANGED cartVars
    BY <2>5 DEF ListStep, ListProducts, ListReviews, LoseListing, GetPage
  <2> QED
    BY <1>2, <2>2, <2>3, <2>4, <2>5 DEF Work
<1> QED
  BY <1>1, <1>2 DEF Next, Idle

LEMMA InitCart == Init => CInv
BY AmountsAssumption DEF Init, CartInit, CInv, CartTypeOK, CartsExpire

-----------------------------------------------------------------------------
(* The reviews *)

\* A review that is about to be inserted had the pair for itself when it was looked for.
RInv ==
  /\ ReviewsTypeOK /\ SecondReviewsAreRaces
  /\ \A r \in Requests : pc[r] = "revise" => seenReview[r] # NoRow

\* A step that adds no review leaves the race to those who insert, and to no one else.
LEMMA NoRival ==
  ASSUME SecondReviewsAreRaces, UNCHANGED overtaken,
         \A p, c : OfPair(p, c) = {} => OfPair(p, c)' = {},
         \A q \in Requests : pc'[q] = "insert" =>
           /\ item'[q] = item[q] /\ who'[q] = who[q]
           /\ pc[q] = "insert" \/ OfPair(item[q], who[q]) = {}
  PROVE  SecondReviewsAreRaces'
<1> SUFFICES ASSUME NEW q \in Requests, pc'[q] = "insert", OfPair(item[q], who[q])' # {}
             PROVE  q \in overtaken
  BY DEF SecondReviewsAreRaces, OfPair
<1> QED
  BY DEF SecondReviewsAreRaces

LEMMA OthersGoOn ==
  ASSUME AInv, NEW r \in Requests, NEW how \in Ended, ReviewAnswer(r, how),
         NEW q \in Requests, pc'[q] = "insert"
  PROVE  q # r /\ pc[q] = "insert" /\ item'[q] = item[q] /\ who'[q] = who[q]
BY DEF AInv, CatalogueTypeOK, ReviewAnswer, Answer, Goto, Ended

LEMMA ReviewKeeps ==
  ASSUME AInv, RInv, NEW r \in Requests, ReviewBegin(r) \/ ReviewStep(r)
  PROVE  RInv'
<1> USE DEF RInv, ReviewsTypeOK
<1>1. ASSUME NEW how, ReviewAnswer(r, how), how # "revise"
      PROVE  /\ clock' \in 0..Horizon /\ begun' \in [Requests -> 0..Horizon - 1]
             /\ subject' \in [Requests -> ReviewIds] /\ draft' \in [Requests -> ReviewForm]
             /\ seenReview' \in [Requests -> ReviewRow \cup {NoRow}]
             /\ \A q \in Requests : pc'[q] = "revise" => seenReview'[q] # NoRow
  BY <1>1 DEF ReviewAnswer, Answer, Goto, AInv, ReviewForm, NoDraft, ReviewIds
<1>2. ASSUME UNCHANGED <<review, overtaken>>,
             \A q \in Requests : pc'[q] = "insert" =>
               /\ item'[q] = item[q] /\ who'[q] = who[q]
               /\ pc[q] = "insert" \/ OfPair(item[q], who[q]) = {}
      PROVE  SecondReviewsAreRaces'
  <2>1. \A p, c : OfPair(p, c)' = OfPair(p, c)
    BY <1>2 DEF OfPair, Existing
  <2> QED
    BY <1>2, <2>1, NoRival
<1>11. ASSUME NEW how \in Ended, ReviewAnswer(r, how)
       PROVE  \A q \in Requests : pc'[q] = "insert" =>
                q # r /\ pc[q] = "insert" /\ item'[q] = item[q] /\ who'[q] = who[q]
  BY <1>11, OthersGoOn
<1>3. ASSUME NEW c \in Customers, NEW p \in Products, BeginReview(r, c, p) PROVE RInv'
  <2>1. SecondReviewsAreRaces'
    BY <1>2, <1>3 DEF BeginReview, Goto, AInv, CatalogueTypeOK
  <2> QED
    BY <1>3, <2>1, OldReviewsAssumption DEF BeginReview, Goto, AInv
<1>4. ASSUME NEW i \in ReviewIds, NEW f \in ReviewForm, NEW to \in {"erase", "revise"},
             LoadReview(r, i, f, to)
      PROVE  RInv'
  <2>1. SecondReviewsAreRaces'
    BY <1>2, <1>4 DEF LoadReview, Proceed, Goto, AInv, CatalogueTypeOK, localVars
  <2> QED
    BY <1>4, <2>1 DEF LoadReview, Proceed, Goto, AInv
<1>5. ASSUME LookForReview(r) PROVE RInv'
  <2>1. CASE OfPair(item[r], who[r]) = {}
    <3>1. SecondReviewsAreRaces'
      <4>1. /\ UNCHANGED <<review, overtaken>> /\ item' = item /\ who' = who
            /\ \A q \in Requests : q # r => pc'[q] = pc[q]
        BY <1>5, <2>1 DEF LookForReview, Proceed, Goto, AInv, CatalogueTypeOK, localVars
      <4> QED
        BY <1>2, <2>1, <4>1
    <3> QED
      BY <1>5, <2>1, <3>1 DEF LookForReview, Proceed, Goto, AInv, reviewLocals
  <2>2. CASE OfPair(item[r], who[r]) # {}
    <3>1. SecondReviewsAreRaces'
      BY <1>2, <1>5, <1>11, <2>2 DEF LookForReview, Ended
    <3> QED
      BY <1>1, <1>5, <2>2, <3>1 DEF LookForReview
  <2> QED
    BY <2>1, <2>2
<1>6. ASSUME ViolatePair(r) \/ LoseReview(r) PROVE RInv'
  <2>1. SecondReviewsAreRaces'
    BY <1>2, <1>6, <1>11 DEF ViolatePair, LoseReview, Ended
  <2> QED
    BY <1>1, <1>6, <2>1 DEF ViolatePair, LoseReview
<1>7. ASSUME InsertReview(r) PROVE RInv'
  <2>1. PICK x \in Ratings, b \in Bodies : review' = [review EXCEPT ![r] = NewReview(r, x, b)]
    BY <1>7 DEF InsertReview
  <2>2. NewReview(r, x, b) \in ReviewRow
    BY <1>7 DEF InsertReview, NewReview, ReviewRow, AInv, InHand
  <2>3. review' \in [ReviewIds -> ReviewRow \cup {NoRow}]
    BY <2>1, <2>2
  <2>4. ASSUME NEW q \in Requests, pc'[q] = "insert", OfPair(item[q], who[q])' # {}
        PROVE  q \in overtaken'
    <3>1. q # r /\ pc[q] = "insert" /\ item'[q] = item[q] /\ who'[q] = who[q]
      BY <1>7, <1>11, <2>4 DEF InsertReview, Ended
    <3>2. PICK j \in ReviewIds : /\ review'[j] # NoRow
                                 /\ review'[j].product = item[q] /\ review'[j].customer = who[q]
      BY <2>4, <3>1 DEF OfPair, Existing
    <3>3. CASE j = r
      BY <1>7, <2>1, <3>1, <3>2, <3>3 DEF InsertReview, NewReview
    <3>4. CASE j # r
      <4>1. review[j] = review'[j]
        BY <2>1, <3>4
      <4>2. OfPair(item[q], who[q]) # {}
        BY <3>2, <4>1 DEF OfPair, Existing
      <4> QED
        BY <1>7, <3>1, <4>2 DEF InsertReview, SecondReviewsAreRaces
    <3> QED
      BY <3>3, <3>4
  <2>5. SecondReviewsAreRaces'
    BY <2>4 DEF SecondReviewsAreRaces
  <2> QED
    BY <1>1, <1>7, <2>3, <2>5 DEF InsertReview
<1>8. ASSUME CommitRevision(r) PROVE RInv'
  <2> DEFINE i == subject[r]
             row == Revised(review[i], draft[r], seenReview[r])
  <2>1. review[i] \in ReviewRow /\ draft[r] \in ReviewForm /\ i \in ReviewIds
    BY <1>8 DEF CommitRevision
  <2>2. /\ row \in ReviewRow /\ row.product = review[i].product
        /\ row.customer = review[i].customer
    BY <2>1 DEF Revised, Column, ReviewRow, ReviewForm
  <2>3. review' = [review EXCEPT ![i] = row]
    BY <1>8 DEF CommitRevision
  <2>4. review' \in [ReviewIds -> ReviewRow \cup {NoRow}]
    BY <2>1, <2>2, <2>3
  <2>5. SecondReviewsAreRaces'
    <3> HIDE DEF row
    <3>1. /\ Existing' = Existing
          /\ \A j \in Existing : /\ review'[j].product = review[j].product
                                /\ review'[j].customer = review[j].customer
      BY <1>8, <2>1, <2>2, <2>3, ReviewFormsAssumption DEF Existing, CommitRevision
    <3>2. \A p, c : OfPair(p, c)' = OfPair(p, c)
      BY <3>1 DEF OfPair
    <3> QED
      BY <1>8, <1>11, <3>2, NoRival DEF CommitRevision, Ended
  <2> QED
    BY <1>1, <1>8, <2>4, <2>5 DEF CommitRevision
<1>9. ASSUME EraseReview(r) PROVE RInv'
  <2>1. SecondReviewsAreRaces'
    <3>1. \A p, c : OfPair(p, c) = {} => OfPair(p, c)' = {}
      BY <1>9 DEF EraseReview, OfPair, Existing
    <3> QED
      BY <1>9, <1>11, <3>1, NoRival DEF EraseReview, Ended
  <2> QED
    BY <1>1, <1>9, <2>1 DEF EraseReview
<1>10. ReviewForms \subseteq ReviewForm /\ NoDraft \in ReviewForm
  BY ReviewFormsAssumption DEF NoDraft, ReviewForm
<1> QED
  BY <1>3, <1>4, <1>5, <1>6, <1>7, <1>8, <1>9, <1>10 DEF ReviewBegin, ReviewStep

LEMMA NextReview == AInv /\ RInv /\ [Next]_vars => RInv'
<1> SUFFICES ASSUME AInv, RInv, [Next]_vars PROVE RInv'
  OBVIOUS
<1>1. ASSUME UNCHANGED reviewVars,
             \A q \in Requests : pc'[q] = "revise" => pc[q] = "revise",
             \A q \in Requests : pc'[q] = "insert" =>
               pc[q] = "insert" /\ item'[q] = item[q] /\ who'[q] = who[q]
      PROVE  RInv'
  <2>1. \A p, c : OfPair(p, c)' = OfPair(p, c)
    BY <1>1 DEF OfPair, Existing, reviewVars
  <2>2. SecondReviewsAreRaces'
    BY <1>1, <2>1, NoRival DEF RInv, reviewVars
  <2> QED
    BY <1>1, <2>2 DEF RInv, ReviewsTypeOK, reviewVars, reviewLocals
<1> USE DEF AInv, Goto, localVars, CatalogueTypeOK
<1>2. ASSUME NEW r \in Requests, CatalogueBegin(r) \/ CatalogueStep(r), UNCHANGED reviewVars
      PROVE  RInv'
  BY <1>1, <1>2 DEF CatalogueBegin, CatalogueStep, CreateProduct, LoadOwned, CommitEdit,
     CommitWithdrawal, MayBegin, Proceed, Answer
<1>3. ASSUME NEW r \in Requests, CartBegin(r), UNCHANGED reviewVars PROVE RInv'
  BY <1>1, <1>3 DEF CartBegin, ViewCart, ClearCart, RemoveLine, LoadForAdd, LineExists, Enter, Proceed
<1>4. ASSUME NEW r \in Requests, CartStep(r), UNCHANGED reviewVars PROVE RInv'
  BY <1>1, <1>4 DEF CartStep, ReadLine, LoadForUpdate, WriteLine, ArmCart, ReadCart, SelectLines,
     Prune, CartAnswer, Answer, Proceed
<1>5. ASSUME NEW r \in Requests, ListStep(r) \/ Crash(r) PROVE RInv'
  BY <1>1, <1>5 DEF ListStep, ListProducts, ListReviews, LoseListing, GetPage, Answer, Crash
<1>6. ASSUME UNCHANGED vars PROVE RInv'
  BY <1>1, <1>6 DEF vars
<1> QED
  BY <1>2, <1>3, <1>4, <1>5, <1>6, ReviewKeeps DEF Next, Work, Idle

\* ReviewedAssumption says this of the rows to start from.
LEMMA InitReview == Init => RInv
<1> SUFFICES ASSUME Init PROVE RInv
  OBVIOUS
<1>1. /\ review \in [ReviewIds -> ReviewRow \cup {NoRow}]
      /\ \A i, j \in ReviewIds :
           review[i] # NoRow /\ review[j] # NoRow /\ i # j =>
             <<review[i].product, review[i].customer>> # <<review[j].product, review[j].customer>>
  BY ReviewedAssumption DEF Init, ReviewsInit
<1>2. SecondReviewsAreRaces
  BY DEF SecondReviewsAreRaces, Init, CatalogueInit
<1>3. clock \in 0..Horizon
  BY OldReviewsAssumption, FS_CardinalityType DEF Init, ReviewsInit
<1> QED
  BY <1>1, <1>2, <1>3, OldReviewsAssumption
     DEF Init, CatalogueInit, ReviewsInit, RInv, ReviewsTypeOK, NoDraft, ReviewForm, ReviewIds

-----------------------------------------------------------------------------
(* The walks *)

ListTypeOK ==
  /\ cursor \in [Requests -> Keys \cup {0}]
  /\ page \in [Requests -> SUBSET Keys]
  /\ listed \in [Requests -> SUBSET Keys]
  /\ steady \in [Requests -> SUBSET Keys]

\* What walk r has shown is what there is up to its cursor, as far as it is steady.
ShownSoFar(r) ==
  /\ \A k \in listed[r] \cup page[r] : k <= cursor[r]
  /\ \A k \in steady[r] : k <= cursor[r] => k \in listed[r] \cup page[r]

WalkInStep(r) ==
  /\ pc[r] = "idle" => cursor[r] = 0 /\ page[r] = {} /\ listed[r] = {}
  /\ pc[r] \in ListPoints => ShownSoFar(r) /\ steady[r] \subseteq KeysFor(item[r])
  /\ pc[r] = "listed" => steady[r] \subseteq listed[r] \cup page[r]
  /\ listed[r] \cap page[r] = {}

WInv == ListTypeOK /\ \A r \in Requests : WalkInStep(r)

\* Keys are numbers, and the keys of a listing are finitely many.
LEMMA KeysType ==
  ASSUME AInv, RInv, NEW p \in Products \cup {0}
  PROVE  /\ Keys \subseteq Nat \ {0}
         /\ KeysFor(p) \subseteq Keys /\ IsFiniteSet(KeysFor(p))
<1>1. Keys \subseteq Nat \ {0}
  BY ProductsAssumption, OldReviewsAssumption DEF Keys
<1>2. ProductKeys \subseteq Products /\ IsFiniteSet(ProductKeys)
  <2>1. ProductKeys \in SUBSET Products
    BY DEF ProductKeys
  <2> QED
    BY <2>1, FS_Subset, ProductsAssumption
<1>3. ReviewKeys(p) \subseteq 1..Horizon /\ IsFiniteSet(ReviewKeys(p))
  <2>1. \A i \in Existing : Horizon - review[i].created \in 1..Horizon
    BY OldReviewsAssumption DEF Existing, RInv, ReviewsTypeOK, ReviewRow
  <2>2. ReviewKeys(p) \in SUBSET (1..Horizon)
    BY <2>1 DEF ReviewKeys
  <2>3. IsFiniteSet(1..Horizon)
    BY FS_Interval, OldReviewsAssumption
  <2> QED
    BY <2>2, <2>3, FS_Subset
<1> QED
  BY <1>1, <1>2, <1>3 DEF KeysFor, Keys

LEMMA SameKeys ==
  ASSUME UNCHANGED <<product, review>>, NEW q \in Requests, item'[q] = item[q]
  PROVE  KeysFor(item[q])' = KeysFor(item[q])
<1>1. ProductKeys' = ProductKeys /\ Existing' = Existing
  BY DEF ProductKeys, Visible, Existing
<1>2. {j \in Existing : review[j].product = item[q]}'
        = {j \in Existing : review[j].product = item[q]}
  BY <1>1
<1>3. ReviewKeys(item[q])' = ReviewKeys(item[q])
  BY <1>2 DEF ReviewKeys
<1> QED
  BY <1>1, <1>3 DEF KeysFor

\* A step that shows nothing: r is not in a walk, and of what is steady for the others
\* something may go.
LEMMA OtherWalks ==
  ASSUME WInv, NEW r \in Requests, UNCHANGED <<cursor, page, listed>>,
         pc'[r] \notin ListPoints \cup {"listed", "idle"},
         \A q \in Requests \ {r} : pc'[q] = pc[q] /\ item'[q] = item[q],
         steady' \in [Requests -> SUBSET Keys],
         \A q \in Requests : steady'[q] \subseteq steady[q],
         \A q \in Requests \ {r} : pc[q] \in ListPoints => steady'[q] \subseteq KeysFor(item[q])'
  PROVE  WInv'
<1>1. ListTypeOK'
  BY DEF WInv, ListTypeOK
<1>2. WalkInStep(r)'
  BY DEF WInv, WalkInStep, ListPoints
<1>3. ASSUME NEW q \in Requests \ {r} PROVE WalkInStep(q)'
  BY DEF WInv, WalkInStep, ShownSoFar, ListPoints
<1> QED
  BY <1>1, <1>2, <1>3 DEF WInv

LEMMA CursorsCount ==
  ASSUME AInv, RInv, NEW k \in Keys \cup {0}
  PROVE  k \in Nat
<1>1. Keys \subseteq Nat \ {0}
  BY KeysType
<1> QED
  BY <1>1

\* A page, the first of a walk or a later one.
LEMMA PageKeeps ==
  ASSUME AInv, RInv, WInv, NEW r \in Requests, NEW p \in Products \cup {0},
         NEW to \in ListPoints, GetPage(r, p, to), item'[r] = p,
         \A q \in Requests \ {r} : item'[q] = item[q] /\ steady'[q] = steady[q],
         steady' \in [Requests -> SUBSET Keys],
         \/ pc[r] = "idle" /\ steady'[r] = KeysFor(p)
         \/ pc[r] \in ListPoints /\ steady'[r] = steady[r] /\ item[r] = p
  PROVE  WInv'
<1> DEFINE keys == KeysFor(p)
           after == cursor[r]
<1> USE DEF WInv, ListTypeOK
<1>1. keys \in SUBSET Nat /\ IsFiniteSet(keys) /\ keys \subseteq Keys /\ Keys \subseteq Nat \ {0}
  BY KeysType
<1>2. after \in Nat
  <2>1. cursor[r] \in Keys \cup {0}
    OBVIOUS
  <2> HIDE DEF WInv, ListTypeOK
  <2> QED
    BY <2>1, CursorsCount
<1>3. /\ PageOf(keys, after) \subseteq keys
      /\ \A k \in PageOf(keys, after) : k > after
      /\ LastPage(keys, after) => \A k \in keys : k > after => k \in PageOf(keys, after)
      /\ ~LastPage(keys, after) =>
           /\ NextCursor(keys, after) \in keys
           /\ NextCursor(keys, after) > after
           /\ \A k \in PageOf(keys, after) : k <= NextCursor(keys, after)
           /\ \A k \in keys : k > after /\ k <= NextCursor(keys, after)
                                => k \in PageOf(keys, after)
  <2> HIDE DEF keys, after
  <2> QED
    BY <1>1, <1>2, PageHolds
<1> DEFINE got == PageOf(keys, after)
           before == listed[r] \cup page[r]
           next == NextCursor(keys, after)
<1>4. /\ \A k \in before : k \in Nat /\ k <= after
      /\ \A k \in steady'[r] : k \in keys /\ (k <= after => k \in before)
  BY <1>1 DEF WalkInStep, ShownSoFar, ListPoints
<1>5. /\ page' = [page EXCEPT ![r] = got] /\ page'[r] = got
      /\ listed' = [listed EXCEPT ![r] = before] /\ listed'[r] = before
      /\ UNCHANGED <<product, review>>
      /\ LastPage(keys, after) => pc' = [pc EXCEPT ![r] = "listed"] /\ cursor' = cursor
      /\ ~LastPage(keys, after) =>
           pc' = [pc EXCEPT ![r] = to] /\ cursor' = [cursor EXCEPT ![r] = next]
  BY DEF GetPage, Goto, reviewVars
<1> HIDE DEF keys, after, got, next
<1>6. ListTypeOK'
  BY <1>1, <1>3, <1>5 DEF got, next
<1>7. before \cap got = {}
  BY <1>2, <1>3, <1>4 DEF got
<1>8. ASSUME NEW q \in Requests \ {r} PROVE WalkInStep(q)'
  <2>1. KeysFor(item[q])' = KeysFor(item[q])
    BY <1>5, SameKeys
  <2> QED
    BY <1>5, <2>1 DEF AInv, WalkInStep, ShownSoFar
<1>9. CASE LastPage(keys, after)
  <2>1. ASSUME NEW k \in steady'[r] PROVE k \in before \cup got
    <3>1. k \in keys /\ k \in Nat
      BY <1>1, <1>4
    <3> QED
      BY <1>2, <1>3, <1>4, <1>9, <3>1 DEF got
  <2>2. pc'[r] = "listed"
    BY <1>5, <1>9 DEF AInv
  <2>3. WalkInStep(r)'
    BY <1>5, <1>7, <2>1, <2>2 DEF WalkInStep, ListPoints
  <2> QED
    BY <1>6, <1>8, <2>3
<1>10. CASE ~LastPage(keys, after)
  <2>1. \A k \in before \cup got : k <= next
    BY <1>1, <1>2, <1>3, <1>4, <1>10 DEF got, next
  <2>2. ASSUME NEW k \in steady'[r], k <= next PROVE k \in before \cup got
    <3>1. k \in keys /\ k \in Nat
      BY <1>1, <1>4
    <3> QED
      BY <1>2, <1>3, <1>4, <1>10, <2>2, <3>1 DEF got, next
  <2>3. KeysFor(item[r])' = keys
    BY <1>5 DEF keys, KeysFor, ProductKeys, ReviewKeys, Existing, Visible
  <2>4. pc'[r] = to /\ cursor'[r] = next
    BY <1>5, <1>10 DEF AInv
  <2>5. ShownSoFar(r)' /\ steady'[r] \subseteq KeysFor(item[r])'
    BY <1>4, <1>5, <2>1, <2>2, <2>3, <2>4 DEF ShownSoFar
  <2>6. WalkInStep(r)'
    BY <1>5, <1>7, <2>4, <2>5 DEF WalkInStep, ListPoints
  <2> QED
    BY <1>6, <1>8, <2>6
<1> QED
  BY <1>9, <1>10

\* The points a handler that reads no listing goes to.
NoWalk == Points \ (ListPoints \cup {"listed", "idle"})

LEMMA CatalogueSteps ==
  ASSUME AInv, NEW r \in Requests, CatalogueBegin(r) \/ CatalogueStep(r)
  PROVE  /\ pc'[r] \in NoWalk
         /\ \A q \in Requests \ {r} : pc'[q] = pc[q] /\ item'[q] = item[q]
<1> USE DEF AInv, CatalogueTypeOK, Goto, NoWalk, Points, EditPoints, ListPoints, Ended
<1>1. CASE CatalogueBegin(r)
  BY <1>1 DEF CatalogueBegin, CreateProduct, LoadOwned, Proceed, localVars
<1>2. CASE CatalogueStep(r)
  BY <1>2 DEF CatalogueStep, CommitEdit, CommitWithdrawal, Answer
<1> QED
  BY <1>1, <1>2

LEMMA CartSteps ==
  ASSUME AInv, NEW r \in Requests, CartBegin(r) \/ CartStep(r)
  PROVE  /\ pc'[r] \in NoWalk /\ UNCHANGED product
         /\ \A q \in Requests \ {r} : pc'[q] = pc[q] /\ item'[q] = item[q]
<1> USE DEF AInv, CatalogueTypeOK, Goto, NoWalk, Points, CartPoints, ListPoints, Ended
<1>1. CASE CartBegin(r)
  BY <1>1 DEF CartBegin, ViewCart, ClearCart, RemoveLine, LoadForAdd, LineExists, Enter, Proceed,
     localVars
<1>2. CASE CartStep(r)
  BY <1>2 DEF CartStep, ReadLine, LoadForUpdate, WriteLine, ArmCart, ReadCart, SelectLines, Prune,
     CartAnswer, Answer, Proceed, KeepLocals, localVars
<1> QED
  BY <1>1, <1>2

LEMMA ReviewSteps ==
  ASSUME AInv, NEW r \in Requests, ReviewBegin(r) \/ ReviewStep(r)
  PROVE  /\ pc'[r] \in NoWalk /\ UNCHANGED product
         /\ \A q \in Requests \ {r} : pc'[q] = pc[q] /\ item'[q] = item[q]
<1> USE DEF AInv, CatalogueTypeOK, Goto, NoWalk, Points, ReviewPoints, ListPoints, Ended
<1>1. CASE ReviewBegin(r)
  BY <1>1 DEF ReviewBegin, BeginReview, LoadReview, Proceed, localVars
<1>2. CASE ReviewStep(r)
  BY <1>2 DEF ReviewStep, LookForReview, InsertReview, ViolatePair, CommitRevision, LoseReview,
     EraseReview, ReviewAnswer, Answer, Proceed, localVars
<1> QED
  BY <1>1, <1>2

\* A write, after which the rows it took away are not steady.
LEMMA WriteWalks ==
  ASSUME WInv, AInv', RInv', NEW r \in Requests, KeepSteady, pc'[r] \in NoWalk,
         \A q \in Requests \ {r} : pc'[q] = pc[q] /\ item'[q] = item[q]
  PROVE  WInv'
<1>1. \A q \in Requests : steady'[q] = steady[q] \cap KeysFor(item[q])'
  BY DEF KeepSteady
<1>2. steady' \in [Requests -> SUBSET Keys]
  BY DEF KeepSteady, WInv, ListTypeOK
<1> QED
  BY <1>1, <1>2, OtherWalks DEF KeepSteady, NoWalk

LEMMA ListKeeps ==
  ASSUME AInv, RInv, WInv, NEW r \in Requests, ListStep(r)
  PROVE  WInv'
<1> USE DEF AInv, CatalogueTypeOK, WInv, ListTypeOK
<1>1. CASE ListProducts(r)
  <2>1. KeysFor(0) = ProductKeys /\ KeysFor(0) \subseteq Keys
    BY KeysType DEF KeysFor
  <2>2. item[r] = 0 /\ item'[r] = 0
    BY <1>1 DEF ListProducts, InHand, MayBegin
  <2>3. /\ \A q \in Requests \ {r} : item'[q] = item[q] /\ steady'[q] = steady[q]
        /\ steady' \in [Requests -> SUBSET Keys] /\ GetPage(r, 0, "products")
        /\ \/ pc[r] = "idle" /\ steady'[r] = KeysFor(0)
           \/ pc[r] \in ListPoints /\ steady'[r] = steady[r]
    BY <1>1, <2>1 DEF ListProducts, MayBegin, ListPoints
  <2> QED
    BY <2>2, <2>3, PageKeeps DEF ListPoints
<1>2. ASSUME NEW p \in Products, ListReviews(r, p) PROVE WInv'
  <2>1. KeysFor(p) = ReviewKeys(p) /\ KeysFor(p) \subseteq Keys
    BY KeysType, ProductsAssumption DEF KeysFor
  <2>2. /\ \A q \in Requests \ {r} : item'[q] = item[q] /\ steady'[q] = steady[q]
        /\ steady' \in [Requests -> SUBSET Keys] /\ GetPage(r, p, "reviews") /\ item'[r] = p
        /\ \/ pc[r] = "idle" /\ steady'[r] = KeysFor(p)
           \/ pc[r] \in ListPoints /\ steady'[r] = steady[r] /\ item[r] = p
    BY <1>2, <2>1 DEF ListReviews, MayBegin, ListPoints
  <2> QED
    BY <2>2, PageKeeps DEF ListPoints
<1>3. CASE LoseListing(r)
  <2>1. ASSUME NEW q \in Requests \ {r} PROVE WalkInStep(q)'
    <3>1. item'[q] = item[q] /\ pc'[q] = pc[q]
      BY <1>3 DEF LoseListing, Answer, Goto
    <3>2. KeysFor(item[q])' = KeysFor(item[q])
      BY <1>3, <3>1, SameKeys DEF LoseListing, reviewVars
    <3> QED
      BY <1>3, <3>1, <3>2 DEF LoseListing, WalkInStep, ShownSoFar
  <2>2. WalkInStep(r)'
    BY <1>3 DEF LoseListing, Answer, Goto, WalkInStep, ListPoints
  <2>3. ListTypeOK'
    BY <1>3 DEF LoseListing
  <2> QED
    BY <2>1, <2>2, <2>3
<1> QED
  BY <1>1, <1>2, <1>3 DEF ListStep

LEMMA NextWalks == AInv /\ RInv /\ WInv /\ [Next]_vars => WInv'
<1> SUFFICES ASSUME AInv, RInv, WInv, [Next]_vars PROVE WInv'
  OBVIOUS
<1>1. AInv' /\ RInv'
  BY NextHand, NextReview
<1>2. ASSUME NEW r \in Requests, KeepSteady,
             CatalogueBegin(r) \/ CatalogueStep(r) \/ ReviewBegin(r) \/ ReviewStep(r)
      PROVE  WInv'
  BY <1>1, <1>2, CatalogueSteps, ReviewSteps, WriteWalks
<1>3. ASSUME NEW r \in Requests, UNCHANGED <<product, reviewVars, listVars>>, pc'[r] \in NoWalk,
             \A q \in Requests \ {r} : pc'[q] = pc[q] /\ item'[q] = item[q]
      PROVE  WInv'
  <2>1. \A q \in Requests \ {r} : KeysFor(item[q])' = KeysFor(item[q])
    BY <1>3, SameKeys DEF reviewVars
  <2>2. steady' \in [Requests -> SUBSET Keys] /\ \A q \in Requests : steady'[q] = steady[q]
    BY <1>3 DEF listVars, WInv, ListTypeOK
  <2>3. \A q \in Requests \ {r} : pc[q] \in ListPoints => steady'[q] \subseteq KeysFor(item[q])'
    BY <2>1, <2>2 DEF WInv, WalkInStep
  <2> QED
    BY <1>3, <2>2, <2>3, OtherWalks DEF listVars, NoWalk
<1>4. ASSUME NEW r \in Requests, CartBegin(r) \/ CartStep(r), UNCHANGED <<reviewVars, listVars>>
      PROVE  WInv'
  BY <1>3, <1>4, CartSteps
<1>5. ASSUME NEW r \in Requests, Crash(r) PROVE WInv'
  BY <1>3, <1>5 DEF Crash, AInv, Goto, localVars, NoWalk, Points, Ended, ListPoints
<1>6. ASSUME UNCHANGED vars PROVE WInv'
  <2>1. \A q \in Requests : KeysFor(item[q])' = KeysFor(item[q])
    BY <1>6, SameKeys DEF vars, reviewVars, localVars
  <2> QED
    BY <1>6, <2>1 DEF vars, listVars, WInv, ListTypeOK, WalkInStep, ShownSoFar
<1> QED
  BY <1>2, <1>4, <1>5, <1>6, ListKeeps DEF Next, Work, Idle

LEMMA InitWalks == Init => WInv
BY DEF Init, CatalogueInit, WInv, ListTypeOK, WalkInStep, ListPoints

-----------------------------------------------------------------------------
(* Theorems *)

SInv == AInv /\ CInv /\ RInv /\ WInv

LEMMA Invariance == Spec => []SInv
<1>1. Init => SInv
  BY InitHand, InitCart, InitReview, InitWalks DEF SInv
<1>2. SInv /\ [Next]_vars => SInv'
  BY NextHand, NextCart, NextReview, NextWalks DEF SInv
<1> QED
  BY <1>1, <1>2, PTL DEF Spec

\* The state of the storefront is well typed at every step of its handlers.
THEOREM TypeCorrect == Spec => []TypeOK
<1>1. SInv => TypeOK
  BY DEF SInv, AInv, CInv, RInv, WInv, ListTypeOK, Points, TypeOK
<1> QED
  BY <1>1, Invariance, PTL

\* A cart key without a TTL has a handler about to set it, or one that died there
\* (_set_quantity, remove_item, get_cart).
THEOREM CartKeysExpire == Spec => []CartsExpire
<1>1. SInv => CartsExpire
  BY DEF SInv, CInv
<1> QED
  BY <1>1, Invariance, PTL

\* The unique constraint refuses a review of a customer who had none when create_review
\* looked for it only because another request of hers wrote one since.
THEOREM SecondReviewsRaced == Spec => []SecondReviewsAreRaces
<1>1. SInv => SecondReviewsAreRaces
  BY DEF SInv, RInv
<1> QED
  BY <1>1, Invariance, PTL

\* No walk through the pages of a listing shows a row twice, whatever the page size
\* (_paginate_by_id, list_reviews).
THEOREM NothingTwice == Spec => []WalkRepeatsNothing
<1>1. SInv => WalkRepeatsNothing
  BY DEF SInv, WInv, WalkInStep, WalkRepeatsNothing
<1> QED
  BY <1>1, Invariance, PTL

\* A walk to the last page has shown every row that was there all the while.
THEOREM NothingMissed == Spec => []WalkMissesNothing
<1>1. SInv => WalkMissesNothing
  BY DEF SInv, WInv, WalkInStep, WalkMissesNothing
<1> QED
  BY <1>1, Invariance, PTL

LEMMA NextDeleted ==
  ASSUME AInv, [Next]_vars, NEW p \in Products, product[p] # NoRow, product[p].deleted
  PROVE  product'[p] # NoRow /\ product'[p].deleted
<1> USE DEF AInv, CatalogueTypeOK
<1>1. ASSUME UNCHANGED product PROVE product'[p] # NoRow /\ product'[p].deleted
  BY <1>1
<1>2. ASSUME NEW r \in Requests, CatalogueBegin(r)
      PROVE  product'[p] # NoRow /\ product'[p].deleted
  BY <1>2 DEF CatalogueBegin, CreateProduct, LoadOwned
<1>3. ASSUME NEW r \in Requests, CommitEdit(r) \/ CommitWithdrawal(r)
      PROVE  product'[p] # NoRow /\ product'[p].deleted
  <2>1. item[r] \in Products /\ product[item[r]] \in ProductRow
    BY <1>3 DEF CommitEdit, CommitWithdrawal, InHand, EditPoints
  <2>2. product'[p].deleted
    BY <1>3, <2>1 DEF CommitEdit, CommitWithdrawal, ProductRow
  <2>3. product'[p] # NoRow
    BY <1>3, EditRows DEF RowsStay
  <2> QED
    BY <2>2, <2>3
<1> QED
  BY <1>1, <1>2, <1>3, CartSteps, ReviewSteps
     DEF Next, Work, Idle, vars, CatalogueStep, ListStep, ListProducts, ListReviews, LoseListing,
         GetPage, Crash

\* A product that was deleted stays deleted, whatever PATCH had read it before
\* (update_product against soft_delete_product).
THEOREM DeletionLasts == Spec => DeletedStaysDeleted
<1>1. AInv /\ [Next]_vars =>
        [\A p \in Products : product[p] # NoRow /\ product[p].deleted =>
           product'[p] # NoRow /\ product'[p].deleted]_product
  BY NextDeleted
<1> QED
  BY <1>1, Invariance, PTL DEF Spec, DeletedStaysDeleted, SInv

LEMMA NextErased ==
  ASSUME AInv, RInv, [Next]_vars, NEW i \in ReviewIds, review[i] = NoRow, review'[i] # NoRow
  PROVE  i \in Requests /\ pc[i] = "insert"
<1>1. ASSUME UNCHANGED review PROVE FALSE
  BY <1>1
<1>2. ASSUME NEW r \in Requests, ReviewBegin(r) PROVE FALSE
  BY <1>1, <1>2 DEF ReviewBegin, BeginReview, LoadReview
<1>3. ASSUME NEW r \in Requests, ReviewStep(r) PROVE i = r /\ pc[r] = "insert"
  BY <1>3 DEF ReviewStep, LookForReview, InsertReview, ViolatePair, CommitRevision, LoseReview,
     EraseReview, RInv, ReviewsTypeOK
<1> QED
  BY <1>1, <1>2, <1>3 DEF Next, Work, Idle, vars, ListStep, ListProducts, ListReviews,
     LoseListing, GetPage, Crash, reviewVars

\* A deleted review does not come back: only the request that creates it makes its row
\* (update_review against delete_review).
THEOREM ErasureLasts == Spec => ErasedStaysErased
<1>1. AInv /\ RInv /\ [Next]_vars =>
        [\A i \in ReviewIds :
           review[i] = NoRow /\ review'[i] # NoRow => i \in Requests /\ pc[i] = "insert"]_review
  BY NextErased
<1> QED
  BY <1>1, Invariance, PTL DEF Spec, ErasedStaysErased, SInv

-----------------------------------------------------------------------------
(* Theorems: carts that others leave alone *)

\* No other handler is at work on the cart of a request that is alone.
ByItself(r) ==
  r \in alone => /\ pc[r] \in CartPoints
                 /\ \A q \in Requests \ {r} : pc[q] \in CartPoints => who[q] # who[r]

\* What is still to be added to the line by a POST, and what is in the line.
Owes(r) ==
  /\ pc[r] = "hget" => cart[who[r]][item[r]] + amount[r] = expected[r]
  /\ pc[r] = "hset" => amount[r] = expected[r]
  /\ pc[r] \in {"expire", "hgetall", "select", "prune"} => cart[who[r]][item[r]] = expected[r]

Promise(r) ==
  /\ pc[r] \notin CartPoints \cup {"failed", "crashed"} => expected[r] = 0
  /\ pc[r] \in CartPoints /\ expected[r] > 0 => item[r] \in Products /\ pc[r] # "fields"
  /\ r \in alone /\ expected[r] > 0 => Owes(r)

PInv == \A r \in Requests : stale[r] \subseteq withdrawn /\ ByItself(r) /\ Promise(r)

\* A step of one handler, and what the others see of it.
LEMMA OnePromise ==
  ASSUME AInv, CInv, PInv, NEW r \in Requests,
         \A q \in Requests \ {r} : /\ pc'[q] = pc[q] /\ who'[q] = who[q] /\ item'[q] = item[q]
                                   /\ amount'[q] = amount[q] /\ expected'[q] = expected[q]
                                   /\ stale'[q] = stale[q],
         alone' \subseteq alone \cup {r}, withdrawn \subseteq withdrawn',
         \A q \in alone' \ {r} : /\ cart'[who[q]] = cart[who[q]]
                                 /\ pc'[r] \in CartPoints => who'[r] # who[q],
         stale'[r] \subseteq withdrawn', ByItself(r)', Promise(r)'
  PROVE  PInv'
<1> SUFFICES ASSUME NEW q \in Requests \ {r}
             PROVE  stale'[q] \subseteq withdrawn' /\ ByItself(q)' /\ Promise(q)'
  BY DEF PInv
<1>1. stale'[q] \subseteq withdrawn'
  BY DEF PInv
<1>2. ByItself(q)'
  BY DEF PInv, ByItself
<1>3. Promise(q)'
  BY DEF PInv, Promise, Owes
<1> QED
  BY <1>1, <1>2, <1>3

\* Whoever is at work on the cart when a request enters is not alone any more, and
\* the one that enters is alone only if there is nobody.
LEMMA EnterAlone ==
  ASSUME AInv, CInv, PInv, NEW r \in Requests, NEW c \in Customers,
         NEW p \in Products \cup {0}, NEW to \in CartPoints, Enter(r, c, p, to)
  PROVE  /\ pc[r] = "idle" /\ expected[r] = 0 /\ r \notin alone
         /\ pc'[r] = to /\ who'[r] = c /\ item'[r] = p
         /\ \A q \in Requests \ {r} : pc'[q] = pc[q] /\ who'[q] = who[q] /\ item'[q] = item[q]
         /\ alone' \subseteq alone \cup {r}
         /\ \A q \in alone' \ {r} : q \in alone /\ who[q] # c
         /\ r \in alone' => \A q \in Requests \ {r} : pc[q] \in CartPoints => who[q] # c
         /\ stale' = stale
<1> USE DEF AInv, CatalogueTypeOK
<1> DEFINE others == {q \in Busy : who[q] = c}
<1>1. pc[r] = "idle" /\ expected[r] = 0 /\ r \notin alone
  BY DEF Enter, MayBegin, PInv, Promise, ByItself, CartPoints
<1>2. \A q \in Requests : pc[q] \in CartPoints => q \in Busy
  BY DEF CartPoints, Busy, Ended
<1>3. alone' = IF others = {} THEN alone \cup {r} ELSE alone \ others
  BY DEF Enter
<1>4. \A q \in alone' \ {r} : q \in alone /\ who[q] # c
  BY <1>2, <1>3 DEF PInv, ByItself, CInv, CartTypeOK
<1>5. r \in alone' => \A q \in Requests \ {r} : pc[q] \in CartPoints => who[q] # c
  BY <1>1, <1>2, <1>3
<1> QED
  BY <1>1, <1>4, <1>5 DEF Enter, Goto

LEMMA EnterPromise ==
  ASSUME AInv, CInv, PInv, NEW r \in Requests, NEW c \in Customers,
         NEW p \in Products \cup {0}, NEW to \in CartPoints, Enter(r, c, p, to),
         \A q \in Requests \ {r} : amount'[q] = amount[q] /\ expected'[q] = expected[q],
         \A q \in alone' \ {r} : cart'[who[q]] = cart[who[q]],
         withdrawn \subseteq withdrawn', ByItself(r)', Promise(r)'
  PROVE  PInv'
<1>1. /\ pc'[r] = to /\ who'[r] = c
      /\ \A q \in Requests \ {r} : pc'[q] = pc[q] /\ who'[q] = who[q] /\ item'[q] = item[q]
      /\ alone' \subseteq alone \cup {r}
      /\ \A q \in alone' \ {r} : who[q] # c
      /\ stale' = stale
  BY EnterAlone
<1>2. stale'[r] \subseteq withdrawn'
  BY <1>1 DEF PInv
<1>3. \A q \in alone' \ {r} : /\ cart'[who[q]] = cart[who[q]]
                            /\ pc'[r] \in CartPoints => who'[r] # who[q]
  BY <1>1
<1> QED
  BY <1>1, <1>2, <1>3, OnePromise

LEMMA BeginPromise ==
  ASSUME AInv, CInv, PInv, NEW r \in Requests, CartBegin(r), withdrawn \subseteq withdrawn'
  PROVE  PInv'
<1> USE DEF AInv, CatalogueTypeOK, CInv, CartTypeOK
<1>1. stale[r] \subseteq withdrawn'
  BY DEF PInv
<1>2. alone \subseteq Requests
  OBVIOUS
<1>3. ASSUME NEW c \in Customers, ViewCart(r, c) PROVE PInv'
  <2>1. Enter(r, c, 0, "hgetall") /\ "hgetall" \in CartPoints
    BY <1>3 DEF ViewCart, CartPoints
  <2>2. ByItself(r)' /\ Promise(r)'
    BY <1>3, <2>1, EnterAlone DEF ViewCart, ByItself, Promise, CartPoints
  <2> QED
    BY <1>3, <2>1, <2>2, EnterPromise DEF ViewCart
<1>4. ASSUME NEW c \in Customers, NEW p \in Products, RemoveLine(r, c, p) PROVE PInv'
  <2>1. Enter(r, c, p, "hgetall") /\ "hgetall" \in CartPoints
    BY <1>4 DEF RemoveLine, CartPoints
  <2>2. ByItself(r)' /\ Promise(r)'
    BY <1>4, <2>1, EnterAlone DEF RemoveLine, ByItself, Promise, CartPoints
  <2>3. \A d \in Customers : d # c => cart'[d] = cart[d]
    BY <1>4 DEF RemoveLine, Store
  <2>4. \A q \in alone' \ {r} : cart'[who[q]] = cart[who[q]]
    BY <1>2, <2>1, <2>3, EnterAlone DEF PInv, ByItself, InHand
  <2> QED
    BY <1>4, <2>1, <2>2, <2>4, EnterPromise DEF RemoveLine
<1>5. ASSUME NEW c \in Customers, NEW p \in Products, NEW n \in Amounts, LineExists(r, c, p, n)
      PROVE  PInv'
  <2>1. Enter(r, c, p, "fields") /\ "fields" \in CartPoints
    BY <1>5 DEF LineExists, CartPoints
  <2>2. ByItself(r)' /\ Promise(r)'
    BY <1>5, <2>1, EnterAlone DEF LineExists, ByItself, Promise, CartPoints
  <2> QED
    BY <1>5, <2>1, <2>2, EnterPromise DEF LineExists
<1>6. ASSUME NEW c \in Customers, NEW p \in Products, NEW n \in Amounts, LoadForAdd(r, c, p, n)
      PROVE  PInv'
  <2>1. Enter(r, c, p, "hget") /\ "hget" \in CartPoints
    BY <1>6 DEF LoadForAdd, CartPoints
  <2>2. expected'[r] = cart[c][p] + n /\ amount'[r] = n /\ UNCHANGED cart
    BY <1>6 DEF LoadForAdd
  <2>3. ByItself(r)' /\ Promise(r)'
    BY <2>1, <2>2, EnterAlone DEF ByItself, Promise, Owes, CartPoints
  <2> QED
    BY <1>6, <2>1, <2>3, EnterPromise DEF LoadForAdd
<1>7. ASSUME NEW c \in Customers, ClearCart(r, c) PROVE PInv'
  <2>1. /\ \A q \in Requests \ {r} : pc'[q] = pc[q] /\ UNCHANGED <<who, item>>
        /\ pc[r] = "idle" /\ pc'[r] = "done"
    BY <1>7 DEF ClearCart, Proceed, Goto, localVars, MayBegin
  <2>2. \A d \in Customers : d # c => cart'[d] = cart[d]
    BY <1>7 DEF ClearCart, Store
  <2>3. \A q \in alone : pc[q] \in CartPoints /\ who[q] \in Customers
    BY <1>2 DEF PInv, ByItself, InHand
  <2>4. \A q \in alone' : who[q] # c
    BY <1>2, <1>7, <2>3 DEF ClearCart, Busy, CartPoints, Ended
  <2>5. \A q \in alone' \ {r} : cart'[who[q]] = cart[who[q]]
    BY <1>7, <2>2, <2>3, <2>4 DEF ClearCart
  <2>6. ByItself(r)' /\ Promise(r)'
    BY <1>7, <2>1 DEF ClearCart, PInv, ByItself, Promise, CartPoints
  <2>7. pc'[r] \notin CartPoints
    BY <2>1 DEF CartPoints
  <2> QED
    BY <1>1, <1>7, <2>1, <2>5, <2>6, <2>7, OnePromise DEF ClearCart
<1> QED
  BY <1>3, <1>4, <1>5, <1>6, <1>7 DEF CartBegin

\* A command of a handler at work on the cart of its customer.
LEMMA WorkPromise ==
  ASSUME AInv, CInv, PInv, NEW r \in Requests, pc[r] \in CartPoints,
         \A q \in Requests \ {r} : /\ pc'[q] = pc[q] /\ who'[q] = who[q] /\ item'[q] = item[q]
                                   /\ amount'[q] = amount[q] /\ expected'[q] = expected[q]
                                   /\ stale'[q] = stale[q],
         alone' \subseteq alone, withdrawn \subseteq withdrawn',
         pc'[r] \in CartPoints => who'[r] = who[r], r \in alone' => pc'[r] \in CartPoints,
         \A c \in Customers : c # who[r] => cart'[c] = cart[c],
         stale'[r] \subseteq withdrawn', Promise(r)'
  PROVE  PInv'
<1>1. \A q \in alone' \ {r} : q \in Requests /\ q \in alone
  BY DEF CInv, CartTypeOK
<1>2. \A q \in alone' \ {r} : who[q] \in Customers /\ who[q] # who[r]
  BY <1>1 DEF PInv, ByItself, AInv, InHand
<1>3. ByItself(r)'
  BY DEF PInv, ByItself
<1> QED
  BY <1>1, <1>2, <1>3, OnePromise

LEMMA AnswerPromise ==
  ASSUME AInv, CInv, PInv, NEW r \in Requests, pc[r] \in CartPoints,
         NEW how \in {"done", "refused"}, CartAnswer(r, how), withdrawn \subseteq withdrawn',
         \A c \in Customers : c # who[r] => cart'[c] = cart[c]
  PROVE  PInv'
<1> USE DEF AInv, CatalogueTypeOK, CInv, CartTypeOK
<1>1. /\ \A q \in Requests \ {r} : /\ pc'[q] = pc[q] /\ who'[q] = who[q] /\ item'[q] = item[q]
                                    /\ amount'[q] = amount[q] /\ expected'[q] = expected[q]
                                    /\ stale'[q] = stale[q]
      /\ alone' \subseteq alone /\ r \notin alone' /\ expected'[r] = 0 /\ stale'[r] = {}
      /\ pc'[r] = how
  BY DEF CartAnswer, Answer, Goto
<1>2. Promise(r)' /\ pc'[r] \notin CartPoints
  BY <1>1 DEF Promise, CartPoints
<1> QED
  BY <1>1, <1>2, WorkPromise

LEMMA StepPromise ==
  ASSUME AInv, CInv, PInv, NEW r \in Requests, CartStep(r),
         withdrawn' = withdrawn \cup {p \in Products : ~Visible(p)'}
  PROVE  PInv'
<1> USE DEF AInv, CatalogueTypeOK, CInv, CartTypeOK
<1>1. ASSUME NEW to \in CartPoints, Proceed(r, to), alone' = alone, expected' = expected,
             pc[r] \in CartPoints,
             \A q \in Requests \ {r} : amount'[q] = amount[q] /\ stale'[q] = stale[q],
             \A c \in Customers : c # who[r] => cart'[c] = cart[c],
             stale'[r] \subseteq withdrawn', Promise(r)'
      PROVE  PInv'
  <2>1. /\ \A q \in Requests \ {r} : /\ pc'[q] = pc[q] /\ who'[q] = who[q] /\ item'[q] = item[q]
                                      /\ expected'[q] = expected[q]
        /\ pc'[r] = to /\ who'[r] = who[r]
    BY <1>1 DEF Proceed, Goto, localVars
  <2> QED
    BY <1>1, <2>1, WorkPromise
<1>2. \A to : Proceed(r, to) => pc'[r] = to /\ who'[r] = who[r] /\ item'[r] = item[r]
  BY DEF Proceed, Goto, localVars
<1>3. stale[r] \subseteq withdrawn' /\ Promise(r) /\ expected[r] \in Nat
  BY DEF PInv
<1>4. ASSUME ReadLine(r) PROVE PInv'
  <2>1. pc[r] \in CartPoints /\ pc[r] = "hget"
    BY <1>4 DEF ReadLine, CartPoints
  <2>2. CASE CartAnswer(r, "refused")
    BY <1>4, <2>1, <2>2, AnswerPromise DEF ReadLine
  <2>3. CASE ~CartAnswer(r, "refused")
    <3>1. /\ amount' = [amount EXCEPT ![r] = cart[who[r]][item[r]] + amount[r]]
          /\ Proceed(r, "hset") /\ UNCHANGED <<product, raw, stale, cartHistory, cart>>
      BY <1>4, <2>3 DEF ReadLine
    <3>2. Promise(r)'
      BY <1>2, <1>3, <2>1, <3>1 DEF Promise, Owes, CartPoints, cartHistory
    <3> QED
      BY <1>1, <1>3, <2>1, <3>1, <3>2 DEF CartPoints, cartHistory
  <2> QED
    BY <2>2, <2>3
<1>5. ASSUME LoadForUpdate(r) PROVE PInv'
  <2>1. pc[r] \in CartPoints /\ pc[r] = "fields"
    BY <1>5 DEF LoadForUpdate, CartPoints
  <2>2. CASE CartAnswer(r, "refused")
    BY <1>5, <2>1, <2>2, AnswerPromise DEF LoadForUpdate
  <2>3. CASE ~CartAnswer(r, "refused")
    <3>1. Proceed(r, "hset") /\ KeepLocals /\ UNCHANGED cart
      BY <1>5, <2>3 DEF LoadForUpdate
    <3>2. Promise(r)'
      BY <1>2, <1>3, <2>1, <3>1 DEF Promise, Owes, CartPoints, KeepLocals, cartLocals, cartHistory
    <3> QED
      BY <1>1, <1>3, <2>1, <3>1, <3>2 DEF CartPoints, KeepLocals, cartLocals, cartHistory
  <2> QED
    BY <2>2, <2>3
<1>6. ASSUME WriteLine(r) PROVE PInv'
  <2>1. pc[r] \in CartPoints /\ pc[r] = "hset" /\ who[r] \in Customers
    BY <1>6 DEF WriteLine, CartPoints, InHand
  <2>2. /\ cart' = [cart EXCEPT ![who[r]] = [cart[who[r]] EXCEPT ![item[r]] = amount[r]]]
        /\ Proceed(r, "expire") /\ KeepLocals
    BY <1>6 DEF WriteLine, Store
  <2>3. item[r] \in Products => cart'[who[r]][item[r]] = amount[r]
    BY <2>1, <2>2
  <2>4. Promise(r)'
    BY <1>2, <1>3, <2>1, <2>2, <2>3
       DEF Promise, Owes, CartPoints, KeepLocals, cartLocals, cartHistory
  <2>5. \A c \in Customers : c # who[r] => cart'[c] = cart[c]
    BY <2>2
  <2> QED
    BY <1>1, <1>3, <2>1, <2>2, <2>4, <2>5 DEF CartPoints, KeepLocals, cartLocals, cartHistory
<1>7. ASSUME ArmCart(r) PROVE PInv'
  <2>1. pc[r] \in CartPoints /\ pc[r] = "expire"
    BY <1>7 DEF ArmCart, CartPoints
  <2>2. Proceed(r, "hgetall") /\ KeepLocals /\ UNCHANGED cart
    BY <1>7 DEF ArmCart
  <2>3. Promise(r)'
    BY <1>2, <1>3, <2>1, <2>2 DEF Promise, Owes, CartPoints, KeepLocals, cartLocals, cartHistory
  <2> QED
    BY <1>1, <1>3, <2>1, <2>2, <2>3 DEF CartPoints, KeepLocals, cartLocals, cartHistory
<1>8. ASSUME ReadCart(r) PROVE PInv'
  <2>1. pc[r] \in CartPoints /\ pc[r] = "hgetall"
    BY <1>8 DEF ReadCart, CartPoints
  <2>2. CASE CartAnswer(r, "done")
    BY <1>8, <2>1, <2>2, AnswerPromise DEF ReadCart
  <2>3. CASE ~CartAnswer(r, "done")
    <3>1. Proceed(r, "select") /\ UNCHANGED <<amount, stale, cartHistory, cart>>
      BY <1>8, <2>3 DEF ReadCart
    <3>2. Promise(r)'
      BY <1>2, <1>3, <2>1, <3>1 DEF Promise, Owes, CartPoints, cartHistory
    <3> QED
      BY <1>1, <1>3, <2>1, <3>1, <3>2 DEF CartPoints, cartHistory
  <2> QED
    BY <2>2, <2>3
<1>9. ASSUME SelectLines(r) PROVE PInv'
  <2>1. pc[r] \in CartPoints /\ pc[r] = "select"
    BY <1>9 DEF SelectLines, CartPoints
  <2>2. CASE CartAnswer(r, "done")
    BY <1>9, <2>1, <2>2, AnswerPromise DEF SelectLines
  <2>3. CASE ~CartAnswer(r, "done")
    <3>1. /\ stale' = [stale EXCEPT ![r] = {p \in raw[r] : ~Visible(p)}]
          /\ Proceed(r, "prune") /\ UNCHANGED <<product, amount, cartHistory, cart>>
      BY <1>9, <2>3 DEF SelectLines
    <3>2. Promise(r)'
      BY <1>2, <1>3, <2>1, <3>1 DEF Promise, Owes, CartPoints, cartHistory
    <3>3. stale'[r] \subseteq withdrawn'
      BY <3>1 DEF Visible
    <3> QED
      BY <1>1, <2>1, <3>1, <3>2, <3>3 DEF CartPoints, cartHistory
  <2> QED
    BY <2>2, <2>3
<1>10. ASSUME Prune(r) PROVE PInv'
  <2>1. pc[r] \in CartPoints
    BY <1>10 DEF Prune, CartPoints
  <2>2. \A c \in Customers : c # who[r] => cart'[c] = cart[c]
    BY <1>10 DEF Prune, Store
  <2> QED
    BY <1>10, <2>1, <2>2, AnswerPromise DEF Prune
<1> QED
  BY <1>4, <1>5, <1>6, <1>7, <1>8, <1>9, <1>10 DEF CartStep

LEMMA OtherPoints ==
  ASSUME AInv, NEW r \in Requests,
         \/ CatalogueBegin(r) \/ CatalogueStep(r) \/ ReviewBegin(r) \/ ReviewStep(r) \/ ListStep(r)
  PROVE  /\ pc[r] \notin CartPoints \cup {"failed", "crashed"} /\ pc'[r] \notin CartPoints
         /\ \A q \in Requests \ {r} : pc'[q] = pc[q] /\ who'[q] = who[q] /\ item'[q] = item[q]
<1> USE DEF AInv, CatalogueTypeOK, CartPoints, Goto
<1>1. CASE CatalogueBegin(r) \/ CatalogueStep(r)
  BY <1>1 DEF CatalogueBegin, CatalogueStep, CreateProduct, LoadOwned, CommitEdit,
     CommitWithdrawal, MayBegin, Proceed, Answer, localVars
<1>2. CASE ReviewBegin(r)
  BY <1>2 DEF ReviewBegin, BeginReview, LoadReview, MayBegin, Proceed, localVars
<1>3. CASE ReviewStep(r)
  BY <1>3 DEF ReviewStep, LookForReview, InsertReview, ViolatePair, CommitRevision, LoseReview,
     EraseReview, ReviewAnswer, Answer, Proceed, localVars
<1>4. CASE ListStep(r)
  BY <1>4 DEF ListStep, ListProducts, ListReviews, LoseListing, GetPage, MayBegin, Answer
<1> QED
  BY <1>1, <1>2, <1>3, <1>4

LEMMA CrashPoints ==
  ASSUME AInv, NEW r \in Requests, Crash(r)
  PROVE  /\ pc'[r] \in {"failed", "crashed"} /\ UNCHANGED <<who, item>>
         /\ \A q \in Requests \ {r} : pc'[q] = pc[q]
BY DEF AInv, Crash, Goto, localVars

LEMMA NextPromise == AInv /\ CInv /\ PInv /\ [Next]_vars => PInv'
<1> SUFFICES ASSUME AInv, CInv, PInv, [Next]_vars PROVE PInv'
  OBVIOUS
<1>1. CASE UNCHANGED vars
  BY <1>1 DEF PInv, ByItself, Promise, Owes, vars, localVars, cartVars, cartLocals, cartHistory
<1>2. CASE Work
  <2>1. withdrawn' = withdrawn \cup {p \in Products : ~Visible(p)'}
    BY <1>2 DEF Work
  <2>2. ASSUME NEW r \in Requests, CartBegin(r) \/ CartStep(r) PROVE PInv'
    BY <2>1, <2>2, BeginPromise, StepPromise
  <2>3. ASSUME NEW r \in Requests, UNCHANGED cartVars,
               \/ CatalogueBegin(r) \/ CatalogueStep(r) \/ ReviewBegin(r) \/ ReviewStep(r)
               \/ ListStep(r)
        PROVE  PInv'
    <3>1. ByItself(r)' /\ Promise(r)' /\ pc'[r] \notin CartPoints /\ stale'[r] \subseteq withdrawn'
      BY <2>1, <2>3, OtherPoints DEF PInv, ByItself, Promise, cartVars, cartLocals, cartHistory
    <3> QED
      BY <2>1, <2>3, <3>1, OtherPoints, OnePromise DEF cartVars, cartLocals, cartHistory
  <2>4. ASSUME NEW r \in Requests, Crash(r) PROVE PInv'
    <3>1. ByItself(r)' /\ Promise(r)' /\ pc'[r] \notin CartPoints /\ stale'[r] \subseteq withdrawn'
      BY <2>1, <2>4, CrashPoints DEF PInv, ByItself, Promise, Crash, CartPoints
    <3> QED
      BY <2>1, <2>4, <3>1, CrashPoints, OnePromise DEF Crash
  <2>5. ASSUME NEW r \in Requests, ListStep(r) PROVE UNCHANGED cartVars
    BY <2>5 DEF ListStep, ListProducts, ListReviews, LoseListing, GetPage
  <2> QED
    BY <1>2, <2>2, <2>3, <2>4, <2>5 DEF Work
<1> QED
  BY <1>1, <1>2 DEF Next, Idle

LEMMA Promises == Spec => [](AInv /\ CInv /\ PInv)
<1>1. Init => AInv /\ CInv /\ PInv
  <2>1. Init => PInv
    BY DEF Init, CatalogueInit, CartInit, PInv, ByItself, Promise
  <2> QED
    BY <2>1, InitHand, InitCart
<1>2. AInv /\ CInv /\ PInv /\ [Next]_vars => (AInv /\ CInv /\ PInv)'
  BY NextHand, NextCart, NextPromise
<1> QED
  BY <1>1, <1>2, PTL DEF Spec

\* A cart request is answered by a step of its own.
LEMMA AnsweredByItself ==
  ASSUME AInv, Next, NEW r \in Requests, pc[r] \in CartPoints, pc'[r] = "done"
  PROVE  CartStep(r)
<1>1. ASSUME NEW q \in Requests, CartBegin(q) PROVE FALSE
  BY <1>1, CartSteps
     DEF CartBegin, ViewCart, ClearCart, RemoveLine, LoadForAdd, LineExists, Enter, MayBegin, CartPoints
<1>2. ASSUME NEW q \in Requests, q # r, CartStep(q) PROVE FALSE
  BY <1>2, CartSteps DEF CartPoints
<1>3. ASSUME NEW q \in Requests,
             \/ CatalogueBegin(q) \/ CatalogueStep(q) \/ ReviewBegin(q) \/ ReviewStep(q)
             \/ ListStep(q)
      PROVE  FALSE
  BY <1>3, OtherPoints DEF CartPoints
<1>4. ASSUME NEW q \in Requests, Crash(q) PROVE FALSE
  BY <1>4, CrashPoints DEF CartPoints
<1>5. ASSUME Idle PROVE FALSE
  BY <1>5 DEF Idle, vars, CartPoints
<1> QED
  BY <1>1, <1>2, <1>3, <1>4, <1>5 DEF Next, Work

LEMMA NextPrune ==
  ASSUME AInv, CInv, PInv, Next, NEW r \in Requests, NEW p \in Products,
         pc[r] = "prune", pc'[r] = "done", cart[who[r]][p] > 0, cart'[who[r]][p] = 0
  PROVE  p \in withdrawn
<1>1. Prune(r) /\ who[r] \in Customers
  BY AnsweredByItself DEF CartStep, CartPoints, ReadLine, LoadForUpdate, WriteLine, ArmCart,
     ReadCart, SelectLines, AInv, InHand
<1>2. cart'[who[r]][p] = IF p \in stale[r] THEN 0 ELSE cart[who[r]][p]
  BY <1>1 DEF Prune, Store, CInv, CartTypeOK
<1>3. cart[who[r]][p] \in Nat
  BY <1>1 DEF CInv, CartTypeOK
<1> QED
  BY <1>2, <1>3 DEF PInv

\* Pruning takes only lines of products that have been off sale, whatever the tabs of
\* the customer and the merchants do meanwhile (get_cart).
THEOREM SaleableLinesStay == Spec => OnlyUnavailableLinesVanish
<1>1. AInv /\ CInv /\ PInv /\ [Next]_vars =>
        [\A r \in Requests, p \in Products :
           pc[r] = "prune" /\ pc'[r] = "done" /\ cart[who[r]][p] > 0
             /\ cart'[who[r]][p] = 0 => p \in withdrawn]_<<cart, pc>>
  BY NextPrune DEF vars, cartVars
<1> QED
  BY <1>1, Promises, PTL DEF Spec, OnlyUnavailableLinesVanish

LEMMA NextAdd ==
  ASSUME AInv, CInv, PInv, Next, NEW r \in alone, pc[r] # "done", pc'[r] = "done",
         expected[r] > 0, item[r] \notin withdrawn
  PROVE  cart'[who[r]][item[r]] = expected[r]
<1>1. /\ r \in Requests /\ pc[r] \in CartPoints /\ who[r] \in Customers /\ item[r] \in Products
      /\ Owes(r)
  BY DEF CInv, CartTypeOK, PInv, ByItself, Promise, AInv, InHand
<1>2. CartStep(r)
  BY <1>1, AnsweredByItself
<1>3. CASE ReadCart(r) \/ SelectLines(r)
  BY <1>1, <1>3 DEF ReadCart, SelectLines, Owes
<1>4. CASE Prune(r)
  <2>1. cart'[who[r]][item[r]] = IF item[r] \in stale[r] THEN 0 ELSE cart[who[r]][item[r]]
    BY <1>1, <1>4 DEF Prune, Store, CInv, CartTypeOK
  <2> QED
    BY <1>1, <1>4, <2>1 DEF Prune, Owes, PInv
<1>5. CASE ReadLine(r) \/ LoadForUpdate(r) \/ WriteLine(r) \/ ArmCart(r)
  BY <1>1, <1>5 DEF ReadLine, LoadForUpdate, WriteLine, ArmCart, CartAnswer, Answer, Proceed, Goto,
     AInv
<1> QED
  BY <1>2, <1>3, <1>4, <1>5 DEF CartStep

\* A POST /cart/items that had the cart for itself has added what it asked for when it
\* is answered (add_item).
THEOREM UndisturbedAdds == Spec => UndisturbedAdd
<1>1. AInv /\ CInv /\ PInv /\ [Next]_vars =>
        [\A r \in alone :
           pc[r] # "done" /\ pc'[r] = "done" /\ expected[r] > 0 /\ item[r] \notin withdrawn
             => cart'[who[r]][item[r]] = expected[r]]_<<cart, pc>>
  BY NextAdd DEF vars, cartVars
<1> QED
  BY <1>1, Promises, PTL DEF Spec, UndisturbedAdd
=============================================================================
