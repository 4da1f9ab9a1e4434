-------------------------------- MODULE Cart --------------------------------
(***************************************************************************)
(* The cart endpoints over the Redis hash cart:{user_id}, one action per   *)
(* Redis command and per SELECT, while other tabs of the same customer and *)
(* the merchants go on.                                                    *)
(***************************************************************************)
EXTENDS Catalogue

CONSTANTS Amounts,    \* quantities in the bodies of POST and PATCH /cart/items
          Carts       \* the contents of a cart to start from

ASSUME AmountsAssumption == /\ Amounts \subseteq Nat \ {0}
                            /\ Carts \subseteq [Products -> Nat]

VARIABLES
  cart,      \* cart[c][p]: the quantity, 0 for a field that is absent
  armed,     \* the carts whose key has a TTL
  amount,    \* the quantity r asks for, then the one it will write
  raw,       \* the fields that get_cart has read
  stale,     \* those of them it will prune
  alone,     \* history: no other request of the same customer ran during r
  expected,  \* history: what a POST by r should leave in the line, if alone
  withdrawn  \* history: products that have ever been out of the catalogue

cartHistory == <<alone, expected>>
cartLocals == <<amount, raw, stale, cartHistory>>
cartVars == <<cart, armed, cartLocals>>

CartPoints == {"hget", "fields", "hset", "expire", "hgetall", "select", "prune"}

Fields(line) == {p \in Products : line[p] > 0}
Empty == [p \in Products |-> 0]

CartTypeOK ==
  /\ cart \in [Customers -> [Products -> Nat]]
  /\ armed \subseteq Customers
  /\ amount \in [Requests -> Nat]
  /\ raw \in [Requests -> SUBSET Products]
  /\ stale \in [Requests -> SUBSET Products]
  /\ alone \subseteq Requests
  /\ expected \in [Requests -> Nat]
  /\ withdrawn \subseteq Products

CartInit ==
  /\ cart \in [Customers -> Carts]
  /\ armed = {c \in Customers : Fields(cart[c]) # {}}
  /\ amount = [r \in Requests |-> 0]
  /\ raw = [r \in Requests |-> {}]
  /\ stale = [r \in Requests |-> {}]
  /\ alone = {}
  /\ expected = [r \in Requests |-> 0]
  /\ withdrawn = {p \in Products : ~Visible(p)}

Store(c, lines) ==
  /\ cart' = [cart EXCEPT ![c] = lines]
  /\ armed' = IF Fields(lines) = {} THEN armed \ {c} ELSE armed

KeepLocals == UNCHANGED <<product, cartLocals>>

CartAnswer(r, how) ==
  /\ Answer(r, how)
  /\ amount' = [amount EXCEPT ![r] = 0]
  /\ raw' = [raw EXCEPT ![r] = {}]
  /\ stale' = [stale EXCEPT ![r] = {}]
  /\ expected' = [expected EXCEPT ![r] = 0]
  /\ alone' = alone \ {r}
  /\ UNCHANGED product

\* A cart request of customer c begins: whoever else is at work for c is not alone.
Enter(r, c, p, to) ==
  /\ MayBegin(r)
  /\ who' = [who EXCEPT ![r] = c]
  /\ item' = [item EXCEPT ![r] = p]
  /\ Goto(r, to)
  /\ LET others == {q \in Busy : who[q] = c}
     IN alone' = IF others = {} THEN alone \cup {r} ELSE alone \ others
  /\ UNCHANGED <<product, form, raw, stale>>

-----------------------------------------------------------------------------
(* POST /cart/items *)

\* _load_purchasable, a 404 without a visible row.
LoadForAdd(r, c, p, n) ==
  /\ Visible(p)
  /\ Enter(r, c, p, "hget")
  /\ seen' = [seen EXCEPT ![r] = product[p]]
  /\ amount' = [amount EXCEPT ![r] = n]
  /\ expected' = [expected EXCEPT ![r] = cart[c][p] + n]
  /\ UNCHANGED <<cart, armed>>

\* HGET; more than the stock that was read is a 409.
ReadLineUnsummed(r) ==  \* Mutant: the line is overwritten instead of increased
  /\ pc[r] = "hget"
  /\ IF amount[r] > seen[r].stock
     THEN CartAnswer(r, "refused")
     ELSE Proceed(r, "hset") /\ KeepLocals
  /\ UNCHANGED <<cart, armed>>

ReadLine(r) ==
  /\ pc[r] = "hget"
  /\ LET sum == cart[who[r]][item[r]] + amount[r]
     IN IF sum > seen[r].stock
        THEN CartAnswer(r, "refused")
        ELSE /\ amount' = [amount EXCEPT ![r] = sum]
             /\ Proceed(r, "hset")
             /\ UNCHANGED <<product, raw, stale, cartHistory>>
  /\ UNCHANGED <<cart, armed>>

-----------------------------------------------------------------------------
(* PATCH /cart/items/{id} *)

\* HEXISTS, a 404 without the field.
LineExists(r, c, p, n) ==
  /\ cart[c][p] > 0
  /\ Enter(r, c, p, "fields")
  /\ amount' = [amount EXCEPT ![r] = n]
  /\ UNCHANGED <<seen, cart, armed, expected>>

\* _load_purchasable and _check_stock: 404, 409, or go on.
LoadForUpdate(r) ==
  /\ pc[r] = "fields"
  /\ IF Visible(item[r]) /\ amount[r] <= product[item[r]].stock
     THEN Proceed(r, "hset") /\ KeepLocals
     ELSE CartAnswer(r, "refused")
  /\ UNCHANGED <<cart, armed>>

-----------------------------------------------------------------------------
(* What POST and PATCH end with *)

\* HSET.
WriteLine(r) ==
  /\ pc[r] = "hset"
  /\ Store(who[r], [cart[who[r]] EXCEPT ![item[r]] = amount[r]])
  /\ Proceed(r, "expire")
  /\ KeepLocals

\* EXPIRE, which does nothing to a key that is gone.
ArmCartNever(r) ==  \* Mutant: the key is never given a TTL
  /\ pc[r] = "expire"
  /\ Proceed(r, "hgetall")
  /\ KeepLocals /\ UNCHANGED <<cart, armed>>

ArmCart(r) ==
  /\ pc[r] = "expire"
  /\ armed' = IF Fields(cart[who[r]]) = {} THEN armed ELSE armed \cup {who[r]}
  /\ Proceed(r, "hgetall")
  /\ KeepLocals /\ UNCHANGED cart

-----------------------------------------------------------------------------
(* DELETE /cart/items/{id} and DELETE /cart *)

\* HDEL, a 404 if it removed nothing.
RemoveLine(r, c, p) ==
  /\ cart[c][p] > 0
  /\ Enter(r, c, p, "hgetall")
  /\ Store(c, [cart[c] EXCEPT ![p] = 0])
  /\ UNCHANGED <<seen, amount, expected>>

\* DEL, the whole of the request.
ClearCart(r, c) ==
  /\ MayBegin(r)
  /\ Store(c, Empty)
  /\ alone' = alone \ {q \in Busy : who[q] = c}
  /\ Proceed(r, "done")
  /\ UNCHANGED <<product, amount, raw, stale, expected>>

-----------------------------------------------------------------------------
(* GET /cart, and the answer of the other requests *)

ViewCart(r, c) ==
  /\ Enter(r, c, 0, "hgetall")
  /\ UNCHANGED <<seen, amount, expected, cart, armed>>

\* HGETALL; an empty cart is answered at once.
ReadCart(r) ==
  /\ pc[r] = "hgetall"
  /\ IF Fields(cart[who[r]]) = {}
     THEN CartAnswer(r, "done")
     ELSE /\ raw' = [raw EXCEPT ![r] = Fields(cart[who[r]])]
          /\ Proceed(r, "select")
          /\ UNCHANGED <<product, amount, stale, cartHistory>>
  /\ UNCHANGED <<cart, armed>>

\* SELECT of the products: the lines without a visible one are stale.
SelectLines(r) ==
  /\ pc[r] = "select"
  /\ LET unavailable == {p \in raw[r] : ~Visible(p)}
     IN IF unavailable = {}
        THEN CartAnswer(r, "done")
        ELSE /\ stale' = [stale EXCEPT ![r] = unavailable]
             /\ Proceed(r, "prune")
             /\ UNCHANGED <<product, amount, raw, cartHistory>>
  /\ UNCHANGED <<cart, armed>>

\* HDEL of the stale lines.
PruneUnshown(r) ==  \* Mutant: everything the answer does not show is deleted
  /\ pc[r] = "prune"
  /\ Store(who[r], [p \in Products |->
                      IF p \in raw[r] \ stale[r] THEN cart[who[r]][p] ELSE 0])
  /\ CartAnswer(r, "done")

Prune(r) ==
  /\ pc[r] = "prune"
  /\ Store(who[r], [p \in Products |->
                      IF p \in stale[r] THEN 0 ELSE cart[who[r]][p]])
  /\ CartAnswer(r, "done")

-----------------------------------------------------------------------------
CartStep(r) ==
  \/ ReadLine(r) \/ LoadForUpdate(r) \/ WriteLine(r) \/ ArmCart(r)
  \/ ReadCart(r) \/ SelectLines(r) \/ Prune(r)

CartBegin(r) ==
  \E c \in Customers :
    \/ ViewCart(r, c) \/ ClearCart(r, c)
    \/ \E p \in Products :
         \/ RemoveLine(r, c, p)
         \/ \E n \in Amounts : LoadForAdd(r, c, p, n) \/ LineExists(r, c, p, n)

-----------------------------------------------------------------------------
(* Properties *)

\* Pruning (get_cart) never takes a line of a product that has been on sale all along:
\* such a line vanishes only when the customer removes it or empties the cart, however
\* the answers of several tabs overlap.
OnlyUnavailableLinesVanish ==
  [][\A r \in Requests, p \in Products :
       pc[r] = "prune" /\ pc'[r] = "done" /\ cart[who[r]][p] > 0
         /\ cart'[who[r]][p] = 0 => p \in withdrawn]_<<cart, pc>>

\* A POST /cart/items that no other request of the customer ran against has increased
\* the line by what it asked for when it is answered, whatever merchants do to the
\* stock meanwhile, unless the product was withdrawn (add_item through get_cart).
UndisturbedAdd ==
  [][\A r \in alone :
       pc[r] # "done" /\ pc'[r] = "done" /\ expected[r] > 0 /\ item[r] \notin withdrawn
         => cart'[who[r]][item[r]] = expected[r]]_<<cart, pc>>

\* A cart key without a TTL (HSET and EXPIRE are two commands, and removing the last
\* line drops the key with its TTL) has a handler between the two, or one that died
\* there.
CartsExpire ==
  \A c \in Customers :
    Fields(cart[c]) # {} /\ c \notin armed =>
      \E r \in Requests : who[r] = c /\ pc[r] \in {"expire", "crashed"}
=============================================================================
