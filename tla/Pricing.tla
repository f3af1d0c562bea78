------------------------------ MODULE Pricing ------------------------------
(***************************************************************************)
(* What a purchase costs, from the catalogue to the provider: the checks   *)
(* of quantity and stock, cart.quote and checkout.preview, and the part of *)
(* checkout.start that resolves the lines, lets the host's resolver have   *)
(* its say, checks the proof of a delegated payment, claims the cart,      *)
(* reserves, and tells the provider what to charge.  Merchant and shopper  *)
(* change the catalogue and the cart between any two reads of a request.   *)
(*                                                                         *)
(* One request is followed at a time.  A line's catalogue item and stock   *)
(* row are read in one step, and the reservations of a start are one step  *)
(* (Checkout has them one by one).  An item's title and other details are  *)
(* left out; there is one currency; a coupon's rate is in quarters.        *)
(***************************************************************************)
EXTENDS Sums

CONSTANTS
  Sellables, Prices,   \* a price belongs to one sellable (SellableOf)
  SellableOf,
  Amounts,             \* the amounts a price may have
  MaxPerOrder,         \* of every sellable
  StockRows,           \* the stock rows a sellable may have, NoRow among them
  NoRow,
  Codes, Rates,        \* the coupon codes, and the rates they may have (NoRate: refused)
  NoRate,
  Asks,                \* the inputs of preview and start
  Fee,                 \* what the host's resolver adds to a total
  MaxAsks, MaxEdits

VARIABLES
  prices,    \* prices[p]: whether price p is active, its amount and its purchase mode
  active,    \* the active sellables
  rows,      \* rows[s]: the stock row of s
  rates,     \* rates[c]: what the coupon resolver says of code c
  cart,      \* the shopper's cart
  host,      \* whether a quoteResolver is configured
  stripe,    \* whether the provider is the Stripe adapter
  job,       \* the request at work
  previewed, \* the last preview that was answered
  charged,   \* what the provider was told to charge
  drifted,   \* history: the catalogue or a rate changed while the start read and proved
  asks, edits

priceVars == <<prices, active, rows, rates, cart, host, stripe, job, previewed, charged, drifted, asks, edits>>

Buy == "buy"           \* the line of checkout input that names a sellable
AnyPrice == "any"      \* no price was named
Absent == "absent"     \* no coupon code in the input
Blank == "blank"       \* an empty one, which removes the cart's coupon
NoSellable == "none"
NoCoupon == [code |-> Absent, rate |-> 0]
Nothing == [nothing |-> TRUE]
Empty == [p \in {} |-> p]
NoCart == [status |-> "none", expired |-> FALSE, version |-> 0, lines |-> Empty, coupon |-> NoCoupon]
Idle == [pc |-> "idle"]

\* An input: by the cart's id, or an item to buy at once, with a coupon code, and with a
\* delegated payment's token.
Ask == [byId : BOOLEAN, sellable : Sellables \cup {NoSellable}, price : Prices \cup {AnyPrice},
        quantity : 1..MaxPerOrder, code : Codes \cup {Absent, Blank}, delegated : BOOLEAN]
Buys(ask) == ask.sellable # NoSellable
BuyNow(ask) == Buys(ask) /\ ~ask.byId

\* A stock row: its policy, the units that are not reserved, and what overrides them.
StockRow == [policy : {"finite", "manual", "backorder", "untracked"}, free : Int,
             back : BOOLEAN, override : {"none", "on", "off"}]

\* The modules that use this one assume it.
PricingAssumption ==
  /\ SellableOf \in [Prices -> Sellables] /\ {Buy, AnyPrice} \cap Prices = {}
  /\ IsFiniteSet(Prices) /\ Amounts \subseteq Nat /\ Fee \in Nat /\ MaxPerOrder \in Nat \ {0}
  /\ NoRow \in StockRows \ StockRow /\ StockRows \subseteq StockRow \cup {NoRow}
  /\ NoRate \in Rates /\ Rates \ {NoRate} \subseteq 0..4
  /\ Asks \subseteq Ask /\ {Absent, Blank} \cap Codes = {}

\* A function with one more value.
Put(f, x, value) == [y \in DOMAIN f \cup {x} |-> IF y = x THEN value ELSE f[y]]

----------------------------------------------------------------------------
(* Stock and limits.                                                       *)

Units(row) == IF row.free < 0 THEN 0 ELSE row.free

\* stockAvailabilityToDTO: an override decides first, then the policy.
Availability(row) ==
  IF row.override = "off" THEN "out_of_stock"
  ELSE IF row.override = "on" THEN "available"
  ELSE IF row.policy = "manual" THEN "manual"
  ELSE IF row.policy = "backorder" \/ (Units(row) = 0 /\ row.back) THEN "backorder"
  ELSE IF row.policy = "untracked" THEN "untracked"
  ELSE IF Units(row) = 0 THEN "out_of_stock" ELSE "available"

\* What a line says of its stock.
Displayed(row) == IF row = NoRow THEN NoRow ELSE <<Availability(row), Units(row)>>

WithinLimits(s, quantity) ==
  /\ quantity <= MaxPerOrder
  /\ rows[s] # NoRow => /\ Availability(rows[s]) # "out_of_stock"
                        /\ Availability(rows[s]) = "available" => quantity <= Units(rows[s])

\* The guard of the statement that reserves.
CanReserve(row, quantity) ==
  row # NoRow /\ (row.policy # "finite" \/ row.back \/ row.free >= quantity)

----------------------------------------------------------------------------
(* Prices and coupons.                                                     *)

OnSale(s) == {p \in Prices : SellableOf[p] = s /\ prices[p].on}

\* selectCartPrice: the price that was named, or the only one there is.
Selected(s, p) ==
  IF p # AnyPrice THEN OnSale(s) \cap {p}
  ELSE IF Cardinality(OnSale(s)) = 1 THEN OnSale(s) ELSE {}

Subtotal(lines) ==
  SumOver([id \in DOMAIN lines |-> lines[id].unit * lines[id].quantity], DOMAIN lines)

\* couponDiscountAmount
Discount(coupon, amount) == (amount * coupon.rate) \div 4

\* The coupon that holds for an input: the cart's own, none, or what the resolver says.
CouponFor(stored, code) ==
  IF code = Absent THEN stored
  ELSE IF code = Blank \/ rates[code] = NoRate THEN NoCoupon
  ELSE [code |-> code, rate |-> rates[code]]
Refused(code) == code \in Codes /\ rates[code] = NoRate

----------------------------------------------------------------------------
(* The quote.                                                              *)

\* siblingSellableQuantity: the other lines of the same sellable count as well.
Siblings(c, p) ==
  SumOver([q \in DOMAIN c.lines |-> c.lines[q].quantity],
          {q \in DOMAIN c.lines \ {p} : SellableOf[q] = SellableOf[p]})

\* A line of the cart, and the line of an item to buy at once, as a request begins with them.
CartLine(c, p) ==
  [sellable |-> SellableOf[p], price |-> p, quantity |-> c.lines[p].quantity,
   demand |-> c.lines[p].quantity + Siblings(c, p), unit |-> c.lines[p].unit]
BuyLine(ask) ==
  [sellable |-> ask.sellable, price |-> ask.price, quantity |-> ask.quantity,
   demand |-> ask.quantity, unit |-> 0]

Lines(c, ask) ==
  [id \in DOMAIN c.lines \cup (IF BuyNow(ask) THEN {Buy} ELSE {}) |->
     IF id = Buy THEN BuyLine(ask) ELSE CartLine(c, id)]

\* quoteCartLine and quoteInputLine: a line that cannot be bought keeps its old amount.
Quoted(line) ==
  LET priced == IF line.sellable \in active THEN Selected(line.sellable, line.price) ELSE {}
  IN  [price |-> IF priced = {} THEN line.price ELSE CHOOSE p \in priced : TRUE,
       quantity |-> line.quantity,
       unit |-> IF priced = {} THEN line.unit ELSE prices[CHOOSE p \in priced : TRUE].amount,
       shows |-> Displayed(rows[line.sellable]),
       ok |-> priced # {} /\ WithinLimits(line.sellable, line.demand)]

\* createDefaultCartQuote, once its lines are quoted.
Quote(c, ask, items) ==
  LET coupon == CouponFor(c.coupon, ask.code)
      changed == \/ \E id \in DOMAIN items \ {Buy} : items[id].unit # c.lines[id].unit
                 \/ ask.code # Absent /\ (IF ask.code = Blank THEN c.coupon # NoCoupon
                                                              ELSE c.coupon.code # ask.code)
      unavailable == \/ \E id \in DOMAIN items : ~items[id].ok
                     \/ Buys(ask) /\ ask.byId
                     \/ DOMAIN items = {}
                     \/ Refused(ask.code)
      discount == Discount(coupon, Subtotal(items))
  IN  [status |-> IF c.expired THEN "expired" ELSE IF unavailable THEN "unavailable"
                  ELSE IF changed THEN "changed" ELSE "valid",
       items |-> items, coupon |-> coupon, discount |-> discount,
       total |-> Subtotal(items) - discount]

\* The host's quoteResolver.
Resolver(quote) == [quote EXCEPT !.total = @ + Fee]

----------------------------------------------------------------------------
(* The start.                                                              *)

\* The cart a start begins with: none when an item is bought at once.
StartCart(ask) == IF BuyNow(ask) THEN NoCart ELSE cart

\* resolveCheckoutStart and findCheckoutStartCart, before a line is read.
Startable(c, ask) ==
  /\ ~(ask.byId /\ Buys(ask))
  /\ c.status \in {"none", "open"} /\ ~c.expired

\* Seeded fault: the limits of a line leave out the other lines of its sellable.
ResolvableAlone(line) ==
  /\ line.sellable \in active /\ Selected(line.sellable, line.price) # {}
  /\ WithinLimits(line.sellable, line.quantity)

\* resolveCheckoutStartLine
Resolvable(line) ==
  /\ line.sellable \in active /\ Selected(line.sellable, line.price) # {}
  /\ WithinLimits(line.sellable, line.demand)
Resolved(line) ==
  LET p == CHOOSE q \in Selected(line.sellable, line.price) : TRUE
  IN  [price |-> p, quantity |-> line.quantity, unit |-> prices[p].amount,
       mode |-> prices[p].mode, tracked |-> rows[line.sellable] # NoRow]

\* resolveCheckoutStart, after the lines: there are some, of one mode, and the code is good.
Acceptable(ask, items) ==
  /\ Cardinality({items[id].mode : id \in DOMAIN items}) = 1
  /\ ~Refused(ask.code)

Resolution(c, ask, items) ==
  LET coupon == CouponFor(c.coupon, ask.code)
      discount == Discount(coupon, Subtotal(items))
  IN  [items |-> items, coupon |-> coupon, discount |-> discount,
       total |-> Subtotal(items) - discount]

\* checkoutResolutionMatchesDefaultQuote
SameLine(line, quoted) ==
  line.price = quoted.price /\ line.quantity = quoted.quantity /\ line.unit = quoted.unit
Matches(resolution, quote) ==
  /\ DOMAIN resolution.items = DOMAIN quote.items
  /\ \A id \in DOMAIN quote.items : SameLine(resolution.items[id], quote.items[id])
  /\ resolution.coupon.code = quote.coupon.code
  /\ resolution.discount = quote.discount /\ resolution.total = quote.total

\* The units the lines of a resolution take of a sellable that has a stock row.
Takes(items, s) ==
  SumOver([id \in DOMAIN items |-> items[id].quantity],
          {id \in DOMAIN items : SellableOf[items[id].price] = s /\ items[id].tracked})
Reservable(items) == \A s \in Sellables : Takes(items, s) > 0 => CanReserve(rows[s], Takes(items, s))

----------------------------------------------------------------------------
(* Requests.                                                               *)

\* Begin to quote: the cart is read, and its lines wait to be quoted.  What comes after the
\* quote is "show", "compare" (with the resolution) or "prove" (a delegated payment).
Quoting(from, ask, after) ==
  [pc |-> "quoting", after |-> after, ask |-> ask, cart |-> cart, items |-> Empty,
   lines |-> Lines(cart, ask), resolution |-> from,
   version |-> IF from = Nothing THEN 0 ELSE job.cart.version]
Claiming(ask, version, resolution) ==
  [pc |-> "dispatch", ask |-> ask, version |-> version, resolution |-> resolution]

Unread == DOMAIN job.lines \ DOMAIN job.items
NextLine == CHOOSE id \in Unread : TRUE
WithLine(read) == [job EXCEPT !.items = Put(@, NextLine, read)]

Others == UNCHANGED <<prices, active, rates, host, stripe, asks, edits>>

\* checkout.preview and cart.quote read the cart.  The last request is a start.
Preview(ask) ==
  /\ job = Idle /\ asks + 1 < MaxAsks /\ ~ask.delegated
  /\ job' = Quoting(Nothing, ask, "show") /\ asks' = asks + 1
  /\ UNCHANGED <<prices, active, rows, rates, cart, host, stripe, previewed, charged, drifted, edits>>

QuoteLine ==
  /\ job.pc = "quoting" /\ Unread # {}
  /\ job' = WithLine(Quoted(job.lines[NextLine]))
  /\ Others /\ UNCHANGED <<rows, cart, previewed, charged, drifted>>

QuoteNow == Quote(job.cart, job.ask, job.items)
Quotes(after) == job.pc = "quoting" /\ Unread = {} /\ job.after = after

\* What is hashed of an input and its quote: all but the token.
Projection(ask, quote) == [ask |-> [ask EXCEPT !.delegated = FALSE], quote |-> quote]

\* The preview is answered, with its hash.
Show ==
  /\ Quotes("show")
  /\ previewed' = Projection(job.ask, IF host THEN Resolver(QuoteNow) ELSE QuoteNow)
  /\ job' = Idle
  /\ Others /\ UNCHANGED <<rows, cart, charged, drifted>>

\* checkout.start reads the cart and turns down what it cannot start.
Start(ask) ==
  /\ job = Idle /\ asks < MaxAsks
  /\ job' = IF Startable(StartCart(ask), ask)
            THEN [pc |-> "resolving", ask |-> ask, cart |-> StartCart(ask), items |-> Empty,
                  lines |-> Lines(StartCart(ask), ask)]
            ELSE Idle
  /\ asks' = asks + 1 /\ drifted' = FALSE
  /\ UNCHANGED <<prices, active, rows, rates, cart, host, stripe, previewed, charged, edits>>

ResolveLine ==
  /\ job.pc = "resolving" /\ Unread # {}
  /\ job' = IF Resolvable(job.lines[NextLine]) THEN WithLine(Resolved(job.lines[NextLine])) ELSE Idle
  /\ Others /\ UNCHANGED <<rows, cart, previewed, charged, drifted>>

\* The lines are resolved.  With a resolver the host's quote comes next, and it reads the
\* cart again; else a delegated payment has to prove itself, with a quote of its own.
Resolve ==
  /\ job.pc = "resolving" /\ Unread = {}
  /\ LET resolution == Resolution(job.cart, job.ask, job.items)
     IN  job' = IF ~Acceptable(job.ask, job.items) THEN Idle
                ELSE IF host THEN Quoting(resolution, job.ask, "compare")
                ELSE IF job.ask.delegated THEN Quoting(resolution, job.ask, "prove")
                ELSE Claiming(job.ask, job.cart.version, resolution)
  /\ Others /\ UNCHANGED <<rows, cart, previewed, charged, drifted>>

\* The caller shows the hash of the preview of this very input, and it is the hash of the quote.
Proves(quote) == job.ask.byId /\ previewed = Projection(job.ask, quote)

\* The default quote must be what was resolved; then the host has its say.
Compare ==
  /\ Quotes("compare")
  /\ LET quote == Resolver(QuoteNow)
     IN  job' = IF /\ Matches(job.resolution, QuoteNow)
                   /\ job.ask.delegated => Proves(quote)
                   /\ quote.status \notin {"expired", "unavailable"}
                THEN Claiming(job.ask, job.version, [job.resolution EXCEPT !.total = quote.total])
                ELSE Idle
  /\ Others /\ UNCHANGED <<rows, cart, previewed, charged, drifted>>

Prove ==
  /\ Quotes("prove")
  /\ job' = IF Proves(QuoteNow) THEN Claiming(job.ask, job.version, job.resolution) ELSE Idle
  /\ Others /\ UNCHANGED <<rows, cart, previewed, charged, drifted>>

\* Seeded fault: any open cart is claimed.
ClaimableOpen == cart.status = "open"

\* The provider's method is looked up, and its capabilities are asked for.
Dispatch ==
  /\ job.pc = "dispatch"
  /\ job' \in {Idle, [job EXCEPT !.pc = IF BuyNow(job.ask) THEN "reserve" ELSE "claim"]}
  /\ Others /\ UNCHANGED <<rows, cart, previewed, charged, drifted>>

\* claimCartForCheckout: the cart is open and of the version that was resolved.
Claimable == cart.status = "open" /\ cart.version = job.version

Claim ==
  /\ job.pc = "claim"
  /\ IF Claimable
     THEN /\ cart' = [cart EXCEPT !.status = "checkout_pending", !.version = @ + 1]
          /\ job' = [job EXCEPT !.pc = "reserve"]
     ELSE job' = Idle /\ UNCHANGED cart
  /\ Others /\ UNCHANGED <<rows, previewed, charged, drifted>>

\* releaseCartCheckoutClaim
Released == IF BuyNow(job.ask) THEN cart ELSE [cart EXCEPT !.status = "open", !.version = @ + 1]

Reserve ==
  /\ job.pc = "reserve"
  /\ IF Reservable(job.resolution.items)
     THEN /\ rows' = [s \in Sellables |-> IF Takes(job.resolution.items, s) = 0 THEN rows[s]
                       ELSE [rows[s] EXCEPT !.free = @ - Takes(job.resolution.items, s)]]
          /\ job' = [job EXCEPT !.pc = "charge"] /\ UNCHANGED cart
     ELSE job' = Idle /\ cart' = Released /\ UNCHANGED rows
  /\ Others /\ UNCHANGED <<previewed, charged, drifted>>

\* What the provider is given: lines, discount and total.
Given(provided) ==
  /\ job.pc = "charge" /\ job' = Idle
  /\ charged' = [ask |-> job.ask, lines |-> job.resolution.items,
                 discount |-> job.resolution.discount, total |-> provided,
                 shown |-> previewed, drifted |-> drifted,
                 bought |-> IF BuyNow(job.ask) THEN Empty ELSE cart.lines]
  /\ Others /\ UNCHANGED <<rows, cart, previewed, drifted>>

\* assertStripeHostedTotalIsRepresentable: Stripe's page shows lines and a discount, no more.
Representable(resolution) == resolution.total = Subtotal(resolution.items) - resolution.discount

\* A hosted checkout, whose session Stripe makes of lines and a coupon ...
Hosted ==
  /\ job.pc = "charge" /\ ~job.ask.delegated /\ (stripe => Representable(job.resolution))
  /\ Given(IF stripe THEN Subtotal(job.resolution.items) - job.resolution.discount
                    ELSE job.resolution.total)
\* ... and a payment on a token, of the total.
Delegated == job.pc = "charge" /\ job.ask.delegated /\ Given(job.resolution.total)

\* The provider fails, or cannot represent the total: what the start holds is given back.
ProviderFails ==
  /\ job.pc = "charge" /\ job' = Idle /\ cart' = Released
  /\ rows' = [s \in Sellables |-> IF Takes(job.resolution.items, s) = 0 THEN rows[s]
              ELSE [rows[s] EXCEPT !.free = @ + Takes(job.resolution.items, s)]]
  /\ Others /\ UNCHANGED <<previewed, charged, drifted>>

----------------------------------------------------------------------------
(* The merchant and the shopper.                                           *)

Edit == edits < MaxEdits /\ edits' = edits + 1
Drifts == drifted \/ job.pc \in {"resolving", "quoting"}
Elsewhere == UNCHANGED <<host, stripe, job, previewed, charged, asks>>

\* The catalogue, the stock row and the resolver's answer are the merchant's.
Reprice(p, amount) ==
  /\ Edit /\ amount # prices[p].amount
  /\ prices' = [prices EXCEPT ![p].amount = amount] /\ drifted' = Drifts
  /\ Elsewhere /\ UNCHANGED <<active, rows, rates, cart>>
SetRate(code, rate) ==
  /\ Edit /\ rate # rates[code]
  /\ rates' = [rates EXCEPT ![code] = rate] /\ drifted' = Drifts
  /\ Elsewhere /\ UNCHANGED <<prices, active, rows, cart>>
TogglePrice(p) ==
  /\ Edit /\ prices' = [prices EXCEPT ![p].on = ~@] /\ drifted' = Drifts
  /\ Elsewhere /\ UNCHANGED <<active, rows, rates, cart>>
ToggleSellable(s) ==
  /\ Edit /\ active' = IF s \in active THEN active \ {s} ELSE active \cup {s}
  /\ drifted' = Drifts
  /\ Elsewhere /\ UNCHANGED <<prices, rows, rates, cart>>
Restock(s, row) ==
  /\ Edit /\ row \notin {NoRow, rows[s]} /\ rows' = [rows EXCEPT ![s] = row]
  /\ Elsewhere /\ UNCHANGED <<prices, active, rates, cart, drifted>>

\* The shopper's cart; a request that lost a race for its version is no edit.
Shop(c) ==
  /\ Edit /\ cart.status \in {"none", "open"} /\ cart' = [c EXCEPT !.version = @ + 1]
  /\ Elsewhere /\ UNCHANGED <<prices, active, rows, rates, drifted>>

\* cart.add: what the price says now; a line that is there keeps the amount it was added for.
Add(s, p) ==
  /\ s \in active /\ Selected(s, p) # {}
  /\ LET price == CHOOSE q \in Selected(s, p) : TRUE
         had == IF price \in DOMAIN cart.lines THEN cart.lines[price]
                ELSE [quantity |-> 0, unit |-> prices[price].amount]
         lines == Put(cart.lines, price, [had EXCEPT !.quantity = @ + 1])
         c == [cart EXCEPT !.lines = lines, !.status = "open"]
     IN  WithinLimits(s, c.lines[price].quantity + Siblings(c, price)) /\ Shop(c)

\* cart.update does not ask whether the item is still active.
Update(p, quantity) ==
  /\ p \in DOMAIN cart.lines /\ quantity # cart.lines[p].quantity
  /\ WithinLimits(SellableOf[p], quantity + Siblings(cart, p))
  /\ Shop([cart EXCEPT !.lines[p].quantity = quantity])
Remove(p) ==
  /\ p \in DOMAIN cart.lines
  /\ Shop([cart EXCEPT !.lines = [q \in DOMAIN @ \ {p} |-> @[q]]])
ApplyCoupon(code) ==
  /\ cart.status = "open" /\ ~Refused(code) /\ Shop([cart EXCEPT !.coupon = CouponFor(@, code)])
RemoveCoupon ==
  /\ cart.status = "open" /\ cart.coupon # NoCoupon /\ Shop([cart EXCEPT !.coupon = NoCoupon])
Lapse ==
  /\ Edit /\ cart.status = "open" /\ ~cart.expired /\ cart' = [cart EXCEPT !.expired = TRUE]
  /\ Elsewhere /\ UNCHANGED <<prices, active, rows, rates, drifted>>

----------------------------------------------------------------------------
PricingInit ==
  /\ prices \in [Prices -> [on : {TRUE}, amount : Amounts, mode : {"one_time", "subscription"}]]
  /\ active = Sellables
  /\ rows \in [Sellables -> StockRows]
  /\ rates \in [Codes -> Rates]
  /\ \/ cart = NoCart
     \/ \E ps \in SUBSET Prices :
          cart = [NoCart EXCEPT !.status = "open",
                                !.lines = [p \in ps |-> [quantity |-> 1, unit |-> prices[p].amount]]]
  /\ host \in BOOLEAN /\ stripe \in BOOLEAN
  /\ job = Idle /\ previewed = Nothing /\ charged = Nothing
  /\ drifted = FALSE /\ asks = 0 /\ edits = 0

PricingNext ==
  \/ \E ask \in Asks : Preview(ask) \/ Start(ask)
  \/ QuoteLine \/ Show \/ ResolveLine \/ Resolve \/ Compare \/ Prove
  \/ Dispatch \/ Claim \/ Reserve \/ Hosted \/ Delegated \/ ProviderFails
  \/ \E p \in Prices :
       \/ \E amount \in Amounts : Reprice(p, amount)
       \/ \E quantity \in 1..MaxPerOrder : Update(p, quantity)
       \/ TogglePrice(p) \/ Remove(p)
  \/ \E s \in Sellables :
       \/ \E p \in OnSale(s) \cup {AnyPrice} : Add(s, p)
       \/ \E row \in StockRows : Restock(s, row)
       \/ ToggleSellable(s)
  \/ \E code \in Codes : ApplyCoupon(code) \/ (\E rate \in Rates : SetRate(code, rate))
  \/ RemoveCoupon \/ Lapse

PricingSpec == PricingInit /\ [][PricingNext]_priceVars

----------------------------------------------------------------------------
(* Properties.                                                             *)

\* What an input would get now, if nothing changed before its last read.
QuotedNow(ask) ==
  LET lines == Lines(cart, ask)
  IN  Quote(cart, ask, [id \in DOMAIN lines |-> Quoted(lines[id])])
StartedNow(ask) ==
  LET c == StartCart(ask)
      lines == Lines(c, ask)
      read == Startable(c, ask) /\ \A id \in DOMAIN lines : Resolvable(lines[id])
      items == [id \in DOMAIN lines |-> Resolved(lines[id])]
  IN  IF read /\ Acceptable(ask, items) THEN Resolution(c, ask, items) ELSE Nothing

\* A quote that says the shopper may proceed is honoured, and one that says no is not started:
\* cart.quote and checkout.start, which read and judge the lines, the limits and the coupon in
\* code of their own, agree on the verdict, the lines and the total, and what is started can be
\* reserved.  Not so when an item is bought at once next to a cart with lines, a coupon or a past
\* expiry (the quote is of both, the start leaves the cart alone), when the cart is held by a
\* checkout, and for lines of two modes.  It is of the catalogue, the stock and the cart alone,
\* so that the moments at which no request is at work are enough.
QuoteIsHonoured ==
  \A ask \in IF job = Idle THEN Asks ELSE {} :
    LET quote == QuotedNow(ask)
        start == StartedNow(ask)
        modes == {prices[p].mode : p \in DOMAIN cart.lines}
        beside == DOMAIN cart.lines # {} \/ cart.coupon # NoCoupon \/ cart.expired
    IN  \/ BuyNow(ask) /\ beside
        \/ cart.status = "checkout_pending" \/ Cardinality(modes) > 1
        \/ /\ (quote.status \in {"valid", "changed"}) <=> (start # Nothing)
           /\ start # Nothing => Matches(start, quote) /\ Reservable(start.items)

\* The provider charges for the cart that was claimed: the quantities it has when it is claimed,
\* in a total that adds up (resolveCheckoutStart, the claim by version, the provider's input).
ChargedIsClaimed ==
  charged # Nothing =>
    /\ charged.total = Subtotal(charged.lines) - charged.discount + (IF host THEN Fee ELSE 0)
    /\ charged.total >= 0
    /\ ~BuyNow(charged.ask) =>
         /\ DOMAIN charged.lines = DOMAIN charged.bought
         /\ \A p \in DOMAIN charged.lines : charged.lines[p].quantity = charged.bought[p].quantity

\* A delegated payment charges what a preview of its input has shown, line by line
\* (requireDelegatedPaymentAuthorization), unless the catalogue changed while it was at work:
\* without a resolver the lines are resolved in one read and proved in another, and the proof
\* does not look at the status of its quote, which shows an old amount for what is off sale.
AuthorizedIsCharged ==
  (charged # Nothing /\ charged.ask.delegated) =>
    /\ charged.shown # Nothing
    /\ charged.shown = Projection(charged.ask, charged.shown.quote)
    /\ host \/ ~charged.drifted =>
         /\ charged.total = charged.shown.quote.total
         /\ DOMAIN charged.lines = DOMAIN charged.shown.quote.items
         /\ \A p \in DOMAIN charged.lines : SameLine(charged.lines[p], charged.shown.quote.items[p])

\* Whatever changes while a checkout is started, the provider charges what the shopper agreed
\* to: the cart that was claimed, and for a delegated payment the quote that was authorized.
ChargedAsAgreed == ChargedIsClaimed /\ AuthorizedIsCharged
=============================================================================
