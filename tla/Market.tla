------------------------------- MODULE Market -------------------------------
(***************************************************************************)
(* The USDC side of one user's account: swaps at a cached price, ads paid   *)
(* in advance, views of an ad credited to its owner, and callbacks of the   *)
(* advertiser network.  Every transaction reads a row, compares it and      *)
(* writes by increments, with no lock in between.                           *)
(***************************************************************************)
EXTENDS Requests

CONSTANTS
    Prices,         \* USD prices of POL, 1 among them
    Ttl,            \* PRICE_TTL_MS
    Amounts,        \* amounts that are swapped, multiples of every price
    StartPol, StartUsdc,
    Viewers,        \* viewer hashes
    TargetViews,    \* views an ad is paid for, each costing and crediting one
    LastPriceTick, MaxOrders    \* bounds: the clock, requests made

Fallback == 1

ASSUME MarketAssumption ==
    /\ Prices \subseteq Nat \ {0} /\ Fallback \in Prices
    /\ Amounts \subseteq Nat
    /\ IsFiniteSet(Amounts) /\ Ttl \in Nat \ {0}
    /\ {StartPol, StartUsdc, TargetViews, LastPriceTick, MaxOrders} \subseteq Nat
    /\ None \notin [status: {"active", "completed"}, views: Nat]

VARIABLES
    hour,
    price,          \* what the price service answers
    quotes,         \* prices the service answered, by time
    priceCache,     \* [price, at] or None
    pol, usdc,
    ad,             \* ptp_ads: [status, views], or None
    views,          \* rows of ptp_views
    earned,         \* rows of ptp_earnings
    mcall,          \* progress of each request
    orders,         \* requests made
    jam             \* two requests were in flight together

marketVars == <<hour, price, quotes, priceCache, pol, usdc, ad, views, earned, mcall, orders, jam>>
marketTables == <<pol, usdc, ad, views, earned>>

Hours == 0 .. LastPriceTick
Cached(p, at) == [price |-> p, at |-> at]
AdRows == [status: {"active", "completed"}, views: 0 .. TargetViews]
Ad(status, n) == [status |-> status, views |-> n]

\* from: the asset given, or the viewer; rate: the price used; row: the ad as read.
MCall(pc, from, amount, rate, row) ==
    [pc |-> pc, from |-> from, amount |-> amount, rate |-> rate, row |-> row]
MIdle == MCall("idle", None, 0, Fallback, None)

MarketInit ==
    /\ hour = 0
    /\ price \in Prices
    /\ quotes = {Cached(price, 0)}
    /\ priceCache = None
    /\ pol = StartPol /\ usdc = StartUsdc
    /\ ad = None /\ views = {} /\ earned = 0
    /\ mcall = [c \in Calls |-> MIdle]
    /\ orders = 0 /\ jam = FALSE

PriceMoves ==
    /\ hour < LastPriceTick
    /\ hour' = hour + 1
    /\ price' \in Prices
    /\ quotes' = quotes \cup {Cached(price', hour + 1)}
    /\ UNCHANGED <<priceCache, marketTables, mcall, orders, jam>>

Orders(c, q) ==
    /\ mcall[c].pc = "idle" /\ orders < MaxOrders
    /\ orders' = orders + 1
    /\ mcall' = [mcall EXCEPT ![c] = q]
    /\ jam' = (jam \/ \E d \in Calls : mcall[d].pc # "idle")
    /\ UNCHANGED <<hour, price, quotes, priceCache, marketTables>>

Proceeds(c, q) ==
    /\ mcall' = [mcall EXCEPT ![c] = q]
    /\ UNCHANGED <<hour, price, quotes, orders, jam>>

-----------------------------------------------------------------------------
(* Swaps.                                                                   *)

executeSwap(c) ==
    \E asset \in {"POL", "USDC"}, a \in Amounts : Orders(c, MCall("price", asset, a, Fallback, None))

\* Slip: a cached price never expires.
FreshAlways == priceCache # None

Fresh == priceCache # None /\ hour < priceCache.at + Ttl

\* A price that cannot be fetched is taken to be one.
getPolUsdPrice(c) ==
    LET q == mcall[c] IN
    /\ q.pc = "price"
    /\ \/ /\ Fresh
          /\ Proceeds(c, [q EXCEPT !.pc = "read", !.rate = priceCache.price])
          /\ UNCHANGED priceCache
       \/ /\ ~Fresh
          /\ priceCache' = Cached(price, hour)
          /\ Proceeds(c, [q EXCEPT !.pc = "read", !.rate = price])
       \/ /\ ~Fresh /\ MayFail
          /\ Proceeds(c, [q EXCEPT !.pc = "read", !.rate = Fallback])
          /\ UNCHANGED priceCache
    /\ UNCHANGED marketTables

\* Slip: the amount received is compared.
AffordsOutput(q) == IF q.from = "POL" THEN pol * q.rate >= q.amount ELSE usdc >= q.amount

Affords(q) == IF q.from = "POL" THEN pol >= q.amount ELSE usdc >= q.amount

SwapReads(c) ==
    /\ mcall[c].pc = "read"
    /\ Proceeds(c, IF Affords(mcall[c]) THEN [mcall[c] EXCEPT !.pc = "swap"] ELSE MIdle)
    /\ UNCHANGED <<priceCache, marketTables>>

SwapCommits(c) ==
    LET q == mcall[c] IN
    /\ q.pc = "swap"
    /\ IF q.from = "POL"
       THEN pol' = pol - q.amount /\ usdc' = usdc + q.amount * q.rate
       ELSE usdc' = usdc - q.amount /\ pol' = pol + q.amount \div q.rate
    /\ Proceeds(c, MIdle)
    /\ UNCHANGED <<priceCache, ad, views, earned>>

-----------------------------------------------------------------------------
(* Ads.                                                                     *)

createAd(c) ==
    /\ ad = None /\ usdc >= TargetViews
    /\ Orders(c, MCall("ad", None, TargetViews, Fallback, None))

AdCommits(c) ==
    /\ mcall[c].pc = "ad"
    /\ usdc' = usdc - mcall[c].amount
    /\ ad' = IF ad = None THEN Ad("active", 0) ELSE ad
    /\ Proceeds(c, MIdle)
    /\ UNCHANGED <<priceCache, pol, views, earned>>

\* The ad is looked at first, and completed if its goal is reached already.
trackView(c, v) ==
    /\ ad # None
    /\ Orders(c, MCall("view", v, 0, Fallback, ad))

\* Slip: a viewer who is known counts again.
NewViewAlways(v) == TRUE

NewView(v) == v \notin views

ViewReads(c) ==
    LET q == mcall[c] IN
    /\ q.pc = "view"
    /\ Proceeds(c, IF q.row.status = "active" /\ q.row.views < TargetViews /\ NewView(q.from)
                   THEN [q EXCEPT !.pc = "count"] ELSE MIdle)
    /\ ad' = IF q.row.status = "active" /\ q.row.views >= TargetViews
             THEN [ad EXCEPT !.status = "completed"] ELSE ad
    /\ UNCHANGED <<priceCache, pol, usdc, views, earned>>

\* The count is written as it was read plus one; a viewer whose row exists by
\* now rolls the transaction back (unique key).
ViewCommits(c) ==
    LET q == mcall[c]
        n == q.row.views + 1
    IN  /\ q.pc = "count"
        /\ IF NewView(q.from)
           THEN /\ views' = views \cup {q.from}
                /\ ad' = Ad(IF n >= TargetViews THEN "completed" ELSE "active", n)
                /\ earned' = earned + 1
                /\ usdc' = usdc + 1
           ELSE UNCHANGED <<usdc, ad, views, earned>>
        /\ Proceeds(c, MIdle)
        /\ UNCHANGED <<priceCache, pol>>

\* A statement throws.
MarketFails(c) ==
    /\ MayFail
    /\ mcall[c].pc # "idle"
    /\ Proceeds(c, MIdle)
    /\ UNCHANGED <<priceCache, marketTables>>

MarketNext ==
    \/ PriceMoves
    \/ \E c \in Calls :
          \/ executeSwap(c) \/ getPolUsdPrice(c) \/ SwapReads(c) \/ SwapCommits(c)
          \/ createAd(c) \/ AdCommits(c)
          \/ \E v \in Viewers : trackView(c, v)
          \/ ViewReads(c) \/ ViewCommits(c)
          \/ MarketFails(c)
    \/ UNCHANGED marketVars

MarketSpec == MarketInit /\ [][MarketNext]_marketVars

-----------------------------------------------------------------------------
(* Properties.                                                              *)

\* Type correctness of the balances, the rows and the requests.
MarketTypeOK ==
    /\ hour \in Hours /\ price \in Prices /\ orders \in 0 .. MaxOrders /\ jam \in BOOLEAN
    /\ quotes \subseteq [price: Prices, at: Hours]
    /\ priceCache \in [price: Prices, at: Hours] \cup {None}
    /\ pol \in Int /\ usdc \in Int /\ earned \in Nat /\ views \subseteq Viewers
    /\ ad \in AdRows \cup {None}
    /\ mcall \in [Calls -> [pc: {"idle", "price", "read", "swap", "ad", "view", "count"},
                            from: {"POL", "USDC", None} \cup Viewers, rate: Prices,
                            amount: Amounts \cup {0, TargetViews}, row: AdRows \cup {None}]]

\* A request never overdraws a balance alone, and overlapping ones by less
\* than what each but one of them takes.
MarketDebtIsBounded ==
    LET most == CHOOSE a \in Amounts \cup {TargetViews} : \A b \in Amounts \cup {TargetViews} : b <= a
        least == IF jam THEN most * (1 - Cardinality(Calls)) ELSE 0
    IN  pol >= least /\ usdc >= least

\* A swap is made at a price the service gave less than PRICE_TTL_MS before,
\* or at the fallback.
RatesAreRecent ==
    [][\A c \in Calls :
          (mcall[c].pc = "price" /\ mcall'[c].pc = "read") =>
              \/ mcall'[c].rate = Fallback
              \/ \E q \in quotes : q.price = mcall'[c].rate /\ hour < q.at + Ttl]_marketVars

\* The owner of an ad is credited once for each viewer, and no more often than
\* the ad is paid for unless requests overlapped (the count is written back
\* as it was read).
AdsMatchViews ==
    /\ earned = Cardinality(views)
    /\ jam \/ ad = None \/ (earned = ad.views /\ earned <= TargetViews)
=============================================================================
