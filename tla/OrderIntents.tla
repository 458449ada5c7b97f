----------------------------- MODULE OrderIntents -----------------------------
(***************************************************************************)
(* Orders that are proposed (src/omni_hub/finance_ops/order.py): an intent *)
(* is built, checked against the value of the portfolio and stored as a    *)
(* pending proposal.  Prices are whole numbers; a number that is not given *)
(* and the number 0 are both false in a condition.                         *)
(***************************************************************************)
EXTENDS Integers

None == -1
Truthy(n) == n # None /\ n # 0

Intent(prices) ==
    [side : {"buy", "sell"}, qty : 0 .. 3, type : {"market", "limit", "stop", "stop_limit"},
     limit : prices, stop : prices]

\* OrderIntent.new raises otherwise.
Accepted(o) == /\ o.qty > 0
               /\ o.type \in {"limit", "stop_limit"} => o.limit # None
               /\ o.type \in {"stop", "stop_limit"} => o.stop # None

\* estimated_price or intent.limit_price or intent.stop_price
Price(o, estimated) == IF Truthy(estimated) THEN estimated
                       ELSE IF Truthy(o.limit) THEN o.limit ELSE o.stop

\* Fractions of the portfolio: more than 25 % blocks, more than 10 % warns.
\* Mutant: what is worth a warning is not blocked.
HardBlockWarnsFirst(notional, portfolio) == 4 * notional > portfolio /\ ~(10 * notional > portfolio)
HardBlock(notional, portfolio) == 4 * notional > portfolio
Warn(notional, portfolio) == ~HardBlock(notional, portfolio) /\ 10 * notional > portfolio

RiskCheck(o, portfolio, estimated) ==
    LET price == Price(o, estimated)
        known == price # None
        notional == IF known THEN price * o.qty ELSE 0
        sized == known /\ portfolio > 0
        warned == known /\ (portfolio <= 0 \/ Warn(notional, portfolio))
        blocked == ~known \/ (sized /\ HardBlock(notional, portfolio))
    IN  [passes |-> ~blocked, notional |-> notional,
         warned |-> warned \/ (o.type = "market" /\ o.side = "buy")]

-----------------------------------------------------------------------------
\* What passes fits: it has a price, and of a portfolio whose value is known it
\* takes a quarter at most; a portfolio of unknown value is passed with a warning.
\* The estimate comes first.  Without one an order of any type is sized at its own
\* limit, and at its stop if it has no limit: also a market order, which the
\* docstring of risk_check calls blocked, passes at such a price, which says
\* nothing of where it fills.  It is blocked only with no price at all.
PassedOrdersFit(o, portfolio, estimated, verdict) ==
    LET sizedAt(price) == price # None /\ verdict.notional = price * o.qty
    IN  verdict.passes =>
            /\ Truthy(estimated) => sizedAt(estimated)
            /\ ~Truthy(estimated) /\ Truthy(o.limit) => sizedAt(o.limit)
            /\ ~Truthy(estimated) /\ ~Truthy(o.limit) => sizedAt(o.stop)
            /\ IF portfolio > 0 THEN 4 * verdict.notional <= portfolio ELSE verdict.warned
=============================================================================
