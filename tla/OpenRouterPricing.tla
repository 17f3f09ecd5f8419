--------------------------- MODULE OpenRouterPricing ---------------------------
(***************************************************************************)
(* What a call to OpenRouter may cost: the catalog's prices                *)
(* (openrouter_pricing.rs), the estimate and its ceiling (budget.rs), the  *)
(* price limit put into the request (openrouter_request.rs) and the bill   *)
(* that is read back (openrouter_transport.rs).                            *)
(*                                                                         *)
(* Amounts of dollars are decimals of any precision; here they are         *)
(* counted in units of 10^-10 dollars, finer than both roundings.          *)
(***************************************************************************)
EXTENDS Naturals

\* Faulty variant: the remainder is dropped.
DivFloor(n, d) == n \div d

DivCeil(n, d) == (n + d - 1) \div d

\* scaled_decimal(_, 9) and scaled_decimal(_, 6).
Nanodollars(amount) == DivCeil(amount, 10)

Microdollars(amount) == DivCeil(amount, 10000)

\* Per token, and the fees that have nothing to do with tokens.
Row == [prompt : Nat, completion : Nat, cache : Nat, fee : Nat]

\* from_catalog: what cannot be accounted for by tokens is refused.
CanQuote(row) ==
    /\ Nanodollars(row.prompt) # 0 /\ Nanodollars(row.completion) # 0
    /\ Nanodollars(row.cache) <= Nanodollars(row.prompt)
    /\ Nanodollars(row.fee) = 0

Cost == [inputTokens : Nat, outputTokens : Nat, input : Nat, output : Nat]

Estimate(row, i, o) ==
    [inputTokens |-> i, outputTokens |-> o,
     input |-> Nanodollars(row.prompt), output |-> Nanodollars(row.completion)]

\* ceiling_microdollars: what is reserved.
Ceiling(cost) ==
    DivCeil(cost.inputTokens * cost.input + cost.outputTokens * cost.output, 1000)

\* max_price names the rounded rates without rounding again.
MaxPrice(nanodollars) == 10 * nanodollars

\* A provider charges an input token the prompt price or a cache price.
TotalCost(row, fresh, cached, o) ==
    fresh * row.prompt + cached * row.cache + o * row.completion

\* A listing that is quoted passes its own price limit, and no bill under it
\* for the tokens of the estimate exceeds the amount reserved.
Covers(row, cost) ==
    /\ row.prompt <= MaxPrice(cost.input) /\ row.completion <= MaxPrice(cost.output)
    /\ \A fresh, cached \in 0 .. cost.inputTokens, o \in 0 .. cost.outputTokens :
          fresh + cached <= cost.inputTokens
          => Microdollars(TotalCost(row, fresh, cached, o)) <= Ceiling(cost)
=============================================================================
