--------------------------- MODULE TicketPricing ---------------------------
(***************************************************************************)
(* What a guest is charged for tickets, in whole cents: the price of the   *)
(* tickets for the organiser, the commission for the platform, and enough  *)
(* on top for what Paystack keeps (money.util.ts, payments.config.ts,      *)
(* ticket-purchase-pricing.util.ts, quote).  Amounts are integers: Number  *)
(* holds them exactly below 2^53.                                          *)
(***************************************************************************)
EXTENDS Integers

\* Math.round(n / d), for n no less than 0.
RoundedRatio(n, d) == (2 * n + d) \div (2 * d)

------------------------------------------------------------------------------
\* money.util.ts.  A Decimal column holds cents; a Decimal may also carry tenths
\* of a cent, as a sum of rand from elsewhere does.

Magnitude(n) == IF n < 0 THEN -n ELSE n

\* "-19.99": the sign, the part before the point and the two digits after it.
Written(negative, whole, frac) == [negative |-> negative, whole |-> whole, frac |-> frac]

centsToDecimalString(cents) == Written(cents < 0, Magnitude(cents) \div 100, Magnitude(cents) % 100)

\* Decimal.toFixed(2) of an amount in tenths of a cent: half a cent away from 0.
Fixed(tenths) ==
    LET cents == (Magnitude(tenths) + 5) \div 10
    IN  Written(tenths < 0, cents \div 100, cents % 100)

CentsOf(text) ==
    LET cents == text.whole * 100 + text.frac
    IN  IF text.negative THEN -cents ELSE cents

decimalToCents(tenths) == CentsOf(Fixed(tenths))

applyBasisPoints(amount, points) == RoundedRatio(amount * points, 10000)
grossUpForFeeRate(amount, ppm) == RoundedRatio(amount * 1000000, 1000000 - ppm)

------------------------------------------------------------------------------
\* payments.config.ts: "2.5" is 250 basis points; one digit after the point
\* stands for tenths.
CommissionPercent(whole, digits, frac) == [whole |-> whole, digits |-> digits, frac |-> frac]
getPlatformCommissionBasisPoints(percent) ==
    percent.whole * 100 + (IF percent.digits = 1 THEN 10 * percent.frac ELSE percent.frac)

------------------------------------------------------------------------------
\* ticket-purchase-pricing.util.ts.  Paystack keeps 2.9% and R1.00 of a card,
\* 2% of an EFT, and VAT of 15% on either.

EffectivePpm(points) == RoundedRatio(points * 100 * (10000 + 1500), 10000)
EFFECTIVE_CARD_FEE_PPM == EffectivePpm(290)
EFFECTIVE_CARD_FLAT_FEE_CENTS == RoundedRatio(100 * (10000 + 1500), 10000)
EftFeePpm == EffectivePpm(200)

\* The breakdown for tickets worth tickets cents and a commission on them.
Breakdown(tickets, commission) ==
    LET total == grossUpForFeeRate(tickets + commission + EFFECTIVE_CARD_FLAT_FEE_CENTS, EFFECTIVE_CARD_FEE_PPM)
    IN  [ticketPrice |-> tickets, commission |-> commission,
         totalCharge |-> total, platformCharge |-> total - tickets]

computeTicketChargeCents(price, quantity, points) ==
    Breakdown(price * quantity, applyBasisPoints(price * quantity, points))

\* ticketPurchaseService.quote.
quote(price, quantity, points) ==
    LET b == computeTicketChargeCents(decimalToCents(price), quantity, points)
    IN  [ticketPrice |-> b.ticketPrice, commission |-> b.commission,
         processingFee |-> b.platformCharge - b.commission, totalCharge |-> b.totalCharge]

------------------------------------------------------------------------------
\* What Paystack keeps of a charge, in millionths of a cent.
CardFee(total) == total * EFFECTIVE_CARD_FEE_PPM + EFFECTIVE_CARD_FLAT_FEE_CENTS * 1000000
EftFee(total) == total * EftFeePpm

\* The platform's share of a charge, less what Paystack keeps and the commission.
LeftOver(b, fee) == (b.platformCharge - b.commission) * 1000000 - fee

\* What a guest pays is the tickets, the commission and a fee that is never
\* nothing; a card leaves the platform within half a cent of its commission, and
\* an EFT never less than it.
FairCharge(b) ==
    /\ b.totalCharge = b.ticketPrice + b.platformCharge
    /\ b.platformCharge - b.commission >= EFFECTIVE_CARD_FLAT_FEE_CENTS
    /\ 2 * LeftOver(b, CardFee(b.totalCharge)) <= 1000000
    /\ 2 * LeftOver(b, CardFee(b.totalCharge)) >= -1000000
    /\ LeftOver(b, EftFee(b.totalCharge)) >= 0
=============================================================================
