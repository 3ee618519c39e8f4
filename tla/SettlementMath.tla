--------------------------- MODULE SettlementMath ---------------------------
(***************************************************************************)
(* What a settlement computes from its proceeds, its fee and the amounts   *)
(* invested: lib/investor-return.ts, lib/decimal-bigint.ts, the loops of   *)
(* services/settlement.service.ts around them, and the check of the        *)
(* payment distributor's client.                                           *)
(*                                                                         *)
(* Amounts are the scaled integers of the code: four decimals, and three   *)
(* more for stroops.  Settlement takes the result as given.                *)
(***************************************************************************)
EXTENDS Integers

Scale == 10000    \* SCALE_FACTOR
Stroops == 1000   \* DECIMAL_SCALE_TO_STROOP_FACTOR
FullFee == 10000  \* basis points in one

\* f[1] + ... + f[k], as the loops add it up.
SumTo(f, n) ==
    LET sum[k \in 0 .. n] == IF k = 0 THEN 0 ELSE sum[k - 1] + f[k]
    IN  sum

Total(f, n) == SumTo(f, n)[n]

-----------------------------------------------------------------------------
(* The division of the proceeds; a[1 .. n] are the amounts invested.       *)

\* computeInvestorReturn
InvestorReturn(invested, funded, proceeds) == (invested * proceeds) \div funded

FeeOf(proceeds, feeBps) == (proceeds * feeBps) \div FullFee

Distributable(proceeds, feeBps) == proceeds - FeeOf(proceeds, feeBps)

\* calculateInvestorReturns: its returns, and what the division leaves over.
Returns(a, n, proceeds, feeBps) ==
    [i \in 1 .. n |-> InvestorReturn(a[i], Total(a, n), Distributable(proceeds, feeBps))]

Remainder(a, n, proceeds, feeBps) ==
    Distributable(proceeds, feeBps) - Total(Returns(a, n, proceeds, feeBps), n)

-----------------------------------------------------------------------------
(* The payout                                                              *)

\* distributePayouts takes the fee from the proceeds in stroops, and submits
\* nothing if the recipients and that fee are more than the proceeds.
Payable(a, n, proceeds, feeBps) ==
    Total(Returns(a, n, proceeds, feeBps), n) * Stroops + FeeOf(proceeds * Stroops, feeBps)
        <= proceeds * Stroops

\* The part of a fee below four decimals, in units of 1 / FullFee.
FeeRest(proceeds, feeBps) == (proceeds * feeBps) % FullFee

-----------------------------------------------------------------------------
(* Decimal strings: a sign, a whole part and the digits of the fraction.   *)

\* decimalStringToScaledBigInt: what is after the fourth digit is cut off.
Scaled(s) ==
    LET digit(k) == IF k \in DOMAIN s.fraction THEN s.fraction[k] ELSE 0
        unsigned == s.whole * Scale + 1000 * digit(1) + 100 * digit(2) + 10 * digit(3) + digit(4)
    IN  IF s.negative THEN 0 - unsigned ELSE unsigned

\* scaledBigIntToDecimalString
Decimal(v) ==
    LET absolute == IF v < 0 THEN 0 - v ELSE v
        rest == absolute % Scale
    IN  [negative |-> v < 0, whole |-> absolute \div Scale,
         fraction |-> <<rest \div 1000, (rest \div 100) % 10, (rest \div 10) % 10, rest % 10>>]
=============================================================================
