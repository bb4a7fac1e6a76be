------------------------------- MODULE Money -------------------------------
(***************************************************************************)
(* Monetary values in minor units and the platform fee                     *)
(* (internal/money/money.go).                                              *)
(*                                                                         *)
(* money.Amount is a signed 64-bit integer.  Every sum the gateway forms   *)
(* is bounded by an amount that is already one (captured <= amount,        *)
(* refunded <= captured); the one product, in Fee, is not, so it is taken  *)
(* modulo the width.  IntLimit stands for 2^63.                            *)
(***************************************************************************)
EXTENDS Integers

CONSTANTS FeeBPS,    \* the platform fee in basis points (PLATFORM_FEE_BPS)
          IntLimit   \* 2^63: an int64 lies in -IntLimit .. IntLimit - 1

\* config.Load refuses a fee outside 0..10000 basis points.
ASSUME FeeAssumption == FeeBPS \in 0..10000

ASSUME IntLimitAssumption == IntLimit \in Nat \ {0}

\* Two's complement wrap-around of a mathematical integer.
Wrap(x) == ((x + IntLimit) % (2 * IntLimit)) - IntLimit

\* Go's integer division truncates towards zero.
Quo(x, d) == IF x >= 0 THEN x \div d ELSE -((-x) \div d)

Fee(a, bps) ==
  IF a <= 0 \/ bps <= 0 THEN 0 ELSE Quo(Wrap(a * bps), 10000)

=============================================================================
