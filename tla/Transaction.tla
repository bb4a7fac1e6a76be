---------------------------- MODULE Transaction ----------------------------
(***************************************************************************)
(* A payment's row and the rules that change it                            *)
(* (internal/domain/transaction.go).  Each method of domain.Transaction    *)
(* becomes a guard, the conjunction of its early returns, and the row the  *)
(* method leaves behind when none of them is taken.                        *)
(*                                                                         *)
(* Time is counted in days: captured_at only matters as the day it falls   *)
(* on, and AuthorizationValidity is a number of days.                      *)
(***************************************************************************)
EXTENDS Money

CONSTANT AuthorizationValidity  \* days an authorization may be captured for

ASSUME ValidityAssumption == AuthorizationValidity \in Nat

Status == {"created", "authorized", "captured", "settled",
           "refunded", "voided", "failed"}

\* What row[t] holds before a transaction with that reference is inserted.
Absent == "absent"

\* A time column that is still NULL.
Never == -1

allowedTransitions ==
  [s \in Status |->
     CASE s = "created"    -> {"authorized", "failed"}
       [] s = "authorized" -> {"captured", "voided", "failed"}
       [] s = "captured"   -> {"settled", "refunded"}
       [] s = "settled"    -> {"refunded"}
       [] OTHER            -> {}]

CanTransitionTo(t, next) == t.status \in Status /\ next \in allowedTransitions[t.status]

Rows ==
  [status : Status \cup {Absent}, amount : Nat, captured : Nat, refunded : Nat,
   authorizedAt : Nat \cup {Never}, capturedAt : Nat \cup {Never},
   version : Nat]

NoRow ==
  [status |-> Absent, amount |-> 0, captured |-> 0, refunded |-> 0,
   authorizedAt |-> Never, capturedAt |-> Never, version |-> 0]

NewTransaction(amount) ==
  [status |-> "created", amount |-> amount, captured |-> 0, refunded |-> 0,
   authorizedAt |-> Never, capturedAt |-> Never, version |-> 0]

-----------------------------------------------------------------------------

RemainingCapturable(t) == t.amount - t.captured

RemainingRefundable(t) == t.captured - t.refunded

AuthorizationExpired(t, now) ==
  t.authorizedAt # Never /\ now > t.authorizedAt + AuthorizationValidity

Authorize(t, now) == [t EXCEPT !.status = "authorized", !.authorizedAt = now]

Fail(t) == [t EXCEPT !.status = "failed"]

CanVoid(t) == t.captured = 0 /\ CanTransitionTo(t, "voided")

Void(t) == [t EXCEPT !.status = "voided"]

\* Mutant: the in-lock check forgets what was captured already.
CanCaptureWithoutRemaining(t, amount, now) ==
  /\ amount > 0
  /\ t.status \in {"authorized", "captured"}
  /\ ~AuthorizationExpired(t, now)
  /\ amount <= t.amount

CanCapture(t, amount, now) ==
  /\ amount > 0
  /\ t.status \in {"authorized", "captured"}
  /\ ~AuthorizationExpired(t, now)
  /\ amount <= RemainingCapturable(t)

\* captured_at is stamped by the first capture only.
Capture(t, amount, now) ==
  [t EXCEPT !.status = "captured",
            !.captured = @ + amount,
            !.capturedAt = IF @ = Never THEN now ELSE @]

CanRefund(t, amount) ==
  /\ amount > 0
  /\ t.status \in {"captured", "settled"}
  /\ amount <= RemainingRefundable(t)

\* Only a refund that returns everything captured is terminal.
Refund(t, amount) ==
  [t EXCEPT !.refunded = @ + amount,
            !.status = IF t.refunded + amount = t.captured THEN "refunded" ELSE @]

Settle(t) == [t EXCEPT !.status = "settled"]

\* Mutant: refunds are not deducted from the payout.
NetPayableIgnoringRefunds(t) == t.captured - Fee(t.captured, FeeBPS)

NetPayable(t) == t.captured - Fee(t.captured, FeeBPS) - t.refunded

=============================================================================
