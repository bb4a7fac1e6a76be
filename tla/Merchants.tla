----------------------------- MODULE Merchants -----------------------------
(***************************************************************************)
(* A merchant account and the authentication of its requests               *)
(* (internal/service/merchant_service.go, internal/domain/merchant.go,     *)
(* internal/repository/merchant_repo.go).                                  *)
(*                                                                         *)
(* A message stands for a method, a path, a body and an Idempotency-Key    *)
(* header.  The signature covers the timestamp and the first three; the    *)
(* copies the network makes of a message are exact and carry the same      *)
(* header.  HMAC is taken to be injective, so a message is its signature   *)
(* and only the timestamp is kept.                                         *)
(***************************************************************************)
EXTENDS Integers

CONSTANTS
  Messages,   \* requests the merchant makes
  ClockSkew,  \* AUTH_MAX_CLOCK_SKEW
  Drift       \* how far the merchant's clock may be off, either way

ASSUME MerchantsAssumption ==
  /\ ClockSkew \in Nat
  /\ Drift \in Nat

VARIABLES
  account,   \* the merchants row: absent, active or suspended
  secret,    \* whether the merchant has its credentials
  signed     \* X-Timestamp of each message, or Unsigned

merchantVars == <<account, secret, signed>>

\* A time no clock shows.
Unsigned == -1 - Drift

MerchantsInit ==
  /\ account = "absent"
  /\ secret = FALSE
  /\ signed = [m \in Messages |-> Unsigned]

\* The row is inserted; the email is unique.
InsertMerchant ==
  /\ account = "absent"
  /\ account' = "active"

\* The answer to Create, the only one that shows the secrets, reaches the
\* merchant or does not.
CreateMerchant ==
  /\ InsertMerchant
  /\ secret' \in BOOLEAN
  /\ UNCHANGED signed

\* An operator changes the status in the database; no code does.
SetStatus ==
  /\ account # "absent"
  /\ account' \in {"active", "suspended"} \ {account}
  /\ UNCHANGED <<secret, signed>>

\* The merchant signs a message with its own clock.
Sign(m, t) ==
  /\ secret
  /\ signed[m] = Unsigned
  /\ \E ts \in (t - Drift)..(t + Drift) : signed' = [signed EXCEPT ![m] = ts]
  /\ UNCHANGED <<account, secret>>

IsActive == account = "active"

\* X-Timestamp is no further from the server's clock than allowed, either way.
WithinSkew(m, t) == signed[m] - t \in (-ClockSkew)..ClockSkew

\* Mutant: the timestamp is signed and never compared with the clock.
AuthenticateForever(m, t) == signed[m] # Unsigned /\ IsActive

\* The signature verifies, its timestamp is recent and the account may act.
Authenticate(m, t) == signed[m] # Unsigned /\ WithinSkew(m, t) /\ IsActive

MerchantsTypeOK ==
  /\ account \in {"absent", "active", "suspended"}
  /\ secret \in BOOLEAN
  /\ signed \in [Messages -> Int]

=============================================================================
