----------------------------- MODULE Idempotency -----------------------------
(***************************************************************************)
(* The Idempotency-Key protocol in front of every money-moving POST: the   *)
(* middleware (internal/transport/http/middleware_idem.go) and its Redis   *)
(* store (internal/idempotency/store.go).  Any number of API processes     *)
(* share the store, so every Redis command is a step of its own.           *)
(*                                                                         *)
(* A key stands for "idem:<merchant>:<key>", a body for the canonical JSON *)
(* that Fingerprint hashes (SHA-256 is taken to be injective), a path for  *)
(* the route and its {id}.  A run is one execution of the handler; its     *)
(* number stands for the response it produced.                             *)
(***************************************************************************)
EXTENDS Integers, FiniteSets

CONSTANTS
  Requests,   \* requests served at the same time
  Keys,       \* idempotency keys
  Bodies,     \* canonical request bodies
  Paths,      \* routes behind the middleware
  MaxRuns,    \* bound: executions of the handler
  MaxExpiry,  \* bound: how often a key expires
  Faults      \* a subset of FaultKinds

FaultKinds ==
  {"claim",     \* a SET NX or GET fails; the claim may have been written
   "complete",  \* the final SET fails, or its context was cancelled
   "release",   \* the DEL fails
   "crash"}     \* the API process dies

ASSUME IdempotencyAssumption ==
  /\ MaxRuns \in Nat
  /\ MaxExpiry \in Nat
  /\ Faults \subseteq FaultKinds

VARIABLES
  store,    \* what Redis holds for each key
  req,      \* the requests inside the middleware
  runs,     \* how many times a handler has run (history)
  final,    \* the runs that answered below 500 (history)
  expired   \* how often each key's TTL ran out (history)

vars == <<store, req, runs, final, expired>>

Absent == [state |-> "absent"]

\* Record: the fingerprint, and the run whose response it is about to hold or
\* holds.
Record == [state : {"in_progress", "completed"}, fingerprint : Bodies, run : 1..MaxRuns]

\* What a request carries, and the run it executes or replays (0: none).
RequestState ==
  [pc : {"begin", "lost", "handler", "complete", "release", "replayed"},
   key : Keys, body : Bodies, path : Paths, run : 0..MaxRuns]

NoRequest == [pc |-> "idle"]

Idle == {r \in Requests : req[r] = NoRequest}

\* The requests that own their key: they won the claim and have not yet left.
Owning(k) ==
  {r \in Requests : req[r].pc \in {"handler", "complete", "release"} /\ req[r].key = k}

Init ==
  /\ store = [k \in Keys |-> Absent]
  /\ req = [r \in Requests |-> NoRequest]
  /\ runs = 0
  /\ final = {}
  /\ expired = [k \in Keys |-> 0]

GoTo(r, pc) == req' = [req EXCEPT ![r].pc = pc]

\* The request leaves the middleware.
Leave(r) == req' = [req EXCEPT ![r] = NoRequest]

-----------------------------------------------------------------------------
(* The middleware's steps.                                                 *)

\* A request with a key, a merchant and a readable body gets as far as Begin.
Arrive(r) ==
  /\ req[r] = NoRequest
  /\ runs < MaxRuns
  /\ \E k \in Keys, b \in Bodies, p \in Paths :
       req' = [req EXCEPT ![r] =
                 [pc |-> "begin", key |-> k, body |-> b, path |-> p, run |-> 0]]
  /\ UNCHANGED <<store, runs, final, expired>>

\* Mutant: the fingerprint is left out of the claim.
ClaimWithoutFingerprint(r, n) ==
  store' = [store EXCEPT ![req[r].key] = [state |-> "in_progress", run |-> n]]

\* The claim that SET NX writes for run n.
Claim(r, n) ==
  store' = [store EXCEPT ![req[r].key] =
              [state |-> "in_progress", fingerprint |-> req[r].body, run |-> n]]

\* Mutant: the key is checked and written in two commands (GET, then SET).
BeginWithoutNX(r) ==
  /\ req[r].pc = "begin"
  /\ runs < MaxRuns
  /\ store[req[r].key].state # "completed"
  /\ runs' = runs + 1
  /\ Claim(r, runs')
  /\ req' = [req EXCEPT ![r].pc = "handler", ![r].run = runs']
  /\ UNCHANGED <<final, expired>>

\* Begin, SET NX: the claim is won and the handler starts.
BeginWins(r) ==
  /\ req[r].pc = "begin"
  /\ runs < MaxRuns
  /\ store[req[r].key] = Absent
  /\ runs' = runs + 1
  /\ Claim(r, runs')
  /\ req' = [req EXCEPT ![r].pc = "handler", ![r].run = runs']
  /\ UNCHANGED <<final, expired>>

\* Begin, SET NX: somebody else has the key.
BeginLoses(r) ==
  /\ req[r].pc = "begin"
  /\ store[req[r].key] # Absent
  /\ GoTo(r, "lost")
  /\ UNCHANGED <<store, runs, final, expired>>

\* Begin, SET NX fails, and may have been carried out: 500, nothing runs.
BeginFails(r) ==
  /\ "claim" \in Faults
  /\ req[r].pc = "begin"
  /\ \/ UNCHANGED <<store, runs>>
     \/ /\ store[req[r].key] = Absent
        /\ runs < MaxRuns
        /\ runs' = runs + 1
        /\ Claim(r, runs')
  /\ Leave(r)
  /\ UNCHANGED <<final, expired>>

\* Begin, GET: the key has gone (409), is another body's (422), or its owner is
\* still running (409).
GetRefuses(r) ==
  LET held == store[req[r].key]
  IN /\ req[r].pc = "lost"
     /\ \/ held = Absent
        \/ held # Absent /\ held.fingerprint # req[r].body
        \/ held.state = "in_progress"
     /\ Leave(r)
     /\ UNCHANGED <<store, runs, final, expired>>

\* Mutant: a completed record is replayed whatever the body.
GetReplaysAny(r) ==
  LET held == store[req[r].key]
  IN /\ req[r].pc = "lost"
     /\ held.state = "completed"
     /\ req' = [req EXCEPT ![r].pc = "replayed", ![r].run = held.run]
     /\ UNCHANGED <<store, runs, final, expired>>

\* Begin, GET: the stored response is sent again and the handler does not run.
GetReplays(r) ==
  LET held == store[req[r].key]
  IN /\ req[r].pc = "lost"
     /\ held.state = "completed"
     /\ held.fingerprint = req[r].body
     /\ req' = [req EXCEPT ![r].pc = "replayed", ![r].run = held.run]
     /\ UNCHANGED <<store, runs, final, expired>>

\* Begin, GET fails: 500.
GetFails(r) ==
  /\ "claim" \in Faults
  /\ req[r].pc = "lost"
  /\ Leave(r)
  /\ UNCHANGED <<store, runs, final, expired>>

Replayed(r) ==
  /\ req[r].pc = "replayed"
  /\ Leave(r)
  /\ UNCHANGED <<store, runs, final, expired>>

\* next.ServeHTTP answers below 500: the response is already on its way.
HandlerAnswers(r) ==
  /\ req[r].pc = "handler"
  /\ final' = final \cup {[run |-> req[r].run, key |-> req[r].key,
                           body |-> req[r].body, path |-> req[r].path]}
  /\ GoTo(r, "complete")
  /\ UNCHANGED <<store, runs, expired>>

\* next.ServeHTTP answers 5xx or panics: the outcome is unknown.
HandlerFails(r) ==
  /\ req[r].pc = "handler"
  /\ GoTo(r, "release")
  /\ UNCHANGED <<store, runs, final, expired>>

\* Mutant: the answer is not stored but the claim dropped.
CompleteDropping(r) ==
  /\ req[r].pc = "complete"
  /\ store' = [store EXCEPT ![req[r].key] = Absent]
  /\ Leave(r)
  /\ UNCHANGED <<runs, final, expired>>

\* Complete: an unconditional SET.
Complete(r) ==
  /\ req[r].pc = "complete"
  /\ store' = [store EXCEPT ![req[r].key] =
                 [state |-> "completed", fingerprint |-> req[r].body, run |-> req[r].run]]
  /\ Leave(r)
  /\ UNCHANGED <<runs, final, expired>>

\* Complete runs on the request's own context: it fails when Redis does and
\* when the client hangs up.  The failure is logged; the claim stays.
CompleteFails(r) ==
  /\ "complete" \in Faults
  /\ req[r].pc = "complete"
  /\ Leave(r)
  /\ UNCHANGED <<store, runs, final, expired>>

\* Release: an unconditional DEL, on a context detached from the request.
Release(r) ==
  /\ req[r].pc = "release"
  /\ store' = [store EXCEPT ![req[r].key] = Absent]
  /\ Leave(r)
  /\ UNCHANGED <<runs, final, expired>>

ReleaseFails(r) ==
  /\ "release" \in Faults
  /\ req[r].pc = "release"
  /\ Leave(r)
  /\ UNCHANGED <<store, runs, final, expired>>

\* The process dies wherever the request was.
Crash(r) ==
  /\ "crash" \in Faults
  /\ req[r].pc # "idle"
  /\ Leave(r)
  /\ UNCHANGED <<store, runs, final, expired>>

\* Mutant: the claim is written without a TTL.
ExpireCompleted(k) ==
  /\ store[k].state = "completed"
  /\ expired[k] < MaxExpiry
  /\ store' = [store EXCEPT ![k] = Absent]
  /\ expired' = [expired EXCEPT ![k] = @ + 1]
  /\ UNCHANGED <<req, runs, final>>

\* The TTL runs out.  It is 24 hours from the last SET and the router gives a
\* request 30 seconds, so a key does not expire under its owner.
Expire(k) ==
  /\ store[k] # Absent
  /\ Owning(k) = {}
  /\ expired[k] < MaxExpiry
  /\ store' = [store EXCEPT ![k] = Absent]
  /\ expired' = [expired EXCEPT ![k] = @ + 1]
  /\ UNCHANGED <<req, runs, final>>

\* What the middleware does without anything going wrong.
Advance(r) ==
  \/ BeginWins(r) \/ BeginLoses(r)
  \/ GetRefuses(r) \/ GetReplays(r) \/ Replayed(r)
  \/ HandlerAnswers(r) \/ HandlerFails(r)
  \/ Complete(r) \/ Release(r)

Disturb(r) ==
  BeginFails(r) \/ GetFails(r) \/ CompleteFails(r) \/ ReleaseFails(r) \/ Crash(r)

Next ==
  \/ \E r \in Requests : Arrive(r) \/ Advance(r) \/ Disturb(r)
  \/ \E k \in Keys : Expire(k)

Spec == Init /\ [][Next]_vars

\* The timeouts bound every call a request makes, and Redis expires keys.
Fairness ==
  /\ \A r \in Requests : WF_vars(Advance(r))
  /\ \A k \in Keys : WF_vars(Expire(k))

FairSpec == Spec /\ Fairness

-----------------------------------------------------------------------------
(* What must hold.                                                         *)

TypeOK ==
  /\ store \in [Keys -> Record \cup {Absent}]
  /\ req \in [Requests -> RequestState \cup {NoRequest}]
  /\ runs \in 0..MaxRuns
  /\ final \subseteq [run : 1..MaxRuns, key : Keys, body : Bodies, path : Paths]
  /\ expired \in [Keys -> 0..MaxExpiry]

FinalRuns(k) == {f \in final : f.key = k}

\* "Exactly one of N simultaneous retries wins": one handler at a time runs for
\* a key, and while it does the key in Redis is its own claim, so that its
\* unconditional SET or DEL never hits another request's record.
OneOwner ==
  \A k \in Keys :
    /\ Cardinality(Owning(k)) <= 1
    /\ \A r \in Owning(k) :
         /\ store[k].state = "in_progress"
         /\ store[k].run = req[r].run

\* A final answer is given once: whatever fails or crashes, no second handler
\* completes for a key unless the key's 24 hours ran out in between.
FinalOnce ==
  \A k \in Keys : Cardinality(FinalRuns(k)) <= 1 + expired[k]

\* A replayed response is the one a handler really gave, below 500, to a
\* request with this key and this body.
ReplayIsFaithful ==
  \A r \in Requests : req[r].pc = "replayed" =>
    \E f \in FinalRuns(req[r].key) : f.run = req[r].run /\ f.body = req[r].body

\* A merchant is not locked out for good: a key that is in progress is
\* eventually answered, released or forgotten, whatever crashed.
ClaimsEnd ==
  \A k \in Keys : store[k].state = "in_progress" /\ expired[k] < MaxExpiry
                    ~> store[k].state # "in_progress"

\* "With [the fingerprint] ... a client that reuses a key by accident" is not
\* "silently [given] someone else's answer": a replay answers the operation
\* that was asked for.
ReplayAnswersSameOperation ==
  \A r \in Requests : req[r].pc = "replayed" =>
    \E f \in FinalRuns(req[r].key) : f.run = req[r].run /\ f.path = req[r].path

=============================================================================
