-------------------------- MODULE IdempotencyProofs --------------------------
(***************************************************************************)
(* Proofs about the Idempotency-Key protocol, for any number of requests,  *)
(* keys, bodies and routes and with every kind of fault.                   *)
(*                                                                         *)
(* The argument: while a request owns its key, Redis holds that request's  *)
(* claim, so SET NX lets nobody else in and the owner's unconditional SET  *)
(* or DEL hits its own claim.  Between two final answers to a key the      *)
(* record must therefore have gone, and only the TTL removes the record of *)
(* a request that was answered.                                            *)
(***************************************************************************)
EXTENDS Idempotency, FiniteSetTheorems, TLAPS

Owns(r) == req[r].pc \in {"handler", "complete", "release"}

\* Redis holds the claim of every owner.
ClaimHeld ==
  \A r \in Requests : Owns(r) =>
    store[req[r].key] =
      [state |-> "in_progress", fingerprint |-> req[r].body, run |-> req[r].run]

SoleOwner ==
  \A r, q \in Requests : Owns(r) /\ Owns(q) /\ req[r].key = req[q].key => r = q

\* No final answer has been given in the present life of the key: it is free, or
\* its owner has not been answered.
Unanswered(k) ==
  \/ store[k] = Absent
  \/ \E r \in Owning(k) : req[r].pc # "complete"

\* A key has at most one final answer per life, and none yet in a life that is
\* unanswered.
AnswersCounted ==
  \A k \in Keys :
    /\ Cardinality(FinalRuns(k)) <= 1 + expired[k]
    /\ Unanswered(k) => Cardinality(FinalRuns(k)) <= expired[k]

Answered(k, run, body) == \E f \in FinalRuns(k) : f.run = run /\ f.body = body

\* What is stored as a response, or about to be, was given to the request it is
\* stored for.
StoredIsAnswer ==
  /\ \A k \in Keys : store[k].state = "completed" =>
       Answered(k, store[k].run, store[k].fingerprint)
  /\ \A r \in Requests : req[r].pc = "complete" =>
       Answered(req[r].key, req[r].run, req[r].body)

\* The inductive invariant.
IInv ==
  /\ TypeOK
  /\ IsFiniteSet(final)
  /\ ClaimHeld
  /\ SoleOwner
  /\ AnswersCounted
  /\ StoredIsAnswer
  /\ ReplayIsFaithful

-----------------------------------------------------------------------------
(* Requests and their counts.                                              *)

\* A request that is inside the middleware has all its fields.
LEMMA Inside ==
  ASSUME TypeOK, NEW r \in Requests, req[r].pc # "idle"
  PROVE  req[r] \in RequestState
  BY DEF TypeOK, NoRequest

\* What winning the claim makes of a request.
LEMMA Won ==
  ASSUME NEW s \in RequestState, NEW n \in 0..MaxRuns
  PROVE  [s EXCEPT !.pc = "handler", !.run = n] \in RequestState
  BY DEF RequestState

\* The final answers of a key can be counted.
LEMMA FinalFinite ==
  ASSUME IsFiniteSet(final), NEW k
  PROVE  IsFiniteSet(FinalRuns(k)) /\ Cardinality(FinalRuns(k)) \in Nat
  BY FS_Subset, FS_CardinalityType DEF FinalRuns

-----------------------------------------------------------------------------
(* Shapes of steps.                                                        *)

\* A request leaves, and nothing else happens: it answered from what it read,
\* its last Redis command failed, or its process died.
LEMMA LeaveKeeps ==
  ASSUME IInv, NEW r \in Requests, Leave(r), UNCHANGED <<store, runs, final, expired>>
  PROVE  IInv'
  <1> USE DEF Leave
  <1>1. /\ req'[r] = NoRequest
        /\ \A q \in Requests : q # r => req'[q] = req[q]
    BY DEF IInv, TypeOK
  <1>2. TypeOK' /\ IsFiniteSet(final')
    BY DEF IInv, TypeOK
  <1>3. \A q \in Requests : Owns(q)' => q # r /\ Owns(q)
    BY <1>1 DEF Owns, NoRequest
  <1>4. ClaimHeld' /\ SoleOwner'
    BY <1>1, <1>3 DEF IInv, ClaimHeld, SoleOwner
  <1>5. \A k \in Keys : FinalRuns(k)' = FinalRuns(k)
    BY DEF FinalRuns
  <1>6. AnswersCounted'
    <2>1. ASSUME NEW k \in Keys, Unanswered(k)' PROVE Unanswered(k)
      <3>1. CASE store'[k] = Absent
        BY <3>1 DEF Unanswered
      <3>2. CASE \E q \in Owning(k)' : req'[q].pc # "complete"
        <4>1. PICK q \in Owning(k)' : req'[q].pc # "complete"
          BY <3>2
        <4>2. q # r /\ req'[q] = req[q] /\ q \in Requests
          BY <4>1, <1>1 DEF Owning, NoRequest
        <4>3. q \in Owning(k)
          BY <4>1, <4>2 DEF Owning
        <4>4. QED BY <4>1, <4>2, <4>3 DEF Unanswered
      <3>3. QED BY <2>1, <3>1, <3>2 DEF Unanswered
    <2>2. QED BY <1>5, <2>1 DEF IInv, AnswersCounted
  <1>7. StoredIsAnswer' /\ ReplayIsFaithful'
    BY <1>1, <1>5 DEF IInv, TypeOK, StoredIsAnswer, Answered, ReplayIsFaithful, NoRequest,
                      RequestState, FinalRuns
  <1>8. QED BY <1>2, <1>4, <1>6, <1>7 DEF IInv

\* A request that owns nothing moves on without owning anything or touching the
\* store: it arrives, loses the claim, or is given the stored response.
LEMMA ReaderKeeps ==
  ASSUME IInv, NEW r \in Requests, ~Owns(r),
         NEW s \in RequestState, s.pc \in {"begin", "lost", "replayed"},
         s.pc = "replayed" => Answered(s.key, s.run, s.body),
         req' = [req EXCEPT ![r] = s], UNCHANGED <<store, runs, final, expired>>
  PROVE  IInv'
  <1>1. /\ req'[r] = s
        /\ \A q \in Requests : q # r => req'[q] = req[q]
    BY DEF IInv, TypeOK
  <1>2. TypeOK' /\ IsFiniteSet(final')
    BY DEF IInv, TypeOK
  <1>3. \A q \in Requests : Owns(q)' => q # r /\ Owns(q)
    BY <1>1 DEF Owns
  <1>4. ClaimHeld' /\ SoleOwner'
    BY <1>1, <1>3 DEF IInv, ClaimHeld, SoleOwner
  <1>5. FinalRuns(s.key)' = FinalRuns(s.key) /\ \A k : FinalRuns(k)' = FinalRuns(k)
    BY DEF FinalRuns
  <1>6. AnswersCounted'
    <2>1. ASSUME NEW k \in Keys, Unanswered(k)' PROVE Unanswered(k)
      <3>1. CASE store'[k] = Absent
        BY <3>1 DEF Unanswered
      <3>2. CASE \E q \in Owning(k)' : req'[q].pc # "complete"
        <4>1. PICK q \in Owning(k)' : req'[q].pc # "complete"
          BY <3>2
        <4>2. q # r /\ req'[q] = req[q] /\ q \in Requests
          BY <4>1, <1>1 DEF Owning
        <4>3. q \in Owning(k)
          BY <4>1, <4>2 DEF Owning
        <4>4. QED BY <4>1, <4>2, <4>3 DEF Unanswered
      <3>3. QED BY <2>1, <3>1, <3>2 DEF Unanswered
    <2>2. QED BY <1>5, <2>1 DEF IInv, AnswersCounted
  <1>7. StoredIsAnswer'
    BY <1>1, <1>5 DEF IInv, StoredIsAnswer, Answered
  <1>8. ReplayIsFaithful'
    BY <1>1, <1>5 DEF IInv, Answered, ReplayIsFaithful
  <1>9. QED BY <1>2, <1>4, <1>6, <1>7, <1>8 DEF IInv

-----------------------------------------------------------------------------
(* The claim.                                                              *)

\* SET NX succeeds on a free key: nobody owned it.
LEMMA FreeKey ==
  ASSUME IInv, NEW k \in Keys, store[k] = Absent
  PROVE  \A q \in Requests : ~(Owns(q) /\ req[q].key = k)
  <1> SUFFICES ASSUME NEW q \in Requests, Owns(q), req[q].key = k
               PROVE  FALSE
    OBVIOUS
  <1>1. store[k].state = "in_progress"
    <2>1. store[k] = [state |-> "in_progress", fingerprint |-> req[q].body, run |-> req[q].run]
      BY DEF IInv, ClaimHeld
    <2>2. QED BY <2>1
  <1>2. store[k].state = "absent"
    BY DEF Absent
  <1>3. QED BY <1>1, <1>2

\* SET NX succeeds: no other request owned the key.
LEMMA BeginWinsKeeps ==
  ASSUME IInv, NEW r \in Requests, BeginWins(r)
  PROVE  IInv'
  <1> DEFINE k == req[r].key
  <1>1. req[r] \in RequestState /\ k \in Keys /\ ~Owns(r)
    BY Inside DEF BeginWins, IInv, Owns, RequestState
  <1>2. /\ req'[r].pc = "handler" /\ req'[r].key = k
        /\ req'[r].body = req[r].body /\ req'[r].run = runs + 1
        /\ \A q \in Requests : q # r => req'[q] = req[q]
    BY <1>1 DEF BeginWins, IInv, TypeOK, RequestState
  <1>3. runs + 1 \in 1..MaxRuns
    BY IdempotencyAssumption DEF BeginWins, IInv, TypeOK
  <1>4. /\ store'[k] = [state |-> "in_progress", fingerprint |-> req[r].body, run |-> runs + 1]
        /\ store'[k] \in Record
        /\ \A m \in Keys : m # k => store'[m] = store[m]
    BY <1>1, <1>3 DEF BeginWins, Claim, IInv, TypeOK, RequestState, Record
  <1>5. TypeOK' /\ IsFiniteSet(final')
    <2>1. req'[r] \in RequestState
      <3>1. req'[r] = [req[r] EXCEPT !.pc = "handler", !.run = runs + 1]
        BY DEF BeginWins, IInv, TypeOK
      <3>2. runs + 1 \in 0..MaxRuns
        BY <1>3, IdempotencyAssumption
      <3>3. QED BY <1>1, <3>1, <3>2, Won
    <2>2. req' \in [Requests -> RequestState \cup {NoRequest}]
      BY <2>1, <1>2 DEF BeginWins, IInv, TypeOK
    <2>3. store' \in [Keys -> Record \cup {Absent}]
      BY <1>4 DEF BeginWins, Claim, IInv, TypeOK
    <2>4. QED BY <1>3, <2>2, <2>3 DEF BeginWins, IInv, TypeOK
  <1>6. \A q \in Requests : Owns(q) => req[q].key \in Keys /\ req[q].key # k
    BY <1>1, FreeKey, Inside DEF BeginWins, Owns, IInv, RequestState
  <1>7. \A q \in Requests : q # r => (Owns(q)' <=> Owns(q))
    BY <1>2 DEF Owns
  <1>8. ClaimHeld' /\ SoleOwner'
    BY <1>2, <1>4, <1>6, <1>7 DEF IInv, ClaimHeld, SoleOwner
  <1>9. \A m : FinalRuns(m)' = FinalRuns(m)
    BY DEF FinalRuns, BeginWins
  <1>10. AnswersCounted'
    <2>1. ASSUME NEW m \in Keys, Unanswered(m)' PROVE Unanswered(m)
      <3>1. CASE m = k
        BY <3>1 DEF Unanswered, BeginWins
      <3>2. CASE m # k
        <4>1. CASE \E q \in Owning(m)' : req'[q].pc # "complete"
          <5>1. PICK q \in Owning(m)' : req'[q].pc # "complete"
            BY <4>1
          <5>2. q # r /\ req'[q] = req[q] /\ q \in Requests
            BY <5>1, <3>2, <1>2 DEF Owning
          <5>3. QED BY <5>1, <5>2 DEF Owning, Unanswered
        <4>2. QED BY <2>1, <3>2, <4>1, <1>4 DEF Unanswered
      <3>3. QED BY <3>1, <3>2
    <2>2. QED BY <1>9, <2>1 DEF IInv, AnswersCounted, BeginWins
  <1>11. StoredIsAnswer'
    BY <1>2, <1>4, <1>9 DEF IInv, StoredIsAnswer, Answered
  <1>12. ReplayIsFaithful'
    BY <1>2, <1>9 DEF IInv, ReplayIsFaithful
  <1>13. QED BY <1>5, <1>8, <1>10, <1>11, <1>12 DEF IInv

\* A claim whose SET NX looked as if it had failed belongs to nobody: the request
\* has left and only the TTL will remove it.
LEMMA OrphanClaimKeeps ==
  ASSUME IInv, NEW r \in Requests, req[r].pc = "begin", Leave(r),
         store[req[r].key] = Absent, runs < MaxRuns, runs' = runs + 1, Claim(r, runs'),
         UNCHANGED <<final, expired>>
  PROVE  IInv'
  <1> DEFINE k == req[r].key
  <1>1. req[r] \in RequestState /\ k \in Keys /\ ~Owns(r)
    BY Inside DEF IInv, Owns, RequestState
  <1>2. /\ req'[r] = NoRequest
        /\ \A q \in Requests : q # r => req'[q] = req[q]
    BY DEF Leave, IInv, TypeOK
  <1>3. runs + 1 \in 1..MaxRuns
    BY IdempotencyAssumption DEF IInv, TypeOK
  <1>4. /\ store'[k] = [state |-> "in_progress", fingerprint |-> req[r].body, run |-> runs + 1]
        /\ store'[k] \in Record
        /\ \A m \in Keys : m # k => store'[m] = store[m]
    BY <1>1, <1>3 DEF Claim, IInv, TypeOK, RequestState, Record
  <1>5. TypeOK' /\ IsFiniteSet(final')
    <2>1. req' \in [Requests -> RequestState \cup {NoRequest}]
      BY DEF Leave, IInv, TypeOK
    <2>2. store' \in [Keys -> Record \cup {Absent}]
      BY <1>4 DEF Claim, IInv, TypeOK
    <2>3. QED BY <1>3, <2>1, <2>2 DEF IInv, TypeOK
  <1>6. \A q \in Requests : Owns(q) => req[q].key \in Keys /\ req[q].key # k
    BY <1>1, FreeKey, Inside DEF Owns, IInv, RequestState
  <1>7. \A q \in Requests : Owns(q)' => q # r /\ Owns(q)
    BY <1>2 DEF Owns, NoRequest
  <1>8. ClaimHeld' /\ SoleOwner'
    BY <1>2, <1>4, <1>6, <1>7 DEF IInv, ClaimHeld, SoleOwner
  <1>9. \A m : FinalRuns(m)' = FinalRuns(m)
    BY DEF FinalRuns
  <1>10. AnswersCounted'
    <2>1. ASSUME NEW m \in Keys, Unanswered(m)' PROVE Unanswered(m)
      <3>1. CASE m = k
        BY <3>1 DEF Unanswered
      <3>2. CASE m # k
        <4>1. CASE \E q \in Owning(m)' : req'[q].pc # "complete"
          <5>1. PICK q \in Owning(m)' : req'[q].pc # "complete"
            BY <4>1
          <5>2. q # r /\ req'[q] = req[q] /\ q \in Requests
            BY <5>1, <3>2, <1>2 DEF Owning, NoRequest
          <5>3. QED BY <5>1, <5>2 DEF Owning, Unanswered
        <4>2. QED BY <2>1, <3>2, <4>1, <1>4 DEF Unanswered
      <3>3. QED BY <3>1, <3>2
    <2>2. QED BY <1>9, <2>1 DEF IInv, AnswersCounted
  <1>11. StoredIsAnswer'
    BY <1>2, <1>4, <1>9 DEF IInv, StoredIsAnswer, Answered, NoRequest
  <1>12. ReplayIsFaithful'
    BY <1>2, <1>9 DEF IInv, ReplayIsFaithful, NoRequest
  <1>13. QED BY <1>5, <1>8, <1>10, <1>11, <1>12 DEF IInv

-----------------------------------------------------------------------------
(* The handler.                                                            *)

\* A final answer: the first of the present life of the key.
LEMMA HandlerAnswersKeeps ==
  ASSUME IInv, NEW r \in Requests, HandlerAnswers(r)
  PROVE  IInv'
  <1>1. PICK k \in Keys : req[r] \in RequestState /\ k = req[r].key /\ Owns(r)
                           /\ req[r].pc = "handler"
    BY Inside DEF HandlerAnswers, IInv, Owns, RequestState
  <1>14. PICK f : f = [run |-> req[r].run, key |-> k, body |-> req[r].body, path |-> req[r].path]
    OBVIOUS
  <1>15. PICK n, b : n = req[r].run /\ b = req[r].body
    OBVIOUS
  <1>2. /\ req'[r].pc = "complete" /\ req'[r].key = k
        /\ req'[r].body = req[r].body /\ req'[r].run = req[r].run
        /\ \A q \in Requests : q # r => req'[q] = req[q]
    BY <1>1 DEF HandlerAnswers, GoTo, IInv, TypeOK, RequestState
  <1>3. req[r].run \in 1..MaxRuns
    <2>1. store[k] \in Record \cup {Absent}
      BY <1>1 DEF IInv, TypeOK
    <2>2. store[k] = [state |-> "in_progress", fingerprint |-> req[r].body, run |-> req[r].run]
      BY <1>1 DEF IInv, ClaimHeld
    <2>3. store[k] # Absent
      <3>1. store[k].state = "in_progress"
        BY <2>2
      <3>2. Absent.state = "absent"
        BY DEF Absent
      <3>3. QED BY <3>1, <3>2
    <2>4. store[k].run = req[r].run
      BY <2>2
    <2>5. QED BY <2>1, <2>3, <2>4 DEF Record
  <1>4. final' = final \cup {f} /\ f.key = k /\ f.run = n /\ f.body = b
    BY <1>1, <1>14, <1>15 DEF HandlerAnswers
  <1>5. TypeOK' /\ IsFiniteSet(final')
    <2>1. [req[r] EXCEPT !.pc = "complete"] \in RequestState
      BY <1>1 DEF RequestState
    <2>2. req' \in [Requests -> RequestState \cup {NoRequest}]
      BY <2>1 DEF HandlerAnswers, GoTo, IInv, TypeOK
    <2>3. f \in [run : 1..MaxRuns, key : Keys, body : Bodies, path : Paths]
      BY <1>1, <1>3, <1>14 DEF RequestState
    <2>4. IsFiniteSet(final')
      BY <1>4, FS_AddElement DEF IInv
    <2>5. QED BY <1>4, <2>2, <2>3, <2>4 DEF HandlerAnswers, IInv, TypeOK
  <1>6. \A q \in Requests : (Owns(q)' <=> Owns(q)) /\ (Owns(q) => req'[q].key = req[q].key)
    BY <1>1, <1>2 DEF Owns
  <1>7. SoleOwner'
    BY <1>6 DEF IInv, SoleOwner
  <1>8. ClaimHeld'
    <2> SUFFICES ASSUME NEW q \in Requests, Owns(q)'
                 PROVE  store'[req'[q].key] =
                          [state |-> "in_progress", fingerprint |-> req'[q].body, run |-> req'[q].run]
      BY DEF ClaimHeld
    <2>1. Owns(q) /\ req'[q].key = req[q].key /\ req'[q].body = req[q].body /\ req'[q].run = req[q].run
      BY <1>2, <1>6
    <2>2. QED BY <2>1 DEF HandlerAnswers, IInv, ClaimHeld
  <1>9. /\ FinalRuns(k)' = FinalRuns(k) \cup {f}
        /\ \A m : m # k => FinalRuns(m)' = FinalRuns(m)
        /\ \A m : FinalRuns(m) \subseteq FinalRuns(m)'
    BY <1>4 DEF FinalRuns
  <1>10. AnswersCounted'
    <2> SUFFICES ASSUME NEW m \in Keys
                 PROVE  /\ Cardinality(FinalRuns(m)') <= 1 + expired[m]
                        /\ Unanswered(m)' => Cardinality(FinalRuns(m)') <= expired[m]
      BY DEF AnswersCounted, HandlerAnswers
    <2>1. CASE m = k
      <3>1. Unanswered(k)
        BY <1>1 DEF Unanswered, Owning, Owns
      <3>2. Cardinality(FinalRuns(k)) <= expired[k] /\ expired[k] \in Nat
        BY <3>1, <1>1, IdempotencyAssumption DEF IInv, TypeOK, AnswersCounted
      <3>3. /\ IsFiniteSet(FinalRuns(k)) /\ Cardinality(FinalRuns(k)) \in Nat
        BY FinalFinite DEF IInv
      <3>4. \/ Cardinality(FinalRuns(k)') = Cardinality(FinalRuns(k))
            \/ Cardinality(FinalRuns(k)') = Cardinality(FinalRuns(k)) + 1
        <4>1. Cardinality(FinalRuns(k) \cup {f}) =
                IF f \in FinalRuns(k) THEN Cardinality(FinalRuns(k)) ELSE Cardinality(FinalRuns(k)) + 1
          BY <3>3, FS_AddElement
        <4>2. QED BY <4>1, <1>9
      <3>5. ~Unanswered(k)'
        <4>1. store'[k] # Absent
          BY <1>1, FreeKey DEF HandlerAnswers
        <4>2. \A q \in Owning(k)' : q = r
          BY <1>1, <1>6 DEF IInv, SoleOwner, Owning, Owns
        <4>3. QED BY <4>1, <4>2, <1>2 DEF Unanswered
      <3>6. QED BY <2>1, <3>2, <3>3, <3>4, <3>5
    <2>2. CASE m # k
      <3>1. Unanswered(m)' => Unanswered(m)
        BY <2>2, <1>1, <1>2 DEF Unanswered, Owning, HandlerAnswers
      <3>2. QED BY <2>2, <3>1, <1>9 DEF IInv, AnswersCounted
    <2>3. QED BY <2>1, <2>2
  <1>11. StoredIsAnswer'
    <2>1. \A m, i, x : Answered(m, i, x) => Answered(m, i, x)'
      BY <1>9 DEF Answered
    <2>2. Answered(k, n, b)'
      BY <1>4, <1>9 DEF Answered
    <2>3. ASSUME NEW m \in Keys, store'[m].state = "completed"
          PROVE  Answered(m, store[m].run, store[m].fingerprint)'
      BY <2>1, <2>3 DEF HandlerAnswers, IInv, StoredIsAnswer
    <2>4. ASSUME NEW q \in Requests, req'[q].pc = "complete"
          PROVE  Answered(req[q].key, req[q].run, req[q].body)'
      BY <2>1, <2>2, <2>4, <1>1, <1>2, <1>15 DEF IInv, StoredIsAnswer
    <2>5. QED BY <2>3, <2>4 DEF HandlerAnswers, StoredIsAnswer
  <1>12. ReplayIsFaithful'
    BY <1>2, <1>9 DEF IInv, ReplayIsFaithful
  <1>13. QED BY <1>5, <1>7, <1>8, <1>10, <1>11, <1>12 DEF IInv

\* The handler fails: nothing was answered and the claim is about to be released.
LEMMA HandlerFailsKeeps ==
  ASSUME IInv, NEW r \in Requests, HandlerFails(r)
  PROVE  IInv'
  <1>1. req[r] \in RequestState /\ Owns(r) /\ req[r].pc = "handler"
    BY Inside DEF HandlerFails, IInv, Owns
  <1>2. /\ req'[r].pc = "release" /\ req'[r].key = req[r].key
        /\ req'[r].body = req[r].body /\ req'[r].run = req[r].run
        /\ \A q \in Requests : q # r => req'[q] = req[q]
    BY <1>1 DEF HandlerFails, GoTo, IInv, TypeOK, RequestState
  <1>3. TypeOK' /\ IsFiniteSet(final')
    <2>1. [req[r] EXCEPT !.pc = "release"] \in RequestState
      BY <1>1 DEF RequestState
    <2>2. req' \in [Requests -> RequestState \cup {NoRequest}]
      BY <2>1 DEF HandlerFails, GoTo, IInv, TypeOK
    <2>3. QED BY <2>2 DEF HandlerFails, IInv, TypeOK
  <1>4. \A q \in Requests : (Owns(q)' <=> Owns(q)) /\ (Owns(q) => req'[q].key = req[q].key)
    BY <1>1, <1>2 DEF Owns
  <1>5. SoleOwner'
    BY <1>4 DEF IInv, SoleOwner
  <1>6. ClaimHeld'
    <2> SUFFICES ASSUME NEW q \in Requests, Owns(q)'
                 PROVE  store'[req'[q].key] =
                          [state |-> "in_progress", fingerprint |-> req'[q].body, run |-> req'[q].run]
      BY DEF ClaimHeld
    <2>1. Owns(q) /\ req'[q].key = req[q].key /\ req'[q].body = req[q].body /\ req'[q].run = req[q].run
      BY <1>2, <1>4
    <2>2. QED BY <2>1 DEF HandlerFails, IInv, ClaimHeld
  <1>7. \A m : FinalRuns(m)' = FinalRuns(m)
    BY DEF FinalRuns, HandlerFails
  <1>8. AnswersCounted'
    <2>1. ASSUME NEW m \in Keys, Unanswered(m)' PROVE Unanswered(m)
      BY <2>1, <1>1, <1>2 DEF Unanswered, Owning, HandlerFails
    <2>2. QED BY <1>7, <2>1 DEF IInv, AnswersCounted, HandlerFails
  <1>9. StoredIsAnswer' /\ ReplayIsFaithful'
    BY <1>2, <1>7 DEF IInv, StoredIsAnswer, Answered, ReplayIsFaithful, HandlerFails
  <1>10. QED BY <1>3, <1>5, <1>6, <1>8, <1>9 DEF IInv

-----------------------------------------------------------------------------
(* The last command.                                                       *)

\* The owner of a key leaves and writes its key as it goes: the stored answer
\* (Complete) or nothing (Release).  It was the only owner.
LEMMA OwnerLeaves ==
  ASSUME IInv, NEW r \in Requests, Owns(r), Leave(r),
         NEW x \in Record \cup {Absent},
         store' = [store EXCEPT ![req[r].key] = x],
         x = Absent => req[r].pc = "release",
         x.state = "completed" => Answered(req[r].key, x.run, x.fingerprint),
         UNCHANGED <<runs, final, expired>>
  PROVE  IInv'
  <1>1. PICK k \in Keys : req[r] \in RequestState /\ k = req[r].key
    BY Inside DEF IInv, Owns, RequestState
  <1>2. /\ req'[r] = NoRequest
        /\ \A q \in Requests : q # r => req'[q] = req[q]
    BY DEF Leave, IInv, TypeOK
  <1>3. store'[k] = x /\ \A m \in Keys : m # k => store'[m] = store[m]
    BY <1>1 DEF IInv, TypeOK
  <1>4. TypeOK' /\ IsFiniteSet(final')
    BY <1>1 DEF Leave, IInv, TypeOK
  <1>5. \A q \in Requests : Owns(q)' => /\ q # r /\ Owns(q)
                                         /\ req[q].key \in Keys /\ req[q].key # k
    <2>1. \A q \in Requests : Owns(q)' => q # r /\ Owns(q)
      BY <1>2 DEF Owns, NoRequest
    <2>2. \A q \in Requests : Owns(q) => req[q].key \in Keys
      BY Inside DEF IInv, Owns, RequestState
    <2>3. QED BY <1>1, <2>1, <2>2 DEF IInv, SoleOwner
  <1>6. ClaimHeld' /\ SoleOwner'
    BY <1>2, <1>3, <1>5 DEF IInv, ClaimHeld, SoleOwner
  <1>7. \A m : FinalRuns(m)' = FinalRuns(m)
    BY DEF FinalRuns
  <1>8. AnswersCounted'
    <2>1. ASSUME NEW m \in Keys, Unanswered(m)' PROVE Unanswered(m)
      <3>1. CASE m = k
        <4>1. Owning(k)' = {}
          BY <1>2, <1>5 DEF Owning, Owns
        <4>2. x = Absent
          BY <2>1, <3>1, <4>1, <1>3 DEF Unanswered
        <4>3. QED BY <3>1, <4>2, <1>1 DEF Unanswered, Owning
      <3>2. CASE m # k
        <4>1. CASE \E q \in Owning(m)' : req'[q].pc # "complete"
          <5>1. PICK q \in Owning(m)' : req'[q].pc # "complete"
            BY <4>1
          <5>2. q # r /\ req'[q] = req[q] /\ q \in Requests
            BY <5>1, <1>2 DEF Owning, NoRequest
          <5>3. QED BY <5>1, <5>2 DEF Owning, Unanswered
        <4>2. QED BY <2>1, <3>2, <4>1, <1>3 DEF Unanswered
      <3>3. QED BY <3>1, <3>2
    <2>2. QED BY <1>7, <2>1 DEF IInv, AnswersCounted
  <1>9. StoredIsAnswer'
    BY <1>1, <1>2, <1>3, <1>7 DEF IInv, StoredIsAnswer, Answered, NoRequest
  <1>10. ReplayIsFaithful'
    BY <1>2, <1>7 DEF IInv, ReplayIsFaithful, NoRequest
  <1>11. QED BY <1>4, <1>6, <1>8, <1>9, <1>10 DEF IInv

\* The TTL ends a life of the key; it never ends one under an owner.
LEMMA ExpireKeeps ==
  ASSUME IInv, NEW k \in Keys, Expire(k)
  PROVE  IInv'
  <1>1. /\ store'[k] = Absent /\ \A m \in Keys : m # k => store'[m] = store[m]
        /\ expired'[k] = expired[k] + 1 /\ \A m \in Keys : m # k => expired'[m] = expired[m]
        /\ expired[k] \in Nat
    BY IdempotencyAssumption DEF Expire, IInv, TypeOK
  <1>2. TypeOK' /\ IsFiniteSet(final')
    BY IdempotencyAssumption DEF Expire, IInv, TypeOK
  <1>3. \A q \in Requests : Owns(q) => req[q].key \in Keys /\ req[q].key # k
    BY Inside DEF Expire, Owning, Owns, IInv, RequestState
  <1>4. \A q \in Requests : Owns(q)' <=> Owns(q)
    BY DEF Owns, Expire
  <1>5. ClaimHeld' /\ SoleOwner'
    BY <1>1, <1>3, <1>4 DEF Expire, IInv, ClaimHeld, SoleOwner
  <1>6. \A m : FinalRuns(m)' = FinalRuns(m) /\ Owning(m)' = Owning(m)
    BY DEF FinalRuns, Owning, Expire
  <1>7. AnswersCounted'
    <2> SUFFICES ASSUME NEW m \in Keys
                 PROVE  /\ Cardinality(FinalRuns(m)) <= 1 + expired'[m]
                        /\ Unanswered(m)' => Cardinality(FinalRuns(m)) <= expired'[m]
      BY <1>6 DEF AnswersCounted
    <2>1. CASE m = k
      <3>1. Cardinality(FinalRuns(k)) \in Nat
        BY FinalFinite DEF IInv
      <3>2. Cardinality(FinalRuns(k)) <= 1 + expired[k]
        BY DEF IInv, AnswersCounted
      <3>3. QED BY <2>1, <3>1, <3>2, <1>1
    <2>2. CASE m # k
      <3>1. Unanswered(m)' => Unanswered(m)
        BY <2>2, <1>1, <1>6 DEF Unanswered, Expire
      <3>2. QED BY <2>2, <3>1, <1>1 DEF IInv, AnswersCounted
    <2>3. QED BY <2>1, <2>2
  <1>8. StoredIsAnswer'
    BY <1>1, <1>6 DEF Expire, IInv, StoredIsAnswer, Answered, Absent
  <1>9. ReplayIsFaithful'
    BY <1>6 DEF Expire, IInv, ReplayIsFaithful
  <1>10. QED BY <1>2, <1>5, <1>7, <1>8, <1>9 DEF IInv

-----------------------------------------------------------------------------
(* The protocol.                                                           *)

\* A request with a key that owns nothing goes on reading, owning nothing.
LEMMA ReadingKeeps ==
  ASSUME IInv, NEW r \in Requests, Arrive(r) \/ BeginLoses(r) \/ GetReplays(r)
  PROVE  IInv'
  <1>1. CASE Arrive(r)
    <2>1. PICK k \in Keys, b \in Bodies, p \in Paths :
            req' = [req EXCEPT ![r] =
                      [pc |-> "begin", key |-> k, body |-> b, path |-> p, run |-> 0]]
      BY <1>1 DEF Arrive
    <2>2. [pc |-> "begin", key |-> k, body |-> b, path |-> p, run |-> 0] \in RequestState
      BY IdempotencyAssumption DEF RequestState
    <2>3. ~Owns(r)
      BY <1>1 DEF Arrive, Owns, NoRequest
    <2>4. QED BY <1>1, <2>1, <2>2, <2>3, ReaderKeeps DEF Arrive
  <1>2. CASE BeginLoses(r)
    <2>1. req[r] \in RequestState /\ ~Owns(r)
      BY <1>2, Inside DEF BeginLoses, IInv, Owns
    <2>2. PICK s : s = [req[r] EXCEPT !.pc = "lost"]
      OBVIOUS
    <2>3. s \in RequestState /\ s.pc = "lost"
      BY <2>1, <2>2 DEF RequestState
    <2>4. req' = [req EXCEPT ![r] = s]
      BY <1>2, <2>2 DEF BeginLoses, GoTo, IInv, TypeOK
    <2>5. QED BY <1>2, <2>1, <2>3, <2>4, ReaderKeeps DEF BeginLoses
  <1>3. CASE GetReplays(r)
    <2>1. req[r] \in RequestState /\ ~Owns(r)
      BY <1>3, Inside DEF GetReplays, IInv, Owns
    <2>2. PICK k \in Keys : k = req[r].key
      BY <2>1 DEF RequestState
    <2>3. Answered(k, store[k].run, req[r].body)
      BY <1>3, <2>2 DEF GetReplays, IInv, StoredIsAnswer
    <2>4. store[k].run \in 0..MaxRuns
      <3>1. store[k] # Absent
        BY <1>3, <2>2 DEF GetReplays, Absent
      <3>2. QED BY <3>1, <2>2, IdempotencyAssumption DEF IInv, TypeOK, Record
    <2>5. PICK s : s = [req[r] EXCEPT !.pc = "replayed", !.run = store[k].run]
      OBVIOUS
    <2>6. /\ s \in RequestState /\ s.pc = "replayed" /\ s.key = k
          /\ s.run = store[k].run /\ s.body = req[r].body
      BY <2>1, <2>2, <2>4, <2>5 DEF RequestState
    <2>7. req' = [req EXCEPT ![r] = s]
      BY <1>3, <2>2, <2>5 DEF GetReplays, IInv, TypeOK
    <2>8. QED BY <1>3, <2>1, <2>3, <2>6, <2>7, ReaderKeeps DEF GetReplays
  <1>4. QED BY <1>1, <1>2, <1>3

\* Complete stores the answer its own request was given.
LEMMA CompleteKeeps ==
  ASSUME IInv, NEW r \in Requests, Complete(r)
  PROVE  IInv'
  <1>1. req[r] \in RequestState /\ Owns(r) /\ req[r].pc = "complete"
    BY Inside DEF Complete, IInv, Owns
  <1>2. Answered(req[r].key, req[r].run, req[r].body)
    BY <1>1 DEF IInv, StoredIsAnswer
  <1>3. PICK x : x = [state |-> "completed", fingerprint |-> req[r].body, run |-> req[r].run]
    OBVIOUS
  <1>4. x.state = "completed" /\ x.run = req[r].run /\ x.fingerprint = req[r].body
    BY <1>3
  <1>5. req[r].run \in 1..MaxRuns
    <2>1. PICK f \in final : f.run = req[r].run
      BY <1>2 DEF Answered, FinalRuns
    <2>2. QED BY <2>1 DEF IInv, TypeOK
  <1>6. x \in Record
    BY <1>1, <1>3, <1>5 DEF Record, RequestState
  <1>7. x # Absent
    BY <1>4 DEF Absent
  <1>8. store' = [store EXCEPT ![req[r].key] = x] /\ Leave(r)
        /\ UNCHANGED <<runs, final, expired>>
    BY <1>3 DEF Complete
  <1>9. QED BY <1>1, <1>2, <1>4, <1>6, <1>7, <1>8, OwnerLeaves

\* DEL frees the key of a run that gave no final answer.
LEMMA ReleaseKeeps ==
  ASSUME IInv, NEW r \in Requests, Release(r)
  PROVE  IInv'
  <1>1. Owns(r) /\ req[r].pc = "release"
    BY DEF Release, Owns
  <1>2. Absent.state # "completed"
    BY DEF Absent
  <1>3. QED BY <1>1, <1>2, OwnerLeaves DEF Release

\* Redis's answer to Begin is lost: the claim may stand and nobody owns it.
LEMMA BeginFailsKeeps ==
  ASSUME IInv, NEW r \in Requests, BeginFails(r)
  PROVE  IInv'
  <1>1. CASE UNCHANGED <<store, runs>>
    BY <1>1, LeaveKeeps DEF BeginFails
  <1>2. CASE /\ store[req[r].key] = Absent /\ runs < MaxRuns
             /\ runs' = runs + 1 /\ Claim(r, runs')
    BY <1>2, OrphanClaimKeeps DEF BeginFails
  <1>3. QED BY <1>1, <1>2 DEF BeginFails

\* One case per step of the middleware, and the TTL.
LEMMA NextKeeps ==
  ASSUME IInv, [Next]_vars
  PROVE  IInv'
  <1>1. ASSUME NEW r \in Requests, Arrive(r) \/ BeginLoses(r) \/ GetReplays(r) PROVE IInv'
    BY <1>1, ReadingKeeps
  <1>2. ASSUME NEW r \in Requests, BeginWins(r) PROVE IInv'
    BY <1>2, BeginWinsKeeps
  <1>3. ASSUME NEW r \in Requests,
               GetRefuses(r) \/ Replayed(r) \/ GetFails(r) \/ CompleteFails(r)
                 \/ ReleaseFails(r) \/ Crash(r)
        PROVE  IInv'
    BY <1>3, LeaveKeeps DEF GetRefuses, Replayed, GetFails, CompleteFails, ReleaseFails, Crash
  <1>4. ASSUME NEW r \in Requests, HandlerAnswers(r) PROVE IInv'
    BY <1>4, HandlerAnswersKeeps
  <1>5. ASSUME NEW r \in Requests, HandlerFails(r) PROVE IInv'
    BY <1>5, HandlerFailsKeeps
  <1>6. ASSUME NEW r \in Requests, Complete(r) PROVE IInv'
    BY <1>6, CompleteKeeps
  <1>7. ASSUME NEW r \in Requests, Release(r) PROVE IInv'
    BY <1>7, ReleaseKeeps
  <1>8. ASSUME NEW r \in Requests, BeginFails(r) PROVE IInv'
    BY <1>8, BeginFailsKeeps
  <1>9. ASSUME NEW k \in Keys, Expire(k) PROVE IInv'
    BY <1>9, ExpireKeeps
  <1>10. CASE UNCHANGED vars
    BY <1>10 DEF vars, IInv, TypeOK, ClaimHeld, SoleOwner, AnswersCounted, Unanswered,
                 StoredIsAnswer, Answered, ReplayIsFaithful, Owns, Owning, FinalRuns
  <1>11. QED
    BY <1>1, <1>2, <1>3, <1>4, <1>5, <1>6, <1>7, <1>8, <1>9, <1>10 DEF Next, Advance, Disturb

-----------------------------------------------------------------------------
(* The theorems.                                                           *)

\* The protocol starts in the inductive invariant.
LEMMA InitEstablishes ==
  ASSUME Init
  PROVE  IInv
<1>1. TypeOK /\ IsFiniteSet(final)
  BY IdempotencyAssumption, FS_EmptySet DEF Init, TypeOK
<1>2. \A r \in Requests : req[r].pc = "idle"
  BY DEF Init, NoRequest
<1>3. ClaimHeld /\ SoleOwner
  BY <1>2 DEF ClaimHeld, SoleOwner, Owns
<1>4. \A k \in Keys : FinalRuns(k) = {} /\ expired[k] = 0
  BY DEF Init, FinalRuns
<1>5. AnswersCounted
  BY <1>4, FS_EmptySet DEF AnswersCounted
<1>6. \A k \in Keys : store[k].state = "absent"
  BY DEF Init, Absent
<1>7. StoredIsAnswer /\ ReplayIsFaithful
  BY <1>2, <1>6 DEF StoredIsAnswer, ReplayIsFaithful
<1>. QED BY <1>1, <1>3, <1>5, <1>7 DEF IInv

\* The inductive invariant holds of every reachable state of the protocol.
THEOREM Invariance == Spec => []IInv
  <1>1. Init => IInv
    BY InitEstablishes
  <1>2. IInv /\ [Next]_vars => IInv'
    BY NextKeeps
  <1>3. QED BY <1>1, <1>2, PTL DEF Spec

\* Redis, the requests and the histories keep their types.
THEOREM TypeCorrect == Spec => []TypeOK
  <1>1. IInv => TypeOK
    BY DEF IInv
  <1>2. QED BY <1>1, Invariance, PTL

\* One handler at a time runs for a key, and the key in Redis is its own claim.
THEOREM SingleOwner == Spec => []OneOwner
  <1>1. IInv => OneOwner
    <2> SUFFICES ASSUME IInv, NEW k \in Keys
                 PROVE  /\ Cardinality(Owning(k)) <= 1
                        /\ \A r \in Owning(k) :
                             store[k].state = "in_progress" /\ store[k].run = req[r].run
      BY DEF OneOwner
    <2>1. \A r, q \in Owning(k) : r = q
      BY DEF IInv, SoleOwner, Owning, Owns
    <2>2. Cardinality(Owning(k)) <= 1
      <3>1. CASE Owning(k) = {}
        BY <3>1, FS_EmptySet
      <3>2. CASE Owning(k) # {}
        <4>1. PICK r : Owning(k) = {r}
          BY <3>2, <2>1
        <4>2. Cardinality({r}) = 1
          BY FS_Singleton
        <4>3. QED BY <4>1, <4>2
      <3>3. QED BY <3>1, <3>2
    <2>3. ASSUME NEW r \in Owning(k)
          PROVE  store[k].state = "in_progress" /\ store[k].run = req[r].run
      <3>1. store[k] = [state |-> "in_progress", fingerprint |-> req[r].body, run |-> req[r].run]
        BY DEF IInv, ClaimHeld, Owning, Owns
      <3>2. QED BY <3>1
    <2>4. QED BY <2>2, <2>3
  <1>2. QED BY <1>1, Invariance, PTL

\* Whatever fails or crashes, a key is given no second final answer before its
\* TTL has run out.
THEOREM OneFinalAnswer == Spec => []FinalOnce
  <1>1. IInv => FinalOnce
    BY DEF IInv, AnswersCounted, FinalOnce
  <1>2. QED BY <1>1, Invariance, PTL

\* A replayed response was really given, to a request with this key and body.
THEOREM FaithfulReplay == Spec => []ReplayIsFaithful
  <1>1. IInv => ReplayIsFaithful
    BY DEF IInv
  <1>2. QED BY <1>1, Invariance, PTL

=============================================================================
