---------------------------- MODULE SubmitOrder ----------------------------
(***************************************************************************)
(* POST /orders: create_order (app/api/routes.py), submit_order and        *)
(* _resolve_idempotency_key (app/service.py), in the transaction of        *)
(* get_session (app/db.py).                                                *)
(*                                                                         *)
(* A request is one HTTP call.  Calls run concurrently in the event loops  *)
(* of the API processes, so they interleave at every await; a client may   *)
(* send several calls with the same Idempotency-Key, one after the other   *)
(* or at once.  A request creates at most one order, so an order is named  *)
(* by its request.  The counter and the cache write after the publish      *)
(* swallow every error and decide nothing here; they are left out.         *)
(***************************************************************************)
EXTENDS Integers

CONSTANTS Requests, Keys,
          KeyOf,         \* KeyOf[r]: the Idempotency-Key of r, "none" without one
          MaxFaults      \* bound on the calls that fail

ASSUME SubmitAssumption ==
  /\ KeyOf \in [Requests -> Keys \cup {"none"}]
  /\ "none" \notin Keys \cup Requests
  /\ MaxFaults \in Nat

VARIABLES
  pc,         \* pc[r]: the next step of the call
  answer,     \* answer[r]: what the client was answered
  original,   \* original[r]: the order a duplicate was answered with
  earlier,    \* earlier[r]: the requests that were answered before r was sent
  rows,       \* the orders committed to the orders table
  keyed,      \* keyed[k]: the order idem:api:{k} names
  expired,    \* the keys whose TTL has run out at some time
  published,  \* the orders whose order.created event is on orders.created
  faults      \* how many calls have failed

vars == <<pc, answer, original, earlier, rows, keyed, expired, published, faults>>

Pcs == {"idle", "resolve", "create", "setKey", "publish", "respond", "done"}
Answers == {"none", "accepted", "duplicate", "error"}

TypeOK ==
  /\ pc \in [Requests -> Pcs]
  /\ answer \in [Requests -> Answers]
  /\ original \in [Requests -> Requests \cup {"none"}]
  /\ earlier \in [Requests -> SUBSET Requests]
  /\ rows \subseteq Requests
  /\ keyed \in [Keys -> Requests \cup {"none"}]
  /\ expired \subseteq Keys
  /\ published \subseteq Requests
  /\ faults \in Nat

Init ==
  /\ pc = [r \in Requests |-> "idle"]
  /\ answer = [r \in Requests |-> "none"]
  /\ original = [r \in Requests |-> "none"]
  /\ earlier = [r \in Requests |-> {}]
  /\ rows = {}
  /\ keyed = [k \in Keys |-> "none"]
  /\ expired = {}
  /\ published = {}
  /\ faults = 0

-----------------------------------------------------------------------------
HasKey(r) == KeyOf[r] # "none"

At(r, p) == pc[r] = p
Go(r, p) == pc' = [pc EXCEPT ![r] = p] /\ UNCHANGED <<answer, original, earlier, expired, faults>>

\* The client sends the request.
Begin(r) ==
  /\ At(r, "idle")
  /\ pc' = [pc EXCEPT ![r] = IF HasKey(r) THEN "resolve" ELSE "create"]
  /\ earlier' = [earlier EXCEPT ![r] = {q \in Requests : answer[q] # "none"}]
  /\ UNCHANGED <<answer, original, rows, keyed, expired, published, faults>>

\* As a mutant: the request is answered with an order of its own.
Resolve_Fresh(r) ==
  /\ At(r, "resolve")
  /\ IF keyed[KeyOf[r]] \in rows
       THEN /\ pc' = [pc EXCEPT ![r] = "done"]
            /\ answer' = [answer EXCEPT ![r] = "duplicate"]
            /\ original' = [original EXCEPT ![r] = r]
            /\ UNCHANGED <<earlier, expired, faults>>
       ELSE Go(r, "create")
  /\ UNCHANGED <<rows, keyed, published>>

\* _resolve_idempotency_key: the order the key names answers the request (200).
Resolve(r) ==
  /\ At(r, "resolve")
  /\ IF keyed[KeyOf[r]] \in rows
       THEN /\ pc' = [pc EXCEPT ![r] = "done"]
            /\ answer' = [answer EXCEPT ![r] = "duplicate"]
            /\ original' = [original EXCEPT ![r] = keyed[KeyOf[r]]]
            /\ UNCHANGED <<earlier, expired, faults>>
       ELSE Go(r, "create")
  /\ UNCHANGED <<rows, keyed, published>>

\* repo.create_order and session.commit().
Insert(r) == rows' = rows \cup {r} /\ UNCHANGED <<keyed, published>>

Create(r) ==
  /\ At(r, "create")
  /\ Insert(r)
  /\ Go(r, IF HasKey(r) THEN "setKey" ELSE "publish")

\* redis.set(key, order_id, ex=ttl): unconditional.
StoreKey(r) == keyed' = [keyed EXCEPT ![KeyOf[r]] = r] /\ UNCHANGED <<rows, published>>

\* As a mutant: the key is never stored.
SetKey_Forgotten(r) ==
  /\ At(r, "setKey")
  /\ Go(r, "publish")
  /\ UNCHANGED <<rows, keyed, published>>

SetKey(r) ==
  /\ At(r, "setKey")
  /\ StoreKey(r)
  /\ Go(r, "publish")

\* As a mutant: the event carries the idempotency key in place of the order id.
Send_WrongId(r) == published' = published \cup {KeyOf[r]} /\ UNCHANGED <<rows, keyed>>

\* publish_event(event, attempt=1).
Send(r) == published' = published \cup {r} /\ UNCHANGED <<rows, keyed>>

\* As a mutant: the publish is not awaited.
Publish_NotAwaited(r) ==
  /\ At(r, "publish")
  /\ Send(r) \/ UNCHANGED <<rows, keyed, published>>
  /\ Go(r, "respond")

Publish(r) ==
  /\ At(r, "publish")
  /\ Send(r)
  /\ Go(r, "respond")

\* 202 Accepted.
Respond(r) ==
  /\ At(r, "respond")
  /\ pc' = [pc EXCEPT ![r] = "done"]
  /\ answer' = [answer EXCEPT ![r] = "accepted"]
  /\ UNCHANGED <<original, earlier, rows, keyed, expired, published, faults>>

\* A call raises, with or without its effect, or the process dies: the session
\* is rolled back and the client sees an error.
Fail(r) ==
  /\ faults < MaxFaults
  /\ ~At(r, "idle") /\ ~At(r, "done")
  /\ \/ UNCHANGED <<rows, keyed, published>>
     \/ At(r, "create") /\ Insert(r)
     \/ At(r, "setKey") /\ StoreKey(r)
     \/ At(r, "publish") /\ Send(r)
  /\ pc' = [pc EXCEPT ![r] = "done"]
  /\ answer' = [answer EXCEPT ![r] = "error"]
  /\ faults' = faults + 1
  /\ UNCHANGED <<original, earlier, expired>>

\* The TTL of idem:api:{k} runs out.
Expire(k) ==
  /\ keyed[k] # "none"
  /\ keyed' = [keyed EXCEPT ![k] = "none"]
  /\ expired' = expired \cup {k}
  /\ UNCHANGED <<pc, answer, original, earlier, rows, published, faults>>

RequestStep(r) ==
  \/ Begin(r) \/ Resolve(r) \/ Create(r) \/ SetKey(r) \/ Publish(r) \/ Respond(r)
  \/ Fail(r)

Next ==
  \/ \E r \in Requests : RequestStep(r)
  \/ \E k \in Keys : Expire(k)

Spec == Init /\ [][Next]_vars

-----------------------------------------------------------------------------
\* What the worker relies on and the client is told: an event is published only
\* for a committed order, and 202 is answered only for a published one.
AcceptedIsPublished ==
  /\ published \subseteq rows
  /\ \A r \in Requests : answer[r] = "accepted" => r \in published

\* A client that repeats a request it has had an answer to (202, or 200 for a
\* repeat) gets an order that already exists and creates none, while the key
\* lives: whatever other calls with the key are in flight or fail.
RepeatCreatesNothing ==
  \A q, r \in Requests :
    /\ HasKey(r) /\ KeyOf[q] = KeyOf[r] /\ KeyOf[r] \notin expired
    /\ q \in earlier[r] /\ answer[q] \in {"accepted", "duplicate"}
    => r \notin rows

\* One order per Idempotency-Key, while the key lives.
OneOrderPerKey ==
  \A q, r \in rows : HasKey(r) /\ KeyOf[q] = KeyOf[r] /\ KeyOf[r] \notin expired => q = r

\* A duplicate is answered with an order that exists and was created with its
\* key, and that is published or about to be: the dual write leaves it without
\* its event only when the call that created it has failed.
DuplicateIsOriginal ==
  \A r \in Requests :
    answer[r] = "duplicate" =>
      LET o == original[r] IN
      /\ o \in rows /\ KeyOf[o] = KeyOf[r]
      /\ At(o, "publish") \/ o \in published \/ answer[o] = "error"

=============================================================================
