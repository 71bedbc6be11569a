------------------------ MODULE SubmitOrder_proofs ------------------------
(***************************************************************************)
(* What POST /orders promises, for any number of calls and keys and        *)
(* whatever calls fail.                                                    *)
(***************************************************************************)
EXTENDS SubmitOrder, TLAPS

\* A call: what it has done follows from where it is, and answers are final.
CallInv ==
  \A r \in Requests :
    /\ pc[r] \in {"resolve", "setKey"} => HasKey(r)
    /\ pc[r] \in {"idle", "resolve", "create"} => r \notin rows
    /\ pc[r] \in {"setKey", "publish", "respond"} => r \in rows
    /\ pc[r] = "respond" => r \in published
    /\ pc[r] = "done" <=> answer[r] # "none"
    /\ pc[r] = "idle" => earlier[r] = {}
    /\ \A q \in earlier[r] : answer[q] # "none"

\* The event of o is there, is the next step of its call, or its call has failed.
Reached(o) == At(o, "publish") \/ o \in published \/ answer[o] = "error"

\* A key names an order that was created with it.
KeyInv ==
  \A k \in Keys :
    keyed[k] # "none" => /\ keyed[k] \in rows /\ KeyOf[keyed[k]] = k
                         /\ Reached(keyed[k])

\* q has come past its SetKey, or was answered with the order of the key.
KeyKnown(q) == answer[q] \in {"accepted", "duplicate"} \/ pc[q] \in {"publish", "respond"}

\* While the key lives, a call that has come past SetKey leaves it set.
LiveInv ==
  \A q \in Requests :
    HasKey(q) /\ KeyOf[q] \notin expired /\ KeyKnown(q) => keyed[KeyOf[q]] # "none"

\* r repeats a call that was answered before it was sent.
Repeats(r, q) ==
  /\ HasKey(r) /\ KeyOf[q] = KeyOf[r] /\ KeyOf[r] \notin expired
  /\ q \in earlier[r] /\ answer[q] \in {"accepted", "duplicate"}

\* A repeat never comes past the lookup of the key.
RepeatInv ==
  \A q, r \in Requests : Repeats(r, q) => pc[r] \in {"resolve", "done"} /\ r \notin rows

IInv == /\ TypeOK /\ CallInv /\ AcceptedIsPublished /\ KeyInv /\ DuplicateIsOriginal
        /\ LiveInv /\ RepeatInv

-----------------------------------------------------------------------------
\* Requests and keys are told apart from "none".
LEMMA KeyFacts ==
  /\ \A r \in Requests : HasKey(r) => KeyOf[r] \in Keys
  /\ "none" \notin Keys /\ "none" \notin Requests
  BY SubmitAssumption DEF HasKey

\* Every step keeps the types.
LEMMA TypeStep == IInv /\ [Next]_vars => TypeOK'
<1> SUFFICES ASSUME IInv, [Next]_vars PROVE TypeOK'
  OBVIOUS
<1>t. TypeOK /\ CallInv /\ KeyInv
  BY DEF IInv
<1> USE DEF TypeOK, Pcs, Answers
<1>1. ASSUME NEW r \in Requests, Begin(r) PROVE TypeOK'
  BY <1>t, <1>1 DEF Begin, At
<1>2. ASSUME NEW r \in Requests, Resolve(r) PROVE TypeOK'
  BY <1>t, <1>2 DEF Resolve, At, Go
<1>3. ASSUME NEW r \in Requests, Create(r) PROVE TypeOK'
  BY <1>t, <1>3 DEF Create, At, Go, Insert
<1>4. ASSUME NEW r \in Requests, SetKey(r) PROVE TypeOK'
  BY <1>t, <1>4, KeyFacts DEF SetKey, At, Go, StoreKey, CallInv
<1>5. ASSUME NEW r \in Requests, Publish(r) PROVE TypeOK'
  BY <1>t, <1>5 DEF Publish, At, Go, Send
<1>6. ASSUME NEW r \in Requests, Respond(r) PROVE TypeOK'
  BY <1>t, <1>6 DEF Respond, At
<1>7. ASSUME NEW r \in Requests, Fail(r) PROVE TypeOK'
  BY <1>t, <1>7, KeyFacts DEF Fail, At, Insert, StoreKey, Send, CallInv
<1>8. ASSUME NEW k \in Keys, Expire(k) PROVE TypeOK'
  BY <1>t, <1>8 DEF Expire
<1>9. CASE UNCHANGED vars
  BY <1>t, <1>9 DEF vars
<1>10. QED
  BY <1>1, <1>2, <1>3, <1>4, <1>5, <1>6, <1>7, <1>8, <1>9 DEF Next, RequestStep

\* Every step keeps the invariant.
LEMMA InvStep == IInv /\ [Next]_vars => IInv'
<1> SUFFICES ASSUME IInv, [Next]_vars PROVE IInv'
  OBVIOUS
<1>t. TypeOK'
  BY TypeStep
<1>i. /\ TypeOK /\ CallInv /\ AcceptedIsPublished /\ KeyInv /\ DuplicateIsOriginal
      /\ LiveInv /\ RepeatInv
  BY DEF IInv
<1> USE KeyFacts DEF At
<1>1. ASSUME NEW r \in Requests, Begin(r) PROVE IInv'
  <2>1. /\ pc[r] = "idle" /\ pc' = [pc EXCEPT ![r] = IF HasKey(r) THEN "resolve" ELSE "create"]
        /\ earlier' = [earlier EXCEPT ![r] = {q \in Requests : answer[q] # "none"}]
        /\ UNCHANGED <<answer, original, rows, keyed, expired, published, faults>>
    BY <1>1 DEF Begin
  <2>2. CallInv'
    BY <1>i, <2>1 DEF CallInv, TypeOK
  <2>3. AcceptedIsPublished' /\ KeyInv' /\ DuplicateIsOriginal'
    BY <1>i, <2>1 DEF AcceptedIsPublished, KeyInv, DuplicateIsOriginal, Reached, TypeOK
  <2>4. LiveInv'
    BY <1>i, <2>1 DEF LiveInv, KeyKnown, TypeOK
  <2>5. RepeatInv'
    BY <1>i, <2>1 DEF RepeatInv, Repeats, CallInv, TypeOK
  <2>6. QED
    BY <1>t, <2>2, <2>3, <2>4, <2>5 DEF IInv
<1>2. ASSUME NEW r \in Requests, Resolve(r) PROVE IInv'
  <2>h. pc[r] = "resolve" /\ HasKey(r) /\ KeyOf[r] \in Keys
    BY <1>i, <1>2 DEF Resolve, CallInv
  <2>1. CASE keyed[KeyOf[r]] \in rows
    <3>1. /\ pc' = [pc EXCEPT ![r] = "done"]
          /\ answer' = [answer EXCEPT ![r] = "duplicate"]
          /\ original' = [original EXCEPT ![r] = keyed[KeyOf[r]]]
          /\ UNCHANGED <<earlier, rows, keyed, expired, published, faults>>
      BY <1>2, <2>1 DEF Resolve
    <3>2. CallInv'
      BY <1>i, <2>h, <3>1 DEF CallInv, TypeOK
    <3>3. \A o \in Requests : Reached(o) => Reached(o)'
      BY <1>i, <2>h, <3>1 DEF Reached, TypeOK, CallInv
    <3>4. keyed[KeyOf[r]] # "none" /\ keyed[KeyOf[r]] \in Requests
      BY <1>i, <2>1 DEF TypeOK
    <3>5. AcceptedIsPublished' /\ KeyInv'
      BY <1>i, <2>h, <3>1, <3>3 DEF AcceptedIsPublished, KeyInv, TypeOK
    <3>6. DuplicateIsOriginal'
      BY <1>i, <2>h, <3>1, <3>3, <3>4 DEF DuplicateIsOriginal, KeyInv, Reached, TypeOK
    <3>7. LiveInv'
      BY <1>i, <3>1, <3>4 DEF LiveInv, KeyKnown, TypeOK
    <3>8. RepeatInv'
      BY <1>i, <2>h, <3>1 DEF RepeatInv, Repeats, CallInv, TypeOK
    <3>9. QED
      BY <1>t, <3>2, <3>5, <3>6, <3>7, <3>8 DEF IInv
  <2>2. CASE keyed[KeyOf[r]] \notin rows
    <3>1. /\ pc' = [pc EXCEPT ![r] = "create"]
          /\ UNCHANGED <<answer, original, earlier, rows, keyed, expired, published, faults>>
      BY <1>2, <2>2 DEF Resolve, Go
    <3>2. CallInv'
      BY <1>i, <2>h, <3>1 DEF CallInv, TypeOK
    <3>3. AcceptedIsPublished' /\ KeyInv' /\ DuplicateIsOriginal'
      BY <1>i, <2>h, <3>1 DEF AcceptedIsPublished, KeyInv, DuplicateIsOriginal, Reached, TypeOK
    <3>4. LiveInv'
      BY <1>i, <3>1 DEF LiveInv, KeyKnown, TypeOK
    <3>5. keyed[KeyOf[r]] = "none"
      BY <1>i, <2>h, <2>2 DEF KeyInv
    <3>6. \A q \in Requests : ~Repeats(r, q)
      BY <1>i, <2>h, <3>5 DEF LiveInv, Repeats, KeyKnown, HasKey
    <3>7. RepeatInv'
      BY <1>i, <3>1, <3>6 DEF RepeatInv, Repeats, TypeOK
    <3>8. QED
      BY <1>t, <3>2, <3>3, <3>4, <3>7 DEF IInv
  <2>3. QED
    BY <2>1, <2>2
<1>3. ASSUME NEW r \in Requests, pc[r] = "create", rows' = rows \cup {r},
             \/ /\ pc' = [pc EXCEPT ![r] = IF HasKey(r) THEN "setKey" ELSE "publish"]
                /\ answer' = answer
             \/ /\ pc' = [pc EXCEPT ![r] = "done"]
                /\ answer' = [answer EXCEPT ![r] = "error"],
             UNCHANGED <<original, earlier, keyed, expired, published>>
      PROVE IInv'
  <2>1. CallInv'
    BY <1>i, <1>3 DEF CallInv, TypeOK
  <2>2. \A o \in Requests : Reached(o) => Reached(o)'
    BY <1>i, <1>3 DEF Reached, CallInv, TypeOK
  <2>3. AcceptedIsPublished'
    BY <1>i, <1>3 DEF AcceptedIsPublished, TypeOK
  <2>4. KeyInv'
    BY <1>i, <1>3, <2>2 DEF KeyInv, TypeOK
  <2>5. DuplicateIsOriginal'
    BY <1>i, <1>3, <2>2 DEF DuplicateIsOriginal, Reached, TypeOK
  <2>6. LiveInv'
    BY <1>i, <1>3 DEF LiveInv, KeyKnown, HasKey, TypeOK
  <2>7. RepeatInv'
    BY <1>i, <1>3 DEF RepeatInv, Repeats, CallInv, TypeOK
  <2>8. QED
    BY <1>t, <2>1, <2>3, <2>4, <2>5, <2>6, <2>7 DEF IInv
<1>4. ASSUME NEW r \in Requests, pc[r] = "setKey", keyed' = [keyed EXCEPT ![KeyOf[r]] = r],
             \/ pc' = [pc EXCEPT ![r] = "publish"] /\ answer' = answer
             \/ pc' = [pc EXCEPT ![r] = "done"] /\ answer' = [answer EXCEPT ![r] = "error"],
             UNCHANGED <<original, earlier, rows, expired, published>>
      PROVE IInv'
  <2>h. HasKey(r) /\ KeyOf[r] \in Keys /\ r \in rows /\ Reached(r)'
    BY <1>i, <1>4 DEF CallInv, Reached, TypeOK
  <2>1. CallInv'
    BY <1>i, <1>4 DEF CallInv, TypeOK
  <2>2. \A o \in Requests : Reached(o) => Reached(o)'
    BY <1>i, <1>4 DEF Reached, CallInv, TypeOK
  <2>3. AcceptedIsPublished'
    BY <1>i, <1>4 DEF AcceptedIsPublished, TypeOK
  <2>4. KeyInv'
    BY <1>i, <1>4, <2>h, <2>2 DEF KeyInv, TypeOK
  <2>5. DuplicateIsOriginal'
    BY <1>i, <1>4, <2>2 DEF DuplicateIsOriginal, Reached, TypeOK
  <2>6. LiveInv'
    BY <1>i, <1>4, <2>h DEF LiveInv, KeyKnown, TypeOK
  <2>7. RepeatInv'
    BY <1>i, <1>4 DEF RepeatInv, Repeats, CallInv, TypeOK
  <2>8. QED
    BY <1>t, <2>1, <2>3, <2>4, <2>5, <2>6, <2>7 DEF IInv
<1>5. ASSUME NEW r \in Requests, pc[r] = "publish", published' = published \cup {r},
             \/ pc' = [pc EXCEPT ![r] = "respond"] /\ answer' = answer
             \/ pc' = [pc EXCEPT ![r] = "done"] /\ answer' = [answer EXCEPT ![r] = "error"],
             UNCHANGED <<original, earlier, rows, keyed, expired>>
      PROVE IInv'
  <2>1. CallInv'
    BY <1>i, <1>5 DEF CallInv, TypeOK
  <2>2. \A o \in Requests : Reached(o) => Reached(o)'
    BY <1>i, <1>5 DEF Reached, CallInv, TypeOK
  <2>3. AcceptedIsPublished'
    BY <1>i, <1>5 DEF AcceptedIsPublished, CallInv, TypeOK
  <2>4. KeyInv'
    BY <1>i, <1>5, <2>2 DEF KeyInv, TypeOK
  <2>5. DuplicateIsOriginal'
    BY <1>i, <1>5, <2>2 DEF DuplicateIsOriginal, Reached, TypeOK
  <2>6. LiveInv'
    BY <1>i, <1>5 DEF LiveInv, KeyKnown, TypeOK
  <2>7. RepeatInv'
    BY <1>i, <1>5 DEF RepeatInv, Repeats, CallInv, TypeOK
  <2>8. QED
    BY <1>t, <2>1, <2>3, <2>4, <2>5, <2>6, <2>7 DEF IInv
<1>6. ASSUME NEW r \in Requests, NEW a \in {"accepted", "error"},
             pc[r] \notin {"idle", "done"}, a = "accepted" => pc[r] = "respond",
             pc' = [pc EXCEPT ![r] = "done"], answer' = [answer EXCEPT ![r] = a],
             UNCHANGED <<original, earlier, rows, keyed, expired, published>>
      PROVE IInv'
  <2>1. CallInv'
    BY <1>i, <1>6 DEF CallInv, TypeOK
  <2>2. \A o \in Requests : Reached(o) => Reached(o)'
    BY <1>i, <1>6 DEF Reached, CallInv, TypeOK
  <2>3. AcceptedIsPublished'
    BY <1>i, <1>6 DEF AcceptedIsPublished, CallInv, TypeOK
  <2>4. KeyInv'
    BY <1>i, <1>6, <2>2 DEF KeyInv, TypeOK
  <2>5. DuplicateIsOriginal'
    BY <1>i, <1>6, <2>2 DEF DuplicateIsOriginal, Reached, TypeOK
  <2>6. LiveInv'
    BY <1>i, <1>6 DEF LiveInv, KeyKnown, TypeOK
  <2>7. RepeatInv'
    BY <1>i, <1>6 DEF RepeatInv, Repeats, CallInv, TypeOK
  <2>8. QED
    BY <1>t, <2>1, <2>3, <2>4, <2>5, <2>6, <2>7 DEF IInv
<1>7. ASSUME NEW r \in Requests, Create(r) \/ SetKey(r) \/ Publish(r) \/ Respond(r) PROVE IInv'
  <2>1. CASE Create(r)
    BY <1>3, <2>1 DEF Create, Insert, Go
  <2>2. CASE SetKey(r)
    BY <1>4, <2>2 DEF SetKey, StoreKey, Go
  <2>3. CASE Publish(r)
    BY <1>5, <2>3 DEF Publish, Send, Go
  <2>4. CASE Respond(r)
    BY <1>6, <2>4 DEF Respond
  <2>5. QED
    BY <1>7, <2>1, <2>2, <2>3, <2>4
<1>8. ASSUME NEW r \in Requests, Fail(r) PROVE IInv'
  <2>1. /\ pc' = [pc EXCEPT ![r] = "done"] /\ answer' = [answer EXCEPT ![r] = "error"]
        /\ pc[r] \notin {"idle", "done"} /\ UNCHANGED <<original, earlier, expired>>
    BY <1>8 DEF Fail
  <2>2. CASE UNCHANGED <<rows, keyed, published>>
    BY <1>6, <2>1, <2>2
  <2>3. CASE At(r, "create") /\ Insert(r)
    BY <1>3, <2>1, <2>3 DEF Insert
  <2>4. CASE At(r, "setKey") /\ StoreKey(r)
    BY <1>4, <2>1, <2>4 DEF StoreKey
  <2>5. CASE At(r, "publish") /\ Send(r)
    BY <1>5, <2>1, <2>5 DEF Send
  <2>6. QED
    BY <1>8, <2>2, <2>3, <2>4, <2>5 DEF Fail
<1>9. ASSUME NEW k \in Keys, Expire(k) PROVE IInv'
  <2>1. /\ keyed' = [keyed EXCEPT ![k] = "none"] /\ expired' = expired \cup {k}
        /\ UNCHANGED <<pc, answer, original, earlier, rows, published, faults>>
    BY <1>9 DEF Expire
  <2>2. CallInv' /\ AcceptedIsPublished' /\ DuplicateIsOriginal'
    BY <1>i, <2>1 DEF CallInv, AcceptedIsPublished, DuplicateIsOriginal
  <2>3. KeyInv'
    BY <1>i, <2>1 DEF KeyInv, Reached, TypeOK
  <2>4. LiveInv'
    BY <1>i, <2>1 DEF LiveInv, KeyKnown, TypeOK
  <2>5. RepeatInv'
    BY <1>i, <2>1 DEF RepeatInv, Repeats
  <2>6. QED
    BY <1>t, <2>2, <2>3, <2>4, <2>5 DEF IInv
<1>10. CASE UNCHANGED vars
  BY <1>i, <1>t, <1>10
  DEF vars, IInv, CallInv, AcceptedIsPublished, KeyInv, DuplicateIsOriginal, LiveInv, RepeatInv,
      Reached, KeyKnown, Repeats
<1>11. QED
  BY <1>1, <1>2, <1>7, <1>8, <1>9, <1>10 DEF Next, RequestStep

\* The invariant holds at the start and for ever.
LEMMA AlwaysInv == Spec => []IInv
<1>1. Init => IInv
  <2> SUFFICES ASSUME Init PROVE IInv
    OBVIOUS
  <2>1. TypeOK
    BY DEF Init, TypeOK, Pcs, Answers
  <2>2. CallInv /\ AcceptedIsPublished /\ KeyInv /\ DuplicateIsOriginal
    BY DEF Init, CallInv, AcceptedIsPublished, KeyInv, DuplicateIsOriginal
  <2>3. LiveInv /\ RepeatInv
    BY DEF Init, LiveInv, KeyKnown, RepeatInv, Repeats
  <2>4. QED
    BY <2>1, <2>2, <2>3 DEF IInv
<1>2. QED
  BY <1>1, InvStep, PTL DEF Spec

\* The calls, the keys and the tables keep their types.
THEOREM TypeCorrect == Spec => []TypeOK
<1>1. IInv => TypeOK
  BY DEF IInv
<1>2. QED
  BY <1>1, AlwaysInv, PTL

\* Events are published only for committed orders, and 202 is answered only for
\* published ones.
THEOREM AcceptedOrdersArePublished == Spec => []AcceptedIsPublished
<1>1. IInv => AcceptedIsPublished
  BY DEF IInv
<1>2. QED
  BY <1>1, AlwaysInv, PTL

\* Repeating an answered request creates no order while its key lives.
THEOREM RepeatsCreateNothing == Spec => []RepeatCreatesNothing
<1>1. IInv => RepeatCreatesNothing
  BY DEF IInv, RepeatInv, Repeats, RepeatCreatesNothing
<1>2. QED
  BY <1>1, AlwaysInv, PTL

\* A duplicate is answered with the order of its key, which lacks its event only
\* if the call that created it has failed.
THEOREM DuplicatesAreOriginals == Spec => []DuplicateIsOriginal
<1>1. IInv => DuplicateIsOriginal
  BY DEF IInv
<1>2. QED
  BY <1>1, AlwaysInv, PTL

=============================================================================
