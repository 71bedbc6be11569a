---------------------- MODULE IdempotencyGuard_proofs ----------------------
(***************************************************************************)
(* The idempotency guard is a lock, for any number of clients and events,  *)
(* and implements its atomic view.                                         *)
(***************************************************************************)
EXTENDS IdempotencyGuard, TLAPS

\* A client in a call has an event and a token, an idle one has neither.
CallInv ==
  \A c \in Clients :
    IF pc[c] = "idle" THEN tok[c] = "none" ELSE ev[c] \in Events /\ tok[c] \in Tokens

\* No two clients remember the same token.
TokenInv == \A c, d \in Clients : c # d /\ tok[c] \in Tokens => tok[c] # tok[d]

\* A key holds the token of a client only between its claim and the complete or
\* release of that claim.
KeyInv ==
  \A c \in Clients, e \in Events :
    tok[c] \in Tokens /\ key[e] = tok[c] => pc[c] = "acquired" /\ ev[c] = e

IInv == TypeOK /\ CallInv /\ TokenInv /\ KeyInv /\ HolderKeepsKey

-----------------------------------------------------------------------------
\* The guard starts with no key and no call.
LEMMA InitInv == Init => IInv
  BY GuardAssumption
  DEF Init, IInv, TypeOK, CallInv, TokenInv, KeyInv, HolderKeepsKey, Holding, InClaim, Returned

\* Forgetting a claim keeps the invariant, if the key it held is left alone, is
\* removed, or never was its own.
LEMMA ForgottenStep ==
  ASSUME IInv, NEW c \in Clients, pc[c] # "idle", Forgotten(c),
         key' = key \/ (key[ev[c]] = tok[c] /\ key' = [key EXCEPT ![ev[c]] = "absent"])
  PROVE  IInv'
<1> USE GuardAssumption
<1>1. ev[c] \in Events /\ tok[c] \in Tokens
  BY DEF IInv, CallInv
<1>2. TypeOK'
  BY <1>1 DEF IInv, TypeOK, Forgotten
<1>3. CallInv' /\ TokenInv'
  BY DEF IInv, TypeOK, CallInv, TokenInv, Forgotten
<1>4. KeyInv'
  BY <1>1 DEF IInv, TypeOK, KeyInv, Forgotten
<1>5. HolderKeepsKey'
  BY <1>1 DEF IInv, TypeOK, CallInv, TokenInv, HolderKeepsKey, Holding, Forgotten
<1>6. QED
  BY <1>2, <1>3, <1>4, <1>5 DEF IInv

\* Every step keeps the invariant.
LEMMA InvStep == IInv /\ [Next]_vars => IInv'
<1> SUFFICES ASSUME IInv, [Next]_vars PROVE IInv'
  OBVIOUS
<1> USE GuardAssumption
<1>1. ASSUME NEW c \in Clients, NEW e \in Events, NEW t \in Tokens, Call(c, e, t) PROVE IInv'
  <2>1. TypeOK'
    BY <1>1 DEF IInv, TypeOK, Call, InClaim
  <2>2. CallInv' /\ TokenInv'
    BY <1>1 DEF IInv, TypeOK, CallInv, TokenInv, Call, FreshToken
  <2>3. KeyInv' /\ HolderKeepsKey'
    BY <1>1 DEF IInv, TypeOK, CallInv, KeyInv, HolderKeepsKey, Holding, Call, FreshToken
  <2>4. QED
    BY <2>1, <2>2, <2>3 DEF IInv
<1>2. ASSUME NEW c \in Clients, NEW at \in {"set", "setAgain"}, NEW other \in {"get", "getAgain"},
             SetKey(c, at, other)
      PROVE  IInv'
  <2>1. pc[c] = at /\ ev[c] \in Events /\ tok[c] \in Tokens /\ UNCHANGED <<ev, tok, lapsed>>
    BY <1>2 DEF IInv, CallInv, SetKey
  <2>2. CASE key[ev[c]] = "absent"
    <3>1. /\ key' = [key EXCEPT ![ev[c]] = tok[c]]
          /\ pc' = [pc EXCEPT ![c] = "acquired"]
      BY <1>2, <2>2 DEF SetKey
    <3>2. TypeOK' /\ CallInv' /\ TokenInv'
      BY <2>1, <3>1 DEF IInv, TypeOK, CallInv, TokenInv, Returned
    <3>3. KeyInv' /\ HolderKeepsKey'
      BY <2>1, <2>2, <3>1 DEF IInv, TypeOK, CallInv, TokenInv, KeyInv, HolderKeepsKey, Holding
    <3>4. QED
      BY <3>2, <3>3 DEF IInv
  <2>3. CASE key[ev[c]] # "absent"
    BY <1>2, <2>1, <2>3
    DEF SetKey, IInv, TypeOK, CallInv, TokenInv, KeyInv, HolderKeepsKey, Holding, InClaim
  <2>4. QED
    BY <2>2, <2>3
<1>3. ASSUME NEW c \in Clients, FirstGet(c) \/ SecondGet(c) PROVE IInv'
  <2>1. /\ pc[c] \in {"get", "getAgain"} /\ UNCHANGED <<key, ev, tok, lapsed>>
        /\ \E s \in {"setAgain", "already_done", "in_progress"} : pc' = [pc EXCEPT ![c] = s]
    BY <1>3 DEF FirstGet, SecondGet, Verdict
  <2>2. QED
    BY <2>1 DEF IInv, TypeOK, CallInv, TokenInv, KeyInv, HolderKeepsKey, Holding, InClaim, Returned
<1>4. ASSUME NEW c \in Clients, Complete(c) PROVE IInv'
  <2>1. ev[c] \in Events /\ tok[c] \in Tokens
    BY <1>4 DEF IInv, CallInv, Complete
  <2>2. TypeOK' /\ CallInv' /\ TokenInv'
    BY <1>4, <2>1 DEF Complete, IInv, TypeOK, CallInv, TokenInv, Returned
  <2>3. KeyInv' /\ HolderKeepsKey'
    BY <1>4, <2>1 DEF Complete, IInv, TypeOK, CallInv, TokenInv, KeyInv, HolderKeepsKey, Holding
  <2>4. QED
    BY <2>2, <2>3 DEF IInv
<1>5. ASSUME NEW c \in Clients, Release(c) \/ Drop(c) PROVE IInv'
  BY <1>5, ForgottenStep DEF Release, Drop
<1>6. ASSUME NEW e \in Events, Expire(e) \/ Forget(e) PROVE IInv'
  <2>1. /\ key' = [key EXCEPT ![e] = "absent"] /\ UNCHANGED <<pc, ev, tok>>
        /\ lapsed' = lapsed \cup Holders(e)
    BY <1>6 DEF Expire, Forget, Vanished
  <2>2. TypeOK' /\ CallInv' /\ TokenInv' /\ KeyInv'
    BY <2>1 DEF IInv, TypeOK, CallInv, TokenInv, KeyInv, Holders
  <2>3. HolderKeepsKey'
    BY <2>1 DEF IInv, TypeOK, CallInv, HolderKeepsKey, Holding, Holders
  <2>4. QED
    BY <2>2, <2>3 DEF IInv
<1>7. CASE UNCHANGED vars
  BY <1>7 DEF vars, IInv, TypeOK, CallInv, TokenInv, KeyInv, HolderKeepsKey, Holding
<1>8. QED
  BY <1>1, <1>2, <1>3, <1>4, <1>5, <1>6, <1>7 DEF Next, ClientStep, FirstSet, SecondSet

\* The invariant holds throughout.
LEMMA AlwaysInv == Spec => []IInv
<1>1. QED
  BY InitInv, InvStep, PTL DEF Spec

\* The guard's variables keep their types.
THEOREM TypeCorrect == Spec => []TypeOK
<1>1. IInv => TypeOK
  BY DEF IInv
<1>2. QED
  BY <1>1, AlwaysInv, PTL

\* Nobody takes the key from a holder, as long as it does not vanish.
THEOREM HoldersKeepTheirKeys == Spec => []HolderKeepsKey
<1>1. IInv => HolderKeepsKey
  BY DEF IInv
<1>2. QED
  BY <1>1, AlwaysInv, PTL

\* "Exactly one consumer wins": at most one client works on an event.
THEOREM MutualExclusion == Spec => []OneHolder
<1>1. IInv => OneHolder
  BY DEF IInv, CallInv, TokenInv, HolderKeepsKey, OneHolder, Holding
<1>2. QED
  BY <1>1, AlwaysInv, PTL

-----------------------------------------------------------------------------
\* One step of a client other than the owner leaves an owned key alone.
LEMMA NoClobberStep ==
  ASSUME IInv, NEW e \in Events, NEW c \in Clients,
         key[e] \in Tokens, tok[c] # key[e], ClientStep(c)
  PROVE  key'[e] = key[e]
<1> USE GuardAssumption
<1>1. CASE \E f \in Events, t \in Tokens : Call(c, f, t)
  BY <1>1 DEF Call
<1>2. CASE FirstSet(c) \/ SecondSet(c)
  BY <1>2 DEF FirstSet, SecondSet, SetKey, IInv, TypeOK, CallInv
<1>3. CASE FirstGet(c) \/ SecondGet(c) \/ Drop(c)
  BY <1>3 DEF FirstGet, SecondGet, Drop
<1>4. CASE Complete(c) \/ Release(c)
  BY <1>4 DEF Complete, Release, IInv, TypeOK, CallInv
<1>5. QED
  BY <1>1, <1>2, <1>3, <1>4 DEF ClientStep

\* "A consumer whose lock already expired can never clobber the newer owner's
\* state", for any number of clients, whatever keys vanish.
THEOREM NeverClobbers == Spec => NoClobber
<1>1. IInv => [OthersKeysKept]_vars
  BY NoClobberStep DEF OthersKeysKept
<1>2. QED
  BY <1>1, AlwaysInv, PTL DEF Spec, NoClobber

-----------------------------------------------------------------------------
\* What the refinement mapping makes of a key.
LEMMA OwnerValue ==
  ASSUME IInv, NEW e \in Events
  PROVE  /\ key[e] \in {"absent", "done"} => Owner(e) = key[e]
         /\ \A c \in Clients : tok[c] \in Tokens /\ key[e] = tok[c] => Owner(e) = c
         /\ key[e] \in Tokens /\ (\A c \in Clients : tok[c] # key[e]) => Owner(e) = "orphan"
         /\ \A c \in Clients : Owner(e) = c => tok[c] \in Tokens /\ key[e] = tok[c]
<1> USE GuardAssumption
<1>1. key[e] \in {"absent", "done"} => Owner(e) = key[e]
  BY DEF Owner
<1>2. ASSUME NEW c \in Clients, tok[c] \in Tokens, key[e] = tok[c] PROVE Owner(e) = c
  <2>1. Owner(e) = CHOOSE d \in Clients : tok[d] = key[e]
    BY <1>2 DEF Owner
  <2>2. \A d \in Clients : tok[d] = key[e] => d = c
    BY <1>2 DEF IInv, TokenInv
  <2>3. QED
    BY <1>2, <2>1, <2>2
<1>3. ASSUME key[e] \in Tokens, \A c \in Clients : tok[c] # key[e] PROVE Owner(e) = "orphan"
  BY <1>3 DEF Owner
<1>4. ASSUME NEW c \in Clients, Owner(e) = c PROVE tok[c] \in Tokens /\ key[e] = tok[c]
  <2>1. key[e] \in Tokens
    BY <1>1, <1>4 DEF IInv, TypeOK
  <2>2. PICK d \in Clients : tok[d] = key[e]
    BY <1>3, <1>4, <2>1
  <2>3. QED
    BY <1>2, <1>4, <2>1, <2>2
<1>5. QED
  BY <1>1, <1>2, <1>3, <1>4

\* When neither the key nor who remembers its value changes, neither does its owner.
LEMMA OwnerKept ==
  ASSUME NEW e \in Events, key'[e] = key[e],
         \A c \in Clients : tok'[c] = key[e] <=> tok[c] = key[e]
  PROVE  Owner(e)' = Owner(e)
<1>1. CASE key[e] \in {"absent", "done"}
  BY <1>1 DEF Owner
<1>2. CASE key[e] \notin {"absent", "done"}
  <2>1. (\E c \in Clients : tok[c] = key[e]) <=> (\E c \in Clients : tok'[c] = key'[e])
    OBVIOUS
  <2>2. (CHOOSE c \in Clients : tok[c] = key[e]) = (CHOOSE c \in Clients : tok'[c] = key'[e])
    OBVIOUS
  <2>3. QED
    BY <1>2, <2>1, <2>2 DEF Owner
<1>3. QED
  BY <1>1, <1>2

\* When one client's status changes, so does its abstract status, and no other.
LEMMA StatusStep ==
  ASSUME TypeOK, NEW c \in Clients, NEW s, pc' = [pc EXCEPT ![c] = s]
  PROVE  AbstractStatus' = [AbstractStatus EXCEPT ![c] = IF s \in InClaim THEN "calling" ELSE s]
  BY DEF AbstractStatus, TypeOK

\* Every step of the guard is a step of the atomic guard, or changes nothing of it.
LEMMA RefinementStep ==
  ASSUME IInv, IInv', [Next]_vars
  PROVE  [Abstract!Next]_(Abstract!vars)
<1> USE GuardAssumption
<1>t. TypeOK
  BY DEF IInv
<1>1. ASSUME NEW c \in Clients, NEW e \in Events, NEW t \in Tokens, Call(c, e, t)
      PROVE  Abstract!Call(c, e)
  <2>1. \A f \in Events : Owner(f)' = Owner(f)
    <3>1. tok[c] = "none"
      BY <1>1 DEF IInv, CallInv, Call
    <3>2. ASSUME NEW f \in Events PROVE Owner(f)' = Owner(f)
      <4>1. key'[f] = key[f] /\ key[f] # "none" /\ key[f] # t
        BY <1>t, <1>1 DEF Call, FreshToken, TypeOK
      <4>2. \A d \in Clients : tok'[d] = key[f] <=> tok[d] = key[f]
        BY <1>t, <1>1, <3>1, <4>1 DEF Call, TypeOK
      <4>3. QED
        BY <4>1, <4>2, OwnerKept
    <3>3. QED
      BY <3>2
  <2>2. AbstractGuard' = AbstractGuard
    BY <2>1 DEF AbstractGuard
  <2>3. AbstractStatus[c] = "idle" /\ AbstractStatus' = [AbstractStatus EXCEPT ![c] = "calling"]
    BY <1>t, <1>1, StatusStep DEF Call, AbstractStatus, InClaim
  <2>4. QED
    BY <1>1, <2>2, <2>3 DEF Abstract!Call, Call
<1>2. ASSUME UNCHANGED <<key, tok>> PROVE AbstractGuard' = AbstractGuard
  BY <1>2, OwnerKept DEF AbstractGuard
<1>3. ASSUME NEW c \in Clients, NEW at \in InClaim, NEW other \in InClaim, SetKey(c, at, other)
      PROVE  Abstract!Acquire(c) \/ UNCHANGED Abstract!vars
  <2>1. /\ ev[c] \in Events /\ tok[c] \in Tokens /\ UNCHANGED <<ev, tok>>
        /\ AbstractStatus[c] = "calling"
    BY <1>3 DEF IInv, CallInv, SetKey, AbstractStatus, InClaim
  <2>2. CASE key[ev[c]] = "absent"
    <3>1. /\ key' = [key EXCEPT ![ev[c]] = tok[c]]
          /\ pc' = [pc EXCEPT ![c] = "acquired"]
      BY <1>3, <2>2 DEF SetKey
    <3>2. AbstractStatus' = [AbstractStatus EXCEPT ![c] = "acquired"]
      BY <1>t, <3>1, StatusStep DEF InClaim
    <3>3. Owner(ev[c]) = "absent"
      BY <2>1, <2>2 DEF Owner
    <3>4. Owner(ev[c])' = c
      <4>1. key'[ev[c]] = tok[c]
        BY <1>t, <2>1, <3>1 DEF TypeOK
      <4>2. \A d \in Clients : tok[d] = tok[c] <=> d = c
        BY <2>1 DEF IInv, TokenInv
      <4>3. QED
        BY <2>1, <4>1, <4>2 DEF Owner
    <3>5. \A f \in Events \ {ev[c]} : Owner(f)' = Owner(f)
      BY <1>t, <2>1, <3>1, OwnerKept DEF TypeOK
    <3>6. AbstractGuard' = [AbstractGuard EXCEPT ![ev[c]] = c]
      BY <2>1, <3>4, <3>5 DEF AbstractGuard
    <3>7. QED
      BY <2>1, <3>2, <3>3, <3>6
      DEF Abstract!Acquire, Abstract!Answer, SetNx, AbstractGuard, Abstract!SetNx
  <2>3. CASE key[ev[c]] # "absent"
    <3>1. key' = key /\ pc' = [pc EXCEPT ![c] = other]
      BY <1>3, <2>3 DEF SetKey
    <3>2. AbstractStatus' = AbstractStatus
      BY <1>t, <2>1, <3>1, StatusStep DEF AbstractStatus
    <3>3. QED
      BY <1>2, <2>1, <3>1, <3>2 DEF Abstract!vars
  <2>4. QED
    BY <2>2, <2>3
<1>4. ASSUME NEW c \in Clients, FirstGet(c) \/ SecondGet(c)
      PROVE  Abstract!AlreadyDone(c) \/ Abstract!InProgress(c) \/ UNCHANGED Abstract!vars
  <2>1. /\ ev[c] \in Events /\ UNCHANGED <<key, ev, tok>> /\ AbstractStatus[c] = "calling"
        /\ AbstractGuard' = AbstractGuard
    BY <1>2, <1>4 DEF IInv, CallInv, FirstGet, SecondGet, AbstractStatus, InClaim
  <2>2. CASE pc' = [pc EXCEPT ![c] = "setAgain"]
    <3>1. AbstractStatus' = AbstractStatus
      BY <1>t, <2>1, <2>2, StatusStep DEF AbstractStatus, InClaim
    <3>2. QED
      BY <2>1, <3>1 DEF Abstract!vars
  <2>3. CASE pc' = [pc EXCEPT ![c] = "already_done"] /\ key[ev[c]] = "done"
    <3>1. AbstractStatus' = [AbstractStatus EXCEPT ![c] = "already_done"]
      BY <1>t, <2>3, StatusStep DEF InClaim
    <3>2. AbstractGuard[ev[c]] = "done"
      BY <2>1, <2>3 DEF AbstractGuard, Owner
    <3>3. QED
      BY <2>1, <3>1, <3>2 DEF Abstract!AlreadyDone, Abstract!Answer
  <2>4. CASE pc' = [pc EXCEPT ![c] = "in_progress"]
    <3>1. AbstractStatus' = [AbstractStatus EXCEPT ![c] = "in_progress"]
      BY <1>t, <2>4, StatusStep DEF InClaim
    <3>2. QED
      BY <2>1, <3>1 DEF Abstract!InProgress, Abstract!Answer
  <2>5. QED
    BY <1>4, <2>2, <2>3, <2>4 DEF FirstGet, SecondGet, Verdict
<1>5. ASSUME NEW c \in Clients, Complete(c) PROVE Abstract!Complete(c)
  <2>1. ev[c] \in Events /\ tok[c] \in Tokens /\ UNCHANGED <<ev, tok>>
    BY <1>5 DEF IInv, CallInv, Complete
  <2>2. AbstractStatus[c] = "acquired" /\ AbstractStatus' = [AbstractStatus EXCEPT ![c] = "completed"]
    BY <1>t, <1>5, StatusStep DEF Complete, AbstractStatus, InClaim
  <2>3. CASE key[ev[c]] = tok[c]
    <3>1. key' = [key EXCEPT ![ev[c]] = "done"]
      BY <1>5, <2>3 DEF Complete
    <3>2. Owner(ev[c]) = c /\ Owner(ev[c])' = "done"
      BY <1>t, <2>1, <2>3, <3>1, OwnerValue DEF Owner, TypeOK
    <3>3. \A f \in Events \ {ev[c]} : Owner(f)' = Owner(f)
      BY <1>t, <2>1, <3>1, OwnerKept DEF TypeOK
    <3>4. AbstractGuard[ev[c]] = c /\ AbstractGuard' = [AbstractGuard EXCEPT ![ev[c]] = "done"]
      BY <2>1, <3>2, <3>3 DEF AbstractGuard
    <3>5. QED
      BY <2>1, <2>2, <3>4 DEF Abstract!Complete, Abstract!CasComplete
  <2>4. CASE key[ev[c]] # tok[c]
    <3>1. key' = key
      BY <1>5, <2>4 DEF Complete
    <3>2. AbstractGuard' = AbstractGuard /\ AbstractGuard[ev[c]] # c
      BY <1>2, <2>1, <2>4, <3>1, OwnerValue DEF AbstractGuard
    <3>3. QED
      BY <2>1, <2>2, <3>2 DEF Abstract!Complete, Abstract!CasComplete
  <2>5. QED
    BY <2>3, <2>4
<1>6. ASSUME NEW c \in Clients, Release(c) \/ Drop(c) PROVE Abstract!LetGo(c)
  <2>1. ev[c] \in Events /\ tok[c] \in Tokens /\ pc[c] # "idle" /\ Forgotten(c)
    BY <1>6 DEF IInv, CallInv, Release, Drop
  <2>f. PICK f \in Events : f = ev[c]
    BY <2>1
  <2>2. /\ AbstractStatus[c] # "idle"
        /\ AbstractStatus' = [AbstractStatus EXCEPT ![c] = "idle"]
        /\ pc[c] \in {"acquired", "completed"} => AbstractStatus[c] \in {"acquired", "completed"}
    BY <1>t, <2>1, StatusStep DEF Forgotten, AbstractStatus, InClaim
  <2>3. \A g \in Events : key[g] # tok[c] /\ key'[g] = key[g] => Owner(g)' = Owner(g)
    <3>1. ASSUME NEW g \in Events, key[g] # tok[c], key'[g] = key[g] PROVE Owner(g)' = Owner(g)
      <4>1. key[g] # "none"
        BY <1>t DEF TypeOK
      <4>2. \A d \in Clients : tok'[d] = key[g] <=> tok[d] = key[g]
        BY <1>t, <2>1, <3>1, <4>1 DEF Forgotten, TypeOK
      <4>3. QED
        BY <3>1, <4>2, OwnerKept
    <3>2. QED
      BY <3>1
  <2>4. CASE key[ev[c]] # tok[c]
    <3>1. key' = key
      BY <1>6, <2>4 DEF Release, Drop
    <3>2. \A g \in Events : key[g] # tok[c]
      BY <2>1, <2>4 DEF IInv, KeyInv
    <3>3. AbstractGuard' = AbstractGuard /\ AbstractGuard[ev[c]] # c
      BY <2>1, <2>3, <2>4, <3>1, <3>2, OwnerValue DEF AbstractGuard
    <3>4. QED
      BY <2>1, <2>2, <3>3 DEF Abstract!LetGo, Abstract!Abandon, Forgotten
  <2>5. CASE key[ev[c]] = tok[c]
    <3>1. Owner(ev[c]) = c
      BY <2>1, <2>5, OwnerValue
    <3>2. \A g \in Events \ {ev[c]} : key[g] # tok[c]
      BY <2>1 DEF IInv, KeyInv
    <3>3. CASE Release(c)
      <4>1. key' = [key EXCEPT ![ev[c]] = "absent"] /\ pc[c] \in {"acquired", "completed"}
        BY <2>5, <3>3 DEF Release
      <4>2. Owner(f)' = "absent"
        BY <2>f, <1>t, <2>1, <4>1 DEF Owner, TypeOK
      <4>3. \A g \in Events \ {ev[c]} : Owner(g)' = Owner(g)
        BY <1>t, <2>1, <2>3, <3>2, <4>1 DEF TypeOK
      <4>4. AbstractGuard[ev[c]] = c /\ AbstractGuard' = [AbstractGuard EXCEPT ![ev[c]] = "absent"]
        BY <2>1, <2>f, <3>1, <4>2, <4>3 DEF AbstractGuard
      <4>5. QED
        BY <2>1, <2>2, <4>1, <4>4 DEF Abstract!LetGo, Abstract!CasRelease, Forgotten
    <3>4. CASE Drop(c)
      <4>1. key' = key
        BY <3>4 DEF Drop
      <4>2. \A d \in Clients : tok'[d] # key[ev[c]]
        BY <1>t, <2>1, <2>5 DEF IInv, TokenInv, Forgotten, TypeOK
      <4>3. Owner(f)' = "orphan"
        BY <2>f, <2>1, <2>5, <4>1, <4>2 DEF Owner
      <4>4. \A g \in Events \ {ev[c]} : Owner(g)' = Owner(g)
        BY <2>3, <3>2, <4>1
      <4>5. AbstractGuard[ev[c]] = c /\ AbstractGuard' = [AbstractGuard EXCEPT ![ev[c]] = "orphan"]
        BY <2>1, <2>f, <3>1, <4>3, <4>4 DEF AbstractGuard
      <4>6. QED
        BY <2>1, <2>2, <4>5 DEF Abstract!LetGo, Abstract!Abandon, Forgotten
    <3>5. QED
      BY <1>6, <3>3, <3>4
  <2>6. QED
    BY <2>4, <2>5
<1>7. ASSUME NEW e \in Events, Expire(e) \/ Forget(e) PROVE Abstract!Vanish(e)
  <2>1. key' = [key EXCEPT ![e] = "absent"] /\ UNCHANGED <<pc, ev, tok>>
    BY <1>7 DEF Expire, Forget, Vanished
  <2>2. Owner(e)' = "absent"
    BY <1>t, <2>1 DEF Owner, TypeOK
  <2>3. \A f \in Events \ {e} : Owner(f)' = Owner(f)
    BY <1>t, <2>1, OwnerKept DEF TypeOK
  <2>4. AbstractGuard' = [AbstractGuard EXCEPT ![e] = "absent"] /\ AbstractStatus' = AbstractStatus
    BY <2>1, <2>2, <2>3 DEF AbstractGuard, AbstractStatus
  <2>5. QED
    BY <2>1, <2>4 DEF Abstract!Vanish
<1>8. CASE UNCHANGED vars
  <2>1. AbstractStatus' = AbstractStatus /\ ev' = ev
    BY <1>8 DEF vars, AbstractStatus
  <2>2. QED
    BY <1>2, <1>8, <2>1 DEF vars, Abstract!vars
<1>9. QED
  <2>1. {"set", "get", "setAgain", "getAgain"} = InClaim
    BY DEF InClaim
  <2>2. ASSUME NEW c \in Clients, FirstSet(c) \/ SecondSet(c)
        PROVE  Abstract!Acquire(c) \/ UNCHANGED Abstract!vars
    BY <1>3, <2>1, <2>2 DEF FirstSet, SecondSet
  <2>3. QED
    BY <1>1, <2>2, <1>4, <1>5, <1>6, <1>7, <1>8 DEF Next, ClientStep, Abstract!Next

\* The guard of app/idempotency.py implements the atomic guard, for any number
\* of clients, events and tokens, and whatever keys vanish.
THEOREM GuardImplementsAtomicGuard == Spec => ImplementsEventGuard
<1>1. Init => Abstract!Init
  BY DEF Init, Abstract!Init, AbstractGuard, AbstractStatus, Owner, InClaim
<1>2. IInv /\ IInv' /\ [Next]_vars => [Abstract!Next]_(Abstract!vars)
  BY RefinementStep
<1>3. QED
  BY <1>1, <1>2, AlwaysInv, PTL DEF Spec, ImplementsEventGuard, Abstract!Spec

=============================================================================
