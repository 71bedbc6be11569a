-------------------------- MODULE IdempotencyGuard --------------------------
(***************************************************************************)
(* app/idempotency.py, one Redis command per step.                         *)
(*                                                                         *)
(* Each client is one call sequence of OrderConsumer on the guard: claim,  *)
(* then complete or release (a complete may be followed by a release, when *)
(* _process raises after it), or a crash.  Commands of different clients   *)
(* and the expiry of keys interleave freely.                               *)
(***************************************************************************)
EXTENDS GuardOps

CONSTANTS Clients, Events,
          Tokens         \* the uuid4 values that exist at one time

ASSUME GuardAssumption ==
  /\ "none" \notin Tokens /\ "none" \notin Events
  /\ Tokens \cap {"absent", "done"} = {}
  /\ Clients \cap {"absent", "done", "orphan"} = {}

VARIABLES key,   \* key[e]: what GET idem:event:{e} returns
          pc,    \* pc[c]: the next command of the call, or the status it returned
          ev,    \* ev[c]: the event of the claim
          tok,   \* tok[c]: Claim.token
          lapsed \* the holders whose key vanished while they were at work: the
                 \* lock TTL was too short, or forget() was called

vars == <<key, pc, ev, tok, lapsed>>

InClaim == {"set", "get", "setAgain", "getAgain"}
Returned == {"acquired", "already_done", "in_progress", "completed"}

TypeOK ==
  /\ key \in [Events -> Tokens \cup {"absent", "done"}]
  /\ pc \in [Clients -> InClaim \cup Returned \cup {"idle"}]
  /\ ev \in [Clients -> Events \cup {"none"}]
  /\ tok \in [Clients -> Tokens \cup {"none"}]
  /\ lapsed \subseteq Clients

Init ==
  /\ key = [e \in Events |-> "absent"]
  /\ pc = [c \in Clients |-> "idle"]
  /\ ev = [c \in Clients |-> "none"]
  /\ tok = [c \in Clients |-> "none"]
  /\ lapsed = {}

-----------------------------------------------------------------------------
\* uuid4() differs from every token a client remembers or a key holds.
FreshToken(t) ==
  /\ \A c \in Clients : tok[c] # t
  /\ \A e \in Events : key[e] # t

\* claim(event_id) is called.
Call(c, e, t) ==
  /\ pc[c] = "idle"
  /\ FreshToken(t)
  /\ pc' = [pc EXCEPT ![c] = "set"]
  /\ ev' = [ev EXCEPT ![c] = e]
  /\ tok' = [tok EXCEPT ![c] = t]
  /\ UNCHANGED <<key, lapsed>>

\* As a mutant: a plain SET.
SetKey_NoNX(c, at, otherwise) ==
  /\ pc[c] = at
  /\ key' = [key EXCEPT ![ev[c]] = tok[c]]
  /\ pc' = [pc EXCEPT ![c] = "acquired"]
  /\ UNCHANGED <<ev, tok, lapsed>>

\* As a mutant: the key is set to one constant, not to the claim's token.
SetKey_NoToken(c, at, otherwise) ==
  /\ pc[c] = at
  /\ IF key[ev[c]] = "absent"
       THEN /\ key' = [key EXCEPT ![ev[c]] = "locked"]
            /\ pc' = [pc EXCEPT ![c] = "acquired"]
       ELSE /\ UNCHANGED key
            /\ pc' = [pc EXCEPT ![c] = otherwise]
  /\ UNCHANGED <<ev, tok, lapsed>>

\* SET key token NX, with what the call does when the key is already there.
SetKey(c, at, otherwise) ==
  /\ pc[c] = at
  /\ IF key[ev[c]] = "absent"
       THEN /\ key' = [key EXCEPT ![ev[c]] = tok[c]]
            /\ pc' = [pc EXCEPT ![c] = "acquired"]
       ELSE /\ UNCHANGED key
            /\ pc' = [pc EXCEPT ![c] = otherwise]
  /\ UNCHANGED <<ev, tok, lapsed>>

FirstSet(c) == SetKey(c, "set", "get")
SecondSet(c) == SetKey(c, "setAgain", "getAgain")

Verdict(current) == IF current = "done" THEN "already_done" ELSE "in_progress"

\* GET after the first SET; an absent key is raced for once more.
FirstGet(c) ==
  /\ pc[c] = "get"
  /\ pc' = [pc EXCEPT ![c] = IF key[ev[c]] = "absent" THEN "setAgain" ELSE Verdict(key[ev[c]])]
  /\ UNCHANGED <<key, ev, tok, lapsed>>

\* As a mutant: a key that is gone after the second SET is taken for handled.
SecondGet_AbsentIsDone(c) ==
  /\ pc[c] = "getAgain"
  /\ pc' = [pc EXCEPT ![c] = IF key[ev[c]] \in Tokens THEN "in_progress" ELSE "already_done"]
  /\ UNCHANGED <<key, ev, tok, lapsed>>

\* GET after the second SET; a key that is gone again reads as "in progress".
SecondGet(c) ==
  /\ pc[c] = "getAgain"
  /\ pc' = [pc EXCEPT ![c] = Verdict(key[ev[c]])]
  /\ UNCHANGED <<key, ev, tok, lapsed>>

\* complete(claim): _COMPLETE_LUA.  Its result is only logged by the callers.
Complete(c) ==
  /\ pc[c] = "acquired"
  /\ key' = IF key[ev[c]] = tok[c] THEN [key EXCEPT ![ev[c]] = "done"] ELSE key
  /\ pc' = [pc EXCEPT ![c] = "completed"]
  /\ UNCHANGED <<ev, tok, lapsed>>

\* The claim is dropped: nobody remembers its token.
Forgotten(c) ==
  /\ pc' = [pc EXCEPT ![c] = "idle"]
  /\ ev' = [ev EXCEPT ![c] = "none"]
  /\ tok' = [tok EXCEPT ![c] = "none"]
  /\ lapsed' = lapsed \ {c}

\* As a mutant: DEL without the comparison.
Release_NoCompare(c) ==
  /\ pc[c] \in {"acquired", "completed"}
  /\ key' = [key EXCEPT ![ev[c]] = "absent"]
  /\ Forgotten(c)

\* release(claim): _RELEASE_LUA, after which the caller returns.
Release(c) ==
  /\ pc[c] \in {"acquired", "completed"}
  /\ key' = IF key[ev[c]] = tok[c] THEN [key EXCEPT ![ev[c]] = "absent"] ELSE key
  /\ Forgotten(c)

\* The caller returns without releasing, or its process dies in any state.
Drop(c) ==
  /\ pc[c] # "idle"
  /\ Forgotten(c)
  /\ UNCHANGED key

\* c is between a successful claim and its complete or release.
Holding(c) == pc[c] = "acquired"

Holders(e) == {c \in Clients : Holding(c) /\ ev[c] = e /\ tok[c] = key[e]}

\* The key of e is gone, under its holder if it had one.
Vanished(e) ==
  /\ key' = [key EXCEPT ![e] = "absent"]
  /\ lapsed' = lapsed \cup Holders(e)
  /\ UNCHANGED <<pc, ev, tok>>

\* EX ttl: Redis removes the key (lock_ttl for a token, done_ttl for "done").
Expire(e) == key[e] # "absent" /\ Vanished(e)

\* forget(event_id): DEL, whoever owns the key.
Forget(e) == Vanished(e)

ClientStep(c) ==
  \/ \E e \in Events, t \in Tokens : Call(c, e, t)
  \/ FirstSet(c)
  \/ FirstGet(c)
  \/ SecondSet(c)
  \/ SecondGet(c)
  \/ Complete(c)
  \/ Release(c)
  \/ Drop(c)

Next ==
  \/ \E c \in Clients : ClientStep(c)
  \/ \E e \in Events : Expire(e) \/ Forget(e)

Spec == Init /\ [][Next]_vars

-----------------------------------------------------------------------------
\* "exactly one consumer wins" (idempotency.py, claim): two clients are never
\* between claim and complete/release of the same event, unless the key of one
\* of them vanished while it was at work.
OneHolder ==
  \A c, d \in Clients \ lapsed : Holding(c) /\ Holding(d) /\ ev[c] = ev[d] => c = d

\* A holder whose key has not vanished owns it: nothing another client does, a
\* late complete or release of a claim that lapsed included, takes the key from
\* it.  This is what makes its own complete() succeed.
HolderKeepsKey ==
  \A c \in Clients \ lapsed : Holding(c) => key[ev[c]] = tok[c]

\* A step of a client leaves alone every key with a token that is not its own.
OthersKeysKept ==
  \A e \in Events : \A c \in Clients :
    key[e] \in Tokens /\ tok[c] # key[e] /\ ClientStep(c) => key'[e] = key[e]

\* Only the owner's own complete() or release(), or the key's disappearance,
\* ends an ownership: no step of another client changes a key that holds a
\* token, even after claims have expired and were taken over (the Lua
\* compare-and-set of complete and release).
NoClobber == [][OthersKeysKept]_vars

-----------------------------------------------------------------------------
\* The refinement mapping: a key with a token belongs to the client that holds
\* that token, and is an orphan when nobody does.
Owner(e) ==
  IF key[e] \in {"absent", "done"} THEN key[e]
  ELSE IF \E c \in Clients : tok[c] = key[e]
         THEN CHOOSE c \in Clients : tok[c] = key[e]
         ELSE "orphan"

AbstractGuard == [e \in Events |-> Owner(e)]
AbstractStatus == [c \in Clients |-> IF pc[c] \in InClaim THEN "calling" ELSE pc[c]]

Abstract == INSTANCE EventGuard WITH guard <- AbstractGuard, status <- AbstractStatus, ev <- ev

\* The four-command claim and the two Lua scripts implement the atomic guard
\* that the order consumer is written against.
ImplementsEventGuard == Abstract!Spec

=============================================================================
