-------------------------- MODULE MCOrderPipeline --------------------------
(***************************************************************************)
(* Model-checking instances of OrderPipeline: which payloads are on the    *)
(* topic, and the symmetry of the workers.                                 *)
(***************************************************************************)
EXTENDS OrderPipeline, TLC

CONSTANTS eOk, eTransient, ePermanent, eUnknown, ePoison, eSlow

KindOf == (eOk :> "ok") @@ (eTransient :> "transient") @@ (ePermanent :> "permanent")
          @@ (eUnknown :> "unknown") @@ (ePoison :> "poison") @@ (eSlow :> "transient")

KindOfEvents == [e \in Events |-> KindOf[e]]

WorkerSymmetry == Permutations(Workers)

=============================================================================
