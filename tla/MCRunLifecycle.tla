--------------------------- MODULE MCRunLifecycle ---------------------------
(***************************************************************************)
(* Instances of RunLifecycle for TLC.  Runs are numbered, so only workers  *)
(* are interchangeable.                                                    *)
(***************************************************************************)
EXTENDS RunLifecycle, TLC

CONSTANTS t1, t2, w1, w2

OneTask == (1 :> t1)
\* Two runs of one task: what recovery and late workers may do to a successor.
SameTask == (1 :> t1 @@ 2 :> t1)
\* Runs of different tasks, which run side by side.
TwoTasks == (1 :> t1 @@ 2 :> t2)

DeliveryPlan == (1 :> "delivery_only")
ComposeThenDelivery == (1 :> "compose_only" @@ 2 :> "delivery_only")
FullThenDelivery == (1 :> "full" @@ 2 :> "delivery_only")

WorkerSymmetry == Permutations(Workers)
=============================================================================
