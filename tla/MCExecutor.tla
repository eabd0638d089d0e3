----------------------------- MODULE MCExecutor -----------------------------
(* Instances of Executor for TLC.                                          *)
EXTENDS ExecutorControl, TLC

\* Calls differ in nothing but their name.
AnyCall == Permutations(Execs)

P(id, action, image, limits, replicas, confident, origin) ==
  [id |-> id, action |-> action, target |-> "shop/cart", image |-> image,
   limits |-> limits, replicas |-> replicas, confident |-> confident,
   origin |-> origin]

OneDeployment == {"shop/cart"}
TwoImages == {"v1", "v2"}
OneSize == {"small"}
TwoSizes == {"small", "large"}
T(i, l) == [image |-> i, limits |-> l]
OnlyV1Serves == {T("v1", "small")}

BadImage == P("img", "update_deployment_image", "v2", "small", 1, FALSE, "proposal")
Restart0 == P("roll", "rollout_restart", "v1", "small", 1, TRUE, "gate")
MoreMemory == P("mem", "update_resource_limits", "v1", "large", 1, FALSE, "proposal")
GoodImage == P("img", "update_deployment_image", "v1", "small", 1, TRUE, "gate")

\* A proposed image that cannot start, a confident automatic restart of the
\* rollout, a Pod to be deleted on the request of a client who gives no ID, a
\* proposed undo.
CorePlans ==
  {BadImage, Restart0, P(NoId, "delete_pod", "v1", "small", 1, FALSE, "manual"),
   P("undo", "rollout_undo", "v1", "small", 1, TRUE, "proposal")}

\* The same without the undo, for the progress of the verifications.
LivePlans == {p \in CorePlans : p.id # "undo"}

\* Changes of image and of resources and scaling to zero, sent by the gate with
\* and without enough confidence or only proposed.
SafetyPlans ==
  {GoodImage, MoreMemory,
   P("zero", "scale_deployment", "v1", "small", 0, FALSE, "gate")}

ImagePlan == {BadImage}
=============================================================================
