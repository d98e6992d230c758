---------------------------- MODULE FaultHandlers ----------------------------
(* The targets of a fault experiment. The slot of a connection is what the     *)
(* experiment does, "other" the role it runs under.                            *)
EXTENDS Contributions

Experiments(c, P) == {P[i] : i \in {j \in DOMAIN P : /\ P[j].source = c.source /\ P[j].kind[3] = "targets"
                                                      /\ P[j].kind[1] = "fault-injection-simulator"}}
MaxInstances == 5

(* experiment_binding_errors: a template has targets of one service, which    *)
(* agree on what is done to them and run where the template runs.             *)
ExperimentRefused(c, P, most) ==
  LET peers == OutOf(c, P) IN
  \/ ~c.fit \/ Remote(peers)
  \/ \E d \in Experiments(c, P) : d.kind # c.kind
  \/ \E d \in peers : d.slot # c.slot
  \/ Cardinality({d.target : d \in peers}) > most

ResolveEc2FaultRefuses(c, P) == ExperimentRefused(c, P, MaxInstances)
ResolveEcsFaultRefuses(c, P) == ExperimentRefused(c, P, 1)
ResolveEksFaultRefuses(c, P) == ExperimentRefused(c, P, 1)

(* The policy of the external role, with what the experiment needs; the lookup *)
(* of the role is counted as a file of its own, so that what reads the role    *)
(* does not seem to read the policy.                                          *)
Experiment(m, service, made, uses) ==
  Mark(m, "targets_" \o service)
  \oplus File(m, <<service \o "_targets", "role">>, {<<"data.aws_iam_role", "fis_" \o service>>}, {V(<<"role_arn">>)})
  \oplus File(m, <<service \o "_targets">>, {<<"aws_iam_role_policy", "fis_" \o service>>} \cup made,
              {<<"data.aws_iam_role", "fis_" \o service>>}
              \cup Identity(<<"experiment">>) \cup {V(<<"action_name">>), V(<<"role_arn">>)} \cup uses)
-----------------------------------------------------------------------------
FisEc2(c, P) ==
  LET s == c.source  arns == <<"local", "fis_ec2_arns">> IN
  Unless(ResolveEc2FaultRefuses(c, P), Speaks(c, OutOf(c, P),
    In(s, <<"fis_ec2_targets">>, {<<d.target, "fis_instance">> : d \in OutOf(c, P)})
    \oplus In(s, <<"fis_ec2_action">>, {})
    \oplus Each(OutOf(c, P), LAMBDA d : Out(d.target, <<"fis_instance">>, {<<"aws_instance", d.target>>}))
    \oplus Out(s, <<"ec2_target_arns">>, {arns})
    \oplus Experiment(s, "ec2", {arns}, {V(<<"fis_ec2_action">>), V(<<"fis_ec2_targets">>)})))

FisEcs(c, P) ==
  LET s == c.source  t == c.target
      variables == {V(<<"fis_ecs_selection">>), V(<<"fis_ecs_service">>)} IN
  Unless(ResolveEcsFaultRefuses(c, P), Speaks(c, OutOf(c, P),
    In(s, <<"fis_ecs_service">>, {<<t, "fis_service">>}) \oplus In(s, <<"fis_ecs_selection">>, {})
    \oplus Out(t, <<"fis_service">>, {<<"aws_ecs_cluster", t>>, <<"aws_ecs_service", t, "service">>})
    \oplus Out(s, <<"ecs_target">>, variables)
    \oplus Experiment(s, "ecs", {<<"local", "fis_ecs_task_arn">>}, variables)))

(* experiment_role_sources: the roles of all templates that act on a cluster, *)
(* each from one of the templates that run under it.                          *)
RoleSources(cluster, P) ==
  LET templates == {d \in Of(<<"fault-injection-simulator", "eks", "targets">>, P) : d.target = cluster}
      under(role) == {d.source : d \in {e \in templates : e.other = role}} IN
  {CHOOSE s \in under(role) : TRUE : role \in {d.other : d \in templates}}

FisEks(c, P) ==
  LET s == c.source  t == c.target
      variables == {V(<<"fis_eks_cluster">>), V(<<"fis_eks_pods">>)}
      entry == <<"aws_eks_access_entry", "fis_experiments">> IN
  Unless(ResolveEksFaultRefuses(c, P), Speaks(c, OutOf(c, P),
    Mark(t, "access_entries")
    \oplus In(s, <<"fis_eks_cluster">>, {<<t, "fis_cluster">>}) \oplus In(s, <<"fis_eks_pods">>, {})
    \oplus In(t, <<"fis_experiment_roles">>, {<<x, "fis_experiment_role">> : x \in RoleSources(t, P)})
    \oplus Out(s, <<"eks_pod_access_manifests">>, {<<"local", "fis_eks_manifests">>})
    \oplus Out(s, <<"eks_pod_target">>, variables)
    \oplus Out(s, <<"fis_experiment_role">>, {<<"data.aws_iam_role", "fis_eks">>, V(<<"role_arn">>)})
    \oplus Out(t, <<"fis_cluster">>, {entry, <<"aws_eks_cluster", t>>})
    \oplus Experiment(s, "eks", {}, variables)
    \oplus File(s, <<"eks_pod_manifests">>, {<<"local", "fis_eks_manifests">>}, {V(<<"fis_eks_pods">>)})
    \oplus File(s, <<"FIS-EKS-PODS.md">>, {}, {})
    \oplus File(t, <<"fis_access">>, {entry}, {<<"aws_eks_cluster", t>>, V(<<"fis_experiment_roles">>)})))
=============================================================================
