------------------------- MODULE CollectionHandlers -------------------------
(* What a container platform sends elsewhere: logs, metrics, traces. The       *)
(* managed collector runs beside the task, so a task feeds every destination   *)
(* of one sort through one variable and one file. "fit" includes the placement *)
(* of the task in a subnet and a security group (ecs_collection_errors).       *)
EXTENDS DataHandlers

EcsLogDestinations == <<"ecs", "cloudwatch", "logs_to">>
EcsMetricDestinations == <<"ecs", "managed-prometheus", "sends_metrics">>

(* resolve_ecs_logs: the slot is the container; one destination for each. *)
ResolveEcsLogsRefuses(c, P) ==
  LET peers == OutOf(c, P) IN
  (\E d, e \in peers : d.slot = e.slot /\ d.target # e.target) \/ Unfit(peers) \/ Remote(peers)

(* ecs_log_encryption: the keys of encrypted groups, one policy for all. *)
EcsLogEncryption(c, P) ==
  LET s == c.source
      groups == {d.target : d \in OutOf(c, P)}
      keyed == {g \in groups : ManagedKeys(g, P) # {}}
      access == Each(groups, LAMBDA g : Augment(s, g, P)) IN
  [access EXCEPT !.grants = {}]
  \oplus When(keyed # {},
       Mark(s, "application_logs_kms")
       \oplus File(s, <<"application_log_encryption">>, {<<"aws_iam_role_policy", s, "application_logs">>},
                   {<<"aws_iam_role", s, "role">>, V(<<"ecs_logs">>)} \cup Identity(<<"ecs_logs">>)
                   \cup {V(i.name) : i \in access.ins}))

EcsLogs(c, P) ==
  LET s == c.source  configuration == <<"local", "application_log_configurations">> IN
  Unless(ResolveEcsLogsRefuses(c, P), Speaks(c, OutOf(c, P),
    Mark(s, "application_logs") \oplus Mark(s, "fargate")
    \oplus In(s, <<"ecs_logs">>, {<<d.target, "log_group_arn">> : d \in OutOf(c, P)})
    \oplus File(s, <<"application_logs">>, {configuration} \cup Identity(<<"ecs_logs">>), {V(<<"ecs_logs">>)})
    \oplus Out(s, <<"application_log_configurations">>, {configuration})
    \oplus EcsLogEncryption(c, P)))

(* The outputs and the file of a collector beside the task. *)
Collector(s, name, file, made, uses) ==
  LET configuration == <<"local", name \o "_collector_configuration">>
      group == <<"aws_cloudwatch_log_group", s, name>> IN
  Mark(s, "collects_" \o name) \oplus Mark(s, "task_role") \oplus Mark(s, "fargate")
  \oplus Out(s, <<name \o "_collector_configuration">>, {configuration})
  \oplus Out(s, <<name \o "_collector_log_group">>, {group})
  \oplus File(s, <<file>>, {configuration, group} \cup made, uses)

(* The slot is the interval and the port, shared by all destinations. *)
EcsPrometheus(c, P) ==
  LET s == c.source
      peers == OutOf(c, P)
      variables == {<<"prometheus_collection">>, <<"prometheus_collection_workspaces">>} IN
  Unless(~c.fit \/ \E d \in peers : d.slot # c.slot,
    In(s, <<"prometheus_collection">>, {})
    \oplus In(s, <<"prometheus_collection_workspaces">>,
              UNION {{<<d.target, "workspace_arn">>, <<d.target, "prometheus_endpoint">>} : d \in peers})
    \oplus Collector(s, "prometheus", "prometheus_collection", Identity(<<"ecs_prometheus">>), {V(v) : v \in variables})
    \oplus Grant(s, {<<"aws_prometheus_workspace", d.target, "arn">> : d \in peers}))

(* The metrics port of the application may not be one of the collector's. *)
EcsXRay(c, P) ==
  LET s == c.source  peers == Into(c, P) IN
  Unless(Unfit(peers)
         \/ \E d \in peers, e \in Of(EcsMetricDestinations, P) : e.source = d.source /\ e.slot = "collector_port",
    Collector(s, "xray", "xray_collection", {<<"aws_iam_role_policy", s, "xray">>, <<"data.aws_region", "ecs_xray">>},
              {<<"aws_ecs_cluster", s>>, <<"aws_iam_role", s, "role">>})
    \oplus Mark(c.target, "ecs_tracing")
    \oplus GroupMembership(c.target, {d.source : d \in peers}, "xray_ecs_clusters", "cluster_arn", "xray_cluster_name")
    \oplus Out(s, <<"xray_cluster_name">>, {<<"aws_ecs_cluster", s>>}))

TargetGroupECS(c, P) == Mark(c.target, "load_balancers") \oplus Peer(c.target, c.source, "target_group_arn", "target_group_arn")
-----------------------------------------------------------------------------
(* The log group of a control plane carries a name its cluster decides. The   *)
(* slot is the selection of log types.                                        *)
EksLogsRefuses(c, P) ==
  \/ Cardinality({d.target : d \in OutOf(c, P)}) > 1
  \/ Cardinality({d.source : d \in Into(c, P)}) > 1
  \/ \E d \in OutOf(c, P) : d.slot # c.slot
  \/ ManagedKeys(c.target, P) # {}
  \/ ~c.fit \/ c.remote

EksLogs(c, P) ==
  LET s == c.source  t == c.target IN
  Unless(EksLogsRefuses(c, P),
    Mark(s, "control_plane_logs")
    \oplus In(t, <<"log_group_name">>, {<<s, "control_plane_log_group_name">>})
    \oplus In(s, <<"enabled_cluster_log_types">>, {})
    \oplus In(s, <<"control_plane_log_group">>, {<<t, "eks_control_plane_destination">>})
    \oplus Out(s, <<"control_plane_log_group_name">>, {V(<<"cluster_name">>)})
    \oplus Out(t, <<"eks_control_plane_destination">>, {<<"aws_cloudwatch_log_group", t>>})
    \oplus File(s, <<"control_plane_logs">>, Identity(<<"eks_logs">>), {}))

(* The slot is the interval of the scraper. *)
EksPrometheus(c, P) ==
  LET s == c.source  peers == OutOf(c, P)
      scraper == <<"aws_prometheus_scraper", s, "prometheus">> IN
  Unless(~c.fit \/ \E d, e \in peers : d.target = e.target /\ d.slot # e.slot,
    Mark(s, "private_access") \oplus Each(peers, LAMBDA d : Mark(d.target, "managed_scraper"))
    \oplus In(s, <<"prometheus_scraper_workspaces">>, {<<d.target, "workspace_arn">> : d \in peers})
    \oplus Out(s, <<"prometheus_scrapers">>, {scraper})
    \oplus File(s, <<"prometheus_scrapers">>,
                {scraper} \cup Labelled({"data.aws_prometheus_default_scraper_configuration", "data.aws_vpc"}, <<"eks_prometheus">>),
                {<<"aws_eks_cluster", s>>, V(<<"prometheus_scraper_workspaces">>)}))
=============================================================================
