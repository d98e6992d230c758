--------------------------- MODULE GrafanaHandlers ---------------------------
(* The data sources of a Grafana workspace, under one role that all of them    *)
(* share: every connection builds the sources of every sort, and the file of   *)
(* the role is the same for all. The slot is the table, index or database.     *)
EXTENDS TransferHandlers

Queries(service) == <<"managed-grafana", service, "queries">>
GrafanaSources == {"managed-prometheus", "cloudwatch", "timestream", "opensearch", "athena", "redshift", "x-ray"}
SourceBindings(workspace, service, P) == {d \in Of(Queries(service), P) : d.source = workspace}

(* What a source is: the variable of its bindings, the outputs it reads, the  *)
(* resource behind them, which of them it declares itself, and its outputs.   *)
GrafanaSource(service) ==
  CASE service = "managed-prometheus" ->
         [variable |-> "prometheus_workspaces", resource |-> "aws_prometheus_workspace", own |-> {"workspace_region"},
          reads |-> {"workspace_arn", "prometheus_endpoint"}, tells |-> {"prometheus_data_sources"}, lookups |-> {}]
    [] service = "cloudwatch" ->
         [variable |-> "cloudwatch_log_groups", resource |-> "aws_cloudwatch_log_group",
          own |-> {"log_group_name", "log_group_region", "log_group_kms_key_arn", "log_group_class"},
          reads |-> {"log_group_arn"}, tells |-> {"cloudwatch_data_sources"}, lookups |-> {"data.aws_caller_identity"}]
    [] service = "timestream" ->
         [variable |-> "timestream_tables", resource |-> "aws_timestreamwrite_database", own |-> {"database_region"},
          reads |-> {"database_arn", "database_name"}, tells |-> {"timestream_data_sources"}, lookups |-> {}]
    [] service = "opensearch" ->
         [variable |-> "opensearch_sources", resource |-> "aws_opensearch_domain",
          own |-> {"grafana_domain_name", "grafana_domain_region", "grafana_engine_version", "grafana_explicit_index"},
          reads |-> {"domain_arn", "domain_endpoint"}, tells |-> {"opensearch_data_sources"}, lookups |-> {}]
    [] service = "athena" ->
         [variable |-> "athena_tables", resource |-> "aws_athena_workgroup",
          own |-> {"grafana_workgroup_region", "grafana_result_location", "grafana_enforce_configuration"},
          reads |-> {"workgroup_arn", "workgroup_name"}, tells |-> {"athena_data_sources"}, lookups |-> {}]
    [] service = "redshift" ->
         [variable |-> "redshift_databases", resource |-> "aws_redshift_cluster",
          own |-> {"grafana_cluster_identifier", "grafana_cluster_region", "grafana_master_username"},
          reads |-> {"cluster_arn"}, tells |-> {"redshift_data_sources"}, lookups |-> {}]
    [] service = "x-ray" ->
         [variable |-> "xray_groups", resource |-> "aws_xray_group",
          own |-> {"grafana_group_region", "grafana_group_filter", "grafana_group_insights_enabled"},
          reads |-> {"group_arn", "group_name"}, tells |-> {"xray_data_sources", "xray_query_defaults"},
          lookups |-> {"data.aws_caller_identity", "data.aws_partition"}]

BuildSource(workspace, service, P) ==
  LET what == GrafanaSource(service)
      targets == {d.target : d \in SourceBindings(workspace, service, P)}
      ready == {<<"aws_grafana_workspace", workspace>>, <<"aws_iam_role_policy", workspace, "data_sources">>} IN
  When(targets # {},
    In(workspace, <<what.variable>>, targets \X (what.reads \cup what.own))
    \oplus Each(targets, LAMBDA t : Each(what.own, LAMBDA o : Out(t, <<o>>, {<<what.resource, t>>})))
    \oplus Each(what.tells, LAMBDA o :
         Out(workspace, <<o>>, ready \cup {V(<<what.variable>>)} \cup Labelled(what.lookups, <<"grafana_sources">>))))
-----------------------------------------------------------------------------
(* A domain that Grafana queries by index serves no other client. *)
OpenSearchTaken(workspace, P) ==
  LET bindings == SourceBindings(workspace, "opensearch", P) IN
  \/ \E d, e \in bindings : d.target = e.target /\ d.slot = e.slot /\ d.refs # e.refs
  \/ \E d \in bindings : \E i \in DOMAIN P :
       P[i].target = d.target /\ P[i].kind[2] = "opensearch" /\ P[i].kind[3] \in {"reads_from", "writes_to", "resolves_with"}

(* validate_athena_results: results go to one location, its own or connected. *)
AthenaResults == <<"athena", "s3", "stores_results">>
AthenaUnsettled(workspace, P) ==
  \E d \in SourceBindings(workspace, "athena", P) :
    Cardinality({<<e.target, e.slot>> : e \in {f \in Of(AthenaResults, P) : f.source = d.target}}) > 1

GrafanaDataSources(c, P) ==
  LET w == c.source
      role == <<"aws_iam_role", w, "data_sources">>
      used == {service \in GrafanaSources : SourceBindings(w, service, P) # {}} IN
  Unless(\E service \in used : Unfit(SourceBindings(w, service, P)) \/ OpenSearchTaken(w, P) \/ AthenaUnsettled(w, P),
    Mark(w, "managed_data_sources")
    \oplus Each(GrafanaSources, LAMBDA service : BuildSource(w, service, P))
    \oplus File(w, <<"data_source_role">>,
                {role, <<"aws_iam_role_policy", w, "data_sources">>} \cup Identity(<<"grafana_sources">>),
                {V(<<GrafanaSource(service).variable>>) : service \in used})
    \oplus Out(w, <<"data_source_role_arn">>, {role}))
=============================================================================
