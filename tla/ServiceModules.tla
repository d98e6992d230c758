---------------------------- MODULE ServiceModules ----------------------------
(* The modules of the services that run nothing themselves, and which module   *)
(* an instance of a service gets.                                              *)
EXTENDS ComputeModules

-----------------------------------------------------------------------------
(* Networks, balancers and certificates *)
Vpc(i) == Plain(i, "aws_vpc", {}, {}, {"vpc_id", "vpc_arn", "default_route_table_id"})
Subnet(i) == Plain(i, "aws_subnet", {"vpc_id"}, {}, {"subnet_id", "subnet_arn"})
SecurityGroup(i) == Plain(i, "aws_security_group", {"vpc_id"}, {}, {"security_group_id", "security_group_arn"})
RouteTable(i) == Plain(i, "aws_route_table", {"vpc_id"}, {}, {"route_table_id"})
InternetGateway(i) ==
  Plain(i, "aws_internet_gateway", {"vpc_id"}, {}, {"internet_gateway_id", "internet_gateway_arn"})
NatGateway(i) == Plain(i, "aws_nat_gateway", {"subnet_id"}, {}, {"nat_gateway_id"})
TransitGateway(i) == Plain(i, "aws_ec2_transit_gateway", {}, {}, {"transit_gateway_id", "transit_gateway_arn"})
NetworkFirewall(i) ==
  Plain(i, "aws_networkfirewall_firewall", {"subnet_ids", "vpc_id"}, {}, {"firewall_id", "firewall_arn"})
TargetGroup(i) == Plain(i, "aws_lb_target_group", {"vpc_id"}, {}, {"target_group_arn"})
LoadBalancer(i) ==
  Plain(i, "aws_lb", {"security_group_ids", "subnet_ids"}, {}, {"load_balancer_arn", "dns_name", "zone_id"})
GlobalAccelerator(i) ==
  Plain(i, "aws_globalaccelerator_accelerator", {}, {}, {"accelerator_id", "accelerator_arn", "dns_name", "hosted_zone_id"})
Route53(i) == Plain(i, "aws_route53_zone", {"private_zone", "vpc_id"}, {}, {"zone_id", "name_servers"})
Waf(i) == Plain(i, "aws_wafv2_web_acl", {}, {}, {"web_acl_id", "web_acl_arn"})
CloudFront(i, g) ==
  Plain(i, "aws_cloudfront_distribution", {"origin_domain_name"},
        Settings(g, {"certificate_arn", "web_acl_id"})
        \cup If(Has(g, "s3_origin"), {<<"aws_cloudfront_origin_access_control", "s3">>}),
        {"distribution_id", "distribution_arn", "domain_name", "hosted_zone_id"})

(* A subnet placement associates the endpoint with it. *)
ClientVpn(i, g) ==
  LET endpoint == <<"aws_ec2_client_vpn_endpoint", i>>
      region == <<"data.aws_region", "client_vpn_certificate">>
      secured == {v \in g.inputs : Len(v) = 2 /\ v[Len(v)] = "arn_key_algorithm"} IN
  Plain(i, endpoint[1], {"security_group_ids", "server_certificate_arn"},
        If(secured # {}, {region}) \cup {V(v) : v \in secured},
        {"client_vpn_endpoint_id", "client_vpn_endpoint_arn", "dns_name"})
  \oplus Variables(i, {"subnet_ids"})
  \oplus When(secured # {}, Block(i, region, {}))
  \oplus When(Has(g, "managed_placement") /\ <<"subnet_ids">> \in g.inputs,
              Block(i, <<"aws_ec2_client_vpn_network_association", i>>, {endpoint} \cup Vars({"subnet_ids"})))

(* A certificate of a private authority needs no validation, and one whose    *)
(* zone validates it is offered only once validated.                          *)
CertificateManager(i, g) ==
  LET certificate == <<"aws_acm_certificate", i>>  region == <<"data.aws_region", "private_certificate">>
      private == Has(g, "private_ca") IN
  Block(i, certificate, If(private, {region} \cup Vars({"private_ca_arn", "private_ca_key_algorithm"})))
  \oplus Out(i, <<"certificate_arn">>,
             {IF Has(g, "dns_validation") /\ ~private THEN <<"aws_acm_certificate_validation", i, "issuance">> ELSE certificate})
  \oplus When(private, Block(i, region, {}))
  \oplus When(~private, Out(i, <<"domain_validation_options">>, {certificate}))
PrivateCertificateAuthority(i) ==
  Plain(i, "aws_acmpca_certificate_authority", {"key_algorithm", "signing_algorithm", "usage_mode"}, {},
        {"certificate_authority_id", "certificate_authority_arn"})
-----------------------------------------------------------------------------
(* Storage and databases *)
S3Bucket(i, g) ==
  LET bucket == <<"aws_s3_bucket", i>> IN
  Block(i, bucket, {})
  \oplus Block(i, <<"aws_s3_bucket_versioning", i, "versioning">>, {bucket} \cup Vars({"versioning_enabled"}))
  \oplus When(Has(g, "encrypted"),
              Block(i, <<"aws_s3_bucket_server_side_encryption_configuration", i, "encryption">>,
                    {bucket} \cup Vars({"sse_kms_key_id"})))
S3Outputs(i) ==
  Variables(i, {"versioning_enabled"}) \oplus Outputs(i, {"bucket_arn", "bucket_name"}, {<<"aws_s3_bucket", i>>})
S3(i, g) == S3Bucket(i, g) \oplus S3Outputs(i)

DynamoDb(i, g) ==
  Plain(i, "aws_dynamodb_table", {}, Settings(g, {"server_side_encryption_kms_key_arn"}), {"table_arn", "table_name"})
Ebs(i, g) ==
  Plain(i, "aws_ebs_volume", {"availability_zone"}, Settings(g, {"kms_key_id"}), {"volume_id", "volume_arn"})
Efs(i, g) ==
  LET system == <<"aws_efs_file_system", i>>  network == {"security_group_ids", "subnet_ids"} IN
  Block(i, system, Settings(g, {"kms_key_id"}))
  \oplus Block(i, <<"aws_efs_mount_target", i>>, {system} \cup Vars(network))
  \oplus Variables(i, network) \oplus Outputs(i, {"file_system_id", "file_system_arn", "dns_name"}, {system})
Rds(i) == Plain(i, "aws_db_instance", {}, {}, {"db_instance_arn", "db_instance_endpoint"})

(* The Data API needs a writer, and tells of it. *)
Aurora(i, g) ==
  LET cluster == <<"aws_rds_cluster", i>>  writer == <<"aws_rds_cluster_instance", i, "writer">> IN
  Plain(i, cluster[1], {}, {}, {"cluster_arn", "cluster_endpoint"})
  \oplus When(Has(g, "appsync_data_api"),
              Block(i, writer, {cluster}) \oplus Out(i, <<"data_api_cluster_arn">>, {cluster, writer})
              \oplus Outputs(i, {"database_name", "master_secret_arn"}, {cluster}))
Redshift(i) == Plain(i, "aws_redshift_cluster", {}, {}, {"cluster_arn", "cluster_endpoint"})
Neptune(i) == Plain(i, "aws_neptune_cluster", {}, {}, {"cluster_arn", "cluster_endpoint"})
DocumentDb(i) == Plain(i, "aws_docdb_cluster", {}, {}, {"cluster_arn", "cluster_endpoint"})
Keyspaces(i) == Plain(i, "aws_keyspaces_keyspace", {}, {}, {"keyspace_id", "keyspace_arn"})
Timestream(i) == Plain(i, "aws_timestreamwrite_database", {}, {}, {"database_arn", "database_name"})
ElastiCache(i) == Plain(i, "aws_elasticache_cluster", {}, {}, {"cluster_arn", "cache_nodes"})
ElastiCacheServerless(i) ==
  Plain(i, "aws_elasticache_serverless_cache", {"security_group_ids", "subnet_ids"}, {}, {"arn", "endpoint", "reader_endpoint"})

(* Placed in subnets, a replication instance or a cluster has a group of them. *)
Placed(i, g, type) ==
  Variables(i, {"subnet_ids"}) \oplus When(Has(g, "managed_placement") /\ <<"subnet_ids">> \in g.inputs, Block(i, <<type, i>>, Vars({"subnet_ids"})))
SubnetGroup(i, g, type) == If(Has(g, "managed_placement") /\ <<"subnet_ids">> \in g.inputs, {<<type, i>>})
MemoryDb(i, g) ==
  LET group == "aws_memorydb_subnet_group" IN
  Plain(i, "aws_memorydb_cluster", {"acl_name", "security_group_ids"}, SubnetGroup(i, g, group), {"cluster_arn", "cluster_endpoint"})
  \oplus Placed(i, g, group)
MigrationService(i, g) ==
  LET group == "aws_dms_replication_subnet_group" IN
  Plain(i, "aws_dms_replication_instance", {"vpc_security_group_ids"}, SubnetGroup(i, g, group),
        {"replication_instance_arn", "replication_instance_id"})
  \oplus Placed(i, g, group)
OpenSearch(i) == Plain(i, "aws_opensearch_domain", {}, {}, {"domain_arn", "domain_endpoint"})
LakeFormation(i) == Plain(i, "aws_lakeformation_resource", {"resource_arn"}, {}, {"resource_arn"})
Athena(i) == Plain(i, "aws_athena_workgroup", {"output_location"}, {}, {"workgroup_arn", "workgroup_name"})
DataZone(i, g) ==
  Plain(i, "aws_datazone_domain", {}, Settings(g, {"kms_key_identifier"}), {"domain_id", "domain_arn", "portal_url"})
DataSyncTask(i) ==
  Plain(i, "aws_datasync_task", {"destination_location_arn", "source_location_arn"}, {}, {"task_arn", "task_name"})
DataSyncS3Location(i, g) ==
  Plain(i, "aws_datasync_location_s3", {"bucket_access_role_arn", "s3_bucket_arn", "subdirectory"},
        If(Has(g, "managed_bucket"), {<<"aws_iam_role_policy", "location_access">>}), {"location_arn"})
Backup(i, g) ==
  LET vault == <<"aws_backup_vault", i>>  plan == <<"aws_backup_plan", i>> IN
  Block(i, vault, Settings(g, {"kms_key_arn"})) \oplus Block(i, plan, {vault})
  \oplus Out(i, <<"vault_arn">>, {vault}) \oplus Outputs(i, {"plan_id", "plan_arn"}, {plan})
Comprehend(i, g) ==
  Plain(i, "aws_comprehend_document_classifier", {"data_access_role_arn", "training_data_s3_uri"},
        If(Has(g, "reads_s3_source"), {<<"aws_iam_role_policy", "source_data">>}), {"classifier_arn", "classifier_name"})
-----------------------------------------------------------------------------
(* Messages, events and APIs *)
Sqs(i, g) == Plain(i, "aws_sqs_queue", {}, Settings(g, {"kms_master_key_id"}), {"queue_arn", "queue_url"})
Sns(i, g) == Plain(i, "aws_sns_topic", {"topic_name"}, Settings(g, {"kms_master_key_id"}), {"topic_arn", "topic_name"})
Kinesis(i) == Plain(i, "aws_kinesis_stream", {}, {}, {"stream_arn", "stream_name"})
KinesisFirehose(i, g) ==
  Plain(i, "aws_kinesis_firehose_delivery_stream", If(Has(g, "managed_s3_destination"), {"role_arn"}),
        If(Has(g, "managed_s3_destination"), {<<"aws_iam_role_policy", "s3_delivery">>} \cup Settings(g, {"bucket_arn", "destination", "s3_prefix"})),
        {"delivery_stream_arn", "delivery_stream_name"})
Msk(i) == Plain(i, "aws_msk_cluster", {}, {}, {"cluster_arn", "bootstrap_brokers"})
Mq(i) == Plain(i, "aws_mq_broker", {"security_group_ids", "subnet_ids"}, {}, {"broker_id", "broker_arn", "broker_instances"})
EventBridge(i, g) ==
  LET rule == <<"aws_cloudwatch_event_rule", i>>  bus == <<"data.aws_cloudwatch_event_bus", "default">> IN
  Block(i, rule, Settings(g, {"event_pattern"})) \oplus Block(i, bus, {})
  \oplus Outputs(i, {"rule_arn", "rule_name"}, {rule}) \oplus Out(i, <<"event_bus_arn">>, {bus})

(* The definition of a workflow is that of its latest kind of task, by a      *)
(* fixed precedence; every kind of task has a policy and a check.             *)
Precedence == <<"eventbridge", "dynamodb", "sqs", "sns", "batch", "ecs", "lambda", "secret">>
StepFunctions(i, g) ==
  LET kinds == {k \in DOMAIN Precedence : Has(g, Precedence[k])}
      policy(name) == <<"aws_iam_role_policy", IF name = "secret" THEN "runtime_secrets" ELSE name \o "_tasks">> IN
  Plain(i, "aws_sfn_state_machine", {"definition", "role_arn"},
        {policy(Precedence[k]) : k \in kinds}
        \cup {<<"local", Precedence[k] \o "_tasks_valid">> : k \in kinds}
        \cup {<<"local", Precedence[k] \o "_workflow_definition">> : k \in {j \in kinds : \A l \in kinds : j <= l}}
        \cup If(Has(g, "cloudwatch_logs"),
                {<<"aws_iam_role_policy", "workflow_logs">>} \cup Identity(<<"workflow_logs">>) \cup Vars({"workflow_logs"})),
        {"state_machine_arn", "state_machine_id"})

ApiGateway(i, g) ==
  LET api == <<"aws_apigatewayv2_api", i>>  stage == <<"aws_apigatewayv2_stage", i>> IN
  Block(i, api, {})
  \oplus Block(i, stage, {api} \cup If(\E mark \in g.marks : mark[1] = "stage_logs",
                                       Identity(<<"api_access_logs">>) \cup Vars({"api_access_logs"})))
ApiGatewayOutputs(i) ==
  Each({"api_id", "api_endpoint", "execution_arn"}, LAMBDA o : Out(i, <<i, o>>, {<<"aws_apigatewayv2_api", i>>}))
  \oplus Out(i, <<i, "prod_invoke_url">>, {<<"aws_apigatewayv2_stage", i>>})
ApiGatewayModule(i, g) == ApiGateway(i, g) \oplus ApiGatewayOutputs(i)

(* User pools replace the API key. *)
AppSync(i, g) ==
  LET api == <<"aws_appsync_graphql_api", i>>  key == <<"aws_appsync_api_key", i>>
      pools == {mark[2] : mark \in {m \in g.marks : m[1] = "cognito"}} IN
  Plain(i, api[1], {}, {V(<<"cognito", p, field>>) : p \in pools, field \in {"user_pool_id", "region", "client_id"}},
        {"graphql_api_id", "graphql_endpoint", "graphql_api_arn"})
  \oplus When(pools = {}, Block(i, key, {api}) \oplus Out(i, <<"api_key_id">>, {key}))
Cognito(i) ==
  LET pool == <<"aws_cognito_user_pool", i>> client == <<"aws_cognito_user_pool_client", i>> domain == <<"aws_cognito_user_pool_domain", i>> IN
  Block(i, pool, {}) \oplus Block(i, client, {pool}) \oplus Block(i, domain, {pool})
  \oplus Outputs(i, {"user_pool_id", "user_pool_arn", "endpoint"}, {pool})
  \oplus Out(i, <<"client_id">>, {client}) \oplus Out(i, <<"user_pool_domain">>, {domain})
-----------------------------------------------------------------------------
(* Delivery, operation and security *)
Ecr(i) == Plain(i, "aws_ecr_repository", {}, {}, {"repository_arn", "repository_url"})
CodeCommit(i) == Plain(i, "aws_codecommit_repository", {}, {}, {"repository_arn", "clone_url_http"})
CodeArtifact(i, g) ==
  LET domain == <<"aws_codeartifact_domain", i>>  repository == <<"aws_codeartifact_repository", i>> IN
  Block(i, domain, Settings(g, {"kms_key"})) \oplus Block(i, repository, {domain})
  \oplus Out(i, <<"domain_arn">>, {domain}) \oplus Outputs(i, {"repository_arn", "repository_name"}, {repository})
CodeBuild(i, g) ==
  Plain(i, "aws_codebuild_project", {"buildspec", "service_role", "source_type"},
        RuntimeSecrets(g)
        \cup If(Has(g, "repository_source"),
                {<<"aws_iam_role_policy", "repository_source">>} \cup Identity(<<"repository_source">>) \cup Vars({"repository_source"}))
        \cup If(Has(g, "package_login"),
                {<<"aws_iam_role_policy", "package_source">>, <<"local", "package_login_buildspec">>}
                \cup Identity(<<"package_source">>) \cup Vars({"package_source"}))
        \cup If(Has(g, "cloudwatch_logs"),
                {<<"aws_iam_role_policy", "build_logs">>} \cup Identity(<<"build_logs">>) \cup Vars({"build_logs"})),
        {"project_arn", "project_name"})
CodePipeline(i, g) ==
  Plain(i, "aws_codepipeline", {"artifact_bucket_name", "role_arn", "stages_json"},
        If(Has(g, "repository_source"),
           {<<"aws_iam_role_policy", "repository_source">>, <<"local", "repository_action">>, <<"local", "repository_stages">>}
           \cup Identity(<<"repository_source">>) \cup Vars({"repository_source"}))
        \cup If(Has(g, "managed_artifacts"), {<<"aws_iam_role_policy", "artifacts">>}),
        {"pipeline_arn", "pipeline_name"})
Kms(i) == Plain(i, "aws_kms_key", {}, {}, {"key_id", "key_arn"})
SecretsManager(i, g) == Plain(i, "aws_secretsmanager_secret", {}, Settings(g, {"kms_key_id"}), {"secret_id", "secret_arn"})
CloudWatch(i, g) ==
  Plain(i, "aws_cloudwatch_log_group", {"log_group_name"}, Settings(g, {"kms_key_id"}), {"log_group_arn"})
CloudTrail(i, g) ==
  Plain(i, "aws_cloudtrail", {"is_multi_region_trail", "s3_bucket_name", "trail_name"},
        Settings(g, {"kms_key_id"})
        \cup If(Has(g, "cloudwatch_logs"),
                Labelled({"aws_iam_role", "aws_iam_role_policy"}, <<i, "cloudwatch_logs">>)
                \cup Identity(<<"cloudtrail_logs">>) \cup Vars({"cloud_watch_logs_group_arn"})),
        {"trail_arn", "trail_name"})
AwsConfig(i, g) ==
  LET recorder == <<"aws_config_configuration_recorder", i>>  channel == <<"aws_config_delivery_channel", i>> IN
  Block(i, recorder, {})
  \oplus Block(i, channel, {recorder} \cup Vars({"s3_bucket_name"})
       \cup If(Has(g, "sns_notifications"),
               Labelled({"data.aws_partition", "data.aws_region"}, <<"config_notifications">>) \cup Vars({"sns_topic_arn"})))
  \oplus Block(i, <<"aws_config_configuration_recorder_status", i>>, {recorder, channel})
  \oplus Variables(i, {"s3_bucket_name"}) \oplus Outputs(i, {"recorder_name"}, {recorder})
XRay(i, g) ==
  LET tracing(service, input) == If(Has(g, service \o "_tracing"), Identity(<<"xray_tracing">>) \cup Vars({input})) IN
  Plain(i, "aws_xray_group", {}, tracing("lambda", "xray_lambda_functions") \cup tracing("ecs", "xray_ecs_clusters"),
        {"group_arn", "group_name"})
ManagedPrometheus(i) ==
  Plain(i, "aws_prometheus_workspace", {}, {}, {"workspace_id", "workspace_arn", "prometheus_endpoint"})
ManagedGrafana(i, g) ==
  Plain(i, "aws_grafana_workspace", {},
        If(Has(g, "managed_data_sources"), Labelled({"aws_iam_role", "aws_iam_role_policy"}, <<i, "data_sources">>)),
        {"workspace_id", "workspace_endpoint"})
FaultInjection(i, g) ==
  LET experiment == <<"aws_fis_experiment_template", i>>  identity == Identity(<<"experiment">>) IN
  Block(i, experiment,
        Vars({"action_name", "role_arn"})
        \cup {<<"aws_iam_role_policy", "fis_" \o s>> : s \in {x \in {"ec2", "ecs", "eks"} : Has(g, "targets_" \o x)}}
        \cup If(Has(g, "targets_ec2"), {<<"local", "fis_ec2_arns">>} \cup Vars({"fis_ec2_action", "fis_ec2_targets"}))
        \cup If(Has(g, "targets_ecs"), Vars({"fis_ecs_selection", "fis_ecs_service"}))
        \cup If(Has(g, "targets_eks"), Vars({"fis_eks_cluster", "fis_eks_pods"})))
  \oplus Each(identity, LAMBDA a : Block(i, a, {}))
  \oplus Variables(i, {"action_name", "role_arn"})
  \oplus Out(i, <<"template_id">>, {experiment}) \oplus Out(i, <<"template_arn">>, {experiment} \cup identity)
SystemsManager(i) ==
  Plain(i, "aws_ssm_document", {}, {}, {"document_arn", "document_name"})
  \oplus Variables(i, {"document_type"}) \oplus Out(i, <<"document_type">>, Vars({"document_type"}))

(* An organization delegates administration; a delegate runs as the delegate. *)
Organizations(i, g) ==
  Plain(i, "aws_organizations_organization", {}, {}, {"organization_id", "organization_arn"})
  \oplus When(\E mark \in g.marks : mark[1] = "delegates",
              Out(i, <<"delegation_context">>, {<<"aws_organizations_organization", i>>}))
Delegated(g) == If(Has(g, "organization_delegation"), {<<"data.aws_caller_identity", "organization_delegation">>})
FirewallManager(i, g) ==
  Plain(i, "aws_fms_admin_account", {},
        Delegated(g) \cup If(Has(g, "organization_delegation"),
                             Identity(<<"organization_delegation">>) \cup Settings(g, {"delegated_admin_account_id", "organization_context"})),
        {"administrator_account_id"})
Inspector(i, g) == Plain(i, "aws_inspector2_enabler", {}, Delegated(g), {"enabler_id"})
GuardDuty(i) == Plain(i, "aws_guardduty_detector", {}, {}, {"detector_id"})
SecurityHub(i) == Plain(i, "aws_securityhub_account", {}, {}, {"security_hub_arn"})
Macie(i) == Plain(i, "aws_macie2_account", {}, {}, {"macie_account_id"})
-----------------------------------------------------------------------------
(* GENERATOR_REGISTRY. *)
Unmarked == {"vpc", "subnet", "security-group", "route-table", "internet-gateway", "nat-gateway",
             "transit-gateway", "network-firewall", "target-group", "load-balancer",
             "global-accelerator", "route53", "waf", "private-certificate-authority", "rds",
             "redshift", "neptune", "documentdb", "keyspaces", "timestream", "elasticache",
             "elasticache-serverless", "opensearch", "lake-formation", "athena", "datasync", "kinesis",
             "msk", "mq", "cognito", "ecr", "codecommit", "kms", "managed-prometheus",
             "systems-manager", "guardduty", "security-hub", "macie", "ec2-auto-scaling",
             "ec2-launch-template"}
UnmarkedModule(service, i) ==
  CASE service = "vpc" -> Vpc(i) [] service = "subnet" -> Subnet(i)
    [] service = "security-group" -> SecurityGroup(i) [] service = "route-table" -> RouteTable(i)
    [] service = "internet-gateway" -> InternetGateway(i) [] service = "nat-gateway" -> NatGateway(i)
    [] service = "transit-gateway" -> TransitGateway(i)
    [] service = "network-firewall" -> NetworkFirewall(i) [] service = "target-group" -> TargetGroup(i)
    [] service = "load-balancer" -> LoadBalancer(i)
    [] service = "global-accelerator" -> GlobalAccelerator(i) [] service = "route53" -> Route53(i)
    [] service = "waf" -> Waf(i)
    [] service = "private-certificate-authority" -> PrivateCertificateAuthority(i)
    [] service = "rds" -> Rds(i) [] service = "redshift" -> Redshift(i) [] service = "neptune" -> Neptune(i)
    [] service = "documentdb" -> DocumentDb(i) [] service = "keyspaces" -> Keyspaces(i)
    [] service = "timestream" -> Timestream(i) [] service = "elasticache" -> ElastiCache(i)
    [] service = "elasticache-serverless" -> ElastiCacheServerless(i)
    [] service = "opensearch" -> OpenSearch(i) [] service = "lake-formation" -> LakeFormation(i)
    [] service = "athena" -> Athena(i) [] service = "datasync" -> DataSyncTask(i)
    [] service = "kinesis" -> Kinesis(i) [] service = "msk" -> Msk(i) [] service = "mq" -> Mq(i)
    [] service = "cognito" -> Cognito(i) [] service = "ecr" -> Ecr(i)
    [] service = "codecommit" -> CodeCommit(i) [] service = "kms" -> Kms(i)
    [] service = "managed-prometheus" -> ManagedPrometheus(i)
    [] service = "systems-manager" -> SystemsManager(i) [] service = "guardduty" -> GuardDuty(i)
    [] service = "security-hub" -> SecurityHub(i) [] service = "macie" -> Macie(i)
    [] service = "ec2-auto-scaling" -> Ec2AutoScaling(i)
    [] service = "ec2-launch-template" -> Ec2LaunchTemplate(i)
MarkedModule(service, i, g) ==
  CASE service = "cloudfront" -> CloudFront(i, g) [] service = "client-vpn" -> ClientVpn(i, g)
    [] service = "certificate-manager" -> CertificateManager(i, g) [] service = "s3" -> S3(i, g)
    [] service = "dynamodb" -> DynamoDb(i, g) [] service = "ebs" -> Ebs(i, g)
    [] service = "efs" -> Efs(i, g) [] service = "aurora" -> Aurora(i, g)
    [] service = "memorydb" -> MemoryDb(i, g)
    [] service = "database-migration-service" -> MigrationService(i, g)
    [] service = "datazone" -> DataZone(i, g)
    [] service = "datasync-s3-location" -> DataSyncS3Location(i, g) [] service = "backup" -> Backup(i, g)
    [] service = "comprehend" -> Comprehend(i, g) [] service = "sqs" -> Sqs(i, g)
    [] service = "sns" -> Sns(i, g) [] service = "kinesis-firehose" -> KinesisFirehose(i, g)
    [] service = "eventbridge" -> EventBridge(i, g) [] service = "step-functions" -> StepFunctions(i, g)
    [] service = "api-gateway" -> ApiGatewayModule(i, g) [] service = "appsync" -> AppSync(i, g)
    [] service = "codeartifact" -> CodeArtifact(i, g) [] service = "codebuild" -> CodeBuild(i, g)
    [] service = "codepipeline" -> CodePipeline(i, g) [] service = "secrets-manager" -> SecretsManager(i, g)
    [] service = "cloudwatch" -> CloudWatch(i, g) [] service = "cloudtrail" -> CloudTrail(i, g)
    [] service = "aws-config" -> AwsConfig(i, g) [] service = "x-ray" -> XRay(i, g)
    [] service = "managed-grafana" -> ManagedGrafana(i, g)
    [] service = "fault-injection-simulator" -> FaultInjection(i, g)
    [] service = "organizations" -> Organizations(i, g)
    [] service = "firewall-manager" -> FirewallManager(i, g) [] service = "inspector" -> Inspector(i, g)
    [] service = "lambda" -> Lambda(i, g) [] service = "ecs" -> Ecs(i, g) [] service = "eks" -> Eks(i, g)
    [] service = "ec2" -> Ec2(i, g) [] service = "batch" -> Batch(i, g)
    [] service = "batch-job-definition" -> BatchJobDefinition(i, g)
    [] service = "app-runner" -> AppRunner(i, g) [] service = "mwaa" -> Mwaa(i, g)
ServiceModule(service, i, g) ==
  IF service \in Unmarked THEN UnmarkedModule(service, i) ELSE MarkedModule(service, i, g)
=============================================================================
