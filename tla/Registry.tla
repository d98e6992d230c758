------------------------------- MODULE Registry -------------------------------
(* The connections the generator knows: which handler wires which kind, which   *)
(* type a connection has that names none or an old one, and which may cross     *)
(* regions. The entries stand in the order of registry.py.                      *)
EXTENDS Integers, FiniteSets

Specs(sources, targets, types, handler) ==
  {[kind |-> kind, handler |-> handler] : kind \in sources \X targets \X types}

Registry1 ==
  Specs({"ecr"}, {"eks"}, {"runs_image"}, "EcrEks")
  \cup Specs({"ecr"}, {"ecs"}, {"runs_image"}, "EcrEcs")
  \cup Specs({"codeartifact"}, {"codebuild"}, {"reads_packages"}, "CodeArtifactBuild")
  \cup Specs({"codecommit"}, {"codepipeline"}, {"sources_from"}, "CodeCommitPipeline")
  \cup Specs({"codecommit"}, {"codebuild"}, {"builds_from"}, "CodeCommitBuild")
  \cup Specs({"organizations"}, {"firewall-manager", "guardduty", "inspector", "macie",
            "security-hub"}, {"delegates_admin"}, "OrganizationDelegation")
  \cup Specs({"systems-manager"}, {"ec2"}, {"associates"}, "SsmEc2")
  \cup Specs({"private-certificate-authority"}, {"certificate-manager"}, {"issues_certificate"},
            "PrivateCertificate")
  \cup Specs({"cognito"}, {"load-balancer"}, {"authenticates"}, "CognitoLoadBalancer")
  \cup Specs({"cognito"}, {"api-gateway"}, {"authenticates"}, "CognitoApiGateway")
  \cup Specs({"cognito"}, {"appsync"}, {"authenticates"}, "CognitoAppSync")
  \cup Specs({"appsync"}, {"aurora"}, {"resolves_with"}, "AppSyncAurora")
  \cup Specs({"appsync"}, {"dynamodb"}, {"resolves_with"}, "AppSyncDynamoDb")
  \cup Specs({"appsync"}, {"lambda"}, {"resolves_with"}, "AppSyncLambda")
  \cup Specs({"appsync"}, {"opensearch"}, {"resolves_with"}, "AppSyncOpenSearch")
  \cup Specs({"appsync"}, {"eventbridge"}, {"resolves_with"}, "AppSyncEventBridge")
  \cup Specs({"fault-injection-simulator"}, {"ec2"}, {"targets"}, "FisEc2")
  \cup Specs({"fault-injection-simulator"}, {"ecs"}, {"targets"}, "FisEcs")

Registry2 ==
  Specs({"fault-injection-simulator"}, {"eks"}, {"targets"}, "FisEks")
  \cup Specs({"eventbridge"}, {"systems-manager"}, {"targets"}, "EventBridgeSsm")
  \cup Specs({"eventbridge"}, {"codebuild"}, {"targets"}, "EventBridgeCodeBuild")
  \cup Specs({"eventbridge"}, {"batch"}, {"targets"}, "EventBridgeBatch")
  \cup Specs({"eventbridge"}, {"ecs"}, {"targets"}, "EventBridgeEcs")
  \cup Specs({"eventbridge"}, {"api-gateway"}, {"targets"}, "EventBridgeApiGateway")
  \cup Specs({"eventbridge"}, {"kinesis"}, {"targets"}, "EventBridgeKinesis")
  \cup Specs({"eventbridge"}, {"sns"}, {"targets"}, "EventBridgeSNS")
  \cup Specs({"eventbridge"}, {"step-functions"}, {"targets"}, "EventBridgeWorkflow")
  \cup Specs({"lambda"}, {"sns", "sqs"}, {"dead_letters_to"}, "LambdaDeadLetter")
  \cup Specs({"sqs"}, {"sqs"}, {"dead_letters_to"}, "SQSDeadLetter")
  \cup Specs({"sqs"}, {"ecs"}, {"consumed_by"}, "SQSECS")
  \cup Specs({"ecs", "lambda"}, {"elasticache-serverless"}, {"authenticates_to"},
            "ServerlessCacheIam")
  \cup Specs({"database-migration-service"}, {"aurora", "rds"}, {"replication_task"},
            "DmsReplicationTask")
  \cup Specs({"database-migration-service"}, {"aurora", "rds"},
            {"source_endpoint", "target_endpoint"}, "DmsDatabaseEndpoint")

Registry3 ==
  Specs({"database-migration-service"}, {"aurora", "rds"},
            {"source_secret_endpoint", "target_secret_endpoint"}, "DmsSecretEndpoint")
  \cup Specs({"ecs", "lambda"}, {"elasticache"}, {"connects_to"}, "ElastiCacheClient")
  \cup Specs({"ecs", "lambda"}, {"mq"}, {"connects_to"}, "MqClient")
  \cup Specs({"ecs", "lambda"}, {"msk"}, {"reads_from", "writes_to"}, "MskAccess")
  \cup Specs({"ecs", "lambda"}, {"documentdb"}, {"authenticates_to"}, "DocumentDbAccess")
  \cup Specs({"ecs", "lambda"}, {"opensearch"}, {"reads_from", "writes_to"}, "OpenSearchAccess")
  \cup Specs({"ecs", "lambda"}, {"memorydb"}, {"authenticates_to"}, "MemoryDbAccess")
  \cup Specs({"ecs", "lambda"}, {"neptune"}, {"reads_from", "writes_to"}, "NeptuneAccess")
  \cup Specs({"ecs", "lambda"}, {"keyspaces"}, {"reads_from", "writes_to"}, "KeyspacesAccess")
  \cup Specs({"ecs", "lambda"}, {"timestream"}, {"reads_from", "writes_to"}, "TimestreamAccess")

Registry4 ==
  Specs({"ecs", "lambda"}, {"aurora", "rds"}, {"authenticates_to"}, "DatabaseAccess")
  \cup Specs({"ecs", "lambda"}, {"kinesis"}, {"reads_from", "writes_to"}, "KinesisAccess")
  \cup Specs({"efs"}, {"eks"}, {"mounts"}, "EfsEksMount")
  \cup Specs({"efs"}, {"ec2"}, {"mounts"}, "EfsEc2Mount")
  \cup Specs({"efs"}, {"ecs"}, {"mounts"}, "EfsEcsMount")
  \cup Specs({"codepipeline"}, {"s3"}, {"stores_artifacts"}, "CodePipelineS3")
  \cup Specs({"datasync-s3-location"}, {"s3"}, {"uses_bucket"}, "DataSyncS3")
  \cup Specs({"datasync"}, {"datasync-s3-location"}, {"reads_from", "writes_to"},
            "DataSyncLocation")
  \cup Specs({"cloudfront"}, {"s3"}, {"origin"}, "CloudFrontS3")
  \cup Specs({"kinesis-firehose"}, {"s3"}, {"delivers_to"}, "FirehoseS3")
  \cup Specs({"mwaa"}, {"s3"}, {"reads_source"}, "S3ReadSource")
  \cup Specs({"comprehend"}, {"s3"}, {"trains_from"}, "S3ReadSource")
  \cup Specs({"aws-config", "cloudtrail"}, {"s3"}, {"delivers_to"}, "S3LogDelivery")
  \cup Specs({"aws-config"}, {"sns"}, {"notifies"}, "AwsConfigSns")
  \cup Specs({"eks"}, {"managed-prometheus"}, {"sends_metrics"}, "EksPrometheus")

Registry5 ==
  Specs({"ecs"}, {"managed-prometheus"}, {"sends_metrics"}, "EcsPrometheus")
  \cup Specs({"managed-grafana"}, {"athena", "cloudwatch", "managed-prometheus", "opensearch",
            "redshift", "timestream", "x-ray"}, {"queries"}, "GrafanaDataSources")
  \cup Specs({"lambda"}, {"x-ray"}, {"traces_to"}, "LambdaXRay")
  \cup Specs({"ecs"}, {"x-ray"}, {"traces_to"}, "EcsXRay")
  \cup Specs({"s3"}, {"s3"}, {"replicates_to"}, "S3Replication")
  \cup Specs({"athena"}, {"s3"}, {"stores_results"}, "S3Location")
  \cup Specs({"lake-formation"}, {"s3"}, {"registers"}, "LakeFormationS3")
  \cup Specs({"backup"}, {"aurora", "dynamodb", "ebs", "efs", "rds"}, {"backs_up"},
            "BackupSelection")
  \cup Specs({"efs"}, {"lambda"}, {"mounts"}, "EfsLambdaMount")
  \cup Specs({"ebs"}, {"ec2"}, {"attaches"}, "EbsAttachment")

Registry6 ==
  Specs({"s3"}, {"eventbridge"}, {"delivers_to"}, "S3EventBridge")
  \cup Specs({"s3"}, {"sns", "sqs"}, {"notifies"}, "S3Destination")
  \cup Specs({"app-runner", "batch-job-definition", "codebuild"}, {"secrets-manager"},
            {"injects_secret"}, "EnvironmentSecret")
  \cup Specs({"step-functions"}, {"batch"}, {"submits_job"}, "StepFunctionsBatch")
  \cup Specs({"step-functions"}, {"sns"}, {"publishes"}, "StepFunctionsSns")
  \cup Specs({"step-functions"}, {"sqs"}, {"sends_message"}, "StepFunctionsSqs")
  \cup Specs({"step-functions"}, {"dynamodb"}, {"accesses_item"}, "StepFunctionsDynamoDb")
  \cup Specs({"step-functions"}, {"eventbridge"}, {"puts_event"}, "StepFunctionsEventBridge")
  \cup Specs({"step-functions"}, {"ecs"}, {"runs_task"}, "StepFunctionsEcs")
  \cup Specs({"step-functions"}, {"lambda"}, {"invokes"}, "StepFunctionsLambda")
  \cup Specs({"step-functions"}, {"secrets-manager"}, {"reads_secret"}, "StepFunctionsSecret")
  \cup Specs({"mwaa"}, {"secrets-manager"}, {"reads_secret"}, "MwaaSecret")
  \cup Specs({"ec2-launch-template"}, {"ec2-auto-scaling"}, {"launches"},
            "LaunchTemplateAutoScaling")
  \cup Specs({"ec2"}, {"secrets-manager"}, {"reads_secret"}, "Ec2Secret")
  \cup Specs({"lambda"}, {"secrets-manager"}, {"reads_secret"}, "LambdaSecretAccess")

Registry7 ==
  Specs({"ecs"}, {"secrets-manager"}, {"injects_secret"}, "EcsSecret")
  \cup Specs({"vpc"}, {"internet-gateway", "network-firewall", "route-table", "security-group",
            "subnet", "target-group"}, {"contains"}, "VpcMembership")
  \cup Specs({"vpc"}, {"route53"}, {"contains"}, "Route53VpcAssociation")
  \cup Specs({"subnet"}, {"nat-gateway"}, {"contains"}, "SubnetMembership")
  \cup Specs({"subnet"}, {"route-table"}, {"associates"}, "RouteTableAssociation")
  \cup Specs({"internet-gateway", "nat-gateway", "transit-gateway"}, {"route-table"},
            {"routes"}, "GatewayRoute")
  \cup Specs({"subnet"}, {"ec2"}, {"places"}, "SubnetEC2Placement")
  \cup Specs({"security-group"}, {"ec2"}, {"associates"}, "SecurityGroupEC2Association")
  \cup Specs({"subnet"}, {"client-vpn", "database-migration-service", "ec2-auto-scaling", "ecs",
            "efs", "eks", "elasticache-serverless", "lambda", "load-balancer", "memorydb", "mq",
            "mwaa", "network-firewall"}, {"places"}, "SubnetListPlacement")

Registry8 ==
  Specs({"security-group"}, {"client-vpn", "database-migration-service", "ec2-launch-template",
            "ecs", "efs", "eks", "elasticache-serverless", "lambda", "load-balancer",
            "memorydb", "mq", "mwaa"}, {"associates"}, "SecurityGroupListAssociation")
  \cup Specs({"kms"}, {"backup", "cloudtrail", "cloudwatch", "codeartifact", "datazone",
            "dynamodb", "ebs", "efs", "lambda", "s3", "secrets-manager", "sns", "sqs"},
            {"encrypts"}, "KmsEncryption")
  \cup Specs({"certificate-manager"}, {"load-balancer"}, {"secures"}, "CertificateLoadBalancer")
  \cup Specs({"route53"}, {"certificate-manager"}, {"validates_certificate"}, "CertificateDns")
  \cup Specs({"certificate-manager"}, {"cloudfront"}, {"secures"}, "CertificateCloudFront")
  \cup Specs({"certificate-manager"}, {"client-vpn"}, {"secures"}, "ClientVpnCertificate")
  \cup Specs({"certificate-manager"}, {"api-gateway"}, {"secures"}, "ApiGatewayCertificate")
  \cup Specs({"waf"}, {"load-balancer"}, {"protects"}, "WafLoadBalancer")
  \cup Specs({"waf"}, {"cloudfront"}, {"protects"}, "WafCloudFront")
  \cup Specs({"route53"}, {"cloudfront", "global-accelerator", "load-balancer"}, {"aliases"},
            "DnsAlias")
  \cup Specs({"global-accelerator"}, {"load-balancer"}, {"accelerates"},
            "AcceleratorLoadBalancer")
  \cup Specs({"load-balancer"}, {"target-group"}, {"forwards_to"}, "LoadBalancerTargetGroup")
  \cup Specs({"target-group"}, {"ec2"}, {"attaches"}, "TargetGroupEC2Attachment")

Registry9 ==
  Specs({"target-group"}, {"ecs"}, {"serves"}, "TargetGroupECS")
  \cup Specs({"target-group"}, {"lambda"}, {"attaches"}, "TargetGroupLambdaAttachment")
  \cup Specs({"target-group"}, {"ec2-auto-scaling"}, {"attaches"}, "TargetGroupPlacement")
  \cup Specs({"api-gateway"}, {"step-functions"}, {"starts_execution"}, "ApiGatewayStepFunctions")
  \cup Specs({"api-gateway"}, {"lambda"}, {"route_handler", "authorizer"}, "ApiGatewayLambda")
  \cup Specs({"lambda"}, {"dynamodb", "s3"}, {"accesses"}, "IamGrant")
  \cup Specs({"lambda"}, {"sns"}, {"publishes_to"}, "IamGrant")
  \cup Specs({"lambda"}, {"sqs"}, {"sends_to"}, "IamGrant")
  \cup Specs({"lambda"}, {"cloudwatch"}, {"logs_to"}, "LambdaCloudWatch")
  \cup Specs({"api-gateway"}, {"cloudwatch"}, {"logs_to"}, "ApiGatewayLogs")
  \cup Specs({"cloudtrail"}, {"cloudwatch"}, {"logs_to"}, "CloudTrailLogs")
  \cup Specs({"ecs"}, {"cloudwatch"}, {"logs_to"}, "EcsLogs")
  \cup Specs({"eks"}, {"cloudwatch"}, {"logs_to"}, "EksLogs")
  \cup Specs({"step-functions"}, {"cloudwatch"}, {"logs_to"}, "StepFunctionsLogs")
  \cup Specs({"codebuild"}, {"cloudwatch"}, {"logs_to"}, "CodeBuildLogs")

Registry10 ==
  Specs({"s3"}, {"lambda"}, {"notifies"}, "S3Lambda")
  \cup Specs({"dynamodb"}, {"lambda"}, {"streams_to"}, "DynamoDBLambda")
  \cup Specs({"ecs"}, {"dynamodb", "s3"}, {"accesses"}, "IamGrant")
  \cup Specs({"eventbridge"}, {"lambda"}, {"targets"}, "EventBridgeLambda")
  \cup Specs({"eventbridge"}, {"sqs"}, {"targets"}, "EventBridgeSQS")
  \cup Specs({"sqs"}, {"lambda"}, {"triggers"}, "SQSLambda")
  \cup Specs({"sns"}, {"kinesis-firehose"}, {"delivers_to"}, "SnsFirehose")
  \cup Specs({"sns"}, {"sqs"}, {"delivers_to"}, "SNSSQS")
  \cup Specs({"sns"}, {"lambda"}, {"triggers"}, "SNSLambda")
-----------------------------------------------------------------------------
ConnectionSpecs == Registry1 \cup Registry2 \cup Registry3 \cup Registry4 \cup Registry5
                   \cup Registry6 \cup Registry7 \cup Registry8 \cup Registry9 \cup Registry10
ConnectionKinds == {spec.kind : spec \in ConnectionSpecs}
HandlerOf == [kind \in ConnectionKinds |-> (CHOOSE spec \in ConnectionSpecs : spec.kind = kind).handler]
Compatible == {<<kind[1], kind[2]>> : kind \in ConnectionKinds}

(* is_default=False: never chosen for a connection that names no type. *)
NotDefault ==
  {"lambda"} \X {"sqs", "sns"} \X {"dead_letters_to"}
  \cup {"database-migration-service"} \X {"rds", "aurora"}
       \X {"replication_task", "target_endpoint", "source_secret_endpoint", "target_secret_endpoint"}
  \cup {"lambda", "ecs"} \X {"msk", "opensearch", "neptune", "keyspaces", "timestream", "kinesis"} \X {"writes_to"}
  \cup {"datasync"} \X {"datasync-s3-location"} \X {"writes_to"}
  \cup {"api-gateway"} \X {"lambda"} \X {"authorizer"}

(* region_policy: these may join resources of different regions. *)
CrossRegion ==
  LET clients == {"elasticache", "mq", "msk", "documentdb", "opensearch", "memorydb", "neptune",
                  "keyspaces", "timestream", "rds", "aurora", "kinesis"} IN
  {kind \in ConnectionKinds :
     \/ kind[1] \in {"organizations", "database-migration-service", "managed-grafana"}
     \/ kind[1] = "cognito" /\ kind[2] # "load-balancer"
     \/ kind[1] \in {"lambda", "ecs"} /\ kind[2] \in clients
     \/ kind[1] \in {"lambda", "ecs"} /\ kind[3] \in {"accesses", "publishes_to", "sends_to"}
     \/ kind \in {<<"cloudfront", "s3", "origin">>, <<"cloudtrail", "s3", "delivers_to">>,
                  <<"aws-config", "s3", "delivers_to">>, <<"s3", "s3", "replicates_to">>,
                  <<"sns", "sqs", "delivers_to">>, <<"certificate-manager", "cloudfront", "secures">>,
                  <<"route53", "certificate-manager", "validates_certificate">>}}

(* Fault: a role the settings carry is taken without being looked up. *)
ResolveSpecTrusting(source, target, type, role) ==
  LET candidates == {kind \in ConnectionKinds : kind[1] = source /\ kind[2] = target}
      defaults == candidates \ NotDefault IN
  IF <<source, target, type>> \in candidates THEN type
  ELSE IF role # "" THEN role
  ELSE IF Cardinality(candidates) = 1 THEN (CHOOSE kind \in candidates : TRUE)[3]
  ELSE IF defaults # {} THEN (CHOOSE kind \in defaults : TRUE)[3] ELSE "none"

(* resolve_spec: the type it names, else the role its settings carry, else the *)
(* only kind of its ends, else their default; "none" when there is none.       *)
ResolveSpec(source, target, type, role) ==
  LET candidates == {kind \in ConnectionKinds : kind[1] = source /\ kind[2] = target}
      defaults == candidates \ NotDefault
      Named(name) == <<source, target, name>> \in candidates IN
  IF Named(type) THEN type
  ELSE IF Named(role) THEN role
  ELSE IF Cardinality(candidates) = 1 THEN (CHOOSE kind \in candidates : TRUE)[3]
  ELSE IF defaults # {} THEN (CHOOSE kind \in defaults : TRUE)[3] ELSE "none"
=============================================================================
