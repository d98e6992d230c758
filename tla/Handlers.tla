------------------------------- MODULE Handlers -------------------------------
(* All connection handlers, and which of them handles a connection.            *)
EXTENDS Registry, CodeHandlers, MountHandlers, CertificateHandlers, PlacementHandlers, FaultHandlers,
        ClientHandlers, MigrationHandlers, GrafanaHandlers, CollectionHandlers

(* spec.handler.handle(connection, project). *)
HandleWith(handler, c, P) ==
  CASE handler = "EcrEks" -> EcrEks(c, P) [] handler = "EcrEcs" -> EcrEcs(c, P)
    [] handler = "CodeArtifactBuild" -> CodeArtifactBuild(c, P)
    [] handler = "CodeCommitPipeline" -> CodeCommitPipeline(c, P)
    [] handler = "CodeCommitBuild" -> CodeCommitBuild(c, P)
    [] handler = "OrganizationDelegation" -> OrganizationDelegation(c, P)
    [] handler = "SsmEc2" -> SsmEc2(c, P)
    [] handler = "PrivateCertificate" -> PrivateCertificate(c, P)
    [] handler = "CognitoLoadBalancer" -> CognitoLoadBalancer(c, P)
    [] handler = "CognitoApiGateway" -> CognitoApiGateway(c, P)
    [] handler = "CognitoAppSync" -> CognitoAppSync(c, P)
    [] handler = "AppSyncAurora" -> AppSyncAurora(c, P)
    [] handler = "AppSyncDynamoDb" -> AppSyncDynamoDb(c, P)
    [] handler = "AppSyncLambda" -> AppSyncLambda(c, P)
    [] handler = "AppSyncOpenSearch" -> AppSyncOpenSearch(c, P)
    [] handler = "AppSyncEventBridge" -> AppSyncEventBridge(c, P)
    [] handler = "FisEc2" -> FisEc2(c, P) [] handler = "FisEcs" -> FisEcs(c, P)
    [] handler = "FisEks" -> FisEks(c, P) [] handler = "EventBridgeSsm" -> EventBridgeSsm(c, P)
    [] handler = "EventBridgeCodeBuild" -> EventBridgeCodeBuild(c, P)
    [] handler = "EventBridgeBatch" -> EventBridgeBatch(c, P)
    [] handler = "EventBridgeEcs" -> EventBridgeEcs(c, P)
    [] handler = "EventBridgeApiGateway" -> EventBridgeApiGateway(c, P)
    [] handler = "EventBridgeKinesis" -> EventBridgeKinesis(c, P)
    [] handler = "EventBridgeSNS" -> EventBridgeSNS(c, P)
    [] handler = "EventBridgeWorkflow" -> EventBridgeWorkflow(c, P)
    [] handler = "LambdaDeadLetter" -> LambdaDeadLetter(c, P)
    [] handler = "SQSDeadLetter" -> SQSDeadLetter(c, P) [] handler = "SQSECS" -> SQSECS(c, P)
    [] handler = "ServerlessCacheIam" -> ServerlessCacheIam(c)
    [] handler = "DmsReplicationTask" -> DmsReplicationTask(c, P)
    [] handler = "DmsDatabaseEndpoint" -> DmsDatabaseEndpoint(c, P)
    [] handler = "DmsSecretEndpoint" -> DmsSecretEndpoint(c, P)
    [] handler = "ElastiCacheClient" -> ElastiCacheClient(c)
    [] handler = "MqClient" -> MqClient(c) [] handler = "MskAccess" -> MskAccess(c)
    [] handler = "DocumentDbAccess" -> DocumentDbAccess(c)
    [] handler = "OpenSearchAccess" -> OpenSearchAccess(c)
    [] handler = "MemoryDbAccess" -> MemoryDbAccess(c)
    [] handler = "NeptuneAccess" -> NeptuneAccess(c)
    [] handler = "KeyspacesAccess" -> KeyspacesAccess(c)
    [] handler = "TimestreamAccess" -> TimestreamAccess(c)
    [] handler = "DatabaseAccess" -> DatabaseAccess(c)
    [] handler = "KinesisAccess" -> KinesisAccess(c)
    [] handler = "EfsEksMount" -> EfsEksMount(c, P)
    [] handler = "EfsEc2Mount" -> EfsEc2Mount(c, P)
    [] handler = "EfsEcsMount" -> EfsEcsMount(c, P)
    [] handler = "CodePipelineS3" -> CodePipelineS3(c, P)
    [] handler = "DataSyncS3" -> DataSyncS3(c, P)
    [] handler = "DataSyncLocation" -> DataSyncLocation(c, P)
    [] handler = "CloudFrontS3" -> CloudFrontS3(c, P)
    [] handler = "FirehoseS3" -> FirehoseS3(c, P)
    [] handler = "S3ReadSource" -> S3ReadSource(c, P)
    [] handler = "S3LogDelivery" -> S3LogDelivery(c, P)
    [] handler = "AwsConfigSns" -> AwsConfigSns(c, P)
    [] handler = "EksPrometheus" -> EksPrometheus(c, P)
    [] handler = "EcsPrometheus" -> EcsPrometheus(c, P)
    [] handler = "GrafanaDataSources" -> GrafanaDataSources(c, P)
    [] handler = "LambdaXRay" -> LambdaXRay(c, P) [] handler = "EcsXRay" -> EcsXRay(c, P)
    [] handler = "S3Replication" -> S3Replication(c, P)
    [] handler = "S3Location" -> S3Location(c, P)
    [] handler = "LakeFormationS3" -> LakeFormationS3(c, P)
    [] handler = "BackupSelection" -> BackupSelection(c)
    [] handler = "EfsLambdaMount" -> EfsLambdaMount(c, P)
    [] handler = "EbsAttachment" -> EbsAttachment(c, P)
    [] handler = "S3EventBridge" -> S3EventBridge(c, P)
    [] handler = "S3Destination" -> S3Destination(c, P)
    [] handler = "EnvironmentSecret" -> EnvironmentSecret(c, P)
    [] handler = "StepFunctionsBatch" -> StepFunctionsBatch(c, P)
    [] handler = "StepFunctionsSns" -> StepFunctionsSns(c, P)
    [] handler = "StepFunctionsSqs" -> StepFunctionsSqs(c, P)
    [] handler = "StepFunctionsDynamoDb" -> StepFunctionsDynamoDb(c, P)
    [] handler = "StepFunctionsEventBridge" -> StepFunctionsEventBridge(c, P)
    [] handler = "StepFunctionsEcs" -> StepFunctionsEcs(c, P)
    [] handler = "StepFunctionsLambda" -> StepFunctionsLambda(c, P)
    [] handler = "StepFunctionsSecret" -> StepFunctionsSecret(c, P)
    [] handler = "MwaaSecret" -> MwaaSecret(c, P)
    [] handler = "LaunchTemplateAutoScaling" -> LaunchTemplateAutoScaling(c, P)
    [] handler = "Ec2Secret" -> Ec2Secret(c, P)
    [] handler = "LambdaSecretAccess" -> LambdaSecretAccess(c, P)
    [] handler = "EcsSecret" -> EcsSecret(c, P) [] handler = "VpcMembership" -> VpcMembership(c)
    [] handler = "Route53VpcAssociation" -> Route53VpcAssociation(c)
    [] handler = "SubnetMembership" -> SubnetMembership(c)
    [] handler = "RouteTableAssociation" -> RouteTableAssociation(c)
    [] handler = "GatewayRoute" -> GatewayRoute(c)
    [] handler = "SubnetEC2Placement" -> SubnetEC2Placement(c)
    [] handler = "SecurityGroupEC2Association" -> SecurityGroupEC2Association(c, P)
    [] handler = "SubnetListPlacement" -> SubnetListPlacement(c, P)
    [] handler = "SecurityGroupListAssociation" -> SecurityGroupListAssociation(c, P)
    [] handler = "KmsEncryption" -> KmsEncryption(c, P)
    [] handler = "CertificateLoadBalancer" -> CertificateLoadBalancer(c)
    [] handler = "CertificateDns" -> CertificateDns(c, P)
    [] handler = "CertificateCloudFront" -> CertificateCloudFront(c)
    [] handler = "ClientVpnCertificate" -> ClientVpnCertificate(c, P)
    [] handler = "ApiGatewayCertificate" -> ApiGatewayCertificate(c, P)
    [] handler = "WafLoadBalancer" -> WafLoadBalancer(c)
    [] handler = "WafCloudFront" -> WafCloudFront(c) [] handler = "DnsAlias" -> DnsAlias(c)
    [] handler = "AcceleratorLoadBalancer" -> AcceleratorLoadBalancer(c)
    [] handler = "LoadBalancerTargetGroup" -> LoadBalancerTargetGroup(c, P)
    [] handler = "TargetGroupEC2Attachment" -> TargetGroupEC2Attachment(c)
    [] handler = "TargetGroupECS" -> TargetGroupECS(c, P)
    [] handler = "TargetGroupLambdaAttachment" -> TargetGroupLambdaAttachment(c)
    [] handler = "TargetGroupPlacement" -> TargetGroupPlacement(c, P)
    [] handler = "ApiGatewayStepFunctions" -> ApiGatewayStepFunctions(c, P)
    [] handler = "ApiGatewayLambda" -> ApiGatewayLambda(c, P)
    [] handler = "IamGrant" -> IamGrant(c, P)
    [] handler = "LambdaCloudWatch" -> LambdaCloudWatch(c, P)
    [] handler = "ApiGatewayLogs" -> ApiGatewayLogs(c, P)
    [] handler = "CloudTrailLogs" -> CloudTrailLogs(c, P)
    [] handler = "EcsLogs" -> EcsLogs(c, P) [] handler = "EksLogs" -> EksLogs(c, P)
    [] handler = "StepFunctionsLogs" -> StepFunctionsLogs(c, P)
    [] handler = "CodeBuildLogs" -> CodeBuildLogs(c, P)
    [] handler = "S3Lambda" -> S3Lambda(c, P) [] handler = "DynamoDBLambda" -> DynamoDBLambda(c)
    [] handler = "EventBridgeLambda" -> EventBridgeLambda(c)
    [] handler = "EventBridgeSQS" -> EventBridgeSQS(c, P)
    [] handler = "SQSLambda" -> SQSLambda(c, P) [] handler = "SnsFirehose" -> SnsFirehose(c)
    [] handler = "SNSSQS" -> SNSSQS(c, P) [] handler = "SNSLambda" -> SNSLambda(c)
Handle(c, P) == HandleWith(HandlerOf[c.kind], c, P)
=============================================================================
