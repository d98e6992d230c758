--------------------------- MODULE BucketHandlers ---------------------------
(* The handlers around buckets, topics and queues: delivery and origin       *)
(* policies, event notifications, audit trails and backup selections. What a *)
(* policy admits is computed from the whole project by every connection that *)
(* touches it, so the same file is contributed more than once.               *)
EXTENDS KeyHandlers

Audit == {<<"cloudtrail", "s3", "delivers_to">>, <<"aws-config", "s3", "delivers_to">>}
Origin == <<"cloudfront", "s3", "origin">>
Notifies == {<<"s3", t, "notifies">> : t \in {"lambda", "sns", "sqs"}}
BucketEvents == <<"s3", "eventbridge", "delivers_to">>
ConfigNotifies == <<"aws-config", "sns", "notifies">>

OfAny(kinds, P) == UNION {Of(kind, P) : kind \in kinds}
-----------------------------------------------------------------------------
(* S3AuditPolicy: an audit service delivers to one bucket. *)
AuditRefuses(P) ==
  \E d, e \in OfAny(Audit, P) : d.source = e.source /\ d.target # e.target

AuditPolicy(bucket, P) ==
  LET sources(service) == {d.source : d \in {e \in OfAny(Audit, P) : e.target = bucket /\ e.kind[1] = service}}
      account(x) == <<"delivery", x, "account">>
      trail(x) == <<"delivery", x, "trail_arn">>
      admits(x) ==
        File(x, <<"delivery_identity">>, {<<"data.aws_caller_identity", "delivery">>}, {})
        \oplus Out(x, <<"delivery_account_id">>, {<<"data.aws_caller_identity", "delivery">>})
        \oplus In(bucket, account(x), {<<x, "delivery_account_id">>})
        \oplus In(x, <<"s3_bucket_name">>, {<<bucket, "delivery_bucket_name">>}) IN
  [uses |-> {V(account(x)) : x \in sources("cloudtrail") \cup sources("aws-config")}
            \cup {V(trail(x)) : x \in sources("cloudtrail")},
   adds |-> Each(sources("cloudtrail") \cup sources("aws-config"), LAMBDA x : admits(x) \oplus Mark(x, "delivers"))
            \oplus Each(sources("cloudtrail"), LAMBDA x :
                     ServiceIdentity("cloudtrail", x) \oplus In(bucket, trail(x), {<<x, "encryption_trail_arn">>}))]

OriginPolicy(bucket, P) ==
  LET sources == {d.source : d \in {e \in Of(Origin, P) : e.target = bucket}}
      arn(x) == <<"origin", x, "arn">> IN
  [uses |-> {V(arn(x)) : x \in sources},
   adds |-> Each(sources, LAMBDA x : In(bucket, arn(x), {<<x, "distribution_arn">>}))]

S3BucketPolicy(bucket, P) ==
  LET policy == <<"aws_s3_bucket_policy", bucket, "delivery">>
      audit == AuditPolicy(bucket, P)  origin == OriginPolicy(bucket, P) IN
  Unless(AuditRefuses(P),
    audit.adds \oplus origin.adds
    \oplus File(bucket, <<"bucket_policy">>, {policy}, {<<"aws_s3_bucket", bucket>>} \cup audit.uses \cup origin.uses)
    \oplus Out(bucket, <<"delivery_bucket_name">>, {<<"aws_s3_bucket", bucket>>, policy}))

S3LogDelivery(c, P) == S3BucketPolicy(c.target, P)

CloudFrontS3(c, P) ==
  Unless(Cardinality({d.target : d \in OutOf(c, P)}) # 1,
    Mark(c.source, "s3_origin") \oplus S3BucketPolicy(c.target, P)
    \oplus In(c.source, <<"origin_domain_name">>, {<<c.target, "bucket_regional_domain_name">>})
    \oplus Out(c.target, <<"bucket_regional_domain_name">>, {<<"aws_s3_bucket", c.target>>})
    \oplus File(c.source, <<"origin_access">>, {<<"aws_cloudfront_origin_access_control", "s3">>}, {}))
-----------------------------------------------------------------------------
(* Bucket notifications: one resource per bucket holds them all; the slot of  *)
(* a notification is its events and filters, which may not overlap.           *)

S3Notifications(bucket, P) ==
  LET peers == {d \in OfAny(Notifies, P) : d.source = bucket}
      arn(d) == V(<<Safe[d.target], IF d.kind[2] = "lambda" THEN "function_arn" ELSE "notification_arn">>)
      permissions == {<<"aws_lambda_permission", Safe[d.target], "permission">> : d \in {e \in peers : e.kind[2] = "lambda"}} IN
  Unless(Clash(peers),
    File(bucket, <<"notifications">>, {<<"aws_s3_bucket_notification", Safe[bucket], "notification">>},
         {<<"aws_s3_bucket", bucket>>} \cup {arn(d) : d \in peers} \cup permissions))

S3Lambda(c, P) ==
  LET f == c.target IN
  Out(f, <<"function_arn">>, {<<"aws_lambda_function", f>>})
  \oplus Out(f, <<"function_name">>, {<<"aws_lambda_function", f>>})
  \oplus Peer(c.source, f, "function_arn", "function_arn")
  \oplus Peer(c.source, f, "function_name", "function_name")
  \oplus File(c.source, <<"permission", f>>, {<<"aws_lambda_permission", Safe[f], "permission">>},
              {<<"aws_s3_bucket", c.source>>, V(<<Safe[f], "function_name">>)})
  \oplus S3Notifications(c.source, P)

(* A rule on the default bus, scoped to the buckets that deliver to it. *)
S3EventBridge(c, P) ==
  Unless(~c.fit,
    Mark(c.target, "event_pattern") \oplus S3Notifications(c.source, P)
    \oplus In(c.target, <<"event_pattern">>, {<<d.source, "bucket_name">> : d \in Into(c, P)}))
-----------------------------------------------------------------------------
(* What a queue admits: the first delivery into it writes the policy for all. *)

Deliveries == {<<"s3", "bucket_arn">>, <<"sns", "topic_arn">>, <<"eventbridge", "rule_arn">>}

QueueDeliveryPolicy(c, P) ==
  LET queue == c.target
      peers == {P[i] : i \in {j \in DOMAIN P : /\ P[j].target = queue /\ P[j].kind[2] = "sqs"
                                               /\ \E s \in Deliveries : P[j].kind[1] = s[1]}}
      from(s) == {d.source : d \in {e \in peers : e.kind[1] = s[1]}}
      used == {s \in Deliveries : from(s) # {}}
      arns(s) == <<"delivery", s[1], "arns">> IN
  Speaks(c, peers,
    Each(used, LAMBDA s : In(queue, arns(s), {<<x, s[2]>> : x \in from(s)}))
    \oplus File(queue, <<"policy_delivery">>, {<<"aws_sqs_queue_policy", "delivery">>},
                {<<"aws_sqs_queue", queue>>} \cup {V(arns(s)) : s \in used}))

(* What a topic admits, from buckets and configuration recorders. *)
TopicPolicy == <<"aws_sns_topic_policy", "s3_delivery">>

TopicDeliveryPolicy(topic, P) ==
  LET buckets == {d.source : d \in {e \in Of(<<"s3", "sns", "notifies">>, P) : e.target = topic}}
      recorders == {d.source : d \in {e \in Of(ConfigNotifies, P) : e.target = topic}}
      from(x, field) == <<"config", x, field>>
      fields == {<<"source_account_id", "notification_source_account_id">>, <<"source_arn", "notification_source_arn">>} IN
  When(buckets # {}, In(topic, <<"notification_bucket_arns">>, {<<b, "bucket_arn">> : b \in buckets}))
  \oplus Each(recorders, LAMBDA x : Each(fields, LAMBDA f : In(topic, from(x, f[1]), {<<x, f[2]>>})))
  \oplus File(topic, <<"policy_s3_delivery">>,
              {TopicPolicy, <<"data.aws_caller_identity", "topic_delivery">>, <<"data.aws_partition", "topic_delivery">>},
              {<<"aws_sns_topic", topic>>} \cup {V(from(x, f[1])) : x \in recorders, f \in fields}
              \cup (IF buckets = {} THEN {} ELSE {V(<<"notification_bucket_arns">>)}))

S3Destination(c, P) ==
  LET queue == c.kind[2] = "sqs"
      resource == <<IF queue THEN "aws_sqs_queue" ELSE "aws_sns_topic", c.target>>
      policy == IF queue THEN <<"aws_sqs_queue_policy", "delivery">> ELSE TopicPolicy IN
  Unless(~c.fit \/ KeyRefused(c.target, P),
    Peer(c.source, c.target, "notification_arn", "s3_notification_arn")
    \oplus Out(c.target, <<"s3_notification_arn">>, {resource, policy})
    \oplus (IF queue THEN QueueDeliveryPolicy(c, P) ELSE TopicDeliveryPolicy(c.target, P))
    \oplus S3Notifications(c.source, P))

(* A recorder notifies one topic, which must not be encrypted. *)
ConfigTopicRefuses(c, P) ==
  \/ Cardinality({d.target : d \in OutOf(c, P)}) > 1
  \/ ~c.fit \/ Remote({c}) \/ ManagedKeys(c.target, P) # {}

AwsConfigSns(c, P) ==
  LET identity == Identity(<<"config_notifications">>) IN
  Unless(ConfigTopicRefuses(c, P),
    Mark(c.source, "sns_notifications")
    \oplus In(c.source, <<"sns_topic_arn">>, {<<c.target, "config_notification_arn">>})
    \oplus Out(c.source, <<"notification_source_account_id">>, {<<"data.aws_caller_identity", "config_notifications">>})
    \oplus Out(c.source, <<"notification_source_arn">>, identity)
    \oplus Out(c.target, <<"config_notification_arn">>, {<<"aws_sns_topic", c.target>>, TopicPolicy})
    \oplus File(c.source, <<"config_notifications">>, identity, {})
    \oplus TopicDeliveryPolicy(c.target, P))

(* Subscriptions of a topic. *)
Subscription(c) == <<"aws_sns_topic_subscription", Safe[c.source], "subscription">>
TopicArn(c) ==
  Out(c.source, <<"arn">>, {<<"aws_sns_topic", c.source>>}) \oplus Peer(c.target, c.source, "topic_arn", "arn")
SubscriptionFile(c, uses) ==
  File(c.target, <<"subscription", c.source>>, {Subscription(c)}, {V(<<Safe[c.source], "topic_arn">>)} \cup uses)

SNSSQS(c, P) ==
  Unless(~c.fit \/ KeyRefused(c.target, P),
    TopicArn(c) \oplus SubscriptionFile(c, {<<"aws_sqs_queue", c.target>>, <<"aws_sqs_queue_policy", "delivery">>})
    \oplus QueueDeliveryPolicy(c, P))

SNSLambda(c) ==
  LET f == <<"aws_lambda_function", c.target>> IN
  TopicArn(c) \oplus SubscriptionFile(c, {f})
  \oplus File(c.target, <<"permission", c.source>>, {<<"aws_lambda_permission", Safe[c.source], "permission">>},
              {f, V(<<Safe[c.source], "topic_arn">>)})
-----------------------------------------------------------------------------
(* A trail's log group: one, in its region; the trail's role may use its key. *)
CheckDestinationRefuses(c, P) ==
  Cardinality({d.target : d \in OutOf(c, P)}) > 1 \/ Remote({c})

CloudTrailLogs(c, P) ==
  LET trail == c.source
      role == <<"aws_iam_role", trail, "cloudwatch_logs">>
      key == [Augment(trail, c.target, P) EXCEPT !.grants = {}] IN
  Unless(CheckDestinationRefuses(c, P),
    Mark(trail, "cloudwatch_logs") \oplus key
    \oplus In(trail, <<"cloud_watch_logs_group_arn">>, {<<c.target, "log_group_arn">>})
    \oplus File(trail, <<"cloudwatch_logs">>,
                {role, <<"aws_iam_role_policy", trail, "cloudwatch_logs">>} \cup Identity(<<"cloudtrail_logs">>),
                {V(<<"cloud_watch_logs_group_arn">>), V(<<"is_multi_region_trail">>)}
                \cup {V(i.name) : i \in key.ins})
    \oplus Out(trail, <<"cloudwatch_logs_role_arn">>, {role}))

BackupOutput(service) ==
  CASE service = "ebs" -> "volume_arn" [] service = "efs" -> "file_system_arn"
    [] service = "rds" -> "db_instance_arn" [] service = "aurora" -> "cluster_arn" [] service = "dynamodb" -> "table_arn"

BackupSelection(c) ==
  LET arn == <<"backup", c.target, "arn">>  role == <<"backup", c.target, "role_arn">> IN
  In(c.source, arn, {<<c.target, BackupOutput(c.kind[2])>>}) \oplus In(c.source, role, {})
  \oplus File(c.source, <<"selection", c.target>>, {<<"aws_backup_selection", "selection", c.target>>},
              {<<"aws_backup_plan", c.source>>, V(arn), V(role)})
=============================================================================
