-------------------------- MODULE TransferHandlers --------------------------
(* The handlers that name a bucket as the source or the destination of data: *)
(* query results, training data, workflows, replicas, transfers, deliveries. *)
EXTENDS BucketHandlers

TransferTargets(peers) == {d.target : d \in peers}
DataSync == {<<"datasync", "datasync-s3-location", t>> : t \in {"reads_from", "writes_to"}}

(* One location for each use of a bucket; the slot is its prefix. *)
ManyLocations(c, P) == Cardinality({<<d.target, d.slot>> : d \in OutOf(c, P)}) # 1

S3Location(c, P) ==
  Unless(ManyLocations(c, P),
    Mark(c.source, "output_location") \oplus In(c.source, <<"output_location">>, {<<c.target, "bucket_name">>}))

LakeFormationS3(c, P) ==
  Unless(~c.fit \/ ManyLocations(c, P),
    Mark(c.source, "resource_arn") \oplus In(c.source, <<"resource_arn">>, {<<c.target, "bucket_arn">>}))

(* What an external role may do with a bucket, and with its key. *)
BucketAccess(c, P, file, policy, key, uses) ==
  LET keys == ManagedKeys(c.target, P) IN
  Unless(KeyRefused(c.target, P),
    Each(keys, LAMBDA k : In(c.source, <<key>>, {<<k, "key_arn">>}))
    \oplus File(c.source, <<file>>, {<<"aws_iam_role_policy", policy>>},
                uses \cup (IF keys = {} THEN {} ELSE {V(<<key>>)})))

(* Input read by a service; a workflow service needs a versioned bucket. *)
Versioned(bucket, output) ==
  In(bucket, <<"versioning_enabled">>, {})
  \oplus Out(bucket, <<output>>, {<<"aws_s3_bucket", bucket>>, <<"aws_s3_bucket_versioning", bucket, "versioning">>})

S3ReadSource(c, P) ==
  LET workflows == c.kind[1] = "mwaa"
      role == V(<<IF workflows THEN "execution_role_arn" ELSE "data_access_role_arn">>) IN
  Unless(~c.fit \/ ManyLocations(c, P),
    Mark(c.source, "reads_s3_source")
    \oplus In(c.source, <<"source_data_bucket_arn">>, {<<c.target, "bucket_arn">>})
    \oplus (IF workflows
            THEN Versioned(c.target, "workflow_bucket_arn")
                 \oplus In(c.source, <<"source_bucket_arn">>, {<<c.target, "workflow_bucket_arn">>})
            ELSE In(c.source, <<"training_data_s3_uri">>, {<<c.target, "bucket_name">>}))
    \oplus BucketAccess(c, P, "source_data_policy", "source_data", "source_data_key_arn",
                        {role, V(<<"source_data_bucket_arn">>)}))
-----------------------------------------------------------------------------
(* Replication: the slot is the role, the same for all replicas of a bucket;  *)
(* an encrypted bucket replicates only where there is a key too.              *)

ReplicationRefuses(c, P) ==
  LET peers == OutOf(c, P) IN
  \/ \E d \in peers : d.target = c.source
  \/ Cardinality({d.slot : d \in peers}) # 1
  \/ KeyRefused(c.source, P) \/ \E d \in peers : KeyRefused(d.target, P)
  \/ ManagedKeys(c.source, P) # {} /\ \E d \in peers : ManagedKeys(d.target, P) = {}

ReplicaKey(bucket) == <<"replica", bucket, "kms_arn">>

S3Replication(c, P) ==
  LET me == c.source  replicas == TransferTargets(OutOf(c, P))
      arn(x) == <<"replica", x, "arn">>
      replica(x) ==
        In(me, arn(x), {<<x, "replication_bucket_arn">>}) \oplus Versioned(x, "replication_bucket_arn")
        \oplus Each(ManagedKeys(x, P), LAMBDA k : In(me, ReplicaKey(x), {<<k, "key_arn">>})) IN
  Unless(ReplicationRefuses(c, P),
    In(me, <<"replication_role_arn">>, {}) \oplus In(me, <<"versioning_enabled">>, {}) \oplus Mark(me, "replication_role")
    \oplus Each(replicas, replica)
    \oplus File(me, <<"replication">>, {<<"aws_s3_bucket_replication_configuration", me, "replication">>},
                {<<"aws_s3_bucket", me>>, <<"aws_s3_bucket_versioning", me, "versioning">>, V(<<"replication_role_arn">>)}
                \cup {V(arn(x)) : x \in replicas}
                \cup {V(ReplicaKey(x)) : x \in {y \in replicas : ManagedKeys(y, P) # {}}}))
-----------------------------------------------------------------------------
(* A transfer reads one location and writes another. *)
LocationRefuses(c, P) ==
  LET peers == {d \in OfAny(DataSync, P) : d.source = c.source}
      same == {d \in peers : d.kind = c.kind} IN
  \/ ~c.fit \/ Cardinality(TransferTargets(same)) # 1
  \/ TransferTargets(same) \cap TransferTargets(peers \ same) # {}

DataSyncLocation(c, P) ==
  LET field == IF c.kind[3] = "reads_from" THEN "source_location_arn" ELSE "destination_location_arn" IN
  Unless(LocationRefuses(c, P), Mark(c.source, field) \oplus In(c.source, <<field>>, {<<c.target, "location_arn">>}))

DataSyncS3(c, P) ==
  Unless(~c.fit \/ Cardinality(TransferTargets(OutOf(c, P))) # 1,
    Mark(c.source, "managed_bucket") \oplus In(c.source, <<"s3_bucket_arn">>, {<<c.target, "bucket_arn">>})
    \oplus BucketAccess(c, P, "location_access", "location_access", "location_key_arn",
                        {V(<<"s3_bucket_arn">>), V(<<"subdirectory">>), V(<<"bucket_access_role_arn">>)}))

FirehoseS3(c, P) ==
  Unless(~c.fit \/ ManyLocations(c, P),
    Mark(c.source, "managed_s3_destination")
    \oplus In(c.source, <<"destination">>, {}) \oplus In(c.source, <<"s3_prefix">>, {})
    \oplus In(c.source, <<"bucket_arn">>, {<<c.target, "bucket_arn">>})
    \oplus BucketAccess(c, P, "delivery_policy", "s3_delivery", "delivery_key_arn",
                        {V(<<"bucket_arn">>), V(<<"s3_prefix">>), V(<<"role_arn">>)}))

SnsFirehose(c) ==
  LET role == <<Safe[c.source], "sns_delivery">>  arn == V(<<Safe[c.source], "topic_arn">>) IN
  Unless(~c.fit,
    Peer(c.target, c.source, "topic_arn", "topic_arn")
    \oplus File(c.target, <<"subscription", c.source>>,
                Labelled({"aws_iam_role", "aws_iam_role_policy"}, role)
                \cup {<<"aws_sns_topic_subscription", Safe[c.source], "firehose">>},
                {<<"aws_kinesis_firehose_delivery_stream", c.target>>, arn}))
=============================================================================
