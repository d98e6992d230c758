----------------------------- MODULE KeyHandlers -----------------------------
(* The handler that encrypts a resource with a managed key, the policy of     *)
(* that key, and the access the users of an encrypted resource get to it.     *)
EXTENDS Contributions

(* The variable of an encryptable service that names its key. *)
KmsInputs ==
  [s \in {"s3", "dynamodb", "sns", "sqs", "cloudwatch", "ebs", "efs", "backup", "secrets-manager", "datazone",
          "codeartifact", "lambda", "cloudtrail"} |->
     CASE s = "s3" -> "sse_kms_key_id"
       [] s = "dynamodb" -> "server_side_encryption_kms_key_arn"
       [] s \in {"sns", "sqs"} -> "kms_master_key_id"
       [] s \in {"backup", "lambda"} -> "kms_key_arn"
       [] s = "datazone" -> "kms_key_identifier"
       [] s = "codeartifact" -> "kms_key"
       [] OTHER -> "kms_key_id"]

Encrypts == {<<"kms", s, "encrypts">> : s \in DOMAIN KmsInputs}
EncryptsOf(P) == UNION {Of(kind, P) : kind \in Encrypts}

(* managed_key: more than one is refused where the key is asked for. *)
ManagedKeys(target, P) == {d.source : d \in {e \in EncryptsOf(P) : e.target = target}}
KeyRefused(target, P) == Cardinality(ManagedKeys(target, P)) > 1

(* KmsConsumerGrants.augment: the role that uses an encrypted resource may    *)
(* use its key too, when what it may do there needs one.                      *)
Augment(owner, target, P) ==
  LET variable == <<"kms_access", target, "arn">> IN
  Unless(KeyRefused(target, P),
    Each(ManagedKeys(target, P), LAMBDA key :
      In(owner, variable, {<<key, "key_arn">>}) \oplus Grant(owner, {V(variable)})))
-----------------------------------------------------------------------------
(* The services a key policy admits: those that publish into the encrypted    *)
(* resource, or the resource itself where nothing publishes.                  *)
PolicyRules ==
  {[encrypted |-> "s3", variable |-> "s3_distribution_arns", publisher |-> "cloudfront"],
   [encrypted |-> "sqs", variable |-> "", publisher |-> "s3"],
   [encrypted |-> "sns", variable |-> "", publisher |-> "s3"],
   [encrypted |-> "cloudtrail", variable |-> "cloudtrail_arns", publisher |-> ""],
   [encrypted |-> "cloudwatch", variable |-> "log_group_arns", publisher |-> ""],
   [encrypted |-> "sqs", variable |-> "sqs_publisher_topic_arns", publisher |-> "sns"],
   [encrypted |-> "sqs", variable |-> "", publisher |-> "eventbridge"]}

(* KeyPolicyRule.members, as <<service, instance>>. *)
Members(rule, key, P) ==
  LET targets == {d.target : d \in {e \in EncryptsOf(P) : e.source = key /\ e.kind[2] = rule.encrypted}} IN
  IF rule.publisher = "" THEN {<<rule.encrypted, x>> : x \in targets}
  ELSE {<<rule.publisher, P[i].source>> : i \in {j \in DOMAIN P : /\ P[j].target \in targets
                                                                  /\ P[j].kind[1] = rule.publisher
                                                                  /\ P[j].kind[2] = rule.encrypted}}

NeedsServicePolicy(key, P) == \E rule \in PolicyRules : Members(rule, key, P) # {}

(* identity: the ARN of a service known before its resource is created. *)
IdentityOutput(service) ==
  CASE service = "cloudtrail" -> "encryption_trail_arn"
    [] service = "cloudwatch" -> "encryption_log_group_arn"
    [] service = "sns" -> "encryption_topic_arn"
    [] service = "cloudfront" -> "distribution_arn"
NameVariable(service) ==
  CASE service = "cloudtrail" -> "trail_name" [] service = "cloudwatch" -> "log_group_name" [] service = "sns" -> "topic_name"
(* Fault: the ARN is read off the resource that the key encrypts. *)
ServiceIdentityOfResource(service, x) ==
  LET type == CASE service = "cloudtrail" -> "aws_cloudtrail" [] service = "cloudwatch" -> "aws_cloudwatch_log_group"
                [] service = "sns" -> "aws_sns_topic" [] OTHER -> "none" IN
  When(service # "cloudfront", Out(x, <<IdentityOutput(service)>>, {<<type, x>>}))

ServiceIdentity(service, x) ==
  When(service # "cloudfront",
    Out(x, <<IdentityOutput(service)>>, Identity(<<"kms_identity">>) \cup {V(<<NameVariable(service)>>)})
    \oplus File(x, <<"encryption_identity">>, Identity(<<"kms_identity">>), {}))

KmsServicePolicy(key, P) ==
  LET named == {rule \in PolicyRules : rule.variable # "" /\ Members(rule, key, P) # {}}
      policy == <<"aws_kms_key_policy", "services">> IN
  Each(named, LAMBDA rule :
         Each(Members(rule, key, P), LAMBDA x : ServiceIdentity(x[1], x[2]))
         \oplus In(key, <<rule.variable>>, {<<x[2], IdentityOutput(x[1])>> : x \in Members(rule, key, P)}))
  \oplus File(key, <<"key_policy">>, {policy} \cup Identity(<<"kms_policy">>),
              {<<"aws_kms_key", key>>} \cup {V(<<rule.variable>>) : rule \in named})
  \oplus Out(key, <<"service_key_arn">>, {policy})
  \oplus When(\E rule \in named : rule.encrypted = "cloudtrail", Out(key, <<"cloudtrail_key_arn">>, {policy}))
-----------------------------------------------------------------------------
KmsEncryption(c, P) ==
  LET service == c.kind[2]  key == c.source
      policy == NeedsServicePolicy(key, P)
      output == IF service = "cloudtrail" THEN "cloudtrail_key_arn" ELSE IF policy THEN "service_key_arn" ELSE "key_arn"
      input == KmsInputs[service] IN
  Unless(KeyRefused(c.target, P),
    Mark(c.target, "encrypted") \oplus In(c.target, <<input>>, {<<key, output>>})
    \oplus When(policy /\ Leads(c, {d \in EncryptsOf(P) : d.source = key}), KmsServicePolicy(key, P))
    \oplus When(service = "lambda", Grant(c.target, {V(<<input>>)})))
=============================================================================
