---------------------------- MODULE EventHandlers ----------------------------
(* The targets of EventBridge rules. The slot of a connection is the target   *)
(* identifier it was given, or "" for the one derived from the target's name. *)
EXTENDS BucketHandlers

TargetId(c) == IF c.slot = "" THEN Safe[c.target] ELSE c.slot
RuleTargets(rule, P) ==
  {P[i] : i \in {j \in DOMAIN P : P[j].source = rule /\ P[j].kind[1] = "eventbridge" /\ P[j].kind[3] = "targets"}}
Rule(c) == <<"aws_cloudwatch_event_rule", c.source>>

(* EventBridgeRoleTargetHandler: a target invoked through a role of its own.  *)
(* An identifier selects one target of the rule.                              *)
TargetRefuses(c, P) ==
  ~c.fit \/ \E d \in RuleTargets(c.source, P) : TargetId(d) = TargetId(c) /\ d.target # c.target

EventBridgeRoleTarget(c, P, prefix, output, more, data, key) ==
  LET id == <<prefix, TargetId(c)>>
      arn == Append(id, "arn")
      access == [key EXCEPT !.grants = {}] IN
  Unless(TargetRefuses(c, P),
    In(c.source, arn, {<<c.target>> \o output}) \oplus access
    \oplus Each(more, LAMBDA x : In(c.source, Append(id, x[1]), {x[2]}))
    \oplus File(c.source, id,
                Labelled({"aws_iam_role", "aws_iam_role_policy", "aws_cloudwatch_event_target"}, id) \cup data,
                {Rule(c), V(arn)} \cup {V(Append(id, x[1])) : x \in more} \cup {V(i.name) : i \in access.ins}))

Targets(c, P, prefix, output) == EventBridgeRoleTarget(c, P, prefix, output, {}, {}, Nothing)
-----------------------------------------------------------------------------
EventBridgeKinesis(c, P) == Targets(c, P, "stream", <<"stream_arn">>)
EventBridgeWorkflow(c, P) == Targets(c, P, "workflow", <<"state_machine_arn">>)
EventBridgeCodeBuild(c, P) == Targets(c, P, "build", <<"project_arn">>)
EventBridgeSNS(c, P) ==
  EventBridgeRoleTarget(c, P, "topic", <<"topic_arn">>, {}, {}, Augment(c.source, c.target, P))

(* prepare_fargate_target: a placed Fargate service; its task gets a role. *)
PrepareFargateTarget(c) == Mark(c.target, "task_role")
FargateInputs(c) ==
  {<<"task_arn", <<c.target, "task_definition_arn">> >>} \cup
  {<<o, <<c.target, o>> >> : o \in {"task_role_arn", "subnet_ids", "security_group_ids", "assign_public_ip"}}

EventBridgeEcs(c, P) ==
  PrepareFargateTarget(c) \oplus EventBridgeRoleTarget(c, P, "ecs", <<"cluster_arn">>, FargateInputs(c), {}, Nothing)

EventBridgeSsm(c, P) ==
  EventBridgeRoleTarget(c, P, "ssm", <<"document_arn">>, {<<"document_type", <<c.target, "document_type">> >>},
                        Identity(<<"ssm", TargetId(c)>>), Nothing)

(* prepare_batch_target: the job definition is a resource of the diagram. *)
PrepareBatchTarget(c) == Mark(c.target, "batch_target")

EventBridgeBatch(c, P) ==
  PrepareBatchTarget(c)
  \oplus EventBridgeRoleTarget(c, P, "batch", <<"job_queue_arn">>,
           {<<"job_definition_arn", <<c.other, "job_definition_arn">> >>}, {}, Nothing)

EventBridgeApiGateway(c, P) == Targets(c, P, "api", <<c.target, "execution_arn">>)
-----------------------------------------------------------------------------
EventBridgeLambda(c) ==
  LET f == c.target IN
  Out(f, <<"function_arn">>, {<<"aws_lambda_function", f>>})
  \oplus Out(f, <<"function_name">>, {<<"aws_lambda_function", f>>})
  \oplus Peer(c.source, f, "function_arn", "function_arn")
  \oplus Peer(c.source, f, "function_name", "function_name")
  \oplus File(c.source, <<"target", f>>, {<<"aws_cloudwatch_event_target", Safe[f], "target">>},
              {Rule(c), V(<<Safe[f], "function_arn">>)})
  \oplus File(c.source, <<"permission", f>>, {<<"aws_lambda_permission", Safe[f], "permission">>},
              {Rule(c), V(<<Safe[f], "function_name">>)})

EventBridgeSQS(c, P) ==
  LET q == c.target IN
  Unless(~c.fit \/ KeyRefused(q, P),
    Out(q, <<"arn">>, {<<"aws_sqs_queue", q>>}) \oplus Out(q, <<"url">>, {<<"aws_sqs_queue", q>>})
    \oplus Peer(c.source, q, "queue_arn", "arn") \oplus Peer(c.source, q, "queue_url", "url")
    \oplus File(c.source, <<"target", q>>, {<<"aws_cloudwatch_event_target", Safe[q], "target">>},
                {Rule(c), V(<<Safe[q], "queue_arn">>)})
    \oplus QueueDeliveryPolicy(c, P))
=============================================================================
