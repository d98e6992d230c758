-------------------------- MODULE WorkflowHandlers --------------------------
(* Secrets handed to the services that read them, and the tasks of Step      *)
(* Functions workflows. The source names variables after the position of a   *)
(* resource among its sorted peers; here they carry its name.                *)
EXTENDS EventHandlers

Secrets(consumer, P) ==
  {P[i] : i \in {j \in DOMAIN P : P[j].source = consumer /\ P[j].kind[2] = "secrets-manager"}}
SecretArn(secret) == <<"runtime_secret", secret, "arn">>
SecretKey(secret) == <<"runtime_secret", secret, "key_arn">>
Names(peers) == {d.target : d \in peers}

(* SecretAccessHandler: the first secret of a consumer speaks for all. "role" *)
(* is what its policy needs to find the role it is attached to.               *)
SecretAccess(c, P, role) ==
  LET me == c.source  secrets == Names(Secrets(me, P)) IN
  Speaks(c, Secrets(me, P),
    Unless(\E x \in secrets : KeyRefused(x, P),
      Each(secrets, LAMBDA x :
        In(me, SecretArn(x), {<<x, "secret_arn">>})
        \oplus Each(ManagedKeys(x, P), LAMBDA key : In(me, SecretKey(x), {<<key, "key_arn">>})))
      \oplus File(me, <<"runtime_secrets_policy">>, {<<"aws_iam_role_policy", "runtime_secrets">>},
                  {role} \cup {V(SecretArn(x)) : x \in secrets}
                  \cup {V(SecretKey(x)) : x \in {y \in secrets : ManagedKeys(y, P) # {}}})))

OwnRole(c) == <<"aws_iam_role", c.source, "role">>
LambdaSecretAccess(c, P) == SecretAccess(c, P, OwnRole(c))

(* What a consumer adds to the access the first secret writes. *)
WithSecrets(c, P, role, refuses, a) ==
  LET access == SecretAccess(c, P, role) IN
  access \oplus When(access.files # {}, Unless(refuses, a))

Injected(c, P) ==
  Mark(c.source, "inject_runtime_secrets")
  \oplus File(c.source, <<"runtime_secrets">>, {<<"local", "runtime_secrets">>},
              {V(SecretArn(x)) : x \in Names(Secrets(c.source, P))})

(* The slot of an injected secret is the variable it is injected as. *)
EcsSecret(c, P) == WithSecrets(c, P, OwnRole(c), Clash(Secrets(c.source, P)), Injected(c, P))

ExternalRole(c) ==
  V(<<CASE c.kind[1] \in {"batch-job-definition", "mwaa"} -> "execution_role_arn"
        [] c.kind[1] = "app-runner" -> "instance_role_arn"
        [] c.kind[1] = "codebuild" -> "service_role"
        [] c.kind[1] = "step-functions" -> "role_arn">>)

EnvironmentSecret(c, P) ==
  Unless(~c.fit, WithSecrets(c, P, ExternalRole(c), Clash(Secrets(c.source, P)), Injected(c, P)))

MwaaSecret(c, P) ==
  Unless(~c.fit, WithSecrets(c, P, ExternalRole(c), FALSE, Mark(c.source, "reads_runtime_secrets")))

Ec2RuntimeRole(instance) ==
  File(instance, <<"runtime_secrets_role">>,
       {<<"aws_iam_role", instance, "role">>, <<"aws_iam_instance_profile", "runtime_secrets">>}, {})

Ec2Secret(c, P) ==
  WithSecrets(c, P, OwnRole(c), FALSE, Mark(c.source, "reads_runtime_secrets") \oplus Ec2RuntimeRole(c.source))
-----------------------------------------------------------------------------
(* Workflow tasks. The slot of a connection is the state it replaces. Each    *)
(* kind of task rewrites the definition the kind before it left, and refuses  *)
(* a state one of the earlier kinds has taken.                                *)

TaskKinds ==
  << <<"step-functions", "secrets-manager", "reads_secret">>, <<"step-functions", "lambda", "invokes">>,
     <<"step-functions", "ecs", "runs_task">>, <<"step-functions", "batch", "submits_job">>,
     <<"step-functions", "sns", "publishes">>, <<"step-functions", "sqs", "sends_message">>,
     <<"step-functions", "dynamodb", "accesses_item">>, <<"step-functions", "eventbridge", "puts_event">> >>
TaskName == <<"secret", "lambda", "ecs", "batch", "sns", "sqs", "dynamodb", "eventbridge">>

Place(c) == CHOOSE k \in DOMAIN TaskKinds : TaskKinds[k] = c.kind
Tasks(k, workflow, P) == {d \in Of(TaskKinds[k], P) : d.source = workflow}
Earlier(c, P) == {k \in 1..(Place(c) - 1) : Tasks(k, c.source, P) # {}}

TaskRefuses(c, P) ==
  LET peers == OutOf(c, P) IN
  \/ Unfit(peers) \/ Clash(peers)
  \/ \E k \in Earlier(c, P) : \E d \in Tasks(k, c.source, P), e \in peers : d.slot = e.slot

(* The locals that rewrite the definition: they read the definition of the    *)
(* nearest earlier kind of task, or the workflow's own.                       *)
WorkflowLocals(c, P, uses) ==
  LET me == TaskName[Place(c)]
      before == Earlier(c, P)
      nearest == CHOOSE k \in before : \A j \in before : j <= k
      made == {<<"local", me \o n>> : n \in {"_bindings", "_source_workflow", "_task_states", "_workflow_definition",
                                              "_tasks_valid"}}
      partition == IF me = "lambda" THEN {} ELSE {<<"data.aws_partition", me \o "_tasks">>} IN
  File(c.source, <<me \o "_tasks">>, made \cup partition,
       uses \cup {IF before = {} THEN V(<<"definition">>) ELSE <<"local", TaskName[nearest] \o "_workflow_definition">>})

TaskPolicy(c, data, uses) ==
  LET me == TaskName[Place(c)] IN
  File(c.source, <<me \o "_tasks_policy">>,
       {<<"aws_iam_role_policy", me \o "_tasks">>} \cup (IF data THEN Identity(<<me \o "_tasks_policy">>) ELSE {}),
       {V(<<"role_arn">>)} \cup uses)

(* Inputs are <<prefix, instance, suffix, output>>; "tasks" and "policy" say  *)
(* which of their suffixes the locals and the policy read.                    *)
WorkflowTask(c, P, inputs, tasks, policy, data, keys) ==
  LET v(i) == <<i[1], i[2], i[3]>> IN
  Speaks(c, OutOf(c, P),
    Unless(TaskRefuses(c, P),
      Mark(c.source, TaskName[Place(c)]) \oplus keys
      \oplus Each(inputs, LAMBDA i : In(c.source, v(i), {<<i[2], i[4]>>}))
      \oplus WorkflowLocals(c, P, {V(v(i)) : i \in {j \in inputs : j[3] \in tasks}})
      \oplus TaskPolicy(c, data, {V(v(i)) : i \in {j \in inputs : j[3] \in policy}}
                                 \cup {V(i.name) : i \in keys.ins})))

(* workflow_key_references: the keys of encrypted targets. *)
WorkflowKeys(c, P, service) ==
  LET targets == Names(OutOf(c, P)) IN
  Unless(\E x \in targets : KeyRefused(x, P),
    Each(targets, LAMBDA x : Each(ManagedKeys(x, P), LAMBDA key :
      In(c.source, <<"workflow_" \o service \o "_key", x, "arn">>, {<<key, "key_arn">>}))))

Inputs(c, P, prefix, pairs) == {<<prefix, x, p[1], p[2]>> : x \in Names(OutOf(c, P)), p \in pairs}

StepFunctionsLambda(c, P) ==
  WorkflowTask(c, P, Inputs(c, P, "workflow_lambda", {<<"arn", "function_arn">>}), {"arn"}, {"arn"}, FALSE, Nothing)

StepFunctionsEcs(c, P) ==
  LET same == {"cluster_arn", "task_definition_arn", "task_role_arn", "subnet_ids", "security_group_ids", "assign_public_ip"} IN
  WorkflowTask(c, P, Inputs(c, P, "workflow_ecs", {<<o, o>> : o \in same}), same,
               {"cluster_arn", "task_definition_arn", "task_role_arn"}, TRUE, Nothing)
  \oplus When(Leads(c, OutOf(c, P)), Each(OutOf(c, P), LAMBDA d : PrepareFargateTarget(d)))

StepFunctionsBatch(c, P) ==
  WorkflowTask(c, P, Inputs(c, P, "workflow_batch_queue", {<<"arn", "job_queue_arn">>})
                     \cup {<<"workflow_batch_definition", d.other, "arn", "job_definition_arn">> : d \in OutOf(c, P)},
               {"arn"}, {"arn"}, TRUE, Nothing)
  \oplus When(Leads(c, OutOf(c, P)), Each(OutOf(c, P), LAMBDA d : PrepareBatchTarget(d)))

StepFunctionsSns(c, P) ==
  WorkflowTask(c, P, Inputs(c, P, "workflow_sns_topic", {<<"arn", "topic_arn">>}), {"arn"}, {"arn"}, FALSE,
               WorkflowKeys(c, P, "sns"))

StepFunctionsSqs(c, P) ==
  WorkflowTask(c, P, Inputs(c, P, "workflow_sqs_queue", {<<"url", "queue_url">>, <<"arn", "queue_arn">>}),
               {"url"}, {"arn"}, FALSE, WorkflowKeys(c, P, "sqs"))

StepFunctionsDynamoDb(c, P) ==
  WorkflowTask(c, P, Inputs(c, P, "workflow_dynamodb_table", {<<"name", "table_name">>, <<"arn", "table_arn">>}),
               {"name"}, {"arn"}, FALSE, WorkflowKeys(c, P, "dynamodb"))

StepFunctionsEventBridge(c, P) ==
  WorkflowTask(c, P, Inputs(c, P, "workflow_eventbridge_bus", {<<"arn", "event_bus_arn">>}), {"arn"}, {"arn"}, FALSE, Nothing)

StepFunctionsSecret(c, P) ==
  Unless(~c.fit,
    WithSecrets(c, P, ExternalRole(c), Clash(Secrets(c.source, P)),
      Mark(c.source, "secret") \oplus WorkflowLocals(c, P, {V(SecretArn(x)) : x \in Names(Secrets(c.source, P))})))
-----------------------------------------------------------------------------
ResolveWorkflowLogsRefuses(c, P) == Cardinality(Names(OutOf(c, P))) > 1 \/ ~c.fit \/ Remote({c})

StepFunctionsLogs(c, P) ==
  Unless(ResolveWorkflowLogsRefuses(c, P),
    Mark(c.source, "cloudwatch_logs")
    \oplus In(c.source, <<"workflow_logs">>, {<<c.target, "log_group_arn">>, <<c.target, "log_group_class">>})
    \oplus Out(c.target, <<"log_group_class">>, {<<"aws_cloudwatch_log_group", c.target>>})
    \oplus Out(c.source, <<"execution_log_destination">>, {V(<<"workflow_logs">>)})
    \oplus File(c.source, <<"execution_logs">>,
                Labelled({"aws_iam_role_policy", "data.aws_iam_role"}, <<"workflow_logs">>) \cup Identity(<<"workflow_logs">>),
                {V(<<"role_arn">>), V(<<"workflow_logs">>)}))
=============================================================================
