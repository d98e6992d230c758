---------------------------- MODULE ComputeModules ----------------------------
(* The Terraform module each service generator writes for one instance: the    *)
(* addresses it declares, the outputs it offers and the variables it takes, as *)
(* far as connections refer to them. A module is a contribution like those of  *)
(* the handlers. "g" is what connections gave the instance: the marks on its   *)
(* configuration, the names of its inputs and what its role is granted.        *)
EXTENDS Contributions

(* A block of the generator's own file, and the outputs and variables. *)
Block(i, address, uses) == File(i, address, {address}, uses)
Outputs(i, names, from) == Each(names, LAMBDA o : Out(i, <<o>>, from))
Variables(i, names) == Each(names, LAMBDA v : In(i, <<v>>, {}))
Vars(names) == {V(<<v>>) : v \in names}

Has(g, what) == <<what>> \in g.marks
If(condition, S) == IF condition THEN S ELSE {}

(* "if config.x is not None": settings a connection may have supplied. *)
Settings(g, names) == Vars({v \in names : <<v>> \in g.inputs})

(* The common shape: one resource, which reads its variables. *)
Plain(i, type, variables, uses, outputs) ==
  Block(i, <<type, i>>, Vars(variables) \cup uses)
  \oplus Outputs(i, outputs, {<<type, i>>}) \oplus Variables(i, variables)

(* What the runtime secret handlers leave in a consumer's module. *)
RuntimeSecrets(g) ==
  If(Has(g, "inject_runtime_secrets"), {<<"aws_iam_role_policy", "runtime_secrets">>, <<"local", "runtime_secrets">>})
  \cup If(Has(g, "reads_runtime_secrets"), {<<"aws_iam_role_policy", "runtime_secrets">>})
-----------------------------------------------------------------------------
(* Compute *)

(* Fault: the policy is rendered without the variables of its template. *)
ExecutionRoleBare(i, g) ==
  Block(i, <<"aws_iam_role", i, "role">>, {})
  \oplus Block(i, <<"aws_iam_role_policy", i, "policy">>, {<<"aws_iam_role", i, "role">>})

(* execution_role_generator: role and policy of an instance that owns a role. *)
ExecutionRole(i, g) ==
  Block(i, <<"aws_iam_role", i, "role">>, {})
  \oplus Block(i, <<"aws_iam_role_policy", i, "policy">>, {<<"aws_iam_role", i, "role">>} \cup g.granted)

LambdaResource(i, g) ==
  Block(i, <<"aws_lambda_function", i>>,
        {<<"aws_iam_role", i, "role">>, <<"aws_iam_role_policy", i, "policy">>}
        \cup Vars({"vpc_subnet_ids", "vpc_security_group_ids"})
        \cup Settings(g, {"dead_letter_target_arn", "kms_key_arn", "file_system_arn",
                          "file_system_local_mount_path", "logging_log_group"})
        \cup If(Has(g, "xray"), {<<"aws_iam_role_policy", i, "xray">>}))
LambdaVariables(i) == Variables(i, {"vpc_subnet_ids", "vpc_security_group_ids"})
LambdaOutputs(i) == Outputs(i, {"function_arn", "function_name"}, {<<"aws_lambda_function", i>>})
Lambda(i, g) == LambdaResource(i, g) \oplus LambdaVariables(i) \oplus LambdaOutputs(i) \oplus ExecutionRole(i, g)

(* The task takes its role only when something granted or asked for one. *)
TaskRole(g) == g.granted # {} \/ Has(g, "task_role")
EcsTask(i, g) ==
  LET policy(label) == {<<"aws_iam_role_policy">> \o label}
      collects == {name \in {"xray", "prometheus"} : Has(g, "collects_" \o name)} IN
  If(TaskRole(g) \/ Has(g, "inject_runtime_secrets") \/ Has(g, "registry_images") \/ Has(g, "application_logs"),
     policy(<<i, "policy">>) \cup {<<"aws_iam_role", i, "role">>})
  \cup RuntimeSecrets(g)
  \cup If(Has(g, "registry_images"),
          policy(<<"registry_images">>) \cup {<<"local", "registry_images">>} \cup Identity(<<"registry_images">>) \cup Vars({"registry_images"}))
  \cup If(Has(g, "collects_xray"), policy(<<i, "xray">>))
  \cup {<<"local", name \o "_collector_configuration">> : name \in collects}
  \cup {<<"aws_cloudwatch_log_group", i, name>> : name \in collects}
  \cup If(Has(g, "application_logs"), {<<"local", "application_log_configurations">>} \cup Identity(<<"ecs_logs">>) \cup Vars({"ecs_logs"}))
  \cup If(Has(g, "application_logs_kms"), policy(<<i, "application_logs">>))
  \cup If(Has(g, "mounts_efs"), {<<"local", "efs_mounts">>})
EcsResource(i, g) ==
  LET network == {"subnet_ids", "security_group_ids", "assign_public_ip"}
      cluster == <<"aws_ecs_cluster", i>>  task == <<"aws_ecs_task_definition", i, "task">> IN
  Block(i, cluster, {})
  \oplus Block(i, task, EcsTask(i, g))
  \oplus Block(i, <<"aws_ecs_service", i, "service">>,
               {cluster, task} \cup Vars(network)
               \cup If(Has(g, "load_balancers"),
                       {V(v) : v \in {w \in g.inputs : w[Len(w)] = "target_group_arn"}}))
  \oplus Variables(i, network)
EcsOutputs(i, g) ==
  Out(i, <<"cluster_arn">>, {<<"aws_ecs_cluster", i>>})
  \oplus Out(i, <<"task_definition_arn">>, {<<"aws_ecs_task_definition", i, "task">>})
  \oplus Out(i, <<"service_name">>, {<<"aws_ecs_service", i, "service">>})
  \oplus When(TaskRole(g), Out(i, <<"task_role_arn">>, {<<"aws_iam_role", i, "role">>}))
  \oplus Each({"subnet_ids", "security_group_ids", "assign_public_ip"}, LAMBDA o : Out(i, <<o>>, Vars({o})))
Ecs(i, g) == EcsResource(i, g) \oplus EcsOutputs(i, g) \oplus ExecutionRole(i, g)

Eks(i, g) ==
  Plain(i, "aws_eks_cluster", {"cluster_name", "cluster_role_arn", "security_group_ids", "subnet_ids"},
        If(Has(g, "control_plane_logs"),
           Identity(<<"eks_logs">>) \cup Vars({"control_plane_log_group", "enabled_cluster_log_types"})),
        {"cluster_arn", "cluster_endpoint", "cluster_name"})

Ec2(i, g) ==
  Plain(i, "aws_instance", {"security_group_ids", "subnet_id"},
        If(Has(g, "managed_ssm"), {<<"aws_iam_role_policy_attachment", "ssm_core">>})
        \cup If(Has(g, "mounts_efs"), {<<"aws_iam_role_policy", "efs_mounts">>, <<"local", "efs_mounts">>, <<"local", "install_efs_utils">>})
        \cup If(\E what \in {"managed_ssm", "mounts_efs", "reads_runtime_secrets"} : Has(g, what),
                {<<"aws_iam_instance_profile", "runtime_secrets">>})
        \cup RuntimeSecrets(g),
        {"availability_zone", "instance_id", "public_ip"})

Ec2AutoScaling(i) ==
  Plain(i, "aws_autoscaling_group", {"launch_template_id", "launch_template_version", "subnet_ids", "target_group_arns"}, {},
        {"autoscaling_group_id", "autoscaling_group_arn", "autoscaling_group_name"})
Ec2LaunchTemplate(i) ==
  Plain(i, "aws_launch_template", {"security_group_ids"}, {}, {"launch_template_id", "launch_template_arn", "latest_version"})

(* A batch target gets a job queue. *)
Batch(i, g) ==
  LET environment == <<"aws_batch_compute_environment", i>>  queue == <<"aws_batch_job_queue", i, "queue">> IN
  Plain(i, environment[1], {}, {}, {"compute_environment_arn", "compute_environment_name"})
  \oplus When(Has(g, "batch_target"),
              Block(i, queue, {environment}) \oplus Out(i, <<"job_queue_arn">>, {queue}))
BatchJobDefinition(i, g) ==
  Plain(i, "aws_batch_job_definition", {"execution_role_arn"}, RuntimeSecrets(g),
        {"job_definition_arn", "job_definition_name", "revision"})
  \oplus Block(i, <<"local", "batch_job_secrets">>, {})

AppRunner(i, g) ==
  Plain(i, "aws_apprunner_service", {"instance_role_arn"}, RuntimeSecrets(g), {"service_arn", "service_url"})
Mwaa(i, g) ==
  Plain(i, "aws_mwaa_environment", {"execution_role_arn", "security_group_ids", "source_bucket_arn", "subnet_ids"},
        RuntimeSecrets(g) \cup If(Has(g, "reads_s3_source"), {<<"aws_iam_role_policy", "source_data">>}),
        {"environment_arn", "webserver_url"})
=============================================================================
