---------------------------- MODULE CodeHandlers ----------------------------
(* The handlers of the build and delivery services: packages, repositories,  *)
(* build logs, artifacts and container images. The role of a build or of a   *)
(* pipeline is an external one, found by its name.                           *)
EXTENDS KeyHandlers

BuildLogs == <<"codebuild", "cloudwatch", "logs_to">>
PipelineSource == <<"codecommit", "codepipeline", "sources_from">>
ArtifactStore == <<"codepipeline", "s3", "stores_artifacts">>

(* An inline policy on the external role, with the lookups it needs. *)
OnExternalRole(m, label, made, uses) ==
  File(m, <<label>>, Labelled({"aws_iam_role_policy", "data.aws_iam_role"}, <<label>>) \cup Identity(<<label>>) \cup made, uses)

(* What the resolvers of a single native source have in common: one end, in  *)
(* the region of the other, with settings every connection agrees on.        *)
SoleSourceRefuses(c, P) ==
  LET peers == Into(c, P) IN Cardinality({d.source : d \in peers}) > 1 \/ Unfit(peers) \/ Remote({c})
-----------------------------------------------------------------------------
ResolvePackageSourceRefuses(c, P) == SoleSourceRefuses(c, P)

CodeArtifactBuild(c, P) ==
  Unless(ResolvePackageSourceRefuses(c, P),
    Mark(c.target, "package_login")
    \oplus In(c.target, <<"package_source">>,
              {<<c.source, o>> : o \in {"domain_arn", "domain_name", "owner", "repository_arn", "repository_name"}})
    \oplus Out(c.source, <<"domain_name">>, {<<"aws_codeartifact_domain", c.source>>})
    \oplus Out(c.source, <<"owner">>, {<<"aws_codeartifact_domain", c.source>>})
    \oplus Out(c.target, <<"package_source">>, {V(<<"package_source">>)})
    \oplus OnExternalRole(c.target, "package_source",
         {<<"local", "package_" \o n>> : n \in {"buildspec", "login_buildspec", "login_command"}},
         {V(<<"buildspec">>), V(<<"package_source">>), V(<<"service_role">>)}))
-----------------------------------------------------------------------------
ResolveBuildLogsRefuses(c, P) ==
  Cardinality({d.target : d \in OutOf(c, P)}) > 1 \/ ~c.fit \/ Remote({c})

LogGroupOutputs(group) ==
  Each({"log_group_name", "log_group_class", "log_group_kms_key_arn"},
       LAMBDA o : Out(group, <<o>>, {<<"aws_cloudwatch_log_group", group>>}))

CodeBuildLogs(c, P) ==
  Unless(ResolveBuildLogsRefuses(c, P),
    Mark(c.source, "cloudwatch_logs") \oplus LogGroupOutputs(c.target)
    \oplus In(c.source, <<"build_logs">>,
              {<<c.target, o>> : o \in {"log_group_arn", "log_group_name", "log_group_class", "log_group_kms_key_arn"}})
    \oplus Out(c.source, <<"build_log_destination">>, {V(<<"build_logs">>)})
    \oplus OnExternalRole(c.source, "build_logs", {}, {V(<<"build_logs">>), V(<<"service_role">>)}))
-----------------------------------------------------------------------------
ResolveRepositorySourceRefuses(c, P) == SoleSourceRefuses(c, P)

(* A repository as the source of a build or of a pipeline. *)
RepositorySource(c, reads, made, uses) ==
  Mark(c.target, "repository_source")
  \oplus In(c.target, <<"repository_source">>, {<<c.source, o>> : o \in reads})
  \oplus Out(c.source, <<"repository_name">>, {<<"aws_codecommit_repository", c.source>>})
  \oplus Out(c.target, <<"repository_source">>, {V(<<"repository_source">>)})
  \oplus OnExternalRole(c.target, "repository_source", made, {V(<<"repository_source">>)} \cup uses)

CodeCommitBuild(c, P) ==
  Unless(ResolveRepositorySourceRefuses(c, P),
    RepositorySource(c, {"repository_arn", "repository_name", "clone_url_http"}, {},
                     {V(<<"service_role">>), V(<<"source_type">>)}))

(* A pipeline has an artifact store, its own or a connected one. *)
ResolvePipelineSourceRefuses(c, P) == SoleSourceRefuses(c, P)

CodeCommitPipeline(c, P) ==
  Unless(ResolvePipelineSourceRefuses(c, P),
    RepositorySource(c, {"repository_arn", "repository_name"},
      {<<"local", "repository_action">>, <<"local", "repository_stages">>},
      {V(<<"role_arn">>), V(<<"stages_json">>), V(<<"artifact_bucket_name">>)}))

CodePipelineS3(c, P) ==
  LET keys == ManagedKeys(c.target, P) IN
  Unless(~c.fit \/ Cardinality({d.target : d \in OutOf(c, P)}) # 1 \/ Cardinality(keys) > 1,
    Mark(c.source, "managed_artifacts")
    \oplus In(c.source, <<"artifact_bucket_name">>, {<<c.target, "bucket_name">>})
    \oplus In(c.source, <<"artifact_bucket_arn">>, {<<c.target, "bucket_arn">>})
    \oplus Each(keys, LAMBDA key : In(c.source, <<"artifact_kms_key_arn">>, {<<key, "key_arn">>}))
    \oplus File(c.source, <<"artifact_policy">>, {<<"aws_iam_role_policy", "artifacts">>},
                {V(<<"artifact_bucket_arn">>), V(<<"role_arn">>)}
                \cup (IF keys = {} THEN {} ELSE {V(<<"artifact_kms_key_arn">>)})
                \cup (IF {d \in Of(PipelineSource, P) : d.target = c.source} = {} THEN {}
                      ELSE {V(<<"repository_source">>), <<"data.aws_iam_role", "repository_source">>,
                            <<"local", "repository_action">>, <<"local", "repository_stages">>}
                           \cup Identity(<<"repository_source">>))))
-----------------------------------------------------------------------------
(* Container images: the slot is the container; one repository serves it.     *)

RepositoryOutputs(c) ==
  Out(c.source, <<"repository_name">>, {<<"aws_ecr_repository", c.source>>})
Repositories(c, P) ==
  {<<d.source, o>> : d \in Into(c, P), o \in {"repository_arn", "repository_name", "repository_url"}}

ResolveRegistryImagesRefuses(c, P) == LET peers == Into(c, P) IN Unfit(peers) \/ Remote(peers) \/ Clash(peers)

EcrEcs(c, P) ==
  Unless(ResolveRegistryImagesRefuses(c, P),
    Mark(c.target, "registry_images") \oplus RepositoryOutputs(c)
    \oplus In(c.target, <<"registry_images">>, Repositories(c, P))
    \oplus Out(c.target, <<"registry_images">>, {<<"local", "registry_images">>})
    \oplus File(c.target, <<"registry_images">>,
                {<<"aws_iam_role_policy", "registry_images">>, <<"local", "registry_images">>}
                \cup Identity(<<"registry_images">>),
                {<<"aws_iam_role", c.target, "role">>, V(<<"registry_images">>)}))

ResolveEksImagesRefuses(c, P) == ResolveRegistryImagesRefuses(c, P)

EcrEks(c, P) ==
  LET policy == <<"aws_iam_role_policy", "registry_images">>
      cluster == <<"aws_eks_cluster", c.target>>
      made == {<<"local", "registry_" \o n>> : n \in {"containers", "image_bindings", "image_patches", "pull_roles",
                                                        "role_types", "workloads"}} IN
  Unless(ResolveEksImagesRefuses(c, P),
    RepositoryOutputs(c)
    \oplus In(c.target, <<"registry_images">>, Repositories(c, P))
    \oplus Out(c.target, <<"ecr_image_bindings">>, {<<"local", "registry_image_bindings">>, cluster, policy})
    \oplus Out(c.target, <<"ecr_image_patches">>, {<<"local", "registry_image_patches">>, cluster, policy})
    \oplus Out(c.target, <<"ecr_image_target">>, {cluster, policy})
    \oplus File(c.target, <<"registry_images">>,
                {policy, <<"data.aws_iam_role", "registry_images">>} \cup made \cup Identity(<<"registry_images">>),
                {cluster, V(<<"cluster_role_arn">>), V(<<"registry_images">>)})
    \oplus File(c.target, <<"ECR-IMAGES.md">>, {}, {}))
=============================================================================
