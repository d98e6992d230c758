---------------------------- MODULE MountHandlers ----------------------------
(* File systems mounted by machines, tasks, clusters and functions, and the    *)
(* instances a command document runs on. The slot of a mount is its container, *)
(* or its claim on a cluster; its refs are <<path>> followed by the paths it   *)
(* lies under; "other" is the node role of a cluster. "fit" includes the       *)
(* placement of file system and consumer.                                      *)
EXTENDS WorkflowHandlers

Mounts(c, P) == {P[i] : i \in {j \in DOMAIN P : P[j].target = c.target /\ P[j].kind[1] = "efs" /\ P[j].kind[3] = "mounts"}}
MountName(d) == <<"efs", d.target, d.source, d.slot, d.refs[1]>>
MountFields == {"filesystem_id", "filesystem_arn", "access_point_id"}
MountVars(d, fields) == {V(Append(MountName(d), f)) : f \in fields}

(* EfsClientMounts: a path of a container is one file system's, and no path   *)
(* of a container lies under another.                                         *)
MountRefused(c, P) ==
  \/ Unfit(Mounts(c, P))
  \/ \E d, e \in Mounts(c, P) : d.slot = e.slot /\
       \/ d.refs[1] = e.refs[1] /\ d.source # e.source
       \/ \E i \in 2..Len(d.refs) : d.refs[i] = e.refs[1]

BuildMounts(c, P) ==
  Each(Mounts(c, P), LAMBDA d :
    LET name == MountName(d)  fs == d.source
        system == <<"aws_efs_file_system", fs>>
        point == <<"aws_efs_access_point">> \o name IN
    File(fs, name, {point}, {system})
    \oplus Each(MountFields, LAMBDA f :
         In(c.target, Append(name, f), {<<fs>> \o Append(name, f)})
         \oplus Out(fs, Append(name, f),
                    {<<"aws_efs_mount_target", fs>>, IF f = "access_point_id" THEN point ELSE system})))

(* The file of locals that lists the mounts for the consumer's generator. *)
MountsFile(c, P, more) ==
  Mark(c.target, "mounts_efs")
  \oplus File(c.target, <<"efs_mounts">>, {<<"local", "efs_mounts">>} \cup more,
              UNION {MountVars(d, MountFields) : d \in Mounts(c, P)})
-----------------------------------------------------------------------------
EfsEc2Mount(c, P) ==
  Unless(MountRefused(c, P),
    BuildMounts(c, P) \oplus MountsFile(c, P, {<<"local", "install_efs_utils">>})
    \oplus Ec2RuntimeRole(c.target)
    \oplus File(c.target, <<"efs_bootstrap.sh.tftpl">>, {}, {})
    \oplus File(c.target, <<"efs_policy">>, {<<"aws_iam_role_policy", "efs_mounts">>},
                {<<"aws_iam_role", c.target, "role">>} \cup UNION {MountVars(d, {"filesystem_arn"}) : d \in Mounts(c, P)}))

EfsEcsMount(c, P) ==
  Unless(MountRefused(c, P),
    BuildMounts(c, P) \oplus MountsFile(c, P, {})
    \oplus Each(Mounts(c, P), LAMBDA d : Grant(c.target, {<<"aws_efs_file_system", d.source, "arn">>})))

(* The CSI driver and one policy per node role, which the manifests await. *)
EfsEksMount(c, P) ==
  LET t == c.target  mounts == Mounts(c, P)
      policy(role) == <<"aws_iam_role_policy", "efs_node", role>>
      ready == {<<"aws_eks_addon", "efs_csi">>} \cup {policy(d.other) : d \in mounts}
      manifests == <<"local", "efs_storage_manifests">> IN
  Unless(MountRefused(c, P) \/ \E d, e \in mounts : d.slot = e.slot /\ d.refs[1] # e.refs[1],
    BuildMounts(c, P)
    \oplus File(t, <<"efs_csi">>, {<<"aws_eks_addon", "efs_csi">>}, {<<"aws_eks_cluster", t>>})
    \oplus Each(mounts, LAMBDA d :
         In(t, <<"efs_node", d.other>>, {})
         \oplus File(t, <<"efs_node", d.other>>, {policy(d.other)},
                     {V(<<"efs_node", d.other>>)}
                     \cup UNION {MountVars(e, {"filesystem_arn"}) : e \in {f \in mounts : f.other = d.other}}))
    \oplus File(t, <<"efs_manifests">>, {manifests},
                UNION {MountVars(d, {"filesystem_id", "access_point_id"}) : d \in mounts})
    \oplus Out(t, <<"efs_storage_manifests">>, {manifests} \cup ready)
    \oplus Out(t, <<"efs_workload_mounts">>, ready)
    \oplus File(t, <<"EFS-MOUNTS.md">>, {}, {}))

(* A function mounts one file system. *)
EfsLambdaMount(c, P) ==
  LET fs == c.source  f == c.target
      point == <<"aws_efs_access_point", Safe[f], "access_point">> IN
  Unless(~c.fit \/ Cardinality({<<d.source, d.refs>> : d \in Mounts(c, P)}) # 1,
    Mark(f, "mounts_efs")
    \oplus In(f, <<"file_system_arn">>, {<<fs, Safe[f], "access_point_arn">>})
    \oplus In(f, <<"file_system_local_mount_path">>, {})
    \oplus Out(fs, <<Safe[f], "access_point_arn">>, {point, <<"aws_efs_mount_target", fs>>})
    \oplus File(fs, <<Safe[f], "access_point">>, {point}, {<<"aws_efs_file_system", fs>>})
    \oplus Grant(f, {<<"aws_efs_file_system", fs, "arn">>}))
-----------------------------------------------------------------------------
(* Associations: the slot is the schedule and the parameters; an instance has *)
(* one of each document.                                                      *)
ResolveAssociationsRefuses(c, P) ==
  LET peers == OutOf(c, P) IN
  Unfit(peers) \/ Remote(peers) \/ \E d, e \in peers : d.target = e.target /\ d.slot # e.slot

SsmEc2(c, P) ==
  LET s == c.source  peers == OutOf(c, P)
      node(x) ==
        Mark(x, "managed_ssm") \oplus Ec2RuntimeRole(x)
        \oplus File(x, <<"ssm_node">>, {<<"aws_iam_role_policy_attachment", "ssm_core">>, <<"data.aws_partition", "ssm_node">>},
                    {<<"aws_iam_role", x, "role">>})
        \oplus Out(x, <<"ssm_node">>, {<<"aws_iam_instance_profile", "runtime_secrets">>, <<"aws_instance", x>>}) IN
  Unless(ResolveAssociationsRefuses(c, P), Speaks(c, peers,
    Each({d.target : d \in peers}, node)
    \oplus In(s, <<"ec2_associations">>, {<<d.target, "ssm_node">> : d \in peers})
    \oplus File(s, <<"ec2_associations">>,
                {<<"aws_ssm_association", "ec2">>, <<"local", "ssm_association_document">>,
                 <<"local", "ssm_association_parameters">>} \cup Identity(<<"ssm_associations">>),
                {<<"aws_ssm_document", s>>, V(<<"ec2_associations">>)})
    \oplus Out(s, <<"ec2_associations">>, {<<"aws_ssm_association", "ec2">>})))
-----------------------------------------------------------------------------
(* Security services administered by a member account, the slot. One           *)
(* organization delegates all of them, a service to one account everywhere.    *)
Organization == "organizations"
Delegations(P) == {P[i] : i \in {j \in DOMAIN P : P[j].kind[1] = Organization /\ P[j].kind[3] = "delegates_admin"}}
ResolveDelegationsRefuses(P) ==
  LET peers == Delegations(P) IN
  \/ Unfit(peers) \/ Cardinality({d.source : d \in peers}) # 1
  \/ \E d, e \in peers : d.kind = e.kind /\ d.slot # e.slot
  \/ \E d, e \in peers :
       d.kind = e.kind /\ d.target # e.target /\ (d.remote = e.remote \/ d.kind[2] = "firewall-manager")

OrganizationDelegation(c, P) ==
  LET t == c.target  s == c.kind[2]
      admin == CASE s = "guardduty" -> <<"aws_guardduty_organization_admin_account", "organization_admin">>
                 [] s = "security-hub" -> <<"aws_securityhub_organization_admin_account", "organization_admin">>
                 [] s = "macie" -> <<"aws_macie2_organization_admin_account", "organization_admin">>
                 [] s = "inspector" -> <<"aws_inspector2_delegated_admin_account", "organization_admin">>
                 [] s = "firewall-manager" -> <<"aws_fms_admin_account", t>>
      service == CASE s = "guardduty" -> {<<"aws_guardduty_detector", t>>} [] s = "security-hub" -> {<<"aws_securityhub_account", t>>}
                   [] s = "macie" -> {<<"aws_macie2_account", t>>} [] s = "inspector" -> {<<"aws_inspector2_enabler", t>>}
                   [] OTHER -> {}
      context == V(<<"organization_context">>)
      lookups == Identity(<<"organization_delegation">>)
      global == s = "firewall-manager" IN
  Unless(ResolveDelegationsRefuses(P),
    Each(Delegations(P), LAMBDA d : MarkFor(c.source, "delegates", d.kind[2]))
    \oplus When(Leads(c, OutOf(c, P) \cap Into(c, P)),
         Mark(t, "organization_delegation")
         \oplus In(t, <<"organization_context">>, {<<c.source, "delegation_context">>})
         \oplus In(t, <<"delegated_admin_account_id">>, {})
         \oplus File(t, <<"organization_delegation">>, lookups \cup (IF global THEN {} ELSE {admin}),
                     service \cup (IF global THEN {} ELSE {context, V(<<"delegated_admin_account_id">>)}))
         \oplus Out(t, <<"organization_delegation">>, {admin, context, <<"data.aws_region", "organization_delegation">>})))
=============================================================================
