---------------------------- MODULE ClientHandlers ----------------------------
(* Clients of databases, caches, brokers and search domains. All of them       *)
(* refuse a store whose configuration does not admit the client, then mark it  *)
(* so that its generator enables the access.                                   *)
EXTENDS DataHandlers

(* An IAM client of a store: one output <<prefix, store>> \o name describes    *)
(* it, from the fields it needs; the grants name further variables.            *)
IamClient(c, prefix, own, fields, resource, name, described, granted) ==
  Mark(c.target, "client_access")
  \oplus Client(c, prefix, own, fields, resource)
  \oplus Out(c.source, <<prefix, c.target>> \o name, ClientVars(c, prefix, described))
  \oplus When(granted # {}, Grant(c.source, granted))

DatabaseAccess(c) ==
  LET resource == IF c.kind[2] = "rds" THEN "aws_db_instance" ELSE "aws_rds_cluster"
      told == {"host", "port", "region"} IN
  Unless(~c.fit,
    Mark(c.target, "client_access")
    \oplus Client(c, "database", "iam_database_", told \cup {"iam_resource_arn"}, resource)
    \oplus Republish(c, "database", told)
    \oplus Grant(c.source, ClientVars(c, "database", {"iam_resource_arn"})))

NeptuneAccess(c) ==
  LET fields == {"data_arn", "host", "port", "reader_host", "region"} IN
  Unless(~c.fit,
    Mark(c.target, "client_access")
    \oplus Client(c, "neptune", "graph_client_", fields, "aws_neptune_cluster")
    \oplus Republish(c, "neptune", fields)
    \oplus Grant(c.source, ClientVars(c, "neptune", {"data_arn"})))

DocumentDbAccess(c) ==
  LET fields == {"host", "port", "reader_host"} IN
  Unless(~c.fit,
    Mark(c.target, "client_access") \oplus When(c.kind[1] = "ecs", Mark(c.source, "task_role"))
    \oplus Client(c, "documentdb", "iam_client_", fields, "aws_docdb_cluster")
    \oplus Out(c.source, <<"documentdb", c.target, "iam_client">>,
               ClientVars(c, "documentdb", fields) \cup {<<"aws_iam_role", c.source, "role">>}))

MskAccess(c) ==
  LET arns == {"cluster_arn", "topic_arn_prefix"} \cup (IF c.kind[3] = "reads_from" THEN {"group_arn_prefix"} ELSE {}) IN
  Unless(~c.fit,
    IamClient(c, "msk", "iam_client_", arns \cup {"bootstrap_brokers", "region"}, "aws_msk_cluster", <<c.slot>>,
              {"bootstrap_brokers", "region"}, ClientVars(c, "msk", arns)))

OpenSearchAccess(c) ==
  IamClient(c, "opensearch", "index_client_", {"domain_arn", "endpoint", "region"}, "aws_opensearch_domain", <<c.slot>>,
            {"endpoint", "region"}, ClientVars(c, "opensearch", {"domain_arn"}))

ElastiCacheClient(c) ==
  LET fields == {"configuration_endpoint", "engine", "nodes", "tls"} IN
  Unless(~c.fit,
    IamClient(c, "elasticache", "client_", fields, "aws_elasticache_cluster", <<"client">>, fields, {}))

ServerlessCacheIam(c) ==
  LET user == <<"serverless", c.target, "user", c.slot, "arn">>
      told == {"cache_name", "engine", "host", "port", "region"} IN
  Unless(~c.fit,
    IamClient(c, "serverless", "iam_client_", told \cup {"cache_arn"}, "aws_elasticache_serverless_cache",
              <<"user", c.slot>>, told, {V(user)} \cup ClientVars(c, "serverless", {"cache_arn"}))
    \oplus In(c.source, user, {<<c.target, "iam_client_user", c.slot, "arn">>})
    \oplus Out(c.target, <<"iam_client_user", c.slot, "arn">>, {<<"aws_elasticache_serverless_cache", c.target>>}))

MemoryDbAccess(c) ==
  LET user == <<"iam_user", c.slot>>
      arn == <<"memorydb", c.target, "iam_user", c.slot, "arn">>
      told == {"cluster_name", "host", "port", "region"} IN
  Unless(~c.fit,
    IamClient(c, "memorydb", "iam_client_", told \cup {"cluster_arn"}, "aws_memorydb_cluster",
              user, told, {V(arn)} \cup ClientVars(c, "memorydb", {"cluster_arn"}))
    \oplus In(c.source, arn, {<<c.target>> \o user \o <<"arn">>})
    \oplus Out(c.target, user \o <<"arn">>, {<<"data.aws_memorydb_user">> \o user})
    \oplus File(c.target, <<"iam_client_acl">>, {<<"data.aws_memorydb_acl", "iam_client">>}, {V(<<"acl_name">>)})
    \oplus File(c.target, user, {<<"data.aws_memorydb_user">> \o user}, {<<"data.aws_memorydb_acl", "iam_client">>}))

MqClient(c) ==
  LET endpoints == <<"mq", c.target, c.slot, "endpoints">> IN
  In(c.source, endpoints, {<<c.target, "client", c.slot, "endpoints">>})
  \oplus Out(c.target, <<"client", c.slot, "endpoints">>, {<<"aws_mq_broker", c.target>>})
  \oplus Out(c.source, <<"mq", c.target, c.slot, "client">>, {V(endpoints)})
-----------------------------------------------------------------------------
(* TableAccessHandler: the binding is named by a digest of store and table. *)
TableAccess(c, resource, more) ==
  LET binding == <<"table_access", c.target, c.slot>>
      fields == {"database_name", "region", "table_arn"} IN
  more
  \oplus Each(fields, LAMBDA f :
           Out(c.target, Append(binding, f), {<<resource, c.target>>})
           \oplus In(c.source, Append(binding, f), {<<c.target>> \o Append(binding, f)}))
  \oplus Out(c.source, binding, {V(Append(binding, f)) : f \in fields})
  \oplus Grant(c.source, {V(Append(binding, "table_arn"))})

TimestreamAccess(c) == TableAccess(c, "aws_timestreamwrite_database", Nothing)

KeyspacesAccess(c) ==
  LET system == <<"keyspaces", c.target, "system_arn">> IN
  TableAccess(c, "aws_keyspaces_keyspace",
    Out(c.target, <<"client_system_keyspaces_arn">>, {<<"aws_keyspaces_keyspace", c.target>>})
    \oplus In(c.source, system, {<<c.target, "client_system_keyspaces_arn">>})
    \oplus Grant(c.source, {V(system)}))
=============================================================================
