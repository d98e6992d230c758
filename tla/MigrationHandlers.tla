-------------------------- MODULE MigrationHandlers --------------------------
(* The endpoints and the tasks of the database migration service. The slot of  *)
(* a connection is the identifier of its endpoint or task. An endpoint's refs  *)
(* are <<replication slot, database>>, the slot "" for none; a task's refs are *)
(* <<source endpoint, target endpoint, "full-load" or "cdc">>.                 *)
EXTENDS Contributions

Dms == "database-migration-service"
EndpointKinds == {"source_endpoint", "target_endpoint", "source_secret_endpoint", "target_secret_endpoint"}
OfDms(types, P) == {P[i] : i \in {j \in DOMAIN P : P[j].kind[1] = Dms /\ P[j].kind[3] \in types}}
Database(service, x) == <<IF service = "aurora" THEN "aws_rds_cluster" ELSE "aws_db_instance", x>>

(* validate_endpoint_identity: identifiers are unique across the project; the *)
(* same endpoint may be drawn twice.                                          *)
EndpointTaken(c, P) == \E d \in OfDms(EndpointKinds, P) : d.slot = c.slot /\ ~Twin(d, c)

Endpoint(c, fields, made) ==
  LET s == c.source  t == c.target  id == <<"endpoint", c.slot>> IN
  Each(fields, LAMBDA f :
    Out(t, <<"iam_database_" \o f>>, {Database(c.kind[2], t)})
    \oplus In(s, <<"dms_database", t, f>>, {<<t, "iam_database_" \o f>>}))
  \oplus File(s, id, {<<type>> \o id : type \in {"aws_dms_endpoint"} \cup made},
              {<<"aws_dms_replication_instance", s>>} \cup {V(<<"dms_database", t, f>>) : f \in fields}
              \cup (IF made = {} THEN {} ELSE {<<"data.aws_partition", "dms_endpoints">>}))
  \oplus Out(s, id \o <<"arn">>, {<<"aws_dms_endpoint">> \o id})

DmsDatabaseEndpoint(c, P) ==
  Unless(~c.fit \/ EndpointTaken(c, P),
    Mark(c.target, "client_access") \oplus Mark(c.source, "iam_endpoints")
    \oplus File(c.source, <<"dms_endpoint_partition">>, {<<"data.aws_partition", "dms_endpoints">>}, {})
    \oplus Endpoint(c, {"host", "port", "iam_resource_arn", "engine"}, {"aws_iam_role", "aws_iam_role_policy"}))

DmsSecretEndpoint(c, P) == Unless(~c.fit \/ EndpointTaken(c, P), Endpoint(c, {"engine"}, {}))
-----------------------------------------------------------------------------
(* The first endpoint of the instance with an identifier, in one direction. *)
Sources == {"source_endpoint", "source_secret_endpoint"}
Destinations == {"target_endpoint", "target_secret_endpoint"}
Matches(s, id, types, P) == {d \in OfDms(types, P) : d.source = s /\ d.slot = id}

(* Fault: only tasks that read the same endpoint are compared. *)
SlotSharedByEndpoint(c, source, P) ==
  /\ c.refs[3] = "cdc" /\ source.kind[3] = "source_secret_endpoint" /\ source.refs[1] # ""
  /\ \E d \in OfDms({"replication_task"}, P) :
       d.refs[3] = "cdc" /\ <<d.source, d.slot>> # <<c.source, c.slot>> /\ d.refs[1] = c.refs[1]

(* validate_cdc_source: a replication slot feeds one task. *)
SlotShared(c, source, P) ==
  /\ c.refs[3] = "cdc" /\ source.kind[3] = "source_secret_endpoint" /\ source.refs[1] # ""
  /\ \E d \in OfDms({"replication_task"}, P) :
       /\ d.refs[3] = "cdc" /\ <<d.source, d.slot>> # <<c.source, c.slot>>
       /\ \E e \in Matches(d.source, d.refs[1], {"source_secret_endpoint"}, P) :
            e.target = source.target /\ e.refs[1] = source.refs[1]

(* A task moves data from one database to another, of the same instance or  *)
(* not; its identifier is unique, though the same task may be drawn twice.  *)
TaskInvalid(c, P) ==
  \/ ~c.fit
  \/ \E d \in OfDms({"replication_task"}, P) : d.slot = c.slot /\ ~Twin(d, c)
  \/ ~\E source \in Matches(c.source, c.refs[1], Sources, P), target \in Matches(c.source, c.refs[2], Destinations, P) :
       Leads(source, Matches(c.source, c.refs[1], Sources, P)) /\ Leads(target, Matches(c.source, c.refs[2], Destinations, P))
       /\ target.target = c.target /\ <<source.target, source.refs[2]>> # <<target.target, target.refs[2]>>
       /\ ~SlotShared(c, source, P)

DmsReplicationTask(c, P) ==
  LET s == c.source
      task == <<"aws_dms_replication_task", "task", c.slot>> IN
  Unless(TaskInvalid(c, P),
    LET source == CHOOSE d \in Matches(s, c.refs[1], Sources, P) : Leads(d, Matches(s, c.refs[1], Sources, P)) IN
    File(s, <<"task", c.slot>>, {task},
         {<<"aws_dms_replication_instance", s>>, V(<<"dms_database", source.target, "engine">>)}
         \cup {<<"aws_dms_endpoint", "endpoint", c.refs[i]>> : i \in 1..2})
    \oplus Out(s, <<"task", c.slot, "arn">>, {task}))
=============================================================================
