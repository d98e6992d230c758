---------------------------- MODULE DataHandlers ----------------------------
(* The handlers that give a function or a task access to a data store: the    *)
(* store publishes what a client needs, the client takes it as variables,     *)
(* republishes it for its application and gets the permissions it needs.      *)
(* The slot of a connection is the table, topic, index, user or protocol.     *)
EXTENDS KeyHandlers

(* Variables <<prefix, store, field>> read the outputs <<own \o field>>. *)
ClientInputs(c, prefix, own, fields) ==
  Each(fields, LAMBDA f : In(c.source, <<prefix, c.target, f>>, {<<c.target, own \o f>>}))
ClientOutputs(c, own, fields, resource) ==
  Each(fields, LAMBDA f : Out(c.target, <<own \o f>>, {<<resource, c.target>>}))
Client(c, prefix, own, fields, resource) ==
  ClientInputs(c, prefix, own, fields) \oplus ClientOutputs(c, own, fields, resource)
ClientVars(c, prefix, fields) == {V(<<prefix, c.target, f>>) : f \in fields}

(* The application reads each field, or all of them from one output. *)
Republish(c, prefix, fields) ==
  Each(fields, LAMBDA f : Out(c.source, <<prefix, c.target, f>>, {V(<<prefix, c.target, f>>)}))
-----------------------------------------------------------------------------
IamGrant(c, P) ==
  LET resource == CASE c.kind[2] = "dynamodb" -> "aws_dynamodb_table" [] c.kind[2] = "s3" -> "aws_s3_bucket"
                    [] c.kind[2] = "sns" -> "aws_sns_topic" [] c.kind[2] = "sqs" -> "aws_sqs_queue" IN
  Grant(c.source, {<<resource, c.target, "arn">>})
  \oplus (IF c.kind[2] = "dynamodb" THEN Nothing ELSE Augment(c.source, c.target, P))

KinesisAccess(c) ==
  LET fields == {"arn", "name"} IN
  Each(fields, LAMBDA f : In(c.source, <<"kinesis", c.target, f>>, {<<c.target, "stream_" \o f>>}))
  \oplus Republish(c, "kinesis", fields)
  \oplus Grant(c.source, {V(<<"kinesis", c.target, "arn">>)})

DynamoDBLambda(c) ==
  Out(c.source, <<"stream_arn">>, {<<"aws_dynamodb_table", c.source>>})
  \oplus Peer(c.target, c.source, "stream_arn", "stream_arn")
  \oplus File(c.target, <<"stream", c.source>>,
              Labelled({"aws_lambda_event_source_mapping"}, <<Safe[c.source], "stream">>),
              {<<"aws_lambda_function", c.target>>, V(<<Safe[c.source], "stream_arn">>)})
  \oplus Grant(c.target, {<<"aws_dynamodb_table", c.source, "stream_arn">>})

SQSLambda(c, P) ==
  LET f == c.target  queue == V(<<Safe[c.source], "queue_arn">>) IN
  Out(c.source, <<"arn">>, {<<"aws_sqs_queue", c.source>>})
  \oplus Peer(f, c.source, "queue_arn", "arn")
  \oplus File(f, <<"event_source", c.source>>,
              Labelled({"aws_lambda_event_source_mapping"}, <<Safe[c.source], "event_source">>),
              {<<"aws_iam_role_policy", f, "policy">>, <<"aws_lambda_function", f>>, queue})
  \oplus File(f, <<"permission", c.source>>, Labelled({"aws_lambda_permission"}, <<Safe[c.source], "permission">>),
              {<<"aws_lambda_function", f>>, queue})
  \oplus Grant(f, {<<"aws_sqs_queue", c.source, "arn">>})
  \oplus Augment(f, c.source, P)

SQSECS(c, P) ==
  LET t == c.target  v(a) == <<"sqs", c.source, a>> IN
  Each({"arn", "url"}, LAMBDA a : In(t, v(a), {<<c.source, "queue_" \o a>>}) \oplus Out(t, v(a), {V(v(a))}))
  \oplus Out(t, v("region"), {V(v("arn"))})
  \oplus Grant(t, {V(v("arn"))})
  \oplus Augment(t, c.source, P)
-----------------------------------------------------------------------------
(* Dead letters. A queue has one dead-letter queue, of its own sort, takes    *)
(* the letters of at most ten, and no queue is its own at any distance.       *)
(* The slot is the number of receives allowed.                                *)

MaxSources == 10

(* The queues reached from q along the links. *)
Reached(q, links) ==
  LET step(S) == S \cup {d.target : d \in {e \in links : e.source \in S}}
      f[n \in 0..Cardinality(links)] == IF n = 0 THEN {d.target : d \in {e \in links : e.source = q}} ELSE step(f[n - 1]) IN
  f[Cardinality(links)]

DeadLetterRefuses(c, P) ==
  LET links == Of(c.kind, P)  peers == Into(c, P) IN
  \/ \E d, e \in links : d.source = e.source /\ (d.target # e.target \/ d.slot # e.slot)
  \/ \E d \in links : d.source \in Reached(d.source, links)
  \/ Cardinality({d.source : d \in peers}) > MaxSources
  \/ Unfit(peers)

SQSDeadLetter(c, P) ==
  LET t == c.target
      allow == <<"aws_sqs_queue_redrive_allow_policy", "connected_sources">>
      sources == {d.source : d \in Into(c, P)}
      fields == {"arn", "url", "fifo_queue"}
      v(q, a) == <<"redrive", q, a>> IN
  Unless(DeadLetterRefuses(c, P),
    Each(sources, LAMBDA q :
      Each(fields, LAMBDA a : Out(q, <<"redrive_" \o a>>, {<<"aws_sqs_queue", q>>})
                              \oplus In(t, v(q, a), {<<q, "redrive_" \o a>>}))
      \oplus File(t, <<"redrive", q>>, {<<"aws_sqs_queue_redrive_policy", "source", q>>},
                  {<<"aws_sqs_queue", t>>, allow} \cup {V(v(q, a)) : a \in fields}))
    \oplus File(t, <<"redrive_allow">>, {allow}, {<<"aws_sqs_queue", t>>} \cup {V(v(q, "arn")) : q \in sources}))

LambdaDeadLetter(c, P) ==
  LET destinations == {P[i].target : i \in {j \in DOMAIN P : P[j].source = c.source /\ P[j].kind[3] = "dead_letters_to"}}
      attribute == IF c.kind[2] = "sqs" THEN "queue_arn" ELSE "topic_arn" IN
  Unless(Cardinality(destinations) # 1 \/ ~c.fit,
    In(c.source, <<"dead_letter_target_arn">>, {<<c.target, attribute>>})
    \oplus Grant(c.source, {V(<<"dead_letter_target_arn">>)})
    \oplus Augment(c.source, c.target, P))
-----------------------------------------------------------------------------
(* Where a function writes its logs and its traces. *)

LambdaCloudWatch(c, P) ==
  LET groups == {P[i].target : i \in {j \in DOMAIN P : P[j].source = c.source /\ P[j].kind[2] = "cloudwatch"}} IN
  Unless(Cardinality(groups) > 1,
    Mark(c.source, "managed_log_group")
    \oplus Peer(c.source, c.target, "log_group_arn", "log_group_arn")
    \oplus In(c.source, <<"logging_log_group">>, {<<c.target, "log_group_name">>})
    \oplus Out(c.target, <<"log_group_name">>, {V(<<"log_group_name">>)})
    \oplus Grant(c.source, {V(<<Safe[c.target], "log_group_arn">>)})
    \oplus Augment(c.source, c.target, P))

(* group_membership_contribution: the members a trace group filters on. *)
GroupMembership(group, members, input, arn, name) ==
  In(group, <<input>>, UNION {{<<x, arn>>, <<x, name>>} : x \in members})
  \oplus Out(group, <<"trace_filter_expression">>, {<<"aws_xray_group", group>>})
  \oplus File(group, <<"xray_tracing">>, Identity(<<"xray_tracing">>), {})

LambdaXRay(c, P) ==
  Unless(Unfit(Into(c, P)),
    Mark(c.source, "xray") \oplus Mark(c.target, "lambda_tracing")
    \oplus GroupMembership(c.target, {d.source : d \in Into(c, P)}, "xray_lambda_functions",
                           "function_arn", "function_name")
    \oplus File(c.source, <<"xray_tracing">>,
                {<<"aws_iam_role_policy", c.source, "xray">>, <<"data.aws_region", "lambda_xray">>},
                {<<"aws_iam_role", c.source, "role">>}))
=============================================================================
