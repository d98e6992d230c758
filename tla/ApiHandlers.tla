----------------------------- MODULE ApiHandlers -----------------------------
(* The handlers that put routes, resolvers and authentication on API Gateway, *)
(* AppSync and load balancer listeners.                                       *)
EXTENDS Contributions

RouteHandler == <<"api-gateway", "lambda", "route_handler">>
StartsExecution == <<"api-gateway", "step-functions", "starts_execution">>
JwtRoutes == <<"cognito", "api-gateway", "authenticates">>
AlbListener == <<"load-balancer", "target-group", "forwards_to">>
AlbAuthentication == <<"cognito", "load-balancer", "authenticates">>
AlbCertificate == <<"certificate-manager", "load-balancer", "secures">>
-----------------------------------------------------------------------------
(* API Gateway and Lambda: the slot of a route handler is its route.          *)

LambdaWiring(api, function) ==
  Out(function, <<"invoke_arn">>, {<<"aws_lambda_function", function>>})
  \oplus Out(function, <<"function_name">>, {<<"aws_lambda_function", function>>})
  \oplus Peer(api, function, "invoke_arn", "invoke_arn")
  \oplus Peer(api, function, "function_name", "function_name")

(* A piece of the API: one file holding one resource. *)
ApiPart(api, file, declares, uses) ==
  File(api, file, {declares}, {<<"aws_apigatewayv2_api", api>>} \cup uses)
Invokes(function) == {V(<<Safe[function], "invoke_arn">>)}
Permits(function) == {V(<<Safe[function], "function_name">>)}

(* The routes a Cognito pool guards: an HTTP route another connection or the  *)
(* API itself has, claimed by one pool, and never a workflow's.               *)
JwtRefuses(api, P) ==
  LET peers == {d \in Of(JwtRoutes, P) : d.target = api}
      served == {d.slot : d \in {e \in Of(RouteHandler, P) : e.source = api}} IN
  \/ Unfit(peers) \/ Clash(peers)
  \/ \E d \in peers : d.slot \notin served
  \/ \E d \in peers, e \in Of(StartsExecution, P) : e.source = api /\ e.slot = d.slot

RouteToFunction(c, P) ==
  LET api == c.source  f == c.target
      integration == <<"aws_apigatewayv2_integration", Safe[f], "integration">>
      pools == {d.source : d \in {e \in Of(JwtRoutes, P) : e.target = api /\ e.slot = c.slot}} IN
  Unless(JwtRefuses(api, P),
    LambdaWiring(api, f)
    \oplus ApiPart(api, <<"integration", f>>, integration, Invokes(f))
    \oplus ApiPart(api, <<"route", f, c.slot>>, <<"aws_apigatewayv2_route", Safe[f], "route", c.slot>>,
                   {integration} \cup {<<"aws_apigatewayv2_authorizer", "cognito", pool>> : pool \in pools})
    \oplus ApiPart(api, <<"permission", f>>, <<"aws_lambda_permission", Safe[f], "permission">>, Permits(f)))

Authorizer(c) ==
  LET api == c.source  f == c.target IN
  LambdaWiring(api, f)
  \oplus ApiPart(api, <<"authorizer", f>>, <<"aws_apigatewayv2_authorizer", Safe[f], "authorizer">>, Invokes(f))
  \oplus ApiPart(api, <<"authorizer_permission", f>>,
                 <<"aws_lambda_permission", Safe[f], "authorizer_permission">>, Permits(f))

ApiGatewayLambda(c, P) == IF c.kind[3] = "authorizer" THEN Authorizer(c) ELSE RouteToFunction(c, P)

(* A workflow's routes belong to no other connection of the API. *)
WorkflowRefuses(c, P) ==
  \/ ~c.fit
  \/ \E d \in Of(StartsExecution, P) \cup Of(RouteHandler, P) :
       d.source = c.source /\ <<d.kind, d.target>> # <<c.kind, c.target>> /\ d.slot = c.slot
  \/ \E d \in Of(StartsExecution, P) : <<d.source, d.target>> = <<c.source, c.target>> /\ d.slot # c.slot

ApiGatewayStepFunctions(c, P) ==
  LET f == Safe[c.target] IN
  Unless(WorkflowRefuses(c, P),
    Peer(c.source, c.target, "state_machine_arn", "state_machine_arn")
    \oplus File(c.source, <<"workflow", c.target>>,
                {<<"aws_iam_role", f, "execution">>, <<"aws_iam_role_policy", f, "execution">>,
                 <<"aws_apigatewayv2_integration", f, "workflow">>, <<"aws_apigatewayv2_route", f, "workflow", c.slot>>},
                {<<"aws_apigatewayv2_api", c.source>>, V(<<f, "state_machine_arn">>)})
    \oplus MarkFor(c.source, "post", c.slot))
-----------------------------------------------------------------------------
(* Access logs: the slot is the stage, which logs to one group.               *)

LogsRefuse(c, P) == LET peers == OutOf(c, P) IN Unfit(peers) \/ Remote(peers) \/ Clash(peers)

ApiGatewayLogs(c, P) ==
  LET peers == OutOf(c, P) IN
  Unless(LogsRefuse(c, P),
    Speaks(c, peers,
      Each(peers, LAMBDA d : MarkFor(c.source, "stage_logs", d.slot))
      \oplus In(c.source, <<"api_access_logs">>, {<<d.target, "log_group_arn">> : d \in peers})
      \oplus File(c.source, <<"access_logs">>, Identity(<<"api_access_logs">>), {})))
-----------------------------------------------------------------------------
(* AppSync: the slot is the GraphQL field. One data source resolves a field;  *)
(* each handler looks at the kinds it must not collide with.                  *)

Resolver(service) == <<"appsync", service, "resolves_with">>

(* Fault: the other kinds of data source are not looked at. *)
FieldsRefuseAlone(c, P, others) == LET peers == OutOf(c, P) IN Unfit(peers) \/ Clash(peers)

FieldsRefuse(c, P, others) ==
  LET peers == OutOf(c, P)
      rivals == {d \in UNION {Of(Resolver(o), P) : o \in others} : d.source = c.source} IN
  \/ Unfit(peers) \/ Clash(peers)
  \/ \E d \in peers, e \in rivals : d.slot = e.slot

(* The role a data source assumes, its policy and the data source itself. *)
DataSource(api, kind, target, policy, uses) ==
  File(api, <<kind, "datasource", target>>,
       {<<"aws_iam_role", kind, target, "role">>, <<"aws_iam_role_policy", kind, target, policy>>,
        <<"aws_appsync_datasource", kind, target>>},
       {<<"aws_appsync_graphql_api", api>>} \cup uses)

(* The first connection to a kind of data source renders them all. *)
Resolves(c, P, others, policy, outputs) ==
  LET api == c.source  kind == c.kind[2]  peers == OutOf(c, P)
      name(target, output) == <<"appsync", target, output[2]>>
      source(target) ==
        DataSource(api, kind, target, policy, {V(name(target, o)) : o \in outputs})
        \oplus Each(outputs, LAMBDA o : In(api, name(target, o), {<<target, o[1]>>}))
      resolver(d) ==
        File(api, <<kind, d.slot>>, {<<"aws_appsync_resolver", d.slot>>},
             {<<"aws_appsync_graphql_api", api>>, <<"aws_appsync_datasource", kind, d.target>>}) IN
  Speaks(c, peers,
    Unless(FieldsRefuse(c, P, others), Each({d.target : d \in peers}, source) \oplus Each(peers, resolver)))

AppSyncLambda(c, P) == Resolves(c, P, {}, "invoke", {<<"function_arn", "function_arn">>})

(* A table's key, when the key handler has connected one, reaches the role. *)
TableKeys(table, P) ==
  {d.source : d \in {e \in Of(<<"kms", "dynamodb", "encrypts">>, P) : e.target = table}}
AppSyncDynamoDb(c, P) ==
  LET own == Resolves(c, P, {"lambda"}, "access", {<<"table_name", "table_name">>, <<"table_arn", "table_arn">>})
      key(table) == <<"appsync", table, "kms_key_arn">>
      encrypted(f) == {d.target : d \in {e \in OutOf(c, P) : TableKeys(e.target, P) # {}
                                                        /\ f.name = <<"dynamodb", "datasource", e.target>>}} IN
  [own EXCEPT !.files = {[f EXCEPT !.uses = @ \cup {V(key(table)) : table \in encrypted(f)}] : f \in @}]
  \oplus When(own.files # {},
              Each({d.target : d \in {e \in OutOf(c, P) : TableKeys(e.target, P) # {}}},
                   LAMBDA table : Each(TableKeys(table, P), LAMBDA k : In(c.source, key(table), {<<k, "key_arn">>}))))

AppSyncOpenSearch(c, P) ==
  LET own == Resolves(c, P, {"lambda", "dynamodb"}, "access",
                      {<<"domain_arn", "domain_arn">>, <<"domain_endpoint", "domain_endpoint">>}) IN
  own \oplus When(own.files # {}, Each({d.target : d \in OutOf(c, P)}, LAMBDA x : Mark(x, "index_client_access")))

AppSyncEventBridge(c, P) ==
  Resolves(c, P, {"lambda", "dynamodb", "opensearch"}, "publish", {<<"event_bus_arn", "event_bus_arn">>})

AppSyncAurora(c, P) ==
  LET own == Resolves(c, P, {"lambda", "dynamodb", "opensearch", "eventbridge"}, "access",
                      {<<"data_api_cluster_arn", "cluster_arn">>, <<"database_name", "database_name">>}) IN
  own \oplus When(own.files # {}, Each({d.target : d \in OutOf(c, P)}, LAMBDA x : Mark(x, "appsync_data_api")))
-----------------------------------------------------------------------------
(* Cognito. On AppSync the slot is the mode: one pool is the default.         *)

CognitoAppSync(c, P) ==
  LET peers == Into(c, P)  api == c.target
      region(pool) == Out(pool, <<"appsync_user_pool_region">>, {<<"aws_cognito_user_pool", pool>>})
      provider(pool) ==
        region(pool) \oplus In(api, <<"cognito", pool, "user_pool_id">>, {<<pool, "user_pool_id">>})
        \oplus In(api, <<"cognito", pool, "region">>, {<<pool, "appsync_user_pool_region">>})
        \oplus In(api, <<"cognito", pool, "client_id">>, {<<pool, "client_id">>}) IN
  Speaks(c, peers,
    Unless(Unfit(peers) \/ Cardinality({d \in peers : d.slot = "default"}) > 1,
      Each({d.source : d \in peers}, LAMBDA pool : MarkFor(api, "cognito", pool) \oplus provider(pool))))

CognitoApiGateway(c, P) ==
  LET peers == Into(c, P)  api == c.target
      authorizer(pool) ==
        ApiPart(api, <<"cognito_authorizer", pool>>, <<"aws_apigatewayv2_authorizer", "cognito", pool>>,
                {V(<<"cognito", pool, "endpoint">>), V(<<"cognito", pool, "client_id">>)})
        \oplus In(api, <<"cognito", pool, "endpoint">>, {<<pool, "endpoint">>})
        \oplus In(api, <<"cognito", pool, "client_id">>, {<<pool, "client_id">>}) IN
  Speaks(c, peers,
    Unless(JwtRefuses(api, P),
      Mark(api, "jwt") \oplus Each({d.source : d \in peers}, authorizer)))

(* A listener that authenticates: it forwards to one target group over HTTPS, *)
(* and one pool claims its port. The slot is the port; the refs of a listener *)
(* are its protocol.                                                          *)
ListenersRefuse(c, P) ==
  LET peers == Into(c, P)  balancer == c.target
      forwards == {d \in Of(AlbListener, P) : d.source = balancer} IN
  \/ Unfit(peers) \/ Remote(peers) \/ Clash(peers)
  \/ {d \in Of(AlbCertificate, P) : d.target = balancer} = {}
  \/ \E d \in peers :
       LET groups == {f.target : f \in {g \in forwards : g.slot = d.slot}} IN
       \/ Cardinality(groups) # 1
       \/ \E f \in forwards : f.slot = d.slot /\ f.refs # <<"HTTPS">>
       \/ \E f \in forwards : \E g \in groups :
            \/ f.target = g /\ f.slot # d.slot
            \/ f.target # g /\ Safe[f.target] = Safe[g]

CognitoLoadBalancer(c, P) ==
  LET input(what) == <<"cognito", c.source, what>> IN
  Unless(ListenersRefuse(c, P),
    Each({"user_pool_id", "user_pool_arn", "user_pool_domain"},
         LAMBDA what : In(c.target, input(what), {<<c.source, what>>}))
    \oplus File(c.target, <<"cognito_client", c.source, c.slot>>,
                {<<"aws_cognito_user_pool_client", c.source, c.slot>>}, {V(input("user_pool_id"))}))
-----------------------------------------------------------------------------
(* Global Accelerator: a listener and an endpoint group per load balancer.    *)

AcceleratorLoadBalancer(c) ==
  LET lb == Safe[c.target]  listener == <<"aws_globalaccelerator_listener", lb, "listener">> IN
  Peer(c.source, c.target, "load_balancer_arn", "load_balancer_arn")
  \oplus File(c.source, <<"listener", lb>>, {listener}, {<<"aws_globalaccelerator_accelerator", c.source>>})
  \oplus File(c.source, <<"endpoint_group", lb>>, {<<"aws_globalaccelerator_endpoint_group", lb, "group">>},
              {listener, V(<<lb, "load_balancer_arn">>)})
=============================================================================
