-------------------------- MODULE PlacementHandlers --------------------------
(* Networks: what a resource is placed in, associated with, attached to, and   *)
(* where traffic is routed, forwarded or filtered.                             *)
EXTENDS ApiHandlers

(* ListPlacementHandler: every source of one sort, in one list. *)
ListPlacement(c, P, input, output) ==
  Mark(c.target, "managed_placement")
  \oplus In(c.target, <<input>>, {<<d.source, output>> : d \in Into(c, P)})

VpcPrefixed == {"lambda", "database-migration-service"}
SubnetListPlacement(c, P) == ListPlacement(c, P, IF c.kind[2] = "lambda" THEN "vpc_subnet_ids" ELSE "subnet_ids", "subnet_id")
SecurityGroupListAssociation(c, P) ==
  ListPlacement(c, P, IF c.kind[2] \in VpcPrefixed THEN "vpc_security_group_ids" ELSE "security_group_ids", "security_group_id")
SecurityGroupEC2Association(c, P) == SecurityGroupListAssociation(c, P)
TargetGroupPlacement(c, P) == ListPlacement(c, P, "target_group_arns", "target_group_arn")

(* One container: a second one of the same sort would claim the same input. *)
SubnetEC2Placement(c) == In(c.target, <<"subnet_id">>, {<<c.source, "subnet_id">>})
SubnetMembership(c) == In(c.target, <<"subnet_id">>, {<<c.source, "subnet_id">>})
VpcMembership(c) == In(c.target, <<"vpc_id">>, {<<c.source, "vpc_id">>})
Route53VpcAssociation(c) ==
  In(c.target, <<"vpc_id">>, {<<c.source, "vpc_id">>}) \oplus In(c.target, <<"private_zone">>, {})

LaunchTemplateAutoScaling(c, P) ==
  Unless(Cardinality({d.source : d \in Into(c, P)}) > 1,
    In(c.target, <<"launch_template_id">>, {<<c.source, "launch_template_id">>})
    \oplus In(c.target, <<"launch_template_version">>, {<<c.source, "latest_version">>}))

(* A volume has one instance and device, a device one volume; slot: device. *)
EbsAttachment(c, P) ==
  LET peers == Of(c.kind, P) IN
  Unless(\/ Cardinality({<<d.target, d.slot>> : d \in OutOf(c, P)}) # 1
         \/ Cardinality({d.source : d \in {e \in peers : e.target = c.target /\ e.slot = c.slot}}) # 1,
    In(c.source, <<"attached_instance_id">>, {<<c.target, "instance_id">>})
    \oplus In(c.source, <<"availability_zone">>, {<<c.target, "availability_zone">>})
    \oplus File(c.source, <<"attachment">>, {<<"aws_volume_attachment", "instance">>},
                {<<"aws_ebs_volume", c.source>>, V(<<"attached_instance_id">>)}))
-----------------------------------------------------------------------------
(* A resource of m that links it to a peer, named after the peer.             *)
(*   file   the prefix of its file    what   its type, suffix and own address *)
Links(m, peer, file, type, suffix, own, uses) ==
  LET x == Safe[peer] IN
  File(m, <<file, x>>, {<<type, x, suffix>>}, {<<own, m>>} \cup {V(<<x, u>>) : u \in uses})

GatewayRoute(c) ==
  LET gateway == CASE c.kind[1] = "internet-gateway" -> "internet_gateway_id" [] c.kind[1] = "nat-gateway" -> "nat_gateway_id"
                   [] c.kind[1] = "transit-gateway" -> "transit_gateway_id" IN
  Peer(c.target, c.source, "gateway_id", gateway)
  \oplus Links(c.target, c.source, "route", "aws_route", "route", "aws_route_table", {"gateway_id"})

RouteTableAssociation(c) ==
  Peer(c.target, c.source, "subnet_id", "subnet_id")
  \oplus Links(c.target, c.source, "association", "aws_route_table_association", "association", "aws_route_table", {"subnet_id"})

TargetGroupEC2Attachment(c) ==
  Peer(c.source, c.target, "instance_id", "instance_id")
  \oplus Links(c.source, c.target, "attachment", "aws_lb_target_group_attachment", "attachment", "aws_lb_target_group", {"instance_id"})

TargetGroupLambdaAttachment(c) ==
  LET permission == <<"aws_lambda_permission", Safe[c.target], "permission">> IN
  Peer(c.source, c.target, "function_arn", "function_arn")
  \oplus Peer(c.source, c.target, "function_name", "function_name")
  \oplus File(c.source, <<"attachment", Safe[c.target]>>, {<<"aws_lb_target_group_attachment", Safe[c.target], "attachment">>},
              {<<"aws_lb_target_group", c.source>>, permission, V(<<Safe[c.target], "function_arn">>)})
  \oplus Links(c.source, c.target, "permission", "aws_lambda_permission", "permission", "aws_lb_target_group", {"function_name"})

WafLoadBalancer(c) ==
  Peer(c.source, c.target, "load_balancer_arn", "load_balancer_arn")
  \oplus Links(c.source, c.target, "association", "aws_wafv2_web_acl_association", "association", "aws_wafv2_web_acl", {"load_balancer_arn"})

WafCloudFront(c) ==
  Mark(c.target, "web_acl_id") \oplus In(c.target, <<"web_acl_id">>, {<<c.source, "web_acl_arn">>})

(* DnsAliasHandler: the outputs an alias record needs of its target. *)
DnsAlias(c) ==
  LET dns == IF c.kind[2] = "cloudfront" THEN "domain_name" ELSE "dns_name"
      zone == IF c.kind[2] = "load-balancer" THEN "zone_id" ELSE "hosted_zone_id" IN
  Peer(c.source, c.target, "alias_dns_name", dns)
  \oplus Peer(c.source, c.target, "alias_zone_id", zone)
  \oplus File(c.source, <<"alias", Safe[c.target]>>, {<<"aws_route53_record", Safe[c.target], "alias">>},
              {<<"aws_route53_zone", c.source>>, V(<<Safe[c.target], "alias_dns_name">>), V(<<Safe[c.target], "alias_zone_id">>)})
-----------------------------------------------------------------------------
(* A listener: it authenticates first where a pool claims its port, and uses  *)
(* the certificate of the balancer when its protocol needs one. Of several    *)
(* certificates the code takes the first by name, here any.                   *)

Authenticating(c, P) == {d \in Of(AlbAuthentication, P) : d.target = c.source /\ d.slot = c.slot}

LoadBalancerTargetGroup(c, P) ==
  LET group == Safe[c.target]
      certificates == {d.source : d \in {e \in Of(AlbCertificate, P) : e.target = c.source}}
      pools == Authenticating(c, P) IN
  Unless(\E d \in pools : ListenersRefuse(d, P),
    Peer(c.source, c.target, "target_group_arn", "target_group_arn")
    \oplus File(c.source, <<"listener", group>>, {<<"aws_lb_listener", group, "listener">>},
         {<<"aws_lb", c.source>>, V(<<group, "target_group_arn">>)}
         \cup (IF c.refs = <<"HTTPS">> /\ certificates # {}
               THEN {V(<<Safe[CHOOSE x \in certificates : TRUE], "certificate_arn">>)} ELSE {})
         \cup UNION {{V(<<"cognito", d.source, "user_pool_arn">>), V(<<"cognito", d.source, "user_pool_domain">>),
                      <<"aws_cognito_user_pool_client", d.source, d.slot>>} : d \in pools}))
=============================================================================
