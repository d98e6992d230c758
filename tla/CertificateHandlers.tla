------------------------ MODULE CertificateHandlers ------------------------
(* The handlers that issue certificates and hand them to other services.     *)
EXTENDS Contributions

DnsValidation == <<"route53", "certificate-manager", "validates_certificate">>
PrivateIssue == <<"private-certificate-authority", "certificate-manager", "issues_certificate">>
ViewerCertificate == <<"certificate-manager", "cloudfront", "secures">>

CertificateLoadBalancer(c) == Peer(c.target, c.source, "certificate_arn", "certificate_arn")

CertificateCloudFront(c) ==
  Mark(c.target, "certificate_arn") \oplus In(c.target, <<"certificate_arn">>, {<<c.source, "certificate_arn">>})
-----------------------------------------------------------------------------
(* Private issue: a certificate has one issuing authority and one key, and   *)
(* one that CloudFront shows has none.                                       *)

Issuers(certificate, P) == {d \in Of(PrivateIssue, P) : d.target = certificate}

ResolvePrivateRefuses(certificate, P) ==
  LET issuers == Issuers(certificate, P) IN
  issuers # {} /\ (\/ \E d \in Of(ViewerCertificate, P) : d.source = certificate
                   \/ Remote(issuers) \/ Unfit(issuers) \/ Cardinality(issuers) > 1)

AuthorityActivation(ca) ==
  LET authority == <<"aws_acmpca_certificate_authority", ca>>
      root == <<"aws_acmpca_certificate", ca, "acm_root">>
      active == <<"aws_acmpca_certificate_authority_certificate", ca, "acm_activation">>
      renewal == <<"aws_acmpca_permission", ca, "acm_renewal">> IN
  File(ca, <<"acm_issuance">>, {root, active, renewal},
       {authority, V(<<"key_algorithm">>), V(<<"signing_algorithm">>), V(<<"usage_mode">>)})
  \oplus Out(ca, <<"acm_issuer_arn">>, {authority, active, renewal})
  \oplus Out(ca, <<"acm_issuer_key_algorithm">>, {authority})
  \oplus Out(ca, <<"root_certificate">>, {root, active})

PrivateCertificate(c, P) ==
  Unless(ResolvePrivateRefuses(c.target, P),
    Mark(c.target, "private_ca") \oplus AuthorityActivation(c.source)
    \oplus In(c.target, <<"private_ca_arn">>, {<<c.source, "acm_issuer_arn">>})
    \oplus In(c.target, <<"private_ca_key_algorithm">>, {<<c.source, "acm_issuer_key_algorithm">>}))
-----------------------------------------------------------------------------
(* DNS validation: the slot of a connection is the name on the certificate   *)
(* its zone covers. Certificates sharing a name use one zone, and one of     *)
(* them, the first by name, owns the record.                                 *)

PrivateZone(zone, P) == \E d \in Of(<<"vpc", "route53", "contains">>, P) : d.target = zone
ResolveDnsRefuses(P) ==
  LET peers == Of(DnsValidation, P) IN
  \/ Unfit(peers)
  \/ \E d \in peers : Issuers(d.target, P) # {} \/ PrivateZone(d.source, P)
  \/ \E d, e \in peers : d.slot = e.slot /\ d.source # e.source

ZonesOf(certificate, P) == {d.source : d \in {e \in Of(DnsValidation, P) : e.target = certificate}}
Validated(zone, certificate) == <<"acm", certificate, "validation_fqdns">>
Fqdns(zone) == <<"dns", zone, "validation_fqdns">>
Sharing(name, P) == {e.target : e \in {d \in Of(DnsValidation, P) : d.slot = name}}
(* Fault: the first to be drawn owns the record. *)
OwnsIfFirst(d, P) == \A e \in Of(DnsValidation, P) : e.slot = d.slot => d.n <= e.n

Owns(d, P) == d.target = CHOOSE certificate \in Sharing(d.slot, P) : TRUE

(* issued_certificate: a private certificate is ready at once, a public one  *)
(* when it is validated.                                                     *)
IssuedCertificate(certificate, P) ==
  LET acm == <<"aws_acm_certificate", certificate>>
      waiter == <<"aws_acm_certificate_validation", certificate, "issuance">>
      public == Issuers(certificate, P) = {} IN
  Out(certificate, <<"issued_certificate_arn">>, {IF public THEN waiter ELSE acm})
  \oplus When(public, File(certificate, <<"certificate_issuance">>, {waiter},
                           {acm} \cup {V(Fqdns(zone)) : zone \in ZonesOf(certificate, P)}))

ZoneRecords(zone, P) ==
  LET mine == {d \in Of(DnsValidation, P) : d.source = zone}
      record == <<"aws_route53_record", zone, "acm_validation">>
      options(certificate) == <<"acm", certificate, "validation_options">>
      owners == {d.target : d \in {e \in mine : Owns(e, P)}} IN
  Each({d.target : d \in mine}, LAMBDA x : Out(zone, Validated(zone, x), {record}))
  \oplus Each(owners, LAMBDA x : In(zone, options(x), {<<x, "domain_validation_options">>}))
  \oplus File(zone, <<"certificate_dns">>, {record},
              {<<"aws_route53_zone", zone>>} \cup {V(options(x)) : x \in owners})

CertificateDns(c, P) ==
  Unless(ResolveDnsRefuses(P),
    Mark(c.target, "dns_validation") \oplus IssuedCertificate(c.target, P) \oplus ZoneRecords(c.source, P)
    \oplus Each(ZonesOf(c.target, P), LAMBDA zone : In(c.target, Fqdns(zone), {<<zone>> \o Validated(zone, c.target)})))
-----------------------------------------------------------------------------
(* Client VPN: the slot is the certificate's role.                            *)

VpnCertificatesRefuse(c, P) ==
  LET peers == Into(c, P) IN
  \/ Unfit(peers) \/ Remote(peers) \/ Clash(peers)
  \/ \E d \in peers : ResolvePrivateRefuses(d.source, P)

ClientVpnCertificate(c, P) ==
  LET ready == IF Issuers(c.source, P) = {} THEN <<"aws_acm_certificate_validation", c.source, "issuance">>
               ELSE <<"aws_acm_certificate", c.source>> IN
  Unless(VpnCertificatesRefuse(c, P) \/ ResolveDnsRefuses(P),
    Mark(c.target, "managed_certificate") \oplus IssuedCertificate(c.source, P)
    \oplus In(c.target, <<c.slot, "arn">>, {<<c.source, "client_vpn_certificate_arn">>})
    \oplus In(c.target, <<c.slot, "arn_key_algorithm">>, {<<c.source, "client_vpn_certificate_key_algorithm">>})
    \oplus Out(c.source, <<"client_vpn_certificate_arn">>, {ready})
    \oplus Out(c.source, <<"client_vpn_certificate_key_algorithm">>, {<<"aws_acm_certificate", c.source>>}))
-----------------------------------------------------------------------------
(* API Gateway: the slot is the hostname. A hostname has one API and one      *)
(* certificate; the first connection of an API renders all its domains.      *)

DomainsRefuse(c, P) ==
  LET peers == Of(c.kind, P) IN
  \/ Unfit(peers) \/ Remote(peers)
  \/ \E d, e \in peers : d.slot = e.slot /\ <<d.source, d.target>> # <<e.source, e.target>>
  \/ \E d \in peers : ResolvePrivateRefuses(d.source, P)

AcmInput(certificate, what) == <<"acm", certificate, what>>

CertificateDomain(d) ==
  LET api == d.target  domain == <<"aws_apigatewayv2_domain_name", api, d.slot>> IN
  File(api, <<"certificate_domains">>, {domain, <<"aws_apigatewayv2_api_mapping", api, d.slot>>},
       {<<"aws_apigatewayv2_api", api>>, <<"aws_apigatewayv2_stage", api>>,
        V(AcmInput(d.source, "certificate_arn")), V(AcmInput(d.source, "certificate_names"))})
  \oplus Each({"name", "arn", "target_domain_name", "hosted_zone_id"},
              LAMBDA suffix : Out(api, <<api, d.slot, suffix>>, {domain}))

ApiGatewayCertificate(c, P) ==
  LET peers == Into(c, P)
      domains == Each(peers, CertificateDomain)
      certificates == {d.source : d \in peers}
      arn(x) == In(c.target, AcmInput(x, "certificate_arn"), {<<x, "issued_certificate_arn">>})
      names(x) == In(c.target, AcmInput(x, "certificate_names"), {<<x, "api_gateway_certificate_names">>}) IN
  Unless(DomainsRefuse(c, P) \/ ResolveDnsRefuses(P),
    Speaks(c, peers,
      [domains EXCEPT !.files =
         {[module |-> c.target, name |-> <<"certificate_domains">>,
           declares |-> UNION {f.declares : f \in @}
                        \cup Labelled({"data.aws_region", "data.aws_caller_identity"}, <<"api_custom_domains">>),
           uses |-> UNION {f.uses : f \in @}]}]
      \oplus Each(certificates, LAMBDA x : IssuedCertificate(x, P) \oplus arn(x) \oplus names(x)
                    \oplus Out(x, <<"api_gateway_certificate_names">>, {<<"aws_acm_certificate", x>>}))))
=============================================================================
