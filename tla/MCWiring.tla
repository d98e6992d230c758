------------------------------- MODULE MCWiring -------------------------------
(* Instances of Wiring: every kind of connection alone, every two of them      *)
(* that share a resource, and larger projects whose connections need another.  *)
EXTENDS Wiring

Resources == {"a", "b", "c", "d", "job"}
Distinct == [i \in Resources |-> i \o "_"]

(* Names that differ only in a dash: "c" and "d" become one identifier. *)
Alike == [Distinct EXCEPT !["c"] = "same", !["d"] = "same"]

RefsOf(kind) ==
  CASE kind[3] = "replication_task" -> <<"k1", "k2", "cdc">>
    [] kind[1] = "efs" -> <<"path">>
    [] kind[1] = Dms -> <<"", "db">>
    [] kind[3] = "forwards_to" -> <<"HTTPS">>
    [] OTHER -> <<"">>

Batches == {<<"eventbridge", "batch", "targets">>, <<"step-functions", "batch", "submits_job">>}
Draw(kind, source, target, slot) ==
  [source |-> source, target |-> target, said |-> kind[3], role |-> "", slot |-> slot, fit |-> TRUE,
   remote |-> FALSE, other |-> IF kind \in Batches THEN "job" ELSE "role", refs |-> RefsOf(kind)]
Project(services_, drawn_) == [services |-> services_, drawn |-> drawn_]
WithJob(kinds, f) ==
  IF kinds \cap Batches = {} THEN f
  ELSE [i \in DOMAIN f \cup {"job"} |-> IF i = "job" THEN "batch-job-definition" ELSE f[i]]
Ends(kind) == [i \in {"a", "b"} |-> IF i = "a" THEN kind[1] ELSE kind[2]]
Three(x, y, z) == [i \in {"a", "b", "c"} |-> IF i = "a" THEN x ELSE IF i = "b" THEN y ELSE z]
-----------------------------------------------------------------------------
Named(kind) == {<<kind[3], "">>, <<"", kind[3]>>, <<"", "elsewhere">>}
Singles ==
  UNION {{Project(WithJob({kind}, Ends(kind)),
                  <<[Draw(kind, "a", "b", "k1") EXCEPT !.fit = fit, !.remote = remote, !.said = name[1], !.role = name[2]]>>) :
            fit \in BOOLEAN, remote \in BOOLEAN, name \in Named(kind)} : kind \in ConnectionKinds}

Two(p, ends, from, to, s) == Project(WithJob({p[1], p[2]}, ends), <<Draw(p[1], "a", "b", "k1"), Draw(p[2], from, to, s)>>)
Couples == ConnectionKinds \X ConnectionKinds
Slots == {"k1", "k2"}
FanOut == {Two(p, Three(p[1][1], p[1][2], p[2][2]), "a", "c", s) : p \in {q \in Couples : q[1][1] = q[2][1]}, s \in Slots}
FanIn == {Two(p, Three(p[1][1], p[1][2], p[2][1]), "c", "b", s) : p \in {q \in Couples : q[1][2] = q[2][2]}, s \in Slots}
Chain == {Two(p, Three(p[1][1], p[1][2], p[2][2]), "b", "c", "k1") : p \in {q \in Couples : q[1][2] = q[2][1]}}
Back == {Two(p, Ends(p[1]), "b", "a", "k1") : p \in {q \in Couples : q[1][2] = q[2][1] /\ q[1][1] = q[2][2]}}
Both == {Two(p, Ends(p[1]), "a", "b", s) : p \in {q \in Couples : q[1] # q[2] /\ SubSeq(q[1], 1, 2) = SubSeq(q[2], 1, 2)},
                                          s \in Slots}
-----------------------------------------------------------------------------
(* Resources of the services "of", connections <<from, to, type, slot, refs>>, *)
(* drawn in any order.                                                         *)
Orders(n) == {f \in [1..n -> 1..n] : Range(f) = 1..n}
Drawings(of, edges) ==
  {Project(of, [i \in DOMAIN edges |->
     LET e == edges[order[i]] IN
     [Draw(<<of[e[1]], of[e[2]], e[3]>>, e[1], e[2], e[4]) EXCEPT !.refs = e[5]]]) : order \in Orders(Len(edges))}
Four(w, x, y, z) == [i \in {"a", "b", "c", "d"} |-> IF i = "a" THEN w ELSE IF i = "b" THEN x ELSE IF i = "c" THEN y ELSE z]

(* A pool signs users of a balancer in, behind a certificate. *)
Login == Drawings(Four("cognito", "load-balancer", "target-group", "certificate-manager"),
  <<<<"a", "b", "authenticates", "k1", <<"">> >>, <<"b", "c", "forwards_to", "k1", <<"HTTPS">> >>, <<"d", "b", "secures", "k2", <<"">> >> >>)

(* Routes of an API: two handlers, an authorizer and a pool. *)
Api == UNION {Drawings(Four("api-gateway", "lambda", "lambda", "cognito"),
  <<<<"a", "b", "route_handler", "k1", <<"">> >>, <<"a", "c", second, slot, <<"">> >>, <<"d", "a", "authenticates", "k1", <<"">> >> >>) :
    second \in {"route_handler", "authorizer"}, slot \in Slots}

(* Two tasks of a replication instance that read one database. *)
Migration(slots, mode) == Drawings(Four(Dms, "rds", "rds", "aurora"),
  <<<<"a", "b", "source_secret_endpoint", "k1", <<slots[1], "db">> >>, <<"a", "b", "source_secret_endpoint", "k2", <<slots[2], "db">> >>,
    <<"a", "c", "target_secret_endpoint", "k3", <<"", "db">> >>,
    <<"a", "c", "replication_task", "k4", <<"k1", "k3", "cdc">> >>, <<"a", "c", "replication_task", "k5", <<"k2", "k3", mode>> >> >>)

(* Two replication instances that read one database: whether they have a slot *)
(* or an identifier in common.                                                *)
TwoInstances(slot, mode, id) ==
  LET edges == <<<<"a", "c", "source_secret_endpoint", "k1", <<"r1", "db">> >>, <<"b", "c", "source_secret_endpoint", "k2", <<slot, "db">> >>,
                 <<"a", "d", "target_secret_endpoint", "k3", <<"", "db">> >>, <<"b", "d", "target_secret_endpoint", "k4", <<"", "db">> >>,
                 <<"a", "d", "replication_task", "k5", <<"k1", "k3", "cdc">> >>, <<"b", "d", "replication_task", id, <<"k2", "k4", mode>> >> >>
  IN {Project(Four(Dms, Dms, "rds", "aurora"), [i \in 1..6 |->
        LET e == edges[order[i]]  service == IF e[2] = "c" THEN "rds" ELSE "aurora" IN
        [Draw(<<Dms, service, e[3]>>, e[1], e[2], e[4]) EXCEPT !.refs = e[5]]]) :
      order \in {<<1, 2, 3, 4, 5, 6>>, <<6, 5, 4, 3, 2, 1>>, <<5, 2, 6, 3, 1, 4>>, <<2, 6, 1, 4, 5, 3>>}}

(* One replication instance and one database server: the database the data is *)
(* moved to, and the endpoint or the task drawn a second time.                *)
OneServer(to, again) ==
  LET edges == <<<<"source_secret_endpoint", "k1", <<"r1", "db">> >>, <<"target_secret_endpoint", "k2", <<"", to>> >>,
                 <<"replication_task", "k3", <<"k1", "k2", "cdc">> >> >>
      drawn_ == edges \o again
  IN Project(Ends(<<Dms, "rds">>), [i \in DOMAIN drawn_ |->
       [Draw(<<Dms, "rds", drawn_[i][1]>>, "a", "b", drawn_[i][2]) EXCEPT !.refs = drawn_[i][3]]])
Migrations ==
  UNION {Migration(<<"r1", r>>, mode) : r \in {"", "r1", "r2"}, mode \in {"cdc", "full-load"}}
  \cup UNION {TwoInstances(r, mode, id) : r \in {"r1", "r2"}, mode \in {"cdc", "full-load"}, id \in {"k5", "k6"}}
  \cup {OneServer(to, again) : to \in {"db", "other"},
          again \in {<<>>, <<<<"replication_task", "k3", <<"k1", "k2", "cdc">> >> >>,
                     <<<<"replication_task", "k3", <<"k1", "k2", "full-load">> >> >>,
                     <<<<"source_secret_endpoint", "k1", <<"r1", "db">> >> >>,
                     <<<<"source_secret_endpoint", "k1", <<"r2", "db">> >> >> }}

(* Keys behind a queue's topic, a bucket's pipeline, and images of a task. *)
Keys == Drawings(Four("kms", "sqs", "sns", "lambda"),
  <<<<"a", "b", "encrypts", "k1", <<"">> >>, <<"c", "b", "delivers_to", "k1", <<"">> >>, <<"d", "b", "sends_to", "k1", <<"">> >> >>)
Pipeline == Drawings(Four("kms", "s3", "codepipeline", "codecommit"),
  <<<<"a", "b", "encrypts", "k1", <<"">> >>, <<"c", "b", "stores_artifacts", "k1", <<"">> >>, <<"d", "c", "sources_from", "k1", <<"">> >> >>)

(* A connection to nowhere, and one no handler knows. *)
Refusable == {Project([i \in ends |-> "vpc"], <<Draw(<<"vpc", "vpc", "contains">>, "a", "b", "k1")>>) : ends \in {{"a"}, {"a", "b"}}}

AllProjects == Refusable \cup Singles \cup FanOut \cup FanIn \cup Chain \cup Back \cup Both
               \cup Login \cup Api \cup Migrations \cup Keys \cup Pipeline

(* A target group attached to two servers, whose names are alike. *)
NamesakeProjects ==
  {Project([i \in {"a", "c", "d"} |-> IF i = "a" THEN "target-group" ELSE "ec2"],
           <<Draw(<<"target-group", "ec2", "attaches">>, "a", "c", "k1"),
             Draw(<<"target-group", "ec2", "attaches">>, "a", "d", "k2")>>)}
===============================================================================
