-------------------------------- MODULE Wiring --------------------------------
(* How a diagram's connections become wiring between Terraform modules: the    *)
(* IR builder resolves each connection, the connection processor asks its      *)
(* handler what it contributes and merges that, hands the IAM statements to    *)
(* the roles, and the assembler folds all of it into the modules the service   *)
(* generators write.                                                           *)
EXTENDS Handlers, ServiceModules, Functions

CONSTANTS
  LongestPath,  \* bound on a path of references
  Projects      \* [services, drawn]: resources and the connections between them

(* prepare_batch_target, which "fit" stands for: what a rule or a workflow     *)
(* submits to a queue is a job definition of the diagram.                      *)
JobSelected(d, of) ==
  d.fit /\ d.target \in DOMAIN of /\ of[d.target] = "batch" =>
    d.other \in DOMAIN of /\ of[d.other] = "batch-job-definition"

ASSUME ProjectsAssumption ==
  \A project \in Projects : /\ DOMAIN project.services \subseteq Instances
                             /\ project.drawn \in Seq(Range(project.drawn))
                             /\ \A d \in Range(project.drawn) : JobSelected(d, project.services)

VARIABLES
  services,  \* the service of each resource
  drawn,     \* the connections as the diagram names them
  built,     \* the connections of the IR, in the order drawn
  handled,   \* how many of them their handlers have seen
  merged,    \* what they contributed so far
  phase,     \* "building", "granted" and "assembled", or "refused"
  tree       \* the generated modules

vars == <<services, drawn, built, handled, merged, phase, tree>>
-----------------------------------------------------------------------------
(* Contributions merge: an input or output already there stays; a file is     *)
(* written over by a later one of its name, unless that was seen before.      *)
(* "lost" is history: what a contribution with the same name displaced.       *)
SameSlot(x, y) == x.module = y.module /\ x.name = y.name
Displaced(S, T) == {x \in S : \E y \in T : SameSlot(x, y) /\ x # y}
Kept(S, T) == S \cup {y \in T : ~\E x \in S : SameSlot(x, y)}

Empty == [ins |-> {}, outs |-> {}, files |-> {}, grants |-> {}, marks |-> {}, lost |-> {}]
Losses(m, a) ==
  Displaced(a.ins, m.ins \cup a.ins) \cup Displaced(a.outs, m.outs) \cup Displaced(m.files, a.files)
Merge(m, a) ==
  [ins |-> Kept(m.ins, a.ins), outs |-> Kept(m.outs, a.outs), files |-> Kept(a.files \ m.lost, m.files),
   grants |-> m.grants \cup a.grants, marks |-> m.marks \cup a.marks, lost |-> m.lost \cup Losses(m, a)]
-----------------------------------------------------------------------------
(* IAM statements name resources of any module; those of another module reach *)
(* the role through an output there and a variable here.                      *)
InModule(r) == r[1] # "var" /\ r \notin Identity(Tail(r))
Foreign(grant) == {r \in grant.on : InModule(r) /\ r[2] # grant.owner}
IamInput(r) == <<"iam_ref">> \o r
IamOutput(r) == <<"iam", r[1], r[3]>>

(* Fault: the module that owns the resource offers no output. *)
CrossModuleInputsOnly(grant) ==
  Each(Foreign(grant), LAMBDA r : In(grant.owner, IamInput(r), {<<r[2]>> \o IamOutput(r)}))

CrossModuleInputs(grant) ==
  Each(Foreign(grant), LAMBDA r : Joined(Out(r[2], IamOutput(r), {<<r[1], r[2]>>}),
                                         In(grant.owner, IamInput(r), {<<r[2]>> \o IamOutput(r)})))

Granted(grant) ==
  {V(IamInput(r)) : r \in Foreign(grant)}
  \cup {IF InModule(r) THEN <<r[1], r[2]>> ELSE r : r \in grant.on \ Foreign(grant)}
-----------------------------------------------------------------------------
(* The modules: what the service generator writes, having read what the       *)
(* connections left in the configuration, and what the connections add.       *)
Given(i, m) ==
  [marks   |-> {Tail(mark) : mark \in {k \in m.marks : k[1] = i}},
   inputs  |-> {in.name : in \in {k \in m.ins : k.module = i}},
   granted |-> UNION {Granted(grant) : grant \in {k \in m.grants : k.owner = i}}]
Generated(m) == Each(DOMAIN services, LAMBDA i : ServiceModule(services[i], i, Given(i, m)))

Present(S) == {x \in S : x.module \in DOMAIN services}
Assembled(m) ==
  LET own == Generated(m) IN
  [ins |-> Kept(Present(m.ins), own.ins), outs |-> Kept(own.outs, Present(m.outs)),
   files |-> Kept(Present(m.files), own.files)]
-----------------------------------------------------------------------------
Init ==
  /\ \E project \in Projects : services = project.services /\ drawn = project.drawn
  /\ built = <<>> /\ handled = 0 /\ merged = Empty
  /\ phase = "building" /\ tree = [ins |-> {}, outs |-> {}, files |-> {}]

(* _build_connections, one connection at a time. *)
Wanted == drawn[Len(built) + 1]
KindOf(d) ==
  LET source == services[d.source]  target == services[d.target] IN
  <<source, target, ResolveSpec(source, target, d.said, d.role)>>
Legal(d) ==
  /\ {d.source, d.target} \subseteq DOMAIN services
  /\ <<services[d.source], services[d.target]>> \in Compatible
  /\ KindOf(d)[3] # "none"
  /\ d.remote => KindOf(d) \in CrossRegion

Build ==
  /\ phase = "building" /\ Len(built) < Len(drawn) /\ Legal(Wanted)
  /\ built' = Append(built, [n |-> Len(built) + 1, source |-> Wanted.source, target |-> Wanted.target,
                             kind |-> KindOf(Wanted), slot |-> Wanted.slot, fit |-> Wanted.fit,
                             remote |-> Wanted.remote, other |-> Wanted.other, refs |-> Wanted.refs])
  /\ UNCHANGED <<services, drawn, handled, merged, phase, tree>>

(* ResourceNotFoundError, IncompatibleConnectionError, CrossRegionConnectionError. *)
RefuseConnection ==
  /\ phase = "building" /\ Len(built) < Len(drawn) /\ ~Legal(Wanted)
  /\ phase' = "refused"
  /\ UNCHANGED <<services, drawn, built, handled, merged, tree>>

(* process_all: one handler after the other, each given the whole project. *)
Contribution == Handle(built[handled + 1], built)

HandleConnection ==
  /\ phase = "building" /\ Len(built) = Len(drawn) /\ handled < Len(built)
  /\ ~Contribution.refused
  /\ merged' = Merge(merged, Contribution)
  /\ handled' = handled + 1
  /\ UNCHANGED <<services, drawn, built, phase, tree>>

(* A handler raises: no project is generated. *)
RefuseToHandle ==
  /\ phase = "building" /\ Len(built) = Len(drawn) /\ handled < Len(built)
  /\ Contribution.refused
  /\ phase' = "refused"
  /\ UNCHANGED <<services, drawn, built, handled, merged, tree>>

AttachIam ==
  /\ phase = "building" /\ handled = Len(drawn)
  /\ merged' = Merge(merged, Each({grant \in merged.grants : grant.owner \in DOMAIN services}, CrossModuleInputs))
  /\ phase' = "granted"
  /\ UNCHANGED <<services, drawn, built, handled, tree>>

Assemble ==
  /\ phase = "granted"
  /\ tree' = Assembled(merged)
  /\ phase' = "assembled"
  /\ UNCHANGED <<services, drawn, built, handled, merged>>

Next == Build \/ RefuseConnection \/ HandleConnection \/ RefuseToHandle \/ AttachIam \/ Assemble
Spec == Init /\ [][Next]_vars
-----------------------------------------------------------------------------
Done == phase = "assembled"

(* Type invariant: resources are instances, every connection of the IR has a  *)
(* kind the registry knows, and handlers see only connections that are built. *)
TypeOK ==
  /\ DOMAIN services \subseteq Instances
  /\ handled \in 0..Len(built) /\ Len(built) \in 0..Len(drawn)
  /\ \A c \in Range(built) : c.kind \in ConnectionKinds
  /\ phase \in {"building", "refused", "granted", "assembled"}

(* What one connection contributes is never displaced by another's: no input  *)
(* is dropped because its name is taken, and no file is written over by       *)
(* another (merge, _input, the names of files). The known exceptions are      *)
(* settings that hold one value, where the first connection silently wins,    *)
(* and the name of a log group, which two handlers render differently.        *)
Singular == {<<"vpc_id">>, <<"subnet_id">>, <<"certificate_arn">>, <<"web_acl_id">>}
NothingLost == \A x \in merged.lost : x.name \in Singular \cup {<<"log_group_name">>}

(* The order in which the connections were drawn does not matter: drawn the   *)
(* other way round they are accepted too and contribute the same (process_all *)
(* merges as it goes, and some handlers let the first of several connections  *)
(* speak for all). This compares one order with its reversal, and only where  *)
(* the merge lost nothing: what is lost is what came second.                  *)
Redrawn == [i \in DOMAIN built |-> [built[Len(built) + 1 - i] EXCEPT !.n = i]]
OrderFree ==
  phase = "building" /\ built # <<>> /\ handled = Len(drawn) /\ merged.lost = {} =>
    LET other[i \in 0..handled] == IF i = 0 THEN Empty ELSE Merge(other[i - 1], Handle(Redrawn[i], Redrawn)) IN
    /\ \A i \in DOMAIN Redrawn : ~Handle(Redrawn[i], Redrawn).refused
    /\ other[handled] = merged

(* A generated project has no dangling reference: what a file or an output    *)
(* uses is a variable or an address of its own module, and what a module is   *)
(* given is an output its peer offers. The parts come from different          *)
(* handlers, the service generators and the IAM pass.                         *)
Declared(m) == UNION {f.declares : f \in {g \in tree.files : g.module = m}}
Resolved(x) ==
  \A r \in x.uses : IF r[1] = "var" THEN \E in \in tree.ins : in.module = x.module /\ V(in.name) = r
                    ELSE r \in Declared(x.module)
EveryReferenceResolves ==
  Done => /\ \A f \in tree.files : Resolved(f)
          /\ \A o \in tree.outs : Resolved([module |-> o.module, uses |-> o.from])
          /\ \A in \in tree.ins : \A r \in in.from :
                \E o \in tree.outs : <<o.module>> \o o.name = r

(* No address is declared by two files of a module, whichever handlers and    *)
(* generators wrote them: Terraform refuses a module that does.               *)
AddressesUnique ==
  Done => \A f, g \in tree.files : f.module = g.module /\ f # g => f.declares \cap g.declares = {}

(* Every permission a connection asked for reaches a policy: its owner is a   *)
(* resource that has a role, and the policy of that role can name what the    *)
(* permission names (_attach_iam drops the grants of other owners silently).  *)
GrantsLand ==
  Done => \A grant \in merged.grants :
            /\ grant.owner \in DOMAIN services
            /\ \E f \in tree.files : /\ f.module = grant.owner /\ Granted(grant) \subseteq f.uses
                                     /\ <<"aws_iam_role_policy", grant.owner, "policy">> \in f.declares

(* The modules never wait on each other in a circle: following what a file,   *)
(* an input or an output reads leads to an end. Connections both ways between *)
(* two resources are legal, so only the way handlers split resources between  *)
(* modules avoids a circle.                                                   *)
Reads ==
  UNION {{<<f.module>> \o d : d \in {e \in f.declares : e \notin Identity(Tail(e))}}
         \X {<<f.module>> \o u : u \in f.uses} : f \in tree.files}
  \cup UNION {{<<in.module>> \o V(in.name)} \X {<<r[1], "output">> \o Tail(r) : r \in in.from} : in \in tree.ins}
  \cup UNION {{<<o.module, "output">> \o o.name} \X {<<o.module>> \o r : r \in o.from} : o \in tree.outs}
Ahead[n \in 0..LongestPath] ==
  IF n = 0 THEN Reads
  ELSE LET rest == Ahead[n - 1]  readers == {edge[1] : edge \in rest} IN
       {edge \in rest : edge[2] \in readers}
Acyclic == Done => Ahead[LongestPath] = {}

(* A replication slot of a source database feeds at most one CDC task of a    *)
(* generated project, across instances and endpoints (validate_cdc_source);   *)
(* one task drawn twice is one task.                                          *)
Fed(d) ==
  {<<e.target, e.refs[1]>> : e \in {x \in Range(built) :
     x.kind[3] = "source_secret_endpoint" /\ x.source = d.source /\ x.slot = d.refs[1] /\ x.refs[1] # ""}}
SlotsFeedOneTask ==
  Done => \A d, e \in {x \in Range(built) : x.kind[3] = "replication_task" /\ x.refs[3] = "cdc"} :
            ~Twin(d, e) => Fed(d) \cap Fed(e) = {}

(* Inputs named after a peer are never dropped because another peer's input   *)
(* has their name ("two connections never collide on one name").              *)
PeersNeverCollide == \A x \in merged.lost : x.name[1] \notin Range(Safe)
=============================================================================
