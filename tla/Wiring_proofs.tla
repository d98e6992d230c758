---------------------------- MODULE Wiring_proofs ----------------------------
(***************************************************************************)
(* Proofs about Wiring, for every project: resolve_spec only finds what is *)
(* registered; every permission that was asked for reaches the policy of a *)
(* role and can be followed to the resource it names; handlers contribute  *)
(* to modules of the project only; a replication slot feeds one task.      *)
(***************************************************************************)
EXTENDS Wiring, TLAPS

(* A kind is a source, a target and a type. *)
Triple(kind) == kind = <<kind[1], kind[2], kind[3]>>

(* The connections a user may have drawn, and what the IR makes of them. *)
Drawn == UNION {Range(project.drawn) : project \in Projects}
Ir == {[n |-> n, source |-> d.source, target |-> d.target, kind |-> kind, slot |-> d.slot, fit |-> d.fit,
        remote |-> d.remote, other |-> d.other, refs |-> d.refs] :
         n \in Nat, d \in Drawn, kind \in ConnectionKinds}

WiringInv ==
  /\ DOMAIN services \subseteq Instances
  /\ drawn \in Seq(Drawn) /\ built \in Seq(Ir)
  /\ Len(built) <= Len(drawn) /\ handled \in 0..Len(built)
  /\ phase \in {"building", "refused", "granted", "assembled"}
-----------------------------------------------------------------------------
(* Entries of the registry name triples. *)
LEMMA SpecsTriples == \A A, B, C, h : \A spec \in Specs(A, B, C, h) : Triple(spec.kind)
<1> SUFFICES ASSUME NEW A, NEW B, NEW C, NEW h, NEW spec \in Specs(A, B, C, h)
             PROVE  Triple(spec.kind)
  OBVIOUS
<1>1. PICK kind \in A \X B \X C : spec = [kind |-> kind, handler |-> h]
  BY DEF Specs
<1>. QED  BY <1>1 DEF Triple

(* So does the whole registry. *)
LEMMA KindsAreTriples == \A kind \in ConnectionKinds : Triple(kind)
<1>1. \A spec \in Registry1 : Triple(spec.kind)
  BY SpecsTriples DEF Registry1
<1>2. \A spec \in Registry2 : Triple(spec.kind)
  BY SpecsTriples DEF Registry2
<1>3. \A spec \in Registry3 : Triple(spec.kind)
  BY SpecsTriples DEF Registry3
<1>4. \A spec \in Registry4 : Triple(spec.kind)
  BY SpecsTriples DEF Registry4
<1>5. \A spec \in Registry5 : Triple(spec.kind)
  BY SpecsTriples DEF Registry5
<1>6. \A spec \in Registry6 : Triple(spec.kind)
  BY SpecsTriples DEF Registry6
<1>7. \A spec \in Registry7 : Triple(spec.kind)
  BY SpecsTriples DEF Registry7
<1>8. \A spec \in Registry8 : Triple(spec.kind)
  BY SpecsTriples DEF Registry8
<1>9. \A spec \in Registry9 : Triple(spec.kind)
  BY SpecsTriples DEF Registry9
<1>10. \A spec \in Registry10 : Triple(spec.kind)
  BY SpecsTriples DEF Registry10
<1>11. \A spec \in ConnectionSpecs : Triple(spec.kind)
  BY <1>1, <1>2, <1>3, <1>4, <1>5, <1>6, <1>7, <1>8, <1>9, <1>10 DEF ConnectionSpecs
<1>. QED  BY <1>11 DEF ConnectionKinds

(* resolve_spec finds a registered kind or none, for any type and role. *)
LEMMA ResolvedIsKnown ==
  ASSUME NEW source, NEW target, NEW type, NEW role,
         <<source, target>> \in Compatible, ResolveSpec(source, target, type, role) # "none"
  PROVE  <<source, target, ResolveSpec(source, target, type, role)>> \in ConnectionKinds
<1> DEFINE candidates == {kind \in ConnectionKinds : kind[1] = source /\ kind[2] = target}
           defaults == candidates \ NotDefault
           resolved == ResolveSpec(source, target, type, role)
<1>1. candidates # {}
  BY DEF Compatible
<1>2. \A kind \in candidates : <<source, target, kind[3]>> \in ConnectionKinds
  BY KindsAreTriples DEF Triple
<1>3. \/ <<source, target, type>> \in candidates /\ resolved = type
      \/ <<source, target, role>> \in candidates /\ resolved = role
      \/ resolved = (CHOOSE kind \in candidates : TRUE)[3]
      \/ defaults # {} /\ resolved = (CHOOSE kind \in defaults : TRUE)[3]
  BY DEF ResolveSpec
<1> HIDE DEF resolved, defaults
<1>4. CASE resolved = (CHOOSE kind \in candidates : TRUE)[3]
  <2>1. (CHOOSE kind \in candidates : TRUE) \in candidates
    BY <1>1
  <2> HIDE DEF candidates
  <2>. QED  BY <1>2, <1>4, <2>1 DEF resolved
<1>5. CASE defaults # {} /\ resolved = (CHOOSE kind \in defaults : TRUE)[3]
  <2>1. (CHOOSE kind \in defaults : TRUE) \in candidates
    BY <1>5 DEF defaults
  <2> HIDE DEF candidates
  <2>. QED  BY <1>2, <1>5, <2>1 DEF resolved
<1>. QED  BY <1>3, <1>4, <1>5 DEF resolved

(* The IR builder adds a connection of a registered kind. *)
LEMMA BuildKeeps == ASSUME WiringInv, Build PROVE WiringInv'
<1>1. /\ drawn \in Seq(Drawn) /\ built \in Seq(Ir) /\ Len(built) < Len(drawn) /\ handled \in 0..Len(built)
      /\ Len(built) \in Nat /\ Len(drawn) \in Nat
      /\ UNCHANGED <<services, drawn, handled, phase>> /\ Legal(Wanted)
  BY DEF WiringInv, Build
<1> PICK d \in Drawn : d = Wanted
  BY <1>1 DEF Wanted
<1> PICK kind : kind = KindOf(d)
  OBVIOUS
<1>2. kind \in ConnectionKinds
  <2>1. kind = <<services[d.source], services[d.target],
                 ResolveSpec(services[d.source], services[d.target], d.said, d.role)>>
    BY DEF KindOf
  <2>2. <<services[d.source], services[d.target]>> \in Compatible /\ kind[3] # "none"
    BY <1>1 DEF Legal
  <2>. QED  BY <2>1, <2>2, ResolvedIsKnown
<1> PICK c : c = [n |-> Len(built) + 1, source |-> d.source, target |-> d.target, kind |-> kind,
                  slot |-> d.slot, fit |-> d.fit, remote |-> d.remote, other |-> d.other, refs |-> d.refs]
  OBVIOUS
<1>3. c \in Ir
  BY <1>1, <1>2 DEF Ir
<1>4. built' = Append(built, c)
  BY DEF Build
<1>5. built' \in Seq(Ir) /\ Len(built') = Len(built) + 1
  BY <1>1, <1>3, <1>4
<1>. QED  BY <1>1, <1>5 DEF WiringInv

(* Every reachable state satisfies the invariant. *)
LEMMA Inductive == Spec => []WiringInv
<1>1. Init => WiringInv
  <2> SUFFICES ASSUME Init PROVE WiringInv
    OBVIOUS
  <2>1. PICK project \in Projects : services = project.services /\ drawn = project.drawn
    BY DEF Init
  <2>2. DOMAIN services \subseteq Instances /\ drawn \in Seq(Range(project.drawn))
    BY <2>1, ProjectsAssumption
  <2>3. Range(project.drawn) \subseteq Drawn
    BY DEF Drawn
  <2>4. drawn \in Seq(Drawn)
    BY <2>2, <2>3
  <2>5. built = <<>> /\ handled = 0 /\ phase = "building" /\ Len(drawn) \in Nat
    BY <2>4 DEF Init
  <2>. QED  BY <2>2, <2>4, <2>5 DEF WiringInv
<1>2. WiringInv /\ [Next]_vars => WiringInv'
  <2> SUFFICES ASSUME WiringInv, [Next]_vars PROVE WiringInv'
    OBVIOUS
  <2>1. CASE HandleConnection
    BY <2>1 DEF HandleConnection, WiringInv
  <2>2. CASE RefuseConnection \/ RefuseToHandle
    BY <2>2 DEF RefuseConnection, RefuseToHandle, WiringInv
  <2>3. CASE AttachIam \/ Assemble
    BY <2>3 DEF AttachIam, Assemble, WiringInv
  <2>4. CASE UNCHANGED vars
    BY <2>4 DEF vars, WiringInv
  <2>. QED  BY <2>1, <2>2, <2>3, <2>4, BuildKeeps DEF Next
<1>. QED  BY <1>1, <1>2, PTL DEF Spec

(* Whatever type or role a connection names, the IR has it with a kind the *)
(* registry knows, so that it has a handler; no handler sees a connection  *)
(* before all of them are built.                                           *)
THEOREM WiringTypeCorrect == Spec => []TypeOK
<1>1. WiringInv => TypeOK
  <2> SUFFICES ASSUME WiringInv PROVE TypeOK
    OBVIOUS
  <2>1. \A c \in Range(built) : c.kind \in ConnectionKinds
    BY DEF WiringInv, Range, Ir
  <2>. QED  BY <2>1 DEF WiringInv, TypeOK
<1>. QED  BY <1>1, Inductive, PTL
-----------------------------------------------------------------------------
(* A permission that names a resource of another module can be followed:   *)
(* its role has a variable for the resource, and that module an output.    *)
Followed(grant) ==
  \A r \in Foreign(grant) :
    /\ \E in \in merged.ins : in.module = grant.owner /\ in.name = IamInput(r)
    /\ \E out \in merged.outs : out.module = r[2] /\ out.name = IamOutput(r)
GrantsFollowed ==
  phase \in {"granted", "assembled"} =>
    \A grant \in merged.grants : grant.owner \in DOMAIN services => Followed(grant)

(* Whatever a slot held before, it holds something afterwards. *)
LEMMA KeptHas ==
  ASSUME NEW S, NEW T, NEW y \in T
  PROVE  \E x \in Kept(S, T) : x.module = y.module /\ x.name = y.name
BY DEF Kept, SameSlot

(* What the pieces of a contribution hold. *)
LEMMA Pieces ==
  ASSUME NEW m, NEW name, NEW from
  PROVE  /\ Out(m, name, from).outs = {[module |-> m, name |-> name, from |-> from]}
         /\ In(m, name, from).ins = {[module |-> m, name |-> name, from |-> from]}
         /\ Out(m, name, from).grants = {} /\ In(m, name, from).grants = {}
BY DEF Out, In, Nothing

(* Together they hold what each of them holds. *)
LEMMA Together ==
  ASSUME NEW x, NEW y
  PROVE  /\ Joined(x, y).ins = x.ins \cup y.ins /\ Joined(x, y).outs = x.outs \cup y.outs
         /\ Joined(x, y).grants = x.grants \cup y.grants
BY DEF Joined

(* One permission and one resource it names: an output there, an input here. *)
Bridge(grant, r) ==
  Joined(Out(r[2], IamOutput(r), {<<r[1], r[2]>>}),
         In(grant.owner, IamInput(r), {<<r[2]>> \o IamOutput(r)}))

(* What a bridge is made of. *)
LEMMA BridgeHas ==
  ASSUME NEW grant, NEW r
  PROVE  /\ [module |-> r[2], name |-> IamOutput(r), from |-> {<<r[1], r[2]>>}] \in Bridge(grant, r).outs
         /\ [module |-> grant.owner, name |-> IamInput(r), from |-> {<<r[2]>> \o IamOutput(r)}]
              \in Bridge(grant, r).ins
         /\ Bridge(grant, r).grants = {}
<1> DEFINE there == Out(r[2], IamOutput(r), {<<r[1], r[2]>>})
           here == In(grant.owner, IamInput(r), {<<r[2]>> \o IamOutput(r)})
<1>1. /\ there.outs = {[module |-> r[2], name |-> IamOutput(r), from |-> {<<r[1], r[2]>>}]}
      /\ there.grants = {}
  BY Pieces
<1>2. /\ here.ins = {[module |-> grant.owner, name |-> IamInput(r), from |-> {<<r[2]>> \o IamOutput(r)}]}
      /\ here.grants = {}
  BY Pieces
<1>3. Bridge(grant, r) = Joined(there, here)
  BY DEF Bridge
<1> HIDE DEF there, here
<1>. QED  BY <1>1, <1>2, <1>3, Together

(* The bridges of a permission. *)
LEMMA InputsAreBridges ==
  ASSUME NEW grant
  PROVE  /\ CrossModuleInputs(grant).ins = UNION {Bridge(grant, r).ins : r \in Foreign(grant)}
         /\ CrossModuleInputs(grant).outs = UNION {Bridge(grant, r).outs : r \in Foreign(grant)}
         /\ CrossModuleInputs(grant).grants = UNION {Bridge(grant, r).grants : r \in Foreign(grant)}
BY DEF CrossModuleInputs, Each, Total, Bridge

(* What _attach_iam adds to the contributions. *)
LEMMA AttachAdds ==
  ASSUME AttachIam
  PROVE  /\ merged'.grants = merged.grants /\ UNCHANGED services
         /\ \A grant \in merged.grants : grant.owner \in DOMAIN services => Followed(grant)'
<1> DEFINE owned == {grant \in merged.grants : grant.owner \in DOMAIN services}
           added == Each(owned, CrossModuleInputs)
<1>1. merged' = Merge(merged, added) /\ services' = services
  BY DEF AttachIam
<1>2. /\ added.ins = UNION {CrossModuleInputs(grant).ins : grant \in owned}
      /\ added.outs = UNION {CrossModuleInputs(grant).outs : grant \in owned}
      /\ added.grants = UNION {CrossModuleInputs(grant).grants : grant \in owned}
  BY DEF Each, Total
<1> HIDE DEF added, owned
<1>3. added.grants = {}
  <2>1. \A grant : CrossModuleInputs(grant).grants = {}
    <3> SUFFICES ASSUME NEW grant PROVE CrossModuleInputs(grant).grants = {}
      OBVIOUS
    <3>1. CrossModuleInputs(grant).grants = UNION {Bridge(grant, r).grants : r \in Foreign(grant)}
      BY InputsAreBridges
    <3>2. \A r \in Foreign(grant) : Bridge(grant, r).grants = {}
      BY BridgeHas
    <3>. QED  BY <3>1, <3>2
  <2>. QED  BY <1>2, <2>1
<1>4. ASSUME NEW grant \in merged.grants, grant.owner \in DOMAIN services, NEW r \in Foreign(grant)
      PROVE  /\ [module |-> r[2], name |-> IamOutput(r), from |-> {<<r[1], r[2]>>}] \in added.outs
             /\ [module |-> grant.owner, name |-> IamInput(r), from |-> {<<r[2]>> \o IamOutput(r)}] \in added.ins
  <2>1. grant \in owned
    BY <1>4 DEF owned
  <2>2. /\ Bridge(grant, r).outs \subseteq CrossModuleInputs(grant).outs
        /\ Bridge(grant, r).ins \subseteq CrossModuleInputs(grant).ins
    BY <1>4, InputsAreBridges
  <2>3. CrossModuleInputs(grant).outs \subseteq added.outs /\ CrossModuleInputs(grant).ins \subseteq added.ins
    BY <1>2, <2>1
  <2>. QED  BY <2>2, <2>3, BridgeHas
<1>5. /\ merged'.grants = merged.grants \cup added.grants
      /\ merged'.ins = Kept(merged.ins, added.ins) /\ merged'.outs = Kept(merged.outs, added.outs)
  BY <1>1 DEF Merge
<1>6. ASSUME NEW grant \in merged.grants, grant.owner \in DOMAIN services PROVE Followed(grant)'
  <2> SUFFICES ASSUME NEW r \in Foreign(grant)
               PROVE  /\ \E in \in merged'.ins : in.module = grant.owner /\ in.name = IamInput(r)
                      /\ \E out \in merged'.outs : out.module = r[2] /\ out.name = IamOutput(r)
    BY DEF Followed
  <2> PICK i : i = [module |-> grant.owner, name |-> IamInput(r), from |-> {<<r[2]>> \o IamOutput(r)}]
    OBVIOUS
  <2> PICK o : o = [module |-> r[2], name |-> IamOutput(r), from |-> {<<r[1], r[2]>>}]
    OBVIOUS
  <2>1. i \in added.ins /\ o \in added.outs
    BY <1>4, <1>6
  <2>2. i.module = grant.owner /\ i.name = IamInput(r) /\ o.module = r[2] /\ o.name = IamOutput(r)
    OBVIOUS
  <2>3. \E x \in Kept(merged.ins, added.ins) : x.module = i.module /\ x.name = i.name
    BY <2>1, KeptHas
  <2>4. \E x \in Kept(merged.outs, added.outs) : x.module = o.module /\ x.name = o.name
    BY <2>1, KeptHas
  <2>. QED  BY <1>5, <2>2, <2>3, <2>4
<1>. QED  BY <1>1, <1>3, <1>5, <1>6

(* No permission dangles: once the statements are attached to the roles,   *)
(* every resource a statement names in another module is offered by that   *)
(* module and reaches the role, whichever handlers asked for it and        *)
(* whatever else they put into the modules (_attach_iam after process_all).*)
THEOREM PermissionsFollowed == Spec => []GrantsFollowed
<1>1. Init => GrantsFollowed
  BY DEF Init, GrantsFollowed
<1>2. GrantsFollowed /\ [Next]_vars => GrantsFollowed'
  <2> SUFFICES ASSUME GrantsFollowed, [Next]_vars PROVE GrantsFollowed'
    OBVIOUS
  <2>1. CASE AttachIam
    BY <2>1, AttachAdds DEF GrantsFollowed
  <2>2. CASE Build \/ HandleConnection
    BY <2>2 DEF Build, HandleConnection, GrantsFollowed
  <2>3. CASE RefuseConnection \/ RefuseToHandle
    BY <2>3 DEF RefuseConnection, RefuseToHandle, GrantsFollowed
  <2>4. CASE Assemble \/ UNCHANGED vars
    BY <2>4 DEF Assemble, vars, GrantsFollowed, Followed
  <2>. QED  BY <2>1, <2>2, <2>3, <2>4 DEF Next
<1>. QED  BY <1>1, <1>2, PTL DEF Spec
-----------------------------------------------------------------------------
(* A dispatch by name reaches the handler of that name. *)
LEMMA Dispatched ==
  ASSUME NEW c, NEW P
  PROVE  /\ HandleWith("DmsReplicationTask", c, P) = DmsReplicationTask(c, P)
         /\ HandleWith("DmsSecretEndpoint", c, P) = DmsSecretEndpoint(c, P)
<1>1. HandleWith("DmsReplicationTask", c, P) = DmsReplicationTask(c, P)
  BY SMTT(120) DEF HandleWith
<1>2. HandleWith("DmsSecretEndpoint", c, P) = DmsSecretEndpoint(c, P)
  BY SMTT(120) DEF HandleWith
<1>. QED  BY <1>1, <1>2

(* What the entries of one line of the registry have in common. *)
LEMMA SpecsSay == \A A, B, C, h : \A spec \in Specs(A, B, C, h) :
       spec.kind[1] \in A /\ spec.kind[2] \in B /\ spec.kind[3] \in C /\ spec.handler = h
<1> SUFFICES ASSUME NEW A, NEW B, NEW C, NEW h, NEW spec \in Specs(A, B, C, h)
             PROVE  spec.kind[1] \in A /\ spec.kind[2] \in B /\ spec.kind[3] \in C /\ spec.handler = h
  OBVIOUS
<1>1. PICK kind \in A \X B \X C : spec = [kind |-> kind, handler |-> h]
  BY DEF Specs
<1>. QED  BY <1>1

(* Tasks, and endpoints that name a secret, are the migration service's. *)
MigrationSpec(spec) ==
  /\ spec.kind[3] = "replication_task" => spec.kind[1] = Dms /\ spec.handler = "DmsReplicationTask"
  /\ spec.kind[3] = "source_secret_endpoint" => spec.kind[1] = Dms /\ spec.handler = "DmsSecretEndpoint"

(* No other line of the registry has these types. *)
LEMMA MigrationSpecs == \A spec \in ConnectionSpecs : MigrationSpec(spec)
<1>1. \A spec \in Registry1 : MigrationSpec(spec)
  BY SpecsSay DEF Registry1, MigrationSpec, Dms
<1>2. \A spec \in Registry2 : MigrationSpec(spec)
  BY SpecsSay DEF Registry2, MigrationSpec, Dms
<1>3. \A spec \in Registry3 : MigrationSpec(spec)
  BY SpecsSay DEF Registry3, MigrationSpec, Dms
<1>4. \A spec \in Registry4 : MigrationSpec(spec)
  BY SpecsSay DEF Registry4, MigrationSpec, Dms
<1>5. \A spec \in Registry5 : MigrationSpec(spec)
  BY SpecsSay DEF Registry5, MigrationSpec, Dms
<1>6. \A spec \in Registry6 : MigrationSpec(spec)
  BY SpecsSay DEF Registry6, MigrationSpec, Dms
<1>7. \A spec \in Registry7 : MigrationSpec(spec)
  BY SpecsSay DEF Registry7, MigrationSpec, Dms
<1>8. \A spec \in Registry8 : MigrationSpec(spec)
  BY SpecsSay DEF Registry8, MigrationSpec, Dms
<1>9. \A spec \in Registry9 : MigrationSpec(spec)
  BY SpecsSay DEF Registry9, MigrationSpec, Dms
<1>10. \A spec \in Registry10 : MigrationSpec(spec)
  BY SpecsSay DEF Registry10, MigrationSpec, Dms
<1>. QED  BY <1>1, <1>2, <1>3, <1>4, <1>5, <1>6, <1>7, <1>8, <1>9, <1>10 DEF ConnectionSpecs

(* A registered kind of the migration service has its handler. *)
LEMMA MigrationHandlersFound ==
  ASSUME NEW kind \in ConnectionKinds
  PROVE  /\ kind[3] = "replication_task" => kind[1] = Dms /\ HandlerOf[kind] = "DmsReplicationTask"
         /\ kind[3] = "source_secret_endpoint" => kind[1] = Dms /\ HandlerOf[kind] = "DmsSecretEndpoint"
<1> DEFINE found == CHOOSE spec \in ConnectionSpecs : spec.kind = kind
<1>1. found \in ConnectionSpecs /\ found.kind = kind
  BY DEF ConnectionKinds
<1>2. HandlerOf[kind] = found.handler
  BY DEF HandlerOf
<1> HIDE DEF found
<1>3. MigrationSpec(found)
  BY <1>1, MigrationSpecs
<1>. QED  BY <1>1, <1>2, <1>3 DEF MigrationSpec

(* What a task or an endpoint that is not refused was found to be. *)
LEMMA NotRefused ==
  ASSUME NEW c, NEW P, c.kind \in ConnectionKinds, ~Handle(c, P).refused
  PROVE  /\ c.kind[3] = "replication_task" => ~TaskInvalid(c, P)
         /\ c.kind[3] = "source_secret_endpoint" => ~EndpointTaken(c, P)
<1>0. Rejected.refused = TRUE
  BY DEF Rejected, Nothing
<1>1. ASSUME c.kind[3] = "replication_task"  PROVE ~TaskInvalid(c, P)
  <2>1. Handle(c, P) = DmsReplicationTask(c, P)
    BY <1>1, MigrationHandlersFound, Dispatched DEF Handle
  <2>2. TaskInvalid(c, P) => DmsReplicationTask(c, P) = Rejected
    BY DEF DmsReplicationTask, Unless
  <2>. QED  BY <1>0, <2>1, <2>2
<1>2. ASSUME c.kind[3] = "source_secret_endpoint"  PROVE ~EndpointTaken(c, P)
  <2>1. Handle(c, P) = DmsSecretEndpoint(c, P)
    BY <1>2, MigrationHandlersFound, Dispatched DEF Handle
  <2>2. EndpointTaken(c, P) => DmsSecretEndpoint(c, P) = Rejected
    BY DEF DmsSecretEndpoint, Unless
  <2>. QED  BY <1>0, <2>1, <2>2
<1>. QED  BY <1>1, <1>2

(* The connections of a project are told apart by their place, and no handler *)
(* has refused one of them.                                                   *)
Numbered(P) == \A i, j \in DOMAIN P : P[i].n = P[j].n => i = j
Accepted(P) == \A i \in DOMAIN P : P[i].kind \in ConnectionKinds /\ ~Handle(P[i], P).refused

(* The endpoint a task was checked against is the one its slot is read from: *)
(* an identifier names one endpoint of the project, however often drawn.     *)
LEMMA OneEndpoint ==
  ASSUME NEW P, Numbered(P), Accepted(P),
         NEW i \in DOMAIN P, NEW j \in DOMAIN P, P[i].kind[3] = "source_secret_endpoint",
         P[j] \in OfDms(EndpointKinds, P), P[j].slot = P[i].slot
  PROVE  Twin(P[j], P[i])
<1>1. ~EndpointTaken(P[i], P)
  BY NotRefused DEF Accepted
<1>. QED  BY <1>1 DEF EndpointTaken

(* Two tasks of a project that was accepted do not read one slot. *)
LEMMA TasksApart ==
  ASSUME NEW P, Numbered(P), Accepted(P),
         NEW i \in DOMAIN P, NEW j \in DOMAIN P, ~Twin(P[j], P[i]),
         P[i].kind[3] = "replication_task", P[j].kind[3] = "replication_task",
         P[i].refs[3] = "cdc", P[j].refs[3] = "cdc",
         NEW k \in DOMAIN P, NEW l \in DOMAIN P,
         P[k].kind[3] = "source_secret_endpoint", P[l].kind[3] = "source_secret_endpoint",
         P[k].source = P[i].source, P[k].slot = P[i].refs[1], P[k].refs[1] # "",
         P[l].source = P[j].source, P[l].slot = P[j].refs[1]
  PROVE  <<P[k].target, P[k].refs[1]>> # <<P[l].target, P[l].refs[1]>>
<1>. SUFFICES ASSUME P[k].target = P[l].target, P[k].refs[1] = P[l].refs[1]  PROVE FALSE
  OBVIOUS
<1>1. ~TaskInvalid(P[i], P)
  BY NotRefused DEF Accepted
<1>2. /\ P[i].kind[1] = Dms /\ P[j].kind[1] = Dms /\ P[k].kind[1] = Dms /\ P[l].kind[1] = Dms
  BY MigrationHandlersFound DEF Accepted
<1>3. P[j] \in OfDms({"replication_task"}, P)
  BY <1>2 DEF OfDms
<1>4. P[l] \in Matches(P[j].source, P[j].refs[1], {"source_secret_endpoint"}, P)
  BY <1>2 DEF OfDms, Matches
<1>5. P[i].slot # P[j].slot
  BY <1>1, <1>3 DEF TaskInvalid
<1>6. PICK source \in Matches(P[i].source, P[i].refs[1], Sources, P) : ~SlotShared(P[i], source, P)
  BY <1>1 DEF TaskInvalid
<1>7. PICK m \in DOMAIN P : P[m] = source /\ source.slot = P[k].slot
                            /\ source.kind[1] = Dms /\ source.kind[3] \in Sources
  BY <1>6 DEF Matches, OfDms
<1>8. P[m] \in OfDms(EndpointKinds, P)
  BY <1>7 DEF OfDms, Sources, EndpointKinds
<1>9. Twin(source, P[k])
  BY <1>7, <1>8, OneEndpoint
<1>10. /\ source.kind[3] = "source_secret_endpoint"
       /\ source.target = P[k].target /\ source.refs[1] = P[k].refs[1]
  BY <1>9 DEF Twin
<1>. QED  BY <1>3, <1>4, <1>5, <1>6, <1>10 DEF SlotShared

(* Every connection is at its place; the handlers begin when all are built,  *)
(* and nothing is generated before each of them has accepted its connection. *)
HandledInv ==
  /\ \A i \in DOMAIN built : built[i].n = i
  /\ handled > 0 => Len(built) = Len(drawn)
  /\ \A i \in 1..handled : ~Handle(built[i], built).refused
  /\ phase \in {"granted", "assembled"} => handled = Len(drawn)

(* Each step keeps it. *)
LEMMA HandledKept ==
  ASSUME WiringInv, HandledInv, [Next]_vars
  PROVE  HandledInv'
<1>0. built \in Seq(Ir) /\ Len(built) \in Nat /\ handled \in 0..Len(built) /\ Len(drawn) \in Nat
  BY DEF WiringInv
<1>1. CASE Build
  <2>1. PICK c : built' = Append(built, c) /\ c.n = Len(built) + 1
    BY <1>1 DEF Build
  <2>2. /\ handled = 0 /\ UNCHANGED <<handled, drawn, phase>> /\ phase = "building"
    BY <1>0, <1>1 DEF Build, HandledInv
  <2>3. \A i \in DOMAIN built' : built'[i].n = i
    BY <1>0, <2>1 DEF HandledInv
  <2>. QED  BY <2>2, <2>3 DEF HandledInv
<1>2. CASE HandleConnection
  <2>1. /\ handled' = handled + 1 /\ UNCHANGED <<built, drawn, phase>> /\ phase = "building"
        /\ Len(built) = Len(drawn) /\ ~Handle(built[handled + 1], built).refused
    BY <1>2 DEF HandleConnection, Contribution
  <2>2. \A i \in 1..handled' : ~Handle(built[i], built).refused
    <3>1. \A i \in 1..handled' : i \in 1..handled \/ i = handled + 1
      BY <1>0, <2>1
    <3>. QED  BY <2>1, <3>1 DEF HandledInv
  <2>. QED  BY <2>1, <2>2 DEF HandledInv
<1>3. CASE RefuseConnection \/ RefuseToHandle
  BY <1>3 DEF RefuseConnection, RefuseToHandle, HandledInv
<1>4. CASE AttachIam \/ Assemble
  BY <1>4 DEF AttachIam, Assemble, HandledInv
<1>5. CASE UNCHANGED vars
  BY <1>5 DEF vars, HandledInv
<1>. QED  BY <1>1, <1>2, <1>3, <1>4, <1>5 DEF Next

(* What is generated was accepted by every handler. *)
LEMMA GeneratedAccepted ==
  ASSUME WiringInv, HandledInv, phase = "assembled"
  PROVE  Numbered(built) /\ Accepted(built)
<1>1. handled = Len(built) /\ DOMAIN built = 1..handled
  BY DEF WiringInv, HandledInv
<1>2. \A i \in DOMAIN built : built[i].kind \in ConnectionKinds
  BY DEF WiringInv, Ir
<1>. QED  BY <1>1, <1>2 DEF HandledInv, Numbered, Accepted

(* A replication slot of a source database feeds one CDC task of a generated *)
(* project, for every project. A handler compares its own task with the      *)
(* others through the first endpoint of a name, of whichever type; that this *)
(* is the endpoint the slot belongs to rests on what another handler checked *)
(* (validate_cdc_source, validate_endpoint_identity).                        *)
THEOREM SlotsApart == Spec => []SlotsFeedOneTask
<1>1. Init => HandledInv
  BY DEF Init, HandledInv
<1>2. WiringInv /\ HandledInv /\ [Next]_vars => HandledInv'
  BY HandledKept
<1>3. WiringInv /\ HandledInv => SlotsFeedOneTask
  <2>. SUFFICES ASSUME WiringInv, HandledInv, phase = "assembled",
                       NEW i \in DOMAIN built, NEW j \in DOMAIN built, ~Twin(built[j], built[i]),
                       built[i].kind[3] = "replication_task", built[i].refs[3] = "cdc",
                       built[j].kind[3] = "replication_task", built[j].refs[3] = "cdc",
                       NEW slot \in Fed(built[i]), slot \in Fed(built[j])
                PROVE  FALSE
    BY DEF SlotsFeedOneTask, Done, Range
  <2>1. PICK k \in DOMAIN built :
          /\ slot = <<built[k].target, built[k].refs[1]>> /\ built[k].kind[3] = "source_secret_endpoint"
          /\ built[k].source = built[i].source /\ built[k].slot = built[i].refs[1] /\ built[k].refs[1] # ""
    BY DEF Fed, Range
  <2>2. PICK l \in DOMAIN built :
          /\ slot = <<built[l].target, built[l].refs[1]>> /\ built[l].kind[3] = "source_secret_endpoint"
          /\ built[l].source = built[j].source /\ built[l].slot = built[j].refs[1]
    BY DEF Fed, Range
  <2>3. Numbered(built) /\ Accepted(built)
    BY GeneratedAccepted
  <2>. QED  BY <2>1, <2>2, <2>3, TasksApart, ZenonT(30)
<1>. QED  BY <1>1, <1>2, <1>3, Inductive, PTL DEF Spec
-----------------------------------------------------------------------------
(* What a connection contributes stays within the project. M stands for the *)
(* resources that are generated, W for those that have a role.              *)

(* A file whose name is not that of a role's policy. *)
Free(name) == Len(name) # 3 \/ name[1] # "aws_iam_role_policy"

(* A contribution is confined: it is for modules that are generated and reads *)
(* outputs of such modules; its files are no policies of roles; its           *)
(* permissions are held by roles and name variables, or resources of modules  *)
(* that are generated.                                                        *)
Confined(a, M, W) ==
  /\ \A x \in a.ins \cup a.outs \cup a.files : x.module \in M
  /\ \A x \in a.ins : \A r \in x.from : r[1] \in M
  /\ \A f \in a.files : Free(f.name) /\ DOMAIN f = {"module", "name", "declares", "uses"}
  /\ \A grant \in a.grants : grant.owner \in W /\ \A r \in grant.on : r[1] = "var" \/ r[2] \in M

(* What one piece needs to be confined: a module that is generated, inputs *)
(* from such modules, and for a permission an owner that has a role.       *)
LEMMA OnePiece ==
  ASSUME NEW M, NEW W
  PROVE  /\ Confined(Nothing, M, W) /\ Confined(Rejected, M, W)
         /\ \A m \in M : \A name, from : (\A r \in from : r[1] \in M) => Confined(In(m, name, from), M, W)
         /\ \A m \in M : \A name, from : Confined(Out(m, name, from), M, W)
         /\ \A m \in M : \A name, declares, uses : Free(name) => Confined(File(m, name, declares, uses), M, W)
         /\ \A m, what, peer : Confined(Mark(m, what), M, W) /\ Confined(MarkFor(m, what, peer), M, W)
         /\ \A owner \in W : \A on : (\A r \in on : r[1] = "var" \/ r[2] \in M)
              => Confined(Grant(owner, on), M, W)
BY DEF Confined, Nothing, Rejected, In, Out, File, Mark, MarkFor, Grant

(* A single piece is confined, an input with the forms the handlers give it *)
(* spelled out.                                                             *)
LEMMA Alone ==
  ASSUME NEW M, NEW W
  PROVE  /\ Confined(Nothing, M, W) /\ Confined(Rejected, M, W)
         /\ \A m \in M : \A name, from : Confined(Out(m, name, from), M, W)
         /\ \A m \in M : \A name, declares, uses : Free(name) => Confined(File(m, name, declares, uses), M, W)
         /\ \A m, what, peer : Confined(Mark(m, what), M, W) /\ Confined(MarkFor(m, what, peer), M, W)
         /\ \A owner \in W : \A on : (\A r \in on : r[1] = "var" \/ r[2] \in M)
              => Confined(Grant(owner, on), M, W)
         /\ \A m \in M : \A name, from : (\A r \in from : r[1] \in M) => Confined(In(m, name, from), M, W)
         /\ \A m \in M : \A name : Confined(In(m, name, {}), M, W)
         /\ \A m \in M, x \in M : \A name, o : Confined(In(m, name, {<<x, o>>}), M, W)
         /\ \A m \in M, x \in M : \A name, o, p : Confined(In(m, name, {<<x, o, p>>}), M, W)
         /\ \A m \in M, x \in M : \A name, o, p, q : Confined(In(m, name, {<<x, o, p, q>>}), M, W)
<1>1. \A m \in M, x \in M : \A name, o : Confined(In(m, name, {<<x, o>>}), M, W)
  <2> SUFFICES ASSUME NEW m \in M, NEW x \in M, NEW name, NEW o PROVE Confined(In(m, name, {<<x, o>>}), M, W)
    OBVIOUS
  <2>1. \A r \in {<<x, o>>} : r[1] \in M
    OBVIOUS
  <2>. QED  BY <2>1, OnePiece
<1>2. \A m \in M, x \in M : \A name, o, p : Confined(In(m, name, {<<x, o, p>>}), M, W)
  <2> SUFFICES ASSUME NEW m \in M, NEW x \in M, NEW name, NEW o, NEW p
               PROVE Confined(In(m, name, {<<x, o, p>>}), M, W)
    OBVIOUS
  <2>1. \A r \in {<<x, o, p>>} : r[1] \in M
    OBVIOUS
  <2>. QED  BY <2>1, OnePiece
<1>3. \A m \in M, x \in M : \A name, o, p, q : Confined(In(m, name, {<<x, o, p, q>>}), M, W)
  <2> SUFFICES ASSUME NEW m \in M, NEW x \in M, NEW name, NEW o, NEW p, NEW q
               PROVE Confined(In(m, name, {<<x, o, p, q>>}), M, W)
    OBVIOUS
  <2>1. \A r \in {<<x, o, p, q>>} : r[1] \in M
    OBVIOUS
  <2>. QED  BY <2>1, OnePiece
<1>. QED  BY <1>1, <1>2, <1>3, OnePiece

(* Only a name of three parts can be that of a role's policy. *)
LEMMA ShortNames == (\A a : Free(<<a>>)) /\ (\A a, b : Free(<<a, b>>))
BY DEF Free

(* A variable of the module is no resource of another. *)
LEMMA VariableNames ==
         /\ \A a : V(<<a>>)[1] = "var"
         /\ \A a, b : V(<<a, b>>)[1] = "var"
         /\ \A a, b, d : V(<<a, b, d>>)[1] = "var"
         /\ \A a, b, d, e : V(<<a, b, d, e>>)[1] = "var"
         /\ \A a, b, d, e, f : V(<<a, b, d, e, f>>)[1] = "var"
BY DEF V

(* A permission on a resource of a generated module, or on variables, is *)
(* confined.                                                             *)
LEMMA Permission ==
  ASSUME NEW M, NEW W, NEW owner \in W
  PROVE  /\ \A x \in M : \A type, attribute : Confined(Grant(owner, {<<type, x, attribute>>}), M, W)
         /\ \A a : Confined(Grant(owner, {V(<<a>>)}), M, W)
         /\ \A a, b : Confined(Grant(owner, {V(<<a, b>>)}), M, W)
         /\ \A a, b, d : Confined(Grant(owner, {V(<<a, b, d>>)}), M, W)
<1>1. \A x \in M : \A type, attribute : Confined(Grant(owner, {<<type, x, attribute>>}), M, W)
  <2> SUFFICES ASSUME NEW type, NEW x \in M, NEW attribute
               PROVE  Confined(Grant(owner, {<<type, x, attribute>>}), M, W)
    OBVIOUS
  <2>1. <<type, x, attribute>>[2] \in M
    OBVIOUS
  <2>. QED  BY <2>1, Alone
<1>. QED  BY <1>1, VariableNames, Alone

(* The total of confined contributions is confined. *)
LEMMA AllOf ==
  ASSUME NEW A, NEW M, NEW W, \A a \in A : Confined(a, M, W)
  PROVE  Confined(Total(A), M, W)
BY DEF Confined, Total

(* The infix form of Joined. *)
LEMMA Oplus == \A a, b : a \oplus b = Joined(a, b)
BY DEF \oplus

(* Two confined contributions are confined together. *)
LEMMA Both ==
  ASSUME NEW M, NEW W, NEW a, NEW b, Confined(a, M, W), Confined(b, M, W)
  PROVE  Confined(a \oplus b, M, W)
<1>1. Confined(Joined(a, b), M, W)
  BY DEF Confined, Joined
<1>. QED  BY <1>1, Oplus

(* So is one that is made under a condition. *)
LEMMA Maybe ==
  ASSUME NEW M, NEW W, NEW a, Confined(a, M, W)
  PROVE  /\ \A p : Confined(When(p, a), M, W) /\ Confined(Unless(p, a), M, W)
         /\ \A c, peers : Confined(Speaks(c, peers, a), M, W)
BY Alone DEF When, Unless, Speaks

(* Connections between generated resources; a job that is submitted has its   *)
(* definition among them.                                                     *)
Covers(M, P) ==
  \A i \in DOMAIN P : /\ P[i].source \in M /\ P[i].target \in M
                      /\ P[i].kind[2] = "batch" /\ P[i].fit => P[i].other \in M

(* Every connection a handler sees, its own and its peers, lies between *)
(* generated modules, and so does the key that encrypts a resource.     *)
LEMMA PeersInside ==
  ASSUME NEW M, NEW P, Covers(M, P)
  PROVE  /\ \A c \in Range(P) : c.source \in M /\ c.target \in M
         /\ \A kind : \A d \in Of(kind, P) : d.source \in M /\ d.target \in M
         /\ \A c : \A d \in Into(c, P) \cup OutOf(c, P) : d.source \in M /\ d.target \in M
         /\ \A x : \A key \in ManagedKeys(x, P) : key \in M
         /\ \A c \in Range(P) : c.kind[2] = "batch" /\ c.fit => c.other \in M
<1>1. /\ \A c \in Range(P) : c.source \in M /\ c.target \in M
      /\ \A kind : \A d \in Of(kind, P) : d.source \in M /\ d.target \in M
      /\ \A c : \A d \in Into(c, P) \cup OutOf(c, P) : d.source \in M /\ d.target \in M
  BY DEF Covers, Of, Into, OutOf, Range
<1>2. \A d \in EncryptsOf(P) : d.source \in M
  BY <1>1 DEF EncryptsOf
<1>3. \A x : \A key \in ManagedKeys(x, P) : key \in M
  BY <1>2 DEF ManagedKeys
<1>4. \A c \in Range(P) : c.kind[2] = "batch" /\ c.fit => c.other \in M
  BY DEF Covers, Range
<1>. QED  BY <1>1, <1>3, <1>4

(* Outputs of one generated module are outputs of a generated module. *)
LEMMA OneOutput ==
  ASSUME NEW M, NEW x \in M
  PROVE  \A A : \A r \in {<<x, o>> : o \in A} : r[1] \in M
OBVIOUS
-----------------------------------------------------------------------------
(* The handlers, one group after the other. *)

(* Repositories, builds and pipelines. *)
LEMMA CodeConfined ==
  ASSUME NEW M, NEW P, Covers(M, P), NEW c \in Range(P), NEW W
  PROVE  /\ Confined(EcrEks(c, P), M, W) /\ Confined(EcrEcs(c, P), M, W)
         /\ Confined(CodeArtifactBuild(c, P), M, W) /\ Confined(CodeCommitPipeline(c, P), M, W)
         /\ Confined(CodeCommitBuild(c, P), M, W) /\ Confined(CodeBuildLogs(c, P), M, W)
         /\ Confined(CodePipelineS3(c, P), M, W)
<1>0. c.source \in M /\ c.target \in M
  BY PeersInside
<1>1. Confined(EcrEks(c, P), M, W) /\ Confined(EcrEcs(c, P), M, W)
  <2>1. \A r \in Repositories(c, P) : r[1] \in M
    BY PeersInside DEF Repositories
  <2>. QED  BY <1>0, <2>1, Alone, Both, Maybe DEF EcrEks, EcrEcs, RepositoryOutputs, Free
<1>2. \A reads, made, uses : Confined(RepositorySource(c, reads, made, uses), M, W)
  <2>1. \A reads : Confined(In(c.target, <<"repository_source">>, {<<c.source, o>> : o \in reads}), M, W)
    BY <1>0, OneOutput, Alone
  <2>. QED  BY <1>0, <2>1, Alone, Both, Maybe DEF RepositorySource, OnExternalRole, Free
<1>3. Confined(CodeArtifactBuild(c, P), M, W)
  <2>1. Confined(In(c.target, <<"package_source">>,
           {<<c.source, o>> : o \in {"domain_arn", "domain_name", "owner", "repository_arn",
             "repository_name"}}), M, W)
    BY <1>0, OneOutput, Alone
  <2>. QED  BY <1>0, <2>1, Alone, Both, Maybe DEF CodeArtifactBuild, OnExternalRole, Free
<1>4. Confined(CodeCommitPipeline(c, P), M, W)
  BY <1>2, Maybe DEF CodeCommitPipeline
<1>5. Confined(CodeCommitBuild(c, P), M, W)
  BY <1>2, Maybe DEF CodeCommitBuild
<1>6. Confined(CodeBuildLogs(c, P), M, W)
  <2>1. \A o : Confined(Out(c.target, <<o>>, {<<"aws_cloudwatch_log_group", c.target>>}), M, W)
    BY <1>0, Alone
  <2>2. Confined(In(c.source, <<"build_logs">>,
           {<<c.target, o>> : o \in {"log_group_arn", "log_group_name", "log_group_class",
             "log_group_kms_key_arn"}}), M, W)
    BY <1>0, OneOutput, Alone
  <2>. QED  BY <1>0, <2>1, <2>2, Alone, Both, Maybe, AllOf DEF CodeBuildLogs, LogGroupOutputs, OnExternalRole,
                 Each, Free
<1>7. Confined(CodePipelineS3(c, P), M, W)
  <2>1. \A key \in ManagedKeys(c.target, P) : Confined(In(c.source, <<"artifact_kms_key_arn">>,
          {<<key, "key_arn">>}), M, W)
    BY <1>0, PeersInside, Alone
  <2>. QED  BY <1>0, <2>1, Alone, Both, Maybe, AllOf DEF CodePipelineS3, Each, Free
<1>. QED  BY <1>1, <1>3, <1>4, <1>5, <1>6, <1>7

(* A certificate that is issued in the project. *)
LEMMA IssuedConfined ==
  ASSUME NEW M, NEW P, NEW W, NEW m \in M
  PROVE  Confined(IssuedCertificate(m, P), M, W)
BY Alone, Both, Maybe DEF IssuedCertificate, Free

(* Certificates of balancers, distributions, domains and gateways. *)
LEMMA CertificatesConfined ==
  ASSUME NEW M, NEW P, Covers(M, P), NEW c \in Range(P), NEW W
  PROVE  /\ Confined(CertificateLoadBalancer(c), M, W) /\ Confined(CertificateCloudFront(c), M, W)
         /\ Confined(PrivateCertificate(c, P), M, W) /\ Confined(CertificateDns(c, P), M, W)
         /\ Confined(ClientVpnCertificate(c, P), M, W) /\ Confined(ApiGatewayCertificate(c, P), M, W)
<1>0. c.source \in M /\ c.target \in M
  BY PeersInside
<1>1. Confined(CertificateLoadBalancer(c), M, W) /\ Confined(CertificateCloudFront(c), M, W)
  BY <1>0, Alone, Both, Maybe DEF CertificateLoadBalancer, CertificateCloudFront, Peer, Free
<1>3. Confined(PrivateCertificate(c, P), M, W)
  BY <1>0, Alone, Both, Maybe DEF PrivateCertificate, AuthorityActivation, Free
<1>4. Confined(CertificateDns(c, P), M, W)
  <2>1. Confined(ZoneRecords(c.source, P), M, W)
    <3>1. \A x : Confined(Out(c.source, Validated(c.source, x),
            {<<"aws_route53_record", c.source, "acm_validation">>}), M, W)
      BY <1>0, Alone
    <3>2. \A x \in M : Confined(In(c.source, <<"acm", x, "validation_options">>,
            {<<x, "domain_validation_options">>}), M, W)
      BY <1>0, Alone
    <3>3. \A d \in Of(DnsValidation, P) : d.target \in M
      BY PeersInside
    <3>. QED  BY <1>0, <3>1, <3>2, <3>3, Alone, Both, AllOf DEF ZoneRecords, Each, Free
  <2>2. ASSUME NEW zone \in ZonesOf(c.target, P)
        PROVE  Confined(In(c.target, Fqdns(zone), {<<zone>> \o Validated(zone, c.target)}), M, W)
    <3>1. zone \in M
      BY PeersInside DEF ZonesOf
    <3>2. \A r \in {<<zone>> \o Validated(zone, c.target)} : r[1] = zone
      BY DEF Validated
    <3>. QED  BY <1>0, <3>1, <3>2, Alone
  <2>. QED  BY <1>0, <2>1, <2>2, IssuedConfined, Alone, Both, Maybe, AllOf DEF CertificateDns, Each
<1>5. Confined(ClientVpnCertificate(c, P), M, W)
  BY <1>0, IssuedConfined, Alone, Both, Maybe DEF ClientVpnCertificate, Free
<1>6. Confined(ApiGatewayCertificate(c, P), M, W)
  <2> DEFINE peers == Into(c, P)
             domains == Each(peers, CertificateDomain)
             merged_ == [domains EXCEPT !.files =
                {[module |-> c.target, name |-> <<"certificate_domains">>,
                  declares |-> UNION {f.declares : f \in @}
                        \cup Labelled({"data.aws_region", "data.aws_caller_identity"}, <<"api_custom_domains">>),
                  uses |-> UNION {f.uses : f \in @}]}]
             certificate(x) == IssuedCertificate(x, P)
                 \oplus In(c.target, AcmInput(x, "certificate_arn"), {<<x, "issued_certificate_arn">>})
                 \oplus In(c.target, AcmInput(x, "certificate_names"), {<<x, "api_gateway_certificate_names">>})
                 \oplus Out(x, <<"api_gateway_certificate_names">>, {<<"aws_acm_certificate", x>>})
  <2>1. \A d \in peers : Confined(CertificateDomain(d), M, W)
    <3> SUFFICES ASSUME NEW d \in peers PROVE Confined(CertificateDomain(d), M, W)
      OBVIOUS
    <3>1. d.target \in M
      BY PeersInside
    <3>2. \A suffix : Confined(Out(d.target, <<d.target, d.slot, suffix>>,
            {<<"aws_apigatewayv2_domain_name", d.target, d.slot>>}), M, W)
      BY <3>1, Alone
    <3>. QED  BY <3>1, <3>2, Alone, Both, AllOf DEF CertificateDomain, Each, Free
  <2>2. Confined(domains, M, W)
    BY <2>1, AllOf DEF Each
  <2>3. Confined(merged_, M, W)
    <3> HIDE DEF domains
    <3> PICK file : file = [module |-> c.target, name |-> <<"certificate_domains">>,
                  declares |-> UNION {f.declares : f \in domains.files}
                        \cup Labelled({"data.aws_region", "data.aws_caller_identity"}, <<"api_custom_domains">>),
                  uses |-> UNION {f.uses : f \in domains.files}]
      OBVIOUS
    <3>1. file.module = c.target /\ Free(file.name) /\ DOMAIN file = {"module", "name", "declares", "uses"}
      BY DEF Free
    <3>2. merged_ = [domains EXCEPT !.files = {file}]
      OBVIOUS
    <3>. QED  BY <1>0, <2>2, <3>1, <3>2 DEF Confined
  <2>4. \A x \in {d.source : d \in peers} : Confined(certificate(x), M, W)
    <3> SUFFICES ASSUME NEW x \in {d.source : d \in peers} PROVE Confined(certificate(x), M, W)
      OBVIOUS
    <3>1. x \in M
      BY PeersInside
    <3>2. Confined(IssuedCertificate(x, P), M, W)
      BY <3>1, IssuedConfined
    <3>3. \A name, output : Confined(In(c.target, name, {<<x, output>>}), M, W)
      BY <1>0, <3>1, Alone
    <3>4. \A name, from : Confined(Out(x, name, from), M, W)
      BY <3>1, Alone
    <3>. QED  BY <3>2, <3>3, <3>4, Both
  <2>. QED
    <3>1. Confined(Each({d.source : d \in peers}, certificate), M, W)
      <4> HIDE DEF certificate
      <4>. QED BY <2>4, AllOf DEF Each
    <3>2. Confined(merged_ \oplus Each({d.source : d \in peers}, certificate), M, W)
      <4> HIDE DEF certificate, merged_
      <4>. QED BY <2>3, <3>1, Both
    <3> QED BY <3>2, Maybe DEF ApiGatewayCertificate
<1>. QED  BY <1>1, <1>3, <1>4, <1>5, <1>6

(* Placements in networks, attachments, routes and target groups. *)
LEMMA PlacementsConfined ==
  ASSUME NEW M, NEW P, Covers(M, P), NEW c \in Range(P), NEW W
  PROVE  /\ Confined(SubnetListPlacement(c, P), M, W)
         /\ Confined(SecurityGroupListAssociation(c, P), M, W)
         /\ Confined(SecurityGroupEC2Association(c, P), M, W)
         /\ Confined(TargetGroupPlacement(c, P), M, W)
         /\ Confined(SubnetEC2Placement(c), M, W)
         /\ Confined(SubnetMembership(c), M, W)
         /\ Confined(VpcMembership(c), M, W)
         /\ Confined(Route53VpcAssociation(c), M, W)
         /\ Confined(LaunchTemplateAutoScaling(c, P), M, W)
         /\ Confined(EbsAttachment(c, P), M, W)
         /\ Confined(GatewayRoute(c), M, W)
         /\ Confined(RouteTableAssociation(c), M, W)
         /\ Confined(TargetGroupEC2Attachment(c), M, W)
         /\ Confined(TargetGroupLambdaAttachment(c), M, W)
         /\ Confined(WafLoadBalancer(c), M, W)
         /\ Confined(WafCloudFront(c), M, W)
         /\ Confined(DnsAlias(c), M, W)
         /\ Confined(LoadBalancerTargetGroup(c, P), M, W)
<1>0. c.source \in M /\ c.target \in M
  BY PeersInside
<1>1. \A input, output : Confined(ListPlacement(c, P, input, output), M, W)
  <2> SUFFICES ASSUME NEW input, NEW output PROVE Confined(ListPlacement(c, P, input, output), M, W)
    OBVIOUS
  <2>1. \A r \in {<<d.source, output>> : d \in Into(c, P)} : r[1] \in M
    BY PeersInside
  <2>. QED  BY <1>0, <2>1, Alone, Both DEF ListPlacement
<1>2. Confined(SubnetListPlacement(c, P), M, W)
  BY <1>1 DEF SubnetListPlacement
<1>3. Confined(SecurityGroupListAssociation(c, P), M, W) /\ Confined(SecurityGroupEC2Association(c, P), M, W)
  BY <1>1 DEF SecurityGroupListAssociation, SecurityGroupEC2Association
<1>4. Confined(TargetGroupPlacement(c, P), M, W)
  BY <1>1 DEF TargetGroupPlacement
<1>5. Confined(SubnetEC2Placement(c), M, W)
  BY <1>0, Alone, Both, Maybe DEF SubnetEC2Placement, Free
<1>6. Confined(SubnetMembership(c), M, W)
  BY <1>0, Alone, Both, Maybe DEF SubnetMembership, Free
<1>7. Confined(VpcMembership(c), M, W)
  BY <1>0, Alone, Both, Maybe DEF VpcMembership, Free
<1>8. Confined(Route53VpcAssociation(c), M, W)
  BY <1>0, Alone, Both, Maybe DEF Route53VpcAssociation, Free
<1>9. Confined(LaunchTemplateAutoScaling(c, P), M, W)
  BY <1>0, Alone, Both, Maybe DEF LaunchTemplateAutoScaling, Free
<1>10. Confined(EbsAttachment(c, P), M, W)
  BY <1>0, Alone, Both, Maybe DEF EbsAttachment, Free
<1>11. Confined(GatewayRoute(c), M, W)
  BY <1>0, Alone, Both, Maybe DEF GatewayRoute, Peer, Links, Free
<1>12. Confined(RouteTableAssociation(c), M, W)
  BY <1>0, Alone, Both, Maybe DEF RouteTableAssociation, Peer, Links, Free
<1>13. Confined(TargetGroupEC2Attachment(c), M, W)
  BY <1>0, Alone, Both, Maybe DEF TargetGroupEC2Attachment, Peer, Links, Free
<1>14. Confined(TargetGroupLambdaAttachment(c), M, W)
  BY <1>0, Alone, Both, Maybe DEF TargetGroupLambdaAttachment, Peer, Links, Free
<1>15. Confined(WafLoadBalancer(c), M, W)
  BY <1>0, Alone, Both, Maybe DEF WafLoadBalancer, Peer, Links, Free
<1>16. Confined(WafCloudFront(c), M, W)
  BY <1>0, Alone, Both, Maybe DEF WafCloudFront, Free
<1>17. Confined(DnsAlias(c), M, W)
  BY <1>0, Alone, Both, Maybe DEF DnsAlias, Peer, Free
<1>18. Confined(LoadBalancerTargetGroup(c, P), M, W)
  BY <1>0, Alone, Both, Maybe DEF LoadBalancerTargetGroup, Peer, Free
<1>. QED  BY <1>1, <1>2, <1>3, <1>4, <1>5, <1>6, <1>7, <1>8, <1>9, <1>10, <1>11, <1>12, <1>13, <1>14, <1>15,
               <1>16, <1>17, <1>18

(* A fault experiment, whatever it stops. *)
LEMMA ExperimentConfined ==
  ASSUME NEW M, NEW W, NEW m \in M, NEW service, NEW made, NEW uses
  PROVE  Confined(Experiment(m, service, made, uses), M, W)
<1> DEFINE tag == service \o "_targets"
<1>1. Free(<<tag>>) /\ Free(<<tag, "role">>)
  BY DEF Free
<1> HIDE DEF tag
<1>2. \A declares, reads : /\ Confined(File(m, <<tag>>, declares, reads), M, W)
                           /\ Confined(File(m, <<tag, "role">>, declares, reads), M, W)
  BY <1>1, Alone
<1>. QED  BY <1>2, Alone, Both DEF Experiment, tag

(* The experiments that bring a role to a cluster are generated. *)
LEMMA RolesInside ==
  ASSUME NEW M, NEW P, Covers(M, P), NEW cluster
  PROVE  \A x \in RoleSources(cluster, P) : x \in M
<1> DEFINE templates == {d \in Of(<<"fault-injection-simulator", "eks", "targets">>, P) : d.target = cluster}
           under(role) == {d.source : d \in {e \in templates : e.other = role}}
<1>1. \A role \in {d.other : d \in templates} : under(role) # {} /\ \A x \in under(role) : x \in M
  BY PeersInside
<1>2. \A role \in {d.other : d \in templates} : (CHOOSE s \in under(role) : TRUE) \in under(role)
  BY <1>1
<1>. QED  BY <1>1, <1>2 DEF RoleSources

(* Fault experiments on instances, tasks and nodes. *)
LEMMA FaultsConfined ==
  ASSUME NEW M, NEW P, Covers(M, P), NEW c \in Range(P), NEW W
  PROVE  Confined(FisEc2(c, P), M, W) /\ Confined(FisEcs(c, P), M, W) /\ Confined(FisEks(c, P), M, W)
<1>0. c.source \in M /\ c.target \in M
  BY PeersInside
<1>1. Confined(FisEc2(c, P), M, W)
  <2>1. \A d \in OutOf(c, P) : Confined(Out(d.target, <<"fis_instance">>, {<<"aws_instance", d.target>>}), M, W)
    BY PeersInside, Alone
  <2>2. \A r \in {<<d.target, "fis_instance">> : d \in OutOf(c, P)} : r[1] \in M
    BY PeersInside
  <2>. QED  BY <1>0, <2>1, <2>2, ExperimentConfined, Alone, Both, Maybe, AllOf DEF FisEc2, Each
<1>2. Confined(FisEcs(c, P), M, W)
  BY <1>0, ExperimentConfined, Alone, Both, Maybe DEF FisEcs, Free
<1>3. Confined(FisEks(c, P), M, W)
  <2>1. \A r \in {<<x, "fis_experiment_role">> : x \in RoleSources(c.target, P)} : r[1] \in M
    BY RolesInside
  <2>. QED  BY <1>0, <2>1, ExperimentConfined, Alone, Both, Maybe, ZenonT(30) DEF FisEks, Free
<1>. QED  BY <1>1, <1>2, <1>3

(* An endpoint of a migration. *)
LEMMA EndpointConfined ==
  ASSUME NEW M, NEW W, NEW c, c.source \in M, c.target \in M, NEW fields, NEW made
  PROVE  Confined(Endpoint(c, fields, made), M, W)
<1>1. \A f : Confined(Out(c.target, <<"iam_database_" \o f>>, {Database(c.kind[2], c.target)})
                      \oplus In(c.source, <<"dms_database", c.target, f>>, {<<c.target, "iam_database_" \o f>>}),
                        M, W)
  <2> SUFFICES ASSUME NEW f
               PROVE  Confined(Out(c.target, <<"iam_database_" \o f>>, {Database(c.kind[2], c.target)})
                      \oplus In(c.source, <<"dms_database", c.target, f>>, {<<c.target, "iam_database_" \o f>>}),
                        M, W)
    OBVIOUS
  <2> DEFINE output == "iam_database_" \o f
  <2> HIDE DEF output
  <2>1. Confined(Out(c.target, <<output>>, {Database(c.kind[2], c.target)})
                 \oplus In(c.source, <<"dms_database", c.target, f>>, {<<c.target, output>>}), M, W)
    BY Alone, Both
  <2>. QED  BY <2>1 DEF output
<1> DEFINE each == Each(fields, LAMBDA f : Out(c.target, <<"iam_database_" \o f>>, {Database(c.kind[2],
             c.target)})
                      \oplus In(c.source, <<"dms_database", c.target, f>>, {<<c.target, "iam_database_" \o f>>}))
<1>2. Confined(each, M, W)
  BY <1>1, AllOf, Zenon DEF Each
<1>3. \A declares, uses : Confined(File(c.source, <<"endpoint", c.slot>>, declares, uses), M, W)
  BY Alone DEF Free
<1>4. \A uses : Confined(Out(c.source, <<"endpoint", c.slot>> \o <<"arn">>, uses), M, W)
  BY Alone
<1> HIDE DEF each
<1>6. \A declares, uses, reads :
         Confined(each \oplus File(c.source, <<"endpoint", c.slot>>, declares, uses)
                       \oplus Out(c.source, <<"endpoint", c.slot>> \o <<"arn">>, reads), M, W)
  BY <1>2, <1>3, <1>4, Both
<1>. QED  BY <1>6 DEF Endpoint, each

(* Migrations: their endpoints and tasks. *)
LEMMA MigrationsConfined ==
  ASSUME NEW M, NEW P, Covers(M, P), NEW c \in Range(P), NEW W
  PROVE  /\ Confined(DmsDatabaseEndpoint(c, P), M, W) /\ Confined(DmsSecretEndpoint(c, P), M, W)
         /\ Confined(DmsReplicationTask(c, P), M, W)
<1>0. c.source \in M /\ c.target \in M
  BY PeersInside
<1>1. Confined(DmsDatabaseEndpoint(c, P), M, W)
  BY <1>0, EndpointConfined, Alone, Both, Maybe DEF DmsDatabaseEndpoint, Free
<1>2. Confined(DmsSecretEndpoint(c, P), M, W)
  BY <1>0, EndpointConfined, Alone, Both, Maybe DEF DmsSecretEndpoint
<1>3. Confined(DmsReplicationTask(c, P), M, W)
  BY <1>0, Alone, Both, Maybe DEF DmsReplicationTask, Free
<1>. QED  BY <1>1, <1>2, <1>3

(* Routes of APIs, their logs, and the pools that authenticate their users. *)
LEMMA RoutesConfined ==
  ASSUME NEW M, NEW P, Covers(M, P), NEW c \in Range(P), NEW W
  PROVE  /\ Confined(ApiGatewayLambda(c, P), M, W) /\ Confined(ApiGatewayStepFunctions(c, P), M, W)
         /\ Confined(ApiGatewayLogs(c, P), M, W) /\ Confined(CognitoAppSync(c, P), M, W)
         /\ Confined(CognitoApiGateway(c, P), M, W) /\ Confined(CognitoLoadBalancer(c, P), M, W)
         /\ Confined(AcceleratorLoadBalancer(c), M, W)
<1>0. c.source \in M /\ c.target \in M /\ \A d \in Into(c, P) \cup OutOf(c, P) : d.source \in M /\ d.target \in M
  BY PeersInside
<1>1. Confined(LambdaWiring(c.source, c.target), M, W)
  BY <1>0, Alone, Both DEF LambdaWiring, Peer
<1>2. \A file, declares, uses : Free(file) => /\ Confined(ApiPart(c.source, file, declares, uses), M, W)
                                              /\ Confined(ApiPart(c.target, file, declares, uses), M, W)
  BY <1>0, Alone DEF ApiPart
<1>3. Confined(ApiGatewayLambda(c, P), M, W)
  <2>1. Confined(Authorizer(c), M, W)
    BY <1>1, <1>2, Both DEF Authorizer, Free
  <2>2. Confined(RouteToFunction(c, P), M, W)
    BY <1>1, <1>2, Both, Maybe DEF RouteToFunction, Free
  <2>. QED  BY <2>1, <2>2 DEF ApiGatewayLambda
<1>4. Confined(ApiGatewayStepFunctions(c, P), M, W)
  BY <1>0, Alone, Both, Maybe DEF ApiGatewayStepFunctions, Peer, Free
<1>5. Confined(ApiGatewayLogs(c, P), M, W)
  <2>1. \A d : Confined(MarkFor(c.source, "stage_logs", d.slot), M, W)
    BY Alone
  <2>2. \A r \in {<<d.target, "log_group_arn">> : d \in OutOf(c, P)} : r[1] \in M
    BY <1>0
  <2>. QED  BY <1>0, <2>1, <2>2, Alone, Both, Maybe, AllOf DEF ApiGatewayLogs, Each, Free
<1>6. Confined(CognitoAppSync(c, P), M, W)
  <2> DEFINE provider(pool) ==
        Out(pool, <<"appsync_user_pool_region">>, {<<"aws_cognito_user_pool", pool>>})
        \oplus In(c.target, <<"cognito", pool, "user_pool_id">>, {<<pool, "user_pool_id">>})
        \oplus In(c.target, <<"cognito", pool, "region">>, {<<pool, "appsync_user_pool_region">>})
        \oplus In(c.target, <<"cognito", pool, "client_id">>, {<<pool, "client_id">>})
             added(pool) == MarkFor(c.target, "cognito", pool) \oplus provider(pool)
  <2>1. \A pool \in {d.source : d \in Into(c, P)} : Confined(added(pool), M, W)
    BY <1>0, Alone, Both
  <2>2. Confined(Each({d.source : d \in Into(c, P)}, added), M, W)
    <3> HIDE DEF added
    <3>. QED  BY <2>1, AllOf DEF Each
  <2>. QED  BY <2>2, Maybe DEF CognitoAppSync
<1>7. Confined(CognitoApiGateway(c, P), M, W)
  <2> DEFINE authorizer(pool) ==
        ApiPart(c.target, <<"cognito_authorizer", pool>>, <<"aws_apigatewayv2_authorizer", "cognito", pool>>,
                {V(<<"cognito", pool, "endpoint">>), V(<<"cognito", pool, "client_id">>)})
        \oplus In(c.target, <<"cognito", pool, "endpoint">>, {<<pool, "endpoint">>})
        \oplus In(c.target, <<"cognito", pool, "client_id">>, {<<pool, "client_id">>})
  <2>1. \A pool \in {d.source : d \in Into(c, P)} : Confined(authorizer(pool), M, W)
    BY <1>0, <1>2, Alone, Both DEF Free
  <2>2. Confined(Each({d.source : d \in Into(c, P)}, authorizer), M, W)
    <3> HIDE DEF authorizer
    <3>. QED  BY <2>1, AllOf DEF Each
  <2>3. Confined(Mark(c.target, "jwt") \oplus Each({d.source : d \in Into(c, P)}, authorizer), M, W)
    <3> HIDE DEF authorizer
    <3>. QED  BY <2>2, Alone, Both
  <2>. QED  BY <2>3, Maybe DEF CognitoApiGateway
<1>8. Confined(CognitoLoadBalancer(c, P), M, W)
  <2>1. \A what : Confined(In(c.target, <<"cognito", c.source, what>>, {<<c.source, what>>}), M, W)
    BY <1>0, Alone
  <2>. QED  BY <1>0, <2>1, Alone, Both, Maybe, AllOf DEF CognitoLoadBalancer, Each, Free
<1>9. Confined(AcceleratorLoadBalancer(c), M, W)
  BY <1>0, Alone, Both DEF AcceleratorLoadBalancer, Peer, Free
<1>. QED  BY <1>3, <1>4, <1>5, <1>6, <1>7, <1>8, <1>9

(* A data source of a GraphQL API with the permissions of its role. *)
LEMMA ResolvesConfined ==
  ASSUME NEW M, NEW P, Covers(M, P), NEW c \in Range(P), NEW W, c.kind[2] # "aws_iam_role_policy",
         NEW others, NEW policy, NEW outputs
  PROVE  Confined(Resolves(c, P, others, policy, outputs), M, W)
<1> DEFINE kind == c.kind[2]
           name(target, output) == <<"appsync", target, output[2]>>
           source(target) ==
             DataSource(c.source, kind, target, policy, {V(name(target, o)) : o \in outputs})
             \oplus Each(outputs, LAMBDA o : In(c.source, name(target, o), {<<target, o[1]>>}))
           resolver(d) ==
             File(c.source, <<kind, d.slot>>, {<<"aws_appsync_resolver", d.slot>>},
                  {<<"aws_appsync_graphql_api", c.source>>, <<"aws_appsync_datasource", kind, d.target>>})
           sources == Each({d.target : d \in OutOf(c, P)}, source)
           resolvers == Each(OutOf(c, P), resolver)
<1>0. c.source \in M /\ \A d \in OutOf(c, P) : d.target \in M
  BY PeersInside
<1>1. \A target \in M : Confined(source(target), M, W)
  <2> TAKE target \in M
  <2>1. \A o : Confined(In(c.source, name(target, o), {<<target, o[1]>>}), M, W)
    BY <1>0, Alone
  <2>2. Confined(Each(outputs, LAMBDA o : In(c.source, name(target, o), {<<target, o[1]>>})), M, W)
    <3> HIDE DEF name
    <3>. QED  BY <2>1, AllOf DEF Each
  <2>3. \A uses : Confined(DataSource(c.source, kind, target, policy, uses), M, W)
    <3>1. Free(<<kind, "datasource", target>>)
      BY DEF Free
    <3> HIDE DEF kind
    <3>. QED  BY <1>0, <3>1, Alone DEF DataSource
  <2> HIDE DEF name, kind
  <2>. QED  BY <2>2, <2>3, Both
<1>2. \A d : Confined(resolver(d), M, W)
  BY <1>0, Alone DEF Free
<1>3. Confined(sources, M, W) /\ Confined(resolvers, M, W)
  <2> HIDE DEF source, resolver
  <2>. QED  BY <1>0, <1>1, <1>2, AllOf DEF Each
<1>4. Confined(sources \oplus resolvers, M, W)
  <2> HIDE DEF sources, resolvers
  <2>. QED  BY <1>3, Both
<1>. QED  BY <1>4, Maybe DEF Resolves

(* Data sources of every sort. *)
LEMMA FieldsConfined ==
  ASSUME NEW M, NEW P, Covers(M, P), NEW c \in Range(P), NEW W, c.kind[2] # "aws_iam_role_policy"
  PROVE  /\ Confined(AppSyncLambda(c, P), M, W) /\ Confined(AppSyncDynamoDb(c, P), M, W)
         /\ Confined(AppSyncOpenSearch(c, P), M, W) /\ Confined(AppSyncEventBridge(c, P), M, W)
         /\ Confined(AppSyncAurora(c, P), M, W)
<1>0. c.source \in M
  BY PeersInside
<1>1. Confined(AppSyncLambda(c, P), M, W) /\ Confined(AppSyncEventBridge(c, P), M, W)
  BY ResolvesConfined DEF AppSyncLambda, AppSyncEventBridge
<1>2. \A what : \A x : Confined(Mark(x, what), M, W)
  BY Alone
<1>3. Confined(AppSyncOpenSearch(c, P), M, W)
  <2>1. Confined(Each({d.target : d \in OutOf(c, P)}, LAMBDA x : Mark(x, "index_client_access")), M, W)
    BY <1>2, AllOf DEF Each
  <2>. QED  BY <2>1, ResolvesConfined, Both, Maybe DEF AppSyncOpenSearch
<1>4. Confined(AppSyncAurora(c, P), M, W)
  <2>1. Confined(Each({d.target : d \in OutOf(c, P)}, LAMBDA x : Mark(x, "appsync_data_api")), M, W)
    BY <1>2, AllOf DEF Each
  <2>. QED  BY <2>1, ResolvesConfined, Both, Maybe DEF AppSyncAurora
<1>5. Confined(AppSyncDynamoDb(c, P), M, W)
  <2> DEFINE own == Resolves(c, P, {"lambda"}, "access", {<<"table_name", "table_name">>,
               <<"table_arn", "table_arn">>})
             key(table) == <<"appsync", table, "kms_key_arn">>
             encrypted(f) == {d.target : d \in {e \in OutOf(c, P) : TableKeys(e.target, P) # {}
                                                        /\ f.name = <<"dynamodb", "datasource", e.target>>}}
             files == {[f EXCEPT !.uses = @ \cup {V(key(table)) : table \in encrypted(f)}] : f \in own.files}
             keyed(table) == Each(TableKeys(table, P), LAMBDA k : In(c.source, key(table), {<<k, "key_arn">>}))
             keys == Each({d.target : d \in {e \in OutOf(c, P) : TableKeys(e.target, P) # {}}}, keyed)
  <2>1. Confined(own, M, W)
    BY ResolvesConfined
  <2>2. \A table : Confined(keyed(table), M, W)
    <3> TAKE table
    <3>1. \A k \in TableKeys(table, P) : Confined(In(c.source, key(table), {<<k, "key_arn">>}), M, W)
      BY <1>0, PeersInside, Alone DEF TableKeys
    <3> HIDE DEF key
    <3>. QED  BY <3>1, AllOf DEF Each
  <2>3. Confined(keys, M, W)
    <3> HIDE DEF keyed
    <3>. QED  BY <2>2, AllOf DEF Each
  <2>4. Confined([own EXCEPT !.files = files], M, W)
    <3> HIDE DEF own, encrypted, key
    <3>1. \A file \in files : \E f \in own.files : /\ file.module = f.module /\ file.name = f.name
                                                      /\ DOMAIN file = DOMAIN f
      BY <2>1 DEF Confined
    <3> HIDE DEF files
    <3>. QED  BY <2>1, <3>1 DEF Confined
  <2>5. Confined([own EXCEPT !.files = files] \oplus When(own.files # {}, keys), M, W)
    <3> HIDE DEF own, files, keys
    <3>. QED  BY <2>3, <2>4, Both, Maybe
  <2>. QED  BY <2>5 DEF AppSyncDynamoDb
<1>. QED  BY <1>1, <1>3, <1>4, <1>5

(* Access to the key of a resource, for an owner that has a role. *)
LEMMA AugmentConfined ==
  ASSUME NEW M, NEW P, Covers(M, P), NEW W, NEW owner \in M, owner \in W, NEW target
  PROVE  Confined(Augment(owner, target, P), M, W)
<1> DEFINE variable == <<"kms_access", target, "arn">>
           given(key) == In(owner, variable, {<<key, "key_arn">>}) \oplus Grant(owner, {V(variable)})
<1>1. V(variable)[1] = "var"
  BY DEF V
<1>2. \A key \in ManagedKeys(target, P) : Confined(given(key), M, W)
  <2> HIDE DEF variable
  <2>. QED  BY <1>1, PeersInside, Alone, Both
<1>3. Confined(Each(ManagedKeys(target, P), given), M, W)
  <2> HIDE DEF given
  <2>. QED  BY <1>2, AllOf DEF Each
<1>. QED  BY <1>3, Maybe DEF Augment

(* Without its permissions a contribution needs no owner with a role. *)
LEMMA Ungranted ==
  ASSUME NEW M, NEW V1, NEW W, NEW a, Confined(a, M, V1)
  PROVE  Confined([a EXCEPT !.grants = {}], M, W)
BY DEF Confined

(* What a service is told of the resource that writes to it. *)
LEMMA IdentityConfined ==
  ASSUME NEW M, NEW W, NEW service, NEW x \in M
  PROVE  Confined(ServiceIdentity(service, x), M, W)
BY Alone, Both, Maybe DEF ServiceIdentity, Free

(* The publishers a key serves are generated. *)
LEMMA MembersInside ==
  ASSUME NEW M, NEW P, Covers(M, P), NEW rule, NEW key, NEW x \in Members(rule, key, P)
  PROVE  x[2] \in M
<1> DEFINE targets == {d.target : d \in {e \in EncryptsOf(P) : e.source = key /\ e.kind[2] = rule.encrypted}}
<1>1. \A t \in targets : t \in M
  BY PeersInside DEF EncryptsOf
<1>2. CASE rule.publisher = ""
  <2>1. PICK t \in targets : x = <<rule.encrypted, t>>
    BY <1>2 DEF Members
  <2>. QED  BY <1>1, <2>1
<1>3. CASE rule.publisher # ""
  <2>1. PICK i \in DOMAIN P : x = <<rule.publisher, P[i].source>>
    BY <1>3 DEF Members
  <2>. QED  BY <2>1 DEF Covers
<1>. QED  BY <1>2, <1>3

(* The key policy for the services that use a key. *)
LEMMA ServicePolicyConfined ==
  ASSUME NEW M, NEW P, Covers(M, P), NEW W, NEW key \in M
  PROVE  Confined(KmsServicePolicy(key, P), M, W)
<1> DEFINE identities(rule) == Each(Members(rule, key, P), LAMBDA x : ServiceIdentity(x[1], x[2]))
           admitted(rule) == identities(rule)
              \oplus In(key, <<rule.variable>>, {<<x[2], IdentityOutput(x[1])>> : x \in Members(rule, key, P)})
           named == {rule \in PolicyRules : rule.variable # "" /\ Members(rule, key, P) # {}}
<1>1. \A rule : Confined(identities(rule), M, W)
  <2> TAKE rule
  <2>1. \A x \in Members(rule, key, P) : Confined(ServiceIdentity(x[1], x[2]), M, W)
    BY MembersInside, IdentityConfined
  <2>. QED  BY <2>1, AllOf DEF Each
<1>2. \A rule : Confined(admitted(rule), M, W)
  <2> TAKE rule
  <2>1. \A r \in {<<x[2], IdentityOutput(x[1])>> : x \in Members(rule, key, P)} : r[1] \in M
    BY MembersInside
  <2> HIDE DEF identities
  <2>. QED  BY <1>1, <2>1, Alone, Both
<1>3. Confined(Each(named, admitted), M, W)
  <2> HIDE DEF admitted
  <2>. QED  BY <1>2, AllOf DEF Each
<1>4. \A declares, uses, from, reads, p : Confined(
        Each(named, admitted) \oplus File(key, <<"key_policy">>, declares, uses)
        \oplus Out(key, <<"service_key_arn">>, from)
        \oplus When(p, Out(key, <<"cloudtrail_key_arn">>, reads)), M, W)
  <2> HIDE DEF admitted, named
  <2>. QED  BY <1>3, Alone, Both, Maybe DEF Free
<1>. QED  BY <1>4 DEF KmsServicePolicy

(* Encryption, for every resource a key may encrypt. *)
LEMMA EncryptionConfined ==
  ASSUME NEW M, NEW P, Covers(M, P), NEW c \in Range(P), NEW W, c.kind[2] = "lambda" => c.target \in W
  PROVE  Confined(KmsEncryption(c, P), M, W)
<1>0. c.source \in M /\ c.target \in M
  BY PeersInside
<1>1. \A input : c.kind[2] = "lambda" => Confined(Grant(c.target, {V(<<input>>)}), M, W)
  <2>1. \A input : V(<<input>>)[1] = "var"
    BY DEF V
  <2>. QED  BY <2>1, Alone
<1>2. \A input : Confined(When(c.kind[2] = "lambda", Grant(c.target, {V(<<input>>)})), M, W)
  BY <1>1, Alone DEF When
<1>. QED  BY <1>0, <1>2, ServicePolicyConfined, Alone, Both, Maybe DEF KmsEncryption

(* Connections of several kinds lie between generated modules too. *)
LEMMA OfAnyInside ==
  ASSUME NEW M, NEW P, Covers(M, P), NEW kinds
  PROVE  \A d \in OfAny(kinds, P) : d.source \in M /\ d.target \in M
BY PeersInside DEF OfAny

(* What a bucket's policy lets the auditing services write. *)
LEMMA AuditConfined ==
  ASSUME NEW M, NEW P, Covers(M, P), NEW W, NEW bucket \in M
  PROVE  Confined(AuditPolicy(bucket, P).adds, M, W)
<1> DEFINE sources(service) == {d.source : d \in {e \in OfAny(Audit,
             P) : e.target = bucket /\ e.kind[1] = service}}
           account(x) == <<"delivery", x, "account">>
           trail(x) == <<"delivery", x, "trail_arn">>
           admits(x) ==
             File(x, <<"delivery_identity">>, {<<"data.aws_caller_identity", "delivery">>}, {})
             \oplus Out(x, <<"delivery_account_id">>, {<<"data.aws_caller_identity", "delivery">>})
             \oplus In(bucket, account(x), {<<x, "delivery_account_id">>})
             \oplus In(x, <<"s3_bucket_name">>, {<<bucket, "delivery_bucket_name">>})
           marked(x) == admits(x) \oplus Mark(x, "delivers")
           trails(x) == ServiceIdentity("cloudtrail", x) \oplus In(bucket, trail(x),
             {<<x, "encryption_trail_arn">>})
<1>1. \A service : \A x \in sources(service) : x \in M
  BY OfAnyInside
<1>2. \A x \in M : Confined(marked(x), M, W) /\ Confined(trails(x), M, W)
  BY IdentityConfined, Alone, Both DEF Free
<1>3. /\ Confined(Each(sources("cloudtrail") \cup sources("aws-config"), marked), M, W)
      /\ Confined(Each(sources("cloudtrail"), trails), M, W)
  <2> HIDE DEF marked, trails, sources
  <2>. QED  BY <1>1, <1>2, AllOf DEF Each
<1>4. Confined(Each(sources("cloudtrail") \cup sources("aws-config"), marked)
               \oplus Each(sources("cloudtrail"), trails), M, W)
  <2> HIDE DEF marked, trails, sources
  <2>. QED  BY <1>3, Both
<1>. QED  BY <1>4 DEF AuditPolicy

(* The policy of a bucket. *)
LEMMA BucketPolicyConfined ==
  ASSUME NEW M, NEW P, Covers(M, P), NEW W, NEW bucket \in M
  PROVE  Confined(S3BucketPolicy(bucket, P), M, W)
<1>1. Confined(OriginPolicy(bucket, P).adds, M, W)
  <2>1. \A d \in Of(Origin, P) : Confined(In(bucket, <<"origin", d.source, "arn">>,
          {<<d.source, "distribution_arn">>}), M, W)
    BY PeersInside, Alone
  <2>. QED  BY <2>1, AllOf DEF OriginPolicy, Each
<1>. QED  BY <1>1, AuditConfined, Alone, Both, Maybe DEF S3BucketPolicy, Free

(* The one file of a bucket's notifications. *)
LEMMA NotificationsConfined ==
  ASSUME NEW M, NEW P, NEW W, NEW bucket \in M
  PROVE  Confined(S3Notifications(bucket, P), M, W)
BY Alone, Maybe DEF S3Notifications, Free

(* The policy of a queue that others deliver to. *)
LEMMA QueuePolicyConfined ==
  ASSUME NEW M, NEW P, Covers(M, P), NEW W, NEW c, c.target \in M
  PROVE  Confined(QueueDeliveryPolicy(c, P), M, W)
<1> DEFINE peers == {P[i] : i \in {j \in DOMAIN P : /\ P[j].target = c.target /\ P[j].kind[2] = "sqs"
                                               /\ \E s \in Deliveries : P[j].kind[1] = s[1]}}
           from(s) == {d.source : d \in {e \in peers : e.kind[1] = s[1]}}
           used == {s \in Deliveries : from(s) # {}}
           arns(s) == <<"delivery", s[1], "arns">>
           given(s) == In(c.target, arns(s), {<<x, s[2]>> : x \in from(s)})
<1>0. \A d \in peers : d.source \in M
  BY DEF Covers
<1>1. \A s : Confined(given(s), M, W)
  <2> TAKE s
  <2>1. \A r \in {<<x, s[2]>> : x \in from(s)} : r[1] \in M
    BY <1>0
  <2> HIDE DEF from
  <2>. QED  BY <2>1, Alone
<1>2. Confined(Each(used, given), M, W)
  <2> HIDE DEF given, used
  <2>. QED  BY <1>1, AllOf DEF Each
<1>3. \A declares, uses :
        Confined(Each(used, given) \oplus File(c.target, <<"policy_delivery">>, declares, uses), M, W)
  <2> HIDE DEF given, used
  <2>. QED  BY <1>2, Alone, Both DEF Free
<1>. QED  BY <1>3, Maybe DEF QueueDeliveryPolicy

(* The policy of a topic that buckets and services publish to. *)
LEMMA TopicPolicyConfined ==
  ASSUME NEW M, NEW P, Covers(M, P), NEW W, NEW topic \in M
  PROVE  Confined(TopicDeliveryPolicy(topic, P), M, W)
<1> DEFINE buckets == {d.source : d \in {e \in Of(<<"s3", "sns", "notifies">>, P) : e.target = topic}}
           recorders == {d.source : d \in {e \in Of(ConfigNotifies, P) : e.target = topic}}
           from(x, field) == <<"config", x, field>>
           fields == {<<"source_account_id", "notification_source_account_id">>,
             <<"source_arn", "notification_source_arn">>}
           given(x) == Each(fields, LAMBDA f : In(topic, from(x, f[1]), {<<x, f[2]>>}))
<1>0. (\A x \in buckets : x \in M) /\ (\A x \in recorders : x \in M)
  BY PeersInside
<1>1. \A x \in recorders : Confined(given(x), M, W)
  <2> TAKE x \in recorders
  <2>1. \A f : Confined(In(topic, from(x, f[1]), {<<x, f[2]>>}), M, W)
    BY <1>0, Alone
  <2> HIDE DEF from, fields
  <2>. QED  BY <2>1, AllOf DEF Each
<1>2. Confined(Each(recorders, given), M, W)
  <2> HIDE DEF given, recorders
  <2>. QED  BY <1>1, AllOf DEF Each
<1>3. Confined(When(buckets # {}, In(topic, <<"notification_bucket_arns">>,
        {<<b, "bucket_arn">> : b \in buckets})), M, W)
  <2>1. \A r \in {<<b, "bucket_arn">> : b \in buckets} : r[1] \in M
    BY <1>0
  <2> HIDE DEF buckets
  <2>. QED  BY <2>1, Alone, Maybe
<1>4. \A declares, uses : Confined(File(topic, <<"policy_s3_delivery">>, declares, uses), M, W)
  BY Alone DEF Free
<1> DEFINE first == When(buckets # {}, In(topic, <<"notification_bucket_arns">>,
             {<<b, "bucket_arn">> : b \in buckets}))
           each == Each(recorders, given)
           file == File(topic, <<"policy_s3_delivery">>,
              {TopicPolicy, <<"data.aws_caller_identity", "topic_delivery">>,
                <<"data.aws_partition", "topic_delivery">>},
              {<<"aws_sns_topic", topic>>} \cup {V(from(x, f[1])) : x \in recorders, f \in fields}
              \cup (IF buckets = {} THEN {} ELSE {V(<<"notification_bucket_arns">>)}))
<1>5. Confined(first, M, W) /\ Confined(each, M, W) /\ Confined(file, M, W)
  <2> HIDE DEF buckets, recorders, fields, from, given
  <2>. QED  BY <1>2, <1>3, <1>4
<1>6. TopicDeliveryPolicy(topic, P) = first \oplus each \oplus file
  BY DEF TopicDeliveryPolicy
<1> HIDE DEF first, each, file
<1>. QED  BY <1>5, <1>6, Both

(* Buckets, topics and trails: notifications, deliveries, origins, logs. *)
LEMMA BucketsConfined ==
  ASSUME NEW M, NEW P, Covers(M, P), NEW c \in Range(P), NEW W
  PROVE  /\ Confined(S3LogDelivery(c, P), M, W) /\ Confined(CloudFrontS3(c, P), M, W)
         /\ Confined(S3Lambda(c, P), M, W) /\ Confined(S3EventBridge(c, P), M, W)
         /\ Confined(S3Destination(c, P), M, W) /\ Confined(AwsConfigSns(c, P), M, W)
         /\ Confined(SNSSQS(c, P), M, W) /\ Confined(SNSLambda(c), M, W)
         /\ Confined(CloudTrailLogs(c, P), M, W) /\ Confined(BackupSelection(c), M, W)
<1>0. c.source \in M /\ c.target \in M
  BY PeersInside
<1>1. Confined(S3LogDelivery(c, P), M, W)
  BY <1>0, BucketPolicyConfined DEF S3LogDelivery
<1>2. Confined(CloudFrontS3(c, P), M, W)
  BY <1>0, BucketPolicyConfined, Alone, Both, Maybe DEF CloudFrontS3, Free
<1>3. Confined(S3Lambda(c, P), M, W)
  BY <1>0, NotificationsConfined, Alone, Both DEF S3Lambda, Peer, Free
<1>4. Confined(S3EventBridge(c, P), M, W)
  <2>1. \A r \in {<<d.source, "bucket_name">> : d \in Into(c, P)} : r[1] \in M
    BY PeersInside
  <2>. QED  BY <1>0, <2>1, NotificationsConfined, Alone, Both, Maybe DEF S3EventBridge
<1>5. Confined(S3Destination(c, P), M, W)
  BY <1>0, NotificationsConfined, QueuePolicyConfined, TopicPolicyConfined, Alone, Both, Maybe DEF S3Destination,
       Peer
<1>6. Confined(AwsConfigSns(c, P), M, W)
  BY <1>0, TopicPolicyConfined, Alone, Both, Maybe DEF AwsConfigSns, Free
<1>7. Confined(SNSSQS(c, P), M, W)
  BY <1>0, QueuePolicyConfined, Alone, Both, Maybe DEF SNSSQS, TopicArn, SubscriptionFile, Peer, Free
<1>8. Confined(SNSLambda(c), M, W)
  BY <1>0, Alone, Both DEF SNSLambda, TopicArn, SubscriptionFile, Peer, Free
<1>9. Confined(CloudTrailLogs(c, P), M, W)
  <2> DEFINE key == [Augment(c.source, c.target, P) EXCEPT !.grants = {}]
  <2>1. Confined(key, M, W)
    <3>1. Confined(Augment(c.source, c.target, P), M, {c.source})
      BY <1>0, AugmentConfined
    <3>. QED  BY <3>1, Ungranted
  <2>2. \A declares, uses, role :
          Confined(Mark(c.source, "cloudwatch_logs") \oplus key
                   \oplus In(c.source, <<"cloud_watch_logs_group_arn">>, {<<c.target, "log_group_arn">>})
                   \oplus File(c.source, <<"cloudwatch_logs">>, declares, uses)
                   \oplus Out(c.source, <<"cloudwatch_logs_role_arn">>, role), M, W)
    <3> HIDE DEF key
    <3>. QED  BY <1>0, <2>1, Alone, Both DEF Free
  <2>. QED  BY <2>2, Maybe DEF CloudTrailLogs
<1>10. Confined(BackupSelection(c), M, W)
  BY <1>0, Alone, Both DEF BackupSelection, Free
<1>. QED  BY <1>1, <1>2, <1>3, <1>4, <1>5, <1>6, <1>7, <1>8, <1>9, <1>10

(* A target of an event rule that is invoked through a role. *)
LEMMA RoleTargetConfined ==
  ASSUME NEW M, NEW P, NEW W, NEW c, c.source \in M, NEW prefix, NEW output, NEW more, NEW data, NEW key,
         Confined([key EXCEPT !.grants = {}], M, W), (<<c.target>> \o output)[1] \in M,
         c.fit => \A x \in more : x[2][1] \in M
  PROVE  Confined(EventBridgeRoleTarget(c, P, prefix, output, more, data, key), M, W)
<1> DEFINE id == <<prefix, TargetId(c)>>
           access == [key EXCEPT !.grants = {}]
           given(x) == In(c.source, Append(id, x[1]), {x[2]})
<1>0. CASE ~c.fit
  BY <1>0, Alone DEF EventBridgeRoleTarget, TargetRefuses, Unless
<1>1. CASE c.fit
  <2>1. \A x \in more : Confined(given(x), M, W)
    <3> SUFFICES ASSUME NEW x \in more PROVE Confined(given(x), M, W)
      OBVIOUS
    <3>1. \A r \in {x[2]} : r[1] \in M
      BY <1>1
    <3>. QED  BY <3>1, Alone
  <2>2. Confined(Each(more, given), M, W)
    <3> HIDE DEF given
    <3>. QED  BY <2>1, AllOf DEF Each
  <2>3. Free(id)
    BY DEF Free
  <2>4. \A arn : Confined(In(c.source, arn, {<<c.target>> \o output}), M, W)
    <3>1. \A r \in {<<c.target>> \o output} : r[1] \in M
      OBVIOUS
    <3>. QED  BY <3>1, Alone
  <2>5. \A arn, declares, uses :
          Confined(In(c.source, arn, {<<c.target>> \o output}) \oplus access \oplus Each(more, given)
                   \oplus File(c.source, id, declares, uses), M, W)
    <3> HIDE DEF given, access, id
    <3>1. Confined(access, M, W)
      BY DEF access
    <3>. QED  BY <2>2, <2>3, <2>4, <3>1, Alone, Both
  <2>. QED  BY <2>5, Maybe DEF EventBridgeRoleTarget
<1>. QED  BY <1>0, <1>1

(* The targets of event rules. A job is submitted with a definition of the *)
(* project, which only a connection to a job queue names.                  *)
LEMMA EventsConfined ==
  ASSUME NEW M, NEW P, Covers(M, P), NEW c \in Range(P), NEW W
  PROVE  /\ Confined(EventBridgeKinesis(c, P), M, W) /\ Confined(EventBridgeWorkflow(c, P), M, W)
         /\ Confined(EventBridgeCodeBuild(c, P), M, W) /\ Confined(EventBridgeSNS(c, P), M, W)
         /\ Confined(EventBridgeEcs(c, P), M, W) /\ Confined(EventBridgeSsm(c, P), M, W)
         /\ c.kind[2] = "batch" => Confined(EventBridgeBatch(c, P), M, W)
         /\ Confined(EventBridgeApiGateway(c, P), M, W)
         /\ Confined(EventBridgeLambda(c), M, W) /\ Confined(EventBridgeSQS(c, P), M, W)
<1>0. c.source \in M /\ c.target \in M
  BY PeersInside
<1>1. Confined([Nothing EXCEPT !.grants = {}], M, W)
  BY Alone, Ungranted
<1>2. \A prefix, more, data : (c.fit => \A x \in more : x[2][1] \in M) =>
        /\ \A o : Confined(EventBridgeRoleTarget(c, P, prefix, <<o>>, more, data, Nothing), M, W)
        /\ \A o, p : Confined(EventBridgeRoleTarget(c, P, prefix, <<o, p>>, more, data, Nothing), M, W)
  <2> SUFFICES ASSUME NEW prefix, NEW more, NEW data, c.fit => \A x \in more : x[2][1] \in M
               PROVE  /\ \A o : Confined(EventBridgeRoleTarget(c, P, prefix, <<o>>, more, data, Nothing), M, W)
                      /\ \A o, p : Confined(EventBridgeRoleTarget(c, P, prefix, <<o, p>>, more, data, Nothing),
                           M, W)
    OBVIOUS
  <2>1. /\ \A o : (<<c.target>> \o <<o>>)[1] \in M
        /\ \A o, p : (<<c.target>> \o <<o, p>>)[1] \in M
    BY <1>0
  <2>2. \A output : (<<c.target>> \o output)[1] \in M =>
                    Confined(EventBridgeRoleTarget(c, P, prefix, output, more, data, Nothing), M, W)
    BY <1>0, <1>1, RoleTargetConfined
  <2>. QED  BY <2>1, <2>2
<1>3. /\ Confined(EventBridgeKinesis(c, P), M, W) /\ Confined(EventBridgeWorkflow(c, P), M, W)
      /\ Confined(EventBridgeCodeBuild(c, P), M, W) /\ Confined(EventBridgeApiGateway(c, P), M, W)
  BY <1>2 DEF EventBridgeKinesis, EventBridgeWorkflow, EventBridgeCodeBuild, EventBridgeApiGateway, Targets
<1>4. Confined(EventBridgeSNS(c, P), M, W)
  <2>1. Confined(Augment(c.source, c.target, P), M, {c.source})
    BY <1>0, AugmentConfined
  <2>2. Confined([Augment(c.source, c.target, P) EXCEPT !.grants = {}], M, W)
    BY <2>1, Ungranted
  <2>. QED  BY <1>0, <2>2, RoleTargetConfined DEF EventBridgeSNS
<1>5. Confined(EventBridgeEcs(c, P), M, W)
  <2>1. \A x \in FargateInputs(c) : x[2][1] \in M
    <3>1. \A x \in {<<"task_arn", <<c.target, "task_definition_arn">> >>} : x[2][1] \in M
      BY <1>0
    <3>2. \A A : \A x \in {<<o, <<c.target, o>> >> : o \in A} : x[2][1] \in M
      BY <1>0
    <3>. QED  BY <3>1, <3>2 DEF FargateInputs
  <2>2. Confined(EventBridgeRoleTarget(c, P, "ecs", <<"cluster_arn">>, FargateInputs(c), {}, Nothing), M, W)
    BY <1>2, <2>1
  <2>. QED  BY <2>2, Alone, Both DEF EventBridgeEcs, PrepareFargateTarget
<1>8. Confined(EventBridgeSsm(c, P), M, W)
  <2> DEFINE more == {<<"document_type", <<c.target, "document_type">> >>}
  <2>1. \A x \in more : x[2][1] \in M
    BY <1>0
  <2> HIDE DEF more
  <2>2. \A data : Confined(EventBridgeRoleTarget(c, P, "ssm", <<"document_arn">>, more, data, Nothing), M, W)
    BY <1>2, <2>1
  <2>. QED  BY <2>2 DEF EventBridgeSsm, more
<1>9. ASSUME c.kind[2] = "batch" PROVE Confined(EventBridgeBatch(c, P), M, W)
  <2> DEFINE more == {<<"job_definition_arn", <<c.other, "job_definition_arn">> >>}
  <2>1. c.fit => c.other \in M
    BY <1>9, PeersInside
  <2>2. c.fit => \A x \in more : x[2][1] \in M
    BY <2>1
  <2> HIDE DEF more
  <2>3. Confined(EventBridgeRoleTarget(c, P, "batch", <<"job_queue_arn">>, more, {}, Nothing), M, W)
    BY <1>2, <2>2
  <2>. QED  BY <2>3, Alone, Both DEF EventBridgeBatch, PrepareBatchTarget, more
<1>6. Confined(EventBridgeLambda(c), M, W)
  BY <1>0, Alone, Both DEF EventBridgeLambda, Peer, Free
<1>7. Confined(EventBridgeSQS(c, P), M, W)
  BY <1>0, QueuePolicyConfined, Alone, Both, Maybe DEF EventBridgeSQS, Peer, Free
<1>. QED  BY <1>3, <1>4, <1>5, <1>6, <1>7, <1>8, <1>9

(* Secrets a service reads at run time. *)
LEMMA SecretAccessConfined ==
  ASSUME NEW M, NEW P, NEW W, Covers(M, P), NEW c, c.source \in M, NEW role
  PROVE  Confined(SecretAccess(c, P, role), M, W)
<1> DEFINE me == c.source
           secrets == Names(Secrets(me, P))
           keyed(x) == Each(ManagedKeys(x, P), LAMBDA key : In(me, SecretKey(x), {<<key, "key_arn">>}))
           given(x) == In(me, SecretArn(x), {<<x, "secret_arn">>}) \oplus keyed(x)
           each == Each(secrets, given)
<1>0. \A x \in secrets : x \in M
  BY PeersInside DEF Names, Secrets, Range
<1>1. \A x : Confined(keyed(x), M, W)
  <2> TAKE x
  <2>1. \A key \in ManagedKeys(x, P) : Confined(In(me, SecretKey(x), {<<key, "key_arn">>}), M, W)
    BY PeersInside, Alone
  <2>. QED  BY <2>1, AllOf DEF Each
<1>2. \A x \in secrets : Confined(given(x), M, W)
  <2> HIDE DEF keyed
  <2>. QED  BY <1>0, <1>1, Alone, Both
<1>3. Confined(each, M, W)
  <2> HIDE DEF given, secrets
  <2>. QED  BY <1>2, AllOf DEF Each
<1>4. \A declares, uses : Confined(each \oplus File(me, <<"runtime_secrets_policy">>, declares, uses), M, W)
  <2> HIDE DEF each
  <2>. QED  BY <1>3, Alone, Both DEF Free
<1>. QED  BY <1>4, Maybe DEF SecretAccess

(* Secrets, with what the service adds to them. *)
LEMMA WithSecretsConfined ==
  ASSUME NEW M, NEW P, NEW W, Covers(M, P), NEW c, c.source \in M, NEW role, NEW refuses, NEW a, Confined(a, M, W)
  PROVE  Confined(WithSecrets(c, P, role, refuses, a), M, W)
BY SecretAccessConfined, Both, Maybe DEF WithSecrets

(* The files of a workflow's tasks. *)
LEMMA LocalsConfined ==
  ASSUME NEW M, NEW P, NEW W, NEW c, c.source \in M
  PROVE  /\ \A uses : Confined(WorkflowLocals(c, P, uses), M, W)
         /\ \A data, uses : Confined(TaskPolicy(c, data, uses), M, W)
<1>1. \A name, declares, uses : Confined(File(c.source, <<name>>, declares, uses), M, W)
  <2>1. \A name : Free(<<name>>)
    BY DEF Free
  <2>. QED  BY <2>1, Alone
<1>2. \A uses : Confined(WorkflowLocals(c, P, uses), M, W)
  BY <1>1 DEF WorkflowLocals
<1>3. \A data, uses : Confined(TaskPolicy(c, data, uses), M, W)
  BY <1>1 DEF TaskPolicy
<1>. QED  BY <1>2, <1>3

(* The tasks of one kind of a workflow. *)
LEMMA TaskConfined ==
  ASSUME NEW M, NEW P, NEW W, NEW c, c.source \in M,
         NEW inputs, NEW tasks, NEW policy, NEW data, NEW keys, Confined(keys, M, W),
         ~Unfit(OutOf(c, P)) => \A i \in inputs : i[2] \in M
  PROVE  Confined(WorkflowTask(c, P, inputs, tasks, policy, data, keys), M, W)
<1> DEFINE v(i) == <<i[1], i[2], i[3]>>
           given(i) == In(c.source, v(i), {<<i[2], i[4]>>})
           each == Each(inputs, given)
<1>0. CASE TaskRefuses(c, P)
  <2>1. \A a : Confined(Unless(TaskRefuses(c, P), a), M, W)
    BY <1>0, Alone DEF Unless
  <2>. QED  BY <2>1, Maybe DEF WorkflowTask
<1> SUFFICES ASSUME ~TaskRefuses(c, P) PROVE Confined(WorkflowTask(c, P, inputs, tasks, policy, data, keys), M, W)
  BY <1>0
<1>1. \A i \in inputs : Confined(given(i), M, W)
  BY Alone DEF TaskRefuses
<1>2. Confined(each, M, W)
  <2> HIDE DEF given
  <2>. QED  BY <1>1, AllOf DEF Each
<1>3. \A what, uses, reads : Confined(Mark(c.source, what) \oplus keys \oplus each
                               \oplus WorkflowLocals(c, P, uses) \oplus TaskPolicy(c, data, reads), M, W)
  <2> HIDE DEF each
  <2>. QED  BY <1>2, LocalsConfined, Alone, Both
<1>. QED  BY <1>3, Maybe DEF WorkflowTask

(* The keys of the targets of a workflow. *)
LEMMA WorkflowKeysConfined ==
  ASSUME NEW M, NEW P, NEW W, Covers(M, P), NEW c, c.source \in M, NEW service
  PROVE  Confined(WorkflowKeys(c, P, service), M, W)
<1> DEFINE targets == Names(OutOf(c, P))
           prefix == "workflow_" \o service \o "_key"
           keyed(x) == Each(ManagedKeys(x, P), LAMBDA key : In(c.source, <<prefix, x, "arn">>,
             {<<key, "key_arn">>}))
<1>1. \A x : Confined(keyed(x), M, W)
  <2> TAKE x
  <2>1. \A key \in ManagedKeys(x, P) : Confined(In(c.source, <<prefix, x, "arn">>, {<<key, "key_arn">>}), M, W)
    BY PeersInside, Alone
  <2>. QED  BY <2>1, AllOf DEF Each
<1>2. Confined(Each(targets, keyed), M, W)
  <2> HIDE DEF keyed, targets
  <2>. QED  BY <1>1, AllOf DEF Each
<1>. QED  BY <1>2, Maybe DEF WorkflowKeys

(* Secrets of functions, tasks and environments, and the tasks of workflows. *)
LEMMA WorkflowsConfined ==
  ASSUME NEW M, NEW P, Covers(M, P), NEW c \in Range(P), NEW W
  PROVE  /\ Confined(LambdaSecretAccess(c, P), M, W) /\ Confined(EcsSecret(c, P), M, W)
         /\ Confined(EnvironmentSecret(c, P), M, W) /\ Confined(MwaaSecret(c, P), M, W)
         /\ Confined(Ec2Secret(c, P), M, W) /\ Confined(StepFunctionsSecret(c, P), M, W)
         /\ Confined(StepFunctionsLambda(c, P), M, W) /\ Confined(StepFunctionsEcs(c, P), M, W)
         /\ c.kind[2] = "batch" => Confined(StepFunctionsBatch(c, P), M, W)
         /\ Confined(StepFunctionsSns(c, P), M, W)
         /\ Confined(StepFunctionsSqs(c, P), M, W) /\ Confined(StepFunctionsDynamoDb(c, P), M, W)
         /\ Confined(StepFunctionsEventBridge(c, P), M, W) /\ Confined(StepFunctionsLogs(c, P), M, W)
<1>0. c.source \in M /\ c.target \in M
  BY PeersInside
<1>1. Confined(Injected(c, P), M, W) /\ Confined(Ec2RuntimeRole(c.source), M, W)
  BY <1>0, Alone, Both DEF Injected, Ec2RuntimeRole, Free
<1>2. /\ Confined(LambdaSecretAccess(c, P), M, W) /\ Confined(EcsSecret(c, P), M, W)
      /\ Confined(EnvironmentSecret(c, P), M, W)
  BY <1>0, <1>1, SecretAccessConfined, WithSecretsConfined, Maybe DEF LambdaSecretAccess, EcsSecret,
       EnvironmentSecret
<1>3. Confined(MwaaSecret(c, P), M, W)
  BY <1>0, WithSecretsConfined, Alone, Maybe DEF MwaaSecret
<1>4. Confined(Ec2Secret(c, P), M, W)
  <2>1. Confined(Mark(c.source, "reads_runtime_secrets") \oplus Ec2RuntimeRole(c.source), M, W)
    BY <1>1, Alone, Both
  <2>. QED  BY <1>0, <2>1, WithSecretsConfined DEF Ec2Secret
<1>5. Confined(StepFunctionsSecret(c, P), M, W)
  <2>1. \A uses : Confined(Mark(c.source, "secret") \oplus WorkflowLocals(c, P, uses), M, W)
    BY <1>0, LocalsConfined, Alone, Both
  <2>. QED  BY <1>0, <2>1, WithSecretsConfined, Maybe DEF StepFunctionsSecret
<1>6. Confined(Nothing, M, W) /\ \A service : Confined(WorkflowKeys(c, P, service), M, W)
  BY <1>0, Alone, WorkflowKeysConfined
<1>7. \A inputs, tasks, policy, data : (~Unfit(OutOf(c, P)) => \A i \in inputs : i[2] \in M) =>
        /\ Confined(WorkflowTask(c, P, inputs, tasks, policy, data, Nothing), M, W)
        /\ \A service : Confined(WorkflowTask(c, P, inputs, tasks, policy, data, WorkflowKeys(c, P, service)), M,
             W)
  BY <1>0, <1>6, TaskConfined
<1>13. \A prefix, pairs : \A i \in Inputs(c, P, prefix, pairs) : i[2] \in M
  <2>1. \A x \in Names(OutOf(c, P)) : x \in M
    BY PeersInside DEF Names
  <2>. QED  BY <2>1 DEF Inputs
<1>14. \A prefix, pairs, tasks, policy, data :
        /\ Confined(WorkflowTask(c, P, Inputs(c, P, prefix, pairs), tasks, policy, data, Nothing), M, W)
        /\ \A service : Confined(WorkflowTask(c, P, Inputs(c, P, prefix, pairs), tasks, policy, data,
                                              WorkflowKeys(c, P, service)), M, W)
  BY <1>7, <1>13
<1>8. /\ Confined(StepFunctionsLambda(c, P), M, W) /\ Confined(StepFunctionsEventBridge(c, P), M, W)
      /\ Confined(StepFunctionsSns(c, P), M, W) /\ Confined(StepFunctionsSqs(c, P), M, W)
      /\ Confined(StepFunctionsDynamoDb(c, P), M, W)
  BY <1>14 DEF StepFunctionsLambda, StepFunctionsEventBridge, StepFunctionsSns, StepFunctionsSqs,
       StepFunctionsDynamoDb
<1>9. \A S : /\ Confined(Each(S, LAMBDA d : PrepareFargateTarget(d)), M, W)
             /\ Confined(Each(S, LAMBDA d : PrepareBatchTarget(d)), M, W)
  <2>1. \A d : Confined(PrepareFargateTarget(d), M, W) /\ Confined(PrepareBatchTarget(d), M, W)
    BY Alone DEF PrepareFargateTarget, PrepareBatchTarget
  <2>. QED  BY <2>1, AllOf DEF Each
<1>10. Confined(StepFunctionsEcs(c, P), M, W)
  BY <1>14, <1>9, Both, Maybe DEF StepFunctionsEcs
<1>11. ASSUME c.kind[2] = "batch" PROVE Confined(StepFunctionsBatch(c, P), M, W)
  <2> DEFINE others == {<<"workflow_batch_definition", d.other, "arn", "job_definition_arn">> : d \in OutOf(c, P)}
             inputs == Inputs(c, P, "workflow_batch_queue", {<<"arn", "job_queue_arn">>}) \cup others
  <2>1. ASSUME ~Unfit(OutOf(c, P)) PROVE \A i \in others : i[2] \in M
    <3>1. \A d \in OutOf(c, P) : d \in Range(P) /\ d.kind[2] = "batch" /\ d.fit
      BY <1>11, <2>1 DEF Unfit, OutOf, Of, Range
    <3>2. \A d \in OutOf(c, P) : d.other \in M
      BY <3>1, PeersInside
    <3>. QED  BY <3>2
  <2>2. ~Unfit(OutOf(c, P)) => \A i \in inputs : i[2] \in M
    <3> HIDE DEF others
    <3>. QED  BY <2>1, <1>13
  <2> HIDE DEF inputs
  <2>3. \A tasks, policy, data : Confined(WorkflowTask(c, P, inputs, tasks, policy, data, Nothing), M, W)
    BY <1>7, <2>2
  <2>. QED  BY <2>3, <1>9, Both, Maybe DEF StepFunctionsBatch, inputs
<1>12. Confined(StepFunctionsLogs(c, P), M, W)
  <2>1. \A r \in {<<c.target, "log_group_arn">>, <<c.target, "log_group_class">>} : r[1] \in M
    BY <1>0
  <2>. QED  BY <1>0, <2>1, Alone, Both, Maybe DEF StepFunctionsLogs, Free
<1>. QED  BY <1>2, <1>3, <1>4, <1>5, <1>8, <1>10, <1>11, <1>12

(* A file system that is mounted is generated. *)
LEMMA MountsInside ==
  ASSUME NEW M, NEW P, Covers(M, P), NEW c
  PROVE  \A d \in Mounts(c, P) : d.source \in M
BY DEF Mounts, Covers

(* What mounted file systems and their clients tell each other. *)
LEMMA BuildMountsConfined ==
  ASSUME NEW M, NEW P, Covers(M, P), NEW W, NEW c, c.target \in M
  PROVE  Confined(BuildMounts(c, P), M, W)
<1> DEFINE system(d) == <<"aws_efs_file_system", d.source>>
           point(d) == <<"aws_efs_access_point">> \o MountName(d)
           field(d, f) == In(c.target, Append(MountName(d), f), {<<d.source>> \o Append(MountName(d), f)})
                \oplus Out(d.source, Append(MountName(d), f),
                    {<<"aws_efs_mount_target", d.source>>, IF f = "access_point_id" THEN point(d) ELSE system(d)})
           fields(d) == Each(MountFields, LAMBDA f : field(d, f))
           mount(d) == File(d.source, MountName(d), {point(d)}, {system(d)}) \oplus fields(d)
<1>1. \A d \in Mounts(c, P) : \A f : Confined(field(d, f), M, W)
  <2> SUFFICES ASSUME NEW d \in Mounts(c, P), NEW f PROVE Confined(field(d, f), M, W)
    OBVIOUS
  <2>1. d.source \in M
    BY MountsInside
  <2>2. MountName(d) \in Seq({"efs", d.target, d.source, d.slot, d.refs[1]})
    BY DEF MountName
  <2>3. (<<d.source>> \o Append(MountName(d), f))[1] = d.source
    BY DEF MountName
  <2> DEFINE from == <<d.source>> \o Append(MountName(d), f)
  <2>4. \A r \in {from} : r[1] \in M
    BY <2>1, <2>3
  <2> HIDE DEF from
  <2>5. Confined(In(c.target, Append(MountName(d), f), {from}), M, W)
    BY <2>4, Alone
  <2>6. \A uses : Confined(Out(d.source, Append(MountName(d), f), uses), M, W)
    BY <2>1, Alone
  <2>7. \A uses : Confined(In(c.target, Append(MountName(d), f), {from})
                          \oplus Out(d.source, Append(MountName(d), f), uses), M, W)
    BY <2>5, <2>6, Both
  <2>. QED  BY <2>7 DEF from
<1>2. \A d \in Mounts(c, P) : Confined(fields(d), M, W)
  <2> HIDE DEF field
  <2>. QED  BY <1>1, AllOf DEF Each
<1>3. \A d : Free(MountName(d))
  BY DEF MountName, Free
<1>4. \A d \in Mounts(c, P) : Confined(mount(d), M, W)
  <2> HIDE DEF fields, point, system
  <2>. QED  BY <1>2, <1>3, MountsInside, Alone, Both
<1>5. Confined(Each(Mounts(c, P), mount), M, W)
  <2> HIDE DEF mount
  <2>. QED  BY <1>4, AllOf DEF Each
<1>6. BuildMounts(c, P) = Each(Mounts(c, P), mount)
  BY DEF BuildMounts
<1>. QED  BY <1>5, <1>6

(* Mounts of instances, clusters, tasks and functions, managed instances, and *)
(* delegated administrators.                                                  *)
LEMMA MountsConfined ==
  ASSUME NEW M, NEW P, Covers(M, P), NEW c \in Range(P), NEW W
  PROVE  /\ Confined(EfsEc2Mount(c, P), M, W) /\ Confined(EfsEksMount(c, P), M, W)
         /\ Confined(SsmEc2(c, P), M, W) /\ Confined(OrganizationDelegation(c, P), M, W)
         /\ c.target \in W => Confined(EfsEcsMount(c, P), M, W) /\ Confined(EfsLambdaMount(c, P), M, W)
<1>0. c.source \in M /\ c.target \in M
  BY PeersInside
<1>1. Confined(BuildMounts(c, P), M, W) /\ \A more : Confined(MountsFile(c, P, more), M, W)
  <2>1. Confined(BuildMounts(c, P), M, W)
    BY <1>0, BuildMountsConfined
  <2>2. \A declares, uses : Confined(File(c.target, <<"efs_mounts">>, declares, uses), M, W)
    BY <1>0, Alone DEF Free
  <2>. QED  BY <2>1, <2>2, Alone, Both DEF MountsFile
<1>2. \A x \in M : Confined(Ec2RuntimeRole(x), M, W)
  BY Alone DEF Ec2RuntimeRole, Free
<1>3. Confined(EfsEc2Mount(c, P), M, W)
  <2>1. \A declares, uses : /\ Confined(File(c.target, <<"efs_bootstrap.sh.tftpl">>, declares, uses), M, W)
                            /\ Confined(File(c.target, <<"efs_policy">>, declares, uses), M, W)
    BY <1>0, Alone DEF Free
  <2>. QED  BY <1>0, <1>1, <1>2, <2>1, Both, Maybe DEF EfsEc2Mount
<1>4. Confined(EfsEksMount(c, P), M, W)
  <2> DEFINE mounts == Mounts(c, P)
             policy(role) == <<"aws_iam_role_policy", "efs_node", role>>
             ready == {<<"aws_eks_addon", "efs_csi">>} \cup {policy(d.other) : d \in mounts}
             manifests == <<"local", "efs_storage_manifests">>
             node(d) == In(c.target, <<"efs_node", d.other>>, {})
                \oplus File(c.target, <<"efs_node", d.other>>, {policy(d.other)},
                     {V(<<"efs_node", d.other>>)}
                     \cup UNION {MountVars(e, {"filesystem_arn"}) : e \in {f \in mounts : f.other = d.other}})
             nodes == Each(mounts, node)
             driver == File(c.target, <<"efs_csi">>, {<<"aws_eks_addon", "efs_csi">>},
               {<<"aws_eks_cluster", c.target>>})
             listed == File(c.target, <<"efs_manifests">>, {manifests},
                UNION {MountVars(d, {"filesystem_id", "access_point_id"}) : d \in mounts})
             offers == Out(c.target, <<"efs_storage_manifests">>, {manifests} \cup ready)
             waits == Out(c.target, <<"efs_workload_mounts">>, ready)
             note == File(c.target, <<"EFS-MOUNTS.md">>, {}, {})
             whole == BuildMounts(c, P) \oplus driver \oplus nodes \oplus listed \oplus offers
               \oplus waits \oplus note
  <2>1. \A d : Confined(node(d), M, W)
    <3>1. \A role, declares, uses : Confined(File(c.target, <<"efs_node", role>>, declares, uses), M, W)
      BY <1>0, Alone DEF Free
    <3>. QED  BY <1>0, <3>1, Alone, Both
  <2>2. Confined(nodes, M, W)
    <3> HIDE DEF node, mounts
    <3>. QED  BY <2>1, AllOf DEF Each
  <2>3. Confined(driver, M, W) /\ Confined(listed, M, W) /\ Confined(note, M, W)
    BY <1>0, Alone DEF Free
  <2>4. Confined(offers, M, W) /\ Confined(waits, M, W)
    BY <1>0, Alone
  <2>5. Confined(whole, M, W)
    <3> HIDE DEF driver, nodes, listed, offers, waits, note
    <3>. QED  BY <1>1, <2>2, <2>3, <2>4, Both
  <2>6. EfsEksMount(c, P) = Unless(MountRefused(c, P) \/ \E d,
          e \in mounts : d.slot = e.slot /\ d.refs[1] # e.refs[1], whole)
    BY DEF EfsEksMount
  <2> HIDE DEF whole, mounts
  <2>. QED  BY <2>5, <2>6, Maybe
<1>5. Confined(SsmEc2(c, P), M, W)
  <2> DEFINE node(x) ==
        Mark(x, "managed_ssm") \oplus Ec2RuntimeRole(x)
        \oplus File(x, <<"ssm_node">>, {<<"aws_iam_role_policy_attachment", "ssm_core">>,
          <<"data.aws_partition", "ssm_node">>},
                    {<<"aws_iam_role", x, "role">>})
        \oplus Out(x, <<"ssm_node">>, {<<"aws_iam_instance_profile", "runtime_secrets">>, <<"aws_instance", x>>})
             nodes == Each({d.target : d \in OutOf(c, P)}, node)
  <2>1. \A x \in {d.target : d \in OutOf(c, P)} : Confined(node(x), M, W)
    <3>1. \A x \in {d.target : d \in OutOf(c, P)} : x \in M
      BY PeersInside
    <3>2. \A x \in M : \A declares, uses : Confined(File(x, <<"ssm_node">>, declares, uses), M, W)
      BY Alone DEF Free
    <3>. QED  BY <1>2, <3>1, <3>2, Alone, Both
  <2>2. Confined(nodes, M, W)
    <3> HIDE DEF node
    <3>. QED  BY <2>1, AllOf DEF Each
  <2> DEFINE from == {<<d.target, "ssm_node">> : d \in OutOf(c, P)}
  <2>4. \A r \in from : r[1] \in M
    BY PeersInside
  <2>3. \A declares, uses, reads : Confined(nodes
           \oplus In(c.source, <<"ec2_associations">>, from)
           \oplus File(c.source, <<"ec2_associations">>, declares, uses)
           \oplus Out(c.source, <<"ec2_associations">>, reads), M, W)
    <3> HIDE DEF nodes, from
    <3>1. \A declares, uses : Confined(File(c.source, <<"ec2_associations">>, declares, uses), M, W)
      BY <1>0, Alone DEF Free
    <3>. QED  BY <1>0, <2>2, <2>4, <3>1, Alone, Both
  <2>. QED  BY <2>3, Maybe DEF SsmEc2
<1>6. Confined(OrganizationDelegation(c, P), M, W)
  <2>1. \A d : Confined(MarkFor(c.source, "delegates", d.kind[2]), M, W)
    BY Alone
  <2>2. \A S : Confined(Each(S, LAMBDA d : MarkFor(c.source, "delegates", d.kind[2])), M, W)
    BY <2>1, AllOf DEF Each
  <2>3. \A declares, uses, reads : Confined(
           Mark(c.target, "organization_delegation")
           \oplus In(c.target, <<"organization_context">>, {<<c.source, "delegation_context">>})
           \oplus In(c.target, <<"delegated_admin_account_id">>, {})
           \oplus File(c.target, <<"organization_delegation">>, declares, uses)
           \oplus Out(c.target, <<"organization_delegation">>, reads), M, W)
    <3>1. \A declares, uses : Confined(File(c.target, <<"organization_delegation">>, declares, uses), M, W)
      BY <1>0, Alone DEF Free
    <3>. QED  BY <1>0, <3>1, Alone, Both
  <2>. QED  BY <2>2, <2>3, Both, Maybe, ZenonT(30) DEF OrganizationDelegation
<1>7. ASSUME c.target \in W PROVE Confined(EfsEcsMount(c, P), M, W) /\ Confined(EfsLambdaMount(c, P), M, W)
  <2>1. \A d \in Mounts(c, P) : Confined(Grant(c.target, {<<"aws_efs_file_system", d.source, "arn">>}), M, W)
    BY <1>7, MountsInside, Permission
  <2>2. Confined(Each(Mounts(c, P), LAMBDA d : Grant(c.target, {<<"aws_efs_file_system", d.source, "arn">>})), M,
          W)
    BY <2>1, AllOf DEF Each
  <2>3. Confined(EfsEcsMount(c, P), M, W)
    BY <1>1, <2>2, Both, Maybe DEF EfsEcsMount
  <2>4. Confined(Grant(c.target, {<<"aws_efs_file_system", c.source, "arn">>}), M, W)
    BY <1>0, <1>7, Permission
  <2>5. \A name, declares, uses : Confined(File(c.source, <<name, "access_point">>, declares, uses), M, W)
    <3>1. \A name : Free(<<name, "access_point">>)
      BY DEF Free
    <3>. QED  BY <1>0, <3>1, Alone
  <2>6. Confined(EfsLambdaMount(c, P), M, W)
    BY <1>0, <2>4, <2>5, Alone, Both, Maybe DEF EfsLambdaMount
  <2>. QED  BY <2>3, <2>6
<1>. QED  BY <1>3, <1>4, <1>5, <1>6, <1>7

(* Access of a service to a bucket. *)
LEMMA AccessConfined ==
  ASSUME NEW M, NEW P, Covers(M, P), NEW W, NEW c, c.source \in M, NEW file, NEW policy, NEW key, NEW uses
  PROVE  Confined(BucketAccess(c, P, file, policy, key, uses), M, W)
<1> DEFINE each == Each(ManagedKeys(c.target, P), LAMBDA k : In(c.source, <<key>>, {<<k, "key_arn">>}))
<1>1. Confined(each, M, W)
  <2>1. \A k \in ManagedKeys(c.target, P) : Confined(In(c.source, <<key>>, {<<k, "key_arn">>}), M, W)
    BY PeersInside, Alone
  <2>. QED  BY <2>1, AllOf DEF Each
<1>2. \A declares, reads : Confined(each \oplus File(c.source, <<file>>, declares, reads), M, W)
  <2> HIDE DEF each
  <2>1. \A declares, reads : Confined(File(c.source, <<file>>, declares, reads), M, W)
    BY ShortNames, Alone
  <2>. QED  BY <1>1, <2>1, Both
<1>. QED  BY <1>2, Maybe DEF BucketAccess

(* A bucket that has to be versioned. *)
LEMMA VersionedConfined ==
  ASSUME NEW M, NEW W, NEW bucket \in M, NEW output
  PROVE  Confined(Versioned(bucket, output), M, W)
BY Alone, Both DEF Versioned

(* Transfers, replicas and deliveries into buckets. *)
LEMMA TransfersConfined ==
  ASSUME NEW M, NEW P, Covers(M, P), NEW c \in Range(P), NEW W
  PROVE  /\ Confined(S3Location(c, P), M, W) /\ Confined(LakeFormationS3(c, P), M, W)
         /\ Confined(S3ReadSource(c, P), M, W) /\ Confined(S3Replication(c, P), M, W)
         /\ Confined(DataSyncLocation(c, P), M, W) /\ Confined(DataSyncS3(c, P), M, W)
         /\ Confined(FirehoseS3(c, P), M, W) /\ Confined(SnsFirehose(c), M, W)
<1>0. c.source \in M /\ c.target \in M
  BY PeersInside
<1>1. Confined(S3Location(c, P), M, W) /\ Confined(LakeFormationS3(c, P), M, W)
  BY <1>0, Alone, Both, Maybe DEF S3Location, LakeFormationS3
<1>2. Confined(S3ReadSource(c, P), M, W)
  BY <1>0, AccessConfined, VersionedConfined, Alone, Both, Maybe DEF S3ReadSource
<1>3. Confined(S3Replication(c, P), M, W)
  <2> DEFINE replicas == TransferTargets(OutOf(c, P))
             keyed(x) == Each(ManagedKeys(x, P), LAMBDA k : In(c.source, ReplicaKey(x), {<<k, "key_arn">>}))
             replica(x) == In(c.source, <<"replica", x, "arn">>, {<<x, "replication_bucket_arn">>})
                           \oplus Versioned(x, "replication_bucket_arn") \oplus keyed(x)
             each == Each(replicas, replica)
  <2>1. \A x \in replicas : x \in M
    BY PeersInside DEF TransferTargets
  <2>2. \A x : Confined(keyed(x), M, W)
    <3> TAKE x
    <3>1. \A k \in ManagedKeys(x, P) : Confined(In(c.source, ReplicaKey(x), {<<k, "key_arn">>}), M, W)
      BY <1>0, PeersInside, Alone
    <3>. QED  BY <3>1, AllOf DEF Each
  <2>3. \A x \in replicas : Confined(replica(x), M, W)
    <3> HIDE DEF keyed, replicas
    <3>. QED  BY <1>0, <2>1, <2>2, VersionedConfined, Alone, Both
  <2>4. Confined(each, M, W)
    <3> HIDE DEF replica, replicas
    <3>. QED  BY <2>3, AllOf DEF Each
  <2>5. \A declares, uses : Confined(
          In(c.source, <<"replication_role_arn">>, {}) \oplus In(c.source, <<"versioning_enabled">>, {})
          \oplus Mark(c.source, "replication_role") \oplus each
          \oplus File(c.source, <<"replication">>, declares, uses), M, W)
    <3> HIDE DEF each
    <3>1. \A declares, uses : Confined(File(c.source, <<"replication">>, declares, uses), M, W)
      BY <1>0, Alone DEF Free
    <3>. QED  BY <1>0, <2>4, <3>1, Alone, Both
  <2>. QED  BY <2>5, Maybe DEF S3Replication
<1>4. Confined(DataSyncLocation(c, P), M, W)
  BY <1>0, Alone, Both, Maybe DEF DataSyncLocation
<1>5. Confined(DataSyncS3(c, P), M, W)
  BY <1>0, AccessConfined, Alone, Both, Maybe DEF DataSyncS3
<1>6. Confined(FirehoseS3(c, P), M, W)
  BY <1>0, AccessConfined, Alone, Both, Maybe DEF FirehoseS3
<1>7. Confined(SnsFirehose(c), M, W)
  BY <1>0, Alone, Both, Maybe DEF SnsFirehose, Peer, Free
<1>. QED  BY <1>1, <1>2, <1>3, <1>4, <1>5, <1>6, <1>7

(* The data sources of one sort of a dashboard. *)
LEMMA SourceConfined ==
  ASSUME NEW M, NEW P, Covers(M, P), NEW W, NEW workspace \in M, NEW service
  PROVE  Confined(BuildSource(workspace, service, P), M, W)
<1> DEFINE what == GrafanaSource(service)
           targets == {d.target : d \in SourceBindings(workspace, service, P)}
           ready == {<<"aws_grafana_workspace", workspace>>, <<"aws_iam_role_policy", workspace, "data_sources">>}
           offered(t) == Each(what.own, LAMBDA o : Out(t, <<o>>, {<<what.resource, t>>}))
           told == Each(what.tells, LAMBDA o :
             Out(workspace, <<o>>, ready \cup {V(<<what.variable>>)} \cup Labelled(what.lookups,
               <<"grafana_sources">>)))
           given == In(workspace, <<what.variable>>, targets \X (what.reads \cup what.own))
<1>1. \A t \in targets : t \in M
  BY PeersInside DEF SourceBindings
<1>2. \A t \in targets : Confined(offered(t), M, W)
  <2> TAKE t \in targets
  <2>0. t \in M
    BY <1>1
  <2> HIDE DEF what, targets
  <2>1. \A o : Confined(Out(t, <<o>>, {<<what.resource, t>>}), M, W)
    BY <2>0, Alone
  <2>. QED  BY <2>1, AllOf DEF Each
<1>3. Confined(Each(targets, offered), M, W)
  <2> HIDE DEF offered, targets
  <2>. QED  BY <1>2, AllOf DEF Each
<1>4. Confined(told, M, W) /\ Confined(given, M, W)
  <2> HIDE DEF what, ready
  <2>1. \A o : Confined(Out(workspace, <<o>>, ready \cup {V(<<what.variable>>)} \cup Labelled(what.lookups,
          <<"grafana_sources">>)), M, W)
    BY Alone
  <2>2. Confined(told, M, W)
    BY <2>1, AllOf DEF Each
  <2>3. \A A : \A r \in targets \X A : r[1] \in M
    <3> HIDE DEF targets
    <3>. QED  BY <1>1
  <2>4. Confined(given, M, W)
    <3> HIDE DEF targets
    <3>. QED  BY <2>3, Alone
  <2>. QED  BY <2>2, <2>4
<1>5. Confined(given \oplus Each(targets, offered) \oplus told, M, W)
  <2> HIDE DEF given, targets, offered, told
  <2>. QED  BY <1>3, <1>4, Both
<1>6. BuildSource(workspace, service, P) = When(targets # {}, given \oplus Each(targets, offered) \oplus told)
  BY DEF BuildSource
<1> HIDE DEF given, targets, offered, told
<1>. QED  BY <1>5, <1>6, Maybe

(* The data sources of a dashboard. *)
LEMMA GrafanaConfined ==
  ASSUME NEW M, NEW P, Covers(M, P), NEW c \in Range(P), NEW W
  PROVE  Confined(GrafanaDataSources(c, P), M, W)
<1> DEFINE each == Each(GrafanaSources, LAMBDA service : BuildSource(c.source, service, P))
<1>0. c.source \in M
  BY PeersInside
<1>1. Confined(each, M, W)
  <2>1. \A service : Confined(BuildSource(c.source, service, P), M, W)
    BY <1>0, SourceConfined
  <2>. QED  BY <2>1, AllOf DEF Each
<1>2. \A declares, uses, from : Confined(Mark(c.source, "managed_data_sources") \oplus each
         \oplus File(c.source, <<"data_source_role">>, declares, uses)
         \oplus Out(c.source, <<"data_source_role_arn">>, from), M, W)
  <2> HIDE DEF each
  <2>1. \A declares, uses : Confined(File(c.source, <<"data_source_role">>, declares, uses), M, W)
    BY <1>0, Alone DEF Free
  <2>. QED  BY <1>0, <1>1, <2>1, Alone, Both
<1>. QED  BY <1>2, Maybe DEF GrafanaDataSources

(* What a client of a store is given, and what it hands on. *)
LEMMA ClientConfined ==
  ASSUME NEW M, NEW W, NEW c, c.source \in M, c.target \in M, NEW prefix
  PROVE  /\ \A own, fields, resource : Confined(Client(c, prefix, own, fields, resource), M, W)
         /\ \A fields : Confined(Republish(c, prefix, fields), M, W)
<1>1. \A own, fields : Confined(ClientInputs(c, prefix, own, fields), M, W)
  <2> TAKE own, fields
  <2>1. \A f : Confined(In(c.source, <<prefix, c.target, f>>, {<<c.target, own \o f>>}), M, W)
    BY Alone
  <2>. QED  BY <2>1, AllOf DEF ClientInputs, Each
<1>2. \A own, fields, resource : Confined(ClientOutputs(c, own, fields, resource), M, W)
  <2> TAKE own, fields, resource
  <2>1. \A f : Confined(Out(c.target, <<own \o f>>, {<<resource, c.target>>}), M, W)
    BY Alone
  <2>. QED  BY <2>1, AllOf DEF ClientOutputs, Each
<1>3. \A fields : Confined(Republish(c, prefix, fields), M, W)
  <2>1. \A f : Confined(Out(c.source, <<prefix, c.target, f>>, {V(<<prefix, c.target, f>>)}), M, W)
    BY Alone
  <2>. QED  BY <2>1, AllOf DEF Republish, Each
<1>. QED  BY <1>1, <1>2, <1>3, Both DEF Client

(* A client's permissions name variables of its own module. *)
LEMMA ClientVariables ==
  ASSUME NEW M, NEW W, NEW c, c.source \in W, NEW prefix, NEW fields
  PROVE  /\ \A r \in ClientVars(c, prefix, fields) : r[1] = "var"
         /\ Confined(Grant(c.source, ClientVars(c, prefix, fields)), M, W)
<1>1. \A r \in ClientVars(c, prefix, fields) : r[1] = "var"
  BY VariableNames DEF ClientVars
<1>. QED  BY <1>1, Alone

(* A client that signs in with its role. *)
LEMMA IamClientConfined ==
  ASSUME NEW M, NEW W, NEW c, c.source \in M, c.target \in M, c.source \in W,
         NEW prefix, NEW own, NEW fields, NEW resource, NEW name, NEW described,
         NEW granted, \A r \in granted : r[1] = "var"
  PROVE  Confined(IamClient(c, prefix, own, fields, resource, name, described, granted), M, W)
BY ClientConfined, Alone, Both, Maybe DEF IamClient

(* Stores whose clients are functions and tasks, which have roles. *)
LEMMA ClientsConfined ==
  ASSUME NEW M, NEW P, Covers(M, P), NEW c \in Range(P), NEW W, c.source \in W
  PROVE  /\ Confined(DatabaseAccess(c), M, W) /\ Confined(NeptuneAccess(c), M, W)
         /\ Confined(MskAccess(c), M, W) /\ Confined(OpenSearchAccess(c), M, W)
         /\ Confined(ServerlessCacheIam(c), M, W) /\ Confined(MemoryDbAccess(c), M, W)
         /\ Confined(TimestreamAccess(c), M, W) /\ Confined(KeyspacesAccess(c), M, W)
<1>0. c.source \in M /\ c.target \in M
  BY PeersInside
<1>1. Confined(DatabaseAccess(c), M, W)
  BY <1>0, ClientConfined, ClientVariables, Alone, Both, Maybe DEF DatabaseAccess
<1>2. Confined(NeptuneAccess(c), M, W)
  BY <1>0, ClientConfined, ClientVariables, Alone, Both, Maybe DEF NeptuneAccess
<1>3. Confined(MskAccess(c), M, W)
  BY <1>0, ClientVariables, IamClientConfined, Maybe DEF MskAccess
<1>4. Confined(OpenSearchAccess(c), M, W)
  BY <1>0, ClientVariables, IamClientConfined DEF OpenSearchAccess
<1>5. Confined(ServerlessCacheIam(c), M, W)
  <2>1. \A prefix, fields : \A user \in {V(<<"serverless", c.target, "user", c.slot, "arn">>)} \cup ClientVars(c,
          prefix, fields) : user[1] = "var"
    BY ClientVariables, VariableNames
  <2>2. \A own, fields, resource, name, described :
          Confined(IamClient(c, "serverless", own, fields, resource, name, described,
            {V(<<"serverless", c.target, "user", c.slot, "arn">>)} \cup ClientVars(c, "serverless",
              {"cache_arn"})), M, W)
    BY <1>0, <2>1, IamClientConfined
  <2>. QED  BY <1>0, <2>2, Alone, Both, Maybe DEF ServerlessCacheIam
<1>6. Confined(MemoryDbAccess(c), M, W)
  <2>1. \A prefix, fields : \A user \in {V(<<"memorydb", c.target, "iam_user", c.slot, "arn">>)}
          \cup ClientVars(c, prefix, fields) : user[1] = "var"
    BY ClientVariables, VariableNames
  <2>2. \A own, fields, resource, name, described :
          Confined(IamClient(c, "memorydb", own, fields, resource, name, described,
            {V(<<"memorydb", c.target, "iam_user", c.slot, "arn">>)} \cup ClientVars(c, "memorydb",
              {"cluster_arn"})), M, W)
    BY <1>0, <2>1, IamClientConfined
  <2>3. \A name : Confined(In(c.source, name, {<<c.target>> \o <<"iam_user", c.slot>> \o <<"arn">>}), M, W)
    <3> DEFINE from == <<c.target>> \o <<"iam_user", c.slot>> \o <<"arn">>
    <3>1. from[1] = c.target
      OBVIOUS
    <3> HIDE DEF from
    <3>2. \A r \in {from} : r[1] \in M
      BY <1>0, <3>1
    <3>3. \A name : Confined(In(c.source, name, {from}), M, W)
      BY <1>0, <3>2, Alone
    <3>. QED  BY <3>3 DEF from
  <2>. QED  BY <1>0, <2>2, <2>3, ShortNames, Alone, Both, Maybe DEF MemoryDbAccess
<1>7. ASSUME NEW resource, NEW more, Confined(more, M, W) PROVE Confined(TableAccess(c, resource, more), M, W)
  <2> DEFINE binding == <<"table_access", c.target, c.slot>>
             field(f) == Out(c.target, Append(binding, f), {<<resource, c.target>>})
                         \oplus In(c.source, Append(binding, f), {<<c.target>> \o Append(binding, f)})
             each == Each({"database_name", "region", "table_arn"}, field)
  <2>1. \A f : Confined(field(f), M, W)
    <3> SUFFICES ASSUME NEW f PROVE Confined(field(f), M, W)
      OBVIOUS
    <3> DEFINE name == Append(binding, f)
               from == <<c.target>> \o name
    <3>1. from[1] = c.target
      OBVIOUS
    <3>2. \A uses : Confined(Out(c.target, name, uses), M, W)
      BY <1>0, Alone
    <3>3. Confined(In(c.source, name, {from}), M, W)
      <4> HIDE DEF from, name
      <4>1. \A r \in {from} : r[1] \in M
        BY <1>0, <3>1
      <4>. QED  BY <1>0, <4>1, Alone
    <3>4. \A uses : Confined(Out(c.target, name, uses) \oplus In(c.source, name, {from}), M, W)
      <4> HIDE DEF from, name
      <4>. QED  BY <3>2, <3>3, Both
    <3>. QED  BY <3>4
  <2>2. Confined(each, M, W)
    <3> HIDE DEF field
    <3>. QED  BY <2>1, AllOf DEF Each
  <2>3. V(Append(binding, "table_arn"))[1] = "var"
    <3> DEFINE names == {"table_access", c.target, c.slot, "table_arn"}
    <3>1. binding \in Seq(names) /\ "table_arn" \in names
      OBVIOUS
    <3>2. ASSUME NEW S, NEW s \in Seq(S), NEW e \in S PROVE V(Append(s, e))[1] = "var"
      <4>1. Append(s, e) \in Seq(S)
        OBVIOUS
      <4>2. ASSUME NEW t \in Seq(S) PROVE (<<"var">> \o t)[1] = "var"
        OBVIOUS
      <4>. QED  BY <4>1, <4>2 DEF V
    <3> HIDE DEF binding, names
    <3>. QED  BY <3>1, <3>2
  <2>4. Confined(Grant(c.source, {V(Append(binding, "table_arn"))}), M, W)
    BY <2>3, Alone
  <2>5. \A from : Confined(more \oplus each \oplus Out(c.source, binding, from)
                           \oplus Grant(c.source, {V(Append(binding, "table_arn"))}), M, W)
    <3> HIDE DEF each, binding
    <3>. QED  BY <1>0, <1>7, <2>2, <2>4, Alone, Both
  <2>. QED  BY <2>5 DEF TableAccess
<1>8. Confined(TimestreamAccess(c), M, W)
  BY <1>7, Alone DEF TimestreamAccess
<1>9. Confined(KeyspacesAccess(c), M, W)
  <2>1. \A from : Confined(Out(c.target, <<"client_system_keyspaces_arn">>, from)
          \oplus In(c.source, <<"keyspaces", c.target, "system_arn">>,
            {<<c.target, "client_system_keyspaces_arn">>})
          \oplus Grant(c.source, {V(<<"keyspaces", c.target, "system_arn">>)}), M, W)
    BY <1>0, Permission, Alone, Both
  <2>. QED  BY <1>7, <2>1 DEF KeyspacesAccess
<1>. QED  BY <1>1, <1>2, <1>3, <1>4, <1>5, <1>6, <1>8, <1>9

(* A trace group is told of members that are generated. *)
LEMMA MembershipConfined ==
  ASSUME NEW M, NEW W, NEW group \in M, NEW members, \A x \in members : x \in M, NEW input, NEW arn, NEW name
  PROVE  Confined(GroupMembership(group, members, input, arn, name), M, W)
<1> DEFINE from == UNION {{<<x, arn>>, <<x, name>>} : x \in members}
<1>1. \A r \in from : r[1] \in M
  OBVIOUS
<1>2. \A declares : Confined(File(group, <<"xray_tracing">>, declares, {}), M, W)
  BY ShortNames, Alone
<1>3. \A reads, declares : Confined(In(group, <<input>>, from) \oplus Out(group, <<"trace_filter_expression">>,
        reads)
                                   \oplus File(group, <<"xray_tracing">>, declares, {}), M, W)
  <2> HIDE DEF from
  <2>. QED  BY <1>1, <1>2, Alone, Both
<1>. QED  BY <1>3 DEF GroupMembership

(* Clients that are granted nothing. *)
LEMMA QuietConfined ==
  ASSUME NEW M, NEW P, Covers(M, P), NEW c \in Range(P), NEW W
  PROVE  /\ Confined(ElastiCacheClient(c), M, W) /\ Confined(DocumentDbAccess(c), M, W)
         /\ Confined(MqClient(c), M, W) /\ Confined(SQSDeadLetter(c, P), M, W)
         /\ Confined(LambdaXRay(c, P), M, W)
<1>0. c.source \in M /\ c.target \in M
  BY PeersInside
<1>1. Confined(ElastiCacheClient(c), M, W)
  <2>1. When({} # {}, Grant(c.source, {})) = Nothing
    BY DEF When
  <2>. QED  BY <1>0, <2>1, ClientConfined, Alone, Both, Maybe DEF ElastiCacheClient, IamClient
<1>2. Confined(DocumentDbAccess(c), M, W)
  BY <1>0, ClientConfined, Alone, Both, Maybe DEF DocumentDbAccess
<1>3. Confined(MqClient(c), M, W)
  BY <1>0, Alone, Both DEF MqClient
<1>4. Confined(SQSDeadLetter(c, P), M, W)
  <2> DEFINE sources == {d.source : d \in Into(c, P)}
             v(q, a) == <<"redrive", q, a>>
             field(q, a) == Out(q, <<"redrive_" \o a>>, {<<"aws_sqs_queue", q>>})
                            \oplus In(c.target, v(q, a), {<<q, "redrive_" \o a>>})
             fields(q) == Each({"arn", "url", "fifo_queue"}, LAMBDA a : field(q, a))
             redrive(q) == fields(q)
               \oplus File(c.target, <<"redrive", q>>, {<<"aws_sqs_queue_redrive_policy", "source", q>>},
                  {<<"aws_sqs_queue", c.target>>, <<"aws_sqs_queue_redrive_allow_policy", "connected_sources">>}
                  \cup {V(v(q, a)) : a \in {"arn", "url", "fifo_queue"}})
             each == Each(sources, redrive)
  <2>1. \A q \in sources : q \in M
    BY PeersInside
  <2>2. \A q \in M : \A a : Confined(field(q, a), M, W)
    BY <1>0, Alone, Both
  <2>3. \A q \in M : Confined(fields(q), M, W)
    <3> HIDE DEF field
    <3>. QED  BY <2>2, AllOf DEF Each
  <2>4. \A q \in M : Confined(redrive(q), M, W)
    <3> HIDE DEF fields, v
    <3>. QED  BY <1>0, <2>3, ShortNames, Alone, Both
  <2>5. Confined(each, M, W)
    <3> HIDE DEF redrive, sources
    <3>. QED  BY <2>1, <2>4, AllOf DEF Each
  <2>6. \A declares, uses : Confined(each \oplus File(c.target, <<"redrive_allow">>, declares, uses), M, W)
    <3> HIDE DEF each
    <3>. QED  BY <1>0, <2>5, ShortNames, Alone, Both
  <2>. QED  BY <2>6, Maybe DEF SQSDeadLetter
<1>5. Confined(LambdaXRay(c, P), M, W)
  <2> DEFINE members == {d.source : d \in Into(c, P)}
  <2>1. \A x \in members : x \in M
    BY PeersInside
  <2>2. Confined(GroupMembership(c.target, members, "xray_lambda_functions", "function_arn", "function_name"), M,
          W)
    BY <1>0, <2>1, MembershipConfined
  <2>3. \A declares, uses : Confined(File(c.source, <<"xray_tracing">>, declares, uses), M, W)
    BY <1>0, ShortNames, Alone
  <2>. QED  BY <2>2, <2>3, Alone, Both, Maybe DEF LambdaXRay
<1>. QED  BY <1>1, <1>2, <1>3, <1>4, <1>5

(* Permissions of functions and tasks at the source of a connection. *)
LEMMA SourcesConfined ==
  ASSUME NEW M, NEW P, Covers(M, P), NEW c \in Range(P), NEW W, c.source \in W
  PROVE  /\ Confined(IamGrant(c, P), M, W) /\ Confined(KinesisAccess(c), M, W)
         /\ Confined(LambdaDeadLetter(c, P), M, W) /\ Confined(LambdaCloudWatch(c, P), M, W)
         /\ Confined(EcsPrometheus(c, P), M, W)
<1>0. c.source \in M /\ c.target \in M
  BY PeersInside
<1>1. Confined(IamGrant(c, P), M, W)
  BY <1>0, AugmentConfined, Permission, Alone, Both DEF IamGrant
<1>2. Confined(KinesisAccess(c), M, W)
  <2> DEFINE each == Each({"arn", "name"}, LAMBDA f : In(c.source, <<"kinesis", c.target, f>>,
               {<<c.target, "stream_" \o f>>}))
  <2>1. Confined(each, M, W)
    <3>1. \A f : Confined(In(c.source, <<"kinesis", c.target, f>>, {<<c.target, "stream_" \o f>>}), M, W)
      BY <1>0, Alone
    <3>. QED  BY <3>1, AllOf DEF Each
  <2>2. Confined(each \oplus Republish(c, "kinesis", {"arn", "name"})
                 \oplus Grant(c.source, {V(<<"kinesis", c.target, "arn">>)}), M, W)
    <3> HIDE DEF each
    <3>. QED  BY <1>0, <2>1, ClientConfined, Permission, Both
  <2>. QED  BY <2>2 DEF KinesisAccess
<1>3. Confined(LambdaDeadLetter(c, P), M, W)
  BY <1>0, AugmentConfined, Permission, Alone, Both, Maybe DEF LambdaDeadLetter
<1>4. Confined(LambdaCloudWatch(c, P), M, W)
  BY <1>0, AugmentConfined, Permission, Alone, Both, Maybe DEF LambdaCloudWatch, Peer
<1>5. Confined(EcsPrometheus(c, P), M, W)
  <2> DEFINE reads == UNION {{<<d.target, "workspace_arn">>,
               <<d.target, "prometheus_endpoint">>} : d \in OutOf(c, P)}
  <2>3. \A r \in reads : r[1] \in M
    BY PeersInside
  <2>1. \A uses, made : Confined(
          In(c.source, <<"prometheus_collection">>, {})
          \oplus In(c.source, <<"prometheus_collection_workspaces">>, reads)
          \oplus Collector(c.source, "prometheus", "prometheus_collection", made, uses), M, W)
    <3> HIDE DEF reads
    <3>. QED  BY <1>0, <2>3, ShortNames, Alone, Both DEF Collector
  <2>2. Confined(Grant(c.source, {<<"aws_prometheus_workspace", d.target, "arn">> : d \in OutOf(c, P)}), M, W)
    <3>1. \A d \in OutOf(c, P) : <<"aws_prometheus_workspace", d.target, "arn">>[2] \in M
      BY PeersInside
    <3>2. \A r \in {<<"aws_prometheus_workspace", d.target, "arn">> : d \in OutOf(c, P)} : r[2] \in M
      BY <3>1
    <3>. QED  BY <3>2, Alone
  <2>. QED  BY <2>1, <2>2, Both, Maybe DEF EcsPrometheus
<1>. QED  BY <1>1, <1>2, <1>3, <1>4, <1>5

(* Permissions of functions and tasks at the target of a connection. *)
LEMMA TargetsConfined ==
  ASSUME NEW M, NEW P, Covers(M, P), NEW c \in Range(P), NEW W, c.target \in W
  PROVE  /\ Confined(DynamoDBLambda(c), M, W) /\ Confined(SQSLambda(c, P), M, W)
         /\ Confined(SQSECS(c, P), M, W)
<1>0. c.source \in M /\ c.target \in M
  BY PeersInside
<1>1. Confined(DynamoDBLambda(c), M, W)
  BY <1>0, ShortNames, Permission, Alone, Both DEF DynamoDBLambda, Peer
<1>2. Confined(SQSLambda(c, P), M, W)
  BY <1>0, AugmentConfined, ShortNames, Permission, Alone, Both DEF SQSLambda, Peer
<1>3. Confined(SQSECS(c, P), M, W)
  <2> DEFINE v(a) == <<"sqs", c.source, a>>
             field(a) == In(c.target, v(a), {<<c.source, "queue_" \o a>>}) \oplus Out(c.target, v(a), {V(v(a))})
             each == Each({"arn", "url"}, field)
  <2>1. \A a : Confined(field(a), M, W)
    <3> HIDE DEF v
    <3>. QED  BY <1>0, Alone, Both
  <2>2. Confined(each, M, W)
    <3> HIDE DEF field
    <3>. QED  BY <2>1, AllOf DEF Each
  <2>3. \A from : Confined(each \oplus Out(c.target, <<"sqs", c.source, "region">>, from)
                           \oplus Grant(c.target, {V(<<"sqs", c.source, "arn">>)})
                           \oplus Augment(c.target, c.source, P), M, W)
    <3> HIDE DEF each
    <3>. QED  BY <1>0, <2>2, AugmentConfined, Permission, Alone, Both
  <2>. QED  BY <2>3 DEF SQSECS
<1>. QED  BY <1>1, <1>2, <1>3

(* Logs, metrics and traces that are collected elsewhere. *)
LEMMA CollectionConfined ==
  ASSUME NEW M, NEW P, Covers(M, P), NEW c \in Range(P), NEW W
  PROVE  /\ Confined(EcsLogs(c, P), M, W) /\ Confined(EksLogs(c, P), M, W)
         /\ Confined(EcsXRay(c, P), M, W) /\ Confined(EksPrometheus(c, P), M, W)
         /\ Confined(TargetGroupECS(c, P), M, W)
<1>0. c.source \in M /\ c.target \in M
  BY PeersInside
<1>1. Confined(EcsLogEncryption(c, P), M, W)
  <2> DEFINE groups == {d.target : d \in OutOf(c, P)}
             access == Each(groups, LAMBDA g : Augment(c.source, g, P))
  <2>1. Confined(access, M, {c.source})
    <3>1. \A g : Confined(Augment(c.source, g, P), M, {c.source})
      BY <1>0, AugmentConfined
    <3>. QED  BY <3>1, AllOf DEF Each
  <2>2. Confined([access EXCEPT !.grants = {}], M, W)
    BY <2>1, Ungranted
  <2>3. \A declares, uses : Confined(File(c.source, <<"application_log_encryption">>, declares, uses), M, W)
    BY <1>0, ShortNames, Alone
  <2>4. \A p, declares, uses : Confined([access EXCEPT !.grants = {}]
          \oplus When(p, Mark(c.source, "application_logs_kms")
                         \oplus File(c.source, <<"application_log_encryption">>, declares, uses)), M, W)
    <3> HIDE DEF access
    <3>. QED  BY <2>2, <2>3, Alone, Both, Maybe
  <2>. QED  BY <2>4 DEF EcsLogEncryption
<1>2. Confined(EcsLogs(c, P), M, W)
  <2> DEFINE groups == {<<d.target, "log_group_arn">> : d \in OutOf(c, P)}
  <2>1. \A r \in groups : r[1] \in M
    BY PeersInside
  <2>2. \A declares, uses, from : Confined(
          Mark(c.source, "application_logs") \oplus Mark(c.source, "fargate") \oplus In(c.source, <<"ecs_logs">>,
            groups)
          \oplus File(c.source, <<"application_logs">>, declares, uses)
          \oplus Out(c.source, <<"application_log_configurations">>, from) \oplus EcsLogEncryption(c, P), M, W)
    <3> HIDE DEF groups
    <3>. QED  BY <1>0, <1>1, <2>1, ShortNames, Alone, Both
  <2>. QED  BY <2>2, Maybe DEF EcsLogs
<1>3. Confined(EksLogs(c, P), M, W)
  BY <1>0, ShortNames, Alone, Both, Maybe DEF EksLogs
<1>4. Confined(EcsXRay(c, P), M, W)
  <2>1. \A made, uses : Confined(Collector(c.source, "xray", "xray_collection", made, uses), M, W)
    BY <1>0, ShortNames, Alone, Both DEF Collector
  <2> DEFINE members == {d.source : d \in Into(c, P)}
  <2>3. \A x \in members : x \in M
    BY PeersInside
  <2>2. Confined(GroupMembership(c.target, members, "xray_ecs_clusters", "cluster_arn", "xray_cluster_name"), M,
          W)
    BY <1>0, <2>3, MembershipConfined
  <2>. QED  BY <1>0, <2>1, <2>2, Alone, Both, Maybe DEF EcsXRay
<1>5. Confined(EksPrometheus(c, P), M, W)
  <2>1. Confined(Each(OutOf(c, P), LAMBDA d : Mark(d.target, "managed_scraper")), M, W)
    <3>1. \A d : Confined(Mark(d.target, "managed_scraper"), M, W)
      BY Alone
    <3>. QED  BY <3>1, AllOf DEF Each
  <2> DEFINE workspaces == {<<d.target, "workspace_arn">> : d \in OutOf(c, P)}
  <2>2. \A r \in workspaces : r[1] \in M
    BY PeersInside
  <2>3. \A from, declares, uses : Confined(
          Mark(c.source, "private_access") \oplus Each(OutOf(c, P), LAMBDA d : Mark(d.target, "managed_scraper"))
          \oplus In(c.source, <<"prometheus_scraper_workspaces">>, workspaces)
          \oplus Out(c.source, <<"prometheus_scrapers">>, from)
          \oplus File(c.source, <<"prometheus_scrapers">>, declares, uses), M, W)
    <3> DEFINE scrapers == Each(OutOf(c, P), LAMBDA d : Mark(d.target, "managed_scraper"))
    <3> HIDE DEF workspaces, scrapers
    <3>1. Confined(scrapers, M, W)
      BY <2>1 DEF scrapers
    <3>2. \A from, declares, uses : Confined(
          Mark(c.source, "private_access") \oplus scrapers
          \oplus In(c.source, <<"prometheus_scraper_workspaces">>, workspaces)
          \oplus Out(c.source, <<"prometheus_scrapers">>, from)
          \oplus File(c.source, <<"prometheus_scrapers">>, declares, uses), M, W)
      BY <1>0, <2>2, <3>1, ShortNames, Alone, Both
    <3>. QED  BY <3>2 DEF scrapers
  <2>. QED  BY <2>3, Maybe DEF EksPrometheus
<1>6. Confined(TargetGroupECS(c, P), M, W)
  BY <1>0, Alone, Both DEF TargetGroupECS, Peer
<1>. QED  BY <1>2, <1>3, <1>4, <1>5, <1>6
-----------------------------------------------------------------------------
(* The registry: every kind of connection has one of these handlers. *)

(* Functions and tasks, the services whose modules have a role that connections
   grant something to. *)
Compute == {"lambda", "ecs"}
Staffed(c, W) == (c.kind[1] \in Compute => c.source \in W) /\ (c.kind[2] \in Compute => c.target \in W)

(* The handlers of part 1 of the registry, each for the kinds it is *)
(* registered for.                                                  *)
LEMMA Registry1Confined ==
  ASSUME NEW M, NEW P, Covers(M, P), NEW c \in Range(P), NEW W, Staffed(c, W),
         NEW spec \in Registry1, spec.kind = c.kind
  PROVE  Confined(HandleWith(spec.handler, c, P), M, W)
<1>1. /\ spec.handler \in {"EcrEks", "EcrEcs", "CodeArtifactBuild", "CodeCommitPipeline", "CodeCommitBuild",
           "OrganizationDelegation", "SsmEc2", "PrivateCertificate", "CognitoLoadBalancer", "CognitoApiGateway",
             "CognitoAppSync", "AppSyncAurora", "AppSyncDynamoDb", "AppSyncLambda", "AppSyncOpenSearch",
               "AppSyncEventBridge", "FisEc2", "FisEcs"}
      /\ spec.handler \in {"AppSyncAurora", "AppSyncDynamoDb", "AppSyncLambda", "AppSyncOpenSearch",
           "AppSyncEventBridge"} => spec.kind[2] # "aws_iam_role_policy"
  BY SpecsSay DEF Registry1, Compute
<1>2. (c.kind[1] \in Compute => c.source \in W) /\ (c.kind[2] \in Compute => c.target \in W)
  BY DEF Staffed
<1>3. /\ HandleWith("EcrEks", c, P) = EcrEks(c, P)
      /\ HandleWith("EcrEcs", c, P) = EcrEcs(c, P)
      /\ HandleWith("CodeArtifactBuild", c, P) = CodeArtifactBuild(c, P)
      /\ HandleWith("CodeCommitPipeline", c, P) = CodeCommitPipeline(c, P)
      /\ HandleWith("CodeCommitBuild", c, P) = CodeCommitBuild(c, P)
      /\ HandleWith("OrganizationDelegation", c, P) = OrganizationDelegation(c, P)
      /\ HandleWith("SsmEc2", c, P) = SsmEc2(c, P)
      /\ HandleWith("PrivateCertificate", c, P) = PrivateCertificate(c, P)
      /\ HandleWith("CognitoLoadBalancer", c, P) = CognitoLoadBalancer(c, P)
      /\ HandleWith("CognitoApiGateway", c, P) = CognitoApiGateway(c, P)
      /\ HandleWith("CognitoAppSync", c, P) = CognitoAppSync(c, P)
      /\ HandleWith("AppSyncAurora", c, P) = AppSyncAurora(c, P)
      /\ HandleWith("AppSyncDynamoDb", c, P) = AppSyncDynamoDb(c, P)
      /\ HandleWith("AppSyncLambda", c, P) = AppSyncLambda(c, P)
      /\ HandleWith("AppSyncOpenSearch", c, P) = AppSyncOpenSearch(c, P)
      /\ HandleWith("AppSyncEventBridge", c, P) = AppSyncEventBridge(c, P)
      /\ HandleWith("FisEc2", c, P) = FisEc2(c, P)
      /\ HandleWith("FisEcs", c, P) = FisEcs(c, P)
  BY SMTT(120) DEF HandleWith
<1>. QED  BY <1>1, <1>2, <1>3, CodeConfined, MountsConfined, CertificatesConfined, RoutesConfined,
               FieldsConfined, FaultsConfined DEF Compute

(* The handlers of part 2 of the registry, each for the kinds it is *)
(* registered for.                                                  *)
LEMMA Registry2Confined ==
  ASSUME NEW M, NEW P, Covers(M, P), NEW c \in Range(P), NEW W, Staffed(c, W),
         NEW spec \in Registry2, spec.kind = c.kind
  PROVE  Confined(HandleWith(spec.handler, c, P), M, W)
<1>1. /\ spec.handler \in {"FisEks", "EventBridgeSsm", "EventBridgeCodeBuild", "EventBridgeBatch",
           "EventBridgeEcs", "EventBridgeApiGateway", "EventBridgeKinesis", "EventBridgeSNS",
             "EventBridgeWorkflow", "LambdaDeadLetter", "SQSDeadLetter", "SQSECS", "ServerlessCacheIam",
               "DmsReplicationTask", "DmsDatabaseEndpoint"}
      /\ spec.handler = "EventBridgeBatch" => spec.kind[2] = "batch"
      /\ spec.handler \in {"LambdaDeadLetter", "ServerlessCacheIam"} => spec.kind[1] \in Compute
      /\ spec.handler \in {"SQSECS"} => spec.kind[2] \in Compute
  BY SpecsSay DEF Registry2, Compute
<1>2. (c.kind[1] \in Compute => c.source \in W) /\ (c.kind[2] \in Compute => c.target \in W)
  BY DEF Staffed
<1>3. /\ HandleWith("FisEks", c, P) = FisEks(c, P)
      /\ HandleWith("EventBridgeSsm", c, P) = EventBridgeSsm(c, P)
      /\ HandleWith("EventBridgeCodeBuild", c, P) = EventBridgeCodeBuild(c, P)
      /\ HandleWith("EventBridgeBatch", c, P) = EventBridgeBatch(c, P)
      /\ HandleWith("EventBridgeEcs", c, P) = EventBridgeEcs(c, P)
      /\ HandleWith("EventBridgeApiGateway", c, P) = EventBridgeApiGateway(c, P)
      /\ HandleWith("EventBridgeKinesis", c, P) = EventBridgeKinesis(c, P)
      /\ HandleWith("EventBridgeSNS", c, P) = EventBridgeSNS(c, P)
      /\ HandleWith("EventBridgeWorkflow", c, P) = EventBridgeWorkflow(c, P)
      /\ HandleWith("LambdaDeadLetter", c, P) = LambdaDeadLetter(c, P)
      /\ HandleWith("SQSDeadLetter", c, P) = SQSDeadLetter(c, P)
      /\ HandleWith("SQSECS", c, P) = SQSECS(c, P)
      /\ HandleWith("ServerlessCacheIam", c, P) = ServerlessCacheIam(c)
      /\ HandleWith("DmsReplicationTask", c, P) = DmsReplicationTask(c, P)
      /\ HandleWith("DmsDatabaseEndpoint", c, P) = DmsDatabaseEndpoint(c, P)
  BY SMTT(120) DEF HandleWith
<1>. QED  BY <1>1, <1>2, <1>3, FaultsConfined, EventsConfined, SourcesConfined, QuietConfined, TargetsConfined,
               ClientsConfined, MigrationsConfined DEF Compute

(* The handlers of part 3 of the registry, each for the kinds it is *)
(* registered for.                                                  *)
LEMMA Registry3Confined ==
  ASSUME NEW M, NEW P, Covers(M, P), NEW c \in Range(P), NEW W, Staffed(c, W),
         NEW spec \in Registry3, spec.kind = c.kind
  PROVE  Confined(HandleWith(spec.handler, c, P), M, W)
<1>1. /\ spec.handler \in {"DmsSecretEndpoint", "ElastiCacheClient", "MqClient", "MskAccess", "DocumentDbAccess",
           "OpenSearchAccess", "MemoryDbAccess", "NeptuneAccess", "KeyspacesAccess", "TimestreamAccess"}
      /\ spec.handler \in {"MskAccess", "OpenSearchAccess", "MemoryDbAccess", "NeptuneAccess", "KeyspacesAccess",
           "TimestreamAccess"} => spec.kind[1] \in Compute
  BY SpecsSay DEF Registry3, Compute
<1>2. (c.kind[1] \in Compute => c.source \in W) /\ (c.kind[2] \in Compute => c.target \in W)
  BY DEF Staffed
<1>3. /\ HandleWith("DmsSecretEndpoint", c, P) = DmsSecretEndpoint(c, P)
      /\ HandleWith("ElastiCacheClient", c, P) = ElastiCacheClient(c)
      /\ HandleWith("MqClient", c, P) = MqClient(c)
      /\ HandleWith("MskAccess", c, P) = MskAccess(c)
      /\ HandleWith("DocumentDbAccess", c, P) = DocumentDbAccess(c)
      /\ HandleWith("OpenSearchAccess", c, P) = OpenSearchAccess(c)
      /\ HandleWith("MemoryDbAccess", c, P) = MemoryDbAccess(c)
      /\ HandleWith("NeptuneAccess", c, P) = NeptuneAccess(c)
      /\ HandleWith("KeyspacesAccess", c, P) = KeyspacesAccess(c)
      /\ HandleWith("TimestreamAccess", c, P) = TimestreamAccess(c)
  BY SMTT(120) DEF HandleWith
<1>. QED  BY <1>1, <1>2, <1>3, MigrationsConfined, QuietConfined, ClientsConfined DEF Compute

(* The handlers of part 4 of the registry, each for the kinds it is *)
(* registered for.                                                  *)
LEMMA Registry4Confined ==
  ASSUME NEW M, NEW P, Covers(M, P), NEW c \in Range(P), NEW W, Staffed(c, W),
         NEW spec \in Registry4, spec.kind = c.kind
  PROVE  Confined(HandleWith(spec.handler, c, P), M, W)
<1>1. /\ spec.handler \in {"DatabaseAccess", "KinesisAccess", "EfsEksMount", "EfsEc2Mount", "EfsEcsMount",
           "CodePipelineS3", "DataSyncS3", "DataSyncLocation", "CloudFrontS3", "FirehoseS3", "S3ReadSource",
             "S3LogDelivery", "AwsConfigSns", "EksPrometheus"}
      /\ spec.handler \in {"DatabaseAccess", "KinesisAccess"} => spec.kind[1] \in Compute
      /\ spec.handler \in {"EfsEcsMount"} => spec.kind[2] \in Compute
  BY SpecsSay DEF Registry4, Compute
<1>2. (c.kind[1] \in Compute => c.source \in W) /\ (c.kind[2] \in Compute => c.target \in W)
  BY DEF Staffed
<1>3. /\ HandleWith("DatabaseAccess", c, P) = DatabaseAccess(c)
      /\ HandleWith("KinesisAccess", c, P) = KinesisAccess(c)
      /\ HandleWith("EfsEksMount", c, P) = EfsEksMount(c, P)
      /\ HandleWith("EfsEc2Mount", c, P) = EfsEc2Mount(c, P)
      /\ HandleWith("EfsEcsMount", c, P) = EfsEcsMount(c, P)
      /\ HandleWith("CodePipelineS3", c, P) = CodePipelineS3(c, P)
      /\ HandleWith("DataSyncS3", c, P) = DataSyncS3(c, P)
      /\ HandleWith("DataSyncLocation", c, P) = DataSyncLocation(c, P)
      /\ HandleWith("CloudFrontS3", c, P) = CloudFrontS3(c, P)
      /\ HandleWith("FirehoseS3", c, P) = FirehoseS3(c, P)
      /\ HandleWith("S3ReadSource", c, P) = S3ReadSource(c, P)
      /\ HandleWith("S3LogDelivery", c, P) = S3LogDelivery(c, P)
      /\ HandleWith("AwsConfigSns", c, P) = AwsConfigSns(c, P)
      /\ HandleWith("EksPrometheus", c, P) = EksPrometheus(c, P)
  BY SMTT(120) DEF HandleWith
<1>. QED  BY <1>1, <1>2, <1>3, ClientsConfined, SourcesConfined, MountsConfined, CodeConfined, TransfersConfined,
               BucketsConfined, CollectionConfined DEF Compute

(* The handlers of part 5 of the registry, each for the kinds it is *)
(* registered for.                                                  *)
LEMMA Registry5Confined ==
  ASSUME NEW M, NEW P, Covers(M, P), NEW c \in Range(P), NEW W, Staffed(c, W),
         NEW spec \in Registry5, spec.kind = c.kind
  PROVE  Confined(HandleWith(spec.handler, c, P), M, W)
<1>1. /\ spec.handler \in {"EcsPrometheus", "GrafanaDataSources", "LambdaXRay", "EcsXRay", "S3Replication",
           "S3Location", "LakeFormationS3", "BackupSelection", "EfsLambdaMount", "EbsAttachment"}
      /\ spec.handler \in {"EcsPrometheus"} => spec.kind[1] \in Compute
      /\ spec.handler \in {"EfsLambdaMount"} => spec.kind[2] \in Compute
  BY SpecsSay DEF Registry5, Compute
<1>2. (c.kind[1] \in Compute => c.source \in W) /\ (c.kind[2] \in Compute => c.target \in W)
  BY DEF Staffed
<1>3. /\ HandleWith("EcsPrometheus", c, P) = EcsPrometheus(c, P)
      /\ HandleWith("GrafanaDataSources", c, P) = GrafanaDataSources(c, P)
      /\ HandleWith("LambdaXRay", c, P) = LambdaXRay(c, P)
      /\ HandleWith("EcsXRay", c, P) = EcsXRay(c, P)
      /\ HandleWith("S3Replication", c, P) = S3Replication(c, P)
      /\ HandleWith("S3Location", c, P) = S3Location(c, P)
      /\ HandleWith("LakeFormationS3", c, P) = LakeFormationS3(c, P)
      /\ HandleWith("BackupSelection", c, P) = BackupSelection(c)
      /\ HandleWith("EfsLambdaMount", c, P) = EfsLambdaMount(c, P)
      /\ HandleWith("EbsAttachment", c, P) = EbsAttachment(c, P)
  BY SMTT(120) DEF HandleWith
<1>. QED  BY <1>1, <1>2, <1>3, SourcesConfined, GrafanaConfined, QuietConfined, CollectionConfined,
               TransfersConfined, BucketsConfined, MountsConfined, PlacementsConfined DEF Compute

(* The handlers of part 6 of the registry, each for the kinds it is *)
(* registered for.                                                  *)
LEMMA Registry6Confined ==
  ASSUME NEW M, NEW P, Covers(M, P), NEW c \in Range(P), NEW W, Staffed(c, W),
         NEW spec \in Registry6, spec.kind = c.kind
  PROVE  Confined(HandleWith(spec.handler, c, P), M, W)
<1>1. /\ spec.handler \in {"S3EventBridge", "S3Destination", "EnvironmentSecret", "StepFunctionsBatch",
           "StepFunctionsSns", "StepFunctionsSqs", "StepFunctionsDynamoDb", "StepFunctionsEventBridge",
             "StepFunctionsEcs", "StepFunctionsLambda", "StepFunctionsSecret", "MwaaSecret",
               "LaunchTemplateAutoScaling", "Ec2Secret", "LambdaSecretAccess"}
      /\ spec.handler = "StepFunctionsBatch" => spec.kind[2] = "batch"
  BY SpecsSay DEF Registry6, Compute
<1>2. (c.kind[1] \in Compute => c.source \in W) /\ (c.kind[2] \in Compute => c.target \in W)
  BY DEF Staffed
<1>3. /\ HandleWith("S3EventBridge", c, P) = S3EventBridge(c, P)
      /\ HandleWith("S3Destination", c, P) = S3Destination(c, P)
      /\ HandleWith("EnvironmentSecret", c, P) = EnvironmentSecret(c, P)
      /\ HandleWith("StepFunctionsBatch", c, P) = StepFunctionsBatch(c, P)
      /\ HandleWith("StepFunctionsSns", c, P) = StepFunctionsSns(c, P)
      /\ HandleWith("StepFunctionsSqs", c, P) = StepFunctionsSqs(c, P)
      /\ HandleWith("StepFunctionsDynamoDb", c, P) = StepFunctionsDynamoDb(c, P)
      /\ HandleWith("StepFunctionsEventBridge", c, P) = StepFunctionsEventBridge(c, P)
      /\ HandleWith("StepFunctionsEcs", c, P) = StepFunctionsEcs(c, P)
      /\ HandleWith("StepFunctionsLambda", c, P) = StepFunctionsLambda(c, P)
      /\ HandleWith("StepFunctionsSecret", c, P) = StepFunctionsSecret(c, P)
      /\ HandleWith("MwaaSecret", c, P) = MwaaSecret(c, P)
      /\ HandleWith("LaunchTemplateAutoScaling", c, P) = LaunchTemplateAutoScaling(c, P)
      /\ HandleWith("Ec2Secret", c, P) = Ec2Secret(c, P)
      /\ HandleWith("LambdaSecretAccess", c, P) = LambdaSecretAccess(c, P)
  BY SMTT(120) DEF HandleWith
<1>. QED  BY <1>1, <1>2, <1>3, BucketsConfined, WorkflowsConfined, PlacementsConfined DEF Compute

(* The handlers of part 7 of the registry, each for the kinds it is *)
(* registered for.                                                  *)
LEMMA Registry7Confined ==
  ASSUME NEW M, NEW P, Covers(M, P), NEW c \in Range(P), NEW W, Staffed(c, W),
         NEW spec \in Registry7, spec.kind = c.kind
  PROVE  Confined(HandleWith(spec.handler, c, P), M, W)
<1>1. /\ spec.handler \in {"EcsSecret", "VpcMembership", "Route53VpcAssociation", "SubnetMembership",
           "RouteTableAssociation", "GatewayRoute", "SubnetEC2Placement", "SecurityGroupEC2Association",
             "SubnetListPlacement"}
  BY SpecsSay DEF Registry7, Compute
<1>2. (c.kind[1] \in Compute => c.source \in W) /\ (c.kind[2] \in Compute => c.target \in W)
  BY DEF Staffed
<1>3. /\ HandleWith("EcsSecret", c, P) = EcsSecret(c, P)
      /\ HandleWith("VpcMembership", c, P) = VpcMembership(c)
      /\ HandleWith("Route53VpcAssociation", c, P) = Route53VpcAssociation(c)
      /\ HandleWith("SubnetMembership", c, P) = SubnetMembership(c)
      /\ HandleWith("RouteTableAssociation", c, P) = RouteTableAssociation(c)
      /\ HandleWith("GatewayRoute", c, P) = GatewayRoute(c)
      /\ HandleWith("SubnetEC2Placement", c, P) = SubnetEC2Placement(c)
      /\ HandleWith("SecurityGroupEC2Association", c, P) = SecurityGroupEC2Association(c, P)
      /\ HandleWith("SubnetListPlacement", c, P) = SubnetListPlacement(c, P)
  BY SMTT(120) DEF HandleWith
<1>. QED  BY <1>1, <1>2, <1>3, WorkflowsConfined, PlacementsConfined DEF Compute

(* The handlers of part 8 of the registry, each for the kinds it is *)
(* registered for.                                                  *)
LEMMA Registry8Confined ==
  ASSUME NEW M, NEW P, Covers(M, P), NEW c \in Range(P), NEW W, Staffed(c, W),
         NEW spec \in Registry8, spec.kind = c.kind
  PROVE  Confined(HandleWith(spec.handler, c, P), M, W)
<1>1. /\ spec.handler \in {"SecurityGroupListAssociation", "KmsEncryption", "CertificateLoadBalancer",
           "CertificateDns", "CertificateCloudFront", "ClientVpnCertificate", "ApiGatewayCertificate",
             "WafLoadBalancer", "WafCloudFront", "DnsAlias", "AcceleratorLoadBalancer",
               "LoadBalancerTargetGroup", "TargetGroupEC2Attachment"}
  BY SpecsSay DEF Registry8, Compute
<1>2. (c.kind[1] \in Compute => c.source \in W) /\ (c.kind[2] \in Compute => c.target \in W)
  BY DEF Staffed
<1>3. /\ HandleWith("SecurityGroupListAssociation", c, P) = SecurityGroupListAssociation(c, P)
      /\ HandleWith("KmsEncryption", c, P) = KmsEncryption(c, P)
      /\ HandleWith("CertificateLoadBalancer", c, P) = CertificateLoadBalancer(c)
      /\ HandleWith("CertificateDns", c, P) = CertificateDns(c, P)
      /\ HandleWith("CertificateCloudFront", c, P) = CertificateCloudFront(c)
      /\ HandleWith("ClientVpnCertificate", c, P) = ClientVpnCertificate(c, P)
      /\ HandleWith("ApiGatewayCertificate", c, P) = ApiGatewayCertificate(c, P)
      /\ HandleWith("WafLoadBalancer", c, P) = WafLoadBalancer(c)
      /\ HandleWith("WafCloudFront", c, P) = WafCloudFront(c)
      /\ HandleWith("DnsAlias", c, P) = DnsAlias(c)
      /\ HandleWith("AcceleratorLoadBalancer", c, P) = AcceleratorLoadBalancer(c)
      /\ HandleWith("LoadBalancerTargetGroup", c, P) = LoadBalancerTargetGroup(c, P)
      /\ HandleWith("TargetGroupEC2Attachment", c, P) = TargetGroupEC2Attachment(c)
  BY SMTT(120) DEF HandleWith
<1>. QED  BY <1>1, <1>2, <1>3, PlacementsConfined, EncryptionConfined, CertificatesConfined, RoutesConfined
               DEF Compute

(* The handlers of part 9 of the registry, each for the kinds it is *)
(* registered for.                                                  *)
LEMMA Registry9Confined ==
  ASSUME NEW M, NEW P, Covers(M, P), NEW c \in Range(P), NEW W, Staffed(c, W),
         NEW spec \in Registry9, spec.kind = c.kind
  PROVE  Confined(HandleWith(spec.handler, c, P), M, W)
<1>1. /\ spec.handler \in {"TargetGroupECS", "TargetGroupLambdaAttachment", "TargetGroupPlacement",
           "ApiGatewayStepFunctions", "ApiGatewayLambda", "IamGrant", "LambdaCloudWatch", "ApiGatewayLogs",
             "CloudTrailLogs", "EcsLogs", "EksLogs", "StepFunctionsLogs", "CodeBuildLogs"}
      /\ spec.handler \in {"IamGrant", "LambdaCloudWatch"} => spec.kind[1] \in Compute
  BY SpecsSay DEF Registry9, Compute
<1>2. (c.kind[1] \in Compute => c.source \in W) /\ (c.kind[2] \in Compute => c.target \in W)
  BY DEF Staffed
<1>3. /\ HandleWith("TargetGroupECS", c, P) = TargetGroupECS(c, P)
      /\ HandleWith("TargetGroupLambdaAttachment", c, P) = TargetGroupLambdaAttachment(c)
      /\ HandleWith("TargetGroupPlacement", c, P) = TargetGroupPlacement(c, P)
      /\ HandleWith("ApiGatewayStepFunctions", c, P) = ApiGatewayStepFunctions(c, P)
      /\ HandleWith("ApiGatewayLambda", c, P) = ApiGatewayLambda(c, P)
      /\ HandleWith("IamGrant", c, P) = IamGrant(c, P)
      /\ HandleWith("LambdaCloudWatch", c, P) = LambdaCloudWatch(c, P)
      /\ HandleWith("ApiGatewayLogs", c, P) = ApiGatewayLogs(c, P)
      /\ HandleWith("CloudTrailLogs", c, P) = CloudTrailLogs(c, P)
      /\ HandleWith("EcsLogs", c, P) = EcsLogs(c, P)
      /\ HandleWith("EksLogs", c, P) = EksLogs(c, P)
      /\ HandleWith("StepFunctionsLogs", c, P) = StepFunctionsLogs(c, P)
      /\ HandleWith("CodeBuildLogs", c, P) = CodeBuildLogs(c, P)
  BY SMTT(120) DEF HandleWith
<1>. QED  BY <1>1, <1>2, <1>3, CollectionConfined, PlacementsConfined, RoutesConfined, SourcesConfined,
               BucketsConfined, WorkflowsConfined, CodeConfined DEF Compute

(* The handlers of part 10 of the registry, each for the kinds it is *)
(* registered for.                                                   *)
LEMMA Registry10Confined ==
  ASSUME NEW M, NEW P, Covers(M, P), NEW c \in Range(P), NEW W, Staffed(c, W),
         NEW spec \in Registry10, spec.kind = c.kind
  PROVE  Confined(HandleWith(spec.handler, c, P), M, W)
<1>1. /\ spec.handler \in {"S3Lambda", "DynamoDBLambda", "IamGrant", "EventBridgeLambda", "EventBridgeSQS",
           "SQSLambda", "SnsFirehose", "SNSSQS", "SNSLambda"}
      /\ spec.handler \in {"IamGrant"} => spec.kind[1] \in Compute
      /\ spec.handler \in {"DynamoDBLambda", "SQSLambda"} => spec.kind[2] \in Compute
  BY SpecsSay DEF Registry10, Compute
<1>2. (c.kind[1] \in Compute => c.source \in W) /\ (c.kind[2] \in Compute => c.target \in W)
  BY DEF Staffed
<1>3. /\ HandleWith("S3Lambda", c, P) = S3Lambda(c, P)
      /\ HandleWith("DynamoDBLambda", c, P) = DynamoDBLambda(c)
      /\ HandleWith("IamGrant", c, P) = IamGrant(c, P)
      /\ HandleWith("EventBridgeLambda", c, P) = EventBridgeLambda(c)
      /\ HandleWith("EventBridgeSQS", c, P) = EventBridgeSQS(c, P)
      /\ HandleWith("SQSLambda", c, P) = SQSLambda(c, P)
      /\ HandleWith("SnsFirehose", c, P) = SnsFirehose(c)
      /\ HandleWith("SNSSQS", c, P) = SNSSQS(c, P)
      /\ HandleWith("SNSLambda", c, P) = SNSLambda(c)
  BY SMTT(120) DEF HandleWith
<1>. QED  BY <1>1, <1>2, <1>3, BucketsConfined, TargetsConfined, SourcesConfined, EventsConfined,
               TransfersConfined DEF Compute
-----------------------------------------------------------------------------
(* The wiring of a whole project. *)

(* Whatever its kind, the handler of a connection contributes to modules of *)
(* the project only.                                                        *)
LEMMA HandleConfined ==
  ASSUME NEW M, NEW P, Covers(M, P), NEW c \in Range(P), NEW W, Staffed(c, W), c.kind \in ConnectionKinds
  PROVE  Confined(Handle(c, P), M, W)
<1> DEFINE found == CHOOSE spec \in ConnectionSpecs : spec.kind = c.kind
<1>1. found \in ConnectionSpecs /\ found.kind = c.kind
  BY DEF ConnectionKinds
<1>2. HandlerOf[c.kind] = found.handler
  BY DEF HandlerOf
<1> HIDE DEF found
<1>3. Handle(c, P) = HandleWith(found.handler, c, P)
  BY <1>2 DEF Handle
<1>4. \/ found \in Registry1 \/ found \in Registry2 \/ found \in Registry3 \/ found \in Registry4
           \/ found \in Registry5
      \/ found \in Registry6 \/ found \in Registry7 \/ found \in Registry8 \/ found \in Registry9
           \/ found \in Registry10
  BY <1>1 DEF ConnectionSpecs
<1>5. Confined(HandleWith(found.handler, c, P), M, W)
  BY <1>1, <1>4, Registry1Confined, Registry2Confined, Registry3Confined, Registry4Confined, Registry5Confined,
     Registry6Confined, Registry7Confined, Registry8Confined, Registry9Confined, Registry10Confined
<1>. QED  BY <1>3, <1>5

(* The functions and tasks of the project. *)
Hosts == {i \in DOMAIN services : services[i] \in Compute}

(* A connection of the IR lies between resources of the services it names. *)
Connected(c) ==
  /\ c.source \in DOMAIN services /\ c.target \in DOMAIN services
  /\ c.kind[1] = services[c.source] /\ c.kind[2] = services[c.target]
  /\ c.kind[2] = "batch" /\ c.fit => c.other \in DOMAIN services

(* The inductive invariant. *)
InsideInv ==
  /\ \A d \in Range(drawn) : JobSelected(d, services)
  /\ \A c \in Range(built) : Connected(c)
  /\ Confined(merged, DOMAIN services, Hosts)
  /\ phase = "assembled" => tree = Assembled(merged)

(* The connections of the IR lie between resources of the project, and those *)
(* a handler grants something to are functions or tasks.                     *)
LEMMA ConnectedCovered ==
  ASSUME \A c \in Range(built) : Connected(c)
  PROVE  Covers(DOMAIN services, built) /\ \A c \in Range(built) : Staffed(c, Hosts)
<1>1. \A i \in DOMAIN built : built[i] \in Range(built)
  BY DEF Range
<1>. QED  BY <1>1 DEF Connected, Covers, Staffed, Hosts

(* Merging keeps what is confined confined. *)
LEMMA MergeConfined ==
  ASSUME NEW M, NEW W, NEW m, NEW a, Confined(m, M, W), Confined(a, M, W)
  PROVE  Confined(Merge(m, a), M, W)
BY DEF Confined, Merge, Kept

(* A connection enters the IR with the services of its ends. *)
LEMMA BuildConnects ==
  ASSUME WiringInv, InsideInv, Build
  PROVE  InsideInv'
<1>1. /\ built \in Seq(Ir) /\ UNCHANGED <<services, drawn, merged>> /\ phase = "building" /\ phase' = phase
      /\ Legal(Wanted) /\ Wanted \in Range(drawn)
  BY DEF WiringInv, Build, Wanted, Range
<1> PICK d : d = Wanted
  OBVIOUS
<1> PICK kind : kind = KindOf(d)
  OBVIOUS
<1>2. kind[1] = services[d.source] /\ kind[2] = services[d.target]
  BY DEF KindOf
<1>3. d.source \in DOMAIN services /\ d.target \in DOMAIN services
  BY <1>1 DEF Legal
<1> PICK c : c = [n |-> Len(built) + 1, source |-> d.source, target |-> d.target, kind |-> kind,
                  slot |-> d.slot, fit |-> d.fit, remote |-> d.remote, other |-> d.other, refs |-> d.refs]
  OBVIOUS
<1>4. built' = Append(built, c)
  BY DEF Build
<1>5. \A x \in Range(built') : x = c \/ x \in Range(built)
  BY <1>1, <1>4 DEF Range
<1>6. Connected(c)
  <2>1. JobSelected(d, services)
    BY <1>1 DEF InsideInv
  <2>. QED  BY <1>2, <1>3, <2>1 DEF Connected, JobSelected
<1>7. \A x \in Range(built') : Connected(x)'
  BY <1>1, <1>5, <1>6 DEF Connected, InsideInv
<1>. QED  BY <1>1, <1>7 DEF InsideInv, Hosts

(* The outputs and variables the IAM pass adds are confined. *)
LEMMA AttachConfined ==
  ASSUME NEW M, NEW W, NEW m, Confined(m, M, W), W \subseteq M
  PROVE  Confined(Each({grant \in m.grants : grant.owner \in DOMAIN services}, CrossModuleInputs), M, W)
<1>1. ASSUME NEW grant \in m.grants PROVE Confined(CrossModuleInputs(grant), M, W)
  <2>1. grant.owner \in M /\ \A r \in Foreign(grant) : r[2] \in M
    BY <1>1 DEF Confined, Foreign, InModule
  <2>2. \A r \in Foreign(grant) : Confined(Bridge(grant, r), M, W)
    <3> SUFFICES ASSUME NEW r \in Foreign(grant) PROVE Confined(Bridge(grant, r), M, W)
      OBVIOUS
    <3> DEFINE there == Out(r[2], IamOutput(r), {<<r[1], r[2]>>})
               here == In(grant.owner, IamInput(r), {<<r[2]>> \o IamOutput(r)})
    <3>1. Confined(there, M, W)
      BY <2>1, Alone
    <3>3. Confined(here, M, W)
      <4> DEFINE from == <<r[2]>> \o IamOutput(r)
      <4>1. from[1] = r[2]
        BY DEF IamOutput
      <4> HIDE DEF from
      <4>2. \A x \in {from} : x[1] \in M
        BY <2>1, <4>1
      <4>3. \A name : Confined(In(grant.owner, name, {from}), M, W)
        BY <2>1, <4>2, Alone
      <4>. QED  BY <4>3 DEF from
    <3>2. Bridge(grant, r) = there \oplus here
      BY Oplus DEF Bridge
    <3> HIDE DEF there, here
    <3>. QED  BY <3>1, <3>2, <3>3, Both
  <2>3. CrossModuleInputs(grant) = Total({Bridge(grant, r) : r \in Foreign(grant)})
    BY DEF CrossModuleInputs, Each, Bridge
  <2>. QED  BY <2>2, <2>3, AllOf
<1>. QED  BY <1>1, AllOf DEF Each

(* Nothing a connection contributes ever leaves the project. *)
LEMMA Inside == Spec => []InsideInv
<1>1. Init => InsideInv
  <2>1. Init => \A d \in Range(drawn) : JobSelected(d, services)
    BY ProjectsAssumption DEF Init
  <2>. QED  BY <2>1 DEF Init, InsideInv, Range, Empty, Confined
<1>2. WiringInv /\ InsideInv /\ [Next]_vars => InsideInv'
  <2> SUFFICES ASSUME WiringInv, InsideInv, [Next]_vars PROVE InsideInv'
    OBVIOUS
  <2>1. CASE HandleConnection
    <3>1. /\ built \in Seq(Ir) /\ handled \in Nat /\ handled < Len(built) /\ merged' = Merge(merged, Contribution)
          /\ UNCHANGED <<services, drawn, built, phase>> /\ phase = "building"
      BY <2>1 DEF WiringInv, HandleConnection
    <3> PICK c : c = built[handled + 1]
      OBVIOUS
    <3>2. c \in Range(built) /\ c.kind \in ConnectionKinds
      BY <3>1 DEF Range, Ir
    <3>3. Covers(DOMAIN services, built) /\ Staffed(c, Hosts)
      BY <3>2, ConnectedCovered DEF InsideInv
    <3>4. Confined(Contribution, DOMAIN services, Hosts)
      BY <3>2, <3>3, HandleConfined DEF Contribution
    <3>5. Confined(merged', DOMAIN services, Hosts)
      BY <3>1, <3>4, MergeConfined DEF InsideInv
    <3>. QED  BY <3>1, <3>5 DEF InsideInv, Connected, Hosts
  <2>2. CASE RefuseConnection \/ RefuseToHandle
    BY <2>2 DEF RefuseConnection, RefuseToHandle, InsideInv, Connected, Hosts
  <2>3. CASE AttachIam
    <3> DEFINE added == Each({grant \in merged.grants : grant.owner \in DOMAIN services}, CrossModuleInputs)
    <3>1. merged' = Merge(merged, added) /\ UNCHANGED <<services, drawn, built>> /\ phase' = "granted"
      BY <2>3 DEF AttachIam
    <3>2. Hosts \subseteq DOMAIN services
      BY DEF Hosts
    <3>3. Confined(added, DOMAIN services, Hosts)
      BY <3>2, AttachConfined DEF InsideInv
    <3> HIDE DEF added
    <3>4. Confined(merged', DOMAIN services, Hosts)
      BY <3>1, <3>3, MergeConfined DEF InsideInv
    <3>. QED  BY <3>1, <3>4 DEF InsideInv, Connected, Hosts
  <2>4. CASE Assemble
    <3>1. tree' = Assembled(merged) /\ UNCHANGED <<services, drawn, built, merged>>
      BY <2>4 DEF Assemble
    <3>2. Assembled(merged)' = Assembled(merged)
      BY <3>1 DEF Assembled, Generated, Present, Given, Each
    <3>. QED  BY <3>1, <3>2 DEF InsideInv, Connected, Hosts
  <2>5. CASE UNCHANGED vars
    <3>1. Assembled(merged)' = Assembled(merged)
      BY <2>5 DEF vars, Assembled, Generated, Present, Given, Each
    <3>. QED  BY <2>5, <3>1 DEF vars, InsideInv, Connected, Hosts
  <2>. QED  BY <2>1, <2>2, <2>3, <2>4, <2>5, BuildConnects DEF Next
<1>. QED  BY <1>1, <1>2, Inductive, PTL DEF Spec

(* What is contributed is for the modules of the project. *)
NothingStrays ==
  /\ \A x \in merged.ins \cup merged.outs \cup merged.files : x.module \in DOMAIN services
  /\ \A in \in merged.ins : \A r \in in.from : r[1] \in DOMAIN services
  /\ \A grant \in merged.grants : grant.owner \in Hosts /\ \A r \in Foreign(grant) : r[2] \in DOMAIN services

(* No contribution is for a module that is not generated, nothing reads an  *)
(* output of one, and every permission is held by a function or a task: the *)
(* assembler, which looks for a contribution's module among the generated   *)
(* ones and skips what it does not find, never skips anything.              *)
THEOREM ContributionsStay == Spec => []NothingStrays
<1>1. InsideInv => NothingStrays
  BY DEF InsideInv, Confined, NothingStrays, Foreign, InModule
<1>. QED  BY <1>1, Inside, PTL
-----------------------------------------------------------------------------
(* The policies of roles. *)

(* The file of a role's policy. *)
PolicyName(i) == <<"aws_iam_role_policy", i, "policy">>
Policy(i, g) ==
  [module |-> i, name |-> PolicyName(i), declares |-> {PolicyName(i)},
   uses |-> {<<"aws_iam_role", i, "role">>} \cup g.granted]

(* A sum has the files of its parts. *)
LEMMA Contains == \A a, b : a.files \subseteq (a \oplus b).files /\ b.files \subseteq (a \oplus b).files
<1>1. \A a, b : a.files \subseteq Joined(a, b).files /\ b.files \subseteq Joined(a, b).files
  BY DEF Joined
<1>. QED  BY <1>1, Oplus

(* The module of a role writes its policy with all the permissions given. *)
LEMMA RolesHavePolicies ==
  ASSUME NEW i, NEW g
  PROVE  Policy(i, g) \in ExecutionRole(i, g).files
<1> DEFINE role == Block(i, <<"aws_iam_role", i, "role">>, {})
           policy == Block(i, PolicyName(i), {<<"aws_iam_role", i, "role">>} \cup g.granted)
<1>1. Policy(i, g) \in policy.files
  BY DEF Policy, Block, File, Nothing
<1>2. ExecutionRole(i, g) = role \oplus policy
  BY DEF ExecutionRole, PolicyName
<1> HIDE DEF role, policy
<1>. QED  BY <1>1, <1>2, Contains

(* The modules of functions and tasks have a role. *)
LEMMA HostsHavePolicies ==
  ASSUME NEW service \in Compute, NEW i, NEW g
  PROVE  Policy(i, g) \in ServiceModule(service, i, g).files
<1>1. Policy(i, g) \in Lambda(i, g).files
  <2> DEFINE rest == LambdaResource(i, g) \oplus LambdaVariables(i) \oplus LambdaOutputs(i)
  <2>1. Lambda(i, g) = rest \oplus ExecutionRole(i, g)
    BY DEF Lambda
  <2> HIDE DEF rest
  <2>. QED  BY <2>1, RolesHavePolicies, Contains
<1>2. Policy(i, g) \in Ecs(i, g).files
  <2> DEFINE rest == EcsResource(i, g) \oplus EcsOutputs(i, g)
  <2>1. Ecs(i, g) = rest \oplus ExecutionRole(i, g)
    BY DEF Ecs
  <2> HIDE DEF rest
  <2>. QED  BY <2>1, RolesHavePolicies, Contains
<1>3. MarkedModule("lambda", i, g) = Lambda(i, g) /\ MarkedModule("ecs", i, g) = Ecs(i, g)
  BY SMTT(120) DEF MarkedModule
<1>4. "lambda" \notin Unmarked /\ "ecs" \notin Unmarked
  BY DEF Unmarked
<1>5. ServiceModule(service, i, g) = MarkedModule(service, i, g)
  BY <1>4 DEF ServiceModule, Compute
<1>. QED  BY <1>1, <1>2, <1>3, <1>5 DEF Compute

(* The policy of a role is the one its service generator writes: no       *)
(* connection contributes a file of its name, which would take its place. *)
LEMMA PolicyKept ==
  ASSUME NEW m, Confined(m, DOMAIN services, Hosts), NEW i \in Hosts
  PROVE  Policy(i, Given(i, m)) \in Assembled(m).files
<1> DEFINE g == Given(i, m)
           own == Generated(m)
<1>1. Policy(i, g) \in ServiceModule(services[i], i, g).files /\ i \in DOMAIN services
  BY HostsHavePolicies DEF Hosts
<1>2. own.files = UNION {ServiceModule(services[j], j, Given(j, m)).files : j \in DOMAIN services}
  BY DEF Generated, Each, Total
<1>3. Policy(i, g) \in own.files
  BY <1>1, <1>2
<1> HIDE DEF own
<1> PICK f : f = Policy(i, g)
  OBVIOUS
<1>4. f.name = <<"aws_iam_role_policy", i, "policy">>
  BY DEF Policy, PolicyName
<1>5. ~Free(f.name)
  BY <1>4 DEF Free
<1>6. ~\E x \in Present(m.files) : SameSlot(x, f)
  BY <1>5 DEF Confined, Present, SameSlot
<1>7. f \in Kept(Present(m.files), own.files)
  BY <1>3, <1>6 DEF Kept
<1>. QED  BY <1>7 DEF Assembled, own

(* Every permission asked for reaches the policy of a role, whatever the    *)
(* project and in whichever order its connections were drawn (_attach_iam,  *)
(* assemble, the service generators). It needs that handlers grant to       *)
(* functions and tasks only and that no handler's file takes the place of a *)
(* policy.                                                                  *)
THEOREM PermissionsLand == Spec => []GrantsLand
<1>1. InsideInv => GrantsLand
  <2> SUFFICES ASSUME InsideInv, Done, NEW grant \in merged.grants
               PROVE  /\ grant.owner \in DOMAIN services
                      /\ \E f \in tree.files : /\ f.module = grant.owner /\ Granted(grant) \subseteq f.uses
                                               /\ <<"aws_iam_role_policy", grant.owner, "policy">> \in f.declares
    BY DEF GrantsLand
  <2>1. grant.owner \in Hosts /\ tree = Assembled(merged) /\ Confined(merged, DOMAIN services, Hosts)
    BY DEF InsideInv, Confined, Done
  <2> PICK f : f = Policy(grant.owner, Given(grant.owner, merged))
    OBVIOUS
  <2>2. f \in tree.files
    BY <2>1, PolicyKept
  <2>3. Granted(grant) \subseteq f.uses
    BY DEF Policy, Given
  <2>4. f.module = grant.owner /\ <<"aws_iam_role_policy", grant.owner, "policy">> \in f.declares
    BY DEF Policy, PolicyName
  <2>. QED  BY <2>1, <2>2, <2>3, <2>4 DEF Hosts
<1>. QED  BY <1>1, Inside, PTL

(* Both ends of a permission on another module's resource are there. *)
GrantsWired ==
  Done => \A grant \in merged.grants : \A r \in Foreign(grant) :
     /\ \E in \in tree.ins : in.module = grant.owner /\ in.name = IamInput(r)
     /\ \E out \in tree.outs : out.module = r[2] /\ out.name = IamOutput(r)

(* The bridge of a permission outlives the assembly. *)
LEMMA WiredAt ==
  ASSUME InsideInv, GrantsFollowed, Done, NEW grant \in merged.grants, NEW r \in Foreign(grant)
  PROVE  /\ \E in \in tree.ins : in.module = grant.owner /\ in.name = IamInput(r)
         /\ \E out \in tree.outs : out.module = r[2] /\ out.name = IamOutput(r)
<1> PICK own : own = Generated(merged)
  OBVIOUS
<1>1. Confined(merged, DOMAIN services, Hosts) /\ tree = Assembled(merged)
  BY DEF InsideInv, Done
<1>2. /\ tree.ins = Kept(Present(merged.ins), own.ins)
      /\ tree.outs = Kept(own.outs, Present(merged.outs))
  BY <1>1 DEF Assembled
<1>3. grant.owner \in DOMAIN services /\ Followed(grant)
  BY <1>1 DEF Confined, Hosts, GrantsFollowed, Done
<1>4. PICK in \in merged.ins : in.module = grant.owner /\ in.name = IamInput(r)
  BY <1>3 DEF Followed
<1>5. PICK out \in merged.outs : out.module = r[2] /\ out.name = IamOutput(r)
  BY <1>3 DEF Followed
<1>6. in \in Present(merged.ins) /\ out \in Present(merged.outs)
  BY <1>1, <1>4, <1>5 DEF Confined, Present
<1>7. in \in tree.ins
  BY <1>2, <1>6 DEF Kept
<1>8. \E x \in tree.outs : x.module = out.module /\ x.name = out.name
  BY <1>2, <1>6, KeptHas
<1>. QED  BY <1>4, <1>5, <1>7, <1>8

(* In a generated project every permission on a resource of another module is *)
(* complete: the role's module has the variable its policy reads, and the     *)
(* resource's module the output the variable is given.                        *)
THEOREM PermissionsWired == Spec => []GrantsWired
<1>1. InsideInv /\ GrantsFollowed => GrantsWired
  BY WiredAt DEF GrantsWired
<1>. QED  BY <1>1, Inside, PermissionsFollowed, PTL
=============================================================================
