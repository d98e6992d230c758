---------------------------- MODULE Contributions ----------------------------
(* What one connection adds to the Terraform modules of a project            *)
(* (ConnectionContribution), and the helpers its handlers build it with.     *)
(* A name is the tuple of its parts; a value is the set of module outputs it *)
(* reads, <<m, ...>> being the output <<...>> of m; a file or an output is   *)
(* known by the addresses and variables it uses, a file also by the          *)
(* addresses it declares.                                                    *)
EXTENDS Integers, Sequences, FiniteSets

CONSTANTS Instances,   \* names of resources
          Safe         \* safe_identifier: what a name is in an identifier

Nothing == [ins |-> {}, outs |-> {}, files |-> {}, grants |-> {}, marks |-> {}, refused |-> FALSE]
Rejected == [Nothing EXCEPT !.refused = TRUE]

(* ModuleInput: a variable of m, given the outputs in "from". *)
In(m, name, from) == [Nothing EXCEPT !.ins = {[module |-> m, name |-> name, from |-> from]}]

(* ModuleOutput: an output of m, computed from addresses and variables. *)
Out(m, name, from) == [Nothing EXCEPT !.outs = {[module |-> m, name |-> name, from |-> from]}]

(* ModuleResource: a file of m. *)
File(m, name, declares, uses) ==
  [Nothing EXCEPT !.files = {[module |-> m, name |-> name, declares |-> declares, uses |-> uses]}]

(* IAMGrant: a statement for the role of "owner", naming resources [type, instance, attribute]. *)
Grant(owner, on) == [Nothing EXCEPT !.grants = {[owner |-> owner, on |-> on]}]

(* A private field of another instance's configuration that its generator reads. *)
Mark(m, what) == [Nothing EXCEPT !.marks = {<<m, what>>}]
MarkFor(m, what, peer) == [Nothing EXCEPT !.marks = {<<m, what, peer>>}]

(* Several pieces of one contribution. *)
Joined(a, b) == [ins |-> a.ins \cup b.ins, outs |-> a.outs \cup b.outs, files |-> a.files \cup b.files,
                 grants |-> a.grants \cup b.grants, marks |-> a.marks \cup b.marks,
                 refused |-> a.refused \/ b.refused]
a \oplus b == Joined(a, b)
Total(A) == [ins |-> UNION {a.ins : a \in A}, outs |-> UNION {a.outs : a \in A},
             files |-> UNION {a.files : a \in A}, grants |-> UNION {a.grants : a \in A},
             marks |-> UNION {a.marks : a \in A}, refused |-> \E a \in A : a.refused]
Each(S, Op(_)) == Total({Op(x) : x \in S})
When(condition, a) == IF condition THEN a ELSE Nothing
Unless(refusal, a) == IF refusal THEN Rejected ELSE a

(* The variable a file or an output uses. *)
V(name) == <<"var">> \o name

(* Fault: the variable is named after what it holds only. *)
NamelessPeer(m, peer, suffix, output) == In(m, <<suffix>>, {<<peer, output>>})

(* BaseConnectionHandler._input: a variable named after the peer. *)
Peer(m, peer, suffix, output) == In(m, <<Safe[peer], suffix>>, {<<peer, output>>})

(* Data sources and resources of a file that carry the same label. *)
Labelled(types, label) == {<<type>> \o label : type \in types}
Identity(label) ==
  Labelled({"data.aws_partition", "data.aws_region", "data.aws_caller_identity"}, label)
-----------------------------------------------------------------------------
(* A connection: [n, source, target, kind, slot, fit, remote, other, refs].   *)
(*   n       its place in the diagram's connections                          *)
(*   kind    <<source service, target service, type>>                        *)
(*   slot    what it claims of its ends: a route, a field, a port, a key     *)
(*   fit     the configurations of both ends and its own pass the handler's  *)
(*           checks                                                          *)
(*   remote  its ends are deployed to different regions                      *)
(*   other   a third resource its settings name, such as a job definition    *)
(*   refs    what its settings name of other connections: endpoints, a mode  *)

Of(kind, P) == {P[i] : i \in {j \in DOMAIN P : P[j].kind = kind}}
Into(c, P) == {d \in Of(c.kind, P) : d.target = c.target}
OutOf(c, P) == {d \in Of(c.kind, P) : d.source = c.source}

(* "connection is not peers[0]": the first of its peers speaks for all. *)
Leads(c, peers) == \A d \in peers : c.n <= d.n
Speaks(c, peers, a) == IF Leads(c, peers) THEN a ELSE Nothing

(* The same connection drawn twice: ends, type and settings are alike. *)
Twin(d, e) ==
  /\ d.source = e.source /\ d.target = e.target /\ d.kind = e.kind
  /\ d.slot = e.slot /\ d.fit = e.fit /\ d.other = e.other /\ d.refs = e.refs

(* Two connections claim one slot, each for something else. *)
Clash(peers) == \E d, e \in peers : ~Twin(d, e) /\ d.slot = e.slot
Unfit(peers) == \E d \in peers : ~d.fit
Remote(peers) == \E d \in peers : d.remote
=============================================================================
