------------------------ MODULE ArchitectureInvocation ------------------------
(***************************************************************************)
(* From the description of one pass to what is published                   *)
(* (architecture_analysis/invocation.py, generation.py): a call without a  *)
(* cache, in a loop that generates tokens greedily.                        *)
(***************************************************************************)
EXTENDS ArchitectureGraph

-----------------------------------------------------------------------------
(* no_cache_invocation: the nodes that keep the cache go, and a state that *)
(* was extended is what this pass computed.                                *)

Bookkeeping ==
    {"select_layer_state", "state_concat", "key_value_state", "stack_layer_states"}
Kept(g) == {n \in g.nodes : n.op \notin Bookkeeping}

\* Mutant: an extended state is replaced by what was carried from the passes before.
Instead_Prior(n) == n.ins.prior_state
\* What stands for an extended state.
Instead(n) == n.ins.current

\* Without tokens of earlier passes.
ThisPass(s) == [k \in DOMAIN s |-> IF s[k] = PS THEN S ELSE s[k]]

\* The states are ports of the layers, of their attention and of the model.
StateRoles ==
    {"prior_key_state", "prior_value_state", "prior_q_conv_state", "prior_k_conv_state",
     "prior_v_conv_state", "prior_recurrent_state", "next_key_state", "next_value_state",
     "next_q_conv_state", "next_k_conv_state", "next_v_conv_state", "next_recurrent_state",
     "prior_state", "next_state"}

\* What stands for the references to what goes.
Bypass(g) ==
    [k \in {n.key : n \in {m \in g.nodes : m.op = "state_concat"}} |-> Instead(NodeOf(g, k))]
Now(bypass, v) ==
    LET s == IF v.node \in DOMAIN bypass THEN bypass[v.node] ELSE v
    IN  From(s.node, s.port, ThisPass(s.shape))

\* A node that is kept loses its ports of the cache.
Called(bypass, n) ==
    LET refs(f) == [p \in DOMAIN f \ StateRoles |-> Now(bypass, f[p])]
        called == [n EXCEPT !.ins = refs(@), !.outs = [p \in DOMAIN @ \ StateRoles |-> ThisPass(@[p])]]
    IN  IF IsGroup(n) THEN [called EXCEPT !.from = refs(@)] ELSE called

NoCache(g) ==
    LET bypass == Bypass(g)
    IN  [g EXCEPT !.nodes = {Called(bypass, n) : n \in Kept(g)}]

\* What it requires of the pass: no parameter goes, and what is kept reads nothing that goes
\* but an extended state, for which there is what this pass computed.
OfThisPass(g, v) == v.port \notin StateRoles /\ \E n \in Kept(g) : n.key = v.node
ReadBy(n) ==
    {n.ins[p] : p \in DOMAIN n.ins \ StateRoles} \cup
    (IF IsGroup(n) THEN {n.from[p] : p \in DOMAIN n.from \ StateRoles} ELSE {})
CacheApart(g) ==
    /\ IsGraph(g)
    /\ \A n \in g.nodes \ Kept(g) : Range(n.params) = {}
    /\ \A n \in Kept(g) : \A v \in ReadBy(n) : OfThisPass(g, v) \/ v.node \in DOMAIN Bypass(g)
    /\ \A n \in g.nodes : n.op = "state_concat" =>
          /\ "current" \in DOMAIN n.ins /\ OfThisPass(g, n.ins.current)
          /\ \A p \in DOMAIN n.outs : ThisPass(n.outs[p]) = ThisPass(n.ins.current.shape)

\* What this pass computes is not for the cache alone: that extends states by it, which this
\* pass reads.
CacheRead(g) ==
    /\ \A v \in Used(g) : OfThisPass(g, v) =>
          (\E n \in Kept(g) : v \in ReadBy(n)) \/ v \in Range(Bypass(g))
    /\ \A k \in DOMAIN Bypass(g) : \E n \in Kept(g) : \E v \in ReadBy(n) : v.node = k

-----------------------------------------------------------------------------
(* wrap_generation.  An interface names the group of the model and, for    *)
(* every role, the node or the port that has it.                           *)

Interface(model, boundary, roles) == [model |-> model, boundary |-> boundary, roles |-> roles]

Loop == <<<<>>, "generation">>
OfLoop(name, op, ins, outs) == NodeIn(Loop, name, op, ins, outs, <<>>)
Sequence(length) == <<B, length>>

\* The role that a reference to the interface means.
RoleOf(it, v) ==
    {r \in DOMAIN it.roles :
        IF it.boundary THEN v.node = it.model /\ v.port = it.roles[r]
        ELSE \/ v.node[2] = it.roles[r] /\ v.node[1] = <<>>
             \/ v.node = it.model /\ v.port = (IF r = "logits" THEN "out" ELSE r)}

\* A token is added to what the pass was given.
Updated == Sequence(S1)

\* What stands for the ports of the model, and goes: inputs and the output at the top.
Declared(g, it) ==
    IF it.boundary THEN {}
    ELSE {n \in g.nodes : n.key[1] = <<>> /\ n.key[2] \in Range(it.roles)}
Declaration(g, it, r) == CHOOSE n \in Declared(g, it) : n.key[2] = it.roles[r]
Remaining(g, it) == g.nodes \ (Declared(g, it) \cup {NodeOf(g, it.model)})

Prepared(it) == DOMAIN it.roles \ {"logits"}
RoleShape(g, it, r) ==
    IF it.boundary THEN NodeOf(g, it.model).ins[it.roles[r]].shape
    ELSE Declaration(g, it, r).outs.out

\* What the model computes: the input of its sink, or of its own output.
Result(g, it) ==
    LET from == NodeOf(g, it.model).from
        x == Declaration(g, it, "logits").ins.x
    IN  IF it.boundary THEN from[it.roles.logits]
        ELSE IF x.node = it.model THEN from[x.port] ELSE x

LoopNames == {"sequence", "prepare", "select", "append", "generation"}

\* The nodes of the loop, in the order in which a sequence passes them.
SequenceState ==
    OfLoop("sequence", "generation_sequence_state",
           [initial |-> From(Loop, "prompt_ids", Sequence(Si)),
            next |-> From(<<<<>>, "append">>, "updated", Updated)],
           [current |-> Sequence(S), final |-> Sequence(Sf)])
PrepareInputs(g, it) ==
    OfLoop("prepare", "generation_prepare_inputs", [sequence |-> Port(SequenceState, "current")],
           [r \in Prepared(it) |-> RoleShape(g, it, r)])
OnePass(g, it) ==
    LET inputs == [r \in Prepared(it) |-> Port(PrepareInputs(g, it), r)]
    IN  With(Group(it.model, Loop, inputs, [logits |-> Result(g, it)]), NodeOf(g, it.model).params)
GreedyNextToken(g, it) ==
    OfLoop("select", "generation_greedy_next_token", [logits |-> Port(OnePass(g, it), "logits")],
           [token |-> <<B, 1>>])
AppendToken(g, it) ==
    OfLoop("append", "generation_append_token",
           [sequence |-> Port(PrepareInputs(g, it), "tokens"),
            token |-> Port(GreedyNextToken(g, it), "token")], [updated |-> Updated])
GenerationLoop ==
    Group(Loop, Nowhere, [prompt_ids |-> From(Loop, "prompt_ids", Sequence(Si))],
          [token_ids |-> Port(SequenceState, "final")])
LoopNodes(g, it) ==
    {SequenceState, PrepareInputs(g, it), OnePass(g, it), GreedyNextToken(g, it),
     AppendToken(g, it), GenerationLoop}

\* The rest refers to the ports of the model.
Meant(it, v) ==
    LET roles == RoleOf(it, v)
    IN  IF roles = {} THEN v ELSE From(it.model, CHOOSE r \in roles : TRUE, v.shape)
Renamed(it, n) ==
    LET refs(ports) == [p \in DOMAIN ports |-> Meant(it, ports[p])]
    IN  IF IsGroup(n) THEN [n EXCEPT !.ins = refs(@), !.from = refs(@)]
        ELSE [n EXCEPT !.ins = refs(@)]

Generating(g, it) ==
    [g EXCEPT !.nodes = {Renamed(it, n) : n \in Remaining(g, it)} \cup LoopNodes(g, it),
              !.results = {Loop}]

-----------------------------------------------------------------------------
(* What wrap_generation supposes of a pass and of its interface, of which  *)
(* it checks itself that the model is a group and the shape of its tokens. *)

\* A reference that means a role comes from a member of the model and has the shape of the
\* role, and there is no other way into the model.
Enters(g, it, n, v) ==
    /\ v.node = it.model => RoleOf(it, v) # {}
    /\ \A r \in RoleOf(it, v) :
          r # "logits" /\ n.parent = it.model /\ v.shape = RoleShape(g, it, r)

\* The model is a group of its own, which together with the declarations is all that is at
\* the top; its one result is made inside it.
ModelBoundary(g, it) ==
    LET model == NodeOf(g, it.model)
        result == Result(g, it)
    IN  /\ model \in g.nodes /\ model.key = it.model /\ IsGroup(model) /\ model.parent = Nowhere
        /\ Offered(g, it.model, result) = {result.shape} /\ result.node # it.model
        /\ result.node \notin {n.key : n \in Declared(g, it)}
        /\ \A p \in DOMAIN model.from :
              model.from[p].node = result.node /\ model.from[p].port = result.port
        /\ \A n \in Declared(g, it) :
              /\ ~IsGroup(n) /\ Range(n.params) = {}
              /\ \A p \in DOMAIN n.ins : n.ins[p] = result \/ n.ins[p].node = it.model
        /\ \A n \in Remaining(g, it) :
              /\ n.parent # Nowhere /\ n.key \notin g.results
              /\ \A p \in DOMAIN n.ins : Enters(g, it, n, n.ins[p])
              /\ IsGroup(n) => \A p \in DOMAIN n.from :
                    RoleOf(it, n.from[p]) = {}

\* Nothing has yet the names or the operations of the loop, and nothing carries a state.
Unwrapped(g) ==
    \A n \in g.nodes :
        /\ n.key \notin {<<<<>>, name>> : name \in LoopNames}
        /\ n.op \notin Generation \cup Bookkeeping \cup {"concatenate_prior_kv"}

\* The roles and the shapes of what is prepared, by convention.
PreparedRoles ==
    {{"tokens", "positions", "mask"}, {"tokens", "positions", "mask", "current_mask"},
     {"tokens", "mask", "current_mask"}}
PreparedShapes(roles) ==
    CASE roles = {"tokens", "positions", "mask"} ->
           [tokens |-> <<B, S>>, positions |-> <<B, S>>, mask |-> <<B, 1, S, S>>]
      [] roles = {"tokens", "positions", "mask", "current_mask"} ->
           [tokens |-> <<B, S>>, positions |-> <<3, B, S>>, mask |-> <<B, S>>,
            current_mask |-> <<B, S>>]
      [] roles = {"tokens", "mask", "current_mask"} ->
           [tokens |-> <<B, S>>, mask |-> <<B, 1, S, S>>, current_mask |-> <<B, S>>]

Wrappable(g, it) ==
    /\ IsGraph(g) /\ Unwrapped(g) /\ ModelBoundary(g, it)
    /\ Prepared(it) \in PreparedRoles
    /\ [r \in Prepared(it) |-> RoleShape(g, it, r)] = PreparedShapes(Prepared(it))
    /\ Len(Result(g, it).shape) = 3 /\ SubSeq(Result(g, it).shape, 1, 2) = Sequence(S)

\* What is published for a pass: it is wrapped when it has an interface.
PublishedOf(pass, interfaces) ==
    IF interfaces = {} THEN pass ELSE Generating(pass, CHOOSE it \in interfaces : TRUE)

-----------------------------------------------------------------------------
(* validate_generation: one finite pattern is recognized.                  *)

\* The ports of the loop and what connects them.
Cycle(state, prepare, select, append, model) ==
    /\ state.ins = [initial |-> From(Loop, "prompt_ids", Sequence(Si)), next |-> Port(append, "updated")]
    /\ prepare.ins = [sequence |-> Port(state, "current")]
    /\ DOMAIN prepare.outs \in PreparedRoles /\ prepare.outs = PreparedShapes(DOMAIN prepare.outs)
    /\ model.ins = [r \in DOMAIN prepare.outs |-> Port(prepare, r)]
    /\ select.ins = [logits |-> Port(model, "logits")]
    /\ Len(model.outs.logits) = 3 /\ SubSeq(model.outs.logits, 1, 2) = state.outs.current
    /\ append.ins = [sequence |-> Port(prepare, "tokens"), token |-> Port(select, "token")]
    /\ append.outs.updated = Sequence(S1)

\* The loop has these members and no other.  Nothing of what is carried from call to call is
\* left, and the loop is reached through the model only.
Recognized(g) ==
    LET members == {n \in g.nodes : n.parent = Loop}
        of(op) == {n \in members : n.op = op}
    IN  \E state \in of("generation_sequence_state"), prepare \in of("generation_prepare_inputs"),
           select \in of("generation_greedy_next_token"), append \in of("generation_append_token"),
           model \in of("group") :
            /\ members = {state, prepare, select, append, model}
            /\ Cycle(state, prepare, select, append, model)
            /\ \A n \in g.nodes :
                  /\ n.op \notin Bookkeeping \cup {"concatenate_prior_kv"}
                  /\ n \notin members =>
                        \A p \in DOMAIN n.ins :
                            n.ins[p].node \notin {state.key, prepare.key, select.key, append.key}
=============================================================================
