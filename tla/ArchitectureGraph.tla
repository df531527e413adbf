-------------------------- MODULE ArchitectureGraph --------------------------
(***************************************************************************)
(* The vocabulary of the packaged architecture descriptions                *)
(* (backend/src/llm_model_explorer/architecture_analysis): nodes with      *)
(* shaped ports, connections, groups and parameters, what                  *)
(* validation.py requires of a graph, and what the operations named in the *)
(* descriptions do to shapes, which nothing in the code checks.            *)
(*                                                                         *)
(* A description writes down, for a configuration, every intermediate      *)
(* shape by hand.  Labels, formulas, attributes and provenance are left    *)
(* out.                                                                    *)
(***************************************************************************)
EXTENDS Integers, SequencesExt, FiniteSetsExt

\* A dimension is a number, or one of the symbols, which are negative: batch, tokens of
\* this pass, tokens before it, both, batch + 1, the tokens that are not padding, and the
\* tokens that the router sends to expert e of layer i.
B == -1
S == -2
P == -3
PS == -4
B1 == -5
T == -6
Si == -7   \* the length of the prompt,
Sf == -8   \* of the whole sequence at the end,
S1 == -9   \* and of this pass with the next token
C == -10   \* the candidates of a decision,
Ss == -11  \* the tokens of a state and of a candidate,
Sc == -12
O == -13   \* the options of a question,
L == -14   \* and the tokens of a request
Fr == -20  \* the frames, the height and the width of a video,
Hi == -21
Wi == -22
Fe == -23  \* its frames when a short one is repeated,
Dg == -24  \* its grid of patches,
Hg == -25
Wg == -26
N == -27   \* all of them, those of the context, those of the targets,
Cx == -28
Tg == -29
CT == -30  \* and the context followed by the targets
A == -31   \* the samples of a voice
Lt == -10041  \* the frames, the height and the width of what a video is generated from,
Lh == -10042
Lw == -10043
Iy == -10044  \* and the height and the width of its first image
Ix == -10045
Routed(i, e) == -(10 + 100 * i + e)

\* A node is known by where it is (<<>>, <<layer>> or <<layer, expert>>) and its name.
\* An input port is connected to one output; its shape is what the description says of it.
From(key, port, shape) == [node |-> key, port |-> port, shape |-> shape]
Port(n, port) == From(n.key, port, n.outs[port])
Out(n) == Port(n, "out")

NodeIn(group, name, op, ins, outs, params) ==
    [key |-> <<group[1], name>>, parent |-> group, op |-> op,
     ins |-> ins, outs |-> outs, params |-> params]

Op(group, name, op, ins, out) == NodeIn(group, name, op, ins, [out |-> out], <<>>)
Then(group, name, op, n) == Op(group, name, op, [x |-> Out(n)], n.outs.out)
With(n, params) == [n EXCEPT !.params = params]

\* A group shows its inputs to its members and takes its outputs from them.
Group(key, parent, ins, outs) ==
    [key |-> key, parent |-> parent, op |-> "group", ins |-> ins,
     outs |-> [p \in DOMAIN outs |-> outs[p].shape], from |-> outs, params |-> <<>>]
Inside(key, ins) == [p \in DOMAIN ins |-> From(key, p, ins[p].shape)]

\* The ports of an operation on all layers, or on all experts.
LayerPort == <<"layer_0", "layer_1", "layer_2", "layer_3">>
ValuesPort == <<"values_0", "values_1", "values_2">>
PositionsPort == <<"positions_0", "positions_1", "positions_2">>

\* A part of a model: its group and all the nodes.
Part(group, nodes) == [group |-> group, nodes |-> nodes \cup {group}]

\* Weights are named by the node that has them.
Weight(key) == <<key[1], key[2], "weight">>
Bias(key) == <<key[1], key[2], "bias">>
Linear(group, name, x, out) ==
    LET n == Op(group, name, "linear", [x |-> x], Append(Front(x.shape), out))
    IN  With(n, <<Weight(n.key)>>)
Norm(group, name, x) ==
    LET n == Op(group, name, "rms_norm", [x |-> x], x.shape)
    IN  With(n, <<Weight(n.key)>>)

\* The feed-forward network of every decoder, a group of its own.
GatedMlp(key, parent, x, width) ==
    LET in == Inside(key, [x |-> x]).x
        gate == Linear(key, "gate_proj", in, width)
        up == Linear(key, "up_proj", in, width)
        silu == Then(key, "silu", "silu", gate)
        product == Op(key, "gated_product", "multiply", [gate |-> Out(silu), up |-> Out(up)],
                      Append(Front(x.shape), width))
        down == Linear(key, "down_proj", Out(product), Last(x.shape))
    IN  Part(Group(key, parent, [x |-> x], [out |-> Out(down)]), {gate, up, silu, product, down})

Nowhere == <<<<>>, "nowhere">>   \* the parent of what is in no group
NoPorts == [p \in {} |-> {}]
Input(name, shape) == Op(Nowhere, name, "input", NoPorts, shape)

\* The description of one model as a part of another: some nodes elsewhere, some symbols
\* other ones.
Placed(place, key) == IF key \in DOMAIN place THEN place[key] ELSE key
Copied(nodes, place, symbols) ==
    LET dims(s) == [k \in DOMAIN s |-> IF s[k] \in DOMAIN symbols THEN symbols[s[k]] ELSE s[k]]
        ref(v) == From(Placed(place, v.node), v.port, dims(v.shape))
        refs(ports) == [p \in DOMAIN ports |-> ref(ports[p])]
        moved(n) == [n EXCEPT !.key = Placed(place, @), !.parent = Placed(place, @), !.ins = refs(@),
                              !.outs = [p \in DOMAIN @ |-> dims(@[p])]]
    IN  {IF n.op = "group" THEN [moved(n) EXCEPT !.from = refs(@)] ELSE moved(n) : n \in nodes}

-----------------------------------------------------------------------------
(* Graphs.  weights maps the name of a parameter to its logical shape.     *)

Merged(functions) == FoldLeft(LAMBDA f, h : f @@ h, <<>>, functions)
Named(at, shapes) ==
    [w \in {Weight(<<at, name>>) : name \in DOMAIN shapes} |-> shapes[w[2]]]
MlpShapes(hidden, width) ==
    [gate_proj |-> <<width, hidden>>, up_proj |-> <<width, hidden>>,
     down_proj |-> <<hidden, width>>]

NoGraph == [nodes |-> {}, weights |-> <<>>, results |-> {}]
NodeFields(n) ==
    {"key", "parent", "op", "ins", "outs", "params"} \cup (IF n.op = "group" THEN {"from"} ELSE {})
IsGraph(g) ==
    /\ DOMAIN g = {"nodes", "weights", "results"}
    /\ \A n \in g.nodes : DOMAIN n = NodeFields(n) /\ n.key # Nowhere
NodeOf(g, key) == CHOOSE n \in g.nodes : n.key = key
IsGroup(n) == n.op = "group"

\* What is offered under a reference, to a node with that parent: the outputs of a
\* sibling, or the inputs of the group it is in.
Offered(g, parent, v) ==
    IF v.node = parent
    THEN LET group == NodeOf(g, parent)
         IN  IF v.port \in DOMAIN group.ins THEN {group.ins[v.port].shape} ELSE {}
    ELSE LET sources == {n \in g.nodes : n.key = v.node /\ n.parent = parent}
         IN  {n.outs[v.port] : n \in {m \in sources : v.port \in DOMAIN m.outs}}

\* validate_graph: identities are unique, parents are groups, endpoints exist, no edge
\* bypasses a group boundary, connected dimensions agree, parameters are known.  The
\* shapes of the two ends agree exactly, symbols included: mismatch() asks this of
\* numbers only.  The inputs of the whole model may be ports of its group, which nothing is
\* connected to.
Wired(n) == {p \in DOMAIN n.ins : n.ins[p].node # n.key}
Connected(g) ==
    /\ \A n, m \in g.nodes : n.key = m.key => n = m
    /\ \A n \in g.nodes :
          /\ n.parent = Nowhere \/ \E m \in g.nodes : m.key = n.parent /\ IsGroup(m)
          /\ \A p \in Wired(n) : Offered(g, n.parent, n.ins[p]) = {n.ins[p].shape}
          /\ IsGroup(n) => \A p \in DOMAIN n.from :
                Offered(g, n.key, n.from[p]) = {n.from[p].shape}
          /\ Range(n.params) \subseteq DOMAIN g.weights

\* The references of all the connections.
Used(g) ==
    (UNION {{n.ins[p] : p \in DOMAIN n.ins} : n \in g.nodes}) \cup
    (UNION {{n.from[p] : p \in DOMAIN n.from} : n \in {m \in g.nodes : IsGroup(m)}})

\* Nothing that is computed is dropped, and every parameter that the description expects
\* of a checkpoint belongs to an operation.
Complete(g) ==
    /\ \A n \in g.nodes : \A p \in DOMAIN n.outs :
          \/ \E v \in Used(g) : v.node = n.key /\ v.port = p
          \/ n.op = "input" \/ n.key \in g.results
    /\ \A w \in DOMAIN g.weights : \E n \in g.nodes : w \in Range(n.params)
-----------------------------------------------------------------------------
(* What the operations do to shapes.                                       *)

Numbers(s) == SelectSeq(s, LAMBDA d : d > 0)
Symbols(s) == SelectSeq(s, LAMBDA d : d < 0)
Volume(s) == FoldLeft(LAMBDA a, d : a * d, 1, Numbers(s))
Count(s, d) == Cardinality({k \in DOMAIN s : s[k] = d})

\* A reshape keeps the order of the symbols, a transposition need not.
SameVolume(s, t) == Volume(s) = Volume(t) /\ Symbols(s) = Symbols(t)
SameElements(s, t) == \A d \in Range(s) \cup Range(t) : Count(s, d) = Count(t, d)
Rearranged(s, t) ==
    /\ Volume(s) = Volume(t)
    /\ SameElements(Symbols(s), Symbols(t))

SumOver(shapes, ports) == FoldSet(LAMBDA p, a : Last(shapes[p]) + a, 0, ports)

\* Parts that share all dimensions but the last, which add up to that of the whole.
PartsOf(whole, parts) ==
    /\ \A p \in DOMAIN parts : Front(parts[p]) = Front(whole)
    /\ Last(whole) = SumOver(parts, DOMAIN parts)

\* The same with heads: the heads of every part are flattened.
FlatLast(s, keep) == Append(SubSeq(s, 1, keep), Volume(SubSeq(s, keep + 1, Len(s))))

(* The operations, by what they do.  in, outs and w are the shapes of the  *)
(* inputs, of the outputs and of the parameters of a node.                 *)

Elementwise ==
    {"silu", "sigmoid", "softmax", "scale", "add_mask", "logits", "normalize",
     "rotary_position", "padding_mask", "l2_normalize", "log_decay", "rms_norm",
     "rms_norm_gated", "key_value_state", "layer_norm", "gelu", "relu", "encoder_normalize",
     "temperature", "rotary_3d", "gelu_tanh"}
Guides == {"mask", "cos", "sin", "positions"}

\* A mask has one row for all heads.
Masks(mask, x) == Len(mask) = Len(x) => \A k \in DOMAIN x : mask[k] \in {1, x[k]}

Scalar == <<>>
ElementwiseFollows(in, outs, w) ==
    /\ \A p \in DOMAIN in \ Guides : in[p] \in {outs.out, Scalar}
    /\ \A k \in DOMAIN w : w[k] = <<Last(outs.out)>>
    /\ \A p \in DOMAIN in \cap {"cos", "sin"} : Last(in[p]) = Last(outs.out)
    /\ "mask" \in DOMAIN in => Masks(in.mask, outs.out)

\* A weight per token multiplies the whole vector of the token.
Joining == {"add", "residual_add", "multiply", "mask_invalid"}
JoiningFollows(in, outs, w) ==
    /\ \A p \in DOMAIN in : in[p] = outs.out \/ (p = "routing_weights" /\ in[p] = Front(outs.out))
    /\ \A k \in DOMAIN w : w[k] = <<Last(outs.out)>>

\* The weights of a gated network, whole in one operation.
IsGated(w, hidden) == w[1] = w[2] /\ w[3] = Reverse(w[1]) /\ w[1][2] = hidden

Linears == {"linear", "A", "B", "q", "k"}
Products ==
    Linears \cup {"embedding", "matmul", "attention_product", "swiglu_mlp", "rotary_table",
                  "scaled_query_key_product", "attention_value_product"}
MatrixProduct(a, b, out) ==
    LET r == Len(out)
    IN  /\ Front(a) = Front(out) /\ a[r] = b[r - 1] /\ b[r] = out[r]
        /\ SubSeq(b, 1, r - 2) = SubSeq(out, 1, r - 2)
SwapLast(s) == SubSeq(s, 1, Len(s) - 2) \o <<s[Len(s)], s[Len(s) - 1]>>
ProductFollows(op, in, outs, w) ==
    CASE op \in Linears ->
           /\ Front(in.x) = Front(outs.out) /\ w[1] = <<Last(outs.out), Last(in.x)>>
           /\ \A k \in DOMAIN w : k > 1 => w[k] = <<Last(outs.out)>>
      [] op = "embedding" -> \E p \in DOMAIN in : outs.out = Append(in[p], w[1][2])
      [] op = "rotary_table" -> Front(outs.out) = in.positions
      [] op = "swiglu_mlp" -> outs.out = in.x /\ IsGated(w, Last(in.x))
      [] op = "matmul" ->
           \/ "q" \in DOMAIN in /\ MatrixProduct(in.q, in.kt, outs.out)
           \/ "p" \in DOMAIN in /\ MatrixProduct(in.p, in.v, outs.out)
      [] op = "scaled_query_key_product" -> MatrixProduct(in.query, SwapLast(in.key), outs.out)
      [] op = "attention_value_product" -> MatrixProduct(in.probabilities, in.value, outs.out)
      [] op = "attention_product" ->
           \/ "query" \in DOMAIN in /\ MatrixProduct(in.query, SwapLast(in.key), outs.out)
           \/ "values" \in DOMAIN in /\ MatrixProduct(in.probabilities, in.values, outs.out)

Reshaping ==
    {"reshape", "transpose", "reshape_transpose", "split", "split_reshape", "concat",
     "repeat_kv", "repeat_key_heads", "split_heads_transpose", "transpose_merge_heads"}
\* What has no last dimension is one column of the whole.
Column(s, whole) == IF Len(s) < Len(whole) THEN Append(s, 1) ELSE s
RepeatsAlong(axis, x, out) == [x EXCEPT ![axis] = 1] = [out EXCEPT ![axis] = 1] /\ out[axis] % x[axis] = 0
ReshapingFollows(op, in, outs) ==
    CASE op = "reshape" -> SameVolume(in.x, outs.out)
      [] op = "transpose" -> SameElements(in.x, outs.out) /\ Len(in.x) = Len(outs.out)
      [] op \in {"reshape_transpose", "split_heads_transpose", "transpose_merge_heads"} -> Rearranged(in.x, outs.out)
      [] op = "split" -> PartsOf(in.x, outs)
      [] op = "split_reshape" ->
           PartsOf(in.x, [p \in DOMAIN outs |-> FlatLast(outs[p], 2)])
      [] op = "concat" ->
           \/ "latent" \notin DOMAIN in /\ PartsOf(outs.out, [p \in DOMAIN in |-> Column(in[p], outs.out)])
           \/ "latent" \in DOMAIN in /\ outs.out = [in.latent EXCEPT ![2] = @ + in.image[2]]
      [] op = "repeat_kv" -> RepeatsAlong(2, in.x, outs.out)
      [] op = "repeat_key_heads" -> RepeatsAlong(3, in.x, outs.out)

\* What is carried from one pass to the next: the keys of a pass follow those before it,
\* along the third axis; the other states keep their shape.
Carrying ==
    {"concatenate_prior_kv", "state_concat", "convolution", "short_convolution",
     "gated_delta_rule", "kda_delta_state_update", "kda_decay_gate",
     "select_layer_state", "stack_layer_states"}
Extended(prior, now) ==
    [now EXCEPT ![3] = IF prior[3] = P /\ now[3] = S THEN PS ELSE prior[3] + now[3]]
KeepsState(in, outs) == "next_state" \in DOMAIN outs => outs.next_state = in.prior_state
CarryingFollows(op, in, outs, w) ==
    CASE op = "concatenate_prior_kv" ->
           /\ outs.key_state = Extended(in.prior_key_state, in.key)
           /\ outs.value_state = Extended(in.prior_value_state, in.value)
      [] op = "state_concat" ->
           /\ outs.out = Extended(in.prior_state, in.current)
           /\ [in.prior_state EXCEPT ![3] = S] = in.current
      [] op = "select_layer_state" -> in.state_bank[1] > 0 /\ outs.out = Tail(in.state_bank)
      [] op = "stack_layer_states" ->
           \A k \in DOMAIN in : outs.out = <<Cardinality(DOMAIN in)>> \o in[k]
      [] op = "convolution" ->
           /\ outs.out = in.x /\ w[1][1] = in.x[2] /\ w[1][2] = 1
           /\ "prior_state" \in DOMAIN in => in.prior_state = <<in.x[1], w[1][1], w[1][3]>>
           /\ KeepsState(in, outs)
      [] op = "short_convolution" ->
           /\ outs.out = in.x /\ SubSeq(w[1], 1, 2) = <<Last(in.x), 1>> /\ KeepsState(in, outs)
           /\ "prior_state" \in DOMAIN in => in.prior_state = <<B, Last(in.x), w[1][3] - 1>>
      [] op = "gated_delta_rule" ->
           /\ in.query = in.key /\ Front(in.key) = Front(in.value)
           /\ in.beta = Front(in.value) /\ Front(in.log_decay) = Front(in.beta)
           /\ in.prior_state = <<outs.out[1], outs.out[3], Last(in.key), Last(in.value)>>
           /\ outs.out = in.value /\ KeepsState(in, outs)
      [] op = "kda_decay_gate" ->
           /\ SameVolume(in.raw_gate, outs.out) /\ w[2] = <<Last(in.raw_gate)>>
           /\ w[1] = <<1, 1, outs.out[3], 1>>
      [] op = "kda_delta_state_update" ->
           /\ {in.q, in.k, in.v, in.decay} = {outs.out} /\ in.beta = Front(outs.out)
           /\ "prior_state" \in DOMAIN in =>
                 in.prior_state = <<B, outs.out[3], outs.out[4], outs.out[4]>>
           /\ KeepsState(in, outs)

\* The routed experts, and the sequences without their padding.
Routing ==
    {"topk_selection", "group_topk_score_sum", "group_expert_mask", "gather",
     "symbolic_expert_dispatch", "routed_swiglu_expert", "weighted_scatter_sum",
     "weighted_swiglu_mlp", "symbolic_expert_dispatch_execute_scatter_sum",
     "compact_valid_tokens", "restore_padding"}
\* Out of the last dimension some are chosen.
Chooses(x, out) == Front(out) = Front(x) /\ Last(out) <= Last(x)
\* The indices and the weights of the chosen experts of every token.
Routes(in) ==
    in.expert_indices = in.expert_weights /\ Front(in.expert_indices) = Front(in.hidden_states)
\* A row for each token that is sent to the expert, and where it comes from.
Sent(tokens, positions, hidden) ==
    positions = <<tokens[1], Len(hidden) - 1>> /\ Tail(tokens) = <<Last(hidden)>>
RoutingFollows(op, in, outs, w) ==
    CASE op = "topk_selection" ->
           /\ \A p \in DOMAIN outs : Chooses(in.scores, outs[p])
           /\ \A k \in DOMAIN w : w[k] = <<Last(in.scores)>>
      [] op = "group_topk_score_sum" ->
           Chooses(in.scores, outs.out) /\ Last(in.scores) % Last(outs.out) = 0
      [] op = "group_expert_mask" -> Front(in.group_indices) = Front(outs.out)
      [] op = "gather" -> in.indices = outs.out /\ Chooses(in.scores, outs.out)
      [] op = "symbolic_expert_dispatch" ->
           /\ Routes(in) /\ Sent(outs.tokens, outs.positions, in.hidden_states)
           /\ outs.weights = Front(outs.tokens)
      [] op = "routed_swiglu_expert" ->
           /\ Routes(in) /\ Sent(outs.expert_values, outs.positions, in.hidden_states)
           /\ IsGated(w, Last(in.hidden_states))
      [] op = "weighted_scatter_sum" ->
           \A e \in 1..(Cardinality(DOMAIN in) \div 2) :
               Sent(in[ValuesPort[e]], in[PositionsPort[e]], outs.out)
      [] op = "weighted_swiglu_mlp" -> IsGated(w, w[1][2])
      [] op = "symbolic_expert_dispatch_execute_scatter_sum" ->
           Routes(in) /\ outs.out = in.hidden_states
      [] op = "compact_valid_tokens" ->
           /\ in.padding_mask = Front(in.padded_hidden_states)
           /\ outs.compact_hidden_states = <<1, T, Last(in.padded_hidden_states)>>
           /\ outs.token_indices = <<T>> /\ outs.sequence_offsets = <<B1>>
      [] op = "restore_padding" ->
           /\ in.compact_output = <<1>> \o in.token_indices \o <<Last(outs.out)>>
           /\ Front(outs.out) = <<B, S>>

\* The loop of generation: the sequence grows by the token that was chosen.
Generation ==
    {"generation_sequence_state", "generation_prepare_inputs", "generation_greedy_next_token",
     "generation_append_token"}
GenerationFollows(op, in, outs) ==
    CASE op = "generation_sequence_state" ->
           /\ Cardinality({in.initial, outs.current, in.next, outs.final}) = 4
           /\ {Front(s) : s \in {in.initial, in.next, outs.final}} = {Front(outs.current)}
      [] op = "generation_prepare_inputs" -> outs.tokens = in.sequence
      [] op = "generation_greedy_next_token" -> outs.token = <<in.logits[1], 1>>
      [] op = "generation_append_token" ->
           /\ Front(in.sequence) = Front(outs.updated) /\ in.token = Append(Front(in.sequence), 1)
           /\ Last(outs.updated) = S1 /\ Last(in.sequence) = S

\* What is read of a sequence for a decision.
Deciding ==
    {"last_token_pool", "dot_product", "exp_clamp", "decide", "options", "dot",
     "kev_request_encoding", "independent_causal_rows"}
DecidingFollows(op, in, outs, w) ==
    CASE op = "last_token_pool" ->
           in.lengths = <<in.x[1]>> /\ outs.out = Append(in.lengths, in.x[3])
      [] op = "dot_product" ->
           /\ Last(in.state) = Last(in.candidates)
           /\ outs.out = Front(in.state) \o Front(in.candidates)
      [] op = "exp_clamp" -> outs.out = w[1] /\ w[1] = Scalar
      [] op \in {"decide", "options"} ->
           in.index[1] = in.x[1] /\ outs.out = Append(in.index, Last(in.x))
      [] op = "dot" ->
           /\ Last(in.q) = Last(in.k) /\ Front(in.q) = SubSeq(in.k, 1, Len(in.q) - 1)
           /\ outs.out = Front(in.k)
      [] op = "kev_request_encoding" ->
           /\ Cardinality({outs[p] : p \in {"ids", "seg", "pos", "opt"}}) = 1
           /\ outs.decide_idx = Front(outs.opt_idx)
      [] op = "independent_causal_rows" ->
           /\ outs.row_decide_idx = in.decide_idx /\ outs.row_opt_idx = in.opt_idx
           /\ Front(outs.tokens) = in.decide_idx /\ outs.current_mask = outs.tokens
           /\ Tail(outs.positions) = outs.tokens /\ Front(outs.mask) = in.decide_idx

\* A video and its patches.  What is chosen is indexed per item of the batch, and what is
\* joined is cut apart again.
Patching ==
    {"permute_repeat_short_clip", "patch_projection_3d", "flatten_spatiotemporal_transpose",
     "raster_position_indices", "gather_context_representations",
     "gather_target_representations", "select_repeat_target_mask_token",
     "concatenate_context_target", "concatenate_position_indices", "sort_tokens_by_position",
     "restore_context_target_order", "select_target_suffix"}
PatchingFollows(op, in, outs, w) ==
    CASE op = "permute_repeat_short_clip" ->
           LET v == in.video IN outs.out = <<v[1], v[3], Fe, v[4], v[5]>> /\ v[2] = Fr
      [] op = "patch_projection_3d" ->
           /\ in.video[2] = w[1][2] /\ w[2] = <<w[1][1]>> /\ w[1][4] = w[1][5]
           /\ outs.out = <<in.video[1], w[1][1], Dg, Hg, Wg>>
      [] op = "flatten_spatiotemporal_transpose" ->
           /\ SubSeq(in.x, 3, 5) = <<Dg, Hg, Wg>> /\ outs.out = <<in.x[1], N, in.x[2]>>
      [] op = "raster_position_indices" -> outs.out = <<in.tokens[2]>>
      [] op \in {"gather_context_representations", "gather_target_representations"} ->
           in.indices[1] = in.x[1] /\ outs.out = Append(in.indices, Last(in.x))
      [] op = "select_repeat_target_mask_token" -> outs.out = Append(in.indices, w[1][4])
      [] op \in {"concatenate_context_target", "concatenate_position_indices"} ->
           /\ in.context[2] = Cx /\ in.target = [in.context EXCEPT ![2] = Tg]
           /\ outs.out = [in.context EXCEPT ![2] = CT]
      [] op = "sort_tokens_by_position" ->
           /\ outs.tokens = in.x /\ in.positions = Front(in.x)
           /\ outs.sorted_positions = in.positions /\ outs.order = in.positions
      [] op = "restore_context_target_order" -> outs.out = in.x /\ in.order = Front(in.x)
      [] op = "select_target_suffix" ->
           /\ in.x[2] = CT /\ in.context_indices[2] = Cx /\ outs.out = [in.x EXCEPT ![2] = Tg]

\* A prompt, a voice, and the codes of the frames of an audio.
Speaking ==
    {"tokenizer", "speaker_encoder", "speech_conditioning", "sequence_positions", "causal_mask",
     "codec_selection", "codebook_prefix", "indexed_linear", "sequential_codebook_generation"}
SpeakingFollows(op, in, outs, w) ==
    CASE op = "tokenizer" -> outs.out = Append(in.text, S)
      [] op = "speaker_encoder" ->
           Front(outs.out) = Front(in.audio) /\ \A k \in DOMAIN w : w[k] = <<Last(outs.out)>>
      [] op = "speech_conditioning" ->
           /\ outs.out = in.text /\ in.speaker = <<in.text[1], Last(in.text)>>
           /\ in.audio = <<in.text[1], A>>
      [] op = "sequence_positions" -> outs.out = Front(in.x)
      [] op = "causal_mask" -> outs.out = <<in.x[1], 1, in.x[2], in.x[2]>>
      [] op = "codec_selection" -> outs.out = Front(in.logits)
      [] op = "codebook_prefix" -> in.first_code = in.hidden /\ outs.out = [in.hidden EXCEPT ![2] = C]
      [] op = "indexed_linear" ->
           /\ Front(outs.out) = Front(in.x)
           /\ \A k \in DOMAIN w : w[k] = <<Last(outs.out), Last(in.x)>>
      [] op = "sequential_codebook_generation" ->
           /\ in.logits[2] = C /\ outs.out = <<in.logits[1], S, Len(w)>>
           /\ \A k \in DOMAIN w : w[k][1] = Last(in.logits)

\* A video is generated from frames shorter than its own by powers of two: such a length is
\* a symbol and how often it was doubled.  Along time the frames after the first are doubled
\* or halved, and of a number it is known what is left of it.
Doubled(d, times) == d - 1000 * times
Halved(d, times, temporal) ==
    IF d < 0 THEN Doubled(d, -times)
    ELSE IF temporal THEN (d - 1) \div (2 ^ times) + 1 ELSE d \div (2 ^ times)
\* How often a length was doubled between two shapes, where it is known.
Doublings(d, e) == IF d < 0 THEN {k \in -4..4 : e = Doubled(d, k)} ELSE IF d = e THEN {-1, 0} ELSE {}
\* The number of cells that one becomes, as a power of two.
Cells(s, t) ==
    {a + b + c : a \in Doublings(s[3], t[3]), b \in Doublings(s[4], t[4]), c \in Doublings(s[5], t[5])}

\* The latents of a video are denoised as a whole, and so are its channels.
Holding ==
    {"image_normalization", "video_output_range", "latent_normalization", "latent_denormalization",
     "pixel_norm", "rms_norm_channels", "decode_noise_blend", "condition_initial_latents",
     "scheduler_step", "classifier_free_guidance", "timestep_expert_selection", "latent_state",
     "decode_when_schedule_complete", "iteration_index", "symbolic_solver_history",
     "solver_history_update", "conditioned_token_timesteps", "latent_to_pixel_coordinates"}
Held ==
    {"x", "latents", "noise", "latent", "velocity", "predictions", "high_noise", "low_noise",
     "initial", "next", "previous", "coords"}
HoldingFollows(op, in, outs, w) ==
    /\ \A p \in DOMAIN in \cap Held : in[p] = outs.out \/ (op = "solver_history_update" /\ p = "velocity")
    /\ op = "conditioned_token_timesteps" => in.time = outs.out
    /\ op = "condition_initial_latents" => in.image = outs.out
    /\ op # "rms_norm_channels" => \A k \in DOMAIN w : w[k] = <<outs.out[2]>>
    /\ op = "rms_norm_channels" => Head(w[1]) = outs.out[2] /\ Volume(w[1]) = outs.out[2]

\* Convolutions, and cells that move between the channels and the frames.
Filming ==
    {"conv3d", "conv2d_framewise", "conv3d_patch_embedding", "space_to_depth", "depth_to_space",
     "pixel_shuffle3d", "temporal_channel_interleave", "space_to_depth_mean",
     "average_space_to_depth", "pixel_shuffle_repeat", "duplicate_depth_to_space",
     "nearest_exact_upsample", "initial_frame_zero_extension", "image_conditioning_latents",
     "posterior_mean", "posterior_sample", "spatial_attention_scores", "spatial_attention_values",
     "adaptive_scale_shift", "patchify_latents", "unpatchify_latents"}
Multiple(m, n) == m % n = 0
FilmingFollows(op, in, outs, w) ==
    LET x == in[CHOOSE p \in DOMAIN in \ {"time", "grid", "configuration", "p"} : TRUE]
        out == outs.out
        sameBut(k) == [x EXCEPT ![k] = out[k]] = out
    IN  CASE op \in {"conv3d", "conv2d_framewise"} ->
               /\ out[1] = x[1] /\ out[2] = w[1][1] /\ x[2] = w[1][2] /\ Cells(x, out) # {}
               /\ \A k \in DOMAIN w : k > 1 => w[k] = <<out[2]>>
               /\ Len(w[1]) = (IF op = "conv3d" THEN 5 ELSE 4)
          [] op = "conv3d_patch_embedding" ->
               /\ x[2] = w[1][2] /\ w[2] = <<w[1][1]>> /\ out = <<x[1], N, w[1][1]>>
          [] op \in {"space_to_depth", "depth_to_space", "pixel_shuffle3d", "temporal_channel_interleave"} ->
               \E n \in Cells(x, out) :
                   IF n < 0 THEN out[2] = x[2] * 2 ^ (-n) ELSE x[2] = out[2] * 2 ^ n
          [] op \in {"space_to_depth_mean", "average_space_to_depth"} ->
               \E n \in Cells(x, out) : n <= 0 /\ Multiple(x[2] * 2 ^ (-n), out[2])
          [] op \in {"pixel_shuffle_repeat", "duplicate_depth_to_space"} ->
               \E n \in Cells(x, out) : n >= 0 /\ Multiple(out[2] * 2 ^ n, x[2])
          [] op = "nearest_exact_upsample" -> out[2] = x[2] /\ Cells(x, out) = {2}
          [] op = "initial_frame_zero_extension" -> sameBut(3) /\ x[3] = 1
          [] op = "image_conditioning_latents" -> out[2] \in {x[2], x[2] + 4} /\ x[3] \in {1, out[3]}
          [] op = "posterior_mean" -> sameBut(2) /\ x[2] = 2 * out[2]
          [] op = "posterior_sample" -> sameBut(2) /\ x[2] = out[2] + 1
          [] op = "spatial_attention_scores" -> Multiple(x[2], 3)
          [] op = "spatial_attention_values" -> [out EXCEPT ![2] = 3 * @] = x
          [] op = "adaptive_scale_shift" ->
               out = x /\ w[1][2] = x[2] /\ in.time = <<x[1], w[1][1] * w[1][2]>>
          [] op = "patchify_latents" -> out = <<x[1], N, x[2]>>
          [] op = "unpatchify_latents" ->
               /\ SubSeq(x, 1, 2) = <<out[1], N>> /\ Last(in.grid) = 3
               /\ Multiple(Last(x), out[2]) /\ Last(x) \div out[2] \in {1, 4}

\* A text and a time condition the tokens of the latents.
Guiding ==
    {"local_tokenization", "embedding_lookup", "relative_position_buckets", "trim_text_padding",
     "zero_pad_text_context", "split_heads", "merge_heads", "attention_scores",
     "rotary_embedding_3d", "latent_grid_shape", "latent_grid_positions",
     "temporal_coordinates_seconds", "positional_normalization", "ltx_rotary_frequencies",
     "sinusoidal_embedding", "adaptive_modulation", "scale_shift", "gate", "next_iteration"}
GuidingFollows(op, in, outs, w) ==
    LET out == outs.out
        x == in.x
    IN  CASE op = "local_tokenization" -> out = <<B, S>>
          [] op = "embedding_lookup" -> out = Append(in.ids, w[1][2])
          [] op = "relative_position_buckets" ->
               \E p \in DOMAIN in : out = <<1, w[1][2], in[p][2], in[p][2]>>
          [] op = "trim_text_padding" -> out = [x EXCEPT ![2] = T] /\ in.mask = Front(x)
          [] op = "zero_pad_text_context" -> out = [in.context EXCEPT ![2] = out[2]]
          [] op = "split_heads" ->
               /\ SubSeq(x, 1, 2) = <<out[1], out[3]>> /\ x[3] = out[2] * out[4]
          [] op = "merge_heads" ->
               /\ SubSeq(out, 1, 2) = <<x[1], x[3]>> /\ out[3] = x[2] * x[4]
          [] op = "attention_scores" ->
               /\ MatrixProduct(in.q, SwapLast(in.k), out)
               /\ "bias" \in DOMAIN in => Masks(in.bias, out)
               /\ "mask" \in DOMAIN in => in.mask = <<out[1], out[4]>>
          [] op = "rotary_embedding_3d" ->
               /\ x = out
               /\ "frequencies" \in DOMAIN in => Front(in.frequencies) = x
               /\ "positions" \in DOMAIN in => in.positions = <<x[1], x[3], 3>>
          [] op = "latent_grid_shape" -> out = <<Len(in.latent) - 2>>
          [] op = "latent_grid_positions" -> out \in {<<B, 3, N>>, <<B, N, 3>>} /\ in.latent[1] = B
          [] op = "temporal_coordinates_seconds" -> out = in.pixels /\ in.frame_rate = Scalar
          [] op = "positional_normalization" -> SameElements(in.coordinates, out)
          [] op = "ltx_rotary_frequencies" ->
               Front(in.positions) = SubSeq(out, 1, 2) /\ Len(out) = 4 /\ out[4] = 2
          [] op = "sinusoidal_embedding" ->
               Front(out) = in.time /\ \A k \in DOMAIN w : w[k] = Scalar
          [] op = "adaptive_modulation" -> SameVolume(in.time, out) /\ Volume(w[1]) = Volume(out)
          [] op = "scale_shift" ->
               /\ out = x
               /\ "modulation" \in DOMAIN in => in.modulation = <<x[1], x[2], 6, x[3]>>
               /\ "time" \in DOMAIN in => in.time = x /\ Volume(w[1]) = 2 * Last(x)
          [] op = "gate" -> out = x /\ in.modulation = <<x[1], x[2], 6, x[3]>>
          [] op = "next_iteration" -> out = in.index

\* What comes from the configuration of a generation, which has no shape.
Configured ==
    {"guidance_conditioning_batch", "initial_latent_noise", "configuration_field",
     "decode_timestep", "denoising_schedule"}

\* The shape of every output follows from the inputs and the parameters.
Follows(g, n) ==
    LET in == [p \in DOMAIN n.ins |-> n.ins[p].shape]
        w == [k \in DOMAIN n.params |-> g.weights[n.params[k]]]
    IN  CASE n.op \in Elementwise -> ElementwiseFollows(in, n.outs, w)
          [] n.op \in Joining -> JoiningFollows(in, n.outs, w)
          [] n.op \in Products -> ProductFollows(n.op, in, n.outs, w)
          [] n.op \in Reshaping -> ReshapingFollows(n.op, in, n.outs)
          [] n.op \in Carrying -> CarryingFollows(n.op, in, n.outs, w)
          [] n.op \in Routing -> RoutingFollows(n.op, in, n.outs, w)
          [] n.op \in Patching -> PatchingFollows(n.op, in, n.outs, w)
          [] n.op \in Deciding -> DecidingFollows(n.op, in, n.outs, w)
          [] n.op \in Speaking -> SpeakingFollows(n.op, in, n.outs, w)
          [] n.op \in Generation -> GenerationFollows(n.op, in, n.outs)
          [] n.op \in Holding -> HoldingFollows(n.op, in, n.outs, w)
          [] n.op \in Filming -> FilmingFollows(n.op, in, n.outs, w)
          [] n.op \in Guiding -> GuidingFollows(n.op, in, n.outs, w)
          [] n.op \in Configured \cup {"input", "sink", "group"} -> TRUE
=============================================================================
