------------------------- MODULE DeepseekDescription --------------------------
(***************************************************************************)
(* The description of DeepSeek-V2-Lite (architecture_analysis/             *)
(* deepseek_v2.py): latent attention, whose keys and values are rebuilt    *)
(* from a compressed state, one dense layer, then layers of routed and     *)
(* shared experts.  glm4_moe_lite.py and kimi_linear.py derive their       *)
(* graphs from this one.                                                   *)
(*                                                                         *)
(* checked() admits the dimensions of one model only; the graph is written *)
(* for all, and is taken here for small ones that differ from each other.  *)
(***************************************************************************)
EXTENDS ArchitectureGraph

Decoder == <<<<>>, "model">>
DecoderLayer(i) == <<<<i>>, "layer">>
SelfAttention(i) == <<<<i>>, "self_attn">>
Mixture(i) == <<<<i>>, "mlp">>
Expert(i, e) == <<<<i, e>>, "expert">>     \* experts are counted from 1,
SharedMlp(i) == <<<<i, 0>>, "shared_experts">>   \* the shared ones are <<i, 0>>

Stream(c) == <<B, S, c.hidden>>
QueryWidth(c) == c.nope + c.rope

\* checked() normalizes the configuration, which says that the first layer is dense.
IsDense(i) == i = 1

-----------------------------------------------------------------------------
(* parameter_shapes.                                                       *)

ExpertShapes(c, i) ==
    Named(<<i>>, [gate |-> <<c.experts, c.hidden>>])
    @@ Named(<<i, 0>>, MlpShapes(c.hidden, c.width * c.shared))
    @@ Merged([e \in 1..c.experts |-> Named(<<i, e>>, MlpShapes(c.hidden, c.width))])

FeedForwardShapes(c, i) ==
    IF IsDense(i) THEN Named(<<i>>, MlpShapes(c.hidden, c.intermediate)) ELSE ExpertShapes(c, i)

\* The two norms of every layer, and what is around the layers.
LayerNorms(c) == [input_layernorm |-> <<c.hidden>>, post_attention_layernorm |-> <<c.hidden>>]
OuterShapes(c) ==
    Named(<<>>, [embed_tokens |-> <<c.vocab, c.hidden>>, norm |-> <<c.hidden>>,
                 lm_head |-> <<c.vocab, c.hidden>>])

\* The projections of keys and values, which all three models have.
LatentShapes(c) ==
    [kv_a_proj_with_mqa |-> <<c.kvRank + c.rope, c.hidden>>, kv_a_layernorm |-> <<c.kvRank>>,
     kv_b_proj |-> <<c.heads * (c.nope + c.value), c.kvRank>>,
     o_proj |-> <<c.hidden, c.heads * c.value>>]

DirectQuery(c) == [q_proj |-> <<c.heads * QueryWidth(c), c.hidden>>]

DeepseekWeights(c) ==
    OuterShapes(c)
    @@ Merged([i \in 1..c.layers |->
                  Named(<<i>>, LayerNorms(c) @@ LatentShapes(c) @@ DirectQuery(c))
                  @@ FeedForwardShapes(c, i)])

-----------------------------------------------------------------------------
(* build_attention                                                         *)

\* The query, split, turned and joined again.
TurnedQuery(c, g, projected, v) ==
    LET by(width) == <<B, c.heads, S, width>>
        heads == Op(g, "q_heads", "reshape_transpose", [x |-> Out(projected)], by(QueryWidth(c)))
        split == NodeIn(g, "q_split", "split", [x |-> Out(heads)],
                        [non_rotary |-> by(c.nope), rotary |-> by(c.rope)], <<>>)
        rope == Op(g, "q_rope", "rotary_position",
                   [x |-> Port(split, "rotary"), cos |-> v.cos, sin |-> v.sin,
                    positions |-> v.positions], by(c.rope))
        query == Op(g, "q_recombine", "concat",
                    [non_rotary |-> Port(split, "non_rotary"), rotary |-> Out(rope)],
                    by(QueryWidth(c)))
    IN  Part(query, {projected, heads, split, rope})

\* A state follows what was carried from the passes before.
Appended(g, name, prior, current, length) ==
    Op(g, name, "state_concat", [prior_state |-> prior, current |-> current],
       [current.shape EXCEPT ![3] = length])

\* Mutant: the values get the width of the keys.
ValueWidth_OfKeys(c) == c.nope
ValueWidth(c) == c.value

\* From the keys and values with their heads on: scores, values, the output projection.
AttendTo(c, g, query, keys, values) ==
    LET heads(last) == <<B, c.heads, S, last>>
        kt == Op(g, "key_transpose", "transpose", [x |-> keys],
                 <<B, c.heads, QueryWidth(c), PS>>)
        scores == Op(g, "scores", "matmul", [q |-> query, kt |-> Out(kt)], heads(PS))
        scaling == Op(g, "score_scale", "scale", [x |-> Out(scores)], scores.outs.out)
        masked == Op(g, "causal_mask", "add_mask",
                     [x |-> Out(scaling), mask |-> From(g, "causal_mask", <<B, 1, S, PS>>)],
                     scores.outs.out)
        probabilities == Op(g, "softmax", "softmax", [x |-> Out(masked)], scores.outs.out)
        attended == Op(g, "weighted_values", "matmul",
                       [q |-> Out(probabilities), kt |-> values], heads(ValueWidth(c)))
        trans == Op(g, "output_transpose", "transpose", [x |-> Out(attended)],
                    <<B, S, c.heads, ValueWidth(c)>>)
        merged == Op(g, "merge_heads", "reshape", [x |-> Out(trans)],
                     <<B, S, c.heads * ValueWidth(c)>>)
    IN  Part(Linear(g, "o_proj", Out(merged), c.hidden),
             {kt, scores, scaling, masked, probabilities, attended, trans, merged})

DeepseekAttention(c, i, ins) ==
    LET g == SelfAttention(i)
        v == Inside(g, ins)
        by(width) == <<B, c.heads, S, width>>
        query == TurnedQuery(c, g, Linear(g, "q_proj", v.x, c.heads * QueryWidth(c)), v)
        kv == Linear(g, "kv_a_proj_with_mqa", v.x, c.kvRank + c.rope)
        split == NodeIn(g, "kv_a_split", "split", [x |-> Out(kv)],
                        [latent |-> <<B, S, c.kvRank>>, rotary_key |-> <<B, S, c.rope>>], <<>>)
        latent == Norm(g, "kv_a_layernorm", Port(split, "latent"))
        rebuilt == Linear(g, "kv_b_proj", Out(latent), c.heads * (c.nope + c.value))
        heads == Op(g, "kv_heads", "reshape_transpose", [x |-> Out(rebuilt)], by(c.nope + c.value))
        parts == NodeIn(g, "kv_b_split", "split", [x |-> Out(heads)],
                        [key_non_rotary |-> by(c.nope), value |-> by(c.value)], <<>>)
        one == Op(g, "k_pe_heads", "reshape_transpose", [x |-> Port(split, "rotary_key")],
                  <<B, 1, S, c.rope>>)
        rope == Op(g, "k_rope", "rotary_position",
                   [x |-> Out(one), cos |-> v.cos, sin |-> v.sin, positions |-> v.positions],
                   one.outs.out)
        repeat == Op(g, "k_pe_repeat", "repeat_kv", [x |-> Out(rope)], by(c.rope))
        key == Op(g, "key_recombine", "concat",
                  [non_rotary |-> Port(parts, "key_non_rotary"), rotary |-> Out(repeat)],
                  by(QueryWidth(c)))
        keys == Appended(g, "key_cache_update", v.prior_key_state, Out(key), PS)
        values == Appended(g, "value_cache_update", v.prior_value_state, Port(parts, "value"), PS)
        state(name, n) == Op(g, name, "key_value_state", [x |-> Out(n)], n.outs.out)
        nextKey == state("next_key_state_out", keys)
        nextValue == state("next_value_state_out", values)
        attended == AttendTo(c, g, Out(query.group), Out(keys), Out(values))
    IN  Part(Group(g, DecoderLayer(i), ins,
                   [out |-> Out(attended.group), next_key_state |-> Out(nextKey),
                    next_value_state |-> Out(nextValue)]),
             query.nodes \cup attended.nodes
             \cup {kv, split, latent, rebuilt, heads, parts, one, rope, repeat, key,
                   keys, values, nextKey, nextValue})

-----------------------------------------------------------------------------
(* moe_mlp.  Which tokens go where is data of a pass: the description has  *)
(* a symbol for the number of tokens of each expert.                       *)

\* The network that all tokens go through.
SharedNetwork(c, g, i, x) ==
    GatedMlp(SharedMlp(i), g, Inside(g, [x |-> x]).x, c.width * c.shared)

\* The weighted results of the experts are added up where their tokens came from, and the
\* shared network has all tokens.
Combined(c, g, i, x, routed, nodes) ==
    LET scatter == NodeIn(g, "routed_scatter_sum", "weighted_scatter_sum", routed,
                          [out |-> Stream(c)], <<>>)
        shared == SharedNetwork(c, g, i, x)
        add == Op(g, "shared_routed_add", "add",
                  [routed |-> Out(scatter), shared |-> Out(shared.group)], Stream(c))
    IN  Part(Group(g, DecoderLayer(i), [x |-> x], [out |-> Out(add)]),
             nodes \cup shared.nodes \cup {scatter, add})

\* The values and the positions of every expert, as ports of the sum.
Scattered(c, values, positions) ==
    Merged([e \in 1..c.experts |->
               (ValuesPort[e] :> values[e]) @@ (PositionsPort[e] :> positions[e])])

\* Mutant: the tokens of every expert have the symbol of the first.
RoutedTokens_Shared(i, e) == Routed(i, 1)
RoutedTokens(i, e) == Routed(i, e)

\* The three matrices of an expert, as the parameters of one operation.
ExpertWeights(i, e) ==
    [p \in 1..3 |-> Weight(<<<<i, e>>, <<"gate_proj", "up_proj", "down_proj">>[p]>>)]

\* The network of one expert, for the tokens that are sent to it, weighted.
RoutedExpert(g, i, e, dispatch) ==
    LET k == Expert(i, e)
        ins == [x |-> Port(dispatch, "tokens"), routing_weights |-> Port(dispatch, "weights")]
        mlp == NodeIn(k, "swiglu_mlp", "swiglu_mlp", [x |-> Inside(k, ins).x],
                      [out |-> ins.x.shape], ExpertWeights(i, e))
        weighted == Op(k, "routing_weight", "multiply",
                       [expert_values |-> Out(mlp),
                        routing_weights |-> Inside(k, ins).routing_weights], mlp.outs.out)
    IN  Part(Group(k, g, ins, [out |-> Out(weighted)]), {mlp, weighted})

DeepseekMixture(c, i, x) ==
    LET g == Mixture(i)
        in == Inside(g, [x |-> x]).x
        logits == Linear(g, "gate", in, c.experts)
        scores == Op(g, "gate_softmax", "softmax", [logits |-> Out(logits)], logits.outs.out)
        chosen == <<B, S, c.topK>>
        topk == NodeIn(g, "topk", "topk_selection", [scores |-> Out(scores)],
                       [expert_indices |-> chosen, expert_weights |-> chosen], <<>>)
        dispatch(e) ==
            [key |-> <<<<i, e>>, "dispatch">>, parent |-> g, op |-> "symbolic_expert_dispatch",
             ins |-> [hidden_states |-> in, expert_indices |-> Port(topk, "expert_indices"),
                      expert_weights |-> Port(topk, "expert_weights")],
             outs |-> [tokens |-> <<RoutedTokens(i, e), c.hidden>>,
                       weights |-> <<RoutedTokens(i, e)>>,
                       positions |-> <<Routed(i, e), 2>>],
             params |-> <<>>]
        expert(e) == RoutedExpert(g, i, e, dispatch(e))
        routed == Scattered(c, [e \in 1..c.experts |-> Out(expert(e).group)],
                            [e \in 1..c.experts |-> Port(dispatch(e), "positions")])
    IN  Combined(c, g, i, x, routed,
                 {logits, scores, topk} \cup UNION {expert(e).nodes \cup {dispatch(e)} : e \in 1..c.experts})

-----------------------------------------------------------------------------
(* layer, build                                                            *)

\* The attention of a layer has the layer's inputs, with the tokens normalized.
LayerNorm(i, ins) == Norm(DecoderLayer(i), "input_layernorm", Inside(DecoderLayer(i), ins).x)
Attended(i, ins) == [Inside(DecoderLayer(i), ins) EXCEPT !.x = Out(LayerNorm(i, ins))]
\* What comes to the feed-forward network, and the network: dense in the first layers,
\* else the given mixture.
FeedInput(c, i) == From(<<<<i>>, "post_attention_layernorm">>, "out", Stream(c))
Feed(c, i, mixture) ==
    IF IsDense(i) THEN GatedMlp(Mixture(i), DecoderLayer(i), FeedInput(c, i), c.intermediate)
    ELSE mixture

\* A layer with these inputs, attention and network.
Layered(c, i, ins, attention, mlp) ==
    LET g == DecoderLayer(i)
        residual == Op(g, "attention_residual", "add",
                       [skip |-> Inside(g, ins).x, branch |-> Out(attention.group)], Stream(c))
        post == Norm(g, "post_attention_layernorm", Out(residual))
        out == Op(g, "mlp_residual", "add",
                  [skip |-> Out(residual), branch |-> Out(mlp.group)], Stream(c))
        states == [p \in DOMAIN attention.group.outs \ {"out"} |-> Port(attention.group, p)]
    IN  Part(Group(g, Decoder, ins, states @@ [out |-> Out(out)]),
             attention.nodes \cup mlp.nodes \cup {LayerNorm(i, ins), residual, post, out})
DeepseekLayer(c, i, ins) ==
    Layered(c, i, ins, DeepseekAttention(c, i, Attended(i, ins)),
            Feed(c, i, DeepseekMixture(c, i, FeedInput(c, i))))

\* The state of one layer out of that of all, and back.  states says which states the
\* layers have, and what their shape is before and after a pass; which layers, of.
Bank(states, of, p) == From(Decoder, p, <<Len(of[p])>> \o states[p].prior)
Selected(states, of, p, i) ==
    LET n == Op(Decoder, p, "select_layer_state", [state_bank |-> Bank(states, of, p)],
                states[p].prior)
    IN  [n EXCEPT !.key = <<<<i>>, "select_" \o p>>]
Stacked(states, of, p) ==
    Op(Decoder, "stack_" \o p, "stack_layer_states",
       Merged([k \in DOMAIN of[p] |->
           LayerPort[k] :> From(DecoderLayer(of[p][k]), states[p].next, states[p].after)]),
       <<Len(of[p])>> \o states[p].after)

\* Mutant: the layers after the first read the state of the first.
OwnState_First(p, i) == <<<<1>>, "select_" \o p>>
OwnState(p, i) == <<<<i>>, "select_" \o p>>

\* What a layer reads of the state.
StateIns(states, of, i) ==
    [p \in {s \in DOMAIN states : i \in Range(of[s])} |->
        From(OwnState(p, i), "out", states[p].prior)]

Into(c, i) == From(IF i = 1 THEN <<<<>>, "embed_tokens">> ELSE DecoderLayer(i - 1), "out", Stream(c))

\* Around the layers: embedding, final norm, head and states.
DecoderOf(c, inputs, states, of, layers, nodes) ==
    LET embedded == With(Op(Decoder, "embed_tokens", "embedding", [ids |-> inputs.input_ids],
                            Stream(c)), <<Weight(<<<<>>, "embed_tokens">>)>>)
        norm == Norm(Decoder, "norm", From(DecoderLayer(c.layers), "out", Stream(c)))
        head == Linear(Decoder, "lm_head", Out(norm), c.vocab)
        model == Group(Decoder, Nowhere, inputs @@ [p \in DOMAIN states |-> Bank(states, of, p)],
                       [logits |-> Out(head)] @@ [p \in DOMAIN states |-> Out(Stacked(states, of, p))])
    IN  nodes \cup {embedded, norm, head, model} \cup UNION {layers[i].nodes : i \in 1..c.layers}
        \cup {Stacked(states, of, p) : p \in DOMAIN states}
        \cup UNION {{Selected(states, of, p, of[p][k]) : k \in DOMAIN of[p]} : p \in DOMAIN states}

\* The inputs of a model and the rotary tables, for DeepSeek and GLM.
TokenInputs ==
    [input_ids |-> From(Decoder, "input_ids", <<B, S>>),
     position_ids |-> From(Decoder, "position_ids", <<B, S>>),
     attention_mask |-> From(Decoder, "attention_mask", <<B, 1, S, PS>>)]
RotaryTable(c, name) ==
    Op(Decoder, name, "rotary_table", [positions |-> TokenInputs.position_ids], <<B, S, c.rope>>)

\* The common part of the two builds: every layer has both states.
AllLayers(c, states) == [p \in DOMAIN states |-> [i \in 1..c.layers |-> i]]
RotaryInputs(c, states, i) ==
    [x |-> Into(c, i), positions |-> TokenInputs.position_ids,
     cos |-> Out(RotaryTable(c, "rotary_cos")), sin |-> Out(RotaryTable(c, "rotary_sin")),
     causal_mask |-> TokenInputs.attention_mask] @@ StateIns(states, AllLayers(c, states), i)
RotaryDecoder(c, states, layers) ==
    DecoderOf(c, TokenInputs, states, AllLayers(c, states), layers,
              {RotaryTable(c, "rotary_cos"), RotaryTable(c, "rotary_sin")})

\* A state with that many heads, before and after a pass.
State(heads, width, next) ==
    [prior |-> <<B, heads, P, width>>, after |-> <<B, heads, PS, width>>, next |-> next]

DeepseekCarried(c) == [prior_key_state |-> State(c.heads, QueryWidth(c), "next_key_state"),
                       prior_value_state |-> State(c.heads, c.value, "next_value_state")]
DeepseekGraph(c) ==
    LET states == DeepseekCarried(c)
        layers == [i \in 1..c.layers |-> DeepseekLayer(c, i, RotaryInputs(c, states, i))]
    IN  [nodes |-> RotaryDecoder(c, states, layers),
         weights |-> DeepseekWeights(c),
         results |-> {Decoder}]
=============================================================================
