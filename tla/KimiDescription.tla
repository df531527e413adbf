--------------------------- MODULE KimiDescription ----------------------------
(***************************************************************************)
(* The description of Kimi Linear (architecture_analysis/kimi_linear.py):  *)
(* layers of delta attention, which run over the tokens without their      *)
(* padding and carry convolution histories and a recurrent state, mixed    *)
(* with layers of latent attention without positions, which carry keys and *)
(* values.                                                                 *)
(***************************************************************************)
EXTENDS DeepseekDescription

\* checked(): the first layer, the dense one, is of delta attention, and both kinds occur.
KimiAdmitted(c) ==
    /\ c.layers = Len(c.types) /\ c.types[1] = "kda"
    /\ \E i \in DOMAIN c.types : c.types[i] = "mla"

KdaWidth(c) == c.kdaHeads * c.kdaDim
OfType(c, type) == SelectSeq([i \in DOMAIN c.types |-> i], LAMBDA i : c.types[i] = type)

KdaShapes(c) ==
    LET h == c.hidden
        width == KdaWidth(c)
        conv == <<width, 1, c.kernel>>
    IN  [q_proj |-> <<width, h>>, k_proj |-> <<width, h>>, v_proj |-> <<width, h>>,
         q_conv1d |-> conv, k_conv1d |-> conv, v_conv1d |-> conv,
         A_log |-> <<1, 1, c.kdaHeads, 1>>, dt_bias |-> <<width>>,
         f_a_proj |-> <<c.kdaDim, h>>, f_b_proj |-> <<width, c.kdaDim>>,
         b_proj |-> <<c.kdaHeads, h>>, g_a_proj |-> <<c.kdaDim, h>>,
         g_b_proj |-> <<width, c.kdaDim>>, o_norm |-> <<c.kdaDim>>, o_proj |-> <<h, width>>]

KimiWeights(c) ==
    OuterShapes(c)
    @@ Merged([i \in 1..c.layers |->
          Named(<<i>>, LayerNorms(c) @@ IF c.types[i] = "kda" THEN KdaShapes(c)
                                        ELSE LatentShapes(c) @@ DirectQuery(c))
          @@ FeedForwardShapes(c, i)
          @@ IF IsDense(i) THEN <<>> ELSE Bias(<<<<i>>, "gate">>) :> <<c.experts>>])

-----------------------------------------------------------------------------
(* kda_attention                                                           *)

\* Mutant: a history as long as the kernel.
History_Whole(c) == <<B, KdaWidth(c), c.kernel>>
\* The inputs a convolution still needs.
History(c) == <<B, KdaWidth(c), c.kernel - 1>>
Memory(c) == <<B, c.kdaHeads, c.kdaDim, c.kdaDim>>

\* The delta rule over the tokens x: short convolutions, decay and the recurrence.
KdaUpdate(c, g, v, x, offsets) ==
    LET weight(name) == Weight(<<g[1], name>>)
        packed == <<1, T, c.kdaHeads, c.kdaDim>>
        prior(b) == v[(CASE b = "q" -> "prior_q_conv_state" [] b = "k" -> "prior_k_conv_state"
                         [] b = "v" -> "prior_v_conv_state")]
        proj(b) == Linear(g, b \o "_proj", x, KdaWidth(c))
        conv(b) == NodeIn(g, b \o "_conv1d", "short_convolution",
                          [x |-> Out(proj(b)), prior_state |-> prior(b),
                           sequence_offsets |-> offsets],
                          [out |-> proj(b).outs.out, next_state |-> History(c)],
                          <<weight(b \o "_conv1d")>>)
        heads(b) == Op(g, b \o "_heads", "reshape", [x |-> Out(conv(b))], packed)
        decayLow == Linear(g, "f_a_proj", x, c.kdaDim)
        decayRaw == Linear(g, "f_b_proj", Out(decayLow), KdaWidth(c))
        decay == With(Op(g, "fused_kda_decay", "kda_decay_gate", [raw_gate |-> Out(decayRaw)], packed),
                      <<weight("A_log"), weight("dt_bias")>>)
        logits == Linear(g, "b_proj", x, c.kdaHeads)
        beta == Op(g, "beta_sigmoid", "sigmoid", [x |-> Out(logits)], <<1, T, c.kdaHeads>>)
        update == NodeIn(g, "kda_delta_update", "kda_delta_state_update",
                         [q |-> Out(heads("q")), k |-> Out(heads("k")), v |-> Out(heads("v")),
                          decay |-> Out(decay), beta |-> Out(beta),
                          prior_state |-> v.prior_recurrent_state, sequence_offsets |-> offsets],
                         [out |-> packed, next_state |-> Memory(c)], <<>>)
    IN  [update |-> update, conv |-> [b \in {"q", "k", "v"} |-> conv(b)],
         nodes |-> UNION {{proj(b), conv(b), heads(b)} : b \in {"q", "k", "v"}}
                   \cup {decayLow, decayRaw, decay, logits, beta, update}]

\* The gated norm and the projection back to the stream of tokens with their padding.
KdaOutput(c, g, x, update, indices) ==
    LET low == Linear(g, "g_a_proj", x, c.kdaDim)
        gate == Linear(g, "g_b_proj", Out(low), KdaWidth(c))
        heads == Op(g, "output_gate_heads", "reshape", [x |-> Out(gate)], update.outs.out)
        normalized == With(Op(g, "o_norm", "rms_norm_gated",
                              [x |-> Out(update), gate |-> Out(heads)], update.outs.out),
                           <<Weight(<<g[1], "o_norm">>)>>)
        merged == Op(g, "merge_heads", "reshape", [x |-> Out(normalized)], <<1, T, KdaWidth(c)>>)
        result == Linear(g, "o_proj", Out(merged), c.hidden)
    IN  Part(Op(g, "output_repadding", "restore_padding",
                [compact_output |-> Out(result), token_indices |-> indices], Stream(c)),
             {low, gate, heads, normalized, merged, result})

KdaAttention(c, i, ins) ==
    LET g == SelfAttention(i)
        v == Inside(g, ins)
        compact == NodeIn(g, "input_compaction", "compact_valid_tokens",
                          [padded_hidden_states |-> v.x, padding_mask |-> v.padding_mask],
                          [compact_hidden_states |-> <<1, T, c.hidden>>, token_indices |-> <<T>>,
                           sequence_offsets |-> <<B1>>], <<>>)
        x == Port(compact, "compact_hidden_states")
        kda == KdaUpdate(c, g, v, x, Port(compact, "sequence_offsets"))
        padded == KdaOutput(c, g, x, kda.update, Port(compact, "token_indices"))
    IN  Part(Group(g, DecoderLayer(i), ins,
                   [out |-> Out(padded.group),
                    next_q_conv_state |-> Port(kda.conv["q"], "next_state"),
                    next_k_conv_state |-> Port(kda.conv["k"], "next_state"),
                    next_v_conv_state |-> Port(kda.conv["v"], "next_state"),
                    next_recurrent_state |-> Port(kda.update, "next_state")]),
             {compact} \cup kda.nodes \cup padded.nodes)

-----------------------------------------------------------------------------
(* mla_attention: nothing is turned; the slice that other models turn is   *)
(* shared by all heads all the same.                                       *)

MlaJoined(c, g, name, plain, slice) ==
    Op(g, name, "concat", [non_rotary |-> plain, unrotated_rope_slice |-> slice],
       <<B, c.heads, S, QueryWidth(c)>>)

MlaQuery(c, g, x) ==
    LET by(width) == <<B, c.heads, S, width>>
        projected == Linear(g, "q_proj", x, c.heads * QueryWidth(c))
        heads == Op(g, "q_heads", "reshape_transpose", [x |-> Out(projected)], by(QueryWidth(c)))
        split == NodeIn(g, "q_split", "split", [x |-> Out(heads)],
                        [non_rotary |-> by(c.nope), unrotated_rope_slice |-> by(c.rope)], <<>>)
    IN  Part(MlaJoined(c, g, "query_recombine", Port(split, "non_rotary"),
                       Port(split, "unrotated_rope_slice")), {projected, heads, split})

\* Keys and values of this pass, after those before it.
MlaKeysValues(c, g, v) ==
    LET by(width) == <<B, c.heads, S, width>>
        kv == Linear(g, "kv_a_proj_with_mqa", v.x, c.kvRank + c.rope)
        split == NodeIn(g, "kv_a_split", "split", [x |-> Out(kv)],
                        [latent |-> <<B, S, c.kvRank>>, unrotated_rope_slice |-> <<B, S, c.rope>>],
                        <<>>)
        latent == Norm(g, "kv_a_layernorm", Port(split, "latent"))
        expanded == Linear(g, "kv_b_proj", Out(latent), c.heads * (c.nope + c.value))
        heads == Op(g, "kv_heads", "reshape_transpose", [x |-> Out(expanded)], by(c.nope + c.value))
        parts == NodeIn(g, "kv_b_split", "split", [x |-> Out(heads)],
                        [key_non_rotary |-> by(c.nope), value |-> by(c.value)], <<>>)
        one == Op(g, "key_rope_heads", "reshape_transpose",
                  [x |-> Port(split, "unrotated_rope_slice")], <<B, 1, S, c.rope>>)
        every == Op(g, "key_rope_expand", "repeat_kv", [x |-> Out(one)], by(c.rope))
        key == MlaJoined(c, g, "key_recombine", Port(parts, "key_non_rotary"), Out(every))
        keys == Appended(g, "key_cache_update", v.prior_key_state, Out(key), PS)
        values == Appended(g, "value_cache_update", v.prior_value_state, Port(parts, "value"), PS)
    IN  [keys |-> keys, values |-> values,
         nodes |-> {kv, split, latent, expanded, heads, parts, one, every, key, keys, values}]

MlaAttention(c, i, ins) ==
    LET g == SelfAttention(i)
        v == Inside(g, ins)
        query == MlaQuery(c, g, v.x)
        kv == MlaKeysValues(c, g, v)
        attended == AttendTo(c, g, Out(query.group), Out(kv.keys), Out(kv.values))
    IN  Part(Group(g, DecoderLayer(i), ins,
                   [out |-> Out(attended.group), next_key_state |-> Out(kv.keys),
                    next_value_state |-> Out(kv.values)]),
             query.nodes \cup kv.nodes \cup attended.nodes)

-----------------------------------------------------------------------------
(* moe_mlp: one operation stands for the dispatch, all experts and their   *)
(* sum; the experts are there for their parameters.                        *)

CompactExpert(g, i, e) ==
    [key |-> Expert(i, e), parent |-> g, op |-> "weighted_swiglu_mlp", ins |-> NoPorts,
     outs |-> NoPorts, params |-> ExpertWeights(i, e)]

KimiShared(c, g, i, in) == GatedMlp(SharedMlp(i), g, in, c.width * c.shared)

KimiMixture(c, i, x) ==
    LET g == Mixture(i)
        in == Inside(g, [x |-> x]).x
        logits == Linear(g, "gate", in, c.experts)
        scores == Op(g, "router_sigmoid", "sigmoid", [x |-> Out(logits)], logits.outs.out)
        chosen == <<B, S, c.topK>>
        topk == NodeIn(g, "topk", "topk_selection", [scores |-> Out(scores)],
                       [expert_indices |-> chosen, expert_weights |-> chosen],
                       <<Bias(<<<<i>>, "gate">>)>>)
        scattered == Op(g, "dispatch_execute_scatter_sum",
                        "symbolic_expert_dispatch_execute_scatter_sum",
                        [hidden_states |-> in, expert_indices |-> Port(topk, "expert_indices"),
                         expert_weights |-> Port(topk, "expert_weights")], Stream(c))
        shared == KimiShared(c, g, i, in)
        add == Op(g, "shared_routed_add", "add",
                  [routed |-> Out(scattered), shared |-> Out(shared.group)], Stream(c))
    IN  Part(Group(g, DecoderLayer(i), [x |-> x], [out |-> Out(add)]),
             shared.nodes \cup {logits, scores, topk, scattered, add}
             \cup {CompactExpert(g, i, e) : e \in 1..c.experts})

-----------------------------------------------------------------------------
(* decoder_layer, build: each kind of layer has its own states and masks.  *)

KimiStates(c) ==
    LET kept(shape, next) == [prior |-> shape, after |-> shape, next |-> next]
    IN  [prior_q_conv_state |-> kept(History(c), "next_q_conv_state"),
         prior_k_conv_state |-> kept(History(c), "next_k_conv_state"),
         prior_v_conv_state |-> kept(History(c), "next_v_conv_state"),
         prior_recurrent_state |-> kept(Memory(c), "next_recurrent_state"),
         prior_key_state |-> State(c.heads, QueryWidth(c), "next_key_state"),
         prior_value_state |-> State(c.heads, c.value, "next_value_state")]

KimiAttention(c, i, ins) ==
    IF c.types[i] = "kda" THEN KdaAttention(c, i, ins) ELSE MlaAttention(c, i, ins)
KimiLayer(c, i, ins) ==
    Layered(c, i, ins, KimiAttention(c, i, Attended(i, ins)),
            Feed(c, i, KimiMixture(c, i, FeedInput(c, i))))

KimiInputs ==
    [input_ids |-> From(Decoder, "input_ids", <<B, S>>),
     padding_mask |-> From(Decoder, "padding_mask", <<B, S>>),
     causal_mask |-> From(Decoder, "causal_mask", <<B, 1, S, PS>>)]

\* The layers that have a state.
KimiOwners(c) ==
    [p \in DOMAIN KimiStates(c) |->
        OfType(c, IF p \in {"prior_key_state", "prior_value_state"} THEN "mla" ELSE "kda")]

\* What a layer is given: the tokens, its own states and the mask of its kind.
KimiInto(c, i) ==
    [x |-> Into(c, i)] @@ StateIns(KimiStates(c), KimiOwners(c), i)
    @@ IF c.types[i] = "kda" THEN [padding_mask |-> KimiInputs.padding_mask]
       ELSE [causal_mask |-> KimiInputs.causal_mask]

KimiGraph(c) ==
    [nodes |-> DecoderOf(c, KimiInputs, KimiStates(c), KimiOwners(c),
                         [i \in 1..c.layers |-> KimiLayer(c, i, KimiInto(c, i))], {}),
     weights |-> KimiWeights(c),
     results |-> {Decoder}]
=============================================================================
