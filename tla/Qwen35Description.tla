-------------------------- MODULE Qwen35Description --------------------------
(***************************************************************************)
(* The hybrid decoder description of Qwen3.5                               *)
(* (architecture_analysis/qwen35.py): layers of gated full attention and   *)
(* of linear attention (a gated delta rule) in any configured order, with  *)
(* or without the state that is carried from one pass to the next.         *)
(***************************************************************************)
EXTENDS ArchitectureGraph

\* configuration(): the geometry; an eighth of a head is what the rotary sections cover.
QwenAdmitted(c) ==
    /\ c.heads % c.kv = 0 /\ c.valueHeads % c.keyHeads = 0
    /\ c.dim % 8 = 0 /\ c.sections = c.dim \div 8

QwenModel == <<<<>>, "language_model">>
QwenLayer(i) == <<<<i>>, "layer">>

\* The symbols of a pass that reads no state: its keys are its own tokens.
Length(c) == IF c.cache THEN PS ELSE S

QwenWidth(c) == 2 * c.keyHeads * c.keyDim + c.valueHeads * c.valueDim

\* parameter_shapes
QwenWeights(c) ==
    LET h == c.hidden
        vd == c.valueHeads * c.valueDim
        every == [input_layernorm |-> <<h>>, post_attention_layernorm |-> <<h>>]
                 @@ MlpShapes(h, c.intermediate)
        \* With the regions of the fused projection of queries and gates.
        full == [q_proj |-> <<2 * c.heads * c.dim, h>>, k_proj |-> <<c.kv * c.dim, h>>,
                 v_proj |-> <<c.kv * c.dim, h>>, o_proj |-> <<h, c.heads * c.dim>>,
                 q_norm |-> <<c.dim>>, k_norm |-> <<c.dim>>,
                 query |-> <<c.heads * c.dim, h>>, gate |-> <<c.heads * c.dim, h>>]
        linear == [in_proj_qkv |-> <<QwenWidth(c), h>>, in_proj_z |-> <<vd, h>>,
                   in_proj_a |-> <<c.valueHeads, h>>, in_proj_b |-> <<c.valueHeads, h>>,
                   conv1d |-> <<QwenWidth(c), 1, c.kernel>>, A_log |-> <<c.valueHeads>>,
                   dt_bias |-> <<c.valueHeads>>, norm |-> <<c.valueDim>>,
                   out_proj |-> <<h, vd>>]
        outer == [embed_tokens |-> <<c.vocab, h>>, lm_head |-> <<c.vocab, h>>, norm |-> <<h>>]
    IN  Named(<<>>, outer)
        @@ Merged([i \in DOMAIN c.types |->
                      Named(<<i>>, every @@ IF c.types[i] = "full" THEN full ELSE linear)])

\* full_attention: queries and gates come from one projection.
QwenFullAttention(c, i, ins) ==
    LET g == <<<<i>>, "self_attn">>
        v == Inside(g, ins)
        k == Length(c)
        heads(n) == <<B, n, S, c.dim>>
        fused == Linear(g, "q_proj", v.x, 2 * c.heads * c.dim)
        paired == Op(g, "query_gate_heads", "reshape", [x |-> Out(fused)],
                     <<B, S, c.heads, 2 * c.dim>>)
        split == NodeIn(g, "query_gate_split", "split", [x |-> Out(paired)],
                        [query |-> <<B, S, c.heads, c.dim>>, gate |-> <<B, S, c.heads, c.dim>>],
                        <<Weight(<<<<i>>, "query">>), Weight(<<<<i>>, "gate">>)>>)
        q == Norm(g, "q_norm", Port(split, "query"))
        kp == Linear(g, "k_proj", v.x, c.kv * c.dim)
        kh == Op(g, "key_heads", "reshape", [x |-> Out(kp)], <<B, S, c.kv, c.dim>>)
        kn == Norm(g, "k_norm", Out(kh))
        vp == Linear(g, "v_proj", v.x, c.kv * c.dim)
        vh == Op(g, "value_heads", "reshape_transpose", [x |-> Out(vp)], heads(c.kv))
        rope(role, n) == Op(g, role \o "_rope", "rotary_position",
                            [x |-> Out(n), positions |-> v.positions], n.outs.out)
        qt == Op(g, "query_transpose", "transpose", [x |-> Out(rope("query", q))], heads(c.heads))
        keyT == Op(g, "key_transpose", "transpose", [x |-> Out(rope("key", kn))], heads(c.kv))
        old == <<B, c.kv, P, c.dim>>
        new == <<B, c.kv, k, c.dim>>
        prior == NodeIn(g, "prior_kv", "input", NoPorts,
                        [key_state |-> old, value_state |-> old], <<>>)
        joined == NodeIn(g, "kv_concat", "concatenate_prior_kv",
                         [key |-> Out(keyT), value |-> Out(vh),
                          prior_key_state |-> Port(prior, "key_state"),
                          prior_value_state |-> Port(prior, "value_state")],
                         [key_state |-> new, value_state |-> new], <<>>)
        next == NodeIn(g, "next_kv", "sink", [key_state |-> Port(joined, "key_state"),
                                              value_state |-> Port(joined, "value_state")],
                       NoPorts, <<>>)
        keys == IF c.cache THEN Port(joined, "key_state") ELSE Out(keyT)
        values == IF c.cache THEN Port(joined, "value_state") ELSE Out(vh)
        full == <<B, c.heads, k, c.dim>>
        rk == Op(g, "repeat_key", "repeat_kv", [x |-> keys], full)
        rv == Op(g, "repeat_value", "repeat_kv", [x |-> values], full)
        kt == Op(g, "key_matrix_transpose", "transpose", [x |-> Out(rk)], <<B, c.heads, c.dim, k>>)
        square == <<B, c.heads, S, k>>
        scores == Op(g, "scores", "matmul", [q |-> Out(qt), kt |-> Out(kt)], square)
        masked == Op(g, "causal_mask", "padding_mask", [x |-> Out(scores), mask |-> v.mask], square)
        probs == Then(g, "softmax", "softmax", masked)
        weighted == Op(g, "weighted_values", "matmul", [q |-> Out(probs), kt |-> Out(rv)],
                       heads(c.heads))
        wide == <<B, S, c.heads * c.dim>>
        merged == Op(g, "merge_heads", "reshape_transpose", [x |-> Out(weighted)], wide)
        flat == Op(g, "gate_flatten", "reshape", [x |-> Port(split, "gate")], wide)
        sigmoid == Then(g, "sigmoid", "sigmoid", flat)
        gated == Op(g, "output_gate", "multiply",
                    [attention |-> Out(merged), gate |-> Out(sigmoid)], wide)
        out == Linear(g, "o_proj", Out(gated), c.hidden)
    IN  {fused, paired, split, q, kp, kh, kn, vp, vh, rope("query", q), rope("key", kn), qt, keyT,
         rk, rv, kt, scores, masked, probs, weighted, merged, flat, sigmoid, gated, out,
         Group(g, QwenLayer(i), ins, [out |-> Out(out)])}
        \cup IF c.cache THEN {prior, joined, next} ELSE {}

\* Mutant: the grouped keys are not repeated for the value heads.
DeltaHeads_Unrepeated(c) == c.keyHeads
\* Queries and keys of the recurrence have the heads of the values.
DeltaHeads(c) == c.valueHeads

\* linear_attention: a causal convolution, then the gated delta rule.
QwenLinearAttention(c, i, ins) ==
    LET g == <<<<i>>, "linear_attn">>
        v == Inside(g, ins)
        nv == c.valueHeads
        width == QwenWidth(c)
        x == Op(g, "padding_mask", "padding_mask", v, v.x.shape)
        qkv == Linear(g, "in_proj_qkv", Out(x), width)
        z == Linear(g, "in_proj_z", Out(x), nv * c.valueDim)
        a == Linear(g, "in_proj_a", Out(x), nv)
        b == Linear(g, "in_proj_b", Out(x), nv)
        rows == <<B, width, S>>
        history == <<B, width, c.kernel>>
        trans == Op(g, "conv_transpose", "transpose", [x |-> Out(qkv)], rows)
        state(name, shape) == Op(g, name, "input", NoPorts, shape)
        sink(name, n) == NodeIn(g, name, "sink", [state |-> Port(n, "next_state")], NoPorts, <<>>)
        prior == state("prior_conv", history)
        conv == NodeIn(g, "conv1d", "convolution",
                       [x |-> Out(trans)] @@ (IF c.cache THEN [prior_state |-> Out(prior)] ELSE <<>>),
                       [out |-> rows] @@ (IF c.cache THEN [next_state |-> history] ELSE <<>>),
                       <<Weight(<<<<i>>, "conv1d">>)>>)
        silu == Op(g, "conv_silu", "silu", [x |-> Out(conv)], rows)
        mixed == Op(g, "conv_to_sequence", "transpose", [x |-> Out(silu)], <<B, S, width>>)
        keys == <<B, S, c.keyHeads, c.keyDim>>
        values == <<B, S, nv, c.valueDim>>
        split == NodeIn(g, "qkv_split", "split_reshape", [x |-> Out(mixed)],
                        [query |-> keys, key |-> keys, value |-> values], <<>>)
        repeat(role) == Op(g, role \o "_repeat", "repeat_key_heads", [x |-> Port(split, role)],
                           <<B, S, DeltaHeads(c), c.keyDim>>)
        l2(role) == Then(g, role \o "_l2", "l2_normalize", repeat(role))
        scale == Then(g, "query_scale", "scale", l2("query"))
        beta == Then(g, "beta", "sigmoid", b)
        decay == With(Then(g, "decay", "log_decay", a),
                      <<Weight(<<<<i>>, "A_log">>), Weight(<<<<i>>, "dt_bias">>)>>)
        recurrent == <<B, nv, c.keyDim, c.valueDim>>
        memory == state("prior_recurrent", recurrent)
        delta == NodeIn(g, "delta_rule", "gated_delta_rule",
                        [query |-> Out(scale), key |-> Out(l2("key")), value |-> Port(split, "value"),
                         beta |-> Out(beta), log_decay |-> Out(decay), prior_state |-> Out(memory)],
                        [out |-> values]
                        @@ (IF c.cache THEN [next_state |-> recurrent] ELSE <<>>), <<>>)
        norm == Norm(g, "norm", Out(delta))
        zh == Op(g, "z_heads", "reshape", [x |-> Out(z)], values)
        gate == Then(g, "z_silu", "silu", zh)
        gated == Op(g, "output_gate", "multiply", [normalized |-> Out(norm), gate |-> Out(gate)],
                    values)
        merged == Op(g, "merge_heads", "reshape", [x |-> Out(gated)], <<B, S, nv * c.valueDim>>)
        out == Linear(g, "out_proj", Out(merged), c.hidden)
    IN  {x, qkv, z, a, b, trans, conv, silu, mixed, split, repeat("query"), repeat("key"),
         l2("query"), l2("key"), scale, beta, decay, memory, delta, norm, zh, gate, gated, merged,
         out, Group(g, QwenLayer(i), ins, [out |-> Out(out)])}
        \cup IF c.cache THEN {prior, sink("next_conv", conv), sink("next_recurrent", delta)} ELSE {}

\* The layers and what is around them.
QwenLayerOf(c, i, ins) ==
    LET g == QwenLayer(i)
        v == Inside(g, ins)
        full == c.types[i] = "full"
        norm == Norm(g, "input_layernorm", v.x)
        attention == IF full
                     THEN QwenFullAttention(c, i, [x |-> Out(norm), positions |-> v.positions,
                                                   mask |-> v.mask])
                     ELSE QwenLinearAttention(c, i, [x |-> Out(norm), mask |-> v.current_mask])
        attn == From(<<<<i>>, IF full THEN "self_attn" ELSE "linear_attn">>, "out",
                     <<B, S, c.hidden>>)
        post == Op(g, "attention_residual", "add", [skip |-> v.x, branch |-> attn], v.x.shape)
        norm2 == Norm(g, "post_attention_layernorm", Out(post))
        mlp == GatedMlp(<<<<i>>, "mlp">>, g, Out(norm2), c.intermediate)
        out == Op(g, "mlp_residual", "add", [skip |-> Out(post), branch |-> Out(mlp.group)],
                  v.x.shape)
    IN  attention \cup mlp.nodes
        \cup {norm, post, norm2, out, Group(g, QwenModel, ins, [out |-> Out(out)])}

\* build_single_pass: with a cache the head is outside the group of the model.
QwenGraph(c) ==
    LET tokens == Input("token_ids", <<B, S>>)
        positions == Input("positions", <<3, B, S>>)
        mask == Input("mask", <<B, Length(c)>>)
        current == Input("current_mask", <<B, S>>)
        ins == [tokens |-> Out(tokens), positions |-> Out(positions), mask |-> Out(mask),
                current_mask |-> Out(current)]
        v == Inside(QwenModel, ins)
        embedded == With(Op(QwenModel, "embed_tokens", "embedding", [ids |-> v.tokens],
                            <<B, S, c.hidden>>), <<Weight(<<<<>>, "embed_tokens">>)>>)
        layers == Len(c.types)
        x(i) == IF i = 0 THEN Out(embedded) ELSE From(QwenLayer(i), "out", <<B, S, c.hidden>>)
        into(i) == [x |-> x(i - 1), positions |-> v.positions, mask |-> v.mask,
                    current_mask |-> v.current_mask]
        final == Norm(QwenModel, "norm", x(layers))
        closed == Group(QwenModel, Nowhere, ins, [out |-> Out(final)])
        head == IF c.cache THEN Linear(Nowhere, "lm_head", Out(closed), c.vocab)
                ELSE Linear(QwenModel, "lm_head", Out(final), c.vocab)
        model == IF c.cache THEN closed ELSE Group(QwenModel, Nowhere, ins, [out |-> Out(head)])
        logits == NodeIn(Nowhere, "logits", "sink",
                         [x |-> IF c.cache THEN Out(head) ELSE Out(model)], NoPorts, <<>>)
    IN  [nodes |-> {tokens, positions, mask, current, embedded, final, head, model, logits}
                   \cup UNION {QwenLayerOf(c, i, into(i)) : i \in 1..layers},
         weights |-> QwenWeights(c),
         results |-> {}]
=============================================================================
