--------------------------- MODULE DenseDescription ---------------------------
(***************************************************************************)
(* The dense decoder descriptions (architecture_analysis/dense.py,         *)
(* dense_config.py): Qwen3 and the Llama of SmolLM2, with biases, and with *)
(* LoRA adapters on any of their linear operations.  c.lora is the set of  *)
(* the modules with an adapter, and c.factors and c.factorRank are what    *)
(* the checkpoint has of its factors.  That the parameters of the          *)
(* embedding and of the head may be one is left out.                       *)
(***************************************************************************)
EXTENDS ArchitectureGraph

\* checked(): what is asked of the geometry.
Admitted(c) ==
    /\ c.kv <= c.heads /\ c.heads % c.kv = 0 /\ c.dim % 2 = 0
    /\ c.qwen => ~c.mlpBias

Model == <<<<>>, "model">>
Layer(i) == <<<<i>>, "layer">>
Attention(i) == <<<<i>>, "self_attn">>
Mlp(i) == <<<<i>>, "mlp">>

Hidden(c) == <<B, S, c.hidden>>
Rotary(c) == <<B, S, c.dim>>
Mask == <<B, 1, S, S>>
Heads(h, c) == <<B, h, S, c.dim>>

HeadsOf(c, branch) == IF branch = "q" THEN c.heads ELSE c.kv

\* linear_dimensions: the operations that may have an adapter.
LinearDimensions(c) ==
    [q_proj |-> <<c.heads * c.dim, c.hidden>>, k_proj |-> <<c.kv * c.dim, c.hidden>>,
     v_proj |-> <<c.kv * c.dim, c.hidden>>, o_proj |-> <<c.hidden, c.heads * c.dim>>,
     gate_proj |-> <<c.intermediate, c.hidden>>, up_proj |-> <<c.intermediate, c.hidden>>,
     down_proj |-> <<c.hidden, c.intermediate>>, lm_head |-> <<c.vocab, c.hidden>>]

\* _validate_lora: every adapted operation is a reviewed one and has both factors, there are
\* no others, and their geometry is that of the adapter.
\* Mutant: factors of other operations are let through.
AdapterBound_Orphan(c) ==
    /\ c.lora \subseteq DOMAIN LinearDimensions(c)
    /\ c.lora \X {"A", "B"} \subseteq c.factors /\ (c.lora # {} => c.factorRank = c.rank)
AdapterBound(c) ==
    /\ c.lora \subseteq DOMAIN LinearDimensions(c)
    /\ c.factors = c.lora \X {"A", "B"} /\ (c.lora # {} => c.factorRank = c.rank)

-----------------------------------------------------------------------------
(* The parts of a layer.  Unlike the other descriptions this one declares  *)
(* the shape of an input apart from that of the output it is connected to. *)

At(group, name) == <<group[1], name>>
X(key, shape) == [x |-> From(key, "out", shape)]

DenseNorm(group, name, source, shape) ==
    With(Op(group, name, "rms_norm", [x |-> source], shape), <<Weight(At(group, name))>>)

\* linear(), and connect_linear(): an adapted operation is a group of its own.
DenseLinear(c, group, name, source, in, out, bias) ==
    LET key == At(group, name)
        params == <<Weight(key)>> \o (IF bias THEN <<Bias(key)>> ELSE <<>>)
        x == [source EXCEPT !.shape = <<B, S, in>>]
        inner == [x |-> From(key, "x", <<B, S, in>>)]
        part(suffix, op, ins, width) == Op(key, name \o suffix, op, ins, <<B, S, width>>)
        weight(suffix) == <<Weight(At(group, name \o suffix))>>
    IN  IF name \notin c.lora
        THEN {With(Op(group, name, "linear", [x |-> x], <<B, S, out>>), params)}
        ELSE LET base == With(part(".base", "linear", inner, out), params)
                 a == With(part(".lora_A", "linear", inner, c.rank), weight(".lora_A"))
                 b == With(part(".lora_B", "linear", X(a.key, <<B, S, c.rank>>), out),
                           weight(".lora_B"))
                 scale == part(".lora_scale", "scale", X(b.key, <<B, S, out>>), out)
                 add == part(".lora_add", "add",
                             [base |-> From(base.key, "out", <<B, S, out>>),
                              adapter |-> From(scale.key, "out", <<B, S, out>>)], out)
             IN  {base, a, b, scale, add,
                  Group(key, group, [x |-> x], [out |-> Out(add)])}

\* Mutant: the grouped heads are repeated once too often.
Repeated_Heads(c) == c.heads + c.kv
Repeated(c) == c.heads

\* One of the branches q, k and v up to where they meet.
Branch(c, i, branch) ==
    LET g == Attention(i)
        h == HeadsOf(c, branch)
        split == <<B, S, h, c.dim>>
        linear == DenseLinear(c, g, branch \o "_proj", From(g, "x", Hidden(c)),
                              c.hidden, h * c.dim, c.attentionBias)
        heads == Op(g, branch \o "_heads", "reshape",
                    X(At(g, branch \o "_proj"), <<B, S, h * c.dim>>), split)
        normed == c.qwen /\ branch \in {"q", "k"}
        norm == DenseNorm(g, branch \o "_norm", Out(heads), split)
        trans == Op(g, branch \o "_transpose", "transpose",
                    X(IF normed THEN norm.key ELSE heads.key, split), Heads(h, c))
        rope == Op(g, branch \o "_rotary", "rotary_position",
                   [x |-> Out(trans), cos |-> From(g, "cos", Rotary(c)),
                    sin |-> From(g, "sin", Rotary(c))], Heads(h, c))
        repeat == Op(g, branch \o "_repeat", "repeat_kv",
                     X(IF branch = "k" THEN rope.key ELSE trans.key, Heads(h, c)),
                     Heads(Repeated(c), c))
    IN  linear \cup {heads, trans}
        \cup (IF normed THEN {norm} ELSE {})
        \cup (IF branch \in {"q", "k"} THEN {rope} ELSE {})
        \cup (IF branch \in {"k", "v"} THEN {repeat} ELSE {})

AttentionOf(c, i) ==
    LET g == Attention(i)
        heads == Heads(c.heads, c)
        scores == <<B, c.heads, S, S>>
        from(name, shape) == From(At(g, name), "out", shape)
        kt == Op(g, "key_transpose", "transpose", [x |-> from("k_repeat", heads)],
                 <<B, c.heads, c.dim, S>>)
        qk == Op(g, "qk_product", "matmul",
                 [q |-> from("q_rotary", heads), kt |-> Out(kt)], scores)
        scale == Op(g, "scale", "scale", [x |-> Out(qk)], scores)
        masked == Op(g, "mask", "add_mask",
                     [x |-> Out(scale), mask |-> From(g, "mask", Mask)], scores)
        softmax == Op(g, "softmax", "softmax", [x |-> Out(masked)], scores)
        av == Op(g, "value_product", "matmul",
                 [q |-> Out(softmax), kt |-> from("v_repeat", heads)], heads)
        trans == Op(g, "output_transpose", "transpose", [x |-> Out(av)],
                    <<B, S, c.heads, c.dim>>)
        merge == Op(g, "merge_heads", "reshape", [x |-> Out(trans)],
                    <<B, S, c.heads * c.dim>>)
    IN  UNION {Branch(c, i, b) : b \in {"q", "k", "v"}}
        \cup {kt, qk, scale, masked, softmax, av, trans, merge}
        \cup DenseLinear(c, g, "o_proj", Out(merge), c.heads * c.dim, c.hidden, c.attentionBias)
        \cup {Group(g, Layer(i),
                    [x |-> From(<<<<i>>, "input_layernorm">>, "out", Hidden(c)),
                     cos |-> From(Layer(i), "cos", Rotary(c)),
                     sin |-> From(Layer(i), "sin", Rotary(c)),
                     mask |-> From(Layer(i), "mask", Mask)],
                    [out |-> from("o_proj", Hidden(c))])}

MlpOf(c, i) ==
    LET g == Mlp(i)
        width == <<B, S, c.intermediate>>
        in == From(g, "x", Hidden(c))
        act == Op(g, "activation", "silu", X(At(g, "gate_proj"), width), width)
        multiply == Op(g, "multiply", "multiply",
                       [gate |-> Out(act), up |-> From(At(g, "up_proj"), "out", width)], width)
    IN  DenseLinear(c, g, "gate_proj", in, c.hidden, c.intermediate, c.mlpBias)
        \cup DenseLinear(c, g, "up_proj", in, c.hidden, c.intermediate, c.mlpBias)
        \cup {act, multiply}
        \cup DenseLinear(c, g, "down_proj", Out(multiply), c.intermediate, c.hidden, c.mlpBias)
        \cup {Group(g, Layer(i), X(<<<<i>>, "post_attention_layernorm">>, Hidden(c)),
                    [out |-> From(At(g, "down_proj"), "out", Hidden(c))])}

\* The shapes of a node's output, where another part refers to it.
H(key, c) == From(key, "out", Hidden(c))

LayerOf(c, i, ins) ==
    LET g == Layer(i)
        norm == DenseNorm(g, "input_layernorm", From(g, "x", Hidden(c)), Hidden(c))
        residual == Op(g, "attention_residual", "add",
                       [skip |-> From(g, "x", Hidden(c)), branch |-> H(Attention(i), c)],
                       Hidden(c))
        post == DenseNorm(g, "post_attention_layernorm", Out(residual), Hidden(c))
        final == Op(g, "mlp_residual", "add",
                    [skip |-> Out(residual), branch |-> H(Mlp(i), c)], Hidden(c))
    IN  AttentionOf(c, i) \cup MlpOf(c, i)
        \cup {norm, residual, post, final, Group(g, Model, ins, [out |-> Out(final)])}

-----------------------------------------------------------------------------
(* The model.                                                              *)

EmbedName == Weight(<<<<>>, "embed_tokens">>)
HeadName == Weight(<<<<>>, "lm_head">>)

LayerWeights(c, i) ==
    LET linear == LinearDimensions(c)
        of(name) == Weight(<<<<i>>, name>>)
        lines == {"q_proj", "k_proj", "v_proj", "o_proj", "gate_proj", "up_proj", "down_proj"}
        biased == (IF c.attentionBias THEN {"q_proj", "k_proj", "v_proj", "o_proj"} ELSE {})
                  \cup (IF c.mlpBias THEN {"gate_proj", "up_proj", "down_proj"} ELSE {})
        with(factor) == {n \in lines : <<n, factor>> \in c.factors}
    IN  [w \in {of(n) : n \in lines} |-> linear[w[2]]]
        @@ [w \in {Bias(<<<<i>>, n>>) : n \in biased} |-> <<linear[w[2]][1]>>]
        @@ [w \in {of("input_layernorm"), of("post_attention_layernorm")} |-> <<c.hidden>>]
        @@ [w \in IF c.qwen THEN {of("q_norm"), of("k_norm")} ELSE {} |-> <<c.dim>>]
        @@ [w \in {of(n \o ".lora_A") : n \in with("A")} |->
                <<c.factorRank, linear[CHOOSE n \in lines : w = of(n \o ".lora_A")][2]>>]
        @@ [w \in {of(n \o ".lora_B") : n \in with("B")} |->
                <<linear[CHOOSE n \in lines : w = of(n \o ".lora_B")][1], c.factorRank>>]
Weights(c) ==
    LET outer == [w \in {EmbedName, HeadName} |-> <<c.vocab, c.hidden>>]
                 @@ (Weight(<<<<>>, "norm">>) :> <<c.hidden>>)
                 @@ (IF <<"lm_head", "A">> \in c.factors
                     THEN Weight(<<<<>>, "lm_head.lora_A">>) :> <<c.factorRank, c.hidden>> ELSE <<>>)
                 @@ (IF <<"lm_head", "B">> \in c.factors
                     THEN Weight(<<<<>>, "lm_head.lora_B">>) :> <<c.vocab, c.factorRank>> ELSE <<>>)
    IN  outer @@ Merged([i \in 1..c.layers |-> LayerWeights(c, i)])

DenseGraph(c) ==
    LET ids == Input("input_ids", <<B, S>>)
        at(n) == [n EXCEPT !.parent = Model]
        tokens == at(ids)
        positions == at(Input("position_ids", <<B, S>>))
        mask == at(Input("attention_mask", Mask))
        embedded == With(Op(Model, "embed_tokens", "embedding", [ids |-> Out(tokens)], Hidden(c)),
                         <<EmbedName>>)
        rotary(name) == Op(Model, name, "rotary_table", [positions |-> Out(positions)], Rotary(c))
        into(i) == [x |-> H(IF i = 1 THEN embedded.key ELSE Layer(i - 1), c),
                    cos |-> Out(rotary("rotary_cos")), sin |-> Out(rotary("rotary_sin")),
                    mask |-> Out(mask)]
        norm == DenseNorm(Model, "norm", H(Layer(c.layers), c), Hidden(c))
        logits == Op(Model, "logits", "logits", X(<<<<>>, "lm_head">>, <<B, S, c.vocab>>),
                     <<B, S, c.vocab>>)
    IN  [nodes |-> {tokens, positions, mask, embedded, rotary("rotary_cos"),
                    rotary("rotary_sin"), norm, logits, Group(Model, Nowhere, NoPorts, NoPorts)}
                   \cup UNION {LayerOf(c, i, into(i)) : i \in 1..c.layers}
                   \cup DenseLinear(c, Model, "lm_head", Out(norm), c.hidden, c.vocab, FALSE),
         weights |-> Weights(c),
         results |-> {logits.key}]
=============================================================================
