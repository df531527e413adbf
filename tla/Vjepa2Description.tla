--------------------------- MODULE Vjepa2Description ---------------------------
(***************************************************************************)
(* The description of V-JEPA 2 (architecture_analysis/vjepa2.py): a video  *)
(* is cut into patches, an encoder reads them all, and a predictor reads   *)
(* the chosen context, sorted together with masks for the targets, and     *)
(* returns the targets in the order in which they were asked for.          *)
(***************************************************************************)
EXTENDS ArchitectureGraph

Stacks == {"encoder", "predictor"}
\* int(width * ratio): the widths are whole numbers, the ratio is a fraction.
MlpWidth(width, ratio) == (width * ratio[1]) \div ratio[2]
StackOf(c, stack) ==
    IF stack = "encoder"
    THEN [width |-> c.hidden, heads |-> c.heads, layers |-> c.layers, first |-> 0,
          mlp |-> MlpWidth(c.hidden, c.ratio)]
    ELSE [width |-> c.predHidden, heads |-> c.predHeads, layers |-> c.predLayers,
          first |-> c.layers, mlp |-> MlpWidth(c.predHidden, c.predRatio)]

\* configuration(): three axes are rotated in pairs.
Vjepa2Admitted(c) ==
    /\ \A stack \in Stacks :
          LET s == StackOf(c, stack)
          IN  s.width % s.heads = 0 /\ s.width \div s.heads >= 6 /\ s.mlp >= 1
    /\ c.crop >= c.patch

\* parameter_shapes
Affine(key, out, in, bias) ==
    (Weight(key) :> (IF in = 0 THEN <<out>> ELSE <<out, in>>))
    @@ (IF bias THEN Bias(key) :> <<out>> ELSE <<>>)
BlockWeights(c, s, i) ==
    LET of(name, out, in, bias) == Affine(<<<<i>>, name>>, out, in, bias)
        square(name, bias) == of(name, s.width, s.width, bias)
    IN  Merged(<<of("norm1", s.width, 0, TRUE), of("norm2", s.width, 0, TRUE),
                 square("query", c.qkvBias), square("key", c.qkvBias),
                 square("value", c.qkvBias), square("proj", TRUE),
                 of("fc1", s.mlp, s.width, TRUE), of("fc2", s.width, s.mlp, TRUE)>>)
PatchProjection == <<<<>>, "patch_embeddings">>
MaskTokens == Weight(<<<<>>, "mask_tokens">>)
Vjepa2Weights(c) ==
    LET stack(name) ==
            LET s == StackOf(c, name)
            IN  Affine(<<<<>>, name \o ".layernorm">>, s.width, 0, TRUE)
                @@ Merged([k \in 1..s.layers |-> BlockWeights(c, s, s.first + k)])
    IN  (Weight(PatchProjection) :> <<c.hidden, c.channels, c.tubelet, c.patch, c.patch>>)
        @@ (Bias(PatchProjection) :> <<c.hidden>>)
        @@ (MaskTokens :> <<c.maskTokens, 1, 1, c.predHidden>>)
        @@ Affine(<<<<>>, "predictor_embeddings">>, c.predHidden, c.hidden, TRUE)
        @@ Affine(<<<<>>, "predictor.proj">>, c.hidden, c.predHidden, TRUE)
        @@ stack("encoder") @@ stack("predictor")

-----------------------------------------------------------------------------
(* A stack: blocks of attention and of a network, and a last norm.         *)

Encode == <<<<>>, "encoder">>
Predict == <<<<>>, "predictor">>
StackGroup(stack) == <<<<>>, stack>>

\* affine: every bias that the configuration has.
AffineOp(group, name, op, x, out, bias) ==
    LET n == Op(group, name, op, [x |-> x], out)
    IN  With(n, <<Weight(n.key)>> \o (IF bias THEN <<Bias(n.key)>> ELSE <<>>))

BlockAttention(c, s, i, ins) ==
    LET g == <<<<i>>, "attention">>
        v == Inside(g, ins)
        hidden == v.x.shape
        head == <<hidden[1], s.heads, hidden[2], s.width \div s.heads>>
        square == <<hidden[1], s.heads, hidden[2], hidden[2]>>
        projected(role) == AffineOp(g, role, "linear", v.x, hidden, c.qkvBias)
        heads(role) == Op(g, role \o ".heads", "split_heads_transpose",
                          [x |-> Out(projected(role))], head)
        rope(role) == Op(g, role \o ".rope", "rotary_3d",
                         [x |-> Out(heads(role)), positions |-> v.positions], head)
        scores == Op(g, "scores", "scaled_query_key_product",
                     [query |-> Out(rope("query")), key |-> Out(rope("key"))], square)
        probs == Op(g, "softmax", "softmax", [scores |-> Out(scores)], square)
        values == Op(g, "weighted_values", "attention_value_product",
                     [probabilities |-> Out(probs), value |-> Out(heads("value"))], head)
        merged == Op(g, "merge_heads", "transpose_merge_heads", [x |-> Out(values)], hidden)
        proj == AffineOp(g, "proj", "linear", Out(merged), hidden, TRUE)
    IN  Part(Group(g, <<<<i>>, "layer">>, ins, [out |-> Out(proj)]),
             {projected(role) : role \in {"query", "key", "value"}}
             \cup {heads(role) : role \in {"query", "key", "value"}}
             \cup {rope("query"), rope("key"), scores, probs, values, merged, proj})

BlockMlp(s, i, x) ==
    LET g == <<<<i>>, "mlp">>
        wide == <<x.shape[1], x.shape[2], s.mlp>>
        up == AffineOp(g, "fc1", "linear", Inside(g, [x |-> x]).x, wide, TRUE)
        active == Op(g, "gelu", "gelu", [x |-> Out(up)], wide)
        down == AffineOp(g, "fc2", "linear", Out(active), x.shape, TRUE)
    IN  Part(Group(g, <<<<i>>, "layer">>, [x |-> x], [out |-> Out(down)]), {up, active, down})

Block(c, s, stack, i, ins) ==
    LET g == <<<<i>>, "layer">>
        v == Inside(g, ins)
        hidden == v.x.shape
        norm1 == AffineOp(g, "norm1", "layer_norm", v.x, hidden, TRUE)
        attention == BlockAttention(c, s, i, [x |-> Out(norm1), positions |-> v.positions])
        residual == Op(g, "attention_residual", "residual_add",
                       [skip |-> v.x, branch |-> From(<<<<i>>, "attention">>, "out", hidden)], hidden)
        norm2 == AffineOp(g, "norm2", "layer_norm",
                          From(<<<<i>>, "attention_residual">>, "out", hidden), hidden, TRUE)
        out == Op(g, "mlp_residual", "residual_add",
                  [skip |-> From(<<<<i>>, "attention_residual">>, "out", hidden),
                   branch |-> From(<<<<i>>, "mlp">>, "out", hidden)], hidden)
    IN  attention.nodes \cup BlockMlp(s, i, Out(norm2)).nodes
        \cup {norm1, residual, norm2, out, Group(g, StackGroup(stack), ins, [out |-> Out(out)])}

LastNorm(stack, s, hidden) ==
    AffineOp(StackGroup(stack), stack \o ".layernorm", "layer_norm",
             From(<<<<s.first + s.layers>>, "layer">>, "out", hidden), hidden, TRUE)
Stacked(c, stack, s, x, positions) ==
    LET into(k) == [x |-> IF k = 1 THEN x ELSE From(<<<<s.first + k - 1>>, "layer">>, "out", x.shape),
                    positions |-> positions]
    IN  {LastNorm(stack, s, x.shape)}
        \cup UNION {Block(c, s, stack, s.first + k, into(k)) : k \in 1..s.layers}

-----------------------------------------------------------------------------
\* build(): all patches in raster order through the encoder.
Representations(name, x) == NodeIn(Nowhere, name, "sink", [x |-> x], NoPorts, <<>>)

EncoderOf(c) ==
    LET s == StackOf(c, "encoder")
        visual == Input("visual", <<B, Fr, c.channels, Hi, Wi>>)
        v == Inside(Encode, [video |-> Out(visual)])
        prepared == Op(Encode, "encoder.prepare", "permute_repeat_short_clip", v,
                       <<B, c.channels, Fe, Hi, Wi>>)
        patches == With(Op(Encode, PatchProjection[2], "patch_projection_3d",
                           [video |-> Out(prepared)], <<B, c.hidden, Dg, Hg, Wg>>),
                        <<Weight(PatchProjection), Bias(PatchProjection)>>)
        tokens == Op(Encode, "encoder.flatten", "flatten_spatiotemporal_transpose",
                     [x |-> Out(patches)], <<B, N, c.hidden>>)
        positions == Op(Encode, "encoder.positions", "raster_position_indices",
                        [tokens |-> Out(tokens)], <<N>>)
    IN  Part(Group(Encode, Nowhere, [video |-> Out(visual)],
                   [out |-> Out(LastNorm("encoder", s, <<B, N, c.hidden>>))]),
             {visual, prepared, patches, tokens, positions}
             \cup Stacked(c, "encoder", s, Out(tokens), Out(positions)))

\* The tokens of the context come first again.
InOrder(prediction, order) ==
    Op(Predict, "predictor.unsort", "restore_context_target_order",
       [x |-> prediction, order |-> order], prediction.shape)

PredictorOf(c, ins) ==
    LET s == StackOf(c, "predictor")
        v == Inside(Predict, ins)
        p == c.predHidden
        both == <<B, CT, p>>
        selected == Op(Predict, "predictor.context_selection", "gather_context_representations",
                       [x |-> v.encoded, indices |-> v.context], <<B, Cx, c.hidden>>)
        embedded == AffineOp(Predict, "predictor_embeddings", "linear", Out(selected),
                             <<B, Cx, p>>, TRUE)
        masks == With(Op(Predict, "predictor.mask_tokens", "select_repeat_target_mask_token",
                         [indices |-> v.target], <<B, Tg, p>>), <<MaskTokens>>)
        combined == Op(Predict, "predictor.concat", "concatenate_context_target",
                       [context |-> Out(embedded), target |-> Out(masks)], both)
        places == Op(Predict, "predictor.positions", "concatenate_position_indices",
                     [context |-> v.context, target |-> v.target], <<B, CT>>)
        ordered == NodeIn(Predict, "predictor.sort", "sort_tokens_by_position",
                          [x |-> Out(combined), positions |-> Out(places)],
                          [tokens |-> both, sorted_positions |-> <<B, CT>>, order |-> <<B, CT>>], <<>>)
        restored == InOrder(Out(LastNorm("predictor", s, both)), Port(ordered, "order"))
        targets == Op(Predict, "predictor.target_selection", "select_target_suffix",
                      [x |-> Out(restored), context_indices |-> v.context], <<B, Tg, p>>)
        out == AffineOp(Predict, "predictor.proj", "linear", Out(targets), <<B, Tg, c.hidden>>, TRUE)
    IN  Part(Group(Predict, Nowhere, ins, [out |-> Out(out)]),
             {selected, embedded, masks, combined, places, ordered, restored, targets, out}
             \cup Stacked(c, "predictor", s, Port(ordered, "tokens"),
                          Port(ordered, "sorted_positions")))

WithPredictor(c, encoder) ==
    LET encoded == Out(encoder.group)
        context == Input("context_positions", <<B, Cx>>)
        target == Input("target_positions", <<B, Tg>>)
        gather(name, role, indices, dim) ==
            Op(Nowhere, name, "gather_" \o role \o "_representations",
               [x |-> encoded, indices |-> Out(indices)], <<B, dim, c.hidden>>)
        ofContext == gather("context_selection", "context", context, Cx)
        ofTarget == gather("target_selection", "target", target, Tg)
        predictor == PredictorOf(c, [encoded |-> encoded, context |-> Out(context),
                                     target |-> Out(target)])
    IN  [nodes |-> encoder.nodes \cup predictor.nodes
                   \cup {context, target, ofContext, ofTarget,
                         Representations("encoder_output", encoded),
                         Representations("context_output", Out(ofContext)),
                         Representations("target_output", Out(ofTarget)),
                         Representations("predictor_output", Out(predictor.group))},
         weights |-> Vjepa2Weights(c),
         results |-> {}]
Vjepa2Graph(c) == WithPredictor(c, EncoderOf(c))
=============================================================================
