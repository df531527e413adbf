--------------------------- MODULE VideoDescription ---------------------------
(***************************************************************************)
(* The description of video generation (architecture_analysis/video.py,    *)
(* video_transformers.py, video_vae.py, over video_graph.py): a text is    *)
(* encoded, noise is denoised step by step under it, by one or two         *)
(* denoisers, and the last latents are decoded into frames.  A first image *)
(* may be encoded to start from.                                           *)
(*                                                                         *)
(* checked() of video_profiles.py admits five checkpoints, with the        *)
(* shapes of video_reference.json.                                         *)
(***************************************************************************)
EXTENDS ArchitectureGraph

NoShape == <<0>>   \* of a text, a configuration, the state of a solver

\* PROFILES.  The layers of the text encoder and of a denoiser are those of the instance.
LtxProfile ==
    [ltx |-> TRUE, image |-> "optional", roles |-> <<"denoiser">>, text |-> "t5", hidden |-> 2048,
     heads |-> 32, ffn |-> 8192, channels |-> 128, in |-> 128, patch |-> 1]
WanProfile(image, roles, hidden, heads, ffn, channels, in) ==
    [ltx |-> FALSE, image |-> image, roles |-> roles, text |-> "umt5", hidden |-> hidden,
     heads |-> heads, ffn |-> ffn, channels |-> channels, in |-> in, patch |-> 4]
Experts == <<"high_noise", "low_noise">>
Profiles ==
    [ltx |-> LtxProfile,
     ti2v |-> WanProfile("optional", <<"denoiser">>, 3072, 24, 14336, 48, 48),
     t2v |-> WanProfile("absent", Experts, 5120, 40, 13824, 16, 16),
     i2v |-> WanProfile("required", Experts, 5120, 40, 13824, 16, 36)]

HasImage(c) == c.image # "absent"
\* The clean image is a reference beside the latents, or the first frame of them.
Beside(c) == c.image = "required"
TwoExperts(c) == Len(c.roles) = 2
Latents(c) == <<B, c.channels, Lt, Lh, Lw>>

-----------------------------------------------------------------------------
(* video_graph.py.  A node is named by its group.  What an operation makes *)
(* of its weights, it reads from what is stored: w.                        *)

In(g, name) == <<g[1], g[2] \o "." \o name>>
At(name, k) == name \o "." \o ToString(k)
VOp(g, name, op, ins, out) == Op(g, In(g, name)[2], op, ins, out)
Unary(g, name, op, x) == VOp(g, name, op, [x |-> x], x.shape)
Residual(g, name, x, branch) == VOp(g, name, "add", [x |-> x, branch |-> branch], x.shape)
\* The weight of a node, and its bias if there is one.
Stored(w, n) ==
    With(n, <<Weight(n.key)>> \o (IF Bias(n.key) \in DOMAIN w THEN <<Bias(n.key)>> ELSE <<>>))
VLinear(w, g, name, x) ==
    Stored(w, VOp(g, name, "linear", [x |-> x],
                  Append(Front(x.shape), w[Weight(In(g, name))][1])))
Scaled(w, g, name, op, x) == Stored(w, Unary(g, name, op, x))
Given(v, ports) == [p \in DOMAIN v \cap ports |-> v[p]]

\* What is passed on from step to step, and what was built on the way.
Made(nodes, out) == [nodes |-> nodes, out |-> out]
Node(n) == Made({n}, Out(n))
PartMade(p) == Made(p.nodes, Out(p.group))
Along(first, steps, step(_, _)) ==
    FoldLeft(LAMBDA m, s : LET next == step(m.out, s) IN Made(m.nodes \cup next.nodes, next.out),
             first, steps)
Indices(n) == [k \in 1..n |-> k - 1]

-----------------------------------------------------------------------------
(* attention(): a is the width of a head's part, the heads, the family and *)
(* whether it is of another sequence.                                      *)

\* The text is attended to with its padding, when it is not zero.
KeyLength(a) == IF a.family = "wan" /\ a.cross THEN 512 ELSE S

Attend(w, key, parent, a, ins) ==
    LET v == Inside(key, ins)
        source(role) == IF role = "q" THEN v.x ELSE v.context
        projected(role) == VLinear(w, key, role, source(role))
        normed(role) == IF role = "v" \/ a.family = "t5" THEN projected(role)
                        ELSE Scaled(w, key, role \o "_norm", "rms_norm", Out(projected(role)))
        \* All of a projection is rotated, or each of its heads.
        whole(role) ==
            IF role = "v" \/ a.cross \/ "frequencies" \notin DOMAIN v THEN normed(role)
            ELSE VOp(key, role \o ".rope", "rotary_embedding_3d",
                     [x |-> Out(normed(role)), frequencies |-> v.frequencies],
                     normed(role).outs.out)
        width == Last(projected("v").outs.out)
        length(role) == IF a.family = "t5" \/ (a.cross /\ role # "q") THEN KeyLength(a) ELSE N
        heads(role) == VOp(key, role \o ".heads", "split_heads", [x |-> Out(whole(role))],
                           <<B, a.heads, length(role), width \div a.heads>>)
        rotated(role) ==
            IF role = "v" \/ a.cross \/ "positions" \notin DOMAIN v THEN heads(role)
            ELSE VOp(key, role \o ".rope", "rotary_embedding_3d",
                     [x |-> Out(heads(role)), positions |-> v.positions], heads(role).outs.out)
        scores == VOp(key, "scores", "attention_scores",
                      [q |-> Out(rotated("q")), k |-> Out(rotated("k"))] @@ Given(v, {"bias", "mask"}),
                      <<B, a.heads, length("q"), length("k")>>)
        probabilities == Unary(key, "softmax", "softmax", Out(scores))
        weighted == VOp(key, "weighted", "matmul",
                        [p |-> Out(probabilities), v |-> Out(rotated("v"))],
                        <<B, a.heads, length("q"), width \div a.heads>>)
        merged == VOp(key, "merge", "merge_heads", [x |-> Out(weighted)], <<B, length("q"), width>>)
        output == VLinear(w, key, "output", Out(merged))
        roles == {"q", "k", "v"}
    IN  Part(Group(key, parent, ins, [out |-> Out(output)]),
             UNION {{projected(r), normed(r), whole(r), heads(r), rotated(r)} : r \in roles}
             \cup {scores, probabilities, weighted, merged, output})

-----------------------------------------------------------------------------
(* text_encoder()                                                          *)

Pipeline == <<<<>>, "video">>
TextEncoder == In(Pipeline, "text_encoder")
TextHidden == 4096

Buckets(key, g, x, w) ==
    With(VOp(g, "bias", "relative_position_buckets", x, <<1, 64, S, S>>), <<Weight(key)>>)

TextMlp(w, key, parent, x) ==
    LET v == Inside(key, [x |-> x])
        norm == Scaled(w, key, "norm", "rms_norm", v.x)
        gate == VLinear(w, key, "gate", Out(norm))
        gelu == Unary(key, "gelu", "gelu_tanh", Out(gate))
        up == VLinear(w, key, "up", Out(norm))
        product == VOp(key, "multiply", "multiply", [gate |-> Out(gelu), up |-> Out(up)],
                       up.outs.out)
        down == VLinear(w, key, "down", Out(product))
    IN  Part(Group(key, parent, [x |-> x], [out |-> Out(down)]), {norm, gate, gelu, up, product, down})

\* Every block of UMT5 has a bias of its own, those of T5 share one.
TextBlock(w, i, ins) ==
    LET g == <<<<i>>, "layer">>
        v == Inside(g, ins)
        own == Buckets(In(g, "bias"), g, [x |-> v.x], w)
        bias == IF "bias" \in DOMAIN v THEN v.bias ELSE Out(own)
        norm == Scaled(w, g, "norm1", "rms_norm", v.x)
        attended == Attend(w, <<<<i>>, "attention">>, g, [heads |-> 64, family |-> "t5", cross |-> FALSE],
                           [x |-> Out(norm), context |-> Out(norm), bias |-> bias, mask |-> v.mask])
        residual == Residual(g, "residual1", v.x, Out(attended.group))
        mlp == TextMlp(w, <<<<i>>, "mlp">>, g, Out(residual))
        out == Residual(g, "residual2", Out(residual), Out(mlp.group))
    IN  Part(Group(g, TextEncoder, ins, [out |-> Out(out)]),
             attended.nodes \cup mlp.nodes \cup {norm, residual, out}
             \cup (IF "bias" \in DOMAIN v THEN {} ELSE {own}))

TextPart(w, c, prompt) ==
    LET g == TextEncoder
        ins == [prompt |-> prompt]
        tokens == VOp(g, "tokenize", "local_tokenization", [text |-> Inside(g, ins).prompt], <<B, S>>)
        mask == VOp(g, "mask", "padding_mask", [ids |-> Out(tokens)], <<B, S>>)
        embed == Stored(w, VOp(g, "embed", "embedding_lookup", [ids |-> Out(tokens)],
                               <<B, S, TextHidden>>))
        bias == Buckets(<<<<1>>, "layer.bias">>, g, [ids |-> Out(tokens)], w)
        shared == IF c.text = "t5" THEN [bias |-> Out(bias)] ELSE <<>>
        blocks == Along(Node(embed), Indices(c.textLayers),
                        LAMBDA x, k : PartMade(TextBlock(w, k + 1, [x |-> x, mask |-> Out(mask)] @@ shared)))
        norm == Scaled(w, g, "final_norm", "rms_norm", blocks.out)
        trim == VOp(g, "trim", "trim_text_padding", [x |-> Out(norm), mask |-> Out(mask)],
                    <<B, T, TextHidden>>)
        last == IF c.text = "umt5" THEN trim ELSE norm
    IN  Part(Group(g, Pipeline, ins, [out |-> Out(last), mask |-> Out(mask)]),
             {tokens, mask, norm, last} \cup blocks.nodes \cup (IF c.text = "t5" THEN {bias} ELSE {}))

-----------------------------------------------------------------------------
(* denoiser()                                                              *)

Loop == In(Pipeline, "iteration")
TimeWidth == 256
AttentionOf(c, cross) ==
    [heads |-> c.heads, family |-> IF c.ltx THEN "ltx" ELSE "wan", cross |-> cross]

\* The position of a token in the video turns it by an angle.
LtxFrequencies(c, g, v) ==
    LET coords == VOp(g, "positions", "latent_grid_positions", [latent |-> v.latent], <<B, 3, N>>)
        pixels == VOp(g, "pixel_coordinates", "latent_to_pixel_coordinates",
                      [coords |-> Out(coords)], coords.outs.out)
        rate == VOp(g, "frame_rate", "configuration_field", [configuration |-> v.configuration], Scalar)
        seconds == VOp(g, "temporal_coordinates", "temporal_coordinates_seconds",
                       [pixels |-> Out(pixels), frame_rate |-> Out(rate)], pixels.outs.out)
        positions == VOp(g, "normalized_positions", "positional_normalization",
                         [coordinates |-> Out(seconds)], <<B, N, 3>>)
        frequencies == VOp(g, "rotary_frequencies", "ltx_rotary_frequencies",
                           [positions |-> Out(positions)], <<B, N, c.hidden, 2>>)
    IN  Made({coords, pixels, rate, seconds, positions, frequencies}, Out(frequencies))
Grid(c, g, v) ==
    IF c.ltx THEN VOp(g, "geometry", "latent_grid_shape", [latent |-> v.latent], <<3>>)
    ELSE VOp(g, "positions", "latent_grid_positions", [latent |-> v.latent], <<B, N, 3>>)

\* Every embedding of a time, of the noise and of a decoder.
TimeMlp(w, g, embedding) ==
    LET first == VLinear(w, g, "time_linear1", Out(embedding))
        silu == Unary(g, "time_silu", "silu", Out(first))
        second == VLinear(w, g, "time_linear2", Out(silu))
    IN  Made({embedding, first, silu, second}, Out(second))

Tokens(w, c, g, v) ==
    IF c.ltx
    THEN LET patches == VOp(g, "patchify", "patchify_latents", [x |-> v.latent], <<B, N, 128>>)
             projection == VLinear(w, g, "projection", Out(patches))
         IN  Made({patches, projection}, Out(projection))
    ELSE Node(Stored(w, VOp(g, "patchify", "conv3d_patch_embedding", [x |-> v.latent],
                            <<B, N, c.hidden>>)))

\* UMT5 leaves the padding out, and Wan puts zeros in its place.
Told(w, c, g, v) ==
    LET padded == VOp(g, "text_padding", "zero_pad_text_context", [context |-> v.context],
                      <<B, 512, TextHidden>>)
        first == VLinear(w, g, "text_linear1", IF c.ltx THEN v.context ELSE Out(padded))
        gelu == Unary(g, "text_gelu", "gelu_tanh", Out(first))
        second == VLinear(w, g, "text_linear2", Out(gelu))
    IN  Made({first, gelu, second} \cup (IF c.ltx THEN {} ELSE {padded}), Out(second))

Modulated(g, name, op, x, modulation) ==
    VOp(g, name, op, [x |-> x, modulation |-> modulation], x.shape)
PlainNorm(c, g, name, x) == Unary(g, name, IF c.ltx THEN "rms_norm" ELSE "layer_norm", x)

DenoiserMlp(w, c, key, parent, ins) ==
    LET v == Inside(key, ins)
        norm == PlainNorm(c, key, "norm", v.x)
        modulated == Modulated(key, "modulate", "scale_shift", Out(norm), v.modulation)
        up == VLinear(w, key, "up", Out(modulated))
        gelu == Unary(key, "gelu", "gelu_tanh", Out(up))
        down == VLinear(w, key, "down", Out(gelu))
        gated == Modulated(key, "gate", "gate", Out(down), v.modulation)
    IN  Part(Group(key, parent, ins, [out |-> Out(gated)]), {norm, modulated, up, gelu, down, gated})

DenoiserBlock(w, c, i, parent, ins) ==
    LET g == <<<<i>>, "layer">>
        v == Inside(g, ins)
        modulation == Stored(w, VOp(g, "modulation", "adaptive_modulation", [time |-> v.modulation],
                                    <<B, N, 6, c.hidden>>))
        norm == PlainNorm(c, g, "norm1", v.x)
        modulated == Modulated(g, "modulate_attention", "scale_shift", Out(norm), Out(modulation))
        self == Attend(w, <<<<i>>, "self_attention">>, g, AttentionOf(c, FALSE),
                       [x |-> Out(modulated), context |-> Out(modulated)]
                       @@ Given(v, {"positions", "frequencies"}))
        gated == Modulated(g, "gate_attention", "gate", Out(self.group), Out(modulation))
        attended == Residual(g, "residual1", v.x, Out(gated))
        norm3 == Scaled(w, g, "norm3", "layer_norm", Out(attended))
        cross == Attend(w, <<<<i>>, "cross_attention">>, g, AttentionOf(c, TRUE),
                        [x |-> Out(IF c.ltx THEN attended ELSE norm3), context |-> v.context]
                        @@ (IF c.ltx THEN [mask |-> v.text_mask] ELSE <<>>))
        told == Residual(g, "residual2", Out(attended), Out(cross.group))
        mlp == DenoiserMlp(w, c, <<<<i>>, "mlp">>, g, [x |-> Out(told), modulation |-> Out(modulation)])
        out == Residual(g, "residual3", Out(told), Out(mlp.group))
    IN  Part(Group(g, parent, ins, [out |-> Out(out)]),
             self.nodes \cup cross.nodes \cup mlp.nodes
             \cup {modulation, norm, modulated, gated, attended, told, out}
             \cup (IF c.ltx THEN {} ELSE {norm3}))

\* The blocks of the text encoder are before those of the denoisers.
FirstBlock(c, role) == c.textLayers + (IF role = "low_noise" THEN c.layers ELSE 0)

Denoiser(w, c, role, ins) ==
    LET g == In(Loop, role)
        own == IF c.ltx THEN ins ELSE [p \in DOMAIN ins \ {"configuration"} |-> ins[p]]
        v == Inside(g, own)
        tokens == Tokens(w, c, g, v)
        grid == Grid(c, g, v)
        frequencies == LtxFrequencies(c, g, v)
        time == TimeMlp(w, g, VOp(g, "time_embedding", "sinusoidal_embedding", [time |-> v.time],
                                  <<B, N, TimeWidth>>))
        activated == Unary(g, "time_silu2", "silu", time.out)
        projection == VLinear(w, g, "time_projection", Out(activated))
        text == Told(w, c, g, v)
        into(x) == [x |-> x, context |-> text.out, modulation |-> Out(projection),
                    text_mask |-> v.text_mask]
                   @@ (IF c.ltx THEN [frequencies |-> frequencies.out] ELSE [positions |-> Out(grid)])
        blocks == Along(tokens, Indices(c.layers),
                        LAMBDA x, k : PartMade(DenoiserBlock(w, c, FirstBlock(c, role) + k + 1, g, into(x))))
        norm == Unary(g, "head_norm", "layer_norm", blocks.out)
        modulated == Stored(w, VOp(g, "head_modulation", "scale_shift",
                                   [x |-> Out(norm), time |-> time.out], norm.outs.out))
        head == VLinear(w, g, "head", Out(modulated))
        video == VOp(g, "unpatchify", "unpatchify_latents", [x |-> Out(head), grid |-> Out(grid)],
                     Latents(c))
    IN  Part(Group(g, Loop, own, [out |-> Out(video)]),
             time.nodes \cup text.nodes \cup blocks.nodes
             \cup {grid, activated, projection, norm, modulated, head, video}
             \cup (IF c.ltx THEN frequencies.nodes ELSE {}))

-----------------------------------------------------------------------------
(* video_vae.py                                                            *)

\* resized(), by powers of two of the frames, of the height and of the width.
Shrunk(x, channels, times) ==
    <<x[1], channels, Halved(x[3], times[1], TRUE), Halved(x[4], times[2], FALSE),
      Halved(x[5], times[3], FALSE)>>
Grown(x, channels, times) ==
    <<x[1], channels, Doubled(x[3], times[1]), Doubled(x[4], times[2]), Doubled(x[5], times[3])>>
Still == <<0, 0, 0>>
Space == <<0, 1, 1>>
Frames == <<1, 0, 0>>
Both == <<1, 1, 1>>

Conv(w, g, name, x, stride) ==
    LET kernel == w[Weight(In(g, name))]
    IN  Stored(w, VOp(g, name, IF Len(kernel) = 5 THEN "conv3d" ELSE "conv2d_framewise", [x |-> x],
                      Shrunk(x.shape, kernel[1], stride)))
ChannelNorm(w, c, g, name, x) ==
    IF c.ltx THEN Unary(g, name, "pixel_norm", x) ELSE Scaled(w, g, name, "rms_norm_channels", x)

\* resblock(): there is a shortcut where one is stored, and a time where one is given.
Resblock(w, c, key, parent, ins) ==
    LET v == Inside(key, ins)
        half(y, k) ==
            LET norm == ChannelNorm(w, c, key, At("norm", k), y)
                modulated == With(VOp(key, At("modulate", k), "adaptive_scale_shift",
                                      [x |-> Out(norm), time |-> v.time], y.shape),
                                  <<Weight(key)>>)
                timed == IF "time" \in DOMAIN v THEN modulated ELSE norm
                silu == Unary(key, At("silu", k), "silu", Out(timed))
                conv == Conv(w, key, At("conv", k), Out(silu), Still)
            IN  Made({norm, timed, silu, conv}, Out(conv))
        branch == Along(Made({}, v.x), Indices(2), half)
        shortcut == IF Weight(In(key, "shortcut")) \in DOMAIN w
                    THEN Node(Conv(w, key, "shortcut", v.x, Still)) ELSE Made({}, v.x)
        out == Residual(key, "add", shortcut.out, branch.out)
    IN  Part(Group(key, parent, ins, [out |-> Out(out)]), branch.nodes \cup shortcut.nodes \cup {out})

SpatialAttention(w, c, key, parent, x) ==
    LET v == Inside(key, [x |-> x])
        norm == ChannelNorm(w, c, key, "norm", v.x)
        qkv == Conv(w, key, "qkv", Out(norm), Still)
        scores == VOp(key, "scores", "spatial_attention_scores", [qkv |-> Out(qkv)], NoShape)
        probabilities == Unary(key, "softmax", "softmax", Out(scores))
        weighted == VOp(key, "weighted", "spatial_attention_values",
                        [p |-> Out(probabilities), qkv |-> Out(qkv)], v.x.shape)
        projected == Conv(w, key, "projection", Out(weighted), Still)
        out == Residual(key, "residual", v.x, Out(projected))
    IN  Part(Group(key, parent, [x |-> x], [out |-> Out(out)]),
             {norm, qkv, scores, probabilities, weighted, projected, out})

\* wan_resample(): along time as well where the weights of it are stored.
Downsample(w, key, parent, x) ==
    LET spatial == Conv(w, key, "spatial_conv", Inside(key, [x |-> x]).x, Space)
        temporal == Conv(w, key, "time_conv", Out(spatial), Frames)
        last == IF Weight(In(key, "time_conv")) \in DOMAIN w THEN temporal ELSE spatial
    IN  Part(Group(key, parent, [x |-> x], [out |-> Out(last)]), {spatial, last})
Upsample(w, key, parent, x) ==
    LET v == Inside(key, [x |-> x])
        time == Conv(w, key, "time_conv", v.x, Still)
        interleaved == VOp(key, "interleave", "temporal_channel_interleave", [x |-> Out(time)],
                           Grown(v.x.shape, w[Weight(time.key)][1] \div 2, Frames))
        temporal == IF Weight(In(key, "time_conv")) \in DOMAIN w
                    THEN Made({time, interleaved}, Out(interleaved)) ELSE Made({}, v.x)
        nearest == VOp(key, "nearest", "nearest_exact_upsample", [x |-> temporal.out],
                       Grown(temporal.out.shape, w[Weight(In(key, "spatial_conv"))][2], Space))
        spatial == Conv(w, key, "spatial_conv", Out(nearest), Still)
    IN  Part(Group(key, parent, [x |-> x], [out |-> Out(spatial)]),
             temporal.nodes \cup {nearest, spatial})
Resample(w, key, parent, x, up) ==
    IF up THEN Upsample(w, key, parent, x) ELSE Downsample(w, key, parent, x)

\* A stage of version 2.2: its resampling is beside one without weights.
WanStage(w, c, g, x, k, encode) ==
    LET key == In(g, At("stage", k))
        v == Inside(key, [x |-> x])
        blocks == Along(Made({}, v.x), Indices(IF encode THEN 2 ELSE 3),
                        LAMBDA y, b : PartMade(Resblock(w, c, In(key, At("residual", b)), key, [x |-> y])))
        resampled == IF k < 3 THEN PartMade(Resample(w, In(key, "resample"), key, blocks.out, ~encode))
                     ELSE Made({}, blocks.out)
        skip == VOp(key, "skip", IF encode THEN "average_space_to_depth" ELSE "duplicate_depth_to_space",
                    [x |-> v.x], resampled.out.shape)
        sum == Residual(key, "add", Out(skip), resampled.out)
        beside == encode \/ k < 3
    IN  Part(Group(key, g, [x |-> x],
                   [out |-> IF beside THEN Out(sum) ELSE resampled.out]),
             blocks.nodes \cup resampled.nodes \cup (IF beside THEN {skip, sum} ELSE {}))

\* A stage of version 2.1 is one block or resampling.
WanStages(encode) == IF encode THEN Indices(11) ELSE Indices(15)
Resamples(encode) == IF encode THEN {2, 5, 8} ELSE {3, 7, 11}
Version22(c) == c.channels = 48
StagesOf(w, c, g, x, encode) ==
    IF Version22(c)
    THEN Along(x, Indices(4), LAMBDA y, k : PartMade(WanStage(w, c, g, y, k, encode)))
    ELSE Along(x, WanStages(encode),
               LAMBDA y, k : LET key == In(g, At("stage", k))
                             IN  PartMade(IF k \in Resamples(encode) THEN Resample(w, key, g, y, ~encode)
                                          ELSE Resblock(w, c, key, g, [x |-> y])))
Middle(w, c, g, x) ==
    LET first == Resblock(w, c, In(g, "middle.0"), g, [x |-> x.out])
        attention == SpatialAttention(w, c, In(g, "middle.1"), g, Out(first.group))
        last == Resblock(w, c, In(g, "middle.2"), g, [x |-> Out(attention.group)])
    IN  Made(x.nodes \cup first.nodes \cup attention.nodes \cup last.nodes, Out(last.group))
WanHead(w, c, g, x) ==
    LET norm == ChannelNorm(w, c, g, "head_norm", x)
        silu == Unary(g, "head_silu", "silu", Out(norm))
        head == Conv(w, g, "head", Out(silu), Still)
    IN  Made({norm, silu, head}, Out(head))

WanEncoder(w, c, parent, x) ==
    LET g == In(parent, "encoder")
        v == Inside(g, [x |-> x])
        patches == VOp(g, "patchify", "space_to_depth", [x |-> v.x], Shrunk(v.x.shape, 12, Space))
        given == IF Version22(c) THEN Node(patches) ELSE Made({}, v.x)
        conv == Conv(w, g, "conv_in", given.out, Still)
        stages == Middle(w, c, g, StagesOf(w, c, g, Node(conv), TRUE))
        head == WanHead(w, c, g, stages.out)
        quant == Conv(w, g, "quant", head.out, Still)
        mean == VOp(g, "mean", "posterior_mean", [moments |-> Out(quant)],
                    Shrunk(quant.outs.out, c.channels, Still))
        normalized == Unary(g, "normalize", "latent_normalization", Out(mean))
    IN  Part(Group(g, parent, [x |-> x], [out |-> Out(normalized)]),
             given.nodes \cup stages.nodes \cup head.nodes \cup {quant, mean, normalized})

WanDecoder(w, c, parent, x) ==
    LET g == In(parent, "decoder")
        unscaled == Unary(g, "unscale", "latent_denormalization", Inside(g, [x |-> x]).x)
        quant == Conv(w, g, "post_quant", Out(unscaled), Still)
        conv == Conv(w, g, "conv_in", Out(quant), Still)
        stages == StagesOf(w, c, g, Middle(w, c, g, Made({unscaled, quant, conv}, Out(conv))), FALSE)
        head == WanHead(w, c, g, stages.out)
        frames == VOp(g, "unpatchify", "depth_to_space", [x |-> head.out],
                      Grown(head.out.shape, 3, Space))
        last == IF Version22(c) THEN Node(frames) ELSE Made({}, head.out)
    IN  Part(Group(g, parent, [x |-> x], [out |-> last.out]),
             stages.nodes \cup head.nodes \cup last.nodes)

-----------------------------------------------------------------------------
(* ltx_vae()                                                               *)

\* The blocks of every stage, and none where it resizes.
LtxCounts(encode) == IF encode THEN <<4, 0, 6, 0, 6, 0, 2, 0, 2>> ELSE <<5, 0, 5, 0, 5, 0, 5>>
LtxTimes(encode, k) == IF encode /\ k = 1 THEN Space ELSE IF encode /\ k = 3 THEN Frames ELSE Both
CellsOf(times) == 2 ^ (times[1] + times[2] + times[3])

Multiplier == Weight(In(Pipeline, "timestep_scale_multiplier"))
Statistics == <<Weight(In(Pipeline, "mean-of-means")), Weight(In(Pipeline, "std-of-means"))>>
DecodeTime(w, g, name, time) ==
    TimeMlp(w, g, With(VOp(g, name, "sinusoidal_embedding", [time |-> time], <<B, TimeWidth>>),
                       <<Multiplier>>))

LtxResize(w, key, x, times, encode) ==
    LET conv == Conv(w, key, "conv", x, Still)
        made == w[Weight(conv.key)][1]
        shape == IF encode THEN Shrunk(x.shape, made * CellsOf(times), times)
                 ELSE Grown(x.shape, made \div 8, times)
        branch == VOp(key, "shuffle", IF encode THEN "space_to_depth" ELSE "pixel_shuffle3d",
                      [x |-> Out(conv)], shape)
        skip == VOp(key, "skip", IF encode THEN "space_to_depth_mean" ELSE "pixel_shuffle_repeat",
                    [x |-> x], shape)
        sum == Residual(key, "add", Out(skip), Out(branch))
    IN  Made({conv, branch, skip, sum}, Out(sum))

LtxStage(w, c, g, ins, k, encode) ==
    LET key == In(g, At("stage", k))
        v == Inside(key, ins)
        count == LtxCounts(encode)[k + 1]
        embedded == DecodeTime(w, key, "sinusoidal", v.time)
        time == IF encode THEN <<>> ELSE [time |-> embedded.out]
        blocks == Along(Made(IF encode THEN {} ELSE embedded.nodes, v.x), Indices(count),
                        LAMBDA y, b : PartMade(Resblock(w, c, In(key, At("residual", b)), key,
                                                        [x |-> y] @@ time)))
        inner == IF count = 0 THEN LtxResize(w, key, v.x, LtxTimes(encode, k), encode) ELSE blocks
    IN  Part(Group(key, g, ins, [out |-> inner.out]), inner.nodes)
LtxStages(w, c, g, v, x, encode) ==
    Along(x, Indices(Len(LtxCounts(encode))),
          LAMBDA y, k : PartMade(LtxStage(w, c, g, [x |-> y] @@ Given(v, {"time"}), k, encode)))

LtxEncoder(w, c, parent, x) ==
    LET g == In(parent, "encoder")
        v == Inside(g, [x |-> x])
        patches == VOp(g, "patchify", "space_to_depth", [x |-> v.x], Shrunk(v.x.shape, 48, <<0, 2, 2>>))
        conv == Conv(w, g, "conv_in", Out(patches), Still)
        stages == LtxStages(w, c, g, v, Made({patches, conv}, Out(conv)), TRUE)
        norm == ChannelNorm(w, c, g, "norm_out", stages.out)
        silu == Unary(g, "silu_out", "silu", Out(norm))
        moments == Conv(w, g, "conv_out", Out(silu), Still)
        posterior == VOp(g, "posterior", "posterior_sample", [moments |-> Out(moments)],
                         Shrunk(moments.outs.out, 128, Still))
        normalized == With(Unary(g, "normalize", "latent_normalization", Out(posterior)), Statistics)
    IN  Part(Group(g, parent, [x |-> x], [out |-> Out(normalized)]),
             stages.nodes \cup {norm, silu, moments, posterior, normalized})

LtxDecoder(w, c, parent, ins) ==
    LET g == In(parent, "decoder")
        v == Inside(g, ins)
        unscaled == With(Unary(g, "unscale", "latent_denormalization", v.x), Statistics)
        conv == Conv(w, g, "conv_in", Out(unscaled), Still)
        stages == LtxStages(w, c, g, v, Made({unscaled, conv}, Out(conv)), FALSE)
        norm == ChannelNorm(w, c, g, "norm_out", stages.out)
        embedded == DecodeTime(w, g, "time_sinusoidal", v.time)
        modulated == Stored(w, VOp(g, "modulation", "adaptive_scale_shift",
                                   [x |-> Out(norm), time |-> embedded.out], norm.outs.out))
        silu == Unary(g, "silu_out", "silu", Out(modulated))
        patches == Conv(w, g, "conv_out", Out(silu), Still)
        frames == VOp(g, "unpatchify", "depth_to_space", [x |-> Out(patches)],
                      Grown(patches.outs.out, 3, <<0, 2, 2>>))
    IN  Part(Group(g, parent, ins, [out |-> Out(frames)]),
             stages.nodes \cup embedded.nodes \cup {norm, modulated, silu, patches, frames})

-----------------------------------------------------------------------------
(* video.py: build()                                                       *)

ImageShape == <<B, 3, 1, Iy, Ix>>

ImageConditioning(w, c, ins) ==
    LET g == In(Pipeline, "image_conditioning")
        v == Inside(g, ins)
        image == Unary(g, "normalize", "image_normalization", v.image)
        clip == VOp(g, "reference_clip", "initial_frame_zero_extension",
                    [image |-> Out(image), configuration |-> v.configuration],
                    [ImageShape EXCEPT ![3] = Doubled(Lt, 2)])
        given == IF Beside(c) THEN clip ELSE image
        encoded == IF c.ltx THEN LtxEncoder(w, c, g, Out(given)) ELSE WanEncoder(w, c, g, Out(given))
        \* Four channels tell which frames are given.
        pack == VOp(g, "pack", "image_conditioning_latents",
                    [image_latents |-> Out(encoded.group), configuration |-> v.configuration],
                    IF Beside(c) THEN [Latents(c) EXCEPT ![2] = 20] ELSE Latents(c))
    IN  Part(Group(g, Pipeline, ins, [out |-> Out(pack)]), encoded.nodes \cup {image, given, pack})

Predicted(w, c, v, latent) ==
    LET conditioned == VOp(Loop, "conditioned_time", "conditioned_token_timesteps",
                           [time |-> v.time] @@ Given(v, {"image", "configuration"}), v.time.shape)
        shared == [latent |-> latent, context |-> v.text, text_mask |-> v.text_mask,
                   configuration |-> v.configuration]
        noisy == HasImage(c) /\ ~TwoExperts(c)
        time == IF noisy THEN Out(conditioned) ELSE v.time
        denoisers == [r \in Range(c.roles) |-> Denoiser(w, c, r, shared @@ [time |-> time])]
        selected == VOp(Loop, "expert_selection", "timestep_expert_selection",
                        [time |-> v.time] @@ [r \in Range(c.roles) |-> Out(denoisers[r].group)],
                        Latents(c))
    IN  Made(UNION {denoisers[r].nodes : r \in Range(c.roles)}
             \cup (IF noisy THEN {conditioned} ELSE {})
             \cup (IF TwoExperts(c) THEN {selected} ELSE {}),
             Out(IF TwoExperts(c) THEN selected ELSE denoisers[c.roles[1]].group))

Iteration(w, c, ins) ==
    LET v == Inside(Loop, ins)
        both == VOp(Loop, "concat", "concat", Given(v, {"latent", "image"}),
                    [Latents(c) EXCEPT ![2] = 36])
        predicted == Predicted(w, c, v, IF Beside(c) THEN Out(both) ELSE v.latent)
        guided == VOp(Loop, "cfg", "classifier_free_guidance",
                      [predictions |-> predicted.out] @@ Given(v, {"time", "configuration"}), Latents(c))
        velocity == IF c.ltx THEN predicted.out ELSE Out(guided)
        update == VOp(Loop, "update", "scheduler_step",
                      [velocity |-> velocity]
                      @@ Given(v, {"latent", "time", "history", "configuration", "image"}), Latents(c))
        history == VOp(Loop, "history_update", "solver_history_update",
                       [previous |-> v.history, velocity |-> velocity, time |-> v.time], NoShape)
    IN  Part(Group(Loop, Pipeline, ins, [out |-> Out(update), next_history |-> Out(history)]),
             predicted.nodes \cup {update, history}
             \cup (IF Beside(c) THEN {both} ELSE {}) \cup (IF c.ltx THEN {} ELSE {guided}))

Decoding(w, c, ins) ==
    LET g == In(Pipeline, "vae")
        v == Inside(g, ins)
        time == VOp(g, "decode_time", "decode_timestep", [configuration |-> v.configuration], <<B>>)
        noised == VOp(g, "decode_noise", "decode_noise_blend", v, v.latents.shape)
        decoded == IF c.ltx THEN LtxDecoder(w, c, g, [x |-> Out(noised), time |-> Out(time)])
                   ELSE WanDecoder(w, c, g, v.latents)
        video == Unary(g, "output_range", "video_output_range", Out(decoded.group))
    IN  Part(Group(g, Pipeline, ins, [out |-> Out(video)]),
             decoded.nodes \cup {video} \cup (IF c.ltx THEN {time, noised} ELSE {}))

\* The three states are passed on from iteration to iteration.
VideoNodes(w, c) ==
    LET g == Pipeline
        v == Inside(g, [p \in {"prompt", "configuration"} |-> [shape |-> NoShape]]
                       @@ (IF HasImage(c) THEN [image |-> [shape |-> ImageShape]] ELSE <<>>))
        configured == Given(v, {"configuration"})
        prompts == VOp(g, "guidance_prompts", "guidance_conditioning_batch",
                       Given(v, {"prompt", "configuration"}), NoShape)
        text == TextPart(w, c, IF c.ltx THEN v.prompt ELSE Out(prompts))
        noise == VOp(g, "noise", "initial_latent_noise", configured, Latents(c))
        image == ImageConditioning(w, c, Given(v, {"image", "configuration"}))
        start == VOp(g, "initialize", "condition_initial_latents",
                     [noise |-> Out(noise), image |-> Out(image.group)] @@ configured, Latents(c))
        initialized == HasImage(c) /\ ~Beside(c)
        state == VOp(g, "latent_state", "latent_state",
                     [initial |-> Out(IF initialized THEN start ELSE noise),
                      next |-> From(Loop, "out", Latents(c))], Latents(c))
        step == VOp(g, "step_state", "iteration_index",
                    [next |-> From(In(g, "increment"), "out", Scalar)], Scalar)
        schedule == VOp(g, "schedule", "denoising_schedule", [index |-> Out(step)] @@ configured, <<B, N>>)
        history == VOp(g, "solver_history", "symbolic_solver_history",
                       [next |-> From(Loop, "next_history", NoShape)], NoShape)
        loop == Iteration(w, c, [latent |-> Out(state), text |-> Out(text.group),
                                 text_mask |-> Port(text.group, "mask"), time |-> Out(schedule),
                                 history |-> Out(history)] @@ configured
                                @@ (IF HasImage(c) THEN [image |-> Out(image.group)] ELSE <<>>))
        increment == VOp(g, "increment", "next_iteration",
                         [index |-> Out(step), next_latent |-> Out(loop.group)], Scalar)
        final == VOp(g, "termination", "decode_when_schedule_complete",
                     [latent |-> Out(loop.group), index |-> Out(increment)] @@ configured, Latents(c))
        frames == Decoding(w, c, [latents |-> Out(final)] @@ configured)
    IN  text.nodes \cup loop.nodes \cup frames.nodes
        \cup {noise, state, step, schedule, history, increment, final,
              Group(g, Nowhere, v, [video |-> Out(frames.group)])}
        \cup (IF HasImage(c) THEN image.nodes ELSE {})
        \cup (IF initialized THEN {start} ELSE {}) \cup (IF c.ltx THEN {} ELSE {prompts})

-----------------------------------------------------------------------------
(* The inventories of video_reference.json, of the weights that are used.  *)

Matrix(key, out, in) == Weight(key) :> <<out, in>>
Biased(key, out, in) == Matrix(key, out, in) @@ (Bias(key) :> <<out>>)
Kernel(key, out, in, size) == (Weight(key) :> (<<out, in>> \o size)) @@ (Bias(key) :> <<out>>)
Cube == <<3, 3, 3>>
Point == <<1, 1, 1>>
Projections == <<"q", "k", "v", "output">>

TextLayerWeights(c, i) ==
    LET at(name) == <<<<i>>, name>>
        h == TextHidden
    IN  Merged([k \in 1..4 |-> Matrix(at("attention." \o Projections[k]), h, h)])
        @@ Matrix(at("mlp.gate"), 10240, h) @@ Matrix(at("mlp.up"), 10240, h)
        @@ Matrix(at("mlp.down"), h, 10240)
        @@ (Weight(at("layer.norm1")) :> <<h>>) @@ (Weight(at("mlp.norm")) :> <<h>>)
        @@ (IF c.text = "umt5" \/ i = 1 THEN Matrix(at("layer.bias"), 32, 64) ELSE <<>>)
TextWeights(c) ==
    Merged([i \in 1..c.textLayers |-> TextLayerWeights(c, i)])
    @@ Matrix(In(TextEncoder, "embed"), IF c.text = "t5" THEN 32128 ELSE 256384, TextHidden)
    @@ (Weight(In(TextEncoder, "final_norm")) :> <<TextHidden>>)

\* Wan's tables of times are of one sequence.
TimeTable(c, rows) == IF c.ltx THEN <<rows, c.hidden>> ELSE <<1, rows, c.hidden>>
DenoiserLayerWeights(c, i) ==
    LET at(name) == <<<<i>>, name>>
        h == c.hidden
        attention(name) ==
            Merged([k \in 1..4 |-> Biased(at(name \o "." \o Projections[k]), h, h)])
            @@ (Weight(at(name \o ".q_norm")) :> <<h>>) @@ (Weight(at(name \o ".k_norm")) :> <<h>>)
    IN  attention("self_attention") @@ attention("cross_attention")
        @@ Biased(at("mlp.up"), c.ffn, h) @@ Biased(at("mlp.down"), h, c.ffn)
        @@ (Weight(at("layer.modulation")) :> TimeTable(c, 6))
        @@ (IF c.ltx THEN <<>>
            ELSE (Weight(at("layer.norm3")) :> <<h>>) @@ (Bias(at("layer.norm3")) :> <<h>>))
DenoiserWeights(c, role) ==
    LET at(name) == In(In(Loop, role), name)
        h == c.hidden
    IN  Merged([k \in 1..c.layers |-> DenoiserLayerWeights(c, FirstBlock(c, role) + k)])
        @@ Biased(at("time_linear1"), h, TimeWidth) @@ Biased(at("time_linear2"), h, h)
        @@ Biased(at("time_projection"), 6 * h, h)
        @@ Biased(at("text_linear1"), h, TextHidden) @@ Biased(at("text_linear2"), h, h)
        @@ Biased(at("head"), c.patch * c.channels, h)
        @@ (Weight(at("head_modulation")) :> TimeTable(c, 2))
        @@ (IF c.ltx THEN Biased(at("projection"), h, c.in)
            ELSE Kernel(at("patchify"), h, c.in, <<1, 2, 2>>))

ResblockWeights(c, key, in, out) ==
    Kernel(In(key, "conv.0"), out, in, Cube) @@ Kernel(In(key, "conv.1"), out, out, Cube)
    @@ (IF c.ltx THEN <<>>
        ELSE (Weight(In(key, "norm.0")) :> (<<in>> \o Point)) @@ (Weight(In(key, "norm.1")) :> (<<out>> \o Point)))
    @@ (IF in = out THEN <<>> ELSE Kernel(In(key, "shortcut"), out, in, Point))
ResampleWeights(key, in, out, time) ==
    Kernel(In(key, "spatial_conv"), out, in, <<3, 3>>)
    @@ (IF time = 0 THEN <<>> ELSE Kernel(In(key, "time_conv"), time, in, <<3, 1, 1>>))

\* The channels after every stage, the first of which has those of the first convolution.
WanWidths(c, encode) ==
    CASE Version22(c) /\ encode -> <<160, 320, 640, 640>>
      [] Version22(c) /\ ~encode -> <<1024, 1024, 512, 256>>
      [] ~Version22(c) /\ encode -> <<96, 96, 96, 192, 192, 192, 384, 384, 384, 384, 384>>
      [] ~Version22(c) /\ ~encode ->
           <<384, 384, 384, 192, 384, 384, 384, 192, 192, 192, 192, 96, 96, 96, 96>>
\* The stages that resize the frames as well.
OverTime(c, encode) ==
    CASE Version22(c) /\ encode -> {1, 2}
      [] Version22(c) /\ ~encode -> {0, 1}
      [] ~Version22(c) /\ encode -> {5, 8}
      [] ~Version22(c) /\ ~encode -> {3, 7}
WanStageWeights(c, g, k, encode) ==
    LET key == In(g, At("stage", k))
        widths == WanWidths(c, encode)
        in == widths[IF k = 0 THEN 1 ELSE k]
        out == widths[k + 1]
        time(width) == IF k \notin OverTime(c, encode) THEN 0 ELSE IF encode THEN width ELSE 2 * width
    IN  CASE Version22(c) ->
               Merged([b \in 1..(IF encode THEN 2 ELSE 3) |->
                           ResblockWeights(c, In(key, At("residual", b - 1)), IF b = 1 THEN in ELSE out, out)])
               @@ (IF k < 3 THEN ResampleWeights(In(key, "resample"), out, out, time(out)) ELSE <<>>)
          [] ~Version22(c) /\ k \in Resamples(encode) -> ResampleWeights(key, in, out, time(in))
          [] ~Version22(c) /\ k \notin Resamples(encode) -> ResblockWeights(c, key, in, out)
MiddleWeights(c, g, width) ==
    LET attention(name) == In(In(g, "middle.1"), name)
    IN  ResblockWeights(c, In(g, "middle.0"), width, width)
        @@ ResblockWeights(c, In(g, "middle.2"), width, width)
        @@ (Weight(attention("norm")) :> <<width, 1, 1>>)
        @@ Kernel(attention("qkv"), 3 * width, width, <<1, 1>>)
        @@ Kernel(attention("projection"), width, width, <<1, 1>>)
WanVaeWeights(c, g, encode) ==
    LET widths == WanWidths(c, encode)
        colours == IF Version22(c) THEN 12 ELSE 3
        coded == c.channels
    IN  Merged([k \in DOMAIN widths |-> WanStageWeights(c, g, k - 1, encode)])
        @@ Kernel(In(g, "conv_in"), widths[1], IF encode THEN colours ELSE coded, Cube)
        @@ MiddleWeights(c, g, IF encode THEN Last(widths) ELSE widths[1])
        @@ (Weight(In(g, "head_norm")) :> (<<Last(widths)>> \o Point))
        @@ Kernel(In(g, "head"), IF encode THEN 2 * coded ELSE colours, Last(widths), Cube)
        @@ (IF encode THEN Kernel(In(g, "quant"), 2 * coded, 2 * coded, Point)
            ELSE Kernel(In(g, "post_quant"), coded, coded, Point))

LtxWidths(encode) ==
    IF encode THEN <<128, 256, 256, 512, 512, 1024, 1024, 2048, 2048>>
    ELSE <<1024, 512, 512, 256, 256, 128, 128>>
LtxConvs(encode) ==
    IF encode THEN (1 :> 64) @@ (3 :> 256) @@ (5 :> 128) @@ (7 :> 256)
    ELSE (1 :> 4096) @@ (3 :> 2048) @@ (5 :> 1024)
TimeMlpWeights(g, width) ==
    Biased(In(g, "time_linear1"), width, TimeWidth) @@ Biased(In(g, "time_linear2"), width, width)
LtxStageWeights(c, g, k, encode) ==
    LET key == In(g, At("stage", k))
        width == LtxWidths(encode)[k + 1]
        block(b) == In(key, At("residual", b - 1))
    IN  IF k \in DOMAIN LtxConvs(encode)
        THEN Kernel(In(key, "conv"), LtxConvs(encode)[k], LtxWidths(encode)[k], Cube)
        ELSE Merged([b \in 1..LtxCounts(encode)[k + 1] |->
                        ResblockWeights(c, block(b), width, width)
                        @@ (IF encode THEN <<>> ELSE Weight(block(b)) :> <<4, width>>)])
             @@ (IF encode THEN <<>> ELSE TimeMlpWeights(key, 4 * width))
LtxVaeWeights(c, g, encode) ==
    LET widths == LtxWidths(encode)
    IN  Merged([k \in DOMAIN widths |-> LtxStageWeights(c, g, k - 1, encode)])
        @@ Kernel(In(g, "conv_in"), widths[1], IF encode THEN 48 ELSE 128, Cube)
        @@ Kernel(In(g, "conv_out"), IF encode THEN 129 ELSE 48, Last(widths), Cube)
        @@ [s \in Range(Statistics) |-> <<128>>]
        @@ (IF encode THEN <<>>
            ELSE TimeMlpWeights(g, 256) @@ (Weight(In(g, "modulation")) :> <<2, 128>>)
                 @@ (Multiplier :> Scalar))

VaeWeights(c, g, encode) == IF c.ltx THEN LtxVaeWeights(c, g, encode) ELSE WanVaeWeights(c, g, encode)
VideoWeights(c) ==
    TextWeights(c) @@ Merged([r \in DOMAIN c.roles |-> DenoiserWeights(c, c.roles[r])])
    @@ VaeWeights(c, In(In(Pipeline, "vae"), "decoder"), FALSE)
    @@ (IF HasImage(c) THEN VaeWeights(c, In(In(Pipeline, "image_conditioning"), "encoder"), TRUE)
        ELSE <<>>)

VideoGraph(c) ==
    LET w == VideoWeights(c)
    IN  [nodes |-> VideoNodes(w, c), weights |-> w, results |-> {Pipeline}]
=============================================================================
