--------------------------- MODULE Glm4Description ----------------------------
(***************************************************************************)
(* The description of GLM-4.7-Flash (architecture_analysis/                *)
(* glm4_moe_lite.py): what is carried between passes is the compressed     *)
(* state itself, from which the keys and values of all tokens are rebuilt; *)
(* experts are chosen within chosen groups of experts, by scores with a    *)
(* correction that the weights do not have.                                *)
(***************************************************************************)
EXTENDS DeepseekDescription

\* The query is compressed too; the choice of experts has its bias.
GlmWeights(c) ==
    OuterShapes(c)
    @@ Merged([i \in 1..c.layers |->
          Named(<<i>>, LayerNorms(c) @@ LatentShapes(c)
                       @@ [q_a_proj |-> <<c.qRank, c.hidden>>, q_a_layernorm |-> <<c.qRank>>,
                           q_b_proj |-> <<c.heads * QueryWidth(c), c.qRank>>])
          @@ FeedForwardShapes(c, i)
          @@ IF IsDense(i) THEN <<>> ELSE Bias(<<<<i>>, "gate">>) :> <<c.experts>>])

\* expert_storage_shapes, fused_expert_regions: the matrices of all experts of a layer may be
\* stored as two arrays; where expert e has its rows <<array, first, last>> in one.
ExpertStorage(c) ==
    [gate_up_proj |-> <<c.experts, 2 * c.width, c.hidden>>,
     down_proj |-> <<c.experts, c.hidden, c.width>>]
ExpertRegion(c, e) ==
    [gate_proj |-> <<"gate_up_proj", e, 1, c.width>>,
     up_proj |-> <<"gate_up_proj", e, c.width + 1, 2 * c.width>>,
     down_proj |-> <<"down_proj", e, 1, c.hidden>>]

\* The regions of a layer have the shapes of the matrices and share the arrays out.
RegionsShareOut(c) ==
    LET regions(array) ==
            {ExpertRegion(c, p[1])[p[2]] : p \in {q \in (1..c.experts) \X {"gate_proj", "up_proj", "down_proj"} :
                                                    ExpertRegion(c, q[1])[q[2]][1] = array}}
    IN  /\ \A e \in 1..c.experts, name \in {"gate_proj", "up_proj", "down_proj"} :
              LET region == ExpertRegion(c, e)[name]
              IN  <<region[4] - region[3] + 1, ExpertStorage(c)[region[1]][3]>>
                      = MlpShapes(c.hidden, c.width)[name]
        /\ \A array \in DOMAIN ExpertStorage(c) :
              LET whole == ExpertStorage(c)[array]
              IN  \A e \in 1..whole[1], row \in 1..whole[2] :
                      Cardinality({q \in regions(array) :
                                      q[2] = e /\ q[3] <= row /\ row <= q[4]}) = 1

-----------------------------------------------------------------------------
(* build_attention                                                         *)

\* Mutant: the keys are rebuilt from the tokens of this pass only.
Rebuilt_Now(c, next, now) == Out(now)
\* What the keys and values are rebuilt from: the extended state.
Rebuilt(c, next, now) == Out(next)

\* A query that is compressed and projected up again.
GlmQuery(c, g, v) ==
    LET qa == Linear(g, "q_a_proj", v.x, c.qRank)
        qn == Norm(g, "q_a_layernorm", Out(qa))
        query == TurnedQuery(c, g, Linear(g, "q_b_proj", Out(qn), c.heads * QueryWidth(c)), v)
    IN  [query EXCEPT !.nodes = @ \cup {qa, qn}]

\* The latent state of this pass and its rotary part, of one head each, and both extended.
GlmStates(c, g, v) ==
    LET kv == Linear(g, "kv_a_proj_with_mqa", v.x, c.kvRank + c.rope)
        split == NodeIn(g, "kv_a_split", "split", [x |-> Out(kv)],
                        [latent |-> <<B, S, c.kvRank>>, rotary_key |-> <<B, S, c.rope>>], <<>>)
        norm == Norm(g, "kv_a_layernorm", Port(split, "latent"))
        latent == Op(g, "kv_latent_head", "reshape", [x |-> Out(norm)], <<B, 1, S, c.kvRank>>)
        rotary == <<B, 1, S, c.rope>>
        one == Op(g, "k_rope_head", "reshape", [x |-> Port(split, "rotary_key")], rotary)
        rope == Op(g, "k_rope", "rotary_position",
                   [x |-> Out(one), cos |-> v.cos, sin |-> v.sin, positions |-> v.positions],
                   rotary)
        nextLatent == Appended(g, "kv_latent_cache_update", v.prior_key_state, Out(latent), PS)
        nextRotary == Appended(g, "rotary_key_cache_update", v.prior_value_state, Out(rope), PS)
    IN  [latent |-> latent, nextLatent |-> nextLatent, nextRotary |-> nextRotary,
         nodes |-> {kv, split, norm, latent, one, rope, nextLatent, nextRotary}]

GlmAttention(c, i, ins) ==
    LET g == SelfAttention(i)
        v == Inside(g, ins)
        by(width) == <<B, c.heads, PS, width>>
        square == <<B, c.heads, S, PS>>
        query == GlmQuery(c, g, v)
        states == GlmStates(c, g, v)
        rebuilt == Linear(g, "kv_b_proj", Rebuilt(c, states.nextLatent, states.latent),
                          c.heads * (c.nope + c.value))
        heads == Op(g, "kv_heads", "reshape_transpose", [x |-> Out(rebuilt)], by(c.nope + c.value))
        parts == NodeIn(g, "kv_b_split", "split", [x |-> Out(heads)],
                        [key_non_rotary |-> by(c.nope), value |-> by(c.value)], <<>>)
        repeat == Op(g, "k_rope_repeat", "repeat_kv", [x |-> Out(states.nextRotary)], by(c.rope))
        key == Op(g, "key_recombine", "concat",
                  [non_rotary |-> Port(parts, "key_non_rotary"), rotary |-> Out(repeat)],
                  by(QueryWidth(c)))
        scores == Op(g, "attention_scores", "attention_product",
                     [query |-> Out(query.group), key |-> Out(key)], square)
        probabilities == Op(g, "attention_softmax", "softmax",
                            [scores |-> Out(scores), mask |-> v.causal_mask], square)
        context == Op(g, "attention_values", "attention_product",
                      [probabilities |-> Out(probabilities), values |-> Port(parts, "value")],
                      <<B, c.heads, S, c.value>>)
        merged == Op(g, "merge_heads", "reshape_transpose", [x |-> Out(context)],
                     <<B, S, c.heads * c.value>>)
        out == Linear(g, "o_proj", Out(merged), c.hidden)
    IN  Part(Group(g, DecoderLayer(i), ins,
                   [out |-> Out(out), next_key_state |-> Out(states.nextLatent),
                    next_value_state |-> Out(states.nextRotary)]),
             query.nodes \cup states.nodes
             \cup {rebuilt, heads, parts, repeat, key, scores, probabilities, context, merged, out})

-----------------------------------------------------------------------------
(* routed_expert, moe_mlp                                                  *)

\* Choosing experts by group: the chosen indices and their weights.
GroupedChoice(c, g, corrected, scores) ==
    LET chosen == <<B, S, c.topK>>
        each == scores.outs.out
        sums == Op(g, "group_top2_score_sum", "group_topk_score_sum", [scores |-> Out(corrected)],
                   <<B, S, c.groups>>)
        groups == Op(g, "group_topk", "topk_selection", [scores |-> Out(sums)],
                     <<B, S, c.topGroups>>)
        mask == Op(g, "group_mask", "group_expert_mask", [group_indices |-> Out(groups)], each)
        masked == Op(g, "masked_selection_scores", "mask_invalid",
                     [scores |-> Out(corrected), mask |-> Out(mask)], each)
        indices == Op(g, "expert_topk", "topk_selection", [scores |-> Out(masked)], chosen)
        raw == Op(g, "selected_raw_weights", "gather",
                  [scores |-> Out(scores), indices |-> Out(indices)], chosen)
        normalized == Op(g, "normalize_topk_weights", "normalize", [weights |-> Out(raw)], chosen)
        weights == Op(g, "scale_topk_weights", "multiply", [weights |-> Out(normalized)], chosen)
    IN  [indices |-> Out(indices), weights |-> Out(weights),
         nodes |-> {sums, groups, mask, masked, indices, raw, normalized, weights}]

\* Mutant: the correction is left out of the inventory's use.
Correction_Dropped(g) == <<>>
Correction(g) == <<Bias(<<g[1], "gate">>)>>

\* Dispatch and network of an expert are one operation.
GlmExpert(c, g, i, e, in, choice) ==
    [key |-> Expert(i, e), parent |-> g, op |-> "routed_swiglu_expert",
     ins |-> [hidden_states |-> in, expert_indices |-> choice.indices,
              expert_weights |-> choice.weights],
     outs |-> [expert_values |-> <<Routed(i, e), c.hidden>>, positions |-> <<Routed(i, e), 2>>],
     params |-> ExpertWeights(i, e)]

GlmMixture(c, i, x) ==
    LET g == Mixture(i)
        in == Inside(g, [x |-> x]).x
        each == <<B, S, c.experts>>
        logits == Linear(g, "gate", in, c.experts)
        scores == Op(g, "router_sigmoid", "sigmoid", [logits |-> Out(logits)], each)
        corrected == With(Op(g, "selection_scores", "add", [scores |-> Out(scores)], each),
                          Correction(g))
        choice == GroupedChoice(c, g, corrected, scores)
        expert(e) == GlmExpert(c, g, i, e, in, choice)
        routed == Scattered(c, [e \in 1..c.experts |-> Port(expert(e), "expert_values")],
                            [e \in 1..c.experts |-> Port(expert(e), "positions")])
    IN  Combined(c, g, i, x, routed,
                 {logits, scores, corrected} \cup choice.nodes \cup {expert(e) : e \in 1..c.experts})

\* build: the states have one head.
GlmCarried(c) == [prior_key_state |-> State(1, c.kvRank, "next_key_state"),
                  prior_value_state |-> State(1, c.rope, "next_value_state")]
GlmLayer(c, i, ins) ==
    Layered(c, i, ins, GlmAttention(c, i, Attended(i, ins)),
            Feed(c, i, GlmMixture(c, i, FeedInput(c, i))))
GlmGraph(c) ==
    LET states == GlmCarried(c)
        layers == [i \in 1..c.layers |-> GlmLayer(c, i, RotaryInputs(c, states, i))]
    IN  [nodes |-> RotaryDecoder(c, states, layers),
         weights |-> GlmWeights(c),
         results |-> {Decoder}]
=============================================================================
