---------------------------- MODULE ClmDescription ----------------------------
(***************************************************************************)
(* The description of CLM (architecture_analysis/clm.py, clm_config.py):   *)
(* candidates are scored against a state.  The reviewed graph of a dense   *)
(* encoder is taken twice, with other symbols and without what generates   *)
(* tokens, and each of the two ends in a head of its own.                  *)
(*                                                                         *)
(* c is the geometry of the encoder with that of the heads; c.stored is    *)
(* the geometry with which the heads of the checkpoint were saved.         *)
(***************************************************************************)
EXTENDS DenseDescription

Calls == {"state_encoder", "candidate_encoder"}
HeadFor(call) == IF call = "state_encoder" THEN "state_head" ELSE "action_head"
Batch(call) == IF call = "state_encoder" THEN B ELSE C
Sequence(call) == IF call = "state_encoder" THEN Ss ELSE Sc

\* The places in a head, and the same with what is before it.
HiddenName == <<"hidden.0", "hidden.1", "hidden.2">>
NormsName == <<"norms.0", "norms.1", "norms.2">>
ActivationName == <<"activation.0", "activation.1", "activation.2">>
ResidualName == <<"residual.0", "residual.1", "residual.2">>
InHead(call, name) == <<<<>>, "clm." \o HeadFor(call) \o "." \o name>>

\* head_shapes, under the name of each head.
HeadShapes(h, call) ==
    LET of(name, out, in) ==
            (Weight(InHead(call, name)) :> <<out, in>>) @@ (Bias(InHead(call, name)) :> <<out>>)
        norm(name) ==
            (Weight(InHead(call, name)) :> <<h.width>>) @@ (Bias(InHead(call, name)) :> <<h.width>>)
        hidden == [k \in 1..(h.depth - 2) |->
                      of(HiddenName[k], h.width, h.width)
                      @@ (IF h.layernorm THEN norm(NormsName[k]) ELSE <<>>)]
    IN  of("inp", h.width, h.hidden) @@ of("out", h.proj, h.width) @@ Merged(hidden)

Similarity == Weight(<<<<>>, "clm.logit_scale">>)
ClmShapes(h) ==
    (Similarity :> Scalar)
    @@ HeadShapes(h, "state_encoder") @@ HeadShapes(h, "candidate_encoder")

\* head_configuration, against the width of the encoder.
HeadAdmitted(c) ==
    /\ c.depth \in 2..16 /\ c.width > 0 /\ c.proj > 0
    /\ c.activation \in {"gelu", "relu", "silu"} /\ c.headHidden = c.hidden

\* configuration(): the encoder is an admitted one, plain, and the parameters of the heads
\* are exactly the expected ones.
\* Mutant: parameters that were stored and are not expected are let through.
ClmAdmitted_Subset(c) ==
    /\ Admitted(c) /\ c.qwen /\ c.lora = {} /\ HeadAdmitted(c)
    /\ \A w \in DOMAIN ClmShapes(c) :
          w \in DOMAIN ClmShapes(c.stored) /\ ClmShapes(c.stored)[w] = ClmShapes(c)[w]
ClmAdmitted(c) ==
    /\ Admitted(c) /\ c.qwen /\ c.lora = {} /\ HeadAdmitted(c)
    /\ ClmShapes(c.stored) = ClmShapes(c)

-----------------------------------------------------------------------------
\* Definition.head
HeadOf(c, call, source) ==
    LET key == <<<<>>, "clm." \o HeadFor(call)>>
        wide == <<Batch(call), c.width>>
        op(name, kind, ins, dims) == Op(key, InHead(call, name)[2], kind, ins, dims)
        bound(n) == With(n, <<Weight(n.key), Bias(n.key)>>)
        inp == bound(op("inp", "linear", Inside(key, [x |-> source]), wide))
        first == op("inp_activation", c.activation, [x |-> Out(inp)], wide)
        \* The k-th hidden projection and what follows it.
        Block(k, skip) ==
            LET hidden == bound(op(HiddenName[k], "linear", [x |-> skip], wide))
                norm == bound(op(NormsName[k], "layer_norm", [x |-> Out(hidden)], wide))
                act == op(ActivationName[k], c.activation,
                          [x |-> Out(IF c.layernorm THEN norm ELSE hidden)], wide)
                sum == op(ResidualName[k], "add", [skip |-> skip, branch |-> Out(act)], wide)
            IN  {hidden, act} \cup (IF c.layernorm THEN {norm} ELSE {})
                \cup (IF c.residual THEN {sum} ELSE {})
        before(k) == From(IF k = 1 THEN first.key
                          ELSE InHead(call, IF c.residual THEN ResidualName[k - 1]
                                            ELSE ActivationName[k - 1]), "out", wide)
        out == bound(op("out", "linear", [x |-> before(c.depth - 1)], <<Batch(call), c.proj>>))
    IN  Part(Group(key, Nowhere, [x |-> source], [out |-> Out(out)]),
             {inp, first, out} \cup UNION {Block(k, before(k)) : k \in 1..(c.depth - 2)})

\* The encoder under one of the two calls: the layers of the second follow those of the
\* first.  Its inputs become ports of its group, its head and its results are left out.
Interfaces == {"input_ids", "position_ids", "attention_mask"}
Excluded == {<<<<>>, name>> : name \in Interfaces \cup {"lm_head", "logits"}}
Encoding(g) ==
    LET passed(v) == IF v.node \in Excluded THEN From(Model, v.node[2], v.shape) ELSE v
    IN  {[n EXCEPT !.ins = [p \in DOMAIN @ |-> passed(@[p])]] :
            n \in {m \in g.nodes : m.key \notin Excluded \cup {Model}}}

Places(c, call, nodes) ==
    LET first == IF call = "state_encoder" THEN 0 ELSE c.layers
    IN  [k \in {Model} \cup {n.key : n \in nodes} |->
            CASE k = Model -> <<<<>>, call>>
              [] k # Model /\ k[1] = <<>> -> <<<<>>, call \o "." \o k[2]>>
              [] k[1] # <<>> -> <<<<k[1][1] + first>>, k[2]>>]
InterfaceInputs(call) ==
    LET dims(name) == IF name = "attention_mask"
                      THEN <<Batch(call), 1, Sequence(call), Sequence(call)>>
                      ELSE <<Batch(call), Sequence(call)>>
    IN  [name \in Interfaces |-> Input(call \o "." \o name, dims(name))]

Called(call, nodes, inputs) ==
    Part(Group(<<<<>>, call>>, Nowhere, [name \in Interfaces |-> Out(inputs[name])],
               [out |-> Out(NodeOf([nodes |-> nodes], <<<<>>, call \o ".norm">>))]),
         nodes \cup Range(inputs))
CopiedFor(c, call, nodes) ==
    Copied(nodes, Places(c, call, nodes), (B :> Batch(call)) @@ (S :> Sequence(call)))
Encoder(c, call, g) == Called(call, CopiedFor(c, call, Encoding(g)), InterfaceInputs(call))

\* The vector of the last token, normalized, through the head, and normalized again.
Projected(c, call) ==
    Op(Nowhere, call \o ".projection_normalize", "l2_normalize",
       [x |-> From(<<<<>>, "clm." \o HeadFor(call)>>, "out", <<Batch(call), c.proj>>)],
       <<Batch(call), c.proj>>)
AfterEncoder(c, call, encoder) ==
    LET vector == <<Batch(call), c.hidden>>
        lengths == Input(call \o ".lengths", <<Batch(call)>>)
        pooled == Op(Nowhere, call \o ".pool", "last_token_pool",
                     [x |-> Out(encoder.group), lengths |-> Out(lengths)], vector)
        normalized == Op(Nowhere, call \o ".normalize", "encoder_normalize",
                         [x |-> Out(pooled)], vector)
    IN  encoder.nodes \cup HeadOf(c, call, Out(normalized)).nodes
        \cup {lengths, pooled, normalized, Projected(c, call)}

Call(c, call) == AfterEncoder(c, call, Encoder(c, call, DenseGraph(c)))

\* architecture(): every state against every candidate.
ClmGraph(c) ==
    LET all == <<B, C>>
        cosine == Op(Nowhere, "cosine", "dot_product",
                     [state |-> Out(Projected(c, "state_encoder")),
                      candidates |-> Out(Projected(c, "candidate_encoder"))], all)
        scale == With(Op(Nowhere, "scale", "exp_clamp", NoPorts, Scalar), <<Similarity>>)
        temperature == Input("temperature", Scalar)
        scores == Op(Nowhere, "scores", "scale",
                     [cosine |-> Out(cosine), scale |-> Out(scale),
                      temperature |-> Out(temperature)], all)
        probabilities == Op(Nowhere, "probabilities", "softmax", [x |-> Out(scores)], all)
        result(name, n) == Op(Nowhere, name, "logits", [x |-> Out(n)], all)
        results == {result("score_output", scores), result("probability_output", probabilities)}
        native == Weights(c)
    IN  [nodes |-> UNION {Call(c, call) : call \in Calls}
                   \cup {cosine, scale, temperature, scores, probabilities} \cup results,
         weights |-> [w \in DOMAIN native \ {Weight(<<<<>>, "lm_head">>)} |-> native[w]]
                     @@ ClmShapes(c.stored),
         results |-> {n.key : n \in results}]
=============================================================================
