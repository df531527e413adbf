---------------------------- MODULE KevDescription ----------------------------
(***************************************************************************)
(* The description of Kev (architecture_analysis/kev.py, kev_config.py):   *)
(* the options of a question are decided on.  A request is packed into     *)
(* independent rows, the reviewed hybrid graph reads them without its      *)
(* head, and a pointer compares what stands at the decision with what      *)
(* stands at the options.  Linear operations of the layers have adapters.  *)
(*                                                                         *)
(* c is the geometry of the backbone, with that of the pointer and of the  *)
(* adapter; c.targets are the patterns of the adapter, each the name of    *)
(* modules, and c.factors the factors that the checkpoint has.             *)
(***************************************************************************)
EXTENDS Qwen35Description

Adaptable ==
    {"gate_proj", "up_proj", "down_proj", "q_proj", "k_proj", "v_proj", "o_proj",
     "in_proj_qkv", "in_proj_z", "in_proj_a", "in_proj_b", "out_proj"}
\* The modules that a pattern means: a pattern may be absent from some layers.
Meant(c, pattern) ==
    {w \in DOMAIN QwenWeights(c) : w[2] = pattern /\ w[2] \in Adaptable /\ w[1] # <<>>}
Wanted(c) == UNION {Meant(c, pattern) : pattern \in c.targets}

\* factor_bindings: every pattern means something, and every module meant has both factors.
\* Mutant: one factor is enough.
Bound_Either(c) ==
    /\ \A pattern \in c.targets : Meant(c, pattern) # {}
    /\ c.factorRank = c.rank
    /\ {<<f[1], f[2]>> : f \in c.factors} = {<<w[1], w[2]>> : w \in Wanted(c)}
Bound(c) ==
    /\ \A pattern \in c.targets : Meant(c, pattern) # {}
    /\ c.factorRank = c.rank
    /\ c.factors = {<<w[1], w[2], factor>> : w \in Wanted(c), factor \in {"A", "B"}}

\* head_configuration and configuration(): the adapter has the rank that the pointer states.
HeadAdmitted(c) == c.headDim > 0 /\ c.headRank > 0
KevAdmitted(c) ==
    /\ QwenAdmitted(c) /\ "linear" \in Range(c.types)
    /\ HeadAdmitted(c) /\ c.headRank = c.rank /\ Bound(c)

-----------------------------------------------------------------------------
\* An adapted operation becomes a group of its own, with the operation in it.
Suffix == [A |-> ".A", B |-> ".B"]
FactorWeight(key, factor) == Weight(<<key[1], key[2] \o Suffix[factor]>>)
Adapted(c, n) ==
    LET key == n.key
        x == Inside(key, n.ins).x
        out == n.outs.out
        part(name, op, ins, dims) == Op(key, key[2] \o name, op, ins, dims)
        factor(f, ins, dims) == With(part(Suffix[f], f, ins, dims), <<FactorWeight(key, f)>>)
        base == With(part(".base", "linear", [x |-> x], out), n.params)
        a == factor("A", [x |-> x], Append(Front(x.shape), c.rank))
        b == factor("B", [x |-> Out(a)], out)
        scale == part(".scale", "scale", [x |-> Out(b)], out)
        add == part(".add", "add", [base |-> Out(base), lora |-> Out(scale)], out)
    IN  Part(Group(key, n.parent, n.ins, [out |-> Out(add)]), {base, a, b, scale, add})

\* The backbone: the nodes of the layers as they are, without the inputs and the head, with
\* the parameters that are stored: the regions of a fused one are not.
Regions == {"query", "gate"}
Backbone == <<<<>>, "backbone">>
Outside == {<<<<>>, name>> :
              name \in {"token_ids", "positions", "mask", "current_mask", "lm_head", "logits"}}
Kept(g) ==
    {With(n, SelectSeq(n.params, LAMBDA w : w[2] \notin Regions)) :
        n \in {m \in g.nodes : m.key \notin Outside \cup {QwenModel}}}
AdaptedIn(c, nodes) == {n \in nodes : n.op = "linear" /\ Weight(n.key) \in Wanted(c)}
Adapting(c, rows, nodes) ==
    Part(Group(Backbone, Nowhere, rows, [out |-> Out(NodeOf([nodes |-> nodes], <<<<>>, "norm">>))]),
         (nodes \ AdaptedIn(c, nodes)) \cup UNION {Adapted(c, n).nodes : n \in AdaptedIn(c, nodes)})
BackboneOf(c, rows) ==
    Adapting(c, rows, Copied(Kept(QwenGraph(c)), QwenModel :> Backbone, <<>>))

-----------------------------------------------------------------------------
\* The request: state and questions are texts, packed and then cut into rows.
Text == <<0>>
Request == <<<<>>, "request">>
RowShapes(c) ==
    [tokens |-> <<B, S>>, positions |-> <<3, B, S>>, mask |-> <<B, Length(c)>>,
     current_mask |-> <<B, S>>]
Readouts == [decide_idx |-> <<B>>, opt_idx |-> <<B, O>>]
Packed == [p \in {"ids", "seg", "pos", "opt"} |-> <<L>>] @@ Readouts

RequestOf(c) ==
    LET texts == [state |-> Out(Input("state", Text)), questions |-> Out(Input("questions", Text))]
        encode == NodeIn(Request, "request.encode", "kev_request_encoding",
                         Inside(Request, texts), Packed, <<>>)
        rows == NodeIn(Request, "row.tokens", "independent_causal_rows",
                       [p \in DOMAIN Packed |-> Port(encode, p)],
                       RowShapes(c) @@ [row_decide_idx |-> <<B>>, row_opt_idx |-> <<B, O>>], <<>>)
        outs == [p \in DOMAIN RowShapes(c) |-> Port(rows, p)]
                @@ [decide_idx |-> Port(rows, "row_decide_idx"),
                    opt_idx |-> Port(rows, "row_opt_idx")]
    IN  Part(Group(Request, Nowhere, texts, outs),
             {encode, rows, Input("state", Text), Input("questions", Text)})

\* The pointer, and what it is given.
Pointer == <<<<>>, "pointer">>
PointerOf(c, hidden, request) ==
    LET h == c.hidden
        select(name, op, index, dims) ==
            Op(Nowhere, name, op, [x |-> hidden, index |-> Port(request, index)], dims)
        decide == select("select.decide", "decide", "decide_idx", <<B, h>>)
        options == select("select.options", "options", "opt_idx", <<B, O, h>>)
        ins == [decide |-> Out(decide), options |-> Out(options)]
        v == Inside(Pointer, ins)
        projection(name, op, x, dims) ==
            LET n == Op(Pointer, name, op, [x |-> x], dims)
            IN  With(n, <<Weight(n.key), Bias(n.key)>>)
        q == projection("pointer.q", "q", v.decide, <<B, c.headDim>>)
        k == projection("pointer.k", "k", v.options, <<B, O, c.headDim>>)
        dot == Op(Pointer, "pointer.dot", "dot", [q |-> Out(q), k |-> Out(k)], <<B, O>>)
        then(name, op, n) == Op(Pointer, name, op, [x |-> Out(n)], <<B, O>>)
        scale == then("pointer.scale", "scale", dot)
        temperature == then("pointer.temperature", "temperature", scale)
        softmax == then("pointer.softmax", "softmax", temperature)
    IN  Part(Group(Pointer, Nowhere, ins, [out |-> Out(softmax)]),
             {decide, options, q, k, dot, scale, temperature, softmax})

\* parameters: those that are stored of the backbone but for its head, the factors, and those
\* of the pointer.
KevWeights(c) ==
    LET native == QwenWeights(c)
        shape(f) == LET w == native[<<f[1], f[2], "weight">>]
                    IN  IF f[3] = "A" THEN <<c.factorRank, w[2]>> ELSE <<w[1], c.factorRank>>
        factors == {<<FactorWeight(<<f[1], f[2]>>, f[3]), shape(f)>> : f \in c.factors}
        pointer == {<<<<>>, "pointer.q">>, <<<<>>, "pointer.k">>}
    IN  [w \in {v \in DOMAIN native : v[2] \notin Regions \cup {"lm_head"}} |-> native[w]]
        @@ [w \in {f[1] : f \in factors} |-> (CHOOSE f \in factors : f[1] = w)[2]]
        @@ [w \in {Weight(n) : n \in pointer} |-> <<c.headDim, c.hidden>>]
        @@ [w \in {Bias(n) : n \in pointer} |-> <<c.headDim>>]

Decided(c, request, backbone) ==
    LET pointer == PointerOf(c, Out(backbone.group), request.group)
        result == Op(Nowhere, "probabilities", "logits", [x |-> Out(pointer.group)], <<B, O>>)
    IN  [nodes |-> request.nodes \cup backbone.nodes \cup pointer.nodes \cup {result},
         weights |-> KevWeights(c),
         results |-> {<<<<>>, "probabilities">>}]
Reading(c, request) ==
    Decided(c, request, BackboneOf(c, [p \in DOMAIN RowShapes(c) |-> Port(request.group, p)]))
KevGraph(c) == Reading(c, RequestOf(c))
=============================================================================
