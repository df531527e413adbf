------------------------ MODULE MCArchitectureAnalysis ------------------------
(***************************************************************************)
(* Small configurations whose dimensions differ from each other, so that   *)
(* no wrong shape is right by coincidence, and the budgets at which a      *)
(* graph fits in full, only without annotations, only compact, or not.     *)
(***************************************************************************)
EXTENDS ArchitectureAnalysis, ArchitectureDescriptions

Of(family, configs, limits) ==
    [family : {family}, config : configs, agrees : {TRUE}, limit : limits, work : {1000}]

Common == [hidden |-> 6, intermediate |-> 14, vocab |-> 22]
Completed(set) == {Common @@ c : c \in set}

Smallest(set) ==
    CHOOSE c \in set : c.heads = 2 /\ ("lora" \in DOMAIN c => c.lora = {} /\ c.factors = {})
DenseConfigs == Completed(
    [layers : {2}, heads : {2, 4}, kv : {2}, dim : {2, 3}, qwen : BOOLEAN,
     attentionBias : BOOLEAN, mlpBias : {FALSE}, lora : {{}, {"q_proj", "lm_head"}},
     factors : {{}, {"q_proj", "lm_head"} \X {"A", "B"}}, rank : {3}, factorRank : {3}])
OtherFactors ==
    {[Smallest(DenseConfigs) EXCEPT !.lora = {"v_proj"}, !.factors = f, !.factorRank = r] :
        f \in {{"v_proj"} \X {"A", "B"}, {"v_proj"} \X {"A"}, {"v_proj", "lm_head"} \X {"A", "B"}},
        r \in {3, 4}}
QwenConfigs == Completed(
    [types : {<<"linear", "full", "linear", "full", "linear">>}, heads : {2, 4}, kv : {1, 2},
     dim : {8, 16}, sections : {1, 2}, cache : BOOLEAN, keyHeads : {2}, valueHeads : {2, 4},
     keyDim : {3}, valueDim : {5}, kernel : {4}])
Latent == [heads : {2, 4}, nope : {5}, rope : {4}, value : {7}, kvRank : {9}, experts : {2, 3},
           topK : {1}, shared : {1, 2}, width : {11}, layers : {3}]
DeepseekConfigs == Completed(Latent)
GlmConfigs == Completed({[qRank |-> 8, groups |-> 1, topGroups |-> 1] @@ c : c \in Latent})
KimiConfigs == Completed(
    {[types |-> t, kdaHeads |-> 3, kdaDim |-> 5, kernel |-> 4] @@ c :
        t \in {<<"kda", "mla", "kda">>, <<"kda", "kda", "mla">>},
        c \in {l \in Latent : l.experts = 2}})

\* Heads that were saved as they are described, or with another depth.
ClmConfigs == Completed(
    {h @@ [stored |-> [h EXCEPT !.depth = d], headHidden |-> expected] @@
     [layers |-> 2, heads |-> 4, kv |-> 2, dim |-> 2, qwen |-> TRUE, attentionBias |-> FALSE,
      mlpBias |-> FALSE, lora |-> {}, factors |-> {}, rank |-> 3, factorRank |-> 3] :
        d \in {2, 4}, expected \in {6, 10},
        h \in [hidden : {6}, width : {10}, proj : {8}, depth : {2, 4}, activation : {"gelu"},
               layernorm : BOOLEAN, residual : BOOLEAN]})

\* Adapters of the operations of one kind of layer, of the other, or of both, with all their
\* factors, and without one.
Complete3(layers, names) == {<<<<i>>, n, f>> : i \in layers, n \in names, f \in {"A", "B"}}
Adapters ==
    {[targets |-> {"q_proj"}, factors |-> Complete3({2, 4}, {"q_proj"})],
     [targets |-> {"in_proj_z", "out_proj"}, factors |-> Complete3({1, 3, 5}, {"in_proj_z", "out_proj"})],
     [targets |-> {"down_proj"}, factors |-> Complete3(1..5, {"down_proj"})],
     [targets |-> {"q_proj"}, factors |-> Complete3({2, 4}, {"q_proj"}) \ {<<<<4>>, "q_proj", "A">>}],
     [targets |-> {"q_proj"}, factors |-> Complete3({2}, {"q_proj"})],
     [targets |-> {"norm"}, factors |-> {}]}
KevConfigs ==
    {c @@ a @@ ranks @@ [headDim |-> 17] :
        ranks \in {[rank |-> 3, factorRank |-> 3, headRank |-> 3],
                   [rank |-> 3, factorRank |-> 4, headRank |-> 3],
                   [rank |-> 3, factorRank |-> 3, headRank |-> 4]},
        a \in Adapters,
        c \in {q \in QwenConfigs : q.cache /\ q.heads = 4 /\ q.dim = 16 /\ q.sections = 2}}

\* The smaller heads leave no room for three axes.
Vjepa2Configs ==
    [layers : {1, 2}, predLayers : {2}, hidden : {24}, heads : {2, 4, 6}, predHidden : {18},
     predHeads : {3}, ratio : {<<4, 1>>}, predRatio : {<<7, 4>>}, qkvBias : BOOLEAN,
     channels : {3}, tubelet : {2}, patch : {16}, crop : {64}, maskTokens : {10}]

\* A Talker with the one width of a head that is admitted, and predictors narrower, wider and
\* as wide, without adapters, or with some of the Talker's or of the predictor's operations.
TalkerStack ==
    [hidden |-> 6, intermediate |-> 14, vocab |-> 22, layers |-> 2, heads |-> 2, kv |-> 1,
     qwen |-> TRUE, attentionBias |-> FALSE, mlpBias |-> FALSE, rank |-> 3, factorRank |-> 3]
Lora(targets) == [lora |-> targets, factors |-> targets \X {"A", "B"}]
SpeechConfigs ==
    [talker : {TalkerStack @@ [dim |-> d] @@ Lora(l) : d \in {64, 128}, l \in {{}, {"q_proj"}}},
     predictor : {[TalkerStack EXCEPT !.hidden = h, !.vocab = 26] @@ [dim |-> 4] @@ Lora(l) :
                      h \in {4, 6, 10}, l \in {{}, {"down_proj"}, {"lm_head"}}},
     textVocab : {30}, textHidden : {12}, groups : {2, 4}, voice : {6}, voiceStored : BOOLEAN]

\* The checkpoints that are admitted, with fewer layers.
VideoConfigs ==
    {Video!Profiles[p] @@ [textLayers |-> 2, layers |-> 2] : p \in DOMAIN Video!Profiles}

\* Authored layers, some of them not wired like the others.
Authored == [layers : {<<1, 2, 1, 2, 1, 2, 1>>, <<1, 1, 1, 1>>, <<1, 2, 2, 1, 2, 2, 3>>,
                       <<0, 1, 2, 1, 2, 0, 2, 2>>},
             odd : {{}, {2}, {5}}]

\* Checkpoints whose storage is not what the description expects.
SomeConfig ==
    [dense |-> Smallest(DenseConfigs), qwen35 |-> CHOOSE c \in QwenConfigs : TRUE,
     deepseek |-> Smallest(DeepseekConfigs), glm |-> Smallest(GlmConfigs),
     kimi |-> CHOOSE c \in KimiConfigs : TRUE, clm |-> CHOOSE c \in ClmConfigs : c.stored.depth = c.depth,
     kev |-> CHOOSE c \in KevConfigs : TRUE, vjepa2 |-> CHOOSE c \in Vjepa2Configs : c.heads = 2,
     speech |-> CHOOSE t \in SpeechConfigs : t.talker.dim = 128 /\ t.predictor.lora = {},
     video |-> CHOOSE c \in VideoConfigs : c.ltx, unknown |-> 0]
Contradicted(f) ==
    [family : {f}, config : {SomeConfig[f]}, agrees : {FALSE}, limit : {1000}, work : {1000}]

MCCheckpoint ==
    UNION {Of("dense", DenseConfigs \cup OtherFactors, {1000}), Of("qwen35", QwenConfigs, {1000}),
           Of("deepseek", DeepseekConfigs, {1000}), Of("glm", GlmConfigs, {1000}),
           Of("kimi", KimiConfigs, {1000}), Of("clm", ClmConfigs, {1000}),
           Of("kev", KevConfigs, {1000}), Of("vjepa2", Vjepa2Configs, {1000}),
           Of("speech", SpeechConfigs, {1000}), Of("video", VideoConfigs, {500, 1000}),
           Of("dense", {Smallest(DenseConfigs)}, {60, 79, 120, 145}),
           Of("deepseek", {[Smallest(DeepseekConfigs) EXCEPT !.experts = 3]}, {80, 142, 143, 150, 160, 260, 270}),
           [family : {"authored"}, config : Authored, agrees : {TRUE}, limit : {1000},
            work : {12, 30, 1000}],
           UNION {Contradicted(f) : f \in DOMAIN SomeConfig}}
\* Every description is evaluated once.
MCDescription == LET of(k) == DescriptionOf(k) IN [k \in MCCheckpoint |-> of(k)]
=============================================================================
