--------------------------- MODULE SpeechDescription ---------------------------
(***************************************************************************)
(* The description of Qwen3-TTS (architecture_analysis/qwen3_tts.py,       *)
(* qwen3_tts_config.py): the Talker turns a prompt and a reference voice   *)
(* into the first code of every frame of audio, and a second, smaller      *)
(* stack, the predictor, turns each frame into its other codes.  Both      *)
(* are stacks of the dense Qwen3 layers; within the predictor the sequence *)
(* is that of the codes of one frame.                                      *)
(***************************************************************************)
EXTENDS DenseDescription

Stacks == {"talker", "predictor"}

\* checked(): two dense geometries, the Talker's with the reviewed rotary sections, and a
\* voice as wide as the Talker.
SpeechAdmitted(t) ==
    /\ \A stack \in Stacks : Admitted(t[stack]) /\ t[stack].qwen
    /\ t.talker.dim = 128 /\ t.voice = t.talker.hidden

\* linear_dimensions(): adapters of the layers of both stacks, and of nothing else.
SpeechBound(t) ==
    \A stack \in Stacks : AdapterBound(t[stack]) /\ "lm_head" \notin t[stack].lora

Speech == <<<<>>, "speech">>
Talker == <<<<>>, "talker.model">>
Predictor == <<<<>>, "talker.code_predictor.model">>
StackKey(stack) == IF stack = "talker" THEN Talker ELSE Predictor
FirstLayer(t, stack) == IF stack = "talker" THEN 0 ELSE t.talker.layers

\* port(): within the predictor the sequence is another one.
\* Mutant: it is that of the Talker.
InStack_Shared(nodes, stack) == Copied(nodes, Model :> StackKey(stack), <<>>)
InStack(nodes, stack) ==
    Copied(nodes, Model :> StackKey(stack), IF stack = "predictor" THEN S :> C ELSE <<>>)

\* stack(): positions, a mask and the rotary tables of its own, the layers, and a norm.
Stack(t, stack, source) ==
    LET c == t[stack]
        first == FirstLayer(t, stack)
        x == From(Model, "x", Hidden(c))
        positions == Op(Model, stack \o ".positions", "sequence_positions", [x |-> x], <<B, S>>)
        mask == Op(Model, stack \o ".mask", "causal_mask", [x |-> x], Mask)
        rotary(fn) == Op(Model, stack \o fn, "rotary_table", [positions |-> Out(positions)], Rotary(c))
        into(k) == [x |-> IF k = 1 THEN x ELSE H(Layer(first + k - 1), c),
                    mask |-> Out(mask), cos |-> Out(rotary(".cos")), sin |-> Out(rotary(".sin"))]
        norm == DenseNorm(Model, stack \o ".norm", H(Layer(first + c.layers), c), Hidden(c))
        group == Group(Model, Speech, [x |-> [source EXCEPT !.shape = Hidden(c)]],
                       [out |-> Out(norm)])
    IN  InStack({positions, mask, rotary(".cos"), rotary(".sin"), norm, group}
                \cup UNION {LayerOf(c, first + k, into(k)) : k \in 1..c.layers}, stack)
StackOut(t, stack) ==
    From(StackKey(stack), "out", <<B, IF stack = "talker" THEN S ELSE C, t[stack].hidden>>)

-----------------------------------------------------------------------------
(* From the prompt to the conditioning of the Talker.                      *)

SpeechOp(name, op, ins, out) == Op(Speech, name, op, ins, out)
Codec(name, vocab, width, source) ==
    With(SpeechOp(name, "embedding", [x |-> source], <<B, S, width>>), <<Weight(<<<<>>, name>>)>>)
Told(name, shape) == [Input(name, shape) EXCEPT !.parent = Speech]
SpeechLinear(t, name, source, in, out, bias) ==
    CHOOSE n \in DenseLinear(t.talker, Speech, name, source, in, out, bias) : TRUE

Voice == Weight(<<<<>>, "speaker_encoder">>)
Conditioning(t) ==
    LET width == t.talker.hidden
        text == Told("text", <<B>>)
        audio == Told("reference_audio", <<B, A>>)
        tokens == SpeechOp("text_tokens", "tokenizer", [text |-> Out(text)], <<B, S>>)
        embedded == Codec("text_embedding", t.textVocab, t.textHidden, Out(tokens))
        first == SpeechLinear(t, "linear_fc1", Out(embedded), t.textHidden, t.textHidden, TRUE)
        active == Then(Speech, "text_projection.silu", "silu", first)
        projected == SpeechLinear(t, "linear_fc2", Out(active), t.textHidden, width, TRUE)
        speaker == With(SpeechOp("speaker_encoder", "speaker_encoder", [audio |-> Out(audio)],
                                 <<B, width>>),
                        IF t.voiceStored THEN <<Voice>> ELSE <<>>)
    IN  {text, audio, tokens, embedded, first, active, projected, speaker,
         SpeechOp("conditioning", "speech_conditioning",
                  [text |-> Out(projected), speaker |-> Out(speaker), audio |-> Out(audio)],
                  <<B, S, width>>)}
Conditioned(t) == From(<<<<>>, "conditioning">>, "out", <<B, S, t.talker.hidden>>)

-----------------------------------------------------------------------------
(* The codes of a frame.                                                   *)

FirstCodec(t) ==
    LET logits == SpeechLinear(t, "codec_head", StackOut(t, "talker"), t.talker.hidden,
                               t.talker.vocab, FALSE)
    IN  <<logits, SpeechOp("first_codec", "codec_selection", [logits |-> Out(logits)], <<B, S>>)>>

\* What the predictor starts from, as wide as it.
\* Mutant: only a wider Talker is projected.
Narrowed_Wider(t) == t.talker.hidden > t.predictor.hidden
Narrowed(t) == t.talker.hidden # t.predictor.hidden
PrefixNodes(t, codec) ==
    LET width == t.talker.hidden
        prefix == SpeechOp("predictor_prefix", "codebook_prefix",
                           [hidden |-> StackOut(t, "talker"), first_code |-> Out(codec)],
                           <<B, C, width>>)
        narrow == SpeechLinear(t, "small_to_mtp_projection", Out(prefix), width,
                               t.predictor.hidden, TRUE)
    IN  IF Narrowed(t) THEN {prefix} \cup InStack({narrow}, "predictor") ELSE {prefix}
PrefixOf(t) ==
    From(<<<<>>, IF Narrowed(t) THEN "small_to_mtp_projection" ELSE "predictor_prefix">>, "out",
         <<B, C, t.predictor.hidden>>)

\* One head and one embedding for each of the other codes.
Residual(t) == 1..(t.groups - 1)
HeadOfCode(k) == Weight(<<<<k>>, "codebook_head">>)
EmbeddingOfCode(k) == Weight(<<<<k>>, "codebook_embedding">>)
Codes(t, sampled) ==
    LET logits == <<B, C, t.predictor.vocab>>
        others == <<B, S, t.groups - 1>>
        head == With(SpeechOp("codebook_head", "indexed_linear", [x |-> StackOut(t, "predictor")],
                              logits), [k \in Residual(t) |-> HeadOfCode(k)])
        residual == With(SpeechOp("residual_codes", "sequential_codebook_generation",
                                  [logits |-> Out(head)], others),
                         [k \in Residual(t) |-> EmbeddingOfCode(k)])
    IN  {head, residual,
         SpeechOp("audio_codes", "concat", [first |-> Out(sampled), residual |-> Out(residual)],
                  <<B, S, t.groups>>)}

SpeechWeights(t) ==
    LET width == t.talker.hidden
        of(name) == Weight(<<<<>>, name>>)
        layers(stack) ==
            Merged([k \in 1..t[stack].layers |->
                        LayerWeights(t[stack], FirstLayer(t, stack) + k)])
            @@ (of(stack \o ".norm") :> <<t[stack].hidden>>)
        affine(name, out, in) == (of(name) :> <<out, in>>) @@ (Bias(<<<<>>, name>>) :> <<out>>)
    IN  layers("talker") @@ layers("predictor")
        @@ (of("text_embedding") :> <<t.textVocab, t.textHidden>>)
        @@ affine("linear_fc1", t.textHidden, t.textHidden) @@ affine("linear_fc2", width, t.textHidden)
        @@ (of("codec_head") :> <<t.talker.vocab, width>>)
        @@ (of("codec_embedding") :> <<t.talker.vocab, width>>)
        @@ (IF width # t.predictor.hidden
            THEN affine("small_to_mtp_projection", t.predictor.hidden, width) ELSE <<>>)
        @@ (IF t.voiceStored THEN Voice :> <<t.voice>> ELSE <<>>)
        @@ [w \in {HeadOfCode(k) : k \in Residual(t)} |-> <<t.predictor.vocab, t.predictor.hidden>>]
        @@ [w \in {EmbeddingOfCode(k) : k \in Residual(t)} |-> <<t.predictor.vocab, width>>]

SpeechGraph(t) ==
    LET first == FirstCodec(t)
        codec == Codec("codec_embedding", t.talker.vocab, t.talker.hidden, Out(first[2]))
    IN  [nodes |-> Conditioning(t) \cup Stack(t, "talker", Conditioned(t)) \cup Range(first)
                   \cup {codec} \cup PrefixNodes(t, codec)
                   \cup Stack(t, "predictor", PrefixOf(t)) \cup Codes(t, first[2])
                   \cup {Group(Speech, Nowhere, NoPorts, NoPorts)},
         weights |-> SpeechWeights(t),
         results |-> {<<<<>>, "audio_codes">>}]
=============================================================================
