----------------------- MODULE ArchitectureDescriptions -----------------------
(***************************************************************************)
(* The registry of the packaged descriptions                               *)
(* (architecture_analysis/core.py, and register() and build() of every     *)
(* family): which checkpoints a description supports, the graph of one     *)
(* pass that it builds, and the graph that is published for it.            *)
(***************************************************************************)
EXTENDS ArchitectureInvocation

CONSTANTS
    MaxBytes   \* the largest answer

Dense == INSTANCE DenseDescription
Qwen == INSTANCE Qwen35Description
Deepseek == INSTANCE DeepseekDescription
Glm == INSTANCE Glm4Description
Kimi == INSTANCE KimiDescription
Clm == INSTANCE ClmDescription
Kev == INSTANCE KevDescription
Vjepa2 == INSTANCE Vjepa2Description
Tts == INSTANCE SpeechDescription
Video == INSTANCE VideoDescription

-----------------------------------------------------------------------------
\* supports() of the selected description.  Some compare what is stored with the geometry they
\* expect, and do not recognize the checkpoint when it differs;
Recognizes(k) == k.family \in {"qwen35", "kev", "vjepa2", "video"} => k.agrees
Admitted(k) ==
    Recognizes(k) /\
    CASE k.family = "dense" -> Dense!Admitted(k.config)
      [] k.family = "qwen35" -> Qwen!QwenAdmitted(k.config)
      [] k.family = "kimi" -> Kimi!KimiAdmitted(k.config)
      [] k.family = "clm" -> Clm!ClmAdmitted(k.config)
      [] k.family = "kev" -> Kev!KevAdmitted(k.config)
      [] k.family = "vjepa2" -> Vjepa2!Vjepa2Admitted(k.config)
      [] k.family = "speech" -> Tts!SpeechAdmitted(k.config)
      [] k.family \in {"deepseek", "glm", "video", "authored"} -> TRUE
      [] k.family = "unknown" -> FALSE

\* others leave the parameter without its storage, and answer with a partial graph, as the
\* description of speech always does; the rest fail, and so does every description of an
\* adapter without all its factors.
CompactExperts == {"deepseek", "glm", "kimi"}
Binds(k) ==
    /\ k.agrees \/ k.family \in CompactExperts \cup {"dense", "speech"}
    /\ k.family = "dense" => Dense!AdapterBound(k.config)
    /\ k.family = "speech" => Tts!SpeechBound(k.config)
Whole(k) == k.agrees /\ k.family # "speech"

SinglePass(k) ==
    CASE k.family = "dense" -> Dense!DenseGraph(k.config)
      [] k.family = "qwen35" -> Qwen!QwenGraph(k.config)
      [] k.family = "deepseek" -> Deepseek!DeepseekGraph(k.config)
      [] k.family = "glm" -> Glm!GlmGraph(k.config)
      [] k.family = "kimi" -> Kimi!KimiGraph(k.config)
      [] k.family = "clm" -> Clm!ClmGraph(k.config)
      [] k.family = "kev" -> Kev!KevGraph(k.config)
      [] k.family = "vjepa2" -> Vjepa2!Vjepa2Graph(k.config)
      [] k.family = "speech" -> Tts!SpeechGraph(k.config)
      [] k.family = "video" -> Video!VideoGraph(k.config)
      [] k.family \in {"authored", "unknown"} -> NoGraph

\* build(): the interface of every description.  The descriptions of decisions use a Qwen
\* graph with its cache, and do not wrap it.
InterfaceOf(k) ==
    CASE k.family = "dense" ->
           Interface(Dense!Model, FALSE,
                     [tokens |-> "input_ids", positions |-> "position_ids",
                      mask |-> "attention_mask", logits |-> "logits"])
      [] k.family = "qwen35" ->
           Interface(Qwen!QwenModel, FALSE,
                     [tokens |-> "token_ids", positions |-> "positions", mask |-> "mask",
                      current_mask |-> "current_mask", logits |-> "logits"])
      [] k.family \in {"deepseek", "glm"} ->
           Interface(Deepseek!Decoder, TRUE,
                     [tokens |-> "input_ids", positions |-> "position_ids",
                      mask |-> "attention_mask", logits |-> "logits"])
      [] k.family = "kimi" ->
           Interface(Kimi!Decoder, TRUE,
                     [tokens |-> "input_ids", mask |-> "causal_mask",
                      current_mask |-> "padding_mask", logits |-> "logits"])
Other == {"clm", "kev", "vjepa2", "speech", "video"}
Wrapped(k) == k.family \notin Other \cup {"authored"} /\ ~(k.family = "qwen35" /\ k.config.cache)
Uncached(k) == k.family \in CompactExperts
InterfacesOf(k) == IF Wrapped(k) THEN {InterfaceOf(k)} ELSE {}

\* What the analyzer gets of a description for a checkpoint.
Built(k, g) ==
    LET uncached == g # NoGraph /\ Uncached(k)
        pass == IF uncached THEN NoCache(g) ELSE g
        interfaces == IF g = NoGraph THEN {} ELSE InterfacesOf(k)
    IN  [admitted |-> Admitted(k), bound |-> Binds(k), whole |-> Whole(k), graph |-> g,
         uncached |-> uncached, pass |-> pass, interfaces |-> interfaces,
         published |-> PublishedOf(pass, interfaces),
         regions |-> k.family = "glm" => Glm!RegionsShareOut(k.config),
         work |-> IF k.family \in CompactExperts THEN 2 * MaxBytes ELSE k.limit]
DescriptionOf(k) == Built(k, IF Admitted(k) /\ Binds(k) THEN SinglePass(k) ELSE NoGraph)
=============================================================================
