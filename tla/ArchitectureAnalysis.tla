------------------------- MODULE ArchitectureAnalysis -------------------------
(***************************************************************************)
(* From the metadata of a checkpoint to the answer of the analyzer         *)
(* (architecture_analysis/core.py, templates.py, compact.py): a unique     *)
(* description is selected, it builds the graph of one pass, the graph is  *)
(* specialized and wrapped, validated, annotated with the structures its   *)
(* layers share, and answered in full or in a compact form.                *)
(*                                                                         *)
(* The size of a graph is counted in nodes, and that of an annotation in   *)
(* the nodes it refers to.                                                 *)
(***************************************************************************)
EXTENDS ArchitectureInvocation, RepeatedBodies

CONSTANTS
    Checkpoint,   \* family, config, agrees, and the budgets that it meets: limit, work
    Description   \* what the registered description gives for each checkpoint

VARIABLES
    checkpoint,
    described,  \* what its description gives
    stage,      \* how far it is
    graph,      \* or NoGraph
    templates,  \* the families of layers that are annotated
    answer      \* "none", "complete" or "partial" of a graph, "unsupported_architecture",
                \* "unsupported_size" or "analysis_failed"

given == <<checkpoint, described>>
analysisVars == <<given, stage, graph, templates, answer>>
vars == <<analysisVars, bodyVars>>

limit == checkpoint.limit
WorkLimit == described.work

-----------------------------------------------------------------------------
(* TemplateIndex.signature: what is known of a component apart from which  *)
(* instance it is: key renames the paths, own is added to its own symbols. *)

Signature(g, members, root, key, own) ==
    LET inside == {n.key : n \in members}
        place(k) == <<key[k[1]], k[2]>>
        shape(s) == [k \in DOMAIN s |-> IF s[k] < -100 THEN s[k] + own ELSE s[k]]
        ref(n, p) == LET v == n.ins[p]
                     IN  IF v.node \in inside /\ n.key # root
                         THEN [node |-> place(v.node), port |-> v.port, shape |-> shape(v.shape)]
                         ELSE [node |-> Nowhere, port |-> p, shape |-> shape(v.shape)]
        weight(w) == <<key[w[1]], w[2], w[3], shape(g.weights[w])>>
    IN  {[key |-> place(n.key), op |-> n.op,
          ins |-> [p \in DOMAIN n.ins |-> ref(n, p)],
          outs |-> [p \in DOMAIN n.outs |-> shape(n.outs[p])],
          params |-> [k \in DOMAIN n.params |-> weight(n.params[k])]] : n \in members}

PathsOf(members) ==
    UNION {{n.key[1]} \cup {w[1] : w \in Range(n.params)} : n \in members}
Layers(g) == {n.key[1][1] : n \in {m \in g.nodes : m.key[1] # <<>>}}
LayerNodes(g, i) == {n \in g.nodes : n.key[1] # <<>> /\ n.key[1][1] = i}
LayerSignature(g, i) ==
    Signature(g, LayerNodes(g, i), <<<<i>>, "layer">>,
              [path \in PathsOf(LayerNodes(g, i)) |-> Tail(path)], 100 * i)

ExpertNodes(g, i, e) ==
    LET root == <<<<i, e>>, "expert">> IN {n \in g.nodes : n.key = root \/ n.parent = root}
Experts(g, i) == {n.key[1][2] : n \in {m \in LayerNodes(g, i) : m.key[2] = "expert"}}
ExpertSignature(g, i, e) ==
    Signature(g, ExpertNodes(g, i, e), <<<<i, e>>, "expert">>,
              [path \in PathsOf(ExpertNodes(g, i, e)) |-> <<i>>], e)

\* The layers that have the signature of the first of them, if there are two at least.
FamilyOf(g, i) ==
    LET same == {j \in Layers(g) : LayerSignature(g, j) = LayerSignature(g, i)}
    IN  IF Cardinality(same) < 2 THEN NoFamily ELSE Min(same)

Sum(f(_), set) == FoldSet(LAMBDA x, total : f(x) + total, 0, set)
Size(g) == Cardinality(g.nodes)
TemplateSize(family) ==
    Sum(LAMBDA i : Cardinality(LayerNodes(graph, i)), {i \in DOMAIN families : families[i] = family})
SizeOfTemplates(set) == Sum(TemplateSize, set)

\* compact_graph: experts that are alike are written once.
CompactSize(g) ==
    Size(g) - Sum(LAMBDA i :
                     LET experts == Experts(g, i)
                         alike == Cardinality({ExpertSignature(g, i, e) : e \in experts}) = 1
                     IN  IF alike THEN (Cardinality(experts) - 1) * Cardinality(ExpertNodes(g, i, 1))
                         ELSE 0,
                  Layers(g))

-----------------------------------------------------------------------------
(* BodyIndex.verify, on the connections.                                   *)

LayerInputs(g, i) == NodeOf(g, <<<<i>>, "layer">>).ins
LayerOutput(g, i) == Out(NodeOf(g, <<<<i>>, "layer">>))
ReadersOf(g, i) ==
    {n.key : n \in {m \in g.nodes : m.key[1] # <<i>> /\ LayerOutput(g, i) \in Range(m.ins)}}

\* Every layer but the last feeds the next alone, and layers of the same slot have the
\* same other inputs, from elsewhere.
Verified(g, b) ==
    LET members == b.at..(End(b) - 1)
        side(i) == [p \in DOMAIN LayerInputs(g, i) \ {"x"} |-> LayerInputs(g, i)[p]]
    IN  /\ \A i \in members :
              /\ i + 1 \in members =>
                    /\ LayerInputs(g, i + 1).x = LayerOutput(g, i)
                    /\ ReadersOf(g, i) = {<<<<i + 1>>, "layer">>}
              /\ \A p \in DOMAIN side(i) : side(i)[p].node \notin {<<<<j>>, "layer">> : j \in members}
              /\ i + b.width \in members => side(i + b.width) = side(i)
        /\ NodeOf(g, <<<<b.at>>, "layer">>).outs = [out |-> LayerOutput(g, b.at).shape]

\* Of an authored definition it is given which layers are not wired like the others.
Sound(k, layers) ==
    LET all == [at : 1..Len(layers), width : 2..Len(layers), count : 2..Len(layers)]
        held == {b \in all : End(b) <= Len(layers) + 1}
    IN  IF k.family = "authored"
        THEN {b \in held : \A i \in k.config.odd : ~Within(i, b)}
        ELSE {b \in held : Verified(graph, b)}

-----------------------------------------------------------------------------
ASSUME CheckpointAssumption ==
    /\ NoFamily \in Nat
    /\ \A k \in Checkpoint :
          /\ k.work \in Nat
          /\ k.family = "authored" => k.config.layers \in Seq(Nat)

\* A description is of finitely many nodes and numbers its layers; what is published is made
\* of the pass, if need be without its cache, and only of what is stored a whole graph.
ASSUME DescriptionAssumption ==
    \A k \in Checkpoint :
        LET d == Description[k]
        IN  /\ IsFiniteSet(d.graph.nodes) /\ IsFiniteSet(d.published.nodes) /\ d.work \in Nat
            /\ Layers(d.published) \subseteq Nat
            /\ d.pass = IF d.uncached THEN NoCache(d.graph) ELSE d.graph
            /\ d.published = PublishedOf(d.pass, d.interfaces)
            /\ d.whole => k.agrees

-----------------------------------------------------------------------------
Init ==
    /\ checkpoint \in Checkpoint /\ described = Description[checkpoint] /\ work = checkpoint.work
    /\ stage = "given" /\ graph = NoGraph /\ templates = {} /\ answer = "none"
    /\ families = <<>> /\ sound = {} /\ at = 1 /\ width = 1 /\ count = 0 /\ bodies = <<>>

Answer(result) == stage' = "answered" /\ answer' = result

Select ==
    /\ stage = "given" /\ described.admitted
    /\ stage' = "selected"
    /\ UNCHANGED <<given, graph, templates, answer, bodyVars>>

NoDescription ==
    /\ stage = "given" /\ ~described.admitted
    /\ Answer("unsupported_architecture")
    /\ UNCHANGED <<given, graph, templates, bodyVars>>

\* The stored parameters, or the factors of the adapter, are not the described ones.
Disagrees ==
    /\ stage = "selected" /\ ~described.bound
    /\ Answer("analysis_failed")
    /\ UNCHANGED <<given, graph, templates, bodyVars>>

Build ==
    /\ stage = "selected" /\ described.bound
    /\ LET g == described.graph
       IN  \/ /\ Size(g) <= WorkLimit
              /\ graph' = g /\ stage' = "built" /\ UNCHANGED answer
           \/ /\ Size(g) > WorkLimit
              /\ Answer("unsupported_size") /\ UNCHANGED graph
    /\ UNCHANGED <<given, templates, bodyVars>>

Publish ==
    /\ stage = "built"
    /\ LET g == described.published
       IN  \/ /\ Size(g) <= WorkLimit
              /\ graph' = g /\ stage' = "published" /\ UNCHANGED answer
           \/ /\ Size(g) > WorkLimit
              /\ Answer("unsupported_size") /\ UNCHANGED graph
    /\ UNCHANGED <<given, templates, bodyVars>>

\* annotate: the families of layers, as many of them as the budget allows.  The search for
\* bodies follows.  The description of a video declares none.
FamiliesOf(k, g) ==
    CASE k.family = "authored" -> k.config.layers
      [] k.family = "video" -> <<>>
      [] OTHER -> [i \in 1..Cardinality(Layers(g)) |-> FamilyOf(g, i)]
Annotate ==
    /\ stage = "published"
    /\ families' = FamiliesOf(checkpoint, graph)
    /\ stage' = "shared"
    /\ UNCHANGED <<given, graph, templates, answer, sound, at, width, count, bodies, work>>

\* fit_template_budget: a family is retained when it fits behind those before it.
Retained(set, budget) ==
    {kept \in SUBSET set :
        \A f \in set : f \in kept <=> SizeOfTemplates({e \in kept : e < f} \cup {f}) <= budget}

Share ==
    /\ stage = "shared"
    /\ templates' \in Retained({f \in Range(families) : f # NoFamily}, WorkLimit - Size(graph))
    /\ families' = [i \in DOMAIN families |->
                       IF families[i] \in templates' THEN families[i] ELSE NoFamily]
    /\ sound' = Sound(checkpoint, families)
    /\ stage' = "annotated"
    /\ UNCHANGED <<given, graph, answer, at, width, count, bodies, work>>

\* Bodies are looked for among two families at least.
Repeating == Cardinality(templates) >= 2
Look == stage = "annotated" /\ Repeating /\ Search /\ UNCHANGED analysisVars

\* The last step: the whole graph, else its compact form, else without annotations.
\* Mutant: the annotations are not given up for the answer.
Fitted_Annotated == CompactSize(graph) + SizeOfTemplates(templates)
Fitted == CompactSize(graph)

\* diagnose(): a parameter that is left without its storage makes the graph partial.
Coverage == IF described.whole THEN "complete" ELSE "partial"

Finish ==
    /\ stage = "annotated" /\ (Repeating => Searched)
    /\ \/ /\ Size(graph) + SizeOfTemplates(templates) <= limit
          /\ Answer(Coverage) /\ UNCHANGED <<templates, bodies, at>>
       \/ /\ Size(graph) + SizeOfTemplates(templates) > limit
          /\ IF Fitted <= limit
             THEN /\ Answer(Coverage)
                  /\ IF CompactSize(graph) + SizeOfTemplates(templates) <= limit
                     THEN UNCHANGED <<templates, bodies, at>>
                     ELSE /\ templates' \in Retained(templates, limit - CompactSize(graph))
                          /\ bodies' = <<>> /\ at' = 1   \* as before the search
             ELSE Answer("unsupported_size") /\ UNCHANGED <<templates, bodies, at>>
    /\ UNCHANGED <<given, graph, families, sound, width, count, work>>

Next ==
    \/ Select \/ NoDescription \/ Disagrees \/ Build \/ Publish \/ Annotate \/ Share \/ Look
    \/ Finish

Spec == Init /\ [][Next]_vars

-----------------------------------------------------------------------------
TypeOK ==
    /\ checkpoint \in Checkpoint
    /\ stage \in {"given", "selected", "built", "published", "shared", "annotated", "answered"}
    /\ answer \in {"none", "complete", "partial", "unsupported_architecture", "unsupported_size",
                   "analysis_failed"}
    /\ stage = "answered" <=> answer # "none"
    /\ templates \subseteq Range(families)

\* Whatever configuration a description admits, the graph it writes down by hand is
\* connected, has every parameter in use and drops no result, and every shape in it is what
\* the operation makes of its inputs and parameters; so is the pass without its cache, of which
\* wrap_generation supposes no more than holds, as no_cache_invocation does of the pass with it,
\* and the graph that is published, in which
\* nothing is left of the cache and the loop of generation is complete.
SoundOf(g) ==
    /\ Connected(g) /\ Complete(g)
    /\ \A n \in g.nodes : Follows(g, n)
GraphSound ==
    /\ TypeOK
    /\ stage \in {"built", "published"} => SoundOf(graph)
    /\ stage = "built" =>
          /\ described.uncached => CacheApart(graph) /\ CacheRead(graph)
          /\ SoundOf(described.pass)
          /\ \A it \in described.interfaces : Wrappable(described.pass, it)
    /\ stage = "published" /\ described.interfaces # {} => Recognized(graph)
    /\ stage = "built" => described.regions
    /\ answer = "complete" => checkpoint.agrees

\* fit_template_budget: "optional annotations must not make a formerly fitting compact graph
\* unavailable at a lower response budget."
Fits ==
    /\ Size(described.graph) <= WorkLimit /\ Size(described.published) <= WorkLimit
    /\ CompactSize(described.published) <= limit
AnnotationsAreFree == answer = "unsupported_size" => ~Fits
=============================================================================
