---------------------------- MODULE RepeatedBodies ----------------------------
(***************************************************************************)
(* The search for repeated bodies in a stack of layers                     *)
(* (architecture_analysis/repeated_bodies.py, annotate_bodies): intervals  *)
(* of layers that repeat the same two or more families of layers.  The     *)
(* smallest period wins, a longer run is shortened until its wiring is     *)
(* verified, and the work is bounded.                                      *)
(*                                                                         *)
(* families says the family of every layer, sound which intervals          *)
(* BodyIndex.verify accepts.                                               *)
(***************************************************************************)
EXTENDS Integers, Sequences

CONSTANTS
    NoFamily,   \* of a layer that no other is like
    Cost        \* of verifying one layer

ASSUME CostAssumption == Cost \in Nat

VARIABLES
    families,   \* a sequence
    sound,      \* a set of bodies
    at,         \* where a body is looked for
    width,      \* the last width that was tried there
    count,      \* the number of repetitions to be verified, or 0
    bodies,     \* what was found
    work        \* what may still be spent

bodyVars == <<families, sound, at, width, count, bodies, work>>

Body(a, w, c) == [at |-> a, width |-> w, count |-> c]
End(b) == b.at + b.width * b.count   \* the layer after the last

\* The layers from a on repeat, c times, the first w of them.
Periodic(a, w, c) ==
    /\ a + w * c <= Len(families) + 1
    /\ \A k \in a..(a + w * (c - 1) - 1) : families[k] = families[k + w]

\* Layers that are all of a family, and not all of one.
Varied(a, w) ==
    /\ \A k \in a..(a + w - 1) : families[k] # NoFamily
    /\ \E k \in a..(a + w - 1) : families[k] # families[a]

Slots == 1..(Len(families) + 1)

\* How often it repeats: once at least.
Repeats(a, w) ==
    CHOOSE c \in Slots : Periodic(a, w, c) /\ (\A d \in Slots : Periodic(a, w, d) => d <= c)

MaxWidth == (Len(families) + 1 - at) \div 2
Searching == at <= Len(families) /\ work > 0

\* A period is considered when it repeats at least twice.
Widen ==
    /\ Searching /\ count = 0 /\ width < MaxWidth
    /\ width' = width + 1
    /\ work' = work - width'
    /\ count' = IF work' > 0 /\ Varied(at, width') /\ Repeats(at, width') >= 2
                THEN Repeats(at, width') ELSE 0
    /\ UNCHANGED <<families, sound, at, bodies>>

Candidate == Body(at, width, count)
Spent == Cost * width * count

\* Mutant: the search goes on behind the first repetition.
Behind_First(b) == b.at + b.width
Behind(b) == End(b)

\* The longest run that is sound is taken, and the search goes on behind it.
Take ==
    /\ count >= 2 /\ work > 0 /\ Candidate \in sound
    /\ bodies' = Append(bodies, Candidate)
    /\ at' = Behind(Candidate) /\ width' = 1 /\ count' = 0
    /\ work' = work - Spent
    /\ UNCHANGED <<families, sound>>

Shorten ==
    /\ count >= 2 /\ work > 0 /\ Candidate \notin sound
    /\ count' = IF count = 2 \/ work <= Spent THEN 0 ELSE count - 1
    /\ work' = work - Spent
    /\ UNCHANGED <<families, sound, at, width, bodies>>

\* No period starts here: the layer remains what it is.
Skip ==
    /\ Searching /\ count = 0 /\ width >= MaxWidth
    /\ at' = at + 1 /\ width' = 1
    /\ UNCHANGED <<families, sound, count, bodies, work>>

Search == Widen \/ Take \/ Shorten \/ Skip
Searched == ~Searching

BodiesInit ==
    /\ families \in Seq(Nat) /\ sound \in SUBSET [at : Nat, width : Nat, count : Nat]
    /\ work \in Nat /\ at = 1 /\ width = 1 /\ count = 0 /\ bodies = <<>>
BodiesSpec == BodiesInit /\ [][Search]_bodyVars

-----------------------------------------------------------------------------
(* A body that could be published.                                         *)
Acceptable(b) ==
    /\ b.width >= 2 /\ b.count >= 2 /\ b \in sound
    /\ Periodic(b.at, b.width, b.count) /\ Varied(b.at, b.width)

\* No shorter period that starts at its first layer, and no longer run of its own, could
\* have been published instead.
Preferred(b) ==
    \A w \in 2..b.width, c \in Slots :
        (w < b.width \/ c > b.count) => ~Acceptable(Body(b.at, w, c))

Found == {bodies[k] : k \in DOMAIN bodies}
Within(k, b) == b.at <= k /\ k < End(b)

\* annotate_bodies, docs/spec/backend/architecture-analysis.md: bodies are real
\* repetitions, in the order of the layers and without overlap, the smallest period first;
\* a layer is left out of them only when no body that could be published starts there.
BodiesTile ==
    /\ \A b \in Found : Acceptable(b) /\ Preferred(b) /\ End(b) <= at
    /\ \A j, k \in DOMAIN bodies : j < k => End(bodies[j]) <= bodies[k].at
    /\ \A k \in 1..(at - 1) :
          \/ \E b \in Found : Within(k, b)
          \/ \A w, c \in Slots : ~Acceptable(Body(k, w, c))
=============================================================================
