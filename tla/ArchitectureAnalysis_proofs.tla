---------------------- MODULE ArchitectureAnalysis_proofs ----------------------
(***************************************************************************)
(* The analysis of a checkpoint, for any checkpoints, descriptions, budgets *)
(* and verdicts of the verification.                                       *)
(*                                                                         *)
(* BodiesTile, of the search alone and in the analysis: while there is     *)
(* work left, every body that could be published here with a shorter       *)
(* period has been tried, and every longer run of the period at hand       *)
(* (BodiesTried); that is why the body that is taken is the preferred one  *)
(* and a layer that is skipped starts none.  Looked carries this through   *)
(* the stages of the analysis, and Staged says what there is at each.      *)
(*                                                                         *)
(* AnnotationsAreFree, and that the choice of the families is one choice.  *)
(*                                                                         *)
(* GraphSound: what wrap_generation makes of a sound pass is sound, node   *)
(* by node: those of the loop, whose fields are computed, and those of the *)
(* pass, which keep all but the references to the ports of the model; and  *)
(* a pass from which no_cache_invocation takes its cache stays connected,  *)
(* because what is read of an extended state was computed beside it.       *)
(***************************************************************************)
EXTENDS ArchitectureAnalysis, FiniteSetTheorems, SequenceTheorems, WellFoundedInduction, TLAPS

USE DEF bodyVars

NumberedBodies == [at : Nat, width : Nat, count : Nat]

BodyTypes ==
    /\ families \in Seq(Nat) /\ sound \subseteq NumberedBodies
    /\ at \in 1 .. Len(families) + 1
    /\ width \in Nat \ {0} /\ count \in Nat \ {1} /\ work \in Int
    /\ bodies \in Seq(NumberedBodies)

\* The candidate repeats as it says.
CandidateRepeats ==
    count >= 2 => width >= 2 /\ Varied(at, width) /\ Periodic(at, width, count)

BodiesTried ==
    /\ work > 0 => \A w, c \in Slots : w < width => ~Acceptable(Body(at, w, c))
    /\ work > 0 /\ count = 0 => \A c \in Slots : ~Acceptable(Body(at, width, c))
    /\ count >= 2 => \A c \in Slots : c > count => ~Acceptable(Body(at, width, c))

\* The inductive invariant.
BodiesInv == BodyTypes /\ CandidateRepeats /\ BodiesTried /\ BodiesTile

-----------------------------------------------------------------------------

\* A set of numbers that has a bound has a greatest one.
LEMMA Greatest ==
    ASSUME NEW nums \in SUBSET Nat, NEW s \in nums, NEW bound \in Nat, \A n \in nums : n <= bound
    PROVE  \E n \in nums : \A m \in nums : m <= n
  <1> DEFINE gaps == {bound - n : n \in nums}
  <1>1. gaps \subseteq Nat
    OBVIOUS
  <1>2. gaps # {}
    <2>1. bound - s \in gaps
      OBVIOUS
    <2> QED
      BY <2>1
  <1> HIDE DEF gaps
  <1>3. PICK t \in gaps : \A u \in gaps : <<u, t>> \notin OpToRel(<, Nat)
    BY <1>1, <1>2, NatLessThanWellFounded, WFMin
  <1>4. \A u \in gaps : ~(u < t)
    BY <1>1, <1>3 DEF OpToRel
  <1>5. PICK n \in nums : t = bound - n
    BY DEF gaps
  <1>6. \A m \in nums : bound - m \in gaps
    BY DEF gaps
  <1>7. \A m \in nums : m <= n
    BY <1>4, <1>5, <1>6
  <1> QED
    BY <1>7

LEMMA ProductFacts ==
    /\ \A m, n \in Nat : m * n \in Nat
    /\ \A m \in Nat, n \in Nat : n >= 2 => m * n >= 2 * m
    /\ \A m, n \in Nat : n >= 1 => m * (n - 1) = m * n - m
    /\ \A m \in Nat : m * 1 = m
  OBVIOUS

\* A run that repeats repeats less often too.
LEMMA Shorter ==
    ASSUME BodyTypes, NEW a \in Nat, NEW w \in Nat, NEW c \in Nat, c >= 2, Periodic(a, w, c)
    PROVE  Periodic(a, w, c - 1)
  <1>1. w * (c - 1) = w * c - w /\ w * (c - 1 - 1) = w * c - w - w /\ w * c \in Nat
    BY ProductFacts
  <1> QED
    BY <1>1 DEF Periodic, BodyTypes

\* Repeats is the number of repetitions: at least one, and no more than there are.
LEMMA RepeatsProperties ==
    ASSUME BodyTypes, NEW w \in Nat, w >= 1, w <= MaxWidth
    PROVE  /\ Repeats(at, w) \in Slots /\ Periodic(at, w, Repeats(at, w))
           /\ \A c \in Slots : Periodic(at, w, c) => c <= Repeats(at, w)
  <1> DEFINE nums == {c \in Slots : Periodic(at, w, c)}
  <1>1. /\ Len(families) + 1 \in Nat /\ Slots \subseteq Nat /\ 1 \in Slots
        /\ \A c \in Slots : c <= Len(families) + 1
    BY DEF BodyTypes, Slots
  <1>2. Periodic(at, w, 1)
    <2>1. w * 1 = w /\ w * (1 - 1) = 0
      BY ProductFacts
    <2>2. at + w <= Len(families) + 1
      BY DEF BodyTypes, MaxWidth
    <2> QED
      BY <2>1, <2>2 DEF Periodic, BodyTypes
  <1>3. \E n \in nums : \A m \in nums : m <= n
    BY <1>1, <1>2, Greatest
  <1> QED
    BY <1>3 DEF Repeats

\* What is published does not depend on where the search is.
LEMMA Frozen ==
    ASSUME UNCHANGED <<families, sound>>
    PROVE  /\ Slots' = Slots
           /\ \A a, w, c : Acceptable(Body(a, w, c))' <=> Acceptable(Body(a, w, c))
           /\ \A b : Acceptable(b)' <=> Acceptable(b)
           /\ \A b : Preferred(b)' <=> Preferred(b)
           /\ \A a, w : Varied(a, w)' <=> Varied(a, w)
           /\ \A a, w, c : Periodic(a, w, c)' <=> Periodic(a, w, c)
  BY DEF Slots, Acceptable, Preferred, Body, Varied, Periodic

LEMMA AcceptableBody ==
    \A a, w, c : Acceptable(Body(a, w, c)) <=>
        /\ w >= 2 /\ c >= 2 /\ Body(a, w, c) \in sound
        /\ Periodic(a, w, c) /\ Varied(a, w)
  <1> SUFFICES ASSUME NEW a, NEW w, NEW c
               PROVE  Acceptable(Body(a, w, c)) <=>
                          /\ w >= 2 /\ c >= 2 /\ Body(a, w, c) \in sound
                          /\ Periodic(a, w, c) /\ Varied(a, w)
    OBVIOUS
  <1>1. Body(a, w, c).at = a /\ Body(a, w, c).width = w /\ Body(a, w, c).count = c
    BY DEF Body
  <1> QED
    BY <1>1, Zenon DEF Acceptable

\* A step that publishes nothing and stays where it is.
LEMMA SearchingStep ==
    ASSUME BodiesInv, UNCHANGED <<families, sound, at, bodies>>, BodyTypes', CandidateRepeats', BodiesTried'
    PROVE  BodiesInv'
  <1>1. BodiesTile'
    BY Frozen DEF BodiesInv, BodiesTile, Found, Within, End
  <1> QED
    BY <1>1 DEF BodiesInv

\* The next period is tried when no body of the ones before can be published.
LEMMA WidenStep == ASSUME BodiesInv, Widen PROVE BodiesInv'
  <1> DEFINE w == width + 1
             r == Repeats(at, w)
  <1>1. /\ Searching /\ count = 0 /\ width < MaxWidth /\ work > 0
        /\ width' = w /\ work' = work - w
        /\ count' = IF work' > 0 /\ Varied(at, w) /\ r >= 2 THEN r ELSE 0
        /\ UNCHANGED <<families, sound, at, bodies>>
    BY DEF Widen, Searching
  <1>2. w \in Nat /\ w >= 2 /\ w <= MaxWidth
    BY <1>1 DEF BodiesInv, BodyTypes, MaxWidth
  <1>3. /\ r \in Slots /\ Periodic(at, w, r)
        /\ \A c \in Slots : Periodic(at, w, c) => c <= r
    BY <1>2, RepeatsProperties DEF BodiesInv
  <1> HIDE DEF w, r
  <1>4. Slots \subseteq Nat
    BY DEF BodiesInv, BodyTypes, Slots
  <1>5. BodyTypes'
    <2>1. r \in Nat
      BY <1>3, <1>4
    <2>2. count' \in Nat \ {1}
      BY <1>1, <2>1
    <2>3. width' \in Nat \ {0} /\ work' \in Int
      BY <1>1, <1>2 DEF BodiesInv, BodyTypes
    <2> QED
      BY <1>1, <2>2, <2>3 DEF BodiesInv, BodyTypes
  <1>6. CandidateRepeats'
    BY <1>1, <1>2, <1>3, <1>4, Frozen DEF CandidateRepeats
  <1>7. \A v, c \in Slots : v < w => ~Acceptable(Body(at, v, c))
    BY <1>1, <1>4 DEF BodiesInv, BodyTypes, BodiesTried, w
  <1>8. ASSUME NEW c \in Slots, Acceptable(Body(at, w, c))
        PROVE  Varied(at, w) /\ r >= 2 /\ c <= r
    BY <1>3, <1>4, <1>8, AcceptableBody
  <1>9. BodiesTried'
    <2>1. work' > 0 /\ count' = 0 => \A c \in Slots : ~Acceptable(Body(at, w, c))
      BY <1>1, <1>3, <1>4, <1>8
    <2>2. count' >= 2 => \A c \in Slots : c > count' => ~Acceptable(Body(at, w, c))
      BY <1>1, <1>3, <1>4, <1>8
    <2> QED
      BY <1>1, <1>7, <2>1, <2>2, Frozen DEF BodiesTried
  <1> QED
    BY <1>1, <1>5, <1>6, <1>9, SearchingStep

\* A run that is not sound is shortened until it is or no repetition is left.
LEMMA ShortenStep == ASSUME BodiesInv, Shorten PROVE BodiesInv'
  <1>1. /\ count >= 2 /\ work > 0 /\ Candidate \notin sound
        /\ count' = IF count = 2 \/ work <= Spent THEN 0 ELSE count - 1
        /\ work' = work - Spent
        /\ UNCHANGED <<families, sound, at, width, bodies>>
    BY DEF Shorten
  <1>2. Spent \in Nat
    BY CostAssumption, ProductFacts DEF BodiesInv, BodyTypes, Spent
  <1>3. Slots \subseteq Nat
    BY DEF BodiesInv, BodyTypes, Slots
  <1>4. BodyTypes'
    BY <1>1, <1>2 DEF BodiesInv, BodyTypes
  <1>5. CandidateRepeats'
    <2>1. Periodic(at, width, count - 1)
      BY <1>1, Shorter DEF BodiesInv, BodyTypes, CandidateRepeats
    <2> QED
      BY <1>1, <2>1, Frozen DEF BodiesInv, BodyTypes, CandidateRepeats
  <1>6. \A c \in Slots : c > count - 1 => ~Acceptable(Body(at, width, c))
    <2>1. ~Acceptable(Body(at, width, count))
      BY <1>1, AcceptableBody DEF Candidate
    <2> QED
      BY <1>1, <1>3, <2>1 DEF BodiesInv, BodyTypes, BodiesTried
  <1>7. \A c \in Slots : c < 2 => ~Acceptable(Body(at, width, c))
    BY <1>3, AcceptableBody
  <1>8. BodiesTried'
    <2>1. work' > 0 => work > 0 /\ ~(work <= Spent)
      BY <1>1, <1>2 DEF BodiesInv, BodyTypes
    <2>2. work' > 0 /\ count' = 0 => \A c \in Slots : ~Acceptable(Body(at, width, c))
      BY <1>1, <1>3, <1>6, <1>7, <2>1
    <2>3. count' >= 2 => \A c \in Slots : c > count' => ~Acceptable(Body(at, width, c))
      BY <1>1, <1>6
    <2>4. work' > 0 => \A w, c \in Slots : w < width => ~Acceptable(Body(at, w, c))
      BY <2>1 DEF BodiesInv, BodiesTried
    <2> QED
      BY <1>1, <2>2, <2>3, <2>4, Frozen DEF BodiesTried
  <1> QED
    BY <1>1, <1>4, <1>5, <1>8, SearchingStep

\* The longest sound run is published, and nothing behind it has been looked at.
LEMMA TakeStep == ASSUME BodiesInv, Take PROVE BodiesInv'
  <1> DEFINE b == Candidate
  <1>1. /\ count >= 2 /\ work > 0 /\ b \in sound
        /\ bodies' = Append(bodies, b) /\ at' = End(b) /\ width' = 1 /\ count' = 0
        /\ work' = work - Spent /\ UNCHANGED <<families, sound>>
    BY DEF Take, Behind
  <1>2. b.at = at /\ b.width = width /\ b.count = count /\ b = Body(at, width, count)
    BY DEF Candidate, Body
  <1> HIDE DEF b
  <1>3. b \in NumberedBodies /\ width >= 2 /\ Varied(at, width) /\ Periodic(at, width, count)
    BY <1>1 DEF BodiesInv, BodyTypes, CandidateRepeats
  <1>4. Acceptable(b)
    BY <1>1, <1>2, <1>3, AcceptableBody
  <1>5. Preferred(b)
    <2>1. ASSUME NEW w \in 2 .. width, NEW c \in Slots, w < width \/ c > count
          PROVE  ~Acceptable(Body(at, w, c))
      <3>1. Slots \subseteq Nat /\ width * count \in Nat /\ width * count >= 2 * width
        BY <1>1, ProductFacts DEF BodiesInv, BodyTypes, Slots
      <3>2. w \in Slots
        <4>1. at + width * count <= Len(families) + 1
          BY <1>3 DEF Periodic
        <4>2. \A p \in Nat : p >= 2 * width /\ at + p <= Len(families) + 1 =>
                  width <= Len(families) + 1
          BY DEF BodiesInv, BodyTypes
        <4>3. width <= Len(families) + 1
          BY <3>1, <4>1, <4>2
        <4> QED
          BY <4>3 DEF BodiesInv, BodyTypes, Slots
      <3>3. CASE w < width
        BY <1>1, <3>2, <3>3 DEF BodiesInv, BodiesTried
      <3>4. CASE w = width
        BY <1>1, <2>1, <3>4 DEF BodiesInv, BodiesTried
      <3> QED
        BY <3>3, <3>4 DEF BodiesInv, BodyTypes
    <2> QED
      BY <1>2, <2>1, Zenon DEF Preferred
  <1>6. End(b) \in Nat /\ End(b) > at /\ End(b) <= Len(families) + 1
    <2>1. width * count \in Nat /\ width * count >= 2 * width
      BY <1>1, ProductFacts DEF BodiesInv, BodyTypes
    <2>2. End(b) = at + width * count
      BY <1>2 DEF End
    <2> QED
      BY <1>3, <2>1, <2>2 DEF BodiesInv, BodyTypes, Periodic
  <1>7. BodyTypes'
    <2>1. Spent \in Nat
      BY CostAssumption, ProductFacts DEF BodiesInv, BodyTypes, Spent
    <2> QED
      BY <1>1, <1>3, <1>6, <2>1 DEF BodiesInv, BodyTypes
  <1>8. CandidateRepeats'
    BY <1>1 DEF CandidateRepeats
  <1>9. BodiesTried'
    <2>1. \A w, c \in Slots : w < 2 => ~Acceptable(Body(End(b), w, c))
      BY AcceptableBody DEF BodiesInv, BodyTypes, Slots
    <2>2. \A c \in Slots : ~Acceptable(Body(End(b), 1, c))
      BY AcceptableBody
    <2>3. \A w \in Slots : w < 1 => w < 2
      BY DEF BodiesInv, BodyTypes, Slots
    <2> QED
      BY <1>1, <2>1, <2>2, <2>3, Frozen DEF BodiesTried
  <1>10. BodiesTile'
    <2>1. bodies \in Seq(NumberedBodies)
      BY DEF BodiesInv, BodyTypes
    <2>2. /\ DOMAIN bodies = 1 .. Len(bodies) /\ DOMAIN bodies' = 1 .. Len(bodies) + 1
          /\ \A k \in 1 .. Len(bodies) : bodies'[k] = bodies[k]
          /\ bodies'[Len(bodies) + 1] = b
      BY <1>1, <2>1
    <2>3. Found' = Found \cup {b}
      BY <2>1, <2>2 DEF Found
    <2>4. \A c \in Found : Acceptable(c) /\ Preferred(c) /\ End(c) <= at /\ End(c) \in Nat
      <3>1. \A k \in 1 .. Len(bodies) : bodies[k] \in NumberedBodies
        BY <2>1
      <3>2. \A c \in NumberedBodies : End(c) \in Nat
        BY ProductFacts DEF End, NumberedBodies
      <3> QED
        BY <2>2, <3>1, <3>2 DEF BodiesInv, BodiesTile, Found
    <2>5. \A c \in Found' : Acceptable(c)' /\ Preferred(c)' /\ End(c) <= at'
      BY <1>1, <1>4, <1>5, <1>6, <2>3, <2>4, Frozen DEF BodiesInv, BodyTypes
    <2>6. ASSUME NEW j \in DOMAIN bodies', NEW k \in DOMAIN bodies', j < k
          PROVE  End(bodies'[j]) <= bodies'[k].at
      <3>1. CASE k \in 1 .. Len(bodies)
        BY <2>1, <2>2, <2>6, <3>1 DEF BodiesInv, BodiesTile
      <3>2. CASE k = Len(bodies) + 1
        <4>1. j \in DOMAIN bodies /\ bodies'[j] = bodies[j] /\ bodies'[k] = b
          BY <2>1, <2>2, <2>6, <3>2
        <4>2. End(bodies[j]) <= at
          BY <2>4, <4>1 DEF Found
        <4> QED
          BY <1>2, <4>1, <4>2
      <3> QED
        BY <2>1, <2>2, <3>1, <3>2
    <2>7. ASSUME NEW k \in 1 .. at' - 1
          PROVE  \/ \E c \in Found' : Within(k, c)
                 \/ \A w, c \in Slots : ~Acceptable(Body(k, w, c))
      <3>1. CASE k < at
        <4>1. k \in 1 .. at - 1
          BY <3>1 DEF BodiesInv, BodyTypes
        <4> QED
          BY <2>3, <4>1 DEF BodiesInv, BodiesTile
      <3>2. CASE k >= at
        <4>1. Within(k, b)
          BY <1>1, <1>2, <1>6, <3>2 DEF Within, BodiesInv, BodyTypes
        <4> QED
          BY <2>3, <4>1
      <3> QED
        BY <1>1, <1>6, <3>1, <3>2 DEF BodiesInv, BodyTypes
    <2> QED
      BY <1>1, <2>5, <2>6, <2>7, Frozen DEF BodiesTile, End, Within
  <1> QED
    BY <1>7, <1>8, <1>9, <1>10 DEF BodiesInv

\* A layer is skipped when every period that fits behind it has been tried.
LEMMA SkipStep == ASSUME BodiesInv, Skip PROVE BodiesInv'
  <1>1. /\ at <= Len(families) /\ work > 0 /\ count = 0 /\ width >= MaxWidth
        /\ at' = at + 1 /\ width' = 1
        /\ UNCHANGED <<families, sound, count, bodies, work>>
    BY DEF Skip, Searching
  <1>2. Slots \subseteq Nat
    BY DEF BodiesInv, BodyTypes, Slots
  <1>3. ASSUME NEW w \in Slots, NEW c \in Slots
        PROVE  ~Acceptable(Body(at, w, c))
    <2>1. CASE w < width
      BY <1>1, <2>1 DEF BodiesInv, BodiesTried
    <2>2. CASE w = width
      BY <1>1, <2>2 DEF BodiesInv, BodiesTried
    <2>3. CASE w > width
      <3> SUFFICES ASSUME Acceptable(Body(at, w, c)) PROVE FALSE
        OBVIOUS
      <3>1. c >= 2 /\ at + w * c <= Len(families) + 1
        BY AcceptableBody DEF Periodic
      <3>2. w \in Nat /\ w * c \in Nat /\ w * c >= 2 * w
        BY <1>2, <3>1, ProductFacts
      <3>3. w <= MaxWidth
        <4>1. \A p \in Nat : p >= 2 * w /\ at + p <= Len(families) + 1 => w <= MaxWidth
          BY <3>2 DEF MaxWidth, BodiesInv, BodyTypes
        <4> QED
          BY <3>1, <3>2, <4>1
      <3> QED
        BY <1>1, <2>3, <3>2, <3>3 DEF BodiesInv, BodyTypes, MaxWidth
    <2> QED
      BY <1>2, <2>1, <2>2, <2>3 DEF BodiesInv, BodyTypes
  <1>4. BodyTypes' /\ CandidateRepeats'
    BY <1>1 DEF BodiesInv, BodyTypes, CandidateRepeats
  <1>5. BodiesTried'
    <2>1. \A w \in Slots : w < 1 => w < 2
      BY <1>2
    <2>2. \A w, c : w < 2 /\ w \in Nat => ~Acceptable(Body(at + 1, w, c))
      BY AcceptableBody
    <2>3. \A w, c \in Slots : w < 1 => ~Acceptable(Body(at + 1, w, c))
      BY <1>2, <2>2
    <2>4. \A c \in Slots : ~Acceptable(Body(at + 1, 1, c))
      BY <2>2
    <2> QED
      BY <1>1, <2>3, <2>4, Frozen DEF BodiesTried
  <1>6. BodiesTile'
    <2>1. \A b \in Found : End(b) <= at + 1
      <3>1. \A b \in Found : End(b) \in Nat
        <4>1. \A k \in DOMAIN bodies : bodies[k] \in NumberedBodies
          BY DEF BodiesInv, BodyTypes
        <4>2. \A b \in NumberedBodies : End(b) \in Nat
          BY ProductFacts DEF End, NumberedBodies
        <4> QED
          BY <4>1, <4>2 DEF Found
      <3> QED
        BY <3>1 DEF BodiesInv, BodyTypes, BodiesTile
    <2>2. ASSUME NEW k \in 1 .. at' - 1
          PROVE  \/ \E b \in Found : Within(k, b)
                 \/ \A w, c \in Slots : ~Acceptable(Body(k, w, c))
      <3>1. CASE k \in 1 .. at - 1
        BY <3>1 DEF BodiesInv, BodiesTile
      <3>2. CASE k = at
        BY <1>3, <3>2
      <3> QED
        BY <1>1, <3>1, <3>2 DEF BodiesInv, BodyTypes
    <2>3. Found' = Found
      BY <1>1 DEF Found
    <2> QED
      BY <1>1, <2>1, <2>2, <2>3, Frozen DEF BodiesInv, BodiesTile, End, Within
  <1> QED
    BY <1>4, <1>5, <1>6 DEF BodiesInv

-----------------------------------------------------------------------------

LEMMA InitBodiesInv == BodiesInit => BodiesInv
  <1> SUFFICES ASSUME BodiesInit PROVE BodiesInv
    OBVIOUS
  <1>1. BodyTypes /\ CandidateRepeats
    BY DEF BodiesInit, BodyTypes, CandidateRepeats, NumberedBodies
  <1>2. BodiesTried
    BY AcceptableBody DEF BodiesInit, BodiesTried, Slots
  <1>3. BodiesTile
    BY DEF BodiesInit, BodiesTile, Found
  <1> QED
    BY <1>1, <1>2, <1>3 DEF BodiesInv

\* The invariant is inductive.
LEMMA SearchBodiesInv == BodiesInv /\ [Search]_bodyVars => BodiesInv'
  <1> SUFFICES ASSUME BodiesInv, [Search]_bodyVars PROVE BodiesInv'
    OBVIOUS
  <1>1. CASE Search
    BY <1>1, WidenStep, TakeStep, ShortenStep, SkipStep DEF Search
  <1>2. CASE UNCHANGED bodyVars
    <2>1. BodyTypes' /\ CandidateRepeats' /\ BodiesTried'
      BY <1>2, Frozen DEF BodiesInv, BodyTypes, CandidateRepeats, BodiesTried
    <2> QED
      BY <1>2, <2>1, SearchingStep
  <1> QED
    BY <1>1, <1>2

\* annotate_bodies: for stacks of any length, whichever bodies the verification accepts and
\* whatever work is allowed, what is found are real repetitions that do not overlap, each
\* with the smallest period and the longest run of it that could be published, and a layer
\* that the search passed over starts no body that could.
THEOREM BodiesTileHolds == BodiesSpec => []BodiesTile
  <1>1. BodiesInv => BodiesTile
    BY DEF BodiesInv
  <1> QED
    BY <1>1, InitBodiesInv, SearchBodiesInv, PTL DEF BodiesSpec

-----------------------------------------------------------------------------
(* The search in the analysis of a checkpoint.                             *)

Before == {"given", "selected", "built", "published"}
Answers ==
    {"none", "complete", "partial", "unsupported_architecture", "unsupported_size",
     "analysis_failed"}

\* How far the analysis is determines what there is.
Staged ==
    /\ checkpoint \in Checkpoint /\ described = Description[checkpoint]
    /\ stage \in Before \cup {"shared", "annotated", "answered"} /\ answer \in Answers
    /\ stage = "answered" <=> answer # "none"
    /\ stage \notin {"given", "answered"} => described.admitted
    /\ stage \in {"built", "published", "shared", "annotated"} => described.bound
    /\ stage = "built" => graph = described.graph
    /\ stage \in {"published", "shared", "annotated"} => graph = described.published
    /\ stage \in Before \cup {"shared"} => templates = {}
    /\ templates \subseteq Range(families)
    /\ answer = "complete" => described.whole

\* Nothing is looked for before the families are shared, and from then on the invariant of
\* the search holds until the answer.
Looked ==
    /\ stage \in Before \cup {"shared"} =>
          at = 1 /\ width = 1 /\ count = 0 /\ bodies = <<>> /\ work \in Nat
    /\ stage \in Before \cup {"shared"} => families \in Seq(Nat)
    /\ stage = "annotated" => BodiesInv
    /\ BodiesTile

\* The retained families are some of those that were offered.
LEMMA RetainedSubset ==
    ASSUME NEW set, NEW budget, NEW kept \in Retained(set, budget)
    PROVE  kept \subseteq set
  BY DEF Retained

LEMMA StagedInit == Init => Staged
  BY DEF Init, Staged, Before, Answers, Range

\* Whatever a step does, it leaves what was given alone.
LEMMA StagedStep == ASSUME Staged, [Next]_vars PROVE Staged'
  <1> USE DEF given
  <1>1. CASE Select
    BY <1>1 DEF Select, Staged, Before, Answers
  <1>2. CASE NoDescription
    BY <1>2 DEF NoDescription, Answer, Staged, Before, Answers
  <1>3. CASE Disagrees
    BY <1>3 DEF Disagrees, Answer, Staged, Before, Answers
  <1>4. CASE Build
    BY <1>4 DEF Build, Answer, Staged, Before, Answers
  <1>5. CASE Publish
    BY <1>5 DEF Publish, Answer, Staged, Before, Answers
  <1>6. CASE Annotate
    BY <1>6 DEF Annotate, Staged, Before, Answers
  <1>7. CASE Share
    <2>1. PICK kept :
              /\ kept \in Retained({f \in Range(families) : f # NoFamily}, WorkLimit - Size(graph))
              /\ templates' = kept
      BY <1>7 DEF Share
    <2>2. kept \subseteq Range(families)
      BY <2>1, RetainedSubset
    <2>3. families' = [i \in DOMAIN families |->
                          IF families[i] \in kept THEN families[i] ELSE NoFamily]
      BY <1>7, <2>1 DEF Share
    <2>4. kept \subseteq Range(families')
      BY <2>2, <2>3 DEF Range
    <2> QED
      BY <1>7, <2>1, <2>4 DEF Share, Staged, Before, Answers
  <1>8. CASE Look
    <2>1. UNCHANGED <<analysisVars, families>>
      BY <1>8 DEF Look, Search, Widen, Take, Shorten, Skip
    <2> QED
      BY <2>1 DEF analysisVars, Staged, Range
  <1>9. CASE Finish
    <2>1. /\ stage = "annotated" /\ stage' = "answered"
          /\ answer' \in {Coverage, "unsupported_size"}
          /\ UNCHANGED <<given, graph, families>>
      BY <1>9 DEF Finish, Answer
    <2>2. templates' \subseteq templates
      <3>1. CASE UNCHANGED templates
        BY <3>1
      <3>2. CASE templates' \in Retained(templates, limit - CompactSize(graph))
        BY <3>2, RetainedSubset
      <3> QED
        BY <1>9, <3>1, <3>2 DEF Finish
    <2>3. /\ Coverage \in {"complete", "partial"}
          /\ Coverage = "complete" => described.whole
      BY DEF Coverage
    <2> QED
      BY <2>1, <2>2, <2>3 DEF Staged, Before, Answers, Range
  <1>10. CASE UNCHANGED vars
    BY <1>10 DEF vars, analysisVars, bodyVars, Staged, Range
  <1> QED
    BY <1>1, <1>2, <1>3, <1>4, <1>5, <1>6, <1>7, <1>8, <1>9, <1>10 DEF Next

LEMMA NothingFound == bodies = <<>> /\ at = 1 => BodiesTile
  BY DEF BodiesTile, Found

LEMMA NothingFoundNext == bodies' = <<>> /\ at' = 1 => BodiesTile'
  BY DEF BodiesTile, Found

\* A set of numbers that is not empty has a least one.
LEMMA Least ==
    ASSUME NEW nums \in SUBSET Nat, nums # {}
    PROVE  Min(nums) \in nums /\ \A n \in nums : Min(nums) <= n
  <1>1. PICK least \in nums : \A n \in nums : <<n, least>> \notin OpToRel(<, Nat)
    BY NatLessThanWellFounded, WFMin
  <1>2. \A n \in nums : ~(n < least)
    BY <1>1 DEF OpToRel
  <1>3. \A n \in nums : least =< n
    BY <1>2
  <1> QED
    BY <1>3 DEF Min

\* The family of a layer is the number of the first layer like it, or that of no family.
LEMMA FamiliesAreNumbers ==
    ASSUME NEW k \in Checkpoint
    PROVE  FamiliesOf(k, Description[k].published) \in Seq(Nat)
  <1> DEFINE g == Description[k].published
             inLayers == {n \in g.nodes : n.key[1] # <<>>}
             number == [n \in inLayers |-> n.key[1][1]]
  <1>1. IsFiniteSet(g.nodes) /\ Layers(g) \subseteq Nat
    BY DescriptionAssumption
  <1>2. IsFiniteSet(inLayers)
    BY <1>1, FS_Subset
  <1>3. number \in Surjection(inLayers, Layers(g))
    BY DEF Surjection, Layers
  <1>4. Cardinality(Layers(g)) \in Nat
    BY <1>2, <1>3, FS_Surjection, FS_CardinalityType
  <1> HIDE DEF g
  <1>5. ASSUME NEW i PROVE FamilyOf(g, i) \in Nat
    <2> DEFINE same == {j \in Layers(g) : LayerSignature(g, j) = LayerSignature(g, i)}
    <2>1. CASE Cardinality(same) < 2
      BY <2>1, CheckpointAssumption DEF FamilyOf
    <2>2. CASE ~(Cardinality(same) < 2)
      <3>1. same # {}
        BY <2>2, FS_EmptySet
      <3>2. same \subseteq Nat
        BY <1>1 DEF g
      <3>3. Min(same) \in Nat
        BY <3>1, <3>2, Least
      <3> QED
        BY <2>2, <3>3 DEF FamilyOf
    <2> QED
      BY <2>1, <2>2
  <1>6. [i \in 1..Cardinality(Layers(g)) |-> FamilyOf(g, i)] \in Seq(Nat)
    BY <1>4, <1>5
  <1>7. k.family = "authored" => k.config.layers \in Seq(Nat)
    BY CheckpointAssumption
  <1>8. FamiliesOf(k, g) \in Seq(Nat)
    BY <1>6, <1>7 DEF FamiliesOf
  <1> QED
    BY <1>8 DEF g

\* What the verification accepts are bodies with numbers.
LEMMA SoundNumbered ==
    ASSUME NEW k, NEW layers \in Seq(Nat)
    PROVE  Sound(k, layers) \subseteq [at : Nat, width : Nat, count : Nat]
  BY DEF Sound

LEMMA LookedInit == Init => Looked
  <1> SUFFICES ASSUME Init PROVE Looked
    OBVIOUS
  <1>1. work \in Nat
    BY CheckpointAssumption DEF Init
  <1> QED
    BY <1>1, NothingFound DEF Init, Looked, Before

LEMMA LookedStep == ASSUME Staged, Looked, [Next]_vars PROVE Looked'
  <1>1. CASE Select \/ NoDescription \/ Disagrees \/ Build \/ Publish
    <2>1. stage \in Before /\ stage' \in Before \cup {"answered"} /\ UNCHANGED bodyVars
      BY <1>1 DEF Select, NoDescription, Disagrees, Build, Publish, Answer, Before
    <2> QED
      BY <2>1, NothingFoundNext DEF Looked, Before
  <1>2. CASE Annotate
    <2>1. families' \in Seq(Nat)
      <3>1. families' = FamiliesOf(checkpoint, graph)
        BY <1>2 DEF Annotate
      <3>2. checkpoint \in Checkpoint /\ graph = Description[checkpoint].published
        BY <1>2 DEF Annotate, Staged
      <3> QED
        BY <3>1, <3>2, FamiliesAreNumbers
    <2> QED
      BY <1>2, <2>1, NothingFoundNext DEF Annotate, Looked, Before
  <1>3. CASE Share
    <2>1. /\ stage = "shared" /\ stage' = "annotated"
          /\ families' = [i \in DOMAIN families |->
                             IF families[i] \in templates' THEN families[i] ELSE NoFamily]
          /\ sound' = Sound(checkpoint, families)
          /\ UNCHANGED <<at, width, count, bodies, work>>
      BY <1>3 DEF Share
    <2>2. families \in Seq(Nat) /\ NoFamily \in Nat
      BY <2>1, CheckpointAssumption DEF Looked
    <2>3. families' \in Seq(Nat)
      BY <2>1, <2>2
    <2>4. sound' \subseteq [at : Nat, width : Nat, count : Nat]
      BY <2>1, <2>2, SoundNumbered
    <2>5. BodiesInit'
      BY <2>1, <2>3, <2>4 DEF BodiesInit, Looked
    <2>6. BodiesInv'
      BY <2>5, InitBodiesInv, PTL
    <2> QED
      BY <2>1, <2>6 DEF Looked, Before, BodiesInv
  <1>4. CASE Look
    <2>1. BodiesInv'
      BY <1>4, SearchBodiesInv DEF Look, Looked
    <2>2. stage = "annotated" /\ stage' = stage
      BY <1>4 DEF Look, analysisVars
    <2> QED
      BY <2>1, <2>2 DEF Looked, Before, BodiesInv
  <1>5. CASE Finish
    <2>1. stage = "annotated" /\ stage' = "answered" /\ UNCHANGED <<families, sound>>
      BY <1>5 DEF Finish, Answer
    <2>2. UNCHANGED <<bodies, at>> \/ (bodies' = <<>> /\ at' = 1)
      BY <1>5 DEF Finish
    <2>3. CASE UNCHANGED <<bodies, at>>
      <3>1. BodiesTile'
        BY <2>1, <2>3, Frozen DEF Looked, BodiesTile, Found, Within, End
      <3> QED
        BY <2>1, <3>1 DEF Looked, Before
    <2>4. CASE bodies' = <<>> /\ at' = 1
      BY <2>1, <2>4, NothingFoundNext DEF Looked, Before
    <2> QED
      BY <2>2, <2>3, <2>4
  <1>6. CASE UNCHANGED vars
    <2>1. stage' = stage /\ UNCHANGED bodyVars
      BY <1>6 DEF vars, analysisVars
    <2>2. BodiesInv => BodiesInv'
      BY <2>1, SearchBodiesInv
    <2>3. BodiesTile'
      BY <2>1, Frozen DEF Looked, BodiesTile, Found, Within, End
    <2> QED
      BY <2>1, <2>2, <2>3 DEF Looked, Before
  <1> QED
    BY <1>1, <1>2, <1>3, <1>4, <1>5, <1>6 DEF Next

\* annotate_bodies in the analysis, whatever description the checkpoint has, whatever its
\* layers are and whatever was retained of their families: the bodies that are looked for
\* during an analysis, and those that its answer keeps, are as BodiesTile says.
THEOREM AnalysisBodiesTile == Spec => []BodiesTile
  <1>1. Init => Staged /\ Looked
    BY StagedInit, LookedInit
  <1>2. Staged /\ Looked /\ [Next]_vars => (Staged /\ Looked)'
    BY StagedStep, LookedStep
  <1>3. Looked => BodiesTile
    BY DEF Looked
  <1> QED
    BY <1>1, <1>2, <1>3, PTL DEF Spec

-----------------------------------------------------------------------------
(* The budget of the answer.                                               *)

LEMMA FreeStep ==
    ASSUME Staged, AnnotationsAreFree, [Next]_vars
    PROVE  AnnotationsAreFree'
  <1>1. /\ UNCHANGED given
        /\ Fits' <=> Fits
    <2>1. UNCHANGED given
      BY DEF Next, vars, analysisVars, Select, NoDescription, Disagrees, Build, Publish,
             Annotate, Share, Look, Finish
    <2> QED
      BY <2>1 DEF Fits, given, limit, WorkLimit
  <1>2. SUFFICES ASSUME answer' = "unsupported_size", answer # "unsupported_size" PROVE ~Fits
    BY <1>1, <1>2 DEF AnnotationsAreFree
  <1>3. /\ Size(described.graph) \in Nat /\ Size(described.published) \in Nat
        /\ WorkLimit \in Nat
    BY DescriptionAssumption, FS_CardinalityType DEF Staged, Size, WorkLimit
  <1>4. CASE Build
    BY <1>2, <1>3, <1>4 DEF Build, Answer, Fits
  <1>5. CASE Publish
    BY <1>2, <1>3, <1>5 DEF Publish, Answer, Fits
  <1>6. CASE Finish
    <2>1. Coverage # "unsupported_size"
      BY DEF Coverage
    <2>2. ~(CompactSize(graph) <= limit)
      BY <1>2, <1>6, <2>1 DEF Finish, Answer, Fitted
    <2>3. graph = described.published
      BY <1>6 DEF Finish, Staged
    <2> QED
      BY <2>2, <2>3 DEF Fits
  <1>7. CASE Select \/ NoDescription \/ Disagrees \/ Annotate \/ Share \/ Look \/ UNCHANGED vars
    BY <1>2, <1>7 DEF Select, NoDescription, Disagrees, Answer, Annotate, Share, Look, vars,
                      analysisVars
  <1> QED
    BY <1>4, <1>5, <1>6, <1>7 DEF Next

\* fit_template_budget, for any descriptions and budgets: an analysis answers that a graph is
\* too large only when the graph does not fit the budget of the work or its compact form
\* that of the answer, so what is annotated never costs an answer.
THEOREM AnnotationsCostNothing == Spec => []AnnotationsAreFree
  <1>1. Init => Staged /\ AnnotationsAreFree
    BY StagedInit DEF Init, AnnotationsAreFree
  <1>2. Staged /\ AnnotationsAreFree /\ [Next]_vars => (Staged /\ AnnotationsAreFree)'
    BY StagedStep, FreeStep
  <1> QED
    BY <1>1, <1>2, PTL DEF Spec

-----------------------------------------------------------------------------
(* The families that a budget retains.                                     *)

LEMMA RetainedUnique ==
    ASSUME NEW set \in SUBSET Nat, NEW budget,
           NEW kept \in Retained(set, budget), NEW other \in Retained(set, budget)
    PROVE  kept = other
  <1> DEFINE apart == {f \in set : ~(f \in kept <=> f \in other)}
  <1>1. kept \subseteq set /\ other \subseteq set
    BY RetainedSubset
  <1>2. SUFFICES ASSUME apart # {} PROVE FALSE
    BY <1>1, <1>2
  <1>3. apart \subseteq Nat
    OBVIOUS
  <1> DEFINE f == Min(apart)
  <1>4. f \in apart /\ \A e \in apart : f <= e
    BY <1>2, <1>3, Least
  <1> HIDE DEF f
  <1>5. \A e \in set : e < f => (e \in kept <=> e \in other)
    BY <1>3, <1>4
  <1>6. {e \in kept : e < f} = {e \in other : e < f}
    BY <1>1, <1>5
  <1>7. f \in kept <=> f \in other
    BY <1>4, <1>6 DEF Retained
  <1> QED
    BY <1>4, <1>7

\* One family more: it is retained when it fits behind those before it.
LEMMA RetainedGrows ==
    ASSUME NEW set \in SUBSET Nat, NEW budget, NEW m \in Nat,
           NEW kept \in Retained({f \in set : f < m}, budget)
    PROVE  \E more : more \in Retained({f \in set : f < m + 1}, budget)
  <1>1. kept \subseteq {f \in set : f < m}
    BY RetainedSubset
  <1>2. CASE m \notin set
    <2>1. {f \in set : f < m + 1} = {f \in set : f < m}
      <3>1. \A f \in set : f \in Nat /\ f # m
        BY <1>2
      <3>2. \A f \in set : f < m + 1 <=> f < m
        BY <3>1
      <3> QED
        BY <3>2
    <2> QED
      BY <2>1
  <1>3. CASE m \in set
    <2> DEFINE fits == SizeOfTemplates(kept \cup {m}) <= budget
               more == IF fits THEN kept \cup {m} ELSE kept
    <2>1. \A f \in set : f < m + 1 => f < m \/ f = m
      OBVIOUS
    <2>2. more \in SUBSET {f \in set : f < m + 1} /\ (m \in more <=> fits)
      BY <1>1, <1>3
    <2>3. {e \in more : e < m} = kept
      <3>1. \A e \in kept : e < m
        BY <1>1
      <3>2. \A e \in more : e \in kept \/ e = m
        OBVIOUS
      <3>3. kept \subseteq more /\ ~(m < m)
        OBVIOUS
      <3> HIDE DEF more
      <3> QED
        BY <3>1, <3>2, <3>3
    <2>4. \A f \in set : f < m => (f \in more <=> f \in kept) /\ {e \in more : e < f} = {e \in kept : e < f}
      BY <1>1
    <2> HIDE DEF more
    <2>5. ASSUME NEW f \in {g \in set : g < m + 1}
          PROVE  f \in more <=> SizeOfTemplates({e \in more : e < f} \cup {f}) <= budget
      <3>1. CASE f < m
        <4>1. f \in kept <=> SizeOfTemplates({e \in kept : e < f} \cup {f}) <= budget
          BY <3>1 DEF Retained
        <4>2. {e \in more : e < f} = {e \in kept : e < f} /\ (f \in more <=> f \in kept)
          BY <2>4, <3>1
        <4> QED
          BY <4>1, <4>2
      <3>2. CASE f = m
        BY <2>2, <2>3, <3>2
      <3> QED
        BY <2>1, <3>1, <3>2
    <2>6. more \in Retained({f \in set : f < m + 1}, budget)
      BY <2>2, <2>5 DEF Retained
    <2> QED
      BY <2>6
  <1> QED
    BY <1>2, <1>3

\* fit_template_budget: of families whose numbers have a bound, exactly one choice is
\* retained, so the greedy choice is never impossible and never ambiguous.
THEOREM GreedyRetention ==
    ASSUME NEW set \in SUBSET Nat, NEW bound \in Nat, \A f \in set : f < bound, NEW budget
    PROVE  \E kept : Retained(set, budget) = {kept}
  <1> DEFINE failing == {n \in Nat : \A kept : kept \notin Retained({f \in set : f < n}, budget)}
  <1>1. failing = {}
    <2>1. SUFFICES ASSUME failing # {} PROVE FALSE
      OBVIOUS
    <2> DEFINE n == Min(failing)
    <2>2. n \in failing /\ \A m \in failing : n <= m
      BY <2>1, Least
    <2>3. n # 0
      <3>1. {f \in set : f < 0} = {}
        <4>1. \A f \in set : ~(f < 0)
          OBVIOUS
        <4> QED
          BY <4>1
      <3>2. {} \in Retained({}, budget)
        BY DEF Retained
      <3>3. 0 \notin failing
        BY <3>1, <3>2
      <3> QED
        BY <2>2, <3>3
    <2> HIDE DEF n
    <2>4. n - 1 \in Nat /\ n - 1 \notin failing
      BY <2>2, <2>3
    <2>5. PICK kept : kept \in Retained({f \in set : f < n - 1}, budget)
      BY <2>4
    <2>6. n - 1 + 1 = n
      BY <2>2
    <2>7. \E more : more \in Retained({f \in set : f < n}, budget)
      BY <2>4, <2>5, <2>6, RetainedGrows
    <2> QED
      BY <2>2, <2>7
  <1>2. PICK kept : kept \in Retained({f \in set : f < bound}, budget)
    BY <1>1
  <1>3. {f \in set : f < bound} = set
    OBVIOUS
  <1>4. Retained(set, budget) = {kept}
    BY <1>2, <1>3, RetainedUnique
  <1> QED
    BY <1>4

-----------------------------------------------------------------------------
(* A sound pass in the loop of generation.                                 *)

\* What wrap_generation is given.
Wraps(g, it) == SoundOf(g) /\ Wrappable(g, it)
LoopKeys == {<<<<>>, name>> : name \in LoopNames}

\* The nodes of the loop, field by field.
LEMMA SequenceStateFields ==
    /\ SequenceState.key = <<<<>>, "sequence">> /\ SequenceState.parent = Loop
    /\ SequenceState.op = "generation_sequence_state" /\ SequenceState.params = <<>>
    /\ SequenceState.ins = [initial |-> From(Loop, "prompt_ids", <<B, Si>>),
                            next |-> From(<<<<>>, "append">>, "updated", <<B, S1>>)]
    /\ SequenceState.outs = [current |-> <<B, S>>, final |-> <<B, Sf>>]
  BY DEF SequenceState, OfLoop, NodeIn, Loop, Sequence, Updated

LEMMA PrepareInputsFields ==
    ASSUME NEW g, NEW it
    PROVE  /\ PrepareInputs(g, it).key = <<<<>>, "prepare">> /\ PrepareInputs(g, it).parent = Loop
           /\ PrepareInputs(g, it).op = "generation_prepare_inputs"
           /\ PrepareInputs(g, it).params = <<>>
           /\ PrepareInputs(g, it).ins = [sequence |-> From(<<<<>>, "sequence">>, "current", <<B, S>>)]
           /\ DOMAIN PrepareInputs(g, it).outs = Prepared(it)
           /\ \A r \in Prepared(it) : PrepareInputs(g, it).outs[r] = RoleShape(g, it, r)
  BY SequenceStateFields DEF PrepareInputs, OfLoop, NodeIn, Loop, Port

LEMMA OnePassFields ==
    ASSUME NEW g, NEW it
    PROVE  /\ OnePass(g, it).key = it.model /\ OnePass(g, it).parent = Loop
           /\ OnePass(g, it).op = "group" /\ IsGroup(OnePass(g, it))
           /\ OnePass(g, it).params = NodeOf(g, it.model).params
           /\ DOMAIN OnePass(g, it).ins = Prepared(it)
           /\ \A r \in Prepared(it) :
                 OnePass(g, it).ins[r] = From(<<<<>>, "prepare">>, r, RoleShape(g, it, r))
           /\ DOMAIN OnePass(g, it).from = {"logits"} /\ OnePass(g, it).from.logits = Result(g, it)
           /\ DOMAIN OnePass(g, it).outs = {"logits"}
           /\ OnePass(g, it).outs.logits = Result(g, it).shape
  <1> DEFINE inputs == [r \in Prepared(it) |-> From(<<<<>>, "prepare">>, r, RoleShape(g, it, r))]
             group == Group(it.model, Loop, inputs, [logits |-> Result(g, it)])
  <1>1. \A r \in Prepared(it) :
            Port(PrepareInputs(g, it), r) = From(<<<<>>, "prepare">>, r, RoleShape(g, it, r))
    BY PrepareInputsFields DEF Port
  <1>2. OnePass(g, it) = With(group, NodeOf(g, it.model).params)
    BY <1>1 DEF OnePass
  <1>3. group = [key |-> it.model, parent |-> Loop, op |-> "group", ins |-> inputs,
                 outs |-> [logits |-> Result(g, it).shape], from |-> [logits |-> Result(g, it)],
                 params |-> <<>>]
    BY DEF Group
  <1> HIDE DEF group, inputs
  <1>4. /\ OnePass(g, it).key = it.model /\ OnePass(g, it).parent = Loop /\ OnePass(g, it).op = "group"
        /\ OnePass(g, it).params = NodeOf(g, it.model).params /\ OnePass(g, it).ins = inputs
        /\ OnePass(g, it).from = [logits |-> Result(g, it)]
        /\ OnePass(g, it).outs = [logits |-> Result(g, it).shape]
    BY <1>2, <1>3 DEF With
  <1> QED
    BY <1>4 DEF inputs, IsGroup

LEMMA GreedyNextTokenFields ==
    ASSUME NEW g, NEW it
    PROVE  /\ GreedyNextToken(g, it).key = <<<<>>, "select">> /\ GreedyNextToken(g, it).parent = Loop
           /\ GreedyNextToken(g, it).op = "generation_greedy_next_token"
           /\ GreedyNextToken(g, it).params = <<>>
           /\ GreedyNextToken(g, it).ins = [logits |-> From(it.model, "logits", Result(g, it).shape)]
           /\ GreedyNextToken(g, it).outs = [token |-> <<B, 1>>]
  <1>1. Port(OnePass(g, it), "logits") = From(it.model, "logits", Result(g, it).shape)
    BY OnePassFields DEF Port
  <1> QED
    BY <1>1 DEF GreedyNextToken, OfLoop, NodeIn, Loop

LEMMA AppendTokenFields ==
    ASSUME NEW g, NEW it, "tokens" \in Prepared(it)
    PROVE  /\ AppendToken(g, it).key = <<<<>>, "append">> /\ AppendToken(g, it).parent = Loop
           /\ AppendToken(g, it).op = "generation_append_token"
           /\ AppendToken(g, it).params = <<>>
           /\ AppendToken(g, it).ins =
                  [sequence |-> From(<<<<>>, "prepare">>, "tokens", RoleShape(g, it, "tokens")),
                   token |-> From(<<<<>>, "select">>, "token", <<B, 1>>)]
           /\ AppendToken(g, it).outs = [updated |-> <<B, S1>>]
  <1>1. Port(PrepareInputs(g, it), "tokens") =
            From(<<<<>>, "prepare">>, "tokens", RoleShape(g, it, "tokens"))
    BY PrepareInputsFields DEF Port
  <1>2. Port(GreedyNextToken(g, it), "token") = From(<<<<>>, "select">>, "token", <<B, 1>>)
    <2>1. /\ GreedyNextToken(g, it).key = <<<<>>, "select">>
          /\ GreedyNextToken(g, it).outs = [token |-> <<B, 1>>]
      BY GreedyNextTokenFields
    <2> QED
      BY ONLY <2>1 DEF Port
  <1> QED
    BY <1>1, <1>2 DEF AppendToken, OfLoop, NodeIn, Loop, Updated, Sequence

LEMMA GenerationLoopFields ==
    /\ GenerationLoop.key = Loop /\ GenerationLoop.parent = Nowhere
    /\ GenerationLoop.op = "group" /\ IsGroup(GenerationLoop) /\ GenerationLoop.params = <<>>
    /\ GenerationLoop.ins = [prompt_ids |-> From(Loop, "prompt_ids", <<B, Si>>)]
    /\ GenerationLoop.from = [token_ids |-> From(<<<<>>, "sequence">>, "final", <<B, Sf>>)]
    /\ GenerationLoop.outs = [token_ids |-> <<B, Sf>>]
  BY SequenceStateFields DEF GenerationLoop, Group, Port, From, Sequence, IsGroup

\* A renamed reference keeps its shape, a renamed node all but its references.
LEMMA MeantShape == \A it, v : Meant(it, v).shape = v.shape
  BY DEF Meant, From

LEMMA RenamedFields ==
    ASSUME NEW it, NEW n, DOMAIN n = NodeFields(n)
    PROVE  /\ Renamed(it, n).key = n.key /\ Renamed(it, n).parent = n.parent
           /\ Renamed(it, n).op = n.op /\ Renamed(it, n).outs = n.outs
           /\ Renamed(it, n).params = n.params
           /\ IsGroup(Renamed(it, n)) <=> IsGroup(n)
           /\ DOMAIN Renamed(it, n).ins = DOMAIN n.ins
           /\ \A p \in DOMAIN n.ins : Renamed(it, n).ins[p] = Meant(it, n.ins[p])
           /\ IsGroup(n) =>
                 /\ DOMAIN Renamed(it, n).from = DOMAIN n.from
                 /\ \A p \in DOMAIN n.from : Renamed(it, n).from[p] = Meant(it, n.from[p])
  <1>1. {"key", "parent", "op", "ins", "outs", "params"} \subseteq DOMAIN n
    BY DEF NodeFields
  <1>2. IsGroup(n) => "from" \in DOMAIN n
    BY DEF NodeFields, IsGroup
  <1>3. CASE IsGroup(n)
    BY <1>1, <1>2, <1>3 DEF Renamed, IsGroup
  <1>4. CASE ~IsGroup(n)
    BY <1>1, <1>4 DEF Renamed, IsGroup
  <1> QED
    BY <1>3, <1>4

LEMMA GeneratingFields ==
    ASSUME NEW g, NEW it, IsGraph(g)
    PROVE  /\ Generating(g, it).nodes = {Renamed(it, n) : n \in Remaining(g, it)} \cup LoopNodes(g, it)
           /\ Generating(g, it).weights = g.weights /\ Generating(g, it).results = {Loop}
  BY DEF Generating, IsGraph

\* The pass: what SoundOf and Wrappable say of the nodes.
LEMMA PassNodes ==
    ASSUME NEW g, NEW it, Wraps(g, it)
    PROVE  /\ IsGraph(g)
           /\ \A n, m \in g.nodes : n.key = m.key => n = m
           /\ \A n \in g.nodes : n.key \notin LoopKeys /\ n.key # Nowhere
           /\ \A n \in g.nodes :
                 n.op \notin Generation /\ n.op \notin Bookkeeping \cup {"concatenate_prior_kv"}
           /\ \A n \in g.nodes : DOMAIN n = NodeFields(n)
  BY DEF Wraps, SoundOf, Connected, Wrappable, Unwrapped, LoopKeys, IsGraph

LEMMA PassModel ==
    ASSUME NEW g, NEW it, Wraps(g, it)
    PROVE  /\ NodeOf(g, it.model) \in g.nodes /\ NodeOf(g, it.model).key = it.model
           /\ IsGroup(NodeOf(g, it.model)) /\ NodeOf(g, it.model).parent = Nowhere
           /\ it.model \notin LoopKeys /\ it.model # Nowhere
  <1>1. /\ NodeOf(g, it.model) \in g.nodes /\ NodeOf(g, it.model).key = it.model
        /\ IsGroup(NodeOf(g, it.model)) /\ NodeOf(g, it.model).parent = Nowhere
    BY Zenon DEF Wraps, Wrappable, ModelBoundary
  <1> QED
    BY <1>1, PassNodes

LEMMA PassResult ==
    ASSUME NEW g, NEW it, Wraps(g, it)
    PROVE  /\ Offered(g, it.model, Result(g, it)) = {Result(g, it).shape}
           /\ Result(g, it).node # it.model
           /\ Result(g, it).node \notin {n.key : n \in Declared(g, it)}
           /\ \A p \in DOMAIN NodeOf(g, it.model).from :
                 LET v == NodeOf(g, it.model).from[p]
                 IN  v.node = Result(g, it).node /\ v.port = Result(g, it).port
  BY Zenon DEF Wraps, Wrappable, ModelBoundary

LEMMA PassDeclared ==
    ASSUME NEW g, NEW it, Wraps(g, it), NEW n \in Declared(g, it)
    PROVE  /\ n \in g.nodes /\ ~IsGroup(n) /\ Range(n.params) = {}
           /\ \A p \in DOMAIN n.ins : n.ins[p] = Result(g, it) \/ n.ins[p].node = it.model
  <1>1. n \in g.nodes
    BY DEF Declared
  <1> QED
    BY <1>1, Zenon DEF Wraps, Wrappable, ModelBoundary

\* What remains is in the model, and enters it through its ports only.
LEMMA PassRemaining ==
    ASSUME NEW g, NEW it, Wraps(g, it), NEW n \in Remaining(g, it)
    PROVE  /\ n \in g.nodes /\ n \notin Declared(g, it) /\ n.key # it.model
           /\ n.parent # Nowhere /\ n.key \notin g.results
           /\ \A p \in DOMAIN n.ins : Enters(g, it, n, n.ins[p])
           /\ IsGroup(n) => \A p \in DOMAIN n.from : RoleOf(it, n.from[p]) = {}
  <1>1. n \in g.nodes /\ n \notin Declared(g, it) /\ n # NodeOf(g, it.model)
    BY DEF Remaining
  <1>2. n.key # it.model
    BY <1>1, PassNodes, PassModel
  <1> QED
    BY <1>1, <1>2, Zenon DEF Wraps, Wrappable, ModelBoundary

LEMMA PassCovered ==
    ASSUME NEW g, NEW it, NEW n \in g.nodes
    PROVE  n \in Remaining(g, it) \/ n \in Declared(g, it) \/ n = NodeOf(g, it.model)
  BY DEF Remaining

\* Only a declaration has the key of one, and a reference to it means a role.
LEMMA DeclaredMeansRole ==
    ASSUME NEW g, NEW it, NEW n \in Declared(g, it), NEW v, v.node = n.key
    PROVE  RoleOf(it, v) # {}
  <1>1. ~it.boundary /\ n.key[1] = <<>> /\ n.key[2] \in Range(it.roles)
    BY DEF Declared
  <1>2. PICK r \in DOMAIN it.roles : n.key[2] = it.roles[r]
    BY <1>1 DEF Range
  <1>3. r \in RoleOf(it, v)
    BY <1>1, <1>2 DEF RoleOf
  <1> QED
    BY <1>3

\* The parent of what remains is the model or a group that remains.
LEMMA PassParents ==
    ASSUME NEW g, NEW it, Wraps(g, it), NEW n \in Remaining(g, it)
    PROVE  \/ n.parent = it.model
           \/ \E m \in Remaining(g, it) : m.key = n.parent /\ IsGroup(m)
  <1>1. n \in g.nodes /\ n.parent # Nowhere
    BY PassRemaining
  <1>2. PICK m \in g.nodes : m.key = n.parent /\ IsGroup(m)
    BY <1>1, Zenon DEF Wraps, SoundOf, Connected
  <1>3. m \notin Declared(g, it)
    BY <1>2, PassDeclared
  <1> QED
    BY <1>2, <1>3, PassCovered, PassModel

\* The loop has names that no node of the pass has, and the model keeps its own.
LEMMA LoopNodeKeys ==
    ASSUME NEW g, NEW it, Wraps(g, it), NEW n \in LoopNodes(g, it)
    PROVE  /\ n.key \in LoopKeys \cup {it.model}
           /\ n.parent \in {Loop, Nowhere}
           /\ n.key = it.model => n = OnePass(g, it)
           /\ n.key = Loop => n = GenerationLoop
           /\ \A m \in LoopNodes(g, it) : m.key = n.key => m = n
  <1>1. "tokens" \in Prepared(it)
    BY DEF Wraps, Wrappable, PreparedRoles
  <1>2. /\ SequenceState.key = <<<<>>, "sequence">> /\ SequenceState.parent = Loop
        /\ PrepareInputs(g, it).key = <<<<>>, "prepare">> /\ PrepareInputs(g, it).parent = Loop
        /\ OnePass(g, it).key = it.model /\ OnePass(g, it).parent = Loop
        /\ GreedyNextToken(g, it).key = <<<<>>, "select">> /\ GreedyNextToken(g, it).parent = Loop
        /\ AppendToken(g, it).key = <<<<>>, "append">> /\ AppendToken(g, it).parent = Loop
        /\ GenerationLoop.key = <<<<>>, "generation">> /\ GenerationLoop.parent = Nowhere
    <2>1. AppendToken(g, it).key = <<<<>>, "append">> /\ AppendToken(g, it).parent = Loop
      BY <1>1, AppendTokenFields
    <2>2. /\ PrepareInputs(g, it).key = <<<<>>, "prepare">> /\ PrepareInputs(g, it).parent = Loop
          /\ OnePass(g, it).key = it.model /\ OnePass(g, it).parent = Loop
      BY PrepareInputsFields, OnePassFields
    <2>3. GreedyNextToken(g, it).key = <<<<>>, "select">> /\ GreedyNextToken(g, it).parent = Loop
      BY GreedyNextTokenFields
    <2> QED
      BY <2>1, <2>2, <2>3, SequenceStateFields, GenerationLoopFields DEF Loop
  <1>3. \A name \in LoopNames : <<<<>>, name>> \in LoopKeys
    BY DEF LoopKeys
  <1>4. it.model \notin LoopKeys
    BY PassModel
  <1>5. /\ <<<<>>, "sequence">> \in LoopKeys /\ <<<<>>, "prepare">> \in LoopKeys
        /\ <<<<>>, "select">> \in LoopKeys /\ <<<<>>, "append">> \in LoopKeys
        /\ <<<<>>, "generation">> \in LoopKeys
    BY <1>3 DEF LoopNames
  <1>6. \A x, y : <<<<>>, x>> = <<<<>>, y>> => x = y
    OBVIOUS
  <1> QED
    BY <1>2, <1>4, <1>5, <1>6 DEF LoopNodes, Loop

LEMMA LoopKeysApart ==
    /\ Loop \in LoopKeys /\ Loop # Nowhere
    /\ <<<<>>, "sequence">> \in LoopKeys /\ <<<<>>, "prepare">> \in LoopKeys
    /\ <<<<>>, "select">> \in LoopKeys /\ <<<<>>, "append">> \in LoopKeys
    /\ \A x, y : <<<<>>, x>> = <<<<>>, y>> => x = y
  BY DEF LoopKeys, LoopNames, Loop, Nowhere

LEMMA RemainingFields ==
    ASSUME NEW g, NEW it, Wraps(g, it), NEW n \in Remaining(g, it)
    PROVE  /\ Renamed(it, n).key = n.key /\ Renamed(it, n).parent = n.parent
           /\ Renamed(it, n).op = n.op /\ Renamed(it, n).outs = n.outs
           /\ Renamed(it, n).params = n.params
           /\ IsGroup(Renamed(it, n)) <=> IsGroup(n)
           /\ DOMAIN Renamed(it, n).ins = DOMAIN n.ins
           /\ \A p \in DOMAIN n.ins : Renamed(it, n).ins[p] = Meant(it, n.ins[p])
           /\ IsGroup(n) =>
                 /\ DOMAIN Renamed(it, n).from = DOMAIN n.from
                 /\ \A p \in DOMAIN n.from : Renamed(it, n).from[p] = Meant(it, n.from[p])
           /\ n.key \notin LoopKeys \cup {it.model}
  BY PassNodes, PassRemaining, RenamedFields

\* The nodes of what is published.
LEMMA GeneratingNodes ==
    ASSUME NEW g, NEW it, Wraps(g, it)
    PROVE  /\ Generating(g, it).nodes = {Renamed(it, n) : n \in Remaining(g, it)} \cup LoopNodes(g, it)
           /\ Generating(g, it).weights = g.weights /\ Generating(g, it).results = {Loop}
  BY PassNodes, GeneratingFields

LEMMA UniqueKeys ==
    ASSUME NEW g, NEW it, Wraps(g, it),
           NEW n \in Generating(g, it).nodes, NEW m \in Generating(g, it).nodes, n.key = m.key
    PROVE  n = m
  <1>1. CASE n \in LoopNodes(g, it) /\ m \in LoopNodes(g, it)
    BY <1>1, LoopNodeKeys
  <1>2. ASSUME NEW x \in Remaining(g, it), NEW y \in LoopNodes(g, it)
        PROVE  Renamed(it, x).key # y.key
    BY RemainingFields, LoopNodeKeys
  <1>3. ASSUME NEW x \in Remaining(g, it), NEW y \in Remaining(g, it),
               Renamed(it, x).key = Renamed(it, y).key
        PROVE  x = y
    BY <1>3, RemainingFields, PassRemaining, PassNodes
  <1> QED
    BY <1>1, <1>2, <1>3, GeneratingNodes

LEMMA FoundByKey ==
    ASSUME NEW g, NEW it, Wraps(g, it), NEW n \in Generating(g, it).nodes
    PROVE  NodeOf(Generating(g, it), n.key) = n
  BY UniqueKeys DEF NodeOf

\* A reference that means no role finds what it found, wherever it comes from in the model.
LEMMA OfferedKept ==
    ASSUME NEW g, NEW it, Wraps(g, it), NEW at_, NEW v,
           at_ = it.model \/ (\E m \in Remaining(g, it) : m.key = at_ /\ IsGroup(m)),
           v.node # it.model, v.node \notin {n.key : n \in Declared(g, it)},
           Offered(g, at_, v) = {v.shape}
    PROVE  Offered(Generating(g, it), at_, v) = {v.shape}
  <1> DEFINE G == Generating(g, it)
  <1>1. CASE v.node = at_
    <2>1. PICK m \in Remaining(g, it) : m.key = at_ /\ IsGroup(m)
      BY <1>1
    <2>2. NodeOf(g, at_) = m
      BY <2>1, PassNodes, PassRemaining DEF NodeOf
    <2>3. Renamed(it, m) \in G.nodes /\ Renamed(it, m).key = at_
      BY <2>1, GeneratingNodes, RemainingFields
    <2>4. NodeOf(G, at_) = Renamed(it, m)
      BY <2>3, FoundByKey
    <2>5. v.port \in DOMAIN m.ins /\ m.ins[v.port].shape = v.shape
      BY <1>1, <2>2 DEF Offered
    <2>6. /\ DOMAIN Renamed(it, m).ins = DOMAIN m.ins
          /\ \A p \in DOMAIN m.ins : Renamed(it, m).ins[p] = Meant(it, m.ins[p])
      BY RemainingFields
    <2>7. /\ v.port \in DOMAIN Renamed(it, m).ins
          /\ Renamed(it, m).ins[v.port].shape = v.shape
      BY <2>5, <2>6, MeantShape
    <2> QED
      BY ONLY <1>1, <2>4, <2>7 DEF Offered
  <1>2. CASE v.node # at_
    <2> DEFINE sources == {n \in g.nodes : n.key = v.node /\ n.parent = at_ /\ v.port \in DOMAIN n.outs}
               now == {n \in G.nodes : n.key = v.node /\ n.parent = at_ /\ v.port \in DOMAIN n.outs}
    <2>1. Offered(g, at_, v) = {n.outs[v.port] : n \in sources}
      BY <1>2 DEF Offered
    <2>2. Offered(G, at_, v) = {n.outs[v.port] : n \in now}
      BY <1>2 DEF Offered
    <2>3. PICK s \in sources : s.outs[v.port] = v.shape
      BY <2>1
    <2>4. s \in Remaining(g, it)
      BY <2>3, PassCovered, PassModel
    <2>5. Renamed(it, s) \in now /\ Renamed(it, s).outs = s.outs
      BY <2>3, <2>4, GeneratingNodes, RemainingFields
    <2>6. \A n \in now : n = Renamed(it, s)
      BY <2>5, UniqueKeys
    <2> HIDE DEF now, sources
    <2> QED
      BY <2>2, <2>3, <2>5, <2>6
  <1> QED
    BY <1>1, <1>2

\* A reference that means a role finds the port of the model that has it.
LEMMA OfferedByTheModel ==
    ASSUME NEW g, NEW it, Wraps(g, it), NEW r \in Prepared(it), NEW shape
    PROVE  Offered(Generating(g, it), it.model, From(it.model, r, shape)) = {RoleShape(g, it, r)}
  <1>1. OnePass(g, it) \in Generating(g, it).nodes /\ OnePass(g, it).key = it.model
    BY GeneratingNodes, OnePassFields DEF LoopNodes
  <1>2. NodeOf(Generating(g, it), it.model) = OnePass(g, it)
    BY <1>1, FoundByKey
  <1>3. r \in DOMAIN OnePass(g, it).ins /\ OnePass(g, it).ins[r].shape = RoleShape(g, it, r)
    <2>1. /\ DOMAIN OnePass(g, it).ins = Prepared(it)
          /\ OnePass(g, it).ins[r] = From(<<<<>>, "prepare">>, r, RoleShape(g, it, r))
      BY OnePassFields
    <2> QED
      BY <2>1 DEF From
  <1> QED
    BY <1>2, <1>3 DEF Offered, From

LEMMA MeantRole ==
    ASSUME NEW g, NEW it, NEW n, NEW v, Enters(g, it, n, v), RoleOf(it, v) # {}
    PROVE  \E r \in Prepared(it) :
               /\ Meant(it, v) = From(it.model, r, v.shape)
               /\ n.parent = it.model /\ v.shape = RoleShape(g, it, r)
  <1> DEFINE r == CHOOSE r \in RoleOf(it, v) : TRUE
  <1>1. r \in RoleOf(it, v)
    OBVIOUS
  <1>2. Meant(it, v) = From(it.model, r, v.shape)
    BY DEF Meant
  <1> HIDE DEF r
  <1>3. r # "logits" /\ n.parent = it.model /\ v.shape = RoleShape(g, it, r)
    BY <1>1 DEF Enters
  <1>4. r \in DOMAIN it.roles
    BY <1>1 DEF RoleOf
  <1> QED
    BY <1>2, <1>3, <1>4 DEF Prepared

\* What validate_graph asks of one node.
Joined(g, n) ==
    /\ n.parent = Nowhere \/ \E m \in g.nodes : m.key = n.parent /\ IsGroup(m)
    /\ \A p \in Wired(n) : Offered(g, n.parent, n.ins[p]) = {n.ins[p].shape}
    /\ IsGroup(n) => \A p \in DOMAIN n.from : Offered(g, n.key, n.from[p]) = {n.from[p].shape}
    /\ Range(n.params) \subseteq DOMAIN g.weights

LEMMA OfferedBySibling ==
    ASSUME NEW g, NEW it, Wraps(g, it), NEW n \in Generating(g, it).nodes,
           NEW port \in DOMAIN n.outs, NEW shape, n.key # n.parent
    PROVE  Offered(Generating(g, it), n.parent, From(n.key, port, shape)) = {n.outs[port]}
  <1> DEFINE v == From(n.key, port, shape)
             sources == {m \in Generating(g, it).nodes : m.key = v.node /\ m.parent = n.parent}
             offering == {m \in sources : v.port \in DOMAIN m.outs}
  <1>1. v.node = n.key /\ v.port = port
    BY DEF From
  <1>2. n \in offering
    BY <1>1
  <1>3. \A m \in offering : m = n
    BY <1>1, UniqueKeys
  <1>4. Offered(Generating(g, it), n.parent, v) = {m.outs[v.port] : m \in offering}
    BY <1>1 DEF Offered
  <1> HIDE DEF offering, v
  <1>5. {m.outs[v.port] : m \in offering} = {n.outs[port]}
    BY <1>1, <1>2, <1>3
  <1> QED
    BY <1>4, <1>5 DEF v

LEMMA OfferedByGroup ==
    ASSUME NEW g, NEW it, Wraps(g, it), NEW n \in Generating(g, it).nodes,
           NEW port \in DOMAIN n.ins, NEW shape
    PROVE  Offered(Generating(g, it), n.key, From(n.key, port, shape)) = {n.ins[port].shape}
  <1>1. NodeOf(Generating(g, it), n.key) = n
    BY FoundByKey
  <1> QED
    BY <1>1 DEF Offered, From

LEMMA NoParameters == Range(<<>>) = {}
  BY DEF Range

LEMMA RemainingJoined ==
    ASSUME NEW g, NEW it, Wraps(g, it), NEW n \in Remaining(g, it)
    PROVE  Joined(Generating(g, it), Renamed(it, n))
  <1> DEFINE G == Generating(g, it)
             m == Renamed(it, n)
  <1>1. /\ m.key = n.key /\ m.parent = n.parent /\ m.params = n.params
        /\ IsGroup(m) <=> IsGroup(n)
        /\ DOMAIN m.ins = DOMAIN n.ins /\ \A p \in DOMAIN n.ins : m.ins[p] = Meant(it, n.ins[p])
    BY RemainingFields
  <1>2. IsGroup(n) => /\ DOMAIN m.from = DOMAIN n.from
                      /\ \A p \in DOMAIN n.from : m.from[p] = Meant(it, n.from[p])
    BY RemainingFields
  <1>3. Joined(g, n)
    <2>1. n \in g.nodes
      BY PassRemaining
    <2> QED
      BY <2>1, Zenon DEF Wraps, SoundOf, Connected, Joined
  <1> HIDE DEF m
  <1>4. \A v : RoleOf(it, v) = {} => Meant(it, v) = v /\ v.node \notin {d.key : d \in Declared(g, it)}
    BY DeclaredMeansRole DEF Meant
  <1>5. \E k \in G.nodes : k.key = m.parent /\ IsGroup(k)
    <2>1. CASE n.parent = it.model
      BY <1>1, <2>1, GeneratingNodes, OnePassFields DEF LoopNodes
    <2>2. CASE \E k \in Remaining(g, it) : k.key = n.parent /\ IsGroup(k)
      <3>1. PICK k \in Remaining(g, it) : k.key = n.parent /\ IsGroup(k)
        BY <2>2
      <3>2. Renamed(it, k) \in G.nodes /\ Renamed(it, k).key = n.parent /\ IsGroup(Renamed(it, k))
        BY <3>1, GeneratingNodes, RemainingFields
      <3> QED
        BY <1>1, <3>2
    <2> QED
      BY <2>1, <2>2, PassParents
  <1>6. ASSUME NEW p \in Wired(m) PROVE Offered(G, m.parent, m.ins[p]) = {m.ins[p].shape}
    <2> DEFINE v == n.ins[p]
    <2>1. p \in DOMAIN n.ins /\ m.ins[p] = Meant(it, v) /\ m.ins[p].node # n.key
      BY <1>1, <1>6 DEF Wired
    <2>2. Enters(g, it, n, v)
      BY <2>1, PassRemaining
    <2>3. CASE RoleOf(it, v) = {}
      <3>1. m.ins[p] = v /\ v.node \notin {d.key : d \in Declared(g, it)}
        BY <1>4, <2>1, <2>3
      <3>2. v.node # it.model
        BY <2>2, <2>3 DEF Enters
      <3>3. p \in Wired(n)
        BY <2>1, <3>1 DEF Wired
      <3>4. Offered(g, n.parent, v) = {v.shape}
        BY <1>3, <3>3 DEF Joined
      <3>5. Offered(G, n.parent, v) = {v.shape}
        BY <3>1, <3>2, <3>4, PassParents, OfferedKept
      <3> QED
        BY <1>1, <3>1, <3>5
    <2>4. CASE RoleOf(it, v) # {}
      <3>1. PICK r \in Prepared(it) :
                /\ Meant(it, v) = From(it.model, r, v.shape)
                /\ n.parent = it.model /\ v.shape = RoleShape(g, it, r)
        BY <2>2, <2>4, MeantRole
      <3>2. Offered(G, it.model, From(it.model, r, v.shape)) = {v.shape}
        BY <3>1, OfferedByTheModel
      <3> QED
        BY <1>1, <2>1, <3>1, <3>2 DEF From
    <2> QED
      BY <2>3, <2>4
  <1>7. ASSUME IsGroup(m), NEW p \in DOMAIN m.from
        PROVE  Offered(G, m.key, m.from[p]) = {m.from[p].shape}
    <2> DEFINE v == n.from[p]
    <2>1. IsGroup(n) /\ p \in DOMAIN n.from /\ RoleOf(it, v) = {}
      BY <1>1, <1>2, <1>7, PassRemaining
    <2>2. m.from[p] = v /\ v.node \notin {d.key : d \in Declared(g, it)}
      BY <1>2, <1>4, <2>1
    <2>3. Offered(g, n.key, v) = {v.shape}
      BY <1>3, <2>1 DEF Joined
    <2>4. v.node # it.model
      <3> SUFFICES ASSUME v.node = it.model PROVE FALSE
        OBVIOUS
      <3>1. n.key # it.model /\ n.key # Nowhere
        BY PassRemaining, PassNodes
      <3>2. {x \in g.nodes : x.key = v.node /\ x.parent = n.key} = {}
        <4>1. \A x \in g.nodes : x.key = v.node => x.parent = Nowhere
          BY PassModel, PassNodes
        <4> QED
          BY <3>1, <4>1
      <3>3. Offered(g, n.key, v) = {}
        BY <3>1, <3>2 DEF Offered
      <3> QED
        BY <2>3, <3>3
    <2>5. Offered(G, n.key, v) = {v.shape}
      BY <2>1, <2>2, <2>3, <2>4, OfferedKept
    <2> QED
      BY <1>1, <2>2, <2>5
  <1>8. Range(m.params) \subseteq DOMAIN G.weights
    BY <1>1, <1>3, GeneratingNodes DEF Joined
  <1> QED
    BY <1>5, <1>6, <1>7, <1>8 DEF Joined, m

LEMMA LoopMembers ==
    ASSUME NEW g, NEW it, Wraps(g, it)
    PROVE  /\ LoopNodes(g, it) \subseteq Generating(g, it).nodes
           /\ "tokens" \in Prepared(it)
           /\ it.model \notin LoopKeys /\ it.model # Loop
           /\ \E m \in Generating(g, it).nodes : m.key = Loop /\ IsGroup(m)
  <1>1. LoopNodes(g, it) \subseteq Generating(g, it).nodes
    BY GeneratingNodes
  <1>2. "tokens" \in Prepared(it)
    BY DEF Wraps, Wrappable, PreparedRoles
  <1>3. it.model \notin LoopKeys /\ it.model # Loop
    BY PassModel, LoopKeysApart
  <1>4. GenerationLoop \in Generating(g, it).nodes
    BY <1>1 DEF LoopNodes
  <1> QED
    BY <1>1, <1>2, <1>3, <1>4, GenerationLoopFields

\* Of every output in the loop there is one source.
LEMMA OfferedInLoop ==
    ASSUME NEW g, NEW it, Wraps(g, it), NEW s
    PROVE  /\ Offered(Generating(g, it), Loop, From(<<<<>>, "sequence">>, "current", s)) = {<<B, S>>}
           /\ Offered(Generating(g, it), Loop, From(<<<<>>, "sequence">>, "final", s)) = {<<B, Sf>>}
           /\ \A r \in Prepared(it) :
                 Offered(Generating(g, it), Loop, From(<<<<>>, "prepare">>, r, s)) =
                     {RoleShape(g, it, r)}
           /\ Offered(Generating(g, it), Loop, From(it.model, "logits", s)) = {Result(g, it).shape}
           /\ Offered(Generating(g, it), Loop, From(<<<<>>, "select">>, "token", s)) = {<<B, 1>>}
           /\ Offered(Generating(g, it), Loop, From(<<<<>>, "append">>, "updated", s)) = {<<B, S1>>}
           /\ Offered(Generating(g, it), Loop, From(Loop, "prompt_ids", s)) = {<<B, Si>>}
  <1>1. ASSUME NEW n \in LoopNodes(g, it), n.parent = Loop, n.key # Loop, NEW p \in DOMAIN n.outs
        PROVE  Offered(Generating(g, it), Loop, From(n.key, p, s)) = {n.outs[p]}
    <2>1. n \in Generating(g, it).nodes /\ n.key # n.parent
      BY <1>1, LoopMembers
    <2>2. Offered(Generating(g, it), n.parent, From(n.key, p, s)) = {n.outs[p]}
      BY <1>1, <2>1, OfferedBySibling
    <2> QED
      BY <1>1, <2>2
  <1>2. <<<<>>, "sequence">> # Loop /\ <<<<>>, "prepare">> # Loop /\ <<<<>>, "select">> # Loop
        /\ <<<<>>, "append">> # Loop /\ it.model # Loop
    BY LoopKeysApart, LoopMembers DEF Loop
  <1>3. ASSUME NEW p \in {"current", "final"}
        PROVE  Offered(Generating(g, it), Loop, From(<<<<>>, "sequence">>, p, s)) =
                   {SequenceState.outs[p]}
    <2>1. /\ SequenceState \in LoopNodes(g, it) /\ SequenceState.key = <<<<>>, "sequence">>
          /\ SequenceState.parent = Loop /\ p \in DOMAIN SequenceState.outs
      BY SequenceStateFields DEF LoopNodes
    <2> QED
      BY <1>1, <1>2, <2>1
  <1>4. SequenceState.outs["current"] = <<B, S>> /\ SequenceState.outs["final"] = <<B, Sf>>
    BY SequenceStateFields
  <1>5. ASSUME NEW r \in Prepared(it)
        PROVE  Offered(Generating(g, it), Loop, From(<<<<>>, "prepare">>, r, s)) =
                   {RoleShape(g, it, r)}
    <2>1. /\ PrepareInputs(g, it) \in LoopNodes(g, it) /\ PrepareInputs(g, it).key = <<<<>>, "prepare">>
          /\ PrepareInputs(g, it).parent = Loop /\ r \in DOMAIN PrepareInputs(g, it).outs
          /\ PrepareInputs(g, it).outs[r] = RoleShape(g, it, r)
      BY PrepareInputsFields DEF LoopNodes
    <2> QED
      BY <1>1, <1>2, <2>1
  <1>6. Offered(Generating(g, it), Loop, From(it.model, "logits", s)) = {Result(g, it).shape}
    <2>1. /\ OnePass(g, it) \in LoopNodes(g, it) /\ OnePass(g, it).key = it.model
          /\ OnePass(g, it).parent = Loop /\ "logits" \in DOMAIN OnePass(g, it).outs
          /\ OnePass(g, it).outs["logits"] = Result(g, it).shape
      BY OnePassFields DEF LoopNodes
    <2> QED
      BY <1>1, <1>2, <2>1
  <1>7. Offered(Generating(g, it), Loop, From(<<<<>>, "select">>, "token", s)) = {<<B, 1>>}
    <2>1. /\ GreedyNextToken(g, it).key = <<<<>>, "select">> /\ GreedyNextToken(g, it).parent = Loop
          /\ GreedyNextToken(g, it).outs = [token |-> <<B, 1>>]
      BY GreedyNextTokenFields
    <2>2. /\ "token" \in DOMAIN GreedyNextToken(g, it).outs
          /\ GreedyNextToken(g, it).outs["token"] = <<B, 1>>
      BY <2>1
    <2>3. GreedyNextToken(g, it) \in LoopNodes(g, it)
      BY DEF LoopNodes
    <2> QED
      BY <1>1, <1>2, <2>1, <2>2, <2>3
  <1>8. Offered(Generating(g, it), Loop, From(<<<<>>, "append">>, "updated", s)) = {<<B, S1>>}
    <2>1. /\ AppendToken(g, it).key = <<<<>>, "append">> /\ AppendToken(g, it).parent = Loop
          /\ AppendToken(g, it).outs = [updated |-> <<B, S1>>]
      BY AppendTokenFields, LoopMembers
    <2>2. /\ "updated" \in DOMAIN AppendToken(g, it).outs
          /\ AppendToken(g, it).outs["updated"] = <<B, S1>>
      BY <2>1
    <2>3. AppendToken(g, it) \in LoopNodes(g, it)
      BY DEF LoopNodes
    <2> QED
      BY <1>1, <1>2, <2>1, <2>2, <2>3
  <1>9. Offered(Generating(g, it), Loop, From(Loop, "prompt_ids", s)) = {<<B, Si>>}
    <2>1. /\ "prompt_ids" \in DOMAIN GenerationLoop.ins /\ GenerationLoop.key = Loop
          /\ GenerationLoop.ins["prompt_ids"].shape = <<B, Si>>
      BY GenerationLoopFields DEF From
    <2>2. GenerationLoop \in Generating(g, it).nodes
      BY LoopMembers DEF LoopNodes
    <2>3. Offered(Generating(g, it), GenerationLoop.key, From(GenerationLoop.key, "prompt_ids", s)) =
              {GenerationLoop.ins["prompt_ids"].shape}
      BY <2>1, <2>2, OfferedByGroup
    <2> QED
      BY <2>1, <2>3
  <1> QED
    BY <1>3, <1>4, <1>5, <1>6, <1>7, <1>8, <1>9

LEMMA OperationJoined ==
    ASSUME NEW g, NEW n, n.params = <<>>, ~IsGroup(n),
           \E m \in g.nodes : m.key = n.parent /\ IsGroup(m),
           \A p \in DOMAIN n.ins : Offered(g, n.parent, n.ins[p]) = {n.ins[p].shape}
    PROVE  Joined(g, n)
  BY NoParameters DEF Joined, Wired

LEMMA LoopJoined ==
    ASSUME NEW g, NEW it, Wraps(g, it), NEW n \in LoopNodes(g, it)
    PROVE  Joined(Generating(g, it), n)
  <1> DEFINE G == Generating(g, it)
  <1>1. \E m \in G.nodes : m.key = Loop /\ IsGroup(m)
    BY LoopMembers
  <1>2. \A key, port, s : From(key, port, s).shape = s /\ From(key, port, s).node = key
    BY DEF From
  <1>3. CASE n = SequenceState
    <2>1. n.params = <<>> /\ ~IsGroup(n) /\ n.parent = Loop
      BY <1>3, SequenceStateFields DEF IsGroup
    <2>2. n.ins = [initial |-> From(Loop, "prompt_ids", <<B, Si>>),
                   next |-> From(<<<<>>, "append">>, "updated", <<B, S1>>)]
      BY <1>3, SequenceStateFields
    <2>3. /\ Offered(G, Loop, From(Loop, "prompt_ids", <<B, Si>>)) = {<<B, Si>>}
          /\ Offered(G, Loop, From(<<<<>>, "append">>, "updated", <<B, S1>>)) = {<<B, S1>>}
      BY OfferedInLoop
    <2> HIDE DEF G
    <2>4. \A p \in DOMAIN n.ins : Offered(G, n.parent, n.ins[p]) = {n.ins[p].shape}
      BY <1>2, <2>1, <2>2, <2>3
    <2>5. Joined(G, n)
      BY <1>1, <2>1, <2>4, OperationJoined
    <2> QED
      BY <2>5 DEF G
  <1>4. CASE n = PrepareInputs(g, it)
    <2>1. n.params = <<>> /\ ~IsGroup(n) /\ n.parent = Loop
      BY <1>4, PrepareInputsFields DEF IsGroup
    <2>2. n.ins = [sequence |-> From(<<<<>>, "sequence">>, "current", <<B, S>>)]
      BY <1>4, PrepareInputsFields
    <2>3. Offered(G, Loop, From(<<<<>>, "sequence">>, "current", <<B, S>>)) = {<<B, S>>}
      BY OfferedInLoop
    <2> HIDE DEF G
    <2>4. \A p \in DOMAIN n.ins : Offered(G, n.parent, n.ins[p]) = {n.ins[p].shape}
      BY <1>2, <2>1, <2>2, <2>3
    <2>5. Joined(G, n)
      BY <1>1, <2>1, <2>4, OperationJoined
    <2> QED
      BY <2>5 DEF G
  <1>5. CASE n = OnePass(g, it)
    <2>1. /\ n.key = it.model /\ n.parent = Loop /\ n.params = NodeOf(g, it.model).params
          /\ DOMAIN n.ins = Prepared(it)
          /\ \A r \in Prepared(it) : n.ins[r] = From(<<<<>>, "prepare">>, r, RoleShape(g, it, r))
          /\ DOMAIN n.from = {"logits"} /\ n.from["logits"] = Result(g, it)
      BY <1>5, OnePassFields
    <2>2. \A r \in Prepared(it) :
              Offered(G, Loop, From(<<<<>>, "prepare">>, r, RoleShape(g, it, r))) = {RoleShape(g, it, r)}
      <3>1. \A s : \A r \in Prepared(it) :
                Offered(G, Loop, From(<<<<>>, "prepare">>, r, s)) = {RoleShape(g, it, r)}
        BY OfferedInLoop
      <3> QED
        BY <3>1
    <2>3. Offered(G, it.model, Result(g, it)) = {Result(g, it).shape}
      BY PassResult, OfferedKept
    <2>4. Range(n.params) \subseteq DOMAIN G.weights
      <3>1. Range(NodeOf(g, it.model).params) \subseteq DOMAIN g.weights
        BY PassModel, Zenon DEF Wraps, SoundOf, Connected
      <3> QED
        BY <2>1, <3>1, GeneratingNodes
    <2> HIDE DEF G
    <2>5. \A p \in Wired(n) : Offered(G, n.parent, n.ins[p]) = {n.ins[p].shape}
      BY <1>2, <2>1, <2>2 DEF Wired
    <2>6. \A p \in DOMAIN n.from : Offered(G, n.key, n.from[p]) = {n.from[p].shape}
      BY <2>1, <2>3
    <2>7. Joined(G, n)
      BY <1>1, <2>1, <2>4, <2>5, <2>6 DEF Joined
    <2> QED
      BY <2>7 DEF G
  <1>6. CASE n = GreedyNextToken(g, it)
    <2>1. n.params = <<>> /\ ~IsGroup(n) /\ n.parent = Loop
      BY <1>6, GreedyNextTokenFields DEF IsGroup
    <2>2. n.ins = [logits |-> From(it.model, "logits", Result(g, it).shape)]
      BY <1>6, GreedyNextTokenFields
    <2>3. Offered(G, Loop, From(it.model, "logits", Result(g, it).shape)) = {Result(g, it).shape}
      <3>1. \A s : Offered(G, Loop, From(it.model, "logits", s)) = {Result(g, it).shape}
        BY OfferedInLoop
      <3> QED
        BY <3>1
    <2> HIDE DEF G
    <2>4. \A p \in DOMAIN n.ins : Offered(G, n.parent, n.ins[p]) = {n.ins[p].shape}
      BY <1>2, <2>1, <2>2, <2>3
    <2>5. Joined(G, n)
      BY <1>1, <2>1, <2>4, OperationJoined
    <2> QED
      BY <2>5 DEF G
  <1>7. CASE n = AppendToken(g, it)
    <2>1. n.params = <<>> /\ ~IsGroup(n) /\ n.parent = Loop
      BY <1>7, LoopMembers, AppendTokenFields DEF IsGroup
    <2>2. n.ins = [sequence |-> From(<<<<>>, "prepare">>, "tokens", RoleShape(g, it, "tokens")),
                   token |-> From(<<<<>>, "select">>, "token", <<B, 1>>)]
      BY <1>7, LoopMembers, AppendTokenFields
    <2>3. /\ Offered(G, Loop, From(<<<<>>, "select">>, "token", <<B, 1>>)) = {<<B, 1>>}
          /\ Offered(G, Loop, From(<<<<>>, "prepare">>, "tokens", RoleShape(g, it, "tokens"))) =
                 {RoleShape(g, it, "tokens")}
      <3>1. \A s : \A r \in Prepared(it) :
                Offered(G, Loop, From(<<<<>>, "prepare">>, r, s)) = {RoleShape(g, it, r)}
        BY OfferedInLoop
      <3>2. \A s : Offered(G, Loop, From(<<<<>>, "select">>, "token", s)) = {<<B, 1>>}
        BY OfferedInLoop
      <3> QED
        BY <3>1, <3>2, LoopMembers
    <2> HIDE DEF G
    <2>4. \A p \in DOMAIN n.ins : Offered(G, n.parent, n.ins[p]) = {n.ins[p].shape}
      BY <1>2, <2>1, <2>2, <2>3
    <2>5. Joined(G, n)
      BY <1>1, <2>1, <2>4, OperationJoined
    <2> QED
      BY <2>5 DEF G
  <1>8. CASE n = GenerationLoop
    <2>1. /\ n.key = Loop /\ n.parent = Nowhere /\ n.params = <<>>
          /\ n.ins = [prompt_ids |-> From(Loop, "prompt_ids", <<B, Si>>)]
          /\ n.from = [token_ids |-> From(<<<<>>, "sequence">>, "final", <<B, Sf>>)]
      BY <1>8, GenerationLoopFields
    <2>2. Offered(G, Loop, From(<<<<>>, "sequence">>, "final", <<B, Sf>>)) = {<<B, Sf>>}
      BY OfferedInLoop
    <2> HIDE DEF G
    <2>3. Wired(n) = {}
      BY <1>2, <2>1 DEF Wired
    <2>4. \A p \in DOMAIN n.from : Offered(G, n.key, n.from[p]) = {n.from[p].shape}
      BY <1>2, <2>1, <2>2
    <2>5. Joined(G, n)
      BY <2>1, <2>3, <2>4, NoParameters DEF Joined
    <2> QED
      BY <2>5 DEF G
  <1> QED
    BY <1>3, <1>4, <1>5, <1>6, <1>7, <1>8 DEF LoopNodes

LEMMA GeneratingConnected ==
    ASSUME NEW g, NEW it, Wraps(g, it)
    PROVE  Connected(Generating(g, it))
  <1>1. \A n \in Generating(g, it).nodes : Joined(Generating(g, it), n)
    BY GeneratingNodes, RemainingJoined, LoopJoined
  <1> QED
    BY <1>1, UniqueKeys, Zenon DEF Connected, Joined


\* A node uses a reference.
UsedBy(n, v) ==
    \/ \E p \in DOMAIN n.ins : v = n.ins[p]
    \/ IsGroup(n) /\ \E p \in DOMAIN n.from : v = n.from[p]

LEMMA UsedByANode == \A g, v : v \in Used(g) <=> \E n \in g.nodes : UsedBy(n, v)
  <1> SUFFICES ASSUME NEW g, NEW v PROVE v \in Used(g) <=> \E n \in g.nodes : UsedBy(n, v)
    OBVIOUS
  <1> DEFINE groups == {m \in g.nodes : IsGroup(m)}
             ins == {{n.ins[p] : p \in DOMAIN n.ins} : n \in g.nodes}
             from == {{n.from[p] : p \in DOMAIN n.from} : n \in groups}
  <1>1. Used(g) = (UNION ins) \cup (UNION from)
    BY DEF Used
  <1>2. v \in UNION ins <=> \E n \in g.nodes : \E p \in DOMAIN n.ins : v = n.ins[p]
    OBVIOUS
  <1>3. v \in UNION from <=> \E n \in g.nodes : IsGroup(n) /\ \E p \in DOMAIN n.from : v = n.from[p]
    OBVIOUS
  <1>4. (\E n \in g.nodes : UsedBy(n, v)) <=>
            \/ \E n \in g.nodes : \E p \in DOMAIN n.ins : v = n.ins[p]
            \/ \E n \in g.nodes : IsGroup(n) /\ \E p \in DOMAIN n.from : v = n.from[p]
    BY Zenon DEF UsedBy
  <1>5. v \in Used(g) <=> v \in UNION ins \/ v \in UNION from
    BY <1>1
  <1> QED
    BY ONLY <1>2, <1>3, <1>4, <1>5

\* What a node that remains computes means no role.
LEMMA RemainingMeansNoRole ==
    ASSUME NEW g, NEW it, Wraps(g, it), NEW n \in Remaining(g, it), NEW v, v.node = n.key
    PROVE  RoleOf(it, v) = {} /\ Meant(it, v) = v
  <1>1. n \in g.nodes /\ n \notin Declared(g, it) /\ n.key # it.model
    BY PassRemaining
  <1>2. ASSUME NEW r \in RoleOf(it, v) PROVE FALSE
    <2>1. r \in DOMAIN it.roles /\ ~it.boundary /\ n.key[2] = it.roles[r] /\ n.key[1] = <<>>
      BY <1>1 DEF RoleOf
    <2>2. n \in Declared(g, it)
      BY <1>1, <2>1 DEF Declared, Range
    <2> QED
      BY <1>1, <2>2
  <1> QED
    BY <1>2 DEF Meant

LEMMA RemainingComplete ==
    ASSUME NEW g, NEW it, Wraps(g, it), NEW n \in Remaining(g, it), NEW p \in DOMAIN n.outs,
           n.op # "input"
    PROVE  \E v \in Used(Generating(g, it)) : v.node = n.key /\ v.port = p
  <1>1. n \in g.nodes /\ n.key # it.model /\ n.parent # Nowhere /\ n.key \notin g.results
    BY PassRemaining
  <1>2. PICK v \in Used(g) : v.node = n.key /\ v.port = p
    BY <1>1, Zenon DEF Wraps, SoundOf, Complete
  <1>3. PICK y \in g.nodes : UsedBy(y, v)
    BY <1>2, UsedByANode
  <1>4. Result(g, it) \in Used(Generating(g, it))
    <2>1. UsedBy(OnePass(g, it), Result(g, it))
      BY OnePassFields DEF UsedBy
    <2> QED
      BY <2>1, LoopMembers, UsedByANode DEF LoopNodes
  <1>5. CASE y \in Remaining(g, it)
    <2>1. Meant(it, v) = v
      BY <1>2, RemainingMeansNoRole
    <2>2. UsedBy(Renamed(it, y), v)
      <3>1. CASE \E q \in DOMAIN y.ins : v = y.ins[q]
        <4>1. PICK q \in DOMAIN y.ins : v = y.ins[q]
          BY <3>1
        <4>2. q \in DOMAIN Renamed(it, y).ins /\ Renamed(it, y).ins[q] = v
          BY <1>5, <2>1, <4>1, RemainingFields
        <4> QED
          BY <4>2 DEF UsedBy
      <3>2. CASE IsGroup(y) /\ \E q \in DOMAIN y.from : v = y.from[q]
        <4>1. PICK q \in DOMAIN y.from : v = y.from[q]
          BY <3>2
        <4>2. IsGroup(Renamed(it, y)) /\ q \in DOMAIN Renamed(it, y).from
              /\ Renamed(it, y).from[q] = v
          BY <1>5, <2>1, <3>2, <4>1, RemainingFields
        <4> QED
          BY <4>2 DEF UsedBy
      <3> QED
        BY <1>3, <3>1, <3>2 DEF UsedBy
    <2>3. Renamed(it, y) \in Generating(g, it).nodes
      BY <1>5, GeneratingNodes
    <2>4. v \in Used(Generating(g, it))
      BY <2>2, <2>3, UsedByANode
    <2> QED
      BY <1>2, <2>4
  <1>6. CASE y \in Declared(g, it)
    <2>1. v = Result(g, it) \/ v.node = it.model
      BY <1>3, <1>6, PassDeclared DEF UsedBy
    <2> QED
      BY <1>1, <1>2, <1>4, <2>1
  <1>7. CASE y = NodeOf(g, it.model)
    <2>1. CASE \E q \in DOMAIN y.ins : v = y.ins[q]
      <3>1. PICK q \in DOMAIN y.ins : v = y.ins[q]
        BY <2>1
      <3>2. y.parent = Nowhere /\ y.key = it.model
        BY <1>7, PassModel
      <3>3. q \in Wired(y)
        BY <1>1, <1>2, <3>1, <3>2 DEF Wired
      <3>4. Offered(g, Nowhere, v) = {v.shape}
        BY <1>3, <3>1, <3>2, <3>3, Zenon DEF Wraps, SoundOf, Connected
      <3>5. v.node # Nowhere
        BY <1>1, <1>2, PassNodes
      <3>6. {x \in g.nodes : x.key = v.node /\ x.parent = Nowhere} = {}
        BY <1>1, <1>2, PassNodes
      <3>7. Offered(g, Nowhere, v) = {}
        BY <3>5, <3>6 DEF Offered
      <3> QED
        BY <3>4, <3>7
    <2>2. CASE \E q \in DOMAIN y.from : v = y.from[q]
      <3>1. v.node = Result(g, it).node /\ v.port = Result(g, it).port
        BY <1>7, <2>2, PassResult
      <3> QED
        BY <1>2, <1>4, <3>1
    <2> QED
      BY <1>3, <2>1, <2>2 DEF UsedBy
  <1> QED
    BY <1>3, <1>5, <1>6, <1>7, PassCovered

LEMMA LoopComplete ==
    ASSUME NEW g, NEW it, Wraps(g, it), NEW n \in LoopNodes(g, it), NEW p \in DOMAIN n.outs
    PROVE  n.key = Loop \/ \E v \in Used(Generating(g, it)) : v.node = n.key /\ v.port = p
  <1>1. ASSUME NEW m \in LoopNodes(g, it), NEW key, NEW port, NEW s,
               UsedBy(m, From(key, port, s))
        PROVE  \E v \in Used(Generating(g, it)) : v.node = key /\ v.port = port
    <2>1. From(key, port, s) \in Used(Generating(g, it))
      BY <1>1, LoopMembers, UsedByANode
    <2>2. From(key, port, s).node = key /\ From(key, port, s).port = port
      BY DEF From
    <2> QED
      BY <2>1, <2>2
  <1>2. CASE n = SequenceState
    <2>1. n.key = <<<<>>, "sequence">> /\ (p = "current" \/ p = "final")
      BY <1>2, SequenceStateFields
    <2>2. UsedBy(PrepareInputs(g, it), From(<<<<>>, "sequence">>, "current", <<B, S>>))
      BY PrepareInputsFields DEF UsedBy
    <2>3. UsedBy(GenerationLoop, From(<<<<>>, "sequence">>, "final", <<B, Sf>>))
      BY GenerationLoopFields DEF UsedBy
    <2>4. PrepareInputs(g, it) \in LoopNodes(g, it) /\ GenerationLoop \in LoopNodes(g, it)
      BY DEF LoopNodes
    <2> QED
      BY <1>1, <2>1, <2>2, <2>3, <2>4
  <1>3. CASE n = PrepareInputs(g, it)
    <2>1. n.key = <<<<>>, "prepare">> /\ p \in Prepared(it)
      BY <1>3, PrepareInputsFields
    <2>2. UsedBy(OnePass(g, it), From(<<<<>>, "prepare">>, p, RoleShape(g, it, p)))
      BY <2>1, OnePassFields DEF UsedBy
    <2>3. OnePass(g, it) \in LoopNodes(g, it)
      BY DEF LoopNodes
    <2> QED
      BY <1>1, <2>1, <2>2, <2>3
  <1>4. CASE n = OnePass(g, it)
    <2>1. n.key = it.model /\ p = "logits"
      BY <1>4, OnePassFields
    <2>2. UsedBy(GreedyNextToken(g, it), From(it.model, "logits", Result(g, it).shape))
      <3>1. GreedyNextToken(g, it).ins = [logits |-> From(it.model, "logits", Result(g, it).shape)]
        BY GreedyNextTokenFields
      <3> QED
        BY <3>1 DEF UsedBy
    <2>3. GreedyNextToken(g, it) \in LoopNodes(g, it)
      BY DEF LoopNodes
    <2> QED
      BY <1>1, <2>1, <2>2, <2>3
  <1>5. CASE n = GreedyNextToken(g, it)
    <2>1. n.key = <<<<>>, "select">> /\ p = "token"
      <3>1. n.key = <<<<>>, "select">> /\ n.outs = [token |-> <<B, 1>>]
        BY <1>5, GreedyNextTokenFields
      <3> QED
        BY <3>1
    <2>2. UsedBy(AppendToken(g, it), From(<<<<>>, "select">>, "token", <<B, 1>>))
      <3>1. AppendToken(g, it).ins =
                [sequence |-> From(<<<<>>, "prepare">>, "tokens", RoleShape(g, it, "tokens")),
                 token |-> From(<<<<>>, "select">>, "token", <<B, 1>>)]
        BY LoopMembers, AppendTokenFields
      <3> QED
        BY <3>1 DEF UsedBy
    <2>3. AppendToken(g, it) \in LoopNodes(g, it)
      BY DEF LoopNodes
    <2> QED
      BY <1>1, <2>1, <2>2, <2>3
  <1>6. CASE n = AppendToken(g, it)
    <2>1. n.key = <<<<>>, "append">> /\ p = "updated"
      <3>1. n.key = <<<<>>, "append">> /\ n.outs = [updated |-> <<B, S1>>]
        BY <1>6, LoopMembers, AppendTokenFields
      <3> QED
        BY <3>1
    <2>2. UsedBy(SequenceState, From(<<<<>>, "append">>, "updated", <<B, S1>>))
      BY SequenceStateFields DEF UsedBy
    <2>3. SequenceState \in LoopNodes(g, it)
      BY DEF LoopNodes
    <2> QED
      BY <1>1, <2>1, <2>2, <2>3
  <1>7. CASE n = GenerationLoop
    BY <1>7, GenerationLoopFields
  <1> QED
    BY <1>2, <1>3, <1>4, <1>5, <1>6, <1>7 DEF LoopNodes

LEMMA GeneratingComplete ==
    ASSUME NEW g, NEW it, Wraps(g, it)
    PROVE  Complete(Generating(g, it))
  <1> DEFINE G == Generating(g, it)
  <1>1. ASSUME NEW n \in G.nodes, NEW p \in DOMAIN n.outs
        PROVE  \/ \E v \in Used(G) : v.node = n.key /\ v.port = p
               \/ n.op = "input" \/ n.key \in G.results
    <2>1. CASE n \in LoopNodes(g, it)
      BY <2>1, LoopComplete, GeneratingNodes
    <2>2. CASE \E x \in Remaining(g, it) : n = Renamed(it, x)
      <3>1. PICK x \in Remaining(g, it) : n = Renamed(it, x)
        BY <2>2
      <3>2. n.key = x.key /\ n.op = x.op /\ p \in DOMAIN x.outs
        BY <3>1, RemainingFields
      <3>3. n.op = "input" \/ \E v \in Used(G) : v.node = x.key /\ v.port = p
        BY <3>2, RemainingComplete
      <3> QED
        BY <3>2, <3>3
    <2> QED
      BY <2>1, <2>2, GeneratingNodes
  <1>2. ASSUME NEW w \in DOMAIN G.weights PROVE \E n \in G.nodes : w \in Range(n.params)
    <2>1. w \in DOMAIN g.weights
      BY GeneratingNodes
    <2>2. PICK n \in g.nodes : w \in Range(n.params)
      BY <2>1, Zenon DEF Wraps, SoundOf, Complete
    <2>3. CASE n \in Remaining(g, it)
      <3>1. Renamed(it, n) \in G.nodes /\ Renamed(it, n).params = n.params
        BY <2>3, GeneratingNodes, RemainingFields
      <3> QED
        BY <2>2, <3>1
    <2>4. CASE n = NodeOf(g, it.model)
      <3>1. OnePass(g, it) \in G.nodes /\ OnePass(g, it).params = n.params
        BY <2>4, LoopMembers, OnePassFields DEF LoopNodes
      <3> QED
        BY <2>2, <3>1
    <2>5. n \notin Declared(g, it)
      BY <2>2, PassDeclared
    <2> QED
      BY <2>3, <2>4, <2>5, PassCovered
  <1> QED
    BY <1>1, <1>2, Zenon DEF Complete


LEMMA OnlyShapesMatter ==
    ASSUME NEW g, NEW h, NEW n, NEW m, Follows(g, n), m.op = n.op, m.outs = n.outs,
           m.params = n.params, h.weights = g.weights, DOMAIN m.ins = DOMAIN n.ins,
           \A p \in DOMAIN n.ins : m.ins[p].shape = n.ins[p].shape
    PROVE  Follows(h, m)
  <1>1. [p \in DOMAIN m.ins |-> m.ins[p].shape] = [p \in DOMAIN n.ins |-> n.ins[p].shape]
    OBVIOUS
  <1>2. [k \in DOMAIN m.params |-> h.weights[m.params[k]]] =
            [k \in DOMAIN n.params |-> g.weights[n.params[k]]]
    OBVIOUS
  <1> QED
    BY <1>1, <1>2 DEF Follows

LEMMA RemainingFollows ==
    ASSUME NEW g, NEW it, Wraps(g, it), NEW n \in Remaining(g, it)
    PROVE  Follows(Generating(g, it), Renamed(it, n))
  <1>1. Follows(g, n)
    BY PassRemaining DEF Wraps, SoundOf
  <1>2. /\ Renamed(it, n).op = n.op /\ Renamed(it, n).outs = n.outs
        /\ Renamed(it, n).params = n.params /\ DOMAIN Renamed(it, n).ins = DOMAIN n.ins
        /\ \A p \in DOMAIN n.ins : Renamed(it, n).ins[p].shape = n.ins[p].shape
    BY RemainingFields, MeantShape
  <1>3. Generating(g, it).weights = g.weights
    BY GeneratingNodes
  <1> QED
    BY <1>1, <1>2, <1>3, OnlyShapesMatter

LEMMA GroupFollows == ASSUME NEW g, NEW n, IsGroup(n) PROVE Follows(g, n)
  BY DEF Follows, IsGroup, Elementwise, Joining, Products, Linears, Reshaping, Carrying, Routing,
         Patching, Deciding, Speaking, Generation, Holding, Filming, Guiding, Configured

\* The operations of the loop are of no other kind.
LEMMA GenerationApart ==
    ASSUME NEW g, NEW n, n.op \in Generation,
           GenerationFollows(n.op, [p \in DOMAIN n.ins |-> n.ins[p].shape], n.outs)
    PROVE  Follows(g, n)
  <1>1. /\ n.op \notin Elementwise /\ n.op \notin Joining /\ n.op \notin Products
        /\ n.op \notin Reshaping /\ n.op \notin Carrying /\ n.op \notin Routing
        /\ n.op \notin Patching /\ n.op \notin Deciding /\ n.op \notin Speaking
        /\ n.op \notin Holding /\ n.op \notin Filming /\ n.op \notin Guiding
        /\ n.op \notin Configured \cup {"input", "sink", "group"}
    BY DEF Elementwise, Joining, Products, Linears, Reshaping, Carrying, Routing, Patching,
           Deciding, Speaking, Generation, Holding, Filming, Guiding, Configured
  <1> QED
    BY <1>1, Zenon DEF Follows


(* Pairs of dimensions, and the first of three.                            *)
LEMMA Pairs == \A a, b : Front(<<a, b>>) = <<a>> /\ Last(<<a, b>>) = b /\ Append(<<a>>, b) = <<a, b>>
  <1> SUFFICES ASSUME NEW a, NEW b
               PROVE Front(<<a, b>>) = <<a>> /\ Last(<<a, b>>) = b /\ Append(<<a>>, b) = <<a, b>>
    OBVIOUS
  <1>1. SubSeq(<<a, b>>, 1, 1) \in Seq({a}) /\ Len(SubSeq(<<a, b>>, 1, 1)) = 1
    <2>1. \A i \in 1..1 : <<a, b>>[i] \in {a}
      OBVIOUS
    <2> QED
      BY <2>1, SubSeqProperties
  <1>2. SubSeq(<<a, b>>, 1, 1) = <<a>>
    <2>1. <<a>> \in Seq({a}) /\ Len(<<a>>) = 1
      OBVIOUS
    <2>2. \A i \in 1..1 : SubSeq(<<a, b>>, 1, 1)[i] = <<a>>[i]
      BY <1>1
    <2> QED
      BY ONLY <1>1, <2>1, <2>2, SeqEqual
  <1>3. /\ Append(<<a>>, b) \in Seq({a, b}) /\ Len(Append(<<a>>, b)) = 2
        /\ Append(<<a>>, b)[1] = a /\ Append(<<a>>, b)[2] = b
    <2>1. <<a>> \in Seq({a, b}) /\ Len(<<a>>) = 1 /\ <<a>>[1] = a
      OBVIOUS
    <2> QED
      BY <2>1, AppendProperties
  <1>4. Append(<<a>>, b) = <<a, b>>
    <2>1. \A i \in 1..2 : Append(<<a>>, b)[i] = <<a, b>>[i]
      BY <1>3
    <2>2. <<a, b>> \in Seq({a, b}) /\ Len(<<a, b>>) = 2
      OBVIOUS
    <2> QED
      BY ONLY <1>3, <2>1, <2>2, SeqEqual
  <1> QED
    BY <1>2, <1>4 DEF Front, Last

LEMMA FirstOfTwo ==
    ASSUME NEW s, NEW a, NEW b, SubSeq(s, 1, 2) = <<a, b>>
    PROVE  s[1] = a
  <1> DEFINE t == SubSeq(s, 1, 2)
  <1>1. \A i \in 1..2 : s[i] \in {s[1], s[2]}
    OBVIOUS
  <1>2. \A i \in 1..(2 - 1 + 1) : t[i] = s[1 + i - 1]
    BY <1>1, SubSeqProperties
  <1>3. t = <<a, b>>
    OBVIOUS
  <1> HIDE DEF t
  <1> QED
    BY ONLY <1>2, <1>3

LEMMA FourApart ==
    ASSUME NEW a, NEW b, NEW c, NEW d, a # b, a # c, a # d, b # c, b # d, c # d
    PROVE  Cardinality({a, b, c, d}) = 4
  <1>1. Cardinality({d}) = 1 /\ IsFiniteSet({d})
    BY FS_Singleton
  <1>2. Cardinality({d} \cup {c}) = 2 /\ IsFiniteSet({d} \cup {c})
    BY <1>1, FS_AddElement
  <1>3. Cardinality({d} \cup {c} \cup {b}) = 3 /\ IsFiniteSet({d} \cup {c} \cup {b})
    BY <1>2, FS_AddElement
  <1>4. Cardinality({d} \cup {c} \cup {b} \cup {a}) = 4
    BY <1>3, FS_AddElement
  <1>5. {d} \cup {c} \cup {b} \cup {a} = {a, b, c, d}
    OBVIOUS
  <1> QED
    BY <1>4, <1>5

LEMMA PreparedTokens ==
    ASSUME NEW g, NEW it, Wraps(g, it)
    PROVE  RoleShape(g, it, "tokens") = <<B, S>>
  <1> DEFINE shapes == [r \in Prepared(it) |-> RoleShape(g, it, r)]
  <1>1. Prepared(it) \in PreparedRoles /\ shapes = PreparedShapes(Prepared(it))
    BY DEF Wraps, Wrappable
  <1> HIDE DEF shapes
  <1>2. shapes["tokens"] = <<B, S>>
    <2>1. CASE Prepared(it) = {"tokens", "positions", "mask"}
      <3>1. /\ "current_mask" \notin Prepared(it) /\ "positions" \in Prepared(it)
        BY <2>1
      <3>2. /\ Prepared(it) # {"tokens", "positions", "mask", "current_mask"}
            /\ Prepared(it) # {"tokens", "mask", "current_mask"}
        BY <3>1
      <3>3. PreparedShapes(Prepared(it)) =
                [tokens |-> <<B, S>>, positions |-> <<B, S>>, mask |-> <<B, 1, S, S>>]
        BY <2>1, <3>2, Zenon DEF PreparedShapes
      <3> QED
        BY <1>1, <3>3
    <2>2. CASE Prepared(it) = {"tokens", "positions", "mask", "current_mask"}
      <3>1. /\ "current_mask" \in Prepared(it) /\ "positions" \in Prepared(it)
        BY <2>2
      <3>2. /\ Prepared(it) # {"tokens", "positions", "mask"}
            /\ Prepared(it) # {"tokens", "mask", "current_mask"}
        BY <3>1
      <3>3. PreparedShapes(Prepared(it)) =
                [tokens |-> <<B, S>>, positions |-> <<3, B, S>>, mask |-> <<B, S>>,
                 current_mask |-> <<B, S>>]
        BY <2>2, <3>2, Zenon DEF PreparedShapes
      <3> QED
        BY <1>1, <3>3
    <2>3. CASE Prepared(it) = {"tokens", "mask", "current_mask"}
      <3>1. /\ "current_mask" \in Prepared(it) /\ "positions" \notin Prepared(it)
        BY <2>3
      <3>2. /\ Prepared(it) # {"tokens", "positions", "mask"}
            /\ Prepared(it) # {"tokens", "positions", "mask", "current_mask"}
        BY <3>1
      <3>3. PreparedShapes(Prepared(it)) =
                [tokens |-> <<B, S>>, mask |-> <<B, 1, S, S>>, current_mask |-> <<B, S>>]
        BY <2>3, <3>2, Zenon DEF PreparedShapes
      <3> QED
        BY <1>1, <3>3
    <2> QED
      BY <1>1, <2>1, <2>2, <2>3 DEF PreparedRoles
  <1> QED
    BY <1>2, LoopMembers DEF shapes

LEMMA LoopFollows ==
    ASSUME NEW g, NEW it, Wraps(g, it), NEW n \in LoopNodes(g, it)
    PROVE  Follows(Generating(g, it), n)
  <1> DEFINE in == [p \in DOMAIN n.ins |-> n.ins[p].shape]
  <1>1. \A key, port, s : From(key, port, s).shape = s
    BY DEF From
  <1>2. CASE n = SequenceState
    <2>1. /\ n.op = "generation_sequence_state" /\ n.outs = [current |-> <<B, S>>, final |-> <<B, Sf>>]
          /\ n.ins = [initial |-> From(Loop, "prompt_ids", <<B, Si>>),
                      next |-> From(<<<<>>, "append">>, "updated", <<B, S1>>)]
      BY <1>2, SequenceStateFields
    <2>2. in.initial = <<B, Si>> /\ in.next = <<B, S1>>
      BY <1>1, <2>1
    <2>3. n.outs.current = <<B, S>> /\ n.outs.final = <<B, Sf>>
      BY <2>1
    <2> HIDE DEF in
    <2>4. Cardinality({in.initial, n.outs.current, in.next, n.outs.final}) = 4
      <3>1. \A x, y : x # y => <<B, x>> # <<B, y>>
        OBVIOUS
      <3>2. Si # S /\ Si # S1 /\ Si # Sf /\ S # S1 /\ S # Sf /\ S1 # Sf
        BY DEF S, Si, S1, Sf
      <3>3. /\ <<B, Si>> # <<B, S>> /\ <<B, Si>> # <<B, S1>> /\ <<B, Si>> # <<B, Sf>>
            /\ <<B, S>> # <<B, S1>> /\ <<B, S>> # <<B, Sf>> /\ <<B, S1>> # <<B, Sf>>
        BY ONLY <3>1, <3>2
      <3>4. Cardinality({<<B, Si>>, <<B, S>>, <<B, S1>>, <<B, Sf>>}) = 4
        BY ONLY <3>3, FourApart, Zenon
      <3> QED
        BY ONLY <2>2, <2>3, <3>4
    <2>5. {Front(s) : s \in {in.initial, in.next, n.outs.final}} = {Front(n.outs.current)}
      BY <2>2, <2>3, Pairs
    <2>6. GenerationFollows(n.op, in, n.outs)
      BY <2>1, <2>4, <2>5, Zenon DEF GenerationFollows
    <2> QED
      BY <2>1, <2>6, GenerationApart DEF Generation, in
  <1>3. CASE n = PrepareInputs(g, it)
    <2>1. /\ n.op = "generation_prepare_inputs" /\ n.outs["tokens"] = <<B, S>>
          /\ n.ins = [sequence |-> From(<<<<>>, "sequence">>, "current", <<B, S>>)]
      BY <1>3, LoopMembers, PreparedTokens, PrepareInputsFields
    <2>2. in.sequence = <<B, S>>
      BY <1>1, <2>1
    <2> HIDE DEF in
    <2>3. GenerationFollows(n.op, in, n.outs)
      BY <2>1, <2>2, Zenon DEF GenerationFollows
    <2> QED
      BY <2>1, <2>3, GenerationApart DEF Generation, in
  <1>4. CASE n = GreedyNextToken(g, it)
    <2>1. /\ n.op = "generation_greedy_next_token" /\ n.outs = [token |-> <<B, 1>>]
          /\ n.ins = [logits |-> From(it.model, "logits", Result(g, it).shape)]
      BY <1>4, GreedyNextTokenFields
    <2>2. in.logits = Result(g, it).shape /\ n.outs.token = <<B, 1>>
      BY <1>1, <2>1
    <2>3. Result(g, it).shape[1] = B
      <3>1. SubSeq(Result(g, it).shape, 1, 2) = <<B, S>>
        BY DEF Wraps, Wrappable, Sequence
      <3> QED
        BY <3>1, FirstOfTwo
    <2>4. n.outs.token = <<in.logits[1], 1>>
      BY <2>2, <2>3
    <2> HIDE DEF in
    <2>5. GenerationFollows(n.op, in, n.outs)
      BY <2>1, <2>4, Zenon DEF GenerationFollows
    <2> QED
      BY <2>1, <2>5, GenerationApart DEF Generation, in
  <1>5. CASE n = AppendToken(g, it)
    <2>1. /\ n.op = "generation_append_token" /\ n.outs = [updated |-> <<B, S1>>]
          /\ n.ins = [sequence |-> From(<<<<>>, "prepare">>, "tokens", <<B, S>>),
                      token |-> From(<<<<>>, "select">>, "token", <<B, 1>>)]
      BY <1>5, LoopMembers, PreparedTokens, AppendTokenFields
    <2>2. in.sequence = <<B, S>> /\ in.token = <<B, 1>> /\ n.outs.updated = <<B, S1>>
      BY <1>1, <2>1
    <2> HIDE DEF in
    <2>3. /\ Front(in.sequence) = Front(n.outs.updated) /\ in.token = Append(Front(in.sequence), 1)
          /\ Last(n.outs.updated) = S1 /\ Last(in.sequence) = S
      <3>1. /\ Front(<<B, S>>) = <<B>> /\ Last(<<B, S>>) = S /\ Append(<<B>>, 1) = <<B, 1>>
            /\ Front(<<B, S1>>) = <<B>> /\ Last(<<B, S1>>) = S1
        BY Pairs, Zenon
      <3> QED
        BY ONLY <2>2, <3>1, Zenon
    <2>4. GenerationFollows(n.op, in, n.outs)
      BY <2>1, <2>3, Zenon DEF GenerationFollows
    <2> QED
      BY <2>1, <2>4, GenerationApart DEF Generation, in
  <1>6. CASE n = OnePass(g, it) \/ n = GenerationLoop
    BY <1>6, OnePassFields, GenerationLoopFields, GroupFollows
  <1> QED
    BY <1>2, <1>3, <1>4, <1>5, <1>6 DEF LoopNodes

LEMMA GeneratingFollows ==
    ASSUME NEW g, NEW it, Wraps(g, it), NEW n \in Generating(g, it).nodes
    PROVE  Follows(Generating(g, it), n)
  BY GeneratingNodes, RemainingFollows, LoopFollows


\* validate_generation finds the loop: its members have operations that nothing else has.
LEMMA LoopMembersOnly ==
    ASSUME NEW g, NEW it, Wraps(g, it)
    PROVE  {n \in Generating(g, it).nodes : n.parent = Loop} =
               {SequenceState, PrepareInputs(g, it), GreedyNextToken(g, it), AppendToken(g, it),
                OnePass(g, it)}
  <1> DEFINE members == {SequenceState, PrepareInputs(g, it), GreedyNextToken(g, it),
                         AppendToken(g, it), OnePass(g, it)}
  <1>1. ASSUME NEW n \in Remaining(g, it) PROVE Renamed(it, n).parent # Loop
    <2>1. n.parent # Loop
      <3>1. CASE n.parent = it.model
        BY <3>1, LoopMembers
      <3>2. CASE \E m \in Remaining(g, it) : m.key = n.parent
        BY <3>2, RemainingFields, LoopKeysApart
      <3> QED
        BY <3>1, <3>2, PassParents
    <2> QED
      BY <2>1, RemainingFields
  <1>2. \A n \in members : n.parent = Loop
    <2>1. AppendToken(g, it).parent = Loop
      BY LoopMembers, AppendTokenFields
    <2>2. GreedyNextToken(g, it).parent = Loop
      BY GreedyNextTokenFields
    <2>3. PrepareInputs(g, it).parent = Loop /\ OnePass(g, it).parent = Loop
      BY PrepareInputsFields, OnePassFields
    <2> QED
      BY <2>1, <2>2, <2>3, SequenceStateFields
  <1>3. GenerationLoop.parent # Loop
    BY GenerationLoopFields, LoopKeysApart
  <1>4. LoopNodes(g, it) = members \cup {GenerationLoop}
    BY DEF LoopNodes
  <1> HIDE DEF members
  <1>5. {n \in Generating(g, it).nodes : n.parent = Loop} = members
    BY <1>1, <1>2, <1>3, <1>4, GeneratingNodes
  <1> QED
    BY <1>5 DEF members

LEMMA GeneratingCycle ==
    ASSUME NEW g, NEW it, Wraps(g, it)
    PROVE  Cycle(SequenceState, PrepareInputs(g, it), GreedyNextToken(g, it), AppendToken(g, it),
                 OnePass(g, it))
  <1>1. "tokens" \in Prepared(it)
    BY LoopMembers
  <1>2. /\ AppendToken(g, it).key = <<<<>>, "append">> /\ AppendToken(g, it).outs = [updated |-> <<B, S1>>]
        /\ AppendToken(g, it).ins =
                  [sequence |-> From(<<<<>>, "prepare">>, "tokens", RoleShape(g, it, "tokens")),
                   token |-> From(<<<<>>, "select">>, "token", <<B, 1>>)]
    BY <1>1, AppendTokenFields
  <1>3. /\ GreedyNextToken(g, it).key = <<<<>>, "select">>
        /\ GreedyNextToken(g, it).ins = [logits |-> From(it.model, "logits", Result(g, it).shape)]
        /\ GreedyNextToken(g, it).outs = [token |-> <<B, 1>>]
    BY GreedyNextTokenFields
  <1>4. SequenceState.ins = [initial |-> From(Loop, "prompt_ids", Sequence(Si)),
                             next |-> Port(AppendToken(g, it), "updated")]
    <2>1. Port(AppendToken(g, it), "updated") = From(<<<<>>, "append">>, "updated", <<B, S1>>)
      BY ONLY <1>2 DEF Port
    <2> QED
      BY <2>1, SequenceStateFields DEF Sequence
  <1>5. PrepareInputs(g, it).ins = [sequence |-> Port(SequenceState, "current")]
    <2>1. Port(SequenceState, "current") = From(<<<<>>, "sequence">>, "current", <<B, S>>)
      BY SequenceStateFields DEF Port
    <2> QED
      BY <2>1, PrepareInputsFields
  <1>6. /\ PrepareInputs(g, it).outs = [r \in Prepared(it) |-> RoleShape(g, it, r)]
        /\ DOMAIN PrepareInputs(g, it).outs = Prepared(it)
    BY DEF PrepareInputs, OfLoop, NodeIn
  <1>7. /\ DOMAIN PrepareInputs(g, it).outs \in PreparedRoles
        /\ PrepareInputs(g, it).outs = PreparedShapes(DOMAIN PrepareInputs(g, it).outs)
    BY <1>6, Zenon DEF Wraps, Wrappable
  <1>8. OnePass(g, it).ins =
            [r \in DOMAIN PrepareInputs(g, it).outs |-> Port(PrepareInputs(g, it), r)]
    BY <1>6 DEF OnePass, With, Group
  <1>9. GreedyNextToken(g, it).ins = [logits |-> Port(OnePass(g, it), "logits")]
    BY DEF GreedyNextToken, OfLoop, NodeIn
  <1>10. /\ Len(OnePass(g, it).outs.logits) = 3
         /\ SubSeq(OnePass(g, it).outs.logits, 1, 2) = SequenceState.outs.current
    <2>1. OnePass(g, it).outs["logits"] = Result(g, it).shape
      BY OnePassFields
    <2>2. SequenceState.outs["current"] = <<B, S>>
      BY SequenceStateFields
    <2>3. Len(Result(g, it).shape) = 3 /\ SubSeq(Result(g, it).shape, 1, 2) = <<B, S>>
      BY DEF Wraps, Wrappable, Sequence
    <2> QED
      BY ONLY <2>1, <2>2, <2>3, Zenon
  <1>11. AppendToken(g, it).ins = [sequence |-> Port(PrepareInputs(g, it), "tokens"),
                                   token |-> Port(GreedyNextToken(g, it), "token")]
    BY DEF AppendToken, OfLoop, NodeIn
  <1>12. AppendToken(g, it).outs.updated = Sequence(S1)
    BY <1>2 DEF Sequence
  <1> QED
    BY <1>4, <1>5, <1>7, <1>8, <1>9, <1>10, <1>11, <1>12, Zenon DEF Cycle

\* What is not in the loop does not refer to it.
LEMMA OutsideTheLoop ==
    ASSUME NEW g, NEW it, Wraps(g, it), NEW n \in Generating(g, it).nodes, n.parent # Loop,
           NEW p \in DOMAIN n.ins
    PROVE  n.ins[p].node \notin LoopKeys \ {Loop}
  <1>1. CASE n = GenerationLoop
    <2>1. n.ins[p].node = Loop
      BY <1>1, GenerationLoopFields DEF From
    <2> QED
      BY <2>1
  <1>2. ASSUME NEW x \in Remaining(g, it), n = Renamed(it, x) PROVE n.ins[p].node \notin LoopKeys
    <2> DEFINE v == x.ins[p]
    <2>1. p \in DOMAIN x.ins /\ n.ins[p] = Meant(it, v) /\ x \in g.nodes
      BY <1>2, RemainingFields, PassRemaining
    <2>2. Meant(it, v).node = it.model \/ Meant(it, v).node = v.node
      BY DEF Meant, From
    <2>3. v.node \notin LoopKeys
      <3>1. CASE v.node = x.key
        BY <2>1, <3>1, PassNodes
      <3>2. CASE v.node = x.parent
        <4>1. x.parent = it.model \/ \E m \in Remaining(g, it) : m.key = x.parent
          BY PassParents
        <4> QED
          BY <3>2, <4>1, PassModel, RemainingFields
      <3>3. CASE v.node # x.key /\ v.node # x.parent
        <4>1. p \in Wired(x)
          BY <2>1, <3>3 DEF Wired
        <4>2. Offered(g, x.parent, v) = {v.shape}
          BY <2>1, <4>1, Zenon DEF Wraps, SoundOf, Connected
        <4>3. \E m \in g.nodes : m.key = v.node
          BY <3>3, <4>2 DEF Offered
        <4> QED
          BY <4>3, PassNodes
      <3> QED
        BY <3>1, <3>2, <3>3
    <2> QED
      BY <2>1, <2>2, <2>3, PassModel
  <1>3. n \notin LoopNodes(g, it) \/ n = GenerationLoop
    BY LoopMembersOnly DEF LoopNodes
  <1> QED
    BY <1>1, <1>2, <1>3, GeneratingNodes

LEMMA GeneratingRecognized ==
    ASSUME NEW g, NEW it, Wraps(g, it)
    PROVE  Recognized(Generating(g, it))
  <1> DEFINE G == Generating(g, it)
             members == {n \in G.nodes : n.parent = Loop}
             of(op) == {n \in members : n.op = op}
             state == SequenceState
             prepare == PrepareInputs(g, it)
             select == GreedyNextToken(g, it)
             append == AppendToken(g, it)
             model == OnePass(g, it)
  <1>1. members = {state, prepare, select, append, model}
    BY LoopMembersOnly
  <1>2. /\ state.op = "generation_sequence_state" /\ prepare.op = "generation_prepare_inputs"
        /\ select.op = "generation_greedy_next_token" /\ append.op = "generation_append_token"
        /\ model.op = "group" /\ GenerationLoop.op = "group"
    <2>1. append.op = "generation_append_token"
      BY LoopMembers, AppendTokenFields
    <2>2. select.op = "generation_greedy_next_token"
      BY GreedyNextTokenFields
    <2>3. prepare.op = "generation_prepare_inputs" /\ model.op = "group"
      BY PrepareInputsFields, OnePassFields
    <2> QED
      BY <2>1, <2>2, <2>3, SequenceStateFields, GenerationLoopFields
  <1>3. /\ state.key = <<<<>>, "sequence">> /\ prepare.key = <<<<>>, "prepare">>
        /\ select.key = <<<<>>, "select">> /\ append.key = <<<<>>, "append">>
    <2>1. append.key = <<<<>>, "append">>
      BY LoopMembers, AppendTokenFields
    <2>2. select.key = <<<<>>, "select">>
      BY GreedyNextTokenFields
    <2>3. prepare.key = <<<<>>, "prepare">>
      BY PrepareInputsFields
    <2> QED
      BY <2>1, <2>2, <2>3, SequenceStateFields
  <1>4. Cycle(state, prepare, select, append, model)
    BY GeneratingCycle
  <1>5. {state.key, prepare.key, select.key, append.key} \subseteq LoopKeys \ {Loop}
    BY <1>3, LoopKeysApart DEF Loop
  <1>6. ASSUME NEW n \in G.nodes PROVE n.op \notin Bookkeeping \cup {"concatenate_prior_kv"}
    <2>1. CASE n \in LoopNodes(g, it)
      BY <1>2, <2>1 DEF LoopNodes, Bookkeeping
    <2>2. CASE \E x \in Remaining(g, it) : n = Renamed(it, x)
      BY <2>2, RemainingFields, PassRemaining, PassNodes
    <2> QED
      BY <2>1, <2>2, GeneratingNodes
  <1>7. ASSUME NEW n \in G.nodes, n \notin members, NEW p \in DOMAIN n.ins
        PROVE  n.ins[p].node \notin {state.key, prepare.key, select.key, append.key}
    BY <1>5, <1>7, OutsideTheLoop
  <1> HIDE DEF G, state, prepare, select, append, model
  <1>8. /\ state \in of("generation_sequence_state") /\ prepare \in of("generation_prepare_inputs")
        /\ select \in of("generation_greedy_next_token") /\ append \in of("generation_append_token")
        /\ model \in of("group")
    BY <1>1, <1>2
  <1>9. Recognized(G)
    BY <1>1, <1>4, <1>6, <1>7, <1>8, Zenon DEF Recognized
  <1> QED
    BY <1>9 DEF G

\* wrap_generation and validate_generation, for every description of one pass and every
\* interface to it: when the pass is connected and complete, every shape in it follows and it
\* meets what is required of it, then the description of the generation is connected and
\* complete too, every shape in it follows, and validate_generation recognizes its loop.
THEOREM WrappingKeepsSoundness ==
    ASSUME NEW g, NEW it, SoundOf(g), Wrappable(g, it)
    PROVE  SoundOf(Generating(g, it)) /\ Recognized(Generating(g, it))
  <1>1. Wraps(g, it)
    BY DEF Wraps
  <1> QED
    BY <1>1, GeneratingConnected, GeneratingComplete, GeneratingFollows, GeneratingRecognized,
       Zenon DEF SoundOf


-----------------------------------------------------------------------------
(* A pass without its cache.                                               *)

\* What no_cache_invocation is given.
Cuts(g) == Connected(g) /\ CacheApart(g)

LEMMA CalledFields ==
    ASSUME NEW bypass, NEW n, DOMAIN n = NodeFields(n)
    PROVE  /\ Called(bypass, n).key = n.key /\ Called(bypass, n).parent = n.parent
           /\ Called(bypass, n).op = n.op /\ Called(bypass, n).params = n.params
           /\ IsGroup(Called(bypass, n)) <=> IsGroup(n)
           /\ DOMAIN Called(bypass, n).ins = DOMAIN n.ins \ StateRoles
           /\ \A p \in DOMAIN n.ins \ StateRoles :
                 Called(bypass, n).ins[p] = Now(bypass, n.ins[p])
           /\ DOMAIN Called(bypass, n).outs = DOMAIN n.outs \ StateRoles
           /\ \A p \in DOMAIN n.outs \ StateRoles :
                 Called(bypass, n).outs[p] = ThisPass(n.outs[p])
           /\ IsGroup(n) =>
                 /\ DOMAIN Called(bypass, n).from = DOMAIN n.from \ StateRoles
                 /\ \A p \in DOMAIN n.from \ StateRoles :
                       Called(bypass, n).from[p] = Now(bypass, n.from[p])
  <1>1. {"key", "parent", "op", "ins", "outs", "params"} \subseteq DOMAIN n
    BY DEF NodeFields
  <1>2. IsGroup(n) => "from" \in DOMAIN n
    BY DEF NodeFields, IsGroup
  <1>3. CASE IsGroup(n)
    BY <1>1, <1>2, <1>3 DEF Called, IsGroup
  <1>4. CASE ~IsGroup(n)
    BY <1>1, <1>4 DEF Called, IsGroup
  <1> QED
    BY <1>3, <1>4

LEMMA CutNodes ==
    ASSUME NEW g, CacheApart(g)
    PROVE  /\ NoCache(g).nodes = {Called(Bypass(g), n) : n \in Kept(g)}
           /\ NoCache(g).weights = g.weights /\ NoCache(g).results = g.results
           /\ \A n \in g.nodes : DOMAIN n = NodeFields(n) /\ n.key # Nowhere
  BY DEF NoCache, CacheApart, IsGraph

LEMMA KeptNode ==
    ASSUME NEW g, Cuts(g), NEW n \in Kept(g)
    PROVE  /\ n \in g.nodes /\ Called(Bypass(g), n) \in NoCache(g).nodes
           /\ Called(Bypass(g), n).key = n.key /\ n.key \notin DOMAIN Bypass(g)
           /\ NodeOf(g, n.key) = n
           /\ \A m \in NoCache(g).nodes : m.key = n.key => m = Called(Bypass(g), n)
  <1>1. n \in g.nodes /\ n.op \notin Bookkeeping
    BY DEF Kept
  <1>2. \A m \in g.nodes : m.key = n.key => m = n
    BY <1>1, Zenon DEF Cuts, Connected
  <1>3. \A m \in Kept(g) : Called(Bypass(g), m).key = m.key
    BY CutNodes, CalledFields DEF Cuts, Kept
  <1>4. n.key \notin DOMAIN Bypass(g)
    BY <1>1, <1>2 DEF Bypass, Bookkeeping
  <1>5. \A m \in NoCache(g).nodes : m.key = n.key => m = Called(Bypass(g), n)
    BY <1>2, <1>3, CutNodes DEF Cuts, Kept
  <1>6. NodeOf(g, n.key) = n
    BY <1>1, <1>2 DEF NodeOf
  <1> QED
    BY <1>1, <1>3, <1>4, <1>5, <1>6, CutNodes DEF Cuts

\* What stands for an extended state is what this pass computed beside it.
LEMMA Extending ==
    ASSUME NEW g, Cuts(g), NEW k \in DOMAIN Bypass(g)
    PROVE  \E m \in g.nodes :
               /\ m.key = k /\ m.op = "state_concat" /\ m \notin Kept(g)
               /\ "current" \in DOMAIN m.ins /\ Bypass(g)[k] = m.ins.current
               /\ OfThisPass(g, m.ins.current)
               /\ \A p \in DOMAIN m.outs : ThisPass(m.outs[p]) = ThisPass(m.ins.current.shape)
               /\ \A n \in g.nodes : n.key = k => n = m
  <1>1. PICK m \in g.nodes : m.key = k /\ m.op = "state_concat"
    BY DEF Bypass
  <1>2. \A n \in g.nodes : n.key = k => n = m
    BY <1>1, Zenon DEF Cuts, Connected
  <1>3. NodeOf(g, k) = m
    BY <1>1, <1>2 DEF NodeOf
  <1>4. Bypass(g)[k] = m.ins.current
    BY <1>3 DEF Bypass, Instead
  <1>5. m \notin Kept(g)
    BY <1>1 DEF Kept, Bookkeeping
  <1>6. /\ "current" \in DOMAIN m.ins /\ OfThisPass(g, m.ins.current)
        /\ \A p \in DOMAIN m.outs : ThisPass(m.outs[p]) = ThisPass(m.ins.current.shape)
    BY <1>1 DEF Cuts, CacheApart
  <1> QED
    BY <1>1, <1>2, <1>4, <1>5, <1>6

\* Where a kept node and what it makes of its members are: in no extension of a state.
LEMMA PlaceApart ==
    ASSUME NEW g, Cuts(g), NEW n \in Kept(g), NEW at_ \in {n.parent, n.key}
    PROVE  at_ \notin DOMAIN Bypass(g)
  <1>1. n \in g.nodes /\ n.key \notin DOMAIN Bypass(g)
    BY KeptNode
  <1>2. CASE n.parent = Nowhere
    BY <1>1, <1>2, Extending, CutNodes DEF Cuts
  <1>3. ASSUME NEW m \in g.nodes, m.key = n.parent, IsGroup(m)
        PROVE  n.parent \notin DOMAIN Bypass(g)
    <2>1. m \in Kept(g)
      BY <1>3 DEF Kept, IsGroup, Bookkeeping
    <2> QED
      BY <1>3, <2>1, KeptNode
  <1>4. n.parent = Nowhere \/ \E m \in g.nodes : m.key = n.parent /\ IsGroup(m)
    BY <1>1, Zenon DEF Cuts, Connected
  <1> QED
    BY <1>1, <1>2, <1>3, <1>4

LEMMA ReadWhere ==
    ASSUME NEW g, Cuts(g), NEW n \in Kept(g), NEW v \in ReadBy(n)
    PROVE  \/ OfThisPass(g, v) /\ v.node \notin DOMAIN Bypass(g)
           \/ v.node \in DOMAIN Bypass(g)
  BY DEF Cuts, CacheApart

LEMMA NowFields ==
    ASSUME NEW bypass, NEW v
    PROVE  /\ v.node \notin DOMAIN bypass =>
                  Now(bypass, v) = From(v.node, v.port, ThisPass(v.shape))
           /\ v.node \in DOMAIN bypass =>
                  Now(bypass, v) = From(bypass[v.node].node, bypass[v.node].port,
                                        ThisPass(bypass[v.node].shape))
  BY DEF Now

\* A reference loses what its shape has of the earlier tokens, whatever it now comes from.
LEMMA NowShape ==
    ASSUME NEW g, Cuts(g), NEW n \in Kept(g), NEW v \in ReadBy(n), NEW at_ \in {n.parent, n.key},
           Offered(g, at_, v) = {v.shape}
    PROVE  Now(Bypass(g), v).shape = ThisPass(v.shape)
  <1>1. CASE v.node \notin DOMAIN Bypass(g)
    BY <1>1, NowFields DEF From
  <1>2. CASE v.node \in DOMAIN Bypass(g)
    <2>1. PICK m \in g.nodes :
              /\ m.key = v.node /\ Bypass(g)[v.node] = m.ins.current
              /\ \A p \in DOMAIN m.outs : ThisPass(m.outs[p]) = ThisPass(m.ins.current.shape)
              /\ \A s \in g.nodes : s.key = v.node => s = m
      BY <1>2, Extending
    <2>2. v.node # at_
      BY <1>2, PlaceApart
    <2> DEFINE sources == {s \in g.nodes : s.key = v.node /\ s.parent = at_ /\ v.port \in DOMAIN s.outs}
    <2>3. Offered(g, at_, v) = {s.outs[v.port] : s \in sources}
      BY <2>2 DEF Offered
    <2>4. PICK s \in sources : s.outs[v.port] = v.shape
      BY <2>3
    <2>5. s = m /\ v.port \in DOMAIN m.outs
      BY <2>1, <2>4
    <2>6. ThisPass(v.shape) = ThisPass(m.ins.current.shape)
      BY <2>1, <2>4, <2>5
    <2>7. Now(Bypass(g), v).shape = ThisPass(Bypass(g)[v.node].shape)
      BY <1>2, NowFields DEF From
    <2> QED
      BY <2>1, <2>6, <2>7
  <1> QED
    BY <1>1, <1>2

\* What this pass computes is offered where it was.
LEMMA OfferedThisPass ==
    ASSUME NEW g, Cuts(g), NEW at_, NEW v, OfThisPass(g, v), Offered(g, at_, v) = {v.shape},
           \A n \in Kept(g) : n.key = at_ =>
               \A p \in DOMAIN n.ins \ StateRoles :
                   Now(Bypass(g), n.ins[p]).shape = ThisPass(n.ins[p].shape)
    PROVE  Offered(NoCache(g), at_, From(v.node, v.port, ThisPass(v.shape))) = {ThisPass(v.shape)}
  <1> DEFINE G == NoCache(g)
             u == From(v.node, v.port, ThisPass(v.shape))
  <1>1. u.node = v.node /\ u.port = v.port /\ v.port \notin StateRoles
    BY DEF From, OfThisPass
  <1>2. PICK s \in Kept(g) : s.key = v.node
    BY DEF OfThisPass
  <1>3. /\ s \in g.nodes /\ NodeOf(g, v.node) = s /\ Called(Bypass(g), s) \in G.nodes
        /\ Called(Bypass(g), s).key = v.node
        /\ \A m \in G.nodes : m.key = v.node => m = Called(Bypass(g), s)
    BY <1>2, KeptNode
  <1>4. DOMAIN s = NodeFields(s)
    BY <1>3, CutNodes DEF Cuts
  <1>5. /\ Called(Bypass(g), s).parent = s.parent
        /\ DOMAIN Called(Bypass(g), s).ins = DOMAIN s.ins \ StateRoles
        /\ \A p \in DOMAIN s.ins \ StateRoles :
              Called(Bypass(g), s).ins[p] = Now(Bypass(g), s.ins[p])
        /\ DOMAIN Called(Bypass(g), s).outs = DOMAIN s.outs \ StateRoles
        /\ \A p \in DOMAIN s.outs \ StateRoles :
              Called(Bypass(g), s).outs[p] = ThisPass(s.outs[p])
    BY <1>4, CalledFields
  <1> HIDE DEF G, u
  <1>6. CASE v.node = at_
    <2>1. v.port \in DOMAIN s.ins /\ s.ins[v.port].shape = v.shape
      BY <1>3, <1>6 DEF Offered
    <2>2. NodeOf(G, at_) = Called(Bypass(g), s)
      BY <1>3, <1>6 DEF NodeOf
    <2>3. /\ v.port \in DOMAIN Called(Bypass(g), s).ins
          /\ Called(Bypass(g), s).ins[v.port].shape = ThisPass(v.shape)
      BY <1>1, <1>2, <1>5, <1>6, <2>1
    <2>4. Offered(G, at_, u) = {ThisPass(v.shape)}
      BY <1>1, <1>6, <2>2, <2>3 DEF Offered
    <2> QED
      BY <2>4 DEF G, u
  <1>7. CASE v.node # at_
    <2> DEFINE sources == {n \in g.nodes : n.key = v.node /\ n.parent = at_ /\ v.port \in DOMAIN n.outs}
               now == {n \in G.nodes : n.key = v.node /\ n.parent = at_ /\ v.port \in DOMAIN n.outs}
    <2>1. Offered(g, at_, v) = {n.outs[v.port] : n \in sources}
      BY <1>7 DEF Offered
    <2>2. Offered(G, at_, u) = {n.outs[v.port] : n \in now}
      BY <1>1, <1>7 DEF Offered
    <2>3. PICK n \in sources : n.outs[v.port] = v.shape
      BY <2>1
    <2>4. n = s
      BY <1>2, <2>3, KeptNode, Zenon DEF Cuts, Connected
    <2>5. Called(Bypass(g), s) \in now /\ Called(Bypass(g), s).outs[v.port] = ThisPass(v.shape)
      BY <1>1, <1>3, <1>5, <2>3, <2>4
    <2>6. \A m \in now : m = Called(Bypass(g), s)
      BY <1>3
    <2> HIDE DEF now, sources
    <2>7. Offered(G, at_, u) = {ThisPass(v.shape)}
      BY <2>2, <2>5, <2>6
    <2> QED
      BY <2>7 DEF G, u
  <1> QED
    BY <1>6, <1>7

\* What a kept node reads at an input that is connected, and what a group takes from its members.
LEMMA Connections ==
    ASSUME NEW g, Cuts(g), NEW n \in g.nodes
    PROVE  /\ \A p \in DOMAIN n.ins :
                 n.ins[p].node # n.key => Offered(g, n.parent, n.ins[p]) = {n.ins[p].shape}
           /\ IsGroup(n) => \A p \in DOMAIN n.from : Offered(g, n.key, n.from[p]) = {n.from[p].shape}
           /\ Range(n.params) \subseteq DOMAIN g.weights
  BY Zenon DEF Cuts, Connected, Wired

LEMMA InputShapes ==
    ASSUME NEW g, Cuts(g), NEW n \in Kept(g), NEW p \in DOMAIN n.ins \ StateRoles
    PROVE  Now(Bypass(g), n.ins[p]).shape = ThisPass(n.ins[p].shape)
  <1>1. n.ins[p] \in ReadBy(n)
    BY DEF ReadBy
  <1>2. CASE n.ins[p].node = n.key
    <2>1. n.ins[p].node \notin DOMAIN Bypass(g)
      BY <1>2, KeptNode
    <2> QED
      BY <2>1, NowFields DEF From
  <1>3. CASE n.ins[p].node # n.key
    <2>1. Offered(g, n.parent, n.ins[p]) = {n.ins[p].shape}
      BY <1>3, Connections, KeptNode
    <2> QED
      BY <1>1, <2>1, NowShape
  <1> QED
    BY <1>2, <1>3

\* A kept node, or what a group makes of its members, is connected without the cache, too.
LEMMA OfferedNow ==
    ASSUME NEW g, Cuts(g), NEW n \in Kept(g), NEW v \in ReadBy(n), NEW at_ \in {n.parent, n.key},
           Offered(g, at_, v) = {v.shape}
    PROVE  Offered(NoCache(g), at_, Now(Bypass(g), v)) = {Now(Bypass(g), v).shape}
  <1>1. CASE OfThisPass(g, v) /\ v.node \notin DOMAIN Bypass(g)
    <2>1. Now(Bypass(g), v) = From(v.node, v.port, ThisPass(v.shape))
      BY <1>1, NowFields
    <2>2. Now(Bypass(g), v).shape = ThisPass(v.shape)
      BY <2>1 DEF From
    <2> QED
      BY <1>1, <2>1, <2>2, OfferedThisPass, InputShapes
  <1>2. CASE v.node \in DOMAIN Bypass(g)
    <2>1. PICK m \in g.nodes :
              /\ m.key = v.node /\ m \notin Kept(g) /\ "current" \in DOMAIN m.ins
              /\ Bypass(g)[v.node] = m.ins.current /\ OfThisPass(g, m.ins.current)
              /\ \A s \in g.nodes : s.key = v.node => s = m
      BY <1>2, Extending
    <2> DEFINE c == m.ins.current
    <2>2. v.node # at_
      BY <1>2, PlaceApart
    <2>3. {s \in g.nodes : s.key = v.node /\ s.parent = at_ /\ v.port \in DOMAIN s.outs} # {}
      BY <2>2 DEF Offered
    <2>4. m.parent = at_
      BY <2>1, <2>3
    <2>5. c.node # m.key
      BY <2>1, KeptNode DEF OfThisPass
    <2>6. Offered(g, at_, c) = {c.shape}
      BY <2>1, <2>4, <2>5, Connections
    <2>7. Now(Bypass(g), v) = From(c.node, c.port, ThisPass(c.shape))
      BY <1>2, <2>1, NowFields
    <2>8. Now(Bypass(g), v).shape = ThisPass(c.shape)
      BY <2>7 DEF From
    <2> QED
      BY <2>1, <2>6, <2>7, <2>8, OfferedThisPass, InputShapes
  <1> QED
    BY <1>1, <1>2, ReadWhere

LEMMA KeptFields ==
    ASSUME NEW g, Cuts(g), NEW n \in Kept(g)
    PROVE  LET m == Called(Bypass(g), n)
           IN  /\ m.key = n.key /\ m.parent = n.parent /\ m.op = n.op /\ m.params = n.params
               /\ IsGroup(m) <=> IsGroup(n)
               /\ DOMAIN m.ins = DOMAIN n.ins \ StateRoles
               /\ \A p \in DOMAIN m.ins : m.ins[p] = Now(Bypass(g), n.ins[p])
               /\ DOMAIN m.outs = DOMAIN n.outs \ StateRoles
               /\ IsGroup(n) =>
                     /\ DOMAIN m.from = DOMAIN n.from \ StateRoles
                     /\ \A p \in DOMAIN m.from : m.from[p] = Now(Bypass(g), n.from[p])
  <1>1. DOMAIN n = NodeFields(n)
    BY KeptNode, CutNodes DEF Cuts
  <1> QED
    BY <1>1, CalledFields

LEMMA CutConnected == ASSUME NEW g, Cuts(g) PROVE Connected(NoCache(g))
  <1> DEFINE G == NoCache(g)
  <1>1. G.nodes = {Called(Bypass(g), n) : n \in Kept(g)} /\ G.weights = g.weights
    BY CutNodes DEF Cuts
  <1>2. ASSUME NEW x \in G.nodes, NEW y \in G.nodes, x.key = y.key PROVE x = y
    <2>1. PICK n \in Kept(g) : x = Called(Bypass(g), n)
      BY <1>1
    <2> QED
      BY <1>2, <2>1, KeptNode
  <1>3. ASSUME NEW n \in Kept(g) PROVE Joined(G, Called(Bypass(g), n))
    <2> DEFINE m == Called(Bypass(g), n)
    <2>1. /\ m.key = n.key /\ m.parent = n.parent /\ m.params = n.params
          /\ IsGroup(m) <=> IsGroup(n)
          /\ DOMAIN m.ins = DOMAIN n.ins \ StateRoles
          /\ \A p \in DOMAIN m.ins : m.ins[p] = Now(Bypass(g), n.ins[p])
          /\ IsGroup(n) =>
                /\ DOMAIN m.from = DOMAIN n.from \ StateRoles
                /\ \A p \in DOMAIN m.from : m.from[p] = Now(Bypass(g), n.from[p])
      BY KeptFields
    <2>2. n \in g.nodes
      BY KeptNode
    <2> HIDE DEF m
    <2>3. m.parent = Nowhere \/ \E d \in G.nodes : d.key = m.parent /\ IsGroup(d)
      <3>1. n.parent = Nowhere \/ \E d \in g.nodes : d.key = n.parent /\ IsGroup(d)
        BY <2>2, Zenon DEF Cuts, Connected
      <3>2. ASSUME NEW d \in g.nodes, d.key = n.parent, IsGroup(d)
            PROVE  \E e \in G.nodes : e.key = n.parent /\ IsGroup(e)
        <4>1. d \in Kept(g)
          BY <3>2 DEF Kept, IsGroup, Bookkeeping
        <4>2. /\ Called(Bypass(g), d) \in G.nodes /\ Called(Bypass(g), d).key = d.key
              /\ IsGroup(Called(Bypass(g), d))
          BY <3>2, <4>1, KeptNode, KeptFields
        <4> QED
          BY <3>2, <4>2
      <3> QED
        BY <2>1, <3>1, <3>2
    <2>4. ASSUME NEW p \in DOMAIN m.ins, m.ins[p].node # m.key
          PROVE  Offered(G, m.parent, m.ins[p]) = {m.ins[p].shape}
      <3>1. p \in DOMAIN n.ins \ StateRoles /\ m.ins[p] = Now(Bypass(g), n.ins[p])
        BY <2>1
      <3>2. n.ins[p] \in ReadBy(n)
        BY <3>1 DEF ReadBy
      <3>3. n.ins[p].node # n.key
        <4>1. n.ins[p].node \notin DOMAIN Bypass(g) => m.ins[p].node = n.ins[p].node
          BY <3>1, NowFields DEF From
        <4> QED
          BY <2>1, <2>4, <4>1, KeptNode
      <3>4. Offered(g, n.parent, n.ins[p]) = {n.ins[p].shape}
        BY <2>2, <3>1, <3>3, Connections
      <3>5. Offered(G, n.parent, Now(Bypass(g), n.ins[p])) = {Now(Bypass(g), n.ins[p]).shape}
        BY <3>2, <3>4, OfferedNow
      <3> QED
        BY <2>1, <3>1, <3>5
    <2>5. ASSUME IsGroup(m), NEW p \in DOMAIN m.from
          PROVE  Offered(G, m.key, m.from[p]) = {m.from[p].shape}
      <3>1. p \in DOMAIN n.from \ StateRoles /\ m.from[p] = Now(Bypass(g), n.from[p])
        BY <2>1, <2>5
      <3>2. n.from[p] \in ReadBy(n)
        BY <2>1, <2>5, <3>1 DEF ReadBy
      <3>3. Offered(g, n.key, n.from[p]) = {n.from[p].shape}
        BY <2>1, <2>2, <2>5, <3>1, Connections
      <3>4. Offered(G, n.key, Now(Bypass(g), n.from[p])) = {Now(Bypass(g), n.from[p]).shape}
        BY <3>2, <3>3, OfferedNow
      <3> QED
        BY <2>1, <3>1, <3>4
    <2>6. Range(m.params) \subseteq DOMAIN G.weights
      BY <1>1, <2>1, <2>2, Connections
    <2> HIDE DEF G
    <2>7. Joined(G, m)
      BY <2>3, <2>4, <2>5, <2>6 DEF Joined, Wired
    <2> QED
      BY <2>7 DEF m
  <1> HIDE DEF G
  <1>4. \A m \in G.nodes : Joined(G, m)
    BY <1>1, <1>3
  <1>5. Connected(G)
    BY <1>2, <1>4, Zenon DEF Connected, Joined
  <1> QED
    BY <1>5 DEF G

\* What a kept node reads is used, wherever it comes from now.
LEMMA ReadIsUsed ==
    ASSUME NEW g, Cuts(g), NEW n \in Kept(g), NEW v \in ReadBy(n)
    PROVE  Now(Bypass(g), v) \in Used(NoCache(g))
  <1> DEFINE m == Called(Bypass(g), n)
  <1>1. m \in NoCache(g).nodes
    BY KeptNode
  <1>2. /\ IsGroup(m) <=> IsGroup(n)
        /\ DOMAIN m.ins = DOMAIN n.ins \ StateRoles
        /\ \A p \in DOMAIN m.ins : m.ins[p] = Now(Bypass(g), n.ins[p])
        /\ IsGroup(n) =>
              /\ DOMAIN m.from = DOMAIN n.from \ StateRoles
              /\ \A p \in DOMAIN m.from : m.from[p] = Now(Bypass(g), n.from[p])
    BY KeptFields
  <1> HIDE DEF m
  <1>3. UsedBy(m, Now(Bypass(g), v))
    <2>1. CASE \E p \in DOMAIN n.ins \ StateRoles : v = n.ins[p]
      BY <1>2, <2>1 DEF UsedBy
    <2>2. CASE IsGroup(n) /\ \E p \in DOMAIN n.from \ StateRoles : v = n.from[p]
      BY <1>2, <2>2 DEF UsedBy
    <2> QED
      BY <2>1, <2>2 DEF ReadBy
  <1> QED
    BY <1>1, <1>3, UsedByANode

LEMMA CutComplete ==
    ASSUME NEW g, Cuts(g), Complete(g), CacheRead(g)
    PROVE  Complete(NoCache(g))
  <1> DEFINE G == NoCache(g)
  <1>1. /\ G.nodes = {Called(Bypass(g), n) : n \in Kept(g)}
        /\ G.weights = g.weights /\ G.results = g.results
    BY CutNodes DEF Cuts
  <1>2. ASSUME NEW n \in Kept(g), NEW p \in DOMAIN Called(Bypass(g), n).outs
        PROVE  \/ \E v \in Used(G) : v.node = n.key /\ v.port = p
               \/ n.op = "input" \/ n.key \in g.results
    <2>1. n \in g.nodes /\ p \in DOMAIN n.outs /\ p \notin StateRoles
      BY <1>2, KeptNode, KeptFields
    <2>2. ASSUME NEW v \in Used(g), v.node = n.key, v.port = p
          PROVE  \E u \in Used(G) : u.node = n.key /\ u.port = p
      <3>1. OfThisPass(g, v)
        BY <2>1, <2>2 DEF OfThisPass
      <3>2. (\E k \in Kept(g) : v \in ReadBy(k)) \/ v \in Range(Bypass(g))
        BY <3>1 DEF CacheRead
      <3>3. ASSUME NEW k \in Kept(g), v \in ReadBy(k)
            PROVE  \E u \in Used(G) : u.node = n.key /\ u.port = p
        <4>1. Now(Bypass(g), v) \in Used(G)
          BY <3>3, ReadIsUsed
        <4>2. v.node \notin DOMAIN Bypass(g)
          BY <2>2, KeptNode
        <4>3. Now(Bypass(g), v).node = n.key /\ Now(Bypass(g), v).port = p
          BY <2>2, <4>2, NowFields DEF From
        <4> QED
          BY <4>1, <4>3
      <3>4. ASSUME v \in Range(Bypass(g))
            PROVE  \E u \in Used(G) : u.node = n.key /\ u.port = p
        <4>1. PICK e \in DOMAIN Bypass(g) : Bypass(g)[e] = v
          BY <3>4 DEF Range
        <4>2. PICK k \in Kept(g) : \E r \in ReadBy(k) : r.node = e
          BY <4>1 DEF CacheRead
        <4>3. PICK r \in ReadBy(k) : r.node = e
          BY <4>2
        <4>4. Now(Bypass(g), r) \in Used(G)
          BY <4>3, ReadIsUsed
        <4>5. Now(Bypass(g), r).node = n.key /\ Now(Bypass(g), r).port = p
          BY <2>2, <4>1, <4>3, NowFields DEF From
        <4> QED
          BY <4>4, <4>5
      <3> QED
        BY <3>2, <3>3, <3>4
    <2>3. \/ \E v \in Used(g) : v.node = n.key /\ v.port = p
          \/ n.op = "input" \/ n.key \in g.results
      BY <2>1, Zenon DEF Complete
    <2> QED
      BY <2>2, <2>3
  <1>3. ASSUME NEW w \in DOMAIN G.weights PROVE \E m \in G.nodes : w \in Range(m.params)
    <2>1. PICK n \in g.nodes : w \in Range(n.params)
      BY <1>1 DEF Complete
    <2>2. n \in Kept(g)
      BY <2>1 DEF Cuts, CacheApart
    <2> QED
      BY <1>1, <2>1, <2>2, KeptFields
  <1>4. ASSUME NEW m \in G.nodes, NEW p \in DOMAIN m.outs
        PROVE  \/ \E v \in Used(G) : v.node = m.key /\ v.port = p
               \/ m.op = "input" \/ m.key \in G.results
    <2>1. PICK n \in Kept(g) : m = Called(Bypass(g), n)
      BY <1>1
    <2>2. m.key = n.key /\ m.op = n.op
      BY <2>1, KeptFields
    <2> QED
      BY <1>1, <1>2, <1>4, <2>1, <2>2
  <1> HIDE DEF G
  <1>5. Complete(G)
    BY <1>3, <1>4 DEF Complete
  <1> QED
    BY <1>5 DEF G

\* no_cache_invocation, for every description of one pass: when the pass is connected and
\* complete, its cache is apart from what it computes and is there to be read, then so is the
\* pass without the cache, and nothing that keeps the cache is left.
THEOREM RemovingTheCache ==
    ASSUME NEW g, Connected(g), Complete(g), CacheApart(g), CacheRead(g)
    PROVE  /\ Connected(NoCache(g)) /\ Complete(NoCache(g))
           /\ \A n \in NoCache(g).nodes : n.op \notin Bookkeeping
  <1>1. Cuts(g)
    BY DEF Cuts
  <1>2. \A n \in NoCache(g).nodes : n.op \notin Bookkeeping
    <2>1. NoCache(g).nodes = {Called(Bypass(g), n) : n \in Kept(g)}
      BY CutNodes
    <2> QED
      BY <1>1, <2>1, KeptFields DEF Kept
  <1> QED
    BY <1>1, <1>2, CutConnected, CutComplete

-----------------------------------------------------------------------------
(* The graphs of an analysis.                                              *)

\* What a description writes down by hand is sound, its cache is apart, the shapes of the pass
\* without it follow, and its interface is one of that pass.
WrittenSoundly(d) ==
    d.admitted /\ d.bound =>
        /\ SoundOf(d.graph) /\ d.regions
        /\ d.uncached => CacheApart(d.graph) /\ CacheRead(d.graph)
        /\ \A n \in d.pass.nodes : Follows(d.pass, n)
        /\ \A it \in d.interfaces : Wrappable(d.pass, it)

LEMMA PublishedSound ==
    ASSUME NEW pass, NEW interfaces, SoundOf(pass), \A it \in interfaces : Wrappable(pass, it)
    PROVE  /\ SoundOf(PublishedOf(pass, interfaces))
           /\ interfaces # {} => Recognized(PublishedOf(pass, interfaces))
  <1>1. CASE interfaces = {}
    BY <1>1 DEF PublishedOf
  <1>2. CASE interfaces # {}
    <2> DEFINE it == CHOOSE it \in interfaces : TRUE
    <2>1. it \in interfaces
      BY <1>2
    <2>2. PublishedOf(pass, interfaces) = Generating(pass, it)
      BY <1>2 DEF PublishedOf
    <2> HIDE DEF it
    <2>3. SoundOf(Generating(pass, it)) /\ Recognized(Generating(pass, it))
      BY <2>1, WrappingKeepsSoundness
    <2> QED
      BY <2>2, <2>3
  <1> QED
    BY <1>1, <1>2

LEMMA StagedSound ==
    ASSUME \A k \in Checkpoint : WrittenSoundly(Description[k]), Staged
    PROVE  GraphSound
  <1>1. TypeOK
    BY DEF Staged, TypeOK, Before, Answers
  <1>2. ASSUME stage \in {"built", "published"}
        PROVE  /\ SoundOf(described.graph) /\ SoundOf(described.pass) /\ described.regions
               /\ described.uncached => CacheApart(described.graph) /\ CacheRead(described.graph)
               /\ \A it \in described.interfaces : Wrappable(described.pass, it)
    <2>1. described = Description[checkpoint] /\ checkpoint \in Checkpoint
      BY DEF Staged
    <2>2. described.admitted /\ described.bound /\ WrittenSoundly(described)
      BY <1>2, <2>1 DEF Staged
    <2>3. /\ SoundOf(described.graph) /\ described.regions
          /\ described.uncached => CacheApart(described.graph) /\ CacheRead(described.graph)
          /\ \A n \in described.pass.nodes : Follows(described.pass, n)
          /\ \A it \in described.interfaces : Wrappable(described.pass, it)
      BY <2>2, Zenon DEF WrittenSoundly
    <2>4. described.pass = IF described.uncached THEN NoCache(described.graph) ELSE described.graph
      BY <2>1, DescriptionAssumption
    <2>5. Connected(described.graph) /\ Complete(described.graph)
      BY <2>3 DEF SoundOf
    <2>6. Connected(described.pass) /\ Complete(described.pass)
      <3>1. CASE described.uncached
        BY <2>3, <2>4, <2>5, <3>1, RemovingTheCache
      <3>2. CASE ~described.uncached
        BY <2>4, <2>5, <3>2
      <3> QED
        BY <3>1, <3>2
    <2>7. SoundOf(described.pass)
      BY <2>3, <2>6, Zenon DEF SoundOf
    <2> QED
      BY <2>3, <2>7
  <1>3. described.published = PublishedOf(described.pass, described.interfaces)
    BY DescriptionAssumption DEF Staged
  <1>4. ASSUME stage = "published"
        PROVE  SoundOf(graph) /\ (described.interfaces # {} => Recognized(graph))
    <2>1. /\ SoundOf(PublishedOf(described.pass, described.interfaces))
          /\ described.interfaces # {} =>
                 Recognized(PublishedOf(described.pass, described.interfaces))
      BY <1>2, <1>4, PublishedSound
    <2>2. graph = described.published
      BY <1>4 DEF Staged
    <2> QED
      BY <1>3, <2>1, <2>2
  <1>5. stage = "built" => SoundOf(graph) /\ graph = described.graph
    BY <1>2 DEF Staged
  <1>6. answer = "complete" => checkpoint.agrees
    BY DescriptionAssumption DEF Staged
  <1> QED
    BY <1>1, <1>2, <1>4, <1>5, <1>6 DEF GraphSound

\* analyze(): when the descriptions are sound as they are written, so is every graph of every
\* analysis, whatever checkpoint it is of: in what is published for one, nothing is left of
\* the cache and the loop of generation is complete, and only a checkpoint that agrees with its
\* description has a whole graph.  What is written is checked by TLC, description by description.
THEOREM GraphSoundHolds ==
    ASSUME \A k \in Checkpoint : WrittenSoundly(Description[k])
    PROVE  Spec => []GraphSound
  <1>1. Init => Staged
    BY StagedInit
  <1>2. Staged /\ [Next]_vars => Staged'
    BY StagedStep
  <1>3. Staged => GraphSound
    BY StagedSound
  <1> QED
    BY <1>1, <1>2, <1>3, PTL DEF Spec
=============================================================================
