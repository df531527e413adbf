------------------------ MODULE MCOperationRuntime ------------------------
(***************************************************************************)
(* Instances of OperationRuntime for TLC: who asks for what, and which     *)
(* artifact is computed from which.                                        *)
(***************************************************************************)
EXTENDS SharedRuntime

CONSTANTS k1, k2, c1, c2, c3, c4, s1, s2

\* k2 is computed from k1.
MCDep == [k \in Key |-> IF k = k2 THEN k1 ELSE None]

\* Every consumer is a request of some session for any key.
AsksAny == [c \in Consumer |-> Session \X Key]

\* c1 asks for anything in one session, c2 for k1 in another.
AsksMixed == [c \in Consumer |-> IF c = c1 THEN {s1} \X Key ELSE {s2} \X {k1}]

\* c1 asks for k2 and c2 for k1; the others are for dependencies.
AsksChain == [c \in Consumer |-> CASE c = c1 -> {<<s1, k2>>}
                                   [] c = c2 -> {<<s1, k1>>}
                                   [] OTHER -> {}]

\* c1 asks for any key and c2 for k1; c3 is for the dependency of k2.
AsksEither == [c \in Consumer |-> CASE c = c1 -> {<<s1, k1>>, <<s1, k2>>}
                                    [] c = c2 -> {<<s1, k1>>}
                                    [] OTHER -> {}]

\* Either there are two clients of k1, or one of k2 and its dependency.
EitherPair == c3 \notin Consumer \/ cpc[c2] = "unused" \/ cpc[c3] = "unused"
=============================================================================
