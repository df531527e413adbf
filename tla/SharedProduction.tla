-------------------------- MODULE SharedProduction --------------------------
(***************************************************************************)
(* What the operation runtime promises, without flights, locks, tasks,     *)
(* readers or files: a key has at most one production, which runs exactly  *)
(* while somebody wants its artifact, is wound up before another begins,   *)
(* and is over before anybody is told that everything has been delivered.  *)
(***************************************************************************)
EXTENDS Naturals

CONSTANTS Key, Direct, Consumer, Chunks, None

VARIABLES
    work,   \* the production of each key
    want,   \* the key that each consumer waits for, if any
    got,    \* the chunks that each consumer has been handed
    told    \* the outcome that each consumer has been told

vars == <<work, want, got, told>>

Outcome == {"complete", "cancelled", "error"}
Wanting(k) == {c \in Consumer : want[c] = k}

Init ==
    /\ work = [k \in Key |-> "idle"]
    /\ want = [c \in Consumer |-> None]
    /\ got = [c \in Consumer |-> 0]
    /\ told = [c \in Consumer |-> "none"]

\* Direct keys have no production.  What is being wound up serves nobody any more.
Ask(c, k) ==
    /\ want[c] = None /\ told[c] = "none" /\ got[c] = 0
    /\ want' = [want EXCEPT ![c] = k]
    /\ \/ k \in Direct /\ work' = work
       \/ k \notin Direct /\ work[k] = "idle" /\ work' = [work EXCEPT ![k] = "running"]
       \/ k \notin Direct /\ work[k] \in {"running", "over"} /\ work' = work
    /\ UNCHANGED <<got, told>>

Take(c) ==
    /\ want[c] # None
    /\ \E n \in got[c] + 1 .. Chunks : got' = [got EXCEPT ![c] = n]
    /\ UNCHANGED <<work, want, told>>

\* What becomes of a production when the consumers of C no longer want its artifact.
After(C, k) ==
    IF Wanting(k) = {} \/ ~(Wanting(k) \subseteq C) THEN work[k]
    ELSE CASE work[k] = "running" -> "stopping"
           [] work[k] = "over" -> "idle"
           [] OTHER -> work[k]

\* Consumers that still wait are told the outcome, and leave the production alone unless
\* nobody else wants it.
Leave(C, t) ==
    /\ \A c \in C : want[c] # None
    /\ t = "complete" => \A c \in C : /\ got[c] = Chunks
                                      /\ want[c] \in Direct \/ work[want[c]] = "over"
    /\ told' = [c \in Consumer |-> IF c \in C THEN t ELSE told[c]]
    /\ want' = [c \in Consumer |-> IF c \in C THEN None ELSE want[c]]
    /\ work' = [k \in Key |-> After(C, k)]
    /\ UNCHANGED got

\* A production ends, by itself or because it was stopped.
Settle(k) ==
    /\ \/ work[k] = "running" /\ work' = [work EXCEPT ![k] = "over"]
       \/ work[k] = "stopping" /\ work' = [work EXCEPT ![k] = "idle"]
    /\ UNCHANGED <<want, got, told>>

\* A consumer is disposed of.
Forget(c) ==
    /\ want[c] = None /\ told[c] # "none"
    /\ got' = [got EXCEPT ![c] = 0]
    /\ UNCHANGED <<work, want, told>>

Next ==
    \/ \E c \in Consumer, k \in Key : Ask(c, k)
    \/ \E c \in Consumer : Take(c) \/ Forget(c)
    \/ \E C \in SUBSET Consumer, t \in Outcome : Leave(C, t)
    \/ \E k \in Key : Settle(k)

Spec == Init /\ [][Next]_vars
=============================================================================
