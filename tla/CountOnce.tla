------------------------------ MODULE CountOnce ------------------------------
(***************************************************************************)
(* What access counting promises: every read of an entity is held for a    *)
(* while, then either lost or counted, and counting it adds one to the     *)
(* entity's counter and one to its journal in the same step.               *)
(***************************************************************************)
EXTENDS Integers, FiniteSets

CONSTANTS
    Reads,
    EntityOf,       \* [Reads -> entity]
    Rows            \* entities that still have a row to count on

VARIABLES
    fate,           \* [Reads -> {"new", "held", "counted", "lost"}]
    counter,        \* [Rows -> Nat]
    journal         \* [entity -> Nat]

vars == <<fate, counter, journal>>

Init ==
    /\ fate = [a \in Reads |-> "new"]
    /\ \A e \in DOMAIN counter : counter[e] = 0
    /\ \A e \in DOMAIN journal : journal[e] = 0

In(s) == {a \in Reads : fate[a] = s}
Become(S, s) == fate' = [a \in Reads |-> IF a \in S THEN s ELSE fate[a]]

Hold(a) == fate[a] = "new" /\ Become({a}, "held") /\ UNCHANGED <<counter, journal>>

Lose(S) == S \subseteq In("new") \cup In("held") /\ Become(S, "lost") /\ UNCHANGED <<counter, journal>>

Of(e, S) == Cardinality({a \in S : EntityOf[a] = e})

Count(S) ==
    /\ S \subseteq In("held")
    /\ Become(S, "counted")
    /\ counter' = [e \in Rows |-> counter[e] + Of(e, S)]
    /\ journal' = [e \in DOMAIN journal |-> journal[e] + Of(e, S)]

Next ==
    \/ \E a \in Reads : Hold(a)
    \/ \E S \in SUBSET Reads : Lose(S) \/ Count(S)

Spec == Init /\ [][Next]_vars
=============================================================================
