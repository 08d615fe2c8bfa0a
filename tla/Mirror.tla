------------------------------- MODULE Mirror -------------------------------
(***************************************************************************)
(* What graph projection promises: a copy of a canonical source.  The copy *)
(* never shows what the source never said, an aggregate stops being owed   *)
(* only when its copy is current, and the copy is thrown away only while   *)
(* everything it held is owed again.                                       *)
(***************************************************************************)
EXTENDS Integers

CONSTANTS Aggregates

VARIABLES
    source,         \* [Aggregates -> Nat]: the canonical revision
    copy,           \* [Aggregates -> Nat]: the revision the copy shows
    owed            \* the aggregates still to be copied

vars == <<source, copy, owed>>

Init ==
    /\ source = [a \in Aggregates |-> 0]
    /\ copy = [a \in Aggregates |-> 0]
    /\ owed = {}

Publish(a) ==
    /\ source' = [source EXCEPT ![a] = @ + 1]
    /\ owed' = owed \cup {a}
    /\ UNCHANGED copy

\* A replay may be asked for at any time.
Owe(S) ==
    /\ owed' = owed \cup S
    /\ UNCHANGED <<source, copy>>

\* The copy of one aggregate moves forward, never past the source.
Copy(a) ==
    /\ \E r \in (copy[a] + 1)..source[a] : copy' = [copy EXCEPT ![a] = r]
    /\ UNCHANGED <<source, owed>>

Settle(a) ==
    /\ copy[a] = source[a]
    /\ owed' = owed \ {a}
    /\ UNCHANGED <<source, copy>>

Wipe ==
    /\ \A a \in Aggregates : source[a] > 0 => a \in owed
    /\ copy' = [a \in Aggregates |-> 0]
    /\ UNCHANGED <<source, owed>>

Next ==
    \/ \E a \in Aggregates : Publish(a) \/ Copy(a) \/ Settle(a)
    \/ \E S \in SUBSET Aggregates : Owe(S)
    \/ Wipe

Spec == Init /\ [][Next]_vars
=============================================================================
