----------------------------- MODULE QuoteTable -----------------------------
(***************************************************************************)
(* What the store promises to the loop that looks quotes up in it: it      *)
(* knows the messages that were saved last.  Messages leave it one at a    *)
(* time, none while it is below its limit, and the one that was saved      *)
(* longest ago first - unless the clock it orders them by was set back.    *)
(***************************************************************************)
EXTENDS Naturals, FiniteSets

CONSTANTS
    Msgs,     \* ids of messages
    MaxRows   \* the limit

VARIABLES
    known,    \* the messages it knows
    sooner,   \* the pairs of them of which the first was saved sooner, when last
    trusted   \* the clock has never been set back

Init == known = {} /\ sooner = {} /\ trusted = TRUE

\* A message is saved, for the first time or again: later than all others.
Remember(m) ==
    LET others == known \ {m} IN
    /\ known' = known \cup {m}
    /\ sooner' = (sooner \cap (others \X others)) \cup (others \X {m})
    /\ UNCHANGED trusted

\* A message is dropped.
Forget(m) ==
    LET others == known \ {m} IN
    /\ Cardinality(known) >= MaxRows
    /\ trusted => {m} \X others \subseteq sooner
    /\ known' = others
    /\ sooner' = sooner \cap (others \X others)
    /\ UNCHANGED trusted

\* The clock is set back.
Distrust == trusted' = FALSE /\ UNCHANGED <<known, sooner>>

Next ==
    \/ \E m \in Msgs : Remember(m)
    \/ \E m \in known : Forget(m)
    \/ Distrust

Spec == Init /\ [][Next]_<<known, sooner, trusted>>
=============================================================================
