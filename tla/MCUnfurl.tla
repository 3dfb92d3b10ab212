------------------------------ MODULE MCUnfurl ------------------------------
(* Link previews on small sets, with a clock of a few ticks.  Two messages *)
(* are followed together only before the first tick and without a card.    *)
EXTENDS Unfurl, FiniteSets, TLC

Followed ==
    {m \in Messages :
        \/ posted[m] # None
        \/ m \in prompts \cup chosen \cup auto
        \/ work # None /\ work.msg = m
        \/ \E i \in DOMAIN events : events[i].msg = m}

Bounds ==
    Cardinality(Followed) > 1 => now = 0 /\ files = {} /\ \A x \in Images : failures[x] = None

Symmetry == Permutations(Messages)

=============================================================================
