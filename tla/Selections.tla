------------------------------ MODULE Selections ------------------------------
(* What the filters of the code keep of a sequence, in its order. *)
EXTENDS Naturals, Sequences

\* The elements of s at the positions in I.
Keep(s, I) ==
    LET kept[n \in 0..Len(s)] ==
            IF n = 0 THEN <<>> ELSE IF n \in I THEN Append(kept[n - 1], s[n]) ELSE kept[n - 1]
    IN  kept[Len(s)]

\* The elements of s that pass a test.
Where(s, Test(_)) == Keep(s, {i \in DOMAIN s : Test(s[i])})
=============================================================================
