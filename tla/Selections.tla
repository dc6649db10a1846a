----------------------------- MODULE Selections -----------------------------
(***************************************************************************)
(* What the queues and lists of several modules are filtered with:         *)
(* VecDeque::retain, Vec::retain and the filters of iterators.  Written    *)
(* as a recursive function, of which CollectionFacts proves what it        *)
(* returns.                                                                *)
(***************************************************************************)
EXTENDS Naturals, Sequences

\* The elements of s that are in S, in the order they have in s.
Select(s, S) ==
    LET chosen[i \in 0 .. Len(s)] ==
            IF i = 0 THEN <<>>
            ELSE IF s[i] \in S THEN Append(chosen[i - 1], s[i])
            ELSE chosen[i - 1]
    IN  chosen[Len(s)]
=============================================================================
