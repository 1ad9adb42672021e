----------------------------- MODULE ListRange -----------------------------
(***************************************************************************)
(* The index arithmetic of lrange (src/unnamed/part_009), as a pure       *)
(* operator, and the slice the specification asks for: "negative indices  *)
(* from end; empty on start > stop after clamping".                       *)
(*                                                                         *)
(* The checking model enumerates every list of up to MaxLen elements and  *)
(* every index pair in -Idx..Idx as initial states and compares the two.  *)
(***************************************************************************)
EXTENDS Integers, Sequences

CONSTANTS
    Elems,     \* element values
    MaxLen,    \* longest list enumerated
    Idx        \* start / stop range over -Idx..Idx

\* Mutant: a start of 0 is taken for a negative index.
ClampZeroAsNegative(size, start, stop) ==
    LET s1 == IF start <= 0 THEN size + start ELSE start
        e1 == IF stop < 0 THEN size + stop ELSE stop
        s2 == IF s1 < 0 THEN 0 ELSE s1
        e2 == IF e1 >= size THEN size - 1 ELSE e1
    IN <<s2, e2>>

\* The clamping as lrange does it, one statement per line of the code:
\* negative indices count from the end, then start is raised to 0 and
\* stop lowered to size-1.
Clamp(size, start, stop) ==
    LET s1 == IF start < 0 THEN size + start ELSE start
        e1 == IF stop < 0 THEN size + stop ELSE stop
        s2 == IF s1 < 0 THEN 0 ELSE s1
        e2 == IF e1 >= size THEN size - 1 ELSE e1
    IN <<s2, e2>>

\* lrange's reply: empty when start > stop after clamping, else the
\* elements at (0-based) positions start..stop of a front-to-back walk.
LRange(l, start, stop) ==
    LET b == Clamp(Len(l), start, stop) IN
    IF b[1] > b[2] THEN <<>>
    ELSE SubSeq(l, b[1] + 1, b[2] + 1)

\* What an index designates (0-based): a negative one counts from the end.
Norm(l, i) == IF i < 0 THEN Len(l) + i ELSE i

\* The reference slice: the elements whose position lies between the
\* normalised start and stop, in list order.
RangeSpec(l, start, stop) ==
    SelectSeq([i \in 1..Len(l) |-> <<i - 1, l[i]>>],
              LAMBDA p : Norm(l, start) <= p[1] /\ p[1] <= Norm(l, stop))

Project(ps) == [i \in 1..Len(ps) |-> ps[i][2]]

VARIABLES lst, start, stop

vars == <<lst, start, stop>>

Lists == UNION {[1..n -> Elems] : n \in 0..MaxLen}

Init ==
    /\ lst \in Lists
    /\ start \in -Idx..Idx
    /\ stop \in -Idx..Idx

\* The inputs are fixed; the behaviour is a single state.
Next == UNCHANGED vars

Spec == Init /\ [][Next]_vars

TypeOK == lst \in Lists /\ start \in -Idx..Idx /\ stop \in -Idx..Idx

\* lrange returns exactly the elements between the normalised bounds, for
\* every list and every pair of indices, negative and out of range ones
\* included (the boundaries size-1, size, -size and -size-1 all occur).
LRangeMatchesSpec == LRange(lst, start, stop) = Project(RangeSpec(lst, start, stop))

=============================================================================
