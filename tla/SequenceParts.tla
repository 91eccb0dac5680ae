------------------------------ MODULE SequenceParts ------------------------------
(* Parts of sequences and sequences of parts, as recursive functions over the *)
(* length, so that what they compute can be proved.                           *)
EXTENDS Integers, Sequences

\* The elements of s that are in S, in their order: a list comprehension.
Only(s, S) ==
    LET only[i \in 0 .. Len(s)] == IF i = 0 THEN <<>>
                                   ELSE IF s[i] \in S THEN Append(only[i - 1], s[i])
                                   ELSE only[i - 1]
    IN  only[Len(s)]

\* The sequences in s, one behind the other: b''.join.
Joined(s) ==
    LET joined[i \in 0 .. Len(s)] == IF i = 0 THEN <<>> ELSE joined[i - 1] \o s[i]
    IN  joined[Len(s)]
===============================================================================
