------------------------------- MODULE Queues -------------------------------
(* How entries leave the queues of the scheduler and of its abstraction.       *)
EXTENDS Integers, Sequences, Functions

\* VecDeque::remove(i): the entry at position i goes and the rest closes up.
RemovedAt(s, i) == SubSeq(s, 1, i - 1) \o SubSeq(s, i + 1, Len(s))

\* VecDeque::retain(|y| y != x) on a queue that holds x at most once.
Without(s, x) ==
    IF x \in Range(s)
    THEN RemovedAt(s, CHOOSE j \in DOMAIN s : s[j] = x)
    ELSE s

\* remove_from_queue: the first of possibly several entries equal to x goes.
WithoutFirst(s, x) ==
    IF x \in Range(s)
    THEN RemovedAt(s, CHOOSE j \in DOMAIN s :
                          s[j] = x /\ \A k \in 1..(j - 1) : s[k] # x)
    ELSE s
=============================================================================
