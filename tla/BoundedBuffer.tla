--------------------------- MODULE BoundedBuffer ---------------------------
(* What BlockQueue (practice/log/blockQueue.h) promises: a FIFO of at most *)
(* Capacity items, each taken once, in the order they were put.            *)
EXTENDS Naturals, Sequences

CONSTANTS Items, Capacity

VARIABLE contents

Init == contents = <<>>

Put(x) == Len(contents) < Capacity /\ contents' = Append(contents, x)

Take == contents # <<>> /\ contents' = Tail(contents)

Next == Take \/ \E x \in Items : Put(x)

Spec == Init /\ [][Next]_contents
=============================================================================
