---------------------------- MODULE BoundedFifo ---------------------------
(***************************************************************************)
(* What a set of queues promises: each holds up to Length items, they come *)
(* out in the order they were put in, first those that were put in front.  *)
(* No task, no interrupt, no storage.                                      *)
(***************************************************************************)
EXTENDS Naturals, Sequences

CONSTANTS Name, Length, Value

VARIABLES
    items,  \* [Name -> sequence of values]
    in,     \* the value that was last put
    out     \* the value that was last taken or looked at

Replace(q, s) == items' = [items EXCEPT ![q] = s]

PutBack(q, v) ==
    /\ Len(items[q]) < Length[q]
    /\ Replace(q, Append(items[q], v))
    /\ in' = v /\ UNCHANGED out

PutFront(q, v) ==
    /\ Len(items[q]) < Length[q]
    /\ Replace(q, <<v>> \o items[q])
    /\ in' = v /\ UNCHANGED out

\* For a queue of one item: the new value takes the place of the old one, if there is one.
Overwrite(q, v) ==
    /\ Length[q] = 1
    /\ Replace(q, <<v>>)
    /\ in' = v /\ UNCHANGED out

Take(q) ==
    /\ items[q] # <<>>
    /\ out' = Head(items[q])
    /\ Replace(q, Tail(items[q]))
    /\ UNCHANGED in

Look(q) ==
    /\ items[q] # <<>>
    /\ out' = Head(items[q])
    /\ UNCHANGED <<items, in>>

Clear(q) ==
    /\ Replace(q, <<>>)
    /\ UNCHANGED <<in, out>>

FifoInit ==
    /\ items = [q \in Name |-> <<>>]
    /\ in = "nothing"
    /\ out = "nothing"

FifoNext ==
    \E q \in Name :
        \/ \E v \in Value : PutBack(q, v) \/ PutFront(q, v) \/ Overwrite(q, v)
        \/ Take(q) \/ Look(q) \/ Clear(q)

FifoSpec == FifoInit /\ [][FifoNext]_<<items, in, out>>
===========================================================================
