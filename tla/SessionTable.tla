---------------------------- MODULE SessionTable ----------------------------
(***************************************************************************)
(* What the register of clients promises, without its counter and queue:   *)
(* a set of numbered seats, each held by at most one endpoint, an endpoint *)
(* holding at most one seat.  A newcomer takes any free seat, and a seat   *)
(* is added only when none is free, so that the number of seats is the     *)
(* largest number of clients there ever were at one time.                  *)
(***************************************************************************)
EXTENDS Integers

CONSTANT Endpoints

VARIABLES owner,        \* seat -> endpoint, for the seats that are taken
          capacity      \* the seats are 0..capacity-1

vars == <<owner, capacity>>

Seats == 0..(capacity - 1)
Taken == DOMAIN owner
Free == Seats \ Taken

Init ==
    /\ owner = [s \in {} |-> 0]
    /\ capacity = 0

Seat(s, e) == owner' = [x \in Taken \cup {s} |-> IF x = s THEN e ELSE owner[x]]

Join(e) ==
    /\ \A s \in Taken : owner[s] # e
    /\ \/ \E s \in Free : Seat(s, e) /\ UNCHANGED capacity
       \/ Free = {} /\ Seat(capacity, e) /\ capacity' = capacity + 1

Leave(e) ==
    /\ \E s \in Taken :
          /\ owner[s] = e
          /\ owner' = [x \in Taken \ {s} |-> owner[x]]
    /\ UNCHANGED capacity

Next == \E e \in Endpoints : Join(e) \/ Leave(e)

Spec == Init /\ [][Next]_vars
=============================================================================
