------------------------------ MODULE Registry ------------------------------
(***************************************************************************)
(* What the list of statistics promises, whatever pointers it is made of:   *)
(* threads join one at a time and stay, and when the process ends, those     *)
(* that had joined by then are counted, the newest first, each of them once. *)
(***************************************************************************)
EXTENDS Integers, Sequences

CONSTANTS Threads, Main,
          Nobody    \* not a thread

VARIABLES members,   \* the threads that have joined, in that order
          begun,     \* the process has begun to end
          turn,      \* the member to be counted next, or Nobody
          counted    \* how many have been counted

Init == members = <<Main>> /\ ~begun /\ turn = Nobody /\ counted = 0

Join(t) ==
  /\ \A i \in 1 .. Len(members) : members[i] # t
  /\ members' = Append(members, t)
  /\ UNCHANGED <<begun, turn, counted>>

(* The newest member is the first to be counted.                           *)
Begin ==
  /\ ~begun /\ begun'
  /\ turn' = members[Len(members)]
  /\ UNCHANGED <<members, counted>>

(* After each member comes the one that had joined just before it.          *)
CountOne ==
  /\ \E i \in 1 .. Len(members) :
       /\ turn = members[i]
       /\ turn' = IF i = 1 THEN Nobody ELSE members[i - 1]
  /\ counted' = counted + 1
  /\ UNCHANGED <<members, begun>>

Next == Begin \/ CountOne \/ \E t \in Threads : Join(t)

Spec == Init /\ [][Next]_<<members, begun, turn, counted>>
=============================================================================
