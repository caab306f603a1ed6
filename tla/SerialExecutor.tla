--------------------------- MODULE SerialExecutor ---------------------------
(***************************************************************************)
(* What a strand promises its users: the functions submitted to it are     *)
(* started in the order of submission, one at a time.  A function that     *)
(* dispatches another one to its own strand runs it inside itself, so what *)
(* runs at any moment is a stack of functions, all on one thread.          *)
(***************************************************************************)
EXTENDS Naturals, Sequences

CONSTANTS
  Strands,    \* the strands
  Functions,  \* the functions that are submitted
  Actors,     \* whoever may execute a function
  NoOne       \* owner of an idle strand

VARIABLES
  queue,    \* functions of each strand that have not been started
  running,  \* functions of each strand in execution, the innermost last
  owner     \* the actor that executes them

vars == <<queue, running, owner>>

Init ==
  /\ queue = [s \in Strands |-> <<>>]
  /\ running = [s \in Strands |-> <<>>]
  /\ owner = [s \in Strands |-> NoOne]

\* A function waits for its turn.
Submit(s, f) ==
  /\ queue' = [queue EXCEPT ![s] = Append(@, f)]
  /\ UNCHANGED <<running, owner>>

\* The oldest function starts on an idle strand.
Start(s, a) ==
  /\ owner[s] = NoOne
  /\ queue[s] # <<>>
  /\ queue' = [queue EXCEPT ![s] = Tail(@)]
  /\ running' = [running EXCEPT ![s] = <<Head(queue[s])>>]
  /\ owner' = [owner EXCEPT ![s] = a]

\* A function of the strand runs another one at once.
Nest(s, f) ==
  /\ owner[s] # NoOne
  /\ running' = [running EXCEPT ![s] = Append(@, f)]
  /\ UNCHANGED <<queue, owner>>

\* The innermost function returns or throws.
Finish(s) ==
  /\ owner[s] # NoOne
  /\ running' = [running EXCEPT ![s] = SubSeq(@, 1, Len(@) - 1)]
  /\ owner' = [owner EXCEPT ![s] = IF Len(running[s]) = 1 THEN NoOne ELSE @]
  /\ UNCHANGED queue

\* The execution context is destroyed and what it has not run with it.
Destroy ==
  /\ \A s \in Strands : owner[s] = NoOne
  /\ queue' = [s \in Strands |-> <<>>]
  /\ UNCHANGED <<running, owner>>

Next ==
  \/ \E s \in Strands, f \in Functions : Submit(s, f) \/ Nest(s, f)
  \/ \E s \in Strands, a \in Actors : Start(s, a)
  \/ \E s \in Strands : Finish(s)
  \/ Destroy

Spec == Init /\ [][Next]_vars
=============================================================================
