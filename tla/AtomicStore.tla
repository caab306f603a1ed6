----------------------------- MODULE AtomicStore -----------------------------
(***************************************************************************)
(* What a database file in rollback-journal mode promises its connections: *)
(* one value, changed whole or not at all, never under a reader.  A reader *)
(* keeps the value it began with.  A power loss may restore the value      *)
(* before the last commit, as long as that commit has not settled; it      *)
(* leaves nothing else, and a process that dies changes nothing.           *)
(***************************************************************************)
CONSTANTS
  Clients,
  Values,
  First,    \* the value at the start
  Nothing   \* what a client sees that is not reading

VARIABLES
  value,    \* the committed value
  past,     \* values a power loss may restore
  view      \* what each client sees

vars == <<value, past, view>>

Init ==
  /\ value = First
  /\ past = {}
  /\ view = [c \in Clients |-> Nothing]

Begin(c) ==
  /\ view[c] = Nothing
  /\ view' = [view EXCEPT ![c] = value]
  /\ UNCHANGED <<value, past>>

\* The client ends its transaction, or dies.
End(c) ==
  /\ view[c] # Nothing
  /\ view' = [view EXCEPT ![c] = Nothing]
  /\ UNCHANGED <<value, past>>

Commit(c) ==
  /\ view[c] # Nothing
  /\ \A d \in Clients \ {c} : view[d] = Nothing
  /\ value' \in Values
  /\ past' = {value} \ {value'}
  /\ view' = [view EXCEPT ![c] = value']

\* Commits made so far survive a power loss from now on.
Settle ==
  /\ past' \subseteq past
  /\ UNCHANGED <<value, view>>

PowerLoss ==
  /\ value' \in {value} \cup past
  /\ past' = {}
  /\ view' = [c \in Clients |-> Nothing]

Next ==
  \/ Settle
  \/ \E c \in Clients : Begin(c) \/ End(c) \/ Commit(c)
  \/ PowerLoss

Spec == Init /\ [][Next]_vars
=============================================================================
