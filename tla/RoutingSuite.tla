---------------------------- MODULE RoutingSuite ----------------------------
(***************************************************************************)
(* tools/routing.py: the sanity check and the message menu that run a      *)
(* network of routing_node processes on one machine.  The script keeps a   *)
(* list p_nodes whose position k must be the process with identity k, as   *)
(* the tests address nodes by index.  Whether a test passes is printed and *)
(* forgotten, so what is modelled is what the script does to processes and *)
(* lists; the nodes, which may fail to join, ignore "exit" or die, are     *)
(* external.  The language is Python 2 (raw_input, range as a list).       *)
(***************************************************************************)
EXTENDS Integers, Sequences, FiniteSets

CONSTANTS
  Bootstraps,   \* num_of_bootstraps (2)
  SanityNodes,  \* num_of_nodes of the sanity check (20)
  Jav1, Jav2,   \* identities of the vaults JAV1 and JAV2 join (2 and 8)
  Drop,         \* v_drop of JAC2 (3)
  Sizes,        \* bound: the <<vaults, clients>> a tester types
  MaxFaults     \* bound: nodes that fail, and bad indices

ASSUME RoutingAssumption ==
  /\ {Bootstraps, SanityNodes, Jav1, Jav2, Drop, MaxFaults} \subseteq Nat
  /\ 2 * Bootstraps <= SanityNodes
  /\ Bootstraps <= Jav1 /\ Bootstraps <= Jav2
  /\ Drop < SanityNodes
  /\ Sizes \subseteq Nat \X Nat

VARIABLES
  mode,      \* "sanity" or "msg": what the tester chose
  pc,        \* where the script is; "down" when an exception has ended it
  vaults,    \* num_of_vaults
  clients,   \* num_of_clients
  total,     \* num_of_nodes
  first,     \* p_bs + p_vaults (p_bs + p_ in the message menu)
  second,    \* p_clients
  list,      \* p_nodes
  probe,     \* the node a join test has started
  pos,       \* next node of StopNodes
  running,   \* the routing_node processes
  faults

numbers == <<mode, vaults, clients, total>>
parts == <<first, second>>
vars == <<pc, numbers, parts, list, probe, pos, running, faults>>

\* -1 where a node, or a list of nodes, is expected; using it raises.
Failed == [id |-> -1, kind |-> "none", n |-> 0]
FailedList == <<Failed>>

Init ==
  /\ mode = "none"
  /\ pc = "menu"
  /\ vaults = 0 /\ clients = 0 /\ total = 0
  /\ first = <<>> /\ second = <<>> /\ list = <<>>
  /\ probe = Failed
  /\ pos = 1
  /\ running = {}
  /\ faults = 0

\* A routing_node with identity idx: a client from num_of_nodes / 2 on.  The
\* number n tells apart processes that were given one identity.
AddRoutingObject(idx) ==
  LET node(n) == [id |-> idx, n |-> n,
                  kind |-> IF idx < total \div 2 THEN "vault" ELSE "client"]
  IN  node(CHOOSE n \in 0 .. Cardinality(running) : node(n) \notin running)

Fault == faults < MaxFaults /\ faults' = faults + 1

-----------------------------------------------------------------------------
(* Setting up a network *)

\* The numbers are set; without the keys, that is all.
Begin(m, v, c) ==
  /\ pc = "menu"
  /\ mode' = m
  /\ vaults' = v /\ clients' = c /\ total' = Bootstraps + v + c
  /\ first' = <<>> /\ second' = <<>> /\ list' = <<>>
  /\ pos' = 1
  /\ \/ pc' = "bootstraps" /\ UNCHANGED faults
     \/ Fault /\ UNCHANGED pc
  /\ UNCHANGED <<probe, running>>

SanityCheck ==
  LET v == SanityNodes \div 2 - Bootstraps
  IN  Begin("sanity", v, SanityNodes - v - Bootstraps)

MsgSendingMenu == \E s \in Sizes : Begin("msg", s[1], s[2])

\* Both bootstrap nodes are started.  When an endpoint does not show up the
\* script calls KillBootstraps, which does not exist.
SetupBootstraps ==
  LET bs == [i \in 1 .. Bootstraps |-> AddRoutingObject(i - 1)] IN
  /\ pc = "bootstraps"
  /\ running' = running \cup {bs[i] : i \in 1 .. Bootstraps}
  /\ \/ /\ pc' = IF mode = "sanity" THEN "jav1" ELSE "vaults"
        /\ first' = bs
        /\ UNCHANGED faults
     \/ /\ Fault
        /\ pc' = "down"
        /\ UNCHANGED first
  /\ UNCHANGED <<numbers, second, list, probe, pos>>

\* Mutant: clients are numbered on from the vaults of this call.
ClientIdentityFromVaults(i, nv) == Bootstraps + nv + (i - nv)

\* The identity of client number i - nv in a call for nv vaults.
ClientIdentity(i, nv) == Bootstraps + vaults + (i - nv)

\* One round of SetupRoutingNodes(peer, nv, nc) at index i.  A node that does
\* not join makes it return -1; nobody stops it or those before it.
SetupRoutingNode(i, nv, sofar, result, then) ==
  LET node == AddRoutingObject(IF i < nv THEN i + Bootstraps
                               ELSE ClientIdentity(i, nv))
  IN
  /\ running' = running \cup {node}
  /\ \/ result = Append(sofar, node) /\ UNCHANGED <<pc, faults>>
     \/ Fault /\ result = FailedList /\ pc' = then

\* SetupRoutingNodes(peer, num_of_vaults, 0) in the sanity check and
\* SetupRoutingNodes(peer, num_of_vaults, num_of_clients) in the message menu.
SetupVaults ==
  LET i == Len(first) - Bootstraps
      nc == IF mode = "sanity" THEN 0 ELSE clients
      then == IF mode = "sanity" THEN "jac1" ELSE "concat"
  IN
  /\ pc = "vaults"
  /\ \/ /\ i = vaults + nc
        /\ pc' = then
        /\ UNCHANGED <<first, running, faults>>
     \/ /\ i < vaults + nc
        /\ SetupRoutingNode(i, vaults, first, first', then)
  /\ UNCHANGED <<numbers, second, list, probe, pos>>

\* Mutant: one client too many.
SetupClientsOver ==
  /\ pc = "clients"
  /\ \/ /\ Len(second) > clients
        /\ pc' = "concat"
        /\ UNCHANGED <<second, running, faults>>
     \/ /\ Len(second) <= clients
        /\ SetupRoutingNode(Len(second), 0, second, second', "concat")
  /\ UNCHANGED <<numbers, first, list, probe, pos>>

\* SetupRoutingNodes(peer, 0, num_of_clients).
SetupClients ==
  /\ pc = "clients"
  /\ \/ /\ Len(second) = clients
        /\ pc' = "concat"
        /\ UNCHANGED <<second, running, faults>>
     \/ /\ Len(second) < clients
        /\ SetupRoutingNode(Len(second), 0, second, second', "concat")
  /\ UNCHANGED <<numbers, first, list, probe, pos>>

\* p_bs + p_vaults + p_clients: a TypeError when one of them is -1.
Concat ==
  /\ pc = "concat"
  /\ IF FailedList \in {first, second}
     THEN pc' = "down" /\ UNCHANGED list
     ELSE /\ list' = first \o second
          /\ pc' = IF mode = "sanity" THEN "sgm1" ELSE "msg"
  /\ UNCHANGED <<numbers, parts, probe, pos, running, faults>>

-----------------------------------------------------------------------------
(* The tests of the sanity check *)

Alive(k) == list[k + 1] \in running

\* JAV1, JAV2 and JAC1 join a node of their own and fail when it does not.
JoinProbe(l, idx, then) ==
  LET node == AddRoutingObject(idx) IN
  /\ pc = l
  /\ probe = Failed
  /\ running' = running \cup {node}
  /\ \/ probe' = node /\ UNCHANGED <<pc, faults>>
     \/ Fault /\ pc' = then /\ UNCHANGED probe
  /\ UNCHANGED <<numbers, parts, list, pos>>

\* Mutant: the node of a join test is not told to exit.
ExitProbeNot(l, then) ==
  /\ pc = l
  /\ probe # Failed
  /\ probe' = Failed
  /\ pc' = then
  /\ UNCHANGED <<numbers, parts, list, pos, running, faults>>

\* They send messages through it and tell it to exit; writing to a node that
\* has died raises an IOError.
ExitProbe(l, then) ==
  /\ pc = l
  /\ probe # Failed
  /\ probe' = Failed
  /\ \/ /\ probe \in running
        /\ running' = running \ {probe}
        /\ pc' = then
        /\ UNCHANGED faults
     \/ /\ probe \in running
        /\ Fault
        /\ pc' = then
        /\ UNCHANGED running
     \/ /\ probe \notin running
        /\ pc' = "down"
        /\ UNCHANGED <<running, faults>>
  /\ UNCHANGED <<numbers, parts, list, pos>>

JAV1 == JoinProbe("jav1", Jav1, "jav2") \/ ExitProbe("jav1", "jav2")
JAV2 == JoinProbe("jav2", Jav2, "vaults") \/ ExitProbe("jav2", "vaults")
JAC1 == \/ JoinProbe("jac1", total \div 2 + 2, "clients")
        \/ ExitProbe("jac1", "clients")

\* Messages from random nodes of a range, any of which may be dead.
Messages(l, range, next) ==
  /\ pc = l
  /\ \/ (\E k \in range : Alive(k)) /\ pc' \in next
     \/ (\E k \in range : ~Alive(k)) /\ pc' = "down"
  /\ UNCHANGED <<numbers, parts, list, probe, pos, running, faults>>

SGM1 == Messages("sgm1", 0 .. total \div 2 - 1, {"p1"})

\* P1 returns -1 at the first message nobody answers: without the clients' ones
\* when that is a vault's.
P1 == \/ Messages("p1", 0 .. total \div 2 - 1, {"p1clients", "jac2"})
      \/ Messages("p1clients", total \div 2 .. total - 1, {"jac2"})

\* JAC2 drops a vault ...
JAC2Drop ==
  /\ pc = "jac2"
  /\ \/ /\ Alive(Drop)
        /\ running' = running \ {list[Drop + 1]}
        /\ pc' = "rejoin"
        /\ UNCHANGED faults
     \/ /\ Alive(Drop)
        /\ Fault
        /\ pc' = "rejoin"
        /\ UNCHANGED running
     \/ /\ ~Alive(Drop)
        /\ pc' = "down"
        /\ UNCHANGED <<running, faults>>
  /\ UNCHANGED <<numbers, parts, list, probe, pos>>

\* ... joins it back, which puts -1 in the list when it fails ...
JAC2Rejoin ==
  LET node == AddRoutingObject(Drop) IN
  /\ pc = "rejoin"
  /\ running' = running \cup {node}
  /\ \/ /\ list' = [list EXCEPT ![Drop + 1] = node]
        /\ pc' = "recheck"
        /\ UNCHANGED faults
     \/ /\ Fault
        /\ list' = [list EXCEPT ![Drop + 1] = Failed]
        /\ pc' = "stop"
  /\ UNCHANGED <<numbers, parts, probe, pos>>

\* ... and asks every client for the routing tables.
JAC2Check ==
  /\ pc = "recheck"
  /\ pc' = IF \A k \in total \div 2 .. total - 1 : Alive(k) THEN "stop" ELSE "down"
  /\ UNCHANGED <<numbers, parts, list, probe, pos, running, faults>>

\* The routing table checks use the line SearchKeyWordLine returns, which is -1
\* when it has given up.
TableTimeout ==
  /\ pc \in {"jac1", "recheck", "msg"}
  /\ pc = "jac1" => probe # Failed
  /\ Fault
  /\ pc' = "down"
  /\ UNCHANGED <<numbers, parts, list, probe, pos, running>>

\* The node that is asked for its tables dies in the middle of an answer: readline
\* returns "" for ever, which is not the prompt the two checks wait for.
TableEndless ==
  /\ \/ pc = "jac1" /\ probe \in running /\ running' = running \ {probe}
     \/ /\ pc = "recheck"
        /\ \E k \in total \div 2 .. total - 1 :
             Alive(k) /\ running' = running \ {list[k + 1]}
     \/ pc = "msg" /\ Alive(0) /\ running' = running \ {list[1]}
  /\ Fault
  /\ pc' = "endless"
  /\ UNCHANGED <<numbers, parts, list, probe, pos>>

\* Mutant: the first node is left running.
StopNodesButFirst ==
  /\ pc = "stop"
  /\ running' = running \ {list[k] : k \in 2 .. Len(list)}
  /\ pc' = "menu"
  /\ UNCHANGED <<numbers, parts, list, probe, pos, faults>>

\* One round of StopNodes: an IOError for a node that has died, an
\* AttributeError for -1; the nodes after it are not stopped.
StopNodes ==
  /\ pc = "stop"
  /\ \/ /\ pos > Len(list)
        /\ pc' = "menu"
        /\ UNCHANGED <<pos, running, faults>>
     \/ /\ pos <= Len(list)
        /\ list[pos] \in running
        /\ pos' = pos + 1
        /\ \/ running' = running \ {list[pos]} /\ UNCHANGED faults
           \/ Fault /\ UNCHANGED running
        /\ UNCHANGED pc
     \/ /\ pos <= Len(list)
        /\ list[pos] \notin running
        /\ pc' = "down"
        /\ UNCHANGED <<pos, running, faults>>
  /\ UNCHANGED <<numbers, parts, list, probe>>

-----------------------------------------------------------------------------
(* The message menu *)

\* Mutant: the last vault is never a destination.
DestinationsShort(source) == (0 .. total \div 2 - 2) \ {source}

\* SendDirectMsg draws from 0 .. num_of_nodes / 2 - 1 until it is not source.
Destinations(source) == (0 .. total \div 2 - 1) \ {source}

\* A message from a random node, once or for ever; one that arrives changes
\* nothing here.
SendMsg ==
  /\ pc \in {"msg", "infinite"}
  /\ \E source \in 0 .. total - 1 :
       \/ Destinations(source) = {} /\ pc' = "hang"
       \/ Destinations(source) # {} /\ ~Alive(source) /\ pc' = "down"
  /\ UNCHANGED <<numbers, parts, list, probe, pos, running, faults>>

\* An index that is no number or no position of p_nodes.
BadIndex ==
  /\ pc = "msg"
  /\ Fault
  /\ pc' = "down"
  /\ UNCHANGED <<numbers, parts, list, probe, pos, running>>

\* "infinitely (type x to stop)": the loop tests option and never reads it, so
\* it ends only with an exception or with the script.
SendForever ==
  /\ pc = "msg"
  /\ pc' = "infinite"
  /\ UNCHANGED <<numbers, parts, list, probe, pos, running, faults>>

LeaveMsgMenu ==
  /\ pc = "msg"
  /\ pc' = "stop"
  /\ UNCHANGED <<numbers, parts, list, probe, pos, running, faults>>

-----------------------------------------------------------------------------
(* The nodes, and the system *)

NodeDies(h) ==
  /\ Fault
  /\ running' = running \ {h}
  /\ UNCHANGED <<pc, numbers, parts, list, probe, pos>>

\* The script is ended and started again; its nodes stay.
Restart ==
  /\ pc \in {"down", "infinite", "hang", "endless"}
  /\ Fault
  /\ pc' = "menu"
  /\ probe' = Failed
  /\ UNCHANGED <<numbers, parts, list, pos, running>>

Script ==
  \/ SetupBootstraps \/ SetupVaults \/ SetupClients \/ Concat
  \/ JAV1 \/ JAV2 \/ JAC1 \/ SGM1 \/ P1
  \/ JAC2Drop \/ JAC2Rejoin \/ JAC2Check \/ StopNodes \/ SendMsg

Next ==
  \/ SanityCheck \/ MsgSendingMenu \/ Script
  \/ TableTimeout \/ TableEndless \/ BadIndex \/ SendForever \/ LeaveMsgMenu
  \/ Restart
  \/ \E h \in running : NodeDies(h)

Spec == Init /\ [][Next]_vars

-----------------------------------------------------------------------------
(* Properties *)

Processes == [id: Nat, kind: {"vault", "client"}, n: Nat]
Nodes == Processes \cup {Failed}

\* What routing.py keeps: lists of nodes and -1 (Failed), never more clients
\* than were asked for.
TypeOK ==
  /\ mode \in {"none", "sanity", "msg"}
  /\ pc \in {"menu", "bootstraps", "jav1", "jav2", "vaults", "jac1", "clients",
            "concat", "sgm1", "p1", "p1clients", "jac2", "rejoin", "recheck",
            "msg", "infinite", "hang", "endless", "stop", "down"}
  /\ {vaults, clients, total} \subseteq Nat
  /\ first \in Seq(Nodes) /\ second \in Seq(Nodes) /\ list \in Seq(Nodes)
  /\ Len(second) <= clients
  /\ probe \in Nodes
  /\ pos \in Nat \ {0}
  /\ running \subseteq Processes
  /\ faults \in 0 .. MaxFaults

\* p_nodes[k] is the node with identity k, for every k the tests draw: they say
\* "from k" and talk to p_nodes[k], and JAC2 replaces an entry.
Aligned ==
  list # <<>> =>
    /\ Len(list) = total
    /\ \A k \in 1 .. Len(list) : list[k].id \in {-1, k - 1}

\* No two nodes with one identity run at once: a join test and JAC2 have their
\* node gone before the identity is used again.
OneNodePerIdentity ==
  faults = 0 => \A h, o \in running : h.id = o.id => h = o

\* When nothing fails, a check that returns to the menu leaves no node running.
CleanExit == pc = "menu" /\ faults = 0 => running = {}

\* Drawing a destination other than the source ends, but for networks whose
\* lower half is one node.
HangsOnlyWhenTiny == pc = "hang" => total < 4

=============================================================================
