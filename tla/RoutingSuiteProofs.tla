------------------------- MODULE RoutingSuiteProofs -------------------------
(***************************************************************************)
(* Proofs about RoutingSuite, for any number of bootstrap nodes, any size  *)
(* of the sanity check and of the networks a tester asks for, and any      *)
(* number of faults: type correctness, that position k of p_nodes is       *)
(* identity k, that without a fault no identity runs twice and nothing is  *)
(* left running, and when drawing a destination cannot end.                *)
(***************************************************************************)
EXTENDS RoutingSuite, FiniteSetTheorems, TLAPS

-----------------------------------------------------------------------------
(* The inductive invariant *)

\* p_bs, p_vaults and p_clients are being made.
Joining == {"jav1", "jav2", "vaults", "jac1", "clients", "concat"}
\* The tests of the sanity check that use p_nodes.
Testing == {"sgm1", "p1", "p1clients", "jac2", "rejoin", "recheck"}
\* The message menu uses it.
Talking == {"msg", "infinite", "hang"}

\* The vaults, or vaults and clients, SetupVaults joins.
Asked == Bootstraps + vaults + (IF mode = "sanity" THEN 0 ELSE clients)

\* num_of_nodes is the sum of the others once a network is being set up, and
\* the sanity check has its own numbers.
Numbers ==
  /\ pc \notin {"menu", "down"} =>
       mode # "none" /\ total = Bootstraps + vaults + clients
  /\ mode = "sanity" =>
       /\ Bootstraps + vaults = SanityNodes \div 2
       /\ Bootstraps + vaults + clients = SanityNodes
  /\ pc \in {"jav1", "jav2", "jac1", "clients"} \cup Testing => mode = "sanity"

\* The nodes of s have the identities from a on, in order; some may be -1.
Numbered(s, a) == \A k \in 1 .. Len(s) : s[k].id \in {-1, a + (k - 1)}

\* The identities in the lists, whatever the script is doing.
Identities ==
  /\ Numbered(first, 0)
  /\ Numbered(second, Bootstraps + vaults)
  /\ Numbered(list, 0)

\* How far the lists have come; a list that has failed is not completed.
Lengths ==
  /\ pc \in {"bootstraps", "jav1", "jav2", "vaults", "jac1"} => second = <<>>
  /\ pc \in {"jav1", "jav2"} => Len(first) = Bootstraps
  /\ pc = "vaults" => Len(first) \in Bootstraps .. Asked
  /\ pc \in {"jac1", "clients", "concat"} =>
       first = FailedList \/ Len(first) = Asked
  /\ pc = "concat" =>
       second = FailedList \/ Len(second) = total - Asked
  /\ pc \in Testing \cup Talking \cup {"stop"} => Len(list) = total
  /\ list # <<>> => Len(list) = total

\* A join test has its node while it runs, and StopNodes starts at the front.
Control ==
  /\ pc \notin {"jav1", "jav2", "jac1", "endless", "down"} => probe = Failed
  /\ pc \notin {"menu", "stop", "down"} => pos = 1

Members(s) == {s[k] : k \in 1 .. Len(s)}

\* Where nothing has failed, the script knows every node that runs.
Accounted ==
  faults = 0 =>
    /\ pc \in {"menu", "bootstraps"} => running = {}
    /\ pc \in Joining =>
         running \subseteq Members(first) \cup Members(second) \cup {probe}
    /\ pc \in (Testing \ {"rejoin"}) \cup Talking => running \subseteq Members(list)
    /\ pc = "rejoin" => running \subseteq Members(list) \ {list[Drop + 1]}
    /\ pc = "stop" => running \subseteq {list[k] : k \in pos .. Len(list)}

Types == TypeOK /\ IsFiniteSet(running)
Shape == Numbers /\ Identities /\ Lengths /\ Control
RoutingInv ==
  Types /\ Shape /\ Accounted /\ OneNodePerIdentity /\ HangsOnlyWhenTiny

-----------------------------------------------------------------------------
(* Nodes *)

\* -1 is no process.
LEMMA FailedIsNone ==
  /\ Failed \notin Processes /\ Failed \in Nodes /\ Failed.id = -1
  /\ FailedList \in Seq(Nodes)
  /\ Len(FailedList) = 1 /\ FailedList[1] = Failed
<1>1. Failed \notin Processes /\ Failed \in Nodes /\ Failed.id = -1
  BY DEF Failed, Processes, Nodes
<1>2. QED
  BY <1>1 DEF FailedList

\* AddRoutingObject starts a process with the identity it is asked for, which
\* is told apart from those that run: a finite set of nodes leaves a number.
LEMMA NewNode ==
  ASSUME Types, NEW idx \in Nat
  PROVE  /\ AddRoutingObject(idx) \in Processes
         /\ AddRoutingObject(idx).id = idx
         /\ AddRoutingObject(idx) \notin running
<1> DEFINE kind == IF idx < total \div 2 THEN "vault" ELSE "client"
           node(n) == [id |-> idx, n |-> n, kind |-> kind]
           some == 0 .. Cardinality(running)
<1>1. Cardinality(running) \in Nat /\ IsFiniteSet(running)
  BY FS_CardinalityType DEF Types
<1>2. \E n \in some : node(n) \notin running
  <2> SUFFICES ASSUME \A n \in some : node(n) \in running
               PROVE  FALSE
    OBVIOUS
  <2> DEFINE f == [n \in some |-> node(n)]
  <2>1. f \in Injection(some, running)
    BY DEF Injection, IsInjective
  <2>2. Cardinality(some) <= Cardinality(running)
    BY <1>1, <2>1, FS_Injection
  <2>3. Cardinality(some) = Cardinality(running) + 1
    BY <1>1, FS_Interval
  <2>4. QED
    BY <1>1, <2>2, <2>3
<1>3. PICK n \in some : AddRoutingObject(idx) = node(n) /\ node(n) \notin running
  BY <1>2 DEF AddRoutingObject
<1>4. n \in Nat /\ kind \in {"vault", "client"}
  BY <1>1
<1>5. QED
  BY <1>3, <1>4 DEF Processes

\* The bootstrap nodes SetupBootstraps starts.
LEMMA NewBootstraps ==
  ASSUME Types,
         NEW bs, bs = [i \in 1 .. Bootstraps |-> AddRoutingObject(i - 1)]
  PROVE  /\ bs \in Seq(Processes) /\ bs \in Seq(Nodes)
         /\ Len(bs) = Bootstraps
         /\ \A i \in 1 .. Bootstraps : bs[i] \in Processes /\ bs[i].id = i - 1
         /\ IsFiniteSet({bs[i] : i \in 1 .. Bootstraps})
<1>0. Bootstraps \in Nat
  BY RoutingAssumption
<1>1. \A i \in 1 .. Bootstraps : bs[i] \in Processes /\ bs[i].id = i - 1
  BY <1>0, NewNode
<1>2. bs \in [1 .. Bootstraps -> Processes] /\ bs \in [1 .. Bootstraps -> Nodes]
  BY <1>1 DEF Nodes
<1>3. IsFiniteSet({bs[i] : i \in 1 .. Bootstraps})
  <2>1. bs \in Surjection(1 .. Bootstraps, {bs[i] : i \in 1 .. Bootstraps})
    BY <1>2 DEF Surjection
  <2>2. QED
    BY <1>0, <2>1, FS_Interval, FS_Surjection
<1>4. QED
  BY <1>0, <1>1, <1>2, <1>3

\* The constants are natural numbers.
LEMMA Constants ==
  /\ Bootstraps \in Nat /\ SanityNodes \in Nat /\ MaxFaults \in Nat
  /\ Jav1 \in Nat /\ Jav2 \in Nat /\ Drop \in Nat
  /\ 2 * Bootstraps <= SanityNodes
  /\ Bootstraps <= Jav1 /\ Bootstraps <= Jav2 /\ Drop < SanityNodes
BY RoutingAssumption

\* What the types say of the numbers.
LEMMA NumberTypes ==
  ASSUME Types
  PROVE  /\ vaults \in Nat /\ clients \in Nat /\ total \in Nat
         /\ faults \in Nat /\ pos \in Nat
         /\ Fault => faults' \in 0 .. MaxFaults /\ faults' # 0
         /\ faults \in 0 .. MaxFaults
BY Constants DEF Types, TypeOK, Fault

\* A step that sets each variable to a value of its type, or not at all.
WellTyped ==
  /\ UNCHANGED <<mode, vaults, clients, total>>
  /\ pc' = pc \/ pc' \in Joining \cup Testing \cup Talking \cup
                          {"menu", "bootstraps", "endless", "stop", "down"}
  /\ first' = first \/ first' \in Seq(Nodes)
  /\ second' = second \/ (second' \in Seq(Nodes) /\ Len(second') <= clients)
  /\ list' = list \/ list' \in Seq(Nodes)
  /\ probe' = probe \/ probe' \in Nodes
  /\ pos' = pos \/ pos' = pos + 1
  /\ \/ running' = running
     \/ running' \subseteq Processes /\ IsFiniteSet(running')
  /\ faults' = faults \/ Fault

\* Such a step keeps the types.
LEMMA TypesFrom ==
  ASSUME Types, WellTyped
  PROVE  Types'
<1> USE DEF WellTyped
<1>1. faults' \in 0 .. MaxFaults /\ pos' \in Nat \ {0}
  BY NumberTypes DEF Types, TypeOK
<1>2. running' \subseteq Processes /\ IsFiniteSet(running')
  BY DEF Types, TypeOK
<1>3. QED
  BY <1>1, <1>2 DEF Types, TypeOK, Joining, Testing, Talking

-----------------------------------------------------------------------------
(* Types *)

\* Both ways to begin: the numbers of the sanity check are natural numbers as
\* there is room for the bootstrap nodes among its vaults.
LEMMA BeginTypes ==
  ASSUME Types, SanityCheck \/ MsgSendingMenu
  PROVE  Types'
<1>1. PICK m \in {"sanity", "msg"}, v \in Nat, c \in Nat : Begin(m, v, c)
  <2>1. CASE SanityCheck
    <3>1. /\ SanityNodes \div 2 - Bootstraps \in Nat
          /\ SanityNodes - (SanityNodes \div 2 - Bootstraps) - Bootstraps \in Nat
      BY RoutingAssumption
    <3>2. QED
      BY <2>1, <3>1 DEF SanityCheck
  <2>2. CASE MsgSendingMenu
    BY <2>2, RoutingAssumption DEF MsgSendingMenu
  <2>3. QED
    BY <2>1, <2>2
<1>2. Bootstraps + v + c \in Nat
  BY RoutingAssumption
<1>3. faults' \in 0 .. MaxFaults
  BY <1>1, NumberTypes DEF Begin
<1>4. UNCHANGED <<probe, running>> /\ pc' \in {"bootstraps", "menu"}
  BY <1>1 DEF Begin
<1>5. /\ first' = <<>> /\ second' = <<>> /\ list' = <<>> /\ pos' = 1
      /\ mode' = m /\ vaults' = v /\ clients' = c /\ total' = Bootstraps + v + c
  BY <1>1 DEF Begin
<1>6. QED
  BY <1>1, <1>2, <1>3, <1>4, <1>5 DEF Types, TypeOK

\* A process more.
LEMMA OneMore ==
  ASSUME Types, NEW idx \in Nat
  PROVE  /\ running \cup {AddRoutingObject(idx)} \subseteq Processes
         /\ IsFiniteSet(running \cup {AddRoutingObject(idx)})
BY NewNode, FS_AddElement DEF Types, TypeOK

\* A process fewer.
LEMMA OneLess ==
  ASSUME Types, NEW h
  PROVE  running \ {h} \subseteq Processes /\ IsFiniteSet(running \ {h})
BY FS_RemoveElement DEF Types, TypeOK

\* A round of SetupRoutingNodes gives one more node of the list, or -1.
LEMMA RoundTypes ==
  ASSUME Types, NEW i \in Nat, NEW nv \in Nat, nv = vaults \/ nv = 0,
         NEW sofar \in Seq(Nodes), NEW result, NEW then,
         SetupRoutingNode(i, nv, sofar, result, then)
  PROVE  /\ running' \subseteq Processes /\ IsFiniteSet(running')
         /\ result \in Seq(Nodes)
         /\ Len(result) \in {1, Len(sofar) + 1}
         /\ pc' \in {pc, then}
         /\ faults' \in 0 .. MaxFaults
<1> DEFINE id == IF i < nv THEN i + Bootstraps ELSE ClientIdentity(i, nv)
<1>1. id \in Nat
  BY Constants, NumberTypes DEF ClientIdentity
<1>2. AddRoutingObject(id) \in Nodes
  BY <1>1, NewNode DEF Nodes
<1>3. running' = running \cup {AddRoutingObject(id)}
  BY DEF SetupRoutingNode
<1>4. \/ result = Append(sofar, AddRoutingObject(id)) /\ UNCHANGED <<pc, faults>>
      \/ Fault /\ result = FailedList /\ pc' = then
  BY DEF SetupRoutingNode
<1>5. result \in Seq(Nodes) /\ Len(result) \in {1, Len(sofar) + 1}
  <2>1. CASE result = FailedList
    BY <2>1, FailedIsNone
  <2>2. CASE result = Append(sofar, AddRoutingObject(id))
    BY <1>2, <2>2
  <2>3. QED
    BY <1>4, <2>1, <2>2
<1>6. faults' \in 0 .. MaxFaults
  BY <1>4, NumberTypes
<1>7. QED
  BY <1>1, <1>3, <1>4, <1>5, <1>6, OneMore

\* The index of SetupVaults' next node is its identity.
LEMMA VaultsRound ==
  ASSUME Types, Shape, SetupVaults
  PROVE  LET i == Len(first) - Bootstraps IN
         /\ i \in Nat /\ first \in Seq(Nodes) /\ vaults \in Nat
         /\ Numbered(first, 0)
         /\ (IF i < vaults THEN i + Bootstraps ELSE ClientIdentity(i, vaults))
              = 0 + Len(first)
<1>1. pc = "vaults" /\ Len(first) \in Bootstraps .. Asked
  BY DEF SetupVaults, Shape, Lengths
<1>2. Asked \in Nat /\ Len(first) \in Nat /\ first \in Seq(Nodes)
  BY Constants, NumberTypes DEF Asked, Types, TypeOK
<1>3. QED
  BY <1>1, <1>2, Constants, NumberTypes DEF ClientIdentity, Shape, Identities

\* The three calls that set up a network, and putting the lists together.
LEMMA SetupTypes ==
  ASSUME Types, Shape, SetupBootstraps \/ SetupVaults \/ SetupClients \/ Concat
  PROVE  Types'
<1>1. CASE SetupBootstraps
  <2> DEFINE bs == [i \in 1 .. Bootstraps |-> AddRoutingObject(i - 1)]
             new == {bs[i] : i \in 1 .. Bootstraps}
  <2>1. bs \in Seq(Nodes) /\ new \subseteq Processes /\ IsFiniteSet(new)
    <3>1. /\ bs \in Seq(Processes) /\ Len(bs) = Bootstraps
          /\ bs \in Seq(Nodes) /\ IsFiniteSet(new)
      BY NewBootstraps
    <3>2. \A k \in 1 .. Bootstraps : bs[k] \in Processes
      BY NewBootstraps
    <3>3. QED
      BY <3>1, <3>2
  <2>2. running' = running \cup new
    BY <1>1 DEF SetupBootstraps
  <2>3. running' \subseteq Processes /\ IsFiniteSet(running')
    BY <2>1, <2>2, FS_Union DEF Types, TypeOK
  <2>4. first' \in Seq(Nodes)
    BY <1>1, <2>1 DEF SetupBootstraps, Types, TypeOK
  <2>5. faults' \in 0 .. MaxFaults /\ pc' \in {"jav1", "vaults", "down"}
    BY <1>1, NumberTypes DEF SetupBootstraps
  <2>6. UNCHANGED <<mode, vaults, clients, total, second, list, probe, pos>>
    BY <1>1 DEF SetupBootstraps, numbers
  <2>7. QED
    BY <2>3, <2>4, <2>5, <2>6 DEF Types, TypeOK
<1>2. CASE SetupVaults
  <2> DEFINE i == Len(first) - Bootstraps
             then == IF mode = "sanity" THEN "jac1" ELSE "concat"
  <2>1. UNCHANGED <<mode, vaults, clients, total, second, list, probe, pos>>
    BY <1>2 DEF SetupVaults, numbers
  <2>2. CASE pc' = then /\ UNCHANGED <<first, running, faults>>
    BY <2>1, <2>2 DEF Types, TypeOK
  <2>3. CASE SetupRoutingNode(i, vaults, first, first', then)
    <3>1. i \in Nat /\ vaults \in Nat /\ first \in Seq(Nodes)
      BY <1>2, VaultsRound
    <3>2. /\ running' \subseteq Processes /\ IsFiniteSet(running')
          /\ first' \in Seq(Nodes)
          /\ pc' \in {pc, then} /\ faults' \in 0 .. MaxFaults
      BY <2>3, <3>1, RoundTypes
    <3>3. QED
      BY <2>1, <3>2 DEF Types, TypeOK
  <2>4. QED
    BY <1>2, <2>2, <2>3 DEF SetupVaults
<1>3. CASE SetupClients
  <2>1. UNCHANGED <<mode, vaults, clients, total, first, list, probe, pos>>
    BY <1>3 DEF SetupClients, numbers
  <2>2. CASE pc' = "concat" /\ UNCHANGED <<second, running, faults>>
    BY <2>1, <2>2 DEF Types, TypeOK
  <2>3. CASE /\ Len(second) < clients
             /\ SetupRoutingNode(Len(second), 0, second, second', "concat")
    <3>1. Len(second) \in Nat /\ second \in Seq(Nodes) /\ clients \in Nat
      BY DEF Types, TypeOK
    <3>2. /\ running' \subseteq Processes /\ IsFiniteSet(running')
          /\ second' \in Seq(Nodes) /\ Len(second') \in {1, Len(second) + 1}
          /\ pc' \in {pc, "concat"} /\ faults' \in 0 .. MaxFaults
      BY <2>3, <3>1, RoundTypes
    <3>3. \A a, b, c \in Nat : a < c /\ b \in {1, a + 1} => b <= c
      OBVIOUS
    <3>4. Len(second') \in Nat
      BY <3>2
    <3>5. Len(second') <= clients
      BY <2>3, <3>1, <3>2, <3>3, <3>4
    <3>6. QED
      BY <2>1, <3>2, <3>5 DEF Types, TypeOK
  <2>4. QED
    BY <1>3, <2>2, <2>3 DEF SetupClients
<1>4. CASE Concat
  <2>1. first \o second \in Seq(Nodes)
    BY DEF Types, TypeOK
  <2>2. list' = list \/ list' = first \o second
    BY <1>4 DEF Concat
  <2>3. pc' \in {"down", "sgm1", "msg"}
    BY <1>4 DEF Concat
  <2>4. UNCHANGED <<mode, vaults, clients, total, first, second, probe, pos,
                    running, faults>>
    BY <1>4 DEF Concat, numbers, parts
  <2>5. QED
    BY <2>1, <2>2, <2>3, <2>4, TypesFrom DEF WellTyped, Testing, Talking
<1>5. QED
  BY <1>1, <1>2, <1>3, <1>4

\* The join tests start one node and end it.
LEMMA JoinTypes ==
  ASSUME Types, JAV1 \/ JAV2 \/ JAC1
  PROVE  Types'
<1>1. ASSUME NEW l, NEW idx \in Nat, NEW then \in {"jav2", "vaults", "clients"},
             JoinProbe(l, idx, then)
      PROVE  Types'
  <2>1. AddRoutingObject(idx) \in Nodes
    BY NewNode DEF Nodes
  <2>2. QED
    BY <1>1, <2>1, OneMore, TypesFrom DEF WellTyped, JoinProbe, numbers, parts, Joining
<1>2. ASSUME NEW l, NEW then \in {"jav2", "vaults", "clients"}, ExitProbe(l, then)
      PROVE  Types'
  BY <1>2, OneLess, FailedIsNone, TypesFrom
     DEF WellTyped, ExitProbe, numbers, parts, Joining
<1>3. Jav1 \in Nat /\ Jav2 \in Nat /\ total \div 2 + 2 \in Nat
  BY Constants, NumberTypes
<1>4. QED
  BY <1>1, <1>2, <1>3 DEF JAV1, JAV2, JAC1

\* Dropping a vault and joining it back.
LEMMA RejoinTypes ==
  ASSUME Types, JAC2Drop \/ JAC2Rejoin
  PROVE  Types'
<1>1. CASE JAC2Drop
  BY <1>1, OneLess, TypesFrom DEF WellTyped, JAC2Drop, numbers, parts, Testing
<1>2. CASE JAC2Rejoin
  <2>1. Drop \in Nat
    BY Constants
  <2>2. AddRoutingObject(Drop) \in Nodes /\ Failed \in Nodes
    BY <2>1, NewNode, FailedIsNone DEF Nodes
  <2>3. ASSUME NEW x \in Nodes
        PROVE  [list EXCEPT ![Drop + 1] = x] \in Seq(Nodes)
    <3>1. list \in Seq(Nodes) /\ list \in [1 .. Len(list) -> Nodes]
      BY DEF Types, TypeOK
    <3>2. [list EXCEPT ![Drop + 1] = x] \in [1 .. Len(list) -> Nodes]
      BY <3>1
    <3>3. QED
      BY <3>1, <3>2
  <2>4. QED
    BY <1>2, <2>1, <2>2, <2>3, OneMore, TypesFrom
       DEF WellTyped, JAC2Rejoin, numbers, parts, Testing
<1>3. QED
  BY <1>1, <1>2

\* Steps that move the script, stop a node or lose one.
LEMMA OtherTypes ==
  ASSUME Types,
         \/ SGM1 \/ P1 \/ JAC2Check \/ StopNodes \/ SendMsg
         \/ TableTimeout \/ TableEndless \/ BadIndex \/ SendForever
         \/ LeaveMsgMenu \/ Restart
         \/ \E h \in running : NodeDies(h)
         \/ UNCHANGED vars
  PROVE  Types'
<1> USE TypesFrom DEF WellTyped, numbers, parts, Testing, Talking, Joining
<1>1. CASE SGM1 \/ P1
  BY <1>1 DEF SGM1, P1, Messages
<1>2. CASE JAC2Check \/ SendMsg \/ SendForever \/ LeaveMsgMenu
  BY <1>2 DEF JAC2Check, SendMsg, SendForever, LeaveMsgMenu
<1>3. CASE StopNodes
  BY <1>3, OneLess, NumberTypes DEF StopNodes
<1>4. CASE TableTimeout \/ BadIndex
  BY <1>4 DEF TableTimeout, BadIndex
<1>5. CASE TableEndless
  BY <1>5, OneLess DEF TableEndless
<1>6. CASE Restart
  BY <1>6, FailedIsNone DEF Restart
<1>7. ASSUME NEW h \in running, NodeDies(h)
      PROVE  Types'
  BY <1>7, OneLess DEF NodeDies
<1>8. CASE UNCHANGED vars
  BY <1>8 DEF vars
<1>9. QED
  BY <1>1, <1>2, <1>3, <1>4, <1>5, <1>6, <1>7, <1>8

\* A step of the system keeps the types.
LEMMA StepTypes ==
  ASSUME Types, Shape, [Next]_vars
  PROVE  Types'
BY BeginTypes, SetupTypes, JoinTypes, RejoinTypes, OtherTypes DEF Next, Script

-----------------------------------------------------------------------------
(* The shape of the lists *)

\* Identities do not move unless lists or num_of_vaults do.
LEMMA IdentitiesStill ==
  ASSUME Identities, UNCHANGED <<vaults, first, second, list>>
  PROVE  Identities'
BY DEF Identities, Numbered

\* A list that is -1 is numbered from anywhere, and so is an empty one.
LEMMA NumberedTrivially ==
  ASSUME NEW a \in Nat
  PROVE  Numbered(<<>>, a) /\ Numbered(FailedList, a)
BY FailedIsNone DEF Numbered

\* One more node with the next identity.
LEMMA NumberedAppend ==
  ASSUME NEW s \in Seq(Nodes), NEW a \in Nat, Numbered(s, a),
         NEW x \in Nodes, x.id = a + Len(s)
  PROVE  Numbered(Append(s, x), a)
<1> SUFFICES ASSUME NEW k \in 1 .. Len(Append(s, x))
             PROVE  Append(s, x)[k].id \in {-1, a + (k - 1)}
  BY DEF Numbered
<1>1. Len(Append(s, x)) = Len(s) + 1 /\ Len(s) \in Nat
  OBVIOUS
<1>2. CASE k = Len(s) + 1
  BY <1>1, <1>2
<1>3. CASE k \in 1 .. Len(s)
  <2>1. Append(s, x)[k] = s[k]
    BY <1>3
  <2>2. QED
    BY <1>3, <2>1 DEF Numbered
<1>4. QED
  BY <1>1, <1>2, <1>3

\* The numbers are set, the lists empty.
LEMMA BeginShape ==
  ASSUME Types, Shape, SanityCheck \/ MsgSendingMenu
  PROVE  Shape'
<1>1. PICK m \in {"sanity", "msg"}, v \in Nat, c \in Nat :
        /\ Begin(m, v, c)
        /\ m = "sanity" => /\ Bootstraps + v = SanityNodes \div 2
                           /\ Bootstraps + v + c = SanityNodes
  <2>1. CASE SanityCheck
    <3> DEFINE v == SanityNodes \div 2 - Bootstraps
               c == SanityNodes - v - Bootstraps
    <3>1. v \in Nat /\ c \in Nat
      BY Constants
    <3>2. Bootstraps + v = SanityNodes \div 2 /\ Bootstraps + v + c = SanityNodes
      BY Constants
    <3>3. Begin("sanity", v, c)
      BY <2>1 DEF SanityCheck
    <3>4. QED
      BY <3>1, <3>2, <3>3
  <2>2. CASE MsgSendingMenu
    BY <2>2, RoutingAssumption DEF MsgSendingMenu
  <2>3. QED
    BY <2>1, <2>2
<1>2. /\ first' = <<>> /\ second' = <<>> /\ list' = <<>> /\ pos' = 1
      /\ mode' = m /\ vaults' = v /\ clients' = c /\ total' = Bootstraps + v + c
      /\ pc' \in {"bootstraps", "menu"} /\ pc = "menu" /\ probe' = probe
  BY <1>1 DEF Begin
<1>3. Numbers'
  BY <1>1, <1>2 DEF Numbers, Testing
<1>4. Identities'
  BY <1>2, Constants, NumberedTrivially DEF Identities
<1>5. Lengths'
  BY <1>2 DEF Lengths, Testing, Talking
<1>6. Control'
  BY <1>2 DEF Shape, Control
<1>7. QED
  BY <1>3, <1>4, <1>5, <1>6 DEF Shape

\* The bootstrap nodes have the first identities.
LEMMA BootstrapsShape ==
  ASSUME Types, Shape, SetupBootstraps
  PROVE  Shape'
<1> DEFINE bs == [i \in 1 .. Bootstraps |-> AddRoutingObject(i - 1)]
<1>1. /\ UNCHANGED <<mode, vaults, clients, total, second, list, probe, pos>>
      /\ pc = "bootstraps"
      /\ \/ pc' = (IF mode = "sanity" THEN "jav1" ELSE "vaults") /\ first' = bs
         \/ pc' = "down" /\ first' = first
  BY DEF SetupBootstraps, numbers
<1>2. /\ bs \in Seq(Nodes) /\ Len(bs) = Bootstraps
      /\ \A i \in 1 .. Bootstraps : bs[i].id = i - 1
  BY NewBootstraps
<1>3. Numbered(bs, 0)
  BY <1>2, Constants DEF Numbered
<1>4. Identities'
  BY <1>1, <1>3 DEF Shape, Identities, Numbered
<1>5. Numbers'
  BY <1>1 DEF Shape, Numbers, Testing
<1>6. Lengths'
  <2>1. Asked' = Asked /\ Asked >= Bootstraps /\ Asked \in Nat
    BY <1>1, Constants, NumberTypes DEF Asked
  <2>2. second = <<>> /\ (list # <<>> => Len(list) = total)
    BY <1>1 DEF Shape, Lengths
  <2>3. CASE pc' = "down"
    BY <1>1, <2>2, <2>3 DEF Lengths, Testing, Talking
  <2>4. CASE pc' \in {"jav1", "vaults"} /\ first' = bs
    BY <1>1, <1>2, <2>1, <2>2, <2>4, Constants DEF Lengths, Testing, Talking
  <2>5. QED
    BY <1>1, <2>3, <2>4
<1>7. Control'
  BY <1>1 DEF Shape, Control
<1>8. QED
  BY <1>4, <1>5, <1>6, <1>7 DEF Shape

\* A round of SetupRoutingNodes continues the numbers of the list, or fails.
LEMMA RoundShape ==
  ASSUME Types, NEW i \in Nat, NEW nv \in Nat,
         NEW sofar \in Seq(Nodes), NEW a \in Nat, Numbered(sofar, a),
         NEW result, NEW then,
         SetupRoutingNode(i, nv, sofar, result, then),
         (IF i < nv THEN i + Bootstraps ELSE ClientIdentity(i, nv)) = a + Len(sofar)
  PROVE  /\ Numbered(result, a)
         /\ \/ /\ result = Append(sofar, AddRoutingObject(a + Len(sofar)))
               /\ Len(result) = Len(sofar) + 1
               /\ UNCHANGED <<pc, faults>>
            \/ Fault /\ result = FailedList /\ pc' = then
         /\ running' = running \cup {AddRoutingObject(a + Len(sofar))}
<1> DEFINE node == AddRoutingObject(a + Len(sofar))
<1>1. a + Len(sofar) \in Nat
  OBVIOUS
<1>2. node \in Nodes /\ node.id = a + Len(sofar)
  BY <1>1, NewNode DEF Nodes
<1>3. /\ running' = running \cup {node}
      /\ \/ result = Append(sofar, node) /\ UNCHANGED <<pc, faults>>
         \/ Fault /\ result = FailedList /\ pc' = then
  BY DEF SetupRoutingNode
<1>4. Numbered(result, a)
  BY <1>2, <1>3, NumberedAppend, NumberedTrivially
<1>5. Len(Append(sofar, node)) = Len(sofar) + 1
  BY <1>2
<1>6. QED
  BY <1>3, <1>4, <1>5

\* A vault more, and a client in the message menu, or -1.
LEMMA VaultsShape ==
  ASSUME Types, Shape, SetupVaults
  PROVE  Shape'
<1> DEFINE i == Len(first) - Bootstraps
           then == IF mode = "sanity" THEN "jac1" ELSE "concat"
<1>1. /\ UNCHANGED <<mode, vaults, clients, total, second, list, probe, pos>>
      /\ pc = "vaults"
      /\ \/ Len(first) = Asked /\ pc' = then /\ first' = first
         \/ Len(first) < Asked /\ SetupRoutingNode(i, vaults, first, first', then)
  BY SMTT(30), Constants, NumberTypes DEF SetupVaults, numbers, Asked, Types, TypeOK
<1>2. /\ Numbered(first', 0)
      /\ \/ pc' = pc /\ Len(first') \in Bootstraps .. Asked
         \/ pc' = then /\ (first' = FailedList \/ Len(first') = Asked)
  <2>1. CASE pc' = then /\ Len(first) = Asked /\ first' = first
    BY <2>1 DEF Shape, Identities
  <2>2. CASE Len(first) < Asked /\ SetupRoutingNode(i, vaults, first, first', then)
    <3>1. /\ Numbered(first', 0)
          /\ \/ Len(first') = Len(first) + 1 /\ UNCHANGED <<pc, faults>>
             \/ Fault /\ first' = FailedList /\ pc' = then
      BY <2>2, VaultsRound, RoundShape
    <3>2. Len(first) \in Bootstraps .. Asked /\ Asked \in Nat
      BY <1>1, Constants, NumberTypes DEF Shape, Lengths, Asked
    <3>3. QED
      BY <2>2, <3>1, <3>2, Constants
  <2>3. QED
    BY <1>1, <2>1, <2>2
<1>3. Identities'
  BY <1>1, <1>2 DEF Shape, Identities, Numbered
<1>4. Numbers'
  BY <1>1, <1>2 DEF Shape, Numbers, Testing
<1>5. Lengths'
  <2>1. Asked' = Asked /\ Asked \in Nat
    BY <1>1, Constants, NumberTypes DEF Asked
  <2>2. second = <<>> /\ (list # <<>> => Len(list) = total)
    BY <1>1 DEF Shape, Lengths
  <2>3. mode # "sanity" => Len(second) = total - Asked
    BY <1>1, <2>2, Constants, NumberTypes DEF Shape, Numbers, Asked
  <2>4. QED
    BY <1>1, <1>2, <2>1, <2>2, <2>3 DEF Lengths, Testing, Talking
<1>6. Control'
  BY <1>1, <1>2 DEF Shape, Control
<1>7. QED
  BY <1>3, <1>4, <1>5, <1>6 DEF Shape

\* The clients of the sanity check follow its vaults.
LEMMA ClientsRound ==
  ASSUME Types, Shape, SetupClients
  PROVE  /\ Len(second) \in Nat /\ second \in Seq(Nodes)
         /\ Bootstraps + vaults \in Nat
         /\ Numbered(second, Bootstraps + vaults)
         /\ (IF Len(second) < 0 THEN Len(second) + Bootstraps
             ELSE ClientIdentity(Len(second), 0)) = Bootstraps + vaults + Len(second)
<1>1. Len(second) \in Nat /\ second \in Seq(Nodes)
  BY DEF Types, TypeOK
<1>2. QED
  BY <1>1, Constants, NumberTypes DEF ClientIdentity, Shape, Identities

\* A client more, or -1; the list is as long as asked for when the call is over.
LEMMA ClientsShape ==
  ASSUME Types, Shape, SetupClients
  PROVE  Shape'
<1>1. /\ UNCHANGED <<mode, vaults, clients, total, first, list, probe, pos>>
      /\ pc = "clients" /\ mode = "sanity"
      /\ \/ Len(second) = clients /\ pc' = "concat" /\ second' = second
         \/ /\ Len(second) < clients
            /\ SetupRoutingNode(Len(second), 0, second, second', "concat")
  BY DEF SetupClients, numbers, Shape, Numbers
<1>2. /\ Numbered(second', Bootstraps + vaults)
      /\ \/ pc' = pc
         \/ pc' = "concat" /\ (second' = FailedList \/ Len(second') = clients)
  <2>1. CASE Len(second) = clients /\ pc' = "concat" /\ second' = second
    BY <2>1 DEF Shape, Identities
  <2>2. CASE SetupRoutingNode(Len(second), 0, second, second', "concat")
    BY <2>2, ClientsRound, RoundShape
  <2>3. QED
    BY <1>1, <2>1, <2>2
<1>3. Identities'
  BY <1>1, <1>2 DEF Shape, Identities, Numbered
<1>4. Numbers'
  BY <1>1, <1>2 DEF Shape, Numbers, Testing
<1>5. Lengths'
  <2>1. Asked' = Asked /\ clients = total - Asked
    BY <1>1, Constants, NumberTypes DEF Asked, Shape, Numbers
  <2>2. /\ first = FailedList \/ Len(first) = Asked
        /\ list # <<>> => Len(list) = total
    BY <1>1 DEF Shape, Lengths
  <2>3. QED
    BY <1>1, <1>2, <2>1, <2>2 DEF Lengths, Testing, Talking
<1>6. Control'
  BY <1>1, <1>2 DEF Shape, Control
<1>7. QED
  BY <1>3, <1>4, <1>5, <1>6 DEF Shape

\* Lists that have not failed make a list of every node, by identity.
LEMMA ConcatShape ==
  ASSUME Types, Shape, Concat
  PROVE  Shape'
<1>1. /\ UNCHANGED <<mode, vaults, clients, total, first, second, probe, pos>>
      /\ pc = "concat"
      /\ \/ pc' = "down" /\ list' = list
         \/ /\ first # FailedList /\ second # FailedList
            /\ list' = first \o second
            /\ pc' = IF mode = "sanity" THEN "sgm1" ELSE "msg"
  BY DEF Concat, numbers, parts
<1>2. /\ Numbered(list', 0)
      /\ \/ pc' = "down" /\ list' = list
         \/ Len(list') = total
  <2>1. CASE pc' = "down" /\ list' = list
    BY <2>1 DEF Shape, Identities, Numbered
  <2>2. CASE /\ first # FailedList /\ second # FailedList
             /\ list' = first \o second
    <3>1. Len(first) = Asked /\ Len(second) = total - Asked
      BY <1>1, <2>2 DEF Shape, Lengths
    <3>2. /\ first \in Seq(Nodes) /\ second \in Seq(Nodes)
          /\ Len(first) \in Nat /\ Len(second) \in Nat
      BY DEF Types, TypeOK
    <3>3. Len(list') = Len(first) + Len(second) /\ Len(list') = total
      <4>1. Len(list') = Len(first) + Len(second)
        BY <2>2, <3>2
      <4>2. Asked \in Nat
        BY <3>1, <3>2
      <4>3. Asked + (total - Asked) = total
        BY <4>2, NumberTypes
      <4>4. QED
        BY <3>1, <4>1, <4>3
    <3>4. ASSUME NEW k \in 1 .. Len(list')
          PROVE  list'[k].id \in {-1, 0 + (k - 1)}
      <4>1. CASE k <= Len(first)
        <5>1. list'[k] = first[k] /\ k \in 1 .. Len(first)
          BY <2>2, <3>2, <3>3, <4>1
        <5>2. QED
          BY <5>1 DEF Shape, Identities, Numbered
      <4>2. CASE k > Len(first)
        <5> DEFINE j == k - Len(first)
        <5>1. list'[k] = second[j] /\ j \in 1 .. Len(second)
          BY <2>2, <3>2, <3>3, <4>2
        <5>2. second[j].id \in {-1, Bootstraps + vaults + (j - 1)}
          BY <5>1 DEF Shape, Identities, Numbered
        <5>3. Asked = Bootstraps + vaults
          <6>1. CASE mode = "sanity"
            BY <6>1, Constants, NumberTypes DEF Asked
          <6>2. CASE mode # "sanity"
            <7>1. total = Bootstraps + vaults + clients
              BY <1>1 DEF Shape, Numbers
            <7>2. Asked = total
              BY <6>2, <7>1, Constants, NumberTypes DEF Asked
            <7>3. Len(second) = 0
              BY <3>1, <7>2, NumberTypes
            <7>4. QED
              BY <5>1, <7>3
          <6>3. QED
            BY <6>1, <6>2
        <5>4. Bootstraps + vaults + (j - 1) = 0 + (k - 1)
          BY SMTT(30), <3>1, <3>2, <5>3, Constants, NumberTypes
        <5>5. QED
          BY <5>1, <5>2, <5>4
      <4>3. QED
        BY <3>2, <4>1, <4>2
    <3>5. QED
      BY <3>3, <3>4 DEF Numbered
  <2>3. QED
    BY <1>1, <2>1, <2>2
<1>3. Identities'
  BY <1>1, <1>2 DEF Shape, Identities, Numbered
<1>4. Numbers'
  BY <1>1 DEF Shape, Numbers, Testing, Types, TypeOK
<1>5. Lengths'
  <2>1. list' # <<>> => Len(list') = total
    BY <1>2 DEF Shape, Lengths
  <2>2. QED
    BY <1>1, <1>2, <2>1 DEF Lengths, Testing, Talking
<1>6. Control'
  BY <1>1 DEF Shape, Control
<1>7. QED
  BY <1>3, <1>4, <1>5, <1>6 DEF Shape

\* Steps that leave the numbers and the lists alone: the tests follow one
\* another and the menus and the end are always within reach.
Still ==
  /\ UNCHANGED <<mode, vaults, clients, total, first, second, list>>
  /\ \/ pc' \in {pc, "menu", "down"}
     \/ pc = "jav1" /\ pc' = "jav2"
     \/ pc = "jav2" /\ pc' = "vaults"
     \/ pc = "jac1" /\ pc' = "clients"
     \/ pc \in {"jac1", "recheck", "msg"} /\ pc' = "endless"
     \/ pc \in Testing /\ pc' \in Testing \cup {"stop"}
     \/ pc \in Talking /\ pc' \in Talking \cup {"stop"}

\* Such a step keeps the shape, when it starts the next part of the script as it
\* should.
LEMMA StillShape ==
  ASSUME Types, Shape, Still, Control'
  PROVE  Shape'
<1>1. Numbers'
  BY DEF Still, Shape, Numbers, Testing, Talking
<1>2. Identities'
  BY IdentitiesStill DEF Still, Shape
<1>3. Lengths'
  <2>1. Asked' = Asked /\ Bootstraps \in Bootstraps .. Asked
    BY Constants, NumberTypes DEF Still, Asked
  <2>2. QED
    BY <2>1 DEF Still, Shape, Lengths, Testing, Talking
<1>4. QED
  BY <1>1, <1>2, <1>3 DEF Shape

\* A join test has started its node, or ended it, when the script goes on.
LEMMA JoinShape ==
  ASSUME Types, Shape, JAV1 \/ JAV2 \/ JAC1
  PROVE  Shape' /\ Still
<1>1. ASSUME NEW l \in {"jav1", "jav2", "jac1"}, NEW idx, NEW then,
             l = "jav1" => then = "jav2",
             l = "jav2" => then = "vaults",
             l = "jac1" => then = "clients",
             JoinProbe(l, idx, then) \/ ExitProbe(l, then)
      PROVE  Still /\ Control'
  <2>1. Still
    BY <1>1 DEF JoinProbe, ExitProbe, numbers, parts, Still
  <2>2. Control'
    BY <1>1 DEF JoinProbe, ExitProbe, Shape, Control
  <2>3. QED
    BY <2>1, <2>2
<1>2. Still /\ Control'
  BY <1>1 DEF JAV1, JAV2, JAC1
<1>3. QED
  BY <1>2, StillShape

\* The dropped vault comes back at its place, or -1 does.
LEMMA RejoinShape ==
  ASSUME Types, Shape, JAC2Rejoin
  PROVE  Shape'
<1>1. PICK x \in {AddRoutingObject(Drop), Failed} :
             list' = [list EXCEPT ![Drop + 1] = x]
  BY DEF JAC2Rejoin
<1>2. /\ UNCHANGED <<mode, vaults, clients, total, first, second, probe, pos>>
      /\ pc = "rejoin" /\ pc' \in {"recheck", "stop"}
  BY DEF JAC2Rejoin, numbers, parts
<1>3. x.id \in {-1, Drop}
  BY Constants, NewNode, FailedIsNone
<1>4. Len(list') = Len(list) /\ Len(list) \in Nat /\ list \in Seq(Nodes)
  BY <1>1 DEF Types, TypeOK
<1>5. Numbered(list', 0)
  <2> SUFFICES ASSUME NEW k \in 1 .. Len(list')
               PROVE  list'[k].id \in {-1, 0 + (k - 1)}
    BY DEF Numbered
  <2>1. CASE k = Drop + 1
    <3>1. list'[k] = x
      BY <1>1, <1>4, <2>1
    <3>2. QED
      BY <1>3, <2>1, <3>1, Constants
  <2>2. CASE k # Drop + 1
    <3>1. list'[k] = list[k] /\ k \in 1 .. Len(list)
      BY <1>1, <1>4, <2>2
    <3>2. QED
      BY <3>1 DEF Shape, Identities, Numbered
  <2>3. QED
    BY <2>1, <2>2
<1>6. Identities'
  BY <1>2, <1>5 DEF Shape, Identities, Numbered
<1>7. Numbers'
  BY <1>2 DEF Shape, Numbers, Testing
<1>8. Lengths'
  <2>1. Len(list') = total
    BY <1>2, <1>4 DEF Shape, Lengths, Testing
  <2>2. QED
    BY <1>2, <2>1 DEF Lengths, Testing, Talking
<1>9. Control'
  BY <1>2 DEF Shape, Control
<1>10. QED
  BY <1>6, <1>7, <1>8, <1>9 DEF Shape

\* The other steps move the script only.
LEMMA OtherShape ==
  ASSUME Types, Shape,
         \/ SGM1 \/ P1 \/ JAC2Drop \/ JAC2Check \/ StopNodes \/ SendMsg
         \/ TableTimeout \/ TableEndless \/ BadIndex \/ SendForever
         \/ LeaveMsgMenu \/ Restart
         \/ \E h \in running : NodeDies(h)
         \/ UNCHANGED vars
  PROVE  Shape' /\ Still
<1> USE DEF Still, numbers, parts, Testing, Talking
<1>1. CASE SGM1 \/ P1
  <2>1. Still /\ Control'
    BY <1>1 DEF SGM1, P1, Messages, Shape, Control
  <2>2. QED
    BY <2>1, StillShape
<1>2. CASE JAC2Drop \/ JAC2Check \/ SendMsg \/ SendForever \/ LeaveMsgMenu
  <2>1. Still /\ Control'
    BY <1>2 DEF JAC2Drop, JAC2Check, SendMsg, SendForever, LeaveMsgMenu, Shape,
         Control
  <2>2. QED
    BY <2>1, StillShape
<1>3. CASE StopNodes
  <2>1. Still /\ Control'
    BY <1>3 DEF StopNodes, Shape, Control
  <2>2. QED
    BY <2>1, StillShape
<1>4. CASE TableTimeout \/ TableEndless \/ BadIndex \/ Restart
  <2>1. Still /\ Control'
    BY <1>4 DEF TableTimeout, TableEndless, BadIndex, Restart, Shape, Control
  <2>2. QED
    BY <2>1, StillShape
<1>5. CASE (\E h \in running : NodeDies(h)) \/ UNCHANGED vars
  <2>1. Still /\ Control'
    BY <1>5 DEF NodeDies, vars, Shape, Control
  <2>2. QED
    BY <2>1, StillShape
<1>6. QED
  BY <1>1, <1>2, <1>3, <1>4, <1>5

\* A step of the system keeps the shape.
LEMMA StepShape ==
  ASSUME Types, Shape, [Next]_vars
  PROVE  Shape'
BY BeginShape, BootstrapsShape, VaultsShape, ClientsShape, ConcatShape,
   JoinShape, RejoinShape, OtherShape DEF Next, Script

-----------------------------------------------------------------------------
(* The nodes that run *)

\* No two of these nodes have one identity.
Unique(S) == \A h, o \in S : h.id = o.id => h = o

\* A fault leaves its mark.
LEMMA Faultless ==
  ASSUME Types, faults' = 0
  PROVE  ~Fault
BY NumberTypes

\* One more node with an identity nobody has.
LEMMA UniqueAdd ==
  ASSUME NEW S, Unique(S), NEW x, \A h \in S : h.id # x.id
  PROVE  Unique(S \cup {x})
BY DEF Unique

\* While the lists are made, the identity after those in them is free.
LEMMA NextIsFree ==
  ASSUME Types, Shape, pc \in Joining, probe = Failed,
         running \subseteq Members(first) \cup Members(second) \cup {probe},
         NEW idx \in Nat,
         first = FailedList \/ idx >= Len(first),
         second = <<>> \/ idx = Bootstraps + vaults + Len(second)
  PROVE  \A h \in running : h.id # idx
<1> SUFFICES ASSUME NEW h \in running, h.id = idx
             PROVE  FALSE
  OBVIOUS
<1>1. h \in Processes /\ h # Failed /\ h.id # -1
  BY FailedIsNone DEF Types, TypeOK, Processes
<1>2. CASE h \in Members(first)
  <2>1. PICK k \in 1 .. Len(first) : h = first[k]
    BY <1>2 DEF Members
  <2>2. first # FailedList
    BY <1>1, <2>1, FailedIsNone
  <2>3. h.id = 0 + (k - 1)
    BY <1>1, <2>1 DEF Shape, Identities, Numbered
  <2>4. Len(first) \in Nat
    BY DEF Types, TypeOK
  <2>5. QED
    BY <2>1, <2>2, <2>3, <2>4
<1>3. CASE h \in Members(second)
  <2>1. PICK k \in 1 .. Len(second) : h = second[k]
    BY <1>3 DEF Members
  <2>2. h.id = Bootstraps + vaults + (k - 1)
    BY <1>1, <2>1 DEF Shape, Identities, Numbered
  <2>3. Len(second) \in Nat
    BY DEF Types, TypeOK
  <2>4. second # <<>>
    BY <2>1
  <2>5. QED
    BY <2>1, <2>2, <2>3, <2>4, Constants, NumberTypes
<1>4. QED
  BY <1>1, <1>2, <1>3

\* Both ways to begin start nothing.
LEMMA BeginAccounted ==
  ASSUME Types, Accounted, OneNodePerIdentity, SanityCheck \/ MsgSendingMenu
  PROVE  Accounted' /\ OneNodePerIdentity'
<1>1. PICK m, v, c : Begin(m, v, c)
  BY DEF SanityCheck, MsgSendingMenu
<1>2. faults' = 0 => faults = 0 /\ pc' = "bootstraps"
  BY <1>1, Faultless DEF Begin
<1>3. running' = running /\ pc = "menu"
  BY <1>1 DEF Begin
<1>4. QED
  BY <1>2, <1>3 DEF Accounted, OneNodePerIdentity, Joining, Testing, Talking

\* The bootstrap nodes are the first to run.
LEMMA BootstrapsAccounted ==
  ASSUME Types, Accounted, SetupBootstraps
  PROVE  Accounted' /\ OneNodePerIdentity'
<1> SUFFICES ASSUME faults' = 0
             PROVE  Accounted' /\ OneNodePerIdentity'
  BY DEF Accounted, OneNodePerIdentity
<1> DEFINE bs == [i \in 1 .. Bootstraps |-> AddRoutingObject(i - 1)]
<1>1. /\ pc = "bootstraps" /\ faults = 0
      /\ running' = running \cup {bs[i] : i \in 1 .. Bootstraps}
      /\ pc' \in {"jav1", "vaults"} /\ first' = bs
  BY Faultless DEF SetupBootstraps
<1>2. running' = {bs[i] : i \in 1 .. Bootstraps}
  BY <1>1 DEF Accounted
<1>3. Len(bs) = Bootstraps /\ \A i \in 1 .. Bootstraps : bs[i].id = i - 1
  BY NewBootstraps
<1>4. OneNodePerIdentity'
  <2> SUFFICES ASSUME NEW h \in running', NEW o \in running', h.id = o.id
               PROVE  h = o
    BY DEF OneNodePerIdentity
  <2>1. PICK i \in 1 .. Bootstraps, j \in 1 .. Bootstraps : h = bs[i] /\ o = bs[j]
    BY <1>2
  <2>2. i - 1 = j - 1
    BY <1>3, <2>1
  <2>3. QED
    BY <2>1, <2>2, Constants
<1>5. running' \subseteq Members(first')
  BY <1>1, <1>2, <1>3 DEF Members
<1>6. Accounted'
  BY <1>1, <1>5 DEF Accounted, Members, Joining, Testing, Talking
<1>7. QED
  BY <1>4, <1>6

\* The end of a list is one of its members, and the others stay.
LEMMA MembersAppend ==
  ASSUME NEW s \in Seq(Nodes), NEW x \in Nodes
  PROVE  Members(Append(s, x)) = Members(s) \cup {x}
<1>1. Len(Append(s, x)) = Len(s) + 1 /\ Len(s) \in Nat
  OBVIOUS
<1>2. \A k \in 1 .. Len(s) : Append(s, x)[k] = s[k]
  OBVIOUS
<1>3. Append(s, x)[Len(s) + 1] = x
  OBVIOUS
<1>4. \A k : k \in 1 .. Len(s) + 1 <=> k \in 1 .. Len(s) \/ k = Len(s) + 1
  BY <1>1
<1>5. QED
  BY <1>1, <1>2, <1>3, <1>4 DEF Members

\* A node more, which is entered in the list.
LEMMA VaultsAccounted ==
  ASSUME Types, Shape, Accounted, OneNodePerIdentity, SetupVaults
  PROVE  Accounted' /\ OneNodePerIdentity'
<1> SUFFICES ASSUME faults' = 0
             PROVE  Accounted' /\ OneNodePerIdentity'
  BY DEF Accounted, OneNodePerIdentity
<1> DEFINE i == Len(first) - Bootstraps
           then == IF mode = "sanity" THEN "jac1" ELSE "concat"
           node == AddRoutingObject(0 + Len(first))
<1>1. pc = "vaults" /\ UNCHANGED <<second, probe>> /\ probe = Failed
  BY DEF SetupVaults, Shape, Control
<1>2. \/ pc' = then /\ UNCHANGED <<first, running, faults>>
      \/ /\ first' = Append(first, node) /\ UNCHANGED <<pc, faults>>
         /\ running' = running \cup {node}
  <2>1. CASE SetupRoutingNode(i, vaults, first, first', then)
    BY <2>1, VaultsRound, RoundShape, Faultless
  <2>2. QED
    BY <2>1 DEF SetupVaults
<1>3. /\ faults = 0 /\ Unique(running)
      /\ running \subseteq Members(first) \cup Members(second) \cup {probe}
  BY <1>1, <1>2 DEF Accounted, OneNodePerIdentity, Unique, Joining
<1>4. CASE pc' = then /\ UNCHANGED <<first, running, faults>>
  BY <1>1, <1>3, <1>4
     DEF Accounted, OneNodePerIdentity, Unique, Members, Joining, Testing, Talking
<1>5. CASE /\ first' = Append(first, node) /\ UNCHANGED <<pc, faults>>
           /\ running' = running \cup {node}
  <2>1. Len(first) \in Nat /\ first \in Seq(Nodes) /\ second = <<>>
    BY <1>1 DEF Types, TypeOK, Shape, Lengths
  <2>2. node \in Nodes /\ node.id = Len(first)
    BY <2>1, NewNode DEF Nodes
  <2>3. \A h \in running : h.id # node.id
    BY <1>1, <1>3, <2>1, <2>2, NextIsFree DEF Joining
  <2>4. Unique(running')
    BY <1>3, <1>5, <2>3, UniqueAdd
  <2>5. Members(first') = Members(first) \cup {node}
    BY <1>5, <2>1, <2>2, MembersAppend
  <2>6. running' \subseteq Members(first') \cup Members(second) \cup {probe}
    BY <1>3, <1>5, <2>5
  <2>7. QED
    BY <1>1, <1>5, <2>4, <2>6
       DEF Accounted, OneNodePerIdentity, Unique, Members, Joining, Testing, Talking
<1>6. QED
  BY <1>2, <1>4, <1>5

\* A client more, after the vaults.
LEMMA ClientsAccounted ==
  ASSUME Types, Shape, Accounted, OneNodePerIdentity, SetupClients
  PROVE  Accounted' /\ OneNodePerIdentity'
<1> SUFFICES ASSUME faults' = 0
             PROVE  Accounted' /\ OneNodePerIdentity'
  BY DEF Accounted, OneNodePerIdentity
<1> DEFINE node == AddRoutingObject(Bootstraps + vaults + Len(second))
<1>1. pc = "clients" /\ UNCHANGED <<first, probe>> /\ probe = Failed
  BY DEF SetupClients, Shape, Control
<1>2. \/ pc' = "concat" /\ UNCHANGED <<second, running, faults>>
      \/ /\ second' = Append(second, node) /\ UNCHANGED <<pc, faults>>
         /\ running' = running \cup {node}
  <2>1. CASE SetupRoutingNode(Len(second), 0, second, second', "concat")
    BY <2>1, ClientsRound, RoundShape, Faultless
  <2>2. QED
    BY <2>1 DEF SetupClients
<1>3. /\ faults = 0 /\ Unique(running)
      /\ running \subseteq Members(first) \cup Members(second) \cup {probe}
  BY <1>1, <1>2 DEF Accounted, OneNodePerIdentity, Unique, Joining
<1>4. CASE pc' = "concat" /\ UNCHANGED <<second, running, faults>>
  BY <1>1, <1>3, <1>4
     DEF Accounted, OneNodePerIdentity, Unique, Members, Joining, Testing, Talking
<1>5. CASE /\ second' = Append(second, node) /\ UNCHANGED <<pc, faults>>
           /\ running' = running \cup {node}
  <2>1. Len(second) \in Nat /\ second \in Seq(Nodes)
    BY DEF Types, TypeOK
  <2>2. /\ Bootstraps + vaults + Len(second) \in Nat
        /\ first = FailedList \/ Bootstraps + vaults + Len(second) >= Len(first)
    <3>1. mode = "sanity" /\ (first = FailedList \/ Len(first) = Asked)
      BY <1>1 DEF Shape, Numbers, Lengths
    <3>2. Asked = Bootstraps + vaults
      BY <3>1, Constants, NumberTypes DEF Asked
    <3>3. QED
      BY <2>1, <3>1, <3>2, Constants, NumberTypes
  <2>3. node \in Nodes /\ node.id = Bootstraps + vaults + Len(second)
    BY <2>2, NewNode DEF Nodes
  <2>4. \A h \in running : h.id # node.id
    BY <1>1, <1>3, <2>2, <2>3, NextIsFree DEF Joining
  <2>5. Unique(running')
    BY <1>3, <1>5, <2>4, UniqueAdd
  <2>6. Members(second') = Members(second) \cup {node}
    BY <1>5, <2>1, <2>3, MembersAppend
  <2>7. running' \subseteq Members(first) \cup Members(second') \cup {probe}
    BY <1>3, <1>5, <2>6
  <2>8. QED
    BY <1>1, <1>5, <2>5, <2>7
       DEF Accounted, OneNodePerIdentity, Unique, Members, Joining, Testing, Talking
<1>6. QED
  BY <1>2, <1>4, <1>5

\* The lists put together hold what they held.
LEMMA ConcatAccounted ==
  ASSUME Types, Shape, Accounted, OneNodePerIdentity, Concat
  PROVE  Accounted' /\ OneNodePerIdentity'
<1> SUFFICES ASSUME faults' = 0
             PROVE  Accounted' /\ OneNodePerIdentity'
  BY DEF Accounted, OneNodePerIdentity
<1>1. /\ pc = "concat" /\ UNCHANGED <<probe, running, faults>> /\ probe = Failed
      /\ \/ pc' = "down"
         \/ pc' \in {"sgm1", "msg"} /\ list' = first \o second
  BY DEF Concat, Shape, Control
<1>2. OneNodePerIdentity'
  BY <1>1 DEF OneNodePerIdentity
<1>3. CASE pc' = "down"
  BY <1>2, <1>3 DEF Accounted, Joining, Testing, Talking
<1>4. CASE pc' \in {"sgm1", "msg"} /\ list' = first \o second
  <2>1. running \subseteq Members(first) \cup Members(second)
    BY <1>1, FailedIsNone DEF Accounted, Joining, Types, TypeOK
  <2>2. first \in Seq(Nodes) /\ second \in Seq(Nodes)
    BY DEF Types, TypeOK
  <2>3. /\ Len(first) \in Nat /\ Len(second) \in Nat
        /\ Len(list') = Len(first) + Len(second)
        /\ \A k \in 1 .. Len(first) : list'[k] = first[k]
        /\ \A k \in 1 .. Len(second) : list'[Len(first) + k] = second[k]
    BY <1>4, <2>2
  <2>4. Members(first) \subseteq Members(list')
    BY <2>3 DEF Members
  <2>5. Members(second) \subseteq Members(list')
    <3> SUFFICES ASSUME NEW k \in 1 .. Len(second)
                 PROVE  second[k] \in Members(list')
      BY DEF Members
    <3>1. Len(first) + k \in 1 .. Len(list')
      BY <2>3
    <3>2. QED
      BY <2>3, <3>1 DEF Members
  <2>6. running' \subseteq Members(list')
    BY <1>1, <2>1, <2>4, <2>5
  <2>7. QED
    BY <1>2, <1>4, <2>6 DEF Accounted, Members, Joining, Testing, Talking
<1>5. QED
  BY <1>1, <1>3, <1>4

\* The node of a join test has an identity the network does not use yet, and is
\* gone when the script goes on.
LEMMA JoinAccounted ==
  ASSUME Types, Shape, Accounted, OneNodePerIdentity, JAV1 \/ JAV2 \/ JAC1
  PROVE  Accounted' /\ OneNodePerIdentity'
<1> SUFFICES ASSUME faults' = 0
             PROVE  Accounted' /\ OneNodePerIdentity'
  BY DEF Accounted, OneNodePerIdentity
<1>1. ASSUME NEW l \in {"jav1", "jav2", "jac1"}, NEW idx \in Nat, NEW then,
             first = FailedList \/ idx >= Len(first),
             JoinProbe(l, idx, then)
      PROVE  Accounted' /\ OneNodePerIdentity'
  <2> DEFINE node == AddRoutingObject(idx)
  <2>1. /\ pc = l /\ probe = Failed /\ probe' = node
        /\ running' = running \cup {node}
        /\ UNCHANGED <<pc, faults, first, second>>
    BY <1>1, Faultless DEF JoinProbe, parts
  <2>2. /\ faults = 0 /\ Unique(running) /\ second = <<>>
        /\ running \subseteq Members(first) \cup Members(second) \cup {probe}
    BY <1>1, <2>1
       DEF Accounted, OneNodePerIdentity, Unique, Joining, Shape, Lengths
  <2>3. \A h \in running : h.id # idx
    BY <1>1, <2>1, <2>2, NextIsFree DEF Joining
  <2>4. Unique(running')
    BY <2>1, <2>2, <2>3, NewNode, UniqueAdd
  <2>5. running' \subseteq Members(first) \cup Members(second) \cup {probe'}
    <3>1. Failed \notin running
      BY FailedIsNone DEF Types, TypeOK
    <3>2. QED
      BY <2>1, <2>2, <3>1
  <2>6. QED
    BY <1>1, <2>1, <2>4, <2>5
       DEF Accounted, OneNodePerIdentity, Unique, Members, Joining, Testing, Talking
<1>2. ASSUME NEW l \in {"jav1", "jav2", "jac1"},
             NEW then \in {"jav2", "vaults", "clients"}, ExitProbe(l, then)
      PROVE  Accounted' /\ OneNodePerIdentity'
  <2>1. /\ pc = l /\ probe' = Failed
        /\ UNCHANGED <<faults, first, second>>
        /\ \/ pc' = then /\ running' = running \ {probe}
           \/ pc' = "down" /\ running' = running
    BY <1>2, Faultless DEF ExitProbe, parts
  <2>2. /\ faults = 0 /\ Unique(running)
        /\ running \subseteq Members(first) \cup Members(second) \cup {probe}
    BY <1>2, <2>1 DEF Accounted, OneNodePerIdentity, Unique, Joining
  <2>3. Unique(running')
    BY <2>1, <2>2 DEF Unique
  <2>4. pc' = then => running' \subseteq Members(first) \cup Members(second)
    BY <2>1, <2>2
  <2>5. QED
    BY <1>2, <2>1, <2>3, <2>4
       DEF Accounted, OneNodePerIdentity, Unique, Members, Joining, Testing, Talking
<1>3. /\ pc \in {"jav1", "jav2"} => Jav1 >= Len(first) /\ Jav2 >= Len(first)
      /\ pc = "jac1" => first = FailedList \/ total \div 2 + 2 >= Len(first)
  <2>1. pc \in {"jav1", "jav2"} => Jav1 >= Len(first) /\ Jav2 >= Len(first)
    BY Constants DEF Shape, Lengths
  <2>2. CASE pc = "jac1" /\ first # FailedList
    <3>1. /\ Len(first) = Asked /\ mode = "sanity"
          /\ Bootstraps + vaults = SanityNodes \div 2
          /\ total = SanityNodes
      BY <2>2 DEF Shape, Lengths, Numbers
    <3>2. Len(first) = total \div 2
      BY <3>1, Constants, NumberTypes DEF Asked
    <3>3. total \div 2 + 2 >= total \div 2
      BY NumberTypes
    <3>4. QED
      BY <2>2, <3>2, <3>3
  <2>3. QED
    BY <2>1, <2>2
<1>4. Jav1 \in Nat /\ Jav2 \in Nat /\ total \div 2 + 2 \in Nat
  BY Constants, NumberTypes
<1>5. CASE JAV1
  BY <1>1, <1>2, <1>3, <1>4, <1>5 DEF JAV1, JoinProbe
<1>6. CASE JAV2
  BY <1>1, <1>2, <1>3, <1>4, <1>6 DEF JAV2, JoinProbe
<1>7. CASE JAC1
  BY <1>1, <1>2, <1>3, <1>4, <1>7 DEF JAC1, JoinProbe
<1>8. QED
  BY <1>5, <1>6, <1>7

\* The list reaches the node JAC2 drops.
LEMMA DropIsListed ==
  ASSUME Types, Shape, pc \in Testing
  PROVE  Drop + 1 \in 1 .. Len(list)
<1>1. Len(list) = total /\ mode = "sanity" /\ total = SanityNodes
  BY DEF Shape, Lengths, Numbers, Testing
<1>2. QED
  BY <1>1, Constants

\* JAC2 drops a vault ...
LEMMA DropAccounted ==
  ASSUME Types, Accounted, OneNodePerIdentity, JAC2Drop
  PROVE  Accounted' /\ OneNodePerIdentity'
<1> SUFFICES ASSUME faults' = 0
             PROVE  Accounted' /\ OneNodePerIdentity'
  BY DEF Accounted, OneNodePerIdentity
<1>1. /\ pc = "jac2" /\ UNCHANGED <<faults, list>>
      /\ \/ pc' = "rejoin" /\ running' = running \ {list[Drop + 1]}
         \/ pc' = "down" /\ running' = running
  BY Faultless DEF JAC2Drop
<1>2. faults = 0 /\ Unique(running) /\ running \subseteq Members(list)
  BY <1>1 DEF Accounted, OneNodePerIdentity, Unique, Testing
<1>3. /\ Unique(running')
      /\ pc' = "rejoin" => running' \subseteq Members(list) \ {list[Drop + 1]}
  BY <1>1, <1>2 DEF Unique
<1>4. QED
  BY <1>1, <1>3
     DEF Accounted, OneNodePerIdentity, Unique, Members, Joining, Testing, Talking

\* ... and joins it back, when nothing else has its identity.
LEMMA RejoinAccounted ==
  ASSUME Types, Shape, Accounted, OneNodePerIdentity, JAC2Rejoin
  PROVE  Accounted' /\ OneNodePerIdentity'
<1> SUFFICES ASSUME faults' = 0
             PROVE  Accounted' /\ OneNodePerIdentity'
  BY DEF Accounted, OneNodePerIdentity
<1> DEFINE node == AddRoutingObject(Drop)
<1>1. /\ pc = "rejoin" /\ pc' = "recheck" /\ UNCHANGED faults
      /\ list' = [list EXCEPT ![Drop + 1] = node]
      /\ running' = running \cup {node}
  BY Faultless DEF JAC2Rejoin
<1>2. /\ faults = 0 /\ Unique(running)
      /\ running \subseteq Members(list) \ {list[Drop + 1]}
  BY <1>1 DEF Accounted, OneNodePerIdentity, Unique
<1>3. Drop + 1 \in 1 .. Len(list) /\ list \in Seq(Nodes)
  BY <1>1, DropIsListed DEF Testing, Types, TypeOK
<1>4. \A h \in running : h.id # Drop
  <2> SUFFICES ASSUME NEW h \in running, h.id = Drop
               PROVE  FALSE
    OBVIOUS
  <2>1. PICK k \in 1 .. Len(list) : h = list[k]
    BY <1>2 DEF Members
  <2>2. k # Drop + 1
    BY <1>2, <2>1
  <2>3. h.id \in {-1, 0 + (k - 1)}
    BY <2>1 DEF Shape, Identities, Numbered
  <2>4. QED
    BY <2>2, <2>3, Constants
<1>5. Unique(running')
  BY <1>1, <1>2, <1>4, Constants, NewNode, UniqueAdd
<1>6. running' \subseteq Members(list')
  <2>1. Len(list') = Len(list) /\ list'[Drop + 1] = node
    BY <1>1, <1>3
  <2>2. node \in Members(list')
    BY <1>3, <2>1 DEF Members
  <2>3. ASSUME NEW h \in running
        PROVE  h \in Members(list')
    <3>1. PICK k \in 1 .. Len(list) : h = list[k] /\ k # Drop + 1
      BY <1>2, <2>3 DEF Members
    <3>2. list'[k] = h
      BY <1>1, <1>3, <3>1
    <3>3. QED
      BY <2>1, <3>1, <3>2 DEF Members
  <2>4. QED
    BY <1>1, <2>2, <2>3
<1>7. QED
  BY <1>1, <1>5, <1>6
     DEF Accounted, OneNodePerIdentity, Unique, Members, Joining, Testing, Talking

\* StopNodes stops the first of those that are left.
LEMMA StopAccounted ==
  ASSUME Types, Accounted, OneNodePerIdentity, StopNodes
  PROVE  Accounted' /\ OneNodePerIdentity'
<1> SUFFICES ASSUME faults' = 0
             PROVE  Accounted' /\ OneNodePerIdentity'
  BY DEF Accounted, OneNodePerIdentity
<1>1. /\ pc = "stop" /\ UNCHANGED <<faults, list>>
      /\ \/ pos > Len(list) /\ pc' = "menu" /\ running' = running
         \/ pos' = pos + 1 /\ running' = running \ {list[pos]} /\ pc' = pc
         \/ pc' = "down" /\ running' = running
  BY Faultless DEF StopNodes
<1>2. /\ faults = 0 /\ Unique(running)
      /\ running \subseteq {list[k] : k \in pos .. Len(list)}
  BY <1>1 DEF Accounted, OneNodePerIdentity, Unique
<1>3. Unique(running')
  BY <1>1, <1>2 DEF Unique
<1>4. pos \in Nat /\ Len(list) \in Nat
  BY NumberTypes DEF Types, TypeOK
<1>5. /\ pc' = "menu" => running' = {}
      /\ pc' = "stop" => running' \subseteq {list[k] : k \in pos' .. Len(list)}
  <2>1. CASE pos > Len(list) /\ pc' = "menu" /\ running' = running
    <3>1. pos .. Len(list) = {}
      BY <1>4, <2>1
    <3>2. QED
      BY <1>2, <2>1, <3>1
  <2>2. CASE pos' = pos + 1 /\ running' = running \ {list[pos]} /\ pc' = pc
    <3> SUFFICES ASSUME NEW h \in running'
                 PROVE  h \in {list[k] : k \in pos' .. Len(list)}
      BY <1>1, <2>2
    <3>1. PICK k \in pos .. Len(list) : h = list[k]
      BY <1>2, <2>2
    <3>2. k \in pos' .. Len(list)
      BY <1>4, <2>2, <3>1
    <3>3. QED
      BY <3>1, <3>2
  <2>3. QED
    BY <1>1, <2>1, <2>2
<1>6. QED
  BY <1>1, <1>3, <1>5
     DEF Accounted, OneNodePerIdentity, Unique, Joining, Testing, Talking

\* The tests and the menu leave the nodes alone; a node that dies, a time-out
\* and a restart are faults.
LEMMA OtherAccounted ==
  ASSUME Types, Shape, Accounted, OneNodePerIdentity,
         \/ SGM1 \/ P1 \/ JAC2Check \/ SendMsg
         \/ TableTimeout \/ TableEndless \/ BadIndex \/ SendForever
         \/ LeaveMsgMenu \/ Restart
         \/ \E h \in running : NodeDies(h)
         \/ UNCHANGED vars
  PROVE  Accounted' /\ OneNodePerIdentity'
<1> SUFFICES ASSUME faults' = 0
             PROVE  Accounted' /\ OneNodePerIdentity'
  BY DEF Accounted, OneNodePerIdentity
<1>1. CASE \/ TableTimeout \/ TableEndless \/ BadIndex \/ Restart
           \/ \E h \in running : NodeDies(h)
  BY <1>1, Faultless DEF TableTimeout, TableEndless, BadIndex, Restart, NodeDies
<1>2. CASE UNCHANGED vars
  BY <1>2 DEF vars, parts, Accounted, OneNodePerIdentity, Members
<1>3. CASE \/ SGM1 \/ P1 \/ JAC2Check \/ SendMsg \/ SendForever \/ LeaveMsgMenu
  <2>1. /\ UNCHANGED <<faults, running, list, pos>>
        /\ pc \in (Testing \ {"rejoin"}) \cup Talking
        /\ pc' \in (Testing \ {"rejoin"}) \cup Talking \cup {"stop", "down"}
    BY <1>3 DEF SGM1, P1, Messages, JAC2Check, SendMsg, SendForever,
         LeaveMsgMenu, Testing, Talking
  <2>2. pos = 1
    BY <2>1 DEF Shape, Control, Testing, Talking
  <2>3. running \subseteq Members(list)
    BY <2>1 DEF Accounted
  <2>4. QED
    BY <2>1, <2>2, <2>3
       DEF Accounted, OneNodePerIdentity, Members, Joining, Testing, Talking
<1>4. QED
  BY <1>1, <1>2, <1>3

\* A step of the system accounts for its nodes.
LEMMA StepAccounted ==
  ASSUME Types, Shape, Accounted, OneNodePerIdentity, [Next]_vars
  PROVE  Accounted' /\ OneNodePerIdentity'
BY BeginAccounted, BootstrapsAccounted, VaultsAccounted, ClientsAccounted,
   ConcatAccounted, JoinAccounted, DropAccounted, RejoinAccounted,
   StopAccounted, OtherAccounted DEF Next, Script

-----------------------------------------------------------------------------
(* Drawing a destination *)

\* There is no destination but the source only where the lower half of the
\* identities is at most one; while SendDirectMsg draws, num_of_nodes stays.
LEMMA StepHangs ==
  ASSUME Types, HangsOnlyWhenTiny, [Next]_vars
  PROVE  HangsOnlyWhenTiny'
<1> SUFFICES ASSUME pc' = "hang"
             PROVE  total' < 4
  BY DEF HangsOnlyWhenTiny
<1>1. total \in Nat
  BY NumberTypes
<1>2. CASE SendMsg
  <2>1. PICK source \in 0 .. total - 1 : Destinations(source) = {}
    BY <1>2 DEF SendMsg
  <2>2. ASSUME total >= 4
        PROVE  FALSE
    <3>1. total \div 2 - 1 >= 1 /\ total \div 2 \in Nat
      BY <1>1, <2>2
    <3>2. 0 \in 0 .. total \div 2 - 1 /\ 1 \in 0 .. total \div 2 - 1
      BY <3>1
    <3>3. QED
      BY <2>1, <3>2 DEF Destinations
  <2>3. total' = total
    BY <1>2 DEF SendMsg, numbers
  <2>4. QED
    BY <1>1, <2>2, <2>3
<1>3. CASE pc = "hang" /\ total' = total
  BY <1>3 DEF HangsOnlyWhenTiny
<1>4. CASE UNCHANGED vars
  BY <1>3, <1>4 DEF vars, numbers
<1>5. CASE \E h \in running : NodeDies(h)
  BY <1>3, <1>5 DEF NodeDies, numbers
<1>6. CASE SanityCheck \/ MsgSendingMenu
  BY <1>6 DEF SanityCheck, MsgSendingMenu, Begin
<1>7. CASE SetupBootstraps \/ SetupVaults \/ SetupClients \/ Concat
  BY <1>7 DEF SetupBootstraps, SetupVaults, SetupClients, Concat, SetupRoutingNode
<1>8. CASE JAV1 \/ JAV2 \/ JAC1 \/ SGM1 \/ P1
  BY <1>8 DEF JAV1, JAV2, JAC1, JoinProbe, ExitProbe, SGM1, P1, Messages
<1>9. CASE JAC2Drop \/ JAC2Rejoin \/ JAC2Check \/ StopNodes
  BY <1>9 DEF JAC2Drop, JAC2Rejoin, JAC2Check, StopNodes
<1>10. CASE \/ TableTimeout \/ TableEndless \/ BadIndex \/ SendForever \/ LeaveMsgMenu
            \/ Restart
  BY <1>10 DEF TableTimeout, TableEndless, BadIndex, SendForever, LeaveMsgMenu, Restart
<1>11. QED
  BY <1>2, <1>4, <1>5, <1>6, <1>7, <1>8, <1>9, <1>10 DEF Next, Script

-----------------------------------------------------------------------------
(* The theorems *)

\* The invariant holds in every reachable state.
LEMMA RoutingAlways == Spec => []RoutingInv
<1>1. Init => RoutingInv
  <2> SUFFICES ASSUME Init
               PROVE  RoutingInv
    OBVIOUS
  <2>1. Types
    BY Constants, FailedIsNone, FS_EmptySet DEF Init, Types, TypeOK
  <2>2. Identities
    BY Constants, NumberedTrivially DEF Init, Identities
  <2>3. Numbers /\ Lengths /\ Control
    BY DEF Init, Numbers, Lengths, Control, Testing, Talking
  <2>4. Accounted /\ OneNodePerIdentity /\ HangsOnlyWhenTiny
    BY DEF Init, Accounted, OneNodePerIdentity, HangsOnlyWhenTiny, Joining,
       Testing, Talking
  <2>5. QED
    BY <2>1, <2>2, <2>3, <2>4 DEF RoutingInv, Shape
<1>2. RoutingInv /\ [Next]_vars => RoutingInv'
  BY StepTypes, StepShape, StepAccounted, StepHangs DEF RoutingInv
<1>3. QED
  BY <1>1, <1>2, PTL DEF Spec

\* The lists of routing.py hold nodes and -1, never more clients than were asked
\* for, and what runs are processes the script started.
THEOREM RoutingTypes == Spec => []TypeOK
<1>1. RoutingInv => TypeOK
  BY DEF RoutingInv, Types
<1>2. QED
  BY <1>1, RoutingAlways, PTL

\* For every size of the network, position k of p_nodes is identity k or -1: the
\* three calls of SetupRoutingNodes and JAC2 agree on how nodes are numbered.
THEOREM PositionsAreIdentities == Spec => []Aligned
<1>1. RoutingInv => Aligned
  <2> SUFFICES ASSUME RoutingInv, list # <<>>
               PROVE  /\ Len(list) = total
                      /\ \A k \in 1 .. Len(list) : list[k].id \in {-1, k - 1}
    BY DEF Aligned
  <2>1. Len(list) = total /\ Numbered(list, 0)
    BY DEF RoutingInv, Shape, Lengths, Identities
  <2>2. total \in Nat
    BY NumberTypes DEF RoutingInv
  <2>3. QED
    BY <2>1, <2>2 DEF Numbered
<1>2. QED
  BY <1>1, RoutingAlways, PTL

\* Where nothing has failed, no identity runs twice: the nodes of JAV1, JAV2 and
\* JAC1 and the vault JAC2 drops are gone before their identity is used again.
THEOREM IdentitiesAreUnique == Spec => []OneNodePerIdentity
<1>1. RoutingInv => OneNodePerIdentity
  BY DEF RoutingInv
<1>2. QED
  BY <1>1, RoutingAlways, PTL

\* Where nothing has failed, the script returns to its menu with every node
\* stopped.
THEOREM NothingLeftRunning == Spec => []CleanExit
<1>1. RoutingInv => CleanExit
  BY DEF RoutingInv, Accounted, CleanExit
<1>2. QED
  BY <1>1, RoutingAlways, PTL

\* SendDirectMsg draws for ever only in a network of fewer than four nodes.
THEOREM DrawingEnds == Spec => []HangsOnlyWhenTiny
<1>1. RoutingInv => HangsOnlyWhenTiny
  BY DEF RoutingInv
<1>2. QED
  BY <1>1, RoutingAlways, PTL

=============================================================================
