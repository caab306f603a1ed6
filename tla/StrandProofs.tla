---------------------------- MODULE StrandProofs ----------------------------
(***************************************************************************)
(* The right to run the functions of a strand is held by one frame of one  *)
(* call stack or by one invoker in the executor, and functions are started *)
(* in the order in which they were accepted: for every pool of threads,    *)
(* every set of strands and every number of functions.                     *)
(*                                                                         *)
(* OneHolder counts actors and is not inductive: an actor could hold a     *)
(* strand in two frames of its stack and give up one.  The invariant is    *)
(* about places in stacks (Spots), of which a locked strand has one.       *)
(* InOrder needs that nothing is ready while the function that took the    *)
(* strand is on its way to the ready queue (First).                        *)
(*                                                                         *)
(* With these the strands implement SerialExecutor.  The queue it sees is  *)
(* what has been accepted less what has been started (PendingFollows), so  *)
(* that a step is judged by those two histories alone and not by the lists *)
(* it moves functions between.  And the functions in execution are nested  *)
(* in one stack: every function runs inside an invoker of its strand, and  *)
(* an invoker that is not innermost has called a function of its strand    *)
(* (ShapeInv); with one holder per strand this gives the owner.            *)
(***************************************************************************)
EXTENDS Strand, SequenceTheorems, FiniteSetTheorems, TLAPS

-----------------------------------------------------------------------------
(* Call stacks *)

Frame == SubmitFrames \cup InvokerFrames \cup FunctionFrames

\* What is below the innermost frame.
LEMMA Belows ==
  ASSUME TypeOK, NEW a \in Actors, Busy(a)
  PROVE  /\ Len(stack[a]) \in Nat \ {0}
         /\ Top(a) \in Frame
         /\ Below(a) \in Seq(Frame)
         /\ Len(Below(a)) = Len(stack[a]) - 1
         /\ \A i \in 1 .. Len(stack[a]) - 1 : Below(a)[i] = stack[a][i]
<1>1. stack[a] \in Seq(Frame)
  BY DEF TypeOK, Frame
<1>2. Len(stack[a]) \in Nat \ {0}
  BY <1>1, EmptySeq DEF Busy
<1>3. \A i \in 1 .. Len(stack[a]) : stack[a][i] \in Frame
  BY <1>1, ElementOfSeq
<1>4. /\ SubSeq(stack[a], 1, Len(stack[a]) - 1) \in Seq(Frame)
      /\ Len(SubSeq(stack[a], 1, Len(stack[a]) - 1)) = Len(stack[a]) - 1
      /\ \A i \in 1 .. Len(stack[a]) - 1 :
           SubSeq(stack[a], 1, Len(stack[a]) - 1)[i] = stack[a][i]
  BY <1>2, <1>3, SubSeqProperties
<1> QED
  BY <1>1, <1>2, <1>3, <1>4 DEF Top, Below

\* A call puts a frame on the stack of one actor.
LEMMA Calls ==
  ASSUME TypeOK, NEW a \in Actors, NEW frame \in Frame, Call(a, frame)
  PROVE  /\ stack' \in [Actors -> Seq(Frame)]
         /\ \A b \in Actors \ {a} : stack'[b] = stack[b]
         /\ Len(stack'[a]) = Len(stack[a]) + 1
         /\ \A i \in 1 .. Len(stack[a]) : stack'[a][i] = stack[a][i]
         /\ stack'[a][Len(stack[a]) + 1] = frame
<1>1. stack \in [Actors -> Seq(Frame)]
  BY DEF TypeOK, Frame
<1>2. stack'[a] = Append(stack[a], frame) /\ \A b \in Actors \ {a} : stack'[b] = stack[b]
  BY <1>1 DEF Call
<1>3. stack'[a] \in Seq(Frame)
  BY <1>1, <1>2
<1>4. stack' \in [Actors -> Seq(Frame)]
  BY <1>1 DEF Call
<1> QED
  BY <1>1, <1>2, <1>3, <1>4

\* A return takes the innermost frame off.
LEMMA Returns ==
  ASSUME TypeOK, NEW a \in Actors, Busy(a), Return(a)
  PROVE  /\ stack' \in [Actors -> Seq(Frame)]
         /\ \A b \in Actors \ {a} : stack'[b] = stack[b]
         /\ Len(stack'[a]) = Len(stack[a]) - 1
         /\ \A i \in 1 .. Len(stack[a]) - 1 : stack'[a][i] = stack[a][i]
<1>1. stack \in [Actors -> Seq(Frame)]
  BY DEF TypeOK, Frame
<1> QED
  BY <1>1, Belows DEF Return

\* The innermost frame is replaced by another one.
LEMMA Becomes ==
  ASSUME TypeOK, NEW a \in Actors, NEW frame \in Frame, Busy(a), Become(a, frame)
  PROVE  /\ stack' \in [Actors -> Seq(Frame)]
         /\ \A b \in Actors \ {a} : stack'[b] = stack[b]
         /\ Len(stack'[a]) = Len(stack[a])
         /\ \A i \in 1 .. Len(stack[a]) - 1 : stack'[a][i] = stack[a][i]
         /\ stack'[a][Len(stack[a])] = frame
<1>1. stack \in [Actors -> Seq(Frame)]
  BY DEF TypeOK, Frame
<1>2. stack'[a] = Append(Below(a), frame) /\ \A b \in Actors \ {a} : stack'[b] = stack[b]
  BY <1>1 DEF Become
<1>3. Append(Below(a), frame) \in Seq(Frame)
  BY Belows
<1>4. stack' \in [Actors -> Seq(Frame)]
  BY <1>1, <1>3 DEF Become
<1> QED
  BY <1>1, <1>2, <1>4, Belows

-----------------------------------------------------------------------------
(* Types *)

\* What the top frame is follows from where it is.
LEMMA TopTypes ==
  ASSUME TypeOK, NEW a \in Actors, Busy(a)
  PROVE  /\ Top(a).s \in Strands
         /\ Top(a).at \in {"lock", "push", "schedule"} => Top(a) \in SubmitFrames
         /\ Top(a).at \in {"run", "exit", "repost"} => Top(a) \in InvokerFrames
BY Belows DEF Frame, SubmitFrames, InvokerFrames, FunctionFrames

\* A submission goes from one label to another.
LEMMA NextSubmitFrame ==
  ASSUME NEW frame \in SubmitFrames, NEW l \in {"lock", "push", "schedule"}
  PROVE  /\ [frame EXCEPT !.at = l] \in SubmitFrames
         /\ [frame EXCEPT !.at = l] \in Frame
         /\ [frame EXCEPT !.at = l].at = l
         /\ [frame EXCEPT !.at = l].s = frame.s
         /\ [frame EXCEPT !.at = l].f = frame.f
BY DEF SubmitFrames, Frame

\* An invoker goes from one label to another.
LEMMA NextInvokerFrame ==
  ASSUME NEW frame \in InvokerFrames, NEW l \in {"run", "exit", "repost"}
  PROVE  /\ [frame EXCEPT !.at = l] \in InvokerFrames
         /\ [frame EXCEPT !.at = l] \in Frame
         /\ [frame EXCEPT !.at = l].at = l
         /\ [frame EXCEPT !.at = l].s = frame.s
BY DEF InvokerFrames, Frame

\* The quota keeps the numbers of functions in Functions.
LEMMA NextFunction ==
  ASSUME TypeOK, NEW a \in Actors, NEW s \in Strands, NEW how \in Kinds, Submit(a, s, how)
  PROVE  /\ submitted[s] + 1 \in Functions
         /\ submitted' \in [Strands -> Nat]
<1>1. submitted'[s] = submitted[s] + 1 /\ submitted' \in [Strands -> Nat]
  BY DEF TypeOK, Submit
<1>2. PICK q \in Quotas : \A x \in Strands : submitted'[x] <= q[x]
  BY DEF Submit
<1>3. submitted[s] + 1 \in 1 .. q[s]
  BY <1>1, <1>2, StrandAssumption DEF TypeOK
<1> DEFINE Ranges == {1 .. r[t] : r \in Quotas, t \in Strands}
<1>4. 1 .. q[s] \in Ranges
  BY <1>2
<1>5. submitted[s] + 1 \in UNION Ranges
  <2> HIDE DEF Ranges
  <2>1. \A x, S : x \in S /\ S \in Ranges => x \in UNION Ranges
    OBVIOUS
  <2> QED
    BY <1>3, <1>4, <2>1
<1> QED
  BY <1>1, <1>5 DEF Functions

\* Invokers, functions and submissions are frames.
LEMMA NewFrames ==
  ASSUME NEW s \in Strands
  PROVE  /\ InvokerOf(s) \in Frame
         /\ \A f \in Functions :
              /\ FunctionOf(s, f) \in Frame
              /\ \A how \in Kinds :
                   [at |-> "lock", s |-> s, f |-> f, how |-> how] \in Frame
BY DEF InvokerOf, FunctionOf, Frame, SubmitFrames, InvokerFrames, FunctionFrames

\* Every step keeps the types.
LEMMA TypeKept == TypeOK /\ [Next]_vars => TypeOK'
<1> SUFFICES ASSUME TypeOK, [Next]_vars PROVE TypeOK'
  OBVIOUS
<1>f. Frame = SubmitFrames \cup InvokerFrames \cup FunctionFrames
  BY DEF Frame
<1>1. ASSUME NEW a \in Actors, NEW s \in Strands, NEW how \in Kinds, Submit(a, s, how)
      PROVE  TypeOK'
  <2>1. \E frame \in Frame : Call(a, frame)
    BY <1>1, NextFunction, NewFrames DEF Submit
  <2>2. stack' \in [Actors -> Seq(Frame)]
    BY <2>1, Calls
  <2> QED
    BY <1>1, <1>f, <2>2, NextFunction DEF TypeOK, Submit, queues, history
<1>2. ASSUME NEW a \in Actors, Enqueue(a) PROVE TypeOK'
  <2>1. Busy(a) /\ Top(a) \in SubmitFrames /\ Top(a).s \in Strands /\ Top(a).f \in Functions
    BY <1>2, TopTypes DEF Enqueue, At, SubmitFrames
  <2>2. Return(a) \/ Goto(a, "push")
    BY <1>2 DEF Enqueue
  <2>3. stack' \in [Actors -> Seq(Frame)]
    BY <2>1, <2>2, NextSubmitFrame, Returns, Becomes DEF Goto
  <2>4. /\ accepted' \in [Strands -> Seq(Functions)]
        /\ waiting' \in [Strands -> Seq(Functions)]
        /\ locked' \in [Strands -> BOOLEAN]
    <3> DEFINE s == Top(a).s
               f == Top(a).f
    <3>1. accepted' = [accepted EXCEPT ![s] = Append(@, f)]
      BY <1>2 DEF Enqueue
    <3>2. \/ waiting' = [waiting EXCEPT ![s] = Append(@, f)] /\ UNCHANGED locked
          \/ locked' = [locked EXCEPT ![s] = TRUE] /\ UNCHANGED waiting
      BY <1>2 DEF Enqueue
    <3>3. s \in Strands /\ f \in Functions
      BY <2>1
    <3> HIDE DEF s, f
    <3>4. \A q \in Seq(Functions) : Append(q, f) \in Seq(Functions)
      BY <3>3, AppendProperties
    <3>5. /\ accepted \in [Strands -> Seq(Functions)]
          /\ waiting \in [Strands -> Seq(Functions)]
          /\ locked \in [Strands -> BOOLEAN]
      BY DEF TypeOK
    <3> QED
      BY <3>1, <3>2, <3>3, <3>4, <3>5
  <2> QED
    BY <1>2, <1>f, <2>3, <2>4 DEF TypeOK, Enqueue
<1>3. ASSUME NEW a \in Actors, Push(a) PROVE TypeOK'
  <2>1. Busy(a) /\ Top(a) \in SubmitFrames /\ Top(a).s \in Strands /\ Top(a).f \in Functions
    BY <1>3, TopTypes DEF Push, At, SubmitFrames
  <2>2. stack' \in [Actors -> Seq(Frame)]
    BY <1>3, <2>1, NextSubmitFrame, Becomes DEF Goto, Push
  <2> QED
    BY SMTT(30), <1>3, <1>f, <2>1, <2>2 DEF TypeOK, Push, history
<1>4. ASSUME NEW a \in Actors, Schedule(a) PROVE TypeOK'
  <2>1. Busy(a) /\ Top(a).s \in Strands
    BY <1>4, TopTypes DEF Schedule, At
  <2>2. Return(a) \/ Become(a, InvokerOf(Top(a).s))
    BY <1>4 DEF Schedule
  <2>3. stack' \in [Actors -> Seq(Frame)]
    BY <2>1, <2>2, NewFrames, Returns, Becomes
  <2>4. scheduled' \in [Strands -> Nat]
    <3> DEFINE s == Top(a).s
    <3>1. scheduled' = [scheduled EXCEPT ![s] = @ + 1] \/ UNCHANGED scheduled
      BY <1>4 DEF Schedule
    <3>2. s \in Strands
      BY <2>1
    <3> HIDE DEF s
    <3> QED
      BY <3>1, <3>2 DEF TypeOK
  <2> QED
    BY <1>4, <1>f, <2>3, <2>4 DEF TypeOK, Schedule, queues, history
<1>5. ASSUME NEW a \in Actors, NEW s \in Strands, Invoke(a, s) PROVE TypeOK'
  <2>1. stack' \in [Actors -> Seq(Frame)]
    BY <1>5, NewFrames, Calls DEF Invoke
  <2>2. scheduled' \in [Strands -> Nat]
    BY <1>5 DEF TypeOK, Invoke
  <2> QED
    BY <1>5, <1>f, <2>1, <2>2 DEF TypeOK, Invoke, queues, history
<1>6. ASSUME NEW a \in Actors, RunReady(a) PROVE TypeOK'
  <2> DEFINE s == Top(a).s
  <2>1. Busy(a) /\ Top(a) \in InvokerFrames /\ s \in Strands
    BY <1>6, TopTypes DEF RunReady, At
  <2>2. ready[s] # <<>> => Head(ready[s]) \in Functions /\ Tail(ready[s]) \in Seq(Functions)
    BY <2>1, HeadTailProperties DEF TypeOK
  <2>3. \/ ready[s] # <<>> /\ Call(a, FunctionOf(s, Head(ready[s])))
        \/ Goto(a, "exit")
    BY <1>6 DEF RunReady
  <2>4. stack' \in [Actors -> Seq(Frame)]
    BY <2>1, <2>2, <2>3, NewFrames, NextInvokerFrame, Calls, Becomes DEF Goto
  <2>5. ready' \in [Strands -> Seq(Functions)] /\ started' \in [Strands -> Seq(Functions)]
    <3>1. \/ /\ ready[s] # <<>>
             /\ ready' = [ready EXCEPT ![s] = Tail(@)]
             /\ started' = [started EXCEPT ![s] = Append(@, Head(ready[s]))]
          \/ UNCHANGED <<ready, started>>
      BY <1>6 DEF RunReady
    <3>2. s \in Strands
      BY <2>1
    <3> HIDE DEF s
    <3>3. \A q \in Seq(Functions) :
            ready[s] # <<>> => Append(q, Head(ready[s])) \in Seq(Functions)
      BY <2>2, AppendProperties
    <3>4. ready \in [Strands -> Seq(Functions)] /\ started \in [Strands -> Seq(Functions)]
      BY DEF TypeOK
    <3> QED
      BY <2>2, <3>1, <3>2, <3>3, <3>4
  <2> QED
    BY <1>6, <1>f, <2>4, <2>5 DEF TypeOK, RunReady
<1>7. ASSUME NEW a \in Actors, Exit(a) PROVE TypeOK'
  <2>1. Busy(a) /\ Top(a) \in InvokerFrames /\ Top(a).s \in Strands
    BY <1>7, TopTypes DEF Exit, At
  <2>2. Return(a) \/ Goto(a, "repost")
    BY <1>7 DEF Exit
  <2>3. stack' \in [Actors -> Seq(Frame)]
    BY <2>1, <2>2, NextInvokerFrame, Returns, Becomes DEF Goto
  <2>4. ready[Top(a).s] \o waiting[Top(a).s] \in Seq(Functions) /\ <<>> \in Seq(Functions)
    BY <2>1, ConcatProperties, EmptySeq DEF TypeOK
  <2>5. /\ ready' \in [Strands -> Seq(Functions)]
        /\ waiting' \in [Strands -> Seq(Functions)]
        /\ locked' \in [Strands -> BOOLEAN]
    BY <1>7, <2>1, <2>4 DEF TypeOK, Exit
  <2> QED
    BY <1>7, <1>f, <2>3, <2>5 DEF TypeOK, Exit, history
<1>8. ASSUME NEW a \in Actors, Repost(a) PROVE TypeOK'
  <2>1. Busy(a) /\ Top(a).s \in Strands
    BY <1>8, TopTypes DEF Repost, At
  <2>2. stack' \in [Actors -> Seq(Frame)]
    BY <1>8, <2>1, Returns DEF Repost
  <2>3. scheduled' \in [Strands -> Nat]
    <3> DEFINE s == Top(a).s
    <3>1. scheduled' = [scheduled EXCEPT ![s] = @ + 1]
      BY <1>8 DEF Repost
    <3>2. s \in Strands
      BY <2>1
    <3> HIDE DEF s
    <3> QED
      BY <3>1, <3>2 DEF TypeOK
  <2> QED
    BY <1>8, <1>f, <2>2, <2>3 DEF TypeOK, Repost, queues, history
<1>9. ASSUME NEW a \in Actors, Complete(a) PROVE TypeOK'
  <2>1. stack' \in [Actors -> Seq(Frame)]
    BY <1>9, Returns DEF Complete, At
  <2> QED
    BY <1>9, <1>f, <2>1 DEF TypeOK, Complete, queues, history
<1>10. ASSUME NEW a \in Actors, Throw(a) PROVE TypeOK'
  <2>1. stack' \in [Actors -> Seq(Frame)]
    BY <1>10, Returns DEF Throw, At
  <2> QED
    BY <1>10, <1>f, <2>1 DEF TypeOK, Throw, queues, history
<1>11. ASSUME NEW a \in Actors, Unwind(a) PROVE TypeOK'
  <2>1. CASE At(a, "run") /\ Goto(a, "exit") /\ UNCHANGED throwing
    <3>1. stack' \in [Actors -> Seq(Frame)]
      BY <2>1, TopTypes, NextInvokerFrame, Becomes DEF Goto, At
    <3> QED
      BY <1>11, <1>f, <2>1, <3>1 DEF TypeOK, Unwind, queues, history
  <2>2. CASE At(a, "fn") /\ Return(a) /\ UNCHANGED throwing
    <3>1. stack' \in [Actors -> Seq(Frame)]
      BY <2>2, Returns DEF At
    <3> QED
      BY <1>11, <1>f, <2>2, <3>1 DEF TypeOK, Unwind, queues, history
  <2>3. CASE throwing' = [throwing EXCEPT ![a] = FALSE] /\ UNCHANGED stack
    BY <1>11, <2>3 DEF TypeOK, Unwind, queues, history
  <2> QED
    BY <1>11, <2>1, <2>2, <2>3 DEF Unwind
<1>12. CASE Shutdown
  BY <1>12, EmptySeq DEF TypeOK, Shutdown, history
<1>13. CASE UNCHANGED vars
  BY <1>13 DEF TypeOK, vars, queues, history
<1> QED
  BY <1>1, <1>2, <1>3, <1>4, <1>5, <1>6, <1>7, <1>8, <1>9, <1>10, <1>11, <1>12, <1>13
  DEF Next, Step

\* The initial state is well typed.
LEMMA TypeInit == Init => TypeOK
<1>1. <<>> \in Seq(Functions) /\ <<>> \in Seq(SubmitFrames \cup InvokerFrames \cup FunctionFrames)
  BY EmptySeq
<1>2. ASSUME Init PROVE TypeOK
  BY <1>1, <1>2 DEF Init, TypeOK
<1> QED
  BY <1>2

\* The queues hold functions, the stacks frames, for every pool and every quota.
THEOREM TypeCorrect == Spec => []TypeOK
BY TypeInit, TypeKept, PTL DEF Spec

-----------------------------------------------------------------------------
(* Where the frames of a strand are *)

\* The places in the stacks stk of the frames of s at one of the labels L.
Spots(stk, s, L) ==
  {p \in Actors \X Nat : /\ p[2] \in 1 .. Len(stk[p[1]])
                         /\ stk[p[1]][p[2]].s = s
                         /\ stk[p[1]][p[2]].at \in L}

\* Where an actor is that is responsible for the strand of its frame.
HoldingAt == {"push", "schedule", "run", "exit", "repost"}
Holders(s) == Spots(stack, s, HoldingAt)
Pushers(s) == Spots(stack, s, {"push"})

\* A set of places is known when its pairs are.
LEMMA SpotsEqual ==
  ASSUME NEW stk, NEW s, NEW L, NEW P \in SUBSET (Actors \X Nat),
         \A a \in Actors, i \in Nat : <<a, i>> \in Spots(stk, s, L) <=> <<a, i>> \in P
  PROVE  Spots(stk, s, L) = P
BY DEF Spots

\* What is at a place.
LEMMA SpotMember ==
  ASSUME NEW stk, NEW s, NEW L, NEW a, NEW i, <<a, i>> \in Spots(stk, s, L)
  PROVE  i \in 1 .. Len(stk[a]) /\ stk[a][i].s = s /\ stk[a][i].at \in L
BY DEF Spots

\* A place is an actor and a position in its stack.
LEMMA SpotPairs ==
  ASSUME NEW stk, NEW s, NEW L
  PROVE  Spots(stk, s, L) \in SUBSET (Actors \X Nat)
BY DEF Spots

\* Whether the innermost frame of a stack is one of those looked for.
LEMMA TopSpot ==
  ASSUME TypeOK, NEW a \in Actors, Busy(a), NEW s, NEW L
  PROVE  <<a, Len(stack[a])>> \in Spots(stack, s, L) <=> Top(a).s = s /\ Top(a).at \in L
<1>1. Len(stack[a]) \in Nat /\ Len(stack[a]) \in 1 .. Len(stack[a])
  BY Belows
<1> QED
  BY <1>1 DEF Top, Spots

\* A call adds at most the place of its frame.
LEMMA CallSpots ==
  ASSUME TypeOK, NEW a \in Actors, NEW frame \in Frame, Call(a, frame), NEW s, NEW L
  PROVE  /\ Spots(stack', s, L) = Spots(stack, s, L) \cup
              (IF frame.s = s /\ frame.at \in L THEN {<<a, Len(stack[a]) + 1>>} ELSE {})
         /\ \A p \in Spots(stack, s, L) : stack'[p[1]][p[2]] = stack[p[1]][p[2]]
<1> DEFINE New == IF frame.s = s /\ frame.at \in L THEN {<<a, Len(stack[a]) + 1>>} ELSE {}
<1>1. Len(stack[a]) \in Nat
  BY LenProperties DEF TypeOK
<1>2. Spots(stack, s, L) \cup New \in SUBSET (Actors \X Nat)
  BY <1>1, SpotPairs
<1>3. ASSUME NEW b \in Actors, NEW i \in Nat
      PROVE  <<b, i>> \in Spots(stack', s, L) <=> <<b, i>> \in Spots(stack, s, L) \cup New
  <2>0. /\ <<b, i>> \in Spots(stack, s, L) <=>
             i \in 1 .. Len(stack[b]) /\ stack[b][i].s = s /\ stack[b][i].at \in L
        /\ <<b, i>> \in Spots(stack', s, L) <=>
             i \in 1 .. Len(stack'[b]) /\ stack'[b][i].s = s /\ stack'[b][i].at \in L
    BY DEF Spots
  <2>1. CASE b # a
    BY <2>0, <2>1, Calls
  <2>2. CASE b = a /\ i \in 1 .. Len(stack[a])
    BY <2>0, <1>1, <2>2, Calls
  <2>3. CASE b = a /\ i = Len(stack[a]) + 1
    BY <2>0, <1>1, <2>3, Calls
  <2>4. CASE b = a /\ i \notin 1 .. Len(stack[a]) + 1
    BY <2>0, <1>1, <2>4, Calls
  <2> QED
    BY <1>1, <2>1, <2>2, <2>3, <2>4
<1> DEFINE All == Spots(stack, s, L) \cup New
<1>4. Spots(stack', s, L) = All
  <2>1. All \in SUBSET (Actors \X Nat)
    BY <1>2
  <2>2. \A b \in Actors, i \in Nat : <<b, i>> \in Spots(stack', s, L) <=> <<b, i>> \in All
    BY <1>3
  <2> HIDE DEF All
  <2> QED
    BY <2>1, <2>2, SpotsEqual
<1>5. ASSUME NEW p \in Spots(stack, s, L) PROVE stack'[p[1]][p[2]] = stack[p[1]][p[2]]
  BY SMTT(30), Calls DEF Spots
<1> QED
  BY <1>4, <1>5

\* A return removes at most the place of the innermost frame.
LEMMA ReturnSpots ==
  ASSUME TypeOK, NEW a \in Actors, Busy(a), Return(a), NEW s, NEW L
  PROVE  /\ Spots(stack', s, L) = Spots(stack, s, L) \ {<<a, Len(stack[a])>>}
         /\ \A p \in Spots(stack, s, L) \ {<<a, Len(stack[a])>>} :
              stack'[p[1]][p[2]] = stack[p[1]][p[2]]
<1> DEFINE Left == Spots(stack, s, L) \ {<<a, Len(stack[a])>>}
<1>1. Left \in SUBSET (Actors \X Nat)
  BY SpotPairs
<1>2. Len(stack[a]) \in Nat \ {0}
  BY Belows
<1>3. ASSUME NEW b \in Actors, NEW i \in Nat
      PROVE  <<b, i>> \in Spots(stack', s, L) <=> <<b, i>> \in Left
  <2>0. /\ <<b, i>> \in Spots(stack, s, L) <=>
             i \in 1 .. Len(stack[b]) /\ stack[b][i].s = s /\ stack[b][i].at \in L
        /\ <<b, i>> \in Spots(stack', s, L) <=>
             i \in 1 .. Len(stack'[b]) /\ stack'[b][i].s = s /\ stack'[b][i].at \in L
    BY DEF Spots
  <2>1. CASE b # a
    BY <2>0, <2>1, Returns
  <2>2. CASE b = a /\ i \in 1 .. Len(stack[a]) - 1
    BY <2>0, <1>2, <2>2, Returns
  <2>3. CASE b = a /\ i \notin 1 .. Len(stack[a]) - 1
    BY <2>0, <1>2, <2>3, Returns
  <2> QED
    BY <2>1, <2>2, <2>3
<1>4. Spots(stack', s, L) = Left
  <2> HIDE DEF Left
  <2> QED
    BY <1>1, <1>3, SpotsEqual
<1>5. ASSUME NEW p \in Left PROVE stack'[p[1]][p[2]] = stack[p[1]][p[2]]
  <2>1. PICK b \in Actors, i \in Nat : p = <<b, i>>
    BY <1>1
  <2>2. i \in 1 .. Len(stack[b]) /\ <<b, i>> # <<a, Len(stack[a])>>
    BY <2>1 DEF Spots
  <2>3. stack'[b][i] = stack[b][i]
    BY <1>2, <2>2, Returns
  <2> QED
    BY <2>1, <2>3
<1> QED
  BY <1>4, <1>5

\* A replaced frame changes its own place only.
LEMMA BecomeSpots ==
  ASSUME TypeOK, NEW a \in Actors, NEW frame \in Frame, Busy(a), Become(a, frame), NEW s, NEW L
  PROVE  /\ Spots(stack', s, L) = (Spots(stack, s, L) \ {<<a, Len(stack[a])>>}) \cup
              (IF frame.s = s /\ frame.at \in L THEN {<<a, Len(stack[a])>>} ELSE {})
         /\ stack'[a][Len(stack[a])] = frame
         /\ \A p \in Spots(stack, s, L) \ {<<a, Len(stack[a])>>} :
              stack'[p[1]][p[2]] = stack[p[1]][p[2]]
<1> DEFINE New == IF frame.s = s /\ frame.at \in L THEN {<<a, Len(stack[a])>>} ELSE {}
           Left == Spots(stack, s, L) \ {<<a, Len(stack[a])>>}
<1>1. Len(stack[a]) \in Nat \ {0}
  BY Belows
<1>2. Left \cup New \in SUBSET (Actors \X Nat) /\ Left \in SUBSET (Actors \X Nat)
  BY <1>1, SpotPairs
<1>3. ASSUME NEW b \in Actors, NEW i \in Nat
      PROVE  <<b, i>> \in Spots(stack', s, L) <=> <<b, i>> \in Left \cup New
  <2>0. /\ <<b, i>> \in Spots(stack, s, L) <=>
             i \in 1 .. Len(stack[b]) /\ stack[b][i].s = s /\ stack[b][i].at \in L
        /\ <<b, i>> \in Spots(stack', s, L) <=>
             i \in 1 .. Len(stack'[b]) /\ stack'[b][i].s = s /\ stack'[b][i].at \in L
    BY DEF Spots
  <2>1. CASE b # a
    BY <2>0, <2>1, Becomes
  <2>2. CASE b = a /\ i \in 1 .. Len(stack[a]) - 1
    BY <2>0, <1>1, <2>2, Becomes
  <2>3. CASE b = a /\ i = Len(stack[a])
    BY <2>0, <1>1, <2>3, Becomes
  <2>4. CASE b = a /\ i \notin 1 .. Len(stack[a])
    BY <2>0, <1>1, <2>4, Becomes
  <2> QED
    BY <1>1, <2>1, <2>2, <2>3, <2>4
<1>4. Spots(stack', s, L) = Left \cup New
  <2> HIDE DEF New, Left
  <2> QED
    BY <1>2, <1>3, SpotsEqual
<1>5. ASSUME NEW p \in Left PROVE stack'[p[1]][p[2]] = stack[p[1]][p[2]]
  <2>1. PICK b \in Actors, i \in Nat : p = <<b, i>>
    BY <1>2
  <2>2. i \in 1 .. Len(stack[b]) /\ <<b, i>> # <<a, Len(stack[a])>>
    BY <2>1 DEF Spots
  <2>3. stack'[b][i] = stack[b][i]
    BY <1>1, <2>2, Becomes
  <2> QED
    BY <2>1, <2>3
<1> QED
  BY <1>4, <1>5, Becomes

-----------------------------------------------------------------------------
(* The function on its way to the ready queue *)

\* Pushing(s), of the stacks stk.
PushingOf(stk, s) ==
  SetToSeq({frame.f : frame \in
    {fr \in UNION {{stk[a][i] : i \in DOMAIN stk[a]} : a \in Actors} :
       fr.at = "push" /\ fr.s = s}})

\* The sequence of no elements.
LEMMA SetToSeqEmpty == SetToSeq({}) = <<>>
<1>1. \A f \in [1 .. 0 -> {}] : f = <<>>
  OBVIOUS
<1>2. <<>> \in [1 .. 0 -> {}] /\ IsInjective(<<>>)
  BY DEF IsInjective
<1>3. Cardinality({}) = 0
  BY FS_EmptySet
<1> QED
  BY <1>1, <1>2, <1>3 DEF SetToSeq

\* The sequence of one element.
LEMMA SetToSeqOne == ASSUME NEW x PROVE SetToSeq({x}) = <<x>>
<1>1. \A f \in [1 .. 1 -> {x}] : f = <<x>>
  OBVIOUS
<1>2. <<x>> \in [1 .. 1 -> {x}] /\ IsInjective(<<x>>)
  BY DEF IsInjective
<1>3. Cardinality({x}) = 1
  BY FS_Singleton
<1> QED
  BY <1>1, <1>2, <1>3 DEF SetToSeq

\* Without an actor between locking and pushing no function is on its way.
LEMMA PushingNobody ==
  ASSUME NEW stk \in [Actors -> Seq(Frame)], NEW s, Spots(stk, s, {"push"}) = {}
  PROVE  PushingOf(stk, s) = <<>>
<1> DEFINE Pushed == {fr \in UNION {{stk[a][i] : i \in DOMAIN stk[a]} : a \in Actors} :
                        fr.at = "push" /\ fr.s = s}
<1>1. ASSUME NEW fr \in Pushed PROVE FALSE
  <2>1. PICK a \in Actors : \E i \in DOMAIN stk[a] : fr = stk[a][i]
    OBVIOUS
  <2>2. PICK i \in DOMAIN stk[a] : fr = stk[a][i]
    BY <2>1
  <2>3. i \in Nat /\ i \in 1 .. Len(stk[a])
    BY <2>2, LenProperties
  <2>4. <<a, i>> \in Spots(stk, s, {"push"})
    BY <2>2, <2>3 DEF Spots
  <2> QED
    BY <2>4
<1>2. {frame.f : frame \in Pushed} = {}
  BY <1>1
<1> QED
  BY <1>2, SetToSeqEmpty DEF PushingOf

\* With one such actor its function is.
LEMMA PushingOne ==
  ASSUME NEW stk \in [Actors -> Seq(Frame)], NEW s, NEW a \in Actors, NEW i \in Nat,
         Spots(stk, s, {"push"}) = {<<a, i>>}
  PROVE  PushingOf(stk, s) = <<stk[a][i].f>>
<1> DEFINE Pushed == {fr \in UNION {{stk[b][j] : j \in DOMAIN stk[b]} : b \in Actors} :
                        fr.at = "push" /\ fr.s = s}
<1>1. ASSUME NEW fr \in Pushed PROVE fr = stk[a][i]
  <2>1. PICK b \in Actors : \E j \in DOMAIN stk[b] : fr = stk[b][j]
    OBVIOUS
  <2>2. PICK j \in DOMAIN stk[b] : fr = stk[b][j]
    BY <2>1
  <2>3. j \in Nat /\ j \in 1 .. Len(stk[b])
    BY <2>2, LenProperties
  <2>4. <<b, j>> \in Spots(stk, s, {"push"})
    BY <2>2, <2>3 DEF Spots
  <2> QED
    BY <2>2, <2>4
<1>2. stk[a][i] \in Pushed
  <2>0. <<a, i>> \in Spots(stk, s, {"push"})
    OBVIOUS
  <2>1. i \in 1 .. Len(stk[a]) /\ stk[a][i].s = s /\ stk[a][i].at = "push"
    BY <2>0, SpotMember
  <2>2. i \in DOMAIN stk[a]
    BY <2>1, LenProperties
  <2> QED
    BY <2>1, <2>2
<1>3. {frame.f : frame \in Pushed} = {stk[a][i].f}
  <2> HIDE DEF Pushed
  <2> QED
    BY <1>1, <1>2
<1> QED
  BY <1>3, SetToSeqOne DEF PushingOf

-----------------------------------------------------------------------------
(* The invariant *)

\* The right to the ready queue is nowhere, in the executor, or in one frame.
Held(s) ==
  \/ ~locked[s] /\ scheduled[s] = 0 /\ Holders(s) = {} /\ ready[s] = <<>> /\ waiting[s] = <<>>
  \/ locked[s] /\ scheduled[s] = 1 /\ Holders(s) = {}
  \/ locked[s] /\ scheduled[s] = 0 /\ \E h \in Actors \X Nat : Holders(s) = {h}

\* Nothing is ready while the function that took the strand is on its way.
First(s) == Pushers(s) # {} => ready[s] = <<>>

\* InOrder of one strand.
Ordered(s) == accepted[s] = started[s] \o Pending(s)

\* The invariant of one strand, while the context lives.
Good(s) == Held(s) /\ First(s) /\ Ordered(s)

\* The inductive invariant.
StrandInv ==
  /\ TypeOK
  /\ destroyed => (\A a \in Actors : ~Busy(a)) /\ (\A s \in Strands : scheduled[s] = 0)
  /\ ~destroyed => \A s \in Strands : Good(s)

\* An actor that is about to push holds the strand.
LEMMA PushersHold ==
  ASSUME NEW stk, NEW s
  PROVE  Spots(stk, s, {"push"}) \subseteq Spots(stk, s, HoldingAt)
BY DEF Spots, HoldingAt

\* Pending(s) before and after a step.
LEMMA PendingIs ==
  ASSUME NEW s \in Strands
  PROVE  /\ Pending(s) = PushingOf(stack, s) \o ready[s] \o waiting[s]
         /\ Pending(s)' = PushingOf(stack', s) \o ready'[s] \o waiting'[s]
BY DEF Pending, Pushing, PushingOf, Frames

\* The stacks change, the frames that hold s do not.
Kept(s) ==
  /\ Spots(stack', s, HoldingAt) = Spots(stack, s, HoldingAt)
  /\ Spots(stack', s, {"push"}) = Spots(stack, s, {"push"})
  /\ \A p \in Spots(stack, s, {"push"}) : stack'[p[1]][p[2]] = stack[p[1]][p[2]]

\* There is at most one function on its way, and it stays that function.
LEMMA PushingKept ==
  ASSUME TypeOK, TypeOK', NEW s \in Strands, Held(s)
  PROVE  /\ PushingOf(stack, s) \in Seq(Functions)
         /\ Kept(s) => PushingOf(stack', s) = PushingOf(stack, s)
<1>1. stack \in [Actors -> Seq(Frame)] /\ stack' \in [Actors -> Seq(Frame)]
  BY DEF TypeOK, Frame
<1>2. CASE Spots(stack, s, {"push"}) = {}
  <2>1. PushingOf(stack, s) = <<>>
    BY <1>1, <1>2, PushingNobody
  <2>2. Kept(s) => PushingOf(stack', s) = <<>>
    BY <1>1, <1>2, PushingNobody DEF Kept
  <2> QED
    BY <2>1, <2>2, EmptySeq
<1>3. CASE Spots(stack, s, {"push"}) # {}
  <2>1. PICK h \in Actors \X Nat : Spots(stack, s, {"push"}) = {h}
    BY <1>3, PushersHold DEF Held, Holders
  <2>2. PICK a \in Actors, i \in Nat : h = <<a, i>>
    BY <2>1
  <2>3. PushingOf(stack, s) = <<stack[a][i].f>>
    BY <1>1, <2>1, <2>2, PushingOne, SMTT(30)
  <2>4. Kept(s) => PushingOf(stack', s) = <<stack'[a][i].f>>
    BY <1>1, <2>1, <2>2, PushingOne, SMTT(30) DEF Kept
  <2>5. Kept(s) => stack'[a][i] = stack[a][i]
    BY <2>1, <2>2 DEF Kept
  <2>6. i \in 1 .. Len(stack[a]) /\ stack[a][i].at = "push"
    BY <2>1, <2>2, SpotMember
  <2>7. stack[a][i].f \in Functions
    <3>1. stack[a][i] \in Frame
      BY <1>1, <2>6, ElementOfSeq
    <3> QED
      BY <2>6, <3>1 DEF Frame, SubmitFrames, InvokerFrames, FunctionFrames
  <2> QED
    BY <2>3, <2>4, <2>5, <2>7
<1> QED
  BY <1>2, <1>3

-----------------------------------------------------------------------------
(* What the steps do to the holders *)

\* A call of something that does not hold s.
LEMMA KeptByCall ==
  ASSUME TypeOK, NEW a \in Actors, NEW frame \in Frame, Call(a, frame), NEW s,
         frame.s # s \/ frame.at \notin HoldingAt
  PROVE  Kept(s)
<1>1. ~(frame.s = s /\ frame.at \in HoldingAt) /\ ~(frame.s = s /\ frame.at \in {"push"})
  BY DEF HoldingAt
<1>2. \A L : /\ Spots(stack', s, L) = Spots(stack, s, L) \cup
                   (IF frame.s = s /\ frame.at \in L THEN {<<a, Len(stack[a]) + 1>>} ELSE {})
             /\ \A p \in Spots(stack, s, L) : stack'[p[1]][p[2]] = stack[p[1]][p[2]]
  BY CallSpots
<1> QED
  BY <1>1, <1>2 DEF Kept

\* A return from something that does not hold s.
LEMMA KeptByReturn ==
  ASSUME TypeOK, NEW a \in Actors, Busy(a), Return(a), NEW s,
         Top(a).s # s \/ Top(a).at \notin HoldingAt
  PROVE  Kept(s)
<1>1. /\ <<a, Len(stack[a])>> \notin Spots(stack, s, HoldingAt)
      /\ <<a, Len(stack[a])>> \notin Spots(stack, s, {"push"})
  BY TopSpot DEF HoldingAt
<1>2. Spots(stack', s, HoldingAt) = Spots(stack, s, HoldingAt) \ {<<a, Len(stack[a])>>}
  BY ReturnSpots
<1>3. /\ Spots(stack', s, {"push"}) = Spots(stack, s, {"push"}) \ {<<a, Len(stack[a])>>}
      /\ \A p \in Spots(stack, s, {"push"}) \ {<<a, Len(stack[a])>>} :
           stack'[p[1]][p[2]] = stack[p[1]][p[2]]
  BY ReturnSpots
<1> QED
  BY <1>1, <1>2, <1>3 DEF Kept

\* A frame of another strand is replaced.
LEMMA KeptByBecome ==
  ASSUME TypeOK, NEW a \in Actors, NEW frame \in Frame, Busy(a), Become(a, frame), NEW s,
         Top(a).s # s, frame.s # s
  PROVE  Kept(s)
<1>1. /\ <<a, Len(stack[a])>> \notin Spots(stack, s, HoldingAt)
      /\ <<a, Len(stack[a])>> \notin Spots(stack, s, {"push"})
  BY TopSpot DEF HoldingAt
<1>2. Spots(stack', s, HoldingAt) =
        (Spots(stack, s, HoldingAt) \ {<<a, Len(stack[a])>>}) \cup {}
  BY BecomeSpots
<1>3. /\ Spots(stack', s, {"push"}) =
           (Spots(stack, s, {"push"}) \ {<<a, Len(stack[a])>>}) \cup {}
      /\ \A p \in Spots(stack, s, {"push"}) \ {<<a, Len(stack[a])>>} :
           stack'[p[1]][p[2]] = stack[p[1]][p[2]]
  BY BecomeSpots
<1> QED
  BY <1>1, <1>2, <1>3 DEF Kept

\* A holder on top is the only one.
LEMMA TopHolder ==
  ASSUME TypeOK, NEW a \in Actors, Busy(a), Held(Top(a).s), Top(a).at \in HoldingAt
  PROVE  /\ locked[Top(a).s] /\ scheduled[Top(a).s] = 0
         /\ Spots(stack, Top(a).s, HoldingAt) = {<<a, Len(stack[a])>>}
         /\ Spots(stack, Top(a).s, {"push"}) =
              IF Top(a).at = "push" THEN {<<a, Len(stack[a])>>} ELSE {}
<1>1. <<a, Len(stack[a])>> \in Spots(stack, Top(a).s, HoldingAt)
  BY TopSpot
<1>2. /\ locked[Top(a).s] /\ scheduled[Top(a).s] = 0
      /\ Spots(stack, Top(a).s, HoldingAt) = {<<a, Len(stack[a])>>}
  BY <1>1 DEF Held, Holders
<1>3. Spots(stack, Top(a).s, {"push"}) \subseteq {<<a, Len(stack[a])>>}
  BY <1>2, PushersHold
<1>4. <<a, Len(stack[a])>> \in Spots(stack, Top(a).s, {"push"}) <=> Top(a).at = "push"
  BY TopSpot
<1> QED
  BY <1>2, <1>3, <1>4

\* The holder on top goes on to another label.
LEMMA HolderMoves ==
  ASSUME TypeOK, NEW a \in Actors, NEW frame \in Frame, Busy(a), Become(a, frame),
         Held(Top(a).s), Top(a).at \in HoldingAt, frame.s = Top(a).s, frame.at \in HoldingAt
  PROVE  /\ Spots(stack', Top(a).s, HoldingAt) = {<<a, Len(stack[a])>>}
         /\ Spots(stack', Top(a).s, {"push"}) =
              IF frame.at = "push" THEN {<<a, Len(stack[a])>>} ELSE {}
<1> DEFINE s == Top(a).s
<1>1. Spots(stack', s, HoldingAt) = (Spots(stack, s, HoldingAt) \ {<<a, Len(stack[a])>>})
                                      \cup {<<a, Len(stack[a])>>}
  BY BecomeSpots
<1>2. Spots(stack', s, {"push"}) = (Spots(stack, s, {"push"}) \ {<<a, Len(stack[a])>>})
        \cup (IF frame.at = "push" THEN {<<a, Len(stack[a])>>} ELSE {})
  BY BecomeSpots
<1> QED
  BY <1>1, <1>2, TopHolder

\* The holder on top gives the strand up or hands it to the executor.
LEMMA HolderLeaves ==
  ASSUME TypeOK, NEW a \in Actors, Busy(a), Return(a), Held(Top(a).s), Top(a).at \in HoldingAt
  PROVE  Spots(stack', Top(a).s, HoldingAt) = {} /\ Spots(stack', Top(a).s, {"push"}) = {}
<1>1. \A L : Spots(stack', Top(a).s, L) =
               Spots(stack, Top(a).s, L) \ {<<a, Len(stack[a])>>}
  BY ReturnSpots
<1>2. /\ Spots(stack', Top(a).s, HoldingAt) =
           Spots(stack, Top(a).s, HoldingAt) \ {<<a, Len(stack[a])>>}
      /\ Spots(stack', Top(a).s, {"push"}) =
           Spots(stack, Top(a).s, {"push"}) \ {<<a, Len(stack[a])>>}
  BY <1>1
<1> QED
  BY <1>2, TopHolder

-----------------------------------------------------------------------------
(* Sequences *)

\* Appending to the second of two sequences.
LEMMA AppendRight ==
  ASSUME NEW S, NEW s \in Seq(S), NEW t \in Seq(S), NEW x \in S
  PROVE  s \o Append(t, x) = Append(s \o t, x)
<1>1. <<x>> \in Seq(S) /\ s \o t \in Seq(S)
  BY ConcatProperties
<1>2. Append(t, x) = t \o <<x>> /\ Append(s \o t, x) = (s \o t) \o <<x>>
  BY <1>1, AppendIsConcat
<1> QED
  BY <1>1, <1>2, ConcatAssociative

\* The head of the second sequence moves to the end of the first.
LEMMA MoveHead ==
  ASSUME NEW S, NEW s \in Seq(S), NEW t \in Seq(S), NEW u \in Seq(S), t # <<>>
  PROVE  s \o (t \o u) = Append(s, Head(t)) \o (Tail(t) \o u)
<1>1. Head(t) \in S /\ Tail(t) \in Seq(S) /\ <<Head(t)>> \in Seq(S)
  BY HeadTailProperties
<1>2. t = <<Head(t)>> \o Tail(t)
  <2>1. /\ Len(Tail(t)) = Len(t) - 1
        /\ \A i \in 1 .. Len(Tail(t)) : Tail(t)[i] = t[i + 1]
    BY HeadTailProperties
  <2>2. Len(t) \in Nat \ {0}
    BY EmptySeq
  <2>3. /\ <<Head(t)>> \o Tail(t) \in Seq(S)
        /\ Len(<<Head(t)>> \o Tail(t)) = Len(t)
        /\ \A i \in 1 .. Len(t) : (<<Head(t)>> \o Tail(t))[i] = t[i]
    BY <1>1, <2>1, <2>2
  <2> QED
    BY <2>3, SeqEqual
<1>3. Append(s, Head(t)) = s \o <<Head(t)>>
  BY <1>1, AppendIsConcat
<1>4. (s \o <<Head(t)>>) \o (Tail(t) \o u) = s \o (<<Head(t)>> \o (Tail(t) \o u))
  <2> DEFINE h == <<Head(t)>>
             r == Tail(t) \o u
  <2>1. h \in Seq(S) /\ r \in Seq(S)
    BY <1>1, ConcatProperties
  <2> HIDE DEF h, r
  <2>2. (s \o h) \o r = s \o (h \o r)
    BY <2>1, ConcatAssociative, SMTT(30)
  <2> QED
    BY <2>2 DEF h, r
<1>5. <<Head(t)>> \o (Tail(t) \o u) = (<<Head(t)>> \o Tail(t)) \o u
  BY <1>1, ConcatAssociative
<1> QED
  BY <1>2, <1>3, <1>4, <1>5

-----------------------------------------------------------------------------
(* Every step keeps the invariant *)

\* The variables a strand's part of the invariant reads, beside the stacks.
SameQueues(s) ==
  /\ locked'[s] = locked[s] /\ waiting'[s] = waiting[s] /\ ready'[s] = ready[s]
  /\ scheduled'[s] = scheduled[s] /\ accepted'[s] = accepted[s] /\ started'[s] = started[s]

\* A strand whose queues and holders stay as they are stays good.
LEMMA GoodKept ==
  ASSUME TypeOK, TypeOK', NEW s \in Strands, Good(s), SameQueues(s), Kept(s)
  PROVE  Good(s)'
<1>1. Held(s)' /\ First(s)'
  BY DEF Good, SameQueues, Kept, Held, First, Holders, Pushers
<1>2. Pending(s)' = Pending(s)
  BY PushingKept, PendingIs DEF Good, SameQueues
<1> QED
  BY <1>1, <1>2 DEF Good, SameQueues, Ordered

\* dispatch, post and defer put a frame on the stack that holds nothing.
LEMMA SubmitGood ==
  ASSUME TypeOK, TypeOK', \A s \in Strands : Good(s),
         NEW a \in Actors, NEW x \in Strands, NEW how \in Kinds, Submit(a, x, how)
  PROVE  \A s \in Strands : Good(s)'
<1>1. PICK frame \in Frame : Call(a, frame) /\ frame.at \in {"fn", "lock"}
  BY NextFunction, NewFrames DEF Submit, FunctionOf
<1>2. \A s : Kept(s)
  BY <1>1, KeptByCall DEF HoldingAt
<1>3. \A s \in Strands : SameQueues(s)
  BY DEF Submit, queues, history, SameQueues
<1> QED
  BY <1>2, <1>3, GoodKept

\* A function that ends holds nothing.
LEMMA FunctionEndsGood ==
  ASSUME TypeOK, TypeOK', \A s \in Strands : Good(s), NEW a \in Actors, At(a, "fn"), Return(a),
         UNCHANGED <<queues, scheduled, history>>
  PROVE  \A s \in Strands : Good(s)'
<1>1. \A s : Kept(s)
  BY KeptByReturn DEF HoldingAt, At
<1>2. \A s \in Strands : SameQueues(s)
  BY DEF queues, history, SameQueues
<1> QED
  BY <1>1, <1>2, GoodKept

\* A strand the step is not about.
LEMMA OtherStrands ==
  ASSUME TypeOK, TypeOK', NEW a \in Actors, Busy(a), NEW s \in Strands, s # Top(a).s,
         Good(s), SameQueues(s),
         Return(a) \/ \E frame \in Frame : frame.s = Top(a).s /\ (Become(a, frame) \/ Call(a, frame))
  PROVE  Good(s)'
<1>1. Kept(s)
  BY KeptByReturn, KeptByBecome, KeptByCall
<1> QED
  BY <1>1, GoodKept

\* enqueue on a locked strand: the function waits.
LEMMA EnqueueWaits ==
  ASSUME TypeOK, TypeOK', NEW a \in Actors, NEW s \in Strands, NEW f \in Functions,
         Busy(a), Top(a).at = "lock", Top(a).s = s, Good(s),
         Return(a), locked[s], locked' = locked,
         waiting' = [waiting EXCEPT ![s] = Append(@, f)],
         accepted' = [accepted EXCEPT ![s] = Append(@, f)],
         UNCHANGED <<ready, scheduled, started>>
  PROVE  Good(s)'
<1>1. /\ accepted[s] \in Seq(Functions) /\ started[s] \in Seq(Functions)
      /\ ready[s] \in Seq(Functions) /\ waiting[s] \in Seq(Functions)
      /\ accepted'[s] = Append(accepted[s], f) /\ waiting'[s] = Append(waiting[s], f)
  BY DEF TypeOK
<1>2. Kept(s)
  BY KeptByReturn DEF HoldingAt
<1>3. Held(s)' /\ First(s)'
  BY <1>2 DEF Good, Held, First, Holders, Pushers, Kept
<1> DEFINE p == PushingOf(stack, s)
<1>4. PushingOf(stack', s) = p /\ p \in Seq(Functions)
  BY <1>2, PushingKept DEF Good
<1>5. Pending(s)' = (p \o ready[s]) \o Append(waiting[s], f)
  BY <1>1, <1>4, PendingIs
<1>6. Pending(s) = (p \o ready[s]) \o waiting[s]
  BY PendingIs
<1> HIDE DEF p
<1>7. p \o ready[s] \in Seq(Functions)
  BY <1>1, <1>4, ConcatProperties
<1>8. Pending(s) \in Seq(Functions)
  BY <1>1, <1>6, <1>7, ConcatProperties
<1>0. \A u, v \in Seq(Functions) : u \o Append(v, f) = Append(u \o v, f)
  BY AppendRight
<1>9. Pending(s)' = Append(Pending(s), f)
  <2>1. (p \o ready[s]) \o Append(waiting[s], f) = Append((p \o ready[s]) \o waiting[s], f)
    BY <1>0, <1>1, <1>7
  <2> QED
    BY <1>5, <1>6, <2>1, Zenon
<1>10. started[s] \o Append(Pending(s), f) = Append(started[s] \o Pending(s), f)
  BY <1>0, <1>1, <1>8
<1>11. Ordered(s)'
  BY <1>1, <1>9, <1>10 DEF Ordered, Good
<1> QED
  BY <1>3, <1>11 DEF Good

\* enqueue on an idle strand: the actor becomes responsible for it.
LEMMA EnqueueTakes ==
  ASSUME TypeOK, TypeOK', NEW a \in Actors, NEW s \in Strands, NEW f \in Functions,
         NEW frame \in Frame, frame.at = "push", frame.s = s, frame.f = f,
         Busy(a), Top(a).at = "lock", Top(a).s = s, Good(s),
         Become(a, frame), ~locked[s], locked' = [locked EXCEPT ![s] = TRUE],
         accepted' = [accepted EXCEPT ![s] = Append(@, f)],
         UNCHANGED <<waiting, ready, scheduled, started>>
  PROVE  Good(s)'
<1>1. PICK n \in Nat : n = Len(stack[a])
  BY Belows
<1> DEFINE h == <<a, n>>
<1>2. /\ accepted[s] \in Seq(Functions) /\ started[s] \in Seq(Functions)
      /\ accepted'[s] = Append(accepted[s], f) /\ locked'[s]
      /\ stack' \in [Actors -> Seq(Frame)] /\ stack \in [Actors -> Seq(Frame)]
  BY DEF TypeOK, Frame
<1>3. /\ scheduled[s] = 0 /\ ready[s] = <<>> /\ waiting[s] = <<>>
      /\ Spots(stack, s, HoldingAt) = {} /\ Spots(stack, s, {"push"}) = {}
  BY PushersHold DEF Good, Held, Holders
<1>4. Spots(stack', s, HoldingAt) = {h} /\ Spots(stack', s, {"push"}) = {h}
  <2>1. \A L : Spots(stack', s, L) = (Spots(stack, s, L) \ {h}) \cup
                 (IF frame.s = s /\ frame.at \in L THEN {h} ELSE {})
    BY <1>1, BecomeSpots
  <2>2. frame.at \in HoldingAt /\ frame.at \in {"push"}
    BY DEF HoldingAt
  <2> HIDE DEF h
  <2> QED
    BY <1>3, <2>1, <2>2
<1>5. h \in Actors \X Nat /\ stack'[a][n] = frame
  BY <1>1, Becomes
<1>6. Held(s)' /\ First(s)'
  BY <1>2, <1>3, <1>4, <1>5 DEF Held, First, Holders, Pushers
<1>7. PushingOf(stack, s) = <<>>
  BY <1>2, <1>3, PushingNobody
<1>8. PushingOf(stack', s) = <<f>>
  <2>0. stack' \in [Actors -> Seq(Frame)] /\ Spots(stack', s, {"push"}) = {<<a, n>>}
    BY <1>2, <1>4
  <2> HIDE DEF h
  <2>1. PushingOf(stack', s) = <<stack'[a][n].f>>
    BY <2>0, PushingOne
  <2> QED
    BY <1>5, <2>1
<1>9. Pending(s) = (<<>> \o <<>>) \o <<>> /\ Pending(s)' = (<<f>> \o <<>>) \o <<>>
  BY <1>3, <1>7, <1>8, PendingIs
<1>10. Pending(s) = <<>> /\ Pending(s)' = <<f>>
  BY <1>9, EmptySeq, ConcatEmptySeq
<1>11. accepted[s] = started[s]
  BY <1>2, <1>10, ConcatEmptySeq DEF Good, Ordered
<1>12. accepted'[s] = started[s] \o <<f>>
  BY <1>2, <1>11, AppendIsConcat
<1>13. Ordered(s)'
  BY <1>10, <1>12 DEF Ordered
<1> QED
  BY <1>6, <1>13 DEF Good

\* enqueue keeps the invariant of every strand.
LEMMA EnqueueGood ==
  ASSUME TypeOK, TypeOK', \A s \in Strands : Good(s), NEW a \in Actors, Enqueue(a)
  PROVE  \A s \in Strands : Good(s)'
<1>1. Busy(a) /\ Top(a).at = "lock" /\ Top(a) \in SubmitFrames
  BY TopTypes DEF Enqueue, At
<1>2. PICK s \in Strands, f \in Functions : s = Top(a).s /\ f = Top(a).f
  BY <1>1 DEF SubmitFrames
<1>3. PICK frame : frame = [Top(a) EXCEPT !.at = "push"]
  OBVIOUS
<1>4. frame \in Frame /\ frame.at = "push" /\ frame.s = s /\ frame.f = f
  BY <1>1, <1>2, <1>3, NextSubmitFrame
<1>5. accepted' = [accepted EXCEPT ![s] = Append(@, f)] /\ UNCHANGED <<ready, scheduled, started>>
  BY <1>2 DEF Enqueue
<1>6. \/ locked[s] /\ waiting' = [waiting EXCEPT ![s] = Append(@, f)] /\ Return(a) /\ locked' = locked
      \/ /\ ~locked[s] /\ locked' = [locked EXCEPT ![s] = TRUE]
         /\ Become(a, frame) /\ waiting' = waiting
  BY <1>2, <1>3 DEF Enqueue, Goto
<1>7. ASSUME NEW x \in Strands, x # s PROVE Good(x)'
  <2>1. SameQueues(x)
    BY <1>5, <1>6, <1>7 DEF SameQueues, TypeOK
  <2>2. Return(a) \/ \E fr \in Frame : fr.s = Top(a).s /\ (Become(a, fr) \/ Call(a, fr))
    BY <1>2, <1>4, <1>6
  <2> QED
    BY <1>1, <1>2, <1>7, <2>1, <2>2, OtherStrands
<1>8. Good(s)'
  BY <1>1, <1>2, <1>4, <1>5, <1>6, EnqueueWaits, EnqueueTakes
<1> QED
  BY <1>7, <1>8

\* The function reaches the ready queue, which was empty.
LEMMA PushGood ==
  ASSUME TypeOK, TypeOK', \A s \in Strands : Good(s), NEW a \in Actors, Push(a)
  PROVE  \A s \in Strands : Good(s)'
<1>1. Busy(a) /\ Top(a).at = "push" /\ Top(a) \in SubmitFrames
  BY TopTypes DEF Push, At
<1>2. PICK s \in Strands, f \in Functions : s = Top(a).s /\ f = Top(a).f
  BY <1>1 DEF SubmitFrames
<1>3. PICK frame : frame = [Top(a) EXCEPT !.at = "schedule"]
  OBVIOUS
<1>4. frame \in Frame /\ frame.at = "schedule" /\ frame.s = s
  BY <1>1, <1>2, <1>3, NextSubmitFrame
<1>5. /\ ready' = [ready EXCEPT ![s] = Append(@, f)] /\ Become(a, frame)
      /\ UNCHANGED <<locked, waiting, scheduled, accepted, started>>
  BY <1>2, <1>3 DEF Push, Goto, history
<1>6. ASSUME NEW x \in Strands, x # s PROVE Good(x)'
  <2>1. SameQueues(x)
    BY <1>5, <1>6 DEF SameQueues, TypeOK
  <2> QED
    BY <1>1, <1>2, <1>4, <1>5, <1>6, <2>1, OtherStrands
<1>7. Good(s)'
  <2>0. Good(s) /\ Held(s) /\ First(s) /\ Ordered(s)
    BY DEF Good
  <2>1. PICK n \in Nat : n = Len(stack[a])
    BY <1>1, Belows
  <2>2. /\ locked[s] /\ scheduled[s] = 0
        /\ Spots(stack, s, HoldingAt) = {<<a, n>>} /\ Spots(stack, s, {"push"}) = {<<a, n>>}
    BY <1>1, <1>2, <2>0, <2>1, TopHolder DEF HoldingAt
  <2>3. Spots(stack', s, HoldingAt) = {<<a, n>>} /\ Spots(stack', s, {"push"}) = {}
    BY <1>1, <1>2, <1>4, <1>5, <2>0, <2>1, HolderMoves DEF HoldingAt
  <2>4. /\ ready[s] = <<>> /\ ready'[s] = Append(<<>>, f) /\ waiting[s] \in Seq(Functions)
        /\ stack \in [Actors -> Seq(Frame)] /\ stack' \in [Actors -> Seq(Frame)]
    BY <1>5, <2>0, <2>2 DEF First, Pushers, TypeOK, Frame
  <2>5. Held(s)' /\ First(s)'
    BY <1>5, <2>2, <2>3 DEF Held, First, Holders, Pushers
  <2>6. PushingOf(stack, s) = <<f>>
    <3>0. stack \in [Actors -> Seq(Frame)] /\ Spots(stack, s, {"push"}) = {<<a, n>>}
      BY <2>2, <2>4
    <3>1. PushingOf(stack, s) = <<stack[a][n].f>>
      BY <3>0, PushingOne
    <3> QED
      BY <1>2, <2>1, <3>1 DEF Top
  <2>7. PushingOf(stack', s) = <<>>
    BY <2>3, <2>4, PushingNobody
  <2>8. <<f>> \in Seq(Functions) /\ <<>> \in Seq(Functions) /\ Append(<<>>, f) = <<f>>
    OBVIOUS
  <2>9. <<f>> \o <<>> = <<f>> /\ <<>> \o <<f>> = <<f>>
    BY <2>8, ConcatEmptySeq
  <2>10. Pending(s) = <<f>> \o waiting[s]
    BY <2>4, <2>6, <2>9, PendingIs
  <2>11. Pending(s)' = <<f>> \o waiting[s]
    BY <1>5, <2>4, <2>7, <2>8, <2>9, PendingIs
  <2>12. Ordered(s)'
    BY <1>5, <2>0, <2>10, <2>11 DEF Ordered
  <2> QED
    BY <2>5, <2>12 DEF Good
<1> QED
  BY <1>6, <1>7

\* A step that moves the right to s and leaves its functions where they are.
LEMMA OrderedKept ==
  ASSUME TypeOK, TypeOK', NEW s \in Strands, Ordered(s),
         Spots(stack, s, {"push"}) = {}, Spots(stack', s, {"push"}) = {},
         waiting'[s] = waiting[s], ready'[s] = ready[s],
         accepted'[s] = accepted[s], started'[s] = started[s]
  PROVE  Ordered(s)' /\ First(s)'
<1>1. stack \in [Actors -> Seq(Frame)] /\ stack' \in [Actors -> Seq(Frame)]
  BY DEF TypeOK, Frame
<1>2. PushingOf(stack, s) = <<>>
  BY <1>1, PushingNobody
<1>3. PushingOf(stack', s) = <<>>
  BY <1>1, PushingNobody
<1>4. Pending(s)' = Pending(s)
  BY <1>2, <1>3, PendingIs
<1> QED
  BY <1>4 DEF Ordered, First, Pushers

\* The holder gives the strand to the executor.
LEMMA HandedOver ==
  ASSUME TypeOK, TypeOK', \A s \in Strands : Good(s), NEW a \in Actors, NEW x \in Strands,
         Busy(a), Top(a).at \in HoldingAt \ {"push"}, Top(a).s = x, Return(a),
         scheduled' = [scheduled EXCEPT ![x] = @ + 1], UNCHANGED <<queues, history>>
  PROVE  \A s \in Strands : Good(s)'
<1>1. ASSUME NEW s \in Strands, s # x PROVE Good(s)'
  <2>1. SameQueues(s)
    BY <1>1 DEF SameQueues, TypeOK, queues, history
  <2> QED
    BY <1>1, <2>1, OtherStrands
<1>2. Held(x) /\ Ordered(x)
  BY DEF Good
<1>3. locked[x] /\ scheduled[x] = 0 /\ Spots(stack, x, {"push"}) = {}
  BY <1>2, TopHolder
<1>4. Spots(stack', x, HoldingAt) = {} /\ Spots(stack', x, {"push"}) = {}
  BY <1>2, HolderLeaves
<1>5. locked'[x] /\ scheduled'[x] = 1
  BY <1>3 DEF TypeOK, queues
<1>6. Held(x)'
  BY <1>4, <1>5 DEF Held, Holders
<1>7. Ordered(x)' /\ First(x)'
  BY <1>2, <1>3, <1>4, OrderedKept DEF queues, history
<1> QED
  BY <1>1, <1>6, <1>7 DEF Good

\* The holder goes on to another label.
LEMMA MovedOn ==
  ASSUME TypeOK, TypeOK', \A s \in Strands : Good(s), NEW a \in Actors, NEW x \in Strands,
         NEW frame \in Frame, Busy(a), Top(a).at \in HoldingAt \ {"push"}, Top(a).s = x,
         frame.s = x, frame.at \in HoldingAt \ {"push"}, Become(a, frame),
         UNCHANGED <<queues, scheduled, history>>
  PROVE  \A s \in Strands : Good(s)'
<1>1. ASSUME NEW s \in Strands, s # x PROVE Good(s)'
  <2>1. SameQueues(s)
    BY <1>1 DEF SameQueues, queues, history
  <2> QED
    BY <1>1, <2>1, OtherStrands
<1>2. Held(x) /\ Ordered(x)
  BY DEF Good
<1>3. PICK n \in Nat : n = Len(stack[a])
  BY Belows
<1>4. locked[x] /\ scheduled[x] = 0 /\ Spots(stack, x, {"push"}) = {}
  BY <1>2, TopHolder
<1>5. Spots(stack', x, HoldingAt) = {<<a, n>>} /\ Spots(stack', x, {"push"}) = {}
  BY <1>2, <1>3, HolderMoves
<1>6. Held(x)'
  BY <1>4, <1>5 DEF Held, Holders, queues
<1>7. Ordered(x)' /\ First(x)'
  BY <1>2, <1>4, <1>5, OrderedKept DEF queues, history
<1> QED
  BY <1>1, <1>6, <1>7 DEF Good

\* The invoker starts on this thread, or goes to the executor.
LEMMA ScheduleGood ==
  ASSUME TypeOK, TypeOK', \A s \in Strands : Good(s), NEW a \in Actors, Schedule(a)
  PROVE  \A s \in Strands : Good(s)'
<1>1. Busy(a) /\ Top(a).at = "schedule" /\ Top(a).s \in Strands
  BY TopTypes DEF Schedule, At
<1>2. PICK s \in Strands : s = Top(a).s
  BY <1>1
<1>3. /\ UNCHANGED <<queues, history>>
      /\ \/ Become(a, InvokerOf(s)) /\ UNCHANGED scheduled
         \/ scheduled' = [scheduled EXCEPT ![s] = @ + 1] /\ Return(a)
  BY <1>2 DEF Schedule
<1>4. "schedule" \in HoldingAt \ {"push"} /\ "run" \in HoldingAt \ {"push"}
  BY DEF HoldingAt
<1>5. InvokerOf(s) \in Frame /\ InvokerOf(s).s = s /\ InvokerOf(s).at = "run"
  BY NewFrames DEF InvokerOf
<1> QED
  BY <1>1, <1>2, <1>3, <1>4, <1>5, HandedOver, MovedOn

\* ~on_invoker_exit posts the invoker again.
LEMMA RepostGood ==
  ASSUME TypeOK, TypeOK', \A s \in Strands : Good(s), NEW a \in Actors, Repost(a)
  PROVE  \A s \in Strands : Good(s)'
<1>1. Busy(a) /\ Top(a).at = "repost" /\ Top(a).s \in Strands
  BY TopTypes DEF Repost, At
<1>2. Top(a).at \in HoldingAt \ {"push"}
  BY <1>1 DEF HoldingAt
<1>3. PICK s \in Strands : s = Top(a).s
  BY <1>1
<1> QED
  BY <1>1, <1>2, <1>3, HandedOver DEF Repost

\* A pool thread takes the invoker, and with it the strand, from the executor.
LEMMA InvokeGood ==
  ASSUME TypeOK, TypeOK', \A s \in Strands : Good(s),
         NEW a \in Actors, NEW x \in Strands, Invoke(a, x)
  PROVE  \A s \in Strands : Good(s)'
<1>1. InvokerOf(x) \in Frame /\ InvokerOf(x).s = x /\ InvokerOf(x).at = "run"
  BY NewFrames DEF InvokerOf
<1>2. /\ Call(a, InvokerOf(x)) /\ scheduled[x] > 0
      /\ scheduled' = [scheduled EXCEPT ![x] = @ - 1] /\ UNCHANGED <<queues, history>>
  BY DEF Invoke
<1>3. ASSUME NEW s \in Strands, s # x PROVE Good(s)'
  <2>1. SameQueues(s)
    BY <1>2, <1>3 DEF SameQueues, TypeOK, queues, history
  <2>2. Kept(s)
    BY <1>1, <1>2, <1>3, KeptByCall
  <2> QED
    BY <2>1, <2>2, GoodKept
<1>4. /\ locked[x] /\ scheduled[x] = 1 /\ Ordered(x)
      /\ Spots(stack, x, HoldingAt) = {} /\ Spots(stack, x, {"push"}) = {}
  BY <1>2, PushersHold DEF Good, Held, Holders
<1>5. PICK n \in Nat : n = Len(stack[a]) + 1
  BY LenProperties DEF TypeOK
<1>6. /\ Spots(stack', x, HoldingAt) = {<<a, n>>}
      /\ Spots(stack', x, {"push"}) = {}
  <2>1. \A L : Spots(stack', x, L) = Spots(stack, x, L) \cup
                 (IF InvokerOf(x).s = x /\ InvokerOf(x).at \in L THEN {<<a, n>>} ELSE {})
    BY <1>1, <1>2, <1>5, CallSpots
  <2>2. InvokerOf(x).at \in HoldingAt /\ InvokerOf(x).at \notin {"push"}
    BY <1>1 DEF HoldingAt
  <2> QED
    BY <1>1, <1>4, <2>1, <2>2
<1>7. locked'[x] /\ scheduled'[x] = 0
  BY <1>2, <1>4 DEF TypeOK, queues
<1>8. Held(x)'
  BY <1>6, <1>7 DEF Held, Holders
<1>9. Ordered(x)' /\ First(x)'
  BY <1>2, <1>4, <1>6, OrderedKept DEF queues, history
<1> QED
  BY <1>3, <1>8, <1>9 DEF Good

\* The invoker starts the first ready function, or is done with them.
LEMMA RunReadyGood ==
  ASSUME TypeOK, TypeOK', \A s \in Strands : Good(s), NEW a \in Actors, RunReady(a)
  PROVE  \A s \in Strands : Good(s)'
<1>1. Busy(a) /\ Top(a).at = "run" /\ Top(a) \in InvokerFrames /\ Top(a).s \in Strands
  BY TopTypes DEF RunReady, At
<1>2. PICK s \in Strands : s = Top(a).s
  BY <1>1
<1>3. "run" \in HoldingAt \ {"push"} /\ "exit" \in HoldingAt \ {"push"} /\ "fn" \notin HoldingAt
  BY DEF HoldingAt
<1>4. UNCHANGED <<locked, waiting, scheduled, accepted>>
  BY DEF RunReady
<1>5. CASE ready[s] = <<>>
  <2>1. PICK frame : frame = [Top(a) EXCEPT !.at = "exit"]
    OBVIOUS
  <2>2. frame \in Frame /\ frame.s = s /\ frame.at = "exit"
    BY <1>1, <1>2, <2>1, NextInvokerFrame
  <2>3. Become(a, frame) /\ UNCHANGED <<queues, scheduled, history>>
    BY <1>2, <1>5, <2>1 DEF RunReady, Goto, queues, history
  <2> QED
    BY <1>1, <1>2, <1>3, <2>2, <2>3, MovedOn
<1>6. CASE ready[s] # <<>>
  <2>1. /\ ready[s] \in Seq(Functions) /\ started[s] \in Seq(Functions)
        /\ waiting[s] \in Seq(Functions)
    BY DEF TypeOK
  <2>2. PICK f \in Functions : f = Head(ready[s])
    BY <1>6, <2>1, HeadTailProperties
  <2>3. PICK frame \in Frame : frame = FunctionOf(s, f)
    BY NewFrames
  <2>4. /\ ready' = [ready EXCEPT ![s] = Tail(@)] /\ started' = [started EXCEPT ![s] = Append(@, f)]
        /\ Call(a, frame) /\ frame.at = "fn"
    BY <1>2, <1>6, <2>2, <2>3 DEF RunReady, FunctionOf
  <2>5. \A x : Kept(x)
    BY <1>3, <2>4, KeptByCall
  <2>6. ASSUME NEW x \in Strands, x # s PROVE Good(x)'
    <3>1. SameQueues(x)
      BY <1>4, <2>4, <2>6 DEF SameQueues, TypeOK
    <3> QED
      BY <2>5, <3>1, GoodKept
  <2>7. Held(s) /\ Ordered(s) /\ Kept(s)
    BY <2>5 DEF Good
  <2>8. locked[s] /\ Spots(stack, s, {"push"}) = {}
    BY <1>1, <1>2, <1>3, <2>7, TopHolder
  <2>9. /\ ready'[s] = Tail(ready[s]) /\ started'[s] = Append(started[s], f)
        /\ stack \in [Actors -> Seq(Frame)] /\ Spots(stack', s, {"push"}) = {}
        /\ stack' \in [Actors -> Seq(Frame)] /\ Tail(ready[s]) \in Seq(Functions)
    BY <1>6, <2>1, <2>4, <2>7, <2>8, HeadTailProperties DEF TypeOK, Kept, Frame
  <2>10. Held(s)' /\ First(s)'
    BY <1>4, <2>7, <2>8, <2>9 DEF Held, First, Holders, Pushers, Kept
  <2>11. PushingOf(stack, s) = <<>>
    BY <2>8, <2>9, PushingNobody
  <2>12. PushingOf(stack', s) = <<>>
    BY <2>9, PushingNobody
  <2>13. <<>> \o ready[s] = ready[s] /\ <<>> \o Tail(ready[s]) = Tail(ready[s])
    BY <2>1, <2>9, ConcatEmptySeq
  <2>14. Pending(s) = ready[s] \o waiting[s] /\ Pending(s)' = Tail(ready[s]) \o waiting[s]
    BY <1>4, <2>9, <2>11, <2>12, <2>13, PendingIs
  <2>15. started[s] \o (ready[s] \o waiting[s])
           = Append(started[s], f) \o (Tail(ready[s]) \o waiting[s])
    <3>1. \A u, v, w \in Seq(Functions) :
            v # <<>> => u \o (v \o w) = Append(u, Head(v)) \o (Tail(v) \o w)
      BY MoveHead, SMTT(30)
    <3> QED
      BY <1>6, <2>1, <2>2, <3>1
  <2>16. Ordered(s)'
    BY <1>4, <2>7, <2>9, <2>14, <2>15 DEF Ordered
  <2> QED
    BY <2>6, <2>10, <2>16 DEF Good
<1> QED
  BY <1>5, <1>6

\* The invoker takes the functions that waited, or gives the strand up.
LEMMA ExitGood ==
  ASSUME TypeOK, TypeOK', \A s \in Strands : Good(s), NEW a \in Actors, Exit(a)
  PROVE  \A s \in Strands : Good(s)'
<1>1. Busy(a) /\ Top(a).at = "exit" /\ Top(a) \in InvokerFrames /\ Top(a).s \in Strands
  BY TopTypes DEF Exit, At
<1>2. PICK s \in Strands : s = Top(a).s
  BY <1>1
<1>3. "exit" \in HoldingAt \ {"push"} /\ "repost" \in HoldingAt \ {"push"}
  BY DEF HoldingAt
<1>4. PICK all \in Seq(Functions) : all = ready[s] \o waiting[s]
  BY ConcatProperties DEF TypeOK
<1>5. PICK frame : frame = [Top(a) EXCEPT !.at = "repost"]
  OBVIOUS
<1>6. frame \in Frame /\ frame.s = s /\ frame.at = "repost"
  BY <1>1, <1>2, <1>5, NextInvokerFrame
<1>7. /\ ready' = [ready EXCEPT ![s] = all] /\ waiting' = [waiting EXCEPT ![s] = <<>>]
      /\ locked' = [locked EXCEPT ![s] = (all # <<>>)]
      /\ IF all # <<>> THEN Become(a, frame) ELSE Return(a)
      /\ UNCHANGED <<scheduled, accepted, started>>
  BY <1>2, <1>4, <1>5 DEF Exit, Goto, history
<1>8. ASSUME NEW x \in Strands, x # s PROVE Good(x)'
  <2>1. SameQueues(x)
    BY <1>7, <1>8 DEF SameQueues, TypeOK
  <2>2. Return(a) \/ \E fr \in Frame : fr.s = Top(a).s /\ (Become(a, fr) \/ Call(a, fr))
    BY <1>2, <1>6, <1>7
  <2> QED
    BY <1>1, <1>2, <1>8, <2>1, <2>2, OtherStrands
<1>9. Held(s) /\ Ordered(s)
  BY DEF Good
<1>10. locked[s] /\ scheduled[s] = 0 /\ Spots(stack, s, {"push"}) = {}
  BY <1>1, <1>2, <1>3, <1>9, TopHolder
<1>11. /\ ready[s] \in Seq(Functions) /\ waiting[s] \in Seq(Functions) /\ <<>> \in Seq(Functions)
       /\ stack \in [Actors -> Seq(Frame)] /\ stack' \in [Actors -> Seq(Frame)]
       /\ ready'[s] = all /\ waiting'[s] = <<>> /\ locked'[s] = (all # <<>>)
       /\ scheduled'[s] = 0
  BY <1>7, <1>10, EmptySeq DEF TypeOK, Frame
<1>12. PICK n \in Nat : n = Len(stack[a])
  BY <1>1, Belows
<1>13. /\ Spots(stack', s, HoldingAt) = IF all # <<>> THEN {<<a, n>>} ELSE {}
       /\ Spots(stack', s, {"push"}) = {}
  <2>1. CASE all # <<>>
    <3>1. Become(a, frame)
      BY <1>7, <2>1
    <3> QED
      BY <1>1, <1>2, <1>3, <1>6, <1>9, <1>12, <2>1, <3>1, HolderMoves
  <2>2. CASE all = <<>>
    <3>1. Return(a)
      BY <1>7, <2>2
    <3> QED
      BY <1>1, <1>2, <1>3, <1>9, <2>2, <3>1, HolderLeaves
  <2> QED
    BY <2>1, <2>2
<1>14. Held(s)' /\ First(s)'
  BY <1>11, <1>12, <1>13 DEF Held, First, Holders, Pushers
<1>15. PushingOf(stack, s) = <<>>
  BY <1>10, <1>11, PushingNobody
<1>16. PushingOf(stack', s) = <<>>
  BY <1>11, <1>13, PushingNobody
<1>17. <<>> \o ready[s] = ready[s] /\ <<>> \o all = all /\ all \o <<>> = all
  BY <1>4, <1>11, ConcatEmptySeq
<1>18. Pending(s) = all /\ Pending(s)' = all
  BY <1>4, <1>11, <1>15, <1>16, <1>17, PendingIs
<1>19. Ordered(s)'
  BY <1>7, <1>9, <1>18 DEF Ordered
<1> QED
  BY <1>8, <1>14, <1>19 DEF Good

\* An exception ends the loop of an invoker, or passes functions.
LEMMA UnwindGood ==
  ASSUME TypeOK, TypeOK', \A s \in Strands : Good(s), NEW a \in Actors, Unwind(a)
  PROVE  \A s \in Strands : Good(s)'
<1>0. UNCHANGED <<queues, scheduled, history>>
  BY DEF Unwind
<1>1. CASE At(a, "run") /\ Goto(a, "exit")
  <2>1. Busy(a) /\ Top(a).at = "run" /\ Top(a) \in InvokerFrames /\ Top(a).s \in Strands
    BY <1>1, TopTypes DEF At
  <2>2. PICK s \in Strands : s = Top(a).s
    BY <2>1
  <2>3. PICK frame : frame = [Top(a) EXCEPT !.at = "exit"]
    OBVIOUS
  <2>4. frame \in Frame /\ frame.s = s /\ frame.at = "exit"
    BY <2>1, <2>2, <2>3, NextInvokerFrame
  <2>5. "run" \in HoldingAt \ {"push"} /\ "exit" \in HoldingAt \ {"push"}
    BY DEF HoldingAt
  <2>6. Become(a, frame)
    BY <1>1, <2>3 DEF Goto
  <2> QED
    BY <1>0, <2>1, <2>2, <2>4, <2>5, <2>6, MovedOn
<1>2. CASE At(a, "fn") /\ Return(a)
  BY <1>0, <1>2, FunctionEndsGood
<1>3. CASE UNCHANGED stack
  <2>1. \A s : Kept(s)
    BY <1>3 DEF Kept
  <2>2. \A s \in Strands : SameQueues(s)
    BY <1>0 DEF SameQueues, queues, history
  <2> QED
    BY <2>1, <2>2, GoodKept
<1> QED
  BY <1>1, <1>2, <1>3 DEF Unwind

\* The invariant holds at the start.
LEMMA StrandInit == Init => StrandInv
<1> SUFFICES ASSUME Init PROVE StrandInv
  OBVIOUS
<1>1. TypeOK /\ ~destroyed
  BY TypeInit DEF Init
<1>2. \A a \in Actors : Len(stack[a]) = 0
  BY EmptySeq DEF Init
<1>3. stack \in [Actors -> Seq(Frame)]
  BY <1>1 DEF TypeOK, Frame
<1>4. ASSUME NEW s \in Strands PROVE Good(s)
  <2>1. /\ ~locked[s] /\ scheduled[s] = 0 /\ ready[s] = <<>> /\ waiting[s] = <<>>
        /\ accepted[s] = <<>> /\ started[s] = <<>>
    BY DEF Init
  <2>2. \A L : Spots(stack, s, L) = {}
    BY <1>2 DEF Spots
  <2>3. Held(s) /\ First(s)
    BY <2>1, <2>2 DEF Held, First, Holders, Pushers
  <2>4. PushingOf(stack, s) = <<>>
    BY <1>3, <2>2, PushingNobody
  <2>5. Pending(s) = (<<>> \o <<>>) \o <<>>
    BY <2>1, <2>4, PendingIs
  <2>6. <<>> \o <<>> = <<>>
    BY EmptySeq, ConcatEmptySeq
  <2> QED
    BY <2>1, <2>3, <2>5, <2>6 DEF Good, Ordered
<1> QED
  BY <1>1, <1>4 DEF StrandInv

\* Every step of every actor keeps the invariant.
LEMMA StrandKept == StrandInv /\ [Next]_vars => StrandInv'
<1> SUFFICES ASSUME StrandInv, [Next]_vars PROVE StrandInv'
  OBVIOUS
<1>1. TypeOK /\ TypeOK'
  BY TypeKept DEF StrandInv
<1>2. CASE Shutdown
  <2>1. \A a \in Actors : Busy(a)' = Busy(a)
    BY <1>2 DEF Shutdown, Busy
  <2>2. \A s \in Strands : scheduled'[s] = 0
    BY <1>2 DEF Shutdown
  <2> QED
    BY <1>1, <1>2, <2>1, <2>2 DEF StrandInv, Shutdown
<1>3. CASE UNCHANGED vars
  <2>1. \A s : Kept(s)
    BY <1>3 DEF Kept, vars
  <2>2. \A s \in Strands : SameQueues(s)
    BY <1>3 DEF SameQueues, vars, queues, history
  <2>3. \A s \in Strands : Good(s) => Good(s)'
    BY <1>1, <2>1, <2>2, GoodKept
  <2> QED
    BY <1>1, <1>3, <2>3 DEF StrandInv, vars, Busy
<1>4. CASE Next /\ ~Shutdown
  <2>1. PICK a \in Actors : Step(a) \/ \E s \in Strands, how \in Kinds : Submit(a, s, how)
    BY <1>4 DEF Next
  <2>2. destroyed' = destroyed
    BY <2>1 DEF Step, Submit, Enqueue, Push, Schedule, Invoke, RunReady, Exit, Repost,
                Complete, Throw, Unwind
  <2>3. CASE destroyed
    <3>1. ~Busy(a) /\ \A s \in Strands : scheduled[s] = 0
      BY <2>3 DEF StrandInv
    <3>2. Unwind(a)
      <4>1. \A l : ~At(a, l)
        BY <3>1 DEF At
      <4>2. ~ \E s \in Strands : Invoke(a, s)
        BY <3>1 DEF Invoke
      <4>3. ~ \E s \in Strands, how \in Kinds : Submit(a, s, how)
        BY <2>3 DEF Submit
      <4>4. /\ ~Enqueue(a) /\ ~Push(a) /\ ~Schedule(a) /\ ~RunReady(a) /\ ~Exit(a)
            /\ ~Repost(a) /\ ~Complete(a) /\ ~Throw(a)
        BY <4>1 DEF Enqueue, Push, Schedule, RunReady, Exit, Repost, Complete, Throw
      <4> QED
        BY <2>1, <4>2, <4>3, <4>4 DEF Step
    <3>3. UNCHANGED <<stack, scheduled>>
      BY <3>1, <3>2 DEF Unwind, At
    <3> QED
      BY <1>1, <2>2, <2>3, <3>3 DEF StrandInv, Busy
  <2>4. CASE ~destroyed
    <3>1. \A s \in Strands : Good(s)
      BY <2>4 DEF StrandInv
    <3>2. \A s \in Strands : Good(s)'
      <4>1. CASE Enqueue(a)
        BY <1>1, <3>1, <4>1, EnqueueGood
      <4>2. CASE Push(a)
        BY <1>1, <3>1, <4>2, PushGood
      <4>3. CASE Schedule(a)
        BY <1>1, <3>1, <4>3, ScheduleGood
      <4>4. CASE RunReady(a)
        BY <1>1, <3>1, <4>4, RunReadyGood
      <4>5. CASE Exit(a)
        BY <1>1, <3>1, <4>5, ExitGood
      <4>6. CASE Repost(a)
        BY <1>1, <3>1, <4>6, RepostGood
      <4>7. CASE Complete(a) \/ Throw(a)
        BY <1>1, <3>1, <4>7, FunctionEndsGood DEF Complete, Throw
      <4>8. CASE Unwind(a)
        BY <1>1, <3>1, <4>8, UnwindGood
      <4>9. ASSUME NEW s \in Strands, Invoke(a, s) PROVE \A x \in Strands : Good(x)'
        BY <1>1, <3>1, <4>9, InvokeGood
      <4>10. ASSUME NEW s \in Strands, NEW how \in Kinds, Submit(a, s, how)
             PROVE  \A x \in Strands : Good(x)'
        BY <1>1, <3>1, <4>10, SubmitGood
      <4> QED
        BY <2>1, <4>1, <4>2, <4>3, <4>4, <4>5, <4>6, <4>7, <4>8, <4>9, <4>10 DEF Step
    <3> QED
      BY <1>1, <2>2, <2>4, <3>2 DEF StrandInv
  <2> QED
    BY <2>3, <2>4
<1> QED
  BY <1>2, <1>3, <1>4

\* For every number of threads, clients, strands and functions: the types, who holds
\* each strand, and what has been started of what was accepted.
THEOREM StrandInvariant == Spec => []StrandInv
BY StrandInit, StrandKept, PTL DEF Spec

\* One place that holds the strand is one actor responsible for it.
LEMMA OneHolderHolds == StrandInv => OneHolder
<1> SUFFICES ASSUME StrandInv, ~destroyed, NEW s \in Strands
             PROVE  /\ Cardinality(Responsible(s)) + scheduled[s] = IF locked[s] THEN 1 ELSE 0
                    /\ ~locked[s] => ready[s] = <<>> /\ waiting[s] = <<>>
  BY DEF OneHolder
<1>1. Held(s) /\ TypeOK
  BY DEF StrandInv, Good
<1>2. ASSUME NEW a \in Actors
      PROVE  a \in Responsible(s) <=> \E i \in Nat : <<a, i>> \in Spots(stack, s, HoldingAt)
  <2>1. DOMAIN stack[a] = 1 .. Len(stack[a]) /\ Len(stack[a]) \in Nat
    BY <1>1, LenProperties DEF TypeOK
  <2>2. a \in Responsible(s) <=>
          \E i \in 1 .. Len(stack[a]) : stack[a][i].s = s /\ stack[a][i].at \in HoldingAt
    BY <2>1 DEF Responsible, Frames, HoldingAt
  <2>3. \A i \in Nat : <<a, i>> \in Spots(stack, s, HoldingAt) <=>
          i \in 1 .. Len(stack[a]) /\ stack[a][i].s = s /\ stack[a][i].at \in HoldingAt
    BY DEF Spots
  <2>4. \A i \in 1 .. Len(stack[a]) : i \in Nat
    BY <2>1
  <2> HIDE DEF HoldingAt
  <2> QED
    BY <2>2, <2>3, <2>4, Zenon
<1>3. CASE Spots(stack, s, HoldingAt) = {}
  <2>1. Responsible(s) = {}
    BY <1>2, <1>3 DEF Responsible
  <2> QED
    BY <1>1, <1>3, <2>1, FS_EmptySet DEF Held, Holders
<1>4. CASE Spots(stack, s, HoldingAt) # {}
  <2>1. /\ locked[s] /\ scheduled[s] = 0
        /\ \E h \in Actors \X Nat : Spots(stack, s, HoldingAt) = {h}
    BY <1>1, <1>4 DEF Held, Holders
  <2>2. PICK a \in Actors, i \in Nat : Spots(stack, s, HoldingAt) = {<<a, i>>}
    BY <2>1
  <2>3. Responsible(s) = {a}
    BY <1>2, <2>2 DEF Responsible
  <2>4. Cardinality(Responsible(s)) = 1
    BY <2>3, FS_Singleton
  <2> QED
    BY <2>1, <2>4
<1> QED
  BY <1>3, <1>4

\* InOrder is a part of the invariant.
LEMMA InOrderHolds == StrandInv => InOrder
BY DEF StrandInv, Good, Ordered, InOrder

\* The right to use ready_queue_ without a lock is never duplicated and never lost,
\* whatever is submitted from wherever and whatever throws.
THEOREM RightNeverDuplicated == Spec => []OneHolder
BY StrandInvariant, OneHolderHolds, PTL

\* Functions are started in the order in which enqueue accepted them; none is lost
\* and none is started twice.
THEOREM StartedInOrder == Spec => []InOrder
BY StrandInvariant, InOrderHolds, PTL

-----------------------------------------------------------------------------
(* The strands implement SerialExecutor *)

\* Places and FunctionsRunning, of one stack.
FnPlaces(st, s) == {i \in DOMAIN st : st[i].at = "fn" /\ st[i].s = s}
FnNth(st, s, n) ==
  {i \in FnPlaces(st, s) : Cardinality({j \in FnPlaces(st, s) : j <= i}) = n}
FnRunning(st, s) ==
  [n \in 1 .. Cardinality(FnPlaces(st, s)) |-> Only({st[i].f : i \in FnNth(st, s, n)})]

\* The functions a strand has on a stack, before and after a step.
LEMMA FnIs ==
  ASSUME NEW a, NEW s
  PROVE  /\ Places(a, s) = FnPlaces(stack[a], s)
         /\ Places(a, s)' = FnPlaces(stack'[a], s)
         /\ FunctionsRunning(a, s) = FnRunning(stack[a], s)
         /\ FunctionsRunning(a, s)' = FnRunning(stack'[a], s)
BY DEF Places, FunctionsRunning, FnPlaces, FnRunning, FnNth

\* hi is lo with one more frame.
Extends(hi, lo) ==
  /\ hi \in Seq(Frame) /\ lo \in Seq(Frame)
  /\ Len(hi) = Len(lo) + 1
  /\ \A i \in 1 .. Len(lo) : hi[i] = lo[i]

\* A stack holds finitely many functions of s.
LEMMA FnFinite ==
  ASSUME NEW st \in Seq(Frame), NEW s
  PROVE  /\ FnPlaces(st, s) \subseteq 1 .. Len(st)
         /\ IsFiniteSet(FnPlaces(st, s))
         /\ Cardinality(FnPlaces(st, s)) \in Nat
         /\ Len(st) \in Nat
<1>1. Len(st) \in Nat /\ FnPlaces(st, s) \subseteq 1 .. Len(st)
  BY LenProperties DEF FnPlaces
<1>2. IsFiniteSet(1 .. Len(st))
  BY <1>1, FS_Interval
<1>3. IsFiniteSet(FnPlaces(st, s))
  BY <1>1, <1>2, FS_Subset
<1> QED
  BY <1>1, <1>3, FS_CardinalityType

\* Only one element.
LEMMA OnlyOne == ASSUME NEW x PROVE Only({x}) = x
BY DEF Only

\* A frame that is no function of s changes nothing for s.
LEMMA FnOther ==
  ASSUME NEW hi, NEW lo, Extends(hi, lo), NEW s,
         ~(hi[Len(hi)].at = "fn" /\ hi[Len(hi)].s = s)
  PROVE  FnPlaces(hi, s) = FnPlaces(lo, s) /\ FnRunning(hi, s) = FnRunning(lo, s)
<1>1. Len(lo) \in Nat /\ DOMAIN lo = 1 .. Len(lo) /\ DOMAIN hi = 1 .. Len(lo) + 1
  BY LenProperties DEF Extends
<1>2. FnPlaces(hi, s) = FnPlaces(lo, s)
  BY <1>1 DEF Extends, FnPlaces
<1>3. \A n : FnNth(hi, s, n) = FnNth(lo, s, n)
  BY <1>2 DEF FnNth
<1>4. \A n : {hi[i].f : i \in FnNth(hi, s, n)} = {lo[i].f : i \in FnNth(lo, s, n)}
  <2>1. \A n : \A i \in FnNth(lo, s, n) : hi[i] = lo[i]
    BY <1>1 DEF FnNth, FnPlaces, Extends
  <2> QED
    BY <1>3, <2>1
<1> QED
  BY <1>2, <1>4 DEF FnRunning

\* A function of s is the innermost one.
LEMMA FnNested ==
  ASSUME NEW hi, NEW lo, Extends(hi, lo), NEW s,
         hi[Len(hi)].at = "fn", hi[Len(hi)].s = s
  PROVE  /\ FnPlaces(hi, s) = FnPlaces(lo, s) \cup {Len(hi)}
         /\ FnRunning(hi, s) = Append(FnRunning(lo, s), hi[Len(hi)].f)
         /\ Cardinality(FnPlaces(hi, s)) = Cardinality(FnPlaces(lo, s)) + 1
<1> DEFINE m == Len(hi)
           P == FnPlaces(lo, s)
           Q == FnPlaces(hi, s)
           N == Cardinality(P)
<1>1. Len(lo) \in Nat /\ DOMAIN lo = 1 .. Len(lo) /\ DOMAIN hi = 1 .. Len(lo) + 1 /\ m = Len(lo) + 1
  BY LenProperties DEF Extends
<1>2. Q = P \cup {m}
  BY <1>1 DEF Extends, FnPlaces
<1>3. IsFiniteSet(P) /\ N \in Nat /\ P \subseteq 1 .. Len(lo)
  BY FnFinite DEF Extends
<1>4. m \notin P /\ IsFiniteSet(Q) /\ Cardinality(Q) = N + 1
  BY <1>1, <1>2, <1>3, FS_AddElement
<1>5. \A i \in P : {j \in Q : j <= i} = {j \in P : j <= i}
  BY <1>1, <1>2, <1>3
<1>6. {j \in Q : j <= m} = Q
  BY <1>1, <1>2, <1>3
<1>7. \A i \in P : Cardinality({j \in P : j <= i}) \in 0 .. N
  <2>1. \A i \in P : {j \in P : j <= i} \subseteq P
    OBVIOUS
  <2>2. \A T \in SUBSET P : IsFiniteSet(T) /\ Cardinality(T) <= N
    BY <1>3, FS_Subset
  <2>3. \A T \in SUBSET P : Cardinality(T) \in Nat
    BY <2>2, FS_CardinalityType
  <2> QED
    BY <1>3, <2>1, <2>2, <2>3
<1>8. \A n \in 1 .. N : FnNth(hi, s, n) = FnNth(lo, s, n)
  <2> SUFFICES ASSUME NEW n \in 1 .. N
               PROVE  {i \in Q : Cardinality({j \in Q : j <= i}) = n}
                        = {i \in P : Cardinality({j \in P : j <= i}) = n}
    BY DEF FnNth
  <2>0. Cardinality({j \in Q : j <= m}) = N + 1
    BY <1>4, <1>6
  <2>1. Cardinality({j \in Q : j <= m}) # n
    <3> HIDE DEF N
    <3> QED
      BY <1>3, <2>0
  <2>2. \A i \in P : Cardinality({j \in Q : j <= i}) = Cardinality({j \in P : j <= i})
    BY <1>5
  <2> HIDE DEF P, Q, m
  <2> QED
    BY <1>2, <2>1, <2>2
<1>9. FnNth(hi, s, N + 1) = {m}
  <2> SUFFICES {i \in Q : Cardinality({j \in Q : j <= i}) = N + 1} = {m}
    BY DEF FnNth
  <2>1. Cardinality({j \in Q : j <= m}) = N + 1
    BY <1>4, <1>6
  <2>2. \A i \in P : Cardinality({j \in Q : j <= i}) # N + 1
    BY <1>3, <1>5, <1>7
  <2> HIDE DEF P, Q, m, N
  <2> QED
    BY <1>2, <2>1, <2>2
<1>10. ASSUME NEW n \in 1 .. N
       PROVE  {hi[i].f : i \in FnNth(hi, s, n)} = {lo[i].f : i \in FnNth(lo, s, n)}
  <2>1. \A i \in FnNth(lo, s, n) : hi[i] = lo[i]
    BY <1>1 DEF FnNth, FnPlaces, Extends
  <2> QED
    BY <1>8, <2>1
<1>11. {hi[i].f : i \in FnNth(hi, s, N + 1)} = {hi[m].f}
  BY <1>9
<1> DEFINE R == FnRunning(lo, s)
           T == FnRunning(hi, s)
           x == hi[m].f
           All == {R[n] : n \in 1 .. N} \cup {x}
<1>12. R = [n \in 1 .. N |-> R[n]]
  BY DEF FnRunning
<1>13. R \in Seq(All) /\ Len(R) = N
  <2>1. \A n \in 1 .. N : R[n] \in All
    OBVIOUS
  <2> HIDE DEF R, All
  <2> QED
    BY <1>3, <1>12, <2>1
<1>14. T = [n \in 1 .. N + 1 |-> T[n]]
  BY <1>4 DEF FnRunning
<1>15. \A n \in 1 .. N : T[n] = R[n]
  <2> TAKE n \in 1 .. N
  <2>1. n \in 1 .. N + 1
    BY <1>3
  <2>2. T[n] = Only({hi[i].f : i \in FnNth(hi, s, n)})
    BY <1>4, <2>1 DEF FnRunning
  <2>3. R[n] = Only({lo[i].f : i \in FnNth(lo, s, n)})
    BY DEF FnRunning
  <2> QED
    BY <1>10, <2>2, <2>3
<1>16. T[N + 1] = x
  <2>1. N + 1 \in 1 .. N + 1
    BY <1>3
  <2>2. T[N + 1] = Only({hi[i].f : i \in FnNth(hi, s, N + 1)})
    BY <1>4, <2>1 DEF FnRunning
  <2> QED
    BY <1>11, <2>2, OnlyOne
<1>17. T = Append(R, x)
  <2>1. x \in All
    OBVIOUS
  <2> HIDE DEF T, R, x, All, N
  <2>2. /\ Append(R, x) \in Seq(All) /\ Len(Append(R, x)) = N + 1
        /\ \A i \in 1 .. N : Append(R, x)[i] = R[i]
        /\ Append(R, x)[N + 1] = x
    BY <1>13, <2>1, AppendProperties
  <2>3. Append(R, x) = [n \in 1 .. N + 1 |-> Append(R, x)[n]]
    BY <2>2, LenProperties
  <2>4. \A n \in 1 .. N + 1 : T[n] = Append(R, x)[n]
    BY <1>3, <1>15, <1>16, <2>2
  <2> QED
    BY <1>14, <2>3, <2>4
<1> QED
  BY <1>2, <1>4, <1>17

\* What runs of s in the stacks stk.
FnActors(stk, s) == {a \in Actors : FnPlaces(stk[a], s) # {}}
FnOwner(stk, s) == IF FnActors(stk, s) = {} THEN NoOne ELSE Only(FnActors(stk, s))
FnOfOwner(stk, s) ==
  IF FnActors(stk, s) = {} THEN <<>> ELSE FnRunning(stk[FnOwner(stk, s)], s)

\* What SerialExecutor sees of s, before and after a step.
LEMMA ViewIs ==
  ASSUME NEW s
  PROVE  /\ Owner(s) = FnOwner(stack, s) /\ Owner(s)' = FnOwner(stack', s)
         /\ Running(s) = FnOfOwner(stack, s) /\ Running(s)' = FnOfOwner(stack', s)
<1>1. Executing(s) = FnActors(stack, s) /\ Executing(s)' = FnActors(stack', s)
  BY FnIs DEF Executing, FnActors
<1>2. Owner(s) = FnOwner(stack, s) /\ Owner(s)' = FnOwner(stack', s)
  BY <1>1 DEF Owner, FnOwner
<1> QED
  BY <1>1, <1>2, FnIs DEF Running, FnOfOwner

\* Without functions of s nothing of s runs.
LEMMA FnNone ==
  ASSUME NEW st \in Seq(Frame), NEW s, FnPlaces(st, s) = {}
  PROVE  FnRunning(st, s) = <<>>
<1>1. 1 .. Cardinality(FnPlaces(st, s)) = {}
  BY FS_EmptySet
<1> QED
  BY <1>1 DEF FnRunning

\* Functions of s run on a only.
LEMMA FnView ==
  ASSUME NEW stk \in [Actors -> Seq(Frame)], NEW s, NEW a \in Actors, FnActors(stk, s) \subseteq {a}
  PROVE  /\ FnOfOwner(stk, s) = FnRunning(stk[a], s)
         /\ FnOwner(stk, s) = IF FnPlaces(stk[a], s) = {} THEN NoOne ELSE a
<1>1. CASE FnPlaces(stk[a], s) = {}
  <2>1. FnActors(stk, s) = {}
    BY <1>1 DEF FnActors
  <2> QED
    BY <1>1, <2>1, FnNone DEF FnOwner, FnOfOwner
<1>2. CASE FnPlaces(stk[a], s) # {}
  <2>1. FnActors(stk, s) = {a}
    BY <1>2 DEF FnActors
  <2>2. FnOwner(stk, s) = a
    BY <2>1, OnlyOne DEF FnOwner
  <2> QED
    BY <1>2, <2>1, <2>2 DEF FnOfOwner
<1> QED
  BY <1>1, <1>2

-----------------------------------------------------------------------------
(* The shape of call stacks *)

InvokerAt == {"run", "exit", "repost"}

\* An invoker that is not the innermost frame has called a function of its strand, and
\* every function runs inside an invoker of its strand.
Shape(st) ==
  /\ \A i \in 1 .. Len(st) - 1 :
       st[i].at \in InvokerAt => st[i + 1].at = "fn" /\ st[i + 1].s = st[i].s
  /\ \A i \in 1 .. Len(st) :
       st[i].at = "fn" => \E j \in 1 .. i - 1 : st[j].at \in InvokerAt /\ st[j].s = st[i].s

\* A return keeps the shape.
LEMMA ShapeReturn ==
  ASSUME NEW hi, NEW lo, Extends(hi, lo), Shape(hi)
  PROVE  Shape(lo)
<1>1. Len(lo) \in Nat
  BY LenProperties DEF Extends
<1> QED
  BY <1>1 DEF Extends, Shape

\* A call keeps the shape: an invoker calls functions of its strand only, and a function is
\* called inside an invoker of its strand.
LEMMA ShapeCall ==
  ASSUME NEW hi, NEW lo, Extends(hi, lo), Shape(lo),
         Len(lo) = 0 \/ lo[Len(lo)].at \notin InvokerAt
           \/ (hi[Len(hi)].at = "fn" /\ hi[Len(hi)].s = lo[Len(lo)].s),
         hi[Len(hi)].at = "fn" =>
           \E j \in 1 .. Len(lo) : lo[j].at \in InvokerAt /\ lo[j].s = hi[Len(hi)].s
  PROVE  Shape(hi)
<1>1. Len(lo) \in Nat
  BY LenProperties DEF Extends
<1>2. ASSUME NEW i \in 1 .. Len(hi) - 1, hi[i].at \in InvokerAt
      PROVE  hi[i + 1].at = "fn" /\ hi[i + 1].s = hi[i].s
  <2>1. CASE i < Len(lo)
    BY <1>1, <1>2, <2>1 DEF Extends, Shape
  <2>2. CASE i = Len(lo)
    BY <1>1, <1>2, <2>2 DEF Extends
  <2> QED
    BY <1>1, <2>1, <2>2 DEF Extends
<1>3. ASSUME NEW i \in 1 .. Len(hi), hi[i].at = "fn"
      PROVE  \E j \in 1 .. i - 1 : hi[j].at \in InvokerAt /\ hi[j].s = hi[i].s
  <2>1. CASE i <= Len(lo)
    <3>1. PICK j \in 1 .. i - 1 : lo[j].at \in InvokerAt /\ lo[j].s = lo[i].s
      BY <1>1, <1>3, <2>1 DEF Extends, Shape
    <3> QED
      BY <1>1, <2>1, <3>1 DEF Extends
  <2>2. CASE i = Len(lo) + 1
    <3>1. PICK j \in 1 .. Len(lo) : lo[j].at \in InvokerAt /\ lo[j].s = hi[Len(hi)].s
      BY <1>3, <2>2 DEF Extends
    <3> QED
      BY <1>1, <2>2, <3>1 DEF Extends
  <2> QED
    BY <1>1, <2>1, <2>2 DEF Extends
<1> QED
  BY <1>2, <1>3 DEF Shape

\* A frame that goes on to its next point keeps the shape.
LEMMA ShapeBecome ==
  ASSUME NEW hi, NEW new, NEW lo, Extends(hi, lo), Extends(new, lo), Shape(hi),
         hi[Len(hi)].at # "fn", new[Len(new)].at # "fn"
  PROVE  Shape(new)
<1>1. Len(lo) \in Nat
  BY LenProperties DEF Extends
<1>2. Len(lo) = 0 \/ lo[Len(lo)].at \notin InvokerAt
  BY <1>1 DEF Extends, Shape
<1> QED
  BY <1>2, ShapeReturn, ShapeCall

\* What calls, returns and replacements do to the stack of the actor.
LEMMA StackExtends ==
  ASSUME TypeOK, NEW a \in Actors
  PROVE  /\ \A frame \in Frame : Call(a, frame) =>
              Extends(stack'[a], stack[a]) /\ stack'[a][Len(stack'[a])] = frame
         /\ Busy(a) /\ Return(a) =>
              Extends(stack[a], stack'[a]) /\ stack[a][Len(stack[a])] = Top(a)
         /\ \A frame \in Frame : Busy(a) /\ Become(a, frame) =>
              /\ Extends(stack[a], Below(a)) /\ Extends(stack'[a], Below(a))
              /\ stack[a][Len(stack[a])] = Top(a) /\ stack'[a][Len(stack'[a])] = frame
<1>0. stack \in [Actors -> Seq(Frame)]
  BY DEF TypeOK, Frame
<1>1. ASSUME NEW frame \in Frame, Call(a, frame)
      PROVE  Extends(stack'[a], stack[a]) /\ stack'[a][Len(stack'[a])] = frame
  BY <1>0, <1>1, Calls DEF Extends
<1>2. ASSUME Busy(a), Return(a)
      PROVE  Extends(stack[a], stack'[a]) /\ stack[a][Len(stack[a])] = Top(a)
  <2>1. Len(stack[a]) = Len(stack'[a]) + 1
    BY <1>2, Returns, Belows
  <2>2. \A i \in 1 .. Len(stack'[a]) : stack[a][i] = stack'[a][i]
    BY <1>2, Returns
  <2>3. stack'[a] \in Seq(Frame)
    BY <1>2, Returns
  <2> QED
    BY <1>0, <2>1, <2>2, <2>3 DEF Extends, Top
<1>3. ASSUME NEW frame \in Frame, Busy(a), Become(a, frame)
      PROVE  /\ Extends(stack[a], Below(a)) /\ Extends(stack'[a], Below(a))
             /\ stack[a][Len(stack[a])] = Top(a) /\ stack'[a][Len(stack'[a])] = frame
  <2>1. /\ Below(a) \in Seq(Frame) /\ Len(stack[a]) = Len(Below(a)) + 1
        /\ \A i \in 1 .. Len(Below(a)) : stack[a][i] = Below(a)[i]
    BY <1>3, Belows
  <2>2. /\ stack'[a] \in Seq(Frame) /\ Len(stack'[a]) = Len(Below(a)) + 1
        /\ \A i \in 1 .. Len(Below(a)) : stack'[a][i] = Below(a)[i]
        /\ stack'[a][Len(stack'[a])] = frame
    BY <1>3, Becomes, Belows
  <2> QED
    BY <1>0, <2>1, <2>2 DEF Extends, Top
<1> QED
  BY <1>1, <1>2, <1>3

\* The stack of one actor changes, and not for s.
LEMMA ViewSame ==
  ASSUME NEW old \in [Actors -> Seq(Frame)], NEW new \in [Actors -> Seq(Frame)],
         NEW a \in Actors, NEW s, \A b \in Actors \ {a} : new[b] = old[b],
         FnPlaces(new[a], s) = FnPlaces(old[a], s), FnRunning(new[a], s) = FnRunning(old[a], s)
  PROVE  FnOwner(new, s) = FnOwner(old, s) /\ FnOfOwner(new, s) = FnOfOwner(old, s)
<1>1. \A b \in Actors : /\ FnPlaces(new[b], s) = FnPlaces(old[b], s)
                        /\ FnRunning(new[b], s) = FnRunning(old[b], s)
  OBVIOUS
<1>2. FnActors(new, s) = FnActors(old, s)
  BY <1>1 DEF FnActors
<1>3. FnOwner(new, s) = FnOwner(old, s)
  BY <1>2 DEF FnOwner
<1>4. FnActors(old, s) # {} => FnOwner(old, s) \in Actors
  BY DEF FnOwner, Only, FnActors
<1> QED
  BY <1>1, <1>2, <1>3, <1>4 DEF FnOfOwner

\* SerialExecutor sees nothing of a step that neither starts nor ends a function.
LEMMA Unseen ==
  ASSUME TypeOK, TypeOK', NEW a \in Actors,
         \/ \E frame \in Frame : frame.at # "fn" /\ Call(a, frame)
         \/ Busy(a) /\ Top(a).at # "fn" /\ Return(a)
         \/ \E frame \in Frame : Busy(a) /\ Top(a).at # "fn" /\ frame.at # "fn" /\ Become(a, frame)
         \/ UNCHANGED stack
  PROVE  \A s \in Strands : Running(s)' = Running(s) /\ Owner(s)' = Owner(s)
<1> SUFFICES ASSUME NEW s \in Strands
             PROVE  FnOwner(stack', s) = FnOwner(stack, s) /\ FnOfOwner(stack', s) = FnOfOwner(stack, s)
  BY ViewIs
<1>1. stack \in [Actors -> Seq(Frame)] /\ stack' \in [Actors -> Seq(Frame)]
  BY DEF TypeOK, Frame
<1>2. ASSUME NEW frame \in Frame, frame.at # "fn", Call(a, frame)
      PROVE  /\ \A b \in Actors \ {a} : stack'[b] = stack[b]
             /\ FnPlaces(stack'[a], s) = FnPlaces(stack[a], s)
             /\ FnRunning(stack'[a], s) = FnRunning(stack[a], s)
  BY <1>2, Calls, StackExtends, FnOther
<1>3. ASSUME Busy(a), Top(a).at # "fn", Return(a)
      PROVE  /\ \A b \in Actors \ {a} : stack'[b] = stack[b]
             /\ FnPlaces(stack'[a], s) = FnPlaces(stack[a], s)
             /\ FnRunning(stack'[a], s) = FnRunning(stack[a], s)
  BY <1>3, Returns, StackExtends, FnOther
<1>4. ASSUME NEW frame \in Frame, Busy(a), Top(a).at # "fn", frame.at # "fn", Become(a, frame)
      PROVE  /\ \A b \in Actors \ {a} : stack'[b] = stack[b]
             /\ FnPlaces(stack'[a], s) = FnPlaces(stack[a], s)
             /\ FnRunning(stack'[a], s) = FnRunning(stack[a], s)
  <2>1. /\ Extends(stack[a], Below(a)) /\ Extends(stack'[a], Below(a))
        /\ stack[a][Len(stack[a])].at # "fn" /\ stack'[a][Len(stack'[a])].at # "fn"
    BY <1>4, StackExtends
  <2>2. /\ FnPlaces(stack[a], s) = FnPlaces(Below(a), s)
        /\ FnRunning(stack[a], s) = FnRunning(Below(a), s)
    BY <2>1, FnOther
  <2>3. /\ FnPlaces(stack'[a], s) = FnPlaces(Below(a), s)
        /\ FnRunning(stack'[a], s) = FnRunning(Below(a), s)
    BY <2>1, FnOther
  <2> QED
    BY <1>4, <2>2, <2>3, Becomes
<1>5. /\ \A b \in Actors \ {a} : stack'[b] = stack[b]
      /\ FnPlaces(stack'[a], s) = FnPlaces(stack[a], s)
      /\ FnRunning(stack'[a], s) = FnRunning(stack[a], s)
  BY <1>2, <1>3, <1>4
<1> QED
  BY <1>1, <1>5, ViewSame

-----------------------------------------------------------------------------
(* One thread at a time *)

ShapeInv == \A a \in Actors : Shape(stack[a])

\* Every function runs inside the invoker that holds its strand.
LEMMA InsideHolder ==
  ASSUME NEW stk \in [Actors -> Seq(Frame)], NEW s, NEW b \in Actors, Shape(stk[b]),
         NEW i \in FnPlaces(stk[b], s)
  PROVE  \E j \in Nat : j < i /\ <<b, j>> \in Spots(stk, s, HoldingAt)
<1>1. i \in 1 .. Len(stk[b]) /\ stk[b][i].at = "fn" /\ stk[b][i].s = s /\ Len(stk[b]) \in Nat
  BY LenProperties DEF FnPlaces
<1>2. PICK j \in 1 .. i - 1 : stk[b][j].at \in InvokerAt /\ stk[b][j].s = s
  BY <1>1 DEF Shape
<1>3. j \in Nat /\ j < i /\ j \in 1 .. Len(stk[b])
  BY <1>1, <1>2
<1> QED
  BY <1>2, <1>3 DEF Spots, HoldingAt, InvokerAt

\* The strand is held in one place, so its functions run on one stack.
LEMMA OneActor ==
  ASSUME TypeOK, ShapeInv, NEW s, NEW a \in Actors, NEW j \in Nat, Spots(stack, s, HoldingAt) = {<<a, j>>}
  PROVE  /\ FnActors(stack, s) \subseteq {a}
         /\ \A i \in FnPlaces(stack[a], s) : j < i
<1>1. stack \in [Actors -> Seq(Frame)]
  BY DEF TypeOK, Frame
<1>2. ASSUME NEW b \in Actors, NEW i \in FnPlaces(stack[b], s) PROVE b = a /\ j < i
  <2>1. PICK k \in Nat : k < i /\ <<b, k>> \in Spots(stack, s, HoldingAt)
    BY <1>1, InsideHolder DEF ShapeInv
  <2> QED
    BY <2>1
<1> QED
  BY <1>2 DEF FnActors

\* The innermost frame of a is a function of s: s runs on a only.
LEMMA TopRuns ==
  ASSUME TypeOK, ShapeInv, NEW s \in Strands, Held(s), NEW a \in Actors, FnPlaces(stack[a], s) # {}
  PROVE  FnActors(stack, s) = {a}
<1>1. stack \in [Actors -> Seq(Frame)]
  BY DEF TypeOK, Frame
<1>2. PICK j \in Nat : <<a, j>> \in Spots(stack, s, HoldingAt)
  BY <1>1, InsideHolder DEF ShapeInv
<1>3. Spots(stack, s, HoldingAt) = {<<a, j>>}
  BY <1>2 DEF Held, Holders
<1> QED
  BY <1>3, OneActor DEF FnActors

-----------------------------------------------------------------------------
(* Functions start and end *)

\* A function of s is called on a, the only actor that may run functions of s.
LEMMA FunctionCalled ==
  ASSUME TypeOK, TypeOK', NEW a \in Actors, NEW s \in Strands, NEW f \in Functions,
         Call(a, FunctionOf(s, f)), FnActors(stack, s) \subseteq {a}
  PROVE  /\ Running(s)' = Append(Running(s), f) /\ Owner(s)' = a
         /\ \A x \in Strands \ {s} : Running(x)' = Running(x) /\ Owner(x)' = Owner(x)
         /\ FnActors(stack, s) = {} => Running(s) = <<>> /\ Owner(s) = NoOne
         /\ FnActors(stack, s) # {} => Owner(s) = a
<1> DEFINE frame == FunctionOf(s, f)
<1>1. frame \in Frame /\ frame.at = "fn" /\ frame.s = s /\ frame.f = f
  BY NewFrames DEF FunctionOf
<1>2. stack \in [Actors -> Seq(Frame)] /\ stack' \in [Actors -> Seq(Frame)]
  BY DEF TypeOK, Frame
<1> HIDE DEF frame
<1>3. /\ Extends(stack'[a], stack[a]) /\ stack'[a][Len(stack'[a])] = frame
      /\ \A b \in Actors \ {a} : stack'[b] = stack[b]
  BY <1>1, StackExtends, Calls DEF frame
<1>4. /\ FnPlaces(stack'[a], s) # {}
      /\ FnRunning(stack'[a], s) = Append(FnRunning(stack[a], s), f)
  BY <1>1, <1>3, FnNested
<1>5. FnActors(stack', s) \subseteq {a}
  BY <1>3 DEF FnActors
<1>6. FnOfOwner(stack', s) = Append(FnOfOwner(stack, s), f) /\ FnOwner(stack', s) = a
  BY <1>2, <1>4, <1>5, FnView
<1>7. ASSUME NEW x \in Strands \ {s}
      PROVE  FnOwner(stack', x) = FnOwner(stack, x) /\ FnOfOwner(stack', x) = FnOfOwner(stack, x)
  <2>1. /\ FnPlaces(stack'[a], x) = FnPlaces(stack[a], x)
        /\ FnRunning(stack'[a], x) = FnRunning(stack[a], x)
    BY <1>1, <1>3, FnOther
  <2> QED
    BY ZenonT(40), <1>2, <1>3, <2>1, ViewSame
<1>8. FnActors(stack, s) = {} => FnOfOwner(stack, s) = <<>> /\ FnOwner(stack, s) = NoOne
  BY DEF FnOfOwner, FnOwner
<1>9. FnActors(stack, s) # {} => FnOwner(stack, s) = a
  <2>1. FnActors(stack, s) # {} => FnPlaces(stack[a], s) # {}
    BY DEF FnActors
  <2> QED
    BY <1>2, <2>1, FnView
<1> QED
  BY <1>6, <1>7, <1>8, <1>9, ViewIs

\* The last element is taken off again.
LEMMA FrontOfAppend ==
  ASSUME NEW S, NEW r \in Seq(S), NEW x
  PROVE  /\ SubSeq(Append(r, x), 1, Len(Append(r, x)) - 1) = r
         /\ Len(Append(r, x)) = Len(r) + 1 /\ Len(r) \in Nat
<1> DEFINE T == S \cup {x}
<1>1. r \in Seq(T)
  BY SeqMonotonic
<1>2. /\ Append(r, x) \in Seq(T) /\ Len(Append(r, x)) = Len(r) + 1 /\ Len(r) \in Nat
      /\ \A i \in 1 .. Len(r) : Append(r, x)[i] = r[i]
  BY <1>1, AppendProperties, LenProperties
<1>3. \A i \in 1 .. Len(r) : Append(r, x)[i] \in T
  BY <1>1, <1>2, ElementOfSeq
<1>4. /\ SubSeq(Append(r, x), 1, Len(r)) \in Seq(T)
      /\ Len(SubSeq(Append(r, x), 1, Len(r))) = Len(r)
      /\ \A i \in 1 .. Len(r) : SubSeq(Append(r, x), 1, Len(r))[i] = r[i]
  <2> HIDE DEF T
  <2>1. /\ SubSeq(Append(r, x), 1, Len(r)) \in Seq(T)
        /\ Len(SubSeq(Append(r, x), 1, Len(r))) = IF 1 <= Len(r) THEN Len(r) - 1 + 1 ELSE 0
        /\ \A i \in 1 .. Len(r) - 1 + 1 : SubSeq(Append(r, x), 1, Len(r))[i] = Append(r, x)[1 + i - 1]
    BY <1>2, <1>3, SubSeqProperties
  <2> QED
    BY <1>2, <2>1
<1>5. SubSeq(Append(r, x), 1, Len(r)) = r
  BY <1>1, <1>4, SeqEqual
<1> QED
  BY <1>2, <1>5

\* The functions in execution are a sequence.
LEMMA FnSeq ==
  ASSUME NEW st \in Seq(Frame), NEW s
  PROVE  /\ \E S : FnRunning(st, s) \in Seq(S)
         /\ Len(FnRunning(st, s)) = Cardinality(FnPlaces(st, s))
<1> DEFINE N == Cardinality(FnPlaces(st, s))
           R == FnRunning(st, s)
           S == {R[n] : n \in 1 .. N}
<1>1. N \in Nat
  BY FnFinite
<1>2. R = [n \in 1 .. N |-> R[n]]
  BY DEF FnRunning
<1>3. \A n \in 1 .. N : R[n] \in S
  OBVIOUS
<1>4. R \in Seq(S) /\ Len(R) = N
  <2> HIDE DEF R, S, N
  <2> QED
    BY <1>1, <1>2, <1>3
<1> QED
  BY <1>4

\* The innermost function of s ends.
LEMMA FunctionEnded ==
  ASSUME TypeOK, TypeOK', ShapeInv, NEW a \in Actors, Busy(a), Top(a).at = "fn", Return(a),
         NEW s \in Strands, s = Top(a).s, Held(s)
  PROVE  /\ Running(s)' = SubSeq(Running(s), 1, Len(Running(s)) - 1)
         /\ Owner(s)' = IF Len(Running(s)) = 1 THEN NoOne ELSE Owner(s)
         /\ Owner(s) # NoOne
         /\ \A x \in Strands \ {s} : Running(x)' = Running(x) /\ Owner(x)' = Owner(x)
<1>1. stack \in [Actors -> Seq(Frame)] /\ stack' \in [Actors -> Seq(Frame)]
  BY DEF TypeOK, Frame
<1>2. /\ Extends(stack[a], stack'[a])
      /\ stack[a][Len(stack[a])].at = "fn" /\ stack[a][Len(stack[a])].s = s
      /\ \A b \in Actors \ {a} : stack'[b] = stack[b]
  BY StackExtends, Returns
<1> DEFINE f == stack[a][Len(stack[a])].f
           r == FnRunning(stack'[a], s)
           N == Cardinality(FnPlaces(stack'[a], s))
<1>3. /\ FnPlaces(stack[a], s) # {}
      /\ FnRunning(stack[a], s) = Append(r, f)
  BY <1>2, FnNested
<1>4. FnActors(stack, s) = {a}
  BY <1>3, TopRuns
<1>5. FnActors(stack', s) \subseteq {a}
  BY <1>2, <1>4 DEF FnActors
<1>6. FnOfOwner(stack, s) = Append(r, f) /\ FnOwner(stack, s) = a
  BY <1>1, <1>3, <1>4, FnView
<1>7. /\ FnOfOwner(stack', s) = r
      /\ FnOwner(stack', s) = IF FnPlaces(stack'[a], s) = {} THEN NoOne ELSE a
  BY <1>1, <1>5, FnView
<1>8. PICK S : r \in Seq(S) /\ Len(r) = N
  BY <1>1, FnSeq
<1>9. /\ SubSeq(Append(r, f), 1, Len(Append(r, f)) - 1) = r
      /\ Len(Append(r, f)) = N + 1 /\ N \in Nat
  <2> HIDE DEF r, f, N
  <2> QED
    BY <1>8, FrontOfAppend
<1>10. FnPlaces(stack'[a], s) = {} <=> Len(Append(r, f)) = 1
  <2>1. FnPlaces(stack'[a], s) = {} <=> N = 0
    BY <1>1, FnFinite, FS_EmptySet
  <2> HIDE DEF r, f, N
  <2> QED
    BY <1>9, <2>1
<1>11. a # NoOne
  BY StrandAssumption DEF Actors
<1>12. ASSUME NEW x \in Strands \ {s}
       PROVE  FnOwner(stack', x) = FnOwner(stack, x) /\ FnOfOwner(stack', x) = FnOfOwner(stack, x)
  <2>1. /\ FnPlaces(stack[a], x) = FnPlaces(stack'[a], x)
        /\ FnRunning(stack[a], x) = FnRunning(stack'[a], x)
    BY <1>2, FnOther
  <2> QED
    BY <1>1, <1>2, <2>1, ViewSame
<1> HIDE DEF r, f, N
<1>13. Running(s) = Append(r, f) /\ Running(s)' = r /\ Owner(s) = a
  BY <1>6, <1>7, ViewIs
<1>14. Owner(s)' = IF Len(Append(r, f)) = 1 THEN NoOne ELSE a
  BY <1>7, <1>10, ViewIs
<1>15. \A x \in Strands \ {s} : Running(x)' = Running(x) /\ Owner(x)' = Owner(x)
  BY <1>12, ViewIs
<1> QED
  BY <1>9, <1>11, <1>13, <1>14, <1>15

-----------------------------------------------------------------------------
(* The queue of SerialExecutor *)

\* At most one function is on its way to the ready queue.
LEMMA PushingType ==
  ASSUME NEW stk \in [Actors -> Seq(Frame)], NEW s,
         \A h, k \in Spots(stk, s, HoldingAt) : h = k
  PROVE  PushingOf(stk, s) \in Seq(Functions)
<1>1. CASE Spots(stk, s, {"push"}) = {}
  BY <1>1, PushingNobody, EmptySeq
<1>2. CASE Spots(stk, s, {"push"}) # {}
  <2>1. PICK h \in Spots(stk, s, {"push"}) : TRUE
    BY <1>2
  <2>2. PICK a \in Actors, i \in Nat : h = <<a, i>>
    BY <2>1, SpotPairs
  <2>3. Spots(stk, s, {"push"}) = {<<a, i>>}
    BY <2>1, <2>2, PushersHold
  <2>4. PushingOf(stk, s) = <<stk[a][i].f>>
    BY <2>3, PushingOne
  <2>5. i \in 1 .. Len(stk[a]) /\ stk[a][i].at = "push"
    BY <2>3, SpotMember
  <2>6. stk[a][i] \in Frame
    BY <2>5, ElementOfSeq
  <2>7. stk[a][i].f \in Functions
    BY <2>5, <2>6 DEF Frame, SubmitFrames, InvokerFrames, FunctionFrames
  <2> QED
    BY <2>4, <2>7
<1> QED
  BY <1>1, <1>2

\* What is pending is a sequence of functions, before and after a step.
LEMMA PendingType ==
  ASSUME TypeOK, TypeOK', NEW s \in Strands, Held(s), Held(s)'
  PROVE  Pending(s) \in Seq(Functions) /\ Pending(s)' \in Seq(Functions)
<1>1. stack \in [Actors -> Seq(Frame)] /\ stack' \in [Actors -> Seq(Frame)]
  BY DEF TypeOK, Frame
<1>2. /\ ready[s] \in Seq(Functions) /\ waiting[s] \in Seq(Functions)
      /\ ready'[s] \in Seq(Functions) /\ waiting'[s] \in Seq(Functions)
  BY DEF TypeOK
<1>3. \A h, k \in Spots(stack, s, HoldingAt) : h = k
  BY DEF Held, Holders
<1>4. \A h, k \in Spots(stack', s, HoldingAt) : h = k
  BY DEF Held, Holders
<1>5. PushingOf(stack, s) \in Seq(Functions) /\ PushingOf(stack', s) \in Seq(Functions)
  BY <1>1, <1>3, <1>4, PushingType
<1>6. \A u, v, w \in Seq(Functions) : u \o v \o w \in Seq(Functions)
  BY ConcatProperties
<1>7. PushingOf(stack, s) \o ready[s] \o waiting[s] \in Seq(Functions)
  BY <1>2, <1>5, <1>6
<1>8. PushingOf(stack', s) \o ready'[s] \o waiting'[s] \in Seq(Functions)
  BY <1>2, <1>5, <1>6
<1> QED
  BY <1>7, <1>8, PendingIs, Zenon

\* What is pending follows from what has been accepted and started.
LEMMA PendingFollows ==
  ASSUME TypeOK, TypeOK', NEW s \in Strands, Good(s), Good(s)'
  PROVE  /\ accepted'[s] = accepted[s] /\ started'[s] = started[s] => Pending(s)' = Pending(s)
         /\ \A f \in Functions :
              accepted'[s] = Append(accepted[s], f) /\ started'[s] = started[s]
              => Pending(s)' = Append(Pending(s), f)
         /\ \A f \in Functions :
              accepted'[s] = accepted[s] /\ started'[s] = Append(started[s], f)
              => Pending(s) # <<>> /\ f = Head(Pending(s)) /\ Pending(s)' = Tail(Pending(s))
<1> DEFINE p == Pending(s)
           q == Pending(s)'
           b == started[s]
<1>1. p \in Seq(Functions) /\ q \in Seq(Functions) /\ b \in Seq(Functions)
  BY PendingType DEF TypeOK, Good
<1>2. accepted[s] = b \o p /\ accepted'[s] = started'[s] \o q
  BY DEF Good, Ordered
<1> HIDE DEF p, q, b
<1>3. \A v, w \in Seq(Functions) : b \o v = b \o w => v = w
  BY <1>1, ConcatSimplifications
<1>4. started'[s] = b /\ accepted'[s] = accepted[s] => q = p
  BY <1>1, <1>2, <1>3
<1>5. ASSUME NEW f \in Functions, started'[s] = b, accepted'[s] = Append(accepted[s], f)
      PROVE  q = Append(p, f)
  <2>1. Append(p, f) \in Seq(Functions)
    BY <1>1, AppendProperties
  <2>2. b \o Append(p, f) = Append(b \o p, f)
    BY <1>1, AppendRight
  <2>3. b \o q = b \o Append(p, f)
    BY <1>2, <1>5, <2>2, Zenon
  <2> QED
    BY <1>1, <1>3, <2>1, <2>3
<1>6. ASSUME NEW f \in Functions, started'[s] = Append(b, f), accepted'[s] = accepted[s]
      PROVE  p # <<>> /\ f = Head(p) /\ q = Tail(p)
  <2>1. <<f>> \in Seq(Functions) /\ <<f>> \o q \in Seq(Functions)
    BY <1>1, <1>6, ConcatProperties
  <2>2. started'[s] = b \o <<f>>
    BY <1>1, <1>6, AppendIsConcat
  <2>3. b \o p = b \o (<<f>> \o q)
    <3>1. (b \o <<f>>) \o q = b \o (<<f>> \o q)
      BY <1>1, <2>1, ConcatAssociative
    <3> QED
      BY <1>2, <1>6, <2>2, <3>1
  <2>4. p = <<f>> \o q
    BY <1>1, <1>3, <2>1, <2>3
  <2> QED
    BY <1>1, <2>4
<1> QED
  BY <1>4, <1>5, <1>6 DEF p, q, b

-----------------------------------------------------------------------------
(* Every step keeps the shape of the stacks *)

\* Post, dispatch, the invoker and the end of a function keep the shape of every stack.
LEMMA ShapeKept ==
  ASSUME TypeOK, TypeOK', ShapeInv, [Next]_vars
  PROVE  ShapeInv'
<1> SUFFICES ASSUME NEW b \in Actors PROVE Shape(stack'[b])
  BY DEF ShapeInv
<1>0. \A a \in Actors : Shape(stack[a])
  BY DEF ShapeInv
<1>e. \A a \in Actors : /\ stack[a] \in Seq(Frame) /\ Len(stack[a]) \in Nat
                        /\ ~Busy(a) => Len(stack[a]) = 0
                        /\ Busy(a) => Len(stack[a]) \in Nat \ {0}
  <2>1. stack \in [Actors -> Seq(Frame)]
    BY DEF TypeOK, Frame
  <2> QED
    BY <2>1, EmptySeq DEF Busy
<1>1. ASSUME NEW a \in Actors, NEW frame \in Frame, Call(a, frame),
             ~Busy(a) \/ Top(a).at \notin InvokerAt \/ (frame.at = "fn" /\ frame.s = Top(a).s),
             frame.at = "fn" => \E j \in 1 .. Len(stack[a]) :
               stack[a][j].at \in InvokerAt /\ stack[a][j].s = frame.s
      PROVE  Shape(stack'[b])
  <2>1. Extends(stack'[a], stack[a]) /\ stack'[a][Len(stack'[a])] = frame
    BY <1>1, StackExtends
  <2>2. Shape(stack'[a])
    BY <1>0, <1>e, <1>1, <2>1, ShapeCall DEF Top
  <2> QED
    BY <1>0, <1>1, <2>2, Calls
<1>2. ASSUME NEW a \in Actors, Busy(a), Return(a) PROVE Shape(stack'[b])
  BY <1>0, <1>2, StackExtends, ShapeReturn, Returns
<1>3. ASSUME NEW a \in Actors, NEW frame \in Frame, Busy(a), Become(a, frame),
             Top(a).at # "fn", frame.at # "fn"
      PROVE  Shape(stack'[b])
  <2>1. /\ Extends(stack[a], Below(a)) /\ Extends(stack'[a], Below(a))
        /\ stack[a][Len(stack[a])].at # "fn" /\ stack'[a][Len(stack'[a])].at # "fn"
    BY <1>3, StackExtends
  <2>2. Shape(stack'[a])
    BY <1>0, <2>1, ShapeBecome
  <2> QED
    BY <1>0, <1>3, <2>2, Becomes
<1>4. CASE UNCHANGED stack
  BY <1>0, <1>4
<1>5. ASSUME NEW a \in Actors, NEW l, At(a, l), NEW k, Goto(a, k), l # "fn", k # "fn",
             \/ l \in {"lock", "push", "schedule"} /\ k \in {"lock", "push", "schedule"}
             \/ l \in InvokerAt /\ k \in InvokerAt
      PROVE  Shape(stack'[b])
  <2>1. Busy(a) /\ Top(a).at = l
    BY <1>5 DEF At
  <2>2. [Top(a) EXCEPT !.at = k] \in Frame /\ [Top(a) EXCEPT !.at = k].at = k
    BY ZenonT(40), <1>5, <2>1, TopTypes, NextSubmitFrame, NextInvokerFrame DEF InvokerAt
  <2> QED
    BY <1>3, <1>5, <2>1, <2>2 DEF Goto
<1>6. ASSUME NEW a \in Actors, NEW s \in Strands, NEW how \in Kinds, Submit(a, s, how)
      PROVE  Shape(stack'[b])
  <2>1. submitted[s] + 1 \in Functions
    BY <1>6, NextFunction
  <2>2. ~Busy(a) \/ Top(a).at = "fn"
    BY <1>6 DEF Submit, At
  <2>3. CASE how = "dispatch" /\ RunningInThisThread(a, s)
    <3>1. PICK j \in DOMAIN stack[a] : stack[a][j].s = s /\ stack[a][j].at \in InvokerAt
      BY <2>3 DEF RunningInThisThread, Frames, InvokerAt
    <3>2. j \in 1 .. Len(stack[a])
      BY <1>e, <3>1, LenProperties
    <3>3. Call(a, FunctionOf(s, submitted[s] + 1))
      BY <1>6, <2>3 DEF Submit
    <3>4. /\ FunctionOf(s, submitted[s] + 1) \in Frame
          /\ FunctionOf(s, submitted[s] + 1).at = "fn" /\ FunctionOf(s, submitted[s] + 1).s = s
      BY <2>1, NewFrames DEF FunctionOf
    <3>5. "fn" \notin InvokerAt
      BY DEF InvokerAt
    <3> QED
      BY <1>1, <2>2, <3>1, <3>2, <3>3, <3>4, <3>5
  <2>4. CASE ~(how = "dispatch" /\ RunningInThisThread(a, s))
    <3>1. PICK frame \in Frame : Call(a, frame) /\ frame.at = "lock"
      BY <1>6, <2>1, <2>4, NewFrames DEF Submit
    <3>2. "fn" \notin InvokerAt
      BY DEF InvokerAt
    <3> QED
      BY <1>1, <2>2, <3>1, <3>2
  <2> QED
    BY <2>3, <2>4
<1>7. ASSUME NEW a \in Actors, Step(a) PROVE Shape(stack'[b])
  <2>1. CASE Enqueue(a)
    <3>1. Busy(a) /\ (Return(a) \/ Goto(a, "push"))
      BY <2>1 DEF Enqueue, At
    <3> QED
      BY <1>2, <1>5, <2>1, <3>1 DEF Enqueue
  <2>2. CASE Push(a)
    BY <1>5, <2>2 DEF Push
  <2>3. CASE Schedule(a)
    <3>1. Busy(a) /\ Top(a).at = "schedule" /\ Top(a).s \in Strands
      BY <2>3, TopTypes DEF Schedule, At
    <3>2. InvokerOf(Top(a).s) \in Frame /\ InvokerOf(Top(a).s).at = "run"
      BY <3>1, NewFrames DEF InvokerOf
    <3>3. Return(a) \/ Become(a, InvokerOf(Top(a).s))
      BY <2>3 DEF Schedule
    <3> QED
      BY <1>2, <1>3, <3>1, <3>2, <3>3
  <2>4. CASE RunReady(a)
    <3>1. Busy(a) /\ Top(a).at = "run" /\ Top(a).s \in Strands
      BY <2>4, TopTypes DEF RunReady, At
    <3>2. CASE Goto(a, "exit")
      BY <1>5, <2>4, <3>2 DEF RunReady, InvokerAt
    <3>3. CASE ready[Top(a).s] # <<>> /\ Call(a, FunctionOf(Top(a).s, Head(ready[Top(a).s])))
      <4>1. Head(ready[Top(a).s]) \in Functions
        BY <3>1, <3>3, HeadTailProperties DEF TypeOK
      <4>2. PICK frame \in Frame : Call(a, frame) /\ frame.at = "fn" /\ frame.s = Top(a).s
        BY <3>1, <3>3, <4>1, NewFrames DEF FunctionOf
      <4>3. Len(stack[a]) \in 1 .. Len(stack[a]) /\ stack[a][Len(stack[a])] = Top(a)
        BY <1>e, <3>1 DEF Top
      <4>4. "run" \in InvokerAt
        BY DEF InvokerAt
      <4> QED
        BY <1>1, <3>1, <4>2, <4>3, <4>4
    <3> QED
      BY <2>4, <3>2, <3>3 DEF RunReady
  <2>5. CASE Exit(a)
    <3>1. Busy(a) /\ (Return(a) \/ Goto(a, "repost"))
      BY <2>5 DEF Exit, At
    <3> QED
      BY <1>2, <1>5, <2>5, <3>1 DEF Exit, InvokerAt
  <2>6. CASE Repost(a)
    BY <1>2, <2>6 DEF Repost, At
  <2>7. CASE Complete(a) \/ Throw(a)
    BY <1>2, <2>7 DEF Complete, Throw, At
  <2>8. CASE Unwind(a)
    <3>1. CASE At(a, "run") /\ Goto(a, "exit")
      BY <1>5, <3>1 DEF InvokerAt
    <3>2. CASE At(a, "fn") /\ Return(a)
      BY <1>2, <3>2 DEF At
    <3> QED
      BY <1>4, <2>8, <3>1, <3>2 DEF Unwind
  <2>9. ASSUME NEW s \in Strands, Invoke(a, s) PROVE Shape(stack'[b])
    <3>1. Call(a, InvokerOf(s)) /\ ~Busy(a) /\ InvokerOf(s) \in Frame /\ InvokerOf(s).at = "run"
      BY <2>9, NewFrames DEF Invoke, InvokerOf
    <3> QED
      BY <1>1, <3>1
  <2> QED
    BY <1>7, <2>1, <2>2, <2>3, <2>4, <2>5, <2>6, <2>7, <2>8, <2>9 DEF Step
<1>8. CASE Shutdown
  BY <1>4, <1>8 DEF Shutdown
<1>9. CASE UNCHANGED vars
  BY <1>4, <1>9 DEF vars
<1> QED
  BY <1>6, <1>7, <1>8, <1>9 DEF Next

-----------------------------------------------------------------------------
(* Every step is a step of SerialExecutor or is not seen by it *)

SameView == \A s \in Strands : Running(s)' = Running(s) /\ Owner(s)' = Owner(s)
SamePending == \A s \in Strands : Pending(s)' = Pending(s)

\* Nothing is seen.
LEMMA Stutters ==
  ASSUME SameView, SamePending
  PROVE  UNCHANGED Serial!vars
BY DEF SameView, SamePending, Serial!vars

\* enqueue accepts a function.
LEMMA EnqueueRefines ==
  ASSUME TypeOK, TypeOK', \A s \in Strands : Good(s) /\ Good(s)', NEW a \in Actors, Enqueue(a)
  PROVE  Serial!Next
<1>1. Busy(a) /\ Top(a).at = "lock" /\ Top(a) \in SubmitFrames
  BY TopTypes DEF Enqueue, At
<1>2. PICK s \in Strands, f \in Functions : s = Top(a).s /\ f = Top(a).f
  BY <1>1 DEF SubmitFrames
<1>3. [Top(a) EXCEPT !.at = "push"] \in Frame /\ [Top(a) EXCEPT !.at = "push"].at = "push"
  BY <1>1, NextSubmitFrame
<1>4. Return(a) \/ Become(a, [Top(a) EXCEPT !.at = "push"])
  BY DEF Enqueue, Goto
<1>5. SameView
  BY <1>1, <1>3, <1>4, Unseen DEF SameView
<1>6. accepted' = [accepted EXCEPT ![s] = Append(@, f)] /\ started' = started
  BY <1>2 DEF Enqueue
<1>7. /\ accepted'[s] = Append(accepted[s], f)
      /\ \A x \in Strands \ {s} : accepted'[x] = accepted[x]
  BY <1>6 DEF TypeOK
<1>8. Pending(s)' = Append(Pending(s), f) /\ \A x \in Strands \ {s} : Pending(x)' = Pending(x)
  BY <1>6, <1>7, PendingFollows
<1>9. Serial!Submit(s, f)
  BY <1>5, <1>8 DEF Serial!Submit, SameView
<1> QED
  BY <1>9 DEF Serial!Next

\* The invoker starts the function at the front of the ready queue.
LEMMA RunReadyRefines ==
  ASSUME TypeOK, TypeOK', ShapeInv, \A s \in Strands : Good(s) /\ Good(s)',
         NEW a \in Actors, RunReady(a)
  PROVE  Serial!Next \/ UNCHANGED Serial!vars
<1>1. Busy(a) /\ Top(a).at = "run" /\ Top(a) \in InvokerFrames
  BY TopTypes DEF RunReady, At
<1>2. PICK s \in Strands : s = Top(a).s
  BY <1>1 DEF InvokerFrames
<1>3. CASE ready[s] = <<>>
  <2>1. Become(a, [Top(a) EXCEPT !.at = "exit"]) /\ UNCHANGED <<accepted, started>>
    BY <1>2, <1>3 DEF RunReady, Goto
  <2>2. [Top(a) EXCEPT !.at = "exit"] \in Frame /\ [Top(a) EXCEPT !.at = "exit"].at = "exit"
    BY <1>1, NextInvokerFrame
  <2>3. SameView
    BY <1>1, <2>1, <2>2, Unseen DEF SameView
  <2>4. SamePending
    BY <2>1, PendingFollows DEF SamePending
  <2> QED
    BY <2>3, <2>4, Stutters
<1>4. CASE ready[s] # <<>>
  <2>1. PICK f \in Functions : f = Head(ready[s])
    BY <1>4, HeadTailProperties DEF TypeOK
  <2>2. /\ Call(a, FunctionOf(s, f)) /\ accepted' = accepted
        /\ started' = [started EXCEPT ![s] = Append(@, f)]
    BY <1>2, <1>4, <2>1 DEF RunReady
  <2>3. /\ started'[s] = Append(started[s], f)
        /\ \A x \in Strands \ {s} : started'[x] = started[x]
    BY <2>2 DEF TypeOK
  <2>4. /\ Pending(s) # <<>> /\ f = Head(Pending(s)) /\ Pending(s)' = Tail(Pending(s))
        /\ \A x \in Strands \ {s} : Pending(x)' = Pending(x)
    BY <2>2, <2>3, PendingFollows
  <2>5. PICK n \in Nat : n = Len(stack[a])
    BY <1>1, Belows
  <2>6. Spots(stack, s, HoldingAt) = {<<a, n>>}
    BY <1>1, <1>2, <2>5, TopHolder DEF Good, HoldingAt
  <2>7. FnActors(stack, s) = {}
    <3>1. FnActors(stack, s) \subseteq {a} /\ \A i \in FnPlaces(stack[a], s) : n < i
      BY <2>6, OneActor
    <3>2. FnPlaces(stack[a], s) \subseteq 1 .. n
      BY <2>5, FnFinite DEF TypeOK, Frame
    <3>3. FnPlaces(stack[a], s) = {}
      BY <2>5, <3>1, <3>2
    <3> QED
      BY <3>1, <3>3 DEF FnActors
  <2>8. /\ Running(s)' = Append(Running(s), f) /\ Owner(s)' = a
        /\ \A x \in Strands \ {s} : Running(x)' = Running(x) /\ Owner(x)' = Owner(x)
        /\ Running(s) = <<>> /\ Owner(s) = NoOne
    BY <2>2, <2>7, FunctionCalled
  <2>9. Running(s)' = <<Head(Pending(s))>>
    <3>1. Append(<<>>, f) = <<f>>
      OBVIOUS
    <3> QED
      BY <2>4, <2>8, <3>1
  <2>10. Serial!Start(s, a)
    BY <2>4, <2>8, <2>9 DEF Serial!Start
  <2> QED
    BY <2>10 DEF Serial!Next
<1> QED
  BY <1>3, <1>4

\* dispatch inside the strand runs the function at once; otherwise nothing is seen yet.
LEMMA SubmitRefines ==
  ASSUME TypeOK, TypeOK', ShapeInv, \A s \in Strands : Good(s) /\ Good(s)',
         NEW a \in Actors, NEW s \in Strands, NEW how \in Kinds, Submit(a, s, how)
  PROVE  Serial!Next \/ UNCHANGED Serial!vars
<1>1. PICK f \in Functions : f = submitted[s] + 1
  BY NextFunction
<1>2. SamePending
  BY PendingFollows DEF SamePending, Submit, history
<1>3. CASE how = "dispatch" /\ RunningInThisThread(a, s)
  <2>1. Call(a, FunctionOf(s, f))
    BY <1>1, <1>3 DEF Submit
  <2>2. stack \in [Actors -> Seq(Frame)] /\ DOMAIN stack[a] = 1 .. Len(stack[a]) /\ Len(stack[a]) \in Nat
    BY LenProperties DEF TypeOK, Frame
  <2>3. PICK j \in 1 .. Len(stack[a]) : stack[a][j].s = s /\ stack[a][j].at \in InvokerAt
    BY <1>3, <2>2 DEF RunningInThisThread, Frames, InvokerAt
  <2>4. Busy(a) /\ Top(a).at = "fn"
    <3>1. stack[a] # <<>>
      BY <2>2, <2>3, EmptySeq
    <3> QED
      BY <3>1 DEF Submit, Busy, At
  <2>5. j # Len(stack[a])
    BY <2>3, <2>4 DEF Top, InvokerAt
  <2>6. stack[a][j + 1].at = "fn" /\ stack[a][j + 1].s = s /\ j + 1 \in DOMAIN stack[a]
    BY <2>2, <2>3, <2>5 DEF ShapeInv, Shape
  <2>7. FnPlaces(stack[a], s) # {}
    BY <2>6 DEF FnPlaces
  <2>8. FnActors(stack, s) = {a}
    BY <2>7, TopRuns DEF Good
  <2>9. /\ Running(s)' = Append(Running(s), f) /\ Owner(s)' = a /\ Owner(s) = a
        /\ \A x \in Strands \ {s} : Running(x)' = Running(x) /\ Owner(x)' = Owner(x)
    BY <2>1, <2>8, FunctionCalled
  <2>10. a # NoOne
    BY StrandAssumption DEF Actors
  <2>11. Serial!Nest(s, f)
    BY <1>2, <2>9, <2>10 DEF Serial!Nest, SamePending
  <2> QED
    BY <2>11 DEF Serial!Next
<1>4. CASE ~(how = "dispatch" /\ RunningInThisThread(a, s))
  <2>1. PICK frame \in Frame : Call(a, frame) /\ frame.at = "lock"
    BY <1>1, <1>4, NewFrames DEF Submit
  <2>2. SameView
    BY <2>1, Unseen DEF SameView
  <2> QED
    BY <1>2, <2>2, Stutters
<1> QED
  BY <1>3, <1>4

\* A function ends.
LEMMA FunctionEndsRefines ==
  ASSUME TypeOK, TypeOK', ShapeInv, \A s \in Strands : Good(s) /\ Good(s)',
         NEW a \in Actors, At(a, "fn"), Return(a), UNCHANGED history
  PROVE  Serial!Next
<1>1. SamePending
  BY PendingFollows DEF SamePending, history
<1>2. Busy(a) /\ Top(a).at = "fn" /\ Top(a).s \in Strands
  BY TopTypes DEF At
<1>3. PICK s \in Strands : s = Top(a).s
  BY <1>2
<1>4. /\ Running(s)' = SubSeq(Running(s), 1, Len(Running(s)) - 1)
      /\ Owner(s)' = IF Len(Running(s)) = 1 THEN NoOne ELSE Owner(s)
      /\ Owner(s) # NoOne
      /\ \A x \in Strands \ {s} : Running(x)' = Running(x) /\ Owner(x)' = Owner(x)
  BY <1>2, <1>3, FunctionEnded DEF Good
<1>5. Serial!Finish(s)
  BY <1>1, <1>4 DEF Serial!Finish, SamePending
<1> QED
  BY <1>5 DEF Serial!Next

\* Stacks and queues that stay show nothing.
LEMMA SameStacks ==
  ASSUME UNCHANGED <<stack, ready, waiting>>
  PROVE  UNCHANGED Serial!vars
<1>1. SameView
  BY ViewIs DEF SameView
<1>2. SamePending
  BY PendingIs DEF SamePending
<1> QED
  BY <1>1, <1>2, Stutters

\* A call by an actor of the rest of the code moves no function.
LEMMA StepRefines ==
  ASSUME TypeOK, TypeOK', ShapeInv, \A s \in Strands : Good(s) /\ Good(s)',
         NEW a \in Actors, Step(a)
  PROVE  Serial!Next \/ UNCHANGED Serial!vars
<1>1. CASE Enqueue(a)
  BY <1>1, EnqueueRefines
<1>2. CASE RunReady(a)
  BY <1>2, RunReadyRefines
<1>3. CASE Complete(a) \/ Throw(a)
  BY <1>3, FunctionEndsRefines DEF Complete, Throw
<1>4. ASSUME UNCHANGED history, SameView PROVE UNCHANGED Serial!vars
  <2>1. SamePending
    BY <1>4, PendingFollows DEF SamePending, history
  <2> QED
    BY <1>4, <2>1, Stutters
<1>5. CASE Push(a)
  <2>1. Busy(a) /\ Top(a).at = "push" /\ Top(a) \in SubmitFrames
    BY <1>5, TopTypes DEF Push, At
  <2>2. [Top(a) EXCEPT !.at = "schedule"] \in Frame
        /\ [Top(a) EXCEPT !.at = "schedule"].at = "schedule"
    BY <2>1, NextSubmitFrame
  <2>3. SameView
    BY <1>5, <2>1, <2>2, Unseen DEF SameView, Push, Goto
  <2> QED
    BY <1>4, <1>5, <2>3 DEF Push
<1>6. CASE Schedule(a)
  <2>1. Busy(a) /\ Top(a).at = "schedule" /\ Top(a).s \in Strands
    BY <1>6, TopTypes DEF Schedule, At
  <2>2. InvokerOf(Top(a).s) \in Frame /\ InvokerOf(Top(a).s).at = "run"
    BY <2>1, NewFrames DEF InvokerOf
  <2>3. Return(a) \/ Become(a, InvokerOf(Top(a).s))
    BY <1>6 DEF Schedule
  <2>4. SameView
    BY <2>1, <2>2, <2>3, Unseen DEF SameView
  <2> QED
    BY <1>4, <1>6, <2>4 DEF Schedule
<1>7. CASE Exit(a)
  <2>1. Busy(a) /\ Top(a).at = "exit" /\ Top(a) \in InvokerFrames
    BY <1>7, TopTypes DEF Exit, At
  <2>2. [Top(a) EXCEPT !.at = "repost"] \in Frame /\ [Top(a) EXCEPT !.at = "repost"].at = "repost"
    BY <2>1, NextInvokerFrame
  <2>3. Return(a) \/ Become(a, [Top(a) EXCEPT !.at = "repost"])
    BY <1>7 DEF Exit, Goto
  <2>4. SameView
    BY <2>1, <2>2, <2>3, Unseen DEF SameView
  <2> QED
    BY <1>4, <1>7, <2>4 DEF Exit
<1>8. CASE Repost(a)
  <2>1. SameView
    BY <1>8, Unseen DEF SameView, Repost, At
  <2> QED
    BY <1>4, <1>8, <2>1 DEF Repost
<1>9. CASE Unwind(a)
  <2>1. CASE At(a, "run") /\ Goto(a, "exit")
    <3>1. Busy(a) /\ Top(a).at = "run" /\ Top(a) \in InvokerFrames
      BY <2>1, TopTypes DEF At
    <3>2. [Top(a) EXCEPT !.at = "exit"] \in Frame /\ [Top(a) EXCEPT !.at = "exit"].at = "exit"
      BY <3>1, NextInvokerFrame
    <3>3. SameView
      BY <2>1, <3>1, <3>2, Unseen DEF SameView, Goto
    <3> QED
      BY <1>4, <1>9, <3>3 DEF Unwind
  <2>2. CASE At(a, "fn") /\ Return(a)
    BY <1>9, <2>2, FunctionEndsRefines DEF Unwind
  <2>3. CASE UNCHANGED stack
    BY <1>9, <2>3, SameStacks DEF Unwind, queues
  <2> QED
    BY <1>9, <2>1, <2>2, <2>3 DEF Unwind
<1>10. ASSUME NEW s \in Strands, Invoke(a, s) PROVE UNCHANGED Serial!vars
  <2>1. Call(a, InvokerOf(s)) /\ InvokerOf(s) \in Frame /\ InvokerOf(s).at = "run"
    BY <1>10, NewFrames DEF Invoke, InvokerOf
  <2>2. SameView
    BY <2>1, Unseen DEF SameView
  <2> QED
    BY <1>4, <1>10, <2>2 DEF Invoke
<1> QED
  BY <1>1, <1>2, <1>3, <1>5, <1>6, <1>7, <1>8, <1>9, <1>10 DEF Step

\* The context is destroyed.
LEMMA ShutdownRefines ==
  ASSUME TypeOK, Shutdown
  PROVE  Serial!Next
<1>1. stack \in [Actors -> Seq(Frame)] /\ stack' = stack
  BY DEF TypeOK, Frame, Shutdown
<1>2. \A a \in Actors : Len(stack[a]) = 0
  BY EmptySeq DEF Shutdown, Busy
<1>3. ASSUME NEW s \in Strands PROVE Owner(s) = NoOne /\ Pending(s)' = <<>>
  <2>1. \A a \in Actors : FnPlaces(stack[a], s) = {}
    BY <1>1, <1>2, FnFinite
  <2>2. FnOwner(stack, s) = NoOne
    BY <2>1 DEF FnOwner, FnActors
  <2>3. Spots(stack, s, {"push"}) = {}
    BY <1>2 DEF Spots
  <2>4. PushingOf(stack', s) = <<>>
    BY <1>1, <2>3, PushingNobody
  <2>5. ready'[s] = <<>> /\ waiting'[s] = <<>>
    BY DEF Shutdown
  <2>6. Pending(s)' = (<<>> \o <<>>) \o <<>>
    BY <2>4, <2>5, PendingIs
  <2>7. <<>> \o <<>> = <<>>
    BY EmptySeq, ConcatEmptySeq
  <2> QED
    BY <2>2, <2>6, <2>7, ViewIs
<1>4. SameView
  BY <1>1, ViewIs DEF SameView
<1>5. Serial!Destroy
  BY <1>3, <1>4 DEF Serial!Destroy, SameView
<1> QED
  BY <1>5 DEF Serial!Next

\* A step of the strands is a step of SerialExecutor or is not seen.
LEMMA Refines ==
  ASSUME StrandInv, StrandInv', ShapeInv, [Next]_vars
  PROVE  [Serial!Next]_(Serial!vars)
<1>0. TypeOK /\ TypeOK'
  BY DEF StrandInv
<1>1. CASE UNCHANGED vars
  BY <1>1, SameStacks DEF vars, queues
<1>2. CASE Shutdown
  BY <1>0, <1>2, ShutdownRefines
<1>3. CASE Next /\ ~Shutdown
  <2>1. PICK a \in Actors : Step(a) \/ \E s \in Strands, how \in Kinds : Submit(a, s, how)
    BY <1>3 DEF Next
  <2>2. destroyed' = destroyed
    BY <2>1 DEF Step, Submit, Enqueue, Push, Schedule, Invoke, RunReady, Exit, Repost,
                Complete, Throw, Unwind
  <2>3. CASE ~destroyed
    <3>1. \A s \in Strands : Good(s) /\ Good(s)'
      BY <2>2, <2>3 DEF StrandInv
    <3>2. ASSUME NEW s \in Strands, NEW how \in Kinds, Submit(a, s, how)
          PROVE  Serial!Next \/ UNCHANGED Serial!vars
      BY <1>0, <3>1, <3>2, SubmitRefines
    <3> QED
      BY <1>0, <2>1, <3>1, <3>2, StepRefines
  <2>4. CASE destroyed
    <3>1. ~Busy(a) /\ \A s \in Strands : scheduled[s] = 0
      BY <2>4 DEF StrandInv
    <3>2. \A l : ~At(a, l)
      BY <3>1 DEF At
    <3>3. Unwind(a)
      <4>1. ~ \E s \in Strands : Invoke(a, s)
        BY <3>1 DEF Invoke
      <4>2. ~ \E s \in Strands, how \in Kinds : Submit(a, s, how)
        BY <2>4 DEF Submit
      <4>3. /\ ~Enqueue(a) /\ ~Push(a) /\ ~Schedule(a) /\ ~RunReady(a) /\ ~Exit(a)
            /\ ~Repost(a) /\ ~Complete(a) /\ ~Throw(a)
        BY <3>2 DEF Enqueue, Push, Schedule, RunReady, Exit, Repost, Complete, Throw
      <4> QED
        BY <2>1, <4>1, <4>2, <4>3 DEF Step
    <3>4. UNCHANGED <<stack, ready, waiting>>
      BY <3>2, <3>3 DEF Unwind, queues
    <3> QED
      BY <3>4, SameStacks
  <2> QED
    BY <2>3, <2>4
<1> QED
  BY <1>1, <1>2, <1>3

\* At the start nothing runs and nothing waits.
LEMMA InitRefines == Init => Serial!Init /\ ShapeInv
<1> SUFFICES ASSUME Init PROVE Serial!Init /\ ShapeInv
  OBVIOUS
<1>1. stack \in [Actors -> Seq(Frame)]
  BY TypeInit DEF TypeOK, Frame
<1>2. \A a \in Actors : Len(stack[a]) = 0
  BY EmptySeq DEF Init
<1>3. ASSUME NEW s \in Strands PROVE Owner(s) = NoOne /\ Running(s) = <<>> /\ Pending(s) = <<>>
  <2>1. \A a \in Actors : FnPlaces(stack[a], s) = {}
    BY <1>1, <1>2, FnFinite
  <2>2. FnOwner(stack, s) = NoOne /\ FnOfOwner(stack, s) = <<>>
    BY <2>1 DEF FnOwner, FnActors, FnOfOwner
  <2>3. Spots(stack, s, {"push"}) = {}
    BY <1>2 DEF Spots
  <2>4. PushingOf(stack, s) = <<>> /\ ready[s] = <<>> /\ waiting[s] = <<>>
    BY <1>1, <2>3, PushingNobody DEF Init
  <2>5. <<>> \o <<>> = <<>>
    BY EmptySeq, ConcatEmptySeq
  <2> QED
    BY <2>2, <2>4, <2>5, PendingIs, ViewIs
<1>4. ShapeInv
  BY <1>2 DEF ShapeInv, Shape
<1> QED
  BY <1>3, <1>4 DEF Serial!Init

\* The strands implement SerialExecutor: functions of a strand start one at a time, on one
\* thread, in the order of their submission.
THEOREM StrandsAreSerial == Spec => IsSerial
<1>1. Init => StrandInv /\ ShapeInv /\ Serial!Init
  BY StrandInit, InitRefines
<1>2. StrandInv /\ ShapeInv /\ [Next]_vars => StrandInv' /\ ShapeInv'
  <2>1. ASSUME StrandInv, ShapeInv, [Next]_vars PROVE StrandInv' /\ ShapeInv'
    <3>1. StrandInv'
      BY <2>1, StrandKept
    <3>2. TypeOK /\ TypeOK'
      BY <2>1, <3>1 DEF StrandInv
    <3> QED
      BY <2>1, <3>1, <3>2, ShapeKept
  <2> QED
    BY <2>1
<1>3. StrandInv /\ StrandInv' /\ ShapeInv /\ [Next]_vars => [Serial!Next]_(Serial!vars)
  BY Refines
<1> QED
  BY <1>1, <1>2, <1>3, PTL DEF Spec, IsSerial, Serial!Spec
=============================================================================
