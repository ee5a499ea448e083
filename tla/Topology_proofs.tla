-------------------------- MODULE Topology_proofs ---------------------------
(***************************************************************************)
(* Proofs about compileTopology, for every set of names, every registry    *)
(* and DependsOn lists of every length.                                    *)
(***************************************************************************)
EXTENDS Topology, SequenceTheorems, TLAPS

-----------------------------------------------------------------------------
(* Sequences *)

\* Appending adds one element, and leaves the positions before it alone.
LEMMA ElemsAppend ==
  ASSUME NEW S, NEW s \in Seq(S), NEW x \in S
  PROVE  /\ Append(s, x) \in Seq(S)
         /\ Len(Append(s, x)) = Len(s) + 1
         /\ \A i \in 1..Len(s) : Append(s, x)[i] = s[i]
         /\ Append(s, x)[Len(s) + 1] = x
         /\ Elems(Append(s, x)) = Elems(s) \cup {x}
<1>1. /\ Append(s, x) \in Seq(S)
      /\ Len(Append(s, x)) = Len(s) + 1
      /\ \A i \in 1..Len(s) : Append(s, x)[i] = s[i]
      /\ Append(s, x)[Len(s) + 1] = x
  BY AppendProperties
<1>2. Elems(Append(s, x)) \subseteq Elems(s) \cup {x}
  BY <1>1 DEF Elems
<1>3. Elems(s) \cup {x} \subseteq Elems(Append(s, x))
  BY <1>1 DEF Elems
<1>. QED  BY <1>1, <1>2, <1>3

\* Dropping the last element keeps the positions before it.
LEMMA FrontProperties ==
  ASSUME NEW S, NEW s \in Seq(S), s # <<>>
  PROVE  /\ Len(s) \in Nat /\ Len(s) >= 1
         /\ SubSeq(s, 1, Len(s) - 1) \in Seq(S)
         /\ Len(SubSeq(s, 1, Len(s) - 1)) = Len(s) - 1
         /\ \A i \in 1..(Len(s) - 1) : SubSeq(s, 1, Len(s) - 1)[i] = s[i]
<1>1. Len(s) \in Nat /\ Len(s) >= 1
  BY EmptySeq, LenProperties
<1>2. PICK n \in Nat : n = Len(s) /\ n >= 1
  BY <1>1
<1>3. \A i \in 1..(n - 1) : s[i] \in S
  BY <1>2, ElementOfSeq
<1>4. n - 1 \in Int /\ 1 \in Int
  BY <1>2
<1> DEFINE f == SubSeq(s, 1, n - 1)
<1>5. /\ f \in Seq(S)
      /\ Len(f) = IF 1 <= n - 1 THEN n - 1 - 1 + 1 ELSE 0
      /\ \A i \in 1..(n - 1 - 1 + 1) : f[i] = s[1 + i - 1]
  BY <1>3, <1>4, SubSeqProperties
<1>. HIDE DEF f
<1>6. Len(f) = n - 1
  BY <1>2, <1>5
<1>7. ASSUME NEW i \in 1..(n - 1)
      PROVE  f[i] = s[i]
  <2>1. i \in 1..(n - 1 - 1 + 1) /\ 1 + i - 1 = i
    BY <1>2, <1>7
  <2>. QED  BY <1>5, <2>1
<1>. QED  BY <1>1, <1>2, <1>5, <1>6, <1>7 DEF f

-----------------------------------------------------------------------------
(* The inductive invariant *)

\* The modules already in the order are the finished ones, all registered, and
\* each stands there once, after its dependencies.
OrderInv ==
  /\ Elems(order) = { n \in Name : visited[n] = 2 }
  /\ Elems(order) \subseteq registered
  /\ \A i, j \in 1..Len(order) : order[i] = order[j] => i = j
  /\ DepsFirst(order)

\* The active calls are the modules in progress; each one has finished the
\* dependencies it counts, and each but the innermost waits for the next one.
StackInv ==
  /\ OnStack \subseteq registered
  /\ \A i, j \in 1..Len(stack) : stack[i].name = stack[j].name => i = j
  /\ \A i \in 1..Len(stack) :
       /\ visited[stack[i].name] = 1
       /\ stack[i].done <= Len(deps[stack[i].name])
       /\ \A k \in 1..stack[i].done : visited[deps[stack[i].name][k]] = 2
  /\ \A i \in 1..(Len(stack) - 1) :
       /\ stack[i].done < Len(deps[stack[i].name])
       /\ deps[stack[i].name][stack[i].done + 1] = stack[i + 1].name
  /\ \A n \in Name : visited[n] = 1 => n \in OnStack

\* No set of modules that block each other contains a finished module: the
\* form in which "success means there is no such set" is inductive.
NoneBlockedFinished ==
  \A S \in SUBSET registered : Blocked(S) => S \cap Elems(order) = {}

ErrorBlocked ==
  result \in {"circular", "missing"} => \E S \in SUBSET registered : Blocked(S)

Committed ==
  result = "ok" => orderedMods = order /\ Elems(order) = registered

IInv ==
  /\ TypeOK
  /\ OrderInv
  /\ result = "running" => StackInv
  /\ NoneBlockedFinished
  /\ ErrorBlocked
  /\ Committed

-----------------------------------------------------------------------------
(* Type correctness *)

\* The frames of the stack: its last one, and the stack without it.
LEMMA StackFacts ==
  ASSUME TypeOK, stack # <<>>
  PROVE  /\ Len(stack) \in Nat
         /\ Len(stack) >= 1
         /\ Top \in Frame
         /\ Below \in Seq(Frame)
         /\ Len(Below) = Len(stack) - 1
         /\ \A i \in 1..(Len(stack) - 1) : Below[i] = stack[i]
         /\ deps[Top.name] \in Seq(Name)
<1>1. stack \in Seq(Frame)
  BY DEF TypeOK
<1>2. /\ Len(stack) \in Nat /\ Len(stack) >= 1
      /\ Below \in Seq(Frame)
      /\ Len(Below) = Len(stack) - 1
      /\ \A i \in 1..(Len(stack) - 1) : Below[i] = stack[i]
  BY <1>1, FrontProperties DEF Below
<1>3. Top \in Frame
  BY <1>1, <1>2, ElementOfSeq DEF Top
<1>. QED  BY <1>2, <1>3 DEF TypeOK, Frame

\* Every frame names a module whose DependsOn list is a sequence of names.
LEMMA FrameFacts ==
  ASSUME TypeOK, NEW i \in 1..Len(stack)
  PROVE  /\ stack[i] \in Frame
         /\ stack[i].name \in Name
         /\ stack[i].done \in Nat
         /\ deps[stack[i].name] \in Seq(Name)
         /\ Len(deps[stack[i].name]) \in Nat
<1>1. stack \in Seq(Frame) /\ deps \in [Name -> Seq(Name)]
  BY DEF TypeOK
<1>2. stack[i] \in Frame
  BY <1>1, ElementOfSeq
<1>3. stack[i].name \in Name /\ stack[i].done \in Nat
  BY <1>2 DEF Frame
<1>4. deps[stack[i].name] \in Seq(Name)
  BY <1>1, <1>3
<1>. QED  BY <1>2, <1>3, <1>4, LenProperties

\* While the innermost call has dependencies left, the next one is a name.
LEMMA NextDepIsName ==
  ASSUME TypeOK, Pending
  PROVE  /\ NextDep \in Name
         /\ Top.done + 1 \in 1..Len(deps[Top.name])
<1>1. Top \in Frame /\ deps[Top.name] \in Seq(Name)
  BY StackFacts DEF Pending
<1>2. Top.done + 1 \in 1..Len(deps[Top.name])
  BY <1>1 DEF Pending, Frame
<1>. QED  BY <1>1, <1>2, ElementOfSeq DEF NextDep

LEMMA EnterType ==
  ASSUME TypeOK, NEW d \in Name, Enter(d)
  PROVE  TypeOK'
<1>1. CASE d \in registered
  <2>1. [name |-> d, done |-> 0] \in Frame
    BY DEF Frame
  <2>2. Append(stack, [name |-> d, done |-> 0]) \in Seq(Frame)
    BY <2>1, ElemsAppend DEF TypeOK
  <2>3. stack' \in Seq(Frame)
    BY <1>1, <2>2 DEF Enter
  <2>. QED  BY <1>1, <2>3 DEF Enter, TypeOK
<1>2. CASE d \notin registered
  BY <1>2 DEF Enter, TypeOK
<1>. QED  BY <1>1, <1>2

LEMMA TypeStep ==
  ASSUME TypeOK, [Next]_vars
  PROVE  TypeOK'
<1>1. ASSUME NEW n \in Name, PickRoot(n)
      PROVE  TypeOK'
  BY <1>1, EnterType DEF PickRoot
<1>2. CASE Descend
  BY <1>2, NextDepIsName, EnterType DEF Descend
<1>3. CASE Cycle
  BY <1>3 DEF Cycle, TypeOK
<1>4. CASE Skip
  <2>1. Len(stack) \in 1..Len(stack) /\ Top \in Frame
    BY <1>4, StackFacts DEF Skip, Pending
  <2>2. [name |-> Top.name, done |-> Top.done + 1] \in Frame
    BY <2>1 DEF Frame
  <2>3. stack' \in Seq(Frame)
    BY <1>4, <2>1, <2>2, ExceptSeq DEF Skip, TypeOK
  <2>. QED  BY <1>4, <2>3 DEF Skip, TypeOK
<1>5. CASE Finish
  <2>1. Top.name \in Name /\ Below \in Seq(Frame)
    BY <1>5, StackFacts DEF Finish, Frame
  <2>2. order' \in Seq(Name)
    BY <1>5, <2>1, ElemsAppend DEF Finish, TypeOK
  <2>. QED  BY <1>5, <2>1, <2>2 DEF Finish, TypeOK
<1>6. CASE Commit
  BY <1>6 DEF Commit, TypeOK
<1>7. CASE UNCHANGED vars
  BY <1>7 DEF vars, TypeOK
<1>. QED  BY <1>1, <1>2, <1>3, <1>4, <1>5, <1>6, <1>7 DEF Next

\* Type correctness of compileTopology's state.
THEOREM TypeCorrect == Spec => []TypeOK
<1>1. Init => TypeOK
  BY EmptySeq DEF Init, TypeOK
<1>2. TypeOK /\ [Next]_vars => TypeOK'
  BY TypeStep
<1>. QED  BY <1>1, <1>2, PTL DEF Spec

-----------------------------------------------------------------------------
(* The invariant is preserved, one lemma per action *)

\* When the next dependency cannot be visited, the active calls block each
\* other: each waits for the next one, and the innermost one for an active
\* call (a cycle) or for a module that was never registered.
LEMMA StackBlocked ==
  ASSUME TypeOK, StackInv, Pending, NextDep \in OnStack \/ NextDep \notin registered
  PROVE  \E S \in SUBSET registered : Blocked(S)
<1>1. /\ Len(stack) \in Nat /\ Len(stack) >= 1
      /\ deps[Top.name] \in Seq(Name)
      /\ NextDep \in DepSet(Top.name)
  BY StackFacts, NextDepIsName DEF Pending, NextDep, DepSet, Elems
<1>2. PICK len \in Nat : len = Len(stack) /\ len >= 1
  BY <1>1
<1>3. stack[1].name \in OnStack
  BY <1>2 DEF OnStack
<1>4. ASSUME NEW n \in OnStack
      PROVE  \E d \in DepSet(n) : d \in OnStack \/ d \notin registered
  <2>1. PICK i \in 1..len : stack[i].name = n
    BY <1>2 DEF OnStack
  <2>2. CASE i = len
    <3>1. n = Top.name
      BY <2>1, <2>2, <1>2 DEF Top
    <3>. QED  BY <3>1, <1>1
  <2>3. CASE i # len
    <3>1. i \in 1..(len - 1) /\ i + 1 \in 1..len
      BY <2>3, <1>2
    <3>2. /\ stack[i].done < Len(deps[n])
          /\ deps[n][stack[i].done + 1] = stack[i + 1].name
      BY <3>1, <2>1, <1>2 DEF StackInv
    <3>3. stack[i] \in Frame /\ deps[n] \in Seq(Name)
      BY <2>1, <1>2, FrameFacts
    <3>4. stack[i].done + 1 \in 1..Len(deps[n])
      BY <3>2, <3>3 DEF Frame
    <3>5. stack[i + 1].name \in DepSet(n)
      BY <3>2, <3>4 DEF DepSet, Elems
    <3>6. stack[i + 1].name \in OnStack
      BY <3>1, <1>2 DEF OnStack
    <3>. QED  BY <3>5, <3>6
  <2>. QED  BY <2>2, <2>3
<1>5. OnStack \in SUBSET registered
  BY DEF StackInv
<1>6. Blocked(OnStack)
  BY <1>3, <1>4, <1>5 DEF Blocked
<1>. QED  BY <1>5, <1>6

\* Nothing about finished modules changes when neither the order, the graph
\* nor the set of finished modules does.
LEMMA OrderUnchanged ==
  ASSUME TypeOK, OrderInv, NoneBlockedFinished,
         UNCHANGED <<registered, deps, order>>,
         { n \in Name : visited[n] = 2 }' = { n \in Name : visited[n] = 2 }
  PROVE  OrderInv' /\ NoneBlockedFinished'
<1>1. OrderInv'
  BY DEF OrderInv, DepsFirst, DepSet, Elems
<1>2. NoneBlockedFinished'
  <2>1. ASSUME NEW S \in SUBSET registered, Blocked(S)'
        PROVE  Blocked(S)
    BY <2>1 DEF Blocked, DepSet, Elems
  <2>2. Elems(order)' = Elems(order)
    BY DEF Elems
  <2>. QED  BY <2>1, <2>2 DEF NoneBlockedFinished
<1>. QED  BY <1>1, <1>2

LEMMA EnterInv ==
  ASSUME IInv, result = "running", NEW d \in Name, Enter(d),
         \/ stack = <<>> /\ d \in registered
         \/ Pending /\ d = NextDep
  PROVE  IInv'
<1>. USE DEF IInv
<1>1. TypeOK'
  BY EnterType
<1>2. OrderInv' /\ NoneBlockedFinished'
  <2>1. { n \in Name : visited[n] = 2 }' = { n \in Name : visited[n] = 2 }
    BY DEF Enter, TypeOK
  <2>. QED  BY <2>1, OrderUnchanged DEF Enter
<1>3. CASE d \notin registered
  <2>1. result' = "missing"
    BY <1>3 DEF Enter
  <2>2. \E S \in SUBSET registered : Blocked(S)
    BY <1>3, StackBlocked
  <2>3. ErrorBlocked'
    BY <2>2 DEF Enter, ErrorBlocked, Blocked, DepSet, Elems
  <2>. QED  BY <1>1, <1>2, <2>1, <2>3 DEF Committed
<1>4. CASE d \in registered
  <2>. DEFINE frame == [name |-> d, done |-> 0]
  <2>1. /\ frame \in Frame /\ frame.name = d /\ frame.done = 0
        /\ stack' = Append(stack, frame)
        /\ UNCHANGED <<result, registered, deps>>
        /\ visited' = [visited EXCEPT ![d] = 1]
        /\ visited[d] = 0
        /\ visited \in [Name -> {0, 1, 2}]
    BY <1>4 DEF Enter, Frame, TypeOK
  <2>. HIDE DEF frame
  <2>2. PICK len \in Nat : len = Len(stack)
    BY LenProperties DEF TypeOK
  <2>3. /\ Len(stack') = len + 1
        /\ \A i \in 1..len : stack'[i] = stack[i]
        /\ stack'[len + 1] = frame
        /\ \A i \in 1..len : stack[i] \in Frame
        /\ \A i \in 1..len : deps[stack[i].name] \in Seq(Name)
    <3>1. stack \in Seq(Frame)
      BY DEF TypeOK
    <3>2. /\ Len(stack') = len + 1
          /\ \A i \in 1..len : stack'[i] = stack[i]
          /\ stack'[len + 1] = frame
      BY <2>1, <2>2, <3>1, ElemsAppend
    <3>. QED  BY <2>2, <3>2, FrameFacts
  <2>4. \A i \in 1..len : visited[stack[i].name] = 1
    BY <2>2 DEF StackInv
  <2>5. OnStack' = OnStack \cup {d}
    <3>1. OnStack' = { stack'[i].name : i \in 1..(len + 1) }
      BY <2>3 DEF OnStack
    <3>2. OnStack = { stack[i].name : i \in 1..len }
      BY <2>2 DEF OnStack
    <3>. QED  BY <3>1, <3>2, <2>1, <2>3
  <2>6. OnStack' \subseteq registered'
    BY <2>5, <2>1, <1>4 DEF StackInv
  <2>7. ASSUME NEW i \in 1..(len + 1), NEW j \in 1..(len + 1),
               stack'[i].name = stack'[j].name
        PROVE  i = j
    BY <2>1, <2>2, <2>3, <2>4, <2>7 DEF StackInv
  <2>8. ASSUME NEW i \in 1..(len + 1)
        PROVE  /\ visited'[stack'[i].name] = 1
               /\ stack'[i].done <= Len(deps'[stack'[i].name])
               /\ \A k \in 1..stack'[i].done : visited'[deps'[stack'[i].name][k]] = 2
    <3>1. CASE i = len + 1
      <4>1. deps[d] \in Seq(Name) /\ Len(deps[d]) \in Nat
        BY LenProperties DEF TypeOK
      <4>. QED  BY <3>1, <2>1, <2>3, <4>1
    <3>2. CASE i \in 1..len
      <4>1. /\ visited[stack[i].name] = 1
            /\ stack[i].done <= Len(deps[stack[i].name])
            /\ \A k \in 1..stack[i].done : visited[deps[stack[i].name][k]] = 2
        BY <3>2, <2>2 DEF StackInv
      <4>2. ASSUME NEW k \in 1..stack[i].done
            PROVE  visited'[deps[stack[i].name][k]] = 2
        <5>1. k \in 1..Len(deps[stack[i].name])
          BY <4>1, <2>3, <3>2 DEF Frame
        <5>2. deps[stack[i].name][k] \in Name
          BY <5>1, <3>2, <2>3, ElementOfSeq
        <5>. QED  BY <5>2, <4>1, <2>1
      <4>. QED  BY <4>1, <4>2, <3>2, <2>1, <2>3 DEF Frame
    <3>. QED  BY <3>1, <3>2, <2>2
  <2>9. ASSUME NEW i \in 1..len
        PROVE  /\ stack'[i].done < Len(deps'[stack'[i].name])
               /\ deps'[stack'[i].name][stack'[i].done + 1] = stack'[i + 1].name
    <3>1. CASE i = len
      <4>1. Pending /\ d = NextDep
        BY <2>9, <2>2, EmptySeq
      <4>2. stack[i] = Top
        BY <3>1, <2>2 DEF Top
      <4>. QED  BY <4>1, <4>2, <3>1, <2>1, <2>3 DEF Pending, NextDep
    <3>2. CASE i # len
      <4>1. i \in 1..(len - 1) /\ i + 1 \in 1..len
        BY <3>2, <2>2
      <4>. QED  BY <4>1, <2>1, <2>2, <2>3 DEF StackInv
    <3>. QED  BY <3>1, <3>2
  <2>10. \A n \in Name : visited'[n] = 1 => n \in OnStack'
    BY <2>1, <2>5 DEF StackInv
  <2>11. StackInv'
    <3>1. Len(stack') = len + 1 /\ len + 1 - 1 = len
      BY <2>2, <2>3
    <3>. QED  BY <3>1, <2>6, <2>7, <2>8, <2>9, <2>10 DEF StackInv
  <2>12. ErrorBlocked' /\ Committed'
    BY <2>1 DEF ErrorBlocked, Committed
  <2>. QED  BY <1>1, <1>2, <2>11, <2>12
<1>. QED  BY <1>3, <1>4

LEMMA SkipInv ==
  ASSUME IInv, Skip
  PROVE  IInv'
<1>. USE DEF IInv
<1>1. TypeOK'
  BY TypeStep DEF Next
<1>2. OrderInv' /\ NoneBlockedFinished'
  BY OrderUnchanged DEF Skip
<1>3. PICK len \in Nat : len = Len(stack) /\ len >= 1
  BY StackFacts DEF Skip, Pending
<1>4. /\ StackInv
      /\ Top \in Frame
      /\ Top = stack[len]
      /\ Top.done < Len(deps[Top.name])
      /\ visited[deps[Top.name][Top.done + 1]] = 2
      /\ UNCHANGED <<registered, deps, visited, order, orderedMods, result>>
  BY <1>3, StackFacts DEF Skip, Pending, NextDep, Top
<1>. DEFINE frame == [name |-> Top.name, done |-> Top.done + 1]
<1>5. frame \in Frame /\ frame.name = Top.name /\ frame.done = Top.done + 1
  BY <1>4 DEF Frame
<1>6. stack' = [stack EXCEPT ![len] = frame]
  BY <1>3 DEF Skip
<1>. HIDE DEF frame
<1>7. /\ Len(stack') = len
      /\ \A i \in 1..len : stack'[i] = IF i = len THEN frame ELSE stack[i]
  <2>1. stack \in Seq(Frame) /\ len \in 1..Len(stack)
    BY <1>3 DEF TypeOK
  <2>. QED  BY <2>1, <1>3, <1>5, <1>6, ExceptSeq
<1>8. \A i \in 1..len : stack'[i].name = stack[i].name
  BY <1>4, <1>5, <1>7
<1>9. OnStack' = OnStack
  <2>1. OnStack' = { stack'[i].name : i \in 1..len }
    BY <1>7 DEF OnStack
  <2>2. OnStack = { stack[i].name : i \in 1..len }
    BY <1>3 DEF OnStack
  <2>. QED  BY <2>1, <2>2, <1>8
<1>10. ASSUME NEW i \in 1..len
       PROVE  /\ visited[stack'[i].name] = 1
              /\ stack'[i].done <= Len(deps[stack'[i].name])
              /\ \A k \in 1..stack'[i].done : visited[deps[stack'[i].name][k]] = 2
  <2>1. CASE i = len
    <3>1. /\ visited[Top.name] = 1
          /\ \A k \in 1..Top.done : visited[deps[Top.name][k]] = 2
      BY <1>3, <1>4 DEF StackInv
    <3>2. Len(deps[Top.name]) \in Nat /\ Top.done \in Nat
      BY <1>3, <1>4, FrameFacts
    <3>3. Top.done + 1 <= Len(deps[Top.name])
      BY <3>2, <1>4
    <3>4. \A k \in 1..(Top.done + 1) : visited[deps[Top.name][k]] = 2
      <4>1. \A k \in 1..(Top.done + 1) : k \in 1..Top.done \/ k = Top.done + 1
        BY <3>2
      <4>. QED  BY <3>1, <4>1, <1>4
    <3>5. stack'[i] = frame
      BY <2>1, <1>7
    <3>. QED  BY <3>1, <3>3, <3>4, <3>5, <1>5
  <2>2. CASE i # len
    <3>1. stack'[i] = stack[i] /\ i \in 1..Len(stack)
      BY <2>2, <1>3, <1>7
    <3>. QED  BY <3>1, <1>4 DEF StackInv
  <2>. QED  BY <2>1, <2>2
<1>11. ASSUME NEW i \in 1..(len - 1)
       PROVE  /\ stack'[i].done < Len(deps[stack'[i].name])
              /\ deps[stack'[i].name][stack'[i].done + 1] = stack'[i + 1].name
  <2>1. i \in 1..len /\ i + 1 \in 1..len /\ i # len
    BY <1>3, <1>11
  <2>. QED  BY <2>1, <1>3, <1>4, <1>7, <1>8 DEF StackInv
<1>12. ASSUME NEW i \in 1..len, NEW j \in 1..len, stack'[i].name = stack'[j].name
       PROVE  i = j
  BY <1>3, <1>4, <1>8, <1>12 DEF StackInv
<1>13. StackInv'
  BY <1>4, <1>7, <1>9, <1>10, <1>11, <1>12 DEF StackInv
<1>14. ErrorBlocked' /\ Committed'
  BY <1>4 DEF ErrorBlocked, Committed, Skip, Pending
<1>. QED  BY <1>1, <1>2, <1>13, <1>14

\* The innermost call returns: its module joins the order after all of its
\* dependencies, and no set of modules that block each other can contain it.
LEMMA FinishOrder ==
  ASSUME IInv, Finish
  PROVE  OrderInv' /\ NoneBlockedFinished'
<1>. USE DEF IInv
<1>. DEFINE n == Top.name
<1>1. PICK len \in Nat : len = Len(stack) /\ len >= 1
  BY StackFacts DEF Finish
<1>2. /\ StackInv /\ Top = stack[len] /\ len \in 1..len
      /\ n \in Name /\ n \in registered
      /\ deps[n] \in Seq(Name)
      /\ visited[n] = 1
      /\ \A k \in 1..Len(deps[n]) : visited[deps[n][k]] = 2
  BY <1>1, FrameFacts DEF Finish, Top, StackInv, OnStack
<1>3. /\ visited' = [visited EXCEPT ![n] = 2]
      /\ order' = Append(order, n)
      /\ UNCHANGED <<registered, deps>>
      /\ visited \in [Name -> {0, 1, 2}]
      /\ order \in Seq(Name)
  BY DEF Finish, TypeOK
<1>. HIDE DEF n
<1>4. ASSUME NEW d \in DepSet(n)
      PROVE  d \in Elems(order)
  <2>1. PICK k \in 1..Len(deps[n]) : deps[n][k] = d
    BY DEF DepSet, Elems
  <2>2. d \in Name /\ visited[d] = 2
    BY <1>2, <2>1, ElementOfSeq
  <2>. QED  BY <2>2 DEF OrderInv
<1>5. n \notin Elems(order)
  BY <1>2 DEF OrderInv
<1>6. PICK olen \in Nat : olen = Len(order)
  BY <1>3, LenProperties
<1>7. /\ Len(order') = olen + 1
      /\ \A i \in 1..olen : order'[i] = order[i]
      /\ order'[olen + 1] = n
      /\ Elems(order') = Elems(order) \cup {n}
  BY <1>2, <1>3, <1>6, ElemsAppend
<1>8. Elems(order') = { x \in Name : visited'[x] = 2 }
  BY <1>2, <1>3, <1>7 DEF OrderInv
<1>9. Elems(order') \subseteq registered'
  BY <1>2, <1>3, <1>7 DEF OrderInv
<1>10. ASSUME NEW i \in 1..(olen + 1), NEW j \in 1..(olen + 1), order'[i] = order'[j]
       PROVE  i = j
  <2>1. \A k \in 1..olen : order'[k] # n
    BY <1>5, <1>6, <1>7 DEF Elems
  <2>2. CASE i \in 1..olen /\ j \in 1..olen
    BY <2>2, <1>6, <1>7, <1>10 DEF OrderInv
  <2>. QED  BY <2>1, <2>2, <1>6, <1>7, <1>10
<1>11. ASSUME NEW i \in 1..(olen + 1), NEW d \in DepSet(order'[i])
       PROVE  \E j \in 1..(i - 1) : order'[j] = d
  <2>1. CASE i = olen + 1
    <3>1. PICK j \in 1..olen : order[j] = d
      BY <2>1, <1>4, <1>6, <1>7 DEF Elems
    <3>. QED  BY <3>1, <2>1, <1>7
  <2>2. CASE i \in 1..olen
    <3>1. PICK j \in 1..(i - 1) : order[j] = d
      BY <2>2, <1>6, <1>7 DEF OrderInv, DepsFirst
    <3>2. j \in 1..olen
      BY <2>2, <3>1
    <3>. QED  BY <3>1, <3>2, <1>7
  <2>. QED  BY <2>1, <2>2
<1>12. DepsFirst(order)'
  <2>1. \A m : DepSet(m)' = DepSet(m)
    BY <1>3 DEF DepSet, Elems
  <2>. QED  BY <1>7, <1>11, <2>1 DEF DepsFirst
<1>13. OrderInv'
  <2>1. Elems(order)' = Elems(order')
    BY DEF Elems
  <2>. QED  BY <2>1, <1>7, <1>8, <1>9, <1>10, <1>12 DEF OrderInv
<1>14. ASSUME NEW S \in SUBSET registered, Blocked(S)
       PROVE  S \cap Elems(order') = {}
  <2>1. S \cap Elems(order) = {}
    BY <1>14 DEF NoneBlockedFinished
  <2>2. ASSUME n \in S
        PROVE  FALSE
    <3>1. PICK d \in DepSet(n) : d \in S \/ d \notin registered
      BY <1>14, <2>2 DEF Blocked
    <3>2. d \in Elems(order) /\ d \in registered
      BY <3>1, <1>4 DEF OrderInv
    <3>. QED  BY <3>1, <3>2, <2>1
  <2>. QED  BY <2>1, <2>2, <1>7
<1>15. NoneBlockedFinished'
  <2>1. ASSUME NEW S \in SUBSET registered, Blocked(S)'
        PROVE  Blocked(S)
    BY <2>1, <1>3 DEF Blocked, DepSet, Elems
  <2>2. Elems(order)' = Elems(order')
    BY DEF Elems
  <2>. QED  BY <2>1, <2>2, <1>3, <1>14 DEF NoneBlockedFinished
<1>. QED  BY <1>13, <1>15

LEMMA FinishInv ==
  ASSUME IInv, Finish
  PROVE  IInv'
<1>. USE DEF IInv
<1>1. TypeOK'
  BY TypeStep DEF Next
<1>2. PICK len \in Nat : len = Len(stack) /\ len >= 1
  BY StackFacts DEF Finish
<1>3. /\ StackInv
      /\ Top = stack[len]
      /\ len \in 1..len
      /\ Len(stack') = len - 1
      /\ \A i \in 1..(len - 1) : stack'[i] = stack[i]
      /\ visited' = [visited EXCEPT ![stack[len].name] = 2]
      /\ visited \in [Name -> {0, 1, 2}]
      /\ UNCHANGED <<registered, deps, result>>
  BY <1>2, StackFacts DEF Finish, Top, TypeOK
<1>4. \A i \in 1..(len - 1) : i \in 1..len /\ i # len /\ i + 1 \in 1..len
  BY <1>2
<1>5. OnStack' = { stack[i].name : i \in 1..(len - 1) }
  BY <1>3 DEF OnStack
<1>6. OnStack = { stack[i].name : i \in 1..len }
  BY <1>2 DEF OnStack
<1>7. OnStack' \subseteq registered'
  BY <1>3, <1>4, <1>5, <1>6 DEF StackInv
<1>8. ASSUME NEW i \in 1..(len - 1), NEW j \in 1..(len - 1), stack'[i].name = stack'[j].name
      PROVE  i = j
  BY <1>2, <1>3, <1>4, <1>8 DEF StackInv
<1>9. ASSUME NEW i \in 1..(len - 1)
      PROVE  /\ visited'[stack'[i].name] = 1
             /\ stack'[i].done <= Len(deps'[stack'[i].name])
             /\ \A k \in 1..stack'[i].done : visited'[deps'[stack'[i].name][k]] = 2
  <2>1. i \in 1..Len(stack) /\ len \in 1..Len(stack) /\ i # len /\ stack'[i] = stack[i]
    BY <1>2, <1>3, <1>4
  <2>2. /\ visited[stack[i].name] = 1
        /\ stack[i].done <= Len(deps[stack[i].name])
        /\ \A k \in 1..stack[i].done : visited[deps[stack[i].name][k]] = 2
        /\ stack[i].name # stack[len].name
    BY <2>1, <1>3 DEF StackInv
  <2>3. stack[i].name \in Name /\ deps[stack[i].name] \in Seq(Name)
        /\ stack[i].done \in Nat /\ Len(deps[stack[i].name]) \in Nat
    BY <2>1, FrameFacts
  <2>4. ASSUME NEW k \in 1..stack[i].done
        PROVE  visited'[deps[stack[i].name][k]] = 2
    <3>1. k \in 1..Len(deps[stack[i].name])
      BY <2>2, <2>3
    <3>2. deps[stack[i].name][k] \in Name
      BY <3>1, <2>3, ElementOfSeq
    <3>. QED  BY <3>2, <2>2, <1>3
  <2>. QED  BY <2>1, <2>2, <2>3, <2>4, <1>3
<1>10. ASSUME NEW i \in 1..(len - 1 - 1)
       PROVE  /\ stack'[i].done < Len(deps'[stack'[i].name])
              /\ deps'[stack'[i].name][stack'[i].done + 1] = stack'[i + 1].name
  <2>1. i \in 1..(len - 1) /\ i + 1 \in 1..(len - 1)
    BY <1>2
  <2>. QED  BY <2>1, <1>2, <1>3 DEF StackInv
<1>11. ASSUME NEW m \in Name, visited'[m] = 1
       PROVE  m \in OnStack'
  <2>1. visited[m] = 1 /\ m # stack[len].name
    BY <1>3, <1>11
  <2>2. PICK i \in 1..len : stack[i].name = m
    BY <2>1, <1>3, <1>6 DEF StackInv
  <2>3. i \in 1..(len - 1)
    BY <2>1, <2>2, <1>2
  <2>. QED  BY <2>2, <2>3, <1>5
<1>12. StackInv'
  BY <1>2, <1>3, <1>7, <1>8, <1>9, <1>10, <1>11 DEF StackInv
<1>13. ErrorBlocked' /\ Committed'
  BY <1>3 DEF ErrorBlocked, Committed, Finish
<1>. QED  BY <1>1, <1>12, <1>13, FinishOrder

LEMMA InvStep ==
  ASSUME IInv, [Next]_vars
  PROVE  IInv'
<1>1. ASSUME NEW n \in Name, PickRoot(n)
      PROVE  IInv'
  BY <1>1, EnterInv DEF PickRoot
<1>2. CASE Descend
  BY <1>2, EnterInv, NextDepIsName DEF Descend, Pending, IInv
<1>3. CASE Cycle
  <2>1. /\ TypeOK' /\ OrderInv' /\ NoneBlockedFinished'
    BY <1>3, TypeStep, OrderUnchanged DEF IInv, Cycle, Next
  <2>2. StackInv /\ Pending /\ NextDep \in OnStack
    BY <1>3, NextDepIsName DEF IInv, Cycle, Pending, StackInv
  <2>3. \E S \in SUBSET registered : Blocked(S)
    BY <2>2, StackBlocked DEF IInv
  <2>4. ErrorBlocked'
    BY <1>3, <2>3 DEF Cycle, ErrorBlocked, Blocked, DepSet, Elems
  <2>. QED  BY <1>3, <2>1, <2>4 DEF IInv, Cycle, Committed
<1>4. CASE Skip
  BY <1>4, SkipInv
<1>5. CASE Finish
  BY <1>5, FinishInv
<1>6. CASE Commit
  <2>1. /\ TypeOK' /\ OrderInv' /\ NoneBlockedFinished'
    BY <1>6, TypeStep, OrderUnchanged DEF IInv, Commit, Next
  <2>2. OnStack = {}
    BY <1>6 DEF Commit, OnStack
  <2>3. \A n \in registered : visited[n] = 2
    BY <1>6, <2>2 DEF IInv, Commit, StackInv, TypeOK
  <2>4. Elems(order) = registered
    BY <2>3 DEF IInv, OrderInv, TypeOK
  <2>5. Elems(order)' = registered'
    BY <1>6, <2>4 DEF Commit, Elems
  <2>. QED  BY <1>6, <2>1, <2>5 DEF IInv, Commit, ErrorBlocked, Committed
<1>7. CASE UNCHANGED vars
  <2>1. TypeOK' /\ OrderInv' /\ NoneBlockedFinished'
    BY <1>7, TypeStep, OrderUnchanged DEF IInv, vars
  <2>2. StackInv' = StackInv
    BY <1>7 DEF vars, StackInv, OnStack
  <2>3. ErrorBlocked' = ErrorBlocked
    BY <1>7 DEF vars, ErrorBlocked, Blocked, DepSet, Elems
  <2>4. Committed' = Committed
    BY <1>7 DEF vars, Committed, Elems
  <2>. QED  BY <1>7, <2>1, <2>2, <2>3, <2>4 DEF IInv, vars
<1>. QED  BY <1>1, <1>2, <1>3, <1>4, <1>5, <1>6, <1>7 DEF Next

LEMMA InvInit == Init => IInv
<1>. SUFFICES ASSUME Init
              PROVE  IInv
  OBVIOUS
<1>1. TypeOK
  BY EmptySeq DEF Init, TypeOK
<1>2. Elems(order) = {} /\ Len(order) = 0 /\ OnStack = {} /\ Len(stack) = 0
  BY DEF Init, Elems, OnStack
<1>3. OrderInv
  BY <1>2 DEF Init, OrderInv, DepsFirst
<1>4. StackInv
  BY <1>2 DEF Init, StackInv
<1>. QED  BY <1>1, <1>2, <1>3, <1>4
          DEF Init, IInv, NoneBlockedFinished, ErrorBlocked, Committed

\* The strengthened invariant of compileTopology.
THEOREM Invariant == Spec => []IInv
<1>1. IInv /\ [Next]_vars => IInv'
  BY InvStep
<1>. QED  BY InvInit, <1>1, PTL DEF Spec

-----------------------------------------------------------------------------
(* The theorems *)

\* Run starts every registered module once, after all of its dependencies.
THEOREM OrderCorrect == Spec => []TopologicalOrder
<1>1. IInv => TopologicalOrder
  BY DEF IInv, OrderInv, Committed, TopologicalOrder
<1>. QED  BY <1>1, Invariant, PTL

\* compileTopology reports an error only when no start order exists, and
\* succeeds only when one does.
THEOREM FailureCorrect == Spec => []FailsIffBlocked
<1>1. IInv => FailsIffBlocked
  <2>. SUFFICES ASSUME IInv
                PROVE  FailsIffBlocked
    OBVIOUS
  <2>1. result \in {"circular", "missing"} => \E S \in SUBSET registered : Blocked(S)
    BY DEF IInv, ErrorBlocked
  <2>2. ASSUME result = "ok", NEW S \in SUBSET registered, Blocked(S)
        PROVE  FALSE
    <3>1. S \cap registered = {} /\ S # {}
      BY <2>2 DEF IInv, NoneBlockedFinished, Committed, Blocked
    <3>. QED  BY <3>1
  <2>. QED  BY <2>1, <2>2 DEF FailsIffBlocked
<1>. QED  BY <1>1, Invariant, PTL

\* Each step of the depth-first search is a step of the abstract start order
\* or leaves its state alone.
LEMMA StepImplements ==
  ASSUME IInv, [Next]_vars
  PROVE  [Abstract!Next]_(Abstract!vars)
<1>. USE DEF Abstract!vars, verdictMap
<1>1. ASSUME NEW n \in Name, PickRoot(n)
      PROVE  [Abstract!Next]_(Abstract!vars)
  <2>1. n \in registered /\ result' = result
    BY <1>1 DEF PickRoot, Enter
  <2>. QED  BY <1>1, <2>1 DEF PickRoot, Enter
<1>2. CASE Descend
  <2>1. CASE NextDep \in registered
    BY <1>2, <2>1 DEF Descend, Enter
  <2>2. CASE NextDep \notin registered
    <3>1. \E S \in SUBSET registered : Blocked(S)
      BY <1>2, <2>2, StackBlocked DEF Descend, Pending, IInv
    <3>2. Abstract!Reject
      BY <1>2, <2>2, <3>1 DEF Descend, Pending, Enter, Abstract!Reject, Abstract!Blocked,
         Abstract!DepSet, Abstract!Elems, Blocked, DepSet, Elems
    <3>. QED  BY <3>2 DEF Abstract!Next
  <2>. QED  BY <2>1, <2>2
<1>3. CASE Cycle
  <2>1. StackInv /\ Pending /\ NextDep \in OnStack
    BY <1>3, NextDepIsName DEF IInv, Cycle, Pending, StackInv
  <2>2. \E S \in SUBSET registered : Blocked(S)
    BY <2>1, StackBlocked DEF IInv
  <2>3. Abstract!Reject
    BY <1>3, <2>2 DEF Cycle, Pending, Abstract!Reject, Abstract!Blocked,
       Abstract!DepSet, Abstract!Elems, Blocked, DepSet, Elems
  <2>. QED  BY <2>3 DEF Abstract!Next
<1>4. CASE Skip
  BY <1>4 DEF Skip
<1>5. CASE Finish
  <2>1. OrderInv /\ OrderInv' /\ TypeOK
    BY <1>5, FinishOrder DEF IInv
  <2>2. Top.name \in Name /\ visited[Top.name] = 1 /\ Top.name \in registered
        /\ deps[Top.name] \in Seq(Name)
        /\ \A k \in 1..Len(deps[Top.name]) : visited[deps[Top.name][k]] = 2
    <3>1. Len(stack) \in 1..Len(stack) /\ StackInv /\ Top = stack[Len(stack)]
          /\ Top.done = Len(deps[Top.name])
      BY <1>5, <2>1, StackFacts DEF IInv, Finish, Top
    <3>. QED  BY <3>1, <2>1, FrameFacts DEF StackInv, OnStack
  <2>3. Top.name \notin Elems(order)
    BY <2>1, <2>2 DEF OrderInv
  <2>4. ASSUME NEW d \in DepSet(Top.name)
        PROVE  d \in Elems(order)
    <3>1. PICK k \in 1..Len(deps[Top.name]) : deps[Top.name][k] = d
      BY DEF DepSet, Elems
    <3>2. d \in Name /\ visited[d] = 2
      BY <2>2, <3>1, ElementOfSeq
    <3>. QED  BY <3>2, <2>1 DEF OrderInv
  <2>5. Abstract!Append1(Top.name)
    BY <1>5, <2>2, <2>3, <2>4 DEF Finish, Abstract!Append1, Abstract!DepSet,
       Abstract!Elems, DepSet, Elems
  <2>. QED  BY <2>2, <2>5 DEF Abstract!Next
<1>6. CASE Commit
  <2>1. Elems(order)' = registered'
    BY <1>6, InvStep DEF IInv, Committed, Commit, Next
  <2>2. Elems(order) = registered
    BY <1>6, <2>1 DEF Commit, Elems
  <2>3. Abstract!Accept
    BY <1>6, <2>2 DEF Commit, Abstract!Accept, Abstract!Elems, Elems
  <2>. QED  BY <2>3 DEF Abstract!Next
<1>7. CASE UNCHANGED vars
  BY <1>7 DEF vars
<1>. QED  BY <1>1, <1>2, <1>3, <1>4, <1>5, <1>6, <1>7 DEF Next

\* compileTopology implements the abstract start order (its safety part:
\* that the search ends is checked by TLC).
THEOREM Implements == Spec => Abstract!Safety
<1>1. Init => Abstract!Init
  BY DEF Init, Abstract!Init, verdictMap
<1>2. IInv /\ [Next]_vars => [Abstract!Next]_(Abstract!vars)
  BY StepImplements
<1>. QED  BY <1>1, <1>2, Invariant, PTL DEF Spec, Abstract!Safety

-----------------------------------------------------------------------------
(* Why the search ends *)

\* What the search has left to do: modules it has not visited, modules it has
\* not finished, and dependencies that the innermost call has not returned from.
Unvisited == { n \in registered : visited[n] = 0 }
Unfinished == { n \in registered : visited[n] # 2 }
DepsLeft == Len(deps[Top.name]) - Top.done

Shrinks(S, T) == T \subseteq S /\ T # S

\* A step ends the search or lessens the first of the three that it changes.
Advances ==
  \/ result' # "running"
  \/ Shrinks(Unvisited, Unvisited')
  \/ UNCHANGED Unvisited /\ Shrinks(Unfinished, Unfinished')
  \/ UNCHANGED <<Unvisited, Unfinished>> /\ DepsLeft' \in Nat /\ DepsLeft' < DepsLeft

LEMMA EnterAdvances ==
  ASSUME IInv, NEW d \in Name, Enter(d)
  PROVE  Advances
<1>1. CASE d \notin registered
  BY <1>1 DEF Enter, Advances
<1>2. CASE d \in registered
  <2>1. /\ d \in Unvisited /\ d \notin Unvisited'
        /\ Unvisited' \subseteq Unvisited
    BY <1>2 DEF Enter, Unvisited, IInv, TypeOK
  <2>. QED  BY <2>1 DEF Advances, Shrinks
<1>. QED  BY <1>1, <1>2

\* The steps of the search, one by one.
LEMMA AdvanceStep ==
  ASSUME IInv, Next
  PROVE  result = "running" /\ Advances
<1>1. ASSUME NEW n \in Name, PickRoot(n)
      PROVE  result = "running" /\ Advances
  BY <1>1, EnterAdvances DEF PickRoot
<1>2. CASE Descend
  BY <1>2, EnterAdvances, NextDepIsName DEF Descend, Pending, IInv
<1>3. CASE Cycle
  BY <1>3 DEF Cycle, Pending, Advances
<1>4. CASE Skip
  <2>1. /\ Len(stack) \in Nat /\ Len(stack) >= 1
        /\ Len(deps[Top.name]) \in Nat /\ Top.done \in Nat
        /\ Top.done < Len(deps[Top.name])
    BY <1>4, StackFacts, LenProperties DEF Skip, Pending, IInv, Frame
  <2>2. stack' = [stack EXCEPT ![Len(stack)] = [name |-> Top.name, done |-> Top.done + 1]]
    BY <1>4 DEF Skip
  <2>3. Len(stack') = Len(stack) /\ stack'[Len(stack)] = [name |-> Top.name, done |-> Top.done + 1]
    BY <2>1, <2>2, ExceptSeq DEF IInv, TypeOK
  <2>4. Top' = [name |-> Top.name, done |-> Top.done + 1]
    BY <2>3 DEF Top
  <2>5. DepsLeft' = Len(deps[Top.name]) - (Top.done + 1)
    BY <1>4, <2>4 DEF Skip, DepsLeft
  <2>6. DepsLeft' \in Nat /\ DepsLeft' < DepsLeft
    BY <2>1, <2>5 DEF DepsLeft
  <2>7. UNCHANGED <<Unvisited, Unfinished>>
    BY <1>4 DEF Skip, Unvisited, Unfinished
  <2>. QED  BY <1>4, <2>6, <2>7 DEF Skip, Pending, Advances
<1>5. CASE Finish
  <2>1. Top.name \in registered /\ Top.name \in Name /\ visited[Top.name] = 1
    <3>1. Len(stack) \in 1..Len(stack)
      BY <1>5, StackFacts DEF Finish, IInv
    <3>2. Top.name \in OnStack
      BY <3>1 DEF Top, OnStack
    <3>. QED  BY <1>5, <3>1, <3>2 DEF Finish, IInv, StackInv, TypeOK, Top
  <2>2. UNCHANGED Unvisited
    BY <1>5, <2>1 DEF Finish, Unvisited, IInv, TypeOK
  <2>3. /\ Top.name \in Unfinished /\ Top.name \notin Unfinished'
        /\ Unfinished' \subseteq Unfinished
    BY <1>5, <2>1 DEF Finish, Unfinished, IInv, TypeOK
  <2>. QED  BY <1>5, <2>2, <2>3 DEF Finish, Advances, Shrinks
<1>6. CASE Commit
  BY <1>6 DEF Commit, Advances
<1>. QED  BY <1>1, <1>2, <1>3, <1>4, <1>5, <1>6 DEF Next

\* No registry and no DependsOn lists make compileTopology run for ever: with a
\* finite registry each step lessens a measure that is well founded, and none
\* follows its result (app.go:208).
THEOREM SearchAdvances == Spec => [][result = "running" /\ Advances]_vars
<1>1. IInv /\ [Next]_vars => [result = "running" /\ Advances]_vars
  BY AdvanceStep
<1>. QED  BY <1>1, Invariant, PTL DEF Spec

-----------------------------------------------------------------------------
(* Why the search does not halt without a result *)

\* The guards of Next, one per action: PickRoot, Commit, Descend, Cycle, Skip
\* and Finish.
CanStep ==
  \/ stack = <<>> /\ \E n \in registered : n \in Name /\ visited[n] = 0
  \/ stack = <<>> /\ \A n \in registered : visited[n] # 0
  \/ Pending /\ NextDep \in Name /\ visited[NextDep] = 0
  \/ Pending /\ visited[NextDep] = 1
  \/ Pending /\ visited[NextDep] = 2
  \/ stack # <<>> /\ Top.done = Len(deps[Top.name])

\* A search without a result has a next step: the loop of a call never runs
\* past the end of its dependencies, and every module it meets is in one of the
\* three colours the code tells apart (app.go:211-240).  With SearchAdvances
\* only the scheduling of Run's goroutine is left for Terminates to assume.
THEOREM SearchNeverStuck == Spec => [](result = "running" => CanStep)
<1>1. IInv => (result = "running" => CanStep)
  <2>. SUFFICES ASSUME IInv, result = "running"
                PROVE  CanStep
    OBVIOUS
  <2>1. CASE stack = <<>>
    BY <2>1 DEF CanStep, IInv, TypeOK
  <2>2. CASE stack # <<>>
    <3>1. /\ Len(stack) \in 1..Len(stack)
          /\ Top = stack[Len(stack)]
      BY <2>2, StackFacts DEF IInv, Top
    <3>2. /\ Top.done \in Nat /\ Len(deps[Top.name]) \in Nat
          /\ Top.done <= Len(deps[Top.name])
      BY <3>1, FrameFacts DEF IInv, StackInv
    <3>3. CASE Top.done = Len(deps[Top.name])
      BY <2>2, <3>3 DEF CanStep
    <3>4. CASE Top.done < Len(deps[Top.name])
      <4>1. Pending
        BY <2>2, <3>4 DEF Pending
      <4>2. NextDep \in Name /\ visited[NextDep] \in {0, 1, 2}
        BY <4>1, NextDepIsName DEF IInv, TypeOK
      <4>. QED  BY <4>1, <4>2 DEF CanStep
    <3>. QED  BY <3>2, <3>3, <3>4
  <2>. QED  BY <2>1, <2>2
<1>. QED  BY <1>1, Invariant, PTL
=============================================================================
