-------------------- MODULE CircularDependenciesProofs ---------------------
(***************************************************************************)
(* The search for circular dependencies is complete and sound on every     *)
(* graph: it reports a cycle exactly when there is one to report.          *)
(***************************************************************************)
EXTENDS CircularDependencies, TLAPS

(* Entering a node pushes it on the stack. *)
LEMMA VisitStack ==
    ASSUME SearchTypeOK, NEW n \in Types, Visit(n)
    PROVE  /\ stack' \in Seq(Types)
           /\ Len(stack') = Len(stack) + 1
           /\ \A i \in 1..Len(stack) : stack'[i] = stack[i]
           /\ stack'[Len(stack')] = n
           /\ OnStack' = OnStack \cup {n}
           /\ visited' = visited \cup {n}
<1>1. stack \in Seq(Types) /\ stack' = Append(stack, n)
  BY DEF SearchTypeOK, Visit
<1>2. /\ stack' \in Seq(Types)
      /\ Len(stack') = Len(stack) + 1
      /\ \A i \in 1..Len(stack) : stack'[i] = stack[i]
      /\ stack'[Len(stack')] = n
      /\ Len(stack) \in Nat
  BY <1>1
<1>3. OnStack' = OnStack \cup {n}
  BY <1>2 DEF OnStack
<1> QED
  BY <1>2, <1>3 DEF Visit

(* Returning from a call takes the last node off the stack. *)
LEMMA ReturnStack ==
    ASSUME SearchTypeOK, StackIsPath, Return
    PROVE  /\ stack' \in Seq(Types)
           /\ Len(stack') = Len(stack) - 1
           /\ \A i \in 1..Len(stack') : stack'[i] = stack[i]
           /\ OnStack' = OnStack \ {Top}
           /\ Top \in OnStack
           /\ Top \in Types
           /\ Len(stack) \in Nat \ {0}
<1>1. /\ stack \in Seq(Types) /\ stack # <<>>
      /\ stack' = [i \in 1..Len(stack) - 1 |-> stack[i]]
  BY DEF SearchTypeOK, Return
<1>2. /\ stack' \in Seq(Types)
      /\ Len(stack) \in Nat \ {0}
      /\ Len(stack') = Len(stack) - 1
      /\ \A i \in 1..Len(stack') : stack'[i] = stack[i]
  <2>1. Len(stack) \in Nat \ {0}
    BY <1>1
  <2>2. /\ stack' \in Seq(Types)
        /\ Len(stack') = Len(stack) - 1
    BY <1>1, <2>1
  <2>3. \A i \in 1..Len(stack) - 1 : stack'[i] = stack[i]
    BY <1>1, <2>1
  <2> QED
    BY <2>1, <2>2, <2>3
<1>3. Top \in OnStack /\ Top \in Types
  <2>1. Len(stack) \in 1..Len(stack)
    BY <1>2
  <2> QED
    BY <1>1, <2>1 DEF Top, OnStack
<1>4. OnStack' = OnStack \ {Top}
  <2>1. ASSUME NEW x \in OnStack', x = Top PROVE FALSE
    <3>1. PICK i \in 1..Len(stack') : x = stack'[i]
      BY <2>1 DEF OnStack
    <3>2. i \in 1..Len(stack) /\ stack[i] = stack[Len(stack)]
      BY <1>2, <2>1, <3>1 DEF Top
    <3>3. i = Len(stack)
      BY <1>2, <3>2 DEF StackIsPath
    <3> QED
      BY <1>2, <3>1, <3>3
  <2>2. ASSUME NEW x \in OnStack' PROVE x \in OnStack
    BY <1>2, <2>2 DEF OnStack
  <2>3. ASSUME NEW x \in OnStack, x # Top PROVE x \in OnStack'
    BY <1>2, <2>3 DEF OnStack, Top
  <2> QED
    BY <2>1, <2>2, <2>3
<1> QED
  BY <1>2, <1>3, <1>4

(* A cycle that the search reports is a sequence of nodes. *)
LEMMA CycleToType ==
    ASSUME SearchTypeOK, StackIsPath, NEW d \in OnStack, d \in reverse_dependencies[Top]
    PROVE  /\ CycleTo(d) \in Seq(Types)
           /\ Len(CycleTo(d)) > 1
           /\ CycleTo(d)[1] = CycleTo(d)[Len(CycleTo(d))]
           /\ \A i \in 1..Len(CycleTo(d)) - 1 :
                 CycleTo(d)[i + 1] \in reverse_dependencies[CycleTo(d)[i]]
<1> DEFINE k == CHOOSE j \in 1..Len(stack) : stack[j] = d
           sub == SubSeq(stack, k, Len(stack))
           c == Append(sub, d)
<1>1. stack \in Seq(Types) /\ Len(stack) \in Nat /\ d \in Types
  BY DEF SearchTypeOK, OnStack
<1>2. k \in 1..Len(stack) /\ stack[k] = d
  BY DEF OnStack
<1>3. CycleTo(d) = c
  BY DEF CycleTo
<1> HIDE DEF k
<1>4. /\ sub \in Seq(Types)
      /\ Len(sub) = Len(stack) - k + 1
      /\ Len(sub) \in Nat
      /\ \A i \in 1..Len(sub) : sub[i] = stack[k + i - 1]
  BY <1>1, <1>2
<1> HIDE DEF sub
<1>5. /\ c \in Seq(Types)
      /\ Len(c) = Len(sub) + 1
      /\ \A i \in 1..Len(sub) : c[i] = stack[k + i - 1]
      /\ c[Len(c)] = d
  <2>1. /\ c \in Seq(Types)
        /\ Len(c) = Len(sub) + 1
        /\ \A i \in 1..Len(sub) : c[i] = sub[i]
        /\ c[Len(sub) + 1] = d
    BY <1>1, <1>4
  <2> QED
    BY <1>4, <2>1
<1> HIDE DEF c
<1>6. Len(c) > 1 /\ c[1] = c[Len(c)]
  BY <1>1, <1>2, <1>4, <1>5
<1>7. ASSUME NEW i \in 1..Len(c) - 1 PROVE c[i + 1] \in reverse_dependencies[c[i]]
  <2>1. CASE i = Len(sub)
    <3>1. c[i] = Top /\ c[i + 1] = d
      BY <1>1, <1>2, <1>4, <1>5, <2>1 DEF Top
    <3> QED
      BY <3>1
  <2>2. CASE i < Len(sub)
    <3>1. c[i] = stack[k + i - 1] /\ c[i + 1] = stack[k + i]
      <4>1. i \in 1..Len(sub) /\ i + 1 \in 1..Len(sub)
        BY <1>4, <1>7, <2>2
      <4>2. c[i] = stack[k + i - 1] /\ c[i + 1] = stack[k + (i + 1) - 1]
        BY <1>5, <4>1
      <4>3. k + (i + 1) - 1 = k + i
        BY <1>2, <4>1
      <4> QED
        BY <4>2, <4>3
    <3>2. k + i - 1 \in 1..Len(stack) - 1 /\ (k + i - 1) + 1 = k + i
      BY <1>1, <1>2, <1>4, <2>2
    <3>3. stack[(k + i - 1) + 1] \in reverse_dependencies[stack[k + i - 1]]
      BY <3>2 DEF StackIsPath
    <3> QED
      BY <3>1, <3>2, <3>3
  <2>3. i = Len(sub) \/ i < Len(sub)
    <3>1. Len(c) - 1 = Len(sub)
      BY <1>4, <1>5
    <3>2. i \in 1..Len(sub)
      BY <1>7, <3>1
    <3> QED
      BY <1>4, <3>2
  <2> QED
    BY <2>1, <2>2, <2>3
<1> QED
  BY <1>3, <1>5, <1>6, <1>7

----------------------------------------------------------------------------
(* The loop over the dependents only removes from what is left to see. *)
LEMMA SearchTypeStep == SearchInv /\ [SearchStep]_searchVars => SearchTypeOK'
<1> SUFFICES ASSUME SearchInv, [SearchStep]_searchVars PROVE SearchTypeOK'
  OBVIOUS
<1> USE DEF SearchInv
<1>1. ASSUME NEW n \in Types, NextRoot(n) PROVE SearchTypeOK'
  <2>1. CASE Visit(n)
    BY <1>1, <2>1, VisitStack DEF NextRoot, SearchTypeOK
  <2>2. CASE UNCHANGED <<visited, stack>>
    BY <1>1, <2>2 DEF NextRoot, SearchTypeOK
  <2> QED
    BY <1>1, <2>1, <2>2 DEF NextRoot
<1>2. ASSUME NEW d \in Types, NextDependent(d) PROVE SearchTypeOK'
  <2>1. rest' \in [Types -> SUBSET Types]
    BY <1>2 DEF NextDependent, ClosesCycle, SearchTypeOK
  <2>2. CASE Visit(d) /\ UNCHANGED cycles
    BY <1>2, <2>1, <2>2, VisitStack DEF NextDependent, ClosesCycle, SearchTypeOK
  <2>3. CASE UNCHANGED <<visited, stack, cycles>>
    BY <1>2, <2>1, <2>3 DEF NextDependent, ClosesCycle, SearchTypeOK
  <2>4. CASE /\ d \in OnStack /\ cycles' = cycles \cup {CycleTo(d)}
             /\ UNCHANGED <<visited, stack>>
    <3>1. Top \in Types /\ d \in rest[Top]
      BY <1>2 DEF NextDependent, ClosesCycle, SearchTypeOK, Top
    <3>2. d \in reverse_dependencies[Top]
      BY <3>1 DEF SearchTypeOK, RestInSucc
    <3>3. CycleTo(d) \in Seq(Types)
      BY <2>4, <3>2, CycleToType
    <3> QED
      BY <1>2, <2>1, <2>4, <3>3 DEF NextDependent, ClosesCycle, SearchTypeOK
  <2> QED
    BY <1>2, <2>2, <2>3, <2>4 DEF NextDependent, ClosesCycle
<1>3. ASSUME Return PROVE SearchTypeOK'
  BY <1>3, ReturnStack DEF Return, SearchTypeOK
<1>4. CASE UNCHANGED searchVars
  BY <1>4 DEF searchVars, SearchTypeOK
<1> QED
  BY <1>1, <1>2, <1>3, <1>4 DEF SearchStep

(* The four things a step of the search can do. *)
LEMMA Steps ==
    ASSUME SearchInv, [SearchStep]_searchVars
    PROVE  /\ UNCHANGED <<reverse_dependencies, roots>>
           /\ \/ \E n \in Types :
                   /\ n \notin visited /\ Visit(n)
                   /\ unrooted' = unrooted \ {n} /\ UNCHANGED <<rest, cycles>>
                   /\ stack = <<>>
              \/ \E d \in rest[Top] :
                   /\ stack # <<>> /\ Top \in OnStack
                   /\ d \notin visited /\ Visit(d)
                   /\ rest' = [rest EXCEPT ![Top] = @ \ {d}]
                   /\ UNCHANGED <<unrooted, cycles>>
              \/ \E d \in rest[Top] :
                   /\ stack # <<>> /\ Top \in OnStack
                   /\ d \in visited
                   /\ \/ d \in OnStack /\ cycles' = cycles \cup {CycleTo(d)}
                      \/ d \notin OnStack /\ UNCHANGED cycles
                   /\ rest' = [rest EXCEPT ![Top] = @ \ {d}]
                   /\ UNCHANGED <<unrooted, visited, stack>>
              \/ Return
              \/ /\ UNCHANGED <<visited, stack, rest, cycles>>
                 /\ \/ UNCHANGED unrooted
                    \/ \E n \in visited : unrooted' = unrooted \ {n}
<1> USE DEF SearchInv
<1>1. ASSUME stack # <<>> PROVE Top \in OnStack
  BY <1>1 DEF SearchTypeOK, Top, OnStack
<1>2. OnStack \subseteq visited
  BY DEF StackIsPath
<1>3. ASSUME NEW n \in Types, NextRoot(n), n \notin visited
      PROVE  /\ UNCHANGED <<reverse_dependencies, roots>>
             /\ Visit(n) /\ unrooted' = unrooted \ {n}
             /\ UNCHANGED <<rest, cycles>> /\ stack = <<>>
  BY <1>3 DEF NextRoot
<1>4. ASSUME NEW n \in Types, NextRoot(n), n \in visited
      PROVE  /\ UNCHANGED <<reverse_dependencies, roots, visited, stack, rest, cycles>>
             /\ unrooted' = unrooted \ {n}
  BY <1>4 DEF NextRoot
<1>5. ASSUME NEW d \in Types, NextDependent(d)
      PROVE  /\ UNCHANGED <<reverse_dependencies, roots, unrooted>>
             /\ d \in rest[Top] /\ stack # <<>>
             /\ rest' = [rest EXCEPT ![Top] = @ \ {d}]
             /\ \/ d \notin visited /\ Visit(d) /\ UNCHANGED cycles
                \/ /\ d \in visited
                   /\ \/ d \in OnStack /\ cycles' = cycles \cup {CycleTo(d)}
                      \/ d \notin OnStack /\ UNCHANGED cycles
                   /\ UNCHANGED <<visited, stack>>
  BY <1>2, <1>5 DEF NextDependent, ClosesCycle
<1>6. ASSUME Return PROVE UNCHANGED <<reverse_dependencies, roots>>
  BY <1>6 DEF Return
<1>7. CASE UNCHANGED searchVars
  BY <1>7 DEF searchVars
<1>8. CASE \E n \in Types : NextRoot(n)
  BY <1>8, <1>3, <1>4
<1>9. CASE \E n \in Types : NextDependent(n)
  BY <1>9, <1>5, <1>1
<1> QED
  BY <1>6, <1>7, <1>8, <1>9 DEF SearchStep

(* Visited roots stay visited, and nodes that were not entered keep all    *)
(* their dependents to look at.                                            *)
LEMMA BookkeepingStep ==
    ASSUME SearchInv, [SearchStep]_searchVars
    PROVE  RootsVisited' /\ Untouched' /\ RestInSucc'
<1> USE DEF SearchInv, SearchTypeOK, RootsVisited, Untouched, RestInSucc, Visit
<1>1. UNCHANGED <<reverse_dependencies, roots>> /\ visited \subseteq visited'
  BY Steps DEF Return
<1>2. RootsVisited'
  BY <1>1, Steps DEF Return
<1>3. RestInSucc'
  BY <1>1, Steps DEF Return
<1>4. Untouched'
  BY <1>1, Steps DEF Return, StackIsPath
<1> QED
  BY <1>2, <1>3, <1>4

(* The stack of calls stays a path without repetition. *)
LEMMA PathStep ==
    ASSUME SearchInv, [SearchStep]_searchVars
    PROVE  StackIsPath'
<1> USE DEF SearchInv
<1>1. ASSUME NEW n \in Types, n \notin visited, Visit(n), UNCHANGED reverse_dependencies,
             stack # <<>> => n \in reverse_dependencies[Top]
      PROVE  StackIsPath'
  <2>1. /\ Len(stack) \in Nat
        /\ Len(stack') = Len(stack) + 1
        /\ \A i \in 1..Len(stack) : stack'[i] = stack[i]
        /\ stack'[Len(stack')] = n
        /\ OnStack' = OnStack \cup {n}
        /\ visited' = visited \cup {n}
    BY <1>1, VisitStack DEF SearchTypeOK
  <2>2. OnStack' \subseteq visited'
    BY <2>1 DEF StackIsPath
  <2>3. \A i \in 1..Len(stack) : stack[i] # n
    BY <1>1 DEF StackIsPath, OnStack
  <2>4. ASSUME NEW i \in 1..Len(stack'), NEW j \in 1..Len(stack'),
               stack'[i] = stack'[j]
        PROVE  i = j
    BY <2>1, <2>3, <2>4 DEF StackIsPath
  <2>5. ASSUME NEW i \in 1..Len(stack') - 1
        PROVE  stack'[i + 1] \in reverse_dependencies'[stack'[i]]
    <3>1. CASE i = Len(stack)
      <4>1. stack # <<>>
        BY <2>1, <2>5, <3>1 DEF SearchTypeOK
      <4>2. stack'[i] = Top /\ stack'[i + 1] = n
        BY <2>1, <2>5, <3>1 DEF Top
      <4> QED
        BY <1>1, <4>1, <4>2
    <3>2. CASE i # Len(stack)
      <4>1. i \in 1..Len(stack) - 1
        BY <2>1, <2>5, <3>2
      <4>2. i \in 1..Len(stack) /\ i + 1 \in 1..Len(stack)
        BY <2>1, <4>1
      <4> QED
        BY <1>1, <2>1, <4>1, <4>2 DEF StackIsPath
    <3> QED
      BY <3>1, <3>2
  <2> QED
    BY <2>2, <2>4, <2>5 DEF StackIsPath
<1>2. ASSUME Return, UNCHANGED reverse_dependencies PROVE StackIsPath'
  <2>1. /\ Len(stack) \in Nat \ {0}
        /\ Len(stack') = Len(stack) - 1
        /\ \A i \in 1..Len(stack') : stack'[i] = stack[i]
        /\ OnStack' \subseteq OnStack
        /\ visited' = visited
    BY <1>2, ReturnStack DEF Return
  <2>2. ASSUME NEW i \in 1..Len(stack') - 1
        PROVE  stack'[i + 1] \in reverse_dependencies'[stack'[i]]
    <3>1. /\ i \in 1..Len(stack) - 1
          /\ i \in 1..Len(stack') /\ i + 1 \in 1..Len(stack')
      BY <2>1, <2>2
    <3> QED
      BY <1>2, <2>1, <3>1 DEF StackIsPath
  <2> QED
    BY <2>1, <2>2 DEF StackIsPath
<1>3. ASSUME UNCHANGED <<reverse_dependencies, visited, stack>> PROVE StackIsPath'
  BY <1>3 DEF StackIsPath, OnStack
<1>4. \A d \in rest[Top] : stack # <<>> => d \in Types /\ d \in reverse_dependencies[Top]
  BY DEF SearchTypeOK, RestInSucc, Top
<1> QED
  BY <1>1, <1>2, <1>3, <1>4, Steps

(* A cycle is reported only when an edge leads back to the stack. *)
LEMMA RealStep ==
    ASSUME SearchInv, [SearchStep]_searchVars
    PROVE  CyclesReal'
<1> USE DEF SearchInv
<1>1. UNCHANGED reverse_dependencies
  BY Steps
<1>2. CASE UNCHANGED cycles
  BY <1>1, <1>2 DEF CyclesReal
<1>3. ASSUME NEW d \in rest[Top], stack # <<>>, d \in OnStack,
             cycles' = cycles \cup {CycleTo(d)}
      PROVE  CyclesReal'
  <2>1. d \in reverse_dependencies[Top]
    BY <1>3 DEF SearchTypeOK, RestInSucc, Top
  <2> QED
    BY <1>1, <1>3, <2>1, CycleToType DEF CyclesReal
<1> QED
  BY <1>2, <1>3, Steps DEF Return

(* What each step makes of the finished nodes. *)
LEMMA FinishedStep ==
    ASSUME SearchInv, [SearchStep]_searchVars
    PROVE  \/ Finished' = Finished
           \/ Return /\ Finished' = Finished \cup {Top}
<1> USE DEF SearchInv
<1>1. ASSUME NEW n \in Types, n \notin visited, Visit(n)
      PROVE  Finished' = Finished
  BY <1>1, VisitStack DEF Finished, StackIsPath
<1>2. ASSUME Return PROVE Finished' = Finished \cup {Top}
  BY <1>2, ReturnStack DEF Finished, StackIsPath, Return
<1>3. ASSUME UNCHANGED <<visited, stack>> PROVE Finished' = Finished
  BY <1>3 DEF Finished, OnStack
<1>4. \A d \in rest[Top] : stack # <<>> => d \in Types
  BY DEF SearchTypeOK, Top
<1> QED
  BY <1>1, <1>2, <1>3, <1>4, Steps

(* When a call returns without a cycle, all its edges lead to finished     *)
(* nodes.                                                                  *)
LEMMA ReturnEdges ==
    ASSUME SearchInv, Return, cycles = {}
    PROVE  reverse_dependencies[Top] \subseteq Finished
<1>1. /\ Len(stack) \in 1..Len(stack) /\ Top = stack[Len(stack)]
      /\ rest[Top] = {}
  BY ReturnStack DEF SearchInv, Return, Top
<1> QED
  BY <1>1 DEF SearchInv, EdgesFollowed

(* Followed edges lead to finished nodes or to the next call. *)
LEMMA EdgesStep ==
    ASSUME SearchInv, [SearchStep]_searchVars
    PROVE  EdgesFollowed'
<1> SUFFICES ASSUME cycles' = {} PROVE EdgesFollowed'
  BY DEF EdgesFollowed
<1> USE DEF SearchInv
<1>0. cycles = {} /\ UNCHANGED reverse_dependencies
  BY Steps DEF Return
<1> DEFINE Led(i) == \A d \in reverse_dependencies[stack[i]] \ rest[stack[i]] :
                        d \in Finished \/ (i < Len(stack) /\ d = stack[i + 1])
<1>a. \A i \in 1..Len(stack) : Led(i)
  BY <1>0 DEF EdgesFollowed
<1>b. \A n \in Finished : reverse_dependencies[n] \subseteq Finished
  BY <1>0 DEF EdgesFollowed
<1>1. ASSUME NEW n \in Types, n \notin visited, Visit(n), stack = <<>>,
             UNCHANGED rest
      PROVE  EdgesFollowed'
  <2>1. /\ Len(stack') = 1 /\ stack'[1] = n
        /\ Finished' = Finished
    BY <1>1, VisitStack DEF Finished, StackIsPath, SearchTypeOK
  <2>2. rest'[n] = reverse_dependencies'[n]
    BY <1>0, <1>1 DEF Untouched
  <2>3. \A i \in 1..Len(stack') : Led(i)'
    BY <2>1, <2>2
  <2> QED
    BY <1>0, <1>b, <2>1, <2>3 DEF EdgesFollowed
<1>2. ASSUME NEW d \in rest[Top], stack # <<>>, Top \in OnStack,
             d \notin visited, Visit(d),
             rest' = [rest EXCEPT ![Top] = @ \ {d}]
      PROVE  EdgesFollowed'
  <2>1. d \in Types /\ Top \in Types /\ Top # d
    BY <1>2 DEF SearchTypeOK, Top, StackIsPath
  <2>2. /\ Len(stack) \in Nat
        /\ Len(stack') = Len(stack) + 1
        /\ \A i \in 1..Len(stack) : stack'[i] = stack[i]
        /\ stack'[Len(stack')] = d
        /\ Finished' = Finished
    BY <1>2, <2>1, VisitStack DEF Finished, StackIsPath, SearchTypeOK
  <2>3. ASSUME NEW i \in 1..Len(stack') PROVE Led(i)'
    <3>1. CASE i = Len(stack')
      <4>1. stack'[i] = d /\ rest'[d] = reverse_dependencies'[d]
        BY <1>0, <1>2, <2>1, <2>2, <3>1 DEF Untouched, SearchTypeOK
      <4> QED
        BY <4>1
    <3>2. CASE i = Len(stack)
      <4>1. /\ i \in 1..Len(stack) /\ stack'[i] = Top /\ stack'[i + 1] = d
            /\ i < Len(stack')
        BY <2>2, <2>3, <3>2 DEF Top
      <4>2. \A e \in reverse_dependencies[Top] \ rest[Top] : e \in Finished
        BY <1>a, <2>2, <3>2, <4>1 DEF Top
      <4>3. rest'[Top] = rest[Top] \ {d}
        BY <1>2, <2>1 DEF SearchTypeOK
      <4> QED
        BY <1>0, <2>2, <4>1, <4>2, <4>3
    <3>3. CASE i < Len(stack)
      <4>1. /\ i \in 1..Len(stack) /\ i + 1 \in 1..Len(stack)
            /\ Len(stack) \in 1..Len(stack)
            /\ i < Len(stack') /\ i # Len(stack)
        BY <2>2, <2>3, <3>3
      <4>2. stack[i] # Top
        BY <4>1 DEF StackIsPath, Top
      <4>3. rest'[stack[i]] = rest[stack[i]]
        BY <1>2, <2>1, <4>1, <4>2 DEF SearchTypeOK
      <4>4. Led(i)
        BY <1>a, <4>1
      <4> QED
        BY <1>0, <2>2, <4>1, <4>3, <4>4
    <3> QED
      BY <2>2, <2>3, <3>1, <3>2, <3>3
  <2> QED
    BY <1>0, <1>b, <2>2, <2>3 DEF EdgesFollowed
<1>3. ASSUME NEW d \in rest[Top], stack # <<>>, Top \in OnStack,
             d \in visited,
             \/ d \in OnStack /\ cycles' = cycles \cup {CycleTo(d)}
             \/ d \notin OnStack /\ UNCHANGED cycles,
             rest' = [rest EXCEPT ![Top] = @ \ {d}],
             UNCHANGED <<visited, stack>>
      PROVE  EdgesFollowed'
  <2>1. d \in Finished /\ Finished' = Finished /\ Top \in Types
    BY <1>3 DEF Finished, OnStack, SearchTypeOK, Top
  <2>2. ASSUME NEW i \in 1..Len(stack) PROVE Led(i)'
    <3>1. \A e \in reverse_dependencies[stack[i]] \ rest'[stack[i]] :
             e = d \/ e \in reverse_dependencies[stack[i]] \ rest[stack[i]]
      BY <1>3, <2>1, <2>2 DEF SearchTypeOK
    <3> QED
      BY <1>0, <1>3, <1>a, <2>1, <2>2, <3>1
  <2> QED
    BY <1>0, <1>3, <1>b, <2>1, <2>2 DEF EdgesFollowed
<1>4. ASSUME Return PROVE EdgesFollowed'
  <2>1. /\ Len(stack) \in Nat \ {0}
        /\ Len(stack') = Len(stack) - 1
        /\ \A i \in 1..Len(stack') : stack'[i] = stack[i]
        /\ rest' = rest
    BY <1>4, ReturnStack DEF Return
  <2>2. Finished' = Finished \cup {Top}
    BY <1>4, ReturnStack DEF Finished, StackIsPath, Return
  <2>3. reverse_dependencies[Top] \subseteq Finished
    BY <1>0, <1>4, ReturnEdges
  <2>4. ASSUME NEW i \in 1..Len(stack') PROVE Led(i)'
    <3>1. /\ i \in 1..Len(stack) /\ stack'[i] = stack[i]
          /\ i < Len(stack') => i + 1 \in 1..Len(stack')
          /\ i < Len(stack') \/ i + 1 = Len(stack)
      BY <2>1, <2>4
    <3>2. Led(i)
      BY <1>a, <3>1
    <3>3. i + 1 = Len(stack) => stack[i + 1] = Top
      BY DEF Top
    <3> QED
      BY <1>0, <2>1, <2>2, <3>1, <3>2, <3>3
  <2> QED
    BY <1>0, <1>b, <2>2, <2>3, <2>4 DEF EdgesFollowed
<1>5. ASSUME UNCHANGED <<visited, stack, rest, cycles>> PROVE EdgesFollowed'
  BY <1>0, <1>5 DEF EdgesFollowed, Finished, OnStack
<1> QED
  BY <1>1, <1>2, <1>3, <1>4, <1>5, Steps

(* A node all of whose edges lead to an acyclic set closed under edges     *)
(* adds no cycle to it.                                                    *)
LEMMA AcyclicExtends ==
    ASSUME NEW f, NEW F, NEW x,
           \A n \in F : f[n] \subseteq F,
           f[x] \subseteq F, x \notin F,
           \A S \in SUBSET F : ~Cyclic(f, S)
    PROVE  \A S \in SUBSET (F \cup {x}) : ~Cyclic(f, S)
<1> SUFFICES ASSUME NEW S \in SUBSET (F \cup {x}), Cyclic(f, S) PROVE FALSE
  OBVIOUS
<1> DEFINE T == S \ {x}
<1>1. T \in SUBSET F
  OBVIOUS
<1>2. \A n \in S : f[n] \cap T # {}
  BY DEF Cyclic
<1>3. T # {}
  BY <1>2 DEF Cyclic
<1>4. Cyclic(f, T)
  BY <1>2, <1>3 DEF Cyclic
<1> QED
  BY <1>1, <1>4

(* The finished nodes stay free of cycles until one is reported. *)
LEMMA AcyclicStep ==
    ASSUME SearchInv, [SearchStep]_searchVars
    PROVE  FinishedAcyclic'
<1> SUFFICES ASSUME cycles' = {} PROVE FinishedAcyclic'
  BY DEF FinishedAcyclic
<1> USE DEF SearchInv
<1>1. cycles = {} /\ UNCHANGED reverse_dependencies
  BY Steps DEF Return
<1>2. CASE Finished' = Finished
  BY <1>1, <1>2 DEF FinishedAcyclic
<1>3. CASE Return /\ Finished' = Finished \cup {Top}
  <2>1. reverse_dependencies[Top] \subseteq Finished
    BY <1>1, <1>3, ReturnEdges
  <2>2. Top \notin Finished
    BY <1>3, ReturnStack DEF Finished
  <2>3. \A n \in Finished : reverse_dependencies[n] \subseteq Finished
    BY <1>1 DEF EdgesFollowed
  <2>4. \A S \in SUBSET (Finished \cup {Top}) : ~Cyclic(reverse_dependencies, S)
    BY <1>1, <2>1, <2>2, <2>3, AcyclicExtends DEF FinishedAcyclic
  <2> QED
    BY <1>1, <1>3, <2>4 DEF FinishedAcyclic
<1> QED
  BY <1>2, <1>3, FinishedStep

----------------------------------------------------------------------------
(* SearchInv is an inductive invariant of the search. *)
LEMMA SearchInvStep ==
    ASSUME SearchInv, [SearchStep]_searchVars
    PROVE  SearchInv'
  BY SearchTypeStep, BookkeepingStep, PathStep, RealStep, EdgesStep, AcyclicStep
     DEF SearchInv

(* It holds when the search begins. *)
LEMMA SearchInvBegin ==
    ASSUME reverse_dependencies \in [Types -> SUBSET Types],
           NEW R \in SUBSET Types, SearchBegin(R),
           UNCHANGED reverse_dependencies
    PROVE  SearchInv'
<1>1. /\ stack' = <<>> /\ visited' = {} /\ cycles' = {}
      /\ roots' = R /\ unrooted' = R /\ rest' = reverse_dependencies
  BY DEF SearchBegin
<1>2. Len(stack') = 0 /\ OnStack' = {} /\ Finished' = {}
  BY <1>1 DEF OnStack, Finished
<1>3. SearchTypeOK'
  BY <1>1 DEF SearchTypeOK
<1>4. StackIsPath'
  BY <1>1, <1>2 DEF StackIsPath
<1>5. EdgesFollowed' /\ FinishedAcyclic'
  BY <1>1, <1>2 DEF EdgesFollowed, FinishedAcyclic, Cyclic
<1>6. RootsVisited' /\ Untouched' /\ RestInSucc' /\ CyclesReal'
  BY <1>1 DEF RootsVisited, Untouched, RestInSucc, CyclesReal
<1> QED
  BY <1>3, <1>4, <1>5, <1>6 DEF SearchInv

(* A search that has ended without a cycle has missed none. *)
LEMMA SearchComplete == SearchInv => NoCycleMissed
<1> SUFFICES ASSUME SearchInv, SearchEnded, cycles = {},
                    NEW S \in SUBSET Reachable(reverse_dependencies, roots)
             PROVE  ~Cyclic(reverse_dependencies, S)
  BY DEF NoCycleMissed
<1>1. Finished = visited
  BY DEF SearchEnded, Finished, OnStack
<1>2. /\ roots \subseteq visited
      /\ \A n \in visited : reverse_dependencies[n] \subseteq visited
  BY <1>1 DEF SearchInv, RootsVisited, EdgesFollowed, SearchEnded, SearchTypeOK
<1>3. visited \in SUBSET DOMAIN reverse_dependencies
  BY DEF SearchInv, SearchTypeOK
<1>4. S \subseteq visited
  BY <1>2, <1>3 DEF Reachable
<1> QED
  BY <1>1, <1>4 DEF SearchInv, FinishedAcyclic
=============================================================================
