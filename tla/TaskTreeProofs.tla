---------------------------- MODULE TaskTreeProofs ----------------------------
(***************************************************************************)
(* Proofs about TaskTree, for any test description.                        *)
(***************************************************************************)
EXTENDS TaskTree, SequenceTheorems, TLAPS

(***************************************************************************)
(* The inductive invariant.                                                *)
(***************************************************************************)

\* The call stack is the path from the root to the task that runs: each task on
\* it is the child that the one before has run last, and no task is on it twice.
StackIsPath ==
  /\ stack # <<>> => stack[1] = Root
  /\ \A i \in 1..(Len(stack) - 1) :
       /\ child[stack[i]] \in 1..Len(Kids(stack[i]))
       /\ stack[i + 1] = Kids(stack[i])[child[stack[i]]]
  /\ \A i, j \in 1..Len(stack) : stack[i] = stack[j] => i = j

\* A task that looks at a result has run a child.
ResultOfChild == ret # None /\ stack # <<>> => child[Top] > 0

\* A loop that runs is one of those that were asked for, and the index of its name
\* is its number, unless a task inside it uses the name.
InLoop(t) ==
  Of(t) = "sequential" =>
    /\ mRepeatIndex[t] < Tree[t].repeat
    /\ Tree[t].index # NoName /\ (\A c \in Below[t] : Tree[c].index # Tree[t].index) =>
         mIndexList[Tree[t].index] = mRepeatIndex[t]

LoopsOnStack == \A i \in 1..Len(stack) : InLoop(stack[i])

\* What is further up the stack is inside what is further down.
Nested == \A i, j \in 1..Len(stack) : i < j => stack[j] \in Below[stack[i]]

\* What a loop has queued are children that it has run, each once.
QueueOfLoop ==
  \A t \in Task :
    /\ mAsyncTasks[t] # <<>> => OnStack(t) /\ Of(t) = "sequential"
    /\ \A k \in 1..Len(mAsyncTasks[t]) : \E i \in 1..child[t] : mAsyncTasks[t][k] = Kids(t)[i]
    /\ IsInjective(mAsyncTasks[t])

HeldIsQueued == \A a \in held : \E t \in Task : Contains(mAsyncTasks[t], a)

\* A case runs three of its children at most.
ThreeStages == \A t \in Task : Of(t) = "case" => child[t] <= 3

\* A task of the case failed, and not only when its loop had ended already.
Failed == ~(failures \subseteq Overruling)

\* After a failure there is a task that knows it.
FailureKnown ==
  Failed =>
    \/ stack = <<>> \/ In("batch") \/ Stops(ret)
    \/ In("sequential") /\ ret = None /\ Stops(firstError[Top])
    \/ In("case") /\ ret = None /\ child[Top] = 1 /\ Stops(resultSetup)
    \/ In("case") /\ ret = None /\ child[Top] = 2 /\ Stops(resultAction)
    \/ In("case") /\ child[Top] = 3 /\ Stops(resultAction)
    \/ In("case") /\ child[Top] = 3 /\ ret = None /\ Stops(resultSave)

\* While a case runs, a result that says passed is from a process that did.
PassKnown ==
  stack # <<>> /\ ~In("batch") =>
    /\ ret = "Pass" => passed
    /\ In("sequential") /\ ret = None /\ firstError[Top] = "Pass" => passed
    /\ resultAction = "Pass" => passed

IInv ==
  /\ TypeOK /\ StackIsPath /\ ResultOfChild /\ ThreeStages
  /\ LoopsOnStack /\ Nested /\ QueueOfLoop /\ HeldIsQueued /\ FailureKnown /\ PassKnown /\ PassedCasePassed
-------------------------------------------------------------------------------
(* Sequences and the shape of the tree *)

LEMMA PrefixLength ==
  ASSUME NEW S, NEW s \in Seq(S), NEW n \in Int, \A i \in 1..n : s[i] \in S
  PROVE  Len(SubSeq(s, 1, n)) = IF 1 <= n THEN n - 1 + 1 ELSE 0
BY SubSeqProperties

LEMMA FrontAt ==
  ASSUME NEW S, NEW s \in Seq(S), s # <<>>
  PROVE  /\ Front(s) \in Seq(S) /\ Len(Front(s)) = Len(s) - 1
         /\ \A i \in 1..(Len(s) - 1) : Front(s)[i] = s[i]
<1>1. Len(s) - 1 \in Nat /\ \A i \in 1..(Len(s) - 1) : s[i] \in S
  BY LenProperties, EmptySeq, ElementOfSeq
<1>2. /\ SubSeq(s, 1, Len(s) - 1) \in Seq(S)
      /\ \A i \in 1..(Len(s) - 1) : SubSeq(s, 1, Len(s) - 1)[i] = s[i]
  BY <1>1
<1>3. \A n \in Nat : n \in Int /\ (IF 1 <= n THEN n - 1 + 1 ELSE 0) = n
  OBVIOUS
<1>4. Len(SubSeq(s, 1, Len(s) - 1)) = Len(s) - 1
  BY <1>1, <1>3, PrefixLength, Zenon
<1> QED BY <1>2, <1>4, Zenon DEF Front

LEMMA TopIs ==
  ASSUME TypeOK, stack # <<>>
  PROVE  /\ Len(stack) \in Nat \ {0} /\ DOMAIN stack = 1..Len(stack)
         /\ Top = stack[Len(stack)] /\ Top \in Task
         /\ \A i \in 1..Len(stack) : stack[i] \in Task
BY EmptySeq, ElementOfSeq, LenProperties DEF TypeOK, Top, Last

LEMMA KidsAre ==
  ASSUME NEW t \in Task
  PROVE  /\ Kids(t) \in Seq(Task) /\ Len(Kids(t)) \in Nat /\ DOMAIN Kids(t) = 1..Len(Kids(t))
         /\ \A i \in 1..Len(Kids(t)) : Kids(t)[i] \in Task
BY TreeAssumption, ElementOfSeq, LenProperties

\* What the table of the parser says of a parent and its child.
LEMMA ParentOf ==
  ASSUME NEW t \in Task, NEW i \in 1..Len(Kids(t))
  PROVE  /\ Of(Kids(t)[i]) = "case" => Of(t) = "batch"
         /\ Of(Kids(t)[i]) # "batch"
         /\ Of(t) = "batch" => Of(Kids(t)[i]) = "case"
         /\ Of(t) \in {"setup", "action", "sequential"} =>
              Of(Kids(t)[i]) \in {"leaf", "sequential", "async"}
         /\ Of(t) = "case" =>
              /\ Len(Kids(t)) >= 2
              /\ i = 1 => Of(Kids(t)[i]) = "setup"
              /\ i = 2 => Of(Kids(t)[i]) = "action"
              /\ i = 3 => Of(Kids(t)[i]) = "save"
<1>1. <<Of(t), Of(Kids(t)[i])>> \in Admitted /\ Of(t) \in Type
  BY KidsAre, TreeAssumption
<1>2. Of(t) = "case" =>
        /\ Len(Kids(t)) >= 2
        /\ i = 1 => Of(Kids(t)[i]) = "setup"
        /\ i = 2 => Of(Kids(t)[i]) = "action"
        /\ i = 3 => Of(Kids(t)[i]) = "save"
  <2>1. Of(t) = "case" =>
          /\ Len(Kids(t)) >= 2
          /\ Of(Kids(t)[1]) = "setup" /\ Of(Kids(t)[2]) = "action"
          /\ Len(Kids(t)) >= 3 => Of(Kids(t)[3]) = "save"
    BY TreeAssumption, Zenon
  <2> QED BY <2>1, KidsAre
<1> QED BY <1>1, <1>2 DEF Admitted, Type

\* A child of the task on top is not on the stack: it has no other parent.
LEMMA CalledIsNew ==
  ASSUME TypeOK, StackIsPath, stack # <<>>, NEW c, Calls(c)
  PROVE  c \in Task /\ \A i \in 1..Len(stack) : stack[i] # c
<1>1. child[Top] + 1 \in 1..Len(Kids(Top)) /\ c = Kids(Top)[child[Top] + 1] /\ c \in Task
  <2>1. Top \in Task
    BY TopIs
  <2>2. child[Top] \in Nat /\ Len(Kids(Top)) \in Nat
    BY <2>1, KidsAre DEF TypeOK
  <2>3. child[Top] + 1 \in 1..Len(Kids(Top)) /\ c = Kids(Top)[child[Top] + 1]
    BY <2>2 DEF Calls
  <2> QED BY <2>1, <2>3, KidsAre
<1>2. SUFFICES ASSUME NEW i \in 1..Len(stack), stack[i] = c PROVE FALSE
  BY <1>1
<1>3. CASE i = 1
  BY <1>1, <1>2, <1>3, TopIs, KidsAre, ShapeAssumption DEF StackIsPath
<1>4. CASE i > 1
  <2> DEFINE j == i - 1
  <2>1. /\ j \in 1..(Len(stack) - 1) /\ j + 1 = i /\ stack[j] \in Task
        /\ child[stack[j]] \in 1..Len(Kids(stack[j])) /\ c = Kids(stack[j])[child[stack[j]]]
    BY <1>2, <1>4, TopIs DEF StackIsPath
  <2>2. stack[j] = Top /\ child[stack[j]] = child[Top] + 1
    <3>1. child[stack[j]] \in DOMAIN Kids(stack[j]) /\ child[Top] + 1 \in DOMAIN Kids(Top)
      BY <1>1, <2>1, TopIs, KidsAre
    <3>2. Kids(stack[j])[child[stack[j]]] = Kids(Top)[child[Top] + 1] /\ Top \in Task
      BY <1>1, <2>1, TopIs
    <3> HIDE DEF j
    <3> QED BY <2>1, <3>1, <3>2, ShapeAssumption
  <2>4. j = Len(stack)
    BY <2>1, <2>2, TopIs DEF StackIsPath
  <2> QED BY <2>1, <2>4, TopIs
<1> QED BY <1>2, <1>3, <1>4, TopIs

-------------------------------------------------------------------------------
(* What every step does to the stack, to the counts of children and to the *)
(* result that is on its way.                                              *)

Pushes ==
  \E c \in Task :
    /\ Calls(c) /\ Push(c) /\ ret' = None /\ child' = [Counted EXCEPT ![c] = 0]
    /\ mAsyncTasks' = mAsyncTasks /\ held' = held

Queues(c) ==
  /\ In("sequential") /\ held' = held \cup {c}
  /\ mAsyncTasks' = [mAsyncTasks EXCEPT ![Top] = Append(@, c)]

Counts ==
  \E c \in Task :
    /\ Calls(c) /\ stack' = stack /\ ret' \in Result /\ child' = Counted
    /\ (mAsyncTasks' = mAsyncTasks /\ held' = held) \/ Queues(c)

Pops ==
  /\ stack' = Front(stack) /\ ret' \in Result /\ child' = child
  /\ In("sequential") => ret = None /\ mAsyncTasks[Top] = <<>>
  /\ mAsyncTasks' = mAsyncTasks /\ held' = held

Completes ==
  /\ child' = child /\ mAsyncTasks[Top] # <<>>
  /\ mAsyncTasks' = [mAsyncTasks EXCEPT ![Top] = Tail(@)]
  /\ held' = held \ {Head(mAsyncTasks[Top])}

Stays ==
  /\ stack' = stack /\ ret' = None
  /\ \/ Completes
     \/ /\ child' = child \/ (child' = [child EXCEPT ![Top] = 0] /\ mAsyncTasks[Top] = <<>>)
        /\ mAsyncTasks' = mAsyncTasks /\ held' = held

LEMMA StackStep ==
  ASSUME TypeOK, Next
  PROVE  stack # <<>> /\ (Pushes \/ Counts \/ Pops \/ Stays)
<1>0. None \notin Result
  BY TreeAssumption
<1>1. stack # <<>> BY DEF Next, Stage, Sequential, RunCase, CaseReturned, BatchReturns, CaseStage,
                          StageReturned, CaseReturns, In
<1>2. CASE RunLeaf
  <2>1. \A c \in Task : Tree[c].results \subseteq Result
    BY TreeAssumption
  <2> QED BY <1>1, <1>2, <2>1 DEF RunLeaf, Counts, loops
<1>3. CASE RunSequential
  BY <1>1, <1>3 DEF RunSequential, Pushes, Calls
<1>4. CASE Stage
  <2>1. CASE (StageGoesOn \/ StageEnds) /\ UNCHANGED <<child, loops, mIndexList, results, history>>
    BY <1>4, <2>1 DEF StageGoesOn, StageEnds, Return, Stays, Pops, loops, TypeOK, Stage, In, Result
  <2> QED BY <1>2, <1>3, <1>4, <2>1 DEF Stage
<1>5. CASE Sequential
  <2>1. CASE RunAsync
    BY <1>1, <1>5, <2>1 DEF RunAsync, Counts, Result, Queues, Sequential
  <2>2. CASE ChildReturned \/ Complete \/ NextLoop
    BY <1>1, <2>2 DEF ChildReturned, Complete, NextLoop, Stays, Completes, LoopIsOver, AtEnd
  <2>3. CASE LoopsDone \/ LoopBroken \/ LoopsStopped
    BY <2>3, TopIs, <1>1 DEF LoopsDone, LoopBroken, LoopsStopped, Pops, LoopIsOver, AtEnd, Return,
                     loops, Result, TypeOK
  <2> QED BY <1>2, <1>3, <1>5, <2>1, <2>2, <2>3 DEF Sequential
<1>6. CASE RunCase
  BY <1>1, <1>6 DEF RunCase, Pushes, Calls, loops
<1>7. CASE CaseReturned \/ StageReturned
  BY <1>1, <1>7 DEF CaseReturned, StageReturned, Stays, loops
<1>8. CASE BatchReturns
  BY <1>1, <1>8 DEF BatchReturns, Pops, Return, In, Result, loops
<1>9. CASE CaseStage
  BY <1>1, <1>2, <1>9 DEF CaseStage, RunStage, Pushes, loops, Calls
<1>10. CASE CaseReturns
  BY <1>1, <1>10 DEF CaseReturns, Pops, Return, In, Result, loops, TypeOK
<1> QED BY <1>1, <1>4, <1>5, <1>6, <1>7, <1>8, <1>9, <1>10 DEF Next

LEMMA Pushed ==
  ASSUME TypeOK, NEW c \in Task, Push(c)
  PROVE  /\ stack' \in Seq(Task) /\ stack' # <<>> /\ Len(stack') = Len(stack) + 1
         /\ stack'[Len(stack')] = c /\ Top' = c
         /\ \A i \in 1..Len(stack) : stack'[i] = stack[i]
<1>1. stack \in Seq(Task) /\ stack' = Append(stack, c)
  BY DEF TypeOK, Push
<1>2. /\ stack' \in Seq(Task) /\ stack' # <<>> /\ Len(stack') = Len(stack) + 1
      /\ \A i \in 1..Len(stack) : stack'[i] = stack[i]
      /\ stack'[Len(stack) + 1] = c
  BY <1>1, AppendProperties
<1> QED BY <1>2 DEF Top, Last

LEMMA Popped ==
  ASSUME TypeOK, stack # <<>>, stack' = Front(stack)
  PROVE  /\ stack' \in Seq(Task) /\ Len(stack') = Len(stack) - 1 /\ Len(stack') \in Nat
         /\ \A i \in 1..Len(stack') : stack'[i] = stack[i]
         /\ stack' # <<>> => Len(stack') > 0 /\ Top' = stack[Len(stack) - 1] /\ Top' \in Task
<1>1. /\ stack' \in Seq(Task) /\ Len(stack') = Len(stack) - 1
      /\ \A i \in 1..Len(stack') : stack'[i] = stack[i]
  BY FrontAt DEF TypeOK
<1>2. ASSUME stack' # <<>> PROVE Len(stack') \in 1..Len(stack)
  BY <1>1, <1>2, EmptySeq, TopIs
<1> QED BY <1>1, <1>2, TopIs DEF Top, Last

-------------------------------------------------------------------------------
(* Types *)

\* The stack, the counts of children and the result that is on its way.
StackType ==
  /\ stack \in Seq(Task) /\ ret \in Result \cup {None}
  /\ child \in [Task -> Nat] /\ \A t \in Task : child[t] <= Len(Kids(t))

\* The loops.
LoopType ==
  /\ mRepeatIndex \in [Task -> Nat] /\ firstError \in [Task -> Result]
  /\ \A t \in Task : mRepeatIndex[t] <= Tree[t].repeat + 1
  /\ mAsyncTasks \in [Task -> Seq(Task)] /\ held \subseteq Task
  /\ mIndexList \in [Name -> Nat]

\* The case in progress.
CaseType ==
  /\ resultSetup \in Result /\ resultAction \in Result /\ resultSave \in Result
  /\ report \in [Task -> {"none", "passed", "failed"}]
  /\ failures \subseteq Result /\ passed \in BOOLEAN

LEMMA TypeParts ==
  /\ TypeOK <=> StackType /\ LoopType /\ CaseType
  /\ TypeOK' <=> StackType' /\ LoopType' /\ CaseType'
BY DEF TypeOK, StackType, LoopType, CaseType

LEMMA TypeInit == Init => TypeOK
<1> SUFFICES ASSUME Init PROVE TypeOK
  OBVIOUS
<1>1. \A t \in Task : Len(Kids(t)) \in Nat /\ Tree[t].repeat \in Nat
  BY KidsAre, TreeAssumption
<1>2. StackType
  BY <1>1, TreeAssumption DEF Init, StackType
<1>3. LoopType
  BY <1>1 DEF Init, LoopType, Result
<1>4. CaseType
  BY DEF Init, CaseType, Result
<1> QED BY <1>2, <1>3, <1>4, TypeParts

LEMMA StackTypeStep == ASSUME TypeOK, Next PROVE StackType'
<1> USE DEF StackType
<1>1. stack # <<>> /\ Top \in Task /\ child[Top] \in Nat
  BY StackStep, TopIs DEF TypeOK
<1>2. \A t \in Task : Len(Kids(t)) \in Nat
  BY KidsAre
<1>3. child \in [Task -> Nat] /\ (\A t \in Task : child[t] <= Len(Kids(t)))
  BY DEF TypeOK
<1>4. ASSUME NEW c \in Task, Calls(c)
      PROVE  /\ child[Top] + 1 <= Len(Kids(Top))
             /\ Counted \in [Task -> Nat] /\ \A t \in Task : Counted[t] <= Len(Kids(t))
  BY <1>1, <1>2, <1>3, <1>4 DEF Calls, Counted
<1>5. CASE Pushes
  <2>1. PICK c \in Task : Calls(c) /\ Push(c) /\ ret' = None /\ child' = [Counted EXCEPT ![c] = 0]
    BY <1>5 DEF Pushes
  <2>2. stack' \in Seq(Task)
    BY <2>1, Pushed
  <2> QED BY <1>2, <1>4, <2>1, <2>2
<1>6. CASE Counts
  <2>1. PICK c \in Task : Calls(c) /\ stack' = stack /\ ret' \in Result /\ child' = Counted
    BY <1>6 DEF Counts
  <2> QED BY <1>4, <2>1 DEF TypeOK
<1>7. CASE Pops
  <2>1. stack' \in Seq(Task)
    BY <1>1, <1>7, Popped DEF Pops
  <2> QED BY <1>3, <1>7, <2>1 DEF Pops
<1>8. CASE Stays
  <2>1. stack' \in Seq(Task) /\ ret' = None
    BY <1>8 DEF Stays, TypeOK
  <2>2. child' = child \/ child' = [child EXCEPT ![Top] = 0]
    BY <1>8 DEF Stays, Completes
  <2>3. child' \in [Task -> Nat] /\ \A t \in Task : child'[t] <= Len(Kids(t))
    BY <1>1, <1>2, <1>3, <2>2
  <2> QED BY <2>1, <2>3
<1> QED BY <1>5, <1>6, <1>7, <1>8, StackStep

LEMMA IndexType ==
  ASSUME TypeOK, NEW t \in Task, NEW i \in Nat
  PROVE  WithIndex(t, i) \in [Name -> Nat]
<1>1. Tree[t].index \in Name \cup {NoName}
  BY TreeAssumption
<1> QED BY <1>1 DEF WithIndex, TypeOK

LEMMA SequentialTypeStep ==
  ASSUME TypeOK, Sequential
  PROVE  LoopType' /\ CaseType'
<1>1. stack # <<>> /\ Top \in Task
  BY TopIs DEF Sequential, In
<1>2. LoopType /\ CaseType /\ ret \in Result \cup {None}
  BY TypeParts DEF StackType
<1>3. \A t \in Task : Tree[t].repeat \in Nat /\ Tree[t].repeat > 0
  BY TreeAssumption
<1>4. mRepeatIndex[Top] + 1 \in Nat /\ Tree[Top].repeat + 1 \in Nat
  BY <1>1, <1>2, <1>3 DEF LoopType
<1>5. CASE RunLeaf
  BY <1>2, <1>5 DEF RunLeaf, Happened, Failing, loops, results, LoopType, CaseType, Result
<1>6. CASE RunSequential
  <2>1. PICK c \in Task :
          /\ mRepeatIndex' = [mRepeatIndex EXCEPT ![c] = 0]
          /\ firstError' = [firstError EXCEPT ![c] = "OK"]
          /\ mIndexList' = WithIndex(c, 0)
    BY <1>6 DEF RunSequential
  <2>2. mIndexList' \in [Name -> Nat]
    BY <2>1, IndexType
  <2>3. UNCHANGED <<mAsyncTasks, held, results, history>>
    BY <1>6 DEF RunSequential
  <2> QED BY <1>2, <1>3, <2>1, <2>2, <2>3 DEF results, history, LoopType, CaseType, Result
<1>7. CASE RunAsync
  <2>1. mAsyncTasks' \in [Task -> Seq(Task)] /\ held' \subseteq Task /\ failures' \subseteq Result
    <3>1. PICK c \in Task :
            /\ \/ UNCHANGED <<mAsyncTasks, held>>
               \/ /\ held' = held \cup {c}
                  /\ mAsyncTasks' = [mAsyncTasks EXCEPT ![Top] = Append(@, c)]
            /\ failures' \in {failures, failures \cup {"OK"}}
      BY <1>7 DEF RunAsync, Failing
    <3>2. Append(mAsyncTasks[Top], c) \in Seq(Task)
      BY <1>1, <1>2, AppendProperties DEF LoopType
    <3> QED BY <1>1, <1>2, <3>1, <3>2 DEF LoopType, CaseType, Result
  <2> QED BY <1>2, <1>7, <2>1 DEF RunAsync, results, LoopType, CaseType
<1>8. CASE ChildReturned
  BY <1>1, <1>2, <1>8 DEF ChildReturned, results, history, LoopType, CaseType
<1>9. CASE Complete
  <2>1. mAsyncTasks[Top] \in Seq(Task) /\ mAsyncTasks[Top] # <<>>
    BY <1>1, <1>2, <1>9 DEF Complete, LoopType
  <2>2. Tail(mAsyncTasks[Top]) \in Seq(Task)
    BY <2>1, HeadTailProperties
  <2>3. mAsyncTasks' \in [Task -> Seq(Task)] /\ held' \subseteq Task
    BY <1>1, <1>2, <1>9, <2>2 DEF Complete, LoopType
  <2>4. firstError' \in [Task -> Result] /\ failures' \subseteq Result
    BY <1>1, <1>2, <1>9 DEF Complete, Failing, LoopType, CaseType, Result
  <2> QED BY <1>2, <1>9, <2>3, <2>4 DEF Complete, results, LoopType, CaseType
<1>10. CASE NextLoop
  <2>1. mIndexList' \in [Name -> Nat]
    <3>1. mRepeatIndex'[Top] = mRepeatIndex[Top] + 1
      BY <1>1, <1>2, <1>10 DEF NextLoop, LoopType
    <3> QED BY <1>1, <1>4, <1>10, <3>1, IndexType DEF NextLoop
  <2>2. mRepeatIndex' = [mRepeatIndex EXCEPT ![Top] = @ + 1] /\ mRepeatIndex[Top] + 1 < Tree[Top].repeat
    BY <1>10 DEF NextLoop
  <2>3. mRepeatIndex' \in [Task -> Nat] /\ \A t \in Task : mRepeatIndex'[t] <= Tree[t].repeat + 1
    BY <1>1, <1>2, <1>3, <1>4, <2>2 DEF LoopType
  <2> QED BY <1>1, <1>2, <1>10, <2>1, <2>3 DEF NextLoop, results, history, LoopType, CaseType, Result
<1>11. CASE LoopsDone \/ LoopsStopped
  <2>1. \/ mRepeatIndex' = [mRepeatIndex EXCEPT ![Top] = @ + 1] /\ mRepeatIndex[Top] + 1 = Tree[Top].repeat
        \/ mRepeatIndex' = [mRepeatIndex EXCEPT ![Top] = Tree[Top].repeat + 1]
    BY <1>11 DEF LoopsDone, LoopsStopped
  <2>2. mRepeatIndex' \in [Task -> Nat] /\ \A t \in Task : mRepeatIndex'[t] <= Tree[t].repeat + 1
    <3>1. mRepeatIndex' \in [Task -> Nat] /\ mRepeatIndex'[Top] <= Tree[Top].repeat + 1
      BY <1>1, <1>2, <1>3, <1>4, <2>1 DEF LoopType
    <3>2. \A t \in Task \ {Top} : mRepeatIndex'[t] = mRepeatIndex[t]
      BY <1>1, <1>2, <2>1 DEF LoopType
    <3> QED BY <1>1, <1>2, <3>1, <3>2 DEF LoopType
  <2>3. mIndexList' \in [Name -> Nat]
    BY <1>1, <1>11, <2>2, IndexType DEF LoopsDone, LoopsStopped
  <2> QED BY <1>2, <1>11, <2>2, <2>3 DEF LoopsDone, LoopsStopped, results, history, LoopType, CaseType
<1>12. CASE LoopBroken
  BY <1>2, <1>12 DEF LoopBroken, loops, results, history, LoopType, CaseType
<1> QED BY <1>5, <1>6, <1>7, <1>8, <1>9, <1>10, <1>11, <1>12 DEF Sequential

LEMMA TypeStep == ASSUME TypeOK, [Next]_vars PROVE TypeOK'
<1>1. CASE UNCHANGED vars
  BY <1>1 DEF TypeOK, vars, loops, results, history
<1>2. CASE Next
  <2>1. LoopType /\ CaseType /\ ret \in Result \cup {None}
    BY TypeParts DEF StackType
  <2>2. CASE Sequential
    BY <1>2, <2>2, SequentialTypeStep, StackTypeStep, TypeParts
  <2>3. ASSUME RunLeaf \/ RunStage PROVE LoopType' /\ CaseType'
    BY <2>1, <2>3 DEF RunLeaf, RunStage, Happened, Failing, loops, results, history, LoopType,
                      CaseType, Result
  <2>4. ASSUME RunSequential PROVE LoopType' /\ CaseType'
    <3>1. PICK c \in Task :
            /\ mRepeatIndex' = [mRepeatIndex EXCEPT ![c] = 0]
            /\ firstError' = [firstError EXCEPT ![c] = "OK"]
            /\ mIndexList' = WithIndex(c, 0)
      BY <2>4 DEF RunSequential
    <3>2. mIndexList' \in [Name -> Nat]
      BY <3>1, IndexType
    <3>3. UNCHANGED <<mAsyncTasks, held, results, history>> /\ Tree[c].repeat \in Nat
      BY <2>4, TreeAssumption DEF RunSequential
    <3>4. CaseType'
      BY <2>1, <3>3 DEF results, history, CaseType
    <3> QED BY <2>1, <3>1, <3>2, <3>3, <3>4 DEF LoopType, Result
  <2>5. CASE Stage
    <3>1. CASE UNCHANGED <<child, loops, mIndexList, results, history>>
      <4>1. LoopType' /\ CaseType'
        BY <2>1, <3>1 DEF loops, results, history, LoopType, CaseType
      <4> QED BY <1>2, <4>1, StackTypeStep, TypeParts
    <3> QED BY <1>2, <2>3, <2>4, <2>5, <3>1, StackTypeStep, TypeParts DEF Stage
  <2>6. CASE RunCase
    <3>1. LoopType' /\ CaseType'
      BY <2>1, <2>6 DEF RunCase, loops, LoopType, CaseType, Result
    <3> QED BY <1>2, <3>1, StackTypeStep, TypeParts
  <2>7. CASE CaseReturned \/ BatchReturns
    <3>1. LoopType' /\ CaseType'
      BY <2>1, <2>7 DEF CaseReturned, BatchReturns, loops, results, history, LoopType, CaseType
    <3> QED BY <1>2, <3>1, StackTypeStep, TypeParts
  <2>8. CASE CaseStage
    BY <1>2, <2>3, <2>8, StackTypeStep, TypeParts DEF CaseStage
  <2>9. CASE StageReturned
    <3>1. LoopType' /\ CaseType'
      BY <2>1, <2>9 DEF StageReturned, loops, history, LoopType, CaseType
    <3> QED BY <1>2, <3>1, StackTypeStep, TypeParts
  <2>10. CASE CaseReturns
    <3>1. LoopType' /\ CaseType'
      BY <2>1, <2>10 DEF CaseReturns, loops, history, LoopType, CaseType
    <3> QED BY <1>2, <3>1, StackTypeStep, TypeParts
  <2> QED BY <1>2, <2>2, <2>5, <2>6, <2>7, <2>8, <2>9, <2>10 DEF Next
<1> QED BY <1>1, <1>2

\* Every task's counters and results stay in range, for any test description.
THEOREM TypeCorrect == Spec => []TypeOK
BY TypeInit, TypeStep, PTL DEF Spec

-------------------------------------------------------------------------------
(* The stack is a path of the tree. *)

LEMMA BelowTop ==
  ASSUME TypeOK, StackIsPath, stack # <<>>, NEW i \in 1..(Len(stack) - 1)
  PROVE  stack[i] # Top /\ stack[i] \in Task /\ i \in 1..Len(stack) /\ i + 1 \in 1..Len(stack)
<1>1. /\ Len(stack) \in Nat /\ Top = stack[Len(stack)]
      /\ \A j \in 1..Len(stack) : stack[j] \in Task
  BY TopIs
<1>2. i \in 1..Len(stack) /\ Len(stack) \in 1..Len(stack) /\ i # Len(stack) /\ i + 1 \in 1..Len(stack)
  BY <1>1
<1> QED BY <1>1, <1>2 DEF StackIsPath

LEMMA PathStep ==
  ASSUME TypeOK, StackIsPath, ResultOfChild, Next
  PROVE  StackIsPath' /\ ResultOfChild'
<1> DEFINE n == Len(stack)
<1>1. /\ stack # <<>> /\ n \in Nat \ {0} /\ Top = stack[n] /\ Top \in Task
      /\ \A i \in 1..n : stack[i] \in Task
  BY StackStep, TopIs
<1>2. child \in [Task -> Nat] /\ child[Top] \in Nat /\ None \notin Result
  BY <1>1, TreeAssumption DEF TypeOK
<1>3. /\ stack[1] = Root
      /\ \A i \in 1..(n - 1) : /\ child[stack[i]] \in 1..Len(Kids(stack[i]))
                               /\ stack[i + 1] = Kids(stack[i])[child[stack[i]]]
      /\ \A i, j \in 1..n : stack[i] = stack[j] => i = j
  BY <1>1 DEF StackIsPath
<1>4. \A i \in 1..(n - 1) : stack[i] # Top /\ stack[i] \in Task
  BY <1>1, BelowTop
<1>5. CASE Pushes
  <2>1. PICK c \in Task : Calls(c) /\ Push(c) /\ ret' = None /\ child' = [Counted EXCEPT ![c] = 0]
    BY <1>5 DEF Pushes
  <2>2. /\ Len(stack') = n + 1 /\ stack'[n + 1] = c /\ \A i \in 1..n : stack'[i] = stack[i]
    BY <2>1, Pushed
  <2>3. \A i \in 1..n : stack[i] # c
    BY <1>1, <2>1, CalledIsNew
  <2>4. \A i \in 1..(n - 1) : child'[stack[i]] = child[stack[i]]
    BY <1>2, <1>4, <2>1, <2>3 DEF Counted
  <2>5. child'[Top] = child[Top] + 1 /\ child[Top] + 1 \in 1..Len(Kids(Top))
        /\ c = Kids(Top)[child[Top] + 1]
    BY <1>1, <1>2, <2>1, <2>3, KidsAre DEF Counted, Calls
  <2>6. stack'[1] = Root
    BY <1>1, <1>3, <2>2
  <2>7. ASSUME NEW i \in 1..n
        PROVE  /\ child'[stack'[i]] \in 1..Len(Kids(stack'[i]))
               /\ stack'[i + 1] = Kids(stack'[i])[child'[stack'[i]]]
    <3>1. CASE i = n
      BY <1>1, <2>2, <2>5, <3>1
    <3>2. CASE i # n
      <4>1. i \in 1..(n - 1) /\ i + 1 \in 1..n
        BY <1>1, <3>2
      <4> QED BY <1>3, <2>2, <2>4, <4>1
    <3> QED BY <3>1, <3>2
  <2>8. ASSUME NEW i \in 1..(n + 1), NEW j \in 1..(n + 1), stack'[i] = stack'[j]
        PROVE  i = j
    BY <1>1, <1>3, <2>2, <2>3, <2>8
  <2>9. 1..(Len(stack') - 1) = 1..n
    BY <1>1, <2>2
  <2> QED BY <2>1, <2>2, <2>6, <2>7, <2>8, <2>9 DEF StackIsPath, ResultOfChild
<1>6. CASE Counts
  <2>1. /\ stack' = stack /\ child' = Counted
    BY <1>6 DEF Counts
  <2>2. \A i \in 1..(n - 1) : child'[stack[i]] = child[stack[i]]
    BY <1>2, <1>4, <2>1 DEF Counted
  <2>3. Top' = Top /\ child'[Top] > 0
    BY <1>1, <1>2, <2>1 DEF Counted, Top
  <2> QED BY <1>3, <2>1, <2>2, <2>3 DEF StackIsPath, ResultOfChild
<1>7. CASE Pops
  <2>1. stack' = Front(stack) /\ child' = child
    BY <1>7 DEF Pops
  <2>2. /\ Len(stack') = n - 1 /\ \A i \in 1..(n - 1) : stack'[i] = stack[i]
        /\ stack' # <<>> => n - 1 > 0 /\ Top' = stack[n - 1]
    BY <1>1, <2>1, Popped
  <2>3. ASSUME stack' # <<>> PROVE stack'[1] = Root /\ child'[Top'] > 0
    <3>1. n - 1 \in 1..(n - 1) /\ 1 \in 1..(n - 1)
      BY <1>1, <2>2, <2>3
    <3> QED BY <1>1, <1>3, <2>1, <2>2, <2>3, <3>1, KidsAre
  <2>4. ASSUME NEW i \in 1..(n - 1 - 1)
        PROVE  /\ child'[stack'[i]] \in 1..Len(Kids(stack'[i]))
               /\ stack'[i + 1] = Kids(stack'[i])[child'[stack'[i]]]
    <3>1. i \in 1..(n - 1) /\ i + 1 \in 1..(n - 1)
      BY <1>1
    <3> QED BY <1>3, <2>1, <2>2, <3>1
  <2>5. ASSUME NEW i \in 1..(n - 1), NEW j \in 1..(n - 1), stack'[i] = stack'[j]
        PROVE  i = j
    <3>1. i \in 1..n /\ j \in 1..n
      BY <1>1
    <3> QED BY <1>3, <2>2, <2>5, <3>1
  <2> QED BY <2>2, <2>3, <2>4, <2>5 DEF StackIsPath, ResultOfChild
<1>8. CASE Stays
  <2>1. stack' = stack /\ ret' = None /\ (child' = child \/ child' = [child EXCEPT ![Top] = 0])
    BY <1>8 DEF Stays, Completes
  <2>2. \A i \in 1..(n - 1) : child'[stack[i]] = child[stack[i]]
    BY <1>2, <1>4, <2>1
  <2> QED BY <1>3, <2>1, <2>2 DEF StackIsPath, ResultOfChild
<1> QED BY <1>5, <1>6, <1>7, <1>8, StackStep

\* A case is only in progress under a batch, and a batch is only under nothing.
LEMMA AboveTop ==
  ASSUME TypeOK, StackIsPath, stack # <<>>
  PROVE  /\ Of(Top) = "batch" => Len(stack) = 1
         /\ Len(stack) > 1 =>
              LET parent == stack[Len(stack) - 1]
              IN  /\ parent \in Task /\ parent # Top
                  /\ child[parent] \in 1..Len(Kids(parent)) /\ Top = Kids(parent)[child[parent]]
                  /\ Of(Top) = "case" <=> Of(parent) = "batch"
<1>1. SUFFICES ASSUME Len(stack) > 1
      PROVE  LET parent == stack[Len(stack) - 1]
             IN  /\ parent \in Task /\ parent # Top
                 /\ child[parent] \in 1..Len(Kids(parent)) /\ Top = Kids(parent)[child[parent]]
                 /\ Of(Top) # "batch" /\ (Of(Top) = "case" <=> Of(parent) = "batch")
  BY TopIs
<1> DEFINE i == Len(stack) - 1
<1>2. i \in 1..(Len(stack) - 1) /\ i + 1 = Len(stack)
  BY <1>1, TopIs
<1>3. stack[i] \in Task /\ stack[i] # Top
  BY <1>2, BelowTop
<1>4. child[stack[i]] \in 1..Len(Kids(stack[i])) /\ Top = Kids(stack[i])[child[stack[i]]]
  BY <1>2, TopIs DEF StackIsPath
<1> QED BY <1>3, <1>4, ParentOf

-------------------------------------------------------------------------------
(* Asynchronous tasks *)

LEMMA QueueStep ==
  ASSUME TypeOK, StackIsPath, QueueOfLoop, HeldIsQueued, Next
  PROVE  QueueOfLoop' /\ HeldIsQueued'
<1> DEFINE q == mAsyncTasks
           n == Len(stack)
<1>1. /\ stack # <<>> /\ n \in Nat \ {0} /\ Top = stack[n] /\ Top \in Task
      /\ DOMAIN stack = 1..n
  BY StackStep, TopIs
<1>2. /\ child \in [Task -> Nat] /\ q \in [Task -> Seq(Task)]
      /\ \A t \in Task : /\ Len(q[t]) \in Nat /\ DOMAIN q[t] = 1..Len(q[t])
                         /\ q[t] = <<>> => Len(q[t]) = 0
  BY LenProperties, EmptySeq DEF TypeOK
<1>3. \A t \in Task : /\ q[t] # <<>> => OnStack(t) /\ Of(t) = "sequential"
                      /\ \A k \in 1..Len(q[t]) : \E i \in 1..child[t] : q[t][k] = Kids(t)[i]
                      /\ IsInjective(q[t])
  BY DEF QueueOfLoop
\* A queue is as it was, its task is on the stack as before and has run no fewer children.
<1>4. ASSUME NEW t \in Task, q'[t] = q[t],
             q[t] # <<>> => (OnStack(t))' /\ child'[t] >= child[t] /\ child'[t] \in Nat
      PROVE  /\ q'[t] # <<>> => (OnStack(t))' /\ Of(t) = "sequential"
             /\ \A k \in 1..Len(q'[t]) : \E i \in 1..child'[t] : q'[t][k] = Kids(t)[i]
             /\ IsInjective(q'[t])
  <2>1. ASSUME NEW k \in 1..Len(q[t]) PROVE \E i \in 1..child'[t] : q[t][k] = Kids(t)[i]
    <3>1. child'[t] >= child[t] /\ child'[t] \in Nat /\ child[t] \in Nat
      BY <1>2, <1>4, <2>1
    <3>2. PICK i \in 1..child[t] : q[t][k] = Kids(t)[i]
      BY <1>3, <2>1
    <3> QED BY <3>1, <3>2
  <2> QED BY <1>3, <1>4, <2>1
<1>5. ASSUME q' = q, held' = held PROVE HeldIsQueued'
  BY <1>5 DEF HeldIsQueued
<1>6. CASE Pushes
  <2>1. PICK c \in Task : Calls(c) /\ Push(c) /\ child' = [Counted EXCEPT ![c] = 0]
    BY <1>6 DEF Pushes
  <2>2. /\ \A i \in 1..n : stack'[i] = stack[i] /\ stack[i] # c
        /\ DOMAIN stack' = 1..(n + 1) /\ q' = q /\ held' = held
    BY <1>1, <1>6, <2>1, Pushed, CalledIsNew, LenProperties DEF Pushes
  <2>3. ASSUME NEW t \in Task, q[t] # <<>>
        PROVE  (OnStack(t))' /\ child'[t] >= child[t] /\ child'[t] \in Nat
    <3>1. PICK i \in 1..n : stack[i] = t
      BY <1>1, <1>3, <2>3 DEF OnStack
    <3>2. i \in DOMAIN stack' /\ stack'[i] = t /\ t # c
      BY <1>1, <2>2, <3>1
    <3>3. (OnStack(t))'
      BY <3>2 DEF OnStack
    <3>4. child'[t] = Counted[t]
      BY <1>2, <2>1, <3>2 DEF Counted
    <3>5. Counted[t] \in {child[t], child[t] + 1} /\ child[t] \in Nat
      BY <1>1, <1>2 DEF Counted
    <3> QED BY <3>3, <3>4, <3>5
  <2> QED BY <1>4, <1>5, <2>2, <2>3 DEF QueueOfLoop
<1>7. CASE Counts
  <2>1. PICK c \in Task : /\ Calls(c) /\ stack' = stack /\ child' = Counted
                          /\ (q' = q /\ held' = held) \/ Queues(c)
    BY <1>7 DEF Counts
  <2>2. ASSUME NEW t \in Task, q[t] # <<>>
        PROVE  (OnStack(t))' /\ child'[t] >= child[t] /\ child'[t] \in Nat
    <3>1. Counted[t] \in {child[t], child[t] + 1} /\ child[t] \in Nat
      BY <1>1, <1>2 DEF Counted
    <3>2. (OnStack(t))'
      BY <1>3, <2>1, <2>2 DEF OnStack
    <3> QED BY <2>1, <3>1, <3>2
  <2>3. CASE q' = q /\ held' = held
    BY <1>4, <1>5, <2>2, <2>3 DEF QueueOfLoop
  <2>4. CASE Queues(c)
    <3>1. /\ Of(Top) = "sequential" /\ held' = held \cup {c}
          /\ q'[Top] = Append(q[Top], c) /\ \A t \in Task \ {Top} : q'[t] = q[t]
      BY <1>1, <1>2, <2>4 DEF Queues, In
    <3>2. /\ q'[Top] \in Seq(Task) /\ Len(q'[Top]) = Len(q[Top]) + 1
          /\ q'[Top][Len(q[Top]) + 1] = c /\ \A k \in 1..Len(q[Top]) : q'[Top][k] = q[Top][k]
          /\ DOMAIN q'[Top] = 1..(Len(q[Top]) + 1)
      BY <1>1, <1>2, <3>1, AppendProperties, LenProperties
    <3>3. /\ child[Top] \in Nat /\ child'[Top] = child[Top] + 1 /\ c = Kids(Top)[child[Top] + 1]
          /\ child[Top] + 1 \in DOMAIN Kids(Top) /\ 1..child[Top] \subseteq DOMAIN Kids(Top)
      BY <1>1, <1>2, <2>1, KidsAre DEF Calls, Counted
    <3>4. \A k \in 1..Len(q'[Top]) : \E i \in 1..child'[Top] : q'[Top][k] = Kids(Top)[i]
      <4> SUFFICES ASSUME NEW k \in 1..Len(q'[Top])
                   PROVE  \E i \in 1..child'[Top] : q'[Top][k] = Kids(Top)[i]
        OBVIOUS
      <4>1. CASE k = Len(q[Top]) + 1
        <5>1. child[Top] + 1 \in 1..child'[Top]
          BY <3>3
        <5> QED BY <3>2, <3>3, <4>1, <5>1
      <4>2. CASE k # Len(q[Top]) + 1
        <5>1. k \in 1..Len(q[Top])
          BY <1>1, <1>2, <3>2, <4>2
        <5>2. PICK i \in 1..child[Top] : q[Top][k] = Kids(Top)[i]
          BY <1>1, <1>3, <5>1
        <5>3. i \in 1..child'[Top]
          BY <3>3
        <5> QED BY <3>2, <5>1, <5>2, <5>3
      <4> QED BY <4>1, <4>2
    <3>5. \A k \in 1..Len(q[Top]) : q[Top][k] # c
      <4> SUFFICES ASSUME NEW k \in 1..Len(q[Top]), q[Top][k] = c PROVE FALSE
        OBVIOUS
      <4>1. PICK i \in 1..child[Top] : q[Top][k] = Kids(Top)[i]
        BY <1>1, <1>3
      <4>2. i = child[Top] + 1
        BY <1>1, <3>3, <4>1, ShapeAssumption
      <4> QED BY <3>3, <4>2
    <3>6. IsInjective(q'[Top])
      <4>1. Len(q[Top]) \in Nat /\ IsInjective(q[Top]) /\ DOMAIN q[Top] = 1..Len(q[Top])
        BY <1>1, <1>2, <1>3
      <4>2. ASSUME NEW a \in 1..(Len(q[Top]) + 1), NEW b \in 1..(Len(q[Top]) + 1),
                   q'[Top][a] = q'[Top][b]
            PROVE  a = b
        <5>1. /\ a = Len(q[Top]) + 1 \/ a \in 1..Len(q[Top])
              /\ b = Len(q[Top]) + 1 \/ b \in 1..Len(q[Top])
          BY <4>1
        <5>2. CASE a \in 1..Len(q[Top]) /\ b \in 1..Len(q[Top])
          BY <3>2, <4>1, <4>2, <5>2 DEF IsInjective
        <5> QED BY <3>2, <3>5, <4>2, <5>1, <5>2
      <4> QED BY <3>2, <4>2 DEF IsInjective
    <3>7. \E i \in DOMAIN stack' : stack'[i] = Top
      BY <1>1, <2>1
    <3>8. \A t \in Task : t # Top =>
            /\ q'[t] # <<>> => (OnStack(t))' /\ Of(t) = "sequential"
            /\ \A k \in 1..Len(q'[t]) : \E i \in 1..child'[t] : q'[t][k] = Kids(t)[i]
            /\ IsInjective(q'[t])
      BY <1>4, <2>2, <3>1
    <3>9. QueueOfLoop'
      <4> SUFFICES ASSUME NEW t \in Task
                   PROVE  /\ q'[t] # <<>> => (OnStack(t))' /\ Of(t) = "sequential"
                          /\ \A k \in 1..Len(q'[t]) : \E i \in 1..child'[t] : q'[t][k] = Kids(t)[i]
                          /\ IsInjective(q'[t])
        BY DEF QueueOfLoop
      <4>1. CASE t = Top
        BY <3>1, <3>4, <3>6, <3>7, <4>1 DEF OnStack
      <4> QED BY <3>8, <4>1
    <3>10. HeldIsQueued'
      <4> SUFFICES ASSUME NEW a \in held' PROVE \E t \in Task : Contains(q'[t], a)
        BY DEF HeldIsQueued
      <4>1. CASE a = c
        <5>1. Len(q[Top]) + 1 \in 1..Len(q'[Top])
          BY <1>1, <1>2, <3>2
        <5> QED BY <1>1, <3>2, <4>1, <5>1 DEF Contains
      <4>2. CASE a # c
        <5>1. PICK t \in Task : Contains(q[t], a)
          BY <3>1, <4>2 DEF HeldIsQueued
        <5>2. PICK k \in 1..Len(q[t]) : q[t][k] = a
          BY <5>1 DEF Contains
        <5>3. k \in 1..Len(q'[t]) /\ q'[t][k] = a
          <6>1. CASE t = Top
            <7>1. k \in 1..Len(q[Top]) /\ q[Top][k] = a /\ Len(q[Top]) \in Nat
              BY <1>1, <1>2, <5>2, <6>1
            <7> QED BY <3>2, <6>1, <7>1
          <6>2. CASE t # Top
            BY <3>1, <5>2, <6>2
          <6> QED BY <6>1, <6>2
        <5> QED BY <5>3 DEF Contains
      <4> QED BY <4>1, <4>2
    <3> QED BY <3>9, <3>10
  <2> QED BY <2>1, <2>3, <2>4
<1>8. CASE Pops
  <2>1. stack' = Front(stack) /\ child' = child /\ q' = q /\ held' = held
    BY <1>8 DEF Pops
  <2>2. /\ \A i \in 1..(n - 1) : stack'[i] = stack[i]
        /\ DOMAIN stack' = 1..(n - 1)
    BY <1>1, <2>1, Popped, LenProperties
  <2>3. ASSUME NEW t \in Task, q[t] # <<>>
        PROVE  (OnStack(t))' /\ child'[t] >= child[t] /\ child'[t] \in Nat
    <3>1. PICK i \in 1..n : stack[i] = t
      BY <1>1, <1>3, <2>3 DEF OnStack
    <3>2. t # Top
      BY <1>1, <1>3, <1>8, <2>3 DEF Pops, In
    <3>3. i \in 1..(n - 1)
      BY <1>1, <3>1, <3>2
    <3>4. (OnStack(t))'
      BY <2>2, <3>1, <3>3 DEF OnStack
    <3> QED BY <1>2, <2>1, <3>4
  <2> QED BY <1>4, <1>5, <2>1, <2>3 DEF QueueOfLoop
<1>9. CASE Stays /\ Completes
  <2>1. /\ stack' = stack /\ child' = child /\ q[Top] # <<>>
        /\ q'[Top] = Tail(q[Top]) /\ \A t \in Task \ {Top} : q'[t] = q[t]
        /\ held' = held \ {Head(q[Top])}
    BY <1>1, <1>2, <1>9 DEF Stays, Completes
  <2>2. /\ q'[Top] \in Seq(Task) /\ Len(q'[Top]) = Len(q[Top]) - 1
        /\ \A k \in 1..Len(q'[Top]) : q'[Top][k] = q[Top][k + 1]
        /\ DOMAIN q'[Top] = 1..Len(q'[Top]) /\ Head(q[Top]) = q[Top][1]
    BY <1>1, <1>2, <2>1, HeadTailProperties, LenProperties
  <2>3. \A k \in 1..Len(q'[Top]) : k + 1 \in 1..Len(q[Top])
    BY <1>1, <1>2, <2>2
  <2>4. \A k \in 1..Len(q'[Top]) : \E i \in 1..child'[Top] : q'[Top][k] = Kids(Top)[i]
    BY <1>1, <1>3, <2>1, <2>2, <2>3
  <2>5. IsInjective(q'[Top])
    <3>1. ASSUME NEW a \in 1..Len(q'[Top]), NEW b \in 1..Len(q'[Top]), q'[Top][a] = q'[Top][b]
          PROVE  a = b
      <4>1. a + 1 \in DOMAIN q[Top] /\ b + 1 \in DOMAIN q[Top] /\ q[Top][a + 1] = q[Top][b + 1]
        BY <1>1, <1>2, <2>2, <2>3, <3>1
      <4>2. a + 1 = b + 1
        BY <1>1, <1>3, <4>1 DEF IsInjective
      <4> QED BY <1>1, <1>2, <2>2, <4>2
    <3> QED BY <2>2, <3>1 DEF IsInjective
  <2>6. QueueOfLoop'
    <3>1. ASSUME NEW t \in Task, t # Top
          PROVE  /\ q'[t] # <<>> => (OnStack(t))' /\ Of(t) = "sequential"
                 /\ \A k \in 1..Len(q'[t]) : \E i \in 1..child'[t] : q'[t][k] = Kids(t)[i]
                 /\ IsInjective(q'[t])
      <4>1. q[t] # <<>> => (OnStack(t))' /\ child'[t] >= child[t] /\ child'[t] \in Nat
        BY <1>2, <1>3, <2>1 DEF OnStack
      <4> QED BY <1>4, <2>1, <3>1, <4>1
    <3>2. OnStack(Top)' /\ Of(Top) = "sequential"
      BY <1>1, <1>3, <2>1 DEF OnStack, Top
    <3>3. q'[Top] # <<>> => \E i \in DOMAIN stack' : stack'[i] = Top
      BY <1>1, <2>1
    <3> QED BY <2>4, <2>5, <3>1, <3>2, <3>3 DEF QueueOfLoop, OnStack
  <2>7. HeldIsQueued'
    <3> SUFFICES ASSUME NEW a \in held' PROVE \E t \in Task : Contains(q'[t], a)
      BY DEF HeldIsQueued
    <3>1. PICK t \in Task : Contains(q[t], a)
      BY <2>1 DEF HeldIsQueued
    <3>2. PICK k \in 1..Len(q[t]) : q[t][k] = a
      BY <3>1 DEF Contains
    <3>3. CASE t # Top
      BY <2>1, <3>1, <3>3
    <3>4. CASE t = Top
      <4>1. k - 1 \in 1..Len(q'[Top]) /\ (k - 1) + 1 = k
        BY <1>1, <1>2, <2>1, <2>2, <3>2, <3>4
      <4>2. q'[Top][k - 1] = a
        BY <2>2, <3>2, <3>4, <4>1
      <4> QED BY <1>1, <4>1, <4>2 DEF Contains
    <3> QED BY <3>3, <3>4
  <2> QED BY <2>6, <2>7
<1>10. CASE Stays /\ ~Completes
  <2>1. /\ stack' = stack /\ q' = q /\ held' = held
        /\ child' = child \/ (child' = [child EXCEPT ![Top] = 0] /\ q[Top] = <<>>)
    BY <1>10 DEF Stays
  <2>2. ASSUME NEW t \in Task, q[t] # <<>>
        PROVE  (OnStack(t))' /\ child'[t] >= child[t] /\ child'[t] \in Nat
    <3>1. child'[t] = child[t] /\ child[t] \in Nat
      BY <1>2, <2>1, <2>2
    <3>2. (OnStack(t))'
      BY <1>3, <2>1, <2>2 DEF OnStack
    <3> QED BY <3>1, <3>2
  <2> QED BY <1>4, <1>5, <2>1, <2>2 DEF QueueOfLoop
<1> QED BY <1>6, <1>7, <1>8, <1>9, <1>10, StackStep

LEMMA QueueReleased ==
  ASSUME TypeOK, QueueOfLoop, HeldIsQueued
  PROVE  HardwareReleased
<1>1. ASSUME NEW a \in held
      PROVE  \E t \in Task : OnStack(t) /\ Parent(a, t) /\ Contains(mAsyncTasks[t], a)
  <2>1. PICK t \in Task : Contains(mAsyncTasks[t], a)
    BY DEF HeldIsQueued
  <2>2. PICK k \in 1..Len(mAsyncTasks[t]) : mAsyncTasks[t][k] = a
    BY <2>1 DEF Contains
  <2>3. mAsyncTasks[t] # <<>>
    BY <2>2, EmptySeq
  <2>4. PICK i \in 1..child[t] : a = Kids(t)[i]
    BY <2>2 DEF QueueOfLoop
  <2>5. i \in DOMAIN Kids(t)
    BY KidsAre DEF TypeOK
  <2> QED BY <2>1, <2>3, <2>4, <2>5 DEF QueueOfLoop, Parent
<1> QED BY <1>1 DEF HardwareReleased, QueueOfLoop

-------------------------------------------------------------------------------
(* What a case knows of its failures and of the process that passed it *)

LEMMA Returned ==
  ASSUME TypeOK, StackIsPath, stack # <<>>, stack' = Front(stack), stack' # <<>>
  PROVE  /\ Top' \in Task /\ child[Top'] \in 1..Len(Kids(Top')) /\ Top = Kids(Top')[child[Top']]
         /\ Of(Top') = "batch" <=> Of(Top) = "case"
         /\ Of(Top) # "batch"
<1>1. Len(stack) \in Nat /\ Len(stack) > 1
  BY Popped, TopIs
<1>4. Top' = stack[Len(stack) - 1]
  BY Popped, TopIs
<1> DEFINE parent == stack[Len(stack) - 1]
<1>2. /\ parent \in Task /\ child[parent] \in 1..Len(Kids(parent))
      /\ Top = Kids(parent)[child[parent]]
      /\ Of(Top) = "case" <=> Of(parent) = "batch"
  BY <1>1, AboveTop
<1>3. Of(Top) # "batch"
  <2>1. Of(Top) = "batch" => Len(stack) = 1
    BY AboveTop, Zenon
  <2>2. \A n \in Nat : n > 1 => n # 1
    OBVIOUS
  <2> QED BY <1>1, <2>1, <2>2, Zenon
<1> QED BY <1>2, <1>3, <1>4, Zenon

\* What a child that returns adds to the failures of its case.
LEMMA FailingMeans ==
  ASSUME NEW r, NEW sofar, Failing(r, sofar)
  PROVE  Failed' = (Failed \/ (Stops(r) /\ sofar \notin Overruling))
BY DEF Failing, Failed

LEMMA StageKnows ==
  ASSUME TypeOK, StackIsPath, FailureKnown, PassKnown, Stage
  PROVE  FailureKnown' /\ PassKnown' /\ PassedCasePassed'
<1>1. /\ stack # <<>> /\ Of(Top) \in {"setup", "action"} /\ ret \in Result \cup {None}
      /\ None \notin Result /\ Failed \in BOOLEAN /\ passed \in BOOLEAN
  BY TreeAssumption DEF Stage, In, TypeOK, Failed
<1>2. Failed => Stops(ret)
  BY <1>1 DEF FailureKnown, In
<1>3. (ret = "Pass" => passed) /\ (resultAction = "Pass" => passed)
  BY <1>1 DEF PassKnown, In
<1>4. CASE RunLeaf
  <2>1. /\ stack' = stack /\ Top' = Top /\ ret = None /\ ret' # None
        /\ Failed' = (Failed \/ Stops(ret')) /\ passed' = (passed \/ ret' = "Pass")
        /\ resultAction' = resultAction
    <3>1. \A c \in Task : Tree[c].results \subseteq Result
      BY TreeAssumption
    <3> QED BY <1>1, <1>4, <3>1, FailingMeans DEF RunLeaf, Happened, Overruling, Calls, results, Top
  <2> QED BY <1>1, <1>2, <1>3, <2>1 DEF FailureKnown, PassKnown, PassedCasePassed, In, Stops, Result
<1>5. CASE RunSequential
  <2>1. PICK c \in Task : /\ Calls(c) /\ Of(c) = "sequential" /\ Push(c)
                          /\ firstError' = [firstError EXCEPT ![c] = "OK"]
    BY <1>5 DEF RunSequential
  <2>2. /\ Top' = c /\ stack' # <<>> /\ ret = None /\ ret' = None /\ firstError'[c] = "OK"
        /\ Failed' = Failed /\ passed' = passed /\ resultAction' = resultAction
    BY <1>5, <2>1, Pushed DEF RunSequential, Calls, history, Failed, results, TypeOK
  <2> QED BY <1>1, <1>2, <1>3, <2>1, <2>2
      DEF FailureKnown, PassKnown, PassedCasePassed, In, Stops, Result
<1>6. CASE StageGoesOn /\ UNCHANGED <<child, loops, mIndexList, results, history>>
  <2>1. /\ stack' = stack /\ Top' = Top /\ ret = "OK" /\ ret' = None
        /\ Failed' = Failed /\ passed' = passed /\ resultAction' = resultAction
    BY <1>6 DEF StageGoesOn, history, Failed, results, Top
  <2> QED BY <1>1, <1>2, <1>3, <2>1 DEF FailureKnown, PassKnown, PassedCasePassed, In, Stops, Result
<1>7. CASE StageEnds /\ UNCHANGED <<child, loops, mIndexList, results, history>>
  <2>1. /\ stack' = Front(stack) /\ (ret' = ret \/ (ret' = "OK" /\ ret = None))
        /\ ret' # None
        /\ Failed' = Failed /\ passed' = passed /\ resultAction' = resultAction
    BY <1>1, <1>7 DEF StageEnds, Return, history, Failed, results, Result
  <2>2. stack' # <<>> => Of(Top') # "batch"
    BY <1>1, <2>1, Returned
  <2> QED BY <1>1, <1>2, <1>3, <2>1, <2>2
      DEF FailureKnown, PassKnown, PassedCasePassed, In, Stops, Result
<1> QED BY <1>4, <1>5, <1>6, <1>7 DEF Stage

LEMMA SequentialKnows ==
  ASSUME TypeOK, StackIsPath, FailureKnown, PassKnown, Sequential
  PROVE  FailureKnown' /\ PassKnown' /\ PassedCasePassed'
<1>1. /\ stack # <<>> /\ Of(Top) = "sequential" /\ ret \in Result \cup {None} /\ Top \in Task
      /\ None \notin Result /\ Failed \in BOOLEAN /\ passed \in BOOLEAN
      /\ firstError \in [Task -> Result]
  BY TreeAssumption, TopIs DEF Sequential, In, TypeOK, Failed
<1>2. Failed => Stops(ret) \/ (ret = None /\ Stops(firstError[Top]))
  BY <1>1 DEF FailureKnown, In
<1>3. /\ ret = "Pass" => passed
      /\ resultAction = "Pass" => passed
      /\ ret = None /\ firstError[Top] = "Pass" => passed
  BY <1>1 DEF PassKnown, In
<1>4. CASE firstError[Top] = "OK" /\ RunLeaf
  <2>1. /\ stack' = stack /\ Top' = Top /\ ret = None /\ ret' # None
        /\ Failed' = (Failed \/ Stops(ret')) /\ passed' = (passed \/ ret' = "Pass")
        /\ resultAction' = resultAction
    <3>1. \A c \in Task : Tree[c].results \subseteq Result
      BY TreeAssumption
    <3> QED BY <1>1, <1>4, <3>1, FailingMeans DEF RunLeaf, Happened, Overruling, Calls, results, Top
  <2> QED BY <1>1, <1>2, <1>3, <1>4, <2>1
      DEF FailureKnown, PassKnown, PassedCasePassed, In, Stops, Result
<1>5. CASE firstError[Top] = "OK" /\ RunSequential
  <2>1. PICK c \in Task : /\ Calls(c) /\ Of(c) = "sequential" /\ Push(c)
                          /\ firstError' = [firstError EXCEPT ![c] = "OK"]
    BY <1>5 DEF RunSequential
  <2>2. /\ Top' = c /\ stack' # <<>> /\ ret = None /\ ret' = None /\ firstError'[c] = "OK"
        /\ Failed' = Failed /\ passed' = passed /\ resultAction' = resultAction
    BY <1>1, <1>5, <2>1, Pushed DEF RunSequential, Calls, history, Failed, results
  <2> QED BY <1>1, <1>2, <1>3, <1>5, <2>1, <2>2
      DEF FailureKnown, PassKnown, PassedCasePassed, In, Stops, Result
<1>6. CASE firstError[Top] = "OK" /\ RunAsync
  <2>1. /\ stack' = stack /\ Top' = Top /\ ret = None
        /\ ret' = "Error" \/ (ret' = "OK" /\ Failed' = Failed)
        /\ passed' = passed /\ resultAction' = resultAction
    BY <1>1, <1>6, FailingMeans DEF RunAsync, Calls, results, Top, Stops
  <2> QED BY <1>1, <1>2, <1>3, <1>6, <2>1
      DEF FailureKnown, PassKnown, PassedCasePassed, In, Stops, Result
<1>7. CASE ChildReturned
  <2>1. /\ stack' = stack /\ Top' = Top /\ ret \in Result /\ ret' = None /\ firstError'[Top] = ret
        /\ Failed' = Failed /\ passed' = passed /\ resultAction' = resultAction
    BY <1>1, <1>7 DEF ChildReturned, history, Failed, results, Top
  <2> QED BY <1>1, <1>2, <1>3, <2>1 DEF FailureKnown, PassKnown, PassedCasePassed, In, Stops, Result
<1>8. CASE Complete
  <2>1. PICK r \in {"OK", "Error"} :
          /\ firstError' = [firstError EXCEPT ![Top] = IF @ = "OK" THEN r ELSE @]
          /\ Failed' = (Failed \/ (r = "Error" /\ firstError[Top] \in {"OK", "Error", "Fail"}))
    BY <1>1, <1>8, FailingMeans DEF Complete, Stops, Overruling, Result
  <2>2. /\ stack' = stack /\ Top' = Top /\ ret = None /\ ret' = None
        /\ firstError'[Top] = IF firstError[Top] = "OK" THEN r ELSE firstError[Top]
        /\ passed' = passed /\ resultAction' = resultAction
    BY <1>1, <1>8, <2>1 DEF Complete, AtEnd, results, Top
  <2> QED BY <1>1, <1>2, <1>3, <2>1, <2>2
      DEF FailureKnown, PassKnown, PassedCasePassed, In, Stops, Result
<1>9. CASE NextLoop
  <2>1. /\ stack' = stack /\ Top' = Top /\ ret = None /\ ret' = None /\ firstError'[Top] = "OK"
        /\ firstError[Top] \in {"OK", "Continue"}
        /\ Failed' = Failed /\ passed' = passed /\ resultAction' = resultAction
    BY <1>1, <1>9 DEF NextLoop, LoopIsOver, AtEnd, history, Failed, results, Top
  <2> QED BY <1>1, <1>2, <1>3, <2>1
      DEF FailureKnown, PassKnown, PassedCasePassed, In, Stops, Result
<1>10. CASE LoopsDone \/ LoopBroken \/ LoopsStopped
  <2>1. /\ stack' = Front(stack) /\ ret = None /\ ret' # None
        /\ \/ firstError[Top] \in {"OK", "Continue", "BreakOneLoop"} /\ ret' = "OK"
           \/ ret' = firstError[Top]
        /\ Failed' = Failed /\ passed' = passed /\ resultAction' = resultAction
    BY <1>1, <1>10 DEF LoopsDone, LoopBroken, LoopsStopped, LoopIsOver, AtEnd, Return, history, Failed,
                     results, Result
  <2>2. stack' # <<>> => Of(Top') # "batch"
    BY <1>1, <2>1, Returned
  <2> QED BY <1>1, <1>2, <1>3, <2>1, <2>2
      DEF FailureKnown, PassKnown, PassedCasePassed, In, Stops, Result
<1> QED BY <1>4, <1>5, <1>6, <1>7, <1>8, <1>9, <1>10 DEF Sequential

LEMMA CaseKnows ==
  ASSUME TypeOK, StackIsPath, ResultOfChild, ThreeStages, FailureKnown, PassKnown, In("case"),
         CaseStage \/ StageReturned \/ CaseReturns
  PROVE  FailureKnown' /\ PassKnown' /\ PassedCasePassed'
<1>1. /\ stack # <<>> /\ Of(Top) = "case" /\ ret \in Result \cup {None} /\ Top \in Task
      /\ None \notin Result /\ Failed \in BOOLEAN /\ passed \in BOOLEAN
      /\ child \in [Task -> Nat] /\ child[Top] \in Nat /\ child[Top] <= Len(Kids(Top))
      /\ resultSetup \in Result /\ resultAction \in Result /\ resultSave \in Result
  BY TreeAssumption, TopIs DEF In, TypeOK, Failed
<1>2. Failed => \/ Stops(ret)
                \/ ret = None /\ child[Top] = 1 /\ Stops(resultSetup)
                \/ ret = None /\ child[Top] = 2 /\ Stops(resultAction)
                \/ child[Top] = 3 /\ Stops(resultAction)
                \/ child[Top] = 3 /\ ret = None /\ Stops(resultSave)
  BY <1>1 DEF FailureKnown, In
<1>3. /\ ret = "Pass" => passed
      /\ resultAction = "Pass" => passed
  BY <1>1 DEF PassKnown, In
<1>4. child[Top] <= 3 /\ Len(Kids(Top)) \in Nat
  BY <1>1, KidsAre DEF ThreeStages
<1>5. ASSUME NEW c \in Task, Calls(c), child[Top] = 0 \/ resultSetup = "OK", child[Top] < 3
      PROVE  /\ ret = None /\ child[Top] + 1 \in 1..Len(Kids(Top))
             /\ Failed => child[Top] = 2 /\ Stops(resultAction) /\ Of(c) = "save"
  <2>1. ret = None /\ child[Top] + 1 \in 1..Len(Kids(Top)) /\ c = Kids(Top)[child[Top] + 1]
    BY <1>1, <1>4, <1>5 DEF Calls
  <2>2. Failed => child[Top] = 2 /\ Stops(resultAction)
    BY <1>1, <1>2, <1>4, <1>5, <2>1 DEF Stops, Result
  <2>3. child[Top] = 2 => Of(c) = "save"
    BY <1>1, <2>1, ParentOf
  <2> QED BY <2>1, <2>2, <2>3
<1>6. CASE CaseStage /\ RunStage
  <2>1. PICK c \in Task : Calls(c) /\ Of(c) \in {"setup", "action"} /\ Push(c)
    BY <1>6 DEF RunStage
  <2>2. ~Failed /\ ret = None
    BY <1>5, <1>6, <2>1 DEF CaseStage
  <2>3. /\ Top' = c /\ stack' # <<>> /\ ret' = ret
        /\ Failed' = Failed /\ passed' = passed /\ resultAction' = resultAction
    BY <1>6, <2>1, Pushed DEF RunStage, history, Failed, results
  <2> QED BY <1>1, <1>3, <2>1, <2>2, <2>3
      DEF FailureKnown, PassKnown, PassedCasePassed, In, Stops, Result
<1>7. CASE CaseStage /\ RunLeaf
  <2>1. PICK c \in Task : Calls(c)
    BY <1>7 DEF RunLeaf
  <2>2. Failed => child[Top] = 2 /\ Stops(resultAction)
    BY <1>5, <1>7, <2>1 DEF CaseStage
  <2>3. /\ stack' = stack /\ Top' = Top /\ ret' # None /\ child'[Top] = child[Top] + 1
        /\ Failed' = (Failed \/ Stops(ret')) /\ passed' = (passed \/ ret' = "Pass")
        /\ resultAction' = resultAction
    <3>1. \A d \in Task : Tree[d].results \subseteq Result
      BY TreeAssumption
    <3> QED BY <1>1, <1>7, <3>1, FailingMeans DEF RunLeaf, Happened, Overruling, results, Top, Counted
  <2>4. FailureKnown'
    <3>1. ASSUME Failed' PROVE Stops(ret') \/ (child'[Top'] = 3 /\ Stops(resultAction'))
      <4>1. CASE Stops(ret')
        BY <4>1
      <4>2. CASE Failed
        BY <2>2, <2>3, <4>2
      <4> QED BY <2>3, <3>1, <4>1, <4>2
    <3>2. In("case")'
      BY <1>1, <2>3 DEF In
    <3> QED BY <3>1, <3>2 DEF FailureKnown, In, Stops
  <2>5. PassKnown' /\ PassedCasePassed'
    BY <1>1, <1>3, <2>3 DEF PassKnown, PassedCasePassed, In, Result
  <2> QED BY <2>4, <2>5
<1>8. CASE StageReturned
  <2>1. /\ stack' = stack /\ Top' = Top /\ ret # None /\ ret' = None /\ child' = child
        /\ child[Top] = 1 => resultSetup' = ret
        /\ resultAction' = IF child[Top] = 2 THEN ret ELSE resultAction
        /\ child[Top] = 3 => resultSave' = ret
        /\ Failed' = Failed /\ passed' = passed
    BY <1>8 DEF StageReturned, history, Failed, Top
  <2>2. child[Top] \in {1, 2, 3}
    <3>1. child[Top] > 0
      BY <1>1, <2>1 DEF ResultOfChild
    <3> QED BY <1>1, <1>4, <3>1
  <2>3. FailureKnown'
    BY <1>1, <1>2, <2>1, <2>2 DEF FailureKnown, In, Stops, Result
  <2>4. PassKnown' /\ PassedCasePassed'
    BY <1>1, <1>3, <2>1 DEF PassKnown, PassedCasePassed, In, Result
  <2> QED BY <2>3, <2>4
<1>9. CASE CaseReturns
  <2>1. /\ stack' = Front(stack) /\ ret = None /\ child' = child
        /\ report' = [report EXCEPT ![Top] = IF testPassed THEN "passed" ELSE "failed"]
        /\ Failed' = Failed /\ passed' = passed
    BY <1>9 DEF CaseReturns, Return, history, Failed
  <2>2. stack' # <<>> => Of(Top') = "batch" /\ Top = Kids(Top')[child[Top']]
    BY <1>1, <2>1, Returned
  <2>3. FailureKnown' /\ PassKnown'
    BY <2>2 DEF FailureKnown, PassKnown, In
  <2>4. testPassed => passed /\ ~Failed
    BY <1>1, <1>2, <1>3, <2>1 DEF testPassed, Stops, Result
  <2>5. report'[Top] = "passed" => testPassed
    BY <1>1, <2>1 DEF TypeOK
  <2>6. PassedCasePassed'
    BY <2>1, <2>2, <2>4, <2>5 DEF PassedCasePassed, In, Failed
  <2> QED BY <2>3, <2>6
<1> QED BY <1>6, <1>7, <1>8, <1>9 DEF CaseStage

LEMMA BatchKnows ==
  ASSUME TypeOK, StackIsPath, RunCase \/ CaseReturned \/ BatchReturns
  PROVE  FailureKnown' /\ PassKnown' /\ PassedCasePassed'
<1>1. stack # <<>> /\ Of(Top) = "batch" /\ Top \in Task
  BY TopIs DEF RunCase, CaseReturned, BatchReturns, In
<1>2. CASE RunCase
  <2>1. PICK c \in Task : Calls(c) /\ Push(c)
    BY <1>2 DEF RunCase
  <2>2. Top' = c /\ stack' # <<>> /\ Of(c) = "case"
    <3>1. child[Top] + 1 \in 1..Len(Kids(Top)) /\ c = Kids(Top)[child[Top] + 1]
      <4>1. child[Top] \in Nat /\ Len(Kids(Top)) \in Nat
        BY <1>1, KidsAre DEF TypeOK
      <4> QED BY <2>1, <4>1 DEF Calls
    <3>2. Of(c) = "case"
      BY <1>1, <3>1, ParentOf
    <3> QED BY <2>1, <3>2, Pushed
  <2>3. /\ ret' = None /\ Failed' = FALSE /\ passed' = FALSE /\ resultAction' = "OK"
        /\ None \notin Result
    BY <1>2, <2>1, TreeAssumption DEF RunCase, Calls, Failed
  <2> QED BY <2>2, <2>3 DEF FailureKnown, PassKnown, PassedCasePassed, In, Result
<1>3. CASE CaseReturned
  <2>1. stack' = stack /\ Top' = Top /\ ret' = None
    BY <1>3 DEF CaseReturned, Top
  <2> QED BY <1>1, <2>1 DEF FailureKnown, PassKnown, PassedCasePassed, In
<1>4. CASE BatchReturns
  <2>1. stack' = <<>>
    <3>1. stack' = Front(stack)
      BY <1>4 DEF BatchReturns, Return
    <3> QED BY <1>1, <3>1, Returned
  <2> QED BY <2>1 DEF FailureKnown, PassKnown, PassedCasePassed, In
<1> QED BY <1>2, <1>3, <1>4

LEMMA KnownStep ==
  ASSUME TypeOK, StackIsPath, ResultOfChild, ThreeStages, FailureKnown, PassKnown, Next
  PROVE  FailureKnown' /\ PassKnown' /\ PassedCasePassed'
BY StageKnows, SequentialKnows, CaseKnows, BatchKnows DEF Next, CaseStage, StageReturned, CaseReturns

-------------------------------------------------------------------------------
(* The tasks inside a task: Below is what its recursive definition says, *)
(* and what is inside a task inside it is inside it.                     *)

LEMMA ThreeStagesStep == ASSUME TypeOK, ThreeStages, Next PROVE ThreeStages'
<1>1. stack # <<>> /\ Top \in Task /\ child \in [Task -> Nat]
  BY StackStep, TopIs DEF TypeOK
<1>2. In("case") => child' = child \/ child[Top] < 3
  BY <1>1 DEF In, Next, Stage, Sequential, RunCase, CaseReturned, BatchReturns, CaseStage,
              StageReturned, CaseReturns
<1>3. ASSUME NEW t \in Task, Of(t) = "case" PROVE child'[t] <= 3
  <2>1. child[t] \in Nat /\ child[t] <= 3
    BY <1>1, <1>3 DEF ThreeStages
  <2>2. child'[t] \in {0, child[t]} \/ (t = Top /\ child' # child /\ child'[t] = child[t] + 1)
    BY <1>1, <1>3, StackStep DEF Pushes, Counts, Pops, Stays, Completes, Counted
  <2> QED BY <1>1, <1>2, <1>3, <2>1, <2>2 DEF In
<1> QED BY <1>3 DEF ThreeStages

LEMMA KidSet ==
  ASSUME NEW t \in Task
  PROVE  /\ ToSet(Kids(t)) \subseteq Task
         /\ \A c \in ToSet(Kids(t)) : \E i \in 1..Len(Kids(t)) : c = Kids(t)[i]
         /\ \A i \in 1..Len(Kids(t)) : Kids(t)[i] \in ToSet(Kids(t))
BY KidsAre DEF ToSet

LEMMA BelowUnfolds ==
  \A t \in Task : Below[t] = ToSet(Kids(t)) \cup UNION { Below[c] : c \in ToSet(Kids(t)) }
<1> DEFINE K(t) == ToSet(Kids(t))
           Unfold(f) == [t \in Task |-> K(t) \cup UNION { f[c] : c \in K(t) }]
           Closed(S) == \A y \in S : K(y) \subseteq S
           g == [t \in Task |-> { x \in Task :
                   \A S \in SUBSET Task : K(t) \subseteq S /\ Closed(S) => x \in S }]
<1>1. \A t \in Task : K(t) \subseteq Task
  BY KidSet
<1> HIDE DEF K
<1>2. ASSUME NEW t \in Task
      PROVE  g[t] = K(t) \cup UNION { g[c] : c \in K(t) }
  <2> DEFINE R == K(t) \cup UNION { g[c] : c \in K(t) }
  <2>1. \A y \in Task : K(y) \subseteq g[y] /\ Closed(g[y]) /\ g[y] \subseteq Task
    BY <1>1
  <2>2. R \subseteq g[t]
    <3> SUFFICES ASSUME NEW x \in R, NEW S \in SUBSET Task, K(t) \subseteq S, Closed(S)
                 PROVE  x \in S
      BY <1>1, <1>2, <2>1
    <3>1. CASE x \in K(t)
      BY <3>1
    <3>2. ASSUME NEW c \in K(t), x \in g[c] PROVE x \in S
      <4>1. c \in Task /\ K(c) \subseteq S
        BY <1>1
      <4> QED BY <3>2, <4>1
    <3> QED BY <3>1, <3>2
  <2>3. R \in SUBSET Task /\ K(t) \subseteq R
    <3>1. \A c \in K(t) : g[c] \subseteq Task
      BY <1>1, <2>1
    <3> HIDE DEF g
    <3> QED BY <1>1, <3>1
  <2>4. Closed(R)
    <3> SUFFICES ASSUME NEW y \in R PROVE K(y) \subseteq R
      OBVIOUS
    <3>1. CASE y \in K(t)
      BY <1>1, <2>1, <3>1
    <3>2. ASSUME NEW c \in K(t), y \in g[c] PROVE K(y) \subseteq R
      <4>1. Closed(g[c])
        BY <1>1, <2>1
      <4> HIDE DEF g
      <4> QED BY <3>2, <4>1
    <3> QED BY <3>1, <3>2
  <2>5. g[t] \subseteq R
    <3> HIDE DEF R
    <3> QED BY <2>3, <2>4
  <2> QED BY <2>2, <2>5
<1>3. g = Unfold(g)
  <2>1. \A t \in Task : g[t] = Unfold(g)[t]
    BY <1>2
  <2> DEFINE h == Unfold(g)
  <2>2. g = [t \in Task |-> g[t]] /\ h = [t \in Task |-> h[t]]
    OBVIOUS
  <2> HIDE DEF g, h
  <2> QED BY <2>1, <2>2
<1>4. Below = CHOOSE f : f = Unfold(f)
  BY DEF Below, K
<1>5. Below = Unfold(Below)
  <2> HIDE DEF Unfold, g
  <2> QED BY <1>3, <1>4
<1> QED BY <1>5, Zenon DEF K

InsideIsClosed(t) == \A x \in Below[t] : ToSet(Kids(x)) \subseteq Below[t]

LEMMA ClosedAbove ==
  ASSUME NEW t \in Task, \A i \in 1..Len(Kids(t)) : InsideIsClosed(Kids(t)[i])
  PROVE  InsideIsClosed(t)
<1>1. \A c \in ToSet(Kids(t)) : c \in Task /\ InsideIsClosed(c)
  BY KidSet
<1> SUFFICES ASSUME NEW x \in Below[t] PROVE ToSet(Kids(x)) \subseteq Below[t]
  BY DEF InsideIsClosed
<1>2. Below[t] = ToSet(Kids(t)) \cup UNION { Below[c] : c \in ToSet(Kids(t)) }
  BY BelowUnfolds
<1>3. CASE x \in ToSet(Kids(t))
  <2>1. ToSet(Kids(x)) \subseteq Below[x]
    BY <1>1, <1>3, BelowUnfolds
  <2> QED BY <1>2, <1>3, <2>1
<1>4. ASSUME NEW c \in ToSet(Kids(t)), x \in Below[c]
      PROVE  ToSet(Kids(x)) \subseteq Below[t]
  <2>1. ToSet(Kids(x)) \subseteq Below[c]
    BY <1>1, <1>4 DEF InsideIsClosed
  <2> QED BY <1>2, <2>1
<1> QED BY <1>2, <1>3, <1>4

\* By the types of tasks, and among sequential tasks because none is inside itself.
LEMMA BelowClosed == \A t \in Task : InsideIsClosed(t)
<1>1. \A t \in Task : \A i \in 1..Len(Kids(t)) :
        Kids(t)[i] \in Task /\ <<Of(t), Of(Kids(t)[i])>> \in Admitted
  BY KidsAre, TreeAssumption
<1>2. \A t \in Task : Of(t) \in Type
  BY TreeAssumption
<1>3. ASSUME NEW t \in Task, Of(t) \in {"leaf", "async", "save"} PROVE InsideIsClosed(t)
  BY <1>1, <1>3, ClosedAbove DEF Admitted
<1>4. ASSUME NEW t \in Task, Of(t) = "sequential" PROVE InsideIsClosed(t)
  <2> DEFINE S == { u \in Task : Of(u) = "sequential" /\ ~InsideIsClosed(u) }
  <2>1. SUFFICES ASSUME S # {} PROVE FALSE
    BY <1>4
  <2>2. PICK u \in S : \A i \in DOMAIN Kids(u) : Kids(u)[i] \notin S
    <3>1. S \in SUBSET { v \in Task : Of(v) = "sequential" }
      OBVIOUS
    <3> HIDE DEF S
    <3> QED BY <2>1, <3>1, ShapeAssumption
  <2>3. \A i \in 1..Len(Kids(u)) : InsideIsClosed(Kids(u)[i])
    <3>1. u \in Task /\ Of(u) = "sequential"
      BY <2>2
    <3> SUFFICES ASSUME NEW i \in 1..Len(Kids(u)) PROVE InsideIsClosed(Kids(u)[i])
      OBVIOUS
    <3>2. Kids(u)[i] \in Task /\ Of(Kids(u)[i]) \in {"leaf", "async", "sequential"}
      BY <1>1, <3>1 DEF Admitted
    <3>3. Kids(u)[i] \notin S
      BY <2>2, <3>1, KidsAre
    <3> QED BY <1>3, <3>2, <3>3
  <2> QED BY <2>2, <2>3, ClosedAbove
<1>5. ASSUME NEW t \in Task, Of(t) \in {"setup", "action"} PROVE InsideIsClosed(t)
  BY <1>1, <1>3, <1>4, <1>5, ClosedAbove DEF Admitted
<1>6. ASSUME NEW t \in Task, Of(t) = "case" PROVE InsideIsClosed(t)
  BY <1>1, <1>3, <1>5, <1>6, ClosedAbove DEF Admitted
<1>7. ASSUME NEW t \in Task, Of(t) = "batch" PROVE InsideIsClosed(t)
  BY <1>1, <1>6, <1>7, ClosedAbove DEF Admitted
<1> QED BY <1>2, <1>3, <1>4, <1>5, <1>6, <1>7 DEF Type

LEMMA NestedStep ==
  ASSUME TypeOK, StackIsPath, Nested, Next
  PROVE  Nested'
<1> DEFINE n == Len(stack)
<1>1. stack # <<>> /\ n \in Nat \ {0} /\ Top = stack[n] /\ Top \in Task
      /\ \A i \in 1..n : stack[i] \in Task
  BY StackStep, TopIs
<1>2. CASE Pushes
  <2>1. PICK c \in Task : Calls(c) /\ Push(c)
    BY <1>2 DEF Pushes
  <2>2. Len(stack') = n + 1 /\ stack'[n + 1] = c /\ \A i \in 1..n : stack'[i] = stack[i]
    BY <2>1, Pushed
  <2>3. c \in ToSet(Kids(Top))
    <3>1. child[Top] \in Nat /\ Len(Kids(Top)) \in Nat
      BY <1>1, KidsAre DEF TypeOK
    <3>2. child[Top] + 1 \in 1..Len(Kids(Top)) /\ c = Kids(Top)[child[Top] + 1]
      BY <2>1, <3>1 DEF Calls
    <3> QED BY <1>1, <3>2, KidSet
  <2>4. ASSUME NEW i \in 1..n PROVE c \in Below[stack[i]]
    <3>1. CASE i = n
      BY <1>1, <2>3, <3>1, BelowUnfolds
    <3>2. CASE i # n
      <4>1. Top \in Below[stack[i]] /\ stack[i] \in Task
        BY <1>1, <3>2 DEF Nested
      <4> QED BY <2>3, <4>1, BelowClosed DEF InsideIsClosed
    <3> QED BY <3>1, <3>2
  <2>5. ASSUME NEW i \in 1..(n + 1), NEW j \in 1..(n + 1), i < j
        PROVE  stack'[j] \in Below[stack'[i]]
    <3>1. i \in 1..n
      BY <1>1, <2>5
    <3>2. CASE j = n + 1
      BY <2>2, <2>4, <3>1, <3>2
    <3>3. CASE j # n + 1
      <4>1. j \in 1..n
        BY <1>1, <3>3
      <4> QED BY <2>2, <2>5, <3>1, <4>1 DEF Nested
    <3> QED BY <3>2, <3>3
  <2> QED BY <2>2, <2>5 DEF Nested
<1>3. CASE Counts \/ Stays
  BY <1>3 DEF Counts, Stays, Nested
<1>4. CASE Pops
  <2>1. Len(stack') = n - 1 /\ \A i \in 1..(n - 1) : stack'[i] = stack[i]
    BY <1>1, <1>4, Popped DEF Pops
  <2>2. 1..(n - 1) \subseteq 1..n
    BY <1>1
  <2> QED BY <2>1, <2>2 DEF Nested
<1> QED BY <1>2, <1>3, <1>4, StackStep

-------------------------------------------------------------------------------
(* What every step does to the numbers of the loops and to the indexes *)

Keeps ==
  /\ mRepeatIndex' = mRepeatIndex /\ mIndexList' = mIndexList
  /\ \/ stack' = stack \/ stack' = Front(stack)
     \/ \E c \in Task : Calls(c) /\ Push(c) /\ Of(c) # "sequential"

Starts ==
  \E c \in Task :
    /\ Calls(c) /\ Push(c)
    /\ mRepeatIndex' = [mRepeatIndex EXCEPT ![c] = 0] /\ mIndexList' = WithIndex(c, 0)

Turns ==
  /\ stack' = stack /\ mRepeatIndex[Top] + 1 < Tree[Top].repeat
  /\ mRepeatIndex' = [mRepeatIndex EXCEPT ![Top] = @ + 1]
  /\ mIndexList' = WithIndex(Top, mRepeatIndex[Top] + 1)

Leaves ==
  /\ stack' = Front(stack)
  /\ \E r : mRepeatIndex' = [mRepeatIndex EXCEPT ![Top] = r] /\ mIndexList' = WithIndex(Top, r)

Resets == RunCase

LEMMA LoopEffect ==
  ASSUME TypeOK, StackIsPath, Next
  PROVE  Keeps \/ Starts \/ Turns \/ Leaves \/ Resets
<1>1. stack # <<>> /\ Top \in Task /\ mRepeatIndex \in [Task -> Nat]
  BY StackStep, TopIs DEF TypeOK
<1>2. CASE RunLeaf
  BY <1>2 DEF RunLeaf, loops, Keeps
<1>3. CASE RunSequential
  BY <1>3 DEF RunSequential, Starts
<1>4. CASE Stage
  BY <1>2, <1>3, <1>4 DEF Stage, StageGoesOn, StageEnds, Return, loops, Keeps
<1>5. CASE Sequential
  <2>1. CASE RunAsync \/ ChildReturned \/ Complete
    BY <2>1 DEF RunAsync, ChildReturned, Complete, Keeps
  <2>2. CASE NextLoop
    BY <1>1, <2>2 DEF NextLoop, Turns
  <2>3. CASE LoopsDone
    BY <1>1, <2>3 DEF LoopsDone, Leaves, Return
  <2>4. CASE LoopsStopped
    BY <1>1, <2>4 DEF LoopsStopped, Leaves, Return
  <2>5. CASE LoopBroken
    BY <2>5 DEF LoopBroken, Return, loops, Keeps
  <2> QED BY <1>2, <1>3, <1>5, <2>1, <2>2, <2>3, <2>4, <2>5 DEF Sequential
<1>6. CASE RunCase
  BY <1>6 DEF Resets
<1>7. CASE CaseReturned \/ BatchReturns \/ StageReturned \/ CaseReturns
  BY <1>7 DEF CaseReturned, BatchReturns, StageReturned, CaseReturns, Return, loops, Keeps
<1>8. CASE CaseStage
  BY <1>2, <1>8 DEF CaseStage, RunStage, loops, Keeps
<1> QED BY <1>4, <1>5, <1>6, <1>7, <1>8 DEF Next

\* A loop is not disturbed by what is inside it.
LEMMA LoopKept ==
  ASSUME TypeOK, NEW t \in Task, InLoop(t), mRepeatIndex'[t] = mRepeatIndex[t],
         \/ mIndexList' = mIndexList
         \/ \E w \in Below[t] : \E r : mIndexList' = WithIndex(w, r)
  PROVE  InLoop(t)'
<1>1. SUFFICES ASSUME Of(t) = "sequential", Tree[t].index # NoName,
                      \A c \in Below[t] : Tree[c].index # Tree[t].index
               PROVE  mIndexList'[Tree[t].index] = mIndexList[Tree[t].index]
  BY DEF InLoop
<1>2. Tree[t].index \in Name /\ mIndexList \in [Name -> Nat]
  BY <1>1, TreeAssumption DEF TypeOK
<1>3. ASSUME NEW w \in Below[t], NEW r, mIndexList' = WithIndex(w, r)
      PROVE  mIndexList'[Tree[t].index] = mIndexList[Tree[t].index]
  BY <1>1, <1>2, <1>3 DEF WithIndex
<1> QED BY <1>3

LEMMA LoopStep ==
  ASSUME TypeOK, StackIsPath, LoopsOnStack, Nested, Nested', Next
  PROVE  LoopsOnStack'
<1> DEFINE n == Len(stack)
<1>1. stack # <<>> /\ n \in Nat \ {0} /\ Top = stack[n] /\ Top \in Task
      /\ \A i \in 1..n : stack[i] \in Task
  BY StackStep, TopIs
<1>2. /\ mRepeatIndex \in [Task -> Nat] /\ mIndexList \in [Name -> Nat]
      /\ \A t \in Task : /\ Tree[t].repeat \in Nat /\ Tree[t].repeat > 0
                         /\ Tree[t].index \in Name \cup {NoName}
  BY TreeAssumption DEF TypeOK
<1>3. \A i \in 1..n : InLoop(stack[i])
  BY DEF LoopsOnStack
<1>4. \A i \in 1..(n - 1) : i \in 1..n /\ stack[i] # Top /\ Top \in Below[stack[i]]
  <2>1. \A i \in 1..(n - 1) : i \in 1..n /\ n \in 1..n /\ i < n
    BY <1>1
  <2> QED BY <1>1, <2>1, BelowTop DEF Nested
<1>5. ASSUME NEW c \in Task, Calls(c), Push(c)
      PROVE  /\ Len(stack') = n + 1 /\ stack'[n + 1] = c
             /\ \A i \in 1..n : stack'[i] = stack[i] /\ stack[i] # c /\ c \in Below[stack[i]]
  <2>1. Len(stack') = n + 1 /\ stack'[n + 1] = c /\ \A i \in 1..n : stack'[i] = stack[i]
    BY <1>5, Pushed
  <2>2. \A i \in 1..n : stack[i] # c
    BY <1>1, <1>5, CalledIsNew
  <2>3. \A i \in 1..n : i \in 1..(n + 1) /\ n + 1 \in 1..(n + 1) /\ i < n + 1
    BY <1>1
  <2>4. ASSUME NEW i \in 1..n PROVE c \in Below[stack[i]]
    BY <2>1, <2>3 DEF Nested
  <2> QED BY <2>1, <2>2, <2>4
<1>6. ASSUME stack' = Front(stack)
      PROVE  Len(stack') = n - 1 /\ \A i \in 1..(n - 1) : stack'[i] = stack[i]
  BY <1>1, <1>6, Popped
<1>7. ASSUME \A i \in 1..Len(stack') : \A t : t = stack'[i] => InLoop(t)'
       PROVE  LoopsOnStack'
  BY <1>7 DEF LoopsOnStack, InLoop
<1>8. \A i \in 1..n : i = n \/ i \in 1..(n - 1)
  BY <1>1
<1>9. \A i \in 1..(n + 1) : i = n + 1 \/ i \in 1..n
  BY <1>1
<1>10. CASE Keeps
  <2>1. ASSUME NEW t \in Task, InLoop(t) PROVE InLoop(t)'
    BY <1>10, <2>1, LoopKept DEF Keeps
  <2>2. ASSUME NEW i \in 1..n, NEW t, t = stack[i] PROVE InLoop(t)'
    BY <1>1, <1>3, <2>1, <2>2
  <2>3. CASE stack' = stack
    BY <1>7, <2>2, <2>3
  <2>4. CASE stack' = Front(stack)
    BY <1>4, <1>6, <1>7, <2>2, <2>4
  <2>5. ASSUME NEW c \in Task, Calls(c), Push(c), Of(c) # "sequential" PROVE LoopsOnStack'
    <3>1. InLoop(c)'
      BY <2>5 DEF InLoop
    <3>2. ASSUME NEW i \in 1..(n + 1), NEW t, t = stack'[i] PROVE InLoop(t)'
      BY <1>5, <1>9, <2>2, <2>5, <3>1, <3>2
    <3> QED BY <1>5, <1>7, <2>5, <3>2
  <2> QED BY <1>10, <2>3, <2>4, <2>5 DEF Keeps
<1>11. CASE Starts
  <2>1. PICK c \in Task : /\ Calls(c) /\ Push(c)
                          /\ mRepeatIndex' = [mRepeatIndex EXCEPT ![c] = 0]
                          /\ mIndexList' = WithIndex(c, 0)
    BY <1>11 DEF Starts
  <2>2. InLoop(c)'
    BY <1>2, <2>1 DEF InLoop, WithIndex
  <2>3. ASSUME NEW i \in 1..n, NEW t, t = stack[i] PROVE InLoop(t)'
    <3>1. t \in Task /\ InLoop(t) /\ mRepeatIndex'[t] = mRepeatIndex[t] /\ c \in Below[t]
      BY <1>1, <1>2, <1>3, <1>5, <2>1, <2>3
    <3> QED BY <2>1, <3>1, LoopKept
  <2>4. ASSUME NEW i \in 1..(n + 1), NEW t, t = stack'[i] PROVE InLoop(t)'
    BY <1>5, <1>9, <2>1, <2>2, <2>3, <2>4
  <2> QED BY <1>5, <1>7, <2>1, <2>4
<1>12. CASE Turns
  <2>1. ASSUME NEW t, t = Top PROVE InLoop(t)'
    BY <1>1, <1>2, <1>12, <2>1 DEF InLoop, WithIndex, Turns
  <2>2. ASSUME NEW i \in 1..(n - 1), NEW t, t = stack[i] PROVE InLoop(t)'
    <3>1. t \in Task /\ InLoop(t) /\ mRepeatIndex'[t] = mRepeatIndex[t] /\ Top \in Below[t]
      BY <1>1, <1>2, <1>3, <1>4, <1>12, <2>2 DEF Turns
    <3> QED BY <1>12, <3>1, LoopKept DEF Turns
  <2>3. stack' = stack
    BY <1>12 DEF Turns
  <2> QED BY <1>1, <1>7, <1>8, <2>1, <2>2, <2>3
<1>13. CASE Leaves
  <2>1. PICK r : mRepeatIndex' = [mRepeatIndex EXCEPT ![Top] = r] /\ mIndexList' = WithIndex(Top, r)
    BY <1>13 DEF Leaves
  <2>2. ASSUME NEW i \in 1..(n - 1), NEW t, t = stack[i] PROVE InLoop(t)'
    <3>1. t \in Task /\ InLoop(t) /\ mRepeatIndex'[t] = mRepeatIndex[t] /\ Top \in Below[t]
      BY <1>1, <1>2, <1>3, <1>4, <2>1, <2>2
    <3> QED BY <2>1, <3>1, LoopKept
  <2>3. stack' = Front(stack)
    BY <1>13 DEF Leaves
  <2> QED BY <1>6, <1>7, <2>2, <2>3
<1>14. CASE Resets
  <2>1. PICK c \in Task : Calls(c) /\ Push(c)
    BY <1>14 DEF Resets, RunCase
  <2>2. n = 1 /\ Of(Top) = "batch"
    BY <1>1, <1>14, AboveTop DEF Resets, RunCase, In
  <2>3. Of(c) # "sequential"
    <3>1. child[Top] \in Nat /\ Len(Kids(Top)) \in Nat
      BY <1>1, KidsAre DEF TypeOK
    <3>2. child[Top] + 1 \in 1..Len(Kids(Top)) /\ c = Kids(Top)[child[Top] + 1]
      BY <2>1, <3>1 DEF Calls
    <3> QED BY <1>1, <2>2, <3>2, ParentOf
  <2>4. ASSUME NEW i \in 1..(n + 1), NEW t, t = stack'[i] PROVE InLoop(t)'
    <3>1. t = c \/ t = Top
      BY <1>1, <1>5, <1>9, <2>1, <2>2, <2>4
    <3> QED BY <2>2, <2>3, <3>1 DEF InLoop
  <2> QED BY <1>5, <1>7, <2>1, <2>4
<1> QED BY <1>10, <1>11, <1>12, <1>13, <1>14, LoopEffect

-------------------------------------------------------------------------------
(* The theorems *)

LEMMA IInvInit == Init => IInv
<1> SUFFICES ASSUME Init PROVE IInv
  OBVIOUS
<1>1. /\ TypeOK /\ stack = <<Root>> /\ Root \in Task /\ ret = None /\ ~Failed
      /\ mRepeatIndex = [t \in Task |-> 0] /\ mAsyncTasks = [t \in Task |-> <<>>] /\ held = {}
      /\ mIndexList = [n \in Name |-> 0] /\ resultAction = "OK" /\ firstError = [t \in Task |-> "OK"]
  BY TypeInit, TreeAssumption DEF Init, Failed
<1>2. /\ Len(stack) = 1 /\ stack[1] = Root /\ stack # <<>> /\ Top = Root
      /\ \A i \in 1..Len(stack) : i = 1 /\ 1..(Len(stack) - 1) = {}
  BY <1>1 DEF Top, Last
<1>3. None \notin Result
  BY TreeAssumption
<1>4. StackIsPath /\ ResultOfChild /\ ThreeStages
  BY <1>1, <1>2 DEF Init, StackIsPath, ResultOfChild, ThreeStages
<1>5. LoopsOnStack
  <2>1. Tree[Root].repeat \in Nat /\ Tree[Root].repeat > 0 /\ Tree[Root].index \in Name \cup {NoName}
    BY <1>1, TreeAssumption
  <2>2. InLoop(Root)
    BY <1>1, <2>1 DEF InLoop
  <2> QED BY <1>2, <2>2 DEF LoopsOnStack
<1>6. Nested
  BY <1>2 DEF Nested
<1>7. QueueOfLoop /\ HeldIsQueued
  BY <1>1 DEF QueueOfLoop, HeldIsQueued, IsInjective
<1>8. FailureKnown /\ PassKnown /\ PassedCasePassed
  BY <1>1, <1>2, <1>3 DEF FailureKnown, PassKnown, PassedCasePassed, In, Result, Failed
<1> QED BY <1>1, <1>4, <1>5, <1>6, <1>7, <1>8 DEF IInv

LEMMA IInvStep == IInv /\ [Next]_vars => IInv'
<1> SUFFICES ASSUME IInv, [Next]_vars PROVE IInv'
  OBVIOUS
<1>1. CASE UNCHANGED vars
  <2>1. TypeOK'
    BY <1>1, TypeStep DEF IInv
  <2>2. (StackIsPath /\ ResultOfChild /\ ThreeStages /\ Nested)'
    BY <1>1 DEF IInv, vars, StackIsPath, ResultOfChild, ThreeStages, Nested, Top
  <2>3. (LoopsOnStack /\ QueueOfLoop /\ HeldIsQueued)'
    BY <1>1 DEF IInv, vars, loops, LoopsOnStack, InLoop, QueueOfLoop, OnStack, HeldIsQueued
  <2>4. (FailureKnown /\ PassKnown /\ PassedCasePassed)'
    BY <1>1 DEF IInv, vars, loops, results, history, Failed, FailureKnown, PassKnown, PassedCasePassed,
                In, Top
  <2> QED BY <2>1, <2>2, <2>3, <2>4 DEF IInv
<1>2. CASE Next
  <2>1. TypeOK'
    BY <1>2, TypeStep DEF IInv
  <2>2. StackIsPath' /\ ResultOfChild'
    BY <1>2, PathStep DEF IInv
  <2>3. QueueOfLoop' /\ HeldIsQueued'
    BY <1>2, QueueStep DEF IInv
  <2>4. Nested'
    BY <1>2, NestedStep DEF IInv
  <2>5. LoopsOnStack'
    BY <1>2, <2>4, LoopStep DEF IInv
  <2>6. FailureKnown' /\ PassKnown' /\ PassedCasePassed'
    BY <1>2, KnownStep DEF IInv
  <2>7. ThreeStages'
    BY <1>2, ThreeStagesStep DEF IInv
  <2> QED BY <2>1, <2>2, <2>3, <2>4, <2>5, <2>6, <2>7 DEF IInv
<1> QED BY <1>1, <1>2

LEMMA Invariance == Spec => []IInv
BY IInvInit, IInvStep, PTL DEF Spec

\* Audio hardware is held only while the loop that started it runs, whatever the
\* description: TaskSequential::run has no way out without runAsyncTasksQueued.
THEOREM HardwareIsReleased == Spec => []HardwareReleased
<1>1. IInv => HardwareReleased
  BY QueueReleased DEF IInv
<1> QED BY <1>1, Invariance, PTL

\* TaskCase reports a case as passed only if a process of it said so and nothing
\* failed, for any tree of tasks and whatever they return; but for an asynchronous
\* task of a loop that a process had ended before with continue, break or pass.
THEOREM VerdictCorrect == Spec => []PassedCasePassed
<1>1. IInv => PassedCasePassed
  BY DEF IInv
<1> QED BY <1>1, Invariance, PTL

\* The index under which data is saved is the number of the loop.
THEOREM IndexCorrect == Spec => []IndexOfLoop
<1>1. IInv => IndexOfLoop
  <2> SUFFICES ASSUME IInv, NEW i \in DOMAIN stack,
                      Of(stack[i]) = "sequential", Tree[stack[i]].index # NoName,
                      \A c \in Below[stack[i]] : Tree[c].index # Tree[stack[i]].index
               PROVE  /\ mIndexList[Tree[stack[i]].index] = mRepeatIndex[stack[i]]
                      /\ mRepeatIndex[stack[i]] < Tree[stack[i]].repeat
    BY DEF IndexOfLoop
  <2>1. i \in 1..Len(stack)
    BY LenProperties DEF IInv, TypeOK
  <2> QED BY <2>1 DEF IInv, LoopsOnStack, InLoop
<1> QED BY <1>1, Invariance, PTL

\* Only a step that counts a child of the task on top starts one.
LEMMA StartedChild ==
  ASSUME IInv, Next, NEW t \in Task, child'[t] > child[t]
  PROVE  /\ stack # <<>> /\ t = Top /\ ret = None /\ child'[t] = child[t] + 1
         /\ Calls(Kids(t)[child'[t]]) /\ Kids(t)[child'[t]] \in Task
<1>1. stack # <<>> /\ Top \in Task /\ child \in [Task -> Nat]
  BY StackStep, TopIs DEF IInv, TypeOK
<1>2. ASSUME NEW c \in Task, Calls(c), child' = Counted \/ child' = [Counted EXCEPT ![c] = 0]
      PROVE  /\ t = Top /\ ret = None /\ child'[t] = child[t] + 1
             /\ Calls(Kids(t)[child'[t]]) /\ Kids(t)[child'[t]] \in Task
  <2>1. child[t] \in Nat /\ child'[t] \in {0, child[t], Counted[t]}
    BY <1>1, <1>2 DEF Counted
  <2>2. child'[t] # 0 /\ child'[t] # child[t]
    BY <2>1
  <2>3. child'[t] = Counted[t] /\ t = Top /\ Counted[t] = child[t] + 1
    BY <1>1, <2>1, <2>2 DEF Counted
  <2>4. c = Kids(t)[child'[t]]
    BY <1>2, <2>3 DEF Calls
  <2> QED BY <1>2, <2>3, <2>4 DEF Calls
<1>3. CASE Pushes \/ Counts
  BY <1>1, <1>2, <1>3 DEF Pushes, Counts
<1>4. CASE Pops
  BY <1>1, <1>4 DEF Pops
<1>5. CASE Stays
  BY <1>1, <1>5 DEF Stays, Completes
<1> QED BY <1>3, <1>4, <1>5, StackStep DEF IInv

\* After an error or a failure no task of the case is started but save, however
\* deep in loops it happened, for any tree of tasks; but for the error of an
\* asynchronous task that is completed when a process has ended its loop with
\* continue, break or pass already, which TaskSequential::run does not look at.
THEOREM FailureStops == Spec => FailureStopsEverything
<1>1. IInv /\ [Next]_vars =>
        [Failed => \A t \in Task :
           child'[t] > child[t] => Of(Kids(t)[child'[t]]) \in {"save", "case"}]_vars
  <2> SUFFICES ASSUME IInv, Next, Failed, NEW t \in Task, child'[t] > child[t]
               PROVE  Of(Kids(t)[child'[t]]) \in {"save", "case"}
    OBVIOUS
  <2> DEFINE c == Kids(t)[child'[t]]
  <2>1. /\ stack # <<>> /\ t = Top /\ ret = None /\ child'[t] = child[t] + 1
        /\ Calls(c) /\ c \in Task
    BY StartedChild
  <2>2. /\ child[t] \in Nat /\ Len(Kids(t)) \in Nat /\ None \notin Result
        /\ child \in [Task -> Nat]
    BY KidsAre, TreeAssumption DEF IInv, TypeOK
  <2>3. child[t] + 1 \in 1..Len(Kids(t)) /\ c = Kids(t)[child[t] + 1]
    BY <2>1, <2>2 DEF Calls
  <2>4. \/ Of(t) = "batch"
        \/ Of(t) = "sequential" /\ Stops(firstError[t])
        \/ Of(t) = "case" /\ child[t] = 1 /\ Stops(resultSetup)
        \/ Of(t) = "case" /\ child[t] \in {2, 3}
    BY <2>1, <2>2 DEF IInv, FailureKnown, In, Stops, Result
  <2>5. CASE Of(t) = "batch"
    BY <2>3, <2>5, ParentOf
  <2>6. CASE Of(t) = "case" /\ child[t] \in {2, 3}
    <3>1. child[t] < 3
      BY <2>1, <2>2, <2>6 DEF Next, Stage, Sequential, RunCase, CaseReturned, BatchReturns, CaseStage,
                              StageReturned, CaseReturns, In
    <3> QED BY <2>2, <2>3, <2>6, <3>1, ParentOf
  <2>7. CASE Of(t) = "sequential" /\ Stops(firstError[t])
    <3>1. Sequential
      BY <2>1, <2>7 DEF Next, Stage, RunCase, CaseReturned, BatchReturns, CaseStage,
                        StageReturned, CaseReturns, In
    <3>2. firstError[Top] # "OK"
      BY <2>1, <2>7 DEF Stops
    <3>3. child' = child \/ child' = [child EXCEPT ![Top] = 0]
      BY <3>1, <3>2 DEF Sequential, ChildReturned, Complete, NextLoop, LoopsDone, LoopBroken,
                        LoopsStopped
    <3> QED BY <2>1, <2>2, <3>3
  <2>8. CASE Of(t) = "case" /\ child[t] = 1 /\ Stops(resultSetup)
    <3>1. CaseStage \/ StageReturned \/ CaseReturns
      BY <2>1, <2>8 DEF Next, Stage, Sequential, RunCase, CaseReturned, BatchReturns, In
    <3>2. ~CaseStage
      BY <2>1, <2>8 DEF CaseStage, Stops
    <3>3. child' = child
      BY <3>1, <3>2 DEF StageReturned, CaseReturns
    <3> QED BY <2>1, <2>2, <3>3
  <2> QED BY <2>4, <2>5, <2>6, <2>7, <2>8
<1> QED BY <1>1, Invariance, PTL DEF Spec, FailureStopsEverything, Failed

===============================================================================
