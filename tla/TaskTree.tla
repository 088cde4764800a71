-------------------------------- MODULE TaskTree --------------------------------
(***************************************************************************)
(* A test description of the audio quality suite is a tree of tasks; to    *)
(* run it is to run its root.  A sequential task repeats its children and  *)
(* may end a loop early; an asynchronous child is only started when it is  *)
(* its turn, and completed at the end of the loop.                         *)
(*                                                                         *)
(* The C++ call stack is the sequence stack of the tasks whose run() is in *)
(* progress.  What a process, message, sound, download or save returns,    *)
(* and whether the hardware starts and completes, is left open.            *)
(***************************************************************************)
EXTENDS Naturals, SequencesExt

CONSTANTS
  Tree,     \* of each task: type, children, repeat, index (the name), sync, results
  Root,
  Name, NoName,
  None

Task   == DOMAIN Tree
Result == {"OK", "Continue", "BreakOneLoop", "Error", "Fail", "Pass"}
Type   == {"batch", "case", "setup", "action", "sequential", "async", "save", "leaf"}

\* What the tables of ModelBuilder admit: the type of a parent, that of a child.
Admitted ==
  { <<"batch", "case">>, <<"case", "setup">>, <<"case", "action">>, <<"case", "save">>,
    <<"setup", "leaf">>, <<"action", "sequential">>,
    <<"sequential", "sequential">>, <<"sequential", "async">>, <<"sequential", "leaf">> }

Of(t) == Tree[t].type
Kids(t) == Tree[t].children

\* The parser asks for a setup and an action in a case, in any order and number;
\* TaskCase.run takes the first three for setup, action and save by their place.
\* A case here has them in that order, as every description of the suite does, and
\* may have more after them, which are not run.
ASSUME TreeAssumption ==
  /\ Root \in Task /\ None \notin Result /\ NoName \notin Name
  /\ \A t \in Task :
       /\ Of(t) \in Type /\ Kids(t) \in Seq(Task) /\ Tree[t].repeat \in Nat \ {0}
       /\ Tree[t].index \in Name \cup {NoName} /\ Tree[t].sync \in BOOLEAN
       /\ Tree[t].results \subseteq Result
       /\ \A i \in DOMAIN Kids(t) : <<Of(t), Of(Kids(t)[i])>> \in Admitted
       /\ Of(t) = "case" =>
            /\ Len(Kids(t)) >= 2
            /\ Of(Kids(t)[1]) = "setup" /\ Of(Kids(t)[2]) = "action"
            /\ Len(Kids(t)) >= 3 => Of(Kids(t)[3]) = "save"

\* A description is a tree: every element of it is parsed into a task of its own,
\* which is added to one parent; a case that is included twice is parsed twice.
\* Only sequential tasks nest, and none is inside itself.
ASSUME ShapeAssumption ==
  /\ \A t, u \in Task : \A i \in DOMAIN Kids(t), j \in DOMAIN Kids(u) :
       Kids(t)[i] = Kids(u)[j] => t = u /\ i = j
  /\ \A t \in Task : \A i \in DOMAIN Kids(t) : Kids(t)[i] # Root
  /\ \A S \in SUBSET { t \in Task : Of(t) = "sequential" } :
       S # {} => \E t \in S : \A i \in DOMAIN Kids(t) : Kids(t)[i] \notin S

VARIABLES
  stack,          \* tasks whose run() is in progress, the root first
  child,          \* of each task: how many children this loop has run
  ret,            \* what the child that was run last returned, until it is looked at
  mRepeatIndex, firstError, mAsyncTasks,  \* of each sequential task
  mIndexList,     \* of the test case in progress
  resultSetup, resultAction, resultSave,  \* of the case in progress
  report,         \* of each case: what Report was told
  held,           \* asynchronous tasks that hold audio hardware (mHw)
  failures,       \* history variable of the case in progress: for each error or failure
                  \* of a task, what its loop had come to when the task returned it
  passed          \* history variable: a process of the case said that it passed

loops   == <<mRepeatIndex, firstError, mAsyncTasks, held>>
results == <<resultSetup, resultAction, resultSave, report>>
history == <<failures, passed>>
vars == <<stack, child, ret, loops, mIndexList, results, history>>

Top == Last(stack)
In(type) == stack # <<>> /\ Of(Top) = type
Stops(r) == r \in {"Error", "Fail"}

\* The root is about to run.
Init ==
  /\ stack = <<Root>> /\ child = [t \in Task |-> 0] /\ ret = None
  /\ mRepeatIndex = [t \in Task |-> 0] /\ firstError = [t \in Task |-> "OK"]
  /\ mAsyncTasks = [t \in Task |-> <<>>] /\ held = {}
  /\ mIndexList = [n \in Name |-> 0]
  /\ resultSetup = "OK" /\ resultAction = "OK" /\ resultSave = "OK"
  /\ report = [t \in Task |-> "none"]
  /\ failures = {} /\ passed = FALSE

-------------------------------------------------------------------------------
(* What every task does with its children *)

\* Its next child runs.
Calls(c) ==
  /\ ret = None
  /\ child[Top] < Len(Kids(Top)) /\ c = Kids(Top)[child[Top] + 1]

Counted == [child EXCEPT ![Top] = @ + 1]
Push(c) == stack' = Append(stack, c)
Return(r) == stack' = Front(stack) /\ ret' = r

\* A child that returns r when its loop has come to the result sofar.
Failing(r, sofar) == failures' = IF Stops(r) THEN failures \cup {sofar} ELSE failures
Happened(r) == Failing(r, "OK") /\ passed' = (passed \/ r = "Pass")

RunLeaf ==
  \E c \in Task :
    /\ Calls(c) /\ Of(c) \in {"leaf", "save"}
    /\ \E r \in Tree[c].results : ret' = r /\ Happened(r)
    /\ child' = Counted
    /\ UNCHANGED <<stack, loops, mIndexList, results>>

\* Setting the index of a sequential task, if it has one.
WithIndex(t, i) == IF Tree[t].index = NoName THEN mIndexList
                                             ELSE [mIndexList EXCEPT ![Tree[t].index] = i]

RunSequential ==
  \E c \in Task :
    /\ Calls(c) /\ Of(c) = "sequential"
    /\ Push(c) /\ child' = [Counted EXCEPT ![c] = 0] /\ UNCHANGED ret
    /\ mRepeatIndex' = [mRepeatIndex EXCEPT ![c] = 0]
    /\ firstError' = [firstError EXCEPT ![c] = "OK"]
    /\ mIndexList' = WithIndex(c, 0)
    /\ UNCHANGED <<mAsyncTasks, held, results, history>>

RunStage ==
  \E c \in Task :
    /\ Calls(c) /\ Of(c) \in {"setup", "action"}
    /\ Push(c) /\ child' = [Counted EXCEPT ![c] = 0]
    /\ UNCHANGED <<ret, loops, mIndexList, results, history>>

\* TaskGeneric.run: children until one is not OK.
StageGoesOn == ret = "OK" /\ ret' = None /\ UNCHANGED stack
StageEnds ==
  \/ ret \notin {None, "OK"} /\ Return(ret)
  \/ ret = None /\ child[Top] = Len(Kids(Top)) /\ Return("OK")

Stage ==
  /\ In("setup") \/ In("action")
  /\ \/ RunLeaf \/ RunSequential
     \/ /\ StageGoesOn \/ StageEnds
        /\ UNCHANGED <<child, loops, mIndexList, results, history>>

-------------------------------------------------------------------------------
(* TaskSequential *)

\* An input or output starts its hardware or fails; if it is synchronous it is
\* completed at once, else it is queued.
RunAsync ==
  \E c \in Task :
    /\ Calls(c) /\ Of(c) = "async" /\ child' = Counted
    /\ \/ ret' = "Error" /\ UNCHANGED <<mAsyncTasks, held>>
       \/ /\ Tree[c].sync
          /\ ret' = "OK" /\ UNCHANGED <<mAsyncTasks, held>>
       \/ /\ ~Tree[c].sync
          /\ ret' = "OK" /\ held' = held \cup {c}
          /\ mAsyncTasks' = [mAsyncTasks EXCEPT ![Top] = Append(@, c)]
    /\ Failing(ret', "OK")
    /\ UNCHANGED <<stack, mRepeatIndex, firstError, mIndexList, results, passed>>

\* Mutant: the result is reset before it is looked at.
ChildReturnedLate ==
  /\ ret # None /\ ret' = None
  /\ firstError' = [firstError EXCEPT ![Top] = ret']
  /\ UNCHANGED <<stack, child, mRepeatIndex, mAsyncTasks, held, mIndexList, results, history>>

\* The result of a child; the first that is not OK ends the loop.
ChildReturned ==
  /\ ret # None /\ ret' = None
  /\ firstError' = [firstError EXCEPT ![Top] = ret]
  /\ UNCHANGED <<stack, child, mRepeatIndex, mAsyncTasks, held, mIndexList, results, history>>

AtEnd == ret = None /\ (firstError[Top] # "OK" \/ child[Top] = Len(Kids(Top)))

\* Mutant: what an asynchronous task returns is lost.
CompleteUnchecked ==
  /\ AtEnd /\ mAsyncTasks[Top] # <<>>
  /\ mAsyncTasks' = [mAsyncTasks EXCEPT ![Top] = Tail(@)]
  /\ held' = held \ {Head(mAsyncTasks[Top])}
  /\ \E r \in {"OK", "Error"} : Failing(r, firstError[Top])
  /\ UNCHANGED <<stack, child, ret, firstError, mRepeatIndex, mIndexList, results, passed>>

\* runAsyncTasksQueued: all of them are completed.  An error is the result of the
\* loop only if it has come to no other: after a continue, break or pass of a
\* process nobody gets to know of it.
Complete ==
  /\ AtEnd /\ mAsyncTasks[Top] # <<>>
  /\ mAsyncTasks' = [mAsyncTasks EXCEPT ![Top] = Tail(@)]
  /\ held' = held \ {Head(mAsyncTasks[Top])}
  /\ \E r \in {"OK", "Error"} :
       /\ firstError' = [firstError EXCEPT ![Top] = IF @ = "OK" THEN r ELSE @]
       /\ Failing(r, firstError[Top])
  /\ UNCHANGED <<stack, child, ret, mRepeatIndex, mIndexList, results, passed>>

LoopIsOver == AtEnd /\ mAsyncTasks[Top] = <<>>

\* Mutant: the index is set up once.
NextLoopSameIndex ==
  /\ LoopIsOver /\ firstError[Top] \in {"OK", "Continue"}
  /\ mRepeatIndex[Top] + 1 < Tree[Top].repeat
  /\ mRepeatIndex' = [mRepeatIndex EXCEPT ![Top] = @ + 1]
  /\ firstError' = [firstError EXCEPT ![Top] = "OK"]
  /\ child' = [child EXCEPT ![Top] = 0]
  /\ UNCHANGED <<mIndexList, stack, ret, mAsyncTasks, held, results, history>>

\* Mutant: an error skips the rest of one loop only.
NextLoopAfterError ==
  /\ LoopIsOver /\ firstError[Top] \in {"OK", "Continue", "Error"}
  /\ mRepeatIndex[Top] + 1 < Tree[Top].repeat
  /\ mRepeatIndex' = [mRepeatIndex EXCEPT ![Top] = @ + 1]
  /\ firstError' = [firstError EXCEPT ![Top] = "OK"]
  /\ child' = [child EXCEPT ![Top] = 0]
  /\ mIndexList' = WithIndex(Top, mRepeatIndex'[Top])
  /\ UNCHANGED <<stack, ret, mAsyncTasks, held, results, history>>

NextLoop ==
  /\ LoopIsOver /\ firstError[Top] \in {"OK", "Continue"}
  /\ mRepeatIndex[Top] + 1 < Tree[Top].repeat
  /\ mRepeatIndex' = [mRepeatIndex EXCEPT ![Top] = @ + 1]
  /\ firstError' = [firstError EXCEPT ![Top] = "OK"]
  /\ child' = [child EXCEPT ![Top] = 0]
  /\ mIndexList' = WithIndex(Top, mRepeatIndex'[Top])
  /\ UNCHANGED <<stack, ret, mAsyncTasks, held, results, history>>

\* The last loop was run; the index is one past it.
LoopsDone ==
  /\ LoopIsOver /\ firstError[Top] \in {"OK", "Continue"}
  /\ mRepeatIndex[Top] + 1 = Tree[Top].repeat
  /\ mRepeatIndex' = [mRepeatIndex EXCEPT ![Top] = @ + 1]
  /\ mIndexList' = WithIndex(Top, mRepeatIndex'[Top])
  /\ Return("OK")
  /\ UNCHANGED <<child, firstError, mAsyncTasks, held, results, history>>

\* Mutant: a break leaves at once.
LoopBrokenAtOnce ==
  /\ AtEnd /\ firstError[Top] = "BreakOneLoop" /\ Return("OK")
  /\ UNCHANGED <<child, loops, mIndexList, results, history>>

\* A break is a good end; the index stays.
LoopBroken ==
  /\ LoopIsOver /\ firstError[Top] = "BreakOneLoop" /\ Return("OK")
  /\ UNCHANGED <<child, loops, mIndexList, results, history>>

\* An error, a failure or a pass ends all loops; the for statement counts on.
LoopsStopped ==
  /\ LoopIsOver /\ firstError[Top] \in {"Error", "Fail", "Pass"}
  /\ mRepeatIndex' = [mRepeatIndex EXCEPT ![Top] = Tree[Top].repeat + 1]
  /\ mIndexList' = WithIndex(Top, mRepeatIndex'[Top])
  /\ Return(firstError[Top])
  /\ UNCHANGED <<child, firstError, mAsyncTasks, held, results, history>>

Sequential ==
  /\ In("sequential")
  /\ \/ firstError[Top] = "OK" /\ (RunLeaf \/ RunSequential \/ RunAsync)
     \/ ChildReturned \/ Complete
     \/ NextLoop \/ LoopsDone \/ LoopBroken \/ LoopsStopped

-------------------------------------------------------------------------------
(* TaskCase and TaskBatch *)

RunCase ==
  /\ In("batch") /\ \E c \in Task : Calls(c) /\ Push(c) /\ child' = [Counted EXCEPT ![c] = 0]
  /\ mIndexList' = [n \in Name |-> 0]
  /\ resultSetup' = "OK" /\ resultAction' = "OK" /\ resultSave' = "OK"
  /\ failures' = {} /\ passed' = FALSE
  /\ UNCHANGED <<ret, loops, report>>

\* Mutant: a batch stops at a case that did not pass.
CaseReturnedBad ==
  /\ In("batch") /\ ret # None /\ UNCHANGED stack
  /\ IF ret = "Pass" THEN ret' = None /\ UNCHANGED child
                     ELSE ret' = None /\ child' = [child EXCEPT ![Top] = Len(Kids(Top))]
  /\ UNCHANGED <<loops, mIndexList, results, history>>

\* runAlways
CaseReturned ==
  /\ In("batch") /\ ret # None /\ ret' = None
  /\ UNCHANGED <<stack, child, loops, mIndexList, results, history>>

BatchReturns ==
  /\ In("batch") /\ ret = None /\ child[Top] = Len(Kids(Top))
  /\ Return("OK")
  /\ UNCHANGED <<child, loops, mIndexList, results, history>>

\* The stages of a case, each after the one before; save even after a failure.
CaseStage ==
  /\ In("case") /\ (child[Top] = 0 \/ resultSetup = "OK") /\ child[Top] < 3
  /\ RunStage \/ RunLeaf

StageReturned ==
  /\ In("case") /\ ret # None /\ ret' = None
  /\ resultSetup' = IF child[Top] = 1 THEN ret ELSE resultSetup
  /\ resultAction' = IF child[Top] = 2 THEN ret ELSE resultAction
  /\ resultSave' = IF child[Top] = 3 THEN ret ELSE resultSave
  /\ UNCHANGED <<stack, child, loops, mIndexList, report, history>>

testPassed == resultSetup = "OK" /\ resultAction = "Pass" /\ resultSave = "OK"

\* The verdict.  A case that passed but was not saved is reported as failed, and
\* its run() returns Pass.
CaseReturns ==
  /\ In("case") /\ ret = None
  /\ child[Top] \in {3, Len(Kids(Top))} \/ (child[Top] = 1 /\ resultSetup # "OK")
  /\ report' = [report EXCEPT ![Top] = IF testPassed THEN "passed" ELSE "failed"]
  /\ Return(IF testPassed THEN "Pass"
            ELSE IF resultAction # "OK" THEN resultAction
            ELSE IF resultSetup # "OK" THEN resultSetup ELSE resultSave)
  /\ UNCHANGED <<child, loops, mIndexList, resultSetup, resultAction, resultSave, history>>

Next ==
  \/ Stage \/ Sequential
  \/ RunCase \/ CaseReturned \/ BatchReturns
  \/ CaseStage \/ StageReturned \/ CaseReturns

Spec == Init /\ [][Next]_vars

\* The program goes on, and every task returns.
FairSpec == Spec /\ WF_vars(Next)

-------------------------------------------------------------------------------
(* Properties *)

\* The tasks inside a task.
Below[t \in Task] ==
  LET kids == ToSet(Kids(t)) IN kids \cup UNION { Below[c] : c \in kids }

OnStack(t) == \E i \in DOMAIN stack : stack[i] = t
Parent(c, t) == \E i \in DOMAIN Kids(t) : Kids(t)[i] = c

TypeOK ==
  /\ stack \in Seq(Task) /\ ret \in Result \cup {None}
  /\ child \in [Task -> Nat] /\ \A t \in Task : child[t] <= Len(Kids(t))
  /\ mRepeatIndex \in [Task -> Nat] /\ firstError \in [Task -> Result]
  /\ \A t \in Task : mRepeatIndex[t] <= Tree[t].repeat + 1
  /\ mAsyncTasks \in [Task -> Seq(Task)] /\ held \subseteq Task
  /\ mIndexList \in [Name -> Nat]
  /\ resultSetup \in Result /\ resultAction \in Result /\ resultSave \in Result
  /\ report \in [Task -> {"none", "passed", "failed"}]
  /\ failures \subseteq Result /\ passed \in BOOLEAN

\* The results of a loop with which TaskSequential::run goes over an error of an
\* asynchronous task that is completed after them.
Overruling == {"Continue", "BreakOneLoop", "Pass"}

\* A case is reported as passed only when a process said so and no task of it
\* failed, in any loop, asynchronous or not, but for an asynchronous task of a
\* loop that a process had ended before with continue, break or pass.
PassedCasePassed ==
  In("batch") /\ ret # None /\ report[Kids(Top)[child[Top]]] = "passed" =>
    passed /\ failures \subseteq Overruling

\* An error or a failure stops everything, from any depth of loops: after it no
\* task of the case is started but save.  There is an exception, in which the code
\* does not do what ExecutionResult of TaskGeneric.h says of EResultError: the
\* error of an asynchronous task that is completed when a process has ended its
\* loop with continue, break or pass is lost, and stops nothing.
FailureStopsEverything ==
  [][~(failures \subseteq Overruling) => \A t \in Task :
       child'[t] > child[t] => Of(Kids(t)[child'[t]]) \in {"save", "case"}]_vars

\* While a sequential task runs, and until its asynchronous tasks are completed,
\* which store their data under a name with the index in it, the index of its
\* name is the number of the loop; unless a task inside uses the same name.
IndexOfLoop ==
  \A i \in DOMAIN stack :
    LET t == stack[i]
        n == Tree[t].index
    IN  Of(t) = "sequential" /\ n # NoName /\ (\A c \in Below[t] : Tree[c].index # n) =>
          mIndexList[n] = mRepeatIndex[t] /\ mRepeatIndex[t] < Tree[t].repeat

\* Audio hardware is held only while the loop that started it runs: no way out
\* of a loop leaves an asynchronous task uncompleted, and none is started twice.
HardwareReleased ==
  /\ \A a \in held : \E t \in Task : OnStack(t) /\ Parent(a, t) /\ Contains(mAsyncTasks[t], a)
  /\ \A t \in Task : mAsyncTasks[t] # <<>> => OnStack(t) /\ IsInjective(mAsyncTasks[t])

\* Whatever its cases return, a batch comes to its end and reports all of them.
BatchReportsAll == <>(stack = <<>> /\ \A t \in Task : Of(t) = "case" => report[t] # "none")
===============================================================================
