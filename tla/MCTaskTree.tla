------------------------------ MODULE MCTaskTree ------------------------------
(* A batch of two cases: one with loops in a loop and asynchronous tasks at *)
(* both levels, and one with a single loop after another and no save.  The  *)
(* second save of the first is never run.                                   *)
EXTENDS TaskTree, TLC

Node(type, children, repeat, index, sync, outcomes) ==
  [type |-> type, children |-> children, repeat |-> repeat, index |-> index, sync |-> sync,
   results |-> outcomes]

Stage1(type, children) == Node(type, children, 1, NoName, TRUE, {})
Leaf(outcomes) == Node("leaf", <<>>, 1, NoName, TRUE, outcomes)
Async == Node("async", <<>>, 1, NoName, FALSE, {})

MCTree ==
     "batch"   :> Stage1("batch", <<"case1", "case2">>)
  @@ "case1"   :> Stage1("case", <<"setup1", "action1", "save1", "save2">>)
  @@ "setup1"  :> Stage1("setup", <<"sound", "download">>)
  @@ "sound"   :> Leaf({"OK", "Error"})
  @@ "download" :> Leaf({"OK", "Error"})
  @@ "action1" :> Stage1("action", <<"outer">>)
  @@ "outer"   :> Node("sequential", <<"output", "inner", "check">>, 2, "i", TRUE, {})
  @@ "output"  :> Async
  @@ "inner"   :> Node("sequential", <<"input", "tone", "process">>, 2, "j", TRUE, {})
  @@ "input"   :> Async
  @@ "tone"    :> Async
  @@ "process" :> Leaf(Result)
  @@ "check"   :> Leaf({"OK", "Pass", "Continue"})
  @@ "save1"   :> Node("save", <<>>, 1, NoName, TRUE, {"OK", "Error"})
  @@ "save2"   :> Node("save", <<>>, 1, NoName, TRUE, {"OK", "Error"})
  @@ "case2"   :> Stage1("case", <<"setup2", "action2">>)
  @@ "setup2"  :> Stage1("setup", <<>>)
  @@ "action2" :> Stage1("action", <<"first", "second">>)
  @@ "first"   :> Node("sequential", <<"record">>, 2, "i", TRUE, {})
  @@ "record"  :> Node("async", <<>>, 1, NoName, TRUE, {})
  @@ "second"  :> Node("sequential", <<"calculate">>, 2, "i", TRUE, {})
  @@ "calculate" :> Leaf(Result)
===============================================================================
