--------------------------- MODULE MCSchedulerV3 ---------------------------
(***************************************************************************)
(* Small instances of SchedulerV3: two workers (the main thread and one    *)
(* other), two groups, and a thread that is no worker.                     *)
(***************************************************************************)
EXTENDS SchedulerV3, TLC

CONSTANTS ta, tb, tc, td, ext, sem

Do(o, x) == [op |-> o, arg |-> x]

\* Group 0 has both workers, group 1 only worker 1, and the higher priority there.
MCWorkerCount == 2
MCGroups   == {0, 1}
MCStart    == (0 :> 0) @@ (1 :> 1)
MCCount    == (0 :> 2) @@ (1 :> 1)
MCPriority == (0 :> 0) @@ (1 :> 1)
MCForeign  == {ext}
MCEvents   == {sem}
MCTasks    == {ta, tb, tc, td}
MCDest     == (ta :> 0) @@ (tb :> 1) @@ (tc :> 0) @@ (td :> 0)

\* Task ta hands tb to the other group and helps until tb signals; the other thread submits
\* tc and empties group 0.
MCScript ==
  (0 :> <<Do("begin", None), Do("submit", ta), Do("submit", td), Do("waitall", None),
          Do("end", None), Do("begin", None), Do("end", None)>>)
  @@ (ext :> <<Do("submit", tc), Do("clear", 0)>>)
  @@ (ta :> <<Do("submit", tb), Do("cwait", sem)>>)
  @@ (tb :> <<Do("signal", sem)>>)
  @@ (tc :> <<>>) @@ (td :> <<>>)
=============================================================================
