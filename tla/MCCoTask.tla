------------------------------ MODULE MCCoTask ------------------------------
(***************************************************************************)
(* A coroutine that awaits another is moved to the scheduler; then one is  *)
(* submitted by reference and waited for, as the README's example does.    *)
(***************************************************************************)
EXTENDS CoTask, TLC
CONSTANTS m, v, w, f1, f2, f3, wt

Do(o, x)  == [op |-> o, arg |-> x]
MCAwaits  == (f1 :> <<f2>>) @@ [c \in {f2, f3} |-> <<>>]
MCScripts == {<<Do("make", f1), Do("submit_move", f1), Do("make", f3), Do("submit", f3),
                Do("cooperative_wait", f3), Do("destroy", f3)>>}

\* Frames are not freed beneath the threads that will still look into them: neither that of a
\* coroutine that the scheduler owns, beneath resume_coroutine, nor that of one that is being
\* suspended, beneath await_suspend.  Only a state in which both happen violates the formula, so
\* that one behaviour shows the two of them.
FramesKept == OwnersAlive \/ AwaitersAlive
=============================================================================
