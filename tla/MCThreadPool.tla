---------------------------- MODULE MCThreadPool ----------------------------
(* Two callers share the pool.  c submits two tasks, and one of them, A,    *)
(* submits a leaf and another task; d submits a leaf that tries to submit   *)
(* a task itself, and a task without a waiter, and may return early.        *)
EXTENDS ThreadPool, TLC

CONSTANTS c, d, A, B, a1, a2, d1, d2, r

TreeBody == (c :> <<A, B>>) @@ (A :> <<a1, a2>>) @@ (d :> <<d1, d2>>) @@ (d1 :> <<r>>)
              @@ [f \in {B, a1, a2, d2, r} |-> <<>>]
=============================================================================
