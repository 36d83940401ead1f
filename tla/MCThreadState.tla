--------------------------- MODULE MCThreadState ----------------------------
(***************************************************************************)
(* ThreadState for two threads, c1 and c2, and the thread w1 they start.   *)
(***************************************************************************)
EXTENDS ThreadState, TLC

CONSTANTS c1, c2, w1

\* Both may start w1; c2 also interrupts it and waits for its end; w1 interrupts
\* itself and c2.
MCCalls ==      ({"start"} \X {c1, c2} \X {w1})
           \cup ({"interrupt"} \X {c2, w1} \X {w1})
           \cup {<<"join", c2, w1>>, <<"interrupt", w1, c2>>}

MCMaxSent == c1 :> 0 @@ c2 :> 1 @@ w1 :> 2

=============================================================================
