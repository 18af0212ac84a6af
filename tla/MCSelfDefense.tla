---------------------------- MODULE MCSelfDefense ----------------------------
(* Small instances of SelfDefense for TLC. *)
EXTENDS SelfDefense, TLC

Symmetry == Permutations(Threads) \cup Permutations(Pids \ {System})

\* Two instances in one: the callbacks about processes in one thread, under any clock,
\* where one process, which lives on, opens handles to the others; and all callbacks in
\* all threads at once, without that process and with a clock that stands still.
FirstThread == CHOOSE t \in Threads : TRUE
Settled == CHOOSE p \in Pids : p # System

OneThread ==
    \A t \in Threads : pc[t] # "idle" =>
        /\ t = FirstThread
        /\ fr[t].op \notin Requests
        /\ fr[t].op = "exit" => fr[t].cur # Settled
        /\ fr[t].op = "handle" => fr[t].cur = Settled

AtOneTime ==
    /\ now = Grace
    /\ \A p \in Pids : Known(p) => map[p].start <= Grace
    /\ \A t \in Threads : fr[t].start <= Grace
    /\ os[Settled].phase = "free" /\ ~Known(Settled)

Small == OneThread \/ AtOneTime

\* Of the steps, only SetClock and Begin can leave Small: a callback on its way is never
\* held back, so that what fairness promises of it stays possible.
SmallStep == Small'
=============================================================================
