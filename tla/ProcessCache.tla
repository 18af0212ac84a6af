---------------------------- MODULE ProcessCache ----------------------------
(***************************************************************************)
(* What the process map of the driver promises to its callers, with every  *)
(* question answered in one step: a process is unknown, plain or           *)
(* protected; it is classified once, when it is first recorded; every      *)
(* thread that asks before the record is dropped is told that same         *)
(* classification.  SelfDefense implements it with two mutexes, a lookup, *)
(* a scan of the directory list and an insertion.                          *)
(***************************************************************************)
CONSTANTS Threads,   \* the threads that may ask
          Pids,      \* process identifiers
          NoAnswer   \* a thread that has no pending answer

VARIABLES tag,    \* what is recorded of each process
          told    \* the answer a thread has received and not yet acted on

vars == <<tag, told>>

Tags == {"plain", "protected"}

TypeOK == /\ tag \in [Pids -> Tags \cup {"unknown"}]
          /\ told \in [Threads -> (Pids \X Tags) \cup {NoAnswer}]

Init == /\ tag = [p \in Pids |-> "unknown"]
        /\ told = [t \in Threads |-> NoAnswer]

\* Something other than a question records the process.
Record(p, v) == /\ tag[p] = "unknown"
                /\ tag' = [tag EXCEPT ![p] = v]
                /\ UNCHANGED told

\* The record is dropped.
Forget(p) == /\ tag[p] # "unknown"
             /\ tag' = [tag EXCEPT ![p] = "unknown"]
             /\ UNCHANGED told

\* A thread asks about a recorded process.
Tell(t, p) == /\ tag[p] # "unknown"
              /\ told' = [told EXCEPT ![t] = <<p, tag[p]>>]
              /\ UNCHANGED tag

\* A thread asks about an unknown process: the answer becomes the record.
TellAndRecord(t, p, v) == /\ tag[p] = "unknown"
                          /\ tag' = [tag EXCEPT ![p] = v]
                          /\ told' = [told EXCEPT ![t] = <<p, v>>]

\* The thread acts on its answer.
Use(t) == /\ told[t] # NoAnswer
          /\ told' = [told EXCEPT ![t] = NoAnswer]
          /\ UNCHANGED tag

Next == \/ \E p \in Pids : Forget(p) \/ \E v \in Tags : Record(p, v)
        \/ \E t \in Threads, p \in Pids :
             Tell(t, p) \/ \E v \in Tags : TellAndRecord(t, p, v)
        \/ \E t \in Threads : Use(t)

Spec == Init /\ [][Next]_vars
=============================================================================
