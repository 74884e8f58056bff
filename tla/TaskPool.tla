------------------------------- MODULE TaskPool -------------------------------
(***************************************************************************)
(* What the thread pool of src/src/reactorpool promises its user, the      *)
(* server's IO thread: tasks are accepted one at a time into a backlog of  *)
(* at most Capacity, started in the order they were accepted, each by one  *)
(* worker, each exactly once; and the pool closes only when every accepted *)
(* task has finished.  Threadpool implements this with a locked queue and  *)
(* two condition variables.                                                *)
(***************************************************************************)
EXTENDS Naturals, Sequences

CONSTANTS Tasks,      \* the tasks that may ever be submitted
          Workers,    \* the worker threads
          Capacity,   \* the length the backlog never exceeds
          NoTask      \* what an idle worker runs

VARIABLES backlog,    \* accepted and not started, oldest first
          running,    \* the task each worker is executing, or NoTask
          accepted,   \* every task accepted so far
          finished,   \* every task whose execution has ended
          open        \* FALSE once the pool has shut down

vars == <<backlog, running, accepted, finished, open>>

TypeOK ==
  /\ backlog \in Seq(Tasks) /\ Len(backlog) <= Capacity
  /\ running \in [Workers -> Tasks \cup {NoTask}]
  /\ finished \subseteq accepted /\ accepted \subseteq Tasks
  /\ open \in BOOLEAN

Init ==
  /\ backlog = <<>>
  /\ running = [w \in Workers |-> NoTask]
  /\ accepted = {} /\ finished = {}
  /\ open = TRUE

Submit(t) ==
  /\ open
  /\ t \notin accepted
  /\ Len(backlog) < Capacity
  /\ backlog' = Append(backlog, t)
  /\ accepted' = accepted \cup {t}
  /\ UNCHANGED <<running, finished>> /\ open' = open

Take(w) ==
  /\ running[w] = NoTask
  /\ backlog # <<>>
  /\ running' = [running EXCEPT ![w] = Head(backlog)]
  /\ backlog' = Tail(backlog)
  /\ UNCHANGED <<accepted, finished>> /\ open' = open

Finish(w) ==
  /\ running[w] # NoTask
  /\ finished' = finished \cup {running[w]}
  /\ running' = [running EXCEPT ![w] = NoTask]
  /\ UNCHANGED <<backlog, accepted>> /\ open' = open

Shutdown ==
  /\ open
  /\ accepted = finished
  /\ open' = FALSE
  /\ UNCHANGED <<backlog, running, accepted, finished>>

Next ==
  \/ \E t \in Tasks : Submit(t)
  \/ \E w \in Workers : Take(w) \/ Finish(w)
  \/ Shutdown

SafeSpec == Init /\ [][Next]_vars

(* A backlog is never left standing while a worker is idle, and tasks end. *)
Spec ==
  /\ SafeSpec
  /\ WF_vars(\E w \in Workers : Take(w))
  /\ \A w \in Workers : WF_vars(Finish(w))
===============================================================================
