------------------------------- MODULE Mailbox -------------------------------
(***************************************************************************)
(* What EventLoop::runInLoop promises the workers: a functor handed over   *)
(* is run by the IO thread exactly once, after those handed over before    *)
(* it, for as long as the loop runs.                                       *)
(***************************************************************************)
EXTENDS Sequences

CONSTANT Functors

VARIABLES inbox,     \* handed over and not run, oldest first
          executed,  \* the functors run so far
          closed     \* TRUE once the loop has returned

vars == <<inbox, executed, closed>>

Init == inbox = <<>> /\ executed = {} /\ closed = FALSE

Post(f) ==
  /\ \A i \in DOMAIN inbox : inbox[i] # f
  /\ f \notin executed
  /\ inbox' = Append(inbox, f)
  /\ executed' = executed /\ closed' = closed

Deliver ==
  /\ ~closed /\ inbox # <<>>
  /\ executed' = executed \cup {Head(inbox)}
  /\ inbox' = Tail(inbox)
  /\ closed' = closed

Close == ~closed /\ closed' = TRUE /\ UNCHANGED <<inbox, executed>>

Next == (\E f \in Functors : Post(f)) \/ Deliver \/ Close

SafeSpec == Init /\ [][Next]_vars

Spec == SafeSpec /\ WF_vars(Deliver)
==============================================================================
