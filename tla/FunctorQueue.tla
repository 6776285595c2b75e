---------------------------- MODULE FunctorQueue ----------------------------
(***************************************************************************)
(* What EventLoop promises about the functors given to queueInLoop: a      *)
(* first-in first-out queue from which the loop thread takes one functor   *)
(* at a time and runs it exactly once.  No thread, lock, eventfd or batch  *)
(* is visible here.                                                        *)
(***************************************************************************)
EXTENDS Sequences

CONSTANT Functors        \* the functor objects that may be queued

VARIABLES queue,         \* functors queued and not yet started
          done           \* functors started, in the order they were started

vars == <<queue, done>>

TypeOK ==
  /\ queue \in Seq(Functors)
  /\ done \in Seq(Functors)

Init ==
  /\ queue = <<>>
  /\ done = <<>>

Enqueue(f) ==
  /\ queue' = Append(queue, f)
  /\ UNCHANGED done

Start ==
  /\ queue # <<>>
  /\ done' = Append(done, Head(queue))
  /\ queue' = Tail(queue)

Next ==
  \/ \E f \in Functors : Enqueue(f)
  \/ Start

Spec == Init /\ [][Next]_vars
=============================================================================
