------------------------------- MODULE SendQueue -------------------------------
(***************************************************************************)
(* session::send from several threads: buffer_queue (bnet/base/queue.hpp), *)
(* the io_context's strand that carries a send from another thread, and    *)
(* the consumer send_t (bnet/base/transfer.hpp) of one tcp server session  *)
(* that is started once.                                                   *)
(*                                                                         *)
(* A send on the session's own thread enters the queue at once; one from   *)
(* any other thread is posted, and enters it when the strand runs it, even *)
(* after the session stopped. A message has a sender, a number, and is     *)
(* empty or not: the write of an empty one completes with 0 bytes, which   *)
(* dequeue takes for a failure of co_send.                                 *)
(***************************************************************************)
EXTENDS Naturals, Sequences, SequencesExt

CONSTANTS
  Owner,        \* the sender that runs on the session's io_context
  Other,        \* the senders on other threads
  MaxSend       \* bound on the messages of one sender

ASSUME QueueAssumption == Owner \notin Other /\ MaxSend \in Nat

VARIABLES
  started,      \* session::is_started()
  is_canceled,  \* buffer_queue::is_canceled_
  posted,       \* handlers of the strand, in order
  queue,        \* buffer_queue::queue_
  wire,         \* messages written
  sent,         \* number of messages sent, per sender
  send_t        \* where the consumer is

queueVars == <<started, is_canceled, posted, queue, wire, sent, send_t>>

Sender == {Owner} \cup Other
Message == [from : Sender, n : 1 .. MaxSend, empty : BOOLEAN]

\* "woken": the wait in dequeue was cancelled, send_t has not resumed. "writeOver":
\* the socket was closed under the write, which was done before or is aborted.
Loc == {"posted", "writing", "writeOver", "timer", "woken", "done"}

\* The session was just started, transfer_start has run.
QueueInit ==
  /\ started = TRUE /\ is_canceled = FALSE
  /\ posted = <<>> /\ queue = <<>> /\ wire = <<>>
  /\ sent = [i \in Sender |-> 0]
  /\ send_t = "posted"

-----------------------------------------------------------------------------
\* enqueue on the session's thread, and its cancel_one. Mutant: it wakes nobody.
PushSilent(m) == queue' = Append(queue, m) /\ UNCHANGED send_t
Push(m) ==
  /\ queue' = Append(queue, m)
  /\ send_t' = IF send_t = "timer" THEN "woken" ELSE send_t

Send(i, empty) ==
  LET m == [from |-> i, n |-> sent[i] + 1, empty |-> empty]
  IN /\ sent[i] < MaxSend
     /\ sent' = [sent EXCEPT ![i] = @ + 1]
     /\ \/ i = Owner /\ Push(m) /\ UNCHANGED posted
        \/ i # Owner /\ posted' = Append(posted, m) /\ UNCHANGED <<queue, send_t>>
     /\ UNCHANGED <<started, is_canceled, wire>>

\* The strand runs its next handler. Mutant: the handlers run in any order, as they
\* may when they are posted to a pool of threads.
RunAnyPosted ==
  /\ \E k \in DOMAIN posted : Push(posted[k]) /\ posted' = RemoveAt(posted, k)
  /\ UNCHANGED <<started, is_canceled, wire, sent>>
RunPosted ==
  /\ posted # <<>>
  /\ Push(Head(posted))
  /\ posted' = Tail(posted)
  /\ UNCHANGED <<started, is_canceled, wire, sent>>

-----------------------------------------------------------------------------
\* Where dequeue suspends when q is queued: co_send refuses when the session is not
\* started, and an empty queue, a refusal and a failure all end in the wait, unless
\* the queue was cancelled.
Dequeue(q) ==
  IF q # <<>> /\ started THEN "writing" ELSE IF is_canceled THEN "done" ELSE "timer"

\* while (is_started()) dequeue().
Loop ==
  /\ send_t \in {"posted", "woken"}
  /\ send_t' = IF started THEN Dequeue(queue) ELSE "done"
  /\ UNCHANGED <<started, is_canceled, posted, queue, wire, sent>>

\* The write of the front succeeded. Nothing was sent of an empty message: it stays
\* at the front, and dequeue waits for the next wake-up.
Written ==
  /\ send_t \in {"writing", "writeOver"}
  /\ IF Head(queue).empty
     THEN /\ send_t' = IF is_canceled THEN "done" ELSE "timer"
          /\ UNCHANGED <<queue, wire>>
     ELSE /\ queue' = Tail(queue)
          /\ wire' = Append(wire, Head(queue))
          /\ send_t' = Dequeue(queue')
  /\ UNCHANGED <<started, is_canceled, posted, sent>>

\* Mutant: uninit sets the flag but does not cancel the timer.
TeardownTimer ==
  /\ started' = FALSE
  /\ is_canceled' = TRUE
  /\ send_t' = IF send_t = "writing" THEN "writeOver" ELSE send_t

\* co_stop of a started session: uninit, and the socket is closed.
Teardown ==
  /\ started' = FALSE
  /\ is_canceled' = TRUE
  /\ send_t' = CASE send_t = "writing" -> "writeOver"
                 [] send_t = "timer"   -> "woken"
                 [] OTHER              -> send_t

\* A stop, or recv_t at the end of the stream.
Stop ==
  /\ started
  /\ Teardown
  /\ UNCHANGED <<posted, queue, wire, sent>>

\* The write failed: co_send stops the session, its message stays in the queue.
WriteFails ==
  /\ send_t \in {"writing", "writeOver"}
  /\ started' = FALSE
  /\ is_canceled' = TRUE
  /\ send_t' = "done"
  /\ UNCHANGED <<posted, queue, wire, sent>>

QueueNext ==
  \/ \E i \in Sender, empty \in BOOLEAN : Send(i, empty)
  \/ RunPosted \/ Loop \/ Written \/ WriteFails \/ Stop

\* The io_context runs its strand and what is ready, and the peer reads on.
QueueFairness ==
  WF_queueVars(RunPosted) /\ WF_queueVars(Loop) /\ WF_queueVars(Written \/ WriteFails)

QueueSpec == QueueInit /\ [][QueueNext]_queueVars
FairQueueSpec == QueueSpec /\ QueueFairness

-----------------------------------------------------------------------------
QueueTypeOK ==
  /\ started \in BOOLEAN /\ is_canceled \in BOOLEAN
  /\ {posted, queue, wire} \subseteq Seq(Message)
  /\ sent \in [Sender -> 0 .. MaxSend]
  /\ send_t \in Loc

\* Every message there is, the first to arrive first.
Line == wire \o queue \o posted

\* What a sender sent stays in the order it was sent, and nothing of it is lost or
\* written twice: it is written, queued or still on its way through the strand.
\* Between senders there is no order.
SenderOrder ==
  /\ \A j, k \in DOMAIN Line :
       j < k /\ Line[j].from = Line[k].from => Line[j].n < Line[k].n
  /\ \A i \in Sender :
       \A n \in 1 .. MaxSend :
         n <= sent[i] <=> \E k \in DOMAIN Line : Line[k].from = i /\ Line[k].n = n

\* send_t never waits on a queue that was cancelled, where nothing would wake it
\* but a send to a dead session; and it waits on a queue that is not empty only
\* behind an empty message.
WaitsForASend ==
  send_t = "timer" => /\ ~ is_canceled
                      /\ queue = <<>> \/ Head(queue).empty

\* The inductive invariant: the session's messages bear their sender's numbers, only
\* other threads use the strand, the flag follows the state, and there is something
\* to write while send_t writes.
QueueIInv ==
  /\ QueueTypeOK
  /\ SenderOrder
  /\ WaitsForASend
  /\ is_canceled = ~ started
  /\ \A k \in DOMAIN posted : posted[k].from # Owner
  /\ send_t \in {"writing", "writeOver"} => queue # <<>>

Pending(m) == m \in ToSet(queue) \cup ToSet(posted)
Blocked == \E m \in ToSet(queue) : m.empty

\* A message that was sent is written, unless the session stops or an empty message
\* is in the queue: that one is never popped, and blocks all that follow it.
Delivered ==
  \A i \in Sender, k \in 1 .. MaxSend :
    LET m == [from |-> i, n |-> k, empty |-> FALSE]
    IN Pending(m) ~> m \in ToSet(wire) \/ ~ started \/ Blocked
=============================================================================
