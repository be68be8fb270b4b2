---------------------------- MODULE BoundedFifo ----------------------------
(***************************************************************************)
(* What the C host request queue promises to its two users, the host       *)
(* callbacks that push and the drain that takes (qjs_host_queue.h:35-43):  *)
(* a first-in first-out queue of at most Cap requests whose ids count up   *)
(* from 1, that says "overload" with id 0 instead of blocking or dropping. *)
(***************************************************************************)
EXTENDS Naturals, Sequences

CONSTANTS Cap,        \* how many requests may be outstanding
          Payloads,   \* the argument buffers a request can carry
          NoPayload   \* the NULL buffer

VARIABLES queue,      \* the requests, oldest first
          issued,     \* the last id handed out
          ret,        \* what the last operation returned
          open        \* FALSE once the queue is destroyed

fifoVars == <<queue, issued, ret, open>>

Nothing == [id |-> 0, payload |-> NoPayload]

Init ==
  /\ queue = <<>>
  /\ issued = 0
  /\ ret = Nothing
  /\ open = TRUE

Push(p) ==
  /\ open = TRUE
  /\ Len(queue) < Cap
  /\ queue' = Append(queue, [id |-> issued + 1, payload |-> p])
  /\ issued' = issued + 1
  /\ ret' = [id |-> issued + 1, payload |-> NoPayload]
  /\ UNCHANGED open

Overload ==
  /\ open = TRUE
  /\ Len(queue) = Cap
  /\ ret' = Nothing
  /\ UNCHANGED <<queue, issued, open>>

Take ==
  /\ open = TRUE
  /\ queue # <<>>
  /\ ret' = Head(queue)
  /\ queue' = Tail(queue)
  /\ UNCHANGED <<issued, open>>

TakeNothing ==
  /\ open = TRUE
  /\ queue = <<>>
  /\ ret' = Nothing
  /\ UNCHANGED <<queue, issued, open>>

Close ==
  /\ open = TRUE
  /\ queue' = <<>>
  /\ issued' = 0
  /\ ret' = Nothing
  /\ open' = FALSE

Next ==
  \/ \E p \in Payloads : Push(p)
  \/ Overload
  \/ Take
  \/ TakeNothing
  \/ Close

Spec == Init /\ [][Next]_fifoVars
=============================================================================
