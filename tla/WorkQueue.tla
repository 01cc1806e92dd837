------------------------------ MODULE WorkQueue ------------------------------
(***************************************************************************)
(* The rate limiting work queue of k8s.io/client-go (external), as both    *)
(* controllers use it: Add, Get, Done, AddRateLimited and AddAfter.        *)
(*                                                                         *)
(*   queue       items a Get can return, in order                          *)
(*   dirty       items that still have to be processed                     *)
(*   processing  items a Get has returned and no Done has given back       *)
(*   waiting     items whose delay (rate limit or AddAfter) runs           *)
(*                                                                         *)
(* An item added while it is in processing waits in dirty until its Done.  *)
(* The length of a delay is left open: DelayElapsed may happen at any      *)
(* time. Forget only resets the length of the next delay, so it has no     *)
(* counterpart here.                                                       *)
(***************************************************************************)
EXTENDS Sequences

EmptyQueue == [queue |-> <<>>, dirty |-> {}, processing |-> {}, waiting |-> {}]

Add(q, k) ==
  IF k \in q.dirty
  THEN q
  ELSE [q EXCEPT !.dirty = @ \cup {k},
                 !.queue = IF k \in q.processing THEN @ ELSE Append(@, k)]

\* Only for a queue that is not empty: Get blocks on an empty one.
Get(q) ==
  [q EXCEPT !.queue = Tail(@),
            !.dirty = @ \ {Head(q.queue)},
            !.processing = @ \cup {Head(q.queue)}]

Done(q, k) ==
  [q EXCEPT !.processing = @ \ {k},
            !.queue = IF k \in q.dirty THEN Append(@, k) ELSE @]

\* AddRateLimited (or AddAfter with a positive delay) of every item of ks.
AddDelayed(q, ks) == [q EXCEPT !.waiting = @ \cup ks]

DelayElapsed(q, k) == Add([q EXCEPT !.waiting = @ \ {k}], k)
==============================================================================
