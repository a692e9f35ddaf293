------------------------------ MODULE OutbQueue ------------------------------
(***************************************************************************)
(* What the outbound message path promises to its users: a FIFO of at most *)
(* Cap messages which the fabric empties from the front, and a backlog of  *)
(* control packets that enter the FIFO in order when there is room.  The   *)
(* only loss is a channel abort, which drops the whole FIFO.               *)
(***************************************************************************)
EXTENDS Naturals, Sequences

CONSTANTS Msg, Cap, MaxBacklog
VARIABLES queue, backlog

Init == queue = << >> /\ backlog = << >>

Post(m) ==
    /\ Len(queue) < Cap
    /\ queue' = Append(queue, m)
    /\ UNCHANGED backlog

Defer(m) ==
    /\ Len(backlog) < MaxBacklog
    /\ backlog' = Append(backlog, m)
    /\ UNCHANGED queue

Promote(n) ==
    /\ Len(queue) + n <= Cap
    /\ queue' = queue \o SubSeq(backlog, 1, n)
    /\ backlog' = SubSeq(backlog, n + 1, Len(backlog))

Send ==
    /\ queue # << >>
    /\ queue' = Tail(queue)
    /\ UNCHANGED backlog

Abort ==
    /\ queue # << >>
    /\ queue' = << >>
    /\ UNCHANGED backlog

Next ==
    \/ \E m \in Msg : Post(m) \/ Defer(m)
    \/ \E n \in 1 .. Len(backlog) : Promote(n)
    \/ Send
    \/ Abort

Spec == Init /\ [][Next]_<<queue, backlog>>
=============================================================================
