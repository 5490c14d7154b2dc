----------------------------- MODULE QueryCache -----------------------------
(* One query of the client's cache (@tanstack/react-query), as far as the    *)
(* screens use it: a screen reads data, a running fetch is first served by   *)
(* the server (got is what it read) and arrives later; what a screen writes  *)
(* in between is overwritten by the arrival.                                 *)

\* A query that nothing has been loaded for; no stands for no data.
Unloaded(no) == [loaded |-> FALSE, data |-> no, fetch |-> "idle", got |-> no]

\* refetchQueries, invalidateQueries of a shown query: the running fetch is
\* abandoned and a new one starts; the first fetch of a query, while there is
\* no data, is joined instead.
Joins(q) == ~q.loaded /\ q.fetch # "idle"
Refetched(q) == IF Joins(q) THEN q ELSE [q EXCEPT !.fetch = "sent"]

\* cancelQueries, or the last screen that shows the query is closed.
Cancelled(q, no) == [q EXCEPT !.fetch = "idle", !.got = no]

\* The server's answer is under way.
Served(q, v) == [q EXCEPT !.fetch = "served", !.got = v]

\* It arrives.
Arrived(q, no) == [loaded |-> TRUE, data |-> q.got, fetch |-> "idle", got |-> no]

\* setQueryData: a running fetch goes on.
Written(q, v) == [q EXCEPT !.loaded = TRUE, !.data = v]

\* setQueryData with an updater that leaves a missing query alone.
Updated(q, v) == IF q.loaded THEN Written(q, v) ELSE q

Queries(D) == [loaded : BOOLEAN, data : D, fetch : {"idle", "sent", "served"}, got : D]
=============================================================================
