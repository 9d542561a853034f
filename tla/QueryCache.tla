----------------------------- MODULE QueryCache -----------------------------
(***************************************************************************)
(* One TanStack query with a mounted observer, as the dashboard panels use *)
(* it through useQuery and invalidateQueries: the data it shows and the    *)
(* fetch that is under way.  The library is not part of the repository;    *)
(* frontend/app/providers.tsx configures it (staleTime 10 s, retry 1,      *)
(* refetchOnWindowFocus off).                                              *)
(*                                                                         *)
(* q.fetch is idle, sent (the server has not looked yet), part (the server *)
(* is between two reads) or read (the reply is on its way).                *)
(***************************************************************************)
CONSTANT Undefined

Query(Data, Reply) ==
    [data : Data \cup {Undefined}, fetch : {"idle", "sent", "part", "read"},
     reply : Reply \cup {Undefined}]

\* A panel that has just been mounted.
Mounted == [data |-> Undefined, fetch |-> "sent", reply |-> Undefined]

Unused == [data |-> Undefined, fetch |-> "idle", reply |-> Undefined]

Fetch(q) == [q EXCEPT !.fetch = "sent", !.reply = Undefined]

\* The first load, which invalidateQueries joins instead of cancelling it.
FirstLoad(q) == q.data = Undefined /\ q.fetch # "idle"

\* invalidateQueries refetches, and cancels the fetch that is under way.
Invalidate(q) == IF FirstLoad(q) THEN q ELSE Fetch(q)

\* The server's side of a fetch, in one read or in several.
Partly(q, reply) == [q EXCEPT !.fetch = "part", !.reply = reply]
Answer(q, reply) == [q EXCEPT !.fetch = "read", !.reply = reply]

Receive(q) == [data |-> q.reply, fetch |-> "idle", reply |-> Undefined]

\* The fetch and its retry have failed: the data stays.
GiveUp(q) == [q EXCEPT !.fetch = "idle", !.reply = Undefined]

=============================================================================
