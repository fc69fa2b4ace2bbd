----------------------------- MODULE Replication -----------------------------
(***************************************************************************)
(* What the whole system promises, without mutexes, batches, pages,        *)
(* messages or failures: devices write events at any time; the server puts *)
(* what was written into one stream, once and for good; and what a device  *)
(* has of the other devices' events is always a prefix of that stream.  A  *)
(* device that restarts forgets everything and starts over.                *)
(*                                                                         *)
(* OfflineSync implements it (OfflineSync!R).                              *)
(***************************************************************************)
EXTENDS EventLog

VARIABLES
  written,   \* every event a device has written
  stream,    \* the server's numbering of those it has stored
  view,      \* the events each device has
  seen       \* how far in the stream each device is

vars == <<written, stream, view, seen>>

Init ==
  /\ written = {}
  /\ stream = EmptyLog
  /\ view = [d \in Devices |-> {}]
  /\ seen = [d \in Devices |-> 0]

\* The events of the stream after `from`, up to `to`.
Section(from, to) == {e \in DOMAIN stream : from < stream[e] /\ stream[e] <= to}

\* d writes an event of its own, which it has from then on.
Write(d) ==
  \E e \in Event :
    /\ e.replica_id = d
    /\ \A f \in written : f.replica_event_id # e.replica_event_id
    /\ written' = written \cup {e}
    /\ view' = [view EXCEPT ![d] = @ \cup {e}]
    /\ UNCHANGED <<stream, seen>>

\* Events written by one device get the next numbers of the stream.
Publish ==
  LET new == DOMAIN stream' \ DOMAIN stream IN
  /\ Dense(stream')
  /\ \A e \in DOMAIN stream : e \in DOMAIN stream' /\ stream'[e] = stream[e]
  /\ new \subseteq written
  /\ \A e, f \in new : e.replica_id = f.replica_id
  /\ UNCHANGED <<written, view, seen>>

\* d takes the next section of the stream, all of it.
Take(d) ==
  /\ \E n \in (seen[d] + 1) .. Cardinality(DOMAIN stream) :
       /\ seen' = [seen EXCEPT ![d] = n]
       /\ view' = [view EXCEPT ![d] = @ \cup Section(seen[d], n)]
  /\ UNCHANGED <<written, stream>>

\* d restarts.
Forget(d) ==
  /\ view' = [view EXCEPT ![d] = {}]
  /\ seen' = [seen EXCEPT ![d] = 0]
  /\ UNCHANGED <<written, stream>>

Next == Publish \/ \E d \in Devices : Write(d) \/ Take(d) \/ Forget(d)

Spec == Init /\ [][Next]_vars

\* Of the other devices' events a device has exactly those the stream holds up to
\* where it is: none is skipped, none comes early, none is made up (pull, append).
SeesPrefix ==
  \A d \in Devices : \A e \in Event :
    e.replica_id # d =>
      (e \in view[d] <=> e \in DOMAIN stream /\ stream[e] <= seen[d])
=============================================================================
