------------------------------- MODULE IDLease -------------------------------
(***************************************************************************)
(* What the ID allocator and the zombies promise together: an object ID is *)
(* a lease.  The client takes a free ID, the compositor creates an object  *)
(* under it and later destroys that object, and the client may take the ID *)
(* again only when it has learned so from delete_id.  No locks, no tables  *)
(* and no messages: those are ObjectLifecycle's way of keeping the promise. *)
(***************************************************************************)
CONSTANT ID   \* the IDs of the client's range that allocateID hands out

VARIABLES
  client,     \* the client's view: "free", or "held" by a proxy or a zombie
  server,     \* the compositor's: "absent", "present", or "deleted" (delete_id is on its way)
  open        \* FALSE: the client has stopped to process events

leaseVars == <<client, server, open>>

Init ==
  /\ client = [i \in ID |-> "free"]
  /\ server = [i \in ID |-> "absent"]
  /\ open = TRUE

Take(i) ==
  /\ client[i] = "free" /\ server[i] = "absent"
  /\ client' = [client EXCEPT ![i] = "held"]
  /\ UNCHANGED <<server, open>>

\* The compositor creates an object only under an ID the client holds and the
\* compositor has no other use for.
Create(i) ==
  /\ client[i] = "held" /\ server[i] = "absent"
  /\ server' = [server EXCEPT ![i] = "present"]
  /\ UNCHANGED <<client, open>>

Destroy(i) ==
  /\ server[i] = "present"
  /\ server' = [server EXCEPT ![i] = "deleted"]
  /\ UNCHANGED <<client, open>>

\* The lease ends: the one way for an ID to become free.
GiveBack(i) ==
  /\ client[i] = "held" /\ server[i] = "deleted"
  /\ client' = [client EXCEPT ![i] = "free"]
  /\ server' = [server EXCEPT ![i] = "absent"]
  /\ UNCHANGED open

\* A client that is being closed may throw a delete_id away; the ID is lost.
Close == open /\ open' = FALSE /\ UNCHANGED <<client, server>>

Lose(i) ==
  /\ ~open /\ server[i] = "deleted"
  /\ server' = [server EXCEPT ![i] = "absent"]
  /\ UNCHANGED <<client, open>>

Next ==
  \/ Close
  \/ \E i \in ID : Take(i) \/ Create(i) \/ Destroy(i) \/ GiveBack(i) \/ Lose(i)

Spec == Init /\ [][Next]_leaseVars

-----------------------------------------------------------------------------

\* An ID the client regards as free is unknown to the compositor, and no
\* message about it is on its way.
FreeMeansUnknown == \A i \in ID : client[i] = "free" => server[i] = "absent"
=============================================================================
