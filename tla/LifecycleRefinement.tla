------------------------- MODULE LifecycleRefinement -------------------------
(* ObjectLifecycle keeps the promise of IDLease: the refinement mapping.     *)
EXTENDS ObjectLifecycle

LeasedID == registryID + 1 .. ServerBase - 1

\* The client regards an ID as free when allocateID may return it.
clientView ==
  [i \in LeasedID |-> IF i \in retiredIDs \/ i >= nextID THEN "free" ELSE "held"]

\* A delete_id is on its way while it is in the socket, and while Dispatch
\* holds it and has not freed the ID.
DeleteOnItsWay(i) ==
  \/ \E k \in 1 .. Len(fromServer) : fromServer[k].kind = "delete_id" /\ fromServer[k].id = i
  \/ dsp.pc # "idle" /\ dsp.ev.kind = "delete_id" /\ dsp.ev.id = i

serverView ==
  [i \in LeasedID |-> IF resource[i] # NoProxy THEN "present"
                      ELSE IF DeleteOnItsWay(i) THEN "deleted" ELSE "absent"]

Lease == INSTANCE IDLease
           WITH ID <- LeasedID, client <- clientView, server <- serverView, open <- ~closed

\* allocateID, the zombies and handleDisplayEvent's delete_id together treat
\* IDs as leases: whatever the goroutines, the compositor and failing writes
\* do, every step takes, creates, destroys or gives back at most one ID, in
\* that order, and a free ID is never one the compositor still knows.
ImplementsIDLease == Lease!Spec
=============================================================================
