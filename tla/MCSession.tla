------------------------------ MODULE MCSession ------------------------------
(* Session with two globals of one interface and handlers of every kind.     *)
EXTENDS Session, TLC

CONSTANTS hIface, hAll, hRemove, a, b

FirstSeat == [name |-> 1, iface |-> "seat", version |-> 2]
SeatOffers == {FirstSeat, [name |-> 2, iface |-> "seat", version |-> 1]}

HandlerKinds == (hIface :> "seat") @@ (hAll :> "*") @@ (hRemove :> "remove")
\* Watching the registry while another goroutine dispatches; binding in the
\* same way; waiting with and without company; waiting for a global.
Plans ==
  { [calls |-> (a :> {"watch"}) @@ (b :> {"dispatch"}), offers |-> SeatOffers],
    [calls |-> (a :> {"bind", "bindID"}) @@ (b :> {"dispatch"}), offers |-> SeatOffers],
    [calls |-> (a :> {"sync", "frame", "runtill"}) @@ (b :> {"dispatch", "roundtrip"}), offers |-> {}],
    [calls |-> (a :> {"roundtrip"}) @@ (b :> {"dispatch"}), offers |-> SeatOffers],
    [calls |-> (a :> {"roundtrip"}) @@ (b :> {"roundtrip"}), offers |-> {FirstSeat}] }

AllHandlers == {hIface, hAll, hRemove}
=============================================================================
