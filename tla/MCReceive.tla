------------------------------ MODULE MCReceive ------------------------------
(* Instances of Receive for TLC: the kinds of messages that are sent. *)
EXTENDS Receive, TLC

CONSTANTS r1, r2, c1

Plain    == [to |-> "object", size |-> 2, valid |-> TRUE, declared |-> 0, carried |-> 0]
WithFD   == [to |-> "object", size |-> 3, valid |-> TRUE, declared |-> 1, carried |-> 1]
TwoFDs   == [to |-> "object", size |-> 2, valid |-> TRUE, declared |-> 2, carried |-> 2]
ToZombie == [to |-> "zombie", size |-> 2, valid |-> TRUE, declared |-> 1, carried |-> 1]
DeleteID == [to |-> "display", size |-> 3, valid |-> TRUE, declared |-> 0, carried |-> 0]
ErrorEv  == [to |-> "display_error", size |-> 3, valid |-> TRUE, declared |-> 0, carried |-> 0]
ShortID  == [to |-> "display", size |-> 2, valid |-> FALSE, declared |-> 0, carried |-> 0]
Unknown  == [to |-> "unknown", size |-> 2, valid |-> TRUE, declared |-> 0, carried |-> 0]
BadBody  == [to |-> "object", size |-> 2, valid |-> FALSE, declared |-> 1, carried |-> 1]
BadSize  == [to |-> "malformed", size |-> 2, valid |-> FALSE, declared |-> 0, carried |-> 0]
Surplus  == [to |-> "object", size |-> 2, valid |-> TRUE, declared |-> 0, carried |-> 1]
Missing  == [to |-> "object", size |-> 2, valid |-> TRUE, declared |-> 1, carried |-> 0]

\* What a correct compositor sends, and the rest.
ValidKinds == {WithFD, ToZombie, DeleteID}
TwoKinds == {Plain, WithFD}
AnyKinds == {WithFD, TwoFDs, ErrorEv, Unknown, BadBody, BadSize, Surplus, Missing, ShortID}
ErrorKinds == {Plain, Unknown}

Symmetry == Permutations(Reader)
=============================================================================
