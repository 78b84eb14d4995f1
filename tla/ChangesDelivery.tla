--------------------------- MODULE ChangesDelivery ---------------------------
(***************************************************************************)
(* What a changes feed promises a client that makes one request after the  *)
(* other, each from the last identifier it was sent: every change of a     *)
(* channel the user can read is delivered at least once, unless it is      *)
(* given up in one of the races ChangesFeed names.                         *)
(*                                                                         *)
(* A change is a pair of a channel and a sequence; the client knows        *)
(* sequences only.                                                         *)
(***************************************************************************)
VARIABLES
    due,        \* changes of the user's channels, those yet to arrive included
    covered,    \* changes a request from the client's position leaves out
    delivered,  \* sequences the client has received
    givenUp     \* sequences lost to a race

(* The promise: what a new request would leave out has been dealt with.    *)
Settled(d, c, r, g) == {x[2] : x \in c \cap d} \subseteq r \cup g

Init ==
    /\ covered \cap due = {}
    /\ delivered = {} /\ givenUp = {}

(* A sequence turns out to belong to other channels, or to none; access is *)
(* granted or revoked.                                                     *)
ChangeDue ==
    /\ UNCHANGED delivered
    /\ givenUp \subseteq givenUp'
    /\ Settled(due', covered', delivered, givenUp')

(* One sequence is delivered and the client's position moves.              *)
Deliver ==
    /\ UNCHANGED due
    /\ \E s \in delivered' : delivered' = delivered \cup {s}
    /\ givenUp \subseteq givenUp'
    /\ Settled(due, covered', delivered', givenUp')

(* A change is lost: it stays due, and no later request is bound to it.    *)
GiveUp ==
    /\ UNCHANGED <<due, covered, delivered>>
    /\ givenUp \subseteq givenUp'

Next == ChangeDue \/ Deliver \/ GiveUp

Spec == Init /\ [][Next]_<<due, covered, delivered, givenUp>>
=============================================================================
