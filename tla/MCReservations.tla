---------------------------- MODULE MCReservations ----------------------------
(* Instances of Reservations for TLC.  Time is counted in half hours: the  *)
(* show and the boat overlap, the dinner follows the show, the room is one *)
(* bucket from check-in to checkout, and the bundle is two seats of the    *)
(* show with a dinner.                                                     *)
EXTENDS Reservations, TLC

CONSTANTS u1, u2, k1, k2, w1, w2, show, boat, dinner, room,
          bookShow, bookBoat, bookStay, bookBundle

AllBuckets == {show, boat, dinner, room}

BucketBegins   == (show :> 2) @@ (boat :> 2) @@ (dinner :> 3) @@ (room :> 1)
BucketFinishes == (show :> 3) @@ (boat :> 4) @@ (dinner :> 5) @@ (room :> 4)

(* There is room for two bundles, with a seat of the show to spare.        *)
Places == (show :> 5) @@ (boat :> 1) @@ (dinner :> 2) @@ (room :> 1)

Units == [o \in Offers |->
            [b \in AllBuckets |->
                CASE o = bookShow   /\ b = show   -> 1
                  [] o = bookBoat   /\ b = boat   -> 1
                  [] o = bookStay   /\ b = room   -> 1
                  [] o = bookBundle /\ b = show   -> 2
                  [] o = bookBundle /\ b = dinner -> 1
                  [] OTHER -> 0]]

Closes == [o \in Offers |->
            CASE o \in {bookShow, bookBoat, bookBundle} -> 2
              [] o = bookStay -> 1]

Symmetry == Permutations(Keys) \cup Permutations(Workers) \cup Permutations(Users)
=============================================================================
