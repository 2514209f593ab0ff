----------------------------- MODULE StockLedger -----------------------------
(***************************************************************************)
(* What the marketplace promises about shared inventory, without requests, *)
(* transactions, statuses or counters: a claim takes units of all the      *)
(* buckets of its offer or of none, moves from held to confirmed as a      *)
(* whole, and gives everything back at most once.  docs/data-model.md:     *)
(* "available -> held -> confirmed; expiry/cancel/refund reverses the      *)
(* appropriate quantity".                                                  *)
(***************************************************************************)
EXTENDS Integers, FiniteSets

CONSTANTS Claims, Offers, Buckets, Needs, Capacity, MaxQuantity

VARIABLES
    offerOf,    \* the offer each claim made so far is for
    holding,    \* the claims that hold units
    owning      \* the claims whose units are confirmed

ledger == <<offerOf, holding, owning>>

(* The units of bucket b that the claims in S occupy. *)
Occupied(S, b) ==
    {x \in S \X (1 .. MaxQuantity) : x[2] =< Needs[offerOf[x[1]]][b]}

Free(S, b) == Capacity[b] - Cardinality(Occupied(S, b))

Init == /\ offerOf = [c \in {} |-> {}]
        /\ holding = {}
        /\ owning = {}

(* A new claim takes its units, after some holds have given up theirs. *)
Hold(c, o, lapsed) ==
    /\ c \in Claims \ DOMAIN offerOf
    /\ lapsed \subseteq holding
    /\ \A b \in Buckets : Needs[o][b] =< Free((holding \ lapsed) \cup owning, b)
    /\ offerOf' = [d \in DOMAIN offerOf \cup {c} |-> IF d = c THEN o ELSE offerOf[d]]
    /\ holding' = (holding \ lapsed) \cup {c}
    /\ owning' = owning

Confirm(c) ==
    /\ c \in holding
    /\ holding' = holding \ {c}
    /\ owning' = owning \cup {c}
    /\ offerOf' = offerOf

(* Holds lapse, several at once, or one claim is cancelled. *)
Release(S) ==
    /\ S \subseteq holding \/ \E c \in owning : S = {c}
    /\ holding' = holding \ S
    /\ owning' = owning \ S
    /\ offerOf' = offerOf

Next ==
    \/ \E c \in Claims, o \in Offers : \E lapsed \in SUBSET holding : Hold(c, o, lapsed)
    \/ \E c \in holding : Confirm(c)
    \/ \E S \in SUBSET (holding \cup owning) : Release(S)

Spec == Init /\ [][Next]_ledger
=============================================================================
