------------------------------- MODULE Claims -------------------------------
(***************************************************************************)
(* What de-duplication promises (services/dedup.py): "the database         *)
(* arbitrates".  A batch that commits claims, in one indivisible step, the *)
(* keys of its rows that nobody claimed before; a batch that does not      *)
(* commit claims nothing.  This is the step the pipeline takes for granted *)
(* when it writes a whole batch at once.                                   *)
(***************************************************************************)
CONSTANTS Txn,     \* batch transactions
          KeysOf   \* the dedup keys among the rows of each transaction

VARIABLES ledger,      \* keys claimed so far
          committed,   \* transactions that have committed
          claims       \* the keys each of them claimed

vars == <<ledger, committed, claims>>

Init ==
    /\ ledger = {}
    /\ committed = {}
    /\ claims = [t \in Txn |-> {}]

Claim(t) ==
    /\ t \notin committed
    /\ committed' = committed \union {t}
    /\ claims' = [claims EXCEPT ![t] = KeysOf[t] \ ledger]
    /\ ledger' = ledger \union KeysOf[t]

Next == \E t \in Txn : Claim(t)

Spec == Init /\ [][Next]_vars
=============================================================================
