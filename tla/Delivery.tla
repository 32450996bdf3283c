------------------------------ MODULE Delivery ------------------------------
(***************************************************************************)
(* What a file transfer promises, without connections, retries, partial    *)
(* files or crashes: a job announces contents, one of them may be attested *)
(* by a receipt, an attested file may be shown at the destination when it  *)
(* is free, and a job may be told that it succeeded only while its own     *)
(* attested file is what the destination shows.                            *)
(***************************************************************************)
CONSTANTS Jobs, None

VARIABLES
    attested,   \* the contents each job has announced the digest of
    receipt,    \* the contents a receipt stands for, or None
    final,      \* the file at the destination, or None
    outcome     \* what each job was told

deliveryVars == <<attested, receipt, final, outcome>>

Init ==
    /\ attested = [j \in Jobs |-> {}]
    /\ receipt = [j \in Jobs |-> None]
    /\ final = None
    /\ outcome = [j \in Jobs |-> "pending"]

Announce(j) ==
    /\ outcome[j] = "pending"
    /\ attested[j] \subseteq attested'[j]
    /\ attested' = [attested EXCEPT ![j] = attested'[j]]
    /\ UNCHANGED <<receipt, final, outcome>>

Attest(j) ==
    /\ receipt[j] = None
    /\ receipt'[j] \in attested[j]
    /\ receipt' = [receipt EXCEPT ![j] = receipt'[j]]
    /\ UNCHANGED <<attested, final, outcome>>

Show(j) ==
    /\ final = None
    /\ receipt[j] # None
    /\ final' = receipt[j]
    /\ UNCHANGED <<attested, receipt, outcome>>

Succeed(j) ==
    /\ outcome[j] = "pending"
    /\ receipt[j] # None
    /\ final = receipt[j]
    /\ outcome' = [outcome EXCEPT ![j] = "success"]
    /\ UNCHANGED <<attested, receipt, final>>

Fail(j) ==
    /\ outcome[j] = "pending"
    /\ outcome' = [outcome EXCEPT ![j] = "failure"]
    /\ UNCHANGED <<attested, receipt, final>>

Next == \E j \in Jobs :
            Announce(j) \/ Attest(j) \/ Show(j) \/ Succeed(j) \/ Fail(j)

Spec == Init /\ [][Next]_deliveryVars
=============================================================================
