---------------------------- MODULE AttemptLedger ----------------------------
(***************************************************************************)
(* What the durable provisioning attempts promise, without the phases that *)
(* keep the promise: attempts are opened one at a time, asked for at most  *)
(* one volume and at most one machine while they are open, and never       *)
(* reopened.  Provisioning implements this specification.                  *)
(***************************************************************************)
EXTENDS Naturals

CONSTANT Runs

VARIABLE ledger   \* per run: its state, and the volumes and machines asked for

NewEntry == [state |-> "new", volumes |-> 0, machines |-> 0]

LedgerInit == ledger = [i \in Runs |-> NewEntry]

Open(i) ==
    /\ ledger[i].state = "new" /\ \A j \in Runs : ledger[j].state # "open"
    /\ ledger' = [ledger EXCEPT ![i].state = "open"]

AskVolume(i) ==
    /\ ledger[i].state = "open" /\ ledger[i].volumes = 0
    /\ ledger' = [ledger EXCEPT ![i].volumes = 1]

AskMachine(i) ==
    /\ ledger[i].state = "open" /\ ledger[i].machines = 0
    /\ ledger' = [ledger EXCEPT ![i].machines = 1]

Close(i) ==
    /\ ledger[i].state = "open"
    /\ ledger' = [ledger EXCEPT ![i].state = "closed"]

LedgerNext == \E i \in Runs : Open(i) \/ AskVolume(i) \/ AskMachine(i) \/ Close(i)

LedgerSpec == LedgerInit /\ [][LedgerNext]_ledger
=============================================================================
