---------------------------- MODULE Provisioning ----------------------------
(***************************************************************************)
(* The control plane's provisioning outbox: binding a person to an         *)
(* application, the commands that do it, their retries and the conflict    *)
(* centre (controlplane.service.ts, app-adapter.service.ts), for one       *)
(* application of one tenant.                                              *)
(*                                                                         *)
(* A handler is one READ COMMITTED transaction.  It is cut after its       *)
(* reads; its writes, from the first row lock on, are one step.            *)
(***************************************************************************)
EXTENDS Naturals

CONSTANTS
    Clients,    \* requests that may be in flight at the same time
    People,
    Ids,        \* primary keys a command may get
    Keys,       \* idempotency keys
    FailUntil   \* attempt from which a transient failure is over

ASSUME FailUntilAssumption == FailUntil \in Nat \ {0}

VARIABLES
    app,        \* TenantApplicationInstance.status
    binding,    \* binding[p]: AppAccountBinding.status, "none" without a row
    cmd,        \* cmd[i]: the ProvisioningCommand row i, or NoCommand
    conflicts,  \* commands with a ProvisioningConflict row
    tx          \* tx[c]: what the handler of client c has read

vars == <<app, binding, cmd, conflicts, tx>>

-----------------------------------------------------------------------------
(* What the payload makes the adapter do: succeed, fail for some attempts, *)
(* or report that the account exists.                                      *)
Payloads == {"plain", "transient", "existing"}

(* AppAdapterService.provision and the status its outcome gives. *)
Provision(payload, attempt) ==
    CASE payload = "existing" -> "conflict"
      [] payload = "transient" /\ attempt < FailUntil -> "failed"
      [] OTHER -> "completed"

NoCommand == [status |-> "none"]
Command(p, k, pay, s, n) ==
    [person |-> p, key |-> k, payload |-> pay, status |-> s, attempts |-> n]

Rows == {i \in Ids : cmd[i] # NoCommand}
Unused(k) == \A i \in Rows : cmd[i].key # k

BindingAfter(s) == IF s = "completed" THEN "active" ELSE s

Idle == [op |-> "idle"]
Done(c) == tx' = [tx EXCEPT ![c] = Idle]

setTenantApplication(s) ==
    /\ app' = s
    /\ UNCHANGED <<binding, cmd, conflicts, tx>>

(* createBinding, the reads: a known key is replayed, which changes        *)
(* nothing; the application must be enabled; is the binding active?        *)
BindRead(c, p, k, pay) ==
    /\ tx[c] = Idle
    /\ Unused(k)
    /\ app = "enabled"
    /\ tx' = [tx EXCEPT ![c] = [op |-> IF binding[p] = "active" THEN "duplicate" ELSE "fresh",
                                person |-> p, key |-> k, payload |-> pay]]
    /\ UNCHANGED <<app, binding, cmd, conflicts>>

(* Mutant: the conflict centre is not told. *)
BindDuplicateSilent(c, i) ==
    LET t == tx[c] IN
    /\ t.op = "duplicate"
    /\ cmd[i] = NoCommand /\ Unused(t.key)
    /\ cmd' = [cmd EXCEPT ![i] = Command(t.person, t.key, t.payload, "conflict", 0)]
    /\ Done(c)
    /\ UNCHANGED <<app, binding, conflicts>>

(* The person is already bound: a command in conflict and its record. *)
BindDuplicate(c, i) ==
    LET t == tx[c] IN
    /\ t.op = "duplicate"
    /\ cmd[i] = NoCommand /\ Unused(t.key)
    /\ cmd' = [cmd EXCEPT ![i] = Command(t.person, t.key, t.payload, "conflict", 0)]
    /\ conflicts' = conflicts \cup {i}
    /\ Done(c)
    /\ UNCHANGED <<app, binding>>

(* Mutant: a failed attempt leaves the binding as it was. *)
ExecuteKeepsBinding(i, row, attempt) ==
    LET s == Provision(row.payload, attempt) IN
    /\ cmd' = [cmd EXCEPT ![i] = Command(row.person, row.key, row.payload, s, attempt)]
    /\ binding' = [binding EXCEPT ![row.person] = IF s = "completed" THEN "active" ELSE @]
    /\ conflicts' = IF s = "conflict" THEN conflicts \cup {i} ELSE conflicts

(* executeCommand on row i: the command and the binding take the outcome,  *)
(* whatever another command has made of the binding.                       *)
Execute(i, row, attempt) ==
    LET s == Provision(row.payload, attempt) IN
    /\ cmd' = [cmd EXCEPT ![i] = Command(row.person, row.key, row.payload, s, attempt)]
    /\ binding' = [binding EXCEPT ![row.person] = BindingAfter(s)]
    /\ conflicts' = IF s = "conflict" THEN conflicts \cup {i} ELSE conflicts

(* A fresh binding: pending row, pending command, execution, commit. *)
BindFresh(c, i) ==
    LET t == tx[c] IN
    /\ t.op = "fresh"
    /\ cmd[i] = NoCommand /\ Unused(t.key)
    /\ Execute(i, Command(t.person, t.key, t.payload, "pending", 0), 1)
    /\ Done(c)
    /\ UNCHANGED app

(* retryCommand: any command that is not completed. *)
RetryRead(c, i) ==
    /\ tx[c] = Idle
    /\ i \in Rows /\ cmd[i].status # "completed"
    /\ tx' = [tx EXCEPT ![c] = [op |-> "retry", id |-> i]]
    /\ UNCHANGED <<app, binding, cmd, conflicts>>

(* executeCommand reads the row again, for its attempts (counted up to     *)
(* FailUntil), and does not look at its status.                            *)
RetryLoad(c) ==
    LET t == tx[c] IN
    /\ t.op = "retry"
    /\ tx' = [tx EXCEPT ![c] =
        [op |-> "execute", id |-> t.id,
         attempt |-> IF cmd[t.id].attempts < FailUntil THEN cmd[t.id].attempts + 1 ELSE FailUntil]]
    /\ UNCHANGED <<app, binding, cmd, conflicts>>

RetryExecute(c) ==
    LET t == tx[c] IN
    /\ t.op = "execute"
    /\ Execute(t.id, cmd[t.id], t.attempt)
    /\ Done(c)
    /\ UNCHANGED app

(* A key that was taken meanwhile, the transaction limit, or a crash. *)
Rollback(c) ==
    /\ tx[c] # Idle
    /\ Done(c)
    /\ UNCHANGED <<app, binding, cmd, conflicts>>

-----------------------------------------------------------------------------
Init ==
    /\ app = "enabled"
    /\ binding = [p \in People |-> "none"]
    /\ cmd = [i \in Ids |-> NoCommand]
    /\ conflicts = {}
    /\ tx = [c \in Clients |-> Idle]

Work(c) ==
    \/ \E i \in Ids : BindDuplicate(c, i) \/ BindFresh(c, i)
    \/ RetryLoad(c) \/ RetryExecute(c)

Next ==
    \/ \E s \in {"enabled", "disabled"} : setTenantApplication(s)
    \/ \E c \in Clients :
        \/ \E p \in People, k \in Keys, pay \in Payloads : BindRead(c, p, k, pay)
        \/ \E i \in Ids : RetryRead(c, i)
        \/ Work(c)
        \/ Rollback(c)

Spec == Init /\ [][Next]_vars

-----------------------------------------------------------------------------
Statuses == {"failed", "conflict", "completed"}

(* The rows and open transactions have the shapes the schema gives them. *)
TypeOK ==
    /\ app \in {"enabled", "disabled"}
    /\ binding \in [People -> {"none", "active", "failed", "conflict"}]
    /\ cmd \in [Ids -> {NoCommand} \cup
            [person : People, key : Keys, payload : Payloads, status : Statuses,
             attempts : 0 .. FailUntil]]
    /\ conflicts \in SUBSET Ids
    /\ tx \in [Clients -> {Idle}
            \cup [op : {"duplicate", "fresh"}, person : People, key : Keys, payload : Payloads]
            \cup [op : {"retry"}, id : Ids]
            \cup [op : {"execute"}, id : Ids, attempt : 1 .. FailUntil]]

(* What reconcile calls active_binding_without_completed_command never     *)
(* happens: an active binding has a completed command, although a stale    *)
(* retry may take a completed command back.                                *)
ActiveIsProvisioned ==
    \A p \in People : binding[p] = "active" =>
        \E i \in Rows : cmd[i].person = p /\ cmd[i].status = "completed"

(* A command or a binding in conflict is on record in the conflict centre. *)
ConflictsOnRecord ==
    /\ \A i \in Rows : cmd[i].status = "conflict" => i \in conflicts
    /\ \A p \in People : binding[p] = "conflict" =>
        \E i \in conflicts : cmd[i].person = p /\ cmd[i].status = "conflict"
=============================================================================
