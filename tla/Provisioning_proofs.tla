------------------------- MODULE Provisioning_proofs -------------------------
(* What holds for any number of clients, people, commands and keys. *)
EXTENDS Provisioning, TLAPS

CommandRow == [person : People, key : Keys, payload : Payloads, status : Statuses,
               attempts : 0 .. FailUntil]

(* A row as executeCommand finds it. *)
OpenRow == [person : People, key : Keys, payload : Payloads,
            status : Statuses \cup {"pending"}, attempts : 0 .. FailUntil]

(* A retry refers to a row that exists, and so does a conflict record. *)
RefsOK ==
    /\ \A c \in Clients : tx[c].op \in {"retry", "execute"} => cmd[tx[c].id] # NoCommand
    /\ \A i \in conflicts : cmd[i] # NoCommand

(* TypeOK is not inductive without RefsOK: executeCommand rewrites the row *)
(* a retry refers to.                                                      *)
TypeInv == TypeOK /\ RefsOK

-----------------------------------------------------------------------------
(* The status a command takes is one of the settled ones. *)
LEMMA ProvisionType ==
    ASSUME NEW pay, NEW n
    PROVE  /\ Provision(pay, n) \in Statuses
           /\ BindingAfter(Provision(pay, n)) \in {"active", "failed", "conflict"}
BY DEF Provision, BindingAfter, Statuses

(* No row of the table looks like a missing one. *)
LEMMA RowIsNotMissing ==
    ASSUME NEW r \in CommandRow
    PROVE  r # NoCommand
<1>1. r.status \in Statuses
  BY DEF CommandRow
<1>2. NoCommand.status = "none"
  BY DEF NoCommand
<1> QED
  BY <1>1, <1>2 DEF Statuses

(* executeCommand keeps the tables well typed and the references sound. *)
LEMMA ExecuteType ==
    ASSUME TypeInv, NEW i \in Ids, NEW n \in 1 .. FailUntil, NEW row \in OpenRow,
           Execute(i, row, n)
    PROVE  /\ binding' \in [People -> {"none", "active", "failed", "conflict"}]
           /\ cmd' \in [Ids -> {NoCommand} \cup CommandRow]
           /\ conflicts' \in SUBSET Ids
           /\ \A j \in Ids : cmd[j] # NoCommand => cmd'[j] # NoCommand
           /\ cmd'[i] # NoCommand
           /\ \A j \in conflicts' : cmd'[j] # NoCommand
<1> DEFINE s == Provision(row.payload, n)
<1> DEFINE new == Command(row.person, row.key, row.payload, s, n)
<1>1. s \in Statuses /\ BindingAfter(s) \in {"active", "failed", "conflict"}
  BY ProvisionType
<1>2. /\ cmd' = [cmd EXCEPT ![i] = new]
      /\ binding' = [binding EXCEPT ![row.person] = BindingAfter(s)]
      /\ conflicts' = IF s = "conflict" THEN conflicts \cup {i} ELSE conflicts
  BY DEF Execute
<1> HIDE DEF s
<1>3. new \in CommandRow
  BY <1>1 DEF OpenRow, CommandRow, Command
<1> HIDE DEF new
<1>4. new # NoCommand
  BY <1>3, RowIsNotMissing
<1>6. cmd \in [Ids -> {NoCommand} \cup CommandRow]
  BY DEF TypeInv, TypeOK, CommandRow
<1>7. cmd' \in [Ids -> {NoCommand} \cup CommandRow]
  BY <1>2, <1>3, <1>6
<1>8. /\ cmd'[i] # NoCommand
      /\ \A j \in Ids : cmd[j] # NoCommand => cmd'[j] # NoCommand
  BY <1>2, <1>4, <1>6
<1>9. row.person \in People /\ binding' \in [People -> {"none", "active", "failed", "conflict"}]
  BY <1>1, <1>2 DEF TypeInv, TypeOK, OpenRow
<1>10. conflicts' \in SUBSET Ids
  BY <1>2 DEF TypeInv, TypeOK
<1>11. \A j \in conflicts' : cmd'[j] # NoCommand
  BY <1>2, <1>8, <1>10 DEF TypeInv, TypeOK, RefsOK
<1> QED
  BY <1>7, <1>8, <1>9, <1>10, <1>11

LEMMA InitTypeInv == Init => TypeInv
BY DEF Init, TypeInv, TypeOK, RefsOK, Idle, NoCommand

(* What a step leaves alone, and an open transaction that ends. *)
LEMMA DoneType ==
    ASSUME TypeInv, NEW c \in Clients, Done(c),
           \A j \in Ids : cmd[j] # NoCommand => cmd'[j] # NoCommand
    PROVE  /\ tx' \in [Clients -> {Idle}
                \cup [op : {"duplicate", "fresh"}, person : People, key : Keys, payload : Payloads]
                \cup [op : {"retry"}, id : Ids]
                \cup [op : {"execute"}, id : Ids, attempt : 1 .. FailUntil]]
           /\ \A d \in Clients : tx'[d].op \in {"retry", "execute"} => cmd'[tx'[d].id] # NoCommand
<1>1. tx' = [tx EXCEPT ![c] = Idle]
  BY DEF Done
<1>2. \A d \in Clients : tx[d].op \in {"retry", "execute"} => tx[d].id \in Ids
  BY DEF TypeInv, TypeOK, Idle
<1>3. Idle.op = "idle"
  BY DEF Idle
<1>4. \A d \in Clients : d # c => tx'[d] = tx[d]
  BY <1>1 DEF TypeInv, TypeOK
<1>5. tx'[c] = Idle
  BY <1>1 DEF TypeInv, TypeOK
<1>6. \A d \in Clients : tx'[d].op \in {"retry", "execute"} => cmd'[tx'[d].id] # NoCommand
  BY <1>2, <1>3, <1>4, <1>5 DEF TypeInv, RefsOK
<1> QED
  BY <1>1, <1>6 DEF TypeInv, TypeOK

(* What the open transactions hold. *)
LEMMA TxTypes ==
    ASSUME TypeInv, NEW c \in Clients
    PROVE  /\ tx[c].op \in {"duplicate", "fresh"} =>
                tx[c].person \in People /\ tx[c].key \in Keys /\ tx[c].payload \in Payloads
           /\ tx[c].op = "retry" => tx[c].id \in Ids /\ cmd[tx[c].id] \in CommandRow
           /\ tx[c].op = "execute" => /\ tx[c].id \in Ids /\ cmd[tx[c].id] \in CommandRow
                                      /\ tx[c].attempt \in 1 .. FailUntil
<1>1. tx[c] \in {Idle}
            \cup [op : {"duplicate", "fresh"}, person : People, key : Keys, payload : Payloads]
            \cup [op : {"retry"}, id : Ids]
            \cup [op : {"execute"}, id : Ids, attempt : 1 .. FailUntil]
  BY DEF TypeInv, TypeOK
<1>2. Idle.op = "idle"
  BY DEF Idle
<1>3. \A i \in Ids : cmd[i] \in {NoCommand} \cup CommandRow
  BY DEF TypeInv, TypeOK, CommandRow
<1>4. tx[c].op \in {"retry", "execute"} => cmd[tx[c].id] # NoCommand
  BY DEF TypeInv, RefsOK
<1> QED
  BY <1>1, <1>2, <1>3, <1>4

(* The rows the two callers of executeCommand pass to it. *)
LEMMA FreshRow ==
    ASSUME NEW p \in People, NEW k \in Keys, NEW pay \in Payloads
    PROVE  Command(p, k, pay, "pending", 0) \in OpenRow
BY FailUntilAssumption DEF Command, OpenRow

LEMMA StoredRow == CommandRow \subseteq OpenRow
BY DEF CommandRow, OpenRow

(* One step per action of Next. *)
LEMMA NextTypeInv == TypeInv /\ [Next]_vars => TypeInv'
<1> SUFFICES ASSUME TypeInv, [Next]_vars PROVE TypeInv'
  OBVIOUS
<1> USE FailUntilAssumption
<1>1. ASSUME NEW s \in {"enabled", "disabled"}, setTenantApplication(s) PROVE TypeInv'
  BY <1>1 DEF setTenantApplication, TypeInv, TypeOK, RefsOK
<1>2. ASSUME NEW c \in Clients, NEW p \in People, NEW k \in Keys, NEW pay \in Payloads,
             BindRead(c, p, k, pay)
      PROVE  TypeInv'
  <2> DEFINE new == [op |-> IF binding[p] = "active" THEN "duplicate" ELSE "fresh",
                     person |-> p, key |-> k, payload |-> pay]
  <2>0. tx' = [tx EXCEPT ![c] = new]
    BY <1>2 DEF BindRead
  <2>1. new \in [op : {"duplicate", "fresh"}, person : People, key : Keys, payload : Payloads]
    OBVIOUS
  <2> HIDE DEF new
  <2>2. UNCHANGED <<app, binding, cmd, conflicts>>
    BY <1>2 DEF BindRead
  <2>3. new.op \notin {"retry", "execute"}
    BY <2>1
  <2>4. RefsOK'
    BY <2>0, <2>2, <2>3 DEF TypeInv, TypeOK, RefsOK
  <2> QED
    BY <2>0, <2>1, <2>2, <2>4 DEF TypeInv, TypeOK
<1>3. ASSUME NEW c \in Clients, NEW i \in Ids, RetryRead(c, i) PROVE TypeInv'
  <2>1. PICK new \in [op : {"retry"}, id : Ids] :
            new.id = i /\ tx' = [tx EXCEPT ![c] = new]
    BY <1>3 DEF RetryRead
  <2>2. UNCHANGED <<app, binding, cmd, conflicts>> /\ cmd[i] # NoCommand
    BY <1>3 DEF RetryRead, Rows
  <2>3. RefsOK'
    BY <2>1, <2>2 DEF TypeInv, TypeOK, RefsOK
  <2> QED
    BY <2>1, <2>2, <2>3 DEF TypeInv, TypeOK
<1>4. ASSUME NEW c \in Clients, NEW i \in Ids, BindDuplicate(c, i) PROVE TypeInv'
  <2>1. tx[c].person \in People /\ tx[c].key \in Keys /\ tx[c].payload \in Payloads
    BY <1>4, TxTypes DEF BindDuplicate
  <2> DEFINE new == Command(tx[c].person, tx[c].key, tx[c].payload, "conflict", 0)
  <2>0. cmd' = [cmd EXCEPT ![i] = new]
    BY <1>4 DEF BindDuplicate
  <2>2. new \in CommandRow
    BY <2>1 DEF Command, CommandRow, Statuses
  <2> HIDE DEF new
  <2>3. new # NoCommand
    BY <2>2, RowIsNotMissing
  <2>4. cmd' \in [Ids -> {NoCommand} \cup CommandRow]
    BY <2>0, <2>2 DEF TypeInv, TypeOK, CommandRow
  <2>5. \A j \in Ids : (cmd[j] # NoCommand => cmd'[j] # NoCommand) /\ cmd'[i] # NoCommand
    BY <2>0, <2>3 DEF TypeInv, TypeOK
  <2>6. conflicts' = conflicts \cup {i} /\ UNCHANGED <<app, binding>> /\ Done(c)
    BY <1>4 DEF BindDuplicate
  <2>7. \A j \in conflicts' : cmd'[j] # NoCommand
    BY <2>5, <2>6 DEF TypeInv, TypeOK, RefsOK
  <2> QED
    BY <2>4, <2>5, <2>6, <2>7, DoneType DEF TypeInv, TypeOK, RefsOK, CommandRow
<1>5. ASSUME NEW c \in Clients, NEW i \in Ids, BindFresh(c, i) PROVE TypeInv'
  <2>1. tx[c].person \in People /\ tx[c].key \in Keys /\ tx[c].payload \in Payloads
    BY <1>5, TxTypes DEF BindFresh
  <2>2. PICK row \in OpenRow : Execute(i, row, 1)
    BY <1>5, <2>1, FreshRow DEF BindFresh
  <2>3. UNCHANGED app /\ Done(c)
    BY <1>5 DEF BindFresh
  <2>4. 1 \in 1 .. FailUntil
    OBVIOUS
  <2> QED
    BY <2>2, <2>3, <2>4, ExecuteType, DoneType DEF TypeInv, TypeOK, RefsOK, CommandRow
<1>6. ASSUME NEW c \in Clients, RetryLoad(c) PROVE TypeInv'
  <2>1. tx[c].op = "retry" /\ tx[c].id \in Ids /\ cmd[tx[c].id] \in CommandRow
    BY <1>6, TxTypes DEF RetryLoad
  <2>2. cmd[tx[c].id].attempts \in 0 .. FailUntil
    BY <2>1 DEF CommandRow
  <2> DEFINE n == IF cmd[tx[c].id].attempts < FailUntil THEN cmd[tx[c].id].attempts + 1 ELSE FailUntil
             new == [op |-> "execute", id |-> tx[c].id, attempt |-> n]
  <2>0. tx' = [tx EXCEPT ![c] = new]
    BY <1>6 DEF RetryLoad
  <2>n. n \in 1 .. FailUntil
    BY <2>2
  <2> HIDE DEF n
  <2>3. new \in [op : {"execute"}, id : Ids, attempt : 1 .. FailUntil] /\ new.id = tx[c].id
    BY <2>1, <2>n
  <2> HIDE DEF new
  <2>4. UNCHANGED <<app, binding, cmd, conflicts>>
    BY <1>6 DEF RetryLoad
  <2>5. RefsOK'
    BY <2>0, <2>1, <2>3, <2>4 DEF TypeInv, TypeOK, RefsOK
  <2> QED
    BY <2>0, <2>3, <2>4, <2>5 DEF TypeInv, TypeOK
<1>7. ASSUME NEW c \in Clients, RetryExecute(c) PROVE TypeInv'
  <2>1. /\ tx[c].id \in Ids /\ cmd[tx[c].id] \in OpenRow
        /\ tx[c].attempt \in 1 .. FailUntil
    BY <1>7, TxTypes, StoredRow DEF RetryExecute
  <2>2. Execute(tx[c].id, cmd[tx[c].id], tx[c].attempt) /\ UNCHANGED app /\ Done(c)
    BY <1>7 DEF RetryExecute
  <2> QED
    BY <2>1, <2>2, ExecuteType, DoneType DEF TypeInv, TypeOK, RefsOK, CommandRow
<1>8. ASSUME NEW c \in Clients, Rollback(c) PROVE TypeInv'
  BY <1>8, DoneType DEF Rollback, TypeInv, TypeOK, RefsOK
<1>9. CASE UNCHANGED vars
  BY <1>9 DEF vars, TypeInv, TypeOK, RefsOK
<1> QED
  BY <1>1, <1>2, <1>3, <1>4, <1>5, <1>6, <1>7, <1>8, <1>9 DEF Next, Work

(* The rows and open transactions of createBinding and retryCommand are    *)
(* well typed in every reachable state.                                    *)
THEOREM TypeCorrect == Spec => []TypeOK
<1>1. TypeInv => TypeOK
  BY DEF TypeInv
<1> QED
  BY <1>1, InitTypeInv, NextTypeInv, PTL DEF Spec

-----------------------------------------------------------------------------
(* What executeCommand makes of the two tables: the row and the binding of *)
(* its person take the same outcome, all others are left alone.            *)
LEMMA ExecuteOutcome ==
    ASSUME TypeInv, NEW i \in Ids, NEW n, NEW row \in OpenRow, Execute(i, row, n)
    PROVE  \E s \in Statuses :
            /\ cmd'[i].status = s /\ cmd'[i].person = row.person /\ cmd'[i] # NoCommand
            /\ binding'[row.person] = BindingAfter(s)
            /\ conflicts' = IF s = "conflict" THEN conflicts \cup {i} ELSE conflicts
            /\ \A j \in Ids : j # i => cmd'[j] = cmd[j]
            /\ \A p \in People : p # row.person => binding'[p] = binding[p]
<1> DEFINE s == Provision(row.payload, n)
           new == Command(row.person, row.key, row.payload, s, n)
<1>1. s \in Statuses
  BY ProvisionType
<1>2. /\ cmd' = [cmd EXCEPT ![i] = new]
      /\ binding' = [binding EXCEPT ![row.person] = BindingAfter(s)]
      /\ conflicts' = IF s = "conflict" THEN conflicts \cup {i} ELSE conflicts
  BY DEF Execute
<1> HIDE DEF s
<1>3. new.status = s /\ new.person = row.person
  BY DEF Command
<1> HIDE DEF new
<1>4. new # NoCommand
  <2>1. NoCommand.status = "none"
    BY DEF NoCommand
  <2> QED
    BY <1>1, <1>3, <2>1 DEF Statuses
<1>5. cmd'[i] = new /\ \A j \in Ids : j # i => cmd'[j] = cmd[j]
  BY <1>2 DEF TypeInv, TypeOK
<1>6. row.person \in People
  BY DEF OpenRow
<1>7. /\ binding'[row.person] = BindingAfter(s)
      /\ \A p \in People : p # row.person => binding'[p] = binding[p]
  BY <1>2, <1>6 DEF TypeInv, TypeOK
<1> QED
  BY <1>1, <1>2, <1>3, <1>4, <1>5, <1>7

(* Both callers of executeCommand give it a row that is new, or stored     *)
(* under the same person.                                                  *)
LEMMA Callers ==
    ASSUME TypeInv, NEW c \in Clients,
           (\E i \in Ids : BindFresh(c, i)) \/ RetryExecute(c)
    PROVE  \E i \in Ids, row \in OpenRow : \E n :
            /\ Execute(i, row, n)
            /\ cmd[i] # NoCommand => cmd[i].person = row.person
<1>1. ASSUME NEW i \in Ids, BindFresh(c, i)
      PROVE  \E j \in Ids, row \in OpenRow : \E n :
                /\ Execute(j, row, n)
                /\ cmd[j] # NoCommand => cmd[j].person = row.person
  <2>1. tx[c].person \in People /\ tx[c].key \in Keys /\ tx[c].payload \in Payloads
    BY <1>1, TxTypes DEF BindFresh
  <2> DEFINE row == Command(tx[c].person, tx[c].key, tx[c].payload, "pending", 0)
  <2>2. row \in OpenRow
    BY <2>1, FreshRow
  <2>3. Execute(i, row, 1) /\ cmd[i] = NoCommand
    BY <1>1 DEF BindFresh
  <2> HIDE DEF row
  <2> QED
    BY <2>2, <2>3
<1>2. ASSUME RetryExecute(c)
      PROVE  \E j \in Ids, row \in OpenRow : \E n :
                /\ Execute(j, row, n)
                /\ cmd[j] # NoCommand => cmd[j].person = row.person
  <2>1. tx[c].id \in Ids /\ cmd[tx[c].id] \in OpenRow
    BY <1>2, TxTypes, StoredRow DEF RetryExecute
  <2>2. Execute(tx[c].id, cmd[tx[c].id], tx[c].attempt)
    BY <1>2 DEF RetryExecute
  <2> QED
    BY <2>1, <2>2
<1> QED
  BY <1>1, <1>2

(* Everything but executeCommand and the duplicate path leaves the tables  *)
(* alone.                                                                  *)
LEMMA OtherSteps ==
    ASSUME [Next]_vars,
           ~ \E c \in Clients : (\E i \in Ids : BindFresh(c, i) \/ BindDuplicate(c, i))
                                \/ RetryExecute(c)
    PROVE  UNCHANGED <<binding, cmd, conflicts>>
BY DEF Next, Work, vars, setTenantApplication, BindRead, RetryRead, RetryLoad, Rollback

(* The duplicate path stores a new row in conflict and its record. *)
LEMMA DuplicateOutcome ==
    ASSUME TypeInv, NEW c \in Clients, NEW i \in Ids, BindDuplicate(c, i)
    PROVE  /\ cmd[i] = NoCommand
           /\ cmd'[i].status = "conflict"
           /\ \A j \in Ids : j # i => cmd'[j] = cmd[j]
           /\ conflicts' = conflicts \cup {i}
           /\ binding' = binding
BY DEF BindDuplicate, Command, TypeInv, TypeOK

-----------------------------------------------------------------------------
(* A retry that overtook another, or that repeats an old command, never    *)
(* leaves an active binding without a completed command.                   *)
LEMMA NextProvisioned ==
    TypeInv /\ ActiveIsProvisioned /\ [Next]_vars => ActiveIsProvisioned'
<1> SUFFICES ASSUME TypeInv, ActiveIsProvisioned, [Next]_vars, NEW p \in People,
                    binding'[p] = "active"
             PROVE  \E i \in Ids : /\ cmd'[i] # NoCommand
                                   /\ cmd'[i].person = p /\ cmd'[i].status = "completed"
  BY DEF ActiveIsProvisioned, Rows
<1>a. ASSUME binding[p] = "active"
      PROVE  \E i \in Ids : /\ cmd[i] # NoCommand
                            /\ cmd[i].person = p /\ cmd[i].status = "completed"
  BY <1>a DEF ActiveIsProvisioned, Rows
<1>1. ASSUME NEW c \in Clients, (\E i \in Ids : BindFresh(c, i)) \/ RetryExecute(c)
      PROVE  \E i \in Ids : /\ cmd'[i] # NoCommand
                            /\ cmd'[i].person = p /\ cmd'[i].status = "completed"
  <2>1. PICK i \in Ids, row \in OpenRow : \E n :
            /\ Execute(i, row, n)
            /\ cmd[i] # NoCommand => cmd[i].person = row.person
    BY <1>1, Callers
  <2>2. PICK s \in Statuses :
            /\ cmd'[i].status = s /\ cmd'[i].person = row.person /\ cmd'[i] # NoCommand
            /\ binding'[row.person] = BindingAfter(s)
            /\ \A j \in Ids : j # i => cmd'[j] = cmd[j]
            /\ \A q \in People : q # row.person => binding'[q] = binding[q]
    BY <2>1, ExecuteOutcome
  <2>3. CASE p = row.person
    BY <2>2, <2>3 DEF BindingAfter, Statuses
  <2>4. CASE p # row.person
    BY <1>a, <2>1, <2>2, <2>4
  <2> QED
    BY <2>3, <2>4
<1>2. ASSUME NEW c \in Clients, NEW i \in Ids, BindDuplicate(c, i)
      PROVE  \E j \in Ids : /\ cmd'[j] # NoCommand
                            /\ cmd'[j].person = p /\ cmd'[j].status = "completed"
  BY <1>a, <1>2, DuplicateOutcome
<1>3. CASE UNCHANGED <<binding, cmd, conflicts>>
  BY <1>a, <1>3
<1> QED
  BY <1>1, <1>2, <1>3, OtherSteps

(* The state that reconcile reports as an active binding without a         *)
(* completed command is not reachable by createBinding and retryCommand.   *)
THEOREM ActiveProvisioned == Spec => []ActiveIsProvisioned
<1>1. Init => ActiveIsProvisioned
  BY DEF Init, ActiveIsProvisioned
<1> QED
  BY <1>1, InitTypeInv, NextTypeInv, NextProvisioned, PTL DEF Spec

(* The conflict centre is told of every conflict. *)
LEMMA NextRecorded ==
    TypeInv /\ ConflictsOnRecord /\ [Next]_vars => ConflictsOnRecord'
<1> SUFFICES ASSUME TypeInv, ConflictsOnRecord, [Next]_vars
             PROVE  ConflictsOnRecord'
  OBVIOUS
<1>0. /\ \A i \in Ids : cmd[i] # NoCommand /\ cmd[i].status = "conflict" => i \in conflicts
      /\ \A p \in People : binding[p] = "conflict" =>
            \E i \in conflicts : cmd[i].person = p /\ cmd[i].status = "conflict"
      /\ \A i \in conflicts : i \in Ids /\ cmd[i] # NoCommand
  BY DEF ConflictsOnRecord, Rows, TypeInv, TypeOK, RefsOK
<1>1. ASSUME NEW c \in Clients, (\E i \in Ids : BindFresh(c, i)) \/ RetryExecute(c)
      PROVE  ConflictsOnRecord'
  <2>1. PICK i \in Ids, row \in OpenRow : \E n :
            /\ Execute(i, row, n)
            /\ cmd[i] # NoCommand => cmd[i].person = row.person
    BY <1>1, Callers
  <2>2. PICK s \in Statuses :
            /\ cmd'[i].status = s /\ cmd'[i].person = row.person /\ cmd'[i] # NoCommand
            /\ binding'[row.person] = BindingAfter(s)
            /\ conflicts' = IF s = "conflict" THEN conflicts \cup {i} ELSE conflicts
            /\ \A j \in Ids : j # i => cmd'[j] = cmd[j]
            /\ \A q \in People : q # row.person => binding'[q] = binding[q]
    BY <2>1, ExecuteOutcome
  <2>3. \A j \in Ids : cmd'[j] # NoCommand /\ cmd'[j].status = "conflict" => j \in conflicts'
    BY <1>0, <2>2
  <2>4. ASSUME NEW p \in People, binding'[p] = "conflict"
        PROVE  \E j \in conflicts' : cmd'[j].person = p /\ cmd'[j].status = "conflict"
    <3>1. CASE p = row.person
      BY <2>2, <2>4, <3>1 DEF BindingAfter, Statuses
    <3>2. CASE p # row.person
      BY <1>0, <2>1, <2>2, <2>4, <3>2
    <3> QED
      BY <3>1, <3>2
  <2> QED
    BY <2>3, <2>4 DEF ConflictsOnRecord, Rows
<1>2. ASSUME NEW c \in Clients, NEW i \in Ids, BindDuplicate(c, i)
      PROVE  ConflictsOnRecord'
  <2>1. /\ cmd[i] = NoCommand
        /\ \A j \in Ids : j # i => cmd'[j] = cmd[j]
        /\ conflicts' = conflicts \cup {i}
        /\ binding' = binding
    BY <1>2, DuplicateOutcome
  <2>2. \A j \in Ids : cmd'[j] # NoCommand /\ cmd'[j].status = "conflict" => j \in conflicts'
    BY <1>0, <2>1
  <2>3. ASSUME NEW p \in People, binding'[p] = "conflict"
        PROVE  \E j \in conflicts' : cmd'[j].person = p /\ cmd'[j].status = "conflict"
    BY <1>0, <2>1, <2>3
  <2> QED
    BY <2>2, <2>3 DEF ConflictsOnRecord, Rows
<1>3. CASE UNCHANGED <<binding, cmd, conflicts>>
  BY <1>3 DEF ConflictsOnRecord, Rows
<1> QED
  BY <1>1, <1>2, <1>3, OtherSteps

(* A command or a binding that ends in conflict has its record, whatever   *)
(* creates and retries race.                                               *)
THEOREM ConflictsRecorded == Spec => []ConflictsOnRecord
<1>1. Init => ConflictsOnRecord
  BY DEF Init, ConflictsOnRecord, Rows, NoCommand
<1> QED
  BY <1>1, InitTypeInv, NextTypeInv, NextRecorded, PTL DEF Spec
=============================================================================
