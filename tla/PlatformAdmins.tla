--------------------------- MODULE PlatformAdmins ---------------------------
(***************************************************************************)
(* The table platform_admins (internal/platformrbac) and the transactions  *)
(* on it, at PostgreSQL's default isolation, READ COMMITTED: a statement   *)
(* sees the rows committed when it starts; a SELECT ... FOR UPDATE then    *)
(* locks the rows it found one by one, waiting for the transaction that    *)
(* holds a row, and keeps those that still satisfy its condition.          *)
(***************************************************************************)
EXTENDS AdminBase, Integers, FiniteSets

CONSTANTS
  Subjects,    \* subjects a platform administrator may have
  BootSubject, \* SASE_BOOTSTRAP_PLATFORM_ADMIN
  MaxAdmins    \* bound: rows ever inserted

ASSUME AdminAssumption == MaxAdmins \in Nat /\ BootSubject \in Subjects

Ids == 1 .. MaxAdmins

VARIABLES
  adm,   \* rows of platform_admins, by id: "free" before the insert, "gone" after the delete
  tx     \* transaction of each worker: rows still to lock, rows locked

adminVars == <<adm, tx>>

NoTx == [open |-> FALSE, todo |-> {}, locked |-> {}]

AdminTypeOK ==
  /\ adm \in [Ids -> [sub : Subjects, st : {"free", "active", "disabled", "gone"}]]
  /\ tx \in [Workers -> [open : BOOLEAN, todo : SUBSET Ids, locked : SUBSET Ids]]

Rows == {i \in Ids : adm[i].st \in {"active", "disabled"}}
ActiveIds == {i \in Ids : adm[i].st = "active"}

\* A table with the given rows.
AdminInit(rows) ==
  /\ adm = [i \in Ids |-> IF i \in DOMAIN rows THEN rows[i]
                          ELSE [sub |-> BootSubject, st |-> "free"]]
  /\ tx = [w \in Workers |-> NoTx]

\* GetBySubject and IsActive.
IsActive(s) == \E i \in ActiveIds : adm[i].sub = s

\* adminActiveChecker of api-server: the subject of the bootstrap token is exempt.
AdminActive(s) == s = BootSubject \/ IsActive(s)

LockedByOther(w, i) == \E v \in Workers \ {w} : i \in tx[v].locked

-----------------------------------------------------------------------------
(* Create and a PATCH that enables: one statement each.                    *)

\* The unique index on subject rejects a second row.
CreateAdmin(s) ==
  IF \E i \in Rows : adm[i].sub = s THEN UNCHANGED adminVars
  ELSE LET i == CHOOSE i \in Ids : adm[i].st = "free" /\ \A j \in Ids : adm[j].st = "free" => i <= j
       IN  /\ adm' = [adm EXCEPT ![i] = [sub |-> s, st |-> "active"]]
           /\ UNCHANGED tx

CanCreateAdmin == \E i \in Ids : adm[i].st = "free"

EnableAdmin(w, i) ==
  /\ ~LockedByOther(w, i)
  /\ IF i \in Rows THEN adm' = [adm EXCEPT ![i].st = "active"] ELSE UNCHANGED adm
  /\ UNCHANGED tx

-----------------------------------------------------------------------------
(* A PATCH that disables, and DELETE: guardLastActive, then the write.     *)

\* The snapshot of guardLastActive's SELECT.
GuardSnapshot(w) ==
  /\ tx' = [tx EXCEPT ![w] = [open |-> TRUE, todo |-> ActiveIds, locked |-> {}]]
  /\ UNCHANGED adm

\* Mutant: the SELECT has no FOR UPDATE.
GuardLockMut(w) ==
  \E i \in tx[w].todo :
    /\ tx' = [tx EXCEPT ![w].todo = @ \ {i}, ![w].locked = @ \cup {i}]
    /\ UNCHANGED adm

\* FOR UPDATE reaches one row of the snapshot.
GuardLock(w) ==
  \E i \in tx[w].todo :
    /\ ~LockedByOther(w, i)
    /\ tx' = [tx EXCEPT ![w].todo = @ \ {i},
                        ![w].locked = IF i \in ActiveIds THEN @ \cup {i} ELSE @]
    /\ UNCHANGED adm

\* PostgreSQL ends one of two transactions that wait for each other.
Deadlocked(w) ==
  \E v \in Workers \ {w} : /\ tx[w].todo # {} /\ tx[w].todo \subseteq tx[v].locked
                           /\ tx[v].todo # {} /\ tx[v].todo \subseteq tx[w].locked

\* The target is active and no other row is: ErrLastActiveAdmin.
GuardRefuses(w, i) == i \in tx[w].locked /\ Cardinality(tx[w].locked) <= 1

\* Mutant: the transaction is not ended.
GuardedWriteMut(w, i, st) ==
  /\ ~LockedByOther(w, i)
  /\ IF i \in Rows THEN adm' = [adm EXCEPT ![i].st = st] ELSE UNCHANGED adm
  /\ UNCHANGED tx

\* The write and the commit, which releases the locks.  A row that is gone
\* is ErrAdminNotFound.
GuardedWrite(w, i, st) ==
  /\ ~LockedByOther(w, i)
  /\ IF i \in Rows THEN adm' = [adm EXCEPT ![i].st = st] ELSE UNCHANGED adm
  /\ tx' = [tx EXCEPT ![w] = NoTx]

Rollback(w) == tx' = [tx EXCEPT ![w] = NoTx] /\ UNCHANGED adm
=============================================================================
