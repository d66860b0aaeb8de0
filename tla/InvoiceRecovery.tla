----------------------------- MODULE InvoiceRecovery -----------------------------
(***************************************************************************)
(* The processor over several lifetimes of the process and several keys of *)
(* the user.  The process may stop between any two steps of                *)
(* InvoiceProcessor: the goroutines and pendingInvoices are gone,          *)
(* PostgreSQL rolls back what was not committed, and                       *)
(* loadPersistedPendingInvoices (internal/processor/main.go) hands the     *)
(* open invoices of the database to handleInvoice again.  UpdateCryptoKeys *)
(* (internal/handler/v1/user.go) takes the addresses away meanwhile.       *)
(*                                                                         *)
(* The stop and the start are one step: no goroutine runs in between, and  *)
(* nothing else reads the database.  ShiftExpiresAtForNonConfirmedInvoices *)
(* gives every reloaded invoice five minutes, so no timer fires while the  *)
(* others are loaded.                                                      *)
(***************************************************************************)
EXTENDS InvoiceProcessor

CONSTANTS
    MaxCrashes,     \* bound on the number of crashes
    MaxKeyUpdates   \* bound on the number of UpdateCryptoKeys

ASSUME RecoveryAssumption == MaxCrashes \in Nat /\ MaxKeyUpdates \in Nat

VARIABLES crashes, keyUpdates

recoveryVars == <<vars, crashes, keyUpdates>>

RecoveryInit == Init /\ crashes = 0 /\ keyUpdates = 0

\* Slips of FindAllPendingInvoices: a status forgotten; no WHERE clause.
OnlyPending == {i \in Invoices : row[i].status = "PENDING"}
EveryRow    == {i \in Invoices : row[i].status # "absent"}

\* FindAllPendingInvoices
PendingRows == {i \in Invoices : row[i].status \in {"PENDING", "PENDING_MEMPOOL"}}

\* handleInvoice keeps the first row of each address; the query has no order.
FirstOfEachAddress ==
    {kept \in SUBSET PendingRows :
        \A i \in PendingRows : \E k \in kept :
            /\ address[k] = address[i]
            /\ \A m \in kept : address[m] = address[i] => m = k}

\* Slip: a timer of the earlier lifetime stays cancelled.
StillCancelled == cancelled

\* Every reloaded invoice has a timer of its own.
NoneCancelled == {}

\* The process stops, is started again and loads the open invoices.
Crash ==
    /\ crashes < MaxCrashes
    /\ crashes' = crashes + 1
    /\ \E kept \in FirstOfEachAddress :
          /\ pendingInvoices' =
                [a \in Addresses |->
                    IF \E i \in kept : address[i] = a
                    THEN CHOOSE i \in kept : address[i] = a
                    ELSE None]
          \* the rows as committed, uncommitted updates left out
          /\ snapshot' = [i \in Invoices |-> IF i \in kept THEN row[i] ELSE Absent]
          /\ pc' = [j \in Jobs |->
                       IF j \in Workers THEN "idle"
                       ELSE IF row[j].status = "absent" THEN "absent"
                       ELSE IF j \in kept THEN "armed" ELSE "done"]
    /\ address' = [i \in Invoices |->
                      IF row[i].status = "absent" THEN None ELSE address[i]]
    /\ cancelled' = NoneCancelled
    /\ releases' = [a \in Addresses |-> 0]
    /\ inv' = [j \in Jobs |-> IF j \in Invoices THEN j ELSE None]
    /\ txId' = [w \in Workers |-> None]
    /\ write' = [j \in Jobs |-> Absent]
    /\ aborted' = {}
    /\ UNCHANGED <<row, occupancy, chain, keyUpdates>>

\* UpdateCryptoKeys, as one transaction: it deletes the addresses of the user and
\* starts again at index 0.  With keys used before, or the same, the addresses are
\* derived again; with others they are not, which Create is free not to do.  The
\* DELETE waits for a row FindAddress has locked, and does not see an address that
\* a request has derived and not committed.
UpdateCryptoKeys ==
    /\ keyUpdates < MaxKeyUpdates
    /\ \A a \in Addresses : Reserved(a) => occupancy[a] = "none"
    /\ keyUpdates' = keyUpdates + 1
    /\ occupancy' = [a \in Addresses |-> "none"]
    /\ UNCHANGED <<row, address, memory, local, pc, chain, crashes>>

Run == Next /\ UNCHANGED <<crashes, keyUpdates>>

RecoveryNext == Run \/ Crash \/ UpdateCryptoKeys

RecoverySpec == RecoveryInit /\ [][RecoveryNext]_recoveryVars

\* The fairness of the goroutines of each lifetime.
FairRecoverySpec == RecoverySpec /\ Fairness

-----------------------------------------------------------------------------
(* Properties, besides those of InvoiceProcessor                           *)

\* An invoice that handleInvoicePbReq returns to its caller is the one
\* pendingInvoices has for its address, as TestHandleInvoicePbReq expects.
ReturnedIsWatched ==
    [][\A i \in Invoices : HandleInvoice(i) => pendingInvoices'[address[i]] = i]_recoveryVars

\* An open invoice gives its address back, whichever goroutine resolves it, unless
\* the process stops: a crash before releaseAddressHelper has committed leaves the
\* address of a resolved invoice occupied until the keys of the user change.
AddressReleased ==
    \A i \in Invoices : \A n \in 0..MaxCrashes :
        i \in PendingRows /\ crashes = n
            ~> address[i] \in FreeAddresses \cup NewAddresses \/ crashes # n
=============================================================================
