------------------------------ MODULE CryptoKeys ------------------------------
(***************************************************************************)
(* The keys of the users and the addresses derived from them: RegisterUser *)
(* and UpdateCryptoKeys (internal/handler/v1/user.go) against              *)
(* generateNextAddressHandler (internal/processor/{xmr,btc,ltc,eth,bnb}.go)*)
(* of createInvoice, one step per statement.                               *)
(*                                                                         *)
(* Each handler runs one request at a time in one READ COMMITTED           *)
(* transaction.  registered, cryptoData, keysTable and addresses are what  *)
(* is committed; the other variables are what each handler has read and    *)
(* written.  A statement waits for the transactions whose rows it needs    *)
(* (WaitsFor) and PostgreSQL ends one of those that wait for each other.   *)
(***************************************************************************)
EXTENDS Integers

CONSTANTS
    Users,
    Coins,        \* numbers, in the order in which UpdateCryptoKeys takes them
    Keys,         \* master public keys; the two keys of XMR are one
    Updates,      \* what requests may ask for: the key of each coin, or None
    Family,       \* coins with one value encode an address alike (ETH and BNB)
    Handlers,     \* goroutines that serve requests
    MaxMinor,     \* the largest minor index, 2147483647 in the queries
    MaxRequests,  \* bound on the updates and derivations that are started
    None

ASSUME KeysAssumption ==
    /\ Coins \subseteq Nat
    /\ MaxMinor \in Nat /\ MaxRequests \in Nat
    /\ None \notin Users /\ None \notin Keys
    /\ Updates \subseteq [Coins -> Keys \cup {None}]

VARIABLES
    registered,   \* users, each with its row of crypto_data
    cryptoData,   \* crypto_data: the keys row of each coin
    keysTable,    \* xmr_crypto_data, btc_crypto_data, ...
    addresses,    \* crypto_addresses
    survivors,    \* history: addresses a committed UpdateCryptoKeys missed
    requests,     \* counts the updates and derivations
    pc,
    user,         \* the user of the request
    keys,         \* UpdateCryptoKeys: the keys of the request
    todo,         \* the coins it has not done
    read,         \* the row of crypto_data, as read
    found,        \* addresses the DELETE found, not yet deleted
    removed,      \* addresses it deleted
    write,        \* the keys row it created or updated
    linked,       \* the coins whose column of crypto_data it set
    derived       \* the address it inserted

tables  == <<registered, cryptoData, keysTable, addresses, survivors>>
request == <<user, keys, read>>
writes  == <<found, removed, write, linked, derived>>
vars    == <<tables, requests, pc, request, todo, writes>>

-----------------------------------------------------------------------------
(* Rows, addresses and what they are before they exist                     *)

\* The UUID of a keys row, which no query interprets: who made it, for whom.
RowIds == Users \X Handlers

NoId == <<None, None>>

Indices == Nat \X Nat

Absent == [key |-> None, index |-> <<0, 0>>]

NoWrite == [id |-> NoId, row |-> Absent]

NoAddress == [user |-> None, coin |-> 0, key |-> None, index |-> <<0, 0>>]

NoKeys == [c \in Coins |-> None]

Unlinked == [c \in Coins |-> NoId]

\* The address a coin's handler derives, under the column address.
Encoded(a) == <<Family[a.coin], a.key, a.index>>

-----------------------------------------------------------------------------
(* PostgreSQL                                                              *)

Coin(h) == CHOOSE c \in todo[h] : \A d \in todo[h] : c <= d

\* The keys row the next statement of h writes.
Target(h, c) == IF read[h][c] = NoId THEN <<user[h], h>> ELSE read[h][c]

AddressToInsert(h) ==
    LET c == Coin(h)
    IN  [user |-> user[h], coin |-> c,
         key |-> write[h][c].row.key, index |-> write[h][c].row.index]

\* Slip: the indices are read and written without a lock.
NotLocked(s, c, id) == FALSE

\* s has an uncommitted version of the keys row.
RowLocked(s, c, id) == write[s][c].id = id

\* s has an uncommitted version of a row that has, or had, the key.
KeyContended(s, c, k) ==
    /\ write[s][c] # NoWrite
    /\ k \in {write[s][c].row.key, keysTable[c][write[s][c].id].key}

\* Slip: the key is not UNIQUE.
NeverTaken(c, k, id) == FALSE

\* Another row than id has the key.
KeyTaken(c, k, id) == \E other \in RowIds \ {id} : keysTable[c][other].key = k

AddressContended(s, a) ==
    \E b \in removed[s] \cup {derived[s]} : b # NoAddress /\ Encoded(b) = Encoded(a)

AddressTaken(a) == \E b \in addresses : Encoded(b) = Encoded(a)

\* The next statement of h needs a row, or a unique value, that s holds.
WaitsFor(h, s) ==
    /\ s # h
    /\ \/ /\ pc[h] = "createUser" /\ pc[s] = "commitUser"
          /\ user[s] = user[h]
       \/ /\ pc[h] = "remove"
          /\ found[h] \cap removed[s] # {}
       \/ /\ pc[h] = "write"
          /\ \/ RowLocked(s, Coin(h), Target(h, Coin(h)))
             \/ KeyContended(s, Coin(h), keys[h][Coin(h)])
       \/ /\ pc[h] = "link"
          /\ user[s] = user[h] /\ linked[s] # {}
       \/ /\ pc[h] = "increment"
          /\ RowLocked(s, Coin(h), Target(h, Coin(h)))
       \/ /\ pc[h] = "insert"
          /\ AddressContended(s, AddressToInsert(h))

Granted(h) == \A s \in Handlers : ~WaitsFor(h, s)

\* h and others wait for each other.
Deadlocked(h) ==
    \E S \in SUBSET Handlers :
        /\ h \in S
        /\ \A x \in S : (\E y \in S : WaitsFor(x, y)) /\ (\E y \in S : WaitsFor(y, x))

\* The statement of h breaks a UNIQUE constraint.
Violates(h) ==
    \/ pc[h] = "createUser" /\ user[h] \in registered
    \/ /\ pc[h] = "write"
       /\ KeyTaken(Coin(h), keys[h][Coin(h)], Target(h, Coin(h)))
    \/ pc[h] = "insert" /\ AddressTaken(AddressToInsert(h))

-----------------------------------------------------------------------------
Init ==
    /\ registered = {}
    /\ cryptoData = [u \in Users |-> Unlinked]
    /\ keysTable = [c \in Coins |-> [id \in RowIds |-> Absent]]
    /\ addresses = {}
    /\ survivors = {}
    /\ requests = 0
    /\ pc = [h \in Handlers |-> "idle"]
    /\ user = [h \in Handlers |-> None]
    /\ keys = [h \in Handlers |-> NoKeys]
    /\ todo = [h \in Handlers |-> {}]
    /\ read = [h \in Handlers |-> Unlinked]
    /\ found = [h \in Handlers |-> {}]
    /\ removed = [h \in Handlers |-> {}]
    /\ write = [h \in Handlers |-> [c \in Coins |-> NoWrite]]
    /\ linked = [h \in Handlers |-> {}]
    /\ derived = [h \in Handlers |-> NoAddress]

Goto(h, step) == pc' = [pc EXCEPT ![h] = step]

\* The transaction ends, and with it the request.
End(h) ==
    /\ Goto(h, "idle")
    /\ user' = [user EXCEPT ![h] = None]
    /\ keys' = [keys EXCEPT ![h] = NoKeys]
    /\ todo' = [todo EXCEPT ![h] = {}]
    /\ read' = [read EXCEPT ![h] = Unlinked]
    /\ found' = [found EXCEPT ![h] = {}]
    /\ removed' = [removed EXCEPT ![h] = {}]
    /\ write' = [write EXCEPT ![h] = [c \in Coins |-> NoWrite]]
    /\ linked' = [linked EXCEPT ![h] = {}]
    /\ derived' = [derived EXCEPT ![h] = NoAddress]
    /\ UNCHANGED requests

\* Slip: no Rollback.
AnswerOnly(h) ==
    Goto(h, "idle") /\ UNCHANGED <<tables, requests, request, todo, writes>>

\* defer tx.Rollback
Rollback(h) == End(h) /\ UNCHANGED tables

\* A statement, the commit or the parsing of a key fails.  The error of Commit is
\* dropped: the request is answered as if it had succeeded.
Fail(h) == pc[h] # "idle" /\ Rollback(h)

\* A UNIQUE constraint refuses a statement.
Refused(h) == Granted(h) /\ Violates(h) /\ Rollback(h)

\* PostgreSQL ends one of the transactions that wait for each other.
DeadlockVictim(h) == Deadlocked(h) /\ Rollback(h)

-----------------------------------------------------------------------------
(* RegisterUser.  A request without an id takes a new one, as if it had    *)
(* been given; the user and its row of crypto_data are inserted together,  *)
(* since the second statement can only meet rows of the first.             *)

StartRegistration(h, u) ==
    /\ pc[h] = "idle" /\ u \notin registered
    /\ Goto(h, "createUser")
    /\ user' = [user EXCEPT ![h] = u]
    /\ UNCHANGED <<tables, requests, keys, read, todo, writes>>

CreateUser(h) ==
    /\ pc[h] = "createUser" /\ Granted(h) /\ ~Violates(h)
    /\ Goto(h, "commitUser")
    /\ UNCHANGED <<tables, requests, request, todo, writes>>

CommitUser(h) ==
    /\ pc[h] = "commitUser"
    /\ registered' = registered \cup {user[h]}
    /\ End(h)
    /\ UNCHANGED <<cryptoData, keysTable, addresses, survivors>>

-----------------------------------------------------------------------------
(* UpdateCryptoKeys, coin after coin                                       *)

\* checkIfUserExistsUUID and FindCryptoDataByUserId: a user is never deleted.
StartUpdate(h, u, ks) ==
    /\ pc[h] = "idle" /\ requests < MaxRequests
    /\ u \in registered
    /\ requests' = requests + 1
    /\ Goto(h, IF ks = NoKeys THEN "commitKeys" ELSE "delete")
    /\ user' = [user EXCEPT ![h] = u]
    /\ keys' = [keys EXCEPT ![h] = ks]
    /\ todo' = [todo EXCEPT ![h] = {c \in Coins : ks[c] # None}]
    /\ read' = [read EXCEPT ![h] = cryptoData[u]]
    /\ UNCHANGED <<tables, writes>>

\* The DELETE waits for rows of its snapshot and never sees later ones.
FindAddresses(h) ==
    /\ pc[h] = "delete"
    /\ Goto(h, "remove")
    /\ found' = [found EXCEPT ![h] =
                    {a \in addresses : a.user = user[h] /\ a.coin = Coin(h)}]
    /\ UNCHANGED <<tables, requests, request, todo, removed, write, linked, derived>>

DeleteAddresses(h) ==
    /\ pc[h] = "remove" /\ Granted(h)
    /\ Goto(h, "write")
    /\ removed' = [removed EXCEPT ![h] = @ \cup (found[h] \cap addresses)]
    /\ found' = [found EXCEPT ![h] = {}]
    /\ UNCHANGED <<tables, requests, request, todo, write, linked, derived>>

\* Slip: the handler returns after its first coin.
OnlyFirstCoin(h) == {}

Rest(h) == todo[h] \ {Coin(h)}

NextCoin(h) ==
    /\ todo' = [todo EXCEPT ![h] = Rest(h)]
    /\ Goto(h, IF Rest(h) = {} THEN "commitKeys" ELSE "delete")

SetRow(h, id, row) ==
    write' = [write EXCEPT ![h][Coin(h)] = [id |-> id, row |-> row]]

\* The indices start again from zero.
NewRow(k) == [key |-> k, index |-> <<0, 0>>]

\* Create...CryptoData: the user had no keys of this coin when crypto_data was read.
CreateKeys(h) ==
    /\ pc[h] = "write" /\ Granted(h) /\ ~Violates(h)
    /\ read[h][Coin(h)] = NoId
    /\ keysTable[Coin(h)][Target(h, Coin(h))] = Absent
    /\ SetRow(h, Target(h, Coin(h)), NewRow(keys[h][Coin(h)]))
    /\ Goto(h, "link")
    /\ UNCHANGED <<tables, requests, request, todo, found, removed, linked, derived>>

\* Set...CryptoDataByUserId
LinkKeys(h) ==
    /\ pc[h] = "link" /\ Granted(h)
    /\ linked' = [linked EXCEPT ![h] = @ \cup {Coin(h)}]
    /\ NextCoin(h)
    /\ UNCHANGED <<tables, requests, request, found, removed, write, derived>>

\* UpdateKeys...CryptoDataById.  Locking the row and looking for the key are one step:
\* of two updates that exchange their keys, each is refused in either order.
UpdateKeys(h) ==
    /\ pc[h] = "write" /\ Granted(h) /\ ~Violates(h)
    /\ read[h][Coin(h)] # NoId
    /\ SetRow(h, Target(h, Coin(h)), NewRow(keys[h][Coin(h)]))
    /\ NextCoin(h)
    /\ UNCHANGED <<tables, requests, request, found, removed, linked, derived>>

Written(h) == {c \in Coins : write[h][c] # NoWrite}

\* The keys rows h wrote are committed.
CommitWrites(h) ==
    keysTable' = [c \in Coins |->
                     [id \in RowIds |->
                         IF c \in Written(h) /\ write[h][c].id = id
                         THEN write[h][c].row ELSE keysTable[c][id]]]

\* Slip: crypto_data keeps the id it had.
KeepsId(h, c) == cryptoData[user[h]][c]

LinkedId(h, c) == IF c \in linked[h] THEN write[h][c].id ELSE cryptoData[user[h]][c]

CommitKeys(h) ==
    /\ pc[h] = "commitKeys"
    /\ CommitWrites(h)
    /\ cryptoData' = [cryptoData EXCEPT ![user[h]] = [c \in Coins |-> LinkedId(h, c)]]
    /\ addresses' = addresses \ removed[h]
    /\ survivors' = (survivors \ removed[h]) \cup
                    {a \in addresses \ removed[h] :
                        a.user = user[h] /\ a.coin \in Written(h)}
    /\ End(h)
    /\ UNCHANGED registered

-----------------------------------------------------------------------------
(* generateNextAddressHandler of createInvoice, where no address is free   *)

\* Slip: pgx.ErrNoRows of a user without keys is taken for no error.
DeriveWithoutKeys(h, u, c) ==
    /\ pc[h] = "idle" /\ requests < MaxRequests
    /\ u \in registered
    /\ requests' = requests + 1
    /\ Goto(h, "increment")
    /\ user' = [user EXCEPT ![h] = u]
    /\ todo' = [todo EXCEPT ![h] = {c}]
    /\ read' = [read EXCEPT ![h] = cryptoData[u]]
    /\ UNCHANGED <<tables, keys, writes>>

\* FindCryptoDataByUserId.  Without keys of the coin the request fails and has
\* changed nothing.
StartDerivation(h, u, c) ==
    /\ pc[h] = "idle" /\ requests < MaxRequests
    /\ u \in registered /\ cryptoData[u][c] # NoId
    /\ requests' = requests + 1
    /\ Goto(h, "increment")
    /\ user' = [user EXCEPT ![h] = u]
    /\ todo' = [todo EXCEPT ![h] = {c}]
    /\ read' = [read EXCEPT ![h] = cryptoData[u]]
    /\ UNCHANGED <<tables, keys, writes>>

\* Slip: the minor index starts again without the next major one.
MinorOnly(index) == IF index[2] >= MaxMinor THEN <<index[1], 0>> ELSE <<index[1], index[2] + 1>>

NextIndex(index) ==
    IF index[2] >= MaxMinor THEN <<index[1] + 1, 0>> ELSE <<index[1], index[2] + 1>>

\* FindKeysAndIncrementedIndices...CryptoDataById
IncrementIndex(h) ==
    /\ pc[h] = "increment" /\ Granted(h)
    /\ LET id  == Target(h, Coin(h))
           row == keysTable[Coin(h)][id]
       IN  SetRow(h, id, [row EXCEPT !.index = NextIndex(row.index)])
    /\ Goto(h, "insert")
    /\ UNCHANGED <<tables, requests, request, todo, found, removed, linked, derived>>

\* CreateCryptoAddress
InsertAddress(h) ==
    /\ pc[h] = "insert" /\ Granted(h) /\ ~Violates(h)
    /\ derived' = [derived EXCEPT ![h] = AddressToInsert(h)]
    /\ Goto(h, "commitAddress")
    /\ UNCHANGED <<tables, requests, request, todo, found, removed, write, linked>>

CommitAddress(h) ==
    /\ pc[h] = "commitAddress"
    /\ CommitWrites(h)
    /\ addresses' = addresses \cup {derived[h]}
    /\ End(h)
    /\ UNCHANGED <<registered, cryptoData, survivors>>

-----------------------------------------------------------------------------
\* The steps of a request once it has begun, failures aside.
Step(h) ==
    \/ Refused(h)
    \/ DeadlockVictim(h)
    \/ CreateUser(h)
    \/ CommitUser(h)
    \/ FindAddresses(h)
    \/ DeleteAddresses(h)
    \/ CreateKeys(h)
    \/ LinkKeys(h)
    \/ UpdateKeys(h)
    \/ CommitKeys(h)
    \/ IncrementIndex(h)
    \/ InsertAddress(h)
    \/ CommitAddress(h)

Next ==
    \E h \in Handlers :
        \/ \E u \in Users : StartRegistration(h, u)
        \/ \E u \in Users, ks \in Updates : StartUpdate(h, u, ks)
        \/ \E u \in Users, c \in Coins : StartDerivation(h, u, c)
        \/ Fail(h)
        \/ Step(h)

Spec == Init /\ [][Next]_vars

\* PostgreSQL answers, and wakes who waits for a transaction when that ends, in the order
\* in which they came: none is passed over for ever.  Nothing is promised of clients and
\* failures.
FairSpec == Spec /\ \A h \in Handlers : SF_vars(Step(h))

-----------------------------------------------------------------------------
(* Properties                                                              *)

AddressType == [user : Users, coin : Coins, key : Keys, index : Indices]

RowType == [key : Keys \cup {None}, index : Indices]

IdType == RowIds \cup {NoId}

TypeOK ==
    /\ registered \subseteq Users
    /\ cryptoData \in [Users -> [Coins -> IdType]]
    /\ keysTable \in [Coins -> [RowIds -> RowType]]
    /\ addresses \subseteq AddressType
    /\ survivors \subseteq addresses
    /\ requests \in 0..MaxRequests
    /\ pc \in [Handlers -> {"idle", "createUser", "commitUser", "delete", "remove", "write",
                            "link", "commitKeys", "increment", "insert", "commitAddress"}]
    /\ user \in [Handlers -> Users \cup {None}]
    /\ keys \in [Handlers -> [Coins -> Keys \cup {None}]]
    /\ todo \in [Handlers -> SUBSET Coins]
    /\ read \in [Handlers -> [Coins -> IdType]]
    /\ found \in [Handlers -> SUBSET AddressType]
    /\ removed \in [Handlers -> SUBSET AddressType]
    /\ write \in [Handlers -> [Coins -> [id : IdType, row : RowType]]]
    /\ linked \in [Handlers -> SUBSET Coins]
    /\ derived \in [Handlers -> AddressType \cup {NoAddress}]

\* An address createInvoice is about to hand out is not derived from keys that another
\* user has for the coin by now: its keys row is locked from the increment to the commit,
\* and the key is UNIQUE.  The payment would go to that other user.
KeyIsOwn ==
    \A h \in Handlers, v \in Users :
        (pc[h] = "commitAddress" /\ v # user[h]) =>
            LET c  == Coin(h)
                id == cryptoData[v][c]
            IN  id # NoId => keysTable[c][id].key # derived[h].key

\* createInvoice is never refused for want of a new address, unless the address is in use
\* on another coin that encodes addresses alike, or is one an UpdateCryptoKeys missed: an
\* address is derived while the DELETE of an update has run and its reset has not, or from
\* a keys row crypto_data no longer names.  The indices alone keep addresses apart.
\* It is about the addresses still in the table: one that an update has deleted may be
\* derived again, when the user sets the key it came from once more.
DerivedIsNew ==
    \A h \in Handlers : pc[h] = "insert" =>
        \A b \in addresses :
            \/ Encoded(b) # Encoded(AddressToInsert(h))
            \/ b.coin # Coin(h)
            \/ b \in survivors

\* Once UpdateCryptoKeys has committed, every coin of the request has the keys of the
\* request, unless another first update of the user has replaced the keys row since
\* crypto_data was read.
AcceptedKeysAreUsed ==
    [][\A h \in Handlers : CommitKeys(h) =>
          \A c \in Coins : keys[h][c] # None =>
              \/ cryptoData[user[h]][c] # read[h][c] /\ read[h][c] # NoId
              \/ /\ cryptoData'[user[h]][c] # NoId
                 /\ keysTable'[c][cryptoData'[user[h]][c]].key = keys[h][c]]_vars

\* Every request ends, whatever rows and keys the others hold: those that wait for each
\* other are found out by PostgreSQL, and every error path rolls back.
RequestsEnd == \A h \in Handlers : pc[h] # "idle" ~> pc[h] = "idle"
===============================================================================
