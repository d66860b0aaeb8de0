--------------------------- MODULE CryptoKeysProofs ---------------------------
(* Proofs about CryptoKeys, for every set of users, coins, keys, handlers and    *)
(* updates, every encoding of addresses and every bound.                         *)
EXTENDS CryptoKeys, WellFoundedInduction, TLAPS

HasCoin  == {"delete", "remove", "write", "link", "increment", "insert", "commitAddress"}
Deriving == {"increment", "insert", "commitAddress"}

\* What a handler knows at each step of its request.
Progress(h) ==
    /\ pc[h] = "idle" => read[h] = Unlinked /\ \A c \in Coins : write[h][c] = NoWrite
    /\ pc[h] # "idle" => user[h] \in Users
    /\ pc[h] \in HasCoin => todo[h] # {}
    /\ pc[h] \in {"delete", "remove", "write", "link"} =>
          \A c \in todo[h] : keys[h][c] \in Keys
    /\ \A c \in linked[h] : write[h][c] # NoWrite
    /\ pc[h] = "link" => write[h][Coin(h)] # NoWrite
    /\ pc[h] \in Deriving => read[h][Coin(h)] # NoId
    /\ pc[h] \in {"insert", "commitAddress"} => write[h][Coin(h)] # NoWrite
    /\ pc[h] = "commitAddress" => derived[h] = AddressToInsert(h)

\* A keys row belongs to one user, and one that has a name has a key.
RowOf(c, id, u) == id \in RowIds /\ id[1] = u /\ keysTable[c][id].key \in Keys

Owned ==
    /\ \A u \in Users, c \in Coins :
          cryptoData[u][c] # NoId => RowOf(c, cryptoData[u][c], u)
    /\ \A h \in Handlers, c \in Coins :
          /\ read[h][c] # NoId => RowOf(c, read[h][c], user[h])
          /\ write[h][c] # NoWrite =>
                /\ write[h][c].id \in RowIds /\ write[h][c].id[1] = user[h]
                /\ write[h][c].row.key \in Keys

\* What one handler has written no other has: neither the row nor the key, whether
\* that is committed or not.
Exclusive ==
    \A h \in Handlers, c \in Coins : write[h][c] # NoWrite =>
        /\ \A s \in Handlers \ {h} :
              /\ write[s][c].id # write[h][c].id
              /\ write[s][c].row.key # write[h][c].row.key
        /\ \A other \in RowIds \ {write[h][c].id} :
              keysTable[c][other].key # write[h][c].row.key

\* The UNIQUE column of a keys table.
UniqueKeys ==
    \A c \in Coins : \A i, j \in RowIds :
        (i # j /\ keysTable[c][i].key \in Keys) => keysTable[c][i].key # keysTable[c][j].key

Inv ==
    /\ TypeOK
    /\ \A h \in Handlers : Progress(h)
    /\ Owned
    /\ Exclusive
    /\ UniqueKeys

-----------------------------------------------------------------------------
\* A set of numbers has a smallest one.
LEMMA Smallest ==
  ASSUME NEW S, S \subseteq Nat, S # {}
  PROVE  \E c \in S : \A d \in S : c <= d
<1>1. \E R : IsWellFoundedOn(R, Nat) /\ \A c, d \in Nat : d < c => <<d, c>> \in R
  <2>1. \A c, d \in Nat : d < c => <<d, c>> \in OpToRel(<, Nat)
    BY DEF OpToRel
  <2> QED BY <2>1, NatLessThanWellFounded, Zenon
<1>2. PICK R : IsWellFoundedOn(R, Nat) /\ \A c, d \in Nat : d < c => <<d, c>> \in R
  BY <1>1
<1>3. PICK c \in S : \A d \in S : <<d, c>> \notin R
  BY <1>2, WFMin, Zenon
<1>4. \A d \in S : c <= d
  <2>1. TAKE d \in S
  <2>2. d \in Nat /\ c \in Nat /\ ~(d < c)
    BY <1>2, <1>3
  <2> QED BY <2>2
<1> QED BY <1>4

\* The coins of a request have a first one.
LEMMA FirstCoin ==
  ASSUME NEW h, todo[h] \subseteq Coins, todo[h] # {}
  PROVE  Coin(h) \in todo[h]
<1>1. todo[h] \subseteq Nat
  BY KeysAssumption
<1>2. \E c \in todo[h] : \A d \in todo[h] : c <= d
  BY <1>1, Smallest
<1> QED BY <1>2 DEF Coin

\* The invariant holds at the start.
LEMMA Initial == Init => Inv
<1> SUFFICES ASSUME Init PROVE Inv
  OBVIOUS
<1> USE KeysAssumption DEF Init
<1>1. TypeOK
  BY DEF TypeOK, Unlinked, NoKeys, NoWrite, Absent, NoAddress, NoId, IdType, RowType,
         Indices, RowIds
<1>2. ASSUME NEW h \in Handlers PROVE Progress(h)
  BY DEF Progress, HasCoin, Deriving
<1>3. Owned
  BY DEF Owned, Unlinked
<1>4. Exclusive
  BY DEF Exclusive
<1>5. UniqueKeys
  BY DEF UniqueKeys, Absent
<1> QED BY <1>1, <1>2, <1>3, <1>4, <1>5 DEF Inv

\* A handler whose state does not change knows what it knew.
LEMMA Unmoved ==
  ASSUME NEW g, Progress(g), pc'[g] = pc[g], user'[g] = user[g], keys'[g] = keys[g],
         todo'[g] = todo[g], read'[g] = read[g], write'[g] = write[g],
         linked'[g] = linked[g], derived'[g] = derived[g]
  PROVE  Progress(g)'
<1>1. Coin(g)' = Coin(g)
  BY DEF Coin
<1>2. AddressToInsert(g)' = AddressToInsert(g)
  BY <1>1 DEF AddressToInsert
<1> QED BY <1>1, <1>2 DEF Progress

\* Owned, Exclusive and UniqueKeys speak of what is read and written, and of no step.
LEMMA NothingWritten ==
  ASSUME Inv, UNCHANGED <<cryptoData, keysTable, user, read, write>>
  PROVE  Owned' /\ Exclusive' /\ UniqueKeys'
BY DEF Inv, Owned, RowOf, Exclusive, UniqueKeys

\* A transaction that ends without a keys row leaves those of the others alone.
LEMMA EndWithoutKeys ==
  ASSUME Inv, NEW h \in Handlers, End(h), UNCHANGED <<cryptoData, keysTable>>
  PROVE  /\ \A g \in Handlers : Progress(g)'
         /\ Owned' /\ Exclusive' /\ UniqueKeys'
<1>1. /\ pc'[h] = "idle" /\ read'[h] = Unlinked /\ linked'[h] = {}
      /\ write'[h] = [c \in Coins |-> NoWrite]
  BY DEF End, Goto, Inv, TypeOK
<1>2. \A g \in Handlers \ {h} :
        /\ pc'[g] = pc[g] /\ user'[g] = user[g] /\ keys'[g] = keys[g]
        /\ todo'[g] = todo[g] /\ read'[g] = read[g] /\ write'[g] = write[g]
        /\ linked'[g] = linked[g] /\ derived'[g] = derived[g]
  BY DEF End, Goto, Inv, TypeOK
<1>3. ASSUME NEW g \in Handlers PROVE Progress(g)'
  <2>1. CASE g = h
    BY <1>1, <2>1 DEF Progress, HasCoin, Deriving
  <2>2. CASE g # h
    BY <1>2, <2>2, Unmoved DEF Inv
  <2> QED BY <2>1, <2>2
<1>4. Owned'
  BY <1>1, <1>2 DEF Inv, Owned, RowOf, Unlinked
<1>5. Exclusive'
  <2> SUFFICES ASSUME NEW g \in Handlers, NEW c \in Coins, write'[g][c] # NoWrite
               PROVE  /\ \A s \in Handlers \ {g} :
                             /\ write'[s][c].id # write'[g][c].id
                             /\ write'[s][c].row.key # write'[g][c].row.key
                      /\ \A other \in RowIds \ {write'[g][c].id} :
                             keysTable[c][other].key # write'[g][c].row.key
    BY DEF Exclusive
  <2>1. g # h /\ write'[g] = write[g]
    BY <1>1, <1>2
  <2>2. write[g][c].id \in RowIds /\ write[g][c].row.key \in Keys
    BY <2>1 DEF Inv, Owned
  <2>3. write'[h][c].id # write[g][c].id /\ write'[h][c].row.key # write[g][c].row.key
    BY <1>1, <2>2, KeysAssumption DEF NoWrite, NoId, Absent, RowIds
  <2> QED BY <1>2, <2>1, <2>3 DEF Inv, Exclusive
<1>6. UniqueKeys'
  BY DEF Inv, UniqueKeys
<1> QED BY <1>3, <1>4, <1>5, <1>6

\* A keys row of h's user whose id and key nobody else holds.
Free(h, c, id, row) ==
    /\ id \in RowIds /\ id[1] = user[h]
    /\ row \in RowType /\ row.key \in Keys
    /\ \A s \in Handlers \ {h} : write[s][c].id # id /\ write[s][c].row.key # row.key
    /\ \A other \in RowIds \ {id} : keysTable[c][other].key # row.key

\* The row is written, and nothing else that Owned, Exclusive and UniqueKeys speak of.
Writes(h, c, id, row) ==
    /\ write' = [write EXCEPT ![h][c] = [id |-> id, row |-> row]]
    /\ UNCHANGED <<cryptoData, keysTable, user, read>>

\* Such a row may be written.
LEMMA RowWritten ==
  ASSUME Inv, NEW h \in Handlers, NEW c \in Coins, NEW id, NEW row,
         Free(h, c, id, row), Writes(h, c, id, row)
  PROVE  /\ write' \in [Handlers -> [Coins -> [id : IdType, row : RowType]]]
         /\ Owned' /\ Exclusive' /\ UniqueKeys'
<1> USE DEF Free, Writes
<1>1. /\ write'[h][c].id = id /\ write'[h][c].row = row
      /\ \A d \in Coins \ {c} : write'[h][d] = write[h][d]
      /\ \A s \in Handlers \ {h} : write'[s] = write[s]
  BY DEF Inv, TypeOK
<1>2. write' \in [Handlers -> [Coins -> [id : IdType, row : RowType]]]
  BY DEF Inv, TypeOK, IdType
<1>3. Owned'
  BY <1>1 DEF Inv, Owned, RowOf
<1>4. Exclusive'
  <2> SUFFICES ASSUME NEW g \in Handlers, NEW d \in Coins, write'[g][d] # NoWrite
               PROVE  /\ \A s \in Handlers \ {g} :
                             /\ write'[s][d].id # write'[g][d].id
                             /\ write'[s][d].row.key # write'[g][d].row.key
                      /\ \A other \in RowIds \ {write'[g][d].id} :
                             keysTable[d][other].key # write'[g][d].row.key
    BY DEF Exclusive
  <2>1. CASE d # c
    BY <1>1, <2>1 DEF Inv, Exclusive
  <2>2. CASE d = c /\ g = h
    BY <1>1, <2>2
  <2>3. CASE d = c /\ g # h
    BY <1>1, <2>3 DEF Inv, Exclusive
  <2> QED BY <2>1, <2>2, <2>3
<1>5. UniqueKeys'
  BY DEF Inv, UniqueKeys
<1> QED BY <1>2, <1>3, <1>4, <1>5

\* A commit puts rows in the tables that nobody else holds.
LEMMA KeysCommitted ==
  ASSUME Inv, NEW h \in Handlers, CommitWrites(h), End(h),
         \A u \in Users, c \in Coins :
            \/ cryptoData'[u][c] = cryptoData[u][c]
            \/ /\ u = user[h] /\ write[h][c] # NoWrite
               /\ cryptoData'[u][c] = write[h][c].id
  PROVE  /\ keysTable' \in [Coins -> [RowIds -> RowType]]
         /\ \A g \in Handlers : Progress(g)'
         /\ Owned' /\ Exclusive' /\ UniqueKeys'
<1>1. /\ pc'[h] = "idle" /\ read'[h] = Unlinked /\ linked'[h] = {}
      /\ write'[h] = [c \in Coins |-> NoWrite]
  BY DEF End, Goto, Inv, TypeOK
<1>2. \A g \in Handlers \ {h} :
        /\ pc'[g] = pc[g] /\ user'[g] = user[g] /\ keys'[g] = keys[g]
        /\ todo'[g] = todo[g] /\ read'[g] = read[g] /\ write'[g] = write[g]
        /\ linked'[g] = linked[g] /\ derived'[g] = derived[g]
  BY DEF End, Goto, Inv, TypeOK
<1>3. \A g \in Handlers : Progress(g)'
  <2> SUFFICES ASSUME NEW g \in Handlers PROVE Progress(g)'
    OBVIOUS
  <2>1. CASE g = h
    BY <1>1, <2>1 DEF Progress, HasCoin, Deriving
  <2>2. CASE g # h
    BY <1>2, <2>2, Unmoved DEF Inv
  <2> QED BY <2>1, <2>2
<1>4. \A c \in Coins, id \in RowIds :
        keysTable'[c][id] = IF write[h][c] # NoWrite /\ write[h][c].id = id
                            THEN write[h][c].row ELSE keysTable[c][id]
  BY DEF CommitWrites, Written
<1>5. keysTable' \in [Coins -> [RowIds -> RowType]]
  BY DEF CommitWrites, Inv, TypeOK
<1>6. \A c \in Coins, id \in RowIds :
        keysTable[c][id].key \in Keys => keysTable'[c][id].key \in Keys
  BY <1>4 DEF Inv, Owned
<1>7. Owned'
  <2>1. ASSUME NEW u \in Users, NEW c \in Coins, cryptoData'[u][c] # NoId
        PROVE  /\ cryptoData'[u][c] \in RowIds /\ cryptoData'[u][c][1] = u
               /\ keysTable'[c][cryptoData'[u][c]].key \in Keys
    <3>1. CASE cryptoData'[u][c] = cryptoData[u][c]
      BY <1>6, <2>1, <3>1 DEF Inv, Owned, RowOf
    <3>2. CASE u = user[h] /\ write[h][c] # NoWrite /\ cryptoData'[u][c] = write[h][c].id
      BY <1>4, <3>2 DEF Inv, Owned
    <3> QED BY <3>1, <3>2
  <2>2. ASSUME NEW g \in Handlers, NEW c \in Coins
        PROVE  /\ read'[g][c] # NoId =>
                     /\ read'[g][c] \in RowIds /\ read'[g][c][1] = user'[g]
                     /\ keysTable'[c][read'[g][c]].key \in Keys
               /\ write'[g][c] # NoWrite =>
                     /\ write'[g][c].id \in RowIds /\ write'[g][c].id[1] = user'[g]
                     /\ write'[g][c].row.key \in Keys
    <3>1. CASE g = h
      BY <1>1, <3>1 DEF Unlinked
    <3>2. CASE g # h
      BY <1>2, <1>6, <3>2 DEF Inv, Owned, RowOf
    <3> QED BY <3>1, <3>2
  <2> QED BY <2>1, <2>2 DEF Owned, RowOf
<1>8. Exclusive'
  <2> SUFFICES ASSUME NEW g \in Handlers, NEW c \in Coins, write'[g][c] # NoWrite
               PROVE  /\ \A s \in Handlers \ {g} :
                             /\ write'[s][c].id # write'[g][c].id
                             /\ write'[s][c].row.key # write'[g][c].row.key
                      /\ \A other \in RowIds \ {write'[g][c].id} :
                             keysTable'[c][other].key # write'[g][c].row.key
    BY DEF Exclusive
  <2>1. g # h /\ write'[g] = write[g]
    BY <1>1, <1>2
  <2>2. write[g][c].id \in RowIds /\ write[g][c].row.key \in Keys
    BY <2>1 DEF Inv, Owned
  <2>3. write'[h][c].id # write[g][c].id /\ write'[h][c].row.key # write[g][c].row.key
    BY <1>1, <2>2, KeysAssumption DEF NoWrite, NoId, Absent, RowIds
  <2>4. write[h][c].row.key # write[g][c].row.key
    BY <2>1 DEF Inv, Exclusive
  <2> QED BY <1>2, <1>4, <2>1, <2>3, <2>4 DEF Inv, Exclusive
<1>9. UniqueKeys'
  <2> SUFFICES ASSUME NEW c \in Coins, NEW i \in RowIds, NEW j \in RowIds, i # j,
                      keysTable'[c][i].key \in Keys
               PROVE  keysTable'[c][i].key # keysTable'[c][j].key
    BY DEF UniqueKeys
  <2>1. CASE write[h][c] = NoWrite
    BY <1>4, <2>1 DEF Inv, UniqueKeys
  <2>2. CASE write[h][c] # NoWrite
    BY <1>4, <2>2 DEF Inv, UniqueKeys, Exclusive
  <2> QED BY <2>1, <2>2
<1> QED BY <1>3, <1>5, <1>7, <1>8, <1>9

-----------------------------------------------------------------------------
\* The types of what belongs to the handlers.
LocalType ==
    /\ requests \in 0..MaxRequests
    /\ pc \in [Handlers -> {"idle", "createUser", "commitUser", "commitKeys"} \cup HasCoin]
    /\ user \in [Handlers -> Users \cup {None}]
    /\ keys \in [Handlers -> [Coins -> Keys \cup {None}]]
    /\ todo \in [Handlers -> SUBSET Coins]
    /\ read \in [Handlers -> [Coins -> IdType]]
    /\ found \in [Handlers -> SUBSET AddressType]
    /\ removed \in [Handlers -> SUBSET AddressType]
    /\ write \in [Handlers -> [Coins -> [id : IdType, row : RowType]]]
    /\ linked \in [Handlers -> SUBSET Coins]
    /\ derived \in [Handlers -> AddressType \cup {NoAddress}]

TablesType ==
    /\ registered \subseteq Users
    /\ cryptoData \in [Users -> [Coins -> IdType]]
    /\ keysTable \in [Coins -> [RowIds -> RowType]]
    /\ addresses \subseteq AddressType
    /\ survivors \subseteq addresses

\* TypeOK, in two parts.
LEMMA Types == TypeOK <=> TablesType /\ LocalType
  BY DEF TypeOK, TablesType, LocalType, HasCoin

\* The end of a transaction resets a handler to values of its types.
LEMMA EndType ==
  ASSUME LocalType, NEW h \in Handlers, End(h)
  PROVE  LocalType'
<1>1. /\ NoKeys \in [Coins -> Keys \cup {None}]
      /\ Unlinked \in [Coins -> IdType]
      /\ [c \in Coins |-> NoWrite] \in [Coins -> [id : IdType, row : RowType]]
  BY DEF NoKeys, Unlinked, IdType, NoWrite, NoId, RowType, Absent, Indices
<1> QED BY <1>1 DEF LocalType, End, Goto

\* One lemma per step of a request: the invariant is kept.
LEMMA RollbackStep ==
  ASSUME Inv, NEW h \in Handlers, Rollback(h)
  PROVE  Inv'
<1>1. End(h) /\ UNCHANGED tables
  BY DEF Rollback
<1>2. TypeOK'
  BY <1>1, Types, EndType DEF Inv, TypeOK, TablesType, LocalType, tables, HasCoin
<1> QED BY <1>1, <1>2, EndWithoutKeys DEF Inv, tables

LEMMA CommitUserStep ==
  ASSUME Inv, NEW h \in Handlers, CommitUser(h)
  PROVE  Inv'
<1>1. /\ End(h) /\ registered' = registered \cup {user[h]}
      /\ UNCHANGED <<cryptoData, keysTable, addresses, survivors>>
  BY DEF CommitUser
<1>2. user[h] \in Users
  BY DEF CommitUser, Inv, Progress
<1>3. LocalType /\ TablesType
  BY Types DEF Inv
<1>4. LocalType'
  BY <1>1, <1>3, EndType
<1>5. TablesType'
  BY <1>1, <1>2, <1>3 DEF TablesType
<1>6. TypeOK'
  BY <1>4, <1>5 DEF TypeOK, TablesType, LocalType, HasCoin
<1> QED BY <1>1, <1>6, EndWithoutKeys DEF Inv

\* A request begins by reading crypto_data, or nothing.
LEMMA Begun ==
  ASSUME Inv, NEW h \in Handlers, NEW u \in Users, pc[h] = "idle",
         user' = [user EXCEPT ![h] = u],
         read' = read \/ read' = [read EXCEPT ![h] = cryptoData[u]],
         UNCHANGED <<cryptoData, keysTable, write>>
  PROVE  Owned' /\ Exclusive' /\ UniqueKeys'
<1>1. read[h] = Unlinked /\ \A c \in Coins : write[h][c] = NoWrite
  BY DEF Inv, Progress
<1>2. /\ user'[h] = u /\ (read'[h] = Unlinked \/ read'[h] = cryptoData[u])
      /\ \A g \in Handlers \ {h} : user'[g] = user[g] /\ read'[g] = read[g]
  BY <1>1 DEF Inv, TypeOK
<1>3. Owned'
  BY <1>1, <1>2 DEF Inv, Owned, RowOf, Unlinked
<1>4. Exclusive' /\ UniqueKeys'
  BY DEF Inv, Exclusive, UniqueKeys
<1> QED BY <1>3, <1>4

LEMMA StartRegistrationStep ==
  ASSUME Inv, NEW h \in Handlers, NEW u \in Users, StartRegistration(h, u)
  PROVE  Inv'
<1>1. /\ pc[h] = "idle" /\ pc' = [pc EXCEPT ![h] = "createUser"]
      /\ user' = [user EXCEPT ![h] = u]
      /\ UNCHANGED <<registered, cryptoData, keysTable, addresses, survivors, requests,
                     keys, read, todo, found, removed, write, linked, derived>>
  BY DEF StartRegistration, Goto, tables, writes
<1>2. TypeOK'
  BY <1>1 DEF Inv, TypeOK
<1>3. ASSUME NEW g \in Handlers PROVE Progress(g)'
  <2>1. CASE g = h
    BY <1>1, <2>1 DEF Inv, TypeOK, Progress, HasCoin, Deriving
  <2>2. CASE g # h
    BY <1>1, <2>2, Unmoved DEF Inv, TypeOK
  <2> QED BY <2>1, <2>2
<1> QED BY <1>1, <1>2, <1>3, Begun DEF Inv

LEMMA StartUpdateStep ==
  ASSUME Inv, NEW h \in Handlers, NEW u \in Users, NEW ks \in Updates, StartUpdate(h, u, ks)
  PROVE  Inv'
<1>1. /\ pc[h] = "idle" /\ requests < MaxRequests
      /\ requests' = requests + 1
      /\ pc' = [pc EXCEPT ![h] = IF ks = NoKeys THEN "commitKeys" ELSE "delete"]
      /\ user' = [user EXCEPT ![h] = u]
      /\ keys' = [keys EXCEPT ![h] = ks]
      /\ todo' = [todo EXCEPT ![h] = {c \in Coins : ks[c] # None}]
      /\ read' = [read EXCEPT ![h] = cryptoData[u]]
      /\ UNCHANGED <<registered, cryptoData, keysTable, addresses, survivors,
                     found, removed, write, linked, derived>>
  BY DEF StartUpdate, Goto, tables, writes
<1>2. ks \in [Coins -> Keys \cup {None}]
  BY KeysAssumption
<1>3. TypeOK'
  BY <1>1, <1>2, KeysAssumption DEF Inv, TypeOK
<1>5. ks # NoKeys => {c \in Coins : ks[c] # None} # {}
  BY <1>2 DEF NoKeys
<1>4. ASSUME NEW g \in Handlers PROVE Progress(g)'
  <2>1. CASE g = h
    BY <1>1, <1>2, <1>5, <2>1 DEF Inv, TypeOK, Progress, HasCoin, Deriving
  <2>2. CASE g # h
    BY <1>1, <2>2, Unmoved DEF Inv, TypeOK
  <2> QED BY <2>1, <2>2
<1> QED BY <1>1, <1>3, <1>4, Begun DEF Inv

LEMMA StartDerivationStep ==
  ASSUME Inv, NEW h \in Handlers, NEW u \in Users, NEW c \in Coins, StartDerivation(h, u, c)
  PROVE  Inv'
<1>1. /\ pc[h] = "idle" /\ requests < MaxRequests /\ cryptoData[u][c] # NoId
      /\ requests' = requests + 1
      /\ pc' = [pc EXCEPT ![h] = "increment"]
      /\ user' = [user EXCEPT ![h] = u]
      /\ todo' = [todo EXCEPT ![h] = {c}]
      /\ read' = [read EXCEPT ![h] = cryptoData[u]]
      /\ UNCHANGED <<registered, cryptoData, keysTable, addresses, survivors, keys,
                     found, removed, write, linked, derived>>
  BY DEF StartDerivation, Goto, tables, writes
<1>2. TypeOK'
  BY <1>1, KeysAssumption DEF Inv, TypeOK
<1>3. todo'[h] = {c} /\ Coin(h)' = c
  BY <1>1, KeysAssumption DEF Inv, TypeOK, Coin
<1>4. ASSUME NEW g \in Handlers PROVE Progress(g)'
  <2>1. CASE g = h
    BY <1>1, <1>3, <2>1 DEF Inv, TypeOK, Progress, HasCoin, Deriving
  <2>2. CASE g # h
    BY <1>1, <2>2, Unmoved DEF Inv, TypeOK
  <2> QED BY <2>1, <2>2
<1> QED BY <1>1, <1>2, <1>4, Begun DEF Inv

\* The steps that only move on, or read.
LEMMA ReadingStep ==
  ASSUME Inv, NEW h \in Handlers,
         CreateUser(h) \/ FindAddresses(h) \/ DeleteAddresses(h)
  PROVE  Inv'
<1>1. /\ \/ pc[h] = "createUser" /\ pc' = [pc EXCEPT ![h] = "commitUser"]
         \/ pc[h] = "delete" /\ pc' = [pc EXCEPT ![h] = "remove"]
         \/ pc[h] = "remove" /\ pc' = [pc EXCEPT ![h] = "write"]
      /\ UNCHANGED <<tables, requests, request, todo, write, linked, derived>>
  BY DEF CreateUser, FindAddresses, DeleteAddresses, Goto, writes
<1>2. /\ found' \in [Handlers -> SUBSET AddressType]
      /\ removed' \in [Handlers -> SUBSET AddressType]
  <2> USE DEF Inv, TypeOK
  <2>1. CASE CreateUser(h)
    BY <2>1 DEF CreateUser, writes
  <2>2. CASE FindAddresses(h)
    BY <2>2 DEF FindAddresses
  <2>3. CASE DeleteAddresses(h)
    BY <2>3 DEF DeleteAddresses
  <2> QED BY <2>1, <2>2, <2>3
<1>3. TypeOK'
  BY <1>1, <1>2 DEF Inv, TypeOK, tables, request
<1>4. ASSUME NEW g \in Handlers PROVE Progress(g)'
  <2>1. CASE g = h
    <3>1. /\ Progress(h)
          /\ pc'[h] \in {"commitUser", "remove", "write"} /\ pc[h] # "idle"
          /\ pc'[h] \in {"remove", "write"} => pc[h] \in {"delete", "remove"}
          /\ UNCHANGED <<user, keys, todo, read, write, linked>>
      BY <1>1 DEF Inv, TypeOK, request
    <3> QED BY <3>1, <2>1 DEF Progress, HasCoin, Deriving
  <2>2. CASE g # h
    BY <1>1, <2>2, Unmoved DEF Inv, TypeOK, request
  <2> QED BY <2>1, <2>2
<1> QED BY <1>1, <1>3, <1>4, NothingWritten DEF Inv, tables, request

\* The row a handler is about to write is of its user, and no other handler holds it.
LEMMA TargetIsOwn ==
  ASSUME Inv, NEW h \in Handlers, NEW c \in Coins, pc[h] # "idle"
  PROVE  Target(h, c) \in RowIds /\ Target(h, c)[1] = user[h]
BY DEF Inv, TypeOK, Owned, RowOf, Progress, Target, RowIds

\* CreateKeys and UpdateKeys may write the key of the request.
LEMMA KeyIsFree ==
  ASSUME Inv, NEW h \in Handlers, pc[h] = "write", Granted(h), ~Violates(h)
  PROVE  /\ Coin(h) \in Coins /\ keys[h][Coin(h)] \in Keys
         /\ \A s \in Handlers \ {h} :
               /\ write[s][Coin(h)].id # Target(h, Coin(h))
               /\ write[s][Coin(h)].row.key # keys[h][Coin(h)]
         /\ \A other \in RowIds \ {Target(h, Coin(h))} :
               keysTable[Coin(h)][other].key # keys[h][Coin(h)]
<1>1. Coin(h) \in todo[h] /\ Coin(h) \in Coins
  BY FirstCoin DEF Inv, TypeOK, Progress, HasCoin
<1>2. keys[h][Coin(h)] \in Keys
  BY <1>1 DEF Inv, Progress
<1>3. ASSUME NEW s \in Handlers \ {h}
      PROVE  /\ ~RowLocked(s, Coin(h), Target(h, Coin(h)))
             /\ ~KeyContended(s, Coin(h), keys[h][Coin(h)])
  BY DEF Granted, WaitsFor
<1>4. ASSUME NEW s \in Handlers \ {h}
      PROVE  write[s][Coin(h)].row.key # keys[h][Coin(h)]
  <2>1. CASE write[s][Coin(h)] = NoWrite
    BY <1>2, <2>1, KeysAssumption DEF NoWrite, Absent
  <2>2. CASE write[s][Coin(h)] # NoWrite
    BY <1>3, <2>2 DEF KeyContended
  <2> QED BY <2>1, <2>2
<1>5. ~KeyTaken(Coin(h), keys[h][Coin(h)], Target(h, Coin(h)))
  BY DEF Violates
<1> QED BY <1>1, <1>2, <1>3, <1>4, <1>5 DEF RowLocked, KeyTaken

\* A coin is done.
LEMMA CoinDone ==
  ASSUME Inv, NEW h \in Handlers, NextCoin(h)
  PROVE  /\ pc' = [pc EXCEPT ![h] = pc'[h]] /\ pc'[h] \in {"delete", "commitKeys"}
         /\ todo' = [todo EXCEPT ![h] = todo'[h]] /\ todo'[h] \subseteq todo[h]
         /\ pc'[h] = "delete" => todo'[h] # {}
BY DEF NextCoin, Goto, Rest, Inv, TypeOK

LEMMA CreateKeysStep ==
  ASSUME Inv, NEW h \in Handlers, CreateKeys(h)
  PROVE  Inv'
<1>0. pc[h] = "write" /\ Granted(h) /\ ~Violates(h)
  BY DEF CreateKeys
<1>1. PICK c \in Coins, id \in RowIds, row \in RowType :
        c = Coin(h) /\ id = Target(h, c) /\ row = NewRow(keys[h][c])
  <2>1. /\ Coin(h) \in Coins /\ Target(h, Coin(h)) \in RowIds
        /\ NewRow(keys[h][Coin(h)]) \in RowType
    BY <1>0, KeyIsFree, TargetIsOwn DEF NewRow, RowType, Indices
  <2> QED BY <2>1
<1>2. /\ write' = [write EXCEPT ![h][c] = [id |-> id, row |-> row]]
      /\ pc' = [pc EXCEPT ![h] = "link"]
      /\ UNCHANGED <<registered, cryptoData, keysTable, addresses, survivors, requests,
                     user, keys, read, todo, found, removed, linked, derived>>
  BY <1>1 DEF CreateKeys, SetRow, Goto, tables, request
<1>3. row.key = keys[h][c] /\ row.key \in Keys /\ id[1] = user[h]
  BY <1>0, <1>1, KeyIsFree, TargetIsOwn DEF NewRow
<1>4. /\ write' \in [Handlers -> [Coins -> [id : IdType, row : RowType]]]
      /\ Owned' /\ Exclusive' /\ UniqueKeys'
  <2>1. /\ \A s \in Handlers \ {h} : write[s][c].id # id /\ write[s][c].row.key # row.key
        /\ \A other \in RowIds \ {id} : keysTable[c][other].key # row.key
    BY <1>0, <1>1, <1>3, KeyIsFree
  <2>2. Free(h, c, id, row)
    BY <1>1, <1>3, <2>1 DEF Free
  <2>3. Writes(h, c, id, row)
    BY <1>2 DEF Writes
  <2> QED BY <2>2, <2>3, RowWritten
<1>5. TypeOK'
  BY <1>2, <1>4 DEF Inv, TypeOK
<1>6. ASSUME NEW g \in Handlers PROVE Progress(g)'
  <2>1. CASE g = h
    <3>1. /\ write'[h][c].id = id /\ \A d \in Coins \ {c} : write'[h][d] = write[h][d]
          /\ pc'[h] = "link" /\ Coin(h)' = c
      BY <1>1, <1>2 DEF Inv, TypeOK, Coin
    <3>2. write'[h][c] # NoWrite
      BY <3>1, KeysAssumption DEF NoWrite, NoId, RowIds
    <3> QED BY <1>0, <1>2, <2>1, <3>1, <3>2 DEF Inv, TypeOK, Progress, HasCoin, Deriving
  <2>2. CASE g # h
    BY <1>2, <2>2, Unmoved DEF Inv, TypeOK
  <2> QED BY <2>1, <2>2
<1> QED BY <1>4, <1>5, <1>6 DEF Inv

LEMMA UpdateKeysStep ==
  ASSUME Inv, NEW h \in Handlers, UpdateKeys(h)
  PROVE  Inv'
<1>0. pc[h] = "write" /\ Granted(h) /\ ~Violates(h)
  BY DEF UpdateKeys
<1>1. PICK c \in Coins, id \in RowIds, row \in RowType :
        c = Coin(h) /\ id = Target(h, c) /\ row = NewRow(keys[h][c])
  <2>1. /\ Coin(h) \in Coins /\ Target(h, Coin(h)) \in RowIds
        /\ NewRow(keys[h][Coin(h)]) \in RowType
    BY <1>0, KeyIsFree, TargetIsOwn DEF NewRow, RowType, Indices
  <2> QED BY <2>1
<1>2. /\ write' = [write EXCEPT ![h][c] = [id |-> id, row |-> row]]
      /\ NextCoin(h)
      /\ UNCHANGED <<registered, cryptoData, keysTable, addresses, survivors, requests,
                     user, keys, read, found, removed, linked, derived>>
  BY <1>1 DEF UpdateKeys, SetRow, tables, request
<1>3. row.key = keys[h][c] /\ row.key \in Keys /\ id[1] = user[h]
  BY <1>0, <1>1, KeyIsFree, TargetIsOwn DEF NewRow
<1>4. /\ write' \in [Handlers -> [Coins -> [id : IdType, row : RowType]]]
      /\ Owned' /\ Exclusive' /\ UniqueKeys'
  <2>1. /\ \A s \in Handlers \ {h} : write[s][c].id # id /\ write[s][c].row.key # row.key
        /\ \A other \in RowIds \ {id} : keysTable[c][other].key # row.key
    BY <1>0, <1>1, <1>3, KeyIsFree
  <2>2. Free(h, c, id, row)
    BY <1>1, <1>3, <2>1 DEF Free
  <2>3. Writes(h, c, id, row)
    BY <1>2 DEF Writes
  <2> QED BY <2>2, <2>3, RowWritten
<1>5. /\ pc' = [pc EXCEPT ![h] = pc'[h]] /\ pc'[h] \in {"delete", "commitKeys"}
      /\ todo' = [todo EXCEPT ![h] = todo'[h]] /\ todo'[h] \subseteq todo[h]
      /\ pc'[h] = "delete" => todo'[h] # {}
  BY <1>2, CoinDone
<1>6. TypeOK'
  <2>1. /\ todo' \in [Handlers -> SUBSET Coins]
        /\ pc' \in [Handlers -> {"idle", "createUser", "commitUser", "delete", "remove",
                       "write", "link", "commitKeys", "increment", "insert", "commitAddress"}]
    BY <1>5 DEF Inv, TypeOK
  <2> QED BY <1>2, <1>4, <2>1 DEF Inv, TypeOK
<1>7. ASSUME NEW g \in Handlers PROVE Progress(g)'
  <2>1. CASE g = h
    <3>1. write'[h][c].id = id /\ \A d \in Coins \ {c} : write'[h][d] = write[h][d]
      BY <1>2 DEF Inv, TypeOK
    <3>2. write'[h][c] # NoWrite
      BY <3>1, KeysAssumption DEF NoWrite, NoId, RowIds
    <3> QED BY <1>0, <1>2, <1>5, <2>1, <3>1, <3>2 DEF Inv, TypeOK, Progress, HasCoin, Deriving
  <2>2. CASE g # h
    BY <1>2, <1>5, <2>2, Unmoved DEF Inv, TypeOK
  <2> QED BY <2>1, <2>2
<1> QED BY <1>4, <1>6, <1>7 DEF Inv

LEMMA IncrementIndexStep ==
  ASSUME Inv, NEW h \in Handlers, IncrementIndex(h)
  PROVE  Inv'
<1>0. pc[h] = "increment" /\ Granted(h)
  BY DEF IncrementIndex
<1>1. Coin(h) \in Coins /\ Coin(h) \in todo[h]
  BY <1>0, FirstCoin DEF Inv, TypeOK, Progress, HasCoin
<1>2. /\ read[h][Coin(h)] # NoId /\ Target(h, Coin(h)) = read[h][Coin(h)]
      /\ RowOf(Coin(h), Target(h, Coin(h)), user[h])
  BY <1>0, <1>1 DEF Inv, Progress, Deriving, Owned, Target
<1>3. keysTable[Coin(h)][Target(h, Coin(h))] \in RowType
  BY <1>1, <1>2 DEF Inv, TypeOK, RowOf
<1>4. \A index \in Indices : NextIndex(index) \in Indices
  BY DEF NextIndex, Indices
<1>5. PICK c \in Coins, id \in RowIds, row \in RowType :
        /\ c = Coin(h) /\ id = Target(h, c)
        /\ row = [keysTable[c][id] EXCEPT !.index = NextIndex(keysTable[c][id].index)]
  <2>1. [keysTable[Coin(h)][Target(h, Coin(h))] EXCEPT
            !.index = NextIndex(keysTable[Coin(h)][Target(h, Coin(h))].index)] \in RowType
    BY <1>3, <1>4 DEF RowType
  <2> QED BY <1>1, <1>2, <2>1 DEF RowOf
<1>6. /\ write' = [write EXCEPT ![h][c] = [id |-> id, row |-> row]]
      /\ pc' = [pc EXCEPT ![h] = "insert"]
      /\ UNCHANGED <<registered, cryptoData, keysTable, addresses, survivors, requests,
                     user, keys, read, todo, found, removed, linked, derived>>
  BY <1>5 DEF IncrementIndex, SetRow, Goto, tables, request
<1>7. row.key = keysTable[c][id].key /\ row.key \in Keys /\ id[1] = user[h]
  BY <1>2, <1>3, <1>5 DEF RowOf, RowType
<1>8. Free(h, c, id, row)
  <2>1. ASSUME NEW s \in Handlers \ {h}
        PROVE  write[s][c].id # id /\ write[s][c].row.key # row.key
    <3>1. write[s][c].id # id
      BY <1>0, <1>5 DEF Granted, WaitsFor, RowLocked
    <3>2. CASE write[s][c] = NoWrite
      BY <1>7, <3>1, <3>2, KeysAssumption DEF NoWrite, Absent
    <3>3. CASE write[s][c] # NoWrite
      BY <1>7, <3>1, <3>3 DEF Inv, Exclusive
    <3> QED BY <3>2, <3>3
  <2>2. \A other \in RowIds \ {id} : keysTable[c][other].key # row.key
    BY <1>7 DEF Inv, UniqueKeys
  <2> QED BY <1>7, <2>1, <2>2 DEF Free
<1>9. /\ write' \in [Handlers -> [Coins -> [id : IdType, row : RowType]]]
      /\ Owned' /\ Exclusive' /\ UniqueKeys'
  <2>1. Writes(h, c, id, row)
    BY <1>6 DEF Writes
  <2> QED BY <1>8, <2>1, RowWritten
<1>10. TypeOK'
  BY <1>6, <1>9 DEF Inv, TypeOK
<1>11. ASSUME NEW g \in Handlers PROVE Progress(g)'
  <2>1. CASE g = h
    <3>1. /\ write'[h][c].id = id /\ \A d \in Coins \ {c} : write'[h][d] = write[h][d]
          /\ pc'[h] = "insert" /\ Coin(h)' = c
      BY <1>5, <1>6 DEF Inv, TypeOK, Coin
    <3>2. write'[h][c] # NoWrite
      BY <3>1, KeysAssumption DEF NoWrite, NoId, RowIds
    <3>3. /\ user[h] \in Users /\ todo[h] # {} /\ read[h][c] # NoId
          /\ linked[h] \in SUBSET Coins /\ \A d \in linked[h] : write[h][d] # NoWrite
      BY <1>0, <1>2, <1>5 DEF Inv, TypeOK, Progress, HasCoin, Deriving
    <3>4. \A d \in linked[h] : write'[h][d] # NoWrite
      BY <3>1, <3>2, <3>3
    <3> QED BY <1>6, <2>1, <3>1, <3>2, <3>3, <3>4 DEF Progress
  <2>2. CASE g # h
    BY <1>6, <2>2, Unmoved DEF Inv, TypeOK
  <2> QED BY <2>1, <2>2
<1> QED BY <1>9, <1>10, <1>11 DEF Inv

LEMMA LinkKeysStep ==
  ASSUME Inv, NEW h \in Handlers, LinkKeys(h)
  PROVE  Inv'
<1>1. /\ pc[h] = "link" /\ NextCoin(h)
      /\ linked' = [linked EXCEPT ![h] = @ \cup {Coin(h)}]
      /\ UNCHANGED <<registered, cryptoData, keysTable, addresses, survivors, requests,
                     user, keys, read, found, removed, write, derived>>
  BY DEF LinkKeys, tables, request
<1>2. Coin(h) \in Coins /\ write[h][Coin(h)] # NoWrite
  BY <1>1, FirstCoin DEF Inv, TypeOK, Progress, HasCoin
<1>3. /\ pc' = [pc EXCEPT ![h] = pc'[h]] /\ pc'[h] \in {"delete", "commitKeys"}
      /\ todo' = [todo EXCEPT ![h] = todo'[h]] /\ todo'[h] \subseteq todo[h]
      /\ pc'[h] = "delete" => todo'[h] # {}
  BY <1>1, CoinDone
<1>4. TypeOK'
  <2>1. /\ todo' \in [Handlers -> SUBSET Coins]
        /\ pc' \in [Handlers -> {"idle", "createUser", "commitUser", "delete", "remove",
                       "write", "link", "commitKeys", "increment", "insert", "commitAddress"}]
    BY <1>3 DEF Inv, TypeOK
  <2> QED BY <1>1, <1>2, <2>1 DEF Inv, TypeOK
<1>5. ASSUME NEW g \in Handlers PROVE Progress(g)'
  <2>1. CASE g = h
    BY <1>1, <1>2, <1>3, <2>1 DEF Inv, TypeOK, Progress, HasCoin, Deriving
  <2>2. CASE g # h
    BY <1>1, <1>3, <2>2, Unmoved DEF Inv, TypeOK
  <2> QED BY <2>1, <2>2
<1> QED BY <1>1, <1>4, <1>5, NothingWritten DEF Inv

\* What a derivation is about to insert.
LEMMA AddressTyped ==
  ASSUME Inv, NEW h \in Handlers, pc[h] \in {"insert", "commitAddress"}
  PROVE  /\ AddressToInsert(h) \in AddressType
         /\ AddressToInsert(h).key = write[h][Coin(h)].row.key
         /\ Coin(h) \in Coins /\ write[h][Coin(h)] # NoWrite
<1>1. Coin(h) \in Coins /\ write[h][Coin(h)] # NoWrite /\ user[h] \in Users
  BY FirstCoin DEF Inv, TypeOK, Progress, HasCoin
<1>2. write[h][Coin(h)].row.key \in Keys /\ write[h][Coin(h)].row \in RowType
  BY <1>1 DEF Inv, TypeOK, Owned
<1> QED BY <1>1, <1>2 DEF AddressToInsert, AddressType, RowType

LEMMA InsertAddressStep ==
  ASSUME Inv, NEW h \in Handlers, InsertAddress(h)
  PROVE  Inv'
<1>1. /\ pc[h] = "insert" /\ pc' = [pc EXCEPT ![h] = "commitAddress"]
      /\ derived' = [derived EXCEPT ![h] = AddressToInsert(h)]
      /\ UNCHANGED <<registered, cryptoData, keysTable, addresses, survivors, requests,
                     user, keys, read, todo, found, removed, write, linked>>
  BY DEF InsertAddress, Goto, tables, request
<1>2. TypeOK'
  BY <1>1, AddressTyped DEF Inv, TypeOK
<1>3. ASSUME NEW g \in Handlers PROVE Progress(g)'
  <2>1. CASE g = h
    <3>1. Coin(h)' = Coin(h) /\ AddressToInsert(h)' = AddressToInsert(h)
      BY <1>1 DEF Coin, AddressToInsert
    <3> QED BY <1>1, <2>1, <3>1 DEF Inv, TypeOK, Progress, HasCoin, Deriving
  <2>2. CASE g # h
    BY <1>1, <2>2, Unmoved DEF Inv, TypeOK
  <2> QED BY <2>1, <2>2
<1> QED BY <1>1, <1>2, <1>3, NothingWritten DEF Inv

LEMMA CommitKeysStep ==
  ASSUME Inv, NEW h \in Handlers, CommitKeys(h)
  PROVE  Inv'
<1>1. /\ CommitWrites(h) /\ End(h)
      /\ cryptoData' = [cryptoData EXCEPT ![user[h]] = [c \in Coins |-> LinkedId(h, c)]]
      /\ addresses' = addresses \ removed[h] /\ survivors' \subseteq addresses'
      /\ UNCHANGED registered
  BY DEF CommitKeys, Inv, TypeOK
<1>2. user[h] \in Users
  BY DEF CommitKeys, Inv, Progress
<1>3. \A u \in Users, c \in Coins :
        \/ cryptoData'[u][c] = cryptoData[u][c]
        \/ /\ u = user[h] /\ write[h][c] # NoWrite
           /\ cryptoData'[u][c] = write[h][c].id
  BY <1>1, <1>2 DEF LinkedId, Inv, TypeOK, Progress
<1>4. cryptoData' \in [Users -> [Coins -> IdType]]
  BY <1>1, <1>2 DEF LinkedId, Inv, TypeOK
<1>5. LocalType'
  BY <1>1, Types, EndType DEF Inv
<1>6. /\ keysTable' \in [Coins -> [RowIds -> RowType]]
      /\ \A g \in Handlers : Progress(g)'
      /\ Owned' /\ Exclusive' /\ UniqueKeys'
  BY <1>1, <1>3, KeysCommitted
<1>7. TypeOK'
  BY <1>1, <1>4, <1>5, <1>6 DEF Inv, TypeOK, LocalType, HasCoin
<1> QED BY <1>6, <1>7 DEF Inv

LEMMA CommitAddressStep ==
  ASSUME Inv, NEW h \in Handlers, CommitAddress(h)
  PROVE  Inv'
<1>1. /\ CommitWrites(h) /\ End(h) /\ pc[h] = "commitAddress"
      /\ addresses' = addresses \cup {derived[h]}
      /\ UNCHANGED <<registered, cryptoData, survivors>>
  BY DEF CommitAddress
<1>2. derived[h] \in AddressType
  BY <1>1, AddressTyped DEF Inv, Progress
<1>3. LocalType'
  BY <1>1, Types, EndType DEF Inv
<1>4. /\ keysTable' \in [Coins -> [RowIds -> RowType]]
      /\ \A g \in Handlers : Progress(g)'
      /\ Owned' /\ Exclusive' /\ UniqueKeys'
  BY <1>1, KeysCommitted
<1>5. TypeOK'
  BY <1>1, <1>2, <1>3, <1>4 DEF Inv, TypeOK, LocalType, HasCoin
<1> QED BY <1>4, <1>5 DEF Inv

\* Every step keeps the invariant.
LEMMA Inductive == Inv /\ [Next]_vars => Inv'
<1> SUFFICES ASSUME Inv, [Next]_vars PROVE Inv'
  OBVIOUS
<1>1. CASE UNCHANGED vars
  <2>1. UNCHANGED <<registered, cryptoData, keysTable, addresses, survivors, requests, pc, user,
                    keys, todo, read, found, removed, write, linked, derived>>
    BY <1>1 DEF vars, tables, request, writes
  <2>2. TypeOK'
    BY <2>1 DEF Inv, TypeOK
  <2>3. \A h \in Handlers : Progress(h)'
    BY <2>1, Unmoved DEF Inv
  <2> QED BY <2>1, <2>2, <2>3, NothingWritten DEF Inv
<1>2. ASSUME NEW h \in Handlers, Step(h) \/ Fail(h) PROVE Inv'
  <2>1. CASE Fail(h) \/ Refused(h) \/ DeadlockVictim(h)
    BY <2>1, RollbackStep DEF Fail, Refused, DeadlockVictim
  <2>2. CASE CreateUser(h) \/ FindAddresses(h) \/ DeleteAddresses(h)
    BY <2>2, ReadingStep
  <2>3. CASE CommitUser(h)
    BY <2>3, CommitUserStep
  <2>4. CASE CreateKeys(h)
    BY <2>4, CreateKeysStep
  <2>5. CASE LinkKeys(h)
    BY <2>5, LinkKeysStep
  <2>6. CASE UpdateKeys(h)
    BY <2>6, UpdateKeysStep
  <2>7. CASE CommitKeys(h)
    BY <2>7, CommitKeysStep
  <2>8. CASE IncrementIndex(h)
    BY <2>8, IncrementIndexStep
  <2>9. CASE InsertAddress(h)
    BY <2>9, InsertAddressStep
  <2>10. CASE CommitAddress(h)
    BY <2>10, CommitAddressStep
  <2> QED BY <1>2, <2>1, <2>2, <2>3, <2>4, <2>5, <2>6, <2>7, <2>8, <2>9, <2>10 DEF Step
<1>3. ASSUME NEW h \in Handlers, NEW u \in Users,
             \/ StartRegistration(h, u)
             \/ \E ks \in Updates : StartUpdate(h, u, ks)
             \/ \E c \in Coins : StartDerivation(h, u, c)
      PROVE  Inv'
  BY <1>3, StartRegistrationStep, StartUpdateStep, StartDerivationStep
<1> QED BY <1>1, <1>2, <1>3 DEF Next

\* The address of a derivation is from the keys of its user alone.
LEMMA OwnKey == Inv => KeyIsOwn
<1> SUFFICES ASSUME Inv, NEW h \in Handlers, NEW v \in Users,
                    pc[h] = "commitAddress", v # user[h], cryptoData[v][Coin(h)] # NoId
             PROVE  keysTable[Coin(h)][cryptoData[v][Coin(h)]].key # derived[h].key
  BY DEF KeyIsOwn
<1>1. /\ Coin(h) \in Coins /\ write[h][Coin(h)] # NoWrite
      /\ derived[h].key = write[h][Coin(h)].row.key
  BY AddressTyped DEF Inv, Progress
<1>2. /\ cryptoData[v][Coin(h)] \in RowIds /\ cryptoData[v][Coin(h)][1] = v
      /\ write[h][Coin(h)].id[1] = user[h]
  BY <1>1 DEF Inv, Owned, RowOf
<1> QED BY <1>1, <1>2 DEF Inv, Exclusive

\* It holds throughout.
LEMMA SpecInv == Spec => []Inv
  BY Initial, Inductive, PTL DEF Spec

\* RegisterUser, UpdateCryptoKeys and the derivation of addresses keep the tables and
\* what the handlers know of them well formed.
THEOREM KeysTypeCorrect == Spec => []TypeOK
  BY SpecInv, PTL DEF Inv

\* createInvoice hands out no address derived from keys another user has for the coin,
\* for any number of users, requests and key updates at once.
THEOREM AddressesAreOwn == Spec => []KeyIsOwn
  BY SpecInv, OwnKey, PTL

-----------------------------------------------------------------------------
(* New addresses: the indices of a keys row only grow, until it has another key.  *)

\* Index i is not after index j.
Upto(i, j) == i[1] < j[1] \/ (i[1] = j[1] /\ i[2] <= j[2])

\* An address no UpdateCryptoKeys has missed is one of those its user's keys row has
\* counted.
Counted ==
    \A b \in addresses \ survivors : \E id \in RowIds :
        /\ id[1] = b.user /\ keysTable[b.coin][id].key = b.key
        /\ Upto(b.index, keysTable[b.coin][id].index)

\* A derivation holds one keys row, with the next index and the committed key.
Incremented(h) ==
    /\ pc[h] = "increment" => \A d \in Coins : write[h][d] = NoWrite
    /\ pc[h] \in {"insert", "commitAddress"} =>
          \A d \in Coins : write[h][d] # NoWrite =>
              LET row == keysTable[d][write[h][d].id]
              IN  /\ d = Coin(h)
                  /\ write[h][d].row.key = row.key
                  /\ write[h][d].row.index = NextIndex(row.index)

\* What an update has done for a coin: written its key into the row it read, or into a
\* new one.
Replaced(h, c) ==
    /\ write[h][c] # NoWrite
    /\ write[h][c].row.key = keys[h][c]
    /\ read[h][c] # NoId => write[h][c].id = read[h][c]

\* An update has replaced the keys of every coin it has left behind, and linked what it
\* created.
Updated(h) ==
    pc[h] \in {"delete", "remove", "write", "link", "commitKeys"} =>
        /\ \A c \in Coins : keys[h][c] # None /\ c \notin todo[h] =>
              Replaced(h, c) /\ (read[h][c] = NoId => c \in linked[h])
        /\ pc[h] = "link" => Replaced(h, Coin(h))
        /\ pc[h] = "commitKeys" => todo[h] = {}

Fresh == Counted /\ \A h \in Handlers : Incremented(h) /\ Updated(h)

\* The next index is after every index up to the last one.
LEMMA NextIsLater ==
  ASSUME NEW i \in Indices
  PROVE  ~Upto(NextIndex(i), i) /\ \A j \in Indices : Upto(j, i) => Upto(j, NextIndex(i))
BY KeysAssumption DEF Indices, Upto, NextIndex

\* A request of handler h begins, goes on or ends.
Moves(h) ==
    \/ \E u \in Users : StartRegistration(h, u)
    \/ \E u \in Users, ks \in Updates : StartUpdate(h, u, ks)
    \/ \E u \in Users, c \in Coins : StartDerivation(h, u, c)
    \/ Fail(h)
    \/ Step(h)

Same(g) ==
    /\ pc'[g] = pc[g] /\ user'[g] = user[g] /\ keys'[g] = keys[g] /\ todo'[g] = todo[g]
    /\ read'[g] = read[g] /\ write'[g] = write[g] /\ linked'[g] = linked[g]

\* The requests of the others stay where they are.
LEMMA OthersStay ==
  ASSUME Inv, NEW h \in Handlers, Moves(h)
  PROVE  \A g \in Handlers \ {h} : Same(g)
<1> USE DEF Inv, TypeOK, Same, Goto, tables, request, writes
<1>1. ASSUME NEW u \in Users, StartRegistration(h, u)
      PROVE  \A g \in Handlers \ {h} : Same(g)
  BY <1>1 DEF StartRegistration
<1>2. ASSUME NEW u \in Users, NEW ks \in Updates, StartUpdate(h, u, ks)
      PROVE  \A g \in Handlers \ {h} : Same(g)
  BY <1>2 DEF StartUpdate
<1>3. ASSUME NEW u \in Users, NEW c \in Coins, StartDerivation(h, u, c)
      PROVE  \A g \in Handlers \ {h} : Same(g)
  BY <1>3 DEF StartDerivation
<1>4. CASE End(h)
  BY <1>4 DEF End
<1>5. CASE CreateUser(h) \/ FindAddresses(h) \/ DeleteAddresses(h)
  BY <1>5 DEF CreateUser, FindAddresses, DeleteAddresses
<1>6. CASE CreateKeys(h)
  BY <1>6 DEF CreateKeys, SetRow
<1>7. CASE LinkKeys(h)
  BY <1>7 DEF LinkKeys, NextCoin
<1>8. CASE UpdateKeys(h)
  BY <1>8 DEF UpdateKeys, SetRow, NextCoin
<1>9. CASE IncrementIndex(h)
  BY <1>9 DEF IncrementIndex, SetRow
<1>10. CASE InsertAddress(h)
  BY <1>10 DEF InsertAddress
<1>11. Step(h) \/ Fail(h) =>
         \/ End(h) \/ CreateUser(h) \/ FindAddresses(h) \/ DeleteAddresses(h)
         \/ CreateKeys(h) \/ LinkKeys(h) \/ UpdateKeys(h) \/ IncrementIndex(h)
         \/ InsertAddress(h)
  BY DEF Step, Fail, Refused, DeadlockVictim, Rollback, CommitUser, CommitKeys,
         CommitAddress
<1> QED BY <1>1, <1>2, <1>3, <1>4, <1>5, <1>6, <1>7, <1>8, <1>9, <1>10, <1>11 DEF Moves

\* Only a commit changes a keys table, and no row of it that another handler has written.
LEMMA LockedRowKept ==
  ASSUME Inv, NEW h \in Handlers, Moves(h), NEW g \in Handlers, NEW c \in Coins,
         write[g][c] # NoWrite, g # h \/ UNCHANGED keysTable
  PROVE  keysTable'[c][write[g][c].id] = keysTable[c][write[g][c].id]
<1>1. UNCHANGED keysTable \/ CommitWrites(h)
  BY DEF Moves, StartRegistration, StartUpdate, StartDerivation, Step, Fail, Refused,
         DeadlockVictim, Rollback, CreateUser, CommitUser, FindAddresses, DeleteAddresses,
         CreateKeys, LinkKeys, UpdateKeys, CommitKeys, IncrementIndex, InsertAddress,
         CommitAddress, tables
<1>2. CASE CommitWrites(h) /\ g # h
  <2>1. write[g][c].id \in RowIds
    BY DEF Inv, Owned
  <2>2. write[h][c] # NoWrite => write[h][c].id # write[g][c].id
    BY <1>2 DEF Inv, Exclusive
  <2> QED BY <1>2, <2>1, <2>2 DEF CommitWrites, Written
<1> QED BY <1>1, <1>2

\* A derivation keeps its row and its index until it ends.
LEMMA IncrementedStep ==
  ASSUME Inv, NEW h \in Handlers, Moves(h), \A g \in Handlers : Incremented(g)
  PROVE  \A g \in Handlers : Incremented(g)'
<1> SUFFICES ASSUME NEW g \in Handlers PROVE Incremented(g)'
  OBVIOUS
<1> USE DEF Incremented
<1>1. CASE g # h
  <2>1. Same(g)
    BY <1>1, OthersStay
  <2>2. Coin(g)' = Coin(g)
    BY <2>1 DEF Same, Coin
  <2>3. \A c \in Coins : write[g][c] # NoWrite =>
           keysTable'[c][write[g][c].id] = keysTable[c][write[g][c].id]
    BY <1>1, LockedRowKept
  <2> QED BY <2>1, <2>2, <2>3 DEF Same
<1>2. CASE g = h
  <2> USE <1>2
  <2>1. ASSUME NEW u \in Users, NEW c \in Coins, StartDerivation(h, u, c)
        PROVE  Incremented(h)'
    BY <2>1 DEF StartDerivation, writes, Goto, Inv, TypeOK, Progress
  <2>2. CASE IncrementIndex(h)
    <3>1. /\ pc[h] = "increment" /\ pc' = [pc EXCEPT ![h] = "insert"]
          /\ UNCHANGED <<keysTable, todo>>
      BY <2>2 DEF IncrementIndex, Goto, tables
    <3>2. Coin(h) \in Coins /\ Target(h, Coin(h)) \in RowIds /\ Coin(h)' = Coin(h)
      BY <3>1, FirstCoin, TargetIsOwn DEF Inv, TypeOK, Progress, HasCoin, Coin
    <3>3. PICK c \in Coins, id \in RowIds : c = Coin(h) /\ id = Target(h, c)
      BY <3>2
    <3>4. write' = [write EXCEPT ![h][c] =
              [id |-> id, row |-> [keysTable[c][id] EXCEPT !.index = NextIndex(@)]]]
      BY <2>2, <3>3 DEF IncrementIndex, SetRow
    <3>5. /\ write'[h][c].id = id /\ write'[h][c].row.key = keysTable[c][id].key
          /\ write'[h][c].row.index = NextIndex(keysTable[c][id].index)
          /\ \A d \in Coins \ {c} : write'[h][d] = NoWrite
      BY <3>1, <3>4 DEF Inv, TypeOK, RowType
    <3> QED BY <3>1, <3>2, <3>3, <3>5 DEF Inv, TypeOK
  <2>3. CASE InsertAddress(h)
    <3>1. /\ Coin(h)' = Coin(h) /\ UNCHANGED <<keysTable, write>>
          /\ pc[h] = "insert" /\ pc'[h] = "commitAddress"
      BY <2>3 DEF InsertAddress, Coin, Goto, tables, Inv, TypeOK
    <3> QED BY <3>1
  <2>4. pc'[h] \notin Deriving \/ IncrementIndex(h) \/ InsertAddress(h)
        \/ \E u \in Users, c \in Coins : StartDerivation(h, u, c)
    <3>1. pc \in [Handlers -> {"idle", "createUser", "commitUser", "delete", "remove", "write",
                               "link", "commitKeys", "increment", "insert", "commitAddress"}]
      BY DEF Inv, TypeOK
    <3>2. CASE \/ \E u \in Users : StartRegistration(h, u)
               \/ \E u \in Users, ks \in Updates : StartUpdate(h, u, ks)
               \/ Fail(h)
      BY <3>1, <3>2 DEF StartRegistration, StartUpdate, Fail, Rollback, End, Goto, Deriving
    <3>3. CASE Refused(h) \/ DeadlockVictim(h)
      BY <3>1, <3>3 DEF Refused, DeadlockVictim, Rollback, End, Goto, Deriving
    <3>4. CASE CreateUser(h) \/ CommitUser(h) \/ FindAddresses(h) \/ DeleteAddresses(h)
      BY <3>1, <3>4
         DEF CreateUser, CommitUser, FindAddresses, DeleteAddresses, End, NextCoin, Goto,
             Deriving
    <3>5. CASE CreateKeys(h) \/ LinkKeys(h) \/ UpdateKeys(h)
      BY <3>1, <3>5 DEF CreateKeys, LinkKeys, UpdateKeys, NextCoin, Goto, Deriving
    <3>6. CASE CommitKeys(h) \/ CommitAddress(h)
      BY <3>1, <3>6 DEF CommitKeys, CommitAddress, End, Goto, Deriving
    <3> QED BY <3>2, <3>3, <3>4, <3>5, <3>6 DEF Moves, Step
  <2> QED BY <2>1, <2>2, <2>3, <2>4 DEF Deriving
<1> QED BY <1>1, <1>2

\* No row counts less than it did, and an update makes survivors of what it missed.
LEMMA CountedStep ==
  ASSUME Inv, NEW h \in Handlers, Moves(h), Counted, Incremented(h)
  PROVE  Counted'
<1>1. CASE CommitKeys(h)
  <2>1. /\ CommitWrites(h) /\ addresses' = addresses \ removed[h]
        /\ survivors' = (survivors \ removed[h]) \cup
               {a \in addresses \ removed[h] : a.user = user[h] /\ a.coin \in Written(h)}
    BY <1>1 DEF CommitKeys
  <2> SUFFICES ASSUME NEW b \in addresses' \ survivors'
               PROVE  \E id \in RowIds :
                         /\ id[1] = b.user /\ keysTable'[b.coin][id].key = b.key
                         /\ Upto(b.index, keysTable'[b.coin][id].index)
    BY DEF Counted
  <2>2. /\ b \in addresses \ survivors /\ b.coin \in Coins
        /\ b.user # user[h] \/ write[h][b.coin] = NoWrite
    BY <2>1 DEF Inv, TypeOK, AddressType, Written
  <2>3. PICK id \in RowIds :
           /\ id[1] = b.user /\ keysTable[b.coin][id].key = b.key
           /\ Upto(b.index, keysTable[b.coin][id].index)
    BY <2>2 DEF Counted
  <2>4. keysTable'[b.coin][id] = keysTable[b.coin][id]
    BY <2>1, <2>2, <2>3 DEF CommitWrites, Written, Inv, Owned
  <2> QED BY <2>3, <2>4
<1>2. CASE CommitAddress(h)
  <2>1. /\ CommitWrites(h) /\ addresses' = addresses \cup {derived[h]}
        /\ UNCHANGED survivors /\ pc[h] = "commitAddress"
    BY <1>2 DEF CommitAddress
  <2>2. /\ derived[h] = AddressToInsert(h)
        /\ Coin(h) \in Coins /\ write[h][Coin(h)] # NoWrite
    BY <2>1, AddressTyped DEF Inv, Progress
  <2>3. /\ write[h][Coin(h)].id \in RowIds
        /\ write[h][Coin(h)].id[1] = user[h]
        /\ keysTable'[Coin(h)][write[h][Coin(h)].id] = write[h][Coin(h)].row
        /\ write[h][Coin(h)].row.index \in Indices
    BY <2>1, <2>2 DEF Inv, TypeOK, Owned, CommitWrites, Written, RowType
  <2>4. ASSUME NEW b \in addresses \ survivors
        PROVE  \E id \in RowIds :
                  /\ id[1] = b.user /\ keysTable'[b.coin][id].key = b.key
                  /\ Upto(b.index, keysTable'[b.coin][id].index)
    <3>1. b.coin \in Coins /\ b.index \in Indices
      BY DEF Inv, TypeOK, AddressType
    <3>2. PICK id \in RowIds :
             /\ id[1] = b.user /\ keysTable[b.coin][id].key = b.key
             /\ Upto(b.index, keysTable[b.coin][id].index)
      BY DEF Counted
    <3>3. CASE write[h][b.coin] # NoWrite /\ write[h][b.coin].id = id
      <4>1. /\ keysTable'[b.coin][id] = write[h][b.coin].row
            /\ write[h][b.coin].row.key = keysTable[b.coin][id].key
            /\ write[h][b.coin].row.index = NextIndex(keysTable[b.coin][id].index)
        BY <2>1, <3>1, <3>3 DEF CommitWrites, Written, Incremented
      <4>2. keysTable[b.coin][id].index \in Indices
        BY <3>1 DEF Inv, TypeOK, RowType
      <4> QED BY <3>1, <3>2, <4>1, <4>2, NextIsLater
    <3>4. CASE ~(write[h][b.coin] # NoWrite /\ write[h][b.coin].id = id)
      BY <2>1, <3>1, <3>2, <3>4 DEF CommitWrites, Written
    <3> QED BY <3>3, <3>4
  <2>5. \E id \in RowIds :
           /\ id[1] = derived[h].user
           /\ keysTable'[derived[h].coin][id].key = derived[h].key
           /\ Upto(derived[h].index, keysTable'[derived[h].coin][id].index)
    BY <2>2, <2>3 DEF AddressToInsert, Upto, Indices
  <2> QED BY <2>1, <2>4, <2>5 DEF Counted
<1>3. CASE ~CommitKeys(h) /\ ~CommitAddress(h)
  <2>1. UNCHANGED <<keysTable, addresses, survivors>>
    BY <1>3 DEF Moves, StartRegistration, StartUpdate, StartDerivation, Step, Fail,
           Refused, DeadlockVictim, Rollback, CreateUser, CommitUser, FindAddresses,
           DeleteAddresses, CreateKeys, LinkKeys, UpdateKeys, IncrementIndex,
           InsertAddress, tables
  <2> QED BY <2>1 DEF Counted
<1> QED BY <1>1, <1>2, <1>3

\* An update of the keys does its coins one after the other.
LEMMA UpdatedStep ==
  ASSUME Inv, NEW h \in Handlers, Moves(h), \A g \in Handlers : Updated(g)
  PROVE  \A g \in Handlers : Updated(g)'
<1> SUFFICES ASSUME NEW g \in Handlers PROVE Updated(g)'
  OBVIOUS
<1>1. CASE g # h
  <2>1. Same(g)
    BY <1>1, OthersStay
  <2>2. Coin(g)' = Coin(g)
    BY <2>1 DEF Same, Coin
  <2> QED BY <2>1, <2>2 DEF Same, Updated, Replaced
<1>2. CASE g = h
  <2> USE <1>2
  <2>1. ASSUME NEW u \in Users, NEW ks \in Updates, StartUpdate(h, u, ks)
        PROVE  Updated(h)'
    <3>1. /\ pc'[h] = (IF ks = NoKeys THEN "commitKeys" ELSE "delete")
          /\ keys'[h] = ks /\ todo'[h] = {c \in Coins : ks[c] # None}
      BY <2>1 DEF StartUpdate, Goto, Inv, TypeOK
    <3>2. \A c \in Coins : NoKeys[c] = None
      BY DEF NoKeys
    <3> QED BY <3>1, <3>2 DEF Updated
  <2>2. CASE FindAddresses(h) \/ DeleteAddresses(h)
    <3>1. /\ pc[h] \in {"delete", "remove"} /\ pc'[h] \in {"remove", "write"}
          /\ UNCHANGED <<keys, todo, read, write, linked>>
      BY <2>2 DEF FindAddresses, DeleteAddresses, request, Goto, Inv, TypeOK
    <3> QED BY <3>1 DEF Updated, Replaced
  <2>3. CASE CreateKeys(h) \/ UpdateKeys(h)
    <3>0. pc[h] = "write" /\ Granted(h) /\ ~Violates(h)
      BY <2>3 DEF CreateKeys, UpdateKeys
    <3>1. /\ Coin(h) \in Coins /\ Coin(h) \in todo[h] /\ Target(h, Coin(h)) \in RowIds
      BY <3>0, FirstCoin, TargetIsOwn DEF Inv, TypeOK, Progress, HasCoin
    <3>2. PICK c \in Coins, id \in RowIds : c = Coin(h) /\ id = Target(h, c)
      BY <3>1
    <3>3. /\ write' = [write EXCEPT ![h][c] = [id |-> id, row |-> NewRow(keys[h][c])]]
          /\ UNCHANGED <<keys, read, linked>>
      BY <2>3, <3>2 DEF CreateKeys, UpdateKeys, SetRow, request
    <3>4. /\ write'[h][c].id = id /\ write'[h][c].row.key = keys[h][c]
          /\ \A d \in Coins \ {c} : write'[h][d] = write[h][d]
      BY <3>3 DEF Inv, TypeOK, NewRow
    <3>5. /\ Replaced(h, c)'
          /\ \A d \in Coins \ {c} : Replaced(h, d)' <=> Replaced(h, d)
      BY <3>2, <3>3, <3>4, KeysAssumption DEF Replaced, Target, NoWrite, NoId, RowIds
    <3>6. CASE CreateKeys(h)
      <4>1. /\ pc'[h] = "link" /\ UNCHANGED todo /\ Coin(h)' = c
        BY <3>2, <3>6 DEF CreateKeys, Goto, Inv, TypeOK, Coin
      <4> QED BY <3>0, <3>1, <3>2, <3>3, <3>5, <4>1 DEF Updated
    <3>7. CASE UpdateKeys(h)
      <4>1. /\ pc'[h] = (IF Rest(h) = {} THEN "commitKeys" ELSE "delete")
            /\ todo'[h] = todo[h] \ {c} /\ Rest(h) = todo'[h] /\ read[h][c] # NoId
        BY <3>2, <3>7 DEF UpdateKeys, NextCoin, Rest, Goto, Inv, TypeOK
      <4> QED BY <3>0, <3>2, <3>3, <3>5, <4>1 DEF Updated
    <3> QED BY <2>3, <3>6, <3>7
  <2>4. CASE LinkKeys(h)
    <3>1. /\ pc[h] = "link" /\ linked'[h] = linked[h] \cup {Coin(h)}
          /\ pc'[h] = (IF Rest(h) = {} THEN "commitKeys" ELSE "delete")
          /\ todo'[h] = todo[h] \ {Coin(h)} /\ Rest(h) = todo'[h]
          /\ UNCHANGED <<keys, read, write>>
      BY <2>4 DEF LinkKeys, NextCoin, Rest, Goto, request, Inv, TypeOK
    <3>2. \A c \in Coins : Replaced(h, c)' <=> Replaced(h, c)
      BY <3>1 DEF Replaced
    <3> QED BY <3>1, <3>2 DEF Updated
  <2>5. \/ pc'[h] \notin {"delete", "remove", "write", "link", "commitKeys"}
        \/ FindAddresses(h) \/ DeleteAddresses(h)
        \/ CreateKeys(h) \/ UpdateKeys(h) \/ LinkKeys(h)
        \/ \E u \in Users, ks \in Updates : StartUpdate(h, u, ks)
    BY DEF Moves, StartRegistration, StartDerivation, Step, Fail, Refused, DeadlockVictim,
           Rollback, CreateUser, CommitUser, IncrementIndex, InsertAddress, CommitKeys,
           CommitAddress, End, Goto, Inv, TypeOK
  <2> QED BY <2>1, <2>2, <2>3, <2>4, <2>5 DEF Updated
<1> QED BY <1>1, <1>2

\* The counts and the progress of derivations and updates in every state.
LEMMA FreshInvariant == Spec => []Fresh
<1>1. Init => Fresh
  BY DEF Init, Fresh, Counted, Incremented, Updated
<1>2. Inv /\ Fresh /\ [Next]_vars => Fresh'
  <2> SUFFICES ASSUME Inv, Fresh, [Next]_vars PROVE Fresh'
    OBVIOUS
  <2>1. CASE Next
    <3> PICK h \in Handlers : Moves(h)
      BY <2>1 DEF Next, Moves
    <3> QED BY CountedStep, IncrementedStep, UpdatedStep DEF Fresh
  <2>2. CASE UNCHANGED vars
    <3>1. \A h \in Handlers : Coin(h)' = Coin(h)
      BY <2>2 DEF vars, Coin
    <3> QED BY <2>2, <3>1 DEF vars, tables, request, writes, Fresh, Counted, Incremented,
                             Updated, Replaced
  <2> QED BY <2>1, <2>2
<1> QED BY <1>1, <1>2, SpecInv, PTL DEF Spec

\* createInvoice is refused a new address only for one in use under another coin of the
\* encoding, or one an UpdateCryptoKeys has missed: the row lock from the increment to the
\* commit keeps two derivations from one index, and the UNIQUE key two rows from one key.
\* An address whose row an update has deleted is not in use, and may be derived again.
THEOREM DerivedAddressesAreNew == Spec => []DerivedIsNew
<1>1. Inv /\ Fresh => DerivedIsNew
  <2> SUFFICES ASSUME Inv, Fresh, NEW h \in Handlers, pc[h] = "insert",
                      NEW b \in addresses,
                      Encoded(b) = Encoded(AddressToInsert(h)), b.coin = Coin(h),
                      b \notin survivors
               PROVE  FALSE
    BY DEF DerivedIsNew
  <2>1. /\ Coin(h) \in Coins /\ write[h][Coin(h)] # NoWrite
        /\ AddressToInsert(h) \in AddressType
    BY AddressTyped
  <2> PICK c \in Coins, i \in RowIds : c = Coin(h) /\ i = write[h][c].id
    BY <2>1 DEF Inv, Owned
  <2>2. /\ write[h][c].row.key = keysTable[c][i].key /\ write[h][c].row.key \in Keys
        /\ write[h][c].row.index = NextIndex(keysTable[c][i].index)
        /\ keysTable[c][i].index \in Indices
    BY <2>1 DEF Fresh, Incremented, Inv, Owned, TypeOK, RowType
  <2>3. b.key = write[h][c].row.key /\ b.index = write[h][c].row.index
    BY DEF Encoded, AddressToInsert
  <2>4. PICK j \in RowIds :
           keysTable[c][j].key = b.key /\ Upto(b.index, keysTable[c][j].index)
    BY DEF Fresh, Counted
  <2>5. i = j
    BY <2>2, <2>3, <2>4 DEF Inv, UniqueKeys
  <2> QED BY <2>2, <2>3, <2>4, <2>5, NextIsLater
<1> QED BY <1>1, SpecInv, FreshInvariant, PTL

\* Once UpdateCryptoKeys has committed, every coin of the request has the key of the
\* request, unless another first update has replaced the keys row in between.
THEOREM AcceptedKeysAreInUse == Spec => AcceptedKeysAreUsed
<1>1. Inv /\ Fresh /\ [Next]_vars =>
        [\A h \in Handlers : CommitKeys(h) =>
            \A c \in Coins : keys[h][c] # None =>
                \/ cryptoData[user[h]][c] # read[h][c] /\ read[h][c] # NoId
                \/ /\ cryptoData'[user[h]][c] # NoId
                   /\ keysTable'[c][cryptoData'[user[h]][c]].key = keys[h][c]]_vars
  <2> SUFFICES ASSUME Inv, Fresh, NEW h \in Handlers, CommitKeys(h), NEW c \in Coins,
                      keys[h][c] # None, cryptoData[user[h]][c] = read[h][c] \/ read[h][c] = NoId
               PROVE  /\ cryptoData'[user[h]][c] # NoId
                      /\ keysTable'[c][cryptoData'[user[h]][c]].key = keys[h][c]
    OBVIOUS
  <2>1. /\ pc[h] = "commitKeys" /\ CommitWrites(h)
        /\ cryptoData' = [cryptoData EXCEPT ![user[h]] = [d \in Coins |-> LinkedId(h, d)]]
    BY DEF CommitKeys
  <2>2. user[h] \in Users
    BY <2>1 DEF Inv, Progress
  <2>3. Replaced(h, c) /\ (read[h][c] = NoId => c \in linked[h])
    BY <2>1 DEF Fresh, Updated
  <2>4. cryptoData'[user[h]][c] = write[h][c].id
    BY <2>1, <2>2, <2>3 DEF Inv, TypeOK, Replaced, LinkedId
  <2>5. write[h][c].id \in RowIds /\ write[h][c].id # NoId
    BY <2>3, KeysAssumption DEF Inv, Owned, Replaced, RowIds, NoId
  <2> QED BY <2>1, <2>3, <2>4, <2>5 DEF CommitWrites, Written, Replaced
<1> QED BY <1>1, SpecInv, FreshInvariant, PTL DEF Spec, AcceptedKeysAreUsed
===============================================================================
