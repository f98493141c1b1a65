------------------------- MODULE DdlDatabaseProofs -------------------------
(***************************************************************************)
(* Theorems about DdlDatabase: for any number of workers, names, tables    *)
(* and restarts, each way in which the metadata and the database may       *)
(* differ has the cause its property names.                                *)
(***************************************************************************)
EXTENDS DdlDatabase, FiniteSetTheorems, TLAPS

-----------------------------------------------------------------------------
(* The inductive invariant.                                                *)

\* The store keeps to what TableSet promises: an id stands for one table, a
\* table is claimed or reserved by one worker, and the statement of a DROP has
\* the name of the table it claims.
StoreInv ==
    /\ IsFiniteSet(live)
    /\ claimed \in [Workers -> Ids \union {NoId}]
    /\ pending \in [Workers -> Ids \union {NoId}]
    /\ \A a, b \in live : a.id = b.id => a = b
    /\ \A w \in Workers : pending[w] # NoId =>
           /\ \A table \in live : table.id # pending[w]
           /\ \A v \in Workers : pending[v] = pending[w] => v = w
    /\ \A w \in Workers : claimed[w] # NoId =>
           /\ [id |-> claimed[w], def |-> name[w]] \in live
           /\ \A v \in Workers : claimed[v] = claimed[w] => v = w

\* Its DROP may have taken effect.
Removing(id) == \E w \in Workers :
    claimed[w] = id /\ pc[w] \in {"drop ok", "dropped", "drop threw"}

\* A name whose every CREATE had its effect belongs in the database to the one
\* table of the store that has the name and is not being removed ...
Traced == \A table \in live : table.def \notin createFailed =>
    database[table.def] = table.id \/ Removing(table.id)

\* ... or to the table that is about to enter the store under it.
Made == \A w \in Workers : name[w] \notin createFailed =>
    /\ pc[w] # "create error"
    /\ pc[w] \in {"create ok", "created", "create threw"} =>
           database[name[w]] = pending[w]

\* A name whose every DROP had its effect belongs in the database to a table of
\* that name, which the store knows or is about to.
Owned == \A n \in Names : database[n] # NoTable /\ n \notin dropFailed =>
    /\ database[n] # NoId
    /\ \/ [id |-> database[n], def |-> n] \in live
       \/ \E w \in Workers : pending[w] = database[n] /\ name[w] = n

\* A table that is still there after its DROP was left there by it.
Gone == \A w \in Workers :
    /\ pc[w] \in {"drop ok", "drop error", "dropped", "drop threw"}
    /\ database[name[w]] = claimed[w]
    => name[w] \in dropFailed

DdlInv ==
    /\ TypeOK /\ life <= MaxLives
    /\ StoreInv /\ Traced /\ Made /\ Owned /\ Gone /\ ForeignDropsExplained

-----------------------------------------------------------------------------
(* What a step leaves alone.                                               *)

WorkerStep(w) ==
    \/ Create(w) \/ CreateSql(w) \/ CreateReply(w) \/ CreateEnd(w)
    \/ Drop(w) \/ DropSql(w) \/ DropReply(w) \/ DropEnd(w)

\* The library counts as the store does.
LEMMA SameCount == ASSUME NEW T PROVE Store!Cardinality(T) = Cardinality(T)
BY DEF Store!Cardinality, Cardinality, Store!IsFiniteSet, IsFiniteSet

\* A server that fails, or a script that reconnects, disturbs no table, no claim
\* and no statement.
LEMMA ServerSteps ==
    ASSUME DdlInv, ServerFault \/ Reconnect \/ UNCHANGED vars
    PROVE  DdlInv'
<1>1. /\ live' = live /\ claimed' = claimed /\ pending' = pending
      /\ database' = database /\ pc' = pc /\ name' = name
      /\ createFailed' = createFailed /\ dropFailed' = dropFailed
      /\ foreign' = foreign
  BY DEF ServerFault, Reconnect, vars, storeVars, history
<1>2. StoreInv'
  BY <1>1 DEF DdlInv, StoreInv
<1>3. Traced' /\ Made'
  BY <1>1 DEF DdlInv, Traced, Removing, Made
<1>4. Owned' /\ Gone' /\ ForeignDropsExplained'
  BY <1>1 DEF DdlInv, Owned, Gone, ForeignDropsExplained
<1>5. /\ S!TypeOK' /\ life' <= MaxLives
      /\ session' \in [Workers -> 0 .. MaxLives]
  <2>1. life \in Nat /\ up \in BOOLEAN /\ life <= MaxLives
    BY DEF DdlInv, TypeOK, S!TypeOK
  <2>2. CASE ServerFault
    <3>1. session' = session
      BY <2>2 DEF ServerFault
    <3>2. up' \in BOOLEAN
      BY <2>1, <2>2, Zenon DEF ServerFault, S!Stop, S!Start, S!Recover
    <3>3. life' = life \/ (life < MaxLives /\ life' = life + 1)
      BY <2>2, Zenon DEF ServerFault, S!Stop, S!Start, S!Recover
    <3>4. life' \in Nat /\ life' <= MaxLives
      BY <2>1, <3>3, DdlDatabaseAssumption
    <3> QED
      BY <3>1, <3>2, <3>4 DEF DdlInv, TypeOK, S!TypeOK
  <2>3. CASE Reconnect
    <3>1. session' = [w \in Workers |-> life] /\ life' = life /\ up' = up
      BY <2>3 DEF Reconnect, serverVars
    <3> QED
      BY <2>1, <3>1, DdlDatabaseAssumption DEF S!TypeOK
  <2>4. CASE UNCHANGED vars
    BY <2>1, <2>4 DEF DdlInv, TypeOK, S!TypeOK, vars, serverVars
  <2> QED
    BY <2>2, <2>3, <2>4
<1>6. TypeOK'
  BY <1>1, <1>5 DEF DdlInv, TypeOK, size, Store!Reserved, Creating, Dropping
<1> QED
  BY <1>2, <1>3, <1>4, <1>5, <1>6 DEF DdlInv

\* A step of a statement on its way moves the statement only.
LEMMA OnTheWay ==
    ASSUME NEW w \in Workers,
           CreateSql(w) \/ CreateReply(w) \/ DropSql(w) \/ DropReply(w)
    PROVE  live' = live /\ claimed' = claimed /\ pending' = pending /\ name' = name
BY DEF CreateSql, CreateReply, DropSql, DropReply, storeVars

\* CREATE reserves room for a new table and takes a name for it.
LEMMA CreateMoves ==
    ASSUME NEW w \in Workers, Create(w)
    PROVE  \E id \in Ids, n \in Names :
               /\ pending' = [pending EXCEPT ![w] = id]
               /\ name' = [name EXCEPT ![w] = n]
               /\ pc[w] = "idle" /\ pc' = [pc EXCEPT ![w] = "create"]
               /\ UNCHANGED <<live, claimed, database, createFailed, dropFailed, foreign>>
               /\ id # NoId /\ pending[w] = NoId /\ claimed[w] = NoId
               /\ \A table \in live : table.id # id
               /\ \A v \in Workers : pending[v] # id
               /\ Store!Cardinality(live) + Store!Cardinality(Store!Reserved) < MaxTables
<1>1. PICK id \in Ids : Store!Reserve(w, id)
  BY DEF Create
<1>2. PICK n \in Names : name' = [name EXCEPT ![w] = n]
  BY DEF Create
<1>3. id # NoId
  BY DdlDatabaseAssumption
<1> QED
  BY <1>1, <1>2, <1>3 DEF Create, Goto, Store!Reserve, Store!LiveIds, history

\* Its end makes the table known under that name.
LEMMA CreateEndMoves ==
    ASSUME NEW w \in Workers, CreateEnd(w)
    PROVE  /\ live' = live \union {[id |-> pending[w], def |-> name[w]]}
           /\ pending[w] # NoId /\ pending' = [pending EXCEPT ![w] = NoId]
           /\ pc[w] \in {"created", "create threw"}
           /\ pc' = [pc EXCEPT ![w] = "idle"]
           /\ UNCHANGED <<claimed, name, database, createFailed, dropFailed, foreign>>
BY DEF CreateEnd, Goto, Store!Insert, history

\* DROP claims a table and takes its name.
LEMMA DropMoves ==
    ASSUME DdlInv, NEW w \in Workers, Drop(w)
    PROVE  \E table \in live :
               /\ claimed' = [claimed EXCEPT ![w] = table.id]
               /\ name' = [name EXCEPT ![w] = table.def]
               /\ pc[w] = "idle" /\ pc' = [pc EXCEPT ![w] = "drop"]
               /\ UNCHANGED <<live, pending, database, createFailed, dropFailed, foreign>>
               /\ table.id \in Ids /\ table.def \in Names
               /\ table = [id |-> table.id, def |-> table.def]
               /\ pending[w] = NoId /\ claimed[w] = NoId
               /\ \A v \in Workers : claimed[v] # table.id
<1>1. PICK table \in live :
          Store!Claim(w, table) /\ name' = [name EXCEPT ![w] = table.def]
  BY DEF Drop, Claim
<1>2. /\ table.id \in Ids /\ table.def \in Names
      /\ table = [id |-> table.id, def |-> table.def]
  BY DEF DdlInv, TypeOK
<1> QED
  BY <1>1, <1>2 DEF Drop, Goto, Store!Claim, history

\* Its end forgets the table, and what is left of it in the database is nobody's.
LEMMA DropEndMoves ==
    ASSUME NEW w \in Workers, DropEnd(w)
    PROVE  /\ live' = {table \in live : table.id # claimed[w]}
           /\ claimed[w] # NoId /\ claimed' = [claimed EXCEPT ![w] = NoId]
           /\ pc[w] \in {"dropped", "drop threw"}
           /\ pc' = [pc EXCEPT ![w] = "idle"]
           /\ database' = [n \in Names |->
                  IF database[n] = claimed[w] THEN NoId ELSE database[n]]
           /\ UNCHANGED <<pending, name, createFailed, dropFailed, foreign>>
BY DEF DropEnd, Goto, Store!Remove, history

-----------------------------------------------------------------------------
(* The store.                                                              *)

LEMMA StoreStep ==
    ASSUME DdlInv, NEW w \in Workers, WorkerStep(w)
    PROVE  StoreInv'
<1> USE DEF DdlInv, StoreInv, TypeOK
<1>1. CASE Create(w)
  <2>1. PICK id \in Ids, n \in Names :
             /\ pending' = [pending EXCEPT ![w] = id]
             /\ name' = [name EXCEPT ![w] = n]
             /\ UNCHANGED <<live, claimed>>
             /\ id # NoId /\ pending[w] = NoId /\ claimed[w] = NoId
             /\ \A table \in live : table.id # id
             /\ \A v \in Workers : pending[v] # id
    BY <1>1, CreateMoves
  <2> QED
    BY <2>1
<1>2. CASE CreateEnd(w)
  <2>1. /\ live' = live \union {[id |-> pending[w], def |-> name[w]]}
        /\ pending[w] # NoId /\ pending' = [pending EXCEPT ![w] = NoId]
        /\ UNCHANGED <<claimed, name>>
    BY <1>2, CreateEndMoves
  <2>2. IsFiniteSet(live')
    BY <2>1, FS_AddElement
  <2> QED
    BY <2>1, <2>2
<1>3. CASE Drop(w)
  <2>1. PICK table \in live :
             /\ claimed' = [claimed EXCEPT ![w] = table.id]
             /\ name' = [name EXCEPT ![w] = table.def]
             /\ UNCHANGED <<live, pending>>
             /\ table.id \in Ids /\ table = [id |-> table.id, def |-> table.def]
             /\ pending[w] = NoId
             /\ \A v \in Workers : claimed[v] # table.id
    BY <1>3, DropMoves
  <2> QED
    BY <2>1
<1>4. CASE DropEnd(w)
  <2>1. IsFiniteSet(live')
    BY <1>4, DropEndMoves, FS_Subset
  <2>2. /\ live' = {table \in live : table.id # claimed[w]}
        /\ claimed[w] # NoId /\ claimed' = [claimed EXCEPT ![w] = NoId]
        /\ UNCHANGED <<pending, name>>
    BY <1>4, DropEndMoves
  <2> QED
    BY <2>1, <2>2
<1> QED
  BY <1>1, <1>2, <1>3, <1>4, OnTheWay DEF WorkerStep

\* An element more, an element less.
LEMMA OneMore ==
    ASSUME NEW T, NEW x, IsFiniteSet(T)
    PROVE  /\ Cardinality(T \union {x}) \in Nat /\ Cardinality(T) \in Nat
           /\ Cardinality(T \union {x}) <= Cardinality(T) + 1
<1>1. Cardinality(T) \in Nat
  BY FS_CardinalityType
<1>2. \/ Cardinality(T \union {x}) = Cardinality(T)
      \/ Cardinality(T \union {x}) = Cardinality(T) + 1
  BY FS_AddElement
<1> QED
  BY <1>1, <1>2

LEMMA OneLess ==
    ASSUME NEW T, NEW x \in T, IsFiniteSet(T)
    PROVE  Cardinality(T \ {x}) = Cardinality(T) - 1
BY FS_RemoveElement

\* Room for a table is reserved before it is needed.
LEMMA RoomStep ==
    ASSUME DdlInv, NEW w \in Workers, WorkerStep(w)
    PROVE  (size + Cardinality(Store!Reserved) <= MaxTables)'
<1> DEFINE R == Store!Reserved
<1>1. /\ IsFiniteSet(live) /\ IsFiniteSet(R)
      /\ Cardinality(live) \in Nat /\ Cardinality(R) \in Nat
      /\ MaxTables \in Nat /\ Cardinality(live) + Cardinality(R) <= MaxTables
  BY DdlDatabaseAssumption, FS_Subset, FS_CardinalityType
     DEF DdlInv, StoreInv, TypeOK, size, Store!Reserved
<1> SUFFICES Cardinality(live') + Cardinality(R') <= MaxTables
  BY DEF size
<1> HIDE DEF R
<1>2. CASE Create(w)
  <2>3. /\ live' = live /\ R' = R \union {w}
        /\ Store!Cardinality(live) + Store!Cardinality(R) < MaxTables
    BY <1>2, CreateMoves DEF DdlInv, StoreInv, Store!Reserved, R
  <2>4. Cardinality(live) + Cardinality(R) < MaxTables
    BY <2>3, SameCount
  <2>5. Cardinality(R \union {w}) <= Cardinality(R) + 1 /\ Cardinality(R \union {w}) \in Nat
    BY <1>1, OneMore
  <2> QED
    BY <1>1, <2>3, <2>4, <2>5
<1>3. CASE CreateEnd(w)
  <2> DEFINE table == [id |-> pending[w], def |-> name[w]]
  <2>1. live' = live \union {table} /\ w \in R /\ R' = R \ {w}
    BY <1>3, CreateEndMoves DEF DdlInv, StoreInv, Store!Reserved, R
  <2> HIDE DEF table
  <2>2. Cardinality(R \ {w}) = Cardinality(R) - 1
    BY <1>1, <2>1, OneLess
  <2>3. /\ Cardinality(live \union {table}) <= Cardinality(live) + 1
        /\ Cardinality(live \union {table}) \in Nat
    BY <1>1, OneMore
  <2> QED
    BY <1>1, <2>1, <2>2, <2>3
<1>4. CASE Drop(w)
  <2>1. live' = live /\ R' = R
    BY <1>4, DropMoves DEF Store!Reserved, R
  <2> QED
    BY <1>1, <2>1
<1>5. CASE DropEnd(w)
  <2>1. live' \subseteq live /\ R' = R
    BY <1>5, DropEndMoves DEF Store!Reserved, R
  <2>2. Cardinality(live') <= Cardinality(live) /\ Cardinality(live') \in Nat
    BY <1>1, <2>1, FS_Subset, FS_CardinalityType
  <2> QED
    BY <1>1, <2>1, <2>2
<1>6. CASE UNCHANGED <<live, pending>>
  BY <1>1, <1>6 DEF Store!Reserved, R
<1> QED
  BY <1>2, <1>3, <1>4, <1>5, <1>6, OnTheWay DEF WorkerStep

\* Where a step of a statement leads to.
LEMMA PlaceStep ==
    ASSUME DdlInv, NEW w \in Workers, WorkerStep(w)
    PROVE  /\ pc' \in [Workers -> {"idle"} \union Creating \union Dropping]
           /\ name' \in [Workers -> Names]
           /\ \A v \in Workers : /\ pending'[v] # NoId <=> pc'[v] \in Creating
                                 /\ claimed'[v] # NoId <=> pc'[v] \in Dropping
<1>1. /\ claimed \in [Workers -> Ids \union {NoId}]
      /\ pending \in [Workers -> Ids \union {NoId}]
      /\ pc \in [Workers -> {"idle"} \union Creating \union Dropping]
      /\ name \in [Workers -> Names]
      /\ \A v \in Workers : /\ pending[v] # NoId <=> pc[v] \in Creating
                            /\ claimed[v] # NoId <=> pc[v] \in Dropping
  BY DEF DdlInv, TypeOK, StoreInv
<1>2. NoId \notin Ids /\ Creating \intersect Dropping = {}
      /\ "idle" \notin Creating \union Dropping
      /\ "create" \in Creating /\ "drop" \in Dropping
  BY DdlDatabaseAssumption DEF Creating, Dropping
<1>3. CASE Create(w)
  BY <1>1, <1>2, <1>3, CreateMoves
<1>4. CASE CreateEnd(w)
  BY <1>1, <1>2, <1>4, CreateEndMoves
<1>5. CASE Drop(w)
  BY <1>1, <1>2, <1>5, DropMoves
<1>6. CASE DropEnd(w)
  BY <1>1, <1>2, <1>6, DropEndMoves
<1>7. CASE CreateSql(w) \/ CreateReply(w)
  <2>1. pc[w] \in Creating /\ \E place \in Creating : pc' = [pc EXCEPT ![w] = place]
    <3>1. CASE CreateSql(w)
      BY <3>1 DEF CreateSql, Goto, Creating
    <3>2. CASE CreateReply(w)
      BY <3>2 DEF CreateReply, Replies, Goto, Creating
    <3> QED
      BY <1>7, <3>1, <3>2
  <2> QED
    BY <1>1, <1>2, <1>7, <2>1, OnTheWay
<1>8. CASE DropSql(w) \/ DropReply(w)
  <2>1. pc[w] \in Dropping /\ \E place \in Dropping : pc' = [pc EXCEPT ![w] = place]
    <3>1. CASE DropSql(w)
      BY <3>1 DEF DropSql, Goto, Dropping
    <3>2. CASE DropReply(w)
      BY <3>2 DEF DropReply, Replies, Goto, Dropping
    <3> QED
      BY <1>8, <3>1, <3>2
  <2> QED
    BY <1>1, <1>2, <1>8, <2>1, OnTheWay
<1> QED
  BY <1>3, <1>4, <1>5, <1>6, <1>7, <1>8 DEF WorkerStep

LEMMA TypeStep ==
    ASSUME DdlInv, NEW w \in Workers, WorkerStep(w)
    PROVE  TypeOK' /\ life' <= MaxLives
<1>1. (size + Cardinality(Store!Reserved) <= MaxTables)'
  BY RoomStep
<1>2. UNCHANGED <<up, life, session>>
  BY DEF WorkerStep, Create, CreateSql, CreateReply, CreateEnd, Drop, DropSql, DropReply,
         DropEnd, serverVars
<1>3. S!TypeOK' /\ session' \in [Workers -> 0 .. MaxLives] /\ life' <= MaxLives
  BY <1>2 DEF S!TypeOK, DdlInv, TypeOK
<1>4. /\ name[w] \in Names /\ pending[w] \in Ids \union {NoId}
      /\ database \in [Names -> Ids \union {NoId, NoTable}]
      /\ \A names \in {createFailed, dropFailed, foreign} : names \subseteq Names
  BY DEF DdlInv, TypeOK, StoreInv
<1>5. live' \subseteq [id : Ids, def : Names]
  <2>1. CASE CreateEnd(w)
    <3>1. live' = live \union {[id |-> pending[w], def |-> name[w]]} /\ pending[w] # NoId
      BY <2>1, CreateEndMoves
    <3> QED
      BY <1>4, <3>1 DEF DdlInv, TypeOK
  <2>2. CASE ~CreateEnd(w)
    <3>1. live' \subseteq live
      BY <2>2, OnTheWay, CreateMoves, DropMoves, DropEndMoves DEF WorkerStep
    <3> QED
      BY <3>1 DEF DdlInv, TypeOK
  <2> QED
    BY <2>1, <2>2
<1>6. database' \in [Names -> Ids \union {NoId, NoTable}]
  <2>1. CASE database' = database
    BY <1>4, <2>1
  <2>2. CASE CreateSql(w) \/ DropSql(w) \/ DropEnd(w)
    BY <1>4, <2>2 DEF CreateSql, DropSql, DropEnd
  <2> QED
    BY <2>1, <2>2 DEF WorkerStep, Create, CreateReply, CreateEnd, Drop, DropReply
<1>7. \A names \in {createFailed', dropFailed', foreign'} : names \subseteq Names
  <2>1. CASE UNCHANGED <<createFailed, dropFailed, foreign>>
    BY <1>4, <2>1
  <2>2. CASE CreateSql(w) \/ DropSql(w)
    BY <1>4, <2>2 DEF CreateSql, DropSql
  <2> QED
    BY <2>1, <2>2
       DEF WorkerStep, Create, CreateReply, CreateEnd, Drop, DropReply, DropEnd, history
<1> QED
  BY <1>1, <1>3, <1>5, <1>6, <1>7, PlaceStep DEF TypeOK, Creating, Dropping

-----------------------------------------------------------------------------
(* The database.                                                           *)

\* A statement of CREATE takes effect, or its name is marked.
LEMMA CreateSqlMoves ==
    ASSUME NEW w \in Workers, CreateSql(w)
    PROVE  /\ pc[w] = "create" /\ UNCHANGED <<dropFailed, foreign>>
           /\ \/ /\ pc' = [pc EXCEPT ![w] = "create ok"]
                 /\ database[name[w]] = NoTable
                 /\ database' = [database EXCEPT ![name[w]] = pending[w]]
                 /\ createFailed' = createFailed
              \/ /\ pc' = [pc EXCEPT ![w] = "create error"]
                 /\ createFailed' = createFailed \union {name[w]}
                 /\ database' = database
BY DEF CreateSql, Goto

\* A statement of DROP takes effect, or its name is marked if there is a table.
LEMMA DropSqlMoves ==
    ASSUME NEW w \in Workers, DropSql(w)
    PROVE  /\ pc[w] = "drop" /\ createFailed' = createFailed
           /\ \/ /\ pc' = [pc EXCEPT ![w] = "drop ok"]
                 /\ database' = [database EXCEPT ![name[w]] = NoTable]
                 /\ foreign' = IF database[name[w]] = claimed[w]
                               THEN foreign ELSE foreign \union {name[w]}
                 /\ dropFailed' = dropFailed
              \/ /\ pc' = [pc EXCEPT ![w] = "drop error"]
                 /\ dropFailed' = IF database[name[w]] = NoTable
                                  THEN dropFailed ELSE dropFailed \union {name[w]}
                 /\ UNCHANGED <<database, foreign>>
BY DEF DropSql, Goto

\* The answer, or its absence, changes no table; what the server has refused is
\* never taken for done.
LEMMA ReplyMoves ==
    ASSUME NEW w \in Workers, CreateReply(w) \/ DropReply(w)
    PROVE  /\ UNCHANGED <<database, createFailed, dropFailed, foreign>>
           /\ \/ pc[w] \in {"create ok", "create error"}
                 /\ pc' = [pc EXCEPT ![w] = "create threw"]
              \/ pc[w] = "create ok" /\ pc' = [pc EXCEPT ![w] = "created"]
              \/ pc[w] \in {"drop ok", "drop error"}
                 /\ pc' = [pc EXCEPT ![w] = "drop threw"]
              \/ pc[w] = "drop ok" /\ pc' = [pc EXCEPT ![w] = "dropped"]
BY DEF CreateReply, DropReply, Replies, Goto, history

\* The table that a DROP on its way claims is the one in the database, unless a
\* CREATE of its name had failed.
LEMMA ClaimedIsThere ==
    ASSUME DdlInv, NEW w \in Workers, pc[w] = "drop", name[w] \notin createFailed
    PROVE  database[name[w]] = claimed[w]
<1>1. claimed[w] # NoId /\ name[w] \in Names
  BY DEF DdlInv, TypeOK, Dropping
<1>2. [id |-> claimed[w], def |-> name[w]] \in live /\ ~Removing(claimed[w])
  BY <1>1 DEF DdlInv, StoreInv, Removing
<1> QED
  BY <1>1, <1>2 DEF DdlInv, Traced

LEMMA ForeignStep ==
    ASSUME DdlInv, NEW w \in Workers, WorkerStep(w)
    PROVE  ForeignDropsExplained'
<1> USE DEF ForeignDropsExplained
<1>1. foreign \subseteq createFailed
  BY DEF DdlInv
<1>2. CASE CreateSql(w)
  BY <1>1, <1>2, CreateSqlMoves
<1>3. CASE DropSql(w)
  <2>1. /\ pc[w] = "drop" /\ createFailed' = createFailed
        /\ \/ foreign' = foreign
           \/ database[name[w]] # claimed[w] /\ foreign' = foreign \union {name[w]}
    BY <1>3, DropSqlMoves
  <2>2. database[name[w]] # claimed[w] => name[w] \in createFailed
    BY <2>1, ClaimedIsThere
  <2> QED
    BY <1>1, <2>1, <2>2
<1>4. CASE ~CreateSql(w) /\ ~DropSql(w)
  <2>1. UNCHANGED <<createFailed, foreign>>
    BY <1>4 DEF WorkerStep, Create, CreateReply, CreateEnd, Drop, DropReply, DropEnd, history
  <2> QED
    BY <1>1, <2>1
<1> QED
  BY <1>2, <1>3, <1>4

\* The facts about claims and reservations that the next lemmas need.
LEMMA Claims ==
    ASSUME DdlInv, NEW w \in Workers
    PROVE  /\ name[w] \in Names
           /\ pc[w] \in Creating => pending[w] \in Ids
           /\ pc[w] \in Dropping =>
                  /\ claimed[w] \in Ids
                  /\ [id |-> claimed[w], def |-> name[w]] \in live
                  /\ \A v \in Workers : pending[v] # claimed[w]
                  /\ \A v \in Workers : claimed[v] = claimed[w] => v = w
BY DEF DdlInv, TypeOK, StoreInv

\* A table that is gone from the database does not come back: only a reserved
\* id is ever created.
LEMMA GoneStep ==
    ASSUME DdlInv, NEW w \in Workers, WorkerStep(w)
    PROVE  Gone'
<1> DEFINE Late == {"drop ok", "drop error", "dropped", "drop threw"}
<1> SUFFICES ASSUME NEW v \in Workers, pc'[v] \in Late,
                    database'[name'[v]] = claimed'[v]
             PROVE  name'[v] \in dropFailed'
  BY DEF Gone
<1>1. /\ pc \in [Workers -> {"idle"} \union Creating \union Dropping]
      /\ name \in [Workers -> Names] /\ claimed \in [Workers -> Ids \union {NoId}]
      /\ database \in [Names -> Ids \union {NoId, NoTable}]
  BY DEF DdlInv, TypeOK, StoreInv
<1>2. ASSUME pc[v] \in Late, database[name[v]] = claimed[v] PROVE name[v] \in dropFailed
  BY <1>2 DEF DdlInv, Gone
<1>3. CASE Create(w) \/ CreateEnd(w) \/ CreateReply(w) \/ Drop(w)
  <2>1. /\ pc[v] \in Late /\ database' = database /\ dropFailed' = dropFailed
        /\ name'[v] = name[v] /\ claimed'[v] = claimed[v]
    <3>1. CASE Create(w)
      BY <1>1, <3>1, CreateMoves
    <3>2. CASE CreateEnd(w)
      BY <1>1, <3>2, CreateEndMoves
    <3>3. CASE CreateReply(w)
      BY <1>1, <3>3, ReplyMoves, OnTheWay
    <3>4. CASE Drop(w)
      BY <1>1, <3>4, DropMoves
    <3> QED
      BY <1>3, <3>1, <3>2, <3>3, <3>4
  <2> QED
    BY <1>2, <2>1
<1>4. CASE DropReply(w)
  <2>1. pc[v] \in Late /\ database' = database /\ dropFailed' = dropFailed
    BY <1>1, <1>4, ReplyMoves
  <2> QED
    BY <1>2, <1>4, <2>1, OnTheWay
<1>5. CASE CreateSql(w)
  <2>1. /\ pc[v] \in Late /\ v # w /\ dropFailed' = dropFailed
        /\ name' = name /\ claimed' = claimed
    BY <1>1, <1>5, CreateSqlMoves, OnTheWay
  <2>2. pending[w] # claimed[v] /\ name[w] \in Names
    BY <2>1, Claims DEF Dropping
  <2>3. database[name[v]] = claimed[v]
    BY <1>1, <1>5, <2>1, <2>2, CreateSqlMoves
  <2> QED
    BY <1>2, <2>1, <2>3
<1>6. CASE DropSql(w)
  <2>1. name' = name /\ claimed' = claimed /\ dropFailed \subseteq dropFailed'
    BY <1>6, DropSqlMoves, OnTheWay
  <2>2. claimed[v] # NoTable
    BY <1>1, DdlDatabaseAssumption
  <2>3. database[name[v]] = claimed[v] /\ database[name[v]] # NoTable
    BY <1>1, <1>6, <2>1, <2>2, DropSqlMoves
  <2>4. CASE v = w
    BY <1>1, <1>6, <2>1, <2>2, <2>3, <2>4, DropSqlMoves
  <2>5. CASE v # w
    <3>1. pc[v] \in Late
      BY <1>1, <1>6, <2>5, DropSqlMoves
    <3> QED
      BY <1>2, <2>1, <2>3, <3>1
  <2> QED
    BY <2>4, <2>5
<1>7. CASE DropEnd(w)
  <2>1. /\ v # w /\ pc[v] \in Late /\ dropFailed' = dropFailed
        /\ name' = name /\ claimed'[v] = claimed[v]
    BY <1>1, <1>7, DropEndMoves
  <2>2. claimed[v] # NoId
    BY <1>1, <2>1, Claims, DdlDatabaseAssumption DEF Dropping
  <2>3. database[name[v]] = claimed[v]
    BY <1>1, <1>7, <2>1, <2>2, DropEndMoves
  <2> QED
    BY <1>2, <2>1, <2>3
<1> QED
  BY <1>3, <1>4, <1>5, <1>6, <1>7 DEF WorkerStep

\* A table enters the database under its creator's name, enters the store under
\* the same one, and leaves the store only when its DROP has removed it or is
\* known to have failed.
LEMMA OwnedStep ==
    ASSUME DdlInv, NEW w \in Workers, WorkerStep(w)
    PROVE  Owned'
<1> SUFFICES ASSUME NEW n \in Names, database'[n] # NoTable, n \notin dropFailed'
             PROVE  /\ database'[n] # NoId
                    /\ \/ [id |-> database'[n], def |-> n] \in live'
                       \/ \E v \in Workers : pending'[v] = database'[n] /\ name'[v] = n
  BY DEF Owned
<1>1. /\ pc \in [Workers -> {"idle"} \union Creating \union Dropping]
      /\ name \in [Workers -> Names] /\ claimed \in [Workers -> Ids \union {NoId}]
      /\ pending \in [Workers -> Ids \union {NoId}]
      /\ database \in [Names -> Ids \union {NoId, NoTable}]
      /\ \A a, b \in live : a.id = b.id => a = b
  BY DEF DdlInv, TypeOK, StoreInv
<1>2. ASSUME database[n] # NoTable, n \notin dropFailed
      PROVE  /\ database[n] # NoId
             /\ \/ [id |-> database[n], def |-> n] \in live
                \/ \E v \in Workers : pending[v] = database[n] /\ name[v] = n
  BY <1>2 DEF DdlInv, Owned
<1>3. CASE Create(w)
  <2>1. PICK id \in Ids, m \in Names :
             /\ pending' = [pending EXCEPT ![w] = id]
             /\ name' = [name EXCEPT ![w] = m]
             /\ UNCHANGED <<live, database, dropFailed>>
             /\ pending[w] = NoId
    BY <1>3, CreateMoves
  <2> QED
    BY <1>1, <1>2, <2>1
<1>4. CASE CreateEnd(w)
  <2>1. /\ live' = live \union {[id |-> pending[w], def |-> name[w]]}
        /\ pending' = [pending EXCEPT ![w] = NoId]
        /\ UNCHANGED <<name, database, dropFailed>>
    BY <1>4, CreateEndMoves
  <2> QED
    BY <1>1, <1>2, <2>1
<1>5. CASE Drop(w)
  <2>1. PICK table \in live :
             /\ name' = [name EXCEPT ![w] = table.def]
             /\ UNCHANGED <<live, pending, database, dropFailed>>
             /\ pending[w] = NoId
    BY <1>5, DropMoves
  <2> QED
    BY <1>1, <1>2, <2>1
<1>6. CASE DropEnd(w)
  <2>1. /\ live' = {table \in live : table.id # claimed[w]}
        /\ claimed[w] # NoId /\ pc[w] \in {"dropped", "drop threw"}
        /\ UNCHANGED <<pending, name, dropFailed>>
        /\ database' = [m \in Names |->
               IF database[m] = claimed[w] THEN NoId ELSE database[m]]
    BY <1>6, DropEndMoves
  <2>2. /\ [id |-> claimed[w], def |-> name[w]] \in live
        /\ \A v \in Workers : pending[v] # claimed[w]
    BY <2>1, Claims DEF Dropping
  <2>3. database[n] # claimed[w]
    <3> SUFFICES ASSUME database[n] = claimed[w] PROVE FALSE
      OBVIOUS
    <3>1. claimed[w] # NoTable
      BY <1>1, <2>1, DdlDatabaseAssumption
    <3>2. [id |-> claimed[w], def |-> n] \in live
      BY <1>2, <2>1, <2>2, <3>1
    <3>3. n = name[w]
      BY <1>1, <2>2, <3>2
    <3>4. name[w] \in dropFailed
      BY <2>1, <3>3 DEF DdlInv, Gone
    <3> QED
      BY <2>1, <3>3, <3>4
  <2>4. database'[n] = database[n] /\ database[n] # NoTable
    BY <2>1, <2>3
  <2> QED
    BY <1>2, <2>1, <2>3, <2>4
<1>7. CASE CreateSql(w)
  <2>1. /\ pc[w] = "create" /\ dropFailed' = dropFailed
        /\ \/ database' = database
           \/ database' = [database EXCEPT ![name[w]] = pending[w]]
    BY <1>7, CreateSqlMoves
  <2>2. pending[w] \in Ids /\ pending[w] # NoId
    BY <2>1, Claims, DdlDatabaseAssumption DEF Creating
  <2> QED
    BY <1>1, <1>2, <1>7, <2>1, <2>2, OnTheWay
<1>8. CASE DropSql(w)
  <2>1. database'[n] = database[n] /\ n \notin dropFailed
    BY <1>1, <1>8, DropSqlMoves
  <2> QED
    BY <1>2, <1>8, <2>1, OnTheWay
<1>9. CASE CreateReply(w) \/ DropReply(w)
  <2>1. UNCHANGED <<live, pending, name, database, dropFailed>>
    BY <1>9, ReplyMoves, OnTheWay
  <2> QED
    BY <1>2, <2>1
<1> QED
  BY <1>3, <1>4, <1>5, <1>6, <1>7, <1>8, <1>9 DEF WorkerStep

\* While no CREATE of a name has failed, each of them found the name free: the
\* table before it had been removed by its own DROP.
LEMMA TracedStep ==
    ASSUME DdlInv, NEW w \in Workers, WorkerStep(w)
    PROVE  Traced'
<1> DEFINE Late == {"drop ok", "dropped", "drop threw"}
<1> SUFFICES ASSUME NEW table \in live', table.def \notin createFailed'
             PROVE  \/ database'[table.def] = table.id
                    \/ \E v \in Workers : claimed'[v] = table.id /\ pc'[v] \in Late
  BY DEF Traced, Removing
<1>1. /\ pc \in [Workers -> {"idle"} \union Creating \union Dropping]
      /\ name \in [Workers -> Names] /\ claimed \in [Workers -> Ids \union {NoId}]
      /\ database \in [Names -> Ids \union {NoId, NoTable}]
      /\ live \subseteq [id : Ids, def : Names]
      /\ \A a, b \in live : a.id = b.id => a = b
  BY DEF DdlInv, TypeOK, StoreInv
<1>2. ASSUME table \in live, table.def \notin createFailed
      PROVE  \/ database[table.def] = table.id
             \/ \E v \in Workers : claimed[v] = table.id /\ pc[v] \in Late
  BY <1>2 DEF DdlInv, Traced, Removing
<1>3. table \in live => table.id # NoTable /\ table.def \in Names
  BY <1>1, DdlDatabaseAssumption
<1>4. CASE Create(w)
  <2>1. /\ pc' = [pc EXCEPT ![w] = "create"] /\ pc[w] = "idle"
        /\ UNCHANGED <<live, claimed, database, createFailed>>
    BY <1>4, CreateMoves
  <2> QED
    BY <1>1, <1>2, <2>1
<1>5. CASE CreateEnd(w)
  <2>1. /\ live' = live \union {[id |-> pending[w], def |-> name[w]]}
        /\ pc' = [pc EXCEPT ![w] = "idle"] /\ pc[w] \in {"created", "create threw"}
        /\ UNCHANGED <<claimed, name, database, createFailed>>
    BY <1>5, CreateEndMoves
  <2>2. CASE table \in live
    BY <1>1, <1>2, <2>1, <2>2
  <2>3. CASE table = [id |-> pending[w], def |-> name[w]]
    BY <2>1, <2>3 DEF DdlInv, Made
  <2> QED
    BY <2>1, <2>2, <2>3
<1>6. CASE Drop(w)
  <2>1. PICK other \in live :
             /\ claimed' = [claimed EXCEPT ![w] = other.id] /\ claimed[w] = NoId
             /\ pc' = [pc EXCEPT ![w] = "drop"] /\ pc[w] = "idle"
             /\ UNCHANGED <<live, database, createFailed>>
    BY <1>6, DropMoves
  <2> QED
    BY <1>1, <1>2, <2>1
<1>7. CASE DropEnd(w)
  <2>1. /\ table \in live /\ table.id # claimed[w]
        /\ claimed' = [claimed EXCEPT ![w] = NoId] /\ pc' = [pc EXCEPT ![w] = "idle"]
        /\ createFailed' = createFailed
        /\ database' = [m \in Names |->
               IF database[m] = claimed[w] THEN NoId ELSE database[m]]
    BY <1>7, DropEndMoves
  <2> QED
    BY <1>1, <1>2, <1>3, <2>1
<1>8. CASE CreateSql(w)
  <2>1. /\ table \in live /\ claimed' = claimed /\ pc[w] = "create"
        /\ table.def \notin createFailed
        /\ \/ /\ pc' = [pc EXCEPT ![w] = "create ok"] /\ database[name[w]] = NoTable
              /\ database' = [database EXCEPT ![name[w]] = pending[w]]
           \/ pc' = [pc EXCEPT ![w] = "create error"] /\ database' = database
    BY <1>8, CreateSqlMoves, OnTheWay
  <2>2. CASE database[table.def] = table.id
    BY <1>1, <1>3, <2>1, <2>2
  <2>3. CASE \E v \in Workers : claimed[v] = table.id /\ pc[v] \in Late
    BY <1>1, <2>1, <2>3
  <2> QED
    BY <1>2, <2>1, <2>2, <2>3
<1>9. CASE DropSql(w)
  <2>1. /\ table \in live /\ claimed' = claimed /\ pc[w] = "drop"
        /\ table.def \notin createFailed
        /\ \/ /\ pc' = [pc EXCEPT ![w] = "drop ok"]
              /\ database' = [database EXCEPT ![name[w]] = NoTable]
           \/ pc' = [pc EXCEPT ![w] = "drop error"] /\ database' = database
    BY <1>9, DropSqlMoves, OnTheWay
  <2>2. CASE \E v \in Workers : claimed[v] = table.id /\ pc[v] \in Late
    BY <1>1, <2>1, <2>2
  <2>3. CASE database[table.def] = table.id
    <3>1. CASE name[w] = table.def
      <4>1. claimed[w] = table.id
        BY <2>1, <2>3, <3>1, ClaimedIsThere
      <4> QED
        BY <1>1, <2>1, <2>3, <3>1, <4>1
    <3>2. CASE name[w] # table.def
      BY <1>1, <1>3, <2>1, <2>3, <3>2
    <3> QED
      BY <3>1, <3>2
  <2> QED
    BY <1>2, <2>1, <2>2, <2>3
<1>10. CASE CreateReply(w) \/ DropReply(w)
  <2>1. /\ UNCHANGED <<live, claimed, database, createFailed>>
        /\ \/ pc[w] \in {"create ok", "create error"} /\ pc' = [pc EXCEPT ![w] = "create threw"]
           \/ pc[w] = "create ok" /\ pc' = [pc EXCEPT ![w] = "created"]
           \/ pc[w] \in {"drop ok", "drop error"} /\ pc' = [pc EXCEPT ![w] = "drop threw"]
           \/ pc[w] = "drop ok" /\ pc' = [pc EXCEPT ![w] = "dropped"]
    BY <1>10, ReplyMoves, OnTheWay
  <2>2. ASSUME NEW v \in Workers, pc[v] \in Late PROVE pc'[v] \in Late
    BY <1>1, <2>1, <2>2
  <2> QED
    BY <1>2, <2>1, <2>2
<1> QED
  BY <1>4, <1>5, <1>6, <1>7, <1>8, <1>9, <1>10 DEF WorkerStep

\* No other worker's statement touches a table between its CREATE and its entry
\* into the store, as long as no CREATE of the name has failed.
LEMMA MadeStep ==
    ASSUME DdlInv, NEW w \in Workers, WorkerStep(w)
    PROVE  Made'
<1> DEFINE Between == {"create ok", "created", "create threw"}
<1> SUFFICES ASSUME NEW v \in Workers, name'[v] \notin createFailed'
             PROVE  /\ pc'[v] # "create error"
                    /\ pc'[v] \in Between => database'[name'[v]] = pending'[v]
  BY DEF Made
<1>1. /\ pc \in [Workers -> {"idle"} \union Creating \union Dropping]
      /\ name \in [Workers -> Names] /\ pending \in [Workers -> Ids \union {NoId}]
      /\ database \in [Names -> Ids \union {NoId, NoTable}]
  BY DEF DdlInv, TypeOK, StoreInv
<1>2. ASSUME name[v] \notin createFailed
      PROVE  /\ pc[v] # "create error"
             /\ pc[v] \in Between => database[name[v]] = pending[v] /\ pending[v] \in Ids
  BY <1>2, Claims DEF DdlInv, Made, Creating
<1>3. CASE Create(w)
  <2>1. PICK id \in Ids, m \in Names :
             /\ pending' = [pending EXCEPT ![w] = id]
             /\ name' = [name EXCEPT ![w] = m]
             /\ pc' = [pc EXCEPT ![w] = "create"]
             /\ UNCHANGED <<database, createFailed>>
    BY <1>3, CreateMoves
  <2> QED
    BY <1>1, <1>2, <2>1
<1>4. CASE CreateEnd(w)
  <2>1. /\ pending' = [pending EXCEPT ![w] = NoId]
        /\ pc' = [pc EXCEPT ![w] = "idle"]
        /\ UNCHANGED <<name, database, createFailed>>
    BY <1>4, CreateEndMoves
  <2> QED
    BY <1>1, <1>2, <2>1
<1>5. CASE Drop(w)
  <2>1. PICK table \in live :
             /\ name' = [name EXCEPT ![w] = table.def]
             /\ pc' = [pc EXCEPT ![w] = "drop"]
             /\ UNCHANGED <<pending, database, createFailed>>
    BY <1>5, DropMoves
  <2> QED
    BY <1>1, <1>2, <2>1
<1>6. CASE DropEnd(w)
  <2>1. /\ pc[w] \in {"dropped", "drop threw"}
        /\ pc' = [pc EXCEPT ![w] = "idle"]
        /\ UNCHANGED <<pending, name, createFailed>>
        /\ database' = [m \in Names |->
               IF database[m] = claimed[w] THEN NoId ELSE database[m]]
    BY <1>6, DropEndMoves
  <2>2. pending[v] # claimed[w]
    BY <2>1, Claims DEF Dropping
  <2> QED
    BY <1>1, <1>2, <2>1, <2>2
<1>7. CASE CreateSql(w)
  <2>1. /\ pending' = pending /\ name' = name
        /\ \/ /\ pc' = [pc EXCEPT ![w] = "create ok"] /\ database[name[w]] = NoTable
              /\ database' = [database EXCEPT ![name[w]] = pending[w]]
              /\ createFailed' = createFailed
           \/ /\ pc' = [pc EXCEPT ![w] = "create error"] /\ database' = database
              /\ createFailed' = createFailed \union {name[w]}
    BY <1>7, CreateSqlMoves, OnTheWay
  <2>2. NoTable \notin Ids
    BY DdlDatabaseAssumption
  <2>3. CASE v = w
    BY <1>1, <2>1, <2>3
  <2>4. CASE v # w
    BY <1>1, <1>2, <2>1, <2>2, <2>4
  <2> QED
    BY <2>3, <2>4
<1>8. CASE DropSql(w)
  <2>1. /\ pending' = pending /\ name' = name
        /\ pc[w] = "drop" /\ createFailed' = createFailed
        /\ \/ /\ pc' = [pc EXCEPT ![w] = "drop ok"]
              /\ database' = [database EXCEPT ![name[w]] = NoTable]
           \/ pc' = [pc EXCEPT ![w] = "drop error"] /\ database' = database
    BY <1>8, DropSqlMoves, OnTheWay
  <2>2. name[w] = name[v] => database[name[v]] = claimed[w]
    BY <2>1, ClaimedIsThere
  <2>3. pending[v] # claimed[w]
    BY <2>1, Claims DEF Dropping
  <2>4. pc[v] \in Between => name[v] # name[w]
    BY <1>2, <2>1, <2>2, <2>3
  <2>5. pc'[v] \in Between => pc[v] \in Between /\ v # w
    BY <1>1, <2>1
  <2>6. pc'[v] # "create error"
    BY <1>1, <1>2, <2>1
  <2> QED
    BY <1>1, <1>2, <2>1, <2>4, <2>5, <2>6
<1>9. CASE CreateReply(w) \/ DropReply(w)
  <2>1. /\ UNCHANGED <<pending, name, database, createFailed>>
        /\ \/ pc[w] \in {"create ok", "create error"} /\ pc' = [pc EXCEPT ![w] = "create threw"]
           \/ pc[w] = "create ok" /\ pc' = [pc EXCEPT ![w] = "created"]
           \/ pc[w] \in {"drop ok", "drop error"} /\ pc' = [pc EXCEPT ![w] = "drop threw"]
           \/ pc[w] = "drop ok" /\ pc' = [pc EXCEPT ![w] = "dropped"]
    BY <1>9, ReplyMoves, OnTheWay
  <2> QED
    BY <1>1, <1>2, <2>1
<1> QED
  BY <1>3, <1>4, <1>5, <1>6, <1>7, <1>8, <1>9 DEF WorkerStep

-----------------------------------------------------------------------------
(* Theorems.                                                               *)

LEMMA DdlInit == Init => DdlInv
<1> SUFFICES ASSUME Init PROVE DdlInv
  OBVIOUS
<1>1. \A w \in Workers : pending[w] = NoId /\ claimed[w] = NoId /\ pc[w] = "idle"
  BY DEF Init
<1>2. /\ live = {} /\ Store!Reserved = {} /\ Cardinality({}) = 0
      /\ IsFiniteSet(live)
  BY <1>1, FS_EmptySet DEF Init, Store!Reserved
<1>3. size + Cardinality(Store!Reserved) <= MaxTables
  BY <1>2, DdlDatabaseAssumption DEF size
<1>4. name \in [Workers -> Names]
  <2>1. (CHOOSE n \in Names : TRUE) \in Names
    BY DdlDatabaseAssumption
  <2> QED
    BY <2>1 DEF Init
<1>5. /\ S!TypeOK /\ life <= MaxLives
      /\ session \in [Workers -> 0 .. MaxLives]
  BY DdlDatabaseAssumption DEF Init, S!TypeOK
<1>6. TypeOK
  BY <1>1, <1>3, <1>4, <1>5 DEF Init, TypeOK, Creating, Dropping
<1>7. StoreInv /\ Traced /\ Made
  BY <1>1, <1>2 DEF Init, StoreInv, Traced, Made
<1>8. Owned /\ Gone /\ ForeignDropsExplained
  BY <1>1, <1>4 DEF Init, Owned, Gone, ForeignDropsExplained
<1> QED
  BY <1>5, <1>6, <1>7, <1>8 DEF DdlInv

LEMMA DdlStep == DdlInv /\ [Next]_vars => DdlInv'
<1> SUFFICES ASSUME DdlInv, [Next]_vars PROVE DdlInv'
  OBVIOUS
<1>1. ASSUME NEW w \in Workers, WorkerStep(w) PROVE DdlInv'
  BY <1>1, TypeStep, StoreStep, TracedStep, MadeStep, OwnedStep, GoneStep, ForeignStep
     DEF DdlInv
<1>2. CASE ServerFault \/ Reconnect \/ UNCHANGED vars
  BY <1>2, ServerSteps
<1> QED
  BY <1>1, <1>2 DEF Next, WorkerStep

LEMMA DdlInvariant == Spec => []DdlInv
BY DdlInit, DdlStep, PTL DEF Spec

\* Whatever a statement came to, no action leaves a reservation or a locked table
\* behind, and no CREATE is let in for which there is no room.
THEOREM DatabaseTypeCorrect == Spec => []TypeOK
<1>1. DdlInv => TypeOK
  BY DEF DdlInv
<1> QED
  BY <1>1, DdlInvariant, PTL

\* A table of the database that the metadata does not know is one whose DROP had
\* failed: the completion in ~Reservation never forgets a CREATE (ddl.cpp).
THEOREM OrphansHaveCause == Spec => []OrphansExplained
<1>1. DdlInv => OrphansExplained
  <2> SUFFICES ASSUME DdlInv, NEW n \in Names, database[n] # NoTable, ~Known(n),
                      ~InFlight(n, Creating), n \notin dropFailed
               PROVE  FALSE
    BY DEF OrphansExplained
  <2>1. /\ database[n] # NoId
        /\ \/ [id |-> database[n], def |-> n] \in live
           \/ \E w \in Workers : pending[w] = database[n] /\ name[w] = n
    BY DEF DdlInv, Owned
  <2>2. CASE [id |-> database[n], def |-> n] \in live
    BY <2>2 DEF Known
  <2>3. CASE \E w \in Workers : pending[w] = database[n] /\ name[w] = n
    BY <2>1, <2>3 DEF DdlInv, TypeOK, InFlight
  <2> QED
    BY <2>1, <2>2, <2>3
<1> QED
  BY <1>1, DdlInvariant, PTL

\* A table of the metadata that the database does not have is one of a name whose
\* CREATE had failed: a DROP that took effect is never forgotten.
THEOREM PhantomsHaveCause == Spec => []PhantomsExplained
<1>1. DdlInv => PhantomsExplained
  <2> SUFFICES ASSUME DdlInv, NEW table \in live, database[table.def] = NoTable,
                      ~InFlight(table.def, Dropping), table.def \notin createFailed
               PROVE  FALSE
    BY DEF PhantomsExplained, Known
  <2>1. table.id \in Ids /\ table.id # NoTable
    BY DdlDatabaseAssumption DEF DdlInv, TypeOK
  <2>2. PICK w \in Workers : /\ claimed[w] = table.id
                             /\ pc[w] \in {"drop ok", "dropped", "drop threw"}
    BY <2>1 DEF DdlInv, Traced, Removing
  <2>3. name[w] = table.def
    <3>1. [id |-> claimed[w], def |-> name[w]] \in live
      BY <2>2, Claims DEF Dropping
    <3>2. \A a, b \in live : a.id = b.id => a = b
      BY DEF DdlInv, StoreInv
    <3>3. table = [id |-> claimed[w], def |-> name[w]]
      BY <2>2, <3>1, <3>2
    <3> QED
      BY <3>3
  <2> QED
    BY <2>2, <2>3 DEF InFlight, Dropping
<1> QED
  BY <1>1, DdlInvariant, PTL

\* A DROP hits the table of another CREATE only after a CREATE of the name has
\* failed: the lock of the slot keeps two workers from dropping one table.
THEOREM ForeignDropsHaveCause == Spec => []ForeignDropsExplained
<1>1. DdlInv => ForeignDropsExplained
  BY DEF DdlInv
<1> QED
  BY <1>1, DdlInvariant, PTL
=============================================================================
