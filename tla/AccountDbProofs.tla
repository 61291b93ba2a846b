-------------------------- MODULE AccountDbProofs --------------------------
(***************************************************************************)
(* Proofs about AccountDb, for any number of tasks and any bounds.         *)
(***************************************************************************)
EXTENDS AccountDb, TLAPS

(* The part of TypeOK that is about tasks.                                 *)
TaskTypes ==
  /\ pc \in [Tasks -> PCs]
  /\ kind \in [Tasks -> Kinds]
  /\ local \in [Tasks -> Files]
  /\ fresh \in [Tasks -> BOOLEAN]
  /\ cred \in [Tasks -> Gens]

(* Which kinds of task get to a step.                                      *)
StepsOfKinds ==
  \A t \in Tasks :
    /\ pc[t] = "login" => kind[t] = "login"
    /\ pc[t] = "prompt" => kind[t] = "unlock"
    /\ pc[t] \in {"read", "reread", "clear"} => kind[t] = "rotate"
    /\ pc[t] \in {"call", "recall"} => kind[t] \in {"write"} \union ChangeKinds

(* The first file is one.                                                  *)
LEMMA FirstFiles == /\ FirstKey \in WrappedKeys
                    /\ FirstFile \in Files
                    /\ Blank \in Files
                    /\ 1 \in Gens
BY BoundAssumption
   DEF FirstKey, FirstFile, Blank, Files, WrappedKeys, Gens, Tokens, NoToken

(* A task that ends leaves well-typed variables behind.                    *)
LEMMA EndTypes ==
  ASSUME TypeOK, NEW S, End(S)
  PROVE  TaskTypes' /\ StepsOfKinds'
<1>1. /\ pc' \in [Tasks -> PCs] /\ kind' \in [Tasks -> Kinds]
      /\ fresh' \in [Tasks -> BOOLEAN]
  BY DEF TypeOK, End, PCs, Kinds
<1>2. local' \in [Tasks -> Files] /\ cred' \in [Tasks -> Gens]
  BY FirstFiles DEF TypeOK, End
<1>3. StepsOfKinds'
  BY DEF TypeOK, End, StepsOfKinds
<1> QED
  BY <1>1, <1>2, <1>3 DEF TaskTypes

(* A task that begins does.                                                *)
LEMMA BeginTypes ==
  ASSUME TypeOK, NEW t \in Tasks, NEW k \in Kinds, NEW p \in PCs,
         p = "login" => k = "login",
         p = "prompt" => k = "unlock",
         p = "read" => k = "rotate",
         p = "call" => k \in {"write"} \union ChangeKinds,
         p \notin {"reread", "clear", "recall"},
         Begin(t, k, p)
  PROVE  TaskTypes' /\ StepsOfKinds'
<1>1. TaskTypes'
  BY DEF TypeOK, Begin, Goto, TaskTypes
<1>2. StepsOfKinds'
  BY DEF TypeOK, Begin, Goto, StepsOfKinds
<1> QED
  BY <1>1, <1>2

(* Going on to a step that any kind of task may reach keeps the types of   *)
(* the steps.                                                              *)
LEMMA GotoTypes ==
  ASSUME TypeOK, NEW t \in Tasks, NEW p \in PCs, Goto(t, p),
         UNCHANGED kind,
         p \notin {"login", "prompt", "read"},
         p \in {"reread", "clear"} => kind[t] = "rotate",
         p \in {"call", "recall"} => kind[t] \in {"write"} \union ChangeKinds
  PROVE  pc' \in [Tasks -> PCs] /\ StepsOfKinds'
BY DEF TypeOK, Goto, StepsOfKinds

(* What the steps save is a file.                                          *)
LEMMA ChangedType ==
  ASSUME TypeOK, NEW t \in Tasks,
         NewKdf(t) <= MaxGen, NewUser(t) <= MaxGen
  PROVE  /\ NewKdf(t) \in Gens /\ NewUser(t) \in Gens
         /\ WrappedKey(t) \in WrappedKeys
         /\ Changed(t) \in Files
<1>1. local[t] \in Files /\ server.vault \in Gens
  BY DEF TypeOK
<1>2. NewKdf(t) \in Gens /\ NewUser(t) \in Gens
  BY <1>1, BoundAssumption DEF NewKdf, NewUser, Files, WrappedKeys, Gens
<1>3. WrappedKey(t) \in WrappedKeys
  BY <1>2 DEF WrappedKey, WrappedKeys
<1> QED
  BY <1>1, <1>2, <1>3 DEF Changed, NewPrivate, Files

LEMMA LoggedInType ==
  ASSUME TypeOK, NEW t \in Tasks, minted < MaxToken
  PROVE  LoggedIn(t) \in Files
<1>1. local[t] \in Files /\ server.kdf \in Gens /\ server.key \in WrappedKeys
  BY DEF TypeOK
<1>2. minted + 1 \in Tokens
  BY BoundAssumption DEF TypeOK, Tokens, NoToken
<1> QED
  BY <1>1, <1>2 DEF LoggedIn, Files

LEMMA SyncedType ==
  ASSUME TypeOK, NEW t \in Tasks
  PROVE  Synced(t) \in Files
BY DEF TypeOK, Synced, Files

(* A session that ends is one that began, and what is spared came.         *)
LEMMA EndSessionsType ==
  ASSUME TypeOK, NEW ends \in BOOLEAN, EndSessions(ends),
         server' \in [kdf : Gens, key : WrappedKeys, vault : Gens]
  PROVE  /\ dead' \in 0..minted
         /\ spared' \in [kdf : SUBSET Gens, user : SUBSET Gens]
<1>1. CASE ends
  BY <1>1, BoundAssumption DEF TypeOK, EndSessions
<1>2. CASE ~ends
  <2>1. server'.kdf \in Gens /\ server'.vault \in Gens
    OBVIOUS
  <2> QED
    BY <1>2, <2>1 DEF TypeOK, EndSessions
<1> QED
  BY <1>1, <1>2

(* Spending keeps the budget a number.                                     *)
LEMMA SpendType ==
  ASSUME TypeOK, Spend
  PROVE  budget' \in 0..Budget
BY BoundAssumption DEF TypeOK, Spend

(* The variables that tasks and the server share.                          *)
SharedTypes ==
  /\ server \in [kdf : Gens, key : WrappedKeys, vault : Gens]
  /\ minted \in 1..MaxToken
  /\ dead \in 0..minted
  /\ used \subseteq 1..minted
  /\ spared \in [kdf : SUBSET Gens, user : SUBSET Gens]
  /\ db \in Files
  /\ mem \in Gens \union {Locked}
  /\ budget \in 0..Budget

LEMMA TypeParts == /\ TypeOK <=> SharedTypes /\ TaskTypes /\ StepsOfKinds
                   /\ TypeOK' <=> (SharedTypes /\ TaskTypes /\ StepsOfKinds)'
BY DEF TypeOK, SharedTypes, TaskTypes, StepsOfKinds

LEMMA InitTypes == Init => TypeOK
<1> SUFFICES ASSUME Init PROVE TypeOK
  OBVIOUS
<1>1. SharedTypes
  BY FirstFiles, BoundAssumption DEF Init, SharedTypes, Gens
<1>2. TaskTypes /\ StepsOfKinds
  BY FirstFiles DEF Init, TaskTypes, StepsOfKinds, PCs, Kinds
<1> QED
  BY <1>1, <1>2, TypeParts

(* Every step of a task keeps the types.                                   *)
LEMMA ProgressTypes ==
  ASSUME TypeOK, NEW t \in Tasks, Progress(t)
  PROVE  TypeOK'
<1>0. SharedTypes /\ TaskTypes /\ StepsOfKinds
  BY TypeParts
<1>1. CASE Fail(t)
  BY <1>0, <1>1, EndTypes, TypeParts DEF Fail, SharedTypes, serverVars
<1>2. CASE Exchange(t)
  <2>1. pc' \in [Tasks -> PCs] /\ StepsOfKinds'
    <3>1. CASE pc[t] = "read"
      BY <1>0, <1>2, <3>1, GotoTypes DEF Exchange, Again, PCs, Calls, StepsOfKinds
    <3>2. CASE pc[t] = "call"
      BY <1>0, <1>2, <3>2, GotoTypes DEF Exchange, Again, PCs, Calls, StepsOfKinds
    <3>3. CASE pc[t] = "fetch"
      BY <1>0, <1>2, <3>3, GotoTypes DEF Exchange, Again, PCs, Calls
    <3> QED
      BY <1>2, <3>1, <3>2, <3>3 DEF Exchange, FirstCalls
  <2>2. CASE RotatingTokens
    <3>1. minted + 1 \in Tokens /\ minted' = minted + 1 /\ minted' \in 1..MaxToken
      BY <1>0, <1>2, <2>2, BoundAssumption
         DEF Exchange, SharedTypes, Tokens, NoToken
    <3>2. local[t].token \in 1..minted
      BY <1>0, <1>2, BoundAssumption DEF Exchange, LiveTokens, SharedTypes
    <3>3. dead' \in 0..minted' /\ used' \subseteq 1..minted'
      BY <1>0, <1>2, <2>2, <3>1, <3>2 DEF Exchange, SharedTypes
    <3>4. SharedTypes'
      BY <1>0, <1>2, <3>1, <3>3 DEF Exchange, SharedTypes
    <3>5. local' \in [Tasks -> Files]
      BY <1>0, <1>2, <2>2, <3>1 DEF Exchange, TaskTypes, Files
    <3> QED
      BY <1>0, <1>2, <2>1, <3>4, <3>5, TypeParts DEF Exchange, TaskTypes
  <2>3. CASE ~RotatingTokens
    BY <1>0, <1>2, <2>1, <2>3, TypeParts
       DEF Exchange, TaskTypes, SharedTypes
  <2> QED
    BY <2>2, <2>3
<1>3. CASE SessionExpired(t)
  <2>1. SharedTypes'
    BY <1>0, <1>3 DEF SessionExpired, SharedTypes, serverVars
  <2>2. CASE pc[t] = "fetch"
    <3>1. local' \in [Tasks -> Files]
      BY <1>0, <1>3, <2>2, BoundAssumption
         DEF SessionExpired, TaskTypes, Files, Tokens, NoToken
    <3>2. pc' \in [Tasks -> PCs] /\ StepsOfKinds'
      BY <1>3, <2>2, GotoTypes DEF SessionExpired, PCs
    <3> QED
      BY <1>0, <1>3, <2>1, <2>2, <3>1, <3>2, TypeParts
         DEF SessionExpired, TaskTypes
  <2>3. CASE pc[t] # "fetch"
    BY <1>3, <2>1, <2>3, EndTypes, TypeParts DEF SessionExpired
  <2> QED
    BY <2>2, <2>3
<1>4. CASE SendWrite(t)
  <2>1. pc' \in [Tasks -> PCs] /\ StepsOfKinds'
    BY <1>4, GotoTypes DEF SendWrite, PCs
  <2> QED
    BY <1>0, <1>4, <2>1, TypeParts
       DEF SendWrite, TaskTypes, SharedTypes, serverVars
<1>5. CASE ReadVault(t)
  <2>1. kind[t] = "rotate"
    BY <1>0, <1>5 DEF ReadVault, Answered, Again, StepsOfKinds
  <2>2. pc' \in [Tasks -> PCs] /\ StepsOfKinds'
    BY <1>5, <2>1, GotoTypes DEF ReadVault, PCs, Calls, FirstCalls, ChangeKinds
  <2> QED
    BY <1>0, <1>5, <2>2, TypeParts
       DEF ReadVault, TaskTypes, SharedTypes, serverVars
<1>6. CASE ChangeMasterKey(t)
  <2>1. /\ NewKdf(t) \in Gens /\ NewUser(t) \in Gens
        /\ WrappedKey(t) \in WrappedKeys /\ Changed(t) \in Files
    BY <1>6, ChangedType DEF ChangeMasterKey
  <2>2. server' \in [kdf : Gens, key : WrappedKeys, vault : Gens]
    BY <1>0, <1>6, <2>1 DEF ChangeMasterKey, SharedTypes
  <2>3. /\ dead' \in 0..minted
        /\ spared' \in [kdf : SUBSET Gens, user : SUBSET Gens]
    BY <1>6, <2>2, EndSessionsType DEF ChangeMasterKey
  <2>4. SharedTypes'
    BY <1>0, <1>6, <2>2, <2>3 DEF ChangeMasterKey, SharedTypes
  <2>5. CASE End({t})
    BY <2>4, <2>5, EndTypes, TypeParts
  <2>6. CASE /\ local' = [local EXCEPT ![t] = Changed(t)]
             /\ Goto(t, "save")
             /\ UNCHANGED <<kind, fresh, cred>>
    <3>1. pc' \in [Tasks -> PCs] /\ StepsOfKinds'
      BY <2>6, GotoTypes DEF PCs
    <3> QED
      BY <1>0, <2>1, <2>4, <2>6, <3>1, TypeParts DEF TaskTypes
  <2> QED
    BY <1>6, <2>5, <2>6 DEF ChangeMasterKey
<1>7. CASE LogIn(t)
  <2>1. pc' \in [Tasks -> PCs] /\ StepsOfKinds'
    BY <1>7, GotoTypes DEF LogIn, PCs
  <2>2. LoggedIn(t) \in Files
    BY <1>7, LoggedInType DEF LogIn
  <2>3. server.key.user \in Gens
    BY <1>0 DEF SharedTypes, WrappedKeys
  <2>4. minted' \in 1..MaxToken /\ dead' \in 0..minted' /\ used' \subseteq 1..minted'
    BY <1>0, <1>7, BoundAssumption DEF LogIn, SharedTypes
  <2>5. SharedTypes'
    BY <1>0, <1>7, <2>4 DEF LogIn, SharedTypes
  <2> QED
    BY <1>0, <1>7, <2>1, <2>2, <2>3, <2>5, TypeParts DEF LogIn, TaskTypes
<1>8. CASE Fetch(t)
  <2>1. pc' \in [Tasks -> PCs] /\ StepsOfKinds'
    BY <1>8, GotoTypes DEF Fetch, PCs
  <2>2. Synced(t) \in Files
    BY SyncedType
  <2> QED
    BY <1>0, <1>8, <2>1, <2>2, TypeParts
       DEF Fetch, TaskTypes, SharedTypes, serverVars
<1>9. CASE Save(t)
  <2>1. pc' \in [Tasks -> PCs] /\ StepsOfKinds'
    BY <1>9, GotoTypes DEF Save, PCs
  <2> QED
    BY <1>0, <1>9, <2>1, TypeParts
       DEF Save, TaskTypes, SharedTypes, serverVars
<1>10. CASE ClearAccount(t)
  <2>1. pc' \in [Tasks -> PCs] /\ StepsOfKinds'
    BY <1>10, GotoTypes DEF ClearAccount, PCs
  <2> QED
    BY <1>0, <1>10, <2>1, TypeParts
       DEF ClearAccount, TaskTypes, SharedTypes, serverVars
<1>11. CASE Resync(t)
  <2>1. SharedTypes'
    BY <1>0, <1>11 DEF Resync, SharedTypes, serverVars
  <2>2. CASE db.token = NoToken
    BY <1>11, <2>1, <2>2, EndTypes, TypeParts DEF Resync
  <2>3. CASE db.token # NoToken
    <3>1. pc' \in [Tasks -> PCs] /\ StepsOfKinds'
      BY <1>11, <2>3, GotoTypes DEF Resync, PCs, Calls, FirstCalls
    <3>2. local' = [local EXCEPT ![t] = db] /\ db \in Files
      BY <1>0, <1>11, <2>3 DEF Resync, SharedTypes
    <3>3. TaskTypes'
      BY <1>0, <1>11, <2>3, <3>1, <3>2 DEF Resync, TaskTypes
    <3> QED
      BY <2>1, <3>1, <3>3, TypeParts
  <2> QED
    BY <2>2, <2>3
<1>12. CASE Store(t)
  <2>1. SharedTypes'
    BY <1>0, <1>12 DEF Store, SharedTypes, TaskTypes, serverVars
  <2>2. CASE kind[t] # "login"
    BY <1>12, <2>1, <2>2, EndTypes, TypeParts DEF Store
  <2>3. CASE kind[t] = "login"
    <3>1. pc' \in [Tasks -> PCs] /\ StepsOfKinds'
      BY <1>12, <2>3, GotoTypes DEF Store, PCs
    <3> QED
      BY <1>0, <1>12, <2>1, <2>3, <3>1, TypeParts DEF Store, TaskTypes
  <2> QED
    BY <2>2, <2>3
<1>13. CASE Expire(t)
  <2>1. SharedTypes'
    BY <1>0, <1>13 DEF Expire, SharedTypes, TaskTypes, serverVars
  <2> QED
    BY <1>13, <2>1, EndTypes, TypeParts DEF Expire
<1>14. CASE Reload(t)
  <2>1. SharedTypes'
    BY <1>0, <1>14 DEF Reload, SharedTypes, serverVars
  <2>2. CASE db.private # cred[t]
    BY <1>14, <2>1, <2>2, EndTypes, TypeParts DEF Reload
  <2>3. CASE db.private = cred[t]
    <3>1. pc' \in [Tasks -> PCs] /\ StepsOfKinds'
      BY <1>14, <2>3, GotoTypes DEF Reload, PCs
    <3> QED
      BY <1>0, <1>14, <2>1, <2>3, <3>1, TypeParts DEF Reload, TaskTypes
  <2> QED
    BY <2>2, <2>3
<1>15. CASE EnterPassword(t)
  <2>1. pc' \in [Tasks -> PCs] /\ StepsOfKinds'
    BY <1>15, GotoTypes DEF EnterPassword, PCs
  <2>2. local[t].key.user \in Gens
    BY <1>0 DEF TaskTypes, Files, WrappedKeys
  <2> QED
    BY <1>0, <1>15, <2>1, <2>2, TypeParts
       DEF EnterPassword, TaskTypes, SharedTypes, serverVars
<1>16. CASE Install(t)
  <2>1. SharedTypes'
    BY <1>0, <1>16 DEF Install, SharedTypes, TaskTypes, serverVars
  <2> QED
    BY <1>16, <2>1, EndTypes, TypeParts DEF Install
<1> QED
  BY <1>1, <1>2, <1>3, <1>4, <1>5, <1>6, <1>7, <1>8, <1>9, <1>10, <1>11,
     <1>12, <1>13, <1>14, <1>15, <1>16 DEF Progress

(* So does every step of the system.                                       *)
LEMMA NextTypes == TypeOK /\ [Next]_vars => TypeOK'
<1> SUFFICES ASSUME TypeOK, [Next]_vars PROVE TypeOK'
  OBVIOUS
<1>0. SharedTypes /\ TaskTypes /\ StepsOfKinds
  BY TypeParts
<1>1. CASE OtherDevice
  <2> PICK k \in ChangeKinds, ends \in BOOLEAN :
        LET kdf   == IF k = "kdf" THEN server.kdf + 1 ELSE server.kdf
            vault == IF k = "rotate" THEN server.vault + 1 ELSE server.vault
        IN /\ kdf <= MaxGen /\ vault <= MaxGen
           /\ Spend
           /\ server' = [kdf |-> kdf, key |-> [kdf |-> kdf, user |-> vault],
                         vault |-> vault]
           /\ EndSessions(ends)
           /\ UNCHANGED <<minted, used, db, mem, taskVars>>
    BY <1>1 DEF OtherDevice
  <2> DEFINE kdf   == IF k = "kdf" THEN server.kdf + 1 ELSE server.kdf
             vault == IF k = "rotate" THEN server.vault + 1 ELSE server.vault
  <2>1. kdf \in Gens /\ vault \in Gens
    BY <1>0, BoundAssumption DEF SharedTypes, Gens
  <2> HIDE DEF kdf, vault
  <2>2. server' = [kdf |-> kdf, key |-> [kdf |-> kdf, user |-> vault],
                   vault |-> vault]
    BY DEF kdf, vault
  <2>3. server' \in [kdf : Gens, key : WrappedKeys, vault : Gens]
    BY <2>1, <2>2 DEF WrappedKeys
  <2>4. /\ dead' \in 0..minted /\ budget' \in 0..Budget
        /\ spared' \in [kdf : SUBSET Gens, user : SUBSET Gens]
    BY <2>3, EndSessionsType, SpendType
  <2> QED
    BY <1>0, <2>3, <2>4, TypeParts
       DEF SharedTypes, TaskTypes, StepsOfKinds, taskVars
<1>2. CASE Exit
  BY <1>0, <1>2, EndTypes, SpendType, TypeParts
     DEF Exit, SharedTypes, serverVars
<1>3. CASE Lock
  BY <1>0, <1>3, TypeParts
     DEF Lock, SharedTypes, TaskTypes, StepsOfKinds, serverVars, taskVars
<1>4. ASSUME NEW t \in Tasks, StartSync(t)
      PROVE  TypeOK'
  <2>1. TaskTypes' /\ StepsOfKinds'
    BY <1>4, BeginTypes DEF StartSync, PCs, Calls, FirstCalls, Kinds
  <2> QED
    BY <1>0, <1>4, <2>1, TypeParts DEF StartSync, Begin, SharedTypes, serverVars
<1>5. ASSUME NEW t \in Tasks, StartWrite(t)
      PROVE  TypeOK'
  <2>1. TaskTypes' /\ StepsOfKinds'
    BY <1>5, BeginTypes DEF StartWrite, PCs, Calls, FirstCalls, Kinds
  <2> QED
    BY <1>0, <1>5, <2>1, SpendType, TypeParts
       DEF StartWrite, Begin, SharedTypes, serverVars
<1>6. ASSUME NEW t \in Tasks, StartLogin(t)
      PROVE  TypeOK'
  <2>1. TaskTypes' /\ StepsOfKinds'
    BY <1>6, BeginTypes DEF StartLogin, PCs, Kinds
  <2> QED
    BY <1>0, <1>6, <2>1, SpendType, TypeParts
       DEF StartLogin, Begin, SharedTypes, serverVars
<1>7. ASSUME NEW t \in Tasks, StartUnlock(t)
      PROVE  TypeOK'
  <2>1. TaskTypes' /\ StepsOfKinds'
    BY <1>7, BeginTypes DEF StartUnlock, PCs, Kinds
  <2> QED
    BY <1>0, <1>7, <2>1, SpendType, TypeParts
       DEF StartUnlock, Begin, SharedTypes, serverVars
<1>8. ASSUME NEW t \in Tasks, NEW k \in ChangeKinds, StartChange(t, k)
      PROVE  TypeOK'
  <2>1. CASE k = "rotate"
    <3>1. TaskTypes' /\ StepsOfKinds'
      BY <1>8, <2>1, BeginTypes DEF StartChange, PCs, Calls, FirstCalls, Kinds
    <3> QED
      BY <1>0, <1>8, <3>1, SpendType, TypeParts
         DEF StartChange, Begin, SharedTypes, serverVars
  <2>2. CASE k # "rotate"
    <3>1. TaskTypes' /\ StepsOfKinds'
      BY <1>8, <2>2, BeginTypes DEF StartChange, PCs, Calls, FirstCalls, Kinds
    <3> QED
      BY <1>0, <1>8, <3>1, SpendType, TypeParts
         DEF StartChange, Begin, SharedTypes, serverVars
  <2> QED
    BY <2>1, <2>2
<1>9. CASE UNCHANGED vars
  BY <1>9 DEF TypeOK, vars, serverVars, taskVars
<1> QED
  BY <1>1, <1>2, <1>3, <1>4, <1>5, <1>6, <1>7, <1>8, <1>9, ProgressTypes
     DEF Next

(* Every variable of the account keeps its type, and a task reaches only   *)
(* the steps of its kind.                                                  *)
THEOREM TypeCorrect == Spec => []TypeOK
BY InitTypes, NextTypes, PTL DEF Spec
-----------------------------------------------------------------------------
(* Nothing is missed by what is up to date, more may be spared, and the    *)
(* next generation may be.                                                 *)
LEMMA SparedSame == ASSUME NEW n \in Int, NEW S PROVE Spared(n, n, S)
BY DEF Spared

LEMMA SparedMore ==
  ASSUME NEW n \in Int, NEW m \in Int, NEW S, NEW T, S \subseteq T,
         Spared(n, m, S)
  PROVE  Spared(n, m, T)
BY DEF Spared

LEMMA SparedNext ==
  ASSUME NEW n \in Int, NEW m \in Int, NEW S, NEW T, S \subseteq T,
         m + 1 \in T, Spared(n, m, S)
  PROVE  Spared(n, m + 1, T)
<1>1. n <= m + 1
  BY DEF Spared
<1>2. \A i \in (n + 1)..(m + 1) : i \in (n + 1)..m \/ i = m + 1
  OBVIOUS
<1> QED
  BY <1>1, <1>2 DEF Spared

(* The copies of the file: the file itself and those of the tasks. The     *)
(* settings of a copy have missed nothing on the way to its key, and those *)
(* and the key of a copy whose session goes on nothing on the way to the   *)
(* server's, but what spared the sessions.                                 *)
Sound(f, srv, ended, issued, gens) ==
  /\ Spared(f.kdf, f.key.kdf, gens.kdf)
  /\ ended < f.token => /\ Spared(f.kdf, srv.kdf, gens.kdf)
                        /\ Spared(f.key.user, srv.vault, gens.user)
  /\ f.token <= issued

ServerFits ==
  /\ server.key.kdf = server.kdf
  /\ Spared(server.key.user, server.vault, spared.user)

Inv ==
  /\ ServerFits
  /\ Sound(db, server, dead, minted, spared)
  /\ \A t \in Tasks : Sound(local[t], server, dead, minted, spared)

LEMMA InitSound == Init => Inv
<1> SUFFICES ASSUME Init PROVE Inv
  OBVIOUS
<1>1. ServerFits
  BY SparedSame DEF Init, ServerFits, FirstKey
<1>2. Sound(FirstFile, server, dead, minted, spared)
  BY SparedSame DEF Init, Sound, FirstFile, FirstKey
<1>3. Sound(Blank, server, dead, minted, spared)
  <2>1. /\ Blank.token = 0 /\ Blank.kdf = 1 /\ Blank.key.kdf = 1
    BY DEF Blank, FirstFile, FirstKey, NoToken
  <2> QED
    BY <2>1, SparedSame DEF Init, Sound
<1> QED
  BY <1>1, <1>2, <1>3 DEF Init, Inv

(* A blank copy is sound.                                                  *)
LEMMA BlankSound ==
  ASSUME TypeOK PROVE Sound(Blank, server, dead, minted, spared)
<1>1. dead \in Nat /\ minted \in Nat
  BY BoundAssumption DEF TypeOK
<1>2. /\ Blank.token = 0 /\ Blank.kdf = 1 /\ Blank.key.kdf = 1
  BY DEF Blank, FirstFile, FirstKey, NoToken
<1> QED
  BY <1>1, <1>2, SparedSame DEF Sound

(* The numbers in a file.                                                  *)
LEMMA FileNumbers ==
  ASSUME NEW f \in Files
  PROVE  /\ f.token \in Int /\ f.kdf \in Int
         /\ f.key.kdf \in Int /\ f.key.user \in Int
BY BoundAssumption DEF Files, WrappedKeys, Gens, Tokens, NoToken

LEMMA ServerNumbers ==
  ASSUME TypeOK
  PROVE  /\ server.kdf \in Int /\ server.vault \in Int
         /\ server.key.kdf \in Int /\ server.key.user \in Int
         /\ dead \in Int /\ minted \in Int
BY BoundAssumption DEF TypeOK, WrappedKeys, Gens

(* What is sound stays so when another token is issued.                    *)
LEMMA IssueSound ==
  ASSUME TypeOK, NEW f \in Files, Sound(f, server, dead, minted, spared)
  PROVE  Sound(f, server, dead, minted + 1, spared)
BY FileNumbers, ServerNumbers DEF Sound

(* How the server changes: a generation at a time.                         *)
NextGeneration ==
  /\ server' \in [kdf : Gens, key : WrappedKeys, vault : Gens]
  /\ server'.kdf \in {server.kdf, server.kdf + 1}
  /\ server'.vault \in {server.vault, server.vault + 1}

(* A copy that may have missed what spared the sessions may have missed    *)
(* the change too, if that did, and its session is over otherwise.         *)
LEMMA SparedGrows ==
  ASSUME TypeOK, NextGeneration, EndSessions(FALSE)
  PROVE  /\ spared.kdf \subseteq spared'.kdf /\ spared.user \subseteq spared'.user
         /\ \A n \in Int : Spared(n, server.kdf, spared.kdf)
                             => Spared(n, server'.kdf, spared'.kdf)
         /\ \A n \in Int : Spared(n, server.vault, spared.user)
                             => Spared(n, server'.vault, spared'.user)
<1>1. spared' = [kdf |-> spared.kdf \union ({server'.kdf} \ {server.kdf}),
                 user |-> spared.user \union ({server'.vault} \ {server.vault})]
  BY DEF EndSessions
<1>2. /\ spared'.kdf = spared.kdf \union ({server'.kdf} \ {server.kdf})
      /\ spared'.user = spared.user \union ({server'.vault} \ {server.vault})
  BY <1>1
<1>3. server.kdf \in Int /\ server.vault \in Int
  BY ServerNumbers
<1>4. ASSUME NEW n \in Int, Spared(n, server.kdf, spared.kdf)
      PROVE  Spared(n, server'.kdf, spared'.kdf)
  <2>1. CASE server'.kdf = server.kdf
    BY <1>2, <1>3, <1>4, <2>1, SparedMore
  <2>2. CASE server'.kdf = server.kdf + 1
    <3>1. server.kdf + 1 \in spared'.kdf
      BY <1>2, <1>3, <2>2
    <3> QED
      BY <1>2, <1>3, <1>4, <2>2, <3>1, SparedNext
  <2> QED
    BY <2>1, <2>2 DEF NextGeneration
<1>5. ASSUME NEW n \in Int, Spared(n, server.vault, spared.user)
      PROVE  Spared(n, server'.vault, spared'.user)
  <2>1. CASE server'.vault = server.vault
    BY <1>2, <1>3, <1>5, <2>1, SparedMore
  <2>2. CASE server'.vault = server.vault + 1
    <3>1. server.vault + 1 \in spared'.user
      BY <1>2, <1>3, <2>2
    <3> QED
      BY <1>2, <1>3, <1>5, <2>2, <3>1, SparedNext
  <2> QED
    BY <2>1, <2>2 DEF NextGeneration
<1> QED
  BY <1>2, <1>4, <1>5

LEMMA ChangeSound ==
  ASSUME TypeOK, NextGeneration, NEW ends \in BOOLEAN, EndSessions(ends),
         NEW f \in Files, Sound(f, server, dead, minted, spared)
  PROVE  Sound(f, server', dead', minted, spared')
<1>1. CASE ends
  <2>1. dead' = minted /\ spared' = spared
    BY <1>1 DEF EndSessions
  <2>2. ~ (minted < f.token)
    BY FileNumbers, ServerNumbers DEF Sound
  <2> QED
    BY <2>1, <2>2 DEF Sound
<1>2. CASE ~ends
  <2>1. EndSessions(FALSE) /\ dead' = dead
    BY <1>2 DEF EndSessions
  <2>2. Spared(f.kdf, f.key.kdf, spared'.kdf)
    BY <2>1, SparedGrows, SparedMore, FileNumbers DEF Sound
  <2> QED
    BY <2>1, <2>2, SparedGrows, FileNumbers DEF Sound
<1> QED
  BY <1>1, <1>2

(* Steps that leave the server alone keep the invariant when every new     *)
(* copy is an old one, blank, or sound.                                    *)
LEMMA QuietStep ==
  ASSUME TypeOK, Inv, UNCHANGED serverVars,
         \/ db' = db
         \/ \E t \in Tasks : db' = local[t],
         \A t \in Tasks : \/ local'[t] \in {local[t], db, Blank}
                          \/ Sound(local'[t], server, dead, minted, spared)
  PROVE  Inv'
<1>1. Sound(db', server, dead, minted, spared)
  BY DEF Inv
<1>2. \A t \in Tasks : Sound(local'[t], server, dead, minted, spared)
  BY BlankSound DEF Inv
<1> QED
  BY <1>1, <1>2 DEF Inv, ServerFits, serverVars

(* A task that ends leaves old copies and a blank one.                     *)
LEMMA EndCopies ==
  ASSUME NEW S, End(S)
  PROVE  \A t \in Tasks : local'[t] \in {local[t], Blank}
BY DEF End

(* A task that begins takes a copy of the file.                            *)
LEMMA BeginSound ==
  ASSUME TypeOK, Inv, NEW t \in Tasks, NEW k, NEW p, Begin(t, k, p)
  PROVE  Inv'
BY QuietStep DEF Begin, TypeOK

(* Every step of a task keeps the invariant.                               *)
LEMMA ProgressSound ==
  ASSUME TypeOK, Inv, NEW t \in Tasks, Progress(t)
  PROVE  Inv'
<1>0. local \in [Tasks -> Files] /\ db \in Files
  BY DEF TypeOK
<1>1. CASE Fail(t)
  BY <1>1, EndCopies, QuietStep DEF Fail
<1>2. CASE Exchange(t)
  <2>1. CASE ~RotatingTokens
    BY <1>2, <2>1, QuietStep DEF Exchange, serverVars
  <2>2. CASE RotatingTokens
    <3>1. /\ server' = server /\ dead' = dead /\ spared' = spared
          /\ db' = db /\ minted' = minted + 1
      BY <1>2, <2>2 DEF Exchange
    <3>2. local'[t] = [local[t] EXCEPT !.token = minted + 1]
      BY <1>0, <1>2, <2>2 DEF Exchange
    <3>3. dead < local[t].token
      BY <1>2, BoundAssumption DEF Exchange, LiveTokens, TypeOK
    <3>4. Sound(local'[t], server, dead, minted + 1, spared)
      <4>1. /\ local'[t].kdf = local[t].kdf /\ local'[t].key = local[t].key
            /\ local'[t].token = minted + 1
        BY <1>0, <3>2 DEF Files
      <4>2. minted + 1 <= minted + 1
        BY BoundAssumption DEF TypeOK
      <4> QED
        BY <3>3, <4>1, <4>2 DEF Inv, Sound
    <3>5. \A u \in Tasks \ {t} : local'[u] = local[u]
      BY <1>0, <1>2, <2>2 DEF Exchange
    <3>6. \A u \in Tasks : Sound(local'[u], server, dead, minted + 1, spared)
      BY <1>0, <3>4, <3>5, IssueSound DEF Inv
    <3>7. Sound(db, server, dead, minted + 1, spared)
      BY <1>0, IssueSound DEF Inv
    <3> QED
      BY <3>1, <3>6, <3>7 DEF Inv, ServerFits
  <2> QED
    BY <2>1, <2>2
<1>3. CASE SessionExpired(t)
  <2>1. CASE pc[t] = "fetch"
    <3>1. local'[t] = [local[t] EXCEPT !.token = NoToken]
      BY <1>0, <1>3, <2>1 DEF SessionExpired
    <3>2. /\ local'[t].kdf = local[t].kdf /\ local'[t].key = local[t].key
          /\ local'[t].token = 0
      BY <1>0, <3>1 DEF Files, NoToken
    <3>3. ~ (dead < 0) /\ 0 <= minted
      BY BoundAssumption DEF TypeOK
    <3>4. Sound(local'[t], server, dead, minted, spared)
      BY <3>2, <3>3 DEF Inv, Sound
    <3>5. \A u \in Tasks \ {t} : local'[u] = local[u]
      BY <1>0, <1>3, <2>1 DEF SessionExpired
    <3> QED
      BY <1>3, <3>4, <3>5, QuietStep DEF SessionExpired
  <2>2. CASE pc[t] # "fetch"
    BY <1>3, <2>2, EndCopies, QuietStep DEF SessionExpired
  <2> QED
    BY <2>1, <2>2
<1>4. CASE SendWrite(t) \/ ReadVault(t) \/ EnterPassword(t)
  BY <1>4, QuietStep DEF SendWrite, ReadVault, EnterPassword
<1>5. CASE ChangeMasterKey(t)
  <2> PICK ends \in BOOLEAN : EndSessions(ends)
    BY <1>5 DEF ChangeMasterKey
  <2>1. /\ server' = [kdf |-> NewKdf(t), key |-> WrappedKey(t),
                      vault |-> IF kind[t] = "rotate" THEN NewUser(t)
                                ELSE server.vault]
        /\ local[t].kdf = server.kdf
        /\ minted' = minted /\ db' = db
    BY <1>5 DEF ChangeMasterKey
  <2>2. /\ NewKdf(t) \in Gens /\ NewUser(t) \in Gens
        /\ WrappedKey(t) \in WrappedKeys /\ Changed(t) \in Files
    BY <1>5, ChangedType DEF ChangeMasterKey
  <2>3. local[t] \in Files /\ Sound(local[t], server, dead, minted, spared)
    BY <1>0 DEF Inv
  <2>4. Spared(local[t].key.user, server.vault, spared.user)
    BY <1>5, <2>3 DEF ChangeMasterKey, Answered, Alive, Sound
  <2>5. /\ server'.kdf = NewKdf(t) /\ server'.key = WrappedKey(t)
        /\ server'.key.kdf = NewKdf(t) /\ server'.key.user = NewUser(t)
        /\ server'.vault = IF kind[t] = "rotate" THEN NewUser(t)
                           ELSE server.vault
    BY <2>1 DEF WrappedKey
  <2>6. NextGeneration
    <3>1. server.vault \in Gens
      BY DEF TypeOK
    <3>2. server' \in [kdf : Gens, key : WrappedKeys, vault : Gens]
      BY <2>1, <2>2, <3>1
    <3>3. NewKdf(t) \in {server.kdf, server.kdf + 1}
      BY <2>1 DEF NewKdf
    <3>4. kind[t] = "rotate" => NewUser(t) = server.vault + 1
      BY DEF NewUser
    <3> QED
      BY <2>5, <3>2, <3>3, <3>4 DEF NextGeneration
  <2>7. Spared(server'.key.user, server'.vault, spared'.user)
    <3>1. CASE kind[t] = "rotate"
      BY <2>2, <2>5, <3>1, SparedSame DEF Gens
    <3>2. CASE kind[t] # "rotate"
      <4>1. NewUser(t) = local[t].key.user
        BY <3>2 DEF NewUser
      <4>2. Spared(local[t].key.user, server'.vault, spared'.user)
        <5>1. CASE ends
          BY <2>4, <2>5, <3>2, <5>1 DEF EndSessions
        <5>2. CASE ~ends
          BY <2>3, <2>4, <2>6, <5>2, SparedGrows, FileNumbers
        <5> QED
          BY <5>1, <5>2
      <4> QED
        BY <2>5, <4>1, <4>2
    <3> QED
      BY <3>1, <3>2
  <2>8. ServerFits'
    BY <2>5, <2>7 DEF ServerFits
  <2>9. \A u \in Tasks : local'[u] \in {local[u], Blank, Changed(t)}
    BY <1>0, <1>5, EndCopies DEF ChangeMasterKey
  <2>10. Sound(Changed(t), server', dead', minted, spared')
    <3>1. /\ Changed(t).kdf = NewKdf(t) /\ Changed(t).key.kdf = NewKdf(t)
          /\ Changed(t).key.user = NewUser(t) /\ Changed(t).token = local[t].token
      BY DEF Changed, WrappedKey
    <3>2. Spared(NewKdf(t), NewKdf(t), spared'.kdf)
      BY <2>2, SparedSame DEF Gens
    <3>3. local[t].token <= minted
      BY <2>3 DEF Sound
    <3> QED
      BY <2>5, <2>7, <3>1, <3>2, <3>3 DEF Sound
  <2>11. Sound(Blank, server', dead', minted, spared')
    BY <2>6, ChangeSound, BlankSound, FirstFiles
  <2>12. \A u \in Tasks : Sound(local'[u], server', dead', minted, spared')
    BY <1>0, <2>6, <2>9, <2>10, <2>11, ChangeSound DEF Inv
  <2>13. Sound(db, server', dead', minted, spared')
    BY <1>0, <2>6, ChangeSound DEF Inv
  <2> QED
    BY <2>1, <2>8, <2>12, <2>13 DEF Inv
<1>6. CASE LogIn(t)
  <2>1. /\ server' = server /\ dead' = dead /\ spared' = spared
        /\ db' = db /\ minted' = minted + 1
    BY <1>6 DEF LogIn
  <2>2. Sound(LoggedIn(t), server, dead, minted + 1, spared)
    <3>1. minted + 1 <= minted + 1
      BY BoundAssumption DEF TypeOK
    <3>2. Spared(server.kdf, server.kdf, spared.kdf)
      BY ServerNumbers, SparedSame
    <3>3. /\ LoggedIn(t).kdf = server.kdf /\ LoggedIn(t).key = server.key
          /\ LoggedIn(t).token = minted + 1
      BY DEF LoggedIn
    <3> QED
      BY <3>1, <3>2, <3>3 DEF Inv, ServerFits, Sound
  <2>3. \A u \in Tasks : local'[u] \in {local[u], LoggedIn(t)}
    BY <1>0, <1>6 DEF LogIn
  <2>4. \A u \in Tasks : Sound(local'[u], server, dead, minted + 1, spared)
    BY <1>0, <2>2, <2>3, IssueSound DEF Inv
  <2>5. Sound(db, server, dead, minted + 1, spared)
    BY <1>0, IssueSound DEF Inv
  <2> QED
    BY <2>1, <2>4, <2>5 DEF Inv, ServerFits
<1>7. CASE Fetch(t)
  <2>1. Sound(Synced(t), server, dead, minted, spared)
    BY <1>7 DEF Fetch, Answered, Alive, Inv, ServerFits, Sound, Synced
  <2>2. \A u \in Tasks : local'[u] \in {local[u], Synced(t)}
    BY <1>0, <1>7 DEF Fetch
  <2> QED
    BY <1>7, <2>1, <2>2, QuietStep DEF Fetch
<1>8. CASE Save(t) \/ ClearAccount(t)
  BY <1>8, QuietStep DEF Save, ClearAccount
<1>9. CASE Resync(t)
  <2>1. \A u \in Tasks : local'[u] \in {local[u], db, Blank}
    BY <1>0, <1>9, EndCopies DEF Resync
  <2> QED
    BY <1>9, <2>1, QuietStep DEF Resync
<1>10. CASE Store(t) \/ Expire(t) \/ Reload(t) \/ Install(t)
  <2>1. \A u \in Tasks : local'[u] \in {local[u], Blank}
    BY <1>10, EndCopies DEF Store, Expire, Reload, Install
  <2> QED
    BY <1>10, <2>1, QuietStep DEF Store, Expire, Reload, Install
<1> QED
  BY <1>1, <1>2, <1>3, <1>4, <1>5, <1>6, <1>7, <1>8, <1>9, <1>10
     DEF Progress

LEMMA NextSound ==
  TypeOK /\ Inv /\ [Next]_vars => Inv'
<1> SUFFICES ASSUME TypeOK, Inv, [Next]_vars
             PROVE  Inv'
  OBVIOUS
<1>1. CASE OtherDevice
  <2>1. minted' = minted /\ db' = db /\ local' = local
    BY <1>1 DEF OtherDevice, taskVars
  <2> PICK ends \in BOOLEAN : EndSessions(ends)
    BY <1>1 DEF OtherDevice
  <2>2. /\ NextGeneration
        /\ server'.key.kdf = server'.kdf /\ server'.key.user = server'.vault
    <3> PICK k \in ChangeKinds :
          LET kdf   == IF k = "kdf" THEN server.kdf + 1 ELSE server.kdf
              vault == IF k = "rotate" THEN server.vault + 1 ELSE server.vault
          IN server' = [kdf |-> kdf, key |-> [kdf |-> kdf, user |-> vault],
                        vault |-> vault]
      BY <1>1 DEF OtherDevice
    <3>1. server' \in [kdf : Gens, key : WrappedKeys, vault : Gens]
      BY <1>1, NextTypes DEF Next, TypeOK
    <3> QED
      BY <3>1 DEF NextGeneration
  <2>3. server'.vault \in Int
    BY <2>2, BoundAssumption DEF NextGeneration, Gens
  <2>4. ServerFits'
    BY <2>2, <2>3, SparedSame DEF ServerFits
  <2>5. Sound(db, server', dead', minted, spared')
    BY <2>2, ChangeSound DEF Inv, TypeOK
  <2>6. \A t \in Tasks : Sound(local[t], server', dead', minted, spared')
    BY <2>2, ChangeSound DEF Inv, TypeOK
  <2> QED
    BY <2>1, <2>4, <2>5, <2>6 DEF Inv
<1>2. CASE Exit
  BY <1>2, EndCopies, QuietStep DEF Exit
<1>3. CASE Lock
  BY <1>3, QuietStep DEF Lock, taskVars
<1>4. ASSUME NEW t \in Tasks,
             \/ StartSync(t) \/ StartWrite(t) \/ StartLogin(t) \/ StartUnlock(t)
             \/ \E k \in ChangeKinds : StartChange(t, k)
      PROVE  Inv'
  BY <1>4, BeginSound
     DEF StartSync, StartWrite, StartLogin, StartUnlock, StartChange
<1>5. CASE UNCHANGED vars
  BY <1>5, QuietStep DEF vars, taskVars
<1> QED
  BY <1>1, <1>2, <1>3, <1>4, <1>5, ProgressSound DEF Next

THEOREM SoundAlways == Spec => []Inv
<1>1. TypeOK /\ Inv /\ [Next]_vars => Inv'
  BY NextSound
<1> QED
  BY <1>1, InitSound, TypeCorrect, PTL DEF Spec

(* The right password is refused for KDF settings that do not belong to    *)
(* the wrapped key only where sessions outlived a change of the settings,  *)
(* whatever order tasks save their copies in.                              *)
THEOREM SettingsFit == Spec => []KdfFitsKey
<1>1. Inv => KdfFitsKey
  BY DEF Inv, Sound, KdfFitsKey
<1> QED
  BY <1>1, SoundAlways, PTL

(* A change of the password or of the KDF settings wraps a user key that   *)
(* was replaced only where sessions outlived the rotation.                 *)
THEOREM ServerReadable == Spec => []VaultReadable
<1>1. Inv => VaultReadable
  BY DEF Inv, ServerFits, VaultReadable
<1> QED
  BY <1>1, SoundAlways, PTL

(* A file whose session goes on has missed no change that ended sessions.  *)
THEOREM LiveIsCurrent == Spec => []LiveSessionIsCurrent
<1>1. Inv => LiveSessionIsCurrent
  BY DEF Inv, Sound, LiveSessionIsCurrent, Alive
<1> QED
  BY <1>1, SoundAlways, PTL
=============================================================================
