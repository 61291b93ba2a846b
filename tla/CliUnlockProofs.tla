-------------------------- MODULE CliUnlockProofs --------------------------
(***************************************************************************)
(* Proofs about CliUnlock, for any accounts, sources and commands.         *)
(*                                                                         *)
(* A command holds the locks of the accounts of its chain it has come      *)
(* past, but for a login, which does not lock the account it was called    *)
(* with. Since sources make no circle, the accounts of a chain differ, and *)
(* what is given back for one of them is never the lock of another.        *)
(***************************************************************************)
EXTENDS CliUnlock, TLAPS

-----------------------------------------------------------------------------
(* Chains.                                                                 *)

Follows(s) == \A i \in 1..(Len(s) - 1) : s[i + 1] = Source[s[i]]
Differ(s)  == \A i, j \in 1..Len(s) : i # j => s[i] # s[j]

LEMMA FollowingDiffers ==
  ASSUME NEW s \in Seq(Accounts), Follows(s)
  PROVE  Differ(s)
  <1>1. ASSUME NEW i \in 1..Len(s), NEW j \in 1..Len(s), i < j, s[i] = s[j]
        PROVE  FALSE
    <2>. DEFINE S == {s[k] : k \in i..(j - 1)}
    <2>1. S \in SUBSET Accounts /\ s[i] \in S
      BY <1>1
    <2>2. PICK x \in S : Source[x] \notin S
      BY <2>1, ChainAssumption
    <2>3. PICK k \in i..(j - 1) : x = s[k]
      BY <2>2
    <2>4. s[k + 1] = Source[s[k]]
      BY <1>1, <2>3 DEF Follows
    <2>5. CASE k + 1 = j
      BY <1>1, <2>1, <2>2, <2>3, <2>4, <2>5
    <2>6. CASE k + 1 # j
      <3>1. k + 1 \in i..(j - 1)
        BY <2>3, <2>6
      <3>. QED BY <2>2, <2>3, <2>4, <3>1
    <2>. QED BY <2>5, <2>6
  <1>. QED BY <1>1 DEF Differ

LEMMA PushFollows ==
  ASSUME NEW s \in Seq(Accounts), Len(s) > 0, Follows(s), NEW a \in Accounts,
         a = Source[s[Len(s)]]
  PROVE  /\ Append(s, a) \in Seq(Accounts) /\ Follows(Append(s, a))
         /\ Len(Append(s, a)) = Len(s) + 1
         /\ \A i \in 1..Len(s) : Append(s, a)[i] = s[i]
  BY DEF Follows

LEMMA PopFollows ==
  ASSUME NEW s \in Seq(Accounts), Len(s) > 1, Follows(s)
  PROVE  LET t == SubSeq(s, 1, Len(s) - 1) IN
         /\ t \in Seq(Accounts) /\ Follows(t) /\ Len(t) = Len(s) - 1
         /\ \A i \in 1..(Len(s) - 1) : t[i] = s[i]
  BY DEF Follows
-----------------------------------------------------------------------------
(* The locks.                                                              *)

\* The steps at which a command holds the lock of the account on top, unless
\* it is a login of that account; after a failure it may.
Holding == Unlocking \union {"found"}

\* The levels of a chain that are locked on the way.
Locked(p, i) == kind[p] = "login" => i > 1

LockInv ==
  /\ lock \in [Accounts -> Procs \union {Nobody}]
  /\ stamp \in [Accounts -> Procs \union {Nobody}]
  /\ pc \in [Procs -> PCs] /\ kind \in [Procs -> AllKinds]
  /\ pending \subseteq Accounts
  /\ chain \in [Procs -> Seq(Accounts)]
  /\ \A p \in Procs :
       /\ Follows(chain[p])
       /\ pc[p] = "idle" <=> Len(chain[p]) = 0
       /\ pc[p] = "busy" => Len(chain[p]) = 1
       /\ \A i \in 1..Len(chain[p]) :
            Locked(p, i) /\ (i < Len(chain[p]) \/ pc[p] \in Holding)
              => lock[chain[p][i]] = p
       /\ \A a \in Accounts : lock[a] = p =>
            \E i \in 1..Len(chain[p]) :
              /\ chain[p][i] = a
              /\ i < Len(chain[p]) \/ pc[p] \in Holding \union {"failed"}

LEMMA LockInvInit == Init => LockInv
  BY ProcAssumption DEF Init, LockInv, PCs, AllKinds, Follows, Locked, Holding, Unlocking

\* A step of one command that keeps its chain and its locks: it gets no
\* lock by it, and forgets none.
LEMMA LockInvStay ==
  ASSUME LockInv, NEW p \in Procs, NEW s \in PCs \ {"idle", "busy"},
         pc[p] # "idle", pc' = [pc EXCEPT ![p] = s],
         s \in Holding => pc[p] \in Holding \/ ~Locked(p, Len(chain[p])),
         pc[p] \in Holding \union {"failed"} => s \in Holding \union {"failed"},
         stamp' \in [Accounts -> Procs \union {Nobody}],
         pending' \subseteq Accounts,
         UNCHANGED <<lock, kind, chain>>
  PROVE  LockInv'
  BY DEF LockInv, Locked

\* A command ends, by itself or because another one stops it.
LEMMA LockInvEnd ==
  ASSUME LockInv, NEW p \in Procs, End(p), pending' \subseteq Accounts
  PROVE  LockInv'
  <1>1. /\ pc' = [pc EXCEPT ![p] = "idle"] /\ chain' = [chain EXCEPT ![p] = <<>>]
        /\ kind' = kind
        /\ lock' = [a \in Accounts |-> IF lock[a] = p THEN Nobody ELSE lock[a]]
        /\ stamp' = [a \in Accounts |-> IF stamp[a] = p THEN Nobody ELSE stamp[a]]
    BY DEF End, Goto, Leave, Held
  <1>2. Follows(<<>>) /\ <<>> \in Seq(Accounts)
    BY DEF Follows
  <1>. QED BY <1>1, <1>2, ProcAssumption DEF LockInv, Locked, PCs, Holding, Unlocking

\* The account on top is dealt with, and its lock given back if it is held;
\* the locks further down stay.
LEMMA LockInvPop ==
  ASSUME LockInv, NEW p \in Procs, Len(chain[p]) > 1,
         NEW s \in {"found", "prompt"},
         pc' = [pc EXCEPT ![p] = s],
         chain' = [chain EXCEPT ![p] = Pop(p)],
         lock' = [lock EXCEPT ![Top(p)] = IF @ = p THEN Nobody ELSE @],
         pending' \subseteq Accounts,
         UNCHANGED <<stamp, kind>>
  PROVE  LockInv'
  <1>. DEFINE n == Len(chain[p])
  <1>1. /\ chain[p] \in Seq(Accounts) /\ Follows(chain[p]) /\ Differ(chain[p])
        /\ n \in Nat /\ Top(p) = chain[p][n] /\ Top(p) \in Accounts
    BY FollowingDiffers DEF LockInv, Top
  <1>2. /\ Pop(p) \in Seq(Accounts) /\ Follows(Pop(p)) /\ Len(Pop(p)) = n - 1
        /\ \A i \in 1..(n - 1) : Pop(p)[i] = chain[p][i]
    BY <1>1, PopFollows DEF Pop
  <1>3. chain'[p] = Pop(p) /\ pc'[p] = s
    BY <1>2 DEF LockInv
  <1>4. \A a \in Accounts : lock'[a] = IF a = Top(p) /\ lock[a] = p THEN Nobody
                                       ELSE lock[a]
    BY <1>1 DEF LockInv
  <1>5. \A i \in 1..(n - 1) : Locked(p, i) => lock'[chain[p][i]] = p
    <2>1. \A i \in 1..(n - 1) : chain[p][i] # Top(p) /\ chain[p][i] \in Accounts
      BY <1>1 DEF Differ
    <2>. QED BY <1>1, <1>4, <2>1 DEF LockInv
  <1>6. \A a \in Accounts : lock'[a] = p =>
          \E i \in 1..(n - 1) : chain[p][i] = a
    <2>. SUFFICES ASSUME NEW a \in Accounts, lock'[a] = p
                  PROVE  \E i \in 1..(n - 1) : chain[p][i] = a
      OBVIOUS
    <2>1. lock[a] = p /\ a # Top(p)
      BY <1>4, ProcAssumption
    <2>2. PICK i \in 1..n : chain[p][i] = a
      BY <2>1 DEF LockInv
    <2>3. i # n
      BY <1>1, <2>1, <2>2
    <2>. QED BY <1>1, <2>2, <2>3
  <1>7. \A q \in Procs, a \in Accounts : q # p => (lock'[a] = q <=> lock[a] = q)
    BY <1>4, ProcAssumption
  <1>8. \A q \in Procs : q # p => chain'[q] = chain[q] /\ pc'[q] = pc[q]
    BY DEF LockInv
  <1>9. lock' \in [Accounts -> Procs \union {Nobody}]
    BY <1>4 DEF LockInv
  <1>10. \A q \in Procs : q # p =>
           /\ \A i \in 1..Len(chain[q]) :
                Locked(q, i) /\ (i < Len(chain[q]) \/ pc[q] \in Holding)
                  => lock'[chain[q][i]] = q
           /\ \A a \in Accounts : lock'[a] = q =>
                \E i \in 1..Len(chain[q]) :
                  /\ chain[q][i] = a
                  /\ i < Len(chain[q]) \/ pc[q] \in Holding \union {"failed"}
    BY <1>7 DEF LockInv
  <1>11. pc' \in [Procs -> PCs] /\ chain' \in [Procs -> Seq(Accounts)]
    BY <1>2 DEF LockInv, PCs
  <1>12. s \in Holding
    BY DEF Holding, Unlocking
  <1>13. /\ \A i \in 1..Len(chain'[p]) :
             Locked(p, i) => lock'[chain'[p][i]] = p
         /\ \A a \in Accounts : lock'[a] = p =>
             \E i \in 1..Len(chain'[p]) : chain'[p][i] = a
    <2>1. /\ Len(chain'[p]) = n - 1
          /\ \A i \in 1..(n - 1) : chain'[p][i] = chain[p][i]
      BY <1>2, <1>3
    <2>2. \A i \in 1..(n - 1) : Locked(p, i) => lock'[chain'[p][i]] = p
      BY <2>1, <1>5
    <2>3. \A a \in Accounts : lock'[a] = p =>
            \E i \in 1..(n - 1) : chain'[p][i] = a
      BY <2>1, <1>6
    <2>. QED BY <2>1, <2>2, <2>3
  <1>. QED BY <1>1, <1>2, <1>3, <1>8, <1>9, <1>10, <1>11, <1>12, <1>13
           DEF LockInv, Locked

\* A command goes on without the lock of its only account.
LEMMA LockInvGoesOn ==
  ASSUME LockInv, NEW p \in Procs, Len(chain[p]) = 1, pc[p] \in Holding,
         pc' = [pc EXCEPT ![p] = "busy"],
         kind[p] # "login",
         lock' = [lock EXCEPT ![Top(p)] = Nobody],
         pending' \subseteq Accounts,
         UNCHANGED <<stamp, kind, chain>>
  PROVE  LockInv'
  <1>1. /\ Top(p) = chain[p][1] /\ Top(p) \in Accounts /\ lock[Top(p)] = p
        /\ pc[p] # "idle"
    BY DEF LockInv, Top, Locked, Holding, Unlocking
  <1>2. \A a \in Accounts : lock'[a] = IF a = Top(p) THEN Nobody ELSE lock[a]
    BY <1>1 DEF LockInv
  <1>3. \A a \in Accounts : lock'[a] # p
    BY <1>1, <1>2, ProcAssumption DEF LockInv
  <1>4. \A q \in Procs, a \in Accounts : q # p => (lock'[a] = q <=> lock[a] = q)
    BY <1>1, <1>2, ProcAssumption
  <1>5. "busy" \in PCs /\ "busy" \notin Holding
    BY DEF PCs, Holding, Unlocking
  <1>6. lock' \in [Accounts -> Procs \union {Nobody}]
    BY <1>2 DEF LockInv
  <1>7. \A q \in Procs : q # p => pc'[q] = pc[q]
    BY DEF LockInv
  <1>8. pc' \in [Procs -> PCs] /\ pc'[p] = "busy"
    BY <1>5 DEF LockInv
  <1>9. \A q \in Procs : q # p =>
           /\ \A i \in 1..Len(chain[q]) :
                Locked(q, i) /\ (i < Len(chain[q]) \/ pc[q] \in Holding)
                  => lock'[chain[q][i]] = q
           /\ \A a \in Accounts : lock'[a] = q =>
                \E i \in 1..Len(chain[q]) :
                  /\ chain[q][i] = a
                  /\ i < Len(chain[q]) \/ pc[q] \in Holding \union {"failed"}
    BY <1>4 DEF LockInv
  <1>. QED BY <1>1, <1>3, <1>5, <1>6, <1>7, <1>8, <1>9 DEF LockInv, Locked

LEMMA LockInvDone ==
  ASSUME LockInv, NEW p \in Procs, Done(p), pc[p] \in {"look", "unlock"},
         pending' \subseteq Accounts
  PROVE  LockInv'
  <1>1. CASE Len(chain[p]) > 1
    <2>1. Top(p) \in Accounts /\ lock[Top(p)] = p
      BY <1>1 DEF LockInv, Top, Locked, Holding, Unlocking
    <2>2. lock' = [lock EXCEPT ![Top(p)] = IF @ = p THEN Nobody ELSE @]
      BY <1>1, <2>1 DEF Done
    <2>. QED BY <1>1, <2>2, LockInvPop DEF Done, Goto
  <1>2. CASE ~(Len(chain[p]) > 1) /\ kind[p] \in {"unlock", "force"}
    <2>1. Len(chain[p]) = 1
      <3>1. chain[p] \in Seq(Accounts) /\ Len(chain[p]) # 0
        BY DEF LockInv
      <3>2. Len(chain[p]) \in Nat
        BY <3>1
      <3>3. ~(Len(chain[p]) > 1)
        BY <1>2
      <3>4. \A n \in Nat : n # 0 /\ ~(n > 1) => n = 1
        OBVIOUS
      <3>. QED BY <3>1, <3>2, <3>3, <3>4
    <2>2. pc[p] \in Holding
      BY DEF Holding, Unlocking
    <2>. QED BY <1>2, <2>1, <2>2, LockInvGoesOn DEF Done, Goto
  <1>3. CASE ~(Len(chain[p]) > 1) /\ kind[p] \notin {"unlock", "force"}
    BY <1>3, LockInvEnd DEF Done
  <1>. QED BY <1>1, <1>2, <1>3

\* A lock is taken when it is free.
LEMMA LockInvTake ==
  ASSUME LockInv, NEW p \in Procs, TakeLock(p)
  PROVE  LockInv'
  <1>1. /\ pc[p] = "lock" /\ lock[Top(p)] = Nobody
        /\ lock' = [lock EXCEPT ![Top(p)] = p]
        /\ pc' = [pc EXCEPT ![p] = "stamp"]
        /\ UNCHANGED <<stamp, kind, chain, pending>>
    BY DEF TakeLock, Goto, agentVars
  <1>2. /\ Top(p) = chain[p][Len(chain[p])] /\ Top(p) \in Accounts
        /\ Len(chain[p]) \in Nat /\ Len(chain[p]) > 0
    BY <1>1 DEF LockInv, Top
  <1>3. \A a \in Accounts : lock'[a] = IF a = Top(p) THEN p ELSE lock[a]
    BY <1>1, <1>2 DEF LockInv
  <1>4. lock' \in [Accounts -> Procs \union {Nobody}]
    BY <1>3, <1>1 DEF LockInv
  <1>5. \A q \in Procs, a \in Accounts :
          q # p => (lock'[a] = q <=> lock[a] = q)
    BY <1>1, <1>3, ProcAssumption
  <1>6. "stamp" \in Holding /\ "stamp" \in PCs /\ "lock" \notin Holding
    BY DEF Holding, Unlocking, PCs
  <1>7. \A i \in 1..Len(chain[p]) : Locked(p, i) => lock'[chain[p][i]] = p
    BY <1>1, <1>2, <1>3 DEF LockInv
  <1>8. \A a \in Accounts : lock'[a] = p =>
          \E i \in 1..Len(chain[p]) : chain[p][i] = a
    BY <1>1, <1>2, <1>3 DEF LockInv
  <1>9. \A q \in Procs : q # p =>
           /\ pc'[q] = pc[q]
           /\ \A i \in 1..Len(chain[q]) :
                Locked(q, i) /\ (i < Len(chain[q]) \/ pc[q] \in Holding)
                  => lock'[chain[q][i]] = q
           /\ \A a \in Accounts : lock'[a] = q =>
                \E i \in 1..Len(chain[q]) :
                  /\ chain[q][i] = a
                  /\ i < Len(chain[q]) \/ pc[q] \in Holding \union {"failed"}
    BY <1>1, <1>5 DEF LockInv
  <1>10. pc' \in [Procs -> PCs] /\ pc'[p] = "stamp"
    BY <1>1, <1>6 DEF LockInv
  <1>. QED BY <1>1, <1>2, <1>4, <1>6, <1>7, <1>8, <1>9, <1>10
           DEF LockInv, Locked

\* The source is to be unlocked first.
LEMMA LockInvPush ==
  ASSUME LockInv, NEW p \in Procs, Resolve(p), Source[Top(p)] # NoSource,
         chain' = [chain EXCEPT ![p] = Append(@, Source[Top(p)])],
         pc' = [pc EXCEPT ![p] = "version"]
  PROVE  LockInv'
  <1>. DEFINE n == Len(chain[p])
  <1>1. /\ pc[p] = "resolve" /\ UNCHANGED <<lock, stamp, kind, pending>>
        /\ chain[p] \in Seq(Accounts) /\ Follows(chain[p])
        /\ n \in Nat /\ n > 0 /\ Top(p) = chain[p][n] /\ Top(p) \in Accounts
    BY DEF Resolve, LockInv, Top, agentVars, lockVars
  <1>2. Source[Top(p)] \in Accounts
    BY <1>1, SourceAssumption
  <1>3. /\ chain'[p] \in Seq(Accounts) /\ Follows(chain'[p])
        /\ Len(chain'[p]) = n + 1
        /\ \A i \in 1..n : chain'[p][i] = chain[p][i]
    BY <1>1, <1>2, PushFollows DEF LockInv
  <1>4. "resolve" \in Holding /\ "version" \in PCs
    BY DEF Holding, Unlocking, PCs
  <1>5. \A i \in 1..n : Locked(p, i) => lock[chain[p][i]] = p
    BY <1>1, <1>4 DEF LockInv
  <1>6. \A a \in Accounts : lock[a] = p => \E i \in 1..n : chain[p][i] = a
    BY DEF LockInv
  <1>7. /\ \A i \in 1..Len(chain'[p]) :
             Locked(p, i) /\ i < Len(chain'[p]) => lock[chain'[p][i]] = p
        /\ \A a \in Accounts : lock[a] = p =>
             \E i \in 1..Len(chain'[p]) :
               chain'[p][i] = a /\ i < Len(chain'[p])
    <2>1. \A i \in 1..(n + 1) : i < n + 1 => i \in 1..n
      BY <1>1
    <2>2. \A i \in 1..n : i \in 1..(n + 1) /\ i < n + 1
      BY <1>1
    <2>. QED BY <1>3, <1>5, <1>6, <2>1, <2>2
  <1>8. \A q \in Procs : q # p => chain'[q] = chain[q] /\ pc'[q] = pc[q]
    BY DEF LockInv
  <1>9. /\ pc' \in [Procs -> PCs] /\ pc'[p] = "version"
        /\ chain' \in [Procs -> Seq(Accounts)]
    BY <1>3, <1>4 DEF LockInv
  <1>10. "version" \notin Holding
    BY DEF Holding, Unlocking
  <1>11. /\ pc'[p] # "idle" /\ pc'[p] # "busy" /\ Len(chain'[p]) # 0
         /\ \A i \in 1..Len(chain'[p]) :
              Locked(p, i)' /\ (i < Len(chain'[p]) \/ pc'[p] \in Holding)
                => lock'[chain'[p][i]] = p
         /\ \A a \in Accounts : lock'[a] = p =>
              \E i \in 1..Len(chain'[p]) :
                /\ chain'[p][i] = a
                /\ i < Len(chain'[p]) \/ pc'[p] \in Holding \union {"failed"}
    BY <1>1, <1>3, <1>7, <1>9, <1>10 DEF Locked
  <1>12. \A q \in Procs : q # p =>
           /\ Follows(chain'[q])
           /\ pc'[q] = "idle" <=> Len(chain'[q]) = 0
           /\ pc'[q] = "busy" => Len(chain'[q]) = 1
           /\ \A i \in 1..Len(chain'[q]) :
                Locked(q, i)' /\ (i < Len(chain'[q]) \/ pc'[q] \in Holding)
                  => lock'[chain'[q][i]] = q
           /\ \A a \in Accounts : lock'[a] = q =>
                \E i \in 1..Len(chain'[q]) :
                  /\ chain'[q][i] = a
                  /\ i < Len(chain'[q]) \/ pc'[q] \in Holding \union {"failed"}
    BY <1>1, <1>8 DEF LockInv, Locked
  <1>. QED BY <1>1, <1>3, <1>9, <1>11, <1>12 DEF LockInv

\* The agent exits: the logins it was at fail.
LEMMA LockInvExit ==
  ASSUME LockInv, pc' \in [Procs -> PCs],
         \A q \in Procs :
           \/ pc'[q] = pc[q]
           \/ /\ pc[q] # "idle" /\ pc'[q] \in {"run", "failed"}
              /\ pc[q] \in Holding \union {"failed"} => pc'[q] = "failed",
         UNCHANGED <<lock, stamp, kind, chain, pending>>
  PROVE  LockInv'
  <1>1. {"idle", "busy", "run", "failed"} \cap Holding = {}
    BY DEF Holding, Unlocking
  <1>2. \A q \in Procs : pc'[q] \in Holding => pc[q] \in Holding
    BY <1>1
  <1>3. \A q \in Procs : pc[q] \in Holding \union {"failed"}
                           => pc'[q] \in Holding \union {"failed"}
    BY <1>1
  <1>4. \A q \in Procs :
           /\ Follows(chain'[q])
           /\ pc'[q] = "idle" <=> Len(chain'[q]) = 0
           /\ pc'[q] = "busy" => Len(chain'[q]) = 1
    BY DEF LockInv
  <1>5. \A q \in Procs : \A i \in 1..Len(chain'[q]) :
          Locked(q, i)' /\ (i < Len(chain'[q]) \/ pc'[q] \in Holding)
            => lock'[chain'[q][i]] = q
    BY <1>2 DEF LockInv, Locked
  <1>6. \A q \in Procs : \A b \in Accounts : lock'[b] = q =>
          \E i \in 1..Len(chain'[q]) :
            /\ chain'[q][i] = b
            /\ i < Len(chain'[q]) \/ pc'[q] \in Holding \union {"failed"}
    BY <1>3 DEF LockInv
  <1>. QED BY <1>4, <1>5, <1>6 DEF LockInv

LEMMA LockInvStart ==
  ASSUME LockInv, NEW p \in Procs, NEW a \in Accounts, NEW k \in AllKinds,
         pc[p] = "idle", pc' = [pc EXCEPT ![p] = "version"],
         kind' = [kind EXCEPT ![p] = k], chain' = [chain EXCEPT ![p] = <<a>>],
         pending' \subseteq Accounts,
         UNCHANGED <<lock, stamp>>
  PROVE  LockInv'
  <1>1. <<a>> \in Seq(Accounts) /\ Follows(<<a>>) /\ Len(<<a>>) = 1
    BY DEF Follows
  <1>2. \A b \in Accounts : lock[b] # p
    BY DEF LockInv
  <1>3. "version" \in PCs /\ "version" \notin Holding
    BY DEF PCs, Holding, Unlocking
  <1>4. \A q \in Procs : q # p =>
           /\ Follows(chain'[q])
           /\ pc'[q] = "idle" <=> Len(chain'[q]) = 0
           /\ pc'[q] = "busy" => Len(chain'[q]) = 1
           /\ \A i \in 1..Len(chain'[q]) :
                Locked(q, i)' /\ (i < Len(chain'[q]) \/ pc'[q] \in Holding)
                  => lock'[chain'[q][i]] = q
           /\ \A b \in Accounts : lock'[b] = q =>
                \E i \in 1..Len(chain'[q]) :
                  /\ chain'[q][i] = b
                  /\ i < Len(chain'[q]) \/ pc'[q] \in Holding \union {"failed"}
    BY DEF LockInv, Locked
  <1>5. pc'[p] = "version" /\ chain'[p] = <<a>>
    BY DEF LockInv
  <1>6. /\ pc' \in [Procs -> PCs] /\ kind' \in [Procs -> AllKinds]
        /\ chain' \in [Procs -> Seq(Accounts)]
    BY <1>1, <1>3 DEF LockInv
  <1>. QED BY <1>1, <1>2, <1>3, <1>4, <1>5, <1>6 DEF LockInv

\* `rbw unlock --force` stops the process the lock file names.
LEMMA LockInvStopRunning ==
  ASSUME LockInv, NEW p \in Procs, StopRunning(p)
  PROVE  LockInv'
  <1>. DEFINE victim == stamp[Top(p)]
  <1>1. pc[p] = "force" /\ pending' = pending
    BY DEF StopRunning, agentVars
  <1>2. "lock" \in PCs \ {"idle", "busy"}
        /\ {"lock", "force"} \cap (Holding \union {"failed"}) = {}
    BY DEF PCs, Holding, Unlocking
  <1>3. CASE victim \notin Procs \ {p}
    <2>1. pc' = [pc EXCEPT ![p] = "lock"] /\ UNCHANGED <<lock, stamp, kind, chain>>
      BY <1>3 DEF StopRunning, Goto, lockVars
    <2>2. stamp' \in [Accounts -> Procs \union {Nobody}] /\ pending' \subseteq Accounts
      BY <1>1, <2>1 DEF LockInv
    <2>. QED BY <1>1, <1>2, <2>1, <2>2, LockInvStay
  <1>4. CASE victim \in Procs \ {p}
    <2>1. /\ pc' = [pc EXCEPT ![p] = "lock", ![victim] = "idle"]
          /\ chain' = [chain EXCEPT ![victim] = <<>>]
          /\ kind' = kind
          /\ lock' = [a \in Accounts |->
                        IF lock[a] = victim THEN Nobody ELSE lock[a]]
          /\ stamp' = [a \in Accounts |->
                        IF stamp[a] = victim THEN Nobody ELSE stamp[a]]
      BY <1>4 DEF StopRunning, Kill, Leave, Held
    <2>2. Follows(<<>>) /\ <<>> \in Seq(Accounts) /\ Len(<<>>) = 0
      BY DEF Follows
    <2>3. /\ pc'[p] = "lock" /\ pc'[victim] = "idle" /\ chain'[victim] = <<>>
          /\ \A q \in Procs \ {victim} : chain'[q] = chain[q]
          /\ \A q \in Procs \ {victim, p} : pc'[q] = pc[q]
          /\ pc' \in [Procs -> PCs] /\ chain' \in [Procs -> Seq(Accounts)]
      <3>1. pc \in [Procs -> PCs] /\ chain \in [Procs -> Seq(Accounts)]
            /\ "lock" \in PCs /\ "idle" \in PCs
        BY DEF LockInv, PCs
      <3>2. pc' = [q \in Procs |-> IF q = victim THEN "idle"
                                  ELSE IF q = p THEN "lock" ELSE pc[q]]
        BY <1>4, <2>1, <3>1
      <3>3. chain' = [q \in Procs |-> IF q = victim THEN <<>> ELSE chain[q]]
        BY <1>4, <2>1, <3>1
      <3>. QED BY <1>4, <2>2, <3>1, <3>2, <3>3
    <2>4. /\ \A a \in Accounts : lock'[a] # victim
          /\ \A a \in Accounts, q \in Procs \ {victim} :
               lock'[a] = q <=> lock[a] = q
          /\ lock' \in [Accounts -> Procs \union {Nobody}]
          /\ stamp' \in [Accounts -> Procs \union {Nobody}]
      BY <1>4, <2>1, ProcAssumption DEF LockInv
    <2>5. \A q \in Procs \ {victim} :
           /\ Follows(chain'[q])
           /\ pc'[q] = "idle" <=> Len(chain'[q]) = 0
           /\ pc'[q] = "busy" => Len(chain'[q]) = 1
           /\ \A i \in 1..Len(chain'[q]) :
                Locked(q, i)' /\ (i < Len(chain'[q]) \/ pc'[q] \in Holding)
                  => lock'[chain'[q][i]] = q
           /\ \A b \in Accounts : lock'[b] = q =>
                \E i \in 1..Len(chain'[q]) :
                  /\ chain'[q][i] = b
                  /\ i < Len(chain'[q]) \/ pc'[q] \in Holding \union {"failed"}
      <3>. SUFFICES ASSUME NEW q \in Procs \ {victim}
                    PROVE  /\ Follows(chain[q])
                           /\ pc'[q] = "idle" <=> Len(chain[q]) = 0
                           /\ pc'[q] = "busy" => Len(chain[q]) = 1
                           /\ \A i \in 1..Len(chain[q]) :
                                Locked(q, i) /\ (i < Len(chain[q])
                                                 \/ pc'[q] \in Holding)
                                  => lock'[chain[q][i]] = q
                           /\ \A b \in Accounts : lock'[b] = q =>
                                \E i \in 1..Len(chain[q]) :
                                  /\ chain[q][i] = b
                                  /\ \/ i < Len(chain[q])
                                     \/ pc'[q] \in Holding \union {"failed"}
        BY <2>1, <2>3 DEF Locked
      <3>1. CASE q = p
        <4>1. \A i \in 1..Len(chain[q]) : chain[q][i] \in Accounts
          BY DEF LockInv
        <4>2. /\ Follows(chain[q])
              /\ pc[q] = "idle" <=> Len(chain[q]) = 0
              /\ \A i \in 1..Len(chain[q]) :
                   Locked(q, i) /\ (i < Len(chain[q]) \/ pc[q] \in Holding)
                     => lock[chain[q][i]] = q
              /\ \A b \in Accounts : lock[b] = q =>
                   \E i \in 1..Len(chain[q]) :
                     /\ chain[q][i] = b
                     /\ \/ i < Len(chain[q])
                        \/ pc[q] \in Holding \union {"failed"}
          BY DEF LockInv
        <4>3. pc[q] = "force" /\ pc'[q] = "lock"
          BY <1>1, <2>3, <3>1
        <4>4. pc[q] \notin Holding /\ pc'[q] \notin Holding /\ pc[q] # "failed"
          BY <1>2, <4>3
        <4>5. \A i \in 1..Len(chain[q]) :
                Locked(q, i) /\ (i < Len(chain[q]) \/ pc'[q] \in Holding)
                  => lock'[chain[q][i]] = q
          BY <2>4, <4>1, <4>2, <4>4
        <4>6. \A b \in Accounts : lock'[b] = q =>
                   \E i \in 1..Len(chain[q]) :
                     chain[q][i] = b /\ i < Len(chain[q])
          BY <2>4, <4>2, <4>4
        <4>. QED BY <4>2, <4>3, <4>5, <4>6
      <3>2. CASE q # p
        <4>1. \A i \in 1..Len(chain[q]) : chain[q][i] \in Accounts
          BY DEF LockInv
        <4>. QED BY <2>3, <2>4, <3>2, <4>1 DEF LockInv
      <3>. QED BY <3>1, <3>2
    <2>6. /\ Follows(chain'[victim])
          /\ pc'[victim] = "idle" /\ Len(chain'[victim]) = 0
          /\ \A i \in 1..Len(chain'[victim]) : FALSE
      <3>1. chain'[victim] = <<>>
        BY <2>3
      <3>. QED BY <2>2, <2>3, <3>1
    <2>7. \A q \in Procs :
           /\ Follows(chain'[q])
           /\ pc'[q] = "idle" <=> Len(chain'[q]) = 0
           /\ pc'[q] = "busy" => Len(chain'[q]) = 1
           /\ \A i \in 1..Len(chain'[q]) :
                Locked(q, i)' /\ (i < Len(chain'[q]) \/ pc'[q] \in Holding)
                  => lock'[chain'[q][i]] = q
           /\ \A b \in Accounts : lock'[b] = q =>
                \E i \in 1..Len(chain'[q]) :
                  /\ chain'[q][i] = b
                  /\ i < Len(chain'[q]) \/ pc'[q] \in Holding \union {"failed"}
      BY <2>4, <2>5, <2>6
    <2>8. kind' \in [Procs -> AllKinds] /\ pending' \subseteq Accounts
      BY <1>1, <2>1 DEF LockInv
    <2>. QED BY <2>3, <2>4, <2>7, <2>8 DEF LockInv
  <1>. QED BY <1>3, <1>4

LEMMA LockInvFailed ==
  ASSUME LockInv, NEW p \in Procs, Failed(p)
  PROVE  LockInv'
  <1>1. pending' \subseteq Accounts /\ pc[p] = "failed"
    BY DEF Failed, agentVars, LockInv
  <1>2. CASE Len(chain[p]) = 1 \/ (Len(chain[p]) = 2 /\ kind[p] = "follow")
    BY <1>1, <1>2, LockInvEnd DEF Failed
  <1>3. CASE ~(Len(chain[p]) = 1 \/ (Len(chain[p]) = 2 /\ kind[p] = "follow"))
    <2>1. Len(chain[p]) > 1
      <3>1. Len(chain[p]) \in Nat /\ Len(chain[p]) # 0
        BY <1>1 DEF LockInv
      <3>2. \A n \in Nat : n # 0 /\ n # 1 => n > 1
        OBVIOUS
      <3>. QED BY <1>3, <3>1, <3>2
    <2>. QED BY <1>1, <1>3, <2>1, LockInvPop DEF Failed, Goto
  <1>. QED BY <1>2, <1>3

\* What the other steps of a command do with its chain and its locks.
LEMMA LockInvStep ==
  ASSUME LockInv, NEW p \in Procs, Step(p)
  PROVE  LockInv'
  <1>. USE DEF Goto, agentVars, lockVars
  <1>1. pending \subseteq Accounts /\ stamp \in [Accounts -> Procs \union {Nobody}]
    BY DEF LockInv
  <1>2. /\ PCs \ {"idle", "busy"} =
             {"version", "quit", "run", "await", "recheck", "requit", "force",
              "lock", "stamp", "look", "resolve", "found", "prompt", "send",
              "login", "unlock", "failed"}
        /\ Holding = {"stamp", "look", "resolve", "prompt", "send", "login",
                      "unlock", "found"}
    BY DEF PCs, Holding, Unlocking
  <1>3. CASE CheckVersion(p)
    <2>1. PICK s \in {"quit", "requit", "run", "failed", "force", "resolve",
                      "lock"} : pc' = [pc EXCEPT ![p] = s]
      BY <1>3 DEF CheckVersion, Ensured
    <2>2. pc[p] \in {"version", "recheck"} /\ UNCHANGED <<lock, kind, chain>>
      BY <1>3 DEF CheckVersion
    <2>3. stamp' \in [Accounts -> Procs \union {Nobody}] /\ pending' \subseteq Accounts
      BY <1>1, <1>3, <2>2 DEF CheckVersion
    <2>4. s = "resolve" => ~Locked(p, Len(chain[p]))
      <3>1. pc'[p] = s
        BY <2>1 DEF LockInv
      <3>2. s = "resolve" => kind[p] = "login" /\ Len(chain[p]) = 1
        BY <1>3, <3>1 DEF CheckVersion, Ensured, LockInv
      <3>3. kind[p] = "login" => ~Locked(p, 1)
        BY DEF Locked
      <3>. QED BY <3>2, <3>3
    <2>. QED BY <1>2, <2>1, <2>2, <2>3, <2>4, LockInvStay
  <1>4. CASE Quit(p)
    <2>1. PICK s \in {"run", "failed"} :
            \/ pc' = [pc EXCEPT ![p] = s]
            \/ pc' = [q \in Procs |-> IF q = p THEN s
                                      ELSE IF q \in Waiting THEN "failed"
                                      ELSE pc[q]]
      BY <1>4 DEF Quit
    <2>2. pc[p] \in {"quit", "requit"} /\ UNCHANGED <<lock, stamp, kind, chain, pending>>
      BY <1>4 DEF Quit, AgentExits
    <2>3. pc \in [Procs -> PCs] /\ s \in PCs /\ "failed" \in PCs
      BY DEF LockInv, PCs
    <2>4. pc' \in [Procs -> PCs]
      BY <2>1, <2>3
    <2>5. \A q \in Procs : pc'[q] = IF q = p THEN s ELSE pc'[q]
      BY <2>1, <2>3
    <2>6. \A q \in Procs : q # p =>
            pc'[q] = pc[q] \/ (pc[q] = "login" /\ pc'[q] = "failed")
      BY <2>1, <2>3 DEF Waiting
    <2>7. \A q \in Procs :
           \/ pc'[q] = pc[q]
           \/ /\ pc[q] # "idle" /\ pc'[q] \in {"run", "failed"}
              /\ pc[q] \in Holding \union {"failed"} => pc'[q] = "failed"
      BY <1>2, <2>2, <2>5, <2>6
    <2>. QED BY <2>2, <2>4, <2>7, LockInvExit
  <1>5. CASE RunAgent(p)
    <2>1. PICK s \in {"await", "recheck"} : pc' = [pc EXCEPT ![p] = s]
      BY <1>5 DEF RunAgent
    <2>2. pc[p] \in {"run"} /\ UNCHANGED <<lock, kind, chain>>
      BY <1>5 DEF RunAgent
    <2>3. stamp' \in [Accounts -> Procs \union {Nobody}] /\ pending' \subseteq Accounts
      BY <1>1, <1>5, <2>2 DEF RunAgent
    <2>. QED BY <1>2, <2>1, <2>2, <2>3, LockInvStay
  <1>6. CASE Started(p)
    <2>1. PICK s \in {"recheck"} : pc' = [pc EXCEPT ![p] = s]
      BY <1>6 DEF Started
    <2>2. pc[p] \in {"await"} /\ UNCHANGED <<lock, kind, chain>>
      BY <1>6 DEF Started
    <2>3. stamp' \in [Accounts -> Procs \union {Nobody}] /\ pending' \subseteq Accounts
      BY <1>1, <1>6, <2>2 DEF Started
    <2>. QED BY <1>2, <2>1, <2>2, <2>3, LockInvStay
  <1>7. CASE Stamp(p)
    <2>1. PICK s \in {"look"} : pc' = [pc EXCEPT ![p] = s]
      BY <1>7 DEF Stamp
    <2>2. pc[p] \in {"stamp"} /\ UNCHANGED <<lock, kind, chain>>
      BY <1>7 DEF Stamp
    <2>3. stamp' \in [Accounts -> Procs \union {Nobody}] /\ pending' \subseteq Accounts
      BY <1>1, <1>7, <2>2 DEF Stamp
    <2>. QED BY <1>2, <2>1, <2>2, <2>3, LockInvStay
  <1>8. CASE Look(p)
    <2>1. pc[p] = "look" /\ pending' \subseteq Accounts
      BY <1>1, <1>8 DEF Look
    <2>2. CASE Done(p)
      BY <2>1, <2>2, LockInvDone
    <2>3. CASE ~Done(p)
      <3>1. pc' = [pc EXCEPT ![p] = "resolve"] /\ UNCHANGED <<lock, stamp, kind, chain>>
        BY <1>8, <2>3 DEF Look
      <3>. QED BY <1>1, <1>2, <2>1, <3>1, LockInvStay
    <2>. QED BY <2>2, <2>3
  <1>9. CASE Resolve(p)
    <2>1. pc[p] = "resolve" /\ UNCHANGED <<lock, stamp, kind, pending>>
      BY <1>9 DEF Resolve
    <2>2. CASE chain' = chain
      <3>1. PICK s \in {"prompt", "send", "version"} : pc' = [pc EXCEPT ![p] = s]
        BY <1>9 DEF Resolve
      <3>2. s # "version"
        <4>1. chain' = [chain EXCEPT ![p] = Append(@, Source[Top(p)])]
                => Len(chain'[p]) = Len(chain[p]) + 1
          BY DEF LockInv
        <4>2. Len(chain[p]) \in Nat
          BY DEF LockInv
        <4>3. pc' = [pc EXCEPT ![p] = "version"]
                => chain' = [chain EXCEPT ![p] = Append(@, Source[Top(p)])]
          BY <1>9 DEF Resolve, LockInv
        <4>4. s = "version" => Len(chain[p]) = Len(chain[p]) + 1
          BY <2>2, <3>1, <4>1, <4>3
        <4>5. \A n \in Nat : n # n + 1
          OBVIOUS
        <4>. QED BY <4>2, <4>4, <4>5
      <3>. QED BY <1>1, <1>2, <2>1, <2>2, <3>1, <3>2, LockInvStay
    <2>3. CASE chain' # chain
      BY <1>9, <2>3, LockInvPush DEF Resolve
    <2>. QED BY <2>2, <2>3
  <1>10. CASE Found(p)
    <2>1. pc[p] = "found" /\ pending' \subseteq Accounts
      BY <1>1, <1>10 DEF Found
    <2>2. CASE End(p)
      BY <2>1, <2>2, LockInvEnd
    <2>3. CASE ~End(p)
      <3>1. PICK s \in {"send", "prompt"} :
              pc' = [pc EXCEPT ![p] = s] /\ UNCHANGED <<lock, stamp, kind, chain>>
        BY <1>10, <2>3 DEF Found
      <3>. QED BY <1>1, <1>2, <2>1, <3>1, LockInvStay
    <2>. QED BY <2>2, <2>3
  <1>11. CASE Prompt(p)
    <2>1. PICK s \in {"send", "failed"} : pc' = [pc EXCEPT ![p] = s]
      BY <1>11 DEF Prompt
    <2>2. pc[p] \in {"prompt"} /\ UNCHANGED <<lock, kind, chain>>
      BY <1>11 DEF Prompt
    <2>3. stamp' \in [Accounts -> Procs \union {Nobody}] /\ pending' \subseteq Accounts
      BY <1>1, <1>11, <2>2 DEF Prompt
    <2>. QED BY <1>2, <2>1, <2>2, <2>3, LockInvStay
  <1>12. CASE Send(p)
    <2>1. PICK s \in {"failed", "unlock", "login"} : pc' = [pc EXCEPT ![p] = s]
      BY <1>12 DEF Send
    <2>2. pc[p] \in {"send"} /\ UNCHANGED <<lock, kind, chain>>
      BY <1>12 DEF Send
    <2>3. stamp' \in [Accounts -> Procs \union {Nobody}] /\ pending' \subseteq Accounts
      BY <1>1, <1>12, <2>2 DEF Send
    <2>. QED BY <1>2, <2>1, <2>2, <2>3, LockInvStay
  <1>13. CASE LoggedIn(p)
    <2>1. PICK s \in {"failed", "unlock"} : pc' = [pc EXCEPT ![p] = s]
      BY <1>13 DEF LoggedIn
    <2>2. pc[p] \in {"login"} /\ UNCHANGED <<lock, kind, chain>>
      BY <1>13 DEF LoggedIn
    <2>3. stamp' \in [Accounts -> Procs \union {Nobody}] /\ pending' \subseteq Accounts
      BY <1>1, <1>13, <2>2 DEF LoggedIn, Unlocks, Followers
    <2>. QED BY <1>2, <2>1, <2>2, <2>3, LockInvStay
  <1>14. CASE Unlock(p)
    <2>1. pc[p] = "unlock" /\ pending' \subseteq Accounts
      BY <1>1, <1>14 DEF Unlock, Unlocks, Followers
    <2>2. CASE End(p)
      BY <2>1, <2>2, LockInvEnd
    <2>3. CASE Done(p)
      BY <2>1, <2>3, LockInvDone
    <2>4. CASE ~End(p) /\ ~Done(p)
      <3>1. pc' = [pc EXCEPT ![p] = "failed"] /\ UNCHANGED <<lock, stamp, kind, chain>>
        BY <1>14, <2>4 DEF Unlock
      <3>. QED BY <1>1, <1>2, <2>1, <3>1, LockInvStay
    <2>. QED BY <2>2, <2>3, <2>4
  <1>. QED BY <1>3, <1>4, <1>5, <1>6, <1>7, <1>8, <1>9, <1>10, <1>11, <1>12,
              <1>13, <1>14, LockInvStopRunning, LockInvFailed
           DEF Step, Ensure

LEMMA LockInvNext == LockInv /\ [Next]_vars => LockInv'
  <1>. SUFFICES ASSUME LockInv, [Next]_vars PROVE LockInv'
    OBVIOUS
  <1>1. CASE Listen \/ Lock \/ UNCHANGED vars
    <2>1. UNCHANGED <<pending, lock, stamp, pc, kind, chain>>
      BY <1>1 DEF Listen, Lock, vars, agentVars, lockVars, procVars
    <2>. QED BY <2>1 DEF LockInv, Locked
  <1>2. CASE Stop
    <2>1. /\ UNCHANGED <<lock, stamp, kind, chain, pending>>
          /\ pc' = [p \in Procs |-> IF p \in Waiting THEN "failed" ELSE pc[p]]
      BY <1>2 DEF Stop, AgentExits, lockVars
    <2>2. pc' \in [Procs -> PCs]
      BY <2>1 DEF LockInv, PCs
    <2>. QED BY <2>1, <2>2, LockInvExit DEF Waiting
  <1>3. ASSUME NEW p \in Procs, Start(p)
        PROVE  LockInv'
    <2>1. PICK k \in Kinds, a \in Accounts :
            kind' = [kind EXCEPT ![p] = k] /\ chain' = [chain EXCEPT ![p] = <<a>>]
      BY <1>3 DEF Start
    <2>2. k \in AllKinds
      BY KindAssumption DEF AllKinds
    <2>3. /\ pc[p] = "idle" /\ pc' = [pc EXCEPT ![p] = "version"]
          /\ UNCHANGED <<lock, stamp, pending>>
      BY <1>3 DEF Start, Goto, agentVars, lockVars
    <2>4. pending' \subseteq Accounts
      BY <2>3 DEF LockInv
    <2>. QED BY <2>1, <2>2, <2>3, <2>4, LockInvStart
  <1>4. ASSUME NEW p \in Procs, StartFollower(p)
        PROVE  LockInv'
    <2>1. PICK f \in pending :
            pending' = pending \ {f} /\ chain' = [chain EXCEPT ![p] = <<f>>]
      BY <1>4 DEF StartFollower
    <2>2. "follow" \in AllKinds /\ f \in Accounts /\ pending' \subseteq Accounts
      BY <2>1 DEF AllKinds, LockInv
    <2>3. /\ pc[p] = "idle" /\ pc' = [pc EXCEPT ![p] = "version"]
          /\ kind' = [kind EXCEPT ![p] = "follow"]
          /\ UNCHANGED <<lock, stamp>>
      BY <1>4 DEF StartFollower, Goto, lockVars
    <2>. QED BY <2>1, <2>2, <2>3, LockInvStart
  <1>5. ASSUME NEW p \in Procs, Finish(p)
        PROVE  LockInv'
    <2>1. pending' \subseteq Accounts
      BY <1>5 DEF Finish, agentVars, LockInv
    <2>. QED BY <1>5, <2>1, LockInvEnd DEF Finish
  <1>6. CASE Unheard
    <2>1. pending' \subseteq Accounts /\ UNCHANGED <<lock, stamp, pc, kind, chain>>
      BY <1>6 DEF Unheard, Unlocks, Followers, LockInv, lockVars, procVars
    <2>. QED BY <2>1 DEF LockInv, Locked
  <1>. QED BY <1>1, <1>2, <1>3, <1>4, <1>5, <1>6, LockInvTake, LockInvStep
           DEF Next

LEMMA LockInvInvariant == Spec => []LockInv
  BY LockInvInit, LockInvNext, PTL DEF Spec

\* One command at a time is between the lock of an account and its unlock
\* (`unlock_impl`): whoever prompts or sends a password holds the lock.
THEOREM SingleUnlock == Spec => []OneUnlockAtATime
  <1>1. LockInv => OneUnlockAtATime
    <2>. SUFFICES ASSUME LockInv, NEW p \in Procs, pc[p] \in Unlocking,
                         kind[p] = "login" => Len(chain[p]) > 1
                  PROVE  lock[Top(p)] = p
      BY DEF OneUnlockAtATime
    <2>1. chain[p] \in Seq(Accounts) /\ Len(chain[p]) # 0
      BY DEF LockInv, Unlocking
    <2>2. Len(chain[p]) \in 1..Len(chain[p])
      BY <2>1
    <2>3. pc[p] \in Holding /\ Locked(p, Len(chain[p]))
      BY DEF Holding, Locked
    <2>. QED BY <2>2, <2>3 DEF LockInv, Top
  <1>. QED BY <1>1, LockInvInvariant, PTL

\* A command holds the locks of accounts further down its chain only, none
\* when it is done, and waits for none of its own: since chains follow the
\* sources and these make no circle, no two commands wait for each other.
THEOREM LocksAreOrdered == Spec => []LocksFollowSources
  <1>1. LockInv => LocksFollowSources
    <2>. SUFFICES ASSUME LockInv, NEW p \in Procs
                  PROVE  /\ \A a \in Held(p) :
                              \E i \in 1..Len(chain[p]) : chain[p][i] = a
                         /\ pc[p] \in {"idle", "busy"} => Held(p) = {}
                         /\ pc[p] = "lock" => Top(p) \notin Held(p)
      BY DEF LocksFollowSources
    <2>1. \A a \in Held(p) : \E i \in 1..Len(chain[p]) :
            /\ chain[p][i] = a
            /\ i < Len(chain[p]) \/ pc[p] \in Holding \union {"failed"}
      BY DEF LockInv, Held
    <2>2. {"idle", "busy", "lock"} \cap (Holding \union {"failed"}) = {}
      BY DEF Holding, Unlocking
    <2>3. pc[p] = "idle" => Held(p) = {}
      <3>1. pc[p] = "idle" => Len(chain[p]) = 0
        BY DEF LockInv
      <3>. QED BY <2>1, <3>1
    <2>4. pc[p] = "busy" => Held(p) = {}
      <3>1. pc[p] = "busy" => Len(chain[p]) = 1
        BY DEF LockInv
      <3>2. \A i \in 1..1 : ~(i < 1)
        OBVIOUS
      <3>. QED BY <2>1, <2>2, <3>1, <3>2
    <2>5. pc[p] = "lock" => Top(p) \notin Held(p)
      <3>. SUFFICES ASSUME pc[p] = "lock", Top(p) \in Held(p) PROVE FALSE
        OBVIOUS
      <3>1. PICK i \in 1..Len(chain[p]) :
              chain[p][i] = Top(p) /\ i < Len(chain[p])
        BY <2>1, <2>2
      <3>2. Differ(chain[p]) /\ Len(chain[p]) \in Nat
        BY FollowingDiffers DEF LockInv
      <3>3. Len(chain[p]) \in 1..Len(chain[p]) /\ i # Len(chain[p])
        BY <3>1, <3>2
      <3>. QED BY <3>1, <3>2, <3>3 DEF Differ, Top
    <2>. QED BY <2>1, <2>3, <2>4, <2>5
  <1>. QED BY <1>1, LockInvInvariant, PTL

=============================================================================
