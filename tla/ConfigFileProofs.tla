-------------------------- MODULE ConfigFileProofs --------------------------
(***************************************************************************)
(* Proofs about ConfigFile, for any accounts, ids and commands.            *)
(*                                                                         *)
(* What a command saves is its copy, so the invariants speak of the copies *)
(* as of the file: no copy has a cycle of sources unless somebody edits by *)
(* hand, and what comes between load and save keeps what was checked.      *)
(* Credentials are passwords by their number, so one that is out of date   *)
(* differs from the master password and was it once.                       *)
(***************************************************************************)
EXTENDS ConfigFile, TLAPS

-----------------------------------------------------------------------------
(* Types.                                                                  *)

Enrolling == {"prompt", "unlock", "verify", "store", "generate", "bundle"}
Changing  == {"change", "update"}

\* The part of TypeOK the other proofs need, and that an enrolment is of an
\* account.
Types ==
  /\ file \in Configs
  /\ store \in [Ids -> Saved] /\ used \subseteq Ids
  /\ pc \in [Procs -> PCs] /\ job \in [Procs -> Jobs]
  /\ snap \in [Procs -> Configs]
  /\ master \in [Accounts -> Nat \ {Mistyped}]
  /\ edited \in BOOLEAN
  /\ \A p \in Procs :
       pc[p] \in Enrolling \union Changing => job[p].who \in Accounts

LEMMA EmptyIsConfig == EmptyConfig \in Configs
  BY DEF EmptyConfig, BareConfig, Configs

LEMMA NoJobIsJob == NoJob \in Jobs /\ NoJob.cmd = "set"
  BY DEF NoJob, Jobs, Cmds, Passwords, Mistyped

\* The changes a command makes to its copy give a configuration again.
LEMMA ChangesTyped ==
  ASSUME NEW c \in Configs, NEW a \in Accounts
  PROVE  /\ \A asked \in BOOLEAN : AddAccount(c, a, asked) \in Configs
         /\ \A f \in Accounts \union {None} : RemoveAccount(c, a, f) \in Configs
         /\ SetPrimary(c, a) \in Configs
         /\ \A s \in Accounts \union {None} : SetSource(c, a, s) \in Configs
         /\ \A i \in Ids \union {None} : SetDesktop(c, a, i) \in Configs
         /\ \A T \in SUBSET Accounts : SetTermux(c, T) \in Configs
  <1>1. \A asked \in BOOLEAN : AddAccount(c, a, asked) \in Configs
    BY DEF AddAccount, Configs
  <1>2. \A f \in Accounts \union {None} : RemoveAccount(c, a, f) \in Configs
    BY DEF RemoveAccount, Configs
  <1>3. SetPrimary(c, a) \in Configs
    BY DEF SetPrimary, Configs
  <1>4. \A s \in Accounts \union {None} : SetSource(c, a, s) \in Configs
    BY DEF SetSource, Configs
  <1>5. \A i \in Ids \union {None} : SetDesktop(c, a, i) \in Configs
    BY DEF SetDesktop, Configs
  <1>6. \A T \in SUBSET Accounts : SetTermux(c, T) \in Configs
    BY DEF SetTermux, Configs
  <1>. QED BY <1>1, <1>2, <1>3, <1>4, <1>5, <1>6

\* No change but that of a source adds an edge between accounts.
LEMMA ChangesKeepSources ==
  ASSUME NEW c \in Configs, NEW a \in Accounts, Acyclic(c)
  PROVE  /\ \A asked \in BOOLEAN : Acyclic(AddAccount(c, a, asked))
         /\ \A f \in Accounts \union {None} : Acyclic(RemoveAccount(c, a, f))
         /\ Acyclic(SetPrimary(c, a))
         /\ \A i \in Ids \union {None} : Acyclic(SetDesktop(c, a, i))
         /\ \A T \in SUBSET Accounts : Acyclic(SetTermux(c, T))
  <1>1. \A x \in Accounts, s \in Accounts \union {None} :
          [c.source EXCEPT ![a] = None][x] = (IF x = a THEN None ELSE c.source[x])
    BY DEF Configs
  <1>2. \A asked \in BOOLEAN : Acyclic(AddAccount(c, a, asked))
    <2>1. SUFFICES ASSUME NEW asked \in BOOLEAN,
                          NEW S \in SUBSET Accounts, S # {}
                   PROVE  \E x \in S :
                            AddAccount(c, a, asked).source[x] \notin S
      BY DEF Acyclic
    <2>2. PICK x \in S : c.source[x] \notin S
      BY <2>1 DEF Acyclic
    <2>3. AddAccount(c, a, asked).source[x] \notin S
      BY <1>1, <2>2, NoneAssumption DEF AddAccount
    <2>. QED BY <2>3
  <1>3. \A f \in Accounts \union {None} : Acyclic(RemoveAccount(c, a, f))
    <2>1. SUFFICES ASSUME NEW f \in Accounts \union {None},
                          NEW S \in SUBSET Accounts, S # {}
                   PROVE  \E x \in S : RemoveAccount(c, a, f).source[x] \notin S
      BY DEF Acyclic
    <2>2. PICK x \in S : c.source[x] \notin S
      BY <2>1 DEF Acyclic
    <2>3. RemoveAccount(c, a, f).source[x] \notin S
      BY <1>1, <2>2, NoneAssumption DEF RemoveAccount
    <2>. QED BY <2>3
  <1>4. /\ SetPrimary(c, a).source = c.source
        /\ \A i \in Ids \union {None} : SetDesktop(c, a, i).source = c.source
        /\ \A T \in SUBSET Accounts : SetTermux(c, T).source = c.source
    BY DEF SetPrimary, SetDesktop, SetTermux, Configs
  <1>. QED BY <1>2, <1>3, <1>4 DEF Acyclic

\* A new source closes no circle if the chain from its account ends: a circle
\* with the account in it would lie within the accounts of that chain.
LEMMA CheckedSource ==
  ASSUME NEW c \in Configs, NEW a \in Accounts,
         NEW s \in Accounts \union {None},
         Acyclic(c), ChainEnds(SetSource(c, a, s), a)
  PROVE  Acyclic(SetSource(c, a, s))
  <1>. DEFINE d == SetSource(c, a, s)
  <1>1. /\ d.accounts = c.accounts
        /\ \A x \in Accounts : d.source[x] = IF x = a THEN s ELSE c.source[x]
    BY DEF SetSource, Configs
  <1>2. SUFFICES ASSUME NEW S \in SUBSET Accounts, S # {},
                        \A x \in S : d.source[x] \in S
                 PROVE  FALSE
    BY DEF Acyclic
  <1>3. CASE a \notin S
    <2>1. \A x \in S : c.source[x] \in S
      BY <1>1, <1>2, <1>3
    <2>. QED BY <1>2, <2>1 DEF Acyclic
  <1>4. CASE a \in S
    <2>1. PICK R \in SUBSET d.accounts :
            /\ a \in R
            /\ \A x \in R : d.source[x] \in R \union {None}
            /\ \A T \in SUBSET R : T # {} => \E x \in T : d.source[x] \notin T
      BY DEF ChainEnds
    <2>. DEFINE T == S \intersect R
    <2>2. T \in SUBSET R /\ T # {}
      BY <1>4, <2>1
    <2>3. \A x \in T : d.source[x] \in T
      BY <1>2, <2>1, NoneAssumption
    <2>. HIDE DEF d, T
    <2>. QED BY <2>1, <2>2, <2>3
  <1>. QED BY <1>3, <1>4

LEMMA EmptyAcyclic == Acyclic(EmptyConfig)
  BY NoneAssumption DEF Acyclic, EmptyConfig, BareConfig

LEMMA TypedIsConfig ==
  ASSUME used \subseteq Ids, NEW c, NEW d \in Typed(c)
  PROVE  d \in Configs
  <1>1. /\ d \in [accounts : SUBSET Accounts, primary : Accounts \union {None},
                   source : [Accounts -> Accounts \union {None}],
                   desktop : [Accounts -> used \union {None}],
                   termux : SUBSET Accounts]
        /\ [Accounts -> used \union {None}] \subseteq [Accounts -> Ids \union {None}]
    BY DEF Typed
  <1>. QED BY <1>1 DEF Configs

LEMMA LoadedTyped == ASSUME Types PROVE LoadedOrNew \in Configs
  BY EmptyIsConfig DEF LoadedOrNew, Types

LEMMA BeginTyped ==
  ASSUME Types, NEW p \in Procs, NEW d \in Configs, NEW c \in Cmds,
         NEW a \in Accounts \union {None}, NEW i \in Ids \union {None},
         NEW stops \in BOOLEAN, NEW next \in PCs,
         next \in Enrolling \union Changing => a \in Accounts,
         snap' = [snap EXCEPT ![p] = d], Begin(p, c, a, i, stops, next),
         used' \subseteq Ids
  PROVE  Types'
  <1>1. file' = file /\ store' = store /\ edited' = edited /\ master' = master
    BY DEF Begin, fileVars, credVars, pwVars
  <1>2. pc' \in [Procs -> PCs]
    BY DEF Begin, Goto, Types
  <1>3. [cmd |-> c, who |-> a, id |-> i, pw |-> Mistyped, made |-> FALSE,
         stops |-> stops] \in Jobs
    BY DEF Jobs, Passwords, Mistyped
  <1>4. job' \in [Procs -> Jobs]
    BY <1>3 DEF Begin, Types
  <1>5. snap' \in [Procs -> Configs]
    BY DEF Types
  <1>6. \A q \in Procs :
          pc'[q] \in Enrolling \union Changing => job'[q].who \in Accounts
    BY DEF Begin, Goto, Types, Jobs
  <1>. QED BY <1>1, <1>2, <1>4, <1>5, <1>6 DEF Types

LEMMA EndTyped ==
  ASSUME Types, NEW p \in Procs, End(p)
  PROVE  /\ pc' \in [Procs -> PCs] /\ job' \in [Procs -> Jobs]
         /\ snap' \in [Procs -> Configs]
         /\ \A q \in Procs :
          pc'[q] \in Enrolling \union Changing => job'[q].who \in Accounts
  BY EmptyIsConfig, NoJobIsJob DEF End, Goto, Types, PCs, Enrolling, Changing

LEMMA StartTyped ==
  ASSUME Types, NEW p \in Procs, Start(p)
  PROVE  Types'
  <1>0. used' \subseteq Ids
    <2>1. used \subseteq Ids
      BY DEF Types
    <2>2. CASE Enroll(p)
      <3>1. PICK i \in Ids \ used : used' = used \union {i}
        BY <2>2 DEF Enroll
      <3>. QED BY <2>1, <3>1
    <2>3. CASE UNCHANGED used
      BY <2>1, <2>3
    <2>4. Enroll(p) \/ UNCHANGED used
      BY DEF Start, Add, Remove, Primary, SetAccount, Set, Edit, TermuxEnroll,
             Unenroll, TermuxRemove, ChangePassword
    <2>. QED BY <2>2, <2>3, <2>4
  <1>1. CASE Add(p)
    <2>1. PICK a \in Accounts \ LoadedOrNew.accounts, asked \in BOOLEAN :
            /\ snap' = [snap EXCEPT ![p] = AddAccount(LoadedOrNew, a, asked)]
            /\ Begin(p, "add", a, None, asked \/ LoadedOrNew.accounts = {}, "save")
      BY <1>1 DEF Add
    <2>2. a \in Accounts
      BY <2>1, LoadedTyped DEF Configs
    <2>. QED BY <2>1, <2>2, LoadedTyped, ChangesTyped, <1>0, BeginTyped DEF Cmds, PCs, Enrolling, Changing
  <1>2. CASE Remove(p)
    <2>1. PICK a \in LoadedOrNew.accounts, f \in Accounts \union {None} :
            /\ snap' = [snap EXCEPT ![p] = RemoveAccount(LoadedOrNew, a, f)]
            /\ Begin(p, "remove", a, None, LoadedOrNew.primary = a, "save")
      BY <1>2, LoadedTyped DEF Remove, Configs
    <2>2. a \in Accounts
      BY <2>1, LoadedTyped DEF Configs
    <2>. QED BY <2>1, <2>2, LoadedTyped, ChangesTyped, <1>0, BeginTyped DEF Cmds, PCs, Enrolling, Changing
  <1>3. CASE Primary(p)
    <2>1. PICK a \in LoadedOrNew.accounts :
            /\ snap' = [snap EXCEPT ![p] = SetPrimary(LoadedOrNew, a)]
            /\ Begin(p, "primary", a, None, LoadedOrNew.primary # a, "save")
      BY <1>3 DEF Primary
    <2>2. a \in Accounts
      BY <2>1, LoadedTyped DEF Configs
    <2>. QED BY <2>1, <2>2, LoadedTyped, ChangesTyped, <1>0, BeginTyped DEF Cmds, PCs, Enrolling, Changing
  <1>4. CASE SetAccount(p)
    <2>1. PICK a \in LoadedOrNew.accounts, s \in Accounts \union {None} :
            /\ ChainEnds(SetSource(LoadedOrNew, a, s), a)
            /\ snap' = [snap EXCEPT ![p] = SetSource(LoadedOrNew, a, s)]
            /\ Begin(p, "source", a, None, FALSE, "save")
      BY <1>4 DEF SetAccount
    <2>2. a \in Accounts
      BY <2>1, LoadedTyped DEF Configs
    <2>. QED BY <2>1, <2>2, LoadedTyped, ChangesTyped, <1>0, BeginTyped DEF Cmds, PCs, Enrolling, Changing
  <1>5. CASE Set(p)
    BY <1>5, LoadedTyped, <1>0, BeginTyped DEF Set, Cmds, PCs, Enrolling, Changing
  <1>6. CASE Edit(p)
    BY <1>6, LoadedTyped, <1>0, BeginTyped DEF Edit, Cmds, PCs, Enrolling, Changing
  <1>7. CASE Enroll(p)
    <2>1. PICK a \in file.accounts, i \in Ids \ used :
            /\ snap' = [snap EXCEPT ![p] = file]
            /\ Begin(p, "enroll", a, i, FALSE, "prompt")
      BY <1>7 DEF Enroll
    <2>2. /\ a \in Accounts /\ file.desktop[a] \in Ids \union {None}
          /\ file.termux \ {a} \in SUBSET Accounts
      BY <2>1 DEF Types, Configs
    <2>3. file \in Configs
      BY DEF Types
    <2>. QED BY <2>1, <2>2, <2>3, ChangesTyped, <1>0, BeginTyped DEF Cmds, PCs, Enrolling, Changing
  <1>8. CASE TermuxEnroll(p)
    <2>1. PICK a \in file.accounts :
            /\ snap' = [snap EXCEPT ![p] = file]
            /\ Begin(p, "termux", a, None, TRUE, "prompt")
      BY <1>8 DEF TermuxEnroll
    <2>2. /\ a \in Accounts /\ file.desktop[a] \in Ids \union {None}
          /\ file.termux \ {a} \in SUBSET Accounts
      BY <2>1 DEF Types, Configs
    <2>3. file \in Configs
      BY DEF Types
    <2>. QED BY <2>1, <2>2, <2>3, ChangesTyped, <1>0, BeginTyped DEF Cmds, PCs, Enrolling, Changing
  <1>9. CASE Unenroll(p)
    <2>1. PICK a \in file.accounts :
            /\ snap' = [snap EXCEPT ![p] = SetDesktop(file, a, None)]
            /\ Begin(p, "unenroll", a, file.desktop[a], FALSE, "delete")
      BY <1>9 DEF Unenroll
    <2>2. /\ a \in Accounts /\ file.desktop[a] \in Ids \union {None}
          /\ file.termux \ {a} \in SUBSET Accounts
      BY <2>1 DEF Types, Configs
    <2>3. file \in Configs
      BY DEF Types
    <2>. QED BY <2>1, <2>2, <2>3, ChangesTyped, <1>0, BeginTyped DEF Cmds, PCs, Enrolling, Changing
  <1>10. CASE TermuxRemove(p)
    <2>1. PICK a \in file.accounts :
            /\ snap' = [snap EXCEPT ![p] = SetTermux(file, file.termux \ {a})]
            /\ Begin(p, "untermux", a, None, TRUE, "delkey")
      BY <1>10 DEF TermuxRemove
    <2>2. /\ a \in Accounts /\ file.desktop[a] \in Ids \union {None}
          /\ file.termux \ {a} \in SUBSET Accounts
      BY <2>1 DEF Types, Configs
    <2>3. file \in Configs
      BY DEF Types
    <2>. QED BY <2>1, <2>2, <2>3, ChangesTyped, <1>0, BeginTyped DEF Cmds, PCs, Enrolling, Changing
  <1>11. CASE ChangePassword(p)
    <2>1. PICK a \in file.accounts :
            /\ snap' = [snap EXCEPT ![p] = file]
            /\ Begin(p, "password", a, file.desktop[a], FALSE, "change")
      BY <1>11 DEF ChangePassword
    <2>2. /\ a \in Accounts /\ file.desktop[a] \in Ids \union {None}
          /\ file \in Configs
      BY <2>1 DEF Types, Configs
    <2>. QED BY <2>1, <2>2, <1>0, BeginTyped DEF Cmds, PCs, Enrolling, Changing
  <1>. QED BY <1>1, <1>2, <1>3, <1>4, <1>5, <1>6, <1>7, <1>8, <1>9, <1>10, <1>11 DEF Start

LEMMA StepTyped ==
  ASSUME Types, NEW p \in Procs, Step(p) \/ WriteFails(p) \/ Crash(p)
  PROVE  Types'
  <1>. USE DEF Types, Enrolling, Changing
  <1>1. CASE EditDone(p)
    <2>1. PICK c \in Typed(snap[p]) : snap' = [snap EXCEPT ![p] = c]
      BY <1>1 DEF EditDone
    <2>2. c \in Configs
      BY TypedIsConfig
    <2>. QED BY <1>1, <2>1, <2>2 DEF EditDone, Goto, PCs, fileVars, credVars, pwVars
  <1>2. CASE Prompt(p)
    <2>1. PICK w \in {master[job[p].who], Mistyped} : job' = [job EXCEPT ![p].pw = w]
      BY <1>2 DEF Prompt
    <2>2. w \in Passwords
      BY <1>2 DEF Prompt, Passwords, Mistyped
    <2>3. job' \in [Procs -> Jobs]
      BY <2>1, <2>2 DEF Jobs
    <2>. QED BY <1>2, <2>1, <2>3 DEF Prompt, Goto, PCs, Jobs, fileVars, credVars, pwVars
  <1>3. CASE Unlock(p)
    BY <1>3, EndTyped, ChangesTyped DEF Unlock, Goto, PCs, fileVars, credVars, pwVars, Saved
  <1>4. CASE Verify(p)
    BY <1>4, EndTyped, ChangesTyped DEF Verify, Goto, PCs, fileVars, credVars, pwVars, Saved
  <1>5. CASE Store(p)
    <2>1. /\ snap[p] \in Configs /\ job[p] \in Jobs
      OBVIOUS
    <2>2. store' \in [Ids -> Saved]
      BY <1>5, <2>1 DEF Store, Saved, Jobs
    <2>3. snap' \in [Procs -> Configs]
      <3>1. CASE snap' = snap
        BY <3>1
      <3>2. CASE snap' = [snap EXCEPT ![p] =
                            SetDesktop(snap[p], job[p].who, job[p].id)]
        <4>1. SetDesktop(snap[p], job[p].who, job[p].id) \in Configs
          BY <2>1 DEF SetDesktop, Configs, Jobs
        <4>. QED BY <3>2, <4>1
      <3>. QED BY <1>5, <3>1, <3>2 DEF Store
    <2>. QED BY <1>5, <2>2, <2>3 DEF Store, Goto, PCs, fileVars, pwVars
  <1>6. CASE Undo(p)
    BY <1>6, EndTyped, ChangesTyped DEF Undo, Goto, PCs, fileVars, credVars, pwVars, Saved
  <1>7. CASE Delete(p)
    BY <1>7, EndTyped, ChangesTyped DEF Delete, Goto, PCs, fileVars, credVars, pwVars, Saved
  <1>8. CASE Generate(p)
    <2>1. CASE End(p)
      BY <1>8, <2>1, EndTyped DEF Generate, fileVars, pwVars
    <2>2. CASE ~End(p)
      <3>1. job' = [job EXCEPT ![p].made = ~key[job[p].who]]
        BY <1>8, <2>2 DEF Generate
      <3>2. job[p] \in Jobs /\ (~key[job[p].who]) \in BOOLEAN
        OBVIOUS
      <3>3. [job[p] EXCEPT !.made = ~key[job[p].who]] \in Jobs
        BY <3>2 DEF Jobs
      <3>4. job' = [job EXCEPT ![p] = [job[p] EXCEPT !.made = ~key[job[p].who]]]
        BY <3>1
      <3>5. job' \in [Procs -> Jobs]
        BY <3>3, <3>4
      <3>6. \A q \in Procs : job'[q].who = job[q].who
        BY <3>2, <3>4 DEF Jobs
      <3>. QED BY <1>8, <2>2, <3>5, <3>6 DEF Generate, Goto, PCs, fileVars, pwVars
    <2>. QED BY <2>1, <2>2
  <1>9. CASE Bundle(p)
    <2>1. CASE End(p)
      BY <1>9, <2>1, EndTyped DEF Bundle, fileVars, pwVars
    <2>2. CASE ~End(p)
      <3>1. snap' = [snap EXCEPT ![p] =
                       SetTermux(snap[p], snap[p].termux \union {job[p].who})]
        BY <1>9, <2>2 DEF Bundle
      <3>2. SetTermux(snap[p], snap[p].termux \union {job[p].who}) \in Configs
        BY <1>9 DEF Bundle, Configs, SetTermux
      <3>3. snap' \in [Procs -> Configs]
        BY <3>1, <3>2
      <3>. QED BY <1>9, <2>2, <3>3 DEF Bundle, Goto, PCs, fileVars, pwVars
    <2>. QED BY <2>1, <2>2
  <1>10. CASE Unbundle(p)
    BY <1>10, EndTyped, ChangesTyped DEF Unbundle, Goto, PCs, fileVars, credVars, pwVars, Saved
  <1>11. CASE DeleteKey(p)
    BY <1>11, EndTyped, ChangesTyped DEF DeleteKey, Goto, PCs, fileVars, credVars, pwVars, Saved
  <1>12. CASE DeleteBundle(p)
    BY <1>12, EndTyped, ChangesTyped DEF DeleteBundle, Goto, PCs, fileVars, credVars, pwVars, Saved
  <1>13. CASE Truncate(p)
    <2>1. CASE End(p)
      BY <1>13, <2>1, EndTyped DEF Truncate, fileVars, pwVars, credVars
    <2>2. CASE ~End(p)
      BY <1>13, <2>2 DEF Truncate, Rollback, Goto, PCs, fileVars, pwVars, credVars
    <2>. QED BY <2>1, <2>2
  <1>14. CASE Write(p)
    <2>1. file' \in Configs /\ edited' \in BOOLEAN
      BY <1>14 DEF Write
    <2>2. CASE End(p)
      BY <1>14, <2>1, <2>2, EndTyped DEF Write, credVars, pwVars
    <2>3. CASE ~End(p)
      BY <1>14, <2>1, <2>3 DEF Write, Goto, PCs, credVars, pwVars
    <2>. QED BY <2>2, <2>3
  <1>15. CASE StopAgent(p)
    BY <1>15, EndTyped, ChangesTyped DEF StopAgent, Goto, PCs, fileVars, credVars, pwVars, Saved
  <1>16. CASE WriteFails(p)
    <2>1. CASE End(p)
      BY <1>16, <2>1, EndTyped DEF WriteFails, fileVars, pwVars, credVars
    <2>2. CASE ~End(p)
      BY <1>16, <2>2 DEF WriteFails, Rollback, Goto, PCs, fileVars, pwVars, credVars
    <2>. QED BY <2>1, <2>2
  <1>17. CASE Crash(p)
    BY <1>17, EndTyped, ChangesTyped DEF Crash, Goto, PCs, fileVars, credVars, pwVars, Saved
  <1>18. CASE EditDropped(p)
    BY <1>18, EndTyped DEF EditDropped, fileVars, credVars, pwVars
  <1>19. CASE Change(p)
    <2>1. /\ pc[p] = "change" /\ job[p].who \in Accounts
          /\ UNCHANGED <<file, store, used, edited>>
      BY <1>19 DEF Change, fileVars, credVars
    <2>2. master' \in [Accounts -> Nat \ {Mistyped}]
      BY <1>19, <2>1 DEF Change, Mistyped
    <2>3. CASE End(p)
      BY <2>1, <2>2, <2>3, EndTyped
    <2>4. CASE ~End(p)
      <3>. DEFINE w == master[job[p].who] + 1
      <3>1. /\ job' = [job EXCEPT ![p].pw = w] /\ UNCHANGED snap
            /\ pc' = [pc EXCEPT ![p] = "update"]
        BY <1>19, <2>4 DEF Change, Goto
      <3>2. w \in Passwords
        BY <2>1 DEF Passwords
      <3>. HIDE DEF w
      <3>3. job' \in [Procs -> Jobs] /\ \A q \in Procs : job'[q].who = job[q].who
        BY <3>1, <3>2 DEF Jobs
      <3>. QED BY <2>1, <2>2, <3>1, <3>3 DEF PCs
    <2>. QED BY <2>3, <2>4
  <1>20. CASE Update(p)
    <2>1. /\ End(p) /\ UNCHANGED <<file, used, edited, master>>
      BY <1>20 DEF Update, fileVars
    <2>2. \A i \in Ids : store[i] \in Saved
      OBVIOUS
    <2>3. job[p].pw \in Saved
      BY DEF Jobs, Saved
    <2>4. \E w : store' = [store EXCEPT ![job[p].id] = w]
                    /\ (w = job[p].pw \/ w = store[job[p].id])
      BY <1>20 DEF Update
    <2>5. store' \in [Ids -> Saved]
      BY <2>2, <2>3, <2>4
    <2>. QED BY <2>1, <2>5, EndTyped
  <1>. QED BY <1>1, <1>2, <1>3, <1>4, <1>5, <1>6, <1>7, <1>8, <1>9, <1>10, <1>11, <1>12, <1>13, <1>14, <1>15, <1>16, <1>17, <1>18, <1>19, <1>20 DEF Step

LEMMA InitTyped == Init => Types
  <1>. SUFFICES ASSUME Init PROVE Types
    OBVIOUS
  <1>1. file \in Configs
    <2>1. PICK A \in SUBSET Accounts, a \in Accounts : file = BareConfig(A, a)
      BY DEF Init
    <2>2. BareConfig(A, a) \in Configs
      BY <2>1 DEF BareConfig, Configs
    <2>. QED BY <2>1, <2>2
  <1>2. store \in [Ids -> Saved]
    <2>1. Nothing \in Saved
      BY DEF Saved
    <2>. QED BY <2>1 DEF Init
  <1>4. master \in [Accounts -> Nat \ {Mistyped}]
    <2>1. 1 \in Nat \ {Mistyped}
      BY DEF Mistyped
    <2>. QED BY <2>1 DEF Init
  <1>5. /\ edited \in BOOLEAN /\ used \subseteq Ids
        /\ pc = [p \in Procs |-> "idle"]
    BY DEF Init
  <1>3. job \in [Procs -> Jobs] /\ snap \in [Procs -> Configs]
    BY EmptyIsConfig, NoJobIsJob DEF Init
  <1>. QED BY <1>1, <1>2, <1>3, <1>4, <1>5 DEF Types, PCs, Enrolling, Changing

LEMMA NextTyped == Types /\ [Next]_vars => Types'
  <1>. SUFFICES ASSUME Types, [Next]_vars PROVE Types'
    OBVIOUS
  <1>1. CASE AgentUnlocks
    BY <1>1 DEF AgentUnlocks, Types, fileVars, credVars, pwVars, procVars
  <1>2. ASSUME NEW p \in Procs,
               Start(p) \/ Step(p) \/ WriteFails(p) \/ Crash(p)
        PROVE  Types'
    BY <1>2, StartTyped, StepTyped
  <1>3. CASE UNCHANGED vars
    BY <1>3 DEF vars, Types, fileVars, credVars, pwVars, procVars
  <1>4. CASE ChangedElsewhere
    <2>1. UNCHANGED <<file, store, used, pc, job, snap, edited>>
      BY <1>4 DEF ChangedElsewhere, fileVars, credVars, procVars
    <2>2. master' \in [Accounts -> Nat \ {Mistyped}]
      BY <1>4 DEF ChangedElsewhere, Types, Configs, Mistyped
    <2>. QED BY <2>1, <2>2 DEF Types
  <1>. QED BY <1>1, <1>2, <1>3, <1>4 DEF Next

-----------------------------------------------------------------------------
(* What a beginning command copies: a configuration derived from the file  *)
(* or from an empty one, and nothing else changes.                         *)

\* What an action of `Start` gives its command to save. Only an edit by hand
\* comes without a check of its sources, and it comes unchanged at first.
Begins(p, c) ==
  /\ snap' = [snap EXCEPT ![p] = c]
  /\ UNCHANGED <<file, torn, store, edited>>
  /\ \A q \in Procs \ {p} : pc'[q] = pc[q] /\ job'[q] = job[q]
  /\ pc'[p] \notin {"store", "update", "edit"} \/ (pc'[p] = "edit" /\ job'[p].cmd = "edit")
  /\ pc'[p] \in Enrolling => NoNative(c, job'[p].who)

One(c) == \A a \in c.termux : c.desktop[a] = None

LEMMA LoadedSound ==
  ASSUME Types
  PROVE  /\ Acyclic(file) => Acyclic(LoadedOrNew)
         /\ One(file) => One(LoadedOrNew)
  BY EmptyAcyclic DEF LoadedOrNew, One, EmptyConfig, BareConfig

LEMMA BeginFrame ==
  ASSUME Types, NEW p \in Procs, NEW d \in Configs, NEW c \in Cmds,
         NEW a \in Accounts \union {None}, NEW i \in Ids \union {None},
         NEW stops \in BOOLEAN, NEW next \in PCs,
         snap' = [snap EXCEPT ![p] = d], Begin(p, c, a, i, stops, next),
         next \notin {"store", "update"}, next = "edit" => c = "edit",
         next \in Enrolling => NoNative(d, a)
  PROVE  Begins(p, d)
  BY DEF Begin, Begins, Goto, Types, fileVars, credVars

LEMMA StartCopies ==
  ASSUME Types, NEW p \in Procs, Start(p)
  PROVE  \E c \in Configs : /\ Begins(p, c)
                            /\ Acyclic(file) => Acyclic(c)
                            /\ One(file) => One(c)
  <1>1. CASE Add(p)
    <2>1. PICK a \in Accounts \ LoadedOrNew.accounts, asked \in BOOLEAN :
            /\ snap' = [snap EXCEPT ![p] = AddAccount(LoadedOrNew, a, asked)]
            /\ Begin(p, "add", a, None, asked \/ LoadedOrNew.accounts = {}, "save")
      BY <1>1 DEF Add
    <2>2. a \in Accounts
      BY <2>1, LoadedTyped DEF Configs
    <2>3. AddAccount(LoadedOrNew, a, asked) \in Configs
      BY <2>2, LoadedTyped, ChangesTyped
    <2>4. Begins(p, AddAccount(LoadedOrNew, a, asked))
      BY <2>1, <2>2, <2>3, BeginFrame DEF Cmds, PCs, Enrolling, Changing
    <2>5. Acyclic(file) => Acyclic(AddAccount(LoadedOrNew, a, asked))
      BY <2>1, <2>2, LoadedTyped, LoadedSound, ChangesKeepSources
    <2>6. One(LoadedOrNew) => One(AddAccount(LoadedOrNew, a, asked))
      BY <2>2, LoadedTyped DEF One, AddAccount, Configs
    <2>. QED BY <2>3, <2>4, <2>5, <2>6, LoadedSound
  <1>2. CASE Remove(p)
    <2>1. PICK a \in LoadedOrNew.accounts, f \in Accounts \union {None} :
            /\ snap' = [snap EXCEPT ![p] = RemoveAccount(LoadedOrNew, a, f)]
            /\ Begin(p, "remove", a, None, LoadedOrNew.primary = a, "save")
      BY <1>2, LoadedTyped DEF Remove, Configs
    <2>2. a \in Accounts
      BY <2>1, LoadedTyped DEF Configs
    <2>3. RemoveAccount(LoadedOrNew, a, f) \in Configs
      BY <2>2, LoadedTyped, ChangesTyped
    <2>4. Begins(p, RemoveAccount(LoadedOrNew, a, f))
      BY <2>1, <2>2, <2>3, BeginFrame DEF Cmds, PCs, Enrolling, Changing
    <2>5. Acyclic(file) => Acyclic(RemoveAccount(LoadedOrNew, a, f))
      BY <2>1, <2>2, LoadedTyped, LoadedSound, ChangesKeepSources
    <2>6. One(LoadedOrNew) => One(RemoveAccount(LoadedOrNew, a, f))
      BY <2>2, LoadedTyped DEF One, RemoveAccount, Configs
    <2>. QED BY <2>3, <2>4, <2>5, <2>6, LoadedSound
  <1>3. CASE Primary(p)
    <2>1. PICK a \in LoadedOrNew.accounts :
            /\ snap' = [snap EXCEPT ![p] = SetPrimary(LoadedOrNew, a)]
            /\ Begin(p, "primary", a, None, LoadedOrNew.primary # a, "save")
      BY <1>3 DEF Primary
    <2>2. a \in Accounts
      BY <2>1, LoadedTyped DEF Configs
    <2>3. SetPrimary(LoadedOrNew, a) \in Configs
      BY <2>2, LoadedTyped, ChangesTyped
    <2>4. Begins(p, SetPrimary(LoadedOrNew, a))
      BY <2>1, <2>2, <2>3, BeginFrame DEF Cmds, PCs, Enrolling, Changing
    <2>5. Acyclic(file) => Acyclic(SetPrimary(LoadedOrNew, a))
      BY <2>1, <2>2, LoadedTyped, LoadedSound, ChangesKeepSources
    <2>6. One(LoadedOrNew) => One(SetPrimary(LoadedOrNew, a))
      BY <2>2, LoadedTyped DEF One, SetPrimary, Configs
    <2>. QED BY <2>3, <2>4, <2>5, <2>6, LoadedSound
  <1>4. CASE SetAccount(p)
    <2>1. PICK a \in LoadedOrNew.accounts, s \in Accounts \union {None} :
            /\ ChainEnds(SetSource(LoadedOrNew, a, s), a)
            /\ snap' = [snap EXCEPT ![p] = SetSource(LoadedOrNew, a, s)]
            /\ Begin(p, "source", a, None, FALSE, "save")
      BY <1>4 DEF SetAccount
    <2>2. a \in Accounts
      BY <2>1, LoadedTyped DEF Configs
    <2>3. SetSource(LoadedOrNew, a, s) \in Configs
      BY <2>2, LoadedTyped, ChangesTyped
    <2>4. Begins(p, SetSource(LoadedOrNew, a, s))
      BY <2>1, <2>2, <2>3, BeginFrame DEF Cmds, PCs, Enrolling, Changing
    <2>5. Acyclic(file) => Acyclic(SetSource(LoadedOrNew, a, s))
      BY <2>1, <2>2, LoadedTyped, LoadedSound, CheckedSource
    <2>6. One(LoadedOrNew) => One(SetSource(LoadedOrNew, a, s))
      BY <2>2, LoadedTyped DEF One, SetSource, Configs
    <2>. QED BY <2>3, <2>4, <2>5, <2>6, LoadedSound
  <1>5. CASE Set(p)
    <2>1. Begins(p, LoadedOrNew)
      BY <1>5, LoadedTyped, BeginFrame DEF Set, Cmds, PCs, Enrolling, Changing
    <2>. QED BY <2>1, LoadedTyped, LoadedSound
  <1>6. CASE Edit(p)
    <2>1. Begins(p, LoadedOrNew)
      BY <1>6, LoadedTyped, BeginFrame DEF Edit, Cmds, PCs, Enrolling, Changing
    <2>. QED BY <2>1, LoadedTyped, LoadedSound
  <1>7. CASE Enroll(p)
    <2>1. PICK a \in file.accounts, i \in Ids \ used :
            /\ NoNative(file, a)
            /\ snap' = [snap EXCEPT ![p] = file]
            /\ Begin(p, "enroll", a, i, FALSE, "prompt")
      BY <1>7 DEF Enroll
    <2>2. /\ a \in Accounts /\ file.desktop[a] \in Ids \union {None}
          /\ file.termux \ {a} \in SUBSET Accounts
      BY <2>1 DEF Types, Configs
    <2>3. file \in Configs /\ file \in Configs
      BY <2>2, ChangesTyped DEF Types
    <2>6. Begins(p, file)
      BY <2>1, <2>2, <2>3, BeginFrame DEF Cmds, PCs, Enrolling, Changing
    <2>. QED BY <2>3, <2>6
  <1>8. CASE TermuxEnroll(p)
    <2>1. PICK a \in file.accounts :
            /\ NoNative(file, a)
            /\ snap' = [snap EXCEPT ![p] = file]
            /\ Begin(p, "termux", a, None, TRUE, "prompt")
      BY <1>8 DEF TermuxEnroll
    <2>2. /\ a \in Accounts /\ file.desktop[a] \in Ids \union {None}
          /\ file.termux \ {a} \in SUBSET Accounts
      BY <2>1 DEF Types, Configs
    <2>3. file \in Configs /\ file \in Configs
      BY <2>2, ChangesTyped DEF Types
    <2>6. Begins(p, file)
      BY <2>1, <2>2, <2>3, BeginFrame DEF Cmds, PCs, Enrolling, Changing
    <2>. QED BY <2>3, <2>6
  <1>9. CASE Unenroll(p)
    <2>1. PICK a \in file.accounts :
            /\ snap' = [snap EXCEPT ![p] = SetDesktop(file, a, None)]
            /\ Begin(p, "unenroll", a, file.desktop[a], FALSE, "delete")
      BY <1>9 DEF Unenroll
    <2>2. /\ a \in Accounts /\ file.desktop[a] \in Ids \union {None}
          /\ file.termux \ {a} \in SUBSET Accounts
      BY <2>1 DEF Types, Configs
    <2>3. file \in Configs /\ SetDesktop(file, a, None) \in Configs
      BY <2>2, ChangesTyped DEF Types
    <2>4. Acyclic(file) => Acyclic(SetDesktop(file, a, None))
      BY <2>2, <2>3, ChangesKeepSources
    <2>5. One(file) => One(SetDesktop(file, a, None))
      BY <2>2, <2>3 DEF One, Configs, SetDesktop, SetTermux
    <2>6. Begins(p, SetDesktop(file, a, None))
      BY <2>1, <2>2, <2>3, BeginFrame DEF Cmds, PCs, Enrolling, Changing
    <2>. QED BY <2>3, <2>4, <2>5, <2>6
  <1>10. CASE TermuxRemove(p)
    <2>1. PICK a \in file.accounts :
            /\ snap' = [snap EXCEPT ![p] = SetTermux(file, file.termux \ {a})]
            /\ Begin(p, "untermux", a, None, TRUE, "delkey")
      BY <1>10 DEF TermuxRemove
    <2>2. /\ a \in Accounts /\ file.desktop[a] \in Ids \union {None}
          /\ file.termux \ {a} \in SUBSET Accounts
      BY <2>1 DEF Types, Configs
    <2>3. file \in Configs /\ SetTermux(file, file.termux \ {a}) \in Configs
      BY <2>2, ChangesTyped DEF Types
    <2>4. Acyclic(file) => Acyclic(SetTermux(file, file.termux \ {a}))
      BY <2>2, <2>3, ChangesKeepSources
    <2>5. One(file) => One(SetTermux(file, file.termux \ {a}))
      BY <2>2, <2>3 DEF One, Configs, SetDesktop, SetTermux
    <2>6. Begins(p, SetTermux(file, file.termux \ {a}))
      BY <2>1, <2>2, <2>3, BeginFrame DEF Cmds, PCs, Enrolling, Changing
    <2>. QED BY <2>3, <2>4, <2>5, <2>6
  <1>11. CASE ChangePassword(p)
    <2>1. PICK a \in file.accounts :
            /\ snap' = [snap EXCEPT ![p] = file]
            /\ Begin(p, "password", a, file.desktop[a], FALSE, "change")
      BY <1>11 DEF ChangePassword
    <2>2. /\ a \in Accounts /\ file.desktop[a] \in Ids \union {None}
          /\ file \in Configs
      BY <2>1 DEF Types, Configs
    <2>3. Begins(p, file)
      BY <2>1, <2>2, BeginFrame DEF Cmds, PCs, Enrolling
    <2>. QED BY <2>2, <2>3
  <1>. QED BY <1>1, <1>2, <1>3, <1>4, <1>5, <1>6, <1>7, <1>8, <1>9, <1>10, <1>11 DEF Start

-----------------------------------------------------------------------------
(* The credentials of the desktop. What is about to be stored was verified. *)

WorkInv ==
  /\ Types
  /\ \A i \in Ids : store[i] # Mistyped
  /\ \A p \in Procs : pc[p] \in {"store", "update"} => job[p].pw # Mistyped

LEMMA WorkInvInit == Init => WorkInv
  BY InitTyped DEF Init, WorkInv, Nothing, Mistyped

LEMMA WorkInvStart ==
  ASSUME WorkInv, NEW p \in Procs, Start(p), Types'
  PROVE  WorkInv'
  <1>1. PICK c \in Configs : Begins(p, c)
    BY StartCopies DEF WorkInv
  <1>. QED BY <1>1 DEF WorkInv, Begins

LEMMA WorkInvStep ==
  ASSUME WorkInv, NEW p \in Procs, Step(p) \/ WriteFails(p) \/ Crash(p), Types'
  PROVE  WorkInv'
  <1>. USE DEF WorkInv
  <1>1. CASE EditDone(p)
    BY <1>1 DEF EditDone, Goto, End, Types, fileVars, credVars
  <1>2. CASE Prompt(p)
    BY <1>2 DEF Prompt, Goto, End, Types, fileVars, credVars
  <1>3. CASE Unlock(p)
    BY <1>3 DEF Unlock, Goto, End, Types, fileVars, credVars
  <1>4. CASE Verify(p)
    BY <1>4 DEF Verify, Goto, End, Types, Enrolling, fileVars, credVars
  <1>5. CASE Store(p)
    BY <1>5 DEF Store, Goto, End, Types, Nothing, Mistyped, fileVars, credVars
  <1>6. CASE Undo(p)
    BY <1>6 DEF Undo, Goto, End, Types, Nothing, Mistyped, fileVars, credVars
  <1>7. CASE Delete(p)
    BY <1>7 DEF Delete, Goto, End, Types, Nothing, Mistyped, fileVars, credVars
  <1>8. CASE Generate(p)
    BY <1>8 DEF Generate, Goto, End, Types, fileVars, credVars
  <1>9. CASE Bundle(p)
    BY <1>9 DEF Bundle, Goto, End, Types, fileVars, credVars
  <1>10. CASE Unbundle(p)
    BY <1>10 DEF Unbundle, Goto, End, Types, fileVars, credVars
  <1>11. CASE DeleteKey(p)
    BY <1>11 DEF DeleteKey, Goto, End, Types, fileVars, credVars
  <1>12. CASE DeleteBundle(p)
    BY <1>12 DEF DeleteBundle, Goto, End, Types, fileVars, credVars
  <1>13. CASE Truncate(p)
    BY <1>13 DEF Truncate, Rollback, Goto, End, Types, fileVars, credVars
  <1>14. CASE Write(p)
    BY <1>14 DEF Write, Goto, End, Types, fileVars, credVars
  <1>15. CASE StopAgent(p)
    BY <1>15 DEF StopAgent, Goto, End, Types, fileVars, credVars
  <1>16. CASE WriteFails(p)
    BY <1>16 DEF WriteFails, Rollback, Goto, End, Types, fileVars, credVars
  <1>17. CASE Crash(p)
    BY <1>17 DEF Crash, Goto, End, Types, fileVars, credVars
  <1>18. CASE EditDropped(p)
    BY <1>18 DEF EditDropped, Goto, End, Types, fileVars, credVars
  <1>19. CASE Change(p)
    <2>1. master[job[p].who] + 1 # Mistyped
      BY <1>19 DEF Change, Types, Changing, Mistyped
    <2>2. UNCHANGED store /\ \A q \in Procs \ {p} : pc'[q] = pc[q] /\ job'[q] = job[q]
      BY <1>19 DEF Change, Goto, End, Types, credVars
    <2>3. pc'[p] \in {"store", "update"} => job'[p].pw # Mistyped
      BY <1>19, <2>1 DEF Change, Goto, End, Types, Jobs
    <2>. QED BY <2>2, <2>3
  <1>20. CASE Update(p)
    <2>1. \A i \in Ids : store'[i] # Mistyped
      BY <1>20 DEF Update, Types
    <2>. QED BY <1>20, <2>1 DEF Update, Goto, End, Types
  <1>. QED BY <1>1, <1>2, <1>3, <1>4, <1>5, <1>6, <1>7, <1>8, <1>9, <1>10, <1>11, <1>12, <1>13, <1>14, <1>15, <1>16, <1>17, <1>18, <1>19, <1>20 DEF Step

LEMMA WorkInvInvariant == Spec => []WorkInv
  <1>1. WorkInv /\ [Next]_vars => WorkInv'
    <2>. SUFFICES ASSUME WorkInv, [Next]_vars PROVE WorkInv'
      OBVIOUS
    <2>1. Types'
      BY NextTyped DEF WorkInv
    <2>2. CASE AgentUnlocks
      BY <2>1, <2>2 DEF WorkInv, AgentUnlocks, fileVars, credVars, procVars
    <2>3. ASSUME NEW p \in Procs,
                 Start(p) \/ Step(p) \/ WriteFails(p) \/ Crash(p)
          PROVE  WorkInv'
      BY <2>1, <2>3, WorkInvStart, WorkInvStep
    <2>4. CASE UNCHANGED vars
      BY <2>1, <2>4 DEF WorkInv, vars, fileVars, credVars, procVars
    <2>5. CASE ChangedElsewhere
      BY <2>1, <2>5 DEF WorkInv, ChangedElsewhere, fileVars, credVars, procVars
    <2>. QED BY <2>2, <2>3, <2>4, <2>5 DEF Next
  <1>. QED BY <1>1, WorkInvInit, PTL DEF Spec

-----------------------------------------------------------------------------
(* The circles of sources. No copy has one, except while it is edited.     *)

CycleInv ==
  /\ Types
  /\ edited \/ Acyclic(file)
  /\ \A p \in Procs :
       /\ job[p].cmd = "edit" \/ edited \/ Acyclic(snap[p])
       /\ pc[p] = "edit" => job[p].cmd = "edit"

LEMMA CycleInvInit == Init => CycleInv
  <1>. SUFFICES ASSUME Init PROVE CycleInv
    OBVIOUS
  <1>1. Acyclic(file)
    BY NoneAssumption DEF Init, Acyclic, BareConfig
  <1>. QED BY <1>1, InitTyped, EmptyAcyclic DEF Init, CycleInv

LEMMA CycleInvStart ==
  ASSUME CycleInv, NEW p \in Procs, Start(p), Types'
  PROVE  CycleInv'
  <1>1. PICK c \in Configs : Begins(p, c) /\ (Acyclic(file) => Acyclic(c))
    BY StartCopies DEF CycleInv
  <1>. QED BY <1>1 DEF CycleInv, Begins, Types

LEMMA CycleInvStep ==
  ASSUME CycleInv, NEW p \in Procs, Step(p) \/ WriteFails(p) \/ Crash(p), Types'
  PROVE  CycleInv'
  <1>. USE DEF CycleInv
  <1>1. CASE EditDone(p)
    BY <1>1, EmptyAcyclic DEF EditDone, Goto, End, Types, fileVars, credVars
  <1>2. CASE Prompt(p)
    BY <1>2, EmptyAcyclic DEF Prompt, Goto, End, Types, fileVars, credVars
  <1>3. CASE Unlock(p)
    BY <1>3, EmptyAcyclic DEF Unlock, Goto, End, Types, fileVars, credVars
  <1>4. CASE Verify(p)
    BY <1>4, EmptyAcyclic DEF Verify, Goto, End, Types, fileVars, credVars
  <1>5. CASE Store(p)
    <2>1. job[p].cmd = job'[p].cmd /\ snap[p] \in Configs
      BY <1>5 DEF Store, Types
    <2>2. Acyclic(snap[p]) => Acyclic(snap'[p])
      <3>1. CASE snap' = snap
        BY <3>1
      <3>2. CASE snap' = [snap EXCEPT ![p] =
                            SetDesktop(snap[p], job[p].who, job[p].id)]
        <4>1. job[p].who \in Accounts /\ job[p].id \in Ids \union {None}
          BY <1>5 DEF Store, Types, Enrolling, Jobs
        <4>. QED BY <2>1, <3>2, <4>1, ChangesKeepSources DEF Types
      <3>. QED BY <1>5, <3>1, <3>2 DEF Store
    <2>. QED BY <1>5, <2>1, <2>2 DEF Store, Goto, Types, fileVars
  <1>6. CASE Undo(p)
    BY <1>6, EmptyAcyclic DEF Undo, Goto, End, Types, fileVars, credVars
  <1>7. CASE Delete(p)
    BY <1>7, EmptyAcyclic DEF Delete, Goto, End, Types, fileVars, credVars
  <1>8. CASE Generate(p)
    <2>1. CASE End(p)
      BY <1>8, <2>1, EmptyAcyclic DEF Generate, Goto, End, Types, fileVars
    <2>2. CASE ~End(p)
      <3>1. \A q \in Procs : job'[q].cmd = job[q].cmd
        BY <1>8, <2>2 DEF Generate, Types, Jobs
      <3>. QED BY <1>8, <2>2, <3>1 DEF Generate, Goto, Types, fileVars
    <2>. QED BY <2>1, <2>2
  <1>9. CASE Bundle(p)
    <2>1. CASE End(p)
      BY <1>9, <2>1, EmptyAcyclic DEF Bundle, End, Goto, Types, fileVars
    <2>2. CASE ~End(p)
      <3>1. snap' = [snap EXCEPT ![p] =
                       SetTermux(snap[p], snap[p].termux \union {job[p].who})]
        BY <1>9, <2>2 DEF Bundle
      <3>2. /\ snap[p] \in Configs /\ job[p].who \in Accounts
            /\ snap[p].termux \union {job[p].who} \in SUBSET Accounts
        BY <1>9 DEF Bundle, Types, Enrolling, Configs
      <3>3. Acyclic(snap[p]) => Acyclic(snap'[p])
        BY <3>1, <3>2, ChangesKeepSources DEF Types
      <3>. QED BY <1>9, <2>2, <3>1, <3>3 DEF Bundle, Goto, Types, fileVars
    <2>. QED BY <2>1, <2>2
  <1>10. CASE Unbundle(p)
    BY <1>10, EmptyAcyclic DEF Unbundle, Goto, End, Types, fileVars, credVars
  <1>11. CASE DeleteKey(p)
    BY <1>11, EmptyAcyclic DEF DeleteKey, Goto, End, Types, fileVars, credVars
  <1>12. CASE DeleteBundle(p)
    BY <1>12, EmptyAcyclic DEF DeleteBundle, Goto, End, Types, fileVars, credVars
  <1>13. CASE Truncate(p)
    BY <1>13, EmptyAcyclic DEF Truncate, Rollback, Goto, End, Types, fileVars, credVars
  <1>14. CASE Write(p)
    BY <1>14, EmptyAcyclic DEF Write, Goto, End, Types, fileVars, credVars
  <1>15. CASE StopAgent(p)
    BY <1>15, EmptyAcyclic DEF StopAgent, Goto, End, Types, fileVars, credVars
  <1>16. CASE WriteFails(p)
    BY <1>16, EmptyAcyclic DEF WriteFails, Rollback, Goto, End, Types, fileVars, credVars
  <1>17. CASE Crash(p)
    BY <1>17, EmptyAcyclic DEF Crash, Goto, End, Types, fileVars, credVars
  <1>18. CASE EditDropped(p)
    BY <1>18, EmptyAcyclic DEF EditDropped, Goto, End, Types, fileVars, credVars
  <1>19. CASE Change(p)
    <2>1. CASE End(p)
      BY <1>19, <2>1, EmptyAcyclic DEF Change, Goto, End, Types, fileVars
    <2>2. CASE ~End(p)
      <3>1. \A q \in Procs : job'[q].cmd = job[q].cmd
        BY <1>19, <2>2 DEF Change, Types, Jobs
      <3>. QED BY <1>19, <2>2, <3>1 DEF Change, Goto, Types, fileVars
    <2>. QED BY <2>1, <2>2
  <1>20. CASE Update(p)
    BY <1>20, EmptyAcyclic DEF Update, Goto, End, Types, fileVars
  <1>. QED BY <1>1, <1>2, <1>3, <1>4, <1>5, <1>6, <1>7, <1>8, <1>9, <1>10, <1>11, <1>12, <1>13, <1>14, <1>15, <1>16, <1>17, <1>18, <1>19, <1>20 DEF Step

LEMMA CycleInvInvariant == Spec => []CycleInv
  <1>1. CycleInv /\ [Next]_vars => CycleInv'
    <2>. SUFFICES ASSUME CycleInv, [Next]_vars PROVE CycleInv'
      OBVIOUS
    <2>1. Types'
      BY NextTyped DEF CycleInv
    <2>2. CASE AgentUnlocks
      BY <2>1, <2>2 DEF CycleInv, AgentUnlocks, fileVars, credVars, procVars
    <2>3. ASSUME NEW p \in Procs,
                 Start(p) \/ Step(p) \/ WriteFails(p) \/ Crash(p)
          PROVE  CycleInv'
      BY <2>1, <2>3, CycleInvStart, CycleInvStep
    <2>4. CASE UNCHANGED vars
      BY <2>1, <2>4 DEF CycleInv, vars, fileVars, credVars, procVars
    <2>5. CASE ChangedElsewhere
      BY <2>1, <2>5 DEF CycleInv, ChangedElsewhere, fileVars, credVars, procVars
    <2>. QED BY <2>2, <2>3, <2>4, <2>5 DEF Next
  <1>. QED BY <1>1, CycleInvInit, PTL DEF Spec

\* However commands overlap, fail or crash, the file they leave behind never
\* leads an unlock in a circle (account_set, tui_account_set_credential_source).
THEOREM NoCircles == Spec => []SourcesNeverCycle
  <1>1. CycleInv => SourcesNeverCycle
    BY DEF CycleInv, SourcesNeverCycle
  <1>. QED BY <1>1, CycleInvInvariant, PTL

-----------------------------------------------------------------------------
(* One provider. An enrolment keeps the copy it has checked.               *)

ProviderInv ==
  /\ Types
  /\ edited \/ One(file)
  /\ \A p \in Procs :
       /\ job[p].cmd = "edit" \/ edited \/ One(snap[p])
       /\ pc[p] = "edit" => job[p].cmd = "edit"
       /\ pc[p] \in Enrolling => NoNative(snap[p], job[p].who)

LEMMA ProviderInvInit == Init => ProviderInv
  <1>. SUFFICES ASSUME Init PROVE ProviderInv
    OBVIOUS
  <1>1. One(file)
    BY DEF Init, One, BareConfig
  <1>2. \A p \in Procs : snap[p].termux = {} /\ pc[p] = "idle"
    BY DEF Init, EmptyConfig, BareConfig
  <1>. QED BY <1>1, <1>2, InitTyped DEF ProviderInv, One, Enrolling

LEMMA ProviderInvStart ==
  ASSUME ProviderInv, NEW p \in Procs, Start(p), Types'
  PROVE  ProviderInv'
  <1>1. PICK c \in Configs : Begins(p, c) /\ (One(file) => One(c))
    BY StartCopies DEF ProviderInv
  <1>. QED BY <1>1 DEF ProviderInv, Begins, Types

LEMMA ProviderInvStep ==
  ASSUME ProviderInv, NEW p \in Procs, Step(p) \/ WriteFails(p) \/ Crash(p), Types'
  PROVE  ProviderInv'
  <1>. USE DEF ProviderInv
  <1>1. CASE EditDone(p)
    BY <1>1 DEF EditDone, Goto, Types, fileVars, Enrolling
  <1>2. CASE Prompt(p)
    <2>1. /\ snap' = snap /\ file' = file
          /\ \A q \in Procs : job'[q].who = job[q].who /\ job'[q].cmd = job[q].cmd
      BY <1>2 DEF Prompt, Types, Jobs, fileVars
    <2>. QED BY <1>2, <2>1 DEF Prompt, Goto, Types, Enrolling
  <1>3. CASE Unlock(p)
    BY <1>3 DEF Unlock, Goto, End, Types, fileVars, credVars, Enrolling, EmptyConfig, BareConfig, One
  <1>4. CASE Verify(p)
    BY <1>4 DEF Verify, Goto, End, Types, fileVars, credVars, Enrolling, EmptyConfig, BareConfig, One
  <1>5. CASE Store(p)
    <2>1. /\ job' = job /\ file' = file /\ edited' = edited
          /\ snap[p] \in Configs
          /\ pc' = [pc EXCEPT ![p] = pc'[p]] /\ pc'[p] \in {"save", "undo"}
      BY <1>5 DEF Store, Goto, Types, fileVars
    <2>2. CASE snap' = snap
      BY <2>1, <2>2 DEF Types, Enrolling
    <2>3. CASE snap' = [snap EXCEPT ![p] =
                          SetDesktop(snap[p], job[p].who, job[p].id)]
      <3>1. NoNative(snap[p], job[p].who)
        BY <1>5 DEF Store, Enrolling
      <3>2. One(snap[p]) => One(SetDesktop(snap[p], job[p].who, job[p].id))
        BY <2>1, <3>1 DEF One, NoNative, SetDesktop, Configs
      <3>. QED BY <2>1, <2>3, <3>2 DEF Types, Enrolling
    <2>. QED BY <1>5, <2>2, <2>3 DEF Store
  <1>6. CASE Undo(p)
    BY <1>6 DEF Undo, Goto, End, Types, fileVars, credVars, Enrolling, EmptyConfig, BareConfig, One
  <1>7. CASE Delete(p)
    BY <1>7 DEF Delete, Goto, End, Types, fileVars, credVars, Enrolling, EmptyConfig, BareConfig, One
  <1>8. CASE Generate(p)
    <2>1. CASE End(p)
      BY <1>8, <2>1 DEF Generate, End, Goto, Types, fileVars, Enrolling,
         EmptyConfig, BareConfig, One
    <2>2. CASE ~End(p)
      <3>1. \A q \in Procs : job'[q].who = job[q].who /\ job'[q].cmd = job[q].cmd
        BY <1>8, <2>2 DEF Generate, Types, Jobs
      <3>. QED BY <1>8, <2>2, <3>1 DEF Generate, Goto, Types, Enrolling, fileVars
    <2>. QED BY <2>1, <2>2
  <1>9. CASE Bundle(p)
    <2>1. CASE End(p)
      BY <1>9, <2>1 DEF Bundle, End, Goto, Types, fileVars, Enrolling,
         EmptyConfig, BareConfig, One
    <2>2. CASE ~End(p)
      <3>1. snap' = [snap EXCEPT ![p] =
                       SetTermux(snap[p], snap[p].termux \union {job[p].who})]
        BY <1>9, <2>2 DEF Bundle
      <3>2. NoNative(snap[p], job[p].who) /\ snap[p] \in Configs
        BY <1>9 DEF Bundle, Enrolling, Types
      <3>3. One(snap[p]) =>
              One(SetTermux(snap[p], snap[p].termux \union {job[p].who}))
        BY <3>2 DEF One, NoNative, SetTermux, Configs
      <3>. QED BY <1>9, <2>2, <3>1, <3>3
               DEF Bundle, Goto, Types, Enrolling, fileVars
    <2>. QED BY <2>1, <2>2
  <1>10. CASE Unbundle(p)
    BY <1>10 DEF Unbundle, Goto, End, Types, fileVars, credVars, Enrolling, EmptyConfig, BareConfig, One
  <1>11. CASE DeleteKey(p)
    BY <1>11 DEF DeleteKey, Goto, End, Types, fileVars, credVars, Enrolling, EmptyConfig, BareConfig, One
  <1>12. CASE DeleteBundle(p)
    BY <1>12 DEF DeleteBundle, Goto, End, Types, fileVars, credVars, Enrolling, EmptyConfig, BareConfig, One
  <1>13. CASE Truncate(p)
    <2>1. CASE End(p)
      BY <1>13, <2>1 DEF Truncate, Goto, End, Types, Enrolling, EmptyConfig, BareConfig, One
    <2>2. CASE ~End(p)
      BY <1>13, <2>2 DEF Truncate, Rollback, Goto, Types, Enrolling
    <2>. QED BY <2>1, <2>2
  <1>14. CASE Write(p)
    <2>1. /\ file' = snap[p] /\ edited' = (edited \/ job[p].cmd = "edit")
          /\ \A q \in Procs \ {p} : UNCHANGED <<pc[q], job[q], snap[q]>>
      BY <1>14 DEF Write, Goto, End, Types
    <2>2. /\ \/ One(snap'[p])
             \/ snap'[p] = snap[p] /\ job'[p] = job[p]
          /\ pc'[p] \in {"idle", "stop"}
      BY <1>14 DEF Write, Goto, End, Types, EmptyConfig, BareConfig, One
    <2>. QED BY <2>1, <2>2 DEF Enrolling
  <1>15. CASE StopAgent(p)
    BY <1>15 DEF StopAgent, Goto, End, Types, fileVars, credVars, Enrolling, EmptyConfig, BareConfig, One
  <1>16. CASE WriteFails(p)
    BY <1>16 DEF WriteFails, Rollback, Goto, End, Types, fileVars, credVars, Enrolling, EmptyConfig, BareConfig, One
  <1>17. CASE Crash(p)
    BY <1>17 DEF Crash, Goto, End, Types, fileVars, credVars, Enrolling, EmptyConfig, BareConfig, One
  <1>18. CASE EditDropped(p)
    BY <1>18 DEF EditDropped, Goto, End, Types, fileVars, credVars, Enrolling, EmptyConfig, BareConfig, One
  <1>19. CASE Change(p)
    <2>1. CASE End(p)
      BY <1>19, <2>1 DEF Change, End, Goto, Types, fileVars, Enrolling,
         EmptyConfig, BareConfig, One
    <2>2. CASE ~End(p)
      <3>1. \A q \in Procs : job'[q].who = job[q].who /\ job'[q].cmd = job[q].cmd
        BY <1>19, <2>2 DEF Change, Types, Jobs
      <3>. QED BY <1>19, <2>2, <3>1 DEF Change, Goto, Types, Enrolling, fileVars
    <2>. QED BY <2>1, <2>2
  <1>20. CASE Update(p)
    BY <1>20 DEF Update, Goto, End, Types, fileVars, Enrolling, EmptyConfig, BareConfig, One
  <1>. QED BY <1>1, <1>2, <1>3, <1>4, <1>5, <1>6, <1>7, <1>8, <1>9, <1>10, <1>11, <1>12, <1>13, <1>14, <1>15, <1>16, <1>17, <1>18, <1>19, <1>20 DEF Step

LEMMA ProviderInvInvariant == Spec => []ProviderInv
  <1>1. ProviderInv /\ [Next]_vars => ProviderInv'
    <2>. SUFFICES ASSUME ProviderInv, [Next]_vars PROVE ProviderInv'
      OBVIOUS
    <2>1. Types'
      BY NextTyped DEF ProviderInv
    <2>2. CASE AgentUnlocks
      BY <2>1, <2>2 DEF ProviderInv, AgentUnlocks, fileVars, credVars, procVars
    <2>3. ASSUME NEW p \in Procs,
                 Start(p) \/ Step(p) \/ WriteFails(p) \/ Crash(p)
          PROVE  ProviderInv'
      BY <2>1, <2>3, ProviderInvStart, ProviderInvStep
    <2>4. CASE UNCHANGED vars
      BY <2>1, <2>4 DEF ProviderInv, vars, fileVars, credVars, procVars
    <2>5. CASE ChangedElsewhere
      BY <2>1, <2>5 DEF ProviderInv, ChangedElsewhere, fileVars, credVars, procVars
    <2>. QED BY <2>2, <2>3, <2>4, <2>5 DEF Next
  <1>. QED BY <1>1, ProviderInvInit, PTL DEF Spec

\* No stale copy and no two enrolments at once give an account two native
\* providers, with which resolve_unlock_credentials refuses every unlock.
THEOREM NeverTwoProviders == Spec => []OneProvider
  <1>1. ProviderInv => OneProvider
    BY DEF ProviderInv, One, OneProvider
  <1>. QED BY <1>1, ProviderInvInvariant, PTL

-----------------------------------------------------------------------------
(* Commands that run one by one. Each knows how far the stores of          *)
(* credentials are from what the file says.                                *)

Stored        == {i \in Ids : store[i] # Nothing}
Configured(c) == {c.desktop[a] : a \in Accounts} \ {None}
Bundled(A)    == \A a \in A : bundle[a] # Nothing

\* What a command finds when it is alone.
Sound == Stored = Configured(file) /\ Bundled(file.termux)

\* Credentials are of one account each, and of one that is there.
Owned(c) ==
  /\ \A a, b \in Accounts : c.desktop[a] = c.desktop[b] /\ c.desktop[a] # None
                              => a = b
  /\ \A a \in Accounts \ c.accounts : c.desktop[a] = None

SameDesktop(p) == \A a \in Accounts : snap[p].desktop[a] = file.desktop[a]

\* What the command leaves of the accounts.
KeepsAccounts(p) ==
  \A a \in file.accounts :
    a \in snap[p].accounts \/ (job[p].cmd = "remove" /\ job[p].who = a)

Plain(p) ==
  /\ pc[p] \in {"edit", "change", "update", "save", "write"}
  /\ pc[p] \in Changing => job[p].id = file.desktop[job[p].who]
  /\ pc[p] = "update" => job[p].id # None
  /\ Sound /\ SameDesktop(p) /\ snap[p].termux \subseteq file.termux
  /\ job[p].cmd = "remove" => file.desktop[job[p].who] = None

EnrollsDesktop(p) ==
  LET a == job[p].who
      i == job[p].id
  IN /\ a \in file.accounts /\ file.desktop[a] = None
     /\ i \in Ids \ Configured(file) /\ i \in used
     /\ Bundled(file.termux) /\ snap[p].termux \subseteq file.termux
     /\ \/ /\ pc[p] \in {"prompt", "unlock", "verify", "store"}
           /\ Stored = Configured(file) /\ SameDesktop(p)
        \/ pc[p] = "undo" /\ Stored \ {i} = Configured(file)
        \/ /\ pc[p] \in {"save", "write"}
           /\ Stored = Configured(file) \union {i}
           /\ \A b \in Accounts : snap[p].desktop[b] =
                                    IF b = a THEN i ELSE file.desktop[b]

RemovesDesktop(p) ==
  LET a == job[p].who
      i == job[p].id
  IN /\ a \in Accounts /\ i # None /\ file.desktop[a] = i
     /\ Bundled(file.termux) /\ snap[p].termux \subseteq file.termux
     /\ \A b \in Accounts : snap[p].desktop[b] =
                              IF b = a THEN None ELSE file.desktop[b]
     /\ \/ pc[p] = "delete" /\ Stored = Configured(file)
        \/ pc[p] \in {"save", "write"} /\ Stored = Configured(file) \ {i}

EnrollsTermux(p) ==
  LET a == job[p].who
  IN /\ Sound /\ SameDesktop(p) /\ a \notin file.termux
     /\ \/ /\ pc[p] \in {"prompt", "unlock", "generate", "bundle"}
           /\ snap[p].termux \subseteq file.termux
        \/ pc[p] = "unbundle"
        \/ /\ pc[p] \in {"save", "write"}
           /\ snap[p].termux \subseteq file.termux \union {a}
           /\ bundle[a] # Nothing

RemovesTermux(p) ==
  LET a == job[p].who
  IN /\ Stored = Configured(file) /\ SameDesktop(p)
     /\ snap[p].termux \subseteq file.termux \ {a}
     /\ \/ pc[p] \in {"delkey", "delbundle"} /\ Bundled(file.termux)
        \/ pc[p] \in {"save", "write"} /\ Bundled(file.termux \ {a})

Doing(p) ==
  /\ KeepsAccounts(p)
  /\ IF pc[p] = "stop" THEN Sound
     ELSE CASE job[p].cmd = "enroll"   -> EnrollsDesktop(p)
            [] job[p].cmd = "unenroll" -> RemovesDesktop(p)
            [] job[p].cmd = "termux"   -> EnrollsTermux(p)
            [] job[p].cmd = "untermux" -> RemovesTermux(p)
            [] OTHER                   -> Plain(p)

CleanInv ==
  clean =>
    /\ \A p, q \in Procs : pc[p] # "idle" /\ pc[q] # "idle" => p = q
    /\ torn => \E p \in Procs : pc[p] = "write"
    /\ Owned(file) /\ Configured(file) \subseteq used
    /\ Quiet => Sound
    /\ \A p \in Procs : pc[p] # "idle" => Doing(p)

\* A command that goes on.
LEMMA CleanInvGoesOn ==
  ASSUME CleanInv, Types, NEW p \in Procs, pc[p] # "idle",
         NEW s \in PCs \ {"idle"}, pc' = [pc EXCEPT ![p] = s],
         clean' => /\ clean
                   /\ torn' => s = "write"
                   /\ Owned(file)' /\ (Configured(file) \subseteq used)'
                   /\ Doing(p)'
  PROVE  CleanInv'
  <1>. SUFFICES ASSUME clean' PROVE CleanInv'
    BY DEF CleanInv
  <1>1. \A q \in Procs : pc[q] # "idle" => q = p
    BY DEF CleanInv
  <1>2. \A q \in Procs : pc'[q] = IF q = p THEN s ELSE pc[q]
    BY DEF Types
  <1>. QED BY <1>1, <1>2 DEF CleanInv, Quiet

\* A command that ends.
LEMMA CleanInvEnds ==
  ASSUME CleanInv, Types, NEW p \in Procs, pc[p] # "idle", End(p),
         clean' => /\ clean
                   /\ ~torn'
                   /\ Owned(file)' /\ (Configured(file) \subseteq used)'
                   /\ Sound'
  PROVE  CleanInv'
  <1>. SUFFICES ASSUME clean' PROVE CleanInv'
    BY DEF CleanInv
  <1>1. \A q \in Procs : pc[q] # "idle" => q = p
    BY DEF CleanInv
  <1>2. \A q \in Procs : pc'[q] = IF q = p THEN "idle" ELSE pc[q]
    BY DEF Types, End, Goto
  <1>. QED BY <1>1, <1>2 DEF CleanInv

\* A command that begins alone finds everything in order.
LEMMA CleanInvAlone ==
  ASSUME CleanInv, clean, Quiet
  PROVE  /\ ~torn /\ LoadedOrNew = file
         /\ Sound /\ Owned(file) /\ Configured(file) \subseteq used
  BY DEF CleanInv, Quiet, LoadedOrNew

LEMMA CleanInvBegins ==
  ASSUME CleanInv, Types, NEW p \in Procs, NEW c, NEW a, NEW i, NEW stops,
         NEW next \in PCs \ {"idle"}, Begin(p, c, a, i, stops, next),
         used \subseteq used', clean /\ Quiet => Doing(p)'
  PROVE  CleanInv'
  <1>. SUFFICES ASSUME clean' PROVE CleanInv'
    BY DEF CleanInv
  <1>1. clean /\ Quiet
    BY DEF Begin, Quiet
  <1>2. \A q \in Procs : pc'[q] = IF q = p THEN next ELSE "idle"
    BY <1>1 DEF Types, Begin, Goto, Quiet
  <1>3. UNCHANGED <<file, torn, store, bundle>>
    BY DEF Begin, fileVars, credVars
  <1>4. Owned(file)' /\ (Configured(file) \subseteq used)' /\ ~torn'
    BY <1>1, <1>3, CleanInvAlone DEF Owned, Configured
  <1>. QED BY <1>1, <1>2, <1>4 DEF CleanInv, Quiet

LEMMA SoundStays ==
  ASSUME UNCHANGED <<file, store, bundle>>
  PROVE  Sound' = Sound /\ Stored' = Stored /\ Configured(file)' = Configured(file)
  BY DEF Sound, Stored, Configured, Bundled

\* Commands that have their copy when they begin.
LEMMA CleanInvPlain ==
  ASSUME CleanInv, Types, NEW p \in Procs, NEW d, NEW c, NEW a, NEW stops,
         NEW next \in {"save", "edit"},
         snap' = [snap EXCEPT ![p] = d], Begin(p, c, a, None, stops, next), UNCHANGED used,
         c \in {"add", "remove", "primary", "source", "set", "edit"},
         clean /\ Quiet =>
           /\ \A b \in file.accounts : b \in d.accounts \/ (c = "remove" /\ a = b)
           /\ \A b \in Accounts : d.desktop[b] = file.desktop[b]
           /\ d.termux \subseteq file.termux
           /\ c = "remove" => file.desktop[a] = None
  PROVE  CleanInv'
  <1>0. /\ pc'[p] = next /\ snap'[p] = d /\ job'[p].cmd = c /\ job'[p].who = a
        /\ UNCHANGED <<file, store, bundle>>
    BY DEF Types, Begin, Goto, fileVars, credVars
  <1>1. ASSUME clean, Quiet PROVE Doing(p)'
    <2>1. Sound'
      BY <1>0, <1>1, SoundStays, CleanInvAlone
    <2>2. Plain(p)'
      BY <1>0, <1>1, <2>1 DEF Plain, SameDesktop, Changing
    <2>3. KeepsAccounts(p)'
      BY <1>0, <1>1 DEF KeepsAccounts
    <2>. QED BY <1>0, <2>1, <2>2, <2>3 DEF Doing
  <1>2. next \in PCs \ {"idle"}
    BY DEF PCs
  <1>. QED BY <1>1, <1>2, CleanInvBegins

LEMMA CleanInvStart ==
  ASSUME CleanInv, Types, NEW p \in Procs, Start(p)
  PROVE  CleanInv'
  <1>. DEFINE c == LoadedOrNew
  <1>0. c \in Configs /\ (clean /\ Quiet => c = file /\ Owned(file))
    BY LoadedTyped, CleanInvAlone
  <1>. HIDE DEF c
  <1>1. CASE Add(p)
    <2>1. PICK a \in Accounts \ c.accounts, asked \in BOOLEAN :
            /\ snap' = [snap EXCEPT ![p] = AddAccount(c, a, asked)]
            /\ Begin(p, "add", a, None, asked \/ c.accounts = {}, "save")
            /\ UNCHANGED used
      BY <1>1 DEF Add, c
    <2>2. /\ c.accounts \subseteq AddAccount(c, a, asked).accounts
          /\ \A b \in Accounts : AddAccount(c, a, asked).desktop[b] =
                                   IF b = a THEN None ELSE c.desktop[b]
          /\ AddAccount(c, a, asked).termux \subseteq c.termux
      BY <1>0 DEF AddAccount, Configs
    <2>3. clean /\ Quiet => file.desktop[a] = None
      BY <1>0, <2>1 DEF Owned
    <2>. QED BY <1>0, <2>1, <2>2, <2>3, CleanInvPlain
  <1>2. CASE Remove(p)
    <2>1. PICK a \in c.accounts, f \in Accounts \union {None} :
            /\ c.desktop[a] = None
            /\ snap' = [snap EXCEPT ![p] = RemoveAccount(c, a, f)]
            /\ Begin(p, "remove", a, None, c.primary = a, "save")
            /\ UNCHANGED used
      BY <1>0, <1>2 DEF Remove, c, Configs
    <2>2. /\ RemoveAccount(c, a, f).accounts = c.accounts \ {a}
          /\ \A b \in Accounts : RemoveAccount(c, a, f).desktop[b] = c.desktop[b]
          /\ RemoveAccount(c, a, f).termux \subseteq c.termux
      BY <1>0, <2>1 DEF RemoveAccount, Configs
    <2>. QED BY <1>0, <2>1, <2>2, CleanInvPlain
  <1>3. CASE Primary(p)
    <2>1. PICK a \in c.accounts :
            /\ snap' = [snap EXCEPT ![p] = SetPrimary(c, a)]
            /\ Begin(p, "primary", a, None, c.primary # a, "save")
            /\ UNCHANGED used
      BY <1>3 DEF Primary, c
    <2>2. /\ SetPrimary(c, a).accounts = c.accounts
          /\ SetPrimary(c, a).desktop = c.desktop
          /\ SetPrimary(c, a).termux = c.termux
      BY <1>0 DEF SetPrimary, Configs
    <2>. QED BY <1>0, <2>1, <2>2, CleanInvPlain
  <1>4. CASE SetAccount(p)
    <2>1. PICK a \in c.accounts, s \in Accounts \union {None} :
            /\ snap' = [snap EXCEPT ![p] = SetSource(c, a, s)]
            /\ Begin(p, "source", a, None, FALSE, "save")
            /\ UNCHANGED used
      BY <1>4 DEF SetAccount, c
    <2>2. /\ SetSource(c, a, s).accounts = c.accounts
          /\ SetSource(c, a, s).desktop = c.desktop
          /\ SetSource(c, a, s).termux = c.termux
      BY <1>0 DEF SetSource, Configs
    <2>. QED BY <1>0, <2>1, <2>2, CleanInvPlain
  <1>5. CASE Set(p)
    BY <1>0, <1>5, CleanInvPlain DEF Set, c
  <1>6. CASE Edit(p)
    BY <1>0, <1>6, CleanInvPlain DEF Edit, c
  <1>7. CASE Enroll(p)
    <2>1. PICK a \in file.accounts, i \in Ids \ used :
            /\ NoNative(file, a)
            /\ used' = used \union {i}
            /\ snap' = [snap EXCEPT ![p] = file]
            /\ Begin(p, "enroll", a, i, FALSE, "prompt")
      BY <1>7 DEF Enroll
    <2>2. /\ pc'[p] = "prompt" /\ snap'[p] = file
          /\ job'[p].cmd = "enroll" /\ job'[p].who = a /\ job'[p].id = i
          /\ UNCHANGED <<file, store, bundle>>
      BY <2>1 DEF Types, Begin, Goto, fileVars, credVars
    <2>3. ASSUME clean, Quiet PROVE Doing(p)'
      <3>1. Sound /\ Configured(file) \subseteq used
        BY <2>3, CleanInvAlone
      <3>2. EnrollsDesktop(p)'
        BY <2>1, <3>1, <2>2, SoundStays
           DEF EnrollsDesktop, Sound, SameDesktop, NoNative, Bundled
      <3>. QED BY <2>1, <3>2, <2>2 DEF Doing, KeepsAccounts
    <2>. QED BY <2>1, <2>3, CleanInvBegins DEF PCs
  <1>8. CASE TermuxEnroll(p)
    <2>1. PICK a \in file.accounts :
            /\ NoNative(file, a)
            /\ snap' = [snap EXCEPT ![p] = file]
            /\ Begin(p, "termux", a, None, TRUE, "prompt")
      BY <1>8 DEF TermuxEnroll
    <2>2. /\ pc'[p] = "prompt" /\ snap'[p] = file
          /\ job'[p].cmd = "termux" /\ job'[p].who = a
          /\ UNCHANGED <<file, store, bundle>>
      BY <2>1 DEF Types, Begin, Goto, fileVars, credVars
    <2>3. ASSUME clean, Quiet PROVE Doing(p)'
      <3>1. Sound'
        BY <2>1, <2>3, <2>2, SoundStays, CleanInvAlone
      <3>2. EnrollsTermux(p)'
        BY <2>1, <3>1, <2>2 DEF EnrollsTermux, SameDesktop, NoNative
      <3>. QED BY <2>1, <3>2, <2>2 DEF Doing, KeepsAccounts
    <2>. QED BY <1>8, <2>1, <2>3, CleanInvBegins DEF PCs, TermuxEnroll
  <1>9. CASE Unenroll(p)
    <2>1. PICK a \in file.accounts :
            /\ file.desktop[a] # None
            /\ snap' = [snap EXCEPT ![p] = SetDesktop(file, a, None)]
            /\ Begin(p, "unenroll", a, file.desktop[a], FALSE, "delete")
      BY <1>9 DEF Unenroll
    <2>2. /\ pc'[p] = "delete" /\ snap'[p] = SetDesktop(file, a, None)
          /\ job'[p].cmd = "unenroll" /\ job'[p].who = a /\ job'[p].id = file.desktop[a]
          /\ UNCHANGED <<file, store, bundle>>
      BY <2>1 DEF Types, Begin, Goto, fileVars, credVars
    <2>3. /\ SetDesktop(file, a, None).accounts = file.accounts
          /\ \A b \in Accounts : SetDesktop(file, a, None).desktop[b] =
                                   IF b = a THEN None ELSE file.desktop[b]
          /\ SetDesktop(file, a, None).termux = file.termux
          /\ a \in Accounts
      BY <2>1 DEF SetDesktop, Configs, Types
    <2>4. ASSUME clean, Quiet PROVE Doing(p)'
      <3>1. Sound
        BY <2>4, CleanInvAlone
      <3>2. RemovesDesktop(p)'
        BY <2>1, <2>3, <3>1, <2>2, SoundStays DEF RemovesDesktop, Sound, Bundled
      <3>. QED BY <2>1, <2>3, <3>2, <2>2 DEF Doing, KeepsAccounts
    <2>. QED BY <1>9, <2>1, <2>4, CleanInvBegins DEF PCs, Unenroll
  <1>10. CASE TermuxRemove(p)
    <2>1. PICK a \in file.accounts :
            /\ snap' = [snap EXCEPT ![p] = SetTermux(file, file.termux \ {a})]
            /\ Begin(p, "untermux", a, None, TRUE, "delkey")
      BY <1>10 DEF TermuxRemove
    <2>2. /\ pc'[p] = "delkey" /\ snap'[p] = SetTermux(file, file.termux \ {a})
          /\ job'[p].cmd = "untermux" /\ job'[p].who = a
          /\ UNCHANGED <<file, store, bundle>>
      BY <2>1 DEF Types, Begin, Goto, fileVars, credVars
    <2>3. /\ SetTermux(file, file.termux \ {a}).accounts = file.accounts
          /\ SetTermux(file, file.termux \ {a}).desktop = file.desktop
          /\ SetTermux(file, file.termux \ {a}).termux = file.termux \ {a}
      BY DEF SetTermux, Configs, Types
    <2>4. ASSUME clean, Quiet PROVE Doing(p)'
      <3>1. Sound
        BY <2>4, CleanInvAlone
      <3>2. RemovesTermux(p)'
        BY <2>1, <2>3, <3>1, <2>2, SoundStays
           DEF RemovesTermux, Sound, SameDesktop, Bundled
      <3>. QED BY <2>1, <2>3, <3>2, <2>2 DEF Doing, KeepsAccounts
    <2>. QED BY <1>10, <2>1, <2>4, CleanInvBegins DEF PCs, TermuxRemove
  <1>11. CASE ChangePassword(p)
    <2>1. PICK b \in file.accounts :
            /\ snap' = [snap EXCEPT ![p] = file]
            /\ Begin(p, "password", b, file.desktop[b], FALSE, "change")
      BY <1>11 DEF ChangePassword
    <2>2. /\ pc'[p] = "change" /\ snap'[p] = file
          /\ job'[p].cmd = "password" /\ job'[p].who = b
          /\ job'[p].id = file.desktop[b]
          /\ UNCHANGED <<file, store, bundle>>
      BY <2>1 DEF Types, Begin, Goto, fileVars, credVars
    <2>3. ASSUME clean, Quiet PROVE Doing(p)'
      <3>1. Sound'
        BY <2>2, <2>3, SoundStays, CleanInvAlone
      <3>2. Plain(p)'
        BY <2>2, <3>1 DEF Plain, SameDesktop
      <3>. QED BY <2>2, <3>2 DEF Doing, KeepsAccounts
    <2>. QED BY <1>11, <2>1, <2>3, CleanInvBegins DEF PCs, ChangePassword
  <1>. QED BY <1>1, <1>2, <1>3, <1>4, <1>5, <1>6, <1>7, <1>8, <1>9, <1>10, <1>11 DEF Start

\* Each account has its bundle, or none.
Bundles == bundle \in [Accounts -> Saved]

LEMMA BundlesTyped == Types /\ Bundles /\ [Next]_vars => Bundles'
  <1>. SUFFICES ASSUME Types, Bundles, [Next]_vars PROVE Bundles'
    OBVIOUS
  <1>. USE DEF Bundles, credVars
  <1>1. ASSUME NEW p \in Procs, Start(p) PROVE Bundles'
    BY <1>1 DEF Start, Begin, Add, Remove, Primary, SetAccount, Set, Edit,
                Enroll, TermuxEnroll, Unenroll, TermuxRemove, ChangePassword
  <1>2. ASSUME NEW p \in Procs, Bundle(p) PROVE Bundles'
    BY <1>2 DEF Bundle, Types, Jobs, Saved
  <1>3. ASSUME NEW p \in Procs, Unbundle(p) \/ DeleteBundle(p) PROVE Bundles'
    BY <1>3 DEF Unbundle, DeleteBundle, Saved
  <1>4. ASSUME NEW p \in Procs,
               Step(p) \/ WriteFails(p) \/ Crash(p),
               ~(Bundle(p) \/ Unbundle(p) \/ DeleteBundle(p))
        PROVE  UNCHANGED bundle
    BY <1>4 DEF Step, EditDone, Prompt, Unlock, Verify, Store, Undo, Delete,
                Generate, DeleteKey, Truncate, Write, StopAgent, WriteFails, Crash,
                EditDropped, Change, Update
  <1>5. CASE AgentUnlocks \/ ChangedElsewhere \/ UNCHANGED vars
    BY <1>5 DEF AgentUnlocks, ChangedElsewhere, vars
  <1>. QED BY <1>1, <1>2, <1>3, <1>4, <1>5 DEF Next

\* What a command in the middle knows.
LEMMA CleanInvMine ==
  ASSUME CleanInv, clean, NEW p \in Procs, pc[p] # "idle"
  PROVE  /\ Doing(p) /\ KeepsAccounts(p) /\ (torn => pc[p] = "write")
         /\ Owned(file) /\ Configured(file) \subseteq used
  BY DEF CleanInv, Doing

\* Which command it is, by its step.
LEMMA DoingAt ==
  ASSUME NEW p \in Procs, Doing(p)
  PROVE  /\ pc[p] = "stop" => Sound
         /\ pc[p] \in {"save", "write"} =>
              \/ job[p].cmd = "enroll" /\ EnrollsDesktop(p)
              \/ job[p].cmd = "unenroll" /\ RemovesDesktop(p)
              \/ job[p].cmd = "termux" /\ EnrollsTermux(p)
              \/ job[p].cmd = "untermux" /\ RemovesTermux(p)
              \/ /\ job[p].cmd \notin {"enroll", "unenroll", "termux", "untermux"}
                 /\ Plain(p)
         /\ pc[p] \in {"edit", "change", "update"} =>
              /\ job[p].cmd \notin {"enroll", "unenroll", "termux", "untermux"}
              /\ Plain(p)
         /\ pc[p] \in {"prompt", "unlock"} =>
              \/ job[p].cmd = "enroll" /\ EnrollsDesktop(p)
              \/ job[p].cmd = "termux" /\ EnrollsTermux(p)
         /\ pc[p] \in {"verify", "store", "undo"} =>
              job[p].cmd = "enroll" /\ EnrollsDesktop(p)
         /\ pc[p] = "delete" => job[p].cmd = "unenroll" /\ RemovesDesktop(p)
         /\ pc[p] \in {"generate", "bundle", "unbundle"} =>
              job[p].cmd = "termux" /\ EnrollsTermux(p)
         /\ pc[p] \in {"delkey", "delbundle"} =>
              job[p].cmd = "untermux" /\ RemovesTermux(p)
  <1>1. pc[p] = "stop" => Sound
    BY DEF Doing
  <1>2. pc[p] # "stop" =>
          CASE job[p].cmd = "enroll"   -> EnrollsDesktop(p)
            [] job[p].cmd = "unenroll" -> RemovesDesktop(p)
            [] job[p].cmd = "termux"   -> EnrollsTermux(p)
            [] job[p].cmd = "untermux" -> RemovesTermux(p)
            [] OTHER                   -> Plain(p)
    BY DEF Doing
  <1>3. /\ EnrollsDesktop(p) =>
             pc[p] \in {"prompt", "unlock", "verify", "store", "undo", "save", "write"}
        /\ RemovesDesktop(p) => pc[p] \in {"delete", "save", "write"}
        /\ EnrollsTermux(p) =>
             pc[p] \in {"prompt", "unlock", "generate", "bundle", "unbundle",
                        "save", "write"}
        /\ RemovesTermux(p) => pc[p] \in {"delkey", "delbundle", "save", "write"}
        /\ Plain(p) => pc[p] \in {"edit", "change", "update", "save", "write"}
    BY DEF EnrollsDesktop, RemovesDesktop, EnrollsTermux, RemovesTermux, Plain
  <1>. QED BY <1>1, <1>2, <1>3

\* Steps that leave the file alone.
LEMMA CleanInvWithin ==
  ASSUME CleanInv, Types, NEW p \in Procs, pc[p] \notin {"idle", "write"},
         UNCHANGED <<file, torn, used>>,
         NEW s \in PCs \ {"idle"}, pc' = [pc EXCEPT ![p] = s],
         clean' => clean, clean' => Doing(p)'
  PROVE  CleanInv'
  <1>1. clean => /\ ~torn' /\ Owned(file)' /\ (Configured(file) \subseteq used)'
    BY CleanInvMine DEF Owned, Configured
  <1>. QED BY <1>1, CleanInvGoesOn

LEMMA CleanInvStops ==
  ASSUME CleanInv, Types, NEW p \in Procs, pc[p] \notin {"idle", "write"},
         UNCHANGED <<file, torn, used>>, End(p),
         clean' => clean, clean' => Sound'
  PROVE  CleanInv'
  <1>1. clean => /\ ~torn' /\ Owned(file)' /\ (Configured(file) \subseteq used)'
    BY CleanInvMine DEF Owned, Configured
  <1>. QED BY <1>1, CleanInvEnds

\* What an enrolment that has stored nothing, and a removal that has removed
\* nothing, leave behind.
LEMMA NothingDone ==
  ASSUME NEW p \in Procs, Doing(p),
         pc[p] \in {"prompt", "unlock", "verify", "delete", "generate",
                    "bundle", "unbundle", "delkey", "edit", "change", "stop"}
  PROVE  Sound
  <1>1. EnrollsDesktop(p) /\ pc[p] \in {"prompt", "unlock", "verify"} => Sound
    BY DEF EnrollsDesktop, Sound
  <1>2. RemovesDesktop(p) /\ pc[p] = "delete" => Sound
    BY DEF RemovesDesktop, Sound
  <1>3. EnrollsTermux(p) => Sound
    BY DEF EnrollsTermux
  <1>4. RemovesTermux(p) /\ pc[p] = "delkey" => Sound
    BY DEF RemovesTermux, Sound
  <1>5. Plain(p) => Sound
    BY DEF Plain
  <1>. QED BY <1>1, <1>2, <1>3, <1>4, <1>5, DoingAt

\* A command that saves makes the file match what is stored.
LEMMA WriteIsSound ==
  ASSUME Types, NEW p \in Procs, Doing(p), pc[p] = "write", Owned(file),
         Configured(file) \subseteq used,
         file' = snap[p], UNCHANGED <<store, bundle, used>>
  PROVE  Sound' /\ Owned(file)' /\ (Configured(file) \subseteq used)'
  <1>. DEFINE a == job[p].who
              i == job[p].id
  <1>0. /\ Stored' = Stored
        /\ \A A : Bundled(A)' = Bundled(A)
        /\ KeepsAccounts(p)
    BY DEF Stored, Bundled, Doing
  <1>1. CASE /\ \A b \in Accounts : snap[p].desktop[b] = file.desktop[b]
             /\ \A b \in file.accounts : b \in snap[p].accounts \/ file.desktop[b] = None
             /\ Stored = Configured(file) /\ Bundled(snap[p].termux)
    <2>1. Configured(file)' = Configured(file)
      BY <1>1 DEF Configured
    <2>2. Owned(file)'
      BY <1>1 DEF Owned
    <2>. QED BY <1>0, <1>1, <2>1, <2>2 DEF Sound, Bundled
  <1>2. CASE job[p].cmd = "enroll" /\ EnrollsDesktop(p)
    <2>1. /\ a \in file.accounts /\ a \in Accounts /\ file.desktop[a] = None
          /\ i \in Ids \ Configured(file) /\ i \in used /\ i # None
          /\ Bundled(file.termux) /\ snap[p].termux \subseteq file.termux
          /\ Stored = Configured(file) \union {i}
          /\ \A b \in Accounts : snap[p].desktop[b] =
                                   IF b = a THEN i ELSE file.desktop[b]
      BY <1>2, NoneAssumption DEF EnrollsDesktop, Types, Configs
    <2>2. Configured(file)' = Configured(file) \union {i}
      BY <2>1 DEF Configured
    <2>3. Owned(file)'
      BY <1>0, <1>2, <2>1 DEF Owned, Configured, KeepsAccounts
    <2>. QED BY <1>0, <2>1, <2>2, <2>3 DEF Sound, Bundled
  <1>3. CASE job[p].cmd = "unenroll" /\ RemovesDesktop(p)
    <2>1. /\ a \in Accounts /\ i # None /\ file.desktop[a] = i
          /\ Bundled(file.termux) /\ snap[p].termux \subseteq file.termux
          /\ Stored = Configured(file) \ {i}
          /\ \A b \in Accounts : snap[p].desktop[b] =
                                   IF b = a THEN None ELSE file.desktop[b]
      BY <1>3 DEF RemovesDesktop
    <2>2. Configured(file)' = Configured(file) \ {i}
      BY <2>1 DEF Configured, Owned
    <2>3. Owned(file)'
      BY <1>0, <1>3, <2>1 DEF Owned, KeepsAccounts
    <2>. QED BY <1>0, <2>1, <2>2, <2>3 DEF Sound, Bundled
  <1>4. CASE job[p].cmd = "termux" /\ EnrollsTermux(p)
    <2>1. Bundled(snap[p].termux)
      BY <1>4 DEF EnrollsTermux, Sound, Bundled
    <2>. QED BY <1>0, <1>1, <1>4, <2>1 DEF EnrollsTermux, Sound, SameDesktop, KeepsAccounts
  <1>5. CASE job[p].cmd = "untermux" /\ RemovesTermux(p)
    <2>1. Bundled(snap[p].termux)
      BY <1>5 DEF RemovesTermux, Bundled
    <2>. QED BY <1>0, <1>1, <1>5, <2>1 DEF RemovesTermux, SameDesktop, KeepsAccounts
  <1>6. CASE Plain(p)
    <2>1. Bundled(snap[p].termux)
      BY <1>6 DEF Plain, Sound, Bundled
    <2>. QED BY <1>0, <1>1, <1>6, <2>1 DEF Plain, Sound, SameDesktop, KeepsAccounts
  <1>. QED BY <1>2, <1>3, <1>4, <1>5, <1>6, DoingAt

\* Each step leaves its command where `Doing` says it is, or ends it with the
\* stores as the file says.
LEMMA CleanInvStep ==
  ASSUME CleanInv, Types, Bundles, NEW p \in Procs,
         Step(p) \/ WriteFails(p) \/ Crash(p)
  PROVE  CleanInv'
  <1>. DEFINE a == job[p].who
              i == job[p].id
  <1>0. /\ \A s \in PCs : pc' = [pc EXCEPT ![p] = s] => pc'[p] = s
        /\ job[p] \in Jobs /\ snap[p] \in Configs
        /\ i # None => i \in Ids
    BY DEF Types, Jobs
  <1>1. ASSUME UNCHANGED <<file, store, bundle>>
        PROVE  /\ Sound' = Sound /\ Stored' = Stored
               /\ Configured(file)' = Configured(file)
               /\ \A A : Bundled(A)' = Bundled(A)
    BY <1>1, SoundStays DEF Bundled
  <1>2. CASE EditDone(p)
    <2>1. PICK c \in Typed(snap[p]) :
            /\ snap' = [snap EXCEPT ![p] = c]
            /\ clean' = (clean /\ c.accounts = snap[p].accounts
                               /\ c.desktop = snap[p].desktop
                               /\ c.termux = snap[p].termux)
      BY <1>2 DEF EditDone
    <2>2. clean' => /\ clean
                    /\ snap'[p].accounts = snap[p].accounts
                    /\ snap'[p].desktop = snap[p].desktop
                    /\ snap'[p].termux = snap[p].termux
      BY <2>1 DEF Types
    <2>3. /\ pc[p] = "edit" /\ pc' = [pc EXCEPT ![p] = "save"] /\ pc'[p] = "save"
          /\ UNCHANGED <<file, torn, used, job, store, bundle>>
      BY <1>0, <1>2 DEF EditDone, Goto, fileVars, credVars, PCs
    <2>4. ASSUME clean' PROVE Doing(p)'
      <3>1. /\ KeepsAccounts(p) /\ Plain(p)
            /\ job[p].cmd \notin {"enroll", "unenroll", "termux", "untermux"}
        BY <2>2, <2>3, <2>4, CleanInvMine, DoingAt
      <3>2. Plain(p)' /\ KeepsAccounts(p)'
        BY <1>1, <2>2, <2>3, <2>4, <3>1
           DEF Plain, SameDesktop, KeepsAccounts, Changing
      <3>. QED BY <2>3, <3>1, <3>2 DEF Doing
    <2>. QED BY <2>2, <2>3, <2>4, CleanInvWithin DEF PCs
  <1>3. CASE Prompt(p)
    <2>1. PICK w \in {master[a], Mistyped} : job' = [job EXCEPT ![p].pw = w]
      BY <1>3 DEF Prompt
    <2>2. job'[p].cmd = job[p].cmd /\ job'[p].who = a /\ job'[p].id = i
      BY <1>0, <2>1 DEF Types, Jobs
    <2>3. /\ pc[p] = "prompt" /\ pc' = [pc EXCEPT ![p] = "unlock"]
          /\ pc'[p] = "unlock"
          /\ UNCHANGED <<file, torn, used, snap, store, bundle, clean>>
      BY <1>0, <1>3 DEF Prompt, Goto, fileVars, credVars, PCs
    <2>4. ASSUME clean PROVE Doing(p)'
      <3>1. /\ KeepsAccounts(p)
            /\ \/ job[p].cmd = "enroll" /\ EnrollsDesktop(p)
               \/ job[p].cmd = "termux" /\ EnrollsTermux(p)
        BY <2>3, <2>4, CleanInvMine, DoingAt
      <3>2. KeepsAccounts(p)'
        BY <2>2, <2>3, <3>1 DEF KeepsAccounts
      <3>3. EnrollsDesktop(p) => EnrollsDesktop(p)'
        BY <1>1, <2>2, <2>3 DEF EnrollsDesktop, SameDesktop
      <3>4. EnrollsTermux(p) => EnrollsTermux(p)'
        BY <1>1, <2>2, <2>3 DEF EnrollsTermux, SameDesktop
      <3>. QED BY <2>2, <2>3, <3>1, <3>2, <3>3, <3>4 DEF Doing
    <2>. QED BY <2>3, <2>4, CleanInvWithin DEF PCs
  <1>4. CASE Unlock(p)
    <2>1. /\ pc[p] = "unlock"
          /\ UNCHANGED <<file, torn, used, store, bundle, clean>>
      BY <1>4 DEF Unlock, fileVars, credVars
    <2>2. CASE End(p)
      BY <1>1, <2>1, <2>2, CleanInvStops, CleanInvMine, NothingDone
    <2>3. CASE ~End(p)
      <3>. DEFINE s == IF job[p].cmd = "enroll" THEN "verify" ELSE "generate"
      <3>1. pc' = [pc EXCEPT ![p] = s] /\ pc'[p] = s /\ UNCHANGED <<job, snap>>
        BY <1>0, <1>4, <2>3 DEF Unlock, Goto, PCs
      <3>2. ASSUME clean PROVE Doing(p)'
        <4>1. /\ KeepsAccounts(p)
              /\ \/ job[p].cmd = "enroll" /\ EnrollsDesktop(p)
                 \/ job[p].cmd = "termux" /\ EnrollsTermux(p)
          BY <2>1, <3>2, CleanInvMine, DoingAt
        <4>2. KeepsAccounts(p)'
          BY <2>1, <3>1, <4>1 DEF KeepsAccounts
        <4>3. job[p].cmd = "enroll" /\ EnrollsDesktop(p) => EnrollsDesktop(p)'
          BY <1>1, <2>1, <3>1 DEF EnrollsDesktop, SameDesktop
        <4>4. job[p].cmd = "termux" /\ EnrollsTermux(p) => EnrollsTermux(p)'
          BY <1>1, <2>1, <3>1 DEF EnrollsTermux, SameDesktop
        <4>. QED BY <3>1, <4>1, <4>2, <4>3, <4>4 DEF Doing
      <3>3. s \in PCs \ {"idle"}
        BY DEF PCs
      <3>. QED BY <2>1, <3>1, <3>2, <3>3, CleanInvWithin
    <2>. QED BY <2>2, <2>3
  <1>5. CASE Verify(p)
    <2>1. /\ pc[p] = "verify"
          /\ UNCHANGED <<file, torn, used, store, bundle, clean>>
      BY <1>5 DEF Verify, fileVars, credVars
    <2>2. CASE End(p)
      BY <1>1, <2>1, <2>2, CleanInvStops, CleanInvMine, NothingDone
    <2>3. CASE ~End(p)
      <3>1. /\ pc' = [pc EXCEPT ![p] = "store"] /\ pc'[p] = "store"
            /\ UNCHANGED <<job, snap>>
        BY <1>0, <1>5, <2>3 DEF Verify, Goto, PCs
      <3>2. ASSUME clean PROVE Doing(p)'
        <4>1. KeepsAccounts(p) /\ job[p].cmd = "enroll" /\ EnrollsDesktop(p)
          BY <2>1, <3>2, CleanInvMine, DoingAt
        <4>2. KeepsAccounts(p)'
          BY <2>1, <3>1, <4>1 DEF KeepsAccounts
        <4>3. EnrollsDesktop(p)'
          BY <1>1, <2>1, <3>1, <4>1 DEF EnrollsDesktop, SameDesktop
        <4>. QED BY <3>1, <4>1, <4>2, <4>3 DEF Doing
      <3>. QED BY <2>1, <3>1, <3>2, CleanInvWithin DEF PCs
    <2>. QED BY <2>2, <2>3
  <1>6. CASE Store(p)
    <2>1. /\ pc[p] = "store"
          /\ UNCHANGED <<file, torn, used, job, bundle, clean>>
      BY <1>6 DEF Store, fileVars
    <2>2. ASSUME clean
          PROVE  /\ KeepsAccounts(p) /\ job[p].cmd = "enroll" /\ EnrollsDesktop(p)
                 /\ a \in Accounts /\ i \in Ids \ Configured(file)
                 /\ Stored = Configured(file) /\ SameDesktop(p)
      <3>1. KeepsAccounts(p) /\ job[p].cmd = "enroll" /\ EnrollsDesktop(p)
        BY <2>1, <2>2, CleanInvMine, DoingAt
      <3>. QED BY <2>1, <3>1 DEF EnrollsDesktop, Types, Configs
    <2>3. CASE /\ store' = [store EXCEPT ![i] = job[p].pw]
               /\ snap' = [snap EXCEPT ![p] = SetDesktop(snap[p], a, i)]
               /\ Goto(p, "save")
      <3>1. pc' = [pc EXCEPT ![p] = "save"] /\ pc'[p] = "save"
        BY <1>0, <2>3 DEF Goto, PCs
      <3>2. ASSUME clean PROVE Doing(p)'
        <4>1. Stored' = Stored \union {i}
          BY <1>0, <2>2, <2>3, <3>2 DEF Stored, Types, Jobs, Passwords, Nothing
        <4>2. /\ snap'[p].accounts = snap[p].accounts
              /\ snap'[p].termux = snap[p].termux
              /\ \A b \in Accounts : snap'[p].desktop[b] =
                                       IF b = a THEN i ELSE snap[p].desktop[b]
          BY <1>0, <2>3 DEF SetDesktop, Configs, Types
        <4>3. KeepsAccounts(p)'
          BY <2>1, <2>2, <3>2, <4>2 DEF KeepsAccounts
        <4>4. EnrollsDesktop(p)'
          BY <2>1, <2>2, <3>1, <3>2, <4>1, <4>2
             DEF EnrollsDesktop, SameDesktop, Configured, Bundled
        <4>. QED BY <2>1, <2>2, <3>1, <3>2, <4>3, <4>4 DEF Doing
      <3>. QED BY <2>1, <3>1, <3>2, CleanInvWithin DEF PCs
    <2>4. ASSUME NEW w \in {Nothing, job[p].pw},
                 store' = [store EXCEPT ![i] = w], Goto(p, "undo"), UNCHANGED snap
          PROVE  CleanInv'
      <3>1. pc' = [pc EXCEPT ![p] = "undo"] /\ pc'[p] = "undo"
        BY <1>0, <2>4 DEF Goto, PCs
      <3>2. ASSUME clean PROVE Doing(p)'
        <4>1. Stored' \ {i} = Configured(file)
          BY <2>2, <2>4, <3>2 DEF Stored, Types
        <4>2. KeepsAccounts(p)'
          BY <2>1, <2>2, <2>4, <3>2 DEF KeepsAccounts
        <4>3. EnrollsDesktop(p)'
          BY <2>1, <2>2, <2>4, <3>1, <3>2, <4>1 DEF EnrollsDesktop, Configured, Bundled
        <4>. QED BY <2>1, <2>2, <3>1, <3>2, <4>2, <4>3 DEF Doing
      <3>. QED BY <2>1, <3>1, <3>2, CleanInvWithin DEF PCs
    <2>. QED BY <1>6, <2>3, <2>4 DEF Store
  <1>7. CASE Undo(p)
    <2>1. /\ pc[p] = "undo" /\ End(p)
          /\ UNCHANGED <<file, torn, used, bundle>>
          /\ clean' => clean /\ store' = [store EXCEPT ![i] = Nothing]
      BY <1>7 DEF Undo, fileVars
    <2>2. ASSUME clean' PROVE Sound'
      <3>1. EnrollsDesktop(p)
        BY <2>1, <2>2, CleanInvMine, DoingAt
      <3>2. /\ i \in Ids /\ Stored \ {i} = Configured(file)
            /\ Bundled(file.termux)
        BY <2>1, <3>1 DEF EnrollsDesktop
      <3>3. Stored' = Stored \ {i}
        BY <2>1, <2>2, <3>2 DEF Stored, Types
      <3>. QED BY <2>1, <3>2, <3>3 DEF Sound, Configured, Bundled
    <2>. QED BY <2>1, <2>2, CleanInvStops
  <1>8. CASE Delete(p)
    <2>1. /\ pc[p] = "delete"
          /\ UNCHANGED <<file, torn, used, bundle, clean>>
      BY <1>8 DEF Delete, fileVars
    <2>2. CASE End(p) /\ UNCHANGED store
      BY <1>1, <2>1, <2>2, CleanInvStops, CleanInvMine, NothingDone
    <2>3. CASE /\ store' = [store EXCEPT ![i] = Nothing]
               /\ Goto(p, "save") /\ UNCHANGED <<job, snap>>
      <3>1. pc' = [pc EXCEPT ![p] = "save"] /\ pc'[p] = "save"
        BY <1>0, <2>3 DEF Goto, PCs
      <3>2. ASSUME clean PROVE Doing(p)'
        <4>1. KeepsAccounts(p) /\ job[p].cmd = "unenroll" /\ RemovesDesktop(p)
          BY <2>1, <3>2, CleanInvMine, DoingAt
        <4>2. Stored' = Configured(file) \ {i}
          BY <1>0, <2>1, <2>3, <4>1 DEF RemovesDesktop, Stored, Types
        <4>3. KeepsAccounts(p)'
          BY <2>1, <2>3, <4>1 DEF KeepsAccounts
        <4>4. RemovesDesktop(p)'
          BY <2>1, <2>3, <3>1, <4>1, <4>2 DEF RemovesDesktop, Configured, Bundled
        <4>. QED BY <2>3, <3>1, <4>1, <4>3, <4>4 DEF Doing
      <3>. QED BY <2>1, <3>1, <3>2, CleanInvWithin DEF PCs
    <2>. QED BY <1>8, <2>2, <2>3 DEF Delete
  <1>9. CASE Generate(p)
    <2>1. /\ pc[p] = "generate"
          /\ UNCHANGED <<file, torn, used, store, bundle, clean>>
      BY <1>9 DEF Generate, fileVars
    <2>2. CASE End(p)
      BY <1>1, <2>1, <2>2, CleanInvStops, CleanInvMine, NothingDone
    <2>3. CASE ~End(p)
      <3>1. /\ pc' = [pc EXCEPT ![p] = "bundle"] /\ pc'[p] = "bundle"
            /\ UNCHANGED snap
            /\ job' = [job EXCEPT ![p].made = ~key[a]]
        BY <1>0, <1>9, <2>3 DEF Generate, Goto, PCs
      <3>2. job'[p].cmd = job[p].cmd /\ job'[p].who = a
        BY <1>0, <3>1 DEF Types, Jobs
      <3>3. ASSUME clean PROVE Doing(p)'
        <4>1. KeepsAccounts(p) /\ job[p].cmd = "termux" /\ EnrollsTermux(p)
          BY <2>1, <3>3, CleanInvMine, DoingAt
        <4>2. KeepsAccounts(p)'
          BY <2>1, <3>1, <3>2, <4>1 DEF KeepsAccounts
        <4>3. EnrollsTermux(p)'
          BY <1>1, <2>1, <3>1, <3>2, <4>1 DEF EnrollsTermux, SameDesktop
        <4>. QED BY <3>1, <3>2, <4>1, <4>2, <4>3 DEF Doing
      <3>. QED BY <2>1, <3>1, <3>3, CleanInvWithin DEF PCs
    <2>. QED BY <2>2, <2>3
  <1>10. CASE Bundle(p)
    <2>1. /\ pc[p] = "bundle"
          /\ UNCHANGED <<file, torn, used, store, clean>>
      BY <1>10 DEF Bundle, fileVars
    <2>2. CASE End(p) /\ UNCHANGED bundle
      BY <1>1, <2>1, <2>2, CleanInvStops, CleanInvMine, NothingDone
    <2>3. CASE /\ bundle' = [bundle EXCEPT ![a] = job[p].pw]
               /\ snap' = [snap EXCEPT ![p] =
                             SetTermux(snap[p], snap[p].termux \union {a})]
               /\ Goto(p, "save") /\ UNCHANGED job
      <3>1. pc' = [pc EXCEPT ![p] = "save"] /\ pc'[p] = "save"
        BY <1>0, <2>3 DEF Goto, PCs
      <3>2. ASSUME clean PROVE Doing(p)'
        <4>1. KeepsAccounts(p) /\ job[p].cmd = "termux" /\ EnrollsTermux(p)
          BY <2>1, <3>2, CleanInvMine, DoingAt
        <4>2. /\ snap'[p].accounts = snap[p].accounts
              /\ snap'[p].desktop = snap[p].desktop
              /\ snap'[p].termux = snap[p].termux \union {a}
          BY <1>0, <2>3 DEF SetTermux, Configs, Types
        <4>3. a \in Accounts
          BY <2>1 DEF Types, Enrolling
        <4>4. /\ \A b \in Accounts : bundle[b] # Nothing => bundle'[b] # Nothing
              /\ bundle'[a] # Nothing
          BY <1>0, <2>3, <4>3 DEF Bundles, Jobs, Passwords, Nothing
        <4>5. Sound'
          BY <2>1, <4>1, <4>4 DEF EnrollsTermux, Sound, Stored, Configured, Bundled,
                                  Types, Configs
        <4>6. KeepsAccounts(p)'
          BY <2>1, <2>3, <4>1, <4>2 DEF KeepsAccounts
        <4>7. EnrollsTermux(p)'
          BY <2>1, <2>3, <3>1, <4>1, <4>2, <4>4, <4>5 DEF EnrollsTermux, SameDesktop
        <4>. QED BY <2>3, <3>1, <4>1, <4>6, <4>7 DEF Doing
      <3>. QED BY <2>1, <3>1, <3>2, CleanInvWithin DEF PCs
    <2>. QED BY <1>10, <2>2, <2>3 DEF Bundle
  <1>11. CASE Unbundle(p)
    <2>1. /\ pc[p] = "unbundle" /\ End(p)
          /\ UNCHANGED <<file, torn, used, store, clean>>
          /\ bundle' = [bundle EXCEPT ![a] = Nothing]
      BY <1>11 DEF Unbundle, fileVars
    <2>2. ASSUME clean' PROVE Sound'
      <3>1. EnrollsTermux(p)
        BY <2>1, <2>2, CleanInvMine, DoingAt
      <3>. QED BY <2>1, <3>1 DEF EnrollsTermux, Sound, Stored, Configured, Bundled,
                                 Bundles, Types, Configs
    <2>. QED BY <2>1, <2>2, CleanInvStops
  <1>12. CASE DeleteKey(p)
    <2>1. /\ pc[p] = "delkey"
          /\ UNCHANGED <<file, torn, used, store, bundle, clean>>
      BY <1>12 DEF DeleteKey, fileVars
    <2>2. CASE End(p)
      BY <1>1, <2>1, <2>2, CleanInvStops, CleanInvMine, NothingDone
    <2>3. CASE ~End(p)
      <3>1. /\ pc' = [pc EXCEPT ![p] = "delbundle"] /\ pc'[p] = "delbundle"
            /\ UNCHANGED <<job, snap>>
        BY <1>0, <1>12, <2>3 DEF DeleteKey, Goto, PCs
      <3>2. ASSUME clean PROVE Doing(p)'
        <4>1. KeepsAccounts(p) /\ job[p].cmd = "untermux" /\ RemovesTermux(p)
          BY <2>1, <3>2, CleanInvMine, DoingAt
        <4>2. KeepsAccounts(p)'
          BY <2>1, <3>1, <4>1 DEF KeepsAccounts
        <4>3. RemovesTermux(p)'
          BY <1>1, <2>1, <3>1, <4>1 DEF RemovesTermux, SameDesktop
        <4>. QED BY <3>1, <4>1, <4>2, <4>3 DEF Doing
      <3>. QED BY <2>1, <3>1, <3>2, CleanInvWithin DEF PCs
    <2>. QED BY <2>2, <2>3
  <1>13. CASE DeleteBundle(p)
    <2>1. /\ pc[p] = "delbundle"
          /\ UNCHANGED <<file, torn, used, store>>
      BY <1>13 DEF DeleteBundle, fileVars
    <2>2. CASE End(p) /\ clean' = FALSE
      BY <2>1, <2>2, CleanInvStops
    <2>3. CASE /\ bundle' = [bundle EXCEPT ![a] = Nothing]
               /\ Goto(p, "save") /\ UNCHANGED <<job, snap, clean>>
      <3>1. pc' = [pc EXCEPT ![p] = "save"] /\ pc'[p] = "save"
        BY <1>0, <2>3 DEF Goto, PCs
      <3>2. ASSUME clean PROVE Doing(p)'
        <4>1. KeepsAccounts(p) /\ job[p].cmd = "untermux" /\ RemovesTermux(p)
          BY <2>1, <3>2, CleanInvMine, DoingAt
        <4>2. KeepsAccounts(p)'
          BY <2>1, <2>3, <4>1 DEF KeepsAccounts
        <4>3. RemovesTermux(p)'
          BY <2>1, <2>3, <3>1, <4>1 DEF RemovesTermux, SameDesktop, Stored, Configured,
                                        Bundled, Bundles, Types, Configs
        <4>. QED BY <2>3, <3>1, <4>1, <4>2, <4>3 DEF Doing
      <3>. QED BY <2>1, <2>3, <3>1, <3>2, CleanInvWithin DEF PCs
    <2>. QED BY <1>13, <2>2, <2>3 DEF DeleteBundle
  <1>14. CASE Truncate(p)
    <2>1. pc[p] = "save" /\ UNCHANGED <<file, used, store, bundle>>
      BY <1>14 DEF Truncate, credVars
    <2>2. ASSUME clean
          PROVE  /\ KeepsAccounts(p) /\ ~torn
                 /\ Owned(file) /\ Configured(file) \subseteq used
                 /\ \/ job[p].cmd = "enroll" /\ EnrollsDesktop(p)
                    \/ job[p].cmd = "unenroll" /\ RemovesDesktop(p)
                    \/ job[p].cmd = "termux" /\ EnrollsTermux(p)
                    \/ job[p].cmd = "untermux" /\ RemovesTermux(p)
                    \/ /\ job[p].cmd \notin {"enroll", "unenroll", "termux", "untermux"}
                       /\ Plain(p)
      BY <2>1, <2>2, CleanInvMine, DoingAt
    <2>3. CASE torn' = TRUE /\ Goto(p, "write") /\ UNCHANGED <<job, snap, clean>>
      <3>1. pc' = [pc EXCEPT ![p] = "write"] /\ pc'[p] = "write"
        BY <1>0, <2>3 DEF Goto, PCs
      <3>2. ASSUME clean PROVE Doing(p)'
        <4>1. KeepsAccounts(p)'
          BY <2>1, <2>2, <2>3, <3>2 DEF KeepsAccounts
        <4>2. /\ EnrollsDesktop(p) => EnrollsDesktop(p)'
              /\ RemovesDesktop(p) => RemovesDesktop(p)'
          BY <1>1, <2>1, <2>3, <3>1 DEF EnrollsDesktop, RemovesDesktop
        <4>3. /\ EnrollsTermux(p) => EnrollsTermux(p)'
              /\ RemovesTermux(p) => RemovesTermux(p)'
              /\ Plain(p) => Plain(p)'
          BY <1>1, <2>1, <2>3, <3>1 DEF EnrollsTermux, RemovesTermux, Plain, SameDesktop, Changing
        <4>. QED BY <2>2, <2>3, <3>1, <3>2, <4>1, <4>2, <4>3 DEF Doing
      <3>3. clean => Owned(file)' /\ (Configured(file) \subseteq used)'
        BY <1>1, <2>1, <2>2 DEF Owned
      <3>. QED BY <2>1, <2>3, <3>1, <3>2, <3>3, CleanInvGoesOn DEF PCs
    <2>4. CASE /\ Rollback(p) /\ UNCHANGED torn
               /\ clean' = (clean /\ job[p].cmd \notin {"unenroll", "untermux"})
      <3>1. CASE job[p].cmd = "enroll"
        <4>1. /\ pc' = [pc EXCEPT ![p] = "undo"] /\ pc'[p] = "undo"
              /\ UNCHANGED <<job, snap>>
          BY <1>0, <2>4, <3>1 DEF Rollback, Goto, PCs
        <4>2. ASSUME clean PROVE Doing(p)'
          <5>1. KeepsAccounts(p)' /\ EnrollsDesktop(p)
            BY <2>1, <2>2, <3>1, <4>1, <4>2 DEF KeepsAccounts
          <5>2. EnrollsDesktop(p)'
            BY <1>1, <2>1, <4>1, <5>1 DEF EnrollsDesktop
          <5>. QED BY <3>1, <4>1, <5>1, <5>2 DEF Doing
        <4>. QED BY <2>1, <2>4, <4>1, <4>2, CleanInvWithin DEF PCs
      <3>2. CASE job[p].cmd = "termux"
        <4>1. /\ pc' = [pc EXCEPT ![p] = "unbundle"] /\ pc'[p] = "unbundle"
              /\ UNCHANGED <<job, snap>>
          BY <1>0, <2>4, <3>2 DEF Rollback, Goto, PCs
        <4>2. ASSUME clean PROVE Doing(p)'
          <5>1. KeepsAccounts(p)' /\ EnrollsTermux(p)
            BY <2>1, <2>2, <3>2, <4>1, <4>2 DEF KeepsAccounts
          <5>2. EnrollsTermux(p)'
            BY <1>1, <2>1, <4>1, <5>1 DEF EnrollsTermux, SameDesktop
          <5>. QED BY <3>2, <4>1, <5>1, <5>2 DEF Doing
        <4>. QED BY <2>1, <2>4, <4>1, <4>2, CleanInvWithin DEF PCs
      <3>3. CASE job[p].cmd \notin {"enroll", "termux"}
        <4>1. End(p)
          BY <2>4, <3>3 DEF Rollback
        <4>2. clean' => Sound'
          <5>. SUFFICES ASSUME clean' PROVE Sound'
            OBVIOUS
          <5>1. Plain(p)
            BY <2>2, <2>4, <3>3
          <5>2. Sound
            BY <5>1 DEF Plain
          <5>. QED BY <1>1, <2>1, <5>2
        <4>. QED BY <2>1, <2>4, <4>1, <4>2, CleanInvStops
      <3>. QED BY <3>1, <3>2, <3>3
    <2>. QED BY <1>14, <2>3, <2>4 DEF Truncate
  <1>15. CASE Write(p)
    <2>1. /\ pc[p] = "write" /\ file' = snap[p] /\ torn' = FALSE
          /\ UNCHANGED <<used, store, bundle, clean>>
      BY <1>15 DEF Write, credVars
    <2>2. clean => Sound' /\ Owned(file)' /\ (Configured(file) \subseteq used)'
      BY <2>1, CleanInvMine, WriteIsSound
    <2>3. CASE End(p)
      BY <2>1, <2>2, <2>3, CleanInvEnds
    <2>4. CASE ~End(p)
      <3>1. /\ pc' = [pc EXCEPT ![p] = "stop"] /\ pc'[p] = "stop"
            /\ UNCHANGED <<job, snap>>
        BY <1>0, <1>15, <2>4 DEF Write, Goto, PCs
      <3>2. clean => Doing(p)'
        BY <2>1, <2>2, <3>1 DEF Doing, KeepsAccounts
      <3>. QED BY <2>1, <2>2, <3>1, <3>2, CleanInvGoesOn DEF PCs
    <2>. QED BY <2>3, <2>4
  <1>16. CASE StopAgent(p)
    <2>1. /\ pc[p] = "stop" /\ End(p)
          /\ UNCHANGED <<file, torn, used, store, bundle, clean>>
      BY <1>16 DEF StopAgent, fileVars, credVars
    <2>. QED BY <1>1, <2>1, CleanInvStops, CleanInvMine, NothingDone
  <1>17. CASE WriteFails(p) \/ Crash(p)
    BY <1>17 DEF WriteFails, Crash, CleanInv
  <1>18. CASE EditDropped(p)
    <2>1. /\ pc[p] = "edit" /\ End(p)
          /\ UNCHANGED <<file, torn, used, store, bundle, clean>>
      BY <1>18 DEF EditDropped, fileVars, credVars
    <2>. QED BY <1>1, <2>1, CleanInvStops, CleanInvMine, NothingDone
  <1>19. CASE Change(p)
    <2>1. /\ pc[p] = "change"
          /\ UNCHANGED <<file, torn, used, store, bundle, clean>>
      BY <1>19 DEF Change, fileVars, credVars
    <2>2. CASE End(p)
      BY <1>1, <2>1, <2>2, CleanInvStops, CleanInvMine, NothingDone
    <2>3. CASE ~End(p)
      <3>1. /\ pc' = [pc EXCEPT ![p] = "update"] /\ pc'[p] = "update"
            /\ i # None /\ job' = [job EXCEPT ![p].pw = master[a] + 1]
            /\ UNCHANGED snap
        BY <1>0, <1>19, <2>3 DEF Change, Goto, PCs
      <3>2. job'[p].cmd = job[p].cmd /\ job'[p].who = a /\ job'[p].id = i
        BY <1>0, <3>1 DEF Types, Jobs
      <3>3. ASSUME clean PROVE Doing(p)'
        <4>1. /\ KeepsAccounts(p) /\ Plain(p)
              /\ job[p].cmd \notin {"enroll", "unenroll", "termux", "untermux"}
          BY <2>1, <3>3, CleanInvMine, DoingAt
        <4>2. KeepsAccounts(p)'
          BY <2>1, <3>1, <3>2, <4>1 DEF KeepsAccounts
        <4>3. Plain(p)'
          BY <1>1, <2>1, <3>1, <3>2, <4>1 DEF Plain, SameDesktop, Changing
        <4>. QED BY <3>1, <3>2, <4>1, <4>2, <4>3 DEF Doing
      <3>. QED BY <2>1, <3>1, <3>3, CleanInvWithin DEF PCs
    <2>. QED BY <2>2, <2>3
  <1>20. CASE Update(p)
    <2>1. /\ pc[p] = "update" /\ End(p)
          /\ UNCHANGED <<file, torn, used, bundle, clean>>
      BY <1>20 DEF Update, fileVars
    <2>2. PICK w : /\ store' = [store EXCEPT ![i] = w]
                   /\ w = job[p].pw \/ w = store[i]
      BY <1>20 DEF Update
    <2>3. ASSUME clean PROVE Sound'
      <3>1. Plain(p)
        BY <2>1, <2>3, CleanInvMine, DoingAt
      <3>2. Sound /\ i \in Configured(file)
        BY <1>0, <2>1, <3>1 DEF Plain, Configured, Types, Changing
      <3>3. i \in Stored
        BY <3>2 DEF Sound
      <3>4. w # Nothing
        BY <1>0, <2>2, <3>3 DEF Stored, Jobs, Passwords, Nothing
      <3>5. Stored' = Stored
        BY <2>2, <3>3, <3>4 DEF Stored, Types
      <3>. QED BY <2>1, <3>2, <3>5 DEF Sound, Configured, Bundled
    <2>. QED BY <2>1, <2>3, CleanInvStops
  <1>. QED BY <1>2, <1>3, <1>4, <1>5, <1>6, <1>7, <1>8, <1>9, <1>10, <1>11, <1>12, <1>13, <1>14, <1>15, <1>16, <1>17, <1>18, <1>19, <1>20 DEF Step

LEMMA CleanInvInit == Init => CleanInv
  <1>. SUFFICES ASSUME Init PROVE CleanInv
    OBVIOUS
  <1>1. PICK A \in SUBSET Accounts, a \in Accounts : file = BareConfig(A, a)
    BY DEF Init
  <1>2. file.termux = {} /\ \A b \in Accounts : file.desktop[b] = None
    BY <1>1 DEF BareConfig
  <1>3. Stored = {} /\ Configured(file) = {}
    BY <1>2 DEF Init, Stored, Configured
  <1>4. Sound /\ Owned(file)
    BY <1>2, <1>3 DEF Sound, Owned, Bundled
  <1>. QED BY <1>3, <1>4 DEF Init, CleanInv

CleanIInv == Types /\ Bundles /\ CleanInv

LEMMA CleanInvInvariant == Spec => []CleanIInv
  <1>1. Init => CleanIInv
    BY InitTyped, CleanInvInit DEF Init, Bundles, Saved, CleanIInv
  <1>2. CleanIInv /\ [Next]_vars => CleanIInv'
    <2>. SUFFICES ASSUME CleanIInv, [Next]_vars PROVE CleanIInv'
      OBVIOUS
    <2>1. Types' /\ Bundles'
      BY NextTyped, BundlesTyped DEF CleanIInv
    <2>2. ASSUME UNCHANGED <<fileVars, credVars, used, procVars, clean>>
          PROVE  CleanInv'
      BY <2>2 DEF CleanIInv, CleanInv, Owned, Configured, Quiet, Sound, Stored, Bundled,
                  Doing, KeepsAccounts, EnrollsDesktop, RemovesDesktop, EnrollsTermux,
                  RemovesTermux, Plain, SameDesktop, fileVars, credVars, procVars
    <2>3. CASE AgentUnlocks \/ ChangedElsewhere \/ UNCHANGED vars
      BY <2>1, <2>2, <2>3 DEF CleanIInv, AgentUnlocks, ChangedElsewhere, vars
    <2>4. ASSUME NEW p \in Procs,
                 Start(p) \/ Step(p) \/ WriteFails(p) \/ Crash(p)
          PROVE  CleanIInv'
      BY <2>1, <2>4, CleanInvStart, CleanInvStep DEF CleanIInv
    <2>. QED BY <2>3, <2>4 DEF Next
  <1>. QED BY <1>1, <1>2, PTL DEF Spec

\* However many commands there were, if they ran one by one and none of them
\* said that it could not clean up, the keyring, the TPM or the broker holds
\* exactly the credentials the file points to, and every configured bundle is
\* there (secret_service_enroll, native_unlock_remove, termux_enroll).
THEOREM NothingIsLeftBehind == Spec => []CredentialsMatchConfig
  <1>1. CleanIInv => CredentialsMatchConfig
    BY DEF CleanIInv, CleanInv, CredentialsMatchConfig, Sound, Stored, Configured, Bundled
  <1>. QED BY <1>1, CleanInvInvariant, PTL

\* An account that a command on its own drops from the file is the one it was
\* asked to remove (account_remove): no other saves a copy without it.
THEOREM OnlyRemovalDrops == Spec => OnlyRemovalForgets
  <1>. DEFINE Drops == \A a \in Accounts :
                         clean /\ a \in file.accounts /\ a \notin file'.accounts
                         => \E p \in Procs : job[p].cmd = "remove" /\ job[p].who = a
  <1>1. ASSUME CleanIInv, [Next]_vars PROVE Drops
    <2>1. ASSUME NEW p \in Procs, Write(p), NEW a \in Accounts,
                 clean, a \in file.accounts, a \notin file'.accounts
          PROVE  job[p].cmd = "remove" /\ job[p].who = a
      <3>1. pc[p] = "write" /\ file' = snap[p]
        BY <2>1 DEF Write
      <3>2. KeepsAccounts(p)
        BY <1>1, <2>1, <3>1, CleanInvMine DEF CleanIInv
      <3>. QED BY <2>1, <3>1, <3>2 DEF KeepsAccounts
    <2>2. ASSUME NEW p \in Procs, Start(p) PROVE UNCHANGED file
      BY <2>2 DEF Start, Begin, Add, Remove, Primary, SetAccount, Set, Edit,
                  Enroll, TermuxEnroll, Unenroll, TermuxRemove, ChangePassword,
                  fileVars
    <2>3. ASSUME NEW p \in Procs,
                 Step(p) \/ WriteFails(p) \/ Crash(p), ~Write(p)
          PROVE  UNCHANGED file
      BY <2>3 DEF Step, EditDone, Prompt, Unlock, Verify, Store, Undo, Delete,
                  Generate, Bundle, Unbundle, DeleteKey, DeleteBundle, Truncate,
                  StopAgent, WriteFails, Crash, EditDropped, Change, Update,
                  fileVars
    <2>4. CASE AgentUnlocks \/ ChangedElsewhere \/ UNCHANGED vars
      BY <2>4 DEF AgentUnlocks, ChangedElsewhere, vars, fileVars
    <2>. QED BY <1>1, <2>1, <2>2, <2>3, <2>4 DEF Next
  <1>. QED BY <1>1, CleanInvInvariant, PTL DEF Spec, OnlyRemovalForgets
-----------------------------------------------------------------------------
(* The passwords in the stores of the desktop. A configured credential is  *)
(* the master password, or the one command that runs is about to replace   *)
(* it or has just deleted it.                                              *)

\* The credential with id i is the password of account a, or known to be old.
Fresh(i, a) == i \in Ids \ outdated => store[i] = master[a]

Busy(p, i) ==
  /\ job[p].id = i
  /\ \/ pc[p] = "update"
     \/ pc[p] \in {"save", "write"} /\ job[p].cmd = "unenroll"

\* What a command that stores a password has, or has stored.
Expects(p) ==
  /\ pc[p] \in {"store", "update"} /\ job[p].id \in Ids \ outdated
       => job[p].pw = master[job[p].who]
  /\ pc[p] \in {"save", "write"} /\ job[p].cmd = "enroll"
       => Fresh(job[p].id, job[p].who)

CurrentInv ==
  clean =>
    /\ \A a \in Accounts : file.desktop[a] # None =>
         Fresh(file.desktop[a], a) \/ \E p \in Procs : Busy(p, file.desktop[a])
    /\ \A p \in Procs : Expects(p)

\* Steps that change no password.
LEMMA CurrentStays ==
  ASSUME CurrentInv, CleanInv, Types, NEW p \in Procs, pc[p] # "idle",
         UNCHANGED <<file, store, master, outdated>>, clean' => clean,
         \A q \in Procs \ {p} : pc'[q] = pc[q] /\ job'[q] = job[q],
         clean' => Expects(p)',
         clean' => \A i : Busy(p, i) => Busy(p, i)'
  PROVE  CurrentInv'
  <1>. SUFFICES ASSUME clean' PROVE CurrentInv'
    BY DEF CurrentInv
  <1>1. \A q \in Procs \ {p} : Expects(q)'
    BY DEF CurrentInv, Expects, Fresh
  <1>2. ASSUME NEW a \in Accounts, file.desktop[a] # None
        PROVE  \/ Fresh(file.desktop[a], a)'
               \/ \E q \in Procs : Busy(q, file.desktop[a])'
    <2>1. CASE Fresh(file.desktop[a], a)
      BY <2>1 DEF Fresh
    <2>2. ASSUME NEW q \in Procs, Busy(q, file.desktop[a])
          PROVE  Busy(q, file.desktop[a])'
      BY <2>2 DEF Busy
    <2>. QED BY <1>2, <2>1, <2>2 DEF CurrentInv
  <1>. QED BY <1>1, <1>2 DEF CurrentInv

\* A command that ends without having been busy.
LEMMA CurrentEnds ==
  ASSUME CurrentInv, CleanInv, Types, NEW p \in Procs, pc[p] # "idle", End(p),
         UNCHANGED <<file, store, master, outdated>>, clean' => clean,
         clean' => \A i : ~Busy(p, i)
  PROVE  CurrentInv'
  <1>1. /\ pc'[p] = "idle"
        /\ \A q \in Procs \ {p} : pc'[q] = pc[q] /\ job'[q] = job[q]
    BY DEF End, Goto, Types
  <1>2. Expects(p)'
    BY <1>1 DEF Expects
  <1>. QED BY <1>1, <1>2, CurrentStays

\* A command that goes on to a step that promises nothing.
LEMMA CurrentGoesOn ==
  ASSUME CurrentInv, CleanInv, Types, NEW p \in Procs, pc[p] # "idle",
         NEW s \in PCs, pc' = [pc EXCEPT ![p] = s],
         UNCHANGED <<file, store, master, outdated>>, clean' => clean,
         \A q \in Procs \ {p} : job'[q] = job[q],
         clean' => /\ \A i : ~Busy(p, i)
                   /\ s \notin {"store", "update"}
                   /\ s \in {"save", "write"} => job'[p].cmd # "enroll"
  PROVE  CurrentInv'
  <1>1. /\ pc'[p] = s
        /\ \A q \in Procs \ {p} : pc'[q] = pc[q]
    BY DEF Types
  <1>2. clean' => Expects(p)'
    BY <1>1 DEF Expects
  <1>. QED BY <1>1, <1>2, CurrentStays

LEMMA CurrentBegins ==
  ASSUME CurrentInv, Types, NEW p \in Procs, NEW c, NEW a, NEW i, NEW stops,
         NEW next \in PCs, Begin(p, c, a, i, stops, next),
         next \notin {"store", "update", "write"}, next = "save" => c # "enroll"
  PROVE  CurrentInv'
  <1>. SUFFICES ASSUME clean' PROVE CurrentInv'
    BY DEF CurrentInv
  <1>1. /\ clean /\ \A q \in Procs : pc[q] = "idle"
        /\ UNCHANGED <<file, store, master, outdated>>
        /\ pc'[p] = next /\ job'[p].cmd = c
        /\ \A q \in Procs \ {p} : pc'[q] = "idle"
    BY DEF Begin, Goto, Types, fileVars, credVars, pwVars
  <1>2. \A b \in Accounts : file.desktop[b] # None => Fresh(file.desktop[b], b)
    BY <1>1 DEF CurrentInv, Busy
  <1>3. \A q \in Procs : Expects(q)'
    BY <1>1 DEF Expects
  <1>. QED BY <1>1, <1>2, <1>3 DEF CurrentInv, Fresh

LEMMA CurrentStart ==
  ASSUME CurrentInv, Types, NEW p \in Procs, Start(p)
  PROVE  CurrentInv'
  <1>1. CASE Add(p)
    BY <1>1, CurrentBegins DEF Add, PCs
  <1>2. CASE Remove(p)
    BY <1>2, CurrentBegins DEF Remove, PCs
  <1>3. CASE Primary(p)
    BY <1>3, CurrentBegins DEF Primary, PCs
  <1>4. CASE SetAccount(p)
    BY <1>4, CurrentBegins DEF SetAccount, PCs
  <1>5. CASE Set(p)
    BY <1>5, CurrentBegins DEF Set, PCs
  <1>6. CASE Edit(p)
    BY <1>6, CurrentBegins DEF Edit, PCs
  <1>7. CASE Enroll(p)
    BY <1>7, CurrentBegins DEF Enroll, PCs
  <1>8. CASE TermuxEnroll(p)
    BY <1>8, CurrentBegins DEF TermuxEnroll, PCs
  <1>9. CASE Unenroll(p)
    BY <1>9, CurrentBegins DEF Unenroll, PCs
  <1>10. CASE TermuxRemove(p)
    BY <1>10, CurrentBegins DEF TermuxRemove, PCs
  <1>11. CASE ChangePassword(p)
    BY <1>11, CurrentBegins DEF ChangePassword, PCs
  <1>. QED BY <1>1, <1>2, <1>3, <1>4, <1>5, <1>6, <1>7, <1>8, <1>9, <1>10, <1>11 DEF Start

LEMMA CurrentStep ==
  ASSUME CurrentInv, CleanInv, Types, NEW p \in Procs,
         Step(p) \/ WriteFails(p) \/ Crash(p)
  PROVE  CurrentInv'
  <1>. DEFINE a == job[p].who
              i == job[p].id
  <1>0. /\ job[p] \in Jobs /\ snap[p] \in Configs
        /\ i # None => i \in Ids
        /\ \A s \in PCs : pc' = [pc EXCEPT ![p] = s] => pc'[p] = s
    BY DEF Types, Jobs
  <1>1. clean => \A j : /\ pc[p] \notin {"update", "save", "write"} => ~Busy(p, j)
                        /\ job[p].cmd # "unenroll" /\ pc[p] # "update" => ~Busy(p, j)
    BY DEF Busy
  <1>2. CASE EditDone(p)
    <2>1. /\ pc[p] = "edit" /\ pc' = [pc EXCEPT ![p] = "save"]
          /\ UNCHANGED <<file, store, master, outdated, job>>
          /\ clean' => clean
      BY <1>2 DEF EditDone, Goto, fileVars, credVars, pwVars, Types
    <2>2. ASSUME clean PROVE job[p].cmd # "enroll"
      <3>1. Doing(p)
        BY <2>1, <2>2, CleanInvMine
      <3>. QED BY <2>1, <3>1, DoingAt
    <2>3. clean' => \A j : ~Busy(p, j)
      BY <1>1, <2>1
    <2>. QED BY <2>1, <2>2, <2>3, CurrentGoesOn DEF PCs
  <1>3. CASE Prompt(p)
    <2>1. /\ pc[p] = "prompt" /\ pc' = [pc EXCEPT ![p] = "unlock"]
          /\ UNCHANGED <<file, store, master, outdated, clean>>
          /\ \A q \in Procs \ {p} : job'[q] = job[q]
      BY <1>3 DEF Prompt, Goto, fileVars, credVars, pwVars, Types
    <2>. QED BY <1>1, <2>1, CurrentGoesOn DEF PCs
  <1>4. CASE Unlock(p)
    <2>1. /\ pc[p] = "unlock" /\ UNCHANGED <<file, store, master, outdated, clean>>
      BY <1>4 DEF Unlock, fileVars, credVars, pwVars
    <2>2. CASE End(p)
      BY <1>1, <2>1, <2>2, CurrentEnds
    <2>3. CASE ~End(p)
      BY <1>1, <1>4, <2>1, <2>3, CurrentGoesOn DEF Unlock, Goto, PCs
    <2>. QED BY <2>2, <2>3
  <1>5. CASE Verify(p)
    <2>1. /\ pc[p] = "verify" /\ UNCHANGED <<file, store, master, outdated, clean>>
      BY <1>5 DEF Verify, fileVars, credVars, pwVars
    <2>2. CASE End(p)
      BY <1>1, <2>1, <2>2, CurrentEnds
    <2>3. CASE ~End(p)
      <3>1. /\ pc' = [pc EXCEPT ![p] = "store"] /\ job' = job
            /\ job[p].pw = master[a]
        BY <1>5, <2>3 DEF Verify, Goto
      <3>2. pc'[p] = "store" /\ \A q \in Procs \ {p} : pc'[q] = pc[q]
        BY <3>1 DEF Types
      <3>3. Expects(p)'
        BY <2>1, <3>1, <3>2 DEF Expects
      <3>. QED BY <1>1, <2>1, <3>1, <3>2, <3>3, CurrentStays
    <2>. QED BY <2>2, <2>3
  <1>6. CASE Store(p)
    <2>1. /\ pc[p] = "store" /\ UNCHANGED <<file, master, outdated, job, clean>>
          /\ pc'[p] \in {"save", "undo"}
          /\ \A q \in Procs \ {p} : pc'[q] = pc[q]
          /\ \A j \in Ids \ {i} : store'[j] = store[j]
          /\ pc'[p] = "save" /\ i \in Ids => store'[i] = job[p].pw
      BY <1>0, <1>6 DEF Store, Goto, fileVars, pwVars, Types, PCs
    <2>. SUFFICES ASSUME clean' PROVE CurrentInv'
      BY DEF CurrentInv
    <2>2. job[p].cmd = "enroll" /\ i \in Ids \ Configured(file)
      BY <2>1, CleanInvMine, DoingAt DEF EnrollsDesktop
    <2>3. \A q \in Procs : Expects(q)'
      <3>1. Expects(p)'
        BY <2>1, <2>2 DEF CurrentInv, Expects, Fresh
      <3>2. \A q \in Procs \ {p} : pc'[q] = "idle"
        BY <2>1 DEF CleanInv
      <3>. QED BY <3>1, <3>2 DEF Expects
    <2>4. ASSUME NEW b \in Accounts, file.desktop[b] # None
          PROVE  Fresh(file.desktop[b], b)'
      <3>1. Fresh(file.desktop[b], b)
        BY <2>1, <2>4 DEF CurrentInv, CleanInv, Busy
      <3>2. file.desktop[b] # i
        BY <2>2, <2>4 DEF Configured
      <3>. QED BY <2>1, <3>1, <3>2 DEF Fresh
    <2>. QED BY <2>1, <2>3, <2>4 DEF CurrentInv
  <1>7. CASE Undo(p) \/ Delete(p)
    <2>1. /\ pc[p] \in {"undo", "delete"} /\ UNCHANGED <<file, master, outdated>>
          /\ clean' => clean
          /\ \A j \in Ids \ {i} : store'[j] = store[j]
          /\ \A q \in Procs \ {p} : pc'[q] = pc[q] /\ job'[q] = job[q]
          /\ pc[p] = "undo" => End(p)
          /\ pc[p] = "delete" => \/ End(p) /\ UNCHANGED store
                                 \/ pc'[p] = "save" /\ UNCHANGED job
      BY <1>0, <1>7 DEF Undo, Delete, End, Goto, fileVars, pwVars, Types, PCs
    <2>. SUFFICES ASSUME clean' PROVE CurrentInv'
      BY DEF CurrentInv
    <2>2. \/ /\ pc[p] = "undo" /\ i \notin Configured(file)
          \/ /\ pc[p] = "delete" /\ job[p].cmd = "unenroll"
      BY <2>1, CleanInvMine, DoingAt DEF EnrollsDesktop
    <2>3. \A q \in Procs : Expects(q)'
      <3>1. \A q \in Procs \ {p} : pc'[q] = "idle"
        BY <2>1 DEF CleanInv
      <3>2. pc'[p] \in {"idle", "save"} /\ (pc'[p] = "save" => job'[p].cmd # "enroll")
        BY <2>1, <2>2 DEF End, Goto, Types
      <3>. QED BY <3>1, <3>2 DEF Expects
    <2>4. ASSUME NEW b \in Accounts, file.desktop[b] # None
          PROVE  Fresh(file.desktop[b], b)' \/ Busy(p, file.desktop[b])'
      <3>1. Fresh(file.desktop[b], b)
        BY <2>1, <2>4 DEF CurrentInv, CleanInv, Busy
      <3>2. CASE file.desktop[b] = i
        <4>1. pc[p] = "delete"
          BY <2>2, <2>4, <3>2 DEF Configured
        <4>. QED BY <2>1, <2>2, <3>1, <3>2, <4>1 DEF Busy, Fresh
      <3>3. CASE file.desktop[b] # i
        BY <2>1, <3>1, <3>3 DEF Fresh
      <3>. QED BY <3>2, <3>3
    <2>. QED BY <2>1, <2>3, <2>4 DEF CurrentInv
  <1>8. CASE Generate(p) \/ Bundle(p) \/ Unbundle(p) \/ DeleteKey(p) \/ DeleteBundle(p)
    <2>1. /\ pc[p] \in {"generate", "bundle", "unbundle", "delkey", "delbundle"}
          /\ UNCHANGED <<file, store, master, outdated>>
          /\ clean' => clean
      BY <1>8 DEF Generate, Bundle, Unbundle, DeleteKey, DeleteBundle, fileVars, pwVars,
                  Types
    <2>0. clean' => \A j : ~Busy(p, j)
      BY <1>1, <2>1
    <2>2. CASE End(p)
      BY <2>0, <2>1, <2>2, CurrentEnds
    <2>3. CASE ~End(p)
      <3>1. \E s \in {"bundle", "save", "delbundle"} : pc' = [pc EXCEPT ![p] = s]
        BY <1>8, <2>3 DEF Generate, Bundle, Unbundle, DeleteKey, DeleteBundle, Goto
      <3>2. /\ \A q \in Procs \ {p} : job'[q] = job[q]
            /\ job'[p].cmd = job[p].cmd
        BY <1>0, <1>8, <2>3
           DEF Generate, Bundle, Unbundle, DeleteKey, DeleteBundle, Types, Jobs
      <3>3. ASSUME clean PROVE job[p].cmd # "enroll"
        <4>1. Doing(p)
          BY <2>1, <3>3, CleanInvMine
        <4>. QED BY <2>1, <4>1, DoingAt
      <3>. QED BY <2>0, <2>1, <3>1, <3>2, <3>3, CurrentGoesOn DEF PCs
    <2>. QED BY <2>2, <2>3
  <1>9. CASE Truncate(p)
    <2>1. /\ pc[p] = "save" /\ UNCHANGED <<file, store, master, outdated>>
          /\ clean' => clean
      <3>1. /\ pc[p] = "save" /\ UNCHANGED <<file, store, master, outdated>>
        BY <1>9 DEF Truncate, credVars, pwVars
      <3>2. clean' => clean
        BY ONLY <1>9 DEF Truncate
      <3>. QED BY <3>1, <3>2
    <2>2. CASE End(p)
      <3>1. clean' => job[p].cmd # "unenroll"
        BY <1>9, <2>1, <2>2 DEF Truncate, Goto, End, Types
      <3>. QED BY <1>1, <2>1, <2>2, <3>1, CurrentEnds
    <2>3. CASE ~End(p)
      <3>1. \E s \in {"write", "undo", "unbundle"} :
              /\ pc' = [pc EXCEPT ![p] = s] /\ job' = job
              /\ s # "write" => job[p].cmd \in {"enroll", "termux"}
        BY <1>9, <2>3 DEF Truncate, Rollback, Goto
      <3>2. \A q \in Procs \ {p} : pc'[q] = pc[q] /\ job'[q] = job[q]
        BY <3>1 DEF Types
      <3>3. clean' => Expects(p)'
        BY <2>1, <3>1 DEF CurrentInv, Expects, Fresh, Types
      <3>4. \A j : Busy(p, j) => Busy(p, j)'
        BY <2>1, <3>1 DEF Busy, Types
      <3>. QED BY <2>1, <3>2, <3>3, <3>4, CurrentStays
    <2>. QED BY <2>2, <2>3
  <1>10. CASE Write(p)
    <2>1. /\ pc[p] = "write" /\ UNCHANGED <<store, master, outdated, clean>>
          /\ file' = snap[p] /\ pc'[p] \in {"stop", "idle"}
          /\ \A q \in Procs \ {p} : pc'[q] = pc[q]
      BY <1>0, <1>10 DEF Write, End, Goto, credVars, pwVars, Types, PCs
    <2>. SUFFICES ASSUME clean' PROVE CurrentInv'
      BY DEF CurrentInv
    <2>2. \A q \in Procs : Expects(q)'
      <3>1. \A q \in Procs \ {p} : pc'[q] = "idle"
        BY <2>1 DEF CleanInv
      <3>. QED BY <2>1, <3>1 DEF Expects
    <2>3. ASSUME NEW b \in Accounts, snap[p].desktop[b] # None
          PROVE  Fresh(snap[p].desktop[b], b)
      <3>1. \/ job[p].cmd = "enroll" /\ EnrollsDesktop(p)
            \/ job[p].cmd = "unenroll" /\ RemovesDesktop(p)
            \/ job[p].cmd # "unenroll" /\ SameDesktop(p)
        BY <2>1, CleanInvMine, DoingAt DEF EnrollsTermux, RemovesTermux, Plain
      <3>2. CASE job[p].cmd = "enroll" /\ EnrollsDesktop(p) /\ b = a
        BY <2>1, <2>3, <3>2 DEF EnrollsDesktop, CurrentInv, Expects
      <3>3. CASE snap[p].desktop[b] = file.desktop[b] /\ ~Busy(p, file.desktop[b])
        BY <2>1, <2>3, <3>3 DEF CurrentInv, CleanInv, Busy
      <3>4. CASE job[p].cmd = "unenroll" /\ RemovesDesktop(p)
        <4>1. b # a /\ snap[p].desktop[b] = file.desktop[b]
          BY <2>3, <3>4 DEF RemovesDesktop
        <4>2. file.desktop[a] = i /\ a \in Accounts /\ Owned(file)
          BY <2>1, <3>4, CleanInvMine DEF RemovesDesktop
        <4>3. ~Busy(p, file.desktop[b])
          BY <2>3, <4>1, <4>2 DEF Busy, Owned
        <4>. QED BY <3>3, <4>1, <4>3
      <3>5. CASE job[p].cmd = "enroll" /\ EnrollsDesktop(p) /\ b # a
        <4>1. snap[p].desktop[b] = file.desktop[b]
          BY <2>1, <3>5 DEF EnrollsDesktop
        <4>. QED BY <1>1, <2>1, <3>3, <3>5, <4>1
      <3>6. CASE job[p].cmd # "unenroll" /\ SameDesktop(p)
        BY <1>1, <2>1, <3>3, <3>6 DEF SameDesktop
      <3>. QED BY <3>1, <3>2, <3>4, <3>5, <3>6
    <2>. QED BY <2>1, <2>2, <2>3 DEF CurrentInv, Fresh
  <1>11. CASE StopAgent(p) \/ EditDropped(p)
    BY <1>1, <1>11, CurrentEnds DEF StopAgent, EditDropped, fileVars, credVars, pwVars
  <1>12. CASE Change(p)
    <2>1. /\ pc[p] = "change" /\ UNCHANGED <<file, store, outdated, clean>>
      BY <1>12 DEF Change, fileVars, credVars
    <2>2. CASE UNCHANGED master /\ End(p)
      BY <1>1, <2>1, <2>2, CurrentEnds
    <2>3. CASE /\ master' = [master EXCEPT ![a] = @ + 1]
               /\ \/ i = None /\ End(p)
                  \/ /\ job' = [job EXCEPT ![p].pw = master[a] + 1]
                     /\ Goto(p, "update")
      <3>. SUFFICES ASSUME clean' PROVE CurrentInv'
        BY DEF CurrentInv
      <3>1. Plain(p) /\ i = file.desktop[a] /\ a \in Accounts
        BY <2>1, CleanInvMine, DoingAt DEF Plain, Changing, Types
      <3>2. /\ master'[a] = master[a] + 1
            /\ \A b \in Accounts \ {a} : master'[b] = master[b]
        BY <2>3, <3>1 DEF Types
      <3>3. \A q \in Procs \ {p} : pc'[q] = "idle"
        BY <2>1, <2>3 DEF CleanInv, End, Goto, Types
      <3>4. ASSUME NEW b \in Accounts \ {a}, file.desktop[b] # None
            PROVE  Fresh(file.desktop[b], b)'
        <4>1. Fresh(file.desktop[b], b)
          BY <2>1, <3>4 DEF CurrentInv, CleanInv, Busy
        <4>. QED BY <2>1, <3>2, <4>1 DEF Fresh
      <3>5. CASE i = None /\ End(p)
        <4>1. pc'[p] = "idle"
          BY <3>5 DEF End, Goto, Types
        <4>2. \A q \in Procs : Expects(q)'
          BY <3>3, <4>1 DEF Expects
        <4>. QED BY <2>1, <3>1, <3>4, <3>5, <4>2 DEF CurrentInv
      <3>6. CASE /\ job' = [job EXCEPT ![p].pw = master[a] + 1]
                 /\ Goto(p, "update")
        <4>1. /\ pc'[p] = "update" /\ job'[p].pw = master'[a]
              /\ job'[p].who = a /\ job'[p].id = i
          BY <1>0, <3>2, <3>6 DEF Goto, Types, Jobs
        <4>2. Expects(p)' /\ Busy(p, i)'
          BY <4>1 DEF Expects, Busy
        <4>3. \A q \in Procs : Expects(q)'
          BY <3>3, <4>2 DEF Expects
        <4>4. ASSUME NEW b \in Accounts, file.desktop[b] # None
              PROVE  Fresh(file.desktop[b], b)' \/ Busy(p, file.desktop[b])'
          <5>1. CASE b = a
            BY <2>1, <3>1, <4>1, <5>1 DEF Busy
          <5>2. CASE b # a
            BY <3>4, <4>4, <5>2
          <5>. QED BY <5>1, <5>2
        <4>. QED BY <2>1, <4>3, <4>4 DEF CurrentInv
      <3>. QED BY <2>3, <3>5, <3>6
    <2>. QED BY <1>12, <2>2, <2>3 DEF Change
  <1>13. CASE Update(p)
    <2>1. /\ pc[p] = "update" /\ pc'[p] = "idle" /\ UNCHANGED <<file, master, clean>>
          /\ outdated \subseteq outdated'
          /\ \A j \in Ids \ {i} : store'[j] = store[j]
          /\ i \in Ids \ outdated' => store'[i] = job[p].pw
          /\ \A q \in Procs \ {p} : pc'[q] = pc[q]
      BY <1>13 DEF Update, End, Goto, fileVars, Types
    <2>. SUFFICES ASSUME clean' PROVE CurrentInv'
      BY DEF CurrentInv
    <2>2. \A q \in Procs : Expects(q)'
      <3>1. \A q \in Procs \ {p} : pc'[q] = "idle"
        BY <2>1 DEF CleanInv
      <3>. QED BY <2>1, <3>1 DEF Expects
    <2>3. /\ i = file.desktop[a] /\ a \in Accounts /\ i # None /\ Owned(file)
      BY <2>1, CleanInvMine, DoingAt DEF Plain, Changing, Types
    <2>4. ASSUME NEW b \in Accounts, file.desktop[b] # None
          PROVE  Fresh(file.desktop[b], b)'
      <3>1. CASE b = a
        BY <2>1, <2>3, <3>1 DEF CurrentInv, Expects, Fresh
      <3>2. CASE b # a
        <4>1. file.desktop[b] # i
          BY <2>3, <2>4, <3>2 DEF Owned
        <4>2. Fresh(file.desktop[b], b)
          BY <2>1, <2>4, <4>1 DEF CurrentInv, CleanInv, Busy
        <4>. QED BY <2>1, <4>1, <4>2 DEF Fresh
      <3>. QED BY <3>1, <3>2
    <2>. QED BY <2>1, <2>2, <2>4 DEF CurrentInv
  <1>14. CASE WriteFails(p) \/ Crash(p)
    BY <1>14 DEF WriteFails, Crash, CurrentInv
  <1>. QED BY <1>2, <1>3, <1>4, <1>5, <1>6, <1>7, <1>8, <1>9, <1>10, <1>11, <1>12, <1>13, <1>14 DEF Step

\* A change made elsewhere is known to leave every credential of the account,
\* and every enrolment of it, with an old password.
LEMMA CurrentElsewhere ==
  ASSUME CurrentInv, Types, ChangedElsewhere
  PROVE  CurrentInv'
  <1>1. PICK a \in file.accounts :
          /\ master' = [master EXCEPT ![a] = @ + 1]
          /\ outdated' = outdated \union {file.desktop[a]} \union
                           {job[p].id : p \in {q \in Procs : job[q].who = a}}
          /\ UNCHANGED <<file, store, pc, job, clean>>
    BY DEF ChangedElsewhere, fileVars, credVars, procVars
  <1>2. \A x : x # a => master'[x] = master[x]
    BY <1>1 DEF Types
  <1>3. \A p \in Procs : Expects(p) => Expects(p)'
    BY <1>1, <1>2 DEF Expects, Fresh
  <1>4. \A b \in Accounts : Fresh(file.desktop[b], b) => Fresh(file.desktop[b], b)'
    BY <1>1, <1>2 DEF Fresh
  <1>5. \A p \in Procs : \A j : Busy(p, j)' = Busy(p, j)
    BY <1>1 DEF Busy
  <1>. QED BY <1>1, <1>3, <1>4, <1>5 DEF CurrentInv

LEMMA CurrentInvariant == Spec => []CurrentInv
  <1>1. Init => CurrentInv
    <2>. SUFFICES ASSUME Init PROVE CurrentInv
      OBVIOUS
    <2>1. \A a \in Accounts : file.desktop[a] = None
      BY DEF Init, BareConfig
    <2>2. \A p \in Procs : Expects(p)
      BY DEF Init, Expects
    <2>. QED BY <2>1, <2>2 DEF CurrentInv
  <1>2. CleanIInv /\ CurrentInv /\ [Next]_vars => CurrentInv'
    <2>. SUFFICES ASSUME CleanIInv, CurrentInv, [Next]_vars PROVE CurrentInv'
      OBVIOUS
    <2>1. ASSUME UNCHANGED <<file, store, master, outdated, pc, job, clean>>
          PROVE  CurrentInv'
      BY <2>1 DEF CurrentInv, Fresh, Busy, Expects
    <2>2. CASE AgentUnlocks \/ UNCHANGED vars
      BY <2>1, <2>2 DEF AgentUnlocks, vars, fileVars, credVars, pwVars, procVars
    <2>. QED BY <2>2, CurrentStart, CurrentStep, CurrentElsewhere DEF CleanIInv, Next
  <1>. QED BY <1>1, <1>2, CleanInvInvariant, PTL DEF Spec

\* A mistyped master password is never left in the keyring, the TPM or the
\* broker (secret_service_enroll), also if the agent has acknowledged it. And
\* after commands that ran one by one, changes of the master password among
\* them (security_change_password), a configured credential is out of date
\* only if the password changed elsewhere or its update failed.
THEOREM DesktopVerified == Spec => []DesktopCredentialsWork
  <1>1. WorkInv /\ CurrentInv => DesktopCredentialsWork
    <2>. SUFFICES ASSUME WorkInv, CurrentInv PROVE DesktopCredentialsWork
      OBVIOUS
    <2>1. \A i \in Ids : store[i] # Mistyped
      BY DEF WorkInv
    <2>2. ASSUME clean, Quiet, NEW a \in Accounts, file.desktop[a] \in Ids
          PROVE  Fresh(file.desktop[a], a)
      <3>1. file.desktop[a] # None
        BY <2>2, NoneAssumption
      <3>2. \A p \in Procs : ~Busy(p, file.desktop[a])
        BY <2>2 DEF Quiet, Busy
      <3>. QED BY <2>2, <3>1, <3>2 DEF CurrentInv
    <2>. QED BY <2>1, <2>2 DEF DesktopCredentialsWork, Fresh
  <1>. QED BY <1>1, WorkInvInvariant, CurrentInvariant, PTL
=============================================================================
