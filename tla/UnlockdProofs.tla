--------------------------- MODULE UnlockdProofs ---------------------------
(***************************************************************************)
(* Proofs about Unlockd, for any connections and passwords.                *)
(*                                                                         *)
(* A connection that changes the files alone knows what it has left in     *)
(* them so far, nobody else has come in between, and while anybody changes *)
(* them nothing is promised.                                               *)
(***************************************************************************)
EXTENDS Unlockd, FiniteSetTheorems, TLAPS

Shapes ==
  /\ tpm2 \in Content /\ file \in Content
  /\ pc \in [Conns -> PCs]
  /\ op \in [Conns -> Ops]
  /\ store \in [Conns -> Stores]
  /\ secret \in [Conns -> Passwords]
  /\ acked \in Content \union {Unknown}
  /\ alone \in [Conns -> BOOLEAN]

Unpromised == \A c \in Conns : pc[c] \in Changing => acked = Unknown

Alone(c) ==
  alone[c] /\ pc[c] \in Changing =>
    /\ \A d \in Conns : d # c => pc[d] \notin Changing
    /\ pc[c] = "other" => Held(store[c]) = secret[c]
    /\ pc[c] = "remove" => tpm2 = Nothing

Removing == \A c \in Conns : pc[c] = "remove" => op[c] = "remove"

FilesInv ==
  /\ Shapes
  /\ Unpromised
  /\ Removing
  /\ \A c \in Conns : Alone(c)
  /\ AckedIsServed
-----------------------------------------------------------------------------
LEMMA AnyPasswordIsOne == AnyPassword \in Passwords
  BY ValueAssumption DEF AnyPassword

LEMMA FilesInvInit == Init => FilesInv
  BY AnyPasswordIsOne
     DEF Init, FilesInv, Shapes, Content, PCs, Ops, Stores, Unpromised, Alone,
         Removing, Changing, AckedIsServed, Find

\* A step of c that leaves the files alone and ends outside of a change.
Aside(c) ==
  /\ UNCHANGED <<files, history>>
  /\ \E p \in PCs \ Changing : pc' = [pc EXCEPT ![c] = p]
  /\ op' \in [Conns -> Ops]
  /\ store' \in [Conns -> Stores]
  /\ secret' \in [Conns -> Passwords]
  /\ \A d \in Conns \ {c} :
       op'[d] = op[d] /\ store'[d] = store[d] /\ secret'[d] = secret[d]

LEMMA AsidePreserves ==
  ASSUME FilesInv, NEW c \in Conns, Aside(c)
  PROVE  FilesInv'
  <1>. USE DEF FilesInv, Aside, files, history
  <1>1. pc'[c] \notin Changing /\ \A d \in Conns \ {c} : pc'[d] = pc[d]
    BY DEF Shapes
  <1>2. Shapes'
    BY DEF Shapes
  <1>3. Unpromised' /\ AckedIsServed'
    BY <1>1 DEF Unpromised, AckedIsServed, Find
  <1>4. Removing'
    BY <1>1 DEF Removing, Changing
  <1>5. ASSUME NEW d \in Conns PROVE Alone(d)'
    <2>1. CASE d = c
      BY <1>1, <2>1 DEF Alone
    <2>2. CASE d # c
      BY <1>1, <2>2 DEF Alone, Held
    <2>. QED BY <2>1, <2>2
  <1>. QED BY <1>2, <1>3, <1>4, <1>5

\* A step of c that begins or breaks off a change.
LEMMA DisturbPreserves ==
  ASSUME FilesInv, NEW c \in Conns, Disturb(c),
         NEW p \in PCs, pc' = [pc EXCEPT ![c] = p],
         tpm2' \in Content, file' \in Content, UNCHANGED <<op, store, secret>>,
         p = "other" => Held(store[c])' = secret[c],
         p = "remove" => tpm2' = Nothing /\ op[c] = "remove"
  PROVE  FilesInv'
  <1>. USE DEF FilesInv
  <1>1. pc'[c] = p /\ \A d \in Conns \ {c} : pc'[d] = pc[d]
    BY DEF Shapes
  <1>2. alone' = [d \in Conns |->
                   d = c /\ \A e \in Conns \ {c} : pc[e] \notin Changing]
    BY DEF Disturb
  <1>3. acked' = Unknown
    BY DEF Disturb
  <1>4. Shapes'
    <2>1. alone' \in [Conns -> BOOLEAN]
      BY <1>2
    <2>. QED BY <1>3, <2>1 DEF Shapes
  <1>5. Unpromised' /\ AckedIsServed'
    BY <1>3 DEF Unpromised, AckedIsServed
  <1>6. Removing'
    BY <1>1 DEF Removing
  <1>7. ASSUME NEW d \in Conns PROVE Alone(d)'
    <2>1. CASE d # c
      BY <1>2, <2>1 DEF Alone
    <2>2. CASE d = c
      <3>1. alone'[c] => \A e \in Conns \ {c} : pc'[e] \notin Changing
        BY <1>1, <1>2
      <3>. QED BY <1>1, <2>2, <3>1 DEF Alone, Held
    <2>. QED BY <2>1, <2>2
  <1>. QED BY <1>4, <1>5, <1>6, <1>7

\* A step of c that ends a change and promises what the files hold now.
LEMMA PromisePreserves ==
  ASSUME FilesInv, NEW c \in Conns, pc[c] \in Changing,
         NEW content \in Content, Promise(c, content),
         pc' = [pc EXCEPT ![c] = "reply"],
         tpm2' \in Content, file' \in Content, UNCHANGED <<op, store, secret>>,
         alone[c] => Find' = content
  PROVE  FilesInv'
  <1>. USE DEF FilesInv
  <1>1. pc'[c] = "reply" /\ \A d \in Conns \ {c} : pc'[d] = pc[d]
    BY DEF Shapes
  <1>2. alone'[c] = FALSE /\ \A d \in Conns \ {c} : alone'[d] = alone[d]
    BY DEF Promise, Shapes
  <1>3. "reply" \notin Changing /\ "reply" \in PCs
    BY DEF Changing, PCs
  <1>4. acked = Unknown /\ acked' = IF alone[c] THEN content ELSE acked
    BY DEF Promise, Unpromised
  <1>5. \A d \in Conns : d # c /\ pc[d] \in Changing => ~alone[c] /\ ~alone[d]
    BY DEF Alone, Shapes
  <1>6. Shapes'
    BY <1>3, <1>4 DEF Shapes, Promise
  <1>7. Unpromised'
    BY <1>1, <1>3, <1>4, <1>5 DEF Unpromised
  <1>8. AckedIsServed'
    BY <1>4 DEF AckedIsServed
  <1>9. Removing'
    BY <1>1 DEF Removing
  <1>10. ASSUME NEW d \in Conns PROVE Alone(d)'
    BY <1>1, <1>2, <1>3, <1>5 DEF Alone
  <1>. QED BY <1>6, <1>7, <1>8, <1>9, <1>10
-----------------------------------------------------------------------------
LEMMA Contents ==
  /\ Nothing \in Content
  /\ \A p \in Passwords : p \in Content /\ p # Nothing /\ p # Unknown
  /\ Nothing # Unknown
  BY ValueAssumption DEF Content

LEMMA FilesInvStep == FilesInv /\ [Next]_vars => FilesInv'
  <1>. SUFFICES ASSUME FilesInv, [Next]_vars PROVE FilesInv'
    OBVIOUS
  <1>. USE DEF Goto
  <1>0. /\ Shapes
        /\ PCs \ Changing = {"idle", "begin", "claim", "verify", "cleanup",
                             "record", "write", "read", "reply"}
        /\ Changing \subseteq PCs
    BY DEF FilesInv, PCs, Changing
  <1>1. CASE Elapse
    BY <1>1 DEF Elapse, FilesInv, Shapes, Unpromised, Removing, Alone, Held,
                AckedIsServed, Find, files, connVars, history
  <1>2. CASE Restart
    BY <1>2, AnyPasswordIsOne
       DEF Restart, FilesInv, Shapes, Unpromised, Removing, Alone, Changing,
           AckedIsServed, Find, files, history, PCs, Ops, Stores
  <1>3. ASSUME NEW c \in Conns, Accept(c) PROVE FilesInv'
    <2>1. PICK o \in Ops : op' = [op EXCEPT ![c] = o]
      BY <1>3 DEF Accept
    <2>2. PICK s \in Stores, p \in Passwords :
            /\ store' = [store EXCEPT ![c] = s]
            /\ secret' = [secret EXCEPT ![c] = p]
      BY <1>3 DEF Accept
    <2>3. Aside(c)
      BY <1>0, <1>3, <2>1, <2>2 DEF Accept, Aside, Shapes
    <2>. QED BY <2>3, AsidePreserves
  <1>4. ASSUME NEW c \in Conns, Status(c) \/ ScanStep(c) \/ WriteFails(c)
                                \/ Read(c) \/ RemoveFails(c)
        PROVE  FilesInv'
    <2>1. /\ UNCHANGED <<files, history, op, store, secret>>
          /\ \E p \in PCs \ Changing : pc' = [pc EXCEPT ![c] = p]
      <3>1. CASE Status(c) \/ WriteFails(c) \/ Read(c) \/ RemoveFails(c)
        BY <1>0, <3>1 DEF Status, WriteFails, Read, RemoveFails, files, history
      <3>2. CASE ClaimFails(c) \/ Claim(c) \/ Match(c) \/ Interrupt(c)
                 \/ Cleanup(c)
        BY <1>0, <3>2
           DEF ClaimFails, Claim, Match, Interrupt, Cleanup, files, history
      <3>3. CASE NoMatch(c)
        <4>1. CASE attempt[c] < 2
          <5>1. pc[c] = "verify" /\ pc' = pc
            BY <3>3, <4>1 DEF NoMatch
          <5>2. pc' = [pc EXCEPT ![c] = "verify"]
            BY <1>0, <5>1 DEF Shapes
          <5>. QED BY <1>0, <3>3, <5>2 DEF NoMatch, files, history
        <4>2. CASE ~(attempt[c] < 2)
          BY <1>0, <3>3, <4>2 DEF NoMatch, files, history
        <4>. QED BY <4>1, <4>2
      <3>4. CASE RecordScan(c)
        <4>1. UNCHANGED <<files, history, op, store, secret>>
          BY <3>4 DEF RecordScan, files, history
        <4>2. \E p \in {"reply", "write", "read"} : pc' = [pc EXCEPT ![c] = p]
          BY <3>4 DEF RecordScan
        <4>. QED BY <1>0, <4>1, <4>2
      <3>. QED BY <1>4, <3>1, <3>2, <3>3, <3>4 DEF ScanStep
    <2>2. Aside(c)
      BY <1>0, <2>1 DEF Aside, Shapes
    <2>. QED BY <2>2, AsidePreserves
  <1>5. ASSUME NEW c \in Conns, CheckLockout(c) PROVE FilesInv'
    <2>1. \E s \in Stores : store' = [store EXCEPT ![c] = s]
      BY <1>0, <1>5 DEF CheckLockout, Shapes, Stores
    <2>2. \E p \in {"claim", "reply"} : pc' = [pc EXCEPT ![c] = p]
      BY <1>5 DEF CheckLockout
    <2>3. Aside(c)
      BY <1>0, <1>5, <2>1, <2>2 DEF CheckLockout, Aside, Shapes
    <2>. QED BY <2>3, AsidePreserves
  <1>6. ASSUME NEW c \in Conns, Reply(c) PROVE FilesInv'
    <2>1. Aside(c)
      BY <1>0, <1>6, AnyPasswordIsOne DEF Reply, Aside, Shapes, Ops, Stores
    <2>. QED BY <2>1, AsidePreserves
  <1>7. ASSUME NEW c \in Conns, Write(c) PROVE FilesInv'
    <2>1. /\ Disturb(c) /\ pc' = [pc EXCEPT ![c] = "other"]
          /\ UNCHANGED <<op, store, secret>>
          /\ "other" \in PCs /\ "other" # "remove"
      BY <1>7 DEF Write, PCs
    <2>2. /\ tpm2' \in Content /\ file' \in Content
          /\ Held(store[c])' = secret[c]
      BY <1>0, <1>7, Contents DEF Write, Put, Held, Shapes, Stores
    <2>. QED BY <2>1, <2>2, DisturbPreserves
  <1>8. ASSUME NEW c \in Conns, RemoveOtherFails(c) \/ RemoveSealed(c)
        PROVE  FilesInv'
    <2>1. /\ Disturb(c)
          /\ UNCHANGED <<op, store, secret>>
          /\ tpm2' \in Content /\ file' \in Content
      BY <1>0, <1>8, Contents
         DEF RemoveOtherFails, RemoveSealed, Put, Shapes
    <2>2. \/ pc' = [pc EXCEPT ![c] = "reply"]
          \/ /\ pc' = [pc EXCEPT ![c] = "remove"]
             /\ tpm2' = Nothing /\ op[c] = "remove"
      BY <1>8 DEF RemoveOtherFails, RemoveSealed
    <2>3. {"reply", "remove"} \subseteq PCs
      BY DEF PCs
    <2>. QED BY <2>1, <2>2, <2>3, DisturbPreserves
  <1>9. ASSUME NEW c \in Conns, RemoveOther(c) PROVE FilesInv'
    <2>1. /\ pc[c] = "other" /\ pc[c] \in Changing
          /\ Promise(c, secret[c])
          /\ pc' = [pc EXCEPT ![c] = "reply"]
          /\ UNCHANGED <<op, store, secret>>
          /\ tpm2' \in Content /\ file' \in Content
          /\ secret[c] \in Content
      BY <1>0, <1>9, Contents DEF RemoveOther, Put, Shapes, Changing
    <2>2. alone[c] => Held(store[c]) = secret[c]
      BY <2>1 DEF FilesInv, Alone
    <2>3. alone[c] => Find' = secret[c]
      BY <1>0, <1>9, <2>2, Contents
         DEF RemoveOther, Put, Held, Other, Find, Shapes, Stores
    <2>. QED BY <2>1, <2>3, PromisePreserves
  <1>10. ASSUME NEW c \in Conns, RemoveFile(c) PROVE FilesInv'
    <2>1. /\ pc[c] = "remove" /\ pc[c] \in Changing
          /\ Promise(c, Nothing)
          /\ pc' = [pc EXCEPT ![c] = "reply"]
          /\ UNCHANGED <<op, store, secret>>
          /\ tpm2' \in Content /\ file' \in Content
      BY <1>0, <1>10, Contents DEF RemoveFile, Shapes, Changing
    <2>2. alone[c] => tpm2 = Nothing
      BY <2>1 DEF FilesInv, Alone
    <2>3. alone[c] => Find' = Nothing
      BY <1>10, <2>2 DEF RemoveFile, Find
    <2>. QED BY <2>1, <2>3, Contents, PromisePreserves
  <1>11. CASE UNCHANGED vars
    BY <1>11 DEF vars, FilesInv, Shapes, Unpromised, Removing, Alone, Held,
                 AckedIsServed, Find, files, connVars, history
  <1>. QED BY <1>1, <1>2, <1>3, <1>4, <1>5, <1>6, <1>7, <1>8, <1>9, <1>10,
              <1>11
           DEF Next, Step, FileStep

LEMMA FilesInvInvariant == Spec => []FilesInv
  BY FilesInvInit, FilesInvStep, PTL DEF Spec

\* Whatever was acknowledged last, an enrolment or a removal, is what the
\* next unlock finds, for any number of connections and passwords and however
\* often the service fails or is killed in between.
THEOREM AcknowledgedIsServed == Spec => []AckedIsServed
  <1>1. FilesInv => AckedIsServed
    BY DEF FilesInv
  <1>. QED BY <1>1, FilesInvInvariant, PTL

\* An enrolment that is being replaced never leaves the user without any,
\* unless it meets another replacement.
THEOREM RemovalForgets == Spec => OnlyRemovalForgets
  <1>. DEFINE Excused ==
         \E c \in Conns : \/ op[c] = "remove" /\ pc[c] \in {"begin", "remove"}
                          \/ pc[c] = "other" /\ ~alone[c]
  <1>1. FilesInv /\ [Next]_vars =>
          [Find # Nothing /\ Find' = Nothing => Excused]_vars
    <2>. SUFFICES ASSUME FilesInv, Next, Find # Nothing, Find' = Nothing
                  PROVE  Excused
      BY DEF vars
    <2>1. ~UNCHANGED files
      BY DEF files, Find
    <2>2. PICK c \in Conns : \/ Write(c) \/ RemoveOther(c)
                             \/ RemoveOtherFails(c) \/ RemoveSealed(c)
                             \/ RemoveFile(c)
      BY <2>1
         DEF Next, Elapse, Restart, Accept, Step, Status, CheckLockout,
             ScanStep, ClaimFails, Claim, Match, NoMatch, Interrupt, Cleanup,
             RecordScan, FileStep, WriteFails, Read, RemoveFails, Reply, files
    <2>3. CASE Write(c)
      BY <2>3, Contents DEF Write, Put, Find, FilesInv, Shapes, Stores
    <2>4. CASE RemoveSealed(c)
      BY <2>4 DEF RemoveSealed
    <2>5. CASE RemoveFile(c)
      BY <2>5 DEF RemoveFile, FilesInv, Removing
    <2>6. CASE RemoveOther(c) \/ RemoveOtherFails(c)
      <3>1. pc[c] = "other"
        BY <2>6 DEF RemoveOther, RemoveOtherFails
      <3>2. SUFFICES ASSUME alone[c] PROVE FALSE
        BY <3>1
      <3>3. Held(store[c]) = secret[c]
        BY <3>1, <3>2 DEF FilesInv, Alone, Changing
      <3>4. store[c] \in Stores /\ secret[c] # Nothing
        BY Contents DEF FilesInv, Shapes
      <3>5. CASE RemoveOther(c)
        BY <3>3, <3>4, <3>5 DEF RemoveOther, Put, Other, Held, Find, Stores
      <3>6. CASE RemoveOtherFails(c)
        BY <3>3, <3>4, <3>6
           DEF RemoveOtherFails, Put, Other, Held, Find, Stores
      <3>. QED BY <2>6, <3>5, <3>6
    <2>. QED BY <2>2, <2>3, <2>4, <2>5, <2>6
  <1>. QED BY <1>1, FilesInvInvariant, PTL DEF Spec, OnlyRemovalForgets
-----------------------------------------------------------------------------
(* The lockout. A scan begins only while there is none, and each one that  *)
(* is under way when it begins ends once.                                  *)

Scans == {c \in Conns : pc[c] \in Scanning}

LockoutInv ==
  /\ pc \in [Conns -> PCs]
  /\ overrun \in Nat
  /\ OverrunBounded

\* How many there are can be counted.
LEMMA ScansAreFew ==
  ASSUME NEW S \in SUBSET Conns
  PROVE  Cardinality(S) \in Nat /\ Cardinality(S) <= Cardinality(Conns)
  BY ConnsAssumption, FS_Subset, FS_CardinalityType

LEMMA OneIsLess ==
  ASSUME NEW S \in SUBSET Conns, NEW c \in S
  PROVE  Cardinality(S \ {c}) = Cardinality(S) - 1
  BY ConnsAssumption, FS_Subset, FS_RemoveElement

\* Steps that leave the lockout alone and start no scan.
LEMMA LockoutStays ==
  ASSUME LockoutInv, UNCHANGED <<wait, overrun>>, pc' \in [Conns -> PCs],
         \A c \in Conns : pc'[c] \in Scanning => pc[c] \in Scanning
  PROVE  LockoutInv'
<1> DEFINE S == Scans
           T == Scans'
<1>1. S \in SUBSET Conns /\ T \in SUBSET S
  BY DEF Scans
<1>2. Cardinality(T) <= Cardinality(S)
  BY <1>1, ScansAreFew, ConnsAssumption, FS_Subset
<1>3. /\ Cardinality(T) \in Nat /\ Cardinality(S) \in Nat
      /\ Cardinality(Conns) \in Nat
  BY <1>1, ScansAreFew
<1>4. /\ OverrunBounded <=> (wait > 0 => overrun + Cardinality(S) <= Cardinality(Conns) - 1)
      /\ OverrunBounded' <=> (wait' > 0 => overrun' + Cardinality(T) <= Cardinality(Conns) - 1)
  BY DEF OverrunBounded, Scans
<1>5. overrun \in Nat
  BY DEF LockoutInv
<1> HIDE DEF S, T
<1>6. QED
  BY <1>2, <1>3, <1>4, <1>5 DEF LockoutInv

\* A connection that goes on, and not into a scan.
LEMMA LockoutStep ==
  ASSUME LockoutInv, NEW c \in Conns, NEW p \in PCs, Goto(c, p), UNCHANGED <<wait, overrun>>,
         p \in Scanning => pc[c] \in Scanning
  PROVE  LockoutInv'
<1>1. pc' \in [Conns -> PCs]
  BY DEF LockoutInv, Goto
<1>2. \A d \in Conns : pc'[d] \in Scanning => pc[d] \in Scanning
  BY DEF LockoutInv, Goto
<1>3. QED
  BY <1>1, <1>2, LockoutStays

LEMMA LockoutBegins ==
  ASSUME LockoutInv, NEW c \in Conns, CheckLockout(c)
  PROVE  LockoutInv'
<1>1. CASE Goto(c, "reply")
  BY <1>1, LockoutStep DEF CheckLockout, lockVars, PCs, Scanning
<1>2. CASE wait = 0 /\ Goto(c, "claim")
  <2>1. wait' = 0 /\ ~(wait' > 0) /\ overrun' = overrun
    BY <1>2 DEF CheckLockout, lockVars
  <2>2. pc' \in [Conns -> PCs]
    BY <1>2 DEF LockoutInv, Goto, PCs
  <2>3. QED
    BY <2>1, <2>2 DEF LockoutInv, OverrunBounded
<1>3. QED
  BY <1>1, <1>2 DEF CheckLockout

LEMMA LockoutRecords ==
  ASSUME LockoutInv, NEW c \in Conns, RecordScan(c)
  PROVE  LockoutInv'
<1> DEFINE S == Scans
           T == Scans'
<1>1. pc' \in [Conns -> PCs] /\ T = S \ {c} /\ c \in S /\ S \in SUBSET Conns
  BY DEF LockoutInv, RecordScan, Goto, PCs, Scans, Scanning
<1>2. /\ Cardinality(T) = Cardinality(S) - 1
      /\ Cardinality(S) \in Nat /\ Cardinality(Conns) \in Nat
      /\ Cardinality(S) <= Cardinality(Conns)
  BY <1>1, OneIsLess, ScansAreFew
<1>3. /\ OverrunBounded <=> (wait > 0 => overrun + Cardinality(S) <= Cardinality(Conns) - 1)
      /\ OverrunBounded' <=> (wait' > 0 => overrun' + Cardinality(T) <= Cardinality(Conns) - 1)
  BY DEF OverrunBounded, Scans
<1>4. overrun \in Nat /\ OverrunBounded
  BY DEF LockoutInv
<1>5. CASE matched[c]
  BY <1>1, <1>5 DEF RecordScan, Record, LockoutInv, OverrunBounded
<1>6. CASE ~matched[c] /\ wait > 0
  <2>1. overrun' = overrun + 1
    BY <1>6 DEF RecordScan, Record
  <2> HIDE DEF S, T
  <2>2. QED
    BY <1>1, <1>2, <1>3, <1>4, <1>6, <2>1 DEF LockoutInv
<1>7. CASE ~matched[c] /\ ~(wait > 0)
  <2>1. overrun' = 0
    BY <1>7 DEF RecordScan, Record
  <2> HIDE DEF S, T
  <2>2. QED
    BY <1>1, <1>2, <1>3, <2>1 DEF LockoutInv
<1>8. QED
  BY <1>5, <1>6, <1>7

LEMMA LockoutElapses == ASSUME LockoutInv, Elapse PROVE LockoutInv'
<1>1. UNCHANGED pc
  BY DEF Elapse, connVars
<1>2. CASE wait = 1
  BY <1>1, <1>2 DEF Elapse, LockoutInv, OverrunBounded
<1>3. CASE wait # 1
  <2>1. wait > 0 /\ overrun' = overrun
    BY <1>3 DEF Elapse
  <2>2. QED
    BY <1>1, <2>1 DEF LockoutInv, OverrunBounded, Scanning
<1>4. QED
  BY <1>2, <1>3

LEMMA LockoutNext == LockoutInv /\ [Next]_vars => LockoutInv'
<1> SUFFICES ASSUME LockoutInv, [Next]_vars PROVE LockoutInv'
  OBVIOUS
<1> USE DEF PCs, Scanning, lockVars
<1>1. CASE UNCHANGED <<wait, overrun, pc>>
  BY <1>1, LockoutStays DEF LockoutInv
<1>2. CASE Restart
  BY <1>2 DEF Restart, LockoutInv, OverrunBounded
<1>3. ASSUME NEW c \in Conns, Accept(c) PROVE LockoutInv'
  BY <1>3, LockoutStep DEF Accept
<1>4. ASSUME NEW c \in Conns, ScanStep(c) PROVE LockoutInv'
  <2>1. CASE NoMatch(c)
    BY <1>1, <2>1, LockoutStep DEF NoMatch
  <2>2. CASE Claim(c) \/ ClaimFails(c) \/ Match(c) \/ Interrupt(c) \/ Cleanup(c)
    BY <2>2, LockoutStep DEF Claim, ClaimFails, Match, Interrupt, Cleanup
  <2>3. QED
    BY <1>4, <2>1, <2>2, LockoutRecords DEF ScanStep
<1>5. ASSUME NEW c \in Conns, FileStep(c) PROVE LockoutInv'
  BY <1>5, LockoutStep
     DEF FileStep, Write, WriteFails, RemoveOther, RemoveOtherFails, Read, RemoveSealed,
         RemoveFile, RemoveFails
<1>6. ASSUME NEW c \in Conns, Status(c) \/ Reply(c) PROVE LockoutInv'
  BY <1>6, LockoutStep DEF Status, Reply
<1>7. CASE UNCHANGED vars
  BY <1>1, <1>7 DEF vars, connVars
<1>8. QED
  BY <1>2, <1>3, <1>4, <1>5, <1>6, <1>7, LockoutElapses, LockoutBegins DEF Next, Step

\* However many connections race from the check of the lockout to the record of
\* their scan, each of them overruns it by one failure at most (check_lockout
\* and record of server.rs).
THEOREM OverrunsAreFew == Spec => []OverrunBounded
<1>1. Init => LockoutInv
  <2>1. \A c \in Conns : "idle" \in PCs
    BY DEF PCs
  <2>2. QED
    BY <2>1 DEF Init, LockoutInv, OverrunBounded
<1>2. QED
  BY <1>1, LockoutNext, PTL DEF Spec, LockoutInv
=============================================================================
