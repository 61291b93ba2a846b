-------------------------- MODULE AgentLockProofs --------------------------
(***************************************************************************)
(* The invariants of AgentLock for every set of accounts and of request    *)
(* slots, every choice of request kinds and every budget.                  *)
(***************************************************************************)
EXTENDS AgentLockVault, SequenceTheorems, TLAPS

----------------------------------------------------------------------------
(* The request channel of the timer task.                                  *)

\* What is appended last decides what the timer does in the end.
LEMMA AppendSchedules ==
  ASSUME NEW m \in {"set", "clear"}, timerReqs \in Seq({"set", "clear"}),
         timerReqs' = Append(timerReqs, m)
  PROVE  /\ timerReqs' \in Seq({"set", "clear"})
         /\ Scheduled' <=> m = "set"
<1>1. timerReqs' # <<>> /\ timerReqs'[Len(timerReqs')] = m
  OBVIOUS
<1>2. QED
  BY <1>1 DEF Scheduled

\* Taking the first of several requests leaves the last one in place.
LEMMA LastOfTail ==
  ASSUME NEW S, NEW s \in Seq(S), Len(s) > 1
  PROVE  /\ Tail(s) # <<>>
         /\ Tail(s)[Len(Tail(s))] = s[Len(s)]
<1>1. s # <<>> /\ Len(s) \in Nat
  OBVIOUS
<1>2. /\ Len(Tail(s)) = Len(s) - 1
      /\ \A i \in 1..Len(Tail(s)) : Tail(s)[i] = s[i + 1]
  BY <1>1, HeadTailProperties
<1>3. Len(s) - 1 \in 1..Len(Tail(s)) /\ (Len(s) - 1) + 1 = Len(s)
  BY <1>1, <1>2
<1>4. Tail(s) # <<>>
  <2>1. \A n : n \notin 1..0
    OBVIOUS
  <2>2. QED
    BY <1>3, <2>1, EmptySeq
<1>5. Tail(s)[Len(s) - 1] = s[(Len(s) - 1) + 1]
  BY <1>2, <1>3
<1>6. QED
  BY <1>2, <1>3, <1>4, <1>5

\* Reading one request moves its effect from the channel to the timer.
LEMMA ReadKeepsSchedule ==
  ASSUME TypeOK, TimerRequest
  PROVE  /\ timerReqs' \in Seq({"set", "clear"})
         /\ Scheduled' <=> Scheduled
<1>1. /\ timerReqs \in Seq({"set", "clear"})
      /\ timerReqs # <<>>
      /\ timerReqs' = Tail(timerReqs)
      /\ timer' = Head(timerReqs)
  BY DEF TypeOK, TimerRequest
<1>2. Len(timerReqs) \in Nat /\ Len(timerReqs) > 0
  BY <1>1
<1>3. timerReqs' \in Seq({"set", "clear"})
  BY <1>1
<1>4. CASE Len(timerReqs) = 1
  <2>1. timerReqs' = <<>>
    BY <1>1, <1>4
  <2>2. Head(timerReqs) = timerReqs[Len(timerReqs)]
    BY <1>1, <1>4
  <2>3. QED
    BY <1>1, <1>3, <2>1, <2>2 DEF Scheduled
<1>5. CASE Len(timerReqs) > 1
  <2>1. timerReqs' # <<>> /\ timerReqs'[Len(timerReqs')] = timerReqs[Len(timerReqs)]
    BY <1>1, <1>5, LastOfTail
  <2>2. Scheduled' <=> timerReqs[Len(timerReqs)] = "set"
    BY <2>1 DEF Scheduled
  <2>3. Scheduled <=> timerReqs[Len(timerReqs)] = "set"
    BY <1>1 DEF Scheduled
  <2>4. QED
    BY <1>3, <2>2, <2>3
<1>6. Len(timerReqs) = 1 \/ Len(timerReqs) > 1
  <2>1. \A n \in Nat : n > 0 => n = 1 \/ n > 1
    OBVIOUS
  <2>2. QED
    BY <1>2, <2>1
<1>7. QED
  BY <1>4, <1>5, <1>6

----------------------------------------------------------------------------
LEMMA TypeInit == Init => TypeOK
  BY AccountsAssumption, BudgetAssumption
  DEF Init, TypeOK, AllKinds, SocketKinds, PCs

LEMMA FirstStepType ==
  ASSUME NEW k \in AllKinds
  PROVE  FirstStep(k) \in PCs
  BY DEF FirstStep, AllKinds, SocketKinds, PCs

LEMMA SetTimeoutType ==
  ASSUME TypeOK, SetTimeout
  PROVE  /\ timerReqs' \in Seq({"set", "clear"})
         /\ owed' \in [Accounts -> Requests \union {Settled, BySsh, Dropped}]
  BY DEF TypeOK, SetTimeout

LEMMA ClearType ==
  ASSUME TypeOK, Clear
  PROVE  /\ keys' \in [Accounts -> SUBSET KeyParts]
         /\ timerReqs' \in Seq({"set", "clear"})
         /\ owed' \in [Accounts -> Requests \union {Settled, BySsh, Dropped}]
  BY DEF TypeOK, Clear

LEMMA TypeNext ==
  ASSUME TypeOK, [Next]_vars
  PROVE  TypeOK'
<1> USE DEF TypeOK, timerVars, Goto, At, PCs, KeyParts
<1>1. CASE TimerRequest
  BY <1>1, ReadKeepsSchedule DEF TimerRequest
<1>2. CASE TimerFire
  BY <1>2 DEF TimerFire
<1>3. CASE TakeTimeout
  BY <1>3 DEF TakeTimeout
<1>4. CASE ApplyClear
  BY <1>4, ClearType DEF ApplyClear
<1>5. CASE TakeLogout
  BY <1>5, BudgetAssumption DEF TakeLogout
<1>6. CASE Exit
  BY <1>6, BudgetAssumption DEF Exit
<1>7. ASSUME NEW r \in Requests, NEW k \in Kinds, NEW a \in Accounts, Accept(r, k, a)
      PROVE  TypeOK'
  <2>1. budget' \in 0..Budget
    BY <1>7, BudgetAssumption DEF Accept
  <2>2. k \in AllKinds /\ FirstStep(k) \in PCs
    BY FirstStepType, KindsAssumption
  <2>3. QED
    BY <1>7, <2>1, <2>2 DEF Accept
<1>8. ASSUME NEW r \in Requests, TaskStep(r) PROVE TypeOK'
  <2>1. CASE CheckLock(r)
    BY <2>1 DEF CheckLock
  <2>2. CASE StartUnlock(r)
    BY <2>2 DEF StartUnlock, AfterUnlock
  <2>3. CASE StartLogin(r)
    BY <2>3 DEF StartLogin
  <2>4. CASE Install(r)
    BY <2>4 DEF Install, SetUnlocked, AfterUnlock
  <2>5. CASE Fetch(r)
    BY <2>5 DEF Fetch
  <2>6. CASE Refresh(r)
    BY <2>6 DEF Refresh, RefreshOrgKeys
  <2>7. CASE Lock(r)
    <3>1. CASE kind[r] = "lock"
      BY <2>7, <3>1 DEF Lock, ClearAccount
    <3>2. CASE kind[r] # "lock"
      <4>1. Clear
        BY <2>7, <3>2 DEF Lock
      <4>2. QED
        BY <2>7, <4>1, ClearType DEF Lock
    <3>3. QED
      BY <3>1, <3>2
  <2>8. CASE Rekey(r)
    BY <2>8 DEF Rekey, ClearAccount
  <2>9. CASE Use(r)
    BY <2>9 DEF Use
  <2>10. CASE Reply(r)
    BY <2>10 DEF Reply
  <2>11. CASE Finish(r)
    <3>1. CASE kind[r] \in SetsTimeout
      <4>1. SetTimeout
        BY <2>11, <3>1 DEF Finish
      <4>2. QED
        BY <2>11, <4>1, SetTimeoutType DEF Finish
    <3>2. CASE kind[r] \notin SetsTimeout
      BY <2>11, <3>2 DEF Finish
    <3>3. QED
      BY <3>1, <3>2
  <2>12. CASE Arm(r)
    BY <2>12, SetTimeoutType DEF Arm
  <2>13. CASE Touch(r)
    BY <2>13, SetTimeoutType DEF Touch
  <2>14. CASE GiveUp(r)
    BY <2>14 DEF GiveUp
  <2>15. QED
    BY <1>8, <2>1, <2>2, <2>3, <2>4, <2>5, <2>6, <2>7, <2>8, <2>9, <2>10,
       <2>11, <2>12, <2>13, <2>14 DEF TaskStep
<1>9. ASSUME NEW r \in Requests, UserStep(r) PROVE TypeOK'
  <2>1. CASE PasswordAccepted(r)
    BY <2>1 DEF PasswordAccepted
  <2>2. CASE PasswordRejected(r)
    BY <2>2 DEF PasswordRejected
  <2>3. CASE RepromptAccepted(r)
    BY <2>3 DEF RepromptAccepted
  <2>4. CASE PromptFailed(r)
    BY <2>4 DEF PromptFailed
  <2>5. CASE HangUp(r)
    BY <2>5 DEF HangUp, Abandon
  <2>6. QED
    BY <1>9, <2>1, <2>2, <2>3, <2>4, <2>5 DEF UserStep
<1>10. CASE UNCHANGED vars
  BY <1>10 DEF vars
<1>11. QED
  BY <1>1, <1>2, <1>3, <1>4, <1>5, <1>6, <1>7, <1>8, <1>9, <1>10 DEF Next, AgentStep

\* Every variable keeps its type in every reachable state; the bounds of the
\* attempt counter (three passwords per prompt) are part of it.
THEOREM TypeCorrect == Spec => []TypeOK
<1>1. QED
  BY TypeInit, TypeNext, PTL DEF Spec

----------------------------------------------------------------------------
(* The parts of the key material come and go together.                     *)

LEMMA KeysTogetherNext ==
  ASSUME TypeOK, KeysTogether, [Next]_vars
  PROVE  KeysTogether'
<1> USE DEF TypeOK, KeysTogether
<1>1. CASE UNCHANGED keys
  BY <1>1
<1>2. CASE Clear
  BY <1>2 DEF Clear
<1>3. ASSUME NEW a \in Accounts, ClearAccount(a) PROVE KeysTogether'
  BY <1>3 DEF ClearAccount
<1>4. ASSUME NEW a \in Accounts, RefreshOrgKeys(a) PROVE KeysTogether'
  BY <1>4 DEF RefreshOrgKeys, KeyParts
<1>5. ASSUME NEW a \in Accounts, SetUnlocked(a) PROVE KeysTogether'
  BY <1>5 DEF SetUnlocked
<1>6. CASE Exit
  BY <1>6 DEF Exit
<1>7. CASE ApplyClear
  BY <1>2, <1>7 DEF ApplyClear
<1>8. CASE TimerRequest \/ TimerFire \/ TakeTimeout \/ TakeLogout
  BY <1>1, <1>8 DEF TimerRequest, TimerFire, TakeTimeout, TakeLogout
<1>9. ASSUME NEW r \in Requests, TaskStep(r) PROVE KeysTogether'
  <2>1. acct[r] \in Accounts
    OBVIOUS
  <2>2. CASE Install(r)
    BY <1>5, <2>1, <2>2 DEF Install
  <2>3. CASE Refresh(r)
    BY <1>4, <2>1, <2>3 DEF Refresh
  <2>4. CASE Lock(r)
    BY <1>2, <1>3, <2>1, <2>4 DEF Lock
  <2>5. CASE Rekey(r)
    BY <1>1, <1>3, <2>1, <2>5 DEF Rekey
  <2>6. CASE CheckLock(r) \/ StartUnlock(r) \/ StartLogin(r) \/ Fetch(r) \/ Use(r)
    BY <1>1, <2>6 DEF CheckLock, StartUnlock, StartLogin, Fetch, Use
  <2>7. CASE Reply(r) \/ Finish(r) \/ Arm(r) \/ Touch(r) \/ GiveUp(r)
    BY <1>1, <2>7 DEF Reply, Finish, Arm, Touch, GiveUp
  <2>8. QED
    BY <1>9, <2>2, <2>3, <2>4, <2>5, <2>6, <2>7 DEF TaskStep
<1>10. ASSUME NEW r \in Requests, UserStep(r) PROVE KeysTogether'
  BY <1>1, <1>10 DEF UserStep, PasswordAccepted, PasswordRejected,
     RepromptAccepted, PromptFailed, HangUp
<1>11. ASSUME NEW r \in Requests, NEW k \in Kinds, NEW a \in Accounts, Accept(r, k, a)
       PROVE  KeysTogether'
  BY <1>1, <1>11 DEF Accept
<1>12. CASE UNCHANGED vars
  BY <1>1, <1>12 DEF vars
<1>13. QED
  BY <1>6, <1>7, <1>8, <1>9, <1>10, <1>11, <1>12 DEF Next, AgentStep

\* No interleaving of unlocks, syncs and locks leaves an account with a part of
\* its keys (State::refresh_org_keys adds to what is there, State::clear takes
\* all of it).
THEOREM KeysStayTogether == Spec => []KeysTogether
<1>1. Init => KeysTogether
  BY DEF Init, KeysTogether
<1>2. QED
  BY <1>1, TypeCorrect, KeysTogetherNext, PTL DEF Spec

----------------------------------------------------------------------------
(* A served unlock has an automatic lock on its way. It is inductive        *)
(* together with TypeOK and KeysTogether: without the latter a sync could   *)
(* complete the keys of an account nobody unlocked.                         *)

\* An account for which a lock must be on its way.
Served(a) == Unlocked(a) /\ owed[a] = Settled

LEMMA ServedNext ==
  ASSUME TypeOK, KeysTogether, ServedUnlockExpires, [Next]_vars
  PROVE  ServedUnlockExpires'
<1> USE DEF Served
<1>1. ASSUME LockPending => LockPending',
             \A a \in Accounts : Served(a)' => Served(a)
      PROVE  ServedUnlockExpires'
  BY <1>1 DEF ServedUnlockExpires
<1>2. ASSUME UNCHANGED <<keys, owed>>, LockPending => LockPending'
      PROVE  ServedUnlockExpires'
  BY <1>1, <1>2 DEF Unlocked, NeedsUnlock
<1>3. ASSUME UNCHANGED <<timerVars, loop>>
      PROVE  LockPending' <=> LockPending
  BY <1>3 DEF LockPending, Scheduled, timerVars
<1>4. CASE SetTimeout
  <2>1. Scheduled'
    BY <1>4, AppendSchedules DEF SetTimeout, TypeOK
  <2>2. QED
    BY <2>1 DEF ServedUnlockExpires, LockPending
<1>5. ASSUME \A a \in Accounts : keys'[a] = {}
      PROVE  ServedUnlockExpires'
  BY <1>5 DEF ServedUnlockExpires, Unlocked, NeedsUnlock
<1>6. CASE Clear
  BY <1>5, <1>6 DEF Clear
<1>7. ASSUME NEW a \in Accounts, ClearAccount(a), UNCHANGED <<timer, ticks, loop>>
      PROVE  ServedUnlockExpires'
  <2>1. \A b \in Accounts : Served(b)' => Served(b)
    BY <1>7 DEF ClearAccount, Unlocked, NeedsUnlock, TypeOK
  <2>2. QED
    BY <1>1, <1>3, <1>7, <2>1 DEF ClearAccount, timerVars
<1>8. CASE TimerRequest
  BY <1>2, <1>8, ReadKeepsSchedule DEF TimerRequest, LockPending
<1>9. CASE TimerFire
  <2>1. ticks' > 0
    BY <1>9 DEF TimerFire, TypeOK
  <2>2. QED
    BY <1>2, <1>9, <2>1 DEF TimerFire, LockPending
<1>10. CASE TakeTimeout
  BY <1>2, <1>10 DEF TakeTimeout, LockPending
<1>11. CASE ApplyClear
  BY <1>6, <1>11 DEF ApplyClear
<1>12. CASE TakeLogout
  <2>1. LockPending => LockPending'
    BY <1>12 DEF TakeLogout, LockPending, Scheduled
  <2>2. QED
    BY <1>2, <1>12, <2>1 DEF TakeLogout
<1>13. CASE Exit
  BY <1>5, <1>13 DEF Exit
<1>14. ASSUME NEW r \in Requests, TaskStep(r) PROVE ServedUnlockExpires'
  <2>1. acct[r] \in Accounts
    BY DEF TypeOK
  <2>2. CASE Install(r)
    <3>1. \A b \in Accounts : Served(b)' => Served(b)
      <4>1. r # Settled /\ BySsh # Settled
        BY RequestsAssumption DEF Settled, BySsh
      <4>2. QED
        BY <2>1, <2>2, <4>1 DEF Install, SetUnlocked, Unlocked, NeedsUnlock, TypeOK
    <3>2. QED
      BY <1>1, <1>3, <2>2, <3>1 DEF Install
  <2>3. CASE Refresh(r)
    <3>1. "rsa" \in keys[acct[r]] => keys[acct[r]] \union {"org"} = keys[acct[r]]
      BY <2>1 DEF KeysTogether, KeyParts
    <3>2. \A b \in Accounts : keys'[b] = keys[b]
      BY <2>1, <2>3, <3>1 DEF Refresh, RefreshOrgKeys, TypeOK
    <3>3. QED
      BY <1>1, <1>3, <2>3, <3>2 DEF Refresh, Unlocked, NeedsUnlock
  <2>4. CASE Lock(r)
    BY <1>6, <1>7, <2>1, <2>4 DEF Lock
  <2>5. CASE Rekey(r)
    <3>1. CASE ClearAccount(acct[r])
      BY <1>7, <2>1, <2>5, <3>1 DEF Rekey
    <3>2. CASE UNCHANGED <<keys, timerReqs, owed>>
      BY <1>2, <1>3, <2>5, <3>2 DEF Rekey, timerVars
    <3>3. QED
      BY <2>5, <3>1, <3>2 DEF Rekey
  <2>6. CASE Finish(r)
    <3>1. CASE UNCHANGED <<timerReqs, owed>>
      BY <1>2, <1>3, <2>6, <3>1 DEF Finish, timerVars
    <3>2. QED
      BY <1>4, <2>6, <3>1 DEF Finish
  <2>7. CASE Arm(r)
    BY <1>4, <2>7 DEF Arm
  <2>8. CASE Touch(r)
    BY <1>4, <2>8 DEF Touch
  <2>9. CASE CheckLock(r) \/ StartUnlock(r) \/ StartLogin(r) \/ Fetch(r)
             \/ Use(r) \/ Reply(r) \/ GiveUp(r)
    BY <1>2, <1>3, <2>9
    DEF CheckLock, StartUnlock, StartLogin, Fetch, Use, Reply, GiveUp
  <2>10. QED
    BY <1>14, <2>2, <2>3, <2>4, <2>5, <2>6, <2>7, <2>8, <2>9 DEF TaskStep
<1>15. ASSUME NEW r \in Requests, UserStep(r) PROVE ServedUnlockExpires'
  <2>1. CASE HangUp(r)
    <3>1. ASSUME NEW b \in Accounts, Served(b)' PROVE Served(b)
      <4>1. keys' = keys /\ owed'[b] = IF owed[b] = r THEN Dropped ELSE owed[b]
        BY <2>1 DEF HangUp, Abandon
      <4>2. Dropped # Settled
        BY DEF Dropped, Settled
      <4>3. QED
        BY <3>1, <4>1, <4>2 DEF Unlocked, NeedsUnlock
    <3>2. QED
      BY <1>1, <1>3, <2>1, <3>1 DEF HangUp
  <2>2. CASE PasswordAccepted(r) \/ PasswordRejected(r) \/ RepromptAccepted(r)
             \/ PromptFailed(r)
    BY <1>2, <1>3, <2>2 DEF PasswordAccepted, PasswordRejected, RepromptAccepted, PromptFailed
  <2>3. QED
    BY <1>15, <2>1, <2>2 DEF UserStep
<1>16. ASSUME NEW r \in Requests, NEW k \in Kinds, NEW a \in Accounts, Accept(r, k, a)
       PROVE  ServedUnlockExpires'
  BY <1>2, <1>3, <1>16 DEF Accept, timerVars
<1>17. CASE UNCHANGED vars
  BY <1>2, <1>3, <1>17 DEF vars, timerVars
<1>18. QED
  BY <1>8, <1>9, <1>10, <1>11, <1>12, <1>13, <1>14, <1>15, <1>16, <1>17
  DEF Next, AgentStep

\* However many accounts and requests there are and however the shared timer is
\* restarted, cleared and read meanwhile, the keys of a served unlock are never
\* left in memory without a lock on its way (timeout.rs, State::set_timeout).
THEOREM ServedUnlocksExpire == Spec => []ServedUnlockExpires
<1>1. Init => ServedUnlockExpires
  BY DEF Init, ServedUnlockExpires, Unlocked, NeedsUnlock
<1>2. QED
  BY <1>1, TypeCorrect, KeysStayTogether, ServedNext, PTL DEF Spec

----------------------------------------------------------------------------
(* The mutex pins the keys of a protected entry under its prompt.          *)

LEMMA PinnedNext ==
  ASSUME TypeOK, KeysTogether, PromptPinsKeys, [Next]_vars
  PROVE  PromptPinsKeys'
<1> DEFINE NoNewPrompt == \A q \in Requests : pc'[q] = "reprompt" => pc[q] = "reprompt"
<1>1. ASSUME mutex = Free PROVE \A q \in Requests : pc[q] # "reprompt"
  BY <1>1, RequestsAssumption DEF PromptPinsKeys
<1>2. ASSUME NoNewPrompt, UNCHANGED <<keys, mutex, acct>> PROVE PromptPinsKeys'
  BY <1>2 DEF PromptPinsKeys, Unlocked, NeedsUnlock
<1>3. ASSUME NoNewPrompt, mutex = Free PROVE PromptPinsKeys'
  BY <1>1, <1>3 DEF PromptPinsKeys
<1>4. ASSUME NEW r \in Requests, NEW step \in PCs, step # "reprompt", Goto(r, step)
      PROVE  NoNewPrompt
  BY <1>4 DEF Goto, TypeOK
<1>5. CASE TimerRequest \/ TimerFire \/ TakeTimeout \/ TakeLogout
  BY <1>2, <1>5 DEF TimerRequest, TimerFire, TakeTimeout, TakeLogout
<1>6. CASE ApplyClear
  BY <1>3, <1>6 DEF ApplyClear
<1>7. CASE Exit
  BY <1>7 DEF Exit, PromptPinsKeys
<1>8. ASSUME NEW r \in Requests, TaskStep(r) PROVE PromptPinsKeys'
  <2>1. CASE CheckLock(r)
    BY <1>4, <1>2, <2>1 DEF CheckLock, PCs
  <2>2. CASE StartUnlock(r)
    BY <1>4, <1>2, <2>2 DEF StartUnlock, AfterUnlock, PCs
  <2>3. CASE StartLogin(r)
    BY <1>4, <1>2, <2>3 DEF StartLogin, PCs
  <2>4. CASE Install(r)
    BY <1>4, <1>3, <2>4 DEF Install, AfterUnlock, PCs
  <2>5. CASE Fetch(r)
    BY <1>4, <1>2, <2>5 DEF Fetch, PCs
  <2>6. CASE Refresh(r)
    BY <1>4, <1>3, <2>6 DEF Refresh, PCs
  <2>7. CASE Lock(r)
    BY <1>4, <1>3, <2>7 DEF Lock, PCs
  <2>8. CASE Rekey(r)
    BY <1>4, <1>2, <1>3, <2>8 DEF Rekey, PCs
  <2>9. CASE Use(r)
    <3>1. CASE Goto(r, "reply") /\ UNCHANGED <<mutex, attempt>>
      BY <1>4, <1>2, <2>9, <3>1 DEF Use, PCs
    <3>2. CASE Goto(r, "reprompt") /\ mutex' = r
      <4>1. Unlocked(acct[r])'
        BY <2>9 DEF Use, KeysTogether, Unlocked, NeedsUnlock, KeyParts, TypeOK
      <4>2. \A q \in Requests : pc'[q] = "reprompt" => q = r
        BY <1>1, <2>9, <3>2 DEF Use, Goto, TypeOK
      <4>3. QED
        BY <3>2, <4>1, <4>2 DEF PromptPinsKeys
    <3>3. QED
      BY <2>9, <3>1, <3>2 DEF Use
  <2>10. CASE Reply(r)
    BY <1>4, <1>2, <2>10 DEF Reply, PCs
  <2>11. CASE Finish(r)
    BY <1>4, <1>3, <2>11 DEF Finish, PCs
  <2>12. CASE Arm(r)
    BY <1>4, <1>3, <2>12 DEF Arm, PCs
  <2>13. CASE Touch(r)
    BY <1>4, <1>3, <2>13 DEF Touch, PCs
  <2>14. CASE GiveUp(r)
    BY <1>4, <1>2, <2>14 DEF GiveUp, PCs
  <2>15. QED
    BY <1>8, <2>1, <2>2, <2>3, <2>4, <2>5, <2>6, <2>7, <2>8, <2>9, <2>10,
       <2>11, <2>12, <2>13, <2>14 DEF TaskStep
<1>9. ASSUME NEW r \in Requests, UserStep(r) PROVE PromptPinsKeys'
  <2>1. ASSUME pc[r] = "reprompt" PROVE \A q \in Requests : pc[q] = "reprompt" => q = r
    BY <2>1 DEF PromptPinsKeys
  <2>2. ASSUME pc[r] = "reprompt", pc'[r] # "reprompt", NoNewPrompt PROVE PromptPinsKeys'
    BY <2>1, <2>2 DEF PromptPinsKeys
  <2>3. CASE PasswordAccepted(r)
    BY <1>4, <1>2, <2>3 DEF PasswordAccepted, PCs
  <2>4. CASE PasswordRejected(r)
    BY <1>2, <2>4 DEF PasswordRejected
  <2>5. CASE RepromptAccepted(r)
    <3>1. pc'[r] = "reply"
      BY <2>5 DEF RepromptAccepted, Goto, TypeOK
    <3>2. QED
      BY <1>4, <2>2, <2>5, <3>1 DEF RepromptAccepted, PCs
  <2>6. CASE PromptFailed(r)
    <3>1. pc'[r] = "idle" /\ NoNewPrompt
      BY <1>4, <2>6 DEF PromptFailed, Goto, TypeOK, PCs
    <3>2. CASE pc[r] = "reprompt"
      BY <2>2, <3>1, <3>2
    <3>3. CASE pc[r] # "reprompt"
      BY <1>2, <2>6, <3>1, <3>3 DEF PromptFailed
    <3>4. QED
      BY <3>2, <3>3
  <2>7. CASE HangUp(r)
    BY <1>4, <1>2, <2>7 DEF HangUp, Abandon, PCs
  <2>8. QED
    BY <1>9, <2>3, <2>4, <2>5, <2>6, <2>7 DEF UserStep
<1>10. ASSUME NEW r \in Requests, NEW k \in Kinds, NEW a \in Accounts, Accept(r, k, a)
       PROVE  PromptPinsKeys'
  <2>1. \A q \in Requests : pc'[q] = "reprompt" => q # r /\ pc[q] = "reprompt"
    BY <1>10 DEF Accept, Goto, FirstStep, TypeOK
  <2>2. \A q \in Requests : q # r => acct'[q] = acct[q]
    BY <1>10 DEF Accept, TypeOK
  <2>3. QED
    BY <1>10, <2>1, <2>2 DEF Accept, PromptPinsKeys, Unlocked, NeedsUnlock
<1>11. CASE UNCHANGED vars
  BY <1>2, <1>11 DEF vars, reqVars
<1>12. QED
  BY <1>5, <1>6, <1>7, <1>8, <1>9, <1>10, <1>11 DEF Next, AgentStep

\* Nothing takes the keys away under the prompt for a protected entry, whatever
\* the timer, the server and the other requests do (decrypt_cipher).
THEOREM PromptsPinKeys == Spec => []PromptPinsKeys
<1>1. Init => PromptPinsKeys
  BY DEF Init, PromptPinsKeys
<1>2. QED
  BY <1>1, TypeCorrect, KeysStayTogether, PinnedNext, PTL DEF Spec

----------------------------------------------------------------------------
(* Secrets come out of unlocked accounts only.                             *)

\* The only way from "use" to an answer is the decryption itself.
LEMMA UseAnswers ==
  ASSUME TypeOK, [Next]_vars, NEW r \in Requests, pc[r] = "use", pc'[r] = "reply"
  PROVE  Use(r)
<1> USE DEF TypeOK, Goto, At
<1>1. ASSUME NEW q \in Requests, NEW step, Goto(q, step)
      PROVE  q = r /\ step = "reply"
  BY <1>1
<1>2. ASSUME NEW q \in Requests, TaskStep(q) PROVE Use(r)
  <2>1. CASE CheckLock(q) \/ StartUnlock(q) \/ StartLogin(q) \/ Install(q) \/ Fetch(q)
    BY <1>1, <2>1 DEF CheckLock, StartUnlock, StartLogin, Install, Fetch
  <2>2. CASE Refresh(q) \/ Lock(q) \/ Rekey(q) \/ Reply(q) \/ Finish(q) \/ Arm(q)
    BY <1>1, <2>2 DEF Refresh, Lock, Rekey, Reply, Finish, Arm
  <2>3. CASE Touch(q) \/ GiveUp(q)
    BY <1>1, <2>3 DEF Touch, GiveUp
  <2>4. CASE Use(q)
    <3>1. q = r
      BY <1>1, <2>4 DEF Use
    <3>2. QED
      BY <2>4, <3>1
  <2>5. QED
    BY <1>2, <2>1, <2>2, <2>3, <2>4 DEF TaskStep
<1>3. ASSUME NEW q \in Requests, UserStep(q) PROVE Use(r)
  BY <1>1, <1>3 DEF UserStep, PasswordAccepted, PasswordRejected,
     RepromptAccepted, PromptFailed, HangUp, Abandon
<1>4. ASSUME NEW q \in Requests, NEW k \in Kinds, NEW a \in Accounts, Accept(q, k, a)
      PROVE  Use(r)
  BY <1>1, <1>4 DEF Accept
<1>5. CASE Exit
  BY <1>5 DEF Exit
<1>6. CASE UNCHANGED pc
  BY <1>6
<1>7. CASE AgentStep \/ TakeLogout
  BY <1>6, <1>7 DEF AgentStep, TimerRequest, TimerFire, TakeTimeout, ApplyClear, TakeLogout
<1>8. CASE UNCHANGED vars
  BY <1>6, <1>8 DEF vars
<1>9. QED
  BY <1>2, <1>3, <1>4, <1>5, <1>7, <1>8 DEF Next

LEMMA PlaintextNext ==
  ASSUME TypeOK, KeysTogether, PromptPinsKeys, [Next]_vars, NEW r \in Requests,
         pc[r] \in {"use", "reprompt"}, pc'[r] = "reply"
  PROVE  Unlocked(acct[r])
<1>1. CASE pc[r] = "reprompt"
  BY <1>1 DEF PromptPinsKeys
<1>2. CASE pc[r] = "use"
  <2>1. Use(r)
    BY <1>2, UseAnswers
  <2>2. acct[r] \in Accounts
    BY DEF TypeOK
  <2>3. QED
    BY <2>1, <2>2 DEF Use, KeysTogether, Unlocked, NeedsUnlock, KeyParts
<1>3. QED
  BY <1>1, <1>2

\* A request that was authorised long ago gets nothing from an account that has
\* been locked since, whether or not it had to ask the user (decrypt_cipher).
THEOREM LockedGivesNothing == Spec => NoPlaintextWhileLocked
<1>1. TypeOK /\ KeysTogether /\ PromptPinsKeys /\ [Next]_vars
      => [\A r \in Requests :
            pc[r] \in {"use", "reprompt"} /\ pc'[r] = "reply" => Unlocked(acct[r])]_vars
  BY PlaintextNext
<1>2. QED
  BY <1>1, TypeCorrect, KeysStayTogether, PromptsPinKeys, PTL DEF Spec, NoPlaintextWhileLocked

----------------------------------------------------------------------------
(* Who unlocks pays.                                                       *)

\* Only the four kinds that unlock get as far as a password prompt or as the
\* installation of keys.
Unlockers ==
  \A r \in Requests : pc[r] \in {"prompt", "install"} =>
    kind[r] \in {"unlock", "login", "remote", "ssh"}

LEMMA UnlockersNext ==
  ASSUME TypeOK, Unlockers, [Next]_vars
  PROVE  Unlockers'
<1> USE DEF TypeOK, At
<1>1. ASSUME NEW r \in Requests, NEW step, Goto(r, step), UNCHANGED kind,
             step \in {"prompt", "install"} => kind[r] \in {"unlock", "login", "remote", "ssh"}
      PROVE  Unlockers'
  BY <1>1 DEF Unlockers, Goto
<1>2. CASE UNCHANGED <<kind, pc>>
  BY <1>2 DEF Unlockers
<1>3. CASE AgentStep \/ TakeLogout
  BY <1>2, <1>3 DEF AgentStep, TimerRequest, TimerFire, TakeTimeout, ApplyClear, TakeLogout
<1>4. CASE Exit
  BY <1>4 DEF Exit, Unlockers
<1>5. ASSUME NEW r \in Requests, TaskStep(r) PROVE Unlockers'
  <2>1. CASE CheckLock(r) \/ Fetch(r) \/ Lock(r) \/ Rekey(r) \/ Use(r) \/ Reply(r)
    BY <1>1, <2>1 DEF CheckLock, Fetch, Lock, Rekey, Use, Reply
  <2>2. CASE Finish(r) \/ Arm(r) \/ Touch(r) \/ GiveUp(r)
    BY <1>1, <2>2 DEF Finish, Arm, Touch, GiveUp
  <2>3. CASE StartUnlock(r)
    BY <1>1, <2>3 DEF StartUnlock, AfterUnlock
  <2>4. CASE StartLogin(r)
    BY <1>1, <2>4 DEF StartLogin
  <2>5. CASE Install(r)
    BY <1>1, <2>5 DEF Install, AfterUnlock
  <2>6. CASE Refresh(r)
    BY <1>1, <2>6 DEF Refresh
  <2>7. QED
    BY <1>5, <2>1, <2>2, <2>3, <2>4, <2>5, <2>6 DEF TaskStep
<1>6. ASSUME NEW r \in Requests, UserStep(r) PROVE Unlockers'
  <2>1. CASE PasswordAccepted(r)
    BY <1>1, <2>1 DEF PasswordAccepted, Unlockers
  <2>2. CASE PasswordRejected(r)
    BY <1>2, <2>2 DEF PasswordRejected
  <2>3. CASE RepromptAccepted(r) \/ PromptFailed(r) \/ HangUp(r)
    BY <1>1, <2>3 DEF RepromptAccepted, PromptFailed, HangUp, Abandon
  <2>4. QED
    BY <1>6, <2>1, <2>2, <2>3 DEF UserStep
<1>7. ASSUME NEW r \in Requests, NEW k \in Kinds, NEW a \in Accounts, Accept(r, k, a)
      PROVE  Unlockers'
  BY <1>7 DEF Accept, FirstStep, Unlockers, Goto
<1>8. CASE UNCHANGED vars
  BY <1>2, <1>8 DEF vars
<1>9. QED
  BY <1>3, <1>4, <1>5, <1>6, <1>7, <1>8 DEF Next

\* The steps at which a request still has the timer before it.
Payable(r) ==
  \/ At(r, "reply", SetsTimeout) \/ At(r, "finish", SetsTimeout)
  \/ At(r, "arm", {"remote"})

Owes(r) == \E a \in Accounts : owed[a] = r

\* The invariant, from the side of the requests.
WhoOwesPays == \A r \in Requests : Owes(r) => Payable(r)

LEMMA DebtByRequest == DebtIsPayable <=> WhoOwesPays
<1>1. DebtIsPayable <=> \A a \in Accounts : owed[a] \in Requests => Payable(owed[a])
  BY DEF DebtIsPayable, Payable
<1>2. QED
  BY <1>1 DEF WhoOwesPays, Owes

LEMMA PayNext ==
  ASSUME TypeOK, Unlockers, WhoOwesPays, [Next]_vars
  PROVE  WhoOwesPays'
<1> DEFINE NoNewDebt == \A q \in Requests : Owes(q)' => Owes(q)
<1>1. /\ Settled \notin Requests
      /\ BySsh \notin Requests
      /\ Dropped \notin Requests
  BY RequestsAssumption
<1>2. ASSUME UNCHANGED owed PROVE NoNewDebt
  BY <1>2 DEF Owes
<1>3. ASSUME NEW r \in Requests,
             \A q \in Requests : q # r => pc'[q] = pc[q] /\ kind'[q] = kind[q]
      PROVE  \A q \in Requests : q # r /\ Payable(q) => Payable(q)'
  BY <1>3 DEF Payable, At
<1>4. ASSUME UNCHANGED <<kind, pc>>, NoNewDebt PROVE WhoOwesPays'
  BY <1>4 DEF WhoOwesPays, Payable, At
<1>5. ASSUME NEW r \in Requests, NEW step, Goto(r, step), UNCHANGED kind, NoNewDebt,
             ~Payable(r)
      PROVE  WhoOwesPays'
  <2>1. \A q \in Requests : q # r => pc'[q] = pc[q] /\ kind'[q] = kind[q]
    BY <1>5 DEF Goto, TypeOK
  <2>2. \A q \in Requests : q # r /\ Payable(q) => Payable(q)'
    BY <1>3, <2>1
  <2>3. QED
    BY <1>5, <2>2 DEF WhoOwesPays
<1>6. ASSUME \A a \in Accounts : owed'[a] = Settled PROVE WhoOwesPays'
  BY <1>1, <1>6 DEF WhoOwesPays, Owes
<1>7. CASE SetTimeout
  BY <1>6, <1>7 DEF SetTimeout
<1>8. CASE Clear
  BY <1>6, <1>8 DEF Clear
<1>9. ASSUME NEW a \in Accounts, ClearAccount(a) PROVE NoNewDebt
  <2>1. \A b \in Accounts : owed'[b] = IF b = a THEN Settled ELSE owed[b]
    BY <1>9 DEF ClearAccount, TypeOK
  <2>2. QED
    BY <1>1, <2>1 DEF Owes
<1>10. CASE TimerRequest \/ TimerFire \/ TakeTimeout \/ TakeLogout
  BY <1>2, <1>4, <1>10 DEF TimerRequest, TimerFire, TakeTimeout, TakeLogout
<1>11. CASE ApplyClear
  BY <1>8, <1>11 DEF ApplyClear
<1>12. CASE Exit
  BY <1>6, <1>12 DEF Exit
<1>13. ASSUME NEW r \in Requests, TaskStep(r) PROVE WhoOwesPays'
  <2>1. ASSUME pc[r] \notin {"reply", "finish", "arm"} PROVE ~Payable(r)
    BY <2>1 DEF Payable, At
  <2>2. ASSUME NEW step, Goto(r, step), UNCHANGED <<kind, owed>>,
               pc[r] \notin {"reply", "finish", "arm"}
        PROVE  WhoOwesPays'
    BY <1>2, <1>5, <2>1, <2>2
  <2>3. CASE CheckLock(r) \/ StartUnlock(r) \/ StartLogin(r) \/ Fetch(r) \/ Refresh(r)
    BY <2>2, <2>3 DEF CheckLock, StartUnlock, StartLogin, Fetch, Refresh, At
  <2>4. CASE Use(r)
    BY <2>2, <2>4 DEF Use
  <2>5. CASE GiveUp(r)
    BY <2>2, <2>5 DEF GiveUp, At
  <2>6. CASE Install(r)
    <3>1. \A q \in Requests : q # r => pc'[q] = pc[q] /\ kind'[q] = kind[q]
      BY <2>6 DEF Install, Goto, TypeOK
    <3>2. kind[r] \in {"unlock", "login", "remote", "ssh"}
      BY <2>6 DEF Install, Unlockers
    <3>3. kind[r] # "ssh" => Payable(r)'
      BY <2>6, <3>2 DEF Install, Goto, AfterUnlock, SetsTimeout, Payable, At, TypeOK
    <3>4. \A a \in Accounts : owed'[a] \in {owed[a], BySsh, r}
      BY <2>6 DEF Install, TypeOK
    <3>5. \A q \in Requests : q # r /\ Owes(q)' => Owes(q) /\ Payable(q)
      BY <1>1, <3>4 DEF Owes, WhoOwesPays
    <3>6. \A q \in Requests : q # r /\ Owes(q)' => Payable(q)'
      BY <1>3, <3>1, <3>5
    <3>7. Owes(r)' => kind[r] # "ssh"
      <4>1. ~Owes(r)
        BY <2>1, <2>6 DEF Install, WhoOwesPays
      <4>2. kind[r] = "ssh" => \A a \in Accounts : owed'[a] \in {owed[a], BySsh}
        BY <2>6 DEF Install, TypeOK
      <4>3. QED
        BY <1>1, <4>1, <4>2 DEF Owes
    <3>8. QED
      BY <3>3, <3>6, <3>7 DEF WhoOwesPays
  <2>7. CASE Lock(r)
    <3>1. CASE Clear
      BY <1>8, <3>1
    <3>2. CASE ClearAccount(acct[r])
      <4>1. NoNewDebt
        BY <1>9, <3>2 DEF TypeOK
      <4>2. QED
        BY <1>5, <2>1, <2>7, <4>1 DEF Lock
    <3>3. QED
      BY <2>7, <3>1, <3>2 DEF Lock
  <2>8. CASE Rekey(r)
    <3>1. NoNewDebt
      <4>1. acct[r] \in Accounts
        BY DEF TypeOK
      <4>2. QED
        BY <1>2, <1>9, <2>8, <4>1 DEF Rekey
    <3>2. QED
      BY <1>5, <2>1, <2>8, <3>1 DEF Rekey
  <2>9. CASE Reply(r)
    <3>1. CASE kind[r] \in SetsTimeout
      <4>1. Payable(r)'
        BY <2>9, <3>1 DEF Reply, Goto, SetsTimeout, Payable, At, TypeOK
      <4>2. \A q \in Requests : q # r => pc'[q] = pc[q]
        BY <2>9 DEF Reply, Goto, TypeOK
      <4>3. \A q \in Requests : Payable(q) => Payable(q)'
        BY <1>3, <2>9, <4>1, <4>2 DEF Reply
      <4>4. QED
        BY <1>2, <2>9, <4>3 DEF Reply, WhoOwesPays
    <3>2. CASE kind[r] \notin SetsTimeout
      <4>1. ~Payable(r)
        BY <2>9, <3>2 DEF Reply, Payable, At
      <4>2. QED
        BY <1>2, <1>5, <2>9, <4>1 DEF Reply
    <3>3. QED
      BY <3>1, <3>2
  <2>10. CASE Finish(r)
    <3>1. CASE kind[r] \in SetsTimeout
      BY <1>7, <2>10, <3>1 DEF Finish
    <3>2. CASE kind[r] \notin SetsTimeout
      <4>1. ~Payable(r)
        BY <2>10, <3>2 DEF Finish, Payable, At
      <4>2. QED
        BY <1>2, <1>5, <2>10, <3>2, <4>1 DEF Finish
    <3>3. QED
      BY <3>1, <3>2
  <2>11. CASE Arm(r)
    BY <1>7, <2>11 DEF Arm
  <2>12. CASE Touch(r)
    BY <1>7, <2>12 DEF Touch
  <2>13. QED
    BY <1>13, <2>3, <2>4, <2>5, <2>6, <2>7, <2>8, <2>9, <2>10, <2>11, <2>12
    DEF TaskStep
<1>14. ASSUME NEW r \in Requests, UserStep(r) PROVE WhoOwesPays'
  <2>1. CASE PasswordAccepted(r) \/ RepromptAccepted(r) \/ PromptFailed(r)
    BY <1>2, <1>5, <2>1 DEF PasswordAccepted, RepromptAccepted, PromptFailed, Payable, At
  <2>2. CASE PasswordRejected(r)
    BY <1>2, <1>4, <2>2 DEF PasswordRejected
  <2>3. CASE HangUp(r)
    <3>1. \A q \in Requests : q # r => pc'[q] = pc[q] /\ kind'[q] = kind[q]
      BY <2>3 DEF HangUp, Abandon, Goto, TypeOK
    <3>2. \A a \in Accounts : owed'[a] = IF owed[a] = r THEN Dropped ELSE owed[a]
      BY <2>3 DEF HangUp, Abandon
    <3>3. \A q \in Requests : Owes(q)' => Owes(q) /\ q # r
      BY <1>1, <3>2 DEF Owes
    <3>4. QED
      BY <1>3, <3>1, <3>3 DEF WhoOwesPays
  <2>4. QED
    BY <1>14, <2>1, <2>2, <2>3 DEF UserStep
<1>15. ASSUME NEW r \in Requests, NEW k \in Kinds, NEW a \in Accounts, Accept(r, k, a)
       PROVE  WhoOwesPays'
  <2>1. \A q \in Requests : q # r => pc'[q] = pc[q] /\ kind'[q] = kind[q]
    BY <1>15 DEF Accept, Goto, TypeOK
  <2>2. ~Payable(r)
    BY <1>15 DEF Accept, Payable, At
  <2>3. NoNewDebt
    BY <1>2, <1>15 DEF Accept
  <2>4. QED
    BY <1>3, <2>1, <2>2, <2>3 DEF WhoOwesPays
<1>16. CASE UNCHANGED vars
  BY <1>2, <1>4, <1>16 DEF vars
<1>17. QED
  BY <1>10, <1>11, <1>12, <1>13, <1>14, <1>15, <1>16 DEF Next, AgentStep

\* Every request that unlocked an account and is still served has the restart of
\* the timer ahead of it (handle_request, unlock_remote_account).
THEOREM DebtsArePayable == Spec => []DebtIsPayable
<1>1. Init => Unlockers /\ WhoOwesPays
  BY RequestsAssumption DEF Init, Unlockers, WhoOwesPays, Owes
<1>2. Spec => [](Unlockers /\ WhoOwesPays)
  BY <1>1, TypeCorrect, UnlockersNext, PayNext, PTL DEF Spec
<1>3. QED
  BY <1>2, DebtByRequest, PTL

----------------------------------------------------------------------------
(* AgentLock implements Vault. What happens to the keys is one of the       *)
(* steps of the vault; what a client is shown changes only where an answer  *)
(* is decided or taken.                                                     *)

\* The kinds whose answers hold secrets.
Showing == {"decrypt", "ssh"}

\* Who passes these steps on the way to an answer has no secrets in it.
Silent ==
  \A r \in Requests :
    /\ pc[r] \in {"fetch", "refresh"} => kind[r] \in {"login", "sync", "org", "rekey"}
    /\ pc[r] = "lock" => kind[r] \in {"lock", "lock_all"}
    /\ pc[r] = "rekey" => kind[r] = "rekey"

LEMMA SilentNext ==
  ASSUME TypeOK, Silent, Unlockers, [Next]_vars
  PROVE  Silent'
<1> USE DEF TypeOK, At
<1>1. ASSUME NEW r \in Requests, NEW step, Goto(r, step), UNCHANGED kind,
             step \in {"fetch", "refresh"} => kind[r] \in {"login", "sync", "org", "rekey"},
             step \notin {"lock", "rekey"}
      PROVE  Silent'
  BY <1>1 DEF Silent, Goto
<1>2. CASE UNCHANGED <<kind, pc>>
  BY <1>2 DEF Silent
<1>3. CASE AgentStep \/ TakeLogout
  BY <1>2, <1>3 DEF AgentStep, TimerRequest, TimerFire, TakeTimeout, ApplyClear, TakeLogout
<1>4. CASE Exit
  BY <1>4 DEF Exit, Silent
<1>5. ASSUME NEW r \in Requests, TaskStep(r) PROVE Silent'
  <2>1. CASE CheckLock(r) \/ Lock(r) \/ Use(r) \/ Reply(r) \/ StartLogin(r)
    BY <1>1, <2>1 DEF CheckLock, Lock, Use, Reply, StartLogin
  <2>2. CASE Finish(r) \/ Arm(r) \/ Touch(r) \/ GiveUp(r)
    BY <1>1, <2>2 DEF Finish, Arm, Touch, GiveUp
  <2>3. CASE StartUnlock(r) \/ Install(r)
    BY <1>1, <2>3 DEF StartUnlock, Install, AfterUnlock
  <2>4. CASE Fetch(r)
    BY <1>1, <2>4 DEF Fetch, Silent
  <2>5. CASE Refresh(r)
    BY <1>1, <2>5 DEF Refresh
  <2>6. CASE Rekey(r)
    BY <1>1, <2>6 DEF Rekey, Silent
  <2>7. QED
    BY <1>5, <2>1, <2>2, <2>3, <2>4, <2>5, <2>6 DEF TaskStep
<1>6. ASSUME NEW r \in Requests, UserStep(r) PROVE Silent'
  <2>1. CASE PasswordAccepted(r)
    BY <1>1, <2>1 DEF PasswordAccepted
  <2>2. CASE PasswordRejected(r)
    BY <1>2, <2>2 DEF PasswordRejected
  <2>3. CASE RepromptAccepted(r) \/ PromptFailed(r) \/ HangUp(r)
    BY <1>1, <2>3 DEF RepromptAccepted, PromptFailed, HangUp, Abandon
  <2>4. QED
    BY <1>6, <2>1, <2>2, <2>3 DEF UserStep
<1>7. ASSUME NEW r \in Requests, NEW k \in Kinds, NEW a \in Accounts, Accept(r, k, a)
      PROVE  Silent'
  <2>1. pc' = [pc EXCEPT ![r] = FirstStep(k)] /\ kind' = [kind EXCEPT ![r] = k]
    BY <1>7 DEF Accept, Goto
  <2>2. /\ FirstStep(k) \in {"fetch", "refresh"} => k \in {"login", "sync", "org", "rekey"}
        /\ FirstStep(k) = "lock" => k \in {"lock", "lock_all"}
        /\ FirstStep(k) = "rekey" => k = "rekey"
    BY DEF FirstStep
  <2>3. QED
    BY <2>1, <2>2 DEF Silent
<1>8. CASE UNCHANGED vars
  BY <1>2, <1>8 DEF vars
<1>9. QED
  BY <1>3, <1>4, <1>5, <1>6, <1>7, <1>8 DEF Next

\* A step of a request to or from an answer without secrets shows nothing.
LEMMA ShownStays ==
  ASSUME TypeOK, NEW r \in Requests, NEW step, Goto(r, step), UNCHANGED <<kind, acct>>,
         pc[r] = "reply" => kind[r] \notin Showing,
         step = "reply" => kind[r] \notin Showing
  PROVE  UNCHANGED shown
<1>1. ASSUME NEW q \in Requests
      PROVE  At(q, "reply", {"decrypt", "ssh"})' <=> At(q, "reply", {"decrypt", "ssh"})
  BY DEF TypeOK, Goto, At, Showing
<1>2. QED
  BY <1>1 DEF shown

\* The promise of the automatic lock, in the words of the vault.
LEMMA VaultIsGuarded == TypeOK /\ ServedUnlockExpires => Promise!Guarded
  BY DEF TypeOK, ServedUnlockExpires, Promise!Guarded, open, stray, due

\* The steps of the vault that keys and timer make.
LEMMA VaultRests ==
  ASSUME UNCHANGED <<keys, owed>>, UNCHANGED shown, Promise!Guarded'
  PROVE  Promise!Reschedule
<1>1. UNCHANGED open
  BY DEF open, Unlocked, NeedsUnlock
<1>2. UNCHANGED stray
  BY <1>1 DEF stray
<1>3. QED
  BY <1>1, <1>2 DEF Promise!Reschedule

LEMMA VaultRenews ==
  ASSUME TypeOK, SetTimeout, UNCHANGED keys, UNCHANGED shown
  PROVE  Promise!Renew
<1>1. UNCHANGED open
  BY DEF open, Unlocked, NeedsUnlock
<1>2. stray' = {}
  BY DEF stray, open, SetTimeout, Settled, BySsh, Dropped
<1>3. due'
  BY AppendSchedules DEF TypeOK, SetTimeout, due, LockPending
<1>4. QED
  BY <1>1, <1>2, <1>3 DEF Promise!Renew

LEMMA VaultCloses ==
  ASSUME TypeOK, NEW a \in Accounts, ClearAccount(a), UNCHANGED shown, Promise!Guarded'
  PROVE  Promise!Close(a)
<1>1. \A b \in Accounts : Unlocked(b)' <=> Unlocked(b) /\ b # a
  BY DEF TypeOK, ClearAccount, Unlocked, NeedsUnlock
<1>2. open' = open \ {a}
  BY <1>1 DEF open
<1>3. \A b \in Accounts : b # a => owed'[b] = owed[b]
  BY DEF TypeOK, ClearAccount
<1>4. stray' = stray \ {a}
  BY <1>2, <1>3 DEF stray, open
<1>5. QED
  BY <1>2, <1>4 DEF Promise!Close

LEMMA VaultClosesAll ==
  ASSUME \A a \in Accounts : keys'[a] = {},
         shown' \in {shown, [r \in Requests |-> Nobody]}
  PROVE  Promise!CloseAll
<1>1. open' = {}
  BY DEF open, Unlocked, NeedsUnlock
<1>2. stray' = {}
  BY <1>1 DEF stray
<1>3. due' \in BOOLEAN
  BY DEF due, LockPending, Scheduled
<1>4. QED
  BY <1>1, <1>2, <1>3 DEF Promise!CloseAll

\* Keys come into memory for one account, and owe a lock unless it is the ssh
\* agent that unlocks.
LEMMA VaultOpens ==
  ASSUME TypeOK, Unlockers, NEW r \in Requests, Install(r), Promise!Guarded'
  PROVE  Promise!Next
<1> DEFINE a == acct[r]
<1>1. a \in Accounts
  BY DEF TypeOK
<1>2. kind[r] \in {"unlock", "login", "remote", "ssh"}
  BY DEF Unlockers, Install
<1>3. UNCHANGED shown
  BY <1>2, ShownStays DEF Install, AfterUnlock, Showing
<1>4. \A b \in Accounts : Unlocked(b)' <=> Unlocked(b) \/ b = a
  BY <1>1 DEF TypeOK, Install, SetUnlocked, Unlocked, NeedsUnlock, KeyParts
<1>5. open' = open \union {a}
  BY <1>1, <1>4 DEF open
<1>6. owed' = [owed EXCEPT ![a] = IF kind[r] = "ssh" THEN BySsh ELSE r]
  BY DEF Install
<1>7. CASE kind[r] = "ssh"
  <2>1. owed'[a] = BySsh /\ \A b \in Accounts : b # a => owed'[b] = owed[b]
    BY <1>1, <1>6, <1>7 DEF TypeOK
  <2>2. stray' = stray \union {a}
    BY <1>1, <1>5, <2>1 DEF stray, open
  <2>3. Promise!OpenStray(a)
    BY <1>3, <1>5, <2>2 DEF Promise!OpenStray
  <2>4. QED
    BY <1>1, <2>3 DEF Promise!Next
<1>8. CASE kind[r] # "ssh"
  <2>1. owed'[a] = r /\ \A b \in Accounts : b # a => owed'[b] = owed[b]
    BY <1>1, <1>6, <1>8 DEF TypeOK
  <2>2. r \notin {BySsh, Dropped}
    BY RequestsAssumption
  <2>3. stray' = stray \ {a}
    BY <1>1, <1>5, <2>1, <2>2 DEF stray, open
  <2>4. due'
    BY <1>1, <2>1 DEF due
  <2>5. Promise!Open(a)
    BY <1>3, <1>5, <2>3, <2>4 DEF Promise!Open
  <2>6. QED
    BY <1>1, <2>5 DEF Promise!Next
<1>9. QED
  BY <1>7, <1>8

\* An answer that is decided holds the secrets of an open account, or none.
LEMMA VaultReveals ==
  ASSUME TypeOK, NEW r \in Requests, Goto(r, "reply"), UNCHANGED <<keys, kind, acct, owed>>,
         pc[r] # "reply", Unlocked(acct[r]), UNCHANGED due, Promise!Guarded'
  PROVE  Promise!Next
<1>1. CASE kind[r] \in Showing
  <2>1. \A q \in Requests :
          At(q, "reply", {"decrypt", "ssh"})' <=> At(q, "reply", {"decrypt", "ssh"}) \/ q = r
    BY <1>1 DEF TypeOK, Goto, At, Showing
  <2>2. shown' = [shown EXCEPT ![r] = acct[r]]
    BY <2>1 DEF shown
  <2>3. UNCHANGED open
    BY DEF open, Unlocked, NeedsUnlock
  <2>4. UNCHANGED stray
    BY <2>3 DEF stray
  <2>5. acct[r] \in Accounts /\ acct[r] \in open
    BY DEF TypeOK, open
  <2>6. Promise!Reveal(r, acct[r])
    BY <2>2, <2>3, <2>4, <2>5 DEF Promise!Reveal
  <2>7. QED
    BY <2>5, <2>6 DEF Promise!Next
<1>2. CASE kind[r] \notin Showing
  <2>1. UNCHANGED shown
    BY <1>2, ShownStays
  <2>2. QED
    BY <2>1, VaultRests DEF Promise!Next
<1>3. QED
  BY <1>1, <1>2

\* Whoever takes the answer or leaves is shown nothing more.
LEMMA VaultIsLeft ==
  ASSUME TypeOK, NEW r \in Requests, NEW step, Goto(r, step), step # "reply",
         UNCHANGED <<keys, kind, acct>>, UNCHANGED owed \/ Abandon(r), Promise!Guarded'
  PROVE  Promise!Leave(r)
<1>1. \A q \in Requests :
        At(q, "reply", {"decrypt", "ssh"})' <=> At(q, "reply", {"decrypt", "ssh"}) /\ q # r
  BY DEF TypeOK, Goto, At
<1>2. shown' = [shown EXCEPT ![r] = Nobody]
  BY <1>1 DEF shown
<1>3. UNCHANGED open
  BY DEF open, Unlocked, NeedsUnlock
<1>4. \E s \in SUBSET open : stray' = stray \union s
  <2>1. CASE UNCHANGED owed
    <3>1. stray' = stray \union {}
      BY <1>3, <2>1 DEF stray
    <3>2. QED
      BY <3>1
  <2>2. CASE Abandon(r)
    <3> DEFINE s == {a \in open : owed[a] = r}
    <3>1. \A a \in open : owed'[a] = IF owed[a] = r THEN Dropped ELSE owed[a]
      BY <2>2 DEF Abandon, open
    <3>2. stray' = stray \union s
      BY <1>3, <3>1, RequestsAssumption DEF stray
    <3>3. QED
      BY <3>2
  <2>3. QED
    BY <2>1, <2>2
<1>5. QED
  BY <1>2, <1>3, <1>4 DEF Promise!Leave

LEMMA VaultTaskStep ==
  ASSUME TypeOK, KeysTogether, Silent, Unlockers, Promise!Guarded',
         NEW r \in Requests, TaskStep(r)
  PROVE  Promise!Next
<1> USE DEF At, timerVars
<1>1. ASSUME UNCHANGED <<keys, owed>>, UNCHANGED shown PROVE Promise!Next
  BY <1>1, VaultRests DEF Promise!Next
<1>2. CASE CheckLock(r)
  BY <1>1, <1>2, ShownStays DEF CheckLock, Showing
<1>3. CASE StartUnlock(r)
  BY <1>1, <1>3, ShownStays DEF StartUnlock, AfterUnlock, Showing
<1>4. CASE StartLogin(r)
  BY <1>1, <1>4, ShownStays DEF StartLogin, Showing
<1>5. CASE Install(r)
  BY <1>5, VaultOpens
<1>6. CASE Fetch(r)
  BY <1>1, <1>6, ShownStays DEF Fetch, Showing
<1>7. CASE Refresh(r)
  <2>1. acct[r] \in Accounts
    BY DEF TypeOK
  <2>2. keys' = keys
    <3>1. "rsa" \in keys[acct[r]] => keys[acct[r]] = KeyParts
      BY <2>1 DEF KeysTogether
    <3>2. [keys EXCEPT ![acct[r]] = KeyParts] = keys \/ keys[acct[r]] # KeyParts
      BY <2>1 DEF TypeOK
    <3>3. KeyParts \union {"org"} = KeyParts
      BY DEF KeyParts
    <3>4. QED
      BY <1>7, <3>1, <3>2, <3>3 DEF Refresh, RefreshOrgKeys
  <2>3. kind[r] \notin Showing
    BY <1>7 DEF Refresh, Silent, Showing
  <2>4. QED
    BY <1>1, <1>7, <2>2, <2>3, ShownStays DEF Refresh
<1>8. CASE Lock(r)
  <2>1. UNCHANGED shown
    BY <1>8, ShownStays DEF Lock, Silent, Showing
  <2>2. CASE kind[r] = "lock"
    BY <1>8, <2>1, <2>2, VaultCloses DEF Lock, TypeOK, Promise!Next
  <2>3. CASE kind[r] # "lock"
    BY <1>8, <2>1, <2>3, VaultClosesAll DEF Lock, Clear, Promise!Next
  <2>4. QED
    BY <2>2, <2>3
<1>9. CASE Rekey(r)
  <2>1. UNCHANGED shown
    BY <1>9, ShownStays DEF Rekey, Showing
  <2>2. CASE ClearAccount(acct[r])
    BY <2>1, <2>2, VaultCloses DEF TypeOK, Promise!Next
  <2>3. CASE UNCHANGED <<keys, timerReqs, owed>>
    BY <1>1, <2>1, <2>3
  <2>4. QED
    BY <1>9, <2>2, <2>3 DEF Rekey
<1>10. CASE Use(r)
  <2>1. acct[r] \in Accounts /\ Unlocked(acct[r])
    BY <1>10 DEF TypeOK, Use, KeysTogether, Unlocked, NeedsUnlock, KeyParts
  <2>2. CASE Goto(r, "reply")
    <3>1. UNCHANGED due
      BY <1>10 DEF Use, due, LockPending, Scheduled
    <3>2. QED
      BY <1>10, <2>1, <2>2, <3>1, VaultReveals DEF Use
  <2>3. CASE Goto(r, "reprompt")
    BY <1>1, <1>10, <2>3, ShownStays DEF Use, Showing
  <2>4. QED
    BY <1>10, <2>2, <2>3 DEF Use
<1>11. CASE Reply(r)
  BY <1>11, VaultIsLeft DEF Reply, Promise!Next
<1>12. CASE Finish(r)
  <2>1. UNCHANGED shown
    BY <1>12, ShownStays DEF Finish, Showing
  <2>2. QED
    BY <1>1, <1>12, <2>1, VaultRenews DEF Finish, Promise!Next
<1>13. CASE Arm(r) \/ Touch(r)
  <2>1. UNCHANGED shown
    BY <1>13, ShownStays DEF Arm, Touch, Showing
  <2>2. QED
    BY <1>13, <2>1, VaultRenews DEF Arm, Touch, Promise!Next
<1>14. CASE GiveUp(r)
  BY <1>1, <1>14, ShownStays DEF GiveUp, Showing
<1>15. QED
  BY <1>2, <1>3, <1>4, <1>5, <1>6, <1>7, <1>8, <1>9, <1>10, <1>11, <1>12, <1>13, <1>14
  DEF TaskStep

LEMMA VaultUserStep ==
  ASSUME TypeOK, PromptPinsKeys, Promise!Guarded', NEW r \in Requests, UserStep(r)
  PROVE  Promise!Next
<1> USE DEF At, timerVars
<1>1. ASSUME UNCHANGED <<keys, owed>>, UNCHANGED shown PROVE Promise!Next
  BY <1>1, VaultRests DEF Promise!Next
<1>2. CASE PasswordAccepted(r)
  BY <1>1, <1>2, ShownStays DEF PasswordAccepted, Showing
<1>3. CASE PasswordRejected(r)
  BY <1>1, <1>3 DEF PasswordRejected, shown
<1>4. CASE PromptFailed(r)
  BY <1>1, <1>4, ShownStays DEF PromptFailed, Showing
<1>5. CASE RepromptAccepted(r)
  <2>1. Unlocked(acct[r])
    BY <1>5 DEF RepromptAccepted, PromptPinsKeys
  <2>2. UNCHANGED due
    BY <1>5 DEF RepromptAccepted, due, LockPending, Scheduled
  <2>3. QED
    BY <1>5, <2>1, <2>2, VaultReveals DEF RepromptAccepted
<1>6. CASE HangUp(r)
  BY <1>6, VaultIsLeft DEF HangUp, Abandon, Promise!Next
<1>7. QED
  BY <1>2, <1>3, <1>4, <1>5, <1>6 DEF UserStep

LEMMA VaultNext ==
  ASSUME TypeOK, KeysTogether, PromptPinsKeys, Silent, Unlockers, Promise!Guarded',
         [Next]_vars
  PROVE  [Promise!Next]_(Promise!vaultVars)
<1>1. ASSUME UNCHANGED <<keys, owed>>, UNCHANGED shown PROVE Promise!Next
  BY <1>1, VaultRests DEF Promise!Next
<1>2. CASE TimerRequest \/ TimerFire \/ TakeTimeout \/ TakeLogout
  BY <1>1, <1>2 DEF TimerRequest, TimerFire, TakeTimeout, TakeLogout, shown, At
<1>3. CASE ApplyClear
  BY <1>3, VaultClosesAll DEF ApplyClear, Clear, shown, At, Promise!Next
<1>4. CASE Exit
  BY <1>4, VaultClosesAll DEF Exit, shown, At, Promise!Next
<1>5. ASSUME NEW r \in Requests, NEW k \in Kinds, NEW a \in Accounts, Accept(r, k, a)
      PROVE  Promise!Next
  <2>1. ASSUME NEW q \in Requests
        PROVE  /\ At(q, "reply", {"decrypt", "ssh"})' <=> At(q, "reply", {"decrypt", "ssh"})
               /\ At(q, "reply", {"decrypt", "ssh"}) => acct'[q] = acct[q]
    BY <1>5 DEF TypeOK, Accept, Goto, At, FirstStep
  <2>2. UNCHANGED shown
    BY <2>1 DEF shown
  <2>3. QED
    BY <1>1, <1>5, <2>2 DEF Accept
<1>6. CASE UNCHANGED vars
  BY <1>1, <1>6 DEF vars, shown, At
<1>7. QED
  BY <1>2, <1>3, <1>4, <1>5, <1>6, VaultTaskStep, VaultUserStep DEF Next, AgentStep

\* The agent with its tasks, its timer and its mutex keeps the promise of the
\* vault, for any number of accounts and requests: keys come into memory one
\* account at a time and with a lock due, a lock of everything takes them all,
\* and secrets come out of open accounts only (AgentLockVault).
THEOREM AgentKeepsPromise == Spec => ImplementsVault
<1>1. ASSUME Init PROVE Promise!Init
  <2>1. open = {}
    BY <1>1 DEF Init, open, Unlocked, NeedsUnlock
  <2>2. stray = {}
    BY <2>1 DEF stray
  <2>3. due = FALSE
    BY <1>1, RequestsAssumption DEF Init, due, LockPending, Scheduled
  <2>4. shown = [r \in Requests |-> Nobody]
    BY <1>1 DEF Init, shown, At
  <2>5. QED
    BY <2>1, <2>2, <2>3, <2>4 DEF Promise!Init
<1>2. Init => Unlockers /\ Silent
  BY DEF Init, Unlockers, Silent
<1>3. Spec => [](Unlockers /\ Silent)
  BY <1>2, TypeCorrect, UnlockersNext, SilentNext, PTL DEF Spec
<1>4. Spec => []Promise!Guarded
  BY TypeCorrect, ServedUnlocksExpire, VaultIsGuarded, PTL
<1>5. QED
  BY <1>1, <1>3, <1>4, TypeCorrect, KeysStayTogether, PromptsPinKeys, VaultNext, PTL
  DEF Spec, ImplementsVault, Promise!Spec
=============================================================================
