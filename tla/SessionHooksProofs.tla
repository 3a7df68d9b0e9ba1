--------------------------- MODULE SessionHooksProofs ---------------------------
(***************************************************************************)
(* Proofs about SessionHooks: types, and what the session file promises    *)
(* while the lock does what it is there for.                               *)
(*                                                                         *)
(* `remove_file` of a takeover deletes the lock file that is there when it *)
(* runs, which may be a fresh one: then two hooks are under the lock, and  *)
(* the properties fail (run hooks_takeover).  Nothing else can break them: *)
(* they are proved for any number of hooks and of crashes from the one     *)
(* assumption that a takeover finds the stale file it saw, TakesStaleFile. *)
(* That assumption is itself a theorem when no hook is killed, and when    *)
(* the session runs two hooks at a time, however many are killed.          *)
(***************************************************************************)
EXTENDS SessionHooks, TLAPS

(* A takeover removes the stale lock file, or finds none.                  *)
TakesStaleFile == \A h \in Hooks : Steal(h) => lock = None \/ stale

(* The constants for which it always does.                                 *)
NoRivalTakeover ==
    \/ MaxCrashes = 0
    \/ \A a, b, c \in Hooks : a = b \/ b = c \/ a = c

UnderLock == {"held", "check", "write", "release"}

-----------------------------------------------------------------------------
(* The inductive invariant, by parts. *)

(* A hook under the lock is the one whose lock file is there.              *)
HoldersOwnTheFile == \A h \in Hooks : pc[h] \in UnderLock => lock = h

(* A lock file belongs to a hook under the lock, or to a dead one, and     *)
(* only the file of a dead hook gets stale.                                *)
OwnersHoldOrDied ==
    /\ lock # None => pc[lock] \in UnderLock \cup {"dead"}
    /\ stale => lock # None /\ pc[lock] = "dead"

(* What a hook read under the lock is what the file still says, and it     *)
(* found something to do there.                                            *)
ReadsAreCurrent ==
    \A h \in Hooks : pc[h] \in {"check", "write"} =>
        state[h] = file /\ HasWork(h, file)

(* Only a hook that took its diff checks one.                              *)
ChecksHaveDiffs ==
    \A h \in Hooks : /\ phase[h] = "check" => hash[h] \in Diffs
                     /\ pc[h] = "check" => phase[h] = "check"

(* The file remembers the last block, and its sites are those of it.       *)
FileTellsLastBlock ==
    /\ file.blocked = last
    /\ file.sites # None => open /\ file.sites = last

HooksInv ==
    /\ SessionTypeOK
    /\ HoldersOwnTheFile
    /\ OwnersHoldOrDied
    /\ ReadsAreCurrent
    /\ ChecksHaveDiffs
    /\ FileTellsLastBlock
    /\ BlocksOnce

-----------------------------------------------------------------------------
(* Type correctness, which needs no assumption. *)

(* What Reported makes of a session state is a session state.              *)
LEMMA ReportedType ==
    ASSUME NEW s \in SessionState, NEW d \in Diffs
    PROVE  Reported(s, d) \in SessionState
BY DEF Reported, SessionState

(* The empty session is one too.                                           *)
LEMMA NoStateType == NoState \in SessionState
BY DEF NoState, SessionState

(* A step of the hooks keeps the types, given that a hook that checks has  *)
(* a diff to check.                                                        *)
LEMMA TypeStep ==
    ASSUME SessionTypeOK, ChecksHaveDiffs, [Next]_vars
    PROVE  SessionTypeOK' /\ ChecksHaveDiffs'
<1> USE DEF SessionTypeOK, HookPlaces, Phases
<1>1. ASSUME NEW d \in Diffs, Edit(d) PROVE SessionTypeOK' /\ ChecksHaveDiffs'
  BY <1>1 DEF Edit, lockFile, history, ChecksHaveDiffs
<1>2. ASSUME NEW c \in Commits, Commit(c) PROVE SessionTypeOK' /\ ChecksHaveDiffs'
  BY <1>2 DEF Commit, lockFile, history, ChecksHaveDiffs
<1>3. CASE LockAges
  BY <1>3 DEF LockAges, history, ChecksHaveDiffs
<1>4. CASE UNCHANGED vars
  BY <1>4 DEF vars, lockFile, history, ChecksHaveDiffs
<1>5. ASSUME NEW h \in Hooks, SessionStart(h) \/ StopEvent(h) \/ HookStep(h) \/ Crash(h)
      PROVE  SessionTypeOK' /\ ChecksHaveDiffs'
  <2>1. CASE SessionStart(h)
    BY <2>1 DEF SessionStart, Goto, lockFile, history, ChecksHaveDiffs
  <2>2. CASE StopEvent(h)
    BY <2>2 DEF StopEvent, Goto, lockFile, history, ChecksHaveDiffs
  <2>3. CASE Acquire(h)
    BY <2>3 DEF Acquire, Goto, history, ChecksHaveDiffs
  <2>4. CASE GiveUp(h)
    BY <2>4, NoStateType DEF GiveUp, AfterLock, Leave, Goto, lockFile, history, ChecksHaveDiffs
  <2>5. CASE SeesStale(h)
    BY <2>5 DEF SeesStale, Goto, lockFile, history, ChecksHaveDiffs
  <2>6. CASE Steal(h)
    BY <2>6 DEF Steal, Goto, history, ChecksHaveDiffs
  <2>7. CASE Release(h)
    BY <2>7, NoStateType DEF Release, AfterLock, Leave, Goto, history, ChecksHaveDiffs
  <2>8. CASE ReadSites(h)
    BY <2>8 DEF ReadSites, Goto, lockFile, history, ChecksHaveDiffs
  <2>9. CASE TakeDiff(h)
    BY <2>9 DEF TakeDiff, Goto, lockFile, history, ChecksHaveDiffs
  <2>10. CASE EndsSilent(h)
    BY <2>10, NoStateType DEF EndsSilent, Leave, Goto, lockFile, history, ChecksHaveDiffs
  <2>11. CASE ReadState(h)
    BY <2>11 DEF ReadState, Goto, lockFile, history, ChecksHaveDiffs
  <2>12. CASE Check(h)
    BY <2>12 DEF Check, Goto, lockFile, history, ChecksHaveDiffs
  <2>13. CASE Write(h)
    <3>1. file' \in SessionState
      <4>1. CASE phase[h] = "start"
        BY <2>13, <4>1 DEF Write, SessionState
      <4>2. CASE phase[h] = "follow"
        BY <2>13, <4>2 DEF Write, SessionState
      <4>3. CASE phase[h] = "check"
        BY <2>13, <4>3, ReportedType DEF Write, ChecksHaveDiffs
      <4> QED BY <4>1, <4>2, <4>3
    <3>2. last' \in Diffs \cup {None} /\ again' \in BOOLEAN /\ open' \in BOOLEAN
      BY <2>13 DEF Write, Blocks, ChecksHaveDiffs
    <3> QED BY <2>13, <3>1, <3>2 DEF Write, Goto, lockFile, ChecksHaveDiffs
  <2>14. CASE WriteFails(h)
    BY <2>14 DEF WriteFails, Goto, lockFile, history, ChecksHaveDiffs
  <2>15. CASE Crash(h)
    BY <2>15, NoStateType, CrashesAssumption
       DEF Crash, Leave, Goto, lockFile, ChecksHaveDiffs
  <2> QED BY <1>5, <2>1, <2>2, <2>3, <2>4, <2>5, <2>6, <2>7, <2>8, <2>9, <2>10, <2>11,
             <2>12, <2>13, <2>14, <2>15 DEF HookStep
<1> QED BY <1>1, <1>2, <1>3, <1>4, <1>5 DEF Next, Agent

(* The first state has the types.                                          *)
LEMMA TypeInit == Init => SessionTypeOK /\ ChecksHaveDiffs
<1> SUFFICES ASSUME Init PROVE SessionTypeOK /\ ChecksHaveDiffs
  OBVIOUS
<1>1. /\ pc \in [Hooks -> HookPlaces] /\ phase \in [Hooks -> Phases]
      /\ hash \in [Hooks -> Diffs \cup {None}] /\ state \in [Hooks -> SessionState]
  BY NoStateType DEF Init, HookPlaces, Phases
<1>2. crashes \in 0..MaxCrashes
  BY CrashesAssumption DEF Init
<1> QED BY <1>1, <1>2, NoStateType DEF Init, SessionTypeOK, ChecksHaveDiffs

(* Every variable has its type, for any hooks, diffs and crashes: what a   *)
(* hook writes is a session state, also when locks are lost.               *)
THEOREM SessionTypeCorrect == Spec => []SessionTypeOK
<1>1. SessionTypeOK /\ ChecksHaveDiffs /\ [Next]_vars => (SessionTypeOK /\ ChecksHaveDiffs)'
  BY TypeStep
<1> QED BY <1>1, TypeInit, PTL DEF Spec

(* A hook that read the file under the lock goes on to the check or the    *)
(* write if there is work, and gives the lock back if there is none.       *)
LEMMA ReadEffect ==
    ASSUME NEW h \in Hooks, ReadState(h)
    PROVE  \E place \in {"release", "check", "write"} :
              /\ pc' = [pc EXCEPT ![h] = place]
              /\ place # "release" => HasWork(h, file)
<1>1. CASE ~HasWork(h, file)
  BY <1>1 DEF ReadState, Goto
<1>2. CASE HasWork(h, file) /\ phase[h] = "check"
  <2>1. pc' = [pc EXCEPT ![h] = "check"]
    BY <1>2 DEF ReadState, Goto
  <2> QED BY <1>2, <2>1
<1>3. CASE HasWork(h, file) /\ phase[h] # "check"
  <2>1. pc' = [pc EXCEPT ![h] = "write"]
    BY <1>3 DEF ReadState, Goto
  <2> QED BY <1>3, <2>1
<1> QED BY <1>1, <1>2, <1>3

-----------------------------------------------------------------------------
(* The lock.  Its part of the invariant is proved first, since every other *)
(* part rests on it. *)

LockInv == HoldersOwnTheFile /\ OwnersHoldOrDied

(* A step that leaves the lock alone, and in which no hook gets under it   *)
(* or leaves it but by dying, keeps the books of the lock.                 *)
LEMMA LockUntouched ==
    ASSUME SessionTypeOK, LockInv, UNCHANGED lockFile, NEW h \in Hooks,
           \/ pc' = pc
           \/ \E place \in HookPlaces :
                 /\ pc' = [pc EXCEPT ![h] = place]
                 /\ pc[h] # "dead"
                 /\ \/ pc[h] \notin UnderLock /\ place \notin UnderLock
                    \/ pc[h] \in UnderLock /\ place \in UnderLock \cup {"dead"}
    PROVE  LockInv'
BY DEF SessionTypeOK, LockInv, HoldersOwnTheFile, OwnersHoldOrDied, lockFile, UnderLock

(* Every step keeps the books of the lock, if a takeover removes nothing   *)
(* but a stale file.                                                       *)
LEMMA LockStep ==
    ASSUME SessionTypeOK, LockInv, [Next]_vars, TakesStaleFile
    PROVE  LockInv'
<1> USE DEF HookPlaces
<1>1. ASSUME UNCHANGED lockFile, UNCHANGED pc PROVE LockInv'
  BY <1>1 DEF SessionTypeOK, LockInv, HoldersOwnTheFile, OwnersHoldOrDied, lockFile
<1>2. ASSUME NEW d \in Diffs, Edit(d) PROVE LockInv'
  BY <1>1, <1>2 DEF Edit
<1>3. ASSUME NEW c \in Commits, Commit(c) PROVE LockInv'
  BY <1>1, <1>3 DEF Commit
<1>4. CASE LockAges
  BY <1>4 DEF LockAges, LockInv, HoldersOwnTheFile, OwnersHoldOrDied, SessionTypeOK
<1>5. CASE UNCHANGED vars
  BY <1>1, <1>5 DEF vars
<1>6. ASSUME NEW h \in Hooks, SessionStart(h) \/ StopEvent(h) \/ HookStep(h) \/ Crash(h)
      PROVE  LockInv'
  <2>1. CASE SessionStart(h)
    BY <2>1, LockUntouched DEF SessionStart, Goto, UnderLock
  <2>2. CASE StopEvent(h)
    BY <2>2, LockUntouched DEF StopEvent, Goto, UnderLock
  <2>3. CASE Acquire(h)
    BY <2>3, AbsentAssumption
       DEF Acquire, Goto, UnderLock, SessionTypeOK, LockInv, HoldersOwnTheFile, OwnersHoldOrDied
  <2>4. CASE GiveUp(h)
    BY <2>4, LockUntouched DEF GiveUp, AfterLock, Leave, Goto, UnderLock
  <2>5. CASE SeesStale(h)
    BY <2>5, LockUntouched DEF SeesStale, Goto, UnderLock
  <2>6. CASE Steal(h)
    BY <2>6 DEF Steal, Goto, UnderLock, TakesStaleFile, SessionTypeOK, LockInv,
                HoldersOwnTheFile, OwnersHoldOrDied
  <2>7. CASE Release(h)
    <3>1. pc' = [pc EXCEPT ![h] = "diff"] \/ pc' = [pc EXCEPT ![h] = "idle"]
      BY <2>7 DEF Release, AfterLock, Leave, Goto
    <3> QED BY <2>7, <3>1 DEF Release, UnderLock, SessionTypeOK, LockInv, HoldersOwnTheFile,
                              OwnersHoldOrDied
  <2>8. CASE ReadSites(h)
    BY <2>8, LockUntouched DEF ReadSites, Goto, UnderLock
  <2>9. CASE TakeDiff(h)
    BY <2>9, LockUntouched DEF TakeDiff, Goto, UnderLock
  <2>10. CASE EndsSilent(h)
    BY <2>10, LockUntouched DEF EndsSilent, Leave, Goto, UnderLock
  <2>11. CASE ReadState(h)
    <3>1. PICK place \in {"release", "check", "write"} : pc' = [pc EXCEPT ![h] = place]
      BY <2>11, ReadEffect
    <3> QED BY <2>11, <3>1, LockUntouched DEF ReadState, UnderLock
  <2>12. CASE Check(h)
    BY <2>12, LockUntouched DEF Check, Goto, UnderLock
  <2>13. CASE Write(h)
    BY <2>13, LockUntouched DEF Write, Goto, UnderLock
  <2>14. CASE WriteFails(h)
    BY <2>14, LockUntouched DEF WriteFails, Goto, UnderLock
  <2>15. CASE Crash(h)
    BY <2>15, LockUntouched DEF Crash, Leave, Goto, UnderLock, SessionTypeOK
  <2> QED BY <1>6, <2>1, <2>2, <2>3, <2>4, <2>5, <2>6, <2>7, <2>8, <2>9, <2>10, <2>11,
             <2>12, <2>13, <2>14, <2>15 DEF HookStep
<1> QED BY <1>2, <1>3, <1>4, <1>5, <1>6 DEF Next, Agent

-----------------------------------------------------------------------------
(* The session file. *)

(* The part of the invariant about what the file says.                     *)
FileInv == ReadsAreCurrent /\ FileTellsLastBlock /\ BlocksOnce

(* A step that does not write the file, and after which a hook works on    *)
(* what it read only if it did before, keeps what is known of the file.    *)
LEMMA FileUntouched ==
    ASSUME FileInv, UNCHANGED <<file, last, again, open>>,
           \A g \in Hooks : pc'[g] \in {"check", "write"} =>
               /\ pc[g] \in {"check", "write"}
               /\ state'[g] = state[g] /\ phase'[g] = phase[g] /\ hash'[g] = hash[g]
    PROVE  FileInv'
BY DEF FileInv, ReadsAreCurrent, FileTellsLastBlock, BlocksOnce, HasWork

(* What a hook writes keeps the base of the session and the last block,    *)
(* and blocks on no diff for a second time.                                *)
LEMMA WriteEffect ==
    ASSUME SessionTypeOK, ChecksHaveDiffs, FileInv, NEW h \in Hooks, Write(h)
    PROVE  FileTellsLastBlock' /\ BlocksOnce' /\ (file.base # None => file'.base = file.base)
<1>1. state[h] = file /\ HasWork(h, file) /\ file \in SessionState
  BY DEF FileInv, ReadsAreCurrent, Write, SessionTypeOK
<1>2. CASE phase[h] = "start"
  BY <1>1, <1>2 DEF Write, Blocks, HasWork, FileInv, FileTellsLastBlock, BlocksOnce, SessionState
<1>3. CASE phase[h] = "follow"
  BY <1>1, <1>3 DEF Write, Blocks, HasWork, FileInv, FileTellsLastBlock, BlocksOnce, SessionState
<1>4. CASE phase[h] = "check"
  <2>1. hash[h] \in Diffs /\ hash[h] \notin {file.checked, file.blocked}
    BY <1>1, <1>4 DEF HasWork, ChecksHaveDiffs
  <2>2. file' = Reported(file, hash[h])
    BY <1>1, <1>4 DEF Write
  <2>3. CASE hash[h] \in Blocking
    BY <1>1, <1>4, <2>1, <2>2, <2>3
       DEF Write, Blocks, Reported, FileInv, FileTellsLastBlock, BlocksOnce, SessionState
  <2>4. CASE hash[h] \notin Blocking
    BY <1>1, <1>4, <2>1, <2>2, <2>4
       DEF Write, Blocks, Reported, FileInv, FileTellsLastBlock, BlocksOnce, SessionState
  <2> QED BY <2>3, <2>4
<1> QED BY <1>2, <1>3, <1>4 DEF SessionTypeOK, Phases

(* Every step keeps what is known of the file, since only the hook that    *)
(* owns the lock writes, and it writes on top of what it read under it.    *)
LEMMA FileStep ==
    ASSUME SessionTypeOK, ChecksHaveDiffs, LockInv, FileInv, [Next]_vars
    PROVE  FileInv'
<1> USE DEF SessionTypeOK
<1>1. ASSUME UNCHANGED <<file, pc, phase, hash, state, last, again, open>> PROVE FileInv'
  BY <1>1, FileUntouched
<1>2. ASSUME NEW d \in Diffs, Edit(d) PROVE FileInv'
  BY <1>1, <1>2 DEF Edit, history
<1>3. ASSUME NEW c \in Commits, Commit(c) PROVE FileInv'
  BY <1>1, <1>3 DEF Commit, history
<1>4. CASE LockAges
  BY <1>1, <1>4 DEF LockAges, history
<1>5. CASE UNCHANGED vars
  BY <1>1, <1>5 DEF vars, history
<1>6. ASSUME NEW h \in Hooks, SessionStart(h) \/ StopEvent(h) \/ HookStep(h) \/ Crash(h)
      PROVE  FileInv'
  <2>1. CASE SessionStart(h)
    BY <2>1, FileUntouched DEF SessionStart, Goto, history
  <2>2. CASE StopEvent(h)
    BY <2>2, FileUntouched DEF StopEvent, Goto, history
  <2>3. CASE Acquire(h)
    BY <2>3, FileUntouched DEF Acquire, Goto, history
  <2>4. CASE GiveUp(h)
    BY <2>4, FileUntouched DEF GiveUp, AfterLock, Leave, Goto, history
  <2>5. CASE SeesStale(h)
    BY <2>5, FileUntouched DEF SeesStale, Goto, history
  <2>6. CASE Steal(h)
    BY <2>6, FileUntouched DEF Steal, Goto, history
  <2>7. CASE Release(h)
    BY <2>7, FileUntouched DEF Release, AfterLock, Leave, Goto, history
  <2>8. CASE ReadSites(h)
    BY <2>8, FileUntouched DEF ReadSites, Goto, history
  <2>9. CASE TakeDiff(h)
    BY <2>9, FileUntouched DEF TakeDiff, Goto, history
  <2>10. CASE EndsSilent(h)
    BY <2>10, FileUntouched DEF EndsSilent, Leave, Goto, history
  <2>11. CASE ReadState(h)
    <3>1. \A g \in Hooks : pc'[g] \in {"check", "write"} =>
             \/ pc[g] \in {"check", "write"} /\ state'[g] = state[g]
             \/ g = h /\ HasWork(h, file) /\ state'[g] = file
      BY <2>11, ReadEffect DEF ReadState
    <3> QED BY <2>11, <3>1
            DEF ReadState, FileInv, ReadsAreCurrent, HasWork, FileTellsLastBlock, BlocksOnce,
                history
  <2>12. CASE Check(h)
    BY <2>12, FileUntouched DEF Check, Goto, history
  <2>13. CASE Write(h)
    <3>1. \A g \in Hooks : pc'[g] \notin {"check", "write"}
      BY <2>13, AbsentAssumption DEF Write, Goto, LockInv, HoldersOwnTheFile, UnderLock
    <3> QED BY <2>13, <3>1, WriteEffect DEF FileInv, ReadsAreCurrent
  <2>14. CASE WriteFails(h)
    BY <2>14, FileUntouched DEF WriteFails, Goto, history
  <2>15. CASE Crash(h)
    BY <2>15, FileUntouched DEF Crash, Leave, Goto
  <2> QED BY <1>6, <2>1, <2>2, <2>3, <2>4, <2>5, <2>6, <2>7, <2>8, <2>9, <2>10, <2>11,
             <2>12, <2>13, <2>14, <2>15 DEF HookStep
<1> QED BY <1>2, <1>3, <1>4, <1>5, <1>6 DEF Next, Agent

-----------------------------------------------------------------------------
(* The theorems under the assumption of the takeover. *)

(* The invariant holds at first.                                           *)
LEMMA HooksInvInit == Init => HooksInv
<1> SUFFICES ASSUME Init PROVE HooksInv
  OBVIOUS
<1>1. HoldersOwnTheFile /\ OwnersHoldOrDied /\ ReadsAreCurrent
  BY DEF Init, HoldersOwnTheFile, OwnersHoldOrDied, ReadsAreCurrent, UnderLock
<1>2. FileTellsLastBlock /\ BlocksOnce
  BY DEF Init, FileTellsLastBlock, BlocksOnce, NoState
<1> QED BY <1>1, <1>2, TypeInit DEF HooksInv

(* A step in which a takeover removes nothing but a stale file keeps it.   *)
LEMMA HooksInvNext == HooksInv /\ [Next]_vars /\ TakesStaleFile => HooksInv'
<1> SUFFICES ASSUME HooksInv, [Next]_vars, TakesStaleFile PROVE HooksInv'
  OBVIOUS
<1>1. SessionTypeOK' /\ ChecksHaveDiffs'
  BY TypeStep DEF HooksInv
<1>2. LockInv'
  BY LockStep DEF HooksInv, LockInv
<1>3. FileInv'
  BY FileStep DEF HooksInv, LockInv, FileInv
<1> QED BY <1>1, <1>2, <1>3 DEF HooksInv, LockInv, FileInv

(* Behaviours of the hooks in which every takeover finds the stale file.   *)
CarefulTakeovers == Spec /\ [][TakesStaleFile]_vars

(* In those behaviours the hooks own their locks, work on what the file    *)
(* says, and remember the last block, whatever the hooks and the kills.    *)
THEOREM HooksInvariantHolds == CarefulTakeovers => []HooksInv
<1>1. HooksInv /\ [Next]_vars /\ [TakesStaleFile]_vars => HooksInv'
  <2>1. UNCHANGED vars => TakesStaleFile
    BY DEF vars, lockFile, TakesStaleFile, Steal
  <2> QED BY <2>1, HooksInvNext
<1> QED BY <1>1, HooksInvInit, PTL DEF CarefulTakeovers, Spec

(* While takeovers find the stale file, parallel hooks block once on a     *)
(* diff between them, and a blocked diff stays silent until another blocks.*)
THEOREM BlockedOnce == CarefulTakeovers => []BlocksOnce
<1>1. HooksInv => BlocksOnce
  BY DEF HooksInv
<1> QED BY <1>1, HooksInvariantHolds, PTL

(* Then `followed` is set once, on the row of the block that marked the    *)
(* sites the hook looked at.                                               *)
THEOREM OwnBlockIsFollowed == CarefulTakeovers => []FollowsOwnBlock
<1>1. HooksInv => FollowsOwnBlock
  <2> SUFFICES ASSUME HooksInv, NEW h \in Hooks, phase[h] = "follow", pc[h] = "write"
               PROVE  open /\ state[h].sites = last /\ state[h].blocked = last
    BY DEF FollowsOwnBlock
  <2>1. state[h] = file /\ file.sites # None
    BY DEF HooksInv, ReadsAreCurrent, HasWork
  <2> QED BY <2>1 DEF HooksInv, FileTellsLastBlock
<1> QED BY <1>1, HooksInvariantHolds, PTL

(* No step of the system but a hook's write changes the session file.      *)
LEMMA OnlyWritesWrite ==
    ASSUME [Next]_vars
    PROVE  file' = file \/ \E h \in Hooks : Write(h)
<1>1. ASSUME NEW h \in Hooks, HookStep(h) PROVE file' = file \/ Write(h)
  BY <1>1 DEF HookStep, Acquire, GiveUp, SeesStale, Steal, Release, ReadSites, TakeDiff,
              EndsSilent, ReadState, Check, WriteFails
<1>2. Agent => file' = file
  BY DEF Agent, Edit, Commit, SessionStart, StopEvent
<1> QED BY <1>1, <1>2 DEF Next, LockAges, Crash, vars

(* Then a session that has a base commit keeps it, though every hook       *)
(* replaces the whole file by what it read and changed.                    *)
THEOREM BaseStays == CarefulTakeovers => BaseIsKept
<1>1. HooksInv /\ [Next]_vars => [file.base # None => file'.base = file.base]_vars
  <2> SUFFICES ASSUME HooksInv, [Next]_vars, file.base # None PROVE file'.base = file.base
    OBVIOUS
  <2>1. ASSUME NEW h \in Hooks, Write(h) PROVE file'.base = file.base
    BY <2>1, WriteEffect DEF HooksInv, FileInv
  <2> QED BY <2>1, OnlyWritesWrite
<1> QED BY <1>1, HooksInvariantHolds, PTL DEF CarefulTakeovers, Spec, BaseIsKept

-----------------------------------------------------------------------------
(* When a takeover always finds the stale file. *)

(* The hook that takes the lock over has no living rival.                  *)
AloneAtTakeover ==
    /\ MaxCrashes = 0 => \A h \in Hooks : pc[h] # "dead"
    /\ \A h \in Hooks : pc[h] = "steal" => /\ stale
                                           /\ \A g \in Hooks \ {h} : pc[g] = "dead"

(* At a takeover without a rival the file that is removed is stale.        *)
LEMMA AloneIsCareful == AloneAtTakeover => TakesStaleFile
BY DEF AloneAtTakeover, TakesStaleFile, Steal

(* A step of a living hook that does not send it to a takeover, and leaves *)
(* the file stale for others, makes no rival.                              *)
LEMMA NoRivalAppears ==
    ASSUME SessionTypeOK, AloneAtTakeover, NEW h \in Hooks, pc[h] # "dead",
           NEW place \in HookPlaces \ {"steal", "dead"}, pc' = [pc EXCEPT ![h] = place]
    PROVE  AloneAtTakeover'
BY DEF SessionTypeOK, AloneAtTakeover

(* Without kills, or with two hooks, no rival of a takeover ever appears.  *)
LEMMA AloneStep ==
    ASSUME NoRivalTakeover, SessionTypeOK, LockInv, AloneAtTakeover, [Next]_vars
    PROVE  AloneAtTakeover'
<1> USE DEF HookPlaces
<1>1. ASSUME UNCHANGED <<pc, stale>> PROVE AloneAtTakeover'
  BY <1>1 DEF AloneAtTakeover
<1>2. ASSUME NEW d \in Diffs, Edit(d) PROVE AloneAtTakeover'
  BY <1>1, <1>2 DEF Edit, lockFile
<1>3. ASSUME NEW c \in Commits, Commit(c) PROVE AloneAtTakeover'
  BY <1>1, <1>3 DEF Commit, lockFile
<1>4. CASE LockAges
  BY <1>4 DEF LockAges, AloneAtTakeover
<1>5. CASE UNCHANGED vars
  BY <1>1, <1>5 DEF vars, lockFile
<1>6. ASSUME NEW h \in Hooks, SessionStart(h) \/ StopEvent(h) \/ HookStep(h) \/ Crash(h)
      PROVE  AloneAtTakeover'
  <2>1. CASE SessionStart(h)
    BY <2>1, NoRivalAppears DEF SessionStart, Goto
  <2>2. CASE StopEvent(h)
    BY <2>2, NoRivalAppears DEF StopEvent, Goto
  <2>3. CASE Acquire(h)
    BY <2>3, NoRivalAppears DEF Acquire, Goto
  <2>4. CASE GiveUp(h)
    BY <2>4, NoRivalAppears DEF GiveUp, AfterLock, Leave, Goto
  <2>5. CASE SeesStale(h)
    <3>1. lock \in Hooks /\ pc[lock] = "dead" /\ lock # h /\ MaxCrashes # 0
      BY <2>5 DEF SeesStale, SessionTypeOK, LockInv, OwnersHoldOrDied, AloneAtTakeover
    <3>2. \A g \in Hooks : g = h \/ g = lock
      BY <3>1 DEF NoRivalTakeover
    <3>3. stale' /\ pc' = [pc EXCEPT ![h] = "steal"]
      BY <2>5 DEF SeesStale, Goto, lockFile
    <3> QED BY <3>1, <3>2, <3>3 DEF AloneAtTakeover, SessionTypeOK
  <2>6. CASE Steal(h)
    BY <2>6, NoRivalAppears DEF Steal, Goto
  <2>7. CASE Release(h)
    BY <2>7, NoRivalAppears DEF Release, AfterLock, Leave, Goto
  <2>8. CASE ReadSites(h)
    BY <2>8, NoRivalAppears DEF ReadSites, Goto
  <2>9. CASE TakeDiff(h)
    BY <2>9, NoRivalAppears DEF TakeDiff, Goto
  <2>10. CASE EndsSilent(h)
    BY <2>10, NoRivalAppears DEF EndsSilent, Leave, Goto
  <2>11. CASE ReadState(h)
    <3>1. PICK place \in {"release", "check", "write"} : pc' = [pc EXCEPT ![h] = place]
      BY <2>11, ReadEffect
    <3> QED BY <2>11, <3>1, NoRivalAppears DEF ReadState
  <2>12. CASE Check(h)
    BY <2>12, NoRivalAppears DEF Check, Goto
  <2>13. CASE Write(h)
    BY <2>13, NoRivalAppears DEF Write, Goto
  <2>14. CASE WriteFails(h)
    BY <2>14, NoRivalAppears DEF WriteFails, Goto
  <2>15. CASE Crash(h)
    <3>1. MaxCrashes # 0 /\ stale' = stale /\ pc' = [pc EXCEPT ![h] = "dead"]
      BY <2>15 DEF Crash, Leave, Goto, lockFile, SessionTypeOK
    <3> QED BY <3>1 DEF AloneAtTakeover, SessionTypeOK
  <2> QED BY <1>6, <2>1, <2>2, <2>3, <2>4, <2>5, <2>6, <2>7, <2>8, <2>9, <2>10, <2>11,
             <2>12, <2>13, <2>14, <2>15 DEF HookStep
<1> QED BY <1>2, <1>3, <1>4, <1>5, <1>6 DEF Next, Agent

(* When no hook is killed, or two hooks share the session and any of them  *)
(* is killed, every takeover finds the file that it saw to be stale.       *)
THEOREM TakeoversAreCareful ==
    ASSUME NoRivalTakeover
    PROVE  Spec => CarefulTakeovers
<1> DEFINE Inv == SessionTypeOK /\ ChecksHaveDiffs /\ LockInv /\ AloneAtTakeover
<1>1. Init => Inv
  <2> SUFFICES ASSUME Init PROVE Inv
    OBVIOUS
  <2>1. LockInv
    BY DEF Init, LockInv, HoldersOwnTheFile, OwnersHoldOrDied, UnderLock
  <2>2. AloneAtTakeover
    BY DEF Init, AloneAtTakeover
  <2> QED BY <2>1, <2>2, TypeInit
<1>2. Inv /\ [Next]_vars => Inv'
  BY TypeStep, LockStep, AloneStep, AloneIsCareful
<1>3. Inv => TakesStaleFile
  BY AloneIsCareful
<1> QED BY <1>1, <1>2, <1>3, PTL DEF Spec, CarefulTakeovers

(* So for two hooks of a session and any number of kills, or for any       *)
(* number of hooks and no kill, the hooks block once on a diff, follow     *)
(* their own block, and keep the base of the session.                      *)
THEOREM TwoHooksAgree ==
    ASSUME NoRivalTakeover
    PROVE  Spec => []BlocksOnce /\ []FollowsOwnBlock /\ BaseIsKept
BY TakeoversAreCareful, BlockedOnce, OwnBlockIsFollowed, BaseStays
===============================================================================
