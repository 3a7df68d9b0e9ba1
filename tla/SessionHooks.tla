------------------------------ MODULE SessionHooks ------------------------------
(***************************************************************************)
(* The hooks of one agent session (hooks.rs, edit_check/session.rs).       *)
(*                                                                         *)
(* Each hook is a process of its own.  SessionStart records the commit the *)
(* session began at; Stop and SubagentStop check the diff of the working   *)
(* tree and may block the agent.  They share the session file, which is    *)
(* read whole and replaced whole, and a lock file that is created          *)
(* exclusively and taken over when it is older than the timeout after      *)
(* which the harness kills a hook.                                         *)
(***************************************************************************)
EXTENDS Naturals, FiniteSets

CONSTANTS
    Hooks,      \* hook processes
    Diffs,      \* diff hashes of the working tree
    Blocking,   \* those whose check lists sites
    Commits,    \* what HEAD can be
    None,       \* a field that is not there
    MaxCrashes  \* bound: hooks that are killed

ASSUME BlockingAssumption == Blocking \subseteq Diffs
ASSUME AbsentAssumption   == None \notin Hooks \cup Diffs \cup Commits
ASSUME CrashesAssumption  == MaxCrashes \in Nat

VARIABLES
    diff,       \* the diff of the working tree
    head,       \* HEAD
    file,       \* {session_id}.json
    lock,       \* {session_id}.lock: the hook that created it, or None
    stale,      \* the lock file is older than LOCK_STALE_AGE
    pc,         \* where a hook is
    phase,      \* what it takes the lock for
    hash,       \* the diff it works on
    state,      \* the session file as it read it under the lock
    last,       \* history: the diff of the last block
    again,      \* history: two blocks in a row on one diff
    open,       \* history: no hook has recorded `followed` for that block
    crashes     \* history: hooks killed

lockFile == <<lock, stale>>
history  == <<last, again, open, crashes>>
vars     == <<diff, head, file, lockFile, pc, phase, hash, state, history>>

(* `sites` is the diff whose block marked the sites in the file.           *)
SessionState == [base : Commits \cup {None}, checked : Diffs \cup {None},
                 blocked : Diffs \cup {None}, sites : Diffs \cup {None}]
NoState == [base |-> None, checked |-> None, blocked |-> None, sites |-> None]

HookPlaces == {"idle", "readSites", "diff", "lock", "steal", "held", "check", "write",
               "release", "dead"}
Phases     == {"start", "follow", "check"}

Goto(h, place) == pc' = [pc EXCEPT ![h] = place]

(* The process is over, and what it knew is gone.                          *)
Leave(h, place) ==
    /\ Goto(h, place)
    /\ phase' = [phase EXCEPT ![h] = "start"]
    /\ hash' = [hash EXCEPT ![h] = None]
    /\ state' = [state EXCEPT ![h] = NoState]

-----------------------------------------------------------------------------
(* The agent. *)

Edit(d) ==
    /\ d # diff
    /\ diff' = d
    /\ UNCHANGED <<head, file, lockFile, pc, phase, hash, state, history>>

Commit(c) ==
    /\ c # head
    /\ head' = c
    /\ UNCHANGED <<diff, file, lockFile, pc, phase, hash, state, history>>

(* record: a SessionStart payload in a repository with a commit.           *)
SessionStart(h) ==
    /\ pc[h] = "idle"
    /\ Goto(h, "lock")
    /\ phase' = [phase EXCEPT ![h] = "start"]
    /\ UNCHANGED <<diff, head, file, lockFile, hash, state, history>>

(* stop_decision: a Stop or SubagentStop payload.                          *)
StopEvent(h) ==
    /\ pc[h] = "idle"
    /\ Goto(h, "readSites")
    /\ UNCHANGED <<diff, head, file, lockFile, phase, hash, state, history>>

-----------------------------------------------------------------------------
(* lock_session and SessionLock::drop. *)

Acquire(h) ==
    /\ pc[h] = "lock" /\ lock = None
    /\ lock' = h /\ stale' = FALSE
    /\ Goto(h, "held")
    /\ UNCHANGED <<diff, head, file, phase, hash, state, history>>

(* What a hook does after the lock, or without it: record_followed is only *)
(* the first part of a Stop hook.                                          *)
AfterLock(h) ==
    IF phase[h] = "follow"
    THEN /\ Goto(h, "diff")
         /\ state' = [state EXCEPT ![h] = NoState]
         /\ UNCHANGED <<phase, hash>>
    ELSE Leave(h, "idle")

(* Mutant of GiveUp: the lock is waited for without a deadline.            *)
WaitOn(h) ==
    /\ pc[h] = "lock" /\ lock # None
    /\ UNCHANGED vars

(* The deadline of LOCK_WAIT passed.                                       *)
GiveUp(h) ==
    /\ pc[h] = "lock" /\ lock # None
    /\ AfterLock(h)
    /\ UNCHANGED <<diff, head, file, lockFile, history>>

SeesStale(h) ==
    /\ pc[h] = "lock" /\ lock # None /\ stale
    /\ Goto(h, "steal")
    /\ UNCHANGED <<diff, head, file, lockFile, phase, hash, state, history>>

(* remove_file takes whatever lock file is there by now.                   *)
Steal(h) ==
    /\ pc[h] = "steal"
    /\ lock' = None /\ stale' = FALSE
    /\ Goto(h, "lock")
    /\ UNCHANGED <<diff, head, file, phase, hash, state, history>>

(* The drop of the lock removes the file, whoever created it.              *)
Release(h) ==
    /\ pc[h] = "release"
    /\ lock' = None /\ stale' = FALSE
    /\ AfterLock(h)
    /\ UNCHANGED <<diff, head, file, history>>

-----------------------------------------------------------------------------
(* record_followed, and the diff of stop_decision. *)

ReadSites(h) ==
    /\ pc[h] = "readSites"
    /\ IF file.sites = None
       THEN Goto(h, "diff") /\ UNCHANGED phase
       ELSE Goto(h, "lock") /\ phase' = [phase EXCEPT ![h] = "follow"]
    /\ UNCHANGED <<diff, head, file, lockFile, hash, state, history>>

TakeDiff(h) ==
    /\ pc[h] = "diff"
    /\ Goto(h, "lock")
    /\ hash' = [hash EXCEPT ![h] = diff]
    /\ phase' = [phase EXCEPT ![h] = "check"]
    /\ UNCHANGED <<diff, head, file, lockFile, state, history>>

(* stop_hook_active, no index, an index of another extractor, an error.    *)
EndsSilent(h) ==
    /\ pc[h] = "diff"
    /\ Leave(h, "idle")
    /\ UNCHANGED <<diff, head, file, lockFile, history>>

-----------------------------------------------------------------------------
(* Under the lock. *)

(* Mutant of HasWork: the sites are not read again under the lock.         *)
HasWorkUnchecked(h, s) ==
    CASE phase[h] = "start"  -> s.base = None
      [] phase[h] = "follow" -> TRUE
      [] phase[h] = "check"  -> hash[h] \notin {s.checked, s.blocked}

HasWork(h, s) ==
    CASE phase[h] = "start"  -> s.base = None
      [] phase[h] = "follow" -> s.sites # None
      [] phase[h] = "check"  -> hash[h] \notin {s.checked, s.blocked}

(* Mutant of ReadState: a missing session file is not read as an empty one.*)
ReadStateMissing(h) ==
    /\ pc[h] = "held"
    /\ state' = [state EXCEPT ![h] = IF file = NoState THEN None ELSE file]
    /\ Goto(h, IF ~HasWork(h, file)       THEN "release"
               ELSE IF phase[h] = "check" THEN "check" ELSE "write")
    /\ UNCHANGED <<diff, head, file, lockFile, phase, hash, history>>

ReadState(h) ==
    /\ pc[h] = "held"
    /\ state' = [state EXCEPT ![h] = file]
    /\ Goto(h, IF ~HasWork(h, file)       THEN "release"
               ELSE IF phase[h] = "check" THEN "check" ELSE "write")
    /\ UNCHANGED <<diff, head, file, lockFile, phase, hash, history>>

(* The check runs for a long time, under the lock; it may fail.            *)
Check(h) ==
    /\ pc[h] = "check"
    /\ Goto(h, "write") \/ Goto(h, "release")
    /\ UNCHANGED <<diff, head, file, lockFile, phase, hash, state, history>>

(* Mutants of Reported: a clean check forgets the block, or keeps nothing. *)
ReportedClean(s, d) ==
    IF d \in Blocking THEN [s EXCEPT !.checked = d, !.blocked = d, !.sites = d]
                      ELSE [s EXCEPT !.checked = d, !.blocked = None]

ReportedAnew(s, d) ==
    IF d \in Blocking THEN [NoState EXCEPT !.checked = d, !.blocked = d, !.sites = d]
                      ELSE [s EXCEPT !.checked = d]

Reported(s, d) ==
    IF d \in Blocking THEN [s EXCEPT !.checked = d, !.blocked = d, !.sites = d]
                      ELSE [s EXCEPT !.checked = d]

Blocks(h) == phase[h] = "check" /\ hash[h] \in Blocking

(* write_session replaces the whole file; the telemetry row follows.       *)
Write(h) ==
    /\ pc[h] = "write"
    /\ file' = CASE phase[h] = "start"  -> [state[h] EXCEPT !.base = head]
                 [] phase[h] = "follow" -> [state[h] EXCEPT !.sites = None]
                 [] phase[h] = "check"  -> Reported(state[h], hash[h])
    /\ Goto(h, "release")
    /\ last' = IF Blocks(h) THEN hash[h] ELSE last
    /\ again' = (again \/ (Blocks(h) /\ hash[h] = last))
    /\ open' = IF Blocks(h) THEN TRUE ELSE IF phase[h] = "follow" THEN FALSE ELSE open
    /\ UNCHANGED <<diff, head, lockFile, phase, hash, state, crashes>>

WriteFails(h) ==
    /\ pc[h] = "write"
    /\ Goto(h, "release")
    /\ UNCHANGED <<diff, head, file, lockFile, phase, hash, state, history>>

-----------------------------------------------------------------------------
(* The harness kills a hook; its lock file stays, and ages.                *)

Crash(h) ==
    /\ pc[h] \notin {"idle", "dead"}
    /\ crashes < MaxCrashes
    /\ crashes' = crashes + 1
    /\ Leave(h, "dead")
    /\ UNCHANGED <<diff, head, file, lockFile, last, again, open>>

LockAges ==
    /\ lock # None /\ ~stale
    /\ pc[lock] = "dead"
    /\ stale' = TRUE
    /\ UNCHANGED <<diff, head, file, lock, pc, phase, hash, state, history>>

-----------------------------------------------------------------------------
Init ==
    /\ diff \in Diffs /\ head \in Commits
    /\ file = NoState /\ lock = None /\ stale = FALSE
    /\ pc = [h \in Hooks |-> "idle"]
    /\ phase = [h \in Hooks |-> "start"]
    /\ hash = [h \in Hooks |-> None]
    /\ state = [h \in Hooks |-> NoState]
    /\ last = None /\ again = FALSE /\ open = FALSE /\ crashes = 0

Agent ==
    \/ \E d \in Diffs : Edit(d)
    \/ \E c \in Commits : Commit(c)
    \/ \E h \in Hooks : SessionStart(h) \/ StopEvent(h)

HookStep(h) ==
    \/ Acquire(h) \/ GiveUp(h) \/ SeesStale(h) \/ Steal(h) \/ Release(h)
    \/ ReadSites(h) \/ TakeDiff(h) \/ EndsSilent(h)
    \/ ReadState(h) \/ Check(h) \/ Write(h) \/ WriteFails(h)

Next == Agent \/ LockAges \/ \E h \in Hooks : HookStep(h) \/ Crash(h)

Spec == Init /\ [][Next]_vars

(* A hook that is not killed keeps running, and its deadline passes.       *)
HooksFairness == \A h \in Hooks : WF_vars(HookStep(h))
FairSpec == Spec /\ HooksFairness

-----------------------------------------------------------------------------
(* Properties. *)

(* Type correctness of every variable.                                     *)
SessionTypeOK ==
    /\ diff \in Diffs /\ head \in Commits
    /\ file \in SessionState
    /\ lock \in Hooks \cup {None} /\ stale \in BOOLEAN
    /\ pc \in [Hooks -> HookPlaces] /\ phase \in [Hooks -> Phases]
    /\ hash \in [Hooks -> Diffs \cup {None}] /\ state \in [Hooks -> SessionState]
    /\ last \in Diffs \cup {None} /\ again \in BOOLEAN /\ open \in BOOLEAN
    /\ crashes \in 0..MaxCrashes

(* record_session_base: "A session that has a base keeps it", though every *)
(* other hook rewrites the file from what it read.                         *)
BaseIsKept == [][file.base # None => file'.base = file.base]_vars

(* docs/edit-check.md: "parallel hooks of one session ... block once       *)
(* between them", and "a diff that blocked stays silent ... until a        *)
(* different diff blocks".                                                 *)
BlocksOnce == ~again

(* docs/edit-check.md: "The first Stop hook after a block ... sets         *)
(* `followed` on that session's block row": once, and on the row of the    *)
(* block whose sites it looked at.                                         *)
FollowsOwnBlock ==
    \A h \in Hooks : phase[h] = "follow" /\ pc[h] = "write"
        => open /\ state[h].sites = last /\ state[h].blocked = last

(* A hook ends within its deadlines, whoever holds or left the lock.       *)
EveryHookEnds == \A h \in Hooks : pc[h] # "idle" ~> pc[h] \in {"idle", "dead"}
=============================================================================
