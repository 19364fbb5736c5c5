---------------------------- MODULE SessionStore ----------------------------
(***************************************************************************)
(* The session store of the bot (messaging/session.py): conversations in   *)
(* memory, a JSON file on disk.  The event loop changes the memory; each   *)
(* change marks it dirty and starts a timer thread that writes the file    *)
(* half a second later, in place of the timer before it.  A write takes a  *)
(* snapshot under the lock and goes to disk outside it, so that several    *)
(* writes may be under way: those of timer threads and the one of the      *)
(* event loop, which writes itself on /clear and at the shut-down.         *)
(*                                                                         *)
(* What the store holds is abstracted to its version: every change makes a *)
(* new one, and versions are numbered in the order they come to be.  Under *)
(* the lock nothing is awaited, so what happens there is one step.         *)
(***************************************************************************)
EXTENDS Naturals, FiniteSets

CONSTANTS Timer,       \* timer threads; one that has ended is used again
          None,        \* Python's None
          VersionMax,  \* bound: how often the store changes
          FailMax,     \* bound: how many writes fail
          CrashMax     \* bound: how often the process ends and starts again

ASSUME StoreAssumption ==
    /\ None \notin Timer
    /\ VersionMax \in Nat
    /\ FailMax \in Nat
    /\ CrashMax \in Nat

VARIABLES
    memory,      \* version in memory: _trees, _node_to_tree, _message_log
    newest,      \* the newest version there has been
    disk,        \* version in the file
    dirty,       \* _dirty
    save_timer,  \* _save_timer
    timer,       \* what each timer thread does
    taken,       \* the snapshot each timer thread writes
    loop,        \* the event loop goes on, or is in a write of its own
    loop_taken,  \* the snapshot that it writes
    closing,     \* AppRuntime.shutdown has begun
    fails,       \* number of failed writes so far
    crashes,     \* number of restarts so far
    landed,      \* history: versions that have been in the file
    unsaved,     \* history: the last write failed and nothing changed since
    cleared      \* history: version of the last clear_all that wrote the file

threadVars == <<save_timer, timer, taken>>
loopVars == <<loop, loop_taken, closing>>
vars == <<memory, newest, disk, dirty, threadVars, loopVars, fails, crashes,
          landed, unsaved, cleared>>

Version == 0..VersionMax

TypeOK ==
    /\ memory \in Version
    /\ newest \in Version
    /\ disk \in Version
    /\ dirty \in BOOLEAN
    /\ save_timer \in Timer \cup {None}
    /\ save_timer # None => timer[save_timer] \in {"armed", "fired"}
    /\ timer \in [Timer -> {"ended", "armed", "fired", "writing"}]
    /\ taken \in [Timer -> Version]
    /\ loop \in {"ready", "clearing", "flushing"}
    /\ loop_taken \in Version
    /\ closing \in BOOLEAN
    /\ fails \in 0..FailMax
    /\ crashes \in 0..CrashMax
    /\ landed \subseteq Version
    /\ unsaved \in BOOLEAN
    /\ cleared \in Version

\* A store that has just been created, with an empty file.
Init ==
    /\ memory = 0
    /\ newest = 0
    /\ disk = 0
    /\ dirty = FALSE
    /\ save_timer = None
    /\ timer = [t \in Timer |-> "ended"]
    /\ taken = [t \in Timer |-> 0]
    /\ loop = "ready"
    /\ loop_taken = 0
    /\ closing = FALSE
    /\ fails = 0
    /\ crashes = 0
    /\ landed = {0}
    /\ unsaved = FALSE
    /\ cleared = 0

-----------------------------------------------------------------------------
(* Under the lock. *)

\* Timer.cancel: a thread that has left its sleep goes on.
Cancelled == [t \in Timer |-> IF t = save_timer /\ timer[t] = "armed" THEN "ended" ELSE timer[t]]

NewVersion ==
    /\ newest < VersionMax
    /\ newest' = newest + 1
    /\ memory' = newest'

Schedule_Unmarked(t) ==
    /\ Cancelled[t] = "ended"
    /\ timer' = [Cancelled EXCEPT ![t] = "armed"]
    /\ save_timer' = t
    /\ unsaved' = FALSE
    /\ UNCHANGED dirty

\* _schedule_save: t is the new timer.
Schedule(t) ==
    /\ Cancelled[t] = "ended"
    /\ dirty' = TRUE
    /\ timer' = [Cancelled EXCEPT ![t] = "armed"]
    /\ save_timer' = t
    /\ unsaved' = FALSE

FlushSave_StillDirty ==
    /\ timer' = Cancelled
    /\ save_timer' = None
    /\ dirty' = TRUE
    /\ unsaved' = FALSE
    /\ loop_taken' = memory'

\* _flush_save: the event loop takes the snapshot.
FlushSave ==
    /\ timer' = Cancelled
    /\ save_timer' = None
    /\ dirty' = FALSE
    /\ unsaved' = FALSE
    /\ loop_taken' = memory'

-----------------------------------------------------------------------------
(* The event loop. *)

\* save_tree, register_node, remove_tree, remove_node_mappings, a new message
\* id, and the trees restored at start-up whose nodes are no longer running.
Change ==
    /\ loop = "ready"
    /\ NewVersion
    /\ \E t \in Timer : Schedule(t)
    /\ UNCHANGED <<disk, taken, loopVars, fails, crashes, landed, cleared>>

\* clear_all: what is in memory goes, and the loop writes the file.
Clear ==
    /\ loop = "ready" /\ ~closing
    /\ NewVersion
    /\ FlushSave
    /\ loop' = "clearing"
    /\ UNCHANGED <<disk, taken, closing, fails, crashes, landed, cleared>>

\* flush_pending_save, the first step of a shut-down.
Flush ==
    /\ loop = "ready" /\ ~closing
    /\ closing' = TRUE
    /\ UNCHANGED <<memory, newest>>
    /\ FlushSave
    /\ loop' = "flushing"
    /\ UNCHANGED <<disk, taken, fails, crashes, landed, cleared>>

\* _write_data: the new file replaces the old one at once.
Land(v) ==
    /\ disk' = v
    /\ landed' = landed \cup {v}
    /\ UNCHANGED <<dirty, unsaved, fails>>

\* The disk is full or the like: the store is dirty, and no timer is started.
Fail ==
    /\ fails < FailMax
    /\ fails' = fails + 1
    /\ dirty' = TRUE
    /\ unsaved' = TRUE
    /\ UNCHANGED <<disk, landed>>

LoopWritten ==
    /\ loop # "ready"
    /\ loop' = "ready"
    /\ \/ /\ Land(loop_taken)
          /\ cleared' = IF loop = "clearing" THEN loop_taken ELSE cleared
       \/ /\ Fail
          /\ UNCHANGED cleared
    /\ UNCHANGED <<memory, newest, threadVars, loop_taken, closing, crashes>>

-----------------------------------------------------------------------------
(* The timer threads. *)

\* The half second is over and the timer was not cancelled.
Fire(t) ==
    /\ timer[t] = "armed"
    /\ timer' = [timer EXCEPT ![t] = "fired"]
    /\ UNCHANGED <<memory, newest, disk, dirty, save_timer, taken, loopVars,
                   fails, crashes, landed, unsaved, cleared>>

\* The thread has the lock and finds something to save.
Snapshot(t) ==
    /\ timer[t] = "fired" /\ dirty
    /\ timer' = [timer EXCEPT ![t] = "writing"]
    /\ taken' = [taken EXCEPT ![t] = memory]
    /\ dirty' = FALSE
    /\ save_timer' = None
    /\ unsaved' = FALSE
    /\ UNCHANGED <<memory, newest, disk, loopVars, fails, crashes, landed, cleared>>

\* Somebody else has saved it.
Idle(t) ==
    /\ timer[t] = "fired" /\ ~dirty
    /\ timer' = [timer EXCEPT ![t] = "ended"]
    /\ save_timer' = None
    /\ UNCHANGED <<memory, newest, disk, dirty, taken, loopVars,
                   fails, crashes, landed, unsaved, cleared>>

Written(t) ==
    /\ timer[t] = "writing"
    /\ timer' = [timer EXCEPT ![t] = "ended"]
    /\ Land(taken[t]) \/ Fail
    /\ UNCHANGED <<memory, newest, save_timer, taken, loopVars, crashes, cleared>>

-----------------------------------------------------------------------------
\* The process ends, at any moment, and is started again: the timer threads
\* are daemons and end with it, and _load reads the file.
Restart ==
    /\ crashes < CrashMax
    /\ crashes' = crashes + 1
    /\ memory' = disk
    /\ dirty' = FALSE
    /\ timer' = [t \in Timer |-> "ended"]
    /\ save_timer' = None
    /\ loop' = "ready"
    /\ closing' = FALSE
    /\ unsaved' = FALSE
    /\ UNCHANGED <<newest, disk, taken, loop_taken, fails, landed, cleared>>

TimerStep(t) == Fire(t) \/ Snapshot(t) \/ Idle(t) \/ Written(t)

Next ==
    \/ Change \/ Clear \/ Flush \/ LoopWritten
    \/ \E t \in Timer : TimerStep(t)
    \/ Restart

Spec == Init /\ [][Next]_vars

\* Threads are scheduled and writes return, with or without success.
StoreFairness ==
    /\ WF_vars(LoopWritten)
    /\ \A t \in Timer : WF_vars(TimerStep(t))

FairSpec == Spec /\ StoreFairness

-----------------------------------------------------------------------------
Writing == {taken[t] : t \in {t \in Timer : timer[t] = "writing"}}
               \cup (IF loop = "ready" THEN {} ELSE {loop_taken})

\* A dirty store has a thread that will take its snapshot, although a thread
\* that was too late to be cancelled drops the reference to its successor
\* (session.py:142-147); only a failed write leaves it without (150-153).
DirtyHasTimer == dirty => unsaved \/ \E t \in Timer : timer[t] \in {"armed", "fired"}

\* Nothing is forgotten: when the store is clean, what is in memory has been
\* written or is being written, whatever changed while another snapshot was
\* under way (session.py:145-149).
CleanMeansTaken == ~dirty => memory \in landed \cup Writing

\* Every version that stays in memory is written, unless a write fails.
ChangesAreSaved ==
    \A v \in Version : (memory = v) ~> (v \in landed \/ memory # v \/ fails > 0)

\* "Clear all stored sessions/trees/mappings and persist an empty store"
\* (session.py:227): after a /clear the file never shows what was there before.
ClearedStaysCleared == [][loop = "ready" => disk' >= cleared]_vars

\* What is in memory is on disk, on the way there, or has a timer that will take
\* it there (session.py: _schedule_save, _flush_save, flush_pending_save).
StoreIsKept == DirtyHasTimer /\ CleanMeansTaken
=============================================================================
