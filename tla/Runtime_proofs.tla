---------------------------- MODULE Runtime_proofs ----------------------------
(***************************************************************************)
(* Proofs about what the server process runs beside the requests: the      *)
(* session store, voice notes, the files of the admin page, the server     *)
(* with its registries and the queue in front of the chat platform; for    *)
(* any number of timer threads, notes, fields, requests, clients, keys and *)
(* submissions, and of failed writes, retries and restarts.                *)
(***************************************************************************)
EXTENDS SessionStore, Platform, MessagingLimiter, ConfigFiles, Server, Queues_proofs, FunctionTheorems, TLAPS

-----------------------------------------------------------------------------
(* The session store. *)

DiskHasLanded == disk \in landed

StoreInv == TypeOK /\ DirtyHasTimer /\ CleanMeansTaken /\ DiskHasLanded

LEMMA InitStoreInv == Init => StoreInv
<1> SUFFICES ASSUME Init PROVE StoreInv
  OBVIOUS
<1>1. TypeOK
  <2>1. /\ timer \in [Timer -> {"ended", "armed", "fired", "writing"}]
        /\ taken \in [Timer -> Version]
    BY StoreAssumption DEF Init, Version
  <2>2. 0 \in Version /\ 0 \in 0..FailMax /\ 0 \in 0..CrashMax
    BY StoreAssumption DEF Version
  <2> QED
    BY <2>1, <2>2 DEF Init, TypeOK
<1>2. DirtyHasTimer /\ CleanMeansTaken /\ DiskHasLanded
  BY DEF Init, DirtyHasTimer, CleanMeansTaken, DiskHasLanded
<1> QED
  BY <1>1, <1>2 DEF StoreInv

\* Cancelling ends at most the thread that _save_timer names.
LEMMA CancelTypes ==
    ASSUME TypeOK
    PROVE  Cancelled \in [Timer -> {"ended", "armed", "fired", "writing"}]
BY DEF TypeOK, Cancelled

\* A snapshot of the event loop: the memory is in its hands.
LEMMA FlushSaveStoreInv ==
    ASSUME StoreInv, FlushSave, memory' \in Version, newest' \in Version,
           loop' \in {"clearing", "flushing"}, closing' \in BOOLEAN,
           UNCHANGED <<disk, taken, fails, crashes, landed, cleared>>
    PROVE  StoreInv'
<1> USE DEF StoreInv, FlushSave
<1>1. TypeOK'
  BY CancelTypes, StoreAssumption DEF TypeOK
<1>2. DirtyHasTimer' /\ DiskHasLanded'
  BY DEF DirtyHasTimer, DiskHasLanded
<1>3. CleanMeansTaken'
  BY DEF CleanMeansTaken, Writing
<1> QED
  BY <1>1, <1>2, <1>3

LEMMA NewVersionTypes ==
    ASSUME TypeOK, NewVersion
    PROVE  memory' \in Version /\ newest' \in Version
BY StoreAssumption DEF TypeOK, NewVersion, Version

LEMMA NextStoreInv == StoreInv /\ [Next]_vars => StoreInv'
<1> SUFFICES ASSUME StoreInv, [Next]_vars PROVE StoreInv'
  OBVIOUS
<1> USE DEF StoreInv
<1>1. CASE Change
  <2>1. PICK t \in Timer : Schedule(t)
    BY <1>1 DEF Change
  <2>2. TypeOK'
    BY <1>1, <2>1, CancelTypes, NewVersionTypes, StoreAssumption
       DEF Change, Schedule, TypeOK, loopVars
  <2>3. timer'[t] = "armed" /\ dirty'
    BY <2>1, CancelTypes DEF Schedule
  <2> QED
    BY <1>1, <2>1, <2>2, <2>3
       DEF Change, DirtyHasTimer, CleanMeansTaken, DiskHasLanded
<1>2. CASE Clear
  BY <1>2, FlushSaveStoreInv, NewVersionTypes DEF Clear, TypeOK
<1>3. CASE Flush
  BY <1>3, FlushSaveStoreInv DEF Flush, TypeOK
<1>4. CASE LoopWritten
  <2>1. TypeOK'
    <3>1. fails' \in 0..FailMax
      BY <1>4, StoreAssumption DEF LoopWritten, Land, Fail, TypeOK
    <3> QED
      BY <1>4, <3>1 DEF LoopWritten, Land, Fail, TypeOK, threadVars
  <2>2. DirtyHasTimer' /\ DiskHasLanded'
    BY <1>4 DEF LoopWritten, Land, Fail, DirtyHasTimer, DiskHasLanded, threadVars
  <2>3. CleanMeansTaken'
    BY <1>4 DEF LoopWritten, Land, Fail, CleanMeansTaken, Writing, threadVars
  <2> QED
    BY <2>1, <2>2, <2>3
<1>5. ASSUME NEW t \in Timer, TimerStep(t) PROVE StoreInv'
  <2>1. CASE Fire(t)
    <3>1. TypeOK'
      BY <2>1 DEF Fire, TypeOK, loopVars
    <3>2. DirtyHasTimer' /\ DiskHasLanded'
      BY <2>1 DEF Fire, DirtyHasTimer, DiskHasLanded, TypeOK
    <3>3. CleanMeansTaken'
      BY <2>1 DEF Fire, CleanMeansTaken, Writing, loopVars, TypeOK
    <3> QED
      BY <3>1, <3>2, <3>3
  <2>2. CASE Snapshot(t)
    <3>1. TypeOK'
      BY <2>2, StoreAssumption DEF Snapshot, TypeOK, loopVars
    <3>2. timer'[t] = "writing" /\ taken'[t] = memory
      BY <2>2 DEF Snapshot, TypeOK
    <3> QED
      BY <2>2, <3>1, <3>2
         DEF Snapshot, DirtyHasTimer, CleanMeansTaken, DiskHasLanded, Writing
  <2>3. CASE Idle(t)
    <3>1. TypeOK'
      BY <2>3, StoreAssumption DEF Idle, TypeOK, loopVars
    <3>2. DirtyHasTimer' /\ DiskHasLanded'
      BY <2>3 DEF Idle, DirtyHasTimer, DiskHasLanded
    <3>3. CleanMeansTaken'
      BY <2>3 DEF Idle, CleanMeansTaken, Writing, loopVars, TypeOK
    <3> QED
      BY <3>1, <3>2, <3>3
  <2>4. CASE Written(t)
    <3>1. TypeOK'
      <4>1. fails' \in 0..FailMax
        BY <2>4, StoreAssumption DEF Written, Land, Fail, TypeOK
      <4>2. save_timer' # None => timer'[save_timer'] \in {"armed", "fired"}
        BY <2>4 DEF Written, TypeOK
      <4> QED
        BY <2>4, <4>1, <4>2 DEF Written, Land, Fail, TypeOK, loopVars
    <3>2. DirtyHasTimer' /\ DiskHasLanded'
      BY <2>4 DEF Written, Land, Fail, DirtyHasTimer, DiskHasLanded, TypeOK
    <3>3. CleanMeansTaken'
      BY <2>4 DEF Written, Land, Fail, CleanMeansTaken, Writing, loopVars, TypeOK
    <3> QED
      BY <3>1, <3>2, <3>3
  <2> QED
    BY <1>5, <2>1, <2>2, <2>3, <2>4 DEF TimerStep
<1>6. CASE Restart
  <2>1. TypeOK'
    <3>1. timer' \in [Timer -> {"ended", "armed", "fired", "writing"}]
      BY <1>6 DEF Restart
    <3>2. crashes' \in 0..CrashMax
      BY <1>6, StoreAssumption DEF Restart, TypeOK
    <3> QED
      BY <1>6, <3>1, <3>2 DEF Restart, TypeOK
  <2> QED
    BY <1>6, <2>1 DEF Restart, DirtyHasTimer, CleanMeansTaken, DiskHasLanded
<1>7. CASE UNCHANGED vars
  BY <1>7 DEF vars, threadVars, loopVars, TypeOK, DirtyHasTimer,
              CleanMeansTaken, DiskHasLanded, Writing
<1> QED
  BY <1>1, <1>2, <1>3, <1>4, <1>5, <1>6, <1>7 DEF Next

THEOREM StoreInvariant == Spec => []StoreInv
BY InitStoreInv, NextStoreInv, PTL DEF Spec

\* A dirty store always has a thread that will save it, unless a write has
\* just failed (session.py:127-153).
THEOREM TimerForDirty == Spec => []DirtyHasTimer
BY StoreInvariant, PTL DEF StoreInv

\* A clean store is written, or the snapshot that is on its way is what the
\* memory holds (session.py:139-173).
THEOREM CleanIsTaken == Spec => []CleanMeansTaken
BY StoreInvariant, PTL DEF StoreInv

\* What is in memory is on the disk, on its way there, or has a timer that will
\* take it there, for any number of timer threads, changes, failed writes and
\* restarts (session.py:127-173).
THEOREM StoreKept == Spec => []StoreIsKept
BY StoreInvariant, PTL DEF StoreInv, StoreIsKept

-----------------------------------------------------------------------------
(* Voice notes. *)

\* PendingVoiceRegistry holds both keys of a note or none, from its
\* registration on.
PairsPending ==
    \A n \in Note :
        /\ <<n, "voice">> \in pending <=> <<n, "status">> \in pending
        /\ <<n, "voice">> \in pending => note[n] \in {"transcribing", "ended"}

\* A note whose user was told is out of the registry and was registered once.
ToldIsGone ==
    \A n \in told : <<n, "voice">> \notin pending /\ note[n] \in {"transcribing", "ended"}

\* So is a note that was handled.
HandledIsGone ==
    \A n \in handled : <<n, "voice">> \notin pending /\ note[n] \in {"handling", "ended"}

\* Whoever still tries has an attempt left (telegram.py:151-171, 241-247).
AttemptLeft ==
    /\ link \in {"off", "starting"} => failures < max_retries
    /\ \A n \in Note : note[n] \in {"unseen", "announcing"} => attempt[n] < max_retries

NotesInv == PlatformTypeOK /\ AttemptLeft /\ PairsPending /\ ToldIsGone /\ HandledIsGone /\ CancelledIsNotHandled

LEMMA InitNotesInv == PlatformInit => NotesInv
BY PlatformAssumption DEF PlatformInit, NotesInv, PlatformTypeOK, AttemptLeft, PairsPending,
                          ToldIsGone, HandledIsGone, CancelledIsNotHandled

\* Types first: the rest concerns only the registry and what is done with notes.
LEMMA NextTypes == NotesInv /\ [PlatformNext]_platformVars => PlatformTypeOK' /\ AttemptLeft'
<1> SUFFICES ASSUME PlatformTypeOK, AttemptLeft, [PlatformNext]_platformVars
             PROVE  PlatformTypeOK' /\ AttemptLeft'
  BY DEF NotesInv
<1> USE PlatformAssumption DEF PlatformTypeOK, AttemptLeft
<1>1. CASE Start
  BY <1>1 DEF Start
<1>2. CASE Connect
  <2>1. failures' \in 0..max_retries /\ (link' = "starting" => failures' < max_retries)
    BY <1>2 DEF Connect
  <2> QED
    BY <1>2, <2>1 DEF Connect
<1>3. ASSUME NEW n \in Note, Announce(n) \/ Sent(n) \/ Refused(n)
      PROVE  PlatformTypeOK' /\ AttemptLeft'
  BY <1>3 DEF Announce, Sent, Refused, Raised, At, linkVars
<1>4. ASSUME NEW n \in Note, NetworkError(n)
      PROVE  PlatformTypeOK' /\ AttemptLeft'
  <2>1. CASE Raised(n)
    BY <1>4, <2>1 DEF NetworkError, Raised, At, linkVars
  <2>2. CASE /\ attempt' = [attempt EXCEPT ![n] = @ + 1] /\ attempt[n] + 1 # max_retries
             /\ UNCHANGED <<note, unguarded>>
    BY <1>4, <2>2 DEF NetworkError, Raised, At, linkVars
  <2> QED
    BY <1>4, <2>1, <2>2 DEF NetworkError
<1>5. ASSUME NEW n \in Note, LastChance(n)
      PROVE  PlatformTypeOK' /\ AttemptLeft'
  BY <1>5 DEF LastChance, linkVars
<1>6. ASSUME NEW n \in Note, Register(n)
      PROVE  PlatformTypeOK' /\ AttemptLeft'
  BY <1>6 DEF Register, At, linkVars, KeysOf, Key
<1>7. ASSUME NEW n \in Note, Transcribed(n) \/ TranscriptionFails(n) \/ HandlerReturns(n)
      PROVE  PlatformTypeOK' /\ AttemptLeft'
  BY <1>7 DEF Transcribed, TranscriptionFails, HandlerReturns, At, linkVars
<1>8. ASSUME NEW key \in Key, ClearReply(key)
      PROVE  PlatformTypeOK' /\ AttemptLeft'
  BY <1>8 DEF ClearReply, Cancel, linkVars, Key
<1>9. CASE UNCHANGED platformVars
  BY <1>9 DEF platformVars, linkVars
<1> HIDE DEF PlatformTypeOK, AttemptLeft
<1> QED
  BY <1>1, <1>2, <1>3, <1>4, <1>5, <1>6, <1>7, <1>8, <1>9 DEF PlatformNext, NoteStep

LEMMA NextNotesInv == NotesInv /\ [PlatformNext]_platformVars => NotesInv'
<1> SUFFICES ASSUME NotesInv, [PlatformNext]_platformVars
             PROVE  (PairsPending /\ ToldIsGone /\ HandledIsGone /\ CancelledIsNotHandled)'
  BY NextTypes DEF NotesInv
<1> DEFINE Registry == PairsPending /\ ToldIsGone /\ HandledIsGone /\ CancelledIsNotHandled
<1> USE DEF NotesInv, PlatformTypeOK, PairsPending, ToldIsGone, HandledIsGone, CancelledIsNotHandled
<1>1. CASE Start \/ Connect \/ UNCHANGED platformVars
  BY <1>1 DEF Start, Connect, platformVars, linkVars
<1>2. ASSUME NEW n \in Note, Announce(n) \/ Sent(n) \/ NetworkError(n) \/ LastChance(n) \/ Refused(n)
      PROVE  Registry'
  BY <1>2 DEF Announce, Sent, NetworkError, LastChance, Refused, Raised, At
\* A note that is registered now was never told of nor handled.
<1>3. ASSUME NEW n \in Note, Register(n)
      PROVE  Registry'
  <2>1. n \notin told /\ n \notin handled
    BY <1>3 DEF Register
  <2>2. \A x \in Note, w \in {"voice", "status"} :
            <<x, w>> \in pending' <=> <<x, w>> \in pending \/ x = n
    BY <1>3 DEF Register, KeysOf
  <2> QED
    BY <1>3, <2>1, <2>2 DEF Register, At
\* The text is handled only if the note is still pending, and so not told of.
<1>4. ASSUME NEW n \in Note, Transcribed(n)
      PROVE  Registry'
  <2>1. CASE <<n, "voice">> \in pending
    <3>1. n \notin told
      BY <2>1
    <3>2. \A x \in Note, w \in {"voice", "status"} :
              <<x, w>> \in pending' <=> <<x, w>> \in pending /\ x # n
      BY <1>4, <2>1 DEF Transcribed, KeysOf
    <3> QED
      BY <1>4, <2>1, <3>1, <3>2 DEF Transcribed, At
  <2>2. CASE <<n, "voice">> \notin pending
    BY <1>4, <2>2 DEF Transcribed, At
  <2> QED
    BY <2>1, <2>2
<1>5. ASSUME NEW n \in Note, TranscriptionFails(n) \/ HandlerReturns(n)
      PROVE  Registry'
  BY <1>5 DEF TranscriptionFails, HandlerReturns, At
\* Who finds a key in the registry finds a note that was not handled, and takes
\* out both of its keys.
<1>6. ASSUME NEW key \in Key, ClearReply(key)
      PROVE  Registry'
  <2>1. PICK n \in Note, v \in {"voice", "status"} : key = <<n, v>>
    BY DEF Key
  <2>2. <<n, "voice">> \in pending /\ key[1] = n
    BY <1>6, <2>1 DEF ClearReply
  <2>3. n \notin handled /\ note[n] \in {"transcribing", "ended"}
    BY <2>2
  <2>4. \A x \in Note, w \in {"voice", "status"} :
            <<x, w>> \in pending' <=> <<x, w>> \in pending /\ x # n
    BY <1>6, <2>2 DEF ClearReply, Cancel, KeysOf
  <2> QED
    BY <1>6, <2>2, <2>3, <2>4 DEF ClearReply
<1> HIDE DEF Registry, NotesInv, PlatformTypeOK
<1>7. Registry'
  BY <1>1, <1>2, <1>3, <1>4, <1>5, <1>6 DEF PlatformNext, NoteStep, Registry
<1> QED
  BY <1>7 DEF Registry

\* What the user was told is cancelled is never handled, whichever message the
\* /clear replied to and however late the transcription ends
\* (voice.py:24-32, telegram.py:646-651, discord.py:225-266).
THEOREM NotesCancelled == PlatformSpec => []CancelledIsNotHandled
<1>1. PlatformSpec => []NotesInv
  BY InitNotesInv, NextNotesInv, PTL DEF PlatformSpec
<1> QED
  BY <1>1, PTL DEF NotesInv
-----------------------------------------------------------------------------
(* The files of the admin page. *)

LEMMA OverAt ==
    ASSUME NEW upper, NEW lower, NEW f
    PROVE  /\ f \in DOMAIN Over(upper, lower) <=> f \in DOMAIN upper \/ f \in DOMAIN lower
           /\ f \in DOMAIN upper => Over(upper, lower)[f] = upper[f]
           /\ f \in DOMAIN lower /\ f \notin DOMAIN upper => Over(upper, lower)[f] = lower[f]
BY DEF Over

\* Every field has a value in the template or in the manifest.
LEMMA TemplateValuesOfAll == DOMAIN TemplateValues = ConfigField
<1>1. DOMAIN ManifestDefault = ConfigField /\ DOMAIN Template \subseteq ConfigField
  BY ConfigAssumption
<1>2. DOMAIN TemplateValues = DOMAIN Template \cup DOMAIN ManifestDefault
  BY DEF TemplateValues, Over
<1> QED
  BY <1>1, <1>2

\* The files of a profile: the explicit one, the managed one, the repo's.
LEMMA FilesAt ==
    ASSUME NEW p, NEW f
    PROVE  /\ f \in DOMAIN InFiles(p) <=> f \in DOMAIN outside.explicit \/ f \in DOMAIN File(p) \/ f \in DOMAIN outside.repo
           /\ f \in DOMAIN InFiles(p) =>
                 InFiles(p)[f] = IF f \in DOMAIN outside.explicit THEN outside.explicit[f]
                                 ELSE IF f \in DOMAIN File(p) THEN File(p)[f] ELSE outside.repo[f]
<1> DEFINE lower == Over(File(p), outside.repo)
<1>1. /\ f \in DOMAIN lower <=> f \in DOMAIN File(p) \/ f \in DOMAIN outside.repo
      /\ f \in DOMAIN lower => lower[f] = IF f \in DOMAIN File(p) THEN File(p)[f] ELSE outside.repo[f]
  BY OverAt
<1> HIDE DEF lower
<1>2. InFiles(p) = Over(outside.explicit, lower)
  BY DEF InFiles, lower
<1> QED
  BY <1>1, <1>2, OverAt

\* What the page shows of a field: the highest source that sets it.
ShownBySource ==
    \A f \in ConfigField :
        Shown[f] = IF f \in DOMAIN outside.process THEN outside.process[f]
                   ELSE IF f \in DOMAIN outside.explicit THEN outside.explicit[f]
                   ELSE IF f \in DOMAIN File(profile) THEN File(profile)[f]
                   ELSE IF f \in DOMAIN outside.repo THEN outside.repo[f]
                   ELSE TemplateValues[f]

LEMMA ShownFrom == ShownBySource
<1> SUFFICES ASSUME NEW f \in ConfigField
             PROVE  Shown[f] = IF f \in DOMAIN outside.process THEN outside.process[f]
                               ELSE IF f \in DOMAIN outside.explicit THEN outside.explicit[f]
                               ELSE IF f \in DOMAIN File(profile) THEN File(profile)[f]
                               ELSE IF f \in DOMAIN outside.repo THEN outside.repo[f]
                               ELSE TemplateValues[f]
  BY DEF ShownBySource
<1>1. Shown[f] = IF f \in DOMAIN outside.process THEN outside.process[f]
                 ELSE IF f \in DOMAIN InFiles(profile) THEN InFiles(profile)[f] ELSE TemplateValues[f]
  BY OverAt, TemplateValuesOfAll DEF Shown
<1> QED
  BY <1>1, FilesAt

LEMMA KeptFrom ==
    ASSUME NEW f \in ConfigField \ Locked
    PROVE  Kept[f] = IF File(profile) = NoFile THEN Shown[f]
                     ELSE IF f \in DOMAIN File(profile) THEN File(profile)[f]
                     ELSE TemplateValues[f]
<1> DEFINE free == Restrict(Shown, ConfigField \ Locked)
<1>1. f \in DOMAIN TemplateValues
  BY TemplateValuesOfAll
<1>2. f \in DOMAIN free /\ free[f] = Shown[f]
  BY DEF Restrict
<1> HIDE DEF free
<1>3. Kept = IF File(profile) # NoFile THEN Over(File(profile), TemplateValues) ELSE Over(free, TemplateValues)
  BY DEF Kept, free
<1> QED
  BY <1>1, <1>2, <1>3, OverAt

LEMMA TargetFrom ==
    ASSUME NEW u \in Updates, NEW f \in ConfigField
    PROVE  /\ f \in DOMAIN Target(u)
           /\ Target(u)[f] = IF f \in Taken(u) THEN u[f] ELSE Kept[f]
<1> DEFINE posted == Restrict(u, Taken(u))
<1>1. f \in DOMAIN Kept
  BY OverAt, TemplateValuesOfAll DEF Kept
<1>2. DOMAIN posted = Taken(u) /\ \A g \in Taken(u) : posted[g] = u[g]
  BY DEF Restrict
<1> HIDE DEF posted
<1>3. Target(u) = Over(posted, Kept)
  BY DEF Target, posted
<1> QED
  BY <1>1, <1>2, <1>3, OverAt

LEMMA WrittenFile ==
    ASSUME NEW u, Write(u)
    PROVE  File(profile)' = Target(u) /\ UNCHANGED <<outside, profile, imported>>
<1>1. managed' = Over([p \in {profile} |-> Target(u)], managed) /\ UNCHANGED <<outside, profile, imported>>
  BY DEF Write
<1>2. profile \in DOMAIN managed' /\ managed'[profile] = Target(u)
  BY <1>1 DEF Over
<1> QED
  BY <1>1, <1>2 DEF File

\* One write changes what was posted and nothing else.
LEMMA WriteApplies ==
    ASSUME NEW u \in Updates, Write(u)
    PROVE  AppliedAsAsked'
<1> SUFFICES ASSUME NEW f \in ConfigField, f \notin HandedDown'
             PROVE  Shown'[f] = IF f \in DOMAIN u \ Locked /\ ~(f \in Secret /\ u[f] = Masked)
                                THEN u[f] ELSE Shown[f]
  <2>1. last'.before = Shown /\ last'.updates = u /\ Locked' = Locked
    BY DEF Write, Locked
  <2> QED
    BY <2>1 DEF AppliedAsAsked
<1>1. File(profile)' = Target(u) /\ UNCHANGED <<outside, profile>>
  BY WrittenFile
<1>2. f \in DOMAIN Target(u) /\ Target(u)[f] = IF f \in Taken(u) THEN u[f] ELSE Kept[f]
  BY TargetFrom
<1>3. Shown'[f] = IF f \in DOMAIN outside.process THEN outside.process[f]
                  ELSE IF f \in DOMAIN outside.explicit THEN outside.explicit[f]
                  ELSE Target(u)[f]
  <2>1. Shown'[f] = IF f \in DOMAIN outside'.process THEN outside'.process[f]
                    ELSE IF f \in DOMAIN outside'.explicit THEN outside'.explicit[f]
                    ELSE IF f \in DOMAIN File(profile)' THEN File(profile)'[f]
                    ELSE IF f \in DOMAIN outside'.repo THEN outside'.repo[f]
                    ELSE TemplateValues[f]
    <3>1. ShownBySource'
      BY ShownFrom, PTL
    <3> QED
      BY <3>1 DEF ShownBySource
  <2> QED
    BY <1>1, <1>2, <2>1
<1>4. CASE f \in Locked
  BY <1>3, <1>4, ShownFrom DEF Locked, ShownBySource
<1>5. CASE f \notin Locked
  <2>1. Shown'[f] = IF f \in Taken(u) THEN u[f] ELSE Kept[f]
    BY <1>2, <1>3, <1>5 DEF Locked
  <2>2. f \in Taken(u) <=> f \in DOMAIN u \ Locked /\ ~(f \in Secret /\ u[f] = Masked)
    BY DEF Taken
  <2>3. Kept[f] = Shown[f]
    <3>1. f \notin DOMAIN outside.repo \ DOMAIN File(profile) \/ File(profile) = NoFile
      BY <1>1 DEF HandedDown, Write
    <3> QED
      BY <1>5, <3>1, KeptFrom, ShownFrom DEF Locked, ShownBySource
  <2> QED
    BY <2>1, <2>2, <2>3
<1> QED
  BY <1>4, <1>5

\* What was cached was loaded from the files as they still are.
CachedIsLoaded == cached = NotCached \/ cached = Loaded(imported)

FilesInv == AppliedAsAsked /\ CachedIsLoaded

LEMMA StartFilesInv ==
    ASSUME NEW p, StartServer(p)
    PROVE  FilesInv'
<1>1. last' = NoWrite /\ imported' = p /\ cached' = Loaded(p)'
  BY DEF StartServer
<1>2. Loaded(p)' = Loaded(imported)'
  BY <1>1 DEF Loaded, WithDotenvToken, InFiles, File
<1> QED
  BY <1>1, <1>2 DEF FilesInv, AppliedAsAsked, CachedIsLoaded

LEMMA NextFilesInv == FilesInv /\ [ConfigNext]_configVars => FilesInv'
<1> SUFFICES ASSUME FilesInv, [ConfigNext]_configVars PROVE FilesInv'
  OBVIOUS
<1>1. CASE UNCHANGED configVars
  BY <1>1 DEF configVars, FilesInv, AppliedAsAsked, CachedIsLoaded, HandedDown, Shown, Locked, Loaded,
              WithDotenvToken, InFiles, File
<1>2. ASSUME NEW u \in Updates, ApplyConfig(u) \/ ImportConfig(u)
      PROVE  FilesInv'
  BY <1>2, WriteApplies DEF ApplyConfig, ImportConfig, FilesInv, CachedIsLoaded
<1>3. ASSUME NEW p, SwitchProfile(p)
      PROVE  FilesInv'
  BY <1>3 DEF SwitchProfile, FilesInv, AppliedAsAsked, CachedIsLoaded
<1>4. CASE UseSettings
  <2>1. Loaded(imported)' = Loaded(imported)
    BY <1>4 DEF UseSettings, Loaded, WithDotenvToken, InFiles, File
  <2> QED
    BY <1>4, <2>1 DEF UseSettings, FilesInv, AppliedAsAsked, CachedIsLoaded
<1> QED
  BY <1>1, <1>2, <1>3, <1>4, StartFilesInv DEF ConfigNext, ServeAgain, StartProcess

LEMMA InUseIsLoaded == CachedIsLoaded => InUse = Loaded(imported)
BY DEF CachedIsLoaded, InUse

\* With a whole file of the profile the defaults do not matter.
LEMMA LoadedFrom ==
    ASSUME NEW f \in ConfigField \ {AuthToken}, DOMAIN File(profile) = ConfigField
    PROVE  Loaded(profile)[f] = Shown[f]
<1> DEFINE values == Over(outside.process, Over(InFiles(profile), BuiltIn))
<1>0. f \in DOMAIN InFiles(profile)
  BY FilesAt
<1>1. f \in DOMAIN values
  BY <1>0, OverAt
<1>2. values[f] = Shown[f]
  BY <1>0, OverAt DEF Shown
<1>3. values = [g \in DOMAIN values |-> values[g]]
  BY DEF Over
<1> HIDE DEF values
<1>4. WithDotenvToken(values, profile)[f] = values[f]
  BY <1>1, <1>3 DEF WithDotenvToken
<1> QED
  BY <1>2, <1>4 DEF Loaded, values

LEMMA FilesUsed == FilesInv => UsedAsShown
BY InUseIsLoaded, LoadedFrom DEF FilesInv, UsedAsShown

LEMMA InitFilesInv == ConfigInit => FilesInv
BY DEF ConfigInit, FilesInv, AppliedAsAsked, CachedIsLoaded

\* A write of the page changes what is in force for the fields that were posted
\* and for no other, for every manifest, every content of the files and of the
\* environment, and every update (admin_config.py: _target_values_with_updates,
\* write_managed_env).
THEOREM Applies == ConfigSpec => []AppliedAsAsked
BY InitFilesInv, NextFilesInv, PTL DEF ConfigSpec, FilesInv

\* Once the page has written the profile's file, the server uses what the page
\* shows, whatever is cached and however it is started again
\* (settings.py: get_settings, cli/entrypoints.py: serve).
THEOREM Uses == ConfigSpec => []UsedAsShown
BY InitFilesInv, NextFilesInv, FilesUsed, PTL DEF ConfigSpec

-----------------------------------------------------------------------------
(* The server and its registries. *)

Rows == [Entry -> Nat]

Clients == [settings: 0..SaveMax, state: {"open", "closed", "failed"}]

Cleanings == [registry: Nat, items: Seq(Nat), next: Nat \ {0}, failed: BOOLEAN]

RequestStates == [at: {"none", "waiting", "using"}, settings: 0..SaveMax, client: Nat]

StepNames == {"platform", "cli", "providers", "limiter"}

ServerShape ==
    /\ phase \in {"starting", "serving", "draining", "stopping", "ended"}
    /\ steps \in Seq(StepNames)
    /\ restart \in BOOLEAN
    /\ saved \in 0..SaveMax
    /\ current \in Nat /\ own \in Nat
    /\ cache \in Seq(Rows)
    /\ client \in Seq(Clients)
    /\ cleaning \in [Cleaner -> Cleanings]
    /\ request \in [Request -> RequestStates]

\* Whatever names a registry or a client names one that was made.
NamesExist ==
    /\ current <= Len(cache) /\ own <= Len(cache)
    /\ \A g \in 1..Len(cache), e \in Entry : cache[g][e] <= Len(client)
    /\ \A x \in Cleaner : cleaning[x].registry <= Len(cache)
    /\ \A x \in Cleaner : \A i \in 1..Len(cleaning[x].items) : cleaning[x].items[i] \in 1..Len(client)
    /\ \A r \in Request : request[r].client <= Len(client)

\* When there is a registry, and who may be at work.
Course ==
    /\ phase \in {"serving", "draining", "stopping"} => current # 0 /\ own # 0
    /\ \A r \in Request : request[r].at # "none" => phase \in {"serving", "draining"}
    /\ \A a \in Admin : cleaning[a].registry # 0 => phase \in {"serving", "draining"}
    /\ cleaning[Down].registry # 0 => /\ phase = "stopping" /\ cleaning[Down].registry = own
                                      /\ steps # <<>> /\ Head(steps) = "providers"
    /\ \A x \in Cleaner : cleaning[x].registry = 0 => cleaning[x] = NotCleaning

\* A client belongs to one registry; so do the clients of a cleanup, ...
ClientsBelong ==
    /\ \A g, h \in 1..Len(cache), e, f \in Entry : cache[g][e] # 0 /\ cache[g][e] = cache[h][f] => g = h
    /\ \A x \in Cleaner : \A i \in 1..Len(cleaning[x].items), h \in 1..Len(cache), e \in Entry :
          cache[h][e] = cleaning[x].items[i] => h = cleaning[x].registry

\* ... so that only those of a registry that is being cleaned may be closed ...
OpenUnlessCleaned ==
    \A g \in 1..Len(cache) : (\A x \in Cleaner : cleaning[x].registry # g) =>
        \A e \in Entry : cache[g][e] # 0 => client[cache[g][e]].state = "open"

\* ... and those that the cleanup went past are.
PassedAreTried ==
    \A x \in Cleaner : \A i \in 1..Len(cleaning[x].items) :
        i < cleaning[x].next => client[cleaning[x].items[i]].state # "open"

ServerInv == ServerShape /\ NamesExist /\ Course /\ ClientsBelong /\ OpenUnlessCleaned /\ PassedAreTried

\* New clients, all of registry g, and registries that lose clients or are new.
Grown(g) ==
    /\ client' \in Seq(Clients) /\ cache' \in Seq(Rows)
    /\ Len(client) <= Len(client') /\ Len(cache) <= Len(cache')
    /\ \A i \in 1..Len(client) : client'[i] = client[i]
    /\ \A i \in Len(client) + 1..Len(client') : client'[i].state = "open"
    /\ \A h \in 1..Len(cache'), e \in Entry :
          \/ cache'[h][e] = 0
          \/ h <= Len(cache) /\ cache'[h][e] = cache[h][e]
          \/ h = g /\ cache'[h][e] \in Len(client) + 1..Len(client')

\* Cleanups go on, or end and leave their registry empty.
Released ==
    \A x \in Cleaner :
        \/ cleaning'[x] = cleaning[x]
        \/ /\ cleaning'[x] = NotCleaning
           /\ cleaning[x].registry # 0 => \A e \in Entry : cache'[cleaning[x].registry][e] = 0

LEMMA NotCleaningIs ==
    /\ NotCleaning \in Cleanings /\ NotCleaning.registry = 0 /\ Len(NotCleaning.items) = 0
    /\ NotCleaning.items = <<>>
BY EmptySeq DEF NotCleaning, Cleanings

LEMMA GrownKeeps ==
    ASSUME ServerInv, NEW g, Grown(g), Released,
           cleaning' \in [Cleaner -> Cleanings]
    PROVE  /\ ClientsBelong' /\ OpenUnlessCleaned' /\ PassedAreTried'
           /\ \A h \in 1..Len(cache'), e \in Entry : cache'[h][e] <= Len(client')
           /\ \A x \in Cleaner : cleaning'[x].registry <= Len(cache')
           /\ \A x \in Cleaner : \A i \in 1..Len(cleaning'[x].items) : cleaning'[x].items[i] \in 1..Len(client')
<1>1. /\ Len(client) \in Nat /\ Len(client') \in Nat /\ Len(cache) \in Nat /\ Len(cache') \in Nat
      /\ \A x \in Cleaner : cleaning[x].registry \in Nat /\ Len(cleaning[x].items) \in Nat
      /\ \A h \in 1..Len(cache), e \in Entry : cache[h][e] \in Nat
      /\ \A h \in 1..Len(cache'), e \in Entry : cache'[h][e] \in Nat
  <2>1. Len(client) \in Nat /\ Len(client') \in Nat /\ Len(cache) \in Nat /\ Len(cache') \in Nat
    BY LenProperties DEF ServerInv, ServerShape, Grown
  <2>2. \A x \in Cleaner : cleaning[x].registry \in Nat /\ Len(cleaning[x].items) \in Nat
    BY LenProperties DEF ServerInv, ServerShape, Cleanings
  <2>3. \A h \in 1..Len(cache) : cache[h] \in Rows
    BY ElementOfSeq DEF ServerInv, ServerShape
  <2>4. \A h \in 1..Len(cache') : cache'[h] \in Rows
    BY ElementOfSeq DEF Grown
  <2> QED
    BY <2>1, <2>2, <2>3, <2>4 DEF Rows
<1>2. /\ Len(client) <= Len(client') /\ Len(cache) <= Len(cache')
      /\ \A i \in 1..Len(client) : client'[i] = client[i]
      /\ \A i \in Len(client) + 1..Len(client') : client'[i].state = "open"
      /\ \A h \in 1..Len(cache'), e \in Entry :
            \/ cache'[h][e] = 0
            \/ h <= Len(cache) /\ cache'[h][e] = cache[h][e]
            \/ h = g /\ cache'[h][e] \in Len(client) + 1..Len(client')
  BY DEF Grown
<1>3. /\ \A h \in 1..Len(cache), e \in Entry : cache[h][e] <= Len(client)
      /\ \A x \in Cleaner : cleaning[x].registry <= Len(cache)
      /\ \A x \in Cleaner : \A i \in 1..Len(cleaning[x].items) : cleaning[x].items[i] \in 1..Len(client)
  BY DEF ServerInv, NamesExist
<1>4. \A x \in Cleaner : /\ cleaning'[x].registry \in {cleaning[x].registry, 0}
                         /\ Len(cleaning'[x].items) \in Nat
                         /\ Len(cleaning'[x].items) # 0 => cleaning'[x] = cleaning[x]
  BY <1>1, NotCleaningIs DEF Released
<1>5. \A h \in 1..Len(cache'), e \in Entry : cache'[h][e] <= Len(client')
  BY <1>1, <1>2, <1>3
<1>6. \A x \in Cleaner : cleaning'[x].registry <= Len(cache')
  BY <1>1, <1>2, <1>3, <1>4
<1>7. \A x \in Cleaner : \A i \in 1..Len(cleaning'[x].items) :
          /\ cleaning'[x] = cleaning[x] /\ i \in 1..Len(cleaning[x].items)
          /\ cleaning'[x].items[i] \in 1..Len(client) /\ cleaning'[x].items[i] \in 1..Len(client')
  BY <1>1, <1>2, <1>3, <1>4
<1>8. ClientsBelong'
  <2>1. \A h \in 1..Len(cache'), k \in 1..Len(cache'), e, f \in Entry :
            cache'[h][e] # 0 /\ cache'[h][e] = cache'[k][f] => h = k
    <3>1. \A h \in 1..Len(cache), k \in 1..Len(cache), e, f \in Entry :
              cache[h][e] # 0 /\ cache[h][e] = cache[k][f] => h = k
      BY DEF ServerInv, ClientsBelong
    <3> SUFFICES ASSUME NEW h \in 1..Len(cache'), NEW k \in 1..Len(cache'), NEW e \in Entry, NEW f \in Entry,
                        cache'[h][e] # 0, cache'[h][e] = cache'[k][f]
                 PROVE  h = k
      OBVIOUS
    <3>2. CASE cache'[h][e] > Len(client)
      BY <1>1, <1>2, <1>3, <3>2
    <3>3. CASE ~(cache'[h][e] > Len(client))
      <4>1. /\ h <= Len(cache) /\ cache'[h][e] = cache[h][e]
            /\ k <= Len(cache) /\ cache'[k][f] = cache[k][f]
        BY <1>1, <1>2, <3>3
      <4>2. h \in 1..Len(cache) /\ k \in 1..Len(cache)
        BY <1>1, <4>1
      <4>3. cache[h][e] # 0 /\ cache[h][e] = cache[k][f]
        BY <4>1
      <4> QED
        BY <3>1, <4>2, <4>3, Zenon
    <3> QED
      BY <3>2, <3>3
  <2>2. \A x \in Cleaner : \A i \in 1..Len(cleaning'[x].items), h \in 1..Len(cache'), e \in Entry :
            cache'[h][e] = cleaning'[x].items[i] => h = cleaning'[x].registry
    <3> SUFFICES ASSUME NEW x \in Cleaner, NEW i \in 1..Len(cleaning'[x].items), NEW h \in 1..Len(cache'),
                        NEW e \in Entry, cache'[h][e] = cleaning'[x].items[i]
                 PROVE  h = cleaning'[x].registry
      OBVIOUS
    <3>1. /\ cleaning'[x] = cleaning[x] /\ i \in 1..Len(cleaning[x].items)
          /\ cache'[h][e] \in 1..Len(client)
      BY <1>7
    <3>2. h <= Len(cache) /\ cache'[h][e] = cache[h][e]
      BY <1>1, <1>2, <3>1
    <3>3. h \in 1..Len(cache)
      BY <1>1, <3>2
    <3> QED
      BY <3>1, <3>2, <3>3 DEF ServerInv, ClientsBelong
  <2> QED
    BY <2>1, <2>2 DEF ClientsBelong
<1>9. OpenUnlessCleaned'
  <2> SUFFICES ASSUME NEW h \in 1..Len(cache'), \A x \in Cleaner : cleaning'[x].registry # h,
                      NEW e \in Entry, cache'[h][e] # 0
               PROVE  client'[cache'[h][e]].state = "open"
    BY DEF OpenUnlessCleaned
  <2>1. CASE h = g /\ cache'[h][e] \in Len(client) + 1..Len(client')
    BY <1>2, <2>1
  <2>2. CASE h <= Len(cache) /\ cache'[h][e] = cache[h][e]
    <3>1. h \in 1..Len(cache) /\ cache[h][e] \in 1..Len(client)
      BY <1>1, <1>3, <2>2
    <3>2. \A x \in Cleaner : cleaning[x].registry # h
      BY <1>1 DEF Released
    <3>3. client[cache[h][e]].state = "open"
      BY <2>2, <3>1, <3>2 DEF ServerInv, OpenUnlessCleaned
    <3> QED
      BY <1>2, <2>2, <3>1, <3>3
  <2> QED
    BY <1>2, <2>1, <2>2
<1>10. PassedAreTried'
  <2> SUFFICES ASSUME NEW x \in Cleaner, NEW i \in 1..Len(cleaning'[x].items), i < cleaning'[x].next
               PROVE  client'[cleaning'[x].items[i]].state # "open"
    BY DEF PassedAreTried
  <2>1. cleaning'[x] = cleaning[x] /\ i \in 1..Len(cleaning[x].items) /\ cleaning'[x].items[i] \in 1..Len(client)
    BY <1>7
  <2>2. client[cleaning[x].items[i]].state # "open"
    BY <2>1 DEF ServerInv, PassedAreTried
  <2> QED
    BY <1>2, <2>1, <2>2
<1> QED
  BY <1>5, <1>6, <1>7, <1>8, <1>9, <1>10

\* The clients of a registry, and no others.
LEMMA ItemsAre ==
    ASSUME ServerInv, NEW g \in 1..Len(cache)
    PROVE  /\ Items(g) \in Seq(Nat) /\ Len(Items(g)) \in Nat
           /\ \A i \in 1..Len(Items(g)) : /\ Items(g)[i] \in 1..Len(client)
                                          /\ \E e \in Entry : cache[g][e] = Items(g)[i] /\ cache[g][e] # 0
<1> DEFINE all == [i \in DOMAIN client |-> i]
           others == DOMAIN client \ {cache[g][e] : e \in Entry}
<1>1. client \in Seq(Clients) /\ Len(client) \in Nat /\ DOMAIN client = 1..Len(client)
  BY LenProperties DEF ServerInv, ServerShape
<1> DEFINE numbers == 1..Len(client)
<1>2. all \in Seq(numbers) /\ ToSet(all) = numbers
  <2>1. all = [i \in 1..Len(client) |-> i]
    BY <1>1
  <2>2. all \in Seq(1..Len(client)) /\ DOMAIN all = 1..Len(client)
    BY <1>1, <2>1
  <2> QED
    BY <2>1, <2>2 DEF ToSet
<1> HIDE DEF all, others, numbers
<1>3. Remaining(all, others) \in Seq(numbers) /\ ToSet(Remaining(all, others)) = numbers \ others
  BY <1>2, QueueRemaining
<1>4. Items(g) = Remaining(all, others)
  BY DEF Items, all, others
<1> DEFINE s == Items(g)
<1>5. s \in Seq(1..Len(client)) /\ ToSet(s) = 1..Len(client) \ others
  BY <1>3, <1>4 DEF numbers
<1> HIDE DEF s
<1>6. Len(s) \in Nat /\ DOMAIN s = 1..Len(s) /\ \A i \in 1..Len(s) : s[i] \in ToSet(s)
  BY <1>5, LenProperties DEF ToSet
<1>7. s \in Seq(Nat)
  BY <1>1, <1>5, <1>6
<1>8. \A i \in 1..Len(s) : s[i] \in 1..Len(client) /\ \E e \in Entry : cache[g][e] = s[i] /\ cache[g][e] # 0
  BY <1>1, <1>5, <1>6 DEF others
<1> QED
  BY <1>6, <1>7, <1>8 DEF s

LEMMA NothingGrown ==
    ASSUME ServerInv, UNCHANGED <<client, cache>>, NEW g
    PROVE  Grown(g)
<1>1. /\ client \in Seq(Clients) /\ cache \in Seq(Rows)
      /\ Len(client) \in Nat /\ Len(cache) \in Nat
  BY LenProperties DEF ServerInv, ServerShape
<1> QED
  BY <1>1 DEF Grown

LEMMA GetGrown ==
    ASSUME ServerInv, NEW g \in 1..Len(cache), NEW e \in Entry, NEW s \in 0..SaveMax, Get(g, e, s)
    PROVE  Grown(g) /\ Len(cache') = Len(cache) /\ cache'[g][e] \in Nat /\ cache'[g][e] <= Len(client')
<1>1. /\ client \in Seq(Clients) /\ cache \in Seq(Rows)
      /\ Len(client) \in Nat /\ Len(cache) \in Nat /\ DOMAIN cache = 1..Len(cache)
      /\ \A h \in 1..Len(cache) : cache[h] \in Rows
      /\ \A h \in 1..Len(cache), f \in Entry : cache[h][f] \in Nat /\ cache[h][f] <= Len(client)
  <2>1. client \in Seq(Clients) /\ cache \in Seq(Rows)
    BY DEF ServerInv, ServerShape
  <2>2. Len(client) \in Nat /\ Len(cache) \in Nat /\ DOMAIN cache = 1..Len(cache)
    BY <2>1, LenProperties
  <2>3. \A h \in 1..Len(cache) : cache[h] \in Rows
    BY <2>1, ElementOfSeq
  <2> QED
    BY <2>1, <2>2, <2>3 DEF ServerInv, NamesExist, Rows
<1>2. CASE Cached(g, e)
  BY <1>1, <1>2, NothingGrown DEF Cached
<1>3. CASE Created(g, e, s)
  <2> DEFINE new == [settings |-> s, state |-> "open"]
  <2>1. new \in Clients /\ new.state = "open"
    BY DEF Clients
  <2>2. client' = Append(client, new)
    BY <1>3 DEF Created
  <2> HIDE DEF new
  <2>3. /\ client' \in Seq(Clients) /\ Len(client') = Len(client) + 1
        /\ \A i \in 1..Len(client) : client'[i] = client[i]
        /\ client'[Len(client) + 1] = new
    BY <1>1, <2>1, <2>2, AppendProperties
  <2>4. cache' = [cache EXCEPT ![g] = [cache[g] EXCEPT ![e] = Len(client')]]
    BY <1>3 DEF Created
  <2> DEFINE row == [cache[g] EXCEPT ![e] = Len(client')]
  <2>5. row \in Rows /\ row[e] = Len(client) + 1 /\ \A f \in Entry : f # e => row[f] = cache[g][f]
    BY <1>1, <2>3 DEF Rows
  <2> HIDE DEF row
  <2>6. cache' = [cache EXCEPT ![g] = row]
    BY <2>4 DEF row
  <2>7. /\ cache' \in Seq(Rows) /\ Len(cache') = Len(cache)
        /\ cache'[g] = row /\ \A h \in 1..Len(cache) : h # g => cache'[h] = cache[h]
    BY <1>1, <2>5, <2>6, ExceptSeq
  <2> QED
    BY <1>1, <2>1, <2>3, <2>5, <2>7 DEF Grown
<1> QED
  BY <1>2, <1>3 DEF Get

\* A registry that loses all its clients, and one that takes its place.
LEMMA EmptiedGrown ==
    ASSUME ServerInv, NEW g \in 1..Len(cache), UNCHANGED client,
           Cleared(g) \/ Replaced(g)
    PROVE  /\ Grown(g) /\ \A e \in Entry : cache'[g][e] = 0
           /\ Len(cache') \in Nat
           /\ Replaced(g) => current' = Len(cache') /\ Len(cache') # 0
<1> DEFINE left == [cache EXCEPT ![g] = Empty]
<1>1. /\ client \in Seq(Clients) /\ cache \in Seq(Rows)
      /\ Len(client) \in Nat /\ Len(cache) \in Nat /\ DOMAIN cache = 1..Len(cache)
  BY LenProperties DEF ServerInv, ServerShape
<1>2. Empty \in Rows /\ \A e \in Entry : Empty[e] = 0
  BY DEF Empty, Rows
<1>3. /\ left \in Seq(Rows) /\ Len(left) = Len(cache)
      /\ left[g] = Empty /\ \A h \in 1..Len(cache) : h # g => left[h] = cache[h]
  BY <1>1, <1>2, ExceptSeq
<1> HIDE DEF left
<1>4. CASE Cleared(g)
  <2>1. cache' = left
    BY <1>4 DEF Cleared, left
  <2> QED
    BY <1>1, <1>2, <1>3, <2>1 DEF Grown, Replaced
<1>5. CASE Replaced(g)
  <2>1. cache' = Append(left, Empty) /\ current' = Len(cache')
    BY <1>5 DEF Replaced, left
  <2>2. /\ cache' \in Seq(Rows) /\ Len(cache') = Len(cache) + 1
        /\ \A h \in 1..Len(cache) : cache'[h] = left[h]
        /\ cache'[Len(cache) + 1] = Empty
    BY <1>2, <1>3, <2>1, AppendProperties
  <2>3. \A h \in 1..Len(cache') : cache'[h] = Empty \/ (h <= Len(cache) /\ cache'[h] = cache[h])
    BY <1>1, <1>3, <2>2
  <2>4. \A h \in 1..Len(cache'), e \in Entry : cache'[h][e] = 0 \/ (h <= Len(cache) /\ cache'[h][e] = cache[h][e])
    BY <1>2, <2>3
  <2>5. Grown(g)
    BY <1>1, <2>2, <2>4 DEF Grown
  <2> QED
    BY <1>1, <1>2, <1>3, <2>1, <2>2, <2>5
<1> QED
  BY <1>4, <1>5

\* The clients of the configured models, each of an entry of its own.
LEMMA ValidatedGrown ==
    ASSUME ServerInv, NEW asked \in SUBSET Entry, ValidateConfigured(asked)
    PROVE  Grown(Len(cache')) /\ Len(cache') \in Nat /\ Len(cache') # 0
<1> DEFINE n == Cardinality(asked)
           order == CHOOSE f \in [asked -> 1..n] : {f[e] : e \in asked} = 1..n
           made == [e \in Entry |-> IF e \in asked THEN Len(client) + order[e] ELSE 0]
           new == [i \in 1..n |-> [settings |-> saved, state |-> "open"]]
<1>1. /\ client \in Seq(Clients) /\ cache \in Seq(Rows) /\ saved \in 0..SaveMax
      /\ Len(client) \in Nat /\ Len(cache) \in Nat
  BY LenProperties DEF ServerInv, ServerShape
<1>2. n \in Nat /\ ExistsBijection(1..n, asked)
  BY FS_Subset, FS_CardinalityType, ServerAssumption
<1>3. \E f \in [asked -> 1..n] : {f[e] : e \in asked} = 1..n
  <2>1. PICK f : f \in Bijection(asked, 1..n)
    BY <1>2, Fun_ExistsBijSymmetric DEF ExistsBijection
  <2> QED
    BY <2>1 DEF Bijection, Surjection, Injection
<1>4. order \in [asked -> 1..n]
  BY <1>3
<1>5. cache' = Append(cache, made) /\ client' = client \o new
  BY DEF ValidateConfigured
<1> HIDE DEF order, n
<1>6. \A e \in Entry : /\ made[e] = 0 \/ made[e] \in Len(client) + 1..Len(client) + n
                       /\ made[e] \in Nat
  BY <1>1, <1>2, <1>4
<1>7. made \in Rows
  BY <1>6 DEF Rows
<1> DEFINE one == [settings |-> saved, state |-> "open"]
<1>8. new \in Seq(Clients) /\ Len(new) = n /\ \A i \in 1..n : new[i].state = "open"
  <2>1. one \in Clients /\ one.state = "open"
    BY <1>1 DEF Clients
  <2>2. new = [i \in 1..n |-> one]
    OBVIOUS
  <2> HIDE DEF one
  <2> QED
    BY <1>2, <2>1, <2>2
<1> HIDE DEF made, new
<1>9. /\ client' \in Seq(Clients) /\ Len(client') = Len(client) + n
      /\ \A i \in 1..Len(client) : client'[i] = client[i]
      /\ \A i \in Len(client) + 1..Len(client') : client'[i].state = "open"
  <2>1. /\ client' \in Seq(Clients) /\ Len(client') = Len(client) + n
        /\ \A i \in 1..Len(client) + n : client'[i] = IF i <= Len(client) THEN client[i] ELSE new[i - Len(client)]
    BY <1>1, <1>5, <1>8, ConcatProperties
  <2>2. \A i \in 1..Len(client) : i \in 1..Len(client) + n /\ i <= Len(client)
    BY <1>1, <1>2
  <2>3. \A i \in Len(client) + 1..Len(client) + n :
            i \in 1..Len(client) + n /\ ~(i <= Len(client)) /\ i - Len(client) \in 1..n
    BY <1>1, <1>2
  <2>4. \A i \in 1..Len(client) : client'[i] = client[i]
    BY <2>1, <2>2
  <2>5. \A i \in Len(client) + 1..Len(client') : client'[i].state = "open"
    BY <1>8, <2>1, <2>3
  <2> QED
    BY <2>1, <2>4, <2>5
<1>10. /\ cache' \in Seq(Rows) /\ Len(cache') = Len(cache) + 1
       /\ \A h \in 1..Len(cache) : cache'[h] = cache[h]
       /\ cache'[Len(cache) + 1] = made
  BY <1>1, <1>5, <1>7, AppendProperties
<1>11. \A h \in 1..Len(cache'), e \in Entry :
          \/ cache'[h][e] = 0
          \/ h <= Len(cache) /\ cache'[h][e] = cache[h][e]
          \/ h = Len(cache') /\ cache'[h][e] \in Len(client) + 1..Len(client')
  BY <1>1, <1>6, <1>9, <1>10
<1> QED
  BY <1>1, <1>2, <1>9, <1>10, <1>11 DEF Grown

\* What an action still has to show when it neither closes a client nor begins
\* a cleanup.
LEMMA ServerKeeps ==
    ASSUME ServerInv, NEW g, Grown(g), Released, ServerShape', Course',
           current' <= Len(cache'), own' <= Len(cache'),
           \A r \in Request : request'[r].client <= Len(client')
    PROVE  ServerInv'
<1>1. cleaning' \in [Cleaner -> Cleanings]
  BY DEF ServerShape
<1>2. /\ ClientsBelong' /\ OpenUnlessCleaned' /\ PassedAreTried'
      /\ \A h \in 1..Len(cache'), e \in Entry : cache'[h][e] <= Len(client')
      /\ \A x \in Cleaner : cleaning'[x].registry <= Len(cache')
      /\ \A x \in Cleaner : \A i \in 1..Len(cleaning'[x].items) : cleaning'[x].items[i] \in 1..Len(client')
  BY <1>1, GrownKeeps
<1>3. NamesExist'
  BY <1>2 DEF NamesExist
<1> QED
  BY <1>2, <1>3 DEF ServerInv

LEMMA ServerStutters ==
    ASSUME ServerInv, UNCHANGED serverVars
    PROVE  ServerInv'
BY DEF ServerInv, serverVars, ServerShape, NamesExist, Course, ClientsBelong, OpenUnlessCleaned,
       PassedAreTried

\* Steps that leave clients, registries and cleanups alone.
AroundThem ==
    \/ ApplyAndRestart \/ Import \/ Stop \/ StepEnds \/ Exit
    \/ \E r \in Request : Arrive(r) \/ Answer(r)

LEMMA AroundKeeps ==
    ASSUME ServerInv, AroundThem
    PROVE  ServerInv'
<1>1. UNCHANGED <<cache, client, cleaning>>
  BY DEF AroundThem, ApplyAndRestart, Import, Stop, StepEnds, Exit, Arrive, Answer
<1>2. /\ ServerShape /\ Course
      /\ current <= Len(cache) /\ own <= Len(cache) /\ \A r \in Request : request[r].client <= Len(client)
      /\ Len(cache) \in Nat /\ Len(client) \in Nat
  BY LenProperties DEF ServerInv, NamesExist, ServerShape
<1>3. Grown(1) /\ Released
  BY <1>1, NothingGrown DEF Released
<1>4. steps' \in Seq(StepNames)
  <2>1. steps # <<>> => Tail(steps) \in Seq(StepNames)
    BY <1>2, HeadTailProperties DEF ServerShape
  <2> QED
    BY <1>2, <2>1 DEF ServerShape, AroundThem, ApplyAndRestart, Import, Stop, StepEnds, Exit, Arrive, Answer
<1>5. \/ request' = request
      \/ \E r \in Request, q \in RequestStates : q.client = 0 /\ request' = [request EXCEPT ![r] = q]
  <2>1. ASSUME NEW r \in Request, Arrive(r)
        PROVE  \E q \in RequestStates : q.client = 0 /\ request' = [request EXCEPT ![r] = q]
    <3> DEFINE q == [at |-> "waiting", settings |-> saved, client |-> 0]
    <3>1. q \in RequestStates /\ q.client = 0
      BY <1>2 DEF RequestStates, ServerShape
    <3>2. request' = [request EXCEPT ![r] = q]
      BY <2>1 DEF Arrive
    <3> HIDE DEF q
    <3> QED
      BY <3>1, <3>2
  <2>2. ASSUME NEW r \in Request, Answer(r)
        PROVE  \E q \in RequestStates : q.client = 0 /\ request' = [request EXCEPT ![r] = q]
    <3>1. NoRequest \in RequestStates /\ NoRequest.client = 0
      BY ServerAssumption DEF NoRequest, RequestStates
    <3> QED
      BY <2>2, <3>1 DEF Answer
  <2> QED
    BY <2>1, <2>2 DEF AroundThem, ApplyAndRestart, Import, Stop, StepEnds, Exit
<1>6. request' \in [Request -> RequestStates] /\ \A r \in Request : request'[r] = request[r] \/ request'[r].client = 0
  BY <1>2, <1>5 DEF ServerShape
<1>7. /\ phase' \in {"starting", "serving", "draining", "stopping", "ended"}
      /\ restart' \in BOOLEAN /\ saved' \in 0..SaveMax
  <2>1. CASE ApplyAndRestart \/ Import
    <3>1. saved \in 0..SaveMax /\ restart \in BOOLEAN
      BY <1>2 DEF ServerShape
    <3>2. /\ phase' \in {"draining", "serving"} /\ saved' = saved + 1 /\ saved < SaveMax
          /\ restart' = TRUE \/ restart' = restart
      BY <2>1 DEF ApplyAndRestart, RequestRestart, Save, Import
    <3>3. saved' \in 0..SaveMax
      BY <3>1, <3>2, ServerAssumption
    <3> QED
      BY <3>1, <3>2, <3>3
  <2>2. CASE Stop \/ StepEnds \/ Exit
    BY <1>2, <2>2 DEF ServerShape, Stop, StepEnds, Exit
  <2>3. CASE \E r \in Request : Arrive(r) \/ Answer(r)
    BY <1>2, <2>3 DEF ServerShape, Arrive, Answer
  <2> QED
    BY <2>1, <2>2, <2>3 DEF AroundThem
<1>8. (current' = current \/ current' = 0) /\ (own' = own \/ own' = 0)
  BY DEF AroundThem, ApplyAndRestart, Import, Stop, StepEnds, Exit, Arrive, Answer
<1>9. ServerShape'
  BY <1>1, <1>2, <1>4, <1>6, <1>7, <1>8 DEF ServerShape
<1>10. Course'
  <2>1. CASE ApplyAndRestart \/ Import \/ Stop
    BY <1>1, <1>2, <2>1 DEF Course, ApplyAndRestart, RequestRestart, Import, Stop
  <2>2. CASE StepEnds
    BY <1>1, <1>2, <2>2 DEF Course, StepEnds
  <2>3. CASE Exit
    BY <1>1, <1>2, <2>3 DEF Course, Exit
  <2>4. ASSUME NEW r \in Request, Arrive(r) \/ Answer(r)
        PROVE  Course'
    <3>1. UNCHANGED <<phase, steps, current, own>>
      BY <2>4 DEF Arrive, Answer
    <3>2. \A q \in Request : request'[q].at # "none" => phase \in {"serving", "draining"}
      BY <1>2, <2>4 DEF Course, ServerShape, Arrive, Answer, NoRequest
    <3> QED
      BY <1>1, <1>2, <3>1, <3>2 DEF Course
  <2> QED
    BY <2>1, <2>2, <2>3, <2>4 DEF AroundThem
<1> QED
  BY <1>1, <1>2, <1>3, <1>6, <1>8, <1>9, <1>10, ServerKeeps

\* A request is handed a client of the registry in use.
LEMMA HandedKeeps ==
    ASSUME ServerInv, NEW r \in Request, Resolve(r) \/ Query(r)
    PROVE  ServerInv'
<1>1. /\ ServerShape /\ Course /\ UNCHANGED <<phase, steps, restart, saved, current, own, cleaning>>
      /\ current <= Len(cache) /\ own <= Len(cache) /\ \A q \in Request : request[q].client <= Len(client)
      /\ Len(cache) \in Nat
  BY LenProperties DEF ServerInv, NamesExist, ServerShape, Resolve, Query
<1>2. phase \in {"serving", "draining"} /\ request[r].settings \in 0..SaveMax
  BY <1>1 DEF Course, ServerShape, RequestStates, Resolve, Query
<1>3. current \in 1..Len(cache)
  BY <1>1, <1>2 DEF Course, ServerShape
<1>4. PICK e \in Entry, s \in 0..SaveMax :
          /\ Get(current, e, s)
          /\ request' = [request EXCEPT ![r] = [at |-> "using", settings |-> s, client |-> cache'[current][e]]]
  <2>1. CASE Query(r)
    BY <1>1, <2>1 DEF Query, ServerShape
  <2>2. CASE Resolve(r)
    BY <1>2, <2>2 DEF Resolve
  <2> QED
    BY <2>1, <2>2
<1>5. Grown(current) /\ Len(cache') = Len(cache) /\ cache'[current][e] \in Nat /\ cache'[current][e] <= Len(client')
  BY <1>3, <1>4, GetGrown
<1> DEFINE got == [at |-> "using", settings |-> s, client |-> cache'[current][e]]
<1>6. got \in RequestStates /\ got.client <= Len(client') /\ got.at = "using"
  BY <1>5 DEF RequestStates
<1>7. request' = [request EXCEPT ![r] = got]
  BY <1>4
<1> HIDE DEF got
<1>8. /\ request' \in [Request -> RequestStates] /\ request'[r] = got
      /\ \A q \in Request : q # r => request'[q] = request[q]
  BY <1>1, <1>6, <1>7 DEF ServerShape
<1>9. Len(client) <= Len(client') /\ Len(client) \in Nat /\ Len(client') \in Nat
  BY <1>1, <1>5, LenProperties DEF Grown, ServerShape
<1>10. \A q \in Request : request'[q].client <= Len(client')
  <2>1. \A q \in Request : request[q].client \in Nat
    BY <1>1 DEF ServerShape, RequestStates
  <2> QED
    BY <1>1, <1>6, <1>8, <1>9, <2>1
<1>11. ServerShape'
  BY <1>1, <1>5, <1>8 DEF ServerShape, Grown
<1>12. Course'
  BY <1>1, <1>2, <1>6, <1>8 DEF Course
<1>13. Released
  BY <1>1 DEF Released
<1> QED
  BY <1>1, <1>5, <1>10, <1>11, <1>12, <1>13, ServerKeeps

\* A server starts, with a registry of its own.
LEMMA StartupKeeps ==
    ASSUME ServerInv, NEW asked \in SUBSET Entry, Startup(asked)
    PROVE  ServerInv'
<1>1. /\ ServerShape /\ Course /\ phase = "starting" /\ UNCHANGED <<saved, cleaning, request>>
      /\ ValidateConfigured(asked)
      /\ \A q \in Request : request[q].client <= Len(client)
  BY DEF ServerInv, NamesExist, Startup
<1>2. Grown(Len(cache')) /\ Len(cache') \in Nat /\ Len(cache') # 0
  BY <1>1, ValidatedGrown
<1>3. /\ current' = Len(cache') /\ own' = Len(cache') /\ restart' = FALSE
      /\ phase' \in {"serving", "stopping"} /\ (steps' = steps \/ steps' = <<"providers">>)
  BY DEF Startup
<1>4. <<"providers">> \in Seq(StepNames)
  BY DEF StepNames
<1>5. ServerShape'
  BY <1>1, <1>2, <1>3, <1>4 DEF ServerShape, Grown
<1>6. Course'
  BY <1>1, <1>2, <1>3 DEF Course
<1>7. Released
  BY <1>1 DEF Released
<1>8. \A q \in Request : request'[q].client <= Len(client')
  <2>1. /\ Len(client) <= Len(client') /\ Len(client) \in Nat /\ Len(client') \in Nat
        /\ \A q \in Request : request[q].client \in Nat
    BY <1>1, <1>2, LenProperties DEF Grown, ServerShape, RequestStates
  <2> QED
    BY <1>1, <2>1
<1> QED
  BY <1>2, <1>3, <1>5, <1>6, <1>7, <1>8, ServerKeeps

\* A cleanup takes the clients of a registry.
LEMMA BegunKeeps ==
    ASSUME ServerInv, NEW x \in Cleaner, NEW g \in 1..Len(cache), cleaning[x] = NotCleaning,
           cleaning' = [cleaning EXCEPT ![x] = [registry |-> g, items |-> Items(g), next |-> 1, failed |-> FALSE]],
           UNCHANGED <<cache, client, current, own, request>>, ServerShape' , Course'
    PROVE  ServerInv'
<1> DEFINE begun == [registry |-> g, items |-> Items(g), next |-> 1, failed |-> FALSE]
<1>1. /\ Items(g) \in Seq(Nat) /\ Len(Items(g)) \in Nat
      /\ \A i \in 1..Len(Items(g)) : /\ Items(g)[i] \in 1..Len(client)
                                     /\ \E e \in Entry : cache[g][e] = Items(g)[i] /\ cache[g][e] # 0
  BY ItemsAre
<1>2. begun.registry = g /\ begun.items = Items(g) /\ begun.next = 1
  OBVIOUS
<1>3. cleaning' = [cleaning EXCEPT ![x] = begun] /\ cleaning \in [Cleaner -> Cleanings]
  BY DEF ServerInv, ServerShape
<1> HIDE DEF begun
<1>4. cleaning'[x] = begun /\ \A y \in Cleaner : y # x => cleaning'[y] = cleaning[y]
  BY <1>3
<1>5. cleaning[x].registry = 0 /\ Len(cache) \in Nat
  BY NotCleaningIs, LenProperties DEF ServerInv, ServerShape
<1>6. NamesExist'
  <2>1. \A y \in Cleaner : cleaning'[y].registry <= Len(cache)
    BY <1>2, <1>4, <1>5 DEF ServerInv, NamesExist
  <2>2. \A y \in Cleaner : \A i \in 1..Len(cleaning'[y].items) : cleaning'[y].items[i] \in 1..Len(client)
    BY <1>1, <1>2, <1>4 DEF ServerInv, NamesExist
  <2> QED
    BY <2>1, <2>2 DEF ServerInv, NamesExist
<1>7. ClientsBelong'
  <2>1. \A h, k \in 1..Len(cache), e, f \in Entry : cache[h][e] # 0 /\ cache[h][e] = cache[k][f] => h = k
    BY DEF ServerInv, ClientsBelong
  <2>2. \A i \in 1..Len(Items(g)), h \in 1..Len(cache), e \in Entry : cache[h][e] = Items(g)[i] => h = g
    BY <1>1, <2>1
  <2>3. \A y \in Cleaner : \A i \in 1..Len(cleaning'[y].items), h \in 1..Len(cache), e \in Entry :
            cache[h][e] = cleaning'[y].items[i] => h = cleaning'[y].registry
    BY <1>2, <1>4, <2>2 DEF ServerInv, ClientsBelong
  <2> QED
    BY <2>1, <2>3 DEF ClientsBelong
<1>8. OpenUnlessCleaned'
  <2>1. \A h \in 1..Len(cache) : (\A y \in Cleaner : cleaning'[y].registry # h) =>
            \A y \in Cleaner : cleaning[y].registry # h
    BY <1>4, <1>5
  <2> QED
    BY <2>1 DEF ServerInv, OpenUnlessCleaned
<1>9. PassedAreTried'
  <2>1. \A i \in 1..Len(Items(g)) : ~(i < 1)
    BY <1>1
  <2> QED
    BY <1>2, <1>4, <2>1 DEF ServerInv, PassedAreTried
<1> QED
  BY <1>6, <1>7, <1>8, <1>9 DEF ServerInv
\* A client is closed, or could not be.
LEMMA ClosedKeeps ==
    ASSUME ServerInv, NEW x \in Cleaner, CloseNext(x)
    PROVE  ServerInv'
<1> DEFINE c == cleaning[x]
           k == c.items[c.next]
<1>1. /\ ServerShape /\ NamesExist /\ Course
      /\ c \in Cleanings /\ c.next <= Len(c.items) /\ Len(c.items) \in Nat /\ c.next \in Nat /\ 1 <= c.next
      /\ client \in Seq(Clients) /\ Len(client) \in Nat /\ DOMAIN client = 1..Len(client)
  <2>1. ServerShape /\ NamesExist /\ Course /\ c.next <= Len(c.items)
    BY DEF ServerInv, CloseNext
  <2>2. c \in Cleanings /\ client \in Seq(Clients)
    BY <2>1 DEF ServerShape
  <2>3. c.items \in Seq(Nat) /\ c.next \in Nat /\ 1 <= c.next
    BY <2>2 DEF Cleanings
  <2> QED
    BY <2>1, <2>2, <2>3, LenProperties
<1>2. PICK how \in {"closed", "failed"} : Closed(k, how) /\ GoesOn(x, how)
  BY DEF CloseNext
<1>3. UNCHANGED <<phase, steps, restart, saved, current, own, cache, request>>
  BY DEF CloseNext
<1>4. k \in 1..Len(client)
  BY <1>1 DEF NamesExist
<1> DEFINE on == [registry |-> c.registry, items |-> c.items, next |-> c.next + 1,
                  failed |-> c.failed \/ how = "failed"]
<1>5. on.registry = c.registry /\ on.items = c.items /\ on.next = c.next + 1
  OBVIOUS
<1>6. on \in Cleanings
  <2>1. /\ c.registry \in Nat /\ c.items \in Seq(Nat) /\ c.next + 1 \in Nat \ {0}
    BY <1>1 DEF Cleanings
  <2>2. (c.failed \/ how = "failed") \in BOOLEAN
    OBVIOUS
  <2> QED
    BY <2>1, <2>2 DEF Cleanings
<1>7. cleaning' = [cleaning EXCEPT ![x] = on]
  BY <1>2 DEF GoesOn
<1> HIDE DEF on
<1>8. /\ cleaning' \in [Cleaner -> Cleanings]
      /\ \A y \in Cleaner : y # x => cleaning'[y] = cleaning[y]
      /\ cleaning'[x] = on
  BY <1>1, <1>6, <1>7 DEF ServerShape
<1>9. \A y \in Cleaner : cleaning'[y].registry = cleaning[y].registry /\ cleaning'[y].items = cleaning[y].items
  BY <1>5, <1>8
<1> HIDE DEF k
<1>10. PICK became \in {"closed", "failed"} : client' = [client EXCEPT ![k].state = became]
  BY <1>2, <1>4 DEF Closed
<1>11. /\ client' \in Seq(Clients) /\ Len(client') = Len(client)
       /\ client'[k].state = became /\ \A i \in 1..Len(client) : i # k => client'[i] = client[i]
  <2>1. client[k] \in Clients
    BY <1>1, <1>4, ElementOfSeq
  <2> DEFINE new == [settings |-> client[k].settings, state |-> became]
  <2>2. new \in Clients /\ new.state = became
    BY <2>1 DEF Clients
  <2>3. client' = [client EXCEPT ![k] = new]
    <3>1. [client[k] EXCEPT !.state = became] = new
      BY <2>1 DEF Clients
    <3>2. client' = [client EXCEPT ![k] = [client[k] EXCEPT !.state = became]]
      BY <1>10
    <3> QED
      BY <3>1, <3>2
  <2> HIDE DEF new
  <2> QED
    BY <1>1, <1>4, <2>2, <2>3, ExceptSeq
<1>12. \A i \in 1..Len(client) : client[i].state # "open" => client'[i].state # "open"
  BY <1>11
<1>13. ServerShape'
  BY <1>1, <1>3, <1>8, <1>11 DEF ServerShape
<1>14. NamesExist'
  BY <1>1, <1>3, <1>9, <1>11 DEF NamesExist
<1>15. Course'
  <2>1. c.registry # 0
    <3>1. c = NotCleaning => c.items = <<>>
      BY NotCleaningIs
    <3>2. c.items # <<>>
      BY <1>1
    <3> QED
      BY <1>1, <3>1, <3>2 DEF Course
  <2>2. \A y \in Cleaner : cleaning'[y].registry = 0 => cleaning'[y] = NotCleaning
    BY <1>1, <1>8, <1>9, <2>1 DEF Course
  <2> QED
    BY <1>1, <1>3, <1>9, <2>2 DEF Course, Cleaner
<1>16. ClientsBelong'
  BY <1>3, <1>9 DEF ServerInv, ClientsBelong
<1>17. OpenUnlessCleaned'
  <2> SUFFICES ASSUME NEW h \in 1..Len(cache), \A y \in Cleaner : cleaning[y].registry # h,
                      NEW e \in Entry, cache[h][e] # 0
               PROVE  client'[cache[h][e]].state = "open"
    BY <1>3, <1>9 DEF OpenUnlessCleaned
  <2>1. cache[h][e] # k
    BY <1>1 DEF ServerInv, ClientsBelong, k
  <2>2. cache[h][e] \in 1..Len(client) /\ client[cache[h][e]].state = "open"
    <3>1. cache[h] \in Rows
      BY <1>1, ElementOfSeq DEF ServerShape
    <3> QED
      BY <1>1, <3>1 DEF ServerInv, OpenUnlessCleaned, NamesExist, Rows
  <2> QED
    BY <1>11, <2>1, <2>2
<1>18. PassedAreTried'
  <2> SUFFICES ASSUME NEW y \in Cleaner, NEW i \in 1..Len(cleaning[y].items), i < cleaning'[y].next
               PROVE  client'[cleaning[y].items[i]].state # "open"
    BY <1>9 DEF PassedAreTried
  <2>1. cleaning[y].items[i] \in 1..Len(client)
    BY <1>1 DEF NamesExist
  <2>2. CASE y = x /\ i = c.next
    BY <1>11, <2>2 DEF k
  <2>3. CASE i < cleaning[y].next
    BY <1>12, <2>1, <2>3 DEF ServerInv, PassedAreTried
  <2>4. i \in Nat
    OBVIOUS
  <2> QED
    BY <1>1, <1>5, <1>8, <2>2, <2>3, <2>4
<1> QED
  BY <1>13, <1>14, <1>15, <1>16, <1>17, <1>18 DEF ServerInv

\* The end of a cleanup on the admin page, or an apply with nothing to clean.
LEMMA AppliedKeeps ==
    ASSUME ServerInv, NEW a \in Admin, ApplyEnds(a) \/ (Apply(a) /\ Items(current) = <<>>)
    PROVE  ServerInv'
<1> DEFINE g == IF ApplyEnds(a) THEN cleaning[a].registry ELSE current
<1>1. /\ ServerShape /\ Course /\ a \in Cleaner /\ a # Down /\ Len(cache) \in Nat
      /\ \A x \in Cleaner : cleaning[x].registry \in Nat /\ cleaning[x].registry <= Len(cache)
      /\ current <= Len(cache) /\ own <= Len(cache) /\ \A q \in Request : request[q].client <= Len(client)
  BY LenProperties, ServerAssumption DEF ServerInv, NamesExist, ServerShape, Cleaner, Cleanings
<1>2. UNCHANGED <<phase, steps, restart, own, client, request>>
  BY DEF Apply, ApplyEnds
<1>3. saved' \in 0..SaveMax
  <2>1. saved \in 0..SaveMax
    BY <1>1 DEF ServerShape
  <2>2. saved' = saved \/ (saved' = saved + 1 /\ saved < SaveMax)
    BY DEF Apply, ApplyEnds, Save
  <2> QED
    BY <2>1, <2>2, ServerAssumption
<1>4. \/ Cleared(g) /\ current' = current
      \/ Replaced(g)
  BY DEF Apply, ApplyEnds
<1>5. g \in 1..Len(cache) /\ (cleaning' = cleaning \/ (cleaning' = [cleaning EXCEPT ![a] = NotCleaning]
                                                      /\ g = cleaning[a].registry))
  <2>1. CASE ApplyEnds(a)
    BY <1>1, <2>1 DEF ApplyEnds, ClosedAll
  <2>2. CASE ~ApplyEnds(a)
    BY <1>1, <2>2 DEF Apply, Course, ServerShape
  <2> QED
    BY <2>1, <2>2
<1> HIDE DEF g
<1>6. /\ Grown(g) /\ \A e \in Entry : cache'[g][e] = 0
      /\ Len(cache') \in Nat /\ (Replaced(g) => current' = Len(cache') /\ Len(cache') # 0)
  BY <1>2, <1>4, <1>5, EmptiedGrown
<1>7. /\ cleaning' \in [Cleaner -> Cleanings]
      /\ \A x \in Cleaner : cleaning'[x] = cleaning[x] \/ (x = a /\ cleaning'[x] = NotCleaning /\ g = cleaning[x].registry)
  BY <1>1, <1>5, NotCleaningIs DEF ServerShape
<1>8. Released
  BY <1>6, <1>7 DEF Released
<1>9. /\ current' \in Nat /\ current' <= Len(cache') /\ own <= Len(cache')
      /\ current # 0 => current' # 0
  <2>1. Len(cache) <= Len(cache') /\ current \in Nat /\ own \in Nat
    BY <1>1, <1>6 DEF Grown, ServerShape
  <2> QED
    BY <1>1, <1>4, <1>6, <2>1
<1>10. ServerShape'
  BY <1>1, <1>2, <1>3, <1>6, <1>7, <1>9 DEF ServerShape, Grown
<1>11. Course'
  <2>1. NotCleaning.registry = 0
    BY NotCleaningIs
  <2> QED
    BY <1>1, <1>2, <1>7, <1>9, <2>1 DEF Course, Cleaner
<1> QED
  BY <1>1, <1>2, <1>6, <1>8, <1>9, <1>10, <1>11, ServerKeeps

\* The end of the shut-down's cleanup, done or timed out.
LEMMA CleanedKeeps ==
    ASSUME ServerInv, CleanUpEnds \/ StepTimesOut
    PROVE  ServerInv'
<1>1. /\ ServerShape /\ Course /\ Down \in Cleaner /\ Len(cache) \in Nat
      /\ current <= Len(cache) /\ own <= Len(cache) /\ \A q \in Request : request[q].client <= Len(client)
  BY LenProperties DEF ServerInv, NamesExist, ServerShape, Cleaner
<1>2. /\ UNCHANGED <<phase, restart, saved, current, own, client, request>> /\ steps' = Tail(steps)
      /\ cleaning' = [cleaning EXCEPT ![Down] = NotCleaning]
      /\ UNCHANGED cache \/ Cleared(own)
  BY DEF CleanUpEnds, StepTimesOut
<1>3. phase = "stopping" /\ steps # <<>> /\ own \in 1..Len(cache)
  BY <1>1 DEF CleanUpEnds, StepTimesOut, ClosedAll, Course, ServerShape
<1>4. steps' \in Seq(StepNames)
  BY <1>1, <1>2, <1>3, HeadTailProperties DEF ServerShape
<1>5. /\ cleaning' \in [Cleaner -> Cleanings] /\ cleaning'[Down] = NotCleaning
      /\ \A x \in Cleaner : x # Down => cleaning'[x] = cleaning[x]
  BY <1>1, <1>2, NotCleaningIs DEF ServerShape
<1>6. Grown(own) /\ (Cleared(own) => \A e \in Entry : cache'[own][e] = 0)
  BY <1>2, <1>3, EmptiedGrown, NothingGrown
<1>7. Released
  <2>1. CASE cleaning[Down].registry = 0
    BY <1>1, <1>5, <2>1 DEF Released
  <2>2. CASE cleaning[Down].registry # 0
    <3>1. cleaning[Down] # NotCleaning
      BY <2>2, NotCleaningIs
    <3>2. Cleared(own) /\ cleaning[Down].registry = own
      BY <1>1, <2>2, <3>1 DEF CleanUpEnds, StepTimesOut, Course
    <3> QED
      BY <1>5, <1>6, <3>2 DEF Released
  <2> QED
    BY <2>1, <2>2
<1>8. ServerShape'
  BY <1>1, <1>2, <1>4, <1>5, <1>6 DEF ServerShape, Grown
<1>9. Course'
  BY <1>1, <1>2, <1>3, <1>5, NotCleaningIs DEF Course, Cleaner
<1>10. current' <= Len(cache') /\ own' <= Len(cache')
  <2>1. Len(cache) <= Len(cache') /\ current \in Nat /\ own \in Nat /\ Len(cache') \in Nat
    BY <1>1, <1>6, LenProperties DEF Grown, ServerShape
  <2> QED
    BY <1>1, <1>2, <2>1
<1> QED
  BY <1>1, <1>2, <1>6, <1>7, <1>8, <1>9, <1>10, ServerKeeps

\* A cleanup begins.
LEMMA BeginsKeeps ==
    ASSUME ServerInv, CleanUp \/ \E a \in Admin : Apply(a) /\ Items(current) # <<>>
    PROVE  ServerInv'
<1>1. /\ ServerShape /\ Course /\ current <= Len(cache) /\ own <= Len(cache) /\ Len(cache) \in Nat
      /\ Down \in Cleaner /\ \A a \in Admin : a \in Cleaner /\ a # Down
  BY LenProperties, ServerAssumption DEF ServerInv, NamesExist, ServerShape, Cleaner
<1>2. PICK x \in Cleaner, g \in 1..Len(cache) :
          /\ cleaning[x] = NotCleaning
          /\ cleaning' = [cleaning EXCEPT ![x] = [registry |-> g, items |-> Items(g), next |-> 1, failed |-> FALSE]]
          /\ IF x = Down THEN CleanUp /\ g = own ELSE phase = "serving" /\ Apply(x) /\ Items(current) # <<>>
  <2>1. CASE CleanUp
    <3>1. own \in 1..Len(cache)
      BY <1>1, <2>1 DEF CleanUp, Course, ServerShape
    <3> QED
      BY <1>1, <2>1, <3>1 DEF CleanUp
  <2>2. ASSUME NEW a \in Admin, Apply(a), Items(current) # <<>>
        PROVE  /\ current \in 1..Len(cache) /\ a \in Cleaner /\ a # Down
               /\ cleaning[a] = NotCleaning /\ phase = "serving"
               /\ cleaning' = [cleaning EXCEPT ![a] = [registry |-> current, items |-> Items(current),
                                                       next |-> 1, failed |-> FALSE]]
    BY <1>1, <2>2 DEF Apply, Course, ServerShape
  <2> QED
    BY <2>1, <2>2
<1>3. /\ UNCHANGED <<phase, steps, restart, current, own, cache, client, request>>
      /\ saved' = saved \/ (saved' = saved + 1 /\ saved < SaveMax)
  BY <1>2 DEF CleanUp, Apply, Save
<1> DEFINE begun == [registry |-> g, items |-> Items(g), next |-> 1, failed |-> FALSE]
<1>4. begun \in Cleanings /\ begun.registry = g
  BY <1>1, ItemsAre DEF Cleanings
<1>5. cleaning' = [cleaning EXCEPT ![x] = begun]
  BY <1>2
<1> HIDE DEF begun
<1>6. /\ cleaning' \in [Cleaner -> Cleanings] /\ cleaning'[x] = begun
      /\ \A y \in Cleaner : y # x => cleaning'[y] = cleaning[y]
  BY <1>1, <1>4, <1>5 DEF ServerShape
<1>7. saved' \in 0..SaveMax
  <2>1. saved \in 0..SaveMax
    BY <1>1 DEF ServerShape
  <2> QED
    BY <1>3, <2>1, ServerAssumption
<1>8. ServerShape'
  BY <1>1, <1>3, <1>6, <1>7 DEF ServerShape
<1>9. Course'
  <2>1. CASE x = Down
    <3>1. phase = "stopping" /\ steps # <<>> /\ Head(steps) = "providers" /\ g = own
      BY <1>2, <2>1 DEF CleanUp
    <3> QED
      BY <1>1, <1>3, <1>4, <1>6, <2>1, <3>1 DEF Course
  <2>2. CASE x # Down
    BY <1>1, <1>2, <1>3, <1>4, <1>6, <2>2 DEF Course
  <2> QED
    BY <2>1, <2>2
<1> QED
  BY <1>2, <1>3, <1>8, <1>9, BegunKeeps

\* The requests are over, and their cleanups cancelled.
LEMMA DrainedKeeps ==
    ASSUME ServerInv, Drained
    PROVE  ServerInv'
<1>1. /\ ServerShape /\ Course /\ phase = "draining" /\ cache \in Seq(Rows) /\ client \in Seq(Clients)
      /\ Len(cache) \in Nat /\ Len(client) \in Nat /\ DOMAIN cache = 1..Len(cache)
      /\ current <= Len(cache) /\ own <= Len(cache)
      /\ \A x \in Cleaner : cleaning[x].registry \in Nat /\ cleaning[x].registry <= Len(cache)
  BY LenProperties DEF ServerInv, NamesExist, ServerShape, Cleanings, Drained
<1>2. /\ phase' = "stopping" /\ UNCHANGED <<restart, saved, current, own, client>>
      /\ request' = [r \in Request |-> NoRequest] /\ cleaning' = [x \in Cleaner |-> NotCleaning]
      /\ cache' = [h \in DOMAIN cache |->
                     IF \E a \in Admin : cleaning[a].registry = h THEN Empty ELSE cache[h]]
  BY DEF Drained
<1>3. steps' \in Seq(StepNames)
  <2>1. ShutdownSteps \in Seq(StepNames)
    BY DEF ShutdownSteps, StepNames
  <2>2. SubSeq(ShutdownSteps, 3, 4) \in Seq(StepNames)
    BY <2>1, SubSeqProperties DEF ShutdownSteps
  <2> QED
    BY <2>1, <2>2 DEF Drained
<1>4. Empty \in Rows /\ \A e \in Entry : Empty[e] = 0
  BY DEF Empty, Rows
<1>5. /\ cache' \in Seq(Rows) /\ Len(cache') = Len(cache)
      /\ \A h \in 1..Len(cache) : cache'[h] \in {Empty, cache[h]}
      /\ \A a \in Admin : cleaning[a].registry # 0 => cache'[cleaning[a].registry] = Empty
  <2>1. \A h \in 1..Len(cache) : cache[h] \in Rows
    BY <1>1, ElementOfSeq
  <2>2. cache' \in [1..Len(cache) -> Rows]
    BY <1>1, <1>2, <1>4, <2>1
  <2>3. cache' \in Seq(Rows) /\ Len(cache') = Len(cache)
    BY <1>1, <2>2
  <2>4. \A h \in 1..Len(cache) : cache'[h] \in {Empty, cache[h]}
    BY <1>1, <1>2
  <2>5. \A a \in Admin : cleaning[a].registry # 0 => cache'[cleaning[a].registry] = Empty
    BY <1>1, <1>2 DEF Cleaner
  <2> QED
    BY <2>3, <2>4, <2>5
<1>6. Grown(1)
  <2>1. \A h \in 1..Len(cache'), e \in Entry : cache'[h][e] = 0 \/ (h <= Len(cache) /\ cache'[h][e] = cache[h][e])
    BY <1>1, <1>4, <1>5
  <2> QED
    BY <1>1, <1>2, <1>5, <2>1 DEF Grown
<1>7. Released
  <2>1. \A x \in Cleaner : cleaning'[x] = NotCleaning
    BY <1>2
  <2>2. cleaning[Down].registry = 0
    BY <1>1 DEF Course
  <2> QED
    BY <1>4, <1>5, <2>1, <2>2 DEF Released, Cleaner
<1>8. NoRequest \in RequestStates /\ NoRequest.at = "none" /\ NoRequest.client = 0
  BY ServerAssumption DEF NoRequest, RequestStates
<1>9. cleaning' \in [Cleaner -> Cleanings] /\ \A x \in Cleaner : cleaning'[x].registry = 0
  BY <1>2, NotCleaningIs
<1>10. ServerShape'
  BY <1>1, <1>2, <1>3, <1>5, <1>8, <1>9 DEF ServerShape
<1>11. Course'
  BY <1>1, <1>2, <1>8, <1>9 DEF Course, Cleaner
<1> QED
  BY <1>1, <1>2, <1>5, <1>6, <1>7, <1>8, <1>10, <1>11, ServerKeeps

LEMMA NextServerInv == ServerInv /\ [ServerNext]_serverVars => ServerInv'
<1> SUFFICES ASSUME ServerInv, [ServerNext]_serverVars PROVE ServerInv'
  OBVIOUS
<1>1. CASE UNCHANGED serverVars
  BY <1>1, ServerStutters
<1>2. CASE \E asked \in SUBSET Entry : Startup(asked)
  BY <1>2, StartupKeeps
<1>3. CASE AroundThem
  BY <1>3, AroundKeeps
<1>4. CASE \E r \in Request : Resolve(r) \/ Query(r)
  BY <1>4, HandedKeeps
<1>5. CASE \E a \in Admin : ApplyEnds(a)
  BY <1>5, AppliedKeeps
<1>6. CASE \E a \in Admin : Apply(a)
  BY <1>6, AppliedKeeps, BeginsKeeps
<1>7. CASE CleanUp
  BY <1>7, BeginsKeeps
<1>8. CASE \E x \in Cleaner : CloseNext(x)
  BY <1>8, ClosedKeeps
<1>9. CASE Drained
  BY <1>9, DrainedKeeps
<1>10. CASE CleanUpEnds \/ StepTimesOut
  BY <1>10, CleanedKeeps
<1> QED
  BY <1>1, <1>2, <1>3, <1>4, <1>5, <1>6, <1>7, <1>8, <1>9, <1>10 DEF ServerNext, AroundThem

LEMMA InitServerInv == ServerInit => ServerInv
<1> SUFFICES ASSUME ServerInit PROVE ServerInv
  OBVIOUS
<1>1. /\ cleaning \in [Cleaner -> Cleanings] /\ \A x \in Cleaner : cleaning[x] = NotCleaning
      /\ \A r \in Request : request[r] = NoRequest
  BY NotCleaningIs DEF ServerInit
<1>2. NoRequest \in RequestStates /\ NoRequest.at = "none" /\ NoRequest.client = 0
  BY ServerAssumption DEF NoRequest, RequestStates
<1>3. /\ steps \in Seq(StepNames) /\ cache \in Seq(Rows) /\ client \in Seq(Clients)
      /\ Len(cache) = 0 /\ Len(client) = 0
  BY EmptySeq DEF ServerInit
<1>4. ServerShape
  <2>1. request \in [Request -> RequestStates]
    BY <1>2 DEF ServerInit
  <2>2. saved = 0 /\ 0 \in 0..SaveMax
    BY ServerAssumption DEF ServerInit
  <2> QED
    BY <1>1, <1>3, <2>1, <2>2 DEF ServerInit, ServerShape
<1>5. NamesExist
  BY <1>1, <1>2, <1>3, NotCleaningIs DEF ServerInit, NamesExist
<1>6. Course
  BY <1>1, <1>2, NotCleaningIs DEF ServerInit, Course, Cleaner
<1>7. ClientsBelong /\ OpenUnlessCleaned /\ PassedAreTried
  BY <1>1, <1>3, NotCleaningIs DEF ClientsBelong, OpenUnlessCleaned, PassedAreTried
<1> QED
  BY <1>4, <1>5, <1>6, <1>7 DEF ServerInv

LEMMA ServerTypes == ServerInv => ServerTypeOK
<1> SUFFICES ASSUME ServerInv PROVE ServerTypeOK
  OBVIOUS
<1>1. ServerShape /\ NamesExist /\ Len(cache) \in Nat /\ Len(client) \in Nat
  BY LenProperties DEF ServerInv, ServerShape
<1>2. cache \in Seq([Entry -> 0..Len(client)])
  <2> DEFINE named == [Entry -> 0..Len(client)]
  <2>1. \A h \in 1..Len(cache) : cache[h] \in Rows
    BY <1>1, ElementOfSeq DEF ServerShape
  <2>2. \A h \in 1..Len(cache) : cache[h] \in named
    BY <1>1, <2>1 DEF NamesExist, Rows
  <2> HIDE DEF named
  <2>3. cache = [h \in 1..Len(cache) |-> cache[h]]
    BY <1>1 DEF ServerShape
  <2>4. cache \in Seq(named)
    BY <1>1, <2>2, <2>3
  <2> QED
    BY <2>4 DEF named
<1>3. ASSUME NEW x \in Cleaner
      PROVE  cleaning[x] \in [registry: 0..Len(cache), items: Seq(1..Len(client)), next: Nat, failed: BOOLEAN]
  <2> DEFINE numbers == 1..Len(client)
  <2>1. cleaning[x] \in Cleanings
    BY <1>1 DEF ServerShape
  <2>2. cleaning[x].items \in Seq(Nat) /\ Len(cleaning[x].items) \in Nat
    BY <2>1, LenProperties DEF Cleanings
  <2> DEFINE s == cleaning[x].items
  <2>3. \A i \in 1..Len(s) : s[i] \in numbers
    BY <1>1 DEF NamesExist
  <2> HIDE DEF numbers
  <2>4. s \in Seq(numbers)
    <3>1. s = [i \in 1..Len(s) |-> s[i]]
      BY <2>2
    <3> QED
      BY <2>2, <2>3, <3>1
  <2>5. cleaning[x].registry \in 0..Len(cache)
    BY <1>1, <2>1 DEF NamesExist, Cleanings
  <2> QED
    BY <2>1, <2>4, <2>5 DEF numbers, Cleanings
<1>4. cleaning \in [Cleaner -> [registry: 0..Len(cache), items: Seq(1..Len(client)), next: Nat, failed: BOOLEAN]]
  BY <1>1, <1>3 DEF ServerShape
<1>5. request \in [Request -> [at: {"none", "waiting", "using"}, settings: 0..SaveMax, client: 0..Len(client)]]
  BY <1>1 DEF ServerShape, NamesExist, RequestStates
<1>6. current \in 0..Len(cache) /\ own \in 0..Len(cache)
  BY <1>1 DEF ServerShape, NamesExist
<1> QED
  BY <1>1, <1>2, <1>4, <1>5, <1>6 DEF ServerShape, ServerTypeOK, Clients, StepNames

LEMMA ServerKeepsClients == ServerInv => ClientsAreKept
<1> SUFFICES ASSUME ServerInv PROVE ClientsAreKept
  OBVIOUS
<1>1. ServerShape /\ NamesExist /\ Course /\ Len(cache) \in Nat
  BY LenProperties DEF ServerInv, ServerShape
<1>2. NoClosedClientInUse
  BY <1>1 DEF NoClosedClientInUse, ServerInv, OpenUnlessCleaned, NamesExist, Course, ServerShape
<1>3. CleanupTriesAll
  <2> SUFFICES ASSUME NEW x \in Cleaner, ClosedAll(x), NEW i \in DOMAIN cleaning[x].items
               PROVE  client[cleaning[x].items[i]].state # "open"
    BY DEF CleanupTriesAll
  <2>1. cleaning[x] \in Cleanings
    BY <1>1 DEF ServerShape
  <2>2. /\ Len(cleaning[x].items) \in Nat /\ DOMAIN cleaning[x].items = 1..Len(cleaning[x].items)
        /\ cleaning[x].next \in Nat
    BY <2>1, LenProperties DEF Cleanings
  <2>3. i \in 1..Len(cleaning[x].items) /\ i < cleaning[x].next
    BY <2>2 DEF ClosedAll
  <2> QED
    BY <2>3 DEF ServerInv, PassedAreTried
<1> QED
  BY <1>2, <1>3, ServerTypes DEF ClientsAreKept

\* For any number of requests, entries, clients and posts of the admin page, of
\* cleanups that fail, overlap or are cancelled and of servers that start again: a
\* registry in use hands out clients that are open, and a cleanup leaves none
\* of its own open (registry.py: ProviderRegistry.cleanup).
THEOREM KeepsClients == ServerSpec => []ClientsAreKept
BY InitServerInv, NextServerInv, ServerKeepsClients, PTL DEF ServerSpec

-----------------------------------------------------------------------------
(* The queue in front of the chat platform. *)

\* Submissions are numbered as they are made; a retry has one left.
NumbersAreNew ==
    \A s \in Submission :
        /\ s > submitted => call[s] = "none" /\ retries[s] = 0
        /\ call[s] = "backoff" => retries[s] < RetryMax

\* The update f may be shown after the submission s was answered.
NotOlder(s, f) == s <= f \/ retries[f] > 0

\* A queued entry, or a job, of key k: its func was submitted, and no caller
\* waits for something newer, unless the func is a retry.
Sound(entry, k) ==
    /\ entry.func \in 1..submitted
    /\ \A c \in entry.callers :
        c <= submitted /\ key_of[c] = k /\ NotOlder(c, entry.func)

HasJob == job.func # NoFunc

JobOfWorker ==
    /\ worker \in {"waiting", "stopped"} => job = NoJob
    /\ worker \in {"pausing", "limiting", "sending"} => HasJob

EntriesAreSound ==
    /\ \A k \in DedupKey : Queued(k) => Sound(queue_map[k], k)
    /\ HasJob => Sound(job, job.key)

\* What is queued is not older than what waits in the job, or than what was
\* answered; nor is the job.
OrderIsKept ==
    /\ \A k \in DedupKey :
        Queued(k) /\ HasJob /\ job.key = k =>
            \A c \in job.callers : NotOlder(c, queue_map[k].func)
    /\ \A s \in Submission : call[s] = "answered" =>
        /\ Queued(key_of[s]) => NotOlder(s, queue_map[key_of[s]].func)
        /\ HasJob /\ job.key = key_of[s] => NotOlder(s, job.func)

SendsInv ==
    /\ LimiterTypeOK /\ NumbersAreNew /\ JobOfWorker /\ EntriesAreSound /\ OrderIsKept
    /\ ListMatchesMap /\ NoCallerForgotten /\ OnlyRetriesGoBack

LEMMA InitSendsInv == LimiterInit => SendsInv
<1> SUFFICES ASSUME LimiterInit
             PROVE  SendsInv
  OBVIOUS
<1> USE LimiterAssumption DEF LimiterInit
<1>1. NoJob.key \in DedupKey
  BY DEF NoJob
<1>2. LimiterTypeOK
  <2>1. queue_list \in Seq(DedupKey) /\ submitted \in 0..SubmitMax
    OBVIOUS
  <2>2. queue_map \in [DedupKey -> QueueEntry]
    BY DEF NotQueued, QueueEntry
  <2>3. job \in [key : DedupKey, func : Submission \cup {NoFunc}, callers : SUBSET Submission]
    BY <1>1 DEF NoJob
  <2>4. key_of \in [Submission -> DedupKey] /\ retries \in [Submission -> 0..RetryMax]
    BY <1>1
  <2> QED
    BY <2>1, <2>2, <2>3, <2>4 DEF LimiterTypeOK
<1>3. ListMatchesMap
  BY DEF ListMatchesMap, Queued, NotQueued, IsInjective, ToSet
<1>4. NumbersAreNew /\ JobOfWorker /\ NoCallerForgotten /\ OnlyRetriesGoBack
  BY DEF NumbersAreNew, JobOfWorker, NoCallerForgotten, OnlyRetriesGoBack
<1>5. EntriesAreSound /\ OrderIsKept
  BY DEF EntriesAreSound, OrderIsKept, Queued, HasJob, NoJob, NoFunc
<1> QED
  BY <1>2, <1>3, <1>4, <1>5 DEF SendsInv

-----------------------------------------------------------------------------
(* What goes into the queue and out of it. *)

\* The entry of a key after a submission or a retry, and the others.
LEMMA Enqueued ==
    ASSUME LimiterTypeOK, NEW s \in Submission, NEW k \in DedupKey, Enqueue(s, k)
    PROVE  /\ queue_map' \in [DedupKey -> QueueEntry]
           /\ queue_map'[k].func = s
           /\ queue_map'[k].callers = queue_map[k].callers \cup {s}
           /\ \A x \in DedupKey \ {k} : queue_map'[x] = queue_map[x]
           /\ \A x \in DedupKey : Queued(x)' <=> Queued(x) \/ x = k
<1>1. /\ queue_map' \in [DedupKey -> QueueEntry]
      /\ queue_map'[k] = [func |-> s, callers |-> queue_map[k].callers \cup {s}]
      /\ \A x \in DedupKey \ {k} : queue_map'[x] = queue_map[x]
  BY DEF Enqueue, LimiterTypeOK, QueueEntry
<1>2. queue_map'[k] # NotQueued
  BY <1>1 DEF NotQueued
<1> QED
  BY <1>1, <1>2 DEF Queued

\* Compaction keeps the place of a queued key; another one goes to the end.
LEMMA ListAfterEnqueue ==
    ASSUME LimiterTypeOK, ListMatchesMap, NEW s \in Submission, NEW k \in DedupKey, Enqueue(s, k)
    PROVE  ListMatchesMap' /\ queue_list' \in Seq(DedupKey)
<1>1. \A x \in DedupKey : Queued(x)' <=> Queued(x) \/ x = k
  BY Enqueued
<1>2. CASE Queued(k)
  BY <1>1, <1>2 DEF Enqueue, ListMatchesMap, LimiterTypeOK
<1>3. CASE ~Queued(k)
  <2>1. queue_list' = Append(queue_list, k) /\ queue_list \in Seq(DedupKey)
    BY <1>3 DEF Enqueue, LimiterTypeOK
  <2>2. \A i \in 1..Len(queue_list) : queue_list[i] # k
    BY <1>3, <2>1 DEF ListMatchesMap, ToSet
  <2>3. IsInjective(queue_list')
    BY <2>1, <2>2 DEF ListMatchesMap, IsInjective
  <2>4. ToSet(queue_list') = ToSet(queue_list) \cup {k}
    <3>1. ToSet(queue_list') \subseteq ToSet(queue_list) \cup {k}
      BY <2>1 DEF ToSet
    <3>2. ToSet(queue_list) \subseteq ToSet(queue_list')
      <4>1. ASSUME NEW i \in 1..Len(queue_list)
            PROVE  i \in 1..Len(queue_list') /\ queue_list'[i] = queue_list[i]
        BY <2>1
      <4> QED
        BY <2>1, <4>1 DEF ToSet
    <3>3. queue_list'[Len(queue_list) + 1] = k /\ Len(queue_list) + 1 \in 1..Len(queue_list')
      BY <2>1
    <3> QED
      BY <2>1, <3>1, <3>2, <3>3 DEF ToSet
  <2> QED
    BY <1>1, <2>1, <2>3, <2>4 DEF ListMatchesMap
<1> QED
  BY <1>2, <1>3

\* The worker takes the first key; no other is lost.
LEMMA ListAfterPop ==
    ASSUME LimiterTypeOK, ListMatchesMap, Pop, NEW k, k = Head(queue_list)
    PROVE  /\ k \in DedupKey /\ Queued(k)
           /\ queue_map' = [queue_map EXCEPT ![k] = NotQueued]
           /\ queue_map' \in [DedupKey -> QueueEntry]
           /\ \A x \in DedupKey : Queued(x)' <=> Queued(x) /\ x # k
           /\ ListMatchesMap' /\ queue_list' \in Seq(DedupKey)
<1>1. /\ queue_list \in Seq(DedupKey) /\ queue_list # <<>>
      /\ queue_list' = Tail(queue_list)
      /\ queue_map' = [queue_map EXCEPT ![k] = NotQueued]
  BY DEF Pop, LimiterTypeOK
<1>2. k \in DedupKey /\ queue_list[1] = k /\ 1 \in 1..Len(queue_list)
  BY <1>1
<1>3. Queued(k)
  BY <1>1, <1>2 DEF ListMatchesMap, ToSet
<1>4. /\ queue_map' \in [DedupKey -> QueueEntry]
      /\ \A x \in DedupKey : Queued(x)' <=> Queued(x) /\ x # k
  BY <1>1, <1>2, LimiterAssumption DEF Queued, LimiterTypeOK, NotQueued, QueueEntry, NoFunc, Submission
<1>5. IsInjective(queue_list')
  BY <1>1 DEF ListMatchesMap, IsInjective
<1>6. ToSet(queue_list') = ToSet(queue_list) \ {k}
  <2>1. \A i \in 1..Len(queue_list') :
            queue_list'[i] = queue_list[i + 1] /\ i + 1 \in 1..Len(queue_list) /\ i + 1 # 1
    BY <1>1
  <2>2. \A i \in 1..Len(queue_list) : i # 1 => i - 1 \in 1..Len(queue_list') /\ queue_list'[i - 1] = queue_list[i]
    BY <1>1
  <2>3. \A i \in 1..Len(queue_list) : i # 1 => queue_list[i] # k
    BY <1>1, <1>2 DEF ListMatchesMap, IsInjective
  <2>4. DOMAIN queue_list = 1..Len(queue_list) /\ DOMAIN queue_list' = 1..Len(queue_list')
    BY <1>1
  <2>5. ToSet(queue_list') \subseteq ToSet(queue_list) \ {k}
    BY <2>1, <2>3, <2>4 DEF ToSet
  <2>6. ToSet(queue_list) \ {k} \subseteq ToSet(queue_list')
    BY <1>2, <2>2, <2>4 DEF ToSet
  <2> QED
    BY <2>5, <2>6
<1> QED
  BY <1>1, <1>2, <1>3, <1>4, <1>5, <1>6 DEF ListMatchesMap

-----------------------------------------------------------------------------
(* Steps. *)

\* A submission or a retry s of key k: what it replaces is older, or the newcomer is a
\* retry.
LEMMA EnqueueKeeps ==
    ASSUME SendsInv, NEW s \in Submission, NEW k \in DedupKey, Enqueue(s, k),
           UNCHANGED <<worker, job, paused, limiter_shut_down, shown>>,
           s \in 1..submitted', submitted' \in submitted..SubmitMax,
           key_of' \in [Submission -> DedupKey], key_of'[s] = k,
           \A x \in 1..submitted : key_of'[x] = key_of[x],
           forget' \in [Submission -> BOOLEAN],
           call' = [call EXCEPT ![s] = "waiting"],
           retries' \in [Submission -> 0..RetryMax],
           \A x \in Submission \ {s} : retries'[x] = retries[x],
           retries'[s] >= retries[s],
           retries'[s] > 0 \/ s > submitted,
           \A x \in Submission : x > submitted' => retries'[x] = 0 /\ x # s /\ x > submitted
    PROVE  SendsInv'
<1> USE DEF SendsInv
<1>1. LimiterTypeOK'
  <2>1. queue_list' \in Seq(DedupKey) /\ queue_map' \in [DedupKey -> QueueEntry]
    BY ListAfterEnqueue, Enqueued
  <2>2. submitted' \in 0..SubmitMax
    BY LimiterAssumption DEF LimiterTypeOK
  <2>3. call' \in [Submission -> {"none", "waiting", "backoff", "answered", "failed", "gave_up"}]
    BY DEF LimiterTypeOK
  <2> QED
    BY <2>1, <2>2, <2>3 DEF LimiterTypeOK
<1>2. ListMatchesMap'
  BY ListAfterEnqueue
<1>3. NumbersAreNew'
  BY DEF NumbersAreNew, LimiterTypeOK
<1>4. JobOfWorker'
  BY DEF JobOfWorker, HasJob
\* Nothing that was submitted before is newer.
<1>5. \A x \in 1..submitted : x <= s \/ retries'[s] > 0
  BY LimiterAssumption DEF Submission, LimiterTypeOK
<1>6. \A x \in Submission, f \in Submission : NotOlder(x, f) => NotOlder(x, f)'
  <2>1. \A f \in Submission : retries[f] > 0 => retries'[f] > 0
    <3>1. \A f \in Submission : retries[f] \in Nat /\ retries'[f] \in Nat
      <4>1. 0..RetryMax \subseteq Nat
        BY LimiterAssumption
      <4>2. retries \in [Submission -> 0..RetryMax] /\ retries' \in [Submission -> 0..RetryMax]
        BY DEF LimiterTypeOK
      <4> QED
        BY ONLY <4>1, <4>2
    <3>2. \A f \in Submission : retries'[f] >= retries[f]
      BY <3>1
    <3> QED
      BY <3>1, <3>2
  <2> QED
    BY <2>1 DEF NotOlder
<1>7. \A x \in Submission : call[x] # "none" => x \in 1..submitted
  BY LimiterAssumption DEF NumbersAreNew, Submission, LimiterTypeOK
<1>8. EntriesAreSound'
  <2>1. ASSUME NEW x \in DedupKey, Queued(x)'
        PROVE  Sound(queue_map[x], x)'
    <3>1. CASE x = k
      <4>1. \A c \in queue_map[k].callers : c \in 1..submitted /\ key_of[c] = k
        <5>1. CASE Queued(k)
          BY <5>1, LimiterAssumption DEF EntriesAreSound, Sound, LimiterTypeOK, QueueEntry, Submission
        <5>2. CASE ~Queued(k)
          BY <5>2 DEF Queued, NotQueued
        <5> QED
          BY <5>1, <5>2
      <4>2. queue_map'[k].func = s /\ queue_map'[k].callers = queue_map[k].callers \cup {s}
        BY Enqueued
      <4>3. \A c \in queue_map'[k].callers : c <= submitted' /\ key_of'[c] = k /\ NotOlder(c, s)'
        BY <4>1, <4>2, <1>5 DEF NotOlder, LimiterTypeOK, Submission
      <4> QED
        BY <3>1, <4>2, <4>3 DEF Sound
    <3>2. CASE x # k
      <4>1. queue_map'[x] = queue_map[x] /\ Queued(x)
        BY <2>1, <3>2, Enqueued
      <4>2. Sound(queue_map[x], x)
        BY <4>1 DEF EntriesAreSound
      <4>3. queue_map[x].callers \subseteq Submission /\ queue_map[x].func \in Submission
        BY <4>2, LimiterAssumption DEF Sound, LimiterTypeOK, QueueEntry, Submission
      <4> QED
        BY <4>1, <4>2, <4>3, <1>6, LimiterAssumption DEF Sound, LimiterTypeOK, Submission
    <3> QED
      BY <3>1, <3>2
  <2>2. ASSUME HasJob'
        PROVE  Sound(job, job.key)'
    <3>1. HasJob /\ Sound(job, job.key)
      BY <2>2 DEF HasJob, EntriesAreSound
    <3>2. /\ job.func \in 1..submitted /\ job.func \in Submission
          /\ \A c \in job.callers : c \in Submission /\ c \in 1..submitted
      BY <3>1, LimiterAssumption DEF Sound, LimiterTypeOK, Submission
    <3>3. submitted \in Nat /\ submitted' \in Nat /\ submitted <= submitted'
      BY LimiterAssumption DEF LimiterTypeOK
    <3>4. job.func \in 1..submitted' /\ \A c \in job.callers : c <= submitted'
      BY <3>2, <3>3
    <3>5. \A c \in job.callers : key_of'[c] = job.key
      BY <3>1, <3>2 DEF Sound
    <3>6. \A c \in job.callers : NotOlder(c, job.func)'
      BY <3>1, <3>2, <1>6 DEF Sound
    <3>7. job' = job
      OBVIOUS
    <3> QED
      BY <3>4, <3>5, <3>6, <3>7 DEF Sound
  <2> QED
    BY <2>1, <2>2 DEF EntriesAreSound
<1>9. OrderIsKept'
  <2>1. ASSUME NEW x \in DedupKey, Queued(x)', HasJob', job'.key = x, NEW c \in job'.callers
        PROVE  NotOlder(c, queue_map[x].func)'
    <3>1. HasJob /\ c \in job.callers /\ c \in 1..submitted /\ c \in Submission
      BY <2>1, LimiterAssumption DEF HasJob, EntriesAreSound, Sound, LimiterTypeOK, Submission
    <3>2. CASE x = k
      BY <3>1, <3>2, <1>5, Enqueued DEF NotOlder
    <3>3. CASE x # k
      <4>1. queue_map'[x] = queue_map[x] /\ Queued(x)
        BY <2>1, <3>3, Enqueued
      <4>2. queue_map[x].func \in Submission
        BY <4>1, LimiterAssumption DEF EntriesAreSound, Sound, LimiterTypeOK, Submission
      <4> QED
        BY <2>1, <3>1, <4>1, <4>2, <1>6 DEF OrderIsKept
    <3> QED
      BY <3>2, <3>3
  <2>2. ASSUME NEW x \in Submission, call'[x] = "answered"
        PROVE  /\ Queued(key_of[x])' => NotOlder(x, queue_map[key_of[x]].func)'
               /\ HasJob' /\ job'.key = key_of'[x] => NotOlder(x, job.func)'
    <3>1. x # s /\ call[x] = "answered" /\ x \in 1..submitted
      BY <2>2, <1>7 DEF LimiterTypeOK
    <3>2. key_of'[x] = key_of[x] /\ key_of[x] \in DedupKey
      BY <3>1 DEF LimiterTypeOK
    <3>3. key_of[x] = k => NotOlder(x, queue_map[key_of[x]].func)'
      BY <3>1, <3>2, <1>5, Enqueued DEF NotOlder
    <3>4. ASSUME key_of[x] # k, Queued(key_of[x])'
          PROVE  NotOlder(x, queue_map[key_of[x]].func)'
      <4>1. queue_map'[key_of[x]] = queue_map[key_of[x]]
        BY <3>2, <3>4, Enqueued
      <4>2. Queued(key_of[x])
        BY <3>2, <3>4, <4>1 DEF Queued
      <4>3. NotOlder(x, queue_map[key_of[x]].func)
        BY <3>1, <4>2 DEF OrderIsKept
      <4>4. queue_map[key_of[x]].func \in Submission
        BY <3>2, <4>2, LimiterAssumption DEF EntriesAreSound, Sound, LimiterTypeOK, Submission
      <4>5. queue_map'[key_of'[x]].func = queue_map[key_of[x]].func
        BY <3>2, <4>1
      <4> QED
        BY <3>1, <4>3, <4>4, <4>5, <1>6 DEF NotOlder
    <3>5. HasJob' /\ job'.key = key_of'[x] => NotOlder(x, job.func)'
      <4>1. HasJob => job.func \in Submission
        BY LimiterAssumption DEF EntriesAreSound, Sound, LimiterTypeOK, Submission
      <4> QED
        BY <3>1, <3>2, <4>1, <1>6 DEF OrderIsKept, HasJob
    <3> QED
      BY <3>2, <3>3, <3>4, <3>5
  <2> QED
    BY <2>1, <2>2 DEF OrderIsKept
<1>10. NoCallerForgotten'
  <2> SUFFICES ASSUME ~limiter_shut_down', NEW x \in Submission, call'[x] = "waiting"
               PROVE  \/ x \in queue_map'[key_of'[x]].callers
                      \/ x \in job'.callers /\ job'.key = key_of'[x]
    BY DEF NoCallerForgotten
  <2>1. CASE x = s
    BY <2>1, Enqueued
  <2>2. CASE x # s
    <3>1. call[x] = "waiting" /\ x \in 1..submitted /\ key_of'[x] = key_of[x] /\ key_of[x] \in DedupKey
      BY <2>2, <1>7 DEF LimiterTypeOK
    <3>2. queue_map[key_of[x]].callers \subseteq queue_map'[key_of[x]].callers
      BY <3>1, Enqueued
    <3> QED
      BY <3>1, <3>2 DEF NoCallerForgotten
  <2> QED
    BY <2>1, <2>2
<1>11. OnlyRetriesGoBack'
  <2> SUFFICES ASSUME NEW x \in Submission, call'[x] = "answered", shown'[key_of'[x]] < x
               PROVE  shown'[key_of'[x]] # NoFunc /\ retries'[shown'[key_of'[x]]] > 0
    BY DEF OnlyRetriesGoBack
  <2>1. call[x] = "answered" /\ x \in 1..submitted /\ key_of'[x] = key_of[x] /\ key_of[x] \in DedupKey
    BY <1>7 DEF LimiterTypeOK
  <2>2. shown[key_of[x]] # NoFunc /\ retries[shown[key_of[x]]] > 0
    BY <2>1 DEF OnlyRetriesGoBack
  <2>3. shown[key_of[x]] \in Submission /\ NotOlder(x, shown[key_of[x]])
    BY <2>1, <2>2 DEF LimiterTypeOK, NotOlder
  <2>4. NotOlder(x, shown[key_of[x]])'
    BY <2>1, <2>3, <1>6
  <2> QED
    BY <2>1, <2>2, <2>4, LimiterAssumption DEF LimiterTypeOK, NotOlder, Submission
<1> QED
  BY <1>1, <1>2, <1>3, <1>4, <1>8, <1>9, <1>10, <1>11

\* The worker comes back from the platform: who waited for the job is told, and
\* what the platform shows now is not older than what anybody was told before.
LEMMA TellKeeps ==
    ASSUME SendsInv, worker = "sending", worker' = "waiting", job' = NoJob,
           UNCHANGED <<queue_list, queue_map, limiter_shut_down, submitted, key_of, forget, retries>>,
           paused' \in BOOLEAN,
           shown' = shown \/ shown' = [shown EXCEPT ![job.key] = job.func],
           NEW outcome, Tell(outcome),
           \A s \in Submission :
              /\ outcome[s] \in {"answered", "failed", "backoff"}
              /\ outcome[s] = "answered" => shown' = [shown EXCEPT ![job.key] = job.func]
              /\ outcome[s] = "backoff" => retries[s] < RetryMax
    PROVE  SendsInv'
<1> USE DEF SendsInv
<1>1. HasJob /\ Sound(job, job.key) /\ job.func \in Submission /\ job.key \in DedupKey
  BY LimiterAssumption DEF JobOfWorker, EntriesAreSound, Sound, LimiterTypeOK, Submission
<1>2. \A s \in Submission :
          call'[s] = IF s \in job.callers /\ call[s] = "waiting" THEN outcome[s] ELSE call[s]
  BY DEF Tell
<1>3. ~HasJob' /\ job'.callers = {} /\ job'.key \in DedupKey /\ job'.func = NoFunc
  BY LimiterAssumption DEF NoJob, HasJob
<1>4. LimiterTypeOK'
  <2>1. call' \in [Submission -> {"none", "waiting", "backoff", "answered", "failed", "gave_up"}]
    BY DEF Tell, LimiterTypeOK
  <2>2. shown' \in [DedupKey -> Submission \cup {NoFunc}]
    BY <1>1 DEF LimiterTypeOK
  <2>3. job' \in [key : DedupKey, func : Submission \cup {NoFunc}, callers : SUBSET Submission]
    BY <1>3 DEF NoJob
  <2> QED
    BY <2>1, <2>2, <2>3 DEF LimiterTypeOK
<1>5. ListMatchesMap'
  BY DEF ListMatchesMap, Queued
<1>6. NumbersAreNew'
  BY <1>2 DEF NumbersAreNew
<1>7. JobOfWorker'
  BY DEF JobOfWorker
<1>8. EntriesAreSound'
  BY <1>3 DEF EntriesAreSound, Sound, NotOlder, Queued
<1>9. OrderIsKept'
  <2> SUFFICES ASSUME NEW s \in Submission, call'[s] = "answered", Queued(key_of[s])
               PROVE  NotOlder(s, queue_map[key_of[s]].func)
    BY <1>3 DEF OrderIsKept, Queued, NotOlder
  <2>1. CASE call[s] = "answered"
    BY <2>1 DEF OrderIsKept
  <2>2. CASE s \in job.callers
    BY <1>1, <2>2 DEF OrderIsKept, Sound
  <2> QED
    BY <1>2, <2>1, <2>2
<1>10. NoCallerForgotten'
  <2> SUFFICES ASSUME ~limiter_shut_down, NEW s \in Submission, call'[s] = "waiting"
               PROVE  s \in queue_map[key_of[s]].callers
    BY DEF NoCallerForgotten
  <2>1. call[s] = "waiting" /\ s \notin job.callers
    BY <1>2
  <2> QED
    BY <2>1 DEF NoCallerForgotten
<1>11. OnlyRetriesGoBack'
  <2> SUFFICES ASSUME NEW s \in Submission, call'[s] = "answered", shown'[key_of[s]] < s
               PROVE  shown'[key_of[s]] # NoFunc /\ retries[shown'[key_of[s]]] > 0
    BY DEF OnlyRetriesGoBack
  <2>1. key_of[s] \in DedupKey /\ job.func # NoFunc
    BY <1>1 DEF LimiterTypeOK, HasJob
  <2>2. CASE call[s] = "answered" /\ shown'[key_of[s]] = shown[key_of[s]]
    BY <2>2 DEF OnlyRetriesGoBack
  <2>3. CASE call[s] = "answered" /\ shown'[key_of[s]] # shown[key_of[s]]
    <3>1. key_of[s] = job.key /\ shown'[key_of[s]] = job.func
      BY <2>1, <2>3 DEF LimiterTypeOK
    <3>2. NotOlder(s, job.func)
      BY <1>1, <2>3, <3>1 DEF OrderIsKept
    <3> QED
      BY <2>1, <3>1, <3>2, <1>1, LimiterAssumption DEF NotOlder, Submission
  <2>4. CASE call[s] # "answered"
    <3>1. s \in job.callers /\ outcome[s] = "answered"
      BY <1>2, <2>4
    <3>2. key_of[s] = job.key /\ NotOlder(s, job.func)
      BY <1>1, <3>1 DEF Sound
    <3>3. shown'[key_of[s]] = job.func
      BY <3>1, <3>2, <2>1 DEF LimiterTypeOK
    <3> QED
      BY <2>1, <3>2, <3>3, <1>1, LimiterAssumption DEF NotOlder, Submission
  <2> QED
    BY <2>2, <2>3, <2>4
<1> QED
  BY <1>4, <1>5, <1>6, <1>7, <1>8, <1>9, <1>10, <1>11

\* The worker takes a job: nothing of the same key is queued any more.
LEMMA PopKeeps ==
    ASSUME SendsInv, Pop
    PROVE  SendsInv'
<1> USE DEF SendsInv
<1>0. PICK k : k = Head(queue_list)
  OBVIOUS
<1>1. /\ k \in DedupKey /\ Queued(k)
      /\ queue_map' = [queue_map EXCEPT ![k] = NotQueued]
      /\ queue_map' \in [DedupKey -> QueueEntry]
      /\ \A x \in DedupKey : Queued(x)' <=> Queued(x) /\ x # k
      /\ ListMatchesMap' /\ queue_list' \in Seq(DedupKey)
  BY <1>0, ListAfterPop
<1>2. /\ job = NoJob /\ worker' = "pausing"
      /\ job' = [key |-> k, func |-> queue_map[k].func, callers |-> queue_map[k].callers]
      /\ UNCHANGED <<paused, limiter_shut_down, submitted, key_of, forget, call, retries, shown>>
  BY <1>0 DEF Pop, JobOfWorker, callVars
<1>3. Sound(queue_map[k], k) /\ queue_map[k].func \in Submission
  BY <1>1, LimiterAssumption DEF EntriesAreSound, Sound, LimiterTypeOK, Submission
<1>4. job'.key = k /\ job'.func = queue_map[k].func /\ job'.callers = queue_map[k].callers
  BY <1>2
<1>5. HasJob'
  BY <1>3, <1>4 DEF HasJob, Submission, NoFunc
<1>6. LimiterTypeOK'
  <2>1. queue_map[k].callers \subseteq Submission
    BY <1>1 DEF LimiterTypeOK, QueueEntry
  <2>2. job' \in [key : DedupKey, func : Submission \cup {NoFunc}, callers : SUBSET Submission]
    BY <1>1, <1>2, <1>3, <2>1
  <2> QED
    BY <1>1, <1>2, <2>2 DEF LimiterTypeOK
<1>7. NumbersAreNew' /\ JobOfWorker' /\ OnlyRetriesGoBack'
  BY <1>2, <1>5 DEF NumbersAreNew, JobOfWorker, OnlyRetriesGoBack
<1>8. EntriesAreSound'
  <2>1. ASSUME NEW x \in DedupKey, Queued(x)'
        PROVE  Sound(queue_map[x], x)'
    <3>1. Queued(x) /\ queue_map'[x] = queue_map[x]
      BY <1>1, <2>1 DEF LimiterTypeOK
    <3> QED
      BY <1>2, <3>1 DEF EntriesAreSound, Sound, NotOlder
  <2>2. Sound(job, job.key)'
    BY <1>2, <1>3, <1>4 DEF Sound, NotOlder
  <2> QED
    BY <2>1, <2>2 DEF EntriesAreSound
<1>9. OrderIsKept'
  <2>1. ~Queued(k)'
    BY <1>1
  <2>2. ASSUME NEW s \in Submission, call[s] = "answered"
        PROVE  /\ Queued(key_of[s])' => NotOlder(s, queue_map[key_of[s]].func)'
               /\ key_of[s] = k => NotOlder(s, queue_map[k].func)
    <3>1. Queued(key_of[s]) => NotOlder(s, queue_map[key_of[s]].func)
      BY <2>2 DEF OrderIsKept
    <3>2. key_of[s] \in DedupKey /\ key_of'[s] = key_of[s]
      BY <1>2 DEF LimiterTypeOK
    <3>3. CASE key_of[s] = k
      <4>1. ~Queued(key_of[s])'
        BY <1>2, <2>1, <3>3
      <4> QED
        BY <1>1, <1>2, <3>1, <3>3, <4>1 DEF NotOlder
    <3>4. CASE key_of[s] # k
      BY <1>1, <1>2, <3>1, <3>2, <3>4 DEF NotOlder, Queued
    <3> QED
      BY <3>3, <3>4
  <2> QED
    BY <1>2, <1>4, <2>1, <2>2 DEF OrderIsKept, NotOlder
<1>10. NoCallerForgotten'
  <2> SUFFICES ASSUME ~limiter_shut_down, NEW s \in Submission, call[s] = "waiting"
               PROVE  \/ s \in queue_map'[key_of[s]].callers
                      \/ s \in job'.callers /\ job'.key = key_of[s]
    BY <1>2 DEF NoCallerForgotten
  <2>1. s \in queue_map[key_of[s]].callers
    BY <1>2 DEF NoCallerForgotten, NoJob
  <2>2. key_of[s] \in DedupKey
    BY DEF LimiterTypeOK
  <2> QED
    BY <1>1, <1>4, <2>1, <2>2 DEF LimiterTypeOK
<1> QED
  BY <1>1, <1>6, <1>7, <1>8, <1>9, <1>10

LEMMA NextSendsInv == SendsInv /\ [LimiterNext]_limiterVars => SendsInv'
<1> SUFFICES ASSUME SendsInv, [LimiterNext]_limiterVars
             PROVE  SendsInv'
  OBVIOUS
<1>1. ASSUME NEW k \in DedupKey, NEW ff \in BOOLEAN, Submit(k, ff)
      PROVE  SendsInv'
  <2> DEFINE s == submitted + 1
  <2>1. s \in Submission /\ submitted' = s /\ s \in 1..submitted'
    BY <1>1, LimiterAssumption DEF Submit, Submission, SendsInv, LimiterTypeOK
  <2>2. /\ Enqueue(s, k)
        /\ UNCHANGED <<worker, job, paused, limiter_shut_down, shown>>
        /\ submitted' \in submitted..SubmitMax
        /\ key_of' \in [Submission -> DedupKey] /\ key_of'[s] = k
        /\ forget' \in [Submission -> BOOLEAN]
        /\ call' = [call EXCEPT ![s] = "waiting"]
        /\ retries' = retries
    BY <1>1, <2>1, LimiterAssumption DEF Submit, SendsInv, LimiterTypeOK
  <2>3. \A x \in 1..submitted : key_of'[x] = key_of[x]
    BY <1>1, LimiterAssumption DEF Submit, SendsInv, LimiterTypeOK, Submission
  <2>4. \A x \in Submission : x > submitted' => retries'[x] = 0 /\ x # s /\ x > submitted
    BY <2>1, <2>2, LimiterAssumption DEF SendsInv, NumbersAreNew, Submission, LimiterTypeOK
  <2>5. /\ retries' \in [Submission -> 0..RetryMax] /\ retries'[s] >= retries[s] /\ s > submitted
        /\ \A x \in Submission \ {s} : retries'[x] = retries[x]
    BY <2>1, <2>2, LimiterAssumption DEF SendsInv, LimiterTypeOK
  <2> HIDE DEF s
  <2> QED
    BY <2>1, <2>2, <2>3, <2>4, <2>5, EnqueueKeeps
<1>2. ASSUME NEW s \in Submission, Retry(s)
      PROVE  SendsInv'
  <2>1. s \in 1..submitted /\ retries[s] < RetryMax /\ retries[s] \in Nat
    BY <1>2, LimiterAssumption DEF Retry, SendsInv, NumbersAreNew, LimiterTypeOK, Submission
  <2>2. /\ Enqueue(s, key_of[s]) /\ key_of[s] \in DedupKey
        /\ UNCHANGED <<worker, job, paused, limiter_shut_down, shown, submitted, key_of, forget>>
        /\ call' = [call EXCEPT ![s] = "waiting"]
        /\ retries' = [retries EXCEPT ![s] = @ + 1]
        /\ key_of \in [Submission -> DedupKey] /\ forget \in [Submission -> BOOLEAN]
        /\ submitted' \in submitted..SubmitMax /\ s \in 1..submitted'
    BY <1>2, <2>1, LimiterAssumption DEF Retry, SendsInv, LimiterTypeOK
  <2>3. /\ retries' \in [Submission -> 0..RetryMax]
        /\ retries'[s] = retries[s] + 1
        /\ \A x \in Submission \ {s} : retries'[x] = retries[x]
    BY <2>1, <2>2, LimiterAssumption DEF SendsInv, LimiterTypeOK
  <2>4. \A x \in Submission : x > submitted' => retries'[x] = 0 /\ x # s /\ x > submitted
    BY <2>1, <2>2, <2>3, LimiterAssumption DEF SendsInv, NumbersAreNew, LimiterTypeOK, Submission
  <2>5. retries'[s] >= retries[s] /\ retries'[s] > 0
    BY <2>1, <2>3
  <2> QED
    BY <2>2, <2>3, <2>4, <2>5, EnqueueKeeps
<1>3. ASSUME NEW s \in Submission, GiveUp(s)
      PROVE  SendsInv'
  <2>1. \A x \in Submission : call'[x] = IF x = s THEN "gave_up" ELSE call[x]
    BY <1>3 DEF GiveUp, SendsInv, LimiterTypeOK
  <2>2. call[s] = "waiting" /\ UNCHANGED <<queue_list, queue_map, worker, job, paused,
                          limiter_shut_down, submitted, key_of, forget, retries, shown>>
    BY <1>3 DEF GiveUp, queueVars
  <2>3. LimiterTypeOK'
    BY <1>3, <2>2 DEF GiveUp, SendsInv, LimiterTypeOK
  <2>4. NumbersAreNew' /\ JobOfWorker' /\ NoCallerForgotten' /\ OnlyRetriesGoBack' /\ ListMatchesMap'
    BY <2>1, <2>2 DEF SendsInv, NumbersAreNew, JobOfWorker, HasJob, NoCallerForgotten, OnlyRetriesGoBack,
                      ListMatchesMap, Queued
  <2>5. EntriesAreSound' /\ OrderIsKept'
    BY <2>1, <2>2 DEF SendsInv, EntriesAreSound, OrderIsKept, Sound, NotOlder, Queued, HasJob
  <2> QED
    BY <2>3, <2>4, <2>5 DEF SendsInv
<1>4. CASE Pop
  BY <1>4, PopKeeps
<1>5. CASE PauseOver \/ Acquire
  <2>1. /\ worker \in {"pausing", "limiting"} /\ worker' \in {"limiting", "sending"}
        /\ paused' \in BOOLEAN
        /\ UNCHANGED <<queue_list, queue_map, job, limiter_shut_down, submitted, key_of, forget,
                       call, retries, shown>>
    BY <1>5 DEF PauseOver, Acquire, queueVars, callVars, SendsInv, LimiterTypeOK
  <2>2. LimiterTypeOK' /\ JobOfWorker'
    BY <2>1 DEF SendsInv, LimiterTypeOK, JobOfWorker, HasJob
  <2>3. NumbersAreNew' /\ NoCallerForgotten' /\ OnlyRetriesGoBack' /\ ListMatchesMap'
    BY <2>1 DEF SendsInv, NumbersAreNew, NoCallerForgotten, OnlyRetriesGoBack, ListMatchesMap, Queued
  <2>4. EntriesAreSound' /\ OrderIsKept'
    BY <2>1 DEF SendsInv, EntriesAreSound, OrderIsKept, Sound, NotOlder, Queued, HasJob
  <2> QED
    BY <2>2, <2>3, <2>4 DEF SendsInv
<1>6. CASE SendOk
  <2> DEFINE outcome == [s \in Submission |-> "answered"]
  <2>1. /\ Tell(outcome) /\ shown' = [shown EXCEPT ![job.key] = job.func]
        /\ worker = "sending" /\ worker' = "waiting" /\ job' = NoJob /\ paused' = paused
        /\ UNCHANGED <<queue_list, queue_map, limiter_shut_down, submitted, key_of, forget, retries>>
    BY <1>6 DEF SendOk, queueVars
  <2>2. paused' \in BOOLEAN
    BY <2>1 DEF SendsInv, LimiterTypeOK
  <2>3. \A s \in Submission : outcome[s] = "answered"
    OBVIOUS
  <2> HIDE DEF outcome
  <2> QED
    BY <2>1, <2>2, <2>3, TellKeeps
<1>7. ASSUME NEW why \in Failures, SendFail(why)
      PROVE  SendsInv'
  <2> DEFINE outcome == [s \in Submission |->
                IF why = "transient" /\ MayTryAgain(s) THEN "backoff" ELSE "failed"]
  <2>1. /\ Tell(outcome) /\ (shown' = shown \/ shown' = [shown EXCEPT ![job.key] = job.func])
        /\ worker = "sending" /\ worker' = "waiting" /\ job' = NoJob /\ paused' \in BOOLEAN
        /\ UNCHANGED <<queue_list, queue_map, limiter_shut_down, submitted, key_of, forget, retries>>
    BY <1>7 DEF SendFail, queueVars
  <2>2. \A s \in Submission :
            /\ outcome[s] \in {"failed", "backoff"}
            /\ outcome[s] = "backoff" => retries[s] < RetryMax
    BY DEF MayTryAgain
  <2> HIDE DEF outcome
  <2> QED
    BY <2>1, <2>2, TellKeeps
<1>8. CASE ShutdownLimiter
  <2>1. /\ worker' = "stopped" /\ limiter_shut_down' = TRUE /\ job' = NoJob
        /\ UNCHANGED <<queue_list, queue_map, paused, submitted, key_of, forget, call, retries, shown>>
    BY <1>8 DEF ShutdownLimiter, queueVars, callVars
  <2>2. job' \in [key : DedupKey, func : Submission \cup {NoFunc}, callers : SUBSET Submission]
    BY <2>1, LimiterAssumption DEF NoJob
  <2>3. LimiterTypeOK'
    BY <2>1, <2>2 DEF SendsInv, LimiterTypeOK
  <2>4. ~HasJob'
    BY <2>1 DEF HasJob, NoJob
  <2>5. NumbersAreNew' /\ JobOfWorker' /\ NoCallerForgotten' /\ OnlyRetriesGoBack' /\ ListMatchesMap'
    BY <2>1 DEF SendsInv, NumbersAreNew, JobOfWorker, NoCallerForgotten, OnlyRetriesGoBack,
                ListMatchesMap, Queued
  <2>6. EntriesAreSound' /\ OrderIsKept'
    BY <2>1, <2>4 DEF SendsInv, EntriesAreSound, OrderIsKept, Sound, NotOlder, Queued
  <2> QED
    BY <2>3, <2>5, <2>6 DEF SendsInv
<1>9. CASE UNCHANGED limiterVars
  <2>1. UNCHANGED <<queue_list, queue_map, worker, job, paused, limiter_shut_down, submitted, key_of,
                    forget, call, retries, shown>>
    BY <1>9 DEF limiterVars, queueVars, callVars
  <2>2. LimiterTypeOK' /\ ListMatchesMap'
    BY <2>1 DEF SendsInv, LimiterTypeOK, ListMatchesMap, Queued
  <2>3. NumbersAreNew' /\ JobOfWorker' /\ NoCallerForgotten' /\ OnlyRetriesGoBack'
    BY <2>1 DEF SendsInv, NumbersAreNew, JobOfWorker, HasJob, NoCallerForgotten, OnlyRetriesGoBack
  <2>4. EntriesAreSound' /\ OrderIsKept'
    BY <2>1 DEF SendsInv, EntriesAreSound, OrderIsKept, Sound, NotOlder, Queued, HasJob
  <2> QED
    BY <2>2, <2>3, <2>4 DEF SendsInv
<1> QED
  BY <1>1, <1>2, <1>3, <1>4, <1>5, <1>6, <1>7, <1>8, <1>9 DEF LimiterNext, WorkerStep

\* The list and the map agree, no caller is forgotten, and an older update is
\* shown after a newer one only by a retry: with any number of keys, submissions
\* and failures (limiter.py:62-145, 203-240, 242-290).
THEOREM Sends == LimiterSpec => []QueueIsSound
<1>1. LimiterSpec => []SendsInv
  BY InitSendsInv, NextSendsInv, PTL DEF LimiterSpec
<1>2. SendsInv => QueueIsSound
  BY DEF SendsInv, QueueIsSound
<1> QED
  BY <1>1, <1>2, PTL
=============================================================================
