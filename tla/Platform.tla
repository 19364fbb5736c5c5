------------------------------- MODULE Platform -------------------------------
(***************************************************************************)
(* The chat platform of the bot (messaging/platforms/telegram.py and       *)
(* discord.py): its start with retries, calls of the vendor's API that are *)
(* repeated after an error, and voice notes, which are announced,          *)
(* transcribed on a thread and only then handled, and which the user may   *)
(* cancel meanwhile by a reply of /clear to either of the two messages     *)
(* (messaging/voice.py, commands.py).  Messages and their text are left    *)
(* out; a note stands for the messages that carry and announce it.         *)
(*                                                                         *)
(* The lock of PendingVoiceRegistry is never held over an await, so that   *)
(* what happens under it is part of a step.  Updates are handled           *)
(* concurrently, as discord.py does.                                       *)
(***************************************************************************)
EXTENDS Naturals, FiniteSets

CONSTANTS Note,        \* voice notes that users send
          max_retries  \* calls of the vendor's API before an error counts

ASSUME PlatformAssumption == max_retries \in Nat \ {0}

VARIABLES
    link,      \* start: "off", "starting", "connected" or "failed"
    failures,  \* start: attempts that failed
    note,      \* where the handler of each note is
    attempt,   \* _with_retry: failed calls of its announcement
    unguarded, \* _with_retry: the call after it, whose errors are raised
    pending,   \* PendingVoiceRegistry._pending: keys of notes that may be cancelled
    files,     \* temporary files
    told,      \* history: notes whose user was told that they are cancelled
    handled    \* history: notes that reached the message handler

linkVars == <<link, failures>>
platformVars == <<linkVars, note, attempt, unguarded, pending, files, told, handled>>

\* A note is found by its own message and by the one that announces it.
Key == Note \X {"voice", "status"}

KeysOf(n) == {n} \X {"voice", "status"}

PlatformTypeOK ==
    /\ link \in {"off", "starting", "connected", "failed"}
    /\ failures \in 0..max_retries
    /\ note \in [Note -> {"unseen", "announcing", "announced", "transcribing",
                          "handling", "ended"}]
    /\ attempt \in [Note -> 0..max_retries]
    /\ unguarded \in [Note -> BOOLEAN]
    /\ pending \subseteq Key
    /\ files \subseteq Note /\ told \subseteq Note /\ handled \subseteq Note

PlatformInit ==
    /\ link = "off" /\ failures = 0
    /\ note = [n \in Note |-> "unseen"]
    /\ attempt = [n \in Note |-> 0]
    /\ unguarded = [n \in Note |-> FALSE]
    /\ pending = {} /\ files = {} /\ told = {} /\ handled = {}

-----------------------------------------------------------------------------
Start ==
    /\ link = "off"
    /\ link' = "starting"
    /\ UNCHANGED <<failures, note, attempt, unguarded, pending, files, told, handled>>

\* One attempt of start: the platform is connected, or the next one follows
\* after a pause, or start raises and the server goes on without it.
Connect ==
    /\ link = "starting"
    /\ \/ link' = "connected" /\ UNCHANGED failures
       \/ /\ failures' = failures + 1
          /\ link' = IF failures' < max_retries THEN link ELSE "failed"
    /\ UNCHANGED <<note, attempt, unguarded, pending, files, told, handled>>

At(n, place) == note' = [note EXCEPT ![n] = place]

\* A voice note arrives; its announcement is queued and awaited.
Announce(n) ==
    /\ link = "connected" /\ note[n] = "unseen"
    /\ At(n, "announcing")
    /\ UNCHANGED <<linkVars, attempt, unguarded, pending, files, told, handled>>

\* The announcement is in the chat, where the user can reply to it.
Sent(n) ==
    /\ note[n] = "announcing"
    /\ At(n, "announced")
    /\ UNCHANGED <<linkVars, attempt, unguarded, pending, files, told, handled>>

\* The error is raised, past everything that would have followed.
Raised(n) == At(n, "ended") /\ UNCHANGED <<attempt, unguarded>>

\* A time-out or an error of the network, after which the call is repeated.
NetworkError(n) ==
    /\ note[n] = "announcing"
    /\ IF unguarded[n] \/ attempt[n] + 1 = max_retries
       THEN Raised(n)
       ELSE attempt' = [attempt EXCEPT ![n] = @ + 1] /\ UNCHANGED <<note, unguarded>>
    /\ UNCHANGED <<linkVars, pending, files, told, handled>>

\* RetryAfter, or text that cannot be parsed: one more call, outside the try.
LastChance(n) ==
    /\ note[n] = "announcing" /\ ~unguarded[n]
    /\ unguarded' = [unguarded EXCEPT ![n] = TRUE]
    /\ UNCHANGED <<linkVars, note, attempt, pending, files, told, handled>>

\* Any other error, or any error of the last chance.
Refused(n) ==
    /\ note[n] = "announcing"
    /\ Raised(n)
    /\ UNCHANGED <<linkVars, pending, files, told, handled>>

\* The note is registered and a thread begins to transcribe it.
Register(n) ==
    /\ note[n] = "announced"
    /\ At(n, "transcribing")
    /\ pending' = pending \cup KeysOf(n)
    /\ files' = files \cup {n}
    /\ UNCHANGED <<linkVars, attempt, unguarded, told, handled>>

\* The text is there.  A note that was cancelled loses its announcement;
\* another one is completed and handled.
Transcribed(n) ==
    /\ note[n] = "transcribing"
    /\ IF <<n, "voice">> \in pending
       THEN /\ At(n, "handling")
            /\ pending' = pending \ KeysOf(n)
            /\ handled' = handled \cup {n}
            /\ UNCHANGED files
       ELSE /\ At(n, "ended")
            /\ files' = files \ {n}
            /\ UNCHANGED <<pending, handled>>
    /\ UNCHANGED <<linkVars, attempt, unguarded, told>>

TranscriptionFails_LeavesFile(n) ==
    /\ note[n] = "transcribing"
    /\ At(n, "ended")
    /\ UNCHANGED <<linkVars, attempt, unguarded, pending, files, told, handled>>

\* The download or the transcription fails, and the user is told.
TranscriptionFails(n) ==
    /\ note[n] = "transcribing"
    /\ At(n, "ended")
    /\ files' = files \ {n}
    /\ UNCHANGED <<linkVars, attempt, unguarded, pending, told, handled>>

\* handle_message has returned or raised.
HandlerReturns(n) ==
    /\ note[n] = "handling"
    /\ At(n, "ended")
    /\ files' = files \ {n}
    /\ UNCHANGED <<linkVars, attempt, unguarded, pending, told, handled>>

Cancel_OneKey(key) == pending' = pending \ {key}

\* PendingVoiceRegistry.cancel of a note found by one of its keys.
Cancel(key) == pending' = pending \ KeysOf(key[1])

\* A reply of /clear to either message, before the note is in a conversation
\* (then it is a branch of MessageTree); if it is not pending nothing happens.
ClearReply(key) ==
    /\ key \in pending
    /\ Cancel(key)
    /\ told' = told \cup {key[1]}
    /\ UNCHANGED <<linkVars, note, attempt, unguarded, files, handled>>

NoteStep(n) ==
    \/ Sent(n) \/ NetworkError(n) \/ LastChance(n) \/ Refused(n)
    \/ Register(n) \/ Transcribed(n) \/ TranscriptionFails(n) \/ HandlerReturns(n)

PlatformNext ==
    \/ Start \/ Connect
    \/ \E n \in Note : Announce(n) \/ NoteStep(n)
    \/ \E key \in Key : ClearReply(key)

PlatformSpec == PlatformInit /\ [][PlatformNext]_platformVars

\* Calls and threads return, one way or another.
PlatformFairness ==
    /\ WF_platformVars(Connect)
    /\ \A n \in Note : WF_platformVars(NoteStep(n))

-----------------------------------------------------------------------------
\* What the user was told is cancelled is not handled, whichever message the
\* /clear replied to and however late it came (telegram.py:646-651).
CancelledIsNotHandled == told \cap handled = {}

\* Start comes to an end, and so does every note, with its temporary file gone
\* (telegram.py:151-171, 221-278 and 698-700).
NotesEnd ==
    /\ (link = "starting") ~> (link \in {"connected", "failed"})
    /\ \A n \in Note : (note[n] = "announcing") ~> (note[n] = "ended" /\ n \notin files)
=============================================================================
