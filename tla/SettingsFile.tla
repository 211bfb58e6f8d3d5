---------------------------- MODULE SettingsFile ----------------------------
(***************************************************************************)
(* SettingsStore (daemon/src/settings_store.cpp) and the two directory     *)
(* entries it works on, settings.conf and its ".tmp", as threads of one    *)
(* daemon save at the same time, and the daemon may be killed or the       *)
(* machine lose its power at any point.                                    *)
(*                                                                         *)
(* A step of Save is one system call.  An entry names an inode; a thread   *)
(* that opened an inode keeps writing to it whatever the entries name.  A  *)
(* text is the settings it holds: Load takes the first line of each key,   *)
(* so the tail of a longer text left behind a shorter one does not count.  *)
(***************************************************************************)
EXTENDS Integers, FiniteSets

CONSTANTS
  Processes,  \* the threads that save
  None        \* no such file, no such descriptor

VARIABLES
  contents,      \* per inode: the text written, or None for no text
  settingsEntry, tempEntry,  \* the inodes the two names lead to
  saving,        \* per thread: the system call Save makes next
  text,          \* per thread: the text it saves
  descriptor,    \* per thread: the inode it has opened
  raced,         \* history: two threads were between open and rename at once
  refused,       \* history: a system call has failed
  lost           \* history: a power loss has taken a text that was written

fileVars == <<contents, settingsEntry, tempEntry>>
vars == <<fileVars, saving, text, descriptor, raced, refused, lost>>

Inodes == 1 .. Cardinality(Processes) + 2

Init ==
  /\ contents = [i \in Inodes |-> None]
  /\ settingsEntry = None /\ tempEntry = None
  /\ saving = [p \in Processes |-> "no"]
  /\ text = [p \in Processes |-> None]
  /\ descriptor = [p \in Processes |-> None]
  /\ raced = FALSE /\ refused = FALSE /\ lost = FALSE

Free(i) == i \notin {settingsEntry, tempEntry} \cup {descriptor[p] : p \in Processes}

BeginSave(p, t) ==
  /\ saving[p] = "no"
  /\ saving' = [saving EXCEPT ![p] = "open"]
  /\ text' = [text EXCEPT ![p] = t]
  /\ UNCHANGED <<fileVars, descriptor, raced, refused, lost>>

\* Opened with std::ios::trunc: an inode that is there is emptied, whoever
\* else writes to it.
Truncate(p, entry, i) ==
  /\ saving[p] = "open"
  /\ saving' = [saving EXCEPT ![p] = "write"]
  /\ i = IF entry # None THEN entry ELSE CHOOSE j \in Inodes : Free(j)
  /\ contents' = [contents EXCEPT ![i] = None]
  /\ descriptor' = [descriptor EXCEPT ![p] = i]
  /\ raced' = (raced \/ \E q \in Processes \ {p} : saving[q] \in {"write", "rename"})
  /\ UNCHANGED <<text, refused, lost>>

\* Mutant: written in place, without the temporary file.
OpenInPlace(p) ==
  \E i \in Inodes : Truncate(p, settingsEntry, i) /\ settingsEntry' = i /\ UNCHANGED tempEntry

OpenTemp(p) ==
  \E i \in Inodes : Truncate(p, tempEntry, i) /\ tempEntry' = i /\ UNCHANGED settingsEntry

\* Not opened: Save logs it and returns.  (A bound of the model: one system call
\* fails in a behaviour.)
OpenFails(p) ==
  /\ saving[p] = "open" /\ ~refused
  /\ saving' = [saving EXCEPT ![p] = "no"]
  /\ text' = [text EXCEPT ![p] = None]
  /\ refused' = TRUE
  /\ UNCHANGED <<fileVars, descriptor, raced, lost>>

WriteText(p) ==
  /\ saving[p] = "write"
  /\ saving' = [saving EXCEPT ![p] = "rename"]
  /\ descriptor' = [descriptor EXCEPT ![p] = None]
  /\ contents' = [contents EXCEPT ![descriptor[p]] = text[p]]
  /\ UNCHANGED <<settingsEntry, tempEntry, text, raced, refused, lost>>

\* A full disk: Save does not look at the stream after the write and the close.
WriteFails(p) ==
  /\ saving[p] = "write" /\ ~refused
  /\ saving' = [saving EXCEPT ![p] = "rename"]
  /\ descriptor' = [descriptor EXCEPT ![p] = None]
  /\ refused' = TRUE
  /\ UNCHANGED <<fileVars, text, raced, lost>>

\* rename() of a name another thread has already renamed fails.
RenameTemp(p) ==
  /\ saving[p] = "rename"
  /\ saving' = [saving EXCEPT ![p] = "no"]
  /\ text' = [text EXCEPT ![p] = None]
  /\ IF tempEntry # None
     THEN settingsEntry' = tempEntry /\ tempEntry' = None
     ELSE UNCHANGED <<settingsEntry, tempEntry>>
  /\ UNCHANGED <<contents, descriptor, raced, refused, lost>>

\* Refused for any other reason: Save logs it, and the temporary stays.
RenameFails(p) ==
  /\ saving[p] = "rename" /\ ~refused
  /\ saving' = [saving EXCEPT ![p] = "no"]
  /\ text' = [text EXCEPT ![p] = None]
  /\ refused' = TRUE
  /\ UNCHANGED <<fileVars, descriptor, raced, lost>>

Ended ==
  /\ saving' = [p \in Processes |-> "no"]
  /\ text' = [p \in Processes |-> None]
  /\ descriptor' = [p \in Processes |-> None]
  /\ UNCHANGED <<settingsEntry, tempEntry, raced, refused>>

\* The daemon is gone; what it wrote so far is in the file system.
Kill == Ended /\ UNCHANGED <<contents, lost>>

\* The machine is gone.  Save syncs neither the file nor the directory: a name that
\* is on the disk may lead to an inode whose text is not.  (That a name leads to an
\* older text instead is not told apart: either way a text is lost.)
PowerLoss ==
  /\ Ended /\ lost' = TRUE
  /\ \E unwritten \in SUBSET {settingsEntry, tempEntry} :
       contents' = [i \in Inodes |-> IF i \in unwritten THEN None ELSE contents[i]]
  /\ contents' # contents

-----------------------------------------------------------------------------
Exists == settingsEntry # None

\* What Load reads: the settings, or None where it finds not one line of them.
Stored == contents[settingsEntry]

\* What a text may be is the business of the module that saves it.
TypeOK(Texts) ==
  /\ contents \in [Inodes -> Texts \cup {None}]
  /\ {settingsEntry, tempEntry} \subseteq Inodes \cup {None}
  /\ saving \in [Processes -> {"no", "open", "write", "rename"}]
  /\ text \in [Processes -> Texts \cup {None}]
  /\ descriptor \in [Processes -> Inodes \cup {None}]
  /\ {raced, refused, lost} \subseteq BOOLEAN
=============================================================================
