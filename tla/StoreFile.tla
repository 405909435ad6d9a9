------------------------------ MODULE StoreFile -------------------------------
(***************************************************************************)
(* persist() of internal/eventbus/substore.go, and persistLocked() of      *)
(* registry.go, system call by system call: the temporary file is opened   *)
(* and truncated, written, and renamed over the file.  The other modules   *)
(* take persist for one step; here is what that step is made of.           *)
(*                                                                         *)
(* A store object holds its own mutex while it persists.  Two objects of   *)
(* one name share the two file names and no lock: a dispatch that took its *)
(* snapshot before Unregister goes on with the old object while a new one  *)
(* serves the name.  The registry has one object in a process, so it is    *)
(* the case of a single Object.                                            *)
(*                                                                         *)
(* The contents of a file are the changes it holds, each named by a        *)
(* number.  An open file outlives its name: a descriptor on the temporary  *)
(* file is one on the file once somebody has renamed it.                   *)
(***************************************************************************)
EXTENDS Integers, FiniteSets

CONSTANTS Object,               \* the store objects of one name
          Absent, Empty, Torn,  \* a file that does not exist, one just truncated, a mixture
          MaxChanges, MaxCrashes        \* bounds of the model

ASSUME BoundsAssumption == MaxChanges \in Nat /\ MaxCrashes \in Nat
ASSUME ContentAssumption ==
    /\ Absent # Empty /\ Absent # Torn /\ Empty # Torn
    /\ \A s \in SUBSET (1..MaxChanges) : s \notin {Absent, Empty, Torn}

VARIABLES memory,               \* each object's state, Absent when there is no such object
          serving,              \* the registered objects: one, or none
          pc, fd,               \* of each object: its next system call, what its descriptor is of
          path, tmp,            \* the contents of the two names
          saved,                \* changes whose persist returned without an error
          changes, crashes,
          overlapped,           \* two objects have had the temporary file open at once
          together              \* two objects have existed at once

vars == <<memory, serving, pc, fd, path, tmp, saved, changes, crashes, overlapped, together>>

Changes == SUBSET (1..MaxChanges)
Contents == {Absent, Empty, Torn} \cup Changes

Init ==
    /\ memory = [o \in Object |-> Absent]
    /\ serving = {}
    /\ pc = [o \in Object |-> "idle"]
    /\ fd = [o \in Object |-> "none"]
    /\ path = Absent /\ tmp = Absent
    /\ saved = {}
    /\ changes = 0 /\ crashes = 0
    /\ overlapped = FALSE /\ together = FALSE

-----------------------------------------------------------------------------
Exists(o) == memory[o] # Absent

\* load(): the changes a file that decodes, or none, gives.
Decoded(file) == IF file \in {Absent, Empty, Torn} THEN {} ELSE file

\* The object between opening and renaming the temporary file.
Writing(o) == pc[o] \in {"write", "rename"}

\* newSubStore and load(): a file that does not decode is an error, and no object.
Open(o) ==
    /\ serving = {} /\ ~Exists(o)
    /\ path \notin {Empty, Torn}
    /\ memory' = [memory EXCEPT ![o] = Decoded(path)]
    /\ serving' = {o}
    /\ together' = (together \/ \E p \in Object : Exists(p))
    /\ UNCHANGED <<pc, fd, path, tmp, saved, changes, crashes, overlapped>>

Unregister ==
    /\ serving' = {}
    /\ UNCHANGED <<memory, pc, fd, path, tmp, saved, changes, crashes, overlapped, together>>

\* The last dispatch that held an unregistered object returns.
Release(o) ==
    /\ Exists(o) /\ o \notin serving /\ pc[o] = "idle"
    /\ memory' = [memory EXCEPT ![o] = Absent]
    /\ UNCHANGED <<serving, pc, fd, path, tmp, saved, changes, crashes, overlapped, together>>

\* A method that changes the state and then persists it, with the mutex held.
Change(o) ==
    /\ Exists(o) /\ pc[o] = "idle"
    /\ changes < MaxChanges
    /\ changes' = changes + 1
    /\ memory' = [memory EXCEPT ![o] = @ \cup {changes + 1}]
    /\ pc' = [pc EXCEPT ![o] = "open"]
    /\ UNCHANGED <<serving, fd, path, tmp, saved, crashes, overlapped, together>>

-----------------------------------------------------------------------------
(* The system calls of persist().                                           *)

\* Mutant: no temporary file, the file itself is truncated and written.
OpenInPlace(o) ==
    /\ pc[o] = "open"
    /\ path' = Empty
    /\ fd' = [fd EXCEPT ![o] = "path"]
    /\ pc' = [pc EXCEPT ![o] = "write"]
    /\ UNCHANGED <<memory, serving, tmp, saved, changes, crashes, overlapped, together>>

\* os.WriteFile opens with O_CREATE and O_TRUNC.
OpenTemp(o) ==
    /\ pc[o] = "open"
    /\ tmp' = Empty
    /\ fd' = [fd EXCEPT ![o] = "tmp"]
    /\ pc' = [pc EXCEPT ![o] = "write"]
    /\ overlapped' = (overlapped \/ \E p \in Object : Writing(p))
    /\ UNCHANGED <<memory, serving, path, saved, changes, crashes, together>>

\* What is in a file that held old after o wrote its state from the start of it:
\* a shorter state leaves the end of a longer one.
Overwritten(o, old) == IF old = Empty THEN {memory[o]} ELSE {memory[o], Torn}

\* What the file o's descriptor is of holds.
Held(o) == IF fd[o] = "tmp" THEN tmp ELSE path

\* It gets the content, unless nobody can see it any more.
Put(o, content) ==
    /\ tmp' = IF fd[o] = "tmp" THEN content ELSE tmp
    /\ path' = IF fd[o] = "path" THEN content ELSE path

Write(o) ==
    /\ pc[o] = "write"
    /\ \E content \in Overwritten(o, Held(o)) : Put(o, content)
    /\ pc' = [pc EXCEPT ![o] = "rename"]
    /\ UNCHANGED <<memory, serving, fd, saved, changes, crashes, overlapped, together>>

Return(o) ==
    /\ pc' = [pc EXCEPT ![o] = "idle"]
    /\ fd' = [fd EXCEPT ![o] = "none"]

\* Mutant: the error of the write is dropped, and the rename follows.
WriteErrorDropped(o) ==
    /\ pc[o] = "write"
    /\ \E content \in {Held(o), Torn} : Put(o, content)
    /\ pc' = [pc EXCEPT ![o] = "rename"]
    /\ UNCHANGED <<memory, serving, fd, saved, changes, crashes, overlapped, together>>

\* The disk is full, or something like it: whatever was written stays.
WriteFails(o) ==
    /\ pc[o] = "write"
    /\ \E content \in {Held(o), Torn} : Put(o, content)
    /\ Return(o)
    /\ UNCHANGED <<memory, serving, saved, changes, crashes, overlapped, together>>

\* Where a descriptor points once the temporary file has become the file.
Renamed(f) == CASE f = "tmp" -> "path" [] f = "path" -> "none" [] OTHER -> f

Rename(o) ==
    /\ pc[o] = "rename" /\ tmp # Absent
    /\ path' = tmp /\ tmp' = Absent
    /\ pc' = [pc EXCEPT ![o] = "idle"]
    /\ fd' = [p \in Object |-> IF p = o THEN "none" ELSE Renamed(fd[p])]
    /\ saved' = saved \cup memory[o]
    /\ UNCHANGED <<memory, serving, changes, crashes, overlapped, together>>

\* MkdirAll, the open or the rename fails, as it does when the temporary file has
\* been renamed already.  No caller looks at the error.
Fail(o) ==
    /\ pc[o] \in {"open", "rename"}
    /\ Return(o)
    /\ UNCHANGED <<memory, serving, path, tmp, saved, changes, crashes, overlapped, together>>

-----------------------------------------------------------------------------
\* The process ends; what it wrote so far stays, a temporary file too.
Crash ==
    /\ crashes < MaxCrashes
    /\ crashes' = crashes + 1
    /\ memory' = [o \in Object |-> Absent]
    /\ serving' = {}
    /\ pc' = [o \in Object |-> "idle"]
    /\ fd' = [o \in Object |-> "none"]
    /\ UNCHANGED <<path, tmp, saved, changes, overlapped, together>>

Persist(o) == OpenTemp(o) \/ Write(o) \/ WriteFails(o) \/ Rename(o) \/ Fail(o)

Next ==
    \/ \E o \in Object : Open(o) \/ Release(o) \/ Change(o) \/ Persist(o)
    \/ Unregister
    \/ Crash

Spec == Init /\ [][Next]_vars

-----------------------------------------------------------------------------
TypeOK ==
    /\ memory \in [Object -> {Absent} \cup Changes]
    /\ serving \subseteq Object
    /\ pc \in [Object -> {"idle", "open", "write", "rename"}]
    /\ \A o \in Object : pc[o] # "idle" => Exists(o)
    /\ fd \in [Object -> {"none", "tmp", "path"}]
    /\ path \in Contents /\ tmp \in Contents
    /\ saved \in Changes
    /\ changes \in 0..MaxChanges /\ crashes \in Nat
    /\ overlapped \in BOOLEAN /\ together \in BOOLEAN

\* The file always decodes, so a name can be registered and a process can boot,
\* whatever write failed and wherever the process ended.
FileLoads == path \notin {Empty, Torn}

\* That, as long as no two objects had the temporary file open at once.
FileLoadsUnlessOverlapped == ~overlapped => FileLoads

\* persist is atomic, as the other modules take it: the file changes in a rename
\* alone, and then to the state of the object that renames.
PersistIsAtomic ==
    [][path' # path /\ ~overlapped =>
        \E o \in Object : pc[o] = "rename" /\ pc'[o] = "idle" /\ path' = memory[o]]_vars

\* What a persist reported as written is in the file, over failed writes and
\* crashes, as long as no two objects of the name existed at once.
SavedSurvives == ~together => saved \subseteq Decoded(path)
=============================================================================
