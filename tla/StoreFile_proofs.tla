-------------------------- MODULE StoreFile_proofs ---------------------------
(***************************************************************************)
(* What the temporary file gives, for any number of store objects, changes *)
(* and crashes: a file that decodes, one write that is seen as one step,   *)
(* and nothing lost of what was reported as written.                       *)
(*                                                                         *)
(* The file is right because what is renamed is, so the invariant follows  *)
(* the temporary file from the open to the rename (Exclusive), and the     *)
(* state of an object from the file it was read from (Alone).              *)
(***************************************************************************)
EXTENDS StoreFile, TLAPS

\* One object at a time writes, and what it renames is its own state.
Exclusive ==
    /\ \A o, p \in Object : Writing(o) /\ Writing(p) => o = p
    /\ \A o \in Object : Writing(o) => fd[o] = "tmp"
    /\ \A o \in Object : ~Writing(o) => fd[o] = "none"
    /\ \A o \in Object : pc[o] = "write" => tmp = Empty
    /\ \A o \in Object : pc[o] = "rename" => tmp = memory[o]
    /\ FileLoads

\* One object at a time exists, and it knows all that the file holds.
Alone ==
    /\ \A o, p \in Object : Exists(o) /\ Exists(p) => o = p
    /\ \A o \in Object : Exists(o) => Decoded(path) \subseteq memory[o]
    /\ saved \subseteq Decoded(path)

Inv ==
    /\ TypeOK
    /\ ~overlapped => Exclusive
    /\ ~together => ~overlapped /\ Alone

-----------------------------------------------------------------------------
\* A set of changes is none of the three marks, and decodes to itself.
LEMMA ChangesAreNoMark ==
    ASSUME NEW s \in Changes
    PROVE  s \notin {Absent, Empty, Torn} /\ Decoded(s) = s
BY ContentAssumption DEF Changes, Decoded

\* A file that is typed decodes to a set of changes.
LEMMA DecodedType == \A f \in Contents : Decoded(f) \in Changes
BY DEF Contents, Decoded, Changes

\* There is no file and no object in the beginning.
LEMMA InitInv == Init => Inv
<1> SUFFICES ASSUME Init PROVE Inv
    OBVIOUS
<1>1. TypeOK
  <2>1. memory \in [Object -> {Absent} \cup Changes] /\ saved \in Changes
      BY DEF Init, Changes
  <2>2. changes \in 0..MaxChanges /\ crashes \in Nat
      BY BoundsAssumption DEF Init
  <2> QED
      BY <2>1, <2>2 DEF Init, TypeOK, Contents
<1>2. Exclusive
    BY ContentAssumption DEF Init, Exclusive, Writing, FileLoads
<1>3. Alone /\ ~overlapped
    BY ContentAssumption DEF Init, Alone, Exists, Decoded
<1> QED
    BY <1>1, <1>2, <1>3 DEF Inv

\* Every step keeps the types.
LEMMA NextTypeOK == TypeOK /\ [Next]_vars => TypeOK'
<1> SUFFICES ASSUME TypeOK, [Next]_vars PROVE TypeOK'
    OBVIOUS
<1> USE DEF TypeOK, Contents, Changes, Exists
<1>1. ASSUME NEW o \in Object, Open(o) PROVE TypeOK'
  <2>1. Decoded(path) \in Changes /\ Decoded(path) # Absent
      BY DecodedType, ChangesAreNoMark
  <2> QED
      BY <1>1, <2>1 DEF Open
<1>2. ASSUME NEW o \in Object, Release(o) PROVE TypeOK'
    BY <1>2 DEF Release
<1>3. ASSUME NEW o \in Object, Change(o) PROVE TypeOK'
  <2>1. memory[o] \cup {changes + 1} \in Changes
      BY <1>3, BoundsAssumption DEF Change
  <2>2. memory[o] \cup {changes + 1} # Absent
      BY <2>1, ChangesAreNoMark
  <2>3. memory'[o] # Absent /\ \A p \in Object : p # o => memory'[p] = memory[p]
      BY <1>3, <2>2 DEF Change
  <2>4. pc' \in [Object -> {"idle", "open", "write", "rename"}]
      BY <1>3 DEF Change
  <2>5. changes' \in 0..MaxChanges
      BY <1>3, BoundsAssumption DEF Change
  <2>6. memory' \in [Object -> {Absent} \cup Changes]
      BY <1>3, <2>1 DEF Change
  <2>7. \A p \in Object : p # o => pc'[p] = pc[p]
      BY <1>3 DEF Change
  <2> QED
      BY <1>3, <2>3, <2>4, <2>5, <2>6, <2>7 DEF Change
<1>4. ASSUME NEW o \in Object, OpenTemp(o) PROVE TypeOK'
    BY <1>4 DEF OpenTemp
<1>5. ASSUME NEW o \in Object, Write(o) PROVE TypeOK'
  <2>1. \A old : Overwritten(o, old) \subseteq Contents
      BY <1>5 DEF Write, Overwritten
  <2>2. path' \in Contents /\ tmp' \in Contents
      BY <1>5, <2>1 DEF Write, Put
  <2> QED
      BY <1>5, <2>2 DEF Write
<1>6. ASSUME NEW o \in Object, WriteFails(o) PROVE TypeOK'
  <2>1. Held(o) \in Contents /\ Torn \in Contents
      BY DEF Held, Contents
  <2>2. path' \in Contents /\ tmp' \in Contents
      BY <1>6, <2>1 DEF WriteFails, Put
  <2> QED
      BY <1>6, <2>2 DEF WriteFails, Return
<1>7. ASSUME NEW o \in Object, Rename(o) PROVE TypeOK'
  <2>1. fd' \in [Object -> {"none", "tmp", "path"}]
      BY <1>7 DEF Rename, Renamed
  <2>2. saved' \in Changes
      BY <1>7 DEF Rename
  <2> QED
      BY <1>7, <2>1, <2>2 DEF Rename
<1>8. ASSUME NEW o \in Object, Fail(o) PROVE TypeOK'
    BY <1>8 DEF Fail, Return
<1>9. ASSUME Unregister PROVE TypeOK'
    BY <1>9 DEF Unregister
<1>10. ASSUME Crash PROVE TypeOK'
    BY <1>10 DEF Crash
<1>11. ASSUME UNCHANGED vars PROVE TypeOK'
    BY <1>11 DEF vars
<1> QED
    BY <1>1, <1>2, <1>3, <1>4, <1>5, <1>6, <1>7, <1>8, <1>9, <1>10, <1>11 DEF Next, Persist

-----------------------------------------------------------------------------
\* While nobody writes into the middle of another's write, one write at a time
\* goes from the open to the rename.
LEMMA NextExclusive ==
    ASSUME Inv, [Next]_vars, ~overlapped' PROVE Exclusive' /\ ~overlapped
<1>1. ~overlapped
    BY DEF Next, Persist, vars, Open, Release, Change, OpenTemp, Write, WriteFails, Rename,
           Fail, Unregister, Crash
<1>2. Exclusive /\ TypeOK
    BY <1>1 DEF Inv
<1> USE <1>2 DEF Exclusive, Writing, FileLoads
<1>a. ASSUME NEW o \in Object, Open(o) PROVE Exclusive'
  <2>1. pc[o] = "idle"
      BY <1>a DEF Open, TypeOK, Exists
  <2> QED
      BY <1>a, <2>1 DEF Open, TypeOK
<1>b. ASSUME NEW o \in Object, Release(o) PROVE Exclusive'
    BY <1>b DEF Release, TypeOK
<1>c. ASSUME NEW o \in Object, Change(o) PROVE Exclusive'
    BY <1>c DEF Change, TypeOK
<1>d. ASSUME NEW o \in Object, OpenTemp(o) PROVE Exclusive'
  <2>1. \A p \in Object : ~Writing(p)
      BY <1>d DEF OpenTemp
  <2>2. pc' = [pc EXCEPT ![o] = "write"] /\ fd' = [fd EXCEPT ![o] = "tmp"] /\ tmp' = Empty
        /\ path' = path
      BY <1>d DEF OpenTemp
  <2>3. \A p \in Object : p # o => pc'[p] = pc[p] /\ fd'[p] = fd[p] /\ ~Writing(p)'
      BY <2>1, <2>2 DEF TypeOK
  <2>4. pc'[o] = "write" /\ fd'[o] = "tmp"
      BY <2>2 DEF TypeOK
  <2> QED
      BY <2>2, <2>3, <2>4
<1>e. ASSUME NEW o \in Object, Write(o) PROVE Exclusive'
  <2>1. fd[o] = "tmp" /\ tmp = Empty
      BY <1>e DEF Write
  <2>2. tmp' = memory[o] /\ path' = path
      BY <1>e, <2>1 DEF Write, Put, Held, Overwritten
  <2>3. pc' = [pc EXCEPT ![o] = "rename"] /\ fd' = fd /\ memory' = memory
      BY <1>e DEF Write
  <2>4. \A p \in Object : p # o => ~Writing(p)
      BY <1>e DEF Write
  <2>5. \A p \in Object : p # o => pc'[p] = pc[p]
      BY <2>3 DEF TypeOK
  <2>6. pc'[o] = "rename"
      BY <2>3 DEF TypeOK
  <2> QED
      BY <2>1, <2>2, <2>3, <2>4, <2>5, <2>6
<1>f. ASSUME NEW o \in Object, WriteFails(o) PROVE Exclusive'
  <2>1. fd[o] = "tmp" /\ \A p \in Object : p # o => ~Writing(p)
      BY <1>f DEF WriteFails
  <2>2. path' = path /\ pc' = [pc EXCEPT ![o] = "idle"] /\ fd' = [fd EXCEPT ![o] = "none"]
      BY <1>f, <2>1 DEF WriteFails, Put, Return
  <2> QED
      BY <2>1, <2>2 DEF TypeOK
<1>g. ASSUME NEW o \in Object, Rename(o) PROVE Exclusive'
  <2>1. \A p \in Object : p # o => ~Writing(p) /\ fd[p] = "none"
      BY <1>g DEF Rename
  <2>2. \A p \in Object : ~Writing(p)' /\ fd'[p] = "none"
      BY <1>g, <2>1 DEF Rename, Renamed, TypeOK
  <2>3. path' = memory[o] /\ memory[o] \in Changes
      BY <1>g DEF Rename, TypeOK
  <2>4. path' \notin {Empty, Torn}
      BY <2>3, ChangesAreNoMark
  <2> QED
      BY <2>2, <2>4
<1>h. ASSUME NEW o \in Object, Fail(o) PROVE Exclusive'
    BY <1>h DEF Fail, Return, TypeOK
<1>i. ASSUME Unregister PROVE Exclusive'
    BY <1>i DEF Unregister
<1>j. ASSUME Crash PROVE Exclusive'
    BY <1>j DEF Crash
<1>k. ASSUME UNCHANGED vars PROVE Exclusive'
    BY <1>k DEF vars
<1> QED
    BY <1>1, <1>a, <1>b, <1>c, <1>d, <1>e, <1>f, <1>g, <1>h, <1>i, <1>j, <1>k DEF Next, Persist

\* A name that has one object at a time has it read what the last one wrote.
LEMMA NextAlone ==
    ASSUME Inv, [Next]_vars, ~together' PROVE Alone' /\ ~overlapped'
<1>1. ~together
    BY DEF Next, Persist, vars, Open, Release, Change, OpenTemp, Write, WriteFails, Rename,
           Fail, Unregister, Crash
<1>2. Alone /\ Exclusive /\ ~overlapped /\ TypeOK
    BY <1>1 DEF Inv
<1>3. ~overlapped'
  <2>1. ASSUME NEW o \in Object, OpenTemp(o) PROVE \A p \in Object : ~Writing(p)
    <3>1. \A p \in Object : Writing(p) => Exists(p) /\ p # o
        BY <2>1, <1>2 DEF OpenTemp, Writing, TypeOK
    <3>2. Exists(o)
        BY <2>1, <1>2 DEF OpenTemp, TypeOK
    <3> QED
        BY <3>1, <3>2, <1>2 DEF Alone
  <2>2. ASSUME NEW o \in Object, OpenTemp(o) PROVE ~overlapped'
      BY <2>1, <2>2, <1>2 DEF OpenTemp
  <2> QED
      BY <1>2, <2>2 DEF Next, Persist, vars, Open, Release, Change, Write, WriteFails, Rename,
           Fail, Unregister, Crash
<1> USE <1>2 DEF Alone, Exists
<1>a. ASSUME NEW o \in Object, Open(o) PROVE Alone'
  <2>1. \A p \in Object : memory[p] = Absent
      BY <1>a, <1>1 DEF Open
  <2>2. memory' = [memory EXCEPT ![o] = Decoded(path)] /\ path' = path /\ saved' = saved
      BY <1>a DEF Open
  <2>3. memory'[o] = Decoded(path) /\ \A p \in Object : p # o => memory'[p] = Absent
      BY <2>1, <2>2 DEF TypeOK
  <2> QED
      BY <2>2, <2>3
<1>b. ASSUME NEW o \in Object, Release(o) PROVE Alone'
    BY <1>b DEF Release, TypeOK
<1>c. ASSUME NEW o \in Object, Change(o) PROVE Alone'
  <2>1. memory' = [memory EXCEPT ![o] = @ \cup {changes + 1}] /\ path' = path /\ saved' = saved
        /\ memory[o] # Absent
      BY <1>c DEF Change
  <2> QED
      BY <2>1 DEF TypeOK
<1>d. ASSUME NEW o \in Object, OpenTemp(o) PROVE Alone'
    BY <1>d DEF OpenTemp
<1>e. ASSUME NEW o \in Object, Write(o) \/ WriteFails(o) PROVE Alone'
  <2>1. fd[o] = "tmp"
      BY <1>e DEF Write, WriteFails, Exclusive, Writing
  <2> QED
      BY <1>e, <2>1 DEF Write, WriteFails, Put
<1>g. ASSUME NEW o \in Object, Rename(o) PROVE Alone'
  <2>1. memory[o] \in Changes /\ memory[o] # Absent
      BY <1>g DEF Rename, TypeOK
  <2>2. path' = memory[o] /\ memory' = memory /\ saved' = saved \cup memory[o]
      BY <1>g DEF Rename, Exclusive
  <2>3. Decoded(path') = memory[o]
      BY <2>1, <2>2, ChangesAreNoMark
  <2>4. Decoded(path)' = Decoded(path')
      BY DEF Decoded
  <2>5. Decoded(path) \subseteq memory[o]
      BY <2>1
  <2> QED
      BY <2>1, <2>2, <2>3, <2>4, <2>5
<1>h. ASSUME NEW o \in Object, Fail(o) PROVE Alone'
    BY <1>h DEF Fail
<1>i. ASSUME Unregister PROVE Alone'
    BY <1>i DEF Unregister
<1>j. ASSUME Crash PROVE Alone'
    BY <1>j DEF Crash
<1>k. ASSUME UNCHANGED vars PROVE Alone'
    BY <1>k DEF vars
<1> QED
    BY <1>3, <1>a, <1>b, <1>c, <1>d, <1>e, <1>g, <1>h, <1>i, <1>j, <1>k DEF Next, Persist

LEMMA NextInv == Inv /\ [Next]_vars => Inv'
<1> SUFFICES ASSUME Inv, [Next]_vars PROVE Inv'
    OBVIOUS
<1>1. TypeOK'
    BY NextTypeOK DEF Inv
<1> QED
    BY <1>1, NextExclusive, NextAlone DEF Inv

-----------------------------------------------------------------------------
LEMMA Invariance == Spec => []Inv
<1> QED
    BY InitInv, NextInv, PTL DEF Spec

\* Every variable has its type, and an object persists only while it exists.
THEOREM TypeCorrect == Spec => []TypeOK
<1>1. Inv => TypeOK
    BY DEF Inv
<1> QED
    BY <1>1, Invariance, PTL

\* A store's file decodes whatever write failed and wherever the process ended, as
\* long as no two objects had the temporary file open at once: Register and the boot
\* find no torn file.
THEOREM FileDecodes == Spec => []FileLoadsUnlessOverlapped
<1>1. Inv => FileLoadsUnlessOverlapped
    BY DEF Inv, Exclusive, FileLoadsUnlessOverlapped
<1> QED
    BY <1>1, Invariance, PTL

\* Nothing that a persist reported as written is lost, as long as no two objects of
\* the name existed at once.
THEOREM ReportedIsDurable == Spec => []SavedSurvives
<1>1. Inv => SavedSurvives
    BY DEF Inv, Alone, SavedSurvives
<1> QED
    BY <1>1, Invariance, PTL

\* The file changes in one step, the rename, to the whole state of the object that
\* renames: persist is the single step the other modules take it for.
THEOREM PersistAtomic == Spec => PersistIsAtomic
<1>1. ASSUME Inv, [Next]_vars, path' # path, ~overlapped
      PROVE  \E o \in Object : pc[o] = "rename" /\ pc'[o] = "idle" /\ path' = memory[o]
  <2>1. Exclusive /\ TypeOK
      BY <1>1 DEF Inv
  <2>2. PICK o \in Object : Write(o) \/ WriteFails(o) \/ Rename(o)
      BY <1>1 DEF Next, Persist, vars, Open, Release, Change, OpenTemp, Fail, Unregister, Crash
  <2>3. ~(Write(o) \/ WriteFails(o))
    <3>1. ASSUME Write(o) \/ WriteFails(o) PROVE path' = path
      <4>1. fd[o] = "tmp"
          BY <3>1, <2>1 DEF Write, WriteFails, Exclusive, Writing
      <4> QED
          BY <3>1, <4>1 DEF Write, WriteFails, Put
    <3> QED
        BY <3>1, <1>1
  <2> QED
      BY <2>1, <2>2, <2>3 DEF Rename, Exclusive, TypeOK
<1>2. Inv /\ [Next]_vars => [path' # path /\ ~overlapped =>
        \E o \in Object : pc[o] = "rename" /\ pc'[o] = "idle" /\ path' = memory[o]]_vars
    BY <1>1
<1> QED
    BY <1>2, Invariance, PTL DEF Spec, PersistIsAtomic
=============================================================================
