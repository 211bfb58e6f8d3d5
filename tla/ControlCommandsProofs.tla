------------------------ MODULE ControlCommandsProofs ------------------------
(***************************************************************************)
(* Proofs about ControlCommands, for every number of clients, layouts,     *)
(* curves, files and catalog entries, and for any number of commands,      *)
(* kills and changes of the directory: a setting a client was promised     *)
(* survives restarts and crashes, the settings file is whole unless two    *)
(* threads saved at once, a system call failed or a power loss took what   *)
(* was not synced, the active index names the entry in force, and no       *)
(* change of the directory is overlooked while it is watched.              *)
(***************************************************************************)
EXTENDS ControlCommands, FiniteSetTheorems, WellFoundedInduction, TLAPS

-----------------------------------------------------------------------------
(* The inductive invariant *)

Savers == Clients \cup {Main}

Steps == {"idle", "bands", "publish", "switch", "index", "status", "snapshotEq",
          "snapshotName", "save"}

Values == Layouts \cup Curves \cup Entries \cup Nat \cup {None}

Command == [step: Steps, op: Ops \cup {None}, value: Values, held: Values, index: Nat,
            snapshot: Settings]

\* A command holds what its step needs, and saves exactly in its last step.
CommandOK(c) ==
  /\ cmd[c].step = "idle" => cmd[c].op = None
  /\ cmd[c].step # "idle" => cmd[c].op \in Ops
  /\ cmd[c].step \in {"bands", "publish"} => cmd[c].op = "eq"
  /\ cmd[c].step \in {"switch", "index"} => cmd[c].op = "hrtf"
  /\ cmd[c].step = "publish" => cmd[c].held \in Curves
  /\ cmd[c].op = "hrtf" => cmd[c].held \in Entries /\ cmd[c].value \in 1 .. MaxCatalogEntries
  /\ cmd[c].step = "save" <=> saving[c] # "no"

CommandsOK ==
  /\ cmd \in [Clients -> Command]
  /\ promised \in [Ops -> Values]
  /\ \A c \in Clients : CommandOK(c)

\* Commands run only while the daemon is up, and Run saves only before; the loop
\* rescans then, and while the initial sync is waited for.
PhasesOK ==
  /\ phase # "up" => \A c \in Clients : cmd[c].step = "idle"
  /\ phase \notin {"device", "up"} => scan = None
  /\ phase # "saved" => saving[Main] = "no"
  /\ watched => phase \in {"device", "saved", "up"}
  /\ event => watched
  /\ phase # "down" => 1 \in DOMAIN catalog
  /\ scan # None => 1 \in DOMAIN scan

\* The two names never lead to the same inode, and a thread has a text as long as
\* it saves, a descriptor as long as it writes.
FileOK ==
  /\ settingsEntry # None => settingsEntry # tempEntry
  /\ \A p \in Savers :
       /\ saving[p] = "write" <=> descriptor[p] # None
       /\ saving[p] = "no" <=> text[p] = None

Busy(p) == saving[p] \in {"write", "rename"}

\* Every save in progress has the temporary file to itself.
Orderly ==
  /\ \A p, q \in Savers : Busy(p) /\ Busy(q) => p = q
  /\ \A p \in Savers :
       /\ saving[p] = "write" => descriptor[p] = tempEntry
       /\ saving[p] = "rename" => tempEntry # None /\ contents[tempEntry] = text[p]

Whole == ~raced /\ ~refused /\ ~lost => Orderly /\ (File!Exists => File!Stored # None)

\* The entry in force, its index, and the one client that is changing both.
IndexOK ==
  phase \in {"device", "saved", "up"} /\ ~adrift =>
    /\ \/ activeIndex \in DOMAIN catalog /\ catalog[activeIndex] = loaded
       \/ \E c \in Clients : Choosing(c) /\ cmd[c].step = "index"
    /\ \A c, d \in Clients : Choosing(c) /\ Choosing(d) => c = d
    /\ \A c \in Clients : Choosing(c) =>
         /\ cmd[c].value \in DOMAIN catalog /\ catalog[cmd[c].value] = cmd[c].held
         /\ cmd[c].step = "index" => loaded = cmd[c].held

\* What lists the directory: the catalog, or the rescan that is to replace it.
ScanOK ==
  phase # "down" /\ ~event /\ ~missed =>
    Listing(dir) = IF scan = None THEN catalog ELSE scan

-----------------------------------------------------------------------------
(* The part that is about promises *)

Wanted(c) == IF cmd[c].op = "hrtf" THEN cmd[c].held ELSE cmd[c].value

\* v is the setting op the daemon works with.
InForce(op, v) ==
  /\ op = "layout" => layout = v
  /\ op = "eq" => eq = v /\ eqStage = v
  /\ op = "hrtf" =>
       /\ loaded = v /\ activeIndex \in DOMAIN catalog /\ catalog[activeIndex] = v
       /\ ~event /\ scan = None /\ catalog = Listing(dir)

\* v is what the command of c has copied of it so far, to save it.
Carried(c, op, v) ==
  /\ cmd[c].step \in {"snapshotEq", "snapshotName"} =>
       /\ op = "layout" => cmd[c].snapshot.layout = v
       /\ op = "eq" /\ cmd[c].step = "snapshotName" => cmd[c].snapshot.eq = v
       /\ op = "hrtf" => cmd[c].index \in DOMAIN catalog /\ catalog[cmd[c].index] = v
  /\ cmd[c].step = "save" => text[c][op] = v

\* v is what the next start will load.
Written(op, v) == File!Exists /\ File!Stored # None /\ File!Stored[op] = v

\* While Run starts, a promised setting is on its way into force.
Starting(op, v) ==
  /\ phase = "watch" => IF op = "hrtf" THEN ~event /\ scan = None /\ catalog = Listing(dir)
                                       ELSE InForce(op, v)
  /\ phase \in {"device", "saved"} => InForce(op, v)
  /\ phase \in {"watch", "device", "saved"} => from # None /\ from[op] = v
  /\ saving[Main] # "no" => text[Main][op] = v

\* A promised setting: in force, in every copy, and in the file.
Kept(op) ==
  LET v == promised[op] IN
  /\ \A c \in Clients : cmd[c].op # op /\ Carried(c, op, v)
  /\ phase = "up" => InForce(op, v)
  /\ Starting(op, v)
  /\ Written(op, v)
  /\ op = "hrtf" => v \in ToSet(Listing(dir))

\* A command that has met no other: what it sets is in force and copied.
OnItsWay(c) ==
  LET op == cmd[c].op IN
  /\ cmd[c].step \in {"bands", "publish"} => eq = cmd[c].value
  /\ cmd[c].step = "publish" => cmd[c].held = cmd[c].value
  /\ op = "hrtf" =>
       /\ cmd[c].value \in DOMAIN catalog /\ catalog[cmd[c].value] = cmd[c].held
       /\ ~event /\ scan = None /\ catalog = Listing(dir)
       /\ cmd[c].step = "index" => loaded = cmd[c].held
  /\ cmd[c].step \in {"status", "snapshotEq", "snapshotName", "save"} =>
       InForce(op, Wanted(c)) /\ Carried(c, op, Wanted(c))

Quiet == alone \/ \E op \in Ops : promised[op] # None

\* As long as something is promised or may be, at most one command is under way.
QuietOK ==
  Quiet => Orderly /\ \A c, d \in Clients : ~At(c, "idle") /\ ~At(d, "idle") => c = d

AloneOK == alone => phase = "up" /\ \A c \in Clients : ~At(c, "idle") => OnItsWay(c)

KeptOK == \A op \in Ops : promised[op] # None => Kept(op)

IInv ==
  /\ TypeOK /\ CommandsOK /\ PhasesOK /\ FileOK /\ Whole /\ IndexOK /\ ScanOK
  /\ QuietOK /\ AloneOK /\ KeptOK

-----------------------------------------------------------------------------
(* Data *)

\* Every set of naturals that is not empty has a least element.
LEMMA LeastNatural ==
  ASSUME NEW T, T \subseteq Nat, T # {}
  PROVE  \E n \in T : \A m \in T : n <= m
<1> DEFINE less == {pair \in Nat \X Nat : pair[1] < pair[2]}
<1>1. IsWellFoundedOn(less, Nat)
  BY NatLessThanWellFounded DEF OpToRel
<1>2. PICK n \in T : \A m \in T : ~ (<<m, n>> \in less)
  <2> HIDE DEF less
  <2> QED
    BY <1>1, WFMin
<1>3. ASSUME NEW m \in T PROVE n <= m
  <2>1. <<m, n>> \in Nat \X Nat /\ <<m, n>>[1] = m /\ <<m, n>>[2] = n
    BY <1>2
  <2>2. ~ (m < n)
    BY <1>2, <2>1
  <2>3. QED
    BY <1>2, <2>2
<1>4. QED
  BY <1>2, <1>3

\* A finite set of integers has its elements in ascending order: were there sets
\* that have not, one of the least size would lose its greatest element to a set
\* that has.
LEMMA SortExists ==
  ASSUME NEW d, d \subseteq Int, IsFiniteSet(d)
  PROVE  \E s \in [1 .. Cardinality(d) -> d] :
           \A i, j \in 1 .. Cardinality(d) : i < j => s[i] < s[j]
<1> DEFINE HasMax(e) == \E m \in e : \A x \in e : x <= m
           NoMax(n) == \E e \in SUBSET Int :
                          /\ IsFiniteSet(e) /\ Cardinality(e) = n /\ e # {} /\ ~HasMax(e)
<1>1. \A n \in Nat : ~NoMax(n)
  <2>1. SUFFICES ASSUME {n \in Nat : NoMax(n)} # {}
                 PROVE  FALSE
    OBVIOUS
  <2>2. PICK n \in Nat : NoMax(n) /\ \A m \in Nat : NoMax(m) => n <= m
    <3> HIDE DEF NoMax
    <3>1. PICK n \in {m \in Nat : NoMax(m)} : \A m \in {k \in Nat : NoMax(k)} : n <= m
      BY <2>1, LeastNatural
    <3>2. QED
      BY <3>1
  <2>3. PICK e \in SUBSET Int : IsFiniteSet(e) /\ Cardinality(e) = n /\ e # {} /\ ~HasMax(e)
    BY <2>2
  <2>4. PICK x \in e : TRUE
    BY <2>3
  <2>5. IsFiniteSet(e \ {x}) /\ Cardinality(e \ {x}) = n - 1 /\ n - 1 \in Nat
    <3>1. Cardinality(e) \in Nat /\ Cardinality(e) # 0
      BY <2>3, FS_CardinalityType, FS_EmptySet
    <3>2. IsFiniteSet(e \ {x}) /\ Cardinality(e \ {x}) = Cardinality(e) - 1
      BY <2>3, <2>4, FS_RemoveElement
    <3>3. QED
      BY <2>3, <3>1, <3>2
  <2>6. ~NoMax(n - 1)
    BY <2>2, <2>5
  <2>7. e \ {x} = {} \/ HasMax(e \ {x})
    BY <2>5, <2>6
  <2>8. CASE e \ {x} = {}
    BY <2>8, <2>3, <2>4
  <2>9. CASE HasMax(e \ {x})
    BY <2>9, <2>3, <2>4
  <2>10. QED
    BY <2>7, <2>8, <2>9
<1> DEFINE Ascending(s, n) == \A i, j \in 1 .. n : i < j => s[i] < s[j]
           Sorts(e, n) == \E s \in [1 .. n -> e] : Ascending(s, n)
           NoSort(n) == \E e \in SUBSET Int :
                          /\ IsFiniteSet(e) /\ Cardinality(e) = n /\ ~Sorts(e, n)
<1>2. \A n \in Nat : ~NoSort(n)
  <2>1. SUFFICES ASSUME {n \in Nat : NoSort(n)} # {}
                 PROVE  FALSE
    OBVIOUS
  <2>2. PICK n \in Nat : NoSort(n) /\ \A m \in Nat : NoSort(m) => n <= m
    <3> HIDE DEF NoSort
    <3>1. PICK n \in {m \in Nat : NoSort(m)} : \A m \in {k \in Nat : NoSort(k)} : n <= m
      BY <2>1, LeastNatural
    <3>2. QED
      BY <3>1
  <2>3. PICK e \in SUBSET Int : IsFiniteSet(e) /\ Cardinality(e) = n /\ ~Sorts(e, n)
    BY <2>2
  <2>4. n # 0
    <3>1. SUFFICES ASSUME n = 0 PROVE FALSE
      OBVIOUS
    <3>2. e = {}
      BY <2>3, <3>1, FS_EmptySet
    <3>3. << >> \in [1 .. 0 -> {}] /\ Ascending(<< >>, 0)
      OBVIOUS
    <3>4. QED
      BY <3>1, <3>2, <3>3, <2>3
  <2>5. PICK x \in e : \A y \in e : y <= x
    <3>1. e # {}
      BY <2>3, <2>4, FS_EmptySet
    <3>2. HasMax(e)
      BY <1>1, <2>3, <3>1
    <3>3. QED
      BY <3>2
  <2>6. IsFiniteSet(e \ {x}) /\ Cardinality(e \ {x}) = n - 1 /\ n - 1 \in Nat
    <3>1. IsFiniteSet(e \ {x}) /\ Cardinality(e \ {x}) = Cardinality(e) - 1
      BY <2>3, <2>5, FS_RemoveElement
    <3>2. QED
      BY <2>2, <2>3, <2>4, <3>1
  <2>7. ~NoSort(n - 1)
    <3> HIDE DEF NoSort
    <3> QED
      BY <2>2, <2>6
  <2>8. PICK s \in [1 .. n - 1 -> e \ {x}] : Ascending(s, n - 1)
    BY <2>6, <2>7, <2>3
  <2> DEFINE t == [i \in 1 .. n |-> IF i = n THEN x ELSE s[i]]
  <2>9. t \in [1 .. n -> e]
    BY <2>2, <2>6, <2>8, <2>5
  <2>10. Ascending(t, n)
    <3>1. SUFFICES ASSUME NEW i \in 1 .. n, NEW j \in 1 .. n, i < j PROVE t[i] < t[j]
      OBVIOUS
    <3>2. i \in 1 .. n - 1
      BY <3>1
    <3>3. CASE j = n
      <4>1. s[i] \in e \ {x}
        BY <2>2, <3>2, <2>8
      <4>2. t[i] = s[i] /\ t[j] = x
        BY <2>2, <3>2, <3>3
      <4>3. s[i] \in Int /\ x \in Int /\ s[i] <= x /\ s[i] # x
        BY <4>1, <2>3, <2>5
      <4>4. QED
        BY <4>2, <4>3
    <3>4. CASE j # n
      BY <3>1, <3>2, <3>4, <2>8, <2>9
    <3>5. QED
      BY <3>3, <3>4
  <2>11. QED
    BY <2>9, <2>10, <2>3
<1>3. QED
  BY <1>2, FS_CardinalityType

\* A directory's files by path, each of them once.
LEMMA ScanLists ==
  ASSUME NEW d, d \subseteq UserFiles
  PROVE  ScanUserHrtfDirectory(d) \in Seq(UserFiles)
<1>1. d \subseteq Int /\ IsFiniteSet(d) /\ Cardinality(d) \in Nat
  BY FilesAssumption, FS_Subset, FS_CardinalityType
<1>2. PICK s \in [1 .. Cardinality(d) -> d] :
        \A i, j \in 1 .. Cardinality(d) : i < j => s[i] < s[j]
  BY <1>1, SortExists
<1>3. Len(s) = Cardinality(d)
  BY <1>1, <1>2
<1>4. \E f \in [1 .. Cardinality(d) -> d] : IsSorted(f, <)
  BY <1>2, <1>3 DEF IsSorted
<1>5. ScanUserHrtfDirectory(d) \in [1 .. Cardinality(d) -> d]
  BY <1>4 DEF ScanUserHrtfDirectory, IsSorted
<1>6. \A n \in Nat : [1 .. n -> d] \subseteq Seq(UserFiles)
  OBVIOUS
<1>7. QED
  BY <1>1, <1>5, <1>6

\* The catalog lists the bundled entries and files, and fits the index.
LEMMA ListingType ==
  ASSUME NEW d, d \subseteq UserFiles
  PROVE  /\ Listing(d) \in Seq(Entries) /\ Len(Listing(d)) \in 1 .. MaxCatalogEntries
         /\ Listing(d) # None
<1> DEFINE all == Bundled \o ScanUserHrtfDirectory(d)
           n == IF Len(all) < MaxCatalogEntries THEN Len(all) ELSE MaxCatalogEntries
<1>1. /\ Bundled \in Seq(Entries) /\ ScanUserHrtfDirectory(d) \in Seq(Entries)
      /\ Len(Bundled) >= 1 /\ Len(Bundled) <= MaxCatalogEntries /\ MaxCatalogEntries \in Nat
  BY CatalogAssumption, ScanLists DEF Entries
<1>2. all \in Seq(Entries) /\ Len(all) = Len(Bundled) + Len(ScanUserHrtfDirectory(d))
  BY <1>1
<1>3. n \in 1 .. Len(all) /\ n <= MaxCatalogEntries
  BY <1>1, <1>2
<1>4. Listing(d) = SubSeq(all, 1, n)
  BY DEF Listing
<1> HIDE DEF all, n
<1>5. Listing(d) \in Seq(Entries) /\ Len(Listing(d)) = n
  BY <1>2, <1>3, <1>4
<1>6. QED
  BY <1>1, <1>3, <1>5, NoneAssumption

-----------------------------------------------------------------------------
(* Files *)

\* Save always finds an inode for a new file: the thread that opens it has none.
LEMMA FreeInode ==
  ASSUME NEW p \in Savers, descriptor[p] = None, tempEntry = None
  PROVE  \E i \in File!Inodes : File!Free(i)
<1> DEFINE Open == {descriptor[q] : q \in Savers}
           Used == {settingsEntry, tempEntry} \cup Open
<1>1. IsFiniteSet(Savers) /\ Cardinality(Savers) \in Nat
  BY ThreadsAssumption, FS_AddElement, FS_CardinalityType DEF Savers
<1>2. IsFiniteSet(Open) /\ Cardinality(Open) \in Nat /\ Cardinality(Open) <= Cardinality(Savers)
  <2> DEFINE f == [q \in Savers |-> descriptor[q]]
  <2>1. f \in Surjection(Savers, Open)
    BY DEF Surjection
  <2>2. QED
    BY <1>1, <2>1, FS_Surjection, FS_CardinalityType
<1>3. Used = Open \cup {settingsEntry}
  OBVIOUS
<1>4. IsFiniteSet(Used) /\ Cardinality(Used) \in Nat /\ Cardinality(Used) <= Cardinality(Savers) + 1
  <2> HIDE DEF Used, Open
  <2>1. /\ IsFiniteSet(Used)
        /\ Cardinality(Used) = IF settingsEntry \in Open THEN Cardinality(Open)
                                                       ELSE Cardinality(Open) + 1
    BY <1>2, <1>3, FS_AddElement
  <2>2. QED
    BY <1>1, <1>2, <2>1
<1>5. File!Inodes = 1 .. Cardinality(Savers) + 2
  <2>1. File!Cardinality(Savers) = Cardinality(Savers)
    BY Zenon DEF File!Cardinality, Cardinality
  <2>2. QED
    BY <2>1 DEF File!Inodes, Savers
<1>6. IsFiniteSet(File!Inodes) /\ Cardinality(File!Inodes) = Cardinality(Savers) + 2
  BY <1>1, <1>5, FS_Interval
<1>7. ~(File!Inodes \subseteq Used)
  BY <1>1, <1>4, <1>6, FS_Subset
<1>8. QED
  BY <1>7 DEF File!Free, Savers

\* A thread that begins a save disturbs no file and no other save.
LEMMA BeginSaveKeeps ==
  ASSUME File!TypeOK(Settings), FileOK, NEW p \in Savers, NEW t \in Settings,
         File!BeginSave(p, t)
  PROVE  /\ File!TypeOK(Settings)' /\ FileOK'
         /\ Orderly => Orderly'
         /\ File!Exists' <=> File!Exists
         /\ File!Stored' = File!Stored
         /\ text'[p] = t /\ saving'[p] # "no"
         /\ \A q \in Savers \ {p} : text'[q] = text[q] /\ saving'[q] = saving[q]
<1> USE DEF File!TypeOK, File!BeginSave, File!fileVars, Savers
<1>1. saving[p] = "no" /\ saving' = [saving EXCEPT ![p] = "open"]
  OBVIOUS
<1>2. text' = [text EXCEPT ![p] = t]
  OBVIOUS
<1>3. UNCHANGED <<contents, settingsEntry, tempEntry, descriptor, raced, refused, lost>>
  OBVIOUS
<1>4. File!TypeOK(Settings)'
  BY <1>1, <1>2, <1>3
<1>5. FileOK'
  BY <1>1, <1>2, <1>3, NoneAssumption DEF FileOK
<1>6. Orderly => Orderly'
  BY <1>1, <1>2, <1>3 DEF Orderly, Busy
<1>7. QED
  BY <1>1, <1>2, <1>3, <1>4, <1>5, <1>6 DEF File!Exists, File!Stored

\* The temporary file is opened: the settings file stays what it was.
LEMMA OpenKeeps ==
  ASSUME File!TypeOK(Settings), FileOK, NEW p \in Savers, File!OpenTemp(p)
  PROVE  /\ File!TypeOK(Settings)' /\ FileOK'
         /\ (\A q \in Savers \ {p} : ~Busy(q)) => (Orderly => Orderly')
         /\ raced' \/ \A q \in Savers \ {p} : ~Busy(q)
         /\ raced => raced'
         /\ File!Exists' <=> File!Exists
         /\ File!Exists => File!Stored' = File!Stored
         /\ text' = text /\ refused' = refused /\ lost' = lost
         /\ \A q \in Savers : saving'[q] = "no" <=> saving[q] = "no"
<1> USE DEF Savers
<1>1. PICK i \in File!Inodes :
        /\ File!Truncate(p, tempEntry, i) /\ tempEntry' = i /\ UNCHANGED settingsEntry
  BY DEF File!OpenTemp
<1>2. /\ saving[p] = "open" /\ saving' = [saving EXCEPT ![p] = "write"]
      /\ i = IF tempEntry # None THEN tempEntry ELSE CHOOSE j \in File!Inodes : File!Free(j)
      /\ contents' = [contents EXCEPT ![i] = None]
      /\ descriptor' = [descriptor EXCEPT ![p] = i]
      /\ raced' = (raced \/ \E q \in Savers \ {p} : saving[q] \in {"write", "rename"})
      /\ UNCHANGED <<text, refused, lost>>
  BY <1>1 DEF File!Truncate
<1>3. File!Inodes \subseteq Int /\ i # None
  BY <1>1, NoneAssumption DEF File!Inodes
<1>4. settingsEntry # i
  <2>1. CASE tempEntry # None
    BY <2>1, <1>2, <1>3 DEF FileOK
  <2>2. CASE tempEntry = None
    <3>1. descriptor[p] = None
      BY <1>2 DEF FileOK
    <3>2. File!Free(i)
      BY <2>2, <3>1, <1>2, FreeInode
    <3>3. QED
      BY <3>2 DEF File!Free
  <2>3. QED
    BY <2>1, <2>2
<1>5. File!TypeOK(Settings)'
  <2>1. raced' \in BOOLEAN
    BY <1>2, Zenon
  <2>2. QED
    BY <2>1, <1>1, <1>2 DEF File!TypeOK
<1>6. FileOK'
  BY <1>1, <1>2, <1>3, <1>4 DEF FileOK, File!TypeOK
<1>7. ASSUME \A q \in Savers \ {p} : ~Busy(q)
      PROVE  Orderly'
  BY <1>7, <1>1, <1>2 DEF Orderly, Busy, File!TypeOK
<1>8. /\ raced' \/ \A q \in Savers \ {p} : ~Busy(q)
      /\ raced => raced'
  BY <1>2, Zenon DEF Busy
<1>9. File!Exists => File!Stored' = File!Stored
  BY <1>1, <1>2, <1>4 DEF File!TypeOK, File!Stored, File!Exists
<1>10. QED
  BY <1>1, <1>2, <1>5, <1>6, <1>7, <1>8, <1>9 DEF File!Exists, File!TypeOK

\* A text is written: into the temporary file, as long as saves are orderly.
LEMMA WriteKeeps ==
  ASSUME File!TypeOK(Settings), FileOK, NEW p \in Savers, File!WriteText(p)
  PROVE  /\ File!TypeOK(Settings)' /\ FileOK'
         /\ Orderly => Orderly' /\ (File!Exists => File!Stored' = File!Stored)
         /\ File!Exists' <=> File!Exists
         /\ UNCHANGED <<text, raced, refused, lost>>
         /\ \A q \in Savers : saving'[q] = "no" <=> saving[q] = "no"
<1> USE DEF Savers
<1>1. /\ saving[p] = "write" /\ saving' = [saving EXCEPT ![p] = "rename"]
      /\ descriptor' = [descriptor EXCEPT ![p] = None]
      /\ contents' = [contents EXCEPT ![descriptor[p]] = text[p]]
      /\ UNCHANGED <<settingsEntry, tempEntry, text, raced, refused, lost>>
  BY DEF File!WriteText
<1>2. descriptor[p] \in File!Inodes
  BY <1>1 DEF File!TypeOK, FileOK
<1>3. File!TypeOK(Settings)'
  BY <1>1, <1>2 DEF File!TypeOK
<1>4. FileOK'
  BY <1>1 DEF File!TypeOK, FileOK
<1>5. ASSUME Orderly
      PROVE  Orderly' /\ (File!Exists => File!Stored' = File!Stored)
  <2>1. descriptor[p] = tempEntry /\ \A q \in Savers \ {p} : ~Busy(q)
    BY <1>5, <1>1 DEF Orderly, Busy
  <2>2. Orderly'
    BY <2>1, <1>1, <1>2 DEF Orderly, Busy, File!TypeOK, FileOK
  <2>3. File!Exists => File!Stored' = File!Stored
    BY <2>1, <1>1, <1>2 DEF FileOK, File!TypeOK, File!Stored, File!Exists
  <2>4. QED
    BY <2>2, <2>3
<1>6. QED
  BY <1>1, <1>3, <1>4, <1>5 DEF File!Exists, File!TypeOK

\* The temporary file takes the settings file's name, and with it its text there.
LEMMA RenameKeeps ==
  ASSUME File!TypeOK(Settings), FileOK, NEW p \in Savers, File!RenameTemp(p)
  PROVE  /\ File!TypeOK(Settings)' /\ FileOK'
         /\ Orderly => Orderly' /\ File!Exists' /\ File!Stored' = text[p]
         /\ UNCHANGED <<raced, refused, lost>>
         /\ text[p] # None /\ saving[p] # "no" /\ saving'[p] = "no"
         /\ \A q \in Savers \ {p} : text'[q] = text[q] /\ saving'[q] = saving[q]
<1> USE DEF Savers
<1>1. /\ saving[p] = "rename" /\ saving' = [saving EXCEPT ![p] = "no"]
      /\ text' = [text EXCEPT ![p] = None]
      /\ IF tempEntry # None
         THEN settingsEntry' = tempEntry /\ tempEntry' = None
         ELSE UNCHANGED <<settingsEntry, tempEntry>>
      /\ UNCHANGED <<contents, descriptor, raced, refused, lost>>
  BY DEF File!RenameTemp
<1>2. File!TypeOK(Settings)'
  BY <1>1 DEF File!TypeOK
<1>3. FileOK'
  BY <1>1 DEF File!TypeOK, FileOK
<1>4. ASSUME Orderly
      PROVE  Orderly' /\ File!Exists' /\ File!Stored' = text[p]
  <2>1. /\ tempEntry # None /\ contents[tempEntry] = text[p]
        /\ \A q \in Savers \ {p} : ~Busy(q)
    BY <1>4, <1>1 DEF Orderly, Busy
  <2>2. QED
    BY <2>1, <1>1 DEF Orderly, Busy, File!TypeOK, File!Exists, File!Stored
<1>5. QED
  BY <1>1, <1>2, <1>3, <1>4 DEF File!TypeOK, FileOK

\* A save that could not open its file, or not rename it, is over, and nothing else
\* has happened.
LEMMA SaveFailsKeeps ==
  ASSUME File!TypeOK(Settings), FileOK, NEW p \in Savers,
         File!OpenFails(p) \/ File!RenameFails(p)
  PROVE  /\ File!TypeOK(Settings)' /\ FileOK'
         /\ Orderly => Orderly'
         /\ File!Exists' <=> File!Exists
         /\ File!Stored' = File!Stored
         /\ refused'
         /\ saving[p] # "no" /\ saving'[p] = "no"
         /\ \A q \in Savers \ {p} : text'[q] = text[q] /\ saving'[q] = saving[q]
<1> USE DEF Savers
<1>1. /\ saving[p] \in {"open", "rename"} /\ saving' = [saving EXCEPT ![p] = "no"]
      /\ text' = [text EXCEPT ![p] = None]
      /\ refused' = TRUE
      /\ UNCHANGED <<contents, settingsEntry, tempEntry, descriptor, raced, lost>>
  BY DEF File!OpenFails, File!RenameFails, File!fileVars
<1>2. File!TypeOK(Settings)' /\ FileOK'
  BY <1>1 DEF File!TypeOK, FileOK
<1>3. Orderly => Orderly'
  BY <1>1 DEF Orderly, Busy, File!TypeOK
<1>4. QED
  BY <1>1, <1>2, <1>3 DEF File!TypeOK, File!Exists, File!Stored

\* A write that fails leaves the types as they are, whatever is in the file.
LEMMA WriteFailsKeeps ==
  ASSUME File!TypeOK(Settings), FileOK, NEW p \in Savers, File!WriteFails(p)
  PROVE  /\ File!TypeOK(Settings)' /\ FileOK'
         /\ refused' /\ text' = text
         /\ \A q \in Savers : saving'[q] = "no" <=> saving[q] = "no"
<1> USE DEF Savers
<1>1. /\ saving[p] = "write" /\ saving' = [saving EXCEPT ![p] = "rename"]
      /\ descriptor' = [descriptor EXCEPT ![p] = None]
      /\ refused' = TRUE
      /\ UNCHANGED <<contents, settingsEntry, tempEntry, text, raced, lost>>
  BY DEF File!WriteFails, File!fileVars
<1>2. QED
  BY <1>1 DEF File!TypeOK, FileOK

\* The daemon is killed: the files stay, the saves are gone.  A power loss may take
\* texts as well.
LEMMA EndKeeps ==
  ASSUME File!TypeOK(Settings), FileOK, File!Kill \/ File!PowerLoss
  PROVE  /\ File!TypeOK(Settings)' /\ FileOK' /\ Orderly'
         /\ File!Exists' <=> File!Exists
         /\ File!Kill => File!Stored' = File!Stored /\ lost' = lost
         /\ File!PowerLoss => lost'
         /\ raced' = raced /\ refused' = refused
         /\ \A q \in Savers : saving'[q] = "no"
<1> USE DEF Savers
<1>1. /\ saving' = [q \in Savers |-> "no"] /\ text' = [q \in Savers |-> None]
      /\ descriptor' = [q \in Savers |-> None]
      /\ UNCHANGED <<settingsEntry, tempEntry, raced, refused>>
  BY DEF File!Kill, File!PowerLoss, File!Ended
<1>2. /\ File!Kill => contents' = contents /\ lost' = lost
      /\ File!PowerLoss => lost' = TRUE
      /\ contents' \in [File!Inodes -> Settings \cup {None}]
  BY DEF File!Kill, File!PowerLoss, File!TypeOK
<1>3. lost' \in BOOLEAN
  BY <1>2 DEF File!TypeOK
<1>4. File!TypeOK(Settings)'
  BY <1>1, <1>2, <1>3 DEF File!TypeOK
<1>5. QED
  BY <1>1, <1>2, <1>4 DEF FileOK, Orderly, Busy, File!Exists, File!Stored

-----------------------------------------------------------------------------
(* Types *)

\* A sequence of bounded length, as a sequence.
LEMMA BoundedIs ==
  ASSUME NEW s
  PROVE  s \in BoundedSeq(Entries, MaxCatalogEntries)
           <=> s \in Seq(Entries) /\ Len(s) \in 0 .. MaxCatalogEntries
<1>1. MaxCatalogEntries \in Nat
  BY CatalogAssumption
<1>2. ASSUME s \in BoundedSeq(Entries, MaxCatalogEntries)
      PROVE  s \in Seq(Entries) /\ Len(s) \in 0 .. MaxCatalogEntries
  <2>1. PICK m \in 0 .. MaxCatalogEntries : s \in [1 .. m -> Entries]
    BY <1>2, Zenon DEF BoundedSeq, SeqOf
  <2>2. QED
    BY <1>1, <2>1
<1>3. ASSUME s \in Seq(Entries), Len(s) \in 0 .. MaxCatalogEntries
      PROVE  s \in BoundedSeq(Entries, MaxCatalogEntries)
  <2>1. s \in [1 .. Len(s) -> Entries]
    BY <1>3
  <2>2. QED
    BY <1>3, <2>1, Zenon DEF BoundedSeq, SeqOf
<1>4. QED
  BY <1>2, <1>3

\* What a missing key loads as is a setting.
LEMMA DefaultsType == Defaults \in Settings
  BY DefaultsAssumption DEF Defaults, Settings

\* The first bundled entry is an entry.
LEMMA FirstBundled == Bundled[1] \in Entries
  BY CatalogAssumption DEF Entries, ToSet

\* The text a command saves holds settings.
LEMMA SnapshotType ==
  ASSUME TypeOK, CommandsOK, NEW c \in Clients
  PROVE  [cmd[c].snapshot EXCEPT !.hrtf = IF cmd[c].index \in DOMAIN catalog
                                           THEN catalog[cmd[c].index] ELSE None] \in Settings
<1>1. cmd[c].snapshot \in Settings
  BY DEF TypeOK
<1>2. catalog \in Seq(Entries)
  BY BoundedIs DEF TypeOK
<1> DEFINE name == IF cmd[c].index \in DOMAIN catalog THEN catalog[cmd[c].index] ELSE None
<1>3. name \in Entries \cup {None}
  BY <1>2
<1>4. [cmd[c].snapshot EXCEPT !.hrtf = name] \in Settings
  <2> HIDE DEF name
  <2> QED
    BY <1>1, <1>3 DEF Settings
<1>5. QED
  BY <1>4

\* The files, whoever saves and at whatever point: their types, and what they
\* hold if no two threads saved at once and no system call failed.
LEMMA FileStep ==
  ASSUME TypeOK, CommandsOK, PhasesOK, FileOK, Whole, [Next]_vars
  PROVE  File!TypeOK(Settings)' /\ FileOK' /\ Whole'
<1>1. File!TypeOK(Settings)
  BY DEF TypeOK
<1>2. CASE UNCHANGED saveVars
  BY <1>1, <1>2 DEF saveVars, File!TypeOK, FileOK, Whole, Orderly, Busy, File!Exists, File!Stored
<1>3. ASSUME NEW p \in Savers, NEW t \in Settings, File!BeginSave(p, t)
      PROVE  File!TypeOK(Settings)' /\ FileOK' /\ Whole'
  <2>1. raced' = raced /\ refused' = refused /\ lost' = lost
    BY <1>3 DEF File!BeginSave
  <2>2. QED
    BY <1>1, <1>3, <2>1, BeginSaveKeeps DEF Whole
<1>4. CASE SaveDevice
  <2>1. ToSave \in Settings
    BY DefaultsType DEF ToSave, TypeOK
  <2>2. QED
    BY <1>3, <1>4, <2>1 DEF SaveDevice, Savers
<1>5. CASE Kill \/ PowerLoss
  BY <1>1, <1>5, EndKeeps DEF Kill, PowerLoss, Whole
<1>6. ASSUME NEW c \in Clients, SnapshotName(c)
      PROVE  File!TypeOK(Settings)' /\ FileOK' /\ Whole'
  BY <1>3, <1>6, SnapshotType DEF SnapshotName, Savers
<1>7. ASSUME NEW p \in Savers, Save(p)
      PROVE  File!TypeOK(Settings)' /\ FileOK' /\ Whole'
  <2>1. CASE File!OpenTemp(p)
    BY <1>1, <2>1, OpenKeeps DEF Whole
  <2>2. CASE File!WriteText(p)
    BY <1>1, <2>2, WriteKeeps DEF Whole
  <2>3. CASE File!RenameTemp(p)
    BY <1>1, <2>3, RenameKeeps DEF Whole
  <2>4. CASE File!OpenFails(p) \/ File!RenameFails(p)
    BY <1>1, <2>4, SaveFailsKeeps DEF Whole
  <2>5. CASE File!WriteFails(p)
    BY <1>1, <2>5, WriteFailsKeeps DEF Whole
  <2>6. QED
    BY <1>7, <2>1, <2>2, <2>3, <2>4, <2>5
       DEF Save, Continue, RenameTemp, SaveFails, WriteFails
<1>8. CASE Load \/ WatchAndResolve \/ StartServer \/ MainLoop \/ ChangeDirectory
  BY <1>2, <1>8 DEF Load, WatchAndResolve, StartServer, MainLoop, OnHrtfDirectoryChanged,
                    SwapCatalog, InstallScan, ChangeDirectory
<1>9. ASSUME NEW c \in Clients, HandleControlCommand(c), ~SnapshotName(c)
      PROVE  UNCHANGED saveVars
  BY <1>9 DEF HandleControlCommand, GetStatus, SetLayout, SetEq, Begin, SetHrtf, RefuseHrtf,
              ReadBands, PublishBands, SwitchTo, StoreIndex, TakeStatus, SnapshotEq, vars
<1>10. CASE UNCHANGED vars
  BY <1>2, <1>10 DEF vars
<1>11. QED
  BY <1>2, <1>4, <1>5, <1>6, <1>7, <1>8, <1>9, <1>10 DEF Next, Run, Savers

-----------------------------------------------------------------------------
(* Commands *)

\* An idle client has no command.
LEMMA IdleType == NoCmd \in Command /\ NoCmd.step = "idle" /\ NoCmd.op = None
  BY DefaultsType DEF NoCmd, Command, Steps, Values

\* A step of one client leaves the others' commands alone.
LEMMA CommandsFrom ==
  ASSUME CommandsOK, NEW c \in Clients, NEW r \in Command,
         cmd' = [cmd EXCEPT ![c] = r],
         \A d \in Clients \ {c} : saving'[d] = "no" <=> saving[d] = "no",
         promised' \in [Ops -> Values], CommandOK(c)'
  PROVE  CommandsOK'
<1>1. cmd' \in [Clients -> Command]
  BY DEF CommandsOK
<1>2. ASSUME NEW d \in Clients \ {c}
      PROVE  CommandOK(d)'
  <2>1. cmd'[d] = cmd[d] /\ (saving'[d] = "no" <=> saving[d] = "no") /\ CommandOK(d)
    BY DEF CommandsOK
  <2>2. QED
    BY <2>1 DEF CommandOK
<1>3. QED
  BY <1>1, <1>2 DEF CommandsOK

\* A step that touches no command.
LEMMA CommandsUnchanged ==
  ASSUME CommandsOK, cmd' = cmd,
         \A d \in Clients : saving'[d] = "no" <=> saving[d] = "no",
         promised' \in [Ops -> Values]
  PROVE  CommandsOK'
  BY DEF CommandsOK, CommandOK

\* No promise at all.
LEMMA NothingType == Nothing \in [Ops -> Values]
  BY DEF Nothing, Values

\* A promise taken back.
LEMMA PromiseBack ==
  ASSUME promised \in [Ops -> Values], NEW op \in Ops
  PROVE  [promised EXCEPT ![op] = None] \in [Ops -> Values]
  BY DEF Values

\* The commands keep to their steps.
LEMMA CommandsStep ==
  ASSUME TypeOK, CommandsOK, PhasesOK, FileOK, [Next]_vars
  PROVE  CommandsOK'
<1>1. File!TypeOK(Settings) /\ catalog \in Seq(Entries) /\ Len(catalog) \in 0 .. MaxCatalogEntries
  BY BoundedIs DEF TypeOK
<1>2. cmd \in [Clients -> Command] /\ promised \in [Ops -> Values] /\ MaxCatalogEntries \in Nat
  BY CatalogAssumption DEF CommandsOK
<1>3. CASE UNCHANGED <<saving, cmd, promised>>
  BY <1>2, <1>3, CommandsUnchanged
<1>4. CASE Load \/ WatchAndResolve \/ StartServer \/ MainLoop
  BY <1>3, <1>4 DEF Load, WatchAndResolve, StartServer, MainLoop, OnHrtfDirectoryChanged,
                    SwapCatalog, InstallScan, saveVars, cmdVars
<1>5. CASE SaveDevice
  <2>1. \A d \in Clients : saving'[d] = saving[d]
    BY <1>1, <1>5, ThreadsAssumption DEF SaveDevice, File!BeginSave, File!TypeOK
  <2>2. UNCHANGED <<cmd, promised>>
    BY <1>5 DEF SaveDevice, cmdVars
  <2>3. QED
    BY <1>2, <2>1, <2>2, CommandsUnchanged
<1>6. CASE Kill \/ PowerLoss
  <2>1. /\ cmd' = [c \in Clients |-> NoCmd] /\ promised' \in {promised, Nothing}
        /\ \A c \in Clients : saving'[c] = "no"
    BY <1>1, <1>6, EndKeeps DEF Kill, PowerLoss, Ends, Savers
  <2>2. \A c \in Clients : CommandOK(c)'
    <3> TAKE c \in Clients
    <3>1. cmd'[c] = NoCmd /\ saving'[c] = "no"
      BY <2>1
    <3>2. QED
      BY <3>1, IdleType, NoneAssumption DEF CommandOK, Ops
  <2>3. QED
    BY <1>2, <2>1, <2>2, IdleType, NothingType DEF CommandsOK
<1>7. CASE ChangeDirectory
  <2>1. promised' \in [Ops -> Values] /\ cmd' = cmd /\ saving' = saving
    BY <1>2, <1>7, PromiseBack DEF ChangeDirectory, saveVars, Ops
  <2>2. QED
    BY <2>1, CommandsUnchanged
<1>8. ASSUME NEW c \in Clients, NEW r \in Command, cmd' = [cmd EXCEPT ![c] = r],
             \A d \in Clients \ {c} : saving'[d] = "no" <=> saving[d] = "no",
             promised' = promised,
             r.step \in {"publish", "status", "index", "snapshotEq", "snapshotName", "save"},
             r.op = cmd[c].op, r.value = cmd[c].value,
             r.held = cmd[c].held \/ cmd[c].op # "hrtf",
             cmd[c].step # "idle",
             r.step = "publish" => cmd[c].op = "eq" /\ r.held \in Curves,
             r.step = "index" => cmd[c].op = "hrtf",
             r.step = "save" <=> saving'[c] # "no"
      PROVE  CommandsOK'
  <2>1. CommandOK(c) /\ cmd'[c] = r
    BY <1>8 DEF CommandsOK
  <2>2. CommandOK(c)'
    BY <1>8, <2>1 DEF CommandOK
  <2>3. QED
    BY <1>2, <1>8, <2>2, CommandsFrom
<1>9. ASSUME NEW c \in Clients, HandleControlCommand(c)
      PROVE  CommandsOK'
  <2>1. CASE GetStatus(c) \/ \E i \in 1 .. MaxCatalogEntries : RefuseHrtf(c, i)
    BY <1>3, <2>1 DEF RefuseHrtf, GetStatus, vars, saveVars, cmdVars
  <2>2. ASSUME NEW op \in {"layout", "eq"}, NEW v \in Layouts \cup Curves,
               NEW step \in {"status", "bands"}, Begin(c, op, v, step),
               step = "bands" => op = "eq"
        PROVE  CommandsOK'
    <3> DEFINE r == [NoCmd EXCEPT !.step = step, !.op = op, !.value = v]
    <3>1. r \in Command /\ r.step = step /\ r.op = op
      BY <2>2, IdleType DEF NoCmd, Command, Steps, Ops, Values
    <3>2. cmd' = [cmd EXCEPT ![c] = r] /\ saving' = saving /\ cmd[c].step = "idle"
      BY <2>2 DEF Begin, saveVars, At
    <3>3. promised' \in [Ops -> Values]
      BY <1>2, <2>2, NothingType, PromiseBack DEF Begin, Ops
    <3> HIDE DEF r
    <3>4. CommandOK(c)'
      <4>1. cmd'[c] = r /\ CommandOK(c)
        BY <1>2, <3>2 DEF CommandsOK
      <4>2. QED
        BY <2>2, <3>1, <3>2, <4>1, NoneAssumption DEF CommandOK, Ops
    <3>5. QED
      BY <3>1, <3>2, <3>3, <3>4, CommandsFrom
  <2>3. ASSUME NEW i \in 1 .. MaxCatalogEntries, SetHrtf(c, i)
        PROVE  CommandsOK'
    <3> DEFINE r == [NoCmd EXCEPT !.step = "switch", !.op = "hrtf", !.value = i,
                                  !.held = catalog[i]]
    <3>1. catalog[i] \in Entries
      BY <1>1, <2>3 DEF SetHrtf
    <3>2. /\ r \in Command /\ r.step = "switch" /\ r.op = "hrtf" /\ r.value = i
          /\ r.held = catalog[i]
      <4>1. catalog[i] \in Values /\ i \in Values
        BY <3>1 DEF Values
      <4>2. QED
        BY <4>1, IdleType DEF NoCmd, Command, Steps, Ops
    <3>3. cmd' = [cmd EXCEPT ![c] = r] /\ saving' = saving /\ cmd[c].step = "idle"
      BY <2>3 DEF SetHrtf, saveVars, At
    <3>4. promised' \in [Ops -> Values]
      BY <1>2, <2>3, NothingType, PromiseBack DEF SetHrtf, Ops
    <3> HIDE DEF r
    <3>5. CommandOK(c)'
      <4>1. cmd'[c] = r /\ CommandOK(c)
        BY <1>2, <3>3 DEF CommandsOK
      <4>2. QED
        BY <3>1, <3>2, <3>3, <4>1 DEF CommandOK, Ops
    <3>6. QED
      BY <3>2, <3>3, <3>4, <3>5, CommandsFrom
  <2>4. cmd[c] \in Command /\ CommandOK(c) /\ saving[c] \in {"no", "open", "write", "rename"}
    BY <1>1, <1>2 DEF CommandsOK, File!TypeOK
  <2>5. CASE ReadBands(c)
    <3> DEFINE r == [cmd[c] EXCEPT !.step = "publish", !.held = eq]
    <3>1. r \in Command /\ r.step = "publish" /\ r.op = cmd[c].op /\ r.value = cmd[c].value
          /\ r.held = eq /\ eq \in Curves
      BY <2>4 DEF Command, Steps, Values, TypeOK
    <3>2. cmd' = [cmd EXCEPT ![c] = r] /\ promised' = promised /\ saving' = saving
          /\ cmd[c].step = "bands"
      BY <2>5 DEF ReadBands, saveVars, At
    <3> HIDE DEF r
    <3>3. QED
      BY <1>8, <2>4, <3>1, <3>2 DEF CommandOK
  <2>6. CASE PublishBands(c)
    <3> DEFINE r == [cmd[c] EXCEPT !.step = "status", !.held = None]
    <3>1. r \in Command /\ r.step = "status" /\ r.op = cmd[c].op /\ r.value = cmd[c].value
      BY <2>4 DEF Command, Steps, Values
    <3>2. cmd' = [cmd EXCEPT ![c] = r] /\ promised' = promised /\ saving' = saving
          /\ cmd[c].step = "publish"
      BY <2>6 DEF PublishBands, saveVars, At
    <3> HIDE DEF r
    <3>3. QED
      BY <1>8, <2>4, <3>1, <3>2 DEF CommandOK
  <2>7. CASE SwitchTo(c)
    <3> DEFINE r == [cmd[c] EXCEPT !.step = "index"]
    <3>1. r \in Command /\ r.step = "index" /\ r.op = cmd[c].op /\ r.value = cmd[c].value
          /\ r.held = cmd[c].held
      BY <2>4 DEF Command, Steps, Values
    <3>2. cmd' = [cmd EXCEPT ![c] = r] /\ promised' = promised /\ saving' = saving
          /\ cmd[c].step = "switch"
      BY <2>7 DEF SwitchTo, saveVars, At, GoTo
    <3> HIDE DEF r
    <3>3. QED
      BY <1>8, <2>4, <3>1, <3>2 DEF CommandOK
  <2>8. CASE StoreIndex(c)
    <3> DEFINE r == [cmd[c] EXCEPT !.step = "status"]
    <3>1. r \in Command /\ r.step = "status" /\ r.op = cmd[c].op /\ r.value = cmd[c].value
          /\ r.held = cmd[c].held
      BY <2>4 DEF Command, Steps, Values
    <3>2. cmd' = [cmd EXCEPT ![c] = r] /\ promised' = promised /\ saving' = saving
          /\ cmd[c].step = "index"
      BY <2>8 DEF StoreIndex, saveVars, At, GoTo
    <3> HIDE DEF r
    <3>3. QED
      BY <1>8, <2>4, <3>1, <3>2 DEF CommandOK
  <2>9. CASE TakeStatus(c)
    <3> DEFINE r == [cmd[c] EXCEPT !.step = "snapshotEq", !.snapshot.layout = layout,
                                   !.index = activeIndex]
    <3>1. r \in Command /\ r.step = "snapshotEq" /\ r.op = cmd[c].op /\ r.value = cmd[c].value
          /\ r.held = cmd[c].held
      <4> DEFINE snap == [cmd[c].snapshot EXCEPT !.layout = layout]
      <4>1. snap \in Settings /\ activeIndex \in Nat
        BY <1>2, <2>4 DEF Command, Settings, TypeOK
      <4>2. r = [cmd[c] EXCEPT !.step = "snapshotEq", !.snapshot = snap, !.index = activeIndex]
        OBVIOUS
      <4> HIDE DEF r, snap
      <4>3. QED
        BY <2>4, <4>1, <4>2 DEF Command, Steps
    <3>2. cmd' = [cmd EXCEPT ![c] = r] /\ promised' = promised /\ saving' = saving
          /\ cmd[c].step = "status"
      BY <2>9 DEF TakeStatus, saveVars, At
    <3> HIDE DEF r
    <3>3. QED
      BY <1>8, <2>4, <3>1, <3>2 DEF CommandOK
  <2>10. CASE SnapshotEq(c)
    <3> DEFINE r == [cmd[c] EXCEPT !.step = "snapshotName", !.snapshot.eq = eq]
    <3>1. r \in Command /\ r.step = "snapshotName" /\ r.op = cmd[c].op
          /\ r.value = cmd[c].value /\ r.held = cmd[c].held
      BY <2>4 DEF Command, Settings, Steps, Values, TypeOK
    <3>2. cmd' = [cmd EXCEPT ![c] = r] /\ promised' = promised /\ saving' = saving
          /\ cmd[c].step = "snapshotEq"
      BY <2>10 DEF SnapshotEq, saveVars, At
    <3> HIDE DEF r
    <3>3. QED
      BY <1>8, <2>4, <3>1, <3>2 DEF CommandOK
  <2>11. CASE SnapshotName(c)
    <3> DEFINE r == [cmd[c] EXCEPT !.step = "save", !.snapshot = Defaults, !.index = 0]
    <3>1. r \in Command /\ r.step = "save" /\ r.op = cmd[c].op /\ r.value = cmd[c].value
          /\ r.held = cmd[c].held
      BY <2>4, DefaultsType DEF Command, Steps, Values
    <3>2. cmd' = [cmd EXCEPT ![c] = r] /\ promised' = promised /\ cmd[c].step = "snapshotName"
          /\ saving' = [saving EXCEPT ![c] = "open"]
      BY <2>11 DEF SnapshotName, At, File!BeginSave
    <3>3. saving'[c] # "no" /\ \A d \in Clients \ {c} : saving'[d] = saving[d]
      BY <1>1, <3>2 DEF File!TypeOK
    <3> HIDE DEF r
    <3>4. QED
      BY <1>8, <2>4, <3>1, <3>2, <3>3 DEF CommandOK
  <2>12. QED
    BY <1>9, <2>1, <2>2, <2>3, <2>5, <2>6, <2>7, <2>8, <2>9, <2>10, <2>11
       DEF HandleControlCommand, SetLayout, SetEq
<1>10. ASSUME NEW p \in Savers, saving[p] # "no", saving'[p] = "no",
              \A q \in Savers \ {p} : saving'[q] = saving[q],
              p \in Clients => cmd' = [cmd EXCEPT ![p] = NoCmd],
              p \notin Clients => cmd' = cmd,
              promised' \in [Ops -> Values]
       PROVE  CommandsOK'
  <2>1. CASE p \in Clients
    <3>1. cmd'[p] = NoCmd
      BY <1>2, <1>10, <2>1
    <3>2. CommandOK(p)'
      BY <1>10, <3>1, IdleType, NoneAssumption DEF CommandOK, Ops
    <3>3. QED
      BY <1>10, <2>1, <3>2, IdleType, CommandsFrom DEF Savers
  <2>2. CASE p \notin Clients
    BY <1>10, <2>2, CommandsUnchanged DEF Savers
  <2>3. QED
    BY <2>1, <2>2
<1>11. ASSUME NEW p \in Savers, Save(p)
       PROVE  CommandsOK'
  <2>1. CASE Continue(p) \/ WriteFails(p)
    <3>1. \A q \in Savers : saving'[q] = "no" <=> saving[q] = "no"
      BY <1>1, <2>1, OpenKeeps, WriteKeeps, WriteFailsKeeps DEF Continue, WriteFails
    <3>2. cmd' = cmd /\ promised' \in [Ops -> Values]
      BY <1>2, <2>1, NothingType DEF Continue, WriteFails, cmdVars
    <3>3. QED
      BY <3>1, <3>2, CommandsUnchanged DEF Savers
  <2>2. CASE RenameTemp(p)
    <3>1. /\ saving[p] # "no" /\ saving'[p] = "no"
          /\ \A q \in Savers \ {p} : saving'[q] = saving[q]
      BY <1>1, <2>2, RenameKeeps DEF RenameTemp
    <3>2. CASE p \in Clients
      <4>1. cmd' = [cmd EXCEPT ![p] = NoCmd]
        BY <2>2, <3>2 DEF RenameTemp, FinishCommand
      <4>2. cmd[p].op \in Ops /\ cmd[p].held \in Values /\ cmd[p].value \in Values
        <5>1. CommandOK(p) /\ cmd[p] \in Command
          BY <1>2, <3>2 DEF CommandsOK
        <5>2. QED
          BY <3>1, <5>1 DEF CommandOK, Command
      <4>3. promised' \in [Ops -> Values]
        BY <1>2, <2>2, <3>2, <4>2 DEF RenameTemp, FinishCommand
      <4>4. QED
        BY <1>10, <3>1, <3>2, <4>1, <4>3
    <3>3. CASE p \notin Clients
      BY <1>2, <1>10, <2>2, <3>1, <3>3 DEF RenameTemp, FinishCommand, cmdVars
    <3>4. QED
      BY <3>2, <3>3
  <2>3. CASE SaveFails(p)
    <3>1. /\ saving[p] # "no" /\ saving'[p] = "no"
          /\ \A q \in Savers \ {p} : saving'[q] = saving[q]
      BY <1>1, <2>3, SaveFailsKeeps DEF SaveFails
    <3>2. QED
      BY <1>2, <1>10, <2>3, <3>1 DEF SaveFails
  <2>4. QED
    BY <1>11, <2>1, <2>2, <2>3 DEF Save
<1>12. CASE UNCHANGED vars
  BY <1>3, <1>12 DEF vars, saveVars, cmdVars
<1>13. QED
  BY <1>4, <1>5, <1>6, <1>7, <1>9, <1>11, <1>12 DEF Next, Run, Savers

\* What the loads of Run put in force is settings.
LEMMA TypeRun ==
  ASSUME TypeOK, PhasesOK, Load \/ WatchAndResolve \/ SaveDevice \/ StartServer \/ Ends,
         File!TypeOK(Settings)', CommandsOK'
  PROVE  TypeOK'
<1> USE DEF TypeOK
<1>1. \A c \in Clients : cmd'[c].snapshot \in Settings /\ cmd'[c].op \in Ops \cup {None}
  BY DEF CommandsOK, Command
<1>2. catalog \in Seq(Entries) /\ Len(catalog) \in 0 .. MaxCatalogEntries
  BY BoundedIs
<1>3. CASE Load
  <2> DEFINE stored == IF File!Exists THEN File!Stored ELSE None
             l == IF stored = None THEN Defaults ELSE stored
  <2>1. stored \in Settings \cup {None}
    BY DEF File!TypeOK, File!Exists, File!Stored
  <2>2. l \in Settings
    BY <2>1, DefaultsType
  <2>3. l.layout \in Layouts /\ l.eq \in Curves
    <3> HIDE DEF l
    <3> QED
      BY <2>2 DEF Settings
  <2>4. /\ phase' = "watch" /\ from' = stored
        /\ layout' = IF File!Exists THEN l.layout ELSE BuiltinLayout
        /\ eq' = l.eq /\ eqStage' = l.eq /\ catalog' = Listing(dir)
        /\ UNCHANGED <<loaded, activeIndex, scan, adrift, dirVars, alone>>
    BY <1>3 DEF Load, cmdVars
  <2> HIDE DEF stored, l
  <2>5. catalog' \in BoundedSeq(Entries, MaxCatalogEntries)
    BY <2>4, BoundedIs, ListingType, CatalogAssumption
  <2>6. QED
    BY <1>1, <2>1, <2>3, <2>4, <2>5, DefaultsAssumption DEF dirVars
<1>4. CASE WatchAndResolve
  <2> DEFINE saved == {i \in DOMAIN catalog : from # None /\ from.hrtf = catalog[i]}
             i == IF saved = {} THEN 1 ELSE CHOOSE j \in saved : TRUE
  <2>1. 1 \in DOMAIN catalog /\ watched' \in BOOLEAN /\ phase' = "device"
    BY <1>4 DEF WatchAndResolve, PhasesOK
  <2>2. i \in DOMAIN catalog
    BY <2>1
  <2>3. /\ activeIndex' = i /\ loaded' = catalog[i]
        /\ UNCHANGED <<layout, eq, eqStage, catalog, scan, adrift, dir, event, missed, from,
                       alone>>
    BY <1>4 DEF WatchAndResolve, cmdVars
  <2> HIDE DEF i
  <2>4. activeIndex' \in 1 .. MaxCatalogEntries /\ loaded' \in Entries
    BY <1>2, <2>2, <2>3, CatalogAssumption
  <2>5. QED
    BY <1>1, <2>1, <2>3, <2>4
<1>5. CASE SaveDevice \/ StartServer
  BY <1>1, <1>5 DEF SaveDevice, StartServer, forceVars, catalogVars, dirVars, cmdVars
<1>6. CASE Ends
  <2>1. << >> \in BoundedSeq(Entries, MaxCatalogEntries)
    <3>1. << >> \in Seq(Entries) /\ Len(<< >>) \in 0 .. MaxCatalogEntries
      BY CatalogAssumption
    <3>2. QED
      BY <3>1, BoundedIs
  <2>2. 1 \in 1 .. MaxCatalogEntries
    BY CatalogAssumption
  <2>3. QED
    BY <1>1, <1>6, <2>1, <2>2, FirstBundled, DefaultsAssumption DEF Ends
<1>7. QED
  BY <1>3, <1>4, <1>5, <1>6

\* Every step keeps the types.
LEMMA TypeStep ==
  ASSUME TypeOK, CommandsOK, PhasesOK, [Next]_vars, File!TypeOK(Settings)', CommandsOK'
  PROVE  TypeOK'
<1>1. \A c \in Clients : cmd'[c].snapshot \in Settings /\ cmd'[c].op \in Ops \cup {None}
  BY DEF CommandsOK, Command
<1>2. /\ catalog \in Seq(Entries) /\ Len(catalog) \in 0 .. MaxCatalogEntries
      /\ MaxCatalogEntries \in Nat
  BY BoundedIs, CatalogAssumption DEF TypeOK
<1>3. CASE Run \/ Kill \/ PowerLoss
  BY <1>3, TypeRun DEF Run, Kill, PowerLoss
<1>4. CASE ChangeDirectory
  <2>1. {event', alone', missed'} \subseteq BOOLEAN
    <3>1. event' = watched /\ missed' = (missed \/ (phase # "down" /\ ~watched))
          /\ alone' = (alone /\ \A c \in Clients : cmd[c].op # "hrtf")
      BY <1>4 DEF ChangeDirectory
    <3>2. event' \in BOOLEAN
      BY <3>1 DEF TypeOK
    <3>3. missed' \in BOOLEAN
      BY <3>1, Zenon
    <3>4. alone' \in BOOLEAN
      BY <3>1, Zenon
    <3>5. QED
      BY <3>2, <3>3, <3>4
  <2>2. /\ dir' \subseteq UserFiles
        /\ UNCHANGED <<forceVars, catalogVars, watched, bootVars>>
    BY <1>4 DEF ChangeDirectory, TypeOK
  <2>3. QED
    BY <1>1, <2>1, <2>2 DEF TypeOK, forceVars, catalogVars, bootVars
<1>5. CASE OnHrtfDirectoryChanged
  <2>1. scan' \in BoundedSeq(Entries, MaxCatalogEntries)
    BY <1>2, <1>5, BoundedIs, ListingType DEF OnHrtfDirectoryChanged, TypeOK
  <2>2. QED
    BY <1>1, <1>5, <2>1 DEF TypeOK, OnHrtfDirectoryChanged, forceVars, bootVars, cmdVars
<1>6. CASE SwapCatalog
  <2>1. scan # None /\ scan \in BoundedSeq(Entries, MaxCatalogEntries)
    BY <1>6 DEF SwapCatalog, InstallScan, TypeOK
  <2>2. scan \in Seq(Entries) /\ Len(scan) \in 0 .. MaxCatalogEntries
    BY <2>1, BoundedIs
  <2>3. Relocated(scan) \in 1 .. MaxCatalogEntries
    <3> DEFINE same == {i \in DOMAIN scan : activeIndex \in DOMAIN catalog
                                            /\ scan[i] = catalog[activeIndex]}
    <3>1. same \subseteq 1 .. MaxCatalogEntries
      BY <1>2, <2>2
    <3>2. same # {} => (CHOOSE i \in same : TRUE) \in same
      OBVIOUS
    <3>3. Relocated(scan) = IF same = {} THEN activeIndex ELSE CHOOSE i \in same : TRUE
      BY DEF Relocated
    <3> HIDE DEF same
    <3>4. QED
      BY <3>1, <3>2, <3>3 DEF TypeOK
  <2>4. adrift' \in BOOLEAN
    <3>1. adrift' = (adrift \/ catalog[activeIndex] \notin ToSet(scan)
                            \/ \E c \in Clients : Choosing(c))
      BY <1>6 DEF SwapCatalog, InstallScan
    <3>2. QED
      BY <3>1, Zenon
  <2>5. QED
    BY <1>1, <1>6, <2>1, <2>3, <2>4
       DEF TypeOK, SwapCatalog, InstallScan, forceVars, bootVars, cmdVars
<1>7. ASSUME NEW c \in Clients, HandleControlCommand(c)
      PROVE  TypeOK'
  <2>1. CASE UNCHANGED <<forceVars, catalogVars, dirVars, bootVars, alone>>
    BY <1>1, <2>1 DEF TypeOK, forceVars, catalogVars, dirVars, bootVars
  <2>2. CASE UNCHANGED vars
    BY <2>1, <2>2 DEF vars, cmdVars
  <2>3. CASE \E v \in Layouts : SetLayout(c, v)
    <3>1. alone' = (\A d \in Clients : At(d, "idle"))
      BY <2>3 DEF SetLayout, Begin
    <3>2. alone' \in BOOLEAN
      BY <3>1, Zenon
    <3>3. layout' \in Layouts
          /\ UNCHANGED <<eq, eqStage, loaded, catalogVars, dirVars, bootVars>>
      BY <2>3 DEF SetLayout, Begin
    <3>4. QED
      BY <1>1, <3>2, <3>3 DEF TypeOK, catalogVars, dirVars, bootVars
  <2>4. CASE \E v \in Curves : SetEq(c, v)
    <3>1. alone' = (\A d \in Clients : At(d, "idle"))
      BY <2>4 DEF SetEq, Begin
    <3>2. alone' \in BOOLEAN
      BY <3>1, Zenon
    <3>3. eq' \in Curves
          /\ UNCHANGED <<layout, eqStage, loaded, catalogVars, dirVars, bootVars>>
      BY <2>4 DEF SetEq, Begin
    <3>4. QED
      BY <1>1, <3>2, <3>3 DEF TypeOK, catalogVars, dirVars, bootVars
  <2>5. ASSUME NEW i \in 1 .. MaxCatalogEntries, SetHrtf(c, i)
        PROVE  TypeOK'
    <3>1. /\ alone' = ((\A d \in Clients : At(d, "idle")) /\ ~event /\ scan = None /\ ~missed)
          /\ adrift' = (adrift \/ \E d \in Clients : Choosing(d))
      BY <2>5 DEF SetHrtf
    <3>2. alone' \in BOOLEAN
      BY <3>1, Zenon
    <3>3. adrift' \in BOOLEAN
      BY <3>1, Zenon
    <3>4. UNCHANGED <<forceVars, catalog, activeIndex, scan, dirVars, bootVars>>
      BY <2>5 DEF SetHrtf
    <3>5. QED
      BY <1>1, <3>2, <3>3, <3>4 DEF TypeOK, forceVars, dirVars, bootVars
  <2>6. cmd[c] \in Command /\ CommandOK(c)
    BY DEF CommandsOK
  <2>7. CASE ReadBands(c) \/ TakeStatus(c) \/ SnapshotEq(c) \/ SnapshotName(c)
    BY <2>1, <2>7 DEF ReadBands, TakeStatus, SnapshotEq, SnapshotName
  <2>8. CASE PublishBands(c)
    <3>1. eqStage' \in Curves
          /\ UNCHANGED <<layout, eq, loaded, catalogVars, dirVars, bootVars, alone>>
      BY <2>6, <2>8 DEF PublishBands, At, CommandOK
    <3>2. QED
      BY <1>1, <3>1 DEF TypeOK, catalogVars, dirVars, bootVars
  <2>9. CASE SwitchTo(c)
    <3>1. loaded' \in Entries
          /\ UNCHANGED <<layout, eq, eqStage, catalogVars, dirVars, bootVars, alone>>
      BY <2>6, <2>9 DEF SwitchTo, At, CommandOK
    <3>2. QED
      BY <1>1, <3>1 DEF TypeOK, catalogVars, dirVars, bootVars
  <2>10. CASE StoreIndex(c)
    <3>1. activeIndex' \in 1 .. MaxCatalogEntries
          /\ UNCHANGED <<forceVars, catalog, scan, adrift, dirVars, bootVars, alone>>
      BY <2>6, <2>10 DEF StoreIndex, At, CommandOK
    <3>2. QED
      BY <1>1, <3>1 DEF TypeOK, forceVars, dirVars, bootVars
  <2>11. QED
    BY <1>7, <2>2, <2>3, <2>4, <2>5, <2>7, <2>8, <2>9, <2>10
       DEF HandleControlCommand, RefuseHrtf, GetStatus
<1>8. ASSUME NEW p \in Savers, Save(p)
      PROVE  TypeOK'
  <2>1. /\ UNCHANGED <<forceVars, catalogVars, dirVars, bootVars>>
        /\ alone' = alone \/ alone' = FALSE
    BY <1>8 DEF Save, Continue, RenameTemp, SaveFails, WriteFails, FinishCommand, cmdVars
  <2>2. QED
    BY <1>1, <2>1 DEF TypeOK, forceVars, catalogVars, dirVars, bootVars
<1>9. CASE UNCHANGED vars
  BY <1>1, <1>9 DEF TypeOK, vars, forceVars, catalogVars, dirVars, bootVars, cmdVars
<1>10. QED
  BY <1>3, <1>4, <1>5, <1>6, <1>7, <1>8, <1>9 DEF Next, MainLoop, Savers

-----------------------------------------------------------------------------
(* Phases *)

\* Every step keeps to the phases of Run.
LEMMA PhasesStep ==
  ASSUME TypeOK, CommandsOK, FileOK, PhasesOK, [Next]_vars
  PROVE  PhasesOK'
<1>1. /\ File!TypeOK(Settings) /\ cmd \in [Clients -> Command]
      /\ catalog \in Seq(Entries) /\ Main \in Savers /\ Main \notin Clients
  BY BoundedIs, ThreadsAssumption DEF TypeOK, CommandsOK, Savers
<1>2. CASE Load
  <2>1. 1 \in DOMAIN catalog'
    <3>1. catalog' = Listing(dir)
      BY <1>2 DEF Load
    <3>2. QED
      BY <3>1, ListingType DEF TypeOK
  <2>2. phase = "down" /\ phase' = "watch" /\ UNCHANGED <<scan, cmd, saving, watched, event>>
    BY <1>2 DEF Load, saveVars, dirVars, cmdVars
  <2>3. QED
    BY <2>1, <2>2 DEF PhasesOK
<1>3. CASE WatchAndResolve
  BY <1>3 DEF WatchAndResolve, PhasesOK, saveVars, cmdVars
<1>4. CASE SaveDevice
  BY <1>4 DEF SaveDevice, PhasesOK, catalogVars, dirVars, cmdVars
<1>5. CASE StartServer
  BY <1>5 DEF StartServer, PhasesOK, catalogVars, dirVars, cmdVars, saveVars
<1>6. CASE Kill \/ PowerLoss
  <2>1. /\ phase' = "down" /\ scan' = None /\ watched' = FALSE /\ event' = FALSE
        /\ \A c \in Clients : cmd'[c] = NoCmd
    BY <1>6 DEF Kill, PowerLoss, Ends
  <2>2. saving'[Main] = "no"
    BY <1>1, <1>6, EndKeeps DEF Kill, PowerLoss
  <2>3. QED
    BY <2>1, <2>2, IdleType DEF PhasesOK
<1>7. CASE ChangeDirectory
  BY <1>7 DEF ChangeDirectory, PhasesOK, saveVars, catalogVars, bootVars
<1>8. CASE OnHrtfDirectoryChanged
  BY <1>8, ListingType DEF OnHrtfDirectoryChanged, PhasesOK, TypeOK, saveVars, bootVars, cmdVars
<1>9. CASE SwapCatalog
  <2>1. scan # None /\ scan' = None /\ catalog' = scan
        /\ UNCHANGED <<saveVars, watched, bootVars, event, cmdVars>>
    BY <1>9 DEF SwapCatalog, InstallScan
  <2>2. phase \in {"device", "up"} /\ phase' = phase
    BY <2>1 DEF PhasesOK, bootVars
  <2>3. UNCHANGED <<saving, watched, event>>
    BY <2>1 DEF saveVars
  <2>4. 1 \in DOMAIN catalog'
    BY <2>1, <2>2 DEF PhasesOK
  <2>5. cmd' = cmd
    BY <2>1 DEF cmdVars
  <2>6. QED
    BY <2>1, <2>2, <2>3, <2>4, <2>5 DEF PhasesOK
<1>10. ASSUME NEW c \in Clients, HandleControlCommand(c)
       PROVE  PhasesOK'
  <2>1. CASE UNCHANGED vars
    BY <2>1 DEF vars, PhasesOK, saveVars, catalogVars, dirVars, bootVars, cmdVars
  <2>2. CASE ~ UNCHANGED vars
    <3>1. UNCHANGED <<catalog, scan, dirVars, bootVars>>
      BY <1>10, <2>2 DEF HandleControlCommand, GetStatus, RefuseHrtf, SetLayout, SetEq, SetHrtf,
           ReadBands, PublishBands, SwitchTo, StoreIndex, TakeStatus, SnapshotEq, SnapshotName,
           Begin, catalogVars
    <3>2. phase = "up"
      <4>1. phase = "up" \/ ~At(c, "idle")
        BY <1>10, <2>2 DEF HandleControlCommand, GetStatus, RefuseHrtf, SetLayout, SetEq,
             SetHrtf, ReadBands, PublishBands, SwitchTo, StoreIndex, TakeStatus, SnapshotEq,
             SnapshotName, Begin, At
      <4>2. QED
        BY <4>1 DEF PhasesOK, At
    <3>3. saving'[Main] = saving[Main]
      <4>1. UNCHANGED saving \/ SnapshotName(c)
        BY <1>10, <2>2 DEF HandleControlCommand, GetStatus, RefuseHrtf, SetLayout, SetEq,
             SetHrtf, ReadBands, PublishBands, SwitchTo, StoreIndex, TakeStatus, SnapshotEq,
             Begin, saveVars
      <4>2. CASE SnapshotName(c)
        BY <1>1, <4>2 DEF SnapshotName, File!BeginSave, File!TypeOK
      <4>3. QED
        BY <4>1, <4>2
    <3>4. QED
      BY <3>1, <3>2, <3>3 DEF PhasesOK, dirVars, bootVars
  <2>3. QED
    BY <2>1, <2>2
<1>11. ASSUME NEW p \in Savers, Save(p)
       PROVE  PhasesOK'
  <2>1. UNCHANGED <<catalog, scan, watched, event, phase>>
    BY <1>11 DEF Save, Continue, RenameTemp, SaveFails, WriteFails, catalogVars, dirVars, bootVars
  <2>2. saving[Main] = "no" => saving'[Main] = "no"
    BY <1>1, <1>11, OpenKeeps, WriteKeeps, RenameKeeps, SaveFailsKeeps, WriteFailsKeeps
       DEF Save, Continue, RenameTemp, SaveFails, WriteFails
  <2>3. \A c \in Clients : cmd[c].step = "idle" => cmd'[c].step = "idle"
    <3>1. cmd' = cmd \/ (p \in Clients /\ cmd' = [cmd EXCEPT ![p] = NoCmd])
      BY <1>11 DEF Save, Continue, RenameTemp, SaveFails, WriteFails, FinishCommand, cmdVars
    <3>2. QED
      BY <1>1, <3>1, IdleType
  <2>4. QED
    BY <2>1, <2>2, <2>3 DEF PhasesOK
<1>12. CASE UNCHANGED vars
  BY <1>12 DEF vars, PhasesOK, saveVars, catalogVars, dirVars, bootVars, cmdVars
<1>13. QED
  BY <1>2, <1>3, <1>4, <1>5, <1>6, <1>7, <1>8, <1>9, <1>10, <1>11, <1>12
     DEF Next, Run, MainLoop, Savers

-----------------------------------------------------------------------------
(* The catalog and the index *)

\* No change of the directory is overlooked by any step.
LEMMA ScanStep ==
  ASSUME TypeOK, PhasesOK, ScanOK, [Next]_vars
  PROVE  ScanOK'
<1>1. CASE Load
  BY <1>1 DEF Load, ScanOK, PhasesOK, dirVars
<1>2. CASE WatchAndResolve \/ SaveDevice \/ StartServer
  BY <1>2 DEF WatchAndResolve, SaveDevice, StartServer, ScanOK, catalogVars, dirVars
<1>3. CASE Kill \/ PowerLoss
  BY <1>3 DEF Kill, PowerLoss, Ends, ScanOK
<1>4. CASE ChangeDirectory
  BY <1>4 DEF ChangeDirectory, ScanOK, PhasesOK, bootVars, TypeOK
<1>5. CASE OnHrtfDirectoryChanged
  <2>1. Listing(dir) # None
    BY ListingType DEF TypeOK
  <2>2. QED
    BY <1>5, <2>1 DEF OnHrtfDirectoryChanged, ScanOK
<1>6. CASE SwapCatalog
  BY <1>6 DEF SwapCatalog, InstallScan, ScanOK, bootVars
<1>7. ASSUME NEW c \in Clients, HandleControlCommand(c)
      PROVE  UNCHANGED <<phase, event, missed, dir, scan, catalog>>
  BY <1>7 DEF HandleControlCommand, GetStatus, RefuseHrtf, SetLayout, SetEq, SetHrtf,
       ReadBands, PublishBands, SwitchTo, StoreIndex, TakeStatus, SnapshotEq, SnapshotName,
       Begin, catalogVars, dirVars, bootVars, vars
<1>8. ASSUME NEW p \in Savers, Save(p)
      PROVE  UNCHANGED <<phase, event, missed, dir, scan, catalog>>
  BY <1>8 DEF Save, Continue, RenameTemp, SaveFails, WriteFails, catalogVars, dirVars, bootVars
<1>9. CASE UNCHANGED <<phase, event, missed, dir, scan, catalog>>
  BY <1>9 DEF ScanOK
<1>10. CASE UNCHANGED vars
  BY <1>9, <1>10 DEF vars, catalogVars, dirVars, bootVars
<1>11. QED
  BY <1>1, <1>2, <1>3, <1>4, <1>5, <1>6, <1>7, <1>8, <1>9, <1>10
     DEF Next, Run, MainLoop, Savers

\* The place a rescan gives the active entry is where it is listed.
LEMMA RelocatedIs ==
  ASSUME activeIndex \in DOMAIN catalog, NEW new, catalog[activeIndex] \in ToSet(new)
  PROVE  Relocated(new) \in DOMAIN new /\ new[Relocated(new)] = catalog[activeIndex]
<1> DEFINE same == {i \in DOMAIN new : activeIndex \in DOMAIN catalog
                                       /\ new[i] = catalog[activeIndex]}
<1>1. same # {}
  BY DEF ToSet
<1>2. (CHOOSE i \in same : TRUE) \in same
  BY <1>1
<1>3. Relocated(new) = CHOOSE i \in same : TRUE
  BY <1>1 DEF Relocated
<1> HIDE DEF same
<1>4. Relocated(new) \in same
  BY <1>2, <1>3
<1>5. QED
  BY <1>4 DEF same

\* A client that is not choosing an entry, before and after a step, has no part
\* in what the index is.
LEMMA IndexUnchanged ==
  ASSUME IndexOK, CommandsOK, NEW c \in Clients, cmd' = cmd \/ \E r : cmd' = [cmd EXCEPT ![c] = r],
         cmd' = cmd \/ (~Choosing(c) /\ ~Choosing(c)'),
         UNCHANGED <<phase, adrift, activeIndex, catalog, loaded>>
  PROVE  IndexOK'
<1>1. \A d \in Clients : Choosing(d)' <=> Choosing(d)
  BY DEF CommandsOK, Choosing
<1>2. \A d \in Clients : Choosing(d) => cmd'[d] = cmd[d]
  BY DEF CommandsOK, Choosing
<1>3. QED
  BY <1>1, <1>2 DEF IndexOK

\* The index and the entry in force agree after every step, as far as they do.
LEMMA IndexStep ==
  ASSUME TypeOK, CommandsOK, PhasesOK, IndexOK, [Next]_vars
  PROVE  IndexOK'
<1>1. cmd \in [Clients -> Command]
  BY DEF CommandsOK
<1>2. CASE Load \/ Kill \/ PowerLoss
  BY <1>2 DEF Load, Kill, PowerLoss, Ends, IndexOK
<1>3. CASE WatchAndResolve
  <2> DEFINE saved == {i \in DOMAIN catalog : from # None /\ from.hrtf = catalog[i]}
             i == IF saved = {} THEN 1 ELSE CHOOSE j \in saved : TRUE
  <2>1. phase = "watch" /\ activeIndex' = i /\ loaded' = catalog[i] /\ UNCHANGED <<catalog, cmd>>
    BY <1>3 DEF WatchAndResolve, cmdVars
  <2>2. i \in DOMAIN catalog
    BY <2>1 DEF PhasesOK
  <2> HIDE DEF i
  <2>3. \A c \in Clients : ~Choosing(c)'
    BY <2>1 DEF PhasesOK, Choosing
  <2>4. QED
    BY <2>1, <2>2, <2>3 DEF IndexOK
<1>4. CASE SaveDevice \/ StartServer
  BY <1>4 DEF SaveDevice, StartServer, IndexOK, forceVars, catalogVars, cmdVars, Choosing
<1>5. CASE ChangeDirectory
  BY <1>5 DEF ChangeDirectory, IndexOK, forceVars, catalogVars, bootVars, Choosing
<1>6. CASE OnHrtfDirectoryChanged
  BY <1>6 DEF OnHrtfDirectoryChanged, IndexOK, forceVars, bootVars, cmdVars, Choosing
<1>7. CASE SwapCatalog
  <2>1. /\ scan # None /\ catalog' = scan /\ activeIndex' = Relocated(scan)
        /\ UNCHANGED <<loaded, phase, cmd>>
        /\ adrift' = (adrift \/ catalog[activeIndex] \notin ToSet(scan)
                             \/ \E c \in Clients : Choosing(c))
    BY <1>7 DEF SwapCatalog, InstallScan, forceVars, bootVars, cmdVars
  <2>2. phase \in {"device", "up"}
    BY <2>1 DEF PhasesOK
  <2>3. SUFFICES ASSUME ~adrift'
                 PROVE  /\ activeIndex' \in DOMAIN catalog' /\ catalog'[activeIndex'] = loaded'
                        /\ \A c \in Clients : ~Choosing(c)'
    BY DEF IndexOK
  <2>4. ~adrift /\ catalog[activeIndex] \in ToSet(scan) /\ \A c \in Clients : ~Choosing(c)
    BY <2>1, <2>3, Zenon
  <2>5. activeIndex \in DOMAIN catalog /\ catalog[activeIndex] = loaded
    BY <2>2, <2>4 DEF IndexOK
  <2>6. QED
    BY <2>1, <2>4, <2>5, RelocatedIs DEF Choosing
<1>8. ASSUME NEW c \in Clients, HandleControlCommand(c)
      PROVE  IndexOK'
  <2>1. CASE UNCHANGED vars
    BY <2>1, <1>8, IndexUnchanged DEF vars, forceVars, catalogVars, bootVars, cmdVars
  <2>2. CASE \E v \in Layouts : SetLayout(c, v)
    BY <2>2, <1>1, IdleType, IndexUnchanged, ZenonT(30)
       DEF SetLayout, Begin, At, Choosing, bootVars, catalogVars, Command
  <2>3. CASE \E v \in Curves : SetEq(c, v)
    BY <2>3, <1>1, IdleType, IndexUnchanged, ZenonT(30)
       DEF SetEq, Begin, At, Choosing, bootVars, catalogVars, Command
  <2>4. CASE ReadBands(c) \/ PublishBands(c) \/ TakeStatus(c) \/ SnapshotEq(c) \/ SnapshotName(c)
    <3>1. /\ cmd[c] \in Command
          /\ ~Choosing(c)
          /\ UNCHANGED <<phase, adrift, activeIndex, catalog, loaded>>
      BY <1>1, <2>4 DEF ReadBands, PublishBands, TakeStatus, SnapshotEq, SnapshotName, At,
           Choosing, forceVars, catalogVars, bootVars
    <3>2. PICK r : cmd' = [cmd EXCEPT ![c] = r]
      BY <2>4 DEF ReadBands, PublishBands, TakeStatus, SnapshotEq, SnapshotName
    <3>3. ~Choosing(c)'
      BY <1>1, <2>4, ZenonT(30)
      DEF ReadBands, PublishBands, TakeStatus, SnapshotEq, SnapshotName, At, Choosing, Command
    <3>4. QED
      BY <3>1, <3>2, <3>3, IndexUnchanged
  <2>5. ASSUME NEW i \in 1 .. MaxCatalogEntries, SetHrtf(c, i)
        PROVE  IndexOK'
    <3>1. /\ i \in DOMAIN catalog /\ cmd[c].step = "idle"
          /\ UNCHANGED <<phase, activeIndex, catalog, loaded>>
          /\ adrift' = (adrift \/ \E d \in Clients : Choosing(d))
      BY <2>5 DEF SetHrtf, At, forceVars, bootVars
    <3>2. /\ cmd'[c].step = "switch" /\ cmd'[c].value = i /\ cmd'[c].held = catalog[i]
          /\ \A d \in Clients \ {c} : cmd'[d] = cmd[d]
      BY <1>1, <2>5, IdleType DEF SetHrtf, Command, NoCmd
    <3>3. SUFFICES ASSUME phase \in {"device", "saved", "up"}, ~adrift' PROVE IndexOK'
      BY <3>1 DEF IndexOK
    <3>4. ~adrift /\ \A d \in Clients : ~Choosing(d)
      BY <3>1, <3>3, Zenon
    <3>5. \A d \in Clients \ {c} : ~Choosing(d)'
      BY <3>2, <3>4 DEF Choosing
    <3>6. QED
      BY <3>1, <3>2, <3>3, <3>4, <3>5 DEF IndexOK
  <2>6. CASE SwitchTo(c)
    <3>1. /\ cmd[c].step = "switch" /\ cmd[c].op = "hrtf"
          /\ UNCHANGED <<phase, activeIndex, catalog, adrift>> /\ loaded' = cmd[c].held
      BY <2>6 DEF SwitchTo, At, bootVars, catalogVars, CommandsOK, CommandOK
    <3>2. /\ cmd'[c].step = "index" /\ cmd'[c].op = cmd[c].op
          /\ cmd'[c].held = cmd[c].held /\ cmd'[c].value = cmd[c].value
          /\ \A d \in Clients \ {c} : cmd'[d] = cmd[d]
      BY <1>1, <2>6 DEF SwitchTo, GoTo, Command
    <3>3. QED
      BY <3>1, <3>2 DEF IndexOK, Choosing
  <2>7. CASE StoreIndex(c)
    <3>1. /\ cmd[c].step = "index" /\ cmd[c].op = "hrtf"
          /\ UNCHANGED <<phase, loaded, catalog, adrift>> /\ activeIndex' = cmd[c].value
      BY <2>7 DEF StoreIndex, At, bootVars, forceVars, CommandsOK, CommandOK
    <3>2. cmd'[c].step = "status" /\ \A d \in Clients \ {c} : cmd'[d] = cmd[d]
      BY <1>1, <2>7 DEF StoreIndex, GoTo, Command
    <3>3. QED
      BY <3>1, <3>2 DEF IndexOK, Choosing
  <2>8. QED
    BY <1>8, <2>1, <2>2, <2>3, <2>4, <2>5, <2>6, <2>7
       DEF HandleControlCommand, RefuseHrtf, GetStatus
<1>9. ASSUME NEW p \in Savers, Save(p)
      PROVE  IndexOK'
  <2>1. UNCHANGED <<phase, adrift, activeIndex, catalog, loaded>>
    BY <1>9 DEF Save, Continue, RenameTemp, SaveFails, WriteFails, forceVars, catalogVars, bootVars
  <2>2. CASE cmd' = cmd
    BY <2>1, <2>2 DEF IndexOK, Choosing
  <2>3. CASE p \in Clients /\ cmd' # cmd
    <3>1. cmd' = [cmd EXCEPT ![p] = NoCmd]
      BY <1>9, <2>3 DEF Save, Continue, RenameTemp, SaveFails, WriteFails, FinishCommand, cmdVars
    <3>2. saving[p] # "no"
      BY <1>9, <2>3 DEF Save, Continue, RenameTemp, SaveFails, WriteFails, cmdVars,
           File!RenameTemp, File!OpenFails, File!RenameFails
    <3>3. cmd[p].step = "save"
      BY <2>3, <3>2 DEF CommandsOK, CommandOK
    <3>4. cmd'[p] = NoCmd
      BY <1>1, <2>3, <3>1
    <3>5. QED
      BY <2>1, <2>3, <3>1, <3>3, <3>4, IdleType, IndexUnchanged DEF Choosing
  <2>4. QED
    BY <1>9, <2>2, <2>3
       DEF Save, Continue, RenameTemp, SaveFails, WriteFails, FinishCommand, cmdVars
<1>10. CASE UNCHANGED vars
  BY <1>10 DEF vars, IndexOK, forceVars, catalogVars, bootVars, cmdVars, Choosing
<1>11. QED
  BY <1>2, <1>3, <1>4, <1>5, <1>6, <1>7, <1>8, <1>9, <1>10 DEF Next, Run, MainLoop, Savers

-----------------------------------------------------------------------------
(* One command at a time *)

\* While at most one command is under way, at most one thread saves.
LEMMA LoneSaver ==
  ASSUME CommandsOK, PhasesOK, NEW p \in Savers, saving[p] # "no",
         \A c, d \in Clients : ~At(c, "idle") /\ ~At(d, "idle") => c = d
  PROVE  \A q \in Savers \ {p} : saving[q] = "no" /\ ~Busy(q)
<1>1. \A c \in Clients : saving[c] # "no" => ~At(c, "idle") /\ phase = "up"
  BY DEF CommandsOK, CommandOK, PhasesOK, At
<1>2. saving[Main] # "no" => phase # "up"
  BY DEF PhasesOK
<1>3. QED
  BY <1>1, <1>2 DEF Savers, Busy

\* Saves are orderly, and commands one at a time, whatever step is taken.
LEMMA QuietStep ==
  ASSUME TypeOK, CommandsOK, PhasesOK, FileOK, QuietOK, [Next]_vars
  PROVE  QuietOK'
<1>1. /\ File!TypeOK(Settings) /\ cmd \in [Clients -> Command]
      /\ promised \in [Ops -> Values] /\ Main \in Savers /\ Main \notin Clients
  BY ThreadsAssumption DEF TypeOK, CommandsOK, Savers
<1> SUFFICES ASSUME Quiet'
             PROVE  Orderly' /\ \A c, d \in Clients : ~At(c, "idle")' /\ ~At(d, "idle")' => c = d
  BY DEF QuietOK
<1>2. ASSUME Quiet, UNCHANGED <<saveVars, cmd>>
      PROVE  Orderly' /\ \A c, d \in Clients : ~At(c, "idle")' /\ ~At(d, "idle")' => c = d
  BY <1>2 DEF QuietOK, Orderly, Busy, saveVars, At
<1>3. CASE UNCHANGED <<saveVars, cmd, promised, alone>>
  BY <1>2, <1>3 DEF Quiet
<1>4. CASE Load \/ WatchAndResolve \/ StartServer \/ MainLoop \/ UNCHANGED vars
  BY <1>3, <1>4 DEF Load, WatchAndResolve, StartServer, MainLoop, OnHrtfDirectoryChanged,
                    SwapCatalog, InstallScan, cmdVars, vars
<1>5. CASE SaveDevice
  <2>1. ToSave \in Settings /\ UNCHANGED <<cmd, promised, alone>>
    BY <1>5, DefaultsType DEF ToSave, TypeOK, SaveDevice, cmdVars
  <2>2. Quiet
    BY <2>1 DEF Quiet
  <2>3. Orderly'
    BY <1>1, <1>5, <2>1, <2>2, BeginSaveKeeps DEF QuietOK, SaveDevice
  <2>4. QED
    BY <2>1, <2>2, <2>3 DEF QuietOK, At
<1>6. CASE Kill \/ PowerLoss
  <2>1. Orderly' /\ \A c \in Clients : cmd'[c] = NoCmd
    BY <1>1, <1>6, EndKeeps DEF Kill, PowerLoss, Ends
  <2>2. QED
    BY <2>1, IdleType DEF At
<1>7. CASE ChangeDirectory
  <2>1. UNCHANGED <<saveVars, cmd>>
    BY <1>7 DEF ChangeDirectory
  <2>2. Quiet
    <3>1. promised' = [promised EXCEPT !.hrtf = None] /\ (alone' => alone)
      BY <1>7 DEF ChangeDirectory
    <3>2. QED
      BY <1>1, <3>1 DEF Quiet, Ops
  <2>3. QED
    BY <1>2, <2>1, <2>2
<1>8. ASSUME NEW c \in Clients, HandleControlCommand(c)
      PROVE  Orderly' /\ \A d, e \in Clients : ~At(d, "idle")' /\ ~At(e, "idle")' => d = e
  <2>1. CASE UNCHANGED vars
    BY <1>4, <2>1
  <2>2. ASSUME phase = "up", \E r : cmd' = [cmd EXCEPT ![c] = r], UNCHANGED saveVars,
               \/ \A d \in Clients : At(d, "idle")
               \/ promised' = Nothing /\ ~alone'
        PROVE  Orderly' /\ \A d, e \in Clients : ~At(d, "idle")' /\ ~At(e, "idle")' => d = e
    <3>1. \A d \in Clients : At(d, "idle")
      BY <2>2 DEF Quiet, Nothing
    <3>2. \A p \in Savers : saving[p] = "no"
      BY <2>2, <3>1 DEF CommandsOK, CommandOK, PhasesOK, At, Savers
    <3>3. Orderly'
      BY <2>2, <3>2 DEF Orderly, Busy, saveVars
    <3>4. \A d \in Clients \ {c} : cmd'[d] = cmd[d]
      BY <1>1, <2>2
    <3>5. QED
      BY <3>1, <3>3, <3>4 DEF At
  <2>3. CASE \E v \in Layouts : SetLayout(c, v)
    BY <2>2, <2>3 DEF SetLayout, Begin
  <2>4. CASE \E v \in Curves : SetEq(c, v)
    BY <2>2, <2>4 DEF SetEq, Begin
  <2>5. CASE \E i \in 1 .. MaxCatalogEntries : SetHrtf(c, i)
    BY <2>2, <2>5 DEF SetHrtf
  <2>6. ASSUME UNCHANGED <<promised, alone>>, \E r : cmd' = [cmd EXCEPT ![c] = r], ~At(c, "idle")
        PROVE  Quiet /\ \A d, e \in Clients : ~At(d, "idle")' /\ ~At(e, "idle")' => d = e
    <3>1. Quiet
      BY <2>6 DEF Quiet
    <3>2. \A d \in Clients \ {c} : cmd'[d] = cmd[d]
      BY <1>1, <2>6
    <3>3. \A d \in Clients \ {c} : At(d, "idle")
      BY <2>6, <3>1 DEF QuietOK
    <3>4. QED
      BY <3>1, <3>2, <3>3 DEF At
  <2>7. CASE ReadBands(c) \/ PublishBands(c) \/ SwitchTo(c) \/ StoreIndex(c) \/ TakeStatus(c)
             \/ SnapshotEq(c)
    <3>1. /\ UNCHANGED <<promised, alone, saveVars>> /\ \E r : cmd' = [cmd EXCEPT ![c] = r]
          /\ ~At(c, "idle")
      BY <2>7 DEF ReadBands, PublishBands, SwitchTo, StoreIndex, TakeStatus, SnapshotEq, GoTo, At
    <3>2. QED
      BY <2>6, <3>1 DEF QuietOK, Orderly, Busy, saveVars
  <2>8. CASE SnapshotName(c)
    <3>1. /\ UNCHANGED <<promised, alone>> /\ \E r : cmd' = [cmd EXCEPT ![c] = r]
          /\ ~At(c, "idle")
      BY <2>8 DEF SnapshotName, At
    <3>2. Orderly'
      BY <1>1, <2>6, <2>8, <3>1, SnapshotType, BeginSaveKeeps DEF SnapshotName, QuietOK, Savers
    <3>3. QED
      BY <2>6, <3>1, <3>2
  <2>9. QED
    BY <1>8, <2>1, <2>3, <2>4, <2>5, <2>7, <2>8 DEF HandleControlCommand, RefuseHrtf, GetStatus
<1>9. ASSUME NEW p \in Savers, Save(p)
      PROVE  Orderly' /\ \A d, e \in Clients : ~At(d, "idle")' /\ ~At(e, "idle")' => d = e
  <2>1. ~WriteFails(p)
    BY DEF WriteFails, Quiet, Nothing
  <2>2. saving[p] # "no"
    BY <1>9 DEF Save, Continue, RenameTemp, SaveFails, WriteFails, File!OpenTemp, File!Truncate,
         File!WriteText, File!RenameTemp, File!OpenFails, File!RenameFails, File!WriteFails
  <2>3. Quiet
    <3>1. alone' = alone /\ (promised' = promised \/ alone)
      BY <1>9, <2>1 DEF Save, Continue, RenameTemp, SaveFails, FinishCommand, cmdVars
    <3>2. QED
      BY <3>1 DEF Quiet
  <2>4. Orderly /\ \A q \in Savers \ {p} : ~Busy(q)
    BY <2>2, <2>3, LoneSaver DEF QuietOK
  <2>5. Orderly'
    <3>1. CASE File!OpenTemp(p)
      BY <1>1, <2>4, <3>1, OpenKeeps
    <3>2. CASE File!WriteText(p)
      BY <1>1, <2>4, <3>2, WriteKeeps
    <3>3. CASE File!RenameTemp(p)
      BY <1>1, <2>4, <3>3, RenameKeeps
    <3>4. CASE File!OpenFails(p) \/ File!RenameFails(p)
      BY <1>1, <2>4, <3>4, SaveFailsKeeps
    <3>5. QED
      BY <1>9, <2>1, <3>1, <3>2, <3>3, <3>4 DEF Save, Continue, RenameTemp, SaveFails
  <2>6. \A d \in Clients : At(d, "idle") => At(d, "idle")'
    <3>1. cmd' = cmd \/ (p \in Clients /\ cmd' = [cmd EXCEPT ![p] = NoCmd])
      BY <1>9 DEF Save, Continue, RenameTemp, SaveFails, WriteFails, FinishCommand, cmdVars
    <3>2. QED
      BY <1>1, <3>1, IdleType DEF At
  <2>7. QED
    BY <2>3, <2>5, <2>6 DEF QuietOK
<1>10. QED
  BY <1>4, <1>5, <1>6, <1>7, <1>8, <1>9 DEF Next, Run, Savers

-----------------------------------------------------------------------------
(* Promises are kept *)

\* While no command is under way, what is promised is not on its way anywhere.
LEMMA IdleCarries ==
  ASSUME CommandsOK, NEW op \in Ops, NEW v, \A c \in Clients : cmd[c].step = "idle"
  PROVE  \A c \in Clients : cmd[c].op # op /\ Carried(c, op, v)
  BY NoneAssumption DEF CommandsOK, CommandOK, Carried

\* Run puts what is promised in force again.
LEMMA KeptByRun ==
  ASSUME IInv, Run, CommandsOK', PhasesOK'
  PROVE  AloneOK' /\ KeptOK'
<1>1. /\ phase # "up" /\ scan = None /\ (\A c \in Clients : cmd[c].step = "idle")
      /\ UNCHANGED <<cmd, promised, alone, scan, dir, event>>
  BY DEF Run, Load, WatchAndResolve, SaveDevice, StartServer, cmdVars, dirVars, catalogVars,
         IInv, PhasesOK
<1>2. AloneOK'
  BY <1>1 DEF IInv, AloneOK
<1>3. SUFFICES ASSUME NEW op \in Ops, promised[op] # None
               PROVE  Kept(op)'
  BY <1>1, <1>2 DEF KeptOK
<1> DEFINE v == promised[op]
<1>4. Kept(op)
  BY <1>3 DEF IInv, KeptOK
<1>5. /\ File!TypeOK(Settings) /\ FileOK /\ Main \in Savers /\ Main \notin Clients
      /\ v \in Values
  BY ThreadsAssumption DEF IInv, TypeOK, Savers, CommandsOK
<1>6. \A c \in Clients : (cmd[c].op # op /\ Carried(c, op, v))'
  <2>1. \A c \in Clients : cmd'[c].step = "idle"
    BY <1>1
  <2>2. \A c \in Clients : cmd'[c].op # op /\ Carried(c, op, promised[op])'
    BY <1>1, <2>1, NoneAssumption DEF CommandsOK, CommandOK, Carried
  <2>3. QED
    BY <2>2
<1>7. op = "hrtf" => v \in ToSet(Listing(dir))
  BY <1>4 DEF Kept
<1>8. CASE Load
  <2>1. File!Exists /\ File!Stored # None /\ File!Stored[op] = v
    BY <1>4 DEF Kept, Written
  <2> DEFINE stored == File!Stored
  <2>2. /\ phase = "down" /\ phase' = "watch" /\ from' = stored
        /\ layout' = stored.layout /\ eq' = stored.eq /\ eqStage' = stored.eq
        /\ catalog' = Listing(dir) /\ UNCHANGED saveVars
    BY <1>8, <2>1 DEF Load
  <2>3. ~event /\ saving[Main] = "no" /\ saving' = saving
    BY <2>2 DEF IInv, PhasesOK, TypeOK, saveVars
  <2>4. Written(op, v)'
    BY <1>1, <2>1, <2>2 DEF Written, saveVars, File!Exists, File!Stored
  <2>5. Starting(op, v)'
    <3>1. op = "layout" => layout' = v
      BY <2>1, <2>2
    <3>2. op = "eq" => eq' = v /\ eqStage' = v
      BY <2>1, <2>2
    <3> HIDE DEF stored
    <3>3. from' # None /\ from'[op] = v
      BY <2>1, <2>2 DEF stored
    <3>4. QED
      BY <1>1, <2>2, <2>3, <3>1, <3>2, <3>3 DEF Starting, InForce
  <2>6. QED
    BY <1>1, <1>6, <1>7, <2>2, <2>4, <2>5 DEF Kept
<1>9. CASE WatchAndResolve
  <2> DEFINE saved == {i \in DOMAIN catalog : from # None /\ from.hrtf = catalog[i]}
             j == IF saved = {} THEN 1 ELSE CHOOSE i \in saved : TRUE
  <2>1. /\ phase = "watch" /\ phase' = "device" /\ activeIndex' = j /\ loaded' = catalog[j]
        /\ UNCHANGED <<saveVars, layout, eq, eqStage, catalog, from>>
    BY <1>9 DEF WatchAndResolve
  <2>2. Starting(op, v)
    BY <1>4 DEF Kept
  <2>3. /\ from # None /\ from[op] = v
        /\ IF op = "hrtf" THEN ~event /\ scan = None /\ catalog = Listing(dir) ELSE InForce(op, v)
    BY <2>1, <2>2 DEF Starting
  <2>4. op = "hrtf" => j \in DOMAIN catalog /\ catalog[j] = v
    <3>1. op = "hrtf" => saved # {}
      BY <1>7, <2>3 DEF ToSet
    <3>2. saved # {} => j \in saved
      OBVIOUS
    <3> HIDE DEF j
    <3>3. QED
      BY <2>3, <3>1, <3>2
  <2> HIDE DEF j
  <2>5. InForce(op, v)'
    BY <1>1, <2>1, <2>3, <2>4 DEF InForce
  <2>6. saving'[Main] = "no"
    BY <2>1 DEF IInv, PhasesOK, saveVars
  <2>7. Starting(op, v)'
    BY <1>1, <2>1, <2>3, <2>5, <2>6 DEF Starting
  <2>8. Written(op, v)'
    BY <1>1, <1>4, <2>1 DEF Kept, Written, saveVars, File!Exists, File!Stored
  <2>9. QED
    BY <1>1, <1>6, <1>7, <2>1, <2>7, <2>8 DEF Kept
<1>10. CASE SaveDevice
  <2>1. /\ phase = "device" /\ phase' = "saved" /\ File!BeginSave(Main, ToSave)
        /\ UNCHANGED <<forceVars, catalogVars, from>>
    BY <1>10 DEF SaveDevice
  <2>2. from # None /\ from[op] = v /\ InForce(op, v)
    BY <1>4, <2>1 DEF Kept, Starting
  <2>3. ToSave = from /\ ToSave \in Settings
    BY <2>2 DEF ToSave, IInv, TypeOK
  <2>4. text'[Main] = from /\ (File!Exists' <=> File!Exists) /\ File!Stored' = File!Stored
    BY <1>5, <2>1, <2>3, BeginSaveKeeps
  <2>5. InForce(op, v)'
    BY <1>1, <2>1, <2>2 DEF InForce, forceVars, catalogVars
  <2>6. Starting(op, v)'
    BY <1>1, <2>1, <2>2, <2>4, <2>5 DEF Starting
  <2>7. Written(op, v)'
    BY <1>1, <1>4, <2>4 DEF Kept, Written
  <2>8. QED
    BY <1>1, <1>6, <1>7, <2>1, <2>6, <2>7 DEF Kept
<1>11. CASE StartServer
  <2>1. /\ phase \in {"device", "saved"} /\ phase' = "up"
        /\ UNCHANGED <<saveVars, forceVars, catalogVars>>
    BY <1>11 DEF StartServer
  <2>2. saving'[Main] = "no"
    BY <2>1 DEF PhasesOK
  <2>3. InForce(op, v)'
    BY <1>1, <1>4, <2>1 DEF Kept, Starting, InForce, forceVars, catalogVars
  <2>4. Written(op, v)'
    BY <1>1, <1>4, <2>1 DEF Kept, Written, saveVars, File!Exists, File!Stored
  <2>5. QED
    BY <1>1, <1>6, <1>7, <2>1, <2>2, <2>3, <2>4 DEF Kept, Starting
<1>12. QED
  BY <1>8, <1>9, <1>10, <1>11 DEF Run

\* A kill leaves what is promised in the file, and a power loss promises nothing.
LEMMA KeptByEnd ==
  ASSUME IInv, Kill \/ PowerLoss, CommandsOK', PhasesOK'
  PROVE  AloneOK' /\ KeptOK'
<1>1. /\ phase' = "down" /\ alone' = FALSE /\ dir' = dir
      /\ (Kill /\ promised' = promised) \/ promised' = Nothing
      /\ \A c \in Clients : cmd'[c] = NoCmd
  BY DEF Kill, PowerLoss, Ends
<1>2. AloneOK'
  BY <1>1 DEF AloneOK
<1>3. SUFFICES ASSUME Kill, promised' = promised, NEW op \in Ops, promised[op] # None
               PROVE  Kept(op)'
  BY <1>1, <1>2 DEF KeptOK, Nothing
<1>4. Kept(op)
  BY <1>3 DEF IInv, KeptOK
<1>5. /\ (File!Exists' <=> File!Exists) /\ File!Stored' = File!Stored /\ saving'[Main] = "no"
  BY <1>3, EndKeeps DEF Kill, IInv, TypeOK, Savers
<1>6. Written(op, promised[op])'
  BY <1>3, <1>4, <1>5 DEF Kept, Written
<1>7. \A c \in Clients : (cmd[c].op # op /\ Carried(c, op, promised[op]))'
  BY <1>1, IdleType, NoneAssumption DEF Carried
<1>8. QED
  BY <1>1, <1>3, <1>4, <1>5, <1>6, <1>7 DEF Kept, Starting

\* A change of the directory takes back what was promised of an entry of it.
LEMMA KeptByChange ==
  ASSUME IInv, ChangeDirectory
  PROVE  AloneOK' /\ KeptOK'
<1>1. /\ UNCHANGED <<saveVars, forceVars, catalogVars, phase, from, cmd>>
      /\ promised' = [promised EXCEPT !.hrtf = None]
      /\ alone' = (alone /\ \A c \in Clients : cmd[c].op # "hrtf")
  BY DEF ChangeDirectory, bootVars
<1>2. AloneOK'
  <2> SUFFICES ASSUME alone', NEW c \in Clients, ~At(c, "idle")'
               PROVE  phase' = "up" /\ OnItsWay(c)'
    BY <1>1, Zenon DEF AloneOK, IInv
  <2>1. alone /\ cmd[c].op # "hrtf"
    BY <1>1, Zenon
  <2>2. phase = "up" /\ OnItsWay(c)
    BY <1>1, <2>1 DEF IInv, AloneOK, At
  <2>3. QED
    BY <1>1, <2>1, <2>2 DEF OnItsWay, InForce, Carried, Wanted, forceVars, catalogVars, saveVars
<1>3. ASSUME NEW op \in Ops, promised'[op] # None
      PROVE  Kept(op)'
  <2>1. promised \in [Ops -> Values]
    BY DEF IInv, CommandsOK
  <2>2. op # "hrtf" /\ promised'[op] = promised[op]
    BY <1>1, <1>3, <2>1
  <2>3. Kept(op)
    BY <1>3, <2>2 DEF IInv, KeptOK
  <2>4. \A c \in Clients : (cmd[c].op # op /\ Carried(c, op, promised[op]))'
    BY <1>1, <2>2, <2>3 DEF Kept, Carried, saveVars
  <2>5. phase' = "up" => InForce(op, promised[op])'
    BY <1>1, <2>2, <2>3 DEF Kept, InForce, forceVars
  <2>6. Starting(op, promised[op])'
    BY <1>1, <2>2, <2>3 DEF Kept, Starting, InForce, forceVars, saveVars
  <2>7. Written(op, promised[op])'
    BY <1>1, <2>2, <2>3 DEF Kept, Written, saveVars, File!Exists, File!Stored
  <2>8. QED
    BY <2>2, <2>4, <2>5, <2>6, <2>7 DEF Kept
<1>4. QED
  BY <1>2, <1>3 DEF KeptOK

\* A rescan finds no entry promised that it could move.
LEMMA KeptByMainLoop ==
  ASSUME IInv, MainLoop
  PROVE  AloneOK' /\ KeptOK'
<1>1. /\ UNCHANGED <<saveVars, forceVars, phase, from, cmd, promised, alone, dir>>
      /\ event \/ scan # None
  BY DEF MainLoop, OnHrtfDirectoryChanged, SwapCatalog, InstallScan, bootVars, cmdVars
<1>2. phase \in {"device", "up"} /\ phase' = phase
  BY <1>1 DEF MainLoop, OnHrtfDirectoryChanged, SwapCatalog, InstallScan, IInv, PhasesOK
<1>3. AloneOK'
  <2> SUFFICES ASSUME alone', NEW c \in Clients, ~At(c, "idle")'
               PROVE  OnItsWay(c)'
    BY <1>1 DEF AloneOK, IInv, At
  <2>1. OnItsWay(c)
    BY <1>1 DEF IInv, AloneOK, At
  <2>2. cmd[c].op # "hrtf"
    BY <1>1, <2>1 DEF OnItsWay
  <2>3. QED
    BY <1>1, <2>1, <2>2 DEF OnItsWay, InForce, Carried, Wanted, forceVars, saveVars
<1>4. ASSUME NEW op \in Ops, promised'[op] # None
      PROVE  Kept(op)'
  <2>1. Kept(op)
    BY <1>1, <1>4 DEF IInv, KeptOK
  <2>2. op # "hrtf"
    BY <1>1, <1>2, <2>1 DEF Kept, Starting, InForce
  <2>3. \A c \in Clients : (cmd[c].op # op /\ Carried(c, op, promised[op]))'
    BY <1>1, <2>1, <2>2 DEF Kept, Carried, saveVars
  <2>4. InForce(op, promised[op])'
    BY <1>1, <1>2, <2>1, <2>2 DEF Kept, Starting, InForce, forceVars
  <2>5. Starting(op, promised[op])'
    BY <1>1, <1>2, <2>1, <2>4 DEF Kept, Starting, saveVars
  <2>6. Written(op, promised[op])'
    BY <1>1, <2>1 DEF Kept, Written, saveVars, File!Exists, File!Stored
  <2>7. QED
    BY <2>2, <2>3, <2>4, <2>5, <2>6 DEF Kept
<1>5. QED
  BY <1>3, <1>4 DEF KeptOK

\* What is kept while the daemon is up.
LEMMA KeptUp ==
  ASSUME NEW op \in Ops, phase' = "up", saving'[Main] = "no",
         \A c \in Clients : (cmd[c].op # op /\ Carried(c, op, promised[op]))',
         InForce(op, promised[op])', Written(op, promised[op])',
         op = "hrtf" => promised'[op] \in ToSet(Listing(dir'))
  PROVE  Kept(op)'
  BY DEF Kept, Starting

\* The files and the directory while a command is carried out, but for its save.
LEMMA WrittenUnchanged ==
  ASSUME NEW op \in Ops, promised'[op] = promised[op], Written(op, promised[op]),
         File!Exists' <=> File!Exists, File!Exists => File!Stored' = File!Stored
  PROVE  Written(op, promised[op])'
  BY DEF Written

\* A new command takes its own setting's promise back, or all of them.
LEMMA KeptByBegin ==
  ASSUME IInv, PhasesOK', NEW c \in Clients, At(c, "idle"), phase = "up",
         UNCHANGED <<saveVars, bootVars, catalog, activeIndex, scan, dirVars>>,
         NEW r \in Command, cmd' = [cmd EXCEPT ![c] = r],
         r.step \in {"status", "bands", "switch"}, r.op \in Ops,
         alone' => \A d \in Clients : At(d, "idle"),
         promised' \in {Nothing, [promised EXCEPT ![r.op] = None]},
         promised' # Nothing => \A d \in Clients : At(d, "idle"),
         r.op # "layout" => layout' = layout,
         r.op # "eq" => UNCHANGED <<eq, eqStage>>,
         loaded' = loaded,
         alone' => OnItsWay(c)'
  PROVE  AloneOK' /\ KeptOK'
<1>1. /\ cmd \in [Clients -> Command] /\ promised \in [Ops -> Values] /\ phase' = "up"
      /\ UNCHANGED <<saving, text, dir, event>>
  BY DEF IInv, CommandsOK, bootVars, saveVars, dirVars
<1>2. cmd'[c] = r /\ \A d \in Clients \ {c} : cmd'[d] = cmd[d]
  BY <1>1
<1>3. AloneOK'
  BY <1>1, <1>2 DEF AloneOK, At
<1>4. ASSUME NEW op \in Ops, promised'[op] # None
      PROVE  Kept(op)'
  <2>1. promised' # Nothing
    BY <1>4 DEF Nothing
  <2>2. promised' = [promised EXCEPT ![r.op] = None]
    BY <2>1
  <2>3. op # r.op /\ promised'[op] = promised[op]
    BY <1>1, <1>4, <2>2
  <2>4. Kept(op)
    BY <1>4, <2>3 DEF IInv, KeptOK
  <2>5. \A d \in Clients : (cmd[d].op # op /\ Carried(d, op, promised[op]))'
    <3> SUFFICES ASSUME NEW d \in Clients
                 PROVE  (cmd[d].op # op /\ Carried(d, op, promised[op]))'
      OBVIOUS
    <3>1. CASE d = c
      BY <1>2, <2>3, <3>1 DEF Carried
    <3>2. CASE d # c
      BY <1>1, <1>2, <2>3, <2>4, <3>2 DEF Kept, Carried
    <3>3. QED
      BY <3>1, <3>2
  <2>6. InForce(op, promised[op])'
    BY <1>1, <2>3, <2>4 DEF Kept, InForce
  <2>7. Written(op, promised[op])'
    BY <2>3, <2>4 DEF Kept, Written, saveVars, File!Exists, File!Stored
  <2>8. op = "hrtf" => promised'[op] \in ToSet(Listing(dir'))
    BY <1>1, <2>3, <2>4 DEF Kept
  <2>9. saving'[Main] = "no"
    BY <1>1 DEF PhasesOK
  <2>10. QED
    BY <1>1, <2>5, <2>6, <2>7, <2>8, <2>9, KeptUp
<1>5. QED
  BY <1>3, <1>4 DEF KeptOK

\* A further step of a command leaves in force what is promised, and takes what
\* it sets on its way.
LEMMA KeptByGoOn ==
  ASSUME IInv, PhasesOK', NEW c \in Clients, ~At(c, "idle"),
         File!Exists' <=> File!Exists, File!Exists => File!Stored' = File!Stored,
         \A d \in Clients \ {c} : text'[d] = text[d],
         UNCHANGED <<bootVars, catalog, scan, dirVars, promised, alone, layout, eq>>,
         NEW r \in Command, cmd' = [cmd EXCEPT ![c] = r], r.op = cmd[c].op,
         r.op # "eq" => eqStage' = eqStage,
         r.op # "hrtf" => UNCHANGED <<loaded, activeIndex>>,
         \A op \in Ops : op # r.op /\ Carried(c, op, promised[op]) /\ InForce(op, promised[op])
                           => Carried(c, op, promised[op])',
         alone /\ OnItsWay(c) => OnItsWay(c)'
  PROVE  AloneOK' /\ KeptOK'
<1>1. /\ cmd \in [Clients -> Command] /\ phase' = "up" /\ phase = "up"
      /\ UNCHANGED <<dir, event>>
  BY DEF IInv, CommandsOK, PhasesOK, bootVars, dirVars, At
<1>2. cmd'[c] = r /\ \A d \in Clients \ {c} : cmd'[d] = cmd[d]
  BY <1>1
<1>3. AloneOK'
  <2> SUFFICES ASSUME alone, NEW d \in Clients, ~At(d, "idle")'
               PROVE  OnItsWay(d)'
    BY <1>1 DEF AloneOK
  <2>1. d = c
    BY <1>2 DEF IInv, QuietOK, Quiet, At
  <2>2. OnItsWay(c)
    BY DEF IInv, AloneOK
  <2>3. QED
    BY <2>1, <2>2
<1>4. ASSUME NEW op \in Ops, promised'[op] # None
      PROVE  Kept(op)'
  <2>1. promised'[op] = promised[op] /\ Kept(op)
    BY <1>4 DEF IInv, KeptOK
  <2>2. op # r.op /\ InForce(op, promised[op])
    BY <1>1, <2>1 DEF Kept
  <2>3. \A d \in Clients : (cmd[d].op # op /\ Carried(d, op, promised[op]))'
    <3> SUFFICES ASSUME NEW d \in Clients
                 PROVE  (cmd[d].op # op /\ Carried(d, op, promised[op]))'
      OBVIOUS
    <3>1. CASE d = c
      BY <1>2, <2>1, <2>2, <3>1 DEF Kept
    <3>2. CASE d # c
      BY <1>1, <1>2, <2>1, <3>2 DEF Kept, Carried
    <3>3. QED
      BY <3>1, <3>2
  <2>4. InForce(op, promised[op])'
    BY <1>1, <2>1, <2>2 DEF InForce
  <2>5. Written(op, promised[op])'
    BY <2>1, WrittenUnchanged DEF Kept
  <2>6. op = "hrtf" => promised'[op] \in ToSet(Listing(dir'))
    BY <1>1, <2>1 DEF Kept
  <2>7. saving'[Main] = "no"
    BY <1>1 DEF PhasesOK
  <2>8. QED
    BY <1>1, <2>3, <2>4, <2>5, <2>6, <2>7, KeptUp
<1>5. QED
  BY <1>3, <1>4 DEF KeptOK

\* Every step of a command keeps what is promised.
LEMMA KeptByCommand ==
  ASSUME IInv, PhasesOK', NEW c \in Clients, HandleControlCommand(c)
  PROVE  AloneOK' /\ KeptOK'
<1>1. /\ cmd \in [Clients -> Command] /\ cmd[c] \in Command /\ CommandOK(c)
      /\ promised \in [Ops -> Values] /\ File!TypeOK(Settings) /\ FileOK
      /\ catalog \in Seq(Entries) /\ MaxCatalogEntries \in Nat
  BY BoundedIs, CatalogAssumption DEF IInv, CommandsOK, TypeOK
<1>2. CASE UNCHANGED vars
  BY <1>2 DEF IInv, vars, saveVars, forceVars, catalogVars, dirVars, bootVars, cmdVars,
       AloneOK, KeptOK, Kept, OnItsWay, InForce, Carried, Written, Starting, Wanted, At,
       File!Exists, File!Stored
<1>3. ASSUME NEW op \in {"layout", "eq"}, NEW v \in Layouts \cup Curves,
             NEW step \in {"status", "bands"}, Begin(c, op, v, step),
             UNCHANGED <<catalogVars, dirVars, loaded>>,
             op # "layout" => layout' = layout,
             op # "eq" => UNCHANGED <<eq, eqStage>>,
             step = "bands" => op = "eq" /\ eq' = v,
             step = "status" => op = "layout" /\ layout' = v
      PROVE  AloneOK' /\ KeptOK'
  <2> DEFINE r == [NoCmd EXCEPT !.step = step, !.op = op, !.value = v]
  <2>1. r \in Command /\ r.step = step /\ r.op = op /\ r.value = v
    BY <1>3, IdleType DEF NoCmd, Command, Steps, Ops, Values
  <2>2. /\ cmd' = [cmd EXCEPT ![c] = r] /\ UNCHANGED <<saveVars, bootVars>>
        /\ At(c, "idle") /\ phase = "up"
        /\ alone' = (\A d \in Clients : At(d, "idle"))
        /\ promised' = IF alone' THEN [promised EXCEPT ![op] = None] ELSE Nothing
    BY <1>3 DEF Begin
  <2> HIDE DEF r
  <2>3. cmd'[c] = r
    BY <1>1, <2>2
  <2>4. OnItsWay(c)'
    BY <1>3, <2>1, <2>3 DEF OnItsWay, InForce, Carried, Wanted
  <2>5. alone' => \A d \in Clients : At(d, "idle")
    BY <2>2, Zenon
  <2>6. UNCHANGED <<catalog, activeIndex, scan>>
    BY <1>3 DEF catalogVars
  <2>7. promised' # Nothing => alone'
    BY <2>2
  <2>8. promised' \in {Nothing, [promised EXCEPT ![r.op] = None]}
    BY <2>1, <2>2
  <2>9. r.op \in Ops
    BY <2>1 DEF Ops
  <2>10. QED
    BY <1>3, <2>1, <2>2, <2>4, <2>5, <2>6, <2>7, <2>8, <2>9, KeptByBegin
<1>4. CASE \E v \in Layouts : SetLayout(c, v)
  BY <1>3, <1>4 DEF SetLayout
<1>5. CASE \E v \in Curves : SetEq(c, v)
  BY <1>3, <1>5 DEF SetEq
<1>6. ASSUME NEW i \in 1 .. MaxCatalogEntries, SetHrtf(c, i)
      PROVE  AloneOK' /\ KeptOK'
  <2> DEFINE r == [NoCmd EXCEPT !.step = "switch", !.op = "hrtf", !.value = i,
                                !.held = catalog[i]]
             idle == \A d \in Clients : At(d, "idle")
  <2>1. catalog[i] \in Values /\ i \in Values /\ i \in DOMAIN catalog
    BY <1>1, <1>6 DEF SetHrtf, Values
  <2>2. /\ r \in Command /\ r.step = "switch" /\ r.op = "hrtf" /\ r.value = i
        /\ r.held = catalog[i]
    BY <2>1, IdleType DEF NoCmd, Command, Steps, Ops
  <2>3. /\ cmd' = [cmd EXCEPT ![c] = r]
        /\ UNCHANGED <<saveVars, forceVars, catalog, activeIndex, scan, dirVars, bootVars>>
        /\ At(c, "idle") /\ phase = "up"
        /\ alone' = (idle /\ ~event /\ scan = None /\ ~missed)
        /\ promised' = IF idle THEN [promised EXCEPT !.hrtf = None] ELSE Nothing
    BY <1>6 DEF SetHrtf
  <2> HIDE DEF r
  <2>4. cmd'[c] = r
    BY <1>1, <2>3
  <2>5. alone' => idle /\ ~event /\ scan = None /\ ~missed
    BY <2>3, Zenon
  <2>6. alone' => OnItsWay(c)'
    <3>1. alone' => catalog = Listing(dir)
      BY <2>3, <2>5 DEF IInv, ScanOK
    <3>2. QED
      BY <2>1, <2>2, <2>3, <2>4, <2>5, <3>1 DEF OnItsWay, dirVars
  <2>7. promised' # Nothing => idle
    BY <2>3
  <2>8. promised' \in {Nothing, [promised EXCEPT ![r.op] = None]}
    BY <2>2, <2>3
  <2>9. r.op \in Ops /\ UNCHANGED <<layout, eq, eqStage, loaded>>
    BY <2>2, <2>3 DEF Ops, forceVars
  <2>10. QED
    BY <2>2, <2>3, <2>5, <2>6, <2>7, <2>8, <2>9, KeptByBegin
<1>7. ASSUME UNCHANGED saveVars
      PROVE  /\ File!Exists' <=> File!Exists
             /\ File!Exists => File!Stored' = File!Stored
             /\ \A d \in Clients : text'[d] = text[d]
  BY <1>7 DEF saveVars, File!Exists, File!Stored
<1>8. CASE ReadBands(c)
  <2> DEFINE r == [cmd[c] EXCEPT !.step = "publish", !.held = eq]
  <2>1. r \in Command /\ r.step = "publish" /\ r.op = cmd[c].op /\ r.value = cmd[c].value
        /\ r.held = eq
    BY <1>1 DEF Command, Steps, Values, IInv, TypeOK
  <2>2. /\ cmd' = [cmd EXCEPT ![c] = r] /\ cmd[c].step = "bands" /\ r.op = "eq"
        /\ UNCHANGED <<saveVars, layout, eq, eqStage, loaded, catalog, activeIndex, scan, dirVars,
                       bootVars, promised, alone>>
    BY <1>1, <1>8, <2>1 DEF ReadBands, At, CommandOK, forceVars, catalogVars
  <2> HIDE DEF r
  <2>3. cmd'[c] = r
    BY <1>1, <2>2
  <2>4. OnItsWay(c) => OnItsWay(c)'
    BY <2>1, <2>2, <2>3 DEF OnItsWay
  <2>5. \A op \in Ops : Carried(c, op, promised[op])'
    BY <2>1, <2>3 DEF Carried
  <2>6. QED
    BY <1>7, <2>1, <2>2, <2>4, <2>5, KeptByGoOn DEF At
<1>9. CASE PublishBands(c)
  <2> DEFINE r == [cmd[c] EXCEPT !.step = "status", !.held = None]
  <2>1. r \in Command /\ r.step = "status" /\ r.op = cmd[c].op /\ r.value = cmd[c].value
    BY <1>1 DEF Command, Steps, Values
  <2>2. /\ cmd' = [cmd EXCEPT ![c] = r] /\ cmd[c].step = "publish" /\ r.op = "eq"
        /\ eqStage' = cmd[c].held
        /\ UNCHANGED <<saveVars, layout, eq, loaded, catalog, activeIndex, scan, dirVars,
                       bootVars, promised, alone>>
    BY <1>1, <1>9, <2>1 DEF PublishBands, At, CommandOK, catalogVars
  <2> HIDE DEF r
  <2>3. cmd'[c] = r
    BY <1>1, <2>2
  <2>4. OnItsWay(c) => OnItsWay(c)'
    BY <2>1, <2>2, <2>3 DEF OnItsWay, InForce, Carried, Wanted
  <2>5. \A op \in Ops : Carried(c, op, promised[op])'
    BY <2>1, <2>3 DEF Carried
  <2>6. QED
    BY <1>7, <2>1, <2>2, <2>4, <2>5, KeptByGoOn DEF At
<1>10. CASE SwitchTo(c)
  <2> DEFINE r == [cmd[c] EXCEPT !.step = "index"]
  <2>1. r \in Command /\ r.step = "index" /\ r.op = cmd[c].op /\ r.value = cmd[c].value
        /\ r.held = cmd[c].held
    BY <1>1 DEF Command, Steps, Values
  <2>2. /\ cmd' = [cmd EXCEPT ![c] = r] /\ cmd[c].step = "switch" /\ r.op = "hrtf"
        /\ loaded' = cmd[c].held
        /\ UNCHANGED <<saveVars, layout, eq, eqStage, catalog, activeIndex, scan, dirVars,
                       bootVars, promised, alone>>
    BY <1>1, <1>10, <2>1 DEF SwitchTo, GoTo, At, CommandOK, catalogVars
  <2> HIDE DEF r
  <2>3. cmd'[c] = r
    BY <1>1, <2>2
  <2>4. OnItsWay(c) => OnItsWay(c)'
    BY <2>1, <2>2, <2>3 DEF OnItsWay, dirVars
  <2>5. \A op \in Ops : Carried(c, op, promised[op])'
    BY <2>1, <2>3 DEF Carried
  <2>6. QED
    BY <1>7, <2>1, <2>2, <2>4, <2>5, KeptByGoOn DEF At
<1>11. CASE StoreIndex(c)
  <2> DEFINE r == [cmd[c] EXCEPT !.step = "status"]
  <2>1. r \in Command /\ r.step = "status" /\ r.op = cmd[c].op /\ r.value = cmd[c].value
        /\ r.held = cmd[c].held
    BY <1>1 DEF Command, Steps, Values
  <2>2. /\ cmd' = [cmd EXCEPT ![c] = r] /\ cmd[c].step = "index" /\ r.op = "hrtf"
        /\ activeIndex' = cmd[c].value
        /\ UNCHANGED <<saveVars, layout, eq, eqStage, loaded, catalog, scan, dirVars,
                       bootVars, promised, alone>>
    BY <1>1, <1>11, <2>1 DEF StoreIndex, GoTo, At, CommandOK, forceVars
  <2> HIDE DEF r
  <2>3. cmd'[c] = r
    BY <1>1, <2>2
  <2>4. OnItsWay(c) => OnItsWay(c)'
    BY <2>1, <2>2, <2>3 DEF OnItsWay, InForce, Carried, Wanted, dirVars
  <2>5. \A op \in Ops : Carried(c, op, promised[op])'
    BY <2>1, <2>3 DEF Carried
  <2>6. QED
    BY <1>7, <2>1, <2>2, <2>4, <2>5, KeptByGoOn DEF At
<1>12. CASE TakeStatus(c)
  <2> DEFINE snap == [cmd[c].snapshot EXCEPT !.layout = layout]
             r == [cmd[c] EXCEPT !.step = "snapshotEq", !.snapshot = snap, !.index = activeIndex]
  <2>1. snap \in Settings /\ snap.layout = layout /\ activeIndex \in Nat
    BY <1>1 DEF Command, Settings, IInv, TypeOK
  <2>2. cmd' = [cmd EXCEPT ![c] = r]
    BY <1>12 DEF TakeStatus
  <2> HIDE DEF snap
  <2>3. r \in Command /\ r.step = "snapshotEq" /\ r.op = cmd[c].op /\ r.value = cmd[c].value
        /\ r.held = cmd[c].held /\ r.snapshot = snap /\ r.index = activeIndex
    BY <1>1, <2>1 DEF Command, Steps, Values
  <2>4. /\ cmd[c].step = "status"
        /\ UNCHANGED <<saveVars, layout, eq, eqStage, loaded, catalog, activeIndex, scan, dirVars,
                       bootVars, promised, alone>>
    BY <1>12 DEF TakeStatus, At, forceVars, catalogVars
  <2> HIDE DEF r
  <2>5. cmd'[c] = r
    BY <1>1, <2>2
  <2>6. OnItsWay(c) => OnItsWay(c)'
    BY <2>1, <2>3, <2>4, <2>5 DEF OnItsWay, InForce, Carried, Wanted, dirVars
  <2>7. \A op \in Ops : InForce(op, promised[op]) => Carried(c, op, promised[op])'
    BY <2>1, <2>3, <2>4, <2>5 DEF Carried, InForce
  <2>8. QED
    BY <1>7, <2>2, <2>3, <2>4, <2>6, <2>7, KeptByGoOn DEF At
<1>13. CASE SnapshotEq(c)
  <2> DEFINE snap == [cmd[c].snapshot EXCEPT !.eq = eq]
             r == [cmd[c] EXCEPT !.step = "snapshotName", !.snapshot = snap]
  <2>1. snap \in Settings /\ snap.layout = cmd[c].snapshot.layout /\ snap.eq = eq
    BY <1>1 DEF Command, Settings, IInv, TypeOK
  <2>2. cmd' = [cmd EXCEPT ![c] = r]
    BY <1>13 DEF SnapshotEq
  <2> HIDE DEF snap
  <2>3. r \in Command /\ r.step = "snapshotName" /\ r.op = cmd[c].op /\ r.value = cmd[c].value
        /\ r.held = cmd[c].held /\ r.snapshot = snap /\ r.index = cmd[c].index
    BY <1>1, <2>1 DEF Command, Steps, Values
  <2>4. /\ cmd[c].step = "snapshotEq"
        /\ UNCHANGED <<saveVars, layout, eq, eqStage, loaded, catalog, activeIndex, scan, dirVars,
                       bootVars, promised, alone>>
    BY <1>13 DEF SnapshotEq, At, forceVars, catalogVars
  <2> HIDE DEF r
  <2>5. cmd'[c] = r
    BY <1>1, <2>2
  <2>6. OnItsWay(c) => OnItsWay(c)'
    BY <2>1, <2>3, <2>4, <2>5 DEF OnItsWay, InForce, Carried, Wanted, dirVars
  <2>7. \A op \in Ops : InForce(op, promised[op]) /\ Carried(c, op, promised[op])
                          => Carried(c, op, promised[op])'
    BY <2>1, <2>3, <2>4, <2>5 DEF Carried, InForce
  <2>8. QED
    BY <1>7, <2>2, <2>3, <2>4, <2>6, <2>7, KeptByGoOn DEF At
<1>14. CASE SnapshotName(c)
  <2> DEFINE name == IF cmd[c].index \in DOMAIN catalog THEN catalog[cmd[c].index] ELSE None
             t == [cmd[c].snapshot EXCEPT !.hrtf = name]
             r == [cmd[c] EXCEPT !.step = "save", !.snapshot = Defaults, !.index = 0]
  <2>1. t \in Settings
    BY SnapshotType DEF IInv
  <2>2. cmd[c].snapshot \in Settings
    BY <1>1 DEF Command
  <2> HIDE DEF name
  <2>3. t.layout = cmd[c].snapshot.layout /\ t.eq = cmd[c].snapshot.eq /\ t.hrtf = name
    BY <2>2 DEF Settings
  <2>4. /\ File!BeginSave(c, t) /\ cmd' = [cmd EXCEPT ![c] = r] /\ cmd[c].step = "snapshotName"
        /\ UNCHANGED <<layout, eq, eqStage, loaded, catalog, activeIndex, scan, dirVars,
                       bootVars, promised, alone>>
    BY <1>14 DEF SnapshotName, At, forceVars, catalogVars, name
  <2>5. /\ r \in Command /\ r.step = "save" /\ r.op = cmd[c].op /\ r.value = cmd[c].value
        /\ r.held = cmd[c].held
    BY <1>1, DefaultsType DEF Command, Steps, Values
  <2> HIDE DEF r, t
  <2>6. /\ File!Exists' <=> File!Exists
        /\ File!Stored' = File!Stored
        /\ text'[c] = t
        /\ \A d \in Clients \ {c} : text'[d] = text[d]
    BY <1>1, <2>1, <2>4, BeginSaveKeeps DEF Savers
  <2>7. cmd'[c] = r
    BY <1>1, <2>4
  <2>8. ASSUME NEW op \in Ops, NEW v, Carried(c, op, v)
        PROVE  r.step = "save" /\ t[op] = v
    BY <2>3, <2>4, <2>5, <2>8 DEF Carried, Ops, name
  <2>9. OnItsWay(c) => OnItsWay(c)'
    <3>1. PICK op \in Ops : op = cmd[c].op
      BY <1>1, <2>4 DEF CommandOK
    <3>2. PICK v : v = Wanted(c)
      OBVIOUS
    <3>3. cmd'[c].op = op /\ Wanted(c)' = v
      BY <2>5, <2>7, <3>1, <3>2 DEF Wanted
    <3>4. OnItsWay(c) => InForce(op, v) /\ Carried(c, op, v)
      BY <2>4, <3>1, <3>2 DEF OnItsWay
    <3>5. OnItsWay(c) => Carried(c, op, v)'
      BY <2>5, <2>6, <2>7, <2>8, <3>4 DEF Carried
    <3>6. OnItsWay(c) => InForce(op, v)'
      BY <2>4, <3>4 DEF InForce, dirVars
    <3>7. op = "hrtf" /\ OnItsWay(c) =>
            /\ r.value \in DOMAIN catalog /\ catalog[r.value] = r.held
            /\ ~event /\ scan = None /\ catalog = Listing(dir)
      BY <2>5, <3>1 DEF OnItsWay
    <3>8. QED
      BY <2>4, <2>5, <2>7, <3>3, <3>5, <3>6, <3>7 DEF OnItsWay, dirVars
  <2>10. \A op \in Ops : Carried(c, op, promised[op]) => Carried(c, op, promised[op])'
    BY <2>4, <2>5, <2>6, <2>7, <2>8 DEF Carried
  <2>11. QED
    BY <2>4, <2>5, <2>6, <2>9, <2>10, KeptByGoOn DEF At
<1>15. QED
  BY <1>2, <1>4, <1>5, <1>6, <1>8, <1>9, <1>10, <1>11, <1>12, <1>13, <1>14
     DEF HandleControlCommand, RefuseHrtf, GetStatus

\* A save replaces a promised setting by itself, and a command that has met no
\* other ends with its own setting promised.
LEMMA KeptBySave ==
  ASSUME IInv, CommandsOK', PhasesOK', NEW p \in Savers, Save(p)
  PROVE  AloneOK' /\ KeptOK'
<1>1. /\ cmd \in [Clients -> Command] /\ promised \in [Ops -> Values]
      /\ File!TypeOK(Settings) /\ FileOK
      /\ Main \in Savers /\ Main \notin Clients /\ Clients \subseteq Savers
  BY ThreadsAssumption DEF IInv, CommandsOK, TypeOK, Savers
<1>2. UNCHANGED <<forceVars, catalogVars, dirVars, bootVars>>
  BY DEF Save, Continue, RenameTemp, SaveFails, WriteFails
<1>3. UNCHANGED <<layout, eq, eqStage, loaded, catalog, activeIndex, scan, dir, event, phase, from>>
  BY <1>2 DEF forceVars, catalogVars, dirVars, bootVars
<1>4. CASE WriteFails(p)
  <2>1. alone' = FALSE /\ promised' = Nothing
    BY <1>4 DEF WriteFails
  <2>2. QED
    BY <2>1 DEF AloneOK, KeptOK, Nothing
<1>5. CASE ~Quiet /\ ~WriteFails(p)
  <2>1. alone' = alone /\ (alone \/ promised' = promised)
    BY <1>5 DEF Save, Continue, RenameTemp, SaveFails, FinishCommand, cmdVars
  <2>2. QED
    BY <1>5, <2>1 DEF Quiet, AloneOK, KeptOK
<1>6. ASSUME Quiet
      PROVE  /\ Orderly /\ \A c \in Clients \ {p} : saving[p] # "no" => At(c, "idle")
             /\ saving[p] # "no" => \A q \in Savers \ {p} : saving[q] = "no"
  <2>1. Orderly /\ \A c, d \in Clients : ~At(c, "idle") /\ ~At(d, "idle") => c = d
    BY <1>6 DEF IInv, QuietOK
  <2>2. saving[p] # "no" /\ p \in Clients => ~At(p, "idle")
    BY DEF IInv, CommandsOK, CommandOK, At
  <2>3. saving[p] # "no" /\ p = Main => \A c \in Clients : At(c, "idle")
    BY DEF IInv, PhasesOK, At
  <2>4. saving[p] # "no" => \A q \in Savers \ {p} : saving[q] = "no"
    BY <2>1, LoneSaver DEF IInv
  <2>5. QED
    BY <2>1, <2>2, <2>3, <2>4 DEF Savers
<1>7. CASE Quiet /\ Continue(p)
  <2>1. UNCHANGED <<cmd, promised, alone>>
    BY <1>7 DEF Continue, cmdVars
  <2>2. /\ File!Exists' <=> File!Exists
        /\ File!Exists => File!Stored' = File!Stored
        /\ text' = text
        /\ \A q \in Savers : saving'[q] = "no" <=> saving[q] = "no"
    BY <1>1, <1>6, <1>7, OpenKeeps, WriteKeeps DEF Continue
  <2>3. \A c \in Clients, op \in Ops, v \in Values : Carried(c, op, v) => Carried(c, op, v)'
    BY <1>3, <2>1, <2>2 DEF Carried
  <2>4. \A op \in Ops, v \in Values : InForce(op, v) => InForce(op, v)'
    BY <1>3 DEF InForce
  <2>5. AloneOK'
    <3> SUFFICES ASSUME alone, NEW c \in Clients, ~At(c, "idle")
                 PROVE  OnItsWay(c)'
      BY <1>3, <2>1 DEF AloneOK, IInv, At
    <3>1. OnItsWay(c)
      BY DEF IInv, AloneOK
    <3>2. QED
      BY <1>3, <2>1, <2>2, <3>1 DEF OnItsWay, InForce, Carried, Wanted
  <2>6. ASSUME NEW op \in Ops, promised'[op] # None
        PROVE  Kept(op)'
    <3>1. Kept(op) /\ promised'[op] = promised[op] /\ promised[op] \in Values
      BY <1>1, <2>1, <2>6 DEF IInv, KeptOK
    <3>2. \A c \in Clients : (cmd[c].op # op /\ Carried(c, op, promised[op]))'
      BY <2>1, <2>2, <1>3, <3>1 DEF Kept, Carried
    <3>3. phase' = "up" => InForce(op, promised[op])'
      BY <1>3, <3>1 DEF Kept, InForce
    <3>4. Starting(op, promised[op])'
      BY <1>1, <1>3, <2>2, <3>1 DEF Kept, Starting, InForce
    <3>5. Written(op, promised[op])'
      BY <2>2, <3>1, WrittenUnchanged DEF Kept
    <3>6. op = "hrtf" => promised'[op] \in ToSet(Listing(dir'))
      BY <1>3, <3>1 DEF Kept
    <3>7. QED
      BY <3>2, <3>3, <3>4, <3>5, <3>6 DEF Kept
  <2>7. QED
    BY <2>5, <2>6 DEF KeptOK
<1>8. ASSUME Quiet, saving[p] # "no", saving'[p] = "no",
             \A q \in Savers \ {p} : saving'[q] = saving[q],
             p \in Clients => cmd' = [cmd EXCEPT ![p] = NoCmd],
             p \notin Clients => cmd' = cmd
      PROVE  /\ \A c \in Clients : At(c, "idle")'
             /\ saving'[Main] = "no"
             /\ \A op \in Ops, c \in Clients : cmd'[c].op # op
             /\ \A op \in Ops, c \in Clients : Carried(c, op, promised[op])'
  <2>1. \A c \in Clients : At(c, "idle")'
    BY <1>1, <1>6, <1>8, IdleType DEF At, Savers
  <2>2. saving'[Main] = "no"
    BY <1>1, <1>6, <1>8
  <2>3. \A op \in Ops, c \in Clients : cmd'[c].op # op
    BY <2>1, NoneAssumption DEF CommandsOK, CommandOK, At
  <2>4. QED
    BY <2>1, <2>2, <2>3 DEF At, Carried
<1>9. CASE Quiet /\ RenameTemp(p)
  <2>1. /\ saving[p] # "no" /\ saving'[p] = "no" /\ text[p] # None
        /\ \A q \in Savers \ {p} : saving'[q] = saving[q]
        /\ File!Exists' /\ File!Stored' = text[p]
    BY <1>1, <1>6, <1>9, RenameKeeps DEF RenameTemp
  <2>2. /\ p \in Clients => cmd' = [cmd EXCEPT ![p] = NoCmd]
        /\ p \notin Clients => UNCHANGED <<cmd, promised, alone>>
        /\ alone' = alone
    BY <1>9 DEF RenameTemp, FinishCommand, cmdVars
  <2>3. /\ \A c \in Clients : At(c, "idle")'
        /\ saving'[Main] = "no"
        /\ \A op \in Ops, c \in Clients : cmd'[c].op # op
        /\ \A op \in Ops, c \in Clients : Carried(c, op, promised[op])'
    BY <1>8, <1>9, <2>1, <2>2
  <2>4. AloneOK'
    BY <1>3, <2>2, <2>3 DEF AloneOK, IInv
  <2>5. ASSUME NEW op \in Ops, promised'[op] # None, p \in Clients
        PROVE  Kept(op)'
    <3>1. phase = "up" /\ phase' = "up" /\ cmd[p].step = "save" /\ CommandOK(p)
      BY <1>3, <2>1, <2>5 DEF IInv, CommandsOK, CommandOK, PhasesOK
    <3>2. promised' = IF ~alone THEN promised
                      ELSE [promised EXCEPT ![cmd[p].op] = Wanted(p)]
      BY <1>9, <2>5 DEF RenameTemp, FinishCommand, Wanted
    <3>3. PICK v : v = promised'[op]
      OBVIOUS
    <3>4. InForce(op, v) /\ text[p][op] = v
      <4>1. CASE alone /\ op = cmd[p].op
        <5>1. OnItsWay(p)
          BY <2>5, <3>1, <4>1 DEF IInv, AloneOK, At
        <5>2. v = Wanted(p)
          BY <1>1, <3>2, <3>3, <4>1
        <5>3. QED
          BY <3>1, <4>1, <5>1, <5>2 DEF OnItsWay, Carried
      <4>2. CASE ~alone \/ op # cmd[p].op
        <5>1. v = promised[op]
          BY <1>1, <3>2, <3>3, <4>2
        <5>2. Kept(op)
          BY <2>5, <3>3, <5>1 DEF IInv, KeptOK
        <5>3. QED
          BY <2>5, <3>1, <5>1, <5>2 DEF Kept, Carried
      <4>3. QED
        BY <4>1, <4>2
    <3>5. InForce(op, promised[op])'
      BY <1>3, <3>3, <3>4 DEF InForce
    <3>6. Written(op, promised[op])'
      BY <2>1, <3>3, <3>4 DEF Written
    <3>7. op = "hrtf" => promised'[op] \in ToSet(Listing(dir'))
      BY <1>3, <3>3, <3>4 DEF InForce, ToSet
    <3>8. QED
      BY <2>3, <3>1, <3>5, <3>6, <3>7, KeptUp
  <2>6. ASSUME NEW op \in Ops, promised'[op] # None, p \notin Clients
        PROVE  Kept(op)'
    <3>1. p = Main /\ promised'[op] = promised[op] /\ phase = "saved" /\ phase' = "saved"
      BY <1>3, <2>1, <2>2, <2>6 DEF Savers, IInv, PhasesOK
    <3>2. Kept(op)
      BY <2>6, <3>1 DEF IInv, KeptOK
    <3>3. text[Main][op] = promised[op] /\ from # None /\ from[op] = promised[op]
          /\ InForce(op, promised[op])
      BY <2>1, <3>1, <3>2 DEF Kept, Starting
    <3>4. InForce(op, promised[op])'
      BY <1>3, <3>1, <3>3 DEF InForce
    <3>5. Written(op, promised[op])'
      BY <2>1, <3>1, <3>3 DEF Written
    <3>6. QED
      BY <1>3, <2>3, <3>1, <3>2, <3>3, <3>4, <3>5 DEF Kept, Starting
  <2>7. QED
    BY <2>4, <2>5, <2>6 DEF KeptOK
<1>10. CASE Quiet /\ SaveFails(p)
  <2>1. /\ saving[p] # "no" /\ saving'[p] = "no"
        /\ \A q \in Savers \ {p} : saving'[q] = saving[q]
        /\ File!Exists' <=> File!Exists
        /\ File!Stored' = File!Stored
    BY <1>1, <1>10, SaveFailsKeeps DEF SaveFails
  <2>2. /\ p \in Clients => cmd' = [cmd EXCEPT ![p] = NoCmd]
        /\ p \notin Clients => cmd' = cmd
        /\ UNCHANGED <<promised, alone>>
    BY <1>10 DEF SaveFails
  <2>3. /\ \A c \in Clients : At(c, "idle")'
        /\ saving'[Main] = "no"
        /\ \A op \in Ops, c \in Clients : cmd'[c].op # op
        /\ \A op \in Ops, c \in Clients : Carried(c, op, promised[op])'
    BY <1>8, <1>10, <2>1, <2>2
  <2>4. AloneOK'
    BY <1>3, <2>2, <2>3 DEF AloneOK, IInv
  <2>5. ASSUME NEW op \in Ops, promised'[op] # None
        PROVE  Kept(op)'
    <3>1. Kept(op) /\ promised'[op] = promised[op]
      BY <2>2, <2>5 DEF IInv, KeptOK
    <3>2. phase' = "up" => InForce(op, promised[op])'
      BY <1>3, <3>1 DEF Kept, InForce
    <3>3. Starting(op, promised[op])'
      BY <1>3, <2>3, <3>1 DEF Kept, Starting, InForce
    <3>4. Written(op, promised[op])'
      BY <2>1, <3>1, WrittenUnchanged DEF Kept
    <3>5. QED
      BY <1>3, <2>3, <3>1, <3>2, <3>3, <3>4 DEF Kept
  <2>6. QED
    BY <2>4, <2>5 DEF KeptOK
<1>11. QED
  BY <1>4, <1>5, <1>7, <1>9, <1>10 DEF Save

-----------------------------------------------------------------------------
(* Theorems *)

\* The daemon starts in the invariant.
LEMMA InitInvariant == Init => IInv
<1> SUFFICES ASSUME Init
             PROVE  IInv
  OBVIOUS
<1>1. /\ contents = [i \in File!Inodes |-> None] /\ settingsEntry = None /\ tempEntry = None
      /\ saving = [p \in Savers |-> "no"] /\ text = [p \in Savers |-> None]
      /\ descriptor = [p \in Savers |-> None] /\ raced = FALSE /\ refused = FALSE
      /\ lost = FALSE
  BY DEF Init, File!Init, Savers
<1>2. File!TypeOK(Settings)
  BY <1>1 DEF File!TypeOK, Savers
<1>3. FileOK /\ Whole /\ Orderly
  BY <1>1 DEF FileOK, Whole, Orderly, Busy, File!Exists
<1>4. /\ cmd = [c \in Clients |-> NoCmd] /\ promised = Nothing /\ alone = FALSE /\ phase = "down"
      /\ scan = None /\ catalog = << >> /\ event = FALSE /\ watched = FALSE
  BY DEF Init
<1>5. CommandsOK
  <2>1. cmd \in [Clients -> Command] /\ promised \in [Ops -> Values]
    BY <1>4, IdleType, NothingType
  <2>2. \A c \in Clients : CommandOK(c)
    <3> TAKE c \in Clients
    <3>1. cmd[c] = NoCmd /\ saving[c] = "no"
      BY <1>1, <1>4 DEF Savers
    <3>2. QED
      BY <3>1, IdleType, NoneAssumption DEF CommandOK, Ops
  <2>3. QED
    BY <2>1, <2>2 DEF CommandsOK
<1>6. TypeOK
  <2>1. << >> \in BoundedSeq(Entries, MaxCatalogEntries)
    <3>1. << >> \in Seq(Entries) /\ Len(<< >>) \in 0 .. MaxCatalogEntries
      BY CatalogAssumption
    <3>2. QED
      BY <3>1, BoundedIs
  <2>2. 1 \in 1 .. MaxCatalogEntries
    BY CatalogAssumption
  <2>3. \A c \in Clients : cmd[c].snapshot \in Settings /\ cmd[c].op \in Ops \cup {None}
    BY <1>5 DEF CommandsOK, Command
  <2>4. QED
    BY <1>2, <2>1, <2>2, <2>3, FirstBundled, DefaultsAssumption, FilesAssumption DEF Init, TypeOK
<1>7. PhasesOK
  BY <1>1, <1>4, IdleType DEF PhasesOK, Savers
<1>8. IndexOK /\ ScanOK
  BY <1>4 DEF IndexOK, ScanOK
<1>9. QuietOK /\ AloneOK /\ KeptOK
  BY <1>4 DEF QuietOK, AloneOK, KeptOK, Quiet, Nothing
<1>10. QED
  BY <1>3, <1>5, <1>6, <1>7, <1>8, <1>9 DEF IInv

\* Every step keeps to the invariant.
LEMMA NextInvariant == IInv /\ [Next]_vars => IInv'
<1> SUFFICES ASSUME IInv, [Next]_vars
             PROVE  IInv'
  OBVIOUS
<1>1. /\ TypeOK /\ CommandsOK /\ PhasesOK /\ FileOK /\ Whole /\ IndexOK /\ ScanOK
      /\ QuietOK /\ AloneOK /\ KeptOK
  BY DEF IInv
<1>2. File!TypeOK(Settings)' /\ FileOK' /\ Whole'
  BY <1>1, FileStep
<1>3. CommandsOK'
  BY <1>1, CommandsStep
<1>4. TypeOK'
  BY <1>1, <1>2, <1>3, TypeStep
<1>5. PhasesOK'
  BY <1>1, PhasesStep
<1>6. ScanOK' /\ IndexOK' /\ QuietOK'
  BY <1>1, ScanStep, IndexStep, QuietStep
<1>7. AloneOK' /\ KeptOK'
  <2>1. CASE UNCHANGED vars
    BY <1>1, <2>1 DEF vars, saveVars, forceVars, catalogVars, dirVars, bootVars, cmdVars,
         AloneOK, KeptOK, Kept, OnItsWay, InForce, Carried, Written, Starting, Wanted, At,
         File!Exists, File!Stored
  <2>2. CASE Next
    BY <1>3, <1>5, <2>2, KeptByRun, KeptByEnd, KeptByChange, KeptByMainLoop, KeptByCommand,
       KeptBySave DEF Next, Savers
  <2>3. QED
    BY <2>1, <2>2
<1>8. QED
  BY <1>2, <1>3, <1>4, <1>5, <1>6, <1>7 DEF IInv

\* The invariant holds throughout.
THEOREM Invariance == Spec => []IInv
  BY InitInvariant, NextInvariant, PTL DEF Spec

\* Every variable keeps its type; above all the catalog stays within what the
\* one byte of an index on the wire can name.
THEOREM TypeCorrect == Spec => []TypeOK
<1>1. IInv => TypeOK
  BY DEF IInv
<1>2. QED
  BY <1>1, Invariance, PTL

\* Restarts and crashes keep what a client set: a setting whose last command met
\* no other and was saved is in force as long as the daemon is up, in this session
\* and in every later one (PersistCurrentSettings, Save, Load).
THEOREM SettingsAreKept == Spec => []SettingsSurvive
<1>1. IInv => SettingsSurvive
  <2> SUFFICES ASSUME IInv, phase = "up", NEW op \in Ops, promised[op] # None
               PROVE  promised[op] = [layout |-> layout, eq |-> eqStage, hrtf |-> loaded][op]
    BY DEF SettingsSurvive, IInv
  <2>1. InForce(op, promised[op])
    BY DEF IInv, KeptOK, Kept
  <2>2. QED
    BY <2>1 DEF InForce, Ops
<1>2. QED
  BY <1>1, Invariance, PTL

\* The settings file has no text only if two threads saved at once, a system call
\* failed, or a power loss took what SettingsStore::Save had not synced, however often
\* the daemon was killed.
THEOREM FileIsWhole == Spec => []WholeUnlessRaced
<1>1. IInv => WholeUnlessRaced
  BY DEF IInv, Whole, WholeUnlessRaced
<1>2. QED
  BY <1>1, Invariance, PTL

\* The active index names the entry in force, unless that entry has left the
\* catalog or SetHrtfFile met a rescan or another SetHrtfFile (RebuildHrtfCatalog).
THEOREM IndexFollows == Spec => []IndexNamesLoaded
<1>1. IInv => IndexNamesLoaded
  BY DEF IInv, IndexOK, IndexNamesLoaded, Choosing, At
<1>2. QED
  BY <1>1, Invariance, PTL

\* No change of the user's directory is overlooked (OnHrtfDirectoryChanged), but
\* for one while there is no watch: between the first scan and the watch, or at any
\* time if inotify has failed.
THEOREM CatalogFollows == Spec => []CatalogCurrent
<1>1. IInv => CatalogCurrent
  BY DEF IInv, ScanOK, CatalogCurrent
<1>2. QED
  BY <1>1, Invariance, PTL
=============================================================================
