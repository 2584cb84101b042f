--------------------------- MODULE DataDirProofs ---------------------------
(***************************************************************************)
(* Proofs about DataDir, for any size of the log, any months, events,      *)
(* faults and imports: board.json always loads, no event that was in it is *)
(* lost, what an import could read and replaced is kept until the next     *)
(* import of the same second, and an export with archives has everything.  *)
(*                                                                         *)
(* The argument follows an event from board.json into the memory of the    *)
(* process, from there into a batch and a member of an archive file, and   *)
(* back into board.json without it: at every control point each event of   *)
(* board.json is in what the process is about to write or in a complete    *)
(* member.                                                                 *)
(***************************************************************************)
EXTENDS DataDir, FiniteSetTheorems, WellFoundedInduction, TLAPS

-----------------------------------------------------------------------------
(* The inductive invariant.                                                *)

\* Whatever is in memory, in a file, in an export or in an archive was logged
\* once, and an event has one entry.
AllLogged ==
  /\ IsFiniteSet(named)
  /\ \A e \in named : e.event <= Cardinality(named)
  /\ \A e, f \in named : e.event = f.event => e = f
  /\ mem.live \subseteq named /\ batch \subseteq named
  /\ main.st.live \subseteq named /\ tmp.st.live \subseteq named
  /\ \A st \in exported : st.live \subseteq named
  /\ \A k \in Members : Member(k).entries \subseteq named

\* board.json is synced and decodes; what will replace it is no less valid, and
\* synced when it does.
FilesDecode ==
  /\ main.synced /\ MainLoads /\ ValidLog(mem)
  /\ main.kind = "none" => main.st.live = {}
  /\ pc \in {"sync", "rename"} =>
       tmp.kind = "current" /\ ValidLog(tmp.st) /\ tmp.st.live \subseteq mem.live
  /\ pc = "rename" => tmp.synced

\* What board.json has is in memory and in the temporary file, or archived.
Covered ==
  (pc # "down" /\ job # "import") =>
    /\ Events(main.st) \subseteq Events(mem) \cup Archived
    /\ pc \in {"sync", "rename"} => Events(main.st) \subseteq Events(tmp.st) \cup Archived

\* What archiveOld is about to drop is archived, or in the rest of the batch;
\* the member being written is the last of its file.
Archiving ==
  /\ pc \in {"append", "member"} =>
       /\ cut <= mem.next
       /\ \A e \in mem.live : e.id <= cut => (e \in batch \/ e.event \in Archived)
  /\ pc = "member" =>
       /\ batch # {} /\ archive[Current] # <<>>
       /\ archive[Current][Len(archive[Current])].entries = OfCurrent

\* Only a server archives and saves what it archived; an import saves what it
\* was given.
Busy ==
  /\ job = "none" => pc = "down"
  /\ pc \in {"up", "append", "member"} => job = "serve"
  /\ pc \in {"backup", "copy"} => job \in {"start", "export"}

\* The events of the copies, and those that no copy was made of or left of.
Accounted == KeptEvents \cup unkept

\* An import that is about to replace board.json has kept a copy, or could not
\* read what there was to copy.
Replacing ==
  (~outage /\ job = "import" /\ pc \in {"save", "sync", "rename"})
    => Events(main.st) \subseteq Accounted

\* What imports replaced is in the copies or accounted for: ReplacedKept, by
\* that name.
ReplacedIn == ~outage => ever \subseteq Events(main.st) \cup Archived \cup Accounted

DataDirInv ==
  /\ TypeOK /\ AllLogged /\ FilesDecode /\ Covered /\ Archiving /\ Busy
  /\ Replacing /\ HistoryKept /\ ReplacedIn

-----------------------------------------------------------------------------
(* The least and the greatest of a set of naturals.                        *)

\* Every set of naturals that is not empty has a least element.
LEMMA LeastNat ==
  ASSUME NEW T, T \subseteq Nat, T # {}
  PROVE  \E x \in T : \A y \in T : x <= y
<1> DEFINE R == OpToRel(<, Nat)
<1>1. IsWellFoundedOn(R, Nat)
  BY NatLessThanWellFounded
<1>2. \A y, x \in Nat : y < x => <<y, x>> \in R
  BY DEF OpToRel
<1> HIDE DEF R
<1>3. PICK x \in T : \A y \in T : ~ (<<y, x>> \in R)
  BY <1>1, WFMin
<1>4. ASSUME NEW y \in T PROVE x <= y
  <2>1. x \in Nat /\ y \in Nat /\ ~(y < x)
    BY <1>2, <1>3
  <2>2. QED
    BY <2>1
<1>5. QED
  BY <1>4

\* Min is that element.
LEMMA MinIsLeast ==
  ASSUME NEW T, T \subseteq Nat, T # {}
  PROVE  Min(T) \in T /\ \A y \in T : Min(T) <= y
<1>1. \E x \in T : \A y \in T : x <= y
  BY LeastNat
<1>2. QED
  BY <1>1, Zenon DEF Min

\* A set of naturals with a bound has a greatest element, and Max is it: the
\* least of its bounds.
LEMMA MaxIsGreatest ==
  ASSUME NEW T, T \subseteq Nat, T # {}, NEW b \in Nat, \A x \in T : x <= b
  PROVE  Max(T) \in T /\ \A y \in T : y <= Max(T)
<1> DEFINE U == {n \in Nat : \A x \in T : x <= n}
<1>1. PICK u \in U : \A n \in U : u <= n
  <2>1. b \in U /\ U \subseteq Nat
    OBVIOUS
  <2> HIDE DEF U
  <2>2. QED
    BY <2>1, LeastNat
<1>2. u \in T
  <2>1. SUFFICES ASSUME u \notin T PROVE FALSE
    OBVIOUS
  <2>2. PICK x \in T : TRUE
    OBVIOUS
  <2>3. \A y \in T : y < u
    BY <1>1, <2>1
  <2>4. u - 1 \in U
    BY <1>1, <2>2, <2>3
  <2>5. QED
    BY <1>1, <2>4
<1>3. \E x \in T : \A y \in T : x >= y
  BY <1>1, <1>2
<1>4. Max(T) \in T /\ \A y \in T : Max(T) >= y
  BY <1>3, Zenon DEF Max
<1>5. QED
  BY <1>4

-----------------------------------------------------------------------------
(* States and files.                                                       *)

\* The states the actions make.
LEMMA StateTypes ==
  /\ NewState \in State /\ NewState.live = {} /\ NewState.next = 0
  /\ \A st \in State : st.live \subseteq Entry /\ st.next \in Nat
  /\ \A L \in SUBSET Entry, n \in Nat :
       /\ [live |-> L, next |-> n] \in State
       /\ [live |-> L, next |-> n].live = L /\ [live |-> L, next |-> n].next = n
  /\ \A L \in SUBSET Entry, st \in State :
       /\ [st EXCEPT !.live = L] \in State
       /\ [st EXCEPT !.live = L].live = L /\ [st EXCEPT !.live = L].next = st.next
<1>1. NewState \in State /\ NewState.live = {} /\ NewState.next = 0
  BY DEF NewState, State
<1>2. \A st \in State : st.live \subseteq Entry /\ st.next \in Nat
  BY DEF State
<1>3. ASSUME NEW L \in SUBSET Entry, NEW n \in Nat
      PROVE  /\ [live |-> L, next |-> n] \in State
             /\ [live |-> L, next |-> n].live = L /\ [live |-> L, next |-> n].next = n
  BY DEF State
<1>4. ASSUME NEW L \in SUBSET Entry, NEW st \in State
      PROVE  /\ [st EXCEPT !.live = L] \in State
             /\ [st EXCEPT !.live = L].live = L /\ [st EXCEPT !.live = L].next = st.next
  BY DEF State
<1>5. QED
  BY <1>1, <1>2, <1>3, <1>4

\* The files the actions make.
LEMMA FileTypes ==
  /\ NoFile \in FileType /\ NoFile.st = NewState
  /\ TornFile \in FileType /\ TornFile.st = NewState
  /\ \A st \in State : /\ File("current", st) \in FileType
                       /\ File("current", st).st = st /\ File("current", st).kind = "current"
  /\ \A f \in FileType : f.st \in State /\ f.synced \in BOOLEAN
  /\ \A f \in FileType, b \in BOOLEAN :
       /\ [f EXCEPT !.synced = b] \in FileType
       /\ [f EXCEPT !.synced = b].st = f.st /\ [f EXCEPT !.synced = b].kind = f.kind
       /\ [f EXCEPT !.synced = b].synced = b
<1>1. NoFile \in FileType /\ NoFile.st = NewState
  BY StateTypes DEF NoFile, FileType
<1>2. TornFile \in FileType /\ TornFile.st = NewState
  BY StateTypes DEF TornFile, FileType
<1>3. ASSUME NEW st \in State
      PROVE  /\ File("current", st) \in FileType
             /\ File("current", st).st = st /\ File("current", st).kind = "current"
  BY DEF File, FileType
<1>4. \A f \in FileType : f.st \in State /\ f.synced \in BOOLEAN
  BY DEF FileType
<1>5. ASSUME NEW f \in FileType, NEW b \in BOOLEAN
      PROVE  /\ [f EXCEPT !.synced = b] \in FileType
             /\ [f EXCEPT !.synced = b].st = f.st /\ [f EXCEPT !.synced = b].kind = f.kind
             /\ [f EXCEPT !.synced = b].synced = b
  BY DEF FileType
<1>6. QED
  BY <1>1, <1>2, <1>3, <1>4, <1>5

\* An entry of any state is an entry.
LEMMA EntryTypes ==
  \A e \in Entry : e.id \in Nat /\ e.event \in Nat /\ e.month \in 1..Months
  BY DEF Entry

\* A larger log has more events.
LEMMA MoreEvents ==
  ASSUME NEW s, NEW t, s.live \subseteq t.live
  PROVE  Events(s) \subseteq Events(t)
  BY DEF Events

-----------------------------------------------------------------------------
(* Archiving.                                                              *)

\* The month being archived is the month of an entry of the batch.
LEMMA CurrentIsAMonth ==
  ASSUME batch \subseteq Entry, batch # {}
  PROVE  Current \in 1..Months /\ OfCurrent \subseteq batch
<1> DEFINE T == {e.month : e \in batch}
<1>1. T \subseteq 1..Months /\ T \subseteq Nat /\ T # {}
  BY DataDirAssumption, EntryTypes
<1>2. Current = Min(T)
  BY DEF Current
<1> HIDE DEF T
<1>3. Min(T) \in T
  BY <1>1, MinIsLeast
<1>4. QED
  BY <1>1, <1>2, <1>3 DEF OfCurrent

\* The entries that archiveOld takes, of a log over the limit, are some, and are
\* those up to the last of them.
LEMMA OldestIsAPrefix ==
  ASSUME NEW st \in State, IsFiniteSet(st.live), ValidLog(st),
         Cardinality(st.live) > MaxActivity
  PROVE  LET c == Max({e.id : e \in Oldest(st)})
         IN  /\ Oldest(st) \subseteq st.live
             /\ c \in Nat /\ c <= st.next
             /\ \A e \in st.live : e.id <= c => e \in Oldest(st)
<1> DEFINE n == Cardinality(st.live) - MaxActivity \div 2
           Younger(e) == {d \in st.live : d.id < e.id}
           ids == {e.id : e \in Oldest(st)}
           c == Max(ids)
<1>1. Oldest(st) = {e \in st.live : Cardinality(Younger(e)) < n}
  BY DEF Oldest
<1>2. \A e \in st.live : e.id \in Nat /\ e.id <= st.next
  BY StateTypes, EntryTypes DEF ValidLog
<1>3. st.next \in Nat
  BY StateTypes
<1>4. n \in Nat /\ n > 0
  <2>1. Cardinality(st.live) \in Nat
    BY FS_CardinalityType
  <2>2. MaxActivity \in Nat
    BY DataDirAssumption
  <2>3. MaxActivity \div 2 \in Nat /\ MaxActivity \div 2 <= MaxActivity
    BY <2>2
  <2>4. QED
    BY <2>1, <2>2, <2>3
<1>5. \A e \in st.live : IsFiniteSet(Younger(e)) /\ Cardinality(Younger(e)) \in Nat
  <2>1. \A e \in st.live : Younger(e) \in SUBSET st.live
    OBVIOUS
  <2> HIDE DEF Younger
  <2>2. QED
    BY <2>1, FS_Subset, FS_CardinalityType
<1>6. Oldest(st) # {}
  <2> DEFINE all == {e.id : e \in st.live}
  <2>1. st.live # {}
    <3>1. SUFFICES ASSUME st.live = {} PROVE FALSE
      OBVIOUS
    <3>2. Cardinality(st.live) = 0
      BY <3>1, FS_EmptySet
    <3>3. QED
      BY <3>2, DataDirAssumption
  <2>2. all \subseteq Nat /\ all # {}
    BY <1>2, <2>1
  <2>3. PICK x \in all : \A y \in all : x <= y
    <3> HIDE DEF all
    <3>1. QED
      BY <2>2, LeastNat
  <2>4. PICK e \in st.live : e.id = x
    BY <2>3
  <2>5. Younger(e) = {}
    BY <1>2, <2>3, <2>4
  <2>6. Cardinality(Younger(e)) = 0
    BY <2>5, FS_EmptySet
  <2> HIDE DEF Younger, n
  <2>7. QED
    BY <1>1, <1>4, <2>6
<1>7. c \in ids /\ \A y \in ids : y <= c
  <2>1. ids \subseteq Nat /\ ids # {} /\ \A x \in ids : x <= st.next
    BY <1>1, <1>2, <1>6
  <2> HIDE DEF ids
  <2>2. QED
    BY <1>3, <2>1, MaxIsGreatest
<1>8. ASSUME NEW e \in st.live, e.id <= c PROVE e \in Oldest(st)
  <2>1. PICK o \in Oldest(st) : o.id = c
    BY <1>7
  <2>2. o \in st.live /\ Cardinality(Younger(o)) < n
    BY <1>1, <2>1
  <2>3. Younger(e) \subseteq Younger(o)
    BY <1>2, <1>8, <2>1, <2>2
  <2> HIDE DEF Younger, n, c
  <2>4. Cardinality(Younger(e)) <= Cardinality(Younger(o))
    BY <1>5, <2>2, <2>3, FS_Subset
  <2>5. Cardinality(Younger(e)) < n
    BY <1>4, <1>5, <2>2, <2>4
  <2>6. QED
    BY <1>1, <2>5
<1>9. QED
  BY <1>1, <1>2, <1>7, <1>8

\* A member is one of a file.
LEMMA MembersAt ==
  /\ \A m \in 1..Months : \A i \in DOMAIN archive[m] :
       <<m, i>> \in Members /\ Member(<<m, i>>) = archive[m][i]
  /\ \A k \in Members : \E m \in 1..Months : \E i \in DOMAIN archive[m] : k = <<m, i>>
<1>1. ASSUME NEW m \in 1..Months, NEW i \in DOMAIN archive[m]
      PROVE  <<m, i>> \in Members /\ Member(<<m, i>>) = archive[m][i]
  BY DEF Members, Member
<1>2. ASSUME NEW k \in Members
      PROVE  \E m \in 1..Months : \E i \in DOMAIN archive[m] : k = <<m, i>>
  BY DEF Members
<1>3. QED
  BY <1>1, <1>2

\* What it is for an event to be archived.
LEMMA ArchivedAt ==
  \A x : x \in Archived <=>
    \E m \in 1..Months : \E i \in DOMAIN archive[m] :
      archive[m][i].whole /\ \E e \in archive[m][i].entries : e.event = x
  BY DEF Archived

\* The same after a step.
LEMMA ArchivedAtNext ==
  \A x : x \in Archived' <=>
    \E m \in 1..Months : \E i \in DOMAIN archive'[m] :
      archive'[m][i].whole /\ \E e \in archive'[m][i].entries : e.event = x
  BY DEF Archived

\* The step takes nothing out of the archive and puts nothing into it that was
\* not logged.
ArchiveGrows ==
  /\ archive' \in [1..Months -> Seq(MemberType)]
  /\ Archived \subseteq Archived'
  /\ \A m \in 1..Months : \A i \in DOMAIN archive'[m] :
       \/ i \in DOMAIN archive[m] /\ archive'[m][i].entries = archive[m][i].entries
       \/ archive'[m][i].entries \subseteq batch

\* A step that leaves the archive alone.
LEMMA SameArchiveGrows ==
  ASSUME TypeOK, archive' = archive
  PROVE  ArchiveGrows /\ Archived' = Archived
  BY DEF ArchiveGrows, Archived, TypeOK, DiskOK

\* A member that is begun is the last of its file, and not archived yet.
LEMMA BeginGrows ==
  ASSUME TypeOK, BeginMember
  PROVE  /\ ArchiveGrows /\ archive'[Current] # <<>>
         /\ archive'[Current][Len(archive'[Current])].entries = OfCurrent
<1> DEFINE r == [entries |-> OfCurrent, whole |-> FALSE]
           a == archive[Current]
<1>1. Current \in 1..Months /\ OfCurrent \subseteq batch
  BY CurrentIsAMonth DEF BeginMember, TypeOK, ProcOK
<1>2. r \in MemberType /\ r.entries = OfCurrent
  BY <1>1 DEF MemberType, TypeOK, ProcOK
<1>3. a \in Seq(MemberType) /\ archive \in [1..Months -> Seq(MemberType)]
  BY <1>1 DEF TypeOK, DiskOK
<1>4. archive' = [archive EXCEPT ![Current] = Append(a, r)]
  BY DEF BeginMember
<1> HIDE DEF r, a
<1>5. /\ Append(a, r) \in Seq(MemberType) /\ DOMAIN Append(a, r) = DOMAIN a \cup {Len(a) + 1}
      /\ Len(Append(a, r)) = Len(a) + 1 /\ Append(a, r)[Len(a) + 1] = r
      /\ Append(a, r) # <<>>
      /\ \A i \in DOMAIN a : Append(a, r)[i] = a[i]
  <2>1. Append(a, r) \in Seq(MemberType) /\ Len(Append(a, r)) = Len(a) + 1 /\ Len(a) \in Nat
    BY <1>2, <1>3
  <2>2. DOMAIN a = 1..Len(a) /\ DOMAIN Append(a, r) = 1 .. Len(a) + 1
    BY <1>3, <2>1
  <2>3. Append(a, r)[Len(a) + 1] = r /\ \A i \in 1..Len(a) : Append(a, r)[i] = a[i]
    BY <1>2, <1>3
  <2>4. Append(a, r) # <<>>
    BY <2>1
  <2>5. QED
    BY <2>1, <2>2, <2>3, <2>4
<1>6. /\ archive' \in [1..Months -> Seq(MemberType)] /\ archive'[Current] = Append(a, r)
      /\ \A m \in 1..Months \ {Current} : archive'[m] = archive[m]
  BY <1>1, <1>3, <1>4, <1>5
<1>7. \A m \in 1..Months : \A i \in DOMAIN archive[m] :
        i \in DOMAIN archive'[m] /\ archive'[m][i] = archive[m][i]
  BY <1>5, <1>6 DEF a
<1>8. Archived \subseteq Archived'
  BY <1>7, ArchivedAt, ArchivedAtNext
<1>9. \A m \in 1..Months : \A i \in DOMAIN archive'[m] :
        \/ i \in DOMAIN archive[m] /\ archive'[m][i].entries = archive[m][i].entries
        \/ archive'[m][i].entries \subseteq batch
  BY <1>1, <1>2, <1>5, <1>6 DEF a
<1>10. QED
  BY <1>2, <1>5, <1>6, <1>8, <1>9 DEF ArchiveGrows

\* When a member is complete, what it has is archived.
LEMMA CompletedGrows ==
  ASSUME TypeOK, Archiving, pc = "member", archive' = Completed
  PROVE  /\ ArchiveGrows
         /\ \A e \in OfCurrent : e.event \in Archived'
<1> DEFINE a == archive[Current]
           n == Len(a)
           r == [a[n] EXCEPT !.whole = TRUE]
<1>1. Current \in 1..Months /\ OfCurrent \subseteq batch
  BY CurrentIsAMonth DEF Archiving, TypeOK, ProcOK
<1>2. a \in Seq(MemberType) /\ archive \in [1..Months -> Seq(MemberType)]
  BY <1>1 DEF TypeOK, DiskOK
<1>3. n \in DOMAIN a /\ a[n] \in MemberType /\ a[n].entries = OfCurrent /\ n \in Nat
  BY <1>2 DEF Archiving
<1>4. r \in MemberType /\ r.entries = OfCurrent /\ r.whole
  BY <1>3 DEF MemberType
<1>5. archive' = [archive EXCEPT ![Current] = [a EXCEPT ![n] = r]]
  BY DEF Completed
<1> HIDE DEF r, a, n
<1>6. /\ [a EXCEPT ![n] = r] \in Seq(MemberType) /\ DOMAIN [a EXCEPT ![n] = r] = DOMAIN a
      /\ [a EXCEPT ![n] = r][n] = r
      /\ \A i \in DOMAIN a \ {n} : [a EXCEPT ![n] = r][i] = a[i]
  BY <1>2, <1>3, <1>4
<1>7. /\ archive' \in [1..Months -> Seq(MemberType)] /\ archive'[Current] = [a EXCEPT ![n] = r]
      /\ \A m \in 1..Months \ {Current} : archive'[m] = archive[m]
  BY <1>1, <1>2, <1>5, <1>6
<1>8. /\ DOMAIN archive'[Current] = DOMAIN archive[Current]
      /\ \A i \in DOMAIN archive[Current] :
           /\ archive'[Current][i].entries = archive[Current][i].entries
           /\ archive[Current][i].whole => archive'[Current][i].whole
  BY <1>3, <1>4, <1>6, <1>7 DEF a
<1>9. \A m \in 1..Months :
        /\ DOMAIN archive'[m] = DOMAIN archive[m]
        /\ \A i \in DOMAIN archive[m] :
             /\ archive'[m][i].entries = archive[m][i].entries
             /\ archive[m][i].whole => archive'[m][i].whole
  BY <1>7, <1>8
<1>10. Archived \subseteq Archived'
  BY <1>9, ArchivedAt, ArchivedAtNext
<1>11. \A e \in OfCurrent : e.event \in Archived'
  <2>1. n \in DOMAIN archive'[Current] /\ archive'[Current][n] = r
    BY <1>3, <1>6, <1>7
  <2>2. QED
    BY <1>1, <1>4, <2>1, ArchivedAtNext
<1>12. QED
  BY <1>7, <1>9, <1>10, <1>11 DEF ArchiveGrows

\* What a power failure leaves of a file is a file, and of a synced one all.
LEMMA SurvivorsType ==
  ASSUME NEW f \in FileType, NEW g \in Survivors(f)
  PROVE  g \in FileType /\ (f.synced => g = f)
<1>1. [f EXCEPT !.synced = TRUE] \in FileType /\ TornFile \in FileType
  BY FileTypes
<1>2. QED
  BY <1>1 DEF Survivors

\* A sequence of files, and each of them.
LEMMA KeptFiles ==
  ASSUME kept \in Seq(FileType)
  PROVE  /\ Len(kept) \in Nat /\ DOMAIN kept = 1..Len(kept)
         /\ \A i \in DOMAIN kept : kept[i] \in FileType
  OBVIOUS

\* Written back, or torn where they were not, files are files; written back they
\* have the same contents.
LEMMA WrittenBack ==
  ASSUME kept \in Seq(FileType)
  PROVE  /\ AllSynced(kept) \in Seq(FileType)
         /\ [i \in DOMAIN kept |-> IF kept[i].synced THEN kept[i] ELSE TornFile] \in Seq(FileType)
         /\ UNION {Events(AllSynced(kept)[i].st) : i \in DOMAIN AllSynced(kept)} = KeptEvents
<1> DEFINE Sync(f) == [f EXCEPT !.synced = TRUE]
           Torn(f) == IF f.synced THEN f ELSE TornFile
<1>1. \A i \in DOMAIN kept :
        /\ Sync(kept[i]) \in FileType /\ Sync(kept[i]).st = kept[i].st
        /\ Torn(kept[i]) \in FileType
  BY KeptFiles, FileTypes
<1>2. AllSynced(kept) = [i \in DOMAIN kept |-> Sync(kept[i])]
  BY DEF AllSynced
<1> HIDE DEF Sync, Torn
<1>3. [i \in DOMAIN kept |-> Sync(kept[i])] \in Seq(FileType)
  BY <1>1, KeptFiles
<1>4. [i \in DOMAIN kept |-> Torn(kept[i])] \in Seq(FileType)
  BY <1>1, KeptFiles
<1>5. UNION {Events(AllSynced(kept)[i].st) : i \in DOMAIN AllSynced(kept)} = KeptEvents
  BY <1>1, <1>2 DEF KeptEvents
<1>6. QED
  BY <1>2, <1>3, <1>4, <1>5 DEF Torn

\* A copy joins the others or takes the place of the latest one: the rest stay.
LEMMA CopyKept ==
  ASSUME kept \in Seq(FileType), NEW f \in FileType,
         NEW i \in {Len(kept), Len(kept) + 1} \ {0}
  PROVE  /\ KeptWith(i, f) \in Seq(FileType)
         /\ i \in DOMAIN KeptWith(i, f) /\ KeptWith(i, f)[i] = f
         /\ \A j \in DOMAIN kept \ {i} :
              j \in DOMAIN KeptWith(i, f) /\ KeptWith(i, f)[j] = kept[j]
<1>1. CASE i \in DOMAIN kept
  <2>1. KeptWith(i, f) = [kept EXCEPT ![i] = f]
    BY <1>1 DEF KeptWith
  <2>2. QED
    BY <1>1, <2>1, KeptFiles
<1>2. CASE i \notin DOMAIN kept
  <2>1. KeptWith(i, f) = Append(kept, f) /\ i = Len(kept) + 1
    BY <1>2, KeptFiles DEF KeptWith
  <2>2. QED
    BY <2>1, KeptFiles
<1>3. QED
  BY <1>1, <1>2

-----------------------------------------------------------------------------
(* The archive, at every step.                                             *)

\* The archive only grows: the members of a file are appended and completed,
\* and nothing takes one away.
LEMMA ArchiveStep ==
  ASSUME TypeOK, Archiving, [Next]_vars
  PROVE  ArchiveGrows
<1> USE DEF procVars, diskVars, history, counters
<1>1. CASE Log
  BY <1>1, SameArchiveGrows DEF Log
<1>2. CASE NextMonth
  BY <1>2, SameArchiveGrows DEF NextMonth
<1>3. ASSUME NEW j \in {"start", "export"}, Load(j)
      PROVE  ArchiveGrows
  BY <1>3, SameArchiveGrows DEF Load, Loaded, Serving
<1>4. CASE Backup
  BY <1>4, SameArchiveGrows DEF Backup
<1>5. CASE CopyToBackup
  BY <1>5, SameArchiveGrows DEF CopyToBackup
<1>6. CASE WriteTmp
  BY <1>6, SameArchiveGrows DEF WriteTmp
<1>7. CASE SyncTmp
  BY <1>7, SameArchiveGrows DEF SyncTmp
<1>8. CASE Rename
  BY <1>8, SameArchiveGrows DEF Rename, Saved, Loaded, Serving
<1>9. CASE SaveFails
  BY <1>9, SameArchiveGrows DEF SaveFails, Saved, Loaded, Serving
<1>10. CASE SaveNow
  BY <1>10, SameArchiveGrows DEF SaveNow
<1>11. CASE BeginMember
  BY <1>11, BeginGrows
<1>12. CASE EndMember
  BY <1>12, CompletedGrows DEF EndMember
<1>13. CASE AppendFails
  BY <1>13, SameArchiveGrows DEF AppendFails
<1>14. CASE Drop
  BY <1>14, SameArchiveGrows DEF Drop
<1>15. CASE Stop
  BY <1>15, SameArchiveGrows DEF Stop
<1>16. CASE ExportOnline
  BY <1>16, SameArchiveGrows DEF ExportOnline
<1>17. CASE ExportOffline
  BY <1>17, SameArchiveGrows DEF ExportOffline
<1>18. CASE Import
  BY <1>18, SameArchiveGrows DEF Import
<1>19. CASE KeepOld
  BY <1>19, SameArchiveGrows DEF KeepOld
<1>20. CASE Crash
  <2>1. archive' = archive \/ (pc = "member" /\ archive' = Completed)
    BY <1>20 DEF Crash, Die
  <2>2. QED
    BY <2>1, SameArchiveGrows, CompletedGrows
<1>21. CASE PowerFailure
  <2>1. archive' = archive \/ (pc = "member" /\ archive' = Completed)
    BY <1>21 DEF PowerFailure, Die
  <2>2. QED
    BY <2>1, SameArchiveGrows, CompletedGrows
<1>22. CASE Writeback
  BY <1>22, SameArchiveGrows DEF Writeback
<1>23. CASE UNCHANGED vars
  BY <1>23, SameArchiveGrows DEF vars
<1>24. QED
  BY <1>1, <1>2, <1>3, <1>4, <1>5, <1>6, <1>7, <1>8,
     <1>9, <1>10, <1>11, <1>12, <1>13, <1>14, <1>15, <1>16,
     <1>17, <1>18, <1>19, <1>20, <1>21, <1>22, <1>23 DEF Next

-----------------------------------------------------------------------------
(* Types.                                                                  *)

\* The entry that log makes.
LEMMA NewEntry ==
  ASSUME TypeOK, AllLogged
  PROVE  /\ Cardinality(named) \in Nat
         /\ [id |-> mem.next + 1, event |-> Cardinality(named) + 1, month |-> month] \in Entry
<1>1. Cardinality(named) \in Nat
  BY FS_CardinalityType DEF AllLogged
<1>2. mem.next \in Nat /\ month \in 1..Months
  BY StateTypes DEF TypeOK, ProcOK
<1>3. QED
  BY <1>1, <1>2 DEF Entry

\* What log does to the state.
LEMMA LogAdds ==
  ASSUME TypeOK, AllLogged, Log
  PROVE  \E e \in Entry :
           /\ e.id = mem.next + 1 /\ e.event = Cardinality(named) + 1
           /\ mem' \in State /\ mem'.live = mem.live \cup {e} /\ mem'.next = e.id
           /\ named' = named \cup {e}
<1> DEFINE e == [id |-> mem.next + 1, event |-> Cardinality(named) + 1, month |-> month]
<1>1. e \in Entry /\ e.id = mem.next + 1 /\ e.event = Cardinality(named) + 1
  BY NewEntry
<1>2. mem' = [live |-> mem.live \cup {e}, next |-> e.id] /\ named' = named \cup {e}
  BY DEF Log
<1> HIDE DEF e
<1>3. mem.live \cup {e} \in SUBSET Entry /\ e.id \in Nat
  BY <1>1, StateTypes, EntryTypes DEF TypeOK, ProcOK
<1>4. mem' \in State /\ mem'.live = mem.live \cup {e} /\ mem'.next = e.id
  BY <1>2, <1>3, StateTypes
<1>5. QED
  BY <1>1, <1>2, <1>4

\* What archiveOld's second part does to the state.
LEMMA DropRemoves ==
  ASSUME TypeOK, Drop
  PROVE  /\ mem' \in State /\ mem'.next = mem.next
         /\ mem'.live = {e \in mem.live : e.id > cut}
<1> DEFINE L == {e \in mem.live : e.id > cut}
<1>1. L \in SUBSET Entry /\ mem \in State
  BY StateTypes DEF TypeOK, ProcOK
<1>2. mem' = [mem EXCEPT !.live = L]
  BY DEF Drop
<1> HIDE DEF L
<1>3. mem' \in State /\ mem'.next = mem.next /\ mem'.live = L
  BY <1>1, <1>2, StateTypes
<1>4. QED
  BY <1>3 DEF L

\* What saveNow takes for the archive.
LEMMA SaveNowTakes ==
  ASSUME TypeOK, AllLogged, FilesDecode, SaveNow, pc' = "append"
  PROVE  /\ batch' \subseteq mem.live
         /\ cut' \in Nat /\ cut' <= mem.next
         /\ \A e \in mem.live : e.id <= cut' => e \in batch'
<1>1. mem \in State /\ ValidLog(mem) /\ IsFiniteSet(mem.live)
  BY FS_Subset DEF TypeOK, ProcOK, AllLogged, FilesDecode
<1>2. /\ ~(Cardinality(mem.live) <= MaxActivity)
      /\ batch' = Oldest(mem) /\ cut' = Max({e.id : e \in Oldest(mem)})
  BY DEF SaveNow
<1>3. Cardinality(mem.live) > MaxActivity
  <2>1. Cardinality(mem.live) \in Nat
    BY <1>1, FS_CardinalityType
  <2>2. MaxActivity \in Nat
    BY DataDirAssumption
  <2>3. QED
    BY <1>2, <2>1, <2>2
<1>4. QED
  BY <1>1, <1>2, <1>3, OldestIsAPrefix

\* An export with the archive is a state, of entries that were logged.
LEMMA WithArchiveType ==
  ASSUME TypeOK, AllLogged
  PROVE  WithArchive(mem) \in State /\ WithArchive(mem).live \subseteq named
<1> DEFINE L == MergeActivity(ReadArchive, mem.live)
<1>1. mem \in State /\ mem.live \subseteq Entry /\ named \subseteq Entry
  BY StateTypes DEF TypeOK, ProcOK
<1>2. ReadArchive \subseteq named
  BY DEF ReadArchive, AllLogged
<1>3. L \subseteq named
  BY <1>2 DEF MergeActivity, AllLogged
<1>4. WithArchive(mem) = [mem EXCEPT !.live = L]
  BY DEF WithArchive
<1> HIDE DEF L
<1>5. L \in SUBSET Entry
  BY <1>1, <1>3
<1>6. QED
  BY <1>1, <1>3, <1>4, <1>5, StateTypes

\* Every step keeps the types.
LEMMA TypeStep ==
  ASSUME TypeOK, AllLogged, FilesDecode, Archiving, [Next]_vars
  PROVE  TypeOK'
<1> USE DEF procVars, diskVars, history, counters
<1>1. CASE Log
  <2>1. PICK e \in Entry : mem' \in State /\ named' = named \cup {e}
    BY <1>1, LogAdds
  <2>2. ProcOK'
    BY <1>1, <2>1 DEF Log, TypeOK, ProcOK
  <2>3. DiskOK'
    BY <1>1 DEF Log, TypeOK, DiskOK
  <2>4. QED
    BY <1>1, <2>1, <2>2, <2>3 DEF Log, TypeOK
<1>2. CASE NextMonth
  <2>1. month' \in 1..Months
    BY <1>2, DataDirAssumption DEF NextMonth, TypeOK
  <2>2. ProcOK' /\ DiskOK'
    BY <1>2 DEF NextMonth, TypeOK, ProcOK, DiskOK
  <2>3. QED
    BY <1>2, <2>1, <2>2 DEF NextMonth, TypeOK
<1>3. ASSUME NEW j \in {"start", "export"}, Load(j)
      PROVE  TypeOK'
  <2>1. ProcOK'
    BY <1>3, FileTypes DEF Load, Loaded, Serving, TypeOK, ProcOK, DiskOK
  <2>2. DiskOK'
    BY <1>3 DEF Load, TypeOK, DiskOK
  <2>3. QED
    BY <1>3, <2>1, <2>2 DEF Load, Loaded, Serving, TypeOK
<1>4. CASE Backup
  <2>1. ProcOK'
    BY <1>4 DEF Backup, TypeOK, ProcOK
  <2>2. DiskOK'
    BY <1>4, FileTypes DEF Backup, TypeOK, DiskOK
  <2>3. QED
    BY <1>4, <2>1, <2>2 DEF Backup, TypeOK
<1>5. CASE CopyToBackup
  <2>1. ProcOK'
    BY <1>5 DEF CopyToBackup, TypeOK, ProcOK
  <2>2. DiskOK'
    <3>1. [main EXCEPT !.synced = FALSE] \in FileType
      BY FileTypes DEF TypeOK, DiskOK
    <3>2. QED
      BY <1>5, <3>1 DEF CopyToBackup, TypeOK, DiskOK
  <2>3. QED
    BY <1>5, <2>1, <2>2 DEF CopyToBackup, TypeOK
<1>6. CASE WriteTmp
  <2>1. ProcOK'
    BY <1>6, FileTypes DEF WriteTmp, TypeOK, ProcOK
  <2>2. DiskOK'
    BY <1>6 DEF WriteTmp, TypeOK, DiskOK
  <2>3. QED
    BY <1>6, <2>1, <2>2 DEF WriteTmp, TypeOK
<1>7. CASE SyncTmp
  <2>1. ProcOK'
    <3>1. [tmp EXCEPT !.synced = TRUE] \in FileType
      BY FileTypes DEF TypeOK, ProcOK
    <3>2. QED
      BY <1>7, <3>1 DEF SyncTmp, TypeOK, ProcOK
  <2>2. DiskOK'
    BY <1>7 DEF SyncTmp, TypeOK, DiskOK
  <2>3. QED
    BY <1>7, <2>1, <2>2 DEF SyncTmp, TypeOK
<1>8. CASE Rename
  <2>1. ProcOK'
    BY <1>8, FileTypes DEF Rename, Saved, Loaded, Serving, TypeOK, ProcOK
  <2>2. DiskOK'
    BY <1>8 DEF Rename, TypeOK, ProcOK, DiskOK
  <2>3. Events(tmp.st) \subseteq Nat
    BY FileTypes, StateTypes, EntryTypes DEF Events, TypeOK, ProcOK
  <2>4. saved' \subseteq Nat /\ ever' \subseteq Nat
    BY <1>8, <2>3 DEF Rename, TypeOK
  <2>5. QED
    BY <1>8, <2>1, <2>2, <2>4 DEF Rename, TypeOK
<1>9. CASE SaveFails
  <2>1. ProcOK'
    BY <1>9, FileTypes DEF SaveFails, Saved, Loaded, Serving, TypeOK, ProcOK
  <2>2. DiskOK'
    BY <1>9 DEF SaveFails, TypeOK, DiskOK
  <2>3. QED
    BY <1>9, <2>1, <2>2 DEF SaveFails, Saved, Loaded, Serving, TypeOK
<1>10. CASE SaveNow
  <2>1. ProcOK'
    <3>1. CASE pc' = "append"
      <4>1. batch' \subseteq Entry /\ cut' \in Nat
        BY <1>10, <3>1, SaveNowTakes, StateTypes DEF TypeOK, ProcOK
      <4>2. QED
        BY <1>10, <3>1, <4>1 DEF SaveNow, TypeOK, ProcOK
    <3>2. CASE pc' # "append"
      BY <1>10, <3>2 DEF SaveNow, TypeOK, ProcOK
    <3>3. QED
      BY <3>1, <3>2
  <2>2. DiskOK'
    BY <1>10 DEF SaveNow, TypeOK, DiskOK
  <2>3. QED
    BY <1>10, <2>1, <2>2 DEF SaveNow, TypeOK
<1>11. CASE BeginMember
  <2>1. ProcOK'
    BY <1>11 DEF BeginMember, TypeOK, ProcOK
  <2>2. DiskOK'
    BY <1>11, BeginGrows DEF BeginMember, ArchiveGrows, TypeOK, DiskOK
  <2>3. QED
    BY <1>11, <2>1, <2>2 DEF BeginMember, TypeOK
<1>12. CASE EndMember
  <2>1. ProcOK'
    BY <1>12 DEF EndMember, TypeOK, ProcOK
  <2>2. DiskOK'
    BY <1>12, CompletedGrows DEF EndMember, ArchiveGrows, TypeOK, DiskOK
  <2>3. QED
    BY <1>12, <2>1, <2>2 DEF EndMember, TypeOK
<1>13. CASE AppendFails
  <2>1. ProcOK'
    BY <1>13 DEF AppendFails, TypeOK, ProcOK
  <2>2. DiskOK'
    BY <1>13 DEF AppendFails, TypeOK, DiskOK
  <2>3. QED
    BY <1>13, <2>1, <2>2 DEF AppendFails, TypeOK
<1>14. CASE Drop
  <2>1. ProcOK'
    BY <1>14, DropRemoves DEF Drop, TypeOK, ProcOK
  <2>2. DiskOK'
    BY <1>14 DEF Drop, TypeOK, DiskOK
  <2>3. QED
    BY <1>14, <2>1, <2>2 DEF Drop, TypeOK
<1>15. CASE Stop
  <2>1. ProcOK'
    BY <1>15 DEF Stop, TypeOK, ProcOK
  <2>2. DiskOK'
    BY <1>15 DEF Stop, TypeOK, DiskOK
  <2>3. QED
    BY <1>15, <2>1, <2>2 DEF Stop, TypeOK
<1>16. CASE ExportOnline
  <2>1. ProcOK' /\ DiskOK'
    BY <1>16 DEF ExportOnline, TypeOK, ProcOK, DiskOK
  <2>2. mem \in State
    BY DEF TypeOK, ProcOK
  <2>3. QED
    BY <1>16, <2>1, <2>2 DEF ExportOnline, TypeOK
<1>17. CASE ExportOffline
  <2>1. ProcOK' /\ DiskOK'
    BY <1>17 DEF ExportOffline, TypeOK, ProcOK, DiskOK
  <2>2. mem \in State /\ WithArchive(mem) \in State
    BY WithArchiveType DEF TypeOK, ProcOK
  <2>3. QED
    BY <1>17, <2>1, <2>2 DEF ExportOffline, TypeOK
<1>18. CASE Import
  <2>1. ProcOK'
    BY <1>18 DEF Import, TypeOK, ProcOK
  <2>2. DiskOK'
    BY <1>18 DEF Import, TypeOK, DiskOK
  <2>3. Events(main.st) \subseteq Nat
    BY FileTypes, StateTypes, EntryTypes DEF Events, TypeOK, DiskOK
  <2>4. month' = month /\ named' = named /\ exported' = exported /\ imports' = imports + 1
    BY <1>18 DEF Import
  <2>5. saved' = saved /\ ever' = ever /\ outage' = outage
    BY <1>18 DEF Import
  <2>6. faults' \in Nat /\ unkept' \subseteq Nat
    <3>1. faults' \in {faults, faults + 1} /\ unkept' \subseteq unkept \cup Events(main.st)
      BY <1>18 DEF Import
    <3>2. faults \in Nat /\ unkept \subseteq Nat
      BY DEF TypeOK
    <3>3. QED
      BY <2>3, <3>1, <3>2
  <2>7. QED
    BY <2>1, <2>2, <2>4, <2>5, <2>6 DEF TypeOK
<1>19. CASE KeepOld
  <2>1. ProcOK'
    BY <1>19 DEF KeepOld, TypeOK, ProcOK
  <2>2. DiskOK'
    <3>1. [main EXCEPT !.synced = FALSE] \in FileType /\ TornFile \in FileType
      BY FileTypes DEF TypeOK, DiskOK
    <3>2. kept' \in Seq(FileType)
      BY <1>19, <3>1, CopyKept DEF KeepOld, TypeOK, DiskOK
    <3>3. QED
      BY <1>19, <3>2 DEF KeepOld, TypeOK, DiskOK
  <2>3. unkept' \subseteq Nat
    <3>1. \A i \in DOMAIN kept : kept[i].st \in State
      BY KeptFiles, FileTypes DEF TypeOK, DiskOK
    <3>2. \A i \in DOMAIN kept : Events(kept[i].st) \subseteq Nat
      BY <3>1, StateTypes, EntryTypes DEF Events
    <3>3. QED
      BY <1>19, <3>2 DEF KeepOld, TypeOK
  <2>4. QED
    BY <1>19, <2>1, <2>2, <2>3 DEF KeepOld, TypeOK
<1>20. CASE Crash
  <2>1. ProcOK'
    BY <1>20, FileTypes, StateTypes DEF Crash, Die, TypeOK, ProcOK
  <2>2. DiskOK'
    <3>1. archive' \in [1..Months -> Seq(MemberType)]
      BY <1>20, ArchiveStep DEF Next, ArchiveGrows
    <3>2. QED
      BY <1>20, <3>1 DEF Crash, TypeOK, DiskOK
  <2>3. QED
    BY <1>20, <2>1, <2>2 DEF Crash, Die, TypeOK
<1>21. CASE PowerFailure
  <2>1. ProcOK'
    BY <1>21, FileTypes, StateTypes DEF PowerFailure, Die, TypeOK, ProcOK
  <2>2. DiskOK'
    <3>1. archive' \in [1..Months -> Seq(MemberType)]
      BY <1>21, ArchiveStep DEF Next, ArchiveGrows
    <3>2. main' \in FileType /\ bak' \in FileType
      BY <1>21, SurvivorsType DEF PowerFailure, TypeOK, DiskOK
    <3>3. kept' \in Seq(FileType)
      BY <1>21, WrittenBack DEF PowerFailure, TypeOK, DiskOK
    <3>4. QED
      BY <3>1, <3>2, <3>3 DEF DiskOK
  <2>3. QED
    BY <1>21, <2>1, <2>2 DEF PowerFailure, Die, TypeOK
<1>22. CASE Writeback
  <2>1. ProcOK'
    BY <1>22 DEF Writeback, TypeOK, ProcOK
  <2>2. DiskOK'
    <3>1. bak' \in FileType
      BY <1>22, FileTypes DEF Writeback, TypeOK, DiskOK
    <3>2. kept' \in Seq(FileType)
      BY <1>22, WrittenBack DEF Writeback, TypeOK, DiskOK
    <3>3. QED
      BY <1>22, <3>1, <3>2 DEF Writeback, TypeOK, DiskOK
  <2>3. QED
    BY <1>22, <2>1, <2>2 DEF Writeback, TypeOK
<1>23. CASE UNCHANGED vars
  BY <1>23 DEF vars, TypeOK, ProcOK, DiskOK
<1>24. QED
  BY <1>1, <1>2, <1>3, <1>4, <1>5, <1>6, <1>7, <1>8,
     <1>9, <1>10, <1>11, <1>12, <1>13, <1>14, <1>15, <1>16,
     <1>17, <1>18, <1>19, <1>20, <1>21, <1>22, <1>23 DEF Next

-----------------------------------------------------------------------------
(* Entries.                                                                *)

\* The archive takes its entries from the batch.
LEMMA MembersLogged ==
  ASSUME AllLogged, ArchiveGrows, named \subseteq named'
  PROVE  \A k \in Members' : Member(k)'.entries \subseteq named'
<1>1. \A m \in 1..Months : \A i \in DOMAIN archive[m] : archive[m][i].entries \subseteq named
  BY MembersAt DEF AllLogged
<1>2. ASSUME NEW m \in 1..Months, NEW i \in DOMAIN archive'[m]
      PROVE  archive'[m][i].entries \subseteq named'
  <2>1. \/ i \in DOMAIN archive[m] /\ archive'[m][i].entries = archive[m][i].entries
        \/ archive'[m][i].entries \subseteq batch
    BY DEF ArchiveGrows
  <2>2. batch \subseteq named
    BY DEF AllLogged
  <2>3. QED
    BY <1>1, <2>1, <2>2
<1>3. QED
  BY <1>2 DEF Members, Member

\* A step that logs nothing need only show where the entries are from.
LEMMA NothingNew ==
  ASSUME AllLogged, ArchiveGrows, named' = named,
         mem'.live \subseteq named, batch' \subseteq named,
         main'.st.live \subseteq named, tmp'.st.live \subseteq named,
         \A st \in exported' : st.live \subseteq named
  PROVE  AllLogged'
<1>1. \A k \in Members' : Member(k)'.entries \subseteq named'
  BY MembersLogged
<1>2. QED
  BY <1>1 DEF AllLogged

\* Every step keeps the entries to those that were logged, each event in one.
LEMMA LoggedStep ==
  ASSUME TypeOK, AllLogged, FilesDecode, ArchiveGrows, [Next]_vars
  PROVE  AllLogged'
<1> USE DEF procVars, diskVars, history, counters
<1>1. CASE Log
  <2>1. PICK e \in Entry : /\ e.event = Cardinality(named) + 1
                            /\ mem'.live = mem.live \cup {e} /\ named' = named \cup {e}
    BY <1>1, LogAdds
  <2>2. Cardinality(named) \in Nat /\ \A f \in named : f.event \in Nat /\ f.event <= Cardinality(named)
    BY NewEntry, EntryTypes DEF AllLogged, TypeOK
  <2>3. e \notin named
    BY <2>1, <2>2
  <2>4. IsFiniteSet(named') /\ Cardinality(named') = Cardinality(named) + 1
    BY <2>1, <2>3, FS_AddElement DEF AllLogged
  <2>5. \A f \in named' : f.event <= Cardinality(named')
    BY <2>1, <2>2, <2>4
  <2>6. \A f, g \in named' : f.event = g.event => f = g
    BY <2>1, <2>2 DEF AllLogged
  <2>7. \A k \in Members' : Member(k)'.entries \subseteq named'
    BY <2>1, MembersLogged
  <2>8. QED
    BY <1>1, <2>1, <2>4, <2>5, <2>6, <2>7 DEF Log, AllLogged
<1>2. CASE NextMonth
  <2>1. /\ named' = named /\ mem'.live \subseteq named /\ batch' \subseteq named
        /\ main'.st.live \subseteq named /\ tmp'.st.live \subseteq named
        /\ \A st \in exported' : st.live \subseteq named
    BY <1>2 DEF NextMonth, AllLogged
  <2>2. QED
    BY <2>1, NothingNew
<1>3. ASSUME NEW j \in {"start", "export"}, Load(j)
      PROVE  AllLogged'
  <2>1. /\ named' = named /\ mem'.live \subseteq named /\ batch' \subseteq named
        /\ main'.st.live \subseteq named /\ tmp'.st.live \subseteq named
        /\ \A st \in exported' : st.live \subseteq named
    BY <1>3 DEF Load, Loaded, Serving, AllLogged
  <2>2. QED
    BY <2>1, NothingNew
<1>4. CASE Backup
  <2>1. /\ named' = named /\ mem'.live \subseteq named /\ batch' \subseteq named
        /\ main'.st.live \subseteq named /\ tmp'.st.live \subseteq named
        /\ \A st \in exported' : st.live \subseteq named
    BY <1>4 DEF Backup, AllLogged
  <2>2. QED
    BY <2>1, NothingNew
<1>5. CASE CopyToBackup
  <2>1. /\ named' = named /\ mem'.live \subseteq named /\ batch' \subseteq named
        /\ main'.st.live \subseteq named /\ tmp'.st.live \subseteq named
        /\ \A st \in exported' : st.live \subseteq named
    BY <1>5 DEF CopyToBackup, AllLogged
  <2>2. QED
    BY <2>1, NothingNew
<1>6. CASE WriteTmp
  <2>1. /\ named' = named /\ mem'.live \subseteq named /\ batch' \subseteq named
        /\ main'.st.live \subseteq named /\ tmp'.st.live \subseteq named
        /\ \A st \in exported' : st.live \subseteq named
    BY <1>6, FileTypes DEF WriteTmp, AllLogged, TypeOK, ProcOK
  <2>2. QED
    BY <2>1, NothingNew
<1>7. CASE SyncTmp
  <2>1. /\ named' = named /\ mem'.live \subseteq named /\ batch' \subseteq named
        /\ main'.st.live \subseteq named /\ tmp'.st.live \subseteq named
        /\ \A st \in exported' : st.live \subseteq named
    BY <1>7, FileTypes DEF SyncTmp, AllLogged, TypeOK, ProcOK
  <2>2. QED
    BY <2>1, NothingNew
<1>8. CASE Rename
  <2>1. /\ named' = named /\ mem'.live \subseteq named /\ batch' \subseteq named
        /\ main'.st.live \subseteq named /\ tmp'.st.live \subseteq named
        /\ \A st \in exported' : st.live \subseteq named
    BY <1>8, FileTypes, StateTypes DEF Rename, Saved, Loaded, Serving, AllLogged
  <2>2. QED
    BY <2>1, NothingNew
<1>9. CASE SaveFails
  <2>1. /\ named' = named /\ mem'.live \subseteq named /\ batch' \subseteq named
        /\ main'.st.live \subseteq named /\ tmp'.st.live \subseteq named
        /\ \A st \in exported' : st.live \subseteq named
    BY <1>9, FileTypes, StateTypes DEF SaveFails, Saved, Loaded, Serving, AllLogged
  <2>2. QED
    BY <2>1, NothingNew
<1>10. CASE SaveNow
  <2>1. batch' \subseteq named
    BY <1>10, SaveNowTakes DEF SaveNow, AllLogged
  <2>2. /\ named' = named /\ mem'.live \subseteq named
        /\ main'.st.live \subseteq named /\ tmp'.st.live \subseteq named
        /\ \A st \in exported' : st.live \subseteq named
    BY <1>10 DEF SaveNow, AllLogged
  <2>3. QED
    BY <2>1, <2>2, NothingNew
<1>11. CASE BeginMember
  <2>1. /\ named' = named /\ mem'.live \subseteq named /\ batch' \subseteq named
        /\ main'.st.live \subseteq named /\ tmp'.st.live \subseteq named
        /\ \A st \in exported' : st.live \subseteq named
    BY <1>11 DEF BeginMember, AllLogged
  <2>2. QED
    BY <2>1, NothingNew
<1>12. CASE EndMember
  <2>1. /\ named' = named /\ mem'.live \subseteq named /\ batch' \subseteq named
        /\ main'.st.live \subseteq named /\ tmp'.st.live \subseteq named
        /\ \A st \in exported' : st.live \subseteq named
    BY <1>12 DEF EndMember, AllLogged
  <2>2. QED
    BY <2>1, NothingNew
<1>13. CASE AppendFails
  <2>1. /\ named' = named /\ mem'.live \subseteq named /\ batch' \subseteq named
        /\ main'.st.live \subseteq named /\ tmp'.st.live \subseteq named
        /\ \A st \in exported' : st.live \subseteq named
    BY <1>13 DEF AppendFails, AllLogged
  <2>2. QED
    BY <2>1, NothingNew
<1>14. CASE Drop
  <2>1. /\ named' = named /\ mem'.live \subseteq named /\ batch' \subseteq named
        /\ main'.st.live \subseteq named /\ tmp'.st.live \subseteq named
        /\ \A st \in exported' : st.live \subseteq named
    BY <1>14, DropRemoves DEF Drop, AllLogged
  <2>2. QED
    BY <2>1, NothingNew
<1>15. CASE Stop
  <2>1. /\ named' = named /\ mem'.live \subseteq named /\ batch' \subseteq named
        /\ main'.st.live \subseteq named /\ tmp'.st.live \subseteq named
        /\ \A st \in exported' : st.live \subseteq named
    BY <1>15 DEF Stop, AllLogged
  <2>2. QED
    BY <2>1, NothingNew
<1>16. CASE ExportOnline
  <2>1. /\ named' = named /\ mem'.live \subseteq named /\ batch' \subseteq named
        /\ main'.st.live \subseteq named /\ tmp'.st.live \subseteq named
        /\ \A st \in exported' : st.live \subseteq named
    BY <1>16 DEF ExportOnline, AllLogged
  <2>2. QED
    BY <2>1, NothingNew
<1>17. CASE ExportOffline
  <2>1. /\ named' = named /\ mem'.live \subseteq named /\ batch' \subseteq named
        /\ main'.st.live \subseteq named /\ tmp'.st.live \subseteq named
        /\ \A st \in exported' : st.live \subseteq named
    BY <1>17, WithArchiveType DEF ExportOffline, AllLogged
  <2>2. QED
    BY <2>1, NothingNew
<1>18. CASE Import
  <2>1. /\ named' = named /\ mem'.live \subseteq named /\ batch' \subseteq named
        /\ main'.st.live \subseteq named /\ tmp'.st.live \subseteq named
        /\ \A st \in exported' : st.live \subseteq named
    BY <1>18 DEF Import, AllLogged
  <2>2. QED
    BY <2>1, NothingNew
<1>19. CASE KeepOld
  <2>1. /\ named' = named /\ mem'.live \subseteq named /\ batch' \subseteq named
        /\ main'.st.live \subseteq named /\ tmp'.st.live \subseteq named
        /\ \A st \in exported' : st.live \subseteq named
    BY <1>19 DEF KeepOld, AllLogged
  <2>2. QED
    BY <2>1, NothingNew
<1>20. CASE Crash
  <2>1. /\ named' = named /\ mem'.live \subseteq named /\ batch' \subseteq named
        /\ main'.st.live \subseteq named /\ tmp'.st.live \subseteq named
        /\ \A st \in exported' : st.live \subseteq named
    BY <1>20, FileTypes, StateTypes DEF Crash, Die, AllLogged
  <2>2. QED
    BY <2>1, NothingNew
<1>21. CASE PowerFailure
  <2>1. main' = main
    BY <1>21, SurvivorsType DEF PowerFailure, TypeOK, DiskOK, FilesDecode
  <2>2. /\ named' = named /\ mem'.live \subseteq named /\ batch' \subseteq named
        /\ main'.st.live \subseteq named /\ tmp'.st.live \subseteq named
        /\ \A st \in exported' : st.live \subseteq named
    BY <1>21, <2>1, FileTypes, StateTypes DEF PowerFailure, Die, AllLogged
  <2>3. QED
    BY <2>2, NothingNew
<1>22. CASE Writeback
  <2>1. /\ named' = named /\ mem'.live \subseteq named /\ batch' \subseteq named
        /\ main'.st.live \subseteq named /\ tmp'.st.live \subseteq named
        /\ \A st \in exported' : st.live \subseteq named
    BY <1>22 DEF Writeback, AllLogged
  <2>2. QED
    BY <2>1, NothingNew
<1>23. CASE UNCHANGED vars
  BY <1>23 DEF vars, AllLogged, Members, Member
<1>24. QED
  BY <1>1, <1>2, <1>3, <1>4, <1>5, <1>6, <1>7, <1>8,
     <1>9, <1>10, <1>11, <1>12, <1>13, <1>14, <1>15, <1>16,
     <1>17, <1>18, <1>19, <1>20, <1>21, <1>22, <1>23 DEF Next

-----------------------------------------------------------------------------
(* board.json decodes.                                                     *)

\* Every step keeps board.json, and what will replace it, decodable.
LEMMA DecodeStep ==
  ASSUME TypeOK, AllLogged, FilesDecode, [Next]_vars
  PROVE  FilesDecode'
<1> USE DEF procVars, diskVars, history, counters
<1>1. CASE Log
  <2>1. PICK e \in Entry : /\ e.id = mem.next + 1
                            /\ mem'.live = mem.live \cup {e} /\ mem'.next = e.id
    BY <1>1, LogAdds
  <2>2. mem.next \in Nat /\ \A d \in mem.live : d.id \in Nat /\ d.id <= mem.next
    BY StateTypes, EntryTypes DEF TypeOK, ProcOK, FilesDecode, ValidLog
  <2>3. ValidLog(mem)'
    BY <2>1, <2>2 DEF ValidLog
  <2>4. QED
    BY <1>1, <2>1, <2>3 DEF Log, FilesDecode, MainLoads
<1>2. CASE NextMonth
  BY <1>2 DEF NextMonth, FilesDecode, MainLoads
<1>3. ASSUME NEW j \in {"start", "export"}, Load(j)
      PROVE  FilesDecode'
  <2>1. ValidLog(mem)'
    BY <1>3 DEF Load, FilesDecode, MainLoads, Readable
  <2>2. QED
    BY <1>3, <2>1 DEF Load, Loaded, FilesDecode, MainLoads
<1>4. CASE Backup
  BY <1>4 DEF Backup, FilesDecode, MainLoads
<1>5. CASE CopyToBackup
  BY <1>5 DEF CopyToBackup, FilesDecode, MainLoads
<1>6. CASE WriteTmp
  <2>1. tmp'.kind = "current" /\ tmp'.st = mem
    BY <1>6, FileTypes DEF WriteTmp, TypeOK, ProcOK
  <2>2. QED
    BY <1>6, <2>1 DEF WriteTmp, FilesDecode, MainLoads
<1>7. CASE SyncTmp
  <2>1. tmp'.kind = tmp.kind /\ tmp'.st = tmp.st /\ tmp'.synced
    BY <1>7, FileTypes DEF SyncTmp, TypeOK, ProcOK
  <2>2. QED
    BY <1>7, <2>1 DEF SyncTmp, FilesDecode, MainLoads
<1>8. CASE Rename
  <2>1. main' = tmp /\ tmp.kind = "current" /\ tmp.synced /\ ValidLog(tmp.st)
    BY <1>8 DEF Rename, FilesDecode
  <2>2. main'.kind = "current" /\ main'.synced /\ MainLoads'
    BY <2>1 DEF MainLoads, Readable
  <2>3. pc' \notin {"sync", "rename"} /\ mem' = mem
    BY <1>8 DEF Rename, Saved, Loaded
  <2>4. QED
    BY <2>2, <2>3 DEF FilesDecode
<1>9. CASE SaveFails
  BY <1>9 DEF SaveFails, Saved, Loaded, FilesDecode, MainLoads
<1>10. CASE SaveNow
  BY <1>10 DEF SaveNow, FilesDecode, MainLoads
<1>11. CASE BeginMember
  BY <1>11 DEF BeginMember, FilesDecode, MainLoads
<1>12. CASE EndMember
  BY <1>12 DEF EndMember, FilesDecode, MainLoads
<1>13. CASE AppendFails
  BY <1>13 DEF AppendFails, FilesDecode, MainLoads
<1>14. CASE Drop
  <2>1. mem'.next = mem.next /\ mem'.live \subseteq mem.live
    BY <1>14, DropRemoves
  <2>2. ValidLog(mem)'
    BY <2>1 DEF FilesDecode, ValidLog
  <2>3. QED
    BY <1>14, <2>2 DEF Drop, FilesDecode, MainLoads
<1>15. CASE Stop
  BY <1>15 DEF Stop, FilesDecode, MainLoads
<1>16. CASE ExportOnline
  BY <1>16 DEF ExportOnline, FilesDecode, MainLoads
<1>17. CASE ExportOffline
  BY <1>17 DEF ExportOffline, FilesDecode, MainLoads
<1>18. CASE Import
  <2>1. ValidLog(mem)' /\ pc' \notin {"sync", "rename"}
    BY <1>18 DEF Import
  <2>2. QED
    BY <1>18, <2>1 DEF Import, FilesDecode, MainLoads
<1>19. CASE KeepOld
  BY <1>19 DEF KeepOld, FilesDecode, MainLoads
<1>20. CASE Crash
  <2>1. ValidLog(mem)' /\ pc' = "down"
    BY <1>20, StateTypes DEF Crash, Die, ValidLog
  <2>2. main' = main
    BY <1>20, SurvivorsType DEF Crash, TypeOK, DiskOK, FilesDecode
  <2>3. QED
    BY <2>1, <2>2 DEF FilesDecode, MainLoads
<1>21. CASE PowerFailure
  <2>1. ValidLog(mem)' /\ pc' = "down"
    BY <1>21, StateTypes DEF PowerFailure, Die, ValidLog
  <2>2. main' = main
    BY <1>21, SurvivorsType DEF PowerFailure, TypeOK, DiskOK, FilesDecode
  <2>3. QED
    BY <2>1, <2>2 DEF FilesDecode, MainLoads
<1>22. CASE Writeback
  BY <1>22 DEF Writeback, FilesDecode, MainLoads
<1>23. CASE UNCHANGED vars
  BY <1>23 DEF vars, FilesDecode, MainLoads
<1>24. QED
  BY <1>1, <1>2, <1>3, <1>4, <1>5, <1>6, <1>7, <1>8,
     <1>9, <1>10, <1>11, <1>12, <1>13, <1>14, <1>15, <1>16,
     <1>17, <1>18, <1>19, <1>20, <1>21, <1>22, <1>23 DEF Next

-----------------------------------------------------------------------------
(* Nothing is lost.                                                        *)

\* Every step keeps what board.json has in memory or in the archive.
LEMMA CoveredStep ==
  ASSUME TypeOK, AllLogged, FilesDecode, Archiving, ArchiveGrows, Covered, [Next]_vars
  PROVE  Covered'
<1> USE DEF procVars, diskVars, history, counters
<1>1. CASE Log
  <2>1. mem.live \subseteq mem'.live
    BY <1>1, LogAdds
  <2>2. Events(mem) \subseteq Events(mem')
    BY <2>1, MoreEvents
  <2>3. QED
    BY <1>1, <2>2 DEF Log, Covered, ArchiveGrows
<1>2. CASE NextMonth
  BY <1>2 DEF NextMonth, Covered, ArchiveGrows
<1>3. ASSUME NEW j \in {"start", "export"}, Load(j)
      PROVE  Covered'
  <2>1. mem' = main.st /\ main' = main /\ pc' \notin {"sync", "rename"}
    BY <1>3 DEF Load, Loaded
  <2>2. QED
    BY <2>1 DEF Covered
<1>4. CASE Backup
  BY <1>4 DEF Backup, Covered, ArchiveGrows
<1>5. CASE CopyToBackup
  BY <1>5 DEF CopyToBackup, Covered, ArchiveGrows
<1>6. CASE WriteTmp
  <2>1. tmp'.st = mem /\ mem' = mem /\ main' = main /\ job' = job /\ pc = "save"
    BY <1>6, FileTypes DEF WriteTmp, TypeOK, ProcOK
  <2>2. QED
    BY <2>1 DEF Covered, ArchiveGrows
<1>7. CASE SyncTmp
  <2>1. tmp'.st = tmp.st /\ mem' = mem /\ main' = main /\ job' = job /\ pc = "sync"
    BY <1>7, FileTypes DEF SyncTmp, TypeOK, ProcOK
  <2>2. QED
    BY <2>1 DEF Covered, ArchiveGrows
<1>8. CASE Rename
  <2>1. main' = tmp /\ mem' = mem /\ pc' \notin {"sync", "rename"} /\ pc = "rename"
    BY <1>8 DEF Rename, Saved, Loaded
  <2>2. Events(tmp.st) \subseteq Events(mem)
    BY <2>1, MoreEvents DEF FilesDecode
  <2>3. QED
    BY <2>1, <2>2 DEF Covered
<1>9. CASE SaveFails
  <2>1. /\ main' = main /\ mem' = mem /\ pc' \notin {"sync", "rename"} /\ pc # "down"
        /\ pc' = "down" \/ job # "import"
    BY <1>9 DEF SaveFails, Saved, Loaded
  <2>2. QED
    BY <2>1 DEF Covered, ArchiveGrows
<1>10. CASE SaveNow
  BY <1>10 DEF SaveNow, Covered, ArchiveGrows
<1>11. CASE BeginMember
  BY <1>11 DEF BeginMember, Covered, ArchiveGrows
<1>12. CASE EndMember
  BY <1>12 DEF EndMember, Covered, ArchiveGrows
<1>13. CASE AppendFails
  BY <1>13 DEF AppendFails, Covered, ArchiveGrows
<1>14. CASE Drop
  <2>1. main' = main /\ pc' = "save" /\ pc = "append" /\ batch = {} /\ job' = job
    BY <1>14 DEF Drop
  <2>2. mem'.live = {e \in mem.live : e.id > cut}
    BY <1>14, DropRemoves
  <2>3. \A e \in mem.live : e.id \in Nat
    BY StateTypes, EntryTypes DEF TypeOK, ProcOK
  <2>4. cut \in Nat /\ \A e \in mem.live : e.id <= cut => e.event \in Archived
    BY <2>1 DEF Archiving, TypeOK, ProcOK
  <2>5. Events(mem) \subseteq Events(mem') \cup Archived
    BY <2>2, <2>3, <2>4 DEF Events
  <2>6. QED
    BY <2>1, <2>5 DEF Covered, ArchiveGrows
<1>15. CASE Stop
  BY <1>15 DEF Stop, Covered, ArchiveGrows
<1>16. CASE ExportOnline
  BY <1>16 DEF ExportOnline, Covered, ArchiveGrows
<1>17. CASE ExportOffline
  BY <1>17 DEF ExportOffline, Covered, ArchiveGrows
<1>18. CASE Import
  BY <1>18 DEF Import, Covered
<1>19. CASE KeepOld
  BY <1>19 DEF KeepOld, Covered, ArchiveGrows
<1>20. CASE Crash
  BY <1>20 DEF Crash, Die, Covered
<1>21. CASE PowerFailure
  BY <1>21 DEF PowerFailure, Die, Covered
<1>22. CASE Writeback
  BY <1>22 DEF Writeback, Covered, ArchiveGrows
<1>23. CASE UNCHANGED vars
  BY <1>23 DEF vars, Covered, ArchiveGrows
<1>24. QED
  BY <1>1, <1>2, <1>3, <1>4, <1>5, <1>6, <1>7, <1>8,
     <1>9, <1>10, <1>11, <1>12, <1>13, <1>14, <1>15, <1>16,
     <1>17, <1>18, <1>19, <1>20, <1>21, <1>22, <1>23 DEF Next

\* Every step keeps what is to be dropped in the batch or archived.
LEMMA ArchivingStep ==
  ASSUME TypeOK, AllLogged, FilesDecode, Archiving, ArchiveGrows, [Next]_vars
  PROVE  Archiving'
<1> USE DEF procVars, diskVars, history, counters
<1>1. CASE Log
  <2>1. PICK e \in Entry : /\ e.id = mem.next + 1
                            /\ mem'.live = mem.live \cup {e} /\ mem'.next = e.id
    BY <1>1, LogAdds
  <2>2. mem.next \in Nat /\ cut \in Nat
    BY StateTypes DEF TypeOK, ProcOK
  <2>3. pc' \in {"append", "member"} =>
          /\ cut' <= mem'.next
          /\ \A d \in mem'.live : d.id <= cut' => (d \in batch' \/ d.event \in Archived')
    BY <1>1, <2>1, <2>2 DEF Log, Archiving, ArchiveGrows
  <2>4. QED
    BY <1>1, <2>3 DEF Log, Archiving, Current, OfCurrent
<1>2. CASE NextMonth
  <2>1. Current' = Current /\ OfCurrent' = OfCurrent
    BY <1>2 DEF NextMonth, Current, OfCurrent
  <2>2. QED
    BY <1>2, <2>1 DEF NextMonth, Archiving, ArchiveGrows
<1>3. ASSUME NEW j \in {"start", "export"}, Load(j)
      PROVE  Archiving'
  <2>1. pc' \notin {"append", "member"}
    BY <1>3 DEF Load, Loaded, Serving
  <2>2. QED
    BY <2>1 DEF Archiving
<1>4. CASE Backup
  <2>1. pc' \notin {"append", "member"}
    BY <1>4 DEF Backup
  <2>2. QED
    BY <2>1 DEF Archiving
<1>5. CASE CopyToBackup
  <2>1. pc' \notin {"append", "member"}
    BY <1>5 DEF CopyToBackup
  <2>2. QED
    BY <2>1 DEF Archiving
<1>6. CASE WriteTmp
  <2>1. pc' \notin {"append", "member"}
    BY <1>6 DEF WriteTmp
  <2>2. QED
    BY <2>1 DEF Archiving
<1>7. CASE SyncTmp
  <2>1. pc' \notin {"append", "member"}
    BY <1>7 DEF SyncTmp
  <2>2. QED
    BY <2>1 DEF Archiving
<1>8. CASE Rename
  <2>1. pc' \notin {"append", "member"}
    BY <1>8 DEF Rename, Saved, Loaded, Serving
  <2>2. QED
    BY <2>1 DEF Archiving
<1>9. CASE SaveFails
  <2>1. pc' \notin {"append", "member"}
    BY <1>9 DEF SaveFails, Saved, Loaded, Serving
  <2>2. QED
    BY <2>1 DEF Archiving
<1>10. CASE SaveNow
  <2>1. pc' # "member" /\ mem' = mem
    BY <1>10 DEF SaveNow
  <2>2. QED
    BY <1>10, <2>1, SaveNowTakes DEF Archiving
<1>11. CASE BeginMember
  <2>1. /\ Current' = Current /\ OfCurrent' = OfCurrent /\ batch # {}
        /\ pc = "append" /\ mem' = mem /\ cut' = cut /\ batch' = batch
    BY <1>11 DEF BeginMember, Current, OfCurrent
  <2>2. /\ archive'[Current] # <<>>
        /\ archive'[Current][Len(archive'[Current])].entries = OfCurrent
    BY <1>11, BeginGrows
  <2>3. QED
    BY <2>1, <2>2 DEF Archiving, ArchiveGrows
<1>12. CASE EndMember
  <2>1. /\ mem' = mem /\ cut' = cut /\ batch' = batch \ OfCurrent /\ pc = "member"
        /\ pc' = "append"
    BY <1>12 DEF EndMember
  <2>2. \A e \in OfCurrent : e.event \in Archived'
    BY <1>12, CompletedGrows DEF EndMember
  <2>3. QED
    BY <2>1, <2>2 DEF Archiving, ArchiveGrows
<1>13. CASE AppendFails
  <2>1. pc' \notin {"append", "member"}
    BY <1>13 DEF AppendFails
  <2>2. QED
    BY <2>1 DEF Archiving
<1>14. CASE Drop
  <2>1. pc' \notin {"append", "member"}
    BY <1>14 DEF Drop
  <2>2. QED
    BY <2>1 DEF Archiving
<1>15. CASE Stop
  <2>1. pc' \notin {"append", "member"}
    BY <1>15 DEF Stop
  <2>2. QED
    BY <2>1 DEF Archiving
<1>16. CASE ExportOnline
  <2>1. Current' = Current /\ OfCurrent' = OfCurrent
    BY <1>16 DEF ExportOnline, Current, OfCurrent
  <2>2. QED
    BY <1>16, <2>1 DEF ExportOnline, Archiving, ArchiveGrows
<1>17. CASE ExportOffline
  <2>1. pc' \notin {"append", "member"}
    BY <1>17 DEF ExportOffline
  <2>2. QED
    BY <2>1 DEF Archiving
<1>18. CASE Import
  <2>1. pc' \notin {"append", "member"}
    BY <1>18 DEF Import
  <2>2. QED
    BY <2>1 DEF Archiving
<1>19. CASE KeepOld
  <2>1. pc' \notin {"append", "member"}
    BY <1>19 DEF KeepOld
  <2>2. QED
    BY <2>1 DEF Archiving
<1>20. CASE Crash
  <2>1. pc' \notin {"append", "member"}
    BY <1>20 DEF Crash, Die
  <2>2. QED
    BY <2>1 DEF Archiving
<1>21. CASE PowerFailure
  <2>1. pc' \notin {"append", "member"}
    BY <1>21 DEF PowerFailure, Die
  <2>2. QED
    BY <2>1 DEF Archiving
<1>22. CASE Writeback
  <2>1. Current' = Current /\ OfCurrent' = OfCurrent
    BY <1>22 DEF Writeback, Current, OfCurrent
  <2>2. QED
    BY <1>22, <2>1 DEF Writeback, Archiving, ArchiveGrows
<1>23. CASE UNCHANGED vars
  BY <1>23 DEF vars, Archiving, ArchiveGrows, Current, OfCurrent
<1>24. QED
  BY <1>1, <1>2, <1>3, <1>4, <1>5, <1>6, <1>7, <1>8,
     <1>9, <1>10, <1>11, <1>12, <1>13, <1>14, <1>15, <1>16,
     <1>17, <1>18, <1>19, <1>20, <1>21, <1>22, <1>23 DEF Next

-----------------------------------------------------------------------------
(* Imports.                                                                *)

\* Every step keeps the process to its job.
LEMMA BusyStep ==
  ASSUME TypeOK, Busy, [Next]_vars
  PROVE  Busy'
<1> USE DEF procVars, diskVars, history, counters
<1>1. CASE Log
  BY <1>1 DEF Log, Busy, TypeOK, ProcOK
<1>2. CASE NextMonth
  BY <1>2 DEF NextMonth, Busy, TypeOK, ProcOK
<1>3. ASSUME NEW j \in {"start", "export"}, Load(j)
      PROVE  Busy'
  BY <1>3 DEF Load, Loaded, Serving, Busy, TypeOK, ProcOK
<1>4. CASE Backup
  BY <1>4 DEF Backup, Busy, TypeOK, ProcOK
<1>5. CASE CopyToBackup
  BY <1>5 DEF CopyToBackup, Busy, TypeOK, ProcOK
<1>6. CASE WriteTmp
  BY <1>6 DEF WriteTmp, Busy, TypeOK, ProcOK
<1>7. CASE SyncTmp
  BY <1>7 DEF SyncTmp, Busy, TypeOK, ProcOK
<1>8. CASE Rename
  <2>1. job # "none"
    BY <1>8 DEF Rename, Busy
  <2>2. \/ pc' = "down" /\ job' = "none"
        \/ pc' = "up" /\ job' = "serve"
        \/ pc' = "export" /\ job' = "export"
    BY <1>8, <2>1 DEF Rename, Saved, Loaded, Serving, TypeOK, ProcOK
  <2>3. QED
    BY <2>2 DEF Busy
<1>9. CASE SaveFails
  <2>1. job # "none"
    BY <1>9 DEF SaveFails, Busy
  <2>2. \/ pc' = "down" /\ job' = "none"
        \/ pc' = "up" /\ job' = "serve"
        \/ pc' = "export" /\ job' = "export"
    BY <1>9, <2>1 DEF SaveFails, Saved, Loaded, Serving, TypeOK, ProcOK
  <2>3. QED
    BY <2>2 DEF Busy
<1>10. CASE SaveNow
  BY <1>10 DEF SaveNow, Busy, TypeOK, ProcOK
<1>11. CASE BeginMember
  BY <1>11 DEF BeginMember, Busy, TypeOK, ProcOK
<1>12. CASE EndMember
  BY <1>12 DEF EndMember, Busy, TypeOK, ProcOK
<1>13. CASE AppendFails
  BY <1>13 DEF AppendFails, Busy, TypeOK, ProcOK
<1>14. CASE Drop
  BY <1>14 DEF Drop, Busy, TypeOK, ProcOK
<1>15. CASE Stop
  BY <1>15 DEF Stop, Busy, TypeOK, ProcOK
<1>16. CASE ExportOnline
  BY <1>16 DEF ExportOnline, Busy, TypeOK, ProcOK
<1>17. CASE ExportOffline
  BY <1>17 DEF ExportOffline, Busy, TypeOK, ProcOK
<1>18. CASE Import
  BY <1>18 DEF Import, Busy, TypeOK, ProcOK
<1>19. CASE KeepOld
  BY <1>19 DEF KeepOld, Busy, TypeOK, ProcOK
<1>20. CASE Crash
  BY <1>20 DEF Crash, Die, Busy, TypeOK, ProcOK
<1>21. CASE PowerFailure
  BY <1>21 DEF PowerFailure, Die, Busy, TypeOK, ProcOK
<1>22. CASE Writeback
  BY <1>22 DEF Writeback, Busy, TypeOK, ProcOK
<1>23. CASE UNCHANGED vars
  BY <1>23 DEF vars, Busy, TypeOK, ProcOK
<1>24. QED
  BY <1>1, <1>2, <1>3, <1>4, <1>5, <1>6, <1>7, <1>8,
     <1>9, <1>10, <1>11, <1>12, <1>13, <1>14, <1>15, <1>16,
     <1>17, <1>18, <1>19, <1>20, <1>21, <1>22, <1>23 DEF Next

\* Every step keeps a copy of what an import is about to replace.
LEMMA ReplacingStep ==
  ASSUME TypeOK, FilesDecode, Busy, Replacing, [Next]_vars
  PROVE  Replacing'
<1> USE DEF procVars, diskVars, history, counters
<1>1. CASE Log
  BY <1>1 DEF Log, Replacing, Accounted, KeptEvents
<1>2. CASE NextMonth
  BY <1>2 DEF NextMonth, Replacing, Accounted, KeptEvents
<1>3. ASSUME NEW j \in {"start", "export"}, Load(j)
      PROVE  Replacing'
  BY <1>3 DEF Load, Loaded, Serving, Replacing
<1>4. CASE Backup
  BY <1>4 DEF Backup, Busy, Replacing
<1>5. CASE CopyToBackup
  BY <1>5 DEF CopyToBackup, Busy, Replacing
<1>6. CASE WriteTmp
  BY <1>6 DEF WriteTmp, Replacing, Accounted, KeptEvents
<1>7. CASE SyncTmp
  BY <1>7 DEF SyncTmp, Replacing, Accounted, KeptEvents
<1>8. CASE Rename
  <2>1. pc' \notin {"save", "sync", "rename"}
    BY <1>8 DEF Rename, Saved, Loaded
  <2>2. QED
    BY <2>1 DEF Replacing
<1>9. CASE SaveFails
  <2>1. pc' \notin {"save", "sync", "rename"}
    BY <1>9 DEF SaveFails, Saved, Loaded
  <2>2. QED
    BY <2>1 DEF Replacing
<1>10. CASE SaveNow
  BY <1>10 DEF SaveNow, Busy, Replacing
<1>11. CASE BeginMember
  BY <1>11 DEF BeginMember, Replacing, Accounted, KeptEvents
<1>12. CASE EndMember
  BY <1>12 DEF EndMember, Replacing, Accounted, KeptEvents
<1>13. CASE AppendFails
  BY <1>13 DEF AppendFails, Replacing, Accounted, KeptEvents
<1>14. CASE Drop
  <2>1. job # "import"
    BY <1>14 DEF Drop, Busy
  <2>2. QED
    BY <1>14, <2>1 DEF Drop, Replacing
<1>15. CASE Stop
  BY <1>15 DEF Stop, Replacing, Accounted, KeptEvents
<1>16. CASE ExportOnline
  BY <1>16 DEF ExportOnline, Replacing, Accounted, KeptEvents
<1>17. CASE ExportOffline
  BY <1>17 DEF ExportOffline, Replacing, Accounted, KeptEvents
<1>18. CASE Import
  <2>1. main' = main /\ pc' \in {"save", "keep"} /\ unkept \subseteq unkept'
    BY <1>18 DEF Import
  <2>2. pc' = "save" => (main.kind = "none" \/ Events(main.st) \subseteq unkept')
    BY <1>18 DEF Import
  <2>3. main.kind = "none" => Events(main.st) = {}
    BY DEF FilesDecode, Events
  <2>4. QED
    BY <2>1, <2>2, <2>3 DEF Replacing, Accounted
<1>19. CASE KeepOld
  <2> DEFINE f == [main EXCEPT !.synced = FALSE]
  <2>1. f \in FileType /\ f.st = main.st
    BY FileTypes DEF TypeOK, DiskOK
  <2>2. main' = main /\ pc' \in {"save", "down"}
    BY <1>19 DEF KeepOld
  <2>3. ASSUME pc' = "save" PROVE Events(f.st) \subseteq KeptEvents'
    <3>1. PICK i \in {Len(kept), Len(kept) + 1} \ {0} : kept' = KeptWith(i, f)
      BY <1>19, <2>3 DEF KeepOld
    <3> HIDE DEF f
    <3>2. i \in DOMAIN kept' /\ kept'[i] = f
      BY <2>1, <3>1, CopyKept DEF TypeOK, DiskOK
    <3>3. QED
      BY <3>2 DEF KeptEvents
  <2> HIDE DEF f
  <2>4. QED
    BY <2>1, <2>2, <2>3 DEF Replacing, Accounted
<1>20. CASE Crash
  BY <1>20 DEF Crash, Die, Replacing
<1>21. CASE PowerFailure
  BY <1>21 DEF PowerFailure, Replacing
<1>22. CASE Writeback
  <2>1. Accounted' = Accounted
    BY <1>22, WrittenBack DEF Writeback, Accounted, KeptEvents, TypeOK, DiskOK
  <2>2. QED
    BY <1>22, <2>1 DEF Writeback, Replacing
<1>23. CASE UNCHANGED vars
  BY <1>23 DEF vars, Replacing, Accounted, KeptEvents
<1>24. QED
  BY <1>1, <1>2, <1>3, <1>4, <1>5, <1>6, <1>7, <1>8,
     <1>9, <1>10, <1>11, <1>12, <1>13, <1>14, <1>15, <1>16,
     <1>17, <1>18, <1>19, <1>20, <1>21, <1>22, <1>23 DEF Next

-----------------------------------------------------------------------------
(* Histories.                                                              *)

\* Every step keeps each event of board.json in it or in the archive.
LEMMA HistoryStep ==
  ASSUME TypeOK, FilesDecode, Covered, ArchiveGrows, HistoryKept, [Next]_vars
  PROVE  HistoryKept'
<1> USE DEF procVars, diskVars, history, counters
<1>1. CASE Log
  BY <1>1 DEF Log, HistoryKept, ArchiveGrows
<1>2. CASE NextMonth
  BY <1>2 DEF NextMonth, HistoryKept, ArchiveGrows
<1>3. ASSUME NEW j \in {"start", "export"}, Load(j)
      PROVE  HistoryKept'
  BY <1>3 DEF Load, Loaded, Serving, HistoryKept, ArchiveGrows
<1>4. CASE Backup
  BY <1>4 DEF Backup, HistoryKept, ArchiveGrows
<1>5. CASE CopyToBackup
  BY <1>5 DEF CopyToBackup, HistoryKept, ArchiveGrows
<1>6. CASE WriteTmp
  BY <1>6 DEF WriteTmp, HistoryKept, ArchiveGrows
<1>7. CASE SyncTmp
  BY <1>7 DEF SyncTmp, HistoryKept, ArchiveGrows
<1>8. CASE Rename
  <2>1. /\ main' = tmp /\ pc = "rename"
        /\ saved' = (IF job = "import" THEN {} ELSE saved) \cup Events(tmp.st)
    BY <1>8 DEF Rename
  <2>2. CASE job = "import"
    BY <2>1, <2>2 DEF HistoryKept
  <2>3. CASE job # "import"
    <3>1. Events(main.st) \subseteq Events(tmp.st) \cup Archived
      BY <2>1, <2>3 DEF Covered
    <3>2. saved \subseteq Events(tmp.st) \cup Archived'
      BY <3>1 DEF HistoryKept, ArchiveGrows
    <3>3. QED
      BY <2>1, <2>3, <3>2 DEF HistoryKept
  <2>4. QED
    BY <2>2, <2>3
<1>9. CASE SaveFails
  BY <1>9 DEF SaveFails, Saved, Loaded, Serving, HistoryKept, ArchiveGrows
<1>10. CASE SaveNow
  BY <1>10 DEF SaveNow, HistoryKept, ArchiveGrows
<1>11. CASE BeginMember
  BY <1>11 DEF BeginMember, HistoryKept, ArchiveGrows
<1>12. CASE EndMember
  BY <1>12 DEF EndMember, HistoryKept, ArchiveGrows
<1>13. CASE AppendFails
  BY <1>13 DEF AppendFails, HistoryKept, ArchiveGrows
<1>14. CASE Drop
  BY <1>14 DEF Drop, HistoryKept, ArchiveGrows
<1>15. CASE Stop
  BY <1>15 DEF Stop, HistoryKept, ArchiveGrows
<1>16. CASE ExportOnline
  BY <1>16 DEF ExportOnline, HistoryKept, ArchiveGrows
<1>17. CASE ExportOffline
  BY <1>17 DEF ExportOffline, HistoryKept, ArchiveGrows
<1>18. CASE Import
  BY <1>18 DEF Import, HistoryKept, ArchiveGrows
<1>19. CASE KeepOld
  BY <1>19 DEF KeepOld, HistoryKept, ArchiveGrows
<1>20. CASE Crash
  BY <1>20 DEF Crash, Die, HistoryKept, ArchiveGrows
<1>21. CASE PowerFailure
  <2>1. main' = main /\ saved' = saved
    BY <1>21, SurvivorsType DEF PowerFailure, TypeOK, DiskOK, FilesDecode
  <2>2. QED
    BY <2>1 DEF HistoryKept, ArchiveGrows
<1>22. CASE Writeback
  BY <1>22 DEF Writeback, HistoryKept, ArchiveGrows
<1>23. CASE UNCHANGED vars
  BY <1>23 DEF vars, HistoryKept, ArchiveGrows
<1>24. QED
  BY <1>1, <1>2, <1>3, <1>4, <1>5, <1>6, <1>7, <1>8,
     <1>9, <1>10, <1>11, <1>12, <1>13, <1>14, <1>15, <1>16,
     <1>17, <1>18, <1>19, <1>20, <1>21, <1>22, <1>23 DEF Next

\* Every step keeps what imports replaced in one of the copies.
LEMMA ReplacedStep ==
  ASSUME TypeOK, Covered, Replacing, ArchiveGrows, ReplacedIn, [Next]_vars
  PROVE  ReplacedIn'
<1> USE DEF procVars, diskVars, history, counters
<1>1. CASE Log
  <2>1. Accounted' = Accounted
    BY <1>1 DEF Log, Accounted, KeptEvents
  <2>2. QED
    BY <1>1, <2>1 DEF Log, ReplacedIn, ArchiveGrows
<1>2. CASE NextMonth
  <2>1. Accounted' = Accounted
    BY <1>2 DEF NextMonth, Accounted, KeptEvents
  <2>2. QED
    BY <1>2, <2>1 DEF NextMonth, ReplacedIn, ArchiveGrows
<1>3. ASSUME NEW j \in {"start", "export"}, Load(j)
      PROVE  ReplacedIn'
  <2>1. Accounted' = Accounted
    BY <1>3 DEF Load, Accounted, KeptEvents
  <2>2. QED
    BY <1>3, <2>1 DEF Load, ReplacedIn, ArchiveGrows
<1>4. CASE Backup
  <2>1. Accounted' = Accounted
    BY <1>4 DEF Backup, Accounted, KeptEvents
  <2>2. QED
    BY <1>4, <2>1 DEF Backup, ReplacedIn, ArchiveGrows
<1>5. CASE CopyToBackup
  <2>1. Accounted' = Accounted
    BY <1>5 DEF CopyToBackup, Accounted, KeptEvents
  <2>2. QED
    BY <1>5, <2>1 DEF CopyToBackup, ReplacedIn, ArchiveGrows
<1>6. CASE WriteTmp
  <2>1. Accounted' = Accounted
    BY <1>6 DEF WriteTmp, Accounted, KeptEvents
  <2>2. QED
    BY <1>6, <2>1 DEF WriteTmp, ReplacedIn, ArchiveGrows
<1>7. CASE SyncTmp
  <2>1. Accounted' = Accounted
    BY <1>7 DEF SyncTmp, Accounted, KeptEvents
  <2>2. QED
    BY <1>7, <2>1 DEF SyncTmp, ReplacedIn, ArchiveGrows
<1>8. CASE Rename
  <2>1. /\ main' = tmp /\ pc = "rename" /\ kept' = kept /\ outage' = outage
        /\ ever' = ever \cup Events(tmp.st) /\ unkept' = unkept
    BY <1>8 DEF Rename
  <2>2. Accounted' = Accounted
    BY <2>1 DEF Accounted, KeptEvents
  <2>3. ~outage => Events(main.st) \subseteq Events(tmp.st) \cup Archived \cup Accounted
    BY <2>1 DEF Covered, Replacing
  <2>4. QED
    BY <2>1, <2>2, <2>3 DEF ReplacedIn, ArchiveGrows
<1>9. CASE SaveFails
  <2>1. Accounted' = Accounted
    BY <1>9 DEF SaveFails, Accounted, KeptEvents
  <2>2. QED
    BY <1>9, <2>1 DEF SaveFails, ReplacedIn, ArchiveGrows
<1>10. CASE SaveNow
  <2>1. Accounted' = Accounted
    BY <1>10 DEF SaveNow, Accounted, KeptEvents
  <2>2. QED
    BY <1>10, <2>1 DEF SaveNow, ReplacedIn, ArchiveGrows
<1>11. CASE BeginMember
  <2>1. Accounted' = Accounted
    BY <1>11 DEF BeginMember, Accounted, KeptEvents
  <2>2. QED
    BY <1>11, <2>1 DEF BeginMember, ReplacedIn, ArchiveGrows
<1>12. CASE EndMember
  <2>1. Accounted' = Accounted
    BY <1>12 DEF EndMember, Accounted, KeptEvents
  <2>2. QED
    BY <1>12, <2>1 DEF EndMember, ReplacedIn, ArchiveGrows
<1>13. CASE AppendFails
  <2>1. Accounted' = Accounted
    BY <1>13 DEF AppendFails, Accounted, KeptEvents
  <2>2. QED
    BY <1>13, <2>1 DEF AppendFails, ReplacedIn, ArchiveGrows
<1>14. CASE Drop
  <2>1. Accounted' = Accounted
    BY <1>14 DEF Drop, Accounted, KeptEvents
  <2>2. QED
    BY <1>14, <2>1 DEF Drop, ReplacedIn, ArchiveGrows
<1>15. CASE Stop
  <2>1. Accounted' = Accounted
    BY <1>15 DEF Stop, Accounted, KeptEvents
  <2>2. QED
    BY <1>15, <2>1 DEF Stop, ReplacedIn, ArchiveGrows
<1>16. CASE ExportOnline
  <2>1. Accounted' = Accounted
    BY <1>16 DEF ExportOnline, Accounted, KeptEvents
  <2>2. QED
    BY <1>16, <2>1 DEF ExportOnline, ReplacedIn, ArchiveGrows
<1>17. CASE ExportOffline
  <2>1. Accounted' = Accounted
    BY <1>17 DEF ExportOffline, Accounted, KeptEvents
  <2>2. QED
    BY <1>17, <2>1 DEF ExportOffline, ReplacedIn, ArchiveGrows
<1>18. CASE Import
  <2>1. unkept \subseteq unkept' /\ kept' = kept
    BY <1>18 DEF Import
  <2>2. Accounted \subseteq Accounted'
    BY <2>1 DEF Accounted, KeptEvents
  <2>3. QED
    BY <1>18, <2>2 DEF Import, ReplacedIn, ArchiveGrows
<1>19. CASE KeepOld
  <2>1. PICK i \in {Len(kept), Len(kept) + 1} \ {0} :
          /\ \/ kept' = KeptWith(i, [main EXCEPT !.synced = FALSE])
             \/ kept' = KeptWith(i, TornFile)
          /\ unkept' = unkept \cup (IF i \in DOMAIN kept THEN Events(kept[i].st) ELSE {})
    BY <1>19 DEF KeepOld
  <2>2. [main EXCEPT !.synced = FALSE] \in FileType /\ TornFile \in FileType
    BY FileTypes DEF TypeOK, DiskOK
  <2>3. \A j \in DOMAIN kept \ {i} : j \in DOMAIN kept' /\ kept'[j] = kept[j]
    BY <2>1, <2>2, CopyKept DEF TypeOK, DiskOK
  <2>4. ASSUME NEW j \in DOMAIN kept PROVE Events(kept[j].st) \subseteq Accounted'
    <3>1. CASE j = i
      BY <2>1, <3>1 DEF Accounted
    <3>2. CASE j # i
      BY <2>3, <3>2 DEF Accounted, KeptEvents
    <3>3. QED
      BY <3>1, <3>2
  <2>5. Accounted \subseteq Accounted'
    BY <2>1, <2>4 DEF Accounted, KeptEvents
  <2>6. QED
    BY <1>19, <2>5 DEF KeepOld, ReplacedIn, ArchiveGrows
<1>20. CASE Crash
  <2>1. Accounted' = Accounted
    BY <1>20 DEF Crash, Accounted, KeptEvents
  <2>2. QED
    BY <1>20, <2>1 DEF Crash, ReplacedIn, ArchiveGrows
<1>21. CASE PowerFailure
  BY <1>21 DEF PowerFailure, ReplacedIn
<1>22. CASE Writeback
  <2>1. Accounted' = Accounted
    BY <1>22, WrittenBack DEF Writeback, Accounted, KeptEvents, TypeOK, DiskOK
  <2>2. QED
    BY <1>22, <2>1 DEF Writeback, ReplacedIn, ArchiveGrows
<1>23. CASE UNCHANGED vars
  BY <1>23 DEF vars, ReplacedIn, ArchiveGrows, Accounted, KeptEvents
<1>24. QED
  BY <1>1, <1>2, <1>3, <1>4, <1>5, <1>6, <1>7, <1>8,
     <1>9, <1>10, <1>11, <1>12, <1>13, <1>14, <1>15, <1>16,
     <1>17, <1>18, <1>19, <1>20, <1>21, <1>22, <1>23 DEF Next

-----------------------------------------------------------------------------
(* Reading the archive.                                                    *)

\* An entry whose id was given only once is read, wherever it is archived: in
\* the first member that has it.
LEMMA FirstIsRead ==
  ASSUME TypeOK, AllLogged, NEW e \in named, \A d \in named : d.id = e.id => d = e,
         \E k \in Members : e \in Member(k).entries
  PROVE  e \in ReadArchive
<1> DEFINE Has(m, i) == i \in DOMAIN archive[m] /\ e \in archive[m][i].entries
           M == {m \in 1..Months : \E i \in DOMAIN archive[m] : Has(m, i)}
<1>1. M \subseteq Nat /\ M # {}
  <2>1. \E m \in 1..Months : \E i \in DOMAIN archive[m] : Has(m, i)
    BY MembersAt
  <2>2. 1..Months \subseteq Nat
    BY DataDirAssumption
  <2>3. QED
    BY <2>1, <2>2
<1>2. PICK m \in M : \A n \in M : m <= n
  <2> HIDE DEF M
  <2>1. QED
    BY <1>1, LeastNat
<1> DEFINE I == {i \in DOMAIN archive[m] : Has(m, i)}
<1>3. I \subseteq Nat /\ I # {}
  <2>1. archive[m] \in Seq(MemberType)
    BY <1>2 DEF TypeOK, DiskOK
  <2>2. DOMAIN archive[m] \subseteq Nat
    BY <2>1
  <2>3. QED
    BY <1>2, <2>2
<1>4. PICK i \in I : \A n \in I : i <= n
  <2> HIDE DEF I
  <2>1. QED
    BY <1>3, LeastNat
<1> DEFINE k == <<m, i>>
<1>5. k \in Members /\ e \in Member(k).entries /\ k[1] = m /\ k[2] = i
  BY <1>2, <1>4, MembersAt
<1>6. ASSUME NEW j \in Members, ReadBefore(j, k), NEW d \in Member(j).entries, d.id = e.id
      PROVE  FALSE
  <2>1. d = e
    BY <1>6 DEF AllLogged
  <2>2. PICK a \in 1..Months : \E b \in DOMAIN archive[a] : j = <<a, b>>
    BY MembersAt
  <2> PICK b \in DOMAIN archive[a] : j = <<a, b>>
    BY <2>2
  <2>3. Has(a, b)
    BY <1>6, <2>1, <2>2, MembersAt
  <2>4. a < m \/ (a = m /\ b < i)
    BY <1>6, <2>2 DEF ReadBefore
  <2>5. a \in M /\ m <= a /\ a \in Nat /\ m \in Nat
    BY <1>1, <1>2, <2>3
  <2>6. a = m /\ b < i
    BY <2>4, <2>5
  <2>7. b \in I /\ i <= b /\ b \in Nat /\ i \in Nat
    BY <1>3, <1>4, <2>3, <2>6
  <2>8. QED
    BY <2>6, <2>7
<1> HIDE DEF k
<1>7. Unseen(e.id, k)
  BY <1>6 DEF Unseen
<1>8. QED
  BY <1>5, <1>7 DEF ReadArchive

\* Merged with the live log, the archive hides none of its entries.
LEMMA MergedHasAll ==
  ASSUME TypeOK, AllLogged, HistoryKept
  PROVE  DuplicatesHideNothing
<1> SUFFICES ASSUME NEW e \in named, e.event \in saved,
                    \A d \in named : d.id = e.id => d = e
             PROVE  e \in WithArchive(main.st).live
  BY DEF DuplicatesHideNothing
<1> DEFINE L == MergeActivity(ReadArchive, main.st.live)
<1>1. ReadArchive \subseteq named
  BY DEF ReadArchive, AllLogged
<1>2. L \in SUBSET Entry /\ main.st \in State
  <2>1. L \subseteq named
    BY <1>1 DEF MergeActivity, AllLogged
  <2>2. QED
    BY <2>1, FileTypes DEF TypeOK, DiskOK
<1>3. WithArchive(main.st).live = L
  <2>1. WithArchive(main.st) = [main.st EXCEPT !.live = L]
    BY DEF WithArchive
  <2> HIDE DEF L
  <2>2. QED
    BY <1>2, <2>1, StateTypes
<1>4. CASE e.event \in Events(main.st)
  <2>1. e \in main.st.live
    BY <1>4 DEF Events, AllLogged
  <2>2. CASE \E d \in ReadArchive : d.id = e.id
    BY <1>1, <1>3, <2>2 DEF MergeActivity
  <2>3. CASE \A d \in ReadArchive : d.id # e.id
    BY <1>3, <2>1, <2>3 DEF MergeActivity
  <2>4. QED
    BY <2>2, <2>3
<1>5. CASE e.event \in Archived
  <2>1. PICK m \in 1..Months : \E i \in DOMAIN archive[m] :
          \E x \in archive[m][i].entries : x.event = e.event
    BY <1>5, ArchivedAt
  <2> PICK i \in DOMAIN archive[m] : \E x \in archive[m][i].entries : x.event = e.event
    BY <2>1
  <2> PICK x \in archive[m][i].entries : x.event = e.event
    OBVIOUS
  <2>2. <<m, i>> \in Members /\ Member(<<m, i>>) = archive[m][i]
    BY MembersAt
  <2>3. x = e
    BY <2>1, <2>2 DEF AllLogged
  <2>4. e \in ReadArchive
    BY <2>2, <2>3, FirstIsRead
  <2>5. QED
    BY <1>3, <2>4 DEF MergeActivity
<1>6. QED
  BY <1>4, <1>5 DEF HistoryKept

-----------------------------------------------------------------------------
(* The theorems.                                                           *)

\* A directory may start as it is when nobody has used it, or with a file in
\* the original format.
LEMMA DataDirInvInit == Init => DataDirInv
<1> SUFFICES ASSUME Init PROVE DataDirInv
  OBVIOUS
<1> DEFINE st == [live |-> {First}, next |-> 1]
<1>1. First \in Entry /\ First.id = 1 /\ First.event = 1
  BY DataDirAssumption DEF First, Entry
<1>2. st \in State /\ st.live = {First} /\ st.next = 1
  BY <1>1, StateTypes
<1>3. /\ main \in FileType /\ main.synced /\ main.kind \in {"none", "legacy"}
      /\ \/ main.st = NewState /\ named = {} /\ saved = {} /\ ever = {}
         \/ main.st = st /\ main.kind = "legacy" /\ named = {First} /\ saved = {1} /\ ever = {1}
  <2>1. CASE main = NoFile /\ named = {} /\ saved = {} /\ ever = {}
    BY <2>1, FileTypes DEF NoFile
  <2>2. CASE /\ named = {First} /\ saved = {1} /\ ever = {1}
             /\ main = [kind |-> "legacy", st |-> st, synced |-> TRUE]
    <3> HIDE DEF st
    <3>1. QED
      BY <1>2, <2>2 DEF FileType
  <2>3. QED
    BY <2>1, <2>2 DEF Init
<1> HIDE DEF st
<1>4. \A m \in 1..Months : archive[m] = <<>> /\ DOMAIN archive[m] = {}
  BY DEF Init
<1>5. TypeOK
  <2>1. ProcOK
    BY FileTypes, StateTypes DEF Init, ProcOK
  <2>2. DiskOK
    <3>1. archive \in [1..Months -> Seq(MemberType)]
      BY DEF Init
    <3>2. QED
      BY <1>3, <3>1, FileTypes DEF Init, DiskOK
  <2>3. month \in 1..Months
    BY DataDirAssumption DEF Init
  <2>4. named \subseteq Entry /\ saved \subseteq Nat /\ ever \subseteq Nat /\ unkept \subseteq Nat
    BY <1>1, <1>3 DEF Init
  <2>5. exported \subseteq State /\ imports \in Nat /\ faults \in Nat
    BY DEF Init
  <2>6. outage \in BOOLEAN
    BY DEF Init
  <2>7. QED
    BY <2>1, <2>2, <2>3, <2>4, <2>5, <2>6 DEF TypeOK
<1>6. AllLogged
  <2>1. IsFiniteSet(named) /\ \A e \in named : e.event <= Cardinality(named)
    <3>1. CASE named = {}
      BY <3>1, FS_EmptySet
    <3>2. CASE named = {First}
      <4>1. IsFiniteSet({First}) /\ Cardinality({First}) = 1
        BY FS_Singleton
      <4>2. QED
        BY <1>1, <3>2, <4>1
    <3>3. QED
      BY <1>3, <3>1, <3>2
  <2>2. Members = {}
    BY <1>4, MembersAt
  <2>3. main.st.live \subseteq named /\ \A e, f \in named : e = f
    BY <1>2, <1>3, StateTypes
  <2>4. mem.live = {} /\ tmp.st.live = {} /\ batch = {} /\ exported = {}
    BY FileTypes, StateTypes DEF Init
  <2>5. QED
    BY <2>1, <2>2, <2>3, <2>4 DEF AllLogged
<1>7. FilesDecode
  <2>1. ValidLog(main.st)
    BY <1>1, <1>2, <1>3, StateTypes DEF ValidLog
  <2>2. ValidLog(mem) /\ pc = "down"
    BY StateTypes DEF Init, ValidLog
  <2>3. main.kind = "none" => main.st.live = {}
    BY <1>3, StateTypes
  <2>4. QED
    BY <1>3, <2>1, <2>2, <2>3 DEF FilesDecode, MainLoads, Readable
<1>8. Covered /\ Archiving /\ Busy /\ Replacing
  BY DEF Init, Covered, Archiving, Busy, Replacing
<1>9. HistoryKept /\ ReplacedIn
  <2>1. saved \subseteq Events(main.st) /\ ever \subseteq Events(main.st)
    BY <1>1, <1>2, <1>3 DEF Events
  <2>2. QED
    BY <2>1 DEF HistoryKept, ReplacedIn
<1>10. QED
  BY <1>5, <1>6, <1>7, <1>8, <1>9 DEF DataDirInv

\* Every step keeps the invariant.
LEMMA DataDirInvStep == DataDirInv /\ [Next]_vars => DataDirInv'
<1> SUFFICES ASSUME DataDirInv, [Next]_vars PROVE DataDirInv'
  OBVIOUS
<1> USE DEF DataDirInv
<1>1. ArchiveGrows
  BY ArchiveStep
<1>2. TypeOK'
  BY TypeStep
<1>3. AllLogged'
  BY <1>1, LoggedStep
<1>4. FilesDecode'
  BY DecodeStep
<1>5. Covered'
  BY <1>1, CoveredStep
<1>6. Archiving'
  BY <1>1, ArchivingStep
<1>7. Busy'
  BY BusyStep
<1>8. Replacing'
  BY ReplacingStep
<1>9. HistoryKept'
  BY <1>1, HistoryStep
<1>10. ReplacedIn'
  BY <1>1, ReplacedStep
<1>11. QED
  BY <1>2, <1>3, <1>4, <1>5, <1>6, <1>7, <1>8, <1>9, <1>10

\* The invariant holds throughout.
LEMMA DataDirInvariant == Spec => []DataDirInv
  BY DataDirInvInit, DataDirInvStep, PTL DEF Spec

\* The files, the states in memory and the archive keep their types.
THEOREM DataDirTypeCorrect == Spec => []TypeOK
<1>1. DataDirInv => TypeOK
  BY DEF DataDirInv
<1>2. QED
  BY <1>1, DataDirInvariant, PTL

\* saveLocked syncs before it renames, and only valid states are saved: board.json
\* decodes and validates after every crash and power failure, at whatever step of
\* a save, a migration or an import.
THEOREM MainAlwaysLoads == Spec => []MainLoads
<1>1. DataDirInv => MainLoads
  BY DEF DataDirInv, FilesDecode
<1>2. QED
  BY <1>1, DataDirInvariant, PTL

\* archiveOld drops from the log only what is in complete members, so an event
\* that was in board.json stays in it or in the archive, for any size of the log
\* and any number of crashes, power failures and failed writes.
THEOREM HistoryIsKept == Spec => []HistoryKept
<1>1. DataDirInv => HistoryKept
  BY DEF DataDirInv
<1>2. QED
  BY <1>1, DataDirInvariant, PTL

\* importCmd copies board.json before it replaces it: unless the power fails,
\* every event that was ever in board.json is in it, in the archive or in a copy,
\* except those of a board.json that an import could not read and those of a copy
\* that an import of the same second wrote over.
THEOREM ReplacedIsKept == Spec => []ReplacedKept
<1>1. DataDirInv => ReplacedKept
  BY DEF DataDirInv, ReplacedIn, ReplacedKept, Accounted
<1>2. QED
  BY <1>1, DataDirInvariant, PTL

\* ReadArchive keeps the first entry of an id and MergeActivity prefers the
\* archive: whatever duplicates crashes and retries have left, an entry whose id
\* was given only once is in an export with archives.
THEOREM ExportHasEverything == Spec => []DuplicatesHideNothing
<1>1. DataDirInv => DuplicatesHideNothing
  BY MergedHasAll DEF DataDirInv
<1>2. QED
  BY <1>1, DataDirInvariant, PTL

=============================================================================
