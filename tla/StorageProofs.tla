--------------------------- MODULE StorageProofs ---------------------------
(***************************************************************************)
(* Proofs about what is stored.  Installation of data, for any files,      *)
(* versions and number of installations: the inductive invariant, that a   *)
(* row keeps its id, and what alone makes an installation raise.  The      *)
(* shared drive, for any people, names and commands: the inductive         *)
(* invariant, where doubled folders come from, and that a download is      *)
(* complete.                                                               *)
(***************************************************************************)
EXTENDS InstallData, DriveStorage, FiniteSetTheorems, WellFoundedInduction, TLAPS

-----------------------------------------------------------------------------
(* Files.                                                                  *)

LEMMA FilesType ==
  /\ Files \in Seq(STRING \X STRING) /\ DOMAIN Files = 1..Len(Files) /\ Len(Files) \in Nat
  /\ Len(Files) # 0
  /\ \A i \in DOMAIN Files : Files[i] \in STRING \X STRING /\ Files[i][2] \in Tables
<1>1. Files \in Seq(STRING \X STRING) /\ Files # <<>>
  BY InstallAssumption
<1>2. DOMAIN Files = 1..Len(Files) /\ Len(Files) \in Nat /\ Len(Files) # 0
  BY <1>1
<1>3. \A i \in DOMAIN Files : Files[i] \in STRING \X STRING
  BY <1>1, <1>2
<1> QED
  BY <1>1, <1>2, <1>3 DEF Tables

LEMMA FileFacts ==
  ASSUME NEW e \in Entries
  PROVE  /\ FileOf(e) \in DOMAIN Files /\ FileOf(e) \in Nat
         /\ Files[FileOf(e)] = <<ModuleOf[e], TableOf[e]>>
         /\ TableOf[e] \in Tables
         /\ \A i \in DOMAIN Files : Files[i] = <<ModuleOf[e], TableOf[e]>> => i = FileOf(e)
<1>1. \E i \in DOMAIN Files : Files[i] = <<ModuleOf[e], TableOf[e]>>
  BY InstallAssumption
<1>2. FileOf(e) \in DOMAIN Files /\ Files[FileOf(e)] = <<ModuleOf[e], TableOf[e]>>
  BY <1>1 DEF FileOf
<1>3. \A i, j \in DOMAIN Files : Files[i] = Files[j] => i = j
  BY InstallAssumption
<1> QED
  BY <1>2, <1>3, FilesType

\* What an entry refers to is installed before it, by the one file of its table.
LEMMA ForeignFacts ==
  ASSUME NEW e \in Entries, NEW f \in ForeignOf[e]
  PROVE  /\ f \in Entries /\ TableOf[f] \in Tables /\ ~IsShared(TableOf[f])
         /\ FileOf(f) \in Nat /\ FileOf(e) \in Nat /\ FileOf(f) < FileOf(e)
         /\ \A i \in DOMAIN Files : Files[i][2] = TableOf[f] => i = FileOf(f)
         /\ \A g \in ForeignOf[e] : TableOf[g] = TableOf[f] => g = f
<1>1. f \in Entries /\ \A g \in ForeignOf[e] : TableOf[g] = TableOf[f] => g = f
  BY InstallAssumption
<1>2. \A i, j \in DOMAIN Files : Files[i][2] = TableOf[f] =>
        /\ Files[j][2] = TableOf[f] => i = j
        /\ Files[j] = <<ModuleOf[e], TableOf[e]>> => i < j
  BY InstallAssumption
<1>3. FileOf(f) \in DOMAIN Files /\ Files[FileOf(f)][2] = TableOf[f]
      /\ TableOf[f] \in Tables /\ FileOf(f) \in Nat
  BY <1>1, FileFacts
<1>4. FileOf(e) \in DOMAIN Files /\ Files[FileOf(e)] = <<ModuleOf[e], TableOf[e]>>
      /\ FileOf(e) \in Nat
  BY FileFacts
<1>5. ~IsShared(TableOf[f])
  BY <1>2 DEF IsShared
<1> QED
  BY <1>1, <1>2, <1>3, <1>4, <1>5

-----------------------------------------------------------------------------
(* Numbers.                                                                *)

LEMMA LeastExists ==
  ASSUME NEW S \in SUBSET Nat, S # {}
  PROVE  \E n \in S : \A m \in S : n <= m
<1> DEFINE R == OpToRel(<, Nat)
<1>1. IsWellFoundedOn(R, Nat)
  BY NatLessThanWellFounded
<1>2. \A m, n \in Nat : <<m, n>> \in R <=> m < n
  BY DEF OpToRel
<1> HIDE DEF R
<1>3. PICK n \in S : \A m \in S : ~ (<<m, n>> \in R)
  BY <1>1, WFMin
<1>4. ASSUME NEW m \in S
      PROVE  n <= m
  <2>1. m \in Nat /\ n \in Nat /\ ~ (<<m, n>> \in R)
    BY <1>3
  <2>2. ~ (m < n)
    BY <1>2, <2>1, Zenon
  <2> QED
    BY <2>1, <2>2
<1> QED
  BY <1>4

\* Induction over the naturals, for sets.
LEMMA SetInduction ==
  ASSUME NEW S \in SUBSET Nat, 0 \in S, \A n \in S : n + 1 \in S
  PROVE  S = Nat
<1>1. SUFFICES ASSUME Nat \ S # {} PROVE FALSE
  OBVIOUS
<1>2. PICK n \in Nat \ S : \A m \in Nat \ S : n <= m
  BY <1>1, LeastExists
<1>3. n # 0 /\ n - 1 \in Nat /\ n - 1 \in S
  BY <1>2
<1> QED
  BY <1>2, <1>3

\* A set of numbers with a bound has a greatest one: the bound's least distance.
LEMMA GreatestExists ==
  ASSUME NEW n \in Nat, NEW S \in SUBSET (0..n), S # {}
  PROVE  \E i \in S : \A j \in S : j <= i
<1> DEFINE D == {n - i : i \in S}
<1>1. D \in SUBSET Nat /\ D # {}
  <2>1. \A i \in S : n - i \in Nat
    OBVIOUS
  <2>2. \A d \in D : d \in Nat
    BY <2>1
  <2> QED
    BY <2>2
<1>2. PICK d \in D : \A m \in D : d <= m
  BY <1>1, LeastExists
<1>3. PICK i \in S : d = n - i
  BY <1>2
<1>4. ASSUME NEW j \in S PROVE j <= i
  <2>1. n - j \in D
    OBVIOUS
  <2> QED
    BY <1>2, <1>3, <2>1
<1> QED
  BY <1>4

\* Unless several modules install into it, a table has one file; a row of the last
\* module's is one of the last file's.
LEMMA LastFile ==
  ASSUME NEW e \in Entries, FromLastModule(e)
  PROVE  \A i \in DOMAIN Files : Files[i][2] = TableOf[e] => i <= FileOf(e)
<1> DEFINE t == TableOf[e]
           S == {i \in DOMAIN Files : Files[i][2] = t}
           Last(i) == i \in DOMAIN Files /\ Files[i][2] = t
                        /\ \A j \in DOMAIN Files : Files[j][2] = t => j <= i
           last == CHOOSE i \in DOMAIN Files :
                     Files[i][2] = t /\ \A j \in DOMAIN Files : Files[j][2] = t => j <= i
<1>1. S \in SUBSET (0..Len(Files)) /\ S # {}
  BY FilesType, FileFacts
<1>2. PICK m \in S : \A j \in S : j <= m
  BY <1>1, FilesType, GreatestExists
<1>3. m \in DOMAIN Files /\ Files[m][2] = t /\ \A j \in DOMAIN Files : Files[j][2] = t => j <= m
  BY <1>2
<1>4. Last(last)
  BY <1>3
<1>5. Files[last][1] = ModuleOf[e]
  BY DEF FromLastModule, LastModule
<1>6. Files[last] = <<ModuleOf[e], TableOf[e]>>
  BY <1>4, <1>5, FilesType
<1>7. last = FileOf(e)
  BY <1>4, <1>6, FileFacts
<1> QED
  BY <1>4, <1>7

LEMMA UnsharedFile ==
  ASSUME NEW e \in Entries, ~IsShared(TableOf[e])
  PROVE  /\ \A i \in DOMAIN Files : Files[i][2] = TableOf[e] => i = FileOf(e)
         /\ FromLastModule(e)
<1>1. ASSUME NEW i \in DOMAIN Files, Files[i][2] = TableOf[e]
      PROVE  i = FileOf(e) /\ Files[i][1] = ModuleOf[e]
  <2>1. FileOf(e) \in DOMAIN Files /\ Files[FileOf(e)] = <<ModuleOf[e], TableOf[e]>>
    BY FileFacts
  <2>2. Files[i][1] = ModuleOf[e]
    BY <1>1, <2>1 DEF IsShared
  <2>3. Files[i] = <<ModuleOf[e], TableOf[e]>>
    BY <1>1, <2>2, FilesType
  <2> QED
    BY <2>2, <2>3, FileFacts
<1>2. FromLastModule(e)
  <2> DEFINE t == TableOf[e]
             Last(i) == i \in DOMAIN Files /\ Files[i][2] = t
                          /\ \A j \in DOMAIN Files : Files[j][2] = t => j <= i
             last == CHOOSE i \in DOMAIN Files :
                       Files[i][2] = t /\ \A j \in DOMAIN Files : Files[j][2] = t => j <= i
  <2>1. FileOf(e) \in DOMAIN Files /\ Files[FileOf(e)][2] = t
    BY FileFacts
  <2>2. \A j \in DOMAIN Files : Files[j][2] = t => j <= FileOf(e)
    BY <1>1, FileFacts
  <2>3. Last(last)
    BY <2>1, <2>2
  <2>4. Files[last][1] = ModuleOf[e]
    BY <1>1, <2>3
  <2> QED
    BY <2>4 DEF FromLastModule, LastModule
<1> QED
  BY <1>1, <1>2

-----------------------------------------------------------------------------
(* One file of an installation.                                            *)

\* The file at work, and the entries it has.
LEMMA StepFacts ==
  ASSUME TypeOK, step # 0
  PROVE  /\ step \in DOMAIN Files /\ step \in Nat /\ Table \in Tables
         /\ files \subseteq Entries /\ FileEntries \subseteq files
         /\ \A e \in files : e \in FileEntries <=> FileOf(e) = step
         /\ \A e \in FileEntries : TableOf[e] = Table
         /\ nextId[Table] \in Nat /\ 1 <= nextId[Table]
<1>1. step \in DOMAIN Files /\ step \in Nat
  BY FilesType DEF TypeOK
<1>2. Table \in Tables
  BY <1>1, FilesType DEF Table
<1>3. files \subseteq Entries
  BY InstallAssumption DEF TypeOK
<1>4. \A e \in files : e \in FileEntries <=> FileOf(e) = step
  <2> SUFFICES ASSUME NEW e \in files
               PROVE  e \in FileEntries <=> FileOf(e) = step
    OBVIOUS
  <2>1. e \in FileEntries <=> ModuleOf[e] = Files[step][1] /\ TableOf[e] = Files[step][2]
    BY DEF FileEntries, Table
  <2>2. e \in FileEntries => Files[step] = <<ModuleOf[e], TableOf[e]>>
    BY <1>1, <2>1, FilesType
  <2> QED
    BY <1>1, <1>3, <2>1, <2>2, FileFacts
<1>5. nextId[Table] \in 1..MaxId + 1 /\ MaxId \in Nat
  BY <1>2, InstallAssumption DEF TypeOK
<1> QED
  BY <1>1, <1>2, <1>3, <1>4, <1>5 DEF FileEntries

\* What RowsOK says of the session's rows, and of the committed ones.
LEMMA RowFacts ==
  ASSUME TypeOK, RowsOK(work), NEW t \in Tables, NEW r \in work.rows[t]
  PROVE  /\ r \in Row /\ r.entry \in Entries /\ r.id \in 1..MaxId /\ TableOf[r.entry] = t
         /\ \A s \in work.rows[t] : r.id = s.id \/ r.entry = s.entry => r = s
         /\ \A k \in work.known[t] : k.id = r.id <=> k.entry = r.entry
         /\ FromLastModule(r.entry) => \E k \in work.known[t] : k.entry = r.entry
         /\ r.ref \in [Tables -> 0..MaxId]
         /\ \A u \in Tables : r.ref[u] # 0 =>
              \E s \in work.rows[u] : s.id = r.ref[u] /\ s.entry \in ForeignOf[r.entry]
<1>1. r \in Row
  BY DEF TypeOK
<1>2. r.entry \in Entries /\ r.id \in 1..MaxId /\ r.ref \in [Tables -> 0..MaxId]
  BY <1>1 DEF Row
<1>3. TableOf[r.entry] = t /\ \A s \in work.rows[t] : r.id = s.id \/ r.entry = s.entry => r = s
  BY DEF RowsOK, KeysOK, HasKeys
<1>4. /\ \A k \in work.known[t] : k.id = r.id <=> k.entry = r.entry
      /\ FromLastModule(r.entry) => \E k \in work.known[t] : k.entry = r.entry
  BY DEF RowsOK, KnownOK
<1>5. \A u \in Tables : r.ref[u] # 0 =>
        \E s \in work.rows[u] : s.id = r.ref[u] /\ s.entry \in ForeignOf[r.entry]
  BY DEF RowsOK, ReferencesOK
<1> QED
  BY <1>1, <1>2, <1>3, <1>4, <1>5

LEMMA CommittedFacts ==
  ASSUME TypeOK, RowsOK(Committed), NEW t \in Tables, NEW r \in rows[t]
  PROVE  /\ r \in Row /\ r.entry \in Entries /\ r.id \in 1..MaxId /\ TableOf[r.entry] = t
         /\ \A s \in rows[t] : r.id = s.id \/ r.entry = s.entry => r = s
         /\ \A k \in known[t] : k.id = r.id <=> k.entry = r.entry
         /\ FromLastModule(r.entry) => \E k \in known[t] : k.entry = r.entry
         /\ r.ref \in [Tables -> 0..MaxId]
         /\ \A u \in Tables : r.ref[u] # 0 =>
              \E s \in rows[u] : s.id = r.ref[u] /\ s.entry \in ForeignOf[r.entry]
<1>1. r \in Row
  BY DEF TypeOK
<1>2. r.entry \in Entries /\ r.id \in 1..MaxId /\ r.ref \in [Tables -> 0..MaxId]
  BY <1>1 DEF Row
<1>0. Committed.rows = rows /\ Committed.known = known
  BY DEF Committed
<1>3. TableOf[r.entry] = t /\ \A s \in rows[t] : r.id = s.id \/ r.entry = s.entry => r = s
  BY <1>0 DEF RowsOK, KeysOK, HasKeys
<1>4. /\ \A k \in known[t] : k.id = r.id <=> k.entry = r.entry
      /\ FromLastModule(r.entry) => \E k \in known[t] : k.entry = r.entry
  BY <1>0 DEF RowsOK, KnownOK
<1>5. \A u \in Tables : r.ref[u] # 0 =>
        \E s \in rows[u] : s.id = r.ref[u] /\ s.entry \in ForeignOf[r.entry]
  BY <1>0 DEF RowsOK, ReferencesOK
<1> QED
  BY <1>1, <1>2, <1>3, <1>4, <1>5

\* Ids that are given are new, and different.
LEMMA InsertionFacts ==
  ASSUME TypeOK, step # 0, CanInsert, NEW f \in Insertions
  PROVE  /\ \A e \in NewEntries : /\ f[e] \in 1..MaxId /\ nextId[Table] <= f[e]
                                  /\ \A r \in work.rows[Table] : r.id # f[e]
         /\ \A d, e \in NewEntries : f[d] = f[e] => d = e
<1>1. f \in [NewEntries -> NewIds] /\ \A d, e \in NewEntries : f[d] = f[e] => d = e
  BY DEF Insertions
<1>2. FileEntries \subseteq Entries
  BY StepFacts
<1>3. IsFiniteSet(NewEntries)
  BY <1>2, InstallAssumption, FS_Subset DEF NewEntries
<1>4. Cardinality(NewEntries) \in Nat
  BY <1>3, FS_CardinalityType
<1>5. MaxId \in Nat /\ nextId[Table] \in Nat /\ 1 <= nextId[Table]
  BY StepFacts, InstallAssumption
<1>6. nextId[Table] + Cardinality(NewEntries) <= MaxId + 1
  BY DEF CanInsert
<1>7. \A id \in NewIds : id \in 1..MaxId /\ nextId[Table] <= id
  BY <1>4, <1>5, <1>6 DEF NewIds
<1>8. \A id \in NewIds : \A r \in work.rows[Table] : r.id # id
  BY DEF CanInsert, TakenIds
<1> QED
  BY <1>1, <1>7, <1>8

\* The keys that a row of the file gets.
LEMMA ForeignIdsFacts ==
  ASSUME TypeOK, step # 0, NEW e \in FileEntries
  PROVE  /\ ForeignIds(e) \in [Tables -> 0..MaxId]
         /\ \A f \in ForeignOf[e] : ForeignIds(e)[TableOf[f]] = idOf[f]
         /\ \A u \in Tables : ForeignIds(e)[u] # 0 =>
              \E f \in ForeignOf[e] : TableOf[f] = u /\ ForeignIds(e)[u] = idOf[f]
<1> DEFINE Of(u) == CHOOSE f \in ForeignOf[e] : TableOf[f] = u
           ids == ForeignIds(e)
<1>1. e \in Entries /\ idOf \in [Entries -> 0..MaxId] /\ MaxId \in Nat
  BY StepFacts, InstallAssumption DEF TypeOK
<1>2. ids = [u \in Tables |-> IF \E f \in ForeignOf[e] : TableOf[f] = u THEN idOf[Of(u)] ELSE 0]
  BY DEF ForeignIds
<1>3. \A u \in Tables : (\E f \in ForeignOf[e] : TableOf[f] = u) =>
        Of(u) \in ForeignOf[e] /\ TableOf[Of(u)] = u
  OBVIOUS
<1>4. \A f \in ForeignOf[e] : /\ f \in Entries /\ TableOf[f] \in Tables
                              /\ \A g \in ForeignOf[e] : TableOf[g] = TableOf[f] => g = f
  BY <1>1, ForeignFacts
<1> HIDE DEF Of, ids
<1>5. \A u \in Tables : ids[u] \in 0..MaxId
  BY <1>1, <1>2, <1>3, <1>4
<1>6. ids \in [Tables -> 0..MaxId]
  BY <1>2, <1>5
<1>7. \A f \in ForeignOf[e] : ids[TableOf[f]] = idOf[f]
  BY <1>2, <1>3, <1>4
<1>8. \A u \in Tables : ids[u] # 0 => \E f \in ForeignOf[e] : TableOf[f] = u /\ ids[u] = idOf[f]
  BY <1>2, <1>3
<1> QED
  BY <1>6, <1>7, <1>8 DEF ids

\* The table after the upserts: the rows it had, with their ids, and one for each
\* entry of the file that had none.
LEMMA UpsertFacts ==
  ASSUME TypeOK, RowsOK(work), step # 0, CanInsert, NEW f \in Insertions
  PROVE  /\ Upsert(f) \subseteq Row /\ HasKeys(Upsert(f))
         /\ \A s \in Upsert(f) : TableOf[s.entry] = Table
         /\ \A r \in work.rows[Table] : \E s \in Upsert(f) :
              /\ s.entry = r.entry /\ s.id = r.id
              /\ r.entry \notin FileEntries => s = r
         /\ \A s \in Upsert(f) :
              \/ s.entry \in NewEntries /\ s.id = f[s.entry]
              \/ \E r \in work.rows[Table] : /\ s.entry = r.entry /\ s.id = r.id
                                             /\ r.entry \notin FileEntries => s = r
         /\ \A s \in Upsert(f) : s.entry \in FileEntries => s.ref = ForeignIds(s.entry)
         /\ \A e \in FileEntries : \E s \in Upsert(f) : s.entry = e
<1> DEFINE Old(r) == IF r.entry \in FileEntries THEN [r EXCEPT !.ref = ForeignIds(r.entry)] ELSE r
           New(e) == [entry |-> e, id |-> f[e], ref |-> ForeignIds(e)]
<1>1. work.rows[Table] \subseteq Row
  BY StepFacts DEF TypeOK
<1>2. ASSUME NEW e \in FileEntries PROVE ForeignIds(e) \in [Tables -> 0..MaxId]
  BY ForeignIdsFacts
<1>3. ASSUME NEW r \in work.rows[Table]
      PROVE  /\ Old(r) \in Row /\ Old(r).entry = r.entry /\ Old(r).id = r.id
             /\ r.entry \in FileEntries => Old(r).ref = ForeignIds(r.entry)
             /\ r.entry \notin FileEntries => Old(r) = r
  <2>1. r \in Row
    BY <1>1
  <2>2. CASE r.entry \in FileEntries
    <3>1. ForeignIds(r.entry) \in [Tables -> 0..MaxId]
      BY <1>2, <2>2
    <3>2. Old(r) = [r EXCEPT !.ref = ForeignIds(r.entry)]
      BY <2>2
    <3> HIDE DEF Old
    <3> QED
      BY <2>1, <2>2, <3>1, <3>2 DEF Row
  <2>3. CASE r.entry \notin FileEntries
    BY <2>1, <2>3
  <2> QED
    BY <2>2, <2>3
<1>4. ASSUME NEW e \in NewEntries
      PROVE  /\ New(e) \in Row /\ New(e).entry = e /\ New(e).id = f[e]
             /\ New(e).ref = ForeignIds(e)
  <2>1. e \in FileEntries /\ e \in Entries /\ f[e] \in 1..MaxId
    BY StepFacts, InsertionFacts DEF NewEntries
  <2> QED
    BY <1>2, <2>1 DEF Row
<1>5. Upsert(f) = {Old(r) : r \in work.rows[Table]} \cup {New(e) : e \in NewEntries}
  BY DEF Upsert
<1> HIDE DEF Old, New
<1>6. \A s \in Upsert(f) : \/ \E r \in work.rows[Table] : s = Old(r)
                           \/ \E e \in NewEntries : s = New(e)
  BY <1>5
<1>7. Upsert(f) \subseteq Row
  BY <1>3, <1>4, <1>6
<1>8. \A s \in Upsert(f) :
        \/ s.entry \in NewEntries /\ s.id = f[s.entry]
        \/ \E r \in work.rows[Table] : /\ s.entry = r.entry /\ s.id = r.id
                                       /\ r.entry \notin FileEntries => s = r
  BY <1>3, <1>4, <1>6
<1>9. \A s \in Upsert(f) : s.entry \in FileEntries => s.ref = ForeignIds(s.entry)
  BY <1>3, <1>4, <1>6
<1>10. \A r \in work.rows[Table] : \E s \in Upsert(f) :
         /\ s.entry = r.entry /\ s.id = r.id
         /\ r.entry \notin FileEntries => s = r
  BY <1>3, <1>5
<1>11. ASSUME NEW e \in FileEntries PROVE \E s \in Upsert(f) : s.entry = e
  <2>1. CASE e \in NewEntries
    BY <1>4, <1>5, <2>1
  <2>2. CASE e \notin NewEntries
    BY <1>10, <2>2 DEF NewEntries, Present
  <2> QED
    BY <2>1, <2>2
<1>12. \A r \in work.rows[Table] : TableOf[r.entry] = Table /\ r.entry \notin NewEntries
  BY StepFacts DEF RowsOK, KeysOK, NewEntries, Present
<1>13. \A s \in Upsert(f) : TableOf[s.entry] = Table
  BY <1>8, <1>12, StepFacts DEF NewEntries
<1>14. ASSUME NEW r \in Upsert(f), NEW s \in Upsert(f), r.id = s.id \/ r.entry = s.entry
       PROVE  r = s
  <2>1. r.id = s.id /\ r.entry = s.entry
    <3>1. CASE r.entry \in NewEntries /\ s.entry \in NewEntries
      BY <1>8, <1>12, <1>14, <3>1, InsertionFacts
    <3>2. CASE r.entry \notin NewEntries /\ s.entry \notin NewEntries
      <4>1. PICK p \in work.rows[Table] : r.entry = p.entry /\ r.id = p.id
        BY <1>8, <3>2
      <4>2. PICK q \in work.rows[Table] : s.entry = q.entry /\ s.id = q.id
        BY <1>8, <3>2
      <4> QED
        BY <1>14, <4>1, <4>2, StepFacts DEF RowsOK, KeysOK, HasKeys
    <3>3. CASE r.entry \in NewEntries /\ s.entry \notin NewEntries
      BY <1>8, <1>12, <1>14, <3>3, InsertionFacts
    <3>4. CASE r.entry \notin NewEntries /\ s.entry \in NewEntries
      BY <1>8, <1>12, <1>14, <3>4, InsertionFacts
    <3> QED
      BY <3>1, <3>2, <3>3, <3>4
  <2>2. CASE r.entry \in FileEntries
    <3>1. r.ref = s.ref
      BY <1>9, <2>1, <2>2
    <3> QED
      BY <1>7, <2>1, <3>1 DEF Row
  <2>3. CASE r.entry \notin FileEntries
    <3>1. r \in work.rows[Table] /\ s \in work.rows[Table]
      BY <1>8, <2>1, <2>3 DEF NewEntries
    <3> QED
      BY <2>1, <3>1, StepFacts DEF RowsOK, KeysOK, HasKeys
  <2> QED
    BY <2>2, <2>3
<1>15. HasKeys(Upsert(f))
  BY <1>14 DEF HasKeys
<1> HIDE DEF RowsOK
<1> QED
  BY <1>7, <1>8, <1>9, <1>10, <1>11, <1>13, <1>15

\* lation_id_map after the file: the ids of the file's rows, what it had otherwise.
LEMMA IdsFacts ==
  ASSUME TypeOK, RowsOK(work), step # 0, CanInsert, NEW f \in Insertions
  PROVE  /\ UpdatedIds(Upsert(f)) \in [Entries -> 0..MaxId]
         /\ \A e \in Entries \ FileEntries : UpdatedIds(Upsert(f))[e] = idOf[e]
         /\ \A s \in Upsert(f) : s.entry \in FileEntries =>
              UpdatedIds(Upsert(f))[s.entry] = s.id
         /\ \A e \in FileEntries : UpdatedIds(Upsert(f))[e] # 0
<1> DEFINE U == Upsert(f)
           ids == UpdatedIds(U)
           Of(e) == CHOOSE r \in U : r.entry = e
<1>1. U \subseteq Row /\ HasKeys(U) /\ \A e \in FileEntries : \E s \in U : s.entry = e
  BY UpsertFacts
<1>2. FileEntries \subseteq Entries
  BY StepFacts
<1>3. ids = [e \in Entries |-> IF e \in FileEntries THEN Of(e).id ELSE idOf[e]]
  BY DEF UpdatedIds
<1> HIDE DEF U
<1>4. ASSUME NEW e \in FileEntries
      PROVE  Of(e) \in U /\ Of(e).entry = e
  BY <1>1
<1> HIDE DEF ids, Of
<1>5. \A e \in FileEntries : Of(e).id \in 1..MaxId
  BY <1>1, <1>4 DEF Row
<1>6. idOf \in [Entries -> 0..MaxId] /\ MaxId \in Nat
  BY InstallAssumption DEF TypeOK
<1>7. ids \in [Entries -> 0..MaxId]
  BY <1>3, <1>5, <1>6
<1>8. \A e \in FileEntries : ids[e] # 0
  BY <1>2, <1>3, <1>5
<1>9. ASSUME NEW s \in U, s.entry \in FileEntries PROVE ids[s.entry] = s.id
  <2>1. Of(s.entry) = s
    BY <1>1, <1>4, <1>9 DEF HasKeys
  <2> QED
    BY <1>2, <1>3, <1>9, <2>1
<1> QED
  BY <1>3, <1>7, <1>8, <1>9 DEF ids, U

\* setval: the sequence is beyond every id of the table, those to be deleted included.
LEMMA SetvalFacts ==
  ASSUME TypeOK, NEW U \in SUBSET Row, step # 0
  PROVE  /\ Setval(U) \in [Tables -> 1..MaxId + 1]
         /\ \A s \in U : s.id < Setval(U)[Table]
         /\ \A t \in Tables : t # Table => Setval(U)[t] = nextId[t]
<1> DEFINE I == {s.id : s \in U}
           Greatest(r) == r \in U /\ \A s \in U : s.id <= r.id
           greatest == CHOOSE r \in U : \A s \in U : s.id <= r.id
<1>1. MaxId \in Nat /\ nextId \in [Tables -> 1..MaxId + 1] /\ Table \in Tables
  BY StepFacts, InstallAssumption DEF TypeOK
<1>2. \A s \in U : s.id \in 1..MaxId
  BY DEF Row
<1>3. CASE U = {}
  <2>1. Setval(U) = [nextId EXCEPT ![Table] = 1]
    BY <1>3 DEF Setval
  <2> QED
    BY <1>1, <1>3, <2>1
<1>4. CASE U # {}
  <2>1. I \in SUBSET (0..MaxId) /\ I # {}
    BY <1>1, <1>2, <1>4
  <2>2. \E i \in I : \A j \in I : j <= i
    BY <1>1, <2>1, GreatestExists
  <2>3. \E r \in U : \A s \in U : s.id <= r.id
    BY <2>2
  <2>4. Greatest(greatest)
    BY <2>3
  <2>5. Setval(U) = [nextId EXCEPT ![Table] = greatest.id + 1]
    BY <1>4 DEF Setval
  <2> HIDE DEF greatest
  <2> QED
    BY <1>1, <1>2, <2>4, <2>5
<1> QED
  BY <1>3, <1>4

\* Where lation_data has ids that the sequence will give again.
Lags(t) == \E k \in work.known[t] : nextId[t] <= k.id

\* The history after the file.
Lagged == lagging \cup {t \in {Table} : \E k \in work.known[t] : nextId[t] <= k.id}

\* What the session has of the tables when a file is done.
After(f) ==
  [rows |-> RowsWithout(Upsert(f), StaleIds(UpdatedIds(Upsert(f)))),
   known |-> Record(Upsert(f))]

\* Rows that were there are stale if their entry is gone; one that was inserted is only
\* if the sequence lagged.
LEMMA StaleFacts ==
  ASSUME TypeOK, RowsOK(work), step # 0, CanInsert, NEW f \in Insertions,
         NEW stale, stale = StaleIds(UpdatedIds(Upsert(f)))
  PROVE  /\ stale \subseteq 1..MaxId
         /\ \A r \in work.rows[Table] : r.id \in stale =>
              r.entry \notin FileEntries /\ idOf[r.entry] = 0
         /\ \A r \in work.rows[Table] :
              /\ r.entry \notin FileEntries /\ idOf[r.entry] = 0
              /\ \E k \in work.known[Table] : k.entry = r.entry
              => r.id \in stale
         /\ \A e \in NewEntries : f[e] \in stale => Lags(Table)
<1> DEFINE U == Upsert(f)
           ids == UpdatedIds(U)
<1>1. work.known[Table] \subseteq Known /\ work.rows[Table] \subseteq Row
  BY StepFacts DEF TypeOK
<1>2. stale = {k.id : k \in {k \in work.known[Table] : ids[k.entry] = 0}}
  BY DEF StaleIds
<1>3. /\ \A e \in Entries \ FileEntries : ids[e] = idOf[e]
      /\ \A e \in FileEntries : ids[e] # 0
  BY IdsFacts
<1> HIDE DEF ids
<1>4. ASSUME NEW r \in work.rows[Table], r.id \in stale
      PROVE  r.entry \notin FileEntries /\ idOf[r.entry] = 0
  <2>1. PICK k \in work.known[Table] : ids[k.entry] = 0 /\ k.id = r.id
    BY <1>2, <1>4
  <2>2. k.entry = r.entry /\ r.entry \in Entries
    BY <2>1, StepFacts, RowFacts
  <2> QED
    BY <1>3, <2>1, <2>2
<1>5. ASSUME NEW r \in work.rows[Table], r.entry \notin FileEntries, idOf[r.entry] = 0,
             \E k \in work.known[Table] : k.entry = r.entry
      PROVE  r.id \in stale
  <2>1. r.entry \in Entries
    BY <1>1 DEF Row
  <2>2. ids[r.entry] = 0
    BY <1>3, <1>5, <2>1
  <2>3. PICK k \in work.known[Table] : k.entry = r.entry /\ k.id = r.id
    BY <1>5, StepFacts, RowFacts
  <2> QED
    BY <1>2, <2>2, <2>3
<1>6. ASSUME NEW e \in NewEntries, f[e] \in stale
      PROVE  Lags(Table)
  <2>1. PICK k \in work.known[Table] : k.id = f[e]
    BY <1>2, <1>6
  <2>2. nextId[Table] <= f[e]
    BY InsertionFacts
  <2> QED
    BY <2>1, <2>2 DEF Lags
<1>7. stale \subseteq 1..MaxId
  BY <1>1, <1>2 DEF Known
<1> QED
  BY <1>4, <1>5, <1>6, <1>7

\* What is deleted of another table, and the keys that are set to NULL, belong to entries
\* which are still to come: the row they refer to was deleted just now, as an entry that
\* is gone, or with one.
LEMMA DoomedFacts ==
  ASSUME TypeOK, RowsOK(work), step # 0, NEW stale \in SUBSET (1..MaxId)
  PROVE  /\ DoomedIds(Table, stale) = stale
         /\ \A u \in Tables : DoomedIds(u, stale) \subseteq 1..MaxId
         /\ \A u \in Tables : \A r \in work.rows[u] : u # Table /\ r.id \in DoomedIds(u, stale) =>
              /\ <<u, Table>> \in Cascades /\ step < FileOf(r.entry)
              /\ \E p \in work.rows[Table] :
                   p.id \in stale /\ p.entry \in ForeignOf[r.entry] /\ FileOf(p.entry) = step
         /\ \A t, u \in Tables : \A r \in work.rows[t] : r.ref[u] \in DoomedIds(u, stale) =>
              /\ step < FileOf(r.entry)
              /\ \E p \in work.rows[u] : /\ p.id \in DoomedIds(u, stale)
                                        /\ p.entry \in ForeignOf[r.entry]
<1>1. Table \in Tables /\ step \in DOMAIN Files /\ step \in Nat /\ Table = Files[step][2]
  BY StepFacts DEF Table
<1>2. DoomedIds(Table, stale) = stale
  BY DEF DoomedIds
<1>3. ASSUME NEW u \in Tables PROVE DoomedIds(u, stale) \subseteq 1..MaxId
  <2>1. CASE u = Table
    BY <1>2, <2>1
  <2>2. CASE u # Table
    <3>1. DoomedIds(u, stale) = {r.id : r \in ChildrenOf(u, stale)}
      BY <2>2 DEF DoomedIds
    <3>2. ChildrenOf(u, stale) \subseteq work.rows[u]
      BY DEF ChildrenOf
    <3> QED
      BY <3>1, <3>2, RowFacts
  <2> QED
    BY <2>1, <2>2
<1>4. ASSUME NEW t \in Tables, NEW r \in work.rows[t], r.ref[Table] \in stale
      PROVE  \E p \in work.rows[Table] :
               /\ p.id = r.ref[Table] /\ p.entry \in ForeignOf[r.entry]
               /\ FileOf(p.entry) = step /\ step < FileOf(r.entry)
  <2>1. r.ref[Table] # 0
    BY <1>4
  <2>2. PICK p \in work.rows[Table] : p.id = r.ref[Table] /\ p.entry \in ForeignOf[r.entry]
    BY <1>1, <2>1, RowFacts
  <2>3. r.entry \in Entries /\ TableOf[p.entry] = Table
    BY <1>1, RowFacts
  <2>4. FileOf(p.entry) = step /\ FileOf(p.entry) < FileOf(r.entry)
    BY <1>1, <2>2, <2>3, ForeignFacts
  <2> QED
    BY <2>2, <2>4
<1>5. ASSUME NEW u \in Tables, NEW r \in work.rows[u], u # Table, r.id \in DoomedIds(u, stale)
      PROVE  <<u, Table>> \in Cascades /\ r.ref[Table] \in stale
  <2>1. PICK q \in ChildrenOf(u, stale) : q.id = r.id
    BY <1>5 DEF DoomedIds
  <2>2. <<u, Table>> \in Cascades /\ q \in work.rows[u] /\ q.ref[Table] \in stale
    BY <2>1 DEF ChildrenOf
  <2>3. q = r
    BY <2>1, <2>2, RowFacts
  <2> QED
    BY <2>2, <2>3
<1>6. ASSUME NEW t \in Tables, NEW u \in Tables, NEW r \in work.rows[t],
             r.ref[u] \in DoomedIds(u, stale)
      PROVE  /\ step < FileOf(r.entry)
             /\ \E p \in work.rows[u] : p.id \in DoomedIds(u, stale)
                                      /\ p.entry \in ForeignOf[r.entry]
  <2>1. CASE u = Table
    BY <1>2, <1>4, <1>6, <2>1
  <2>2. CASE u # Table
    <3>1. r.ref[u] # 0
      BY <1>3, <1>6
    <3>2. PICK p \in work.rows[u] : p.id = r.ref[u] /\ p.entry \in ForeignOf[r.entry]
      BY <3>1, RowFacts
    <3>3. step < FileOf(p.entry)
      BY <1>4, <1>5, <1>6, <2>2, <3>2
    <3>4. FileOf(p.entry) < FileOf(r.entry) /\ FileOf(p.entry) \in Nat /\ FileOf(r.entry) \in Nat
      BY <3>2, RowFacts, ForeignFacts
    <3> QED
      BY <1>1, <1>6, <3>2, <3>3, <3>4
  <2> QED
    BY <2>1, <2>2
<1> QED
  BY <1>2, <1>3, <1>4, <1>5, <1>6

\* A row that stays: its entry, its id and those of its keys that still lead somewhere.
LEMMA NullifiedFacts ==
  ASSUME NEW stale, NEW r \in Row
  PROVE  /\ Nullified(r, stale) \in Row
         /\ Nullified(r, stale).entry = r.entry /\ Nullified(r, stale).id = r.id
         /\ \A u \in Tables : Nullified(r, stale).ref[u] =
              IF r.ref[u] \in DoomedIds(u, stale) THEN 0 ELSE r.ref[u]
<1> DEFINE ref == [u \in Tables |-> IF r.ref[u] \in DoomedIds(u, stale) THEN 0 ELSE r.ref[u]]
<1>1. r.ref \in [Tables -> 0..MaxId] /\ MaxId \in Nat
  BY InstallAssumption DEF Row
<1>2. ref \in [Tables -> 0..MaxId]
  BY <1>1
<1>3. Nullified(r, stale) = [r EXCEPT !.ref = ref]
  BY DEF Nullified
<1>4. \A u \in Tables : ref[u] = IF r.ref[u] \in DoomedIds(u, stale) THEN 0 ELSE r.ref[u]
  OBVIOUS
<1> HIDE DEF ref
<1>5. /\ Nullified(r, stale) \in Row /\ Nullified(r, stale).entry = r.entry
      /\ Nullified(r, stale).id = r.id /\ Nullified(r, stale).ref = ref
  BY <1>2, <1>3 DEF Row
<1> QED
  BY <1>4, <1>5

\* A table when the file's rows are upserted, before the deletions.
Before(f, t) == IF t = Table THEN Upsert(f) ELSE work.rows[t]

\* The deletions: of what was there or upserted, the rows that are not doomed stay.
LEMMA AfterFacts ==
  ASSUME TypeOK, RowsOK(work), step # 0, CanInsert, NEW f \in Insertions,
         NEW stale, stale = StaleIds(UpdatedIds(Upsert(f))),
         NEW W, W = After(f).rows, NEW K, K = After(f).known
  PROVE  /\ W \in [Tables -> SUBSET Row] /\ K \in [Tables -> SUBSET Known]
         /\ K[Table] = CurrentIds(Upsert(f))
         /\ \A t \in Tables : t # Table => K[t] = work.known[t]
         /\ \A t \in Tables : \A s \in W[t] : \E r \in Before(f, t) :
              /\ s = Nullified(r, stale) /\ s.entry = r.entry /\ s.id = r.id
              /\ s.id \notin DoomedIds(t, stale)
              /\ \A u \in Tables :
                   /\ s.ref[u] \notin DoomedIds(u, stale)
                   /\ IF r.ref[u] \in DoomedIds(u, stale) THEN s.ref[u] = 0
                                                        ELSE s.ref[u] = r.ref[u]
         /\ \A t \in Tables : \A r \in Before(f, t) : r.id \notin DoomedIds(t, stale) =>
              \E s \in W[t] : s.entry = r.entry /\ s.id = r.id
<1> DEFINE U == Upsert(f)
<1>1. U \subseteq Row
  BY UpsertFacts
<1>2. W = [t \in Tables |-> {Nullified(r, stale) :
                               r \in {r \in IF t = Table THEN U ELSE work.rows[t] :
                                        r.id \notin DoomedIds(t, stale)}}]
  BY DEF After, RowsWithout
<1>3. K = [work.known EXCEPT ![Table] = CurrentIds(U)]
  BY DEF After, Record
<1>4. CurrentIds(U) \subseteq Known
  <2> SUFFICES ASSUME NEW k \in CurrentIds(U)
               PROVE  k \in Known
    OBVIOUS
  <2>1. PICK r \in U : k = [entry |-> r.entry, id |-> r.id]
    BY DEF CurrentIds, Keys
  <2> QED
    BY <1>1, <2>1 DEF Row, Known
<1>5. Table \in Tables /\ work.rows \in [Tables -> SUBSET Row] /\ work.known \in [Tables -> SUBSET Known]
  BY StepFacts DEF TypeOK
<1>6. \A u \in Tables : 0 \notin DoomedIds(u, stale)
  <2>1. stale \in SUBSET (1..MaxId)
    BY StaleFacts
  <2>2. \A u \in Tables : DoomedIds(u, stale) \subseteq 1..MaxId
    BY <2>1, DoomedFacts
  <2> QED
    BY <2>2
<1>7. \A t \in Tables : Before(f, t) \subseteq Row
  BY <1>1, <1>5 DEF Before
<1>8. \A t \in Tables : W[t] = {Nullified(r, stale) :
                               r \in {r \in Before(f, t) : r.id \notin DoomedIds(t, stale)}}
  BY <1>2 DEF Before
<1> HIDE DEF U
<1>9. ASSUME NEW t \in Tables, NEW s \in W[t]
      PROVE  /\ s \in Row
             /\ \E r \in Before(f, t) :
                  /\ s = Nullified(r, stale) /\ s.entry = r.entry /\ s.id = r.id
                  /\ s.id \notin DoomedIds(t, stale)
                  /\ \A u \in Tables :
                       /\ s.ref[u] \notin DoomedIds(u, stale)
                       /\ IF r.ref[u] \in DoomedIds(u, stale) THEN s.ref[u] = 0
                                                            ELSE s.ref[u] = r.ref[u]
  <2>1. PICK r \in Before(f, t) : s = Nullified(r, stale) /\ r.id \notin DoomedIds(t, stale)
    BY <1>8, <1>9
  <2>2. r \in Row
    BY <1>7
  <2>3. /\ s \in Row /\ s.entry = r.entry /\ s.id = r.id
        /\ \A u \in Tables : s.ref[u] = IF r.ref[u] \in DoomedIds(u, stale) THEN 0 ELSE r.ref[u]
    BY <2>1, <2>2, NullifiedFacts
  <2> QED
    BY <1>6, <2>1, <2>3
<1>10. ASSUME NEW t \in Tables, NEW r \in Before(f, t), r.id \notin DoomedIds(t, stale)
       PROVE  \E s \in W[t] : s.entry = r.entry /\ s.id = r.id
  <2>1. Nullified(r, stale) \in W[t]
    BY <1>8, <1>10
  <2> QED
    BY <1>7, <2>1, NullifiedFacts
<1>11. W \in [Tables -> SUBSET Row]
  <2>1. W = [t \in Tables |-> W[t]]
    BY <1>2
  <2>2. \A t \in Tables : W[t] \in SUBSET Row
    BY <1>9
  <2> QED
    BY <2>1, <2>2
<1>12. K \in [Tables -> SUBSET Known] /\ K[Table] = CurrentIds(U)
       /\ \A t \in Tables : t # Table => K[t] = work.known[t]
  BY <1>3, <1>4, <1>5
<1> QED
  BY <1>9, <1>10, <1>11, <1>12 DEF U

\* Before the deletions every row is there with its entry and its id, and those that
\* were not are of the file's new entries.
LEMMA BeforeFacts ==
  ASSUME TypeOK, RowsOK(work), step # 0, CanInsert, NEW f \in Insertions, NEW t \in Tables
  PROVE  /\ HasKeys(Before(f, t)) /\ \A s \in Before(f, t) : TableOf[s.entry] = t
         /\ \A r \in work.rows[t] : \E s \in Before(f, t) : s.entry = r.entry /\ s.id = r.id
         /\ \A s \in Before(f, t) : s \in work.rows[t] \/ (t = Table /\ s.entry \in FileEntries)
         /\ \A s \in Before(f, t) : s.entry \in FileEntries \/ HasRow(work.rows[t], s.entry)
<1>1. CASE t = Table
  <2>1. Before(f, t) = Upsert(f)
    BY <1>1 DEF Before
  <2> QED
    BY <1>1, <2>1, UpsertFacts DEF NewEntries, HasRow
<1>2. CASE t # Table
  <2>1. Before(f, t) = work.rows[t]
    BY <1>2 DEF Before
  <2> QED
    BY <2>1, RowFacts DEF HasKeys, HasRow
<1> QED
  BY <1>1, <1>2

\* A row of an entry of the file stays, one that was inserted unless the sequence lagged.
LEMMA FileRowsStay ==
  ASSUME TypeOK, RowsOK(work), step # 0, CanInsert, NEW f \in Insertions,
         NEW e \in FileEntries
  PROVE  /\ \A r \in work.rows[Table] : r.entry = e =>
              \E s \in After(f).rows[Table] : s.entry = e /\ s.id = r.id
         /\ Lags(Table) \/ HasRow(After(f).rows[Table], e)
<1> DEFINE stale == StaleIds(UpdatedIds(Upsert(f)))
<1>1. \A r \in Upsert(f) : r.id \notin stale =>
        \E s \in After(f).rows[Table] : s.entry = r.entry /\ s.id = r.id
  <2>1. Table \in Tables /\ Before(f, Table) = Upsert(f) /\ DoomedIds(Table, stale) = stale
    BY StepFacts DEF Before, DoomedIds
  <2>2. \A t \in Tables : \A r \in Before(f, t) : r.id \notin DoomedIds(t, stale) =>
          \E s \in After(f).rows[t] : s.entry = r.entry /\ s.id = r.id
    BY AfterFacts
  <2> QED
    BY <2>1, <2>2
<1>2. ASSUME NEW r \in work.rows[Table], r.entry = e
      PROVE  \E s \in After(f).rows[Table] : s.entry = e /\ s.id = r.id
  <2>1. PICK s \in Upsert(f) : s.entry = r.entry /\ s.id = r.id
    BY UpsertFacts
  <2>2. r.id \notin stale
    BY <1>2, StaleFacts
  <2> QED
    BY <1>1, <1>2, <2>1, <2>2
<1>3. ASSUME ~Lags(Table), e \in NewEntries
      PROVE  HasRow(After(f).rows[Table], e)
  <2>1. PICK s \in Upsert(f) : s.entry = e
    BY UpsertFacts
  <2>2. s.id = f[e]
    <3>1. \A r \in work.rows[Table] : r.entry # e
      BY <1>3 DEF NewEntries, Present
    <3> QED
      BY <2>1, <3>1, UpsertFacts
  <2>3. s.id \notin stale
    BY <1>3, <2>2, StaleFacts
  <2> QED
    BY <1>1, <2>1, <2>3 DEF HasRow
<1>4. CASE e \in NewEntries
  BY <1>2, <1>3, <1>4
<1>5. CASE e \notin NewEntries
  <2>1. \E r \in work.rows[Table] : r.entry = e
    BY <1>5 DEF NewEntries, Present
  <2> QED
    BY <1>2, <2>1 DEF HasRow
<1> QED
  BY <1>4, <1>5

\* The key of a row of the file leads to the row of the entry it names, which is not
\* doomed.
LEMMA KeyIsGood ==
  ASSUME TypeOK, RowsOK(work), PassedOK, step # 0, CanInsert,
         NEW e \in FileEntries, NEW g \in ForeignOf[e], NEW stale \in SUBSET (1..MaxId)
  PROVE  /\ idOf[g] # 0 /\ g \in files /\ TableOf[g] # Table
         /\ \E p \in work.rows[TableOf[g]] : p.entry = g /\ p.id = idOf[g]
         /\ idOf[g] \notin DoomedIds(TableOf[g], stale)
<1>1. e \in Entries /\ FileOf(e) = step /\ step \in DOMAIN Files /\ step \in Nat
      /\ Table = Files[step][2]
  BY StepFacts DEF Table
<1>2. /\ g \in Entries /\ TableOf[g] \in Tables /\ ~IsShared(TableOf[g])
      /\ FileOf(g) \in Nat /\ FileOf(g) < step
      /\ \A i \in DOMAIN Files : Files[i][2] = TableOf[g] => i = FileOf(g)
  BY <1>1, ForeignFacts
<1>3. idOf[g] # 0
  BY DEF CanInsert, ForeignIsMissing
<1>4. TableOf[g] # Table
  BY <1>1, <1>2
<1>5. PICK p \in work.rows[TableOf[g]] : p.id = idOf[g]
  BY DEF CanInsert, Dangling
<1>6. g \in files /\ p.entry = g
  BY <1>2, <1>3, <1>5 DEF PassedOK
<1>7. p.id \notin DoomedIds(TableOf[g], stale)
  <2>1. p.id \in DoomedIds(TableOf[g], stale) => step < FileOf(g)
    BY <1>2, <1>4, <1>6, DoomedFacts
  <2> QED
    BY <1>1, <1>2, <2>1
<1> QED
  BY <1>3, <1>4, <1>5, <1>6, <1>7

\* Keys, lation_data and references after a file.
LEMMA AfterRowsOK ==
  ASSUME TypeOK, RowsOK(work), PassedOK, step # 0, CanInsert, NEW f \in Insertions
  PROVE  RowsOK(After(f))
<1> DEFINE U == Upsert(f)
           stale == StaleIds(UpdatedIds(U))
           W == After(f).rows
           K == After(f).known
<1>1. /\ W \in [Tables -> SUBSET Row] /\ K[Table] = CurrentIds(U)
      /\ \A t \in Tables : t # Table => K[t] = work.known[t]
      /\ \A t \in Tables : \A s \in W[t] : \E r \in Before(f, t) :
           /\ s = Nullified(r, stale) /\ s.entry = r.entry /\ s.id = r.id
           /\ s.id \notin DoomedIds(t, stale)
           /\ \A u \in Tables :
                /\ s.ref[u] \notin DoomedIds(u, stale)
                /\ IF r.ref[u] \in DoomedIds(u, stale) THEN s.ref[u] = 0
                                                     ELSE s.ref[u] = r.ref[u]
      /\ \A t \in Tables : \A r \in Before(f, t) : r.id \notin DoomedIds(t, stale) =>
           \E s \in W[t] : s.entry = r.entry /\ s.id = r.id
  BY AfterFacts
<1>2. \A t \in Tables :
        /\ HasKeys(Before(f, t)) /\ \A s \in Before(f, t) : TableOf[s.entry] = t
        /\ \A r \in work.rows[t] : \E s \in Before(f, t) : s.entry = r.entry /\ s.id = r.id
        /\ \A s \in Before(f, t) : s \in work.rows[t] \/ (t = Table /\ s.entry \in FileEntries)
  BY BeforeFacts
<1>3. /\ stale \in SUBSET (1..MaxId)
      /\ \A r \in work.rows[Table] :
           /\ r.entry \notin FileEntries /\ idOf[r.entry] = 0
           /\ \E k \in work.known[Table] : k.entry = r.entry
           => r.id \in stale
  BY StaleFacts
<1>4. \A k \in CurrentIds(U) : \E s \in U :
        s.entry \in FileEntries /\ k.entry = s.entry /\ k.id = s.id
  BY DEF CurrentIds, Keys
<1>5. ASSUME NEW s \in U, s.entry \in FileEntries
      PROVE  \E k \in CurrentIds(U) : k.entry = s.entry
  <2> DEFINE k == [entry |-> s.entry, id |-> s.id]
  <2>1. k \in CurrentIds(U) /\ k.entry = s.entry
    BY <1>5 DEF CurrentIds, Keys
  <2> QED
    BY <2>1
<1>6. \A s \in U : s.entry \in FileEntries => s.ref = ForeignIds(s.entry)
  BY UpsertFacts
<1>7. Table \in Tables /\ FileEntries \subseteq Entries /\ step \in Nat
  BY StepFacts
<1>8. Before(f, Table) = U /\ \A t \in Tables : t # Table => Before(f, t) = work.rows[t]
  BY DEF Before
<1>9. DoomedIds(Table, stale) = stale
  BY <1>3, DoomedFacts
<1> HIDE DEF U, stale, W, K
<1>10. ASSUME NEW t \in Tables PROVE HasKeys(W[t])
  <2> SUFFICES ASSUME NEW r \in W[t], NEW s \in W[t], r.id = s.id \/ r.entry = s.entry
               PROVE  r = s
    BY DEF HasKeys
  <2>1. PICK p \in Before(f, t) : r = Nullified(p, stale) /\ r.entry = p.entry /\ r.id = p.id
    BY <1>1
  <2>2. PICK q \in Before(f, t) : s = Nullified(q, stale) /\ s.entry = q.entry /\ s.id = q.id
    BY <1>1
  <2>3. p = q
    BY <1>2, <2>1, <2>2 DEF HasKeys
  <2> QED
    BY <2>1, <2>2, <2>3
<1>11. ASSUME NEW t \in Tables, NEW r \in W[t]
       PROVE  /\ TableOf[r.entry] = t
              /\ \A k \in K[t] : k.id = r.id <=> k.entry = r.entry
  <2>1. PICK p \in Before(f, t) : r.entry = p.entry /\ r.id = p.id
    BY <1>1
  <2>2. CASE t = Table
    BY <1>1, <1>2, <1>4, <1>8, <2>1, <2>2 DEF HasKeys
  <2>3. CASE t # Table
    BY <1>1, <1>2, <1>8, <2>1, <2>3, RowFacts
  <2> QED
    BY <2>2, <2>3
<1>12. ASSUME NEW t \in Tables, NEW r \in W[t], FromLastModule(r.entry)
       PROVE  \E k \in K[t] : k.entry = r.entry
  <2>1. PICK p \in Before(f, t) : r.entry = p.entry /\ r.id = p.id /\ r.id \notin DoomedIds(t, stale)
    BY <1>1
  <2>2. CASE t = Table /\ r.entry \in FileEntries
    BY <1>1, <1>5, <1>8, <2>1, <2>2
  <2>3. CASE t = Table /\ r.entry \notin FileEntries
    <3>1. p \in work.rows[Table] /\ p.id \notin stale
      BY <1>2, <1>9, <2>1, <2>3
    <3>2. r.entry \in Entries /\ TableOf[r.entry] = Table
          /\ \E k \in work.known[Table] : k.entry = r.entry
      BY <1>7, <1>12, <2>1, <3>1, RowFacts
    <3>3. idOf[r.entry] # 0
      BY <1>3, <2>1, <2>3, <3>1, <3>2
    <3>4. r.entry \in files /\ FileOf(r.entry) < step
      BY <3>2, <3>3 DEF PassedOK, Passed
    <3>5. step <= FileOf(r.entry)
      BY <1>12, <3>2, LastFile, StepFacts DEF Table
    <3>6. FileOf(r.entry) \in Nat
      BY <3>2, FileFacts
    <3> QED
      BY <1>7, <3>4, <3>5, <3>6
  <2>4. CASE t # Table
    <3>1. p \in work.rows[t]
      BY <1>8, <2>1, <2>4
    <3> QED
      BY <1>1, <1>12, <2>1, <2>4, <3>1, RowFacts
  <2> QED
    BY <2>2, <2>3, <2>4
<1>13. ASSUME NEW t \in Tables, NEW u \in Tables, NEW r \in W[t], r.ref[u] # 0
       PROVE  \E s \in W[u] : s.id = r.ref[u] /\ s.entry \in ForeignOf[r.entry]
  <2>1. PICK p \in Before(f, t) :
          /\ r.entry = p.entry /\ r.ref[u] \notin DoomedIds(u, stale) /\ r.ref[u] = p.ref[u]
    BY <1>1, <1>13
  <2>2. \E q \in work.rows[u] : q.id = p.ref[u] /\ q.entry \in ForeignOf[p.entry]
    <3>1. CASE p \in work.rows[t]
      BY <1>13, <2>1, <3>1, RowFacts
    <3>2. CASE t = Table /\ p.entry \in FileEntries
      <4>1. p.ref[u] = ForeignIds(p.entry)[u]
        BY <1>6, <1>8, <2>1, <3>2
      <4>2. PICK g \in ForeignOf[p.entry] : TableOf[g] = u /\ p.ref[u] = idOf[g]
        BY <1>13, <2>1, <3>2, <4>1, ForeignIdsFacts
      <4> QED
        BY <1>3, <3>2, <4>2, KeyIsGood
    <3> QED
      BY <1>2, <3>1, <3>2
  <2>3. PICK q \in Before(f, u) : q.id = p.ref[u] /\ q.entry \in ForeignOf[p.entry]
    BY <1>2, <2>2
  <2> QED
    BY <1>1, <2>1, <2>3
<1> QED
  BY <1>10, <1>11, <1>12, <1>13 DEF RowsOK, KeysOK, KnownOK, ReferencesOK, W, K

\* What the files up to this one have left.
LEMMA PassedAfter ==
  ASSUME TypeOK, RowsOK(work), PassedOK, step # 0, CanInsert, NEW f \in Insertions,
         NEW ids, ids = UpdatedIds(Upsert(f)), NEW W, W = After(f).rows
  PROVE  /\ \A e \in Entries : ids[e] # 0 =>
              /\ e \in files /\ FileOf(e) <= step
              /\ \A r \in W[TableOf[e]] : r.entry = e => r.id = ids[e] /\ HasKey(r)
              /\ ~IsShared(TableOf[e]) =>
                   \A r \in W[TableOf[e]] : r.id = ids[e] => r.entry = e
         /\ \A e \in files : FileOf(e) <= step =>
              /\ ids[e] # 0
              /\ TableOf[e] \in Lagged \/ HasRow(W[TableOf[e]], e)
              /\ ForeignOf[e] \subseteq files
         /\ \A i \in DOMAIN Files : i <= step =>
              \A r \in W[Files[i][2]] : r.entry \in files \/ ~FromLastModule(r.entry)
<1> DEFINE U == Upsert(f)
           stale == StaleIds(UpdatedIds(U))
<1>1. /\ \A t \in Tables : \A s \in W[t] : \E r \in Before(f, t) :
           /\ s.entry = r.entry /\ s.id = r.id /\ s.id \notin DoomedIds(t, stale)
           /\ \A u \in Tables : IF r.ref[u] \in DoomedIds(u, stale) THEN s.ref[u] = 0
                                                                  ELSE s.ref[u] = r.ref[u]
      /\ \A t \in Tables : \A r \in Before(f, t) : r.id \notin DoomedIds(t, stale) =>
           \E s \in W[t] : s.entry = r.entry /\ s.id = r.id
  BY AfterFacts
<1>2. \A t \in Tables :
        /\ HasKeys(Before(f, t)) /\ \A s \in Before(f, t) : TableOf[s.entry] = t
        /\ \A r \in work.rows[t] : \E s \in Before(f, t) : s.entry = r.entry /\ s.id = r.id
        /\ \A s \in Before(f, t) : s \in work.rows[t] \/ (t = Table /\ s.entry \in FileEntries)
  BY BeforeFacts
<1>3. /\ \A e \in Entries \ FileEntries : ids[e] = idOf[e]
      /\ \A s \in U : s.entry \in FileEntries => ids[s.entry] = s.id
      /\ \A e \in FileEntries : ids[e] # 0
  BY IdsFacts
<1>4. /\ \A s \in U : s.entry \in FileEntries => s.ref = ForeignIds(s.entry)
      /\ \A e \in FileEntries : \E s \in U : s.entry = e
  BY UpsertFacts
<1>5. /\ step \in DOMAIN Files /\ step \in Nat /\ Table \in Tables /\ Table = Files[step][2]
      /\ files \subseteq Entries /\ FileEntries \subseteq files
      /\ \A e \in files : e \in FileEntries <=> FileOf(e) = step
      /\ \A e \in FileEntries : TableOf[e] = Table
  BY StepFacts DEF Table
<1>6. /\ stale \in SUBSET (1..MaxId)
      /\ \A r \in work.rows[Table] : r.id \in stale => idOf[r.entry] = 0
      /\ \A r \in work.rows[Table] :
           /\ r.entry \notin FileEntries /\ idOf[r.entry] = 0
           /\ \E k \in work.known[Table] : k.entry = r.entry
           => r.id \in stale
  BY StaleFacts
<1>7. /\ DoomedIds(Table, stale) = stale
      /\ \A u \in Tables : \A r \in work.rows[u] : u # Table /\ r.id \in DoomedIds(u, stale) =>
           step < FileOf(r.entry)
      /\ \A t, u \in Tables : \A r \in work.rows[t] : r.ref[u] \in DoomedIds(u, stale) =>
           step < FileOf(r.entry)
  BY <1>6, DoomedFacts
<1>8. Before(f, Table) = U
  BY DEF Before
<1> HIDE DEF U, stale
<1>9. ASSUME NEW e \in FileEntries, NEW s \in W[Table], s.entry = e
      PROVE  s.id = ids[e] /\ HasKey(s)
  <2>1. PICK r \in U : /\ s.entry = r.entry /\ s.id = r.id
                       /\ \A u \in Tables : IF r.ref[u] \in DoomedIds(u, stale)
                                             THEN s.ref[u] = 0 ELSE s.ref[u] = r.ref[u]
    BY <1>1, <1>5, <1>8
  <2>2. ASSUME NEW g \in ForeignOf[e] PROVE s.ref[TableOf[g]] # 0
    <3>1. r.ref[TableOf[g]] = idOf[g]
      BY <1>4, <1>9, <2>1, ForeignIdsFacts
    <3>2. idOf[g] # 0 /\ idOf[g] \notin DoomedIds(TableOf[g], stale)
      BY <1>6, KeyIsGood
    <3>3. TableOf[g] \in Tables
      BY <1>5, ForeignFacts
    <3> QED
      BY <2>1, <3>1, <3>2, <3>3
  <2> QED
    BY <1>3, <1>9, <2>1, <2>2 DEF HasKey
<1>10. ASSUME NEW e \in Entries, ids[e] # 0
       PROVE  /\ e \in files /\ FileOf(e) <= step
              /\ \A r \in W[TableOf[e]] : r.entry = e => r.id = ids[e] /\ HasKey(r)
              /\ ~IsShared(TableOf[e]) => \A r \in W[TableOf[e]] : r.id = ids[e] => r.entry = e
  <2>1. CASE e \in FileEntries
    <3>1. ASSUME NEW s \in W[Table], s.id = ids[e] PROVE s.entry = e
      <4>1. PICK r \in U : s.entry = r.entry /\ s.id = r.id
        BY <1>1, <1>5, <1>8
      <4>2. PICK q \in U : q.entry = e
        BY <1>4, <2>1
      <4>3. q.id = r.id
        BY <1>3, <2>1, <3>1, <4>1, <4>2
      <4>4. q = r
        BY <1>2, <1>5, <1>8, <4>3 DEF HasKeys
      <4> QED
        BY <4>1, <4>2, <4>4
    <3> QED
      BY <1>5, <1>9, <2>1, <3>1
  <2>2. CASE e \notin FileEntries
    <3>1. idOf[e] # 0 /\ ids[e] = idOf[e]
      BY <1>3, <1>10, <2>2
    <3>2. /\ e \in files /\ FileOf(e) < step /\ FileOf(e) \in Nat /\ TableOf[e] \in Tables
          /\ \A r \in work.rows[TableOf[e]] : r.entry = e => r.id = idOf[e] /\ HasKey(r)
          /\ ~IsShared(TableOf[e]) =>
               \A r \in work.rows[TableOf[e]] : r.id = idOf[e] => r.entry = e
      BY <3>1, FileFacts DEF PassedOK, Passed
    <3>3. ASSUME NEW s \in W[TableOf[e]], s.entry = e PROVE s.id = ids[e] /\ HasKey(s)
      <4>1. PICK r \in Before(f, TableOf[e]) :
              /\ s.entry = r.entry /\ s.id = r.id
              /\ \A u \in Tables : IF r.ref[u] \in DoomedIds(u, stale) THEN s.ref[u] = 0
                                                                     ELSE s.ref[u] = r.ref[u]
        BY <1>1, <3>2
      <4>2. r \in work.rows[TableOf[e]]
        BY <1>2, <2>2, <3>2, <3>3, <4>1
      <4>3. r.id = idOf[e] /\ HasKey(r)
        BY <3>2, <3>3, <4>1, <4>2
      <4>4. \A u \in Tables : s.ref[u] = r.ref[u]
        <5>1. ~(step < FileOf(r.entry))
          BY <1>5, <3>2, <3>3, <4>1
        <5> QED
          BY <1>7, <3>2, <4>1, <4>2, <5>1
      <4>5. \A g \in ForeignOf[e] : TableOf[g] \in Tables
        BY ForeignFacts
      <4> QED
        BY <3>1, <3>3, <4>1, <4>3, <4>4, <4>5 DEF HasKey
    <3>4. ASSUME ~IsShared(TableOf[e]), NEW s \in W[TableOf[e]], s.id = ids[e]
          PROVE  s.entry = e
      <4>1. TableOf[e] # Table
        BY <1>5, <3>2, <3>4, UnsharedFile
      <4>2. PICK r \in work.rows[TableOf[e]] : s.entry = r.entry /\ s.id = r.id
        BY <1>1, <3>2, <4>1 DEF Before
      <4> QED
        BY <3>1, <3>2, <3>4, <4>2
    <3> QED
      BY <1>5, <3>2, <3>3, <3>4
  <2> QED
    BY <2>1, <2>2
<1>11. ASSUME NEW e \in files, FileOf(e) <= step
       PROVE  /\ ids[e] # 0
              /\ TableOf[e] \in Lagged \/ HasRow(W[TableOf[e]], e)
              /\ ForeignOf[e] \subseteq files
  <2>1. e \in Entries /\ FileOf(e) \in Nat /\ TableOf[e] \in Tables
    BY <1>5, FileFacts
  <2>2. CASE FileOf(e) = step
    <3>1. e \in FileEntries /\ TableOf[e] = Table
      BY <1>5, <2>2
    <3>2. Table \in Lagged \/ HasRow(W[Table], e)
      BY <3>1, FileRowsStay DEF Lags, Lagged
    <3>3. ForeignOf[e] \subseteq files
      BY <1>6, <3>1, KeyIsGood
    <3> QED
      BY <1>3, <3>1, <3>2, <3>3
  <2>3. CASE FileOf(e) # step
    <3>1. e \notin FileEntries /\ Passed(e)
      BY <1>5, <1>11, <2>1, <2>3 DEF Passed
    <3>2. /\ idOf[e] # 0
          /\ TableOf[e] \in lagging \/ HasRow(work.rows[TableOf[e]], e)
          /\ ForeignOf[e] \subseteq files
      BY <3>1 DEF PassedOK
    <3>3. ids[e] # 0
      BY <1>3, <2>1, <3>1, <3>2
    <3>4. ASSUME NEW r \in work.rows[TableOf[e]], r.entry = e
          PROVE  HasRow(W[TableOf[e]], e)
      <4>1. r.id \notin DoomedIds(TableOf[e], stale)
        <5>1. CASE TableOf[e] = Table
          BY <1>6, <1>7, <3>2, <3>4, <5>1
        <5>2. CASE TableOf[e] # Table
          BY <1>5, <1>7, <1>11, <2>1, <3>4, <5>2
        <5> QED
          BY <5>1, <5>2
      <4>2. PICK s \in Before(f, TableOf[e]) : s.entry = e /\ s.id = r.id
        BY <1>2, <2>1, <3>4
      <4> QED
        BY <1>1, <2>1, <4>1, <4>2 DEF HasRow
    <3> QED
      BY <3>2, <3>3, <3>4 DEF HasRow, Lagged
  <2> QED
    BY <2>2, <2>3
<1>12. ASSUME NEW i \in DOMAIN Files, i <= step, NEW s \in W[Files[i][2]], FromLastModule(s.entry)
       PROVE  s.entry \in files
  <2>1. Files[i][2] \in Tables
    BY FilesType
  <2>2. PICK r \in Before(f, Files[i][2]) :
          s.entry = r.entry /\ s.id = r.id /\ s.id \notin DoomedIds(Files[i][2], stale)
    BY <1>1, <2>1
  <2>3. CASE Files[i][2] = Table
    <3>1. CASE r.entry \in FileEntries
      BY <1>5, <2>2, <3>1
    <3>2. CASE r.entry \notin FileEntries
      <4>1. r \in work.rows[Table]
        BY <1>2, <1>5, <2>2, <2>3, <3>2
      <4>2. r.entry \in Entries /\ \E k \in work.known[Table] : k.entry = r.entry
        BY <1>5, <1>12, <2>2, <4>1, RowFacts
      <4>3. idOf[r.entry] # 0
        BY <1>6, <1>7, <2>2, <2>3, <3>2, <4>1, <4>2
      <4> QED
        BY <2>2, <4>2, <4>3 DEF PassedOK
    <3> QED
      BY <3>1, <3>2
  <2>4. CASE Files[i][2] # Table
    <3>1. i < step /\ i \in Nat
      BY <1>5, <1>12, <2>4, FilesType
    <3>2. r \in work.rows[Files[i][2]]
      BY <1>2, <2>1, <2>2, <2>4
    <3> QED
      BY <1>12, <2>2, <3>1, <3>2 DEF PassedOK
  <2> QED
    BY <2>3, <2>4
<1> QED
  BY <1>10, <1>11, <1>12

\* A committed row whose entry and those it is deleted with are there, or still to come,
\* is among the session's rows when the file is done.
LEMMA Survives ==
  ASSUME TypeOK, RowsOK(work), RowsOK(Committed), PassedOK, WorkOK, step # 0, CanInsert,
         NEW f \in Insertions, NEW t \in Tables, ~IsShared(t), NEW r \in rows[t],
         r.entry \in files,
         \A g \in DeletedWith(r.entry) : g \in files \/ ~(FileOf(g) <= step)
  PROVE  \E s \in After(f).rows[t] : s.entry = r.entry /\ s.id = r.id
<1> DEFINE e == r.entry
           stale == StaleIds(UpdatedIds(Upsert(f)))
<1>1. /\ step \in DOMAIN Files /\ step \in Nat /\ Table \in Tables /\ Table = Files[step][2]
      /\ files \subseteq Entries
      /\ \A d \in files : d \in FileEntries <=> FileOf(d) = step
  BY StepFacts DEF Table
<1>2. e \in Entries /\ TableOf[e] = t
  BY CommittedFacts
<1>3. MayStay(e)
  <2>1. SUFFICES ASSUME NEW g \in DeletedWith(e), g \notin files, Passed(g)
                 PROVE  FALSE
    BY DEF MayStay
  <2>2. FileOf(g) \in Nat
    BY <1>2, ForeignFacts DEF DeletedWith
  <2> QED
    BY <1>1, <2>1, <2>2 DEF Passed
<1>4. PICK s \in work.rows[t] : s.entry = e /\ s.id = r.id
  BY <1>3 DEF WorkOK
<1>5. CASE t = Table
  <2>1. e \in FileEntries
    BY <1>1, <1>2, <1>5, UnsharedFile
  <2> QED
    BY <1>4, <1>5, <2>1, FileRowsStay
<1>6. CASE t # Table
  <2>1. s.id \notin DoomedIds(t, stale)
    <3>1. SUFFICES ASSUME s.id \in DoomedIds(t, stale) PROVE FALSE
      OBVIOUS
    <3>2. stale \in SUBSET (1..MaxId)
      BY StaleFacts
    <3>3. /\ <<t, Table>> \in Cascades
          /\ \E p \in work.rows[Table] :
               p.id \in stale /\ p.entry \in ForeignOf[s.entry] /\ FileOf(p.entry) = step
      BY <1>4, <1>6, <3>1, <3>2, DoomedFacts
    <3>4. PICK p \in work.rows[Table] :
            p.id \in stale /\ p.entry \in ForeignOf[e] /\ FileOf(p.entry) = step
      BY <1>4, <3>3
    <3>5. TableOf[p.entry] = Table
      BY <1>1, RowFacts
    <3>6. p.entry \in DeletedWith(e)
      BY <1>2, <3>3, <3>4, <3>5 DEF DeletedWith
    <3>7. p.entry \in FileEntries
      BY <1>1, <3>4, <3>6
    <3> QED
      BY <3>4, <3>7, StaleFacts
  <2>2. s \in Before(f, t)
    BY <1>4, <1>6 DEF Before
  <2> QED
    BY <1>4, <2>1, <2>2, AfterFacts
<1> QED
  BY <1>5, <1>6

\* A table whose rows are not deleted with others is, until its file is done, what is
\* committed; and its sequence does not lag.
LEMMA Unchanged ==
  ASSUME TypeOK, WorkOK, step # 0, NEW t \in Tables \ Children, t = Table
  PROVE  Keys(work.rows[t]) = Keys(rows[t]) /\ work.known[t] = known[t]
<1>1. step \in DOMAIN Files /\ step \in Nat /\ Files[step][2] = t
  BY StepFacts DEF Table
<1>2. SUFFICES ASSUME NEW i \in DOMAIN Files, i < step, Files[i] = <<Files[step][1], t>>
               PROVE  FALSE
  BY <1>1 DEF WorkOK
<1>3. Files[i] = Files[step]
  BY <1>1, <1>2, FilesType
<1> QED
  BY <1>1, <1>2, <1>3, InstallAssumption

LEMMA NotLagging ==
  ASSUME TypeOK, RowsOK(work), SequencesOK(work), NEW t \in Tables \ Children
  PROVE  ~Lags(t)
<1>1. SUFFICES ASSUME NEW k \in work.known[t], nextId[t] <= k.id
               PROVE  FALSE
  BY DEF Lags
<1>2. PICK r \in work.rows[t] : r.entry = k.entry
  BY DEF SequencesOK, HasRow
<1>3. r.id = k.id /\ r.id \in 1..MaxId
  BY <1>2, RowFacts
<1>4. r.id < nextId[t]
  BY DEF SequencesOK
<1>5. nextId[t] \in 1..MaxId + 1 /\ MaxId \in Nat
  BY InstallAssumption DEF TypeOK
<1> QED
  BY <1>1, <1>3, <1>4, <1>5

LEMMA LaggedFacts ==
  ASSUME TypeOK, RowsOK(work), SequencesOK(work), lagging \subseteq Children, step # 0
  PROVE  Lagged \subseteq Children /\ Lagged \subseteq Tables
<1>1. Table \in Tables /\ lagging \subseteq Tables
  BY StepFacts DEF TypeOK
<1>2. Lags(Table) => Table \in Children
  BY <1>1, NotLagging
<1> QED
  BY <1>1, <1>2 DEF Lagged, Lags

\* Rows whose ids and entries are among others'.
LEMMA KeysFacts ==
  ASSUME NEW A, NEW B, Keys(A) \subseteq Keys(B), NEW r \in A
  PROVE  \E s \in B : s.entry = r.entry /\ s.id = r.id
<1> DEFINE k == [entry |-> r.entry, id |-> r.id]
<1>1. k \in Keys(B)
  BY DEF Keys
<1>2. PICK s \in B : k = [entry |-> s.entry, id |-> s.id]
  BY <1>1 DEF Keys
<1>3. k.entry = s.entry /\ k.id = s.id
  BY <1>2
<1> QED
  BY <1>3

\* Other tables: nothing is inserted, and unless they are Children nothing is deleted.
LEMMA OtherTables ==
  ASSUME TypeOK, RowsOK(work), step # 0, CanInsert, NEW f \in Insertions,
         NEW t \in Tables, t # Table
  PROVE  /\ Keys(After(f).rows[t]) \subseteq Keys(work.rows[t])
         /\ t \notin Children => Keys(After(f).rows[t]) = Keys(work.rows[t])
<1> DEFINE W == After(f).rows
           stale == StaleIds(UpdatedIds(Upsert(f)))
<1>1. Before(f, t) = work.rows[t]
  BY DEF Before
<1>2. /\ \A s \in W[t] : \E r \in work.rows[t] : s.entry = r.entry /\ s.id = r.id
      /\ \A r \in work.rows[t] : r.id \notin DoomedIds(t, stale) =>
           \E s \in W[t] : s.entry = r.entry /\ s.id = r.id
  <2>1. \A s \in W[t] : \E r \in Before(f, t) : s.entry = r.entry /\ s.id = r.id
    BY AfterFacts
  <2>2. \A r \in Before(f, t) : r.id \notin DoomedIds(t, stale) =>
          \E s \in W[t] : s.entry = r.entry /\ s.id = r.id
    BY AfterFacts
  <2> QED
    BY <1>1, <2>1, <2>2
<1> HIDE DEF W, stale
<1>3. Keys(W[t]) \subseteq Keys(work.rows[t])
  <2> SUFFICES ASSUME NEW k \in Keys(W[t]) PROVE k \in Keys(work.rows[t])
    OBVIOUS
  <2>1. PICK s \in W[t] : k = [entry |-> s.entry, id |-> s.id]
    BY DEF Keys
  <2>2. PICK r \in work.rows[t] : s.entry = r.entry /\ s.id = r.id
    BY <1>2
  <2> QED
    BY <2>1, <2>2 DEF Keys
<1>4. ASSUME t \notin Children, NEW k \in Keys(work.rows[t]) PROVE k \in Keys(W[t])
  <2>1. PICK r \in work.rows[t] : k = [entry |-> r.entry, id |-> r.id]
    BY DEF Keys
  <2>2. <<t, Table>> \notin Cascades
    BY <1>4, StepFacts DEF Children
  <2>3. r.id \notin DoomedIds(t, stale)
    BY <2>2 DEF DoomedIds, ChildrenOf
  <2>4. PICK s \in W[t] : s.entry = r.entry /\ s.id = r.id
    BY <1>2, <2>3
  <2> QED
    BY <2>1, <2>4 DEF Keys
<1> QED
  BY <1>3, <1>4 DEF W

\* setval is beyond the committed rows as well.
LEMMA SetvalBeyond ==
  ASSUME TypeOK, RowsOK(work), SequencesOK(Committed), WorkOK, step # 0, CanInsert,
         NEW f \in Insertions, NEW t \in Tables \ Children, NEW r \in rows[t]
  PROVE  r.id < Setval(Upsert(f))[t]
<1>1. Upsert(f) \in SUBSET Row /\ \A p \in work.rows[Table] : \E s \in Upsert(f) : s.id = p.id
  BY UpsertFacts
<1>2. CASE t = Table
  <2>1. PICK p \in work.rows[t] : p.id = r.id
    BY <1>2, Unchanged, KeysFacts
  <2>2. PICK s \in Upsert(f) : s.id = r.id
    BY <1>1, <1>2, <2>1
  <2> QED
    BY <1>1, <1>2, <2>2, SetvalFacts
<1>3. CASE t # Table
  <2>1. Setval(Upsert(f))[t] = nextId[t]
    BY <1>1, <1>3, SetvalFacts
  <2>2. r.id < nextId[t]
    BY DEF SequencesOK, Committed
  <2> QED
    BY <2>1, <2>2
<1> QED
  BY <1>2, <1>3

\* Sequences after a file.
LEMMA SequencesAfter ==
  ASSUME TypeOK, RowsOK(work), SequencesOK(work), WorkOK, step # 0, CanInsert,
         NEW f \in Insertions, NEW t \in Tables \ Children
  PROVE  /\ \A r \in After(f).rows[t] : r.id < Setval(Upsert(f))[t]
         /\ \A k \in After(f).known[t] : HasRow(After(f).rows[t], k.entry)
<1> DEFINE U == Upsert(f)
           W == After(f).rows
           K == After(f).known
           stale == StaleIds(UpdatedIds(Upsert(f)))
<1>1. U \in SUBSET Row
  BY UpsertFacts
<1>2. CASE t = Table
  <2>1. K[t] = CurrentIds(U) /\ \A s \in W[t] : \E r \in Before(f, t) : s.id = r.id
    BY <1>2, AfterFacts
  <2>2. \A r \in W[t] : r.id < Setval(U)[t]
    BY <1>1, <1>2, <2>1, SetvalFacts DEF Before
  <2>3. ASSUME NEW k \in K[t] PROVE HasRow(W[t], k.entry)
    <3>1. PICK s \in U : s.entry \in FileEntries /\ k.entry = s.entry
      BY <2>1 DEF CurrentIds, Keys
    <3>2. ~Lags(Table)
      BY <1>2, NotLagging
    <3> QED
      BY <1>2, <3>1, <3>2, FileRowsStay
  <2> QED
    BY <2>2, <2>3
<1>3. CASE t # Table
  <2>1. Keys(W[t]) = Keys(work.rows[t]) /\ K[t] = work.known[t]
    BY <1>3, OtherTables, AfterFacts
  <2>2. Setval(U)[t] = nextId[t]
    BY <1>1, <1>3, SetvalFacts
  <2>3. \A r \in W[t] : \E s \in work.rows[t] : s.entry = r.entry /\ s.id = r.id
    BY <2>1, KeysFacts
  <2>4. \A r \in work.rows[t] : \E s \in W[t] : s.entry = r.entry /\ s.id = r.id
    BY <2>1, KeysFacts
  <2>5. /\ \A r \in work.rows[t] : r.id < nextId[t]
        /\ \A k \in work.known[t] : HasRow(work.rows[t], k.entry)
    BY DEF SequencesOK
  <2> HIDE DEF W, K, U
  <2>6. \A k \in K[t] : HasRow(W[t], k.entry)
    BY <2>1, <2>4, <2>5 DEF HasRow
  <2>7. \A r \in W[t] : r.id < Setval(U)[t]
    BY <2>2, <2>3, <2>5
  <2> QED
    BY <2>6, <2>7 DEF W, K, U
<1> QED
  BY <1>2, <1>3

\* Rows that logs and orders refer to stay.
LEMMA UsedAfter ==
  ASSUME TypeOK, RowsOK(work), UsedOK, step # 0, CanInsert, NEW f \in Insertions,
         ~DeletionIsRefused(StaleIds(UpdatedIds(Upsert(f)))), NEW u \in used
  PROVE  \E r \in rows[u[1]], s \in After(f).rows[u[1]] :
           r.id = u[2] /\ s.id = u[2] /\ r.entry = s.entry
<1> DEFINE stale == StaleIds(UpdatedIds(Upsert(f)))
           W == After(f).rows
<1>1. u = <<u[1], u[2]>> /\ u[1] \in Tables /\ Table \in Tables
  BY StepFacts DEF TypeOK
<1>2. PICK r \in rows[u[1]], s \in work.rows[u[1]] : r.id = u[2] /\ s.id = u[2] /\ r.entry = s.entry
  BY DEF UsedOK
<1>3. u[2] \notin DoomedIds(u[1], stale)
  BY <1>1 DEF DeletionIsRefused
<1>4. PICK p \in Before(f, u[1]) : p.entry = s.entry /\ p.id = s.id
  BY <1>1, <1>2, BeforeFacts
<1>5. PICK q \in W[u[1]] : q.entry = p.entry /\ q.id = p.id
  BY <1>1, <1>2, <1>3, <1>4, AfterFacts
<1> QED
  BY <1>2, <1>4, <1>5

-----------------------------------------------------------------------------
(* Steps.                                                                  *)

LEMMA RowsOKPrime ==
  ASSUME NEW db, RowsOK(db)
  PROVE  /\ work' = db => RowsOK(work)'
         /\ Committed' = db => RowsOK(Committed)'
<1>1. KeysOK(db) /\ KnownOK(db) /\ ReferencesOK(db)
  BY DEF RowsOK
<1>2. ASSUME work' = db PROVE KeysOK(work)' /\ KnownOK(work)' /\ ReferencesOK(work)'
  <2>1. KeysOK(work)'
    BY <1>1, <1>2 DEF KeysOK
  <2>2. KnownOK(work)'
    BY <1>1, <1>2 DEF KnownOK
  <2>3. ReferencesOK(work)'
    BY <1>1, <1>2 DEF ReferencesOK
  <2> QED
    BY <2>1, <2>2, <2>3
<1>3. ASSUME Committed' = db
      PROVE  KeysOK(Committed)' /\ KnownOK(Committed)' /\ ReferencesOK(Committed)'
  <2>1. KeysOK(Committed)'
    BY <1>1, <1>3 DEF KeysOK
  <2>2. KnownOK(Committed)'
    BY <1>1, <1>3 DEF KnownOK
  <2>3. ReferencesOK(Committed)'
    BY <1>1, <1>3 DEF ReferencesOK
  <2> QED
    BY <2>1, <2>2, <2>3
<1> QED
  BY <1>2, <1>3 DEF RowsOK

\* What InstalledAsWritten says of the tables.
Written ==
  /\ \A e \in files : TableOf[e] \in lagging \/ HasRow(rows[TableOf[e]], e)
  /\ \A t \in Tables : \A r \in rows[t] : r.entry \in files \/ ~FromLastModule(r.entry)
  /\ \A t \in Tables : \A r \in rows[t] : r.entry \in files => HasKey(r)

LEMMA WrittenSuffices == RowsOK(Committed) /\ Written => InstalledAsWritten
BY DEF Written, InstalledAsWritten, RowsOK

LEMMA InstallFileKeepsIInv ==
  ASSUME IInv, InstallFile
  PROVE  IInv'
<1>1. PICK f \in Insertions :
        /\ ~DeletionIsRefused(StaleIds(UpdatedIds(Upsert(f))))
        /\ work' = After(f)
        /\ idOf' = UpdatedIds(Upsert(f))
        /\ nextId' = Setval(Upsert(f))
  BY DEF InstallFile, After
<1>2. /\ step # 0 /\ CanInsert
      /\ IF IsLastOfModule THEN rows' = work'.rows /\ known' = work'.known
                           ELSE rows' = rows /\ known' = known
      /\ IF step = Len(Files) THEN step' = 0 /\ outcome' = "done"
                              ELSE step' = step + 1 /\ outcome' = outcome
      /\ lagging' = Lagged
      /\ files' = files /\ used' = used /\ runs' = runs
  BY DEF InstallFile, Lagged
<1>3. /\ TypeOK /\ RowsOK(work) /\ RowsOK(Committed) /\ PassedOK /\ WorkOK
      /\ SequencesOK(work) /\ SequencesOK(Committed) /\ UsedOK
      /\ lagging \subseteq Children /\ outcome = "running"
  BY <1>2 DEF IInv
<1> DEFINE U == Upsert(f)
           W == After(f).rows
           K == After(f).known
           ids == UpdatedIds(Upsert(f))
<1>4. /\ step \in DOMAIN Files /\ step \in Nat /\ Table \in Tables /\ Table = Files[step][2]
      /\ Len(Files) \in Nat /\ DOMAIN Files = 1..Len(Files)
  BY <1>2, <1>3, StepFacts, FilesType DEF Table
<1>5. work' = [rows |-> W, known |-> K] /\ work'.rows = W /\ work'.known = K
  BY <1>1 DEF After
<1>6. W \in [Tables -> SUBSET Row] /\ K \in [Tables -> SUBSET Known]
  BY <1>2, <1>3, AfterFacts
<1>7. TypeOK'
  <2>1. rows' \in [Tables -> SUBSET Row] /\ known' \in [Tables -> SUBSET Known]
    BY <1>2, <1>3, <1>5, <1>6 DEF TypeOK
  <2>2. U \in SUBSET Row /\ idOf' \in [Entries -> 0..MaxId]
    BY <1>1, <1>2, <1>3, UpsertFacts, IdsFacts
  <2>3. nextId' \in [Tables -> 1..MaxId + 1]
    BY <1>1, <1>2, <1>3, <2>2, SetvalFacts
  <2>4. step' \in 0..Len(Files) /\ outcome' \in {"none", "running", "done", "raised", "crashed"}
    BY <1>2, <1>3, <1>4 DEF TypeOK
  <2>5. lagging' \subseteq Tables
    BY <1>2, <1>3, LaggedFacts
  <2> HIDE DEF W, K, U
  <2> QED
    BY <1>2, <1>3, <1>5, <1>6, <2>1, <2>2, <2>3, <2>4, <2>5 DEF TypeOK, Row, Known
<1>8. RowsOK(work)' /\ RowsOK(Committed)'
  <2>1. RowsOK(After(f))
    BY <1>2, <1>3, AfterRowsOK
  <2>2. RowsOK(work)'
    BY <1>1, <2>1, RowsOKPrime
  <2>3. Committed' = After(f) \/ Committed' = Committed
    BY <1>1, <1>2, <1>5 DEF Committed
  <2> QED
    BY <1>3, <2>1, <2>2, <2>3, RowsOKPrime
<1>9. SequencesOK(work)'
  <2>1. \A t \in Tables \ Children :
          /\ \A r \in W[t] : r.id < Setval(U)[t]
          /\ \A k \in K[t] : HasRow(W[t], k.entry)
    BY <1>2, <1>3, SequencesAfter
  <2> HIDE DEF W, K, U
  <2>2. nextId' = Setval(U)
    BY <1>1 DEF U
  <2> QED
    BY <1>5, <2>1, <2>2 DEF SequencesOK, HasRow
<1>10. SequencesOK(Committed)'
  <2>1. CASE IsLastOfModule
    <3>1. Committed' = work'
      BY <1>2, <1>5, <2>1 DEF Committed
    <3> QED
      BY <1>9, <3>1 DEF SequencesOK
  <2>2. CASE ~IsLastOfModule
    <3>1. rows' = rows /\ known' = known
      BY <1>2, <2>2
    <3>2. \A t \in Tables \ Children : \A r \in rows[t] : r.id < nextId'[t]
      BY <1>1, <1>2, <1>3, SetvalBeyond
    <3>3. \A t \in Tables \ Children : \A k \in known[t] : HasRow(rows[t], k.entry)
      BY <1>3 DEF SequencesOK, Committed
    <3> QED
      BY <3>1, <3>2, <3>3 DEF SequencesOK, Committed, HasRow
  <2> QED
    BY <2>1, <2>2
<1>11. lagging' \subseteq Children
  BY <1>2, <1>3, LaggedFacts
<1>12. UsedOK'
  <2> SUFFICES ASSUME NEW u \in used
               PROVE  \E r \in rows'[u[1]], s \in W[u[1]] :
                        r.id = u[2] /\ s.id = u[2] /\ r.entry = s.entry
    BY <1>2, <1>5 DEF UsedOK
  <2>1. \E r \in rows[u[1]], s \in W[u[1]] :
          r.id = u[2] /\ s.id = u[2] /\ r.entry = s.entry
    BY <1>1, <1>2, <1>3, UsedAfter
  <2>2. rows' = rows \/ rows' = W
    BY <1>2, <1>5
  <2> QED
    BY <2>1, <2>2
<1>13. /\ \A e \in Entries : ids[e] # 0 =>
            /\ e \in files /\ FileOf(e) <= step
            /\ \A r \in W[TableOf[e]] : r.entry = e => r.id = ids[e] /\ HasKey(r)
            /\ ~IsShared(TableOf[e]) =>
                 \A r \in W[TableOf[e]] : r.id = ids[e] => r.entry = e
       /\ \A e \in files : FileOf(e) <= step =>
            /\ ids[e] # 0
            /\ TableOf[e] \in Lagged \/ HasRow(W[TableOf[e]], e)
            /\ ForeignOf[e] \subseteq files
       /\ \A i \in DOMAIN Files : i <= step =>
            \A r \in W[Files[i][2]] : r.entry \in files \/ ~FromLastModule(r.entry)
  BY <1>2, <1>3, PassedAfter
<1>14. files \subseteq Entries
  BY <1>2, <1>3, StepFacts
<1>15. CASE step = Len(Files)
  <2>1. IsLastOfModule /\ rows' = W /\ known' = K /\ step' = 0 /\ outcome' = "done"
    BY <1>2, <1>5, <1>15 DEF IsLastOfModule
  <2>2. work' = Committed'
    BY <1>5, <2>1 DEF Committed
  <2>3. Written'
    <3>1. \A e \in files : TableOf[e] \in Lagged \/ HasRow(W[TableOf[e]], e)
      BY <1>4, <1>13, <1>14, <1>15, FileFacts
    <3>2. ASSUME NEW t \in Tables, NEW r \in W[t]
          PROVE  r.entry \in files \/ ~FromLastModule(r.entry)
      <4>1. PICK i \in DOMAIN Files : t = Files[i][2]
        BY DEF Tables
      <4> QED
        BY <1>4, <1>13, <1>15, <3>2, <4>1
    <3>3. ASSUME NEW t \in Tables, NEW r \in W[t], r.entry \in files
          PROVE  HasKey(r)
      <4>1. r.entry \in Entries /\ TableOf[r.entry] = t
        <5>1. RowsOK(After(f))
          BY <1>2, <1>3, AfterRowsOK
        <5> QED
          BY <1>14, <3>3, <5>1 DEF RowsOK, KeysOK
      <4>2. ids[r.entry] # 0
        BY <1>4, <1>13, <1>15, <3>3, <4>1, FileFacts
      <4> QED
        BY <1>13, <3>3, <4>1, <4>2
    <3> HIDE DEF W
    <3> QED
      BY <1>2, <2>1, <3>1, <3>2, <3>3 DEF Written, HasRow, HasKey
  <2>4. InstalledAsWritten'
    <3>1. (RowsOK(Committed) /\ Written => InstalledAsWritten)'
      BY WrittenSuffices, PTL
    <3> QED
      BY <1>8, <2>3, <3>1
  <2> QED
    BY <1>7, <1>8, <1>9, <1>10, <1>11, <1>12, <2>1, <2>2, <2>4 DEF IInv
<1>16. CASE step # Len(Files)
  <2>1. step' = step + 1 /\ step' # 0 /\ outcome' = outcome
    BY <1>2, <1>4, <1>16
  <2>2. InstalledAsWritten'
    BY <1>3, <2>1 DEF InstalledAsWritten
  <2>3. \A e \in Entries : Passed(e)' <=> FileOf(e) <= step
    <3> SUFFICES ASSUME NEW e \in Entries
                 PROVE  Passed(e)' <=> FileOf(e) <= step
      OBVIOUS
    <3>1. Passed(e)' <=> FileOf(e) < step'
      BY DEF Passed, FileOf
    <3>2. FileOf(e) \in Nat
      BY FileFacts
    <3> QED
      BY <1>4, <2>1, <3>1, <3>2
  <2>4. PassedOK'
    <3>1. \A e \in Entries : idOf'[e] # 0 =>
            /\ e \in files /\ Passed(e)'
            /\ \A r \in work'.rows[TableOf[e]] : r.entry = e => r.id = idOf'[e] /\ HasKey(r)
            /\ ~IsShared(TableOf[e]) =>
                 \A r \in work'.rows[TableOf[e]] : r.id = idOf'[e] => r.entry = e
      BY <1>1, <1>5, <1>13, <2>3
    <3>2. \A e \in files : Passed(e)' =>
            /\ idOf'[e] # 0
            /\ TableOf[e] \in lagging' \/ HasRow(work'.rows[TableOf[e]], e)
            /\ ForeignOf[e] \subseteq files
      BY <1>1, <1>2, <1>5, <1>13, <1>14, <2>3
    <3>3. \A i \in DOMAIN Files : i < step' =>
            \A r \in work'.rows[Files[i][2]] : r.entry \in files \/ ~FromLastModule(r.entry)
      BY <1>4, <1>5, <1>13, <2>1
    <3> QED
      BY <1>2, <3>1, <3>2, <3>3 DEF PassedOK, HasRow, HasKey, IsShared
  <2>5. WorkOK'
    <3>1. ASSUME NEW t \in Tables, t \notin Children
          PROVE  \/ \E i \in DOMAIN Files : i < step' /\ Files[i] = <<Files[step'][1], t>>
                 \/ Keys(W[t]) = Keys(rows'[t]) /\ K[t] = known'[t]
      <4>1. CASE IsLastOfModule
        BY <1>2, <1>5, <4>1
      <4>2. CASE ~IsLastOfModule
        <5>1. Files[step'][1] = Files[step][1] /\ rows' = rows /\ known' = known
          BY <1>2, <2>1, <4>2 DEF IsLastOfModule
        <5>2. CASE \E i \in DOMAIN Files : i < step /\ Files[i] = <<Files[step][1], t>>
          BY <1>4, <2>1, <5>1, <5>2
        <5>3. CASE t = Table
          <6>1. Files[step] = <<Files[step'][1], t>> /\ step < step'
            BY <1>4, <2>1, <5>1, <5>3, FilesType
          <6> QED
            BY <1>4, <6>1
        <5>4. CASE t # Table /\ Keys(work.rows[t]) = Keys(rows[t]) /\ work.known[t] = known[t]
          BY <1>2, <1>3, <3>1, <5>1, <5>4, AfterFacts, OtherTables
        <5> QED
          BY <1>3, <3>1, <5>2, <5>3, <5>4 DEF WorkOK
      <4> QED
        BY <4>1, <4>2
    <3>2. ASSUME NEW t \in Tables, ~IsShared(t)
          PROVE  \/ \E i \in DOMAIN Files : i < step' /\ Files[i][2] = t
                 \/ Keys(W[t]) \subseteq Keys(rows'[t])
      <4>1. CASE t = Table
        BY <1>4, <2>1, <4>1
      <4>2. CASE t # Table /\ ~IsLastOfModule
        <5>1. rows' = rows /\ Keys(W[t]) \subseteq Keys(work.rows[t])
          BY <1>2, <1>3, <4>2, OtherTables
        <5> QED
          BY <1>3, <1>4, <2>1, <3>2, <5>1 DEF WorkOK
      <4>3. CASE IsLastOfModule
        BY <1>2, <1>5, <4>3
      <4> QED
        BY <4>1, <4>2, <4>3
    <3>3. ASSUME NEW t \in Tables, ~IsShared(t), NEW r \in rows'[t], MayStay(r.entry)'
          PROVE  \E s \in W[t] : s.entry = r.entry /\ s.id = r.id
      <4>1. CASE IsLastOfModule
        BY <1>2, <1>5, <4>1
      <4>2. CASE ~IsLastOfModule
        <5>1. r \in rows[t]
          BY <1>2, <3>3, <4>2
        <5>2. r.entry \in files
          BY <1>2, <3>3 DEF MayStay
        <5>3. ASSUME NEW g \in DeletedWith(r.entry)
              PROVE  g \in files \/ ~(FileOf(g) <= step)
          <6>1. g \in Entries
            BY <1>14, <5>2, ForeignFacts DEF DeletedWith
          <6>2. g \in files \/ ~Passed(g)'
            BY <1>2, <3>3 DEF MayStay, DeletedWith
          <6> QED
            BY <2>3, <6>1, <6>2
        <5> QED
          BY <1>2, <1>3, <3>3, <5>1, <5>2, <5>3, Survives
      <4> QED
        BY <4>1, <4>2
    <3>4. ASSUME NEW t \in Tables, NEW s \in W[t]
          PROVE  s.entry \in files \/ HasRow(rows'[t], s.entry)
      <4>1. CASE rows' = W
        BY <4>1 DEF HasRow
      <4>2. CASE rows' = rows
        <5>1. PICK r \in Before(f, t) : s.entry = r.entry
          BY <1>2, <1>3, AfterFacts
        <5>2. s.entry \in files \/ HasRow(work.rows[t], s.entry)
          BY <1>2, <1>3, <5>1, BeforeFacts, StepFacts
        <5>3. HasRow(work.rows[t], s.entry) => s.entry \in files \/ HasRow(rows[t], s.entry)
          BY <1>3 DEF WorkOK, HasRow
        <5> QED
          BY <4>2, <5>2, <5>3 DEF HasRow
      <4> QED
        BY <1>2, <1>5, <4>1, <4>2
    <3> HIDE DEF W, K
    <3>5. ASSUME NEW t \in Tables, ~IsShared(t)'
          PROVE  ~IsShared(t)
      BY <3>5 DEF IsShared
    <3> QED
      BY <1>2, <1>5, <3>1, <3>2, <3>3, <3>4, <3>5 DEF WorkOK, HasRow
  <2> QED
    BY <1>7, <1>8, <1>9, <1>10, <1>11, <1>12, <1>3, <2>1, <2>2, <2>4, <2>5 DEF IInv
<1> QED
  BY <1>15, <1>16

\* A transaction that is rolled back leaves what is committed, and a sequence that is
\* not behind it unless the table is one of the Children.
LEMMA AbandonKeepsIInv ==
  ASSUME IInv, step # 0, NEW how \in {"raised", "crashed"}, Abandon(how),
         nextId' \in [Tables -> 1..MaxId + 1],
         \A t \in Tables \ Children : \A r \in rows[t] : r.id < nextId'[t]
  PROVE  IInv'
<1>1. /\ step' = 0 /\ outcome' = how /\ work' = Committed
      /\ files' = files /\ rows' = rows /\ known' = known /\ idOf' = idOf
      /\ used' = used /\ runs' = runs /\ lagging' = lagging
  BY DEF Abandon
<1>2. TypeOK /\ RowsOK(Committed) /\ SequencesOK(Committed) /\ UsedOK /\ lagging \subseteq Children
  BY DEF IInv
<1>3. Committed' = Committed /\ Committed.rows = rows /\ Committed.known = known
  BY <1>1 DEF Committed
<1>4. TypeOK'
  BY <1>1, <1>2, <1>3, FilesType DEF TypeOK, Row, Known
<1>5. RowsOK(work)' /\ RowsOK(Committed)'
  BY <1>1, <1>2, <1>3, RowsOKPrime
<1>6. SequencesOK(Committed)'
  BY <1>2, <1>3 DEF SequencesOK
<1>7. SequencesOK(work)'
  BY <1>1, <1>3, <1>6 DEF SequencesOK
<1>8. UsedOK'
  BY <1>1, <1>2, <1>3 DEF UsedOK
<1>9. InstalledAsWritten'
  BY <1>1 DEF InstalledAsWritten
<1> QED
  BY <1>1, <1>2, <1>3, <1>4, <1>5, <1>6, <1>7, <1>8, <1>9 DEF IInv

\* An installation begins from what is committed, or from nothing.
LEMMA StartKeepsIInv ==
  ASSUME IInv, step = 0, runs < MaxRuns, Start, work' = Committed', files' = files,
         \/ UNCHANGED <<rows, known, nextId, used>>
         \/ /\ rows' = [t \in Tables |-> {}] /\ known' = [t \in Tables |-> {}]
            /\ nextId' = [t \in Tables |-> 1] /\ used' = {}
  PROVE  IInv'
<1>1. step' = 1 /\ outcome' = "running" /\ idOf' = NothingKnown /\ runs' = runs + 1 /\ lagging' = {}
  BY DEF Start
<1>2. TypeOK /\ RowsOK(Committed) /\ SequencesOK(Committed) /\ UsedOK
  BY DEF IInv
<1>3. Committed'.rows = rows' /\ Committed'.known = known'
      /\ Committed.rows = rows /\ Committed.known = known
  BY DEF Committed
<1>4. MaxId \in Nat /\ MaxRuns \in Nat
  BY InstallAssumption
<1>5. TypeOK'
  <2>1. rows' \in [Tables -> SUBSET Row] /\ known' \in [Tables -> SUBSET Known]
        /\ nextId' \in [Tables -> 1..MaxId + 1] /\ used' \subseteq Tables \X (1..MaxId)
    BY <1>2, <1>4 DEF TypeOK
  <2>2. idOf' \in [Entries -> 0..MaxId] /\ step' \in 0..Len(Files) /\ runs' \in 0..MaxRuns
    BY <1>1, <1>2, <1>4, FilesType DEF NothingKnown, TypeOK
  <2> QED
    BY <1>1, <1>2, <1>3, <2>1, <2>2 DEF TypeOK, Row, Known
<1>6. RowsOK(Committed)'
  <2>1. CASE UNCHANGED <<rows, known, nextId, used>>
    <3>1. Committed' = Committed
      BY <2>1 DEF Committed
    <3> QED
      BY <1>2, <3>1, RowsOKPrime
  <2>2. CASE rows' = [t \in Tables |-> {}]
    BY <1>3, <2>2 DEF RowsOK, KeysOK, KnownOK, ReferencesOK, HasKeys
  <2> QED
    BY <2>1, <2>2
<1>7. RowsOK(work)'
  BY <1>6 DEF RowsOK, KeysOK, KnownOK, ReferencesOK
<1>8. SequencesOK(Committed)'
  BY <1>2, <1>3 DEF SequencesOK, HasRow
<1>9. SequencesOK(work)'
  BY <1>8 DEF SequencesOK
<1>10. UsedOK'
  <2> SUFFICES ASSUME NEW u \in used'
               PROVE  \E r \in rows'[u[1]] : r.id = u[2]
    BY <1>3 DEF UsedOK
  <2> QED
    BY <1>2 DEF UsedOK
<1>11. \A i \in DOMAIN Files : i \in Nat /\ 1 <= i
  BY FilesType
<1>12. PassedOK'
  <2>1. \A e \in Entries : idOf'[e] = 0
    BY <1>1 DEF NothingKnown
  <2>2. \A e \in files : ~Passed(e)'
    <3> SUFFICES ASSUME NEW e \in files PROVE ~(FileOf(e) < step')
      BY DEF Passed, FileOf
    <3>1. e \in Entries
      BY <1>2, InstallAssumption DEF TypeOK
    <3> QED
      BY <1>1, <1>11, <3>1, FileFacts
  <2> QED
    BY <1>1, <1>11, <2>1, <2>2 DEF PassedOK
<1>13. WorkOK'
  BY <1>3 DEF WorkOK, HasRow
<1>14. InstalledAsWritten'
  BY <1>1 DEF InstalledAsWritten
<1> QED
  BY <1>1, <1>5, <1>6, <1>7, <1>8, <1>9, <1>10, <1>12, <1>13, <1>14 DEF IInv

LEMMA InitInstall == Init => IInv
<1> SUFFICES ASSUME Init PROVE IInv
  OBVIOUS
<1>1. /\ files \in Versions /\ rows = [t \in Tables |-> {}] /\ known = [t \in Tables |-> {}]
      /\ work = Committed /\ idOf = NothingKnown /\ nextId = [t \in Tables |-> 1]
      /\ step = 0 /\ outcome = "none" /\ used = {} /\ runs = 0 /\ lagging = {}
  BY DEF Init
<1>2. Committed.rows = rows /\ Committed.known = known /\ MaxId \in Nat /\ MaxRuns \in Nat
  BY InstallAssumption DEF Committed
<1>3. TypeOK
  BY <1>1, <1>2, FilesType DEF TypeOK, NothingKnown
<1>4. RowsOK(Committed) /\ SequencesOK(Committed)
  BY <1>1, <1>2 DEF RowsOK, KeysOK, KnownOK, ReferencesOK, HasKeys, SequencesOK
<1>5. UsedOK /\ InstalledAsWritten
  BY <1>1 DEF UsedOK, InstalledAsWritten
<1> QED
  BY <1>1, <1>3, <1>4, <1>5 DEF IInv

LEMMA UseKeepsIInv ==
  ASSUME IInv, NEW t \in Tables, Use(t)
  PROVE  IInv'
<1>1. PICK r \in rows[t], q \in work.rows[t] :
        r.entry = q.entry /\ r.id = q.id /\ used' = used \cup {<<t, r.id>>}
  <2>1. PICK k \in Keys(rows[t]) \cap Keys(work.rows[t]) : used' = used \cup {<<t, k.id>>}
    BY DEF Use
  <2>2. PICK r \in rows[t] : k = [entry |-> r.entry, id |-> r.id]
    BY DEF Keys
  <2>3. PICK q \in work.rows[t] : k = [entry |-> q.entry, id |-> q.id]
    BY DEF Keys
  <2>4. k.id = r.id /\ k.id = q.id /\ k.entry = r.entry /\ k.entry = q.entry
    BY <2>2, <2>3
  <2> QED
    BY <2>1, <2>4
<1>2. /\ files' = files /\ rows' = rows /\ known' = known /\ work' = work /\ idOf' = idOf
      /\ nextId' = nextId /\ step' = step /\ outcome' = outcome /\ runs' = runs
      /\ lagging' = lagging
  BY DEF Use
<1>3. Committed' = Committed
  BY <1>2 DEF Committed
<1>4. r.id \in 1..MaxId
  BY CommittedFacts DEF IInv
<1>5. TypeOK'
  <2>1. used' \subseteq Tables \X (1..MaxId)
    BY <1>1, <1>4 DEF IInv, TypeOK
  <2> QED
    BY <1>2, <2>1 DEF IInv, TypeOK, Row, Known
<1>6. RowsOK(work)' /\ RowsOK(Committed)'
  BY <1>2, <1>3, RowsOKPrime DEF IInv
<1>7. SequencesOK(work)' /\ SequencesOK(Committed)'
  BY <1>2, <1>3 DEF IInv, SequencesOK
<1>8. UsedOK'
  <2> SUFFICES ASSUME NEW u \in used'
               PROVE  \E p \in rows[u[1]], s \in work.rows[u[1]] :
                        p.id = u[2] /\ s.id = u[2] /\ p.entry = s.entry
    BY <1>2 DEF UsedOK
  <2>1. CASE u \in used
    BY <2>1 DEF IInv, UsedOK
  <2>2. CASE u = <<t, r.id>>
    BY <1>1, <2>2
  <2> QED
    BY <1>1, <2>1, <2>2
<1>9. ASSUME step # 0 PROVE PassedOK' /\ WorkOK'
  <2>1. PassedOK /\ WorkOK
    BY <1>9 DEF IInv
  <2>2. PassedOK'
    BY <1>2, <2>1 DEF PassedOK, Passed, FileOf, HasRow, HasKey, IsShared
  <2>3. ASSUME NEW e PROVE MayStay(e)' <=> MayStay(e)
    BY <1>2 DEF MayStay, DeletedWith, Passed, FileOf
  <2>4. WorkOK'
    BY <1>2, <2>1, <2>3 DEF WorkOK, HasRow, IsShared
  <2> QED
    BY <2>2, <2>4
<1>10. InstalledAsWritten'
  <2>1. ReferencesOK(Committed) = ReferencesOK(Committed)'
    BY <1>2, <1>3 DEF ReferencesOK
  <2> QED
    BY <1>2, <1>3, <2>1 DEF IInv, InstalledAsWritten, HasRow, HasKey
<1> QED
  BY <1>2, <1>3, <1>5, <1>6, <1>7, <1>8, <1>9, <1>10 DEF IInv

\* The ways to be abandoned, and what they do to the sequence.
LEMMA AbandonedKeepIInv ==
  ASSUME IInv, KeyError \/ InsertionRefused \/ ReferenceRefused \/ DeletionRefused \/ Crash
  PROVE  IInv'
<1>1. step # 0 /\ TypeOK /\ RowsOK(work) /\ SequencesOK(Committed) /\ WorkOK
  BY DEF IInv, KeyError, InsertionRefused, ReferenceRefused, DeletionRefused, Crash
<1>2. /\ Table \in Tables /\ MaxId \in Nat /\ nextId \in [Tables -> 1..MaxId + 1]
  BY <1>1, StepFacts, InstallAssumption DEF TypeOK
<1>3. \A t \in Tables \ Children : \A r \in rows[t] : r.id < nextId[t] /\ r.id \in 1..MaxId
  <2>1. \A t \in Tables : \A r \in rows[t] : r.id \in 1..MaxId
    BY CommittedFacts DEF IInv
  <2> QED
    BY <1>1, <2>1 DEF SequencesOK, Committed
<1>4. PICK how \in {"raised", "crashed"} : Abandon(how)
  BY DEF KeyError, InsertionRefused, ReferenceRefused, DeletionRefused, Crash
<1>5. CASE nextId' = nextId
  BY <1>1, <1>2, <1>3, <1>4, <1>5, AbandonKeepsIInv
<1>6. CASE \E id \in TakenIds : nextId' = [nextId EXCEPT ![Table] = id + 1]
  <2>1. PICK id \in TakenIds : nextId' = [nextId EXCEPT ![Table] = id + 1]
    BY <1>6
  <2>2. PICK r \in work.rows[Table] : r.id = id
    BY DEF TakenIds
  <2>3. id \in 1..MaxId
    BY <1>1, <1>2, <2>2, RowFacts
  <2>4. nextId[Table] <= id
    <3>1. id \in NewIds /\ IsFiniteSet(NewEntries)
      <4>1. NewEntries \subseteq Entries
        BY <1>1, StepFacts DEF NewEntries
      <4> QED
        BY <4>1, InstallAssumption, FS_Subset DEF TakenIds
    <3> QED
      BY <1>2, <3>1, FS_CardinalityType DEF NewIds
  <2>5. nextId' \in [Tables -> 1..MaxId + 1]
    BY <1>2, <2>1, <2>3
  <2>6. \A t \in Tables \ Children : \A r1 \in rows[t] : r1.id < nextId'[t]
    BY <1>2, <1>3, <2>1, <2>3, <2>4
  <2> QED
    BY <1>1, <1>4, <2>5, <2>6, AbandonKeepsIInv
<1>7. CASE CanInsert /\ \E f \in Insertions : nextId' = Setval(Upsert(f))
  <2>1. PICK f \in Insertions : nextId' = Setval(Upsert(f))
    BY <1>7
  <2>2. Upsert(f) \in SUBSET Row
    BY <1>1, <1>7, UpsertFacts
  <2>3. nextId' \in [Tables -> 1..MaxId + 1]
    BY <1>1, <2>1, <2>2, SetvalFacts
  <2>4. \A t \in Tables \ Children : \A r \in rows[t] : r.id < nextId'[t]
    BY <1>1, <1>7, <2>1, SetvalBeyond
  <2> QED
    BY <1>1, <1>4, <2>3, <2>4, AbandonKeepsIInv
<1>8. CASE \E n \in Consumed : nextId' = [nextId EXCEPT ![Table] = n]
  <2>1. PICK n \in Consumed : nextId' = [nextId EXCEPT ![Table] = n]
    BY <1>8
  <2>2. NewEntries \subseteq Entries
    BY <1>1, StepFacts DEF NewEntries
  <2>3. Cardinality(NewEntries) \in Nat
    BY <2>2, InstallAssumption, FS_Subset, FS_CardinalityType
  <2>4. n \in 1..MaxId + 1 /\ nextId[Table] <= n
    BY <1>2, <2>3 DEF Consumed
  <2>5. nextId' \in [Tables -> 1..MaxId + 1]
    BY <1>2, <2>1, <2>4
  <2>6. \A t \in Tables \ Children : \A r \in rows[t] : r.id < nextId'[t]
    BY <1>2, <1>3, <2>1, <2>4
  <2> QED
    BY <1>1, <1>4, <2>5, <2>6, AbandonKeepsIInv
<1> QED
  BY <1>5, <1>6, <1>7, <1>8 DEF KeyError, InsertionRefused, ReferenceRefused, DeletionRefused, Crash

LEMMA ReleaseKeepsIInv ==
  ASSUME IInv, Release
  PROVE  IInv'
<1>1. /\ files' \in Versions /\ outcome' = "none" /\ step = 0 /\ step' = 0
      /\ rows' = rows /\ known' = known /\ work' = work /\ idOf' = idOf
      /\ nextId' = nextId /\ used' = used /\ runs' = runs /\ lagging' = lagging
  BY DEF Release
<1>2. Committed' = Committed
  BY <1>1 DEF Committed
<1>3. TypeOK'
  BY <1>1 DEF IInv, TypeOK, Row, Known
<1>4. RowsOK(work)' /\ RowsOK(Committed)'
  BY <1>1, <1>2, RowsOKPrime DEF IInv
<1>5. SequencesOK(work)' /\ SequencesOK(Committed)' /\ UsedOK'
  BY <1>1, <1>2 DEF IInv, SequencesOK, UsedOK
<1>6. InstalledAsWritten'
  BY <1>1 DEF InstalledAsWritten
<1> QED
  BY <1>1, <1>2, <1>3, <1>4, <1>5, <1>6 DEF IInv

LEMMA UnchangedKeepsIInv ==
  ASSUME IInv, UNCHANGED vars
  PROVE  IInv'
<1>1. /\ files' = files /\ rows' = rows /\ known' = known /\ work' = work /\ idOf' = idOf
      /\ nextId' = nextId /\ step' = step /\ outcome' = outcome /\ used' = used
      /\ runs' = runs /\ lagging' = lagging
  BY DEF vars
<1>2. Committed' = Committed
  BY <1>1 DEF Committed
<1>3. TypeOK'
  BY <1>1 DEF IInv, TypeOK, Row, Known
<1>4. RowsOK(work)' /\ RowsOK(Committed)'
  BY <1>1, <1>2, RowsOKPrime DEF IInv
<1>5. SequencesOK(work)' /\ SequencesOK(Committed)' /\ UsedOK'
  BY <1>1, <1>2 DEF IInv, SequencesOK, UsedOK
<1>6. ASSUME step # 0 PROVE PassedOK' /\ WorkOK'
  <2>1. PassedOK /\ WorkOK
    BY <1>6 DEF IInv
  <2>2. PassedOK'
    BY <1>1, <2>1 DEF PassedOK, Passed, FileOf, HasRow, HasKey, IsShared
  <2>3. ASSUME NEW e PROVE MayStay(e)' <=> MayStay(e)
    BY <1>1 DEF MayStay, DeletedWith, Passed, FileOf
  <2>4. WorkOK'
    BY <1>1, <2>1, <2>3 DEF WorkOK, HasRow, IsShared
  <2> QED
    BY <2>2, <2>4
<1>7. InstalledAsWritten'
  <2>1. ReferencesOK(Committed) = ReferencesOK(Committed)'
    BY <1>1, <1>2 DEF ReferencesOK
  <2> QED
    BY <1>1, <1>2, <2>1 DEF IInv, InstalledAsWritten, HasRow, HasKey
<1> QED
  BY <1>1, <1>2, <1>3, <1>4, <1>5, <1>6, <1>7 DEF IInv

LEMMA NextKeepsIInv == IInv /\ [Next]_vars => IInv'
<1> SUFFICES ASSUME IInv, [Next]_vars
             PROVE  IInv'
  OBVIOUS
<1>1. CASE Install
  <2>1. work' = Committed'
    BY <1>1 DEF Install, Committed
  <2> QED
    BY <1>1, <2>1, StartKeepsIInv DEF Install
<1>2. CASE Reset
  <2>1. work' = Committed'
    BY <1>2 DEF Reset, Committed
  <2> QED
    BY <1>2, <2>1, StartKeepsIInv DEF Reset
<1>3. CASE InstallFile
  BY <1>3, InstallFileKeepsIInv
<1>4. CASE KeyError \/ InsertionRefused \/ ReferenceRefused \/ DeletionRefused \/ Crash
  BY <1>4, AbandonedKeepIInv
<1>5. CASE Release
  BY <1>5, ReleaseKeepsIInv
<1>6. CASE \E t \in Referred : Use(t)
  BY <1>6, UseKeepsIInv, InstallAssumption
<1>7. CASE UNCHANGED vars
  BY <1>7, UnchangedKeepsIInv
<1> QED
  BY <1>1, <1>2, <1>3, <1>4, <1>5, <1>6, <1>7 DEF Next

-----------------------------------------------------------------------------
(* Theorems about the installation.                                        *)

\* The invariant that the run on InstallData.cfg checks, for every instance.
THEOREM InstallInvariant == Spec => []IInv
BY InitInstall, NextKeepsIInv, PTL DEF Spec

\* install_data: an installation that returned has left the tables as the files say.
THEOREM InstalledIsWritten == Spec => []InstalledAsWritten
<1>1. IInv => InstalledAsWritten
  BY DEF IInv
<1> QED
  BY <1>1, InstallInvariant, PTL

\* The files of a module stand together: when its last one is done, a file of it is not
\* still to come if one of it was before.
LEMMA ModuleTogether ==
  ASSUME TypeOK, step # 0, IsLastOfModule, NEW d \in Entries, NEW e \in Entries,
         ModuleOf[d] = ModuleOf[e], FileOf(d) <= step
  PROVE  FileOf(e) <= step
<1>1. /\ step \in DOMAIN Files /\ step \in Nat /\ Len(Files) \in Nat
      /\ DOMAIN Files = 1..Len(Files)
  BY StepFacts, FilesType
<1>2. /\ FileOf(d) \in DOMAIN Files /\ FileOf(e) \in DOMAIN Files
      /\ Files[FileOf(d)][1] = ModuleOf[d] /\ Files[FileOf(e)][1] = ModuleOf[d]
  BY FileFacts
<1>3. SUFFICES ASSUME step + 1 <= FileOf(e) PROVE FALSE
  BY <1>1, <1>2
<1>4. \A i, j, k \in DOMAIN Files :
        i <= j /\ j <= k /\ Files[i][1] = Files[k][1] => Files[j][1] = Files[i][1]
  BY InstallAssumption
<1>5. step + 1 \in DOMAIN Files /\ step # Len(Files) /\ Files[step + 1][1] # Files[step][1]
  BY <1>1, <1>2, <1>3 DEF IsLastOfModule
<1>6. Files[step][1] = ModuleOf[d]
  BY <1>1, <1>2, <1>3, <1>4
<1>7. Files[step + 1][1] = ModuleOf[d]
  BY <1>1, <1>2, <1>3, <1>4, <1>5
<1> QED
  BY <1>5, <1>6, <1>7

\* A row keeps its id through any installation, finished or not, while its entry is in
\* the files, unless several modules install into its table or another one deletes what
\* it is deleted with.
THEOREM RowsAreKept == Spec => LostOnlyIfShared
<1> DEFINE Kept == step # 0 =>
       \A t \in Tables : \A r \in rows[t] :
         /\ r.entry \in files /\ ~IsShared(t)
         /\ \A f \in DeletedWith(r.entry) : f \in files \/ ModuleOf[f] = ModuleOf[r.entry]
         => \E s \in rows'[t] : s.entry = r.entry /\ s.id = r.id
<1>1. ASSUME IInv, [Next]_vars PROVE [Kept]_vars
  <2>1. SUFFICES ASSUME step # 0, NEW t \in Tables, NEW r \in rows[t],
                        r.entry \in files, ~IsShared(t),
                        \A g \in DeletedWith(r.entry) :
                          g \in files \/ ModuleOf[g] = ModuleOf[r.entry]
                 PROVE  \E s \in rows'[t] : s.entry = r.entry /\ s.id = r.id
    OBVIOUS
  <2>2. CASE rows' = rows
    BY <2>2
  <2>3. CASE rows' # rows
    <3>1. InstallFile
      BY <1>1, <2>1, <2>3 DEF Next, Install, Reset, KeyError, InsertionRefused,
        ReferenceRefused, DeletionRefused, Crash, Abandon, Release, Use, vars
    <3>2. PICK f \in Insertions : work' = After(f)
      BY <3>1 DEF InstallFile, After
    <3>3. CanInsert /\ IsLastOfModule /\ rows' = After(f).rows
      BY <2>3, <3>1, <3>2 DEF InstallFile
    <3>4. TypeOK /\ RowsOK(work) /\ RowsOK(Committed) /\ PassedOK /\ WorkOK
      BY <1>1, <2>1 DEF IInv
    <3> DEFINE e == r.entry
    <3>5. ASSUME NEW g \in DeletedWith(e), g \notin files, FileOf(g) <= step
          PROVE  FALSE
      <4>1. e \in Entries /\ g \in Entries /\ g \in ForeignOf[e]
        BY <2>1, <3>4, StepFacts, ForeignFacts DEF DeletedWith
      <4>2. FileOf(e) <= step
        BY <2>1, <3>3, <3>4, <3>5, <4>1, ModuleTogether
      <4> QED
        BY <2>1, <3>3, <3>4, <3>5, <4>1, <4>2, PassedAfter
    <3> QED
      BY <2>1, <3>3, <3>4, <3>5, Survives
  <2> QED
    BY <2>2, <2>3
<1> QED
  BY <1>1, InstallInvariant, PTL DEF Spec, LostOnlyIfShared

\* An installation raises for a cause: the files miss an entry that is referred to, a
\* table is shared, or an abandoned installation has left behind the sequence of the
\* table or of one that its file refers to.
THEOREM RaisesForCause == Spec => RaisesOnlyForCause
<1> DEFINE Missing == \E e \in files : ~(ForeignOf[e] \subseteq files)
           Cause ==
             \/ Missing
             \/ \E u \in used : \E r \in rows[u[1]] : r.id = u[2] /\ r.entry \notin files
             \/ \E t \in Tables : \E r \in rows[t] : InTheWay(r)
             \/ IsShared(Table)
             \/ Table \in Children /\ \E r \in rows[Table] : nextId[Table] <= r.id
             \/ \E e \in FileEntries : \E f \in ForeignOf[e] : TableOf[f] \in lagging
           Raises == step # 0 /\ outcome' = "raised" => Cause
<1>1. ASSUME IInv, [Next]_vars PROVE [Raises]_vars
  <2>1. SUFFICES ASSUME step # 0, outcome' = "raised", ~UNCHANGED vars
                 PROVE  Cause
    BY DEF Cause
  <2>2. TypeOK /\ RowsOK(work) /\ RowsOK(Committed) /\ SequencesOK(Committed)
        /\ PassedOK /\ WorkOK /\ UsedOK
    BY <1>1, <2>1 DEF IInv
  <2>3. /\ step \in DOMAIN Files /\ Table \in Tables /\ Table = Files[step][2]
        /\ files \subseteq Entries /\ FileEntries \subseteq files
        /\ \A e \in files : e \in FileEntries <=> FileOf(e) = step
        /\ nextId[Table] \in Nat
    BY <2>1, <2>2, StepFacts DEF Table
  <2>4. CASE ForeignIsMissing
    <3>1. PICK e \in FileEntries : \E f \in ForeignOf[e] : idOf[f] = 0
      BY <2>4 DEF ForeignIsMissing
    <3>2. PICK f \in ForeignOf[e] : idOf[f] = 0
      BY <3>1
    <3>3. FileOf(f) < FileOf(e) /\ FileOf(e) = step /\ e \in Entries
      BY <2>3, ForeignFacts
    <3>4. f \notin files
      BY <2>2, <3>2, <3>3 DEF PassedOK, Passed
    <3> QED
      BY <2>3, <3>4
  <2>5. CASE InsertionRefused
    <3>1. PICK id \in NewIds, p \in work.rows[Table] : p.id = id
      BY <2>5 DEF InsertionRefused, TakenIds
    <3>2. nextId[Table] <= id
      <4>1. IsFiniteSet(NewEntries)
        BY <2>3, InstallAssumption, FS_Subset DEF NewEntries
      <4> QED
        BY <2>3, <3>1, <4>1, FS_CardinalityType DEF NewIds
    <3>3. CASE ~IsShared(Table)
      <4>1. PICK r \in rows[Table] : r.id = id
        <5>1. p.entry \in Entries /\ TableOf[p.entry] = Table
          BY <2>2, <2>3, RowFacts
        <5>2. \A i \in DOMAIN Files : Files[i][2] = Table => i = step
          BY <2>3, <3>3, <5>1, UnsharedFile
        <5>3. step \in Nat
          BY <2>1, <2>2, StepFacts
        <5>4. Keys(work.rows[Table]) \subseteq Keys(rows[Table])
          BY <2>2, <2>3, <3>3, <5>2, <5>3 DEF WorkOK
        <5> QED
          BY <3>1, <5>4, KeysFacts
      <4>2. r.id \in Nat
        BY <2>2, <2>3, CommittedFacts
      <4>3. Table \in Children
        BY <2>2, <2>3, <3>1, <3>2, <4>1, <4>2 DEF SequencesOK, Committed
      <4> QED
        BY <3>1, <3>2, <4>1, <4>3
    <3> QED
      BY <3>3
  <2>6. CASE ~ForeignIsMissing /\ Dangling
    <3>1. PICK e \in FileEntries : \E f \in ForeignOf[e] :
            \A r \in work.rows[TableOf[f]] : r.id # idOf[f]
      BY <2>6 DEF Dangling
    <3>2. PICK f \in ForeignOf[e] : \A r \in work.rows[TableOf[f]] : r.id # idOf[f]
      BY <3>1
    <3>3. f \in Entries /\ idOf[f] # 0
      BY <2>3, <2>6, ForeignFacts DEF ForeignIsMissing
    <3>4. f \in files /\ Passed(f) /\ \A r \in work.rows[TableOf[f]] : r.entry = f => r.id = idOf[f]
      BY <2>2, <3>3 DEF PassedOK
    <3>5. TableOf[f] \in lagging
      BY <2>2, <3>2, <3>4 DEF PassedOK, HasRow
    <3> QED
      BY <3>5
  <2>7. CASE DeletionRefused
    <3>1. CanInsert
      BY <2>7 DEF DeletionRefused
    <3>2. PICK f \in Insertions : DeletionIsRefused(StaleIds(UpdatedIds(Upsert(f))))
      BY <2>7 DEF DeletionRefused
    <3> DEFINE stale == StaleIds(UpdatedIds(Upsert(f)))
    <3>3. CASE IsShared(Table)
      BY <3>3
    <3>4. CASE ~IsShared(Table)
      <4>1. ASSUME NEW s \in work.rows[Table], s.id \in stale PROVE s.entry \notin files
        <5>1. s.entry \notin FileEntries
          BY <2>1, <2>2, <3>1, <4>1, StaleFacts
        <5>2. s.entry \in Entries /\ TableOf[s.entry] = Table
          BY <2>2, <2>3, RowFacts
        <5> QED
          BY <2>3, <3>4, <5>1, <5>2, UnsharedFile
      <4>2. stale \in SUBSET (1..MaxId)
        BY <2>1, <2>2, <3>1, StaleFacts
      <4> HIDE DEF stale
      <4>3. ASSUME NEW u \in Tables, NEW s \in work.rows[u], s.id \in DoomedIds(u, stale)
            PROVE  s.entry \notin files \/ Missing
        <5>1. CASE u = Table
          BY <4>1, <4>3, <5>1 DEF DoomedIds
        <5>2. CASE u # Table
          <6>1. PICK p \in work.rows[Table] : p.id \in stale /\ p.entry \in ForeignOf[s.entry]
            BY <2>1, <2>2, <4>2, <4>3, <5>2, DoomedFacts
          <6>2. p.entry \notin files
            BY <4>1, <6>1
          <6> QED
            BY <6>1, <6>2
        <5> QED
          BY <5>1, <5>2
      <4>4. ASSUME NEW u \in Tables, NEW id \in DoomedIds(u, stale), <<u, id>> \in used
            PROVE  Cause
        <5>1. PICK r \in rows[u], s \in work.rows[u] :
                r.id = id /\ s.id = id /\ r.entry = s.entry
          BY <2>2, <4>4 DEF UsedOK
        <5>2. r.entry \notin files \/ Missing
          BY <4>3, <4>4, <5>1
        <5> QED
          BY <4>4, <5>1, <5>2
      <4>5. ASSUME NEW t \in Tables, NEW u \in Tables, <<t, u>> \notin Cascades \cup Nullifies,
                   NEW r \in work.rows[t], r.ref[u] \in DoomedIds(u, stale)
            PROVE  Cause
        <5>1. PICK s \in work.rows[u] : s.id \in DoomedIds(u, stale) /\ s.entry \in ForeignOf[r.entry]
          BY <2>1, <2>2, <4>2, <4>5, DoomedFacts
        <5>2. s.entry \notin files \/ Missing
          BY <4>3, <5>1
        <5>3. r.entry \in files \/ HasRow(rows[t], r.entry)
          BY <2>1, <2>2 DEF WorkOK
        <5>4. TableOf[s.entry] = u /\ TableOf[r.entry] = t
          BY <2>2, RowFacts
        <5>5. CASE r.entry \in files
          BY <5>1, <5>2, <5>5
        <5>6. CASE r.entry \notin files /\ s.entry \notin files
          <6>1. PICK q \in rows[t] : q.entry = r.entry
            BY <5>3, <5>6 DEF HasRow
          <6>2. InTheWay(q)
            BY <4>5, <5>1, <5>4, <5>6, <6>1 DEF InTheWay
          <6> QED
            BY <6>2
        <5> QED
          BY <5>2, <5>5, <5>6
      <4>6. DeletionIsRefused(stale)
        BY <3>2 DEF stale
      <4> HIDE DEF Cause
      <4> QED
        BY <4>4, <4>5, <4>6 DEF DeletionIsRefused
    <3> QED
      BY <3>3, <3>4
  <2> HIDE DEF Cause
  <2>8. KeyError \/ InsertionRefused \/ ReferenceRefused \/ DeletionRefused
    <3>1. outcome # "raised"
      BY <1>1, <2>1 DEF IInv
    <3> QED
      BY <1>1, <2>1, <3>1 DEF Next, Install, Reset, InstallFile, Crash, Abandon, Release, Use
  <2> QED
    BY <2>4, <2>5, <2>6, <2>7, <2>8 DEF KeyError, ReferenceRefused
<1> QED
  BY <1>1, InstallInvariant, PTL DEF Spec, RaisesOnlyForCause

-----------------------------------------------------------------------------
(* Recursive functions.                                                    *)

\* f goes from s0 by G.
Follows(f, N, S, s0, G) ==
  f \in [0..N -> S] /\ f[0] = s0 /\ \A n \in 1..N : f[n] = G[<<n, f[n - 1]>>]

\* A function on 0..N whose values follow one from the other exists.
LEMMA RecursionExists ==
  ASSUME NEW N \in Nat, NEW S, NEW s0 \in S, NEW G \in [(1..N) \X S -> S]
  PROVE  \E f : Follows(f, N, S, s0, G)
<1> DEFINE IsUpTo(f, m) == /\ f \in [0..N -> S] /\ f[0] = s0
                           /\ \A n \in 1..N : n <= m => f[n] = G[<<n, f[n - 1]>>]
           Lengths == {m \in Nat : \E f : IsUpTo(f, m)}
<1>0. \A m : m \in Lengths <=> m \in Nat /\ \E f : IsUpTo(f, m)
  <2> HIDE DEF IsUpTo
  <2> QED
    OBVIOUS
<1>1. \E f : IsUpTo(f, 0)
  <2> DEFINE f == [n \in 0..N |-> s0]
  <2>1. f \in [0..N -> S] /\ f[0] = s0
    OBVIOUS
  <2>2. \A n \in 1..N : ~ (n <= 0)
    OBVIOUS
  <2> HIDE DEF f
  <2>3. IsUpTo(f, 0)
    BY <2>1, <2>2
  <2> QED
    BY <2>3
<1> HIDE DEF Lengths
<1>2. ASSUME NEW m \in Lengths PROVE m + 1 \in Lengths
  <2>1. m \in Nat /\ \E f : IsUpTo(f, m)
    BY <1>0, <1>2, Zenon
  <2>2. PICK f : IsUpTo(f, m)
    BY <2>1, Zenon
  <2>3. f \in [0..N -> S] /\ f[0] = s0
    BY <2>2, Zenon
  <2>4. \A n \in 1..N : n <= m => f[n] = G[<<n, f[n - 1]>>]
    BY <2>2, Zenon
  <2>5. \E g : IsUpTo(g, m + 1)
    <3>1. CASE m + 1 > N
      <4>1. \A n \in 1..N : n <= m
        BY <2>1, <3>1
      <4>2. IsUpTo(f, m + 1)
        BY <2>3, <2>4, <4>1
      <4> QED
        BY <4>2
    <3>2. CASE m + 1 <= N
      <4> DEFINE g == [f EXCEPT ![m + 1] = G[<<m + 1, f[m]>>]]
      <4>1. m \in 0..N /\ m + 1 \in 1..N /\ m + 1 \in 0..N /\ f[m] \in S
        BY <2>1, <2>3, <3>2
      <4>2. G[<<m + 1, f[m]>>] \in S
        BY <4>1
      <4>3. g \in [0..N -> S]
        BY <2>3, <4>2
      <4>4. \A n \in 0..N : g[n] = IF n = m + 1 THEN G[<<m + 1, f[m]>>] ELSE f[n]
        BY <2>3
      <4> HIDE DEF g
      <4>5. g[0] = s0
        BY <2>1, <2>3, <4>4
      <4>6. ASSUME NEW n \in 1..N, n <= m + 1 PROVE g[n] = G[<<n, g[n - 1]>>]
        <5>1. n \in 0..N /\ n - 1 \in 0..N /\ n - 1 # m + 1
          BY <2>1, <4>6
        <5>2. g[n - 1] = f[n - 1]
          BY <4>4, <5>1
        <5>3. CASE n = m + 1
          <6>1. n - 1 = m
            BY <2>1, <5>3
          <6>2. g[n] = G[<<m + 1, f[m]>>]
            BY <4>4, <5>1, <5>3
          <6> QED
            BY <5>2, <5>3, <6>1, <6>2
        <5>4. CASE n # m + 1
          <6>1. n <= m
            BY <2>1, <4>6, <5>4
          <6>2. g[n] = f[n]
            BY <4>4, <5>1, <5>4
          <6> QED
            BY <2>4, <5>2, <6>1, <6>2
        <5> QED
          BY <5>3, <5>4
      <4>7. IsUpTo(g, m + 1)
        BY <4>3, <4>5, <4>6
      <4> QED
        BY <4>7
    <3> QED
      BY <2>1, <3>1, <3>2
  <2>6. m + 1 \in Nat
    BY <2>1
  <2> HIDE DEF IsUpTo
  <2> QED
    BY <1>0, <2>5, <2>6
<1>3. Lengths \in SUBSET Nat
  BY DEF Lengths
<1>4. 0 \in Lengths
  <2> HIDE DEF IsUpTo
  <2> QED
    BY <1>0, <1>1
<1>5. N \in Lengths
  BY <1>2, <1>3, <1>4, SetInduction
<1>6. PICK f : IsUpTo(f, N)
  BY <1>0, <1>5, Zenon
<1>7. Follows(f, N, S, s0, G)
  BY <1>6 DEF Follows
<1> QED
  BY <1>7

-----------------------------------------------------------------------------
(* Paths.                                                                  *)

\* What the recursion of Reaching says.
LEMMA ReachingSteps ==
  ASSUME NEW folders, NEW start, NEW path, Len(path) \in Nat
  PROVE  /\ Reaching(folders, start, path)[0] = start
         /\ \A n \in 1..Len(path) : \A id :
              id \in Reaching(folders, start, path)[n] <=>
                \E i \in folders : /\ i.id = id /\ i.name = path[n]
                                   /\ i.parent \in Reaching(folders, start, path)[n - 1]
<1> DEFINE N == Len(path)
           S == SUBSET (start \cup {i.id : i \in folders})
           Onward(n, set) == {i.id : i \in {i \in folders : i.name = path[n] /\ i.parent \in set}}
           G == [p \in (1..N) \X S |-> Onward(p[1], p[2])]
<1>1. start \in S
  OBVIOUS
<1>2. \A n, set : Onward(n, set) \in S
  OBVIOUS
<1>3. G \in [(1..N) \X S -> S]
  BY <1>2
<1>4. \A n \in 1..N, set \in S : G[<<n, set>>] = Onward(n, set)
  OBVIOUS
<1> HIDE DEF G, S
<1>5. PICK f : Follows(f, N, S, start, G)
  <2>1. N \in Nat
    OBVIOUS
  <2> HIDE DEF N
  <2> QED
    BY <1>1, <1>3, <2>1, RecursionExists
<1>6. f \in [0..N -> S] /\ f[0] = start /\ \A n \in 1..N : f[n] = G[<<n, f[n - 1]>>]
  BY <1>5, Zenon DEF Follows
<1>7. \A n \in 1..N : f[n] = Onward(n, f[n - 1])
  <2> TAKE n \in 1..N
  <2>1. n - 1 \in 0..N
    OBVIOUS
  <2> QED
    BY <1>4, <1>6, <2>1
<1> DEFINE Value(r) == [n \in 0..N |-> IF n = 0 THEN start ELSE Onward(n, r[n - 1])]
<1>8. f = Value(f)
  <2>1. \A n \in 0..N : f[n] = Value(f)[n]
    BY <1>6, <1>7
  <2> QED
    BY <1>6, <2>1
<1>9. Reaching(folders, start, path) = CHOOSE r : r = Value(r)
  BY DEF Reaching
<1> DEFINE r == Reaching(folders, start, path)
<1>10. r = Value(r)
  <2> HIDE DEF Value
  <2> QED
    BY <1>8, <1>9
<1> HIDE DEF r
<1>11. r[0] = start /\ \A n \in 1..N : r[n] = Onward(n, r[n - 1])
  <2>1. ASSUME NEW n \in 0..N PROVE r[n] = IF n = 0 THEN start ELSE Onward(n, r[n - 1])
    BY <1>10
  <2>2. r[0] = start
    <3>1. 0 \in 0..N
      OBVIOUS
    <3> HIDE DEF N
    <3> QED
      BY <2>1, <3>1, Zenon
  <2>3. \A n \in 1..N : n \in 0..N /\ n # 0
    OBVIOUS
  <2> HIDE DEF N
  <2> QED
    BY <2>1, <2>2, <2>3, Zenon
<1> QED
  BY <1>11 DEF r

\* After n folders of a path comes its tail.
LEMMA ReachingTail ==
  ASSUME NEW folders, NEW start, NEW path \in Seq(Names), path # <<>>
  PROVE  Reaching(folders, start, path)[Len(path)] =
           Reaching(folders, Reaching(folders, start, path)[1], Tail(path))[Len(Tail(path))]
<1> DEFINE r == Reaching(folders, start, path)
           q == Reaching(folders, r[1], Tail(path))
           Good == {n \in Nat : n <= Len(Tail(path)) => \A id : id \in q[n] <=> id \in r[n + 1]}
<1>1. /\ Len(path) \in Nat /\ Len(Tail(path)) = Len(path) - 1 /\ Len(path) - 1 \in Nat
      /\ \A n \in 1..Len(Tail(path)) : Tail(path)[n] = path[n + 1]
  OBVIOUS
<1>2. /\ q[0] = r[1]
      /\ \A n \in 1..Len(Tail(path)) : \A id :
           id \in q[n] <=>
             \E i \in folders : i.id = id /\ i.name = Tail(path)[n] /\ i.parent \in q[n - 1]
  <2>1. Len(Tail(path)) \in Nat
    BY <1>1
  <2> QED
    BY <2>1, ReachingSteps, Zenon
<1>3. \A n \in 1..Len(path) : \A id :
        id \in r[n] <=> \E i \in folders : i.id = id /\ i.name = path[n] /\ i.parent \in r[n - 1]
  BY <1>1, ReachingSteps, Zenon
<1> HIDE DEF r, q
<1>4. 0 \in Good
  BY <1>2
<1>5. ASSUME NEW n \in Good PROVE n + 1 \in Good
  <2>1. CASE n + 1 > Len(Tail(path))
    BY <1>1, <2>1
  <2>2. CASE n + 1 <= Len(Tail(path))
    <3>1. /\ n + 1 \in 1..Len(Tail(path)) /\ n + 2 \in 1..Len(path) /\ n \in Nat
          /\ (n + 1) - 1 = n /\ (n + 2) - 1 = n + 1 /\ (n + 1) + 1 = n + 2
      BY <1>1, <2>2
    <3>2. Tail(path)[n + 1] = path[n + 2]
      BY <1>1, <3>1
    <3>3. \A id : id \in q[n] <=> id \in r[n + 1]
      BY <1>1, <2>2
    <3>4. ASSUME NEW id PROVE id \in q[n + 1] <=> id \in r[n + 2]
      <4>1. id \in q[n + 1] <=>
              \E i \in folders : i.id = id /\ i.name = Tail(path)[n + 1] /\ i.parent \in q[n]
        BY <1>2, <3>1
      <4>2. id \in r[n + 2] <=>
              \E i \in folders : i.id = id /\ i.name = path[n + 2] /\ i.parent \in r[n + 1]
        BY <1>3, <3>1
      <4> QED
        BY <3>2, <3>3, <4>1, <4>2, Zenon
    <3> QED
      BY <3>1, <3>4
  <2> QED
    BY <1>1, <2>1, <2>2
<1>6. Good = Nat
  <2>1. Good \in SUBSET Nat
    OBVIOUS
  <2> HIDE DEF Good
  <2> QED
    BY <1>4, <1>5, <2>1, SetInduction
<1>7. \A id : id \in q[Len(Tail(path))] <=> id \in r[Len(path)]
  <2>1. Len(Tail(path)) \in Good /\ Len(Tail(path)) <= Len(Tail(path))
    BY <1>1, <1>6
  <2>2. Len(Tail(path)) + 1 = Len(path)
    BY <1>1
  <2> QED
    BY <2>1, <2>2, Zenon
<1> QED
  BY <1>7 DEF r, q

-----------------------------------------------------------------------------
(* Items come and go.                                                      *)

Gone(id) == Exists(id) /\ ~ Exists(id)'

\* Between the states before and after any step: what is new has a new id.
ItemsGoOn ==
  /\ items \subseteq Item /\ items' \subseteq Item /\ ItemsOK /\ ItemsOK'
  /\ nextItem \in Nat /\ nextItem' \in Nat /\ nextItem <= nextItem'
  /\ \A i \in items' : i \in items \/ i.id >= nextItem

LEMMA ItemFacts ==
  ASSUME NEW i \in Item
  PROVE  i.id \in Nat /\ i.id # 0 /\ i.id <= MaxItems /\ i.parent \in Nat
BY DriveAssumption DEF Item

\* An item that is still there is in a folder that is still there.
LEMMA ParentsStay ==
  ASSUME ItemsGoOn, NEW i \in items', i.parent # Root
  PROVE  ~ Gone(i.parent) /\ \E p \in items' : p.id = i.parent
BY DEF ItemsGoOn, ItemsOK, Exists, Gone

LEMMA ItemsGone ==
  ASSUME ItemsGoOn, NEW i \in items, i \notin items'
  PROVE  Gone(i.id)
<1>1. i.id \in Nat /\ i.id < nextItem
  BY ItemFacts DEF ItemsGoOn, ItemsOK
<1>2. ASSUME NEW j \in items', j.id = i.id PROVE FALSE
  <2>1. j \in items
    BY <1>1, <1>2 DEF ItemsGoOn
  <2> QED
    BY <1>2, <2>1 DEF ItemsGoOn, ItemsOK
<1> QED
  BY <1>2 DEF Gone, Exists

\* Where a path leads it still does, for those folders that are still there.
LEMMA PathsStay ==
  ASSUME ItemsGoOn, NEW start, NEW start2, \A id \in start : id \in start2 \/ Gone(id),
         NEW path, Len(path) \in Nat, NEW n \in 0..Len(path),
         NEW id \in Reaching(Folders(items), start, path)[n]
  PROVE  id \in Reaching(Folders(items'), start2, path)[n] \/ Gone(id)
<1> DEFINE r == Reaching(Folders(items), start, path)
           q == Reaching(Folders(items'), start2, path)
           Good == {m \in Nat : m <= Len(path) => \A x \in r[m] : x \in q[m] \/ Gone(x)}
<1>1. /\ r[0] = start
      /\ \A m \in 1..Len(path) : \A x :
           x \in r[m] <=>
             \E i \in Folders(items) : i.id = x /\ i.name = path[m] /\ i.parent \in r[m - 1]
  BY ReachingSteps, Zenon
<1>2. /\ q[0] = start2
      /\ \A m \in 1..Len(path) : \A x :
           x \in q[m] <=>
             \E i \in Folders(items') : i.id = x /\ i.name = path[m] /\ i.parent \in q[m - 1]
  BY ReachingSteps, Zenon
<1> HIDE DEF r, q
<1>3. 0 \in Good
  BY <1>1, <1>2
<1>4. ASSUME NEW m \in Good PROVE m + 1 \in Good
  <2>1. CASE m + 1 > Len(path)
    BY <2>1
  <2>2. CASE m + 1 <= Len(path)
    <3>1. m + 1 \in 1..Len(path) /\ m \in Nat /\ (m + 1) - 1 = m /\ m <= Len(path)
      BY <2>2
    <3>2. \A x \in r[m] : x \in q[m] \/ Gone(x)
      BY <3>1
    <3>3. ASSUME NEW x \in r[m + 1] PROVE x \in q[m + 1] \/ Gone(x)
      <4>1. PICK i \in Folders(items) : i.id = x /\ i.name = path[m + 1] /\ i.parent \in r[m]
        BY <1>1, <3>1, <3>3
      <4>2. CASE i \notin items'
        BY <4>1, <4>2, ItemsGone DEF Folders
      <4>3. CASE i \in items'
        <5>1. ~ Gone(i.parent)
          <6>1. CASE i.parent # Root
            BY <4>3, <6>1, ParentsStay
          <6>2. CASE i.parent = Root
            <7>1. ~ Exists(Root)
              BY ItemFacts DEF ItemsGoOn, Exists, Root
            <7> QED
              BY <6>2, <7>1 DEF Gone
          <6> QED
            BY <6>1, <6>2
        <5>2. i.parent \in q[m]
          BY <3>2, <4>1, <5>1
        <5>3. i \in Folders(items')
          BY <4>3 DEF Folders
        <5> QED
          BY <1>2, <3>1, <4>1, <5>2, <5>3
      <4> QED
        BY <4>2, <4>3
    <3> QED
      BY <3>1, <3>3
  <2> QED
    BY <2>1, <2>2
<1>5. Good = Nat
  <2>1. Good \in SUBSET Nat
    OBVIOUS
  <2> HIDE DEF Good
  <2> QED
    BY <1>3, <1>4, <2>1, SetInduction
<1>6. n \in Good /\ n <= Len(path) /\ id \in r[n]
  BY <1>5 DEF r
<1> QED
  BY <1>6 DEF q

\* What the recursion of Depths says.
LEMMA DepthsSteps ==
  ASSUME NEW id
  PROVE  /\ \A i : i \in Depths(id)[0] <=> i \in items /\ i.id = id
         /\ \A n \in 1..MaxItems : \A i :
              i \in Depths(id)[n] <=>
                \/ i \in Depths(id)[n - 1]
                \/ i \in items /\ \E p \in Depths(id)[n - 1] : i.parent = p.id
<1> DEFINE N == MaxItems
           S == SUBSET items
           start == {i \in items : i.id = id}
           Deeper(set) == set \cup {i \in items : \E p \in set : i.parent = p.id}
           G == [p \in (1..N) \X S |-> Deeper(p[2])]
<1>1. N \in Nat
  BY DriveAssumption
<1>2. start \in S /\ \A set \in S : Deeper(set) \in S
  OBVIOUS
<1>3. G \in [(1..N) \X S -> S]
  BY <1>2
<1>4. \A n \in 1..N, set \in S : G[<<n, set>>] = Deeper(set)
  OBVIOUS
<1> HIDE DEF G, S
<1>5. PICK f : Follows(f, N, S, start, G)
  <2> HIDE DEF N, start
  <2> QED
    BY <1>1, <1>2, <1>3, RecursionExists
<1>6. f \in [0..N -> S] /\ f[0] = start /\ \A n \in 1..N : f[n] = G[<<n, f[n - 1]>>]
  BY <1>5, Zenon DEF Follows
<1> HIDE DEF start, Deeper
<1>7. \A n \in 1..N : f[n] = Deeper(f[n - 1])
  <2> TAKE n \in 1..N
  <2>1. n - 1 \in 0..N
    BY <1>1
  <2> QED
    BY <1>4, <1>6, <2>1
<1> DEFINE Value(r) == [n \in 0..N |-> IF n = 0 THEN start ELSE Deeper(r[n - 1])]
<1>8. f = Value(f)
  <2>1. \A n \in 0..N : f[n] = Value(f)[n]
    BY <1>1, <1>6, <1>7
  <2> QED
    BY <1>6, <2>1
<1>9. Depths(id) = CHOOSE r : r = Value(r)
  BY DEF Depths, start, Deeper
<1> DEFINE r == Depths(id)
<1>10. r = Value(r)
  <2> HIDE DEF Value
  <2> QED
    BY <1>8, <1>9
<1> HIDE DEF r
<1>11. r[0] = start /\ \A n \in 1..N : r[n] = Deeper(r[n - 1])
  <2>1. ASSUME NEW n \in 0..N PROVE r[n] = IF n = 0 THEN start ELSE Deeper(r[n - 1])
    BY <1>10
  <2>2. r[0] = start
    <3>1. 0 \in 0..N
      BY <1>1
    <3> HIDE DEF N
    <3> QED
      BY <2>1, <3>1, Zenon
  <2>3. \A n \in 1..N : n \in 0..N /\ n # 0
    BY <1>1
  <2> HIDE DEF N
  <2> QED
    BY <2>1, <2>2, <2>3, Zenon
<1> QED
  BY <1>11 DEF r, start, Deeper

\* What is in a folder that is deleted is deleted.
LEMMA BelowIsClosed ==
  ASSUME items \subseteq Item, ItemsOK, NEW id \in Nat,
         NEW p \in Below(id), NEW i \in items, i.parent = p.id
  PROVE  i \in Below(id)
<1> DEFINE r == Depths(id)
           Good == {n \in Nat : n <= MaxItems =>
                      \A j \in r[n] : j \in items /\ \E k \in 0..n : k < j.id /\ j \in r[k]}
           Kept == {n \in Nat : \A k \in Nat : \A j \in r[k] : k + n <= MaxItems => j \in r[k + n]}
<1>1. MaxItems \in Nat
  BY DriveAssumption
<1>2. /\ \A j : j \in r[0] <=> j \in items /\ j.id = id
      /\ \A n \in 1..MaxItems : \A j :
           j \in r[n] <=> \/ j \in r[n - 1]
                          \/ j \in items /\ \E q \in r[n - 1] : j.parent = q.id
  BY DepthsSteps, Zenon
<1> HIDE DEF r
<1>3. \A j \in items : j.id \in Nat /\ j.id # 0 /\ j.id <= MaxItems /\ j.parent < j.id
  BY ItemFacts DEF ItemsOK
<1>4. Good = Nat
  <2>1. 0 \in Good
    BY <1>2, <1>3
  <2>2. ASSUME NEW n \in Good PROVE n + 1 \in Good
    <3>1. CASE n + 1 > MaxItems
      <4>1. n + 1 \in Nat /\ ~ (n + 1 <= MaxItems)
        BY <1>1, <3>1
      <4> QED
        BY <4>1
    <3>2. CASE n + 1 <= MaxItems
      <4>1. n \in Nat /\ n + 1 \in 1..MaxItems /\ (n + 1) - 1 = n /\ n <= MaxItems
        BY <1>1, <3>2
      <4>2. \A j \in r[n] : j \in items /\ \E k \in 0..n : k < j.id /\ j \in r[k]
        BY <4>1
      <4>3. ASSUME NEW j \in r[n + 1]
            PROVE  j \in items /\ \E k \in 0..(n + 1) : k < j.id /\ j \in r[k]
        <5>1. CASE j \in r[n]
          BY <4>1, <4>2, <5>1
        <5>2. CASE j \notin r[n]
          <6>1. j \in items /\ \E q \in r[n] : j.parent = q.id
            BY <1>2, <4>1, <4>3, <5>2
          <6>2. PICK q \in r[n] : j.parent = q.id
            BY <6>1
          <6>3. PICK k \in 0..n : q \in items /\ k < q.id /\ q \in r[k]
            BY <4>2, <6>2
          <6>4. k + 1 < j.id /\ k + 1 \in 0..(n + 1) /\ k + 1 \in 1..MaxItems /\ (k + 1) - 1 = k
            <7>1. /\ q.id \in Nat /\ j.id \in Nat /\ j.id <= MaxItems /\ q.id < j.id
                  /\ k \in Nat /\ k <= n /\ k < q.id
              BY <1>3, <4>1, <6>1, <6>2, <6>3
            <7> QED
              BY <1>1, <4>1, <7>1
          <6>5. j \in r[k + 1]
            BY <1>2, <6>1, <6>2, <6>3, <6>4
          <6> QED
            BY <6>1, <6>4, <6>5
        <5> QED
          BY <5>1, <5>2
      <4> QED
        BY <4>1, <4>3
    <3> QED
      BY <1>1, <3>1, <3>2
  <2>3. Good \in SUBSET Nat
    OBVIOUS
  <2> HIDE DEF Good
  <2> QED
    BY <2>1, <2>2, <2>3, SetInduction
<1>5. Kept = Nat
  <2>1. 0 \in Kept
    OBVIOUS
  <2>2. ASSUME NEW n \in Kept PROVE n + 1 \in Kept
    <3> SUFFICES ASSUME NEW k \in Nat, NEW j \in r[k], k + (n + 1) <= MaxItems
                 PROVE  j \in r[k + (n + 1)]
      BY <2>2
    <3>1. n \in Nat /\ k + n <= MaxItems /\ k + (n + 1) \in 1..MaxItems
          /\ (k + (n + 1)) - 1 = k + n
      BY <1>1, <2>2
    <3>2. j \in r[k + n]
      BY <2>2, <3>1
    <3> QED
      BY <1>2, <3>1, <3>2
  <2>3. Kept \in SUBSET Nat
    OBVIOUS
  <2> HIDE DEF Kept
  <2> QED
    BY <2>1, <2>2, <2>3, SetInduction
<1>6. p \in r[MaxItems]
  BY DEF Below, r
<1>7. PICK k \in 0..MaxItems : p \in items /\ k < p.id /\ p \in r[k]
  BY <1>1, <1>4, <1>6
<1>8. k + 1 \in 1..MaxItems /\ (k + 1) - 1 = k /\ k + 1 \in Nat
      /\ MaxItems - (k + 1) \in Nat /\ (k + 1) + (MaxItems - (k + 1)) = MaxItems
  <2>1. p.id \in Nat /\ i.id \in Nat /\ i.id <= MaxItems /\ p.id < i.id
    BY <1>3, <1>7
  <2> QED
    BY <1>1, <1>7, <2>1
<1>9. i \in r[k + 1]
  BY <1>2, <1>7, <1>8
<1>10. i \in r[MaxItems]
  <2> DEFINE n == MaxItems - (k + 1)
  <2>1. n \in Kept /\ (k + 1) + n = MaxItems
    BY <1>5, <1>8
  <2>2. \A l \in Nat : \A j \in r[l] : l + n <= MaxItems => j \in r[l + n]
    BY <2>1
  <2> HIDE DEF n
  <2> QED
    BY <1>1, <1>8, <1>9, <2>1, <2>2
<1> QED
  BY <1>10 DEF Below, r

LEMMA ParentNotGone ==
  ASSUME ItemsGoOn, NEW i \in items'
  PROVE  ~ Gone(i.parent)
<1>1. CASE i.parent # Root
  BY <1>1, ParentsStay
<1>2. CASE i.parent = Root
  <2>1. ~ Exists(Root)
    BY ItemFacts DEF ItemsGoOn, Exists, Root
  <2> QED
    BY <1>2, <2>1 DEF Gone
<1> QED
  BY <1>1, <1>2

LEMMA SameItems ==
  ASSUME DriveInv, UNCHANGED <<items, nextItem>>
  PROVE  ItemsGoOn /\ nextItem' \in 1..MaxItems + 1
BY DriveAssumption DEF DriveInv, DriveTypeOK, ItemsOK, ItemsGoOn, Exists

LEMMA AddedItems ==
  ASSUME DriveInv, NEW name \in Names, NEW isFolder \in BOOLEAN, NEW parent \in 0..MaxItems,
         Added(name, isFolder, parent)
  PROVE  ItemsGoOn /\ nextItem' \in 1..MaxItems + 1
<1> DEFINE new == [id |-> nextItem, name |-> name, isFolder |-> isFolder, parent |-> parent]
<1>1. /\ MaxItems \in Nat /\ items \subseteq Item /\ ItemsOK /\ nextItem \in 1..MaxItems + 1
      /\ nextItem <= MaxItems /\ nextItem' = nextItem + 1 /\ items' = items \cup {new}
  BY DriveAssumption DEF DriveInv, DriveTypeOK, Added
<1>2. PICK p \in items : p.id = parent
  BY DEF Added, Exists
<1>3. new \in Item
  BY <1>1 DEF Item
<1>4. new.id = nextItem /\ new.parent = parent
  OBVIOUS
<1> HIDE DEF new
<1>5. \A i \in items : /\ i.id \in Nat /\ i.id < nextItem /\ i.parent < i.id /\ i.parent \in Nat
                       /\ i.parent = Root \/ \E q \in items : q.id = i.parent
  BY <1>1, ItemFacts DEF ItemsOK, Exists
<1>6. ItemsOK'
  <2>1. IsFiniteSet(items')
    BY <1>1, FS_AddElement DEF ItemsOK
  <2>2. \A i, j \in items' : i.id = j.id => i = j
    <3>1. \A i, j \in items : i.id = j.id => i = j
      BY <1>1 DEF ItemsOK
    <3> QED
      BY <1>1, <1>4, <1>5, <3>1
  <2>3. \A i \in items' : /\ i.parent < i.id /\ i.id < nextItem'
                          /\ i.parent = Root \/ \E q \in items' : q.id = i.parent
    BY <1>1, <1>2, <1>4, <1>5
  <2> QED
    BY <2>1, <2>2, <2>3 DEF ItemsOK, Exists
<1> QED
  BY <1>1, <1>3, <1>4, <1>6 DEF ItemsGoOn

LEMMA DeletedItems ==
  ASSUME DriveInv, NEW id \in 0..MaxItems, items' = items \ Below(id), nextItem' = nextItem
  PROVE  ItemsGoOn /\ nextItem' \in 1..MaxItems + 1
<1>1. /\ MaxItems \in Nat /\ items \subseteq Item /\ ItemsOK /\ nextItem \in 1..MaxItems + 1
      /\ items' \subseteq items
  BY DriveAssumption DEF DriveInv, DriveTypeOK
<1>2. ItemsOK'
  <2>1. IsFiniteSet(items')
    BY <1>1, FS_Subset DEF ItemsOK
  <2>2. \A i, j \in items' : i.id = j.id => i = j
    BY <1>1 DEF ItemsOK
  <2>3. ASSUME NEW i \in items', i.parent # Root PROVE \E p \in items' : p.id = i.parent
    <3>1. PICK p \in items : p.id = i.parent
      BY <1>1, <2>3 DEF ItemsOK, Exists
    <3>2. p \notin Below(id)
      BY <1>1, <2>3, <3>1, BelowIsClosed
    <3> QED
      BY <3>1, <3>2
  <2>4. \A i \in items' : i.parent < i.id /\ i.id < nextItem'
    BY <1>1 DEF ItemsOK
  <2> QED
    BY <2>1, <2>2, <2>3, <2>4 DEF ItemsOK, Exists
<1> QED
  BY <1>1, <1>2 DEF ItemsGoOn

-----------------------------------------------------------------------------
(* Clients that wait while others act.                                     *)

LEMMA SeqFacts ==
  ASSUME NEW S, NEW s \in Seq(S), s # <<>>
  PROVE  /\ Head(s) \in S /\ Tail(s) \in Seq(S) /\ Head(s) = s[1]
         /\ Len(s) \in Nat \ {0} /\ Len(Tail(s)) = Len(s) - 1
         /\ \A n \in 1..Len(s) : s[n] \in S
         /\ \A n \in 1..Len(s) - 1 : Tail(s)[n] = s[n + 1]
OBVIOUS

LEMMA ConcatFacts ==
  ASSUME NEW S, NEW s \in Seq(S), NEW t \in Seq(S), s # <<>>
  PROVE  s \o t \in Seq(S) /\ s \o t # <<>> /\ Head(s \o t) = Head(s)
<1>1. /\ s \o t \in Seq(S) /\ Len(s) \in Nat /\ Len(t) \in Nat /\ Len(s) # 0
      /\ Len(s \o t) = Len(s) + Len(t)
  OBVIOUS
<1>2. 1 \in 1..Len(s) /\ Len(s \o t) # 0
  BY <1>1
<1>3. (s \o t)[1] = s[1]
  BY <1>1, <1>2
<1>4. s \o t # <<>>
  <2>1. Len(<<>>) = 0
    OBVIOUS
  <2> QED
    BY <1>2, <2>1
<1> QED
  BY <1>1, <1>3, <1>4, SeqFacts

LEMMA ClientFacts ==
  ASSUME NEW client \in Client
  PROVE  /\ client.visits \in Visits /\ client.todo \in Seq(Names) /\ Len(client.todo) \in Nat
         /\ client.cwd \in 0..MaxItems /\ client.at \in 0..MaxItems
         /\ client.listed \subseteq Item /\ client.there \subseteq Item /\ client.local \subseteq Copy
         /\ client.visits # <<>> =>
              /\ Path(client) \in Seq(Names) /\ Path(client) # <<>>
              /\ Len(Path(client)) \in Nat /\ Len(Path(client)) # 0
<1>1. /\ client.visits \in Visits /\ client.todo \in Seq(Names) /\ client.asked \in Seq(Names)
      /\ client.cwd \in 0..MaxItems /\ client.at \in 0..MaxItems
      /\ client.listed \subseteq Item /\ client.there \subseteq Item /\ client.local \subseteq Copy
  BY DEF Client
<1>2. ASSUME client.visits # <<>>
      PROVE  Path(client) \in Seq(Names) /\ Path(client) # <<>>
  <2> DEFINE V == [path : Seq(Names) \ {<<>>}, files : SUBSET Names]
  <2>1. Head(client.visits) \in V
    <3>1. client.visits \in Seq(V)
      BY <1>1 DEF Visits
    <3> HIDE DEF V
    <3> QED
      BY <1>2, <3>1, SeqFacts
  <2> QED
    BY <2>1 DEF Path
<1> QED
  BY <1>1, <1>2

LEMMA WalkStays ==
  ASSUME ItemsGoOn, NEW client \in Client, WalkOK(client)
  PROVE  WalkOK(client)'
<1>1. /\ client.visits # <<>> /\ client.cwd \in Nat /\ client.cwd < nextItem
      /\ client.cwd = Anywhere =>
           client.pc = "look" /\ client.at = Anywhere /\ client.todo = <<Cwd>>
  BY ClientFacts, DriveAssumption DEF WalkOK
<1>2. nextItem \in Nat /\ nextItem' \in Nat /\ nextItem <= nextItem'
  BY DEF ItemsGoOn
<1>3. ASSUME client.cwd # Anywhere, client.pc # "fetch"
      PROVE  /\ client.at # Anywhere /\ client.at < nextItem'
             /\ client.pc = "there" <=> client.todo = <<>>
             /\ Len(client.todo) <= Len(Path(client))
             /\ \A n \in 1..Len(client.todo) : client.todo[n] = Path(client)[n + Walked(client)]
             /\ Exists(client.at)' =>
                  client.at \in Reaching(Folders(items'), {client.cwd}, Path(client))[Walked(client)]
  <2>1. /\ client.at # Anywhere /\ client.at < nextItem
        /\ client.pc = "there" <=> client.todo = <<>>
        /\ Len(client.todo) <= Len(Path(client))
        /\ \A n \in 1..Len(client.todo) : client.todo[n] = Path(client)[n + Walked(client)]
        /\ Exists(client.at) =>
             client.at \in Reaching(Folders(items), {client.cwd}, Path(client))[Walked(client)]
    BY <1>3 DEF WalkOK
  <2>2. client.at \in Nat
    BY ClientFacts, DriveAssumption
  <2>3. ASSUME Exists(client.at)'
        PROVE  client.at \in Reaching(Folders(items'), {client.cwd}, Path(client))[Walked(client)]
    <3>1. PICK i \in items' : i.id = client.at
      BY <2>3 DEF Exists
    <3>2. i \in items
      BY <1>2, <2>1, <2>2, <3>1 DEF ItemsGoOn
    <3>3. Exists(client.at) /\ ~ Gone(client.at)
      BY <2>3, <3>1, <3>2 DEF Exists, Gone
    <3>4. Walked(client) \in 0..Len(Path(client)) /\ Len(Path(client)) \in Nat
      BY <1>1, <2>1, ClientFacts DEF Walked
    <3> QED
      BY <2>1, <3>3, <3>4, PathsStay
  <2> QED
    BY <1>2, <2>1, <2>2, <2>3
<1>4. client.cwd < nextItem'
  BY <1>1, <1>2
<1> QED
  BY <1>1, <1>3, <1>4 DEF WalkOK, Path, Walked

LEMMA MissingStays ==
  ASSUME ItemsGoOn, NEW client \in Client, MissingOK(client)
  PROVE  MissingOK(client)'
<1> SUFFICES ASSUME client.pc = "create"
             PROVE  /\ MayCreate(client) /\ client.looked <= nextItem'
                    /\ \A i \in Folders(items') :
                         i.name = Head(client.todo) /\ i.parent = client.at => i.id >= client.looked
  BY DEF MissingOK, MayCreate
<1>1. /\ MayCreate(client) /\ client.looked <= nextItem /\ client.looked \in Nat
      /\ \A i \in Folders(items) :
           i.name = Head(client.todo) /\ i.parent = client.at => i.id >= client.looked
  BY DriveAssumption DEF MissingOK, Client
<1>2. \A i \in items' : i.id \in Nat /\ (i \in items \/ i.id >= nextItem)
  BY ItemFacts DEF ItemsGoOn
<1>3. nextItem \in Nat /\ nextItem' \in Nat /\ nextItem <= nextItem'
  BY DEF ItemsGoOn
<1>4. client.looked <= nextItem'
  BY <1>1, <1>3
<1>5. ASSUME NEW i \in Folders(items'), i.name = Head(client.todo), i.parent = client.at
      PROVE  i.id >= client.looked
  <2>1. i \in items' /\ i.isFolder
    BY <1>5 DEF Folders
  <2>2. CASE i \in items
    BY <1>1, <1>5, <2>1, <2>2 DEF Folders
  <2>3. CASE i.id >= nextItem
    BY <1>1, <1>2, <1>3, <2>1, <2>3
  <2> QED
    BY <1>2, <2>1, <2>2, <2>3
<1> QED
  BY <1>1, <1>4, <1>5

LEMMA CwdsStay ==
  ASSUME ItemsGoOn, NEW id \in Cwds
  PROVE  id \in Cwds' \/ Gone(id)
BY ItemsGone DEF Cwds, Folders

LEMMA DownloadStays ==
  ASSUME ItemsGoOn, NEW client \in Client, DownloadOK(client)
  PROVE  DownloadOK(client)'
<1> SUFFICES ASSUME client.op = "download-dir", NEW i \in client.there
             PROVE  /\ i.id < nextItem' /\ ~i.isFolder
                    /\ i \in items' => HasCopy(client, i) \/ IsAhead(client, i)'
  BY DEF DownloadOK, HasCopy
<1>1. /\ i.id < nextItem /\ ~i.isFolder
      /\ i \in items => HasCopy(client, i) \/ IsAhead(client, i)
  BY DEF DownloadOK
<1>2. nextItem \in Nat /\ nextItem' \in Nat /\ nextItem <= nextItem' /\ i.id \in Nat
  BY ItemFacts, ClientFacts DEF ItemsGoOn
<1>3. ASSUME i \in items', IsAhead(client, i)
      PROVE  IsAhead(client, i)'
  <2>1. Path(client) = client.asked
    BY <1>3 DEF IsAhead
  <2>2. CASE client.pc = "fetch"
    BY <1>3, <2>1, <2>2 DEF IsAhead, Path
  <2>3. CASE client.pc # "fetch" /\ client.cwd = Anywhere
    <3>1. i.parent \in Reaching(Folders(items), Cwds, client.asked)[Len(client.asked)]
      BY <1>3, <2>3 DEF IsAhead, FoldersAt
    <3>2. Len(client.asked) \in Nat /\ Len(client.asked) \in 0..Len(client.asked)
      BY DEF Client
    <3>3. i.parent \in Reaching(Folders(items'), Cwds', client.asked)[Len(client.asked)]
      BY <1>3, <3>1, <3>2, CwdsStay, PathsStay, ParentNotGone
    <3> QED
      BY <2>1, <2>3, <3>3 DEF IsAhead, FoldersAt, Path
  <2>4. CASE client.pc # "fetch" /\ client.cwd # Anywhere
    <3>1. i.parent \in Reaching(Folders(items), {client.at}, client.todo)[Len(client.todo)]
      BY <1>3, <2>4 DEF IsAhead, FoldersAt
    <3>2. Len(client.todo) \in Nat /\ Len(client.todo) \in 0..Len(client.todo)
      BY DEF Client
    <3>3. i.parent \in Reaching(Folders(items'), {client.at}, client.todo)[Len(client.todo)]
      BY <1>3, <3>1, <3>2, PathsStay, ParentNotGone
    <3> QED
      BY <2>1, <2>4, <3>3 DEF IsAhead, FoldersAt, Path
  <2> QED
    BY <2>2, <2>3, <2>4
<1>4. i \in items' => i \in items
  BY <1>1, <1>2 DEF ItemsGoOn
<1> QED
  BY <1>1, <1>2, <1>3, <1>4

LEMMA ClientStays ==
  ASSUME ItemsGoOn, NEW client \in Client, ClientOK(client)
  PROVE  ClientOK(client)'
BY WalkStays, MissingStays, DownloadStays DEF ClientOK

-----------------------------------------------------------------------------
(* The client that acts.                                                   *)

LEMMA ClientPrime ==
  ASSUME NEW c \in Clients, NEW client, clients'[c] = client
  PROVE  ClientOK(clients[c])' <=> ClientOK(client)'
<1>1. WalkOK(clients[c])' <=> WalkOK(client)'
  BY DEF WalkOK, Path, Walked
<1>2. MissingOK(clients[c])' <=> MissingOK(client)'
  BY DEF MissingOK, MayCreate
<1>3. ASSUME NEW i
      PROVE  /\ HasCopy(clients[c], i)' <=> HasCopy(client, i)
             /\ IsAhead(clients[c], i)' <=> IsAhead(client, i)'
  BY DEF HasCopy, IsAhead, Path
<1>4. DownloadOK(clients[c])' <=> DownloadOK(client)'
  BY <1>3 DEF DownloadOK
<1> QED
  BY <1>1, <1>2, <1>4 DEF ClientOK

\* A walk that is right all the way arrives where it should.
RightWalksArrive ==
  \A walker \in Client :
    WalkOK(walker) /\ walker.pc = "there" /\ Exists(walker.at) =>
      walker.at \in FoldersAt({walker.cwd}, Head(walker.visits).path)

LEMMA Arrives == RightWalksArrive
<1> SUFFICES ASSUME NEW walker \in Client, WalkOK(walker), walker.pc = "there", Exists(walker.at)
             PROVE  walker.at \in FoldersAt({walker.cwd}, Path(walker))
  BY DEF RightWalksArrive, Path
<1>1. walker.visits # <<>> /\ walker.cwd # Anywhere /\ walker.todo = <<>>
  BY DEF WalkOK
<1>2. walker.at \in Reaching(Folders(items), {walker.cwd}, Path(walker))[Walked(walker)]
  BY <1>1 DEF WalkOK
<1>3. Walked(walker) = Len(Path(walker))
  BY <1>1, ClientFacts DEF Walked
<1> QED
  BY <1>2, <1>3 DEF FoldersAt

\* A step of a client keeps the invariant if it keeps what is said of that client.
LEMMA ActorKeepsInv ==
  ASSUME DriveInv, ItemsGoOn, nextItem' \in 1..MaxItems + 1, begun' \in 0..MaxCommands,
         NEW c \in Clients, NEW client \in Client,
         clients' = [clients EXCEPT ![c] = client], ClientOK(client)'
  PROVE  DriveInv'
<1>1. DriveTypeOK'
  BY DEF DriveInv, DriveTypeOK, ItemsGoOn
<1>2. ItemsOK'
  BY DEF ItemsGoOn
<1>3. ASSUME NEW d \in Clients PROVE ClientOK(clients[d])'
  <2>1. CASE d = c
    <3>1. clients'[d] = client
      BY <2>1 DEF DriveInv, DriveTypeOK
    <3> QED
      BY <3>1, ClientPrime
  <2>2. CASE d # c
    <3>1. PICK other : other = clients[d]
      OBVIOUS
    <3>2. other \in Client /\ clients'[d] = other /\ ClientOK(clients[d])
      BY <2>2, <3>1 DEF DriveInv, DriveTypeOK
    <3>3. ClientOK(other)
      BY <3>1, <3>2
    <3>4. ClientOK(other)'
      BY <3>2, <3>3, ClientStays
    <3> QED
      BY <3>2, <3>4, ClientPrime
  <2> QED
    BY <2>1, <2>2
<1>4. ArrivesWhereAsked'
  <2> SUFFICES ASSUME NEW d \in Clients, clients'[d].pc = "there", Exists(clients[d].at)'
               PROVE  clients'[d].at \in
                        FoldersAt({clients[d].cwd}, Head(clients[d].visits).path)'
    BY DEF ArrivesWhereAsked
  <2>1. clients'[d] \in Client
    BY <1>1 DEF DriveTypeOK
  <2>2. WalkOK(clients[d])'
    BY <1>3 DEF ClientOK
  <2>3. RightWalksArrive'
    BY Arrives, PTL
  <2>4. PICK e : e = clients'[d]
    OBVIOUS
  <2>5. WalkOK(e)' /\ Exists(e.at)'
    BY <2>2, <2>4 DEF WalkOK, Path, Walked, Exists
  <2>6. e.at \in FoldersAt({e.cwd}, Head(e.visits).path)'
    BY <2>1, <2>3, <2>4, <2>5 DEF RightWalksArrive
  <2> QED
    BY <2>4, <2>6 DEF FoldersAt
<1> QED
  BY <1>1, <1>2, <1>3, <1>4 DEF DriveInv

\* The same for a step that leaves the items alone.
LEMMA ActorKeepsInvAlone ==
  ASSUME DriveInv, UNCHANGED <<items, nextItem>>, begun' \in 0..MaxCommands,
         NEW c \in Clients, NEW client \in Client,
         clients' = [clients EXCEPT ![c] = client], ClientOK(client)
  PROVE  DriveInv'
<1>1. ItemsGoOn /\ nextItem' \in 1..MaxItems + 1
  BY SameItems
<1>2. ClientOK(client)'
  BY <1>1, ClientStays
<1> QED
  BY <1>1, <1>2, ActorKeepsInv

\* A command that has ended promises nothing.
LEMMA RaiseKeepsInv ==
  ASSUME DriveInv, UNCHANGED <<items, nextItem, begun>>, NEW c \in Clients,
         NEW pc \in {"done", "failed"}, clients' = [clients EXCEPT ![c].pc = pc]
  PROVE  DriveInv'
<1>1. PICK client : client = [clients[c] EXCEPT !.pc = pc]
  OBVIOUS
<1>2. client \in Client /\ client.pc = pc
  BY <1>1 DEF DriveInv, DriveTypeOK, Client
<1>3. clients' = [clients EXCEPT ![c] = client]
  BY <1>1
<1>4. ClientOK(client)
  BY <1>2 DEF ClientOK
<1>5. begun' \in 0..MaxCommands
  BY DEF DriveInv, DriveTypeOK
<1> QED
  BY <1>2, <1>3, <1>4, <1>5, ActorKeepsInvAlone

\* Each field by itself may change.
LEMMA ClientUpdates ==
  ASSUME NEW client \in Client
  PROVE  /\ \A v \in {"idle", "look", "create", "there", "fetch", "done", "failed"} : [client EXCEPT !.pc = v] \in Client
         /\ \A v \in Ops : [client EXCEPT !.op = v] \in Client
         /\ \A v \in Visits : [client EXCEPT !.visits = v] \in Client
         /\ \A v \in Seq(Names) : [client EXCEPT !.todo = v] \in Client
         /\ \A v \in 0..MaxItems : [client EXCEPT !.cwd = v] \in Client
         /\ \A v \in 0..MaxItems : [client EXCEPT !.at = v] \in Client
         /\ \A v \in 0..MaxItems + 1 : [client EXCEPT !.looked = v] \in Client
         /\ \A v \in SUBSET Item : [client EXCEPT !.listed = v] \in Client
         /\ \A v \in SUBSET Copy : [client EXCEPT !.local = v] \in Client
         /\ \A v \in Seq(Names) : [client EXCEPT !.asked = v] \in Client
         /\ \A v \in SUBSET Item : [client EXCEPT !.there = v] \in Client
<1>1. \A v \in {"idle", "look", "create", "there", "fetch", "done", "failed"} : [client EXCEPT !.pc = v] \in Client
  BY DEF Client
<1>2. \A v \in Ops : [client EXCEPT !.op = v] \in Client
  BY DEF Client
<1>3. \A v \in Visits : [client EXCEPT !.visits = v] \in Client
  BY DEF Client
<1>4. \A v \in Seq(Names) : [client EXCEPT !.todo = v] \in Client
  BY DEF Client
<1>5. \A v \in 0..MaxItems : [client EXCEPT !.cwd = v] \in Client
  BY DEF Client
<1>6. \A v \in 0..MaxItems : [client EXCEPT !.at = v] \in Client
  BY DEF Client
<1>7. \A v \in 0..MaxItems + 1 : [client EXCEPT !.looked = v] \in Client
  BY DEF Client
<1>8. \A v \in SUBSET Item : [client EXCEPT !.listed = v] \in Client
  BY DEF Client
<1>9. \A v \in SUBSET Copy : [client EXCEPT !.local = v] \in Client
  BY DEF Client
<1>10. \A v \in Seq(Names) : [client EXCEPT !.asked = v] \in Client
  BY DEF Client
<1>11. \A v \in SUBSET Item : [client EXCEPT !.there = v] \in Client
  BY DEF Client
<1> QED
  BY <1>1, <1>2, <1>3, <1>4, <1>5, <1>6, <1>7, <1>8, <1>9, <1>10, <1>11

LEMMA InitDrive == DriveInit => DriveInv
<1> SUFFICES ASSUME DriveInit PROVE DriveInv
  OBVIOUS
<1> DEFINE cwd == [id |-> 1, name |-> Cwd, isFolder |-> TRUE, parent |-> Root]
<1>1. MaxItems \in Nat \ {0} /\ MaxCommands \in Nat /\ Cwd \in Names
  BY DriveAssumption
<1>2. Idle \in Client /\ Idle.pc = "idle"
  BY <1>1 DEF Idle, Client, Visits, Anywhere
<1>3. DriveTypeOK
  BY <1>1, <1>2 DEF DriveInit, DriveTypeOK, Item, Root
<1>4. ItemsOK
  <2>1. items = {cwd} /\ nextItem = 2
    BY DEF DriveInit
  <2>2. cwd.id = 1 /\ cwd.parent = Root /\ Root = 0
    BY DEF Root
  <2> HIDE DEF cwd
  <2>3. IsFiniteSet(items)
    BY <2>1, FS_Singleton
  <2> QED
    BY <2>1, <2>2, <2>3 DEF ItemsOK
<1>5. \A c \in Clients : clients[c] = Idle
  BY DEF DriveInit
<1>6. \A c \in Clients : ClientOK(clients[c]) /\ clients[c].pc # "there"
  BY <1>2, <1>5 DEF ClientOK
<1> QED
  BY <1>3, <1>4, <1>6 DEF DriveInv, ArrivesWhereAsked

LEMMA BeginKeepsInv ==
  ASSUME DriveInv, NEW c \in Clients, Begin(c)
  PROVE  DriveInv'
<1>1. PICK command \in Commands :
        clients' = [clients EXCEPT ![c] =
          [Idle EXCEPT !.pc = "look", !.op = command.op, !.visits = command.visits, !.todo = <<Cwd>>,
                       !.asked = Head(command.visits).path,
                       !.there = FilesAt(Head(command.visits).path)]]
  BY DEF Begin
<1>2. PICK client :
        client = [Idle EXCEPT !.pc = "look", !.op = command.op, !.visits = command.visits,
                              !.todo = <<Cwd>>, !.asked = Head(command.visits).path,
                              !.there = FilesAt(Head(command.visits).path)]
  OBVIOUS
<1>3. /\ command.op \in Ops /\ command.visits \in Visits /\ command.visits # <<>>
      /\ Cwd \in Names /\ MaxItems \in Nat
  BY DriveAssumption
<1>4. /\ client.pc = "look" /\ client.visits = command.visits /\ client.todo = <<Cwd>>
      /\ client.cwd = Anywhere /\ client.at = Anywhere
      /\ client.asked = Head(command.visits).path /\ client.there = FilesAt(client.asked)
  BY <1>2 DEF Idle
<1>5. Head(command.visits).path \in Seq(Names)
  <2> DEFINE V == [path : Seq(Names) \ {<<>>}, files : SUBSET Names]
  <2>1. Head(command.visits) \in V
    <3>1. command.visits \in Seq(V)
      BY <1>3 DEF Visits
    <3> HIDE DEF V
    <3> QED
      BY <1>3, <3>1, SeqFacts
  <2> QED
    BY <2>1
<1>6. /\ items \subseteq Item /\ ItemsOK /\ nextItem \in 1..MaxItems + 1
  BY DEF DriveInv, DriveTypeOK
<1>7. FilesAt(Head(command.visits).path) \subseteq Item
  BY <1>6 DEF FilesAt
<1>8. client \in Client
  <2>1. Idle \in Client
    BY <1>3 DEF Idle, Client, Visits, Anywhere
  <2>2. [Idle EXCEPT !.pc = "look", !.op = command.op] \in Client
    BY <1>3, <2>1, ClientUpdates
  <2>3. [Idle EXCEPT !.pc = "look", !.op = command.op, !.visits = command.visits] \in Client
    BY <1>3, <2>2, ClientUpdates
  <2>4. [Idle EXCEPT !.pc = "look", !.op = command.op, !.visits = command.visits,
                     !.todo = <<Cwd>>] \in Client
    <3>1. <<Cwd>> \in Seq(Names)
      BY <1>3
    <3> QED
      BY <2>3, <3>1, ClientUpdates
  <2>5. [Idle EXCEPT !.pc = "look", !.op = command.op, !.visits = command.visits,
                     !.todo = <<Cwd>>, !.asked = Head(command.visits).path] \in Client
    BY <1>5, <2>4, ClientUpdates
  <2> QED
    BY <1>2, <1>7, <2>5, ClientUpdates
<1>9. WalkOK(client)
  BY <1>3, <1>4, <1>6 DEF WalkOK, Anywhere
<1>10. MissingOK(client)
  BY <1>4 DEF MissingOK
<1>11. DownloadOK(client)
  <2> SUFFICES ASSUME NEW i \in client.there
               PROVE  i.id < nextItem /\ ~i.isFolder /\ IsAhead(client, i)
    BY DEF DownloadOK
  <2>1. i \in items /\ ~i.isFolder /\ i.parent \in FoldersAt(Cwds, client.asked)
    BY <1>4 DEF FilesAt
  <2> QED
    BY <1>4, <1>6, <2>1 DEF IsAhead, Path, ItemsOK
<1>12. UNCHANGED <<items, nextItem>> /\ begun' \in 0..MaxCommands
  BY DriveAssumption DEF Begin, DriveInv, DriveTypeOK
<1>13. ClientOK(client)
  BY <1>9, <1>10, <1>11 DEF ClientOK
<1> QED
  BY <1>1, <1>2, <1>8, <1>12, <1>13, ActorKeepsInvAlone

\* The first folder of a walk is the working directory.
LEMMA CwdReached ==
  ASSUME DriveInv, NEW client \in Client, ClientOK(client), client.pc = "look",
         client.cwd = Anywhere, NEW i \in items,
         Folders(Named(Head(client.todo), client.at)) = {i},
         NEW next, next = Reached(client, i.id)
  PROVE  next \in Client /\ ClientOK(next)
<1>1. /\ WalkOK(client) /\ DownloadOK(client) /\ client.visits # <<>>
      /\ client.at = Anywhere /\ client.todo = <<Cwd>>
  BY DEF ClientOK, WalkOK
<1>2. /\ items \subseteq Item /\ ItemsOK /\ nextItem \in 1..MaxItems + 1 /\ MaxItems \in Nat
  BY DriveAssumption DEF DriveInv, DriveTypeOK
<1>3. i.id \in 1..MaxItems /\ i.id < nextItem /\ i.id # Anywhere
  BY <1>2 DEF Item, ItemsOK, Anywhere
<1>4. next = [client EXCEPT !.cwd = i.id, !.at = i.id, !.todo = Path(client)]
  BY DEF Reached, Path
<1>5. /\ Path(client) \in Seq(Names) /\ Path(client) # <<>> /\ Len(Path(client)) \in Nat
  BY <1>1, ClientFacts
<1>6. next \in Client
  <2>1. i.id \in 0..MaxItems
    BY <1>2, <1>3
  <2>2. [client EXCEPT !.cwd = i.id] \in Client
    BY <2>1, ClientUpdates
  <2>3. [client EXCEPT !.cwd = i.id, !.at = i.id] \in Client
    BY <2>1, <2>2, ClientUpdates
  <2> QED
    BY <1>4, <1>5, <2>3, ClientUpdates
<1>7. /\ next.pc = "look" /\ next.cwd = i.id /\ next.at = i.id /\ next.todo = Path(client)
      /\ Path(next) = Path(client) /\ next.visits = client.visits /\ next.op = client.op
      /\ next.there = client.there /\ next.asked = client.asked /\ next.local = client.local
  BY <1>4 DEF Path, Client
<1>8. Cwds = {i.id}
  BY <1>1 DEF Cwds, Folders, Named
<1>9. WalkOK(next)
  <2>1. Walked(next) = 0
    BY <1>5, <1>7 DEF Walked
  <2>2. Reaching(Folders(items), {i.id}, Path(next))[0] = {i.id}
    BY <1>5, <1>7, ReachingSteps
  <2>3. \A n \in 1..Len(next.todo) : next.todo[n] = Path(next)[n + Walked(next)]
    BY <1>5, <1>7, <2>1
  <2>4. Len(next.todo) <= Len(Path(next)) /\ next.todo # <<>> /\ next.visits # <<>>
    BY <1>1, <1>5, <1>7
  <2>5. next.at \in Reaching(Folders(items), {next.cwd}, Path(next))[Walked(next)]
    BY <1>7, <2>1, <2>2
  <2> QED
    BY <1>3, <1>7, <2>3, <2>4, <2>5 DEF WalkOK
<1>10. MissingOK(next)
  BY <1>7 DEF MissingOK
<1>11. DownloadOK(next)
  <2> SUFFICES ASSUME client.op = "download-dir", NEW f \in client.there
               PROVE  /\ f.id < nextItem /\ ~f.isFolder
                      /\ f \in items => HasCopy(next, f) \/ IsAhead(next, f)
    BY <1>7 DEF DownloadOK
  <2>1. /\ f.id < nextItem /\ ~f.isFolder
        /\ f \in items => HasCopy(client, f) \/ IsAhead(client, f)
    BY <1>1 DEF DownloadOK
  <2>2. HasCopy(client, f) => HasCopy(next, f)
    BY <1>7 DEF HasCopy
  <2>3. ASSUME IsAhead(client, f) PROVE IsAhead(next, f)
    <3>1. Path(client) = client.asked /\ f.parent \in FoldersAt(Cwds, client.asked)
      BY <2>3 DEF IsAhead
    <3>2. f.parent \in FoldersAt({next.at}, next.todo)
      BY <1>7, <1>8, <3>1
    <3> QED
      BY <1>3, <1>7, <3>1, <3>2 DEF IsAhead
  <2> QED
    BY <2>1, <2>2, <2>3
<1> QED
  BY <1>6, <1>9, <1>10, <1>11 DEF ClientOK

\* todo is what is left of a path after w of its names.
IsRest(path, w, todo) ==
  /\ path \in Seq(Names) /\ todo \in Seq(Names)
  /\ w = Len(path) - Len(todo) /\ Len(todo) <= Len(path)
  /\ \A n \in 1..Len(todo) : todo[n] = path[n + w]

LEMMA TailOfPath ==
  ASSUME NEW path, NEW todo, NEW w, IsRest(path, w, todo), todo # <<>>
  PROVE  /\ w \in Nat /\ w + 1 \in 1..Len(path) /\ (w + 1) - 1 = w
         /\ IsRest(path, w + 1, Tail(todo))
         /\ Head(todo) = path[w + 1]
         /\ Tail(todo) = <<>> <=> Len(todo) = 1
<1>0. /\ path \in Seq(Names) /\ todo \in Seq(Names)
      /\ w = Len(path) - Len(todo) /\ Len(todo) <= Len(path)
      /\ \A n \in 1..Len(todo) : todo[n] = path[n + w]
  BY DEF IsRest
<1>1. /\ Len(todo) \in Nat /\ Len(todo) # 0 /\ Len(path) \in Nat
      /\ Tail(todo) \in Seq(Names) /\ Len(Tail(todo)) = Len(todo) - 1 /\ Head(todo) = todo[1]
      /\ \A n \in 1..Len(todo) - 1 : Tail(todo)[n] = todo[n + 1]
  BY <1>0, SeqFacts
<1>2. Tail(todo) = <<>> <=> Len(Tail(todo)) = 0
  BY <1>1
<1>3. ASSUME NEW n \in 1..Len(Tail(todo)) PROVE Tail(todo)[n] = path[n + (w + 1)]
  <2>1. n \in 1..Len(todo) - 1 /\ n + 1 \in 1..Len(todo) /\ (n + 1) + w = n + (w + 1)
    BY <1>0, <1>1
  <2> QED
    BY <1>0, <1>1, <2>1
<1>4. 1 \in 1..Len(todo) /\ 1 + w = w + 1
  BY <1>0, <1>1
<1>5. IsRest(path, w + 1, Tail(todo))
  BY <1>0, <1>1, <1>3 DEF IsRest
<1> QED
  BY <1>0, <1>1, <1>2, <1>4, <1>5

\* From a folder that a walk is at to one that is in it.
LEMMA WalkGoesOn ==
  ASSUME ItemsGoOn, NEW client \in Client, WalkOK(client)', client.cwd # Anywhere,
         client.pc \in {"look", "create"},
         NEW i \in items', i.isFolder, i.name = Head(client.todo), i.parent = client.at,
         NEW next, next.visits = client.visits, next.cwd = client.cwd, next.at = i.id,
         next.todo = Tail(client.todo),
         next.pc = IF Len(client.todo) = 1 THEN "there" ELSE "look"
  PROVE  WalkOK(next)'
<1>1. PICK path, w, todo : path = Path(client) /\ w = Walked(client) /\ todo = client.todo
  OBVIOUS
<1> DEFINE r == Reaching(Folders(items'), {client.cwd}, path)
<1>2. /\ client.visits # <<>> /\ client.cwd < nextItem'
      /\ client.at # Anywhere /\ todo # <<>>
      /\ Len(todo) <= Len(path)
      /\ \A n \in 1..Len(todo) : todo[n] = path[n + w]
      /\ Exists(client.at)' => client.at \in r[w]
  BY <1>1 DEF WalkOK, Path, Walked
<1>3. /\ todo \in Seq(Names) /\ path \in Seq(Names) /\ Len(path) \in Nat
      /\ w = Len(path) - Len(todo)
  BY <1>1, <1>2, ClientFacts DEF Walked
<1>4. PICK rest : rest = Tail(todo)
  OBVIOUS
<1>5. /\ w \in Nat /\ w + 1 \in 1..Len(path) /\ (w + 1) - 1 = w
      /\ IsRest(path, w + 1, rest)
      /\ Head(todo) = path[w + 1]
      /\ rest = <<>> <=> Len(todo) = 1
  <2>1. IsRest(path, w, todo)
    BY <1>2, <1>3 DEF IsRest
  <2> QED
    <3>1. todo # <<>>
      BY <1>2
    <3>2. /\ w \in Nat /\ w + 1 \in 1..Len(path) /\ (w + 1) - 1 = w
          /\ IsRest(path, w + 1, Tail(todo))
          /\ Head(todo) = path[w + 1]
          /\ Tail(todo) = <<>> <=> Len(todo) = 1
      BY <2>1, <3>1, TailOfPath
    <3> QED
      BY <1>4, <3>2
<1>6. /\ Len(rest) <= Len(path) /\ Len(path) - Len(rest) = w + 1
       /\ \A n \in 1..Len(rest) : rest[n] = path[n + (w + 1)]
  BY <1>5 DEF IsRest
<1>7. Path(next) = path /\ next.todo = rest /\ Walked(next) = w + 1
  BY <1>1, <1>4, <1>6 DEF Path, Walked
<1>8. /\ i.id \in Nat /\ i.id # Anywhere /\ i.id < nextItem'
      /\ \E p \in items' : p.id = client.at
  BY <1>2, ItemFacts DEF ItemsGoOn, ItemsOK, Exists, Anywhere, Root
<1>9. client.at \in r[w]
  BY <1>2, <1>8 DEF Exists
<1>10. i.id \in r[w + 1]
  <2>1. \E j \in Folders(items') : j.id = i.id /\ j.name = path[w + 1] /\ j.parent \in r[(w + 1) - 1]
    BY <1>1, <1>5, <1>9 DEF Folders
  <2>2. \A n \in 1..Len(path) : \A id :
          id \in r[n] <=>
            \E j \in Folders(items') : j.id = id /\ j.name = path[n] /\ j.parent \in r[n - 1]
    BY <1>3, ReachingSteps, Zenon
  <2> HIDE DEF r
  <2> QED
    BY <1>5, <2>1, <2>2, Zenon
<1>11. /\ next.pc = "there" <=> next.todo = <<>>
       /\ next.pc # "fetch"
  BY <1>1, <1>5, <1>7
<1>12. next.at \in Reaching(Folders(items'), {next.cwd}, Path(next))[Walked(next)]
  BY <1>7, <1>10
<1>13. /\ Len(next.todo) <= Len(Path(next))
       /\ \A n \in 1..Len(next.todo) : next.todo[n] = Path(next)[n + Walked(next)]
  BY <1>6, <1>7
<1>14. /\ next.visits # <<>> /\ next.cwd # Anywhere /\ next.cwd < nextItem'
       /\ next.at # Anywhere /\ next.at < nextItem'
  BY <1>2, <1>8
<1> QED
  BY <1>11, <1>12, <1>13, <1>14 DEF WalkOK, Path, Walked

\* What is ahead of a walk in a folder is ahead of it in the next one.
LEMMA AheadGoesOn ==
  ASSUME NEW client \in Client, client.pc = "look", client.cwd # Anywhere, client.at # Anywhere,
         client.todo # <<>>, NEW i, Folders(Named(Head(client.todo), client.at)) = {i},
         NEW f, IsAhead(client, f), NEW next, Path(next) = Path(client),
         next.asked = client.asked, next.cwd = client.cwd, next.at = i.id,
         next.todo = Tail(client.todo), next.pc # "fetch"
  PROVE  IsAhead(next, f)
<1>1. PICK todo : todo = client.todo
  OBVIOUS
<1> DEFINE r == Reaching(Folders(items), {client.at}, todo)
<1>2. Path(client) = client.asked /\ f.parent \in r[Len(todo)]
  BY <1>1 DEF IsAhead, FoldersAt
<1>3. /\ todo \in Seq(Names) /\ todo # <<>> /\ Len(todo) \in Nat /\ Len(todo) # 0
      /\ Head(todo) = todo[1]
  BY <1>1, ClientFacts, SeqFacts
<1>4. r[1] = {i.id}
  <2>1. r[0] = {client.at} /\ 1 \in 1..Len(todo) /\ 1 - 1 = 0
    BY <1>3, ReachingSteps
  <2>2. \A n \in 1..Len(todo) : \A id :
          id \in r[n] <=>
            \E j \in Folders(items) : j.id = id /\ j.name = todo[n] /\ j.parent \in r[n - 1]
    BY <1>3, ReachingSteps, Zenon
  <2>3. \A j : j = i <=> j \in Folders(items) /\ j.name = todo[1] /\ j.parent = client.at
    <3>1. Folders(Named(todo[1], client.at)) = {i}
      BY <1>1, <1>3
    <3> QED
      BY <3>1 DEF Folders, Named
  <2> HIDE DEF r
  <2>4. \A id : id \in r[1] <=>
          \E j \in Folders(items) : j.id = id /\ j.name = todo[1] /\ j.parent \in r[0]
    BY <2>1, <2>2
  <2>5. \A id : id \in r[1] <=>
          \E j \in Folders(items) : j.id = id /\ j.name = todo[1] /\ j.parent = client.at
    BY <2>1, <2>4
  <2> QED
    BY <2>3, <2>5
<1>5. r[Len(todo)] = Reaching(Folders(items), {i.id}, Tail(todo))[Len(Tail(todo))]
  <2>1. r[Len(todo)] = Reaching(Folders(items), r[1], Tail(todo))[Len(Tail(todo))]
    BY <1>3, ReachingTail, Zenon
  <2> HIDE DEF r
  <2> QED
    BY <1>4, <2>1
<1> QED
  BY <1>1, <1>2, <1>5 DEF IsAhead, FoldersAt

LEMMA LookKeepsInv ==
  ASSUME DriveInv, NEW c \in Clients, Look(c)
  PROVE  DriveInv'
<1> DEFINE found == Folders(Named(Head(clients[c].todo), clients[c].at))
<1>1. PICK client : client = clients[c]
  OBVIOUS
<1>2. /\ client \in Client /\ ClientOK(client) /\ client.pc = "look"
      /\ items' = items /\ nextItem' = nextItem /\ begun' = begun
      /\ begun' \in 0..MaxCommands /\ clients \in [Clients -> Client]
  BY <1>1 DEF Look, DriveInv, DriveTypeOK
<1>3. WalkOK(client) /\ DownloadOK(client)
  BY <1>2 DEF ClientOK
<1>4. ItemsGoOn /\ nextItem' \in 1..MaxItems + 1
  BY <1>2, SameItems
<1>5. ASSUME NEW i \in found, found = {i}, clients' = [clients EXCEPT ![c] = Reached(client, i.id)]
      PROVE  DriveInv'
  <2>1. PICK next : next = Reached(client, i.id)
    OBVIOUS
  <2>2. clients' = [clients EXCEPT ![c] = next]
    BY <1>5, <2>1
  <2>3. i \in items /\ i.isFolder /\ i.name = Head(client.todo)
    BY <1>1 DEF Folders, Named
  <2>4. CASE client.cwd = Anywhere
    <3>1. next \in Client /\ ClientOK(next)
      BY <1>1, <1>2, <1>5, <2>1, <2>3, <2>4, CwdReached
    <3> QED
      BY <1>2, <2>2, <3>1, ActorKeepsInvAlone
  <2>5. CASE client.cwd # Anywhere
    <3>1. client.at # Anywhere /\ client.todo # <<>> /\ client.visits # <<>>
      BY <1>2, <1>3, <2>5 DEF WalkOK
    <3>2. i.parent = client.at
      BY <1>1, <3>1 DEF Folders, Named
    <3> DEFINE pc == IF Len(client.todo) = 1 THEN "there" ELSE "look"
    <3>3. next = [client EXCEPT !.pc = pc, !.at = i.id, !.todo = Tail(client.todo)]
      BY <2>1, <2>5 DEF Reached
    <3>4. next \in Client
      <4>1. i.id \in 0..MaxItems
        BY <2>3, DriveAssumption DEF DriveInv, DriveTypeOK, Item
      <4>2. Tail(client.todo) \in Seq(Names)
        BY <1>2, <3>1, ClientFacts, SeqFacts
      <4>3. [client EXCEPT !.pc = pc] \in Client
        BY <1>2, ClientUpdates
      <4>4. [client EXCEPT !.pc = pc, !.at = i.id] \in Client
        BY <4>1, <4>3, ClientUpdates
      <4> QED
        BY <3>3, <4>2, <4>4, ClientUpdates
    <3>5. /\ next.pc = pc /\ next.at = i.id /\ next.todo = Tail(client.todo)
          /\ next.visits = client.visits /\ next.cwd = client.cwd /\ next.op = client.op
          /\ next.asked = client.asked /\ next.there = client.there /\ next.local = client.local
      BY <1>2, <3>3 DEF Client
    <3>6. WalkOK(next)'
      <4>1. WalkOK(client)'
        BY <1>2, <1>3, <1>4, WalkStays
      <4>2. i \in items'
        BY <1>2, <2>3
      <4> HIDE DEF pc
      <4> QED
        BY <1>2, <1>4, <2>3, <2>5, <3>2, <3>5, <4>1, <4>2, WalkGoesOn DEF pc
    <3>7. DownloadOK(next)
      <4> SUFFICES ASSUME client.op = "download-dir", NEW f \in client.there
                   PROVE  /\ f.id < nextItem /\ ~f.isFolder
                          /\ f \in items => HasCopy(next, f) \/ IsAhead(next, f)
        BY <3>5 DEF DownloadOK
      <4>1. /\ f.id < nextItem /\ ~f.isFolder
            /\ f \in items => HasCopy(client, f) \/ IsAhead(client, f)
        BY <1>3 DEF DownloadOK
      <4>2. HasCopy(client, f) => HasCopy(next, f)
        BY <3>5 DEF HasCopy
      <4>3. Path(next) = Path(client) /\ next.pc # "fetch"
        BY <3>5 DEF Path
      <4>4. Folders(Named(Head(client.todo), client.at)) = {i}
        BY <1>1, <1>5
      <4>5. IsAhead(client, f) => IsAhead(next, f)
        BY <1>2, <2>5, <3>1, <3>5, <4>3, <4>4, AheadGoesOn
      <4> QED
        BY <4>1, <4>2, <4>5
    <3>8. DownloadOK(next)'
      BY <1>4, <3>4, <3>7, DownloadStays
    <3>9. MissingOK(next)'
      BY <3>5 DEF MissingOK
    <3>10. ClientOK(next)'
      BY <3>6, <3>8, <3>9 DEF ClientOK
    <3> QED
      BY <1>2, <1>4, <2>2, <3>4, <3>10, ActorKeepsInv
  <2> QED
    BY <2>4, <2>5
<1>6. ASSUME found = {}, MayCreate(client),
             clients' = [clients EXCEPT ![c].pc = "create", ![c].looked = nextItem]
      PROVE  DriveInv'
  <2>1. PICK next : next = [client EXCEPT !.pc = "create", !.looked = nextItem]
    OBVIOUS
  <2>2. clients' = [clients EXCEPT ![c] = next]
    BY <1>1, <1>2, <1>6, <2>1
  <2>3. nextItem \in 0..MaxItems + 1
    BY DriveAssumption DEF DriveInv, DriveTypeOK
  <2>4. next \in Client
    <3>1. [client EXCEPT !.pc = "create"] \in Client
      BY <1>2, ClientUpdates
    <3> QED
      BY <2>1, <2>3, <3>1, ClientUpdates
  <2>5. /\ next.pc = "create" /\ next.looked = nextItem /\ next.todo = client.todo
        /\ next.at = client.at /\ next.cwd = client.cwd /\ next.visits = client.visits
        /\ next.op = client.op
    BY <1>2, <2>1 DEF Client
  <2>6. client.cwd # Anywhere /\ client.op # "download-dir" /\ client.at # Anywhere
    BY <1>2, <1>3, <1>6 DEF MayCreate, WalkOK
  <2>7. MissingOK(next)
    <3>1. \A i \in Folders(items) : ~ (i.name = Head(client.todo) /\ i.parent = client.at)
      BY <1>1, <1>6, <2>6 DEF Folders, Named
    <3>2. MayCreate(next)
      BY <1>6, <2>5 DEF MayCreate
    <3> QED
      BY <2>3, <2>5, <3>1, <3>2, DriveAssumption DEF MissingOK
  <2>8. WalkOK(next)
    BY <1>2, <1>3, <2>5, <2>6 DEF WalkOK, Path, Walked
  <2>9. DownloadOK(next)
    BY <2>5, <2>6 DEF DownloadOK
  <2>10. ClientOK(next)
    BY <2>7, <2>8, <2>9 DEF ClientOK
  <2> QED
    BY <1>2, <2>2, <2>4, <2>10, ActorKeepsInvAlone
<1>7. ASSUME Raise(c) PROVE DriveInv'
  BY <1>2, <1>7, RaiseKeepsInv DEF Raise
<1> QED
  BY <1>1, <1>5, <1>6, <1>7 DEF Look

LEMMA CreateFolderKeepsInv ==
  ASSUME DriveInv, NEW c \in Clients, CreateFolder(c)
  PROVE  DriveInv'
<1>1. PICK client : client = clients[c]
  OBVIOUS
<1>2. /\ client \in Client /\ ClientOK(client) /\ client.pc = "create"
      /\ Added(Head(client.todo), TRUE, client.at)
      /\ clients' = [clients EXCEPT ![c] = Reached([client EXCEPT !.pc = "look"], nextItem)]
      /\ begun' \in 0..MaxCommands
  BY <1>1 DEF CreateFolder, DriveInv, DriveTypeOK
<1>3. WalkOK(client) /\ MissingOK(client)
  BY <1>2 DEF ClientOK
<1>4. /\ client.visits # <<>> /\ client.cwd # Anywhere /\ client.todo # <<>>
      /\ client.op # "download-dir"
  BY <1>2, <1>3 DEF WalkOK, MissingOK, MayCreate
<1>5. /\ Head(client.todo) \in Names /\ Tail(client.todo) \in Seq(Names)
      /\ client.at \in 0..MaxItems
  BY <1>2, <1>4, ClientFacts, SeqFacts
<1>6. ItemsGoOn /\ nextItem' \in 1..MaxItems + 1
  BY <1>2, <1>5, AddedItems
<1> DEFINE new == [id |-> nextItem, name |-> Head(client.todo), isFolder |-> TRUE,
                   parent |-> client.at]
           pc == IF Len(client.todo) = 1 THEN "there" ELSE "look"
<1>7. /\ new \in items' /\ new.id = nextItem /\ new.isFolder /\ new.name = Head(client.todo)
      /\ new.parent = client.at
  BY <1>2 DEF Added
<1>8. nextItem \in 0..MaxItems
  BY <1>2, DriveAssumption DEF Added, DriveInv, DriveTypeOK
<1>9. PICK next : next = Reached([client EXCEPT !.pc = "look"], nextItem)
  OBVIOUS
<1>10. next = [client EXCEPT !.pc = pc, !.at = nextItem, !.todo = Tail(client.todo)]
  BY <1>2, <1>4, <1>9 DEF Reached, Client
<1>11. next \in Client
  <2>1. [client EXCEPT !.pc = pc] \in Client
    BY <1>2, ClientUpdates
  <2>2. [client EXCEPT !.pc = pc, !.at = nextItem] \in Client
    BY <1>8, <2>1, ClientUpdates
  <2> QED
    BY <1>5, <1>10, <2>2, ClientUpdates
<1>12. /\ next.pc = pc /\ next.at = nextItem /\ next.todo = Tail(client.todo)
       /\ next.visits = client.visits /\ next.cwd = client.cwd /\ next.op = client.op
  BY <1>2, <1>10 DEF Client
<1> HIDE DEF new
<1>13. WalkOK(next)'
  <2>1. WalkOK(client)'
    BY <1>2, <1>3, <1>6, WalkStays
  <2>2. client.pc \in {"look", "create"} /\ next.at = new.id
    BY <1>2, <1>7, <1>12
  <2> QED
    BY <1>2, <1>4, <1>6, <1>7, <1>12, <2>1, <2>2, WalkGoesOn
<1>14. MissingOK(next)' /\ DownloadOK(next)'
  BY <1>4, <1>12 DEF MissingOK, DownloadOK
<1>15. ClientOK(next)'
  BY <1>13, <1>14 DEF ClientOK
<1>16. clients' = [clients EXCEPT ![c] = next]
  BY <1>2, <1>9
<1> QED
  BY <1>2, <1>6, <1>11, <1>15, <1>16, ActorKeepsInv

LEMMA DeleteDirectoryKeepsInv ==
  ASSUME DriveInv, NEW c \in Clients, DeleteDirectory(c)
  PROVE  DriveInv'
<1>1. PICK client : client = [clients[c] EXCEPT !.pc = "done"]
  OBVIOUS
<1>2. clients[c] \in Client
  BY DEF DriveInv, DriveTypeOK
<1>3. client \in Client /\ client.pc = "done"
  BY <1>1, <1>2 DEF Client
<1>4. /\ items' = items \ Below(clients[c].at) /\ nextItem' = nextItem
      /\ clients' = [clients EXCEPT ![c] = client] /\ begun' \in 0..MaxCommands
  BY <1>1 DEF DeleteDirectory, DriveInv, DriveTypeOK
<1>5. ItemsGoOn /\ nextItem' \in 1..MaxItems + 1
  BY <1>2, <1>4, DeletedItems DEF Client
<1>6. ClientOK(client)'
  BY <1>3 DEF ClientOK
<1> QED
  BY <1>3, <1>4, <1>5, <1>6, ActorKeepsInv

LEMMA UploadFileKeepsInv ==
  ASSUME DriveInv, NEW c \in Clients, UploadFile(c)
  PROVE  DriveInv'
<1> DEFINE V == [path : Seq(Names) \ {<<>>}, files : SUBSET Names]
<1>1. PICK client : client = clients[c]
  OBVIOUS
<1>2. PICK f \in Head(client.visits).files :
        /\ Added(f, FALSE, client.at)
        /\ clients' = [clients EXCEPT ![c].visits[1].files = @ \ {f}]
  BY <1>1 DEF UploadFile
<1>3. /\ client \in Client /\ ClientOK(client) /\ client.pc = "there" /\ client.op = "upload"
      /\ begun' \in 0..MaxCommands /\ clients \in [Clients -> Client]
  BY <1>1 DEF UploadFile, DriveInv, DriveTypeOK
<1>4. WalkOK(client) /\ client.visits # <<>>
  BY <1>3 DEF ClientOK, WalkOK
<1>5. PICK visits : visits = client.visits
  OBVIOUS
<1>6. visits \in Seq(V) /\ visits # <<>>
  BY <1>3, <1>4, <1>5 DEF Client, Visits
<1>7. Len(visits) \in Nat /\ 1 \in 1..Len(visits) /\ Head(visits) = visits[1] /\ visits[1] \in V
  <2> HIDE DEF V
  <2> QED
    BY <1>6, SeqFacts
<1>8. PICK first : first = [visits[1] EXCEPT !.files = @ \ {f}]
  OBVIOUS
<1>9. first \in V /\ first.path = visits[1].path
  BY <1>7, <1>8
<1>10. PICK later : later = [visits EXCEPT ![1] = first]
  OBVIOUS
<1>11. later \in Seq(V) /\ later # <<>> /\ Head(later) = first
  <2> HIDE DEF V
  <2>1. later \in Seq(V) /\ Len(later) = Len(visits) /\ later[1] = first
    BY <1>6, <1>7, <1>9, <1>10
  <2> QED
    BY <1>7, <2>1
<1>12. PICK next : next = [client EXCEPT !.visits = later]
  OBVIOUS
<1>13. clients' = [clients EXCEPT ![c] = next]
  BY <1>1, <1>2, <1>3, <1>5, <1>8, <1>10, <1>12
<1>14. next \in Client
  BY <1>3, <1>11, <1>12, ClientUpdates DEF Visits
<1>15. /\ next.visits = later /\ next.pc = client.pc /\ next.op = client.op /\ next.cwd = client.cwd
       /\ next.at = client.at /\ next.todo = client.todo
  BY <1>3, <1>12 DEF Client
<1>16. Path(next) = Path(client)
  BY <1>5, <1>7, <1>9, <1>11, <1>15 DEF Path
<1>17. ItemsGoOn /\ nextItem' \in 1..MaxItems + 1
  <2>1. f \in Names /\ client.at \in 0..MaxItems
    BY <1>2, <1>3, <1>5, <1>7, ClientFacts
  <2> QED
    BY <1>2, <2>1, AddedItems
<1>18. WalkOK(next)'
  <2>1. WalkOK(client)'
    BY <1>3, <1>4, <1>17, WalkStays
  <2>2. Walked(next) = Walked(client)
    BY <1>15, <1>16 DEF Walked
  <2>3. Path(next)' = Path(next) /\ Path(client)' = Path(client)
        /\ Walked(next)' = Walked(next) /\ Walked(client)' = Walked(client)
    BY DEF Path, Walked
  <2> QED
    BY <1>11, <1>15, <1>16, <2>1, <2>2, <2>3 DEF WalkOK
<1>19. MissingOK(next)' /\ DownloadOK(next)'
  BY <1>3, <1>15 DEF MissingOK, DownloadOK
<1>20. ClientOK(next)'
  BY <1>18, <1>19 DEF ClientOK
<1> QED
  BY <1>3, <1>13, <1>14, <1>17, <1>20, ActorKeepsInv

\* From the directory that is done to the next one, if nothing is left to download.
LEMMA NextVisitKeepsInv ==
  ASSUME DriveInv, UNCHANGED <<items, nextItem, begun>>, NEW c \in Clients,
         NEW client, client = clients[c], client.pc \in {"there", "fetch"},
         client.op = "download-dir" => \A i \in client.there \cap items : HasCopy(client, i),
         clients' = [clients EXCEPT ![c] = NextVisit(client)]
  PROVE  DriveInv'
<1> DEFINE V == [path : Seq(Names) \ {<<>>}, files : SUBSET Names]
<1>1. /\ client \in Client /\ ClientOK(client) /\ begun' \in 0..MaxCommands
      /\ clients \in [Clients -> Client]
  BY DEF DriveInv, DriveTypeOK
<1>2. /\ client.visits # <<>> /\ client.cwd # Anywhere /\ client.cwd < nextItem
      /\ DownloadOK(client)
  BY <1>1 DEF ClientOK, WalkOK
<1>3. PICK visits : visits = client.visits
  OBVIOUS
<1>4. visits \in Seq(V) /\ visits # <<>>
  BY <1>1, <1>2, <1>3 DEF Client, Visits
<1>5. /\ Len(visits) \in Nat /\ Len(visits) # 0 /\ Tail(visits) \in Seq(V)
      /\ Len(Tail(visits)) = Len(visits) - 1
      /\ \A n \in 1..Len(visits) : visits[n] \in V
      /\ \A n \in 1..Len(visits) - 1 : Tail(visits)[n] = visits[n + 1]
  <2> HIDE DEF V
  <2> QED
    BY <1>4, SeqFacts
<1>6. CASE Len(visits) = 1
  <2>1. NextVisit(client) = [client EXCEPT !.pc = "done"]
    BY <1>3, <1>6 DEF NextVisit
  <2>2. clients' = [clients EXCEPT ![c].pc = "done"]
    BY <2>1
  <2> QED
    BY <2>2, RaiseKeepsInv
<1>7. CASE Len(visits) # 1
  <2>1. 2 \in 1..Len(visits) /\ 1 \in 1..Len(visits) - 1 /\ 1 + 1 = 2
    BY <1>5, <1>7
  <2>2. /\ Tail(visits) # <<>> /\ Head(Tail(visits)) = visits[2]
        /\ visits[2].path \in Seq(Names) /\ visits[2].path # <<>>
        /\ Len(visits[2].path) \in Nat
    <3> HIDE DEF V
    <3>1. Len(Tail(visits)) # 0 /\ visits[2] \in V
      BY <1>5, <1>7
    <3>2. Tail(visits) # <<>>
      <4>1. Len(<<>>) = 0
        OBVIOUS
      <4> QED
        BY <3>1, <4>1
    <3>3. Head(Tail(visits)) = Tail(visits)[1]
      BY <1>5, <3>2, SeqFacts
    <3>4. visits[2].path \in Seq(Names) /\ visits[2].path # <<>>
      BY <3>1 DEF V
    <3>5. Head(Tail(visits)) = visits[2]
      BY <1>5, <2>1, <3>3
    <3>6. Len(visits[2].path) \in Nat
      BY <3>4
    <3> QED
      BY <3>2, <3>4, <3>5, <3>6
  <2>3. PICK next : next = NextVisit(client)
    OBVIOUS
  <2>4. next = [client EXCEPT !.pc = "look", !.visits = Tail(visits), !.at = client.cwd,
                              !.todo = visits[2].path]
    BY <1>3, <1>7, <2>3 DEF NextVisit
  <2>5. next \in Client
    <3>1. client.cwd \in 0..MaxItems /\ Tail(visits) \in Visits
      BY <1>1, <1>5, ClientFacts DEF Visits
    <3>2. [client EXCEPT !.pc = "look"] \in Client
      BY <1>1, ClientUpdates
    <3>3. [client EXCEPT !.pc = "look", !.visits = Tail(visits)] \in Client
      BY <3>1, <3>2, ClientUpdates
    <3>4. [client EXCEPT !.pc = "look", !.visits = Tail(visits), !.at = client.cwd] \in Client
      BY <3>1, <3>3, ClientUpdates
    <3> QED
      BY <2>2, <2>4, <3>4, ClientUpdates
  <2>6. /\ next.pc = "look" /\ next.visits = Tail(visits) /\ next.at = client.cwd
        /\ next.todo = visits[2].path /\ next.cwd = client.cwd /\ next.op = client.op
        /\ next.there = client.there /\ next.local = client.local /\ next.asked = client.asked
    BY <1>1, <2>4 DEF Client
  <2>7. Path(next) = visits[2].path /\ Walked(next) = 0
    BY <2>2, <2>6 DEF Path, Walked
  <2>8. WalkOK(next)
    <3>1. Reaching(Folders(items), {next.cwd}, Path(next))[0] = {next.cwd}
      BY <2>2, <2>7, ReachingSteps
    <3>2. next.at \in Reaching(Folders(items), {next.cwd}, Path(next))[Walked(next)]
      BY <2>6, <2>7, <3>1
    <3>3. /\ \A n \in 1..Len(next.todo) : next.todo[n] = Path(next)[n + Walked(next)]
          /\ Len(next.todo) <= Len(Path(next)) /\ next.todo # <<>>
      BY <2>2, <2>6, <2>7
    <3>4. /\ next.visits # <<>> /\ next.cwd # Anywhere /\ next.cwd < nextItem
          /\ next.at # Anywhere /\ next.at < nextItem /\ next.pc = "look"
      BY <1>2, <2>2, <2>6
    <3> QED
      BY <3>2, <3>3, <3>4 DEF WalkOK
  <2>9. MissingOK(next)
    BY <2>6 DEF MissingOK
  <2>10. DownloadOK(next)
    BY <1>2, <2>6 DEF DownloadOK, HasCopy
  <2>11. ClientOK(next)
    BY <2>8, <2>9, <2>10 DEF ClientOK
  <2> QED
    BY <1>1, <2>3, <2>5, <2>11, ActorKeepsInvAlone
<1> QED
  BY <1>6, <1>7

LEMMA UploadedKeepsInv ==
  ASSUME DriveInv, NEW c \in Clients, Uploaded(c)
  PROVE  DriveInv'
<1>1. PICK client : client = clients[c]
  OBVIOUS
<1>2. /\ client.pc = "there" /\ client.op = "upload" /\ UNCHANGED <<items, nextItem, begun>>
      /\ clients' = [clients EXCEPT ![c] = NextVisit(client)]
  BY <1>1 DEF Uploaded
<1> QED
  BY <1>1, <1>2, NextVisitKeepsInv

\* Nothing that is still there is left when the first directory's list is empty.
LEMMA FetchedAll ==
  ASSUME NEW client, DownloadOK(client), client.op = "download-dir", client.pc = "fetch",
         client.listed = {}, NEW i \in client.there \cap items
  PROVE  HasCopy(client, i)
BY DEF DownloadOK, IsAhead

LEMMA FetchedKeepsInv ==
  ASSUME DriveInv, NEW c \in Clients, Fetched(c)
  PROVE  DriveInv'
<1>1. PICK client : client = clients[c]
  OBVIOUS
<1>2. /\ client.pc = "fetch" /\ client.listed = {} /\ UNCHANGED <<items, nextItem, begun>>
      /\ clients' = [clients EXCEPT ![c] = NextVisit(client)]
  BY <1>1 DEF Fetched
<1>3. DownloadOK(client)
  BY <1>1, <1>2 DEF DriveInv, ClientOK
<1>4. client.op = "download-dir" => \A i \in client.there \cap items : HasCopy(client, i)
  BY <1>2, <1>3, FetchedAll
<1> QED
  BY <1>1, <1>2, <1>4, NextVisitKeepsInv

LEMMA FindFileKeepsInv ==
  ASSUME DriveInv, NEW c \in Clients, FindFile(c)
  PROVE  DriveInv'
<1>1. PICK client : client = clients[c]
  OBVIOUS
<1>2. /\ client \in Client /\ ClientOK(client) /\ client.pc = "there"
      /\ client.op = "download-file" /\ UNCHANGED <<items, nextItem, begun>>
      /\ begun' \in 0..MaxCommands /\ clients \in [Clients -> Client] /\ items \subseteq Item
  BY <1>1 DEF FindFile, DriveInv, DriveTypeOK
<1>3. ASSUME NEW found \in SUBSET items,
             clients' = [clients EXCEPT ![c].pc = "fetch", ![c].listed = found]
      PROVE  DriveInv'
  <2>1. PICK next : next = [client EXCEPT !.pc = "fetch", !.listed = found]
    OBVIOUS
  <2>2. clients' = [clients EXCEPT ![c] = next]
    BY <1>1, <1>2, <1>3, <2>1
  <2>3. next \in Client
    <3>1. [client EXCEPT !.pc = "fetch"] \in Client
      BY <1>2, ClientUpdates
    <3>2. found \in SUBSET Item
      BY <1>2
    <3> QED
      BY <2>1, <3>1, <3>2, ClientUpdates
  <2>4. /\ next.pc = "fetch" /\ next.op = client.op /\ next.visits = client.visits
        /\ next.cwd = client.cwd
    BY <1>2, <2>1 DEF Client
  <2>5. WalkOK(client)
    BY <1>2 DEF ClientOK
  <2>6. WalkOK(next)
    BY <1>2, <2>4, <2>5 DEF WalkOK
  <2>7. MissingOK(next) /\ DownloadOK(next)
    BY <1>2, <2>4 DEF MissingOK, DownloadOK
  <2>8. ClientOK(next)
    BY <2>6, <2>7 DEF ClientOK
  <2> QED
    BY <1>2, <2>2, <2>3, <2>8, ActorKeepsInvAlone
<1>4. ASSUME Raise(c) PROVE DriveInv'
  BY <1>2, <1>4, RaiseKeepsInv DEF Raise
<1>5. \A name : Named(name, client.at) \in SUBSET items
  BY DEF Named
<1> QED
  BY <1>1, <1>3, <1>4, <1>5 DEF FindFile

LEMMA ListDirectoryKeepsInv ==
  ASSUME DriveInv, NEW c \in Clients, ListDirectory(c)
  PROVE  DriveInv'
<1> DEFINE V == [path : Seq(Names) \ {<<>>}, files : SUBSET Names]
<1>1. PICK client : client = clients[c]
  OBVIOUS
<1>2. /\ client \in Client /\ ClientOK(client) /\ client.pc = "there"
      /\ client.op = "download-dir" /\ UNCHANGED <<items, nextItem, begun>>
      /\ begun' \in 0..MaxCommands /\ clients \in [Clients -> Client]
      /\ items \subseteq Item /\ IsFiniteSet(items)
  BY <1>1 DEF ListDirectory, DriveInv, DriveTypeOK, ItemsOK
<1>3. PICK found : found = In(client.at)
  OBVIOUS
<1>4. PICK subs : subs = SubVisits(client, Folders(found))
  OBVIOUS
<1>5. PICK order \in [1..Cardinality(subs) -> subs] :
        clients' = [clients EXCEPT
          ![c].pc = "fetch", ![c].listed = found \ Folders(found),
          ![c].visits = <<Head(@)>> \o order \o Tail(@)]
  BY <1>1, <1>3, <1>4 DEF ListDirectory, Page
<1>6. WalkOK(client) /\ DownloadOK(client)
  BY <1>2 DEF ClientOK
<1>7. client.visits # <<>> /\ client.todo = <<>> /\ client.cwd # Anywhere /\ client.cwd < nextItem
  BY <1>2, <1>6 DEF WalkOK
<1>8. PICK visits : visits = client.visits
  OBVIOUS
<1>9. visits \in Seq(V) /\ visits # <<>>
  BY <1>2, <1>7, <1>8 DEF Client, Visits
<1>10. Head(visits) \in V /\ Tail(visits) \in Seq(V)
  <2> HIDE DEF V
  <2> QED
    BY <1>9, SeqFacts
<1>11. found \subseteq items /\ Folders(found) \subseteq items /\ IsFiniteSet(Folders(found))
  BY <1>2, <1>3, FS_Subset DEF In, Folders
<1>12. subs \subseteq V
  <2>1. \A i \in Folders(found) : i.name \in Names
    BY <1>2, <1>11 DEF Item
  <2>2. \A i \in Folders(found) : /\ Append(Path(client), i.name) \in Seq(Names)
                                  /\ Append(Path(client), i.name) # <<>>
    BY <1>2, <1>7, <2>1, ClientFacts
  <2>3. \A i \in Folders(found) : [path |-> Append(Path(client), i.name), files |-> {}] \in V
    BY <2>2
  <2> QED
    BY <1>4, <2>3 DEF SubVisits, Path
<1>13. Cardinality(subs) \in Nat
  <2> DEFINE visit == [i \in Folders(found) |-> [path |-> Append(Path(client), i.name), files |-> {}]]
  <2>1. visit \in Surjection(Folders(found), subs)
    BY <1>4 DEF Surjection, SubVisits, Path
  <2> HIDE DEF visit
  <2>2. IsFiniteSet(subs)
    BY <1>11, <2>1, FS_Surjection
  <2> QED
    BY <2>2, FS_CardinalityType
<1>14. PICK later : later = <<Head(visits)>> \o order \o Tail(visits)
  OBVIOUS
<1>15. later \in Seq(V) /\ later # <<>> /\ Head(later) = Head(visits)
  <2> HIDE DEF V
  <2>1. order \in Seq(V)
    BY <1>12, <1>13
  <2>2. /\ <<Head(visits)>> \in Seq(V) /\ <<Head(visits)>> # <<>>
        /\ Head(<<Head(visits)>>) = Head(visits)
    BY <1>10
  <2>3. PICK front : front = <<Head(visits)>> \o order
    OBVIOUS
  <2>4. front \in Seq(V) /\ front # <<>> /\ Head(front) = Head(visits)
    BY <2>1, <2>2, <2>3, ConcatFacts
  <2>5. later = front \o Tail(visits)
    BY <1>14, <2>3
  <2> QED
    BY <1>10, <2>4, <2>5, ConcatFacts
<1>16. PICK next : next = [client EXCEPT !.pc = "fetch", !.listed = found \ Folders(found),
                                         !.visits = later]
  OBVIOUS
<1>17. clients' = [clients EXCEPT ![c] = next]
  BY <1>1, <1>2, <1>5, <1>8, <1>14, <1>16 DEF Client
<1>18. next \in Client
  <2>1. [client EXCEPT !.pc = "fetch"] \in Client
    BY <1>2, ClientUpdates
  <2>2. found \ Folders(found) \in SUBSET Item /\ later \in Visits
    BY <1>2, <1>11, <1>15 DEF Visits
  <2>3. [client EXCEPT !.pc = "fetch", !.listed = found \ Folders(found)] \in Client
    BY <2>1, <2>2, ClientUpdates
  <2> QED
    BY <1>16, <2>2, <2>3, ClientUpdates
<1>19. /\ next.pc = "fetch" /\ next.listed = found \ Folders(found) /\ next.visits = later
       /\ next.op = client.op /\ next.cwd = client.cwd /\ next.there = client.there
       /\ next.local = client.local /\ next.asked = client.asked
  BY <1>2, <1>16 DEF Client
<1>20. Path(next) = Path(client)
  BY <1>8, <1>15, <1>19 DEF Path
<1>21. WalkOK(next)
  BY <1>7, <1>15, <1>19 DEF WalkOK
<1>22. DownloadOK(next)
  <2> SUFFICES ASSUME NEW f \in client.there
               PROVE  /\ f.id < nextItem /\ ~f.isFolder
                      /\ f \in items => HasCopy(next, f) \/ IsAhead(next, f)
    BY <1>19 DEF DownloadOK
  <2>1. /\ f.id < nextItem /\ ~f.isFolder
        /\ f \in items => HasCopy(client, f) \/ IsAhead(client, f)
    BY <1>2, <1>6 DEF DownloadOK
  <2>2. HasCopy(client, f) => HasCopy(next, f)
    BY <1>19 DEF HasCopy
  <2>3. ASSUME f \in items, IsAhead(client, f) PROVE IsAhead(next, f)
    <3>1. Path(client) = client.asked /\ f.parent \in FoldersAt({client.at}, <<>>)
      BY <1>2, <1>7, <2>3 DEF IsAhead
    <3>2. FoldersAt({client.at}, <<>>) = {client.at}
      <4>1. Len(<<>>) = 0
        OBVIOUS
      <4> QED
        BY <4>1, ReachingSteps DEF FoldersAt
    <3>3. f \in found \ Folders(found)
      BY <1>3, <2>1, <2>3, <3>1, <3>2 DEF In, Folders
    <3> QED
      BY <1>19, <1>20, <3>1, <3>3 DEF IsAhead
  <2> QED
    BY <2>1, <2>2, <2>3
<1>23. ClientOK(next)
  BY <1>19, <1>21, <1>22 DEF ClientOK, MissingOK
<1> QED
  BY <1>2, <1>17, <1>18, <1>23, ActorKeepsInvAlone

LEMMA FetchFileKeepsInv ==
  ASSUME DriveInv, NEW c \in Clients, FetchFile(c)
  PROVE  DriveInv'
<1>1. PICK client : client = clients[c]
  OBVIOUS
<1>2. /\ client \in Client /\ ClientOK(client) /\ client.pc = "fetch"
      /\ UNCHANGED <<items, nextItem, begun>>
      /\ begun' \in 0..MaxCommands /\ clients \in [Clients -> Client]
  BY <1>1 DEF FetchFile, DriveInv, DriveTypeOK
<1>3. WalkOK(client) /\ DownloadOK(client)
  BY <1>2 DEF ClientOK
<1>4. PICK path : path = Path(client)
  OBVIOUS
<1>5. PICK i \in clients[c].listed :
        clients' = [clients EXCEPT
          ![c].listed = @ \ {i},
          ![c].local = {l \in @ : l.path # Head(clients[c].visits).path \/ l.name # i.name}
                         \cup {[path |-> Head(clients[c].visits).path, name |-> i.name, id |-> i.id]}]
  BY DEF FetchFile
<1>6. PICK copy : copy = [path |-> path, name |-> i.name, id |-> i.id]
  OBVIOUS
<1>7. PICK local : local = {l \in client.local : l.path # path \/ l.name # i.name} \cup {copy}
  OBVIOUS
<1>8. path \in Seq(Names) /\ client.visits # <<>>
  BY <1>2, <1>3, <1>4, ClientFacts DEF WalkOK
<1>9. i \in Item /\ client.local \subseteq Copy /\ client.listed \subseteq Item
  BY <1>1, <1>2, <1>5, ClientFacts
<1>10. local \in SUBSET Copy
  <2>1. copy \in Copy
    BY <1>8, <1>9, <1>6 DEF Copy, Item
  <2> QED
    BY <1>7, <1>9, <2>1
<1>11. PICK next : next = [client EXCEPT !.listed = @ \ {i}, !.local = local]
  OBVIOUS
<1>12. clients' = [clients EXCEPT ![c] = next]
  <2>1. next = [client EXCEPT !.listed = client.listed \ {i}, !.local = local]
    BY <1>2, <1>11 DEF Client
  <2>2. path = Head(clients[c].visits).path
    BY <1>1, <1>4 DEF Path
  <2>3. clients' = [clients EXCEPT ![c] = [client EXCEPT !.listed = client.listed \ {i}, !.local = local]]
    BY <1>1, <1>2, <1>5, <1>6, <1>7, <2>2 DEF Client
  <2> QED
    BY <2>1, <2>3
<1>13. next \in Client
  <2>1. client.listed \ {i} \in SUBSET Item
    BY <1>9
  <2>2. [client EXCEPT !.listed = @ \ {i}] \in Client
    BY <1>2, <2>1, ClientUpdates
  <2> QED
    BY <1>10, <1>11, <2>2, ClientUpdates
<1>14. /\ next.pc = "fetch" /\ next.listed = client.listed \ {i} /\ next.local = local
       /\ next.visits = client.visits /\ next.op = client.op /\ next.cwd = client.cwd
       /\ next.there = client.there /\ next.asked = client.asked
  BY <1>2, <1>11 DEF Client
<1>15. WalkOK(next)
  BY <1>2, <1>3, <1>14 DEF WalkOK
<1>16. \E m \in local : m.path = path /\ m.name = i.name
  BY <1>6, <1>7
<1>17. \A l \in client.local : \E m \in local : m.path = l.path /\ m.name = l.name
  <2> SUFFICES ASSUME NEW l \in client.local
               PROVE  \E m \in local : m.path = l.path /\ m.name = l.name
    OBVIOUS
  <2>1. CASE l.path = path /\ l.name = i.name
    BY <1>16, <2>1
  <2>2. CASE l.path # path \/ l.name # i.name
    BY <1>7, <2>2
  <2> QED
    BY <2>1, <2>2
<1>18. DownloadOK(next)
  <2> SUFFICES ASSUME client.op = "download-dir", NEW f \in client.there
               PROVE  /\ f.id < nextItem /\ ~f.isFolder
                      /\ f \in items => HasCopy(next, f) \/ IsAhead(next, f)
    BY <1>14 DEF DownloadOK
  <2>1. /\ f.id < nextItem /\ ~f.isFolder
        /\ f \in items => HasCopy(client, f) \/ IsAhead(client, f)
    BY <1>3 DEF DownloadOK
  <2>2. HasCopy(client, f) => HasCopy(next, f)
    BY <1>14, <1>17 DEF HasCopy
  <2>3. ASSUME IsAhead(client, f) PROVE HasCopy(next, f) \/ IsAhead(next, f)
    <3>1. path = client.asked /\ f \in client.listed
      BY <1>2, <1>4, <2>3 DEF IsAhead
    <3>2. CASE f = i
      BY <1>14, <1>16, <3>1, <3>2 DEF HasCopy
    <3>3. CASE f # i
      BY <1>4, <1>14, <3>1, <3>3 DEF IsAhead, Path
    <3> QED
      BY <3>2, <3>3
  <2> QED
    BY <2>1, <2>2, <2>3
<1>19. ClientOK(next)
  BY <1>14, <1>15, <1>18 DEF ClientOK, MissingOK
<1> QED
  BY <1>2, <1>12, <1>13, <1>19, ActorKeepsInvAlone

LEMMA DriveNextKeepsInv == DriveInv /\ [DriveNext]_driveVars => DriveInv'
<1> SUFFICES ASSUME DriveInv, [DriveNext]_driveVars PROVE DriveInv'
  OBVIOUS
<1>1. ASSUME NEW c \in Clients, Begin(c) PROVE DriveInv'
  BY <1>1, BeginKeepsInv
<1>2. ASSUME NEW c \in Clients, Look(c) PROVE DriveInv'
  BY <1>2, LookKeepsInv
<1>3. ASSUME NEW c \in Clients, CreateFolder(c) PROVE DriveInv'
  BY <1>3, CreateFolderKeepsInv
<1>4. ASSUME NEW c \in Clients, CreateDirectory(c) PROVE DriveInv'
  BY <1>4, RaiseKeepsInv DEF CreateDirectory
<1>5. ASSUME NEW c \in Clients, DeleteDirectory(c) PROVE DriveInv'
  BY <1>5, DeleteDirectoryKeepsInv
<1>6. ASSUME NEW c \in Clients, UploadFile(c) PROVE DriveInv'
  BY <1>6, UploadFileKeepsInv
<1>7. ASSUME NEW c \in Clients, Uploaded(c) PROVE DriveInv'
  BY <1>7, UploadedKeepsInv
<1>8. ASSUME NEW c \in Clients, FindFile(c) PROVE DriveInv'
  BY <1>8, FindFileKeepsInv
<1>9. ASSUME NEW c \in Clients, ListDirectory(c) PROVE DriveInv'
  BY <1>9, ListDirectoryKeepsInv
<1>10. ASSUME NEW c \in Clients, FetchFile(c) PROVE DriveInv'
  BY <1>10, FetchFileKeepsInv
<1>11. ASSUME NEW c \in Clients, Fetched(c) PROVE DriveInv'
  BY <1>11, FetchedKeepsInv
<1>12. ASSUME NEW c \in Clients, Refused(c) PROVE DriveInv'
  BY <1>12, RaiseKeepsInv DEF Refused, Raise
<1>13. ASSUME NEW c \in Clients, Interrupt(c) PROVE DriveInv'
  BY <1>13, RaiseKeepsInv DEF Interrupt, Raise
<1>14. ASSUME UNCHANGED driveVars PROVE DriveInv'
  <2>1. /\ items' = items /\ nextItem' = nextItem /\ clients' = clients /\ begun' = begun
    BY <1>14 DEF driveVars
  <2>2. DriveTypeOK' /\ ItemsOK'
    BY <2>1, SameItems DEF DriveInv, DriveTypeOK, ItemsGoOn
  <2>3. \A c \in Clients : ClientOK(clients[c])'
    <3> SUFFICES ASSUME NEW c \in Clients PROVE ClientOK(clients[c])'
      OBVIOUS
    <3>1. PICK client : client = clients[c]
      OBVIOUS
    <3>2. client \in Client /\ ClientOK(client) /\ clients'[c] = client
      BY <2>1, <3>1 DEF DriveInv, DriveTypeOK
    <3> QED
      BY <2>1, <3>2, SameItems, ClientStays, ClientPrime
  <2>4. ArrivesWhereAsked'
    BY <2>1 DEF DriveInv, ArrivesWhereAsked, FoldersAt, Exists
  <2> QED
    BY <2>2, <2>3, <2>4 DEF DriveInv
<1> QED
  BY <1>1, <1>2, <1>3, <1>4, <1>5, <1>6, <1>7, <1>8, <1>9, <1>10, <1>11, <1>12, <1>13, <1>14
  DEF DriveNext

-----------------------------------------------------------------------------
(* Theorems about the drive.                                               *)

\* Whatever commands are run at once and interrupted anywhere, and however deep their
\* paths: ids are ids, nothing is in a folder that is gone, and a walk is where the names
\* walked so far lead.
THEOREM DriveInvariant == DriveSpec => []DriveInv
BY InitDrive, DriveNextKeepsInv, PTL DEF DriveSpec

\* A folder is created beside one of its name only if that one was created after the
\* client had looked for it (_get_folder_by_name, then _create_folder).
THEOREM DoubledByRace == DriveSpec => DoubledOnlyByRace
<1>1. DriveInv /\ [DriveNext]_driveVars =>
        [\A c \in Clients :
           LET client == clients[c]
           IN  client.pc = "create" /\ clients'[c].pc \notin {"create", "failed"} =>
                 \A i \in Folders(items) :
                   i.name = Head(client.todo) /\ i.parent = client.at => i.id >= client.looked]_driveVars
  BY DEF DriveInv, ClientOK, MissingOK
<1> QED
  BY <1>1, DriveInvariant, PTL DEF DriveSpec, DoubledOnlyByRace

\* A download of a directory that returned has written every file of the directory that
\* was there when it began and is there when it ended, or one of the same name, though
\* others create and delete meanwhile (download_directory).
THEOREM DownloadsAreComplete == DriveSpec => DownloadIsComplete
<1> DEFINE Complete(c) ==
      clients[c].op = "download-dir" /\ clients[c].pc # "done" /\ clients'[c].pc = "done" =>
        \A i \in clients[c].there \cap items :
          \E l \in clients[c].local : l.path = clients[c].asked /\ l.name = i.name
<1>1. DriveInv /\ [DriveNext]_driveVars => [\A c \in Clients : Complete(c)]_driveVars
  <2> SUFFICES ASSUME DriveInv, DriveNext, NEW c \in Clients,
                      clients[c].op = "download-dir", clients[c].pc # "done",
                      clients'[c].pc = "done", NEW i \in clients[c].there \cap items
               PROVE  \E l \in clients[c].local : l.path = clients[c].asked /\ l.name = i.name
    OBVIOUS
  <2>1. clients \in [Clients -> Client] /\ ClientOK(clients[c])
    BY DEF DriveInv, DriveTypeOK
  <2>2. Fetched(c)
    <3>1. PICK d \in Clients :
            \/ Begin(d) \/ Look(d) \/ CreateFolder(d) \/ CreateDirectory(d) \/ DeleteDirectory(d)
            \/ UploadFile(d) \/ Uploaded(d) \/ FindFile(d) \/ ListDirectory(d) \/ FetchFile(d)
            \/ Fetched(d) \/ Refused(d) \/ Interrupt(d)
      BY DEF DriveNext
    <3>2. CASE Begin(d)
      BY <2>1, <3>2 DEF Begin, Idle
    <3>3. CASE Look(d) \/ CreateFolder(d)
      <4>1. clients[d] \in Client
        BY <2>1
      <4>2. clients'[d].pc # "done"
        <5>1. \A client \in Client : \A id : Reached(client, id).pc \in {client.pc, "there", "look"}
          BY DEF Reached, Client
        <5>2. clients[d].pc \in {"look", "create"} /\ [clients[d] EXCEPT !.pc = "look"] \in Client
          BY <3>3, <4>1, ClientUpdates DEF Look, CreateFolder
        <5>3. CASE CreateFolder(d)
          <6>1. clients'[d] = Reached([clients[d] EXCEPT !.pc = "look"], nextItem)
            BY <2>1, <5>3 DEF CreateFolder
          <6> QED
            BY <5>1, <5>2, <6>1, <4>1 DEF Client
        <5>4. CASE Look(d)
          <6>1. \/ \E id : clients'[d] = Reached(clients[d], id)
                \/ clients'[d].pc \in {"create", "failed"}
            BY <2>1, <4>1, <5>4 DEF Look, Raise, Client
          <6> QED
            BY <5>1, <4>1, <5>2, <6>1
        <5> QED
          BY <3>3, <5>3, <5>4
      <4>3. c # d => clients'[c] = clients[c]
        BY <2>1, <3>3 DEF Look, CreateFolder, Raise
      <4> QED
        BY <4>2, <4>3
    <3>4. CASE CreateDirectory(d) \/ DeleteDirectory(d) \/ UploadFile(d) \/ Uploaded(d)
      <4>1. clients[d].op # "download-dir"
        BY <3>4 DEF CreateDirectory, DeleteDirectory, UploadFile, Uploaded
      <4>2. c # d => clients'[c] = clients[c]
        BY <2>1, <3>4 DEF CreateDirectory, DeleteDirectory, UploadFile, Uploaded
      <4> QED
        BY <4>1, <4>2
    <3>5. CASE FindFile(d) \/ ListDirectory(d) \/ FetchFile(d)
      <4>1. clients[d] \in Client
        BY <2>1
      <4>2. clients'[d].pc \in {"fetch", "failed"}
        <5>1. CASE FindFile(d)
          BY <2>1, <4>1, <5>1 DEF FindFile, Raise, Client
        <5>2. CASE ListDirectory(d)
          BY <2>1, <4>1, <5>2 DEF ListDirectory, Client
        <5>3. CASE FetchFile(d)
          BY <2>1, <4>1, <5>3 DEF FetchFile, Client
        <5> QED
          BY <3>5, <5>1, <5>2, <5>3
      <4>3. c # d => clients'[c] = clients[c]
        BY <2>1, <3>5 DEF FindFile, ListDirectory, FetchFile, Raise
      <4> QED
        BY <4>2, <4>3
    <3>6. CASE Refused(d) \/ Interrupt(d)
      BY <2>1, <3>6 DEF Refused, Interrupt, Raise, Client
    <3>7. CASE Fetched(d)
      BY <2>1, <3>7 DEF Fetched
    <3> QED
      BY <3>1, <3>2, <3>3, <3>4, <3>5, <3>6, <3>7
  <2>3. clients[c].pc = "fetch" /\ clients[c].listed = {}
    BY <2>2 DEF Fetched
  <2>4. DownloadOK(clients[c])
    BY <2>1, <2>3 DEF ClientOK
  <2>5. HasCopy(clients[c], i)
    BY <2>3, <2>4 DEF DownloadOK, IsAhead
  <2> QED
    BY <2>5 DEF HasCopy
<1> QED
  BY <1>1, DriveInvariant, PTL DEF DriveSpec, DownloadIsComplete
=============================================================================
