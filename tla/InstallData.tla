---------------------------- MODULE InstallData ----------------------------
(***************************************************************************)
(* Database.install_data: the rows that a module's csv files describe are  *)
(* inserted or updated, modules in the order of their parents, one         *)
(* transaction per module.  An entry of a file is known by its lation_id.  *)
(* lation_data remembers which rows a table got from files, so that rows   *)
(* whose entries are gone can be deleted; it keeps those of the module     *)
(* that wrote the table last.                                              *)
(*                                                                         *)
(* A foreign key column is known by the table it leads to.  What becomes   *)
(* of a row when the one it refers to is deleted depends on the models'    *)
(* relationships: session.delete takes it along (cascade), sets its key to *)
(* NULL (a backref without cascade), or leaves it, and then PostgreSQL     *)
(* refuses.  The scheduler and the web server run beside the installation  *)
(* and add rows that refer to installed ones: logs of cron jobs, plans of  *)
(* orders, trades of a payment gateway; all of them refuse.                *)
(***************************************************************************)
EXTENDS Naturals, FiniteSets, Sequences

CONSTANTS
  Entries,    \* what the files of all versions contain
  ModuleOf,   \* entry -> the module whose file it is in
  TableOf,    \* entry -> the table
  ForeignOf,  \* entry -> the entries its foreign keys name
  Cascades,   \* keys <<table, target>> whose rows are deleted with what they refer to
  Nullifies,  \* keys <<table, target>> that are set to NULL then
  Referred,   \* tables that logs, orders and trades refer to
  Files,      \* the files <<module, table>> in the order of installation
  Versions,   \* sets of entries that are deployed
  MaxId,      \* rows a table ever gets
  MaxRuns     \* installations altogether

Tables == {Files[i][2] : i \in DOMAIN Files}

\* Tables whose rows are deleted with the row they refer to.
Children == {t \in Tables : \E u \in Tables : <<t, u>> \in Cascades}

ASSUME InstallAssumption ==
  /\ IsFiniteSet(Entries)
  /\ Files \in Seq(STRING \X STRING) /\ Files # <<>>
  /\ \A i, j \in DOMAIN Files : Files[i] = Files[j] => i = j
  /\ \A i, j, k \in DOMAIN Files : \* a module's files stand together
       i <= j /\ j <= k /\ Files[i][1] = Files[k][1] => Files[j][1] = Files[i][1]
  /\ \A e \in Entries : \E i \in DOMAIN Files : Files[i] = <<ModuleOf[e], TableOf[e]>>
  /\ ForeignOf \in [Entries -> SUBSET Entries]
  /\ \A e \in Entries : \A f, g \in ForeignOf[e] : TableOf[f] = TableOf[g] => f = g
  /\ \A e \in Entries : \A f \in ForeignOf[e] : \A i, j \in DOMAIN Files :
       Files[i][2] = TableOf[f] => \* one module installs what is referred to, before
         /\ Files[j][2] = TableOf[f] => i = j
         /\ Files[j] = <<ModuleOf[e], TableOf[e]>> => i < j
  /\ Cascades \subseteq Tables \X Tables
  /\ \A t, u \in Tables : <<t, u>> \in Cascades => u \notin Children
  /\ Referred \subseteq Tables
  /\ Versions \subseteq SUBSET Entries /\ Versions # {}
  /\ MaxId \in Nat /\ MaxRuns \in Nat

VARIABLES
  files,     \* the entries of the deployed version
  rows,      \* table -> committed rows
  known,     \* table -> committed rows of lation_data
  work,      \* rows and known as the session sees them
  idOf,      \* lation_id_map: entry -> id, 0 if absent
  nextId,    \* table -> its sequence
  step,      \* the file being installed, 0 when nothing is
  outcome,   \* how the last installation ended
  used,      \* <<table, id>> that logs and orders refer to
  runs,
  lagging    \* history: tables that this installation found with a sequence
             \* behind the ids that lation_data knows

vars == <<files, rows, known, work, idOf, nextId, step, outcome, used, runs, lagging>>

Committed == [rows |-> rows, known |-> known]

NothingKnown == [e \in Entries |-> 0]

Init ==
  /\ files \in Versions
  /\ rows = [t \in Tables |-> {}]
  /\ known = [t \in Tables |-> {}]
  /\ work = Committed
  /\ idOf = NothingKnown
  /\ nextId = [t \in Tables |-> 1]
  /\ step = 0
  /\ outcome = "none"
  /\ used = {}
  /\ runs = 0
  /\ lagging = {}

Start ==
  /\ step' = 1
  /\ outcome' = "running"
  /\ idOf' = NothingKnown
  /\ runs' = runs + 1
  /\ lagging' = {}

\* `db install-data` of a new process.
Install ==
  /\ step = 0 /\ runs < MaxRuns
  /\ Start
  /\ work' = Committed
  /\ UNCHANGED <<files, rows, known, nextId, used>>

\* `db reset`: everything is dropped and created, then installed.
Reset ==
  /\ step = 0 /\ runs < MaxRuns
  /\ Start
  /\ rows' = [t \in Tables |-> {}]
  /\ known' = [t \in Tables |-> {}]
  /\ work' = [rows |-> rows', known |-> known']
  /\ nextId' = [t \in Tables |-> 1]
  /\ used' = {}
  /\ UNCHANGED files

-----------------------------------------------------------------------------
(* One file.                                                               *)

Table == Files[step][2]
FileEntries == {e \in files : ModuleOf[e] = Files[step][1] /\ TableOf[e] = Table}
IsLastOfModule == step = Len(Files) \/ Files[step + 1][1] # Files[step][1]

\* self.lation_id_map[foreign_lation_id] raises KeyError.
ForeignIsMissing == \E e \in FileEntries : \E f \in ForeignOf[e] : idOf[f] = 0

\* The keys of an entry's row; 0 is NULL, or no key.
ForeignIds(e) ==
  [t \in Tables |-> IF \E f \in ForeignOf[e] : TableOf[f] = t
                    THEN idOf[CHOOSE f \in ForeignOf[e] : TableOf[f] = t]
                    ELSE 0]

\* lation_id_map has the id of a row that was deleted again: the first flush violates
\* the foreign key.
Dangling ==
  \E e \in FileEntries : \E f \in ForeignOf[e] :
    \A r \in work.rows[TableOf[f]] : r.id # idOf[f]

Present(e) == \E r \in work.rows[Table] : r.entry = e
NewEntries == {e \in FileEntries : ~Present(e)}

\* Ids that the flush gives: the sequence, in the order of the file.
NewIds == nextId[Table] .. nextId[Table] + Cardinality(NewEntries) - 1
Insertions ==
  {f \in [NewEntries -> NewIds] : \A d, e \in NewEntries : f[d] = f[e] => d = e}

TakenIds == {id \in NewIds : \E r \in work.rows[Table] : r.id = id}

\* The first flush succeeds.  (MaxId is a bound of the model.)
CanInsert ==
  /\ ~ForeignIsMissing /\ ~Dangling
  /\ TakenIds = {}
  /\ nextId[Table] + Cardinality(NewEntries) <= MaxId + 1

\* Where the sequence may be when the first flush was cut short.
Consumed ==
  {n \in nextId[Table] .. nextId[Table] + Cardinality(NewEntries) :
     n <= MaxId + 1 /\ \A id \in TakenIds : n <= id}

\* The table after the upserts.
Upsert(f) ==
  {IF r.entry \in FileEntries THEN [r EXCEPT !.ref = ForeignIds(r.entry)] ELSE r :
     r \in work.rows[Table]}
  \cup {[entry |-> e, id |-> f[e], ref |-> ForeignIds(e)] : e \in NewEntries}

Keys(table) == {[entry |-> r.entry, id |-> r.id] : r \in table}

\* current_table_lation_id_map
CurrentIds(upserted) == Keys({r \in upserted : r.entry \in FileEntries})

\* Mutant: instances that were found are left out.
UpdatedIdsNewOnly(upserted) ==
  [e \in Entries |-> IF e \in NewEntries
                     THEN (CHOOSE r \in upserted : r.entry = e).id
                     ELSE idOf[e]]

\* lation_id_map after update().
UpdatedIds(upserted) ==
  [e \in Entries |-> IF e \in FileEntries
                     THEN (CHOOSE r \in upserted : r.entry = e).id
                     ELSE idOf[e]]

\* Mutant: lation_data is looked through before lation_id_map is updated.
StaleIdsBefore(ids) == {k.id : k \in {k \in work.known[Table] : idOf[k.entry] = 0}}

\* Rows that came from an entry which no file installed so far has.
StaleIds(ids) == {k.id : k \in {k \in work.known[Table] : ids[k.entry] = 0}}

\* Rows of other tables that session.delete takes along.
ChildrenOf(t, stale) ==
  IF <<t, Table>> \in Cascades THEN {r \in work.rows[t] : r.ref[Table] \in stale} ELSE {}

\* The ids that are deleted from a table.
DoomedIds(t, stale) ==
  IF t = Table THEN stale ELSE {r.id : r \in ChildrenOf(t, stale)}

\* Mutant: the foreign key constraints are not there.
DeletionNeverRefused(stale) == FALSE

\* A foreign key constraint refuses the deletion: that of a log, an order or a trade, or
\* that of an installed row which stays and keeps its key.
DeletionIsRefused(stale) ==
  \E u \in Tables :
    \/ \E id \in DoomedIds(u, stale) : <<u, id>> \in used
    \/ \E t \in Tables : <<t, u>> \notin Cascades \cup Nullifies
         /\ \E r \in work.rows[t] : r.id \notin DoomedIds(t, stale)
                                  /\ r.ref[u] \in DoomedIds(u, stale)

\* A row that stays, with the keys that lead nowhere now set to NULL.
Nullified(r, stale) ==
  [r EXCEPT !.ref = [u \in Tables |-> IF r.ref[u] \in DoomedIds(u, stale)
                                     THEN 0 ELSE r.ref[u]]]

RowsWithout(upserted, stale) ==
  [t \in Tables |->
     {Nullified(r, stale) :
        r \in {r \in IF t = Table THEN upserted ELSE work.rows[t] :
                 r.id \notin DoomedIds(t, stale)}}]

\* setval(max(id) + 1), before the deletions are flushed.
Setval(upserted) ==
  [nextId EXCEPT ![Table] =
     IF upserted = {} THEN 1
     ELSE (CHOOSE r \in upserted : \A s \in upserted : s.id <= r.id).id + 1]

\* lation_data of the table is replaced by what this file has.
Record(upserted) == [work.known EXCEPT ![Table] = CurrentIds(upserted)]

InstallFile ==
  /\ step # 0
  /\ CanInsert
  /\ \E f \in Insertions :
       LET upserted == Upsert(f)
           ids == UpdatedIds(upserted)
           stale == StaleIds(ids)
       IN  /\ ~DeletionIsRefused(stale)
           /\ work' = [rows |-> RowsWithout(upserted, stale), known |-> Record(upserted)]
           /\ idOf' = ids
           /\ nextId' = Setval(upserted)
  /\ IF IsLastOfModule
     THEN rows' = work'.rows /\ known' = work'.known
     ELSE UNCHANGED <<rows, known>>
  /\ IF step = Len(Files)
     THEN step' = 0 /\ outcome' = "done"
     ELSE step' = step + 1 /\ UNCHANGED outcome
  /\ lagging' = lagging \cup
       {t \in {Table} : \E k \in work.known[t] : nextId[t] <= k.id}
  /\ UNCHANGED <<files, used, runs>>

\* The transaction of the module is rolled back, those of its parents and what was
\* done to the sequences stay.
Abandon(how) ==
  /\ step' = 0
  /\ outcome' = how
  /\ work' = Committed
  /\ UNCHANGED <<files, rows, known, idOf, used, runs, lagging>>

KeyError ==
  /\ step # 0
  /\ ForeignIsMissing
  /\ Abandon("raised")
  /\ UNCHANGED nextId

\* The first flush: the sequence gives an id that some row has.
InsertionRefused ==
  /\ step # 0
  /\ ~ForeignIsMissing
  /\ \E id \in TakenIds :
       /\ \A taken \in TakenIds : id <= taken
       /\ nextId' = [nextId EXCEPT ![Table] = id + 1]
  /\ Abandon("raised")

\* The first flush: a key leads nowhere.
ReferenceRefused ==
  /\ step # 0
  /\ ~ForeignIsMissing /\ Dangling
  /\ \E n \in Consumed : nextId' = [nextId EXCEPT ![Table] = n]
  /\ Abandon("raised")

\* The last flush, when the sequence has been set.
DeletionRefused ==
  /\ step # 0
  /\ CanInsert
  /\ \E f \in Insertions :
       /\ DeletionIsRefused(StaleIds(UpdatedIds(Upsert(f))))
       /\ nextId' = Setval(Upsert(f))
  /\ Abandon("raised")

\* The process dies, before the first flush has given all ids, before the sequence of
\* the file's table is set, or after.
Crash ==
  /\ step # 0
  /\ \/ UNCHANGED nextId
     \/ ~ForeignIsMissing /\ \E n \in Consumed : nextId' = [nextId EXCEPT ![Table] = n]
     \/ CanInsert /\ \E f \in Insertions : nextId' = Setval(Upsert(f))
  /\ Abandon("crashed")

-----------------------------------------------------------------------------
(* Beside the installation.                                                *)

\* A cron job is logged, a plan is ordered, a trade is begun.  The row's lock keeps
\* this from one that is being deleted.
Use(t) ==
  /\ \E k \in Keys(rows[t]) \cap Keys(work.rows[t]) :
       /\ <<t, k.id>> \notin used
       /\ used' = used \cup {<<t, k.id>>}
  /\ UNCHANGED <<files, rows, known, work, idOf, nextId, step, outcome, runs, lagging>>

\* A new version is deployed before the next installation.
Release ==
  /\ step = 0
  /\ \E v \in Versions \ {files} : files' = v
  /\ outcome' = "none"
  /\ UNCHANGED <<rows, known, work, idOf, nextId, step, used, runs, lagging>>

Next ==
  \/ Install \/ Reset \/ InstallFile \/ KeyError \/ InsertionRefused
  \/ ReferenceRefused \/ DeletionRefused \/ Crash \/ Release
  \/ \E t \in Referred : Use(t)

Spec == Init /\ [][Next]_vars

-----------------------------------------------------------------------------
(* Properties.                                                             *)

IsShared(t) ==
  \E i, j \in DOMAIN Files : Files[i][2] = t /\ Files[j][2] = t /\ Files[i][1] # Files[j][1]

\* The module whose file is installed into the table last.
LastModule(t) ==
  LET i == CHOOSE i \in DOMAIN Files :
             Files[i][2] = t /\ \A j \in DOMAIN Files : Files[j][2] = t => j <= i
  IN  Files[i][1]

Row == [entry : Entries, id : 1..MaxId, ref : [Tables -> 0..MaxId]]
Known == [entry : Entries, id : 1..MaxId]

TypeOK ==
  /\ files \in Versions
  /\ rows \in [Tables -> SUBSET Row] /\ known \in [Tables -> SUBSET Known]
  /\ work.rows \in [Tables -> SUBSET Row] /\ work.known \in [Tables -> SUBSET Known]
  /\ idOf \in [Entries -> 0..MaxId]
  /\ nextId \in [Tables -> 1..MaxId + 1]
  /\ step \in 0..Len(Files)
  /\ outcome \in {"none", "running", "done", "raised", "crashed"}
  /\ used \subseteq Tables \X (1..MaxId)
  /\ runs \in 0..MaxRuns
  /\ lagging \subseteq Tables

HasKeys(table) == \A r, s \in table : r.id = s.id \/ r.entry = s.entry => r = s

FromLastModule(e) == ModuleOf[e] = LastModule(TableOf[e])

HasRow(table, e) == \E r \in table : r.entry = e

\* ids and lation_ids are keys of every table.
KeysOK(db) ==
  \A t \in Tables : HasKeys(db.rows[t]) /\ \A r \in db.rows[t] : TableOf[r.entry] = t

\* lation_data does not take one row for another, and has those of the last module.
KnownOK(db) ==
  \A t \in Tables : \A r \in db.rows[t] :
    /\ \A k \in db.known[t] : k.id = r.id <=> k.entry = r.entry
    /\ FromLastModule(r.entry) => \E k \in db.known[t] : k.entry = r.entry

\* Foreign keys that are not NULL lead to the rows that the entries name.
ReferencesOK(db) ==
  \A t, u \in Tables : \A r \in db.rows[t] : r.ref[u] # 0 =>
    \E s \in db.rows[u] : s.id = r.ref[u] /\ s.entry \in ForeignOf[r.entry]

HasKey(r) == \A f \in ForeignOf[r.entry] : r.ref[TableOf[f]] # 0

RowsOK(db) == KeysOK(db) /\ KnownOK(db) /\ ReferencesOK(db)

\* After an installation that returned, each entry has its row, and the row's
\* foreign keys are the ids of the rows its entry names.  Rows of entries that are gone
\* are gone, except in a table that several modules install into: of those, only
\* the last module's are.  And a row that was inserted with an id that lation_data
\* still had for an entry that is gone was deleted as that entry's: an abandoned
\* installation has left the sequence behind.
InstalledAsWritten ==
  outcome = "done" =>
    /\ \A e \in files : TableOf[e] \in lagging \/ HasRow(rows[TableOf[e]], e)
    /\ \A t \in Tables : \A r \in rows[t] : r.entry \in files \/ ~FromLastModule(r.entry)
    /\ \A t \in Tables : \A r \in rows[t] : r.entry \in files => HasKey(r)
    /\ ReferencesOK(Committed)

\* Though setval is not rolled back, only a table whose rows are deleted with those
\* they refer to is ever left with a sequence behind its ids.
SequencesOK(db) ==
  \A t \in Tables \ Children :
    /\ \A r \in db.rows[t] : r.id < nextId[t]
    /\ \A k \in db.known[t] : HasRow(db.rows[t], k.entry)

\* Logs and orders refer to rows that are there, and that the session keeps.
UsedOK ==
  \A u \in used : \E r \in rows[u[1]], s \in work.rows[u[1]] :
    r.id = u[2] /\ s.id = u[2] /\ r.entry = s.entry

FileOf(e) == CHOOSE i \in DOMAIN Files : Files[i] = <<ModuleOf[e], TableOf[e]>>
Passed(e) == FileOf(e) < step

\* What the files installed so far have left.
PassedOK ==
  /\ \A e \in Entries : idOf[e] # 0 =>
       /\ e \in files /\ Passed(e)
       /\ \A r \in work.rows[TableOf[e]] : r.entry = e => r.id = idOf[e] /\ HasKey(r)
       /\ ~IsShared(TableOf[e]) =>
            \A r \in work.rows[TableOf[e]] : r.id = idOf[e] => r.entry = e
  /\ \A e \in files : Passed(e) =>
       /\ idOf[e] # 0
       /\ TableOf[e] \in lagging \/ HasRow(work.rows[TableOf[e]], e)
       /\ ForeignOf[e] \subseteq files
  /\ \A i \in DOMAIN Files : i < step =>
       \A r \in work.rows[Files[i][2]] : r.entry \in files \/ ~FromLastModule(r.entry)

\* What the entry's row would be deleted with.
DeletedWith(e) == {f \in ForeignOf[e] : <<TableOf[e], TableOf[f]>> \in Cascades}

\* The row's entry and those it is deleted with are still to be installed, or there.
MayStay(e) ==
  /\ e \in files
  /\ \A f \in DeletedWith(e) : f \in files \/ ~Passed(f)

\* What the session's transaction has left of the committed rows.
WorkOK ==
  \A t \in Tables :
    /\ t \notin Children =>
         \/ \E i \in DOMAIN Files : i < step /\ Files[i] = <<Files[step][1], t>>
         \/ Keys(work.rows[t]) = Keys(rows[t]) /\ work.known[t] = known[t]
    /\ \A r \in work.rows[t] : r.entry \in files \/ HasRow(rows[t], r.entry)
    /\ ~IsShared(t) =>
         /\ \/ \E i \in DOMAIN Files : i < step /\ Files[i][2] = t
            \/ Keys(work.rows[t]) \subseteq Keys(rows[t])
         /\ \A r \in rows[t] : MayStay(r.entry) =>
              \E s \in work.rows[t] : s.entry = r.entry /\ s.id = r.id

\* The type invariant, what holds of every table, committed or not, and how far the
\* installation has come.
IInv ==
  /\ TypeOK
  /\ RowsOK(Committed) /\ RowsOK(work)
  /\ SequencesOK(Committed) /\ SequencesOK(work)
  /\ lagging \subseteq Children
  /\ UsedOK
  /\ IF step = 0 THEN work = Committed ELSE PassedOK /\ WorkOK
  /\ step # 0 <=> outcome = "running"
  /\ InstalledAsWritten

\* A row whose entry is still in the files keeps its id through any number of
\* installations, finished or not, unless several modules install into its table:
\* then each earlier module's pass deletes what the last one's inserted, and commits
\* before that one inserts it anew; or unless an entry it is deleted with is gone from
\* the files of another module, which commits its deletion first.
LostOnlyIfShared ==
  [][step # 0 =>
       \A t \in Tables : \A r \in rows[t] :
         /\ r.entry \in files /\ ~IsShared(t)
         /\ \A f \in DeletedWith(r.entry) : f \in files \/ ModuleOf[f] = ModuleOf[r.entry]
         => \E s \in rows'[t] : s.entry = r.entry /\ s.id = r.id]_vars

\* An installed row refers to one whose entry is gone, by a key that is neither
\* cascaded nor set to NULL: though both entries are gone, what is referred to comes
\* first in the order of the files, and its deletion is refused.
InTheWay(r) ==
  \E f \in ForeignOf[r.entry] \ files :
    <<TableOf[r.entry], TableOf[f]>> \notin Cascades \cup Nullifies

\* An installation raises only if the deployed files miss an entry that is referred to,
\* by one of their own, by a log, an order or a trade, or by an installed row that is
\* in the way; if a table is shared; or if an abandoned installation has left behind
\* the sequence of the table, or of one that the file refers to.
RaisesOnlyForCause ==
  [][step # 0 /\ outcome' = "raised" =>
       \/ \E e \in files : ~(ForeignOf[e] \subseteq files)
       \/ \E u \in used : \E r \in rows[u[1]] : r.id = u[2] /\ r.entry \notin files
       \/ \E t \in Tables : \E r \in rows[t] : InTheWay(r)
       \/ IsShared(Table)
       \/ Table \in Children /\ \E r \in rows[Table] : nextId[Table] <= r.id
       \/ \E e \in FileEntries : \E f \in ForeignOf[e] : TableOf[f] \in lagging]_vars
=============================================================================
