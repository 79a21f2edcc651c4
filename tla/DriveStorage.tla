---------------------------- MODULE DriveStorage ----------------------------
(***************************************************************************)
(* The files the team shares on Google Drive through `lation.py            *)
(* google-drive`.  Drive knows items by id and lets two items of a folder  *)
(* have one name; the storage walks paths of names, one query per folder,  *)
(* and creates what is missing of the path of an upload.  Nothing is       *)
(* locked: several people run commands at once.                            *)
(***************************************************************************)
EXTENDS Naturals, Sequences, FiniteSets

CONSTANTS
  Clients,    \* processes of the command line
  Cwd,        \* name of the working directory, --cwd
  Names,      \* names of folders and files
  Commands,   \* [op, visits]; a visit is the path of a directory, with local files
  MaxItems,   \* items that are ever created
  MaxCommands     \* commands altogether

Ops == {"create-dir", "delete-dir", "upload", "download-file", "download-dir"}

Visits == Seq([path : Seq(Names) \ {<<>>}, files : SUBSET Names])

ASSUME DriveAssumption ==
  /\ Cwd \in Names
  /\ MaxItems \in Nat \ {0} /\ MaxCommands \in Nat
  /\ Commands \subseteq [op : Ops, visits : Visits \ {<<>>}]

VARIABLES
  items,     \* what is on the drive
  nextItem,    \* ids grow in the order of creation
  clients,
  begun

driveVars == <<items, nextItem, clients, begun>>

Root == 0        \* the parent of what is in no folder
Anywhere == 0    \* parents=None: the query does not ask for a parent

\* A process.  .visits are the directories it has still to do, the first being done;
\* .todo are the names left of the path to that one, .at is the folder reached on it;
\* .looked is what the next id was when a folder was missing.  .listed are the items to
\* fetch, .local what it wrote to its disk; .asked is the directory of the command, .there
\* the files that were in it when the command began.
Idle ==
  [pc |-> "idle", op |-> "none", visits |-> <<>>, todo |-> <<>>, cwd |-> Anywhere,
   at |-> Anywhere, looked |-> 0, listed |-> {}, local |-> {}, asked |-> <<>>,
   there |-> {}]

DriveInit ==
  /\ items = {[id |-> 1, name |-> Cwd, isFolder |-> TRUE, parent |-> Root]}
  /\ nextItem = 2
  /\ clients = [c \in Clients |-> Idle]
  /\ begun = 0

-----------------------------------------------------------------------------
(* Drive.                                                                  *)

Exists(id) == \E i \in items : i.id = id

In(folder) == {i \in items : i.parent = folder}

\* Mutant: no query asks for the parent.
NamedAnywhere(name, folder) == {i \in items : i.name = name}

\* Mutant: a list of parents is formatted into the query.
NamedInList(name, folder) == {i \in items : i.name = name /\ folder = Anywhere}

\* _list_all_items: one query, every page of it.
Named(name, folder) ==
  {i \in items : i.name = name /\ (folder = Anywhere \/ i.parent = folder)}

Folders(set) == {i \in set : i.isFolder}

\* An item, what is in it, what is in that, ...
Depths(id) ==
  LET depth[n \in 0..MaxItems] ==
        IF n = 0 THEN {i \in items : i.id = id}
        ELSE depth[n - 1] \cup {i \in items : \E p \in depth[n - 1] : i.parent = p.id}
  IN  depth

\* An item with all that is below it.
Below(id) == Depths(id)[MaxItems]

\* files().create; Drive refuses a parent that is gone.
Added(name, isFolder, parent) ==
  /\ Exists(parent) /\ nextItem <= MaxItems
  /\ items' = items \cup {[id |-> nextItem, name |-> name, isFolder |-> isFolder, parent |-> parent]}
  /\ nextItem' = nextItem + 1

-----------------------------------------------------------------------------
(* A command.                                                              *)

Raise(c) == clients' = [clients EXCEPT ![c].pc = "failed"]

\* The folders that each part of a path leads to.
Reaching(folders, start, path) ==
  LET reached[n \in 0..Len(path)] ==
        IF n = 0 THEN start
        ELSE {i.id : i \in {i \in folders : i.name = path[n] /\ i.parent \in reached[n - 1]}}
  IN  reached

\* The folders that a path leads to.
FoldersAt(start, path) == Reaching(Folders(items), start, path)[Len(path)]

\* What may be the working directory.
Cwds == {i.id : i \in {i \in Folders(items) : i.name = Cwd}}

\* What a download should get.
FilesAt(path) == {i \in items : ~i.isFolder /\ i.parent \in FoldersAt(Cwds, path)}

Begin(c) ==
  /\ clients[c].pc \in {"idle", "done", "failed"} /\ begun < MaxCommands
  /\ \E command \in Commands :
       clients' = [clients EXCEPT ![c] =
         [Idle EXCEPT !.pc = "look", !.op = command.op, !.visits = command.visits, !.todo = <<Cwd>>,
                      !.asked = Head(command.visits).path,
                      !.there = FilesAt(Head(command.visits).path)]]
  /\ begun' = begun + 1
  /\ UNCHANGED <<items, nextItem>>

\* The folder that was found is the next one of the path, or the working directory.
Reached(client, id) ==
  IF client.cwd = Anywhere
  THEN [client EXCEPT !.cwd = id, !.at = id, !.todo = Head(client.visits).path]
  ELSE [client EXCEPT !.pc = IF Len(client.todo) = 1 THEN "there" ELSE "look",
                      !.at = id, !.todo = Tail(client.todo)]

\* change_directory creates nothing.
MayCreate(client) == client.cwd # Anywhere /\ client.op \in {"create-dir", "upload"}

\* _get_folder_by_name
Look(c) ==
  LET client == clients[c]
      found == Folders(Named(Head(client.todo), client.at))
  IN  /\ client.pc = "look"
      /\ \/ \E i \in found : found = {i} /\ clients' = [clients EXCEPT ![c] = Reached(client, i.id)]
         \/ /\ found = {} /\ MayCreate(client)
            /\ clients' = [clients EXCEPT ![c].pc = "create", ![c].looked = nextItem]
         \/ found = {} /\ ~MayCreate(client) /\ Raise(c)
         \/ Cardinality(found) > 1 /\ Raise(c)
      /\ UNCHANGED <<items, nextItem, begun>>

CreateFolder(c) ==
  /\ clients[c].pc = "create"
  /\ Added(Head(clients[c].todo), TRUE, clients[c].at)
  /\ clients' = [clients EXCEPT ![c] = Reached([@ EXCEPT !.pc = "look"], nextItem)]
  /\ UNCHANGED begun

\* On with the next directory, from the working directory.
NextVisit(client) ==
  IF Len(client.visits) = 1 THEN [client EXCEPT !.pc = "done"]
  ELSE [client EXCEPT !.pc = "look", !.visits = Tail(@), !.at = client.cwd,
                      !.todo = client.visits[2].path]

CreateDirectory(c) ==
  /\ clients[c].pc = "there" /\ clients[c].op = "create-dir"
  /\ clients' = [clients EXCEPT ![c].pc = "done"]
  /\ UNCHANGED <<items, nextItem, begun>>

DeleteDirectory(c) ==
  /\ clients[c].pc = "there" /\ clients[c].op = "delete-dir"
  /\ Exists(clients[c].at)
  /\ items' = items \ Below(clients[c].at)
  /\ clients' = [clients EXCEPT ![c].pc = "done"]
  /\ UNCHANGED <<nextItem, begun>>

\* A file is created whether or not there is one of its name.
UploadFile(c) ==
  LET files == Head(clients[c].visits).files
  IN  /\ clients[c].pc = "there" /\ clients[c].op = "upload"
      /\ \E f \in files :
           /\ Added(f, FALSE, clients[c].at)
           /\ clients' = [clients EXCEPT ![c].visits[1].files = @ \ {f}]
      /\ UNCHANGED begun

Uploaded(c) ==
  /\ clients[c].pc = "there" /\ clients[c].op = "upload"
  /\ Head(clients[c].visits).files = {}
  /\ clients' = [clients EXCEPT ![c] = NextVisit(@)]
  /\ UNCHANGED <<items, nextItem, begun>>

\* _get_file_by_name.  Folders are not left out: not_mime_type is compared with None.
FindFile(c) ==
  LET wanted == CHOOSE f \in Head(clients[c].visits).files : TRUE
      found == Named(wanted, clients[c].at)
  IN  /\ clients[c].pc = "there" /\ clients[c].op = "download-file"
      /\ IF Cardinality(found) = 1
         THEN clients' = [clients EXCEPT ![c].pc = "fetch", ![c].listed = found]
         ELSE Raise(c)
      /\ UNCHANGED <<items, nextItem, begun>>

\* Mutant: the last page of what the folder has, one item.
LastPage(folder) == {i \in In(folder) : \A j \in In(folder) : j.id <= i.id}

Page(folder) == In(folder)

SubVisits(client, subfolders) ==
  {[path |-> Append(Head(client.visits).path, i.name), files |-> {}] : i \in subfolders}

\* download_directory lists a folder, fetches its files and goes down into its folders,
\* by their names.
ListDirectory(c) ==
  LET client == clients[c]
      found == Page(client.at)
  IN  /\ client.pc = "there" /\ client.op = "download-dir"
      /\ \E order \in [1..Cardinality(SubVisits(client, Folders(found))) ->
                         SubVisits(client, Folders(found))] :
           /\ \A i, j \in DOMAIN order : order[i] = order[j] => i = j
           /\ clients' = [clients EXCEPT
                ![c].pc = "fetch",
                ![c].listed = found \ Folders(found),
                ![c].visits = <<Head(@)>> \o order \o Tail(@)]
      /\ UNCHANGED <<items, nextItem, begun>>

\* The file is opened for writing, over one of the same name.
FetchFile(c) ==
  LET client == clients[c]
      path == Head(client.visits).path
  IN  /\ client.pc = "fetch"
      /\ \E i \in client.listed :
           /\ Exists(i.id) /\ ~i.isFolder
           /\ clients' = [clients EXCEPT
                ![c].listed = @ \ {i},
                ![c].local = {l \in @ : l.path # path \/ l.name # i.name}
                               \cup {[path |-> path, name |-> i.name, id |-> i.id]}]
      /\ UNCHANGED <<items, nextItem, begun>>

Fetched(c) ==
  /\ clients[c].pc = "fetch" /\ clients[c].listed = {}
  /\ clients' = [clients EXCEPT ![c] = NextVisit(@)]
  /\ UNCHANGED <<items, nextItem, begun>>

\* Drive knows no item of that id, or a folder was asked for its content.
Refused(c) ==
  /\ \/ clients[c].pc = "create" /\ ~Exists(clients[c].at)
     \/ /\ clients[c].pc = "there" /\ ~Exists(clients[c].at)
        /\ clients[c].op = "delete-dir" \/ (clients[c].op = "upload" /\ Head(clients[c].visits).files # {})
     \/ clients[c].pc = "fetch" /\ \E i \in clients[c].listed : i.isFolder \/ ~Exists(i.id)
  /\ Raise(c)
  /\ UNCHANGED <<items, nextItem, begun>>

\* The network fails, or the command is interrupted: what it did stays.
Interrupt(c) ==
  /\ clients[c].pc \notin {"idle", "done", "failed"}
  /\ Raise(c)
  /\ UNCHANGED <<items, nextItem, begun>>

DriveNext ==
  \E c \in Clients :
    \/ Begin(c) \/ Look(c) \/ CreateFolder(c) \/ CreateDirectory(c) \/ DeleteDirectory(c)
    \/ UploadFile(c) \/ Uploaded(c) \/ FindFile(c) \/ ListDirectory(c) \/ FetchFile(c)
    \/ Fetched(c) \/ Refused(c) \/ Interrupt(c)

DriveSpec == DriveInit /\ [][DriveNext]_driveVars

-----------------------------------------------------------------------------
(* Properties.                                                             *)

Item == [id : 1..MaxItems, name : Names, isFolder : BOOLEAN, parent : 0..MaxItems]
Copy == [path : Seq(Names), name : Names, id : 1..MaxItems]

Client ==
  [pc : {"idle", "look", "create", "there", "fetch", "done", "failed"},
   op : Ops \cup {"none"}, visits : Visits, todo : Seq(Names), cwd : 0..MaxItems,
   at : 0..MaxItems, looked : 0..MaxItems + 1, listed : SUBSET Item, local : SUBSET Copy,
   asked : Seq(Names), there : SUBSET Item]

DriveTypeOK ==
  /\ items \subseteq Item /\ nextItem \in 1..MaxItems + 1 /\ begun \in 0..MaxCommands
  /\ clients \in [Clients -> Client]

\* Ids are ids, and nothing is in a folder that is gone.
ItemsOK ==
  /\ IsFiniteSet(items)
  /\ \A i, j \in items : i.id = j.id => i = j
  /\ \A i \in items : /\ i.parent < i.id /\ i.id < nextItem
                      /\ i.parent = Root \/ Exists(i.parent)

Path(client) == Head(client.visits).path
Walked(client) == Len(Path(client)) - Len(client.todo)

\* A walk is at a folder the names walked so far lead to from the working directory,
\* unless somebody has deleted it since.
WalkOK(client) ==
  /\ client.visits # <<>>
  /\ client.cwd = Anywhere =>
       client.pc = "look" /\ client.at = Anywhere /\ client.todo = <<Cwd>>
  /\ client.cwd < nextItem
  /\ client.cwd # Anywhere /\ client.pc # "fetch" =>
       /\ client.at # Anywhere /\ client.at < nextItem
       /\ client.pc = "there" <=> client.todo = <<>>
       /\ Len(client.todo) <= Len(Path(client))
       /\ \A n \in 1..Len(client.todo) : client.todo[n] = Path(client)[n + Walked(client)]
       /\ Exists(client.at) =>
            client.at \in Reaching(Folders(items), {client.cwd}, Path(client))[Walked(client)]

\* What a client has found missing came later if it is there.
MissingOK(client) ==
  client.pc = "create" =>
    /\ MayCreate(client) /\ client.looked <= nextItem
    /\ \A i \in Folders(items) :
         i.name = Head(client.todo) /\ i.parent = client.at => i.id >= client.looked

HasCopy(client, i) == \E l \in client.local : l.path = client.asked /\ l.name = i.name

\* The rest of the first walk leads to the file's folder, or the file is listed there.
IsAhead(client, i) ==
  /\ Path(client) = client.asked
  /\ IF client.pc = "fetch" THEN i \in client.listed
     ELSE i.parent \in IF client.cwd = Anywhere THEN FoldersAt(Cwds, client.asked)
                       ELSE FoldersAt({client.at}, client.todo)

\* What was to be downloaded and is still there has been written or will be found.
DownloadOK(client) ==
  client.op = "download-dir" =>
    \A i \in client.there :
      /\ i.id < nextItem /\ ~i.isFolder
      /\ i \in items => HasCopy(client, i) \/ IsAhead(client, i)

\* Of a client whose command is under way.
ClientOK(client) ==
  client.pc \in {"look", "create", "there", "fetch"} =>
    WalkOK(client) /\ MissingOK(client) /\ DownloadOK(client)

\* A walk that has arrived is at a folder the path leads to from the working
\* directory, unless somebody has deleted it since: what is uploaded, deleted or
\* downloaded there is what was asked for.
ArrivesWhereAsked ==
  \A c \in Clients :
    clients[c].pc = "there" /\ Exists(clients[c].at) =>
      clients[c].at \in FoldersAt({clients[c].cwd}, Head(clients[c].visits).path)

\* The type invariant; ids are ids, and nothing is in a folder that is gone; and walks
\* arrive where they should, though they create what others delete.
DriveInv ==
  /\ DriveTypeOK
  /\ ItemsOK
  /\ \A c \in Clients : ClientOK(clients[c])
  /\ ArrivesWhereAsked

\* A folder is created beside one of its name only if that one was created after the
\* client had looked for it: doubled folders, which every later command is refused for,
\* come from two commands at once only.
DoubledOnlyByRace ==
  [][\A c \in Clients :
       LET client == clients[c]
       IN  client.pc = "create" /\ clients'[c].pc \notin {"create", "failed"} =>
             \A i \in Folders(items) :
               i.name = Head(client.todo) /\ i.parent = client.at => i.id >= client.looked]_driveVars

\* A download of a directory that returned has written every file of the directory that
\* was there when it began and is there when it ended, or one of the same name.
DownloadIsComplete ==
  [][\A c \in Clients :
       clients[c].op = "download-dir" /\ clients[c].pc # "done" /\ clients'[c].pc = "done" =>
         \A i \in clients[c].there \cap items :
           \E l \in clients[c].local : l.path = clients[c].asked /\ l.name = i.name]_driveVars
=============================================================================
