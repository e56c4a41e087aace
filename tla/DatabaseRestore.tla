-------------------------- MODULE DatabaseRestore --------------------------
(***************************************************************************)
(* Database operations: an admin's backups (a dump, then the retention     *)
(* trim) and restores.  A restore dumps the live database first, imports   *)
(* its source into a shadow schema, compares the two lists of tables,      *)
(* exchanges them one RENAME at a time, then drops the replaced copies and *)
(* the shadow schema.                                                      *)
(*                                                                         *)
(* Nothing keeps two operations apart; every statement is a child process  *)
(* that can fail, and the server can die between two.                      *)
(*                                                                         *)
(* A table is <<t>>; the copy of table n that restore o replaces is named  *)
(* Append(n, o) (the "__rb_" suffix).  What a table holds is a version.    *)
(* Backup files are kept from the oldest to the newest by mtime.           *)
(***************************************************************************)
EXTENDS Naturals, Sequences, FiniteSets, SequencesExt

CONSTANTS
  Tables,      \* tables of the running release
  OldTables,   \* tables of the release an old backup was taken from
  Ops,         \* bound: backup and restore requests
  Keep,        \* BACKUP_KEEP_N, 0 keeps all
  Pinned,      \* tables MySQL may refuse to exchange: with a trigger, or with a
               \* named constraint the replaced copy still carries
  References,  \* foreign keys: pairs of a child table and its parent
  MaxWrites,   \* bound: writes by the rest of the application
  MaxFaults,   \* bound: failed child processes and process deaths
  MaxDeletes,  \* bound: files an admin deletes
  NoOp

ASSUME RestoreAssumption ==
  /\ Keep \in Nat /\ MaxWrites \in Nat /\ MaxFaults \in Nat /\ MaxDeletes \in Nat
  /\ NoOp \notin Ops
  /\ Pinned \subseteq Tables /\ References \subseteq Tables \X Tables
  /\ IsFiniteSet(Tables) /\ IsFiniteSet(OldTables)

VARIABLES
  live,      \* the live schema: its tables, and the version each holds
  shadow,    \* the shadow schema of each restore
  files,     \* BACKUP_DIR
  content,   \* what was written to each file
  op,        \* the requests
  writes, faults, deletes,
  want,      \* history: what each restore imported
  since,     \* history: the last write before it began to swap
  disturbed  \* history: requests another one overlapped, a fault hit, or an
             \* admin deleted a file under

history == <<want, since, disturbed>>
vars == <<live, shadow, files, content, op, writes, faults, deletes, want, since, disturbed>>

Empty == [n \in {} |-> 0]
File(tag, o) == [tag |-> tag, by |-> o]
Old == File("old", NoOp)
Good == File("good", NoOp)
Dump(o) == File("dump", o)
Upload(o) == File("upload", o)

Working == {"dump", "trim", "unlink", "schema", "import", "verify", "swap",
            "drop", "dropSchema", "cleanup"}
Shadowing == {"schema", "import", "verify", "swap", "drop", "dropSchema"}
Active(o) == op[o].pc \in Working
Ids == {files[i].id : i \in 1..Len(files)}
Whole(f) == \E i \in 1..Len(files) : files[i].id = f /\ files[i].whole
FileId == {Old, Good} \cup {File(tag, o) : tag \in {"dump", "upload"}, o \in Ops}
Released(S) == [n \in {<<t>> : t \in S} |-> 0]
Without(s, f) ==
  IF \E i \in 1..Len(s) : s[i].id = f
    THEN RemoveAt(s, CHOOSE i \in 1..Len(s) : s[i].id = f)
    ELSE s

Init ==
  /\ live = [n \in {<<t>> : t \in Tables} |-> 1]
  /\ shadow = [o \in Ops |-> Empty]
  /\ files = <<[id |-> Old, whole |-> TRUE], [id |-> Good, whole |-> TRUE]>>
  /\ content = [f \in FileId |-> IF f = Old THEN Released(OldTables)
                                  ELSE IF f.tag = "dump" THEN Empty ELSE Released(Tables)]
  /\ op = [o \in Ops |-> [pc |-> "idle", kind |-> "none", source |-> Good, doomed |-> <<>>,
                           tables |-> {}, todo |-> {}]]
  /\ writes = 1 /\ faults = 0 /\ deletes = 0
  /\ want = [o \in Ops |-> Empty] /\ since = [o \in Ops |-> 0] /\ disturbed = {}

\* Requests still at work overlap the one that starts.
Overlap(o) ==
  LET busy == {p \in Ops : Active(p)}
  IN  disturbed' = IF busy = {} THEN disturbed ELSE disturbed \cup busy \cup {o}

-----------------------------------------------------------------------------
(* createBackup.                                                           *)

\* mysqldump reads one consistent snapshot, taken when it starts; the file is
\* listed from then on, and its mtime is the last write's.
Started(o) == [id |-> Dump(o), whole |-> FALSE]

StartBackup(o) ==
  /\ op[o].pc = "idle"
  /\ op' = [op EXCEPT ![o].pc = "dump", ![o].kind = "backup"]
  /\ files' = Append(files, Started(o)) /\ content' = [content EXCEPT ![Dump(o)] = live]
  /\ Overlap(o)
  /\ UNCHANGED <<live, shadow, writes, faults, deletes, want, since>>

StartRestore(o, f) ==
  /\ op[o].pc = "idle"
  /\ f \in Ids
  /\ op' = [op EXCEPT ![o].pc = "dump", ![o].kind = "restore", ![o].source = f]
  /\ files' = Append(files, Started(o)) /\ content' = [content EXCEPT ![Dump(o)] = live]
  /\ Overlap(o)
  /\ UNCHANGED <<live, shadow, writes, faults, deletes, want, since>>

\* The upload is written into BACKUP_DIR before the token and the confirmation
\* word are looked at; a refused request leaves it there.
StartUpload(o, whole, accepted) ==
  /\ op[o].pc = "idle"
  /\ LET upload == [id |-> Upload(o), whole |-> whole]
     IN  IF accepted
           THEN /\ files' = files \o <<upload, Started(o)>>
                /\ content' = [content EXCEPT ![Dump(o)] = live]
           ELSE files' = Append(files, upload) /\ UNCHANGED content
  /\ op' = [op EXCEPT ![o].pc = IF accepted THEN "dump" ELSE "refused",
                      ![o].kind = "restore", ![o].source = Upload(o)]
  /\ Overlap(o)
  /\ UNCHANGED <<live, shadow, writes, faults, deletes, want, since>>

\* What the route removes once its request is over.
AfterRequest(o) == IF op[o].source = Upload(o) THEN Without(files, Upload(o)) ELSE files

\* The dump's stat throws if the file is gone.
DumpDone(o) ==
  /\ op[o].pc = "dump"
  /\ IF Dump(o) \in Ids
       THEN /\ files' = Append(Without(files, Dump(o)), [id |-> Dump(o), whole |-> TRUE])
            /\ op' = [op EXCEPT ![o].pc = "trim"]
       ELSE /\ files' = AfterRequest(o)
            /\ op' = [op EXCEPT ![o].pc = "failed"]
  /\ UNCHANGED <<live, shadow, content, writes, faults, deletes, history>>

DumpFails(o) ==
  /\ op[o].pc = "dump" /\ faults < MaxFaults
  /\ files' = Without(AfterRequest(o), Dump(o))
  /\ op' = [op EXCEPT ![o].pc = "failed"]
  /\ faults' = faults + 1 /\ disturbed' = disturbed \cup {o}
  /\ UNCHANGED <<live, shadow, content, writes, deletes, want, since>>

Trimmed(o) == IF op[o].kind = "backup" THEN "done" ELSE "schema"

\* Faulty variants of a definition stand just before it; the property named in
\* the comment must tell them apart.
\* The list sorted the other way round: SnapshotAtHand.
DoomedNewest ==
  LET ids == [i \in 1..Len(files) |-> files[i].id]
  IN  IF Keep = 0 \/ Len(files) <= Keep THEN <<>> ELSE SubSeq(ids, Keep + 1, Len(ids))

\* What trimRetainN deletes: all beyond the Keep newest, whoever wrote them and
\* whether or not they are complete, from the newest to the oldest.
Doomed ==
  LET ids == [i \in 1..Len(files) |-> files[i].id]
  IN  IF Keep = 0 \/ Len(files) <= Keep THEN <<>>
      ELSE Reverse(SubSeq(ids, 1, Len(ids) - Keep))

Trim(o) ==
  LET doomed == Doomed
  IN  /\ op[o].pc = "trim"
      /\ op' = [op EXCEPT ![o].pc = IF doomed = <<>> THEN Trimmed(o) ELSE "unlink",
                          ![o].doomed = doomed]
      /\ UNCHANGED <<live, shadow, files, content, writes, faults, deletes, history>>

\* unlink throws on a file another request has removed: the request fails.
Unlink(o) ==
  /\ op[o].pc = "unlink" /\ op[o].doomed # <<>>
  /\ LET f == Head(op[o].doomed)
         rest == Tail(op[o].doomed)
     IN  IF f \in Ids
           THEN /\ files' = Without(files, f)
                /\ op' = [op EXCEPT ![o].pc = IF rest = <<>> THEN Trimmed(o) ELSE "unlink",
                                    ![o].doomed = rest]
           ELSE /\ files' = AfterRequest(o)
                /\ op' = [op EXCEPT ![o].pc = "failed"]
  /\ UNCHANGED <<live, shadow, content, writes, faults, deletes, history>>

-----------------------------------------------------------------------------
(* performRestore, past its snapshot.                                      *)

CreateSchema(o) ==
  /\ op[o].pc = "schema"
  /\ op' = [op EXCEPT ![o].pc = "import"]
  /\ UNCHANGED <<live, shadow, files, content, writes, faults, deletes, history>>

\* gzip fails on a file that is gone or cut short.
Import(o) ==
  /\ op[o].pc = "import"
  /\ LET f == op[o].source
     IN  IF Whole(f)
           THEN /\ shadow' = [shadow EXCEPT ![o] = content[f]]
                /\ want' = [want EXCEPT ![o] = content[f]]
                /\ op' = [op EXCEPT ![o].pc = "verify"]
           ELSE /\ op' = [op EXCEPT ![o].pc = "cleanup"]
                /\ UNCHANGED <<shadow, want>>
  /\ UNCHANGED <<live, files, content, writes, faults, deletes, since, disturbed>>

\* Only the tables' number is compared: HalfwayMeansPinned.
SameCount(o) == Cardinality(DOMAIN shadow[o]) = Cardinality(DOMAIN live)

SameTables(o) ==
  /\ Cardinality(DOMAIN shadow[o]) = Cardinality(DOMAIN live)
  /\ DOMAIN live \subseteq DOMAIN shadow[o]

\* What the loop goes over but for its last table: RestoredInFull.
ListedButOne == DOMAIN live \ {CHOOSE n \in DOMAIN live : TRUE}

Listed == DOMAIN live

Verify(o) ==
  /\ op[o].pc = "verify"
  /\ IF SameTables(o)
       THEN /\ op' = [op EXCEPT ![o].pc = "swap", ![o].tables = Listed, ![o].todo = Listed]
            /\ since' = [since EXCEPT ![o] = writes]
       ELSE /\ op' = [op EXCEPT ![o].pc = "cleanup"]
            /\ UNCHANGED since
  /\ UNCHANGED <<live, shadow, files, content, writes, faults, deletes, want, disturbed>>

\* What RENAME TABLE needs of the names.
CanSwap(o, n) ==
  n \in DOMAIN live /\ n \in DOMAIN shadow[o] /\ Append(n, o) \notin DOMAIN live

\* The live table moves away and its successor comes in two statements, the
\* second when the loop comes back to it: NoTableLost.
SwapInTwo(o, n) ==
  /\ op[o].pc = "swap" /\ n \in op[o].todo
  /\ n \in DOMAIN live
  /\ live' = [m \in (DOMAIN live \cup {Append(n, o)}) \ {n} |->
                IF m = Append(n, o) THEN live[n] ELSE live[m]]
  /\ UNCHANGED <<shadow, op, files, content, writes, faults, deletes, history>>

\* The replaced copy is dropped as soon as it is replaced: Undoable.
SwapAndDrop(o, n) ==
  /\ op[o].pc = "swap" /\ n \in op[o].todo
  /\ live' = [live EXCEPT ![n] = shadow[o][n]]
  /\ op' = IF op[o].todo = {n} THEN [op EXCEPT ![o].pc = "dropSchema", ![o].todo = {}]
           ELSE [op EXCEPT ![o].todo = @ \ {n}]
  /\ UNCHANGED <<shadow, files, content, writes, faults, deletes, history>>

\* The live schema is listed again for the drops: TypeOK.
SwappedRelists(o, n) ==
  IF op[o].todo = {n} THEN [op[o] EXCEPT !.pc = "drop", !.todo = DOMAIN live]
  ELSE [op[o] EXCEPT !.todo = @ \ {n}]

Swapped(o, n) ==
  IF op[o].todo = {n} THEN [op[o] EXCEPT !.pc = "drop", !.todo = op[o].tables]
  ELSE [op[o] EXCEPT !.todo = @ \ {n}]

\* One RENAME of both tables: all or nothing.
Replace(o, n) ==
  /\ CanSwap(o, n)
  /\ live' = [m \in DOMAIN live \cup {Append(n, o)} |->
                IF m = Append(n, o) THEN live[n]
                ELSE IF m = n THEN shadow[o][n] ELSE live[m]]
  /\ shadow' = [shadow EXCEPT ![o] = Restrict(@, DOMAIN @ \ {n})]
  /\ op' = [op EXCEPT ![o] = Swapped(o, n)]

\* A table with a trigger may not change schemas, and two tables of a schema may
\* not have a constraint of one name.  Not every database has them (the trigger
\* is a script run by hand), so a pinned table is refused or not.
RenameRefused(o, n) ==
  /\ CanSwap(o, n) => Head(n) \in Pinned
  /\ op' = [op EXCEPT ![o].pc = "cleanup"]
  /\ UNCHANGED <<live, shadow>>

\* The names go in the order of the list, left open here.
Swap(o, n) ==
  /\ op[o].pc = "swap" /\ n \in op[o].todo
  /\ Replace(o, n) \/ RenameRefused(o, n)
  /\ UNCHANGED <<files, content, writes, faults, deletes, history>>

\* The copy of a child still refers to this one: DROP TABLE refuses the parent.
Referenced(o, n) == \E m \in op[o].todo \ {n} : <<Head(m), Head(n)>> \in References

DropRollback(o, n) ==
  /\ op[o].pc = "drop" /\ n \in op[o].todo
  /\ IF Append(n, o) \in DOMAIN live /\ ~Referenced(o, n)
       THEN /\ live' = Restrict(live, DOMAIN live \ {Append(n, o)})
            /\ op' = [op EXCEPT ![o].todo = @ \ {n},
                                ![o].pc = IF op[o].todo = {n} THEN "dropSchema" ELSE "drop"]
       ELSE /\ op' = [op EXCEPT ![o].pc = "cleanup"]
            /\ UNCHANGED live
  /\ UNCHANGED <<shadow, files, content, writes, faults, deletes, history>>

DropSchema(o) ==
  /\ op[o].pc = "dropSchema"
  /\ shadow' = [shadow EXCEPT ![o] = Empty]
  /\ files' = AfterRequest(o)
  /\ op' = [op EXCEPT ![o].pc = "done"]
  /\ UNCHANGED <<live, content, writes, faults, deletes, history>>

StatementFails(o) ==
  /\ op[o].pc \in Shadowing /\ faults < MaxFaults
  /\ op' = [op EXCEPT ![o].pc = "cleanup"]
  /\ faults' = faults + 1 /\ disturbed' = disturbed \cup {o}
  /\ UNCHANGED <<live, shadow, files, content, writes, deletes, want, since>>

\* The catch: the shadow schema goes, unless MySQL refuses that too (tables moved
\* out of it refer to ones still there), which is ignored; the rollback tables
\* stay.
Cleanup(o) ==
  /\ op[o].pc = "cleanup"
  /\ shadow' = [shadow EXCEPT ![o] = Empty] \/ UNCHANGED shadow
  /\ files' = AfterRequest(o)
  /\ op' = [op EXCEPT ![o].pc = "failed"]
  /\ UNCHANGED <<live, content, writes, faults, deletes, history>>

-----------------------------------------------------------------------------
(* The world around.                                                       *)

\* A rollback tidied up by hand is left out: nothing in the program does it.
Crash ==
  /\ faults < MaxFaults /\ \E o \in Ops : Active(o)
  /\ op' = [o \in Ops |-> IF Active(o) THEN [op[o] EXCEPT !.pc = "lost"] ELSE op[o]]
  /\ faults' = faults + 1 /\ disturbed' = disturbed \cup {o \in Ops : Active(o)}
  /\ UNCHANGED <<live, shadow, files, content, writes, deletes, want, since>>

AppWrite(t) ==
  /\ writes <= MaxWrites
  /\ <<t>> \in DOMAIN live
  /\ writes' = writes + 1
  /\ live' = [live EXCEPT ![<<t>>] = writes + 1]
  /\ UNCHANGED <<shadow, files, content, op, faults, deletes, history>>

DeleteBackup(f) ==
  /\ deletes < MaxDeletes /\ f \in Ids
  /\ files' = Without(files, f)
  /\ deletes' = deletes + 1 /\ disturbed' = disturbed \cup {o \in Ops : Active(o)}
  /\ UNCHANGED <<live, shadow, content, op, writes, faults, want, since>>

Next ==
  \/ \E o \in Ops :
       \/ StartBackup(o)
       \/ \E f \in Ids : StartRestore(o, f)
       \/ \E whole, accepted \in BOOLEAN : StartUpload(o, whole, accepted)
       \/ DumpDone(o) \/ DumpFails(o) \/ Trim(o) \/ Unlink(o)
       \/ CreateSchema(o) \/ Import(o) \/ Verify(o)
       \/ \E n \in op[o].todo : Swap(o, n) \/ DropRollback(o, n)
       \/ DropSchema(o) \/ StatementFails(o) \/ Cleanup(o)
  \/ Crash
  \/ \E t \in Tables : AppWrite(t)
  \/ \E f \in Ids : DeleteBackup(f)

Spec == Init /\ [][Next]_vars

-----------------------------------------------------------------------------
(* Properties.                                                             *)

Pc == Working \cup {"idle", "refused", "done", "failed", "lost"}
Names == Seq(Tables \cup OldTables \cup Ops) \ {<<>>}
Versions == 0..(MaxWrites + 1)
FileEntry == [id : FileId, whole : BOOLEAN]
Request == [pc : Pc, kind : {"none", "backup", "restore"}, source : FileId,
            doomed : Seq(FileId), tables : SUBSET Names, todo : SUBSET Names]
IsData(d) == DOMAIN d \subseteq Names /\ \A n \in DOMAIN d : d[n] \in Versions

\* Every variable stays in its type.
TypeOK ==
  /\ DOMAIN shadow = Ops /\ DOMAIN want = Ops /\ DOMAIN content = FileId
  /\ IsData(live)
  /\ \A o \in Ops : IsData(shadow[o]) /\ IsData(want[o]) /\ op[o].todo \subseteq op[o].tables
  /\ \A f \in FileId : IsData(content[f])
  /\ files \in Seq(FileEntry)
  /\ op \in [Ops -> Request]
  /\ writes \in 1..(MaxWrites + 1) /\ faults \in 0..MaxFaults /\ deletes \in 0..MaxDeletes
  /\ since \in [Ops -> Versions] /\ disturbed \subseteq Ops

Calm(o) == o \notin disturbed

\* The live schema has every table of the release at any moment, through failed
\* statements, crashes and overlapping restores: the application never meets a
\* table that is not there.
NoTableLost == \A t \in Tables : <<t>> \in DOMAIN live

\* Until a restore has exchanged its last table it keeps the copy of every table
\* it replaced, even while another restore moves tables, and so do the restores
\* that ended half-way, by an error or a crash: they can be undone by hand.
Halfway(o) == op[o].pc = "swap" \/ \E n \in op[o].todo : Append(n, o) \notin DOMAIN live

Undoable ==
  \A o \in Ops : Halfway(o) =>
    \A n \in op[o].tables \ op[o].todo : Append(n, o) \in DOMAIN live

\* The content of a restore's source, or a later write of the application.
InPlace(o, n) ==
  /\ n \in DOMAIN live /\ n \in DOMAIN want[o]
  /\ live[n] = want[o][n] \/ live[n] > since[o]

\* A restore that meets an error although no process failed, no other request
\* overlapped it and no file was deleted under it, has replaced none of the live
\* tables or all of them (a DROP was refused), unless it had a pinned table left
\* to exchange: the lists compared before the first RENAME leave no other reason
\* to stop half-way.
HalfwayMeansPinned ==
  \A o \in Ops : op[o].pc = "cleanup" /\ Calm(o) =>
    \/ \A n \in op[o].tables : Append(n, o) \notin DOMAIN live
    \/ \A n \in op[o].tables : InPlace(o, n)
    \/ \E n \in op[o].todo : Head(n) \in Pinned

\* A restore that reports success, with nothing overlapping it, leaves the live
\* schema with the tables of its source and nothing else, each holding what the
\* source held or a later write of the application.
RestoredInFull ==
  [][\A o \in Ops :
       op[o].pc = "dropSchema" /\ op'[o].pc = "done" /\ Calm(o) =>
         /\ DOMAIN live = DOMAIN want[o]
         /\ \A n \in DOMAIN live : InPlace(o, n)]_vars

\* While a restore works on the tables, the complete dump of what they held
\* when it began is in BACKUP_DIR, whatever retention deleted: the only way
\* back once the rollback tables are gone.
SnapshotAtHand ==
  \A o \in Ops : op[o].pc \in Shadowing /\ Calm(o) => op[o].kind = "restore" /\ Whole(Dump(o))

\* What restore.ts says of the snapshot, that it bypasses the retention trim:
\* the source a lone restore is about to import is still there.
SourceKept ==
  \A o \in Ops :
    op[o].pc \in {"schema", "import"} /\ Calm(o) => op[o].source \in Ids
=============================================================================
