----------------------- MODULE DatabaseRestoreProofs -----------------------
(***************************************************************************)
(* Theorems about DatabaseRestore, for any number of tables, requests,     *)
(* faults and files, any retention and every overlap of requests: type     *)
(* correctness, that no table is ever missing from the live schema, and    *)
(* that no replaced copy goes before the last exchange.  For a restore     *)
(* nothing disturbs: its snapshot outlives the retention, it stops between *)
(* two exchanges only with a pinned table left, and success means every    *)
(* table of the source.                                                    *)
(***************************************************************************)
EXTENDS DatabaseRestore, SequenceTheorems, FiniteSetTheorems, TLAPS

\* A rollback name is a name, is no table of the release, and tells the restore
\* that made it.
LEMMA RollbackNames ==
  ASSUME NEW n \in Names, NEW o \in Ops
  PROVE  /\ Append(n, o) \in Names
         /\ \A t : Append(n, o) # <<t>>
         /\ \A m \in Names, p \in Ops : Append(m, p) = Append(n, o) => m = n /\ p = o
<1> DEFINE S == Tables \cup OldTables \cup Ops
<1>1. n \in Seq(S) /\ n # <<>> /\ o \in S BY DEF Names
<1>2. Len(n) \in Nat /\ Len(n) > 0 BY <1>1
<1>3. Append(n, o) \in Seq(S) /\ Len(Append(n, o)) = Len(n) + 1 BY <1>1
<1>4. Append(n, o) # <<>> BY <1>2, <1>3
<1>5. \A t : Append(n, o) # <<t>> BY <1>2, <1>3, SMTT(20)
<1>6. ASSUME NEW m \in Names, NEW p \in Ops, Append(m, p) = Append(n, o)
      PROVE  m = n /\ p = o
  <2>1. m \in Seq(S) /\ p \in S BY DEF Names
  <2>2. Len(Append(m, p)) = Len(m) + 1 BY <2>1
  <2>3. Len(m) = Len(n) BY <2>1, <2>2, <1>2, <1>3, <1>6
  <2>4. p = o
    <3>1. Append(m, p)[Len(m) + 1] = p BY <2>1
    <3>2. Append(n, o)[Len(n) + 1] = o BY <1>1
    <3> QED BY <3>1, <3>2, <2>3, <1>6
  <2>5. \A i \in 1..Len(n) : m[i] = n[i]
    <3>1. \A i \in 1..Len(m) : Append(m, p)[i] = m[i] BY <2>1
    <3>2. \A i \in 1..Len(n) : Append(n, o)[i] = n[i] BY <1>1
    <3> QED BY <3>1, <3>2, <2>3, <1>6
  <2> QED BY <2>1, <2>3, <2>4, <2>5, <1>1
<1> QED BY <1>3, <1>4, <1>5, <1>6 DEF Names

LEMMA TableName == \A t \in Tables \cup OldTables : <<t>> \in Names
BY DEF Names

\* What is left of a sequence without one of its elements.
LEMMA RemoveAtFacts ==
  ASSUME NEW X, NEW s \in Seq(X), NEW i \in 1..Len(s)
  PROVE  /\ RemoveAt(s, i) \in Seq(X)
         /\ Len(RemoveAt(s, i)) = Len(s) - 1
         /\ \A k \in 1..(Len(s) - 1) :
              RemoveAt(s, i)[k] = IF k < i THEN s[k] ELSE s[k + 1]
<1> DEFINE a == SubSeq(s, 1, i - 1)
           b == SubSeq(s, i + 1, Len(s))
<1>1. a \in Seq(X) /\ Len(a) = i - 1 /\ \A k \in 1..(i - 1) : a[k] = s[k]
  <2>1. \A k \in 1..(i - 1) : s[k] \in X OBVIOUS
  <2>2. Len(a) = IF 1 <= i - 1 THEN (i - 1) - 1 + 1 ELSE 0 BY <2>1, SubSeqProperties
  <2> QED BY <2>1, <2>2, SubSeqProperties
<1>2. b \in Seq(X) /\ Len(b) = Len(s) - i /\ \A k \in 1..(Len(s) - i) : b[k] = s[k + i]
  <2>1. \A k \in (i + 1)..Len(s) : s[k] \in X OBVIOUS
  <2>2. Len(b) = IF i + 1 <= Len(s) THEN Len(s) - (i + 1) + 1 ELSE 0 BY <2>1, SubSeqProperties
  <2> QED BY <2>1, <2>2, SubSeqProperties
<1>3. RemoveAt(s, i) = a \o b BY DEF RemoveAt
<1> HIDE DEF a, b
<1>4. /\ a \o b \in Seq(X) /\ Len(a \o b) = Len(a) + Len(b)
      /\ \A k \in 1..(Len(a) + Len(b)) :
           (a \o b)[k] = IF k <= Len(a) THEN a[k] ELSE b[k - Len(a)]
  BY <1>1, <1>2, ConcatProperties
<1>5. ASSUME NEW k \in 1..(Len(s) - 1)
      PROVE  RemoveAt(s, i)[k] = IF k < i THEN s[k] ELSE s[k + 1]
  <2>1. CASE k < i BY <2>1, <1>1, <1>2, <1>3, <1>4
  <2>2. CASE ~(k < i)
    <3>1. k - (i - 1) \in 1..(Len(s) - i) BY <2>2
    <3>2. b[k - (i - 1)] = s[k - (i - 1) + i] BY <3>1, <1>2
    <3> QED BY <2>2, <3>1, <3>2, <1>1, <1>2, <1>3, <1>4
  <2> QED BY <2>1, <2>2
<1> QED BY <1>1, <1>2, <1>3, <1>4, <1>5

\* Removing a file from a directory leaves a directory.
LEMMA WithoutType ==
  ASSUME NEW s \in Seq(FileEntry), NEW f
  PROVE  Without(s, f) \in Seq(FileEntry)
<1>1. CASE \E i \in 1..Len(s) : s[i].id = f
  <2>1. PICK i \in 1..Len(s) : i = CHOOSE j \in 1..Len(s) : s[j].id = f
    BY <1>1
  <2>2. RemoveAt(s, i) \in Seq(FileEntry) BY RemoveAtFacts
  <2> QED BY <1>1, <2>1, <2>2 DEF Without
<1>2. CASE ~\E i \in 1..Len(s) : s[i].id = f
  BY <1>2 DEF Without
<1> QED BY <1>1, <1>2

LEMMA FileIds ==
  /\ Old \in FileId /\ Good \in FileId
  /\ \A o \in Ops : Dump(o) \in FileId /\ Upload(o) \in FileId
BY DEF FileId, Dump, Upload

LEMMA EmptyData == IsData(Empty)
BY DEF IsData, Empty

LEMMA InitType == Init => TypeOK
<1> SUFFICES ASSUME Init PROVE TypeOK OBVIOUS
<1> USE RestoreAssumption
<1>1. IsData(live) BY TableName DEF Init, IsData, Versions
<1>2. \A S : S \subseteq Tables \cup OldTables => IsData(Released(S))
  BY TableName DEF IsData, Released, Versions
<1>3. \A o \in Ops : IsData(shadow[o]) /\ IsData(want[o]) /\ op[o].todo \subseteq op[o].tables
  BY EmptyData DEF Init
<1>4. \A f \in FileId : IsData(content[f])
  BY <1>2, EmptyData DEF Init
<1>5. files \in Seq(FileEntry) BY FileIds DEF Init, FileEntry
<1>6. op \in [Ops -> Request] BY FileIds DEF Init, Request, Pc
<1>7. /\ writes \in 1..(MaxWrites + 1) /\ faults \in 0..MaxFaults /\ deletes \in 0..MaxDeletes
      /\ since \in [Ops -> Versions] /\ disturbed \subseteq Ops
  BY DEF Init, Versions
<1>8. DOMAIN shadow = Ops /\ DOMAIN want = Ops /\ DOMAIN content = FileId BY DEF Init
<1> QED BY <1>1, <1>3, <1>4, <1>5, <1>6, <1>7, <1>8 DEF TypeOK

LEMMA AfterRequestType ==
  ASSUME files \in Seq(FileEntry), NEW o
  PROVE  AfterRequest(o) \in Seq(FileEntry)
BY WithoutType DEF AfterRequest

LEMMA IdsType ==
  ASSUME files \in Seq(FileEntry)
  PROVE  Ids \subseteq FileId
<1> SUFFICES ASSUME NEW i \in 1..Len(files) PROVE files[i].id \in FileId
  BY DEF Ids
<1>1. files[i] \in FileEntry OBVIOUS
<1> QED BY <1>1 DEF FileEntry

LEMMA ReverseType ==
  ASSUME NEW S, NEW s \in Seq(S)
  PROVE  Reverse(s) \in Seq(S)
<1>1. Len(s) \in Nat /\ \A i \in 1..Len(s) : (Len(s) - i) + 1 \in 1..Len(s) OBVIOUS
<1>2. \A i \in 1..Len(s) : s[(Len(s) - i) + 1] \in S BY <1>1
<1> QED BY <1>1, <1>2 DEF Reverse

LEMMA PairType == ASSUME NEW S, NEW a \in S, NEW b \in S PROVE <<a, b>> \in Seq(S)
OBVIOUS

LEMMA AppendType == ASSUME NEW S, NEW s \in Seq(S), NEW a \in S PROVE Append(s, a) \in Seq(S)
OBVIOUS

LEMMA DoomedType ==
  ASSUME files \in Seq(FileEntry)
  PROVE  Doomed \in Seq(FileId)
<1> DEFINE ids == [i \in 1..Len(files) |-> files[i].id]
<1>1. Len(files) \in Nat OBVIOUS
<1>2. \A i \in 1..Len(files) : files[i].id \in FileId BY IdsType DEF Ids
<1>3. ids \in Seq(FileId) /\ Len(ids) = Len(files) BY <1>1, <1>2
<1> HIDE DEF ids
<1>4. SubSeq(ids, 1, Len(ids) - Keep) \in Seq(FileId)
       \/ Keep = 0 \/ Len(files) <= Keep
  <2> SUFFICES ASSUME Len(files) > Keep
      PROVE SubSeq(ids, 1, Len(ids) - Keep) \in Seq(FileId)
    BY <1>1, RestoreAssumption
  <2>1. \A k \in 1..(Len(ids) - Keep) : ids[k] \in FileId BY <1>3, RestoreAssumption
  <2>2. Len(ids) - Keep \in Int BY <1>1, <1>3, RestoreAssumption
  <2> QED BY <2>1, <2>2, SubSeqProperties
<1>5. <<>> \in Seq(FileId) OBVIOUS
<1> QED BY <1>4, <1>5, ReverseType DEF Doomed, ids

-----------------------------------------------------------------------------
(* Type correctness.                                                       *)

TodoListed == \A o \in Ops : op[o].todo \subseteq op[o].tables
WellFormed == op \in [Ops -> Request] /\ TodoListed

LEMMA PutRequest ==
  ASSUME WellFormed, NEW o \in Ops, NEW r \in Request, r.todo \subseteq r.tables,
         op' = [op EXCEPT ![o] = r]
  PROVE  WellFormed'
BY DEF WellFormed, TodoListed

LEMMA PcStep ==
  ASSUME WellFormed, NEW o \in Ops, NEW x \in Pc, op' = [op EXCEPT ![o].pc = x]
  PROVE  WellFormed'
<1>1. op' = [op EXCEPT ![o] = [op[o] EXCEPT !.pc = x]] OBVIOUS
<1>2. op[o] \in Request BY DEF WellFormed
<1>3. [op[o] EXCEPT !.pc = x] \in Request BY <1>2 DEF Request
<1>4. [op[o] EXCEPT !.pc = x].todo \subseteq [op[o] EXCEPT !.pc = x].tables
  BY <1>2 DEF WellFormed, TodoListed, Request
<1> QED BY <1>1, <1>3, <1>4, PutRequest

\* The requests stay well formed.
LEMMA RequestType ==
  ASSUME TypeOK, Next
  PROVE  WellFormed'
<1>a. WellFormed BY DEF TypeOK, WellFormed, TodoListed
<1>b. Ids \subseteq FileId BY IdsType DEF TypeOK
<1>c. DOMAIN live \subseteq Names BY DEF TypeOK, IsData
<1>d. ASSUME NEW o \in Ops PROVE op[o] \in Request /\ op[o].todo \subseteq op[o].tables
  BY <1>a DEF WellFormed, TodoListed
<1>e. {"dump", "trim", "unlink", "schema", "import", "verify", "swap", "drop", "dropSchema",
       "cleanup", "refused", "done", "failed", "lost"} \subseteq Pc
  BY DEF Pc, Working
<1>1. ASSUME NEW o \in Ops, StartBackup(o) PROVE WellFormed'
  <2> DEFINE r == [op[o] EXCEPT !.pc = "dump", !.kind = "backup"]
  <2>1. op' = [op EXCEPT ![o] = r] BY <1>1 DEF StartBackup
  <2>2. r \in Request /\ r.todo \subseteq r.tables BY <1>d, <1>e DEF Request
  <2> QED BY <1>a, <2>1, <2>2, PutRequest
<1>2. ASSUME NEW o \in Ops, NEW f \in Ids, StartRestore(o, f) PROVE WellFormed'
  <2> DEFINE r == [op[o] EXCEPT !.pc = "dump", !.kind = "restore", !.source = f]
  <2>1. op' = [op EXCEPT ![o] = r] BY <1>2 DEF StartRestore
  <2>2. r \in Request /\ r.todo \subseteq r.tables BY <1>b, <1>d, <1>e DEF Request
  <2> QED BY <1>a, <2>1, <2>2, PutRequest
<1>3. ASSUME NEW o \in Ops, NEW whole \in BOOLEAN, NEW accepted \in BOOLEAN,
             StartUpload(o, whole, accepted)
      PROVE  WellFormed'
  <2> DEFINE r == [op[o] EXCEPT !.pc = IF accepted THEN "dump" ELSE "refused",
                                !.kind = "restore", !.source = Upload(o)]
  <2>1. op' = [op EXCEPT ![o] = r] BY <1>3 DEF StartUpload
  <2>2. r \in Request /\ r.todo \subseteq r.tables BY FileIds, <1>d, <1>e DEF Request
  <2> QED BY <1>a, <2>1, <2>2, PutRequest
<1>4. ASSUME NEW o \in Ops, DumpDone(o) \/ DumpFails(o) PROVE WellFormed'
  <2>1. PICK x \in {"trim", "failed"} : op' = [op EXCEPT ![o].pc = x]
    BY <1>4 DEF DumpDone, DumpFails
  <2> QED BY <1>a, <1>e, <2>1, PcStep
<1>5. ASSUME NEW o \in Ops, Trim(o) PROVE WellFormed'
  <2> DEFINE r == [op[o] EXCEPT !.pc = IF Doomed = <<>> THEN Trimmed(o) ELSE "unlink",
                                !.doomed = Doomed]
  <2>1. op' = [op EXCEPT ![o] = r] BY <1>5 DEF Trim
  <2>2. Doomed \in Seq(FileId) BY DoomedType DEF TypeOK
  <2>3. r \in Request /\ r.todo \subseteq r.tables BY <1>d, <1>e, <2>2 DEF Request, Trimmed
  <2> HIDE DEF r
  <2> QED BY <1>a, <2>1, <2>3, PutRequest
<1>6. ASSUME NEW o \in Ops, Unlink(o) PROVE WellFormed'
  <2>1. CASE Head(op[o].doomed) \in Ids
    <3> DEFINE rest == Tail(op[o].doomed)
               r == [op[o] EXCEPT !.pc = IF rest = <<>> THEN Trimmed(o) ELSE "unlink", !.doomed = rest]
    <3>1. op' = [op EXCEPT ![o] = r] BY <1>6, <2>1 DEF Unlink
    <3>2. op[o].doomed \in Seq(FileId) /\ op[o].doomed # <<>>
      BY <1>d, <1>6 DEF Unlink, Request
    <3>3. rest \in Seq(FileId) BY <3>2
    <3> HIDE DEF rest
    <3>4. r \in Request /\ r.todo \subseteq r.tables BY <1>d, <1>e, <3>3 DEF Request, Trimmed
    <3> QED BY <1>a, <3>1, <3>4, PutRequest
  <2>2. CASE Head(op[o].doomed) \notin Ids
    <3>1. op' = [op EXCEPT ![o].pc = "failed"] BY <1>6, <2>2 DEF Unlink
    <3> QED BY <1>a, <1>e, <3>1, PcStep
  <2> QED BY <2>1, <2>2
<1>7. ASSUME NEW o \in Ops, CreateSchema(o) \/ Import(o) \/ DropSchema(o) \/ StatementFails(o) \/ Cleanup(o)
      PROVE  WellFormed'
  <2>1. PICK x \in {"import", "verify", "cleanup", "done", "failed"} : op' = [op EXCEPT ![o].pc = x]
    BY <1>7 DEF CreateSchema, Import, DropSchema, StatementFails, Cleanup
  <2> QED BY <1>a, <1>e, <2>1, PcStep
<1>8. ASSUME NEW o \in Ops, Verify(o) PROVE WellFormed'
  <2>1. CASE SameTables(o)
    <3> DEFINE r == [op[o] EXCEPT !.pc = "swap", !.tables = Listed, !.todo = Listed]
    <3>1. op' = [op EXCEPT ![o] = r] BY <1>8, <2>1 DEF Verify
    <3>2. r \in Request /\ r.todo \subseteq r.tables BY <1>c, <1>d, <1>e DEF Request, Listed
    <3> QED BY <1>a, <3>1, <3>2, PutRequest
  <2>2. CASE ~SameTables(o)
    <3>1. op' = [op EXCEPT ![o].pc = "cleanup"] BY <1>8, <2>2 DEF Verify
    <3> QED BY <1>a, <1>e, <3>1, PcStep
  <2> QED BY <2>1, <2>2
<1>9. ASSUME NEW o \in Ops, NEW n \in op[o].todo, Swap(o, n) PROVE WellFormed'
  <2>1. CASE Replace(o, n)
    <3>1. op' = [op EXCEPT ![o] = Swapped(o, n)] BY <2>1 DEF Replace
    <3>2. Swapped(o, n) \in Request /\ Swapped(o, n).todo \subseteq Swapped(o, n).tables
      BY <1>d, <1>e DEF Request, Swapped
    <3> QED BY <1>a, <3>1, <3>2, PutRequest
  <2>2. CASE RenameRefused(o, n)
    <3>1. op' = [op EXCEPT ![o].pc = "cleanup"] BY <2>2 DEF RenameRefused
    <3> QED BY <1>a, <1>e, <3>1, PcStep
  <2> QED BY <1>9, <2>1, <2>2 DEF Swap
<1>10. ASSUME NEW o \in Ops, NEW n \in op[o].todo, DropRollback(o, n) PROVE WellFormed'
  <2>1. CASE Append(n, o) \in DOMAIN live /\ ~Referenced(o, n)
    <3> DEFINE r == [op[o] EXCEPT !.todo = @ \ {n},
                                  !.pc = IF op[o].todo = {n} THEN "dropSchema" ELSE "drop"]
    <3>1. op' = [op EXCEPT ![o] = r] BY <1>10, <2>1 DEF DropRollback
    <3>2. r \in Request /\ r.todo \subseteq r.tables BY <1>d, <1>e DEF Request
    <3> QED BY <1>a, <3>1, <3>2, PutRequest
  <2>2. CASE ~(Append(n, o) \in DOMAIN live /\ ~Referenced(o, n))
    <3>1. op' = [op EXCEPT ![o].pc = "cleanup"] BY <1>10, <2>2 DEF DropRollback
    <3> QED BY <1>a, <1>e, <3>1, PcStep
  <2> QED BY <2>1, <2>2
<1>11. ASSUME Crash PROVE WellFormed'
  <2>1. op' = [o \in Ops |-> IF Active(o) THEN [op[o] EXCEPT !.pc = "lost"] ELSE op[o]]
    BY <1>11 DEF Crash
  <2>2. ASSUME NEW o \in Ops PROVE op'[o] \in Request /\ op'[o].todo \subseteq op'[o].tables
    BY <1>d, <1>e, <2>1 DEF Request
  <2> QED BY <2>1, <2>2 DEF WellFormed, TodoListed
<1>12. ASSUME UNCHANGED op PROVE WellFormed'
  BY <1>a, <1>12 DEF WellFormed, TodoListed
<1> QED BY <1>1, <1>2, <1>3, <1>4, <1>5, <1>6, <1>7, <1>8, <1>9, <1>10, <1>11, <1>12
        DEF Next, AppWrite, DeleteBackup

\* The directory stays one.
LEMMA DirectoryType ==
  ASSUME TypeOK, Next
  PROVE  files' \in Seq(FileEntry)
<1>a. files \in Seq(FileEntry) BY DEF TypeOK
<1>b. \A o : AfterRequest(o) \in Seq(FileEntry) BY <1>a, AfterRequestType
<1>c. \A f : Without(files, f) \in Seq(FileEntry) BY <1>a, WithoutType
<1>d. \A o \in Ops : Started(o) \in FileEntry /\ [id |-> Dump(o), whole |-> TRUE] \in FileEntry
  BY FileIds DEF Started, FileEntry
<1>1. ASSUME NEW o \in Ops, StartBackup(o) \/ \E f \in Ids : StartRestore(o, f)
      PROVE  files' \in Seq(FileEntry)
  <2>1. files' = Append(files, Started(o)) BY <1>1 DEF StartBackup, StartRestore
  <2> QED BY <1>a, <1>d, <2>1, AppendType
<1>2. ASSUME NEW o \in Ops, NEW whole \in BOOLEAN, NEW accepted \in BOOLEAN,
             StartUpload(o, whole, accepted)
      PROVE  files' \in Seq(FileEntry)
  <2> DEFINE upload == [id |-> Upload(o), whole |-> whole]
  <2>1. upload \in FileEntry BY FileIds DEF FileEntry
  <2>2. files' = files \o <<upload, Started(o)>> \/ files' = Append(files, upload)
    BY <1>2 DEF StartUpload
  <2>3. <<upload, Started(o)>> \in Seq(FileEntry) BY <1>d, <2>1, PairType
  <2> HIDE DEF upload
  <2>4. CASE files' = files \o <<upload, Started(o)>>
    BY <1>a, <2>3, <2>4
  <2>5. CASE files' = Append(files, upload)
    BY <1>a, <2>1, <2>5, AppendType
  <2> QED BY <2>2, <2>4, <2>5
<1>3. ASSUME NEW o \in Ops, DumpDone(o) PROVE files' \in Seq(FileEntry)
  <2>1. \/ files' = Append(Without(files, Dump(o)), [id |-> Dump(o), whole |-> TRUE])
        \/ files' = AfterRequest(o)
    BY <1>3 DEF DumpDone
  <2>2. Append(Without(files, Dump(o)), [id |-> Dump(o), whole |-> TRUE]) \in Seq(FileEntry)
    BY <1>c, <1>d, AppendType
  <2> QED BY <1>b, <2>1, <2>2
<1>4. ASSUME NEW o \in Ops, DumpFails(o) PROVE files' \in Seq(FileEntry)
  <2>1. files' = Without(AfterRequest(o), Dump(o)) BY <1>4 DEF DumpFails
  <2> QED BY <1>b, <2>1, WithoutType
<1>5. ASSUME NEW o \in Ops, Unlink(o) PROVE files' \in Seq(FileEntry)
  BY <1>5, <1>b, <1>c DEF Unlink
<1>6. ASSUME NEW o \in Ops, DropSchema(o) \/ Cleanup(o) PROVE files' \in Seq(FileEntry)
  BY <1>6, <1>b DEF DropSchema, Cleanup
<1>7. ASSUME NEW f \in Ids, DeleteBackup(f) PROVE files' \in Seq(FileEntry)
  BY <1>7, <1>c DEF DeleteBackup
<1>8. ASSUME UNCHANGED files PROVE files' \in Seq(FileEntry)
  BY <1>8, <1>a
<1> QED BY ZenonT(40), <1>1, <1>2, <1>3, <1>4, <1>5, <1>6, <1>7, <1>8
        DEF Next, Trim, CreateSchema, Import, Verify, Swap, DropRollback, StatementFails, Crash, AppWrite

\* Whatever is copied, every copy holds versions under names.
DataType == /\ DOMAIN shadow = Ops /\ DOMAIN want = Ops /\ DOMAIN content = FileId
            /\ IsData(live)
            /\ \A o \in Ops : IsData(shadow[o]) /\ IsData(want[o])
            /\ \A f \in FileId : IsData(content[f])

LEMMA CopiesType ==
  ASSUME TypeOK, Next
  PROVE  DataType'
<1>a. DataType BY DEF TypeOK, DataType
<1>b. writes \in 1..(MaxWrites + 1) BY DEF TypeOK
<1>1. ASSUME NEW o \in Ops, \/ StartBackup(o) \/ \E f \in Ids : StartRestore(o, f)
                            \/ \E whole, accepted \in BOOLEAN : StartUpload(o, whole, accepted)
      PROVE  DataType'
  <2>1. /\ content' = [content EXCEPT ![Dump(o)] = live] \/ UNCHANGED content
        /\ UNCHANGED <<live, shadow, want>>
    BY <1>1 DEF StartBackup, StartRestore, StartUpload
  <2>2. ASSUME NEW f \in FileId PROVE content'[f] = content[f] \/ content'[f] = live
    BY <1>a, <2>1 DEF DataType
  <2>3. DOMAIN content' = FileId BY <1>a, <2>1 DEF DataType
  <2> QED BY <2>3, <1>a, <2>1, <2>2 DEF DataType, IsData
<1>2. ASSUME NEW o \in Ops, Import(o) PROVE DataType'
  <2>1. op[o].source \in FileId BY DEF TypeOK, Request
  <2>2. UNCHANGED <<live, content>> BY <1>2 DEF Import
  <2>3. ASSUME NEW p \in Ops
        PROVE  /\ shadow'[p] = shadow[p] \/ shadow'[p] = content[op[o].source]
               /\ want'[p] = want[p] \/ want'[p] = content[op[o].source]
    BY <1>a, <1>2 DEF Import, DataType
  <2>4. DOMAIN shadow' = Ops /\ DOMAIN want' = Ops BY <1>a, <1>2 DEF Import, DataType
  <2> QED BY <2>4, <1>a, <2>1, <2>2, <2>3 DEF DataType, IsData
<1>3. ASSUME NEW o \in Ops, NEW n \in op[o].todo, Swap(o, n) PROVE DataType'
  <2>1. CASE Replace(o, n)
    <3>0. n \in Names /\ o \in Ops /\ Append(n, o) \in Names
      BY RollbackNames DEF TypeOK, Request
    <3>1. live' = [m \in DOMAIN live \cup {Append(n, o)} |->
                     IF m = Append(n, o) THEN live[n]
                     ELSE IF m = n THEN shadow[o][n] ELSE live[m]]
      BY <2>1 DEF Replace
    <3>2. IsData(live') BY <1>a, <2>1, <3>0, <3>1 DEF DataType, IsData, Replace, CanSwap
    <3>3. shadow' = [shadow EXCEPT ![o] = Restrict(shadow[o], DOMAIN shadow[o] \ {n})]
      BY <2>1 DEF Replace
    <3>4. ASSUME NEW p \in Ops PROVE IsData(shadow'[p])
      <4>1. shadow'[p] = shadow[p] \/ shadow'[p] = Restrict(shadow[p], DOMAIN shadow[p] \ {n})
        BY <1>a, <3>3 DEF DataType
      <4> QED BY <1>a, <4>1 DEF DataType, IsData, Restrict
    <3>5. UNCHANGED <<content, want>> BY <1>3 DEF Swap, history
    <3>6. DOMAIN shadow' = Ops BY <1>a, <3>3 DEF DataType
    <3> QED BY <1>a, <3>6, <3>2, <3>4, <3>5 DEF DataType, IsData
  <2>2. CASE RenameRefused(o, n)
    <3>1. UNCHANGED <<live, shadow, content, want>> BY <1>3, <2>2 DEF Swap, RenameRefused, history
    <3> QED BY <1>a, <3>1 DEF DataType, IsData
  <2> QED BY <1>3, <2>1, <2>2 DEF Swap
<1>4. ASSUME NEW o \in Ops, NEW n \in op[o].todo, DropRollback(o, n) PROVE DataType'
  <2>1. live' = Restrict(live, DOMAIN live \ {Append(n, o)}) \/ UNCHANGED live
    BY <1>4 DEF DropRollback
  <2>2. IsData(live') BY <1>a, <2>1 DEF DataType, IsData, Restrict
  <2>3. UNCHANGED <<shadow, content, want>> BY <1>4 DEF DropRollback, history
  <2> QED BY <1>a, <2>2, <2>3 DEF DataType, IsData
<1>5. ASSUME NEW o \in Ops, DropSchema(o) \/ Cleanup(o) PROVE DataType'
  <2>1. /\ UNCHANGED <<live, content, want>>
        /\ shadow' = [shadow EXCEPT ![o] = Empty] \/ UNCHANGED shadow
    BY <1>5 DEF DropSchema, Cleanup, history
  <2>2. DOMAIN shadow' = Ops BY <1>a, <2>1 DEF DataType
  <2>3. ASSUME NEW p \in Ops PROVE IsData(shadow'[p])
    <3>1. shadow'[p] = shadow[p] \/ shadow'[p] = Empty BY <1>a, <2>1 DEF DataType
    <3> QED BY <1>a, <3>1, EmptyData DEF DataType
  <2> QED BY <1>a, <2>1, <2>2, <2>3 DEF DataType, IsData
<1>6. ASSUME NEW t \in Tables, AppWrite(t) PROVE DataType'
  <2>1. live' = [live EXCEPT ![<<t>>] = writes + 1] /\ writes + 1 \in Versions
    BY <1>6, <1>b, RestoreAssumption DEF AppWrite, Versions
  <2>2. IsData(live') BY <1>a, <2>1 DEF DataType, IsData
  <2>3. UNCHANGED <<shadow, content, want>> BY <1>6 DEF AppWrite, history
  <2> QED BY <1>a, <2>2, <2>3 DEF DataType, IsData
<1>7. ASSUME UNCHANGED <<live, shadow, content, want>> PROVE DataType'
  BY <1>7, <1>a DEF DataType, IsData
<1> QED BY <1>1, <1>2, <1>3, <1>4, <1>5, <1>6, <1>7
        DEF Next, DumpDone, DumpFails, Trim, Unlink, CreateSchema, Verify, StatementFails, Crash,
            DeleteBackup, history

LEMMA CountersType ==
  ASSUME TypeOK, Next
  PROVE  /\ writes' \in 1..(MaxWrites + 1) /\ faults' \in 0..MaxFaults /\ deletes' \in 0..MaxDeletes
         /\ since' \in [Ops -> Versions] /\ disturbed' \subseteq Ops
<1> USE RestoreAssumption DEF TypeOK, history
<1>1. ASSUME NEW o \in Ops, \/ StartBackup(o) \/ \E f \in Ids : StartRestore(o, f)
                            \/ \E whole, accepted \in BOOLEAN : StartUpload(o, whole, accepted)
      PROVE  disturbed' \subseteq Ops /\ UNCHANGED <<writes, faults, deletes, since>>
  BY <1>1 DEF StartBackup, StartRestore, StartUpload, Overlap
<1>2. ASSUME NEW o \in Ops, DumpFails(o) \/ StatementFails(o)
      PROVE  /\ disturbed' \subseteq Ops /\ faults' \in 0..MaxFaults /\ UNCHANGED <<writes, deletes, since>>
  BY <1>2 DEF DumpFails, StatementFails
<1>3. ASSUME NEW o \in Ops, Verify(o)
      PROVE  since' \in [Ops -> Versions] /\ UNCHANGED <<writes, faults, deletes, disturbed>>
  <2>1. writes \in Versions BY DEF Versions
  <2> QED BY <1>3, <2>1 DEF Verify
<1>4. ASSUME Crash
      PROVE  disturbed' \subseteq Ops /\ faults' \in 0..MaxFaults /\ UNCHANGED <<writes, deletes, since>>
  BY <1>4 DEF Crash
<1>5. ASSUME NEW t \in Tables, AppWrite(t)
      PROVE  writes' \in 1..(MaxWrites + 1) /\ UNCHANGED <<faults, deletes, since, disturbed>>
  BY <1>5 DEF AppWrite
<1>6. ASSUME NEW f \in Ids, DeleteBackup(f)
      PROVE  disturbed' \subseteq Ops /\ deletes' \in 0..MaxDeletes /\ UNCHANGED <<writes, faults, since>>
  BY <1>6 DEF DeleteBackup
<1>7. ASSUME NEW o \in Ops, \/ DumpDone(o) \/ Trim(o) \/ Unlink(o) \/ CreateSchema(o) \/ Import(o)
                            \/ DropSchema(o) \/ Cleanup(o)
                            \/ \E n \in op[o].todo : Swap(o, n) \/ DropRollback(o, n)
      PROVE  UNCHANGED <<writes, faults, deletes, since, disturbed>>
  BY <1>7 DEF DumpDone, Trim, Unlink, CreateSchema, Import, DropSchema, Cleanup, Swap, DropRollback
<1> QED BY <1>1, <1>2, <1>3, <1>4, <1>5, <1>6, <1>7 DEF Next

LEMMA NextType == TypeOK /\ [Next]_vars => TypeOK'
<1>1. ASSUME TypeOK, Next PROVE TypeOK'
  <2>1. WellFormed' BY <1>1, RequestType
  <2>2. files' \in Seq(FileEntry) BY <1>1, DirectoryType
  <2>3. DataType' BY <1>1, CopiesType
  <2> QED BY <1>1, <2>1, <2>2, <2>3, CountersType DEF TypeOK, WellFormed, TodoListed, DataType
<1>2. ASSUME TypeOK, UNCHANGED vars PROVE TypeOK'
  BY <1>2 DEF vars, TypeOK, IsData
<1> QED BY <1>1, <1>2

\* Every variable of DatabaseRestore keeps its type in every behaviour.
THEOREM RestoreTypeOK == Spec => []TypeOK
BY InitType, NextType, PTL DEF Spec

-----------------------------------------------------------------------------
(* No table is lost, and every copy stays until the last exchange.         *)

\* The copies a restore has yet to drop are there.
CopiesToDrop ==
  \A o \in Ops : op[o].pc = "drop" => \A n \in op[o].todo : Append(n, o) \in DOMAIN live

Safe == NoTableLost /\ Undoable /\ CopiesToDrop
IInv == TypeOK /\ Safe

LEMMA InitSafe == Init => IInv
<1>1. Init => NoTableLost BY DEF Init, NoTableLost
<1>2. Init => Undoable /\ CopiesToDrop BY DEF Init, Undoable, CopiesToDrop
<1> QED BY <1>1, <1>2, InitType DEF IInv, Safe

\* No request comes to swap or to drop, or has its work changed.
Kept == \A p \in Ops : /\ op'[p].tables = op[p].tables /\ op'[p].todo = op[p].todo
                       /\ op'[p].pc \in {"swap", "drop"} => op'[p].pc = op[p].pc

\* Such a step keeps what is claimed if it takes no name from the live schema.
LEMMA LiveAlone ==
  ASSUME Safe, DOMAIN live \subseteq DOMAIN live', Kept
  PROVE  Safe'
<1>1. ASSUME NEW p \in Ops, Halfway(p)' PROVE Halfway(p)
  BY <1>1 DEF Kept, Halfway
<1>2. NoTableLost' BY DEF Safe, NoTableLost
<1>3. Undoable'
  <2> SUFFICES ASSUME NEW p \in Ops, Halfway(p)', NEW n \in op'[p].tables \ op'[p].todo
               PROVE  Append(n, p) \in DOMAIN live'
    BY DEF Undoable
  <2>1. Halfway(p) /\ n \in op[p].tables \ op[p].todo BY <1>1 DEF Kept
  <2> QED BY <2>1 DEF Safe, Undoable
<1>4. CopiesToDrop' BY DEF Safe, CopiesToDrop, Kept
<1> QED BY <1>2, <1>3, <1>4 DEF Safe

LEMMA NextSafe == IInv /\ [Next]_vars => IInv'
<1> SUFFICES ASSUME IInv, [Next]_vars PROVE IInv' OBVIOUS
<1>a. TypeOK /\ Safe BY DEF IInv
<1>b. TypeOK' BY <1>a, NextType
<1>c. \A p \in Ops : op[p] \in Request BY <1>a DEF TypeOK
<1>d. op \in [Ops -> Request] BY <1>a DEF TypeOK
<1>e. \A p \in Ops : op[p].todo \subseteq op[p].tables /\ op[p].tables \subseteq Names
  BY <1>a DEF TypeOK, Request
<1> SUFFICES Safe' BY <1>b DEF IInv
<1>1. ASSUME NEW o \in Ops, NEW x \in Pc \ {"swap", "drop"}, op' = [op EXCEPT ![o].pc = x]
      PROVE  Kept
  BY <1>1, <1>c, <1>d DEF Request, Kept
<1>2. ASSUME NEW o \in Ops, StartBackup(o) \/ \E f \in Ids : StartRestore(o, f) PROVE Kept
  <2>1. /\ op'[o].pc = "dump" /\ op'[o].tables = op[o].tables /\ op'[o].todo = op[o].todo
        /\ \A p \in Ops \ {o} : op'[p] = op[p]
    BY <1>2, <1>c, <1>d DEF StartBackup, StartRestore, Request
  <2> QED BY <2>1 DEF Kept
<1>3. ASSUME NEW o \in Ops, \E whole, accepted \in BOOLEAN : StartUpload(o, whole, accepted) PROVE Kept
  BY <1>3, <1>c, <1>d DEF StartUpload, Request, Kept
<1>4. ASSUME NEW o \in Ops, \/ DumpDone(o) \/ DumpFails(o) \/ CreateSchema(o) \/ Import(o)
                            \/ DropSchema(o) \/ StatementFails(o) \/ Cleanup(o)
      PROVE  Kept
  <2>1. PICK x \in {"trim", "failed", "import", "verify", "cleanup", "done"} : op' = [op EXCEPT ![o].pc = x]
    BY <1>4 DEF DumpDone, DumpFails, CreateSchema, Import, DropSchema, StatementFails, Cleanup
  <2> QED BY <1>1, <2>1 DEF Pc, Working
<1>5. ASSUME NEW o \in Ops, Trim(o) \/ Unlink(o) PROVE Kept
  <2>1. /\ op'[o].pc \in {"done", "schema", "unlink", "failed"}
        /\ op'[o].tables = op[o].tables /\ op'[o].todo = op[o].todo
        /\ \A p \in Ops \ {o} : op'[p] = op[p]
    BY <1>5, <1>c, <1>d DEF Trim, Unlink, Trimmed, Request
  <2> QED BY <2>1 DEF Kept
<1>6. ASSUME Crash PROVE Kept
  BY <1>6, <1>c, <1>d DEF Crash, Request, Kept
<1>7. CASE UNCHANGED live /\ Kept
  BY <1>a, <1>7, LiveAlone
<1>8. ASSUME NEW o \in Ops, Verify(o) PROVE Safe'
  <2>1. UNCHANGED live BY <1>8 DEF Verify
  <2>2. CASE ~SameTables(o)
    <3>1. op' = [op EXCEPT ![o].pc = "cleanup"] BY <1>8, <2>2 DEF Verify
    <3> QED BY <1>1, <1>7, <2>1, <3>1 DEF Pc, Working
  <2>3. CASE SameTables(o)
    <3>1. /\ op'[o].pc = "swap" /\ op'[o].tables \ op'[o].todo = {}
          /\ \A p \in Ops \ {o} : op'[p] = op[p]
      BY <1>8, <2>3, <1>c, <1>d DEF Verify, Request
    <3>2. ASSUME NEW p \in Ops, p # o PROVE Halfway(p)' = Halfway(p)
      BY <2>1, <3>1, <3>2 DEF Halfway
    <3>3. NoTableLost' BY <1>a, <2>1 DEF Safe, NoTableLost
    <3>4. Undoable'
      <4> SUFFICES ASSUME NEW p \in Ops, Halfway(p)', NEW m \in op'[p].tables \ op'[p].todo
                   PROVE  Append(m, p) \in DOMAIN live'
        BY DEF Undoable
      <4>1. p # o BY <3>1
      <4>2. Halfway(p) /\ m \in op[p].tables \ op[p].todo BY <3>1, <3>2, <4>1
      <4> QED BY <1>a, <2>1, <4>2 DEF Safe, Undoable
    <3>5. CopiesToDrop' BY <1>a, <2>1, <3>1 DEF Safe, CopiesToDrop
    <3> QED BY <3>3, <3>4, <3>5 DEF Safe
  <2> QED BY <2>2, <2>3
<1>9. ASSUME NEW o \in Ops, NEW n \in op[o].todo, Swap(o, n) PROVE Safe'
  <2>1. CASE RenameRefused(o, n)
    <3>1. UNCHANGED live /\ op' = [op EXCEPT ![o].pc = "cleanup"] BY <2>1 DEF RenameRefused
    <3>2. "cleanup" \in Pc \ {"swap", "drop"} BY DEF Pc, Working
    <3> QED BY <1>1, <1>7, <3>1, <3>2
  <2>2. CASE Replace(o, n)
    <3>1. DOMAIN live' = DOMAIN live \cup {Append(n, o)} BY <2>2 DEF Replace
    <3>2. op' = [op EXCEPT ![o] = Swapped(o, n)] BY <2>2 DEF Replace
    <3>3. op[o].pc = "swap" BY <1>9 DEF Swap
    <3>4. /\ \A p \in Ops \ {o} : op'[p] = op[p]
          /\ op'[o].tables = op[o].tables
          /\ \/ op'[o].pc = "swap" /\ op'[o].todo = op[o].todo \ {n}
             \/ /\ op'[o].pc = "drop" /\ op'[o].todo = op[o].tables
                /\ op[o].todo = {n}
      BY <3>2, <3>3, <1>c, <1>d DEF Swapped, Request
    <3>5. \A m \in op[o].tables \ (op[o].todo \ {n}) : Append(m, o) \in DOMAIN live'
      BY <1>a, <3>1, <3>3 DEF Safe, Undoable, Halfway
    <3>6. NoTableLost' BY <1>a, <3>1 DEF Safe, NoTableLost
    <3>7. Undoable'
      <4> SUFFICES ASSUME NEW p \in Ops, Halfway(p)', NEW m \in op'[p].tables \ op'[p].todo
                   PROVE  Append(m, p) \in DOMAIN live'
        BY DEF Undoable
      <4>1. CASE p = o BY <3>4, <3>5, <4>1
      <4>2. CASE p # o
        <5>1. op'[p] = op[p] BY <3>4, <4>2
        <5>2. Halfway(p) BY <3>1, <5>1 DEF Halfway
        <5> QED BY <1>a, <3>1, <5>1, <5>2 DEF Safe, Undoable
      <4> QED BY <4>1, <4>2
    <3>8. CopiesToDrop' BY <1>a, <3>1, <3>4, <3>5 DEF Safe, CopiesToDrop
    <3> QED BY <3>6, <3>7, <3>8 DEF Safe
  <2> QED BY <1>9, <2>1, <2>2 DEF Swap
<1>10. ASSUME NEW o \in Ops, NEW n \in op[o].todo, DropRollback(o, n) PROVE Safe'
  <2> DEFINE granted == Append(n, o) \in DOMAIN live /\ ~Referenced(o, n)
  <2>1. CASE ~granted
    <3>1. UNCHANGED live /\ op' = [op EXCEPT ![o].pc = "cleanup"] BY <1>10, <2>1 DEF DropRollback
    <3>2. "cleanup" \in Pc \ {"swap", "drop"} BY DEF Pc, Working
    <3> QED BY <1>1, <1>7, <3>1, <3>2
  <2>2. CASE granted
    <3>1. DOMAIN live' = DOMAIN live \ {Append(n, o)} BY <1>10, <2>2 DEF DropRollback, Restrict
    <3>2. n \in Names BY <1>e
    <3>3. /\ op[o].pc = "drop" /\ op'[o].pc \in {"drop", "dropSchema"}
          /\ op'[o].todo = op[o].todo \ {n} /\ op'[o].tables = op[o].tables
          /\ \A p \in Ops \ {o} : op'[p] = op[p]
      BY <1>10, <2>2, <1>c, <1>d DEF DropRollback, Request
    <3>4. ASSUME NEW p \in Ops, NEW m \in op[p].tables, p # o \/ m # n
          PROVE  Append(m, p) \in DOMAIN live' <=> Append(m, p) \in DOMAIN live
      BY <1>e, <3>1, <3>2, <3>4, RollbackNames
    <3>5. NoTableLost' BY <1>a, <3>1, <3>2, RollbackNames DEF Safe, NoTableLost
    <3>6. CopiesToDrop' BY <1>a, <1>e, <3>3, <3>4 DEF Safe, CopiesToDrop
    <3>7. Undoable'
      <4> SUFFICES ASSUME NEW p \in Ops, Halfway(p)', NEW m \in op'[p].tables \ op'[p].todo
                   PROVE  Append(m, p) \in DOMAIN live'
        BY DEF Undoable
      <4>1. p # o
        <5>1. \A k \in op[o].todo \ {n} : Append(k, o) \in DOMAIN live'
          BY <1>a, <1>e, <3>3, <3>4 DEF Safe, CopiesToDrop
        <5> QED BY <3>3, <5>1 DEF Halfway
      <4>2. op'[p] = op[p] BY <3>3, <4>1
      <4>3. Halfway(p) BY <1>e, <3>4, <4>1, <4>2 DEF Halfway
      <4>4. Append(m, p) \in DOMAIN live BY <1>a, <4>2, <4>3 DEF Safe, Undoable
      <4> QED BY <3>4, <4>1, <4>2, <4>4
    <3> QED BY <3>5, <3>6, <3>7 DEF Safe
  <2> QED BY <2>1, <2>2
<1>11. ASSUME NEW t \in Tables, AppWrite(t) PROVE UNCHANGED op /\ DOMAIN live' = DOMAIN live
  BY <1>11 DEF AppWrite
<1>12. CASE UNCHANGED op /\ DOMAIN live' = DOMAIN live
  <2>1. Kept BY <1>12 DEF Kept
  <2> QED BY <1>a, <1>12, <2>1, LiveAlone
<1>13. ASSUME NEW o \in Ops, \/ StartBackup(o) \/ \E f \in Ids : StartRestore(o, f)
                             \/ \E whole, accepted \in BOOLEAN : StartUpload(o, whole, accepted)
       PROVE  UNCHANGED live /\ Kept
  BY <1>2, <1>3, <1>13 DEF StartBackup, StartRestore, StartUpload
<1>14. ASSUME NEW o \in Ops, \/ DumpDone(o) \/ DumpFails(o) \/ CreateSchema(o) \/ Import(o)
                             \/ DropSchema(o) \/ StatementFails(o) \/ Cleanup(o)
      PROVE  UNCHANGED live /\ Kept
  BY <1>4, <1>14 DEF DumpDone, DumpFails, CreateSchema, Import, DropSchema, StatementFails, Cleanup
<1>15. ASSUME NEW o \in Ops, Trim(o) \/ Unlink(o) PROVE UNCHANGED live /\ Kept
  BY <1>5, <1>15 DEF Trim, Unlink
<1>16. CASE Crash
  BY <1>6, <1>7, <1>16 DEF Crash
<1>17. CASE \E f \in Ids : DeleteBackup(f)
  BY <1>12, <1>17 DEF DeleteBackup
<1>18. CASE UNCHANGED vars
  BY <1>12, <1>18 DEF vars
<1> QED BY <1>7, <1>8, <1>9, <1>10, <1>11, <1>12, <1>13, <1>14, <1>15, <1>16, <1>17, <1>18 DEF Next

LEMMA RestoreSafe == Spec => []IInv
BY InitSafe, NextSafe, PTL DEF Spec

\* The live schema never lacks a table of the release, whatever fails, crashes
\* or overlaps while any number of restores move tables.
THEOREM NoTableIsEverLost == Spec => []NoTableLost
<1>1. IInv => NoTableLost BY DEF IInv, Safe
<1> QED BY <1>1, RestoreSafe, PTL

\* Until a restore has exchanged its last table, no other request and no failure
\* removes the copy of one it replaced, and nothing does after it ended half-way.
THEOREM ReplacedCopiesStay == Spec => []Undoable
<1>1. IInv => Undoable BY DEF IInv, Safe
<1> QED BY <1>1, RestoreSafe, PTL

-----------------------------------------------------------------------------
(* A restore nothing disturbs.  What is said of a calm request rests on its *)
(* being the only one at work: whoever starts while it works, and whatever *)
(* fails or is deleted under it, is recorded in disturbed.                 *)

\* m is the copy of a table that o replaced.
RollbackOf(m, o) == Len(m) > 1 /\ m[Len(m)] = o

Alone == \A o \in Ops : Calm(o) /\ Active(o) => \A p \in Ops : Active(p) => p = o

\* Only a restore goes on after the trim.
Kinds == \A o \in Ops : /\ Active(o) => op[o].kind # "none"
                        /\ op[o].pc \in Shadowing => op[o].kind = "restore"

\* A dump's file is listed once, from the start of its request on.
Once(s, f) == \A i, j \in 1..Len(s) : s[i].id = f /\ s[j].id = f => i = j
Listings == \A o \in Ops : /\ op[o].pc = "idle" => Dump(o) \notin Ids
                           /\ Once(files, Dump(o))

\* A calm request's dump is the newest file when the trim is worked out, so it
\* is none of those to delete.
Snapshot(o) ==
  /\ op[o].pc = "trim" => /\ Len(files) > 0
                          /\ files[Len(files)].id = Dump(o) /\ files[Len(files)].whole
  /\ op[o].pc = "unlink" => /\ Whole(Dump(o))
                            /\ \A i \in 1..Len(op[o].doomed) : op[o].doomed[i] # Dump(o)
  /\ op[o].pc \in Shadowing => Whole(Dump(o))
Snapshots == \A o \in Ops : Calm(o) => Snapshot(o)

\* Before its first RENAME a restore has left no trace in the live schema.
Before == {"idle", "dump", "trim", "unlink", "schema", "import", "verify"}
Unswapped ==
  \A o \in Ops : op[o].pc \in Before =>
    op[o].tables = {} /\ \A m \in DOMAIN live : ~RollbackOf(m, o)

\* What a schema holds is finite: tables can be counted.
Countable ==
  /\ IsFiniteSet(DOMAIN live)
  /\ \A o \in Ops : IsFiniteSet(DOMAIN shadow[o])
  /\ \A f \in FileId : IsFiniteSet(DOMAIN content[f])

\* How far a calm restore has come with its tables.
Arrived(o, S) == \A n \in S : live[n] = want[o][n] \/ live[n] > since[o]
Progress(o) ==
  /\ op[o].pc = "verify" => shadow[o] = want[o]
  /\ op[o].pc \in {"swap", "drop", "dropSchema"} =>
       /\ \A m \in op[o].tables : ~RollbackOf(m, o)
       /\ DOMAIN want[o] = op[o].tables
  /\ op[o].pc = "swap" =>
       /\ DOMAIN live = op[o].tables \cup {Append(n, o) : n \in op[o].tables \ op[o].todo}
       /\ DOMAIN shadow[o] = op[o].todo
       /\ \A n \in op[o].todo : shadow[o][n] = want[o][n]
       /\ Arrived(o, op[o].tables \ op[o].todo)
  /\ op[o].pc = "drop" =>
       /\ DOMAIN live = op[o].tables \cup {Append(n, o) : n \in op[o].todo}
       /\ Arrived(o, op[o].tables)
  /\ op[o].pc = "dropSchema" => DOMAIN live = op[o].tables /\ Arrived(o, op[o].tables)
  /\ op[o].pc = "cleanup" =>
       \/ op[o].tables = {}
       \/ \E n \in op[o].todo : Head(n) \in Pinned
       \/ /\ op[o].tables \subseteq DOMAIN live /\ DOMAIN want[o] = op[o].tables
          /\ Arrived(o, op[o].tables)
Exchanges == \A o \in Ops : since[o] <= writes /\ (Calm(o) => Progress(o))

CalmInv ==
  TypeOK /\ Alone /\ Kinds /\ Listings /\ Snapshots /\ Unswapped /\ Countable /\ Exchanges

-----------------------------------------------------------------------------
(* Who can take which step.                                                *)

Starts(o) ==
  \/ StartBackup(o) \/ \E f \in Ids : StartRestore(o, f)
  \/ \E whole, accepted \in BOOLEAN : StartUpload(o, whole, accepted)
Exchange(o) == \E n \in op[o].todo : Swap(o, n) \/ DropRollback(o, n)
\* The steps that disturb nobody.
Works(o) ==
  \/ DumpDone(o) \/ Trim(o) \/ Unlink(o) \/ CreateSchema(o) \/ Import(o) \/ Verify(o)
  \/ Exchange(o) \/ DropSchema(o) \/ Cleanup(o)
Fails(o) == DumpFails(o) \/ StatementFails(o)

LEMMA NextSteps ==
  Next <=> \/ \E o \in Ops : Starts(o) \/ Works(o) \/ Fails(o)
           \/ Crash \/ (\E t \in Tables : AppWrite(t)) \/ (\E f \in Ids : DeleteBackup(f))
BY Zenon DEF Next, Starts, Works, Fails, Exchange

\* Where a request's work takes it.
Goes(o) ==
  /\ op'[o].kind = op[o].kind
  /\ (op[o].pc = "verify" /\ op'[o].pc = "swap") \/ op'[o].tables = op[o].tables
  /\ \/ op[o].pc = "dump" /\ op'[o].pc \in {"trim", "failed"}
     \/ op[o].pc = "trim" /\ op'[o].pc \in {"unlink", Trimmed(o)}
     \/ op[o].pc = "unlink" /\ op'[o].pc \in {"unlink", "failed", Trimmed(o)}
     \/ op[o].pc = "schema" /\ op'[o].pc \in {"import", "cleanup"}
     \/ op[o].pc = "import" /\ op'[o].pc \in {"verify", "cleanup"}
     \/ op[o].pc = "verify" /\ op'[o].pc \in {"swap", "cleanup"}
     \/ op[o].pc = "swap" /\ op'[o].pc \in {"swap", "drop", "cleanup"}
     \/ op[o].pc = "drop" /\ op'[o].pc \in {"drop", "dropSchema", "cleanup"}
     \/ op[o].pc = "dropSchema" /\ op'[o].pc \in {"done", "cleanup"}
     \/ op[o].pc = "cleanup" /\ op'[o].pc = "failed"

LEMMA WorkGoes ==
  ASSUME TypeOK, NEW o \in Ops, Works(o) \/ Fails(o)
  PROVE  Goes(o)
<1>1. op \in [Ops -> Request] /\ op[o] \in Request BY DEF TypeOK
<1>2. ASSUME DumpDone(o) \/ DumpFails(o) PROVE Goes(o)
  <2>1. op[o].pc = "dump" BY <1>2 DEF DumpDone, DumpFails
  <2>2. PICK x \in {"trim", "failed"} : op' = [op EXCEPT ![o].pc = x]
    BY <1>2 DEF DumpDone, DumpFails
  <2> QED BY <1>1, <2>1, <2>2 DEF Goes, Request
<1>3. ASSUME Trim(o) PROVE Goes(o)
  <2>1. op[o].pc = "trim" BY <1>3 DEF Trim
  <2>2. PICK x \in {"unlink", Trimmed(o)} : op' = [op EXCEPT ![o].pc = x, ![o].doomed = Doomed]
    BY <1>3 DEF Trim
  <2> QED BY <1>1, <2>1, <2>2 DEF Goes, Request
<1>4. ASSUME Unlink(o) PROVE Goes(o)
  <2>1. op[o].pc = "unlink" BY <1>4 DEF Unlink
  <2>2. \/ op' = [op EXCEPT ![o].pc = "failed"]
        \/ \E x \in {"unlink", Trimmed(o)} :
             op' = [op EXCEPT ![o].pc = x, ![o].doomed = Tail(op[o].doomed)]
    BY <1>4 DEF Unlink
  <2>3. CASE op' = [op EXCEPT ![o].pc = "failed"]
    BY <1>1, <2>1, <2>3 DEF Goes, Request
  <2>4. ASSUME NEW x \in {"unlink", Trimmed(o)},
               op' = [op EXCEPT ![o].pc = x, ![o].doomed = Tail(op[o].doomed)]
        PROVE  Goes(o)
    BY <1>1, <2>1, <2>4 DEF Goes, Request
  <2> QED BY <2>2, <2>3, <2>4
<1>5. ASSUME CreateSchema(o) \/ Import(o) \/ DropSchema(o) \/ Cleanup(o) \/ StatementFails(o)
      PROVE  Goes(o)
  <2>1. PICK x \in {"import", "verify", "cleanup", "done", "failed"} :
          /\ op' = [op EXCEPT ![o].pc = x]
          /\ \/ op[o].pc = "schema" /\ x = "import"
             \/ op[o].pc = "import" /\ x \in {"verify", "cleanup"}
             \/ op[o].pc = "dropSchema" /\ x = "done"
             \/ op[o].pc = "cleanup" /\ x = "failed"
             \/ op[o].pc \in Shadowing /\ x = "cleanup"
    BY <1>5 DEF CreateSchema, Import, DropSchema, Cleanup, StatementFails
  <2>2. op'[o] = [op[o] EXCEPT !.pc = x] BY <1>1, <2>1
  <2>3. op'[o].pc = x /\ op'[o].kind = op[o].kind /\ op'[o].tables = op[o].tables
    BY <1>1, <2>2 DEF Request
  <2> QED BY <2>1, <2>3 DEF Goes, Shadowing
<1>6. ASSUME Verify(o) PROVE Goes(o)
  <2>1. op[o].pc = "verify" BY <1>6 DEF Verify
  <2>2. \/ op' = [op EXCEPT ![o].pc = "swap", ![o].tables = Listed, ![o].todo = Listed]
        \/ op' = [op EXCEPT ![o].pc = "cleanup"]
    BY <1>6 DEF Verify
  <2> QED BY <1>1, <2>1, <2>2 DEF Goes, Request
<1>7. ASSUME NEW n \in op[o].todo, Swap(o, n) PROVE Goes(o)
  <2>1. op[o].pc = "swap" BY <1>7 DEF Swap
  <2>2. op' = [op EXCEPT ![o] = Swapped(o, n)] \/ op' = [op EXCEPT ![o].pc = "cleanup"]
    BY <1>7 DEF Swap, Replace, RenameRefused
  <2>3. /\ op'[o].pc \in {"swap", "drop", "cleanup"} /\ op'[o].kind = op[o].kind
        /\ op'[o].tables = op[o].tables
    <3>1. CASE op' = [op EXCEPT ![o] = Swapped(o, n)]
      BY <1>1, <2>1, <3>1 DEF Request, Swapped
    <3>2. CASE op' = [op EXCEPT ![o].pc = "cleanup"]
      BY <1>1, <3>2 DEF Request
    <3> QED BY <2>2, <3>1, <3>2
  <2> QED BY <2>1, <2>3 DEF Goes
<1>8. ASSUME NEW n \in op[o].todo, DropRollback(o, n) PROVE Goes(o)
  <2>1. op[o].pc = "drop" BY <1>8 DEF DropRollback
  <2>2. \/ op' = [op EXCEPT ![o].pc = "cleanup"]
        \/ \E x \in {"drop", "dropSchema"} :
             op' = [op EXCEPT ![o].todo = @ \ {n}, ![o].pc = x]
    BY <1>8 DEF DropRollback
  <2> QED BY <1>1, <2>1, <2>2 DEF Goes, Request
<1> QED BY <1>2, <1>3, <1>4, <1>5, <1>6, <1>7, <1>8 DEF Works, Fails, Exchange

\* Where a request goes from idle.
LEMMA StartGoes ==
  ASSUME TypeOK, NEW o \in Ops, Starts(o)
  PROVE  /\ op[o].pc = "idle" /\ op'[o].pc \in {"dump", "refused"}
         /\ op'[o].kind \in {"backup", "restore"} /\ op'[o].tables = op[o].tables
         /\ \A p \in Ops \ {o} : op'[p] = op[p]
         /\ Overlap(o)
         /\ UNCHANGED <<live, shadow, writes, want, since>>
<1>1. op \in [Ops -> Request] /\ op[o] \in Request BY DEF TypeOK
<1>2. PICK pc \in {"dump", "refused"}, kind \in {"backup", "restore"} : \E source :
        op' = [op EXCEPT ![o].pc = pc, ![o].kind = kind, ![o].source = source]
  <2>1. CASE StartBackup(o)
    <3>1. op' = [op EXCEPT ![o].pc = "dump", ![o].kind = "backup", ![o].source = op[o].source]
      BY <1>1, <2>1 DEF StartBackup, Request
    <3> QED BY <3>1
  <2>2. ASSUME NEW f \in Ids, StartRestore(o, f)
        PROVE  op' = [op EXCEPT ![o].pc = "dump", ![o].kind = "restore", ![o].source = f]
    BY <2>2 DEF StartRestore
  <2>3. ASSUME NEW whole \in BOOLEAN, NEW accepted \in BOOLEAN, StartUpload(o, whole, accepted)
        PROVE  op' = [op EXCEPT ![o].pc = IF accepted THEN "dump" ELSE "refused",
                                ![o].kind = "restore", ![o].source = Upload(o)]
    BY <2>3 DEF StartUpload
  <2> QED BY <2>1, <2>2, <2>3 DEF Starts
<1>3. /\ op'[o].pc \in {"dump", "refused"} /\ op'[o].kind \in {"backup", "restore"}
      /\ op'[o].tables = op[o].tables /\ \A p \in Ops \ {o} : op'[p] = op[p]
  BY <1>1, <1>2 DEF Request
<1>4. /\ op[o].pc = "idle" /\ Overlap(o)
      /\ UNCHANGED <<live, shadow, writes, want, since>>
  BY DEF Starts, StartBackup, StartRestore, StartUpload
<1> QED BY <1>3, <1>4

\* A step of one request leaves the others where they are, and begins idle or at work.
LEMMA StepOf ==
  ASSUME TypeOK, NEW o \in Ops, Starts(o) \/ Works(o) \/ Fails(o)
  PROVE  /\ \A p \in Ops \ {o} : op'[p] = op[p]
         /\ Starts(o) => op[o].pc = "idle" /\ op'[o].pc \in {"dump", "refused"}
         /\ Works(o) \/ Fails(o) => Active(o)
         /\ disturbed \subseteq disturbed'
<1>1. op \in [Ops -> Request] BY DEF TypeOK
<1>2. ASSUME Starts(o) PROVE disturbed \subseteq disturbed'
  BY <1>2, StartGoes DEF Overlap
<1>3. ASSUME Works(o) \/ Fails(o) PROVE Active(o)
  BY <1>3, WorkGoes DEF Goes, Active, Working
<1>4. ASSUME Works(o) \/ Fails(o) PROVE \A p \in Ops \ {o} : op'[p] = op[p]
  <2>1. ASSUME NEW n \in op[o].todo, Swap(o, n) PROVE \A p \in Ops \ {o} : op'[p] = op[p]
    BY <1>1, <2>1 DEF Swap, Replace, RenameRefused
  <2>2. ASSUME ~\E n \in op[o].todo : Swap(o, n) PROVE \A p \in Ops \ {o} : op'[p] = op[p]
    BY <1>1, <1>4, <2>2 DEF Works, Fails, Exchange, DumpDone, Trim, Unlink, CreateSchema,
       Import, Verify, DropRollback, DropSchema, Cleanup, DumpFails, StatementFails
  <2> QED BY <2>1, <2>2
<1>5. ASSUME Works(o) \/ Fails(o) PROVE disturbed \subseteq disturbed'
  BY <1>5 DEF Works, Fails, Exchange, DumpDone, Trim, Unlink, history,
     CreateSchema, Import, Verify, Swap, DropRollback, DropSchema, Cleanup, DumpFails, StatementFails
<1> QED BY <1>2, <1>3, <1>4, <1>5, StartGoes

LEMMA Disturbs ==
  ASSUME TypeOK, Next
  PROVE  /\ disturbed \subseteq disturbed'
         /\ \A o \in Ops : Fails(o) => o \in disturbed'
         /\ Crash \/ (\E f \in Ids : DeleteBackup(f)) => \A o \in Ops : Active(o) => o \in disturbed'
         /\ \A o \in Ops, p \in Ops : Starts(o) /\ Active(p) => o \in disturbed' /\ p \in disturbed'
<1>1. \A o \in Ops : Fails(o) => o \in disturbed' BY DEF Fails, DumpFails, StatementFails
<1>2. Crash => disturbed \subseteq disturbed' /\ \A o \in Ops : Active(o) => o \in disturbed'
  BY DEF Crash
<1>3. (\E f \in Ids : DeleteBackup(f)) =>
        disturbed \subseteq disturbed' /\ \A o \in Ops : Active(o) => o \in disturbed'
  BY DEF DeleteBackup
<1>4. ASSUME NEW o \in Ops, NEW p \in Ops, Starts(o), Active(p)
      PROVE  o \in disturbed' /\ p \in disturbed'
  <2>1. Overlap(o) BY <1>4 DEF Starts, StartBackup, StartRestore, StartUpload
  <2> QED BY <1>4, <2>1 DEF Overlap
<1>5. (\E t \in Tables : AppWrite(t)) => disturbed \subseteq disturbed' BY DEF AppWrite, history
<1>6. disturbed \subseteq disturbed' BY <1>2, <1>3, <1>5, NextSteps, StepOf
<1> QED BY <1>1, <1>2, <1>3, <1>4, <1>6

\* Whatever happens to a request: nothing, the crash, its start or its work.
LEMMA FateOf ==
  ASSUME TypeOK, Next, NEW p \in Ops
  PROVE  \/ op'[p] = op[p]
         \/ Active(p) /\ op'[p] = [op[p] EXCEPT !.pc = "lost"] /\ p \in disturbed'
         \/ Starts(p) \/ Works(p) \/ Fails(p)
<1>1. ASSUME NEW o \in Ops, Starts(o) \/ Works(o) \/ Fails(o), p # o PROVE op'[p] = op[p]
  BY <1>1, StepOf
<1>2. CASE Crash
  BY <1>2, Disturbs DEF Crash
<1>3. (\E t \in Tables : AppWrite(t)) \/ (\E f \in Ids : DeleteBackup(f)) => op'[p] = op[p]
  BY DEF AppWrite, DeleteBackup
<1> QED BY <1>1, <1>2, <1>3, NextSteps

\* While a calm request works, nothing else happens but writes of the application.
LEMMA CalmStep ==
  ASSUME TypeOK, Alone, Next, NEW p \in Ops, p \notin disturbed', Active(p)
  PROVE  Works(p) \/ (op'[p] = op[p] /\ \E t \in Tables : AppWrite(t))
<1>1. Calm(p) BY Disturbs DEF Calm
<1>2. ASSUME NEW o \in Ops, o # p, Starts(o) \/ Works(o) \/ Fails(o) PROVE FALSE
  <2>1. ~Starts(o) BY Disturbs
  <2>2. Active(o) BY <1>2, <2>1, StepOf
  <2> QED BY <1>1, <1>2, <2>2 DEF Alone
<1>3. ~Starts(p) /\ ~Fails(p) /\ ~Crash /\ ~\E f \in Ids : DeleteBackup(f)
  BY Disturbs
<1>4. ASSUME \E t \in Tables : AppWrite(t) PROVE op'[p] = op[p]
  BY <1>4 DEF AppWrite
<1> QED BY <1>2, <1>3, <1>4, NextSteps

LEMMA AloneStep == TypeOK /\ Alone /\ Next => Alone'
<1> SUFFICES ASSUME TypeOK, Alone, Next, NEW o \in Ops, o \notin disturbed', Active(o)',
                    NEW p \in Ops, Active(p)', p # o
             PROVE  FALSE
  BY DEF Alone, Calm
<1>1. Calm(o) BY Disturbs DEF Calm
<1>2. ASSUME NEW q \in Ops, Active(q)', ~Active(q) PROVE Starts(q)
  <2>1. op'[q] # op[q] BY <1>2 DEF Active
  <2> QED BY <1>2, <2>1, FateOf, StepOf
<1>3. CASE Active(o) /\ Active(p) BY <1>1, <1>3 DEF Alone
<1>4. CASE ~Active(p)
  <2>1. Starts(p) BY <1>2, <1>4
  <2>2. op'[o] = op[o] BY <2>1, StepOf
  <2>3. Active(o) BY <2>2 DEF Active
  <2> QED BY <2>1, <2>3, Disturbs
<1>5. CASE ~Active(o)
  <2>1. Starts(o) BY <1>2, <1>5
  <2>2. op'[p] = op[p] BY <2>1, StepOf
  <2>3. Active(p) BY <2>2 DEF Active
  <2> QED BY <2>1, <2>3, Disturbs
<1> QED BY <1>3, <1>4, <1>5

LEMMA KindsStep == TypeOK /\ Kinds /\ Next => Kinds'
<1> SUFFICES ASSUME TypeOK, Kinds, Next, NEW o \in Ops
             PROVE  /\ Active(o)' => op'[o].kind # "none"
                    /\ op'[o].pc \in Shadowing => op'[o].kind = "restore"
  BY DEF Kinds
<1>1. op \in [Ops -> Request] /\ op[o] \in Request BY DEF TypeOK
<1>2. CASE op'[o] = op[o] BY <1>2 DEF Kinds, Active
<1>3. CASE op'[o] = [op[o] EXCEPT !.pc = "lost"]
  BY <1>1, <1>3 DEF Active, Working, Shadowing, Request
<1>4. CASE Starts(o)
  BY <1>4, StartGoes DEF Shadowing
<1>5. CASE Works(o) \/ Fails(o)
  <2>1. Goes(o) BY <1>5, WorkGoes
  <2>2. op'[o].kind = op[o].kind BY <2>1 DEF Goes
  <2>3. Active(o) BY <2>1 DEF Goes, Active, Working
  <2>4. op[o].kind \in {"backup", "restore"} BY <1>1, <2>3 DEF Kinds, Request
  <2>5. CASE op[o].kind = "restore" BY <2>2, <2>5
  <2>6. CASE op[o].kind = "backup"
    <3>1. op[o].pc \notin Shadowing BY <2>6 DEF Kinds
    <3>2. Trimmed(o) = "done" BY <2>6 DEF Trimmed
    <3>3. op'[o].pc \notin Shadowing BY <2>1, <3>1, <3>2 DEF Goes, Shadowing
    <3> QED BY <2>2, <2>6, <3>3
  <2> QED BY <2>4, <2>5, <2>6
<1> QED BY <1>2, <1>3, <1>4, <1>5, FateOf

-----------------------------------------------------------------------------
(* The directory.                                                          *)

Has(s, f) == \E i \in 1..Len(s) : s[i].id = f
HasWhole(s, f) == \E i \in 1..Len(s) : s[i].id = f /\ s[i].whole

LEMMA DumpNames ==
  ASSUME NEW o, NEW p
  PROVE  /\ Dump(o) # Upload(p) /\ (Dump(o) = Dump(p) => o = p)
         /\ Dump(o) # Old /\ Dump(o) # Good
BY DEF Dump, Upload, File, Old, Good

LEMMA Directory ==
  /\ \A f : f \in Ids <=> Has(files, f)
  /\ \A f : Whole(f) <=> HasWhole(files, f)
BY DEF Ids, Whole, Has, HasWhole

\* A directory without one file: nothing new, and nothing but that file gone.
LEMMA WithoutFacts ==
  ASSUME NEW s \in Seq(FileEntry), NEW f
  PROVE  /\ \A h : Has(Without(s, f), h) => Has(s, h)
         /\ \A h : h # f /\ HasWhole(s, h) => HasWhole(Without(s, f), h)
         /\ \A h : Once(s, h) => Once(Without(s, f), h)
         /\ Once(s, f) => ~Has(Without(s, f), f)
<1>1. CASE ~Has(s, f)
  <2>1. Without(s, f) = s BY <1>1 DEF Without, Has
  <2> QED BY <1>1, <2>1
<1>2. CASE Has(s, f)
  <2>1. PICK i \in 1..Len(s) : i = (CHOOSE j \in 1..Len(s) : s[j].id = f) /\ s[i].id = f
    BY <1>2 DEF Has
  <2>2. Without(s, f) = RemoveAt(s, i) BY <1>2, <2>1 DEF Without, Has
  <2> DEFINE w == RemoveAt(s, i)
             from(k) == IF k < i THEN k ELSE k + 1
  <2>3. /\ Len(s) \in Nat /\ i \in Nat /\ Len(w) = Len(s) - 1
        /\ \A k \in 1..(Len(s) - 1) : w[k] = IF k < i THEN s[k] ELSE s[k + 1]
    <3>1. Len(s) \in Nat /\ i \in Nat OBVIOUS
    <3>2. /\ Len(w) = Len(s) - 1
          /\ \A k \in 1..(Len(s) - 1) : w[k] = IF k < i THEN s[k] ELSE s[k + 1]
      BY RemoveAtFacts, Zenon
    <3> QED BY <3>1, <3>2
  <2> HIDE DEF w
  <2>4. \A k \in 1..Len(w) : from(k) \in 1..Len(s) /\ from(k) # i /\ w[k] = s[from(k)]
    BY <2>3
  <2>5. \A k, l \in 1..Len(w) : from(k) = from(l) => k = l BY <2>3
  <2>6. \A j \in 1..Len(s) : j # i => \E k \in 1..Len(w) : from(k) = j
    <3> TAKE j \in 1..Len(s)
    <3> HAVE j # i
    <3>1. CASE j < i
      <4>1. j \in 1..Len(w) /\ from(j) = j BY <2>3, <3>1
      <4> QED BY <4>1
    <3>2. CASE j > i
      <4>1. j - 1 \in 1..Len(w) /\ from(j - 1) = j BY <2>3, <3>2
      <4> QED BY <4>1
    <3>3. j < i \/ j > i BY <2>3
    <3> QED BY <3>1, <3>2, <3>3
  <2> HIDE DEF from
  <2>7. \A h : Has(w, h) => Has(s, h) BY <2>4 DEF Has
  <2>8. \A h : h # f /\ HasWhole(s, h) => HasWhole(w, h)
    <3> TAKE h
    <3> HAVE h # f /\ HasWhole(s, h)
    <3>1. PICK j \in 1..Len(s) : s[j].id = h /\ s[j].whole BY DEF HasWhole
    <3>2. PICK k \in 1..Len(w) : from(k) = j BY <2>1, <2>6, <3>1
    <3> QED BY <2>4, <3>1, <3>2 DEF HasWhole
  <2>9. \A h : Once(s, h) => Once(w, h)
    <3> TAKE h
    <3> HAVE Once(s, h)
    <3> SUFFICES ASSUME NEW k \in 1..Len(w), NEW l \in 1..Len(w), w[k].id = h, w[l].id = h
        PROVE  k = l
      BY DEF Once
    <3>1. from(k) = from(l) BY <2>4 DEF Once
    <3> QED BY <2>5, <3>1
  <2>10. Once(s, f) => ~Has(w, f) BY <2>1, <2>4 DEF Once, Has
  <2> QED BY <2>2, <2>7, <2>8, <2>9, <2>10 DEF w
<1> QED BY <1>1, <1>2

\* A directory with one more file.
LEMMA AppendFacts ==
  ASSUME NEW s \in Seq(FileEntry), NEW e \in FileEntry
  PROVE  /\ \A h : Has(Append(s, e), h) <=> Has(s, h) \/ e.id = h
         /\ \A h : HasWhole(s, h) => HasWhole(Append(s, e), h)
         /\ \A h : Once(s, h) /\ (e.id # h \/ ~Has(s, h)) => Once(Append(s, e), h)
<1> DEFINE t == Append(s, e)
<1>1. /\ Len(s) \in Nat /\ Len(t) = Len(s) + 1 /\ t[Len(s) + 1] = e
      /\ \A i \in 1..Len(s) : t[i] = s[i]
  OBVIOUS
<1> HIDE DEF t
<1>2. \A i \in 1..Len(t) : i \in 1..Len(s) \/ i = Len(s) + 1 BY <1>1
<1>3. \A i \in 1..Len(s) : i \in 1..Len(t) BY <1>1
<1>4. Len(s) + 1 \in 1..Len(t) BY <1>1
<1>5. \A h : Has(t, h) <=> Has(s, h) \/ e.id = h BY <1>1, <1>2, <1>3, <1>4 DEF Has
<1>6. \A h : HasWhole(s, h) => HasWhole(t, h) BY <1>1, <1>3 DEF HasWhole
<1>7. \A h : Once(s, h) /\ (e.id # h \/ ~Has(s, h)) => Once(t, h)
  BY <1>1, <1>2 DEF Once, Has
<1> QED BY <1>5, <1>6, <1>7 DEF t

\* What the end of a request removes is no dump.
LEMMA AfterRequestFacts ==
  ASSUME files \in Seq(FileEntry), NEW o
  PROVE  /\ AfterRequest(o) \in Seq(FileEntry)
         /\ \A h : Has(AfterRequest(o), h) => Has(files, h)
         /\ \A h : Once(files, h) => Once(AfterRequest(o), h)
BY AfterRequestType, WithoutFacts DEF AfterRequest

LEMMA ListingsStep == TypeOK /\ Listings /\ Next => Listings'
<1> SUFFICES ASSUME TypeOK, Listings, Next, NEW o \in Ops
             PROVE  (op'[o].pc = "idle" => ~Has(files', Dump(o))) /\ Once(files', Dump(o))
  BY DEF Listings, Ids, Has
<1> DEFINE d == Dump(o)
           Goal == (op'[o].pc = "idle" => ~Has(files', d)) /\ Once(files', d)
<1>a. files \in Seq(FileEntry) BY DEF TypeOK
<1>b. Once(files, d) /\ (op[o].pc = "idle" => ~Has(files, d))
  BY Directory DEF Listings
<1>c. op'[o].pc = "idle" => op[o].pc = "idle" /\ ~Starts(o) /\ ~Works(o) /\ ~Fails(o)
  <2>1. CASE op'[o] = op[o] /\ ~Starts(o) /\ ~Works(o) /\ ~Fails(o) BY <2>1
  <2>2. CASE op'[o] = [op[o] EXCEPT !.pc = "lost"]
    <3>1. op[o] \in Request BY DEF TypeOK
    <3> QED BY <2>2, <3>1 DEF Request
  <2>3. CASE Starts(o) BY <2>3, StepOf
  <2>4. CASE Works(o) \/ Fails(o)
    <3>1. Goes(o) BY <2>4, WorkGoes
    <3> QED BY <3>1 DEF Goes, Trimmed
  <2> QED BY <2>1, <2>2, <2>3, <2>4, FateOf
<1>d. \A q : /\ AfterRequest(q) \in Seq(FileEntry) /\ Once(AfterRequest(q), d)
             /\ Has(AfterRequest(q), d) => Has(files, d)
  BY <1>a, <1>b, AfterRequestFacts
<1>e. \A f : /\ Without(files, f) \in Seq(FileEntry) /\ Once(Without(files, f), d)
             /\ Has(Without(files, f), d) => Has(files, d)
  BY <1>a, <1>b, WithoutFacts, WithoutType
<1>f. \A f \in FileId, w \in BOOLEAN : [id |-> f, whole |-> w] \in FileEntry BY DEF FileEntry
<1> HIDE DEF d
<1>g. ASSUME Once(files', d), Has(files', d) => Has(files, d) PROVE Goal
  BY <1>b, <1>c, <1>g
<1>1. ASSUME NEW q \in Ops, Starts(q) PROVE Goal
  <2>1. op[q].pc = "idle" BY <1>1, StepOf
  <2>2. Started(q) \in FileEntry /\ Started(q).id = Dump(q) BY <1>f, FileIds DEF Started
  <2>3. PICK base \in Seq(FileEntry) :
          /\ Once(base, d) /\ (Has(base, d) => Has(files, d))
          /\ files' = base \/ files' = Append(base, Started(q))
    <3>1. CASE files' = Append(files, Started(q)) BY <1>a, <1>b, <3>1
    <3>2. ASSUME NEW whole \in BOOLEAN, NEW accepted \in BOOLEAN, StartUpload(q, whole, accepted)
          PROVE  \E base \in Seq(FileEntry) :
                   /\ Once(base, d) /\ (Has(base, d) => Has(files, d))
                   /\ files' = base \/ files' = Append(base, Started(q))
      <4> DEFINE upload == [id |-> Upload(q), whole |-> whole]
      <4>1. upload \in FileEntry /\ upload.id # d BY <1>f, FileIds, DumpNames DEF d
      <4>2. \/ files' = files \o <<upload, Started(q)>> \/ files' = Append(files, upload)
        BY <3>2 DEF StartUpload
      <4> HIDE DEF upload
      <4>3. files \o <<upload, Started(q)>> = Append(Append(files, upload), Started(q))
        BY <1>a, <2>2, <4>1
      <4>4. /\ Append(files, upload) \in Seq(FileEntry) /\ Once(Append(files, upload), d)
            /\ (Has(Append(files, upload), d) => Has(files, d))
        BY <1>a, <1>b, <4>1, AppendFacts, AppendType
      <4> QED BY <4>2, <4>3, <4>4
    <3> QED BY <1>1, <3>1, <3>2 DEF Starts, StartBackup, StartRestore
  <2>4. CASE files' = base BY <1>g, <2>3, <2>4
  <2>5. CASE files' = Append(base, Started(q)) /\ q # o
    <3>1. Started(q).id # d BY <2>2, <2>5, DumpNames DEF d
    <3>2. Once(files', d) BY <2>2, <2>3, <2>5, <3>1, AppendFacts
    <3>3. Has(files', d) => Has(files, d) BY <2>2, <2>3, <2>5, <3>1, AppendFacts
    <3> QED BY <1>g, <3>2, <3>3
  <2>6. CASE files' = Append(base, Started(q)) /\ q = o
    <3>1. ~Has(base, d) BY <1>b, <2>1, <2>3, <2>6
    <3>2. Once(files', d) BY <2>2, <2>3, <2>6, <3>1, AppendFacts
    <3> QED BY <1>1, <1>c, <2>6, <3>2
  <2> QED BY <2>3, <2>4, <2>5, <2>6
<1>2. ASSUME NEW q \in Ops, DumpDone(q) PROVE Goal
  <2>1. CASE Dump(q) \in Ids
    <3> DEFINE w == Without(files, Dump(q))
               e == [id |-> Dump(q), whole |-> TRUE]
    <3>1. files' = Append(w, e) BY <1>2, <2>1 DEF DumpDone
    <3>2. e \in FileEntry /\ e.id = Dump(q) BY <1>f, FileIds
    <3>3. w \in Seq(FileEntry) /\ Once(w, d) /\ (Has(w, d) => Has(files, d)) BY <1>e
    <3>4. Dump(q) = d => ~Has(w, d) BY <1>a, <1>b, WithoutFacts
    <3> HIDE DEF w, e
    <3>5. Once(files', d) BY <3>1, <3>2, <3>3, <3>4, AppendFacts
    <3>6. Has(files', d) => Has(w, d) \/ Dump(q) = d BY <3>1, <3>2, <3>3, AppendFacts
    <3>7. Has(files', d) => Has(files, d) BY <2>1, <3>3, <3>6, Directory
    <3> QED BY <1>g, <3>5, <3>7
  <2>2. CASE Dump(q) \notin Ids
    <3>1. files' = AfterRequest(q) BY <1>2, <2>2 DEF DumpDone
    <3> QED BY <1>d, <1>g, <3>1
  <2> QED BY <2>1, <2>2
<1>3. ASSUME NEW q \in Ops, DumpFails(q) PROVE Goal
  <2>1. files' = Without(AfterRequest(q), Dump(q)) BY <1>3 DEF DumpFails
  <2>2. Once(files', d) BY <1>d, <2>1, WithoutFacts
  <2>3. Has(files', d) => Has(AfterRequest(q), d) BY <1>d, <2>1, WithoutFacts
  <2> QED BY <1>d, <1>g, <2>2, <2>3
<1>4. ASSUME NEW q \in Ops, Unlink(q) \/ DropSchema(q) \/ Cleanup(q) PROVE Goal
  <2>1. \/ files' = AfterRequest(q)
        \/ \E f : files' = Without(files, f)
    BY <1>4 DEF Unlink, DropSchema, Cleanup
  <2> QED BY <1>d, <1>e, <1>g, <2>1
<1>5. ASSUME NEW f \in Ids, DeleteBackup(f) PROVE Goal
  <2>1. files' = Without(files, f) BY <1>5 DEF DeleteBackup
  <2> QED BY <1>e, <1>g, <2>1
<1>6. ASSUME UNCHANGED files PROVE Goal
  <2>1. Once(files', d) /\ (Has(files', d) => Has(files, d)) BY <1>b, <1>6 DEF Once, Has
  <2> QED BY <1>g, <2>1
<1> HIDE DEF Goal
<1>7. ASSUME NEW q \in Ops, Works(q) \/ Fails(q) PROVE Goal
  <2>1. \/ DumpDone(q) \/ DumpFails(q) \/ Unlink(q) \/ DropSchema(q) \/ Cleanup(q)
        \/ UNCHANGED files
    BY <1>7 DEF Works, Fails, Exchange, Trim, CreateSchema, Import, Verify, Swap, DropRollback,
       StatementFails
  <2> QED BY <1>2, <1>3, <1>4, <1>6, <2>1
<1>8. ASSUME Crash \/ \E t \in Tables : AppWrite(t) PROVE Goal
  BY <1>6, <1>8 DEF Crash, AppWrite
<1>9. Goal BY <1>1, <1>5, <1>7, <1>8, NextSteps
<1> QED BY <1>9 DEF d, Goal

\* None of the files a trim dooms is the newest.
LEMMA DoomedOlder ==
  ASSUME files \in Seq(FileEntry), Doomed # <<>>
  PROVE  /\ Len(files) > 0
         /\ \A i \in 1..Len(Doomed) : \E j \in 1..(Len(files) - 1) : Doomed[i] = files[j].id
<1> DEFINE ids == [i \in 1..Len(files) |-> files[i].id]
           s == SubSeq(ids, 1, Len(ids) - Keep)
<1>1. Len(files) \in Nat /\ Keep \in Nat BY RestoreAssumption
<1>2. Keep # 0 /\ Len(files) > Keep /\ Doomed = Reverse(s) BY <1>1 DEF Doomed
<1>3. Len(ids) = Len(files) /\ ids \in Seq(FileId) /\ \A j \in 1..Len(files) : ids[j] = files[j].id
  <2>1. \A i \in 1..Len(files) : files[i].id \in FileId BY IdsType DEF Ids
  <2> QED BY <1>1, <2>1
<1> HIDE DEF ids
<1>4. Len(s) = Len(files) - Keep /\ \A j \in 1..(Len(files) - Keep) : s[j] = ids[j]
  <2>1. \A k \in 1..(Len(ids) - Keep) : ids[k] \in FileId BY <1>1, <1>3
  <2>2. Len(ids) - Keep \in Int BY <1>1, <1>3
  <2>3. Len(s) = IF 1 <= Len(ids) - Keep THEN (Len(ids) - Keep) - 1 + 1 ELSE 0
    BY <2>1, <2>2, SubSeqProperties
  <2>4. \A j \in 1..(Len(ids) - Keep) : s[j] = ids[1 + j - 1] BY <2>1, <2>2, <2>3, SubSeqProperties
  <2> QED BY <1>1, <1>2, <1>3, <2>3, <2>4
<1> HIDE DEF s
<1>5. Len(Doomed) = Len(s) /\ \A i \in 1..Len(s) : Doomed[i] = s[(Len(s) - i) + 1]
  BY <1>1, <1>2, <1>4 DEF Reverse
<1>6. ASSUME NEW i \in 1..Len(s)
      PROVE  \E j \in 1..(Len(files) - 1) : Doomed[i] = files[j].id
  <2> DEFINE j == (Len(s) - i) + 1
  <2>1. j \in 1..(Len(files) - Keep) /\ j \in 1..(Len(files) - 1) /\ j \in 1..Len(files) BY <1>1, <1>2, <1>4
  <2>2. Doomed[i] = files[j].id BY <1>3, <1>4, <1>5, <2>1
  <2> QED BY <2>1, <2>2
<1> QED BY <1>1, <1>2, <1>5, <1>6

LEMMA SnapshotsStep == TypeOK /\ Alone /\ Listings /\ Snapshots /\ Next => Snapshots'
<1> SUFFICES ASSUME TypeOK, Alone, Listings, Snapshots, Next, NEW o \in Ops, o \notin disturbed'
             PROVE  Snapshot(o)'
  BY DEF Snapshots, Calm
<1> DEFINE d == Dump(o)
<1>a. op \in [Ops -> Request] /\ op[o] \in Request /\ files \in Seq(FileEntry) BY DEF TypeOK
<1>b. Calm(o) BY Disturbs DEF Calm
<1>c. Snapshot(o) /\ Once(files, d) BY <1>b DEF Snapshots, Listings
<1>d. {"trim", "unlink"} \cup Shadowing \subseteq Working BY DEF Working, Shadowing
<1>1. ASSUME op'[o].pc \notin {"trim", "unlink"} \cup Shadowing PROVE Snapshot(o)'
  BY <1>1 DEF Snapshot
<1>2. ASSUME op'[o] = op[o], UNCHANGED files PROVE Snapshot(o)'
  BY <1>2, <1>c DEF Snapshot, Whole
<1>3. CASE ~Active(o)
  <2>1. CASE op'[o] = op[o]
    <3>1. op'[o].pc \notin Working BY <1>3, <2>1 DEF Active
    <3> QED BY <1>1, <1>d, <3>1
  <2>2. CASE Starts(o)
    <3>1. op'[o].pc \notin {"trim", "unlink"} \cup Shadowing BY <2>2, StepOf DEF Shadowing
    <3> QED BY <1>1, <3>1
  <2> QED BY <1>3, <2>1, <2>2, FateOf, StepOf
<1>4. CASE Active(o) /\ ~Works(o)
  <2>1. op'[o] = op[o] /\ UNCHANGED files BY <1>4, CalmStep DEF AppWrite
  <2> QED BY <1>2, <2>1
<1>5. ASSUME DumpDone(o) PROVE Snapshot(o)'
  <2>1. op[o].pc = "dump" BY <1>5 DEF DumpDone
  <2>2. CASE d \in Ids
    <3> DEFINE w == Without(files, d)
               e == [id |-> d, whole |-> TRUE]
    <3>1. files' = Append(w, e) /\ op'[o].pc = "trim" BY <1>a, <1>5, <2>2 DEF DumpDone, Request
    <3>2. w \in Seq(FileEntry) /\ e \in FileEntry BY <1>a, WithoutType, FileIds DEF FileEntry
    <3> HIDE DEF w
    <3>3. Len(files') = Len(w) + 1 /\ Len(w) \in Nat /\ files'[Len(w) + 1] = e BY <3>1, <3>2
    <3>4. Len(files') > 0 /\ files'[Len(files')].id = d /\ files'[Len(files')].whole BY <3>3
    <3> QED BY <3>1, <3>4 DEF Snapshot, Shadowing
  <2>3. CASE d \notin Ids
    <3>1. op'[o].pc = "failed" BY <1>a, <1>5, <2>3 DEF DumpDone, Request
    <3> QED BY <1>1, <3>1 DEF Shadowing
  <2> QED BY <2>2, <2>3
<1>6. ASSUME Trim(o) PROVE Snapshot(o)'
  <2>1. op[o].pc = "trim" /\ UNCHANGED files BY <1>6 DEF Trim
  <2>2. Len(files) \in Nat /\ Len(files) > 0 /\ files[Len(files)].id = d /\ files[Len(files)].whole
    BY <1>a, <1>c, <2>1 DEF Snapshot
  <2>3. Whole(d)' BY <2>1, <2>2 DEF Whole
  <2>4. CASE Doomed = <<>>
    <3>1. op'[o].pc = Trimmed(o) BY <1>a, <1>6, <2>4 DEF Trim, Request
    <3> QED BY <2>3, <3>1 DEF Snapshot, Trimmed
  <2>5. CASE Doomed # <<>>
    <3>1. op'[o].pc = "unlink" /\ op'[o].doomed = Doomed BY <1>a, <1>6, <2>5 DEF Trim, Request
    <3>2. ASSUME NEW i \in 1..Len(Doomed) PROVE Doomed[i] # d
      <4>1. PICK j \in 1..(Len(files) - 1) : Doomed[i] = files[j].id BY <1>a, <2>5, DoomedOlder
      <4>2. j \in 1..Len(files) /\ Len(files) \in 1..Len(files) /\ j # Len(files) BY <2>2
      <4>3. Once(files, d) /\ files[Len(files)].id = d BY <1>c, <2>2
      <4>4. files[j].id # d BY <4>2, <4>3 DEF Once
      <4> QED BY <4>1, <4>4
    <3> HIDE DEF d
    <3>3. \A i \in 1..Len(op'[o].doomed) : op'[o].doomed[i] # d BY <3>1, <3>2
    <3> QED BY <2>3, <3>1, <3>3 DEF Snapshot, Shadowing, d
  <2> QED BY <2>4, <2>5
<1>7. ASSUME Unlink(o) PROVE Snapshot(o)'
  <2> DEFINE f == Head(op[o].doomed)
             rest == Tail(op[o].doomed)
  <2>1. op[o].pc = "unlink" /\ op[o].doomed # <<>> BY <1>7 DEF Unlink
  <2>2. op[o].doomed \in Seq(FileId) BY <1>a DEF Request
  <2>3. Whole(d) /\ \A i \in 1..Len(op[o].doomed) : op[o].doomed[i] # d BY <1>c, <2>1 DEF Snapshot
  <2>4. CASE f \in Ids
    <3>1. files' = Without(files, f) BY <1>7, <2>4 DEF Unlink
    <3>2. op'[o].doomed = rest /\ op'[o].pc \in {"unlink", Trimmed(o)}
      <4>1. \E x \in {"unlink", Trimmed(o)} : op' = [op EXCEPT ![o].pc = x, ![o].doomed = rest]
        BY <1>7, <2>4 DEF Unlink
      <4> QED BY <1>a, <4>1 DEF Request
    <3>3. f # d
      <4>1. 1 \in 1..Len(op[o].doomed) /\ f = op[o].doomed[1] BY <2>1, <2>2
      <4> QED BY <2>3, <4>1
    <3>4. Whole(d)'
      <4>1. HasWhole(files, d) BY <2>3, Directory
      <4>2. HasWhole(Without(files, f), d) BY <1>a, <3>3, <4>1, WithoutFacts
      <4> QED BY <3>1, <4>2 DEF Whole, HasWhole
    <3>5. \A i \in 1..Len(rest) : rest[i] # d
      <4>1. \A i \in 1..Len(rest) : i + 1 \in 1..Len(op[o].doomed) /\ rest[i] = op[o].doomed[i + 1]
        BY <2>1, <2>2
      <4> QED BY <2>3, <4>1
    <3> HIDE DEF d, rest
    <3>6. \A i \in 1..Len(op'[o].doomed) : op'[o].doomed[i] # d BY <3>2, <3>5
    <3>7. op'[o].pc # "trim" BY <3>2 DEF Trimmed
    <3> QED BY <3>4, <3>6, <3>7 DEF Snapshot, d
  <2>5. CASE f \notin Ids
    <3>1. op'[o].pc = "failed" BY <1>a, <1>7, <2>5 DEF Unlink, Request
    <3> QED BY <1>1, <3>1 DEF Shadowing
  <2> QED BY <2>4, <2>5
<1>8. ASSUME \/ CreateSchema(o) \/ Import(o) \/ Verify(o) \/ Exchange(o)
      PROVE  Snapshot(o)'
  <2>1. op[o].pc \in Shadowing /\ UNCHANGED files
    BY <1>8 DEF CreateSchema, Import, Verify, Exchange, Swap, DropRollback, Shadowing
  <2>2. Whole(d)' BY <1>c, <2>1 DEF Snapshot, Whole
  <2>3. Goes(o) BY <1>8, WorkGoes DEF Works
  <2>4. op'[o].pc \notin {"trim", "unlink"} BY <2>1, <2>3 DEF Goes, Shadowing
  <2> QED BY <2>2, <2>4 DEF Snapshot
<1>9. ASSUME DropSchema(o) \/ Cleanup(o) PROVE Snapshot(o)'
  <2>1. op'[o].pc \in {"done", "failed"} BY <1>a, <1>9 DEF DropSchema, Cleanup, Request
  <2> QED BY <1>1, <2>1 DEF Shadowing
<1> QED BY <1>3, <1>4, <1>5, <1>6, <1>7, <1>8, <1>9 DEF Works

-----------------------------------------------------------------------------
(* The tables.                                                             *)

\* Only an exchange brings a name into the live schema.
LEMMA NamesStep ==
  ASSUME Next
  PROVE  \/ DOMAIN live' \subseteq DOMAIN live
         \/ \E q \in Ops : \E n \in op[q].todo :
              /\ Swap(q, n) /\ Replace(q, n)
              /\ DOMAIN live' = DOMAIN live \cup {Append(n, q)}
<1>1. ASSUME NEW q \in Ops, NEW n \in op[q].todo, Swap(q, n)
      PROVE  \/ DOMAIN live' \subseteq DOMAIN live
             \/ Replace(q, n) /\ DOMAIN live' = DOMAIN live \cup {Append(n, q)}
  BY <1>1 DEF Swap, Replace, RenameRefused
<1>2. ASSUME NEW q \in Ops, NEW n \in op[q].todo, DropRollback(q, n)
      PROVE  DOMAIN live' \subseteq DOMAIN live
  BY <1>2 DEF DropRollback, Restrict
<1>3. ASSUME NEW t \in Tables, AppWrite(t) PROVE DOMAIN live' \subseteq DOMAIN live
  BY <1>3 DEF AppWrite
<1>4. CASE UNCHANGED live BY <1>4
<1>5. ASSUME NEW q \in Ops, Starts(q) \/ Works(q) \/ Fails(q), ~Exchange(q) PROVE UNCHANGED live
  BY <1>5 DEF Starts, Works, Fails, StartBackup, StartRestore, StartUpload, DumpDone, Trim, Unlink,
     CreateSchema, Import, Verify, DropSchema, Cleanup, DumpFails, StatementFails
<1>6. ASSUME Crash \/ \E f \in Ids : DeleteBackup(f) PROVE UNCHANGED live
  BY <1>6 DEF Crash, DeleteBackup
<1>7. ASSUME NEW q \in Ops, Exchange(q)
      PROVE  \/ DOMAIN live' \subseteq DOMAIN live
             \/ \E n \in op[q].todo :
                  /\ Swap(q, n) /\ Replace(q, n)
                  /\ DOMAIN live' = DOMAIN live \cup {Append(n, q)}
  BY <1>1, <1>2, <1>7 DEF Exchange
<1> QED BY <1>3, <1>4, <1>5, <1>6, <1>7, NextSteps

\* The copy of n that q replaces is a copy of q's.
LEMMA RollbackOfCopy ==
  ASSUME NEW n \in Names, NEW q \in Ops, NEW o \in Ops
  PROVE  RollbackOf(Append(n, q), o) <=> q = o
<1>1. n \in Seq(Tables \cup OldTables \cup Ops) /\ n # <<>> BY DEF Names
<1>2. Len(Append(n, q)) > 1 /\ Append(n, q)[Len(Append(n, q))] = q BY <1>1
<1> QED BY <1>2 DEF RollbackOf

LEMMA UnswappedStep == TypeOK /\ Unswapped /\ Next => Unswapped'
<1> SUFFICES ASSUME TypeOK, Unswapped, Next, NEW o \in Ops, op'[o].pc \in Before
             PROVE  op'[o].tables = {} /\ \A m \in DOMAIN live' : ~RollbackOf(m, o)
  BY DEF Unswapped, RollbackOf
<1>a. op[o] \in Request BY DEF TypeOK
<1>1. op[o].pc \in Before /\ op'[o].tables = op[o].tables
  <2>1. op'[o].pc # "lost" BY DEF Before
  <2>2. CASE op'[o] = op[o] BY <2>2
  <2>3. CASE Starts(o) BY <2>3, StartGoes DEF Before
  <2>4. CASE Works(o) \/ Fails(o)
    <3>1. Goes(o) BY <2>4, WorkGoes
    <3> QED BY <3>1 DEF Goes, Before
  <2>5. CASE op'[o] = [op[o] EXCEPT !.pc = "lost"] BY <1>a, <2>1, <2>5 DEF Request
  <2> QED BY <2>2, <2>3, <2>4, <2>5, FateOf
<1>2. op[o].tables = {} /\ \A m \in DOMAIN live : ~RollbackOf(m, o) BY <1>1 DEF Unswapped
<1>3. CASE DOMAIN live' \subseteq DOMAIN live BY <1>1, <1>2, <1>3
<1>4. ASSUME NEW q \in Ops, NEW n \in op[q].todo, Swap(q, n),
             DOMAIN live' = DOMAIN live \cup {Append(n, q)}
      PROVE  \A m \in DOMAIN live' : ~RollbackOf(m, o)
  <2>1. op[q].pc = "swap" BY <1>4 DEF Swap
  <2>2. q # o BY <1>1, <2>1 DEF Before
  <2>3. n \in Names BY DEF TypeOK, Request
  <2>4. ~RollbackOf(Append(n, q), o) BY <2>2, <2>3, RollbackOfCopy
  <2> QED BY <1>2, <1>4, <2>4
<1> QED BY <1>1, <1>2, <1>3, <1>4, NamesStep

LEMMA CountableStep == TypeOK /\ Countable /\ Next => Countable'
<1> SUFFICES ASSUME TypeOK, Countable, Next PROVE Countable' OBVIOUS
<1>a. DOMAIN shadow = Ops /\ DOMAIN content = FileId BY DEF TypeOK
<1>1. IsFiniteSet(DOMAIN live')
  <2>1. CASE DOMAIN live' \subseteq DOMAIN live BY <2>1, FS_Subset DEF Countable
  <2>2. ASSUME NEW x, DOMAIN live' = DOMAIN live \cup {x} PROVE IsFiniteSet(DOMAIN live')
    <3>1. IsFiniteSet(DOMAIN live) BY DEF Countable
    <3>2. IsFiniteSet(DOMAIN live \cup {x}) BY <3>1, FS_AddElement
    <3> QED BY <2>2, <3>2
  <2> QED BY <2>1, <2>2, NamesStep
<1>2. ASSUME NEW f \in FileId PROVE IsFiniteSet(DOMAIN content'[f])
  <2>1. ASSUME NEW q \in Ops, Starts(q) PROVE content'[f] \in {content[f], live}
    <3>1. content' \in {content, [content EXCEPT ![Dump(q)] = live]}
      BY <2>1 DEF Starts, StartBackup, StartRestore, StartUpload
    <3> QED BY <1>a, <3>1
  <2>2. ASSUME NEW q \in Ops, Works(q) \/ Fails(q) PROVE content' = content
    BY <2>2 DEF Works, Fails, Exchange, DumpDone, DumpFails, Trim, Unlink, CreateSchema, Import, Verify,
       Swap, DropRollback, DropSchema, StatementFails, Cleanup
  <2>3. CASE Crash \/ (\E t \in Tables : AppWrite(t)) \/ (\E g \in Ids : DeleteBackup(g))
    BY <2>3 DEF Countable, Crash, AppWrite, DeleteBackup
  <2> QED BY <2>1, <2>2, <2>3, NextSteps DEF Countable
<1>3. ASSUME NEW o \in Ops PROVE IsFiniteSet(DOMAIN shadow'[o])
  <2>a. IsFiniteSet(DOMAIN shadow[o]) BY DEF Countable
  <2>b. op[o].source \in FileId BY DEF TypeOK, Request
  <2>1. ASSUME NEW q \in Ops, Import(q) PROVE IsFiniteSet(DOMAIN shadow'[o])
    <3>1. shadow'[o] = shadow[o] \/ (q = o /\ shadow'[o] = content[op[o].source])
      BY <1>a, <2>1 DEF Import
    <3> QED BY <2>a, <2>b, <3>1 DEF Countable
  <2>2. ASSUME NEW q \in Ops, NEW n \in op[q].todo, Swap(q, n) PROVE IsFiniteSet(DOMAIN shadow'[o])
    <3>1. \/ shadow' = shadow
          \/ shadow' = [shadow EXCEPT ![q] = Restrict(shadow[q], DOMAIN shadow[q] \ {n})]
      BY <2>2 DEF Swap, Replace, RenameRefused
    <3>2. DOMAIN shadow'[o] \subseteq DOMAIN shadow[o]
      BY <1>a, <3>1 DEF Restrict
    <3> QED BY <2>a, <3>2, FS_Subset
  <2>3. ASSUME NEW q \in Ops, DropSchema(q) \/ Cleanup(q) PROVE IsFiniteSet(DOMAIN shadow'[o])
    <3>1. shadow'[o] = shadow[o] \/ shadow'[o] = Empty BY <1>a, <2>3 DEF DropSchema, Cleanup
    <3>2. DOMAIN Empty = {} BY DEF Empty
    <3> QED BY <2>a, <3>1, <3>2, FS_EmptySet
  <2>4. CASE UNCHANGED shadow BY <2>a, <2>4
  <2>5. ASSUME NEW q \in Ops, Works(q) \/ Fails(q)
        PROVE  Import(q) \/ Exchange(q) \/ DropSchema(q) \/ Cleanup(q) \/ UNCHANGED shadow
    BY <2>5 DEF Works, Fails, DumpDone, DumpFails, Trim, Unlink, CreateSchema, Verify, StatementFails
  <2>6. ASSUME NEW q \in Ops, Exchange(q)
        PROVE  UNCHANGED shadow \/ \E n \in op[q].todo : Swap(q, n)
    BY <2>6 DEF Exchange, DropRollback
  <2>7. ASSUME Crash \/ (\E t \in Tables : AppWrite(t)) \/ (\E g \in Ids : DeleteBackup(g))
        PROVE  UNCHANGED shadow
    BY <2>7 DEF Crash, AppWrite, DeleteBackup
  <2>8. ASSUME NEW q \in Ops, Starts(q) PROVE UNCHANGED shadow
    BY <2>8, StartGoes
  <2> QED BY <2>1, <2>2, <2>3, <2>4, <2>5, <2>6, <2>7, <2>8, NextSteps
<1> QED BY <1>1, <1>2, <1>3 DEF Countable

\* The number of the last write before the swap is never ahead.
LEMMA SinceStep ==
  ASSUME TypeOK, Exchanges, Next, NEW o \in Ops
  PROVE  since'[o] <= writes'
<1>a. /\ since \in [Ops -> Versions] /\ since[o] \in Nat /\ writes \in Nat /\ since[o] <= writes
  BY RestoreAssumption DEF TypeOK, Exchanges, Versions
<1>1. ASSUME NEW q \in Ops, Verify(q) PROVE since'[o] <= writes'
  BY <1>a, <1>1 DEF Verify
<1>2. ASSUME NEW t \in Tables, AppWrite(t) PROVE since'[o] <= writes'
  BY <1>a, <1>2 DEF AppWrite, history
<1>3. CASE UNCHANGED <<since, writes>> BY <1>a, <1>3
<1>4. ASSUME NEW q \in Ops, Works(q) \/ Fails(q) PROVE Verify(q) \/ UNCHANGED <<since, writes>>
  BY <1>4 DEF Works, Fails, Exchange, DumpDone, DumpFails, Trim, Unlink, CreateSchema, Import,
     Swap, DropRollback, DropSchema, StatementFails, Cleanup, history
<1>5. ASSUME NEW q \in Ops, Starts(q) PROVE UNCHANGED <<since, writes>> BY <1>5, StartGoes
<1>6. ASSUME Crash \/ (\E g \in Ids : DeleteBackup(g)) PROVE UNCHANGED <<since, writes>>
  BY <1>6 DEF Crash, DeleteBackup
<1> QED BY <1>1, <1>2, <1>3, <1>4, <1>5, <1>6, NextSteps

\* A calm restore's RENAMEs find what they need.
LEMMA Exchangeable ==
  ASSUME TypeOK, NEW o \in Ops, Progress(o), NEW n \in op[o].todo, op[o].pc \in {"swap", "drop"}
  PROVE  /\ n \in op[o].tables /\ n \in Names
         /\ \A m \in op[o].tables : m \in Names /\ Append(n, o) # m
         /\ \A m \in op[o].tables : Append(m, o) = Append(n, o) => m = n
         /\ op[o].pc = "swap" => CanSwap(o, n)
         /\ op[o].pc = "drop" => Append(n, o) \in DOMAIN live
<1>1. op[o].tables \subseteq Names /\ n \in op[o].tables BY DEF TypeOK, Request
<1>2. \A m \in op[o].tables : m \in Names /\ Append(n, o) # m
  <2>1. RollbackOf(Append(n, o), o) BY <1>1, RollbackOfCopy
  <2>2. \A m \in op[o].tables : ~RollbackOf(m, o) BY DEF Progress
  <2> QED BY <1>1, <2>1, <2>2, Zenon
<1>3. \A m \in op[o].tables : Append(m, o) = Append(n, o) => m = n
  BY <1>1, RollbackNames
<1>4. ASSUME op[o].pc = "swap" PROVE CanSwap(o, n)
  <2>1. /\ DOMAIN live = op[o].tables \cup {Append(m, o) : m \in op[o].tables \ op[o].todo}
        /\ DOMAIN shadow[o] = op[o].todo
    BY <1>4 DEF Progress
  <2>2. Append(n, o) \notin {Append(m, o) : m \in op[o].tables \ op[o].todo} BY <1>3
  <2> QED BY <1>1, <1>2, <2>1, <2>2 DEF CanSwap
<1>5. op[o].pc = "drop" => Append(n, o) \in DOMAIN live BY DEF Progress
<1> QED BY <1>1, <1>2, <1>3, <1>4, <1>5

LEMMA ProgressWorks ==
  ASSUME CalmInv, NEW o \in Ops, Calm(o), Works(o)
  PROVE  Progress(o)'
<1>a. op \in [Ops -> Request] /\ op[o] \in Request /\ DOMAIN shadow = Ops /\ DOMAIN want = Ops
  BY DEF CalmInv, TypeOK
<1>b. Progress(o) BY DEF CalmInv, Exchanges
<1>c. Goes(o) BY WorkGoes DEF CalmInv
<1>d. op[o].pc \in Before => op[o].tables = {} /\ \A m \in DOMAIN live : ~RollbackOf(m, o)
  BY DEF CalmInv, Unswapped
<1>1. ASSUME op'[o].pc \in (Before \ {"verify"}) \cup {"done"} PROVE Progress(o)'
  BY <1>1 DEF Progress, Before
<1>2. ASSUME op'[o].pc \in {"cleanup", "failed"}, op'[o].tables = {} \/ op'[o].pc = "failed"
      PROVE  Progress(o)'
  BY <1>2 DEF Progress
<1>3. ASSUME op[o].pc \in {"dump", "trim", "unlink", "schema"} PROVE Progress(o)'
  <2>1. op'[o].tables = {} BY <1>3, <1>c, <1>d DEF Goes, Before
  <2>2. op'[o].pc \in {"trim", "unlink", "schema", "import", "done", "cleanup", "failed"}
    BY <1>3, <1>c DEF Goes, Trimmed
  <2> QED BY <1>1, <1>2, <2>1, <2>2 DEF Before
<1>4. ASSUME Import(o) PROVE Progress(o)'
  <2>1. op[o].pc = "import" /\ op[o].tables = {} BY <1>4, <1>d DEF Import, Before
  <2>2. CASE Whole(op[o].source)
    <3>1. op'[o].pc = "verify" /\ shadow'[o] = want'[o] BY <1>4, <1>a, <2>2 DEF Import, Request
    <3> QED BY <3>1 DEF Progress
  <2>3. CASE ~Whole(op[o].source)
    <3>1. op'[o].pc = "cleanup" /\ op'[o].tables = {} BY <1>4, <1>a, <2>1, <2>3 DEF Import, Request
    <3> QED BY <1>2, <3>1
  <2> QED BY <2>2, <2>3
<1>5. ASSUME Verify(o) PROVE Progress(o)'
  <2>1. /\ op[o].pc = "verify" /\ op[o].tables = {}
        /\ \A m \in DOMAIN live : ~RollbackOf(m, o)
    BY <1>5, <1>d DEF Verify, Before
  <2>2. CASE SameTables(o)
    <3>1. DOMAIN shadow[o] = DOMAIN live
      <4>1. IsFiniteSet(DOMAIN shadow[o]) BY DEF CalmInv, Countable
      <4> QED BY <2>2, <4>1, FS_Subset DEF SameTables
    <3>2. /\ op'[o].pc = "swap" /\ op'[o].tables = DOMAIN live /\ op'[o].todo = DOMAIN live
          /\ UNCHANGED <<live, shadow, want>>
      BY <1>5, <1>a, <2>2 DEF Verify, Listed, Request
    <3>3. shadow[o] = want[o] BY <1>b, <2>1 DEF Progress
    <3>4. op'[o].tables \ op'[o].todo = {} BY <3>2
    <3> QED BY <2>1, <3>1, <3>2, <3>3, <3>4 DEF Progress, Arrived, RollbackOf
  <2>3. CASE ~SameTables(o)
    <3>1. op'[o].pc = "cleanup" /\ op'[o].tables = {} BY <1>5, <1>a, <2>1, <2>3 DEF Verify, Request
    <3> QED BY <1>2, <3>1
  <2> QED BY <2>2, <2>3
<1>6. ASSUME NEW n \in op[o].todo, Swap(o, n), Replace(o, n) PROVE Progress(o)'
  <2> DEFINE tables == op[o].tables
             todo == op[o].todo
  <2>1. op[o].pc = "swap" BY <1>6 DEF Swap
  <2>2. /\ n \in tables /\ n \in Names /\ CanSwap(o, n)
        /\ \A m \in tables : Append(n, o) # m
    BY <1>b, <2>1, Exchangeable DEF CalmInv
  <2>3. /\ live' = [m \in DOMAIN live \cup {Append(n, o)} |->
                      IF m = Append(n, o) THEN live[n]
                      ELSE IF m = n THEN shadow[o][n] ELSE live[m]]
        /\ shadow'[o] = Restrict(shadow[o], DOMAIN shadow[o] \ {n})
        /\ op'[o] = Swapped(o, n) /\ want'[o] = want[o] /\ since'[o] = since[o]
    BY <1>6, <1>a, <2>2 DEF Swap, Replace, history
  <2>4. /\ \A m \in tables : ~RollbackOf(m, o)
        /\ DOMAIN want[o] = tables
        /\ DOMAIN live = tables \cup {Append(m, o) : m \in tables \ todo}
        /\ DOMAIN shadow[o] = todo
        /\ \A m \in todo : shadow[o][m] = want[o][m]
        /\ Arrived(o, tables \ todo)
    BY <1>b, <2>1 DEF Progress
  <2>5. op'[o].tables = tables BY <1>a, <2>3 DEF Swapped, Request
  <2>6. DOMAIN live' = tables \cup {Append(m, o) : m \in tables \ (todo \ {n})}
    <3>1. {Append(m, o) : m \in tables \ (todo \ {n})}
            = {Append(m, o) : m \in tables \ todo} \cup {Append(n, o)}
      BY <2>2
    <3> QED BY <2>3, <2>4, <3>1
  <2>7. \A m \in (tables \ (todo \ {n})) : live'[m] = want'[o][m] \/ live'[m] > since'[o]
    <3>1. ASSUME NEW m \in tables \ (todo \ {n}), m # n
          PROVE  live'[m] = live[m] /\ (live[m] = want[o][m] \/ live[m] > since[o])
      BY <2>2, <2>3, <2>4, <3>1 DEF Arrived
    <3>2. live'[n] = want[o][n]
      <4>1. n \in DOMAIN live /\ n # Append(n, o) BY <2>2 DEF CanSwap
      <4> QED BY <2>3, <2>4, <4>1
    <3> QED BY <2>3, <3>1, <3>2
  <2>8. CASE todo = {n}
    <3>1. op'[o].pc = "drop" /\ op'[o].todo = tables
      BY <1>a, <2>3, <2>8 DEF Swapped, Request
    <3>2. tables \ (todo \ {n}) = tables BY <2>8
    <3> HIDE DEF tables, todo
    <3>3. \A m \in tables : live'[m] = want'[o][m] \/ live'[m] > since'[o] BY <2>7, <3>2
    <3>4. DOMAIN live' = tables \cup {Append(m, o) : m \in tables} BY <2>6, <3>2
    <3> QED BY <2>3, <2>4, <2>5, <3>1, <3>3, <3>4 DEF Progress, Arrived, RollbackOf
  <2>9. CASE todo # {n}
    <3>1. op'[o].pc = "swap" /\ op'[o].todo = todo \ {n}
      BY <1>a, <2>1, <2>3, <2>9 DEF Swapped, Request
    <3>2. DOMAIN shadow'[o] = todo \ {n} /\ \A m \in todo \ {n} : shadow'[o][m] = want'[o][m]
      BY <2>3, <2>4 DEF Restrict
    <3> HIDE DEF tables, todo
    <3> QED BY <2>3, <2>4, <2>5, <2>6, <2>7, <3>1, <3>2 DEF Progress, Arrived, RollbackOf
  <2> QED BY <2>8, <2>9
<1>10. ASSUME NEW n \in op[o].todo, Swap(o, n), RenameRefused(o, n) PROVE Progress(o)'
  <2>1. op[o].pc = "swap" BY <1>10 DEF Swap
  <2>2. CanSwap(o, n) BY <1>b, <2>1, Exchangeable DEF CalmInv
  <2>3. Head(n) \in Pinned BY <1>10, <2>2 DEF RenameRefused
  <2>4. op'[o].pc = "cleanup" /\ op'[o].todo = op[o].todo
    BY <1>10, <1>a DEF RenameRefused, Request
  <2> QED BY <2>3, <2>4 DEF Progress
<1>11. ASSUME NEW n \in op[o].todo, DropRollback(o, n), Referenced(o, n) PROVE Progress(o)'
  <2>1. op[o].pc = "drop" BY <1>11 DEF DropRollback
  <2>2. /\ op'[o].pc = "cleanup" /\ op'[o].tables = op[o].tables
        /\ UNCHANGED <<live, want, since>>
    BY <1>11, <1>a DEF DropRollback, history, Request
  <2>3. /\ DOMAIN want[o] = op[o].tables /\ op[o].tables \subseteq DOMAIN live
        /\ Arrived(o, op[o].tables)
    BY <1>b, <2>1 DEF Progress
  <2> QED BY <2>2, <2>3 DEF Progress, Arrived
<1>7. ASSUME NEW n \in op[o].todo, DropRollback(o, n), ~Referenced(o, n) PROVE Progress(o)'
  <2> DEFINE tables == op[o].tables
             todo == op[o].todo
  <2>1. op[o].pc = "drop" BY <1>7 DEF DropRollback
  <2>2. /\ n \in tables /\ Append(n, o) \in DOMAIN live
        /\ \A m \in tables : m \in Names /\ Append(n, o) # m
        /\ \A m \in tables : Append(m, o) = Append(n, o) => m = n
    BY <1>b, <2>1, Exchangeable DEF CalmInv
  <2>3. /\ live' = Restrict(live, DOMAIN live \ {Append(n, o)})
        /\ want'[o] = want[o] /\ since'[o] = since[o]
        /\ op'[o].tables = tables /\ op'[o].todo = todo \ {n}
        /\ op'[o].pc = IF todo = {n} THEN "dropSchema" ELSE "drop"
    BY <1>7, <1>a, <2>2 DEF DropRollback, history, Request
  <2>4. /\ \A m \in tables : ~RollbackOf(m, o)
        /\ DOMAIN want[o] = tables
        /\ DOMAIN live = tables \cup {Append(m, o) : m \in todo}
        /\ Arrived(o, tables)
    BY <1>b, <2>1 DEF Progress
  <2>5. todo \subseteq tables BY DEF CalmInv, TypeOK
  <2>6. DOMAIN live' = tables \cup {Append(m, o) : m \in todo \ {n}}
    <3>1. {Append(m, o) : m \in todo \ {n}} = {Append(m, o) : m \in todo} \ {Append(n, o)}
      BY <2>2, <2>5
    <3>2. DOMAIN live' = DOMAIN live \ {Append(n, o)} BY <2>3 DEF Restrict
    <3>3. Append(n, o) \notin tables BY <2>2
    <3> QED BY <2>4, <3>1, <3>2, <3>3
  <2>7. \A m \in tables : live'[m] = want'[o][m] \/ live'[m] > since'[o]
    BY <2>2, <2>3, <2>4 DEF Restrict, Arrived
  <2> HIDE DEF tables, todo
  <2>8. CASE todo = {n}
    <3>1. DOMAIN live' = tables BY <2>6, <2>8
    <3> QED BY <2>3, <2>4, <2>7, <2>8, <3>1 DEF Progress, Arrived, RollbackOf
  <2>9. CASE todo # {n}
    BY <2>3, <2>4, <2>6, <2>7, <2>9 DEF Progress, Arrived, RollbackOf
  <2> QED BY <2>8, <2>9
<1>8. ASSUME DropSchema(o) PROVE Progress(o)'
  <2>1. op'[o].pc = "done" BY <1>8, <1>a DEF DropSchema, Request
  <2> QED BY <1>1, <2>1
<1>9. ASSUME Cleanup(o) PROVE Progress(o)'
  <2>1. op'[o].pc = "failed" BY <1>9, <1>a DEF Cleanup, Request
  <2> QED BY <1>2, <2>1
<1>12. ASSUME Exchange(o) PROVE Progress(o)'
  BY <1>6, <1>7, <1>10, <1>11, <1>12 DEF Exchange, Swap
<1> QED BY <1>3, <1>4, <1>5, <1>8, <1>9, <1>12
        DEF Works, DumpDone, Trim, Unlink, CreateSchema

\* A write of the application is newer than any swap.
LEMMA ProgressWrite ==
  ASSUME TypeOK, NEW o \in Ops, Progress(o), since[o] <= writes, op'[o] = op[o],
         NEW t \in Tables, AppWrite(t)
  PROVE  Progress(o)'
<1>1. /\ DOMAIN live' = DOMAIN live /\ UNCHANGED <<shadow, want, since>>
      /\ \A m \in DOMAIN live : live'[m] = live[m] \/ live'[m] = writes + 1
  BY DEF AppWrite, history
<1>2. writes + 1 > since[o] BY RestoreAssumption DEF TypeOK, Versions
<1>3. ASSUME NEW S, S \subseteq DOMAIN live, Arrived(o, S) PROVE Arrived(o, S)'
  BY <1>1, <1>2, <1>3 DEF Arrived
<1>4. ASSUME op[o].pc \in {"swap", "drop", "dropSchema"} PROVE op[o].tables \subseteq DOMAIN live
  BY <1>4 DEF Progress
<1>5. op[o].pc = "swap" => Arrived(o, op[o].tables \ op[o].todo)'
  BY <1>3, <1>4 DEF Progress
<1>6. op[o].pc \in {"drop", "dropSchema"} => Arrived(o, op[o].tables)'
  BY <1>3, <1>4 DEF Progress
<1>8. ASSUME op[o].pc = "cleanup", op[o].tables \subseteq DOMAIN live, Arrived(o, op[o].tables)
      PROVE  Arrived(o, op[o].tables)'
  BY <1>3, <1>8
<1>7. \A S : Arrived(o, S)' = (\A n \in S : live'[n] = want'[o][n] \/ live'[n] > since'[o])
  BY DEF Arrived
<1> QED BY <1>1, <1>5, <1>6, <1>8 DEF Progress, RollbackOf, Arrived

LEMMA ExchangesStep == CalmInv /\ Next => Exchanges'
<1> SUFFICES ASSUME CalmInv, Next, NEW o \in Ops
             PROVE  since'[o] <= writes' /\ (o \notin disturbed' => Progress(o)')
  BY DEF Exchanges, Calm
<1>1. TypeOK /\ Alone /\ Exchanges BY DEF CalmInv
<1>2. since'[o] <= writes' BY <1>1, SinceStep
<1> SUFFICES ASSUME o \notin disturbed' PROVE Progress(o)' BY <1>2
<1>3. Calm(o) BY <1>1, Disturbs DEF Calm
<1>4. Progress(o) /\ since[o] <= writes BY <1>1, <1>3 DEF Exchanges
<1>5. CASE Works(o) BY <1>3, <1>5, ProgressWorks
<1>6. CASE Active(o) /\ ~Works(o)
  <2>1. op'[o] = op[o] /\ \E t \in Tables : AppWrite(t) BY <1>1, <1>6, CalmStep
  <2> QED BY <1>1, <1>4, <2>1, ProgressWrite
<1>7. CASE ~Active(o) /\ ~Works(o)
  <2>1. CASE Starts(o)
    <3>1. op'[o].pc \in {"dump", "refused"} BY <1>1, <2>1, StepOf
    <3> QED BY <3>1 DEF Progress
  <2>2. CASE op'[o] = op[o]
    <3>1. op'[o].pc \notin Working BY <1>7, <2>2 DEF Active
    <3> QED BY <3>1 DEF Progress, Working
  <2>3. ~Fails(o) BY <1>1, <1>7, StepOf
  <2> QED BY <1>1, <1>7, <2>1, <2>2, <2>3, FateOf
<1> QED BY <1>5, <1>6, <1>7

LEMMA InitCalm == Init => CalmInv
<1> SUFFICES ASSUME Init PROVE CalmInv OBVIOUS
<1>1. TypeOK BY InitType
<1>2. \A o \in Ops : /\ op[o].pc = "idle" /\ op[o].tables = {} /\ since[o] = 0
                     /\ DOMAIN shadow[o] = {}
  BY DEF Init, Empty
<1>3. Alone /\ Kinds BY <1>2 DEF Alone, Kinds, Active, Working, Shadowing
<1>4. Listings
  <2>1. files = <<[id |-> Old, whole |-> TRUE], [id |-> Good, whole |-> TRUE]>> BY DEF Init
  <2>2. Len(files) = 2 /\ files[1].id = Old /\ files[2].id = Good BY <2>1
  <2>3. \A o \in Ops : Dump(o) # Old /\ Dump(o) # Good BY DumpNames
  <2>4. \A i \in 1..Len(files) : files[i].id \in {Old, Good} BY <2>2
  <2> QED BY <2>3, <2>4 DEF Listings, Ids, Once
<1>5. Snapshots BY <1>2 DEF Snapshots, Snapshot, Shadowing
<1>6. Unswapped
  <2>1. \A m \in DOMAIN live : Len(m) = 1 BY DEF Init
  <2> QED BY <1>2, <2>1 DEF Unswapped, RollbackOf
<1>7. Countable
  <2>1. ASSUME NEW S, IsFiniteSet(S) PROVE IsFiniteSet({<<t>> : t \in S})
    <3> DEFINE f == [t \in S |-> <<t>>]
    <3>1. f \in Surjection(S, {<<t>> : t \in S}) BY DEF Surjection
    <3> QED BY <2>1, <3>1, FS_Surjection
  <2>2. IsFiniteSet(DOMAIN live) BY <2>1, RestoreAssumption DEF Init
  <2>3. \A o \in Ops : IsFiniteSet(DOMAIN shadow[o]) BY <1>2, FS_EmptySet
  <2>4. ASSUME NEW f \in FileId PROVE IsFiniteSet(DOMAIN content[f])
    <3>1. content[f] \in {Released(OldTables), Released(Tables), Empty} BY DEF Init
    <3>2. /\ DOMAIN Released(OldTables) = {<<t>> : t \in OldTables}
          /\ DOMAIN Released(Tables) = {<<t>> : t \in Tables}
          /\ DOMAIN Empty = {}
      BY DEF Released, Empty
    <3> QED BY <2>1, <3>1, <3>2, RestoreAssumption, FS_EmptySet
  <2> QED BY <2>2, <2>3, <2>4 DEF Countable
<1>8. Exchanges
  <2>1. \A o \in Ops : since[o] <= writes BY <1>2 DEF Init
  <2> QED BY <1>2, <2>1 DEF Exchanges, Progress
<1> QED BY <1>1, <1>3, <1>4, <1>5, <1>6, <1>7, <1>8 DEF CalmInv

LEMMA NextCalm == CalmInv /\ [Next]_vars => CalmInv'
<1>1. ASSUME CalmInv, Next PROVE CalmInv'
  <2>1. TypeOK' BY <1>1, NextType DEF CalmInv
  <2>2. Alone' BY <1>1, AloneStep DEF CalmInv
  <2>3. Kinds' BY <1>1, KindsStep DEF CalmInv
  <2>4. Listings' BY <1>1, ListingsStep DEF CalmInv
  <2>5. Snapshots' BY <1>1, SnapshotsStep DEF CalmInv
  <2>6. Unswapped' BY <1>1, UnswappedStep DEF CalmInv
  <2>7. Countable' BY <1>1, CountableStep DEF CalmInv
  <2>8. Exchanges' BY <1>1, ExchangesStep
  <2> QED BY <2>1, <2>2, <2>3, <2>4, <2>5, <2>6, <2>7, <2>8 DEF CalmInv
<1>2. ASSUME CalmInv, UNCHANGED vars PROVE CalmInv'
  <2> USE <1>2 DEF CalmInv, vars
  <2>1. TypeOK' BY NextType
  <2>2. Alone' BY DEF Alone, Calm, Active
  <2>3. Kinds' BY DEF Kinds, Active
  <2>4. Listings' BY DEF Listings, Once, Ids
  <2>5. Snapshots' BY DEF Snapshots, Snapshot, Calm, Whole
  <2>6. Unswapped' BY DEF Unswapped, RollbackOf
  <2>7. Countable' BY DEF Countable
  <2>8. Exchanges' BY DEF Exchanges, Progress, Calm, Arrived, RollbackOf
  <2> QED BY <2>1, <2>2, <2>3, <2>4, <2>5, <2>6, <2>7, <2>8
<1> QED BY <1>1, <1>2

LEMMA CalmInvariance == Spec => []CalmInv
BY InitCalm, NextCalm, PTL DEF Spec

\* A restore that nothing disturbed and that meets an error has replaced none of
\* the live tables or all of them, unless a table MySQL may refuse to exchange was
\* left: the lists restore.ts compares before the first RENAME leave no other
\* reason to stop between two.
THEOREM HalfwayOnlyIfPinned == Spec => []HalfwayMeansPinned
<1>1. CalmInv => HalfwayMeansPinned
  BY DEF CalmInv, Exchanges, Progress, Arrived, InPlace, HalfwayMeansPinned
<1> QED BY <1>1, CalmInvariance, PTL

\* As long as a restore nothing disturbed works on the tables, the retention has
\* not touched the complete dump of what they held.
THEOREM SnapshotStays == Spec => []SnapshotAtHand
<1>1. CalmInv => SnapshotAtHand
  BY DEF CalmInv, Kinds, Snapshots, Snapshot, SnapshotAtHand
<1> QED BY <1>1, CalmInvariance, PTL

\* A restore that nothing disturbed and that reports success leaves the tables of
\* its source, no other, with the source's contents or later writes.
THEOREM SuccessIsComplete == Spec => RestoredInFull
<1>1. CalmInv /\ [Next]_vars =>
        [\A o \in Ops :
           op[o].pc = "dropSchema" /\ op'[o].pc = "done" /\ Calm(o) =>
             /\ DOMAIN live = DOMAIN want[o]
             /\ \A n \in DOMAIN live : InPlace(o, n)]_vars
  BY DEF CalmInv, Exchanges, Progress, Arrived, InPlace
<1> QED BY <1>1, CalmInvariance, PTL DEF Spec, RestoredInFull

=============================================================================
