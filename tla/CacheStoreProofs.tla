-------------------------- MODULE CacheStoreProofs --------------------------
(***************************************************************************)
(* Theorems about CacheStore: type correctness, and that the copies of a   *)
(* part agree unless they are known to be torn, for any number of jobs,    *)
(* changes on GitHub and faults.                                           *)
(***************************************************************************)
EXTENDS CacheStore, FiniteSetTheorems, TLAPS

JobsOK ==
  /\ writer \in [Writers -> Job]
  /\ \A w \in Writers : writer[w].pc \in {"read", "write"} <=> writer[w].left # <<>>
CopiesOK ==
  /\ exists \in BOOLEAN /\ columns \in Versions /\ metadata \in [Parts -> Versions]
  /\ table \in [Facets -> Versions] /\ etag \in [Parts -> Versions]
OthersOK ==
  /\ github \in [Parts -> Versions \ {Empty}]
  /\ changes \in 0..MaxChanges /\ faults \in 0..MaxFaults
  /\ raced \subseteq Writers /\ torn \subseteq Parts

LEMMA TypeParts == TypeOK <=> JobsOK /\ CopiesOK /\ OthersOK
BY DEF TypeOK, JobsOK, CopiesOK, OthersOK

Lefts == {<<>>, <<"releases">>, <<"branches">>, <<"releases", "branches">>}

\* What is left to store after the head is left still.
LEMMA LeftFacts ==
  ASSUME NEW l \in Lefts, l # <<>>
  PROVE  Head(l) \in Facets /\ Tail(l) \in Lefts
<1>1. CASE l = <<"releases">>
  <2>1. Head(l) = "releases" /\ Tail(l) = <<>> BY <1>1
  <2> QED BY <2>1 DEF Lefts, Facets
<1>2. CASE l = <<"branches">>
  <2>1. Head(l) = "branches" /\ Tail(l) = <<>> BY <1>2
  <2> QED BY <2>1 DEF Lefts, Facets
<1>3. CASE l = <<"releases", "branches">>
  <2>1. Head(l) = "releases" /\ Tail(l) = <<"branches">> BY <1>3
  <2> QED BY <2>1 DEF Lefts, Facets
<1> QED BY <1>1, <1>2, <1>3 DEF Lefts

LEMMA Constants ==
  /\ Empty \in Versions /\ NoTag \in Versions /\ "core" \in Parts /\ Facets \subseteq Parts
  /\ Blank \in [Parts -> Versions] /\ <<>> \in Lefts
BY CacheStoreAssumption DEF Empty, NoTag, Versions, Parts, Facets, Blank, Lefts

LEMMA IdleType == Idle \in Job /\ Idle.pc = "idle" /\ Idle.left = <<>>
BY Constants DEF Idle, Job, Lefts

LEMMA InitType == Init => TypeOK
<1> SUFFICES ASSUME Init PROVE TypeOK OBVIOUS
<1> USE Constants, CacheStoreAssumption DEF Init
<1>1. JobsOK BY IdleType DEF JobsOK
<1>2. CopiesOK BY DEF CopiesOK
<1>3. 1 \in Versions \ {Empty} BY DEF Versions, Empty
<1>4. 0 \in 0..MaxChanges /\ 0 \in 0..MaxFaults OBVIOUS
<1>5. OthersOK BY <1>3, <1>4 DEF OthersOK
<1> QED BY <1>1, <1>2, <1>5, TypeParts

\* One job becomes r.
LEMMA BecomesType ==
  ASSUME JobsOK, NEW w \in Writers, NEW r \in Job, writer' = [writer EXCEPT ![w] = r],
         r.pc \in {"read", "write"} <=> r.left # <<>>
  PROVE  JobsOK'
BY DEF JobsOK

\* GitHub's versions stay within Versions because each change is counted.
GithubOK == \A p \in Parts : github[p] <= changes + 1

TypeInv == TypeOK /\ GithubOK

LEMMA JobParts ==
  ASSUME NEW j \in Job
  PROVE  /\ j.pc \in {"idle", "fetch", "extras", "store", "read", "write"}
         /\ j.kind \in Parts /\ j.sent \in Versions /\ j.tag \in Versions
         /\ j.got \in [Parts -> Versions] /\ j.base \in [Parts -> Versions]
         /\ j.left \in Lefts
         /\ j = [pc |-> j.pc, kind |-> j.kind, sent |-> j.sent, tag |-> j.tag,
                 got |-> j.got, base |-> j.base, left |-> j.left]
BY DEF Job, Lefts

LEMMA StartType ==
  ASSUME NEW k \in Parts, NEW s \in Versions
  PROVE  [Idle EXCEPT !.pc = "fetch", !.kind = k, !.sent = s] \in Job
BY IdleType, Constants DEF Idle, Job, Lefts

LEMMA FetchedType ==
  ASSUME NEW j \in Job, NEW k \in Parts, NEW v \in Versions,
         NEW pc \in {"extras", "read"}, NEW left \in Lefts
  PROVE  [j EXCEPT !.got[k] = v, !.tag = v, !.sent = NoTag, !.pc = pc, !.left = left] \in Job
BY JobParts, Constants DEF Job, Lefts

LEMMA ExtrasType ==
  ASSUME NEW j \in Job, NEW got \in [Parts -> Versions]
  PROVE  [j EXCEPT !.got = got, !.pc = "store"] \in Job
BY JobParts, Constants DEF Job, Lefts

LEMMA StoreCoreType ==
  ASSUME NEW j \in Job
  PROVE  [j EXCEPT !.pc = "read", !.left = <<"releases", "branches">>,
                   !.got["core"] = Empty, !.tag = NoTag] \in Job
BY JobParts, Constants DEF Job, Lefts

LEMMA ReadType ==
  ASSUME NEW j \in Job, NEW b \in [Parts -> Versions]
  PROVE  [j EXCEPT !.pc = "write", !.base = b] \in Job
BY JobParts, Constants DEF Job, Lefts

LEMMA StoreFacetType ==
  ASSUME NEW j \in Job, NEW f \in Facets, NEW left \in Lefts
  PROVE  [j EXCEPT !.pc = "read", !.left = left, !.got[f] = Empty, !.base = Blank] \in Job
BY JobParts, Constants DEF Job, Lefts

LEMMA NextType ==
  ASSUME TypeInv, [Next]_vars
  PROVE  TypeInv'
<1> USE Constants, CacheStoreAssumption
<1>0. JobsOK /\ CopiesOK /\ OthersOK /\ GithubOK BY TypeParts DEF TypeInv
<1> SUFFICES JobsOK' /\ CopiesOK' /\ OthersOK' /\ GithubOK'
  BY DEF TypeInv, TypeOK, JobsOK, CopiesOK, OthersOK, GithubOK
<1>1. ASSUME NEW p \in Parts, GitHubChanges(p)
      PROVE  JobsOK' /\ CopiesOK' /\ OthersOK' /\ GithubOK'
  <2>1. /\ changes \in Nat /\ changes < MaxChanges /\ changes' = changes + 1
        /\ github' = [github EXCEPT ![p] = @ + 1]
        /\ github \in [Parts -> Versions \ {Empty}]
        /\ UNCHANGED <<row, writer, faults, history>>
    BY <1>0, <1>1 DEF GitHubChanges, OthersOK
  <2>2. \A q \in Parts : github'[q] \in Versions \ {Empty} /\ github'[q] <= changes' + 1
    BY <1>0, <2>1 DEF GithubOK, Versions, Empty
  <2>3. OthersOK' /\ GithubOK'
    BY <1>0, <2>1, <2>2 DEF OthersOK, GithubOK, row, history
  <2>4. JobsOK' /\ CopiesOK' BY <1>0, <2>1 DEF JobsOK, CopiesOK, row
  <2> QED BY <2>3, <2>4
<1>2. ASSUME NEW w \in Writers, NEW k \in Parts, Start(w, k)
      PROVE  JobsOK' /\ CopiesOK' /\ OthersOK' /\ GithubOK'
  <2> DEFINE s == IF exists THEN etag[k] ELSE NoTag
             r == [Idle EXCEPT !.pc = "fetch", !.kind = k, !.sent = s]
  <2>1. s \in Versions BY <1>0 DEF CopiesOK
  <2>2. r \in Job BY <2>1, StartType
  <2>3. r.pc = "fetch" /\ r.left = <<>> BY DEF Idle
  <2>4. writer' = [writer EXCEPT ![w] = r] /\ UNCHANGED <<github, row, changes, faults, history>>
    BY <1>2 DEF Start
  <2> HIDE DEF r
  <2>5. JobsOK' BY <1>0, <2>2, <2>3, <2>4, BecomesType
  <2> QED BY <1>0, <2>4, <2>5 DEF CopiesOK, OthersOK, GithubOK, row, history
<1>3. ASSUME NEW w \in Writers, NotModified(w)
      PROVE  JobsOK' /\ CopiesOK' /\ OthersOK' /\ GithubOK'
  <2>1. JobsOK' BY <1>0, <1>3, IdleType, BecomesType DEF NotModified
  <2> QED BY <1>0, <1>3, <2>1 DEF NotModified, CopiesOK, OthersOK, GithubOK, row, history
<1>4. ASSUME NEW w \in Writers, Fetched(w)
      PROVE  JobsOK' /\ CopiesOK' /\ OthersOK' /\ GithubOK'
  <2> DEFINE j == writer[w]
             k == j.kind
             pc == IF k = "core" THEN "extras" ELSE "read"
             left == IF k = "core" THEN <<>> ELSE <<k>>
             r == [j EXCEPT !.got[k] = github[k], !.tag = github[k], !.sent = NoTag,
                            !.pc = pc, !.left = left]
  <2>1. j \in Job BY <1>0 DEF JobsOK
  <2>2. k \in Parts /\ github[k] \in Versions BY <1>0, <2>1, JobParts DEF OthersOK
  <2>3. /\ pc \in {"extras", "read"} /\ left \in Lefts
        /\ pc \in {"read", "write"} <=> left # <<>>
    BY <2>2 DEF Parts, Facets, Lefts
  <2>4. r \in Job BY <2>1, <2>2, <2>3, FetchedType
  <2>5. r.pc = pc /\ r.left = left BY <2>1 DEF Job
  <2>6. writer' = [writer EXCEPT ![w] = r] /\ UNCHANGED <<github, row, changes, faults, history>>
    BY <1>4 DEF Fetched
  <2> HIDE DEF r
  <2>7. JobsOK' BY <1>0, <2>3, <2>4, <2>5, <2>6, BecomesType
  <2> QED BY <1>0, <2>6, <2>7 DEF CopiesOK, OthersOK, GithubOK, row, history
<1>5. ASSUME NEW w \in Writers, Extras(w)
      PROVE  JobsOK' /\ CopiesOK' /\ OthersOK' /\ GithubOK'
  <2>1. PICK failed \in SUBSET Facets :
          /\ faults' = faults + Cardinality(failed) /\ faults' <= MaxFaults
          /\ writer' = [writer EXCEPT ![w] =
               [@ EXCEPT !.got = Lists(writer[w].got, failed), !.pc = "store"]]
    BY <1>5 DEF Extras
  <2>2. writer[w].pc = "extras" /\ UNCHANGED <<github, row, changes, history>>
    BY <1>5 DEF Extras
  <2> DEFINE j == writer[w]
             r == [j EXCEPT !.got = Lists(j.got, failed), !.pc = "store"]
  <2>3. j \in Job BY <1>0 DEF JobsOK
  <2>4. Lists(j.got, failed) \in [Parts -> Versions]
    BY <1>0, <2>3, JobParts DEF Lists, OthersOK
  <2>5. r \in Job BY <2>3, <2>4, ExtrasType
  <2>6. r.pc = "store" /\ r.left = j.left BY <2>3 DEF Job
  <2>7. j.left = <<>> BY <1>0, <2>2 DEF JobsOK
  <2>8. writer' = [writer EXCEPT ![w] = r] BY <2>1
  <2> HIDE DEF r
  <2>9. JobsOK' BY <1>0, <2>5, <2>6, <2>7, <2>8, BecomesType
  <2>10. faults' \in 0..MaxFaults
    <3>1. IsFiniteSet(Facets)
      <4>1. Facets = {"releases"} \cup {"branches"} BY DEF Facets
      <4> QED BY <4>1, FS_Singleton, FS_AddElement
    <3>2. Cardinality(failed) \in Nat BY <3>1, FS_Subset, FS_CardinalityType
    <3> QED BY <1>0, <2>1, <3>2 DEF OthersOK
  <2> QED BY <1>0, <2>2, <2>9, <2>10 DEF CopiesOK, OthersOK, GithubOK, row, history
<1>6. ASSUME NEW w \in Writers, StoreCore(w)
      PROVE  JobsOK' /\ CopiesOK' /\ OthersOK' /\ GithubOK'
  <2> DEFINE j == writer[w]
             r == [j EXCEPT !.pc = "read", !.left = <<"releases", "branches">>,
                            !.got["core"] = Empty, !.tag = NoTag]
  <2>1. j \in Job BY <1>0 DEF JobsOK
  <2>2. r \in Job BY <2>1, StoreCoreType
  <2>3. r.pc = "read" /\ r.left # <<>> BY <2>1 DEF Job
  <2>4. /\ writer' = [writer EXCEPT ![w] = r]
        /\ exists' = TRUE /\ columns' = j.got["core"] /\ metadata' = j.got
        /\ etag' = [etag EXCEPT !["core"] = j.tag]
        /\ Outdate(w) /\ torn' = Facets
        /\ UNCHANGED <<github, table, changes, faults>>
    BY <1>6 DEF StoreCore
  <2> HIDE DEF r
  <2>5. JobsOK' BY <1>0, <2>2, <2>3, <2>4, BecomesType
  <2>6. j.got \in [Parts -> Versions] /\ j.tag \in Versions BY <2>1, JobParts
  <2>7. CopiesOK' BY <1>0, <2>4, <2>6 DEF CopiesOK
  <2>8. OthersOK' /\ GithubOK' BY <1>0, <2>4 DEF OthersOK, GithubOK, Outdate
  <2> QED BY <2>5, <2>7, <2>8
<1>7. ASSUME NEW w \in Writers, ReadMetadata(w)
      PROVE  JobsOK' /\ CopiesOK' /\ OthersOK' /\ GithubOK'
  <2> DEFINE j == writer[w]
             r == [j EXCEPT !.pc = "write", !.base = metadata]
  <2>1. j \in Job /\ j.left # <<>> BY <1>0, <1>7 DEF JobsOK, ReadMetadata
  <2>2. r \in Job BY <1>0, <2>1, ReadType DEF CopiesOK
  <2>3. r.pc = "write" /\ r.left = j.left BY <2>1 DEF Job
  <2>4. writer' = [writer EXCEPT ![w] = IF exists THEN r ELSE Idle]
    BY <1>7 DEF ReadMetadata
  <2>5. raced' = raced \ {w} /\ UNCHANGED <<github, row, changes, faults, torn>>
    BY <1>7 DEF ReadMetadata
  <2> HIDE DEF r
  <2>6. JobsOK'
    <3>1. CASE exists BY <1>0, <2>1, <2>2, <2>3, <2>4, <3>1, BecomesType
    <3>2. CASE ~exists BY <1>0, <2>4, <3>2, IdleType, BecomesType
    <3> QED BY <3>1, <3>2
  <2> QED BY <1>0, <2>5, <2>6 DEF CopiesOK, OthersOK, GithubOK, row
<1>8. ASSUME NEW w \in Writers, StoreFacet(w)
      PROVE  JobsOK' /\ CopiesOK' /\ OthersOK' /\ GithubOK'
  <2> DEFINE j == writer[w]
             f == Head(j.left)
             rest == Tail(j.left)
             r == [j EXCEPT !.pc = "read", !.left = rest, !.got[f] = Empty, !.base = Blank]
  <2>1. j \in Job /\ j.left # <<>> BY <1>0, <1>8 DEF JobsOK, StoreFacet
  <2>2. f \in Facets /\ rest \in Lefts BY <2>1, JobParts, LeftFacts
  <2>3. r \in Job BY <2>1, <2>2, StoreFacetType
  <2>4. r.pc = "read" /\ r.left = rest BY <2>1 DEF Job
  <2>5. writer' = [writer EXCEPT ![w] = IF rest = <<>> THEN Idle ELSE r]
    BY <1>8 DEF StoreFacet
  <2>6. /\ table' = [table EXCEPT ![f] = j.got[f]]
        /\ metadata' = [j.base EXCEPT ![f] = j.got[f]]
        /\ etag' = IF j.kind = f THEN [etag EXCEPT ![f] = j.tag] ELSE etag
        /\ Outdate(w)
        /\ torn' = (IF w \in raced THEN Parts ELSE torn) \ {f}
        /\ UNCHANGED <<github, exists, columns, changes, faults>>
    BY <1>8 DEF StoreFacet
  <2>7. j.got \in [Parts -> Versions] /\ j.base \in [Parts -> Versions] /\ j.tag \in Versions
    BY <2>1, JobParts
  <2> HIDE DEF r, f, rest, j
  <2>8. JobsOK'
    <3>1. CASE rest = <<>> BY <1>0, <2>5, <3>1, IdleType, BecomesType
    <3>2. CASE rest # <<>> BY <1>0, <2>3, <2>4, <2>5, <3>2, BecomesType
    <3> QED BY <3>1, <3>2
  <2>9. CopiesOK'
    <3>1. etag' \in [Parts -> Versions] BY <1>0, <2>2, <2>6, <2>7 DEF CopiesOK
    <3>2. metadata' \in [Parts -> Versions] BY <2>2, <2>6, <2>7
    <3>3. table' \in [Facets -> Versions] BY <1>0, <2>2, <2>6, <2>7 DEF CopiesOK
    <3> QED BY <1>0, <2>6, <3>1, <3>2, <3>3 DEF CopiesOK
  <2>10. OthersOK' /\ GithubOK' BY <1>0, <2>6 DEF OthersOK, GithubOK, Outdate
  <2> QED BY <2>8, <2>9, <2>10
<1>9. ASSUME NEW w \in Writers, Abandon(w)
      PROVE  JobsOK' /\ CopiesOK' /\ OthersOK' /\ GithubOK'
  <2>1. JobsOK' BY <1>0, <1>9, IdleType, BecomesType DEF Abandon
  <2>2. faults' \in 0..MaxFaults BY <1>0, <1>9 DEF Abandon, OthersOK
  <2> QED BY <1>0, <1>9, <2>1, <2>2 DEF Abandon, CopiesOK, OthersOK, GithubOK, row, history
<1>10. ASSUME UNCHANGED vars PROVE JobsOK' /\ CopiesOK' /\ OthersOK' /\ GithubOK'
  BY <1>0, <1>10 DEF vars, JobsOK, CopiesOK, OthersOK, GithubOK
<1> QED
  BY <1>1, <1>2, <1>3, <1>4, <1>5, <1>6, <1>7, <1>8, <1>9, <1>10 DEF Next, Progress

\* Every reachable state is well typed: no job runs past its last list, and
\* no version is stored that GitHub never had.
THEOREM CacheTypeOK == Spec => []TypeOK
<1>1. Init => TypeInv
  <2>1. Init => GithubOK BY DEF Init, GithubOK
  <2> QED BY <2>1, InitType DEF TypeInv
<1>2. TypeInv /\ [Next]_vars => TypeInv' BY NextType
<1>3. TypeInv => TypeOK BY DEF TypeInv
<1> QED BY <1>1, <1>2, <1>3, PTL DEF Spec

-----------------------------------------------------------------------------
\* A writer about to merge holds the JSON as it is, unless it is known that
\* another has outdated it.
HeldBy(w) == writer[w].pc = "write" /\ w \notin raced => writer[w].base = metadata
Held == \A w \in Writers : HeldBy(w)

Inv == TypeInv /\ Held /\ MirrorMatches

\* A step that stores nothing and leaves the job r holding no other JSON.
LEMMA QuietStep ==
  ASSUME Inv, NEW w \in Writers, NEW r, writer' = [writer EXCEPT ![w] = r],
         r.pc # "write", UNCHANGED <<row, history>>
  PROVE  Held' /\ MirrorMatches'
<1>1. writer \in [Writers -> Job] BY TypeParts DEF Inv, TypeInv, JobsOK
<1>2. Held' BY <1>1 DEF Inv, Held, HeldBy, row, history
<1>3. MirrorMatches' BY DEF Inv, MirrorMatches, row, history
<1> QED BY <1>2, <1>3

LEMMA InvStep ==
  ASSUME Inv, [Next]_vars
  PROVE  Held' /\ MirrorMatches'
<1>0. /\ JobsOK /\ CopiesOK /\ OthersOK /\ Held /\ MirrorMatches
      /\ writer \in [Writers -> Job]
  BY TypeParts DEF Inv, TypeInv, JobsOK
<1>1. ASSUME NEW p \in Parts, GitHubChanges(p) PROVE Held' /\ MirrorMatches'
  BY <1>0, <1>1 DEF GitHubChanges, Held, HeldBy, MirrorMatches, row, history
<1>2. ASSUME NEW w \in Writers, NEW k \in Parts, Start(w, k) PROVE Held' /\ MirrorMatches'
  <2> DEFINE r == [Idle EXCEPT !.pc = "fetch", !.kind = k,
                               !.sent = IF exists THEN etag[k] ELSE NoTag]
  <2>1. writer' = [writer EXCEPT ![w] = r] /\ UNCHANGED <<row, history>>
    BY <1>2 DEF Start
  <2>2. r.pc # "write" BY DEF Idle
  <2> HIDE DEF r
  <2> QED BY <2>1, <2>2, QuietStep
<1>3. ASSUME NEW w \in Writers, NotModified(w) \/ Abandon(w) PROVE Held' /\ MirrorMatches'
  <2>1. writer' = [writer EXCEPT ![w] = Idle] /\ UNCHANGED <<row, history>>
    BY <1>3 DEF NotModified, Abandon
  <2> QED BY <2>1, IdleType, QuietStep
<1>4. ASSUME NEW w \in Writers, Fetched(w) PROVE Held' /\ MirrorMatches'
  <2> DEFINE j == writer[w]
             k == j.kind
             pc == IF k = "core" THEN "extras" ELSE "read"
             r == [j EXCEPT !.got[k] = github[k], !.tag = github[k], !.sent = NoTag,
                            !.pc = pc, !.left = IF k = "core" THEN <<>> ELSE <<k>>]
  <2>1. writer' = [writer EXCEPT ![w] = r] /\ UNCHANGED <<row, history>>
    BY <1>4 DEF Fetched
  <2>2. j \in Job BY <1>0
  <2>3. r.pc # "write" BY <2>2 DEF Job
  <2> HIDE DEF r
  <2> QED BY <2>1, <2>3, QuietStep
<1>5. ASSUME NEW w \in Writers, Extras(w) PROVE Held' /\ MirrorMatches'
  <2>1. PICK failed \in SUBSET Facets :
          writer' = [writer EXCEPT ![w] =
            [writer[w] EXCEPT !.got = Lists(writer[w].got, failed), !.pc = "store"]]
    BY <1>5 DEF Extras
  <2> DEFINE r == [writer[w] EXCEPT !.got = Lists(writer[w].got, failed), !.pc = "store"]
  <2>2. writer[w] \in Job BY <1>0
  <2>3. r.pc # "write" BY <2>2 DEF Job
  <2>4. UNCHANGED <<row, history>> BY <1>5 DEF Extras
  <2> HIDE DEF r
  <2> QED BY <2>1, <2>3, <2>4, QuietStep DEF r
<1>6. ASSUME NEW w \in Writers, StoreCore(w) PROVE Held' /\ MirrorMatches'
  <2> DEFINE j == writer[w]
             r == [j EXCEPT !.pc = "read", !.left = <<"releases", "branches">>,
                            !.got["core"] = Empty, !.tag = NoTag]
  <2>1. /\ writer' = [writer EXCEPT ![w] = r]
        /\ columns' = j.got["core"] /\ metadata' = j.got
        /\ Outdate(w) /\ torn' = Facets
    BY <1>6 DEF StoreCore
  <2>2. j \in Job BY <1>0
  <2>3. r.pc = "read" BY <2>2 DEF Job
  <2> HIDE DEF r
  <2>4. Held' BY <1>0, <2>1, <2>3 DEF Held, HeldBy, Outdate
  <2>5. MirrorMatches' BY <2>1 DEF MirrorMatches, Parts
  <2> QED BY <2>4, <2>5
<1>7. ASSUME NEW w \in Writers, ReadMetadata(w) PROVE Held' /\ MirrorMatches'
  <2> DEFINE r == [writer[w] EXCEPT !.pc = "write", !.base = metadata]
  <2>1. /\ writer' = [writer EXCEPT ![w] = IF exists THEN r ELSE Idle]
        /\ raced' = raced \ {w} /\ UNCHANGED row /\ torn' = torn
    BY <1>7 DEF ReadMetadata
  <2>2. writer[w] \in Job BY <1>0
  <2>3. r.base = metadata BY <2>2 DEF Job
  <2> HIDE DEF r
  <2>4. writer'[w].pc # "write" \/ writer'[w].base = metadata
    BY <1>0, <2>1, <2>3, IdleType
  <2>5. metadata' = metadata BY <2>1 DEF row
  <2>6. \A v \in Writers \ {w} : writer'[v] = writer[v] /\ (v \in raced' <=> v \in raced)
    BY <1>0, <2>1
  <2>7. Held' BY <1>0, <2>4, <2>5, <2>6 DEF Held, HeldBy
  <2>8. MirrorMatches' BY <1>0, <2>1 DEF MirrorMatches, row
  <2> QED BY <2>7, <2>8
<1>8. ASSUME NEW w \in Writers, StoreFacet(w) PROVE Held' /\ MirrorMatches'
  <2> DEFINE j == writer[w]
             f == Head(j.left)
             rest == Tail(j.left)
             r == [j EXCEPT !.pc = "read", !.left = rest, !.got[f] = Empty, !.base = Blank]
  <2>1. j \in Job /\ j.left # <<>> /\ j.pc = "write" BY <1>0, <1>8 DEF JobsOK, StoreFacet
  <2>2. f \in Facets /\ f # "core" BY <2>1, JobParts, LeftFacts DEF Facets
  <2>3. r.pc = "read" BY <2>1 DEF Job
  <2>4. writer' = [writer EXCEPT ![w] = IF rest = <<>> THEN Idle ELSE r]
    BY <1>8 DEF StoreFacet
  <2>5. /\ table' = [table EXCEPT ![f] = j.got[f]]
        /\ metadata' = [j.base EXCEPT ![f] = j.got[f]]
        /\ Outdate(w)
        /\ torn' = (IF w \in raced THEN Parts ELSE torn) \ {f}
        /\ columns' = columns
    BY <1>8 DEF StoreFacet
  <2>6. j.base \in [Parts -> Versions] /\ table \in [Facets -> Versions]
    BY <1>0, <2>1, JobParts DEF CopiesOK
  <2>7. w \notin raced => j.base = metadata BY <1>0, <2>1 DEF Held, HeldBy
  <2> HIDE DEF r, f, rest, j
  <2>8. writer'[w].pc # "write" BY <1>0, <2>3, <2>4, IdleType
  <2>9. \A v \in Writers \ {w} : writer'[v] = writer[v] BY <1>0, <2>4
  <2>10. Held' BY <2>5, <2>8, <2>9 DEF Held, HeldBy, Outdate
  <2>11. ASSUME NEW p \in Parts \ torn'
         PROVE  metadata'[p] = IF p = "core" THEN columns' ELSE table'[p]
    <3>1. CASE p = f BY <2>2, <2>5, <2>6, <3>1, Constants
    <3>2. CASE p # f
      <4>1. w \notin raced /\ p \notin torn BY <2>5, <2>11, <3>2
      <4>2. metadata'[p] = metadata[p] BY <2>5, <2>6, <2>7, <3>2, <4>1
      <4>3. p = "core" \/ p \in Facets BY <2>11 DEF Parts
      <4> QED BY <1>0, <2>2, <2>5, <2>6, <3>2, <4>1, <4>2, <4>3 DEF MirrorMatches
    <3> QED BY <3>1, <3>2
  <2>12. MirrorMatches' BY <2>11 DEF MirrorMatches
  <2> QED BY <2>10, <2>12
<1>9. ASSUME UNCHANGED vars PROVE Held' /\ MirrorMatches'
  BY <1>0, <1>9 DEF vars, Held, HeldBy, MirrorMatches
<1> QED BY <1>1, <1>2, <1>3, <1>4, <1>5, <1>6, <1>7, <1>8, <1>9 DEF Next, Progress

\* The copies of a part agree, however the core and list jobs interleave,
\* unless a core job has still to mirror it or a merge has written back a
\* JSON that another job had replaced.
THEOREM CopiesAgree == Spec => []MirrorMatches
<1>1. Init => Inv
  <2> SUFFICES ASSUME Init PROVE Inv OBVIOUS
  <2>1. TypeInv BY InitType DEF Init, TypeInv, GithubOK
  <2>2. Held BY IdleType DEF Init, Held, HeldBy
  <2>3. MirrorMatches BY DEF Init, MirrorMatches, Blank, Parts, Facets
  <2> QED BY <2>1, <2>2, <2>3 DEF Inv
<1>2. Inv /\ [Next]_vars => Inv' BY NextType, InvStep DEF Inv
<1>3. Inv => MirrorMatches BY DEF Inv
<1> QED BY <1>1, <1>2, <1>3, PTL DEF Spec
=============================================================================
