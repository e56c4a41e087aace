----------------------------- MODULE CacheStore -----------------------------
(***************************************************************************)
(* The cached copy of one repository and the refresh jobs that write it.   *)
(*                                                                         *)
(* A repository has three parts: its core fields, its releases and its     *)
(* branches.  The row keeps every part in the metadata JSON, the core      *)
(* fields again in columns of their own, the two lists again in child      *)
(* tables, and an ETag per part.  A core job fetches the core fields with  *)
(* their ETag, then both lists without one; a releases or branches job     *)
(* fetches its list with its ETag.  Several jobs run at once, and each     *)
(* statement they execute is a step.                                       *)
(*                                                                         *)
(* A part's content is the number of its version on GitHub; Empty is the   *)
(* empty list stored when a list call failed, and the content of what was  *)
(* never stored.  An ETag is the version it was sent with.  The deletion   *)
(* of the row when GitHub answers 404 is in RefreshQueue.                  *)
(***************************************************************************)
EXTENDS Naturals, Sequences, FiniteSets

CONSTANTS
  Writers,      \* refresh jobs running at once
  MaxChanges,   \* bound: changes of a part on GitHub
  MaxFaults     \* bound: jobs that fail or die halfway, list calls that fail

ASSUME CacheStoreAssumption ==
  MaxChanges \in Nat /\ MaxFaults \in Nat

VARIABLES
  github,   \* the version of each part on GitHub
  exists,   \* the repositories row is there
  columns,  \* its core columns
  metadata, \* its metadata JSON
  table,    \* repo_releases and repo_branches
  etag,     \* etag, releasesEtag, branchesEtag
  writer,   \* the jobs
  changes, faults,
  raced,    \* history: writers whose copy of the JSON another has outdated
  torn      \* history: parts whose two copies need not agree for now

row == <<exists, columns, metadata, table, etag>>
history == <<raced, torn>>
vars == <<github, exists, columns, metadata, table, etag, writer, changes,
          faults, raced, torn>>

Facets == {"releases", "branches"}
Parts == Facets \cup {"core"}
Empty == 0
NoTag == 0
Versions == 0..(MaxChanges + 1)
Blank == [p \in Parts |-> Empty]

Idle == [pc |-> "idle", kind |-> "core", sent |-> NoTag, tag |-> NoTag,
         got |-> Blank, base |-> Blank, left |-> <<>>]

Init ==
  /\ github = [p \in Parts |-> 1]
  /\ exists = FALSE /\ columns = Empty /\ metadata = Blank
  /\ table = [f \in Facets |-> Empty] /\ etag = [p \in Parts |-> NoTag]
  /\ writer = [w \in Writers |-> Idle]
  /\ changes = 0 /\ faults = 0 /\ raced = {} /\ torn = {}

GitHubChanges(p) ==
  /\ changes < MaxChanges
  /\ changes' = changes + 1
  /\ github' = [github EXCEPT ![p] = @ + 1]
  /\ UNCHANGED <<row, writer, faults, history>>

-----------------------------------------------------------------------------
(* Fetching.                                                               *)

\* A job of kind k reads the row for the ETag it will send.
Start(w, k) ==
  /\ writer[w].pc = "idle"
  /\ writer' = [writer EXCEPT ![w] =
       [Idle EXCEPT !.pc = "fetch", !.kind = k,
                    !.sent = IF exists THEN etag[k] ELSE NoTag]]
  /\ UNCHANGED <<github, row, changes, faults, history>>

Confirmed(w) == writer[w].sent = github[writer[w].kind]

\* 304.  A core job only touches the row.  Octokit throws, which the list
\* fetchers take for an error: their jobs go back to pending.
NotModified(w) ==
  /\ writer[w].pc = "fetch" /\ Confirmed(w)
  /\ writer' = [writer EXCEPT ![w] = Idle]
  /\ UNCHANGED <<github, row, changes, faults, history>>

\* 200: the part the job is for, with its ETag.
Fetched(w) ==
  LET k == writer[w].kind IN
    /\ writer[w].pc = "fetch" /\ ~Confirmed(w)
    /\ writer' = [writer EXCEPT ![w] =
         [@ EXCEPT !.got[k] = github[k], !.tag = github[k], !.sent = NoTag,
                   !.pc = IF k = "core" THEN "extras" ELSE "read",
                   !.left = IF k = "core" THEN <<>> ELSE <<k>>]]
    /\ UNCHANGED <<github, row, changes, faults, history>>

\* A list whose call failed is taken as empty.
Lists(got, failed) ==
  [p \in Parts |-> IF p = "core" THEN got["core"] ELSE IF p \in failed THEN Empty ELSE github[p]]

\* Faulty variants of a definition stand just before it; the property named
\* in the comment must tell them apart.

\* The ETag is taken after the lists, not from the answer that gave the
\* data: CoreSettles.
ExtrasTagged(w) ==
  /\ writer[w].pc = "extras"
  /\ \E failed \in SUBSET Facets :
     /\ faults' = faults + Cardinality(failed) /\ faults' <= MaxFaults
     /\ writer' = [writer EXCEPT ![w] =
          [@ EXCEPT !.got = Lists(writer[w].got, failed), !.tag = github["core"], !.pc = "store"]]
  /\ UNCHANGED <<github, row, changes, history>>

\* fetchVersionExtras: both lists at once.
Extras(w) ==
  /\ writer[w].pc = "extras"
  /\ \E failed \in SUBSET Facets :
     /\ faults' = faults + Cardinality(failed) /\ faults' <= MaxFaults
     /\ writer' = [writer EXCEPT ![w] =
          [@ EXCEPT !.got = Lists(writer[w].got, failed), !.pc = "store"]]
  /\ UNCHANGED <<github, row, changes, history>>

-----------------------------------------------------------------------------
(* Storing.                                                                *)

\* Writing the JSON outdates the copies the other writers hold of it.
Outdate(w) == raced' = (raced \ {w})
                          \cup {v \in Writers \ {w} : writer[v].pc = "write"}

\* storeRepoMetadata creates the row or updates it, whichever wins a race
\* to create it, and goes on to the lists.
StoreCore(w) ==
  LET got == writer[w].got IN
    /\ writer[w].pc = "store"
    /\ exists' = TRUE /\ columns' = got["core"] /\ metadata' = got
    /\ etag' = [etag EXCEPT !["core"] = writer[w].tag]
    /\ writer' = [writer EXCEPT ![w] =
         [@ EXCEPT !.pc = "read", !.left = <<"releases", "branches">>,
                   !.got["core"] = Empty, !.tag = NoTag]]
    /\ Outdate(w) /\ torn' = Facets
    /\ UNCHANGED <<github, table, changes, faults>>

\* storeRepoReleases and storeRepoBranches read the JSON to merge into it...
ReadMetadata(w) ==
  /\ writer[w].pc = "read"
  /\ writer' = [writer EXCEPT
       ![w] = IF exists THEN [@ EXCEPT !.pc = "write", !.base = metadata]
              ELSE Idle]
  /\ raced' = raced \ {w}
  /\ UNCHANGED <<github, row, changes, faults, torn>>

\* The JSON is rebuilt from the list alone, without the other keys:
\* MirrorMatches.
StoreFacetAlone(w) ==
  LET me == writer[w]
      f == Head(me.left)
      rest == Tail(me.left)
  IN  /\ me.pc = "write"
      /\ table' = [table EXCEPT ![f] = me.got[f]]
      /\ metadata' = [Blank EXCEPT ![f] = me.got[f]]
      /\ etag' = IF me.kind = f THEN [etag EXCEPT ![f] = me.tag] ELSE etag
      /\ writer' = [writer EXCEPT
           ![w] = IF rest = <<>> THEN Idle
                  ELSE [@ EXCEPT !.pc = "read", !.left = rest,
                                 !.got[f] = Empty, !.base = Blank]]
      /\ Outdate(w)
      /\ torn' = (IF w \in raced THEN Parts ELSE torn) \ {f}
      /\ UNCHANGED <<github, exists, columns, changes, faults>>

\* ...and replace the list, the JSON and, for a list job, its ETag at once.
StoreFacet(w) ==
  LET me == writer[w]
      f == Head(me.left)
      rest == Tail(me.left)
  IN  /\ me.pc = "write"
      /\ table' = [table EXCEPT ![f] = me.got[f]]
      /\ metadata' = [me.base EXCEPT ![f] = me.got[f]]
      /\ etag' = IF me.kind = f THEN [etag EXCEPT ![f] = me.tag] ELSE etag
      /\ writer' = [writer EXCEPT
           ![w] = IF rest = <<>> THEN Idle
                  ELSE [@ EXCEPT !.pc = "read", !.left = rest,
                                 !.got[f] = Empty, !.base = Blank]]
      /\ Outdate(w)
      /\ torn' = (IF w \in raced THEN Parts ELSE torn) \ {f}
      /\ UNCHANGED <<github, exists, columns, changes, faults>>

\* A call or a statement fails, or the process dies.
Abandon(w) ==
  /\ writer[w].pc # "idle" /\ faults < MaxFaults
  /\ writer' = [writer EXCEPT ![w] = Idle]
  /\ faults' = faults + 1
  /\ UNCHANGED <<github, row, changes, history>>

-----------------------------------------------------------------------------
Progress(w) ==
  \/ NotModified(w) \/ Fetched(w) \/ Extras(w)
  \/ StoreCore(w) \/ ReadMetadata(w) \/ StoreFacet(w)

Next ==
  \/ \E p \in Parts : GitHubChanges(p)
  \/ \E w \in Writers :
       \/ \E k \in Parts : Start(w, k)
       \/ Progress(w)
       \/ Abandon(w)

StartCore == \E w \in Writers : Start(w, "core")

\* A job that runs comes to an end, and core jobs keep being started: every
\* sweep queues one for a row whose copy has aged.
Fairness == /\ \A w \in Writers : WF_vars(Progress(w))
            /\ SF_vars(StartCore)

Spec == Init /\ [][Next]_vars /\ Fairness

-----------------------------------------------------------------------------
Job == [pc : {"idle", "fetch", "extras", "store", "read", "write"},
        kind : Parts, sent : Versions, tag : Versions,
        got : [Parts -> Versions], base : [Parts -> Versions],
        left : {<<>>, <<"releases">>, <<"branches">>, <<"releases", "branches">>}]

\* Every variable holds what the row or a job can hold; a list a job has
\* still to store is there when it comes to storing it.
TypeOK ==
  /\ github \in [Parts -> Versions \ {Empty}]
  /\ exists \in BOOLEAN /\ columns \in Versions
  /\ metadata \in [Parts -> Versions] /\ table \in [Facets -> Versions]
  /\ etag \in [Parts -> Versions]
  /\ writer \in [Writers -> Job]
  /\ \A w \in Writers : writer[w].pc \in {"read", "write"} <=> writer[w].left # <<>>
  /\ changes \in 0..MaxChanges /\ faults \in 0..MaxFaults
  /\ raced \subseteq Writers /\ torn \subseteq Parts

\* The columns, the JSON and the child tables of a row tell the same story,
\* part by part, once the lists a core job brought have been mirrored and as
\* long as no merge wrote back a JSON another writer had replaced meanwhile;
\* and storing a part again mends it.
MirrorMatches ==
  \A p \in Parts \ torn :
    metadata[p] = IF p = "core" THEN columns ELSE table[p]

\* When GitHub stops changing, the core columns come to hold its last
\* version and stay there: no 304 ever hides an older copy.
CoreSettles == <>[](exists /\ columns = github["core"])
=============================================================================
