------------------------------ MODULE ApiKeys ------------------------------
(***************************************************************************)
(* The life of the API keys of one user, and the requests they open: a key *)
(* is asked for, approved, given other limits, revoked and rotated, by the *)
(* user and by admins at once, while requests that carry it are let in and *)
(* counted.  Every operation is a sequence of statements, each of its own  *)
(* transaction: others run in between, and it may die there.               *)
(*                                                                         *)
(* An operation creates at most one row and generates at most one key, so  *)
(* both carry its name: the row o, and the plaintext o whose hash a row    *)
(* stores.  A key there from the start has its own name as its plaintext.  *)
(*                                                                         *)
(* Time is counted in minutes.  The table of buckets holds one row per key *)
(* whatever the length of the window that is counted in it.                *)
(***************************************************************************)
EXTENDS Naturals, FiniteSets

CONSTANTS
  Initial,      \* keys that are active when the model starts
  Ops,          \* bound: operations, each run once
  Limits,       \* values of rateLimitPerMin
  DefaultLimit, \* the schema's default for it
  PerHour,      \* PUBLIC_REPO_RATE_PER_HOUR
  Hour, Day,    \* in minutes; a day is ROTATE_COOLDOWN_MS
  MaxTime, MaxFaults,   \* bounds
  HashCut,      \* a prefix cut from a hash, not from a plaintext
  Nothing

ASSUME KeysAssumption ==
  /\ Initial \cap Ops = {} /\ {Nothing, HashCut} \cap (Initial \cup Ops) = {}
  /\ Limits \subseteq Nat /\ DefaultLimit \in Limits /\ PerHour \in Nat
  /\ Hour \in Nat \ {0} /\ Day \in Nat /\ MaxTime \in Nat /\ MaxFaults \in Nat

Keys == Initial \cup Ops    \* rows of api_keys, and plaintexts

VARIABLES
  status, hash, prefix, plain, limit,  \* api_keys: prefix and plain (plaintextKey)
                                       \* name the plaintext they come from
  bucket,       \* rate_limit_buckets: the window's start and the count
  rotated,      \* audit_log: when a rotate_key_self was written
  op, now, faults,
  dead,         \* history: keys revoked with no approval of them under way
  stacked,      \* history: a request was checked while another was being made
  rushed,       \* history: rotations checked while another had no audit row yet
  early,        \* history: keys approved before their prefix was patched
  gone, again   \* history: windows another start took the row from, and those of
                \* them counted again later

row == <<status, hash, prefix, plain, limit>>
history == <<dead, stacked, rushed, early, gone, again>>
vars == <<row, bucket, rotated, op, now, faults, history>>

Begin == [kind |-> "none", pc |-> "idle", key |-> Nothing, limit |-> 0, start |-> 0, at |-> 0]

Init ==
  /\ status = [k \in Keys |-> IF k \in Initial THEN "active" ELSE "none"]
  /\ hash = [k \in Keys |-> IF k \in Initial THEN k ELSE Nothing]
  /\ prefix = hash /\ plain = hash
  /\ limit = [k \in Keys |-> DefaultLimit]
  /\ bucket = [k \in Keys |-> [start |-> 0, count |-> 0]]
  /\ rotated = {} /\ now = 0 /\ faults = 0
  /\ op = [o \in Ops |-> Begin]
  /\ dead = {} /\ stacked = FALSE /\ rushed = {} /\ early = {}
  /\ gone = {} /\ again = {}

Exists(k) == status[k] # "none"
Pending == {k \in Keys : status[k] = "pending"}
Steps(o, pc) == op' = [op EXCEPT ![o].pc = pc]
Starts(o, kind, pc, k) ==
  /\ op[o].pc = "idle"
  /\ op' = [op EXCEPT ![o] = [@ EXCEPT !.kind = kind, !.pc = pc, !.key = k]]
At(pc) == {o \in Ops : op[o].pc = pc}

\* A new row waits for an admin, under the schema's default limit.
NewRow(o) ==
  /\ status' = [status EXCEPT ![o] = "pending"]
  /\ hash' = [hash EXCEPT ![o] = o]
  /\ limit' = [limit EXCEPT ![o] = DefaultLimit]

-----------------------------------------------------------------------------
(* requestKeyAction.                                                       *)

\* Faulty variants of a definition stand just before it; the property named in
\* the comment must tell them apart.
\* One too many: OnePending.
MayRequestTwice == Cardinality(Pending) <= 1

MayRequest == Pending = {}

RequestKey(o) ==
  /\ MayRequest
  /\ Starts(o, "request", "create", o)
  /\ stacked' = (stacked \/ At("create") # {})
  /\ UNCHANGED <<row, bucket, rotated, now, faults, dead, rushed, early, gone, again>>

CreateRow(o) ==
  /\ op[o].pc = "create"
  /\ NewRow(o)
  /\ Steps(o, "patch")
  /\ UNCHANGED <<prefix, plain, bucket, rotated, now, faults, history>>

\* The second write of a row just created, by a request or by a rotation.  What it
\* writes is ghc_usr_ and four digits of the hash: the prefix of no plaintext.
PatchPrefix(o) ==
  /\ op[o].pc = "patch"
  /\ prefix' = [prefix EXCEPT ![o] = HashCut]
  /\ Steps(o, IF op[o].kind = "rotate" THEN "audit" ELSE "done")
  /\ UNCHANGED <<status, hash, plain, limit, bucket, rotated, now, faults, history>>

-----------------------------------------------------------------------------
(* approveKey and revokeKey.                                               *)

\* A revoked key may be approved: RevokedStays.
MayApproveRevoked(k) == Exists(k)

MayApprove(k) == Exists(k) /\ status[k] # "revoked"

Approve(o, k) ==
  /\ MayApprove(k)
  /\ Starts(o, "approve", "approve", k)
  /\ UNCHANGED <<row, bucket, rotated, now, faults, history>>

\* The prefix is left as the request wrote it: ShownIsStored.
IssueUnseen(o, n) ==
  LET k == op[o].key
  IN  /\ op[o].pc = "approve"
      /\ hash' = [hash EXCEPT ![k] = o] /\ plain' = [plain EXCEPT ![k] = o]
      /\ status' = [status EXCEPT ![k] = "active"] /\ limit' = [limit EXCEPT ![k] = n]
      /\ Steps(o, "done")
      /\ UNCHANGED <<prefix, bucket, rotated, now, faults, history>>

\* The update is by id alone; n is the limit the admin gives, or the present one.
Issue(o, n) ==
  LET k == op[o].key
  IN  /\ op[o].pc = "approve"
      /\ status' = [status EXCEPT ![k] = "active"]
      /\ hash' = [hash EXCEPT ![k] = o] /\ prefix' = [prefix EXCEPT ![k] = o]
      /\ plain' = [plain EXCEPT ![k] = o]
      /\ limit' = [limit EXCEPT ![k] = n]
      /\ early' = IF k \in At("patch") THEN early \cup {k} ELSE early
      /\ Steps(o, "done")
      /\ UNCHANGED <<bucket, rotated, now, faults, dead, stacked, rushed, gone, again>>

\* Nobody has read the key in order to approve it.
Unread(k) == \A o \in At("approve") : op[o].key # k

\* The row is deleted rather than marked: TypeOK.
RevokedForGood(k) ==
  /\ status' = [status EXCEPT ![k] = "none"]
  /\ UNCHANGED dead

Revoked(k) ==
  /\ status' = [status EXCEPT ![k] = "revoked"]
  /\ dead' = IF Unread(k) THEN dead \cup {k} ELSE dead

\* The admin's: one statement.
RevokeKey(o, k) ==
  /\ Exists(k)
  /\ Starts(o, "revoke", "done", k)
  /\ Revoked(k)
  /\ UNCHANGED <<hash, prefix, plain, limit, bucket, rotated, now, faults,
                 stacked, rushed, early, gone, again>>

\* The owner's: the row is read first.
RevokeOwnKey(o, k) ==
  /\ Exists(k) /\ status[k] # "revoked"
  /\ Starts(o, "revoke", "revoke", k)
  /\ UNCHANGED <<row, bucket, rotated, now, faults, history>>

WriteRevoked(o) ==
  /\ op[o].pc = "revoke"
  /\ Revoked(op[o].key)
  /\ Steps(o, "done")
  /\ UNCHANGED <<hash, prefix, plain, limit, bucket, rotated, now, faults,
                 stacked, rushed, early, gone, again>>

ChangeLimits(o, k, n) ==
  /\ Exists(k)
  /\ Starts(o, "limits", "done", k)
  /\ limit' = [limit EXCEPT ![k] = n]
  /\ UNCHANGED <<status, hash, prefix, plain, bucket, rotated, now, faults, history>>

-----------------------------------------------------------------------------
(* rotateOwnKeyAction.                                                     *)

RotateKey(o, k) ==
  /\ status[k] = "active"
  /\ Starts(o, "rotate", "cooldown", k)
  /\ UNCHANGED <<row, bucket, rotated, now, faults, history>>

\* The day's first minute no longer counts: CooldownHolds.
RecentlyOpen == \E t \in rotated : t + Day > now

Recently == \E t \in rotated : t + Day >= now

\* Rotations past their check whose audit row is missing, for now or for good.
Unaudited == {o \in Ops : op[o].kind = "rotate"
                           /\ \/ op[o].pc \in {"swap", "patch", "audit"}
                              \/ op[o].pc = "died" /\ Exists(o)}

CheckCooldown(o) ==
  /\ op[o].pc = "cooldown"
  /\ Steps(o, IF Recently THEN "refused" ELSE "swap")
  /\ rushed' = IF Unaudited # {} THEN rushed \cup {o} ELSE rushed
  /\ UNCHANGED <<row, bucket, rotated, now, faults, dead, stacked, early, gone, again>>

\* One transaction: the old row is revoked by id, the new one created.
Swap(o) ==
  LET k == op[o].key
  IN  /\ op[o].pc = "swap"
      /\ status' = [status EXCEPT ![k] = "revoked", ![o] = "pending"]
      /\ hash' = [hash EXCEPT ![o] = o] /\ plain' = [plain EXCEPT ![o] = o]
      /\ limit' = [limit EXCEPT ![o] = DefaultLimit]
      /\ dead' = IF Unread(k) THEN dead \cup {k} ELSE dead
      /\ op' = [op EXCEPT ![o].pc = "patch", ![o].at = now]
      /\ UNCHANGED <<prefix, bucket, rotated, now, faults, stacked, rushed, early, gone, again>>

\* Only now is the rotation known to the cooldown, and its key to the user.
AuditRotation(o) ==
  /\ op[o].pc = "audit"
  /\ rotated' = rotated \cup {now}
  /\ Steps(o, "done")
  /\ UNCHANGED <<row, bucket, now, faults, history>>

-----------------------------------------------------------------------------
(* Requests under a key: /api/query counts by the minute, against the key's *)
(* own limit, /api/v1/repos by the hour, against one for all.               *)

Length(route) == IF route = "minute" THEN 1 ELSE Hour
WindowStart(t, length) == t - (t % length)

UseKey(o, k, route) ==
  /\ status[k] = "active"
  /\ op[o].pc = "idle"
  /\ op' = [op EXCEPT ![o] = [kind |-> route, pc |-> "count", key |-> k,
                              limit |-> IF route = "minute" THEN limit[k] ELSE PerHour,
                              start |-> WindowStart(now, Length(route)), at |-> now]]
  /\ UNCHANGED <<row, bucket, rotated, now, faults, history>>

Held(k, s) == IF bucket[k].start = s THEN bucket[k].count ELSE 0

\* The count from before the upsert is compared: LimitHolds.
VerdictBefore(k, s, n) == IF Held(k, s) <= n THEN "admitted" ELSE "refused"

Verdict(k, s, n) == IF Held(k, s) + 1 <= n THEN "admitted" ELSE "refused"

\* incrementBucket, whose window the caller computed before it: another start,
\* be it older, takes the row over.
Count(o) ==
  LET k == op[o].key
      s == op[o].start
  IN  /\ op[o].pc = "count"
      /\ bucket' = [bucket EXCEPT ![k] = [start |-> s, count |-> Held(k, s) + 1]]
      /\ Steps(o, Verdict(k, s, op[o].limit))
      /\ gone' = IF Held(k, s) = 0 /\ bucket[k].count > 0
                 THEN gone \cup {<<k, bucket[k].start>>} ELSE gone
      /\ again' = IF <<k, s>> \in gone THEN again \cup {<<k, s>>} ELSE again
      /\ UNCHANGED <<row, rotated, now, faults, dead, stacked, rushed, early>>

-----------------------------------------------------------------------------
MinutePasses ==
  /\ now < MaxTime /\ now' = now + 1
  /\ UNCHANGED <<row, bucket, rotated, op, faults, history>>

\* A statement fails or the process dies: what is done stays, the rest is lost.
Die(o) ==
  /\ op[o].pc \notin {"idle", "done", "admitted", "refused", "died"}
  /\ faults < MaxFaults /\ faults' = faults + 1
  /\ Steps(o, "died")
  /\ UNCHANGED <<row, bucket, rotated, now, history>>

Next ==
  \/ \E o \in Ops :
       \/ RequestKey(o) \/ CreateRow(o) \/ PatchPrefix(o)
       \/ WriteRevoked(o)
       \/ CheckCooldown(o) \/ Swap(o) \/ AuditRotation(o)
       \/ Count(o) \/ Die(o)
       \/ \E n \in Limits : Issue(o, n)
       \/ \E k \in Keys :
            \/ Approve(o, k) \/ RevokeKey(o, k) \/ RevokeOwnKey(o, k) \/ RotateKey(o, k)
            \/ \E n \in Limits : ChangeLimits(o, k, n)
            \/ \E route \in {"minute", "hour"} : UseKey(o, k, route)
  \/ MinutePasses

Spec == Init /\ [][Next]_vars

-----------------------------------------------------------------------------
(* Properties.                                                             *)

Kinds == {"none", "request", "approve", "revoke", "limits", "rotate", "minute", "hour"}
Pcs == {"idle", "create", "patch", "approve", "revoke", "cooldown", "swap", "audit", "count",
        "done", "admitted", "refused", "died"}

\* Every variable stays in its type, and an operation past its first read has a
\* row to work on: no path of the program deletes a key.
TypeOK ==
  /\ status \in [Keys -> {"none", "pending", "active", "revoked"}]
  /\ hash \in [Keys -> Keys \cup {Nothing}] /\ prefix \in [Keys -> Keys \cup {Nothing, HashCut}]
  /\ plain \in [Keys -> Keys \cup {Nothing}] /\ limit \in [Keys -> Limits]
  /\ bucket \in [Keys -> [start : Nat, count : Nat]]
  /\ rotated \subseteq Nat /\ now \in Nat /\ faults \in Nat
  /\ op \in [Ops -> [kind : Kinds, pc : Pcs, key : Keys \cup {Nothing}, limit : Nat,
                     start : Nat, at : Nat]]
  /\ \A o \in Ops : op[o].pc \in {"approve", "revoke", "cooldown", "swap", "count"}
                     => op[o].key \in Keys /\ Exists(op[o].key)
  /\ dead \subseteq Keys /\ stacked \in BOOLEAN /\ rushed \subseteq Ops /\ early \subseteq Keys
  /\ gone \subseteq Keys \X Nat /\ again \subseteq gone

\* A revoked key stays revoked, unless an approval had read it before: whatever
\* its owner and the admins do after that, it opens nothing.
RevokedStays == \A k \in dead : status[k] = "revoked"

\* "One at a time per user": two requests wait together only if one was checked
\* while the other was being made.
OnePending ==
  stacked \/ Cardinality({o \in Ops : op[o].kind = "request" /\ status[o] = "pending"}) <= 1

Swapped(o) == op[o].kind = "rotate" /\ status[o] # "none"

\* A user rotates once in 24 hours, unless a rotation was checked while another
\* had not been audited yet, or never was because it died.
CooldownHolds ==
  \A o \in Ops : \A p \in Ops \ {o} :
    Swapped(o) /\ Swapped(p) /\ op[o].at <= op[p].at /\ {o, p} \cap rushed = {}
      => op[o].at + Day < op[p].at

\* The prefix and the plaintext the pages show are those of the key that works,
\* unless the key was approved between the two writes that created it.
ShownIsStored ==
  \A k \in Keys : status[k] = "active" =>
    plain[k] = hash[k] /\ (prefix[k] = hash[k] \/ k \in early)

Admitted(k, route, s) ==
  {o \in Ops : op[o].pc = "admitted" /\ op[o].kind = route /\ op[o].key = k /\ op[o].start = s}

\* No more requests of a key are let in than one of them was allowed, in a minute
\* or in an hour, unless another start had taken the row over in the middle: a
\* request of an older window, or of the route that counts by the other length.
LimitHolds ==
  \A o \in Ops : op[o].pc = "admitted" /\ <<op[o].key, op[o].start>> \notin again =>
    LET same == Admitted(op[o].key, op[o].kind, op[o].start)
    IN  \E p \in same : Cardinality(same) <= op[p].limit
=============================================================================
