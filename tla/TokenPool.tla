----------------------------- MODULE TokenPool -----------------------------
(***************************************************************************)
(* The pool of GitHub tokens: the rows an admin registers, enables,        *)
(* disables and deletes, their copies in memory, the fetches that pick     *)
(* from the pool and report what GitHub answered, the flush of the quotas  *)
(* back to the rows, and the load that fills the pool.                     *)
(*                                                                         *)
(* All run in one process and interleave at every await: an answer of      *)
(* GitHub, a read or a write of the database.  None waits for another.     *)
(*                                                                         *)
(* A quota is what a report says: the requests left, and the window they   *)
(* are left in.  A window stands for resetAt: a later one has begun when   *)
(* resetAt is past.  The request counter that starts a flush early and the *)
(* length of a backoff are left out: a flush may start at any time, and a  *)
(* sleeping fetch may wake at any time.                                    *)
(***************************************************************************)
EXTENDS Naturals, FiniteSets

CONSTANTS
  Tokens,       \* rows that can ever be registered (an id is never used again)
  Registered,   \* those that are when the model starts
  Calls,        \* bound: fetches in flight
  Kinds,        \* of fetches: "core" (fetchRepoCore), "facet" (releases, branches)
  Admins,       \* bound: requests to the token routes
  Limit,        \* requests GitHub grants a token per window
  MaxAttempts,  \* MAX_ATTEMPTS
  Threshold,    \* TOKEN_AUTO_DISABLE_THRESHOLD, 0 is off
  MaxWindows, MaxLoads, MaxFaults,  \* bounds; MaxLoads is per process
  NoToken

ASSUME PoolAssumption ==
  /\ Registered \subseteq Tokens /\ NoToken \notin Tokens
  /\ Kinds \subseteq {"core", "facet"}
  /\ Limit \in Nat \ {0} /\ MaxAttempts \in Nat \ {0} /\ Threshold \in Nat
  /\ MaxWindows \in Nat /\ MaxLoads \in Nat /\ MaxFaults \in Nat

VARIABLES
  row, saved,      \* github_tokens: the status, and the quota last written
  pool, entry, dirty, strikes,  \* the pool in memory; consecutive429ByToken
  loaded, reading, listing,     \* initPool: done once; waiting for its rows
  call,            \* the fetches
  admin,           \* the token routes' requests
  todo, sending, written, detached, kept,  \* persistQuota
  left, window,    \* GitHub's own books
  loads, faults,
  found,           \* history: tokens a fetch has reported spent and that
                   \* nothing has touched since
  crossed,         \* history: tokens two operations overlapped on
  overtaken        \* history: tokens whose quota changed under a write or load

rows == <<row, saved>>
memory == <<pool, entry, dirty, strikes>>
loading == <<loaded, reading, listing>>
flush == <<todo, sending, written, detached, kept>>
github == <<left, window>>
history == <<found, crossed, overtaken>>
vars == <<rows, memory, loading, call, admin, flush, github, loads, faults, history>>

Quota == [left : 0..Limit, win : 0..MaxWindows]
Fresh == [left |-> Limit, win |-> 0]
Exists(t) == row[t] \in {"active", "disabled"}
Listing == [row |-> row, saved |-> saved]

\* What is left in a request, a listing or a flush that is over means nothing.
NoListing == [row |-> [t \in Tokens |-> "none"], saved |-> [t \in Tokens |-> Fresh]]
NoCall == [pc |-> "idle", kind |-> "core", attempt |-> 1, token |-> NoToken, answer |-> "none",
           quota |-> Fresh]
NoRequest == [pc |-> "idle", token |-> NoToken, status |-> "none", quota |-> Fresh]

Init ==
  /\ row = [t \in Tokens |-> IF t \in Registered THEN "active" ELSE "none"]
  /\ saved = [t \in Tokens |-> Fresh]
  /\ pool = {} /\ entry = saved /\ dirty = {} /\ strikes = [t \in Tokens |-> 0]
  /\ loaded = FALSE /\ reading = FALSE /\ listing = NoListing
  /\ call = [c \in Calls |-> NoCall]
  /\ admin = [a \in Admins |-> NoRequest]
  /\ todo = {} /\ sending = NoToken /\ written = Fresh /\ detached = {} /\ kept = saved
  /\ left = [t \in Tokens |-> Limit] /\ window = [t \in Tokens |-> 0]
  /\ loads = 0 /\ faults = 0
  /\ found = [c \in Calls |-> {}] /\ crossed = {} /\ overtaken = {}

\* The tokens whose row and whose place in the pool somebody is changing.
Changing == {admin[a].token : a \in {b \in Admins : admin[b].pc \in {"refetch", "add", "drop"}}}
            \cup {call[c].token : c \in {d \in Calls : call[d].pc = "disabling"}}

Touches(t) == crossed' = IF t \in Changing \/ reading THEN crossed \cup {t} ELSE crossed

\* A new entry takes the place of t's: a flush that holds the old one writes that.
Replace(S) ==
  /\ detached' = detached \cup (S \cap (todo \cup {sending}))
  /\ kept' = [t \in Tokens |-> IF t \in (S \cap todo) \ detached THEN entry[t] ELSE kept[t]]
  /\ found' = [c \in Calls |-> found[c] \ S]

-----------------------------------------------------------------------------
(* initPool.                                                               *)

Load ==
  /\ ~reading /\ loads < MaxLoads
  /\ reading' = TRUE /\ listing' = Listing
  /\ loads' = loads + 1
  /\ crossed' = crossed \cup Changing
  /\ UNCHANGED <<rows, memory, loaded, call, admin, flush, github, faults,
                 found, overtaken>>

\* Faulty variants of a definition stand just before it; the property named in
\* the comment must tell them apart.
\* Disabled rows are loaded like the others: PoolFollowsRows.
LoadableDisabled == {t \in Tokens : listing.row[t] \in {"active", "disabled"}}

Loadable == {t \in Tokens : listing.row[t] = "active"}

Loaded ==
  /\ reading
  /\ pool' = Loadable
  /\ entry' = [t \in Tokens |-> IF t \in Loadable THEN listing.saved[t] ELSE entry[t]]
  /\ dirty' = {}
  /\ Replace(Tokens)
  /\ overtaken' = {t \in Tokens : listing.saved[t] # saved[t]} \cup (overtaken \ Loadable)
  /\ reading' = FALSE /\ loaded' = TRUE /\ listing' = NoListing
  /\ UNCHANGED <<rows, strikes, call, admin, todo, sending, written, github, loads, faults,
                 crossed>>

-----------------------------------------------------------------------------
(* Fetches.                                                                *)

StartFetch(c, kind) ==
  /\ loaded /\ call[c].pc = "idle"
  /\ call' = [call EXCEPT ![c] = [@ EXCEPT !.pc = "pick", !.kind = kind, !.attempt = 1]]
  /\ found' = [found EXCEPT ![c] = {}]
  /\ UNCHANGED <<rows, memory, loading, admin, flush, github, loads, faults,
                 crossed, overtaken>>

\* The window is not looked at: SpentIsSpent.
IsExhaustedForever(t) == entry[t].left = 0

IsExhausted(t) == entry[t].left = 0 /\ entry[t].win = window[t]

Candidates == {t \in pool : ~IsExhausted(t)}

\* pickToken and the call, or GitHubUnavailable.
Pick(c) ==
  /\ call[c].pc = "pick"
  /\ \/ \E t \in Candidates :
          /\ \A u \in Candidates : entry[u].left <= entry[t].left
          /\ call' = [call EXCEPT ![c].pc = "sent", ![c].token = t]
     \/ Candidates = {} /\ call' = [call EXCEPT ![c] = NoCall]
  /\ UNCHANGED <<rows, memory, loading, admin, flush, github, loads, faults, history>>

\* GitHub: a request it serves costs one; without one left it answers 403 with
\* remaining 0 ("limited").  "final" is what ends a core fetch at once (304, 404,
\* another 403); "429" also stands for a 5xx and for a 403 without a reset header,
\* which are tried again without a report too.  The two list calls that follow an
\* "ok" of a core fetch (fetchVersionExtras) are left out: they cost the token two
\* more requests and report none.
Answers(c, answer) ==
  LET t == call[c].token
  IN  /\ call[c].pc = "sent"
      /\ CASE answer \in {"ok", "final"} -> left[t] > 0 /\ left' = [left EXCEPT ![t] = @ - 1]
           [] answer = "limited" -> left[t] = 0 /\ UNCHANGED left
           [] OTHER -> UNCHANGED left
      /\ call' = [call EXCEPT ![c].pc = "answered", ![c].answer = answer,
                              ![c].quota = IF answer \in {"ok", "limited"}
                                           THEN [left |-> left'[t], win |-> window[t]] ELSE Fresh]
      /\ UNCHANGED <<rows, memory, loading, admin, flush, window, loads, faults, history>>

Finished(c) == [call EXCEPT ![c] = NoCall]

\* One turn too many: TypeOK.
AgainOnceMore(c) ==
  IF call[c].attempt <= MaxAttempts
    THEN [call EXCEPT ![c] = [NoCall EXCEPT !.pc = "pick", !.kind = call[c].kind,
                                            !.attempt = call[c].attempt + 1]]
    ELSE Finished(c)

\* The loop's next turn, or the error after its last.
Again(c) ==
  IF call[c].attempt < MaxAttempts
    THEN [call EXCEPT ![c] = [NoCall EXCEPT !.pc = "pick", !.kind = call[c].kind,
                                            !.attempt = call[c].attempt + 1]]
    ELSE Finished(c)

\* isOverLimit: whatever answer brought it, nothing is left and the window lasts.
OverLimit(t, q) == q.left = 0 /\ q.win = window[t]

Trips(t, q) == OverLimit(t, q) /\ Threshold > 0 /\ strikes[t] + 1 >= Threshold

\* recordUsage up to its first await: a token that trips the threshold leaves
\* the pool before its row is written.
RecordUsage(c, t, q) ==
  /\ IF t \in pool
       THEN /\ entry' = [entry EXCEPT ![t] = q]
            /\ dirty' = IF Trips(t, q) THEN dirty \ {t} ELSE dirty \cup {t}
            /\ strikes' = [strikes EXCEPT ![t] =
                             IF OverLimit(t, q) /\ Threshold > 0 /\ ~Trips(t, q) THEN @ + 1 ELSE 0]
            /\ pool' = IF Trips(t, q) THEN pool \ {t} ELSE pool
            /\ overtaken' = IF sending = t THEN overtaken \cup {t} ELSE overtaken
            /\ IF Trips(t, q) THEN Touches(t) ELSE UNCHANGED crossed
       ELSE UNCHANGED <<memory, overtaken, crossed>>
  /\ found' = [d \in Calls |->
                 IF ~OverLimit(t, q) THEN found[d] \ {t}
                 ELSE IF d = c /\ call[c].answer = "limited" THEN found[d] \cup {t} ELSE found[d]]

Reported(c) ==
  \/ call[c].answer = "ok"
  \/ call[c].answer = "limited" /\ call[c].kind = "core"

\* What follows an answer, once it is reported: only core fetches tell a final
\* answer from one to try again.
After(c) ==
  IF call[c].answer = "ok" \/ (call[c].answer = "final" /\ call[c].kind = "core")
    THEN Finished(c) ELSE Again(c)

\* A 403 of a core fetch rotates without a report, as it once did: RotatesAway.
HandleUnreported(c) ==
  LET t == call[c].token
      q == call[c].quota
  IN  /\ call[c].pc = "answered"
      /\ call' = After(c)
      /\ IF call[c].answer = "ok" THEN RecordUsage(c, t, q) /\ ~Trips(t, q)
         ELSE /\ found' = [found EXCEPT ![c] = IF OverLimit(t, q) THEN @ \cup {t} ELSE @]
              /\ UNCHANGED <<memory, overtaken, crossed>>
      /\ UNCHANGED <<rows, loading, admin, flush, github, loads, faults>>

Handle(c) ==
  LET t == call[c].token
      q == call[c].quota
  IN  /\ call[c].pc = "answered"
      /\ IF Reported(c)
           THEN /\ RecordUsage(c, t, q)
                /\ call' = IF t \in pool /\ Trips(t, q) THEN [call EXCEPT ![c].pc = "disabling"]
                           ELSE After(c)
           ELSE /\ call' = After(c)
                /\ UNCHANGED <<memory, found, overtaken, crossed>>
      /\ UNCHANGED <<rows, loading, admin, flush, github, loads, faults>>

\* autoDisableToken's write; an error is logged, and the fetch goes on.
AutoDisable(c) ==
  LET t == call[c].token
  IN  /\ call[c].pc = "disabling"
      /\ \/ /\ row' = IF Exists(t) THEN [row EXCEPT ![t] = "disabled"] ELSE row
            /\ UNCHANGED <<faults, crossed>>
         \/ /\ faults < MaxFaults
            /\ faults' = faults + 1
            /\ crossed' = crossed \cup {t}
            /\ UNCHANGED row
      /\ call' = After(c)
      /\ UNCHANGED <<saved, memory, loading, admin, flush, github, loads, found, overtaken>>

\* resetAt passes.
WindowPasses(t) ==
  /\ window[t] < MaxWindows
  /\ window' = [window EXCEPT ![t] = @ + 1]
  /\ left' = [left EXCEPT ![t] = Limit]
  /\ found' = [c \in Calls |-> found[c] \ {t}]
  /\ UNCHANGED <<rows, memory, loading, call, admin, flush, loads, faults,
                 crossed, overtaken>>

-----------------------------------------------------------------------------
(* persistQuota.                                                           *)

\* Bound: one flush at a time.  Nothing in the program keeps a second out; it would
\* write the values the first writes, unless a report came in between, which is
\* the race CleanIsSaved leaves out.
StartFlush ==
  /\ todo = {} /\ sending = NoToken
  /\ dirty # {} /\ todo' = dirty
  /\ UNCHANGED <<rows, memory, loading, call, admin, sending, written, detached, kept, github,
                 loads, faults, history>>

\* The entry is read when its turn comes.
SendQuota(t) ==
  /\ sending = NoToken /\ t \in todo
  /\ sending' = t /\ todo' = todo \ {t}
  /\ written' = IF t \in detached THEN kept[t] ELSE entry[t]
  /\ kept' = [kept EXCEPT ![t] = Fresh]
  /\ UNCHANGED <<rows, memory, loading, call, admin, detached, github, loads, faults, history>>

\* The entry is clean although its write failed: CleanIsSaved.
QuotaWrittenAnyway ==
  /\ sending # NoToken
  /\ \/ Exists(sending) /\ saved' = [saved EXCEPT ![sending] = written]
     \/ UNCHANGED saved
  /\ dirty' = IF sending \in detached THEN dirty ELSE dirty \ {sending}
  /\ sending' = NoToken /\ written' = Fresh /\ detached' = detached \ {sending}
  /\ UNCHANGED <<row, pool, entry, strikes, loading, call, admin, todo, kept, github, loads, faults, history>>

\* The update throws when the row is gone; another failure leaves it dirty too.
QuotaWritten ==
  LET t == sending
  IN  /\ t # NoToken
      /\ \/ /\ Exists(t)
            /\ saved' = [saved EXCEPT ![t] = written]
            /\ dirty' = IF t \in detached THEN dirty ELSE dirty \ {t}
            /\ overtaken' = IF t \in detached THEN overtaken \cup {t} ELSE overtaken
            /\ UNCHANGED faults
         \/ /\ ~Exists(t) \/ faults < MaxFaults
            /\ faults' = IF Exists(t) THEN faults + 1 ELSE faults
            /\ UNCHANGED <<saved, dirty, overtaken>>
      /\ sending' = NoToken /\ written' = Fresh /\ detached' = detached \ {t}
      /\ UNCHANGED <<row, pool, entry, strikes, loading, call, admin, todo, kept, github, loads, found, crossed>>

-----------------------------------------------------------------------------
(* The token routes: a write of the row, then a change of the pool.        *)

Requests(a, t, pc, status, quota) ==
  admin' = [admin EXCEPT ![a] = [pc |-> pc, token |-> t, status |-> status, quota |-> quota]]

\* Bound: one request each.
Responds(a) == admin' = [admin EXCEPT ![a] = [NoRequest EXCEPT !.pc = "done"]]

\* What the routes leave alone up to their change of the pool.
BesidesRow == <<saved, memory, loading, call, flush, github, loads, faults,
                found, overtaken>>

Register(a, t) ==
  /\ admin[a].pc = "idle" /\ row[t] = "none"
  /\ row' = [row EXCEPT ![t] = "active"]
  /\ Requests(a, t, "add", "active", Fresh)
  /\ Touches(t)
  /\ UNCHANGED BesidesRow

Enable(a, t) ==
  /\ admin[a].pc = "idle" /\ Exists(t)
  /\ row' = [row EXCEPT ![t] = "active"]
  /\ Requests(a, t, "refetch", "none", Fresh)
  /\ Touches(t)
  /\ UNCHANGED BesidesRow

Refetch(a) ==
  LET t == admin[a].token
  IN  /\ admin[a].pc = "refetch"
      /\ IF Exists(t) THEN Requests(a, t, "add", row[t], saved[t])
         ELSE Responds(a)
      /\ UNCHANGED <<row, crossed, BesidesRow>>

\* addTokenToPool: a row that is no longer active takes the token out.
AddToPool(a) ==
  LET t == admin[a].token
  IN  /\ admin[a].pc = "add"
      /\ IF admin[a].status = "active"
           THEN /\ pool' = pool \cup {t}
                /\ entry' = [entry EXCEPT ![t] = admin[a].quota]
                /\ Replace({t})
                /\ overtaken' = IF admin[a].quota = saved[t] THEN overtaken \ {t} ELSE overtaken \cup {t}
           ELSE /\ pool' = pool \ {t}
                /\ UNCHANGED <<entry, detached, kept, found, overtaken>>
      /\ dirty' = dirty \ {t}
      /\ Responds(a)
      /\ UNCHANGED <<rows, strikes, loading, call, todo, sending, written, github, loads, faults,
                     crossed>>

Disable(a, t) ==
  /\ admin[a].pc = "idle" /\ Exists(t)
  /\ row' = [row EXCEPT ![t] = "disabled"]
  /\ Requests(a, t, "drop", "none", Fresh)
  /\ Touches(t)
  /\ UNCHANGED BesidesRow

Delete(a, t) ==
  /\ admin[a].pc = "idle" /\ Exists(t)
  /\ row' = [row EXCEPT ![t] = "deleted"]
  /\ Requests(a, t, "drop", "none", Fresh)
  /\ Touches(t)
  /\ UNCHANGED BesidesRow

RemoveFromPool(a) ==
  /\ admin[a].pc = "drop"
  /\ pool' = pool \ {admin[a].token} /\ dirty' = dirty \ {admin[a].token}
  /\ Responds(a)
  /\ UNCHANGED <<rows, entry, strikes, loading, call, flush, github, loads, faults, history>>

-----------------------------------------------------------------------------
\* The process dies and comes back: all it held in memory is gone, and so are
\* the requests.
Restart ==
  /\ faults < MaxFaults
  /\ faults' = faults + 1
  /\ pool' = {} /\ dirty' = {} /\ strikes' = [t \in Tokens |-> 0]
  /\ entry' = [t \in Tokens |-> Fresh]
  /\ loaded' = FALSE /\ reading' = FALSE /\ listing' = NoListing
  /\ call' = [c \in Calls |-> NoCall]
  /\ admin' = [a \in Admins |-> IF admin[a].pc = "idle" THEN admin[a]
                                 ELSE [NoRequest EXCEPT !.pc = "done"]]
  /\ todo' = {} /\ sending' = NoToken /\ written' = Fresh /\ detached' = {}
  /\ kept' = [t \in Tokens |-> Fresh] /\ found' = [c \in Calls |-> {}]
  /\ crossed' = {} /\ overtaken' = {} /\ loads' = 0
  /\ UNCHANGED <<rows, github>>

AnswerKinds == {"ok", "final", "limited", "429"}

Next ==
  \/ Load \/ Loaded
  \/ \E c \in Calls :
       \/ \E kind \in Kinds : StartFetch(c, kind)
       \/ Pick(c) \/ Handle(c) \/ AutoDisable(c)
       \/ \E answer \in AnswerKinds : Answers(c, answer)
  \/ StartFlush \/ QuotaWritten
  \/ \E t \in Tokens : SendQuota(t) \/ WindowPasses(t)
  \/ \E a \in Admins :
       \/ \E t \in Tokens : Register(a, t) \/ Enable(a, t) \/ Disable(a, t) \/ Delete(a, t)
       \/ Refetch(a) \/ AddToPool(a) \/ RemoveFromPool(a)
  \/ Restart

Spec == Init /\ [][Next]_vars

-----------------------------------------------------------------------------
(* Properties.                                                             *)

\* Every variable stays in its type: among others, a fetch makes no more than
\* MaxAttempts attempts, through rotations, back-offs and automatic disablings, and
\* a token never has more strikes than the threshold that resets them.
TypeOK ==
  /\ row \in [Tokens -> {"none", "active", "disabled", "deleted"}]
  /\ saved \in [Tokens -> Quota] /\ entry \in [Tokens -> Quota] /\ kept \in [Tokens -> Quota]
  /\ dirty \subseteq pool /\ pool \subseteq Tokens
  /\ strikes \in [Tokens -> 0..Threshold]
  /\ loaded \in BOOLEAN /\ reading \in BOOLEAN
  /\ call \in [Calls -> [pc : {"idle", "pick", "sent", "answered", "disabling"},
                         kind : {"core", "facet"}, attempt : 1..MaxAttempts,
                         token : Tokens \cup {NoToken}, answer : AnswerKinds \cup {"none"},
                         quota : Quota]]
  /\ admin \in [Admins -> [pc : {"idle", "refetch", "add", "drop", "done"},
                           token : Tokens \cup {NoToken},
                           status : {"none", "active", "disabled"}, quota : Quota]]
  /\ todo \subseteq Tokens /\ sending \in Tokens \cup {NoToken} /\ written \in Quota
  /\ left \in [Tokens -> 0..Limit] /\ window \in [Tokens -> 0..MaxWindows]

\* A token the pool holds back as exhausted has nothing left at GitHub in this
\* window, whatever order the reports came in and wherever the quota was loaded
\* from: no usable token sits idle until an old resetAt.
SpentIsSpent == \A t \in pool : IsExhausted(t) => left[t] = 0

Settled(t) == loaded /\ ~reading /\ t \notin Changing /\ t \notin crossed

\* The pool holds the active rows and no other, except where two changes of the
\* same token overlapped or the write of an automatic disabling failed: a token
\* an admin disabled or deleted is not picked again.
PoolFollowsRows == \A t \in Tokens : Settled(t) => (t \in pool <=> row[t] = "active")

\* An entry marked clean has its quota in the database, unless a report or a
\* reload overtook a write or a read of it: the flush loses nothing else.
CleanIsSaved ==
  \A t \in pool : t \in dirty \/ t \in overtaken \/ saved[t] = entry[t]

\* A core fetch does not ask a token again that it found spent, while its window
\* lasts and no older report or reload has made the token look fresh.
RotatesAway ==
  [][\A c \in Calls :
       call[c].pc = "pick" /\ call'[c].pc = "sent" => call'[c].token \notin found[c]]_vars
=============================================================================
