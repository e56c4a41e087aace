-------------------------- MODULE TokenPoolProofs --------------------------
(***************************************************************************)
(* Theorems about TokenPool, for any number of tokens, fetches, requests,  *)
(* reloads, windows and faults, any limit, threshold and number of         *)
(* attempts, and every interleaving at the awaits: type correctness, that  *)
(* a token held back is spent, that the pool follows the rows, that a      *)
(* clean entry is saved, and that a fetch rotates away from what it found  *)
(* spent.                                                                  *)
(***************************************************************************)
EXTENDS TokenPool, TLAPS

-----------------------------------------------------------------------------
(* The inductive invariants: Typed, and on top of it Books, ApartInv, Saved *)
(* and HeldBack, one for each property.                                    *)

Row == {"none", "active", "disabled", "deleted"}
Call == [pc : {"idle", "pick", "sent", "answered", "disabling"}, kind : {"core", "facet"},
         attempt : 1..MaxAttempts, token : Tokens \cup {NoToken},
         answer : AnswerKinds \cup {"none"}, quota : Quota]
Request == [pc : {"idle", "refetch", "add", "drop", "done"}, token : Tokens \cup {NoToken},
            status : {"none", "active", "disabled"}, quota : Quota]

\* What TypeOK leaves out: the listing and the history, and that who is at work
\* on a token has one.
Typed ==
  /\ TypeOK
  /\ listing \in [row : [Tokens -> Row], saved : [Tokens -> Quota]]
  /\ found \in [Calls -> SUBSET Tokens]
  /\ \A c \in Calls : /\ call[c].pc \in {"sent", "answered", "disabling"} => call[c].token \in Tokens
                      /\ call[c].pc \in {"idle", "pick", "sent"} => call[c].quota = Fresh
  /\ \A a \in Admins : admin[a].pc \in {"refetch", "add", "drop"} => admin[a].token \in Tokens

\* What a quota says of t was true in its window, and no window is ahead of t's.
Honest(t, q) == q.win <= window[t] /\ (OverLimit(t, q) => left[t] = 0)

\* Wherever the quota of a token is kept, it is honest.
Books ==
  /\ \A t \in Tokens : /\ Honest(t, entry[t]) /\ Honest(t, saved[t]) /\ Honest(t, kept[t])
                       /\ Honest(t, listing.saved[t])
  /\ sending \in Tokens => Honest(sending, written)
  /\ \A c \in Calls : call[c].token \in Tokens => Honest(call[c].token, call[c].quota)
  /\ \A a \in Admins : admin[a].token \in Tokens => Honest(admin[a].token, admin[a].quota)

\* Who is changing t's row and its place in the pool.
Routes(a, t) == admin[a].pc \in {"refetch", "add", "drop"} /\ admin[a].token = t
Disables(c, t) == call[c].pc = "disabling" /\ call[c].token = t

\* Unless two changes of t overlapped, only one is under way, none while the rows
\* are read, and what it has done so far is still there.
OneChange(t) ==
  /\ \A a, b \in Admins : Routes(a, t) /\ Routes(b, t) => a = b
  /\ \A c, d \in Calls : Disables(c, t) /\ Disables(d, t) => c = d
  /\ \A a \in Admins, c \in Calls : ~(Routes(a, t) /\ Disables(c, t))
HalfDone(t) ==
  /\ \A a \in Admins : Routes(a, t) =>
       CASE admin[a].pc = "refetch" -> row[t] = "active"
         [] admin[a].pc = "add" -> row[t] = "active" /\ admin[a].status = "active"
         [] OTHER -> row[t] # "active"
  /\ \A c \in Calls : Disables(c, t) => t \notin pool
ApartAt(t) ==
  t \notin crossed =>
    /\ OneChange(t) /\ HalfDone(t)
    /\ reading => t \notin Changing /\ listing.row[t] = row[t]
SettledFollows(t) == Settled(t) => (t \in pool <=> row[t] = "active")
ApartInv == \A t \in Tokens : ApartAt(t) /\ SettledFollows(t)

\* The write under way carries what the entry says, or is known not to.
Carried ==
  sending \in pool \ detached => sending \in overtaken \/ written = entry[sending]
Saved == Carried /\ CleanIsSaved

\* What a fetch found spent is out of the pool or held back.
HeldBack == \A c \in Calls : \A t \in found[c] : t \in pool => IsExhausted(t)

-----------------------------------------------------------------------------
(* What the model's operators return.                                      *)

LEMMA FreshType == Fresh \in Quota /\ Fresh.left # 0
BY PoolAssumption DEF Fresh, Quota

LEMMA IdleTypes ==
  /\ NoCall \in Call /\ NoCall.pc = "idle" /\ NoCall.quota = Fresh /\ NoCall.token = NoToken
  /\ NoRequest \in Request /\ NoRequest.pc = "idle" /\ NoRequest.quota = Fresh
  /\ NoRequest.token = NoToken
  /\ NoListing \in [row : [Tokens -> Row], saved : [Tokens -> Quota]]
  /\ \A t \in Tokens : NoListing.saved[t] = Fresh
<1>1. NoCall \in Call /\ NoCall.pc = "idle" /\ NoCall.quota = Fresh /\ NoCall.token = NoToken
  BY FreshType, PoolAssumption DEF NoCall, Call, AnswerKinds
<1>2. /\ NoRequest \in Request /\ NoRequest.pc = "idle" /\ NoRequest.quota = Fresh
      /\ NoRequest.token = NoToken
  BY FreshType DEF NoRequest, Request
<1>3. /\ NoListing \in [row : [Tokens -> Row], saved : [Tokens -> Quota]]
      /\ \A t \in Tokens : NoListing.saved[t] = Fresh
  BY FreshType DEF NoListing, Row
<1> QED BY <1>1, <1>2, <1>3

\* A fetch that goes on begins its next turn with nothing in its hands.
LEMMA AfterFacts ==
  ASSUME Typed, NEW c \in Calls
  PROVE  /\ After(c) \in [Calls -> Call]
         /\ \A d \in Calls \ {c} : After(c)[d] = call[d]
         /\ After(c)[c].pc \in {"idle", "pick"} /\ After(c)[c].quota = Fresh
         /\ After(c)[c].token = NoToken
<1>1. call \in [Calls -> Call] /\ call[c] \in Call BY DEF Typed, TypeOK, Call
<1> DEFINE turn == [NoCall EXCEPT !.pc = "pick", !.kind = call[c].kind, !.attempt = call[c].attempt + 1]
<1>2. ASSUME call[c].attempt < MaxAttempts
      PROVE  turn \in Call /\ turn.pc = "pick" /\ turn.quota = Fresh /\ turn.token = NoToken
  <2>1. call[c].attempt + 1 \in 1..MaxAttempts BY <1>1, <1>2, PoolAssumption DEF Call
  <2>2. NoCall \in Call /\ NoCall.quota = Fresh /\ NoCall.token = NoToken BY IdleTypes
  <2>3. call[c].kind \in {"core", "facet"} BY <1>1 DEF Call
  <2>4. turn \in Call BY <2>1, <2>2, <2>3 DEF Call
  <2> QED BY <2>2, <2>4 DEF Call
<1>3. \/ After(c) = [call EXCEPT ![c] = NoCall]
      \/ call[c].attempt < MaxAttempts /\ After(c) = [call EXCEPT ![c] = turn]
  BY DEF After, Again, Finished
<1> HIDE DEF turn
<1> QED BY <1>1, <1>2, <1>3, IdleTypes

\* A replaced entry is kept for the flush that holds it.
LEMMA ReplaceFacts ==
  ASSUME Typed, NEW S, Replace(S)
  PROVE  /\ kept' \in [Tokens -> Quota]
         /\ \A t \in Tokens : kept'[t] \in {kept[t], entry[t]}
         /\ found' \in [Calls -> SUBSET Tokens]
         /\ \A c \in Calls : found'[c] = found[c] \ S
         /\ detached' = detached \cup (S \cap (todo \cup {sending}))
BY DEF Typed, TypeOK, Replace

\* What a report leaves behind.
LEMMA RecordFacts ==
  ASSUME Typed, NEW c \in Calls, NEW t \in Tokens, NEW q \in Quota, RecordUsage(c, t, q)
  PROVE  /\ entry' = IF t \in pool THEN [entry EXCEPT ![t] = q] ELSE entry
         /\ pool' = IF t \in pool /\ Trips(t, q) THEN pool \ {t} ELSE pool
         /\ dirty' = IF t \notin pool THEN dirty
                     ELSE IF Trips(t, q) THEN dirty \ {t} ELSE dirty \cup {t}
         /\ strikes' \in [Tokens -> 0..Threshold]
         /\ overtaken' = IF t \in pool /\ sending = t THEN overtaken \cup {t} ELSE overtaken
         /\ IF t \in pool /\ Trips(t, q) THEN Touches(t) ELSE UNCHANGED crossed
         /\ found' \in [Calls -> SUBSET Tokens]
         /\ \A d \in Calls : /\ found'[d] \subseteq found[d] \cup {t}
                             /\ t \in found'[d] => OverLimit(t, q)
<1>1. strikes' \in [Tokens -> 0..Threshold]
  <2>1. CASE t \in pool
    <3>1. strikes' = [strikes EXCEPT ![t] =
                       IF OverLimit(t, q) /\ Threshold > 0 /\ ~Trips(t, q) THEN strikes[t] + 1 ELSE 0]
      BY <2>1 DEF RecordUsage
    <3>2. strikes \in [Tokens -> 0..Threshold] BY DEF Typed, TypeOK
    <3>3. OverLimit(t, q) /\ Threshold > 0 /\ ~Trips(t, q) => strikes[t] + 1 \in 0..Threshold
      BY <3>2, PoolAssumption DEF Trips
    <3> QED BY <3>1, <3>2, <3>3, PoolAssumption
  <2>2. CASE t \notin pool
    BY <2>2 DEF RecordUsage, memory, Typed, TypeOK
  <2> QED BY <2>1, <2>2
<1>2. found \in [Calls -> SUBSET Tokens] BY DEF Typed
<1>3. /\ found' \in [Calls -> SUBSET Tokens]
      /\ \A d \in Calls : /\ found'[d] \subseteq found[d] \cup {t}
                          /\ t \in found'[d] => OverLimit(t, q)
  BY <1>2 DEF RecordUsage
<1> QED BY <1>1, <1>3 DEF RecordUsage, memory

-----------------------------------------------------------------------------
(* Type correctness.                                                       *)

LEMMA InitTyped == Init => Typed
<1> SUFFICES ASSUME Init PROVE Typed OBVIOUS
<1>1. \A c \in Calls : call[c] = NoCall BY DEF Init
<1>2. \A a \in Admins : admin[a] = NoRequest BY DEF Init
<1>3. call \in [Calls -> Call] /\ admin \in [Admins -> Request] BY IdleTypes DEF Init
<1>4. TypeOK
  <2>1. /\ row \in [Tokens -> {"none", "active", "disabled", "deleted"}]
        /\ left \in [Tokens -> 0..Limit] /\ window \in [Tokens -> 0..MaxWindows]
        /\ strikes \in [Tokens -> 0..Threshold]
    BY PoolAssumption DEF Init
  <2>2. saved = [t \in Tokens |-> Fresh] /\ entry = saved /\ kept = saved /\ written = Fresh
    BY DEF Init
  <2>3. /\ saved \in [Tokens -> Quota] /\ entry \in [Tokens -> Quota]
        /\ kept \in [Tokens -> Quota] /\ written \in Quota
    BY <2>2, FreshType
  <2>4. /\ dirty \subseteq pool /\ pool \subseteq Tokens /\ loaded \in BOOLEAN /\ reading \in BOOLEAN
        /\ todo \subseteq Tokens /\ sending \in Tokens \cup {NoToken}
    BY DEF Init
  <2> QED BY <1>3, <2>1, <2>3, <2>4 DEF TypeOK, Call, Request
<1> QED BY <1>1, <1>2, <1>4, IdleTypes DEF Init, Typed

\* One fetch moves on.
LEMMA MoveTyped ==
  ASSUME Typed, NEW c \in Calls, NEW r \in Call, call' = [call EXCEPT ![c] = r],
         r.pc \in {"sent", "answered", "disabling"} => r.token \in Tokens,
         r.pc \in {"idle", "pick", "sent"} => r.quota = Fresh
  PROVE  /\ call' \in [Calls -> Call]
         /\ \A d \in Calls :
              /\ call'[d].pc \in {"sent", "answered", "disabling"} => call'[d].token \in Tokens
              /\ call'[d].pc \in {"idle", "pick", "sent"} => call'[d].quota = Fresh
<1>1. call \in [Calls -> Call] BY DEF Typed, TypeOK, Call
<1> QED BY <1>1 DEF Typed

\* The steps of a fetch.
LEMMA FetchTyped ==
  ASSUME Typed, NEW c \in Calls,
         \/ \E kind \in Kinds : StartFetch(c, kind)
         \/ Pick(c) \/ Handle(c) \/ AutoDisable(c)
         \/ \E answer \in AnswerKinds : Answers(c, answer)
  PROVE  Typed'
<1> DEFINE Moved == /\ call' \in [Calls -> Call]
                    /\ \A d \in Calls :
                         /\ call'[d].pc \in {"sent", "answered", "disabling"} => call'[d].token \in Tokens
                         /\ call'[d].pc \in {"idle", "pick", "sent"} => call'[d].quota = Fresh
<1>a. call \in [Calls -> Call] /\ call[c] \in Call BY DEF Typed, TypeOK, Call
<1>b. ASSUME After(c) = call' PROVE Moved
  BY <1>b, AfterFacts DEF Typed
<1>c. found \in [Calls -> SUBSET Tokens] BY DEF Typed
<1>1. ASSUME NEW kind \in Kinds, StartFetch(c, kind) PROVE Typed'
  <2> DEFINE r == [call[c] EXCEPT !.pc = "pick", !.kind = kind, !.attempt = 1]
  <2>1. call' = [call EXCEPT ![c] = r] /\ call[c].pc = "idle" BY <1>1 DEF StartFetch
  <2>2. r \in Call /\ r.pc = "pick" /\ r.quota = Fresh
    <3>1. kind \in {"core", "facet"} /\ 1 \in 1..MaxAttempts BY PoolAssumption
    <3>2. r \in Call /\ r.pc = "pick" /\ r.quota = call[c].quota BY <1>a, <3>1 DEF Call
    <3>3. call[c].quota = Fresh BY <2>1 DEF Typed
    <3> QED BY <3>2, <3>3
  <2> HIDE DEF r
  <2>3. Moved BY <2>1, <2>2, MoveTyped
  <2>4. found' \in [Calls -> SUBSET Tokens] BY <1>1, <1>c DEF StartFetch
  <2> HIDE DEF Moved
  <2>5. UNCHANGED <<rows, memory, loading, admin, flush, github>> BY <1>1 DEF StartFetch
  <2> QED BY <2>3, <2>4, <2>5 DEF Typed, TypeOK, Call, Moved, rows, memory, loading, flush, github
<1>2. ASSUME Pick(c) PROVE Typed'
  <2>1. Moved
    <3>1. ASSUME NEW t \in Candidates, call' = [call EXCEPT ![c].pc = "sent", ![c].token = t]
          PROVE  Moved
      <4> DEFINE r == [call[c] EXCEPT !.pc = "sent", !.token = t]
      <4>1. call' = [call EXCEPT ![c] = r] BY <3>1
      <4>2. t \in Tokens BY DEF Candidates, Typed, TypeOK
      <4>3. r \in Call /\ r.pc = "sent" /\ r.quota = Fresh /\ r.token \in Tokens
        BY <1>a, <1>2, <4>2 DEF Call, Typed, Pick
      <4> HIDE DEF r
      <4> QED BY <4>1, <4>3, MoveTyped
    <3>2. ASSUME call' = [call EXCEPT ![c] = NoCall] PROVE Moved
      BY <3>2, MoveTyped, IdleTypes
    <3> QED BY <1>2, <3>1, <3>2 DEF Pick
  <2> HIDE DEF Moved
  <2>2. UNCHANGED <<rows, memory, loading, admin, flush, github, found>> BY <1>2 DEF Pick, history
  <2> QED BY <2>1, <2>2 DEF Typed, TypeOK, Call, Moved, rows, memory, loading, flush, github
<1>3. ASSUME NEW answer \in AnswerKinds, Answers(c, answer) PROVE Typed'
  <2> DEFINE t == call[c].token
             q == IF answer \in {"ok", "limited"} THEN [left |-> left'[t], win |-> window[t]] ELSE Fresh
             r == [call[c] EXCEPT !.pc = "answered", !.answer = answer, !.quota = q]
  <2>1. t \in Tokens BY <1>3 DEF Answers, Typed
  <2>2. left' \in [Tokens -> 0..Limit]
    <3>1. left \in [Tokens -> 0..Limit] BY DEF Typed, TypeOK
    <3>2. left' = left \/ (left[t] > 0 /\ left' = [left EXCEPT ![t] = left[t] - 1])
      BY <1>3 DEF Answers, AnswerKinds
    <3> QED BY <2>1, <3>1, <3>2, PoolAssumption
  <2>3. q \in Quota BY <2>1, <2>2, FreshType DEF Quota, Typed, TypeOK
  <2>4. call' = [call EXCEPT ![c] = r] BY <1>3 DEF Answers
  <2> HIDE DEF q
  <2>5. r \in Call /\ r.pc = "answered" /\ r.token \in Tokens
    BY <1>a, <2>1, <2>3 DEF Call
  <2> HIDE DEF r, t
  <2>6. Moved BY <2>4, <2>5, MoveTyped
  <2> HIDE DEF Moved
  <2>7. UNCHANGED <<rows, memory, loading, admin, flush, window, found>> BY <1>3 DEF Answers, history
  <2> QED BY <2>2, <2>6, <2>7 DEF Typed, TypeOK, Call, Moved, rows, memory, loading, flush
<1>4. ASSUME Handle(c) PROVE Typed'
  <2> DEFINE t == call[c].token
             q == call[c].quota
  <2>1. call[c].pc = "answered" /\ t \in Tokens /\ q \in Quota BY <1>4, <1>a DEF Handle, Call, Typed
  <2>2. Moved
    <3>1. call' = After(c) \/ call' = [call EXCEPT ![c].pc = "disabling"] BY <1>4 DEF Handle
    <3>2. ASSUME call' = [call EXCEPT ![c].pc = "disabling"] PROVE Moved
      <4> DEFINE r == [call[c] EXCEPT !.pc = "disabling"]
      <4>1. r \in Call /\ r.pc = "disabling" /\ r.token \in Tokens BY <1>a, <2>1 DEF Call
      <4>2. call' = [call EXCEPT ![c] = r] BY <3>2
      <4> HIDE DEF r
      <4> QED BY <4>1, <4>2, MoveTyped
    <3> QED BY <1>b, <3>1, <3>2
  <2> HIDE DEF Moved
  <2>3. UNCHANGED <<rows, loading, admin, flush, github>> BY <1>4 DEF Handle
  <2>4. CASE Reported(c)
    <3>1. RecordUsage(c, t, q) BY <1>4, <2>4 DEF Handle
    <3> HIDE DEF t, q
    <3>2. /\ entry' \in [Tokens -> Quota] /\ strikes' \in [Tokens -> 0..Threshold]
          /\ dirty' \subseteq pool' /\ pool' \subseteq Tokens /\ found' \in [Calls -> SUBSET Tokens]
      <4>1. dirty \subseteq pool /\ pool \subseteq Tokens /\ entry \in [Tokens -> Quota]
        BY DEF Typed, TypeOK
      <4>2. /\ entry' = IF t \in pool THEN [entry EXCEPT ![t] = q] ELSE entry
            /\ pool' = IF t \in pool /\ Trips(t, q) THEN pool \ {t} ELSE pool
            /\ dirty' = IF t \notin pool THEN dirty
                        ELSE IF Trips(t, q) THEN dirty \ {t} ELSE dirty \cup {t}
            /\ strikes' \in [Tokens -> 0..Threshold] /\ found' \in [Calls -> SUBSET Tokens]
        BY <2>1, <3>1, RecordFacts
      <4> QED BY <2>1, <4>1, <4>2
    <3> QED BY <2>2, <2>3, <3>2 DEF Typed, TypeOK, Call, Moved, rows, loading, flush, github
  <2>5. CASE ~Reported(c)
    <3>1. UNCHANGED <<memory, found>> BY <1>4, <2>5 DEF Handle
    <3> HIDE DEF t, q
    <3> QED BY <2>2, <2>3, <3>1 DEF Typed, TypeOK, Call, Moved, rows, memory, loading, flush, github
  <2> QED BY <2>4, <2>5
<1>5. ASSUME AutoDisable(c) PROVE Typed'
  <2>1. Moved BY <1>5, <1>b DEF AutoDisable
  <2> HIDE DEF Moved
  <2>2. UNCHANGED <<saved, memory, loading, admin, flush, github, found>> BY <1>5 DEF AutoDisable
  <2>3. row' \in [Tokens -> {"none", "active", "disabled", "deleted"}]
    BY <1>5 DEF AutoDisable, Typed, TypeOK
  <2> QED BY <2>1, <2>2, <2>3 DEF Typed, TypeOK, Call, Moved, memory, loading, flush, github
<1> QED BY <1>1, <1>2, <1>3, <1>4, <1>5

\* The steps of initPool, of the flush, of GitHub and of the process.
LEMMA WorldTyped ==
  ASSUME Typed,
         \/ Load \/ Loaded \/ StartFlush \/ QuotaWritten \/ Restart
         \/ \E t \in Tokens : SendQuota(t) \/ WindowPasses(t)
  PROVE  Typed'
<1>a. call \in [Calls -> Call] /\ admin \in [Admins -> Request] /\ found \in [Calls -> SUBSET Tokens]
  BY DEF Typed, TypeOK, Call, Request
<1>1. ASSUME Load PROVE Typed'
  <2>1. listing' \in [row : [Tokens -> Row], saved : [Tokens -> Quota]] /\ reading' \in BOOLEAN
    BY <1>1 DEF Load, Listing, Typed, TypeOK, Row
  <2>2. UNCHANGED <<rows, memory, loaded, call, admin, flush, github, found>> BY <1>1 DEF Load
  <2> QED BY <2>1, <2>2 DEF Typed, TypeOK, rows, memory, flush, github
<1>2. ASSUME Loaded PROVE Typed'
  <2>1. Replace(Tokens) BY <1>2 DEF Loaded
  <2>2. kept' \in [Tokens -> Quota] /\ found' \in [Calls -> SUBSET Tokens] BY <2>1, ReplaceFacts
  <2>3. Loadable \subseteq Tokens BY DEF Loadable
  <2>4. entry' \in [Tokens -> Quota] BY <1>2 DEF Loaded, Typed, TypeOK
  <2>5. listing' \in [row : [Tokens -> Row], saved : [Tokens -> Quota]] BY <1>2, IdleTypes DEF Loaded
  <2>6. /\ UNCHANGED <<rows, strikes, call, admin, todo, sending, written, github>>
        /\ pool' = Loadable /\ dirty' = {} /\ reading' = FALSE /\ loaded' = TRUE
    BY <1>2 DEF Loaded
  <2> QED BY <2>2, <2>3, <2>4, <2>5, <2>6 DEF Typed, TypeOK, rows, github
<1>3. ASSUME StartFlush PROVE Typed'
  <2>1. todo' \subseteq Tokens BY <1>3 DEF StartFlush, Typed, TypeOK
  <2>2. UNCHANGED <<rows, memory, loading, call, admin, sending, written, kept, github, found>>
    BY <1>3 DEF StartFlush, history
  <2> QED BY <2>1, <2>2 DEF Typed, TypeOK, rows, memory, loading, github
<1>4. ASSUME QuotaWritten PROVE Typed'
  <2>1. sending \in Tokens BY <1>4 DEF QuotaWritten, Typed, TypeOK
  <2>2. saved' \in [Tokens -> Quota] /\ dirty' \subseteq pool
    BY <1>4, <2>1 DEF QuotaWritten, Typed, TypeOK
  <2>3. sending' = NoToken /\ written' \in Quota BY <1>4, FreshType DEF QuotaWritten
  <2>4. UNCHANGED <<row, pool, entry, strikes, loading, call, admin, todo, kept, github, found>>
    BY <1>4 DEF QuotaWritten
  <2> QED BY <2>2, <2>3, <2>4 DEF Typed, TypeOK, loading, github
<1>5. ASSUME Restart PROVE Typed'
  <2>1. call' \in [Calls -> Call] /\ \A c \in Calls : call'[c] = NoCall
    BY <1>5, IdleTypes DEF Restart
  <2>2. /\ admin' \in [Admins -> Request]
        /\ \A a \in Admins : admin'[a].pc \notin {"refetch", "add", "drop"}
    <3>1. NoRequest \in Request BY IdleTypes
    <3>2. \A a \in Admins : admin'[a] = IF admin[a].pc = "idle" THEN admin[a]
                                        ELSE [NoRequest EXCEPT !.pc = "done"]
      BY <1>5 DEF Restart
    <3>3. [NoRequest EXCEPT !.pc = "done"] \in Request /\ [NoRequest EXCEPT !.pc = "done"].pc = "done"
      BY <3>1 DEF Request
    <3>4. admin' = [a \in Admins |-> IF admin[a].pc = "idle" THEN admin[a]
                                     ELSE [NoRequest EXCEPT !.pc = "done"]]
      BY <1>5 DEF Restart
    <3> QED BY <1>a, <3>2, <3>3, <3>4
  <2>3. /\ entry' \in [Tokens -> Quota] /\ kept' \in [Tokens -> Quota] /\ written' \in Quota
        /\ strikes' \in [Tokens -> 0..Threshold] /\ found' \in [Calls -> SUBSET Tokens]
    BY <1>5, FreshType, PoolAssumption DEF Restart
  <2>4. listing' \in [row : [Tokens -> Row], saved : [Tokens -> Quota]] BY <1>5, IdleTypes DEF Restart
  <2>5. /\ pool' = {} /\ dirty' = {} /\ loaded' = FALSE /\ reading' = FALSE
        /\ todo' = {} /\ sending' = NoToken /\ UNCHANGED <<rows, github>>
    BY <1>5 DEF Restart
  <2> QED BY <2>1, <2>2, <2>3, <2>4, <2>5, IdleTypes DEF Typed, TypeOK, Call, Request, rows, github
<1>6. ASSUME NEW t \in Tokens, SendQuota(t) PROVE Typed'
  <2>1. written' \in Quota /\ kept' \in [Tokens -> Quota]
    BY <1>6, FreshType DEF SendQuota, Typed, TypeOK
  <2>2. sending' = t /\ todo' \subseteq Tokens BY <1>6 DEF SendQuota, Typed, TypeOK
  <2>3. UNCHANGED <<rows, memory, loading, call, admin, github, found>>
    BY <1>6 DEF SendQuota, history
  <2> QED BY <2>1, <2>2, <2>3 DEF Typed, TypeOK, rows, memory, loading, github
<1>7. ASSUME NEW t \in Tokens, WindowPasses(t) PROVE Typed'
  <2>1. window' \in [Tokens -> 0..MaxWindows]
    BY <1>7, PoolAssumption DEF WindowPasses, Typed, TypeOK
  <2>2. left' \in [Tokens -> 0..Limit] BY <1>7, PoolAssumption DEF WindowPasses, Typed, TypeOK
  <2>3. found' \in [Calls -> SUBSET Tokens] BY <1>7, <1>a DEF WindowPasses
  <2>4. UNCHANGED <<rows, memory, loading, call, admin, flush>> BY <1>7 DEF WindowPasses
  <2> QED BY <2>1, <2>2, <2>3, <2>4 DEF Typed, TypeOK, rows, memory, loading, flush
<1> QED BY <1>1, <1>2, <1>3, <1>4, <1>5, <1>6, <1>7

\* A request of an admin moves on.
LEMMA RequestMoves ==
  ASSUME Typed, NEW a \in Admins, NEW r \in Request, admin' = [admin EXCEPT ![a] = r],
         r.pc \in {"refetch", "add", "drop"} => r.token \in Tokens
  PROVE  /\ admin' \in [Admins -> Request]
         /\ \A b \in Admins : admin'[b].pc \in {"refetch", "add", "drop"} => admin'[b].token \in Tokens
<1>1. admin \in [Admins -> Request] BY DEF Typed, TypeOK, Request
<1> QED BY <1>1 DEF Typed

\* A request starts with its row written, and a change of the pool to make.
Begins(a, t) == Register(a, t) \/ Enable(a, t) \/ Disable(a, t) \/ Delete(a, t)

LEMMA BeginFacts ==
  ASSUME Typed, NEW a \in Admins, NEW t \in Tokens, Begins(a, t)
  PROVE  \E s \in {"active", "disabled", "deleted"}, pc \in {"refetch", "add", "drop"},
            st \in {"none", "active"} :
           /\ row' = [row EXCEPT ![t] = s]
           /\ Requests(a, t, pc, st, Fresh)
           /\ pc = "add" => st = "active"
           /\ pc \in {"refetch", "add"} <=> s = "active"
           /\ admin[a].pc = "idle" /\ Touches(t) /\ UNCHANGED BesidesRow
<1>1. CASE Register(a, t) BY <1>1, Zenon DEF Register
<1>2. CASE Enable(a, t) BY <1>2, Zenon DEF Enable
<1>3. CASE Disable(a, t) BY <1>3, Zenon DEF Disable
<1>4. CASE Delete(a, t) BY <1>4, Zenon DEF Delete
<1> QED BY <1>1, <1>2, <1>3, <1>4 DEF Begins

LEMMA AdminTyped ==
  ASSUME Typed, NEW a \in Admins,
         (\E t \in Tokens : Begins(a, t)) \/ Refetch(a) \/ AddToPool(a) \/ RemoveFromPool(a)
  PROVE  Typed'
<1> DEFINE Moved == /\ admin' \in [Admins -> Request]
                    /\ \A b \in Admins :
                         admin'[b].pc \in {"refetch", "add", "drop"} => admin'[b].token \in Tokens
<1>a. ASSUME NEW t \in Tokens, NEW pc \in {"refetch", "add", "drop"}, NEW st \in {"none", "active", "disabled"},
             NEW q \in Quota, Requests(a, t, pc, st, q)
      PROVE  Moved
  <2> DEFINE r == [pc |-> pc, token |-> t, status |-> st, quota |-> q]
  <2>1. admin' = [admin EXCEPT ![a] = r] BY <1>a DEF Requests
  <2>2. r \in Request /\ r.token \in Tokens BY DEF Request
  <2> HIDE DEF r
  <2> QED BY <2>1, <2>2, RequestMoves
<1>b. ASSUME Responds(a) PROVE Moved
  <2> DEFINE r == [NoRequest EXCEPT !.pc = "done"]
  <2>1. admin' = [admin EXCEPT ![a] = r] BY <1>b DEF Responds
  <2>2. r \in Request /\ r.pc = "done" BY IdleTypes DEF Request
  <2> HIDE DEF r
  <2> QED BY <2>1, <2>2, RequestMoves
<1>c. admin[a] \in Request BY DEF Typed, TypeOK, Request
<1> HIDE DEF Moved
<1>1. ASSUME NEW t \in Tokens, Begins(a, t) PROVE Typed'
  <2>1. PICK s \in {"active", "disabled", "deleted"}, pc \in {"refetch", "add", "drop"},
             st \in {"none", "active"} :
          row' = [row EXCEPT ![t] = s] /\ Requests(a, t, pc, st, Fresh) /\ UNCHANGED BesidesRow
    BY <1>1, BeginFacts
  <2>2. Moved BY <1>a, <2>1, FreshType
  <2>3. row' \in [Tokens -> {"none", "active", "disabled", "deleted"}] BY <2>1 DEF Typed, TypeOK
  <2>4. UNCHANGED <<saved, memory, loading, call, flush, github, found>> BY <2>1 DEF BesidesRow
  <2> QED BY <2>2, <2>3, <2>4 DEF Typed, TypeOK, Request, Moved, memory, loading, flush, github
<1>2. ASSUME Refetch(a) PROVE Typed'
  <2> DEFINE t == admin[a].token
  <2>1. t \in Tokens BY <1>2 DEF Refetch, Typed
  <2>2. Moved
    <3>1. CASE Exists(t)
      <4>1. row[t] \in {"none", "active", "disabled"} /\ saved[t] \in Quota
        BY <2>1, <3>1 DEF Exists, Typed, TypeOK
      <4>2. Requests(a, t, "add", row[t], saved[t]) BY <1>2, <3>1 DEF Refetch
      <4> QED BY <1>a, <2>1, <4>1, <4>2
    <3>2. CASE ~Exists(t) BY <1>2, <1>b, <3>2 DEF Refetch
    <3> QED BY <3>1, <3>2
  <2>3. UNCHANGED <<row, saved, memory, loading, call, flush, github, found>>
    BY <1>2 DEF Refetch, BesidesRow
  <2> QED BY <2>2, <2>3 DEF Typed, TypeOK, Request, Moved, memory, loading, flush, github
<1>3. ASSUME AddToPool(a) PROVE Typed'
  <2> DEFINE t == admin[a].token
  <2>1. t \in Tokens BY <1>3 DEF AddToPool, Typed
  <2>2. Moved BY <1>3, <1>b DEF AddToPool
  <2>3. /\ entry' \in [Tokens -> Quota] /\ kept' \in [Tokens -> Quota]
        /\ found' \in [Calls -> SUBSET Tokens] /\ dirty' \subseteq pool' /\ pool' \subseteq Tokens
    <3>a. /\ entry \in [Tokens -> Quota] /\ kept \in [Tokens -> Quota]
          /\ found \in [Calls -> SUBSET Tokens] /\ dirty \subseteq pool /\ pool \subseteq Tokens
      BY DEF Typed, TypeOK
    <3>b. dirty' = dirty \ {t} BY <1>3 DEF AddToPool
    <3>1. CASE admin[a].status = "active"
      <4>1. /\ pool' = pool \cup {t} /\ entry' = [entry EXCEPT ![t] = admin[a].quota] /\ Replace({t})
        BY <1>3, <3>1 DEF AddToPool
      <4>2. kept' \in [Tokens -> Quota] /\ found' \in [Calls -> SUBSET Tokens] BY <4>1, ReplaceFacts
      <4>3. admin[a].quota \in Quota BY <1>c DEF Request
      <4> QED BY <2>1, <3>a, <3>b, <4>1, <4>2, <4>3
    <3>2. CASE admin[a].status # "active"
      <4>1. pool' = pool \ {t} /\ UNCHANGED <<entry, kept, found>> BY <1>3, <3>2 DEF AddToPool
      <4> QED BY <3>a, <3>b, <4>1
    <3> QED BY <3>1, <3>2
  <2>4. UNCHANGED <<rows, strikes, loading, call, todo, sending, written, github>> BY <1>3 DEF AddToPool
  <2> QED BY <2>2, <2>3, <2>4 DEF Typed, TypeOK, Request, Moved, rows, loading, github
<1>4. ASSUME RemoveFromPool(a) PROVE Typed'
  <2>1. Moved BY <1>4, <1>b DEF RemoveFromPool
  <2>2. dirty' \subseteq pool' /\ pool' \subseteq Tokens BY <1>4 DEF RemoveFromPool, Typed, TypeOK
  <2>3. UNCHANGED <<rows, entry, strikes, loading, call, flush, github, found>>
    BY <1>4 DEF RemoveFromPool, history
  <2> QED BY <2>1, <2>2, <2>3 DEF Typed, TypeOK, Request, Moved, rows, loading, flush, github
<1> QED BY <1>1, <1>2, <1>3, <1>4

LEMMA NextTyped == Typed /\ [Next]_vars => Typed'
<1>1. ASSUME Typed, UNCHANGED vars PROVE Typed'
  BY <1>1 DEF vars, rows, memory, loading, flush, github, history, Typed, TypeOK
<1> QED BY <1>1, FetchTyped, WorldTyped, AdminTyped DEF Next, Begins

LEMMA TypedInvariance == Spec => []Typed
BY InitTyped, NextTyped, PTL DEF Spec

\* Every variable of TokenPool keeps its type in every behaviour, and the two
\* maps of the pool change together.
THEOREM PoolTypeOK == Spec => []TypeOK
<1>1. Typed => TypeOK BY DEF Typed
<1> QED BY <1>1, TypedInvariance, PTL

-----------------------------------------------------------------------------
(* Exhausted tokens.                                                       *)

LEMMA HonestFresh == ASSUME Typed, NEW t \in Tokens PROVE Honest(t, Fresh)
BY FreshType, PoolAssumption DEF Honest, OverLimit, Fresh, Typed, TypeOK

\* What was honest stays so while the books of the token stay, or GitHub serves a
\* request, or a window passes.
LEMMA HonestStays ==
  ASSUME Typed, NEW t \in Tokens, NEW q \in Quota, Honest(t, q),
         \/ left'[t] = left[t] /\ window'[t] = window[t]
         \/ left[t] > 0 /\ window'[t] = window[t]
         \/ window'[t] = window[t] + 1
  PROVE  Honest(t, q)'
<1>1. q.win \in Nat /\ window[t] \in Nat /\ left[t] \in Nat
  BY PoolAssumption DEF Quota, Typed, TypeOK
<1> QED BY <1>1 DEF Honest, OverLimit

\* The same for every token.
BooksKept ==
  \A t \in Tokens : \/ left'[t] = left[t] /\ window'[t] = window[t]
                    \/ left[t] > 0 /\ window'[t] = window[t]
                    \/ window'[t] = window[t] + 1

LEMMA BooksStep ==
  ASSUME Typed, Next
  PROVE  BooksKept
<1>1. left \in [Tokens -> 0..Limit] /\ window \in [Tokens -> 0..MaxWindows] BY DEF Typed, TypeOK
<1>2. ASSUME NEW c \in Calls, NEW answer \in AnswerKinds, Answers(c, answer) PROVE BooksKept
  <2>1. call[c].token \in Tokens BY <1>2 DEF Answers, Typed
  <2>2. \/ left' = left
        \/ left[call[c].token] > 0 /\ left' = [left EXCEPT ![call[c].token] = @ - 1]
    BY <1>2 DEF Answers, AnswerKinds
  <2>3. window' = window BY <1>2 DEF Answers
  <2> QED BY <1>1, <2>1, <2>2, <2>3 DEF BooksKept
<1>3. ASSUME NEW t \in Tokens, WindowPasses(t) PROVE BooksKept
  BY <1>1, <1>3 DEF WindowPasses, BooksKept
<1>4. CASE UNCHANGED github BY <1>4 DEF github, BooksKept
<1>5. ASSUME NEW c \in Calls, \/ \E kind \in Kinds : StartFetch(c, kind)
                              \/ Pick(c) \/ Handle(c) \/ AutoDisable(c)
      PROVE  UNCHANGED github
  BY <1>5 DEF StartFetch, Pick, Handle, AutoDisable
<1>6. ASSUME NEW a \in Admins,
             (\E t \in Tokens : Begins(a, t)) \/ Refetch(a) \/ AddToPool(a) \/ RemoveFromPool(a)
      PROVE  UNCHANGED github
  BY <1>6 DEF Begins, Register, Enable, Disable, Delete, Refetch, AddToPool, RemoveFromPool, BesidesRow
<1>7. ASSUME Load \/ Loaded \/ StartFlush \/ QuotaWritten \/ Restart \/ \E t \in Tokens : SendQuota(t)
      PROVE  UNCHANGED github
  BY <1>7 DEF Load, Loaded, StartFlush, QuotaWritten, Restart, SendQuota
<1> QED BY <1>2, <1>3, <1>4, <1>5, <1>6, <1>7 DEF Next, Begins

\* Every quota at hand was at hand before, is fresh, or is what GitHub just said.
Told(t, q) == q.win = window'[t] /\ q.left = left'[t]
Known(t, q) == q \in {entry[t], saved[t], kept[t], listing.saved[t], Fresh}
               \/ (sending = t /\ q = written)
               \/ (\E c \in Calls : call[c].token = t /\ q = call[c].quota)
               \/ (\E a \in Admins : admin[a].token = t /\ q = admin[a].quota)

StillHonest(t, q) ==
  q.win <= window'[t] /\ (q.left = 0 /\ q.win = window'[t] => left'[t] = 0)

LEMMA KnownHonest ==
  ASSUME Typed, Books, BooksKept, NEW t \in Tokens, NEW q \in Quota, Known(t, q) \/ Told(t, q)
  PROVE  StillHonest(t, q)
<1>1. CASE Known(t, q)
  <2>1. Honest(t, q) BY <1>1, HonestFresh DEF Known, Books
  <2>2. Honest(t, q)' BY <2>1, HonestStays DEF BooksKept
  <2> QED BY <2>2 DEF StillHonest, Honest, OverLimit
<1>2. CASE Told(t, q)
  BY <1>2, PoolAssumption DEF Told, StillHonest, Quota
<1> QED BY <1>1, <1>2

\* Where the quotas at hand come from, step by step.
Sources ==
  /\ \A t \in Tokens : /\ Known(t, entry'[t]) /\ Known(t, saved'[t]) /\ Known(t, kept'[t])
                       /\ Known(t, listing'.saved[t])
  /\ sending' \in Tokens => Known(sending', written')
  /\ \A c \in Calls : call'[c].token \in Tokens =>
       Known(call'[c].token, call'[c].quota) \/ Told(call'[c].token, call'[c].quota)
  /\ \A a \in Admins : admin'[a].token \in Tokens => Known(admin'[a].token, admin'[a].quota)

\* A call keeps its token and its quota, or has none.
LEMMA AfterSources ==
  ASSUME Typed, NEW c \in Calls, call' = After(c)
  PROVE  \A d \in Calls : call'[d].token \in Tokens => Known(call'[d].token, call'[d].quota)
BY AfterFacts, PoolAssumption DEF Known

LEMMA FetchSources ==
  ASSUME Typed, NEW c \in Calls,
         \/ \E kind \in Kinds : StartFetch(c, kind)
         \/ Pick(c) \/ Handle(c) \/ AutoDisable(c)
         \/ \E answer \in AnswerKinds : Answers(c, answer)
  PROVE  Sources
<1>a. call \in [Calls -> Call] BY DEF Typed, TypeOK, Call
<1>b. ASSUME UNCHANGED <<rows, entry, loading, admin, flush>>,
             \A d \in Calls : call'[d].token \in Tokens =>
               Known(call'[d].token, call'[d].quota) \/ Told(call'[d].token, call'[d].quota)
      PROVE  Sources
  BY <1>b DEF Sources, Known, rows, loading, flush
<1>1. ASSUME NEW kind \in Kinds, StartFetch(c, kind) PROVE Sources
  <2>1. \A d \in Calls : call'[d].token = call[d].token /\ call'[d].quota = call[d].quota
    BY <1>1, <1>a DEF StartFetch, Call
  <2>2. \A d \in Calls : Known(call'[d].token, call'[d].quota) BY <2>1 DEF Known
  <2> QED BY <1>1, <1>b, <2>2 DEF StartFetch, memory
<1>2. ASSUME Pick(c) PROVE Sources
  <2>1. call[c].quota = Fresh BY <1>2 DEF Pick, Typed
  <2>2. \A d \in Calls : call'[d] = call[d] \/ call'[d].quota = Fresh
    BY <1>2, <1>a, <2>1, IdleTypes DEF Pick, Call
  <2>3. \A d \in Calls : Known(call'[d].token, call'[d].quota) BY <2>2 DEF Known
  <2> QED BY <1>2, <1>b, <2>3 DEF Pick, memory
<1>3. ASSUME NEW answer \in AnswerKinds, Answers(c, answer) PROVE Sources
  <2> DEFINE t == call[c].token
             q == IF answer \in {"ok", "limited"} THEN [left |-> left'[t], win |-> window[t]] ELSE Fresh
  <2>1. \A d \in Calls \ {c} : call'[d] = call[d] BY <1>3, <1>a DEF Answers
  <2>2. call'[c].token = t /\ call'[c].quota = q
    <3>1. call' = [call EXCEPT ![c].pc = "answered", ![c].answer = answer, ![c].quota = q]
      BY <1>3 DEF Answers
    <3> HIDE DEF q
    <3> QED BY <1>a, <3>1 DEF Call
  <2>3. window' = window BY <1>3 DEF Answers
  <2>4. q = Fresh \/ Told(t, q) BY <2>3 DEF Told
  <2> HIDE DEF t, q
  <2>5. \A d \in Calls : Known(call'[d].token, call'[d].quota) \/ Told(call'[d].token, call'[d].quota)
    BY <2>1, <2>2, <2>4 DEF Known
  <2> QED BY <1>3, <1>b, <2>5 DEF Answers, memory
<1>4. ASSUME Handle(c) PROVE Sources
  <2> DEFINE t == call[c].token
             q == call[c].quota
  <2>1. t \in Tokens /\ q \in Quota BY <1>4, <1>a DEF Handle, Call, Typed
  <2>2. \A d \in Calls : call'[d].token \in Tokens => Known(call'[d].token, call'[d].quota)
    <3>1. CASE call' = [call EXCEPT ![c].pc = "disabling"]
      <4>1. \A d \in Calls : call'[d].token = call[d].token /\ call'[d].quota = call[d].quota
        BY <3>1, <1>a DEF Call
      <4> QED BY <4>1 DEF Known
    <3>2. CASE call' = After(c) BY <3>2, AfterSources
    <3> QED BY <1>4, <3>1, <3>2 DEF Handle
  <2>3. UNCHANGED <<rows, loading, admin, flush>> BY <1>4 DEF Handle
  <2>4. \A u \in Tokens : entry'[u] = entry[u] \/ (u = t /\ entry'[u] = q)
    <3>1. entry \in [Tokens -> Quota] BY DEF Typed, TypeOK
    <3>2. CASE Reported(c)
      <4>1. RecordUsage(c, t, q) BY <1>4, <3>2 DEF Handle
      <4> HIDE DEF t, q
      <4>2. entry' = IF t \in pool THEN [entry EXCEPT ![t] = q] ELSE entry BY <2>1, <4>1, RecordFacts
      <4> QED BY <3>1, <4>2
    <3>3. CASE ~Reported(c) BY <1>4, <3>3 DEF Handle, memory
    <3> QED BY <3>2, <3>3
  <2>5. \A u \in Tokens : Known(u, entry'[u]) BY <2>4 DEF Known
  <2> HIDE DEF t, q
  <2> QED BY <2>2, <2>3, <2>5 DEF Sources, Known, rows, loading, flush
<1>5. ASSUME AutoDisable(c) PROVE Sources
  <2>1. \A d \in Calls : call'[d].token \in Tokens => Known(call'[d].token, call'[d].quota)
    BY <1>5, AfterSources DEF AutoDisable
  <2>2. UNCHANGED <<saved, entry, loading, admin, flush>> BY <1>5 DEF AutoDisable, memory
  <2> QED BY <2>1, <2>2 DEF Sources, Known, loading, flush
<1> QED BY <1>1, <1>2, <1>3, <1>4, <1>5

LEMMA ReplaceSources ==
  ASSUME Typed, NEW S, Replace(S)
  PROVE  \A t \in Tokens : Known(t, kept'[t])
BY ReplaceFacts DEF Known

LEMMA WorldSources ==
  ASSUME Typed,
         \/ Load \/ Loaded \/ StartFlush \/ QuotaWritten \/ Restart
         \/ \E t \in Tokens : SendQuota(t) \/ WindowPasses(t)
  PROVE  Sources
<1>a. NoToken \notin Tokens BY PoolAssumption
<1>b. /\ entry \in [Tokens -> Quota] /\ saved \in [Tokens -> Quota] /\ kept \in [Tokens -> Quota]
      /\ call \in [Calls -> Call] /\ admin \in [Admins -> Request]
  BY DEF Typed, TypeOK, Call, Request
<1>c. ASSUME UNCHANGED <<call, admin>>
      PROVE  /\ \A c \in Calls : Known(call'[c].token, call'[c].quota)
             /\ \A a \in Admins : Known(admin'[a].token, admin'[a].quota)
  BY <1>c DEF Known
<1>1. ASSUME Load PROVE Sources
  <2>1. listing'.saved = saved BY <1>1 DEF Load, Listing
  <2>2. UNCHANGED <<rows, memory, flush, call, admin>> BY <1>1 DEF Load
  <2> QED BY <1>c, <2>1, <2>2 DEF Sources, Known, rows, memory, flush
<1>2. ASSUME Loaded PROVE Sources
  <2>1. \A t \in Tokens : Known(t, kept'[t]) BY <1>2, ReplaceSources DEF Loaded
  <2>2. \A t \in Tokens : entry'[t] \in {entry[t], listing.saved[t]} BY <1>2 DEF Loaded
  <2>3. \A t \in Tokens : listing'.saved[t] = Fresh BY <1>2, IdleTypes DEF Loaded
  <2>4. UNCHANGED <<rows, call, admin, sending, written>> BY <1>2 DEF Loaded
  <2> QED BY <1>c, <2>1, <2>2, <2>3, <2>4 DEF Sources, Known, rows
<1>3. ASSUME StartFlush PROVE Sources
  <2>1. UNCHANGED <<rows, memory, loading, call, admin, sending, written, kept>> BY <1>3 DEF StartFlush
  <2> QED BY <1>c, <2>1 DEF Sources, Known, rows, memory, loading
<1>4. ASSUME QuotaWritten PROVE Sources
  <2>1. sending' \notin Tokens BY <1>4, <1>a DEF QuotaWritten
  <2>2. \A t \in Tokens : saved'[t] = saved[t] \/ (t = sending /\ saved'[t] = written)
    BY <1>4, <1>b DEF QuotaWritten
  <2>3. UNCHANGED <<entry, loading, call, admin, kept>> BY <1>4 DEF QuotaWritten
  <2> QED BY <1>c, <2>1, <2>2, <2>3 DEF Sources, Known, loading
<1>5. ASSUME Restart PROVE Sources
  <2>1. sending' \notin Tokens BY <1>5, <1>a DEF Restart
  <2>2. \A c \in Calls : call'[c].token \notin Tokens BY <1>5, <1>a, IdleTypes DEF Restart
  <2>3. \A a \in Admins : admin'[a] = admin[a] \/ admin'[a].token \notin Tokens
    <3>1. \A a \in Admins : admin'[a] = admin[a] \/ admin'[a] = [NoRequest EXCEPT !.pc = "done"]
      BY <1>5 DEF Restart
    <3>2. [NoRequest EXCEPT !.pc = "done"].token = NoToken BY DEF NoRequest
    <3> QED BY <1>a, <3>1, <3>2
  <2>4. \A t \in Tokens : entry'[t] = Fresh /\ kept'[t] = Fresh /\ listing'.saved[t] = Fresh
    BY <1>5, IdleTypes DEF Restart
  <2>5. UNCHANGED saved BY <1>5 DEF Restart, rows
  <2> QED BY <2>1, <2>2, <2>3, <2>4, <2>5 DEF Sources, Known
<1>6. ASSUME NEW t \in Tokens, SendQuota(t) PROVE Sources
  <2>1. sending' = t /\ written' \in {kept[t], entry[t]} BY <1>6 DEF SendQuota
  <2>2. \A u \in Tokens : kept'[u] \in {kept[u], Fresh} BY <1>6, <1>b DEF SendQuota
  <2>3. UNCHANGED <<rows, memory, loading, call, admin>> BY <1>6 DEF SendQuota
  <2> QED BY <1>c, <2>1, <2>2, <2>3 DEF Sources, Known, rows, memory, loading
<1>7. ASSUME NEW t \in Tokens, WindowPasses(t) PROVE Sources
  <2>1. UNCHANGED <<rows, memory, loading, call, admin, flush>> BY <1>7 DEF WindowPasses
  <2> QED BY <1>c, <2>1 DEF Sources, Known, rows, memory, loading, flush
<1> QED BY <1>1, <1>2, <1>3, <1>4, <1>5, <1>6, <1>7

LEMMA AdminSources ==
  ASSUME Typed, NEW a \in Admins,
         (\E t \in Tokens : Begins(a, t)) \/ Refetch(a) \/ AddToPool(a) \/ RemoveFromPool(a)
  PROVE  Sources
<1>a. /\ entry \in [Tokens -> Quota] /\ admin \in [Admins -> Request]
      /\ NoToken \notin Tokens
  BY PoolAssumption DEF Typed, TypeOK, Request
<1>b. ASSUME Responds(a)
      PROVE  \A b \in Admins : admin'[b].token \in Tokens => Known(admin'[b].token, admin'[b].quota)
  <2>1. admin' = [admin EXCEPT ![a] = [NoRequest EXCEPT !.pc = "done"]] BY <1>b DEF Responds
  <2>2. [NoRequest EXCEPT !.pc = "done"].token = NoToken BY DEF NoRequest
  <2>3. \A b \in Admins : admin'[b] = admin[b] \/ admin'[b].token \notin Tokens BY <1>a, <2>1, <2>2
  <2> QED BY <2>3 DEF Known
<1>c. ASSUME UNCHANGED call PROVE \A c \in Calls : Known(call'[c].token, call'[c].quota)
  BY <1>c DEF Known
<1>d. ASSUME NEW t \in Tokens, NEW pc, NEW st, NEW q, Requests(a, t, pc, st, q), Known(t, q)
      PROVE  \A b \in Admins : admin'[b].token \in Tokens => Known(admin'[b].token, admin'[b].quota)
  <2>1. \A b \in Admins : admin'[b] = admin[b] \/ (admin'[b].token = t /\ admin'[b].quota = q)
    BY <1>a, <1>d DEF Requests
  <2> QED BY <1>d, <2>1 DEF Known
<1>1. ASSUME NEW t \in Tokens, Begins(a, t) PROVE Sources
  <2>1. PICK pc \in {"refetch", "add", "drop"}, st \in {"none", "active"} :
          Requests(a, t, pc, st, Fresh) /\ UNCHANGED BesidesRow
    BY <1>1, BeginFacts
  <2>2. \A b \in Admins : admin'[b].token \in Tokens => Known(admin'[b].token, admin'[b].quota)
    BY <1>d, <2>1 DEF Known
  <2>3. UNCHANGED <<saved, memory, loading, call, flush>> BY <2>1 DEF BesidesRow
  <2> QED BY <1>c, <2>2, <2>3 DEF Sources, Known, memory, loading, flush
<1>2. ASSUME Refetch(a) PROVE Sources
  <2>1. \A b \in Admins : admin'[b].token \in Tokens => Known(admin'[b].token, admin'[b].quota)
    <3>1. admin[a].token \in Tokens BY <1>2 DEF Refetch, Typed
    <3>2. CASE Exists(admin[a].token)
      <4>1. Requests(a, admin[a].token, "add", row[admin[a].token], saved[admin[a].token])
        BY <1>2, <3>2 DEF Refetch
      <4>2. Known(admin[a].token, saved[admin[a].token]) BY DEF Known
      <4> QED BY <1>d, <3>1, <4>1, <4>2
    <3>3. CASE ~Exists(admin[a].token) BY <1>2, <1>b, <3>3 DEF Refetch
    <3> QED BY <3>2, <3>3
  <2>2. UNCHANGED <<saved, memory, loading, call, flush>> BY <1>2 DEF Refetch, BesidesRow
  <2> QED BY <1>c, <2>1, <2>2 DEF Sources, Known, memory, loading, flush
<1>3. ASSUME AddToPool(a) PROVE Sources
  <2>1. \A b \in Admins : admin'[b].token \in Tokens => Known(admin'[b].token, admin'[b].quota)
    BY <1>3, <1>b DEF AddToPool
  <2>2. \A t \in Tokens : Known(t, entry'[t]) /\ Known(t, kept'[t])
    <3>1. CASE admin[a].status = "active"
      <4>1. entry' = [entry EXCEPT ![admin[a].token] = admin[a].quota] /\ Replace({admin[a].token})
        BY <1>3, <3>1 DEF AddToPool
      <4>2. \A t \in Tokens : entry'[t] = entry[t] \/ (admin[a].token = t /\ entry'[t] = admin[a].quota)
        BY <1>a, <4>1
      <4>3. \A t \in Tokens : Known(t, entry'[t]) BY <4>2 DEF Known
      <4> QED BY <4>1, <4>3, ReplaceSources
    <3>2. CASE admin[a].status # "active"
      BY <1>3, <3>2 DEF AddToPool, Known
    <3> QED BY <3>1, <3>2
  <2>3. UNCHANGED <<rows, loading, call, sending, written>> BY <1>3 DEF AddToPool
  <2> QED BY <1>c, <2>1, <2>2, <2>3 DEF Sources, Known, rows, loading
<1>4. ASSUME RemoveFromPool(a) PROVE Sources
  <2>1. \A b \in Admins : admin'[b].token \in Tokens => Known(admin'[b].token, admin'[b].quota)
    BY <1>4, <1>b DEF RemoveFromPool
  <2>2. UNCHANGED <<rows, entry, loading, call, flush>> BY <1>4 DEF RemoveFromPool
  <2> QED BY <1>c, <2>1, <2>2 DEF Sources, Known, rows, loading, flush
<1> QED BY <1>1, <1>2, <1>3, <1>4

LEMMA InitBooks == Init => Books
<1> SUFFICES ASSUME Init PROVE Books OBVIOUS
<1>1. Typed BY InitTyped
<1>2. \A t \in Tokens : /\ entry[t] = Fresh /\ saved[t] = Fresh /\ kept[t] = Fresh
                        /\ listing.saved[t] = Fresh
  BY IdleTypes DEF Init
<1>3. \A c \in Calls : call[c].token \notin Tokens BY IdleTypes, PoolAssumption DEF Init
<1>4. \A a \in Admins : admin[a].token \notin Tokens BY IdleTypes, PoolAssumption DEF Init
<1>5. sending \notin Tokens BY PoolAssumption DEF Init
<1> QED BY <1>1, <1>2, <1>3, <1>4, <1>5, HonestFresh DEF Books

LEMMA NextBooks == Typed /\ Books /\ [Next]_vars => Books'
<1>1. ASSUME Typed, Books, UNCHANGED vars PROVE Books'
  BY <1>1 DEF Books, Honest, OverLimit, vars, rows, memory, loading, flush, github
<1>2. ASSUME Typed, Books, Next PROVE Books'
  <2>1. Sources BY <1>2, FetchSources, WorldSources, AdminSources DEF Next, Begins
  <2>2. BooksKept BY <1>2, BooksStep
  <2>3. Typed' BY <1>2, NextTyped
  <2>4. ASSUME NEW t \in Tokens
        PROVE  /\ StillHonest(t, entry'[t]) /\ StillHonest(t, saved'[t])
               /\ StillHonest(t, kept'[t]) /\ StillHonest(t, listing'.saved[t])
    <3>1. /\ entry'[t] \in Quota /\ saved'[t] \in Quota /\ kept'[t] \in Quota
          /\ listing'.saved[t] \in Quota
      BY <2>3 DEF Typed, TypeOK
    <3>2. /\ Known(t, entry'[t]) /\ Known(t, saved'[t]) /\ Known(t, kept'[t])
          /\ Known(t, listing'.saved[t])
      BY <2>1 DEF Sources
    <3> QED BY <1>2, <2>2, <3>1, <3>2, KnownHonest
  <2>5. sending' \in Tokens => StillHonest(sending', written')
    BY <1>2, <2>1, <2>2, <2>3, KnownHonest DEF Sources, Typed, TypeOK
  <2>6. ASSUME NEW c \in Calls, call'[c].token \in Tokens
        PROVE  StillHonest(call'[c].token, call'[c].quota)
    <3>1. call'[c].quota \in Quota BY <2>3 DEF Typed, TypeOK
    <3> QED BY <1>2, <2>1, <2>2, <2>6, <3>1, KnownHonest DEF Sources
  <2>7. ASSUME NEW a \in Admins, admin'[a].token \in Tokens
        PROVE  StillHonest(admin'[a].token, admin'[a].quota)
    <3>1. admin'[a].quota \in Quota BY <2>3 DEF Typed, TypeOK
    <3> QED BY <1>2, <2>1, <2>2, <2>7, <3>1, KnownHonest DEF Sources
  <2> QED BY <2>4, <2>5, <2>6, <2>7 DEF Books, StillHonest, Honest, OverLimit
<1> QED BY <1>1, <1>2

LEMMA BooksInvariance == Spec => []Books
BY InitBooks, NextBooks, TypedInvariance, PTL DEF Spec

\* A token held back as exhausted is spent at GitHub, whichever of the interleaved
\* reports, loads, requests and flushes its quota comes from.
THEOREM ExhaustedIsSpent == Spec => []SpentIsSpent
<1>1. Typed /\ Books => SpentIsSpent
  BY DEF Typed, TypeOK, Books, Honest, OverLimit, SpentIsSpent, IsExhausted
<1> QED BY <1>1, TypedInvariance, BooksInvariance, PTL

-----------------------------------------------------------------------------
(* The pool and the rows.                                                  *)

LEMMA WhoChanges ==
  \A t : t \in Changing <=> (\E a \in Admins : Routes(a, t)) \/ (\E c \in Calls : Disables(c, t))
BY DEF Changing, Routes, Disables

\* What the steps can do to a token's row, place and changes, seen from one token.
\* Nothing, or nothing that counts.
Unmoved(t) ==
  /\ row'[t] = row[t] /\ (t \in pool' <=> t \in pool)
  /\ \A a \in Admins : Routes(a, t)' => Routes(a, t) /\ admin'[a] = admin[a]
  /\ \A c \in Calls : Disables(c, t)' => Disables(c, t)
  /\ t \in Changing' <=> t \in Changing
  /\ t \in crossed => t \in crossed'
  /\ loaded' => loaded
  /\ reading' => reading /\ listing'.row[t] = listing.row[t]
  /\ ~reading' => ~reading

LEMMA UnmovedKeeps ==
  ASSUME NEW t \in Tokens, ApartAt(t), SettledFollows(t), Unmoved(t)
  PROVE  ApartAt(t)' /\ SettledFollows(t)'
<1>1. ASSUME t \notin crossed'
      PROVE  /\ OneChange(t)' /\ HalfDone(t)'
             /\ reading' => t \notin Changing' /\ listing'.row[t] = row'[t]
  <2>1. OneChange(t) /\ HalfDone(t) /\ (reading => t \notin Changing /\ listing.row[t] = row[t])
    BY <1>1 DEF ApartAt, Unmoved
  <2>2. OneChange(t)' BY <2>1 DEF OneChange, Unmoved
  <2>3. HalfDone(t)' BY <2>1 DEF HalfDone, Unmoved
  <2> QED BY <2>1, <2>2, <2>3 DEF Unmoved
<1>2. SettledFollows(t)' BY DEF SettledFollows, Settled, Unmoved
<1> QED BY <1>1, <1>2 DEF ApartAt

\* A change of t begins, alone on it and with no reading under way.
LEMMA ChangeBegins ==
  ASSUME Typed, NEW t \in Tokens, Touches(t), t \notin crossed'
  PROVE  t \notin Changing /\ ~reading /\ t \notin crossed
BY DEF Touches

LEMMA WhoChangesNext ==
  \A t : t \in Changing' <=> (\E a \in Admins : Routes(a, t)') \/ (\E c \in Calls : Disables(c, t)')
BY DEF Changing, Routes, Disables

\* A step that leaves t, and whoever changes it, alone.
LEMMA QuietStep ==
  ASSUME NEW t \in Tokens, ApartAt(t), SettledFollows(t),
         row'[t] = row[t], t \in pool' <=> t \in pool, UNCHANGED loading,
         t \in crossed => t \in crossed',
         \A a \in Admins : /\ Routes(a, t)' <=> Routes(a, t)
                           /\ Routes(a, t) => admin'[a] = admin[a],
         \A c \in Calls : Disables(c, t)' <=> Disables(c, t)
  PROVE  ApartAt(t)' /\ SettledFollows(t)'
<1>1. t \in Changing' <=> t \in Changing BY WhoChanges, WhoChangesNext
<1>2. Unmoved(t) BY <1>1 DEF Unmoved, loading
<1> QED BY <1>2, UnmovedKeeps

\* Nobody changes t after the step, no rows are being read, and t is where its row
\* says, or overlapped, or the pool was not loaded.
LEMMA RestStep ==
  ASSUME NEW t \in Tokens,
         \A a \in Admins : ~Routes(a, t)', \A c \in Calls : ~Disables(c, t)', ~reading',
         loaded' => (t \in pool' <=> row'[t] = "active")
  PROVE  ApartAt(t)' /\ SettledFollows(t)'
<1>1. OneChange(t)' BY DEF OneChange
<1>2. HalfDone(t)' BY DEF HalfDone
<1> QED BY <1>1, <1>2 DEF ApartAt, SettledFollows, Settled

\* What overlapped is not spoken of.
LEMMA CrossedStep ==
  ASSUME NEW t \in Tokens, t \in crossed'
  PROVE  ApartAt(t)' /\ SettledFollows(t)'
BY DEF ApartAt, SettledFollows, Settled

LEMMA FetchApart ==
  ASSUME Typed, NEW t \in Tokens, ApartAt(t), SettledFollows(t), NEW c \in Calls,
         \/ \E kind \in Kinds : StartFetch(c, kind)
         \/ Pick(c) \/ Handle(c) \/ AutoDisable(c)
         \/ \E answer \in AnswerKinds : Answers(c, answer)
  PROVE  ApartAt(t)' /\ SettledFollows(t)'
<1> DEFINE u == call[c].token
<1>a. call \in [Calls -> Call] BY DEF Typed, TypeOK, Call
<1>b. ASSUME UNCHANGED <<row, pool, loading, admin>>, t \in crossed => t \in crossed',
             \A d \in Calls \ {c} : call'[d] = call[d],
             call[c].pc # "disabling", call'[c].pc # "disabling"
      PROVE  ApartAt(t)' /\ SettledFollows(t)'
  <2>1. \A d \in Calls : Disables(d, t)' <=> Disables(d, t) BY <1>b DEF Disables
  <2>2. \A a \in Admins : Routes(a, t)' <=> Routes(a, t) BY <1>b DEF Routes
  <2> QED BY <1>b, <2>1, <2>2, QuietStep
<1>1. ASSUME \/ \E kind \in Kinds : StartFetch(c, kind)
             \/ Pick(c) \/ \E answer \in AnswerKinds : Answers(c, answer)
      PROVE  ApartAt(t)' /\ SettledFollows(t)'
  <2>1. UNCHANGED <<row, pool, loading, admin, crossed>>
    BY <1>1 DEF StartFetch, Pick, Answers, rows, memory, history
  <2>2. /\ \A d \in Calls \ {c} : call'[d] = call[d]
        /\ call[c].pc # "disabling" /\ call'[c].pc # "disabling"
    <3>1. ASSUME NEW kind \in Kinds, StartFetch(c, kind)
          PROVE  call[c].pc = "idle" /\ call'[c].pc = "pick" /\ \A d \in Calls \ {c} : call'[d] = call[d]
      BY <1>a, <3>1 DEF StartFetch, Call
    <3>2. ASSUME NEW answer \in AnswerKinds, Answers(c, answer)
          PROVE  call[c].pc = "sent" /\ call'[c].pc = "answered" /\ \A d \in Calls \ {c} : call'[d] = call[d]
      <4> DEFINE q == IF answer \in {"ok", "limited"}
                      THEN [left |-> left'[call[c].token], win |-> window[call[c].token]] ELSE Fresh
                 r == [call[c] EXCEPT !.pc = "answered", !.answer = answer, !.quota = q]
      <4>1. call' = [call EXCEPT ![c] = r] /\ call[c].pc = "sent" BY <3>2 DEF Answers
      <4> HIDE DEF q
      <4>2. r.pc = "answered" BY <1>a DEF Call
      <4> HIDE DEF r
      <4> QED BY <1>a, <4>1, <4>2
    <3>3. ASSUME Pick(c)
          PROVE  /\ call[c].pc = "pick" /\ call'[c].pc \in {"idle", "sent"}
                 /\ \A d \in Calls \ {c} : call'[d] = call[d]
      BY <1>a, <3>3, IdleTypes DEF Pick, Call
    <3> QED BY <1>1, <3>1, <3>2, <3>3
  <2> QED BY <1>b, <2>1, <2>2
<1>2. ASSUME Handle(c) PROVE ApartAt(t)' /\ SettledFollows(t)'
  <2> DEFINE q == call[c].quota
  <2>1. /\ call[c].pc = "answered" /\ u \in Tokens /\ q \in Quota
        /\ UNCHANGED <<row, loading, admin>>
    BY <1>2, <1>a DEF Handle, Call, Typed, rows
  <2>2. CASE ~Reported(c)
    <3>1. call' = After(c) /\ UNCHANGED <<pool, crossed>> BY <1>2, <2>2 DEF Handle, memory
    <3> QED BY <1>b, <2>1, <3>1, AfterFacts
  <2>3. CASE Reported(c) /\ ~(u \in pool /\ Trips(u, q))
    <3>1. call' = After(c) /\ RecordUsage(c, u, q) BY <1>2, <2>3 DEF Handle
    <3> HIDE DEF u, q
    <3>2. UNCHANGED <<pool, crossed>> BY <2>1, <2>3, <3>1, RecordFacts
    <3> QED BY <1>b, <2>1, <3>1, <3>2, AfterFacts
  <2>4. CASE Reported(c) /\ u \in pool /\ Trips(u, q)
    <3>1. call' = [call EXCEPT ![c].pc = "disabling"] /\ RecordUsage(c, u, q) BY <1>2, <2>4 DEF Handle
    <3>2. /\ \A d \in Calls \ {c} : call'[d] = call[d]
          /\ call'[c].pc = "disabling" /\ call'[c].token = u
      BY <1>a, <3>1 DEF Call
    <3> HIDE DEF u, q
    <3>3. pool' = pool \ {u} /\ Touches(u) BY <2>1, <2>4, <3>1, RecordFacts
    <3>4. \A a \in Admins : Routes(a, t)' <=> Routes(a, t) BY <2>1 DEF Routes
    <3>5. CASE t # u
      <4>1. \A d \in Calls : Disables(d, t)' <=> Disables(d, t)
        BY <2>1, <3>2, <3>5 DEF Disables, u
      <4>2. t \in crossed => t \in crossed' BY <3>3 DEF Touches
      <4> QED BY <2>1, <3>3, <3>4, <3>5, <4>1, <4>2, QuietStep
    <3>6. CASE t = u /\ t \notin crossed'
      <4>1. t \notin Changing /\ ~reading /\ t \notin crossed BY <3>3, <3>6, ChangeBegins
      <4>2. \A a \in Admins : ~Routes(a, t)' BY <3>4, <4>1, WhoChanges
      <4>3. \A d \in Calls : Disables(d, t)' => d = c BY <3>2, <4>1, WhoChanges DEF Disables
      <4>4. OneChange(t)' BY <4>2, <4>3 DEF OneChange
      <4>5. HalfDone(t)' BY <3>3, <3>6, <4>2 DEF HalfDone
      <4>6. ~reading' BY <2>1, <4>1 DEF loading
      <4>7. Disables(c, t)' BY <3>2, <3>6 DEF Disables
      <4>8. t \in Changing' BY <4>7, WhoChangesNext
      <4> QED BY <4>4, <4>5, <4>6, <4>8 DEF ApartAt, SettledFollows, Settled
    <3> QED BY <3>5, <3>6, CrossedStep
  <2> QED BY <2>2, <2>3, <2>4
<1>3. ASSUME AutoDisable(c) PROVE ApartAt(t)' /\ SettledFollows(t)'
  <2>1. /\ call[c].pc = "disabling" /\ u \in Tokens /\ call' = After(c)
        /\ UNCHANGED <<memory, loading, admin>>
    BY <1>3 DEF AutoDisable, Typed
  <2>2. /\ \A d \in Calls \ {c} : call'[d] = call[d]
        /\ call'[c].pc # "disabling"
    BY <2>1, AfterFacts
  <2>3. \A a \in Admins : Routes(a, t)' <=> Routes(a, t) BY <2>1 DEF Routes
  <2>4. CASE t # u
    <3>1. \A d \in Calls : Disables(d, t)' <=> Disables(d, t) BY <2>1, <2>2, <2>4 DEF Disables
    <3>2. row'[t] = row[t] /\ (t \in crossed => t \in crossed') BY <1>3, <2>4 DEF AutoDisable, Typed, TypeOK
    <3> QED BY <2>1, <2>3, <3>1, <3>2, QuietStep DEF memory
  <2>5. CASE t = u /\ t \notin crossed'
    <3>1. /\ t \notin crossed
          /\ row' = IF Exists(t) THEN [row EXCEPT ![t] = "disabled"] ELSE row
      BY <1>3, <2>5 DEF AutoDisable
    <3>2. Disables(c, t) /\ t \in Changing BY <2>1, <2>5, WhoChanges DEF Disables
    <3>3. OneChange(t) /\ HalfDone(t) /\ ~reading BY <3>1, <3>2 DEF ApartAt
    <3>4. \A a \in Admins : ~Routes(a, t)' BY <2>3, <3>2, <3>3 DEF OneChange
    <3>5. \A d \in Calls : ~Disables(d, t)' BY <2>2, <3>2, <3>3 DEF OneChange, Disables
    <3>6. row'[t] # "active" BY <3>1 DEF Exists, Typed, TypeOK
    <3>7. t \notin pool' BY <2>1, <3>2, <3>3 DEF HalfDone, memory
    <3>8. ~reading' BY <2>1, <3>3 DEF loading
    <3> QED BY <3>4, <3>5, <3>6, <3>7, <3>8, RestStep
  <2> QED BY <2>4, <2>5, CrossedStep
<1> QED BY <1>1, <1>2, <1>3

LEMMA WorldApart ==
  ASSUME Typed, NEW t \in Tokens, ApartAt(t), SettledFollows(t),
         \/ Load \/ Loaded \/ StartFlush \/ QuotaWritten \/ Restart
         \/ \E u \in Tokens : SendQuota(u) \/ WindowPasses(u)
  PROVE  ApartAt(t)' /\ SettledFollows(t)'
<1>a. ASSUME UNCHANGED <<call, admin>>
      PROVE  /\ \A a \in Admins : Routes(a, t)' <=> Routes(a, t)
             /\ \A c \in Calls : Disables(c, t)' <=> Disables(c, t)
             /\ t \in Changing' <=> t \in Changing
  BY <1>a DEF Routes, Disables, Changing
<1>1. ASSUME Load PROVE ApartAt(t)' /\ SettledFollows(t)'
  <2>1. /\ UNCHANGED <<row, call, admin>> /\ reading' = TRUE /\ listing'.row = row
        /\ crossed' = crossed \cup Changing
    BY <1>1 DEF Load, rows, Listing
  <2>2. CASE t \notin crossed'
    <3>1. t \notin Changing /\ t \notin Changing' BY <2>1, <2>2, <1>a
    <3>2. /\ \A a \in Admins : ~Routes(a, t)'
          /\ \A c \in Calls : ~Disables(c, t)'
      BY <3>1, WhoChangesNext
    <3>3. OneChange(t)' /\ HalfDone(t)' BY <3>2 DEF OneChange, HalfDone
    <3> QED BY <2>1, <3>1, <3>3 DEF ApartAt, SettledFollows, Settled
  <2> QED BY <2>2, CrossedStep
<1>2. ASSUME Loaded PROVE ApartAt(t)' /\ SettledFollows(t)'
  <2>1. /\ UNCHANGED <<row, call, admin, crossed>> /\ reading /\ reading' = FALSE
        /\ pool' = Loadable
    BY <1>2 DEF Loaded, rows
  <2>2. CASE t \notin crossed
    <3>1. t \notin Changing /\ listing.row[t] = row[t] BY <2>1, <2>2 DEF ApartAt
    <3>2. /\ \A a \in Admins : ~Routes(a, t)'
          /\ \A c \in Calls : ~Disables(c, t)'
      BY <3>1, <2>1, <1>a, WhoChanges
    <3>3. t \in pool' <=> row'[t] = "active" BY <2>1, <3>1 DEF Loadable
    <3> QED BY <2>1, <3>2, <3>3, RestStep
  <2>3. CASE t \in crossed BY <2>1, <2>3, CrossedStep
  <2> QED BY <2>2, <2>3
<1>3. ASSUME StartFlush \/ QuotaWritten \/ \E u \in Tokens : SendQuota(u) \/ WindowPasses(u)
      PROVE  ApartAt(t)' /\ SettledFollows(t)'
  <2>1. UNCHANGED <<row, pool, loading, call, admin, crossed>>
    BY <1>3 DEF StartFlush, QuotaWritten, SendQuota, WindowPasses, rows, memory, history
  <2> QED BY <2>1, <1>a, QuietStep
<1>4. ASSUME Restart PROVE ApartAt(t)' /\ SettledFollows(t)'
  <2>1. \A c \in Calls : ~Disables(c, t)' BY <1>4, IdleTypes DEF Restart, Disables
  <2>2. \A a \in Admins : ~Routes(a, t)'
    <3>1. \A a \in Admins : admin'[a] = IF admin[a].pc = "idle" THEN admin[a]
                                        ELSE [NoRequest EXCEPT !.pc = "done"]
      BY <1>4 DEF Restart
    <3>2. [NoRequest EXCEPT !.pc = "done"].pc = "done" BY DEF NoRequest
    <3>3. \A a \in Admins : admin'[a].pc \in {"idle", "done"} BY <3>1, <3>2
    <3> QED BY <3>3 DEF Routes
  <2>3. ~loaded' /\ ~reading' BY <1>4 DEF Restart
  <2> QED BY <2>1, <2>2, <2>3, RestStep
<1> QED BY <1>1, <1>2, <1>3, <1>4

LEMMA AdminApart ==
  ASSUME Typed, NEW t \in Tokens, ApartAt(t), SettledFollows(t), NEW a \in Admins,
         (\E u \in Tokens : Begins(a, u)) \/ Refetch(a) \/ AddToPool(a) \/ RemoveFromPool(a)
  PROVE  ApartAt(t)' /\ SettledFollows(t)'
<1>a. admin \in [Admins -> Request] BY DEF Typed, TypeOK, Request
<1>b. ASSUME UNCHANGED call PROVE \A c \in Calls : Disables(c, t)' <=> Disables(c, t)
  BY <1>b DEF Disables
<1>c. ASSUME Responds(a)
      PROVE  admin'[a].pc = "done" /\ \A b \in Admins \ {a} : admin'[b] = admin[b]
  <2>1. [NoRequest EXCEPT !.pc = "done"].pc = "done" BY DEF NoRequest
  <2> QED BY <1>a, <1>c, <2>1 DEF Responds
<1>1. ASSUME NEW u \in Tokens, Begins(a, u) PROVE ApartAt(t)' /\ SettledFollows(t)'
  <2>1. PICK s \in {"active", "disabled", "deleted"}, pc \in {"refetch", "add", "drop"},
             st \in {"none", "active"} :
           /\ row' = [row EXCEPT ![u] = s]
           /\ Requests(a, u, pc, st, Fresh)
           /\ pc = "add" => st = "active"
           /\ pc \in {"refetch", "add"} <=> s = "active"
           /\ admin[a].pc = "idle" /\ Touches(u) /\ UNCHANGED BesidesRow
    BY <1>1, BeginFacts
  <2>2. UNCHANGED <<pool, loading, call>> BY <2>1 DEF BesidesRow, memory
  <2>3. /\ admin'[a].pc = pc /\ admin'[a].token = u /\ admin'[a].status = st
        /\ \A b \in Admins \ {a} : admin'[b] = admin[b]
    BY <1>a, <2>1 DEF Requests
  <2>4. CASE t # u
    <3>1. \A b \in Admins : /\ Routes(b, t)' <=> Routes(b, t)
                            /\ Routes(b, t) => admin'[b] = admin[b]
      BY <2>1, <2>3, <2>4 DEF Routes
    <3>2. row'[t] = row[t] BY <2>1, <2>4 DEF Typed, TypeOK
    <3>3. t \in crossed => t \in crossed' BY <2>1 DEF Touches
    <3> QED BY <1>b, <2>2, <3>1, <3>2, <3>3, QuietStep
  <2>5. CASE t = u /\ t \notin crossed'
    <3>1. t \notin Changing /\ ~reading /\ t \notin crossed BY <2>1, <2>5, ChangeBegins
    <3>2. \A c \in Calls : ~Disables(c, t)' BY <1>b, <2>2, <3>1, WhoChanges
    <3>3. \A b \in Admins : Routes(b, t)' => b = a BY <2>3, <3>1, WhoChanges DEF Routes
    <3>4. OneChange(t)' BY <3>2, <3>3 DEF OneChange
    <3>5. row'[t] = s BY <2>1, <2>5 DEF Typed, TypeOK
    <3>6. HalfDone(t)' BY <2>1, <2>3, <3>2, <3>3, <3>5 DEF HalfDone
    <3>7. ~reading' BY <2>2, <3>1 DEF loading
    <3>8. Routes(a, t)' BY <2>3, <2>5 DEF Routes
    <3>9. t \in Changing' BY <3>8, WhoChangesNext
    <3> QED BY <3>4, <3>6, <3>7, <3>9 DEF ApartAt, SettledFollows, Settled
  <2> QED BY <2>4, <2>5, CrossedStep
<1> DEFINE u == admin[a].token
\* A step of a request on another token.
<1>e. ASSUME t # u, admin'[a].pc = "done" \/ admin'[a].token = u,
             \A b \in Admins \ {a} : admin'[b] = admin[b],
             UNCHANGED <<row, loading, call, crossed>>, t \in pool' <=> t \in pool
      PROVE  ApartAt(t)' /\ SettledFollows(t)'
  <2>1. \A b \in Admins : /\ Routes(b, t)' <=> Routes(b, t)
                          /\ Routes(b, t) => admin'[b] = admin[b]
    BY <1>e DEF Routes
  <2> QED BY <1>b, <1>e, <2>1, QuietStep
\* The end of the only request on t.
<1>f. ASSUME t = u, t \notin crossed, admin[a].pc \in {"add", "drop"}, Responds(a),
             UNCHANGED <<row, loading, call>>, t \in pool' <=> row[t] = "active"
      PROVE  ApartAt(t)' /\ SettledFollows(t)'
  <2>1. Routes(a, t) /\ t \in Changing BY <1>f, WhoChanges DEF Routes
  <2>2. OneChange(t) /\ ~reading BY <1>f, <2>1 DEF ApartAt
  <2>3. \A b \in Admins : ~Routes(b, t)' BY <1>c, <1>f, <2>1, <2>2 DEF OneChange, Routes
  <2>4. \A c \in Calls : ~Disables(c, t)' BY <1>b, <1>f, <2>1, <2>2 DEF OneChange
  <2>5. ~reading' BY <1>f, <2>2 DEF loading
  <2> QED BY <1>f, <2>3, <2>4, <2>5, RestStep
<1>2. ASSUME Refetch(a) PROVE ApartAt(t)' /\ SettledFollows(t)'
  <2>1. /\ UNCHANGED <<row, pool, loading, call, crossed>> /\ admin[a].pc = "refetch"
    BY <1>2 DEF Refetch, BesidesRow, memory
  <2>2. CASE t # u
    <3>1. /\ admin'[a].pc = "done" \/ admin'[a].token = u
          /\ \A b \in Admins \ {a} : admin'[b] = admin[b]
      BY <1>2, <1>a, <1>c DEF Refetch, Requests
    <3> QED BY <1>e, <2>1, <2>2, <3>1
  <2>3. CASE t = u /\ t \notin crossed
    <3>1. Routes(a, t) BY <2>1, <2>3 DEF Routes
    <3>2. OneChange(t) /\ HalfDone(t) /\ ~reading BY <2>3, <3>1, WhoChanges DEF ApartAt
    <3>3. row[t] = "active" BY <2>1, <3>1, <3>2 DEF HalfDone
    <3>4. Requests(a, t, "add", "active", saved[t]) BY <1>2, <2>3, <3>3 DEF Refetch, Exists
    <3>5. /\ admin'[a].pc = "add" /\ admin'[a].token = t /\ admin'[a].status = "active"
          /\ \A b \in Admins \ {a} : admin'[b] = admin[b]
      BY <1>a, <3>4 DEF Requests
    <3>6. \A b \in Admins : Routes(b, t)' <=> Routes(b, t) BY <3>1, <3>5 DEF Routes
    <3>7. \A b \in Admins : Routes(b, t)' => b = a BY <3>1, <3>2, <3>6 DEF OneChange
    <3>8. \A c \in Calls : Disables(c, t)' <=> Disables(c, t) BY <1>b, <2>1
    <3>9. OneChange(t)' BY <3>2, <3>6, <3>8 DEF OneChange
    <3>10. HalfDone(t)' BY <2>1, <3>1, <3>2, <3>3, <3>5, <3>7, <3>8 DEF HalfDone, OneChange
    <3>11. ~reading' BY <2>1, <3>2 DEF loading
    <3>12. t \in Changing' BY <3>1, <3>6, WhoChangesNext
    <3> QED BY <3>9, <3>10, <3>11, <3>12 DEF ApartAt, SettledFollows, Settled
  <2>4. CASE t \in crossed BY <2>1, <2>4, CrossedStep
  <2> QED BY <2>2, <2>3, <2>4
<1>3. ASSUME AddToPool(a) PROVE ApartAt(t)' /\ SettledFollows(t)'
  <2>1. /\ UNCHANGED <<row, loading, call, crossed>> /\ admin[a].pc = "add" /\ Responds(a)
        /\ pool' = IF admin[a].status = "active" THEN pool \cup {u} ELSE pool \ {u}
    BY <1>3 DEF AddToPool, rows
  <2>2. CASE t # u BY <1>c, <1>e, <2>1, <2>2
  <2>3. CASE t = u /\ t \notin crossed
    <3>1. Routes(a, t) BY <2>1, <2>3 DEF Routes
    <3>2. HalfDone(t) BY <2>3 DEF ApartAt
    <3>3. row[t] = "active" /\ admin[a].status = "active" BY <2>1, <3>1, <3>2 DEF HalfDone
    <3> QED BY <1>f, <2>1, <2>3, <3>3
  <2>4. CASE t \in crossed BY <2>1, <2>4, CrossedStep
  <2> QED BY <2>2, <2>3, <2>4
<1>4. ASSUME RemoveFromPool(a) PROVE ApartAt(t)' /\ SettledFollows(t)'
  <2>1. /\ UNCHANGED <<row, loading, call, crossed>> /\ admin[a].pc = "drop" /\ Responds(a)
        /\ pool' = pool \ {u}
    BY <1>4 DEF RemoveFromPool, rows, history
  <2>2. CASE t # u BY <1>c, <1>e, <2>1, <2>2
  <2>3. CASE t = u /\ t \notin crossed
    <3>1. Routes(a, t) BY <2>1, <2>3 DEF Routes
    <3>2. HalfDone(t) BY <2>3 DEF ApartAt
    <3>3. row[t] # "active" BY <2>1, <3>1, <3>2 DEF HalfDone
    <3> QED BY <1>f, <2>1, <2>3, <3>3
  <2>4. CASE t \in crossed BY <2>1, <2>4, CrossedStep
  <2> QED BY <2>2, <2>3, <2>4
<1> QED BY <1>1, <1>2, <1>3, <1>4

LEMMA InitApart == Init => ApartInv
<1> SUFFICES ASSUME Init, NEW t \in Tokens PROVE ApartAt(t) /\ SettledFollows(t)
  BY DEF ApartInv
<1>1. \A a \in Admins : ~Routes(a, t) BY IdleTypes DEF Init, Routes
<1>2. \A c \in Calls : ~Disables(c, t) BY IdleTypes DEF Init, Disables
<1>3. OneChange(t) /\ HalfDone(t) BY <1>1, <1>2 DEF OneChange, HalfDone
<1> QED BY <1>3 DEF Init, ApartAt, SettledFollows, Settled

LEMMA NextApart == Typed /\ ApartInv /\ [Next]_vars => ApartInv'
<1> SUFFICES ASSUME Typed, ApartInv, [Next]_vars, NEW t \in Tokens
             PROVE  ApartAt(t)' /\ SettledFollows(t)'
  BY DEF ApartInv
<1>1. ApartAt(t) /\ SettledFollows(t) BY DEF ApartInv
<1>2. CASE UNCHANGED vars
  <2>1. UNCHANGED <<row, pool, loading, call, admin, crossed>> BY <1>2 DEF vars, rows, memory, history
  <2>2. /\ \A a \in Admins : Routes(a, t)' <=> Routes(a, t)
        /\ \A c \in Calls : Disables(c, t)' <=> Disables(c, t)
    BY <2>1 DEF Routes, Disables
  <2> QED BY <1>1, <2>1, <2>2, QuietStep
<1> QED BY <1>1, <1>2, FetchApart, WorldApart, AdminApart DEF Next, Begins

LEMMA ApartInvariance == Spec => []ApartInv
BY InitApart, NextApart, TypedInvariance, PTL DEF Spec

\* Once the pool is loaded it holds the active rows and no other: of all changes
\* that end, in whatever order, only overlapping ones of the same token and a failed
\* automatic disabling leave the two apart.
THEOREM PoolHoldsActiveRows == Spec => []PoolFollowsRows
<1>1. ApartInv => PoolFollowsRows BY DEF ApartInv, SettledFollows, PoolFollowsRows
<1> QED BY <1>1, ApartInvariance, PTL

-----------------------------------------------------------------------------
(* The flush.                                                              *)

LEMMA InitSaved == Init => Saved
BY PoolAssumption DEF Init, Saved, Carried, CleanIsSaved

LEMMA FetchSaved ==
  ASSUME Typed, Saved, NEW c \in Calls, Handle(c)
  PROVE  Saved'
<1> DEFINE t == call[c].token
           q == call[c].quota
<1>1. UNCHANGED <<saved, sending, written, detached>> BY DEF Handle, rows, flush
<1>2. CASE Reported(c)
  <2>1. t \in Tokens /\ q \in Quota /\ RecordUsage(c, t, q)
    BY <1>2 DEF Handle, Typed, TypeOK
  <2> HIDE DEF t, q
  <2>2. /\ entry' = IF t \in pool THEN [entry EXCEPT ![t] = q] ELSE entry
        /\ pool' = IF t \in pool /\ Trips(t, q) THEN pool \ {t} ELSE pool
        /\ dirty' = IF t \notin pool THEN dirty
                    ELSE IF Trips(t, q) THEN dirty \ {t} ELSE dirty \cup {t}
        /\ overtaken' = IF t \in pool /\ sending = t THEN overtaken \cup {t} ELSE overtaken
    BY <2>1, RecordFacts
  <2>3. pool \subseteq Tokens /\ entry \in [Tokens -> Quota] BY DEF Typed, TypeOK
  <2>4. CASE t \notin pool
    BY <1>1, <2>2, <2>4 DEF Saved, Carried, CleanIsSaved
  <2>5. CASE t \in pool
    <3>1. \A u \in Tokens : u # t => entry'[u] = entry[u] BY <2>2, <2>3
    <3>2. pool' \subseteq pool /\ dirty \ {t} \subseteq dirty' /\ overtaken \subseteq overtaken'
      BY <2>2
    <3>3. t \in pool' => t \in dirty' BY <2>2, <2>5
    <3>4. sending = t => t \in overtaken' BY <2>2, <2>5
    <3>5. Carried' BY <1>1, <2>3, <3>1, <3>2, <3>4 DEF Saved, Carried
    <3>6. CleanIsSaved' BY <1>1, <2>3, <3>1, <3>2, <3>3 DEF Saved, CleanIsSaved
    <3> QED BY <3>5, <3>6 DEF Saved
  <2> QED BY <2>4, <2>5
<1>3. CASE ~Reported(c)
  BY <1>1, <1>3 DEF Handle, memory, Saved, Carried, CleanIsSaved
<1> QED BY <1>2, <1>3

LEMMA LoadedSaved ==
  ASSUME Typed, Saved, Loaded
  PROVE  Saved'
<1>1. /\ pool' = Loadable /\ Loadable \subseteq Tokens /\ UNCHANGED <<saved, sending, written>>
      /\ entry' = [t \in Tokens |-> IF t \in Loadable THEN listing.saved[t] ELSE entry[t]]
      /\ overtaken' = {t \in Tokens : listing.saved[t] # saved[t]} \cup (overtaken \ Loadable)
  BY DEF Loaded, Loadable, rows
<1>2. detached' = detached \cup (Tokens \cap (todo \cup {sending})) BY ReplaceFacts DEF Loaded
<1>3. Carried' BY <1>1, <1>2 DEF Carried
<1>4. CleanIsSaved' BY <1>1 DEF CleanIsSaved
<1> QED BY <1>3, <1>4 DEF Saved

LEMMA WrittenSaved ==
  ASSUME Typed, Saved, QuotaWritten
  PROVE  Saved'
<1> DEFINE t == sending
<1>1. UNCHANGED <<pool, entry>> /\ pool \subseteq Tokens /\ sending' \notin Tokens
  BY PoolAssumption DEF QuotaWritten, Typed, TypeOK
<1>2. Carried' BY <1>1 DEF Carried
<1>3. CleanIsSaved'
  <2>1. CASE UNCHANGED <<saved, dirty, overtaken>> BY <1>1, <2>1 DEF Saved, CleanIsSaved
  <2>2. CASE /\ saved' = [saved EXCEPT ![t] = written]
             /\ dirty' = IF t \in detached THEN dirty ELSE dirty \ {t}
             /\ overtaken' = IF t \in detached THEN overtaken \cup {t} ELSE overtaken
    <3>1. saved \in [Tokens -> Quota] BY DEF Typed, TypeOK
    <3>2. /\ \A u \in Tokens : u # t => saved'[u] = saved[u]
          /\ dirty \ {t} \subseteq dirty' /\ overtaken \subseteq overtaken'
      BY <2>2, <3>1
    <3>3. ASSUME t \in pool, t \in detached PROVE t \in overtaken' BY <2>2, <3>3
    <3>4. ASSUME t \in pool, t \notin detached PROVE t \in overtaken' \/ saved'[t] = entry'[t]
      BY <1>1, <2>2, <3>1, <3>2, <3>4 DEF Saved, Carried
    <3> QED BY <1>1, <3>2, <3>3, <3>4 DEF Saved, CleanIsSaved
  <2> QED BY <2>1, <2>2 DEF QuotaWritten
<1> QED BY <1>2, <1>3 DEF Saved

LEMMA AddedSaved ==
  ASSUME Typed, Saved, NEW a \in Admins, AddToPool(a)
  PROVE  Saved'
<1> DEFINE t == admin[a].token
           q == admin[a].quota
<1>1. t \in Tokens /\ UNCHANGED <<saved, sending, written>> /\ dirty' = dirty \ {t}
  BY DEF AddToPool, Typed, rows
<1>2. CASE admin[a].status = "active"
  <2>1. /\ pool' = pool \cup {t} /\ entry' = [entry EXCEPT ![t] = q] /\ Replace({t})
        /\ overtaken' = IF q = saved[t] THEN overtaken \ {t} ELSE overtaken \cup {t}
    BY <1>2 DEF AddToPool
  <2>2. pool \subseteq Tokens /\ entry \in [Tokens -> Quota] BY DEF Typed, TypeOK
  <2> HIDE DEF t, q
  <2>3. detached' = detached \cup ({t} \cap (todo \cup {sending})) BY <2>1, ReplaceFacts
  <2>4. Carried' BY <1>1, <2>1, <2>2, <2>3 DEF Saved, Carried
  <2>5. CleanIsSaved' BY <1>1, <2>1, <2>2 DEF Saved, CleanIsSaved
  <2> QED BY <2>4, <2>5 DEF Saved
<1>3. CASE admin[a].status # "active"
  <2>1. pool' = pool \ {t} /\ UNCHANGED <<entry, detached, overtaken>> BY <1>3 DEF AddToPool
  <2> HIDE DEF t, q
  <2> QED BY <1>1, <2>1 DEF Saved, Carried, CleanIsSaved
<1> QED BY <1>2, <1>3

LEMMA NextSaved == Typed /\ Saved /\ [Next]_vars => Saved'
<1> SUFFICES ASSUME Typed, Saved, [Next]_vars PROVE Saved' OBVIOUS
<1>1. ASSUME UNCHANGED <<saved, pool, entry, dirty, sending, written, detached, overtaken>> PROVE Saved'
  BY <1>1 DEF Saved, Carried, CleanIsSaved
<1>2. CASE UNCHANGED vars BY <1>1, <1>2 DEF vars, rows, memory, flush, history
<1>3. ASSUME NEW c \in Calls, \/ \E kind \in Kinds : StartFetch(c, kind)
                              \/ Pick(c) \/ AutoDisable(c)
                              \/ \E answer \in AnswerKinds : Answers(c, answer)
      PROVE  Saved'
  BY <1>1, <1>3 DEF StartFetch, Pick, AutoDisable, Answers, rows, memory, flush, history
<1>4. ASSUME Load \/ StartFlush \/ \E t \in Tokens : WindowPasses(t) PROVE Saved'
  BY <1>1, <1>4 DEF Load, StartFlush, WindowPasses, rows, memory, flush, history
<1>5. ASSUME NEW t \in Tokens, SendQuota(t) PROVE Saved'
  <2>1. /\ UNCHANGED <<saved, pool, entry, dirty, detached, overtaken>> /\ sending' = t
        /\ written' = IF t \in detached THEN kept[t] ELSE entry[t]
    BY <1>5 DEF SendQuota, rows, memory, history
  <2> QED BY <2>1 DEF Saved, Carried, CleanIsSaved
<1>6. ASSUME Restart PROVE Saved'
  BY <1>6 DEF Restart, Saved, Carried, CleanIsSaved
<1>7. ASSUME NEW a \in Admins, (\E t \in Tokens : Begins(a, t)) \/ Refetch(a) PROVE Saved'
  BY <1>1, <1>7, BeginFacts DEF Refetch, BesidesRow, memory, flush
<1>8. ASSUME NEW a \in Admins, RemoveFromPool(a) PROVE Saved'
  BY <1>8 DEF RemoveFromPool, rows, flush, history, Saved, Carried, CleanIsSaved
<1> QED BY <1>2, <1>3, <1>4, <1>5, <1>6, <1>7, <1>8, FetchSaved, LoadedSaved, WrittenSaved, AddedSaved
        DEF Next, Begins

\* An entry the flush no longer counts as dirty is in the database: of all reports,
\* reloads and requests, only those that overtake a write or a read lose a quota.
THEOREM CleanEntriesAreSaved == Spec => []CleanIsSaved
<1>1. Saved => CleanIsSaved BY DEF Saved
<1> QED BY <1>1, InitSaved, NextSaved, TypedInvariance, PTL DEF Spec

-----------------------------------------------------------------------------
(* Rotation.                                                               *)

LEMMA InitHeldBack == Init => HeldBack
BY DEF Init, HeldBack

LEMMA HandleHeldBack ==
  ASSUME Typed, HeldBack, NEW c \in Calls, Handle(c)
  PROVE  HeldBack'
<1> DEFINE t == call[c].token
           q == call[c].quota
<1>1. UNCHANGED window BY DEF Handle, github
<1>2. CASE Reported(c)
  <2>1. t \in Tokens /\ q \in Quota /\ RecordUsage(c, t, q)
    BY <1>2 DEF Handle, Typed, TypeOK
  <2>2. entry \in [Tokens -> Quota] /\ found \in [Calls -> SUBSET Tokens] BY DEF Typed, TypeOK
  <2> HIDE DEF t, q
  <2>3. /\ entry' = IF t \in pool THEN [entry EXCEPT ![t] = q] ELSE entry
        /\ pool' \subseteq pool
        /\ \A d \in Calls : /\ found'[d] \subseteq found[d] \cup {t}
                            /\ t \in found'[d] => OverLimit(t, q)
    BY <2>1, RecordFacts
  <2>4. ASSUME NEW d \in Calls, NEW u \in found'[d], u \in pool' PROVE IsExhausted(u)'
    <3>1. CASE u = t
      <4>1. entry'[u] = q /\ OverLimit(t, q) BY <2>2, <2>3, <2>4, <3>1, <2>1
      <4> QED BY <1>1, <3>1, <4>1 DEF OverLimit, IsExhausted
    <3>2. CASE u # t
      <4>1. u \in found[d] /\ u \in pool /\ u \in Tokens /\ entry'[u] = entry[u]
        BY <2>2, <2>3, <2>4, <3>2
      <4> QED BY <1>1, <4>1 DEF HeldBack, IsExhausted
    <3> QED BY <3>1, <3>2
  <2> QED BY <2>4 DEF HeldBack
<1>3. CASE ~Reported(c)
  BY <1>1, <1>3 DEF Handle, memory, HeldBack, IsExhausted
<1> QED BY <1>2, <1>3

LEMMA AddedHeldBack ==
  ASSUME Typed, HeldBack, NEW a \in Admins, AddToPool(a)
  PROVE  HeldBack'
<1> DEFINE t == admin[a].token
<1>1. UNCHANGED window /\ entry \in [Tokens -> Quota] /\ found \in [Calls -> SUBSET Tokens]
  BY DEF AddToPool, github, Typed, TypeOK
<1>2. CASE admin[a].status = "active"
  <2>1. /\ pool' = pool \cup {t} /\ entry' = [entry EXCEPT ![t] = admin[a].quota] /\ Replace({t})
    BY <1>2 DEF AddToPool
  <2>2. \A c \in Calls : found'[c] = found[c] \ {t} BY <2>1, ReplaceFacts
  <2> HIDE DEF t
  <2> QED BY <1>1, <2>1, <2>2 DEF HeldBack, IsExhausted
<1>3. CASE admin[a].status # "active"
  BY <1>1, <1>3 DEF AddToPool, HeldBack, IsExhausted
<1> QED BY <1>2, <1>3

LEMMA NextHeldBack == Typed /\ HeldBack /\ [Next]_vars => HeldBack'
<1> SUFFICES ASSUME Typed, HeldBack, [Next]_vars PROVE HeldBack' OBVIOUS
<1>a. found \in [Calls -> SUBSET Tokens] /\ pool \subseteq Tokens BY DEF Typed, TypeOK
<1>1. ASSUME UNCHANGED <<pool, entry, window, found>> PROVE HeldBack'
  BY <1>1 DEF HeldBack, IsExhausted
<1>2. CASE UNCHANGED vars BY <1>1, <1>2 DEF vars, memory, github, history
<1>3. ASSUME NEW c \in Calls, \/ Pick(c) \/ AutoDisable(c)
                              \/ \E answer \in AnswerKinds : Answers(c, answer)
      PROVE  HeldBack'
  BY <1>1, <1>3 DEF Pick, AutoDisable, Answers, memory, github, history
<1>4. ASSUME NEW c \in Calls, NEW kind \in Kinds, StartFetch(c, kind) PROVE HeldBack'
  BY <1>a, <1>4 DEF StartFetch, memory, github, HeldBack, IsExhausted
<1>5. ASSUME Load \/ StartFlush \/ QuotaWritten \/ \E t \in Tokens : SendQuota(t) PROVE HeldBack'
  BY <1>1, <1>5 DEF Load, StartFlush, QuotaWritten, SendQuota, memory, github, history
<1>6. ASSUME Loaded PROVE HeldBack'
  <2>1. \A c \in Calls : found'[c] = found[c] \ Tokens BY <1>6, ReplaceFacts DEF Loaded
  <2> QED BY <1>a, <2>1 DEF HeldBack
<1>7. ASSUME NEW t \in Tokens, WindowPasses(t) PROVE HeldBack'
  BY <1>a, <1>7 DEF WindowPasses, memory, HeldBack, IsExhausted, Typed, TypeOK
<1>8. ASSUME Restart PROVE HeldBack' BY <1>8 DEF Restart, HeldBack
<1>9. ASSUME NEW a \in Admins, (\E t \in Tokens : Begins(a, t)) \/ Refetch(a) PROVE HeldBack'
  BY <1>1, <1>9, BeginFacts DEF Refetch, BesidesRow, memory, github
<1>10. ASSUME NEW a \in Admins, RemoveFromPool(a) PROVE HeldBack'
  BY <1>10 DEF RemoveFromPool, github, history, HeldBack, IsExhausted
<1> QED BY <1>2, <1>3, <1>4, <1>5, <1>6, <1>7, <1>8, <1>9, <1>10, HandleHeldBack, AddedHeldBack
        DEF Next, Begins

\* Only a pick sends a fetch off.
LEMMA OnlyPickSends ==
  ASSUME Typed, [Next]_vars, NEW c \in Calls, call[c].pc = "pick", call'[c].pc = "sent"
  PROVE  Pick(c)
<1>a. call \in [Calls -> Call] BY DEF Typed, TypeOK, Call
<1>1. call' # call OBVIOUS
<1>2. ASSUME NEW d \in Calls, \/ \E kind \in Kinds : StartFetch(d, kind)
                              \/ Handle(d) \/ AutoDisable(d)
                              \/ \E answer \in AnswerKinds : Answers(d, answer)
      PROVE  d # c /\ call'[c] = call[c]
  <2>1. d # c BY <1>2 DEF StartFetch, Handle, AutoDisable, Answers
  <2>2. ASSUME call' = After(d) PROVE call'[c] = call[c] BY <2>1, <2>2, AfterFacts
  <2>3. ASSUME NEW r, call' = [call EXCEPT ![d] = r] PROVE call'[c] = call[c] BY <1>a, <2>1, <2>3
  <2> QED BY <1>2, <1>a, <2>1, <2>2, <2>3 DEF StartFetch, Handle, AutoDisable, Answers
<1>3. ASSUME NEW d \in Calls, Pick(d) PROVE d = c BY <1>a, <1>3 DEF Pick
<1>4. ~Restart BY IdleTypes DEF Restart
<1>5. ASSUME Load \/ Loaded \/ StartFlush \/ QuotaWritten \/ \E t \in Tokens : SendQuota(t) \/ WindowPasses(t)
      PROVE  FALSE
  BY <1>1, <1>5 DEF Load, Loaded, StartFlush, QuotaWritten, SendQuota, WindowPasses
<1>6. ASSUME NEW a \in Admins,
             (\E t \in Tokens : Begins(a, t)) \/ Refetch(a) \/ AddToPool(a) \/ RemoveFromPool(a)
      PROVE  FALSE
  BY <1>1, <1>6, BeginFacts DEF Refetch, AddToPool, RemoveFromPool, BesidesRow
<1>7. ~UNCHANGED vars BY <1>1 DEF vars
<1> QED BY <1>2, <1>3, <1>4, <1>5, <1>6, <1>7 DEF Next, Begins

\* A fetch never asks again a token it found spent while nothing has touched it: what
\* it reported keeps the token out of the pool or held back, whoever else reports.
THEOREM FetchesRotateAway == Spec => RotatesAway
<1>1. ASSUME Typed, HeldBack, [Next]_vars, NEW c \in Calls,
             call[c].pc = "pick", call'[c].pc = "sent"
      PROVE  call'[c].token \notin found[c]
  <2>1. Pick(c) BY <1>1, OnlyPickSends
  <2>2. call \in [Calls -> Call] BY <1>1 DEF Typed, TypeOK, Call
  <2>3. PICK t \in Candidates : call' = [call EXCEPT ![c].pc = "sent", ![c].token = t]
    BY <1>1, <2>1, <2>2, IdleTypes DEF Pick
  <2>4. call'[c].token = t BY <2>2, <2>3 DEF Call
  <2> QED BY <1>1, <2>4 DEF Candidates, HeldBack
<1>2. Typed /\ HeldBack /\ [Next]_vars
      => [\A c \in Calls :
            call[c].pc = "pick" /\ call'[c].pc = "sent" => call'[c].token \notin found[c]]_vars
  BY <1>1
<1> QED BY <1>2, InitHeldBack, NextHeldBack, TypedInvariance, PTL DEF Spec, RotatesAway
=============================================================================
