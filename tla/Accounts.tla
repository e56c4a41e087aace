------------------------------ MODULE Accounts ------------------------------
(***************************************************************************)
(* Users, their passwords and their sessions: logins behind the throttle   *)
(* of their address, requests that present a session and have it renewed   *)
(* or deleted, logouts, changes of a password, and the admins' routes that *)
(* disable and enable a user, reset a password or end all sessions.        *)
(*                                                                         *)
(* All of them interleave at every await.  A request trusts what it read   *)
(* of the session and of its user, whatever has become of them since.      *)
(*                                                                         *)
(* An operation creates at most one session and sets at most one password, *)
(* so both carry its name; a user starts with a session and a password of  *)
(* his own name.  Time is counted in hours for the sessions and, in the    *)
(* same unit, for the throttle.                                            *)
(***************************************************************************)
EXTENDS Naturals, FiniteSets

CONSTANTS
  Users,        \* all are there from the start
  Admins,       \* those with the role
  Ops,          \* bound: operations, each run once
  TTL,          \* SESSION_TTL_HOURS
  Renewal,      \* SESSION_RENEWAL_THRESHOLD_HOURS
  MaxAttempts,  \* LOGIN_THROTTLE_MAX_ATTEMPTS
  Window,       \* LOGIN_THROTTLE_WINDOW_MS
  MaxTime, MaxFaults,  \* bounds
  Nobody

ASSUME AccountsAssumption ==
  /\ Users \cap Ops = {} /\ Nobody \notin Users \cup Ops /\ Admins \subseteq Users
  /\ TTL \in Nat /\ Renewal \in Nat /\ Window \in Nat /\ MaxAttempts \in Nat \ {0}
  /\ MaxTime \in Nat /\ MaxFaults \in Nat

Names == Users \cup Ops     \* of sessions and of passwords

VARIABLES
  active, password,  \* users: the status, and which password the hash is of
  owner, expires,    \* sessions: whose (Nobody when there is no row) and until when
  attempts, resetAt, \* the throttle's entry for the one address of the model
  op, now, faults,
  opened,       \* history: the password a session was opened with
  outdated,     \* history: passwords of a user replaced before his sessions were purged
  straggler,    \* history: logins that had read the user before such a purge
  ended,        \* history: sessions that have been deleted
  crossed       \* history: an admin disabled somebody while disabled himself

user == <<active, password>>
session == <<owner, expires>>
throttle == <<attempts, resetAt>>
history == <<opened, outdated, straggler, ended, crossed>>
vars == <<user, session, throttle, op, now, faults, history>>

Begin == [kind |-> "none", pc |-> "idle", user |-> Nobody, target |-> Nobody,
          session |-> Nobody, password |-> Nobody]

Init ==
  /\ active = [u \in Users |-> TRUE] /\ password = [u \in Users |-> u]
  /\ owner = [s \in Names |-> IF s \in Users THEN s ELSE Nobody]
  /\ expires = [s \in Names |-> IF s \in Users THEN TTL ELSE 0]
  /\ attempts = 0 /\ resetAt = 0 /\ now = 0 /\ faults = 0
  /\ op = [o \in Ops |-> Begin]
  /\ opened = owner /\ outdated = [u \in Users |-> {}] /\ straggler = {} /\ ended = {}
  /\ crossed = FALSE

Live(s) == owner[s] # Nobody
Goes(o, pc) == op' = [op EXCEPT ![o].pc = pc]

Deleted(S) ==
  /\ owner' = [s \in Names |-> IF s \in S THEN Nobody ELSE owner[s]]
  /\ expires' = [s \in Names |-> IF s \in S THEN 0 ELSE expires[s]]
  /\ ended' = ended \cup {s \in S : Live(s)}

SessionsOf(u) == {s \in Names : owner[s] = u}

-----------------------------------------------------------------------------
(* Logging in.                                                             *)

Expired == resetAt <= now
Blocked == attempts >= MaxAttempts

\* Attempts counted in the window that a new one falls into.
Counted == IF Expired THEN 0 ELSE attempts

\* Faulty variants of a definition stand just before it; the property named in
\* the comment must tell them apart.
\* Attempts that are turned away are counted too: TypeOK.
CountsAfter == Counted + 1

CountedAfter == IF Counted < MaxAttempts THEN Counted + 1 ELSE Counted

\* recordLoginAttempt: a blocked attempt goes no further and is not counted.
RecordAttempt(o, u) ==
  /\ op[o].pc = "idle"
  /\ attempts' = CountedAfter
  /\ resetAt' = IF Expired THEN now + Window ELSE resetAt
  /\ op' = [op EXCEPT ![o] = [Begin EXCEPT !.kind = "login", !.user = u,
              !.pc = IF Counted < MaxAttempts THEN "look up" ELSE "refused"]]
  /\ UNCHANGED <<user, session, now, faults, history>>

\* The row is read, and the password compared with the hash that was in it.
LookUp(o) ==
  LET u == op[o].user
  IN  /\ op[o].pc = "look up"
      /\ \/ active[u] /\ op' = [op EXCEPT ![o].pc = "verified", ![o].password = password[u]]
         \/ Goes(o, "refused")
      /\ UNCHANGED <<user, session, throttle, now, faults, history>>

\* A success always clears the counter: BlockStays.
SucceedClears(o) ==
  /\ op[o].pc = "verified"
  /\ attempts' = 0 /\ resetAt' = 0
  /\ Goes(o, "create")
  /\ UNCHANGED <<user, session, now, faults, history>>

\* resetLoginThrottle, once the login has been recorded.
Succeed(o) ==
  /\ op[o].pc = "verified"
  /\ IF Blocked THEN UNCHANGED throttle ELSE attempts' = 0 /\ resetAt' = 0
  /\ Goes(o, "create")
  /\ UNCHANGED <<user, session, now, faults, history>>

CreateSession(o) ==
  /\ op[o].pc = "create"
  /\ owner' = [owner EXCEPT ![o] = op[o].user]
  /\ expires' = [expires EXCEPT ![o] = now + TTL]
  /\ opened' = [opened EXCEPT ![o] = op[o].password]
  /\ Goes(o, "done")
  /\ UNCHANGED <<user, throttle, now, faults, outdated, straggler, ended, crossed>>

-----------------------------------------------------------------------------
(* A request that presents a session: findSessionById, then what it is for. *)

AdminKinds == {"disable", "enable", "reset", "log out all"}

\* Nothing keeps an admin from disabling himself: AdminRemains.
MayTargetAnyone(kind, u, t) ==
  /\ kind \in {"visit", "change"} => t = u
  /\ kind \in AdminKinds => u \in Admins

\* Whom a request may be about; the row of the target, which is read too, is
\* never deleted.
MayTarget(kind, u, t) ==
  /\ kind = "disable" => t # u
  /\ kind \in {"visit", "change"} => t = u
  /\ kind \in AdminKinds => u \in Admins

\* Read of the row with its user.
Find(o, s, kind, t) ==
  LET u == owner[s]
      remains == expires[s] - now   \* meant when now < expires[s]
  IN  /\ op[o].pc = "idle" /\ Live(s)
      /\ MayTarget(kind, u, t)
      /\ op' = [op EXCEPT ![o] = [Begin EXCEPT !.kind = kind, !.user = u, !.target = t,
                  !.session = s,
                  !.pc = IF expires[s] <= now \/ ~active[u] THEN "delete"
                         ELSE IF remains < Renewal THEN "renew"
                         ELSE "act"]]
      /\ UNCHANGED <<user, session, throttle, now, faults, history>>

\* The renewal creates the row when it is gone: DeletedStays.
RenewOrCreate(o) ==
  LET s == op[o].session
  IN  /\ op[o].pc = "renew"
      /\ owner' = [owner EXCEPT ![s] = op[o].user]
      /\ expires' = [expires EXCEPT ![s] = now + TTL]
      /\ Goes(o, "act")
      /\ UNCHANGED <<user, throttle, now, faults, history>>

\* An update of a row that is gone throws.
Renew(o) ==
  LET s == op[o].session
  IN  /\ op[o].pc = "renew"
      /\ IF Live(s) THEN expires' = [expires EXCEPT ![s] = now + TTL] /\ Goes(o, "act")
         ELSE UNCHANGED expires /\ Goes(o, "died")
      /\ UNCHANGED <<user, owner, throttle, now, faults, history>>

\* Expired, or its user disabled, or a logout.
DeleteSession(o) ==
  /\ op[o].pc = "delete"
  /\ Deleted({op[o].session})
  /\ Goes(o, "done")
  /\ UNCHANGED <<user, throttle, now, faults, opened, outdated, straggler, crossed>>

\* Nothing is read of the row.
Logout(o, s) ==
  /\ op[o].pc = "idle" /\ Live(s)
  /\ op' = [op EXCEPT ![o] = [Begin EXCEPT !.kind = "logout", !.pc = "delete", !.session = s]]
  /\ UNCHANGED <<user, session, throttle, now, faults, history>>

Visit(o) ==
  /\ op[o].pc = "act" /\ op[o].kind = "visit"
  /\ Goes(o, "done")
  /\ UNCHANGED <<user, session, throttle, now, faults, history>>

\* updateUserStatus: by id alone.
SetStatus(o) ==
  LET t == op[o].target
  IN  /\ op[o].pc = "act" /\ op[o].kind \in {"disable", "enable"}
      /\ active' = [active EXCEPT ![t] = (op[o].kind = "enable")]
      /\ crossed' = (crossed \/ (op[o].kind = "disable" /\ ~active[op[o].user]))
      /\ Goes(o, "done")
      /\ UNCHANGED <<password, session, throttle, now, faults, opened, outdated, straggler, ended>>

LogOutAll(o) ==
  /\ op[o].pc = "act" /\ op[o].kind = "log out all"
  /\ Deleted(SessionsOf(op[o].target))
  /\ Goes(o, "done")
  /\ UNCHANGED <<user, throttle, now, faults, opened, outdated, straggler, crossed>>

\* changePasswordAction: the user gives his present password, or another.
CheckOwn(o) ==
  /\ op[o].pc = "act" /\ op[o].kind = "change"
  /\ \/ Goes(o, "checked") \/ Goes(o, "refused")
  /\ UNCHANGED <<user, session, throttle, now, faults, history>>

\* changePassword sets the hash and goes on to end the user's sessions; the
\* action a user changes his own with leaves them alone.
SetPassword(o) ==
  LET t == op[o].target
  IN  /\ op[o].pc = "checked" \/ (op[o].pc = "act" /\ op[o].kind = "reset")
      /\ password' = [password EXCEPT ![t] = o]
      /\ op' = [op EXCEPT ![o].pc = IF op[o].kind = "reset" THEN "purge" ELSE "done",
                          ![o].password = o]
      /\ UNCHANGED <<active, session, throttle, now, faults, history>>

\* Every password of t there has ever been, but for the present one.
Replaced(t) ==
  ({t} \cup {o \in Ops : op[o].password = o /\ op[o].target = t}) \ {password[t]}

Pending(t) == {o \in Ops : op[o].kind = "login" /\ op[o].user = t
                           /\ op[o].pc \in {"verified", "create"}}

\* The session the request came with is kept: PasswordEndsSessions.
PurgeOthers(o) ==
  LET t == op[o].target
  IN  /\ op[o].pc = "purge"
      /\ Deleted(SessionsOf(t) \ {op[o].session})
      /\ outdated' = [outdated EXCEPT ![t] = Replaced(t)]
      /\ straggler' = straggler \cup Pending(t)
      /\ Goes(o, "done")
      /\ UNCHANGED <<user, throttle, now, faults, opened, crossed>>

Purge(o) ==
  LET t == op[o].target
  IN  /\ op[o].pc = "purge"
      /\ Deleted(SessionsOf(t))
      /\ outdated' = [outdated EXCEPT ![t] = Replaced(t)]
      /\ straggler' = straggler \cup Pending(t)
      /\ Goes(o, "done")
      /\ UNCHANGED <<user, throttle, now, faults, opened, crossed>>

-----------------------------------------------------------------------------
HourPasses ==
  /\ now < MaxTime /\ now' = now + 1
  /\ UNCHANGED <<user, session, throttle, op, faults, history>>

\* A statement fails or the request is lost: what is done stays.
Die(o) ==
  /\ op[o].pc \notin {"idle", "done", "refused", "died"}
  /\ faults < MaxFaults /\ faults' = faults + 1
  /\ Goes(o, "died")
  /\ UNCHANGED <<user, session, throttle, now, history>>

Next ==
  \/ \E o \in Ops :
       \/ LookUp(o) \/ Succeed(o) \/ CreateSession(o)
       \/ Renew(o) \/ DeleteSession(o)
       \/ Visit(o) \/ SetStatus(o) \/ LogOutAll(o) \/ CheckOwn(o) \/ SetPassword(o) \/ Purge(o)
       \/ Die(o)
       \/ \E u \in Users : RecordAttempt(o, u)
       \/ \E s \in Names :
            \/ Logout(o, s)
            \/ \E kind \in AdminKinds \cup {"visit", "change"}, t \in Users : Find(o, s, kind, t)
  \/ HourPasses

Spec == Init /\ [][Next]_vars

-----------------------------------------------------------------------------
(* Properties.                                                             *)

\* Every variable stays in its type; the throttle counts no further than its
\* limit, so a blocked address waits for one window and no longer.
TypeOK ==
  /\ active \in [Users -> BOOLEAN] /\ password \in [Users -> Names]
  /\ owner \in [Names -> Users \cup {Nobody}] /\ expires \in [Names -> Nat]
  /\ attempts \in Nat /\ resetAt \in Nat /\ now \in Nat /\ faults \in Nat
  /\ op \in [Ops -> [kind : AdminKinds \cup {"none", "login", "logout", "visit", "change"},
                     pc : {"idle", "look up", "verified", "create", "renew", "delete", "act", "checked",
                           "purge", "done", "refused", "died"},
                     user : Users \cup {Nobody}, target : Users \cup {Nobody},
                     session : Names \cup {Nobody}, password : Names \cup {Nobody}]]
  /\ opened \in [Names -> Names \cup {Nobody}] /\ outdated \in [Users -> SUBSET Names]
  /\ straggler \subseteq Ops /\ ended \subseteq Names /\ crossed \in BOOLEAN
  /\ attempts <= MaxAttempts

\* After an admin's reset is through, no session opened with a password of before
\* it lives, but those of logins that had read the user before the purge.
PasswordEndsSessions ==
  \A s \in Names : Live(s) /\ opened[s] \in outdated[owner[s]] => s \in straggler

\* A session that was deleted never lives again, though requests that had read
\* its row before go on to renew it.
DeletedStays == \A s \in ended : ~Live(s)

\* No admin disables himself, so one is left: unless one who had been disabled
\* himself since his request was checked disabled another.
AdminRemains == crossed \/ Admins = {} \/ \E a \in Admins : active[a]

\* An address blocked for too many attempts stays blocked until the window is
\* over, even when a login it started before succeeds.
BlockStays == [][Blocked /\ resetAt > now => Blocked' /\ resetAt' = resetAt]_vars
=============================================================================
