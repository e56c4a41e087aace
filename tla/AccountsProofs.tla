--------------------------- MODULE AccountsProofs ---------------------------
(***************************************************************************)
(* Theorems about Accounts: type correctness, that a deleted session never *)
(* lives again, that a password reset ends the sessions of before it, that *)
(* an active admin remains, and that a block lasts, for any number of      *)
(* users, requests and deaths, and any lengths of time.                    *)
(***************************************************************************)
EXTENDS Accounts, TLAPS

ReqKinds == AdminKinds \cup {"none", "login", "logout", "visit", "change"}
Pcs == {"idle", "look up", "verified", "create", "renew", "delete", "act", "checked",
        "purge", "done", "refused", "died"}
OpRec == [kind : ReqKinds, pc : Pcs, user : Users \cup {Nobody}, target : Users \cup {Nobody},
          session : Names \cup {Nobody}, password : Names \cup {Nobody}]

\* TypeOK by parts: the users, the sessions, the requests, the rest.
UsersOK == active \in [Users -> BOOLEAN] /\ password \in [Users -> Names]
SessionsOK == /\ owner \in [Names -> Users \cup {Nobody}] /\ expires \in [Names -> Nat]
              /\ ended \subseteq Names
OpsOK == op \in [Ops -> OpRec]
CountersOK ==
  /\ attempts \in Nat /\ attempts <= MaxAttempts /\ resetAt \in Nat
  /\ now \in Nat /\ faults \in Nat
HistoryOK ==
  /\ opened \in [Names -> Names \cup {Nobody}] /\ outdated \in [Users -> SUBSET Names]
  /\ straggler \subseteq Ops /\ crossed \in BOOLEAN

\* A request that will write a session row has read which, and a login knows its
\* user.
Informed ==
  \A o \in Ops : /\ op[o].pc \in {"renew", "delete"} => op[o].session \in Names
                 /\ op[o].pc = "look up" => op[o].user \in Users

Typed == UsersOK /\ SessionsOK /\ OpsOK /\ CountersOK /\ HistoryOK /\ Informed

LEMMA TypeParts == Typed => TypeOK
BY DEF TypeOK, Typed, UsersOK, SessionsOK, OpsOK, CountersOK, HistoryOK, OpRec, ReqKinds, Pcs

LEMMA NamesFacts ==
  Ops \subseteq Names /\ Users \subseteq Names /\ Nobody \notin Names /\ Users \cap Ops = {}
BY AccountsAssumption DEF Names

LEMMA InitType == Init => Typed
<1> SUFFICES ASSUME Init PROVE Typed OBVIOUS
<1> USE NamesFacts, AccountsAssumption DEF Init
<1>1. UsersOK BY DEF UsersOK
<1>2. SessionsOK BY DEF SessionsOK
<1>3. OpsOK BY DEF OpsOK, OpRec, ReqKinds, Pcs, Begin
<1>4. CountersOK BY DEF CountersOK
<1>5. owner \in [Names -> Users \cup {Nobody}] BY <1>2 DEF SessionsOK
<1>6. opened \in [Names -> Names \cup {Nobody}] BY <1>5
<1>7. HistoryOK BY <1>6 DEF HistoryOK
<1>8. Informed BY DEF Informed, Begin
<1> QED BY <1>1, <1>2, <1>3, <1>4, <1>7, <1>8 DEF Typed

\* A step of one request keeps the requests well typed.
LEMMA GoesType ==
  ASSUME OpsOK, NEW o \in Ops, NEW pc \in Pcs, Goes(o, pc)
  PROVE  OpsOK'
<1>1. [op[o] EXCEPT !.pc = pc] \in OpRec BY DEF OpsOK, OpRec
<1> QED BY <1>1 DEF OpsOK, Goes

LEMMA GoesTo ==
  ASSUME OpsOK, NEW o \in Ops, NEW pc, Goes(o, pc)
  PROVE  /\ op'[o].pc = pc /\ op'[o].kind = op[o].kind /\ op'[o].user = op[o].user
         /\ op'[o].target = op[o].target /\ op'[o].session = op[o].session
         /\ op'[o].password = op[o].password
         /\ \A p \in Ops \ {o} : op'[p] = op[p]
<1>1. op'[o] = [op[o] EXCEPT !.pc = pc] BY DEF Goes, OpsOK
<1>2. op[o] \in OpRec BY DEF OpsOK
<1>3. \A p \in Ops \ {o} : op'[p] = op[p] BY DEF Goes, OpsOK
<1> QED BY <1>1, <1>2, <1>3 DEF OpRec

LEMMA GoesWith ==
  ASSUME OpsOK, NEW o \in Ops, NEW pc, NEW w,
         op' = [op EXCEPT ![o].pc = pc, ![o].password = w]
  PROVE  /\ op'[o].pc = pc /\ op'[o].kind = op[o].kind /\ op'[o].user = op[o].user
         /\ op'[o].target = op[o].target /\ op'[o].password = w
         /\ \A p \in Ops \ {o} : op'[p] = op[p]
<1>1. op'[o] = [op[o] EXCEPT !.pc = pc, !.password = w] BY DEF OpsOK
<1>2. op[o] \in OpRec BY DEF OpsOK
<1>3. \A p \in Ops \ {o} : op'[p] = op[p] BY DEF OpsOK
<1> DEFINE r == op[o]
<1>4. DOMAIN r = {"kind", "pc", "user", "target", "session", "password"} BY <1>2 DEF OpRec
<1>5. op'[o] = [r EXCEPT !.pc = pc, !.password = w] BY <1>1
<1> HIDE DEF r
<1>6. op'[o].pc = pc /\ op'[o].password = w BY <1>4, <1>5
<1>7. op'[o].kind = r.kind /\ op'[o].user = r.user /\ op'[o].target = r.target BY <1>4, <1>5
<1> QED BY <1>3, <1>6, <1>7 DEF r

LEMMA LookUpTo ==
  ASSUME OpsOK, NEW o \in Ops, LookUp(o)
  PROVE  /\ op'[o].pc \in {"verified", "refused"} /\ op'[o].kind = op[o].kind
         /\ op'[o].user = op[o].user /\ op'[o].target = op[o].target
         /\ op'[o].pc = "verified" => op'[o].password = password[op[o].user]
         /\ \A p \in Ops \ {o} : op'[p] = op[p]
<1>1. CASE Goes(o, "refused") BY <1>1, GoesTo
<1>2. CASE op' = [op EXCEPT ![o].pc = "verified", ![o].password = password[op[o].user]]
  <2>1. \E w : w = password[op[o].user] OBVIOUS
  <2>2. PICK w : w = password[op[o].user] BY <2>1
  <2>3. op' = [op EXCEPT ![o].pc = "verified", ![o].password = w] BY <1>2, <2>2
  <2>4. /\ op'[o].pc = "verified" /\ op'[o].kind = op[o].kind /\ op'[o].user = op[o].user
        /\ op'[o].target = op[o].target /\ op'[o].password = w
        /\ \A p \in Ops \ {o} : op'[p] = op[p]
    BY <2>3, GoesWith
  <2> QED BY <2>2, <2>4
<1> QED BY <1>1, <1>2 DEF LookUp

LEMMA SetPasswordTo ==
  ASSUME OpsOK, NEW o \in Ops, SetPassword(o)
  PROVE  /\ op'[o].pc \in {"purge", "done"} /\ op'[o].kind = op[o].kind
         /\ op'[o].user = op[o].user /\ op'[o].target = op[o].target
         /\ op'[o].password = o
         /\ \A p \in Ops \ {o} : op'[p] = op[p]
<1>1. PICK pc \in {"purge", "done"} : op' = [op EXCEPT ![o].pc = pc, ![o].password = o]
  BY DEF SetPassword
<1>2. /\ op'[o].pc = pc /\ op'[o].kind = op[o].kind /\ op'[o].user = op[o].user
      /\ op'[o].target = op[o].target /\ op'[o].password = o
      /\ \A p \in Ops \ {o} : op'[p] = op[p]
  BY <1>1, GoesWith
<1> QED BY <1>2

\* Deleting sessions opens none, and what it deletes was there.
LEMMA DeletedFacts ==
  ASSUME SessionsOK, NEW S \in SUBSET Names, Deleted(S)
  PROVE  /\ \A s \in Names : owner[s] = Nobody
              => owner'[s] = Nobody /\ (s \in ended' => s \in ended)
         /\ \A s \in (ended' \ ended) \cap Names : owner'[s] = Nobody
         /\ \A s \in Names : owner'[s] \in {Nobody, owner[s]} /\ (s \in S => owner'[s] = Nobody)
BY DEF SessionsOK, Deleted, Live

LEMMA DeletedType ==
  ASSUME SessionsOK, NEW S \in SUBSET Names, Deleted(S)
  PROVE  SessionsOK'
<1>1. owner' \in [Names -> Users \cup {Nobody}] BY DEF SessionsOK, Deleted
<1>2. expires' \in [Names -> Nat] BY DEF SessionsOK, Deleted
<1> QED BY <1>1, <1>2 DEF SessionsOK, Deleted

-----------------------------------------------------------------------------
(* Type correctness, part by part.                                          *)

LEMMA UsersStep ==
  ASSUME Typed, [Next]_vars
  PROVE  UsersOK'
<1> USE NamesFacts DEF Typed, UsersOK
<1>1. ASSUME NEW o \in Ops, LookUp(o)
      PROVE  UsersOK'
  BY <1>1 DEF LookUp, Goes, user, session, throttle, history
<1>2. ASSUME NEW o \in Ops, Succeed(o)
      PROVE  UsersOK'
  BY <1>2 DEF Succeed, Goes, user, session, throttle, history
<1>3. ASSUME NEW o \in Ops, CreateSession(o)
      PROVE  UsersOK'
  BY <1>3 DEF CreateSession, Goes, user, session, throttle, history
<1>4. ASSUME NEW o \in Ops, Renew(o)
      PROVE  UsersOK'
  BY <1>4 DEF Renew, Goes, Live, user, session, throttle, history
<1>5. ASSUME NEW o \in Ops, DeleteSession(o)
      PROVE  UsersOK'
  BY <1>5 DEF DeleteSession, Goes, Deleted, Live, user, session, throttle, history
<1>6. ASSUME NEW o \in Ops, Visit(o)
      PROVE  UsersOK'
  BY <1>6 DEF Visit, Goes, user, session, throttle, history
<1>7. ASSUME NEW o \in Ops, SetStatus(o)
      PROVE  UsersOK'
  BY <1>7 DEF SetStatus, Goes, user, session, throttle, history
<1>8. ASSUME NEW o \in Ops, LogOutAll(o)
      PROVE  UsersOK'
  BY <1>8 DEF LogOutAll, Goes, Deleted, Live, user, session, throttle, history
<1>9. ASSUME NEW o \in Ops, CheckOwn(o)
      PROVE  UsersOK'
  BY <1>9 DEF CheckOwn, Goes, user, session, throttle, history
<1>10. ASSUME NEW o \in Ops, SetPassword(o)
      PROVE  UsersOK'
  BY <1>10 DEF SetPassword, user, session, throttle, history
<1>11. ASSUME NEW o \in Ops, Purge(o)
      PROVE  UsersOK'
  BY <1>11 DEF Purge, Goes, Deleted, Live, user, session, throttle, history
<1>12. ASSUME NEW o \in Ops, Die(o)
      PROVE  UsersOK'
  BY <1>12 DEF Die, Goes, user, session, throttle, history
<1>13. ASSUME NEW o \in Ops, NEW u \in Users, RecordAttempt(o, u)
      PROVE  UsersOK'
  BY <1>13 DEF RecordAttempt, Begin, user, session, throttle, history
<1>14. ASSUME NEW o \in Ops, NEW s \in Names, Logout(o, s)
      PROVE  UsersOK'
  BY <1>14 DEF Logout, Begin, Live, user, session, throttle, history
<1>15. ASSUME NEW o \in Ops, NEW s \in Names, NEW kind \in AdminKinds \cup {"visit",
            "change"}, NEW t \in Users, Find(o, s, kind, t)
      PROVE  UsersOK'
  BY <1>15 DEF Find, Begin, Live, MayTarget, user, session, throttle, history
<1>16. ASSUME HourPasses PROVE UsersOK'
  BY <1>16 DEF HourPasses, user, session, throttle, history
<1>17. ASSUME UNCHANGED vars PROVE UsersOK'
  BY <1>17 DEF vars, user, session, throttle, history
<1> QED
  BY <1>1, <1>2, <1>3, <1>4, <1>5, <1>6, <1>7, <1>8, <1>9, <1>10, <1>11, <1>12,
     <1>13, <1>14, <1>15, <1>16, <1>17 DEF Next

LEMMA SessionsStep ==
  ASSUME Typed, [Next]_vars
  PROVE  SessionsOK'
<1> USE NamesFacts DEF Typed, SessionsOK, OpsOK, OpRec, CountersOK
<1>1. ASSUME NEW o \in Ops, LookUp(o)
      PROVE  SessionsOK'
  BY <1>1 DEF LookUp, Goes, user, session, throttle, history
<1>2. ASSUME NEW o \in Ops, Succeed(o)
      PROVE  SessionsOK'
  BY <1>2 DEF Succeed, Goes, user, session, throttle, history
<1>3. ASSUME NEW o \in Ops, CreateSession(o)
      PROVE  SessionsOK'
  <2>1. op[o].user \in Users \cup {Nobody} /\ now + TTL \in Nat BY AccountsAssumption
  <2> QED BY <1>3, <2>1 DEF CreateSession
<1>4. ASSUME NEW o \in Ops, Renew(o)
      PROVE  SessionsOK'
  <2>1. now + TTL \in Nat BY AccountsAssumption
  <2>2. \/ expires' = [expires EXCEPT ![op[o].session] = now + TTL]
        \/ expires' = expires
    BY <1>4 DEF Renew
  <2>3. owner' = owner /\ ended' = ended BY <1>4 DEF Renew, history
  <2> QED BY <2>1, <2>2, <2>3
<1>5. ASSUME NEW o \in Ops, DeleteSession(o)
      PROVE  SessionsOK'
  <2>1. {op[o].session} \in SUBSET Names BY <1>5 DEF DeleteSession, Informed
  <2> QED BY <1>5, <2>1, DeletedType DEF DeleteSession
<1>6. ASSUME NEW o \in Ops, Visit(o)
      PROVE  SessionsOK'
  BY <1>6 DEF Visit, Goes, user, session, throttle, history
<1>7. ASSUME NEW o \in Ops, SetStatus(o)
      PROVE  SessionsOK'
  BY <1>7 DEF SetStatus, Goes, user, session, throttle, history
<1>8. ASSUME NEW o \in Ops, LogOutAll(o)
      PROVE  SessionsOK'
  <2>1. SessionsOf(op[o].target) \in SUBSET Names BY DEF SessionsOf
  <2> QED BY <1>8, <2>1, DeletedType DEF LogOutAll
<1>9. ASSUME NEW o \in Ops, CheckOwn(o)
      PROVE  SessionsOK'
  BY <1>9 DEF CheckOwn, Goes, user, session, throttle, history
<1>10. ASSUME NEW o \in Ops, SetPassword(o)
      PROVE  SessionsOK'
  BY <1>10 DEF SetPassword, user, session, throttle, history
<1>11. ASSUME NEW o \in Ops, Purge(o)
      PROVE  SessionsOK'
  <2>1. SessionsOf(op[o].target) \in SUBSET Names BY DEF SessionsOf
  <2> QED BY <1>11, <2>1, DeletedType DEF Purge
<1>12. ASSUME NEW o \in Ops, Die(o)
      PROVE  SessionsOK'
  BY <1>12 DEF Die, Goes, user, session, throttle, history
<1>13. ASSUME NEW o \in Ops, NEW u \in Users, RecordAttempt(o, u)
      PROVE  SessionsOK'
  BY <1>13 DEF RecordAttempt, Begin, user, session, throttle, history
<1>14. ASSUME NEW o \in Ops, NEW s \in Names, Logout(o, s)
      PROVE  SessionsOK'
  BY <1>14 DEF Logout, Begin, Live, user, session, throttle, history
<1>15. ASSUME NEW o \in Ops, NEW s \in Names, NEW kind \in AdminKinds \cup {"visit",
            "change"}, NEW t \in Users, Find(o, s, kind, t)
      PROVE  SessionsOK'
  BY <1>15 DEF Find, Begin, Live, MayTarget, user, session, throttle, history
<1>16. ASSUME HourPasses PROVE SessionsOK'
  BY <1>16 DEF HourPasses, user, session, throttle, history
<1>17. ASSUME UNCHANGED vars PROVE SessionsOK'
  BY <1>17 DEF vars, user, session, throttle, history
<1> QED
  BY <1>1, <1>2, <1>3, <1>4, <1>5, <1>6, <1>7, <1>8, <1>9, <1>10, <1>11, <1>12,
     <1>13, <1>14, <1>15, <1>16, <1>17 DEF Next

LEMMA OpsStep ==
  ASSUME Typed, [Next]_vars
  PROVE  OpsOK'
<1> USE NamesFacts DEF Typed, OpsOK, UsersOK, SessionsOK
<1>1. ASSUME NEW o \in Ops, LookUp(o)
      PROVE  OpsOK'
  <2>1. CASE Goes(o, "refused") BY <2>1, GoesType DEF Pcs
  <2>2. CASE op' = [op EXCEPT ![o].pc = "verified", ![o].password = password[op[o].user]]
              /\ active[op[o].user]
    <3>1. password[op[o].user] \in Names \cup {Nobody}
      BY <1>1 DEF LookUp, Informed, UsersOK
    <3>2. \A w \in Names \cup {Nobody} :
            [op[o] EXCEPT !.pc = "verified", !.password = w] \in OpRec
      BY ZenonT(40) DEF OpRec, Pcs
    <3> QED BY <2>2, <3>1, <3>2
  <2> QED BY <1>1, <2>1, <2>2 DEF LookUp
<1>2. ASSUME NEW o \in Ops, Succeed(o)
      PROVE  OpsOK'
  <2>1. \E pc \in {"create"} : Goes(o, pc) BY <1>2 DEF Succeed, Goes, OpsOK
  <2> QED BY <2>1, GoesType DEF Pcs
<1>3. ASSUME NEW o \in Ops, CreateSession(o)
      PROVE  OpsOK'
  <2>1. \E pc \in {"done"} : Goes(o, pc) BY <1>3 DEF CreateSession, Goes, OpsOK
  <2> QED BY <2>1, GoesType DEF Pcs
<1>4. ASSUME NEW o \in Ops, Renew(o)
      PROVE  OpsOK'
  <2>1. \E pc \in {"act", "died"} : Goes(o, pc) BY <1>4 DEF Renew, Goes, OpsOK
  <2> QED BY <2>1, GoesType DEF Pcs
<1>5. ASSUME NEW o \in Ops, DeleteSession(o)
      PROVE  OpsOK'
  <2>1. \E pc \in {"done"} : Goes(o, pc) BY <1>5 DEF DeleteSession, Goes, OpsOK
  <2> QED BY <2>1, GoesType DEF Pcs
<1>6. ASSUME NEW o \in Ops, Visit(o)
      PROVE  OpsOK'
  <2>1. \E pc \in {"done"} : Goes(o, pc) BY <1>6 DEF Visit, Goes, OpsOK
  <2> QED BY <2>1, GoesType DEF Pcs
<1>7. ASSUME NEW o \in Ops, SetStatus(o)
      PROVE  OpsOK'
  <2>1. \E pc \in {"done"} : Goes(o, pc) BY <1>7 DEF SetStatus, Goes, OpsOK
  <2> QED BY <2>1, GoesType DEF Pcs
<1>8. ASSUME NEW o \in Ops, LogOutAll(o)
      PROVE  OpsOK'
  <2>1. \E pc \in {"done"} : Goes(o, pc) BY <1>8 DEF LogOutAll, Goes, OpsOK
  <2> QED BY <2>1, GoesType DEF Pcs
<1>9. ASSUME NEW o \in Ops, CheckOwn(o)
      PROVE  OpsOK'
  <2>1. \E pc \in {"checked", "refused"} : Goes(o, pc) BY <1>9 DEF CheckOwn, Goes, OpsOK
  <2> QED BY <2>1, GoesType DEF Pcs
<1>10. ASSUME NEW o \in Ops, SetPassword(o)
      PROVE  OpsOK'
  <2>1. [op[o] EXCEPT !.pc = "purge", !.password = o] \in OpRec BY ZenonT(40) DEF OpRec, Pcs
  <2>2. [op[o] EXCEPT !.pc = "done", !.password = o] \in OpRec BY ZenonT(40) DEF OpRec, Pcs
  <2>3. \/ op' = [op EXCEPT ![o].pc = "purge", ![o].password = o]
        \/ op' = [op EXCEPT ![o].pc = "done", ![o].password = o]
    BY <1>10 DEF SetPassword
  <2> QED BY <2>1, <2>2, <2>3
<1>11. ASSUME NEW o \in Ops, Purge(o)
      PROVE  OpsOK'
  <2>1. \E pc \in {"done"} : Goes(o, pc) BY <1>11 DEF Purge, Goes, OpsOK
  <2> QED BY <2>1, GoesType DEF Pcs
<1>12. ASSUME NEW o \in Ops, Die(o)
      PROVE  OpsOK'
  <2>1. \E pc \in {"died"} : Goes(o, pc) BY <1>12 DEF Die, Goes, OpsOK
  <2> QED BY <2>1, GoesType DEF Pcs
<1>13. ASSUME NEW o \in Ops, NEW u \in Users, RecordAttempt(o, u)
      PROVE  OpsOK'
  <2>1. \E pc \in {"look up", "refused"} :
          op' = [op EXCEPT ![o] = [Begin EXCEPT !.kind = "login", !.user = u, !.pc = pc]]
    BY <1>13 DEF RecordAttempt
  <2>2. \A pc \in Pcs : [Begin EXCEPT !.kind = "login", !.user = u, !.pc = pc] \in OpRec
    BY DEF OpRec, ReqKinds, Begin, Pcs
  <2> QED BY ZenonT(40), <2>1, <2>2 DEF Pcs
<1>14. ASSUME NEW o \in Ops, NEW s \in Names, Logout(o, s)
      PROVE  OpsOK'
  <2>1. [Begin EXCEPT !.kind = "logout", !.pc = "delete", !.session = s] \in OpRec
    BY DEF OpRec, ReqKinds, Begin, Pcs
  <2> QED BY <1>14, <2>1 DEF Logout
<1>15. ASSUME NEW o \in Ops, NEW s \in Names, NEW kind \in AdminKinds \cup {"visit",
            "change"}, NEW t \in Users, Find(o, s, kind, t)
      PROVE  OpsOK'
  <2>1. owner[s] \in Users BY <1>15 DEF Find, Live
  <2>2. \E pc \in {"delete", "renew", "act"} :
          op' = [op EXCEPT ![o] = [Begin EXCEPT !.kind = kind, !.user = owner[s],
                                     !.target = t, !.session = s, !.pc = pc]]
    BY <1>15 DEF Find
  <2>3. \A pc \in Pcs : [Begin EXCEPT !.kind = kind, !.user = owner[s], !.target = t,
                                     !.session = s, !.pc = pc] \in OpRec
    BY <2>1 DEF OpRec, ReqKinds, Begin, Pcs
  <2> QED BY ZenonT(40), <2>2, <2>3 DEF Pcs
<1>16. ASSUME HourPasses PROVE OpsOK'
  BY <1>16 DEF HourPasses, user, session, throttle, history
<1>17. ASSUME UNCHANGED vars PROVE OpsOK'
  BY <1>17 DEF vars, user, session, throttle, history
<1> QED
  BY <1>1, <1>2, <1>3, <1>4, <1>5, <1>6, <1>7, <1>8, <1>9, <1>10, <1>11, <1>12,
     <1>13, <1>14, <1>15, <1>16, <1>17 DEF Next

LEMMA SessionGiven ==
  ASSUME Typed, [Next]_vars
  PROVE  Informed'
<1> USE NamesFacts DEF Typed, Informed, OpsOK, OpRec
<1>1. ASSUME NEW o \in Ops, LookUp(o)
      PROVE  Informed'
  <2>1. CASE Goes(o, "refused") BY ZenonT(40), <2>1 DEF Goes
  <2>2. CASE op' = [op EXCEPT ![o].pc = "verified", ![o].password = password[op[o].user]]
    BY ZenonT(40), <2>2
  <2> QED BY <1>1, <2>1, <2>2 DEF LookUp
<1>2. ASSUME NEW o \in Ops, Succeed(o)
      PROVE  Informed'
  BY ZenonT(40), <1>2 DEF Succeed, Goes, user, session, throttle, history
<1>3. ASSUME NEW o \in Ops, CreateSession(o)
      PROVE  Informed'
  BY ZenonT(40), <1>3 DEF CreateSession, Goes, user, session, throttle, history
<1>4. ASSUME NEW o \in Ops, Renew(o)
      PROVE  Informed'
  <2>1. \E pc \in {"act", "died"} : Goes(o, pc) BY <1>4 DEF Renew, Goes, OpsOK
  <2>2. op'[o].pc \notin {"renew", "delete", "look up"} BY <2>1, GoesTo
  <2>3. \A p \in Ops \ {o} : op'[p] = op[p] BY <2>1, GoesTo
  <2> QED BY <2>2, <2>3
<1>5. ASSUME NEW o \in Ops, DeleteSession(o)
      PROVE  Informed'
  BY ZenonT(40), <1>5 DEF DeleteSession, Goes, Deleted, Live, user, session, throttle, history
<1>6. ASSUME NEW o \in Ops, Visit(o)
      PROVE  Informed'
  BY <1>6 DEF Visit, Goes, user, session, throttle, history
<1>7. ASSUME NEW o \in Ops, SetStatus(o)
      PROVE  Informed'
  BY <1>7 DEF SetStatus, Goes, user, session, throttle, history
<1>8. ASSUME NEW o \in Ops, LogOutAll(o)
      PROVE  Informed'
  BY <1>8 DEF LogOutAll, Goes, Deleted, Live, user, session, throttle, history
<1>9. ASSUME NEW o \in Ops, CheckOwn(o)
      PROVE  Informed'
  <2>1. \E pc \in {"checked", "refused"} : Goes(o, pc) BY <1>9 DEF CheckOwn, Goes, OpsOK
  <2>2. op'[o].pc \notin {"renew", "delete", "look up"} BY <2>1, GoesTo
  <2>3. \A p \in Ops \ {o} : op'[p] = op[p] BY <2>1, GoesTo
  <2> QED BY <2>2, <2>3
<1>10. ASSUME NEW o \in Ops, SetPassword(o)
      PROVE  Informed'
  <2>1. \E pc \in {"purge", "done"} :
          op' = [op EXCEPT ![o].pc = pc, ![o].password = o]
    BY <1>10 DEF SetPassword
  <2>2. \A p \in Ops \ {o} : op'[p] = op[p] BY <2>1
  <2>3. op'[o].pc \in {"purge", "done"} BY ZenonT(40), <2>1, GoesWith
  <2> QED BY <2>2, <2>3
<1>11. ASSUME NEW o \in Ops, Purge(o)
      PROVE  Informed'
  BY ZenonT(40), <1>11 DEF Purge, Goes, Deleted, Live, user, session, throttle, history
<1>12. ASSUME NEW o \in Ops, Die(o)
      PROVE  Informed'
  BY ZenonT(40), <1>12 DEF Die, Goes, user, session, throttle, history
<1>13. ASSUME NEW o \in Ops, NEW u \in Users, RecordAttempt(o, u)
      PROVE  Informed'
  BY <1>13 DEF RecordAttempt, Begin, user, session, throttle, history
<1>14. ASSUME NEW o \in Ops, NEW s \in Names, Logout(o, s)
      PROVE  Informed'
  BY <1>14 DEF Logout, Begin, Live, user, session, throttle, history
<1>15. ASSUME NEW o \in Ops, NEW s \in Names, NEW kind \in AdminKinds \cup {"visit",
            "change"}, NEW t \in Users, Find(o, s, kind, t)
      PROVE  Informed'
  BY <1>15 DEF Find, Begin, Live, MayTarget, user, session, throttle, history
<1>16. ASSUME HourPasses PROVE Informed'
  BY <1>16 DEF HourPasses, user, session, throttle, history
<1>17. ASSUME UNCHANGED vars PROVE Informed'
  BY <1>17 DEF vars, user, session, throttle, history
<1> QED
  BY <1>1, <1>2, <1>3, <1>4, <1>5, <1>6, <1>7, <1>8, <1>9, <1>10, <1>11, <1>12,
     <1>13, <1>14, <1>15, <1>16, <1>17 DEF Next

LEMMA CountersStep ==
  ASSUME Typed, [Next]_vars
  PROVE  CountersOK'
<1> USE NamesFacts DEF Typed, CountersOK
<1>1. ASSUME NEW o \in Ops, LookUp(o)
      PROVE  CountersOK'
  BY <1>1 DEF LookUp, Goes, user, session, throttle, history
<1>2. ASSUME NEW o \in Ops, Succeed(o)
      PROVE  CountersOK'
  <2>1. 0 <= MaxAttempts BY AccountsAssumption
  <2> QED BY <1>2, <2>1 DEF Succeed, throttle
<1>3. ASSUME NEW o \in Ops, CreateSession(o)
      PROVE  CountersOK'
  BY <1>3 DEF CreateSession, Goes, user, session, throttle, history
<1>4. ASSUME NEW o \in Ops, Renew(o)
      PROVE  CountersOK'
  BY <1>4 DEF Renew, Goes, Live, user, session, throttle, history
<1>5. ASSUME NEW o \in Ops, DeleteSession(o)
      PROVE  CountersOK'
  BY <1>5 DEF DeleteSession, Goes, Deleted, Live, user, session, throttle, history
<1>6. ASSUME NEW o \in Ops, Visit(o)
      PROVE  CountersOK'
  BY <1>6 DEF Visit, Goes, user, session, throttle, history
<1>7. ASSUME NEW o \in Ops, SetStatus(o)
      PROVE  CountersOK'
  BY <1>7 DEF SetStatus, Goes, user, session, throttle, history
<1>8. ASSUME NEW o \in Ops, LogOutAll(o)
      PROVE  CountersOK'
  BY <1>8 DEF LogOutAll, Goes, Deleted, Live, user, session, throttle, history
<1>9. ASSUME NEW o \in Ops, CheckOwn(o)
      PROVE  CountersOK'
  BY <1>9 DEF CheckOwn, Goes, user, session, throttle, history
<1>10. ASSUME NEW o \in Ops, SetPassword(o)
      PROVE  CountersOK'
  BY <1>10 DEF SetPassword, user, session, throttle, history
<1>11. ASSUME NEW o \in Ops, Purge(o)
      PROVE  CountersOK'
  BY <1>11 DEF Purge, Goes, Deleted, Live, user, session, throttle, history
<1>12. ASSUME NEW o \in Ops, Die(o)
      PROVE  CountersOK'
  BY <1>12 DEF Die, Goes, user, session, throttle, history
<1>13. ASSUME NEW o \in Ops, NEW u \in Users, RecordAttempt(o, u)
      PROVE  CountersOK'
  <2>1. Counted \in Nat /\ Counted <= MaxAttempts BY AccountsAssumption DEF Counted
  <2>2. CountedAfter \in Nat /\ CountedAfter <= MaxAttempts
    BY <2>1, AccountsAssumption DEF CountedAfter
  <2>3. now + Window \in Nat BY AccountsAssumption
  <2> QED BY <1>13, <2>2, <2>3 DEF RecordAttempt
<1>14. ASSUME NEW o \in Ops, NEW s \in Names, Logout(o, s)
      PROVE  CountersOK'
  BY <1>14 DEF Logout, Begin, Live, user, session, throttle, history
<1>15. ASSUME NEW o \in Ops, NEW s \in Names, NEW kind \in AdminKinds \cup {"visit",
            "change"}, NEW t \in Users, Find(o, s, kind, t)
      PROVE  CountersOK'
  BY <1>15 DEF Find, Begin, Live, MayTarget, user, session, throttle, history
<1>16. ASSUME HourPasses PROVE CountersOK'
  BY <1>16 DEF HourPasses, user, session, throttle, history
<1>17. ASSUME UNCHANGED vars PROVE CountersOK'
  BY <1>17 DEF vars, user, session, throttle, history
<1> QED
  BY <1>1, <1>2, <1>3, <1>4, <1>5, <1>6, <1>7, <1>8, <1>9, <1>10, <1>11, <1>12,
     <1>13, <1>14, <1>15, <1>16, <1>17 DEF Next

LEMMA HistoryStep ==
  ASSUME Typed, [Next]_vars
  PROVE  HistoryOK'
<1> USE NamesFacts DEF Typed, HistoryOK, OpsOK, OpRec
<1>1. ASSUME NEW o \in Ops, LookUp(o)
      PROVE  HistoryOK'
  BY <1>1 DEF LookUp, Goes, user, session, throttle, history
<1>2. ASSUME NEW o \in Ops, Succeed(o)
      PROVE  HistoryOK'
  BY <1>2 DEF Succeed, Goes, user, session, throttle, history
<1>3. ASSUME NEW o \in Ops, CreateSession(o)
      PROVE  HistoryOK'
  BY <1>3 DEF CreateSession, Goes, user, session, throttle, history
<1>4. ASSUME NEW o \in Ops, Renew(o)
      PROVE  HistoryOK'
  BY <1>4 DEF Renew, Goes, Live, user, session, throttle, history
<1>5. ASSUME NEW o \in Ops, DeleteSession(o)
      PROVE  HistoryOK'
  BY <1>5 DEF DeleteSession, Goes, Deleted, Live, user, session, throttle, history
<1>6. ASSUME NEW o \in Ops, Visit(o)
      PROVE  HistoryOK'
  BY <1>6 DEF Visit, Goes, user, session, throttle, history
<1>7. ASSUME NEW o \in Ops, SetStatus(o)
      PROVE  HistoryOK'
  <2>1. crossed' \in BOOLEAN BY <1>7 DEF SetStatus
  <2> QED BY <1>7, <2>1 DEF SetStatus
<1>8. ASSUME NEW o \in Ops, LogOutAll(o)
      PROVE  HistoryOK'
  BY <1>8 DEF LogOutAll, Goes, Deleted, Live, user, session, throttle, history
<1>9. ASSUME NEW o \in Ops, CheckOwn(o)
      PROVE  HistoryOK'
  BY <1>9 DEF CheckOwn, Goes, user, session, throttle, history
<1>10. ASSUME NEW o \in Ops, SetPassword(o)
      PROVE  HistoryOK'
  BY <1>10 DEF SetPassword, user, session, throttle, history
<1>11. ASSUME NEW o \in Ops, Purge(o)
      PROVE  HistoryOK'
  <2>2. outdated' = [outdated EXCEPT ![op[o].target] = Replaced(op[o].target)] BY <1>11 DEF Purge
  <2>3. \A t \in Users : Replaced(t) \in SUBSET Names BY DEF Replaced
  <2>4. outdated' \in [Users -> SUBSET Names] BY <2>2, <2>3
  <2>5. straggler' \subseteq Ops BY <1>11 DEF Purge, Pending
  <2> QED BY <1>11, <2>4, <2>5 DEF Purge
<1>12. ASSUME NEW o \in Ops, Die(o)
      PROVE  HistoryOK'
  BY <1>12 DEF Die, Goes, user, session, throttle, history
<1>13. ASSUME NEW o \in Ops, NEW u \in Users, RecordAttempt(o, u)
      PROVE  HistoryOK'
  BY <1>13 DEF RecordAttempt, Begin, user, session, throttle, history
<1>14. ASSUME NEW o \in Ops, NEW s \in Names, Logout(o, s)
      PROVE  HistoryOK'
  BY <1>14 DEF Logout, Begin, Live, user, session, throttle, history
<1>15. ASSUME NEW o \in Ops, NEW s \in Names, NEW kind \in AdminKinds \cup {"visit",
            "change"}, NEW t \in Users, Find(o, s, kind, t)
      PROVE  HistoryOK'
  BY <1>15 DEF Find, Begin, Live, MayTarget, user, session, throttle, history
<1>16. ASSUME HourPasses PROVE HistoryOK'
  BY <1>16 DEF HourPasses, user, session, throttle, history
<1>17. ASSUME UNCHANGED vars PROVE HistoryOK'
  BY <1>17 DEF vars, user, session, throttle, history
<1> QED
  BY <1>1, <1>2, <1>3, <1>4, <1>5, <1>6, <1>7, <1>8, <1>9, <1>10, <1>11, <1>12,
     <1>13, <1>14, <1>15, <1>16, <1>17 DEF Next

LEMMA TypeStep ==
  ASSUME Typed, [Next]_vars
  PROVE  Typed'
BY UsersStep, SessionsStep, OpsStep, SessionGiven, CountersStep, HistoryStep DEF Typed

-----------------------------------------------------------------------------
(* Inductive invariants.                                                   *)

\* The session a login will open is not there, and never was.
Fresh ==
  \A o \in Ops : op[o].pc \in {"idle", "look up", "verified", "create"}
                  => owner[o] = Nobody /\ o \notin ended

\* Only a login opens a session.
Logins ==
  \A o \in Ops : op[o].pc \in {"look up", "verified", "create"} => op[o].kind = "login"

\* Who disables is an admin, and disables somebody else.
Disabling ==
  \A o \in Ops : op[o].kind = "disable" => op[o].user \in Admins /\ op[o].target # op[o].user

\* A request that will set a password has not set it.
NotYet ==
  \A o \in Ops : op[o].pc \in {"idle", "look up", "renew", "act", "checked"} => op[o].password # o

\* The passwords t has ever had; the present one is not outdated.
Ever(w, t) == w = t \/ (w \in Ops /\ op[w].password = w /\ op[w].target = t)
PresentNotOutdated ==
  \A t \in Users : /\ Ever(password[t], t) /\ password[t] \notin outdated[t]
                  /\ \A w \in outdated[t] : Ever(w, t)

\* A login verified with an outdated password is a straggler.
VerifiedInv ==
  \A o \in Ops : \A u \in Users :
    op[o].pc \in {"verified", "create"} /\ op[o].user = u /\ op[o].password \in outdated[u]
      => o \in straggler

LEMMA FreshStep ==
  ASSUME Typed, [Next]_vars, Fresh
  PROVE  Fresh'
<1> USE NamesFacts DEF Typed, Fresh, OpsOK, SessionsOK, OpRec
<1>1. ASSUME NEW o \in Ops, LookUp(o)
      PROVE  Fresh'
  <2>1. /\ op'[o].pc \in {"verified", "refused"} /\ op'[o].kind = op[o].kind
        /\ op'[o].user = op[o].user /\ op'[o].target = op[o].target
        /\ \A p \in Ops \ {o} : op'[p] = op[p]
    BY <1>1, LookUpTo
  <2>2. UNCHANGED <<user, owner, history>> /\ op[o].pc = "look up" BY <1>1 DEF LookUp, session
  <2> QED BY <2>1, <2>2 DEF user, history
<1>2. ASSUME NEW o \in Ops, Succeed(o)
      PROVE  Fresh'
  BY <1>2 DEF Succeed, Goes, user, session, throttle, history
<1>3. ASSUME NEW o \in Ops, CreateSession(o)
      PROVE  Fresh'
  BY ZenonT(40), <1>3 DEF CreateSession, Goes, user, session, throttle, history
<1>4. ASSUME NEW o \in Ops, Renew(o)
      PROVE  Fresh'
  <2>1. \E pc \in {"act", "died"} : Goes(o, pc) BY <1>4 DEF Renew, Goes, OpsOK
  <2>2. /\ op'[o].pc \in {"act", "died"} /\ op'[o].kind = op[o].kind /\ op'[o].user = op[o].user
        /\ op'[o].target = op[o].target /\ op'[o].password = op[o].password
        /\ op[o].pc \in {"renew", "act"}
    BY <1>4, <2>1, GoesTo DEF Renew
  <2>3. \A p \in Ops \ {o} : op'[p] = op[p] BY <2>1, GoesTo
  <2>4. UNCHANGED <<user, owner, history>> BY <1>4 DEF Renew, session
  <2> QED BY <2>2, <2>3, <2>4 DEF user, history
<1>5. ASSUME NEW o \in Ops, DeleteSession(o)
      PROVE  Fresh'
  BY ZenonT(40), <1>5 DEF DeleteSession, Goes, Deleted, Live, user, session, throttle, history
<1>6. ASSUME NEW o \in Ops, Visit(o)
      PROVE  Fresh'
  BY ZenonT(40), <1>6 DEF Visit, Goes, user, session, throttle, history
<1>7. ASSUME NEW o \in Ops, SetStatus(o)
      PROVE  Fresh'
  BY ZenonT(40), <1>7 DEF SetStatus, Goes, user, session, throttle, history
<1>8. ASSUME NEW o \in Ops, LogOutAll(o)
      PROVE  Fresh'
  BY ZenonT(40), <1>8 DEF LogOutAll, Goes, Deleted, Live, user, session, throttle, history
<1>9. ASSUME NEW o \in Ops, CheckOwn(o)
      PROVE  Fresh'
  <2>1. \E pc \in {"checked", "refused"} : Goes(o, pc) BY <1>9 DEF CheckOwn, Goes, OpsOK
  <2>2. /\ op'[o].pc \in {"checked", "refused"} /\ op'[o].kind = op[o].kind /\ op'[o].user = op[o].user
        /\ op'[o].target = op[o].target /\ op'[o].password = op[o].password
        /\ op[o].pc \in {"renew", "act"}
    BY <1>9, <2>1, GoesTo DEF CheckOwn
  <2>3. \A p \in Ops \ {o} : op'[p] = op[p] BY <2>1, GoesTo
  <2>4. UNCHANGED <<user, owner, history>> BY <1>9 DEF CheckOwn, session
  <2> QED BY <2>2, <2>3, <2>4 DEF user, history
<1>10. ASSUME NEW o \in Ops, SetPassword(o)
      PROVE  Fresh'
  <2>1. /\ op'[o].pc \in {"purge", "done"} /\ op'[o].kind = op[o].kind
        /\ op'[o].user = op[o].user /\ op'[o].target = op[o].target
        /\ \A p \in Ops \ {o} : op'[p] = op[p]
    BY <1>10, SetPasswordTo
  <2>2. UNCHANGED <<owner, history>> BY <1>10 DEF SetPassword, session
  <2> QED BY <2>1, <2>2 DEF history
<1>11. ASSUME NEW o \in Ops, Purge(o)
      PROVE  Fresh'
  BY ZenonT(40), <1>11 DEF Purge, Goes, Deleted, Live, user, session, throttle, history
<1>12. ASSUME NEW o \in Ops, Die(o)
      PROVE  Fresh'
  BY ZenonT(40), <1>12 DEF Die, Goes, user, session, throttle, history
<1>13. ASSUME NEW o \in Ops, NEW u \in Users, RecordAttempt(o, u)
      PROVE  Fresh'
  BY <1>13 DEF RecordAttempt, Begin, user, session, throttle, history
<1>14. ASSUME NEW o \in Ops, NEW s \in Names, Logout(o, s)
      PROVE  Fresh'
  BY <1>14 DEF Logout, Begin, Live, user, session, throttle, history
<1>15. ASSUME NEW o \in Ops, NEW s \in Names, NEW kind \in AdminKinds \cup {"visit",
            "change"}, NEW t \in Users, Find(o, s, kind, t)
      PROVE  Fresh'
  BY <1>15 DEF Find, Begin, Live, MayTarget, user, session, throttle, history
<1>16. ASSUME HourPasses PROVE Fresh'
  BY <1>16 DEF HourPasses, user, session, throttle, history
<1>17. ASSUME UNCHANGED vars PROVE Fresh'
  BY <1>17 DEF vars, user, session, throttle, history
<1> QED
  BY <1>1, <1>2, <1>3, <1>4, <1>5, <1>6, <1>7, <1>8, <1>9, <1>10, <1>11, <1>12,
     <1>13, <1>14, <1>15, <1>16, <1>17 DEF Next

LEMMA DeletedStep ==
  ASSUME Typed, [Next]_vars, Fresh, DeletedStays
  PROVE  DeletedStays'
<1> USE NamesFacts DEF Typed, Fresh, DeletedStays, Live, OpsOK, SessionsOK, OpRec
<1>1. ASSUME NEW o \in Ops, LookUp(o)
      PROVE  DeletedStays'
  BY <1>1 DEF LookUp, Goes, user, session, throttle, history
<1>2. ASSUME NEW o \in Ops, Succeed(o)
      PROVE  DeletedStays'
  BY <1>2 DEF Succeed, Goes, user, session, throttle, history
<1>3. ASSUME NEW o \in Ops, CreateSession(o)
      PROVE  DeletedStays'
  BY <1>3 DEF CreateSession, Goes, user, session, throttle, history
<1>4. ASSUME NEW o \in Ops, Renew(o)
      PROVE  DeletedStays'
  BY <1>4 DEF Renew, Goes, Live, user, session, throttle, history
<1>5. ASSUME NEW o \in Ops, DeleteSession(o)
      PROVE  DeletedStays'
  <2>1. {op[o].session} \in SUBSET Names BY <1>5 DEF SessionsOf, Informed, DeleteSession
  <2>2. Deleted({op[o].session}) BY <1>5 DEF DeleteSession
  <2>3. /\ \A s \in Names : owner[s] = Nobody
              => owner'[s] = Nobody /\ (s \in ended' => s \in ended)
        /\ \A s \in (ended' \ ended) \cap Names : owner'[s] = Nobody
    BY <2>1, <2>2, DeletedFacts
  <2>4. ended' \subseteq Names BY SessionsStep DEF SessionsOK
  <2> QED BY <2>3, <2>4 DEF DeletedStays, Live
<1>6. ASSUME NEW o \in Ops, Visit(o)
      PROVE  DeletedStays'
  BY <1>6 DEF Visit, Goes, user, session, throttle, history
<1>7. ASSUME NEW o \in Ops, SetStatus(o)
      PROVE  DeletedStays'
  BY <1>7 DEF SetStatus, Goes, user, session, throttle, history
<1>8. ASSUME NEW o \in Ops, LogOutAll(o)
      PROVE  DeletedStays'
  <2>1. SessionsOf(op[o].target) \in SUBSET Names BY <1>8 DEF SessionsOf, Informed, LogOutAll
  <2>2. Deleted(SessionsOf(op[o].target)) BY <1>8 DEF LogOutAll
  <2>3. /\ \A s \in Names : owner[s] = Nobody
              => owner'[s] = Nobody /\ (s \in ended' => s \in ended)
        /\ \A s \in (ended' \ ended) \cap Names : owner'[s] = Nobody
    BY <2>1, <2>2, DeletedFacts
  <2>4. ended' \subseteq Names BY SessionsStep DEF SessionsOK
  <2> QED BY <2>3, <2>4 DEF DeletedStays, Live
<1>9. ASSUME NEW o \in Ops, CheckOwn(o)
      PROVE  DeletedStays'
  BY <1>9 DEF CheckOwn, Goes, user, session, throttle, history
<1>10. ASSUME NEW o \in Ops, SetPassword(o)
      PROVE  DeletedStays'
  BY <1>10 DEF SetPassword, user, session, throttle, history
<1>11. ASSUME NEW o \in Ops, Purge(o)
      PROVE  DeletedStays'
  <2>1. SessionsOf(op[o].target) \in SUBSET Names BY <1>11 DEF SessionsOf, Informed, Purge
  <2>2. Deleted(SessionsOf(op[o].target)) BY <1>11 DEF Purge
  <2>3. /\ \A s \in Names : owner[s] = Nobody
              => owner'[s] = Nobody /\ (s \in ended' => s \in ended)
        /\ \A s \in (ended' \ ended) \cap Names : owner'[s] = Nobody
    BY <2>1, <2>2, DeletedFacts
  <2>4. ended' \subseteq Names BY SessionsStep DEF SessionsOK
  <2> QED BY <2>3, <2>4 DEF DeletedStays, Live
<1>12. ASSUME NEW o \in Ops, Die(o)
      PROVE  DeletedStays'
  BY <1>12 DEF Die, Goes, user, session, throttle, history
<1>13. ASSUME NEW o \in Ops, NEW u \in Users, RecordAttempt(o, u)
      PROVE  DeletedStays'
  BY <1>13 DEF RecordAttempt, Begin, user, session, throttle, history
<1>14. ASSUME NEW o \in Ops, NEW s \in Names, Logout(o, s)
      PROVE  DeletedStays'
  BY <1>14 DEF Logout, Begin, Live, user, session, throttle, history
<1>15. ASSUME NEW o \in Ops, NEW s \in Names, NEW kind \in AdminKinds \cup {"visit",
            "change"}, NEW t \in Users, Find(o, s, kind, t)
      PROVE  DeletedStays'
  BY <1>15 DEF Find, Begin, Live, MayTarget, user, session, throttle, history
<1>16. ASSUME HourPasses PROVE DeletedStays'
  BY <1>16 DEF HourPasses, user, session, throttle, history
<1>17. ASSUME UNCHANGED vars PROVE DeletedStays'
  BY <1>17 DEF vars, user, session, throttle, history
<1> QED
  BY <1>1, <1>2, <1>3, <1>4, <1>5, <1>6, <1>7, <1>8, <1>9, <1>10, <1>11, <1>12,
     <1>13, <1>14, <1>15, <1>16, <1>17 DEF Next

LEMMA LoginsStep ==
  ASSUME Typed, [Next]_vars, Logins
  PROVE  Logins'
<1> USE NamesFacts DEF Typed, Logins, OpsOK, OpRec
<1>1. ASSUME NEW o \in Ops, LookUp(o)
      PROVE  Logins'
  <2>1. /\ op'[o].pc \in {"verified", "refused"} /\ op'[o].kind = op[o].kind
        /\ op'[o].user = op[o].user /\ op'[o].target = op[o].target
        /\ \A p \in Ops \ {o} : op'[p] = op[p]
    BY <1>1, LookUpTo
  <2>2. UNCHANGED <<user, owner, history>> /\ op[o].pc = "look up" BY <1>1 DEF LookUp, session
  <2> QED BY <2>1, <2>2 DEF user, history
<1>2. ASSUME NEW o \in Ops, Succeed(o)
      PROVE  Logins'
  BY ZenonT(40), <1>2 DEF Succeed, Goes, user, session, throttle, history
<1>3. ASSUME NEW o \in Ops, CreateSession(o)
      PROVE  Logins'
  BY <1>3 DEF CreateSession, Goes, user, session, throttle, history
<1>4. ASSUME NEW o \in Ops, Renew(o)
      PROVE  Logins'
  <2>1. \E pc \in {"act", "died"} : Goes(o, pc) BY <1>4 DEF Renew, Goes, OpsOK
  <2>2. /\ op'[o].pc \in {"act", "died"} /\ op'[o].kind = op[o].kind /\ op'[o].user = op[o].user
        /\ op'[o].target = op[o].target /\ op'[o].password = op[o].password
        /\ op[o].pc \in {"renew", "act"}
    BY <1>4, <2>1, GoesTo DEF Renew
  <2>3. \A p \in Ops \ {o} : op'[p] = op[p] BY <2>1, GoesTo
  <2>4. UNCHANGED <<user, owner, history>> BY <1>4 DEF Renew, session
  <2> QED BY <2>2, <2>3, <2>4 DEF user, history
<1>5. ASSUME NEW o \in Ops, DeleteSession(o)
      PROVE  Logins'
  BY <1>5 DEF DeleteSession, Goes, Deleted, Live, user, session, throttle, history
<1>6. ASSUME NEW o \in Ops, Visit(o)
      PROVE  Logins'
  BY <1>6 DEF Visit, Goes, user, session, throttle, history
<1>7. ASSUME NEW o \in Ops, SetStatus(o)
      PROVE  Logins'
  BY <1>7 DEF SetStatus, Goes, user, session, throttle, history
<1>8. ASSUME NEW o \in Ops, LogOutAll(o)
      PROVE  Logins'
  BY <1>8 DEF LogOutAll, Goes, Deleted, Live, user, session, throttle, history
<1>9. ASSUME NEW o \in Ops, CheckOwn(o)
      PROVE  Logins'
  <2>1. \E pc \in {"checked", "refused"} : Goes(o, pc) BY <1>9 DEF CheckOwn, Goes, OpsOK
  <2>2. /\ op'[o].pc \in {"checked", "refused"} /\ op'[o].kind = op[o].kind /\ op'[o].user = op[o].user
        /\ op'[o].target = op[o].target /\ op'[o].password = op[o].password
        /\ op[o].pc \in {"renew", "act"}
    BY <1>9, <2>1, GoesTo DEF CheckOwn
  <2>3. \A p \in Ops \ {o} : op'[p] = op[p] BY <2>1, GoesTo
  <2>4. UNCHANGED <<user, owner, history>> BY <1>9 DEF CheckOwn, session
  <2> QED BY <2>2, <2>3, <2>4 DEF user, history
<1>10. ASSUME NEW o \in Ops, SetPassword(o)
      PROVE  Logins'
  <2>1. /\ op'[o].pc \in {"purge", "done"} /\ op'[o].kind = op[o].kind
        /\ op'[o].user = op[o].user /\ op'[o].target = op[o].target
        /\ \A p \in Ops \ {o} : op'[p] = op[p]
    BY <1>10, SetPasswordTo
  <2>2. UNCHANGED <<owner, history>> BY <1>10 DEF SetPassword, session
  <2> QED BY <2>1, <2>2 DEF history
<1>11. ASSUME NEW o \in Ops, Purge(o)
      PROVE  Logins'
  BY <1>11 DEF Purge, Goes, Deleted, Live, user, session, throttle, history
<1>12. ASSUME NEW o \in Ops, Die(o)
      PROVE  Logins'
  BY ZenonT(40), <1>12 DEF Die, Goes, user, session, throttle, history
<1>13. ASSUME NEW o \in Ops, NEW u \in Users, RecordAttempt(o, u)
      PROVE  Logins'
  BY <1>13 DEF RecordAttempt, Begin, user, session, throttle, history
<1>14. ASSUME NEW o \in Ops, NEW s \in Names, Logout(o, s)
      PROVE  Logins'
  BY <1>14 DEF Logout, Begin, Live, user, session, throttle, history
<1>15. ASSUME NEW o \in Ops, NEW s \in Names, NEW kind \in AdminKinds \cup {"visit",
            "change"}, NEW t \in Users, Find(o, s, kind, t)
      PROVE  Logins'
  BY <1>15 DEF Find, Begin, Live, MayTarget, user, session, throttle, history
<1>16. ASSUME HourPasses PROVE Logins'
  BY <1>16 DEF HourPasses, user, session, throttle, history
<1>17. ASSUME UNCHANGED vars PROVE Logins'
  BY <1>17 DEF vars, user, session, throttle, history
<1> QED
  BY <1>1, <1>2, <1>3, <1>4, <1>5, <1>6, <1>7, <1>8, <1>9, <1>10, <1>11, <1>12,
     <1>13, <1>14, <1>15, <1>16, <1>17 DEF Next

LEMMA DisablingStep ==
  ASSUME Typed, [Next]_vars, Disabling
  PROVE  Disabling'
<1> USE NamesFacts DEF Typed, Disabling, OpsOK, OpRec, AdminKinds
<1>1. ASSUME NEW o \in Ops, LookUp(o)
      PROVE  Disabling'
  <2>1. /\ op'[o].pc \in {"verified", "refused"} /\ op'[o].kind = op[o].kind
        /\ op'[o].user = op[o].user /\ op'[o].target = op[o].target
        /\ \A p \in Ops \ {o} : op'[p] = op[p]
    BY <1>1, LookUpTo
  <2>2. UNCHANGED <<user, owner, history>> /\ op[o].pc = "look up" BY <1>1 DEF LookUp, session
  <2> QED BY <2>1, <2>2 DEF user, history
<1>2. ASSUME NEW o \in Ops, Succeed(o)
      PROVE  Disabling'
  BY <1>2 DEF Succeed, Goes, user, session, throttle, history
<1>3. ASSUME NEW o \in Ops, CreateSession(o)
      PROVE  Disabling'
  BY <1>3 DEF CreateSession, Goes, user, session, throttle, history
<1>4. ASSUME NEW o \in Ops, Renew(o)
      PROVE  Disabling'
  <2>1. \E pc \in {"act", "died"} : Goes(o, pc) BY <1>4 DEF Renew, Goes, OpsOK
  <2>2. /\ op'[o].pc \in {"act", "died"} /\ op'[o].kind = op[o].kind /\ op'[o].user = op[o].user
        /\ op'[o].target = op[o].target /\ op'[o].password = op[o].password
        /\ op[o].pc \in {"renew", "act"}
    BY <1>4, <2>1, GoesTo DEF Renew
  <2>3. \A p \in Ops \ {o} : op'[p] = op[p] BY <2>1, GoesTo
  <2>4. UNCHANGED <<user, owner, history>> BY <1>4 DEF Renew, session
  <2> QED BY <2>2, <2>3, <2>4 DEF user, history
<1>5. ASSUME NEW o \in Ops, DeleteSession(o)
      PROVE  Disabling'
  BY <1>5 DEF DeleteSession, Goes, Deleted, Live, user, session, throttle, history
<1>6. ASSUME NEW o \in Ops, Visit(o)
      PROVE  Disabling'
  BY <1>6 DEF Visit, Goes, user, session, throttle, history
<1>7. ASSUME NEW o \in Ops, SetStatus(o)
      PROVE  Disabling'
  BY <1>7 DEF SetStatus, Goes, user, session, throttle, history
<1>8. ASSUME NEW o \in Ops, LogOutAll(o)
      PROVE  Disabling'
  BY ZenonT(40), <1>8 DEF LogOutAll, Goes, Deleted, Live, user, session, throttle, history
<1>9. ASSUME NEW o \in Ops, CheckOwn(o)
      PROVE  Disabling'
  <2>1. \E pc \in {"checked", "refused"} : Goes(o, pc) BY <1>9 DEF CheckOwn, Goes, OpsOK
  <2>2. /\ op'[o].pc \in {"checked", "refused"} /\ op'[o].kind = op[o].kind /\ op'[o].user = op[o].user
        /\ op'[o].target = op[o].target /\ op'[o].password = op[o].password
        /\ op[o].pc \in {"renew", "act"}
    BY <1>9, <2>1, GoesTo DEF CheckOwn
  <2>3. \A p \in Ops \ {o} : op'[p] = op[p] BY <2>1, GoesTo
  <2>4. UNCHANGED <<user, owner, history>> BY <1>9 DEF CheckOwn, session
  <2> QED BY <2>2, <2>3, <2>4 DEF user, history
<1>10. ASSUME NEW o \in Ops, SetPassword(o)
      PROVE  Disabling'
  <2>1. /\ op'[o].pc \in {"purge", "done"} /\ op'[o].kind = op[o].kind
        /\ op'[o].user = op[o].user /\ op'[o].target = op[o].target
        /\ \A p \in Ops \ {o} : op'[p] = op[p]
    BY <1>10, SetPasswordTo
  <2>2. UNCHANGED <<owner, history>> BY <1>10 DEF SetPassword, session
  <2> QED BY <2>1, <2>2 DEF history
<1>11. ASSUME NEW o \in Ops, Purge(o)
      PROVE  Disabling'
  BY <1>11 DEF Purge, Goes, Deleted, Live, user, session, throttle, history
<1>12. ASSUME NEW o \in Ops, Die(o)
      PROVE  Disabling'
  BY <1>12 DEF Die, Goes, user, session, throttle, history
<1>13. ASSUME NEW o \in Ops, NEW u \in Users, RecordAttempt(o, u)
      PROVE  Disabling'
  BY <1>13 DEF RecordAttempt, Begin, user, session, throttle, history
<1>14. ASSUME NEW o \in Ops, NEW s \in Names, Logout(o, s)
      PROVE  Disabling'
  BY <1>14 DEF Logout, Begin, Live, user, session, throttle, history
<1>15. ASSUME NEW o \in Ops, NEW s \in Names, NEW kind \in AdminKinds \cup {"visit",
            "change"}, NEW t \in Users, Find(o, s, kind, t)
      PROVE  Disabling'
  BY <1>15 DEF Find, Begin, Live, MayTarget, user, session, throttle, history
<1>16. ASSUME HourPasses PROVE Disabling'
  BY <1>16 DEF HourPasses, user, session, throttle, history
<1>17. ASSUME UNCHANGED vars PROVE Disabling'
  BY <1>17 DEF vars, user, session, throttle, history
<1> QED
  BY <1>1, <1>2, <1>3, <1>4, <1>5, <1>6, <1>7, <1>8, <1>9, <1>10, <1>11, <1>12,
     <1>13, <1>14, <1>15, <1>16, <1>17 DEF Next

LEMMA NotYetStep ==
  ASSUME Typed, [Next]_vars, NotYet
  PROVE  NotYet'
<1> USE NamesFacts DEF Typed, NotYet, OpsOK, OpRec
<1>1. ASSUME NEW o \in Ops, LookUp(o)
      PROVE  NotYet'
  <2>1. /\ op'[o].pc \in {"verified", "refused"} /\ op'[o].kind = op[o].kind
        /\ op'[o].user = op[o].user /\ op'[o].target = op[o].target
        /\ \A p \in Ops \ {o} : op'[p] = op[p]
    BY <1>1, LookUpTo
  <2>2. UNCHANGED <<user, owner, history>> /\ op[o].pc = "look up" BY <1>1 DEF LookUp, session
  <2> QED BY <2>1, <2>2 DEF user, history
<1>2. ASSUME NEW o \in Ops, Succeed(o)
      PROVE  NotYet'
  BY ZenonT(40), <1>2 DEF Succeed, Goes, user, session, throttle, history
<1>3. ASSUME NEW o \in Ops, CreateSession(o)
      PROVE  NotYet'
  BY ZenonT(40), <1>3 DEF CreateSession, Goes, user, session, throttle, history
<1>4. ASSUME NEW o \in Ops, Renew(o)
      PROVE  NotYet'
  <2>1. \E pc \in {"act", "died"} : Goes(o, pc) BY <1>4 DEF Renew, Goes, OpsOK
  <2>2. /\ op'[o].pc \in {"act", "died"} /\ op'[o].kind = op[o].kind /\ op'[o].user = op[o].user
        /\ op'[o].target = op[o].target /\ op'[o].password = op[o].password
        /\ op[o].pc \in {"renew", "act"}
    BY <1>4, <2>1, GoesTo DEF Renew
  <2>3. \A p \in Ops \ {o} : op'[p] = op[p] BY <2>1, GoesTo
  <2>4. UNCHANGED <<user, owner, history>> BY <1>4 DEF Renew, session
  <2> QED BY <2>2, <2>3, <2>4 DEF user, history
<1>5. ASSUME NEW o \in Ops, DeleteSession(o)
      PROVE  NotYet'
  BY ZenonT(40), <1>5 DEF DeleteSession, Goes, Deleted, Live, user, session, throttle, history
<1>6. ASSUME NEW o \in Ops, Visit(o)
      PROVE  NotYet'
  BY ZenonT(40), <1>6 DEF Visit, Goes, user, session, throttle, history
<1>7. ASSUME NEW o \in Ops, SetStatus(o)
      PROVE  NotYet'
  BY ZenonT(40), <1>7 DEF SetStatus, Goes, user, session, throttle, history
<1>8. ASSUME NEW o \in Ops, LogOutAll(o)
      PROVE  NotYet'
  BY ZenonT(40), <1>8 DEF LogOutAll, Goes, Deleted, Live, user, session, throttle, history
<1>9. ASSUME NEW o \in Ops, CheckOwn(o)
      PROVE  NotYet'
  <2>1. \E pc \in {"checked", "refused"} : Goes(o, pc) BY <1>9 DEF CheckOwn, Goes, OpsOK
  <2>2. /\ op'[o].pc \in {"checked", "refused"} /\ op'[o].kind = op[o].kind /\ op'[o].user = op[o].user
        /\ op'[o].target = op[o].target /\ op'[o].password = op[o].password
        /\ op[o].pc \in {"renew", "act"}
    BY <1>9, <2>1, GoesTo DEF CheckOwn
  <2>3. \A p \in Ops \ {o} : op'[p] = op[p] BY <2>1, GoesTo
  <2>4. UNCHANGED <<user, owner, history>> BY <1>9 DEF CheckOwn, session
  <2> QED BY <2>2, <2>3, <2>4 DEF user, history
<1>10. ASSUME NEW o \in Ops, SetPassword(o)
      PROVE  NotYet'
  <2>1. /\ op'[o].pc \in {"purge", "done"} /\ op'[o].kind = op[o].kind
        /\ op'[o].user = op[o].user /\ op'[o].target = op[o].target
        /\ \A p \in Ops \ {o} : op'[p] = op[p]
    BY <1>10, SetPasswordTo
  <2>2. UNCHANGED <<owner, history>> BY <1>10 DEF SetPassword, session
  <2> QED BY <2>1, <2>2 DEF history
<1>11. ASSUME NEW o \in Ops, Purge(o)
      PROVE  NotYet'
  BY ZenonT(40), <1>11 DEF Purge, Goes, Deleted, Live, user, session, throttle, history
<1>12. ASSUME NEW o \in Ops, Die(o)
      PROVE  NotYet'
  BY ZenonT(40), <1>12 DEF Die, Goes, user, session, throttle, history
<1>13. ASSUME NEW o \in Ops, NEW u \in Users, RecordAttempt(o, u)
      PROVE  NotYet'
  BY <1>13 DEF RecordAttempt, Begin, user, session, throttle, history
<1>14. ASSUME NEW o \in Ops, NEW s \in Names, Logout(o, s)
      PROVE  NotYet'
  BY <1>14 DEF Logout, Begin, Live, user, session, throttle, history
<1>15. ASSUME NEW o \in Ops, NEW s \in Names, NEW kind \in AdminKinds \cup {"visit",
            "change"}, NEW t \in Users, Find(o, s, kind, t)
      PROVE  NotYet'
  BY ZenonT(40), <1>15 DEF Find, Begin, Live, MayTarget, user, session, throttle, history
<1>16. ASSUME HourPasses PROVE NotYet'
  BY <1>16 DEF HourPasses, user, session, throttle, history
<1>17. ASSUME UNCHANGED vars PROVE NotYet'
  BY <1>17 DEF vars, user, session, throttle, history
<1> QED
  BY <1>1, <1>2, <1>3, <1>4, <1>5, <1>6, <1>7, <1>8, <1>9, <1>10, <1>11, <1>12,
     <1>13, <1>14, <1>15, <1>16, <1>17 DEF Next

LEMMA AdminStep ==
  ASSUME Typed, [Next]_vars, Disabling, AdminRemains
  PROVE  AdminRemains'
<1> USE NamesFacts DEF Typed, Disabling, AdminRemains, OpsOK, UsersOK, HistoryOK, OpRec
<1>1. ASSUME NEW o \in Ops, LookUp(o)
      PROVE  AdminRemains'
  BY <1>1 DEF LookUp, Goes, user, session, throttle, history
<1>2. ASSUME NEW o \in Ops, Succeed(o)
      PROVE  AdminRemains'
  BY <1>2 DEF Succeed, Goes, user, session, throttle, history
<1>3. ASSUME NEW o \in Ops, CreateSession(o)
      PROVE  AdminRemains'
  BY <1>3 DEF CreateSession, Goes, user, session, throttle, history
<1>4. ASSUME NEW o \in Ops, Renew(o)
      PROVE  AdminRemains'
  BY <1>4 DEF Renew, Goes, Live, user, session, throttle, history
<1>5. ASSUME NEW o \in Ops, DeleteSession(o)
      PROVE  AdminRemains'
  BY <1>5 DEF DeleteSession, Goes, Deleted, Live, user, session, throttle, history
<1>6. ASSUME NEW o \in Ops, Visit(o)
      PROVE  AdminRemains'
  BY <1>6 DEF Visit, Goes, user, session, throttle, history
<1>7. ASSUME NEW o \in Ops, SetStatus(o)
      PROVE  AdminRemains'
  BY <1>7 DEF SetStatus, Goes, user, session, throttle, history
<1>8. ASSUME NEW o \in Ops, LogOutAll(o)
      PROVE  AdminRemains'
  BY <1>8 DEF LogOutAll, Goes, Deleted, Live, user, session, throttle, history
<1>9. ASSUME NEW o \in Ops, CheckOwn(o)
      PROVE  AdminRemains'
  BY <1>9 DEF CheckOwn, Goes, user, session, throttle, history
<1>10. ASSUME NEW o \in Ops, SetPassword(o)
      PROVE  AdminRemains'
  BY <1>10 DEF SetPassword, user, session, throttle, history
<1>11. ASSUME NEW o \in Ops, Purge(o)
      PROVE  AdminRemains'
  BY <1>11 DEF Purge, Goes, Deleted, Live, user, session, throttle, history
<1>12. ASSUME NEW o \in Ops, Die(o)
      PROVE  AdminRemains'
  BY <1>12 DEF Die, Goes, user, session, throttle, history
<1>13. ASSUME NEW o \in Ops, NEW u \in Users, RecordAttempt(o, u)
      PROVE  AdminRemains'
  BY <1>13 DEF RecordAttempt, Begin, user, session, throttle, history
<1>14. ASSUME NEW o \in Ops, NEW s \in Names, Logout(o, s)
      PROVE  AdminRemains'
  BY <1>14 DEF Logout, Begin, Live, user, session, throttle, history
<1>15. ASSUME NEW o \in Ops, NEW s \in Names, NEW kind \in AdminKinds \cup {"visit",
            "change"}, NEW t \in Users, Find(o, s, kind, t)
      PROVE  AdminRemains'
  BY <1>15 DEF Find, Begin, Live, MayTarget, user, session, throttle, history
<1>16. ASSUME HourPasses PROVE AdminRemains'
  BY <1>16 DEF HourPasses, user, session, throttle, history
<1>17. ASSUME UNCHANGED vars PROVE AdminRemains'
  BY <1>17 DEF vars, user, session, throttle, history
<1> QED
  BY <1>1, <1>2, <1>3, <1>4, <1>5, <1>6, <1>7, <1>8, <1>9, <1>10, <1>11, <1>12,
     <1>13, <1>14, <1>15, <1>16, <1>17 DEF Next

\* A request that keeps its password and its target, or had set none, takes
\* nothing from what others had.
LEMMA PresentKept ==
  ASSUME PresentNotOutdated, UNCHANGED <<password, outdated>>, NEW o \in Ops,
         \A p \in Ops \ {o} : op'[p] = op[p],
         \/ op[o].password # o
         \/ op'[o].password = op[o].password /\ op'[o].target = op[o].target
  PROVE  PresentNotOutdated'
<1>1. \A w, t : Ever(w, t) => Ever(w, t)' BY DEF Ever
<1> QED BY <1>1 DEF PresentNotOutdated

LEMMA VerifiedKept ==
  ASSUME VerifiedInv, UNCHANGED <<outdated, straggler>>, NEW o \in Ops,
         \A p \in Ops \ {o} : op'[p] = op[p],
         \/ op'[o].pc \notin {"verified", "create"}
         \/ op[o].pc = "verified" /\ op'[o].user = op[o].user /\ op'[o].password = op[o].password
  PROVE  VerifiedInv'
BY DEF VerifiedInv

LEMMA PresentStep ==
  ASSUME Typed, [Next]_vars, NotYet, PresentNotOutdated
  PROVE  PresentNotOutdated'
<1> UsersOK /\ SessionsOK /\ OpsOK /\ HistoryOK BY DEF Typed
<1> USE NamesFacts
<1>1. ASSUME NEW o \in Ops, LookUp(o)
      PROVE  PresentNotOutdated'
  <2>1. op[o].password # o /\ UNCHANGED <<password, outdated>>
    BY <1>1 DEF LookUp, NotYet, user, history
  <2>2. \A p \in Ops \ {o} : op'[p] = op[p] BY <1>1, LookUpTo
  <2> QED BY <2>1, <2>2, PresentKept
<1>2. ASSUME NEW o \in Ops, Succeed(o)
      PROVE  PresentNotOutdated'
  <2>1. PICK pc \in {"create"} : Goes(o, pc) BY <1>2 DEF Succeed, Goes, OpsOK
  <2>2. UNCHANGED <<password, outdated>> BY <1>2 DEF Succeed, user, history
  <2>3. /\ op'[o].pc = pc /\ op'[o].user = op[o].user /\ op'[o].target = op[o].target
        /\ op'[o].password = op[o].password /\ \A p \in Ops \ {o} : op'[p] = op[p]
    BY <2>1, GoesTo
  <2> QED BY <2>2, <2>3, PresentKept
<1>3. ASSUME NEW o \in Ops, CreateSession(o)
      PROVE  PresentNotOutdated'
  <2>1. PICK pc \in {"done"} : Goes(o, pc) BY <1>3 DEF CreateSession, Goes, OpsOK
  <2>2. UNCHANGED <<password, outdated>> BY <1>3 DEF CreateSession, user, history
  <2>3. /\ op'[o].pc = pc /\ op'[o].user = op[o].user /\ op'[o].target = op[o].target
        /\ op'[o].password = op[o].password /\ \A p \in Ops \ {o} : op'[p] = op[p]
    BY <2>1, GoesTo
  <2> QED BY <2>2, <2>3, PresentKept
<1>4. ASSUME NEW o \in Ops, Renew(o)
      PROVE  PresentNotOutdated'
  <2>1. PICK pc \in {"act", "died"} : Goes(o, pc) BY <1>4 DEF Renew, Goes, OpsOK
  <2>2. UNCHANGED <<password, outdated>> BY <1>4 DEF Renew, user, history
  <2>3. /\ op'[o].pc = pc /\ op'[o].user = op[o].user /\ op'[o].target = op[o].target
        /\ op'[o].password = op[o].password /\ \A p \in Ops \ {o} : op'[p] = op[p]
    BY <2>1, GoesTo
  <2> QED BY <2>2, <2>3, PresentKept
<1>5. ASSUME NEW o \in Ops, DeleteSession(o)
      PROVE  PresentNotOutdated'
  <2>1. PICK pc \in {"done"} : Goes(o, pc) BY <1>5 DEF DeleteSession, Goes, OpsOK
  <2>2. UNCHANGED <<password, outdated>> BY <1>5 DEF DeleteSession, user, history
  <2>3. /\ op'[o].pc = pc /\ op'[o].user = op[o].user /\ op'[o].target = op[o].target
        /\ op'[o].password = op[o].password /\ \A p \in Ops \ {o} : op'[p] = op[p]
    BY <2>1, GoesTo
  <2> QED BY <2>2, <2>3, PresentKept
<1>6. ASSUME NEW o \in Ops, Visit(o)
      PROVE  PresentNotOutdated'
  <2>1. PICK pc \in {"done"} : Goes(o, pc) BY <1>6 DEF Visit, Goes, OpsOK
  <2>2. UNCHANGED <<password, outdated>> BY <1>6 DEF Visit, user, history
  <2>3. /\ op'[o].pc = pc /\ op'[o].user = op[o].user /\ op'[o].target = op[o].target
        /\ op'[o].password = op[o].password /\ \A p \in Ops \ {o} : op'[p] = op[p]
    BY <2>1, GoesTo
  <2> QED BY <2>2, <2>3, PresentKept
<1>7. ASSUME NEW o \in Ops, SetStatus(o)
      PROVE  PresentNotOutdated'
  <2>1. PICK pc \in {"done"} : Goes(o, pc) BY <1>7 DEF SetStatus, Goes, OpsOK
  <2>2. UNCHANGED <<password, outdated>> BY <1>7 DEF SetStatus, user, history
  <2>3. /\ op'[o].pc = pc /\ op'[o].user = op[o].user /\ op'[o].target = op[o].target
        /\ op'[o].password = op[o].password /\ \A p \in Ops \ {o} : op'[p] = op[p]
    BY <2>1, GoesTo
  <2> QED BY <2>2, <2>3, PresentKept
<1>8. ASSUME NEW o \in Ops, LogOutAll(o)
      PROVE  PresentNotOutdated'
  <2>1. PICK pc \in {"done"} : Goes(o, pc) BY <1>8 DEF LogOutAll, Goes, OpsOK
  <2>2. UNCHANGED <<password, outdated>> BY <1>8 DEF LogOutAll, user, history
  <2>3. /\ op'[o].pc = pc /\ op'[o].user = op[o].user /\ op'[o].target = op[o].target
        /\ op'[o].password = op[o].password /\ \A p \in Ops \ {o} : op'[p] = op[p]
    BY <2>1, GoesTo
  <2> QED BY <2>2, <2>3, PresentKept
<1>9. ASSUME NEW o \in Ops, CheckOwn(o)
      PROVE  PresentNotOutdated'
  <2>1. PICK pc \in {"checked", "refused"} : Goes(o, pc) BY <1>9 DEF CheckOwn, Goes, OpsOK
  <2>2. UNCHANGED <<password, outdated>> BY <1>9 DEF CheckOwn, user, history
  <2>3. /\ op'[o].pc = pc /\ op'[o].user = op[o].user /\ op'[o].target = op[o].target
        /\ op'[o].password = op[o].password /\ \A p \in Ops \ {o} : op'[p] = op[p]
    BY <2>1, GoesTo
  <2> QED BY <2>2, <2>3, PresentKept
<1>10. ASSUME NEW o \in Ops, SetPassword(o)
      PROVE  PresentNotOutdated'
  <2> DEFINE t == op[o].target
  <2>1. op[o].password # o BY <1>10 DEF SetPassword, NotYet
  <2>2. /\ op'[o].password = o /\ op'[o].target = t /\ \A p \in Ops \ {o} : op'[p] = op[p]
    BY <1>10, SetPasswordTo
  <2>3. password' = [password EXCEPT ![t] = o] /\ outdated' = outdated
    BY <1>10 DEF SetPassword, history
  <2>4. \A w, u : Ever(w, u) => Ever(w, u)' BY <2>1, <2>2 DEF Ever
  <2>5. ASSUME NEW u \in Users, u # t
        PROVE  /\ Ever(password[u], u)' /\ password'[u] \notin outdated'[u]
               /\ \A w \in outdated'[u] : Ever(w, u)'
    <3>1. password'[u] = password[u] BY <2>3, <2>5 DEF UsersOK
    <3> QED BY <2>3, <2>4, <3>1 DEF PresentNotOutdated
  <2>6. ASSUME t \in Users
        PROVE  /\ Ever(password[t], t)' /\ password'[t] \notin outdated'[t]
               /\ \A w \in outdated'[t] : Ever(w, t)'
    <3>1. password'[t] = o BY <2>3, <2>6 DEF UsersOK
    <3>2. Ever(o, t)' BY <2>2 DEF Ever
    <3>3. ~Ever(o, t) BY <2>1, <2>6 DEF Ever
    <3>4. o \notin outdated[t] BY <3>3, <2>6 DEF PresentNotOutdated
    <3> QED BY <2>2, <2>3, <2>4, <2>6, <3>1, <3>2, <3>4 DEF PresentNotOutdated, Ever
  <2> QED BY <2>2, <2>5, <2>6 DEF PresentNotOutdated, Ever
<1>11. ASSUME NEW o \in Ops, Purge(o)
      PROVE  PresentNotOutdated'
  <2> DEFINE t == op[o].target
  <2>1. Goes(o, "done") BY <1>11 DEF Purge
  <2>2. /\ op'[o].target = op[o].target /\ op'[o].password = op[o].password
        /\ \A p \in Ops \ {o} : op'[p] = op[p]
    BY <2>1, GoesTo
  <2>3. \A w, u : Ever(w, u) => Ever(w, u)' BY <2>2 DEF Ever
  <2>4. password' = password /\ outdated' = [outdated EXCEPT ![t] = Replaced(t)]
    BY <1>11 DEF Purge, user
  <2>5. \A w \in Replaced(t) : Ever(w, t) /\ w # password[t] BY DEF Replaced, Ever
  <2>6. \A u \in Users : outdated'[u] = IF u = t THEN Replaced(t) ELSE outdated[u]
    BY <2>4 DEF HistoryOK
  <2> QED BY <2>3, <2>4, <2>5, <2>6 DEF PresentNotOutdated
<1>12. ASSUME NEW o \in Ops, Die(o)
      PROVE  PresentNotOutdated'
  <2>1. PICK pc \in {"died"} : Goes(o, pc) BY <1>12 DEF Die, Goes, OpsOK
  <2>2. UNCHANGED <<password, outdated>> BY <1>12 DEF Die, user, history
  <2>3. /\ op'[o].pc = pc /\ op'[o].user = op[o].user /\ op'[o].target = op[o].target
        /\ op'[o].password = op[o].password /\ \A p \in Ops \ {o} : op'[p] = op[p]
    BY <2>1, GoesTo
  <2> QED BY <2>2, <2>3, PresentKept
<1>13. ASSUME NEW o \in Ops, NEW u \in Users, RecordAttempt(o, u)
      PROVE  PresentNotOutdated'
  <2>1. op[o].password # o /\ UNCHANGED <<password, outdated>> BY <1>13 DEF RecordAttempt, NotYet, user, history
  <2>2. \A p \in Ops \ {o} : op'[p] = op[p] BY <1>13 DEF RecordAttempt
  <2> QED BY <2>1, <2>2, PresentKept
<1>14. ASSUME NEW o \in Ops, NEW s \in Names, Logout(o, s)
      PROVE  PresentNotOutdated'
  <2>1. op[o].password # o /\ UNCHANGED <<password, outdated>> BY <1>14 DEF Logout, NotYet, user, history
  <2>2. \A p \in Ops \ {o} : op'[p] = op[p] BY <1>14 DEF Logout
  <2> QED BY <2>1, <2>2, PresentKept
<1>15. ASSUME NEW o \in Ops, NEW s \in Names, NEW kind \in AdminKinds \cup {"visit",
            "change"}, NEW t \in Users, Find(o, s, kind, t)
      PROVE  PresentNotOutdated'
  <2>1. op[o].password # o /\ UNCHANGED <<password, outdated>> BY <1>15 DEF Find, NotYet, user, history
  <2>2. \A p \in Ops \ {o} : op'[p] = op[p] BY <1>15 DEF Find
  <2> QED BY <2>1, <2>2, PresentKept
<1>16. ASSUME HourPasses PROVE PresentNotOutdated'
  BY <1>16 DEF HourPasses, PresentNotOutdated, Ever, user, history
<1>17. ASSUME UNCHANGED vars PROVE PresentNotOutdated'
  BY <1>17 DEF vars, PresentNotOutdated, Ever, user, history
<1> QED
  BY <1>1, <1>2, <1>3, <1>4, <1>5, <1>6, <1>7, <1>8, <1>9, <1>10, <1>11, <1>12,
     <1>13, <1>14, <1>15, <1>16, <1>17 DEF Next

LEMMA VerifiedStep ==
  ASSUME Typed, [Next]_vars, Logins, PresentNotOutdated, VerifiedInv
  PROVE  VerifiedInv'
<1> UsersOK /\ SessionsOK /\ OpsOK /\ HistoryOK /\ Informed BY DEF Typed
<1> USE NamesFacts
<1>1. ASSUME NEW o \in Ops, LookUp(o)
      PROVE  VerifiedInv'
  <2>1. op[o].user \in Users /\ UNCHANGED <<outdated, straggler>>
    BY <1>1 DEF LookUp, Informed, history
  <2>2. /\ op'[o].pc \in {"verified", "refused"} /\ op'[o].user = op[o].user
        /\ op'[o].pc = "verified" => op'[o].password = password[op[o].user]
        /\ \A p \in Ops \ {o} : op'[p] = op[p]
    BY <1>1, LookUpTo
  <2>3. password[op[o].user] \notin outdated[op[o].user] BY <2>1 DEF PresentNotOutdated
  <2> QED BY <2>1, <2>2, <2>3 DEF VerifiedInv
<1>2. ASSUME NEW o \in Ops, Succeed(o)
      PROVE  VerifiedInv'
  <2>1. PICK pc \in {"create"} : Goes(o, pc) BY <1>2 DEF Succeed, Goes, OpsOK
  <2>2. UNCHANGED <<outdated, straggler>> /\ op[o].pc = "verified" BY <1>2 DEF Succeed, user, history
  <2>3. /\ op'[o].pc = pc /\ op'[o].user = op[o].user /\ op'[o].target = op[o].target
        /\ op'[o].password = op[o].password /\ \A p \in Ops \ {o} : op'[p] = op[p]
    BY <2>1, GoesTo
  <2> QED BY <2>2, <2>3, VerifiedKept
<1>3. ASSUME NEW o \in Ops, CreateSession(o)
      PROVE  VerifiedInv'
  <2>1. PICK pc \in {"done"} : Goes(o, pc) BY <1>3 DEF CreateSession, Goes, OpsOK
  <2>2. UNCHANGED <<outdated, straggler>> BY <1>3 DEF CreateSession, user, history
  <2>3. /\ op'[o].pc = pc /\ op'[o].user = op[o].user /\ op'[o].target = op[o].target
        /\ op'[o].password = op[o].password /\ \A p \in Ops \ {o} : op'[p] = op[p]
    BY <2>1, GoesTo
  <2> QED BY <2>2, <2>3, VerifiedKept
<1>4. ASSUME NEW o \in Ops, Renew(o)
      PROVE  VerifiedInv'
  <2>1. PICK pc \in {"act", "died"} : Goes(o, pc) BY <1>4 DEF Renew, Goes, OpsOK
  <2>2. UNCHANGED <<outdated, straggler>> BY <1>4 DEF Renew, user, history
  <2>3. /\ op'[o].pc = pc /\ op'[o].user = op[o].user /\ op'[o].target = op[o].target
        /\ op'[o].password = op[o].password /\ \A p \in Ops \ {o} : op'[p] = op[p]
    BY <2>1, GoesTo
  <2> QED BY <2>2, <2>3, VerifiedKept
<1>5. ASSUME NEW o \in Ops, DeleteSession(o)
      PROVE  VerifiedInv'
  <2>1. PICK pc \in {"done"} : Goes(o, pc) BY <1>5 DEF DeleteSession, Goes, OpsOK
  <2>2. UNCHANGED <<outdated, straggler>> BY <1>5 DEF DeleteSession, user, history
  <2>3. /\ op'[o].pc = pc /\ op'[o].user = op[o].user /\ op'[o].target = op[o].target
        /\ op'[o].password = op[o].password /\ \A p \in Ops \ {o} : op'[p] = op[p]
    BY <2>1, GoesTo
  <2> QED BY <2>2, <2>3, VerifiedKept
<1>6. ASSUME NEW o \in Ops, Visit(o)
      PROVE  VerifiedInv'
  <2>1. PICK pc \in {"done"} : Goes(o, pc) BY <1>6 DEF Visit, Goes, OpsOK
  <2>2. UNCHANGED <<outdated, straggler>> BY <1>6 DEF Visit, user, history
  <2>3. /\ op'[o].pc = pc /\ op'[o].user = op[o].user /\ op'[o].target = op[o].target
        /\ op'[o].password = op[o].password /\ \A p \in Ops \ {o} : op'[p] = op[p]
    BY <2>1, GoesTo
  <2> QED BY <2>2, <2>3, VerifiedKept
<1>7. ASSUME NEW o \in Ops, SetStatus(o)
      PROVE  VerifiedInv'
  <2>1. PICK pc \in {"done"} : Goes(o, pc) BY <1>7 DEF SetStatus, Goes, OpsOK
  <2>2. UNCHANGED <<outdated, straggler>> BY <1>7 DEF SetStatus, user, history
  <2>3. /\ op'[o].pc = pc /\ op'[o].user = op[o].user /\ op'[o].target = op[o].target
        /\ op'[o].password = op[o].password /\ \A p \in Ops \ {o} : op'[p] = op[p]
    BY <2>1, GoesTo
  <2> QED BY <2>2, <2>3, VerifiedKept
<1>8. ASSUME NEW o \in Ops, LogOutAll(o)
      PROVE  VerifiedInv'
  <2>1. PICK pc \in {"done"} : Goes(o, pc) BY <1>8 DEF LogOutAll, Goes, OpsOK
  <2>2. UNCHANGED <<outdated, straggler>> BY <1>8 DEF LogOutAll, user, history
  <2>3. /\ op'[o].pc = pc /\ op'[o].user = op[o].user /\ op'[o].target = op[o].target
        /\ op'[o].password = op[o].password /\ \A p \in Ops \ {o} : op'[p] = op[p]
    BY <2>1, GoesTo
  <2> QED BY <2>2, <2>3, VerifiedKept
<1>9. ASSUME NEW o \in Ops, CheckOwn(o)
      PROVE  VerifiedInv'
  <2>1. PICK pc \in {"checked", "refused"} : Goes(o, pc) BY <1>9 DEF CheckOwn, Goes, OpsOK
  <2>2. UNCHANGED <<outdated, straggler>> BY <1>9 DEF CheckOwn, user, history
  <2>3. /\ op'[o].pc = pc /\ op'[o].user = op[o].user /\ op'[o].target = op[o].target
        /\ op'[o].password = op[o].password /\ \A p \in Ops \ {o} : op'[p] = op[p]
    BY <2>1, GoesTo
  <2> QED BY <2>2, <2>3, VerifiedKept
<1>10. ASSUME NEW o \in Ops, SetPassword(o)
      PROVE  VerifiedInv'
  <2>1. /\ op'[o].pc \in {"purge", "done"} /\ \A p \in Ops \ {o} : op'[p] = op[p]
    BY <1>10, SetPasswordTo
  <2>2. UNCHANGED <<outdated, straggler>> BY <1>10 DEF SetPassword, history
  <2> QED BY <2>1, <2>2, VerifiedKept
<1>11. ASSUME NEW o \in Ops, Purge(o)
      PROVE  VerifiedInv'
  <2> DEFINE t == op[o].target
  <2>1. Goes(o, "done") BY <1>11 DEF Purge
  <2>2. op'[o].pc = "done" /\ \A p \in Ops \ {o} : op'[p] = op[p] BY <2>1, GoesTo
  <2>3. /\ outdated' = [outdated EXCEPT ![t] = Replaced(t)]
        /\ straggler' = straggler \cup Pending(t)
    BY <1>11 DEF Purge
  <2>4. \A p \in Ops : op[p].pc \in {"verified", "create"} /\ op[p].user = t => p \in Pending(t)
    BY DEF Pending, Logins
  <2>5. \A u \in Users : u # t => outdated'[u] = outdated[u] BY <2>3 DEF HistoryOK
  <2>6. SUFFICES ASSUME NEW p \in Ops, NEW u \in Users, op'[p].pc \in {"verified", "create"},
                        op'[p].user = u, op'[p].password \in outdated'[u]
                 PROVE  p \in straggler'
    BY DEF VerifiedInv
  <2>7. op'[p] = op[p] BY <2>2, <2>6
  <2>8. CASE u = t BY <2>3, <2>4, <2>6, <2>7, <2>8
  <2>9. CASE u # t BY <2>3, <2>5, <2>6, <2>7, <2>9 DEF VerifiedInv
  <2> QED BY <2>8, <2>9
<1>12. ASSUME NEW o \in Ops, Die(o)
      PROVE  VerifiedInv'
  <2>1. PICK pc \in {"died"} : Goes(o, pc) BY <1>12 DEF Die, Goes, OpsOK
  <2>2. UNCHANGED <<outdated, straggler>> BY <1>12 DEF Die, user, history
  <2>3. /\ op'[o].pc = pc /\ op'[o].user = op[o].user /\ op'[o].target = op[o].target
        /\ op'[o].password = op[o].password /\ \A p \in Ops \ {o} : op'[p] = op[p]
    BY <2>1, GoesTo
  <2> QED BY <2>2, <2>3, VerifiedKept
<1>13. ASSUME NEW o \in Ops, NEW u \in Users, RecordAttempt(o, u)
      PROVE  VerifiedInv'
  <2>1. op'[o].pc \notin {"verified", "create"} /\ UNCHANGED <<outdated, straggler>>
    BY <1>13 DEF RecordAttempt, Begin, user, history
  <2>2. \A p \in Ops \ {o} : op'[p] = op[p] BY <1>13 DEF RecordAttempt
  <2> QED BY <2>1, <2>2, VerifiedKept
<1>14. ASSUME NEW o \in Ops, NEW s \in Names, Logout(o, s)
      PROVE  VerifiedInv'
  <2>1. op'[o].pc \notin {"verified", "create"} /\ UNCHANGED <<outdated, straggler>>
    BY <1>14 DEF Logout, Begin, user, history
  <2>2. \A p \in Ops \ {o} : op'[p] = op[p] BY <1>14 DEF Logout
  <2> QED BY <2>1, <2>2, VerifiedKept
<1>15. ASSUME NEW o \in Ops, NEW s \in Names, NEW kind \in AdminKinds \cup {"visit",
            "change"}, NEW t \in Users, Find(o, s, kind, t)
      PROVE  VerifiedInv'
  <2>1. op'[o].pc \notin {"verified", "create"} /\ UNCHANGED <<outdated, straggler>>
    BY <1>15 DEF Find, Begin, user, history
  <2>2. \A p \in Ops \ {o} : op'[p] = op[p] BY <1>15 DEF Find
  <2> QED BY <2>1, <2>2, VerifiedKept
<1>16. ASSUME HourPasses PROVE VerifiedInv'
  BY <1>16 DEF HourPasses, VerifiedInv, user, history
<1>17. ASSUME UNCHANGED vars PROVE VerifiedInv'
  BY <1>17 DEF vars, VerifiedInv, user, history
<1> QED
  BY <1>1, <1>2, <1>3, <1>4, <1>5, <1>6, <1>7, <1>8, <1>9, <1>10, <1>11, <1>12,
     <1>13, <1>14, <1>15, <1>16, <1>17 DEF Next

LEMMA EndsStep ==
  ASSUME Typed, [Next]_vars, VerifiedInv, PasswordEndsSessions
  PROVE  PasswordEndsSessions'
<1> USE NamesFacts DEF Typed, VerifiedInv, PasswordEndsSessions, Live, OpsOK, SessionsOK, HistoryOK, OpRec
<1>1. ASSUME NEW o \in Ops, LookUp(o)
      PROVE  PasswordEndsSessions'
  BY <1>1 DEF LookUp, Goes, user, session, throttle, history
<1>2. ASSUME NEW o \in Ops, Succeed(o)
      PROVE  PasswordEndsSessions'
  BY <1>2 DEF Succeed, Goes, user, session, throttle, history
<1>3. ASSUME NEW o \in Ops, CreateSession(o)
      PROVE  PasswordEndsSessions'
  BY <1>3 DEF CreateSession, Goes, user, session, throttle, history
<1>4. ASSUME NEW o \in Ops, Renew(o)
      PROVE  PasswordEndsSessions'
  BY <1>4 DEF Renew, Goes, Live, user, session, throttle, history
<1>5. ASSUME NEW o \in Ops, DeleteSession(o)
      PROVE  PasswordEndsSessions'
  BY <1>5 DEF DeleteSession, Goes, Deleted, Live, user, session, throttle, history
<1>6. ASSUME NEW o \in Ops, Visit(o)
      PROVE  PasswordEndsSessions'
  BY <1>6 DEF Visit, Goes, user, session, throttle, history
<1>7. ASSUME NEW o \in Ops, SetStatus(o)
      PROVE  PasswordEndsSessions'
  BY <1>7 DEF SetStatus, Goes, user, session, throttle, history
<1>8. ASSUME NEW o \in Ops, LogOutAll(o)
      PROVE  PasswordEndsSessions'
  BY <1>8 DEF LogOutAll, Goes, Deleted, Live, user, session, throttle, history
<1>9. ASSUME NEW o \in Ops, CheckOwn(o)
      PROVE  PasswordEndsSessions'
  BY <1>9 DEF CheckOwn, Goes, user, session, throttle, history
<1>10. ASSUME NEW o \in Ops, SetPassword(o)
      PROVE  PasswordEndsSessions'
  BY <1>10 DEF SetPassword, user, session, throttle, history
<1>11. ASSUME NEW o \in Ops, Purge(o)
      PROVE  PasswordEndsSessions'
  <2> DEFINE t == op[o].target
  <2>1. SessionsOf(t) \in SUBSET Names /\ Deleted(SessionsOf(t)) BY <1>11 DEF Purge, SessionsOf
  <2>2. \A s \in Names : owner'[s] \in {Nobody, owner[s]}
                         /\ (s \in SessionsOf(t) => owner'[s] = Nobody)
    BY <2>1, DeletedFacts
  <2>3. /\ outdated' = [outdated EXCEPT ![t] = Replaced(t)]
        /\ straggler' = straggler \cup Pending(t) /\ opened' = opened
    BY <1>11 DEF Purge
  <2>4. SUFFICES ASSUME NEW s \in Names, owner'[s] # Nobody,
                        opened'[s] \in outdated'[owner'[s]]
                 PROVE  s \in straggler'
    BY DEF PasswordEndsSessions, Live
  <2>5. owner'[s] = owner[s] /\ owner[s] # t BY <2>2, <2>4 DEF SessionsOf
  <2>6. owner[s] \in Users BY <2>4, <2>5 DEF SessionsOK
  <2>7. outdated'[owner[s]] = outdated[owner[s]] BY <2>3, <2>5, <2>6 DEF HistoryOK
  <2> QED BY <2>3, <2>4, <2>5, <2>7 DEF PasswordEndsSessions, Live
<1>12. ASSUME NEW o \in Ops, Die(o)
      PROVE  PasswordEndsSessions'
  BY <1>12 DEF Die, Goes, user, session, throttle, history
<1>13. ASSUME NEW o \in Ops, NEW u \in Users, RecordAttempt(o, u)
      PROVE  PasswordEndsSessions'
  BY <1>13 DEF RecordAttempt, Begin, user, session, throttle, history
<1>14. ASSUME NEW o \in Ops, NEW s \in Names, Logout(o, s)
      PROVE  PasswordEndsSessions'
  BY <1>14 DEF Logout, Begin, Live, user, session, throttle, history
<1>15. ASSUME NEW o \in Ops, NEW s \in Names, NEW kind \in AdminKinds \cup {"visit",
            "change"}, NEW t \in Users, Find(o, s, kind, t)
      PROVE  PasswordEndsSessions'
  BY <1>15 DEF Find, Begin, Live, MayTarget, user, session, throttle, history
<1>16. ASSUME HourPasses PROVE PasswordEndsSessions'
  BY <1>16 DEF HourPasses, user, session, throttle, history
<1>17. ASSUME UNCHANGED vars PROVE PasswordEndsSessions'
  BY <1>17 DEF vars, user, session, throttle, history
<1> QED
  BY <1>1, <1>2, <1>3, <1>4, <1>5, <1>6, <1>7, <1>8, <1>9, <1>10, <1>11, <1>12,
     <1>13, <1>14, <1>15, <1>16, <1>17 DEF Next

-----------------------------------------------------------------------------
(* The theorems.                                                           *)

IInv ==
  /\ Typed /\ Fresh /\ DeletedStays /\ Logins /\ Disabling /\ AdminRemains
  /\ NotYet /\ PresentNotOutdated /\ VerifiedInv /\ PasswordEndsSessions

LEMMA InitInv == Init => IInv
<1> SUFFICES ASSUME Init PROVE IInv OBVIOUS
<1> USE NamesFacts DEF Init, Begin
<1>1. Typed BY InitType
<1>2. Fresh /\ DeletedStays BY AccountsAssumption DEF Fresh, DeletedStays, Names
<1>3. Logins /\ Disabling /\ NotYet BY DEF Logins, Disabling, NotYet
<1>4. AdminRemains BY AccountsAssumption DEF AdminRemains
<1>5. PresentNotOutdated /\ VerifiedInv BY DEF PresentNotOutdated, Ever, VerifiedInv
<1>6. PasswordEndsSessions
  <2>1. \A s \in Names : owner[s] \in Users \cup {Nobody} BY <1>1 DEF Typed, SessionsOK
  <2> QED BY <2>1 DEF PasswordEndsSessions, Live
<1> QED BY <1>1, <1>2, <1>3, <1>4, <1>5, <1>6 DEF IInv

LEMMA InvStep == IInv /\ [Next]_vars => IInv'
<1> SUFFICES ASSUME IInv, [Next]_vars PROVE IInv' OBVIOUS
<1> USE DEF IInv
<1>1. Typed' BY TypeStep
<1>2. Fresh' BY FreshStep
<1>3. DeletedStays' BY DeletedStep
<1>4. Logins' BY LoginsStep
<1>5. Disabling' BY DisablingStep
<1>6. AdminRemains' BY AdminStep
<1>7. NotYet' BY NotYetStep
<1>8. PresentNotOutdated' BY PresentStep
<1>9. VerifiedInv' BY VerifiedStep
<1>10. PasswordEndsSessions' BY EndsStep
<1> QED BY <1>1, <1>2, <1>3, <1>4, <1>5, <1>6, <1>7, <1>8, <1>9, <1>10

LEMMA Invariance == Spec => []IInv
BY InitInv, InvStep, PTL DEF Spec

\* Every reachable state is well typed.
THEOREM AccountsTypeOK == Spec => []TypeOK
<1>1. IInv => TypeOK BY TypeParts DEF IInv
<1> QED BY <1>1, Invariance, PTL

\* A session once deleted never lives again, renewals under way included.
THEOREM DeletedForEver == Spec => []DeletedStays
<1>1. IInv => DeletedStays BY DEF IInv
<1> QED BY <1>1, Invariance, PTL

\* After a password reset no session opened with an older password lives, but
\* those of logins that had read the user before.
THEOREM ResetEndsSessions == Spec => []PasswordEndsSessions
<1>1. IInv => PasswordEndsSessions BY DEF IInv
<1> QED BY <1>1, Invariance, PTL

\* An active admin remains, unless one disabled another after being disabled.
THEOREM AnAdminRemains == Spec => []AdminRemains
<1>1. IInv => AdminRemains BY DEF IInv
<1> QED BY <1>1, Invariance, PTL

\* The throttle's entry is written by attempts and by successes alone.
LEMMA ThrottleKept ==
  ASSUME NEW o \in Ops,
         \/ LookUp(o) \/ CreateSession(o) \/ Renew(o) \/ DeleteSession(o) \/ Visit(o)
         \/ SetStatus(o) \/ LogOutAll(o) \/ CheckOwn(o) \/ SetPassword(o) \/ Purge(o)
         \/ Die(o) \/ \E s \in Names : Logout(o, s)
         \/ \E s \in Names, kind \in AdminKinds \cup {"visit", "change"}, t \in Users :
              Find(o, s, kind, t)
  PROVE  UNCHANGED throttle
BY DEF LookUp, CreateSession, Renew, DeleteSession, Visit, SetStatus, LogOutAll, CheckOwn,
       SetPassword, Purge, Die, Logout, Find

\* A blocked address stays blocked until its window is over, whatever logins
\* that had started before it was blocked succeed meanwhile.
THEOREM BlocksLast == Spec => BlockStays
<1> DEFINE Lasts == Blocked /\ resetAt > now => Blocked' /\ resetAt' = resetAt
<1>1. IInv /\ [Next]_vars => [Lasts]_vars
  <2> SUFFICES ASSUME IInv, [Next]_vars, Blocked, resetAt > now
               PROVE  Blocked' /\ resetAt' = resetAt
    OBVIOUS
  <2>1. /\ attempts \in Nat /\ resetAt \in Nat /\ now \in Nat /\ MaxAttempts \in Nat
    BY AccountsAssumption DEF IInv, Typed, CountersOK
  <2>2. UNCHANGED throttle => Blocked' /\ resetAt' = resetAt BY DEF throttle, Blocked
  <2>3. ASSUME NEW o \in Ops, NEW u \in Users, RecordAttempt(o, u)
        PROVE  UNCHANGED throttle
    <3>1. ~Expired BY <2>1 DEF Expired
    <3>2. CountedAfter = attempts BY <2>1, <3>1 DEF CountedAfter, Counted, Blocked
    <3> QED BY <2>3, <3>1, <3>2 DEF RecordAttempt, throttle
  <2>4. ASSUME NEW o \in Ops, Succeed(o) PROVE UNCHANGED throttle BY <2>4 DEF Succeed
  <2>5. HourPasses => UNCHANGED throttle BY DEF HourPasses
  <2>6. UNCHANGED vars => UNCHANGED throttle BY DEF vars
  <2> QED BY <2>2, <2>3, <2>4, <2>5, <2>6, ThrottleKept DEF Next
<1> QED BY <1>1, Invariance, PTL DEF Spec, BlockStays
=============================================================================
